\* One collection while two objects change and one list fails, at any call.
SPECIFICATION Spec
CONSTANTS
  Objects <- MCObjects
  KindOf <- MCKindOf
  NamespaceOf <- MCNamespaceOf
  OwnerOf <- MCOwnerOf
  StatesOf <- MCStatesOf
  InitialClusters <- MCInitialClusters
  SystemNamespaces = {"kube-system"}
  Mode = "application"
  ExcludeNamespaces = {}
  Addons = {"cert-manager"}
  Deployments <- MCDeployments
  DaemonSets <- MCDaemonSets
  CRDGroups <- MCCRDGroups
  Absent = Absent
  NoOwner = NoOwner
  NoNode = NoNode
  NoClass = NoClass
  Pending <- MCPending
  Failed <- MCFailed
  MaxChanges = 2
  MaxFailures = 1
INVARIANTS
  TypeOK
  OneChangeIsOneMoment
  ViewsAgree
  EveryFailureHasAPlace
PROPERTIES
  KeepsInterval
CHECK_DEADLOCK FALSE
