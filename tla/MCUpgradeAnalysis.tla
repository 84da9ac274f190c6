------------------------- MODULE MCUpgradeAnalysis -------------------------
(* Instances of UpgradeAnalysis for TLC.                                   *)
EXTENDS UpgradeAnalysis

Ask(target, scope, ai, source) ==
  [target |-> target, scope |-> scope, ai |-> ai, remediation |-> ai = "other",
   source |-> source]

\* The cluster runs version 1; an upgrade brings it to 2. "some" leaves one
\* namespace out, with a pod and a restart of its own, and the rows that the
\* prompt shows.
Cluster(version, pods, restarts, rows) ==
  [version |-> version,
   pods |-> [all |-> pods, some |-> pods - 1],
   restarts |-> [all |-> restarts, some |-> restarts - 1],
   rows |-> [all |-> rows, some |-> 0]]
Calm == Cluster(1, 3, 1, 0)
Shrunk == Cluster(1, 2, 3, 2)
Upgraded == Cluster(2, 3, 1, 0)

CalmToShrunk == {Calm, Shrunk}
CalmToUpgraded == {Calm, Upgraded}

Plain == Ask(2, "all", "off", "file")
Remedied == Ask(2, "all", "other", "file")
Remote == Ask(2, "some", "default", "s3")
Further == Ask(3, "all", "off", "file")

PlainAndFurther == {Plain, Further}
RemoteAndRemedied == {Remote, Remedied}
=============================================================================
