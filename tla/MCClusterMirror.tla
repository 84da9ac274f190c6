-------------------------- MODULE MCClusterMirror --------------------------
(* Instances of ClusterMirror for TLC.                                     *)
EXTENDS ClusterMirror

Local == [scope |-> "all", source |-> "file", interval |-> 1]
\* No interval: the default of the controller.
Remote == [scope |-> "some", source |-> "s3", interval |-> 0]

LocalAndRemote == {Local, Remote}
=============================================================================
