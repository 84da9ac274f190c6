-------------------------- MODULE MCReportService --------------------------
(* Instances of ReportService for TLC.                                     *)
EXTENDS ReportService

CONSTANTS prod, custom

File == [type |-> "file", path |-> NoPath]
Named == [type |-> "file", path |-> custom]
Volume == [type |-> "pvc", path |-> NoPath]
Keyed == [type |-> "s3", path |-> custom]

\* A mirror and an analysis of one name, on destinations of their own or on one.
Various ==
  [o \in Objects |-> IF o.kind = "ClusterMirror" THEN {File}
                     ELSE {File, Named, Volume, Keyed}]
=============================================================================
