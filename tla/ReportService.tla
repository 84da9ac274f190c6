---------------------------- MODULE ReportService ----------------------------
(***************************************************************************)
(* The way of a report from the controllers that write it to the client    *)
(* that asks for it: one controller of mirrors, one of analyses, and the   *)
(* HTTP server, in one process, on one directory of reports, one mounted   *)
(* volume and one bucket.                                                  *)
(*                                                                         *)
(* FileExporter.Write is a truncation, a write and a rename; a file is an  *)
(* inode, which names link to and which writers and readers hold open.  An *)
(* object store puts and gets a report as a whole.                         *)
(***************************************************************************)
EXTENDS Integers, FiniteSets

CONSTANTS
  Names,      \* names of objects; "<name>.mirops" is written as the name
  Chosen,     \* names that a user may give to a report
  Choices,    \* Choices[o]: the destinations its user may ask for object o
  Inodes,
  NoPath,     \* spec.source.path, or key, is not set
  \* Bounds of the explored behaviours, not of the system:
  MaxEdits, MaxWrites, MaxFaults, MaxCrashes

Kinds == {"ClusterMirror", "UpgradeAnalysis"}
Objects == [kind : Kinds, name : Names]
ReportNames == Names \cup Chosen
\* spec.source: type, and path (file) or key (s3).
Source == [type : {"file", "pvc", "s3"}, path : Chosen \cup {NoPath}]
Absent == [type |-> "none", path |-> NoPath]

ASSUME ServiceAssumption ==
  /\ NoPath \notin ReportNames
  /\ Choices \in [Objects -> SUBSET Source]
  /\ Inodes \subseteq Nat \ {0}

VARIABLES
  synced,    \* whether the manager, and with it its cache, has started
  source,    \* source[o]: spec.source in the operator's cache, or Absent
  files,     \* files[i]: what inode i holds
  links,     \* links[p]: the inode that path p names, 0 for none
  bucket,    \* bucket[k]: the object under key k
  writer,    \* writer[k]: the export that the controller of kind k is at
  handler,   \* the request that is being served, and its response
  spent,     \* how much of each bound has been used
  published, \* history: the last export of each object that succeeded
  asked      \* history: the destinations that were asked for, by object

vars == <<synced, source, files, links, bucket, writer, handler, spent, published, asked>>
history == <<published, asked>>
storage == <<files, links, bucket>>

-----------------------------------------------------------------------------
(* Where a report goes.                                                    *)

Remote == {"pvc", "s3"}
IsRemote(s) == s.type \in Remote

\* The basename of the path, if the user sets one.
LocalReportName(name, s) ==
  IF s.type = "file" /\ s.path # NoPath THEN s.path ELSE name

ReportObjectName(configured, name) ==
  IF configured # NoPath THEN configured ELSE name

\* buildExporter, for the remote destinations.
Exporter(name, s) ==
  IF s.type = "s3" THEN [at |-> "bucket", name |-> ReportObjectName(s.path, name)]
  ELSE [at |-> "volume", name |-> ReportObjectName(NoPath, name)]

\* The switch of the analysis controller, publishReport of the mirrors'.
WrittenTo(name, s) ==
  IF IsRemote(s) THEN Exporter(name, s)
  ELSE [at |-> "reports", name |-> LocalReportName(name, s)]

\* The server's.
ReadFromOwnName(name, s) ==
  IF IsRemote(s) THEN Exporter(name, s) ELSE [at |-> "reports", name |-> name]
ReadFrom(name, s) ==
  IF IsRemote(s) THEN Exporter(name, s)
  ELSE [at |-> "reports", name |-> LocalReportName(name, s)]

Paths == [at : {"reports", "volume"}, name : ReportNames, tmp : BOOLEAN]
FinalPath(d) == [at |-> d.at, name |-> d.name, tmp |-> FALSE]
TmpPathNone(d) == FinalPath(d)
TmpPath(d) == [at |-> d.at, name |-> d.name, tmp |-> TRUE]

-----------------------------------------------------------------------------
NoObject == [kind |-> "", name |-> NoPath]
Nothing == [by |-> NoObject, seq |-> 0, whole |-> FALSE]
Report(o, n) == [by |-> o, seq |-> n, whole |-> TRUE]
NoPlace == [at |-> "", name |-> NoPath]

Idle == [pc |-> "idle", obj |-> NoObject, source |-> Absent, to |-> NoPlace,
         inode |-> 0, seq |-> 0]
NoRequest == [pc |-> "idle", obj |-> NoObject, from |-> NoPlace, inode |-> 0,
              early |-> FALSE, floor |-> 0, code |-> 0, body |-> Nothing]
NeverPublished == [seq |-> 0, source |-> Absent]

UseFault == /\ spent.faults < MaxFaults
            /\ spent' = [spent EXCEPT !.faults = @ + 1]

-----------------------------------------------------------------------------
(* The user creates, edits and deletes objects.                            *)

UserSets(o, s) ==
  /\ spent.edits < MaxEdits /\ s # source[o]
  /\ source' = [source EXCEPT ![o] = s]
  /\ spent' = [spent EXCEPT !.edits = @ + 1]
  /\ asked' = IF s = Absent THEN asked
              ELSE [asked EXCEPT ![o] = @ \cup {WrittenTo(o.name, s)}]
  /\ UNCHANGED <<synced, storage, writer, handler, published>>

-----------------------------------------------------------------------------
(* A controller exports a report: one at a time, of any of its objects.    *)

ExportBegins(o) ==
  /\ synced /\ writer[o.kind].pc = "idle" /\ source[o] # Absent
  /\ spent.writes < MaxWrites
  /\ LET d == WrittenTo(o.name, source[o])
     IN writer' = [writer EXCEPT ![o.kind] =
          [pc |-> IF d.at = "bucket" THEN "putting" ELSE "opening",
           obj |-> o, source |-> source[o], to |-> d, inode |-> 0,
           seq |-> spent.writes + 1]]
  /\ spent' = [spent EXCEPT !.writes = @ + 1]
  /\ UNCHANGED <<synced, source, storage, handler, history>>

Held == {writer[k].inode : k \in Kinds} \cup {handler.inode}
Free == {i \in Inodes : i \notin Held /\ \A p \in Paths : links[p] # i}
\* The one a new file gets.
NewInode == {i \in Free : \A j \in Free : i <= j}

OpenTmpUnlinking(k) ==
  /\ writer[k].pc = "opening"
  /\ \E i \in NewInode :
        /\ links' = [links EXCEPT ![TmpPath(writer[k].to)] = i,
                                  ![FinalPath(writer[k].to)] = 0]
        /\ files' = [files EXCEPT ![i] = Nothing]
        /\ writer' = [writer EXCEPT ![k].pc = "filling", ![k].inode = i]
  /\ UNCHANGED <<synced, source, bucket, handler, spent, history>>

\* os.WriteFile opens the temporary file, creating or truncating it...
OpenTmp(k) ==
  /\ writer[k].pc = "opening"
  /\ LET p == TmpPath(writer[k].to)
     IN \E i \in IF links[p] # 0 THEN {links[p]} ELSE NewInode :
          /\ links' = [links EXCEPT ![p] = i]
          /\ files' = [files EXCEPT ![i] = Nothing]
          /\ writer' = [writer EXCEPT ![k].pc = "filling", ![k].inode = i]
  /\ UNCHANGED <<synced, source, bucket, handler, spent, history>>

\* ...and writes to it. Two writers of one inode may leave a mixture, if the
\* one that comes second has less to write.
FillTmp(k) ==
  LET mine == Report(writer[k].obj, writer[k].seq)
      i == writer[k].inode
  IN /\ writer[k].pc = "filling"
     /\ \/ files' = [files EXCEPT ![i] = mine]
        \/ /\ files[i].whole
           /\ files' = [files EXCEPT ![i] = [mine EXCEPT !.whole = FALSE]]
     /\ writer' = [writer EXCEPT ![k].pc = "renaming", ![k].inode = 0]
     /\ UNCHANGED <<synced, source, links, bucket, handler, spent, history>>

Publishes(k) ==
  published' = [published EXCEPT ![writer[k].obj] =
                  [seq |-> writer[k].seq, source |-> writer[k].source]]

Rename(k) ==
  LET d == writer[k].to
  IN /\ writer[k].pc = "renaming" /\ links[TmpPath(d)] # 0
     /\ links' = [p \in Paths |->
                    CASE p = FinalPath(d) -> links[TmpPath(d)]
                      [] p = TmpPath(d) /\ p # FinalPath(d) -> 0
                      [] OTHER -> links[p]]
     /\ Publishes(k)
     /\ writer' = [writer EXCEPT ![k] = Idle]
     /\ UNCHANGED <<synced, source, files, bucket, handler, spent, asked>>

\* Another writer has renamed the temporary file away.
RenameFails(k) ==
  /\ writer[k].pc = "renaming" /\ links[TmpPath(writer[k].to)] = 0
  /\ writer' = [writer EXCEPT ![k] = Idle]
  /\ UNCHANGED <<synced, source, storage, handler, spent, history>>

PutObject(k) ==
  /\ writer[k].pc = "putting"
  /\ bucket' = [bucket EXCEPT ![writer[k].to.name] =
                  Report(writer[k].obj, writer[k].seq)]
  /\ Publishes(k)
  /\ writer' = [writer EXCEPT ![k] = Idle]
  /\ UNCHANGED <<synced, source, files, links, handler, spent, asked>>

\* No directory, no space left (before, or in the middle of the file), no
\* credentials, no connection.
ExportFails(k) ==
  /\ writer[k].pc \in {"opening", "filling", "putting"}
  /\ UseFault
  /\ writer' = [writer EXCEPT ![k] = Idle]
  /\ UNCHANGED <<synced, source, storage, handler, history>>

-----------------------------------------------------------------------------
(* ReportServer.ServeHTTP.                                                 *)

Answer(code, body) ==
  handler' = [handler EXCEPT !.pc = "answered", !.code = code, !.body = body,
                             !.inode = 0]

\* The object the report belongs to is found by the name of the report and by
\* ?kind=; what was already published is the least the client may expect. The
\* server starts before the manager does: until then it finds no object.
ServeRequest(o) ==
  /\ handler.pc \in {"idle", "answered"}
  /\ LET known == published[o].source = source[o]
         found == synced /\ source[o] # Absent
     IN handler' =
          [pc |-> IF found THEN "reading" ELSE "answered",
           obj |-> o,
           from |-> IF found THEN ReadFrom(o.name, source[o]) ELSE NoPlace,
           inode |-> 0, early |-> ~synced,
           floor |-> IF known THEN published[o].seq ELSE 0,
           code |-> IF found THEN 0 ELSE 404,
           body |-> Nothing]
  /\ UNCHANGED <<synced, source, storage, writer, spent, history>>

ServeOpen ==
  /\ handler.pc = "reading" /\ handler.from.at # "bucket"
  /\ LET i == links[FinalPath(handler.from)]
     IN IF i = 0 THEN Answer(404, Nothing)
        ELSE handler' = [handler EXCEPT !.pc = "opened", !.inode = i]
  /\ UNCHANGED <<synced, source, storage, writer, spent, history>>

ServeRead ==
  /\ handler.pc = "opened"
  /\ Answer(200, files[handler.inode])
  /\ UNCHANGED <<synced, source, storage, writer, spent, history>>

ServeGet ==
  /\ handler.pc = "reading" /\ handler.from.at = "bucket"
  /\ LET r == bucket[handler.from.name]
     IN Answer(IF r = Nothing THEN 404 ELSE 200, r)
  /\ UNCHANGED <<synced, source, storage, writer, spent, history>>

\* No credentials, no connection, no right to read.
ServeFails ==
  /\ handler.pc \in {"reading", "opened"}
  /\ UseFault
  /\ Answer(IF handler.from.at = "reports" THEN 404 ELSE 502, Nothing)
  /\ UNCHANGED <<synced, source, storage, writer, history>>

-----------------------------------------------------------------------------
(* The process ends; with its pod, the directory of reports goes too.  The *)
(* next one starts the server first, and the manager when all is set up.   *)

Stopped ==
  /\ spent.crashes < MaxCrashes
  /\ spent' = [spent EXCEPT !.crashes = @ + 1]
  /\ writer' = [k \in Kinds |-> Idle] /\ handler' = NoRequest
  /\ synced' = FALSE

ManagerStarts ==
  /\ ~synced /\ synced' = TRUE
  /\ UNCHANGED <<source, storage, writer, handler, spent, history>>

Crash ==
  /\ Stopped
  /\ UNCHANGED <<source, storage, history>>

PodReplaced ==
  /\ Stopped
  /\ links' = [p \in Paths |-> IF p.at = "reports" THEN 0 ELSE links[p]]
  /\ published' = [o \in Objects |-> IF IsRemote(published[o].source)
                                     THEN published[o] ELSE NeverPublished]
  /\ UNCHANGED <<source, files, bucket, asked>>

-----------------------------------------------------------------------------
Init ==
  /\ synced = FALSE
  /\ source = [o \in Objects |-> Absent]
  /\ files = [i \in Inodes |-> Nothing]
  /\ links = [p \in Paths |-> 0]
  /\ bucket = [n \in ReportNames |-> Nothing]
  /\ writer = [k \in Kinds |-> Idle]
  /\ handler = NoRequest
  /\ spent = [edits |-> 0, writes |-> 0, faults |-> 0, crashes |-> 0]
  /\ published = [o \in Objects |-> NeverPublished]
  /\ asked = [o \in Objects |-> {}]

Export ==
  \/ \E o \in Objects : ExportBegins(o)
  \/ \E k \in Kinds :
       \/ OpenTmp(k)
       \/ FillTmp(k)
       \/ Rename(k)
       \/ RenameFails(k)
       \/ PutObject(k)
       \/ ExportFails(k)

Serve ==
  \/ \E o \in Objects : ServeRequest(o)
  \/ ServeOpen
  \/ ServeRead
  \/ ServeGet
  \/ ServeFails

Next ==
  \/ \E o \in Objects : \E s \in Choices[o] \cup {Absent} : UserSets(o, s)
  \/ Export
  \/ Serve
  \/ Crash
  \/ PodReplaced
  \/ ManagerStarts

Spec == Init /\ [][Next]_vars

-----------------------------------------------------------------------------
(* Properties.                                                             *)

ObjectOrNone == Objects \cup {NoObject}
ReportType == [by : ObjectOrNone, seq : Nat, whole : BOOLEAN]
Place == [at : {"reports", "volume", "bucket"}, name : ReportNames] \cup {NoPlace}

\* Every variable keeps its type.
TypeOK ==
  /\ synced \in BOOLEAN
  /\ source \in [Objects -> Source \cup {Absent}]
  /\ files \in [Inodes -> ReportType]
  /\ links \in [Paths -> Inodes \cup {0}]
  /\ bucket \in [ReportNames -> ReportType]
  /\ writer \in [Kinds ->
       [pc : {"idle", "opening", "filling", "renaming", "putting"},
        obj : ObjectOrNone, source : Source \cup {Absent}, to : Place,
        inode : Inodes \cup {0}, seq : Nat]]
  /\ handler \in [pc : {"idle", "reading", "opened", "answered"},
                  obj : ObjectOrNone, from : Place, inode : Inodes \cup {0},
                  early : BOOLEAN, floor : Nat, code : {0, 200, 404, 502}, body : ReportType]
  /\ spent \in [edits : Nat, writes : Nat, faults : Nat, crashes : Nat]
  /\ published \in [Objects -> [seq : Nat, source : Source \cup {Absent}]]
  /\ asked \in [Objects -> SUBSET Place]

\* No two objects ever asked for the same destination.
Separate == \A o, p \in Objects : o # p => asked[o] \cap asked[p] = {}

\* "The reports server never hands out a half-written report", whatever fails
\* in the middle of an export and whenever a client asks.
WholeReport == handler.code = 200 => handler.body.whole
NoHalfReport == Separate => WholeReport

\* "A mirror and an analysis never answer for each other", and "a controller's
\* write and the reports server's read-back always agree": what is served is a
\* report of the object asked for, the one that was published before the request
\* is served, or a later one.
ReadYourWrites == Separate /\ handler.code = 200
                    => /\ handler.body.by = handler.obj
                       /\ handler.body.seq >= handler.floor

\* A report that was published does not vanish while it is replaced: only what
\* is "not written yet" is not found, and while the process starts up what it
\* does not know of yet. True even of objects that share a destination, with all
\* their writes interleaved.
NeverVanishes ==
  handler.code = 404 /\ spent.faults = 0 => handler.floor = 0 \/ handler.early
=============================================================================
