------------------------- MODULE ReportServiceProofs -------------------------
(***************************************************************************)
(* What a client of the report server is answered, proved for any number   *)
(* of objects, names, destinations and inodes, and any bounds.             *)
(***************************************************************************)
EXTENDS ReportService, TLAPS

Slots == Place \ {NoPlace}

\* What a destination holds.
Stored(d) ==
  IF d.at = "bucket" THEN bucket[d.name] # Nothing ELSE links[FinalPath(d)] # 0
Content(d) ==
  IF d.at = "bucket" THEN bucket[d.name] ELSE files[links[FinalPath(d)]]

\* The destinations of an object's source, export and last report were asked for;
\* and what was exported is still there.
Addressed ==
  /\ \A o \in Objects : source[o] # Absent => WrittenTo(o.name, source[o]) \in asked[o]
  /\ \A k \in Kinds : writer[k].pc # "idle" =>
       /\ writer[k].obj \in Objects /\ writer[k].obj.kind = k
       /\ writer[k].source \in Source
       /\ writer[k].to = WrittenTo(writer[k].obj.name, writer[k].source)
       /\ writer[k].to \in asked[writer[k].obj]
       /\ writer[k].pc = "putting" <=> writer[k].to.at = "bucket"
       /\ writer[k].seq <= spent.writes
  /\ \A o \in Objects :
       IF published[o].source = Absent THEN published[o].seq = 0
       ELSE /\ WrittenTo(o.name, published[o].source) \in asked[o]
            /\ Stored(WrittenTo(o.name, published[o].source))

\* The server reads a destination of the object it was asked for, at which there
\* is a report if one was published before.
Requested ==
  /\ handler.pc \in {"reading", "opened"} =>
       /\ handler.obj \in Objects
       /\ handler.from \in asked[handler.obj] \cap Slots
  /\ handler.pc = "reading" => handler.floor = 0 \/ Stored(handler.from)
  /\ handler.inode # 0 <=> handler.pc = "opened"

\* A file has one name, and is held open by who is at it.
LinkedOnce ==
  /\ \A p, q \in Paths : links[p] = links[q] /\ links[p] # 0 => p = q
  /\ \A k \in Kinds : writer[k].inode # 0 <=> writer[k].pc = "filling"

\* The temporary file of a writer is its own, from the truncation to the rename.
WriterInPlace ==
  \A k \in Kinds :
    /\ writer[k].pc = "filling" =>
         /\ links[TmpPath(writer[k].to)] = writer[k].inode
         /\ ~files[writer[k].inode].whole
    /\ writer[k].pc = "renaming" =>
         /\ links[TmpPath(writer[k].to)] # 0
         /\ files[links[TmpPath(writer[k].to)]] = Report(writer[k].obj, writer[k].seq)

\* What is stored is whole, of an object that asked for the place, and older
\* than what its controller is about to export.
ContentOwned ==
  \A d \in Slots : Stored(d) =>
    /\ Content(d).whole /\ Content(d).by \in Objects /\ d \in asked[Content(d).by]
    /\ Content(d).seq <= spent.writes
    /\ writer[Content(d).by.kind].pc # "idle" =>
         Content(d).seq < writer[Content(d).by.kind].seq

PublishedInPlace ==
  \A o \in Objects : published[o].source # Absent =>
    Content(WrittenTo(o.name, published[o].source)).seq = published[o].seq

\* What the server is going to answer with is new enough, and what it has opened
\* is no longer written to.
HandlerServed ==
  /\ handler.pc = "reading" /\ Stored(handler.from) =>
       Content(handler.from).seq >= handler.floor
  /\ handler.pc = "opened" =>
       /\ files[handler.inode].whole /\ files[handler.inode].by = handler.obj
       /\ files[handler.inode].seq >= handler.floor
       /\ \A p \in Paths : p.tmp => links[p] # handler.inode
  /\ handler.code = 200 =>
       /\ handler.body.whole /\ handler.body.by = handler.obj
       /\ handler.body.seq >= handler.floor

InOrder == WriterInPlace /\ ContentOwned /\ PublishedInPlace /\ HandlerServed

\* The strengthening under which the properties are inductive.
IInv ==
  /\ TypeOK /\ Addressed /\ Requested /\ LinkedOnce /\ NeverVanishes
  /\ Separate => InOrder

-----------------------------------------------------------------------------
(* Destinations and paths.                                                 *)

LEMMA Addresses ==
  ASSUME NEW o \in Objects, NEW s \in Source
  PROVE  /\ WrittenTo(o.name, s) \in Slots
         /\ ReadFrom(o.name, s) = WrittenTo(o.name, s)
         /\ s # Absent
<1>1. /\ o.name \in Names /\ s.type \in {"file", "pvc", "s3"}
      /\ s.path \in Chosen \cup {NoPath} /\ NoPath \notin ReportNames
  BY ServiceAssumption DEF Objects, Source
<1>2. LocalReportName(o.name, s) \in ReportNames
  BY <1>1 DEF LocalReportName, ReportNames
<1>3. ReportObjectName(s.path, o.name) \in ReportNames
      /\ ReportObjectName(NoPath, o.name) \in ReportNames
  BY <1>1 DEF ReportObjectName, ReportNames
<1>4. WrittenTo(o.name, s) \in Slots
  BY <1>2, <1>3 DEF WrittenTo, Exporter, Slots, Place, NoPlace
<1> QED BY <1>1, <1>4 DEF WrittenTo, ReadFrom, Absent

LEMMA PathsOf ==
  ASSUME NEW d \in Slots
  PROVE  /\ d.at \in {"reports", "volume", "bucket"} /\ d.name \in ReportNames
         /\ d.at # "bucket" => FinalPath(d) \in Paths /\ TmpPath(d) \in Paths
         /\ ~FinalPath(d).tmp /\ TmpPath(d).tmp
         /\ \A e \in Slots : /\ FinalPath(d) = FinalPath(e) => d = e
                             /\ TmpPath(d) = TmpPath(e) => d = e
                             /\ d.at = e.at /\ d.name = e.name => d = e
<1> DEFINE Places == [at : {"reports", "volume", "bucket"}, name : ReportNames]
<1>1. \A e \in Slots : e \in Places
  BY DEF Slots, Place
<1>2. \A e, f \in Places : e.at = f.at /\ e.name = f.name => e = f
  OBVIOUS
<1>3. \A e : /\ FinalPath(e).at = e.at /\ FinalPath(e).name = e.name /\ ~FinalPath(e).tmp
             /\ TmpPath(e).at = e.at /\ TmpPath(e).name = e.name /\ TmpPath(e).tmp
  BY DEF FinalPath, TmpPath
<1>4. d.at # "bucket" => FinalPath(d) \in Paths /\ TmpPath(d) \in Paths
  BY <1>1 DEF FinalPath, TmpPath, Paths
<1> QED BY <1>1, <1>2, <1>3, <1>4

LEMMA AbsentIsNoSource == Absent \notin Source
BY DEF Absent, Source

\* A destination tells its object.
LEMMA AskedOnce ==
  ASSUME Separate, NEW o \in Objects, NEW p \in Objects, NEW d,
         d \in asked[o], d \in asked[p]
  PROVE  o = p
BY DEF Separate

LEMMA ReportTyped ==
  ASSUME NEW o \in Objects, NEW n \in Nat
  PROVE  /\ Report(o, n) \in ReportType /\ Nothing \in ReportType
         /\ Report(o, n).by = o /\ Report(o, n).seq = n /\ Report(o, n).whole
         /\ ~Nothing.whole /\ Report(o, n) # Nothing
BY DEF Report, Nothing, ReportType, ObjectOrNone

-----------------------------------------------------------------------------
(* Types.                                                                  *)

ExportRecord ==
  [pc : {"idle", "opening", "filling", "renaming", "putting"},
   obj : ObjectOrNone, source : Source \cup {Absent}, to : Place,
   inode : Inodes \cup {0}, seq : Nat]
Request ==
  [pc : {"idle", "reading", "opened", "answered"},
   obj : ObjectOrNone, from : Place, inode : Inodes \cup {0},
   early : BOOLEAN, floor : Nat, code : {0, 200, 404, 502}, body : ReportType]
Counters == [edits : Nat, writes : Nat, faults : Nat, crashes : Nat]

LEMMA NothingTyped ==
  /\ Nothing \in ReportType /\ NoPlace \in Place /\ NoObject \in ObjectOrNone
  /\ Idle \in ExportRecord /\ Idle.pc = "idle" /\ Idle.inode = 0
  /\ NoRequest \in Request /\ NoRequest.pc = "idle" /\ NoRequest.inode = 0
  /\ NoRequest.code = 0 /\ ~NoRequest.early
  /\ NeverPublished \in [seq : Nat, source : Source \cup {Absent}]
  /\ NeverPublished.seq = 0 /\ NeverPublished.source = Absent
<1>1. Nothing \in ReportType /\ NoPlace \in Place /\ NoObject \in ObjectOrNone
  BY DEF Nothing, ReportType, Place, ObjectOrNone
<1>2. Idle \in ExportRecord /\ Idle.pc = "idle" /\ Idle.inode = 0
  BY <1>1 DEF Idle, ExportRecord
<1>3. /\ NoRequest \in Request /\ NoRequest.pc = "idle" /\ NoRequest.inode = 0
      /\ NoRequest.code = 0 /\ ~NoRequest.early
  BY <1>1 DEF NoRequest, Request
<1> QED BY <1>1, <1>2, <1>3 DEF NeverPublished

\* The counters only grow.
LEMMA Counting ==
  ASSUME NEW n \in {"edits", "writes", "faults", "crashes"}, NEW s \in Counters,
         NEW t, t = [s EXCEPT ![n] = @ + 1]
  PROVE  t \in Counters /\ t[n] = s[n] + 1
BY DEF Counters

LEMMA FaultTyped ==
  ASSUME TypeOK, UseFault
  PROVE  /\ spent' \in Counters /\ spent'.faults # 0 /\ spent'.writes = spent.writes
BY DEF TypeOK, UseFault, Counters

LEMMA AnswerTyped ==
  ASSUME TypeOK, NEW c \in {0, 200, 404, 502}, NEW b \in ReportType, Answer(c, b)
  PROVE  /\ handler' \in Request /\ handler'.pc = "answered" /\ handler'.inode = 0
         /\ handler'.code = c /\ handler'.body = b
         /\ handler'.obj = handler.obj /\ handler'.from = handler.from
         /\ handler'.floor = handler.floor /\ handler'.early = handler.early
<1>1. handler \in Request
  BY DEF TypeOK, Request
<1>2. handler' = [pc |-> "answered", obj |-> handler.obj, from |-> handler.from,
                  inode |-> 0, early |-> handler.early, floor |-> handler.floor,
                  code |-> c, body |-> b]
  BY <1>1 DEF Answer, Request
<1>3. /\ handler.obj \in ObjectOrNone /\ handler.from \in Place
      /\ handler.early \in BOOLEAN /\ handler.floor \in Nat
  BY <1>1 DEF Request
<1> QED BY <1>2, <1>3 DEF Request

-----------------------------------------------------------------------------
(* The server.  Its steps change nothing but the request.                  *)

LEMMA ServerFrame ==
  ASSUME IInv, UNCHANGED <<synced, source, storage, writer, history>>,
         spent' = spent \/ UseFault, handler' \in Request
  PROVE  /\ TypeOK' /\ Addressed' /\ LinkedOnce'
         /\ Separate' => Separate /\ WriterInPlace' /\ ContentOwned' /\ PublishedInPlace'
         /\ Requested' /\ NeverVanishes' /\ (Separate' => HandlerServed') => IInv'
<1>0. /\ TypeOK /\ Addressed /\ LinkedOnce
      /\ Separate => WriterInPlace /\ ContentOwned /\ PublishedInPlace
  BY DEF IInv, InOrder
<1>1. spent' \in Counters /\ spent'.writes = spent.writes
  BY <1>0, FaultTyped DEF TypeOK, Counters
<1>2. UNCHANGED <<synced, source, files, links, bucket, writer, published, asked>>
  BY DEF storage, history
<1>3. TypeOK'
  BY <1>0, <1>1, <1>2 DEF TypeOK, Counters, Request
<1>4. Addressed'
  BY <1>0, <1>1, <1>2 DEF Addressed, Stored
<1>5. LinkedOnce'
  BY <1>0, <1>2 DEF LinkedOnce
<1>6. Separate' => Separate
  BY <1>2 DEF Separate
<1>7. Separate' => WriterInPlace'
  BY <1>0, <1>2, <1>6 DEF WriterInPlace
<1>8. Separate' => ContentOwned'
  BY <1>0, <1>1, <1>2, <1>6 DEF ContentOwned, Stored, Content
<1>9. Separate' => PublishedInPlace'
  BY <1>0, <1>2, <1>6 DEF PublishedInPlace, Content
<1> QED BY <1>3, <1>4, <1>5, <1>6, <1>7, <1>8, <1>9 DEF IInv, InOrder

LEMMA ServeRequestStep ==
  ASSUME IInv, NEW o \in Objects, ServeRequest(o)
  PROVE  IInv'
<1> DEFINE found == synced /\ source[o] # Absent
           known == published[o].source = source[o]
           at == WrittenTo(o.name, source[o])
<1>0. /\ TypeOK /\ Addressed
      /\ Separate => ContentOwned /\ PublishedInPlace
  BY DEF IInv, InOrder
<1>1. /\ published[o].seq \in Nat /\ synced \in BOOLEAN
      /\ found => source[o] \in Source
  BY <1>0 DEF TypeOK
<1>2. found => /\ at \in Slots /\ at \in asked[o]
               /\ ReadFrom(o.name, source[o]) = at
  BY <1>0, <1>1, Addresses DEF Addressed
<1> DEFINE floor == IF known THEN published[o].seq ELSE 0
<1>3. floor \in Nat
  BY <1>1
<1>4. /\ handler' \in Request
      /\ handler'.pc = IF found THEN "reading" ELSE "answered"
      /\ handler'.code = IF found THEN 0 ELSE 404
      /\ handler'.obj = o /\ handler'.from = IF found THEN at ELSE NoPlace
      /\ handler'.early = ~synced /\ handler'.floor = floor /\ handler'.inode = 0
  <2> DEFINE pc == IF found THEN "reading" ELSE "answered"
             code == IF found THEN 0 ELSE 404
             from == IF found THEN ReadFrom(o.name, source[o]) ELSE NoPlace
             early == ~synced
  <2>1. handler' = [pc |-> pc, obj |-> o, from |-> from, inode |-> 0, early |-> early,
                    floor |-> floor, code |-> code, body |-> Nothing]
    BY DEF ServeRequest
  <2>2. /\ pc \in {"reading", "answered"} /\ code \in {0, 404} /\ early \in BOOLEAN
        /\ o \in ObjectOrNone
    BY DEF ObjectOrNone
  <2>3. from = (IF found THEN at ELSE NoPlace) /\ from \in Place
    BY <1>2, NothingTyped DEF Slots
  <2>4. Nothing \in ReportType
    BY NothingTyped
  <2> HIDE DEF floor, pc, code, from, early
  <2>5. handler' \in Request
    BY <1>3, <2>1, <2>2, <2>3, <2>4 DEF Request
  <2>6. /\ handler'.pc = pc /\ handler'.code = code
        /\ handler'.obj = o /\ handler'.from = from /\ handler'.early = early
        /\ handler'.floor = floor /\ handler'.inode = 0
    BY <2>1
  <2> QED BY <2>3, <2>5, <2>6 DEF pc, code, early
<1>6. /\ UNCHANGED <<synced, source, storage, writer, history>> /\ spent' = spent
      /\ UNCHANGED <<source, files, links, bucket, published, asked>>
  BY DEF ServeRequest, storage, history
<1>7. found /\ known => /\ published[o].source = source[o] /\ published[o].source # Absent
                        /\ Stored(at)
                        /\ PublishedInPlace => Content(at).seq = published[o].seq
  BY <1>0 DEF Addressed, PublishedInPlace, at
<1>8. Requested'
  BY <1>2, <1>4, <1>6, <1>7 DEF Requested, Stored
<1>9. NeverVanishes'
  <2>1. CASE found
    BY <1>4, <2>1 DEF NeverVanishes
  <2>2. CASE ~synced
    <3>1. handler'.early
      BY <1>4, <2>2
    <3> QED BY <3>1 DEF NeverVanishes
  <2>3. CASE source[o] = Absent
    <3>1. handler'.floor = 0
      BY <1>0, <1>4, <2>3 DEF Addressed
    <3> QED BY <3>1 DEF NeverVanishes
  <2> QED BY <2>1, <2>2, <2>3
<1>10. ASSUME Separate'
       PROVE  HandlerServed'
  <2>1. ContentOwned /\ PublishedInPlace
    BY <1>0, <1>6, <1>10 DEF Separate
  <2>2. found /\ Stored(at) => Content(at).seq \in Nat
    BY <1>0, <1>2, <2>1, PathsOf DEF TypeOK, Content, Stored, ReportType
  <2>3. UNCHANGED Stored(at) /\ UNCHANGED Content(at)
    BY <1>6 DEF Content, Stored, at
  <2>4. found /\ Stored(at) => Content(at).seq >= floor
    BY <1>1, <1>7, <2>1, <2>2
  <2>5. ~(handler'.code = 200) /\ ~(handler'.pc = "opened")
    BY <1>4
  <2>6. handler'.pc = "reading" => found /\ handler'.from = at
    BY <1>4
  <2>7. handler'.pc = "reading" /\ Stored(handler.from)' =>
          Content(handler.from)'.seq >= handler'.floor
    BY <1>4, <1>6, <2>4, <2>6 DEF Stored, Content
  <2> QED BY <2>5, <2>7 DEF HandlerServed
<1> QED BY <1>4, <1>6, <1>8, <1>9, <1>10, ServerFrame

LEMMA ServeOpenStep ==
  ASSUME IInv, ServeOpen
  PROVE  IInv'
<1> DEFINE d == handler.from
           i == links[FinalPath(d)]
<1>0. /\ TypeOK /\ Requested /\ LinkedOnce
      /\ Separate => ContentOwned /\ HandlerServed
  BY DEF IInv, InOrder
<1>1. /\ handler.pc = "reading" /\ d.at # "bucket" /\ d \in Slots
      /\ handler.obj \in Objects /\ d \in asked[handler.obj] /\ FinalPath(d) \in Paths
      /\ ~FinalPath(d).tmp
      /\ handler.floor = 0 \/ Stored(d)
      /\ Stored(d) <=> i # 0
      /\ handler \in Request /\ i \in Inodes \cup {0}
  BY <1>0, PathsOf DEF ServeOpen, Requested, Stored, TypeOK, Request
<1>2. UNCHANGED <<synced, source, storage, writer, history>> /\ spent' = spent
      /\ UNCHANGED <<files, links, bucket, asked>>
  BY DEF ServeOpen, storage, history
<1>3. CASE i = 0
  <2>1. Answer(404, Nothing)
    BY <1>3 DEF ServeOpen
  <2>2. /\ handler' \in Request /\ handler'.pc = "answered" /\ handler'.inode = 0
        /\ handler'.code = 404 /\ handler'.floor = 0
    BY <1>0, <1>1, <1>3, <2>1, AnswerTyped, NothingTyped
  <2>3. Requested' /\ NeverVanishes' /\ HandlerServed'
    BY <2>2 DEF Requested, NeverVanishes, HandlerServed
  <2> QED BY <1>2, <2>2, <2>3, ServerFrame
<1>4. CASE i # 0
  <2>1. /\ handler' \in Request /\ handler'.pc = "opened" /\ handler'.inode = i
        /\ handler'.obj = handler.obj /\ handler'.from = d
        /\ handler'.floor = handler.floor /\ handler'.code = handler.code
        /\ handler'.body = handler.body /\ handler'.early = handler.early
    <3> DEFINE j == i
    <3>1. handler' = [handler EXCEPT !.pc = "opened", !.inode = j]
      BY <1>4 DEF ServeOpen
    <3>2. j \in Inodes \cup {0}
      BY <1>1
    <3> HIDE DEF j
    <3>3. handler' = [pc |-> "opened", obj |-> handler.obj, from |-> d, inode |-> j,
                      early |-> handler.early, floor |-> handler.floor,
                      code |-> handler.code, body |-> handler.body]
      BY <1>1, <3>1 DEF Request
    <3>4. /\ handler.obj \in ObjectOrNone /\ d \in Place /\ handler.early \in BOOLEAN
          /\ handler.floor \in Nat /\ handler.code \in {0, 200, 404, 502}
          /\ handler.body \in ReportType
      BY <1>1 DEF Request
    <3>5. handler' \in Request
      BY <3>2, <3>3, <3>4 DEF Request
    <3> QED BY <3>3, <3>5 DEF j
  <2>2. Requested'
    BY <1>1, <1>2, <1>4, <2>1 DEF Requested
  <2>3. NeverVanishes'
    BY <1>2, <2>1 DEF NeverVanishes, IInv
  <2>4. ASSUME Separate'
        PROVE  HandlerServed'
    <3>1. Separate
      BY <1>2, <2>4 DEF Separate
    <3>2. /\ files[i] = Content(d) /\ files[i].whole /\ files[i].by = handler.obj
          /\ files[i].seq >= handler.floor
      BY <1>0, <1>1, <1>4, <3>1, AskedOnce DEF ContentOwned, HandlerServed, Content
    <3>3. \A p \in Paths : p.tmp => links[p] # i
      BY <1>0, <1>1, <1>4 DEF LinkedOnce
    <3>4. handler.code = 200 => /\ handler.body.whole /\ handler.body.by = handler.obj
                                /\ handler.body.seq >= handler.floor
      BY <1>0, <3>1 DEF HandlerServed
    <3> QED BY <1>2, <2>1, <3>2, <3>3, <3>4 DEF HandlerServed
  <2> QED BY <1>2, <2>1, <2>2, <2>3, <2>4, ServerFrame
<1> QED BY <1>3, <1>4

\* An answer that is a report is one of those the invariant speaks of.
LEMMA AnswerStep ==
  ASSUME IInv, UNCHANGED <<synced, source, storage, writer, history>>,
         spent' = spent \/ UseFault,
         NEW c \in {200, 404, 502}, NEW b \in ReportType, Answer(c, b),
         c = 404 => spent'.faults # 0 \/ handler.floor = 0,
         Separate /\ c = 200 => b.whole /\ b.by = handler.obj /\ b.seq >= handler.floor
  PROVE  IInv'
<1>1. /\ handler' \in Request /\ handler'.pc = "answered" /\ handler'.inode = 0
      /\ handler'.code = c /\ handler'.body = b /\ handler'.obj = handler.obj
      /\ handler'.floor = handler.floor
  BY AnswerTyped DEF IInv
<1>2. Requested' /\ NeverVanishes'
  BY <1>1 DEF Requested, NeverVanishes
<1>3. Separate' => HandlerServed'
  <2>1. Separate' => Separate
    BY DEF Separate, history
  <2> QED BY <1>1, <2>1 DEF HandlerServed
<1> QED BY <1>1, <1>2, <1>3, ServerFrame

LEMMA ServeReadStep ==
  ASSUME IInv, ServeRead
  PROVE  IInv'
<1>1. /\ TypeOK /\ Requested /\ handler.pc = "opened"
      /\ Separate => HandlerServed
  BY DEF IInv, InOrder, ServeRead
<1>2. handler.inode \in Inodes
  BY <1>1 DEF TypeOK, Requested
<1>3. files[handler.inode] \in ReportType
  BY <1>1, <1>2 DEF TypeOK
<1> QED BY <1>1, <1>3, AnswerStep DEF ServeRead, HandlerServed

LEMMA ServeGetStep ==
  ASSUME IInv, ServeGet
  PROVE  IInv'
<1> DEFINE d == handler.from
           r == bucket[d.name]
<1>1. /\ TypeOK /\ Requested /\ handler.pc = "reading" /\ d.at = "bucket"
      /\ Separate => ContentOwned /\ HandlerServed
  BY DEF IInv, InOrder, ServeGet
<1>2. /\ d \in Slots /\ handler.obj \in Objects /\ d \in asked[handler.obj]
      /\ handler.floor = 0 \/ Stored(d)
      /\ Stored(d) <=> r # Nothing
  BY <1>1 DEF Requested, Stored
<1>3. r \in ReportType
  BY <1>1, <1>2, PathsOf DEF TypeOK
<1>4. Separate /\ r # Nothing =>
        /\ Content(d) = r /\ r.whole /\ r.by = handler.obj /\ r.seq >= handler.floor
  BY <1>1, <1>2, AskedOnce DEF ContentOwned, HandlerServed, Content
<1> HIDE DEF r, d
<1>5. Answer(IF r = Nothing THEN 404 ELSE 200, r)
  BY DEF ServeGet, r, d
<1>6. UNCHANGED <<synced, source, storage, writer, history>> /\ spent' = spent
  BY DEF ServeGet
<1>7. CASE r = Nothing
  BY <1>2, <1>3, <1>5, <1>6, <1>7, AnswerStep
<1>8. CASE r # Nothing
  BY <1>3, <1>4, <1>5, <1>6, <1>8, AnswerStep
<1> QED BY <1>7, <1>8

LEMMA ServeFailsStep ==
  ASSUME IInv, ServeFails
  PROVE  IInv'
<1>1. UNCHANGED <<synced, source, storage, writer, history>> /\ UseFault
  BY DEF ServeFails
<1>2. spent'.faults # 0
  BY <1>1, FaultTyped DEF IInv
<1>3. Nothing \in ReportType
  BY NothingTyped
<1>4. CASE handler.from.at = "reports"
  BY <1>1, <1>2, <1>3, <1>4, AnswerStep DEF ServeFails
<1>5. CASE handler.from.at # "reports"
  BY <1>1, <1>2, <1>3, <1>5, AnswerStep DEF ServeFails
<1> QED BY <1>4, <1>5

-----------------------------------------------------------------------------
(* The user, the process, and exports that store nothing.                  *)

LEMMA StorageFrame ==
  ASSUME IInv, UNCHANGED <<storage, handler>>,
         spent' \in Counters, spent'.faults = 0 => spent.faults = 0,
         \A o \in Objects : asked[o] \subseteq asked'[o]
  PROVE  /\ Requested' /\ NeverVanishes'
         /\ Separate' => Separate /\ InOrder /\ HandlerServed'
<1>1. UNCHANGED <<files, links, bucket, handler>>
  BY DEF storage
<1>2. Requested'
  BY <1>1 DEF IInv, Requested, Stored
<1>3. NeverVanishes'
  BY <1>1 DEF IInv, NeverVanishes
<1>4. Separate' => Separate
  BY DEF Separate
<1>5. Separate' => HandlerServed'
  BY <1>1, <1>4 DEF IInv, InOrder, HandlerServed, Stored, Content
<1> QED BY <1>2, <1>3, <1>4, <1>5 DEF IInv

LEMMA UserSetsStep ==
  ASSUME IInv, NEW o \in Objects, NEW s \in Choices[o] \cup {Absent}, UserSets(o, s)
  PROVE  IInv'
<1> DEFINE d == WrittenTo(o.name, s)
<1>0. TypeOK /\ Addressed /\ LinkedOnce
  BY DEF IInv
<1>1. /\ UNCHANGED <<synced, files, links, bucket, writer, handler, published>>
      /\ source' = [source EXCEPT ![o] = s]
      /\ asked' = IF s = Absent THEN asked ELSE [asked EXCEPT ![o] = @ \cup {d}]
  BY DEF UserSets, storage
<1>2. s \in Source \/ s = Absent
  BY ServiceAssumption
<1>3. s # Absent => d \in Slots
  BY <1>2, Addresses
<1> HIDE DEF d
<1>4. spent' \in Counters /\ spent'.writes = spent.writes /\ spent'.faults = spent.faults
  BY <1>0 DEF UserSets, TypeOK, Counters
<1>5. /\ asked' \in [Objects -> SUBSET Place]
      /\ \A p \in Objects : asked[p] \subseteq asked'[p]
      /\ s # Absent => d \in asked'[o]
  BY <1>0, <1>1, <1>3 DEF TypeOK, Slots
<1>6. TypeOK'
  BY <1>0, <1>1, <1>2, <1>4, <1>5 DEF TypeOK, Counters
<1>7. Addressed'
  <2>1. \A p \in Objects : source'[p] # Absent => WrittenTo(p.name, source'[p]) \in asked'[p]
    BY <1>0, <1>1, <1>5 DEF Addressed, TypeOK, d
  <2> QED BY <1>0, <1>1, <1>4, <1>5, <2>1 DEF Addressed, Stored
<1>8. LinkedOnce'
  BY <1>0, <1>1 DEF LinkedOnce
<1>9. /\ Requested' /\ NeverVanishes'
      /\ Separate' => Separate /\ InOrder /\ HandlerServed'
  BY <1>1, <1>4, <1>5, StorageFrame DEF storage
<1>10. ASSUME Separate, InOrder
       PROVE  WriterInPlace' /\ ContentOwned' /\ PublishedInPlace'
  <2>1. WriterInPlace'
    BY <1>1, <1>10 DEF InOrder, WriterInPlace
  <2>2. ContentOwned'
    BY <1>1, <1>4, <1>5, <1>10 DEF InOrder, ContentOwned, Stored, Content
  <2>3. PublishedInPlace'
    BY <1>1, <1>10 DEF InOrder, PublishedInPlace, Content
  <2> QED BY <2>1, <2>2, <2>3
<1> QED BY <1>6, <1>7, <1>8, <1>9, <1>10 DEF IInv, InOrder

LEMMA ManagerStartsStep ==
  ASSUME IInv, ManagerStarts
  PROVE  IInv'
<1>0. TypeOK /\ Addressed /\ LinkedOnce
  BY DEF IInv
<1>1. /\ UNCHANGED <<source, files, links, bucket, writer, handler, spent, published, asked>>
      /\ synced' = TRUE
  BY DEF ManagerStarts, storage, history
<1>2. TypeOK'
  BY <1>0, <1>1 DEF TypeOK
<1>3. Addressed'
  BY <1>0, <1>1 DEF Addressed, Stored
<1>4. LinkedOnce'
  BY <1>0, <1>1 DEF LinkedOnce
<1>5. spent' \in Counters
  BY <1>0, <1>1 DEF TypeOK, Counters
<1>6. /\ Requested' /\ NeverVanishes'
      /\ Separate' => Separate /\ InOrder /\ HandlerServed'
  BY <1>1, <1>5, StorageFrame DEF storage
<1>7. ASSUME InOrder
      PROVE  WriterInPlace' /\ ContentOwned' /\ PublishedInPlace'
  <2>1. WriterInPlace'
    BY <1>1, <1>7 DEF InOrder, WriterInPlace
  <2>2. ContentOwned'
    BY <1>1, <1>7 DEF InOrder, ContentOwned, Stored, Content
  <2>3. PublishedInPlace'
    BY <1>1, <1>7 DEF InOrder, PublishedInPlace, Content
  <2> QED BY <2>1, <2>2, <2>3
<1> QED BY <1>2, <1>3, <1>4, <1>6, <1>7 DEF IInv, InOrder

\* What a new process finds is in order as far as the storage is.
LEMMA StoppedStep ==
  ASSUME IInv, Stopped, UNCHANGED <<source, files, bucket, asked>>,
         links' \in [Paths -> Inodes \cup {0}],
         \A p \in Paths : links'[p] = links[p] \/ links'[p] = 0,
         published' \in [Objects -> [seq : Nat, source : Source \cup {Absent}]],
         \A o \in Objects :
           \/ published'[o] = NeverPublished
           \/ /\ published'[o] = published[o]
              /\ published[o].source # Absent =>
                   LET d == WrittenTo(o.name, published[o].source)
                   IN d.at # "bucket" => links'[FinalPath(d)] = links[FinalPath(d)]
  PROVE  IInv'
<1>0. TypeOK /\ Addressed /\ LinkedOnce
  BY DEF IInv
<1>1. /\ writer' = [k \in Kinds |-> Idle] /\ handler' = NoRequest /\ synced' = FALSE
      /\ spent' \in Counters /\ spent'.writes = spent.writes
  BY <1>0 DEF Stopped, TypeOK, Counters
<1>2. TypeOK'
  <2>1. writer' \in [Kinds -> ExportRecord] /\ handler' \in Request
    BY <1>1, NothingTyped
  <2> QED BY <1>0, <1>1, <2>1 DEF TypeOK, ExportRecord, Request, Counters
<1>3. \A k \in Kinds : writer'[k].pc = "idle" /\ writer'[k].inode = 0
  BY <1>1, NothingTyped
<1>4. /\ handler'.pc = "idle" /\ handler'.code = 0 /\ handler'.inode = 0
  BY <1>1, NothingTyped
<1>5. Addressed'
  <2>1. ASSUME NEW o \in Objects
        PROVE  IF published'[o].source = Absent THEN published'[o].seq = 0
               ELSE /\ WrittenTo(o.name, published'[o].source) \in asked'[o]
                    /\ Stored(WrittenTo(o.name, published[o].source))'
    <3>1. CASE published'[o] = NeverPublished
      BY <3>1, NothingTyped
    <3>2. CASE published'[o] = published[o]
      BY <1>0, <3>2, NothingTyped DEF Addressed, Stored
    <3> QED BY <3>1, <3>2
  <2> QED BY <1>0, <1>3, <2>1 DEF Addressed
<1>6. LinkedOnce'
  BY <1>0, <1>3 DEF LinkedOnce, TypeOK
<1>7. Requested' /\ NeverVanishes'
  BY <1>4 DEF Requested, NeverVanishes
<1>8. ASSUME Separate'
      PROVE  InOrder'
  <2>1. WriterInPlace /\ ContentOwned /\ PublishedInPlace
    BY <1>8 DEF Separate, IInv, InOrder
  <2>2. WriterInPlace'
    BY <1>3 DEF WriterInPlace
  <2>3. ContentOwned'
    <3>1. \A d \in Slots : Stored(d)' => Stored(d) /\ Content(d)' = Content(d)
      BY PathsOf DEF Stored, Content
    <3>2. \A o \in Objects : o.kind \in Kinds
      BY DEF Objects
    <3> QED BY <1>1, <1>3, <2>1, <3>1, <3>2 DEF ContentOwned
  <2>4. PublishedInPlace'
    <3>1. ASSUME NEW o \in Objects, published'[o].source # Absent
          PROVE  /\ published'[o] = published[o] /\ published[o].source # Absent
                 /\ Content(WrittenTo(o.name, published[o].source))'.seq = published'[o].seq
      BY <2>1, <3>1, NothingTyped DEF PublishedInPlace, Content
    <3> QED BY <3>1 DEF PublishedInPlace
  <2>5. HandlerServed'
    BY <1>4 DEF HandlerServed
  <2> QED BY <2>2, <2>3, <2>4, <2>5 DEF InOrder
<1> QED BY <1>2, <1>5, <1>6, <1>7, <1>8 DEF IInv

LEMMA CrashStep ==
  ASSUME IInv, Crash
  PROVE  IInv'
<1>1. UNCHANGED <<source, files, links, bucket, published, asked>> /\ Stopped
  BY DEF Crash, storage, history
<1>2. /\ links \in [Paths -> Inodes \cup {0}]
      /\ published \in [Objects -> [seq : Nat, source : Source \cup {Absent}]]
  BY DEF IInv, TypeOK
<1> QED BY <1>1, <1>2, StoppedStep

LEMMA PodReplacedStep ==
  ASSUME IInv, PodReplaced
  PROVE  IInv'
<1>0. TypeOK
  BY DEF IInv
<1>1. /\ UNCHANGED <<source, files, bucket, asked>> /\ Stopped
      /\ links' = [p \in Paths |-> IF p.at = "reports" THEN 0 ELSE links[p]]
      /\ published' = [o \in Objects |-> IF IsRemote(published[o].source)
                                         THEN published[o] ELSE NeverPublished]
  BY DEF PodReplaced
<1>2. /\ links' \in [Paths -> Inodes \cup {0}]
      /\ published' \in [Objects -> [seq : Nat, source : Source \cup {Absent}]]
      /\ \A p \in Paths : links'[p] = links[p] \/ links'[p] = 0
  BY <1>0, <1>1, NothingTyped DEF TypeOK
<1>3. ASSUME NEW o \in Objects, IsRemote(published[o].source)
      PROVE  LET d == WrittenTo(o.name, published[o].source)
             IN d.at # "bucket" => links'[FinalPath(d)] = links[FinalPath(d)]
  <2> DEFINE d == WrittenTo(o.name, published[o].source)
  <2>1. published[o].source \in Source
    BY <1>0, <1>3 DEF TypeOK, IsRemote, Remote, Absent
  <2>2. d \in Slots /\ d.at # "reports"
    BY <1>3, <2>1, Addresses DEF WrittenTo, Exporter
  <2>3. d.at # "bucket" => FinalPath(d) \in Paths /\ FinalPath(d).at # "reports"
    BY <2>2, PathsOf DEF FinalPath
  <2> QED BY <1>1, <2>3
<1>4. \A o \in Objects : ~IsRemote(published[o].source) => published'[o] = NeverPublished
  BY <1>1
<1>5. \A o \in Objects : IsRemote(published[o].source) => published'[o] = published[o]
  BY <1>1
<1> QED BY <1>1, <1>2, <1>3, <1>4, <1>5, StoppedStep

LEMMA ExportBeginsStep ==
  ASSUME IInv, NEW o \in Objects, ExportBegins(o)
  PROVE  IInv'
<1> DEFINE k == o.kind
           d == WrittenTo(o.name, source[o])
           pc == IF d.at = "bucket" THEN "putting" ELSE "opening"
           new == [pc |-> pc, obj |-> o, source |-> source[o], to |-> d, inode |-> 0,
                   seq |-> spent.writes + 1]
<1>0. TypeOK /\ Addressed /\ LinkedOnce
  BY DEF IInv
<1>1. /\ UNCHANGED <<synced, source, files, links, bucket, handler, published, asked>>
      /\ writer[k].pc = "idle" /\ writer' = [writer EXCEPT ![k] = new]
      /\ source[o] # Absent
  BY DEF ExportBegins, storage, history
<1>2. /\ k \in Kinds /\ source[o] \in Source /\ spent.writes \in Nat
      /\ o \in ObjectOrNone
  <2>1. k \in Kinds /\ o \in ObjectOrNone
    BY DEF Objects, ObjectOrNone
  <2>2. source[o] \in Source
    BY <1>0, <1>1 DEF TypeOK
  <2>3. spent.writes \in Nat
    BY <1>0 DEF TypeOK
  <2> QED BY <2>1, <2>2, <2>3
<1>3. d \in Slots /\ d \in asked[o] /\ d \in Place
  BY <1>0, <1>1, <1>2, Addresses DEF Addressed, Slots
<1>4. /\ spent' \in Counters /\ spent'.writes = spent.writes + 1
      /\ spent'.faults = spent.faults
  BY <1>0 DEF ExportBegins, TypeOK, Counters
<1>5. /\ new \in ExportRecord /\ new.pc = pc /\ new.obj = o /\ new.source = source[o]
      /\ new.to = d /\ new.inode = 0 /\ new.seq = spent.writes + 1
      /\ pc \in {"putting", "opening"} /\ (pc = "putting" <=> d.at = "bucket")
  BY <1>2, <1>3 DEF ExportRecord
<1> HIDE DEF k, d, pc, new
<1>6. /\ \A j \in Kinds : writer'[j] = IF j = k THEN new ELSE writer[j]
      /\ writer' \in [Kinds -> ExportRecord]
  BY <1>0, <1>1, <1>2, <1>5 DEF TypeOK, ExportRecord
<1>7. TypeOK'
  BY <1>0, <1>1, <1>4, <1>6 DEF TypeOK, ExportRecord, Counters
<1>8. Addressed'
  <2>1. ASSUME NEW j \in Kinds, writer'[j].pc # "idle"
        PROVE  /\ writer'[j].obj \in Objects /\ writer'[j].obj.kind = j
               /\ writer'[j].source \in Source
               /\ writer'[j].to = WrittenTo(writer'[j].obj.name, writer'[j].source)
               /\ writer'[j].to \in asked'[writer'[j].obj]
               /\ writer'[j].pc = "putting" <=> writer'[j].to.at = "bucket"
               /\ writer'[j].seq <= spent'.writes
    <3>1. CASE j = k
      BY <1>1, <1>2, <1>3, <1>4, <1>5, <1>6, <3>1 DEF d, k
    <3>2. CASE j # k
      <4>1. writer'[j] = writer[j] /\ writer[j].seq \in Nat
        BY <1>0, <1>6, <3>2 DEF TypeOK
      <4> QED BY <1>0, <1>1, <1>2, <1>4, <2>1, <4>1 DEF Addressed
    <3> QED BY <3>1, <3>2
  <2> QED BY <1>0, <1>1, <2>1 DEF Addressed, Stored
<1>9. LinkedOnce'
  BY <1>0, <1>1, <1>5, <1>6 DEF LinkedOnce
<1>10. /\ Requested' /\ NeverVanishes'
       /\ Separate' => Separate /\ InOrder /\ HandlerServed'
  BY <1>1, <1>4, StorageFrame DEF storage
<1>11. ASSUME InOrder
       PROVE  WriterInPlace' /\ ContentOwned' /\ PublishedInPlace'
  <2>1. WriterInPlace'
    BY <1>1, <1>5, <1>6, <1>11 DEF InOrder, WriterInPlace
  <2>2. ContentOwned'
    <3>1. ASSUME NEW e \in Slots, Stored(e)
          PROVE  Content(e).seq \in Nat
      BY <1>0, <3>1, PathsOf DEF TypeOK, ReportType, Stored, Content
    <3>2. \A p \in Objects : p.kind \in Kinds
      BY DEF Objects
    <3>3. ASSUME NEW e \in Slots, Stored(e)
          PROVE  /\ Content(e).whole /\ Content(e).by \in Objects /\ e \in asked[Content(e).by]
                 /\ Content(e).seq <= spent'.writes
                 /\ writer'[Content(e).by.kind].pc # "idle" =>
                      Content(e).seq < writer'[Content(e).by.kind].seq
      BY <1>2, <1>4, <1>5, <1>6, <1>11, <3>1, <3>2, <3>3 DEF InOrder, ContentOwned
    <3> QED BY <1>1, <3>3 DEF ContentOwned, Stored, Content
  <2>3. PublishedInPlace'
    BY <1>1, <1>11 DEF InOrder, PublishedInPlace, Content
  <2> QED BY <2>1, <2>2, <2>3
<1> QED BY <1>7, <1>8, <1>9, <1>10, <1>11 DEF IInv, InOrder

\* A controller is done with an export that stored nothing.
LEMMA GivenUpStep ==
  ASSUME IInv, NEW k \in Kinds, writer' = [writer EXCEPT ![k] = Idle],
         UNCHANGED <<synced, source, storage, handler, history>>,
         spent' = spent \/ UseFault
  PROVE  IInv'
<1>0. TypeOK /\ Addressed /\ LinkedOnce
  BY DEF IInv
<1>1. UNCHANGED <<synced, source, files, links, bucket, handler, published, asked>>
  BY DEF storage, history
<1>2. /\ spent' \in Counters /\ spent'.writes = spent.writes
      /\ spent'.faults = 0 => spent.faults = 0
  BY <1>0, FaultTyped DEF TypeOK, Counters
<1>3. /\ \A j \in Kinds : /\ j # k => writer'[j] = writer[j]
                          /\ j = k => writer'[j].pc = "idle" /\ writer'[j].inode = 0
      /\ writer' \in [Kinds -> ExportRecord]
  BY <1>0, NothingTyped DEF TypeOK, ExportRecord
<1>4. TypeOK'
  BY <1>0, <1>1, <1>2, <1>3 DEF TypeOK, ExportRecord, Counters
<1>5. Addressed'
  BY <1>0, <1>1, <1>2, <1>3 DEF Addressed, Stored
<1>6. LinkedOnce'
  BY <1>0, <1>1, <1>3 DEF LinkedOnce
<1>7. /\ Requested' /\ NeverVanishes'
      /\ Separate' => Separate /\ InOrder /\ HandlerServed'
  BY <1>1, <1>2, StorageFrame DEF storage
<1>8. ASSUME InOrder
      PROVE  WriterInPlace' /\ ContentOwned' /\ PublishedInPlace'
  <2>1. WriterInPlace'
    BY <1>1, <1>3, <1>8 DEF InOrder, WriterInPlace
  <2>2. ContentOwned'
    <3>1. \A p \in Objects : p.kind \in Kinds
      BY DEF Objects
    <3> QED BY <1>1, <1>2, <1>3, <1>8, <3>1 DEF InOrder, ContentOwned, Stored, Content
  <2>3. PublishedInPlace'
    BY <1>1, <1>8 DEF InOrder, PublishedInPlace, Content
  <2> QED BY <2>1, <2>2, <2>3
<1> QED BY <1>4, <1>5, <1>6, <1>7, <1>8 DEF IInv, InOrder

-----------------------------------------------------------------------------
(* The steps of an export.                                                 *)

\* Two controllers are at different destinations.
LEMMA WritersApart ==
  ASSUME Addressed, Separate, NEW j \in Kinds, NEW k \in Kinds, j # k,
         writer[j].pc # "idle", writer[k].pc # "idle"
  PROVE  /\ writer[j].to \in Slots /\ writer[k].to \in Slots
         /\ writer[j].to # writer[k].to
         /\ TmpPath(writer[j].to) # TmpPath(writer[k].to)
<1>1. /\ writer[j].obj \in Objects /\ writer[k].obj \in Objects
      /\ writer[j].obj # writer[k].obj
      /\ writer[j].to \in asked[writer[j].obj] /\ writer[k].to \in asked[writer[k].obj]
  BY DEF Addressed
<1>2. writer[j].to \in Slots /\ writer[k].to \in Slots
  BY Addresses DEF Addressed
<1>3. writer[j].to # writer[k].to
  BY <1>1, AskedOnce
<1> QED BY <1>2, <1>3, PathsOf

LEMMA OpenTmpStep ==
  ASSUME IInv, NEW k \in Kinds, OpenTmp(k)
  PROVE  IInv'
<1> DEFINE d == writer[k].to
           p == TmpPath(d)
<1>0. TypeOK /\ Addressed /\ Requested /\ LinkedOnce /\ NeverVanishes
  BY DEF IInv
<1>1. PICK i : /\ \/ links[p] # 0 /\ i = links[p]
                  \/ i \in Free
               /\ links' = [links EXCEPT ![p] = i]
               /\ files' = [files EXCEPT ![i] = Nothing]
               /\ writer' = [writer EXCEPT ![k].pc = "filling", ![k].inode = i]
  BY DEF OpenTmp, NewInode
<1>2. UNCHANGED <<synced, source, bucket, handler, spent, published, asked>>
  BY DEF OpenTmp, history
<1>3. writer[k].pc = "opening"
  BY DEF OpenTmp
<1>4. d \in Slots /\ p \in Paths /\ p.tmp
  BY <1>0, <1>3, Addresses, PathsOf DEF Addressed
<1> HIDE DEF d, p
<1>5. /\ i \in Inodes /\ i # 0
      /\ \A q \in Paths : q # p => links[q] # i
      /\ i \in Free => handler.inode # i /\ \A j \in Kinds : writer[j].inode # i
  <2>1. CASE links[p] # 0 /\ i = links[p]
    BY <1>0, <1>4, <2>1, ServiceAssumption DEF TypeOK, LinkedOnce, Free, Held
  <2>2. CASE i \in Free
    BY <2>2, ServiceAssumption DEF Free, Held
  <2> QED BY <1>1, <2>1, <2>2
<1>6. /\ \A q \in Paths : links'[q] = IF q = p THEN i ELSE links[q]
      /\ \A j \in Inodes : files'[j] = IF j = i THEN Nothing ELSE files[j]
      /\ links' \in [Paths -> Inodes \cup {0}]
      /\ files' \in [Inodes -> ReportType]
  BY <1>0, <1>1, <1>4, <1>5, NothingTyped DEF TypeOK
<1>7. /\ writer' \in [Kinds -> ExportRecord]
      /\ \A j \in Kinds : j # k => writer'[j] = writer[j]
      /\ writer'[k].pc = "filling" /\ writer'[k].inode = i
      /\ writer'[k].obj = writer[k].obj /\ writer'[k].source = writer[k].source
      /\ writer'[k].to = d /\ writer'[k].seq = writer[k].seq
  <2>1. writer \in [Kinds -> ExportRecord]
    BY <1>0 DEF TypeOK, ExportRecord
  <2>2. \A j \in Kinds : j # k => writer'[j] = writer[j]
    BY <1>1, <2>1
  <2>3. writer'[k] = [pc |-> "filling", obj |-> writer[k].obj,
                      source |-> writer[k].source, to |-> d, inode |-> i,
                      seq |-> writer[k].seq]
    BY <1>1, <2>1 DEF ExportRecord, d
  <2>4. writer'[k] \in ExportRecord
    BY <1>5, <2>1, <2>3 DEF ExportRecord, d
  <2>5. writer' \in [Kinds -> ExportRecord]
    BY <1>1, <2>1, <2>2, <2>4
  <2> QED BY <2>2, <2>3, <2>5
<1>8. TypeOK'
  BY <1>0, <1>2, <1>6, <1>7 DEF TypeOK, ExportRecord
<1>9. /\ \A e \in Slots : Stored(e)' <=> Stored(e)
      /\ \A e \in Slots : Stored(e) => Content(e)' = Content(e)
  <2>1. ASSUME NEW e \in Slots, e.at # "bucket"
        PROVE  /\ links'[FinalPath(e)] = links[FinalPath(e)]
               /\ links[FinalPath(e)] # 0 =>
                    files'[links[FinalPath(e)]] = files[links[FinalPath(e)]]
    <3>1. FinalPath(e) \in Paths /\ FinalPath(e) # p
      BY <1>4, <2>1, PathsOf
    <3> QED BY <1>0, <1>5, <1>6, <3>1 DEF TypeOK
  <2> QED BY <1>2, <2>1 DEF Stored, Content
<1>10. Addressed'
  <2>1. \A o \in Objects : published[o].source # Absent =>
          WrittenTo(o.name, published[o].source) \in Slots
    BY <1>0, Addresses DEF TypeOK
  <2>2. \A o \in Objects :
          IF published'[o].source = Absent THEN published'[o].seq = 0
          ELSE /\ WrittenTo(o.name, published'[o].source) \in asked'[o]
               /\ Stored(WrittenTo(o.name, published[o].source))'
    BY <1>0, <1>2, <1>9, <2>1 DEF Addressed
  <2>3. ASSUME NEW j \in Kinds, writer'[j].pc # "idle"
        PROVE  /\ writer'[j].obj \in Objects /\ writer'[j].obj.kind = j
               /\ writer'[j].source \in Source
               /\ writer'[j].to = WrittenTo(writer'[j].obj.name, writer'[j].source)
               /\ writer'[j].to \in asked'[writer'[j].obj]
               /\ writer'[j].pc = "putting" <=> writer'[j].to.at = "bucket"
               /\ writer'[j].seq <= spent'.writes
    <3>1. CASE j = k
      BY <1>0, <1>2, <1>3, <1>7, <3>1 DEF Addressed, d
    <3>2. CASE j # k
      BY <1>0, <1>2, <1>7, <2>3, <3>2 DEF Addressed
    <3> QED BY <3>1, <3>2
  <2> QED BY <1>0, <1>2, <2>2, <2>3 DEF Addressed
<1>11. LinkedOnce'
  BY <1>0, <1>5, <1>6, <1>7 DEF LinkedOnce
<1>12. Requested' /\ NeverVanishes'
  BY <1>0, <1>2, <1>9 DEF Requested, NeverVanishes
<1>13. ASSUME Separate'
       PROVE  InOrder'
  <2>1. Separate /\ WriterInPlace /\ ContentOwned /\ PublishedInPlace /\ HandlerServed
    BY <1>2, <1>13 DEF Separate, IInv, InOrder
  <2>2. handler.inode # i
    BY <1>0, <1>1, <1>4, <1>5, <2>1 DEF HandlerServed, Requested
  <2>3. WriterInPlace'
    <3>1. ASSUME NEW j \in Kinds, j # k, writer[j].pc \in {"filling", "renaming"}
          PROVE  /\ TmpPath(writer[j].to) \in Paths /\ TmpPath(writer[j].to) # p
                 /\ links'[TmpPath(writer[j].to)] = links[TmpPath(writer[j].to)]
                 /\ links[TmpPath(writer[j].to)] \in Inodes
                 /\ links[TmpPath(writer[j].to)] # i
      <4>1. /\ writer[j].to \in Slots /\ TmpPath(writer[j].to) # p
            /\ writer[j].to.at # "bucket"
        BY <1>0, <1>3, <2>1, <3>1, WritersApart DEF Addressed, p, d
      <4>2. TmpPath(writer[j].to) \in Paths
        BY <4>1, PathsOf
      <4>3. links[TmpPath(writer[j].to)] # 0
        BY <1>0, <2>1, <3>1 DEF WriterInPlace, LinkedOnce
      <4> QED BY <1>0, <1>5, <1>6, <4>1, <4>2, <4>3 DEF TypeOK
    <3>2. ASSUME NEW j \in Kinds, j # k
          PROVE  /\ writer'[j].pc = "filling" =>
                      /\ links'[TmpPath(writer'[j].to)] = writer'[j].inode
                      /\ ~files'[writer'[j].inode].whole
                 /\ writer'[j].pc = "renaming" =>
                      /\ links'[TmpPath(writer'[j].to)] # 0
                      /\ files'[links'[TmpPath(writer'[j].to)]] =
                           Report(writer'[j].obj, writer'[j].seq)
      <4>1. CASE writer[j].pc = "filling"
        BY <1>6, <1>7, <2>1, <3>1, <3>2, <4>1 DEF WriterInPlace
      <4>2. CASE writer[j].pc = "renaming"
        BY <1>0, <1>6, <1>7, <2>1, <3>1, <3>2, <4>2 DEF WriterInPlace
      <4> QED BY <1>7, <3>2, <4>1, <4>2
    <3>3. links'[p] = i /\ ~files'[i].whole
      BY <1>4, <1>5, <1>6 DEF Nothing
    <3> QED BY <1>7, <3>2, <3>3 DEF WriterInPlace, p
  <2>4. ContentOwned'
    <3>1. \A j \in Kinds : /\ writer'[j].pc # "idle" => writer[j].pc # "idle"
                           /\ writer'[j].seq = writer[j].seq
      BY <1>3, <1>7
    <3>2. \A o \in Objects : o.kind \in Kinds
      BY DEF Objects
    <3>3. ASSUME NEW e \in Slots, Stored(e)'
          PROVE  /\ Content(e).whole /\ Content(e).by \in Objects /\ e \in asked[Content(e).by]
                 /\ Content(e).seq <= spent.writes
                 /\ writer'[Content(e).by.kind].pc # "idle" =>
                      Content(e).seq < writer'[Content(e).by.kind].seq
                 /\ Content(e)' = Content(e)
      BY <1>9, <2>1, <3>1, <3>2, <3>3 DEF ContentOwned
    <3> QED BY <1>2, <3>3 DEF ContentOwned
  <2>5. PublishedInPlace'
    <3>1. ASSUME NEW o \in Objects, published[o].source # Absent
          PROVE  Content(WrittenTo(o.name, published[o].source))'.seq = published[o].seq
      <4>1. WrittenTo(o.name, published[o].source) \in Slots
        BY <1>0, <3>1, Addresses DEF TypeOK
      <4> QED BY <1>0, <1>2, <1>9, <2>1, <3>1, <4>1 DEF PublishedInPlace, Addressed
    <3> QED BY <1>2, <3>1 DEF PublishedInPlace
  <2>6. HandlerServed'
    <3>1. handler.pc = "reading" /\ Stored(handler.from)' =>
            Content(handler.from)'.seq >= handler.floor
      BY <1>0, <1>2, <1>9, <2>1 DEF HandlerServed, Requested
    <3>2. handler.pc = "opened" => /\ handler.inode \in Inodes
                                   /\ files'[handler.inode] = files[handler.inode]
                                   /\ \A q \in Paths : q.tmp => links'[q] # handler.inode
      BY <1>0, <1>6, <2>1, <2>2 DEF HandlerServed, Requested, TypeOK
    <3> QED BY <1>2, <2>1, <3>1, <3>2 DEF HandlerServed
  <2> QED BY <2>3, <2>4, <2>5, <2>6 DEF InOrder
<1> QED BY <1>8, <1>10, <1>11, <1>12, <1>13 DEF IInv

LEMMA FillTmpStep ==
  ASSUME IInv, NEW k \in Kinds, FillTmp(k)
  PROVE  IInv'
<1> DEFINE d == writer[k].to
           i == writer[k].inode
           p == TmpPath(d)
           mine == Report(writer[k].obj, writer[k].seq)
           half == [mine EXCEPT !.whole = FALSE]
<1>0. TypeOK /\ Addressed /\ Requested /\ LinkedOnce /\ NeverVanishes
  BY DEF IInv
<1>1. /\ writer[k].pc = "filling"
      /\ \/ files' = [files EXCEPT ![i] = mine]
         \/ files[i].whole /\ files' = [files EXCEPT ![i] = half]
      /\ writer' = [writer EXCEPT ![k].pc = "renaming", ![k].inode = 0]
      /\ UNCHANGED <<synced, source, links, bucket, handler, spent, published, asked>>
  BY DEF FillTmp, history
<1>2. /\ d \in Slots /\ p \in Paths /\ p.tmp /\ i \in Inodes /\ i # 0
      /\ writer[k].obj \in Objects /\ writer[k].seq \in Nat
  <2>1. d \in Slots /\ d.at # "bucket" /\ writer[k].obj \in Objects
    BY <1>0, <1>1, Addresses DEF Addressed
  <2>2. i \in Inodes /\ i # 0 /\ writer[k].seq \in Nat
    BY <1>0, <1>1 DEF TypeOK, LinkedOnce
  <2> QED BY <2>1, <2>2, PathsOf
<1>3. mine \in ReportType /\ mine.whole /\ half \in ReportType
  <2>1. mine \in ReportType /\ mine.whole
    BY <1>2, ReportTyped
  <2>2. \A r \in ReportType : [r EXCEPT !.whole = FALSE] \in ReportType
    BY DEF ReportType
  <2> HIDE DEF mine
  <2> QED BY <2>1, <2>2
<1> HIDE DEF d, i, p, mine, half
<1>4. /\ files' \in [Inodes -> ReportType]
      /\ \A j \in Inodes : j # i => files'[j] = files[j]
      /\ files'[i] = mine \/ files[i].whole
  <2>1. files \in [Inodes -> ReportType]
    BY <1>0 DEF TypeOK
  <2>2. CASE files' = [files EXCEPT ![i] = mine]
    BY <1>2, <1>3, <2>1, <2>2
  <2>3. CASE files[i].whole /\ files' = [files EXCEPT ![i] = half]
    BY <1>2, <1>3, <2>1, <2>3
  <2> QED BY <1>1, <2>2, <2>3
<1>5. /\ writer' \in [Kinds -> ExportRecord]
      /\ \A j \in Kinds : j # k => writer'[j] = writer[j]
      /\ writer'[k].pc = "renaming" /\ writer'[k].inode = 0
      /\ writer'[k].obj = writer[k].obj /\ writer'[k].source = writer[k].source
      /\ writer'[k].to = d /\ writer'[k].seq = writer[k].seq
  <2>1. writer \in [Kinds -> ExportRecord]
    BY <1>0 DEF TypeOK, ExportRecord
  <2>2. \A j \in Kinds : j # k => writer'[j] = writer[j]
    BY <1>1, <2>1
  <2>3. writer'[k] = [pc |-> "renaming", obj |-> writer[k].obj,
                      source |-> writer[k].source, to |-> d, inode |-> 0,
                      seq |-> writer[k].seq]
    BY <1>1, <2>1 DEF ExportRecord, d
  <2>4. writer'[k] \in ExportRecord
    BY <2>1, <2>3 DEF ExportRecord, d
  <2>5. writer' \in [Kinds -> ExportRecord]
    BY <1>1, <2>1, <2>2, <2>4
  <2> QED BY <2>2, <2>3, <2>5
<1>6. TypeOK'
  BY <1>0, <1>1, <1>4, <1>5 DEF TypeOK, ExportRecord
<1>7. Addressed'
  <2>1. ASSUME NEW j \in Kinds, writer'[j].pc # "idle"
        PROVE  /\ writer'[j].obj \in Objects /\ writer'[j].obj.kind = j
               /\ writer'[j].source \in Source
               /\ writer'[j].to = WrittenTo(writer'[j].obj.name, writer'[j].source)
               /\ writer'[j].to \in asked'[writer'[j].obj]
               /\ writer'[j].pc = "putting" <=> writer'[j].to.at = "bucket"
               /\ writer'[j].seq <= spent'.writes
    <3>1. CASE j = k
      BY <1>0, <1>1, <1>5, <3>1 DEF Addressed, d
    <3>2. CASE j # k
      BY <1>0, <1>1, <1>5, <2>1, <3>2 DEF Addressed
    <3> QED BY <3>1, <3>2
  <2> QED BY <1>0, <1>1, <2>1 DEF Addressed, Stored
<1>8. LinkedOnce'
  BY <1>0, <1>1, <1>5 DEF LinkedOnce
<1>9. Requested' /\ NeverVanishes'
  BY <1>0, <1>1 DEF Requested, NeverVanishes, Stored
<1>10. ASSUME Separate'
       PROVE  InOrder'
  <2>1. Separate /\ WriterInPlace /\ ContentOwned /\ PublishedInPlace /\ HandlerServed
    BY <1>1, <1>10 DEF Separate, IInv, InOrder
  <2>2. links[p] = i /\ files'[i] = mine
    BY <1>1, <1>4, <2>1 DEF WriterInPlace, i, p, d
  <2>3. \A q \in Paths : q # p => links[q] # i
    BY <1>0, <1>2, <2>2 DEF LinkedOnce
  <2>4. WriterInPlace'
    <3>1. ASSUME NEW j \in Kinds, j # k, writer[j].pc \in {"filling", "renaming"}
          PROVE  files'[links[TmpPath(writer[j].to)]] = files[links[TmpPath(writer[j].to)]]
      <4>1. /\ writer[j].to \in Slots /\ TmpPath(writer[j].to) # p
            /\ writer[j].to.at # "bucket"
        BY <1>0, <1>1, <2>1, <3>1, WritersApart DEF Addressed, p, d
      <4>2. TmpPath(writer[j].to) \in Paths /\ links[TmpPath(writer[j].to)] # 0
        BY <1>0, <2>1, <3>1, <4>1, PathsOf DEF WriterInPlace, LinkedOnce
      <4> QED BY <1>0, <1>4, <2>3, <4>1, <4>2 DEF TypeOK
    <3>2. ASSUME NEW j \in Kinds, j # k
          PROVE  /\ writer'[j].pc = "filling" =>
                      /\ links'[TmpPath(writer'[j].to)] = writer'[j].inode
                      /\ ~files'[writer'[j].inode].whole
                 /\ writer'[j].pc = "renaming" =>
                      /\ links'[TmpPath(writer'[j].to)] # 0
                      /\ files'[links'[TmpPath(writer'[j].to)]] =
                           Report(writer'[j].obj, writer'[j].seq)
      BY <1>1, <1>5, <2>1, <3>1, <3>2 DEF WriterInPlace
    <3>3. links'[p] = i /\ i # 0 /\ files'[i] = mine
      BY <1>1, <1>2, <2>2
    <3> QED BY <1>5, <3>2, <3>3 DEF WriterInPlace, p, mine
  <2>5. \A e \in Slots : Stored(e) => Content(e)' = Content(e)
    <3>1. ASSUME NEW e \in Slots, e.at # "bucket", links[FinalPath(e)] # 0
          PROVE  files'[links[FinalPath(e)]] = files[links[FinalPath(e)]]
      <4>1. FinalPath(e) \in Paths /\ FinalPath(e) # p
        BY <1>2, <3>1, PathsOf
      <4> QED BY <1>0, <1>4, <2>3, <3>1, <4>1 DEF TypeOK
    <3> QED BY <1>1, <3>1 DEF Stored, Content
  <2>6. ContentOwned'
    <3>1. \A j \in Kinds : /\ writer'[j].pc # "idle" => writer[j].pc # "idle"
                           /\ writer'[j].seq = writer[j].seq
      BY <1>1, <1>5
    <3>2. \A o \in Objects : o.kind \in Kinds
      BY DEF Objects
    <3>3. ASSUME NEW e \in Slots, Stored(e)
          PROVE  /\ Content(e).whole /\ Content(e).by \in Objects /\ e \in asked[Content(e).by]
                 /\ Content(e).seq <= spent.writes
                 /\ writer'[Content(e).by.kind].pc # "idle" =>
                      Content(e).seq < writer'[Content(e).by.kind].seq
                 /\ Content(e)' = Content(e)
      BY <2>1, <2>5, <3>1, <3>2, <3>3 DEF ContentOwned
    <3> QED BY <1>1, <3>3 DEF ContentOwned, Stored
  <2>7. PublishedInPlace'
    <3>1. ASSUME NEW o \in Objects, published[o].source # Absent
          PROVE  Content(WrittenTo(o.name, published[o].source))'.seq = published[o].seq
      <4>1. WrittenTo(o.name, published[o].source) \in Slots
        BY <1>0, <3>1, Addresses DEF TypeOK
      <4> QED BY <1>0, <1>1, <2>1, <2>5, <3>1, <4>1 DEF PublishedInPlace, Addressed
    <3> QED BY <1>1, <3>1 DEF PublishedInPlace
  <2>8. HandlerServed'
    <3>1. handler.pc = "reading" /\ Stored(handler.from) =>
            Content(handler.from)'.seq >= handler.floor
      BY <1>0, <1>1, <2>1, <2>5 DEF HandlerServed, Requested
    <3>2. handler.pc = "opened" => files'[handler.inode] = files[handler.inode]
      <4>1. handler.pc = "opened" => handler.inode # i /\ handler.inode \in Inodes
        BY <1>0, <1>2, <2>1, <2>2 DEF HandlerServed, Requested, TypeOK
      <4> QED BY <1>4, <4>1
    <3> QED BY <1>1, <2>1, <3>1, <3>2 DEF HandlerServed, Stored
  <2> QED BY <2>4, <2>6, <2>7, <2>8 DEF InOrder
<1> QED BY <1>6, <1>7, <1>8, <1>9, <1>10 DEF IInv

\* The n-th report, of o, reaches its destination d: by a rename or by a put.
\* Elsewhere nothing changes.
Publication(k, d, o, n) ==
  /\ writer[k].pc \in {"renaming", "putting"}
  /\ d = writer[k].to /\ o = writer[k].obj /\ n = writer[k].seq
  /\ Publishes(k) /\ writer' = [writer EXCEPT ![k] = Idle]
  /\ UNCHANGED <<synced, source, files, handler, spent, asked>>
  /\ links' \in [Paths -> Inodes \cup {0}]
  /\ bucket' \in [ReportNames -> ReportType]
  /\ \A p \in Paths : p.tmp => links'[p] = links[p] \/ links'[p] = 0
  /\ \A j \in Kinds : j # k /\ writer[j].pc \in {"filling", "renaming"} /\ Separate =>
       links'[TmpPath(writer[j].to)] = links[TmpPath(writer[j].to)]
  /\ \A p, q \in Paths : links'[p] = links'[q] /\ links'[p] # 0 => p = q
  /\ \A e \in Slots : e # d => /\ Stored(e)' <=> Stored(e)
                               /\ Stored(e) => Content(e)' = Content(e)
  /\ Stored(d)'
  /\ Separate => Content(d)' = Report(o, n)

LEMMA PublishedStep ==
  ASSUME IInv, NEW k \in Kinds, NEW d, NEW o, NEW n, Publication(k, d, o, n)
  PROVE  IInv'
<1> USE DEF Publication
<1>0. TypeOK /\ Addressed /\ Requested /\ LinkedOnce /\ NeverVanishes
  BY DEF IInv
<1>1. /\ o \in Objects /\ o.kind = k /\ n \in Nat /\ n <= spent.writes
      /\ writer[k].source \in Source /\ d = WrittenTo(o.name, writer[k].source)
      /\ d \in asked[o] /\ d \in Slots /\ writer[k].source # Absent
  <2>1. writer[k].pc # "idle" /\ n \in Nat
    BY <1>0 DEF TypeOK
  <2> QED BY <1>0, <2>1, Addresses DEF Addressed
<1> DEFINE new == [seq |-> n, source |-> writer[k].source]
<1>2. /\ \A p \in Objects : published'[p] = IF p = o THEN new ELSE published[p]
      /\ published' \in [Objects -> [seq : Nat, source : Source \cup {Absent}]]
      /\ new.seq = n /\ new.source = writer[k].source
  BY <1>0, <1>1 DEF Publishes, TypeOK
<1> HIDE DEF new
<1>3. /\ \A j \in Kinds : /\ j # k => writer'[j] = writer[j]
                          /\ j = k => writer'[j].pc = "idle" /\ writer'[j].inode = 0
      /\ writer' \in [Kinds -> ExportRecord]
  BY <1>0, NothingTyped DEF TypeOK, ExportRecord
<1>4. TypeOK'
  BY <1>0, <1>2, <1>3 DEF TypeOK, ExportRecord
<1>5. \A e \in Slots : Stored(e) => Stored(e)'
  OBVIOUS
<1>6. \A p \in Objects : published[p].source # Absent =>
        WrittenTo(p.name, published[p].source) \in Slots
  BY <1>0, Addresses DEF TypeOK
<1>7. Addressed'
  <2>1. ASSUME NEW p \in Objects, published'[p].source # Absent, NEW e,
               e = WrittenTo(p.name, published'[p].source)
        PROVE  e \in asked[p] /\ Stored(e)'
    <3>1. CASE p = o
      BY <1>1, <1>2, <2>1, <3>1
    <3>2. CASE p # o
      BY <1>0, <1>2, <1>5, <1>6, <2>1, <3>2 DEF Addressed
    <3> QED BY <3>1, <3>2
  <2>2. \A p \in Objects : published'[p].source = Absent => published'[p].seq = 0
    BY <1>0, <1>1, <1>2 DEF Addressed
  <2>3. \A p \in Objects : published'[p].source # Absent =>
          /\ WrittenTo(p.name, published'[p].source) \in asked'[p]
          /\ Stored(WrittenTo(p.name, published[p].source))'
    BY <2>1 DEF Stored
  <2> QED BY <1>0, <1>3, <2>2, <2>3 DEF Addressed
<1>8. LinkedOnce'
  BY <1>0, <1>3 DEF LinkedOnce
<1>9. Requested' /\ NeverVanishes'
  <2>1. handler.pc = "reading" /\ Stored(handler.from) => Stored(handler.from)'
    BY <1>0, <1>5 DEF Requested, Stored
  <2> QED BY <1>0, <2>1 DEF Requested, NeverVanishes
<1>10. ASSUME Separate'
       PROVE  InOrder'
  <2>1. Separate /\ WriterInPlace /\ ContentOwned /\ PublishedInPlace /\ HandlerServed
    BY <1>10 DEF Separate, IInv, InOrder
  <2>2. /\ Content(d)'.whole /\ Content(d)'.by = o /\ Content(d)'.seq = n
    BY <1>1, <2>1, ReportTyped
  <2>3. WriterInPlace'
    BY <1>3, <2>1 DEF WriterInPlace
  <2>4. ContentOwned'
    <3>1. \A p \in Objects : p.kind \in Kinds
      BY DEF Objects
    <3>2. ASSUME NEW e \in Slots, Stored(e)'
          PROVE  /\ Content(e)'.whole /\ Content(e)'.by \in Objects
                 /\ e \in asked[Content(e)'.by]
                 /\ Content(e)'.seq <= spent.writes
                 /\ writer'[Content(e)'.by.kind].pc # "idle" =>
                      Content(e)'.seq < writer'[Content(e)'.by.kind].seq
      <4>1. CASE e = d
        BY <1>1, <1>3, <2>2, <4>1
      <4>2. CASE e # d
        BY <1>3, <2>1, <3>1, <3>2, <4>2 DEF ContentOwned
      <4> QED BY <4>1, <4>2
    <3> QED BY <3>2 DEF ContentOwned
  <2>5. PublishedInPlace'
    <3>1. ASSUME NEW p \in Objects, published'[p].source # Absent, NEW e,
                 e = WrittenTo(p.name, published'[p].source)
          PROVE  Content(e)'.seq = published'[p].seq
      <4>1. CASE p = o
        BY <1>1, <1>2, <2>2, <3>1, <4>1
      <4>2. CASE p # o
        <5>1. published'[p] = published[p] /\ e \in Slots /\ e \in asked[p] /\ Stored(e)
          BY <1>0, <1>2, <1>6, <3>1, <4>2 DEF Addressed
        <5>2. e # d
          BY <1>1, <2>1, <4>2, <5>1, AskedOnce
        <5> QED BY <2>1, <3>1, <5>1, <5>2 DEF PublishedInPlace
      <4> QED BY <4>1, <4>2
    <3> QED BY <3>1 DEF PublishedInPlace, Content
  <2>6. HandlerServed'
    <3>1. ASSUME handler.pc = "reading", NEW e, e = handler.from, Stored(e)'
          PROVE  Content(e)'.seq >= handler.floor
      <4>1. /\ e \in Slots /\ handler.obj \in Objects /\ e \in asked[handler.obj]
            /\ handler.floor = 0 \/ Stored(e)
        BY <1>0, <3>1 DEF Requested
      <4>2. CASE e # d
        <5>1. Stored(e) /\ Content(e)' = Content(e)
          BY <3>1, <4>1, <4>2
        <5> QED BY <2>1, <3>1, <5>1 DEF HandlerServed
      <4>3. CASE e = d /\ handler.floor = 0
        BY <1>1, <2>2, <4>3
      <4>4. CASE e = d /\ Stored(e)
        <5>1. Content(e).seq >= handler.floor
          BY <2>1, <3>1, <4>4 DEF HandlerServed
        <5>2. Content(e).by = o
          BY <1>1, <2>1, <4>1, <4>4, AskedOnce DEF ContentOwned
        <5>3. Content(e).seq < n
          BY <1>1, <2>1, <4>1, <4>4, <5>2 DEF ContentOwned
        <5>4. Content(e).seq \in Nat /\ handler.floor \in Nat
          BY <1>0, <4>1, <4>4, PathsOf DEF TypeOK, ReportType, Stored, Content
        <5> QED BY <1>1, <2>2, <4>4, <5>1, <5>3, <5>4
      <4> QED BY <4>1, <4>2, <4>3, <4>4
    <3>2. handler.pc = "opened" => \A p \in Paths : p.tmp => links'[p] # handler.inode
      BY <1>0, <2>1 DEF HandlerServed, Requested
    <3>3. handler.pc = "reading" /\ Stored(handler.from)' =>
            Content(handler.from)'.seq >= handler.floor
      BY <3>1 DEF Stored, Content
    <3> QED BY <2>1, <3>2, <3>3 DEF HandlerServed
  <2> QED BY <2>3, <2>4, <2>5, <2>6 DEF InOrder
<1> QED BY <1>4, <1>7, <1>8, <1>9, <1>10 DEF IInv

LEMMA RenameStep ==
  ASSUME IInv, NEW k \in Kinds, Rename(k)
  PROVE  IInv'
<1>1. PICK d, o, n : d = writer[k].to /\ o = writer[k].obj /\ n = writer[k].seq
  OBVIOUS
<1> DEFINE t == TmpPath(d)
           f == FinalPath(d)
<1>0. TypeOK /\ Addressed /\ LinkedOnce
  BY DEF IInv
<1>2. /\ writer[k].pc = "renaming" /\ links[t] # 0
      /\ links' = [p \in Paths |-> CASE p = f -> links[t]
                                     [] p = t /\ p # f -> 0
                                     [] OTHER -> links[p]]
      /\ Publishes(k) /\ writer' = [writer EXCEPT ![k] = Idle]
      /\ UNCHANGED <<synced, source, files, bucket, handler, spent, asked>>
  BY <1>1 DEF Rename
<1>3. /\ d \in Slots /\ d.at # "bucket" /\ t \in Paths /\ f \in Paths /\ t.tmp /\ ~f.tmp
  BY <1>0, <1>1, <1>2, Addresses, PathsOf DEF Addressed
<1> HIDE DEF t, f
<1>4. /\ links'[f] = links[t] /\ links'[t] = 0
      /\ \A p \in Paths : p # f /\ p # t => links'[p] = links[p]
      /\ links' \in [Paths -> Inodes \cup {0}]
  BY <1>0, <1>2, <1>3 DEF TypeOK
<1>5. \A p \in Paths : p.tmp => links'[p] = links[p] \/ links'[p] = 0
  BY <1>3, <1>4
<1>6. \A j \in Kinds : j # k /\ writer[j].pc \in {"filling", "renaming"} /\ Separate =>
        links'[TmpPath(writer[j].to)] = links[TmpPath(writer[j].to)]
  <2>1. ASSUME NEW j \in Kinds, j # k, writer[j].pc \in {"filling", "renaming"}, Separate
        PROVE  links'[TmpPath(writer[j].to)] = links[TmpPath(writer[j].to)]
    <3>1. writer[j].to \in Slots /\ writer[j].to.at # "bucket" /\ TmpPath(writer[j].to) # t
      BY <1>0, <1>1, <1>2, <2>1, WritersApart DEF Addressed, t
    <3>2. TmpPath(writer[j].to) \in Paths /\ TmpPath(writer[j].to).tmp
      BY <3>1, PathsOf
    <3> QED BY <1>3, <1>4, <3>1, <3>2
  <2> QED BY <2>1
<1>7. \A p, q \in Paths : links'[p] = links'[q] /\ links'[p] # 0 => p = q
  BY <1>0, <1>3, <1>4 DEF LinkedOnce
<1>8. \A e \in Slots : e # d => /\ Stored(e)' <=> Stored(e)
                                /\ Stored(e) => Content(e)' = Content(e)
  <2>1. ASSUME NEW e \in Slots, e # d, e.at # "bucket"
        PROVE  links'[FinalPath(e)] = links[FinalPath(e)]
    <3>1. FinalPath(e) \in Paths /\ FinalPath(e) # f /\ ~FinalPath(e).tmp
      BY <1>3, <2>1, PathsOf DEF f
    <3> QED BY <1>3, <1>4, <3>1
  <2> QED BY <1>2, <2>1 DEF Stored, Content
<1>9. Stored(d)'
  BY <1>2, <1>3, <1>4 DEF Stored, f
<1>10. Separate => Content(d)' = Report(o, n)
  BY <1>1, <1>2, <1>3, <1>4 DEF IInv, InOrder, WriterInPlace, Content, f, t
<1>11. bucket' \in [ReportNames -> ReportType]
  BY <1>0, <1>2 DEF TypeOK
<1>12. writer[k].pc \in {"renaming", "putting"}
  BY <1>2
<1>13. Publication(k, d, o, n)
  BY <1>1, <1>2, <1>4, <1>5, <1>6, <1>7, <1>8, <1>9, <1>10, <1>11, <1>12 DEF Publication
<1> QED BY <1>13, PublishedStep

LEMMA PutObjectStep ==
  ASSUME IInv, NEW k \in Kinds, PutObject(k)
  PROVE  IInv'
<1>1. PICK d, o, n : d = writer[k].to /\ o = writer[k].obj /\ n = writer[k].seq
  OBVIOUS
<1>0. TypeOK /\ Addressed /\ LinkedOnce
  BY DEF IInv
<1>2. /\ writer[k].pc = "putting" /\ bucket' = [bucket EXCEPT ![d.name] = Report(o, n)]
      /\ Publishes(k) /\ writer' = [writer EXCEPT ![k] = Idle]
      /\ UNCHANGED <<synced, source, files, links, handler, spent, asked>>
  BY <1>1 DEF PutObject
<1>3. /\ d \in Slots /\ d.at = "bucket" /\ d.name \in ReportNames
      /\ o \in Objects /\ n \in Nat
  <2>1. d \in Slots /\ d.at = "bucket" /\ o \in Objects
    BY <1>0, <1>1, <1>2, Addresses DEF Addressed
  <2>2. n \in Nat
    BY <1>0, <1>1 DEF TypeOK
  <2> QED BY <2>1, <2>2, PathsOf
<1>4. /\ bucket' \in [ReportNames -> ReportType] /\ bucket'[d.name] = Report(o, n)
      /\ \A m \in ReportNames : m # d.name => bucket'[m] = bucket[m]
      /\ links' \in [Paths -> Inodes \cup {0}]
  BY <1>0, <1>2, <1>3, ReportTyped DEF TypeOK
<1>5. \A e \in Slots : e # d => /\ Stored(e)' <=> Stored(e)
                                /\ Stored(e) => Content(e)' = Content(e)
  <2>1. ASSUME NEW e \in Slots, e # d, e.at = "bucket"
        PROVE  bucket'[e.name] = bucket[e.name]
    BY <1>3, <1>4, <2>1, PathsOf
  <2> QED BY <1>2, <2>1 DEF Stored, Content
<1>6. Stored(d)' /\ Content(d)' = Report(o, n)
  BY <1>3, <1>4, ReportTyped DEF Stored, Content
<1>7. \A p, q \in Paths : links'[p] = links'[q] /\ links'[p] # 0 => p = q
  BY <1>0, <1>2 DEF LinkedOnce
<1>8. \A p \in Paths : links'[p] = links[p]
  BY <1>2
<1>9. \A j \in Kinds : links'[TmpPath(writer[j].to)] = links[TmpPath(writer[j].to)]
  BY <1>2
<1>10. Publication(k, d, o, n)
  BY <1>1, <1>2, <1>4, <1>5, <1>6, <1>7, <1>8, <1>9 DEF Publication
<1> QED BY <1>10, PublishedStep

LEMMA ExportStep ==
  ASSUME IInv, Export
  PROVE  IInv'
<1>1. CASE \E o \in Objects : ExportBegins(o)
  BY <1>1, ExportBeginsStep
<1>2. ASSUME NEW k \in Kinds,
             \/ OpenTmp(k) \/ FillTmp(k) \/ Rename(k)
             \/ RenameFails(k) \/ PutObject(k) \/ ExportFails(k)
      PROVE  IInv'
  <2>1. CASE OpenTmp(k)
    BY <2>1, OpenTmpStep
  <2>2. CASE FillTmp(k)
    BY <2>2, FillTmpStep
  <2>3. CASE Rename(k)
    BY <2>3, RenameStep
  <2>4. CASE RenameFails(k)
    BY <2>4, GivenUpStep DEF RenameFails
  <2>5. CASE PutObject(k)
    BY <2>5, PutObjectStep
  <2>6. CASE ExportFails(k)
    BY <2>6, GivenUpStep DEF ExportFails
  <2> QED BY <1>2, <2>1, <2>2, <2>3, <2>4, <2>5, <2>6
<1> QED BY <1>1, <1>2 DEF Export

LEMMA ServeStep ==
  ASSUME IInv, Serve
  PROVE  IInv'
<1>1. CASE \E o \in Objects : ServeRequest(o)
  BY <1>1, ServeRequestStep
<1> QED BY <1>1, ServeOpenStep, ServeReadStep, ServeGetStep, ServeFailsStep DEF Serve

LEMMA StutterStep ==
  ASSUME IInv, UNCHANGED vars
  PROVE  IInv'
<1>1. UNCHANGED <<synced, source, files, links, bucket, writer, handler, spent,
                  published, asked>>
  BY DEF vars
<1>2. TypeOK' /\ Addressed' /\ Requested' /\ LinkedOnce' /\ NeverVanishes'
  BY <1>1 DEF IInv, TypeOK, Addressed, Requested, LinkedOnce, NeverVanishes, Stored
<1>3. Separate' => InOrder'
  BY <1>1 DEF IInv, Separate, InOrder, WriterInPlace, ContentOwned, PublishedInPlace,
              HandlerServed, Stored, Content
<1> QED BY <1>2, <1>3 DEF IInv

LEMMA InitIInv == Init => IInv
<1> SUFFICES ASSUME Init
             PROVE  IInv
  OBVIOUS
<1>1. TypeOK
  BY NothingTyped DEF Init, TypeOK, ExportRecord, Request
<1>2. /\ \A o \in Objects : source[o] = Absent /\ published[o] = NeverPublished
      /\ \A k \in Kinds : writer[k].pc = "idle" /\ writer[k].inode = 0
      /\ handler.pc = "idle" /\ handler.code = 0 /\ handler.inode = 0
      /\ \A p \in Paths : links[p] = 0
      /\ \A m \in ReportNames : bucket[m] = Nothing
  BY NothingTyped DEF Init
<1>3. Addressed
  BY <1>2, NothingTyped DEF Addressed
<1>4. Requested /\ LinkedOnce /\ NeverVanishes
  BY <1>2 DEF Requested, LinkedOnce, NeverVanishes
<1>5. InOrder
  <2>1. \A d \in Slots : ~Stored(d)
    BY <1>2, PathsOf DEF Stored
  <2> QED BY <1>2, <2>1, NothingTyped
          DEF InOrder, WriterInPlace, ContentOwned, PublishedInPlace, HandlerServed
<1> QED BY <1>1, <1>3, <1>4, <1>5 DEF IInv

\* The invariant from which the properties follow, whatever objects there are,
\* wherever their reports go, and whatever fails or restarts.
THEOREM InductiveInvariance == Spec => []IInv
<1>1. IInv /\ [Next]_vars => IInv'
  <2> SUFFICES ASSUME IInv, [Next]_vars
               PROVE  IInv'
    OBVIOUS
  <2>1. CASE \E o \in Objects : \E s \in Choices[o] \cup {Absent} : UserSets(o, s)
    BY <2>1, UserSetsStep
  <2>2. CASE Export
    BY <2>2, ExportStep
  <2>3. CASE Serve
    BY <2>3, ServeStep
  <2>4. CASE Crash \/ PodReplaced \/ ManagerStarts
    BY <2>4, CrashStep, PodReplacedStep, ManagerStartsStep
  <2>5. CASE UNCHANGED vars
    BY <2>5, StutterStep
  <2> QED BY <2>1, <2>2, <2>3, <2>4, <2>5 DEF Next
<1> QED BY <1>1, InitIInv, PTL DEF Spec

\* The server "never hands out a half-written report" of objects that share no
\* destination: FileExporter.Write's rename is enough.
THEOREM ReportsAreWhole == Spec => []NoHalfReport
<1>1. IInv => NoHalfReport
  BY DEF IInv, InOrder, HandlerServed, NoHalfReport, WholeReport
<1> QED BY <1>1, InductiveInvariance, PTL

\* The server and the controllers resolve a destination alike, and what is served
\* is at least as new as what was published when the request came.
THEOREM ReportsAreOwnAndNew == Spec => []ReadYourWrites
<1>1. IInv => ReadYourWrites
  BY DEF IInv, InOrder, HandlerServed, ReadYourWrites
<1> QED BY <1>1, InductiveInvariance, PTL

\* A report that is there stays there while it is replaced.
THEOREM ReportsDoNotVanish == Spec => []NeverVanishes
<1>1. IInv => NeverVanishes
  BY DEF IInv
<1> QED BY <1>1, InductiveInvariance, PTL
=============================================================================
