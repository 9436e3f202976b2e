----------------------------- MODULE ServerProof -----------------------------
(* Theorems about Server, for any number of requests and of files, and any   *)
(* way the process ends.                                                     *)
EXTENDS Server, FiniteSetTheorems, TLAPS

USE BoundAssumption, ModeAssumption

-----------------------------------------------------------------------------
(* The inductive invariant.                                                 *)

\* The labels of HandleUpload's loop, and those before a file's fate is decided.
Loop   == {"open", "write", "audit", "audit error", "count"}
Before == {"idle", "start", "open", "write", "audit error"}

\* Every variable but the metric, which is compared with the disk below.
ShapeInv ==
  /\ main \in {"loading", "creating", "created", "started", "serving",
               "stopping", "draining", "closing", "leaving", "exited"}
  /\ serve \in {"none", "starting", "listening", "failed", "closed"}
  /\ auditing \in BOOLEAN /\ sweeping \in BOOLEAN /\ cut \in BOOLEAN
  /\ pc \in [Requests -> Resting \cup Loop \cup {"start", "serve", "respond"}]
  /\ kind \in [Requests -> Kinds]
  /\ want \in [Requests -> 1 .. MaxFiles]
  /\ at \in [Requests -> Nat \ {0}]
  /\ \A r \in Requests : at[r] <= want[r]
  /\ uploaded \in [Requests -> Nat] /\ failed \in [Requests -> Nat]
  /\ disk \subseteq Items /\ log \subseteq Items /\ served \subseteq Items
  /\ errlog \subseteq Items /\ unopened \subseteq Items /\ unlogged \subseteq Items
  /\ total \in Nat

\* The audit log is open from the first request to the last, if the process
\* waits for the requests; and a request is killed only by the end.
ProcessInv ==
  /\ main \in {"created", "started", "serving", "stopping", "draining", "closing"} => auditing
  /\ main \in {"loading", "creating", "created"} => serve = "none"
  /\ main = "closing" => serve = "closed"
  /\ main = "leaving" => serve \in {"none", "failed", "closed"}
  /\ serve = "none" => \A r \in Requests : pc[r] = "idle"
  /\ cut => main \in {"closing", "leaving", "exited"}
  /\ main \in {"closing", "leaving", "exited"} /\ ~cut => \A r \in Requests : ~Active(r)
  /\ main = "exited" => \A r \in Requests : ~Active(r)
  /\ \A r \in Requests : pc[r] = "killed" => main = "exited"

\* The files accounted for (t), in a request of kind k that is at label p with its
\* file at of n: those before it while the loop runs, and all of them, or none
\* because the request was refused, in the reply.
Tallied(k, p, t, a, n) ==
  /\ k # "upload" \/ p \in {"idle", "start"} => t = 0 /\ a = 1
  /\ k = "upload" /\ p \in Loop => t = a - 1
  /\ k = "upload" /\ p = "respond" => t = n
  /\ k = "upload" /\ p = "replied" => t \in {0, n}
  /\ t <= n

\* Where a request is, by its kind, and how its counters stand there.
RequestInv(r) ==
  /\ kind[r] = "download" => pc[r] \in Resting \cup {"start", "serve", "respond"}
  /\ kind[r] = "mkdir" => pc[r] \notin {"open", "count", "serve"}
  /\ kind[r] = "upload" => pc[r] # "serve"
  /\ Tallied(kind[r], pc[r], uploaded[r] + failed[r], at[r], want[r])
  /\ kind[r] # "upload" => uploaded[r] = 0 /\ failed[r] = 0
  /\ pc[r] \in {"audit", "count"} => Item(r) \in disk

\* What is on disk, and what is logged as failed, is of a position the request
\* has reached, and of an earlier one while the present file's fate is open.
PositionInv ==
  /\ \A i \in disk \cup errlog : /\ i[2] <= at[i[1]]
                                 /\ pc[i[1]] \in Before => i[2] < at[i[1]]
  /\ \A i \in served : kind[i[1]] = "download"

\* The handler's counter is the number of its files on disk, but for the one
\* that is being audited or counted.
StoredInv(r) ==
  kind[r] = "upload" =>
    /\ pc[r] \in {"audit", "count"} => Cardinality(Stored(r)) = uploaded[r] + 1
    /\ pc[r] \notin {"audit", "count", "killed"} => Cardinality(Stored(r)) = uploaded[r]

\* The upload items on disk, and those of them that have been counted.
UploadItems == {i \in disk : kind[i[1]] = "upload"}
Counted == {i \in UploadItems : ~(i[2] = at[i[1]] /\ pc[i[1]] \in {"audit", "count"})}

TotalInv == /\ total <= Cardinality(UploadItems)
            /\ Running => total = Cardinality(Counted)

\* The files of an upload whose fate is known and on record.
Recorded(r, n) == <<r, n>> \in disk \cup errlog \cup unopened \cup unlogged

RecordedInv(r) ==
  kind[r] = "upload" =>
    /\ pc[r] \in Loop => \A n \in 1 .. at[r] - 1 : Recorded(r, n)
    /\ pc[r] \in {"respond", "replied"} /\ uploaded[r] + failed[r] # 0 =>
         \A n \in 1 .. want[r] : Recorded(r, n)

\* While the process waits for the requests, what they did is on record.
AuditedInv ==
  ~cut =>
    /\ StoredIsAudited
    /\ \A r \in Requests : pc[r] = "serve" => Item(r) \in log \cup unlogged
    /\ \A r \in Requests : RecordedInv(r)

ServerInv == /\ ShapeInv /\ ProcessInv
             /\ \A r \in Requests : RequestInv(r)
             /\ PositionInv /\ AuditIsTrue /\ AuditedInv
             /\ IsFiniteSet(disk)
             /\ \A r \in Requests : StoredInv(r)
             /\ TotalInv
-----------------------------------------------------------------------------
(* The steps.                                                               *)

\* A step of one request, and a step of the process: Start's goroutine, a
\* signal, or the main goroutine.
RequestStep(r) == Accept(r) \/ Handle(r)
ProcessStep    == Listen \/ ListenerFails \/ Signal \/ SignalEarly \/ Run

LEMMA StepCases ==
  ASSUME [Next]_vars
  PROVE  \/ \E r \in Requests : Running /\ RequestStep(r)
         \/ ProcessStep
         \/ UNCHANGED vars
  BY DEF Next, RequestStep, ProcessStep

\* The process does nothing to the requests, but that its end kills those at work.
LEMMA ProcessFrame ==
  ASSUME ShapeInv, ProcessStep
  PROVE  /\ UNCHANGED <<kind, want, at, uploaded, failed, effects>>
         /\ \A r \in Requests : \/ pc'[r] = pc[r]
                                \/ Active(r) /\ pc'[r] = "killed" /\ main' = "exited"
         /\ pc' \in [Requests -> Resting \cup Loop \cup {"start", "serve", "respond"}]
  <1> USE DEF ShapeInv, request
  <1>1. UNCHANGED <<kind, want, at, uploaded, failed, effects>>
    BY DEF ProcessStep, Run, Shutdown, Listen, ListenerFails, Signal, SignalEarly, LoadConfig,
           NewServer, GoStart, Notify, ServeError, StopSweeping, CloseListener, Drained,
           DeadlinePasses, CloseAudit, Exit
  <1>2. UNCHANGED pc \/ (Killed /\ main' = "exited")
    BY DEF ProcessStep, Run, Shutdown, Listen, ListenerFails, Signal, SignalEarly, LoadConfig,
           NewServer, GoStart, Notify, ServeError, StopSweeping, CloseListener, Drained,
           DeadlinePasses, CloseAudit, Exit
  <1>3. CASE UNCHANGED pc
    BY <1>1, <1>3
  <1>4. CASE Killed /\ main' = "exited"
    <2>1. \A r \in Requests : \/ pc'[r] = pc[r]
                              \/ Active(r) /\ pc'[r] = "killed" /\ main' = "exited"
      BY <1>4 DEF Killed
    <2>2. pc' \in [Requests -> Resting \cup Loop \cup {"start", "serve", "respond"}]
      BY <1>4 DEF Killed, Resting
    <2> QED
      BY <1>1, <2>1, <2>2
  <1> QED
    BY <1>2, <1>3, <1>4

\* A request's step changes no other request, and not the process.
LEMMA RequestFrame ==
  ASSUME ShapeInv, NEW r \in Requests, NEW q \in Requests, q # r, RequestStep(r)
  PROVE  /\ pc'[q] = pc[q] /\ kind'[q] = kind[q] /\ want'[q] = want[q] /\ at'[q] = at[q]
         /\ uploaded'[q] = uploaded[q] /\ failed'[q] = failed[q]
  <1> USE DEF ShapeInv, RequestStep, Handle, Goto, Inc, NextFile, effects
  <1>1. pc'[q] = pc[q] /\ kind'[q] = kind[q] /\ want'[q] = want[q]
    BY DEF Accept, Reject, UploadStarts, OpenPart, OpenPartFails, Write, AuditUpload,
           AuditUploadError, Count, MkdirStarts, AuditMkdir, DownloadStarts, Serve, Respond
  <1>2. at'[q] = at[q] /\ uploaded'[q] = uploaded[q] /\ failed'[q] = failed[q]
    BY DEF Accept, Reject, UploadStarts, OpenPart, OpenPartFails, Write, AuditUpload,
           AuditUploadError, Count, MkdirStarts, AuditMkdir, DownloadStarts, Serve, Respond
  <1> QED
    BY <1>1, <1>2

LEMMA RequestKeeps ==
  ASSUME ShapeInv, NEW r \in Requests, RequestStep(r)
  PROVE  /\ UNCHANGED <<process, kind>>
         /\ log \subseteq log' /\ errlog \subseteq errlog' /\ unopened \subseteq unopened'
         /\ unlogged \subseteq unlogged' /\ disk \subseteq disk' /\ served \subseteq served'
  BY DEF RequestStep, Handle, LogSuccess, LogError, effects, request, Accept, Reject, UploadStarts, OpenPart,
         OpenPartFails, Write, AuditUpload, AuditUploadError, Count, MkdirStarts, AuditMkdir,
         DownloadStarts, Serve, Respond

\* The item a request works on is one.
LEMMA ItemTyped ==
  ASSUME ShapeInv, NEW r \in Requests
  PROVE  Item(r) \in Items /\ Item(r)[1] = r /\ Item(r)[2] = at[r]
  <1>1. at[r] \in Nat \ {0} /\ at[r] <= want[r] /\ want[r] \in 1 .. MaxFiles
    BY DEF ShapeInv
  <1>2. at[r] \in 1 .. MaxFiles
    BY <1>1
  <1> QED
    BY <1>2 DEF Item, Items

-----------------------------------------------------------------------------
(* Shape.                                                                   *)

LEMMA InitShape == Init => ShapeInv
  <1> SUFFICES ASSUME Init PROVE ShapeInv
    OBVIOUS
  <1>1. want \in [Requests -> 1 .. MaxFiles]
    BY DEF Init
  <1>2. at \in [Requests -> Nat \ {0}]
    BY DEF Init
  <1>3. \A r \in Requests : at[r] <= want[r]
    BY DEF Init
  <1>4. pc \in [Requests -> Resting \cup Loop \cup {"start", "serve", "respond"}]
    BY DEF Init, Resting
  <1> QED
    BY <1>1, <1>2, <1>3, <1>4 DEF Init, ShapeInv

-----------------------------------------------------------------------------
(* What a request's step does, at that request: the same actions, without   *)
(* the functions.                                                           *)

Stays(r) == want'[r] = want[r] /\ at'[r] = at[r]
Counters(r) == uploaded'[r] = uploaded[r] /\ failed'[r] = failed[r]

\* NextFile.
Advances(r) ==
  /\ want'[r] = want[r]
  /\ \/ at[r] < want[r] /\ pc'[r] = "open" /\ at'[r] = at[r] + 1
     \/ at[r] = want[r] /\ pc'[r] = "respond" /\ at'[r] = at[r]

\* Accept, Reject, OpenPart, MkdirStarts, Respond.
Turns(r) ==
  /\ Stays(r) /\ Counters(r) /\ UNCHANGED effects
  /\ \/ pc[r] = "idle" /\ pc'[r] = "start" /\ serve = "listening"
     \/ pc[r] = "start" /\ pc'[r] = "replied"
     \/ pc[r] = "open" /\ pc'[r] = "write"
     \/ pc[r] = "start" /\ kind[r] = "mkdir" /\ pc'[r] = "write"
     \/ pc[r] = "respond" /\ pc'[r] = "replied"

\* UploadStarts.
Begins(r) ==
  /\ pc[r] = "start" /\ kind[r] = "upload" /\ pc'[r] = "open"
  /\ want'[r] \in 1 .. MaxFiles
  /\ at'[r] = at[r] /\ Counters(r) /\ UNCHANGED effects

\* OpenPartFails.
CannotOpen(r) ==
  /\ pc[r] = "open" /\ Advances(r)
  /\ uploaded'[r] = uploaded[r] /\ failed'[r] = failed[r] + 1
  /\ unopened' = unopened \cup {Item(r)}
  /\ UNCHANGED <<disk, log, errlog, unlogged, served, total>>

\* Write.
Stores(r) ==
  /\ pc[r] = "write" /\ pc'[r] = "audit" /\ Stays(r) /\ Counters(r)
  /\ disk' = disk \cup {Item(r)}
  /\ UNCHANGED <<log, errlog, unopened, unlogged, served, total>>

Refuses(r) ==
  /\ pc[r] = "write" /\ pc'[r] = "audit error" /\ Stays(r) /\ Counters(r)
  /\ UNCHANGED effects

\* AuditUpload, DownloadStarts, and AuditMkdir of a folder that was created.
Records(r) ==
  /\ \/ pc[r] = "audit" /\ kind[r] = "upload" /\ pc'[r] = "count"
     \/ pc[r] = "audit" /\ kind[r] = "mkdir" /\ pc'[r] = "respond"
     \/ pc[r] = "start" /\ kind[r] = "download" /\ pc'[r] = "serve"
  /\ Stays(r) /\ Counters(r)
  /\ LogSuccess(r)
  /\ UNCHANGED <<disk, errlog, unopened, served, total>>

\* AuditUploadError, and AuditMkdir of a folder that was not.
RecordsError(r) ==
  /\ pc[r] = "audit error"
  /\ \/ kind[r] = "upload" /\ Advances(r) /\ uploaded'[r] = uploaded[r] /\ failed'[r] = failed[r] + 1
     \/ kind[r] = "mkdir" /\ pc'[r] = "respond" /\ Stays(r) /\ Counters(r)
  /\ LogError(r)
  /\ UNCHANGED <<disk, log, unopened, served, total>>

\* Count.
Counts(r) ==
  /\ pc[r] = "count" /\ Advances(r)
  /\ uploaded'[r] = uploaded[r] + 1 /\ failed'[r] = failed[r]
  /\ total' = total + 1
  /\ UNCHANGED <<disk, log, errlog, unopened, unlogged, served>>

\* Serve.
Sends(r) ==
  /\ pc[r] = "serve" /\ pc'[r] = "respond" /\ Stays(r) /\ Counters(r)
  /\ served' = served \cup {Item(r)}
  /\ UNCHANGED <<disk, log, errlog, unopened, unlogged, total>>

PointStep(r) == \/ Turns(r) \/ Begins(r) \/ CannotOpen(r) \/ Stores(r) \/ Refuses(r)
                \/ Records(r) \/ RecordsError(r) \/ Counts(r) \/ Sends(r)

LEMMA NextFileAdvances ==
  ASSUME ShapeInv, NEW r \in Requests, NextFile(r), UNCHANGED want
  PROVE  Advances(r)
  <1>1. at[r] \in Nat /\ want[r] \in Nat /\ at[r] <= want[r]
    BY DEF ShapeInv
  <1>2. r \in DOMAIN at /\ r \in DOMAIN pc
    BY DEF ShapeInv
  <1> QED
    BY <1>1, <1>2 DEF NextFile, Goto, Inc, Advances

LEMMA RequestPoint ==
  ASSUME ShapeInv, NEW r \in Requests, RequestStep(r)
  PROVE  PointStep(r)
  <1>1. /\ DOMAIN pc = Requests /\ DOMAIN want = Requests /\ DOMAIN at = Requests
        /\ DOMAIN uploaded = Requests /\ DOMAIN failed = Requests
    BY DEF ShapeInv
  <1> USE <1>1 DEF Goto, Inc, Stays, Counters, effects
  <1>2. CASE Accept(r) \/ Reject(r) \/ OpenPart(r) \/ MkdirStarts(r) \/ Respond(r)
    BY <1>2 DEF Accept, Reject, OpenPart, MkdirStarts, Respond, PointStep, Turns
  <1>3. CASE UploadStarts(r)
    <2>1. PICK n \in 1 .. MaxFiles : want' = [want EXCEPT ![r] = n]
      BY <1>3 DEF UploadStarts
    <2>2. want'[r] = n
      BY <2>1
    <2> QED
      BY <1>3, <2>2 DEF UploadStarts, PointStep, Begins
  <1>4. CASE OpenPartFails(r)
    <2>1. Advances(r)
      BY <1>4, NextFileAdvances DEF OpenPartFails
    <2> QED
      BY <1>4, <2>1 DEF OpenPartFails, PointStep, CannotOpen
  <1>5. CASE Write(r)
    BY <1>5 DEF Write, PointStep, Stores, Refuses
  <1>6. CASE AuditUpload(r) \/ DownloadStarts(r)
    BY <1>6 DEF AuditUpload, DownloadStarts, PointStep, Records
  <1>7. CASE AuditMkdir(r)
    BY <1>7 DEF AuditMkdir, PointStep, Records, RecordsError
  <1>8. CASE AuditUploadError(r)
    <2>1. Advances(r)
      BY <1>8, NextFileAdvances DEF AuditUploadError
    <2> QED
      BY <1>8, <2>1 DEF AuditUploadError, PointStep, RecordsError
  <1>9. CASE Count(r)
    <2>1. Advances(r)
      BY <1>9, NextFileAdvances DEF Count
    <2> QED
      BY <1>9, <2>1 DEF Count, PointStep, Counts
  <1>10. CASE Serve(r)
    BY <1>10 DEF Serve, PointStep, Sends
  <1> QED
    BY <1>2, <1>3, <1>4, <1>5, <1>6, <1>7, <1>8, <1>9, <1>10 DEF RequestStep, Handle

LEMMA RequestDomains ==
  ASSUME ShapeInv, NEW r \in Requests, RequestStep(r)
  PROVE  /\ DOMAIN pc' = Requests /\ DOMAIN want' = Requests /\ DOMAIN at' = Requests
         /\ DOMAIN uploaded' = Requests /\ DOMAIN failed' = Requests
         /\ pc' = [q \in Requests |-> pc'[q]] /\ want' = [q \in Requests |-> want'[q]]
         /\ at' = [q \in Requests |-> at'[q]] /\ uploaded' = [q \in Requests |-> uploaded'[q]]
         /\ failed' = [q \in Requests |-> failed'[q]]
  <1> USE DEF ShapeInv, RequestStep, Handle, Goto, Inc, NextFile, effects
  <1>1. /\ DOMAIN pc' = Requests /\ DOMAIN want' = Requests
        /\ pc' = [q \in Requests |-> pc'[q]] /\ want' = [q \in Requests |-> want'[q]]
    BY DEF Accept, Reject, UploadStarts, OpenPart, OpenPartFails, Write, AuditUpload,
           AuditUploadError, Count, MkdirStarts, AuditMkdir, DownloadStarts, Serve, Respond
  <1>2. /\ DOMAIN at' = Requests /\ DOMAIN uploaded' = Requests /\ DOMAIN failed' = Requests
        /\ at' = [q \in Requests |-> at'[q]] /\ uploaded' = [q \in Requests |-> uploaded'[q]]
        /\ failed' = [q \in Requests |-> failed'[q]]
    BY DEF Accept, Reject, UploadStarts, OpenPart, OpenPartFails, Write, AuditUpload,
           AuditUploadError, Count, MkdirStarts, AuditMkdir, DownloadStarts, Serve, Respond
  <1> QED
    BY <1>1, <1>2

LEMMA RequestGrows ==
  ASSUME ShapeInv, NEW r \in Requests, RequestStep(r)
  PROVE  /\ disk' \subseteq disk \cup {Item(r)} /\ log' \subseteq log \cup {Item(r)}
         /\ served' \subseteq served \cup {Item(r)} /\ errlog' \subseteq errlog \cup {Item(r)}
         /\ unopened' \subseteq unopened \cup {Item(r)} /\ unlogged' \subseteq unlogged \cup {Item(r)}
         /\ total' \in {total, total + 1}
  <1>1. PointStep(r)
    BY RequestPoint
  <1>2. /\ LogSuccess(r) => log' \subseteq log \cup {Item(r)} /\ unlogged' \subseteq unlogged \cup {Item(r)}
        /\ LogError(r) => errlog' \subseteq errlog \cup {Item(r)} /\ unlogged' \subseteq unlogged \cup {Item(r)}
    BY DEF LogSuccess, LogError
  <1> USE DEF PointStep, Turns, Begins, CannotOpen, Stores, Refuses, Records, RecordsError, Counts,
              Sends, effects
  <1>3. disk' \subseteq disk \cup {Item(r)} /\ served' \subseteq served \cup {Item(r)}
    BY <1>1
  <1>4. log' \subseteq log \cup {Item(r)} /\ errlog' \subseteq errlog \cup {Item(r)}
    BY <1>1, <1>2
  <1>5. unopened' \subseteq unopened \cup {Item(r)} /\ total' \in {total, total + 1}
    BY <1>1
  <1>6. unlogged' \subseteq unlogged \cup {Item(r)}
    BY <1>1, <1>2
  <1> QED
    BY <1>3, <1>4, <1>5, <1>6

LEMMA RequestShape ==
  ASSUME ShapeInv, NEW r \in Requests, RequestInv(r), RequestStep(r)
  PROVE  ShapeInv'
  <1>1. UNCHANGED <<process, kind>>
    BY RequestKeeps
  <1>2. PointStep(r)
    BY RequestPoint
  <1>3. /\ at[r] \in Nat \ {0} /\ want[r] \in 1 .. MaxFiles /\ at[r] <= want[r]
        /\ uploaded[r] \in Nat /\ failed[r] \in Nat
        /\ pc[r] \in {"idle", "start"} => at[r] = 1
    <2>1. pc[r] \in {"idle", "start"} => at[r] = 1
      BY DEF RequestInv, Tallied
    <2> QED
      BY <2>1 DEF ShapeInv
  <1>4. /\ at'[r] \in Nat \ {0} /\ want'[r] \in 1 .. MaxFiles /\ at'[r] <= want'[r]
        /\ uploaded'[r] \in Nat /\ failed'[r] \in Nat
        /\ pc'[r] \in Resting \cup Loop \cup {"start", "serve", "respond"}
    <2>1. at'[r] \in Nat \ {0} /\ want'[r] \in 1 .. MaxFiles /\ at'[r] <= want'[r]
      <3>1. \/ at'[r] = at[r] /\ want'[r] = want[r]
            \/ at'[r] = at[r] + 1 /\ want'[r] = want[r] /\ at[r] < want[r]
            \/ at'[r] = at[r] /\ pc[r] = "start" /\ want'[r] \in 1 .. MaxFiles
        BY <1>2
        DEF PointStep, Turns, Begins, CannotOpen, Stores, Refuses, Records, RecordsError, Counts,
            Sends, Stays, Advances
      <3> QED
        BY <1>3, <3>1
    <2>3. uploaded'[r] \in Nat /\ failed'[r] \in Nat
      <3>1. /\ uploaded'[r] = uploaded[r] \/ uploaded'[r] = uploaded[r] + 1
            /\ failed'[r] = failed[r] \/ failed'[r] = failed[r] + 1
        BY <1>2
        DEF PointStep, Turns, Begins, CannotOpen, Stores, Refuses, Records, RecordsError, Counts,
            Sends, Counters
      <3> QED
        BY <1>3, <3>1
    <2>4. pc'[r] \in Resting \cup Loop \cup {"start", "serve", "respond"}
      BY <1>2
      DEF PointStep, Turns, Begins, CannotOpen, Stores, Refuses, Records, RecordsError, Counts,
          Sends, Advances, Resting, Loop
    <2> QED
      BY <2>1, <2>3, <2>4
  <1>5. \A q \in Requests :
          /\ at'[q] \in Nat \ {0} /\ want'[q] \in 1 .. MaxFiles /\ at'[q] <= want'[q]
          /\ uploaded'[q] \in Nat /\ failed'[q] \in Nat
          /\ pc'[q] \in Resting \cup Loop \cup {"start", "serve", "respond"}
    BY <1>4, RequestFrame DEF ShapeInv
  <1>6. /\ want' \in [Requests -> 1 .. MaxFiles] /\ at' \in [Requests -> Nat \ {0}]
        /\ uploaded' \in [Requests -> Nat] /\ failed' \in [Requests -> Nat]
        /\ pc' \in [Requests -> Resting \cup Loop \cup {"start", "serve", "respond"}]
    BY <1>5, RequestDomains
  <1>7. /\ disk' \subseteq Items /\ log' \subseteq Items /\ served' \subseteq Items
        /\ errlog' \subseteq Items /\ unopened' \subseteq Items /\ unlogged' \subseteq Items
        /\ total' \in Nat
    BY ItemTyped, RequestGrows DEF ShapeInv
  <1> QED
    BY <1>1, <1>5, <1>6, <1>7 DEF ShapeInv, process

LEMMA ProcessShape ==
  ASSUME ShapeInv, ProcessStep
  PROVE  ShapeInv'
  <1>1. /\ UNCHANGED <<kind, want, at, uploaded, failed, effects>>
        /\ pc' \in [Requests -> Resting \cup Loop \cup {"start", "serve", "respond"}]
    BY ProcessFrame
  <1>2. /\ main' \in {"loading", "creating", "created", "started", "serving",
                      "stopping", "draining", "closing", "leaving", "exited"}
        /\ serve' \in {"none", "starting", "listening", "failed", "closed"}
    BY DEF ShapeInv, ProcessStep, Run, Shutdown, Listen, ListenerFails, Signal, SignalEarly,
           LoadConfig, NewServer, GoStart, Notify, ServeError, StopSweeping, CloseListener,
           Drained, DeadlinePasses, CloseAudit, Exit, Leave
  <1>3. auditing' \in BOOLEAN /\ sweeping' \in BOOLEAN /\ cut' \in BOOLEAN
    BY DEF ShapeInv, ProcessStep, Run, Shutdown, Listen, ListenerFails, Signal, SignalEarly,
           LoadConfig, NewServer, GoStart, Notify, ServeError, StopSweeping, CloseListener,
           Drained, DeadlinePasses, CloseAudit, Exit
  <1> QED
    BY <1>1, <1>2, <1>3 DEF ShapeInv, effects

-----------------------------------------------------------------------------
(* The process.                                                             *)

LEMMA InitProcess == Init => ProcessInv
  BY DEF Init, ProcessInv, Active, Resting

\* An active request finds the log open, if the process waits for the requests.
LEMMA AuditingAtWork ==
  ASSUME ShapeInv, ProcessInv, NEW r \in Requests, Active(r), ~cut
  PROVE  auditing
  <1>1. main \notin {"closing", "leaving", "exited"}
    BY DEF ProcessInv
  <1>2. main \notin {"loading", "creating", "created"}
    BY DEF ProcessInv, Active, Resting
  <1>3. main \in {"started", "serving", "stopping", "draining"}
    BY <1>1, <1>2 DEF ShapeInv
  <1> QED
    BY <1>3 DEF ProcessInv

LEMMA RequestProcess ==
  ASSUME ShapeInv, ProcessInv, NEW r \in Requests, Running, RequestStep(r)
  PROVE  ProcessInv'
  <1>1. UNCHANGED process
    BY RequestKeeps
  <1>2. PointStep(r) /\ \A q \in Requests : q # r => pc'[q] = pc[q]
    BY RequestPoint, RequestFrame
  <1>3. pc[r] # "idle" => Active(r)
    BY <1>2 DEF PointStep, Turns, Begins, CannotOpen, Stores, Refuses, Records, RecordsError, Counts,
                Sends, Active, Resting
  <1>4. pc[r] = "idle" => serve = "listening"
    BY <1>2 DEF PointStep, Turns, Begins, CannotOpen, Stores, Refuses, Records, RecordsError, Counts,
                Sends
  <1>5. pc'[r] # "killed"
    BY <1>2 DEF PointStep, Turns, Begins, CannotOpen, Stores, Refuses, Records, RecordsError, Counts,
                Sends, Advances
  <1>6. serve # "none"
    BY <1>3, <1>4 DEF ProcessInv, Active, Resting
  <1>7. main \in {"closing", "leaving", "exited"} => cut
    BY <1>3, <1>4 DEF ProcessInv, Running
  <1>8. \A q \in Requests : pc'[q] = "killed" => main = "exited"
    BY <1>2, <1>5 DEF ProcessInv
  <1> QED
    BY <1>1, <1>6, <1>7, <1>8 DEF ProcessInv, process, Running

LEMMA MainMoves ==
  ASSUME ShapeInv, ProcessInv, ProcessStep
  PROVE  /\ main' \in {"created", "started", "serving", "stopping", "draining", "closing"} => auditing'
         /\ main' \in {"loading", "creating", "created"} => serve' = "none"
         /\ main' = "closing" => serve' = "closed"
         /\ main' = "leaving" => serve' \in {"none", "failed", "closed"}
         /\ serve' = "none" => serve = "none"
         /\ Running' => Running
  <1> USE DEF ShapeInv, ProcessInv
  <1>1. CASE LoadConfig \/ NewServer \/ GoStart \/ Notify
    BY <1>1 DEF LoadConfig, NewServer, GoStart, Notify, Leave, Running
  <1>2. CASE Listen \/ ListenerFails \/ ServeError \/ Signal \/ SignalEarly
    BY <1>2 DEF Listen, ListenerFails, ServeError, Signal, SignalEarly, Leave, Running
  <1>3. CASE StopSweeping \/ CloseListener \/ Drained \/ DeadlinePasses \/ CloseAudit \/ Exit
    BY <1>3 DEF StopSweeping, CloseListener, Drained, DeadlinePasses, CloseAudit, Exit, Leave, Running
  <1> QED
    BY <1>1, <1>2, <1>3 DEF ProcessStep, Run, Shutdown

LEMMA CutMoves ==
  ASSUME ShapeInv, ProcessInv, ProcessStep
  PROVE  /\ cut' => main' \in {"closing", "leaving", "exited"}
         /\ cut => cut'
         /\ main' \in {"closing", "leaving", "exited"} /\ ~cut' => \A r \in Requests : ~Active(r)
  <1> USE DEF ShapeInv, ProcessInv
  <1>1. CASE LoadConfig \/ NewServer \/ GoStart \/ Notify
    BY <1>1 DEF LoadConfig, NewServer, GoStart, Notify, Leave, Active, Resting
  <1>2. CASE Listen \/ ListenerFails \/ Signal
    BY <1>2 DEF Listen, ListenerFails, Signal
  <1>3. CASE ServeError \/ SignalEarly
    BY <1>3 DEF ServeError, SignalEarly, Leave
  <1>4. CASE StopSweeping \/ CloseListener \/ Drained \/ CloseAudit \/ Exit
    BY <1>4 DEF StopSweeping, CloseListener, Drained, CloseAudit, Exit, Leave
  <1>5. CASE DeadlinePasses
    BY <1>5 DEF DeadlinePasses
  <1> QED
    BY <1>1, <1>2, <1>3, <1>4, <1>5 DEF ProcessStep, Run, Shutdown

\* A step of the process that leaves the run uncut leaves the requests alone.
LEMMA UncutStep ==
  ASSUME ShapeInv, ProcessInv, ProcessStep, ~cut'
  PROVE  ~cut /\ UNCHANGED <<request, effects>>
  <1>1. ~cut
    BY CutMoves
  <1>2. /\ UNCHANGED <<kind, want, at, uploaded, failed, effects>>
        /\ \A r \in Requests : \/ pc'[r] = pc[r]
                               \/ Active(r) /\ pc'[r] = "killed" /\ main' = "exited"
        /\ pc' \in [Requests -> Resting \cup Loop \cup {"start", "serve", "respond"}]
    BY ProcessFrame
  <1>3. \A r \in Requests : pc'[r] = pc[r]
    BY <1>2, CutMoves
  <1>4. pc' = pc
    BY <1>2, <1>3 DEF ShapeInv
  <1> QED
    BY <1>1, <1>2, <1>4 DEF request

LEMMA ProcessProcess ==
  ASSUME ShapeInv, ProcessInv, ProcessStep
  PROVE  ProcessInv'
  <1>1. \A r \in Requests : \/ pc'[r] = pc[r]
                            \/ Active(r) /\ pc'[r] = "killed" /\ main' = "exited"
    BY ProcessFrame
  <1>2. serve' = "none" => \A r \in Requests : pc'[r] = "idle"
    BY <1>1, MainMoves DEF ProcessInv, Active, Resting
  <1>3. main' \in {"closing", "leaving", "exited"} /\ ~cut' => \A r \in Requests : ~Active(r)'
    BY <1>1, CutMoves DEF Active, Resting
  <1>4. main' = "exited" => \A r \in Requests : ~Active(r)'
    <2>1. main' = "exited" => main = "exited" \/ Killed
      BY DEF ShapeInv, ProcessStep, Run, Shutdown, Listen, ListenerFails, Signal, SignalEarly,
             LoadConfig, NewServer, GoStart, Notify, ServeError, StopSweeping, CloseListener,
             Drained, DeadlinePasses, CloseAudit, Exit, Leave
    <2>2. Killed => \A r \in Requests : ~Active(r)'
      BY DEF Killed, Active, Resting
    <2>3. main = "exited" => \A r \in Requests : ~Active(r)
      BY DEF ProcessInv
    <2> QED
      BY <1>1, <2>1, <2>2, <2>3 DEF Active, Resting
  <1>5. \A r \in Requests : pc'[r] = "killed" => main' = "exited"
    BY <1>1, MainMoves DEF ProcessInv, Running
  <1> QED
    BY <1>2, <1>3, <1>4, <1>5, MainMoves, CutMoves DEF ProcessInv, Running

-----------------------------------------------------------------------------
(* The requests.                                                            *)

LEMMA InitRequests == Init => \A r \in Requests : RequestInv(r)
  <1> SUFFICES ASSUME Init, NEW r \in Requests PROVE RequestInv(r)
    OBVIOUS
  <1>1. pc[r] = "idle" /\ at[r] = 1 /\ uploaded[r] = 0 /\ failed[r] = 0 /\ want[r] = 1
    BY DEF Init
  <1> QED
    BY <1>1 DEF RequestInv, Tallied, Resting, Loop

LEMMA TallyStays ==
  ASSUME NEW k, NEW p, NEW q, NEW t \in Nat, NEW a \in Nat, NEW n \in Nat, Tallied(k, p, t, a, n),
         \/ p = "idle" /\ q = "start"
         \/ p = "start" /\ q = "replied"
         \/ p \in Loop /\ q \in Loop
         \/ p = "respond" /\ q = "replied"
         \/ k # "upload"
  PROVE  Tallied(k, q, t, a, n)
  BY DEF Tallied, Loop

LEMMA TallyBegins ==
  ASSUME NEW k, NEW t \in Nat, NEW a \in Nat, NEW n \in Nat, NEW m \in Nat,
         Tallied(k, "start", t, a, n)
  PROVE  Tallied(k, "open", t, a, m)
  BY DEF Tallied, Loop

LEMMA TallyAdvances ==
  ASSUME NEW p \in Loop, NEW t \in Nat, NEW a \in Nat, NEW n \in Nat,
         Tallied("upload", p, t, a, n), a <= n
  PROVE  /\ a < n => Tallied("upload", "open", t + 1, a + 1, n)
         /\ a = n => Tallied("upload", "respond", t + 1, a, n)
  <1>1. t = a - 1
    BY DEF Tallied
  <1>2. t + 1 = (a + 1) - 1 /\ t + 1 = a
    BY <1>1
  <1>3. ASSUME a < n PROVE Tallied("upload", "open", t + 1, a + 1, n)
    BY <1>2, <1>3 DEF Tallied, Loop
  <1>4. ASSUME a = n PROVE Tallied("upload", "respond", t + 1, a, n)
    <2>1. t + 1 = n
      BY <1>2, <1>4
    <2>2. "respond" \notin Loop /\ "respond" \notin {"idle", "start"} /\ "respond" # "replied"
      BY DEF Loop
    <2>3. n <= n
      OBVIOUS
    <2> QED
      BY <2>1, <2>2, <2>3 DEF Tallied
  <1> QED
    BY <1>3, <1>4

\* A step either leaves the counters alone, or counts one file and advances.
LEMMA RequestTally ==
  ASSUME ShapeInv, NEW r \in Requests, RequestInv(r), RequestStep(r)
  PROVE  /\ Tallied(kind[r], pc'[r], uploaded'[r] + failed'[r], at'[r], want'[r])
         /\ kind[r] # "upload" => uploaded'[r] = 0 /\ failed'[r] = 0
  <1>1. PointStep(r)
    BY RequestPoint
  <1>2. /\ at[r] \in Nat /\ want[r] \in Nat /\ uploaded[r] \in Nat /\ failed[r] \in Nat
        /\ kind[r] \in Kinds /\ at[r] <= want[r]
    BY DEF ShapeInv
  <1>3. want'[r] \in Nat
    <2>1. ShapeInv'
      BY RequestShape
    <2> QED
      BY <2>1 DEF ShapeInv
  <1>4. /\ Tallied(kind[r], pc[r], uploaded[r] + failed[r], at[r], want[r])
        /\ kind[r] # "upload" => uploaded[r] = 0 /\ failed[r] = 0
    BY DEF RequestInv
  <1>5. uploaded[r] + failed[r] \in Nat
    BY <1>2
  <1>6. CASE /\ Counters(r) /\ Stays(r)
             /\ \/ pc[r] = "idle" /\ pc'[r] = "start"
                \/ pc[r] = "start" /\ pc'[r] = "replied"
                \/ pc[r] \in Loop /\ pc'[r] \in Loop
                \/ pc[r] = "respond" /\ pc'[r] = "replied"
                \/ kind[r] # "upload"
    BY <1>2, <1>4, <1>5, <1>6, TallyStays DEF Counters, Stays
  <1>7. CASE Begins(r)
    BY <1>2, <1>3, <1>4, <1>5, <1>7, TallyBegins DEF Begins, Counters
  <1>8. CASE /\ Advances(r) /\ kind[r] = "upload" /\ pc[r] \in Loop
             /\ \/ uploaded'[r] = uploaded[r] + 1 /\ failed'[r] = failed[r]
                \/ uploaded'[r] = uploaded[r] /\ failed'[r] = failed[r] + 1
    <2>1. uploaded'[r] + failed'[r] = (uploaded[r] + failed[r]) + 1
      BY <1>2, <1>8
    <2> QED
      BY <1>2, <1>4, <1>5, <1>8, <2>1, TallyAdvances DEF Advances
  <1>9. \/ /\ Counters(r) /\ Stays(r)
           /\ \/ pc[r] = "idle" /\ pc'[r] = "start"
              \/ pc[r] = "start" /\ pc'[r] = "replied"
              \/ pc[r] \in Loop /\ pc'[r] \in Loop
              \/ pc[r] = "respond" /\ pc'[r] = "replied"
              \/ kind[r] # "upload"
        \/ Begins(r)
        \/ /\ Advances(r) /\ kind[r] = "upload" /\ pc[r] \in Loop
           /\ \/ uploaded'[r] = uploaded[r] + 1 /\ failed'[r] = failed[r]
              \/ uploaded'[r] = uploaded[r] /\ failed'[r] = failed[r] + 1
    BY <1>1, <1>2
    DEF PointStep, Turns, CannotOpen, Stores, Refuses, Records, RecordsError, Counts, Sends,
        Loop, RequestInv, Kinds, Resting
  <1> QED
    BY <1>6, <1>7, <1>8, <1>9

LEMMA RequestRequest ==
  ASSUME ShapeInv, NEW r \in Requests, RequestInv(r), RequestStep(r)
  PROVE  RequestInv(r)'
  <1>1. PointStep(r) /\ kind' = kind
    BY RequestPoint, RequestKeeps
  <1>2. kind[r] \in Kinds
    BY DEF ShapeInv
  <1>3. /\ kind[r] = "download" => pc'[r] \in Resting \cup {"start", "serve", "respond"}
        /\ kind[r] = "mkdir" => pc'[r] \notin {"open", "count", "serve"}
        /\ kind[r] = "upload" => pc'[r] # "serve"
    BY <1>1, <1>2
    DEF RequestInv, Kinds, Resting, PointStep, Turns, Begins, CannotOpen, Stores, Refuses, Records,
        RecordsError, Counts, Sends, Advances
  <1>4. pc'[r] \in {"audit", "count"} => Item(r)' \in disk'
    <2>1. pc'[r] \in {"audit", "count"} =>
            /\ Stays(r) /\ Item(r) \in disk'
      BY <1>1
      DEF RequestInv, PointStep, Turns, Begins, CannotOpen, Stores, Refuses, Records, RecordsError,
          Counts, Sends, Advances
    <2>2. Stays(r) => Item(r)' = Item(r)
      BY DEF Stays, Item
    <2> QED
      BY <2>1, <2>2
  <1> QED
    BY <1>1, <1>3, <1>4, RequestTally DEF RequestInv

LEMMA OtherRequest ==
  ASSUME ShapeInv, NEW r \in Requests, NEW q \in Requests, q # r, RequestInv(q), RequestStep(r)
  PROVE  RequestInv(q)'
  <1>1. /\ pc'[q] = pc[q] /\ kind'[q] = kind[q] /\ want'[q] = want[q] /\ at'[q] = at[q]
        /\ uploaded'[q] = uploaded[q] /\ failed'[q] = failed[q] /\ disk \subseteq disk'
    BY RequestFrame, RequestKeeps
  <1>2. Item(q)' = Item(q)
    BY <1>1 DEF Item
  <1> QED
    BY <1>1, <1>2 DEF RequestInv

LEMMA ProcessRequest ==
  ASSUME ShapeInv, ProcessStep, NEW q \in Requests, RequestInv(q)
  PROVE  RequestInv(q)'
  <1>1. /\ UNCHANGED <<kind, want, at, uploaded, failed, disk>>
        /\ pc'[q] = pc[q] \/ pc'[q] = "killed"
    BY ProcessFrame DEF effects
  <1>2. Item(q)' = Item(q)
    BY <1>1 DEF Item
  <1> QED
    BY <1>1, <1>2 DEF RequestInv, Tallied, Resting, Loop

-----------------------------------------------------------------------------
(* The disk and the audit log.                                              *)

\* The parts of an item.
LEMMA ItemParts ==
  ASSUME NEW i \in Items
  PROVE  i[1] \in Requests /\ i[2] \in 1 .. MaxFiles /\ i = <<i[1], i[2]>>
  BY DEF Items

LEMMA InitPositions == Init => PositionInv /\ AuditIsTrue /\ AuditedInv
  <1> SUFFICES ASSUME Init PROVE PositionInv /\ AuditIsTrue /\ AuditedInv
    OBVIOUS
  <1>1. disk = {} /\ log = {} /\ errlog = {} /\ served = {} /\ \A r \in Requests : pc[r] = "idle"
    BY DEF Init
  <1> QED
    BY <1>1 DEF PositionInv, AuditIsTrue, AuditedInv, RecordedInv, StoredIsAudited, Loop

\* What a request has done before its first file is decided: nothing.
LEMMA NothingBefore ==
  ASSUME ShapeInv, PositionInv, NEW r \in Requests, at[r] = 1, pc[r] \in Before
  PROVE  \A i \in disk \cup errlog : i[1] # r
  <1>1. ASSUME NEW i \in disk \cup errlog, i[1] = r PROVE FALSE
    <2>1. i \in Items /\ i[2] < at[r]
      BY <1>1 DEF ShapeInv, PositionInv
    <2>2. i[2] \in 1 .. MaxFiles
      BY <2>1, ItemParts
    <2> QED
      BY <2>1, <2>2
  <1> QED
    BY <1>1

\* How a request's position and label move: past a file only when its fate is known.
LEMMA PositionMoves ==
  ASSUME ShapeInv, NEW r \in Requests, RequestInv(r), RequestStep(r), ~Begins(r)
  PROVE  /\ want'[r] = want[r]
         /\ at'[r] \in Nat /\ at[r] <= at'[r]
         /\ pc'[r] \in Before => pc[r] \in Before \/ at[r] < at'[r]
  <1>1. PointStep(r)
    BY RequestPoint
  <1>2. at[r] \in Nat
    BY DEF ShapeInv
  <1>3. /\ want'[r] = want[r]
        /\ \/ at'[r] = at[r] /\ (pc'[r] \in Before => pc[r] \in Before)
           \/ at'[r] = at[r] + 1
    BY <1>1
    DEF PointStep, Turns, CannotOpen, Stores, Refuses, Records, RecordsError, Counts, Sends,
        Stays, Advances, Before
  <1> QED
    BY <1>2, <1>3

LEMMA RequestPositions ==
  ASSUME ShapeInv, PositionInv, NEW r \in Requests, RequestInv(r), RequestStep(r)
  PROVE  PositionInv'
  <1>1. PointStep(r) /\ kind' = kind /\ ShapeInv'
    BY RequestPoint, RequestKeeps, RequestShape
  <1>2. Item(r) \in Items /\ Item(r)[1] = r /\ Item(r)[2] = at[r]
    BY ItemTyped
  <1>3. kind[r] \in Kinds /\ at[r] \in Nat /\ at'[r] \in Nat
    BY <1>1 DEF ShapeInv
  <1>4. /\ disk' \subseteq disk \cup {Item(r)} /\ errlog' \subseteq errlog \cup {Item(r)}
        /\ served' \subseteq served \cup {Item(r)}
    BY RequestGrows
  <1>5. /\ disk' # disk => pc'[r] = "audit" /\ Stays(r)
        /\ served' # served => kind[r] = "download"
        /\ errlog' # errlog => pc'[r] \notin Before \/ at'[r] = at[r] + 1
        /\ errlog' # errlog => ~Begins(r)
    BY <1>1, <1>3
    DEF PointStep, Turns, Begins, CannotOpen, Stores, Refuses, Records, RecordsError, Counts, Sends,
        Stays, Advances, Before, effects, RequestInv, Kinds
  <1>6. ASSUME NEW i \in disk' \cup errlog'
        PROVE  i[2] <= at'[i[1]] /\ (pc'[i[1]] \in Before => i[2] < at'[i[1]])
    <2>1. CASE i \in disk \cup errlog /\ i[1] # r
      <3>1. i[1] \in Requests
        BY <2>1, ItemParts DEF ShapeInv
      <3>2. pc'[i[1]] = pc[i[1]] /\ at'[i[1]] = at[i[1]]
        BY <2>1, <3>1, RequestFrame
      <3> QED
        BY <2>1, <3>2 DEF PositionInv
    <2>2. CASE i \in disk \cup errlog /\ i[1] = r
      <3>1. ~Begins(r)
        BY <2>2, NothingBefore DEF Begins, Before, RequestInv, Tallied
      <3>2. i[2] <= at[r] /\ (pc[r] \in Before => i[2] < at[r])
        BY <2>2 DEF PositionInv
      <3>3. i[2] \in Nat
        BY <2>2, ItemParts DEF ShapeInv
      <3> QED
        BY <1>3, <2>2, <3>1, <3>2, <3>3, PositionMoves
    <2>3. CASE i = Item(r) /\ i \in disk' \ disk
      <3>1. pc'[r] = "audit" /\ at'[r] = at[r]
        BY <1>5, <2>3 DEF Stays
      <3>2. pc'[r] \notin Before
        BY <3>1 DEF Before
      <3> QED
        BY <1>2, <1>3, <2>3, <3>1, <3>2
    <2>4. CASE i = Item(r) /\ i \in errlog' \ errlog
      <3>1. at[r] <= at'[r] /\ (pc'[r] \in Before => at'[r] = at[r] + 1)
        BY <1>5, <2>4, PositionMoves
      <3> QED
        BY <1>2, <1>3, <2>4, <3>1
    <2> QED
      BY <1>4, <2>1, <2>2, <2>3, <2>4
  <1>7. ASSUME NEW i \in served' PROVE kind'[i[1]] = "download"
    BY <1>1, <1>2, <1>4, <1>5 DEF PositionInv
  <1> QED
    BY <1>6, <1>7 DEF PositionInv

LEMMA ProcessPositions ==
  ASSUME ShapeInv, PositionInv, ProcessStep
  PROVE  PositionInv'
  <1>1. /\ UNCHANGED <<kind, want, at, effects>>
        /\ \A q \in Requests : pc'[q] = pc[q] \/ pc'[q] = "killed"
    BY ProcessFrame
  <1>2. \A i \in disk \cup errlog : i[1] \in Requests
    BY ItemParts DEF ShapeInv
  <1>3. \A q \in Requests : pc'[q] \in Before => pc[q] \in Before
    BY <1>1 DEF Before
  <1> QED
    BY <1>1, <1>2, <1>3 DEF PositionInv, effects

LEMMA RequestAuditTrue ==
  ASSUME ShapeInv, PositionInv, AuditIsTrue, NEW r \in Requests, RequestInv(r), RequestStep(r)
  PROVE  AuditIsTrue'
  <1>1. PointStep(r) /\ kind' = kind /\ disk \subseteq disk' /\ at[r] \in Nat
    BY RequestPoint, RequestKeeps DEF ShapeInv
  <1>2. /\ disk' \subseteq disk \cup {Item(r)} /\ log' \subseteq log \cup {Item(r)}
        /\ errlog' \subseteq errlog \cup {Item(r)}
    BY RequestGrows
  <1>3. Item(r)[1] = r /\ Item(r)[2] = at[r]
    BY DEF Item
  <1>4. /\ log' = log \/ kind[r] = "download" \/ pc[r] = "audit"
        /\ errlog' = errlog \/ (pc[r] = "audit error" /\ disk' = disk)
        /\ disk' = disk \/ pc[r] = "write"
    BY <1>1
    DEF PointStep, Turns, Begins, CannotOpen, Stores, Refuses, Records, RecordsError, Counts, Sends,
        effects
  <1>5. ASSUME NEW i \in log', kind[i[1]] # "download" PROVE i \in disk'
    <2>1. CASE i \in log
      BY <1>1, <1>5, <2>1 DEF AuditIsTrue
    <2>2. CASE i = Item(r) /\ i \notin log
      <3>1. pc[r] = "audit"
        BY <1>3, <1>4, <1>5, <2>2
      <3> QED
        BY <1>1, <2>2, <3>1 DEF RequestInv
    <2> QED
      BY <1>2, <2>1, <2>2
  <1>6. ASSUME NEW f \in errlog', f \in disk' PROVE FALSE
    <2>1. CASE f \in errlog /\ f \in disk
      BY <2>1 DEF AuditIsTrue
    <2>2. CASE f \in errlog /\ f = Item(r) /\ f \notin disk
      <3>1. pc[r] = "write"
        BY <1>4, <1>6, <2>2
      <3>2. f[2] < at[r]
        BY <1>3, <2>2, <3>1 DEF PositionInv, Before
      <3> QED
        BY <1>1, <1>3, <2>2, <3>2
    <2>3. CASE f = Item(r) /\ f \notin errlog
      <3>1. pc[r] = "audit error" /\ f \in disk
        BY <1>4, <1>6, <2>3
      <3>2. f[2] < at[r]
        BY <1>3, <2>3, <3>1 DEF PositionInv, Before
      <3> QED
        BY <1>1, <1>3, <2>3, <3>2
    <2> QED
      BY <1>2, <1>6, <2>1, <2>2, <2>3
  <1> QED
    BY <1>1, <1>5, <1>6 DEF AuditIsTrue

LEMMA ProcessAuditTrue ==
  ASSUME ShapeInv, AuditIsTrue, ProcessStep
  PROVE  AuditIsTrue'
  <1>1. UNCHANGED <<kind, disk, log, errlog>>
    BY ProcessFrame DEF effects
  <1> QED
    BY <1>1 DEF AuditIsTrue

\* What is on record stays so.
LEMMA RecordedGrows ==
  ASSUME ShapeInv, NEW r \in Requests, RequestStep(r), NEW q, NEW n, Recorded(q, n)
  PROVE  Recorded(q, n)'
  BY RequestKeeps DEF Recorded

\* A round of the loop ends with its file on record, while the log is open.
LEMMA RoundRecords ==
  ASSUME ShapeInv, NEW r \in Requests, RequestInv(r), RequestStep(r), auditing,
         CannotOpen(r) \/ RecordsError(r) \/ Counts(r),
         NEW n, n = at[r]
  PROVE  Recorded(r, n)'
  BY DEF CannotOpen, RecordsError, LogError, Counts, RequestInv, Item, Recorded

LEMMA RequestRecorded ==
  ASSUME ShapeInv, NEW r \in Requests, RequestInv(r), RequestStep(r), RecordedInv(r),
         Active(r) => auditing
  PROVE  RecordedInv(r)'
  <1>1. PointStep(r) /\ kind' = kind
    BY RequestPoint, RequestKeeps
  <1>2. at[r] \in Nat \ {0} /\ want[r] \in Nat /\ kind[r] \in Kinds
    BY DEF ShapeInv
  <1>3. SUFFICES ASSUME kind[r] = "upload"
                 PROVE  /\ pc'[r] \in Loop => \A n \in 1 .. at'[r] - 1 : Recorded(r, n)'
                        /\ pc'[r] \in {"respond", "replied"} /\ uploaded'[r] + failed'[r] # 0 =>
                             \A n \in 1 .. want'[r] : Recorded(r, n)'
    BY <1>1 DEF RecordedInv
  <1>4. CASE CannotOpen(r) \/ RecordsError(r) \/ Counts(r)
    <2>1. pc[r] \in Loop /\ Active(r) /\ Advances(r)
      BY <1>3, <1>4 DEF CannotOpen, RecordsError, Counts, Loop, Active, Resting
    <2>2. \A n \in 1 .. at[r] - 1 : Recorded(r, n)'
      BY <1>3, <2>1, RecordedGrows DEF RecordedInv
    <2>3. \A n : n = at[r] => Recorded(r, n)'
      BY <1>4, <2>1, RoundRecords
    <2>4. \A n \in 1 .. at[r] : Recorded(r, n)'
      <3>1. \A n \in 1 .. at[r] : n \in 1 .. at[r] - 1 \/ n = at[r]
        BY <1>2
      <3> QED
        BY <2>2, <2>3, <3>1
    <2>5. CASE at'[r] = at[r] + 1 /\ pc'[r] = "open"
      <3>1. 1 .. at'[r] - 1 = 1 .. at[r]
        BY <1>2, <2>5
      <3> QED
        BY <2>4, <2>5, <3>1
    <2>6. CASE at[r] = want[r] /\ pc'[r] = "respond"
      BY <2>1, <2>4, <2>6 DEF Advances, Loop
    <2> QED
      BY <2>1, <2>5, <2>6 DEF Advances
  <1>5. CASE Begins(r)
    <2>1. at'[r] = 1 /\ pc'[r] = "open"
      BY <1>5 DEF Begins, RequestInv, Tallied
    <2>2. 1 .. at'[r] - 1 = {}
      BY <2>1
    <2> QED
      BY <2>1, <2>2
  <1>6. CASE Turns(r) \/ Stores(r) \/ Refuses(r) \/ Records(r) \/ Sends(r)
    <2>1. Stays(r) /\ Counters(r)
      BY <1>6 DEF Turns, Stores, Refuses, Records, Sends
    <2>2. \/ pc[r] \in Loop /\ pc'[r] \in Loop
          \/ pc'[r] = "start"
          \/ pc[r] = "start" /\ pc'[r] = "replied"
          \/ pc[r] = "respond" /\ pc'[r] = "replied"
      BY <1>3, <1>6 DEF Turns, Stores, Refuses, Records, Sends, Loop, RequestInv
    <2>3. CASE pc[r] \in Loop /\ pc'[r] \in Loop
      BY <1>3, <2>1, <2>3, RecordedGrows DEF Stays, RecordedInv, Loop
    <2>4. CASE pc'[r] = "start"
      BY <2>4 DEF Loop
    <2>5. CASE pc[r] = "start" /\ pc'[r] = "replied"
      <3>1. uploaded[r] + failed[r] = 0
        BY <2>5 DEF RequestInv, Tallied
      <3> QED
        BY <2>1, <2>5, <3>1 DEF Counters, Loop
    <2>6. CASE pc[r] = "respond" /\ pc'[r] = "replied"
      BY <1>3, <2>1, <2>6, RecordedGrows DEF Stays, Counters, RecordedInv, Loop
    <2> QED
      BY <2>2, <2>3, <2>4, <2>5, <2>6
  <1> QED
    BY <1>1, <1>4, <1>5, <1>6 DEF PointStep

LEMMA OtherRecorded ==
  ASSUME ShapeInv, NEW r \in Requests, NEW q \in Requests, q # r, RequestStep(r), RecordedInv(q)
  PROVE  RecordedInv(q)'
  <1>1. /\ pc'[q] = pc[q] /\ kind'[q] = kind[q] /\ want'[q] = want[q] /\ at'[q] = at[q]
        /\ uploaded'[q] = uploaded[q] /\ failed'[q] = failed[q]
    BY RequestFrame
  <1> QED
    BY <1>1, RecordedGrows DEF RecordedInv

LEMMA RequestStored ==
  ASSUME ShapeInv, PositionInv, NEW r \in Requests, RequestInv(r), RequestStep(r), StoredIsAudited,
         pc[r] = "serve" => Item(r) \in log \cup unlogged, Active(r) => auditing
  PROVE  StoredIsAudited'
  <1>1. PointStep(r) /\ log \subseteq log' /\ unlogged \subseteq unlogged'
    BY RequestPoint, RequestKeeps
  <1>2. /\ disk' \subseteq disk \cup {Item(r)} /\ served' \subseteq served \cup {Item(r)}
    BY RequestGrows
  <1>3. Item(r)[1] = r /\ Item(r)[2] = at[r] /\ Item(r) = <<r, at[r]>>
    BY DEF Item
  <1>4. /\ disk' = disk \/ (pc'[r] = "audit" /\ at'[r] = at[r])
        /\ served' = served \/ pc[r] = "serve"
        /\ pc[r] = "audit" => LogSuccess(r)
    BY <1>1
    DEF PointStep, Turns, Begins, CannotOpen, Stores, Refuses, Records, RecordsError, Counts, Sends,
        Stays, effects
  <1>5. SUFFICES ASSUME NEW i \in disk' \cup served', i \notin log' \cup unlogged'
                 PROVE  Active(i[1])' /\ at'[i[1]] = i[2] /\ pc'[i[1]] = "audit"
    BY DEF StoredIsAudited
  <1>6. i \notin log \cup unlogged
    BY <1>1, <1>5
  <1>7. CASE i \notin disk \cup served
    <2>1. i = Item(r) /\ pc[r] # "serve"
      BY <1>2, <1>6, <1>7
    <2>2. pc'[r] = "audit" /\ at'[r] = at[r]
      BY <1>4, <1>7, <2>1
    <2> QED
      BY <1>3, <2>1, <2>2 DEF Active, Resting
  <1>8. CASE i \in disk \cup served
    <2>1. Active(i[1]) /\ at[i[1]] = i[2] /\ pc[i[1]] = "audit"
      BY <1>6, <1>8 DEF StoredIsAudited
    <2>2. i[1] \in Requests /\ i = <<i[1], i[2]>>
      BY <1>8, ItemParts DEF ShapeInv
    <2>3. CASE i[1] = r
      <3>1. i = Item(r)
        BY <1>3, <2>1, <2>2, <2>3
      <3>2. Item(r) \in log' \cup unlogged'
        BY <1>4, <2>1, <2>3 DEF LogSuccess
      <3> QED
        BY <1>5, <3>1, <3>2
    <2>4. CASE i[1] # r
      <3>1. pc'[i[1]] = pc[i[1]] /\ at'[i[1]] = at[i[1]]
        BY <2>2, <2>4, RequestFrame
      <3> QED
        BY <2>1, <3>1 DEF Active
    <2> QED
      BY <2>3, <2>4
  <1> QED
    BY <1>7, <1>8

LEMMA RequestAudited ==
  ASSUME ShapeInv, ProcessInv, PositionInv, AuditedInv, NEW r \in Requests, RequestInv(r),
         RequestStep(r)
  PROVE  AuditedInv'
  <1>1. cut' = cut /\ log \subseteq log' /\ unlogged \subseteq unlogged'
    BY RequestKeeps DEF process
  <1>2. SUFFICES ASSUME ~cut
                 PROVE  /\ StoredIsAudited'
                        /\ \A q \in Requests : pc'[q] = "serve" => Item(q)' \in log' \cup unlogged'
                        /\ \A q \in Requests : RecordedInv(q)'
    BY <1>1 DEF AuditedInv
  <1>3. Active(r) => auditing
    BY <1>2, AuditingAtWork
  <1>4. /\ StoredIsAudited
        /\ \A q \in Requests : pc[q] = "serve" => Item(q) \in log \cup unlogged
        /\ \A q \in Requests : RecordedInv(q)
    BY <1>2 DEF AuditedInv
  <1>5. StoredIsAudited'
    BY <1>3, <1>4, RequestStored
  <1>6. ASSUME NEW q \in Requests, pc'[q] = "serve" PROVE Item(q)' \in log' \cup unlogged'
    <2>1. CASE q = r
      <3>1. PointStep(r)
        BY RequestPoint
      <3>2. pc[r] = "start" /\ Stays(r) /\ LogSuccess(r)
        BY <1>6, <2>1, <3>1
        DEF PointStep, Turns, Begins, CannotOpen, Stores, Refuses, Records, RecordsError, Counts,
            Sends, Advances
      <3>3. auditing
        BY <1>3, <3>2 DEF Active, Resting
      <3>4. Item(r)' = Item(r)
        BY <3>2 DEF Stays, Item
      <3> QED
        BY <2>1, <3>2, <3>3, <3>4 DEF LogSuccess
    <2>2. CASE q # r
      <3>1. pc'[q] = pc[q] /\ want'[q] = want[q] /\ at'[q] = at[q]
        BY <2>2, RequestFrame
      <3>2. Item(q)' = Item(q)
        BY <3>1 DEF Item
      <3> QED
        BY <1>1, <1>4, <1>6, <3>1, <3>2
    <2> QED
      BY <2>1, <2>2
  <1>7. \A q \in Requests : RecordedInv(q)'
    BY <1>3, <1>4, RequestRecorded, OtherRecorded
  <1> QED
    BY <1>5, <1>6, <1>7

LEMMA ProcessAudited ==
  ASSUME ShapeInv, ProcessInv, AuditedInv, ProcessStep
  PROVE  AuditedInv'
  <1>1. SUFFICES ASSUME ~cut'
                 PROVE  /\ StoredIsAudited'
                        /\ \A q \in Requests : pc'[q] = "serve" => Item(q)' \in log' \cup unlogged'
                        /\ \A q \in Requests : RecordedInv(q)'
    BY DEF AuditedInv
  <1>2. ~cut /\ UNCHANGED <<request, effects>>
    BY <1>1, UncutStep
  <1> QED
    BY <1>2
    DEF AuditedInv, StoredIsAudited, RecordedInv, Recorded, Active, Item, request,
        effects

-----------------------------------------------------------------------------
(* The counters.                                                            *)

LEMMA InitCounts ==
  Init => IsFiniteSet(disk) /\ (\A r \in Requests : StoredInv(r)) /\ TotalInv
  <1> SUFFICES ASSUME Init
               PROVE  IsFiniteSet(disk) /\ (\A r \in Requests : StoredInv(r)) /\ TotalInv
    OBVIOUS
  <1>1. disk = {} /\ total = 0 /\ \A r \in Requests : uploaded[r] = 0 /\ pc[r] = "idle"
    BY DEF Init
  <1>2. UploadItems = {} /\ Counted = {} /\ \A r \in Requests : Stored(r) = {}
    BY <1>1 DEF UploadItems, Counted, Stored
  <1>3. Cardinality({}) = 0 /\ IsFiniteSet({})
    BY FS_EmptySet
  <1> QED
    BY <1>1, <1>2, <1>3 DEF StoredInv, TotalInv

\* Of a finite disk, the parts that are counted are finite.
LEMMA PartsFinite ==
  ASSUME IsFiniteSet(disk)
  PROVE  /\ IsFiniteSet(UploadItems) /\ IsFiniteSet(Counted)
         /\ \A r : IsFiniteSet(Stored(r))
         /\ Cardinality(UploadItems) \in Nat /\ Cardinality(Counted) \in Nat
         /\ Cardinality(Counted) <= Cardinality(UploadItems)
  <1>1. UploadItems \subseteq disk /\ Counted \subseteq UploadItems /\ \A r : Stored(r) \subseteq disk
    BY DEF UploadItems, Counted, Stored
  <1>2. IsFiniteSet(UploadItems) /\ \A r : IsFiniteSet(Stored(r))
    BY <1>1, FS_Subset
  <1>3. IsFiniteSet(Counted) /\ Cardinality(Counted) <= Cardinality(UploadItems)
    BY <1>1, <1>2, FS_Subset
  <1> QED
    BY <1>2, <1>3, FS_CardinalityType

\* The one step that adds a file adds one that was not there, of its request.
LEMMA DiskMoves ==
  ASSUME ShapeInv, PositionInv, NEW r \in Requests, RequestInv(r), RequestStep(r)
  PROVE  \/ disk' = disk /\ ~Stores(r)
         \/ Stores(r) /\ disk' = disk \cup {Item(r)} /\ \A i \in disk : i[1] = r => i[2] # at[r]
  <1>1. PointStep(r) /\ at[r] \in Nat
    BY RequestPoint DEF ShapeInv
  <1>2. CASE Stores(r)
    <2>1. disk' = disk \cup {Item(r)} /\ pc[r] = "write"
      BY <1>2 DEF Stores
    <2>2. ASSUME NEW i \in disk, i[1] = r PROVE i[2] # at[r]
      <3>1. i[2] < at[r]
        BY <2>1, <2>2 DEF PositionInv, Before
      <3> QED
        BY <1>1, <3>1
    <2> QED
      BY <1>2, <2>1, <2>2
  <1>3. CASE ~Stores(r)
    <2>1. disk' = disk
      BY <1>1, <1>3
      DEF PointStep, Turns, Begins, CannotOpen, Refuses, Records, RecordsError, Counts, Sends, effects
    <2> QED
      BY <1>3, <2>1
  <1> QED
    BY <1>2, <1>3

LEMMA RequestFinite ==
  ASSUME ShapeInv, PositionInv, NEW r \in Requests, RequestInv(r), RequestStep(r), IsFiniteSet(disk)
  PROVE  IsFiniteSet(disk')
  BY DiskMoves, FS_AddElement

LEMMA RequestStoredCount ==
  ASSUME ShapeInv, PositionInv, NEW r \in Requests, RequestInv(r), RequestStep(r), IsFiniteSet(disk),
         StoredInv(r)
  PROVE  StoredInv(r)'
  <1>1. PointStep(r) /\ kind' = kind /\ uploaded[r] \in Nat
    BY RequestPoint, RequestKeeps DEF ShapeInv
  <1>2. CASE Stores(r)
    <2>1. disk' = disk \cup {Item(r)} /\ \A i \in disk : i[1] = r => i[2] # at[r]
      BY <1>2, DiskMoves
    <2>2. Item(r)[1] = r /\ Item(r)[2] = at[r]
      BY DEF Item
    <2>3. Stored(r)' = Stored(r) \cup {Item(r)} /\ Item(r) \notin Stored(r)
      BY <2>1, <2>2 DEF Stored
    <2>4. Cardinality(Stored(r)') = Cardinality(Stored(r)) + 1
      BY <2>3, PartsFinite, FS_AddElement
    <2>5. pc[r] = "write" /\ pc'[r] = "audit" /\ uploaded'[r] = uploaded[r]
      BY <1>2 DEF Stores, Counters
    <2> QED
      BY <1>1, <2>4, <2>5 DEF StoredInv
  <1>3. CASE ~Stores(r)
    <2>1. disk' = disk
      BY <1>3, DiskMoves
    <2>2. Stored(r)' = Stored(r)
      BY <2>1 DEF Stored
    <2>3. kind[r] = "upload" =>
            \/ pc[r] \in {"audit"} /\ pc'[r] = "count" /\ uploaded'[r] = uploaded[r]
            \/ pc[r] = "count" /\ pc'[r] \notin {"audit", "count"} /\ uploaded'[r] = uploaded[r] + 1
            \/ pc[r] \notin {"audit", "count", "killed"} /\ pc'[r] \notin {"audit", "count"}
                 /\ uploaded'[r] = uploaded[r]
      BY <1>1, <1>3
      DEF PointStep, Turns, Begins, CannotOpen, Refuses, Records, RecordsError, Counts, Sends,
          Counters, Advances
    <2> QED
      BY <1>1, <2>2, <2>3 DEF StoredInv
  <1> QED
    BY <1>2, <1>3

LEMMA OtherStoredCount ==
  ASSUME ShapeInv, PositionInv, NEW r \in Requests, NEW q \in Requests, q # r, RequestInv(r),
         RequestStep(r), StoredInv(q)
  PROVE  StoredInv(q)'
  <1>1. pc'[q] = pc[q] /\ kind'[q] = kind[q] /\ uploaded'[q] = uploaded[q]
    BY RequestFrame
  <1>2. Item(r)[1] = r
    BY DEF Item
  <1>3. Stored(q)' = Stored(q)
    BY <1>2, DiskMoves DEF Stored
  <1> QED
    BY <1>1, <1>3 DEF StoredInv

\* The metric: one more when a file is counted, and then one more is counted.
LEMMA RequestTotal ==
  ASSUME ShapeInv, PositionInv, NEW r \in Requests, RequestInv(r), RequestStep(r), IsFiniteSet(disk),
         TotalInv, Running
  PROVE  TotalInv'
  <1>1. /\ PointStep(r) /\ kind' = kind /\ main' = main /\ at[r] \in Nat /\ total \in Nat
        /\ \A i \in disk : i[1] \in Requests
        /\ Item(r)[1] = r /\ Item(r)[2] = at[r]
    BY RequestPoint, RequestKeeps, ItemParts DEF ShapeInv, process, Item
  <1>2. total = Cardinality(Counted)
    BY DEF TotalInv
  <1>3. \A i \in disk : i[1] # r => at'[i[1]] = at[i[1]] /\ pc'[i[1]] = pc[i[1]]
    BY <1>1, RequestFrame
  <1>4. IsFiniteSet(disk') /\ Running'
    BY <1>1, RequestFinite DEF Running
  <1>5. Cardinality(Counted') <= Cardinality(UploadItems')
    <2>1. UploadItems' \subseteq disk' /\ Counted' \subseteq UploadItems'
      BY DEF UploadItems, Counted
    <2>2. IsFiniteSet(UploadItems')
      BY <1>4, <2>1, FS_Subset
    <2> QED
      BY <2>1, <2>2, FS_Subset
  <1>6. CASE Stores(r)
    <2>1. /\ pc[r] = "write" /\ pc'[r] = "audit" /\ at'[r] = at[r] /\ total' = total
          /\ disk' = disk \cup {Item(r)} /\ \A i \in disk : i[1] = r => i[2] # at[r]
      BY <1>6, DiskMoves DEF Stores, Stays
    <2>2. Counted' = Counted
      BY <1>1, <1>3, <2>1 DEF Counted, UploadItems
    <2> QED
      BY <1>2, <1>5, <2>1, <2>2 DEF TotalInv
  <1>7. CASE Counts(r)
    <2>1. /\ pc[r] = "count" /\ pc'[r] \notin {"audit", "count"} /\ total' = total + 1 /\ disk' = disk
          /\ kind[r] = "upload"
      BY <1>1, <1>7 DEF Counts, Advances, RequestInv, Resting, ShapeInv, Kinds
    <2>2. Item(r) \in disk
      BY <2>1 DEF RequestInv
    <2>3. Item(r) \notin Counted
      BY <1>1, <2>1 DEF Counted
    <2>4. \A i \in disk : i[1] = r /\ i[2] = at[r] => i = Item(r)
      BY ItemParts DEF ShapeInv, Item
    <2>5. Counted' = Counted \cup {Item(r)}
      BY <1>1, <1>3, <2>1, <2>2, <2>4 DEF Counted, UploadItems
    <2>6. Cardinality(Counted') = Cardinality(Counted) + 1
      BY <2>3, <2>5, PartsFinite, FS_AddElement
    <2> QED
      BY <1>2, <1>5, <2>1, <2>6 DEF TotalInv
  <1>8. CASE ~Stores(r) /\ ~Counts(r)
    <2>1. /\ disk' = disk /\ total' = total
          /\ kind[r] = "upload" =>
               \/ pc[r] = "audit" /\ pc'[r] = "count" /\ at'[r] = at[r]
               \/ pc[r] \notin {"audit", "count"} /\ pc'[r] \notin {"audit", "count"}
      BY <1>1, <1>8
      DEF PointStep, Turns, Begins, CannotOpen, Refuses, Records, RecordsError, Sends, Stays,
          Advances, effects
    <2>2. Counted' = Counted
      BY <1>1, <1>3, <2>1 DEF Counted, UploadItems
    <2> QED
      BY <1>2, <1>5, <2>1, <2>2 DEF TotalInv
  <1> QED
    BY <1>6, <1>7, <1>8

LEMMA ProcessCounts ==
  ASSUME ShapeInv, ProcessInv, ProcessStep, IsFiniteSet(disk), \A r \in Requests : StoredInv(r),
         TotalInv
  PROVE  IsFiniteSet(disk') /\ (\A r \in Requests : StoredInv(r)') /\ TotalInv'
  <1>1. UNCHANGED <<kind, at, uploaded, disk, total>>
    BY ProcessFrame DEF effects
  <1>2. \A r \in Requests : \/ pc'[r] = pc[r]
                            \/ Active(r) /\ pc'[r] = "killed" /\ main' = "exited"
    BY ProcessFrame
  <1>3. ASSUME NEW r \in Requests PROVE StoredInv(r)'
    <2>1. Stored(r)' = Stored(r)
      BY <1>1 DEF Stored
    <2> QED
      BY <1>1, <1>2, <2>1 DEF StoredInv
  <1>4. TotalInv'
    <2>1. UploadItems' = UploadItems
      BY <1>1 DEF UploadItems
    <2>2. ASSUME Running' PROVE Running /\ Counted' = Counted
      <3>1. Running /\ \A r \in Requests : pc'[r] = pc[r]
        BY <1>2, <2>2, MainMoves DEF Running
      <3>2. \A i \in UploadItems : i[1] \in Requests
        BY ItemParts DEF UploadItems, ShapeInv
      <3> QED
        BY <1>1, <2>1, <3>1, <3>2 DEF Counted
    <2> QED
      BY <1>1, <2>1, <2>2 DEF TotalInv
  <1> QED
    BY <1>1, <1>3, <1>4

-----------------------------------------------------------------------------
(* The theorems.                                                            *)

LEMMA InitServer == Init => ServerInv
  BY InitShape, InitProcess, InitRequests, InitPositions, InitCounts DEF ServerInv

LEMMA NextServer == ServerInv /\ [Next]_vars => ServerInv'
  <1> SUFFICES ASSUME ServerInv, [Next]_vars PROVE ServerInv'
    OBVIOUS
  <1> USE DEF ServerInv
  <1>1. ASSUME NEW r \in Requests, Running, RequestStep(r) PROVE ServerInv'
    <2>1. ShapeInv' /\ ProcessInv' /\ PositionInv' /\ AuditIsTrue' /\ AuditedInv'
      BY <1>1, RequestShape, RequestProcess, RequestPositions, RequestAuditTrue, RequestAudited
    <2>2. \A q \in Requests : RequestInv(q)'
      BY <1>1, RequestRequest, OtherRequest
    <2>3. IsFiniteSet(disk') /\ TotalInv'
      BY <1>1, RequestFinite, RequestTotal
    <2>4. \A q \in Requests : StoredInv(q)'
      BY <1>1, RequestStoredCount, OtherStoredCount
    <2> QED
      BY <2>1, <2>2, <2>3, <2>4
  <1>2. ASSUME ProcessStep PROVE ServerInv'
    <2>1. ShapeInv' /\ ProcessInv' /\ PositionInv' /\ AuditIsTrue' /\ AuditedInv'
      BY <1>2, ProcessShape, ProcessProcess, ProcessPositions, ProcessAuditTrue, ProcessAudited
    <2>2. \A q \in Requests : RequestInv(q)'
      BY <1>2, ProcessRequest
    <2> QED
      BY <1>2, <2>1, <2>2, ProcessCounts
  <1>3. ASSUME UNCHANGED vars PROVE ServerInv'
    <2> USE <1>3 DEF vars, process, request, effects
    <2>1. ShapeInv' /\ ProcessInv'
      BY DEF ShapeInv, ProcessInv, Active
    <2>2. \A r \in Requests : Item(r)' = Item(r) /\ Stored(r)' = Stored(r)
      BY DEF Item, Stored
    <2>3. \A r \in Requests : RequestInv(r)' /\ StoredInv(r)'
      BY <2>2 DEF RequestInv, StoredInv
    <2>4. PositionInv' /\ AuditIsTrue'
      BY DEF PositionInv, AuditIsTrue
    <2>5. AuditedInv'
      BY <2>2 DEF AuditedInv, StoredIsAudited, RecordedInv, Recorded, Active
    <2>6. TotalInv' /\ IsFiniteSet(disk')
      BY DEF TotalInv, UploadItems, Counted, Running
    <2> QED
      BY <2>1, <2>3, <2>4, <2>5, <2>6
  <1> QED
    BY <1>1, <1>2, <1>3, StepCases

LEMMA ServerInvariant == Spec => []ServerInv
  BY InitServer, NextServer, PTL DEF Spec

\* As long as the process waits for the requests, whatever one of them has put on
\* disk or sent is in the audit log, or its entry could not be written, or its
\* handler is about to write it: the log is open while any request is at work,
\* because Shutdown drains the requests before it closes the log.
THEOREM StoredIsAuditedAlways == Spec => []StoredIsAuditedUnlessCut
  <1>1. ServerInv => StoredIsAuditedUnlessCut
    BY DEF ServerInv, AuditedInv, StoredIsAuditedUnlessCut
  <1> QED
    BY <1>1, ServerInvariant, PTL

\* The audit log never claims more than there is, however the process ends: a
\* file or folder with a success entry is on disk, one with a failure entry is not.
THEOREM AuditIsTrueAlways == Spec => []AuditIsTrue
  <1>1. ServerInv => AuditIsTrue
    BY DEF ServerInv
  <1> QED
    BY <1>1, ServerInvariant, PTL

\* The reply of an upload accounts for every file of the form, and the metric for
\* every file the server has stored when no handler is at work.
THEOREM RepliesAddUpAlways == Spec => []RepliesAddUp
  <1>1. ASSUME ServerInv PROVE RepliesAddUp
    <2> USE <1>1 DEF ServerInv
    <2>1. ASSUME NEW r \in Requests, pc[r] = "replied", kind[r] = "upload",
                 uploaded[r] + failed[r] # 0
          PROVE  /\ uploaded[r] + failed[r] = want[r]
                 /\ uploaded[r] = Cardinality(Stored(r))
                 /\ ~cut => \A n \in 1 .. want[r] :
                              <<r, n>> \in disk \cup errlog \cup unopened \cup unlogged
      <3>1. uploaded[r] + failed[r] = want[r]
        BY <2>1 DEF RequestInv, Tallied
      <3>2. uploaded[r] = Cardinality(Stored(r))
        BY <2>1 DEF StoredInv
      <3>3. ASSUME ~cut PROVE \A n \in 1 .. want[r] : Recorded(r, n)
        BY <2>1, <3>3 DEF AuditedInv, RecordedInv
      <3> QED
        BY <3>1, <3>2, <3>3 DEF Recorded
    <2>2. ASSUME \A r \in Requests : ~Active(r), Running
          PROVE  total = Cardinality({i \in disk : kind[i[1]] = "upload" /\ pc[i[1]] # "killed"})
      <3>1. \A i \in disk : i[1] \in Requests
        BY ItemParts DEF ShapeInv
      <3>2. \A r \in Requests : pc[r] \notin {"audit", "count", "killed"}
        BY <2>2 DEF ProcessInv, Active, Resting, Running
      <3>3. Counted = {i \in disk : kind[i[1]] = "upload" /\ pc[i[1]] # "killed"}
        BY <3>1, <3>2 DEF Counted, UploadItems
      <3> QED
        BY <2>2, <3>3 DEF TotalInv
    <2> QED
      BY <2>1, <2>2 DEF RepliesAddUp
  <1> QED
    BY <1>1, ServerInvariant, PTL

\* Every variable stays in its domain, the metric too: no file is counted twice.
\* The set of requests is finite, as any run's is.
THEOREM TypeCorrect ==
  ASSUME IsFiniteSet(Requests)
  PROVE  Spec => []TypeOK
  <1>1. IsFiniteSet(Items)
    <2>1. IsFiniteSet(1 .. MaxFiles)
      BY FS_Interval
    <2> QED
      BY <2>1, FS_Product DEF Items
  <1>2. ASSUME ServerInv PROVE TypeOK
    <2> USE <1>2 DEF ServerInv
    <2>1. ASSUME NEW r \in Requests
          PROVE  at[r] \in 1 .. want[r] /\ uploaded[r] \in 0 .. MaxFiles /\ failed[r] \in 0 .. MaxFiles
      <3>1. /\ want[r] \in 1 .. MaxFiles /\ at[r] \in Nat \ {0} /\ at[r] <= want[r]
            /\ uploaded[r] \in Nat /\ failed[r] \in Nat
        BY DEF ShapeInv
      <3>2. uploaded[r] + failed[r] <= want[r]
        BY DEF RequestInv, Tallied
      <3> QED
        BY <3>1, <3>2
    <2>2. uploaded \in [Requests -> 0 .. MaxFiles] /\ failed \in [Requests -> 0 .. MaxFiles]
      BY <2>1 DEF ShapeInv
    <2>3. total \in 0 .. Cardinality(Items)
      <3>1. UploadItems \subseteq Items
        BY DEF UploadItems, ShapeInv
      <3>2. Cardinality(UploadItems) <= Cardinality(Items) /\ Cardinality(Items) \in Nat
        BY <1>1, <3>1, FS_Subset, FS_CardinalityType
      <3>3. Cardinality(UploadItems) \in Nat
        BY PartsFinite
      <3>4. total \in Nat /\ total <= Cardinality(UploadItems)
        BY DEF ShapeInv, TotalInv
      <3> QED
        BY <3>2, <3>3, <3>4
    <2> QED
      BY <2>1, <2>2, <2>3 DEF TypeOK, ShapeInv, Loop, Resting
  <1> QED
    BY <1>2, ServerInvariant, PTL
=============================================================================
