------------------------------- MODULE Server -------------------------------
(***************************************************************************)
(* The life of the process (cmd/dropper/main.go, LoadConfig, NewServer,    *)
(* Start, Shutdown) together with the handlers that change or serve files  *)
(* and record what they did (HandleUpload, HandleMkdir, HandleDownload).   *)
(* Writing one file is one step here (SafeWrite has its inside), and so is *)
(* an audit entry (AuditLog has its inside): what matters is what stands   *)
(* between them when the server is told to stop. A write to the audit file *)
(* may fail, but it is assumed to return (Close waits for one that hangs). *)
(*                                                                         *)
(* An item is <<request, position>>: a file by its place in the form of    *)
(* the upload; a new folder or a download is the request's position 1.     *)
(***************************************************************************)
EXTENDS Naturals, Sequences, FiniteSets

CONSTANTS Requests,    \* the requests that may arrive
          MaxFiles,    \* bound: files in one upload
          Readonly,    \* the readonly setting
          Overruns     \* TRUE: a handler may outlast DefaultShutdownTimeout

ASSUME BoundAssumption == MaxFiles \in Nat \ {0}
ASSUME ModeAssumption  == Readonly \in BOOLEAN /\ Overruns \in BOOLEAN

Kinds == {"upload", "mkdir", "download"}
Items == Requests \X (1 .. MaxFiles)

VARIABLES
  main,       \* where the main goroutine is
  serve,      \* the goroutine in Start: none, starting, listening, failed, closed
  auditing,   \* the audit log is open (Log is a no-op after Close)
  sweeping,   \* the session cleanup has not been told to stop
  cut,        \* history: the process did not wait for the requests
  pc, kind,   \* where each request is, and which handler has it
  want,       \* the number of files an upload request carries
  at,         \* the file it is working on
  uploaded, failed,  \* HandleUpload's counters
  disk,       \* what the requests have put under the root directory
  log,        \* the items with a success entry in the audit log
  errlog,     \* the files with a failure entry
  unopened,   \* history: the files whose part could not be opened
  unlogged,   \* history: the files whose entry could not be written
  served,     \* the downloads that have sent something
  total       \* the UploadsTotal metric

process == <<main, serve, auditing, sweeping, cut>>
request == <<pc, kind, want, at, uploaded, failed>>
effects == <<disk, log, errlog, unopened, unlogged, served, total>>
vars    == <<process, request, effects>>

Init == /\ main = "loading" /\ serve = "none" /\ auditing = FALSE /\ sweeping = FALSE /\ cut = FALSE
        /\ pc = [r \in Requests |-> "idle"] /\ kind \in [Requests -> Kinds]
        /\ want = [r \in Requests |-> 1] /\ at = [r \in Requests |-> 1]
        /\ uploaded = [r \in Requests |-> 0] /\ failed = [r \in Requests |-> 0]
        /\ disk = {} /\ log = {} /\ errlog = {} /\ unopened = {} /\ unlogged = {} /\ served = {}
        /\ total = 0

Resting   == {"idle", "replied", "killed"}
Active(r) == pc[r] \notin Resting
Item(r)   == <<r, at[r]>>

Goto(r, l) == pc' = [pc EXCEPT ![r] = l]
Inc(f, r)  == [f EXCEPT ![r] = @ + 1]

\* AuditLogger.Log, a no-op once the log is closed; when the entry cannot be
\* written the process's own log says so, and the handler does not hear of it.
LogSuccess(r) ==
  \/ auditing  /\ log' = log \cup {Item(r)} /\ UNCHANGED unlogged
  \/ auditing  /\ unlogged' = unlogged \cup {Item(r)} /\ UNCHANGED log
  \/ ~auditing /\ UNCHANGED <<log, unlogged>>

LogError(r) ==
  \/ auditing  /\ errlog' = errlog \cup {Item(r)} /\ UNCHANGED unlogged
  \/ auditing  /\ unlogged' = unlogged \cup {Item(r)} /\ UNCHANGED errlog
  \/ ~auditing /\ UNCHANGED <<errlog, unlogged>>

-----------------------------------------------------------------------------
(* Handlers.                                                                *)

\* The handlers' early returns: read-only mode, an unparsable or oversize form,
\* no file, a missing parameter, a path that is refused or not a file.
Reject(r) ==
  /\ pc[r] = "start" /\ Goto(r, "replied")
  /\ UNCHANGED <<process, kind, want, at, uploaded, failed, effects>>

UploadStarts(r) ==
  /\ pc[r] = "start" /\ kind[r] = "upload" /\ ~Readonly
  /\ \E n \in 1 .. MaxFiles : want' = [want EXCEPT ![r] = n]
  /\ Goto(r, "open")
  /\ UNCHANGED <<process, kind, at, uploaded, failed, effects>>

\* Slip: one round too many.
NextFileLate(r) == IF at[r] <= want[r]
                   THEN Goto(r, "open") /\ at' = Inc(at, r)
                   ELSE Goto(r, "respond") /\ UNCHANGED at

\* The next round of the loop over the parts, or the response.
NextFile(r) == IF at[r] < want[r]
               THEN Goto(r, "open") /\ at' = Inc(at, r)
               ELSE Goto(r, "respond") /\ UNCHANGED at

OpenPart(r) ==
  /\ pc[r] = "open" /\ Goto(r, "write")
  /\ UNCHANGED <<process, kind, want, at, uploaded, failed, effects>>

\* Slip: the file is skipped without being counted.
OpenPartFailsUncounted(r) ==
  /\ pc[r] = "open" /\ NextFile(r)
  /\ UNCHANGED <<process, kind, want, uploaded, failed, effects>>

\* fh.Open fails: the file is counted as failed and the loop goes on.
OpenPartFails(r) ==
  /\ pc[r] = "open"
  /\ failed' = Inc(failed, r) /\ NextFile(r)
  /\ unopened' = unopened \cup {Item(r)}
  /\ UNCHANGED <<process, kind, want, uploaded, disk, log, errlog, unlogged, served, total>>

\* Slip: a write that fails leaves the file behind.
WriteLeavesFile(r) ==
  /\ pc[r] = "write"
  /\ disk' = disk \cup {Item(r)}
  /\ Goto(r, "audit") \/ Goto(r, "audit error")
  /\ UNCHANGED <<process, kind, want, at, uploaded, failed, log, errlog, unopened, unlogged, served, total>>

\* SafeWriteFile, SafeWriteFileWithRelPath or CreateDirectory.
Write(r) ==
  /\ pc[r] = "write"
  /\ \/ disk' = disk \cup {Item(r)} /\ Goto(r, "audit")
     \/ Goto(r, "audit error") /\ UNCHANGED disk
  /\ UNCHANGED <<process, kind, want, at, uploaded, failed, log, errlog, unopened, unlogged, served, total>>

AuditUpload(r) ==
  /\ pc[r] = "audit" /\ kind[r] = "upload"
  /\ LogSuccess(r)
  /\ Goto(r, "count")
  /\ UNCHANGED <<process, kind, want, at, uploaded, failed, disk, errlog, unopened, served, total>>

AuditUploadError(r) ==
  /\ pc[r] = "audit error" /\ kind[r] = "upload"
  /\ LogError(r)
  /\ failed' = Inc(failed, r) /\ NextFile(r)
  /\ UNCHANGED <<process, kind, want, uploaded, disk, log, unopened, served, total>>

\* The metrics, the result and the counter, at the end of a round.
Count(r) ==
  /\ pc[r] = "count"
  /\ total' = total + 1
  /\ uploaded' = Inc(uploaded, r) /\ NextFile(r)
  /\ UNCHANGED <<process, kind, want, failed, disk, log, errlog, unopened, unlogged, served>>

MkdirStarts(r) ==
  /\ pc[r] = "start" /\ kind[r] = "mkdir" /\ ~Readonly
  /\ Goto(r, "write")
  /\ UNCHANGED <<process, kind, want, at, uploaded, failed, effects>>

AuditMkdir(r) ==
  /\ pc[r] \in {"audit", "audit error"} /\ kind[r] = "mkdir"
  /\ IF pc[r] = "audit"
     THEN LogSuccess(r) /\ UNCHANGED errlog
     ELSE LogError(r) /\ UNCHANGED log
  /\ Goto(r, "respond")
  /\ UNCHANGED <<process, kind, want, at, uploaded, failed, disk, unopened, served, total>>

\* The entry of a download comes before its first byte.
DownloadStarts(r) ==
  /\ pc[r] = "start" /\ kind[r] = "download"
  /\ LogSuccess(r)
  /\ Goto(r, "serve")
  /\ UNCHANGED <<process, kind, want, at, uploaded, failed, disk, errlog, unopened, served, total>>

Serve(r) ==
  /\ pc[r] = "serve"
  /\ served' = served \cup {Item(r)}
  /\ Goto(r, "respond")
  /\ UNCHANGED <<process, kind, want, at, uploaded, failed, disk, log, errlog, unopened, unlogged, total>>

Respond(r) ==
  /\ pc[r] = "respond" /\ Goto(r, "replied")
  /\ UNCHANGED <<process, kind, want, at, uploaded, failed, effects>>

Handle(r) == \/ Reject(r) \/ UploadStarts(r) \/ OpenPart(r) \/ OpenPartFails(r) \/ Write(r)
             \/ AuditUpload(r) \/ AuditUploadError(r) \/ Count(r)
             \/ MkdirStarts(r) \/ AuditMkdir(r)
             \/ DownloadStarts(r) \/ Serve(r) \/ Respond(r)

-----------------------------------------------------------------------------
(* The process.                                                             *)

Accept(r) ==
  /\ serve = "listening" /\ pc[r] = "idle" /\ Goto(r, "start")
  /\ UNCHANGED <<process, kind, want, at, uploaded, failed, effects>>

\* run returns an error: main leaves without Shutdown.
Leave == main' = "leaving"

\* Flags, the file, the environment, and what validates them.
LoadConfig ==
  /\ main = "loading"
  /\ main' = "creating" \/ Leave
  /\ UNCHANGED <<serve, auditing, sweeping, cut, request, effects>>

\* The audit log is opened and the sweeper started before the templates and the
\* static files are looked for, and each of them may be the error.
NewServer ==
  /\ main = "creating"
  /\ \/ main' = "created" /\ auditing' = TRUE /\ sweeping' = TRUE
     \/ Leave /\ auditing' = FALSE /\ sweeping' = FALSE
     \/ Leave /\ auditing' = TRUE /\ sweeping' = TRUE
  /\ UNCHANGED <<serve, cut, request, effects>>

GoStart ==
  /\ main = "created" /\ main' = "started"
  /\ serve' = "starting"
  /\ UNCHANGED <<auditing, sweeping, cut, request, effects>>

\* signal.Notify, then the select.
Notify ==
  /\ main = "started" /\ main' = "serving"
  /\ UNCHANGED <<serve, auditing, sweeping, cut, request, effects>>

\* ListenAndServe: the port is taken or free; a listener may also break later.
Listen ==
  /\ serve = "starting" /\ serve' \in {"listening", "failed"}
  /\ UNCHANGED <<main, auditing, sweeping, cut, request, effects>>

ListenerFails ==
  /\ serve = "listening" /\ serve' = "failed"
  /\ UNCHANGED <<main, auditing, sweeping, cut, request, effects>>

\* errCh: the error ends run at once, whatever the handlers are doing.
ServeError ==
  /\ main = "serving" /\ serve = "failed" /\ Leave
  /\ cut' = \E r \in Requests : Active(r)
  /\ UNCHANGED <<serve, auditing, sweeping, request, effects>>

Killed == pc' = [r \in Requests |-> IF Active(r) THEN "killed" ELSE pc[r]]

\* SIGINT or SIGTERM before signal.Notify: the runtime's default, the process
\* dies, though the other goroutine may be serving requests already.
SignalEarly ==
  /\ main \in {"loading", "creating", "created", "started"} /\ main' = "exited"
  /\ cut' = \E r \in Requests : Active(r)
  /\ Killed
  /\ UNCHANGED <<serve, auditing, sweeping, kind, want, at, uploaded, failed, effects>>

\* SIGINT or SIGTERM arrives; Shutdown begins.
Signal ==
  /\ main = "serving" /\ main' = "stopping"
  /\ UNCHANGED <<serve, auditing, sweeping, cut, request, effects>>

\* Slip: the audit log is closed before the requests are drained.
StopSweepingAndAudit ==
  /\ main = "stopping" /\ main' = "draining"
  /\ sweeping' = FALSE /\ auditing' = FALSE
  /\ UNCHANGED <<serve, cut, request, effects>>

StopSweeping ==
  /\ main = "stopping" /\ main' = "draining"
  /\ sweeping' = FALSE
  /\ UNCHANGED <<serve, auditing, cut, request, effects>>

\* http.Server.Shutdown closes the listener, or lets ListenAndServe return as
\* soon as it begins, ...
CloseListener ==
  /\ main = "draining" /\ serve # "closed"
  /\ serve' = "closed"
  /\ UNCHANGED <<main, auditing, sweeping, cut, request, effects>>

\* Slip: a context without a deadline.
NoDeadline == FALSE /\ UNCHANGED vars

\* ... then returns when no request is active, or when the context is done.
Drained ==
  /\ main = "draining" /\ serve = "closed" /\ \A r \in Requests : ~Active(r)
  /\ main' = "closing"
  /\ UNCHANGED <<serve, auditing, sweeping, cut, request, effects>>

DeadlinePasses ==
  /\ Overruns
  /\ main = "draining" /\ serve = "closed" /\ \E r \in Requests : Active(r)
  /\ main' = "closing" /\ cut' = TRUE
  /\ UNCHANGED <<serve, auditing, sweeping, request, effects>>

CloseAudit ==
  /\ main = "closing" /\ Leave
  /\ auditing' = FALSE
  /\ UNCHANGED <<serve, sweeping, cut, request, effects>>

\* main returns: the goroutines still at work are gone.
Exit ==
  /\ main = "leaving" /\ main' = "exited"
  /\ Killed
  /\ UNCHANGED <<serve, auditing, sweeping, cut, kind, want, at, uploaded, failed, effects>>

Shutdown == StopSweeping \/ CloseListener \/ Drained \/ DeadlinePasses \/ CloseAudit
Run      == LoadConfig \/ NewServer \/ GoStart \/ Notify \/ ServeError \/ Shutdown \/ Exit

Running  == main # "exited"
Next == \/ Running /\ \E r \in Requests : Accept(r) \/ Handle(r)
        \/ Running /\ (Listen \/ ListenerFails)
        \/ Signal \/ SignalEarly \/ Run

Spec == Init /\ [][Next]_vars

\* The main goroutine, the one in Start and the deadline's timer go on; a handler
\* does too, unless it may overrun: then nothing is assumed of it (a stalled
\* client, a slow disk).
FairSpec == /\ Spec
            /\ WF_vars(Run) /\ WF_vars(Running /\ Listen)
            /\ ~Overruns => \A r \in Requests : WF_vars(Running /\ Handle(r))

-----------------------------------------------------------------------------
\* Every variable stays in its domain.
TypeOK == /\ main \in {"loading", "creating", "created", "started", "serving",
                       "stopping", "draining", "closing", "leaving", "exited"}
          /\ serve \in {"none", "starting", "listening", "failed", "closed"}
          /\ auditing \in BOOLEAN /\ sweeping \in BOOLEAN /\ cut \in BOOLEAN
          /\ pc \in [Requests -> Resting \cup {"start", "open", "write", "audit", "audit error",
                                               "count", "serve", "respond"}]
          /\ kind \in [Requests -> Kinds]
          /\ want \in [Requests -> 1 .. MaxFiles] /\ \A r \in Requests : at[r] \in 1 .. want[r]
          /\ uploaded \in [Requests -> 0 .. MaxFiles] /\ failed \in [Requests -> 0 .. MaxFiles]
          /\ disk \subseteq Items /\ log \subseteq Items /\ served \subseteq Items
          /\ errlog \subseteq Items /\ unopened \subseteq Items /\ unlogged \subseteq Items
          /\ total \in 0 .. Cardinality(Items)

\* The items a request has put on disk.
Stored(r) == {i \in disk : i[1] = r}

\* Whatever a request has put on disk or sent to its client is in the audit log:
\* an upload or folder as soon as the handler is past its audit call ("All
\* uploads are audit-logged"), a download from its first byte ("audit log before
\* serving"), and for good once the process has left; only an entry the file
\* system would not take is missing.
StoredIsAudited ==
  \A i \in disk \cup served :
    \/ i \in log \cup unlogged
    \/ Active(i[1]) /\ at[i[1]] = i[2] /\ pc[i[1]] = "audit"

\* What the code keeps of that: it holds through every end of the process that
\* waits for the requests, because the log is closed after the drain.
StoredIsAuditedUnlessCut == ~cut => StoredIsAudited

\* The log claims no more than there is: an upload or folder with a success
\* entry is on disk, and one with a failure entry is not.
AuditIsTrue == /\ \A i \in log : kind[i[1]] # "download" => i \in disk
               /\ errlog \cap disk = {}

\* The reply to an upload accounts for every file it carried: the uploaded ones
\* are those on disk, the others have a failure entry, unless it could not be
\* written or the part not opened, and the metric is the sum over the requests.
RepliesAddUp ==
  /\ \A r \in Requests : pc[r] = "replied" /\ kind[r] = "upload" /\ uploaded[r] + failed[r] # 0 =>
       /\ uploaded[r] + failed[r] = want[r]
       /\ uploaded[r] = Cardinality(Stored(r))
       /\ ~cut => \A n \in 1 .. want[r] : <<r, n>> \in disk \cup errlog \cup unopened \cup unlogged
  /\ (\A r \in Requests : ~Active(r)) /\ Running =>
       total = Cardinality({i \in disk : kind[i[1]] = "upload" /\ pc[i[1]] # "killed"})

\* A server that is told to stop leaves, even with a handler that hangs, and so
\* does one that cannot listen, before it is told to stop or after.
ShutdownEnds == (main = "stopping" \/ (serve = "failed" /\ Running)) ~> main = "exited"
=============================================================================
