------------------------------ MODULE SafeWrite ------------------------------
(***************************************************************************)
(* The write path of internal/dropper.fs.go: SafeWriteFile, atomicPlace,   *)
(* atomicPlaceRename and CreateDirectory, run concurrently by the HTTP     *)
(* handlers on one target directory.  Each system call is one step, so     *)
(* other calls, the clock and the death of the process come in between.    *)
(*                                                                         *)
(* A name is <<stamp, base>>: a base name as SanitizeFilename leaves it,   *)
(* with the second its collision prefix was taken at, or NoStamp.  Temp    *)
(* files have unique random names (os.CreateTemp) and are kept apart from  *)
(* the names above, in hasTemp.  A file's content is the number of bytes   *)
(* of its upload it holds.                                                 *)
(***************************************************************************)
EXTENDS Integers, Sequences, FiniteSets

CONSTANTS
  Uploads,      \* calls of SafeWriteFile
  Mkdirs,       \* calls of CreateDirectory
  Base,         \* sanitized names a caller can ask for
  Sizes,        \* payload lengths
  MaxBytes,     \* max_upload_bytes
  MaxInt,       \* the largest int64
  MaxRetries,   \* CollisionMaxRetries
  HardLinks,    \* TRUE: os.Link fails only with EEXIST; FALSE: the volume has no hard links
  Readonly,     \* the readonly setting
  MaxClock,     \* bound: seconds that pass
  MaxCrashes    \* bound: times the process dies

Nothing == "nothing"
Calls   == Uploads \cup Mkdirs
NoStamp == -1
Names   == (NoStamp .. MaxClock) \X Base

ASSUME CallsAssumption  == Nothing \notin Calls /\ Uploads \cap Mkdirs = {}
ASSUME BoundsAssumption == /\ MaxInt \in Nat /\ MaxBytes \in 1 .. MaxInt
                           /\ Sizes \subseteq 0 .. MaxInt
                           /\ MaxRetries \in Nat \ {0} /\ MaxClock \in Nat /\ MaxCrashes \in Nat
ASSUME RequestAssumption == Base # {} /\ Sizes # {}
ASSUME ModeAssumption   == HardLinks \in BOOLEAN /\ Readonly \in BOOLEAN

VARIABLES
  dir,       \* Names -> the call whose file or folder has the name, or Nothing
  hasTemp,   \* the uploads whose dropper-upload-* file exists
  written,   \* bytes of the upload in its file
  public,    \* the uploads whose file has FilePermissions (CreateTemp makes it 0600)
  req,       \* what each call asked for
  pc,        \* where each call is
  cands,     \* atomicPlace: the candidate names generated so far
  idx,       \* atomicPlace: index of the candidate to try
  final,     \* the name an upload's file goes to or was given
  err,       \* the error a call returns, or "none"
  clock,     \* time.Now() to the second, the resolution of CollisionTimestampFormat
  crashes,   \* times the process has died
  stuck      \* history: the uploads whose temp file an ignored os.Remove error left

local   == <<req, pc, cands, idx, final, err>>
disk    == <<dir, hasTemp, written, public>>
world   == <<clock, crashes, stuck>>
vars    == <<disk, local, world>>

\* What a caller asks for: a name, a payload length, and what the checks that
\* come before any disk write say of its extension and its target directory.
Request == [name : Base, size : Sizes, check : {"ok", "ext", "path"}]

Plain(c)      == <<NoStamp, req[c].name>>
Stamped(c, t) == <<t, req[c].name>>
Exists(n)     == dir[n] # Nothing

\* int64 arithmetic: maxBytes+1 wraps to the smallest integer.
Wrap(i) == IF i > MaxInt THEN i - 2 * (MaxInt + 1) ELSE i
\* Slip: the limit without the extra byte, so an oversize payload is cut to fit.
CopyLimitExact == MaxBytes
\* io.LimitReader(data, maxBytes+1): how much io.Copy can read at most.
CopyLimit == Wrap(MaxBytes + 1)

Settled    == {"idle", "done", "failed", "crashed"}
Running(c) == pc[c] \notin Settled

Init == /\ dir = [n \in Names |-> Nothing]
        /\ hasTemp = {} /\ public = {}
        /\ written = [w \in Uploads |-> 0]
        /\ req = [c \in Calls |-> CHOOSE r \in Request : TRUE]
        /\ pc = [c \in Calls |-> "idle"]
        /\ cands = [w \in Uploads |-> <<>>]
        /\ idx = [w \in Uploads |-> 1]
        /\ final = [w \in Uploads |-> CHOOSE n \in Names : TRUE]
        /\ err = [c \in Calls |-> "none"]
        /\ clock = 0 /\ crashes = 0 /\ stuck = {}

Goto(c, l)    == pc' = [pc EXCEPT ![c] = l]
\* Return an error; Clean first where the deferred cleanup has a temp file to remove.
Fail(c, e)    == Goto(c, "failed") /\ err' = [err EXCEPT ![c] = e]
FailClean(w, e) == Goto(w, "cleanup") /\ err' = [err EXCEPT ![w] = e]

\* os.Remove of the temp file, with its error ignored.
RemoveTemp(w) == /\ \/ hasTemp' = hasTemp \ {w} /\ UNCHANGED stuck
                    \/ stuck' = stuck \cup {w} /\ UNCHANGED hasTemp
                 /\ UNCHANGED <<clock, crashes>>

-----------------------------------------------------------------------------
(* SafeWriteFile up to atomicPlace.                                         *)

\* The first objection to an upload, before any disk write.
Objection(r) == IF Readonly THEN "readonly" ELSE IF r.check = "ok" THEN "none" ELSE r.check

SubmitUpload(w) ==
  /\ pc[w] = "idle"
  /\ \E r \in Request :
       /\ req' = [req EXCEPT ![w] = r]
       /\ IF Objection(r) = "none"
          THEN Goto(w, "create") /\ UNCHANGED err
          ELSE Fail(w, Objection(r))
  /\ UNCHANGED <<disk, cands, idx, final, world>>

CreateTemp(w) ==
  /\ pc[w] = "create"
  /\ \/ hasTemp' = hasTemp \cup {w} /\ Goto(w, "copy") /\ UNCHANGED err
     \/ Fail(w, "io") /\ UNCHANGED hasTemp
  /\ UNCHANGED <<dir, written, public, req, cands, idx, final, world>>

\* io.Copy, a byte at a time.
CopyByte(w) ==
  /\ pc[w] = "copy"
  /\ written[w] < req[w].size /\ written[w] < CopyLimit
  /\ written' = [written EXCEPT ![w] = @ + 1]
  /\ UNCHANGED <<dir, hasTemp, public, local, world>>

\* io.Copy returns; the comparison that follows tells an oversize payload.
CopyEnds(w) ==
  /\ pc[w] = "copy"
  /\ ~(written[w] < req[w].size /\ written[w] < CopyLimit)
  /\ IF written[w] > MaxBytes THEN FailClean(w, "large")
                              ELSE Goto(w, "close") /\ UNCHANGED err
  /\ UNCHANGED <<disk, req, cands, idx, final, world>>

\* Reading the payload, writing or closing the temp file, or changing its mode fails.
DiskError(w) ==
  /\ pc[w] \in {"copy", "close", "chmod"}
  /\ FailClean(w, "io")
  /\ UNCHANGED <<disk, req, cands, idx, final, world>>

CloseTemp(w) ==
  /\ pc[w] = "close"
  /\ Goto(w, "chmod")
  /\ UNCHANGED <<disk, req, cands, idx, final, err, world>>

Chmod(w) ==
  /\ pc[w] = "chmod"
  /\ public' = public \cup {w}
  /\ cands' = [cands EXCEPT ![w] = <<Plain(w)>>]
  /\ Goto(w, "stamps")
  /\ UNCHANGED <<dir, hasTemp, written, req, idx, final, err, world>>

-----------------------------------------------------------------------------
(* atomicPlace: the candidates are all made before the first is tried.      *)

Stamp(w) ==
  /\ pc[w] = "stamps"
  /\ cands' = [cands EXCEPT ![w] = Append(@, Stamped(w, clock))]
  /\ Goto(w, IF Len(cands[w]) = MaxRetries THEN "link" ELSE "stamps")
  /\ UNCHANGED <<disk, req, idx, final, err, world>>

Candidate(w) == cands[w][idx[w]]

\* Slip: the link replaces what has the name.
LinkOverwrites(w) ==
  /\ pc[w] = "link" /\ HardLinks
  /\ dir' = [dir EXCEPT ![Candidate(w)] = w]
  /\ final' = [final EXCEPT ![w] = Candidate(w)]
  /\ Goto(w, "unlink")
  /\ UNCHANGED <<hasTemp, written, public, req, cands, idx, err, world>>

LinkPlaces(w) ==
  /\ pc[w] = "link" /\ HardLinks /\ ~Exists(Candidate(w))
  /\ dir' = [dir EXCEPT ![Candidate(w)] = w]
  /\ final' = [final EXCEPT ![w] = Candidate(w)]
  /\ Goto(w, "unlink")
  /\ UNCHANGED <<hasTemp, written, public, req, cands, idx, err, world>>

\* Slips in the retry loop: one try too many, one try only, the same name again.
LinkTakenLate(w) ==
  /\ pc[w] = "link" /\ Exists(Candidate(w))
  /\ IF idx[w] > Len(cands[w])
     THEN FailClean(w, "exists") /\ UNCHANGED idx
     ELSE idx' = [idx EXCEPT ![w] = @ + 1] /\ UNCHANGED <<pc, err>>
  /\ UNCHANGED <<disk, req, cands, final, world>>

LinkTakenOnce(w) ==
  /\ pc[w] = "link" /\ Exists(Candidate(w))
  /\ FailClean(w, "exists")
  /\ UNCHANGED <<disk, req, cands, idx, final, world>>

LinkTakenAgain(w) ==
  /\ pc[w] = "link" /\ Exists(Candidate(w))
  /\ UNCHANGED vars

\* EEXIST: the next candidate, or NewFileExistsError when there is none.
LinkTaken(w) ==
  /\ pc[w] = "link" /\ Exists(Candidate(w))
  /\ IF idx[w] = Len(cands[w])
     THEN FailClean(w, "exists") /\ UNCHANGED idx
     ELSE idx' = [idx EXCEPT ![w] = @ + 1] /\ UNCHANGED <<pc, err>>
  /\ UNCHANGED <<disk, req, cands, final, world>>

\* Any other error of os.Link: fall back to atomicPlaceRename.
LinkUnsupported(w) ==
  /\ pc[w] = "link" /\ ~HardLinks /\ ~Exists(Candidate(w))
  /\ Goto(w, "stat")
  /\ UNCHANGED <<disk, req, cands, idx, final, err, world>>

\* Slips: the temp name stays; a failing os.Remove becomes the call's error.
UnlinkForgotten(w) ==
  /\ pc[w] = "unlink"
  /\ Goto(w, "answer")
  /\ UNCHANGED <<disk, req, cands, idx, final, err, world>>

UnlinkStrict(w) ==
  /\ pc[w] = "unlink"
  /\ \/ hasTemp' = hasTemp \ {w} /\ Goto(w, "answer") /\ UNCHANGED err
     \/ Fail(w, "io") /\ UNCHANGED hasTemp
  /\ UNCHANGED <<dir, written, public, req, cands, idx, final, world>>

Unlink(w) ==
  /\ pc[w] = "unlink"
  /\ RemoveTemp(w)
  /\ Goto(w, "answer")
  /\ UNCHANGED <<dir, written, public, req, cands, idx, final, err>>

-----------------------------------------------------------------------------
(* atomicPlaceRename: os.Stat of the desired name, then os.Rename, which    *)
(* replaces a file and fails on a folder.                                   *)

StatTarget(w) ==
  /\ pc[w] = "stat"
  /\ final' = [final EXCEPT ![w] = IF Exists(Plain(w)) THEN Stamped(w, clock) ELSE Plain(w)]
  /\ Goto(w, "rename")
  /\ UNCHANGED <<disk, req, cands, idx, err, world>>

Rename(w) ==
  /\ pc[w] = "rename" /\ dir[final[w]] \notin Mkdirs
  /\ dir' = [dir EXCEPT ![final[w]] = w]
  /\ hasTemp' = hasTemp \ {w}
  /\ Goto(w, "answer")
  /\ UNCHANGED <<written, public, req, cands, idx, final, err, world>>

RenameFails(w) ==
  /\ pc[w] = "rename"
  /\ FailClean(w, "io")
  /\ UNCHANGED <<disk, req, cands, idx, final, world>>

\* Slip: no deferred cleanup.
CleanupForgotten(w) ==
  /\ pc[w] = "cleanup"
  /\ Goto(w, "failed")
  /\ UNCHANGED <<disk, req, cands, idx, final, err, world>>

\* The deferred cleanup of SafeWriteFile.
Cleanup(w) ==
  /\ pc[w] = "cleanup"
  /\ RemoveTemp(w)
  /\ Goto(w, "failed")
  /\ UNCHANGED <<dir, written, public, req, cands, idx, final, err>>

-----------------------------------------------------------------------------
(* CreateDirectory.                                                         *)

SubmitMkdir(m) ==
  /\ pc[m] = "idle"
  /\ \E r \in Request :
       /\ r.check # "ext"
       /\ req' = [req EXCEPT ![m] = r]
       /\ IF Objection(r) = "none"
          THEN Goto(m, "mkdir") /\ UNCHANGED err
          ELSE Fail(m, Objection(r))
  /\ UNCHANGED <<disk, cands, idx, final, world>>

\* os.Mkdir makes the folder, finds the name taken, or fails otherwise.
Mkdir(m) ==
  /\ pc[m] = "mkdir"
  /\ \/ /\ ~Exists(Plain(m))
        /\ dir' = [dir EXCEPT ![Plain(m)] = m] /\ Goto(m, "answer") /\ UNCHANGED err
     \/ Exists(Plain(m)) /\ Fail(m, "exists") /\ UNCHANGED dir
     \/ Fail(m, "io") /\ UNCHANGED dir
  /\ UNCHANGED <<hasTemp, written, public, req, cands, idx, final, world>>

-----------------------------------------------------------------------------
Answer(c) ==
  /\ pc[c] = "answer"
  /\ Goto(c, "done")
  /\ UNCHANGED <<disk, req, cands, idx, final, err, world>>

\* The process dies and is started again: the calls in flight are gone, with
\* their temp files left behind; calls that had not arrived can still come.
Crash ==
  /\ crashes < MaxCrashes /\ \E c \in Calls : Running(c)
  /\ crashes' = crashes + 1
  /\ pc' = [c \in Calls |-> IF Running(c) THEN "crashed" ELSE pc[c]]
  /\ UNCHANGED <<disk, req, cands, idx, final, err, clock, stuck>>

Tick == clock < MaxClock /\ clock' = clock + 1 /\ UNCHANGED <<disk, local, crashes, stuck>>

UploadStep(w) ==
  \/ CreateTemp(w) \/ CopyByte(w) \/ CopyEnds(w) \/ DiskError(w) \/ CloseTemp(w) \/ Chmod(w)
  \/ Stamp(w) \/ LinkPlaces(w) \/ LinkTaken(w) \/ LinkUnsupported(w) \/ Unlink(w)
  \/ StatTarget(w) \/ Rename(w) \/ RenameFails(w) \/ Cleanup(w) \/ Answer(w)

MkdirStep(m) == Mkdir(m) \/ Answer(m)

Next == \/ \E w \in Uploads : SubmitUpload(w) \/ UploadStep(w)
        \/ \E m \in Mkdirs : SubmitMkdir(m) \/ MkdirStep(m)
        \/ Crash
        \/ Tick

Spec == Init /\ [][Next]_vars

\* A goroutine that serves a request keeps running; requests need not come.
FairSpec == /\ Spec
            /\ \A w \in Uploads : WF_vars(UploadStep(w))
            /\ \A m \in Mkdirs : WF_vars(MkdirStep(m))

-----------------------------------------------------------------------------
(* Properties.                                                              *)

Errors == {"none", "readonly", "ext", "path", "io", "large", "exists"}
Labels == Settled \cup {"create", "copy", "close", "chmod", "stamps", "link", "unlink",
                        "stat", "rename", "cleanup", "mkdir", "answer"}

\* Every variable stays in its domain.
TypeOK == /\ dir \in [Names -> Calls \cup {Nothing}]
          /\ hasTemp \subseteq Uploads /\ public \subseteq Uploads
          /\ written \in [Uploads -> 0 .. MaxBytes + 1]
          /\ req \in [Calls -> Request]
          /\ pc \in [Calls -> Labels]
          /\ cands \in [Uploads -> Seq(Names)]
          /\ idx \in [Uploads -> 1 .. MaxRetries + 1]
          /\ final \in [Uploads -> Names]
          /\ err \in [Calls -> Errors]
          /\ clock \in 0 .. MaxClock /\ crashes \in 0 .. MaxCrashes /\ stuck \subseteq Uploads

Whole(w) == written[w] = req[w].size /\ w \in public

\* An upload that was answered "stored" is in the directory under the name it
\* was told, whatever other calls, retries and crashes come in between
\* (SafeWriteFile's returned finalName; the overwrite atomicPlace avoids).
StoredStays == \A w \in Uploads : pc[w] = "done" => dir[final[w]] = w

\* A name of the directory never shows part of an upload, nor one with the
\* temp file's private mode: the file is copied, closed and chmodded before it
\* is placed (SafeWriteFile's temp file then link).
VisibleIsWhole == \A n \in Names : dir[n] \in Uploads => Whole(dir[n])

\* A finished call leaves no trace but its answer: a stored upload has one name
\* and no temp file, a refused one has neither.  Only a crash leaves a temp file
\* behind, or an os.Remove that fails, whose error both calls of it ignore (the
\* deferred cleanup, the removal after os.Link).
NothingLeftBehind ==
  \A w \in Uploads :
    /\ \A m, n \in Names : dir[m] = w /\ dir[n] = w => m = n
    /\ pc[w] \in {"done", "failed"} /\ w \in hasTemp => w \in stuck
    /\ pc[w] = "failed" => \A n \in Names : dir[n] # w

\* An error says what happened: "already exists" only when the desired name and
\* every stamped candidate are taken, "too large" only for a payload over
\* max_upload_bytes (atomicPlace's exhaustion, the one-byte-over copy limit).
ErrorsAreTrue ==
  \A w \in Uploads :
    /\ err[w] = "exists" => \A i \in 1 .. Len(cands[w]) : Exists(cands[w][i])
    /\ err[w] = "large" => req[w].size > MaxBytes
    /\ err[w] = "none" /\ pc[w] = "done" => req[w].size <= MaxBytes

\* No step replaces or removes what a name holds: nothing in dropper deletes,
\* and placing by link or mkdir never overwrites.
NoOverwrite == [][\A n \in Names : Exists(n) => dir'[n] = dir[n]]_vars

\* Every call that starts returns, unless the process dies.
CallsReturn == \A c \in Calls : Running(c) ~> ~Running(c)

Outcome == [c \in Calls |-> CASE pc[c] = "done"    -> "stored"
                              [] pc[c] = "failed"  -> "refused"
                              [] pc[c] = "crashed" -> "lost"
                              [] OTHER             -> "pending"]

DZ == INSTANCE DropZone WITH shelf <- dir, outcome <- Outcome

\* The write path implements the promise of DropZone.
ImplementsDropZone == DZ!Spec
=============================================================================
