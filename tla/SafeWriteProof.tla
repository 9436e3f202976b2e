---------------------------- MODULE SafeWriteProof ----------------------------
(* Theorems about SafeWrite, for any number of uploads, folders, names,      *)
(* retries and crashes: types, stored uploads stay, visible files are whole, *)
(* and, from an invariant that follows one call from its arrival to its      *)
(* answer, nothing is left behind, errors are true, and the write path       *)
(* implements the promise of DropZone.                                       *)
EXTENDS SafeWrite, TLAPS

USE CallsAssumption, BoundsAssumption, RequestAssumption, ModeAssumption

-----------------------------------------------------------------------------
(* Type correctness.  LinkTaken's index stays in range because the candidate *)
(* list is complete before the first candidate is tried.                     *)

CandsComplete == \A w \in Uploads :
                   /\ pc[w] = "stamps" => Len(cands[w]) \in 1 .. MaxRetries
                   /\ pc[w] = "link" => Len(cands[w]) = MaxRetries + 1

TypeInv == TypeOK /\ CandsComplete

\* A name that a call can ask for, or that a collision prefix makes of it, is a name.
LEMMA NamesOfCalls ==
  ASSUME TypeOK, NEW c \in Calls
  PROVE  /\ Plain(c) \in Names
         /\ Stamped(c, clock) \in Names
  BY DEF TypeOK, Plain, Stamped, Names, NoStamp, Request

\* The copy limit is at most one byte over max_upload_bytes, wrapped or not.
LEMMA CopyLimitBound == CopyLimit \in Int /\ CopyLimit <= MaxBytes + 1
  BY DEF CopyLimit, Wrap

LEMMA InitTyped == Init => TypeInv
  <1> SUFFICES ASSUME Init PROVE TypeInv
    OBVIOUS
  <1>1. (CHOOSE n \in Names : TRUE) \in Names
    <2>1. PICK b \in Base : TRUE
      OBVIOUS
    <2>2. <<NoStamp, b>> \in Names
      BY DEF Names, NoStamp
    <2> QED
      BY <2>2
  <1>2. (CHOOSE r \in Request : TRUE) \in Request
    <2>1. PICK b \in Base, s \in Sizes : TRUE
      OBVIOUS
    <2>2. [name |-> b, size |-> s, check |-> "ok"] \in Request
      BY DEF Request
    <2> QED
      BY <2>2
  <1>3. TypeOK
    BY <1>1, <1>2 DEF Init, TypeOK, Labels, Settled, Errors
  <1>4. CandsComplete
    BY DEF Init, CandsComplete, Calls
  <1> QED
    BY <1>3, <1>4 DEF TypeInv

LEMMA ObjectionTyped == \A r \in Request : Objection(r) \in Errors
  BY DEF Objection, Request, Errors

LEMMA SubmitTyped ==
  ASSUME TypeInv, NEW c \in Calls,
         (c \in Uploads /\ SubmitUpload(c)) \/ (c \in Mkdirs /\ SubmitMkdir(c))
  PROVE  TypeInv'
  <1> USE DEF TypeInv
  <1>1. PICK r \in Request :
          /\ req' = [req EXCEPT ![c] = r]
          /\ \/ pc' = [pc EXCEPT ![c] = "create"] /\ err' = err
             \/ pc' = [pc EXCEPT ![c] = "mkdir"] /\ err' = err
             \/ pc' = [pc EXCEPT ![c] = "failed"] /\ err' = [err EXCEPT ![c] = Objection(r)]
    BY DEF SubmitUpload, SubmitMkdir, Goto, Fail
  <1>2. UNCHANGED <<disk, cands, idx, final, world>>
    BY DEF SubmitUpload, SubmitMkdir
  <1>3. TypeOK'
    <2>1. req' \in [Calls -> Request]
      BY <1>1 DEF TypeOK
    <2>2. pc' \in [Calls -> Labels]
      BY <1>1 DEF TypeOK, Labels, Settled
    <2>3. err' \in [Calls -> Errors]
      BY <1>1, ObjectionTyped DEF TypeOK
    <2> QED
      BY <1>2, <2>1, <2>2, <2>3 DEF TypeOK, disk, world
  <1>4. CandsComplete'
    BY <1>1, <1>2 DEF TypeOK, CandsComplete, Calls
  <1> QED
    BY <1>3, <1>4

\* The steps before a name is claimed.
LEMMA WriteTyped ==
  ASSUME TypeInv, NEW w \in Uploads,
         \/ CreateTemp(w) \/ CopyByte(w) \/ CopyEnds(w) \/ DiskError(w)
         \/ CloseTemp(w) \/ Chmod(w) \/ Stamp(w)
  PROVE  TypeInv'
  <1> USE DEF TypeInv
  <1>1. w \in Calls
    BY DEF Calls
  <1>a. CASE CreateTemp(w)
    BY <1>a, <1>1 DEF TypeOK, CandsComplete, CreateTemp, Goto, Fail, Labels, Settled, Errors, world, Calls
  <1>b. CASE CopyByte(w)
    BY <1>b, <1>1, CopyLimitBound DEF TypeOK, CandsComplete, CopyByte, local, world, Request
  <1>c. CASE CopyEnds(w)
    BY <1>c, <1>1 DEF TypeOK, CandsComplete, CopyEnds, Goto, FailClean, Labels, Errors, disk, world, Calls
  <1>d. CASE DiskError(w)
    BY <1>d, <1>1 DEF TypeOK, CandsComplete, DiskError, Goto, FailClean, Labels, Errors, disk, world, Calls
  <1>e. CASE CloseTemp(w)
    BY <1>e, <1>1 DEF TypeOK, CandsComplete, CloseTemp, Goto, Labels, disk, world, Calls
  <1>f. CASE Chmod(w)
    <2>1. <<Plain(w)>> \in Seq(Names) /\ Len(<<Plain(w)>>) = 1
      BY <1>1, NamesOfCalls
    <2> QED
      BY <1>f, <1>1, <2>1 DEF TypeOK, CandsComplete, Chmod, Goto, Labels, world, Calls
  <1>g. CASE Stamp(w)
    <2>1. Append(cands[w], Stamped(w, clock)) \in Seq(Names)
      BY <1>1, NamesOfCalls DEF TypeOK
    <2>2. Len(Append(cands[w], Stamped(w, clock))) = Len(cands[w]) + 1
      BY <1>1, NamesOfCalls DEF TypeOK
    <2> QED
      BY <1>g, <1>1, <2>1, <2>2 DEF TypeOK, CandsComplete, Stamp, Goto, Labels, disk, world, Calls
  <1> QED
    BY <1>a, <1>b, <1>c, <1>d, <1>e, <1>f, <1>g

\* atomicPlace and atomicPlaceRename.
LEMMA PlaceTyped ==
  ASSUME TypeInv, NEW w \in Uploads,
         \/ LinkPlaces(w) \/ LinkTaken(w) \/ LinkUnsupported(w) \/ Unlink(w)
         \/ StatTarget(w) \/ Rename(w) \/ RenameFails(w) \/ Cleanup(w)
  PROVE  TypeInv'
  <1> USE DEF TypeInv
  <1>1. w \in Calls
    BY DEF Calls
  <1>2. pc[w] = "link" => /\ Candidate(w) \in Names
                          /\ Len(cands[w]) = MaxRetries + 1
    BY DEF TypeOK, CandsComplete, Candidate
  <1>a. CASE LinkPlaces(w)
    BY <1>a, <1>1, <1>2 DEF TypeOK, CandsComplete, LinkPlaces, Goto, Labels, world, Calls
  <1>b. CASE LinkTaken(w)
    <2>1. UNCHANGED <<disk, req, cands, final, world>> /\ pc[w] = "link"
      BY <1>b DEF LinkTaken
    <2>2. CASE idx[w] = Len(cands[w])
      <3>1. /\ idx' = idx
            /\ pc' = [pc EXCEPT ![w] = "cleanup"]
            /\ err' = [err EXCEPT ![w] = "exists"]
        BY <1>b, <2>2 DEF LinkTaken, Goto, FailClean
      <3> QED
        BY <1>1, <2>1, <3>1 DEF TypeOK, CandsComplete, Labels, Errors, disk, world
    <2>3. CASE idx[w] # Len(cands[w])
      <3>1. idx' = [idx EXCEPT ![w] = @ + 1] /\ UNCHANGED <<pc, err>>
        BY <1>b, <2>3 DEF LinkTaken
      <3> QED
        BY <1>2, <2>1, <2>3, <3>1 DEF TypeOK, CandsComplete, disk, world
    <2> QED
      BY <2>2, <2>3
  <1>c. CASE LinkUnsupported(w)
    BY <1>c, <1>1 DEF TypeOK, CandsComplete, LinkUnsupported, Goto, Labels, disk, world, Calls
  <1>d. CASE Unlink(w)
    BY <1>d, <1>1 DEF TypeOK, CandsComplete, Unlink, RemoveTemp, Goto, Labels, world, Calls
  <1>e. CASE StatTarget(w)
    BY <1>e, <1>1, NamesOfCalls
    DEF TypeOK, CandsComplete, StatTarget, Goto, Labels, disk, world, Calls
  <1>f. CASE Rename(w)
    BY <1>f, <1>1 DEF TypeOK, CandsComplete, Rename, Goto, Labels, world, Calls
  <1>g. CASE RenameFails(w)
    BY <1>g, <1>1
    DEF TypeOK, CandsComplete, RenameFails, Goto, FailClean, Labels, Errors, disk, world, Calls
  <1>h. CASE Cleanup(w)
    BY <1>h, <1>1 DEF TypeOK, CandsComplete, Cleanup, RemoveTemp, Goto, Labels, Settled, world, Calls
  <1> QED
    BY <1>a, <1>b, <1>c, <1>d, <1>e, <1>f, <1>g, <1>h

\* Folders, answers, crashes, the clock, and steps of no call.
LEMMA OtherTyped ==
  ASSUME TypeInv,
         \/ \E m \in Mkdirs : Mkdir(m)
         \/ \E c \in Calls : Answer(c)
         \/ Crash \/ Tick \/ UNCHANGED vars
  PROVE  TypeInv'
  <1> USE DEF TypeInv
  <1>a. ASSUME NEW m \in Mkdirs, Mkdir(m) PROVE TypeInv'
    <2>1. m \in Calls
      BY DEF Calls
    <2>2. UNCHANGED <<hasTemp, written, public, req, cands, idx, final, world>>
      BY <1>a DEF Mkdir
    <2>3. \/ dir' = dir /\ pc' = [pc EXCEPT ![m] = "failed"] /\ err' = [err EXCEPT ![m] = "exists"]
          \/ dir' = dir /\ pc' = [pc EXCEPT ![m] = "failed"] /\ err' = [err EXCEPT ![m] = "io"]
          \/ dir' = [dir EXCEPT ![Plain(m)] = m] /\ pc' = [pc EXCEPT ![m] = "answer"] /\ err' = err
      BY <1>a DEF Mkdir, Goto, Fail
    <2>4. dir' \in [Names -> Calls \cup {Nothing}]
      BY <2>1, <2>3, NamesOfCalls DEF TypeOK
    <2>5. pc' \in [Calls -> Labels] /\ err' \in [Calls -> Errors]
      BY <2>1, <2>3 DEF TypeOK, Labels, Settled, Errors
    <2>6. \A w \in Uploads : pc'[w] = pc[w]
      BY <2>1, <2>3 DEF TypeOK, Calls
    <2> QED
      BY <2>2, <2>4, <2>5, <2>6 DEF TypeOK, CandsComplete, world
  <1>b. ASSUME NEW c \in Calls, Answer(c) PROVE TypeInv'
    BY <1>b DEF TypeOK, CandsComplete, Answer, Goto, Labels, Settled, disk, world, Calls
  <1>c. CASE Crash
    BY <1>c DEF TypeOK, CandsComplete, Crash, Labels, Settled, disk, Calls
  <1>d. CASE Tick
    BY <1>d DEF TypeOK, CandsComplete, Tick, disk, local
  <1>e. CASE UNCHANGED vars
    BY <1>e DEF TypeOK, CandsComplete, vars, disk, local, world
  <1> QED
    BY <1>a, <1>b, <1>c, <1>d, <1>e

\* What a step can be: the case split every invariance proof below uses.
LEMMA StepCases ==
  ASSUME [Next]_vars
  PROVE  \/ \E w \in Uploads : SubmitUpload(w)
         \/ \E m \in Mkdirs : SubmitMkdir(m)
         \/ \E w \in Uploads : \/ CreateTemp(w) \/ CopyByte(w) \/ CopyEnds(w) \/ DiskError(w)
                               \/ CloseTemp(w) \/ Chmod(w) \/ Stamp(w)
         \/ \E w \in Uploads : \/ LinkPlaces(w) \/ LinkTaken(w) \/ LinkUnsupported(w)
                               \/ Unlink(w) \/ StatTarget(w) \/ Rename(w) \/ RenameFails(w)
                               \/ Cleanup(w)
         \/ \E m \in Mkdirs : Mkdir(m)
         \/ \E c \in Calls : Answer(c)
         \/ Crash \/ Tick \/ UNCHANGED vars
  BY DEF Next, UploadStep, MkdirStep, Calls

LEMMA NextTyped == TypeInv /\ [Next]_vars => TypeInv'
  <1> SUFFICES ASSUME TypeInv, [Next]_vars PROVE TypeInv'
    OBVIOUS
  <1>1. Uploads \subseteq Calls /\ Mkdirs \subseteq Calls
    BY DEF Calls
  <1> QED
    BY <1>1, StepCases, SubmitTyped, WriteTyped, PlaceTyped, OtherTyped

\* In every reachable state each variable is in its domain, and the candidate
\* list is complete, and indexed within bounds, whenever a candidate is tried.
THEOREM TypeCorrect == Spec => []TypeOK
  <1>1. TypeInv => TypeOK
    BY DEF TypeInv
  <1> QED
    BY <1>1, InitTyped, NextTyped, PTL DEF Spec

-----------------------------------------------------------------------------
(* Where hard links work, a stored upload stays.  The strengthening: a call  *)
(* that has claimed a name holds it from then on, and the rename fallback,   *)
(* the only step that replaces an entry, is never reached.                   *)

Claimed == {"unlink", "answer", "done"}

Placed == \A w \in Uploads : pc[w] \in Claimed => dir[final[w]] = w

NoFallback == \A w \in Uploads : pc[w] \notin {"stat", "rename"}

LinkInv == TypeInv /\ Placed /\ NoFallback

LEMMA InitLinked == Init => LinkInv
  BY InitTyped DEF Init, LinkInv, Placed, NoFallback, Claimed, Calls

\* A step of the system leaves every name that is taken as it is.
LEMMA StepKeepsEntries ==
  ASSUME HardLinks, LinkInv, [Next]_vars
  PROVE  \A n \in Names : Exists(n) => dir'[n] = dir[n]
  <1> USE DEF LinkInv, TypeInv
  <1>1. CASE dir' = dir
    BY <1>1
  <1>2. ASSUME NEW w \in Uploads, LinkPlaces(w)
        PROVE  \A n \in Names : Exists(n) => dir'[n] = dir[n]
    BY <1>2 DEF LinkPlaces, Exists, TypeOK
  <1>3. ASSUME NEW w \in Uploads, Rename(w)
        PROVE  FALSE
    BY <1>3 DEF Rename, NoFallback
  <1>4. ASSUME NEW m \in Mkdirs, Mkdir(m)
        PROVE  \A n \in Names : Exists(n) => dir'[n] = dir[n]
    BY <1>4 DEF Mkdir, Exists, TypeOK
  <1>5. \/ dir' = dir
        \/ \E w \in Uploads : LinkPlaces(w) \/ Rename(w)
        \/ \E m \in Mkdirs : Mkdir(m)
    BY StepCases
    DEF SubmitUpload, SubmitMkdir, CreateTemp, CopyByte, CopyEnds, DiskError, CloseTemp, Chmod,
        Stamp, LinkTaken, LinkUnsupported, Unlink, StatTarget, RenameFails, Cleanup, Answer,
        Crash, Tick, vars, disk
  <1> QED
    BY <1>1, <1>2, <1>3, <1>4, <1>5

\* How a step can move one upload: into a claim, into the fallback, out of
\* both, or not at all.
LEMMA UploadMoves ==
  ASSUME TypeInv, [Next]_vars, NEW w \in Uploads
  PROVE  \/ pc'[w] = pc[w] /\ final'[w] = final[w]
         \/ pc'[w] \notin Claimed \cup {"stat", "rename"}
         \/ LinkPlaces(w) \/ LinkUnsupported(w) \/ StatTarget(w) \/ Rename(w)
         \/ pc[w] \in Claimed /\ pc'[w] \in Claimed /\ final'[w] = final[w]
  <1> DEFINE Goal == \/ pc'[w] = pc[w] /\ final'[w] = final[w]
                     \/ pc'[w] \notin Claimed \cup {"stat", "rename"}
                     \/ LinkPlaces(w) \/ LinkUnsupported(w) \/ StatTarget(w) \/ Rename(w)
                     \/ pc[w] \in Claimed /\ pc'[w] \in Claimed /\ final'[w] = final[w]
  <1> SUFFICES Goal
    OBVIOUS
  <1> USE DEF TypeInv, TypeOK, Claimed, Goto, Fail, FailClean
  <1>1. w \in Calls /\ w \notin Mkdirs
    BY DEF Calls
  <1>a. ASSUME NEW u \in Uploads, SubmitUpload(u) PROVE Goal
    BY <1>a, <1>1 DEF SubmitUpload
  <1>b. ASSUME NEW m \in Mkdirs, SubmitMkdir(m) PROVE Goal
    BY <1>b, <1>1 DEF SubmitMkdir
  <1>c. ASSUME NEW u \in Uploads,
               \/ CreateTemp(u) \/ CopyByte(u) \/ CopyEnds(u) \/ DiskError(u)
               \/ CloseTemp(u) \/ Chmod(u) \/ Stamp(u)
        PROVE  Goal
    BY <1>c, <1>1
    DEF CreateTemp, CopyByte, CopyEnds, DiskError, CloseTemp, Chmod, Stamp, local
  <1>d. ASSUME NEW u \in Uploads, u # w,
               \/ LinkPlaces(u) \/ LinkTaken(u) \/ LinkUnsupported(u) \/ Unlink(u)
               \/ StatTarget(u) \/ Rename(u) \/ RenameFails(u) \/ Cleanup(u)
        PROVE  Goal
    BY <1>d, <1>1
    DEF LinkPlaces, LinkTaken, LinkUnsupported, Unlink, StatTarget, Rename, RenameFails, Cleanup
  <1>e. CASE LinkTaken(w) \/ Unlink(w) \/ RenameFails(w) \/ Cleanup(w)
    BY <1>e, <1>1 DEF LinkTaken, Unlink, RenameFails, Cleanup
  <1>f. ASSUME NEW m \in Mkdirs, Mkdir(m) PROVE Goal
    BY <1>f, <1>1 DEF Mkdir
  <1>g. ASSUME NEW c \in Calls, Answer(c) PROVE Goal
    BY <1>g, <1>1 DEF Answer
  <1>h. CASE Crash
    BY <1>h, <1>1 DEF Crash
  <1>i. CASE Tick \/ UNCHANGED vars
    BY <1>i DEF Tick, vars, local
  <1> QED
    BY <1>a, <1>b, <1>c, <1>d, <1>e, <1>f, <1>g, <1>h, <1>i, StepCases

LEMMA NextLinked ==
  ASSUME HardLinks, LinkInv, [Next]_vars
  PROVE  LinkInv'
  <1> USE DEF LinkInv
  <1>1. TypeInv'
    BY NextTyped
  <1>2. \A w \in Uploads : w \in Calls /\ w # Nothing
    BY DEF Calls
  <1>3. \A n \in Names : Exists(n) => dir'[n] = dir[n]
    BY StepKeepsEntries
  <1>4. NoFallback'
    <2> SUFFICES ASSUME NEW w \in Uploads PROVE pc'[w] \notin {"stat", "rename"}
      BY DEF NoFallback
    <2>1. pc[w] \notin {"stat", "rename"} /\ w \in Calls
      BY <1>2 DEF NoFallback
    <2>2. ~LinkUnsupported(w) /\ ~StatTarget(w) /\ ~Rename(w)
      BY <2>1 DEF LinkUnsupported, StatTarget, Rename
    <2>3. LinkPlaces(w) => pc'[w] = "unlink"
      BY <2>1 DEF LinkPlaces, Goto, TypeInv, TypeOK
    <2> QED
      BY <2>1, <2>2, <2>3, UploadMoves DEF Claimed
  <1>5. Placed'
    <2> SUFFICES ASSUME NEW w \in Uploads, pc'[w] \in Claimed
                 PROVE  dir'[final'[w]] = w
      BY DEF Placed
    <2>1. CASE pc[w] \in Claimed /\ final'[w] = final[w]
      BY <1>2, <1>3, <2>1 DEF Placed, Exists, TypeInv, TypeOK
    <2>2. CASE LinkPlaces(w)
      BY <2>2 DEF LinkPlaces, TypeInv, TypeOK, CandsComplete, Candidate
    <2>3. \/ pc[w] \in Claimed /\ final'[w] = final[w]
          \/ LinkPlaces(w)
      BY UploadMoves DEF NoFallback, LinkUnsupported, StatTarget, Rename, Goto, TypeInv, TypeOK
    <2> QED
      BY <2>1, <2>2, <2>3
  <1> QED
    BY <1>1, <1>4, <1>5

\* Where hard links work, an upload answered "stored" is under its returned name
\* for ever, for any number of concurrent uploads, folders, retries and crashes.
THEOREM StoredStaysAlways == ASSUME HardLinks PROVE Spec => []StoredStays
  <1>1. LinkInv => StoredStays
    BY DEF LinkInv, Placed, Claimed, StoredStays
  <1>2. LinkInv /\ [Next]_vars => LinkInv'
    BY NextLinked
  <1> QED
    BY <1>1, <1>2, InitLinked, PTL DEF Spec

\* Where hard links work, no step replaces or removes what a name holds.
THEOREM NeverOverwrites == ASSUME HardLinks PROVE Spec => NoOverwrite
  <1>1. LinkInv /\ [Next]_vars => LinkInv'
    BY NextLinked
  <1>2. LinkInv /\ [Next]_vars => [\A n \in Names : Exists(n) => dir'[n] = dir[n]]_vars
    BY StepKeepsEntries
  <1> QED
    BY <1>1, <1>2, InitLinked, PTL DEF Spec, NoOverwrite

-----------------------------------------------------------------------------
(* With or without hard links, a visible file is whole, if max_upload_bytes  *)
(* is below the largest int64.  The strengthening follows one upload's file  *)
(* from its first byte: it never holds more than its payload, holds all of   *)
(* it once the copy returned, and is not written again once it has a name.   *)

Ready  == {"stamps", "link", "stat", "rename"} \cup Claimed
Copied == {"close", "chmod"} \cup Ready

FileInv(w) == /\ written[w] <= req[w].size
              /\ pc[w] = "idle" => written[w] = 0
              /\ pc[w] \in Copied => written[w] = req[w].size
              /\ pc[w] \in Ready => w \in public
              /\ \A n \in Names : dir[n] = w => Whole(w) /\ pc[w] \in Claimed \cup {"crashed"}

WholeInv == TypeInv /\ \A w \in Uploads : FileInv(w)

LEMMA SizesAreNat == \A r \in Request : r.size \in Nat
  <1> TAKE r \in Request
  <1>1. r.size \in Sizes
    BY DEF Request
  <1>2. \A s \in Sizes : s \in Nat
    BY BoundsAssumption
  <1> QED
    BY <1>1, <1>2

LEMMA InitWhole == Init => WholeInv
  <1> SUFFICES ASSUME Init PROVE WholeInv
    OBVIOUS
  <1>1. TypeInv
    BY InitTyped
  <1>2. \A w \in Uploads : FileInv(w)
    <2> SUFFICES ASSUME NEW w \in Uploads PROVE FileInv(w)
      OBVIOUS
    <2>1. w \in Calls /\ w # Nothing
      BY DEF Calls
    <2>2. pc[w] = "idle" /\ written[w] = 0 /\ \A n \in Names : dir[n] = Nothing
      BY <2>1 DEF Init
    <2>3. req[w].size >= 0
      BY <1>1, <2>1, SizesAreNat DEF TypeInv, TypeOK
    <2> QED
      BY <2>1, <2>2, <2>3 DEF FileInv, Copied, Ready, Claimed
  <1> QED
    BY <1>1, <1>2 DEF WholeInv

\* A step that leaves an upload's own pc, request and file alone keeps its
\* invariant, unless it gives the upload a name.
LEMMA FileUntouched ==
  ASSUME NEW w \in Uploads, FileInv(w),
         pc'[w] = pc[w], req'[w] = req[w], written'[w] = written[w],
         w \in public => w \in public',
         \A n \in Names : dir'[n] = w => dir[n] = w
  PROVE  FileInv(w)'
  BY DEF FileInv, Whole

\* Steps of another call.
LEMMA OtherFile ==
  ASSUME TypeInv, NEW w \in Uploads, FileInv(w), NEW c \in Calls, c # w,
         \/ c \in Uploads /\ (SubmitUpload(c) \/ UploadStep(c))
         \/ c \in Mkdirs /\ (SubmitMkdir(c) \/ MkdirStep(c))
  PROVE  FileInv(w)'
  <1> USE DEF TypeInv, TypeOK, Goto, Fail, FailClean, disk, local, world
  <1>0. w \in Calls
    BY DEF Calls
  <1>1. pc'[w] = pc[w]
    BY <1>0 DEF SubmitUpload, UploadStep, SubmitMkdir, MkdirStep, CreateTemp, CopyByte, CopyEnds,
                DiskError, CloseTemp, Chmod, Stamp, LinkPlaces, LinkTaken, LinkUnsupported,
                Unlink, StatTarget, Rename, RenameFails, Cleanup, Mkdir, Answer
  <1>2. req'[w] = req[w]
    BY <1>0 DEF SubmitUpload, UploadStep, SubmitMkdir, MkdirStep, CreateTemp, CopyByte, CopyEnds,
                DiskError, CloseTemp, Chmod, Stamp, LinkPlaces, LinkTaken, LinkUnsupported,
                Unlink, StatTarget, Rename, RenameFails, Cleanup, Mkdir, Answer
  <1>3. written'[w] = written[w] /\ public \subseteq public'
    BY DEF SubmitUpload, UploadStep, SubmitMkdir, MkdirStep, CreateTemp, CopyByte, CopyEnds,
           DiskError, CloseTemp, Chmod, Stamp, LinkPlaces, LinkTaken, LinkUnsupported,
           Unlink, StatTarget, Rename, RenameFails, Cleanup, Mkdir, Answer
  <1>4. \/ dir' = dir
        \/ \E n \in Names : dir' = [dir EXCEPT ![n] = c]
    <2>1. CASE c \in Uploads /\ LinkPlaces(c)
      BY <2>1 DEF LinkPlaces, Candidate, CandsComplete
    <2>2. CASE c \in Uploads /\ Rename(c)
      BY <2>2 DEF Rename
    <2>3. CASE Mkdir(c)
      BY <2>3, NamesOfCalls DEF Mkdir
    <2> QED
      BY <2>1, <2>2, <2>3
      DEF SubmitUpload, UploadStep, SubmitMkdir, MkdirStep, CreateTemp, CopyByte, CopyEnds,
          DiskError, CloseTemp, Chmod, Stamp, LinkTaken, LinkUnsupported, Unlink, StatTarget,
          RenameFails, Cleanup, Answer
  <1>5. \A n \in Names : dir'[n] = w => dir[n] = w
    BY <1>4
  <1> QED
    BY <1>1, <1>2, <1>3, <1>5, FileUntouched

\* Steps of the upload itself.
LEMMA OwnFile ==
  ASSUME MaxBytes < MaxInt, TypeInv, NEW w \in Uploads, FileInv(w),
         SubmitUpload(w) \/ UploadStep(w)
  PROVE  FileInv(w)'
  <1> USE DEF TypeInv, TypeOK, FileInv, Copied, Ready, Claimed, Goto, Fail, FailClean, disk, local,
              world, Whole
  <1>0. w \in Calls /\ written[w] \in Int /\ req[w].size \in Nat
    BY SizesAreNat DEF Calls
  <1>1. CopyLimit = MaxBytes + 1
    BY DEF CopyLimit, Wrap
  <1>a. CASE SubmitUpload(w)
    <2>1. PICK r \in Request : req' = [req EXCEPT ![w] = r] /\ pc'[w] \in {"create", "failed"}
      BY <1>a, <1>0 DEF SubmitUpload
    <2>2. req'[w].size >= 0 /\ pc[w] = "idle" /\ UNCHANGED disk
      BY <1>a, <1>0, <2>1, SizesAreNat DEF SubmitUpload
    <2> QED
      BY <2>1, <2>2
  <1>b. CASE CreateTemp(w) \/ CloseTemp(w) \/ Chmod(w) \/ Stamp(w)
    BY <1>b, <1>0 DEF CreateTemp, CloseTemp, Chmod, Stamp
  <1>c. CASE CopyByte(w)
    BY <1>c, <1>0 DEF CopyByte
  <1>d. CASE CopyEnds(w) \/ DiskError(w)
    BY <1>d, <1>0, <1>1 DEF CopyEnds, DiskError
  <1>e. CASE LinkPlaces(w)
    BY <1>e, <1>0 DEF LinkPlaces
  <1>f. CASE LinkTaken(w) \/ LinkUnsupported(w) \/ StatTarget(w)
    BY <1>f, <1>0 DEF LinkTaken, LinkUnsupported, StatTarget
  <1>g. CASE Unlink(w) \/ Answer(w)
    BY <1>g, <1>0 DEF Unlink, Answer
  <1>h. CASE Rename(w)
    BY <1>h, <1>0 DEF Rename
  <1>i. CASE RenameFails(w) \/ Cleanup(w)
    BY <1>i, <1>0 DEF RenameFails, Cleanup
  <1> QED
    BY <1>a, <1>b, <1>c, <1>d, <1>e, <1>f, <1>g, <1>h, <1>i DEF UploadStep

LEMMA NextWhole ==
  ASSUME MaxBytes < MaxInt, WholeInv, [Next]_vars
  PROVE  WholeInv'
  <1> USE DEF WholeInv
  <1>1. TypeInv'
    BY NextTyped
  <1>2. ASSUME NEW w \in Uploads PROVE FileInv(w)'
    <2>0. w \in Calls /\ FileInv(w) /\ Uploads \subseteq Calls /\ Mkdirs \subseteq Calls
      BY DEF Calls
    <2>a. CASE \E u \in Uploads : SubmitUpload(u) \/ UploadStep(u)
      BY <2>a, <2>0, OwnFile, OtherFile
    <2>b. CASE \E m \in Mkdirs : SubmitMkdir(m) \/ MkdirStep(m)
      BY <2>b, <2>0, OtherFile
    <2>c. CASE Crash
      BY <2>c, <2>0 DEF Crash, FileInv, Whole, disk, Running, Settled, Copied, Ready, Claimed
    <2>d. CASE Tick \/ UNCHANGED vars
      BY <2>d, <2>0, FileUntouched DEF Tick, vars, disk, local
    <2> QED
      BY <2>a, <2>b, <2>c, <2>d DEF Next
  <1> QED
    BY <1>1, <1>2

\* Below the largest int64, a name of the directory never shows part of an
\* upload or a file in its private mode, hard links or not, crash or not.
THEOREM VisibleIsWholeAlways == ASSUME MaxBytes < MaxInt PROVE Spec => []VisibleIsWhole
  <1>1. WholeInv => VisibleIsWhole
    BY DEF WholeInv, FileInv, VisibleIsWhole
  <1>2. WholeInv /\ [Next]_vars => WholeInv'
    BY NextWhole
  <1> QED
    BY <1>1, <1>2, InitWhole, PTL DEF Spec
-----------------------------------------------------------------------------
(* The invariant of one call.                                               *)

\* The labels at which an upload's temp file may exist.
Temporary == {"copy", "close", "chmod", "stamps", "link", "unlink", "stat", "rename",
              "cleanup", "crashed"}

\* The labels an upload goes through before its first candidate is tried.
Early == {"idle", "create", "copy", "close", "chmod", "stamps"}

OneEntry(c) == \A m, n \in Names : dir[m] = c /\ dir[n] = c => m = n

\* A call has an entry only after the step that claims it, and only one.
EntryInv(c) == /\ OneEntry(c)
               /\ \A n \in Names : dir[n] = c => pc[c] \in Claimed \cup {"crashed"}

TempInv(w) == w \in hasTemp => pc[w] \in Temporary \/ w \in stuck

\* An error is set only when the call is on its way out, and says what is so.
ErrorInv(w) ==
  /\ pc[w] \notin {"cleanup", "failed", "crashed"} => err[w] = "none"
  /\ written[w] <= req[w].size
  /\ pc[w] = "idle" => written[w] = 0
  /\ pc[w] \in Copied => req[w].size <= MaxBytes
  /\ err[w] = "large" => req[w].size > MaxBytes
  /\ pc[w] \in Early => idx[w] = 1
  /\ pc[w] = "link" => \A i \in 1 .. Len(cands[w]) : i < idx[w] => Exists(cands[w][i])
  /\ err[w] = "exists" => \A i \in 1 .. Len(cands[w]) : Exists(cands[w][i])

\* A folder that has been made keeps its name.
FolderInv(m) == pc[m] \in Claimed => dir[Plain(m)] = m

CallInv == /\ TypeInv
           /\ \A c \in Calls : EntryInv(c)
           /\ \A w \in Uploads : TempInv(w) /\ ErrorInv(w)

PromiseInv == LinkInv /\ CallInv /\ \A m \in Mkdirs : FolderInv(m)
-----------------------------------------------------------------------------
(* What a step of one call does to the others, and to the names.            *)

CallStep(c) == \/ c \in Uploads /\ (SubmitUpload(c) \/ UploadStep(c))
               \/ c \in Mkdirs /\ (SubmitMkdir(c) \/ MkdirStep(c))

LEMMA NextIsCallStep ==
  ASSUME [Next]_vars
  PROVE  \/ \E c \in Calls : CallStep(c)
         \/ Crash
         \/ Tick \/ UNCHANGED vars
  BY DEF Next, CallStep, Calls

\* A step of a call gives at most one name to that call, and takes none away.
LEMMA CallStepDir ==
  ASSUME TypeInv, NEW c \in Calls, CallStep(c)
  PROVE  \/ dir' = dir
         \/ \E n \in Names : dir' = [dir EXCEPT ![n] = c]
  <1> USE DEF TypeInv, TypeOK, CallStep
  <1>1. CASE c \in Uploads /\ LinkPlaces(c)
    BY <1>1 DEF LinkPlaces, Candidate, CandsComplete
  <1>2. CASE c \in Uploads /\ Rename(c)
    BY <1>2 DEF Rename
  <1>3. CASE Mkdir(c)
    BY <1>3, NamesOfCalls DEF Mkdir
  <1> QED
    BY <1>1, <1>2, <1>3
    DEF SubmitUpload, UploadStep, SubmitMkdir, MkdirStep, CreateTemp, CopyByte, CopyEnds,
        DiskError, CloseTemp, Chmod, Stamp, LinkTaken, LinkUnsupported, Unlink, StatTarget,
        RenameFails, Cleanup, Answer, disk

\* A name that is taken stays taken, hard links or not: the rename fallback may
\* change what has the name, but nothing frees it.
LEMMA ExistsStays ==
  ASSUME TypeInv, [Next]_vars
  PROVE  \A n \in Names : Exists(n) => Exists(n)'
  <1>1. ASSUME NEW c \in Calls, CallStep(c)
        PROVE  \A n \in Names : Exists(n) => Exists(n)'
    <2>1. c # Nothing /\ dir \in [Names -> Calls \cup {Nothing}]
      BY DEF TypeInv, TypeOK
    <2>2. \/ dir' = dir
          \/ \E n \in Names : dir' = [dir EXCEPT ![n] = c]
      BY <1>1, CallStepDir
    <2> QED
      BY <2>1, <2>2 DEF Exists
  <1>2. CASE Crash \/ Tick \/ UNCHANGED vars
    BY <1>2 DEF Crash, Tick, vars, disk, Exists
  <1> QED
    BY <1>1, <1>2, NextIsCallStep

\* A step of one call leaves what belongs to another call alone.
LEMMA OthersUntouched ==
  ASSUME TypeInv, NEW c \in Calls, NEW d \in Calls, c # d, CallStep(c)
  PROVE  /\ pc'[d] = pc[d] /\ req'[d] = req[d] /\ err'[d] = err[d]
         /\ d \in Uploads => /\ written'[d] = written[d] /\ cands'[d] = cands[d]
                             /\ idx'[d] = idx[d] /\ final'[d] = final[d]
                             /\ d \in hasTemp' <=> d \in hasTemp
                             /\ d \in stuck => d \in stuck'
         /\ \A n \in Names : dir'[n] = d => dir[n] = d
  <1> USE DEF TypeInv, TypeOK, CallStep, Goto, Fail, FailClean, disk, local, world
  <1>1. pc'[d] = pc[d] /\ err'[d] = err[d]
    BY DEF SubmitUpload, UploadStep, SubmitMkdir, MkdirStep, CreateTemp, CopyByte, CopyEnds,
           DiskError, CloseTemp, Chmod, Stamp, LinkPlaces, LinkTaken, LinkUnsupported,
           Unlink, StatTarget, Rename, RenameFails, Cleanup, Mkdir, Answer
  <1>2. req'[d] = req[d]
    BY DEF SubmitUpload, UploadStep, SubmitMkdir, MkdirStep, CreateTemp, CopyByte, CopyEnds,
           DiskError, CloseTemp, Chmod, Stamp, LinkPlaces, LinkTaken, LinkUnsupported,
           Unlink, StatTarget, Rename, RenameFails, Cleanup, Mkdir, Answer
  <1>3. d \in Uploads => written'[d] = written[d] /\ cands'[d] = cands[d]
    BY DEF SubmitUpload, UploadStep, SubmitMkdir, MkdirStep, CreateTemp, CopyByte, CopyEnds,
           DiskError, CloseTemp, Chmod, Stamp, LinkPlaces, LinkTaken, LinkUnsupported,
           Unlink, StatTarget, Rename, RenameFails, Cleanup, Mkdir, Answer
  <1>4. d \in Uploads => idx'[d] = idx[d] /\ final'[d] = final[d]
    BY DEF SubmitUpload, UploadStep, SubmitMkdir, MkdirStep, CreateTemp, CopyByte, CopyEnds,
           DiskError, CloseTemp, Chmod, Stamp, LinkPlaces, LinkTaken, LinkUnsupported,
           Unlink, StatTarget, Rename, RenameFails, Cleanup, Mkdir, Answer
  <1>5. d \in Uploads => (d \in hasTemp' <=> d \in hasTemp) /\ (d \in stuck => d \in stuck')
    BY DEF SubmitUpload, UploadStep, SubmitMkdir, MkdirStep, CreateTemp, CopyByte, CopyEnds,
           DiskError, CloseTemp, Chmod, Stamp, LinkPlaces, LinkTaken, LinkUnsupported,
           Unlink, StatTarget, Rename, RenameFails, Cleanup, Mkdir, Answer, RemoveTemp
  <1>6. \A n \in Names : dir'[n] = d => dir[n] = d
    <2>1. \/ dir' = dir
          \/ \E n \in Names : dir' = [dir EXCEPT ![n] = c]
      BY CallStepDir
    <2>2. dir \in [Names -> Calls \cup {Nothing}]
      OBVIOUS
    <2> HIDE DEF TypeInv, TypeOK, CallStep
    <2> QED
      BY <2>1, <2>2
  <1> QED
    BY <1>1, <1>2, <1>3, <1>4, <1>5, <1>6

-----------------------------------------------------------------------------
(* The invariant of one call is inductive.                                  *)

LEMMA InitCalls == Init => CallInv
  <1> SUFFICES ASSUME Init PROVE CallInv
    OBVIOUS
  <1>1. TypeInv
    BY InitTyped
  <1>2. ASSUME NEW c \in Calls PROVE EntryInv(c)
    <2>1. c # Nothing /\ \A n \in Names : dir[n] = Nothing
      BY DEF Init
    <2> QED
      BY <2>1 DEF EntryInv, OneEntry
  <1>3. ASSUME NEW w \in Uploads PROVE TempInv(w) /\ ErrorInv(w)
    <2>1. w \in Calls
      BY DEF Calls
    <2>2. /\ pc[w] = "idle" /\ written[w] = 0 /\ err[w] = "none" /\ idx[w] = 1
          /\ hasTemp = {}
      BY <2>1 DEF Init
    <2>3. req[w].size >= 0
      BY <1>1, <2>1, SizesAreNat DEF TypeInv, TypeOK
    <2> QED
      BY <2>2, <2>3 DEF TempInv, ErrorInv, Copied, Ready, Claimed
  <1> QED
    BY <1>1, <1>2, <1>3 DEF CallInv

\* A step of another call.
LEMMA OtherCall ==
  ASSUME CallInv, NEW c \in Calls, NEW d \in Calls, c # d, CallStep(c), [Next]_vars
  PROVE  /\ EntryInv(d)'
         /\ d \in Uploads => TempInv(d)' /\ ErrorInv(d)'
  <1>1. TypeInv
    BY DEF CallInv
  <1>2. EntryInv(d)'
    BY <1>1, OthersUntouched DEF CallInv, EntryInv, OneEntry
  <1>3. ASSUME d \in Uploads PROVE TempInv(d)' /\ ErrorInv(d)'
    <2>1. TempInv(d)'
      BY <1>1, <1>3, OthersUntouched DEF CallInv, TempInv
    <2>2. \A i \in 1 .. Len(cands[d]) : cands[d][i] \in Names
      BY <1>1, <1>3 DEF TypeInv, TypeOK
    <2>3. \A i \in 1 .. Len(cands[d]) : Exists(cands[d][i]) => Exists(cands[d][i])'
      <3> SUFFICES ASSUME NEW i \in 1 .. Len(cands[d]), Exists(cands[d][i])
                   PROVE  dir'[cands'[d][i]] # Nothing
        BY DEF Exists
      <3>1. dir'[cands[d][i]] # Nothing
        BY <1>1, <2>2, ExistsStays DEF Exists
      <3>2. cands'[d] = cands[d]
        BY <1>1, <1>3, OthersUntouched
      <3> QED
        BY <3>1, <3>2
    <2>4. ErrorInv(d)'
      BY <1>1, <1>3, <2>3, OthersUntouched DEF CallInv, ErrorInv
    <2> QED
      BY <2>1, <2>4
  <1> QED
    BY <1>2, <1>3
\* The upload's own entries: none until it claims a name, and one from then on.
LEMMA OwnEntry ==
  ASSUME CallInv, NEW w \in Uploads, SubmitUpload(w) \/ UploadStep(w)
  PROVE  EntryInv(w)'
  <1> USE DEF CallInv, TypeInv, TypeOK, Goto, Fail, FailClean, Claimed, disk, local, world
  <1>0. w \in Calls /\ w # Nothing /\ EntryInv(w)
    BY DEF Calls
  <1>a. CASE LinkPlaces(w)
    <2>1. Candidate(w) \in Names /\ pc[w] = "link"
      BY <1>a DEF LinkPlaces, Candidate, CandsComplete
    <2>2. \A n \in Names : dir[n] # w
      BY <1>0, <2>1 DEF EntryInv
    <2>3. pc'[w] = "unlink" /\ \A n \in Names : dir'[n] = w => n = Candidate(w)
      BY <1>a, <1>0, <2>2 DEF LinkPlaces
    <2> QED
      BY <2>3 DEF EntryInv, OneEntry
  <1>b. CASE Rename(w)
    <2>1. \A n \in Names : dir[n] # w
      BY <1>b, <1>0 DEF Rename, EntryInv
    <2>2. pc'[w] = "answer" /\ \A n \in Names : dir'[n] = w => n = final[w]
      BY <1>b, <1>0, <2>1 DEF Rename
    <2> QED
      BY <2>2 DEF EntryInv, OneEntry
  <1>c. CASE dir' = dir /\ (pc[w] \in Claimed => pc'[w] \in Claimed) /\ pc[w] # "crashed"
    BY <1>c, <1>0 DEF EntryInv, OneEntry
  <1>d. \/ LinkPlaces(w) \/ Rename(w)
        \/ dir' = dir /\ (pc[w] \in Claimed => pc'[w] \in Claimed) /\ pc[w] # "crashed"
    BY <1>0
    DEF SubmitUpload, UploadStep, CreateTemp, CopyByte, CopyEnds, DiskError, CloseTemp, Chmod,
        Stamp, LinkTaken, LinkUnsupported, Unlink, StatTarget, RenameFails, Cleanup, Answer
  <1> QED
    BY <1>a, <1>b, <1>c, <1>d

\* The upload's own temp file is gone before its call is answered or refused, or
\* its removal has failed.
LEMMA OwnTemp ==
  ASSUME CallInv, NEW w \in Uploads, SubmitUpload(w) \/ UploadStep(w)
  PROVE  TempInv(w)'
  <1> USE DEF CallInv, TypeInv, TypeOK, Goto, Fail, FailClean, Temporary, TempInv, disk, local, world
  <1>0. w \in Calls /\ TempInv(w)
    BY DEF Calls
  <1> QED
    BY <1>0
    DEF SubmitUpload, UploadStep, CreateTemp, CopyByte, CopyEnds, DiskError, CloseTemp, Chmod,
        Stamp, LinkPlaces, LinkTaken, LinkUnsupported, Unlink, StatTarget, Rename, RenameFails,
        Cleanup, Answer, RemoveTemp

\* No limit is needed on max_upload_bytes here: at the largest int64 no payload
\* can be over it.
LEMMA OwnError ==
  ASSUME CallInv, NEW w \in Uploads, SubmitUpload(w) \/ UploadStep(w), [Next]_vars
  PROVE  ErrorInv(w)'
  <1> USE DEF CallInv, TypeInv, TypeOK, Goto, Fail, FailClean, Copied, Ready, Claimed, Early,
              disk, local, world
  <1>0. w \in Calls /\ written[w] \in Int /\ req[w].size \in Nat /\ ErrorInv(w) /\ TypeInv
    BY SizesAreNat DEF Calls
  <1>1. req[w].size <= MaxInt
    BY <1>0 DEF Request
  <1>2. \A i \in 1 .. Len(cands[w]) : cands[w][i] \in Names
    BY <1>0
  <1>3. cands[w] \in Seq(Names) /\ idx[w] \in Nat /\ Len(cands[w]) \in Nat
    BY <1>0
  <1>4. \A n \in Names : Exists(n) => Exists(n)'
    BY ExistsStays
  <1>a. CASE SubmitUpload(w)
    <2>1. PICK r \in Request :
            /\ req' = [req EXCEPT ![w] = r]
            /\ \/ pc'[w] = "create" /\ err'[w] = err[w]
               \/ pc'[w] = "failed" /\ err'[w] = Objection(r)
      BY <1>a, <1>0 DEF SubmitUpload
    <2>2. /\ req'[w].size >= 0 /\ pc[w] = "idle" /\ Objection(r) \notin {"large", "exists"}
          /\ UNCHANGED <<disk, cands, idx>>
      BY <1>a, <1>0, <2>1, SizesAreNat DEF SubmitUpload, Objection, Request
    <2> QED
      BY <1>0, <2>1, <2>2 DEF ErrorInv
  <1>b. CASE CreateTemp(w) \/ CloseTemp(w) \/ Chmod(w) \/ Stamp(w)
    <2>1. CASE CreateTemp(w)
      BY <2>1, <1>0 DEF CreateTemp, ErrorInv
    <2>2. CASE CloseTemp(w)
      BY <2>2, <1>0 DEF CloseTemp, ErrorInv
    <2>3. CASE Chmod(w)
      BY <2>3, <1>0 DEF Chmod, ErrorInv
    <2>4. CASE Stamp(w)
      BY <2>4, <1>0 DEF Stamp, ErrorInv
    <2> QED
      BY <1>b, <2>1, <2>2, <2>3, <2>4
  <1>c. CASE CopyByte(w)
    BY <1>c, <1>0 DEF CopyByte, ErrorInv
  <1>d. CASE CopyEnds(w)
    <2>1. CASE MaxBytes < MaxInt
      <3>1. CopyLimit = MaxBytes + 1
        BY <2>1 DEF CopyLimit, Wrap
      <3> QED
        BY <1>d, <1>0, <3>1 DEF CopyEnds, ErrorInv
    <2>2. CASE MaxBytes = MaxInt
      BY <1>d, <1>0, <1>1, <2>2 DEF CopyEnds, ErrorInv
    <2> QED
      BY <2>1, <2>2
  <1>e. CASE DiskError(w) \/ RenameFails(w)
    BY <1>e, <1>0 DEF DiskError, RenameFails, ErrorInv
  <1>f. CASE LinkTaken(w)
    <2>1. /\ pc[w] = "link" /\ Exists(Candidate(w)) /\ dir' = dir
          /\ UNCHANGED <<written, req, cands>>
      BY <1>f DEF LinkTaken
    <2>2. CASE idx[w] = Len(cands[w])
      <3>1. pc'[w] = "cleanup" /\ err'[w] = "exists"
        BY <1>f, <1>0, <2>2 DEF LinkTaken
      <3>2. \A i \in 1 .. Len(cands[w]) : Exists(cands[w][i])
        <4>1. \A i \in 1 .. Len(cands[w]) : i < idx[w] => Exists(cands[w][i])
          BY <1>0, <2>1 DEF ErrorInv
        <4>2. Exists(cands[w][idx[w]])
          BY <2>1 DEF Candidate
        <4>3. \A i \in 1 .. Len(cands[w]) : i < idx[w] \/ i = idx[w]
          BY <1>3, <2>2
        <4> QED
          BY <4>1, <4>2, <4>3
      <3> QED
        BY <1>0, <2>1, <3>1, <3>2 DEF ErrorInv, Exists
    <2>3. CASE idx[w] # Len(cands[w])
      <3>1. idx'[w] = idx[w] + 1 /\ pc' = pc /\ err' = err
        BY <1>f, <1>0, <2>3 DEF LinkTaken
      <3>2. \A i \in 1 .. Len(cands[w]) : i < idx'[w] => Exists(cands[w][i])
        <4>1. \A i \in 1 .. Len(cands[w]) : i < idx[w] => Exists(cands[w][i])
          BY <1>0, <2>1 DEF ErrorInv
        <4>2. Exists(cands[w][idx[w]])
          BY <2>1 DEF Candidate
        <4>3. \A i \in 1 .. Len(cands[w]) : i < idx'[w] => i < idx[w] \/ i = idx[w]
          BY <1>3, <3>1
        <4> QED
          BY <4>1, <4>2, <4>3
      <3> QED
        BY <1>0, <2>1, <3>1, <3>2 DEF ErrorInv, Exists
    <2> QED
      BY <2>2, <2>3
  <1>g. CASE LinkPlaces(w) \/ LinkUnsupported(w) \/ StatTarget(w) \/ Rename(w)
    BY <1>g, <1>0 DEF LinkPlaces, LinkUnsupported, StatTarget, Rename, ErrorInv
  <1>h. CASE Unlink(w) \/ Cleanup(w) \/ Answer(w)
    BY <1>h, <1>0 DEF Unlink, Cleanup, RemoveTemp, Answer, ErrorInv, Exists
  <1> QED
    BY <1>a, <1>b, <1>c, <1>d, <1>e, <1>f, <1>g, <1>h DEF UploadStep
LEMMA OwnFolder ==
  ASSUME CallInv, NEW m \in Mkdirs, SubmitMkdir(m) \/ MkdirStep(m)
  PROVE  EntryInv(m)'
  <1> USE DEF CallInv, TypeInv, TypeOK, Goto, Fail, Claimed, disk
  <1>0. m \in Calls /\ m # Nothing /\ EntryInv(m) /\ Plain(m) \in Names
    BY NamesOfCalls DEF Calls
  <1>a. CASE SubmitMkdir(m) \/ Answer(m)
    BY <1>a, <1>0 DEF SubmitMkdir, Answer, EntryInv, OneEntry
  <1>b. CASE Mkdir(m)
    <2>1. \A n \in Names : dir[n] # m
      BY <1>b, <1>0 DEF Mkdir, EntryInv
    <2>2. \/ dir' = dir
          \/ dir' = [dir EXCEPT ![Plain(m)] = m] /\ pc'[m] = "answer"
      BY <1>b, <1>0 DEF Mkdir
    <2>3. CASE dir' = dir
      <3>1. \A n \in Names : dir'[n] # m
        BY <2>1, <2>3
      <3> QED
        BY <3>1 DEF EntryInv, OneEntry
    <2>4. CASE dir' = [dir EXCEPT ![Plain(m)] = m] /\ pc'[m] = "answer"
      <3>1. \A n \in Names : dir'[n] = m => n = Plain(m)
        BY <1>0, <2>1, <2>4
      <3> QED
        BY <2>4, <3>1 DEF EntryInv, OneEntry
    <2> QED
      BY <2>2, <2>3, <2>4
  <1> QED
    BY <1>a, <1>b DEF MkdirStep

\* A crash stops the calls where they are, and the clock touches none.
LEMMA WorldCalls ==
  ASSUME CallInv, Crash \/ Tick \/ UNCHANGED vars
  PROVE  /\ \A c \in Calls : EntryInv(c)'
         /\ \A w \in Uploads : TempInv(w)' /\ ErrorInv(w)'
  <1> USE DEF CallInv, TypeInv, TypeOK
  <1>0. \A w \in Uploads : w \in Calls
    BY DEF Calls
  <1>1. UNCHANGED <<disk, req, cands, idx, final, err, stuck>>
    BY DEF Crash, Tick, vars, local, world
  <1>2. CASE pc' = pc
    BY <1>1, <1>2
    DEF EntryInv, OneEntry, TempInv, ErrorInv, Exists, disk
  <1>3. CASE pc' = [c \in Calls |-> IF Running(c) THEN "crashed" ELSE pc[c]]
    <2>1. ASSUME NEW c \in Calls PROVE EntryInv(c)'
      BY <1>1, <1>3 DEF EntryInv, OneEntry, disk
    <2>2. ASSUME NEW w \in Uploads PROVE TempInv(w)'
      BY <1>0, <1>1, <1>3 DEF TempInv, Temporary, disk
    <2>3. ASSUME NEW w \in Uploads PROVE ErrorInv(w)'
      BY <1>0, <1>1, <1>3
      DEF ErrorInv, Exists, disk, Running, Settled, Copied, Ready, Claimed, Early
    <2> QED
      BY <2>1, <2>2, <2>3
  <1> QED
    BY <1>2, <1>3 DEF Crash, Tick, vars, local

LEMMA NextCalls == CallInv /\ [Next]_vars => CallInv'
  <1> SUFFICES ASSUME CallInv, [Next]_vars PROVE CallInv'
    OBVIOUS
  <1>1. TypeInv'
    BY NextTyped DEF CallInv
  <1>2. ASSUME NEW c \in Calls, CallStep(c)
        PROVE  /\ \A d \in Calls : EntryInv(d)'
               /\ \A w \in Uploads : TempInv(w)' /\ ErrorInv(w)'
    <2>1. EntryInv(c)'
      BY <1>2, OwnEntry, OwnFolder DEF CallStep
    <2>2. c \in Uploads => TempInv(c)' /\ ErrorInv(c)'
      BY <1>2, OwnTemp, OwnError DEF CallStep, SubmitMkdir, MkdirStep, Calls
    <2> QED
      BY <1>2, <2>1, <2>2, OtherCall DEF Calls
  <1> QED
    BY <1>1, <1>2, NextIsCallStep, WorldCalls DEF CallInv

-----------------------------------------------------------------------------
\* A finished call leaves no trace but its answer, hard links or not, for any
\* number of calls, retries and crashes: SafeWriteFile's deferred cleanup and the
\* os.Remove after os.Link between them reach every path out of the function, and
\* only the failure of that one call, whose error they ignore, leaves the temp file.
THEOREM NothingLeftBehindAlways == Spec => []NothingLeftBehind
  <1>1. CallInv => NothingLeftBehind
    <2> SUFFICES ASSUME CallInv, NEW w \in Uploads
                 PROVE  /\ \A m, n \in Names : dir[m] = w /\ dir[n] = w => m = n
                        /\ pc[w] \in {"done", "failed"} /\ w \in hasTemp => w \in stuck
                        /\ pc[w] = "failed" => \A n \in Names : dir[n] # w
      BY DEF NothingLeftBehind
    <2>1. EntryInv(w) /\ TempInv(w)
      BY DEF CallInv, Calls
    <2> QED
      BY <2>1 DEF EntryInv, OneEntry, TempInv, Temporary, Claimed
  <1> QED
    BY <1>1, InitCalls, NextCalls, PTL DEF Spec

\* An error is true when it is returned and stays true: "already exists" only
\* with every candidate taken (nothing frees a name), "too large" exactly for the
\* payloads over max_upload_bytes, at the largest int64 too.
THEOREM ErrorsAreTrueAlways == Spec => []ErrorsAreTrue
  <1>1. CallInv => ErrorsAreTrue
    <2> SUFFICES ASSUME CallInv, NEW w \in Uploads
                 PROVE  /\ err[w] = "exists" => \A i \in 1 .. Len(cands[w]) : Exists(cands[w][i])
                        /\ err[w] = "large" => req[w].size > MaxBytes
                        /\ err[w] = "none" /\ pc[w] = "done" => req[w].size <= MaxBytes
      BY DEF ErrorsAreTrue
    <2>1. ErrorInv(w)
      BY DEF CallInv
    <2> QED
      BY <2>1 DEF ErrorInv, Copied, Ready, Claimed
  <1> QED
    BY <1>1, InitCalls, NextCalls, PTL DEF Spec
-----------------------------------------------------------------------------
(* Where hard links work, SafeWrite implements DropZone: the step that gives *)
(* a call its name is Put, the answer is Store, an error is Refuse, a crash  *)
(* is Lose, and every other step changes nothing the callers can see.        *)

\* What a call at a label has been told.
Told(l) == CASE l = "done"    -> "stored"
             [] l = "failed"  -> "refused"
             [] l = "crashed" -> "lost"
             [] OTHER         -> "pending"

LEMMA OutcomeIsTold == Outcome = [c \in Calls |-> Told(pc[c])]
  BY DEF Outcome, Told

LEMMA ToldCases ==
  /\ Told("done") = "stored" /\ Told("failed") = "refused" /\ Told("crashed") = "lost"
  /\ \A l : l \notin {"done", "failed", "crashed"} => Told(l) = "pending"
  BY DEF Told

\* A step of one call changes at most what that call has been told.
LEMMA OutcomeMoves ==
  ASSUME TypeInv, NEW c \in Calls, \A d \in Calls : d # c => pc'[d] = pc[d]
  PROVE  /\ Outcome' = [Outcome EXCEPT ![c] = Told(pc'[c])]
         /\ Told(pc'[c]) = Outcome[c] => Outcome' = Outcome
  <1>1. Outcome' = [d \in Calls |-> Told(pc'[d])]
    BY OutcomeIsTold DEF Outcome, Told
  <1>2. [Outcome EXCEPT ![c] = Told(pc'[c])]
          = [d \in Calls |-> IF d = c THEN Told(pc'[c]) ELSE Told(pc[d])]
    BY OutcomeIsTold
  <1>3. ASSUME Told(pc'[c]) = Outcome[c]
        PROVE  \A d \in Calls : Told(pc'[d]) = Told(pc[d])
    BY <1>3, OutcomeIsTold
  <1> QED
    BY <1>1, <1>2, <1>3, OutcomeIsTold

\* A folder that has been made stays where it is.
LEMMA NextFolders ==
  ASSUME HardLinks, PromiseInv, [Next]_vars, NEW m \in Mkdirs
  PROVE  FolderInv(m)'
  <1> USE DEF PromiseInv, LinkInv, TypeInv, TypeOK, Goto, Fail, Claimed, FolderInv
  <1>0. m \in Calls /\ m \notin Uploads /\ m # Nothing /\ Plain(m) \in Names /\ FolderInv(m)
    BY NamesOfCalls DEF Calls
  <1>1. \A n \in Names : Exists(n) => dir'[n] = dir[n]
    BY StepKeepsEntries
  <1>2. CASE pc[m] \in Claimed /\ req'[m] = req[m]
    BY <1>0, <1>1, <1>2 DEF Exists, Plain
  <1>3. CASE SubmitMkdir(m)
    BY <1>0, <1>3 DEF SubmitMkdir
  <1>4. CASE MkdirStep(m)
    <2>1. CASE Mkdir(m)
      <3>1. \/ pc'[m] = "failed"
            \/ req' = req /\ dir' = [dir EXCEPT ![Plain(m)] = m]
        BY <1>0, <2>1 DEF Mkdir
      <3>2. req' = req => Plain(m)' = Plain(m)
        BY DEF Plain
      <3>3. req' = req /\ dir' = [dir EXCEPT ![Plain(m)] = m] => dir'[Plain(m)'] = m
        BY <1>0, <3>2
      <3> QED
        BY <3>1, <3>3
    <2>2. CASE Answer(m)
      <3>1. pc[m] \in Claimed /\ req'[m] = req[m]
        BY <2>2 DEF Answer
      <3> QED
        BY <1>2, <3>1
    <2> QED
      BY <1>4, <2>1, <2>2 DEF MkdirStep
  <1>5. ASSUME NEW c \in Calls, c # m, CallStep(c) PROVE FolderInv(m)'
    <2>1. pc'[m] = pc[m] /\ req'[m] = req[m]
      BY <1>0, <1>5, OthersUntouched
    <2> QED
      BY <1>2, <2>1
  <1>6. CASE Crash \/ Tick \/ UNCHANGED vars
    <2>1. req' = req /\ (pc'[m] = pc[m] \/ pc'[m] = "crashed")
      BY <1>0, <1>6 DEF Crash, Tick, vars, local
    <2> QED
      BY <1>2, <2>1
  <1> QED
    BY <1>0, <1>3, <1>4, <1>5, <1>6, NextIsCallStep DEF CallStep

LEMMA InitPromise == Init => PromiseInv
  <1> SUFFICES ASSUME Init PROVE PromiseInv
    OBVIOUS
  <1>1. \A m \in Mkdirs : FolderInv(m)
    BY DEF Init, FolderInv, Claimed, Calls
  <1> QED
    BY <1>1, InitLinked, InitCalls DEF PromiseInv

LEMMA NextPromise ==
  ASSUME HardLinks
  PROVE  PromiseInv /\ [Next]_vars => PromiseInv'
  <1> SUFFICES ASSUME PromiseInv, [Next]_vars PROVE PromiseInv'
    OBVIOUS
  <1>1. LinkInv' /\ CallInv'
    BY NextLinked, NextCalls DEF PromiseInv
  <1>2. \A m \in Mkdirs : FolderInv(m)'
    BY NextFolders
  <1> QED
    BY <1>1, <1>2 DEF PromiseInv

\* A call that is about to be answered has its entry.
LEMMA AnsweredHasEntry ==
  ASSUME PromiseInv, NEW c \in Calls, pc[c] = "answer"
  PROVE  DZ!OnShelf(c)
  <1>1. CASE c \in Uploads
    BY <1>1 DEF PromiseInv, LinkInv, Placed, Claimed, TypeInv, TypeOK, DZ!OnShelf
  <1>2. CASE c \in Mkdirs
    BY <1>2, NamesOfCalls DEF PromiseInv, LinkInv, FolderInv, Claimed, TypeInv, DZ!OnShelf
  <1> QED
    BY <1>1, <1>2 DEF Calls

\* A step of one upload, seen from DropZone.
LEMMA UploadRefines ==
  ASSUME HardLinks, PromiseInv, [Next]_vars, NEW w \in Uploads, SubmitUpload(w) \/ UploadStep(w)
  PROVE  DZ!Next \/ UNCHANGED DZ!shelfVars
  <1> USE DEF PromiseInv, LinkInv, TypeInv, TypeOK, Goto, Fail, FailClean, disk
  <1>0. w \in Calls /\ w # Nothing /\ EntryInv(w) /\ TypeInv /\ CallStep(w)
    BY DEF Calls, CallInv, CallStep
  <1>1. /\ Outcome' = [Outcome EXCEPT ![w] = Told(pc'[w])] /\ Outcome[w] = Told(pc[w])
        /\ Told(pc'[w]) = Outcome[w] => Outcome' = Outcome
    <2>1. \A d \in Calls : d # w => pc'[d] = pc[d]
      BY <1>0, OthersUntouched
    <2> QED
      BY <1>0, <2>1, OutcomeMoves, OutcomeIsTold
  <1>3. pc[w] \notin {"stat", "rename"}
    BY DEF NoFallback
  <1>a. CASE LinkPlaces(w)
    <2>1. Candidate(w) \in Names /\ pc[w] = "link" /\ pc'[w] = "unlink"
      BY <1>a, <1>0 DEF LinkPlaces, Candidate, CandsComplete
    <2>2. Outcome[w] = "pending" /\ Outcome' = Outcome
      BY <1>1, <2>1, ToldCases
    <2>3. ~DZ!OnShelf(w)
      BY <1>0, <2>1 DEF EntryInv, Claimed, DZ!OnShelf
    <2>4. DZ!Put(w, Candidate(w))
      BY <1>a, <2>2, <2>3 DEF LinkPlaces, Exists, DZ!Put
    <2> QED
      BY <1>0, <2>1, <2>4 DEF DZ!Next
  <1>b. CASE Answer(w)
    <2>1. pc[w] = "answer" /\ pc'[w] = "done" /\ dir' = dir
      BY <1>b, <1>0 DEF Answer
    <2>2. DZ!Store(w)
      BY <1>0, <1>1, <2>1, ToldCases, AnsweredHasEntry DEF DZ!Store
    <2> QED
      BY <1>0, <2>2 DEF DZ!Next
  <1>c. CASE /\ pc[w] \notin {"done", "failed", "crashed"} /\ pc'[w] = "failed" /\ dir' = dir
             /\ pc[w] \notin Claimed
    <2>1. DZ!Refuse(w)
      BY <1>0, <1>1, <1>c, ToldCases DEF EntryInv, DZ!Refuse, DZ!OnShelf
    <2> QED
      BY <1>0, <2>1 DEF DZ!Next
  <1>d. CASE /\ pc[w] \notin {"done", "failed", "crashed"} /\ dir' = dir
             /\ pc'[w] \notin {"done", "failed", "crashed"}
    <2>1. Outcome' = Outcome
      BY <1>1, <1>d, ToldCases
    <2> QED
      BY <1>d, <2>1 DEF DZ!shelfVars
  <1>e. \/ LinkPlaces(w) \/ Answer(w)
        \/ /\ pc[w] \notin {"done", "failed", "crashed"} /\ dir' = dir
           /\ \/ pc'[w] = "failed" /\ pc[w] \notin Claimed
              \/ pc'[w] \notin {"done", "failed", "crashed"}
    BY <1>0, <1>3
    DEF SubmitUpload, UploadStep, CreateTemp, CopyByte, CopyEnds, DiskError, CloseTemp, Chmod,
        Stamp, LinkTaken, LinkUnsupported, Unlink, StatTarget, Rename, RenameFails, Cleanup,
        Claimed, local
  <1> QED
    BY <1>a, <1>b, <1>c, <1>d, <1>e

\* A step of one new-folder request, seen from DropZone.
LEMMA FolderRefines ==
  ASSUME HardLinks, PromiseInv, [Next]_vars, NEW m \in Mkdirs, SubmitMkdir(m) \/ MkdirStep(m)
  PROVE  DZ!Next \/ UNCHANGED DZ!shelfVars
  <1> USE DEF PromiseInv, LinkInv, TypeInv, TypeOK, Goto, Fail, disk
  <1>0. m \in Calls /\ m # Nothing /\ EntryInv(m) /\ TypeInv /\ CallStep(m) /\ Plain(m) \in Names
    BY NamesOfCalls DEF Calls, CallInv, CallStep
  <1>1. /\ Outcome' = [Outcome EXCEPT ![m] = Told(pc'[m])] /\ Outcome[m] = Told(pc[m])
        /\ Told(pc'[m]) = Outcome[m] => Outcome' = Outcome
    <2>1. \A d \in Calls : d # m => pc'[d] = pc[d]
      BY <1>0, OthersUntouched
    <2> QED
      BY <1>0, <2>1, OutcomeMoves, OutcomeIsTold
  <1>a. CASE Mkdir(m) /\ ~Exists(Plain(m)) /\ pc'[m] # "failed"
    <2>1. pc[m] = "mkdir" /\ pc'[m] = "answer" /\ dir' = [dir EXCEPT ![Plain(m)] = m]
      BY <1>a, <1>0 DEF Mkdir
    <2>2. Outcome[m] = "pending" /\ Outcome' = Outcome
      BY <1>1, <2>1, ToldCases
    <2>3. ~DZ!OnShelf(m)
      BY <1>0, <2>1 DEF EntryInv, Claimed, DZ!OnShelf
    <2>4. DZ!Put(m, Plain(m))
      BY <1>a, <2>1, <2>2, <2>3 DEF Exists, DZ!Put
    <2> QED
      BY <1>0, <2>4 DEF DZ!Next
  <1>b. CASE Answer(m)
    <2>1. pc[m] = "answer" /\ pc'[m] = "done" /\ dir' = dir
      BY <1>b, <1>0 DEF Answer
    <2>2. DZ!Store(m)
      BY <1>0, <1>1, <2>1, ToldCases, AnsweredHasEntry DEF DZ!Store
    <2> QED
      BY <1>0, <2>2 DEF DZ!Next
  <1>c. CASE pc[m] \in {"idle", "mkdir"} /\ pc'[m] = "failed" /\ dir' = dir
    <2>1. DZ!Refuse(m)
      BY <1>0, <1>1, <1>c, ToldCases DEF EntryInv, Claimed, DZ!Refuse, DZ!OnShelf
    <2> QED
      BY <1>0, <2>1 DEF DZ!Next
  <1>d. CASE pc[m] = "idle" /\ pc'[m] = "mkdir" /\ dir' = dir
    <2>1. Outcome' = Outcome
      BY <1>1, <1>d, ToldCases
    <2> QED
      BY <1>d, <2>1 DEF DZ!shelfVars
  <1>e. \/ Answer(m)
        \/ Mkdir(m) /\ ~Exists(Plain(m)) /\ pc'[m] # "failed"
        \/ dir' = dir /\ pc[m] \in {"idle", "mkdir"} /\ pc'[m] = "failed"
        \/ dir' = dir /\ pc[m] = "idle" /\ pc'[m] = "mkdir"
    BY <1>0 DEF SubmitMkdir, MkdirStep, Mkdir
  <1> QED
    BY <1>a, <1>b, <1>c, <1>d, <1>e

\* The death of the process, seen from DropZone.
LEMMA CrashRefines ==
  ASSUME TypeInv, Crash
  PROVE  DZ!Lose
  <1> DEFINE C == {c \in Calls : Running(c)}
  <1>1. C \in SUBSET {c \in Calls : Outcome[c] = "pending"}
    BY OutcomeIsTold, ToldCases DEF Running, Settled
  <1>2. Outcome' = [c \in Calls |-> Told(pc'[c])]
    BY OutcomeIsTold DEF Outcome, Told
  <1>3. \A c \in Calls : Told(pc'[c]) = IF c \in C THEN "lost" ELSE Outcome[c]
    BY OutcomeIsTold, ToldCases DEF Crash
  <1>4. Outcome' = [c \in Calls |-> IF c \in C THEN "lost" ELSE Outcome[c]]
    BY <1>2, <1>3
  <1>5. dir' = dir
    BY DEF Crash, disk
  <1> QED
    BY <1>1, <1>4, <1>5 DEF DZ!Lose

LEMMA StepRefines ==
  ASSUME HardLinks, PromiseInv, [Next]_vars
  PROVE  [DZ!Next]_(DZ!shelfVars)
  <1>1. TypeInv
    BY DEF PromiseInv, LinkInv
  <1>2. CASE Tick \/ UNCHANGED vars
    BY <1>2 DEF Tick, vars, disk, local, Outcome, DZ!shelfVars
  <1>3. CASE Crash
    BY <1>1, <1>3, CrashRefines DEF DZ!Next
  <1>4. ASSUME NEW c \in Calls, CallStep(c) PROVE DZ!Next \/ UNCHANGED DZ!shelfVars
    BY <1>4, UploadRefines, FolderRefines DEF CallStep
  <1> QED
    BY <1>2, <1>3, <1>4, NextIsCallStep

\* Where hard links work, the write path implements DropZone: every call puts at
\* most one entry in the directory, under a name nothing had, is told "stored"
\* only when it is there and "refused" only when it is not, and nothing is ever
\* replaced or taken away, whatever the interleaving, the retries and the crashes.
THEOREM WritePathKeepsThePromise == ASSUME HardLinks PROVE Spec => ImplementsDropZone
  <1>1. Init => DZ!Init
    <2> SUFFICES ASSUME Init PROVE DZ!Init
      OBVIOUS
    <2>1. Outcome = [c \in Calls |-> "pending"]
      BY OutcomeIsTold, ToldCases DEF Init
    <2> QED
      BY <2>1 DEF Init, DZ!Init
  <1>2. PromiseInv /\ [Next]_vars => PromiseInv'
    BY NextPromise
  <1>3. PromiseInv /\ [Next]_vars => [DZ!Next]_(DZ!shelfVars)
    BY StepRefines
  <1> QED
    BY <1>1, <1>2, <1>3, InitPromise, PTL DEF Spec, ImplementsDropZone, DZ!Spec
=============================================================================
