---------------------------- MODULE AuditLogProof ----------------------------
(* Theorems about AuditLog, for any number of goroutines, handles and        *)
(* rotations.                                                                *)
EXTENDS AuditLog, TLAPS

USE ProcsAssumption, BoundAssumption

-----------------------------------------------------------------------------
(* The inductive invariant.                                                 *)

\* The labels at which Reopen or Close has a handle in its hands.
Holding == {"close old", "swap", "swapping", "close file"}

\* The labels of a Reopen that has taken the handle out of a.file.
Detached == {"close old", "open", "disable", "disabling", "swap", "swapping"}

\* A handle is in one place: in a.file or in the hands of one call, and open.
HandleInv ==
  /\ \A h \in open : h <= opened
  /\ file # Nil => file \in open
  /\ \A p \in Procs : held[p] # Nil => /\ held[p] \in open
                                       /\ held[p] # file
                                       /\ pc[p] \in Holding
  /\ \A p, q \in Procs : held[p] = held[q] /\ held[p] # Nil => p = q
  /\ \A p \in Loggers : pc[p] = "write" => file # Nil
  /\ \A p \in Reopeners : pc[p] \in {"swap", "swapping"} => held[p] # Nil

\* Rotations only go forward.
RotationInv == fresh <= atPath /\ \A p \in Procs : asked[p] <= atPath

\* While no two Reopens have overlapped, a.file stays empty from the moment a
\* Reopen takes the handle out until it puts the new one in, and for good once
\* the log is disabled.
ReopenInv ==
  ~overlap =>
    /\ \A p, q \in Reopeners : pc[p] # "idle" /\ pc[q] # "idle" => p = q
    /\ \A p \in Reopeners : pc[p] \in Detached => file = Nil /\ enabled
    /\ ~enabled => file = Nil
    /\ \A h \in open : h = file \/ \E p \in Procs : held[p] = h
    /\ file # Nil => inode[file] >= fresh
    /\ \A p \in Reopeners : pc[p] \in {"swap", "swapping"} =>
         inode[held[p]] >= fresh /\ inode[held[p]] >= asked[p]

\* A Close that returned disabled the log, or found it disabled, unless it missed.
QuietInv == /\ closed /\ ~missed => ~enabled
            /\ \A p \in Closers : pc[p] = "close file" => ~enabled
            /\ late # {} => closed

AuditInv == TypeOK /\ HandleInv /\ RotationInv /\ ReopenInv /\ QuietInv
\* What a step can be: one call's step, or a rotation.
LEMMA StepCases ==
  ASSUME [Next]_vars
  PROVE  \/ \E p \in Loggers : LogBegin(p) \/ LogLock(p) \/ LogNoFile(p) \/ LogHasFile(p) \/ LogWrite(p)
         \/ \E p \in Reopeners : \/ ReopenBegin(p) \/ ReopenLock(p) \/ Detach(p) \/ CloseOld(p)
                                 \/ CloseOldFails(p) \/ OpenNew(p) \/ OpenFails(p) \/ DisableLock(p)
                                 \/ Disable(p) \/ SwapLock(p) \/ Swap(p)
         \/ \E p \in Closers : CloseBegin(p) \/ CloseLock(p) \/ TakeNothing(p) \/ Take(p) \/ CloseFile(p)
         \/ Rotate \/ UNCHANGED vars
  BY DEF Next, Begins, Locks, Moves, LogReturns, ReopenMoves, CloseMoves

-----------------------------------------------------------------------------
(* Type correctness, with the mutex.                                        *)

LEMMA InitTyped == Init => TypeOK
  <1> SUFFICES ASSUME Init PROVE TypeOK
    OBVIOUS
  <1>1. 1 \in Handles /\ Nil = 0
    BY DEF Handles, Nil
  <1>2. \A p \in Procs : mu = p <=> pc[p] \in Sections
    BY DEF Init, Sections
  <1>3. pc \in [Procs -> Labels] /\ held \in [Procs -> Handles \cup {Nil}]
    BY <1>1 DEF Init, Labels
  <1>4. inode \in [Handles -> 0 .. MaxRotations] /\ asked \in [Procs -> 0 .. MaxRotations]
    BY DEF Init
  <1>5. atPath \in 0 .. MaxRotations /\ fresh \in 0 .. MaxRotations
    BY DEF Init
  <1> QED
    BY <1>1, <1>2, <1>3, <1>4, <1>5 DEF Init, TypeOK

LEMMA NextHandle == \A h \in Handles : h < MaxHandles => h + 1 \in Handles
  BY DEF Handles

LEMMA LogTyped ==
  ASSUME TypeOK, NEW p \in Loggers,
         LogBegin(p) \/ LogLock(p) \/ LogNoFile(p) \/ LogHasFile(p) \/ LogWrite(p)
  PROVE  TypeOK'
  <1> USE DEF TypeOK, Goto, Labels, Sections, state, files, history
  <1>0. p \in Procs /\ p # Free
    BY DEF Procs
  <1>a. CASE LogBegin(p)
    BY <1>a, <1>0 DEF LogBegin
  <1>b. CASE LogLock(p)
    BY <1>b, <1>0 DEF LogLock, Lock
  <1>c. CASE LogNoFile(p)
    BY <1>c, <1>0 DEF LogNoFile
  <1>d. CASE LogHasFile(p)
    BY <1>d, <1>0 DEF LogHasFile
  <1>e. CASE LogWrite(p)
    BY <1>e, <1>0 DEF LogWrite
  <1> QED
    BY <1>a, <1>b, <1>c, <1>d, <1>e

LEMMA ReopenTyped ==
  ASSUME TypeOK, NEW p \in Reopeners,
         \/ ReopenBegin(p) \/ ReopenLock(p) \/ Detach(p) \/ CloseOld(p)
         \/ CloseOldFails(p) \/ OpenNew(p) \/ OpenFails(p) \/ DisableLock(p)
         \/ Disable(p) \/ SwapLock(p) \/ Swap(p)
  PROVE  TypeOK'
  <1> USE DEF TypeOK, Goto, Labels, Sections, state, files, history, Handles, Nil
  <1>0. p \in Procs /\ p # Free
    BY DEF Procs
  <1>a. CASE ReopenBegin(p)
    BY <1>a, <1>0 DEF ReopenBegin
  <1>b. CASE ReopenLock(p) \/ DisableLock(p) \/ SwapLock(p)
    BY <1>b, <1>0 DEF ReopenLock, DisableLock, SwapLock, Lock
  <1>c. CASE Detach(p)
    <2> HIDE DEF Handles, Nil
    <2>1. CASE enabled
      <3>1. /\ held' = [held EXCEPT ![p] = file] /\ file' = Nil /\ pc' = [pc EXCEPT ![p] = "close old"]
            /\ pc[p] = "detach" /\ mu' = Free /\ UNCHANGED <<enabled, files, history>>
        BY <1>c, <2>1 DEF Detach
      <3>2. \A q \in Procs : mu' = q <=> pc'[q] \in Sections
        BY <1>0, <3>1
      <3>3. held' \in [Procs -> Handles \cup {Nil}] /\ pc' \in [Procs -> Labels]
        BY <1>0, <3>1
      <3> HIDE DEF Sections, Labels, Goto
      <3> QED
        BY <3>1, <3>2, <3>3
    <2>2. CASE ~enabled
      BY <1>c, <1>0, <2>2 DEF Detach
    <2> QED
      BY <2>1, <2>2
  <1>d. CASE CloseOld(p) \/ CloseOldFails(p)
    <2> HIDE DEF Handles, Nil
    <2>1. CASE CloseOld(p)
      BY <2>1, <1>0 DEF CloseOld
    <2>2. CASE CloseOldFails(p)
      BY <2>2, <1>0 DEF CloseOldFails
    <2> QED
      BY <1>d, <2>1, <2>2
  <1>e. CASE OpenNew(p)
    <2> HIDE DEF Handles, Nil
    <2>1. opened + 1 \in Handles /\ opened' = opened + 1
      BY <1>e, NextHandle DEF OpenNew
    <2>2. /\ open' \subseteq Handles /\ opened' \in Handles
          /\ inode' \in [Handles -> 0 .. MaxRotations]
          /\ held' \in [Procs -> Handles \cup {Nil}]
      BY <1>e, <1>0, <2>1 DEF OpenNew
    <2>3. pc' \in [Procs -> Labels] /\ \A q \in Procs : mu' = q <=> pc'[q] \in Sections
      BY <1>e, <1>0 DEF OpenNew
    <2> QED
      BY <1>e, <2>2, <2>3 DEF OpenNew
  <1>f. CASE OpenFails(p)
    BY <1>f, <1>0 DEF OpenFails
  <1>g. CASE Disable(p)
    BY <1>g, <1>0 DEF Disable
  <1>h. CASE Swap(p)
    BY <1>h, <1>0 DEF Swap
  <1> QED
    BY <1>a, <1>b, <1>c, <1>d, <1>e, <1>f, <1>g, <1>h

LEMMA CloseTyped ==
  ASSUME TypeOK, NEW p \in Closers,
         CloseBegin(p) \/ CloseLock(p) \/ TakeNothing(p) \/ Take(p) \/ CloseFile(p)
  PROVE  TypeOK'
  <1> USE DEF TypeOK, Goto, Labels, Sections, state, files, history, Nil
  <1>0. p \in Procs /\ p # Free
    BY DEF Procs
  <1>a. CASE CloseBegin(p)
    BY <1>a, <1>0 DEF CloseBegin
  <1>b. CASE CloseLock(p)
    BY <1>b, <1>0 DEF CloseLock, Lock
  <1>c. CASE TakeNothing(p)
    BY <1>c, <1>0 DEF TakeNothing
  <1>d. CASE Take(p)
    BY <1>d, <1>0 DEF Take
  <1>e. CASE CloseFile(p)
    BY <1>e, <1>0 DEF CloseFile
  <1> QED
    BY <1>a, <1>b, <1>c, <1>d, <1>e

LEMMA NextTyped == TypeOK /\ [Next]_vars => TypeOK'
  <1> SUFFICES ASSUME TypeOK, [Next]_vars PROVE TypeOK'
    OBVIOUS
  <1>1. CASE Rotate
    BY <1>1 DEF TypeOK, Rotate, state, history
  <1>2. CASE UNCHANGED vars
    BY <1>2 DEF TypeOK, vars, state, files, history
  <1> QED
    BY <1>1, <1>2, StepCases, LogTyped, ReopenTyped, CloseTyped

\* In every reachable state each variable is in its domain, and the mutex is held
\* by exactly the call, if any, that is in a section under it.
THEOREM TypeCorrect == Spec => []TypeOK
  BY InitTyped, NextTyped, PTL DEF Spec
-----------------------------------------------------------------------------
(* Handles: one place for each, and none is closed while Log can reach it.   *)

\* The mutex is held by one call at a time.
LEMMA MutualExclusion ==
  ASSUME TypeOK, NEW p \in Procs, NEW q \in Procs, pc[p] \in Sections, pc[q] \in Sections
  PROVE  p = q
  BY DEF TypeOK

\* A call's step moves that call's pc and handle only.
LEMMA OthersUntouched ==
  ASSUME TypeOK, NEW p \in Procs, NEW q \in Procs, p # q,
         \/ p \in Loggers /\ (LogBegin(p) \/ LogLock(p) \/ LogNoFile(p) \/ LogHasFile(p) \/ LogWrite(p))
         \/ p \in Reopeners /\ \/ ReopenBegin(p) \/ ReopenLock(p) \/ Detach(p) \/ CloseOld(p)
                               \/ CloseOldFails(p) \/ OpenNew(p) \/ OpenFails(p) \/ DisableLock(p)
                               \/ Disable(p) \/ SwapLock(p) \/ Swap(p)
         \/ p \in Closers /\ (CloseBegin(p) \/ CloseLock(p) \/ TakeNothing(p) \/ Take(p) \/ CloseFile(p))
  PROVE  pc'[q] = pc[q] /\ held'[q] = held[q] /\ asked'[q] = asked[q]
  BY DEF TypeOK, Goto, Lock, history, LogBegin, LogLock, LogNoFile, LogHasFile, LogWrite,
         ReopenBegin, ReopenLock, Detach, CloseOld, CloseOldFails, OpenNew, OpenFails, DisableLock,
         Disable, SwapLock, Swap, CloseBegin, CloseLock, TakeNothing, Take, CloseFile

\* Steps that move no handle: they keep the invariant if the call goes to no
\* label that needs one.
LEMMA HandlesUntouched ==
  ASSUME TypeOK, HandleInv, NEW p \in Procs, UNCHANGED <<file, open, opened, held>>,
         \A q \in Procs : q # p => pc'[q] = pc[q],
         held[p] # Nil => pc'[p] \in Holding,
         p \in Loggers /\ pc'[p] = "write" => file # Nil,
         p \in Reopeners /\ pc'[p] \in {"swap", "swapping"} => held[p] # Nil
  PROVE  HandleInv'
  BY DEF HandleInv, Procs

LEMMA LogHandles ==
  ASSUME TypeOK, HandleInv, NEW p \in Loggers,
         LogBegin(p) \/ LogLock(p) \/ LogNoFile(p) \/ LogHasFile(p) \/ LogWrite(p)
  PROVE  HandleInv'
  <1>0. p \in Procs /\ p \notin Reopeners /\ p \notin Closers
    BY DEF Procs
  <1>1. \A q \in Procs : q # p => pc'[q] = pc[q]
    BY <1>0, OthersUntouched
  <1>2. UNCHANGED <<file, open, opened, held>>
    BY DEF LogBegin, LogLock, LogNoFile, LogHasFile, LogWrite, Lock, state, files
  <1>3. pc[p] \notin Holding /\ (pc'[p] = "write" => file # Nil)
    BY <1>0
    DEF Holding, TypeOK, Goto, Lock, LogBegin, LogLock, LogNoFile, LogHasFile, LogWrite
  <1>4. held[p] = Nil
    BY <1>0, <1>3 DEF HandleInv
  <1> QED
    BY <1>0, <1>1, <1>2, <1>3, <1>4, HandlesUntouched

LEMMA ReopenHandles ==
  ASSUME TypeOK, HandleInv, NEW p \in Reopeners,
         \/ ReopenBegin(p) \/ ReopenLock(p) \/ Detach(p) \/ CloseOld(p)
         \/ CloseOldFails(p) \/ OpenNew(p) \/ OpenFails(p) \/ DisableLock(p)
         \/ Disable(p) \/ SwapLock(p) \/ Swap(p)
  PROVE  HandleInv'
  <1>0. p \in Procs /\ p \notin Loggers /\ p \notin Closers
    BY DEF Procs
  <1>1. /\ \A q \in Procs : q # p => pc'[q] = pc[q] /\ held'[q] = held[q]
        /\ Loggers \subseteq Procs /\ Reopeners \subseteq Procs
    BY <1>0, OthersUntouched DEF Procs
  <1>2. pc[p] \notin Holding => held[p] = Nil
    BY <1>0 DEF HandleInv
  <1>a. CASE \/ ReopenBegin(p) \/ ReopenLock(p) \/ OpenFails(p) \/ DisableLock(p)
             \/ Disable(p) \/ SwapLock(p)
    <2>1. UNCHANGED <<file, open, opened, held>>
      BY <1>a DEF ReopenBegin, ReopenLock, OpenFails, DisableLock, Disable, SwapLock, Lock, state, files
    <2>2. /\ held[p] # Nil => pc'[p] \in Holding
          /\ pc'[p] \in {"swap", "swapping"} => held[p] # Nil
      BY <1>a, <1>0, <1>2
      DEF ReopenBegin, ReopenLock, OpenFails, DisableLock, Disable, SwapLock, Lock, Goto,
          TypeOK, HandleInv, Holding
    <2> QED
      BY <1>0, <1>1, <2>1, <2>2, HandlesUntouched
  <1>b. CASE Detach(p)
    <2>1. CASE enabled
      <3>1. /\ held' = [held EXCEPT ![p] = file] /\ file' = Nil /\ pc'[p] = "close old"
            /\ UNCHANGED <<open, opened>> /\ pc[p] = "detach" /\ held'[p] = file
        BY <1>b, <1>0, <2>1 DEF Detach, Goto, TypeOK, files
      <3>2. \A q \in Loggers : pc[q] # "write"
        BY <1>0, <1>1, <3>1, MutualExclusion DEF Sections
      <3>3. \A q \in Procs : held'[q] # Nil => /\ held'[q] \in open
                                               /\ held'[q] # file'
                                               /\ pc'[q] \in Holding
        BY <1>1, <3>1 DEF HandleInv, Holding
      <3>4. \A q, r \in Procs : held'[q] = held'[r] /\ held'[q] # Nil => q = r
        <4>1. \A q \in Procs : held[q] # Nil => held[q] # file
          BY DEF HandleInv
        <4>2. \A q, r \in Procs : held[q] = held[r] /\ held[q] # Nil => q = r
          BY DEF HandleInv
        <4>3. held'[p] = file /\ \A q \in Procs : q # p => held'[q] = held[q]
          BY <1>1, <3>1
        <4> QED
          BY <4>1, <4>2, <4>3
      <3>5. \A q \in Loggers : pc'[q] # "write"
        BY <1>0, <1>1, <3>2
      <3>6. \A q \in Reopeners : pc'[q] \in {"swap", "swapping"} => held'[q] # Nil
        <4>1. \A q \in Reopeners : pc[q] \in {"swap", "swapping"} => held[q] # Nil
          BY DEF HandleInv
        <4> QED
          BY <1>1, <3>1, <4>1
      <3>7. \A h \in open' : h <= opened'
        BY <3>1 DEF HandleInv
      <3> QED
        BY <3>1, <3>3, <3>4, <3>5, <3>6, <3>7 DEF HandleInv
    <2>2. CASE ~enabled
      <3>1. UNCHANGED <<file, open, opened, held>> /\ pc[p] = "detach" /\ pc'[p] = "idle"
        BY <1>b, <1>0, <2>2 DEF Detach, Goto, TypeOK, files
      <3> QED
        BY <1>0, <1>1, <1>2, <3>1, HandlesUntouched DEF Holding
    <2> QED
      BY <2>1, <2>2
  <1>c. CASE CloseOld(p) \/ CloseOldFails(p)
    <2>1. /\ held' = [held EXCEPT ![p] = Nil] /\ open' = open \ {held[p]}
          /\ UNCHANGED <<file, opened>> /\ pc'[p] \notin {"swap", "swapping"}
          /\ held'[p] = Nil
      BY <1>c, <1>0 DEF CloseOld, CloseOldFails, Goto, TypeOK, state
    <2>2. file # Nil => file \in open'
      BY <1>0, <2>1 DEF HandleInv
    <2>3. \A q \in Procs : held'[q] # Nil => held'[q] \in open'
      BY <1>0, <1>1, <2>1 DEF HandleInv
    <2> QED
      BY <1>0, <1>1, <2>1, <2>2, <2>3 DEF HandleInv
  <1>d. CASE OpenNew(p)
    <2>1. /\ opened' = opened + 1 /\ open' = open \cup {opened'} /\ held'[p] = opened'
          /\ file' = file /\ pc'[p] = "swap" /\ opened' # Nil
      BY <1>d, <1>0 DEF OpenNew, Goto, TypeOK, state, Handles, Nil
    <2>2. opened' \notin open /\ \A h \in open' : h <= opened'
      BY <2>1 DEF HandleInv, TypeOK, Handles
    <2>3. file # opened' /\ \A q \in Procs : held[q] # opened'
      BY <2>1, <2>2 DEF HandleInv
    <2> QED
      BY <1>0, <1>1, <2>1, <2>2, <2>3 DEF HandleInv, Holding
  <1>e. CASE Swap(p)
    <2>1. /\ file' = held[p] /\ held'[p] = Nil /\ pc'[p] = "idle"
          /\ UNCHANGED <<open, opened>> /\ pc[p] = "swapping"
      BY <1>e, <1>0 DEF Swap, Goto, TypeOK, files
    <2>2. \A q \in Loggers : pc[q] # "write"
      BY <1>0, <1>1, <2>1, MutualExclusion DEF Sections
    <2> QED
      BY <1>0, <1>1, <2>1, <2>2 DEF HandleInv
  <1> QED
    BY <1>a, <1>b, <1>c, <1>d, <1>e

LEMMA CloseHandles ==
  ASSUME TypeOK, HandleInv, NEW p \in Closers,
         CloseBegin(p) \/ CloseLock(p) \/ TakeNothing(p) \/ Take(p) \/ CloseFile(p)
  PROVE  HandleInv'
  <1>0. p \in Procs /\ p \notin Loggers /\ p \notin Reopeners
    BY DEF Procs
  <1>1. /\ \A q \in Procs : q # p => pc'[q] = pc[q] /\ held'[q] = held[q]
        /\ Loggers \subseteq Procs /\ Reopeners \subseteq Procs
    BY <1>0, OthersUntouched DEF Procs
  <1>2. pc[p] \notin Holding => held[p] = Nil
    BY <1>0 DEF HandleInv
  <1>a. CASE CloseBegin(p) \/ CloseLock(p) \/ TakeNothing(p)
    <2>1. UNCHANGED <<file, open, opened, held>> /\ pc[p] \notin Holding
      BY <1>a DEF CloseBegin, CloseLock, TakeNothing, Lock, state, files, Holding
    <2> QED
      BY <1>0, <1>1, <1>2, <2>1, HandlesUntouched
  <1>b. CASE Take(p)
    <2>1. /\ file' = Nil /\ held'[p] = file /\ pc'[p] = "close file" /\ pc[p] = "take"
          /\ UNCHANGED <<open, opened>>
      BY <1>b, <1>0 DEF Take, Goto, TypeOK, files
    <2>2. \A q \in Loggers : pc[q] # "write"
      BY <1>0, <1>1, <2>1, MutualExclusion DEF Sections
    <2>3. \A q \in Procs : held'[q] # Nil => /\ held'[q] \in open
                                             /\ held'[q] # file'
                                             /\ pc'[q] \in Holding
      BY <1>1, <2>1 DEF HandleInv, Holding
    <2>4. \A q, r \in Procs : held'[q] = held'[r] /\ held'[q] # Nil => q = r
      BY <1>1, <2>1 DEF HandleInv
    <2> QED
      BY <1>0, <1>1, <2>1, <2>2, <2>3, <2>4 DEF HandleInv
  <1>c. CASE CloseFile(p)
    <2>1. /\ held'[p] = Nil /\ open' = open \ {held[p]} /\ UNCHANGED <<file, opened>>
      BY <1>c, <1>0 DEF CloseFile, TypeOK, state
    <2>2. file # Nil => file \in open'
      BY <1>0, <2>1 DEF HandleInv
    <2>3. \A q \in Procs : held'[q] # Nil => held'[q] \in open'
      BY <1>0, <1>1, <2>1 DEF HandleInv
    <2> QED
      BY <1>0, <1>1, <2>1, <2>2, <2>3 DEF HandleInv
  <1> QED
    BY <1>a, <1>b, <1>c

LEMMA NextHandles == TypeOK /\ HandleInv /\ [Next]_vars => HandleInv'
  <1> SUFFICES ASSUME TypeOK, HandleInv, [Next]_vars PROVE HandleInv'
    OBVIOUS
  <1>1. CASE Rotate \/ UNCHANGED vars
    BY <1>1 DEF HandleInv, Rotate, vars, state, files
  <1> QED
    BY <1>1, StepCases, LogHandles, ReopenHandles, CloseHandles

LEMMA InitHandles == Init => HandleInv
  BY DEF Init, HandleInv, Nil, Procs

\* A line is only ever written to an open file, though Reopen and Close close
\* handles outside the mutex and Reopens may overlap.
THEOREM WritesToOpenFileAlways == Spec => []WritesToOpenFile
  <1>1. HandleInv => WritesToOpenFile
    BY DEF HandleInv, WritesToOpenFile
  <1> QED
    BY <1>1, InitTyped, NextTyped, InitHandles, NextHandles, PTL DEF Spec
-----------------------------------------------------------------------------
(* Rotation: the newest file a Reopen was asked for is never ahead of the    *)
(* path, and what a call remembers is never ahead of either.                 *)

LEMMA NextRotation == TypeOK /\ RotationInv /\ [Next]_vars => RotationInv'
  <1> SUFFICES ASSUME TypeOK, RotationInv, [Next]_vars PROVE RotationInv'
    OBVIOUS
  <1>0. atPath \in Nat /\ fresh \in Nat /\ \A p \in Procs : asked[p] \in Nat
    BY DEF TypeOK
  <1>1. CASE UNCHANGED <<asked, fresh, atPath>>
    BY <1>1 DEF RotationInv
  <1>2. ASSUME NEW p \in Reopeners, ReopenBegin(p) PROVE RotationInv'
    <2>1. /\ asked' = [asked EXCEPT ![p] = atPath] /\ UNCHANGED <<fresh, atPath>>
      BY <1>2 DEF ReopenBegin, files
    <2> QED
      BY <1>0, <2>1 DEF RotationInv, TypeOK
  <1>3. ASSUME NEW p \in Reopeners, Swap(p) PROVE RotationInv'
    <2>1. /\ fresh' \in {asked[p], fresh} /\ UNCHANGED <<asked, atPath>> /\ p \in Procs
      BY <1>3 DEF Swap, files, Procs
    <2> QED
      BY <1>0, <2>1 DEF RotationInv
  <1>4. CASE Rotate
    BY <1>0, <1>4 DEF Rotate, RotationInv, history
  <1> QED
    BY <1>1, <1>2, <1>3, <1>4, StepCases
    DEF vars, files, history, Lock, LogBegin, LogLock, LogNoFile, LogHasFile, LogWrite,
        ReopenLock, Detach, CloseOld, CloseOldFails, OpenNew, OpenFails, DisableLock,
        Disable, SwapLock, CloseBegin, CloseLock, TakeNothing, Take, CloseFile

-----------------------------------------------------------------------------
(* One Reopen at a time: what it took out of a.file it puts back renewed, and *)
(* in between there is nothing for Log to write to or for Close to take.     *)

\* What ReopenInv says, for the states and steps without an overlap.
OneReopen ==
  /\ \A p, q \in Reopeners : pc[p] # "idle" /\ pc[q] # "idle" => p = q
  /\ \A p \in Reopeners : pc[p] \in Detached => file = Nil /\ enabled
  /\ ~enabled => file = Nil
NoLeak == \A h \in open : h = file \/ \E p \in Procs : held[p] = h
Renewed ==
  /\ file # Nil => inode[file] >= fresh
  /\ \A p \in Reopeners : pc[p] \in {"swap", "swapping"} =>
       inode[held[p]] >= fresh /\ inode[held[p]] >= asked[p]

LEMMA ReopenInvParts == ReopenInv <=> (~overlap => OneReopen /\ NoLeak /\ Renewed)
  BY DEF ReopenInv, OneReopen, NoLeak, Renewed

\* Steps of Log, which touch neither the handles nor a Reopen.
LEMMA LogReopens ==
  ASSUME TypeOK, NEW p \in Loggers,
         LogBegin(p) \/ LogLock(p) \/ LogNoFile(p) \/ LogHasFile(p) \/ LogWrite(p)
  PROVE  /\ UNCHANGED <<enabled, file, open, opened, inode, atPath, held, asked, fresh, overlap>>
         /\ \A q \in Reopeners : pc'[q] = pc[q]
  <1>1. \A q \in Reopeners : pc'[q] = pc[q]
    BY OthersUntouched DEF Procs
  <1> QED
    BY <1>1 DEF LogBegin, LogLock, LogNoFile, LogHasFile, LogWrite, Lock, state, files, history

\* An overlap is remembered.
LEMMA OverlapStays == [Next]_vars /\ overlap => overlap'
  <1> SUFFICES ASSUME [Next]_vars, overlap PROVE overlap'
    OBVIOUS
  <1>1. CASE \E p \in Reopeners : ReopenBegin(p)
    BY <1>1 DEF ReopenBegin
  <1>2. CASE UNCHANGED overlap
    BY <1>2
  <1> QED
    BY <1>1, <1>2, StepCases
    DEF vars, history, Lock, LogBegin, LogLock, LogNoFile, LogHasFile, LogWrite,
        ReopenLock, Detach, CloseOld, CloseOldFails, OpenNew, OpenFails, DisableLock, Disable,
        SwapLock, Swap, CloseBegin, CloseLock, TakeNothing, Take, CloseFile, Rotate

LEMMA NextOneReopen ==
  ASSUME TypeOK, [Next]_vars, ~overlap', ~overlap => OneReopen
  PROVE  OneReopen'
  <1> USE DEF OneReopen
  <1>0. Reopeners \subseteq Procs /\ Closers \subseteq Procs
    BY DEF Procs
  <1>1. ~overlap /\ OneReopen
    BY OverlapStays
  <1>2. CASE UNCHANGED <<file, enabled>> /\ \A q \in Reopeners : pc'[q] = pc[q]
    BY <1>1, <1>2
  <1>3. ASSUME NEW p \in Loggers,
               LogBegin(p) \/ LogLock(p) \/ LogNoFile(p) \/ LogHasFile(p) \/ LogWrite(p)
        PROVE  OneReopen'
    BY <1>2, <1>3, LogReopens
  <1>4. ASSUME NEW p \in Reopeners,
               \/ ReopenBegin(p) \/ ReopenLock(p) \/ Detach(p) \/ CloseOld(p)
               \/ CloseOldFails(p) \/ OpenNew(p) \/ OpenFails(p) \/ DisableLock(p)
               \/ Disable(p) \/ SwapLock(p) \/ Swap(p)
        PROVE  OneReopen'
    <2>1. \A q \in Reopeners : q # p => pc'[q] = pc[q]
      BY <1>0, <1>4, OthersUntouched
    <2>2. CASE ReopenBegin(p)
      <3>1. \A q \in Reopeners : pc[q] = "idle"
        BY <2>2 DEF ReopenBegin
      <3>2. pc'[p] = "reopen" /\ UNCHANGED <<file, enabled>>
        BY <1>0, <2>2 DEF ReopenBegin, Goto, TypeOK, state
      <3> QED
        BY <1>1, <2>1, <3>1, <3>2 DEF Detached
    <2>3. \A q \in Reopeners : q # p /\ pc[q] # "idle" => pc[p] = "idle"
      BY <1>1
    <2>4. CASE ReopenLock(p) \/ DisableLock(p) \/ SwapLock(p)
      BY <1>0, <1>1, <2>1, <2>4 DEF ReopenLock, DisableLock, SwapLock, Lock, Goto, TypeOK, Detached
    <2>5. CASE Detach(p)
      BY <1>0, <1>1, <2>1, <2>5 DEF Detach, Goto, TypeOK, Detached
    <2>6. CASE CloseOld(p) \/ CloseOldFails(p) \/ OpenNew(p) \/ OpenFails(p)
      BY <1>0, <1>1, <2>1, <2>6
      DEF CloseOld, CloseOldFails, OpenNew, OpenFails, Goto, TypeOK, Detached, state
    <2>7. CASE Disable(p)
      <3>1. pc[p] = "disabling" /\ pc'[p] = "idle" /\ file' = file /\ enabled' = FALSE
        BY <1>0, <2>7 DEF Disable, Goto, TypeOK
      <3> QED
        BY <1>1, <2>1, <3>1 DEF Detached
    <2>8. CASE Swap(p)
      <3>1. pc[p] = "swapping" /\ pc'[p] = "idle" /\ enabled' = enabled
        BY <1>0, <2>8 DEF Swap, Goto, TypeOK
      <3> QED
        BY <1>1, <2>1, <3>1 DEF Detached
    <2> QED
      BY <1>4, <2>2, <2>4, <2>5, <2>6, <2>7, <2>8
  <1>5. ASSUME NEW p \in Closers,
               CloseBegin(p) \/ CloseLock(p) \/ TakeNothing(p) \/ Take(p) \/ CloseFile(p)
        PROVE  OneReopen'
    <2>1. \A q \in Reopeners : pc'[q] = pc[q]
      BY <1>0, <1>5, OthersUntouched
    <2>2. CASE Take(p)
      <3>1. file # Nil /\ file' = Nil /\ enabled' = FALSE
        BY <2>2 DEF Take
      <3> QED
        BY <1>1, <2>1, <3>1
    <2>3. CASE CloseBegin(p) \/ CloseLock(p) \/ TakeNothing(p) \/ CloseFile(p)
      BY <1>2, <2>1, <2>3 DEF CloseBegin, CloseLock, TakeNothing, CloseFile, Lock, state
    <2> QED
      BY <1>5, <2>2, <2>3
  <1>6. CASE Rotate \/ UNCHANGED vars
    BY <1>2, <1>6 DEF Rotate, vars, state
  <1> QED
    BY <1>3, <1>4, <1>5, <1>6, StepCases
\* Only a Reopen that swaps while another file is in a.file could lose a handle.
LEMMA NextNoLeak ==
  ASSUME TypeOK, HandleInv, OneReopen, NoLeak, [Next]_vars
  PROVE  NoLeak'
  <1> USE DEF NoLeak
  <1>0. Reopeners \subseteq Procs /\ Closers \subseteq Procs /\ Nil \notin open
    BY DEF Procs, TypeOK, Handles, Nil
  <1>1. CASE UNCHANGED <<open, file, held>>
    BY <1>1
  <1>2. ASSUME NEW p \in Procs, held[p] = Nil, UNCHANGED open, held'[p] = file, file' = Nil,
               \A q \in Procs : q # p => held'[q] = held[q]
        PROVE  NoLeak'
    BY <1>2
  <1>3. ASSUME NEW p \in Procs, file' = file, open' = open \ {held[p]},
               \A q \in Procs : q # p => held'[q] = held[q]
        PROVE  NoLeak'
    BY <1>3
  <1>4. ASSUME NEW p \in Reopeners, Detach(p) PROVE NoLeak'
    <2>1. /\ pc[p] = "detach" /\ UNCHANGED open
          /\ \/ held' = [held EXCEPT ![p] = file] /\ file' = Nil
             \/ UNCHANGED <<file, held>>
      BY <1>4 DEF Detach, files
    <2>2. held[p] = Nil
      BY <1>0, <2>1 DEF HandleInv, Holding
    <2> QED
      BY <1>0, <1>1, <1>2, <2>1, <2>2 DEF TypeOK
  <1>5. ASSUME NEW p \in Closers, Take(p) PROVE NoLeak'
    <2>1. /\ pc[p] = "take" /\ UNCHANGED open
          /\ held' = [held EXCEPT ![p] = file] /\ file' = Nil
      BY <1>5 DEF Take, files
    <2>2. held[p] = Nil
      BY <1>0, <2>1 DEF HandleInv, Holding
    <2> QED
      BY <1>0, <1>2, <2>1, <2>2 DEF TypeOK
  <1>6. ASSUME NEW p \in Procs, CloseOld(p) \/ CloseOldFails(p) \/ CloseFile(p) PROVE NoLeak'
    BY <1>3, <1>6 DEF CloseOld, CloseOldFails, CloseFile, state, TypeOK
  <1>7. ASSUME NEW p \in Reopeners, OpenNew(p) PROVE NoLeak'
    <2>1. /\ pc[p] = "open" /\ file' = file /\ open' = open \cup {opened'}
          /\ held' = [held EXCEPT ![p] = opened']
      BY <1>7 DEF OpenNew, state
    <2>2. held[p] = Nil
      BY <1>0, <2>1 DEF HandleInv, Holding
    <2> QED
      BY <1>0, <2>1, <2>2 DEF TypeOK
  <1>8. ASSUME NEW p \in Reopeners, Swap(p) PROVE NoLeak'
    <2>1. /\ pc[p] = "swapping" /\ file' = held[p] /\ UNCHANGED open
          /\ held' = [held EXCEPT ![p] = Nil]
      BY <1>8 DEF Swap, files
    <2>2. file = Nil
      BY <2>1 DEF OneReopen, Detached
    <2> QED
      BY <1>0, <2>1, <2>2 DEF TypeOK
  <1> QED
    BY <1>0, <1>1, <1>4, <1>5, <1>6, <1>7, <1>8, StepCases
    DEF vars, state, files, history, Lock, LogBegin, LogLock, LogNoFile, LogHasFile, LogWrite,
        ReopenBegin, ReopenLock, OpenFails, DisableLock, Disable, SwapLock, CloseBegin, CloseLock,
        TakeNothing, Rotate

\* The handle a Reopen brings back is of the newest file asked for, and nobody
\* else can raise what was asked for meanwhile.
LEMMA NextRenewed ==
  ASSUME TypeOK, HandleInv, RotationInv, OneReopen, Renewed, [Next]_vars, ~overlap'
  PROVE  Renewed'
  <1> USE DEF Renewed
  <1>0. /\ Reopeners \subseteq Procs /\ Closers \subseteq Procs /\ Loggers \subseteq Procs
        /\ atPath \in Nat /\ fresh \in Nat /\ \A p \in Procs : asked[p] \in Nat
    BY DEF Procs, TypeOK
  <1>1. ASSUME UNCHANGED <<inode, fresh>>, file' \in {file, Nil},
               \A q \in Reopeners : pc'[q] \in {"swap", "swapping"} =>
                 pc[q] \in {"swap", "swapping"} /\ held'[q] = held[q] /\ asked'[q] = asked[q]
        PROVE  Renewed'
    BY <1>1
  <1>2. ASSUME NEW p \in Loggers,
               LogBegin(p) \/ LogLock(p) \/ LogNoFile(p) \/ LogHasFile(p) \/ LogWrite(p)
        PROVE  Renewed'
    BY <1>1, <1>2, LogReopens
  <1>3. ASSUME NEW p \in Closers,
               CloseBegin(p) \/ CloseLock(p) \/ TakeNothing(p) \/ Take(p) \/ CloseFile(p)
        PROVE  Renewed'
    <2>1. \A q \in Reopeners : pc'[q] = pc[q] /\ held'[q] = held[q] /\ asked'[q] = asked[q]
      BY <1>0, <1>3, OthersUntouched
    <2>2. UNCHANGED <<inode, fresh>> /\ file' \in {file, Nil}
      BY <1>3 DEF CloseBegin, CloseLock, TakeNothing, Take, CloseFile, Lock, state, files, history
    <2> QED
      BY <1>1, <2>1, <2>2
  <1>4. ASSUME NEW p \in Reopeners,
               \/ ReopenBegin(p) \/ ReopenLock(p) \/ Detach(p) \/ CloseOld(p)
               \/ CloseOldFails(p) \/ OpenFails(p) \/ DisableLock(p)
               \/ Disable(p) \/ SwapLock(p)
        PROVE  Renewed'
    <2>1. \A q \in Reopeners : q # p => pc'[q] = pc[q] /\ held'[q] = held[q] /\ asked'[q] = asked[q]
      BY <1>0, <1>4, OthersUntouched
    <2>2. UNCHANGED <<inode, fresh>> /\ file' \in {file, Nil}
      BY <1>4
      DEF ReopenBegin, ReopenLock, Detach, CloseOld, CloseOldFails, OpenFails, DisableLock,
          Disable, SwapLock, Lock, state, files, history
    <2>3. pc'[p] \in {"swap", "swapping"} =>
            pc[p] \in {"swap", "swapping"} /\ held'[p] = held[p] /\ asked'[p] = asked[p]
      BY <1>0, <1>4
      DEF ReopenBegin, ReopenLock, Detach, CloseOld, CloseOldFails, OpenFails, DisableLock,
          Disable, SwapLock, Lock, Goto, TypeOK, history
    <2> QED
      BY <1>1, <2>1, <2>2, <2>3
  <1>5. ASSUME NEW p \in Reopeners, OpenNew(p) PROVE Renewed'
    <2>1. /\ pc[p] = "open" /\ UNCHANGED <<file, fresh, asked>> /\ opened' = opened + 1
          /\ inode' = [inode EXCEPT ![opened'] = atPath] /\ held'[p] = opened'
      BY <1>0, <1>5 DEF OpenNew, state, history, TypeOK
    <2>2. opened' \in Handles /\ file = Nil /\ \A q \in Reopeners : q # p => pc[q] = "idle"
      <3>1. opened < MaxHandles /\ opened \in Handles /\ pc[p] \in Detached
        BY <1>5, <2>1 DEF OpenNew, Detached, TypeOK
      <3>2. opened' \in Handles
        BY <2>1, <3>1, NextHandle
      <3> QED
        BY <2>1, <3>1, <3>2 DEF OneReopen
    <2>3. \A q \in Reopeners : q # p => pc'[q] = "idle"
      BY <1>0, <1>5, <2>2, OthersUntouched
    <2>4. inode'[held'[p]] = atPath
      BY <2>1, <2>2 DEF TypeOK
    <2> QED
      BY <1>0, <2>1, <2>2, <2>3, <2>4 DEF RotationInv
  <1>6. ASSUME NEW p \in Reopeners, Swap(p) PROVE Renewed'
    <2>1. /\ pc[p] = "swapping" /\ pc'[p] = "idle" /\ UNCHANGED <<inode, asked>>
          /\ file' = held[p] /\ fresh' \in {asked[p], fresh}
      BY <1>0, <1>6 DEF Swap, files, Goto, TypeOK
    <2>2. \A q \in Reopeners : q # p => pc'[q] = "idle"
      BY <1>0, <1>6, <2>1, OthersUntouched DEF OneReopen
    <2> QED
      BY <2>1, <2>2
  <1>7. CASE Rotate \/ UNCHANGED vars
    BY <1>7 DEF Rotate, vars, state, files, history
  <1> QED
    BY <1>2, <1>3, <1>4, <1>5, <1>6, <1>7, StepCases

\* Close either disables the log or is recorded as having missed the file.
LEMMA NextQuiet == TypeOK /\ QuietInv /\ [Next]_vars => QuietInv'
  <1> SUFFICES ASSUME TypeOK, QuietInv, [Next]_vars PROVE QuietInv'
    OBVIOUS
  <1> USE DEF QuietInv
  <1>0. Reopeners \subseteq Procs /\ Closers \subseteq Procs /\ Loggers \subseteq Procs
    BY DEF Procs
  <1>1. ASSUME UNCHANGED <<closed, missed, late>>, enabled' => enabled,
               \A q \in Closers : pc'[q] = "close file" => pc[q] = "close file"
        PROVE  QuietInv'
    BY <1>1
  <1>2. ASSUME NEW p \in Loggers,
               LogBegin(p) \/ LogLock(p) \/ LogNoFile(p) \/ LogHasFile(p) \/ LogWrite(p)
        PROVE  QuietInv'
    <2>1. \A q \in Closers : pc'[q] = pc[q]
      BY <1>0, <1>2, OthersUntouched
    <2>2. /\ UNCHANGED <<enabled, closed, missed>>
          /\ closed \/ late' \subseteq late
      BY <1>2 DEF LogBegin, LogLock, LogNoFile, LogHasFile, LogWrite, Lock, state, history
    <2> QED
      BY <2>1, <2>2
  <1>3. ASSUME NEW p \in Reopeners,
               \/ ReopenBegin(p) \/ ReopenLock(p) \/ Detach(p) \/ CloseOld(p)
               \/ CloseOldFails(p) \/ OpenNew(p) \/ OpenFails(p) \/ DisableLock(p)
               \/ Disable(p) \/ SwapLock(p) \/ Swap(p)
        PROVE  QuietInv'
    <2>1. \A q \in Closers : pc'[q] = pc[q]
      BY <1>0, <1>3, OthersUntouched
    <2>2. UNCHANGED <<closed, missed, late>>
      BY <1>3
      DEF ReopenBegin, ReopenLock, Detach, CloseOld, CloseOldFails, OpenNew, OpenFails, DisableLock,
          Disable, SwapLock, Swap, Lock, history
    <2>3. enabled' = enabled \/ enabled' = FALSE
      BY <1>3
      DEF ReopenBegin, ReopenLock, Detach, CloseOld, CloseOldFails, OpenNew, OpenFails, DisableLock,
          Disable, SwapLock, Swap, Lock, state
    <2> QED
      BY <1>1, <2>1, <2>2, <2>3
  <1>4. ASSUME NEW p \in Closers,
               CloseBegin(p) \/ CloseLock(p) \/ TakeNothing(p) \/ Take(p) \/ CloseFile(p)
        PROVE  QuietInv'
    <2>1. \A q \in Closers : q # p => pc'[q] = pc[q]
      BY <1>0, <1>4, OthersUntouched
    <2>2. CASE CloseBegin(p) \/ CloseLock(p)
      <3>1. pc'[p] # "close file" /\ UNCHANGED <<enabled, closed, missed, late>>
        BY <1>0, <2>2 DEF CloseBegin, CloseLock, Lock, Goto, TypeOK, state, history
      <3> QED
        BY <1>1, <2>1, <3>1
    <2>3. CASE TakeNothing(p)
      <3>1. pc'[p] = "idle" /\ UNCHANGED <<enabled, late>> /\ closed' = TRUE
        BY <1>0, <2>3 DEF TakeNothing, Goto, TypeOK
      <3>2. enabled => missed'
        BY <2>3 DEF TakeNothing
      <3> QED
        BY <2>1, <3>1, <3>2
    <2>4. CASE Take(p)
      <3>1. enabled' = FALSE /\ UNCHANGED <<closed, missed, late>>
        BY <2>4 DEF Take, history
      <3> QED
        BY <3>1
    <2>5. CASE CloseFile(p)
      <3>1. /\ pc[p] = "close file" /\ pc'[p] = "idle" /\ closed' = TRUE
            /\ UNCHANGED <<enabled, missed, late>>
        BY <1>0, <2>5 DEF CloseFile, Goto, TypeOK, state
      <3> QED
        BY <2>1, <3>1
    <2> QED
      BY <1>4, <2>2, <2>3, <2>4, <2>5
  <1>5. CASE Rotate \/ UNCHANGED vars
    <2>1. UNCHANGED <<enabled, closed, missed, late, pc>>
      BY <1>5 DEF Rotate, vars, state, history
    <2> QED
      BY <2>1
  <1> QED
    BY <1>2, <1>3, <1>4, <1>5, StepCases

-----------------------------------------------------------------------------
(* The theorems.                                                            *)

LEMMA InitAudit == Init => AuditInv
  <1> SUFFICES ASSUME Init PROVE AuditInv
    OBVIOUS
  <1>1. RotationInv /\ QuietInv
    BY DEF Init, RotationInv, QuietInv, Procs
  <1>2. ReopenInv
    <2>1. 1 \in Handles
      BY DEF Handles
    <2> QED
      BY <2>1 DEF Init, ReopenInv, Procs, Detached
  <1> QED
    BY <1>1, <1>2, InitTyped, InitHandles DEF AuditInv

LEMMA NextAudit == AuditInv /\ [Next]_vars => AuditInv'
  <1> SUFFICES ASSUME AuditInv, [Next]_vars PROVE AuditInv'
    OBVIOUS
  <1>1. TypeOK' /\ HandleInv' /\ RotationInv' /\ QuietInv'
    BY NextTyped, NextHandles, NextRotation, NextQuiet DEF AuditInv
  <1>2. ASSUME ~overlap' PROVE OneReopen' /\ NoLeak' /\ Renewed'
    <2>1. OneReopen /\ NoLeak /\ Renewed
      BY <1>2, OverlapStays, ReopenInvParts DEF AuditInv
    <2> QED
      BY <1>2, <2>1, NextOneReopen, NextNoLeak, NextRenewed DEF AuditInv
  <1>3. ReopenInv'
    BY <1>2 DEF ReopenInv, OneReopen, NoLeak, Renewed
  <1> QED
    BY <1>1, <1>3 DEF AuditInv

LEMMA AuditInvAlways == Spec => []AuditInv
  BY InitAudit, NextAudit, PTL DEF Spec

\* Rotation leaks no file descriptor, for any number of Reopens that do not overlap,
\* whatever Log and Close do in between and whichever of its calls fail.
THEOREM NoHandleLeaksAlways == Spec => []NoHandleLeaks
  <1>1. AuditInv => NoHandleLeaks
    BY DEF AuditInv, ReopenInv, NoHandleLeaks
  <1> QED
    BY <1>1, AuditInvAlways, PTL

\* Once a Reopen returned nil, no line goes to a file older than the one it was
\* asked for, unless Reopens overlapped.
THEOREM FollowsRotationAlways == Spec => []FollowsRotation
  <1>1. AuditInv => FollowsRotation
    BY DEF AuditInv, ReopenInv, HandleInv, FollowsRotation
  <1> QED
    BY <1>1, AuditInvAlways, PTL

\* A Close that found the file silences the log for good, stale reads of
\* a.enabled and later Reopens included, unless Reopens overlapped.
THEOREM QuietUnlessMissedAlways == Spec => []QuietUnlessMissed
  <1>1. AuditInv => QuietUnlessMissed
    <2> SUFFICES ASSUME AuditInv, ~missed, ~overlap, NEW p \in late PROVE pc[p] # "write"
      BY DEF QuietUnlessMissed, QuietAfterClose
    <2>1. ~enabled /\ p \in Loggers
      BY DEF AuditInv, QuietInv, TypeOK
    <2>2. file = Nil
      BY <2>1 DEF AuditInv, ReopenInv
    <2> QED
      BY <2>1, <2>2 DEF AuditInv, HandleInv
  <1> QED
    BY <1>1, AuditInvAlways, PTL
=============================================================================
