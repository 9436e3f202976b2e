------------------------------ MODULE AuditLog ------------------------------
(***************************************************************************)
(* internal/dropper.audit.go: an AuditLogger shared by the goroutines that *)
(* call Log, Reopen and Close.  What happens under the mutex is separated  *)
(* from the file I/O that Reopen and Close do outside it; the write inside *)
(* Log is a step of its own, with the mutex held.                          *)
(*                                                                         *)
(* The log path names an inode; an external rotation tool renames the file *)
(* away, and the next open creates a new one.  Inodes are numbered in the  *)
(* order they appear at the path, handles in the order they are opened.    *)
(***************************************************************************)
EXTENDS Naturals, FiniteSets

CONSTANTS Loggers, Reopeners, Closers,  \* the goroutines that make each kind of call
          MaxHandles,                   \* bound: handles ever opened
          MaxRotations                  \* bound: times the file is renamed away

Procs   == Loggers \cup Reopeners \cup Closers
Nil     == 0
Free    == "free"
Handles == 1 .. MaxHandles

ASSUME ProcsAssumption == /\ Free \notin Procs
                          /\ Loggers \cap Reopeners = {}
                          /\ Loggers \cap Closers = {} /\ Reopeners \cap Closers = {}
ASSUME BoundAssumption == MaxHandles \in Nat \ {0} /\ MaxRotations \in Nat

VARIABLES
  enabled,   \* a.enabled
  file,      \* a.file, or Nil
  mu,        \* who holds a.mu, or Free
  open,      \* the handles that are open
  opened,    \* how many handles have been opened
  inode,     \* handle -> the inode it writes to
  atPath,    \* the inode the path names
  pc,
  held,      \* Reopen and Close: the handle taken out of, or for, a.file
  closed,    \* history: a Close has returned
  late,      \* history: the Log calls that began after a Close had returned
  missed,    \* history: a Close returned while a Reopen had the file out
  asked,     \* history: the inode at the path when a Reopen began
  fresh,     \* history: the newest inode a Reopen that returned nil was asked for
  overlap    \* history: two Reopens have been under way at once

state   == <<enabled, file, mu>>
files   == <<open, opened, inode, atPath>>
history == <<closed, late, missed, asked, fresh, overlap>>
vars    == <<state, files, pc, held, history>>

\* NewAuditLogger with a path: the file is opened and the logger enabled.
Init == /\ enabled = TRUE /\ file = 1 /\ mu = Free
        /\ open = {1} /\ opened = 1
        /\ inode = [h \in Handles |-> 0] /\ atPath = 0
        /\ pc = [p \in Procs |-> "idle"]
        /\ held = [p \in Procs |-> Nil]
        /\ closed = FALSE /\ late = {} /\ missed = FALSE
        /\ asked = [p \in Procs |-> 0] /\ fresh = 0 /\ overlap = FALSE

Goto(p, l) == pc' = [pc EXCEPT ![p] = l]

\* a.mu.Lock() before step "to".
Lock(p, from, to) == /\ pc[p] = from /\ mu = Free
                     /\ mu' = p /\ Goto(p, to)
                     /\ UNCHANGED <<enabled, file, files, held, history>>

-----------------------------------------------------------------------------
(* Log.                                                                     *)

\* The read of a.enabled is outside the mutex and may be stale: it may still
\* see the TRUE that Close or a failed Reopen has just cleared.
LogBegin(p) ==
  /\ pc[p] = "idle"
  /\ late' = IF closed THEN late \cup {p} ELSE late \ {p}
  /\ \/ enabled /\ Goto(p, "log")
     \/ ~enabled /\ pc' \in {pc, [pc EXCEPT ![p] = "log"]}
  /\ UNCHANGED <<state, files, held, closed, missed, asked, fresh, overlap>>

LogLock(p) == Lock(p, "log", "log check")

\* Slip: the early return without the unlock.
LogNoFileLocked(p) ==
  /\ pc[p] = "log check" /\ file = Nil
  /\ Goto(p, "idle")
  /\ UNCHANGED <<state, files, held, history>>

LogNoFile(p) ==
  /\ pc[p] = "log check" /\ file = Nil
  /\ mu' = Free /\ Goto(p, "idle")
  /\ UNCHANGED <<enabled, file, files, held, history>>

LogHasFile(p) ==
  /\ pc[p] = "log check" /\ file # Nil
  /\ Goto(p, "write")
  /\ UNCHANGED <<state, files, held, history>>

\* a.file.Write(data), successful or not, then the unlock.
LogWrite(p) ==
  /\ pc[p] = "write"
  /\ mu' = Free /\ Goto(p, "idle")
  /\ UNCHANGED <<enabled, file, files, held, history>>

-----------------------------------------------------------------------------
(* Reopen.                                                                  *)

ReopenBegin(p) ==
  /\ pc[p] = "idle" /\ opened < MaxHandles
  /\ asked' = [asked EXCEPT ![p] = atPath]
  /\ overlap' = (overlap \/ \E q \in Reopeners : pc[q] # "idle")
  /\ Goto(p, "reopen")
  /\ UNCHANGED <<state, files, held, closed, late, missed, fresh>>

ReopenLock(p) == Lock(p, "reopen", "detach")

\* Slip: a.file still names the handle that is about to be closed.
DetachKeepsFile(p) ==
  /\ pc[p] = "detach"
  /\ mu' = Free
  /\ IF enabled
     THEN held' = [held EXCEPT ![p] = file] /\ Goto(p, "close old")
     ELSE Goto(p, "idle") /\ UNCHANGED held
  /\ UNCHANGED <<enabled, file, files, history>>

\* Under the mutex: nothing to do when disabled, else take the handle out.
Detach(p) ==
  /\ pc[p] = "detach"
  /\ mu' = Free
  /\ IF enabled
     THEN held' = [held EXCEPT ![p] = file] /\ file' = Nil /\ Goto(p, "close old")
     ELSE Goto(p, "idle") /\ UNCHANGED <<file, held>>
  /\ UNCHANGED <<enabled, files, history>>

\* Slip: the old handle is dropped without being closed.
CloseOldForgotten(p) ==
  /\ pc[p] = "close old"
  /\ held' = [held EXCEPT ![p] = Nil]
  /\ Goto(p, "open")
  /\ UNCHANGED <<state, files, history>>

\* oldFile.Close(); its error makes Reopen return with a.file still nil.
CloseOld(p) ==
  /\ pc[p] = "close old"
  /\ open' = open \ {held[p]}
  /\ held' = [held EXCEPT ![p] = Nil]
  /\ Goto(p, "open")
  /\ UNCHANGED <<state, opened, inode, atPath, history>>

CloseOldFails(p) ==
  /\ pc[p] = "close old" /\ held[p] # Nil
  /\ open' = open \ {held[p]}
  /\ held' = [held EXCEPT ![p] = Nil]
  /\ Goto(p, "idle")
  /\ UNCHANGED <<state, opened, inode, atPath, history>>

OpenNew(p) ==
  /\ pc[p] = "open" /\ opened < MaxHandles
  /\ opened' = opened + 1
  /\ open' = open \cup {opened'}
  /\ inode' = [inode EXCEPT ![opened'] = atPath]
  /\ held' = [held EXCEPT ![p] = opened']
  /\ Goto(p, "swap")
  /\ UNCHANGED <<state, atPath, history>>

\* Slip: a failed open falls back to the old file and reports success.
OpenFailsFallsBack(p) ==
  /\ pc[p] = "open"
  /\ file' = opened /\ open' = open \cup {opened}
  /\ fresh' = IF asked[p] > fresh THEN asked[p] ELSE fresh
  /\ Goto(p, "idle")
  /\ UNCHANGED <<enabled, mu, opened, inode, atPath, held, closed, late, missed, asked, overlap>>

\* Slip: a failed open starts over.
OpenFailsRetries(p) ==
  /\ pc[p] = "open"
  /\ Goto(p, "close old")
  /\ UNCHANGED <<state, files, held, history>>

OpenFails(p) ==
  /\ pc[p] = "open"
  /\ Goto(p, "disable")
  /\ UNCHANGED <<state, files, held, history>>

DisableLock(p) == Lock(p, "disable", "disabling")

Disable(p) ==
  /\ pc[p] = "disabling"
  /\ enabled' = FALSE /\ mu' = Free /\ Goto(p, "idle")
  /\ UNCHANGED <<file, files, held, history>>

SwapLock(p) == Lock(p, "swap", "swapping")

\* a.file = f, then Reopen returns nil.
Swap(p) ==
  /\ pc[p] = "swapping"
  /\ file' = held[p] /\ mu' = Free
  /\ held' = [held EXCEPT ![p] = Nil]
  /\ fresh' = IF asked[p] > fresh THEN asked[p] ELSE fresh
  /\ Goto(p, "idle")
  /\ UNCHANGED <<enabled, files, closed, late, missed, asked, overlap>>

-----------------------------------------------------------------------------
(* Close.                                                                   *)

CloseBegin(p) ==
  /\ pc[p] = "idle" /\ Goto(p, "close")
  /\ UNCHANGED <<state, files, held, history>>

CloseLock(p) == Lock(p, "close", "take")

\* Under the mutex: disabled or without a file, Close returns at once.
TakeNothing(p) ==
  /\ pc[p] = "take" /\ (~enabled \/ file = Nil)
  /\ mu' = Free /\ closed' = TRUE /\ Goto(p, "idle")
  /\ missed' = (missed \/ enabled)
  /\ UNCHANGED <<enabled, file, files, held, late, asked, fresh, overlap>>

\* Slip: Close relies on a.enabled alone, which Log reads without the mutex.
TakeKeepsFile(p) ==
  /\ pc[p] = "take" /\ enabled /\ file # Nil
  /\ enabled' = FALSE /\ mu' = Free
  /\ held' = [held EXCEPT ![p] = file]
  /\ Goto(p, "close file")
  /\ UNCHANGED <<file, files, history>>

Take(p) ==
  /\ pc[p] = "take" /\ enabled /\ file # Nil
  /\ enabled' = FALSE /\ file' = Nil /\ mu' = Free
  /\ held' = [held EXCEPT ![p] = file]
  /\ Goto(p, "close file")
  /\ UNCHANGED <<files, history>>

CloseFile(p) ==
  /\ pc[p] = "close file"
  /\ open' = open \ {held[p]}
  /\ held' = [held EXCEPT ![p] = Nil]
  /\ closed' = TRUE /\ Goto(p, "idle")
  /\ UNCHANGED <<state, opened, inode, atPath, late, missed, asked, fresh, overlap>>

-----------------------------------------------------------------------------
\* The rotation tool renames the log file away.
Rotate == /\ atPath < MaxRotations /\ atPath' = atPath + 1
          /\ UNCHANGED <<state, open, opened, inode, pc, held, history>>

LogReturns(p)    == LogNoFile(p) \/ LogHasFile(p) \/ LogWrite(p)
ReopenMoves(p)   == \/ Detach(p) \/ CloseOld(p) \/ CloseOldFails(p) \/ OpenNew(p) \/ OpenFails(p)
                    \/ Disable(p) \/ Swap(p)
CloseMoves(p)    == TakeNothing(p) \/ Take(p) \/ CloseFile(p)
Locks(p)         == \/ p \in Loggers /\ LogLock(p)
                    \/ p \in Reopeners /\ (ReopenLock(p) \/ DisableLock(p) \/ SwapLock(p))
                    \/ p \in Closers /\ CloseLock(p)
Moves(p)         == \/ p \in Loggers /\ LogReturns(p)
                    \/ p \in Reopeners /\ ReopenMoves(p)
                    \/ p \in Closers /\ CloseMoves(p)
Begins(p)        == \/ p \in Loggers /\ LogBegin(p)
                    \/ p \in Reopeners /\ ReopenBegin(p)
                    \/ p \in Closers /\ CloseBegin(p)

Next == \/ \E p \in Procs : Begins(p) \/ Locks(p) \/ Moves(p)
        \/ Rotate

Spec == Init /\ [][Next]_vars

\* A goroutine keeps running, and sync.Mutex lets no waiter starve (its
\* starvation mode hands the mutex to the longest waiter).
FairSpec == Spec /\ \A p \in Procs : WF_vars(Moves(p)) /\ SF_vars(Locks(p))

-----------------------------------------------------------------------------
Labels == {"idle", "log", "log check", "write", "reopen", "detach", "close old", "open",
           "disable", "disabling", "swap", "swapping", "close", "take", "close file"}

\* The steps with the mutex held.
Sections == {"log check", "write", "detach", "disabling", "swapping", "take"}

\* Every variable stays in its domain, and the mutex belongs to whoever is in a
\* section under it.
TypeOK == /\ enabled \in BOOLEAN /\ file \in Handles \cup {Nil} /\ mu \in Procs \cup {Free}
          /\ open \subseteq Handles /\ opened \in Handles
          /\ inode \in [Handles -> 0 .. MaxRotations] /\ atPath \in 0 .. MaxRotations
          /\ pc \in [Procs -> Labels] /\ held \in [Procs -> Handles \cup {Nil}]
          /\ closed \in BOOLEAN /\ missed \in BOOLEAN /\ overlap \in BOOLEAN /\ late \subseteq Loggers
          /\ asked \in [Procs -> 0 .. MaxRotations] /\ fresh \in 0 .. MaxRotations
          /\ \A p \in Procs : mu = p <=> pc[p] \in Sections

\* A line is only ever written to an open file: Reopen and Close close a handle
\* outside the mutex, but after no Log can reach it, even when Reopens overlap.
WritesToOpenFile == \A p \in Loggers : pc[p] = "write" => file \in open

\* Every open handle is the logger's or is in the hands of a Reopen or Close
\* that has yet to finish with it: rotation leaks no file descriptor, unless two
\* Reopens overlap (each opens a file, and the second swap drops the first).
NoHandleLeaks == ~overlap => \A h \in open : h = file \/ \E p \in Procs : held[p] = h

\* A Log call that began after a Close returned writes nothing ("After Close
\* returns, all subsequent Log calls are no-ops").
QuietAfterClose == \A p \in late : pc[p] # "write"

\* What the code keeps of that promise: a Close silences the log for good, even
\* for a Log that still sees a stale a.enabled, unless a Reopen had the file out
\* of a.file when Close looked for it, or two Reopens overlapped.
QuietUnlessMissed == ~missed /\ ~overlap => QuietAfterClose

\* After a Reopen that began when the log had been rotated to some file returned
\* nil, no line goes to an older file (Reopen's purpose: log rotation), unless
\* two Reopens overlap (the one that opened first may swap last).
FollowsRotation == ~overlap => \A p \in Loggers : pc[p] = "write" => inode[file] >= fresh

\* Every call returns: the mutex is released on every path.
CallsReturn == \A p \in Procs : pc[p] # "idle" ~> pc[p] = "idle"
=============================================================================
