------------------------------ MODULE DropZone ------------------------------
(***************************************************************************)
(* What a dropper directory promises its users, without saying how: every  *)
(* call (an upload or a new-folder request) puts at most one entry on the  *)
(* shelf, under a name nothing had, and is answered "stored" only when its *)
(* entry is there.  Nothing is ever replaced or taken away.  A call whose  *)
(* process dies is never answered: its entry may or may not be there.      *)
(*                                                                         *)
(* SafeWrite implements this module where hard links work.                 *)
(***************************************************************************)
CONSTANTS Calls,     \* the requests that may put an entry in the directory
          Names,     \* the names an entry can have
          Nothing    \* what a free name holds: no call

VARIABLES shelf,     \* Names -> the call whose entry has the name, or Nothing
          outcome    \* Calls -> what the caller has been told

shelfVars == <<shelf, outcome>>

OnShelf(c) == \E n \in Names : shelf[n] = c

Init == /\ shelf = [n \in Names |-> Nothing]
        /\ outcome = [c \in Calls |-> "pending"]

\* A call's only entry appears, whole, under a free name.
Put(c, n) == /\ outcome[c] = "pending"
             /\ ~OnShelf(c)
             /\ shelf[n] = Nothing
             /\ shelf' = [shelf EXCEPT ![n] = c]
             /\ UNCHANGED outcome

Store(c) == /\ outcome[c] = "pending"
            /\ OnShelf(c)
            /\ outcome' = [outcome EXCEPT ![c] = "stored"]
            /\ UNCHANGED shelf

Refuse(c) == /\ outcome[c] = "pending"
             /\ ~OnShelf(c)
             /\ outcome' = [outcome EXCEPT ![c] = "refused"]
             /\ UNCHANGED shelf

\* The server dies: some of the pending calls are never answered.
Lose == \E C \in SUBSET {c \in Calls : outcome[c] = "pending"} :
          /\ outcome' = [c \in Calls |-> IF c \in C THEN "lost" ELSE outcome[c]]
          /\ UNCHANGED shelf

Next == \/ \E c \in Calls : \/ \E n \in Names : Put(c, n)
                            \/ Store(c)
                            \/ Refuse(c)
        \/ Lose

Spec == Init /\ [][Next]_shelfVars
=============================================================================
