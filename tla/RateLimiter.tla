----------------------------- MODULE RateLimiter -----------------------------
(***************************************************************************)
(* internal/dropper.ratelimit.go: the per-address sliding window in front  *)
(* of POST /login.  Allow runs under the mutex from beginning to end and   *)
(* reads the clock inside it, so one call is one step.  A time.Time in the *)
(* window is an attempt's number and the time it was made: the code only   *)
(* ever compares the entries with the cutoff and counts them.              *)
(***************************************************************************)
EXTENDS Integers, FiniteSets

CONSTANTS Addrs,     \* client addresses
          Limit,     \* rate_limit_login
          Window,    \* RateLimitWindow
          MaxTime,   \* bound: how far the clock goes
          MaxCalls   \* bound: calls of Allow

ASSUME LimitAssumption == Limit \in Nat \ {0} /\ Window \in Nat \ {0}
ASSUME BoundAssumption == MaxTime \in Nat /\ MaxCalls \in Nat

Entry == [call : 1 .. MaxCalls, at : 0 .. MaxTime]

VARIABLES windows,   \* rl.windows: a set of entries for each address, {} without a key
          clock,     \* time.Now()
          calls,     \* history: how many calls there have been
          granted,   \* history: each address's allowed calls
          answer     \* the last call's address, time and answer

vars == <<windows, clock, calls, granted, answer>>

Init == /\ windows = [a \in Addrs |-> {}]
        /\ clock = 0 /\ calls = 0
        /\ granted = [a \in Addrs |-> {}]
        /\ answer = [allowed |-> TRUE, recent |-> 0]

\* The calls an address was allowed during the window that ends now.
Recent(a) == {g \in granted[a] : g.at > clock - Window}

\* Slip: an entry exactly one window old still counts.
ValidLonger(a) == {e \in windows[a] : e.at >= clock - Window}

\* The entries that have not fallen out of the window.
Valid(a) == {e \in windows[a] : e.at > clock - Window}

Deny(a) ==
  /\ Cardinality(Valid(a)) >= Limit
  /\ windows' = [windows EXCEPT ![a] = Valid(a)]
  /\ answer' = [allowed |-> FALSE, recent |-> Cardinality(Recent(a))]
  /\ UNCHANGED granted

\* Slip: the limit is off by one.
GrantOneMore(a) ==
  LET e == [call |-> calls + 1, at |-> clock] IN
  /\ Cardinality(Valid(a)) <= Limit
  /\ windows' = [windows EXCEPT ![a] = Valid(a) \cup {e}]
  /\ granted' = [granted EXCEPT ![a] = @ \cup {e}]
  /\ answer' = [allowed |-> TRUE, recent |-> Cardinality(Recent(a))]

Grant(a) ==
  LET e == [call |-> calls + 1, at |-> clock] IN
  /\ Cardinality(Valid(a)) < Limit
  /\ windows' = [windows EXCEPT ![a] = Valid(a) \cup {e}]
  /\ granted' = [granted EXCEPT ![a] = @ \cup {e}]
  /\ answer' = [allowed |-> TRUE, recent |-> Cardinality(Recent(a))]

Allow(a) == /\ calls < MaxCalls /\ calls' = calls + 1
            /\ Deny(a) \/ Grant(a)
            /\ UNCHANGED clock

Tick == clock < MaxTime /\ clock' = clock + 1
        /\ UNCHANGED <<windows, calls, granted, answer>>

Next == Tick \/ \E a \in Addrs : Allow(a)

Spec == Init /\ [][Next]_vars

-----------------------------------------------------------------------------
\* Every variable stays in its domain.
TypeOK == /\ windows \in [Addrs -> SUBSET Entry]
          /\ clock \in 0 .. MaxTime /\ calls \in 0 .. MaxCalls
          /\ granted \in [Addrs -> SUBSET Entry]
          /\ answer.allowed \in BOOLEAN /\ answer.recent \in Nat

\* However calls and time interleave, no address is allowed more than Limit
\* calls in any window: at every moment, the window that ends then.
SlidingLimit == \A a \in Addrs : Cardinality(Recent(a)) <= Limit

\* A call is refused only when Limit calls of its address really were allowed
\* in the window that ends with it, and refused calls do not count.
DenialJustified == ~answer.allowed => answer.recent >= Limit
=============================================================================
