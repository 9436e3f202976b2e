-------------------------- MODULE RateLimiterProof --------------------------
(* Theorems about RateLimiter, for any addresses, limit, window, and any     *)
(* number of calls and ticks.                                                *)
EXTENDS RateLimiter, FiniteSetTheorems, TLAPS

USE LimitAssumption, BoundAssumption

(* The strengthening: the entries kept for an address are calls it was       *)
(* allowed, and no allowed call is dropped before it falls out of the window. *)
Kept(a) == /\ windows[a] \subseteq granted[a]
           /\ Recent(a) \subseteq windows[a]

WindowInv == /\ TypeOK
             /\ \A a \in Addrs : Kept(a)
             /\ SlidingLimit
             /\ DenialJustified

\* Sets of entries are finite, so counting them makes sense.
LEMMA EntriesFinite ==
  ASSUME NEW S \in SUBSET Entry
  PROVE  IsFiniteSet(S) /\ Cardinality(S) \in Nat
  <1> DEFINE Pairs == (1 .. MaxCalls) \X (0 .. MaxTime)
             f == [p \in Pairs |-> [call |-> p[1], at |-> p[2]]]
  <1>1. IsFiniteSet(Pairs)
    <2>1. IsFiniteSet(1 .. MaxCalls) /\ IsFiniteSet(0 .. MaxTime)
      BY FS_Interval
    <2> QED
      BY <2>1, FS_Product
  <1>2. f \in Surjection(Pairs, Entry)
    <2>1. f \in [Pairs -> Entry]
      BY DEF Entry
    <2>2. ASSUME NEW e \in Entry PROVE \E p \in Pairs : f[p] = e
      <3>1. <<e.call, e.at>> \in Pairs
        BY DEF Entry
      <3>2. f[<<e.call, e.at>>] = e
        BY <3>1 DEF Entry
      <3> QED
        BY <3>1, <3>2
    <2> QED
      BY <2>1, <2>2 DEF Surjection
  <1>3. IsFiniteSet(Entry)
    BY <1>1, <1>2, FS_Surjection
  <1> QED
    BY <1>3, FS_Subset, FS_CardinalityType

\* What is kept and still valid is exactly what was allowed in the window.
LEMMA ValidIsRecent ==
  ASSUME NEW a \in Addrs, Kept(a)
  PROVE  Valid(a) = Recent(a)
  BY DEF Kept, Valid, Recent

LEMMA InitWindow == Init => WindowInv
  <1> SUFFICES ASSUME Init PROVE WindowInv
    OBVIOUS
  <1>1. \A a \in Addrs : Recent(a) = {} /\ windows[a] = {} /\ granted[a] = {}
    BY DEF Init, Recent
  <1>2. TypeOK
    BY DEF Init, TypeOK
  <1>3. SlidingLimit
    BY <1>1, FS_EmptySet DEF SlidingLimit
  <1> QED
    BY <1>1, <1>2, <1>3 DEF Init, WindowInv, Kept, DenialJustified

LEMMA DenyKeeps ==
  ASSUME WindowInv, NEW a \in Addrs, Deny(a), clock' = clock,
         calls < MaxCalls, calls' = calls + 1
  PROVE  WindowInv'
  <1> USE DEF WindowInv
  <1>1. Valid(a) = Recent(a)
    BY ValidIsRecent
  <1>2. Valid(a) \subseteq windows[a] /\ windows[a] \subseteq Entry /\ Recent(a) \subseteq Entry
    BY DEF Valid, Recent, TypeOK
  <1>3. TypeOK'
    BY <1>2, EntriesFinite DEF Deny, TypeOK
  <1>4. \A b \in Addrs : Recent(b)' = Recent(b)
    BY DEF Deny, Recent
  <1>5. \A b \in Addrs : Kept(b)'
    BY <1>1, <1>2, <1>4 DEF Deny, Kept, TypeOK
  <1>6. SlidingLimit'
    BY <1>4 DEF SlidingLimit
  <1>7. DenialJustified'
    BY <1>1 DEF Deny, DenialJustified
  <1> QED
    BY <1>3, <1>5, <1>6, <1>7

LEMMA GrantKeeps ==
  ASSUME WindowInv, NEW a \in Addrs, Grant(a), clock' = clock,
         calls < MaxCalls, calls' = calls + 1
  PROVE  WindowInv'
  <1> USE DEF WindowInv
  <1> DEFINE e == [call |-> calls + 1, at |-> clock]
  <1>1. Valid(a) = Recent(a)
    BY ValidIsRecent
  <1>2. /\ Valid(a) \subseteq windows[a] /\ windows[a] \subseteq Entry
        /\ Recent(a) \subseteq Entry /\ e \in Entry
    BY DEF Valid, Recent, TypeOK, Entry
  <1>3. TypeOK'
    BY <1>2, EntriesFinite DEF Grant, TypeOK
  <1>4. \A b \in Addrs : Recent(b)' = IF b = a THEN Recent(a) \cup {e} ELSE Recent(b)
    BY DEF Grant, Recent, TypeOK
  <1>5. \A b \in Addrs : Kept(b)'
    <2> SUFFICES ASSUME NEW b \in Addrs PROVE Kept(b)'
      OBVIOUS
    <2>1. CASE b = a
      BY <1>1, <1>2, <1>4, <2>1 DEF Grant, Kept, TypeOK
    <2>2. CASE b # a
      BY <1>4, <2>2 DEF Grant, Kept, TypeOK
    <2> QED
      BY <2>1, <2>2
  <1>6. Cardinality(Recent(a) \cup {e}) <= Limit
    <2>1. IsFiniteSet(Recent(a)) /\ Cardinality(Recent(a)) \in Nat
      BY <1>2, EntriesFinite
    <2>2. Cardinality(Recent(a)) < Limit
      BY <1>1 DEF Grant
    <2>3. Cardinality(Recent(a) \cup {e}) <= Cardinality(Recent(a)) + 1
      <3> HIDE DEF e
      <3>1. Cardinality(Recent(a) \cup {e})
              = IF e \in Recent(a) THEN Cardinality(Recent(a)) ELSE Cardinality(Recent(a)) + 1
        BY <2>1, FS_AddElement, Zenon
      <3> QED
        BY <2>1, <3>1
    <2>4. Cardinality(Recent(a) \cup {e}) \in Nat
      BY <1>2, EntriesFinite
    <2> QED
      BY <2>1, <2>2, <2>3, <2>4
  <1>7. SlidingLimit'
    BY <1>4, <1>6 DEF SlidingLimit
  <1>8. DenialJustified'
    BY DEF Grant, DenialJustified
  <1> QED
    BY <1>3, <1>5, <1>7, <1>8

LEMMA TickKeeps ==
  ASSUME WindowInv, Tick
  PROVE  WindowInv'
  <1> USE DEF WindowInv
  <1>1. TypeOK'
    BY DEF Tick, TypeOK
  <1>2. \A a \in Addrs : Recent(a)' \subseteq Recent(a) /\ Recent(a) \subseteq Entry
    BY DEF Tick, Recent, TypeOK, Entry
  <1>3. \A a \in Addrs : Kept(a)'
    BY <1>2 DEF Tick, Kept
  <1>4. SlidingLimit'
    <2> SUFFICES ASSUME NEW a \in Addrs PROVE Cardinality(Recent(a)') <= Limit
      BY DEF SlidingLimit
    <2>1. IsFiniteSet(Recent(a)) /\ Cardinality(Recent(a)) \in Nat
      BY <1>2, EntriesFinite
    <2>2. Cardinality(Recent(a)') <= Cardinality(Recent(a)) /\ Cardinality(Recent(a)') \in Nat
      BY <1>2, <2>1, FS_Subset, EntriesFinite
    <2> QED
      BY <2>1, <2>2 DEF SlidingLimit
  <1>5. DenialJustified'
    BY DEF Tick, DenialJustified
  <1> QED
    BY <1>1, <1>3, <1>4, <1>5

LEMMA NextWindow == WindowInv /\ [Next]_vars => WindowInv'
  <1> SUFFICES ASSUME WindowInv, [Next]_vars PROVE WindowInv'
    OBVIOUS
  <1>1. CASE Tick
    BY <1>1, TickKeeps
  <1>2. ASSUME NEW a \in Addrs, Allow(a) PROVE WindowInv'
    BY <1>2, DenyKeeps, GrantKeeps DEF Allow
  <1>3. CASE UNCHANGED vars
    BY <1>3 DEF vars, WindowInv, TypeOK, Kept, Recent, SlidingLimit, DenialJustified
  <1> QED
    BY <1>1, <1>2, <1>3 DEF Next

\* For every limit and window, no address is allowed more than Limit calls in
\* any window, whatever the order of calls and ticks.
THEOREM SlidingLimitHolds == Spec => []SlidingLimit
  <1>1. WindowInv => SlidingLimit
    BY DEF WindowInv
  <1> QED
    BY <1>1, InitWindow, NextWindow, PTL DEF Spec

\* For every limit and window, a call is refused only when Limit calls of its
\* address were allowed in the window that ends with it.
THEOREM DenialsAreJustified == Spec => []DenialJustified
  <1>1. WindowInv => DenialJustified
    BY DEF WindowInv
  <1> QED
    BY <1>1, InitWindow, NextWindow, PTL DEF Spec
=============================================================================
