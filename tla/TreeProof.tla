----------------------------- MODULE TreeProof -----------------------------
(* Theorems about Tree, for any names, any volume, any requests and any limit *)
(* on the links that are followed.                                           *)
EXTENDS Tree, SequenceTheorems, WellFoundedInduction, TLAPS

-----------------------------------------------------------------------------
(* Functions defined by recursion.  The induction theorems of the library    *)
(* take an operator; here induction is over a set of numbers.                *)

LEMMA SetInduction ==
  ASSUME NEW S, 0 \in S, \A n \in Nat : n \in S => n + 1 \in S
  PROVE  Nat \subseteq S
  <1> SUFFICES ASSUME Nat \ S # {} PROVE FALSE
    OBVIOUS
  <1>1. PICK x \in Nat \ S : \A y \in Nat \ S : ~(<<y, x>> \in OpToRel(<, Nat))
    BY NatLessThanWellFounded, WFMin
  <1>2. \A y \in Nat \ S : ~(y < x)
    BY <1>1 DEF OpToRel
  <1>3. x # 0 /\ x \in Nat
    OBVIOUS
  <1>4. x - 1 \in Nat /\ x - 1 < x /\ (x - 1) + 1 = x
    BY <1>3
  <1>5. x - 1 \in S
    BY <1>2, <1>4
  <1> QED
    BY <1>4, <1>5

\* f obeys the recursion up to n.
Obeys(f, step, base, n) == \A i \in 0 .. n : f[i] = IF i = 0 THEN base ELSE step[i - 1][f[i - 1]]

LEMMA ObeysUnique ==
  ASSUME NEW step, NEW base, NEW n \in Nat, NEW f, NEW g, Obeys(f, step, base, n), Obeys(g, step, base, n)
  PROVE  \A i \in 0 .. n : f[i] = g[i]
  <1> DEFINE S == {i \in Nat : i <= n => f[i] = g[i]}
  <1>1. 0 \in S
    BY DEF Obeys
  <1>2. ASSUME NEW i \in Nat, i \in S PROVE i + 1 \in S
    <2> SUFFICES ASSUME i + 1 <= n PROVE f[i + 1] = g[i + 1]
      OBVIOUS
    <2>1. i + 1 \in 0 .. n /\ i + 1 # 0 /\ (i + 1) - 1 = i /\ i <= n
      OBVIOUS
    <2>2. f[i + 1] = step[i][f[i]] /\ g[i + 1] = step[i][g[i]]
      BY <2>1 DEF Obeys
    <2> QED
      BY <1>2, <2>1, <2>2
  <1> HIDE DEF S
  <1>3. Nat \subseteq S
    BY <1>1, <1>2, SetInduction
  <1> QED
    BY <1>3 DEF S

LEMMA ObeysExists ==
  ASSUME NEW step, NEW base
  PROVE  \A n \in Nat : \E f : Obeys(f, step, base, n)
  <1> DEFINE S == {n \in Nat : \E f : Obeys(f, step, base, n)}
  <1>1. 0 \in S
    <2>1. Obeys([i \in Nat |-> base], step, base, 0)
      BY DEF Obeys
    <2> QED
      BY <2>1
  <1>2. ASSUME NEW n \in Nat, n \in S PROVE n + 1 \in S
    <2>1. PICK f : Obeys(f, step, base, n)
      BY <1>2
    <2> DEFINE g == [i \in Nat |-> IF i = n + 1 THEN step[n][f[n]] ELSE f[i]]
    <2>2. ASSUME NEW i \in 0 .. n + 1
          PROVE  g[i] = IF i = 0 THEN base ELSE step[i - 1][g[i - 1]]
      <3>1. CASE i = n + 1
        <4>1. i \in Nat /\ i # 0 /\ i - 1 = n /\ n # n + 1
          BY <3>1
        <4>2. g[n + 1] = step[n][f[n]] /\ g[n] = f[n]
          BY <4>1
        <4> QED
          BY <3>1, <4>1, <4>2
      <3>2. CASE i # n + 1
        <4>1. i \in Nat /\ i \in 0 .. n /\ (i # 0 => i - 1 \in Nat /\ i - 1 # n + 1)
          BY <3>2
        <4>2. g[i] = f[i] /\ (i # 0 => g[i - 1] = f[i - 1])
          BY <3>2, <4>1
        <4> HIDE DEF g
        <4> QED
          BY <2>1, <4>1, <4>2 DEF Obeys
      <3> QED
        BY <3>1, <3>2
    <2> HIDE DEF g
    <2>3. Obeys(g, step, base, n + 1)
      BY <2>2 DEF Obeys
    <2> QED
      BY <2>3
  <1> HIDE DEF S
  <1>3. Nat \subseteq S
    BY <1>1, <1>2, SetInduction
  <1> QED
    BY <1>3 DEF S

Recursion(f, step, base) == f = [i \in Nat |-> IF i = 0 THEN base ELSE step[i - 1][f[i - 1]]]

LEMMA RecursionExists ==
  ASSUME NEW step, NEW base
  PROVE  \E f : Recursion(f, step, base)
  <1> DEFINE part(n) == CHOOSE f : Obeys(f, step, base, n)
             f == [i \in Nat |-> part(i)[i]]
  <1>1. \A n \in Nat : Obeys(part(n), step, base, n)
    BY ObeysExists
  <1> HIDE DEF part
  <1>2. ASSUME NEW i \in Nat PROVE f[i] = IF i = 0 THEN base ELSE step[i - 1][f[i - 1]]
    <2>1. f[i] = part(i)[i]
      OBVIOUS
    <2>2. CASE i = 0
      BY <1>1, <2>1, <2>2 DEF Obeys
    <2>3. CASE i # 0
      <3>1. i - 1 \in Nat /\ i - 1 \in 0 .. i - 1 /\ i \in 0 .. i /\ \A j \in 0 .. i - 1 : j \in 0 .. i
        BY <2>3
      <3>2. part(i)[i] = step[i - 1][part(i)[i - 1]]
        BY <1>1, <2>3, <3>1 DEF Obeys
      <3>3. Obeys(part(i), step, base, i - 1)
        BY <1>1, <3>1 DEF Obeys
      <3>4. part(i)[i - 1] = part(i - 1)[i - 1]
        BY <1>1, <3>1, <3>3, ObeysUnique
      <3>5. f[i - 1] = part(i - 1)[i - 1]
        BY <3>1
      <3> QED
        BY <2>1, <2>3, <3>2, <3>4, <3>5
    <2> QED
      BY <2>2, <2>3
  <1>3. f = [i \in Nat |-> IF i = 0 THEN base ELSE step[i - 1][f[i - 1]]]
    <2>1. f = [i \in Nat |-> f[i]]
      OBVIOUS
    <2> HIDE DEF f
    <2> QED
      BY <1>2, <2>1
  <1> QED
    BY <1>3 DEF Recursion

-----------------------------------------------------------------------------
(* One round of EvalSymlinks.                                               *)

Errs == {"ok", "absent", "broken", "link"}
Fars == [at : Locations, err : Errs]

\* There is no ".." in l.
Descends(l) == \A i \in 1 .. Len(l) : l[i] # Up

TreeShape ==
  /\ kind \in [DOMAIN kind -> Kinds] /\ DOMAIN kind \subseteq Locations
  /\ \A l \in DOMAIN kind : Descends(l)
  /\ {NoLoc, Root} \subseteq DOMAIN kind /\ kind[NoLoc] = "dir" /\ kind[Root] = "dir"
  /\ \A l \in DOMAIN kind \ {NoLoc} : Front(l) \in DOMAIN kind /\ kind[Front(l)] = "dir"
  /\ links \in [{l \in DOMAIN kind : kind[l] = "link"} -> Locations]

\* The first thing on the way a that is not a directory is its k-th part.
StopsAt(a, k) == /\ k \in 1 .. Len(a) /\ At(SubSeq(a, 1, k)) # "dir"
                 /\ \A j \in 1 .. k - 1 : At(SubSeq(a, 1, j)) = "dir"
Clear(a)      == \A k \in 1 .. Len(a) : At(SubSeq(a, 1, k)) = "dir"

LEMMA PrefixIn ==
  ASSUME NEW a \in Locations, NEW k \in 0 .. Len(a)
  PROVE  /\ SubSeq(a, 1, k) \in Locations /\ Len(SubSeq(a, 1, k)) = k
         /\ \A j \in 1 .. k : SubSeq(a, 1, k)[j] = a[j]
         /\ SubSeq(a, k + 1, Len(a)) \in Locations /\ Len(SubSeq(a, k + 1, Len(a))) = Len(a) - k
         /\ \A j \in 1 .. Len(a) - k : SubSeq(a, k + 1, Len(a))[j] = a[k + j]
  <1>1. k \in Nat /\ Len(a) \in Nat /\ k <= Len(a) /\ \A i \in 1 .. Len(a) : a[i] \in Segments
    BY LenProperties, ElementOfSeq DEF Locations
  <1> HIDE DEF Locations
  <1>2. /\ SubSeq(a, 1, k) \in Locations /\ Len(SubSeq(a, 1, k)) = IF 1 <= k THEN k - 1 + 1 ELSE 0
        /\ \A j \in 1 .. k - 1 + 1 : SubSeq(a, 1, k)[j] = a[1 + j - 1]
    <2>1. \A i \in 1 .. k : a[i] \in Segments
      BY <1>1
    <2> QED
      BY <1>1, <2>1, SubSeqProperties DEF Locations
  <1>3. /\ SubSeq(a, k + 1, Len(a)) \in Locations
        /\ Len(SubSeq(a, k + 1, Len(a))) = IF k + 1 <= Len(a) THEN Len(a) - (k + 1) + 1 ELSE 0
        /\ \A j \in 1 .. Len(a) - (k + 1) + 1 : SubSeq(a, k + 1, Len(a))[j] = a[k + 1 + j - 1]
    <2>1. \A i \in k + 1 .. Len(a) : a[i] \in Segments
      BY <1>1
    <2> QED
      BY <1>1, <2>1, SubSeqProperties DEF Locations
  <1> QED
    BY <1>1, <1>2, <1>3

LEMMA WholePrefix ==
  ASSUME NEW a \in Locations
  PROVE  SubSeq(a, 1, Len(a)) = a
  BY SubSeqFull DEF Locations

LEMMA ClearOrStops ==
  ASSUME NEW a \in Locations
  PROVE  Clear(a) \/ \E k \in 1 .. Len(a) : StopsAt(a, k)
  <1>0. Len(a) \in Nat
    BY LenProperties DEF Locations
  <1> DEFINE S == {k \in Nat : \A j \in 1 .. k : j \in 1 .. Len(a) => At(SubSeq(a, 1, j)) = "dir"}
  <1> SUFFICES ASSUME \A k \in 1 .. Len(a) : ~StopsAt(a, k) PROVE Clear(a)
    OBVIOUS
  <1>1. 0 \in S
    OBVIOUS
  <1>2. ASSUME NEW n \in Nat, n \in S PROVE n + 1 \in S
    <2> SUFFICES ASSUME n + 1 \in 1 .. Len(a) PROVE At(SubSeq(a, 1, n + 1)) = "dir"
      BY <1>2
    <2>1. (n + 1) - 1 = n /\ \A j \in 1 .. n : j \in 1 .. Len(a)
      BY <1>0
    <2>2. \A j \in 1 .. (n + 1) - 1 : At(SubSeq(a, 1, j)) = "dir"
      BY <1>2, <2>1
    <2> QED
      BY <2>2 DEF StopsAt
  <1> HIDE DEF S
  <1>3. Len(a) \in S
    BY <1>0, <1>1, <1>2, SetInduction
  <1> QED
    BY <1>3 DEF S, Clear

LEMMA StopIsOne ==
  ASSUME NEW a \in Locations, NEW j, NEW k, StopsAt(a, j), StopsAt(a, k)
  PROVE  j = k
  <1>0. Len(a) \in Nat /\ j \in 1 .. Len(a) /\ k \in 1 .. Len(a)
    BY LenProperties DEF Locations, StopsAt
  <1>1. CASE j < k
    <2>1. j \in 1 .. k - 1
      BY <1>0, <1>1
    <2> QED
      BY <2>1 DEF StopsAt
  <1>2. CASE k < j
    <2>1. k \in 1 .. j - 1
      BY <1>0, <1>2
    <2> QED
      BY <2>1 DEF StopsAt
  <1> QED
    BY <1>0, <1>1, <1>2

LEMMA FarFields ==
  ASSUME NEW a, NEW e
  PROVE  Far(a, e).at = a /\ Far(a, e).err = e
  BY DEF Far

LEMMA OneLinkSettled ==
  ASSUME NEW far, far.err # "link"
  PROVE  OneLink(far) = far
  BY DEF OneLink

LEMMA OneLinkClear ==
  ASSUME NEW a \in Locations, Clear(a)
  PROVE  OneLink(Far(a, "link")) = Far(a, "ok")
  <1>1. {k \in 1 .. Len(a) : At(SubSeq(a, 1, k)) # "dir"} = {}
    BY DEF Clear
  <1>2. Far(a, "link").at = a /\ Far(a, "link").err = "link"
    BY FarFields
  <1> QED
    BY <1>1, <1>2, Zenon DEF OneLink

To(a, k)   == SubSeq(a, 1, k)
From(a, k) == SubSeq(a, k + 1, Len(a))
\* The way on when the k-th part is a "..".
UpFrom(a, k) == SubSeq(To(a, k), 1, k - 2) \o From(a, k)

LEMMA LeastStop ==
  ASSUME NEW a \in Locations, NEW k, StopsAt(a, k)
  PROVE  LET stops == {i \in 1 .. Len(a) : At(SubSeq(a, 1, i)) # "dir"}
         IN  stops # {} /\ k = CHOOSE i \in stops : \A j \in stops : i <= j
  <1> DEFINE stops == {i \in 1 .. Len(a) : At(SubSeq(a, 1, i)) # "dir"}
             least == CHOOSE i \in stops : \A j \in stops : i <= j
  <1>0. Len(a) \in Nat /\ k \in 1 .. Len(a)
    BY LenProperties DEF Locations, StopsAt
  <1>1. k \in stops /\ \A j \in stops : k <= j
    <2>1. ASSUME NEW j \in stops PROVE k <= j
      <3>1. ~(j \in 1 .. k - 1)
        BY DEF StopsAt
      <3> QED
        BY <1>0, <3>1
    <2> QED
      BY <1>0, <2>1 DEF StopsAt
  <1>2. least \in stops /\ \A j \in stops : least <= j
    BY <1>1
  <1>3. least = k
    BY <1>0, <1>1, <1>2
  <1> QED
    BY <1>1, <1>3

LEMMA StopIs ==
  ASSUME NEW a \in Locations, NEW k, StopsAt(a, k), TreeShape
  PROVE  At(To(a, k)) \in {"none", "file", "link"}
  BY DEF StopsAt, To, At, TreeShape, Kinds

\* The round when the way stops at its k-th part.
LEMMA LinkStops ==
  ASSUME NEW far, far.at \in Locations, far.err = "link", NEW k, StopsAt(far.at, k)
  PROVE  OneLink(far) =
           CASE At(To(far.at, k)) = "none" -> IF Last(To(far.at, k)) = Up THEN Far(UpFrom(far.at, k), "link")
                                             ELSE Far(NoLoc, "absent")
             [] At(To(far.at, k)) = "file" -> IF From(far.at, k) = <<>>
                                             THEN Far(To(far.at, k), "ok") ELSE Far(NoLoc, "broken")
             [] At(To(far.at, k)) = "link" -> Far(links[To(far.at, k)] \o From(far.at, k), "link")
  <1> DEFINE stops == {i \in 1 .. Len(far.at) : At(SubSeq(far.at, 1, i)) # "dir"}
             least == CHOOSE i \in stops : \A j \in stops : i <= j
  <1>1. stops # {} /\ least = k
    BY LeastStop
  <1>2. OneLink(far) = IF far.err # "link" THEN far
                       ELSE IF stops = {} THEN Far(far.at, "ok")
                       ELSE CASE At(SubSeq(far.at, 1, least)) = "none" ->
                                   IF Last(SubSeq(far.at, 1, least)) = Up
                                   THEN Far(SubSeq(SubSeq(far.at, 1, least), 1, least - 2)
                                              \o SubSeq(far.at, least + 1, Len(far.at)), "link")
                                   ELSE Far(NoLoc, "absent")
                              [] At(SubSeq(far.at, 1, least)) = "file" ->
                                   IF SubSeq(far.at, least + 1, Len(far.at)) = <<>>
                                   THEN Far(SubSeq(far.at, 1, least), "ok") ELSE Far(NoLoc, "broken")
                              [] At(SubSeq(far.at, 1, least)) = "link" ->
                                   Far(links[SubSeq(far.at, 1, least)]
                                         \o SubSeq(far.at, least + 1, Len(far.at)), "link")
    BY Zenon DEF OneLink
  <1> HIDE DEF stops, least
  <1>3. ~(far.err # "link") /\ ~(stops = {})
    BY <1>1
  <1> DEFINE outcome(i) == CASE At(SubSeq(far.at, 1, i)) = "none" ->
                                   IF Last(SubSeq(far.at, 1, i)) = Up
                                   THEN Far(SubSeq(SubSeq(far.at, 1, i), 1, i - 2)
                                              \o SubSeq(far.at, i + 1, Len(far.at)), "link")
                                   ELSE Far(NoLoc, "absent")
                              [] At(SubSeq(far.at, 1, i)) = "file" ->
                                   IF SubSeq(far.at, i + 1, Len(far.at)) = <<>>
                                   THEN Far(SubSeq(far.at, 1, i), "ok") ELSE Far(NoLoc, "broken")
                              [] At(SubSeq(far.at, 1, i)) = "link" ->
                                   Far(links[SubSeq(far.at, 1, i)]
                                         \o SubSeq(far.at, i + 1, Len(far.at)), "link")
  <1>4. OneLink(far) = outcome(least)
    BY <1>2, <1>3, Zenon
  <1> HIDE DEF outcome
  <1>5. OneLink(far) = outcome(k)
    BY <1>1, <1>4, Zenon
  <1> QED
    BY <1>5, Zenon DEF To, From, UpFrom, outcome

LEMMA StopsAbsent ==
  ASSUME NEW a \in Locations, NEW k, StopsAt(a, k), At(To(a, k)) = "none", Last(To(a, k)) # Up
  PROVE  OneLink(Far(a, "link")) = Far(NoLoc, "absent")
  <1>1. Far(a, "link").at = a /\ Far(a, "link").err = "link"
    BY FarFields
  <1> QED
    BY <1>1, LinkStops

LEMMA StopsUp ==
  ASSUME NEW a \in Locations, NEW k, StopsAt(a, k), At(To(a, k)) = "none", Last(To(a, k)) = Up
  PROVE  OneLink(Far(a, "link")) = Far(UpFrom(a, k), "link")
  <1>1. Far(a, "link").at = a /\ Far(a, "link").err = "link"
    BY FarFields
  <1> QED
    BY <1>1, LinkStops

\* A ".." is the k-th part of a way only if the way has one.
LEMMA LastPart ==
  ASSUME NEW a \in Locations, NEW k \in 1 .. Len(a)
  PROVE  Last(To(a, k)) = a[k] /\ (Descends(a) => Last(To(a, k)) # Up)
  <1>1. k \in 0 .. Len(a) /\ k \in 1 .. k
    BY LenProperties DEF Locations
  <1>2. Len(To(a, k)) = k /\ To(a, k)[k] = a[k]
    BY <1>1, PrefixIn DEF To
  <1> QED
    BY <1>2 DEF Last, Descends

\* What is above the k-th part, and what the way on has of each.
LEMMA UpIn ==
  ASSUME NEW a \in Locations, NEW k \in 1 .. Len(a)
  PROVE  SubSeq(To(a, k), 1, k - 2) \in Locations /\ UpFrom(a, k) \in Locations
  <1>1. k \in 0 .. Len(a) /\ k \in Nat \ {0} /\ k - 2 \in Int
    BY LenProperties DEF Locations
  <1>2. To(a, k) \in Locations /\ Len(To(a, k)) = k /\ From(a, k) \in Locations
    BY <1>1, PrefixIn DEF To, From
  <1>3. SubSeq(To(a, k), 1, k - 2) \in Locations
    <2>1. CASE k = 1
      <3>1. SubSeq(To(a, k), 1, k - 2) = <<>>
        BY <1>1, <2>1, SubSeqEmpty
      <3> QED
        BY <3>1, EmptySeq DEF Locations
    <2>2. CASE k # 1
      <3>1. k - 2 \in 0 .. Len(To(a, k))
        BY <1>1, <1>2, <2>2
      <3> QED
        BY <1>2, <3>1, PrefixIn
    <2> QED
      BY <2>1, <2>2
  <1>4. UpFrom(a, k) \in Locations
    <2>1. \A b \in Locations, c \in Locations : b \o c \in Locations
      BY ConcatProperties DEF Locations
    <2> QED
      BY <1>2, <1>3, <2>1 DEF UpFrom
  <1> QED
    BY <1>3, <1>4

LEMMA StopsFile ==
  ASSUME NEW a \in Locations, NEW k, StopsAt(a, k), At(To(a, k)) = "file"
  PROVE  OneLink(Far(a, "link")) = IF From(a, k) = <<>> THEN Far(To(a, k), "ok") ELSE Far(NoLoc, "broken")
  <1>1. Far(a, "link").at = a /\ Far(a, "link").err = "link"
    BY FarFields
  <1> QED
    BY <1>1, LinkStops

LEMMA StopsLink ==
  ASSUME NEW a \in Locations, NEW k, StopsAt(a, k), At(To(a, k)) = "link"
  PROVE  OneLink(Far(a, "link")) = Far(links[To(a, k)] \o From(a, k), "link")
  <1>1. Far(a, "link").at = a /\ Far(a, "link").err = "link"
    BY FarFields
  <1> QED
    BY <1>1, LinkStops

-----------------------------------------------------------------------------
(* The rounds of EvalSymlinks, one after the other.                         *)

Walk(l) == LET far[i \in Nat] == IF i = 0 THEN Far(l, "link") ELSE OneLink(far[i - 1]) IN far

Concluded(end) == IF end.err = "link" THEN Far(NoLoc, "broken") ELSE end

LEMMA EvalIsWalk ==
  ASSUME NEW l
  PROVE  EvalSymlinks(l) = Concluded(Walk(l)[MaxRounds + 1])
  BY Zenon DEF EvalSymlinks, Walk, Concluded

LEMMA LinkIn ==
  ASSUME TreeShape, NEW far \in Fars
  PROVE  OneLink(far) \in Fars
  <1>1. far.at \in Locations /\ far.err \in Errs
    BY DEF Fars
  <1>2. NoLoc \in Locations
    BY EmptySeq DEF NoLoc, Locations
  <1>3. \A l \in Locations, e \in Errs : Far(l, e) \in Fars
    BY DEF Far, Fars
  <1> HIDE DEF Fars
  <1>4. CASE far.err # "link"
    BY <1>4, OneLinkSettled
  <1>5. CASE far.err = "link" /\ Clear(far.at)
    <2>1. {k \in 1 .. Len(far.at) : At(SubSeq(far.at, 1, k)) # "dir"} = {}
      BY <1>5 DEF Clear
    <2>2. OneLink(far) = Far(far.at, "ok")
      BY <1>5, <2>1, Zenon DEF OneLink
    <2> QED
      BY <1>1, <1>3, <2>2 DEF Errs
  <1>6. CASE far.err = "link" /\ ~Clear(far.at)
    <2>1. PICK k \in 1 .. Len(far.at) : StopsAt(far.at, k)
      BY <1>1, <1>6, ClearOrStops
    <2>2. k \in 0 .. Len(far.at)
      BY <1>1, LenProperties DEF Locations
    <2>3. To(far.at, k) \in Locations /\ From(far.at, k) \in Locations
      BY <1>1, <2>2, PrefixIn DEF To, From
    <2>4. At(To(far.at, k)) \in {"none", "file", "link"}
      BY <1>1, <2>1, StopIs
    <2>5. OneLink(far) =
           CASE At(To(far.at, k)) = "none" -> IF Last(To(far.at, k)) = Up THEN Far(UpFrom(far.at, k), "link")
                                             ELSE Far(NoLoc, "absent")
             [] At(To(far.at, k)) = "file" -> IF From(far.at, k) = <<>>
                                             THEN Far(To(far.at, k), "ok") ELSE Far(NoLoc, "broken")
             [] At(To(far.at, k)) = "link" -> Far(links[To(far.at, k)] \o From(far.at, k), "link")
      BY <1>1, <1>6, <2>1, LinkStops
    <2>6. CASE At(To(far.at, k)) = "none"
      <3>1. UpFrom(far.at, k) \in Locations
        BY <1>1, <2>1, UpIn
      <3> QED
        BY <1>2, <1>3, <2>5, <2>6, <3>1 DEF Errs
    <2>7. CASE At(To(far.at, k)) = "file"
      BY <1>2, <1>3, <2>3, <2>5, <2>7 DEF Errs
    <2>8. CASE At(To(far.at, k)) = "link"
      <3>1. links[To(far.at, k)] \in Locations
        BY <2>8 DEF TreeShape, At
      <3>2. links[To(far.at, k)] \o From(far.at, k) \in Locations
        BY <2>3, <3>1, ConcatProperties DEF Locations
      <3> QED
        BY <1>3, <2>5, <2>8, <3>2 DEF Errs
    <2> QED
      BY <2>4, <2>6, <2>7, <2>8
  <1> QED
    BY <1>4, <1>5, <1>6

LEMMA WalkRule ==
  ASSUME TreeShape, NEW l \in Locations
  PROVE  /\ Walk(l)[0] = Far(l, "link")
         /\ \A i \in Nat : Walk(l)[i] \in Fars /\ Walk(l)[i + 1] = OneLink(Walk(l)[i])
  <1> DEFINE step == [i \in Nat |-> [r \in Fars |-> OneLink(r)]]
  <1>0. Far(l, "link") \in Fars
    BY DEF Far, Fars, Errs
  <1>1. PICK f : f = [i \in Nat |-> IF i = 0 THEN Far(l, "link") ELSE step[i - 1][f[i - 1]]]
    <2> DEFINE base == Far(l, "link")
    <2> HIDE DEF step, base
    <2>1. PICK f : Recursion(f, step, base)
      BY RecursionExists
    <2>2. f = [i \in Nat |-> IF i = 0 THEN base ELSE step[i - 1][f[i - 1]]]
      BY <2>1 DEF Recursion
    <2> QED
      BY <2>2, Zenon DEF base
  <1>2. f[0] = Far(l, "link") /\ \A i \in Nat : f[i + 1] = step[i][f[i]]
    <2>1. f[0] = Far(l, "link")
      BY <1>1
    <2>2. ASSUME NEW i \in Nat PROVE f[i + 1] = step[i][f[i]]
      <3>1. i + 1 \in Nat /\ i + 1 # 0 /\ (i + 1) - 1 = i
        OBVIOUS
      <3> HIDE DEF step
      <3> QED
        BY <1>1, <3>1
    <2> QED
      BY <2>1, <2>2
  <1> DEFINE S == {i \in Nat : f[i] \in Fars}
  <1>3. 0 \in S
    BY <1>0, <1>2
  <1>4. ASSUME NEW i \in Nat, i \in S PROVE i + 1 \in S
    <2>1. f[i + 1] = OneLink(f[i]) /\ f[i] \in Fars
      BY <1>2, <1>4
    <2> QED
      BY <2>1, LinkIn
  <1> HIDE DEF S
  <1>5. Nat \subseteq S
    BY <1>3, <1>4, SetInduction
  <1>6. \A i \in Nat : f[i] \in Fars /\ f[i + 1] = OneLink(f[i])
    BY <1>2, <1>5 DEF S
  <1>7. f = [i \in Nat |-> IF i = 0 THEN Far(l, "link") ELSE OneLink(f[i - 1])]
    <2> HIDE DEF step
    <2>1. f = [i \in Nat |-> f[i]]
      BY <1>1
    <2>2. ASSUME NEW i \in Nat PROVE f[i] = IF i = 0 THEN Far(l, "link") ELSE OneLink(f[i - 1])
      <3>1. CASE i = 0
        BY <1>2, <3>1
      <3>2. CASE i # 0
        <4>1. i - 1 \in Nat /\ (i - 1) + 1 = i
          BY <3>2
        <4> QED
          BY <1>6, <3>2, <4>1
      <3> QED
        BY <3>1, <3>2
    <2> QED
      BY <2>1, <2>2
  <1> DEFINE w == Walk(l)
  <1>8. w = [i \in Nat |-> IF i = 0 THEN Far(l, "link") ELSE OneLink(w[i - 1])]
    BY <1>7 DEF Walk
  <1> HIDE DEF w
  <1>9. w[0] = Far(l, "link") /\ \A i \in Nat : w[i + 1] = OneLink(w[i])
    <2>1. w[0] = Far(l, "link")
      BY <1>8
    <2>2. ASSUME NEW i \in Nat PROVE w[i + 1] = OneLink(w[i])
      <3>1. i + 1 \in Nat /\ i + 1 # 0 /\ (i + 1) - 1 = i
        OBVIOUS
      <3> QED
        BY <1>8, <3>1
    <2> QED
      BY <2>1, <2>2
  <1> DEFINE T == {i \in Nat : w[i] \in Fars}
  <1>10. 0 \in T
    BY <1>0, <1>9
  <1>11. ASSUME NEW i \in Nat, i \in T PROVE i + 1 \in T
    BY <1>9, <1>11, LinkIn
  <1> HIDE DEF T
  <1>12. Nat \subseteq T
    BY <1>10, <1>11, SetInduction
  <1> QED
    BY <1>9, <1>12 DEF T, w

LEMMA FarIs ==
  ASSUME NEW r \in Fars
  PROVE  r = Far(r.at, r.err) /\ r.at \in Locations /\ r.err \in Errs
  BY DEF Fars, Far

LEMMA FarIn ==
  ASSUME NEW a \in Locations, NEW e \in Errs
  PROVE  Far(a, e) \in Fars
  BY DEF Far, Fars

LEMMA EvalIn ==
  ASSUME TreeShape, NEW l \in Locations
  PROVE  /\ EvalSymlinks(l) \in Fars
         /\ EvalSymlinks(l).err = "ok" => Walk(l)[MaxRounds + 1] = EvalSymlinks(l)
         /\ EvalSymlinks(l).err = "absent" <=> Walk(l)[MaxRounds + 1].err = "absent"
         /\ Walk(l)[MaxRounds + 1].err # "link" => EvalSymlinks(l) = Walk(l)[MaxRounds + 1]
  <1> DEFINE end == Walk(l)[MaxRounds + 1]
  <1>1. MaxRounds + 1 \in Nat
    BY DepthAssumption
  <1>2. end \in Fars
    BY <1>1, WalkRule
  <1>3. EvalSymlinks(l) = Concluded(end)
    BY EvalIsWalk
  <1> HIDE DEF end
  <1>4. CASE end.err = "link"
    <2>1. EvalSymlinks(l) = Far(NoLoc, "broken")
      BY <1>3, <1>4 DEF Concluded
    <2>2. NoLoc \in Locations
      BY EmptySeq DEF NoLoc, Locations
    <2>3. Far(NoLoc, "broken") \in Fars /\ Far(NoLoc, "broken").err = "broken"
      BY <2>2 DEF Far, Fars, Errs
    <2> QED
      BY <1>4, <2>1, <2>3 DEF end
  <1>5. CASE end.err # "link"
    BY <1>2, <1>3, <1>5 DEF Concluded, end
  <1> QED
    BY <1>4, <1>5

\* A walk that has ended stays where it is.
LEMMA Settled ==
  ASSUME TreeShape, NEW l \in Locations, NEW i \in Nat, Walk(l)[i].err # "link", NEW j \in Nat, i <= j
  PROVE  Walk(l)[j] = Walk(l)[i]
  <1> DEFINE S == {d \in Nat : Walk(l)[i + d] = Walk(l)[i]}
  <1>1. 0 \in S
    OBVIOUS
  <1>2. ASSUME NEW d \in Nat, d \in S PROVE d + 1 \in S
    <2>1. i + d \in Nat /\ i + (d + 1) = (i + d) + 1
      OBVIOUS
    <2>2. Walk(l)[(i + d) + 1] = OneLink(Walk(l)[i + d])
      BY <2>1, WalkRule
    <2>3. Walk(l)[i + d] = Walk(l)[i]
      BY <1>2
    <2>4. OneLink(Walk(l)[i]) = Walk(l)[i]
      BY OneLinkSettled
    <2> QED
      BY <2>1, <2>2, <2>3, <2>4
  <1> HIDE DEF S
  <1>3. Nat \subseteq S
    BY <1>1, <1>2, SetInduction
  <1>4. j - i \in Nat /\ i + (j - i) = j
    OBVIOUS
  <1> QED
    BY <1>3, <1>4 DEF S

LEMMA SettledEval ==
  ASSUME TreeShape, NEW l \in Locations, NEW i \in 0 .. MaxRounds + 1, Walk(l)[i].err # "link"
  PROVE  EvalSymlinks(l) = Walk(l)[i]
  <1>1. i \in Nat /\ MaxRounds + 1 \in Nat /\ i <= MaxRounds + 1
    BY DepthAssumption
  <1>2. Walk(l)[MaxRounds + 1] = Walk(l)[i]
    BY <1>1, Settled
  <1> QED
    BY <1>2, EvalIn

\* A walk that has come to b goes on like b's own.
LEMMA Shift ==
  ASSUME TreeShape, NEW l \in Locations, NEW b \in Locations, NEW i \in Nat, Walk(l)[i] = Far(b, "link")
  PROVE  \A d \in Nat : Walk(l)[i + d] = Walk(b)[d]
  <1> DEFINE S == {d \in Nat : Walk(l)[i + d] = Walk(b)[d]}
  <1>1. 0 \in S
    BY WalkRule
  <1>2. ASSUME NEW d \in Nat, d \in S PROVE d + 1 \in S
    <2>1. i + d \in Nat /\ i + (d + 1) = (i + d) + 1
      OBVIOUS
    <2>2. Walk(l)[(i + d) + 1] = OneLink(Walk(l)[i + d])
      BY <2>1, WalkRule
    <2>3. Walk(b)[d + 1] = OneLink(Walk(b)[d])
      BY WalkRule
    <2> QED
      BY <1>2, <2>1, <2>2, <2>3
  <1> HIDE DEF S
  <1>3. Nat \subseteq S
    BY <1>1, <1>2, SetInduction
  <1> QED
    BY <1>3 DEF S

-----------------------------------------------------------------------------
(* What a path leads to, and what a longer one does.                        *)

LEMMA Cut ==
  ASSUME NEW a \in Locations, NEW k \in 0 .. Len(a)
  PROVE  /\ To(a, k) \in Locations /\ From(a, k) \in Locations
         /\ Len(To(a, k)) = k /\ Len(From(a, k)) = Len(a) - k
         /\ To(a, k) \o From(a, k) = a
         /\ \A j \in 0 .. k : To(To(a, k), j) = To(a, j)
  <1>1. k \in Nat /\ Len(a) \in Nat
    BY LenProperties DEF Locations
  <1>2. /\ To(a, k) \in Locations /\ From(a, k) \in Locations
        /\ Len(To(a, k)) = k /\ Len(From(a, k)) = Len(a) - k
        /\ \A i \in 1 .. k : To(a, k)[i] = a[i]
    BY PrefixIn DEF To, From
  <1>3. To(a, k) \o From(a, k) = a
    <2>1. 1 \in 1 .. Len(a) + 1 /\ k \in 1 - 1 .. Len(a) /\ Len(a) \in k .. Len(a)
      BY <1>1
    <2>2. SubSeq(a, 1, k) \o SubSeq(a, k + 1, Len(a)) = SubSeq(a, 1, Len(a))
      BY <2>1, ConcatAdjacentSubSeq DEF Locations
    <2> QED
      BY <2>2, WholePrefix DEF To, From
  <1>4. ASSUME NEW j \in 0 .. k PROVE To(To(a, k), j) = To(a, j)
    <2>1. j \in 0 .. Len(To(a, k)) /\ j \in 0 .. Len(a)
      BY <1>1, <1>2
    <2>2. To(To(a, k), j) \in Locations /\ Len(To(To(a, k), j)) = j
          /\ \A i \in 1 .. j : To(To(a, k), j)[i] = To(a, k)[i]
      BY <1>2, <2>1, PrefixIn DEF To
    <2>3. To(a, j) \in Locations /\ Len(To(a, j)) = j /\ \A i \in 1 .. j : To(a, j)[i] = a[i]
      BY <2>1, PrefixIn DEF To
    <2>4. \A i \in 1 .. j : i \in 1 .. k
      BY <1>1
    <2> QED
      BY <1>2, <2>2, <2>3, <2>4, SeqEqual DEF Locations
  <1> QED
    BY <1>2, <1>3, <1>4

LEMMA Cat ==
  ASSUME NEW a \in Locations, NEW s \in Locations
  PROVE  /\ a \o s \in Locations /\ Len(a \o s) = Len(a) + Len(s) /\ Len(a) \in Nat /\ Len(s) \in Nat
         /\ \A k \in 0 .. Len(a) : To(a \o s, k) = To(a, k) /\ From(a \o s, k) = From(a, k) \o s
  <1>1. Len(a) \in Nat /\ Len(s) \in Nat
    BY LenProperties DEF Locations
  <1>2. /\ a \o s \in Locations /\ Len(a \o s) = Len(a) + Len(s)
        /\ \A i \in 1 .. Len(a) + Len(s) : (a \o s)[i] = IF i <= Len(a) THEN a[i] ELSE s[i - Len(a)]
    BY ConcatProperties DEF Locations
  <1>3. ASSUME NEW k \in 0 .. Len(a) PROVE To(a \o s, k) = To(a, k)
    <2>1. k \in 0 .. Len(a \o s)
      BY <1>1, <1>2
    <2>2. To(a \o s, k) \in Locations /\ Len(To(a \o s, k)) = k /\ \A i \in 1 .. k : To(a \o s, k)[i] = (a \o s)[i]
      BY <1>2, <2>1, PrefixIn DEF To
    <2>3. To(a, k) \in Locations /\ Len(To(a, k)) = k /\ \A i \in 1 .. k : To(a, k)[i] = a[i]
      BY PrefixIn DEF To
    <2>4. \A i \in 1 .. k : i \in 1 .. Len(a) + Len(s) /\ i <= Len(a)
      BY <1>1
    <2> QED
      BY <1>2, <2>2, <2>3, <2>4, SeqEqual DEF Locations
  <1>4. ASSUME NEW k \in 0 .. Len(a) PROVE From(a \o s, k) = From(a, k) \o s
    <2> DEFINE t == From(a, k)
               u == From(a \o s, k)
    <2>1. k \in 0 .. Len(a \o s) /\ k \in Nat /\ k <= Len(a)
      BY <1>1, <1>2
    <2>2. u \in Locations /\ Len(u) = Len(a) + Len(s) - k
          /\ \A i \in 1 .. Len(a) + Len(s) - k : u[i] = (a \o s)[k + i]
      <3> DEFINE b == a \o s
      <3>1. b \in Locations /\ k \in 0 .. Len(b) /\ Len(b) = Len(a) + Len(s)
        BY <1>2, <2>1
      <3> HIDE DEF b
      <3>2. From(b, k) \in Locations /\ Len(From(b, k)) = Len(b) - k
            /\ \A i \in 1 .. Len(b) - k : From(b, k)[i] = b[k + i]
        BY <3>1, PrefixIn DEF From
      <3> QED
        BY <3>1, <3>2 DEF b
    <2>3. t \in Locations /\ Len(t) = Len(a) - k /\ \A i \in 1 .. Len(a) - k : t[i] = a[k + i]
      BY PrefixIn DEF From
    <2> HIDE DEF t, u
    <2>4. t \o s \in Locations /\ Len(t \o s) = Len(t) + Len(s)
          /\ \A i \in 1 .. Len(t) + Len(s) : (t \o s)[i] = IF i <= Len(t) THEN t[i] ELSE s[i - Len(t)]
      BY <2>3, ConcatProperties DEF Locations
    <2>5. Len(t \o s) = Len(u)
      BY <1>1, <2>1, <2>2, <2>3, <2>4
    <2>6. ASSUME NEW i \in 1 .. Len(u) PROVE u[i] = (t \o s)[i]
      <3>0. i \in Nat /\ i >= 1 /\ i <= Len(a) + Len(s) - k
        BY <1>1, <2>1, <2>2
      <3>1. k + i \in 1 .. Len(a) + Len(s) /\ i \in 1 .. Len(t) + Len(s) /\ i \in 1 .. Len(a) + Len(s) - k
        BY <1>1, <2>1, <2>3, <3>0
      <3>2. u[i] = IF k + i <= Len(a) THEN a[k + i] ELSE s[k + i - Len(a)]
        BY <1>2, <2>2, <3>1
      <3>3. (t \o s)[i] = IF i <= Len(a) - k THEN t[i] ELSE s[i - (Len(a) - k)]
        BY <2>3, <2>4, <3>1
      <3>4. CASE k + i <= Len(a)
        <4>1. i <= Len(a) - k /\ i \in 1 .. Len(a) - k
          BY <1>1, <2>1, <3>0, <3>4
        <4> QED
          BY <2>3, <3>2, <3>3, <3>4, <4>1
      <3>5. CASE ~(k + i <= Len(a))
        <4>1. ~(i <= Len(a) - k) /\ k + i - Len(a) = i - (Len(a) - k)
          BY <1>1, <2>1, <3>0, <3>5
        <4> QED
          BY <3>2, <3>3, <3>5, <4>1
      <3> QED
        BY <3>4, <3>5
    <2>7. u = t \o s
      BY <2>2, <2>4, <2>5, <2>6, SeqEqual DEF Locations
    <2> QED
      BY <2>7 DEF t, u
  <1> QED
    BY <1>1, <1>2, <1>3, <1>4

LEMMA CatStops ==
  ASSUME NEW a \in Locations, NEW s \in Locations, NEW k, StopsAt(a, k)
  PROVE  /\ StopsAt(a \o s, k) /\ To(a \o s, k) = To(a, k)
         /\ From(a, k) \in Locations /\ From(a \o s, k) = From(a, k) \o s
  <1>1. Len(a) \in Nat /\ Len(s) \in Nat /\ Len(a \o s) = Len(a) + Len(s)
    BY Cat
  <1>2. k \in 1 .. Len(a)
    BY DEF StopsAt
  <1>3. k \in 0 .. Len(a) /\ k \in 1 .. Len(a \o s) /\ \A j \in 1 .. k - 1 : j \in 0 .. Len(a)
    BY <1>1, <1>2
  <1>4. \A j \in 0 .. Len(a) : SubSeq(a \o s, 1, j) = SubSeq(a, 1, j)
    BY Cat DEF To
  <1>5. StopsAt(a \o s, k)
    BY <1>3, <1>4 DEF StopsAt
  <1>6. From(a, k) \in Locations
    BY <1>3, Cut
  <1>7. To(a \o s, k) = To(a, k) /\ From(a \o s, k) = From(a, k) \o s
    BY <1>3, Cat
  <1> QED
    BY <1>5, <1>6, <1>7

LEMMA CatAssociates ==
  ASSUME NEW a \in Locations, NEW b \in Locations, NEW c \in Locations
  PROVE  a \o (b \o c) = (a \o b) \o c
  <1>1. a \in Seq(Segments) /\ b \in Seq(Segments) /\ c \in Seq(Segments)
    BY DEF Locations
  <1> QED
    BY ONLY <1>1, ConcatAssociative

\* One round on a, and the same round on a path that begins with a.
LEMMA LinkCat ==
  ASSUME TreeShape, NEW a \in Locations, NEW s \in Locations
  PROVE  LET r == OneLink(Far(a, "link"))
             g == OneLink(Far(a \o s, "link"))
         IN  /\ r.err = "link" => g = Far(r.at \o s, "link")
             /\ r.err = "absent" => g.err = "absent"
             /\ r.err = "ok" => r.at = a
  <1> DEFINE r == OneLink(Far(a, "link"))
             g == OneLink(Far(a \o s, "link"))
  <1>1. CASE Clear(a)
    <2>1. r = Far(a, "ok")
      BY <1>1, OneLinkClear
    <2> HIDE DEF r, g
    <2>2. r.at = a /\ r.err = "ok"
      BY <2>1, FarFields
    <2> QED
      BY <2>2 DEF r
  <1>2. CASE ~Clear(a)
    <2>1. PICK k \in 1 .. Len(a) : StopsAt(a, k)
      BY <1>2, ClearOrStops
    <2>2. /\ StopsAt(a \o s, k) /\ To(a \o s, k) = To(a, k)
          /\ From(a, k) \in Locations /\ From(a \o s, k) = From(a, k) \o s /\ a \o s \in Locations
      <3>1. a \o s \in Locations
        BY Cat
      <3>2. /\ StopsAt(a \o s, k) /\ To(a \o s, k) = To(a, k)
            /\ From(a, k) \in Locations /\ From(a \o s, k) = From(a, k) \o s
        BY <2>1, CatStops
      <3> QED
        BY <3>1, <3>2
    <2>3. At(To(a, k)) \in {"none", "file", "link"}
      BY <2>1, StopIs
    <2>7. CASE At(To(a, k)) = "none" /\ Last(To(a, k)) = Up
      <3> DEFINE b == SubSeq(To(a, k), 1, k - 2)
      <3>1. r = Far(b \o From(a, k), "link")
        BY <2>1, <2>7, StopsUp DEF UpFrom
      <3>2. g = Far(b \o (From(a, k) \o s), "link")
        BY <2>1, <2>2, <2>7, StopsUp DEF UpFrom
      <3>3. b \in Locations
        BY <2>1, UpIn
      <3> HIDE DEF b
      <3>4. b \o (From(a, k) \o s) = (b \o From(a, k)) \o s
        BY <2>2, <3>3, CatAssociates
      <3> HIDE DEF r, g
      <3>5. r.err = "link" /\ r.at = b \o From(a, k)
        BY <3>1, FarFields
      <3>6. g = Far(r.at \o s, "link")
        BY <3>2, <3>4, <3>5
      <3> QED
        BY <3>5, <3>6 DEF r, g
    <2>4. CASE At(To(a, k)) = "none" /\ Last(To(a, k)) # Up
      <3>1. r = Far(NoLoc, "absent") /\ g = Far(NoLoc, "absent")
        BY <2>1, <2>2, <2>4, StopsAbsent
      <3> HIDE DEF r, g
      <3>2. r.err = "absent" /\ g.err = "absent"
        BY <3>1, FarFields
      <3> QED
        BY <3>2 DEF r, g
    <2>5. CASE At(To(a, k)) = "file"
      <3>1. r = IF From(a, k) = <<>> THEN Far(To(a, k), "ok") ELSE Far(NoLoc, "broken")
        BY <2>1, <2>5, StopsFile
      <3>2. From(a, k) = <<>> => To(a, k) = a
        <4>1. k \in 0 .. Len(a) /\ Len(a) \in Nat
          BY LenProperties DEF Locations
        <4>2. Len(From(a, k)) = Len(a) - k
          BY <4>1, Cut
        <4>3. Len(<<>>) = 0
          BY EmptySeq
        <4>4. From(a, k) = <<>> => k = Len(a)
          BY <4>1, <4>2, <4>3
        <4> QED
          BY <4>4, WholePrefix DEF To
      <3> HIDE DEF r, g
      <3>3. \/ r.at = a /\ r.err = "ok"
            \/ r.err = "broken"
        BY <3>1, <3>2, FarFields
      <3> QED
        BY <3>3 DEF r, g
    <2>6. CASE At(To(a, k)) = "link"
      <3>1. r = Far(links[To(a, k)] \o From(a, k), "link")
        BY <2>1, <2>6, StopsLink
      <3>2. g = Far(links[To(a, k)] \o (From(a, k) \o s), "link")
        BY <2>1, <2>2, <2>6, StopsLink
      <3>3. links[To(a, k)] \in Locations
        BY <2>6 DEF TreeShape, At
      <3>4. links[To(a, k)] \o (From(a, k) \o s) = (links[To(a, k)] \o From(a, k)) \o s
        BY <2>2, <3>3, CatAssociates
      <3> HIDE DEF r, g
      <3>5. r.err = "link" /\ r.at = links[To(a, k)] \o From(a, k)
        BY <3>1, FarFields
      <3>6. g = Far(r.at \o s, "link")
        BY <3>2, <3>4, <3>5
      <3> QED
        BY <3>5, <3>6 DEF r, g
    <2> QED
      BY <2>3, <2>4, <2>5, <2>6, <2>7
  <1> QED
    BY <1>1, <1>2

LEMMA WalkCat ==
  ASSUME TreeShape, NEW l \in Locations, NEW s \in Locations
  PROVE  \A i \in Nat : /\ Walk(l)[i].err = "link" => Walk(l \o s)[i] = Far(Walk(l)[i].at \o s, "link")
                        /\ Walk(l)[i].err = "absent" => Walk(l \o s)[i].err = "absent"
  <1> DEFINE f == Walk(l)
             g == Walk(l \o s)
             S == {i \in Nat : /\ f[i].err = "link" => g[i] = Far(f[i].at \o s, "link")
                               /\ f[i].err = "absent" => g[i].err = "absent"}
  <1>0. l \o s \in Locations
    BY Cat
  <1>1. f[0] = Far(l, "link") /\ \A i \in Nat : f[i] \in Fars /\ f[i + 1] = OneLink(f[i])
    BY WalkRule
  <1>2. g[0] = Far(l \o s, "link") /\ \A i \in Nat : g[i] \in Fars /\ g[i + 1] = OneLink(g[i])
    BY <1>0, WalkRule
  <1> HIDE DEF f, g
  <1>3. 0 \in S
    <2>1. f[0].err = "link" /\ f[0].at = l
      BY <1>1, FarFields
    <2> QED
      BY <1>2, <2>1
  <1>4. ASSUME NEW i \in Nat, i \in S PROVE i + 1 \in S
    <2>1. CASE f[i].err = "link"
      <3>1. f[i] = Far(f[i].at, "link") /\ f[i].at \in Locations
        BY <1>1, <2>1, FarIs
      <3>2. g[i] = Far(f[i].at \o s, "link")
        BY <1>4, <2>1
      <3>3. f[i + 1] = OneLink(Far(f[i].at, "link")) /\ g[i + 1] = OneLink(Far(f[i].at \o s, "link"))
        BY <1>1, <1>2, <3>1, <3>2
      <3>4. /\ f[i + 1].err = "link" => g[i + 1] = Far(f[i + 1].at \o s, "link")
            /\ f[i + 1].err = "absent" => g[i + 1].err = "absent"
        BY <3>1, <3>3, LinkCat
      <3> QED
        BY <3>4
    <2>2. CASE f[i].err # "link"
      <3>1. f[i + 1] = f[i]
        BY <1>1, <2>2, OneLinkSettled
      <3>2. CASE f[i].err = "absent"
        <4>1. g[i].err = "absent"
          BY <1>4, <3>2
        <4>2. g[i + 1] = g[i]
          BY <1>2, <4>1, OneLinkSettled
        <4> QED
          BY <3>1, <3>2, <4>1, <4>2
      <3>3. CASE f[i].err # "absent"
        BY <2>2, <3>1, <3>3
      <3> QED
        BY <3>2, <3>3
    <2> QED
      BY <2>1, <2>2
  <1> HIDE DEF S
  <1>5. Nat \subseteq S
    BY <1>3, <1>4, SetInduction
  <1> QED
    BY <1>5 DEF S, f, g

\* Nothing is below what does not exist.
LEMMA AbsentBelow ==
  ASSUME TreeShape, NEW l \in Locations, NEW s \in Locations, EvalSymlinks(l).err = "absent"
  PROVE  EvalSymlinks(l \o s).err = "absent"
  <1>1. MaxRounds + 1 \in Nat /\ l \o s \in Locations
    BY DepthAssumption, Cat
  <1>2. Walk(l)[MaxRounds + 1].err = "absent"
    BY EvalIn
  <1>3. Walk(l \o s)[MaxRounds + 1].err = "absent"
    BY <1>1, <1>2, WalkCat
  <1> QED
    BY <1>1, <1>3, EvalIn

\* Where a path leads is the way that its last round has taken whole.
LEMMA LastRound ==
  ASSUME TreeShape, NEW l \in Locations, EvalSymlinks(l).err = "ok"
  PROVE  \E i \in 0 .. MaxRounds : Walk(l)[i] = Far(EvalSymlinks(l).at, "link")
  <1> DEFINE f == Walk(l)
             S == {i \in Nat : f[i].err = "ok" => \E j \in Nat : j < i /\ f[j] = Far(f[i].at, "link")}
  <1>1. f[0] = Far(l, "link") /\ \A i \in Nat : f[i] \in Fars /\ f[i + 1] = OneLink(f[i])
    BY WalkRule
  <1>2. f[MaxRounds + 1] = EvalSymlinks(l)
    BY EvalIn
  <1> HIDE DEF f
  <1>3. 0 \in S
    <2>1. f[0].err = "link"
      BY <1>1, FarFields
    <2> QED
      BY <2>1
  <1>4. ASSUME NEW i \in Nat, i \in S PROVE i + 1 \in S
    <2> SUFFICES ASSUME f[i + 1].err = "ok"
                 PROVE  \E j \in Nat : j < i + 1 /\ f[j] = Far(f[i + 1].at, "link")
      OBVIOUS
    <2>1. CASE f[i].err = "link"
      <3>1. f[i] = Far(f[i].at, "link") /\ f[i].at \in Locations
        BY <1>1, <2>1, FarIs
      <3>2. f[i + 1] = OneLink(Far(f[i].at, "link"))
        BY <1>1, <3>1
      <3>3. <<>> \in Locations
        BY EmptySeq DEF Locations
      <3>4. f[i + 1].at = f[i].at
        BY <3>1, <3>2, <3>3, LinkCat
      <3> QED
        BY <3>1, <3>4
    <2>2. CASE f[i].err # "link"
      <3>1. f[i + 1] = f[i]
        BY <1>1, <2>2, OneLinkSettled
      <3>2. PICK j \in Nat : j < i /\ f[j] = Far(f[i].at, "link")
        BY <1>4, <3>1
      <3>3. j < i + 1
        BY <3>2
      <3> QED
        BY <3>1, <3>2, <3>3
    <2> QED
      BY <2>1, <2>2
  <1> HIDE DEF S
  <1>5. MaxRounds + 1 \in S
    BY <1>3, <1>4, SetInduction, DepthAssumption
  <1>6. PICK j \in Nat : j < MaxRounds + 1 /\ f[j] = Far(f[MaxRounds + 1].at, "link")
    BY <1>2, <1>5 DEF S
  <1>7. j \in 0 .. MaxRounds
    BY <1>6, DepthAssumption
  <1> QED
    BY <1>2, <1>6, <1>7 DEF f

LEMMA RoundCat ==
  ASSUME TreeShape, NEW l \in Locations, EvalSymlinks(l).err = "ok", NEW s \in Locations
  PROVE  /\ EvalSymlinks(l).at \in Locations
         /\ \E i \in 0 .. MaxRounds : Walk(l \o s)[i] = Far(EvalSymlinks(l).at \o s, "link")
  <1> DEFINE c == EvalSymlinks(l).at
  <1>1. c \in Locations
    BY EvalIn, FarIs
  <1>2. PICK i \in 0 .. MaxRounds : Walk(l)[i] = Far(c, "link")
    BY LastRound
  <1> HIDE DEF c
  <1>3. i \in Nat
    OBVIOUS
  <1>4. Walk(l)[i].err = "link" /\ Walk(l)[i].at = c
    BY <1>2, FarFields
  <1>5. Walk(l \o s)[i] = Far(c \o s, "link")
    BY <1>3, <1>4, WalkCat
  <1> QED
    BY <1>1, <1>5 DEF c

\* What is absent below a path is absent below where the path leads.
LEMMA AbsentThere ==
  ASSUME TreeShape, NEW l \in Locations, EvalSymlinks(l).err = "ok", NEW s \in Locations,
         EvalSymlinks(l \o s).err = "absent"
  PROVE  EvalSymlinks(EvalSymlinks(l).at \o s).err = "absent"
  <1> DEFINE c == EvalSymlinks(l).at
             b == c \o s
  <1>1. c \in Locations /\ \E i \in 0 .. MaxRounds : Walk(l \o s)[i] = Far(b, "link")
    BY RoundCat
  <1> HIDE DEF c
  <1>2. b \in Locations /\ l \o s \in Locations
    BY <1>1, Cat
  <1>3. PICK i \in 0 .. MaxRounds : Walk(l \o s)[i] = Far(b, "link")
    BY <1>1
  <1> HIDE DEF b
  <1>4. i \in Nat /\ MaxRounds \in Nat /\ MaxRounds + 1 - i \in 0 .. MaxRounds + 1
        /\ MaxRounds + 1 - i \in Nat /\ i + (MaxRounds + 1 - i) = MaxRounds + 1
    BY DepthAssumption
  <1>5. Walk(l \o s)[MaxRounds + 1] = Walk(b)[MaxRounds + 1 - i]
    <2>1. Walk(l \o s)[i + (MaxRounds + 1 - i)] = Walk(b)[MaxRounds + 1 - i]
      BY <1>2, <1>3, <1>4, Shift
    <2> QED
      BY <1>4, <2>1
  <1>6. Walk(l \o s)[MaxRounds + 1].err = "absent"
    BY <1>2, EvalIn
  <1>7. EvalSymlinks(b) = Walk(b)[MaxRounds + 1 - i]
    BY <1>2, <1>4, <1>5, <1>6, SettledEval
  <1> QED
    BY <1>5, <1>6, <1>7 DEF b, c

\* A path on from where a path leads, directories all the way, is reached.
LEMMA ClearThere ==
  ASSUME TreeShape, NEW l \in Locations, EvalSymlinks(l).err = "ok", NEW s \in Locations,
         Clear(EvalSymlinks(l).at \o s)
  PROVE  EvalSymlinks(l \o s) = Far(EvalSymlinks(l).at \o s, "ok")
  <1> DEFINE c == EvalSymlinks(l).at
             b == c \o s
  <1>1. c \in Locations /\ \E i \in 0 .. MaxRounds : Walk(l \o s)[i] = Far(b, "link")
    BY RoundCat
  <1>2. Clear(b)
    OBVIOUS
  <1> HIDE DEF c
  <1>3. b \in Locations /\ l \o s \in Locations
    BY <1>1, Cat
  <1>4. PICK i \in 0 .. MaxRounds : Walk(l \o s)[i] = Far(b, "link")
    BY <1>1
  <1> HIDE DEF b
  <1>5. i \in Nat /\ i + 1 \in 0 .. MaxRounds + 1
    BY DepthAssumption
  <1>6. Walk(l \o s)[i + 1] = Far(b, "ok")
    BY <1>2, <1>3, <1>4, <1>5, WalkRule, OneLinkClear
  <1>7. Walk(l \o s)[i + 1].err # "link"
    BY <1>6, FarFields
  <1>8. EvalSymlinks(l \o s) = Far(b, "ok")
    BY <1>3, <1>5, <1>6, <1>7, SettledEval
  <1> QED
    BY <1>8 DEF b, c

LEMMA FirstRound ==
  ASSUME TreeShape, NEW l \in Locations, OneLink(Far(l, "link")).err # "link"
  PROVE  EvalSymlinks(l) = OneLink(Far(l, "link"))
  <1>1. 0 + 1 \in 0 .. MaxRounds + 1 /\ 0 + 1 = 1 /\ 0 \in Nat
    BY DepthAssumption
  <1>2. Walk(l)[0] = Far(l, "link") /\ Walk(l)[0 + 1] = OneLink(Walk(l)[0])
    BY <1>1, WalkRule
  <1> QED
    BY <1>1, <1>2, SettledEval

LEMMA EvalClear ==
  ASSUME TreeShape, NEW l \in Locations, Clear(l)
  PROVE  EvalSymlinks(l) = Far(l, "ok")
  <1>1. OneLink(Far(l, "link")) = Far(l, "ok") /\ Far(l, "ok").err = "ok"
    BY OneLinkClear, FarFields
  <1> QED
    BY <1>1, FirstRound

LEMMA EvalNone ==
  ASSUME TreeShape, NEW l \in Locations, NEW k, StopsAt(l, k), At(To(l, k)) = "none", Last(To(l, k)) # Up
  PROVE  EvalSymlinks(l).err = "absent"
  <1>1. OneLink(Far(l, "link")) = Far(NoLoc, "absent") /\ Far(NoLoc, "absent").err = "absent"
    BY StopsAbsent, FarFields
  <1> QED
    BY <1>1, FirstRound

\* Where something is found, there is a directory or a file, below directories.
Lands(c) == Clear(c) \/ (StopsAt(c, Len(c)) /\ At(c) = "file")

LEMMA LinkLands ==
  ASSUME TreeShape, NEW a \in Locations, OneLink(Far(a, "link")).err = "ok"
  PROVE  OneLink(Far(a, "link")).at = a /\ Lands(a)
  <1>0. <<>> \in Locations
    BY EmptySeq DEF Locations
  <1>1. OneLink(Far(a, "link")).at = a
    BY <1>0, LinkCat
  <1>2. ASSUME ~Clear(a) PROVE StopsAt(a, Len(a)) /\ At(a) = "file"
    <2>1. PICK k \in 1 .. Len(a) : StopsAt(a, k)
      BY <1>2, ClearOrStops
    <2>2. At(To(a, k)) \in {"none", "file", "link"}
      BY <2>1, StopIs
    <2>3. At(To(a, k)) # "none"
      BY <2>1, StopsAbsent, StopsUp, FarFields
    <2>4. At(To(a, k)) # "link"
      BY <2>1, StopsLink, FarFields
    <2>5. At(To(a, k)) = "file"
      BY <2>2, <2>3, <2>4
    <2>6. From(a, k) = <<>>
      BY <2>1, <2>5, StopsFile, FarFields
    <2>7. k = Len(a)
      <3>1. k \in 0 .. Len(a) /\ Len(a) \in Nat
        BY LenProperties DEF Locations
      <3>2. Len(From(a, k)) = Len(a) - k
        BY <3>1, Cut
      <3>3. Len(<<>>) = 0
        BY EmptySeq
      <3> QED
        BY <2>6, <3>1, <3>2, <3>3
    <2> QED
      BY <2>1, <2>5, <2>7, WholePrefix DEF To
  <1> QED
    BY <1>1, <1>2 DEF Lands

LEMMA EvalLands ==
  ASSUME TreeShape, NEW l \in Locations, EvalSymlinks(l).err = "ok"
  PROVE  EvalSymlinks(l).at \in Locations /\ Lands(EvalSymlinks(l).at)
  <1> DEFINE f == Walk(l)
             S == {i \in Nat : f[i].err = "ok" => Lands(f[i].at)}
  <1>1. f[0] = Far(l, "link") /\ \A i \in Nat : f[i] \in Fars /\ f[i + 1] = OneLink(f[i])
    BY WalkRule
  <1>2. f[MaxRounds + 1] = EvalSymlinks(l) /\ EvalSymlinks(l) \in Fars
    BY EvalIn
  <1> HIDE DEF f
  <1>3. 0 \in S
    <2>1. f[0].err = "link"
      BY <1>1, FarFields
    <2> QED
      BY <2>1
  <1>4. ASSUME NEW i \in Nat, i \in S PROVE i + 1 \in S
    <2> SUFFICES ASSUME f[i + 1].err = "ok" PROVE Lands(f[i + 1].at)
      OBVIOUS
    <2>1. CASE f[i].err = "link"
      <3>1. f[i] = Far(f[i].at, "link") /\ f[i].at \in Locations
        BY <1>1, <2>1, FarIs
      <3>2. f[i + 1] = OneLink(Far(f[i].at, "link"))
        BY <1>1, <3>1
      <3> QED
        BY <3>1, <3>2, LinkLands
    <2>2. CASE f[i].err # "link"
      <3>1. f[i + 1] = f[i]
        BY <1>1, <2>2, OneLinkSettled
      <3> QED
        BY <1>4, <3>1
    <2> QED
      BY <2>1, <2>2
  <1> HIDE DEF S
  <1>5. MaxRounds + 1 \in S
    BY <1>3, <1>4, SetInduction, DepthAssumption
  <1> QED
    BY <1>2, <1>5, FarIs DEF S

\* What the walk calls a directory is one at its own path.
LEMMA StatIs ==
  ASSUME TreeShape, NEW l \in Locations, l # NoLoc
  PROVE  /\ Clear(l) => Stat(l) = "dir"
         /\ Stat(l) = "dir" => EvalSymlinks(l).err = "ok"
         /\ Stat(l) # "none" => EvalSymlinks(l).err = "ok"
  <1>1. Stat(l) # "none" => EvalSymlinks(l).err = "ok"
    BY DEF Stat
  <1>2. ASSUME Clear(l) PROVE Stat(l) = "dir"
    <2>1. EvalSymlinks(l).err = "ok" /\ EvalSymlinks(l).at = l
      BY <1>2, EvalClear, FarFields
    <2>2. Len(l) \in Nat \ {0}
      BY EmptySeq DEF NoLoc, Locations
    <2>3. At(To(l, Len(l))) = "dir"
      BY <1>2, <2>2 DEF Clear, To
    <2>4. At(l) = "dir"
      BY <2>3, WholePrefix DEF To
    <2> QED
      BY <2>1, <2>4 DEF Stat
  <1> QED
    BY <1>1, <1>2

-----------------------------------------------------------------------------
(* filepath.Join: one step for each name of the path.                       *)

LEMMA AlongIs ==
  ASSUME NEW step \in [Segments -> [Locations -> Locations]], NEW base \in Locations, NEW path \in Locations
  PROVE  \E at : /\ at[0] = base /\ Along(step, base, path) = at[Len(path)]
                 /\ \A i \in 0 .. Len(path) : at[i] \in Locations
                 /\ \A i \in 0 .. Len(path) - 1 : at[i + 1] = step[path[i + 1]][at[i]]
  <1> DEFINE turn == [j \in Nat |-> step[path[j + 1]]]
             walk == LET at[i \in Nat] == IF i = 0 THEN base ELSE step[path[i]][at[i - 1]] IN at
  <1>0. Len(path) \in Nat /\ \A i \in 1 .. Len(path) : path[i] \in Segments
    BY LenProperties, ElementOfSeq DEF Locations
  <1>1. PICK f : Recursion(f, turn, base)
    BY RecursionExists
  <1>2. f = [i \in Nat |-> IF i = 0 THEN base ELSE turn[i - 1][f[i - 1]]]
    BY <1>1 DEF Recursion
  <1>3. f = [i \in Nat |-> IF i = 0 THEN base ELSE step[path[i]][f[i - 1]]]
    <2>1. f = [i \in Nat |-> f[i]]
      BY <1>2
    <2>2. ASSUME NEW i \in Nat PROVE f[i] = IF i = 0 THEN base ELSE step[path[i]][f[i - 1]]
      <3>1. CASE i = 0
        BY <1>2, <3>1
      <3>2. CASE i # 0
        <4>1. i - 1 \in Nat /\ (i - 1) + 1 = i
          BY <3>2
        <4>2. turn[i - 1] = step[path[i]]
          BY <4>1
        <4> HIDE DEF turn
        <4> QED
          BY <1>2, <3>2, <4>2
      <3> QED
        BY <3>1, <3>2
    <2> QED
      BY <2>1, <2>2
  <1>4. walk = [i \in Nat |-> IF i = 0 THEN base ELSE step[path[i]][walk[i - 1]]]
    BY <1>3
  <1>5. Along(step, base, path) = walk[Len(path)]
    BY Zenon DEF Along
  <1> HIDE DEF walk
  <1>6. walk[0] = base
    BY <1>4
  <1>7. ASSUME NEW i \in Nat PROVE walk[i + 1] = step[path[i + 1]][walk[i]]
    <2>1. i + 1 \in Nat /\ i + 1 # 0 /\ (i + 1) - 1 = i
      OBVIOUS
    <2> QED
      BY <1>4, <2>1
  <1> DEFINE S == {i \in Nat : i <= Len(path) => walk[i] \in Locations}
  <1>8. 0 \in S
    BY <1>6
  <1>9. ASSUME NEW i \in Nat, i \in S PROVE i + 1 \in S
    <2> SUFFICES ASSUME i + 1 <= Len(path) PROVE walk[i + 1] \in Locations
      OBVIOUS
    <2>1. i + 1 \in 1 .. Len(path) /\ i <= Len(path)
      BY <1>0
    <2>2. walk[i] \in Locations /\ path[i + 1] \in Segments
      BY <1>0, <1>9, <2>1
    <2>3. step[path[i + 1]] \in [Locations -> Locations]
      BY <2>2
    <2>4. step[path[i + 1]][walk[i]] \in Locations
      BY <2>2, <2>3
    <2> QED
      BY <1>7, <2>4
  <1> HIDE DEF S
  <1>10. Nat \subseteq S
    BY <1>8, <1>9, SetInduction
  <1>11. \A i \in 0 .. Len(path) : i \in Nat /\ i <= Len(path)
    BY <1>0
  <1>12. \A i \in 0 .. Len(path) : walk[i] \in Locations
    BY <1>10, <1>11 DEF S
  <1>13. \A i \in 0 .. Len(path) - 1 : i \in Nat
    BY <1>0
  <1> QED
    BY <1>5, <1>6, <1>7, <1>12, <1>13

LEMMA AlongIn ==
  ASSUME NEW step \in [Segments -> [Locations -> Locations]], NEW base \in Locations, NEW path \in Locations
  PROVE  Along(step, base, path) \in Locations
  <1>1. PICK at : /\ Along(step, base, path) = at[Len(path)]
                  /\ \A i \in 0 .. Len(path) : at[i] \in Locations
    BY AlongIs
  <1>2. Len(path) \in 0 .. Len(path)
    BY LenProperties DEF Locations
  <1> QED
    BY <1>1, <1>2

LEMMA CleanIn == Clean \in [Segments -> [Locations -> Locations]]
  <1>1. ASSUME NEW n \in Segments, NEW l \in Locations
        PROVE  (IF n # Up THEN Append(l, n) ELSE IF l = <<>> THEN l ELSE Front(l)) \in Locations
    <2>1. Append(l, n) \in Locations
      BY AppendProperties DEF Locations
    <2>2. ASSUME l # <<>> PROVE Front(l) \in Locations
      <3>1. Len(l) \in Nat \ {0}
        BY <2>2, EmptySeq DEF Locations
      <3>2. Len(l) - 1 \in 0 .. Len(l)
        BY <3>1
      <3> QED
        BY <3>2, PrefixIn DEF Front
    <2> QED
      BY <2>1, <2>2
  <1> HIDE DEF Locations
  <1>2. ASSUME NEW n \in Segments
        PROVE  [l \in Locations |-> IF n # Up THEN Append(l, n) ELSE IF l = <<>> THEN l ELSE Front(l)]
                 \in [Locations -> Locations]
    BY <1>1
  <1> QED
    BY <1>2 DEF Clean

LEMMA KeepIn == Keep \in [Segments -> [Locations -> Locations]]
  <1>1. ASSUME NEW n \in Segments, NEW l \in Locations
        PROVE  (IF n # Fallback THEN Append(l, n) ELSE l) \in Locations
    BY AppendProperties DEF Locations
  <1>2. ASSUME NEW n \in Segments
        PROVE  [l \in Locations |-> IF n # Fallback THEN Append(l, n) ELSE l] \in [Locations -> Locations]
    BY <1>1
  <1> QED
    BY <1>2 DEF Keep

LEMMA RootIn == Root \in Locations /\ Len(Root) = 1 /\ Root # NoLoc /\ NoLoc \in Locations /\ Root[1] = "in"
  <1>1. "in" \in Segments
    BY DEF Segments
  <1> QED
    BY <1>1 DEF Root, NoLoc, Locations

LEMMA JoinIn ==
  ASSUME NEW path \in Locations
  PROVE  Join(Root, path) \in Locations
  BY AlongIn, CleanIn, RootIn DEF Join

LEMMA PartsIn ==
  ASSUME NEW relPath \in Locations
  PROVE  Parts(relPath) \in Locations
  BY AlongIn, KeepIn, RootIn DEF Parts, NoLoc

LEMMA NextPrefix ==
  ASSUME NEW a \in Locations, NEW path \in Locations, NEW i \in 0 .. Len(path) - 1
  PROVE  Append(a \o To(path, i), path[i + 1]) = a \o To(path, i + 1)
  <1>0. Len(path) \in Nat /\ i \in Nat /\ i + 1 \in 1 .. Len(path) /\ i \in 0 .. Len(path) /\ i + 1 \in 0 .. Len(path)
    BY LenProperties DEF Locations
  <1>1. path[i + 1] \in Segments
    BY <1>0, ElementOfSeq DEF Locations
  <1>2. To(path, i) \in Locations /\ To(path, i + 1) \in Locations
    BY <1>0, Cut
  <1>3. To(path, i + 1) = To(path, i) \o <<path[i + 1]>>
    <2>1. 1 \in 1 .. Len(path) /\ i + 1 \in 1 .. Len(path) /\ (i + 1) - 1 = i
      BY <1>0
    <2> QED
      BY <2>1, SubSeqRecursiveSecond DEF To, Locations
  <1>4. a \o To(path, i) \in Locations
    BY <1>2, Cat
  <1>5. Append(a \o To(path, i), path[i + 1]) = (a \o To(path, i)) \o <<path[i + 1]>>
    BY <1>1, <1>4, AppendIsConcat DEF Locations
  <1>6. <<path[i + 1]>> \in Locations
    BY <1>1 DEF Locations
  <1> DEFINE t == To(path, i)
             e == <<path[i + 1]>>
  <1>7. a \o (t \o e) = (a \o t) \o e
    <2>1. t \in Locations /\ e \in Locations
      BY <1>2, <1>6
    <2> HIDE DEF t, e
    <2> QED
      BY <2>1, CatAssociates
  <1> QED
    BY <1>3, <1>5, <1>7

\* Without "..", filepath.Join only puts the path behind the root.
LEMMA JoinPlain ==
  ASSUME NEW path \in Locations, \A i \in DOMAIN path : path[i] # Up
  PROVE  Join(Root, path) = Root \o path
  <1>0. Len(path) \in Nat /\ DOMAIN path = 1 .. Len(path) /\ \A i \in 1 .. Len(path) : path[i] \in Segments
    BY LenProperties, ElementOfSeq DEF Locations
  <1>1. PICK at : /\ at[0] = Root /\ Along(Clean, Root, path) = at[Len(path)]
                  /\ \A i \in 0 .. Len(path) : at[i] \in Locations
                  /\ \A i \in 0 .. Len(path) - 1 : at[i + 1] = Clean[path[i + 1]][at[i]]
    <2>1. Clean \in [Segments -> [Locations -> Locations]]
      BY CleanIn
    <2>2. Root \in Locations
      BY RootIn
    <2> QED
      BY <2>1, <2>2, AlongIs
  <1> DEFINE S == {i \in Nat : i <= Len(path) => at[i] = Root \o To(path, i)}
  <1>2. 0 \in S
    <2>1. To(path, 0) = <<>>
      BY SubSeqEmpty DEF To
    <2>2. Root \o <<>> = Root
      BY RootIn, ConcatEmptySeq DEF Locations
    <2> QED
      BY <1>1, <2>1, <2>2
  <1>3. ASSUME NEW i \in Nat, i \in S PROVE i + 1 \in S
    <2> SUFFICES ASSUME i + 1 <= Len(path) PROVE at[i + 1] = Root \o To(path, i + 1)
      OBVIOUS
    <2>1. i \in 0 .. Len(path) - 1 /\ i + 1 \in 1 .. Len(path) /\ i <= Len(path) /\ i \in 0 .. Len(path)
      BY <1>0
    <2>2. at[i] = Root \o To(path, i) /\ at[i] \in Locations
      BY <1>1, <1>3, <2>1
    <2>3. path[i + 1] # Up /\ path[i + 1] \in Segments
      BY <1>0, <2>1
    <2>4. Clean[path[i + 1]][at[i]] = Append(at[i], path[i + 1])
      BY <2>2, <2>3 DEF Clean
    <2>5. at[i + 1] = Append(Root \o To(path, i), path[i + 1])
      BY <1>1, <2>1, <2>2, <2>4
    <2> QED
      BY <2>1, <2>5, NextPrefix, RootIn
  <1> HIDE DEF S
  <1>4. Len(path) \in S
    BY <1>0, <1>2, <1>3, SetInduction
  <1>5. at[Len(path)] = Root \o To(path, Len(path))
    BY <1>0, <1>4 DEF S
  <1>6. To(path, Len(path)) = path
    BY WholePrefix DEF To
  <1>7. Join(Root, path) = at[Len(path)]
    BY <1>1 DEF Join
  <1> QED
    BY <1>5, <1>6, <1>7

-----------------------------------------------------------------------------
(* SafePath.                                                                *)

LEMMA Within ==
  ASSUME NEW l \in Locations
  PROVE  isWithinRoot(l) <=> Len(l) >= 1 /\ To(l, 1) = Root
  <1>1. Len(Root) = 1 /\ SubSeq(Root, 1, Len(Root)) = Root
    BY RootIn, WholePrefix
  <1>2. Len(l) \in Nat
    BY LenProperties DEF Locations
  <1> HIDE DEF Root
  <1> QED
    BY <1>1, <1>2 DEF isWithinRoot, IsPrefix, To

\* What is inside is not empty, and what is above it is inside.
LEMMA InsideAbove ==
  ASSUME NEW l \in Locations, isWithinRoot(l), NEW k \in 1 .. Len(l)
  PROVE  To(l, k) \in Locations /\ isWithinRoot(To(l, k)) /\ To(l, k) # NoLoc
  <1>1. Len(l) \in Nat
    BY LenProperties DEF Locations
  <1>2. To(l, 1) = Root
    BY Within
  <1>3. k \in 0 .. Len(l) /\ 1 \in 0 .. k /\ k >= 1
    BY <1>1
  <1>4. To(l, k) \in Locations /\ Len(To(l, k)) = k /\ To(To(l, k), 1) = To(l, 1)
    BY <1>3, Cut
  <1>5. isWithinRoot(To(l, k))
    BY <1>2, <1>3, <1>4, Within
  <1>6. Len(NoLoc) = 0
    BY EmptySeq DEF NoLoc
  <1> QED
    BY <1>3, <1>4, <1>5, <1>6

LEMMA InsideIsSome ==
  ASSUME NEW l \in Locations, isWithinRoot(l)
  PROVE  l # NoLoc /\ Len(l) \in Nat \ {0}
  <1>1. Len(l) \in Nat /\ Len(l) >= 1
    BY Within, LenProperties DEF Locations
  <1>2. Len(NoLoc) = 0
    BY EmptySeq DEF NoLoc
  <1> QED
    BY <1>1, <1>2

\* The walk to the deepest ancestor that exists ends at the k-th.
Deepest(l, k) == /\ k \in Len(Root) .. Len(l) /\ EvalSymlinks(SubSeq(l, 1, k)).err # "absent"
                 /\ \A i \in k + 1 .. Len(l) : EvalSymlinks(SubSeq(l, 1, i)).err = "absent"

LEMMA DeepestIsOne ==
  ASSUME NEW l \in Locations, NEW j, NEW k, Deepest(l, j), Deepest(l, k)
  PROVE  j = k
  <1>0. Len(l) \in Nat /\ Len(Root) = 1 /\ j \in 1 .. Len(l) /\ k \in 1 .. Len(l)
    BY LenProperties, RootIn DEF Locations, Deepest
  <1>1. CASE j < k
    <2>1. k \in j + 1 .. Len(l)
      BY <1>0, <1>1
    <2> QED
      BY <2>1 DEF Deepest
  <1>2. CASE k < j
    <2>1. j \in k + 1 .. Len(l)
      BY <1>0, <1>2
    <2> QED
      BY <2>1 DEF Deepest
  <1> QED
    BY <1>0, <1>1, <1>2

\* A set of numbers has a largest one, if it has one and they are bounded.
LEMMA Largest ==
  ASSUME NEW n \in Nat, NEW T, T \subseteq 0 .. n, T # {}
  PROVE  \E k \in T : \A i \in T : i <= k
  <1> SUFFICES ASSUME \A k \in T : \E i \in T : k < i PROVE FALSE
    OBVIOUS
  <1> DEFINE S == {m \in Nat : \E i \in T : m <= i}
  <1>1. 0 \in S
    <2>1. PICK i \in T : TRUE
      OBVIOUS
    <2>2. 0 <= i
      OBVIOUS
    <2> QED
      BY <2>2
  <1>2. ASSUME NEW m \in Nat, m \in S PROVE m + 1 \in S
    <2>1. PICK i \in T : m <= i
      BY <1>2
    <2>2. PICK j \in T : i < j
      OBVIOUS
    <2>3. m + 1 <= j
      BY <2>1, <2>2
    <2> QED
      BY <2>3
  <1> HIDE DEF S
  <1>3. n + 1 \in S
    BY <1>1, <1>2, SetInduction
  <1> QED
    BY <1>3 DEF S

LEMMA DeepestExists ==
  ASSUME TreeShape, NEW l \in Locations, isWithinRoot(l)
  PROVE  \E k : Deepest(l, k)
  <1> DEFINE T == {k \in 1 .. Len(l) : EvalSymlinks(SubSeq(l, 1, k)).err # "absent"}
  <1>0. Len(l) \in Nat \ {0} /\ Len(Root) = 1 /\ To(l, 1) = Root /\ Root \in Locations
    BY Within, InsideIsSome, RootIn
  <1>1. Clear(Root)
    <2>1. At(Root) = "dir"
      BY DEF TreeShape, At
    <2>2. To(Root, 1) = Root
      BY <1>0, WholePrefix DEF To
    <2>3. \A k \in 1 .. Len(Root) : k = 1
      BY <1>0
    <2> QED
      BY <2>1, <2>2, <2>3 DEF Clear, To
  <1>2. EvalSymlinks(SubSeq(l, 1, 1)).err = "ok"
    <2>1. EvalSymlinks(Root).err = "ok"
      BY <1>0, <1>1, EvalClear, FarFields
    <2> QED
      BY <1>0, <2>1 DEF To
  <1>3. 1 \in T /\ T \subseteq 0 .. Len(l)
    BY <1>0, <1>2
  <1>4. PICK k \in T : \A i \in T : i <= k
    BY <1>0, <1>3, Largest
  <1>5. ASSUME NEW i \in k + 1 .. Len(l) PROVE EvalSymlinks(SubSeq(l, 1, i)).err = "absent"
    <2>1. i \in 1 .. Len(l) /\ ~(i <= k)
      BY <1>0
    <2> QED
      BY <1>4, <2>1
  <1>6. k \in Len(Root) .. Len(l) /\ EvalSymlinks(SubSeq(l, 1, k)).err # "absent"
    BY <1>0
  <1> HIDE DEF T
  <1>7. Deepest(l, k)
    BY <1>5, <1>6 DEF Deepest
  <1> QED
    BY <1>7

LEMMA AncestorWalk ==
  ASSUME NEW l \in Locations, NEW k, Deepest(l, k)
  PROVE  resolveWithAncestorWalk(l) =
           IF EvalSymlinks(To(l, k)).err = "ok" THEN EvalSymlinks(To(l, k)).at \o From(l, k) ELSE NoLoc
  <1> DEFINE deepest == CHOOSE j \in Len(Root) .. Len(l) :
                          /\ EvalSymlinks(SubSeq(l, 1, j)).err # "absent"
                          /\ \A i \in j + 1 .. Len(l) : EvalSymlinks(SubSeq(l, 1, i)).err = "absent"
             outcome(j) == IF EvalSymlinks(SubSeq(l, 1, j)).err = "ok"
                           THEN EvalSymlinks(SubSeq(l, 1, j)).at \o SubSeq(l, j + 1, Len(l)) ELSE NoLoc
  <1>1. Deepest(l, deepest)
    <2>1. \E j \in Len(Root) .. Len(l) :
                          /\ EvalSymlinks(SubSeq(l, 1, j)).err # "absent"
                          /\ \A i \in j + 1 .. Len(l) : EvalSymlinks(SubSeq(l, 1, i)).err = "absent"
      BY DEF Deepest
    <2> QED
      BY <2>1 DEF Deepest
  <1>2. resolveWithAncestorWalk(l) = outcome(deepest)
    BY Zenon DEF resolveWithAncestorWalk
  <1> HIDE DEF deepest, outcome
  <1>3. deepest = k
    BY <1>1, DeepestIsOne
  <1>4. resolveWithAncestorWalk(l) = outcome(k)
    BY <1>2, <1>3
  <1> QED
    BY <1>4, Zenon DEF outcome, To, From

\* The way to a location, when it was resolved: a part of l is found, and the rest of
\* l follows where it leads.
Route(l, to) == \E k \in 0 .. Len(l) : /\ EvalSymlinks(To(l, k)).err = "ok"
                                       /\ to = EvalSymlinks(To(l, k)).at \o From(l, k)

\* What SafePath returns.
LEMMA SafePathIs ==
  ASSUME TreeShape, NEW path \in Locations, SafePath(path) # NoLoc
  PROVE  LET l == Join(Root, path)
             to == SafePath(path)
         IN  /\ l \in Locations /\ isWithinRoot(l) /\ to \in Locations /\ isWithinRoot(to)
             /\ \E k \in 0 .. Len(l) : /\ EvalSymlinks(To(l, k)).err = "ok"
                                       /\ to = EvalSymlinks(To(l, k)).at \o From(l, k)
                                       /\ k = Len(l) \/ EvalSymlinks(l).err = "absent"
                                       /\ \A i \in k + 1 .. Len(l) : EvalSymlinks(To(l, i)).err = "absent"
  <1> DEFINE l == Join(Root, path)
             to == SafePath(path)
  <1>1. l \in Locations
    BY JoinIn
  <1>2. isWithinRoot(l) /\ isWithinRoot(to) /\ to = resolveWithAncestorWalk(l)
    BY DEF SafePath
  <1>3. to # NoLoc
    OBVIOUS
  <1> HIDE DEF l, to
  <1>4. PICK k : Deepest(l, k)
    BY <1>1, <1>2, DeepestExists
  <1>5. Len(l) \in Nat /\ k \in 1 .. Len(l) /\ k \in 0 .. Len(l)
    BY <1>1, <1>4, LenProperties, RootIn DEF Locations, Deepest
  <1>6. EvalSymlinks(To(l, k)).err = "ok" /\ to = EvalSymlinks(To(l, k)).at \o From(l, k)
    BY <1>1, <1>2, <1>3, <1>4, AncestorWalk
  <1>7. ASSUME k # Len(l) PROVE EvalSymlinks(l).err = "absent"
    <2>1. Len(l) \in k + 1 .. Len(l)
      BY <1>5, <1>7
    <2>2. EvalSymlinks(SubSeq(l, 1, Len(l))).err = "absent"
      BY <1>4, <2>1 DEF Deepest
    <2> QED
      BY <1>1, <2>2, WholePrefix
  <1>8. To(l, k) \in Locations /\ From(l, k) \in Locations
    BY <1>1, <1>5, Cut
  <1>9. EvalSymlinks(To(l, k)).at \in Locations
    BY <1>6, <1>8, EvalLands
  <1>10. to \in Locations
    BY <1>6, <1>8, <1>9, Cat
  <1>11. \E j \in 0 .. Len(l) : /\ EvalSymlinks(To(l, j)).err = "ok"
                                /\ to = EvalSymlinks(To(l, j)).at \o From(l, j)
                                /\ j = Len(l) \/ EvalSymlinks(l).err = "absent"
                                /\ \A i \in j + 1 .. Len(l) : EvalSymlinks(To(l, i)).err = "absent"
    <2>1. \A i \in k + 1 .. Len(l) : EvalSymlinks(To(l, i)).err = "absent"
      BY <1>4 DEF Deepest, To
    <2> QED
      BY <1>5, <1>6, <1>7, <2>1
  <1> QED
    BY <1>1, <1>2, <1>10, <1>11 DEF l, to

LEMMA SafePathIn ==
  ASSUME TreeShape, NEW path \in Locations
  PROVE  SafePath(path) \in Locations /\ (SafePath(path) # NoLoc => isWithinRoot(SafePath(path)))
  BY SafePathIs, RootIn

\* A way that is clear is the way there.
LEMMA RouteClear ==
  ASSUME TreeShape, NEW l \in Locations, NEW to, Route(l, to), Clear(to)
  PROVE  EvalSymlinks(l) = Far(to, "ok")
  <1>1. PICK k \in 0 .. Len(l) : /\ EvalSymlinks(To(l, k)).err = "ok"
                                 /\ to = EvalSymlinks(To(l, k)).at \o From(l, k)
    BY DEF Route
  <1>2. To(l, k) \in Locations /\ From(l, k) \in Locations /\ To(l, k) \o From(l, k) = l
    BY Cut
  <1>3. EvalSymlinks(To(l, k) \o From(l, k)) = Far(to, "ok")
    BY <1>1, <1>2, ClearThere
  <1> QED
    BY <1>2, <1>3

\* A directory where SafePath says is where the path leads.
LEMMA SafePathDir ==
  ASSUME TreeShape, NEW path \in Locations, SafePath(path) # NoLoc, Stat(SafePath(path)) = "dir"
  PROVE  /\ EvalSymlinks(Join(Root, path)) = Far(SafePath(path), "ok")
         /\ At(SafePath(path)) = "dir"
  <1> DEFINE l == Join(Root, path)
             to == SafePath(path)
  <1>1. /\ l \in Locations /\ isWithinRoot(l) /\ to \in Locations /\ isWithinRoot(to)
        /\ \E k \in 0 .. Len(l) : /\ EvalSymlinks(To(l, k)).err = "ok"
                                  /\ to = EvalSymlinks(To(l, k)).at \o From(l, k)
                                  /\ k = Len(l) \/ EvalSymlinks(l).err = "absent"
    BY SafePathIs
  <1>2. Stat(to) = "dir"
    OBVIOUS
  <1> HIDE DEF l, to
  <1>3. PICK k \in 0 .. Len(l) : /\ EvalSymlinks(To(l, k)).err = "ok"
                                 /\ to = EvalSymlinks(To(l, k)).at \o From(l, k)
                                 /\ k = Len(l) \/ EvalSymlinks(l).err = "absent"
    BY <1>1
  <1>4. To(l, k) \in Locations /\ From(l, k) \in Locations /\ To(l, k) \o From(l, k) = l
        /\ Len(From(l, k)) = Len(l) - k
    BY <1>1, Cut
  <1>5. k = Len(l)
    <2> SUFFICES ASSUME k # Len(l) PROVE FALSE
      OBVIOUS
    <2>1. EvalSymlinks(To(l, k) \o From(l, k)).err = "absent"
      BY <1>3, <1>4
    <2>2. EvalSymlinks(to).err = "absent"
      BY <1>3, <1>4, <2>1, AbsentThere
    <2> QED
      BY <1>2, <2>2 DEF Stat
  <1>6. EvalSymlinks(l).err = "ok" /\ to = EvalSymlinks(l).at
    <2>1. Len(l) \in Nat
      BY <1>1, LenProperties DEF Locations
    <2>2. From(l, k) = <<>>
      BY <1>4, <1>5, <2>1, EmptySeq DEF Locations
    <2>3. To(l, k) = l
      BY <1>1, <1>5, WholePrefix DEF To
    <2>4. EvalSymlinks(l).at \in Locations
      BY <1>3, <2>3, <1>1, EvalLands
    <2>5. EvalSymlinks(l).at \o <<>> = EvalSymlinks(l).at
      BY <2>4, ConcatEmptySeq DEF Locations
    <2> QED
      BY <1>3, <2>2, <2>3, <2>5
  <1>7. Lands(to)
    BY <1>1, <1>6, EvalLands
  <1>8. Len(to) \in Nat \ {0}
    BY <1>1, InsideIsSome
  <1>9. Clear(to)
    <2> SUFFICES ASSUME ~Clear(to) PROVE FALSE
      OBVIOUS
    <2>1. StopsAt(to, Len(to)) /\ At(to) = "file"
      BY <1>7 DEF Lands
    <2>2. Len(to) \in 0 .. Len(to) /\ To(to, Len(to)) = to
      BY <1>1, <1>8, WholePrefix DEF To
    <2>3. From(to, Len(to)) = <<>>
      <3>1. From(to, Len(to)) \in Locations /\ Len(From(to, Len(to))) = Len(to) - Len(to)
        BY <1>1, <2>2, Cut
      <3> QED
        BY <1>8, <3>1, EmptySeq DEF Locations
    <2>4. OneLink(Far(to, "link")) = Far(to, "ok")
      BY <1>1, <2>1, <2>2, <2>3, StopsFile
    <2>5. EvalSymlinks(to) = Far(to, "ok")
      BY <1>1, <2>4, FirstRound, FarFields
    <2> QED
      BY <1>2, <2>1, <2>5, FarFields DEF Stat
  <1>10. At(to) = "dir"
    <2>1. Len(to) \in 1 .. Len(to) /\ to \in Locations
      BY <1>1, <1>8
    <2>2. To(to, Len(to)) = to
      BY <2>1, WholePrefix DEF To
    <2> QED
      BY <1>9, <2>1, <2>2 DEF Clear, To
  <1>11. EvalSymlinks(l) = Far(to, "ok")
    BY <1>1, <1>6, EvalIn, FarIs
  <1> QED
    BY <1>10, <1>11 DEF l, to

\* A path that leads to somewhere inside is resolved to that.
LEMMA SafePathFound ==
  ASSUME TreeShape, NEW path \in Locations, NEW to \in Locations, isWithinRoot(Join(Root, path)),
         EvalSymlinks(Join(Root, path)) = Far(to, "ok"), isWithinRoot(to)
  PROVE  SafePath(path) = to
  <1> DEFINE l == Join(Root, path)
  <1>1. l \in Locations /\ isWithinRoot(l) /\ EvalSymlinks(l).err = "ok" /\ EvalSymlinks(l).at = to
    BY JoinIn, FarFields
  <1>2. SafePath(path) = IF isWithinRoot(resolveWithAncestorWalk(l)) THEN resolveWithAncestorWalk(l) ELSE NoLoc
    BY DEF SafePath
  <1> HIDE DEF l
  <1>3. Len(l) \in Nat \ {0} /\ Len(Root) = 1
    BY <1>1, InsideIsSome, RootIn
  <1>4. Deepest(l, Len(l))
    <2>1. SubSeq(l, 1, Len(l)) = l
      BY <1>1, WholePrefix
    <2>2. Len(l) \in Len(Root) .. Len(l) /\ Len(l) + 1 .. Len(l) = {}
      BY <1>3
    <2> QED
      BY <1>1, <2>1, <2>2 DEF Deepest
  <1>5. To(l, Len(l)) = l /\ From(l, Len(l)) = <<>>
    BY <1>1, <1>3, WholePrefix, SubSeqEmpty DEF To, From
  <1>6. to \o <<>> = to
    BY ConcatEmptySeq DEF Locations
  <1>7. resolveWithAncestorWalk(l) = to
    BY <1>1, <1>4, <1>5, <1>6, AncestorWalk
  <1> QED
    BY <1>2, <1>7

-----------------------------------------------------------------------------
(* Ways without "..".                                                       *)

\* A way cut in the middle of its second half.
LEMMA ToCat ==
  ASSUME NEW a \in Locations, NEW s \in Locations, NEW m \in 0 .. Len(s)
  PROVE  To(a \o s, Len(a) + m) = a \o To(s, m)
  <1>1. a \o s \in Locations /\ Len(a \o s) = Len(a) + Len(s) /\ Len(a) \in Nat /\ Len(s) \in Nat
    BY Cat
  <1>2. To(s, m) \in Locations /\ From(s, m) \in Locations /\ Len(To(s, m)) = m /\ To(s, m) \o From(s, m) = s
    BY Cut
  <1>7. PICK t \in Locations, r \in Locations : t = To(s, m) /\ r = From(s, m)
    BY <1>2
  <1> DEFINE b == a \o t
  <1>8. Len(t) = m /\ t \o r = s
    BY <1>2, <1>7
  <1>3. b \in Locations /\ Len(b) = Len(a) + m
    <2>1. a \o t \in Locations /\ Len(a \o t) = Len(a) + Len(t)
      BY Cat
    <2> QED
      BY <1>8, <2>1
  <1>4. a \o s = b \o r
    <2>1. a \o (t \o r) = (a \o t) \o r
      BY CatAssociates
    <2> QED
      BY <1>8, <2>1
  <1> HIDE DEF b
  <1>5. Len(b) \in 0 .. Len(b) /\ To(b, Len(b)) = b
    BY <1>3, WholePrefix, LenProperties DEF To, Locations
  <1>6. To(b \o r, Len(b)) = To(b, Len(b))
    BY <1>3, <1>5, Cat
  <1> QED
    BY <1>3, <1>4, <1>5, <1>6, <1>7 DEF b

\* The last name of a way, and what is above it.
LEMMA OneMore ==
  ASSUME NEW a \in Locations, NEW x \in Segments
  PROVE  /\ <<x>> \in Locations /\ Len(<<x>>) = 1
         /\ Append(a, x) \in Locations /\ Append(a, x) = a \o <<x>> /\ Len(Append(a, x)) = Len(a) + 1
         /\ Front(Append(a, x)) = a /\ Append(a, x) # NoLoc
  <1>1. <<x>> \in Locations /\ Len(<<x>>) = 1
    BY DEF Locations
  <1>2. Append(a, x) \in Locations /\ Append(a, x) = a \o <<x>> /\ Len(Append(a, x)) = Len(a) + 1
        /\ Append(a, x) # NoLoc
    BY AppendProperties, AppendIsConcat DEF Locations, NoLoc
  <1>3. Len(a) \in Nat /\ Len(a) \in 0 .. Len(a) /\ To(a, Len(a)) = a
    BY WholePrefix, LenProperties DEF Locations, To
  <1>4. To(a \o <<x>>, Len(a)) = a
    BY <1>1, <1>3, Cat
  <1>5. Front(Append(a, x)) = To(a \o <<x>>, Len(a))
    BY <1>2, <1>3 DEF Front, To
  <1> QED
    BY <1>1, <1>2, <1>4, <1>5

LEMMA LastCut ==
  ASSUME NEW a \in Locations, NEW k \in 1 .. Len(a)
  PROVE  /\ a[k] \in Segments /\ To(a, k - 1) \in Locations /\ To(a, k) = To(a, k - 1) \o <<a[k]>>
         /\ Front(To(a, k)) = To(a, k - 1) /\ Last(To(a, k)) = a[k]
  <1>1. k \in Nat \ {0} /\ k - 1 \in 0 .. Len(a) /\ k \in 0 .. Len(a) /\ (k - 1) + 1 = k
        /\ k - 1 \in 0 .. Len(a) - 1 /\ Len(a) \in Nat
    BY LenProperties DEF Locations
  <1>2. a[k] \in Segments
    BY ElementOfSeq DEF Locations
  <1>3. To(a, k - 1) \in Locations
    BY <1>1, Cut
  <1>4. To(a, k) = To(a, k - 1) \o <<a[k]>>
    <2>1. 1 \in 1 .. Len(a) /\ k \in 1 .. Len(a)
      BY <1>1
    <2> QED
      BY <2>1, SubSeqRecursiveSecond DEF To, Locations
  <1>5. Append(To(a, k - 1), a[k]) = To(a, k)
    BY <1>2, <1>3, <1>4, OneMore
  <1>6. Front(To(a, k)) = To(a, k - 1)
    BY <1>2, <1>3, <1>5, OneMore
  <1> QED
    BY <1>2, <1>3, <1>4, <1>6, LastPart

LEMMA DescendsCut ==
  ASSUME NEW a \in Locations, Descends(a), NEW k \in 0 .. Len(a)
  PROVE  Descends(To(a, k)) /\ Descends(From(a, k))
  <1>1. Len(a) \in Nat /\ k \in Nat /\ k <= Len(a)
    BY LenProperties DEF Locations
  <1>2. /\ Len(To(a, k)) = k /\ \A j \in 1 .. k : To(a, k)[j] = a[j]
        /\ Len(From(a, k)) = Len(a) - k /\ \A j \in 1 .. Len(a) - k : From(a, k)[j] = a[k + j]
    BY PrefixIn DEF To, From
  <1>3. (\A j \in 1 .. k : j \in 1 .. Len(a)) /\ \A j \in 1 .. Len(a) - k : k + j \in 1 .. Len(a)
    BY <1>1
  <1> QED
    BY <1>2, <1>3 DEF Descends

LEMMA DescendsCat ==
  ASSUME NEW a \in Locations, Descends(a), NEW s \in Locations, Descends(s)
  PROVE  Descends(a \o s)
  <1>1. Len(a) \in Nat /\ Len(s) \in Nat
    BY LenProperties DEF Locations
  <1>2. /\ Len(a \o s) = Len(a) + Len(s)
        /\ \A i \in 1 .. Len(a) + Len(s) : (a \o s)[i] = IF i <= Len(a) THEN a[i] ELSE s[i - Len(a)]
    BY ConcatProperties DEF Locations
  <1>3. ASSUME NEW i \in 1 .. Len(a) + Len(s) PROVE (a \o s)[i] # Up
    <2>1. CASE i <= Len(a)
      <3>1. i \in 1 .. Len(a)
        BY <1>1, <2>1
      <3> QED
        BY <1>2, <2>1, <3>1 DEF Descends
    <2>2. CASE ~(i <= Len(a))
      <3>1. i - Len(a) \in 1 .. Len(s)
        BY <1>1, <2>2
      <3> QED
        BY <1>2, <2>2, <3>1 DEF Descends
    <2> QED
      BY <2>1, <2>2
  <1> QED
    BY <1>2, <1>3 DEF Descends

\* What is in the tree, and where something is found, there is no "..".
LEMMA DescendsThere ==
  ASSUME TreeShape, NEW c \in Locations, At(c) # "none" \/ Lands(c)
  PROVE  Descends(c)
  <1>1. CASE At(c) # "none"
    BY <1>1 DEF At, TreeShape
  <1>2. CASE At(c) = "none" /\ Lands(c)
    <2>1. Clear(c) /\ Len(c) \in Nat
      BY <1>2, LenProperties DEF Lands, Locations
    <2>2. At(To(c, Len(c))) = "none"
      BY <1>2, WholePrefix DEF To
    <2>3. Len(c) = 0
      BY <2>1, <2>2 DEF Clear, To
    <2> QED
      BY <2>3 DEF Descends
  <1> QED
    BY <1>1, <1>2

\* filepath.Join takes every ".." away.
LEMMA JoinDescends ==
  ASSUME TreeShape, NEW path \in Locations
  PROVE  Descends(Join(Root, path))
  <1>0. Len(path) \in Nat /\ \A i \in 1 .. Len(path) : path[i] \in Segments
    BY LenProperties, ElementOfSeq DEF Locations
  <1>1. PICK at : /\ at[0] = Root /\ Along(Clean, Root, path) = at[Len(path)]
                  /\ \A i \in 0 .. Len(path) : at[i] \in Locations
                  /\ \A i \in 0 .. Len(path) - 1 : at[i + 1] = Clean[path[i + 1]][at[i]]
    BY CleanIn, RootIn, AlongIs
  <1>2. Descends(Root)
    BY DEF TreeShape
  <1> DEFINE S == {i \in Nat : i <= Len(path) => Descends(at[i])}
  <1>3. 0 \in S
    BY <1>1, <1>2
  <1>4. ASSUME NEW i \in Nat, i \in S PROVE i + 1 \in S
    <2> SUFFICES ASSUME i + 1 <= Len(path) PROVE Descends(at[i + 1])
      OBVIOUS
    <2>1. i \in 0 .. Len(path) - 1 /\ i + 1 \in 1 .. Len(path) /\ i <= Len(path) /\ i \in 0 .. Len(path)
      BY <1>0
    <2>2. PICK a \in Locations, n \in Segments : a = at[i] /\ n = path[i + 1]
      BY <1>0, <1>1, <2>1
    <2>3. Descends(a)
      BY <1>4, <2>1, <2>2
    <2>4. at[i + 1] = IF n # Up THEN Append(a, n) ELSE IF a = <<>> THEN a ELSE Front(a)
      <3>1. Clean[n][a] = IF n # Up THEN Append(a, n) ELSE IF a = <<>> THEN a ELSE Front(a)
        BY DEF Clean
      <3> QED
        BY <1>1, <2>1, <2>2, <3>1
    <2>5. CASE n # Up
      <3>1. Descends(<<n>>)
        BY <2>5 DEF Descends
      <3>2. Descends(a \o <<n>>)
        BY <2>3, <3>1, OneMore, DescendsCat
      <3> QED
        BY <2>4, <2>5, <3>2, OneMore
    <2>6. CASE n = Up /\ a # <<>>
      <3>1. Len(a) \in Nat \ {0}
        BY <2>6, EmptySeq DEF Locations
      <3>2. Len(a) - 1 \in 0 .. Len(a) /\ Front(a) = To(a, Len(a) - 1)
        BY <3>1 DEF Front, To
      <3>3. Descends(Front(a))
        BY <2>3, <3>2, DescendsCut
      <3> QED
        BY <2>4, <2>6, <3>3
    <2>7. CASE n = Up /\ a = <<>>
      BY <2>3, <2>4, <2>7
    <2> QED
      BY <2>5, <2>6, <2>7
  <1> HIDE DEF S
  <1>5. Len(path) \in S
    BY <1>0, <1>3, <1>4, SetInduction
  <1>6. Descends(at[Len(path)])
    BY <1>0, <1>5 DEF S
  <1> QED
    BY <1>1, <1>6 DEF Join

LEMMA SafePathDescends ==
  ASSUME TreeShape, NEW path \in Locations, SafePath(path) # NoLoc
  PROVE  Descends(SafePath(path))
  <1> DEFINE l == Join(Root, path)
             to == SafePath(path)
  <1>1. l \in Locations /\ \E k \in 0 .. Len(l) : /\ EvalSymlinks(To(l, k)).err = "ok"
                                                  /\ to = EvalSymlinks(To(l, k)).at \o From(l, k)
    BY SafePathIs
  <1>2. Descends(l)
    BY JoinDescends
  <1> HIDE DEF l, to
  <1>3. PICK k \in 0 .. Len(l) : /\ EvalSymlinks(To(l, k)).err = "ok"
                                 /\ to = EvalSymlinks(To(l, k)).at \o From(l, k)
    BY <1>1
  <1>4. To(l, k) \in Locations /\ From(l, k) \in Locations /\ Descends(From(l, k))
    BY <1>1, <1>2, Cut, DescendsCut
  <1>5. EvalSymlinks(To(l, k)).at \in Locations /\ Lands(EvalSymlinks(To(l, k)).at)
    BY <1>3, <1>4, EvalLands
  <1>6. Descends(EvalSymlinks(To(l, k)).at)
    BY <1>5, DescendsThere
  <1>7. Descends(to)
    BY <1>3, <1>4, <1>5, <1>6, DescendsCat
  <1> QED
    BY <1>7 DEF to

LEMMA AboveIn ==
  ASSUME NEW l \in Locations
  PROVE  /\ \A p \in Ancestors(l) : p \in Locations
         /\ isWithinRoot(l) => \A p \in Ancestors(l) : isWithinRoot(p) /\ p # NoLoc
         /\ \A k \in 1 .. Len(l) : To(l, k) \in Ancestors(l)
  <1>1. \A p \in Ancestors(l) : \E k \in 1 .. Len(l) : p = To(l, k)
    BY DEF Ancestors, To
  <1>2. \A k \in 1 .. Len(l) : k \in 0 .. Len(l)
    BY LenProperties DEF Locations
  <1>3. \A p \in Ancestors(l) : p \in Locations
    BY <1>1, <1>2, Cut
  <1>4. isWithinRoot(l) => \A p \in Ancestors(l) : isWithinRoot(p) /\ p # NoLoc
    BY <1>1, InsideAbove
  <1>5. \A k \in 1 .. Len(l) : To(l, k) \in Ancestors(l)
    BY DEF Ancestors, To
  <1> QED
    BY <1>3, <1>4, <1>5

\* A part of a way that exists, with no file and no link on the way, is directories.
LEMMA OpenWay ==
  ASSUME TreeShape, NEW l \in Locations, Descends(l), \A p \in Ancestors(l) : At(p) \notin {"file", "link"},
         NEW k \in 1 .. Len(l), EvalSymlinks(To(l, k)).err # "absent"
  PROVE  Clear(To(l, k))
  <1>1. k \in 0 .. Len(l) /\ k \in Nat /\ Len(l) \in Nat
    BY LenProperties DEF Locations
  <1> DEFINE p == To(l, k)
  <1>2. p \in Locations /\ Len(p) = k /\ (\A j \in 0 .. k : To(p, j) = To(l, j)) /\ Descends(p)
    BY <1>1, Cut, DescendsCut
  <1>3. EvalSymlinks(p).err # "absent"
    OBVIOUS
  <1> HIDE DEF p
  <1> SUFFICES ASSUME ~Clear(p) PROVE FALSE
    BY DEF p
  <1>4. PICK j \in 1 .. Len(p) : StopsAt(p, j)
    BY <1>2, ClearOrStops
  <1>5. j \in 0 .. k /\ j \in 1 .. Len(l)
    BY <1>1, <1>2
  <1>6. To(p, j) \in Ancestors(l)
    BY <1>2, <1>5, AboveIn
  <1>7. At(To(p, j)) = "none"
    BY <1>2, <1>4, <1>6, StopIs
  <1>8. Last(To(p, j)) # Up
    BY <1>2, <1>4, LastPart
  <1> QED
    BY <1>2, <1>3, <1>4, <1>7, <1>8, EvalNone

-----------------------------------------------------------------------------
(* Where the parts of a resolved way lead.                                  *)

\* Where something is found, so is what is above it.
LEMMA LandsEval ==
  ASSUME TreeShape, NEW c \in Locations, Lands(c), NEW j \in 1 .. Len(c)
  PROVE  EvalSymlinks(To(c, j)) = Far(To(c, j), "ok")
  <1>0. Len(c) \in Nat /\ j \in Nat /\ j \in 0 .. Len(c)
    BY LenProperties DEF Locations
  <1>1. To(c, j) \in Locations /\ Len(To(c, j)) = j /\ \A i \in 0 .. j : To(To(c, j), i) = To(c, i)
    BY <1>0, Cut
  <1>2. CASE Clear(c) \/ j # Len(c)
    <2>1. \A i \in 1 .. j : At(To(c, i)) = "dir"
      <3>1. \A i \in 1 .. j : i \in 1 .. Len(c) /\ (j # Len(c) => i \in 1 .. Len(c) - 1)
        BY <1>0
      <3>2. Clear(c) => \A i \in 1 .. j : At(To(c, i)) = "dir"
        BY <3>1 DEF Clear, To
      <3>3. j # Len(c) /\ StopsAt(c, Len(c)) => \A i \in 1 .. j : At(To(c, i)) = "dir"
        BY <3>1 DEF StopsAt, To
      <3> QED
        BY <1>2, <3>2, <3>3 DEF Lands
    <2>2. Clear(To(c, j))
      <3>1. PICK q \in Locations : q = To(c, j)
        BY <1>1
      <3>2. Len(q) = j /\ \A i \in 1 .. j : To(q, i) = To(c, i)
        BY <1>0, <1>1, <3>1
      <3>3. \A i \in 1 .. Len(q) : At(To(q, i)) = "dir"
        BY <2>1, <3>2
      <3> QED
        BY <3>1, <3>3 DEF Clear, To
    <2> QED
      BY <1>1, <2>2, EvalClear
  <1>3. CASE ~Clear(c) /\ j = Len(c)
    <2>1. StopsAt(c, Len(c)) /\ At(c) = "file"
      BY <1>3 DEF Lands
    <2>2. To(c, Len(c)) = c
      BY WholePrefix DEF To
    <2>3. From(c, Len(c)) = <<>>
      BY <1>0, SubSeqEmpty DEF From
    <2>4. OneLink(Far(c, "link")) = Far(c, "ok")
      BY <2>1, <2>2, <2>3, StopsFile
    <2>5. EvalSymlinks(c) = Far(c, "ok")
      BY <2>4, FirstRound, FarFields
    <2> QED
      BY <1>3, <2>2, <2>5
  <1> QED
    BY <1>2, <1>3

\* Every part of the way that leads somewhere leads inside.
StaysIn(to) == \A k \in 1 .. Len(to) :
                 EvalSymlinks(To(to, k)).err = "ok" => isWithinRoot(EvalSymlinks(To(to, k)).at)

LEMMA SafePathStaysIn ==
  ASSUME TreeShape, NEW path \in Locations, SafePath(path) # NoLoc
  PROVE  StaysIn(SafePath(path))
  <1> DEFINE l == Join(Root, path)
             to == SafePath(path)
  <1>1. /\ l \in Locations /\ to \in Locations /\ isWithinRoot(to)
        /\ \E k \in 0 .. Len(l) : /\ EvalSymlinks(To(l, k)).err = "ok"
                                  /\ to = EvalSymlinks(To(l, k)).at \o From(l, k)
                                  /\ \A i \in k + 1 .. Len(l) : EvalSymlinks(To(l, i)).err = "absent"
    BY SafePathIs
  <1> HIDE DEF l, to
  <1>2. PICK k \in 0 .. Len(l) : /\ EvalSymlinks(To(l, k)).err = "ok"
                                 /\ to = EvalSymlinks(To(l, k)).at \o From(l, k)
                                 /\ \A i \in k + 1 .. Len(l) : EvalSymlinks(To(l, i)).err = "absent"
    BY <1>1
  <1> DEFINE b == To(l, k)
             rest == From(l, k)
             c == EvalSymlinks(b).at
  <1>3. b \in Locations /\ rest \in Locations /\ Len(b) = k /\ Len(rest) = Len(l) - k /\ b \o rest = l
        /\ Len(l) \in Nat /\ k \in Nat /\ k <= Len(l)
    <2>1. l \in Locations /\ Len(l) \in Nat
      BY <1>1, LenProperties DEF Locations
    <2>2. /\ To(l, k) \in Locations /\ From(l, k) \in Locations
          /\ Len(To(l, k)) = k /\ Len(From(l, k)) = Len(l) - k /\ To(l, k) \o From(l, k) = l
      BY <2>1, Cut
    <2> QED
      BY <2>1, <2>2
  <1>4. c \in Locations /\ Lands(c) /\ EvalSymlinks(b).err = "ok" /\ to = c \o rest
    BY <1>2, <1>3, EvalLands
  <1> HIDE DEF b, rest
  <1>5. PICK c1 \in Locations : c1 = c
    BY <1>4
  <1> HIDE DEF c
  <1>6. Len(to) = Len(c1) + Len(rest) /\ Len(c1) \in Nat
    BY <1>3, <1>4, <1>5, Cat
  <1> SUFFICES ASSUME NEW j \in 1 .. Len(to), EvalSymlinks(To(to, j)).err = "ok"
               PROVE  isWithinRoot(EvalSymlinks(To(to, j)).at)
    BY DEF StaysIn, to
  <1>7. CASE j <= Len(c1)
    <2>1. j \in 1 .. Len(c1) /\ j \in 0 .. Len(c1)
      BY <1>6, <1>7
    <2>2. To(to, j) = To(c1, j)
      BY <1>3, <1>4, <1>5, <2>1, Cat
    <2>3. EvalSymlinks(To(to, j)).at = To(to, j)
      BY <1>4, <1>5, <2>1, <2>2, LandsEval, FarFields
    <2> QED
      BY <1>1, <2>3, InsideAbove
  <1>8. CASE ~(j <= Len(c1))
    <2> DEFINE m == j - Len(c1)
               q == To(rest, m)
    <2>1. m \in 0 .. Len(rest) /\ m \in Nat \ {0} /\ j = Len(c1) + m /\ k + m \in k + 1 .. Len(l)
      BY <1>3, <1>6, <1>8
    <2>2. q \in Locations
      BY <1>3, <2>1, Cut
    <2>3. To(to, j) = c1 \o q
      <3>1. To(c1 \o rest, Len(c1) + m) = c1 \o To(rest, m)
        BY <1>3, <2>1, ToCat
      <3> QED
        BY <1>4, <1>5, <2>1, <3>1
    <2>4. To(l, k + m) = b \o q
      BY <1>3, <2>1, ToCat
    <2>5. EvalSymlinks(To(l, k + m)).err = "absent"
      BY <1>2, <2>1
    <2> HIDE DEF q, m
    <2>6. EvalSymlinks(EvalSymlinks(b).at \o q).err = "absent"
      BY <1>3, <1>4, <2>2, <2>4, <2>5, AbsentThere
    <2>7. EvalSymlinks(To(to, j)).err = "absent"
      BY <1>5, <2>3, <2>6 DEF c
    <2> QED
      BY <2>7
  <1> QED
    BY <1>7, <1>8

\* Nothing is outside what is inside.
LEMMA InsideBelow ==
  ASSUME NEW l \in Locations, isWithinRoot(l), NEW s \in Locations
  PROVE  isWithinRoot(l \o s)
  <1>1. Len(l) >= 1 /\ To(l, 1) = Root
    BY Within
  <1>2. l \o s \in Locations /\ Len(l \o s) = Len(l) + Len(s) /\ Len(l) \in Nat /\ Len(s) \in Nat
    BY Cat
  <1>3. 1 \in 0 .. Len(l)
    BY <1>1, <1>2
  <1>4. To(l \o s, 1) = To(l, 1)
    BY <1>3, Cat
  <1>5. Len(l \o s) >= 1
    BY <1>1, <1>2
  <1> QED
    BY <1>1, <1>2, <1>4, <1>5, Within

-----------------------------------------------------------------------------
(* The tree grows, inside the root, by a directory or a file where there is *)
(* nothing (or, where a link climbs, elsewhere): what is found stays where  *)
(* it is.                                                                   *)

GrowsAt(p) == \A l : \/ At(l)' = At(l)
                     \/ l = p /\ At(l) = "none" /\ At(l)' \in {"dir", "file"}
Grows == links' = links /\ \E p \in Locations : (isWithinRoot(p) \/ Climbs) /\ GrowsAt(p)

LEMMA GrowsSome ==
  ASSUME Grows
  PROVE  /\ links' = links
         /\ \A l : At(l)' = At(l) \/ (At(l) = "none" /\ At(l)' \in {"dir", "file"})
         /\ \A l : At(l) # "none" => At(l)' = At(l)
  BY DEF Grows, GrowsAt

RoundFacts ==
  /\ \A a \in Locations : Clear(a) \/ \E k \in 1 .. Len(a) : StopsAt(a, k)
  /\ \A a \in Locations : Clear(a) => OneLink(Far(a, "link")) = Far(a, "ok")
  /\ \A a \in Locations, k \in Nat : StopsAt(a, k) =>
       /\ At(To(a, k)) = "none" /\ Last(To(a, k)) # Up => OneLink(Far(a, "link")) = Far(NoLoc, "absent")
       /\ At(To(a, k)) = "none" /\ Last(To(a, k)) = Up => OneLink(Far(a, "link")) = Far(UpFrom(a, k), "link")
       /\ At(To(a, k)) = "file" => OneLink(Far(a, "link")) = IF From(a, k) = <<>> THEN Far(To(a, k), "ok")
                                                             ELSE Far(NoLoc, "broken")
       /\ At(To(a, k)) = "link" => OneLink(Far(a, "link")) = Far(links[To(a, k)] \o From(a, k), "link")
  /\ \A r \in Fars : r.err # "link" => OneLink(r) = r

WalkFacts ==
  \A l \in Locations :
    /\ Walk(l)[0] = Far(l, "link")
    /\ \A i \in Nat, r \in Fars : Walk(l)[i] = r => Walk(l)[i + 1] = OneLink(r)
    /\ Walk(l)[MaxRounds + 1].err # "link" => EvalSymlinks(l) = Walk(l)[MaxRounds + 1]
    /\ EvalSymlinks(l).err = "ok" => Walk(l)[MaxRounds + 1] = EvalSymlinks(l)

LEMMA RoundFactsHold == RoundFacts
  BY ClearOrStops, OneLinkClear, StopsAbsent, StopsUp, StopsFile, StopsLink, OneLinkSettled, Zenon DEF RoundFacts

LEMMA WalkFactsHold == TreeShape => WalkFacts
  BY WalkRule, EvalIn DEF WalkFacts

LEMMA RoundFactsNext == RoundFacts'
  BY RoundFactsHold, PTL

LEMMA WalkFactsNext == TreeShape' => WalkFacts'
  BY WalkFactsHold, PTL

\* No location in the tree ends in "..".
LEMMA NothingUp ==
  ASSUME TreeShape, NEW a \in Locations, NEW k \in 1 .. Len(a), Last(To(a, k)) = Up
  PROVE  At(To(a, k)) = "none"
  <1>1. a[k] = Up /\ k \in 0 .. Len(a) /\ k \in 1 .. k
    BY LastPart, LenProperties DEF Locations
  <1>2. Len(To(a, k)) = k /\ To(a, k)[k] = a[k]
    BY <1>1, PrefixIn DEF To
  <1> QED
    BY <1>1, <1>2 DEF TreeShape, Descends, At

LEMMA NothingUpNext ==
  ASSUME TreeShape', NEW a \in Locations, NEW k \in 1 .. Len(a), Last(To(a, k)) = Up
  PROVE  At(To(a, k))' = "none"
  <1>1. a[k] = Up /\ k \in 0 .. Len(a) /\ k \in 1 .. k
    BY LastPart, LenProperties DEF Locations
  <1>2. Len(To(a, k)) = k /\ To(a, k)[k] = a[k]
    BY <1>1, PrefixIn DEF To
  <1> QED
    BY <1>1, <1>2 DEF TreeShape, Descends, At

LEMMA GrowsRound ==
  ASSUME TreeShape, TreeShape', Grows, NEW r \in Fars, OneLink(r).err # "absent"
  PROVE  OneLink(r)' = OneLink(r)
  <1>0. RoundFacts /\ RoundFacts'
    BY RoundFactsHold, RoundFactsNext
  <1>1. CASE r.err # "link"
    BY <1>0, <1>1 DEF RoundFacts
  <1>2. CASE r.err = "link"
    <2>1. PICK a \in Locations : r = Far(a, "link")
      BY <1>2, FarIs
    <2>2. CASE Clear(a)
      <3>1. Clear(a)'
        BY <2>2, GrowsSome DEF Clear
      <3>2. OneLink(Far(a, "link")) = Far(a, "ok") /\ OneLink(Far(a, "link"))' = Far(a, "ok")
        BY <1>0, <2>2, <3>1 DEF RoundFacts
      <3> QED
        BY <2>1, <3>2
    <2>3. CASE ~Clear(a)
      <3>1. PICK k \in 1 .. Len(a) : StopsAt(a, k)
        BY <2>3, ClearOrStops
      <3>2. k \in Nat
        BY LenProperties DEF Locations
      <3>3. At(To(a, k)) \in {"none", "file", "link"}
        BY <3>1, StopIs
      <3>4. At(To(a, k)) # "none" \/ Last(To(a, k)) = Up
        <4>1. Far(NoLoc, "absent").err = "absent"
          BY FarFields
        <4> QED
          BY <1>0, <2>1, <3>1, <3>2, <4>1 DEF RoundFacts
      <3>5. At(To(a, k))' = At(To(a, k))
        <4>1. CASE At(To(a, k)) # "none"
          BY <4>1, GrowsSome
        <4>2. CASE At(To(a, k)) = "none" /\ Last(To(a, k)) = Up
          BY <3>1, <4>2, NothingUp, NothingUpNext
        <4> QED
          BY <3>4, <4>1, <4>2
      <3>6. StopsAt(a, k)'
        <4>1. At(SubSeq(a, 1, k))' # "dir"
          BY <3>1, <3>5 DEF StopsAt, To
        <4>2. \A j \in 1 .. k - 1 : At(SubSeq(a, 1, j))' = "dir"
          BY <3>1, GrowsSome DEF StopsAt
        <4> QED
          BY <3>1, <4>1, <4>2 DEF StopsAt
      <3>7. CASE At(To(a, k)) = "file"
        <4>1. OneLink(Far(a, "link")) = IF From(a, k) = <<>> THEN Far(To(a, k), "ok") ELSE Far(NoLoc, "broken")
          BY <1>0, <3>1, <3>2, <3>7 DEF RoundFacts
        <4>2. OneLink(Far(a, "link"))' = IF From(a, k) = <<>> THEN Far(To(a, k), "ok") ELSE Far(NoLoc, "broken")
          BY <1>0, <3>2, <3>5, <3>6, <3>7 DEF RoundFacts
        <4> QED
          BY <2>1, <4>1, <4>2
      <3>8. CASE At(To(a, k)) = "link"
        <4>1. OneLink(Far(a, "link")) = Far(links[To(a, k)] \o From(a, k), "link")
          BY <1>0, <3>1, <3>2, <3>8 DEF RoundFacts
        <4>2. OneLink(Far(a, "link"))' = Far(links'[To(a, k)] \o From(a, k), "link")
          BY <1>0, <3>2, <3>5, <3>6, <3>8 DEF RoundFacts
        <4> QED
          BY <2>1, <4>1, <4>2, GrowsSome
      <3>9. CASE At(To(a, k)) = "none" /\ Last(To(a, k)) = Up
        <4>1. OneLink(Far(a, "link")) = Far(UpFrom(a, k), "link")
          BY <1>0, <3>1, <3>2, <3>9 DEF RoundFacts
        <4>2. OneLink(Far(a, "link"))' = Far(UpFrom(a, k), "link")
          BY <1>0, <3>2, <3>5, <3>6, <3>9 DEF RoundFacts
        <4> QED
          BY <2>1, <4>1, <4>2
      <3> QED
        BY <3>3, <3>4, <3>7, <3>8, <3>9
    <2> QED
      BY <2>2, <2>3
  <1> QED
    BY <1>1, <1>2

LEMMA GrowsEval ==
  ASSUME TreeShape, TreeShape', Grows, NEW l \in Locations, EvalSymlinks(l).err = "ok"
  PROVE  EvalSymlinks(l)' = EvalSymlinks(l)
  <1> DEFINE f == Walk(l)
             g == Walk(l)'
             S == {i \in Nat : f[i].err # "absent" => g[i] = f[i]}
  <1>1. f[0] = Far(l, "link") /\ \A i \in Nat : f[i] \in Fars /\ f[i + 1] = OneLink(f[i])
    BY WalkRule
  <1>2. /\ g[0] = Far(l, "link")
        /\ \A i \in Nat, r \in Fars : g[i] = r => g[i + 1] = OneLink(r)'
        /\ g[MaxRounds + 1].err # "link" => EvalSymlinks(l)' = g[MaxRounds + 1]
    BY WalkFactsNext DEF WalkFacts
  <1>3. f[MaxRounds + 1] = EvalSymlinks(l)
    BY EvalIn
  <1> HIDE DEF f, g
  <1>4. 0 \in S
    BY <1>1, <1>2
  <1>5. ASSUME NEW i \in Nat, i \in S PROVE i + 1 \in S
    <2> SUFFICES ASSUME f[i + 1].err # "absent" PROVE g[i + 1] = f[i + 1]
      OBVIOUS
    <2>1. f[i].err # "absent"
      <3> SUFFICES ASSUME f[i].err = "absent" PROVE FALSE
        OBVIOUS
      <3>1. f[i + 1] = f[i]
        BY <1>1, OneLinkSettled
      <3> QED
        BY <3>1
    <2>2. PICK r \in Fars : r = f[i]
      BY <1>1
    <2>3. g[i] = r
      BY <1>5, <2>1, <2>2
    <2>4. f[i + 1] = OneLink(r)
      BY <1>1, <2>2
    <2>5. g[i + 1] = OneLink(r)'
      BY <1>2, <2>3
    <2>6. OneLink(r)' = OneLink(r)
      BY <2>4, GrowsRound
    <2> QED
      BY <2>4, <2>5, <2>6
  <1> HIDE DEF S
  <1>6. MaxRounds + 1 \in S
    BY <1>4, <1>5, SetInduction, DepthAssumption
  <1> QED
    BY <1>2, <1>3, <1>6 DEF S

LEMMA GrowsStat ==
  ASSUME TreeShape, TreeShape', Grows, NEW l \in Locations, Stat(l) = "dir"
  PROVE  Stat(l)' = "dir"
  <1>1. EvalSymlinks(l).err = "ok" /\ At(EvalSymlinks(l).at) = "dir"
    BY DEF Stat
  <1>2. PICK r : r = EvalSymlinks(l)
    OBVIOUS
  <1>3. EvalSymlinks(l)' = r
    BY <1>1, <1>2, GrowsEval
  <1>4. At(r.at)' = "dir"
    <2>1. PICK a : a = r.at
      OBVIOUS
    <2>2. At(a)' = "dir"
      <3>1. At(a) = "dir"
        BY <1>1, <1>2, <2>1
      <3> QED
        BY <3>1, GrowsSome
    <2> QED
      BY <2>1, <2>2
  <1>5. Stat(l)' = IF EvalSymlinks(l)'.err = "ok" THEN At(EvalSymlinks(l).at)' ELSE "none"
    BY DEF Stat
  <1>6. At(EvalSymlinks(l).at)' = "dir"
    BY <1>3, <1>4 DEF At
  <1> QED
    BY <1>1, <1>2, <1>3, <1>5, <1>6

LEMMA GrowsRoute ==
  ASSUME TreeShape, TreeShape', Grows, NEW l \in Locations, NEW to, Route(l, to)
  PROVE  Route(l, to)'
  <1>1. PICK k \in 0 .. Len(l) : EvalSymlinks(To(l, k)).err = "ok" /\ to = EvalSymlinks(To(l, k)).at \o From(l, k)
    BY DEF Route
  <1>2. To(l, k) \in Locations
    BY Cut
  <1>3. EvalSymlinks(To(l, k))' = EvalSymlinks(To(l, k))
    BY <1>1, <1>2, GrowsEval
  <1> QED
    BY <1>1, <1>3 DEF Route

\* What a new entry in the tree opens: a way without ".." that is found from then on
\* leads to the new entry itself.
LEMMA OpensRound ==
  ASSUME TreeShape, TreeShape', links' = links, ~Climbs, NEW p \in Locations, isWithinRoot(p), GrowsAt(p),
         NEW a \in Locations, Descends(a)
  PROVE  /\ Descends(OneLink(Far(a, "link")).at)
         /\ \/ OneLink(Far(a, "link"))' = OneLink(Far(a, "link"))
            \/ OneLink(Far(a, "link"))' \in {Far(NoLoc, "absent"), Far(NoLoc, "broken"), Far(p, "ok")}
  <1>0. RoundFacts /\ RoundFacts' /\ Grows /\ Len(a) \in Nat
    BY RoundFactsHold, RoundFactsNext, LenProperties DEF Grows, Locations
  <1>1. CASE Clear(a)
    <2>1. Clear(a)'
      BY <1>0, <1>1, GrowsSome DEF Clear
    <2>2. OneLink(Far(a, "link")) = Far(a, "ok") /\ OneLink(Far(a, "link"))' = Far(a, "ok")
      BY <1>0, <1>1, <2>1 DEF RoundFacts
    <2> QED
      BY <2>2, FarFields
  <1>2. CASE ~Clear(a)
    <2>1. PICK k \in 1 .. Len(a) : StopsAt(a, k)
      BY <1>2, ClearOrStops
    <2>2. k \in Nat /\ k \in 0 .. Len(a) /\ Last(To(a, k)) # Up
      BY <1>0, LastPart
    <2> DEFINE q == To(a, k)
               rest == From(a, k)
    <2>3. /\ q \in Locations /\ rest \in Locations /\ Len(q) = k /\ Len(rest) = Len(a) - k
          /\ Descends(q) /\ Descends(rest)
      BY <2>2, Cut, DescendsCut
    <2>4. At(q) \in {"none", "file", "link"}
      BY <2>1, StopIs
    <2>5. Descends(NoLoc)
      BY DEF Descends, NoLoc
    <2>6. CASE At(q) = "link"
      <3>1. OneLink(Far(a, "link")) = Far(links[q] \o rest, "link")
        BY <2>1, <2>6, StopsLink
      <3>2. q \in DOMAIN links /\ links[q] \in Locations
        BY <2>6 DEF TreeShape, At
      <3>3. Descends(links[q])
        <4>1. PICK t \in Locations : t = links[q]
          BY <3>2
        <4>2. DOMAIN t = 1 .. Len(t)
          BY LenProperties DEF Locations
        <4>3. Up \notin ToSet(t)
          BY <3>2, <4>1 DEF Climbs
        <4> QED
          BY <4>1, <4>2, <4>3 DEF Descends, ToSet
      <3>4. Descends(links[q] \o rest)
        BY <2>3, <3>2, <3>3, DescendsCat
      <3>5. OneLink(Far(a, "link")).err # "absent" /\ Descends(OneLink(Far(a, "link")).at)
        BY <3>1, <3>4, FarFields
      <3>6. OneLink(Far(a, "link"))' = OneLink(Far(a, "link"))
        BY <1>0, <3>5, GrowsRound, FarIn DEF Errs
      <3> QED
        BY <3>5, <3>6
    <2>7. CASE At(q) = "file"
      <3>1. OneLink(Far(a, "link")) = IF rest = <<>> THEN Far(q, "ok") ELSE Far(NoLoc, "broken")
        BY <2>1, <2>7, StopsFile
      <3> HIDE DEF q, rest
      <3>2. OneLink(Far(a, "link")).err # "absent" /\ Descends(OneLink(Far(a, "link")).at)
        BY <2>3, <2>5, <3>1, FarFields
      <3>3. OneLink(Far(a, "link"))' = OneLink(Far(a, "link"))
        BY <1>0, <3>2, GrowsRound, FarIn DEF Errs
      <3> QED
        BY <3>2, <3>3
    <2>8. CASE At(q) = "none"
      <3>1. OneLink(Far(a, "link")) = Far(NoLoc, "absent")
        BY <2>1, <2>2, <2>8, StopsAbsent
      <3>2. Descends(OneLink(Far(a, "link")).at)
        BY <2>5, <3>1, FarFields
      <3>3. \A j \in 1 .. k - 1 : At(SubSeq(a, 1, j))' = "dir"
        <4>1. \A j \in 1 .. k - 1 : At(SubSeq(a, 1, j)) = "dir"
          BY <2>1 DEF StopsAt
        <4> QED
          BY <1>0, <4>1, GrowsSome
      <3>4. CASE At(q)' # "dir"
        <4>1. StopsAt(a, k)'
          BY <3>3, <3>4 DEF StopsAt, To
        <4>2. At(q)' \in {"none", "file"}
          BY <2>8, <3>4 DEF GrowsAt
        <4>3. At(q)' = "file" => q = p
          BY <2>8 DEF GrowsAt
        <4>4. /\ At(q)' = "none" => OneLink(Far(a, "link"))' = Far(NoLoc, "absent")
              /\ At(q)' = "file" => OneLink(Far(a, "link"))' = IF rest = <<>> THEN Far(q, "ok") ELSE Far(NoLoc, "broken")
          BY <1>0, <2>2, <4>1 DEF RoundFacts
        <4> QED
          BY <3>2, <4>2, <4>3, <4>4
      <3>5. CASE At(q)' = "dir"
        <4>1. q = p
          BY <2>8, <3>5 DEF GrowsAt
        <4>2. CASE k = Len(a)
          <5>1. q = a
            BY <4>2, WholePrefix DEF To
          <5>2. \A j \in 1 .. Len(a) : j \in 1 .. k - 1 \/ j = k
            BY <1>0, <2>2, <4>2
          <5>3. Clear(a)'
            BY <3>3, <3>5, <5>2 DEF Clear, To
          <5>4. OneLink(Far(a, "link"))' = Far(a, "ok")
            BY <1>0, <5>3 DEF RoundFacts
          <5> QED
            BY <3>2, <4>1, <5>1, <5>4
        <4>3. CASE k # Len(a)
          <5>1. PICK n \in 1 .. Len(a) : n \in 0 .. Len(a) /\ n - 1 = k /\ n \in Nat /\ n # 0
            <6>1. k + 1 \in 1 .. Len(a) /\ k + 1 \in 0 .. Len(a) /\ (k + 1) - 1 = k /\ k + 1 \in Nat /\ k + 1 # 0
              BY <1>0, <2>2, <4>3
            <6> QED
              BY <6>1
          <5>2. To(a, n) \in Locations /\ Len(To(a, n)) = n /\ Front(To(a, n)) = q /\ Last(To(a, n)) # Up
            <6>1. To(a, n) \in Locations /\ Len(To(a, n)) = n
              BY <5>1, Cut
            <6>2. Front(To(a, n)) = q
              BY <5>1, LastCut
            <6>3. Last(To(a, n)) # Up
              BY LastPart
            <6> QED
              BY <6>1, <6>2, <6>3
          <5>3. To(a, n) # p /\ To(a, n) # NoLoc
            BY <2>3, <4>1, <5>1, <5>2, EmptySeq DEF NoLoc
          <5>4. q \notin DOMAIN kind
            BY <2>8 DEF At, TreeShape, Kinds
          <5>5. At(To(a, n)) = "none"
            BY <5>2, <5>3, <5>4 DEF At, TreeShape
          <5>6. At(To(a, n))' = "none"
            BY <5>3, <5>5 DEF GrowsAt
          <5>7. \A j \in 1 .. n - 1 : j \in 1 .. k - 1 \/ j = k
            BY <2>2, <5>1
          <5>8. StopsAt(a, n)'
            BY <3>3, <3>5, <5>1, <5>6, <5>7 DEF StopsAt, To
          <5>9. OneLink(Far(a, "link"))' = Far(NoLoc, "absent")
            BY <1>0, <5>1, <5>2, <5>6, <5>8 DEF RoundFacts
          <5> QED
            BY <3>2, <5>9
        <4> QED
          BY <4>2, <4>3
      <3> QED
        BY <3>4, <3>5
    <2> QED
      BY <2>4, <2>6, <2>7, <2>8
  <1> QED
    BY <1>1, <1>2

LEMMA OpensEval ==
  ASSUME TreeShape, TreeShape', links' = links, ~Climbs, NEW p \in Locations, isWithinRoot(p), GrowsAt(p),
         NEW l \in Locations, Descends(l), EvalSymlinks(l)'.err = "ok"
  PROVE  EvalSymlinks(l)' = EvalSymlinks(l) \/ EvalSymlinks(l)' = Far(p, "ok")
  <1> DEFINE f == Walk(l)
             g == Walk(l)'
             ends == {Far(NoLoc, "absent"), Far(NoLoc, "broken"), Far(p, "ok")}
             S == {i \in Nat : Descends(f[i].at) /\ (g[i] = f[i] \/ g[i] \in ends)}
  <1>1. f[0] = Far(l, "link") /\ \A i \in Nat : f[i] \in Fars /\ f[i + 1] = OneLink(f[i])
    BY WalkRule
  <1>2. /\ g[0] = Far(l, "link")
        /\ \A i \in Nat, r \in Fars : g[i] = r => g[i + 1] = OneLink(r)'
        /\ EvalSymlinks(l)'.err = "ok" => g[MaxRounds + 1] = EvalSymlinks(l)'
    BY WalkFactsNext DEF WalkFacts
  <1>3. f[MaxRounds + 1].err # "link" => EvalSymlinks(l) = f[MaxRounds + 1]
    BY EvalIn
  <1>4. ends \subseteq Fars /\ (\A r \in ends : r.err # "link") /\ Grows
    BY FarIn, RootIn, FarFields DEF Grows, Errs
  <1>5. RoundFacts'
    BY RoundFactsNext
  <1> HIDE DEF f, g, ends
  <1>6. 0 \in S
    BY <1>1, <1>2, FarFields
  <1>7. ASSUME NEW i \in Nat, i \in S PROVE i + 1 \in S
    <2>1. PICK r \in Fars : r = f[i]
      BY <1>1
    <2>2. Descends(r.at) /\ (g[i] = r \/ g[i] \in ends) /\ f[i + 1] = OneLink(r)
      BY <1>1, <1>7, <2>1
    <2>3. Descends(f[i + 1].at) /\ (OneLink(r)' = f[i + 1] \/ OneLink(r)' \in ends)
      <3>1. CASE r.err = "link"
        <4>1. r = Far(r.at, "link") /\ r.at \in Locations
          BY <3>1, FarIs
        <4>2. PICK a \in Locations : a = r.at
          BY <4>1
        <4>3. /\ Descends(OneLink(Far(a, "link")).at)
              /\ OneLink(Far(a, "link"))' = OneLink(Far(a, "link")) \/ OneLink(Far(a, "link"))' \in ends
          BY <2>2, <4>2, OpensRound DEF ends
        <4>4. r = Far(a, "link")
          BY <4>1, <4>2
        <4> QED
          BY <2>2, <4>3, <4>4
      <3>2. CASE r.err # "link"
        <4>1. OneLink(r) = r
          BY <3>2, OneLinkSettled
        <4>2. OneLink(r)' = r
          BY <1>5, <3>2 DEF RoundFacts
        <4> QED
          BY <2>2, <4>1, <4>2
      <3> QED
        BY <3>1, <3>2
    <2>4. CASE g[i] = r
      <3>1. g[i + 1] = OneLink(r)'
        BY <1>2, <2>4
      <3> QED
        BY <2>3, <3>1
    <2>5. CASE g[i] \in ends
      <3>1. PICK e \in Fars : e = g[i]
        BY <1>4, <2>5
      <3>2. g[i + 1] = OneLink(e)' /\ e.err # "link"
        BY <1>2, <1>4, <2>5, <3>1
      <3>3. OneLink(e)' = e
        BY <1>5, <3>2 DEF RoundFacts
      <3> QED
        BY <2>3, <2>5, <3>1, <3>2, <3>3
    <2> QED
      BY <2>2, <2>4, <2>5
  <1> HIDE DEF S
  <1>8. MaxRounds + 1 \in S
    BY <1>6, <1>7, SetInduction, DepthAssumption
  <1>9. CASE g[MaxRounds + 1] = f[MaxRounds + 1]
    BY <1>2, <1>3, <1>9
  <1>10. CASE g[MaxRounds + 1] \in ends
    <2>1. Far(NoLoc, "absent").err # "ok" /\ Far(NoLoc, "broken").err # "ok"
      BY FarFields
    <2> QED
      BY <1>2, <1>10, <2>1 DEF ends
  <1> QED
    BY <1>8, <1>9, <1>10 DEF S

LEMMA GrowsStaysIn ==
  ASSUME TreeShape, TreeShape', Grows, NEW to \in Locations, Descends(to), StaysIn(to) \/ Climbs
  PROVE  (StaysIn(to) \/ Climbs)'
  <1>1. CASE Climbs
    BY <1>1, GrowsSome DEF Climbs
  <1>2. CASE ~Climbs
    <2>1. PICK p \in Locations : isWithinRoot(p) /\ GrowsAt(p)
      BY <1>2 DEF Grows
    <2>2. ASSUME NEW k \in 1 .. Len(to), EvalSymlinks(To(to, k))'.err = "ok"
          PROVE  isWithinRoot(EvalSymlinks(To(to, k)).at)'
      <3>1. k \in 0 .. Len(to)
        BY LenProperties DEF Locations
      <3>2. PICK l \in Locations : l = To(to, k)
        BY <3>1, Cut
      <3>3. Descends(l)
        BY <3>1, <3>2, DescendsCut
      <3>4. EvalSymlinks(l)' = EvalSymlinks(l) \/ EvalSymlinks(l)' = Far(p, "ok")
        <4>1. EvalSymlinks(l)'.err = "ok"
          BY <2>2, <3>2
        <4>2. links' = links
          BY GrowsSome
        <4> QED
          BY <1>2, <2>1, <3>3, <4>1, <4>2, OpensEval
      <3>5. EvalSymlinks(l).err = "ok" => isWithinRoot(EvalSymlinks(l).at)
        BY <1>2, <3>2 DEF StaysIn
      <3>6. isWithinRoot(EvalSymlinks(l)'.at)
        <4>1. CASE EvalSymlinks(l)' = EvalSymlinks(l)
          BY <2>2, <3>2, <3>5, <4>1
        <4>2. CASE EvalSymlinks(l)' = Far(p, "ok")
          BY <2>1, <4>2, FarFields
        <4> QED
          BY <3>4, <4>1, <4>2
      <3> QED
        BY <3>2, <3>6 DEF isWithinRoot
    <2> QED
      BY <2>2 DEF StaysIn
  <1> QED
    BY <1>1, <1>2

-----------------------------------------------------------------------------
(* Where mkdir(2) makes a directory.                                        *)

LEMMA SpotIs ==
  ASSUME TreeShape, NEW to \in Locations, Descends(to), NEW n \in 2 .. Len(to), Stat(To(to, n - 1)) = "dir"
  PROVE  \E c \in Locations :
           /\ EvalSymlinks(To(to, n - 1)) = Far(c, "ok") /\ Clear(c) /\ At(c) = "dir"
           /\ Spot(To(to, n)) = c \o <<to[n]>> /\ Spot(To(to, n)) \in Locations /\ Descends(Spot(To(to, n)))
           /\ Spot(To(to, n)) # NoLoc /\ Front(Spot(To(to, n))) = c
  <1>1. n \in Nat \ {0} /\ n \in 1 .. Len(to) /\ n - 1 \in 0 .. Len(to) /\ n \in 0 .. Len(to)
    BY LenProperties DEF Locations
  <1>2. /\ to[n] \in Segments /\ To(to, n - 1) \in Locations
        /\ Front(To(to, n)) = To(to, n - 1) /\ Last(To(to, n)) = to[n] /\ to[n] # Up
    BY <1>1, LastCut DEF Descends
  <1>3. EvalSymlinks(To(to, n - 1)).err = "ok" /\ At(EvalSymlinks(To(to, n - 1)).at) = "dir"
    BY DEF Stat
  <1>4. PICK c \in Locations : EvalSymlinks(To(to, n - 1)) = Far(c, "ok") /\ Lands(c) /\ At(c) = "dir"
    <2>1. EvalSymlinks(To(to, n - 1)) \in Fars
      BY <1>2, EvalIn
    <2> QED
      BY <1>2, <1>3, <2>1, EvalLands, FarIs
  <1>5. Clear(c) /\ Descends(c)
    BY <1>4, DescendsThere DEF Lands
  <1>6. Spot(To(to, n)) = Append(c, to[n])
    BY <1>2, <1>4, FarFields DEF Spot
  <1>7. Descends(<<to[n]>>)
    BY <1>2 DEF Descends
  <1>8. Descends(c \o <<to[n]>>)
    BY <1>2, <1>5, <1>7, OneMore, DescendsCat
  <1>9. /\ Append(c, to[n]) = c \o <<to[n]>> /\ Append(c, to[n]) \in Locations /\ Append(c, to[n]) # NoLoc
        /\ Front(Append(c, to[n])) = c
    BY <1>2, OneMore
  <1> QED
    BY <1>4, <1>5, <1>6, <1>8, <1>9

\* Once the directory is there, the path leads to it.
SpotFacts ==
  \A to \in Locations, n \in Nat, c \in Locations :
    /\ n \in 2 .. Len(to) /\ Descends(to) /\ Stat(To(to, n - 1)) = "dir"
    /\ EvalSymlinks(To(to, n - 1)) = Far(c, "ok") /\ At(c \o <<to[n]>>) = "dir"
    => Stat(To(to, n)) = "dir"

LEMMA SpotFactsHold == TreeShape => SpotFacts
  <1> SUFFICES ASSUME TreeShape, NEW to \in Locations, NEW n \in Nat, NEW c \in Locations,
                      n \in 2 .. Len(to), Descends(to), Stat(To(to, n - 1)) = "dir",
                      EvalSymlinks(To(to, n - 1)) = Far(c, "ok"), At(c \o <<to[n]>>) = "dir"
               PROVE  Stat(To(to, n)) = "dir"
    BY DEF SpotFacts
  <1>1. EvalSymlinks(To(to, n - 1)) = Far(c, "ok") /\ Clear(c)
    <2>1. PICK a \in Locations : EvalSymlinks(To(to, n - 1)) = Far(a, "ok") /\ Clear(a)
      BY SpotIs
    <2>2. a = c
      BY <2>1, FarFields
    <2> QED
      BY <2>1, <2>2
  <1>2. n \in 1 .. Len(to)
    BY LenProperties DEF Locations
  <1>3. /\ to[n] \in Segments /\ To(to, n - 1) \in Locations /\ To(to, n) = To(to, n - 1) \o <<to[n]>>
    BY <1>2, LastCut
  <1> DEFINE s == <<to[n]>>
             b == c \o s
  <1>4. s \in Locations /\ Len(s) = 1 /\ b \in Locations /\ Len(b) = Len(c) + 1 /\ Len(c) \in Nat
        /\ \A k \in 0 .. Len(c) : To(b, k) = To(c, k)
    BY <1>3, OneMore, Cat
  <1>5. At(b) = "dir"
    BY <1>1
  <1> HIDE DEF s, b
  <1>6. Clear(b)
    <2> SUFFICES ASSUME NEW k \in 1 .. Len(b) PROVE At(To(b, k)) = "dir"
      BY DEF Clear, To
    <2>1. CASE k \in 1 .. Len(c)
      <3>1. To(b, k) = To(c, k)
        BY <1>4, <2>1
      <3> QED
        BY <1>1, <2>1, <3>1 DEF Clear, To
    <2>2. CASE k \notin 1 .. Len(c)
      <3>1. k = Len(b)
        BY <1>4, <2>2
      <3> QED
        BY <1>4, <1>5, <3>1, WholePrefix DEF To
    <2> QED
      BY <2>1, <2>2
  <1>7. PICK a \in Locations : a = To(to, n - 1)
    BY <1>3
  <1>8. EvalSymlinks(a).err = "ok" /\ EvalSymlinks(a).at = c
    BY <1>1, <1>7, FarFields
  <1>9. EvalSymlinks(a \o s) = Far(b, "ok")
    BY <1>4, <1>6, <1>8, ClearThere DEF b
  <1>10. To(to, n) = a \o s
    BY <1>3, <1>7 DEF s
  <1> QED
    BY <1>5, <1>9, <1>10, FarFields DEF Stat

LEMMA SpotFactsNext == TreeShape' => SpotFacts'
  BY SpotFactsHold, PTL

-----------------------------------------------------------------------------
(* The inductive invariant.                                                 *)

States == {"idle", "stat", "make", "check", "write", "mkdir", "done"}
Errors == {"none", "relpath", "path", "create dir", "extension", "not a directory", "disk", "exists"}

TreeTypes ==
  /\ TreeShape
  /\ pc \in [Calls -> States] /\ err \in [Calls -> Errors]
  /\ dir \in [Calls -> Locations] /\ target \in [Calls -> Locations]
  /\ depth \in [Uploads -> Nat] /\ placed \in [Uploads -> Locations]
  /\ made \in [Calls -> SUBSET DOMAIN kind]

\* What is true of an upload that is at s with this directory, target and depth.
OnItsWay(s, d, to) ==
  s \in {"stat", "make", "check"} =>
    /\ isWithinRoot(Join(Root, d)) /\ isWithinRoot(to) /\ Route(Join(Root, d), to)
    /\ Descends(to) /\ (StaysIn(to) \/ Climbs)
Reaches(s, to, n) ==
  /\ s \in {"stat", "make"} => n \in 1 .. Len(to)
  /\ s = "make" => n # 1 /\ Stat(To(to, n - 1)) = "dir"
  /\ s = "check" => Stat(to) = "dir"
Arrived(d, to)   == /\ isWithinRoot(to) /\ At(to) = "dir"
                    /\ EvalSymlinks(Join(Root, d)) = Far(to, "ok")
InTheWay(to)     == \E p \in Ancestors(to) : At(p) \in {"file", "link"}
Refused(path)    == \/ \E i \in DOMAIN path : path[i] = Up
                    \/ \E p \in Ancestors(Root \o path) : At(p) \in {"link", "file"}

UploadFine(s, d, to, n, e, at) ==
  /\ OnItsWay(s, d, to) /\ Reaches(s, to, n)
  /\ s = "write" => Arrived(d, to)
  /\ at # NoLoc => s = "done" /\ Arrived(d, at)
  /\ e \in {"create dir", "not a directory"} => InTheWay(to)
CallFine(c, s, d, to, e, m) ==
  /\ s = "mkdir" => /\ c \in Mkdirs /\ isWithinRoot(to) /\ Descends(to)
                    /\ At(to) # "none" \/ At(Front(to)) = "dir"
  /\ e # "none" => s = "done"
  /\ \A l \in m : isWithinRoot(l) \/ Climbs
  /\ e = "path" => Refused(d)

UploadInv(u) ==
  \A s \in {pc[u]}, d \in {dir[u]}, to \in {target[u]}, n \in {depth[u]}, e \in {err[u]}, at \in {placed[u]} :
    UploadFine(s, d, to, n, e, at)
CallInv(c) ==
  \A s \in {pc[c]}, d \in {dir[c]}, to \in {target[c]}, e \in {err[c]}, m \in {made[c]} :
    CallFine(c, s, d, to, e, m)
TreeInv == /\ TreeTypes
           /\ \A u \in Uploads : UploadInv(u)
           /\ \A c \in Calls : CallInv(c)

LEMMA UploadValues ==
  ASSUME TreeInv, NEW u \in Uploads
  PROVE  \E d \in Locations, to \in Locations, n \in Nat, e \in Errors, at \in Locations,
            m \in SUBSET DOMAIN kind :
           /\ d = dir[u] /\ to = target[u] /\ n = depth[u] /\ e = err[u] /\ at = placed[u] /\ m = made[u]
           /\ UploadFine(pc[u], d, to, n, e, at) /\ CallFine(u, pc[u], d, to, e, m)
  <1>1. u \in Calls
    BY DEF Calls
  <1>2. /\ dir[u] \in Locations /\ target[u] \in Locations /\ depth[u] \in Nat /\ err[u] \in Errors
        /\ placed[u] \in Locations /\ made[u] \in SUBSET DOMAIN kind
    BY <1>1 DEF TreeInv, TreeTypes
  <1>3. UploadFine(pc[u], dir[u], target[u], depth[u], err[u], placed[u])
    BY DEF TreeInv, UploadInv
  <1>4. CallFine(u, pc[u], dir[u], target[u], err[u], made[u])
    BY <1>1 DEF TreeInv, CallInv
  <1> QED
    BY <1>2, <1>3, <1>4

LEMMA MkdirValues ==
  ASSUME TreeInv, NEW c \in Mkdirs
  PROVE  \E d \in Locations, to \in Locations, e \in Errors, m \in SUBSET DOMAIN kind :
           /\ d = dir[c] /\ to = target[c] /\ e = err[c] /\ m = made[c]
           /\ CallFine(c, pc[c], d, to, e, m)
  <1>1. c \in Calls
    BY DEF Calls
  <1>2. /\ dir[c] \in Locations /\ target[c] \in Locations /\ err[c] \in Errors
        /\ made[c] \in SUBSET DOMAIN kind
    BY <1>1 DEF TreeInv, TreeTypes
  <1>3. CallFine(c, pc[c], dir[c], target[c], err[c], made[c])
    BY <1>1 DEF TreeInv, CallInv
  <1> QED
    BY <1>2, <1>3

\* All of it stays true while the tree grows.
LEMMA GrowsArrived ==
  ASSUME TreeShape, TreeShape', Grows, NEW d \in Locations, NEW to \in Locations, Arrived(d, to)
  PROVE  Arrived(d, to)'
  <1> DEFINE l == Join(Root, d)
  <1>1. l \in Locations /\ EvalSymlinks(l) = Far(to, "ok") /\ At(to) = "dir" /\ isWithinRoot(to)
    BY JoinIn DEF Arrived
  <1>2. EvalSymlinks(l)' = Far(to, "ok")
    BY <1>1, GrowsEval, FarFields
  <1>3. At(to)' = "dir"
    BY <1>1, GrowsSome
  <1> QED
    BY <1>1, <1>2, <1>3 DEF Arrived

LEMMA GrowsInTheWay ==
  ASSUME Grows, NEW to, InTheWay(to)
  PROVE  InTheWay(to)'
  BY GrowsSome DEF InTheWay, Ancestors

LEMMA GrowsRefused ==
  ASSUME Grows, NEW path, Refused(path)
  PROVE  Refused(path)'
  BY GrowsSome DEF Refused, Ancestors

LEMMA GrowsUpload ==
  ASSUME TreeShape, TreeShape', Grows, NEW s, NEW d \in Locations, NEW to \in Locations, NEW n, NEW e,
         NEW at \in Locations, UploadFine(s, d, to, n, e, at)
  PROVE  UploadFine(s, d, to, n, e, at)'
  <1>1. OnItsWay(s, d, to)'
    <2> SUFFICES ASSUME s \in {"stat", "make", "check"}
                 PROVE  /\ isWithinRoot(Join(Root, d)) /\ isWithinRoot(to) /\ Route(Join(Root, d), to)'
                        /\ Descends(to) /\ (StaysIn(to) \/ Climbs)'
      BY DEF OnItsWay
    <2>1. /\ isWithinRoot(Join(Root, d)) /\ isWithinRoot(to) /\ Route(Join(Root, d), to)
          /\ Descends(to) /\ (StaysIn(to) \/ Climbs)
      BY DEF UploadFine, OnItsWay
    <2>2. Route(Join(Root, d), to)'
      BY <2>1, GrowsRoute, JoinIn
    <2>3. (StaysIn(to) \/ Climbs)'
      BY <2>1, GrowsStaysIn
    <2> QED
      BY <2>1, <2>2, <2>3
  <1>2. Reaches(s, to, n)'
    <2>1. /\ s \in {"stat", "make"} => n \in 1 .. Len(to)
          /\ s = "make" => n # 1 /\ Stat(To(to, n - 1)) = "dir"
          /\ s = "check" => Stat(to) = "dir"
      BY DEF UploadFine, Reaches
    <2>2. s = "make" => To(to, n - 1) \in Locations
      <3>1. s = "make" => n - 1 \in 0 .. Len(to)
        BY <2>1, LenProperties DEF Locations
      <3> QED
        BY <3>1, Cut
    <2>3. s = "make" => Stat(To(to, n - 1))' = "dir"
      <3>1. \A l \in Locations : Stat(l) = "dir" => Stat(l)' = "dir"
        BY GrowsStat
      <3> QED
        BY <2>1, <2>2, <3>1
    <2>4. s = "check" => Stat(to)' = "dir"
      BY <2>1, GrowsStat
    <2> QED
      BY <2>1, <2>3, <2>4 DEF Reaches
  <1>4. (s = "write" => Arrived(d, to))'
    BY GrowsArrived DEF UploadFine
  <1>5. (at # NoLoc => s = "done" /\ Arrived(d, at))'
    BY GrowsArrived DEF UploadFine
  <1>6. (e \in {"create dir", "not a directory"} => InTheWay(to))'
    BY GrowsInTheWay DEF UploadFine
  <1> QED
    BY <1>1, <1>2, <1>4, <1>5, <1>6 DEF UploadFine

LEMMA GrowsCall ==
  ASSUME Grows, NEW c, NEW s, NEW d, NEW to, NEW e, NEW m, CallFine(c, s, d, to, e, m)
  PROVE  CallFine(c, s, d, to, e, m)'
  <1>1. /\ s = "mkdir" => c \in Mkdirs /\ isWithinRoot(to) /\ Descends(to)
        /\ e # "none" => s = "done"
    BY DEF CallFine
  <1>2. s = "mkdir" => At(to)' # "none" \/ At(Front(to))' = "dir"
    <2>1. s = "mkdir" => At(to) # "none" \/ At(Front(to)) = "dir"
      BY DEF CallFine
    <2>2. \A l : At(l) # "none" => At(l)' = At(l)
      BY GrowsSome
    <2> QED
      BY <2>1, <2>2
  <1>3. (\A l \in m : isWithinRoot(l) \/ Climbs)'
    BY GrowsSome DEF CallFine, Climbs
  <1>4. (e = "path" => Refused(d))'
    BY GrowsRefused DEF CallFine
  <1> QED
    BY <1>1, <1>2, <1>3, <1>4 DEF CallFine

-----------------------------------------------------------------------------
(* What a step of one call leaves of it.                                    *)

Turn(c, s, d, to, e, m) ==
  /\ pc' = [pc EXCEPT ![c] = s] /\ err' = [err EXCEPT ![c] = e] /\ dir' = [dir EXCEPT ![c] = d]
  /\ target' = [target EXCEPT ![c] = to] /\ made' = [made EXCEPT ![c] = m]
TurnUpload(u, n, at) == depth' = [depth EXCEPT ![u] = n] /\ placed' = [placed EXCEPT ![u] = at]

LEMMA TurnCalls ==
  ASSUME TreeInv, TreeShape', Grows, DOMAIN kind \subseteq DOMAIN kind',
         NEW c \in Calls, NEW s \in States, NEW d \in Locations, NEW to \in Locations, NEW e \in Errors,
         NEW m \in SUBSET DOMAIN kind', Turn(c, s, d, to, e, m), CallFine(c, s, d, to, e, m)
  PROVE  /\ (pc \in [Calls -> States] /\ err \in [Calls -> Errors])'
         /\ (dir \in [Calls -> Locations] /\ target \in [Calls -> Locations])'
         /\ (made \in [Calls -> SUBSET DOMAIN kind])'
         /\ \A a \in Calls : CallInv(a)'
         /\ \A a \in Calls : a # c => pc'[a] = pc[a] /\ err'[a] = err[a] /\ dir'[a] = dir[a] /\ target'[a] = target[a]
         /\ pc'[c] = s /\ err'[c] = e /\ dir'[c] = d /\ target'[c] = to
  <1>1. TreeTypes
    BY DEF TreeInv
  <1>2. /\ pc \in [Calls -> States] /\ err \in [Calls -> Errors] /\ dir \in [Calls -> Locations]
        /\ target \in [Calls -> Locations] /\ made \in [Calls -> SUBSET DOMAIN kind]
    BY <1>1 DEF TreeTypes
  <1> HIDE DEF Locations, States, Errors
  <1>3. pc' \in [Calls -> States] /\ pc'[c] = s /\ \A a \in Calls : a # c => pc'[a] = pc[a]
    BY <1>2 DEF Turn
  <1>4. err' \in [Calls -> Errors] /\ err'[c] = e /\ \A a \in Calls : a # c => err'[a] = err[a]
    BY <1>2 DEF Turn
  <1>5. dir' \in [Calls -> Locations] /\ dir'[c] = d /\ \A a \in Calls : a # c => dir'[a] = dir[a]
    BY <1>2 DEF Turn
  <1>6. target' \in [Calls -> Locations] /\ target'[c] = to /\ \A a \in Calls : a # c => target'[a] = target[a]
    BY <1>2 DEF Turn
  <1>7. made' \in [Calls -> SUBSET DOMAIN kind'] /\ made'[c] = m /\ \A a \in Calls : a # c => made'[a] = made[a]
    BY <1>2 DEF Turn
  <1>8. ASSUME NEW a \in Calls PROVE CallInv(a)'
    <2>1. CASE a = c
      <3>1. CallFine(c, s, d, to, e, m)'
        BY GrowsCall
      <3> QED
        BY <1>3, <1>4, <1>5, <1>6, <1>7, <2>1, <3>1 DEF CallInv
    <2>2. CASE a # c
      <3>1. PICK s0, d0, to0, e0, m0 :
              s0 = pc[a] /\ d0 = dir[a] /\ to0 = target[a] /\ e0 = err[a] /\ m0 = made[a]
        OBVIOUS
      <3>2. CallFine(a, s0, d0, to0, e0, m0)
        BY <3>1 DEF TreeInv, CallInv
      <3>3. CallFine(a, s0, d0, to0, e0, m0)'
        BY <3>2, GrowsCall
      <3>4. pc'[a] = s0 /\ dir'[a] = d0 /\ target'[a] = to0 /\ err'[a] = e0 /\ made'[a] = m0
        BY <1>3, <1>4, <1>5, <1>6, <1>7, <2>2, <3>1
      <3> QED
        BY <3>3, <3>4 DEF CallInv
    <2> QED
      BY <2>1, <2>2
  <1> QED
    BY <1>3, <1>4, <1>5, <1>6, <1>7, <1>8

LEMMA StillUpload ==
  ASSUME TreeInv, TreeShape', Grows, NEW u \in Uploads,
         pc'[u] = pc[u], err'[u] = err[u], dir'[u] = dir[u], target'[u] = target[u],
         depth'[u] = depth[u], placed'[u] = placed[u]
  PROVE  UploadInv(u)'
  <1>0. PICK s : s = pc[u]
    OBVIOUS
  <1>1. PICK d \in Locations, to \in Locations, n \in Nat, e \in Errors, at \in Locations :
          /\ d = dir[u] /\ to = target[u] /\ n = depth[u] /\ e = err[u] /\ at = placed[u]
          /\ UploadFine(pc[u], d, to, n, e, at)
    BY UploadValues
  <1>2. UploadFine(s, d, to, n, e, at) /\ TreeShape
    BY <1>0, <1>1 DEF TreeInv, TreeTypes
  <1>3. UploadFine(s, d, to, n, e, at)'
    BY <1>2, GrowsUpload
  <1>4. pc'[u] = s /\ dir'[u] = d /\ target'[u] = to /\ depth'[u] = n /\ err'[u] = e /\ placed'[u] = at
    BY <1>0, <1>1
  <1> QED
    BY <1>3, <1>4 DEF UploadInv

LEMMA UploadTurnsTo ==
  ASSUME TreeInv, TreeShape', Grows, DOMAIN kind \subseteq DOMAIN kind',
         NEW u \in Uploads, NEW s \in States, NEW d \in Locations, NEW to \in Locations, NEW n \in Nat,
         NEW e \in Errors, NEW at \in Locations, NEW m \in SUBSET DOMAIN kind',
         Turn(u, s, d, to, e, m), TurnUpload(u, n, at),
         UploadFine(s, d, to, n, e, at)', CallFine(u, s, d, to, e, m)
  PROVE  TreeInv'
  <1>0. u \in Calls /\ \A v \in Uploads : v \in Calls
    BY DEF Calls
  <1>1. /\ (pc \in [Calls -> States] /\ err \in [Calls -> Errors])'
        /\ (dir \in [Calls -> Locations] /\ target \in [Calls -> Locations])'
        /\ (made \in [Calls -> SUBSET DOMAIN kind])'
        /\ \A a \in Calls : CallInv(a)'
        /\ \A a \in Calls : a # u => pc'[a] = pc[a] /\ err'[a] = err[a] /\ dir'[a] = dir[a] /\ target'[a] = target[a]
        /\ pc'[u] = s /\ err'[u] = e /\ dir'[u] = d /\ target'[u] = to
    BY <1>0, TurnCalls
  <1>2. depth \in [Uploads -> Nat] /\ placed \in [Uploads -> Locations]
    BY DEF TreeInv, TreeTypes
  <1>3. /\ depth' \in [Uploads -> Nat] /\ depth'[u] = n
        /\ \A a \in Uploads : a # u => depth'[a] = depth[a]
    BY <1>2 DEF TurnUpload
  <1>4. /\ placed' \in [Uploads -> Locations] /\ placed'[u] = at
        /\ \A a \in Uploads : a # u => placed'[a] = placed[a]
    BY <1>2 DEF TurnUpload
  <1>5. ASSUME NEW v \in Uploads PROVE UploadInv(v)'
    <2>1. CASE v = u
      BY <1>1, <1>3, <1>4, <2>1 DEF UploadInv
    <2>2. CASE v # u
      BY <1>0, <1>1, <1>3, <1>4, <2>2, StillUpload
    <2> QED
      BY <2>1, <2>2
  <1>6. TreeTypes'
    BY <1>1, <1>3, <1>4 DEF TreeTypes
  <1> QED
    BY <1>1, <1>5, <1>6 DEF TreeInv

LEMMA UploadTurns ==
  ASSUME TreeInv, TreeShape', Grows, DOMAIN kind \subseteq DOMAIN kind',
         NEW u \in Uploads, NEW s \in States, NEW d \in Locations, NEW to \in Locations, NEW n \in Nat,
         NEW e \in Errors, NEW at \in Locations, NEW m \in SUBSET DOMAIN kind',
         Turn(u, s, d, to, e, m), TurnUpload(u, n, at),
         UploadFine(s, d, to, n, e, at), CallFine(u, s, d, to, e, m)
  PROVE  TreeInv'
  <1>1. UploadFine(s, d, to, n, e, at)'
    BY GrowsUpload DEF TreeInv, TreeTypes
  <1> QED
    BY <1>1, UploadTurnsTo

LEMMA MkdirTurns ==
  ASSUME TreeInv, TreeShape', Grows, DOMAIN kind \subseteq DOMAIN kind',
         NEW c \in Mkdirs, NEW s \in States, NEW d \in Locations, NEW to \in Locations,
         NEW e \in Errors, NEW m \in SUBSET DOMAIN kind',
         Turn(c, s, d, to, e, m), UNCHANGED <<depth, placed>>, CallFine(c, s, d, to, e, m)
  PROVE  TreeInv'
  <1>0. c \in Calls /\ \A v \in Uploads : v \in Calls /\ v # c
    BY CallsAssumption DEF Calls
  <1>1. /\ (pc \in [Calls -> States] /\ err \in [Calls -> Errors])'
        /\ (dir \in [Calls -> Locations] /\ target \in [Calls -> Locations])'
        /\ (made \in [Calls -> SUBSET DOMAIN kind])'
        /\ \A a \in Calls : CallInv(a)'
        /\ \A a \in Calls : a # c => pc'[a] = pc[a] /\ err'[a] = err[a] /\ dir'[a] = dir[a] /\ target'[a] = target[a]
    BY <1>0, TurnCalls
  <1>2. (depth \in [Uploads -> Nat] /\ placed \in [Uploads -> Locations])'
    BY DEF TreeInv, TreeTypes
  <1>3. \A v \in Uploads : UploadInv(v)'
    BY <1>0, <1>1, StillUpload
  <1>4. TreeTypes'
    BY <1>1, <1>2 DEF TreeTypes
  <1> QED
    BY <1>1, <1>3, <1>4 DEF TreeInv

LEMMA GrowsStill ==
  ASSUME TreeShape, UNCHANGED <<kind, links>>
  PROVE  TreeShape' /\ Grows /\ DOMAIN kind \subseteq DOMAIN kind'
  <1>1. isWithinRoot(Root)
    <2>1. Len(Root) >= 1 /\ To(Root, 1) = Root
      BY RootIn, WholePrefix DEF To
    <2> QED
      BY <2>1, RootIn, Within
  <1>2. GrowsAt(Root)
    BY DEF GrowsAt, At
  <1>3. TreeShape'
    BY DEF TreeShape
  <1> QED
    BY <1>1, <1>2, <1>3, RootIn DEF Grows

LEMMA GrowsMade ==
  ASSUME TreeShape, NEW l \in Locations, NEW k \in {"dir", "file"}, At(l) = "none", kind' = With(l, k),
         UNCHANGED links, isWithinRoot(l) \/ Climbs, Descends(l), l # NoLoc, At(Front(l)) = "dir"
  PROVE  TreeShape' /\ Grows /\ DOMAIN kind \subseteq DOMAIN kind' /\ l \in DOMAIN kind' /\ At(l)' = k
  <1>1. l \notin DOMAIN kind
    BY DEF TreeShape, At, Kinds
  <1>2. DOMAIN kind' = DOMAIN kind \cup {l} /\ kind'[l] = k /\ \A a \in DOMAIN kind : kind'[a] = kind[a]
    BY <1>1 DEF With
  <1>3. kind' \in [DOMAIN kind' -> Kinds]
    <2>1. kind' = [a \in DOMAIN kind' |-> kind'[a]]
      BY DEF With
    <2>2. \A a \in DOMAIN kind' : kind'[a] \in Kinds
      BY <1>2 DEF TreeShape, Kinds
    <2> QED
      BY <2>1, <2>2
  <1>4. {a \in DOMAIN kind' : kind'[a] = "link"} = {a \in DOMAIN kind : kind[a] = "link"}
    BY <1>1, <1>2
  <1>5. \A a \in DOMAIN kind' \ {NoLoc} : Front(a) \in DOMAIN kind' /\ kind'[Front(a)] = "dir"
    <2>1. Front(l) \in DOMAIN kind /\ kind[Front(l)] = "dir"
      BY DEF At
    <2>2. \A a \in DOMAIN kind \ {NoLoc} : Front(a) \in DOMAIN kind /\ kind[Front(a)] = "dir"
      BY DEF TreeShape
    <2> QED
      BY <1>2, <2>1, <2>2
  <1>6. \A a \in DOMAIN kind' : Descends(a)
    BY <1>2 DEF TreeShape
  <1>7. DOMAIN kind' \subseteq Locations /\ {NoLoc, Root} \subseteq DOMAIN kind' /\ kind'[NoLoc] = "dir" /\ kind'[Root] = "dir"
    BY <1>2 DEF TreeShape
  <1>8. links' \in [{a \in DOMAIN kind' : kind'[a] = "link"} -> Locations]
    BY <1>4 DEF TreeShape
  <1>9. TreeShape'
    BY <1>3, <1>5, <1>6, <1>7, <1>8 DEF TreeShape
  <1>10. GrowsAt(l)
    BY <1>1, <1>2 DEF At, GrowsAt
  <1> QED
    BY <1>2, <1>9, <1>10 DEF Grows, At

\* What SafePath refuses has a "..", a link or a file on its way.
LEMMA RefusedIs ==
  ASSUME TreeShape, NEW path \in Locations, SafePath(path) = NoLoc
  PROVE  Refused(path)
  <1> SUFFICES ASSUME ~Refused(path) PROVE FALSE
    OBVIOUS
  <1> DEFINE l == Root \o path
  <1>1. Join(Root, path) = l
    BY JoinPlain DEF Refused
  <1>2. \A p \in Ancestors(l) : At(p) \notin {"link", "file"}
    BY DEF Refused
  <1>3. l \in Locations /\ Len(l) = Len(Root) + Len(path) /\ To(l, 1) = To(Root, 1) /\ Len(path) \in Nat
    <2>1. 1 \in 0 .. Len(Root)
      BY RootIn
    <2> QED
      BY <2>1, RootIn, Cat
  <1>4. To(Root, 1) = Root
    BY RootIn, WholePrefix DEF To
  <1>5. SafePath(path) = IF ~isWithinRoot(l) THEN NoLoc
                         ELSE IF isWithinRoot(resolveWithAncestorWalk(l)) THEN resolveWithAncestorWalk(l) ELSE NoLoc
    BY <1>1 DEF SafePath
  <1> HIDE DEF l
  <1>6. isWithinRoot(l)
    BY <1>3, <1>4, RootIn, Within
  <1>7. PICK k : Deepest(l, k)
    BY <1>3, <1>6, DeepestExists
  <1>8. k \in 1 .. Len(l) /\ k \in 0 .. Len(l) /\ EvalSymlinks(To(l, k)).err # "absent"
    BY <1>3, <1>7, RootIn DEF Deepest, To
  <1> DEFINE p == To(l, k)
  <1>9. p \in Locations
    BY <1>3, <1>8, Cut
  <1>10. Descends(l)
    BY <1>1, JoinDescends
  <1>11. Clear(p)
    BY <1>2, <1>3, <1>8, <1>10, OpenWay
  <1> HIDE DEF p
  <1>12. EvalSymlinks(p).err = "ok" /\ EvalSymlinks(p).at = p
    BY <1>9, <1>11, EvalClear, FarFields
  <1>13. resolveWithAncestorWalk(l) = l
    <2>1. resolveWithAncestorWalk(l) = IF EvalSymlinks(p).err = "ok" THEN EvalSymlinks(p).at \o From(l, k) ELSE NoLoc
      BY <1>3, <1>7, AncestorWalk DEF p
    <2>2. p \o From(l, k) = l
      BY <1>3, <1>8, Cut DEF p
    <2> QED
      BY <1>12, <2>1, <2>2
  <1>14. l # NoLoc
    BY <1>3, <1>6, InsideIsSome
  <1> QED
    BY <1>5, <1>6, <1>13, <1>14

-----------------------------------------------------------------------------
(* The invariant holds initially, and every step keeps it.                  *)

LEMMA InitTree == ASSUME Init PROVE TreeInv
  <1>1. PICK t \in Trees : kind = t.kind /\ links = t.links
    BY DEF Init
  <1>2. TreeShape
    <2>1. /\ kind \in [DOMAIN kind -> Kinds] /\ DOMAIN kind \subseteq Seq(Segments \ {Up})
          /\ {NoLoc, Root} \subseteq DOMAIN kind /\ kind[NoLoc] = "dir" /\ kind[Root] = "dir"
          /\ \A l \in DOMAIN kind \ {NoLoc} : Front(l) \in DOMAIN kind /\ kind[Front(l)] = "dir"
          /\ links \in [{l \in DOMAIN kind : kind[l] = "link"} -> Locations]
      BY <1>1, TreesAssumption
    <2>2. ASSUME NEW l \in Seq(Segments \ {Up}) PROVE l \in Locations /\ Descends(l)
      BY ElementOfSeq DEF Locations, Descends
    <2> QED
      BY <2>1, <2>2 DEF TreeShape
  <1>3. NoLoc \in Locations /\ <<>> \in Locations /\ NoLoc = <<>>
    BY RootIn DEF NoLoc
  <1>4. /\ pc = [c \in Calls |-> "idle"] /\ err = [c \in Calls |-> "none"]
        /\ dir = [c \in Calls |-> <<>>] /\ target = [c \in Calls |-> NoLoc]
        /\ depth = [u \in Uploads |-> 0] /\ placed = [u \in Uploads |-> NoLoc]
        /\ made = [c \in Calls |-> {}]
    BY DEF Init
  <1>5. TreeTypes
    BY <1>2, <1>3, <1>4 DEF TreeTypes, States, Errors
  <1>6. ASSUME NEW u \in Uploads PROVE UploadInv(u)
    <2>1. u \in Calls
      BY DEF Calls
    <2>2. pc[u] = "idle" /\ err[u] = "none" /\ placed[u] = NoLoc
      BY <1>4, <2>1
    <2> QED
      BY <2>2 DEF UploadInv, UploadFine, OnItsWay, Reaches
  <1>7. ASSUME NEW c \in Calls PROVE CallInv(c)
    <2>1. pc[c] = "idle" /\ err[c] = "none" /\ made[c] = {}
      BY <1>4
    <2> QED
      BY <2>1 DEF CallInv, CallFine
  <1> QED
    BY <1>5, <1>6, <1>7 DEF TreeInv

\* The values of a call as they are are the ones it turns to.
LEMMA Same ==
  ASSUME NEW D, NEW R, NEW f \in [D -> R], NEW c \in D, NEW x, x = f[c]
  PROVE  f = [f EXCEPT ![c] = x]
  OBVIOUS

LEMMA SameCall ==
  ASSUME TreeTypes, NEW c \in Calls
  PROVE  /\ \A x : x = pc[c] => pc = [pc EXCEPT ![c] = x]
         /\ \A x : x = err[c] => err = [err EXCEPT ![c] = x]
         /\ \A x : x = dir[c] => dir = [dir EXCEPT ![c] = x]
         /\ \A x : x = target[c] => target = [target EXCEPT ![c] = x]
         /\ \A x : x = made[c] => made = [made EXCEPT ![c] = x]
  BY Same DEF TreeTypes

LEMMA SameUpload ==
  ASSUME TreeTypes, NEW u \in Uploads
  PROVE  /\ \A x : x = depth[u] => depth = [depth EXCEPT ![u] = x]
         /\ \A x : x = placed[u] => placed = [placed EXCEPT ![u] = x]
  BY Same DEF TreeTypes

LEMMA RouteOf ==
  ASSUME TreeShape, NEW d \in Locations, SafePath(d) # NoLoc
  PROVE  isWithinRoot(Join(Root, d)) /\ isWithinRoot(SafePath(d)) /\ Route(Join(Root, d), SafePath(d))
  BY SafePathIs DEF Route

LEMMA SubmitStep ==
  ASSUME TreeInv, NEW u \in Uploads, Submit(u)
  PROVE  TreeInv'
  <1>1. PICK d0 \in Locations, t0 \in Locations, n0 \in Nat, e \in Errors, at \in Locations,
             m \in SUBSET DOMAIN kind :
          /\ d0 = dir[u] /\ t0 = target[u] /\ n0 = depth[u] /\ e = err[u] /\ at = placed[u] /\ m = made[u]
          /\ UploadFine(pc[u], d0, t0, n0, e, at) /\ CallFine(u, pc[u], d0, t0, e, m)
    BY UploadValues
  <1>2. TreeTypes /\ TreeShape /\ u \in Calls
    BY DEF TreeInv, TreeTypes, Calls
  <1>3. pc[u] = "idle" /\ UNCHANGED <<kind, links, placed, made>>
    BY DEF Submit
  <1>4. TreeShape' /\ Grows /\ DOMAIN kind \subseteq DOMAIN kind' /\ m \in SUBSET DOMAIN kind'
    BY <1>2, <1>3, GrowsStill
  <1>5. e = "none" /\ at = NoLoc /\ \A l \in m : isWithinRoot(l) \/ Climbs
    BY <1>1, <1>3 DEF CallFine, UploadFine
  <1>6. PICK base \in Bases, relPath \in RelPaths :
          LET parts == Parts(relPath)
              to    == SafePath(base \o parts)
          IN /\ dir' = [dir EXCEPT ![u] = base \o parts]
             /\ target' = [target EXCEPT ![u] = to]
             /\ IF Len(parts) \notin 1 .. MaxRelPathDepth THEN Fail(u, "relpath")
                ELSE IF to = NoLoc THEN Fail(u, "path")
                ELSE Goto(u, "stat") /\ UNCHANGED err
             /\ depth' = [depth EXCEPT ![u] = Len(to)]
    BY DEF Submit
  <1> DEFINE d == base \o Parts(relPath)
  <1>7. d \in Locations
    BY PathsAssumption, PartsIn, Cat
  <1>8. PICK t \in Locations : t = SafePath(d)
    BY <1>2, <1>7, SafePathIn
  <1>9. dir' = [dir EXCEPT ![u] = d] /\ target' = [target EXCEPT ![u] = t]
    BY <1>6, <1>8
  <1>10. \/ Fail(u, "relpath")
         \/ t = NoLoc /\ Fail(u, "path")
         \/ t # NoLoc /\ Goto(u, "stat") /\ UNCHANGED err
    BY <1>6, <1>8
  <1> HIDE DEF d
  <1>15. PICK n \in Nat : n = Len(t) /\ depth' = [depth EXCEPT ![u] = n]
    <2>1. Len(t) \in Nat
      BY LenProperties DEF Locations
    <2> QED
      BY <1>6, <1>8, <2>1 DEF d
  <1>11. TurnUpload(u, n, at) /\ made' = [made EXCEPT ![u] = m] /\ err = [err EXCEPT ![u] = e]
    <2>1. placed = [placed EXCEPT ![u] = at]
      BY <1>1, <1>2, SameUpload
    <2>2. made = [made EXCEPT ![u] = m] /\ err = [err EXCEPT ![u] = e]
      BY <1>1, <1>2, SameCall
    <2> QED
      BY <1>3, <1>15, <2>1, <2>2 DEF TurnUpload
  <1>12. CASE Fail(u, "relpath")
    <2>1. Turn(u, "done", d, t, "relpath", m)
      BY <1>9, <1>11, <1>12 DEF Turn, Fail, Goto
    <2>2. UploadFine("done", d, t, n, "relpath", at) /\ CallFine(u, "done", d, t, "relpath", m)
      BY <1>5 DEF UploadFine, CallFine, OnItsWay, Reaches
    <2>3. "done" \in States /\ "relpath" \in Errors
      BY DEF States, Errors
    <2> QED
      BY <1>4, <1>7, <1>11, <2>1, <2>2, <2>3, UploadTurns
  <1>13. CASE t = NoLoc /\ Fail(u, "path")
    <2>1. Turn(u, "done", d, t, "path", m)
      BY <1>9, <1>11, <1>13 DEF Turn, Fail, Goto
    <2>2. Refused(d)
      BY <1>2, <1>7, <1>8, <1>13, RefusedIs
    <2>3. UploadFine("done", d, t, n, "path", at) /\ CallFine(u, "done", d, t, "path", m)
      BY <1>5, <2>2 DEF UploadFine, CallFine, OnItsWay, Reaches
    <2>4. "done" \in States /\ "path" \in Errors
      BY DEF States, Errors
    <2> QED
      BY <1>4, <1>7, <1>11, <2>1, <2>3, <2>4, UploadTurns
  <1>14. CASE t # NoLoc /\ Goto(u, "stat") /\ UNCHANGED err
    <2>1. Turn(u, "stat", d, t, e, m)
      BY <1>9, <1>11, <1>14 DEF Turn, Goto
    <2>2. /\ isWithinRoot(Join(Root, d)) /\ isWithinRoot(t) /\ Route(Join(Root, d), t)
          /\ Descends(t) /\ StaysIn(t)
      BY <1>2, <1>7, <1>8, <1>14, RouteOf, SafePathDescends, SafePathStaysIn
    <2>5. n \in 1 .. Len(t)
      BY <1>15, <2>2, InsideIsSome
    <2>3. UploadFine("stat", d, t, n, e, at) /\ CallFine(u, "stat", d, t, e, m)
      BY <1>5, <2>2, <2>5 DEF UploadFine, CallFine, OnItsWay, Reaches
    <2>4. "stat" \in States
      BY DEF States
    <2> QED
      BY <1>4, <1>7, <1>11, <2>1, <2>3, <2>4, UploadTurns
  <1> QED
    BY <1>10, <1>12, <1>13, <1>14

LEMMA RootIsThere ==
  ASSUME TreeShape
  PROVE  Stat(Root) = "dir"
  <1>1. ASSUME NEW k \in 1 .. Len(Root) PROVE At(SubSeq(Root, 1, k)) = "dir"
    <2>1. k = Len(Root)
      BY RootIn
    <2>2. SubSeq(Root, 1, k) = Root
      BY <2>1, RootIn, WholePrefix
    <2> QED
      BY <2>2 DEF TreeShape, At
  <1>2. Clear(Root)
    BY <1>1 DEF Clear
  <1> QED
    BY <1>2, RootIn, StatIs

\* MkdirAll goes on below a directory that is there.
LEMMA UploadGoesOn ==
  ASSUME TreeInv, TreeShape', Grows, DOMAIN kind \subseteq DOMAIN kind',
         NEW u \in Uploads, pc[u] \in {"stat", "make"},
         NEW t \in Locations, t = target[u], NEW n \in 1 .. Len(t), n = depth[u], Stat(To(t, n))' = "dir",
         GoOnDown(u), UNCHANGED <<err, dir, target, placed>>,
         NEW m \in SUBSET DOMAIN kind', made' = [made EXCEPT ![u] = m], \A l \in m : isWithinRoot(l) \/ Climbs
  PROVE  TreeInv'
  <1>1. PICK d \in Locations, e \in Errors, at \in Locations, m0 \in SUBSET DOMAIN kind :
          /\ d = dir[u] /\ e = err[u] /\ at = placed[u] /\ m0 = made[u]
          /\ UploadFine(pc[u], d, t, n, e, at) /\ CallFine(u, pc[u], d, t, e, m0)
    BY UploadValues
  <1>2. TreeTypes /\ TreeShape /\ u \in Calls
    BY DEF TreeInv, TreeTypes, Calls
  <1>3. e = "none" /\ at = NoLoc /\ OnItsWay("check", d, t)
    BY <1>1 DEF CallFine, UploadFine, OnItsWay
  <1>4. OnItsWay("check", d, t)'
    <2>1. UploadFine("check", d, t, n, e, at) \/ ~UploadFine("check", d, t, n, e, at)
      OBVIOUS
    <2>2. (StaysIn(t) \/ Climbs)' /\ Route(Join(Root, d), t)'
      BY <1>2, <1>3, GrowsStaysIn, GrowsRoute, JoinIn DEF OnItsWay
    <2> QED
      BY <1>3, <2>2 DEF OnItsWay
  <1>5. OnItsWay("make", d, t)'
    BY <1>4 DEF OnItsWay
  <1>6. /\ err' = [err EXCEPT ![u] = e] /\ dir' = [dir EXCEPT ![u] = d] /\ target' = [target EXCEPT ![u] = t]
        /\ placed' = [placed EXCEPT ![u] = at] /\ depth = [depth EXCEPT ![u] = n]
    BY <1>1, <1>2, SameCall, SameUpload
  <1>7. n \in Nat /\ Len(t) \in Nat /\ "check" \in States /\ "make" \in States
    BY LenProperties DEF Locations, States
  <1>8. CASE n = Len(t)
    <2>1. Goto(u, "check") /\ UNCHANGED depth
      BY <1>8 DEF GoOnDown
    <2>2. Turn(u, "check", d, t, e, m) /\ TurnUpload(u, n, at)
      BY <1>6, <2>1 DEF Turn, TurnUpload, Goto
    <2>3. Stat(t)' = "dir"
      BY <1>8, WholePrefix DEF To
    <2>4. UploadFine("check", d, t, n, e, at)' /\ CallFine(u, "check", d, t, e, m)
      BY <1>3, <1>4, <2>3 DEF UploadFine, CallFine, Reaches
    <2> QED
      BY <1>7, <2>2, <2>4, UploadTurnsTo
  <1>9. CASE n # Len(t)
    <2>1. Goto(u, "make") /\ depth' = [depth EXCEPT ![u] = n + 1]
      BY <1>2, <1>9 DEF GoOnDown, TreeTypes
    <2>2. PICK i \in Nat : i = n + 1
      BY <1>7
    <2>3. Turn(u, "make", d, t, e, m) /\ TurnUpload(u, i, at)
      BY <1>6, <2>1, <2>2 DEF Turn, TurnUpload, Goto
    <2>4. i \in 1 .. Len(t) /\ i # 1 /\ i - 1 = n
      BY <1>7, <1>9, <2>2
    <2>5. Reaches("make", t, i)'
      BY <2>4 DEF Reaches
    <2>6. UploadFine("make", d, t, i, e, at)' /\ CallFine(u, "make", d, t, e, m)
      BY <1>3, <1>5, <2>5 DEF UploadFine, CallFine
    <2> QED
      BY <1>7, <2>3, <2>6, UploadTurnsTo
  <1> QED
    BY <1>8, <1>9

LEMMA LooksStep ==
  ASSUME TreeInv, NEW u \in Uploads, MkdirAllLooks(u)
  PROVE  TreeInv'
  <1>1. PICK d \in Locations, t \in Locations, n \in Nat, e \in Errors, at \in Locations,
             m \in SUBSET DOMAIN kind :
          /\ d = dir[u] /\ t = target[u] /\ n = depth[u] /\ e = err[u] /\ at = placed[u] /\ m = made[u]
          /\ UploadFine(pc[u], d, t, n, e, at) /\ CallFine(u, pc[u], d, t, e, m)
    BY UploadValues
  <1>2. TreeTypes /\ TreeShape /\ u \in Calls
    BY DEF TreeInv, TreeTypes, Calls
  <1>3. pc[u] = "stat" /\ UNCHANGED <<kind, links, dir, target, placed, made>>
    BY DEF MkdirAllLooks
  <1>4. TreeShape' /\ Grows /\ DOMAIN kind \subseteq DOMAIN kind' /\ m \in SUBSET DOMAIN kind'
    BY <1>2, <1>3, GrowsStill
  <1>5. /\ e = "none" /\ at = NoLoc /\ (\A l \in m : isWithinRoot(l) \/ Climbs)
        /\ OnItsWay("stat", d, t) /\ isWithinRoot(t) /\ Descends(t)
        /\ n \in 1 .. Len(t) /\ n \in 0 .. Len(t)
    <2>1. OnItsWay("stat", d, t) /\ n \in 1 .. Len(t)
      BY <1>1, <1>3 DEF UploadFine, Reaches
    <2>2. n \in 0 .. Len(t)
      BY <2>1, LenProperties DEF Locations
    <2> QED
      BY <1>1, <1>3, <2>1, <2>2 DEF CallFine, UploadFine, OnItsWay
  <1>6. /\ dir' = [dir EXCEPT ![u] = d] /\ target' = [target EXCEPT ![u] = t]
        /\ made' = [made EXCEPT ![u] = m] /\ placed' = [placed EXCEPT ![u] = at]
        /\ pc = [pc EXCEPT ![u] = "stat"] /\ err = [err EXCEPT ![u] = e] /\ depth = [depth EXCEPT ![u] = n]
    BY <1>1, <1>2, <1>3, SameCall, SameUpload
  <1>7. PICK l \in Locations : l = To(t, n) /\ l = Reached(u)
    BY <1>1, <1>5, Cut DEF Reached, To
  <1>8. \/ Stat(l) = "none" /\ depth' = [depth EXCEPT ![u] = n - 1] /\ UNCHANGED <<pc, err>>
        \/ Stat(l) = "dir" /\ GoOnDown(u) /\ UNCHANGED err
        \/ Stat(l) = "file" /\ Fail(u, "create dir") /\ UNCHANGED depth
    BY <1>1, <1>2, <1>7 DEF MkdirAllLooks, TreeTypes
  <1>9. CASE Stat(l) = "none" /\ depth' = [depth EXCEPT ![u] = n - 1] /\ UNCHANGED <<pc, err>>
    <2>1. n # 1
      <3> SUFFICES ASSUME n = 1 PROVE FALSE
        OBVIOUS
      <3>1. l = Root
        BY <1>5, <1>7, Within
      <3> QED
        BY <1>2, <1>9, <3>1, RootIsThere
    <2>2. PICK i \in Nat : i = n - 1
      BY <1>5
    <2>3. i \in 1 .. Len(t)
      BY <1>5, <2>1, <2>2
    <2>4. Turn(u, "stat", d, t, e, m) /\ TurnUpload(u, i, at)
      BY <1>6, <1>9, <2>2 DEF Turn, TurnUpload
    <2>5. UploadFine("stat", d, t, i, e, at) /\ CallFine(u, "stat", d, t, e, m)
      BY <1>5, <2>3 DEF UploadFine, CallFine, Reaches
    <2>6. "stat" \in States
      BY DEF States
    <2> QED
      BY <1>4, <2>4, <2>5, <2>6, UploadTurns
  <1>10. CASE Stat(l) = "dir" /\ GoOnDown(u) /\ UNCHANGED err
    <2>1. Stat(l)' = "dir"
      BY <1>2, <1>4, <1>10, GrowsStat
    <2>2. Stat(To(t, n))' = "dir"
      BY <1>7, <2>1 DEF Stat, EvalSymlinks
    <2>3. t = target[u] /\ n = depth[u] /\ pc[u] \in {"stat", "make"} /\ UNCHANGED <<err, dir, target, placed>>
      BY <1>1, <1>3, <1>10
    <2>4. n \in 1 .. Len(t) /\ (\A a \in m : isWithinRoot(a) \/ Climbs) /\ GoOnDown(u)
          /\ made' = [made EXCEPT ![u] = m]
      BY <1>5, <1>6, <1>10
    <2> QED
      BY <1>4, <2>2, <2>3, <2>4, UploadGoesOn
  <1>11. CASE Stat(l) = "file" /\ Fail(u, "create dir") /\ UNCHANGED depth
    <2>1. InTheWay(t)
      <3> SUFFICES ASSUME ~InTheWay(t) PROVE FALSE
        OBVIOUS
      <3>1. \A p \in Ancestors(t) : At(p) \notin {"file", "link"}
        BY DEF InTheWay
      <3>2. l # NoLoc
        BY <1>5, <1>7, InsideAbove
      <3>3. EvalSymlinks(To(t, n)).err # "absent"
        BY <1>2, <1>7, <1>11, <3>2, StatIs
      <3>4. Clear(To(t, n))
        BY <1>2, <1>5, <3>1, <3>3, OpenWay
      <3> QED
        BY <1>2, <1>7, <1>11, <3>2, <3>4, StatIs
    <2>2. Turn(u, "done", d, t, "create dir", m) /\ TurnUpload(u, n, at)
      BY <1>6, <1>11 DEF Turn, TurnUpload, Fail, Goto
    <2>3. UploadFine("done", d, t, n, "create dir", at) /\ CallFine(u, "done", d, t, "create dir", m)
      BY <1>5, <2>1 DEF UploadFine, CallFine, OnItsWay, Reaches
    <2>4. "done" \in States /\ "create dir" \in Errors
      BY DEF States, Errors
    <2> QED
      BY <1>4, <2>2, <2>3, <2>4, UploadTurns
  <1> QED
    BY <1>8, <1>9, <1>10, <1>11

\* A step of an upload that ends it with an error and changes nothing else.
LEMMA UploadFails ==
  ASSUME TreeInv, NEW u \in Uploads, NEW e \in Errors, e # "none", pc[u] \in {"check", "make", "write"},
         Fail(u, e), UNCHANGED <<kind, links, dir, target, depth, placed, made>>,
         e = "path" => \E d \in Locations : d = dir[u] /\ Refused(d),
         e \in {"create dir", "not a directory"} => \E t \in Locations : t = target[u] /\ InTheWay(t)
  PROVE  TreeInv'
  <1>1. PICK d \in Locations, t \in Locations, n \in Nat, e0 \in Errors, at \in Locations,
             m \in SUBSET DOMAIN kind :
          /\ d = dir[u] /\ t = target[u] /\ n = depth[u] /\ e0 = err[u] /\ at = placed[u] /\ m = made[u]
          /\ UploadFine(pc[u], d, t, n, e0, at) /\ CallFine(u, pc[u], d, t, e0, m)
    BY UploadValues
  <1>2. TreeTypes /\ TreeShape /\ u \in Calls
    BY DEF TreeInv, TreeTypes, Calls
  <1>3. TreeShape' /\ Grows /\ DOMAIN kind \subseteq DOMAIN kind' /\ m \in SUBSET DOMAIN kind'
    BY <1>2, GrowsStill
  <1>4. at = NoLoc /\ \A l \in m : isWithinRoot(l) \/ Climbs
    BY <1>1 DEF CallFine, UploadFine
  <1>5. /\ dir' = [dir EXCEPT ![u] = d] /\ target' = [target EXCEPT ![u] = t]
        /\ made' = [made EXCEPT ![u] = m] /\ TurnUpload(u, n, at)
    <2>1. depth = [depth EXCEPT ![u] = n] /\ placed = [placed EXCEPT ![u] = at]
      BY <1>1, <1>2, SameUpload
    <2>2. dir = [dir EXCEPT ![u] = d] /\ target = [target EXCEPT ![u] = t] /\ made = [made EXCEPT ![u] = m]
      BY <1>1, <1>2, SameCall
    <2> QED
      BY <2>1, <2>2 DEF TurnUpload
  <1>6. Turn(u, "done", d, t, e, m)
    BY <1>5 DEF Turn, Fail, Goto
  <1>7. e = "path" => Refused(d)
    BY <1>1
  <1>8. e \in {"create dir", "not a directory"} => InTheWay(t)
    BY <1>1
  <1>9. UploadFine("done", d, t, n, e, at) /\ CallFine(u, "done", d, t, e, m)
    BY <1>4, <1>7, <1>8 DEF UploadFine, CallFine, OnItsWay, Reaches
  <1>10. "done" \in States
    BY DEF States
  <1> QED
    BY <1>3, <1>5, <1>6, <1>9, <1>10, UploadTurns

\* What is made below a directory of the way is inside.
LEMMA SpotInside ==
  ASSUME TreeShape, NEW t \in Locations, isWithinRoot(t), Descends(t), StaysIn(t) \/ Climbs,
         NEW n \in 2 .. Len(t), Stat(To(t, n - 1)) = "dir"
  PROVE  isWithinRoot(Spot(To(t, n))) \/ Climbs
  <1> SUFFICES ASSUME ~Climbs PROVE isWithinRoot(Spot(To(t, n)))
    OBVIOUS
  <1>1. PICK c \in Locations :
           /\ EvalSymlinks(To(t, n - 1)) = Far(c, "ok") /\ Spot(To(t, n)) = c \o <<t[n]>>
    BY SpotIs
  <1>2. n \in 1 .. Len(t) /\ n - 1 \in 1 .. Len(t)
    BY LenProperties DEF Locations
  <1>3. isWithinRoot(c)
    BY <1>1, <1>2, FarFields DEF StaysIn
  <1>4. <<t[n]>> \in Locations
    BY <1>2, LastCut, OneMore
  <1> QED
    BY <1>1, <1>3, <1>4, InsideBelow

\* The way goes on in the new directory.
LEMMA SpotMade ==
  ASSUME TreeShape, TreeShape', Grows, NEW t \in Locations, Descends(t), NEW n \in 2 .. Len(t),
         Stat(To(t, n - 1)) = "dir", NEW c \in Locations, EvalSymlinks(To(t, n - 1)) = Far(c, "ok"),
         NEW l, l = c \o <<t[n]>>, At(l)' = "dir"
  PROVE  Stat(To(t, n))' = "dir"
  <1>1. n \in Nat /\ n \in 1 .. Len(t) /\ n - 1 \in 0 .. Len(t)
    BY LenProperties DEF Locations
  <1>2. To(t, n - 1) \in Locations
    BY <1>1, Cut
  <1>3. Stat(To(t, n - 1))' = "dir"
    BY <1>2, GrowsStat
  <1>4. EvalSymlinks(To(t, n - 1))' = Far(c, "ok")
    BY <1>2, GrowsEval, FarFields
  <1>5. At(c \o <<t[n]>>)' = "dir"
    BY DEF At
  <1> QED
    BY <1>1, <1>3, <1>4, <1>5, SpotFactsNext DEF SpotFacts

LEMMA MakesStep ==
  ASSUME TreeInv, NEW u \in Uploads, MkdirAllMakes(u)
  PROVE  TreeInv'
  <1>1. PICK d \in Locations, t \in Locations, n \in Nat, e \in Errors, at \in Locations,
             m \in SUBSET DOMAIN kind :
          /\ d = dir[u] /\ t = target[u] /\ n = depth[u] /\ e = err[u] /\ at = placed[u] /\ m = made[u]
          /\ UploadFine(pc[u], d, t, n, e, at) /\ CallFine(u, pc[u], d, t, e, m)
    BY UploadValues
  <1>2. TreeTypes /\ TreeShape /\ u \in Calls
    BY DEF TreeInv, TreeTypes, Calls
  <1>3. pc[u] = "make" /\ UNCHANGED <<links, dir, target, placed>>
    BY DEF MkdirAllMakes
  <1>4. \A l \in m : isWithinRoot(l) \/ Climbs
    BY <1>1 DEF CallFine
  <1>5. /\ isWithinRoot(t) /\ Descends(t) /\ (StaysIn(t) \/ Climbs)
        /\ n \in 2 .. Len(t) /\ n \in 1 .. Len(t) /\ Stat(To(t, n - 1)) = "dir"
    <2>1. /\ isWithinRoot(t) /\ Descends(t) /\ (StaysIn(t) \/ Climbs)
          /\ n \in 1 .. Len(t) /\ n # 1 /\ Stat(To(t, n - 1)) = "dir"
      BY <1>1, <1>3 DEF UploadFine, OnItsWay, Reaches
    <2>2. n \in 2 .. Len(t)
      BY <2>1, LenProperties DEF Locations
    <2> QED
      BY <2>1, <2>2
  <1>6. PICK c \in Locations, l \in Locations :
          /\ EvalSymlinks(To(t, n - 1)) = Far(c, "ok") /\ Clear(c) /\ At(c) = "dir"
          /\ l = Spot(To(t, n)) /\ l = c \o <<t[n]>> /\ Descends(l) /\ l # NoLoc /\ Front(l) = c
    BY <1>2, <1>5, SpotIs
  <1>7. l = Spot(Reached(u))
    BY <1>1, <1>6 DEF Reached, To
  <1>8. \/ /\ At(l) = "none" /\ kind' = With(l, "dir") /\ made' = [made EXCEPT ![u] = @ \cup {l}]
           /\ GoOnDown(u) /\ UNCHANGED err
        \/ At(l) = "dir" /\ GoOnDown(u) /\ UNCHANGED <<kind, made, err>>
        \/ At(l) \in {"file", "link"} /\ Fail(u, "create dir") /\ UNCHANGED <<kind, made, depth>>
    BY <1>7 DEF MkdirAllMakes
  <1>9. t = target[u] /\ n = depth[u] /\ pc[u] \in {"stat", "make"} /\ UNCHANGED <<dir, target, placed>>
    BY <1>1, <1>3
  <1>10. CASE /\ At(l) = "none" /\ kind' = With(l, "dir") /\ made' = [made EXCEPT ![u] = @ \cup {l}]
              /\ GoOnDown(u) /\ UNCHANGED err
    <2>1. isWithinRoot(l) \/ Climbs
      BY <1>2, <1>5, <1>6, SpotInside
    <2>2. TreeShape' /\ Grows /\ DOMAIN kind \subseteq DOMAIN kind' /\ l \in DOMAIN kind' /\ At(l)' = "dir"
      BY <1>2, <1>3, <1>6, <1>10, <2>1, GrowsMade
    <2>3. PICK m1 \in SUBSET DOMAIN kind' : m1 = m \cup {l}
      BY <2>2
    <2>4. made' = [made EXCEPT ![u] = m1] /\ \A a \in m1 : isWithinRoot(a) \/ Climbs
      BY <1>1, <1>2, <1>4, <1>10, <2>1, <2>3 DEF TreeTypes
    <2>5. Stat(To(t, n))' = "dir"
      BY <1>2, <1>5, <1>6, <2>2, SpotMade
    <2>6. n \in 1 .. Len(t) /\ GoOnDown(u) /\ UNCHANGED <<err, dir, target, placed>>
      BY <1>5, <1>9, <1>10
    <2>7. TreeShape' /\ Grows /\ DOMAIN kind \subseteq DOMAIN kind'
      BY <2>2
    <2>8. t = target[u] /\ n = depth[u] /\ pc[u] \in {"stat", "make"}
      BY <1>9
    <2> QED
      BY <2>4, <2>5, <2>6, <2>7, <2>8, UploadGoesOn
  <1>11. CASE At(l) = "dir" /\ GoOnDown(u) /\ UNCHANGED <<kind, made, err>>
    <2>1. TreeShape' /\ Grows /\ DOMAIN kind \subseteq DOMAIN kind' /\ m \in SUBSET DOMAIN kind'
      BY <1>2, <1>3, <1>11, GrowsStill
    <2>2. Stat(To(t, n)) = "dir"
      BY <1>2, <1>5, <1>6, <1>11, SpotFactsHold DEF SpotFacts
    <2>3. Stat(To(t, n))' = "dir"
      <3>1. n \in 0 .. Len(t)
        BY <1>5
      <3>2. PICK a \in Locations : a = To(t, n)
        BY <3>1, Cut
      <3>3. Stat(a)' = "dir"
        BY <1>2, <2>1, <2>2, <3>2, GrowsStat
      <3> QED
        BY <3>2, <3>3 DEF Stat, EvalSymlinks
    <2>4. made' = [made EXCEPT ![u] = m]
      BY <1>1, <1>2, <1>11, SameCall
    <2>5. n \in 1 .. Len(t) /\ GoOnDown(u) /\ UNCHANGED <<err, dir, target, placed>>
      BY <1>5, <1>9, <1>11
    <2>6. t = target[u] /\ n = depth[u] /\ pc[u] \in {"stat", "make"}
      BY <1>9
    <2> QED
      BY <1>4, <2>1, <2>3, <2>4, <2>5, <2>6, UploadGoesOn
  <1>12. CASE At(l) \in {"file", "link"} /\ Fail(u, "create dir") /\ UNCHANGED <<kind, made, depth>>
    <2>1. InTheWay(t)
      <3> SUFFICES ASSUME ~InTheWay(t) PROVE FALSE
        OBVIOUS
      <3>1. \A p \in Ancestors(t) : At(p) \notin {"file", "link"}
        BY DEF InTheWay
      <3>2. n - 1 \in 1 .. Len(t) /\ n - 1 \in 0 .. Len(t)
        BY <1>5
      <3>3. PICK a \in Locations : a = To(t, n - 1)
        BY <3>2, Cut
      <3>4. Clear(a)
        BY <1>2, <1>5, <1>6, <3>1, <3>2, <3>3, OpenWay, FarFields
      <3>5. c = a
        BY <1>2, <1>6, <3>3, <3>4, EvalClear, FarFields
      <3>6. l = To(t, n)
        BY <1>5, <1>6, <3>3, <3>5, LastCut
      <3> QED
        BY <1>5, <1>12, <3>1, <3>6, AboveIn
    <2>2. "create dir" \in Errors
      BY DEF Errors
    <2> QED
      BY <1>1, <1>3, <1>12, <2>1, <2>2, UploadFails
  <1> QED
    BY <1>8, <1>10, <1>11, <1>12

\* Check can only meet a file where the way there has a file or a link.
LEMMA NotADirectory ==
  ASSUME TreeShape, NEW d \in Locations, NEW t \in Locations,
         OnItsWay("check", d, t), Stat(t) = "dir", Stat(SafePath(d)) # "dir"
  PROVE  InTheWay(t)
  <1> SUFFICES ASSUME ~InTheWay(t) PROVE FALSE
    OBVIOUS
  <1>1. isWithinRoot(Join(Root, d)) /\ isWithinRoot(t) /\ Route(Join(Root, d), t) /\ Descends(t)
    BY DEF OnItsWay
  <1>2. Len(t) \in 1 .. Len(t) /\ t # NoLoc
    BY <1>1, InsideIsSome
  <1>3. To(t, Len(t)) = t
    BY WholePrefix DEF To
  <1>4. EvalSymlinks(t).err # "absent"
    BY <1>2, StatIs
  <1>5. \A p \in Ancestors(t) : At(p) \notin {"file", "link"}
    BY DEF InTheWay
  <1>6. Clear(t)
    BY <1>1, <1>2, <1>3, <1>4, <1>5, OpenWay
  <1>7. EvalSymlinks(Join(Root, d)) = Far(t, "ok")
    BY <1>1, <1>6, JoinIn, RouteClear
  <1>8. SafePath(d) = t
    BY <1>1, <1>7, SafePathFound
  <1> QED
    BY <1>8

LEMMA DirErrorIs ==
  ASSUME NEW l, NEW absent \in {"disk", "create dir"}
  PROVE  \/ DirError(l, absent) = "path" /\ l = NoLoc
         \/ DirError(l, absent) = "none" /\ l # NoLoc /\ Stat(l) = "dir"
         \/ DirError(l, absent) = absent /\ l # NoLoc
         \/ DirError(l, absent) = "not a directory" /\ l # NoLoc /\ Stat(l) # "dir"
  <1>1. CASE l = NoLoc
    BY <1>1, Zenon DEF DirError
  <1>2. CASE l # NoLoc /\ Stat(l) = "dir"
    BY <1>2 DEF DirError
  <1>3. CASE l # NoLoc /\ Stat(l) = "none"
    BY <1>3 DEF DirError
  <1>4. CASE l # NoLoc /\ Stat(l) # "dir" /\ Stat(l) # "none"
    BY <1>4 DEF DirError
  <1> QED
    BY <1>1, <1>2, <1>3, <1>4

LEMMA CheckStep ==
  ASSUME TreeInv, NEW u \in Uploads, Check(u)
  PROVE  TreeInv'
  <1>1. PICK d \in Locations, t0 \in Locations, n \in Nat, e \in Errors, at \in Locations,
             m \in SUBSET DOMAIN kind :
          /\ d = dir[u] /\ t0 = target[u] /\ n = depth[u] /\ e = err[u] /\ at = placed[u] /\ m = made[u]
          /\ UploadFine(pc[u], d, t0, n, e, at) /\ CallFine(u, pc[u], d, t0, e, m)
    BY UploadValues
  <1>2. TreeTypes /\ TreeShape /\ u \in Calls
    BY DEF TreeInv, TreeTypes, Calls
  <1>3. pc[u] = "check" /\ UNCHANGED <<kind, links, dir, depth, placed, made>>
    BY DEF Check
  <1>4. e = "none" /\ at = NoLoc /\ (\A l \in m : isWithinRoot(l) \/ Climbs)
        /\ OnItsWay("check", d, t0) /\ Stat(t0) = "dir"
    BY <1>1, <1>3 DEF CallFine, UploadFine, Reaches
  <1>5. PICK t \in Locations : t = SafePath(d)
    BY <1>2, SafePathIn
  <1>6. \/ Fail(u, "extension") /\ UNCHANGED target
        \/ DirError(t, "disk") # "none" /\ Fail(u, DirError(t, "disk")) /\ UNCHANGED target
        \/ DirError(t, "disk") = "none" /\ target' = [target EXCEPT ![u] = t] /\ Goto(u, "write") /\ UNCHANGED err
    BY <1>1, <1>5 DEF Check
  <1>7. CASE Fail(u, "extension") /\ UNCHANGED target
    <2>1. "extension" \in Errors
      BY DEF Errors
    <2> QED
      BY <1>3, <1>7, <2>1, UploadFails
  <1>8. CASE DirError(t, "disk") # "none" /\ Fail(u, DirError(t, "disk")) /\ UNCHANGED target
    <2>1. PICK f \in Errors : f = DirError(t, "disk")
      BY DirErrorIs DEF Errors
    <2>2. f = "path" => Refused(d)
      BY <1>2, <1>5, <2>1, DirErrorIs, RefusedIs
    <2>3. f \in {"create dir", "not a directory"} => InTheWay(t0)
      <3> SUFFICES ASSUME f \in {"create dir", "not a directory"} PROVE InTheWay(t0)
        OBVIOUS
      <3>1. Stat(t) # "dir"
        BY <2>1, DirErrorIs
      <3> QED
        BY <1>2, <1>4, <1>5, <3>1, NotADirectory
    <2>4. Fail(u, f) /\ f # "none" /\ UNCHANGED <<kind, links, dir, target, depth, placed, made>>
      BY <1>3, <1>8, <2>1
    <2> QED
      BY <1>1, <1>3, <2>2, <2>3, <2>4, UploadFails
  <1>9. CASE /\ DirError(t, "disk") = "none" /\ target' = [target EXCEPT ![u] = t]
             /\ Goto(u, "write") /\ UNCHANGED err
    <2>1. t # NoLoc /\ Stat(t) = "dir"
      BY <1>9, DirErrorIs
    <2>2. EvalSymlinks(Join(Root, d)) = Far(t, "ok") /\ At(t) = "dir" /\ isWithinRoot(t)
      BY <1>2, <1>5, <2>1, SafePathDir, SafePathIn
    <2>3. UploadFine("write", d, t, n, e, at) /\ CallFine(u, "write", d, t, e, m)
      BY <1>4, <2>2 DEF UploadFine, CallFine, OnItsWay, Reaches, Arrived
    <2>4. TreeShape' /\ Grows /\ DOMAIN kind \subseteq DOMAIN kind' /\ m \in SUBSET DOMAIN kind'
      BY <1>2, <1>3, GrowsStill
    <2>5. Turn(u, "write", d, t, e, m)
      BY <1>1, <1>2, <1>3, <1>9, SameCall DEF Turn, Goto
    <2>6. TurnUpload(u, n, at)
      BY <1>1, <1>2, <1>3, SameUpload DEF TurnUpload
    <2>7. "write" \in States
      BY DEF States
    <2> QED
      BY <2>3, <2>4, <2>5, <2>6, <2>7, UploadTurns
  <1> QED
    BY <1>6, <1>7, <1>8, <1>9

LEMMA WriteStep ==
  ASSUME TreeInv, NEW u \in Uploads, Write(u)
  PROVE  TreeInv'
  <1>1. PICK d \in Locations, t \in Locations, n \in Nat, e \in Errors, at \in Locations,
             m \in SUBSET DOMAIN kind :
          /\ d = dir[u] /\ t = target[u] /\ n = depth[u] /\ e = err[u] /\ at = placed[u] /\ m = made[u]
          /\ UploadFine(pc[u], d, t, n, e, at) /\ CallFine(u, pc[u], d, t, e, m)
    BY UploadValues
  <1>2. TreeTypes /\ TreeShape /\ u \in Calls
    BY DEF TreeInv, TreeTypes, Calls
  <1>3. /\ pc[u] = "write" /\ Goto(u, "done") /\ placed' = [placed EXCEPT ![u] = t]
        /\ UNCHANGED <<links, err, dir, target, depth, made>>
    BY <1>1 DEF Write, call
  <1>4. e = "none" /\ (\A l \in m : isWithinRoot(l) \/ Climbs) /\ Arrived(d, t)
    BY <1>1, <1>3 DEF CallFine, UploadFine
  <1>5. TreeShape' /\ Grows /\ DOMAIN kind \subseteq DOMAIN kind' /\ m \in SUBSET DOMAIN kind'
    <2>1. CASE UNCHANGED kind
      BY <1>2, <1>3, <2>1, GrowsStill
    <2>2. ASSUME NEW name \in Names, At(Append(t, name)) = "none", kind' = With(Append(t, name), "file")
          PROVE  TreeShape' /\ Grows /\ DOMAIN kind \subseteq DOMAIN kind'
      <3>1. name \in Segments /\ name # Up
        BY NamesAssumption DEF Segments
      <3>2. PICK l \in Locations : l = Append(t, name) /\ l = t \o <<name>> /\ Front(l) = t /\ l # NoLoc
        BY <3>1, OneMore
      <3>3. isWithinRoot(t) /\ At(t) = "dir"
        BY <1>4 DEF Arrived
      <3>4. <<name>> \in Locations /\ Descends(<<name>>)
        BY <3>1, OneMore DEF Descends
      <3>5. isWithinRoot(l)
        BY <3>2, <3>3, <3>4, InsideBelow
      <3>6. Descends(t)
        BY <1>2, <3>3, DescendsThere
      <3>7. Descends(l)
        BY <3>2, <3>4, <3>6, DescendsCat
      <3>8. At(l) = "none" /\ kind' = With(l, "file") /\ UNCHANGED links
        BY <1>3, <2>2, <3>2
      <3> QED
        BY <1>2, <3>2, <3>3, <3>5, <3>7, <3>8, GrowsMade
    <2>3. \/ \E name \in Names : At(Append(t, name)) = "none" /\ kind' = With(Append(t, name), "file")
          \/ UNCHANGED kind
      BY <1>1 DEF Write
    <2>4. TreeShape' /\ Grows /\ DOMAIN kind \subseteq DOMAIN kind'
      BY <2>1, <2>2, <2>3
    <2> QED
      BY <2>4
  <1>6. Turn(u, "done", d, t, e, m)
    BY <1>1, <1>2, <1>3, SameCall DEF Turn, Goto
  <1>7. TurnUpload(u, n, t)
    BY <1>1, <1>2, <1>3, SameUpload DEF TurnUpload
  <1>8. UploadFine("done", d, t, n, e, t) /\ CallFine(u, "done", d, t, e, m)
    BY <1>4 DEF UploadFine, CallFine, OnItsWay, Reaches
  <1>9. "done" \in States
    BY DEF States
  <1> QED
    BY <1>5, <1>6, <1>7, <1>8, <1>9, UploadTurns

LEMMA DiskErrorStep ==
  ASSUME TreeInv, NEW u \in Uploads, DiskError(u)
  PROVE  TreeInv'
  <1>1. "disk" \in Errors
    BY DEF Errors
  <1> QED
    BY <1>1, UploadFails DEF DiskError

LEMMA RefusedBelow ==
  ASSUME NEW base \in Locations, NEW name \in Segments, Refused(base)
  PROVE  Append(base, name) \in Locations /\ Refused(Append(base, name))
  <1> DEFINE s == <<name>>
             b == Append(base, name)
             a == Root \o base
  <1>1. /\ b \in Locations /\ Len(b) = Len(base) + 1 /\ b = base \o s /\ s \in Locations
        /\ \A i \in 1 .. Len(base) : b[i] = base[i]
    BY AppendProperties, AppendIsConcat DEF Locations
  <1>2. Len(base) \in Nat /\ DOMAIN base = 1 .. Len(base) /\ DOMAIN b = 1 .. Len(b)
    BY <1>1, LenProperties DEF Locations
  <1>3. a \in Locations /\ Root \in Locations
    BY RootIn, Cat
  <1>4. \/ \E i \in DOMAIN base : base[i] = Up
        \/ \E p \in Ancestors(a) : At(p) \in {"link", "file"}
    BY DEF Refused
  <1> HIDE DEF s, b
  <1>5. Root \o b = a \o s
    BY <1>1, <1>3, CatAssociates
  <1> HIDE DEF a
  <1>6. Ancestors(a) \subseteq Ancestors(a \o s)
    <2> SUFFICES ASSUME NEW p \in Ancestors(a) PROVE p \in Ancestors(a \o s)
      OBVIOUS
    <2>1. PICK k \in 1 .. Len(a) : p = To(a, k)
      BY DEF Ancestors, To
    <2>2. a \o s \in Locations /\ Len(a \o s) = Len(a) + Len(s) /\ Len(a) \in Nat /\ Len(s) \in Nat
      BY <1>1, <1>3, Cat
    <2>3. k \in 0 .. Len(a) /\ k \in 1 .. Len(a \o s)
      BY <2>2
    <2>4. To(a \o s, k) = To(a, k)
      BY <1>1, <1>3, <2>3, Cat
    <2> QED
      BY <2>1, <2>2, <2>3, <2>4, AboveIn
  <1>7. CASE \E i \in DOMAIN base : base[i] = Up
    <2>1. \E i \in DOMAIN b : b[i] = Up
      BY <1>1, <1>2, <1>7
    <2> QED
      BY <1>1, <2>1 DEF Refused, b
  <1>8. CASE \E p \in Ancestors(a) : At(p) \in {"link", "file"}
    <2>1. \E p \in Ancestors(Root \o b) : At(p) \in {"link", "file"}
      BY <1>5, <1>6, <1>8
    <2> QED
      BY <1>1, <2>1 DEF Refused, b
  <1> QED
    BY <1>4, <1>7, <1>8

LEMMA JoinMore ==
  ASSUME NEW base \in Locations, NEW n \in Segments, n # Up
  PROVE  Join(Root, Append(base, n)) = Append(Join(Root, base), n)
  <1>1. PICK path \in Locations : path = Append(base, n) /\ Len(path) = Len(base) + 1
    BY OneMore
  <1>2. Len(base) \in Nat /\ (\A i \in 1 .. Len(base) : path[i] = base[i]) /\ path[Len(base) + 1] = n
    BY <1>1, LenProperties, AppendProperties DEF Locations
  <1>3. PICK f : /\ f[0] = Root /\ Along(Clean, Root, base) = f[Len(base)]
                 /\ \A i \in 0 .. Len(base) : f[i] \in Locations
                 /\ \A i \in 0 .. Len(base) - 1 : f[i + 1] = Clean[base[i + 1]][f[i]]
    BY CleanIn, RootIn, AlongIs
  <1>4. PICK g : /\ g[0] = Root /\ Along(Clean, Root, path) = g[Len(path)]
                 /\ \A i \in 0 .. Len(path) : g[i] \in Locations
                 /\ \A i \in 0 .. Len(path) - 1 : g[i + 1] = Clean[path[i + 1]][g[i]]
    <2>1. Clean \in [Segments -> [Locations -> Locations]] /\ Root \in Locations
      BY CleanIn, RootIn
    <2> HIDE DEF Clean
    <2> QED
      BY <2>1, AlongIs
  <1> DEFINE S == {i \in Nat : i <= Len(base) => g[i] = f[i]}
  <1>5. 0 \in S
    BY <1>3, <1>4
  <1>6. ASSUME NEW i \in Nat, i \in S PROVE i + 1 \in S
    <2> SUFFICES ASSUME i + 1 <= Len(base) PROVE g[i + 1] = f[i + 1]
      OBVIOUS
    <2>1. i \in 0 .. Len(base) - 1 /\ i \in 0 .. Len(path) - 1 /\ i + 1 \in 1 .. Len(base) /\ i <= Len(base)
      BY <1>1, <1>2
    <2>2. g[i] = f[i]
      BY <1>6, <2>1
    <2> QED
      BY <1>2, <1>3, <1>4, <2>1, <2>2
  <1> HIDE DEF S
  <1>7. Len(base) \in S
    BY <1>2, <1>5, <1>6, SetInduction
  <1>8. PICK l \in Locations : l = f[Len(base)] /\ l = g[Len(base)] /\ l = Join(Root, base)
    BY <1>2, <1>3, <1>7 DEF S, Join
  <1>9. g[Len(base) + 1] = Clean[n][l]
    <2>1. Len(base) \in 0 .. Len(path) - 1
      BY <1>1, <1>2
    <2> QED
      BY <1>2, <1>4, <1>8, <2>1
  <1>10. Clean[n][l] = Append(l, n)
    BY DEF Clean
  <1> QED
    BY <1>1, <1>4, <1>8, <1>9, <1>10 DEF Join

\* Where CreateDirectory goes is taken, or below the parent it has found.
LEMMA MkdirWay ==
  ASSUME TreeShape, NEW base \in Locations, NEW n \in Segments, n # Up,
         SafePath(base) # NoLoc, Stat(SafePath(base)) = "dir", SafePath(Append(base, n)) # NoLoc
  PROVE  LET to == SafePath(Append(base, n)) IN At(to) # "none" \/ At(Front(to)) = "dir"
  <1>1. PICK b \in Locations, l \in Locations :
          /\ b = Join(Root, base) /\ l = Join(Root, Append(base, n)) /\ l = b \o <<n>> /\ Len(l) = Len(b) + 1
          /\ <<n>> \in Locations /\ Len(b) \in Nat
    <2>1. Join(Root, base) \in Locations /\ Join(Root, Append(base, n)) = Append(Join(Root, base), n)
      BY JoinIn, JoinMore
    <2>2. PICK b \in Locations : b = Join(Root, base)
      BY <2>1
    <2>3. Append(b, n) \in Locations /\ Append(b, n) = b \o <<n>> /\ Len(Append(b, n)) = Len(b) + 1
          /\ <<n>> \in Locations /\ Len(b) \in Nat
      BY OneMore, LenProperties DEF Locations
    <2> QED
      BY <2>1, <2>2, <2>3
  <1>2. PICK c \in Locations : c = SafePath(base) /\ EvalSymlinks(b) = Far(c, "ok") /\ At(c) = "dir"
    BY <1>1, SafePathDir, SafePathIn
  <1>3. PICK to \in Locations : to = SafePath(Append(base, n)) /\ isWithinRoot(to)
    BY OneMore, SafePathIn
  <1>4. PICK k \in 0 .. Len(l) : /\ EvalSymlinks(To(l, k)).err = "ok"
                                 /\ to = EvalSymlinks(To(l, k)).at \o From(l, k)
                                 /\ k = Len(l) \/ EvalSymlinks(l).err = "absent"
                                 /\ \A i \in k + 1 .. Len(l) : EvalSymlinks(To(l, i)).err = "absent"
    <2>1. PICK path \in Locations : path = Append(base, n)
      BY OneMore
    <2>2. /\ l = Join(Root, path) /\ to = SafePath(path) /\ SafePath(path) # NoLoc
      BY <1>1, <1>3, <2>1
    <2>3. \E k \in 0 .. Len(Join(Root, path)) :
             /\ EvalSymlinks(To(Join(Root, path), k)).err = "ok"
             /\ SafePath(path) = EvalSymlinks(To(Join(Root, path), k)).at \o From(Join(Root, path), k)
             /\ k = Len(Join(Root, path)) \/ EvalSymlinks(Join(Root, path)).err = "absent"
             /\ \A i \in k + 1 .. Len(Join(Root, path)) : EvalSymlinks(To(Join(Root, path), i)).err = "absent"
      BY <2>2, SafePathIs
    <2> QED
      BY <2>2, <2>3, Zenon
  <1>5. PICK s \in Locations : s = <<n>> /\ l = b \o s
    BY <1>1
  <1>6. To(l, Len(b)) = b /\ From(l, Len(b)) = s
    <2>1. Len(b) \in 0 .. Len(b) /\ To(b, Len(b)) = b
      BY <1>1, WholePrefix DEF To
    <2>2. From(b, Len(b)) = <<>>
      BY <1>1, SubSeqEmpty DEF From
    <2>3. To(b \o s, Len(b)) = To(b, Len(b)) /\ From(b \o s, Len(b)) = From(b, Len(b)) \o s
      BY <2>1, Cat
    <2>4. <<>> \o s = s
      BY ConcatEmptySeq DEF Locations
    <2> QED
      BY <1>5, <2>1, <2>2, <2>3, <2>4, Zenon
  <1>7. k = Len(b) \/ k = Len(l)
    <2>1. Len(b) \notin k + 1 .. Len(l)
      BY <1>2, <1>4, <1>6, FarFields
    <2>2. PICK i \in Nat : i = Len(b) /\ Len(l) = i + 1 /\ k \in 0 .. i + 1 /\ i \notin k + 1 .. i + 1
      BY <1>1, <2>1
    <2> QED
      BY <2>2
  <1>8. CASE k = Len(b)
    <2>1. to = c \o s
      <3>1. To(l, k) = b /\ From(l, k) = s
        BY <1>6, <1>8
      <3>2. EvalSymlinks(To(l, k)).at = c
        BY <1>2, <3>1, FarFields
      <3> QED
        BY <1>4, <3>1, <3>2
    <2>2. Front(to) = c
      BY <1>5, <2>1, OneMore
    <2> QED
      BY <1>2, <1>3, <2>2
  <1>9. CASE k = Len(l)
    <2>1. To(l, k) = l /\ From(l, k) = <<>>
      BY <1>9, <1>1, WholePrefix, SubSeqEmpty DEF To, From
    <2>2. to = EvalSymlinks(l).at /\ EvalSymlinks(l).err = "ok" /\ EvalSymlinks(l).at \in Locations
          /\ Lands(EvalSymlinks(l).at)
      <3>1. EvalSymlinks(l).err = "ok"
        BY <1>4, <2>1
      <3>2. EvalSymlinks(l).at \in Locations /\ Lands(EvalSymlinks(l).at)
        BY <3>1, EvalLands
      <3> QED
        BY <1>4, <2>1, <3>1, <3>2, ConcatEmptySeq DEF Locations
    <2>3. Len(to) \in 1 .. Len(to) /\ SubSeq(to, 1, Len(to)) = to
      BY <1>3, InsideIsSome, WholePrefix
    <2>4. At(to) \in {"dir", "file"}
      BY <2>2, <2>3 DEF Lands, Clear
    <2> QED
      BY <1>3, <2>4
  <1> QED
    BY <1>7, <1>8, <1>9

LEMMA SubmitMkdirStep ==
  ASSUME TreeInv, NEW c \in Mkdirs, SubmitMkdir(c)
  PROVE  TreeInv'
  <1>1. PICK d0 \in Locations, t0 \in Locations, e \in Errors, m \in SUBSET DOMAIN kind :
          /\ d0 = dir[c] /\ t0 = target[c] /\ e = err[c] /\ m = made[c]
          /\ CallFine(c, pc[c], d0, t0, e, m)
    BY MkdirValues
  <1>2. TreeTypes /\ TreeShape /\ c \in Calls
    BY DEF TreeInv, TreeTypes, Calls
  <1>3. pc[c] = "idle" /\ UNCHANGED <<kind, links, depth, placed, made>>
    BY DEF SubmitMkdir
  <1>4. TreeShape' /\ Grows /\ DOMAIN kind \subseteq DOMAIN kind' /\ m \in SUBSET DOMAIN kind'
    BY <1>2, <1>3, GrowsStill
  <1>5. e = "none" /\ \A l \in m : isWithinRoot(l) \/ Climbs
    BY <1>1, <1>3 DEF CallFine
  <1>6. PICK base \in Bases, name \in Names :
          LET to     == SafePath(Append(base, name))
              parent == DirError(SafePath(base), "create dir")
          IN /\ dir' = [dir EXCEPT ![c] = Append(base, name)]
             /\ target' = [target EXCEPT ![c] = to]
             /\ IF parent # "none" THEN Fail(c, parent)
                ELSE IF to = NoLoc THEN Fail(c, "path")
                ELSE Goto(c, "mkdir") /\ UNCHANGED err
    BY DEF SubmitMkdir
  <1> DEFINE d == Append(base, name)
  <1>7. base \in Locations /\ name \in Segments
    BY PathsAssumption DEF Segments
  <1>8. d \in Locations
    BY <1>7, AppendProperties DEF Locations
  <1>9. PICK t \in Locations : t = SafePath(d)
    BY <1>2, <1>8, SafePathIn
  <1>10. PICK f \in Errors : f = DirError(SafePath(base), "create dir")
    BY DirErrorIs DEF Errors
  <1>11. dir' = [dir EXCEPT ![c] = d] /\ target' = [target EXCEPT ![c] = t] /\ made' = [made EXCEPT ![c] = m]
    BY <1>1, <1>2, <1>3, <1>6, <1>9, SameCall
  <1>12. \/ f # "none" /\ Fail(c, f)
         \/ t = NoLoc /\ Fail(c, "path")
         \/ f = "none" /\ t # NoLoc /\ Goto(c, "mkdir") /\ UNCHANGED err
    BY <1>6, <1>9, <1>10
  <1>13. f = "path" => Refused(d)
    <2> SUFFICES ASSUME f = "path" PROVE Refused(d)
      OBVIOUS
    <2>1. SafePath(base) = NoLoc
      BY <1>10, DirErrorIs
    <2>2. Refused(base)
      BY <1>2, <1>7, <2>1, RefusedIs
    <2> QED
      BY <1>7, <2>2, RefusedBelow
  <1> HIDE DEF d
  <1>14. "done" \in States /\ "mkdir" \in States /\ "path" \in Errors
    BY DEF States, Errors
  <1>15. CASE f # "none" /\ Fail(c, f)
    <2>1. Turn(c, "done", d, t, f, m)
      BY <1>11, <1>15 DEF Turn, Fail, Goto
    <2>2. CallFine(c, "done", d, t, f, m)
      BY <1>5, <1>13 DEF CallFine
    <2> QED
      BY <1>3, <1>4, <1>8, <1>14, <2>1, <2>2, MkdirTurns
  <1>16. CASE t = NoLoc /\ Fail(c, "path")
    <2>1. Turn(c, "done", d, t, "path", m)
      BY <1>11, <1>16 DEF Turn, Fail, Goto
    <2>2. Refused(d)
      BY <1>2, <1>8, <1>9, <1>16, RefusedIs
    <2>3. CallFine(c, "done", d, t, "path", m)
      BY <1>5, <2>2 DEF CallFine
    <2> QED
      BY <1>3, <1>4, <1>8, <1>14, <2>1, <2>3, MkdirTurns
  <1>17. CASE f = "none" /\ t # NoLoc /\ Goto(c, "mkdir") /\ UNCHANGED err
    <2>1. Turn(c, "mkdir", d, t, e, m)
      BY <1>1, <1>2, <1>11, <1>17, SameCall DEF Turn, Goto
    <2>2. isWithinRoot(t) /\ Descends(t)
      BY <1>2, <1>8, <1>9, <1>17, SafePathIn, SafePathDescends
    <2>4. SafePath(base) # NoLoc /\ Stat(SafePath(base)) = "dir"
      BY <1>10, <1>17, DirErrorIs
    <2>5. At(t) # "none" \/ At(Front(t)) = "dir"
      BY <1>2, <1>7, <1>9, <1>17, <2>4, NamesAssumption, MkdirWay DEF d
    <2>3. CallFine(c, "mkdir", d, t, e, m)
      BY <1>5, <2>2, <2>5 DEF CallFine
    <2> QED
      BY <1>3, <1>4, <1>8, <1>14, <2>1, <2>3, MkdirTurns
  <1> QED
    BY <1>12, <1>15, <1>16, <1>17

LEMMA MkdirStep ==
  ASSUME TreeInv, NEW c \in Mkdirs, Mkdir(c)
  PROVE  TreeInv'
  <1>1. PICK d \in Locations, t \in Locations, e \in Errors, m \in SUBSET DOMAIN kind :
          /\ d = dir[c] /\ t = target[c] /\ e = err[c] /\ m = made[c]
          /\ CallFine(c, pc[c], d, t, e, m)
    BY MkdirValues
  <1>2. TreeTypes /\ TreeShape /\ c \in Calls
    BY DEF TreeInv, TreeTypes, Calls
  <1>3. pc[c] = "mkdir" /\ UNCHANGED <<links, dir, target, depth, placed>>
    BY DEF Mkdir
  <1>4. e = "none" /\ isWithinRoot(t) /\ Descends(t) /\ (At(t) # "none" \/ At(Front(t)) = "dir")
    BY <1>1, <1>3 DEF CallFine
  <1>5. dir' = [dir EXCEPT ![c] = d] /\ target' = [target EXCEPT ![c] = t]
    BY <1>1, <1>2, <1>3, SameCall
  <1>6. "done" \in States /\ "exists" \in Errors
    BY DEF States, Errors
  <1>7. CASE At(t) = "none"
    <2>1. kind' = With(t, "dir") /\ made' = [made EXCEPT ![c] = {t}] /\ Goto(c, "done") /\ UNCHANGED err
      BY <1>1, <1>7 DEF Mkdir
    <2>2. TreeShape' /\ Grows /\ DOMAIN kind \subseteq DOMAIN kind' /\ t \in DOMAIN kind'
      BY <1>2, <1>3, <1>4, <1>7, <2>1, InsideIsSome, GrowsMade
    <2>3. PICK m1 \in SUBSET DOMAIN kind' : m1 = {t}
      BY <2>2
    <2>4. Turn(c, "done", d, t, e, m1)
      BY <1>1, <1>2, <1>5, <2>1, <2>3, SameCall DEF Turn, Goto
    <2>5. CallFine(c, "done", d, t, e, m1)
      BY <1>4, <2>3 DEF CallFine
    <2> QED
      BY <1>3, <1>6, <2>2, <2>4, <2>5, MkdirTurns
  <1>8. CASE At(t) # "none"
    <2>1. Fail(c, "exists") /\ UNCHANGED <<kind, made>>
      BY <1>1, <1>8 DEF Mkdir
    <2>2. TreeShape' /\ Grows /\ DOMAIN kind \subseteq DOMAIN kind' /\ m \in SUBSET DOMAIN kind'
      BY <1>2, <1>3, <2>1, GrowsStill
    <2>3. Turn(c, "done", d, t, "exists", m)
      BY <1>1, <1>2, <1>5, <2>1, SameCall DEF Turn, Fail, Goto
    <2>4. CallFine(c, "done", d, t, "exists", m)
      BY <1>1, <1>4 DEF CallFine
    <2> QED
      BY <1>3, <1>6, <2>2, <2>3, <2>4, MkdirTurns
  <1> QED
    BY <1>7, <1>8

LEMMA StutterStep ==
  ASSUME TreeInv, UNCHANGED vars
  PROVE  TreeInv'
  <1>1. /\ kind' = kind /\ links' = links /\ pc' = pc /\ err' = err /\ dir' = dir /\ target' = target
        /\ depth' = depth /\ placed' = placed /\ made' = made
    BY DEF vars, call
  <1>2. TreeTypes /\ TreeShape
    BY DEF TreeInv, TreeTypes
  <1>3. TreeShape' /\ Grows
    BY <1>1, <1>2, GrowsStill
  <1>4. \A u \in Uploads : UploadInv(u)'
    BY <1>1, <1>3, StillUpload
  <1>5. ASSUME NEW c \in Calls PROVE CallInv(c)'
    <2>1. PICK s, d, to, e, m : s = pc[c] /\ d = dir[c] /\ to = target[c] /\ e = err[c] /\ m = made[c]
      OBVIOUS
    <2>2. CallFine(c, s, d, to, e, m)
      BY <2>1 DEF TreeInv, CallInv
    <2>3. CallFine(c, s, d, to, e, m)'
      BY <1>3, <2>2, GrowsCall
    <2> QED
      BY <1>1, <2>1, <2>3 DEF CallInv
  <1>6. TreeTypes'
    BY <1>1, <1>2, <1>3 DEF TreeTypes
  <1> QED
    BY <1>4, <1>5, <1>6 DEF TreeInv

LEMMA TreeInductive == Spec => []TreeInv
  <1>1. Init => TreeInv
    BY InitTree
  <1>2. TreeInv /\ [Next]_vars => TreeInv'
    <2> SUFFICES ASSUME TreeInv, [Next]_vars PROVE TreeInv'
      OBVIOUS
    <2>1. CASE UNCHANGED vars
      BY <2>1, StutterStep
    <2>2. ASSUME NEW u \in Uploads,
                 Submit(u) \/ MkdirAllLooks(u) \/ MkdirAllMakes(u) \/ Check(u) \/ Write(u) \/ DiskError(u)
          PROVE  TreeInv'
      BY <2>2, SubmitStep, LooksStep, MakesStep, CheckStep, WriteStep, DiskErrorStep
    <2>3. ASSUME NEW c \in Mkdirs, SubmitMkdir(c) \/ Mkdir(c)
          PROVE  TreeInv'
      BY <2>3, SubmitMkdirStep, MkdirStep
    <2> QED
      BY <2>1, <2>2, <2>3 DEF Next
  <1> QED
    BY <1>1, <1>2, PTL DEF Spec

-----------------------------------------------------------------------------
(* The theorems.                                                            *)

\* Every variable stays in its domain; what MkdirAll looks at or is about to make is
\* on the upload's way, never above or below it, and where a file was put and every
\* directory that was made are in the tree.
THEOREM TreeTypeCorrect == Spec => []TypeOK
  <1>1. TreeInv => TypeOK
    <2> SUFFICES ASSUME TreeInv PROVE TypeOK
      OBVIOUS
    <2>1. TreeTypes /\ TreeShape
      BY DEF TreeInv, TreeTypes
    <2>2. ASSUME NEW u \in Uploads
          PROVE  /\ pc[u] \in {"stat", "make"} => depth[u] \in 1 .. Len(target[u])
                 /\ placed[u] \in DOMAIN kind \cup {NoLoc}
      <3>1. UploadFine(pc[u], dir[u], target[u], depth[u], err[u], placed[u])
        BY DEF TreeInv, UploadInv
      <3>2. pc[u] \in {"stat", "make"} => depth[u] \in 1 .. Len(target[u])
        BY <3>1 DEF UploadFine, Reaches
      <3>3. placed[u] # NoLoc => At(placed[u]) = "dir"
        BY <3>1 DEF UploadFine, Arrived
      <3> QED
        BY <3>2, <3>3 DEF At
    <2>3. placed \in [Uploads -> DOMAIN kind \cup {NoLoc}]
      <3>1. placed \in [Uploads -> Locations]
        BY <2>1 DEF TreeTypes
      <3> QED
        BY <2>2, <3>1
    <2>4. kind \in [DOMAIN kind -> Kinds] /\ Root \in DOMAIN kind
      BY <2>1 DEF TreeShape
    <2> QED
      BY <2>1, <2>2, <2>3, <2>4 DEF TypeOK, TreeTypes, States, Errors
  <1> QED
    BY <1>1, TreeInductive, PTL

\* Whatever links the volume has, however many of them are followed, and in whatever
\* order requests are handled, no file is written outside the root directory; and no
\* directory is made outside it unless the target of some link goes up.
THEOREM StaysInsideAlways == Spec => []StaysInside
  <1>1. TreeInv => StaysInside
    <2> SUFFICES ASSUME TreeInv PROVE StaysInside
      OBVIOUS
    <2>1. ASSUME NEW c \in Calls, NEW l \in made[c] PROVE isWithinRoot(l) \/ Climbs
      <3>1. CallFine(c, pc[c], dir[c], target[c], err[c], made[c])
        BY DEF TreeInv, CallInv
      <3> QED
        BY <3>1 DEF CallFine
    <2>2. ASSUME NEW u \in Uploads, placed[u] # NoLoc PROVE isWithinRoot(placed[u])
      <3>1. UploadFine(pc[u], dir[u], target[u], depth[u], err[u], placed[u])
        BY DEF TreeInv, UploadInv
      <3> QED
        BY <2>2, <3>1 DEF UploadFine, Arrived
    <2> QED
      BY <2>1, <2>2 DEF StaysInside
  <1> QED
    BY <1>1, TreeInductive, PTL

\* A file that is stored is found where it was sent, and stays to be found there:
\* its base and relative path lead to the directory that holds it.
THEOREM FoundWhereSentAlways == Spec => []FoundWhereSent
  <1>1. TreeInv => FoundWhereSent
    <2> SUFFICES ASSUME TreeInv, NEW u \in Uploads, placed[u] # NoLoc
                 PROVE  EvalSymlinks(Join(Root, dir[u])) = [at |-> placed[u], err |-> "ok"]
      BY DEF FoundWhereSent
    <2>1. UploadFine(pc[u], dir[u], target[u], depth[u], err[u], placed[u])
      BY DEF TreeInv, UploadInv
    <2> QED
      BY <2>1 DEF UploadFine, Arrived, Far
  <1> QED
    BY <1>1, TreeInductive, PTL

\* Folders dropped at once, or a folder and "New Folder", merge: an upload cannot
\* make its directories only where a file or a link is on its way.
THEOREM FoldersMergeAlways == Spec => []FoldersMerge
  <1>1. TreeInv => FoldersMerge
    <2> SUFFICES ASSUME TreeInv, NEW u \in Uploads, err[u] \in {"create dir", "not a directory"}
                 PROVE  \E p \in Ancestors(target[u]) : At(p) \in {"file", "link"}
      BY DEF FoldersMerge
    <2>1. UploadFine(pc[u], dir[u], target[u], depth[u], err[u], placed[u])
      BY DEF TreeInv, UploadInv
    <2> QED
      BY <2>1 DEF UploadFine, InTheWay
  <1> QED
    BY <1>1, TreeInductive, PTL

\* The jail refuses nothing that is inside: what it refuses has a "..", a link or a
\* file on its way.
THEOREM RefusedForAReasonAlways == Spec => []RefusedForAReason
  <1>1. TreeInv => RefusedForAReason
    <2> SUFFICES ASSUME TreeInv, NEW c \in Calls, err[c] = "path"
                 PROVE  \/ \E i \in DOMAIN dir[c] : dir[c][i] = Up
                        \/ \E p \in Ancestors(Root \o dir[c]) : At(p) \in {"link", "file"}
      BY DEF RefusedForAReason
    <2>1. CallFine(c, pc[c], dir[c], target[c], err[c], made[c])
      BY DEF TreeInv, CallInv
    <2> QED
      BY <2>1 DEF CallFine, Refused
  <1> QED
    BY <1>1, TreeInductive, PTL
=============================================================================
