---------------------------- MODULE ListingProof ----------------------------
(* Theorems about Listing, for any names, any calls, any way a directory may *)
(* be read, and any request.                                                 *)
EXTENDS Listing, SequenceTheorems, WellFoundedInduction, TLAPS

-----------------------------------------------------------------------------
(* The inductive invariant.                                                 *)

Outcomes == {"pending", "stored", "refused", "lost"}
Row      == [name : AllNames, isDir : BOOLEAN, value : Nat]

ListShape ==
  /\ shelf \in [Names -> Calls \cup {Nothing}]
  /\ outcome \in [Calls -> Outcomes] /\ told \in [Calls -> Outcomes]
  /\ temp \in [Uploads -> {"none", "there", "gone", "stuck"}]
  /\ pc \in {"idle", "open", "scan", "look", "done", "lost"} /\ ask \in Ask
  /\ found \subseteq AllNames /\ todo \in Seq(AllNames)
  /\ unread \subseteq Names
  /\ rows \in Seq(Row) /\ answer.rows \in Seq(Row)
  /\ answer.form \in {"none", "page", "partial", "json"}

\* What a caller was told stays so, and is true; a temp file is of an upload that
\* is at work, or was when its process died.
CallInv ==
  /\ \A c \in Calls : told[c] # "pending" => outcome[c] = told[c]
  /\ \A c \in Calls : outcome[c] = "stored" => OnShelf(c)
  /\ \A u \in Uploads : temp[u] = "there" => outcome[u] \in {"pending", "lost"}

\* ReadDir goes past each name once.
ScanInv ==
  /\ \A i, j \in DOMAIN todo : todo[i] = todo[j] => i = j
  /\ \A i \in DOMAIN todo : todo[i] \notin found
  /\ pc \in {"idle", "scan"} => rows = <<>>
  /\ pc = "look" => todo = <<>>

\* A row is before another of the list.
Before(a, b)  == Rank(a) < Rank(b) \/ (Rank(a) = Rank(b) /\ a.name < b.name)
InOrder(a, b) == \/ a.isDir /\ ~b.isDir
                 \/ a.isDir = b.isDir /\ IF ask.order = "asc" THEN Before(a, b) ELSE Before(b, a)
Sorted(s)     == \A i, j \in DOMAIN s : i < j => InOrder(s[i], s[j])

\* The rows are of the names before those that are still to be looked at, and in
\* order: that is why a stable sort with a comparison that is not even irreflexive
\* gives the asked order.
RowsInv ==
  /\ \A i, j \in DOMAIN rows : rows[i].name = rows[j].name => i = j
  /\ pc = "look" => /\ \A i \in DOMAIN rows : \A m \in found : rows[i].name < m
                    /\ Sorted(rows)

\* No row is of a temp file whose upload had been answered, unless it is stuck.
Excused(n) == told[Owner(n)] \in {"pending", "lost"} \/ temp[Owner(n)] = "stuck"
TempsOf(s) == \A i \in DOMAIN s : s[i].name \in TempNames => Excused(s[i].name)

\* A name whose entry was promised when the list was asked for is ahead of
\* ReadDir, found, or looked at, and then in the rows unless entry.Info failed.
Promised(n) == shelf[n] \in Calls /\ told[shelf[n]] = "stored"
Has(s, n)   == \E i \in DOMAIN s : s[i].name = n
FoundInv ==
  \A n \in Names : Promised(n) =>
    /\ pc = "scan" => n \in found \/ \E i \in DOMAIN todo : todo[i] = n
    /\ pc = "look" => n \in found \/ Has(rows, n) \/ n \in unread
    /\ pc = "done" /\ answer.status = 200 => Has(answer.rows, n) \/ n \in unread

AnswerInv == /\ pc # "done" => answer.rows = <<>>
             /\ Sorted(answer.rows) /\ TempsOf(answer.rows)

ListInv == /\ ListShape /\ CallInv /\ ScanInv /\ RowsInv /\ TempsOf(rows)
           /\ FoundInv /\ AnswerInv

-----------------------------------------------------------------------------
(* The operators.                                                           *)

LEMMA LeastExists ==
  ASSUME NEW S \in SUBSET Nat, S # {}
  PROVE  \E x \in S : \A y \in S : x <= y
  <1>1. PICK x \in S : \A y \in S : ~(<<y, x>> \in OpToRel(<, Nat))
    BY NatLessThanWellFounded, WFMin
  <1>2. \A y \in S : ~(y < x)
    BY <1>1 DEF OpToRel
  <1> QED
    BY <1>2

LEMMA GreatestExists ==
  ASSUME NEW n \in Nat, NEW S \in SUBSET (0 .. n), S # {}
  PROVE  \E x \in S : \A y \in S : x >= y
  <1> DEFINE T == {n - x : x \in S}
  <1>1. \A x \in S : x \in Nat /\ n - x \in Nat
    <2> SUFFICES ASSUME NEW x \in S PROVE x \in Nat /\ n - x \in Nat
      OBVIOUS
    <2>1. x \in 0 .. n
      OBVIOUS
    <2> QED
      BY <2>1
  <1>2. T \in SUBSET Nat /\ T # {}
    BY <1>1
  <1>3. PICK t \in T : \A u \in T : t <= u
    <2> HIDE DEF T
    <2> QED
      BY <1>2, LeastExists
  <1>4. PICK x \in S : t = n - x
    OBVIOUS
  <1>5. ASSUME NEW y \in S PROVE x >= y
    <2>1. n - x <= n - y
      BY <1>3, <1>4
    <2>2. x \in Nat /\ y \in Nat
      BY <1>1
    <2> QED
      BY <2>1, <2>2
  <1> QED
    BY <1>5

\* The next name to be looked at is the least of those found.
LEMMA FirstIsLeast ==
  ASSUME found \subseteq AllNames, found # {}
  PROVE  First \in found /\ \A m \in found : First <= m
  <1>1. \E x \in found : \A y \in found : x <= y
    BY NamesAssumption, LeastExists
  <1> QED
    BY <1>1 DEF First, Min

Spliced(s, row, k) == SubSeq(s, 1, k) \o <<row>> \o SubSeq(s, k + 1, Len(s))

\* Where a row is put: after the last row it is not less than.
LEMMA InsertedAt ==
  ASSUME NEW s \in Seq(Row), NEW row \in Row
  PROVE  \E k \in 0 .. Len(s) :
           /\ Inserted(s, row) = Spliced(s, row, k)
           /\ k > 0 => ~Less(row, s[k])
           /\ \A i \in k + 1 .. Len(s) : Less(row, s[i])
  <1> DEFINE S == {0} \cup {i \in 1 .. Len(s) : ~Less(row, s[i])}
             k == Max(S)
  <1>1. Len(s) \in Nat
    OBVIOUS
  <1>2. S \subseteq 0 .. Len(s) /\ S # {}
    BY <1>1
  <1>3. \E x \in S : \A y \in S : x >= y
    BY <1>1, <1>2, GreatestExists
  <1>4. k \in S /\ \A y \in S : k >= y
    BY <1>3 DEF Max
  <1>5. k \in 0 .. Len(s)
    BY <1>2, <1>4
  <1>6. k > 0 => ~Less(row, s[k])
    BY <1>4
  <1>7. ASSUME NEW i \in k + 1 .. Len(s) PROVE Less(row, s[i])
    <2>1. i \in 1 .. Len(s) /\ ~(k >= i)
      BY <1>1, <1>5
    <2>2. i \notin S
      BY <1>4, <2>1
    <2> QED
      BY <2>1, <2>2
  <1>8. Inserted(s, row) = Spliced(s, row, k)
    BY DEF Inserted, Spliced
  <1> QED
    BY <1>5, <1>6, <1>7, <1>8

\* What the rows are afterwards.
LEMMA InsertedRows ==
  ASSUME NEW s \in Seq(Row), NEW row \in Row, NEW k \in 0 .. Len(s)
  PROVE  LET t == Spliced(s, row, k)
         IN  /\ t \in Seq(Row) /\ Len(t) = Len(s) + 1
             /\ \A i \in 1 .. k : t[i] = s[i]
             /\ t[k + 1] = row
             /\ \A i \in k + 2 .. Len(s) + 1 : t[i] = s[i - 1]
  <1> DEFINE t == Spliced(s, row, k)
             a == SubSeq(s, 1, k)
             b == SubSeq(s, k + 1, Len(s))
             u == a \o <<row>>
  <1>7. t = u \o b
    BY DEF Spliced
  <1> HIDE DEF t
  <1>1. k \in Nat /\ Len(s) \in Nat /\ k <= Len(s)
    BY LenProperties
  <1>2. /\ a \in Seq(Row) /\ Len(a) = k
        /\ \A i \in 1 .. k : a[i] = s[i]
    <2>1. \A i \in 1 .. k : s[i] \in Row
      BY <1>1, ElementOfSeq
    <2>2. /\ a \in Seq(Row) /\ Len(a) = IF 1 <= k THEN k - 1 + 1 ELSE 0
          /\ \A i \in 1 .. k - 1 + 1 : a[i] = s[1 + i - 1]
      BY <1>1, <2>1, SubSeqProperties
    <2> QED
      BY <1>1, <2>2
  <1>3. /\ b \in Seq(Row) /\ Len(b) = Len(s) - k
        /\ \A i \in 1 .. Len(s) - k : b[i] = s[k + i]
    <2>1. \A i \in k + 1 .. Len(s) : s[i] \in Row
      BY <1>1, ElementOfSeq
    <2>2. /\ b \in Seq(Row) /\ Len(b) = IF k + 1 <= Len(s) THEN Len(s) - (k + 1) + 1 ELSE 0
          /\ \A i \in 1 .. Len(s) - (k + 1) + 1 : b[i] = s[k + 1 + i - 1]
      BY <1>1, <2>1, SubSeqProperties
    <2> QED
      BY <1>1, <2>2
  <1>4. <<row>> \in Seq(Row) /\ Len(<<row>>) = 1 /\ <<row>>[1] = row
    OBVIOUS
  <1> HIDE DEF a, b
  <1>5. /\ u \in Seq(Row) /\ Len(u) = k + 1
        /\ \A i \in 1 .. k + 1 : u[i] = IF i <= k THEN a[i] ELSE <<row>>[i - k]
    BY <1>2, <1>4, ConcatProperties
  <1> HIDE DEF u
  <1>6. /\ u \o b \in Seq(Row) /\ Len(u \o b) = Len(u) + Len(b)
        /\ \A i \in 1 .. Len(u) + Len(b) : (u \o b)[i] = IF i <= Len(u) THEN u[i] ELSE b[i - Len(u)]
    BY <1>3, <1>5, ConcatProperties
  <1>8. Len(u) = k + 1 /\ Len(u) + Len(b) = Len(s) + 1
    BY <1>1, <1>3, <1>5
  <1>9. /\ t \in Seq(Row) /\ Len(t) = Len(s) + 1
         /\ \A i \in 1 .. Len(s) + 1 : t[i] = IF i <= k + 1 THEN u[i] ELSE b[i - (k + 1)]
    <2> HIDE DEF u
    <2>1. /\ t \in Seq(Row) /\ Len(t) = Len(u) + Len(b)
          /\ \A i \in 1 .. Len(u) + Len(b) : t[i] = IF i <= Len(u) THEN u[i] ELSE b[i - Len(u)]
      BY ONLY <1>6, <1>7
    <2> QED
      BY ONLY <1>8, <2>1
  <1>10. \A i \in 1 .. k : t[i] = s[i]
    <2> SUFFICES ASSUME NEW i \in 1 .. k PROVE t[i] = s[i]
      OBVIOUS
    <2>1. i \in 1 .. Len(s) + 1 /\ i \in 1 .. k + 1 /\ i <= k + 1 /\ i <= k
      BY <1>1
    <2> QED
      BY <1>2, <1>5, <1>9, <2>1
  <1>11. t[k + 1] = row
    <2>1. k + 1 \in 1 .. Len(s) + 1 /\ k + 1 \in 1 .. k + 1 /\ ~(k + 1 <= k) /\ k + 1 <= k + 1 /\ (k + 1) - k = 1
      BY <1>1
    <2>2. t[k + 1] = u[k + 1]
      BY <1>9, <2>1
    <2>3. u[k + 1] = <<row>>[(k + 1) - k]
      BY <1>5, <2>1
    <2> QED
      BY <1>4, <2>1, <2>2, <2>3
  <1>12. \A i \in k + 2 .. Len(s) + 1 : t[i] = s[i - 1]
    <2> SUFFICES ASSUME NEW i \in k + 2 .. Len(s) + 1 PROVE t[i] = s[i - 1]
      OBVIOUS
    <2>1. i - (k + 1) \in 1 .. Len(s) - k /\ i \in 1 .. Len(s) + 1 /\ ~(i <= k + 1) /\ k + (i - (k + 1)) = i - 1
      BY <1>1
    <2> QED
      BY <1>3, <1>9, <2>1
  <1> QED
    BY <1>9, <1>10, <1>11, <1>12 DEF t

-----------------------------------------------------------------------------
(* The order of the rows.                                                   *)

\* A new row comes from a name after those in the list.  The comparison the sort
\* is given then tells its side, in either direction.
LEMMA LessIsOrder ==
  ASSUME ask \in Ask, NEW a \in Row, NEW b \in Row, b.name < a.name
  PROVE  /\ Less(a, b) => InOrder(a, b)
         /\ ~Less(a, b) => InOrder(b, a)
  <1>1. ask.order \in {"asc", "desc"} /\ a.isDir \in BOOLEAN /\ b.isDir \in BOOLEAN
    BY DEF Ask, Row
  <1>2. Rank(a) \in Nat /\ Rank(b) \in Nat
    BY NamesAssumption DEF Rank, Row
  <1> QED
    BY <1>1, <1>2 DEF Less, InOrder, Before

LEMMA InOrderIsTransitive ==
  ASSUME ask \in Ask, NEW a \in Row, NEW b \in Row, NEW c \in Row, InOrder(a, b), InOrder(b, c)
  PROVE  InOrder(a, c)
  <1>1. /\ a.isDir \in BOOLEAN /\ b.isDir \in BOOLEAN /\ c.isDir \in BOOLEAN
        /\ a.name \in Nat /\ b.name \in Nat /\ c.name \in Nat
    BY NamesAssumption DEF Row
  <1>2. Rank(a) \in Nat /\ Rank(b) \in Nat /\ Rank(c) \in Nat
    BY NamesAssumption DEF Rank, Row
  <1>3. ASSUME Before(a, b), Before(b, c) PROVE Before(a, c)
    BY <1>1, <1>2, <1>3 DEF Before
  <1>4. ASSUME Before(b, a), Before(c, b) PROVE Before(c, a)
    BY <1>1, <1>2, <1>4 DEF Before
  <1> QED
    BY <1>1, <1>3, <1>4 DEF InOrder

\* Putting each row in its place as it comes keeps the list sorted.
LEMMA InsertedIsSorted ==
  ASSUME ask \in Ask, NEW s \in Seq(Row), NEW row \in Row, NEW t, t = Inserted(s, row),
         Sorted(s), \A i \in DOMAIN s : s[i].name < row.name
  PROVE  /\ t \in Seq(Row) /\ Sorted(t)
         /\ \A j \in DOMAIN t : t[j] = row \/ \E i \in DOMAIN s : t[j] = s[i]
         /\ \A i \in DOMAIN s : \E j \in DOMAIN t : t[j] = s[i]
         /\ \E j \in DOMAIN t : t[j] = row
         /\ (\A i, j \in DOMAIN s : s[i].name = s[j].name => i = j)
              => \A i, j \in DOMAIN t : t[i].name = t[j].name => i = j
  <1>1. PICK k \in 0 .. Len(s) :
          /\ t = Spliced(s, row, k)
          /\ k > 0 => ~Less(row, s[k])
          /\ \A i \in k + 1 .. Len(s) : Less(row, s[i])
    BY InsertedAt
  <1>2. /\ t \in Seq(Row) /\ Len(t) = Len(s) + 1
        /\ \A i \in 1 .. k : t[i] = s[i]
        /\ t[k + 1] = row
        /\ \A i \in k + 2 .. Len(s) + 1 : t[i] = s[i - 1]
    <2>1. t = Spliced(s, row, k)
      BY <1>1
    <2>2. LET x == Spliced(s, row, k)
          IN  /\ x \in Seq(Row) /\ Len(x) = Len(s) + 1
              /\ \A i \in 1 .. k : x[i] = s[i]
              /\ x[k + 1] = row
              /\ \A i \in k + 2 .. Len(s) + 1 : x[i] = s[i - 1]
      BY ONLY s \in Seq(Row), row \in Row, k \in 0 .. Len(s), InsertedRows
    <2> QED
      BY ONLY <2>1, <2>2
  <1> DEFINE n == Len(s)
  <1>3. n \in Nat /\ k \in 0 .. n /\ DOMAIN s = 1 .. n /\ DOMAIN t = 1 .. n + 1
    BY <1>2, LenProperties
  <1>5. /\ \A i \in 1 .. k : t[i] = s[i]
        /\ \A i \in k + 2 .. n + 1 : t[i] = s[i - 1]
    BY <1>2
  <1> HIDE DEF n
  <1>4. \A i \in 1 .. n : s[i] \in Row
    BY <1>3, ElementOfSeq DEF n
  <1>6. \A i \in 1 .. k : InOrder(s[i], row)
    <2> SUFFICES ASSUME NEW i \in 1 .. k PROVE InOrder(s[i], row)
      OBVIOUS
    <2>1. k \in 1 .. n /\ i \in 1 .. n /\ k > 0 /\ (i = k \/ i < k)
      BY <1>3
    <2>2. InOrder(s[k], row)
      BY <1>1, <1>3, <1>4, <2>1, LessIsOrder
    <2>3. i < k => InOrder(s[i], s[k])
      BY <1>3, <2>1 DEF Sorted
    <2> QED
      BY <1>4, <2>1, <2>2, <2>3, InOrderIsTransitive
  <1>7. \A i \in k + 1 .. n : InOrder(row, s[i])
    <2> SUFFICES ASSUME NEW i \in k + 1 .. n PROVE InOrder(row, s[i])
      OBVIOUS
    <2>1. i \in 1 .. n
      BY <1>3
    <2>2. Less(row, s[i])
      BY <1>1 DEF n
    <2> QED
      BY <1>3, <1>4, <2>1, <2>2, LessIsOrder
  <1>8. ASSUME NEW i \in 1 .. n + 1
        PROVE  \/ i \in 1 .. k /\ i \in 1 .. n /\ t[i] = s[i]
               \/ i = k + 1 /\ t[i] = row
               \/ i \in k + 2 .. n + 1 /\ i - 1 \in k + 1 .. n /\ i - 1 \in 1 .. n /\ t[i] = s[i - 1]
    <2>1. \/ i \in 1 .. k /\ i \in 1 .. n
          \/ i = k + 1
          \/ i \in k + 2 .. n + 1 /\ i - 1 \in k + 1 .. n /\ i - 1 \in 1 .. n
      BY <1>3
    <2> QED
      BY <1>2, <1>5, <2>1
  <1>9. Sorted(t)
    <2> SUFFICES ASSUME NEW i \in 1 .. n + 1, NEW j \in 1 .. n + 1, i < j
                 PROVE  InOrder(t[i], t[j])
      BY <1>3 DEF Sorted
    <2>0. i \in Int /\ j \in Int /\ k \in Int
      BY <1>3
    <2>1. CASE i \in 1 .. k /\ i \in 1 .. n /\ t[i] = s[i]
      <3>1. CASE j \in 1 .. k /\ j \in 1 .. n /\ t[j] = s[j]
        BY <1>3, <2>1, <3>1 DEF Sorted
      <3>2. CASE j = k + 1 /\ t[j] = row
        BY <1>6, <2>1, <3>2
      <3>3. CASE j \in k + 2 .. n + 1 /\ j - 1 \in 1 .. n /\ t[j] = s[j - 1]
        <4>1. i < j - 1
          BY <2>0, <2>1, <3>3
        <4> QED
          BY <1>3, <2>1, <3>3, <4>1 DEF Sorted
      <3> QED
        BY <1>8, <3>1, <3>2, <3>3
    <2>2. CASE i = k + 1 /\ t[i] = row
      <3>1. ~(j \in 1 .. k) /\ j # k + 1
        BY <2>0, <2>2
      <3>2. j - 1 \in k + 1 .. n /\ t[j] = s[j - 1]
        BY <1>8, <3>1
      <3> QED
        BY <1>7, <2>2, <3>2
    <2>3. CASE i \in k + 2 .. n + 1 /\ i - 1 \in 1 .. n /\ t[i] = s[i - 1]
      <3>1. ~(j \in 1 .. k) /\ j # k + 1
        BY <2>0, <2>3
      <3>2. j - 1 \in 1 .. n /\ t[j] = s[j - 1]
        BY <1>8, <3>1
      <3>3. i - 1 < j - 1
        BY <2>0
      <3> QED
        BY <1>3, <2>3, <3>2, <3>3 DEF Sorted
    <2> QED
      BY <1>8, <2>1, <2>2, <2>3
  <1>10. \A j \in 1 .. n + 1 : t[j] = row \/ \E i \in 1 .. n : t[j] = s[i]
    BY <1>8
  <1>11. ASSUME NEW i \in 1 .. n PROVE \E j \in 1 .. n + 1 : t[j] = s[i]
    <2>1. \/ i \in 1 .. k /\ i \in 1 .. n + 1
          \/ i + 1 \in k + 2 .. n + 1 /\ i + 1 \in 1 .. n + 1 /\ (i + 1) - 1 = i
      BY <1>3
    <2> QED
      BY <1>5, <2>1
  <1>12. k + 1 \in 1 .. n + 1 /\ t[k + 1] = row
    BY <1>2, <1>3
  <1>13. ASSUME \A i, j \in 1 .. n : s[i].name = s[j].name => i = j,
                NEW i \in 1 .. n + 1, NEW j \in 1 .. n + 1, t[i].name = t[j].name
         PROVE  i = j
    <2>1. \A x \in 1 .. n : s[x].name # row.name
      <3> SUFFICES ASSUME NEW x \in 1 .. n PROVE s[x].name # row.name
        OBVIOUS
      <3>1. s[x].name < row.name /\ s[x].name \in Nat /\ row.name \in Nat
        BY <1>3, <1>4, NamesAssumption DEF Row
      <3> QED
        BY <3>1
    <2>2. \A x \in 1 .. k, y \in k + 1 .. n : x # y
      BY <1>3
    <2>3. i - 1 = j - 1 => i = j
      BY <1>3
    <2>4. CASE i \in 1 .. k /\ i \in 1 .. n /\ t[i] = s[i]
      BY <1>8, <1>13, <2>1, <2>2, <2>4
    <2>5. CASE i = k + 1 /\ t[i] = row
      BY <1>8, <1>13, <2>1, <2>5
    <2>6. CASE i - 1 \in k + 1 .. n /\ i - 1 \in 1 .. n /\ t[i] = s[i - 1]
      BY <1>8, <1>13, <2>1, <2>2, <2>3, <2>6
    <2> QED
      BY <1>8, <2>4, <2>5, <2>6
  <1>14. /\ \A j \in DOMAIN t : t[j] = row \/ \E i \in DOMAIN s : t[j] = s[i]
         /\ \A i \in DOMAIN s : \E j \in DOMAIN t : t[j] = s[i]
         /\ \E j \in DOMAIN t : t[j] = row
    <2>1. \E j \in 1 .. n + 1 : t[j] = row
      BY <1>12
    <2>2. \A j \in DOMAIN t : t[j] = row \/ \E i \in DOMAIN s : t[j] = s[i]
      BY <1>3, <1>10
    <2>3. \A i \in DOMAIN s : \E j \in DOMAIN t : t[j] = s[i]
      BY <1>3, <1>11
    <2>4. \E j \in DOMAIN t : t[j] = row
      BY <1>3, <2>1
    <2> QED
      BY <2>2, <2>3, <2>4, Zenon
  <1>15. (\A i, j \in DOMAIN s : s[i].name = s[j].name => i = j)
           => \A i, j \in DOMAIN t : t[i].name = t[j].name => i = j
    BY <1>3, <1>13, Zenon
  <1> QED
    BY <1>2, <1>9, <1>14, <1>15, Zenon

-----------------------------------------------------------------------------
(* The writers.                                                             *)

\* What a step of the calls does: each is answered at most once, and truly, and
\* an entry appears under a free name, of a call that is not answered yet.
CallsMove ==
  /\ shelf' \in [Names -> Calls \cup {Nothing}] /\ outcome' \in [Calls -> Outcomes]
  /\ temp' \in [Uploads -> {"none", "there", "gone", "stuck"}]
  /\ \A n \in Names : \/ shelf'[n] = shelf[n]
                      \/ shelf[n] = Nothing /\ shelf'[n] \in Calls /\ outcome[shelf'[n]] = "pending"
  /\ \A c \in Calls : \/ outcome'[c] = outcome[c]
                      \/ outcome[c] = "pending" /\ (outcome'[c] = "stored" => OnShelf(c))
  /\ \A u \in Uploads : /\ temp'[u] = "there" => outcome'[u] \in {"pending", "lost"}
                        /\ temp[u] = "stuck" => temp'[u] = "stuck"

\* The writers do so, and leave the list alone or end its process; a stutter does too.
WritersMove == /\ CallsMove /\ (pc' = pc \/ (pc # "done" /\ pc' = "lost"))
               /\ UNCHANGED <<ask, todo, found, rows, answer, told, broken, unread>>

LEMMA PutMoves ==
  ASSUME ListShape, CallInv, NEW c \in Calls, NEW n \in Names, Put(c, n), UNCHANGED temp
  PROVE  CallsMove
  <1>1. /\ shelf' \in [Names -> Calls \cup {Nothing}] /\ outcome' = outcome
        /\ outcome' \in [Calls -> Outcomes]
    BY DEF ListShape, Put
  <1>2. /\ temp' \in [Uploads -> {"none", "there", "gone", "stuck"}]
        /\ \A u \in Uploads : temp'[u] = "there" => temp[u] = "there"
    BY DEF ListShape
  <1>3. \A m \in Names : \/ shelf'[m] = shelf[m]
                         \/ shelf[m] = Nothing /\ shelf'[m] \in Calls /\ outcome[shelf'[m]] = "pending"
    BY DEF ListShape, Put
  <1>4. \A u \in Uploads : temp'[u] = "there" => outcome'[u] \in {"pending", "lost"}
    BY <1>1, <1>2 DEF CallInv
  <1> QED
    BY <1>1, <1>2, <1>3, <1>4 DEF CallsMove

LEMMA AnswerMoves ==
  ASSUME ListShape, CallInv, NEW c \in Calls, Store(c) \/ Refuse(c), UNCHANGED temp,
         c \in Uploads => temp[c] # "there"
  PROVE  CallsMove
  <1>1. /\ outcome[c] = "pending" /\ UNCHANGED shelf
        /\ \/ outcome' = [outcome EXCEPT ![c] = "stored"] /\ OnShelf(c)
           \/ outcome' = [outcome EXCEPT ![c] = "refused"]
    BY DEF Store, Refuse
  <1>2. /\ outcome' \in [Calls -> Outcomes]
        /\ \A d \in Calls : d # c => outcome'[d] = outcome[d]
        /\ outcome'[c] = "stored" => OnShelf(c)
    BY <1>1 DEF ListShape, Outcomes
  <1>3. \A u \in Uploads : temp'[u] = "there" => outcome'[u] \in {"pending", "lost"}
    BY <1>2, CallsAssumption DEF CallInv
  <1> QED
    BY <1>1, <1>2, <1>3 DEF CallsMove, ListShape

LEMMA CrashMoves ==
  ASSUME ListShape, CallInv, Crash
  PROVE  CallsMove
  <1>1. PICK C \in SUBSET {c \in Calls : outcome[c] = "pending"} :
          outcome' = [c \in Calls |-> IF c \in C THEN "lost" ELSE outcome[c]]
    BY DEF Crash, Lose
  <1>2. UNCHANGED <<shelf, temp>>
    BY DEF Crash, Lose
  <1>3. /\ outcome' \in [Calls -> Outcomes]
        /\ \A c \in Calls : outcome'[c] = outcome[c] \/ (outcome[c] = "pending" /\ outcome'[c] = "lost")
    BY <1>1 DEF ListShape, Outcomes
  <1>4. \A u \in Uploads : temp'[u] = "there" => outcome'[u] \in {"pending", "lost"}
    BY <1>2, <1>3, CallsAssumption DEF CallInv
  <1> QED
    BY <1>2, <1>3, <1>4 DEF CallsMove, ListShape

LEMMA WritersDoMove ==
  ASSUME ListShape, CallInv, Writers
  PROVE  WritersMove
  <1> USE DEF list
  <1>1. pc # "done"
    BY DEF Writers
  <1>2. ASSUME NEW u \in Uploads, MakeTemp(u) \/ DropTemp(u) PROVE WritersMove
    <2>1. /\ temp' \in [Uploads -> {"none", "there", "gone", "stuck"}]
          /\ \A v \in Uploads : temp'[v] = "there" => v = u \/ temp[v] = "there"
          /\ \A v \in Uploads : temp[v] = "stuck" => temp'[v] = "stuck"
          /\ outcome[u] = "pending" /\ UNCHANGED <<shelf, outcome, list>>
      BY <1>2 DEF MakeTemp, DropTemp, ListShape, shelfVars
    <2> QED
      BY <1>1, <2>1 DEF WritersMove, CallsMove, ListShape, CallInv
  <1>3. ASSUME NEW u \in Uploads, NEW n \in Names, Place(u, n) PROVE WritersMove
    <2>1. CallsMove
      BY <1>3, PutMoves, CallsAssumption DEF Place
    <2> QED
      BY <1>1, <1>3, <2>1 DEF WritersMove, Place
  <1>4. ASSUME NEW m \in Mkdirs, NEW n \in Names, Mkdir(m, n) PROVE WritersMove
    <2>1. CallsMove
      BY <1>4, PutMoves, CallsAssumption DEF Mkdir
    <2> QED
      BY <1>1, <1>4, <2>1 DEF WritersMove, Mkdir
  <1>5. ASSUME NEW c \in Calls, Answer(c) PROVE WritersMove
    <2>1. CallsMove
      BY <1>5, AnswerMoves DEF Answer
    <2> QED
      BY <1>1, <1>5, <2>1 DEF WritersMove, Answer
  <1>6. CASE Crash
    <2>1. CallsMove
      BY <1>6, CrashMoves
    <2> QED
      BY <1>1, <1>6, <2>1 DEF WritersMove, Crash
  <1> QED
    BY <1>2, <1>3, <1>4, <1>5, <1>6 DEF Writers

\* What a caller was told stays so, and its entry stays where it is.
LEMMA CallInvStays ==
  ASSUME ListShape, CallInv, CallsMove,
         UNCHANGED told \/ (told' = outcome /\ UNCHANGED outcome)
  PROVE  CallInv'
  <1>1. ASSUME NEW c \in Calls, told'[c] # "pending" PROVE outcome'[c] = told'[c]
    BY <1>1 DEF CallInv, CallsMove
  <1>2. ASSUME NEW c \in Calls, outcome'[c] = "stored" PROVE OnShelf(c)'
    <2>1. OnShelf(c)
      BY <1>2 DEF CallInv, CallsMove
    <2>2. PICK n \in Names : shelf[n] = c
      BY <2>1 DEF OnShelf
    <2>3. shelf'[n] = c
      BY <2>2, CallsAssumption DEF CallsMove
    <2> QED
      BY <2>3 DEF OnShelf
  <1>3. ASSUME NEW u \in Uploads, temp'[u] = "there" PROVE outcome'[u] \in {"pending", "lost"}
    BY <1>3 DEF CallsMove
  <1> QED
    BY <1>1, <1>2, <1>3 DEF CallInv

\* No entry becomes a promised one.
LEMMA PromisedBefore ==
  ASSUME ListShape, CallInv, CallsMove, UNCHANGED told, NEW n \in Names, Promised(n)'
  PROVE  Promised(n)
  <1>1. shelf'[n] \in Calls /\ told[shelf'[n]] = "stored"
    BY DEF Promised
  <1>2. outcome[shelf'[n]] = "stored"
    BY <1>1 DEF CallInv
  <1>3. shelf'[n] = shelf[n]
    BY <1>2 DEF CallsMove
  <1> QED
    BY <1>1, <1>3 DEF Promised

LEMMA FrameOfRows ==
  ASSUME UNCHANGED <<told, ask>>, NEW s, s \in Seq(Row),
         \A u \in Uploads : temp[u] = "stuck" => temp'[u] = "stuck"
  PROVE  /\ TempsOf(s) => TempsOf(s)'
         /\ Sorted(s) => Sorted(s)'
  <1>1. ASSUME NEW n \in TempNames PROVE Owner(n)' = Owner(n) /\ Owner(n) \in Uploads
    <2>1. n \notin Names
      BY NamesAssumption
    <2>2. \E u \in Uploads : TempOf[u] = n
      BY DEF TempNames
    <2> QED
      BY <2>1, <2>2 DEF Owner
  <1>2. TempsOf(s) => TempsOf(s)'
    BY <1>1 DEF TempsOf, Excused
  <1>3. Sorted(s) => Sorted(s)'
    BY DEF Sorted, InOrder, Before, Rank
  <1> QED
    BY <1>2, <1>3

-----------------------------------------------------------------------------
(* Every step preserves the invariant.                                      *)

LEMMA WritersKeep ==
  ASSUME ListInv, WritersMove
  PROVE  ListInv'
  <1>1. /\ CallsMove /\ (pc' = pc \/ (pc # "done" /\ pc' = "lost"))
        /\ UNCHANGED <<ask, todo, found, rows, answer, told, broken, unread>>
    BY DEF WritersMove
  <1>2. /\ ListShape /\ CallInv /\ ScanInv /\ RowsInv /\ TempsOf(rows)
        /\ FoundInv /\ AnswerInv
    BY DEF ListInv
  <1>3. ListShape'
    BY <1>1, <1>2 DEF ListShape, CallsMove
  <1>4. CallInv'
    BY <1>1, <1>2, CallInvStays
  <1>5. ScanInv'
    BY <1>1, <1>2 DEF ScanInv
  <1>6. /\ \A s \in Seq(Row) : TempsOf(s) => TempsOf(s)'
        /\ \A s \in Seq(Row) : Sorted(s) => Sorted(s)'
    <2>1. \A u \in Uploads : temp[u] = "stuck" => temp'[u] = "stuck"
      BY <1>1 DEF CallsMove
    <2> QED
      BY <1>1, <2>1, FrameOfRows
  <1>7. RowsInv' /\ TempsOf(rows)'
    BY <1>1, <1>2, <1>6 DEF RowsInv, ListShape
  <1>8. FoundInv'
    <2> SUFFICES ASSUME NEW n \in Names, Promised(n)'
                 PROVE  /\ pc' = "scan" => n \in found' \/ \E i \in DOMAIN todo' : todo'[i] = n
                        /\ pc' = "look" => n \in found' \/ Has(rows', n) \/ n \in unread'
                        /\ pc' = "done" /\ answer'.status = 200 => Has(answer'.rows, n) \/ n \in unread'
      BY DEF FoundInv, Has
    <2>1. Promised(n)
      BY <1>1, <1>2, PromisedBefore
    <2> QED
      BY <1>1, <1>2, <2>1 DEF FoundInv, Has
  <1>9. AnswerInv'
    BY <1>1, <1>2, <1>6 DEF AnswerInv, ListShape
  <1> QED
    BY <1>3, <1>4, <1>5, <1>7, <1>8, <1>9 DEF ListInv

\* A step of the list request leaves the calls alone.
LEMMA CallsStay ==
  ASSUME ListShape, CallInv, UNCHANGED <<shelf, outcome, temp>>,
         UNCHANGED told \/ told' = outcome
  PROVE  CallInv' /\ CallsMove
  <1>1. CallsMove
    BY DEF CallsMove, ListShape, CallInv
  <1> QED
    BY <1>1, CallInvStays

\* The forms of an answer, and the redirect that leads to another round.
LEMMA RespondCases ==
  ASSUME NEW status, NEW r, Respond(status, r)
  PROVE  \/ Ended(status, "page", r) \/ Ended(status, "json", r) \/ Ended(status, "partial", r)
         \/ Redirected
  <1>1. \/ Ended(status, IF status # 200 /\ ask.client = "json" THEN "json" ELSE "page", r)
        \/ Ended(status, "json", r) \/ Ended(status, "partial", r) \/ Redirected
    BY Zenon DEF Respond
  <1> QED
    BY <1>1

LEMMA RespondDoes ==
  ASSUME ListShape, NEW status, NEW r \in Seq(Row), Respond(status, r)
  PROVE  \/ /\ pc' = "done" /\ UNCHANGED ask
            /\ answer'.status = status /\ answer'.rows = r
            /\ answer'.form \in {"none", "page", "partial", "json"}
         \/ pc' = "open" /\ ask' \in Ask /\ UNCHANGED answer
  <1>1. CASE Ended(status, "page", r) \/ Ended(status, "json", r) \/ Ended(status, "partial", r)
    BY <1>1 DEF Ended
  <1>2. CASE Redirected
    <2>1. ask' \in Ask
      BY <1>2 DEF Redirected, ListShape, Ask
    <2> QED
      BY <1>2, <2>1 DEF Redirected
  <1> QED
    BY <1>1, <1>2, RespondCases

LEMMA AskedKeeps ==
  ASSUME ListInv, ListAsked
  PROVE  ListInv'
  <1>1. /\ pc' = "open" /\ pc = "idle" /\ ask' \in Ask /\ told' = outcome
        /\ UNCHANGED <<shelf, outcome, temp, todo, found, rows, answer, broken, unread>>
    BY AsksAssumption DEF ListAsked, shelfVars
  <1>2. ListShape /\ CallInv /\ ScanInv /\ RowsInv /\ AnswerInv /\ answer.rows = <<>>
    BY <1>1 DEF ListInv, AnswerInv
  <1>3. ListShape'
    BY <1>1, <1>2 DEF ListShape
  <1>4. CallInv'
    BY <1>1, <1>2, CallsStay
  <1>5. ScanInv' /\ RowsInv' /\ FoundInv'
    BY <1>1, <1>2 DEF ScanInv, RowsInv, FoundInv
  <1>6. rows = <<>>
    BY <1>1, <1>2 DEF ScanInv
  <1>7. AnswerInv' /\ TempsOf(rows)'
    BY <1>1, <1>2, <1>6 DEF AnswerInv, Sorted, TempsOf
  <1> QED
    BY <1>3, <1>4, <1>5, <1>7 DEF ListInv

LEMMA OpensKeeps ==
  ASSUME ListInv, ListOpens
  PROVE  ListInv'
  <1>1. /\ pc = "open" /\ todo' \in Scans /\ found' = {} /\ rows' = <<>> /\ unread' = {}
        /\ UNCHANGED <<shelf, outcome, temp, told, broken>>
    BY DEF ListOpens, shelfVars
  <1>2. /\ ListShape /\ CallInv /\ AnswerInv /\ answer.rows = <<>>
    BY <1>1 DEF ListInv, AnswerInv
  <1>3. \/ pc' = "scan" /\ UNCHANGED <<ask, answer>>
        \/ /\ pc' = "done" /\ UNCHANGED ask /\ answer'.status = 404 /\ answer'.rows = <<>>
           /\ answer'.form \in {"none", "page", "partial", "json"}
        \/ pc' = "open" /\ ask' \in Ask /\ UNCHANGED answer
    <2>1. CASE ask.path = "here" /\ pc' = "scan" /\ UNCHANGED <<ask, answer>>
      BY <2>1
    <2>2. CASE Respond(404, <<>>)
      <3>1. <<>> \in Seq(Row) /\ ListShape
        BY <1>2
      <3> QED
        BY <2>2, <3>1, RespondDoes
    <2> QED
      BY <2>1, <2>2 DEF ListOpens
  <1>4. /\ todo' \in Seq(AllNames) /\ \A i, j \in DOMAIN todo' : todo'[i] = todo'[j] => i = j
        /\ \A n \in AllNames : \E i \in DOMAIN todo' : todo'[i] = n
    <2>1. ToSet(todo') = AllNames /\ IsInjective(todo') /\ todo' \in Seq(AllNames)
      BY <1>1, AsksAssumption
    <2> QED
      BY <2>1 DEF ToSet, IsInjective
  <1>5. answer'.rows = <<>> /\ <<>> \in Seq(Row)
    BY <1>2, <1>3
  <1>6. ListShape'
    BY <1>1, <1>2, <1>3, <1>4, <1>5 DEF ListShape
  <1>7. CallInv'
    BY <1>1, <1>2, CallsStay
  <1>8. ScanInv'
    BY <1>1, <1>3, <1>4 DEF ScanInv
  <1>9. RowsInv' /\ TempsOf(rows)'
    BY <1>1, <1>3 DEF RowsInv, TempsOf
  <1>10. AnswerInv'
    BY <1>5 DEF AnswerInv, Sorted, TempsOf
  <1>11. FoundInv'
    BY <1>3, <1>4 DEF FoundInv, AllNames
  <1> QED
    BY <1>6, <1>7, <1>8, <1>9, <1>10, <1>11 DEF ListInv

LEMMA ReadNameKeeps ==
  ASSUME ListInv, ReadName
  PROVE  ListInv'
  <1> DEFINE n == Head(todo)
  <1>1. /\ pc = "scan" /\ pc' = "scan" /\ todo # <<>> /\ todo' = Tail(todo)
        /\ found' = IF Present(n) THEN found \cup {n} ELSE found
        /\ UNCHANGED <<shelf, outcome, temp, ask, rows, answer, told, broken, unread>>
    BY DEF ReadName, shelfVars
  <1>2. /\ ListShape /\ CallInv /\ ScanInv /\ RowsInv /\ TempsOf(rows) /\ FoundInv /\ AnswerInv
        /\ rows = <<>> /\ answer.rows = <<>>
    BY <1>1 DEF ListInv, ScanInv, AnswerInv
  <1> DEFINE m == Len(todo)
  <1>3. /\ n \in AllNames /\ todo' \in Seq(AllNames) /\ n = todo[1]
        /\ m \in Nat \ {0} /\ DOMAIN todo = 1 .. m /\ DOMAIN todo' = 1 .. m - 1
        /\ \A i \in 1 .. m - 1 : todo'[i] = todo[i + 1]
    <2>1. todo \in Seq(AllNames)
      BY <1>2 DEF ListShape
    <2>2. /\ Head(todo) \in AllNames /\ Tail(todo) \in Seq(AllNames) /\ Len(Tail(todo)) = Len(todo) - 1
          /\ \A i \in 1 .. Len(Tail(todo)) : Tail(todo)[i] = todo[i + 1]
      BY <1>1, <2>1, HeadTailProperties
    <2>3. Len(todo) \in Nat \ {0} /\ DOMAIN todo = 1 .. Len(todo)
      BY <1>1, <2>1, EmptySeq, LenProperties
    <2>4. DOMAIN todo' = 1 .. Len(todo')
      BY <1>1, <2>2, LenProperties
    <2>5. Head(todo) = todo[1]
      BY <1>1, <2>1
    <2> QED
      BY <1>1, <2>2, <2>3, <2>4, <2>5
  <1> HIDE DEF m, n
  <1>4. \A i \in 1 .. m - 1 : i + 1 \in 1 .. m /\ i + 1 # 1
    BY <1>3
  <1>5. \A i \in 1 .. m : i = 1 \/ (i - 1 \in 1 .. m - 1 /\ (i - 1) + 1 = i)
    BY <1>3
  <1>6. ListShape'
    BY <1>1, <1>2, <1>3 DEF ListShape
  <1>7. CallInv'
    BY <1>1, <1>2, CallsStay
  <1>8. ScanInv'
    <2>1. ASSUME NEW i \in DOMAIN todo', NEW j \in DOMAIN todo', todo'[i] = todo'[j] PROVE i = j
      <3>1. i \in 1 .. m - 1 /\ j \in 1 .. m - 1 /\ i + 1 \in DOMAIN todo /\ j + 1 \in DOMAIN todo
        BY <1>3, <1>4
      <3>2. todo[i + 1] = todo[j + 1]
        BY <1>3, <2>1, <3>1
      <3>3. i + 1 = j + 1
        BY <1>2, <3>1, <3>2 DEF ScanInv
      <3> QED
        BY <1>3, <3>1, <3>3
    <2>2. ASSUME NEW i \in DOMAIN todo' PROVE todo'[i] \notin found'
      <3>1. i + 1 \in 1 .. m /\ i + 1 # 1 /\ todo'[i] = todo[i + 1] /\ 1 \in 1 .. m
        BY <1>3, <1>4
      <3>2. todo[i + 1] \notin found /\ todo[i + 1] # n
        BY <1>2, <1>3, <3>1 DEF ScanInv
      <3> QED
        BY <1>1, <3>1, <3>2
    <2> QED
      BY <1>1, <1>2, <2>1, <2>2 DEF ScanInv
  <1>9. RowsInv' /\ TempsOf(rows)' /\ AnswerInv'
    BY <1>1, <1>2 DEF RowsInv, TempsOf, AnswerInv, Sorted
  <1>10. FoundInv'
    <2> SUFFICES ASSUME NEW x \in Names, Promised(x)
                 PROVE  x \in found' \/ \E i \in DOMAIN todo' : todo'[i] = x
      BY <1>1 DEF FoundInv, Promised
    <2>1. x \in found \/ \E i \in DOMAIN todo : todo[i] = x
      BY <1>1, <1>2 DEF FoundInv
    <2>2. x \in found => x \in found'
      BY <1>1
    <2>3. x = n => x \in found'
      <3>1. Present(x)
        BY CallsAssumption DEF Present, Promised
      <3> QED
        BY <1>1, <3>1
    <2>4. ASSUME NEW i \in DOMAIN todo, todo[i] = x, x # n
          PROVE  \E j \in DOMAIN todo' : todo'[j] = x
      <3>1. i - 1 \in 1 .. m - 1 /\ (i - 1) + 1 = i
        BY <1>3, <1>5, <2>4
      <3>2. todo'[i - 1] = x
        BY <1>3, <2>4, <3>1
      <3> QED
        BY <1>3, <3>1, <3>2
    <2> QED
      BY <2>1, <2>2, <2>3, <2>4
  <1> QED
    BY <1>6, <1>7, <1>8, <1>9, <1>10 DEF ListInv

LEMMA ReadDirFailsKeeps ==
  ASSUME ListInv, ReadDirFails
  PROVE  ListInv'
  <1>1. /\ pc = "scan" /\ Respond(500, <<>>)
        /\ UNCHANGED <<shelf, outcome, temp, todo, found, rows, told, unread>>
    BY DEF ReadDirFails, shelfVars
  <1>2. /\ ListShape /\ CallInv /\ ScanInv /\ RowsInv /\ AnswerInv
        /\ rows = <<>> /\ answer.rows = <<>> /\ <<>> \in Seq(Row)
    BY <1>1 DEF ListInv, ScanInv, AnswerInv
  <1>3. \/ /\ pc' = "done" /\ UNCHANGED ask /\ answer'.status = 500 /\ answer'.rows = <<>>
           /\ answer'.form \in {"none", "page", "partial", "json"}
        \/ pc' = "open" /\ ask' \in Ask /\ UNCHANGED answer
    <2>1. Respond(500, <<>>) /\ ListShape /\ <<>> \in Seq(Row)
      BY <1>1, <1>2
    <2> QED
      BY <2>1, RespondDoes
  <1>4. ListShape'
    <2>1. /\ pc' \in {"open", "done"} /\ ask' \in Ask /\ answer'.rows \in Seq(Row)
          /\ answer'.form \in {"none", "page", "partial", "json"}
      <3>1. CASE pc' = "open" /\ ask' \in Ask /\ UNCHANGED answer
        BY <1>2, <3>1 DEF ListShape
      <3>2. CASE pc' = "done" /\ UNCHANGED ask
        <4>1. answer'.rows \in Seq(Row) /\ answer'.form \in {"none", "page", "partial", "json"}
          BY <1>2, <1>3, <3>2
        <4> QED
          BY <1>2, <3>2, <4>1 DEF ListShape
      <3> QED
        BY <1>3, <3>1, <3>2
    <2> QED
      BY <1>1, <1>2, <2>1 DEF ListShape
  <1>5. CallInv'
    BY <1>1, <1>2, CallsStay
  <1>6. ScanInv' /\ RowsInv'
    BY <1>1, <1>2, <1>3 DEF ScanInv, RowsInv
  <1>7. TempsOf(rows)' /\ AnswerInv'
    BY <1>1, <1>2, <1>3 DEF AnswerInv, Sorted, TempsOf
  <1>8. FoundInv'
    BY <1>3 DEF FoundInv
  <1> QED
    BY <1>4, <1>5, <1>6, <1>7, <1>8 DEF ListInv

LEMMA ReadDirReturnsKeeps ==
  ASSUME ListInv, ReadDirReturns
  PROVE  ListInv'
  <1>1. /\ pc = "scan" /\ pc' = "look" /\ todo = <<>>
        /\ UNCHANGED <<shelf, outcome, temp, ask, todo, found, rows, answer, told, broken, unread>>
    BY DEF ReadDirReturns, shelfVars
  <1>2. /\ ListShape /\ CallInv /\ ScanInv /\ RowsInv /\ FoundInv /\ AnswerInv
        /\ rows = <<>> /\ answer.rows = <<>>
    BY <1>1 DEF ListInv, ScanInv, AnswerInv
  <1>3. ListShape'
    BY <1>1, <1>2 DEF ListShape
  <1>4. CallInv'
    BY <1>1, <1>2, CallsStay
  <1>5. ScanInv'
    BY <1>1, <1>2 DEF ScanInv
  <1>6. RowsInv' /\ TempsOf(rows)' /\ AnswerInv'
    BY <1>1, <1>2 DEF RowsInv, AnswerInv, Sorted, TempsOf
  <1>7. FoundInv'
    <2> SUFFICES ASSUME NEW n \in Names, Promised(n) PROVE n \in found
      BY <1>1 DEF FoundInv, Promised
    <2> QED
      BY <1>1, <1>2 DEF FoundInv
  <1> QED
    BY <1>3, <1>4, <1>5, <1>6, <1>7 DEF ListInv

\* A name that is gone was of a temp file, entries are never taken away; one that
\* is there is unread from then on.
LEMMA SkipKeeps ==
  ASSUME ListInv, Skip
  PROVE  ListInv'
  <1>1. /\ pc = "look" /\ pc' = "look" /\ found # {} /\ found' = found \ {First}
        /\ unread' = unread \cup ({First} \cap Names)
        /\ UNCHANGED <<shelf, outcome, temp, ask, todo, rows, answer, told, broken>>
    BY DEF Skip, shelfVars
  <1>2. /\ ListShape /\ CallInv /\ ScanInv /\ RowsInv /\ TempsOf(rows) /\ FoundInv /\ AnswerInv
        /\ answer.rows = <<>>
    BY <1>1 DEF ListInv, AnswerInv
  <1>3. ListShape'
    BY <1>1, <1>2 DEF ListShape
  <1>4. CallInv'
    BY <1>1, <1>2, CallsStay
  <1>5. ScanInv'
    BY <1>1, <1>2 DEF ScanInv
  <1>6. /\ TempsOf(rows)'
        /\ Sorted(rows)'
    BY <1>1, <1>2, FrameOfRows DEF RowsInv, ListShape
  <1>7. RowsInv'
    BY <1>1, <1>2, <1>6 DEF RowsInv
  <1>8. AnswerInv'
    BY <1>1, <1>2 DEF AnswerInv, Sorted, TempsOf
  <1>9. FoundInv'
    <2> SUFFICES ASSUME NEW n \in Names, Promised(n) PROVE n \in found' \/ Has(rows, n) \/ n \in unread'
      BY <1>1 DEF FoundInv, Promised, Has
    <2>1. n \in found \/ Has(rows, n) \/ n \in unread
      BY <1>1, <1>2 DEF FoundInv
    <2> QED
      BY <1>1, <2>1
  <1> QED
    BY <1>3, <1>4, <1>5, <1>6, <1>7, <1>8, <1>9 DEF ListInv

\* The temp file of an upload that had been answered is not there to be listed,
\* unless it is stuck.
LEMMA TempsToSee ==
  ASSUME ListShape, CallInv, NEW n \in TempNames, Present(n)
  PROVE  Excused(n)
  <1>1. n \notin Names
    BY NamesAssumption
  <1>2. PICK u \in Uploads : TempOf[u] = n /\ temp[u] \in {"there", "stuck"}
    BY <1>1 DEF Present, HasTemp
  <1>3. Owner(n) = u
    BY <1>1, <1>2, NamesAssumption DEF Owner
  <1>4. ASSUME temp[u] = "there" PROVE told[u] \in {"pending", "lost"}
    <2>1. u \in Calls /\ outcome[u] \in {"pending", "lost"}
      BY <1>4, CallsAssumption DEF CallInv
    <2> QED
      BY <2>1 DEF CallInv, ListShape
  <1> QED
    BY <1>2, <1>3, <1>4 DEF Excused

LEMMA LookKeeps ==
  ASSUME ListInv, Look
  PROVE  ListInv'
  <1>1. /\ pc = "look" /\ pc' = "look" /\ found # {} /\ Present(First) /\ found' = found \ {First}
        /\ UNCHANGED <<shelf, outcome, temp, ask, todo, answer, told, broken, unread>>
    BY DEF Look, shelfVars
  <1>2. /\ ListShape /\ CallInv /\ ScanInv /\ RowsInv /\ TempsOf(rows) /\ FoundInv /\ AnswerInv
        /\ answer.rows = <<>>
    BY <1>1 DEF ListInv, AnswerInv
  <1>3. PICK row \in Rows(First) : rows' = Inserted(rows, row)
    BY DEF Look
  <1>4. First \in found /\ First \in AllNames /\ \A m \in found : First <= m
    BY <1>1, <1>2, FirstIsLeast DEF ListShape
  <1>5. row \in Row /\ row.name = First
    <2>1. /\ row = [name |-> row.name, isDir |-> row.isDir, value |-> row.value]
          /\ row.name = First /\ row.isDir = (Owner(First) \in Mkdirs) /\ row.value \in {0} \cup 0 .. 1
      BY <1>3, Zenon DEF Rows
    <2>2. row.isDir \in BOOLEAN /\ row.value \in Nat
      BY <2>1
    <2> QED
      BY <1>4, <2>1, <2>2 DEF Row
  <1> DEFINE t == rows'
  <1>6. rows \in Seq(Row) /\ ask \in Ask /\ Sorted(rows) /\ \A i \in DOMAIN rows : rows[i].name < row.name
    BY <1>1, <1>2, <1>4, <1>5 DEF ListShape, RowsInv
  <1>7. /\ t \in Seq(Row) /\ Sorted(t)
        /\ \A j \in DOMAIN t : t[j] = row \/ \E i \in DOMAIN rows : t[j] = rows[i]
        /\ \A i \in DOMAIN rows : \E j \in DOMAIN t : t[j] = rows[i]
        /\ \E j \in DOMAIN t : t[j] = row
        /\ \A i, j \in DOMAIN t : t[i].name = t[j].name => i = j
    BY <1>2, <1>3, <1>5, <1>6, InsertedIsSorted DEF RowsInv
  <1>8. ListShape'
    BY <1>1, <1>2, <1>7 DEF ListShape
  <1>9. CallInv'
    BY <1>1, <1>2, CallsStay
  <1>10. ScanInv'
    BY <1>1, <1>2 DEF ScanInv
  <1>11. Sorted(rows)'
    BY <1>1, <1>7 DEF Sorted, InOrder, Before, Rank
  <1>12. ASSUME NEW j \in DOMAIN t, NEW m \in found \ {First} PROVE t[j].name < m
    <2>1. m \in Nat /\ First \in Nat /\ First < m
      BY <1>2, <1>4, NamesAssumption DEF ListShape
    <2> QED
      BY <1>1, <1>2, <1>5, <1>7, <2>1 DEF RowsInv
  <1>13. RowsInv'
    BY <1>1, <1>7, <1>11, <1>12 DEF RowsInv
  <1>14. TempsOf(rows)'
    <2>1. row.name \in TempNames => Excused(row.name)
      BY <1>1, <1>2, <1>5, TempsToSee
    <2>2. TempsOf(t)
      BY <1>2, <1>7, <2>1 DEF TempsOf
    <2> QED
      BY <1>1, <2>2 DEF TempsOf, Excused, Owner
  <1>15. AnswerInv'
    BY <1>1, <1>2 DEF AnswerInv, Sorted, TempsOf
  <1>16. FoundInv'
    <2> SUFFICES ASSUME NEW n \in Names, Promised(n) PROVE n \in found' \/ n \in unread \/ \E j \in DOMAIN t : t[j].name = n
      BY <1>1 DEF FoundInv, Promised, Has
    <2>1. n \in found \/ n \in unread \/ \E i \in DOMAIN rows : rows[i].name = n
      BY <1>1, <1>2 DEF FoundInv, Has
    <2> QED
      BY <1>1, <1>5, <1>7, <2>1
  <1> QED
    BY <1>8, <1>9, <1>10, <1>13, <1>14, <1>15, <1>16 DEF ListInv

LEMMA AnswersKeeps ==
  ASSUME ListInv, ListAnswers
  PROVE  ListInv'
  <1>1. /\ pc = "look" /\ found = {} /\ Respond(200, rows)
        /\ UNCHANGED <<shelf, outcome, temp, todo, found, rows, told, broken, unread>>
    BY DEF ListAnswers, shelfVars
  <1>2. /\ ListShape /\ CallInv /\ ScanInv /\ RowsInv /\ TempsOf(rows) /\ FoundInv /\ AnswerInv
        /\ answer.rows = <<>> /\ rows \in Seq(Row) /\ Sorted(rows)
    BY <1>1 DEF ListInv, AnswerInv, ListShape, RowsInv
  <1>3. \/ /\ pc' = "done" /\ UNCHANGED ask /\ answer'.status = 200 /\ answer'.rows = rows
           /\ answer'.form \in {"none", "page", "partial", "json"}
        \/ pc' = "open" /\ ask' \in Ask /\ UNCHANGED answer
    <2>1. Respond(200, rows) /\ ListShape /\ rows \in Seq(Row)
      BY <1>1, <1>2
    <2> QED
      BY <2>1, RespondDoes
  <1>4. ListShape'
    <2>1. /\ pc' \in {"open", "done"} /\ ask' \in Ask /\ answer'.rows \in Seq(Row)
          /\ answer'.form \in {"none", "page", "partial", "json"}
      <3>1. CASE pc' = "open" /\ ask' \in Ask /\ UNCHANGED answer
        BY <1>2, <3>1 DEF ListShape
      <3>2. CASE pc' = "done" /\ UNCHANGED ask
        <4>1. answer'.rows \in Seq(Row) /\ answer'.form \in {"none", "page", "partial", "json"}
          BY <1>2, <1>3, <3>2
        <4> QED
          BY <1>2, <3>2, <4>1 DEF ListShape
      <3> QED
        BY <1>3, <3>1, <3>2
    <2> QED
      BY <1>1, <1>2, <2>1 DEF ListShape
  <1>5. CallInv'
    BY <1>1, <1>2, CallsStay
  <1>6. ScanInv' /\ RowsInv'
    BY <1>1, <1>2, <1>3 DEF ScanInv, RowsInv
  <1>7. TempsOf(rows)'
    BY <1>1, <1>2 DEF TempsOf, Excused, Owner
  <1>8. AnswerInv'
    <2>1. CASE UNCHANGED ask /\ answer'.rows = rows /\ pc' = "done"
      <3>1. TempsOf(answer.rows)'
        BY <1>1, <1>2, <2>1 DEF TempsOf, Excused, Owner
      <3>2. Sorted(answer.rows)'
        BY <1>1, <1>2, <2>1 DEF Sorted, InOrder, Before, Rank
      <3> QED
        BY <2>1, <3>1, <3>2 DEF AnswerInv
    <2>2. CASE UNCHANGED answer
      BY <1>2, <2>2 DEF AnswerInv, TempsOf, Sorted
    <2> QED
      BY <1>3, <2>1, <2>2
  <1>9. FoundInv'
    <2> SUFFICES ASSUME NEW n \in Names, Promised(n), pc' = "done"
                 PROVE  Has(answer'.rows, n) \/ n \in unread
      BY <1>1, <1>3 DEF FoundInv, Promised, Has
    <2>1. Has(rows, n) \/ n \in unread
      BY <1>1, <1>2 DEF FoundInv
    <2> QED
      BY <1>3, <2>1
  <1> QED
    BY <1>4, <1>5, <1>6, <1>7, <1>8, <1>9 DEF ListInv

LEMMA ListInitInv ==
  ASSUME ListInit
  PROVE  ListInv
  <1>1. /\ shelf \in [Names -> Calls \cup {Nothing}]
        /\ outcome = [c \in Calls |-> IF OnShelf(c) THEN "stored" ELSE "pending"]
        /\ temp \in [Uploads -> {"none", "gone", "stuck"}]
        /\ pc = "idle" /\ ask = (CHOOSE a \in Ask : TRUE) /\ todo = <<>> /\ found = {} /\ rows = <<>>
        /\ answer = [status |-> 0, form |-> "none", rows |-> <<>>]
        /\ told = outcome /\ unread = {}
    BY DEF ListInit
  <1>2. ask \in Ask
    <2>1. [route |-> "/", client |-> "browser", path |-> "here", by |-> "name", order |-> "asc"] \in Ask
      BY DEF Ask
    <2> QED
      BY <1>1, <2>1
  <1>3. <<>> \in Seq(Row) /\ <<>> \in Seq(AllNames)
    OBVIOUS
  <1>4. outcome \in [Calls -> Outcomes] /\ temp \in [Uploads -> {"none", "there", "gone", "stuck"}]
    BY <1>1 DEF Outcomes
  <1>5. ListShape
    BY <1>1, <1>2, <1>3, <1>4 DEF ListShape
  <1>6. CallInv
    <2>1. \A c \in Calls : outcome[c] = "stored" => OnShelf(c)
      BY <1>1
    <2>2. \A u \in Uploads : temp[u] # "there"
      BY <1>1
    <2> QED
      BY <1>1, <2>1, <2>2 DEF CallInv
  <1>7. ScanInv /\ RowsInv /\ FoundInv
    BY <1>1 DEF ScanInv, RowsInv, FoundInv
  <1>8. TempsOf(rows) /\ AnswerInv
    BY <1>1 DEF AnswerInv, Sorted, TempsOf
  <1> QED
    BY <1>5, <1>6, <1>7, <1>8 DEF ListInv

LEMMA ListNextInv ==
  ASSUME ListInv, [ListNext]_vars
  PROVE  ListInv'
  <1>1. CASE Writers
    BY <1>1, WritersDoMove, WritersKeep DEF ListInv
  <1>2. CASE ListAsked
    BY <1>2, AskedKeeps
  <1>3. CASE ListOpens
    BY <1>3, OpensKeeps
  <1>4. CASE ReadName
    BY <1>4, ReadNameKeeps
  <1>5. CASE ReadDirFails
    BY <1>5, ReadDirFailsKeeps
  <1>6. CASE ReadDirReturns
    BY <1>6, ReadDirReturnsKeeps
  <1>7. CASE Skip
    BY <1>7, SkipKeeps
  <1>8. CASE Look
    BY <1>8, LookKeeps
  <1>9. CASE ListAnswers
    BY <1>9, AnswersKeeps
  <1>10. CASE UNCHANGED vars
    <2>1. UNCHANGED <<shelf, outcome, temp, pc, ask, todo, found, rows, answer, told, broken, unread>>
      BY <1>10 DEF vars, list, shelfVars
    <2>2. CallsMove
      BY <2>1, CallsStay DEF ListInv
    <2> QED
      BY <2>1, <2>2, WritersKeep DEF WritersMove
  <1> QED
    BY <1>1, <1>2, <1>3, <1>4, <1>5, <1>6, <1>7, <1>8, <1>9, <1>10 DEF ListNext, List

LEMMA ListInvAlways == ListSpec => []ListInv
  <1>1. ListInit => ListInv
    BY ListInitInv
  <1>2. ListInv /\ [ListNext]_vars => ListInv'
    BY ListNextInv
  <1> QED
    BY <1>1, <1>2, PTL DEF ListSpec

-----------------------------------------------------------------------------
(* The theorems.                                                            *)

\* Every variable of the list request stays in its domain, and no name is in the
\* rows twice.
THEOREM ListTypeCorrect == ListSpec => []ListTypeOK
  <1>1. ASSUME ListInv PROVE ListTypeOK
    <2>1. ListShape /\ ScanInv /\ RowsInv
      BY <1>1 DEF ListInv
    <2>2. ToSet(todo) \subseteq AllNames \ found
      <3>1. todo \in Seq(AllNames) /\ DOMAIN todo = 1 .. Len(todo)
        BY <2>1, LenProperties DEF ListShape
      <3>2. \A i \in DOMAIN todo : todo[i] \in AllNames /\ todo[i] \notin found
        BY <2>1, <3>1, ElementOfSeq DEF ScanInv
      <3> QED
        BY <3>2 DEF ToSet
    <2> QED
      BY <2>1, <2>2 DEF ListTypeOK, ListShape, RowsInv, Outcomes
  <1> QED
    BY <1>1, ListInvAlways, PTL

\* ListDirectory's two looks at the directory: an entry whose caller was told it
\* is stored before the request is in the page, whatever the writers of a volume
\* with hard links do between os.ReadDir and entry.Info, unless its own entry.Info
\* failed.
THEOREM StoredIsListedAlways == ListSpec => []StoredIsListed
  <1>1. ASSUME ListInv PROVE StoredIsListed
    <2> SUFFICES ASSUME Answered, answer.status = 200, NEW c \in Calls, told[c] = "stored"
                 PROVE  \/ \E row \in Listed : row.name \in Names /\ Owner(row.name) = c
                        \/ \E n \in unread : Owner(n) = c
      BY DEF StoredIsListed
    <2>1. outcome[c] = "stored"
      BY <1>1 DEF ListInv, CallInv
    <2>2. PICK n \in Names : shelf[n] = c
      BY <1>1, <2>1 DEF ListInv, CallInv, OnShelf
    <2>3. Has(answer.rows, n) \/ n \in unread
      BY <1>1, <2>2 DEF ListInv, FoundInv, Promised, Answered
    <2> QED
      BY <2>2, <2>3 DEF Has, Listed, Owner
  <1> QED
    BY <1>1, ListInvAlways, PTL

\* A temp file is in a list only while its upload is unanswered, or after its
\* process died, or after its removal failed.
THEOREM TempsAreOfTheUnansweredAlways == ListSpec => []TempsAreOfTheUnanswered
  <1>1. ASSUME ListInv PROVE TempsAreOfTheUnanswered
    BY <1>1 DEF ListInv, AnswerInv, TempsOf, Excused, TempsAreOfTheUnanswered, Listed
  <1> QED
    BY <1>1, ListInvAlways, PTL

\* ListDirectory's sort gives the asked order, in both directions, although its descending
\* comparison is not irreflexive: the names come in order, and each row only
\* moves past those it is less than.
THEOREM SortedAsAskedAlways == ListSpec => []SortedAsAsked
  <1>1. ASSUME ListInv PROVE SortedAsAsked
    BY <1>1 DEF ListInv, AnswerInv, Sorted, InOrder, Before, SortedAsAsked
  <1> QED
    BY <1>1, ListInvAlways, PTL
=============================================================================
