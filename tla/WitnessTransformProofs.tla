----------------------- MODULE WitnessTransformProofs -----------------------
(***************************************************************************)
(* Theorems about WitnessTransform, for every program and every witness    *)
(* of any size that is what libclang and the schema promise.               *)
(*                                                                         *)
(* The argument is about one line of the text.  _insert_calls goes from    *)
(* right to left, so what _shift records for a line are columns in         *)
(* strictly descending order, none left of what is still to be inserted    *)
(* (Recorded), and each insertion moves exactly the characters that a new  *)
(* record counts for (Placed).  What locations become are sums over the    *)
(* records, taken from either end.  The calls for assumptions need more:   *)
(* a text stays between the two characters it was put in between (InGap).  *)
(* Those for branchings need one thing more: a call is in the list or in   *)
(* the text, and never twice (ListedOnce, InTextOnce).                     *)
(***************************************************************************)
EXTENDS WitnessTransform, WellFoundedInduction, FiniteSetTheorems,
        SequenceTheorems, TLAPS

----------------------------------------------------------------------------
(***************************************************************************)
(* Numbers                                                                 *)
(***************************************************************************)

\* A set of natural numbers has a least element.
LEMMA Least ==
    ASSUME NEW T \in SUBSET Nat, T # {}
    PROVE  \E x \in T : \A y \in T : x <= y
<1> DEFINE Below == OpToRel(<, Nat)
<1>1. \E x \in T : \A y \in T : ~(<<y, x>> \in Below)
  <2> HIDE DEF Below
  <2>1. IsWellFoundedOn(Below, Nat)
    BY NatLessThanWellFounded DEF Below
  <2>2. QED
    BY <2>1, WFMin
<1>2. ASSUME NEW x \in Nat, NEW y \in Nat, ~(<<y, x>> \in Below)
      PROVE  ~(y < x)
  BY <1>2, Zenon DEF OpToRel
<1>3. \A x, y \in Nat : ~(y < x) => x <= y
  OBVIOUS
<1> HIDE DEF Below
<1>4. QED
  BY <1>1, <1>2, <1>3

\* Induction, for a set.
LEMMA Induction ==
    ASSUME NEW T, 0 \in T, \A n \in Nat : n \in T => n + 1 \in T
    PROVE  Nat \subseteq T
<1> SUFFICES ASSUME Nat \ T # {} PROVE FALSE
  OBVIOUS
<1>1. PICK x \in Nat \ T : \A y \in Nat \ T : x <= y
  BY Least
<1>2. x # 0 /\ x \in Nat
  BY <1>1
<1>3. x - 1 \in Nat /\ ~(x <= x - 1) /\ (x - 1) + 1 = x
  BY <1>2
<1>4. x - 1 \in T
  BY <1>1, <1>3
<1>5. QED
  BY <1>1, <1>3, <1>4

\* A loop that computes a number from the one it had before.
LEMMA LoopExists ==
    ASSUME NEW n \in Nat, NEW a \in Int, NEW h \in [(1..n) \X Int -> Int]
    PROVE  \E f \in [0..n -> Int] :
              f[0] = a /\ \A i \in 1..n : f[i] = h[<<i, f[i - 1]>>]
<1> DEFINE Loop(m, f) == f[0] = a /\ \A i \in 1..m : f[i] = h[<<i, f[i - 1]>>]
           T == {m \in Nat : m <= n => \E f \in [0..m -> Int] : Loop(m, f)}
<1>1. 0 \in T
  <2>1. [i \in 0..0 |-> a] \in [0..0 -> Int] /\ Loop(0, [i \in 0..0 |-> a])
    OBVIOUS
  <2>2. QED
    BY <2>1
<1>2. ASSUME NEW m \in Nat, m \in T
      PROVE  m + 1 \in T
  <2> SUFFICES ASSUME m + 1 <= n
               PROVE  \E f \in [0..(m + 1) -> Int] : Loop(m + 1, f)
    OBVIOUS
  <2>1. PICK f \in [0..m -> Int] : Loop(m, f)
    BY <1>2
  <2> DEFINE g == [i \in 0..(m + 1) |-> IF i <= m THEN f[i] ELSE h[<<m + 1, f[m]>>]]
  <2>2. g \in [0..(m + 1) -> Int]
    <3>1. f[m] \in Int /\ m + 1 \in 1..n
      OBVIOUS
    <3>2. h[<<m + 1, f[m]>>] \in Int
      BY <3>1
    <3>3. \A i \in 0..(m + 1) : i <= m => f[i] \in Int
      OBVIOUS
    <3>4. QED
      BY <3>2, <3>3
  <2>3. g[0] = a
    BY <2>1
  <2>4. ASSUME NEW i \in 1..(m + 1)
        PROVE  g[i] = h[<<i, g[i - 1]>>]
    <3>1. i \in 0..(m + 1) /\ i - 1 \in 0..(m + 1) /\ i - 1 <= m
      OBVIOUS
    <3>2. CASE i <= m
      <4>1. g[i] = f[i] /\ g[i - 1] = f[i - 1] /\ i \in 1..m
        BY <3>1, <3>2
      <4>2. QED
        BY <4>1, <2>1
    <3>3. CASE ~(i <= m)
      <4>1. i = m + 1 /\ i - 1 = m
        BY <3>3
      <4>2. g[i] = h[<<m + 1, f[m]>>] /\ g[i - 1] = f[m]
        BY <3>1, <3>3, <4>1
      <4>3. QED
        BY <4>1, <4>2
    <3>4. QED
      BY <3>2, <3>3
  <2> HIDE DEF g
  <2>5. QED
    BY <2>2, <2>3, <2>4
<1> HIDE DEF T
<1>3. Nat \subseteq T
  BY <1>1, <1>2, Induction
<1>4. n \in T
  BY <1>3
<1>5. QED
  BY <1>4 DEF T

----------------------------------------------------------------------------
(***************************************************************************)
(* The records of one line                                                 *)
(***************************************************************************)

\* A record is a column and a length.
Records == Seq((Nat \ {0}) \X (Nat \ {0}))

Descending(cols) ==
    \A i, j \in DOMAIN cols : i < j => cols[j][1] < cols[i][1]

\* What record i counts for a character at column c.
Counts(cols, c, i) == IF c >= cols[i][1] THEN cols[i][2] ELSE 0

\* s is the loop of ShiftSum.
IsSum(s, cols, c) ==
    s = [i \in 0..Len(cols) |-> IF i = 0 THEN 0 ELSE s[i - 1] + Counts(cols, c, i)]

Total(cols, c) == CHOOSE s : IsSum(s, cols, c)

\* The loop exists, and it counts up.
LEMMA SumIs ==
    ASSUME NEW cols \in Records, NEW c \in Nat
    PROVE  /\ ShiftSum(cols, c) = Total(cols, c)[Len(cols)]
           /\ Total(cols, c)[0] = 0
           /\ \A i \in 1..Len(cols) :
                 /\ Total(cols, c)[i - 1] \in Nat /\ Total(cols, c)[i] \in Nat
                 /\ Total(cols, c)[i] = Total(cols, c)[i - 1] + Counts(cols, c, i)
           /\ ShiftSum(cols, c) \in Nat
<1> DEFINE n == Len(cols)
           h == [p \in (1..n) \X Int |-> p[2] + Counts(cols, c, p[1])]
<1>1. n \in Nat /\ \A i \in 1..n : Counts(cols, c, i) \in Nat
  BY DEF Records, Counts
<1>2. h \in [(1..n) \X Int -> Int]
  BY <1>1
<1>3. PICK f \in [0..n -> Int] :
         f[0] = 0 /\ \A i \in 1..n : f[i] = h[<<i, f[i - 1]>>]
  <2>1. 0 \in Int /\ n \in Nat
    BY <1>1
  <2> HIDE DEF h, n
  <2>2. QED
    BY <2>1, <1>2, LoopExists, Zenon
<1>4. ASSUME NEW i \in 1..n
      PROVE  f[i] = f[i - 1] + Counts(cols, c, i)
  <2>1. f[i - 1] \in Int
    BY <1>1
  <2>2. <<i, f[i - 1]>> \in (1..n) \X Int
    BY <2>1
  <2>3. QED
    BY <2>2, <1>3
<1> HIDE DEF h
<1>5. ASSUME NEW i \in 0..n
      PROVE  f[i] = IF i = 0 THEN 0 ELSE f[i - 1] + Counts(cols, c, i)
  <2>1. i = 0 \/ i \in 1..n
    BY <1>1
  <2>2. QED
    BY <2>1, <1>3, <1>4
<1>6. IsSum(f, cols, c)
  BY <1>5 DEF IsSum
<1> DEFINE s == Total(cols, c)
<1>7. IsSum(s, cols, c)
  BY <1>6 DEF Total
<1>8. \A i \in 0..n : s[i] = IF i = 0 THEN 0 ELSE s[i - 1] + Counts(cols, c, i)
  <2> HIDE DEF s
  <2>1. QED
    BY <1>7 DEF IsSum
<1> HIDE DEF s
<1>9. s[0] = 0 /\ \A i \in 1..n : s[i] = s[i - 1] + Counts(cols, c, i)
  <2>1. 0 \in 0..n /\ \A i \in 1..n : i \in 0..n /\ i # 0
    BY <1>1
  <2>2. QED
    BY <2>1, <1>8
<1>10. \A i \in 0..n : s[i] \in Nat
  <2> DEFINE T == {m \in Nat : m <= n => s[m] \in Nat}
  <2>1. 0 \in T
    BY <1>9
  <2>2. ASSUME NEW m \in Nat, m \in T
        PROVE  m + 1 \in T
    <3>1. CASE m + 1 <= n
      <4>1. m + 1 \in 1..n /\ (m + 1) - 1 = m /\ s[m] \in Nat
        BY <3>1, <2>2, <1>1
      <4>2. QED
        BY <4>1, <1>9, <1>1
    <3>2. QED
      BY <3>1
  <2> HIDE DEF T
  <2>3. Nat \subseteq T
    BY <2>1, <2>2, Induction
  <2>4. QED
    BY <2>3 DEF T
<1>11. ShiftSum(cols, c) = s[n]
  BY DEF ShiftSum, s, Total, IsSum, Counts
<1>12. n \in 0..n /\ \A i \in 1..n : i - 1 \in 0..n /\ i \in 0..n
  BY <1>1
<1>13. QED
  BY <1>9, <1>10, <1>11, <1>12 DEF s

LEMMA RecordsAre ==
    ASSUME NEW cols \in Records
    PROVE  /\ Len(cols) \in Nat /\ DOMAIN cols = 1..Len(cols)
           /\ \A i \in 1..Len(cols) : /\ cols[i][1] \in Nat \ {0}
                                      /\ cols[i][2] \in Nat \ {0}
                                      /\ cols[i] \in (Nat \ {0}) \X (Nat \ {0})
BY DEF Records

\* Records right of the column count nothing.
LEMMA NoneCounts ==
    ASSUME NEW cols \in Records, NEW c \in Nat, NEW m \in 0..Len(cols),
           \A i \in 1..m : c < cols[i][1]
    PROVE  Total(cols, c)[m] = 0
<1> DEFINE T == {k \in Nat : k <= m => Total(cols, c)[k] = 0}
<1>1. 0 \in T
  BY SumIs
<1>2. ASSUME NEW k \in Nat, k \in T
      PROVE  k + 1 \in T
  <2>1. CASE k + 1 <= m
    <3>1. k + 1 \in 1..m /\ k + 1 \in 1..Len(cols) /\ (k + 1) - 1 = k /\ k <= m
      BY <2>1, RecordsAre
    <3>2. Counts(cols, c, k + 1) = 0
      <4>1. cols[k + 1][1] \in Nat /\ c < cols[k + 1][1]
        BY <3>1, RecordsAre
      <4>2. QED
        BY <4>1 DEF Counts
    <3>3. Total(cols, c)[k] = 0
      BY <3>1, <1>2
    <3>4. Total(cols, c)[k + 1] = Total(cols, c)[(k + 1) - 1] + Counts(cols, c, k + 1)
      BY <3>1, SumIs
    <3>5. QED
      BY <3>1, <3>2, <3>3, <3>4
  <2>2. QED
    BY <2>1
<1> HIDE DEF T
<1>3. Nat \subseteq T
  BY <1>1, <1>2, Induction
<1>4. m \in Nat /\ m <= m
  BY RecordsAre
<1>5. QED
  BY <1>3, <1>4 DEF T

\* Left of all records nothing has moved.
LEMMA NothingBefore ==
    ASSUME NEW cols \in Records, NEW col \in Nat, \A i \in DOMAIN cols : col <= cols[i][1]
    PROVE  \A c \in Nat : c < col => ShiftSum(cols, c) = 0
<1>1. ASSUME NEW c \in Nat, c < col PROVE ShiftSum(cols, c) = 0
  <2>1. \A i \in 1..Len(cols) : c < cols[i][1]
    BY <1>1, RecordsAre
  <2>2. Len(cols) \in 0..Len(cols)
    BY RecordsAre
  <2>3. Total(cols, c)[Len(cols)] = 0
    BY <2>1, <2>2, NoneCounts
  <2>4. QED
    BY <2>3, SumIs
<1>2. QED
  BY <1>1

\* The sum looks at nothing behind its place.
LEMMA SumOfPrefix ==
    ASSUME NEW cols \in Records, NEW more \in Records, NEW c \in Nat, NEW m \in Nat,
           m <= Len(cols), m <= Len(more), \A i \in 1..m : cols[i] = more[i]
    PROVE  Total(cols, c)[m] = Total(more, c)[m]
<1> DEFINE T == {k \in Nat : k <= m => Total(cols, c)[k] = Total(more, c)[k]}
<1>1. 0 \in T
  BY SumIs
<1>2. ASSUME NEW k \in Nat, k \in T
      PROVE  k + 1 \in T
  <2>1. CASE k + 1 <= m
    <3>1. /\ k + 1 \in 1..m /\ k + 1 \in 1..Len(cols) /\ k + 1 \in 1..Len(more)
          /\ (k + 1) - 1 = k /\ k <= m
      BY <2>1, RecordsAre
    <3>2. Counts(cols, c, k + 1) = Counts(more, c, k + 1)
      BY <3>1 DEF Counts
    <3>3. Total(cols, c)[k] = Total(more, c)[k]
      BY <3>1, <1>2
    <3>4. /\ Total(cols, c)[k + 1] = Total(cols, c)[(k + 1) - 1] + Counts(cols, c, k + 1)
          /\ Total(more, c)[k + 1] = Total(more, c)[(k + 1) - 1] + Counts(more, c, k + 1)
      BY <3>1, SumIs
    <3>5. QED
      BY <3>1, <3>2, <3>3, <3>4
  <2>2. QED
    BY <2>1
<1> HIDE DEF T
<1>3. Nat \subseteq T
  BY <1>1, <1>2, Induction
<1>4. m <= m
  OBVIOUS
<1>5. QED
  BY <1>3, <1>4 DEF T

\* What an insertion at col adds to the position of a character.
Moves(col, length, c) == IF c >= col THEN length ELSE 0

\* _add_shift: as long as nothing is recorded left of the column, the records
\* stay in descending order and count what is inserted.
LEMMA AddShiftIs ==
    ASSUME NEW cols \in Records, Descending(cols),
           NEW col \in Nat \ {0}, NEW length \in Nat \ {0},
           \A i \in DOMAIN cols : col <= cols[i][1]
    PROVE  /\ AddShift(cols, col, length) \in Records
           /\ Descending(AddShift(cols, col, length))
           /\ \A i \in DOMAIN AddShift(cols, col, length) :
                 col <= AddShift(cols, col, length)[i][1]
           /\ \A c \in Nat : ShiftSum(AddShift(cols, col, length), c)
                               = ShiftSum(cols, c) + Moves(col, length, c)
<1> DEFINE new == AddShift(cols, col, length)
<1>0. PICK n \in Nat : n = Len(cols)
  BY RecordsAre
<1>1. Len(cols) = n /\ DOMAIN cols = 1..n /\ \A i \in 1..n : cols[i][1] \in Nat
  BY <1>0, RecordsAre
<1>2. CASE \E i \in DOMAIN cols : cols[i][1] = col
  <2>1. PICK i \in 1..n : cols[i][1] = col
    BY <1>1, <1>2
  <2>2. i = n
    <3>1. ASSUME i < n PROVE FALSE
      <4>1. n \in 1..n
        BY <1>1, <3>1
      <4>2. cols[n][1] < cols[i][1] /\ col <= cols[n][1] /\ cols[n][1] \in Nat
        BY <4>1, <1>1, <3>1, RecordsAre DEF Descending
      <4>3. QED
        BY <4>2, <2>1
    <3>2. QED
      BY <3>1, <1>1
  <2>3. \A j \in 1..n : j # n => cols[j][1] # col
    <3>1. ASSUME NEW j \in 1..n, j # n PROVE cols[j][1] # col
      <4>1. j < n /\ n \in 1..n
        BY <3>1, <1>1
      <4>2. cols[n][1] < cols[j][1] /\ cols[j][1] \in Nat
        BY <4>1, <1>1, RecordsAre DEF Descending
      <4>3. QED
        BY <4>2, <2>1, <2>2
    <3>2. QED
      BY <3>1
  <2>4. new = [j \in 1..n |-> IF cols[j][1] = col
                              THEN <<col, cols[j][2] + length>> ELSE cols[j]]
    BY <1>1, <1>2 DEF AddShift
  <2>5. /\ n \in 1..n /\ new[n] = <<col, cols[n][2] + length>>
        /\ \A j \in 1..n : j # n => new[j] = cols[j]
        /\ DOMAIN new = 1..n /\ cols[n][1] = col
    BY <2>1, <2>2, <2>3, <2>4
  <2> HIDE DEF new
  <2>6. \A j \in 1..n : new[j] \in (Nat \ {0}) \X (Nat \ {0}) /\ new[j][1] = cols[j][1]
    <3>1. cols[n][2] + length \in Nat \ {0}
      BY <1>1, <2>5, RecordsAre
    <3>2. ASSUME NEW j \in 1..n, j # n
          PROVE  new[j] \in (Nat \ {0}) \X (Nat \ {0}) /\ new[j][1] = cols[j][1]
      BY <1>1, <3>2, <2>5, RecordsAre
    <3>3. new[n] \in (Nat \ {0}) \X (Nat \ {0}) /\ new[n][1] = cols[n][1]
      BY <3>1, <2>5
    <3>4. QED
      BY <3>2, <3>3
  <2>7. new \in Records /\ Len(new) = n
    <3>1. new \in [1..n -> (Nat \ {0}) \X (Nat \ {0})]
      <4>1. new = [j \in 1..n |-> new[j]]
        BY <2>4
      <4>2. QED
        BY <4>1, <2>6
    <3>2. QED
      BY <3>1, <1>1 DEF Records
  <2>8. Descending(new) /\ \A j \in DOMAIN new : col <= new[j][1]
    BY <2>5, <2>6, <1>1 DEF Descending
  <2>9. ASSUME NEW c \in Nat
        PROVE  ShiftSum(new, c) = ShiftSum(cols, c) + Moves(col, length, c)
    <3>1. n - 1 \in Nat /\ n - 1 <= n /\ \A j \in 1..(n - 1) : j \in 1..n /\ j # n
      BY <2>5
    <3>2. Total(new, c)[n - 1] = Total(cols, c)[n - 1]
      BY <1>1, <3>1, <2>5, <2>7, SumOfPrefix
    <3>3. /\ Total(new, c)[n] = Total(new, c)[n - 1] + Counts(new, c, n)
          /\ Total(cols, c)[n] = Total(cols, c)[n - 1] + Counts(cols, c, n)
          /\ Total(cols, c)[n - 1] \in Nat
      <4>1. Total(new, c)[n] = Total(new, c)[n - 1] + Counts(new, c, n)
        <5>1. n \in 1..Len(new)
          BY <2>5, <2>7
        <5>2. QED
          BY <5>1, <2>7, SumIs
      <4>2. n \in 1..Len(cols)
        BY <1>1, <2>5
      <4>3. QED
        BY <4>1, <4>2, SumIs
    <3>4. ShiftSum(new, c) = Total(new, c)[n] /\ ShiftSum(cols, c) = Total(cols, c)[n]
      <4>1. ShiftSum(new, c) = Total(new, c)[Len(new)]
        BY <2>7, SumIs
      <4>2. ShiftSum(cols, c) = Total(cols, c)[Len(cols)]
        BY SumIs
      <4>3. QED
        BY <4>1, <4>2, <2>7, <1>1
    <3>5. cols[n][1] = col /\ new[n][1] = col /\ new[n][2] = cols[n][2] + length
          /\ cols[n][2] \in Nat
      BY <1>1, <2>5, RecordsAre
    <3>6. Counts(new, c, n) = Counts(cols, c, n) + Moves(col, length, c)
          /\ Counts(cols, c, n) \in Nat /\ Moves(col, length, c) \in Nat
      BY <3>5 DEF Counts, Moves
    <3>7. QED
      BY <3>2, <3>3, <3>4, <3>6
  <2>10. QED
    BY <2>7, <2>8, <2>9 DEF new
<1>3. CASE ~ \E i \in DOMAIN cols : cols[i][1] = col
  <2>1. new = Append(cols, <<col, length>>)
    BY <1>3 DEF AddShift
  <2>2. /\ new \in Records /\ Len(new) = n + 1 /\ new[n + 1] = <<col, length>>
        /\ \A j \in 1..n : new[j] = cols[j]
        /\ DOMAIN new = 1..(n + 1)
    BY <2>1, <1>1 DEF Records
  <2> HIDE DEF new
  <2>3. \A j \in 1..n : col < cols[j][1] /\ new[j][1] = cols[j][1] /\ cols[j][1] \in Nat
    BY <2>2, <1>1, <1>3, RecordsAre
  <2>4. \A j \in 1..(n + 1) : j \in 1..n \/ j = n + 1
    BY <1>1
  <2>5. Descending(new)
    <3>1. ASSUME NEW i \in 1..(n + 1), NEW j \in 1..(n + 1), i < j
          PROVE  new[j][1] < new[i][1]
      <4>1. i \in 1..n
        BY <3>1, <1>1
      <4>2. CASE j = n + 1
        BY <4>1, <4>2, <2>2, <2>3
      <4>3. CASE j \in 1..n
        BY <4>1, <4>3, <2>3, <3>1, <1>1 DEF Descending
      <4>4. QED
        BY <4>2, <4>3, <2>4
    <3>2. QED
      BY <3>1, <2>2 DEF Descending
  <2>6. \A j \in DOMAIN new : col <= new[j][1]
    BY <2>2, <2>3, <2>4
  <2>7. ASSUME NEW c \in Nat
        PROVE  ShiftSum(new, c) = ShiftSum(cols, c) + Moves(col, length, c)
    <3>1. Total(new, c)[n] = Total(cols, c)[n]
      <4>1. n <= n /\ n <= n + 1
        BY <1>1
      <4>2. QED
        BY <4>1, <2>2, <1>1, SumOfPrefix
    <3>2. n + 1 \in 1..Len(new) /\ (n + 1) - 1 = n
      BY <2>2, <1>1
    <3>3. Total(new, c)[n + 1] = Total(new, c)[(n + 1) - 1] + Counts(new, c, n + 1)
      BY <3>2, <2>2, SumIs
    <3>4. ShiftSum(new, c) = Total(new, c)[n + 1] /\ ShiftSum(cols, c) = Total(cols, c)[n]
      <4>1. ShiftSum(new, c) = Total(new, c)[Len(new)]
        BY <2>2, SumIs
      <4>2. ShiftSum(cols, c) = Total(cols, c)[Len(cols)]
        BY SumIs
      <4>3. QED
        BY <4>1, <4>2, <2>2, <1>1
    <3>5. Counts(new, c, n + 1) = Moves(col, length, c)
      BY <2>2 DEF Counts, Moves
    <3>6. QED
      BY <3>1, <3>2, <3>3, <3>4, <3>5
  <2>8. QED
    BY <2>2, <2>5, <2>6, <2>7 DEF new
<1>4. QED
  BY <1>2, <1>3

----------------------------------------------------------------------------
(***************************************************************************)
(* The text of one line                                                    *)
(***************************************************************************)

Chars  == [at : Nat \X Nat, new : Seq(Nat)]
Values == {v \in Seq(Nat) : v # None /\ v[1] \in 1..8}

LEMMA WidthIs ==
    ASSUME NEW value \in Values
    PROVE  Width(value) \in Nat \ {0} /\ New(value) \in Chars /\ value # None
<1>1. value[1] \in 1..8 /\ value \in Seq(Nat) /\ value # None
  BY DEF Values
<1>2. value[1] \in {1, 2, 3, 4, 5, 6, 7, 8}
  BY <1>1
<1>3. Width(value) \in {1, 2, 3, 4}
  BY <1>2 DEF Width
<1>4. New(value) \in Chars
  BY <1>1 DEF New, Chars
<1>5. QED
  BY <1>1, <1>3, <1>4

\* line[:col-1] + value + line[col-1:], character by character; a column
\* behind the end of the line is its end.
LEMMA InsertTextIs ==
    ASSUME NEW line \in Seq(Chars), NEW col \in Nat \ {0}, NEW value \in Values
    PROVE  \E b \in Nat :
             /\ b <= Len(line) /\ b <= col - 1 /\ (b = col - 1 \/ b = Len(line))
             /\ InsertText(line, col, value) \in Seq(Chars)
             /\ Len(InsertText(line, col, value)) = Len(line) + Width(value)
             /\ \A k \in 1..(Len(line) + Width(value)) :
                  /\ k <= b => InsertText(line, col, value)[k] = line[k]
                  /\ b < k /\ k <= b + Width(value) =>
                        InsertText(line, col, value)[k] = New(value)
                  /\ b + Width(value) < k =>
                        InsertText(line, col, value)[k] = line[k - Width(value)]
<1> DEFINE b   == IF col - 1 < Len(line) THEN col - 1 ELSE Len(line)
           w   == Width(value)
           mid == [i \in 1..w |-> New(value)]
<1>1. PICK n \in Nat : n = Len(line)
  OBVIOUS
<1>2. b \in Nat /\ b <= n /\ b <= col - 1 /\ (b = col - 1 \/ b = n)
  BY <1>1
<1>3. w \in Nat \ {0} /\ New(value) \in Chars
  BY WidthIs
<1> HIDE DEF w
<1>4. mid \in Seq(Chars) /\ Len(mid) = w /\ \A i \in 1..w : mid[i] = New(value)
  BY <1>3
<1> HIDE DEF mid
<1>5. InsertText(line, col, value)
        = (SubSeq(line, 1, b) \o mid) \o SubSeq(line, b + 1, Len(line))
  BY DEF InsertText, mid, w
<1> HIDE DEF b
<1> DEFINE left == SubSeq(line, 1, b)  right == SubSeq(line, b + 1, Len(line))
<1>6. left \in Seq(Chars) /\ Len(left) = b /\ \A i \in 1..b : left[i] = line[i]
  BY <1>1, <1>2
<1>7. right \in Seq(Chars) /\ Len(right) = n - b
        /\ \A i \in 1..(n - b) : right[i] = line[b + i]
  <2>1. \A i \in (b + 1)..n : line[i] \in Chars
    BY <1>1, <1>2
  <2>2. b + 1 \in Int /\ n \in Int
    BY <1>2
  <2>3. /\ right \in Seq(Chars)
        /\ Len(right) = IF b + 1 <= n THEN n - (b + 1) + 1 ELSE 0
        /\ \A i \in 1..(n - (b + 1) + 1) : right[i] = line[(b + 1) + i - 1]
    BY <2>1, <2>2, <1>1, SubSeqProperties
  <2>4. /\ (IF b + 1 <= n THEN n - (b + 1) + 1 ELSE 0) = n - b
        /\ n - (b + 1) + 1 = n - b
        /\ \A i \in 1..(n - b) : (b + 1) + i - 1 = b + i
    BY <1>2
  <2> HIDE DEF right
  <2>5. QED
    BY <2>3, <2>4
<1> HIDE DEF left, right
<1> DEFINE start == left \o mid
<1>8. start \in Seq(Chars) /\ Len(start) = b + w
        /\ (\A i \in 1..b : start[i] = line[i])
        /\ (\A i \in 1..(b + w) : b < i => start[i] = New(value))
  <2>1. start \in Seq(Chars) /\ Len(start) = b + w
    BY <1>2, <1>3, <1>4, <1>6
  <2>2. ASSUME NEW i \in 1..b PROVE start[i] = line[i]
    BY <1>2, <1>3, <1>4, <1>6
  <2>3. ASSUME NEW i \in 1..(b + w), b < i PROVE start[i] = New(value)
    <3>1. start[i] = mid[i - b] /\ i - b \in 1..w
      BY <2>3, <1>2, <1>3, <1>4, <1>6
    <3>2. QED
      BY <3>1, <1>4
  <2>4. QED
    BY <2>1, <2>2, <2>3
<1> HIDE DEF start
<1> DEFINE all == start \o right
<1>9. all \in Seq(Chars) /\ Len(all) = n + w
  <2>1. all \in Seq(Chars) /\ Len(all) = Len(start) + Len(right)
    BY <1>7, <1>8, ConcatProperties
  <2>2. (b + w) + (n - b) = n + w
    BY <1>2, <1>3
  <2>3. QED
    BY <2>1, <2>2, <1>7, <1>8
<1>10. ASSUME NEW k \in 1..(n + w), k <= b + w PROVE all[k] = start[k]
  BY <1>10, <1>2, <1>3, <1>7, <1>8
<1>11. ASSUME NEW k \in 1..(n + w), b + w < k PROVE all[k] = line[k - w]
  <2>1. all[k] = right[k - (b + w)]
    BY <1>11, <1>2, <1>3, <1>7, <1>8
  <2>2. k - (b + w) \in 1..(n - b) /\ b + (k - (b + w)) = k - w
    BY <1>11, <1>2, <1>3
  <2>3. QED
    BY <2>1, <2>2, <1>7
<1>12. InsertText(line, col, value) = all
  BY <1>5 DEF all, start, left, right
<1> HIDE DEF all
<1>13. ASSUME NEW k \in 1..(n + w)
       PROVE  /\ k <= b => all[k] = line[k]
              /\ b < k /\ k <= b + w => all[k] = New(value)
              /\ b + w < k => all[k] = line[k - w]
  <2>1. ASSUME k <= b PROVE all[k] = line[k]
    <3>1. k <= b + w /\ k \in 1..b
      BY <2>1, <1>2, <1>3
    <3>2. QED
      BY <3>1, <1>8, <1>10
  <2>2. ASSUME b < k, k <= b + w PROVE all[k] = New(value)
    <3>1. k \in 1..(b + w)
      BY <2>2
    <3>2. QED
      BY <3>1, <2>2, <1>8, <1>10
  <2>3. QED
    BY <2>1, <2>2, <1>11
<1>14. QED
  BY <1>1, <1>2, <1>9, <1>12, <1>13 DEF w

\* The n characters of source line l stand where the records say, and nowhere
\* else.
Placed(line, cols, l, n) ==
    /\ line \in Seq(Chars)
    /\ \A c \in 1..n : /\ c + ShiftSum(cols, c) \in 1..Len(line)
                       /\ line[c + ShiftSum(cols, c)] = Source(l, c)
    /\ \A k \in 1..Len(line) :
          \/ \E c \in 1..n : line[k] = Source(l, c) /\ k = c + ShiftSum(cols, c)
          \/ line[k].at = <<0, 0>>

\* An insertion that is recorded keeps that so.
LEMMA InsertKeepsPlaces ==
    ASSUME NEW line, NEW cols \in Records, Descending(cols), NEW l, NEW n \in Nat,
           Placed(line, cols, l, n),
           NEW col \in Nat \ {0}, NEW value \in Values,
           \A i \in DOMAIN cols : col <= cols[i][1]
    PROVE  Placed(InsertText(line, col, value), AddShift(cols, col, Width(value)), l, n)
<1> DEFINE w    == Width(value)
           out  == InsertText(line, col, value)
           recs == AddShift(cols, col, w)
<1>1. w \in Nat \ {0}
  BY WidthIs
<1>2. PICK b \in Nat :
         /\ b <= Len(line) /\ b <= col - 1 /\ (b = col - 1 \/ b = Len(line))
         /\ out \in Seq(Chars) /\ Len(out) = Len(line) + w
         /\ \A k \in 1..(Len(line) + w) :
              /\ k <= b => out[k] = line[k]
              /\ b < k /\ k <= b + w => out[k] = New(value)
              /\ b + w < k => out[k] = line[k - w]
  BY InsertTextIs DEF Placed
<1>3. PICK len \in Nat : len = Len(line)
  BY DEF Placed
<1> HIDE DEF w, out
<1>4. \A c \in Nat : ShiftSum(recs, c) = ShiftSum(cols, c) + Moves(col, w, c)
  BY <1>1, AddShiftIs
<1> HIDE DEF recs
<1>5. \A c \in Nat : c < col => ShiftSum(cols, c) = 0
  BY NothingBefore
<1>6. \A c \in Nat : ShiftSum(cols, c) \in Nat
  BY SumIs
<1>7. ASSUME NEW c \in 1..n
      PROVE  c + ShiftSum(recs, c) \in 1..Len(out) /\ out[c + ShiftSum(recs, c)] = Source(l, c)
  <2> DEFINE k == c + ShiftSum(cols, c)
  <2>1. k \in 1..len /\ line[k] = Source(l, c) /\ c <= k /\ c \in Nat
    <3>1. c \in Nat
      OBVIOUS
    <3>2. ShiftSum(cols, c) \in Nat
      BY <3>1, <1>6, Zenon
    <3>3. k \in 1..Len(line) /\ line[k] = Source(l, c)
      BY Zenon DEF Placed
    <3>4. QED
      BY <3>1, <3>2, <3>3, <1>3
  <2>2. CASE c < col
    <3>1. ShiftSum(cols, c) = 0 /\ ShiftSum(recs, c) = 0
      BY <2>1, <2>2, <1>4, <1>5 DEF Moves
    <3>2. k = c /\ c + ShiftSum(recs, c) = c /\ c <= b /\ c \in 1..(len + w)
      BY <3>1, <2>1, <2>2, <1>1, <1>2, <1>3
    <3>3. out[c] = line[c]
      BY <3>2, <1>2, <1>3
    <3>4. QED
      BY <3>2, <3>3, <2>1, <1>2, <1>3
  <2>3. CASE ~(c < col)
    <3>1. c + ShiftSum(recs, c) = k + w
      BY <2>1, <2>3, <1>1, <1>4, <1>6 DEF Moves
    <3>2. b + w < k + w /\ k + w \in 1..(len + w) /\ (k + w) - w = k
      BY <2>1, <2>3, <1>1, <1>2, <1>3
    <3>3. out[k + w] = line[(k + w) - w]
      BY <3>2, <1>2, <1>3
    <3>4. QED
      BY <3>1, <3>2, <3>3, <2>1, <1>2, <1>3
  <2>4. QED
    BY <2>2, <2>3
<1>8. ASSUME NEW k \in 1..Len(out)
      PROVE  \/ \E c \in 1..n : out[k] = Source(l, c) /\ k = c + ShiftSum(recs, c)
             \/ out[k].at = <<0, 0>>
  <2>0. k \in 1..(len + w) /\ k \in Nat
    BY <1>2, <1>3
  <2>1. CASE k <= b
    <3>1. out[k] = line[k] /\ k \in 1..len
      BY <2>0, <2>1, <1>2, <1>3
    <3>2. ASSUME NEW c \in 1..n, line[k] = Source(l, c), k = c + ShiftSum(cols, c)
          PROVE  k = c + ShiftSum(recs, c)
      <4>1. c \in Nat /\ c <= k /\ c < col
        <5>1. c \in Nat
          OBVIOUS
        <5>2. ShiftSum(cols, c) \in Nat
          BY <5>1, <1>6, Zenon
        <5>3. b <= col - 1
          BY <1>2, Zenon
        <5>4. QED
          BY <5>1, <5>2, <5>3, <3>2, <2>0, <2>1
      <4>2. ShiftSum(recs, c) = ShiftSum(cols, c)
        BY <4>1, <1>4, <1>6 DEF Moves
      <4>3. QED
        BY <4>2, <3>2
    <3>3. QED
      BY <3>1, <3>2, <1>3 DEF Placed
  <2>2. CASE b < k /\ k <= b + w
    <3>1. out[k] = New(value)
      BY <2>0, <2>2, <1>2, <1>3
    <3>2. QED
      BY <3>1 DEF New
  <2>3. CASE b + w < k
    <3>1. out[k] = line[k - w] /\ k - w \in 1..len /\ b < k - w
      BY <2>0, <2>3, <1>1, <1>2, <1>3
    <3>2. ASSUME NEW c \in 1..n, line[k - w] = Source(l, c), k - w = c + ShiftSum(cols, c)
          PROVE  k = c + ShiftSum(recs, c)
      <4>1. c \in Nat /\ b = col - 1
        BY <3>1, <1>2, <1>3
      <4>2. ~(c < col)
        <5>1. ASSUME c < col PROVE FALSE
          <6>1. k - w = c
            BY <4>1, <5>1, <3>2, <1>5
          <6>2. QED
            BY <6>1, <5>1, <4>1, <3>1
        <5>2. QED
          BY <5>1
      <4>3. ShiftSum(recs, c) = ShiftSum(cols, c) + w
        BY <4>1, <4>2, <1>4 DEF Moves
      <4>4. QED
        <5>1. ShiftSum(cols, c) \in Nat
          BY <4>1, <1>6
        <5>2. QED
          BY <5>1, <4>1, <4>3, <3>2, <1>1, <2>0
    <3>3. QED
      BY <3>1, <3>2, <1>3 DEF Placed
  <2>4. QED
    BY <2>0, <2>1, <2>2, <2>3, <1>1
<1>9. QED
  BY <1>2, <1>7, <1>8 DEF Placed, out, recs, w

----------------------------------------------------------------------------
(***************************************************************************)
(* shift_back                                                              *)
(***************************************************************************)

\* In the order of the columns the records are those of _shift, reversed.
LEMMA InOrderIsReversed ==
    ASSUME NEW cols \in Records, Descending(cols), NEW k \in 1..Len(cols)
    PROVE  /\ InOrderOfColumns(cols)[k] = cols[Len(cols) + 1 - k]
           /\ Len(InOrderOfColumns(cols)) = Len(cols)
<1>1. PICK n \in Nat : n = Len(cols)
  BY RecordsAre
<1>2. DOMAIN cols = 1..n /\ \A i \in 1..n : cols[i][1] \in Nat
  BY <1>1, RecordsAre
<1> DEFINE Upto(i) == {j \in DOMAIN cols : cols[j][1] <= cols[i][1]}
<1>3. ASSUME NEW i \in 1..n
      PROVE  Upto(i) = i..n
  <2>1. ASSUME NEW j \in 1..n
        PROVE  cols[j][1] <= cols[i][1] <=> i <= j
    <3>1. CASE i < j
      BY <3>1, <1>2 DEF Descending
    <3>2. CASE j < i
      BY <3>2, <1>2 DEF Descending
    <3>3. CASE i = j
      BY <3>3, <1>2
    <3>4. QED
      BY <3>1, <3>2, <3>3
  <2>2. i..n \subseteq 1..n /\ \A j \in 1..n : j \in i..n <=> i <= j
    OBVIOUS
  <2>3. \A j \in Upto(i) : j \in i..n
    BY <1>2, <2>1, <2>2
  <2>4. \A j \in i..n : j \in Upto(i)
    BY <1>2, <2>1, <2>2
  <2>5. QED
    BY <2>3, <2>4
<1>4. ASSUME NEW i \in 1..n
      PROVE  Cardinality(Upto(i)) = n + 1 - i
  <2>1. Cardinality(i..n) = IF i > n THEN 0 ELSE n - i + 1
    BY FS_Interval
  <2>2. Upto(i) = i..n
    BY <1>3
  <2> HIDE DEF Upto
  <2>3. QED
    BY <2>1, <2>2
<1> DEFINE is(i) == i \in DOMAIN cols /\ Cardinality(Upto(i)) = k
<1>5. n + 1 - k \in 1..n /\ n + 1 - (n + 1 - k) = k
  BY <1>1
<1>6. is(n + 1 - k)
  BY <1>2, <1>4, <1>5
<1>7. ASSUME NEW i \in DOMAIN cols, Cardinality(Upto(i)) = k
      PROVE  i = n + 1 - k
  <2>1. k = n + 1 - i /\ i \in 1..n
    BY <1>2, <1>4, <1>7
  <2>2. QED
    BY <2>1
<1>8. (CHOOSE i \in DOMAIN cols : Cardinality(Upto(i)) = k) = n + 1 - k
  <2> HIDE DEF Upto
  <2>1. QED
    BY <1>6, <1>7
<1>9. k \in DOMAIN cols
  BY <1>1, <1>2
<1>10. InOrderOfColumns(cols)[k] = cols[CHOOSE i \in DOMAIN cols : Cardinality(Upto(i)) = k]
  BY <1>9 DEF InOrderOfColumns
<1>11. Len(InOrderOfColumns(cols)) = n
  BY <1>2 DEF InOrderOfColumns
<1>12. QED
  BY <1>1, <1>8, <1>10, <1>11

\* A text at the column itself or left of it has moved the character to the
\* right of its column; subtracted from left to right, the lengths take the
\* character back.
LEMMA ShiftBackIs ==
    ASSUME NEW line \in Nat,
           shift[line] \in Records, Descending(shift[line]), NEW c \in Nat
    PROVE  ShiftBack(<<line + AddLines, c + ShiftSum(shift[line], c)>>) = <<line, c>>
<1> DEFINE cols == shift[line]
           up   == InOrderOfColumns(cols)
           k    == c + ShiftSum(cols, c)
<1>1. cols \in Records /\ Descending(cols)
  OBVIOUS
<1> HIDE DEF cols
<1>2. PICK n \in Nat : n = Len(cols)
  BY <1>1, RecordsAre
<1>3. ASSUME NEW i \in 1..n
      PROVE  n + 1 - i \in 1..n /\ up[i] = cols[n + 1 - i] /\ up[i][1] \in Nat /\ up[i][2] \in Nat
  <2>1. n + 1 - i \in 1..n
    OBVIOUS
  <2>2. up[i] = cols[n + 1 - i]
    BY <1>1, <1>2, InOrderIsReversed
  <2>3. QED
    BY <2>1, <2>2, <1>1, <1>2, RecordsAre
<1>4. Len(up) = n
  <2>1. CASE n = 0
    <3>1. DOMAIN up = 1..0
      BY <1>1, <1>2, <2>1, RecordsAre DEF InOrderOfColumns
    <3>2. QED
      BY <3>1, <2>1 DEF InOrderOfColumns
  <2>2. CASE n # 0
    <3>1. 1 \in 1..Len(cols)
      BY <1>2, <2>2
    <3>2. QED
      BY <3>1, <1>1, <1>2, InOrderIsReversed
  <2>3. QED
    BY <2>1, <2>2
<1> HIDE DEF up
<1>5. k \in Nat /\ ShiftSum(cols, c) = Total(cols, c)[n]
  <2>1. ShiftSum(cols, c) \in Nat /\ ShiftSum(cols, c) = Total(cols, c)[Len(cols)]
    BY <1>1, SumIs
  <2>2. QED
    BY <2>1, <1>2
<1> HIDE DEF k
<1> DEFINE h    == [p \in (1..n) \X Int |->
                      p[2] - (IF p[2] > up[p[1]][1] THEN up[p[1]][2] ELSE 0)]
           step(b) == b = [i \in 0..Len(up) |->
                             IF i = 0 THEN k
                             ELSE b[i - 1] - (IF b[i - 1] > up[i][1] THEN up[i][2] ELSE 0)]
           back == CHOOSE b : step(b)
<1>6. h \in [(1..n) \X Int -> Int]
  BY <1>3
<1>7. PICK f \in [0..n -> Int] :
         f[0] = k /\ \A i \in 1..n : f[i] = h[<<i, f[i - 1]>>]
  <2>1. k \in Int /\ n \in Nat
    BY <1>5
  <2> HIDE DEF h
  <2>2. QED
    BY <2>1, <1>6, LoopExists, Zenon
<1>8. ASSUME NEW i \in 1..n
      PROVE  f[i] = f[i - 1] - (IF f[i - 1] > up[i][1] THEN up[i][2] ELSE 0)
  <2>1. <<i, f[i - 1]>> \in (1..n) \X Int
    OBVIOUS
  <2>2. QED
    BY <2>1, <1>7
<1> HIDE DEF h
<1>9. ASSUME NEW i \in 0..n
      PROVE  f[i] = IF i = 0 THEN k
                    ELSE f[i - 1] - (IF f[i - 1] > up[i][1] THEN up[i][2] ELSE 0)
  <2>1. i = 0 \/ i \in 1..n
    OBVIOUS
  <2>2. QED
    BY <2>1, <1>7, <1>8
<1>10. step(f)
  <2>1. f = [i \in 0..n |-> f[i]]
    OBVIOUS
  <2>2. QED
    BY <2>1, <1>4, <1>9
<1>11. step(back)
  BY <1>10
<1> HIDE DEF back
<1>12. back[0] = k /\ \A i \in 1..n :
          back[i] = back[i - 1] - (IF back[i - 1] > up[i][1] THEN up[i][2] ELSE 0)
  <2>1. \A i \in 0..n : back[i] = IF i = 0 THEN k
           ELSE back[i - 1] - (IF back[i - 1] > up[i][1] THEN up[i][2] ELSE 0)
    BY <1>4, <1>11
  <2>2. 0 \in 0..n /\ \A i \in 1..n : i \in 0..n /\ i # 0
    OBVIOUS
  <2>3. QED
    BY <2>1, <2>2
<1> DEFINE T == {i \in Nat : i <= n => back[i] = c + Total(cols, c)[n - i]}
<1>13. 0 \in T
  BY <1>5, <1>12 DEF k
<1>14. ASSUME NEW i \in Nat, i \in T
       PROVE  i + 1 \in T
  <2> SUFFICES ASSUME i + 1 <= n
               PROVE  back[i + 1] = c + Total(cols, c)[n - (i + 1)]
    OBVIOUS
  <2> DEFINE m == n - i
  <2>1. /\ m \in 1..n /\ n + 1 - (i + 1) = m /\ n - (i + 1) = m - 1
        /\ i + 1 \in 1..n /\ (i + 1) - 1 = i
    OBVIOUS
  <2>2. back[i] = c + Total(cols, c)[m]
    BY <1>14
  <2> HIDE DEF m
  <2>3. /\ back[i + 1] = back[i] - (IF back[i] > up[i + 1][1] THEN up[i + 1][2] ELSE 0)
        /\ up[i + 1] = cols[m]
    <3>1. back[i + 1] = back[(i + 1) - 1]
            - (IF back[(i + 1) - 1] > up[i + 1][1] THEN up[i + 1][2] ELSE 0)
      BY <2>1, <1>12
    <3>2. up[i + 1] = cols[n + 1 - (i + 1)]
      BY <2>1, <1>3
    <3>3. QED
      BY <3>1, <3>2, <2>1
  <2>4. /\ Total(cols, c)[m] = Total(cols, c)[m - 1] + Counts(cols, c, m)
        /\ Total(cols, c)[m - 1] \in Nat
    BY <2>1, <1>1, <1>2, SumIs
  <2>5. cols[m][1] \in Nat /\ cols[m][2] \in Nat \ {0}
    BY <2>1, <1>1, <1>2, RecordsAre
  <2>6. CASE c >= cols[m][1]
    <3>1. PICK t \in Nat, col \in Nat, len \in Nat \ {0} :
            t = Total(cols, c)[m - 1] /\ col = cols[m][1] /\ len = cols[m][2]
      BY <2>4, <2>5
    <3>2. Counts(cols, c, m) = len
      BY <3>1, <2>6 DEF Counts
    <3>3. back[i] = c + (t + len)
      BY <3>1, <3>2, <2>2, <2>4
    <3>4. c >= col
      BY <3>1, <2>6
    <3>5. c + (t + len) > col /\ c + (t + len) - len = c + t
      BY <3>4
    <3>6. back[i + 1] = back[i] - (IF back[i] > col THEN len ELSE 0)
      BY <3>1, <2>3
    <3>7. back[i + 1] = c + t
      BY <3>3, <3>5, <3>6
    <3>8. QED
      BY <3>1, <3>7, <2>1
  <2>7. CASE ~(c >= cols[m][1])
    <3>1. \A j \in 1..m : c < cols[j][1]
      <4>1. ASSUME NEW j \in 1..m PROVE c < cols[j][1]
        <5>1. j \in 1..n /\ j <= m /\ DOMAIN cols = 1..n /\ cols[j][1] \in Nat
          BY <2>1, <1>1, <1>2, RecordsAre
        <5>2. j = m \/ cols[m][1] < cols[j][1]
          BY <5>1, <2>1, <1>1 DEF Descending
        <5>3. QED
          BY <5>1, <5>2, <2>5, <2>7
      <4>2. QED
        BY <4>1
    <3>2. m \in 0..Len(cols)
      BY <2>1, <1>2
    <3>3. Total(cols, c)[m] = 0
      BY <3>1, <3>2, <1>1, NoneCounts
    <3>4. Counts(cols, c, m) = 0
      BY <2>7 DEF Counts
    <3>5. back[i] = c /\ ~(back[i] > cols[m][1]) /\ Total(cols, c)[m - 1] = 0
      <4>1. Total(cols, c)[m - 1] = 0
        BY <3>3, <3>4, <2>4
      <4>2. back[i] = c
        BY <3>3, <2>2
      <4>3. QED
        BY <4>1, <4>2, <2>5, <2>7
    <3>6. back[i + 1] = back[i] - 0
      BY <3>5, <2>3
    <3>7. QED
      BY <3>5, <3>6, <2>1
  <2>8. QED
    BY <2>6, <2>7
<1> HIDE DEF T
<1>15. n \in T
  <2>1. Nat \subseteq T
    BY <1>13, <1>14, Induction
  <2>2. QED
    BY <2>1
<1>16. back[n] = c
  <2>1. back[n] = c + Total(cols, c)[n - n]
    BY <1>15 DEF T
  <2>2. n - n = 0 /\ Total(cols, c)[0] = 0
    BY <1>1, SumIs
  <2>3. QED
    BY <2>1, <2>2
<1>17. MoveBack(up, k) = back[n]
  BY <1>4 DEF MoveBack, back
<1>18. ShiftBack(<<line + AddLines, k>>) = <<line, MoveBack(up, k)>>
  <2>1. AddLines \in Nat
    BY DEF AddLines
  <2>2. up = InOrderOfColumns(shift[line])
    BY DEF up, cols
  <2> DEFINE loc == <<line + AddLines, k>>
  <2>3. loc[1] - AddLines = line /\ loc[2] = k
    BY <2>1
  <2> HIDE DEF loc
  <2>4. ShiftBack(loc) = <<line, MoveBack(up, k)>>
    BY <2>2, <2>3 DEF ShiftBack
  <2>5. QED
    BY <2>4 DEF loc
<1>19. QED
  BY <1>16, <1>17, <1>18 DEF k, cols

----------------------------------------------------------------------------
(***************************************************************************)
(* The inductive invariant                                                 *)
(***************************************************************************)

InputOK ==
    /\ IsProgram(prog)
    /\ isI \in BOOLEAN /\ checkAll \in BOOLEAN
    /\ witness \in Seq(Seq(Waypoints))

\* The program counter.
StageOK ==
    /\ phase \in {"collect", "traverse", "waypoints", "insert", "done",
                  "rejected", "crashed"}
    /\ node \in 0..Len(prog.nodes)
    /\ seg \in 1..Len(witness) + 1 /\ way \in Nat \ {0} /\ sIndex \in Nat
    /\ bad \in Seq(Nat) /\ (bad # <<>> => checkAll)
    /\ phase \in {"collect", "traverse"} => seg = 1 /\ way = 1 /\ inserts = <<>>
    /\ phase \in {"insert", "done"} => seg = Len(witness) + 1 /\ bad = <<>>

\* What a dictionary may hold for a location: the calls that end there, the
\* full expressions that start there; for the others places of the text.
Ends == (DOMAIN prog.lines) \X Nat

CallAt(n, k) ==
    /\ Kind(n) = "call"
    /\ k[1] = End(n)[1] /\ k[2] \in {0, End(n)[2] - 1}
TargetAt(n, k) ==
    /\ IsExpression(n) /\ Full[n]
    /\ k[1] = Start(n)[1] /\ k[2] \in {0, Start(n)[2]}

CallsOK ==
    \A k \in DOMAIN calls :
        \/ calls[k] = None
        \/ \E n \in Nodes : CallAt(n, k) /\ calls[k] = Start(n)
TargetOK ==
    \A k \in DOMAIN target :
        \/ target[k] = None
        \/ \E n \in Nodes : TargetAt(n, k) /\ target[k] = <<Start(n), End(n)>>
AssumptionsOK ==
    \A k \in DOMAIN assumptions :
        assumptions[k] \in {None} \cup Spots(prog) \X Spots(prog) \X BOOLEAN
BranchingsOK ==
    /\ DOMAIN switches = DOMAIN branchings
    /\ \A k \in DOMAIN branchings :
          /\ branchings[k] \in {None} \cup Spots(prog) \X Ends \X Nat
          /\ switches[k] \in {None} \cup Spots(prog) \X Ends \X Nat

DictsOK == CallsOK /\ TargetOK /\ AssumptionsOK /\ BranchingsOK

\* Every waypoint has its key.
KeysOK ==
    phase # "collect" =>
        /\ DOMAIN calls = LocsOf({"call"})
        /\ DOMAIN target = LocsOf({"target"})
        /\ DOMAIN assumptions = LocsOf({"assumption"})
        /\ DOMAIN branchings = LocsOf({"branching"})

\* The waypoint of the rewritten witness, and whether transform is past it.
Now(p)  == content[p[1]][p[2]]
Past(p) == p[1] < seg \/ (p[1] = seg /\ p[2] < way)

\* Where the text has taken the start of a node.
Moved(n) == <<Start(n)[1] + AddLines,
              Start(n)[2] + ShiftSum(shift[Start(n)[1]], Start(n)[2])>>

ContentOK ==
    /\ DOMAIN content = DOMAIN witness
    /\ \A s \in DOMAIN witness : DOMAIN content[s] = DOMAIN witness[s]
    /\ \A p \in Positions :
          /\ Now(p).type = Way(p).type /\ Now(p).col \in Nat
          /\ phase # "done" => Now(p) \in Waypoints
          /\ phase # "done" /\ ~Past(p) => Now(p) = Way(p)
          /\ Way(p).type \in {"call", "target"} =>
                /\ phase # "done" /\ Past(p) /\ bad = <<>> =>
                      \E n \in Meant(Way(p)) : Loc(Now(p)) = Start(n)
                /\ phase = "done" => \E n \in Meant(Way(p)) : Loc(Now(p)) = Moved(n)

\* Every insertion is at a place of the text; only a .i file gets declarations.
OnlyDeclaredOn(l, value) == value = Declarations => isI /\ l = FirstDecl

InsertsOK ==
    /\ inserts \in Seq((DOMAIN prog.lines) \X (Nat \ {0}) \X Values)
    /\ \A i \in DOMAIN inserts : OnlyDeclaredOn(inserts[i][1], inserts[i][3])

Recorded(l) ==
    /\ shift[l] \in Records /\ Descending(shift[l])
    /\ phase \notin {"insert", "done"} => shift[l] = <<>>
    /\ phase = "insert" =>
          \A i \in DOMAIN inserts : inserts[i][1] = l =>
              \A j \in DOMAIN shift[l] : inserts[i][2] <= shift[l][j][1]

TextOK ==
    /\ DOMAIN cLines = DOMAIN prog.lines /\ DOMAIN shift = DOMAIN prog.lines
    /\ \A l \in DOMAIN prog.lines :
          /\ Recorded(l)
          /\ Placed(cLines[l], shift[l], l, Len(prog.lines[l]))
          /\ \A k \in DOMAIN cLines[l] : OnlyDeclaredOn(l, cLines[l][k].new)

WitnessInv ==
    InputOK /\ StageOK /\ DictsOK /\ KeysOK /\ ContentOK /\ InsertsOK /\ TextOK

----------------------------------------------------------------------------
(***************************************************************************)
(* What the program promises                                               *)
(***************************************************************************)

LEMMA LinesAre ==
    ASSUME IsProgram(prog)
    PROVE  /\ Len(prog.lines) \in Nat /\ DOMAIN prog.lines = 1..Len(prog.lines)
           /\ 1 \in DOMAIN prog.lines
           /\ \A l \in DOMAIN prog.lines :
                 Len(prog.lines[l]) \in Nat /\ DOMAIN prog.lines[l] = 1..Len(prog.lines[l])
<1>1. prog.lines \in Seq(Seq(STRING)) /\ prog.lines # <<>>
  BY DEF IsProgram
<1>2. Len(prog.lines) \in Nat /\ DOMAIN prog.lines = 1..Len(prog.lines) /\ Len(prog.lines) # 0
  BY <1>1
<1>3. ASSUME NEW l \in DOMAIN prog.lines PROVE prog.lines[l] \in Seq(STRING)
  BY <1>1
<1>4. QED
  BY <1>2, <1>3

LEMMA SpotsAre ==
    ASSUME IsProgram(prog), NEW s \in Spots(prog)
    PROVE  /\ s = <<s[1], s[2]>> /\ s[1] \in DOMAIN prog.lines
           /\ s[1] \in Nat \ {0} /\ s[2] \in Nat \ {0}
BY LinesAre DEF Spots

LEMMA NodesAre ==
    ASSUME IsProgram(prog)
    PROVE  /\ Len(prog.nodes) \in Nat /\ Nodes = DOMAIN prog.nodes
           /\ \A n \in Nodes :
                /\ Start(n) \in Spots(prog) /\ End(n) \in Spots(prog)
                /\ Start(n)[1] >= Start(1)[1]
                /\ Start(n)[2] \in DOMAIN prog.lines[Start(n)[1]]
                /\ Children(n) = ChildrenIn(prog, n)
                /\ Kind(n) \in {"if", "while", "switch", "paren"} =>
                      Cardinality(Children(n)) >= 1
                /\ Kind(n) \in {"do", "cond"} => Cardinality(Children(n)) >= 2
                /\ Kind(n) = "for" =>
                      IsToken(prog, prog.nodes[n].tokens[1])
                      /\ IsToken(prog, prog.nodes[n].tokens[2])
<1>1. Len(prog.nodes) \in Nat /\ Nodes = DOMAIN prog.nodes
  BY DEF IsProgram, Nodes
<1>2. ASSUME NEW n \in Nodes
      PROVE  Kind(n) = prog.nodes[n].kind /\ Children(n) = ChildrenIn(prog, n)
  <2>1. n # 0
    BY <1>1 DEF Nodes
  <2>2. QED
    BY <1>1, <2>1 DEF Kind, Children, ChildrenIn, Parent
<1>3. ASSUME NEW n \in Nodes
      PROVE  IsNode(prog, n)
  BY <1>1 DEF IsProgram
<1>4. ASSUME NEW n \in Nodes
      PROVE  /\ Start(n) \in Spots(prog) /\ End(n) \in Spots(prog)
             /\ Start(n)[1] >= Start(1)[1]
             /\ Start(n)[2] \in DOMAIN prog.lines[Start(n)[1]]
  BY <1>3 DEF IsNode, Start, End
<1>5. ASSUME NEW n \in Nodes
      PROVE  /\ Kind(n) \in {"if", "while", "switch", "paren"} =>
                   Cardinality(Children(n)) >= 1
             /\ Kind(n) \in {"do", "cond"} => Cardinality(Children(n)) >= 2
             /\ Kind(n) = "for" => IsToken(prog, prog.nodes[n].tokens[1])
                                   /\ IsToken(prog, prog.nodes[n].tokens[2])
  <2>1. 1 \in 1..2 /\ 2 \in 1..2
    OBVIOUS
  <2>2. QED
    BY <1>2, <1>3, <2>1 DEF IsNode
<1>6. QED
  BY <1>1, <1>2, <1>4, <1>5

LEMMA FirstDeclIs ==
    ASSUME IsProgram(prog)
    PROVE  FirstDecl \in DOMAIN prog.lines /\ FirstDecl \in Nat \ {0}
<1>1. CASE Nodes = {}
  BY <1>1, LinesAre DEF FirstDecl
<1>2. CASE Nodes # {}
  <2>1. 1 \in Nodes
    BY <1>2, NodesAre DEF Nodes
  <2>2. Start(1) \in Spots(prog)
    BY <2>1, NodesAre
  <2>3. QED
    BY <1>2, <2>2, SpotsAre DEF FirstDecl
<1>3. QED
  BY <1>1, <1>2

\* A node with children has a first one, one with two has a second one.
LEMMA ChildExists ==
    ASSUME IsProgram(prog), NEW n \in Nodes
    PROVE  /\ Cardinality(Children(n)) >= 1 =>
                 Child(n, 0) \in Children(n) /\ Index(Child(n, 0)) = 0
           /\ Cardinality(Children(n)) >= 2 =>
                 Child(n, 1) \in Children(n) /\ Index(Child(n, 1)) = 1
           /\ Children(n) \subseteq Nodes
<1> DEFINE C == Children(n)
<1>1. C \in SUBSET Nat /\ C \subseteq Nodes
  BY NodesAre DEF Children, Nodes
<1>2. \A m \in C : Index(m) = Cardinality({j \in C : j < m})
  BY DEF Index, Children
<1>3. (\E m \in C : Index(m) = 0) => Child(n, 0) \in C /\ Index(Child(n, 0)) = 0
  BY DEF Child
<1>4. (\E m \in C : Index(m) = 1) => Child(n, 1) \in C /\ Index(Child(n, 1)) = 1
  BY DEF Child
<1> HIDE DEF C
<1>0. Cardinality(C) \in Nat
  <2>1. IsFiniteSet(Nodes)
    BY NodesAre, FS_Interval DEF Nodes
  <2>2. IsFiniteSet(C)
    BY <1>1, <2>1, FS_Subset
  <2>3. QED
    BY <2>2, FS_CardinalityType
<1>5. ASSUME Cardinality(C) >= 1
      PROVE  \E m \in C : Index(m) = 0 /\ \A j \in C : m <= j
  <2>1. C # {}
    BY <1>5, FS_EmptySet
  <2>2. PICK m \in C : \A j \in C : m <= j
    BY <1>1, <2>1, Least
  <2>3. {j \in C : j < m} = {}
    <3>1. \A j \in C : ~(j < m)
      BY <1>1, <2>2
    <3>2. QED
      BY <3>1
  <2>4. QED
    BY <1>2, <2>2, <2>3, FS_EmptySet
<1>6. ASSUME Cardinality(C) >= 2
      PROVE  \E m \in C : Index(m) = 1
  <2>1. PICK first \in C : \A j \in C : first <= j
    BY <1>0, <1>5, <1>6
  <2>2. C \ {first} # {}
    <3>1. ASSUME C = {first} PROVE FALSE
      <4>1. Cardinality({first}) = 1
        BY FS_Singleton, Zenon
      <4>2. QED
        BY <3>1, <4>1, <1>6
    <3>2. QED
      BY <2>1, <3>1
  <2>3. PICK m \in C \ {first} : \A j \in C \ {first} : m <= j
    BY <1>1, <2>2, Least
  <2>4. {j \in C : j < m} = {first}
    <3>1. first < m
      BY <1>1, <2>1, <2>3
    <3>2. \A j \in C : j < m => j = first
      BY <1>1, <2>3
    <3>3. QED
      BY <2>1, <3>1, <3>2
  <2>5. QED
    BY <1>2, <2>3, <2>4, FS_Singleton
<1>7. QED
  BY <1>1, <1>3, <1>4, <1>5, <1>6 DEF C

\* There is a first question mark if there is one.
LEMMA FirstMark ==
    ASSUME IsProgram(prog), NEW a, NEW b, Marks(a, b) # {}
    PROVE  First(Marks(a, b)) \in Marks(a, b) /\ First(Marks(a, b))[2] \in Nat
<1> DEFINE M == Marks(a, b)
           rows == {p[1] : p \in M}
<1>1. \A p \in M : p = <<p[1], p[2]>> /\ p[1] \in Nat /\ p[2] \in Nat
  <2>1. ASSUME NEW l \in DOMAIN prog.lines, NEW p \in {l} \X DOMAIN prog.lines[l]
        PROVE  p = <<p[1], p[2]>> /\ p[1] \in Nat /\ p[2] \in Nat
    BY LinesAre
  <2>2. QED
    BY <2>1 DEF Marks, MarksIn
<1> HIDE DEF M
<1>2. PICK p1 \in M : \A p \in M : p1[1] <= p[1]
  <2>1. rows \in SUBSET Nat /\ rows # {}
    BY <1>1 DEF M
  <2>2. PICK r \in rows : \A s \in rows : r <= s
    BY <2>1, Least
  <2>3. PICK p \in M : p[1] = r
    BY <2>2
  <2>4. QED
    BY <2>2, <2>3
<1> DEFINE row == {p \in M : p[1] = p1[1]}
           columns == {p[2] : p \in row}
<1>3. PICK q \in row : \A p \in row : q[2] <= p[2]
  <2>1. columns \in SUBSET Nat /\ columns # {}
    BY <1>1, <1>2
  <2>2. PICK r \in columns : \A s \in columns : r <= s
    BY <2>1, Least
  <2>3. PICK p \in row : p[2] = r
    BY <2>2
  <2>4. QED
    BY <2>2, <2>3
<1>4. \A p \in M : q = p \/ Before(q, p)
  <2>1. ASSUME NEW p \in M PROVE q = p \/ Before(q, p)
    <3>1. q[1] <= p[1] /\ q[1] \in Nat /\ p[1] \in Nat /\ q[2] \in Nat /\ p[2] \in Nat
          /\ q = <<q[1], q[2]>> /\ p = <<p[1], p[2]>>
      BY <1>1, <1>2, <1>3
    <3>2. p[1] = q[1] => q[2] <= p[2]
      BY <1>2, <1>3
    <3>3. QED
      BY <3>1, <3>2 DEF Before
  <2>2. QED
    BY <2>1
<1>5. First(M) \in M
  BY <1>3, <1>4 DEF First
<1>6. QED
  BY <1>1, <1>5 DEF M

----------------------------------------------------------------------------
(***************************************************************************)
(* The places traverse_AST stores                                         *)
(***************************************************************************)

Infos == Spots(prog) \X Ends \X Nat

LEMMA BranchInfoIs ==
    ASSUME IsProgram(prog), NEW n \in Nodes, NEW m \in Nodes
    PROVE  BranchInfo(n, m) \in Infos
<1>1. Start(m) \in Spots(prog) /\ End(m) \in Spots(prog) /\ Start(n) \in Spots(prog)
  BY NodesAre
<1>2. End(m) \in Ends /\ Start(n)[2] \in Nat
  BY <1>1, SpotsAre DEF Ends
<1>3. QED
  BY <1>1, <1>2 DEF BranchInfo, Infos

LEMMA ForControlIs ==
    ASSUME IsProgram(prog), NEW n \in Nodes, Kind(n) = "for",
           Cardinality(Children(n)) >= 2
    PROVE  ForControl(n) \in Infos
<1> DEFINE first  == prog.nodes[n].tokens[1]
           second == prog.nodes[n].tokens[2]
           Ctrl(m) == <<Start(m), Plus(End(m), -1), Start(n)[2]>>
<1>1. Start(n)[2] \in Nat
  BY NodesAre, SpotsAre
<1>2. ASSUME NEW m \in Nodes
      PROVE  Ctrl(m) \in Infos
  <2>1. Start(m) \in Spots(prog) /\ End(m) \in Spots(prog)
    BY NodesAre
  <2>2. Plus(End(m), -1) \in Ends
    BY <2>1, SpotsAre DEF Plus, Ends
  <2>3. QED
    BY <1>1, <2>1, <2>2 DEF Infos
<1>3. <<second.start, Plus(second.end, -2), Start(n)[2]>> \in Infos
  <2>1. second.start \in Spots(prog) /\ second.end \in Spots(prog) /\ second.end[2] > 1
    BY NodesAre DEF IsToken
  <2>2. Plus(second.end, -2) \in Ends
    <3>1. second.end[2] - 2 \in Nat /\ second.end[1] \in DOMAIN prog.lines
      BY <2>1, SpotsAre
    <3>2. QED
      BY <3>1 DEF Plus, Ends
  <2>3. QED
    BY <1>1, <2>1, <2>2 DEF Infos
<1>4. Child(n, 0) \in Nodes /\ Child(n, 1) \in Nodes
  <2>1. IsFiniteSet(Children(n))
    <3>1. IsFiniteSet(Nodes)
      BY NodesAre, FS_Interval DEF Nodes
    <3>2. QED
      BY <3>1, ChildExists, FS_Subset
  <2>2. Cardinality(Children(n)) >= 1
    BY <2>1, FS_CardinalityType
  <2>3. QED
    BY <2>2, ChildExists
<1>5. ForControl(n) \in {<<second.start, Plus(second.end, -2), Start(n)[2]>>,
                         Ctrl(Child(n, 0)), Ctrl(Child(n, 1))}
  <2> HIDE DEF first
  <2>1. QED
    BY DEF ForControl, first
<1>6. QED
  BY <1>2, <1>3, <1>4, <1>5

LEMMA ControlIs ==
    ASSUME IsProgram(prog), NEW n \in Nodes, IsBranch(n), ~NoSuchChild(n)
    PROVE  Control(n) \in Infos
<1>1. CASE Kind(n) \in {"if", "while"}
  <2>1. Child(n, 0) \in Nodes
    BY <1>1, NodesAre, ChildExists
  <2>2. Control(n) = BranchInfo(n, Child(n, 0))
    BY <1>1 DEF Control
  <2>3. QED
    BY <2>1, <2>2, BranchInfoIs
<1>2. CASE Kind(n) = "do"
  <2>1. Child(n, 1) \in Nodes
    BY <1>2, NodesAre, ChildExists
  <2>2. Control(n) = BranchInfo(n, Child(n, 1))
    BY <1>2 DEF Control
  <2>3. QED
    BY <2>1, <2>2, BranchInfoIs
<1>3. CASE Kind(n) = "for"
  <2>1. Cardinality(Children(n)) >= 2
    <3>1. IsFiniteSet(Nodes)
      BY NodesAre, FS_Interval DEF Nodes
    <3>2. Cardinality(Children(n)) \in Nat
      BY <3>1, ChildExists, FS_Subset, FS_CardinalityType
    <3>3. QED
      BY <1>3, <3>2 DEF NoSuchChild
  <2>2. Control(n) = ForControl(n)
    BY <1>3 DEF Control
  <2>3. QED
    BY <1>3, <2>1, <2>2, ForControlIs
<1>4. QED
  BY <1>1, <1>2, <1>3 DEF IsBranch

LEMMA TernaryIs ==
    ASSUME IsProgram(prog), NEW n \in Nodes, Kind(n) = "cond"
    PROVE  LET cond == IF Kind(Child(n, 0)) = "paren" THEN Child(Child(n, 0), 0)
                                                       ELSE Child(n, 0)
           IN  cond \in Nodes
<1>1. Child(n, 0) \in Nodes
  <2>1. Cardinality(Children(n)) >= 2
    BY NodesAre
  <2>2. IsFiniteSet(Nodes)
    BY NodesAre, FS_Interval DEF Nodes
  <2>3. Cardinality(Children(n)) \in Nat
    BY <2>2, ChildExists, FS_Subset, FS_CardinalityType
  <2>4. Cardinality(Children(n)) >= 1
    BY <2>1, <2>3
  <2>5. QED
    BY <2>4, ChildExists
<1>2. ASSUME Kind(Child(n, 0)) = "paren"
      PROVE  Child(Child(n, 0), 0) \in Nodes
  <2> DEFINE m == Child(n, 0)
  <2>1. m \in Nodes /\ Kind(m) = "paren"
    BY <1>1, <1>2
  <2> HIDE DEF m
  <2>2. Child(m, 0) \in Nodes
    BY <2>1, NodesAre, ChildExists
  <2>3. QED
    BY <2>2 DEF m
<1>3. QED
  BY <1>1, <1>2

----------------------------------------------------------------------------
(***************************************************************************)
(* The input does not change                                               *)
(***************************************************************************)

LEMMA SameNodes ==
    ASSUME UNCHANGED prog
    PROVE  /\ Nodes' = Nodes /\ Full' = Full /\ Ends' = Ends /\ FirstDecl' = FirstDecl
           /\ Infos' = Infos
           /\ \A n : Kind(n)' = Kind(n) /\ Start(n)' = Start(n) /\ End(n)' = End(n)
           /\ \A n, k : CallAt(n, k)' <=> CallAt(n, k)
           /\ \A n, k : TargetAt(n, k)' <=> TargetAt(n, k)
<1>1. Nodes' = Nodes /\ \A n : Parent(n)' = Parent(n)
  BY DEF Nodes, Parent
<1>2. \A n : Kind(n)' = Kind(n) /\ Start(n)' = Start(n) /\ End(n)' = End(n)
  BY DEF Kind, Start, End
<1>3. \A n : IsExpression(n)' <=> IsExpression(n)
  BY <1>2 DEF IsExpression
<1>4. Full' = Full
  BY SMT DEF Full, Nodes, Parent, IsExpression, Kind
<1>5. Ends' = Ends
  BY DEF Ends
<1>6. FirstDecl' = FirstDecl
  BY <1>1, <1>2 DEF FirstDecl
<1>7. Infos' = Infos
  BY <1>5 DEF Infos
<1>8. \A n, k : CallAt(n, k)' <=> CallAt(n, k)
  BY <1>2 DEF CallAt
<1>9. \A n, k : TargetAt(n, k)' <=> TargetAt(n, k)
  BY <1>2, <1>3, <1>4 DEF TargetAt
<1>10. QED
  BY <1>1, <1>2, <1>4, <1>5, <1>6, <1>7, <1>8, <1>9

LEMMA SameWitness ==
    ASSUME UNCHANGED input
    PROVE  /\ Positions' = Positions
           /\ \A p : Way(p)' = Way(p)
           /\ \A types : LocsOf(types)' = LocsOf(types)
           /\ \A w : Meant(w)' = Meant(w)
           /\ AddLines' = AddLines
           /\ \A l, value : OnlyDeclaredOn(l, value)' <=> OnlyDeclaredOn(l, value)
<1>1. witness' = witness /\ prog' = prog /\ isI' = isI
  BY DEF input
<1>2. Positions' = Positions /\ \A p : Way(p)' = Way(p)
  BY <1>1 DEF Positions, Way
<1>3. ASSUME NEW types PROVE LocsOf(types)' = LocsOf(types)
  BY <1>1, Zenon DEF LocsOf, Positions, Way
<1>4. ASSUME NEW w PROVE Meant(w)' = Meant(w)
  <2>1. \A n : IsExpression(n)' <=> IsExpression(n)
    BY <1>1, SameNodes DEF IsExpression
  <2>2. QED
    BY <1>1, <2>1, SameNodes DEF Meant
<1>5. AddLines' = AddLines
  BY <1>1 DEF AddLines
<1>6. \A l, value : OnlyDeclaredOn(l, value)' <=> OnlyDeclaredOn(l, value)
  BY <1>1, SameNodes DEF OnlyDeclaredOn
<1>7. QED
  BY <1>2, <1>3, <1>4, <1>5, <1>6

----------------------------------------------------------------------------
(***************************************************************************)
(* What traverse_AST stores                                                *)
(***************************************************************************)

LEMMA VisitKeepsCalls ==
    ASSUME InputOK, CallsOK, NEW n \in Nodes, VisitCall(n), UNCHANGED prog
    PROVE  CallsOK' /\ DOMAIN calls' = DOMAIN calls
<1> DEFINE keys == Keys(calls, Plus(End(n), -1))
<1>1. CASE Kind(n) = "call"
  <2>1. calls' = [k \in DOMAIN calls |-> IF k \in keys THEN Start(n) ELSE calls[k]]
    BY <1>1 DEF VisitCall, Store
  <2>2. ASSUME NEW k \in keys PROVE CallAt(n, k)
    <3>1. End(n) \in Spots(prog)
      BY NodesAre DEF InputOK
    <3>2. k \in {<<End(n)[1], End(n)[2] - 1>>, <<End(n)[1], 0>>}
      BY <3>1 DEF Keys, Plus
    <3>3. QED
      BY <1>1, <3>2 DEF CallAt
  <2> HIDE DEF keys
  <2>3. \A k \in DOMAIN calls' : \/ calls'[k] = None
                                 \/ \E m \in Nodes : CallAt(m, k) /\ calls'[k] = Start(m)
    BY <2>1, <2>2 DEF CallsOK
  <2>4. QED
    BY <2>1, <2>3, SameNodes DEF CallsOK
<1>2. CASE Kind(n) # "call"
  BY <1>2, SameNodes DEF VisitCall, CallsOK
<1>3. QED
  BY <1>1, <1>2

LEMMA VisitKeepsAssumptions ==
    ASSUME InputOK, AssumptionsOK, NEW n \in Nodes, VisitAssumption(n), UNCHANGED prog
    PROVE  AssumptionsOK' /\ DOMAIN assumptions' = DOMAIN assumptions
<1> DEFINE block == Kind(n) = "compound"
           entry == <<IF block THEN Plus(Start(n), 1) ELSE Start(n), End(n),
                      Kind(Parent(n)) # "compound" /\ ~block>>
           Types == Spots(prog) \X Spots(prog) \X BOOLEAN
           keys  == Keys(assumptions, Start(n))
<1>1. entry \in Types
  <2>1. Start(n) \in Spots(prog) /\ End(n) \in Spots(prog)
    BY NodesAre DEF InputOK
  <2>2. Plus(Start(n), 1) \in Spots(prog)
    BY <2>1 DEF Plus, Spots
  <2>3. QED
    BY <2>1, <2>2
<1>2. assumptions' = IF IsStatement(n) THEN Store(assumptions, keys, entry) ELSE assumptions
  BY DEF VisitAssumption
<1> HIDE DEF entry, keys, Types
<1>3. \A k \in DOMAIN assumptions : assumptions[k] \in {None} \cup Types
  BY DEF AssumptionsOK, Types
<1>4. /\ DOMAIN assumptions' = DOMAIN assumptions
      /\ \A k \in DOMAIN assumptions' : assumptions'[k] \in {None} \cup Types
  BY <1>1, <1>2, <1>3 DEF Store
<1>5. QED
  BY <1>4 DEF AssumptionsOK, Types

LEMMA VisitKeepsTarget ==
    ASSUME InputOK, TargetOK, NEW n \in Nodes, VisitTarget(n), UNCHANGED prog
    PROVE  TargetOK' /\ DOMAIN target' = DOMAIN target
<1> DEFINE zero == <<Start(n)[1], 0>>
           hit  == \/ Start(n) \in DOMAIN target
                   \/ zero \in DOMAIN target /\ target[zero] = None
           key  == IF zero \in DOMAIN target THEN zero ELSE Start(n)
<1>1. CASE hit /\ IsExpression(n) /\ Full[n]
  <2>1. target' = [k \in DOMAIN target |->
                     IF k \in {key} THEN <<Start(n), End(n)>> ELSE target[k]]
    BY <1>1 DEF VisitTarget, Store
  <2>2. TargetAt(n, key)
    <3>1. Start(n) \in Spots(prog)
      BY NodesAre DEF InputOK
    <3>2. QED
      BY <1>1, <3>1 DEF TargetAt
  <2> HIDE DEF key
  <2>3. \A k \in DOMAIN target' :
           \/ target'[k] = None
           \/ \E m \in Nodes : TargetAt(m, k) /\ target'[k] = <<Start(m), End(m)>>
    BY <2>1, <2>2 DEF TargetOK
  <2>4. QED
    BY <2>1, <2>3, SameNodes DEF TargetOK
<1>2. CASE ~(hit /\ IsExpression(n) /\ Full[n])
  <2>1. target' = target
    BY <1>2 DEF VisitTarget
  <2>2. QED
    BY <2>1, SameNodes DEF TargetOK
<1>3. QED
  BY <1>1, <1>2

LEMMA VisitKeepsBranchings ==
    ASSUME InputOK, BranchingsOK, NEW n \in Nodes, VisitBranching(n), UNCHANGED prog,
           ~(NoSuchChild(n) /\ Keys(branchings, Start(n)) \cap DOMAIN branchings # {})
    PROVE  BranchingsOK' /\ DOMAIN branchings' = DOMAIN branchings
<1> DEFINE keys  == Keys(branchings, Start(n)) \cap DOMAIN branchings
           marks == Marks(End(Child(n, 0)), Start(Child(n, 1)))
           q     == First(marks)
           cond  == IF Kind(Child(n, 0)) = "paren" THEN Child(Child(n, 0), 0)
                                                    ELSE Child(n, 0)
           Typed(d) == /\ DOMAIN d = DOMAIN branchings
                       /\ \A k \in DOMAIN d : d[k] \in {None} \cup Infos
<1>1. Typed(branchings) /\ Typed(switches)
  BY DEF BranchingsOK, Infos
<1>2. ASSUME NEW d, Typed(d), NEW ks, NEW info \in Infos
      PROVE  Typed(Store(d, ks, info))
  BY <1>2 DEF Store
<1>3. CASE Kind(n) = "cond"
  <2>1. switches' = switches /\ branchings' = IF marks = {} THEN branchings
          ELSE Store(branchings, Keys(branchings, q), <<Start(cond), End(cond), q[2]>>)
    BY <1>3 DEF VisitBranching
  <2>2. ASSUME marks # {} PROVE <<Start(cond), End(cond), q[2]>> \in Infos
    <3>1. cond \in Nodes
      BY <1>3, TernaryIs DEF InputOK
    <3>2. q[2] \in Nat
      BY <2>2, FirstMark DEF InputOK
    <3> HIDE DEF cond, q
    <3>3. Start(cond) \in Spots(prog) /\ End(cond) \in Spots(prog)
      BY <3>1, NodesAre DEF InputOK
    <3>4. End(cond) \in Ends
      BY <3>3, SpotsAre DEF InputOK, Ends
    <3>5. QED
      BY <3>2, <3>3, <3>4 DEF Infos
  <2> HIDE DEF marks, q, cond
  <2>3. Typed(branchings')
    <3> HIDE DEF Typed
    <3>1. QED
      BY <2>1, <2>2, <1>1, <1>2
  <2>4. QED
    BY <2>1, <2>3, <1>1, SameNodes DEF BranchingsOK, Infos
<1>4. CASE Kind(n) # "cond"
  <2>1. branchings' = IF IsBranch(n) /\ keys # {} THEN Store(branchings, keys, Control(n))
                                                  ELSE branchings
    BY <1>4 DEF VisitBranching
  <2>2. switches' = IF Kind(n) = "switch" THEN Store(switches, keys, BranchInfo(n, Child(n, 0)))
                                          ELSE switches
    BY <1>4 DEF VisitBranching
  <2>3. ASSUME IsBranch(n), keys # {} PROVE Control(n) \in Infos
    BY <2>3, ControlIs DEF InputOK
  <2>4. ASSUME Kind(n) = "switch" PROVE BranchInfo(n, Child(n, 0)) \in Infos
    <3>1. Child(n, 0) \in Nodes
      BY <2>4, NodesAre, ChildExists DEF InputOK
    <3>2. QED
      BY <3>1, BranchInfoIs DEF InputOK
  <2> HIDE DEF keys
  <2>5. Typed(branchings') /\ Typed(switches')
    <3> HIDE DEF Typed
    <3>1. QED
      BY <2>1, <2>2, <2>3, <2>4, <1>1, <1>2
  <2>6. QED
    BY <2>5, SameNodes DEF BranchingsOK, Infos
<1>5. QED
  BY <1>3, <1>4

----------------------------------------------------------------------------
(***************************************************************************)
(* What a step leaves alone                                                *)
(***************************************************************************)

LEMMA SameInput ==
    ASSUME InputOK, UNCHANGED input
    PROVE  InputOK' /\ prog' = prog /\ witness' = witness /\ isI' = isI /\ checkAll' = checkAll
BY DEF InputOK, input

LEMMA SameDicts ==
    ASSUME DictsOK, UNCHANGED <<input, maps>>
    PROVE  DictsOK'
<1>1. /\ prog' = prog /\ calls' = calls /\ target' = target /\ switches' = switches
      /\ assumptions' = assumptions /\ branchings' = branchings
  BY DEF input, maps
<1>2. CallsOK'
  BY <1>1, SameNodes DEF DictsOK, CallsOK
<1>3. TargetOK'
  BY <1>1, SameNodes DEF DictsOK, TargetOK
<1>4. AssumptionsOK'
  BY <1>1 DEF DictsOK, AssumptionsOK
<1>5. BranchingsOK'
  BY <1>1, SameNodes DEF DictsOK, BranchingsOK
<1>6. QED
  BY <1>2, <1>3, <1>4, <1>5 DEF DictsOK

LEMMA SameKeys ==
    ASSUME KeysOK, phase # "collect", UNCHANGED input,
           DOMAIN calls' = DOMAIN calls, DOMAIN target' = DOMAIN target,
           DOMAIN assumptions' = DOMAIN assumptions, DOMAIN branchings' = DOMAIN branchings
    PROVE  KeysOK'
BY SameWitness DEF KeysOK

\* Nothing is done while transform stays at its waypoint.
LEMMA SameContent ==
    ASSUME ContentOK, UNCHANGED <<input, content, seg, way, bad>>,
           phase # "done", phase' # "done"
    PROVE  ContentOK'
<1>1. \A p : Now(p)' = Now(p) /\ (Past(p)' <=> Past(p))
  BY DEF Now, Past
<1>2. \A n : Start(n)' = Start(n)
  BY SameNodes DEF input
<1>3. witness' = witness /\ UNCHANGED input
  BY DEF input
<1>4. QED
  BY <1>1, <1>2, <1>3, SameWitness DEF ContentOK

LEMMA SameInserts ==
    ASSUME InsertsOK, UNCHANGED <<input, inserts>>
    PROVE  InsertsOK'
<1>1. prog' = prog /\ UNCHANGED input
  BY DEF input
<1>2. QED
  BY <1>1, SameWitness DEF InsertsOK

LEMMA SameText ==
    ASSUME TextOK, UNCHANGED <<input, text>>,
           phase' \notin {"insert", "done"} => phase \notin {"insert", "done"},
           phase' = "insert" => phase \notin {"insert", "done"}
    PROVE  TextOK'
<1>1. prog' = prog /\ UNCHANGED input /\ cLines' = cLines /\ shift' = shift
  BY DEF input, text
<1>2. ASSUME NEW l \in DOMAIN prog.lines
      PROVE  Recorded(l)'
  <2>1. shift[l] \in Records /\ Descending(shift[l])
    BY DEF TextOK, Recorded
  <2>2. phase \notin {"insert", "done"} => shift[l] = <<>>
    BY DEF TextOK, Recorded
  <2>3. phase' = "insert" => \A j \in DOMAIN shift[l] : FALSE
    BY <2>2
  <2>4. QED
    BY <1>1, <2>1, <2>2, <2>3 DEF Recorded
<1>3. QED
  BY <1>1, <1>2, SameWitness DEF TextOK

----------------------------------------------------------------------------
(***************************************************************************)
(* The first states                                                        *)
(***************************************************************************)

LEMMA SumOfNothing ==
    ASSUME NEW c \in Nat
    PROVE  <<>> \in Records /\ Descending(<<>>) /\ ShiftSum(<<>>, c) = 0
<1>1. <<>> \in Records /\ Descending(<<>>) /\ Len(<<>>) = 0
  BY DEF Records, Descending
<1>2. QED
  BY <1>1, SumIs

LEMMA InitWitnessInv == Init => WitnessInv
<1> SUFFICES ASSUME Init PROVE WitnessInv
  OBVIOUS
<1>1. InputOK
  BY InputsAssumption DEF Init, InputOK
<1>2. StageOK
  <2>1. Len(prog.nodes) \in Nat /\ Len(witness) \in Nat
    BY <1>1 DEF InputOK, IsProgram
  <2>2. <<>> \in Seq(Nat)
    OBVIOUS
  <2>3. QED
    BY <2>1, <2>2 DEF Init, StageOK
<1>3. DictsOK
  <2>1. /\ DOMAIN calls = {} /\ DOMAIN target = {} /\ DOMAIN assumptions = {}
        /\ DOMAIN branchings = {} /\ DOMAIN switches = {}
    BY DEF Init, None
  <2>2. QED
    BY <2>1 DEF DictsOK, CallsOK, TargetOK, AssumptionsOK, BranchingsOK
<1>4. KeysOK
  BY DEF Init, KeysOK
<1>5. ContentOK
  <2>1. content = witness /\ phase = "collect" /\ seg = 1 /\ way = 1
    BY DEF Init
  <2>2. ASSUME NEW p \in Positions
        PROVE  Way(p) \in Waypoints /\ ~Past(p)
    <3>1. PICK s \in DOMAIN witness : p \in {s} \X DOMAIN witness[s]
      BY DEF Positions
    <3>2. p[1] = s /\ p[2] \in DOMAIN witness[s] /\ witness[s] \in Seq(Waypoints) /\ s \in 1..Len(witness)
      BY <3>1, <1>1 DEF InputOK
    <3>3. witness[s][p[2]] \in Waypoints /\ p[2] \in 1..Len(witness[s]) /\ Len(witness[s]) \in Nat
      BY <3>2
    <3>4. Len(witness) \in Nat
      BY <1>1 DEF InputOK
    <3>5. QED
      BY <3>2, <3>3, <3>4, <2>1 DEF Way, Past
  <2>3. \A p \in Positions : Now(p) = Way(p)
    BY <2>1 DEF Now, Way
  <2>4. \A w \in Waypoints : w.col \in Nat
    BY DEF Waypoints
  <2>5. QED
    BY <2>1, <2>2, <2>3, <2>4 DEF ContentOK
<1>6. InsertsOK
  <2>1. inserts = <<>> /\ DOMAIN inserts = {}
    BY DEF Init
  <2>2. QED
    BY <2>1 DEF InsertsOK
<1>7. TextOK
  <2>1. /\ cLines = [l \in DOMAIN prog.lines |->
                       [c \in DOMAIN prog.lines[l] |-> Source(l, c)]]
        /\ shift = [l \in DOMAIN prog.lines |-> <<>>]
        /\ phase = "collect"
    BY DEF Init
  <2>2. IsProgram(prog)
    BY <1>1 DEF InputOK
  <2>3. ASSUME NEW l \in DOMAIN prog.lines
        PROVE  /\ Recorded(l)
               /\ Placed(cLines[l], shift[l], l, Len(prog.lines[l]))
               /\ \A k \in DOMAIN cLines[l] : OnlyDeclaredOn(l, cLines[l][k].new)
    <3> DEFINE n == Len(prog.lines[l])
               line == cLines[l]
    <3>1. n \in Nat /\ DOMAIN prog.lines[l] = 1..n /\ l \in Nat
      BY <2>2, LinesAre
    <3>2. line = [c \in 1..n |-> Source(l, c)]
      BY <2>1, <3>1
    <3>3. shift[l] = <<>>
      BY <2>1
    <3>4. \A c \in 1..n : Source(l, c) \in Chars /\ Source(l, c).new = None
      BY <3>1 DEF Source, Chars, None
    <3> HIDE DEF n, line
    <3>5. line \in Seq(Chars) /\ Len(line) = n /\ DOMAIN line = 1..n
      BY <3>1, <3>2, <3>4
    <3>6. Recorded(l)
      BY <2>1, <3>3, SumOfNothing DEF Recorded
    <3>7. \A c \in 1..n : ShiftSum(<<>>, c) = 0 /\ c + 0 = c
      BY <3>1, SumOfNothing
    <3>8. Placed(line, <<>>, l, n)
      BY <3>1, <3>2, <3>5, <3>7 DEF Placed
    <3>9. None # Declarations
      BY DEF None, Declarations
    <3>10. \A k \in DOMAIN line : OnlyDeclaredOn(l, line[k].new)
      BY <3>2, <3>4, <3>5, <3>9 DEF OnlyDeclaredOn
    <3>11. QED
      BY <3>3, <3>6, <3>8, <3>10 DEF n, line
  <2>4. QED
    BY <2>1, <2>3 DEF TextOK
<1>8. QED
  BY <1>1, <1>2, <1>3, <1>4, <1>5, <1>6, <1>7 DEF WitnessInv

----------------------------------------------------------------------------
(***************************************************************************)
(* One lemma for each action                                               *)
(***************************************************************************)

LEMMA StageIs ==
    ASSUME InputOK, StageOK
    PROVE  /\ Len(witness) \in Nat /\ DOMAIN witness = 1..Len(witness)
           /\ seg \in Nat \ {0} /\ way \in Nat \ {0}
           /\ \A s \in DOMAIN witness :
                 Len(witness[s]) \in Nat /\ DOMAIN witness[s] = 1..Len(witness[s])
<1>1. witness \in Seq(Seq(Waypoints))
  BY DEF InputOK
<1>2. Len(witness) \in Nat /\ DOMAIN witness = 1..Len(witness)
  BY <1>1
<1>3. ASSUME NEW s \in DOMAIN witness
      PROVE  Len(witness[s]) \in Nat /\ DOMAIN witness[s] = 1..Len(witness[s])
  <2>1. witness[s] \in Seq(Waypoints)
    BY <1>1, <1>2
  <2>2. QED
    BY <2>1
<1>4. QED
  BY <1>2, <1>3 DEF StageOK

LEMMA PositionsAre ==
    \A p : p \in Positions <=> \E s \in DOMAIN witness : \E i \in DOMAIN witness[s] : p = <<s, i>>
BY DEF Positions

LEMMA CollectKeeps ==
    ASSUME WitnessInv, Collect
    PROVE  WitnessInv'
<1>1. InputOK /\ StageOK /\ ContentOK /\ InsertsOK /\ TextOK
  BY DEF WitnessInv
<1>2. /\ UNCHANGED <<input, content, node, cursor, text>> /\ phase = "collect"
      /\ phase' \in {"traverse", "crashed"}
  BY DEF Collect
<1>3. /\ UNCHANGED input /\ seg' = seg /\ way' = way /\ bad' = bad /\ inserts' = inserts
      /\ sIndex' = sIndex /\ node' = node
  BY <1>2 DEF cursor
<1>4. InputOK' /\ prog' = prog /\ witness' = witness /\ checkAll' = checkAll
  BY <1>1, <1>3, SameInput
<1>5. StageOK'
  BY <1>1, <1>2, <1>3, <1>4 DEF StageOK
<1>6. /\ calls' = [l \in LocsOf({"call"}) |-> None]
      /\ assumptions' = [l \in LocsOf({"assumption"}) |-> None]
      /\ branchings' = [l \in LocsOf({"branching"}) |-> None]
      /\ switches' = [l \in LocsOf({"branching"}) |-> None]
      /\ target' = [l \in LocsOf({"target"}) |-> None]
  BY DEF Collect
<1>7. DictsOK'
  BY <1>6 DEF DictsOK, CallsOK, TargetOK, AssumptionsOK, BranchingsOK
<1>8. KeysOK'
  BY <1>3, <1>6, SameWitness DEF KeysOK
<1>9. ContentOK'
  BY <1>1, <1>2, <1>3, SameContent
<1>10. InsertsOK'
  BY <1>1, <1>3, SameInserts
<1>11. TextOK'
  BY <1>1, <1>2, SameText
<1>12. QED
  BY <1>4, <1>5, <1>7, <1>8, <1>9, <1>10, <1>11 DEF WitnessInv

LEMMA VisitKeeps ==
    ASSUME WitnessInv, Visit
    PROVE  WitnessInv'
<1>1. InputOK /\ StageOK /\ DictsOK /\ KeysOK /\ ContentOK /\ InsertsOK /\ TextOK
  BY DEF WitnessInv
<1>2. /\ UNCHANGED <<input, content, cursor, text>> /\ phase = "traverse"
      /\ phase' \in {"traverse", "crashed"} /\ node < Len(prog.nodes) /\ node' = node + 1
  BY DEF Visit
<1>3. /\ UNCHANGED input /\ seg' = seg /\ way' = way /\ bad' = bad /\ inserts' = inserts
      /\ sIndex' = sIndex
  BY <1>2 DEF cursor
<1>4. InputOK' /\ prog' = prog /\ witness' = witness /\ checkAll' = checkAll
  BY <1>1, <1>3, SameInput
<1>5. node' \in Nodes /\ node' \in 0..Len(prog.nodes)
  <2>1. node \in 0..Len(prog.nodes) /\ Len(prog.nodes) \in Nat
    BY <1>1, NodesAre DEF StageOK, InputOK
  <2>2. QED
    BY <1>2, <2>1 DEF Nodes
<1>6. StageOK'
  BY <1>1, <1>2, <1>3, <1>4, <1>5 DEF StageOK
<1>7. /\ DictsOK'
      /\ DOMAIN calls' = DOMAIN calls /\ DOMAIN target' = DOMAIN target
      /\ DOMAIN assumptions' = DOMAIN assumptions /\ DOMAIN branchings' = DOMAIN branchings
  <2>1. CASE NoSuchChild(node') /\ Keys(branchings, Start(node')) \cap DOMAIN branchings # {}
    <3>1. UNCHANGED maps
      BY <2>1 DEF Visit
    <3>2. DictsOK'
      BY <3>1, <1>1, <1>3, SameDicts
    <3>3. QED
      BY <3>1, <3>2 DEF maps
  <2>2. CASE ~(NoSuchChild(node') /\ Keys(branchings, Start(node')) \cap DOMAIN branchings # {})
    <3> DEFINE n == node'
    <3>1. VisitCall(n) /\ VisitAssumption(n) /\ VisitTarget(n) /\ VisitBranching(n)
      BY <2>2 DEF Visit
    <3>2. n \in Nodes /\ ~(NoSuchChild(n) /\ Keys(branchings, Start(n)) \cap DOMAIN branchings # {})
      BY <2>2, <1>5
    <3> HIDE DEF n
    <3>3. CallsOK' /\ DOMAIN calls' = DOMAIN calls
      BY <3>1, <3>2, <1>1, <1>4, VisitKeepsCalls DEF DictsOK
    <3>4. AssumptionsOK' /\ DOMAIN assumptions' = DOMAIN assumptions
      BY <3>1, <3>2, <1>1, <1>4, VisitKeepsAssumptions DEF DictsOK
    <3>5. TargetOK' /\ DOMAIN target' = DOMAIN target
      BY <3>1, <3>2, <1>1, <1>4, VisitKeepsTarget DEF DictsOK
    <3>6. BranchingsOK' /\ DOMAIN branchings' = DOMAIN branchings
      BY <3>1, <3>2, <1>1, <1>4, VisitKeepsBranchings DEF DictsOK
    <3>7. QED
      BY <3>3, <3>4, <3>5, <3>6 DEF DictsOK
  <2>3. QED
    BY <2>1, <2>2
<1>8. KeysOK'
  BY <1>1, <1>2, <1>3, <1>7, SameKeys
<1>9. ContentOK'
  BY <1>1, <1>2, <1>3, SameContent
<1>10. InsertsOK'
  BY <1>1, <1>3, SameInserts
<1>11. TextOK'
  BY <1>1, <1>2, SameText
<1>12. QED
  BY <1>4, <1>6, <1>7, <1>8, <1>9, <1>10, <1>11 DEF WitnessInv

LEMMA EndTraversalKeeps ==
    ASSUME WitnessInv, EndTraversal
    PROVE  WitnessInv'
<1>1. InputOK /\ StageOK /\ DictsOK /\ KeysOK /\ ContentOK /\ InsertsOK /\ TextOK
  BY DEF WitnessInv
<1>2. UNCHANGED <<input, content, node, maps, cursor, text>>
      /\ phase = "traverse" /\ phase' = "waypoints"
  BY DEF EndTraversal
<1>3. /\ UNCHANGED input /\ seg' = seg /\ way' = way /\ bad' = bad /\ inserts' = inserts
      /\ sIndex' = sIndex /\ node' = node
  BY <1>2 DEF cursor
<1>4. InputOK' /\ prog' = prog /\ witness' = witness /\ checkAll' = checkAll
  BY <1>1, <1>3, SameInput
<1>5. StageOK'
  BY <1>1, <1>2, <1>3, <1>4 DEF StageOK
<1>6. DictsOK' /\ KeysOK'
  BY <1>1, <1>2, <1>3, SameDicts, SameKeys DEF maps
<1>7. ContentOK'
  BY <1>1, <1>2, <1>3, SameContent
<1>8. InsertsOK'
  BY <1>1, <1>3, SameInserts
<1>9. TextOK'
  BY <1>1, <1>2, SameText
<1>10. QED
  BY <1>4, <1>5, <1>6, <1>7, <1>8, <1>9 DEF WitnessInv

\* The waypoint transform looks at is still as it was read, and has its key.
LEMMA HereIs ==
    ASSUME WitnessInv, NEW type, Here(type)
    PROVE  /\ <<seg, way>> \in Positions /\ seg \in DOMAIN content /\ way \in DOMAIN content[seg]
           /\ Waypoint = Way(<<seg, way>>) /\ Now(<<seg, way>>) = Way(<<seg, way>>)
           /\ Waypoint \in Waypoints /\ Waypoint.type = type
           /\ WLoc \in LocsOf({type})
           /\ \A p \in Positions : p = <<seg, way>> \/ Past(p) <=> p[1] < seg \/ (p[1] = seg /\ p[2] < way + 1)
<1>1. InputOK /\ StageOK /\ ContentOK
  BY DEF WitnessInv
<1>2. seg <= Len(content) /\ way <= Len(content[seg]) /\ phase = "waypoints"
  BY DEF Here
<1>3. Len(content) = Len(witness) /\ DOMAIN content = 1..Len(witness)
  <2>1. DOMAIN content = 1..Len(witness) /\ Len(witness) \in Nat
    BY <1>1, StageIs DEF ContentOK
  <2>2. QED
    BY <2>1
<1>4. seg \in DOMAIN witness /\ seg \in DOMAIN content
  BY <1>1, <1>2, <1>3, StageIs
<1>5. DOMAIN content[seg] = 1..Len(witness[seg]) /\ Len(witness[seg]) \in Nat
  BY <1>1, <1>4, StageIs DEF ContentOK
<1>6. way \in DOMAIN witness[seg] /\ way \in DOMAIN content[seg]
  <2>1. Len(content[seg]) = Len(witness[seg])
    BY <1>5
  <2>2. QED
    BY <1>1, <1>2, <1>4, <1>5, <2>1, StageIs
<1> DEFINE p0 == <<seg, way>>
<1>7. p0 \in Positions /\ p0[1] = seg /\ p0[2] = way
  BY <1>4, <1>6, PositionsAre
<1>8. ~Past(p0)
  BY <1>1, <1>7, StageIs DEF Past
<1>9. Now(p0) = Waypoint
  BY <1>7 DEF Now, Waypoint
<1> HIDE DEF p0
<1>10. Now(p0) = Way(p0) /\ Now(p0) \in Waypoints
  BY <1>1, <1>2, <1>7, <1>8 DEF ContentOK
<1>11. Waypoint.type = type
  BY DEF Here, Waypoint
<1>12. WLoc \in LocsOf({type})
  <2>1. Way(p0).type \in {type} /\ WLoc = Loc(Way(p0))
    BY <1>9, <1>10, <1>11 DEF WLoc
  <2>2. QED
    BY <1>7, <2>1 DEF LocsOf
<1>13. ASSUME NEW p \in Positions
       PROVE  p = p0 \/ Past(p) <=> p[1] < seg \/ (p[1] = seg /\ p[2] < way + 1)
  <2>0. PICK s \in DOMAIN witness : \E i \in DOMAIN witness[s] : p = <<s, i>>
    BY PositionsAre
  <2>1. PICK i \in DOMAIN witness[s] : p = <<s, i>>
    BY <2>0
  <2>2. s \in Nat /\ i \in Nat /\ seg \in Nat /\ way \in Nat /\ p[1] = s /\ p[2] = i
    BY <2>1, <1>1, StageIs
  <2>3. p = p0 <=> s = seg /\ i = way
    BY <2>1 DEF p0
  <2>4. QED
    BY <2>2, <2>3 DEF Past
<1>14. QED
  BY <1>4, <1>6, <1>7, <1>9, <1>10, <1>11, <1>12, <1>13 DEF p0

\* One waypoint further: the others stay as they are.
LEMMA ContentStep ==
    ASSUME WitnessInv, NEW type, Here(type), UNCHANGED input,
           seg' = seg, way' = way + 1, phase' = "waypoints",
           bad' = <<>> => bad = <<>>,
           DOMAIN content' = DOMAIN content,
           \A s \in DOMAIN content : DOMAIN content'[s] = DOMAIN content[s],
           \A p \in Positions : p # <<seg, way>> => Now(p)' = Now(p),
           content'[seg][way] \in Waypoints, content'[seg][way].type = type,
           type \in {"call", "target"} /\ bad' = <<>> =>
              \E n \in Meant(Waypoint) : Loc(content'[seg][way]) = Start(n)
    PROVE  ContentOK'
<1>0. PICK p0 : p0 = <<seg, way>>
  OBVIOUS
<1>1. /\ p0 \in Positions /\ Waypoint = Way(p0) /\ Now(p0) = Way(p0) /\ Way(p0).type = type
      /\ \A p \in Positions : p = p0 \/ Past(p) <=> Past(p)'
  BY <1>0, HereIs DEF Past
<1>2. ContentOK /\ phase = "waypoints"
  BY DEF WitnessInv, Here
<1>3. witness' = witness /\ prog' = prog
  BY DEF input
<1>4. Now(p0)' = content'[seg][way]
  BY <1>0 DEF Now
<1>5. \A n : Start(n)' = Start(n)
  BY <1>3, SameNodes
<1>6. \A w \in Waypoints : w.col \in Nat
  BY DEF Waypoints
<1>7. ASSUME NEW p \in Positions
      PROVE  /\ Now(p)'.type = Way(p).type /\ Now(p)'.col \in Nat
             /\ Now(p)' \in Waypoints
             /\ ~Past(p)' => Now(p)' = Way(p)
             /\ Way(p).type \in {"call", "target"} /\ Past(p)' /\ bad' = <<>> =>
                   \E n \in Meant(Way(p)) : Loc(Now(p)') = Start(n)
  <2>1. CASE p = p0
    <3>1. Past(p)'
      BY <1>1, <2>1
    <3>2. QED
      BY <3>1, <2>1, <1>1, <1>4, <1>6
  <2>2. CASE p # p0
    <3>1. Now(p)' = Now(p) /\ (Past(p)' <=> Past(p))
      BY <2>2, <1>0, <1>1
    <3>2. QED
      BY <3>1, <1>2 DEF ContentOK
  <2>3. QED
    BY <2>1, <2>2
<1>8. DOMAIN content = DOMAIN witness /\ \A s \in DOMAIN witness : DOMAIN content[s] = DOMAIN witness[s]
  BY <1>2 DEF ContentOK
<1>9. ASSUME NEW p \in Positions
      PROVE  Loc(Now(p))' = Loc(Now(p)')
  BY DEF Loc
<1>10. QED
  BY <1>3, <1>5, <1>7, <1>8, <1>9, SameWitness DEF ContentOK

\* The dictionaries and the text are as they were.
LEMMA WaypointKeeps ==
    ASSUME WitnessInv, NEW type, Here(type), UNCHANGED <<input, node, maps, text>>,
           StageOK', ContentOK', InsertsOK', phase' \in {"waypoints", "rejected"}
    PROVE  WitnessInv'
<1>1. InputOK /\ DictsOK /\ KeysOK /\ TextOK /\ phase = "waypoints"
  BY DEF WitnessInv, Here
<1>2. InputOK' /\ UNCHANGED input
  BY <1>1, SameInput DEF input
<1>3. DictsOK' /\ KeysOK'
  BY <1>1, SameDicts, SameKeys DEF maps
<1>4. TextOK'
  BY <1>1, SameText
<1>5. QED
  BY <1>2, <1>3, <1>4 DEF WitnessInv

LEMMA InvalidLocationKeeps ==
    ASSUME WitnessInv, InvalidLocation
    PROVE  WitnessInv'
<1>1. PICK type \in {"call", "target", "assumption", "branching"} : Here(type)
  BY DEF InvalidLocation
<1>2. InputOK /\ StageOK /\ ContentOK /\ InsertsOK /\ phase = "waypoints"
  BY <1>1 DEF WitnessInv, Here
<1>3. UNCHANGED <<input, content, node, maps, seg, covered, inserts, text>>
  BY DEF InvalidLocation
<1>4. prog' = prog /\ witness' = witness /\ checkAll' = checkAll /\ UNCHANGED input
  BY <1>3 DEF input
<1>5. InsertsOK'
  BY <1>2, <1>3, SameInserts
<1>6. CASE checkAll
  <2>1. bad' = Append(bad, sIndex) /\ sIndex' = sIndex + 1 /\ way' = way + 1 /\ phase' = phase
    BY <1>6 DEF InvalidLocation
  <2>2. bad' \in Seq(Nat) /\ bad' # <<>>
    BY <2>1, <1>2 DEF StageOK
  <2>3. StageOK'
    BY <2>1, <2>2, <1>2, <1>3, <1>4, <1>6 DEF StageOK
  <2>4. ContentOK'
    <3>1. content' = content /\ seg' = seg
      BY <1>3
    <3>2. \A p : Now(p)' = Now(p)
      BY <3>1 DEF Now
    <3>3. content[seg][way] \in Waypoints /\ content[seg][way].type = type
      BY <1>1, HereIs DEF Waypoint
    <3>4. QED
      BY <3>1, <3>2, <3>3, <2>1, <2>2, <1>1, <1>2, <1>4, ContentStep
  <2>5. QED
    BY <2>1, <2>3, <2>4, <1>1, <1>2, <1>3, <1>5, WaypointKeeps
<1>7. CASE ~checkAll
  <2>1. phase' = "rejected" /\ UNCHANGED <<bad, sIndex, way>>
    BY <1>7 DEF InvalidLocation
  <2>2. StageOK'
    BY <2>1, <1>2, <1>3, <1>4 DEF StageOK
  <2>3. ContentOK'
    BY <2>1, <1>2, <1>3, SameContent
  <2>4. QED
    BY <2>1, <2>2, <2>3, <1>1, <1>3, <1>5, WaypointKeeps
<1>8. QED
  BY <1>6, <1>7

LEMMA StageStep ==
    ASSUME WitnessInv, NEW type, Here(type), UNCHANGED <<input, node, sIndex>>, NextWaypoint
    PROVE  StageOK' /\ phase' = "waypoints"
<1>1. StageOK /\ phase = "waypoints"
  BY DEF WitnessInv, Here
<1>2. prog' = prog /\ witness' = witness /\ checkAll' = checkAll
  BY DEF input
<1>3. QED
  BY <1>1, <1>2 DEF StageOK, NextWaypoint

\* The location is rewritten to the start of the call.
LEMMA CallWaypointKeeps ==
    ASSUME WitnessInv, CallWaypoint
    PROVE  WitnessInv'
<1>1. Here("call") /\ ~Invalid(Waypoint) /\ NextWaypoint
  BY DEF CallWaypoint
<1>2. UNCHANGED <<input, node, maps, sIndex, covered, inserts, text>> /\ UNCHANGED input
  BY DEF CallWaypoint
<1>3. CallsOK /\ KeysOK /\ InsertsOK /\ InputOK /\ phase = "waypoints"
  BY <1>1 DEF WitnessInv, DictsOK, Here
<1>4. /\ Waypoint \in Waypoints /\ Waypoint.type = "call" /\ WLoc \in DOMAIN calls
      /\ seg \in DOMAIN content /\ way \in DOMAIN content[seg] /\ Waypoint = content[seg][way]
  BY <1>1, <1>3, HereIs DEF KeysOK, Waypoint
<1>5. calls[WLoc] # None
  BY <1>1, <1>4 DEF Invalid, WLoc
<1>6. PICK n \in Nodes : CallAt(n, WLoc) /\ calls[WLoc] = Start(n)
  BY <1>3, <1>4, <1>5 DEF CallsOK
<1>7. content' = [content EXCEPT ![seg][way].line = Start(n)[1],
                                 ![seg][way].col  = Start(n)[2]]
  BY <1>6 DEF CallWaypoint
<1>8. Start(n) = <<Start(n)[1], Start(n)[2]>> /\ Start(n)[1] \in Nat /\ Start(n)[2] \in Nat
  BY <1>3, NodesAre, SpotsAre DEF InputOK
<1> DEFINE new == [Waypoint EXCEPT !.line = Start(n)[1], !.col = Start(n)[2]]
<1>9. new \in Waypoints /\ new.type = "call" /\ Loc(new) = Start(n)
  BY <1>4, <1>8 DEF Waypoints, Loc
<1>10. content' = [content EXCEPT ![seg] = [content[seg] EXCEPT ![way] = new]]
  BY <1>4, <1>7
<1> HIDE DEF new
<1>11. /\ DOMAIN content' = DOMAIN content
       /\ \A s \in DOMAIN content : DOMAIN content'[s] = DOMAIN content[s]
       /\ content'[seg][way] = new
  BY <1>4, <1>10
<1>12. \A p \in Positions : p # <<seg, way>> => Now(p)' = Now(p)
  <2>1. ASSUME NEW s \in DOMAIN witness, NEW i \in DOMAIN witness[s], <<s, i>> # <<seg, way>>
        PROVE  content'[s][i] = content[s][i]
    <3>1. s \in DOMAIN content /\ i \in DOMAIN content[s]
      BY DEF WitnessInv, ContentOK
    <3>2. QED
      BY <3>1, <2>1, <1>4, <1>10
  <2>2. QED
    BY <2>1, PositionsAre DEF Now
<1>13. n \in Meant(Waypoint)
  <2>1. Waypoint.line = End(n)[1] /\ Waypoint.col \in {0, End(n)[2] - 1} /\ Kind(n) = "call"
    BY <1>6 DEF CallAt, WLoc, Loc
  <2>2. Names(Waypoint, Plus(End(n), -1))
    <3>1. End(n)[2] - 1 = End(n)[2] + -1
      BY <1>3, NodesAre, SpotsAre DEF InputOK
    <3>2. QED
      BY <2>1, <3>1 DEF Names, Plus
  <2>3. QED
    BY <2>1, <2>2, <1>4 DEF Meant
<1>14. StageOK' /\ phase' = "waypoints" /\ seg' = seg /\ way' = way + 1 /\ bad' = bad
  BY <1>1, <1>2, StageStep DEF NextWaypoint
<1>15. ContentOK'
  BY <1>1, <1>2, <1>9, <1>11, <1>12, <1>13, <1>14, ContentStep
<1>16. InsertsOK'
  BY <1>2, <1>3, SameInserts
<1>17. QED
  BY <1>1, <1>2, <1>14, <1>15, <1>16, WaypointKeeps

\* The location is completed to the start of the expression.
LEMMA TargetWaypointKeeps ==
    ASSUME WitnessInv, TargetWaypoint
    PROVE  WitnessInv'
<1>1. Here("target") /\ ~Invalid(Waypoint) /\ NextWaypoint
  BY DEF TargetWaypoint
<1>2. UNCHANGED <<input, node, maps, sIndex, covered, inserts, text>> /\ UNCHANGED input
  BY DEF TargetWaypoint
<1>3. TargetOK /\ KeysOK /\ InsertsOK /\ InputOK /\ phase = "waypoints"
  BY <1>1 DEF WitnessInv, DictsOK, Here
<1>4. /\ Waypoint \in Waypoints /\ Waypoint.type = "target" /\ WLoc \in DOMAIN target
      /\ seg \in DOMAIN content /\ way \in DOMAIN content[seg] /\ Waypoint = content[seg][way]
  BY <1>1, <1>3, HereIs DEF KeysOK, Waypoint
<1>5. target[WLoc] # None
  BY <1>1, <1>4 DEF Invalid, WLoc
<1>6. PICK n \in Nodes : TargetAt(n, WLoc) /\ target[WLoc] = <<Start(n), End(n)>>
  BY <1>3, <1>4, <1>5 DEF TargetOK
<1>7. content' = [content EXCEPT ![seg][way].col  = Start(n)[2],
                                 ![seg][way].loc2 = End(n)]
  BY <1>6 DEF TargetWaypoint
<1>8. /\ Start(n) = <<Start(n)[1], Start(n)[2]>> /\ Start(n)[1] \in Nat /\ Start(n)[2] \in Nat
      /\ End(n) \in Nat \X Nat
  BY <1>3, NodesAre, SpotsAre DEF InputOK
<1> DEFINE new == [Waypoint EXCEPT !.col = Start(n)[2], !.loc2 = End(n)]
<1>9. Waypoint.line = Start(n)[1] /\ Waypoint.col \in {0, Start(n)[2]}
      /\ IsExpression(n) /\ Full[n]
  BY <1>6 DEF TargetAt, WLoc, Loc
<1>10. new \in Waypoints /\ new.type = "target" /\ Loc(new) = Start(n)
  BY <1>4, <1>8, <1>9 DEF Waypoints, Loc
<1>11. content' = [content EXCEPT ![seg] = [content[seg] EXCEPT ![way] = new]]
  BY <1>4, <1>7
<1> HIDE DEF new
<1>12. /\ DOMAIN content' = DOMAIN content
       /\ \A s \in DOMAIN content : DOMAIN content'[s] = DOMAIN content[s]
       /\ content'[seg][way] = new
  BY <1>4, <1>11
<1>13. \A p \in Positions : p # <<seg, way>> => Now(p)' = Now(p)
  <2>1. ASSUME NEW s \in DOMAIN witness, NEW i \in DOMAIN witness[s], <<s, i>> # <<seg, way>>
        PROVE  content'[s][i] = content[s][i]
    <3>1. s \in DOMAIN content /\ i \in DOMAIN content[s]
      BY DEF WitnessInv, ContentOK
    <3>2. QED
      BY <3>1, <2>1, <1>4, <1>11
  <2>2. QED
    BY <2>1, PositionsAre DEF Now
<1>14. n \in Meant(Waypoint)
  BY <1>4, <1>9 DEF Meant, Names
<1>15. StageOK' /\ phase' = "waypoints" /\ seg' = seg /\ way' = way + 1 /\ bad' = bad
  BY <1>1, <1>2, StageStep DEF NextWaypoint
<1>16. ContentOK'
  BY <1>1, <1>2, <1>10, <1>12, <1>13, <1>14, <1>15, ContentStep
<1>17. InsertsOK'
  BY <1>2, <1>3, SameInserts
<1>18. QED
  BY <1>1, <1>2, <1>15, <1>16, <1>17, WaypointKeeps

\* Two more insertions in the list.
LEMMA TwoInserts ==
    ASSUME WitnessInv, UNCHANGED input,
           NEW more \in Seq((DOMAIN prog.lines) \X (Nat \ {0}) \X Values),
           \A i \in DOMAIN more : more[i][3] # Declarations,
           inserts' = inserts \o more
    PROVE  InsertsOK'
<1> DEFINE Items == (DOMAIN prog.lines) \X (Nat \ {0}) \X Values
<1>1. inserts \in Seq(Items) /\ \A i \in DOMAIN inserts : OnlyDeclaredOn(inserts[i][1], inserts[i][3])
  BY DEF WitnessInv, InsertsOK
<1>2. more \in Seq(Items) /\ prog' = prog
  BY DEF input
<1> HIDE DEF Items
<1>3. /\ inserts' \in Seq(Items) /\ Len(inserts') = Len(inserts) + Len(more)
      /\ \A i \in 1..Len(inserts) + Len(more) :
            inserts'[i] = IF i <= Len(inserts) THEN inserts[i] ELSE more[i - Len(inserts)]
  BY <1>1, <1>2, ConcatProperties
<1>4. /\ Len(inserts) \in Nat /\ DOMAIN inserts = 1..Len(inserts)
      /\ Len(more) \in Nat /\ DOMAIN more = 1..Len(more)
      /\ DOMAIN inserts' = 1..Len(inserts) + Len(more)
  BY <1>1, <1>2, <1>3
<1>5. ASSUME NEW i \in DOMAIN inserts'
      PROVE  OnlyDeclaredOn(inserts'[i][1], inserts'[i][3])
  <2>1. CASE i <= Len(inserts)
    <3>1. i \in DOMAIN inserts /\ inserts'[i] = inserts[i]
      BY <2>1, <1>3, <1>4
    <3>2. QED
      BY <3>1, <1>1
  <2>2. CASE ~(i <= Len(inserts))
    <3>1. i - Len(inserts) \in DOMAIN more /\ inserts'[i] = more[i - Len(inserts)]
      BY <2>2, <1>3, <1>4
    <3>2. QED
      BY <3>1 DEF OnlyDeclaredOn
  <2>3. QED
    BY <2>1, <2>2
<1>6. \A l, value : OnlyDeclaredOn(l, value)' <=> OnlyDeclaredOn(l, value)
  BY SameWitness
<1>7. QED
  BY <1>2, <1>3, <1>5, <1>6 DEF InsertsOK, Items

LEMMA AssumptionWaypointKeeps ==
    ASSUME WitnessInv, AssumptionWaypoint
    PROVE  WitnessInv'
<1>1. Here("assumption") /\ ~Invalid(Waypoint) /\ NextWaypoint
  BY DEF AssumptionWaypoint
<1>2. UNCHANGED <<input, content, node, maps, sIndex, covered, text>> /\ UNCHANGED input
  BY DEF AssumptionWaypoint
<1>3. AssumptionsOK /\ KeysOK /\ StageOK /\ InputOK /\ phase = "waypoints"
  BY <1>1 DEF WitnessInv, DictsOK, Here
<1>4. /\ Waypoint \in Waypoints /\ Waypoint.type = "assumption" /\ WLoc \in DOMAIN assumptions
      /\ Waypoint = content[seg][way]
  BY <1>1, <1>3, HereIs DEF KeysOK, Waypoint
<1>5. assumptions[WLoc] # None
  BY <1>1, <1>4 DEF Invalid, WLoc
<1>6. assumptions[WLoc] \in Spots(prog) \X Spots(prog) \X BOOLEAN
  BY <1>3, <1>4, <1>5 DEF AssumptionsOK
<1> DEFINE start   == assumptions[WLoc][1]
           end     == assumptions[WLoc][2]
           bracket == assumptions[WLoc][3]
           call    == CreateAssumption(Waypoint.constraint, sIndex,
                                       Waypoint.action # "avoid", bracket)
           Items   == (DOMAIN prog.lines) \X (Nat \ {0}) \X Values
           brace   == <<end[1], end[2] + 1, Brace>>
           item    == <<start[1], start[2], call>>
<1>7. start \in Spots(prog) /\ end \in Spots(prog)
  BY <1>6
<1>8. call \in Values /\ call # Declarations
  <2>1. Waypoint.constraint \in Nat /\ sIndex \in Nat
    BY <1>3, <1>4 DEF Waypoints, StageOK
  <2>2. QED
    BY <2>1 DEF CreateAssumption, Values, Declarations, None
<1>9. Brace \in Values /\ Brace # Declarations
  BY DEF Brace, Values, Declarations, None
<1> HIDE DEF call, start, end, bracket
<1>10. brace \in Items /\ item \in Items
  BY <1>3, <1>7, <1>8, <1>9, SpotsAre DEF InputOK
<1> HIDE DEF Items
<1> DEFINE opt  == IF bracket THEN <<brace>> ELSE <<>>
           more == opt \o <<item>>
<1>11. opt \in Seq(Items) /\ <<item>> \in Seq(Items)
  BY <1>10
<1>12. inserts' = inserts \o more
  <2>1. inserts' = (inserts \o opt) \o <<item>>
    BY DEF AssumptionWaypoint, start, end, bracket, call
  <2>2. inserts \in Seq(Items)
    BY DEF WitnessInv, InsertsOK, Items
  <2> HIDE DEF opt, item
  <2>3. QED
    BY <2>1, <2>2, <1>11, ConcatAssociative
<1>13. more \in Seq(Items) /\ \A i \in DOMAIN more : more[i][3] # Declarations
  <2>1. brace[3] # Declarations /\ item[3] # Declarations
    BY <1>8, <1>9
  <2> HIDE DEF brace, item
  <2>2. \A i \in 1..Len(opt) : opt[i] = brace
    OBVIOUS
  <2> HIDE DEF opt
  <2>3. /\ more \in Seq(Items) /\ Len(more) = Len(opt) + Len(<<item>>)
        /\ \A i \in 1..Len(opt) + Len(<<item>>) :
              more[i] = IF i <= Len(opt) THEN opt[i] ELSE <<item>>[i - Len(opt)]
    BY <1>11, ConcatProperties
  <2> HIDE DEF more
  <2>4. Len(opt) \in Nat /\ Len(<<item>>) = 1 /\ <<item>>[1] = item
    BY <1>11
  <2>5. ASSUME NEW i \in DOMAIN more PROVE more[i] = brace \/ more[i] = item
    <3>1. i \in 1..Len(opt) + 1
      BY <2>3, <2>4
    <3>2. CASE i <= Len(opt)
      BY <3>1, <3>2, <2>2, <2>3, <2>4
    <3>3. CASE ~(i <= Len(opt))
      <4>1. i - Len(opt) = 1
        BY <3>1, <3>3, <2>4
      <4>2. QED
        BY <3>1, <3>3, <4>1, <2>3, <2>4
    <3>4. QED
      BY <3>2, <3>3
  <2>6. QED
    BY <2>1, <2>3, <2>5
<1> HIDE DEF more
<1>14. InsertsOK'
  BY <1>2, <1>12, <1>13, TwoInserts DEF Items
<1>15. StageOK' /\ phase' = "waypoints" /\ seg' = seg /\ way' = way + 1 /\ bad' = bad
  BY <1>1, <1>2, StageStep DEF NextWaypoint
<1>16. ContentOK'
  BY <1>1, <1>2, <1>4, <1>15, ContentStep DEF Now
<1>17. QED
  BY <1>1, <1>2, <1>14, <1>15, <1>16, WaypointKeeps

\* A column that was left out is completed; the two texts may be in already.
LEMMA BranchingWaypointKeeps ==
    ASSUME WitnessInv, BranchingWaypoint
    PROVE  WitnessInv'
<1>1. Here("branching") /\ ~Invalid(Waypoint) /\ NextWaypoint
  BY DEF BranchingWaypoint
<1>2. UNCHANGED <<input, node, maps, sIndex, text>> /\ UNCHANGED input
  BY DEF BranchingWaypoint
<1>3. BranchingsOK /\ KeysOK /\ InsertsOK /\ InputOK /\ phase = "waypoints"
  BY <1>1 DEF WitnessInv, DictsOK, Here
<1>4. /\ Waypoint \in Waypoints /\ Waypoint.type = "branching" /\ WLoc \in DOMAIN branchings
      /\ seg \in DOMAIN content /\ way \in DOMAIN content[seg] /\ Waypoint = content[seg][way]
  BY <1>1, <1>3, HereIs DEF KeysOK, Waypoint
<1> DEFINE isBranch == branchings[WLoc] # None
           entry    == IF isBranch THEN branchings[WLoc] ELSE switches[WLoc]
           start    == entry[1]
           end      == entry[2]
           loc      == <<WLoc[1], entry[3]>>
           call     == IF isBranch THEN BranchCall(loc[1], loc[2])
                                   ELSE SwitchCall(loc[1], loc[2])
           close    == IF Before(end, start) THEN Close1 ELSE Close
           Items    == (DOMAIN prog.lines) \X (Nat \ {0}) \X Values
           more     == <<<<start[1], start[2], call>>, <<end[1], end[2] + 1, close>>>>
<1>5. entry \in Spots(prog) \X Ends \X Nat
  <2>1. branchings[WLoc] # None \/ switches[WLoc] # None
    BY <1>1, <1>4 DEF Invalid, WLoc
  <2>2. QED
    BY <2>1, <1>3, <1>4 DEF BranchingsOK
<1>6. /\ content' = IF WLoc[2] = 0 THEN [content EXCEPT ![seg][way].col = entry[3]]
                                   ELSE content
      /\ inserts' = inserts \/ inserts' = inserts \o more
  BY DEF BranchingWaypoint
<1>7. start \in Spots(prog) /\ end \in Ends /\ entry[3] \in Nat /\ WLoc[1] \in Nat
  <2>1. WLoc[1] = Waypoint.line
    BY DEF WLoc, Loc
  <2> HIDE DEF entry
  <2>2. QED
    BY <2>1, <1>4, <1>5 DEF Waypoints
<1>8. call \in Values /\ call # Declarations
  <2> HIDE DEF entry, isBranch
  <2>1. loc[1] \in Nat /\ loc[2] \in Nat
    BY <1>7
  <2> HIDE DEF loc
  <2>2. QED
    BY <2>1 DEF BranchCall, SwitchCall, Values, Declarations, None
<1>9. close \in Values /\ close # Declarations
  BY DEF Close, Close1, Values, Declarations, None
<1> HIDE DEF call, close, start, end, entry, isBranch
<1>10. /\ start[1] \in DOMAIN prog.lines /\ start[2] \in Nat \ {0}
       /\ end[1] \in DOMAIN prog.lines /\ end[2] + 1 \in Nat \ {0}
  BY <1>3, <1>7, SpotsAre DEF InputOK, Ends
<1>11. more \in Seq(Items) /\ \A i \in DOMAIN more : more[i][3] # Declarations
  <2> DEFINE x == <<start[1], start[2], call>>
             y == <<end[1], end[2] + 1, close>>
  <2>1. x \in Items /\ y \in Items /\ x[3] # Declarations /\ y[3] # Declarations
    BY <1>8, <1>9, <1>10
  <2> HIDE DEF x, y, Items
  <2>2. <<x, y>> \in Seq(Items) /\ \A i \in DOMAIN <<x, y>> : <<x, y>>[i][3] # Declarations
    BY <2>1
  <2>3. QED
    BY <2>2 DEF x, y
<1>12. InsertsOK'
  <2>1. CASE inserts' = inserts
    BY <2>1, <1>2, <1>3, SameInserts
  <2>2. CASE inserts' = inserts \o more
    <3> HIDE DEF more
    <3>1. QED
      BY <2>2, <1>2, <1>11, TwoInserts DEF Items
  <2>3. QED
    BY <2>1, <2>2, <1>6
<1> DEFINE new == IF WLoc[2] = 0 THEN [Waypoint EXCEPT !.col = entry[3]] ELSE Waypoint
<1>13. new \in Waypoints /\ new.type = "branching"
  BY <1>4, <1>7 DEF Waypoints
<1>14. /\ DOMAIN content' = DOMAIN content
       /\ \A s \in DOMAIN content : DOMAIN content'[s] = DOMAIN content[s]
       /\ content'[seg][way] = new
       /\ \A s \in DOMAIN content : \A i \in DOMAIN content[s] :
             <<s, i>> # <<seg, way>> => content'[s][i] = content[s][i]
  <2>1. CASE WLoc[2] = 0
    <3>1. content' = [content EXCEPT ![seg] = [content[seg] EXCEPT ![way] = new]]
      BY <2>1, <1>4, <1>6
    <3> HIDE DEF new
    <3>2. QED
      BY <3>1, <1>4
  <2>2. CASE WLoc[2] # 0
    BY <2>2, <1>4, <1>6
  <2>3. QED
    BY <2>1, <2>2
<1> HIDE DEF new
<1>15. \A p \in Positions : p # <<seg, way>> => Now(p)' = Now(p)
  <2>1. ASSUME NEW s \in DOMAIN witness, NEW i \in DOMAIN witness[s], <<s, i>> # <<seg, way>>
        PROVE  content'[s][i] = content[s][i]
    <3>1. s \in DOMAIN content /\ i \in DOMAIN content[s]
      BY DEF WitnessInv, ContentOK
    <3>2. QED
      BY <3>1, <2>1, <1>14
  <2>2. QED
    BY <2>1, PositionsAre DEF Now
<1>16. StageOK' /\ phase' = "waypoints" /\ seg' = seg /\ way' = way + 1 /\ bad' = bad
  BY <1>1, <1>2, StageStep DEF NextWaypoint
<1>17. ContentOK'
  BY <1>1, <1>2, <1>13, <1>14, <1>15, <1>16, ContentStep
<1>18. QED
  BY <1>1, <1>2, <1>12, <1>16, <1>17, WaypointKeeps

----------------------------------------------------------------------------
(***************************************************************************)
(* The ends of the loops                                                   *)
(***************************************************************************)

LEMMA SegmentsAre ==
    ASSUME InputOK, StageOK, ContentOK
    PROVE  /\ Len(content) = Len(witness) /\ DOMAIN content = 1..Len(witness)
           /\ \A s \in DOMAIN witness : Len(content[s]) = Len(witness[s])
<1>1. Len(witness) \in Nat /\ DOMAIN content = 1..Len(witness)
  BY StageIs DEF ContentOK
<1>2. Len(content) = Len(witness)
  BY <1>1
<1>3. ASSUME NEW s \in DOMAIN witness
      PROVE  Len(content[s]) = Len(witness[s])
  <2>1. Len(witness[s]) \in Nat /\ DOMAIN content[s] = 1..Len(witness[s])
    BY StageIs DEF ContentOK
  <2>2. QED
    BY <2>1
<1>4. QED
  BY <1>1, <1>2, <1>3

LEMMA EndSegmentKeeps ==
    ASSUME WitnessInv, EndSegment
    PROVE  WitnessInv'
<1>1. InputOK /\ StageOK /\ DictsOK /\ KeysOK /\ ContentOK /\ InsertsOK /\ TextOK
  BY DEF WitnessInv
<1>2. /\ UNCHANGED <<phase, input, content, node, maps, covered, inserts, bad, text>>
      /\ phase = "waypoints" /\ seg <= Len(content) /\ way > Len(content[seg])
      /\ seg' = seg + 1 /\ way' = 1 /\ sIndex' = sIndex + 1
  BY DEF EndSegment
<1>3. UNCHANGED input
  BY <1>2 DEF input
<1>4. InputOK' /\ prog' = prog /\ witness' = witness /\ checkAll' = checkAll
  BY <1>1, <1>3, SameInput
<1>5. seg \in 1..Len(witness) /\ seg \in Nat /\ way \in Nat /\ Len(witness) \in Nat
  <2>1. seg <= Len(witness)
    BY <1>1, <1>2, SegmentsAre
  <2>2. QED
    BY <2>1, <1>1, StageIs
<1>6. StageOK'
  <2>1. seg + 1 \in 1..Len(witness) + 1
    BY <1>5
  <2>2. QED
    BY <2>1, <1>1, <1>2, <1>4 DEF StageOK
<1>7. DictsOK' /\ KeysOK'
  BY <1>1, <1>2, <1>3, SameDicts, SameKeys DEF maps
<1>8. ASSUME NEW p \in Positions
      PROVE  Past(p)' <=> Past(p)
  <2>0. PICK s \in DOMAIN witness : \E i \in DOMAIN witness[s] : p = <<s, i>>
    BY PositionsAre
  <2>1. PICK i \in DOMAIN witness[s] : p = <<s, i>>
    BY <2>0
  <2>2. s \in Nat /\ i \in Nat /\ i >= 1 /\ p[1] = s /\ p[2] = i
    BY <2>1, <1>1, StageIs
  <2>3. s = seg => i < way
    <3>1. ASSUME s = seg PROVE i < way
      <4>1. i <= Len(witness[s]) /\ Len(witness[s]) \in Nat
        BY <1>1, StageIs
      <4>2. way > Len(witness[s])
        BY <3>1, <1>1, <1>2, SegmentsAre
      <4>3. QED
        BY <4>1, <4>2, <2>2, <1>5
    <3>2. QED
      BY <3>1
  <2>4. QED
    BY <2>2, <2>3, <1>2, <1>5 DEF Past
<1>9. ContentOK'
  <2>1. \A p : Now(p)' = Now(p)
    BY <1>2 DEF Now
  <2>2. \A n : Start(n)' = Start(n)
    BY <1>3, SameNodes DEF input
  <2>3. QED
    BY <2>1, <2>2, <1>1, <1>2, <1>3, <1>4, <1>8, SameWitness DEF ContentOK
<1>10. InsertsOK'
  BY <1>1, <1>2, SameInserts
<1>11. TextOK'
  BY <1>1, <1>2, SameText
<1>12. QED
  BY <1>4, <1>6, <1>7, <1>9, <1>10, <1>11 DEF WitnessInv

\* The declarations are one more insertion, at the first node's line.
LEMMA EndWaypointsKeeps ==
    ASSUME WitnessInv, EndWaypoints
    PROVE  WitnessInv'
<1>1. InputOK /\ StageOK /\ DictsOK /\ KeysOK /\ ContentOK /\ InsertsOK /\ TextOK
  BY DEF WitnessInv
<1>2. /\ UNCHANGED <<input, content, node, maps, seg, way, sIndex, covered, bad, text>>
      /\ phase = "waypoints" /\ seg > Len(content) /\ phase' \in {"rejected", "insert"}
      /\ phase' = "insert" => bad = <<>> \/ ~checkAll
      /\ \/ inserts' = inserts
         \/ isI /\ inserts' = Append(inserts, <<FirstDecl, 1, Declarations>>)
  BY DEF EndWaypoints
<1>3. UNCHANGED input
  BY <1>2 DEF input
<1>4. InputOK' /\ prog' = prog /\ witness' = witness /\ checkAll' = checkAll
  BY <1>1, <1>3, SameInput
<1>5. seg = Len(witness) + 1
  <2>1. seg > Len(witness)
    BY <1>1, <1>2, SegmentsAre
  <2>2. Len(witness) \in Nat /\ seg \in 1..Len(witness) + 1
    BY <1>1, StageIs DEF StageOK
  <2>3. QED
    BY <2>1, <2>2
<1>6. StageOK'
  <2>1. phase' = "insert" => bad = <<>>
    BY <1>1, <1>2 DEF StageOK
  <2>2. QED
    BY <2>1, <1>1, <1>2, <1>4, <1>5 DEF StageOK
<1>7. DictsOK' /\ KeysOK'
  BY <1>1, <1>2, <1>3, SameDicts, SameKeys DEF maps
<1>8. ContentOK'
  BY <1>1, <1>2, SameContent
<1>9. InsertsOK'
  <2>1. CASE inserts' = inserts
    BY <2>1, <1>1, <1>2, SameInserts
  <2>2. CASE isI /\ inserts' = Append(inserts, <<FirstDecl, 1, Declarations>>)
    <3> DEFINE Items == (DOMAIN prog.lines) \X (Nat \ {0}) \X Values
               last  == <<FirstDecl, 1, Declarations>>
    <3>1. last \in Items /\ OnlyDeclaredOn(last[1], last[3])
      <4>1. Declarations \in Values
        BY DEF Declarations, Values, None
      <4>2. FirstDecl \in DOMAIN prog.lines
        BY <1>1, FirstDeclIs DEF InputOK
      <4>3. QED
        BY <4>1, <4>2, <2>2 DEF OnlyDeclaredOn
    <3> HIDE DEF last, Items
    <3>2. /\ inserts \in Seq(Items)
          /\ \A i \in DOMAIN inserts : OnlyDeclaredOn(inserts[i][1], inserts[i][3])
      BY <1>1 DEF InsertsOK, Items
    <3>3. inserts' = Append(inserts, last)
      BY <2>2 DEF last
    <3>4. /\ inserts' \in Seq(Items) /\ Len(inserts) \in Nat
          /\ DOMAIN inserts' = 1..Len(inserts) + 1 /\ DOMAIN inserts = 1..Len(inserts)
          /\ \A i \in 1..Len(inserts) : inserts'[i] = inserts[i]
          /\ inserts'[Len(inserts) + 1] = last
      BY <3>1, <3>2, <3>3
    <3>5. ASSUME NEW i \in DOMAIN inserts'
          PROVE  OnlyDeclaredOn(inserts'[i][1], inserts'[i][3])
      <4>1. CASE i \in 1..Len(inserts)
        BY <4>1, <3>2, <3>4
      <4>2. CASE i = Len(inserts) + 1
        BY <4>2, <3>1, <3>4
      <4>3. QED
        BY <4>1, <4>2, <3>4
    <3>6. \A l, value : OnlyDeclaredOn(l, value)' <=> OnlyDeclaredOn(l, value)
      BY <1>3, SameWitness
    <3>7. QED
      BY <1>4, <3>4, <3>5, <3>6 DEF InsertsOK, Items
  <2>3. QED
    BY <2>1, <2>2, <1>2
<1>10. TextOK'
  BY <1>1, <1>2, SameText
<1>11. QED
  BY <1>4, <1>6, <1>7, <1>8, <1>9, <1>10 DEF WitnessInv

----------------------------------------------------------------------------
(***************************************************************************)
(* The insertions                                                          *)
(***************************************************************************)

LEMMA RemoveAtIs ==
    ASSUME NEW S, NEW s \in Seq(S), NEW i \in DOMAIN s
    PROVE  /\ RemoveAt(s, i) \in Seq(S)
           /\ \A k \in DOMAIN RemoveAt(s, i) : \E j \in DOMAIN s : RemoveAt(s, i)[k] = s[j]
<1>1. PICK n \in Nat : n = Len(s) /\ DOMAIN s = 1..n /\ \A j \in 1..n : s[j] \in S
  OBVIOUS
<1> DEFINE T == {s[j] : j \in DOMAIN s}
           a == SubSeq(s, 1, i - 1)
           b == SubSeq(s, i + 1, n)
<1>2. T \subseteq S /\ \A j \in 1..n : s[j] \in T
  BY <1>1
<1>3. i \in Int /\ i - 1 \in Int /\ i + 1 \in Int /\ n \in Int
  BY <1>1
<1>4. \A j \in 1..i - 1 : s[j] \in T
  BY <1>1, <1>2
<1>5. \A j \in i + 1..n : s[j] \in T
  BY <1>1, <1>2
<1> HIDE DEF T
<1>6. a \in Seq(T)
  BY <1>3, <1>4, SubSeqProperties
<1>7. b \in Seq(T)
  BY <1>3, <1>5, SubSeqProperties
<1> DEFINE new == RemoveAt(s, i)
<1>8. new = a \o b
  BY <1>1 DEF RemoveAt
<1> HIDE DEF a, b
<1>9. new \in Seq(T)
  BY <1>6, <1>7, <1>8
<1> HIDE DEF new
<1>10. \A k \in DOMAIN new : new[k] \in T
  BY <1>9
<1>11. new \in Seq(S)
  BY <1>2, <1>9, SeqMonotonic
<1>12. QED
  BY <1>10, <1>11 DEF new, T

\* The texts of a line are still the ones it may get.
LEMMA InsertKeepsTexts ==
    ASSUME NEW line \in Seq(Chars), NEW col \in Nat \ {0}, NEW value \in Values, NEW l,
           OnlyDeclaredOn(l, value),
           \A k \in DOMAIN line : OnlyDeclaredOn(l, line[k].new)
    PROVE  \A k \in DOMAIN InsertText(line, col, value) :
              OnlyDeclaredOn(l, InsertText(line, col, value)[k].new)
<1> DEFINE out == InsertText(line, col, value)
           w   == Width(value)
<1>1. PICK b \in Nat :
         /\ b <= Len(line)
         /\ out \in Seq(Chars) /\ Len(out) = Len(line) + w
         /\ \A k \in 1..(Len(line) + w) :
              /\ k <= b => out[k] = line[k]
              /\ b < k /\ k <= b + w => out[k] = New(value)
              /\ b + w < k => out[k] = line[k - w]
  BY InsertTextIs
<1>2. PICK len \in Nat : len = Len(line) /\ DOMAIN line = 1..len
  OBVIOUS
<1>3. w \in Nat \ {0}
  BY WidthIs
<1> HIDE DEF w, out
<1>4. ASSUME NEW k \in DOMAIN out
      PROVE  OnlyDeclaredOn(l, out[k].new)
  <2>0. k \in 1..(len + w) /\ k \in Nat
    BY <1>1, <1>2
  <2>1. CASE k <= b
    <3>1. out[k] = line[k] /\ k \in 1..len
      BY <2>0, <2>1, <1>1, <1>2
    <3>2. QED
      BY <3>1, <1>2
  <2>2. CASE b < k /\ k <= b + w
    <3>1. out[k] = New(value)
      BY <2>0, <2>2, <1>1, <1>2
    <3>2. QED
      BY <3>1 DEF New
  <2>3. CASE b + w < k
    <3>1. out[k] = line[k - w] /\ k - w \in 1..len
      BY <2>0, <2>3, <1>1, <1>2, <1>3
    <3>2. QED
      BY <3>1, <1>2
  <2>4. QED
    BY <2>0, <2>1, <2>2, <2>3, <1>1, <1>3
<1>5. QED
  BY <1>4 DEF out

\* The texts are put in from right to left, so the records stay descending and
\* the characters where they say.
LEMMA InsertCallKeeps ==
    ASSUME WitnessInv, InsertCall
    PROVE  WitnessInv'
<1>1. InputOK /\ StageOK /\ DictsOK /\ KeysOK /\ ContentOK /\ InsertsOK /\ TextOK
  BY DEF WitnessInv
<1>2. /\ UNCHANGED <<phase, input, content, node, maps, seg, way, sIndex, covered, bad>>
      /\ phase = "insert" /\ UNCHANGED input
  BY DEF InsertCall
<1>3. InputOK' /\ prog' = prog /\ witness' = witness /\ checkAll' = checkAll
  BY <1>1, <1>2, SameInput
<1>4. PICK i \in DOMAIN inserts :
         /\ IsNext(i)
         /\ cLines' = [cLines EXCEPT ![inserts[i][1]] =
                          InsertText(@, inserts[i][2], inserts[i][3])]
         /\ shift' = [shift EXCEPT ![inserts[i][1]] =
                          AddShift(@, inserts[i][2], Width(inserts[i][3]))]
         /\ inserts' = RemoveAt(inserts, i)
  BY DEF InsertCall
<1> DEFINE Items == (DOMAIN prog.lines) \X (Nat \ {0}) \X Values
           l     == inserts[i][1]
           col   == inserts[i][2]
           value == inserts[i][3]
           line  == InsertText(cLines[l], col, value)
           cols  == AddShift(shift[l], col, Width(value))
<1>5. inserts \in Seq(Items) /\ \A k \in DOMAIN inserts : OnlyDeclaredOn(inserts[k][1], inserts[k][3])
  BY <1>1 DEF InsertsOK
<1>6. l \in DOMAIN prog.lines /\ col \in Nat \ {0} /\ value \in Values
  <2>1. inserts[i] \in Items
    BY <1>5
  <2>2. QED
    BY <2>1
<1>7. \A k \in DOMAIN inserts : inserts[k] \in Items
  BY <1>5
<1>8. ASSUME NEW k \in DOMAIN inserts, inserts[k][1] = l
      PROVE  inserts[k][2] <= col
  <2>1. inserts[k][2] \in Nat /\ col \in Nat
    BY <1>6, <1>7
  <2>2. ~(inserts[k][2] > col)
    BY <1>4, <1>8 DEF IsNext, InsertedFirst
  <2>3. QED
    BY <2>1, <2>2
<1> HIDE DEF Items
<1>9. inserts' \in Seq(Items) /\ \A k \in DOMAIN inserts' : \E j \in DOMAIN inserts : inserts'[k] = inserts[j]
  BY <1>4, <1>5, RemoveAtIs
<1>10. InsertsOK'
  <2>1. \A m, v : OnlyDeclaredOn(m, v)' <=> OnlyDeclaredOn(m, v)
    BY <1>2, SameWitness
  <2>2. \A k \in DOMAIN inserts' : OnlyDeclaredOn(inserts'[k][1], inserts'[k][3])
    BY <1>5, <1>9
  <2>3. QED
    BY <2>1, <2>2, <1>3, <1>9 DEF InsertsOK, Items
<1>11. StageOK'
  BY <1>1, <1>2, <1>3 DEF StageOK
<1>12. DictsOK' /\ KeysOK'
  BY <1>1, <1>2, SameDicts, SameKeys DEF maps
<1>13. ContentOK'
  BY <1>1, <1>2, SameContent
<1>14. /\ DOMAIN cLines = DOMAIN prog.lines /\ DOMAIN shift = DOMAIN prog.lines
       /\ DOMAIN cLines' = DOMAIN cLines /\ DOMAIN shift' = DOMAIN shift
       /\ cLines'[l] = line /\ shift'[l] = cols
       /\ \A m \in DOMAIN prog.lines : m # l => cLines'[m] = cLines[m] /\ shift'[m] = shift[m]
  BY <1>1, <1>4, <1>6 DEF TextOK
<1>15. /\ shift[l] \in Records /\ Descending(shift[l])
       /\ \A j \in DOMAIN shift[l] : col <= shift[l][j][1]
       /\ Placed(cLines[l], shift[l], l, Len(prog.lines[l]))
       /\ \A k \in DOMAIN cLines[l] : OnlyDeclaredOn(l, cLines[l][k].new)
  BY <1>1, <1>2, <1>6 DEF TextOK, Recorded
<1>16. Width(value) \in Nat \ {0} /\ Len(prog.lines[l]) \in Nat /\ cLines[l] \in Seq(Chars)
  BY <1>1, <1>6, <1>15, WidthIs, LinesAre DEF InputOK, Placed
<1>17. /\ cols \in Records /\ Descending(cols)
       /\ \A j \in DOMAIN cols : col <= cols[j][1]
  BY <1>6, <1>15, <1>16, AddShiftIs
<1>18. Placed(line, cols, l, Len(prog.lines[l]))
  BY <1>6, <1>15, <1>16, InsertKeepsPlaces
<1>19. \A k \in DOMAIN line : OnlyDeclaredOn(l, line[k].new)
  BY <1>5, <1>6, <1>15, <1>16, InsertKeepsTexts
<1> HIDE DEF line, cols, l, col, value
<1>20. ASSUME NEW m \in DOMAIN prog.lines
       PROVE  /\ shift'[m] \in Records /\ Descending(shift'[m])
              /\ Placed(cLines'[m], shift'[m], m, Len(prog.lines[m]))
              /\ \A k \in DOMAIN cLines'[m] : OnlyDeclaredOn(m, cLines'[m][k].new)
              /\ \A k \in DOMAIN inserts' : inserts'[k][1] = m =>
                    \A j \in DOMAIN shift'[m] : inserts'[k][2] <= shift'[m][j][1]
  <2>1. CASE m = l
    <3>1. ASSUME NEW k \in DOMAIN inserts', inserts'[k][1] = m, NEW j \in DOMAIN shift'[m]
          PROVE  inserts'[k][2] <= shift'[m][j][1]
      <4>1. PICK h \in DOMAIN inserts : inserts'[k] = inserts[h]
        BY <1>9
      <4>2. inserts'[k][2] <= col /\ inserts'[k][2] \in Nat
        BY <4>1, <3>1, <2>1, <1>7, <1>8 DEF l, col, Items
      <4>3. col <= shift'[m][j][1] /\ shift'[m][j][1] \in Nat
        BY <2>1, <1>14, <1>17, RecordsAre
      <4>4. QED
        BY <4>2, <4>3, <1>6
    <3>2. QED
      BY <3>1, <2>1, <1>14, <1>17, <1>18, <1>19
  <2>2. CASE m # l
    <3>1. cLines'[m] = cLines[m] /\ shift'[m] = shift[m]
      BY <2>2, <1>14
    <3>2. Recorded(m)
      BY <1>1 DEF TextOK
    <3>3. \A k \in DOMAIN inserts' : inserts'[k][1] = m =>
             \A j \in DOMAIN shift'[m] : inserts'[k][2] <= shift'[m][j][1]
      BY <3>1, <3>2, <1>2, <1>9 DEF Recorded
    <3>4. QED
      BY <3>1, <3>2, <3>3, <1>1 DEF TextOK, Recorded
  <2>3. QED
    BY <2>1, <2>2
<1>21. TextOK'
  <2>1. \A m, v : OnlyDeclaredOn(m, v)' <=> OnlyDeclaredOn(m, v)
    BY <1>2, SameWitness
  <2>2. \A m \in DOMAIN prog.lines : Recorded(m)'
    BY <1>2, <1>20 DEF Recorded
  <2>3. QED
    BY <2>1, <2>2, <1>3, <1>14, <1>20 DEF TextOK
<1>22. QED
  BY <1>3, <1>10, <1>11, <1>12, <1>13, <1>21 DEF WitnessInv

----------------------------------------------------------------------------
(***************************************************************************)
(* The witness                                                             *)
(***************************************************************************)

\* A location of the text moves with the character it names.
LEMMA ShiftWaypointIs ==
    ASSUME InputOK, TextOK, NEW w \in Waypoints,
           w.type \in {"call", "target"} => \E n \in Nodes : Loc(w) = Start(n)
    PROVE  /\ ShiftWaypoint(w).type = w.type /\ ShiftWaypoint(w).col \in Nat
           /\ {"type", "line", "col"} \subseteq DOMAIN ShiftWaypoint(w)
           /\ \A n \in Nodes :
                 w.type \in {"call", "target"} /\ Loc(w) = Start(n) =>
                    Loc(ShiftWaypoint(w)) = Moved(n)
<1>1. /\ w.line \in Nat /\ w.col \in Nat /\ w.type \in {"call", "target", "assumption", "branching"}
      /\ {"type", "line", "col"} \subseteq DOMAIN w
  BY DEF Waypoints
<1>2. CASE w.type \in {"assumption", "branching"}
  BY <1>1, <1>2 DEF ShiftWaypoint
<1>3. CASE w.type \in {"call", "target"}
  <2> DEFINE sum == ShiftSum(shift[w.line], w.col)
  <2>1. w.line \in DOMAIN prog.lines
    <3>1. PICK n \in Nodes : Loc(w) = Start(n)
      BY <1>3
    <3>2. w.line = Start(n)[1]
      BY <3>1 DEF Loc
    <3>3. QED
      BY <3>2, NodesAre, SpotsAre DEF InputOK
  <2>2. sum \in Nat
    BY <1>1, <2>1, SumIs DEF TextOK, Recorded
  <2>3. ShiftWaypoint(w) = [w EXCEPT !.col = w.col + sum, !.line = w.line + AddLines]
    BY <1>3 DEF ShiftWaypoint
  <2> HIDE DEF sum
  <2>4. /\ ShiftWaypoint(w).type = w.type /\ ShiftWaypoint(w).col = w.col + sum
        /\ ShiftWaypoint(w).line = w.line + AddLines
        /\ DOMAIN ShiftWaypoint(w) = DOMAIN w
    BY <2>3, <1>1
  <2>5. ASSUME NEW n \in Nodes, Loc(w) = Start(n)
        PROVE  Loc(ShiftWaypoint(w)) = Moved(n)
    <3>1. w.line = Start(n)[1] /\ w.col = Start(n)[2]
      BY <2>5 DEF Loc
    <3>2. Moved(n) = <<w.line + AddLines, w.col + sum>>
      BY <3>1 DEF Moved, sum
    <3>3. QED
      BY <3>2, <2>4 DEF Loc
  <2>6. QED
    <3>1. w.col + sum \in Nat
      BY <1>1, <2>2
    <3>2. QED
      BY <3>1, <1>1, <2>4, <2>5
<1>4. QED
  BY <1>1, <1>2, <1>3

\* The end of a target is no part of its location.
LEMMA ShiftTargetEndIs ==
    ASSUME NEW w, {"type", "line", "col"} \subseteq DOMAIN w
    PROVE  /\ ShiftTargetEnd(w).type = w.type /\ ShiftTargetEnd(w).col = w.col
           /\ Loc(ShiftTargetEnd(w)) = Loc(w)
BY DEF ShiftTargetEnd, Loc

LEMMA ShiftWitnessKeeps ==
    ASSUME WitnessInv, ShiftWitness
    PROVE  WitnessInv'
<1>1. InputOK /\ StageOK /\ DictsOK /\ KeysOK /\ ContentOK /\ InsertsOK /\ TextOK
  BY DEF WitnessInv
<1>2. /\ UNCHANGED <<input, node, maps, cursor, text>>
      /\ phase = "insert" /\ phase' = "done"
  BY DEF ShiftWitness
<1>3. /\ UNCHANGED input /\ seg' = seg /\ way' = way /\ bad' = bad /\ inserts' = inserts
      /\ sIndex' = sIndex /\ node' = node /\ shift' = shift
  BY <1>2 DEF cursor, text
<1>4. InputOK' /\ prog' = prog /\ witness' = witness /\ checkAll' = checkAll
  BY <1>1, <1>3, SameInput
<1>5. StageOK'
  BY <1>1, <1>2, <1>3, <1>4 DEF StageOK
<1>6. DictsOK' /\ KeysOK'
  BY <1>1, <1>2, <1>3, SameDicts, SameKeys DEF maps
<1>7. InsertsOK'
  BY <1>1, <1>3, SameInserts
<1>8. TextOK'
  BY <1>1, <1>2, SameText
<1> DEFINE moved == [s \in DOMAIN content |->
                        [i \in DOMAIN content[s] |-> ShiftWaypoint(content[s][i])]]
           last  == Len(content)
           end   == Len(content[last])
<1>9. content' = [moved EXCEPT ![last][end] = ShiftTargetEnd(@)]
  BY DEF ShiftWitness
<1> HIDE DEF last, end
<1>10. ASSUME NEW s \in DOMAIN content
       PROVE  /\ DOMAIN content'[s] = DOMAIN content[s]
              /\ \A i \in DOMAIN content[s] :
                    \/ content'[s][i] = ShiftWaypoint(content[s][i])
                    \/ content'[s][i] = ShiftTargetEnd(ShiftWaypoint(content[s][i]))
  <2>1. CASE s = last
    <3>1. content'[s] = [moved[s] EXCEPT ![end] = ShiftTargetEnd(@)]
      BY <2>1, <1>9
    <3>2. moved[s] = [i \in DOMAIN content[s] |-> ShiftWaypoint(content[s][i])]
      OBVIOUS
    <3> HIDE DEF moved
    <3>3. QED
      BY <3>1, <3>2
  <2>2. CASE s # last
    BY <2>2, <1>9
  <2>3. QED
    BY <2>1, <2>2
<1>11. DOMAIN content' = DOMAIN content
  BY <1>9
<1> HIDE DEF moved
<1>12. \A n : Start(n)' = Start(n) /\ Moved(n)' = Moved(n)
  <2>1. \A n : Start(n)' = Start(n) /\ AddLines' = AddLines
    BY <1>3, <1>4, SameNodes, SameWitness
  <2>2. QED
    BY <2>1, <1>3 DEF Moved
<1>13. ASSUME NEW p \in Positions
       PROVE  /\ Now(p)'.type = Way(p).type /\ Now(p)'.col \in Nat
              /\ Way(p).type \in {"call", "target"} =>
                    \E n \in Meant(Way(p)) : Loc(Now(p)') = Moved(n)
  <2>0. PICK s \in DOMAIN witness : \E i \in DOMAIN witness[s] : p = <<s, i>>
    BY PositionsAre
  <2>1. PICK i \in DOMAIN witness[s] : p = <<s, i>>
    BY <2>0
  <2>2. s \in DOMAIN content /\ i \in DOMAIN content[s]
    BY <1>1 DEF ContentOK
  <2>3. Now(p) = content[s][i] /\ Now(p)' = content'[s][i]
    BY <2>1 DEF Now
  <2>4. Past(p) /\ bad = <<>>
    <3>1. seg = Len(witness) + 1 /\ bad = <<>>
      BY <1>1, <1>2 DEF StageOK
    <3>2. p[1] = s /\ s \in 1..Len(witness) /\ Len(witness) \in Nat
      BY <2>1, <1>1, StageIs
    <3>3. QED
      BY <3>1, <3>2 DEF Past
  <2>5. /\ Now(p) \in Waypoints /\ Now(p).type = Way(p).type
        /\ Way(p).type \in {"call", "target"} => \E n \in Meant(Way(p)) : Loc(Now(p)) = Start(n)
    BY <1>1, <1>2, <2>4 DEF ContentOK
  <2>6. Meant(Way(p)) \subseteq Nodes
    BY DEF Meant
  <2> DEFINE w == Now(p)
             new == ShiftWaypoint(w)
  <2>7. w \in Waypoints /\ (w.type \in {"call", "target"} => \E n \in Nodes : Loc(w) = Start(n))
    BY <2>5, <2>6
  <2> HIDE DEF w
  <2>8. /\ new.type = w.type /\ new.col \in Nat
        /\ {"type", "line", "col"} \subseteq DOMAIN new
        /\ \A n \in Nodes : w.type \in {"call", "target"} /\ Loc(w) = Start(n) => Loc(new) = Moved(n)
    BY <2>7, <1>1, ShiftWaypointIs
  <2>9. Now(p)' = new \/ Now(p)' = ShiftTargetEnd(new)
    BY <2>2, <2>3, <1>10 DEF w
  <2> HIDE DEF new
  <2>10. Now(p)'.type = new.type /\ Now(p)'.col = new.col /\ Loc(Now(p)') = Loc(new)
    BY <2>8, <2>9, ShiftTargetEndIs
  <2>11. QED
    BY <2>5, <2>6, <2>8, <2>10 DEF w
<1>14. ASSUME NEW p \in Positions
       PROVE  Loc(Now(p))' = Loc(Now(p)')
  BY DEF Loc
<1>15. DOMAIN content = DOMAIN witness /\ \A s \in DOMAIN witness : DOMAIN content[s] = DOMAIN witness[s]
  BY <1>1 DEF ContentOK
<1>16. ContentOK'
  BY <1>2, <1>3, <1>4, <1>10, <1>11, <1>12, <1>13, <1>14, <1>15, SameWitness DEF ContentOK
<1>17. QED
  BY <1>4, <1>5, <1>6, <1>7, <1>8, <1>16 DEF WitnessInv

LEMMA StutteringKeeps ==
    ASSUME WitnessInv, UNCHANGED vars
    PROVE  WitnessInv'
<1>1. InputOK /\ StageOK /\ DictsOK /\ KeysOK /\ ContentOK /\ InsertsOK /\ TextOK
  BY DEF WitnessInv
<1>2. /\ UNCHANGED <<phase, input, content, node, maps, cursor, text>>
      /\ UNCHANGED input /\ seg' = seg /\ way' = way /\ bad' = bad /\ inserts' = inserts
      /\ sIndex' = sIndex
  BY DEF vars, cursor
<1>3. InputOK' /\ prog' = prog /\ witness' = witness /\ checkAll' = checkAll
  BY <1>1, <1>2, SameInput
<1>4. StageOK'
  BY <1>1, <1>2, <1>3 DEF StageOK
<1>5. DictsOK' /\ InsertsOK'
  BY <1>1, <1>2, SameDicts, SameInserts
<1>6. KeysOK'
  BY <1>1, <1>2, SameWitness DEF KeysOK, maps
<1>7. \A n : Start(n)' = Start(n) /\ Moved(n)' = Moved(n)
  BY <1>2, <1>3, SameNodes, SameWitness DEF Moved, text
<1>8. \A p : Now(p)' = Now(p) /\ (Past(p)' <=> Past(p)) /\ Loc(Now(p))' = Loc(Now(p))
  BY <1>2 DEF Now, Past, Loc
<1>9. ContentOK'
  BY <1>1, <1>2, <1>3, <1>7, <1>8, SameWitness DEF ContentOK
<1>10. TextOK'
  <2>1. \A l : Recorded(l)' <=> Recorded(l)
    BY <1>2 DEF Recorded, text
  <2>2. \A l, value : OnlyDeclaredOn(l, value)' <=> OnlyDeclaredOn(l, value)
    BY <1>2, SameWitness
  <2>3. QED
    BY <2>1, <2>2, <1>1, <1>2, <1>3 DEF TextOK, text
<1>11. QED
  BY <1>3, <1>4, <1>5, <1>6, <1>9, <1>10 DEF WitnessInv

----------------------------------------------------------------------------
(***************************************************************************)
(* Where a reader finds a character of the source                          *)
(***************************************************************************)

LEMMA WhereIs ==
    ASSUME WitnessInv, NEW l \in DOMAIN prog.lines, NEW c \in DOMAIN prog.lines[l]
    PROVE  /\ c \in Nat \ {0} /\ ShiftSum(shift[l], c) \in Nat
           /\ c + ShiftSum(shift[l], c) \in DOMAIN cLines[l]
           /\ cLines[l][c + ShiftSum(shift[l], c)].at = <<l, c>>
           /\ IndexOf(l, c) = c + ShiftSum(shift[l], c)
<1>1. /\ IsProgram(prog) /\ shift[l] \in Records
      /\ Placed(cLines[l], shift[l], l, Len(prog.lines[l]))
  BY DEF WitnessInv, InputOK, TextOK, Recorded
<1>2. PICK n \in Nat : n = Len(prog.lines[l]) /\ c \in 1..n /\ l # 0
  BY <1>1, LinesAre
<1> DEFINE k == c + ShiftSum(shift[l], c)
<1>3. ShiftSum(shift[l], c) \in Nat /\ c \in Nat \ {0}
  BY <1>1, <1>2, SumIs
<1>4. k \in 1..Len(cLines[l]) /\ cLines[l][k] = Source(l, c)
  BY <1>1, <1>2 DEF Placed
<1>5. DOMAIN cLines[l] = 1..Len(cLines[l])
  BY <1>1 DEF Placed
<1>6. ASSUME NEW i \in DOMAIN cLines[l], cLines[l][i].at = <<l, c>>
      PROVE  i = k
  <2>1. cLines[l][i].at # <<0, 0>>
    BY <1>2, <1>6
  <2>2. PICK d \in 1..n : cLines[l][i] = Source(l, d) /\ i = d + ShiftSum(shift[l], d)
    BY <2>1, <1>1, <1>2, <1>5 DEF Placed
  <2>3. d = c
    BY <2>2, <1>6 DEF Source
  <2>4. QED
    BY <2>2, <2>3
<1>7. cLines[l][k].at = <<l, c>>
  BY <1>4 DEF Source
<1>8. IndexOf(l, c) = k
  <2> HIDE DEF k
  <2>1. QED
    BY <1>4, <1>5, <1>6, <1>7 DEF IndexOf
<1>9. QED
  BY <1>3, <1>4, <1>5, <1>7, <1>8

\* Off the line of the declarations no newline comes before it.
LEMMA PlaceIs ==
    ASSUME WitnessInv, NEW l \in DOMAIN prog.lines, NEW c \in DOMAIN prog.lines[l],
           l >= FirstDecl, ~(isI /\ l = FirstDecl)
    PROVE  Place(<<l, c>>) = <<l + AddLines, c + ShiftSum(shift[l], c)>>
<1> DEFINE k       == IndexOf(l, c)
           ends    == {i \in DOMAIN cLines[l] : cLines[l][i].new = Declarations}
           newline == IF ends = {} THEN 0 ELSE CHOOSE i \in ends : \A j \in ends : j <= i
<1>1. Place(<<l, c>>) = <<IF isI /\ l >= FirstDecl THEN l + 1 ELSE l,
                          IF k > newline THEN k - newline ELSE k>>
  BY DEF Place
<1>2. ends = {}
  BY DEF WitnessInv, TextOK, OnlyDeclaredOn
<1>3. newline = 0
  BY <1>2
<1>4. k = c + ShiftSum(shift[l], c) /\ k \in Nat
  <2>1. k = c + ShiftSum(shift[l], c) /\ c \in Nat /\ ShiftSum(shift[l], c) \in Nat
    BY WhereIs
  <2> HIDE DEF k
  <2>2. QED
    BY <2>1
<1>5. l \in Nat
  BY LinesAre DEF WitnessInv, InputOK
<1> HIDE DEF k, newline
<1>6. (IF k > newline THEN k - newline ELSE k) = k
  BY <1>3, <1>4
<1>7. (IF isI /\ l >= FirstDecl THEN l + 1 ELSE l) = l + AddLines
  BY <1>5 DEF AddLines
<1>8. QED
  BY <1>1, <1>4, <1>6, <1>7

----------------------------------------------------------------------------
(***************************************************************************)
(* The theorems                                                            *)
(***************************************************************************)

(***************************************************************************)
(* Every state of the transformation satisfies the inductive invariant:    *)
(* the dictionaries hold what the syntax tree has there, a rewritten        *)
(* waypoint names the node it named, and _shift has the records of a line   *)
(* from right to left and tells where its characters are.                   *)
(***************************************************************************)
THEOREM WitnessInvariant == Spec => []WitnessInv
<1>1. ASSUME WitnessInv, [Next]_vars
      PROVE  WitnessInv'
  <2>1. CASE Collect
    BY <2>1, <1>1, CollectKeeps
  <2>2. CASE Visit
    BY <2>2, <1>1, VisitKeeps
  <2>3. CASE EndTraversal
    BY <2>3, <1>1, EndTraversalKeeps
  <2>4. CASE InvalidLocation
    BY <2>4, <1>1, InvalidLocationKeeps
  <2>5. CASE CallWaypoint
    BY <2>5, <1>1, CallWaypointKeeps
  <2>6. CASE TargetWaypoint
    BY <2>6, <1>1, TargetWaypointKeeps
  <2>7. CASE AssumptionWaypoint
    BY <2>7, <1>1, AssumptionWaypointKeeps
  <2>8. CASE BranchingWaypoint
    BY <2>8, <1>1, BranchingWaypointKeeps
  <2>9. CASE EndSegment
    BY <2>9, <1>1, EndSegmentKeeps
  <2>10. CASE EndWaypoints
    BY <2>10, <1>1, EndWaypointsKeeps
  <2>11. CASE InsertCall
    BY <2>11, <1>1, InsertCallKeeps
  <2>12. CASE ShiftWitness
    BY <2>12, <1>1, ShiftWitnessKeeps
  <2>13. CASE UNCHANGED vars
    BY <2>13, <1>1, StutteringKeeps
  <2>14. QED
    BY <2>1, <2>2, <2>3, <2>4, <2>5, <2>6, <2>7, <2>8, <2>9, <2>10, <2>11, <2>12, <2>13,
       <1>1 DEF Next
<1>2. QED
  BY <1>1, InitWitnessInv, PTL DEF Spec

(***************************************************************************)
(* TypeOK: the transformer stays inside its witness, and every text it has *)
(* noted goes to a line of the program and a column from 1.                *)
(***************************************************************************)
THEOREM TypeCorrect == Spec => []TypeOK
<1>1. ASSUME WitnessInv PROVE TypeOK
  <2>1. InputOK /\ StageOK /\ ContentOK /\ InsertsOK
    BY <1>1 DEF WitnessInv
  <2>2. ASSUME NEW p \in Positions
        PROVE  content[p[1]][p[2]].type = Way(p).type /\ content[p[1]][p[2]].col \in Nat
    BY <2>1 DEF ContentOK, Now
  <2>3. ASSUME NEW i \in DOMAIN inserts
        PROVE  inserts[i][1] \in DOMAIN prog.lines /\ inserts[i][2] \in Nat \ {0}
    <3> DEFINE Items == (DOMAIN prog.lines) \X (Nat \ {0}) \X Values
    <3>1. inserts[i] \in Items
      BY <2>1 DEF InsertsOK
    <3>2. QED
      BY <3>1
  <2>4. \A i \in DOMAIN bad : bad[i] \in Nat
    BY <2>1 DEF StageOK
  <2>5. QED
    BY <2>1, <2>2, <2>3, <2>4 DEF TypeOK, InputOK, StageOK, ContentOK
<1>2. QED
  BY <1>1, WitnessInvariant, PTL

(***************************************************************************)
(* ShiftsMatchText: whatever texts _insert_calls has put in so far, _shift *)
(* tells where every character of the source is now, and none is lost.     *)
(***************************************************************************)
THEOREM ShiftsAlwaysMatchText == Spec => []ShiftsMatchText
<1>1. ASSUME WitnessInv PROVE ShiftsMatchText
  <2>1. ASSUME NEW l \in DOMAIN prog.lines, NEW c \in DOMAIN prog.lines[l]
        PROVE  /\ c + ShiftSum(shift[l], c) \in DOMAIN cLines[l]
               /\ cLines[l][c + ShiftSum(shift[l], c)].at = <<l, c>>
    BY <1>1, WhereIs
  <2>2. QED
    BY <2>1 DEF ShiftsMatchText
<1>2. QED
  BY <1>1, WitnessInvariant, PTL

(***************************************************************************)
(* CallsStayOnCode: in the written witness a call or target waypoint names *)
(* the first character of the call or expression it named in the program   *)
(* of the user (off the line of the first declaration of a .i file).       *)
(***************************************************************************)
THEOREM CallsAlwaysStayOnCode == Spec => []CallsStayOnCode
<1>1. ASSUME WitnessInv PROVE CallsStayOnCode
  <2>1. InputOK /\ ContentOK
    BY <1>1 DEF WitnessInv
  <2>2. ASSUME phase = "done", NEW p \in Positions, Way(p).type \in {"call", "target"}
        PROVE  \E n \in Meant(Way(p)) :
                  ~(isI /\ Start(n)[1] = FirstDecl) =>
                      Loc(content[p[1]][p[2]]) = Place(Start(n))
    <3>1. PICK n \in Meant(Way(p)) : Loc(Now(p)) = Moved(n)
      BY <2>1, <2>2 DEF ContentOK
    <3>2. n \in Nodes /\ IsProgram(prog)
      BY <2>1 DEF Meant, InputOK
    <3>3. /\ Start(n) = <<Start(n)[1], Start(n)[2]>> /\ Start(n)[1] \in DOMAIN prog.lines
          /\ Start(n)[2] \in DOMAIN prog.lines[Start(n)[1]]
      BY <3>2, NodesAre, SpotsAre
    <3>4. Start(n)[1] >= FirstDecl
      BY <3>2, NodesAre DEF FirstDecl
    <3>5. ~(isI /\ Start(n)[1] = FirstDecl) => Place(Start(n)) = Moved(n)
      BY <1>1, <3>3, <3>4, PlaceIs DEF Moved
    <3>6. QED
      BY <3>1, <3>5 DEF Now
  <2>3. QED
    BY <2>2 DEF CallsStayOnCode
<1>2. QED
  BY <1>1, WitnessInvariant, PTL

(***************************************************************************)
(* BackAtOriginal: shift_back takes every place of the changed text that a *)
(* character of the source has gone to back to where the user has it (off  *)
(* the line of the first declaration of a .i file).                        *)
(***************************************************************************)
THEOREM AlwaysBackAtOriginal == Spec => []BackAtOriginal
<1>1. ASSUME WitnessInv PROVE BackAtOriginal
  <2>1. InputOK /\ TextOK
    BY <1>1 DEF WitnessInv
  <2>2. ASSUME NEW l \in FirstDecl..Len(prog.lines), NEW c \in DOMAIN prog.lines[l],
               ~(isI /\ l = FirstDecl)
        PROVE  ShiftBack(Place(<<l, c>>)) = <<l, c>>
    <3>1. l \in DOMAIN prog.lines /\ l \in Nat /\ l >= FirstDecl
      BY <2>1, FirstDeclIs, LinesAre DEF InputOK
    <3>2. c \in Nat
      BY <2>1, <3>1, LinesAre DEF InputOK
    <3>3. Place(<<l, c>>) = <<l + AddLines, c + ShiftSum(shift[l], c)>>
      BY <1>1, <2>2, <3>1, PlaceIs
    <3>4. shift[l] \in Records /\ Descending(shift[l])
      BY <2>1, <3>1 DEF TextOK, Recorded
    <3>5. QED
      BY <3>1, <3>2, <3>3, <3>4, ShiftBackIs
  <2>3. QED
    BY <2>2 DEF BackAtOriginal
<1>2. QED
  BY <1>1, WitnessInvariant, PTL

----------------------------------------------------------------------------
(***************************************************************************)
(* The calls for assumptions: a second inductive invariant                 *)
(***************************************************************************)

\* What a dictionary holds for an assumption.
StatementAt(n, k) ==
    /\ IsStatement(n)
    /\ k[1] = Start(n)[1] /\ k[2] \in {0, Start(n)[2]}
Block(n)    == Kind(n) = "compound"
Inside(n)    == IF Block(n) THEN Plus(Start(n), 1) ELSE Start(n)
Brackets(n) == Kind(Parent(n)) # "compound" /\ ~Block(n)

\* The nodes that assumptions are about have the roles of the grammar.
RolesOK ==
    \A n \in DOMAIN prog.nodes :
        AssumedAt(witness, prog.nodes[n].start) => RoleFits(prog, n)

StatementsOK ==
    \A k \in DOMAIN assumptions :
        \/ assumptions[k] = None
        \/ \E n \in Nodes : StatementAt(n, k)
                             /\ assumptions[k] = <<Inside(n), End(n), Brackets(n)>>

\* Without invalid locations s_index counts the segments.
Numbered ==
    /\ bad = <<>> => sIndex = seg - 1
    /\ phase = "done" => inserts = <<>>

\* What is no character of the source is a text, and characters do not overtake
\* one another.
Ordered(cols) == \A c, d \in Nat : c <= d => ShiftSum(cols, c) <= ShiftSum(cols, d)
Filled(line)  == \A k \in DOMAIN line : line[k].at = <<0, 0>> => line[k].new # None
LinesOK == \A l \in DOMAIN prog.lines : Ordered(shift[l]) /\ Filled(cLines[l])

\* The value stands in front of the character at col and behind the one before.
InGap(line, cols, n, col, value) ==
    \E k \in 1..Len(line) :
        /\ line[k].new = value
        /\ \A c \in 1..n : IF c < col THEN c + ShiftSum(cols, c) < k
                                      ELSE k < c + ShiftSum(cols, c)

\* ... and behind all that says one of first.
InGapAfter(line, cols, n, col, value, first) ==
    \E k \in 1..Len(line) :
        /\ line[k].new = value
        /\ \A c \in 1..n : IF c < col THEN c + ShiftSum(cols, c) < k
                                      ELSE k < c + ShiftSum(cols, c)
        /\ \A j \in 1..Len(line) : line[j].new \in first => j < k

Listed(x, list)  == \E i \in DOMAIN list : list[i] = x
Keeps(old, list) == \A i \in DOMAIN old : Listed(old[i], list)

\* It stands there or will be put in there.
Noted(l, col, value) ==
    \/ Listed(<<l, col, value>>, inserts)
    \/ InGap(cLines[l], shift[l], Len(prog.lines[l]), col, value)

GuardOf(p, n) == CreateAssumption(Way(p).constraint, p[1] - 1,
                                  Way(p).action # "avoid", Brackets(n))

GuardedBy(p, n) ==
    /\ StatementAt(n, Loc(Way(p)))
    /\ Noted(Inside(n)[1], Inside(n)[2], GuardOf(p, n))
    /\ Brackets(n) => Noted(End(n)[1], End(n)[2] + 1, Brace)

GuardsOK ==
    bad = <<>> => \A p \in Positions : Way(p).type = "assumption" /\ Past(p) =>
                    \E n \in Nodes : GuardedBy(p, n)

GuardInv == RolesOK /\ StatementsOK /\ Numbered /\ LinesOK /\ GuardsOK

\* A text that is put in stands in its gap, ...
LEMMA InsertedInGap ==
    ASSUME NEW line, NEW cols \in Records, Descending(cols), NEW l, NEW n \in Nat,
           Placed(line, cols, l, n),
           NEW col \in Nat \ {0}, NEW value \in Values, col <= n + 1,
           \A i \in DOMAIN cols : col <= cols[i][1]
    PROVE  InGap(InsertText(line, col, value), AddShift(cols, col, Width(value)),
                 n, col, value)
<1> DEFINE w    == Width(value)
           out  == InsertText(line, col, value)
           recs == AddShift(cols, col, w)
<1>1. w \in Nat \ {0}
  BY WidthIs
<1>2. PICK b \in Nat :
         /\ b <= Len(line) /\ b <= col - 1 /\ (b = col - 1 \/ b = Len(line))
         /\ out \in Seq(Chars) /\ Len(out) = Len(line) + w
         /\ \A k \in 1..(Len(line) + w) :
              /\ k <= b => out[k] = line[k]
              /\ b < k /\ k <= b + w => out[k] = New(value)
              /\ b + w < k => out[k] = line[k - w]
  BY InsertTextIs DEF Placed
<1>3. PICK len \in Nat : len = Len(line)
  BY DEF Placed
<1> HIDE DEF w, out
<1>4. \A c \in Nat : ShiftSum(recs, c) = ShiftSum(cols, c) + Moves(col, w, c)
  BY <1>1, AddShiftIs
<1> HIDE DEF recs
<1>5. \A c \in Nat : ShiftSum(cols, c) \in Nat
  BY SumIs
<1>6. n <= len
  <2>1. CASE n = 0
    BY <2>1
  <2>2. CASE n # 0
    <3>1. n + ShiftSum(cols, n) \in 1..len
      BY <2>2, <1>3 DEF Placed
    <3>2. QED
      BY <3>1, <1>5
  <2>3. QED
    BY <2>1, <2>2
<1>7. b = col - 1
  <2>1. b \in Nat /\ b <= col - 1 /\ (b = col - 1 \/ b = len)
    BY <1>2, <1>3, Zenon
  <2>2. QED
    BY <2>1, <1>6
<1>8. col \in 1..Len(out) /\ out[col] = New(value)
  <2>1. col \in 1..(len + w) /\ b < col /\ col <= b + w
    BY <1>1, <1>6, <1>7
  <2>2. QED
    BY <2>1, <1>2, <1>3
<1>9. ASSUME NEW c \in 1..n
      PROVE  IF c < col THEN c + ShiftSum(recs, c) < col ELSE col < c + ShiftSum(recs, c)
  <2>1. c \in Nat /\ ShiftSum(cols, c) \in Nat
    BY <1>5
  <2>2. CASE c < col
    <3>1. ShiftSum(cols, c) = 0
      BY <2>1, <2>2, NothingBefore
    <3>2. QED
      BY <2>1, <2>2, <3>1, <1>4 DEF Moves
  <2>3. CASE ~(c < col)
    <3>1. ShiftSum(recs, c) = ShiftSum(cols, c) + w
      BY <2>1, <2>3, <1>4 DEF Moves
    <3>2. QED
      BY <3>1, <2>1, <2>3, <1>1
  <2>4. QED
    BY <2>2, <2>3
<1>10. out[col].new = value
  BY <1>8 DEF New
<1>11. QED
  BY <1>8, <1>9, <1>10 DEF InGap, out, recs, w

\* ... and any text stays in its gap, behind what it is behind.
LEMMA InsertKeepsOrderInGap ==
    ASSUME NEW line, NEW cols \in Records, Descending(cols), NEW l, NEW n \in Nat,
           Placed(line, cols, l, n),
           NEW col \in Nat \ {0}, NEW value \in Values,
           \A i \in DOMAIN cols : col <= cols[i][1],
           NEW gap \in Nat, NEW other, NEW first,
           value \in first => col <= gap /\ gap <= n + 1,
           InGapAfter(line, cols, n, gap, other, first)
    PROVE  InGapAfter(InsertText(line, col, value), AddShift(cols, col, Width(value)),
                      n, gap, other, first)
<1> DEFINE w    == Width(value)
           out  == InsertText(line, col, value)
           recs == AddShift(cols, col, w)
<1>1. w \in Nat \ {0}
  BY WidthIs
<1>2. PICK b \in Nat :
         /\ b <= Len(line) /\ b <= col - 1 /\ (b = col - 1 \/ b = Len(line))
         /\ out \in Seq(Chars) /\ Len(out) = Len(line) + w
         /\ \A k \in 1..(Len(line) + w) :
              /\ k <= b => out[k] = line[k]
              /\ b < k /\ k <= b + w => out[k] = New(value)
              /\ b + w < k => out[k] = line[k - w]
  BY InsertTextIs DEF Placed
<1>3. PICK len \in Nat : len = Len(line)
  BY DEF Placed
<1> HIDE DEF w, out
<1>4. \A c \in Nat : ShiftSum(recs, c) = ShiftSum(cols, c) + Moves(col, w, c)
  BY <1>1, AddShiftIs
<1> HIDE DEF recs
<1>5. \A c \in Nat : ShiftSum(cols, c) \in Nat /\ (c < col => ShiftSum(cols, c) = 0)
  BY NothingBefore, SumIs
<1>6. PICK k \in 1..len :
         /\ line[k].new = other
         /\ \A c \in 1..n : IF c < gap THEN c + ShiftSum(cols, c) < k
                                       ELSE k < c + ShiftSum(cols, c)
         /\ \A j \in 1..len : line[j].new \in first => j < k
  BY <1>3 DEF InGapAfter
<1>7. b \in Nat /\ b <= len /\ b <= col - 1 /\ (b = col - 1 \/ b = len)
  BY <1>2, <1>3, Zenon
<1>8. CASE k <= b
  <2>1. k \in 1..Len(out) /\ out[k] = line[k]
    <3>1. k \in 1..(len + w)
      BY <1>1
    <3>2. QED
      BY <3>1, <1>2, <1>3, <1>8
  <2>2. ASSUME NEW c \in 1..n
        PROVE  IF c < gap THEN c + ShiftSum(recs, c) < k ELSE k < c + ShiftSum(recs, c)
    <3> DEFINE s == ShiftSum(cols, c)
               m == Moves(col, w, c)
    <3>1. c \in Nat /\ s \in Nat /\ ShiftSum(recs, c) = s + m
      BY <1>4, <1>5
    <3>2. m \in Nat /\ (c < col => m = 0)
      BY <1>1 DEF Moves
    <3>3. IF c < gap THEN c + s < k ELSE k < c + s
      BY <1>6
    <3> HIDE DEF s, m
    <3>4. QED
      BY <3>1, <3>2, <3>3, <1>7, <1>8
  <2>3. ASSUME NEW j \in 1..Len(out), out[j].new \in first
        PROVE  j < k
    <3>1. j \in 1..(len + w)
      BY <1>1, <1>2, <1>3
    <3>2. CASE j <= b
      <4>1. j \in 1..len /\ out[j] = line[j]
        BY <3>1, <3>2, <1>2, <1>3, <1>7
      <4>2. QED
        BY <4>1, <2>3, <1>6
    <3>3. CASE b < j /\ j <= b + w
      <4>1. value \in first
        BY <3>1, <3>3, <2>3, <1>2, <1>3 DEF New
      <4>2. col <= gap /\ gap <= n + 1
        BY <4>1
      <4>3. gap - 1 \in 1..n /\ gap - 1 < gap /\ k <= gap - 1
        BY <4>2, <1>7, <1>8
      <4>4. gap - 1 + ShiftSum(cols, gap - 1) < k
        BY <4>3, <1>6
      <4>5. gap - 1 \in Nat
        BY <4>3
      <4>6. ShiftSum(cols, gap - 1) \in Nat
        BY <4>5, <1>5
      <4>7. QED
        BY <4>3, <4>4, <4>5, <4>6
    <3>4. CASE b + w < j
      <4>1. j - w \in 1..len /\ b < j - w /\ out[j] = line[j - w]
        BY <3>1, <3>4, <1>1, <1>2, <1>3, <1>7
      <4>2. j - w < k
        BY <4>1, <2>3, <1>6
      <4>3. QED
        BY <4>1, <4>2, <1>7, <1>8
    <3>5. QED
      BY <3>1, <3>2, <3>3, <3>4, <1>1, <1>7
  <2>4. out[k].new = other
    BY <2>1, <1>6
  <2>5. QED
    BY <2>1, <2>2, <2>3, <2>4 DEF InGapAfter, out, recs, w
<1>9. CASE b < k
  <2>1. k + w \in 1..Len(out) /\ out[k + w] = line[k]
    <3>1. k + w \in 1..(len + w) /\ b + w < k + w /\ (k + w) - w = k
      BY <1>1, <1>7, <1>9
    <3>2. QED
      BY <3>1, <1>2, <1>3
  <2>2. ASSUME NEW c \in 1..n
        PROVE  IF c < gap THEN c + ShiftSum(recs, c) < k + w ELSE k + w < c + ShiftSum(recs, c)
    <3> DEFINE s == ShiftSum(cols, c)
               m == Moves(col, w, c)
    <3>1. c \in Nat /\ s \in Nat /\ ShiftSum(recs, c) = s + m /\ (c < col => s = 0)
      BY <1>4, <1>5
    <3>2. m \in Nat /\ m <= w /\ (~(c < col) => m = w)
      BY <1>1 DEF Moves
    <3>3. IF c < gap THEN c + s < k ELSE k < c + s
      BY <1>6
    <3> HIDE DEF s, m
    <3>4. CASE c < gap
      BY <3>1, <3>2, <3>3, <3>4, <1>1
    <3>5. CASE ~(c < gap)
      <4>1. ~(c < col)
        BY <3>1, <3>3, <3>5, <1>7, <1>9
      <4>2. QED
        BY <4>1, <3>1, <3>2, <3>3, <3>5, <1>1
    <3>6. QED
      BY <3>4, <3>5
  <2>3. out[k + w].new = other
    BY <2>1, <1>6
  <2>4. ASSUME NEW j \in 1..Len(out), out[j].new \in first
        PROVE  j < k + w
    <3>1. j \in 1..(len + w)
      BY <1>1, <1>2, <1>3
    <3>2. CASE j <= b + w
      BY <3>1, <3>2, <1>1, <1>7, <1>9
    <3>3. CASE b + w < j
      <4>1. j - w \in 1..len /\ out[j] = line[j - w]
        BY <3>1, <3>3, <1>1, <1>2, <1>3, <1>7
      <4>2. j - w < k
        BY <4>1, <2>4, <1>6
      <4>3. QED
        BY <4>1, <4>2, <1>1, <3>1
    <3>4. QED
      BY <3>1, <3>2, <3>3, <1>1, <1>7
  <2> DEFINE k2 == k + w
  <2>5. /\ k2 \in 1..Len(out) /\ out[k2].new = other
        /\ \A c \in 1..n : IF c < gap THEN c + ShiftSum(recs, c) < k2
                                      ELSE k2 < c + ShiftSum(recs, c)
        /\ \A j \in 1..Len(out) : out[j].new \in first => j < k2
    BY <2>1, <2>2, <2>3, <2>4
  <2> HIDE DEF k2
  <2>6. QED
    BY <2>5 DEF InGapAfter, out, recs, w
<1>10. QED
  BY <1>7, <1>8, <1>9

LEMMA InsertKeepsGaps ==
    ASSUME NEW line, NEW cols \in Records, Descending(cols), NEW l, NEW n \in Nat,
           Placed(line, cols, l, n),
           NEW col \in Nat \ {0}, NEW value \in Values,
           \A i \in DOMAIN cols : col <= cols[i][1],
           NEW gap \in Nat, NEW other, InGap(line, cols, n, gap, other)
    PROVE  InGap(InsertText(line, col, value), AddShift(cols, col, Width(value)),
                 n, gap, other)
<1>1. InGapAfter(line, cols, n, gap, other, {})
  BY DEF InGap, InGapAfter
<1>2. value \notin {}
  OBVIOUS
<1>3. InGapAfter(InsertText(line, col, value), AddShift(cols, col, Width(value)),
                 n, gap, other, {})
  BY <1>1, <1>2, InsertKeepsOrderInGap
<1>4. QED
  BY <1>3 DEF InGap, InGapAfter

LEMMA InsertKeepsOrder ==
    ASSUME NEW cols \in Records, Descending(cols), Ordered(cols),
           NEW col \in Nat \ {0}, NEW length \in Nat \ {0},
           \A i \in DOMAIN cols : col <= cols[i][1]
    PROVE  Ordered(AddShift(cols, col, length))
<1> DEFINE recs == AddShift(cols, col, length)
<1>1. \A c \in Nat : ShiftSum(recs, c) = ShiftSum(cols, c) + Moves(col, length, c)
  BY AddShiftIs
<1> HIDE DEF recs
<1>2. ASSUME NEW c \in Nat, NEW d \in Nat, c <= d
      PROVE  ShiftSum(recs, c) <= ShiftSum(recs, d)
  <2>1. ShiftSum(cols, c) <= ShiftSum(cols, d)
    BY <1>2 DEF Ordered
  <2>2. ShiftSum(cols, c) \in Nat /\ ShiftSum(cols, d) \in Nat
    BY SumIs
  <2>3. /\ Moves(col, length, c) \in Nat /\ Moves(col, length, d) \in Nat
        /\ Moves(col, length, c) <= Moves(col, length, d)
    BY <1>2 DEF Moves
  <2>4. QED
    BY <1>1, <2>1, <2>2, <2>3
<1>3. QED
  BY <1>2 DEF Ordered, recs

LEMMA InsertKeepsFilled ==
    ASSUME NEW line \in Seq(Chars), Filled(line), NEW col \in Nat \ {0}, NEW value \in Values
    PROVE  Filled(InsertText(line, col, value))
<1> DEFINE out == InsertText(line, col, value)
           w   == Width(value)
<1>1. PICK b \in Nat :
         /\ b <= Len(line)
         /\ out \in Seq(Chars) /\ Len(out) = Len(line) + w
         /\ \A k \in 1..(Len(line) + w) :
              /\ k <= b => out[k] = line[k]
              /\ b < k /\ k <= b + w => out[k] = New(value)
              /\ b + w < k => out[k] = line[k - w]
  BY InsertTextIs
<1>2. PICK len \in Nat : len = Len(line) /\ DOMAIN line = 1..len
  OBVIOUS
<1>3. w \in Nat \ {0} /\ value # None
  BY WidthIs
<1> HIDE DEF w, out
<1>4. ASSUME NEW k \in DOMAIN out, out[k].at = <<0, 0>>
      PROVE  out[k].new # None
  <2>0. k \in 1..(len + w) /\ k \in Nat
    BY <1>1, <1>2
  <2>1. CASE k <= b
    <3>1. out[k] = line[k] /\ k \in 1..len
      BY <2>0, <2>1, <1>1, <1>2
    <3>2. QED
      BY <3>1, <1>2, <1>4 DEF Filled
  <2>2. CASE b < k /\ k <= b + w
    <3>1. out[k] = New(value)
      BY <2>0, <2>2, <1>1, <1>2
    <3>2. QED
      BY <3>1, <1>3 DEF New
  <2>3. CASE b + w < k
    <3>1. out[k] = line[k - w] /\ k - w \in 1..len
      BY <2>0, <2>3, <1>1, <1>2, <1>3
    <3>2. QED
      BY <3>1, <1>2, <1>4 DEF Filled
  <2>4. QED
    BY <2>0, <2>1, <2>2, <2>3, <1>1, <1>3
<1>5. QED
  BY <1>4 DEF Filled, out

\* A text in the gap of a character is directly in front of it, ...
LEMMA GapBefore ==
    ASSUME WitnessInv, LinesOK, NEW l \in DOMAIN prog.lines, NEW c \in DOMAIN prog.lines[l],
           NEW value, InGap(cLines[l], shift[l], Len(prog.lines[l]), c, value)
    PROVE  value \in NewBefore(l, IndexOf(l, c))
<1> DEFINE pos(d) == d + ShiftSum(shift[l], d)
           line   == cLines[l]
<1>1. /\ IsProgram(prog) /\ shift[l] \in Records /\ Ordered(shift[l]) /\ Filled(line)
      /\ Placed(line, shift[l], l, Len(prog.lines[l]))
  BY DEF WitnessInv, InputOK, TextOK, Recorded, LinesOK
<1>2. PICK n \in Nat : n = Len(prog.lines[l]) /\ DOMAIN prog.lines[l] = 1..n
  BY <1>1, LinesAre
<1>3. IndexOf(l, c) = pos(c) /\ pos(c) \in DOMAIN line
  BY WhereIs
<1>4. PICK len \in Nat : len = Len(line) /\ DOMAIN line = 1..len
  BY <1>1 DEF Placed
<1>5. PICK k \in 1..len :
         /\ line[k].new = value
         /\ \A d \in 1..n : IF d < c THEN pos(d) < k ELSE k < pos(d)
  BY <1>2, <1>4 DEF InGap
<1>6. \A d \in 1..n : d \in Nat /\ pos(d) \in Nat
  <2>1. ASSUME NEW d \in 1..n
        PROVE  d \in Nat /\ pos(d) \in Nat
    <3>1. d \in Nat
      OBVIOUS
    <3>2. ShiftSum(shift[l], d) \in Nat
      BY <3>1, <1>1, SumIs
    <3>3. QED
      BY <3>1, <3>2
  <2>2. QED
    BY <2>1
<1>7. k \in 1..pos(c) - 1
  BY <1>2, <1>5, <1>6
<1>8. ASSUME NEW m \in k..pos(c) - 1
      PROVE  line[m].new # None
  <2>1. m \in 1..len
    BY <1>2, <1>3, <1>4, <1>6, <1>8
  <2>2. ASSUME NEW d \in 1..n, m = pos(d) PROVE FALSE
    <3>1. CASE d < c
      BY <3>1, <2>2, <1>5, <1>6
    <3>2. CASE c <= d
      <4>1. /\ ShiftSum(shift[l], c) <= ShiftSum(shift[l], d)
            /\ ShiftSum(shift[l], c) \in Nat /\ ShiftSum(shift[l], d) \in Nat
        BY <3>2, <1>1, <1>2, SumIs DEF Ordered
      <4>2. pos(c) <= pos(d)
        BY <3>2, <4>1, <1>2
      <4>3. QED
        BY <4>2, <2>2, <1>2, <1>6
    <3>3. QED
      BY <3>1, <3>2, <1>2
  <2> HIDE DEF pos
  <2>3. line[m].at = <<0, 0>>
    BY <2>1, <2>2, <1>1, <1>2, <1>4 DEF Placed, pos
  <2>4. QED
    BY <2>1, <2>3, <1>1, <1>4 DEF Filled
<1> HIDE DEF pos
<1>9. k \in {j \in 1..pos(c) - 1 : \A m \in j..pos(c) - 1 : line[m].new # None}
  BY <1>7, <1>8
<1>10. QED
  BY <1>3, <1>5, <1>9 DEF NewBefore

\* ... and directly behind the character before.
LEMMA GapBehind ==
    ASSUME WitnessInv, LinesOK, NEW l \in DOMAIN prog.lines, NEW c \in DOMAIN prog.lines[l],
           NEW value, InGap(cLines[l], shift[l], Len(prog.lines[l]), c + 1, value)
    PROVE  value \in NewBehind(l, IndexOf(l, c))
<1> DEFINE pos(d) == d + ShiftSum(shift[l], d)
           line   == cLines[l]
<1>1. /\ IsProgram(prog) /\ shift[l] \in Records /\ Ordered(shift[l]) /\ Filled(line)
      /\ Placed(line, shift[l], l, Len(prog.lines[l]))
  BY DEF WitnessInv, InputOK, TextOK, Recorded, LinesOK
<1>2. PICK n \in Nat : n = Len(prog.lines[l]) /\ DOMAIN prog.lines[l] = 1..n
  BY <1>1, LinesAre
<1>3. IndexOf(l, c) = pos(c) /\ pos(c) \in DOMAIN line
  BY WhereIs
<1>4. PICK len \in Nat : len = Len(line) /\ DOMAIN line = 1..len
  BY <1>1 DEF Placed
<1>5. PICK k \in 1..len :
         /\ line[k].new = value
         /\ \A d \in 1..n : IF d < c + 1 THEN pos(d) < k ELSE k < pos(d)
  BY <1>2, <1>4 DEF InGap
<1>6. \A d \in 1..n : d \in Nat /\ pos(d) \in Nat
  <2>1. ASSUME NEW d \in 1..n
        PROVE  d \in Nat /\ pos(d) \in Nat
    <3>1. d \in Nat
      OBVIOUS
    <3>2. ShiftSum(shift[l], d) \in Nat
      BY <3>1, <1>1, SumIs
    <3>3. QED
      BY <3>1, <3>2
  <2>2. QED
    BY <2>1
<1>7. k \in pos(c) + 1..len
  BY <1>2, <1>5, <1>6
<1>8. ASSUME NEW m \in pos(c) + 1..k
      PROVE  line[m].new # None
  <2>1. m \in 1..len
    BY <1>2, <1>3, <1>4, <1>6, <1>8
  <2>2. ASSUME NEW d \in 1..n, m = pos(d) PROVE FALSE
    <3>1. CASE c < d
      BY <3>1, <2>2, <1>2, <1>5, <1>6
    <3>2. CASE d <= c
      <4>1. /\ ShiftSum(shift[l], d) <= ShiftSum(shift[l], c)
            /\ ShiftSum(shift[l], c) \in Nat /\ ShiftSum(shift[l], d) \in Nat
        BY <3>2, <1>1, <1>2, SumIs DEF Ordered
      <4>2. pos(d) <= pos(c)
        BY <3>2, <4>1, <1>2
      <4>3. QED
        BY <4>2, <2>2, <1>2, <1>6
    <3>3. QED
      BY <3>1, <3>2, <1>2
  <2> HIDE DEF pos
  <2>3. line[m].at = <<0, 0>>
    BY <2>1, <2>2, <1>1, <1>2, <1>4 DEF Placed, pos
  <2>4. QED
    BY <2>1, <2>3, <1>1, <1>4 DEF Filled
<1> HIDE DEF pos
<1>9. k \in {j \in pos(c) + 1..len : \A m \in pos(c) + 1..j : line[m].new # None}
  BY <1>7, <1>8
<1>10. QED
  BY <1>3, <1>4, <1>5, <1>9 DEF NewBehind

LEMMA SameStatements ==
    ASSUME UNCHANGED prog
    PROVE  /\ Nodes' = Nodes
           /\ \A n : Inside(n)' = Inside(n) /\ End(n)' = End(n) /\ Brackets(n)' = Brackets(n)
           /\ \A n, k : StatementAt(n, k)' <=> StatementAt(n, k)
<1>1. \A n : Kind(n)' = Kind(n) /\ Start(n)' = Start(n) /\ Parent(n)' = Parent(n)
  BY DEF Kind, Start, Parent
<1>2. \A n : Children(n)' = Children(n)
  BY <1>1 DEF Children, Nodes
<1>3. \A n : Index(n)' = Index(n) /\ (IsLast(n)' <=> IsLast(n))
  BY <1>1, <1>2 DEF Index, IsLast
<1>4. \A n : IsStatement(n)' <=> IsStatement(n)
  BY <1>1, <1>3 DEF IsStatement
<1>5. Nodes' = Nodes
  BY DEF Nodes
<1>6. \A n : Inside(n)' = Inside(n) /\ End(n)' = End(n) /\ Brackets(n)' = Brackets(n)
  BY <1>1 DEF Inside, Brackets, Block, End
<1>7. \A n, k : StatementAt(n, k)' <=> StatementAt(n, k)
  BY <1>1, <1>4 DEF StatementAt
<1>8. QED
  BY <1>5, <1>6, <1>7

LEMMA SameStored ==
    ASSUME StatementsOK, UNCHANGED <<prog, assumptions>>
    PROVE  StatementsOK'
<1>1. prog' = prog /\ assumptions' = assumptions
  OBVIOUS
<1>2. /\ Nodes' = Nodes
      /\ \A n : Inside(n)' = Inside(n) /\ End(n)' = End(n) /\ Brackets(n)' = Brackets(n)
      /\ \A n, k : StatementAt(n, k)' <=> StatementAt(n, k)
  BY <1>1, SameStatements
<1>3. QED
  BY <1>1, <1>2 DEF StatementsOK

LEMMA VisitKeepsStatements ==
    ASSUME InputOK, StatementsOK, NEW n \in Nodes, VisitAssumption(n), UNCHANGED prog
    PROVE  StatementsOK'
<1> DEFINE entry == <<Inside(n), End(n), Brackets(n)>>
           keys  == Keys(assumptions, Start(n))
<1>1. assumptions' = IF IsStatement(n) THEN Store(assumptions, keys, entry) ELSE assumptions
  BY DEF VisitAssumption, Inside, Brackets, Block
<1>2. CASE IsStatement(n)
  <2>1. assumptions' = [k \in DOMAIN assumptions |-> IF k \in keys THEN entry ELSE assumptions[k]]
    BY <1>1, <1>2 DEF Store
  <2>2. ASSUME NEW k \in keys PROVE StatementAt(n, k)
    <3>1. Start(n) \in Spots(prog)
      BY NodesAre DEF InputOK
    <3>2. k \in {<<Start(n)[1], Start(n)[2]>>, <<Start(n)[1], 0>>}
      BY <3>1 DEF Keys, Spots
    <3>3. QED
      BY <1>2, <3>2 DEF StatementAt
  <2> HIDE DEF keys, entry
  <2>3. \A k \in DOMAIN assumptions' :
           \/ assumptions'[k] = None
           \/ \E m \in Nodes : StatementAt(m, k)
                               /\ assumptions'[k] = <<Inside(m), End(m), Brackets(m)>>
    BY <2>1, <2>2 DEF StatementsOK, entry
  <2>4. /\ Nodes' = Nodes
        /\ \A m : Inside(m)' = Inside(m) /\ End(m)' = End(m) /\ Brackets(m)' = Brackets(m)
        /\ \A m, k : StatementAt(m, k)' <=> StatementAt(m, k)
    BY SameStatements
  <2>5. QED
    BY <2>3, <2>4 DEF StatementsOK
<1>3. CASE ~IsStatement(n)
  BY <1>1, <1>3, SameStored
<1>4. QED
  BY <1>2, <1>3

\* Where the texts for a statement go: the semicolon behind a body is there.
LEMMA GapsOf ==
    ASSUME InputOK, RolesOK, NEW p \in Positions, Way(p).type = "assumption",
           NEW n \in Nodes, StatementAt(n, Loc(Way(p)))
    PROVE  /\ Start(n)[1] \in DOMAIN prog.lines
           /\ Start(n)[2] \in DOMAIN prog.lines[Start(n)[1]]
           /\ Inside(n)[1] = Start(n)[1]
           /\ Inside(n)[2] \in 1..Len(prog.lines[Start(n)[1]]) + 1
           /\ prog.nodes[n].role \in {"stmt", "body"}
           /\ ~Block(n) => (Brackets(n) <=> prog.nodes[n].role = "body")
           /\ Brackets(n) =>
                 /\ End(n)[1] \in DOMAIN prog.lines
                 /\ End(n)[2] \in DOMAIN prog.lines[End(n)[1]]
                 /\ End(n)[2] + 1 \in 1..Len(prog.lines[End(n)[1]]) + 1
<1>1. IsProgram(prog)
  BY DEF InputOK
<1>2. /\ Start(n) \in Spots(prog) /\ End(n) \in Spots(prog)
      /\ Start(n)[2] \in DOMAIN prog.lines[Start(n)[1]]
  BY <1>1, NodesAre
<1>3. /\ Start(n)[1] \in DOMAIN prog.lines /\ End(n)[1] \in DOMAIN prog.lines
      /\ Start(n)[2] \in Nat \ {0} /\ End(n)[2] \in Nat \ {0}
  BY <1>1, <1>2, SpotsAre
<1>4. \A l \in DOMAIN prog.lines :
         Len(prog.lines[l]) \in Nat /\ DOMAIN prog.lines[l] = 1..Len(prog.lines[l])
  BY <1>1, LinesAre
<1>5. Start(n)[2] \in 1..Len(prog.lines[Start(n)[1]])
  BY <1>2, <1>3, <1>4
<1>6. Inside(n)[1] = Start(n)[1] /\ Inside(n)[2] \in 1..Len(prog.lines[Start(n)[1]]) + 1
  <2>1. PICK len \in Nat : len = Len(prog.lines[Start(n)[1]])
    BY <1>3, <1>4
  <2>2. Inside(n)[1] = Start(n)[1] /\ Inside(n)[2] \in {Start(n)[2], Start(n)[2] + 1}
    BY DEF Inside, Plus
  <2>3. Start(n)[2] \in 1..len
    BY <1>5, <2>1
  <2>4. QED
    BY <2>1, <2>2, <2>3
<1>7. n \in DOMAIN prog.nodes /\ RoleFits(prog, n) /\ IsStatement(n)
  <2>1. n \in DOMAIN prog.nodes /\ IsStatement(n)
    BY <1>1, NodesAre DEF StatementAt
  <2>2. Way(p).line = Start(n)[1] /\ Way(p).col \in {0, Start(n)[2]}
    BY DEF StatementAt, Loc
  <2>3. p[1] \in DOMAIN witness /\ p[2] \in DOMAIN witness[p[1]]
    BY PositionsAre
  <2>4. AssumedAt(witness, Start(n))
    BY <2>2, <2>3 DEF AssumedAt, Way
  <2>5. QED
    BY <2>1, <2>4 DEF RolesOK, Start
<1> DEFINE e      == prog.nodes[n]
           within == Kind(Parent(n))
<1>8. /\ e.parent = Parent(n) /\ e.kind = Kind(n) /\ e.end = End(n)
      /\ within = IF e.parent = 0 THEN "unit" ELSE prog.nodes[e.parent].kind
      /\ ChildrenIn(prog, e.parent) = Children(Parent(n))
  <2>1. n # 0
    BY <1>1, NodesAre DEF Nodes
  <2>2. \A m : ChildrenIn(prog, m) = Children(m)
    BY <1>1, NodesAre DEF ChildrenIn, Children, Parent
  <2>3. QED
    BY <2>1, <2>2 DEF Kind, Parent, End
<1>9. within = "compound" => e.role = "stmt"
  BY <1>7, <1>8 DEF RoleFits
<1>10. within # "compound" =>
          IF Kind(n) = "compound" THEN e.role \in {"stmt", "body"}
          ELSE e.role = "body" /\ End(n)[2] \in DOMAIN prog.lines[End(n)[1]]
  <2> DEFINE older == Cardinality({m \in Children(Parent(n)) : m < n})
             body  == \/ within = "label" \/ Kind(n) \in StatementKinds
                      \/ within \in {"while", "switch", "for", "case"}
                         /\ \A m \in Children(Parent(n)) : m <= n
                      \/ within = "if" /\ older # 0
                      \/ within = "do" /\ older = 0
  <2>1. within # "compound" /\ body =>
           IF Kind(n) = "compound" THEN e.role \in {"stmt", "body"}
           ELSE e.role = "body" /\ End(n)[2] \in DOMAIN prog.lines[End(n)[1]]
    BY <1>7, <1>8 DEF RoleFits
  <2>2. within # "compound" => body
    BY <1>7 DEF IsStatement, Index, IsLast
  <2>3. QED
    BY <2>1, <2>2
<1> HIDE DEF e, within
<1>11. Brackets(n) => End(n)[2] \in DOMAIN prog.lines[End(n)[1]]
  BY <1>10 DEF Brackets, Block, within
<1>12. Brackets(n) => End(n)[2] + 1 \in 1..Len(prog.lines[End(n)[1]]) + 1
  <2>1. PICK len \in Nat : len = Len(prog.lines[End(n)[1]]) /\ DOMAIN prog.lines[End(n)[1]] = 1..len
    BY <1>3, <1>4
  <2>2. QED
    BY <2>1, <1>11
<1>13. e.role \in {"stmt", "body"} /\ (~Block(n) => (Brackets(n) <=> e.role = "body"))
  BY <1>9, <1>10 DEF Brackets, Block, within
<1>14. QED
  BY <1>2, <1>3, <1>6, <1>11, <1>12, <1>13 DEF e

LEMMA InitGuardInv == Init => GuardInv
<1> SUFFICES ASSUME Init PROVE GuardInv
  OBVIOUS
<1>1. WitnessInv
  BY InitWitnessInv
<1>2. RolesOK
  BY RolesAssumption DEF Init, RolesOK
<1>3. StatementsOK
  <2>1. DOMAIN assumptions = {}
    BY DEF Init, None
  <2>2. QED
    BY <2>1 DEF StatementsOK
<1>4. Numbered
  BY DEF Init, Numbered
<1>5. LinesOK
  <2>1. ASSUME NEW l \in DOMAIN prog.lines
        PROVE  Ordered(shift[l]) /\ Filled(cLines[l])
    <3>1. /\ cLines[l] = [c \in DOMAIN prog.lines[l] |-> Source(l, c)]
          /\ shift[l] = <<>>
      BY DEF Init
    <3>2. \A c \in Nat : ShiftSum(<<>>, c) = 0
      BY SumOfNothing
    <3>3. Ordered(shift[l])
      BY <3>1, <3>2 DEF Ordered
    <3>4. l # 0
      BY <1>1, LinesAre DEF WitnessInv, InputOK
    <3>5. \A k \in DOMAIN cLines[l] : cLines[l][k].at # <<0, 0>>
      BY <3>1, <3>4 DEF Source
    <3>6. QED
      BY <3>3, <3>5 DEF Filled
  <2>2. QED
    BY <2>1 DEF LinesOK
<1>6. GuardsOK
  <2>1. ASSUME NEW p \in Positions PROVE ~Past(p)
    <3>1. PICK s \in DOMAIN witness : \E i \in DOMAIN witness[s] : p = <<s, i>>
      BY PositionsAre
    <3>2. PICK i \in DOMAIN witness[s] : p = <<s, i>>
      BY <3>1
    <3>3. s \in Nat \ {0} /\ i \in Nat \ {0} /\ p[1] = s /\ p[2] = i
      BY <3>2, <1>1, StageIs DEF WitnessInv
    <3>4. seg = 1 /\ way = 1
      BY DEF Init
    <3>5. QED
      BY <3>3, <3>4 DEF Past
  <2>2. QED
    BY <2>1 DEF GuardsOK
<1>7. QED
  BY <1>2, <1>3, <1>4, <1>5, <1>6 DEF GuardInv

\* Nothing is put in: what is guarded stays guarded.
LEMMA NotedStays ==
    ASSUME UNCHANGED <<input, text>>,
           Keeps(inserts, inserts')
    PROVE  /\ \A l, col, value : Noted(l, col, value) => Noted(l, col, value)'
           /\ \A p, n : GuardOf(p, n)' = GuardOf(p, n)
           /\ \A p, n : GuardedBy(p, n) => GuardedBy(p, n)'
<1>1. prog' = prog /\ witness' = witness /\ cLines' = cLines /\ shift' = shift
  BY DEF input, text
<1>2. ASSUME NEW l, NEW col, NEW value, Noted(l, col, value)
      PROVE  Noted(l, col, value)'
  <2>1. CASE InGap(cLines[l], shift[l], Len(prog.lines[l]), col, value)
    BY <2>1, <1>1 DEF Noted
  <2>2. CASE Listed(<<l, col, value>>, inserts)
    <3>1. Listed(<<l, col, value>>, inserts')
      BY <2>2 DEF Keeps, Listed
    <3>2. QED
      BY <3>1 DEF Noted, Listed
  <2>3. QED
    BY <2>1, <2>2, <1>2 DEF Noted
<1>3. /\ \A n : Inside(n)' = Inside(n) /\ End(n)' = End(n) /\ Brackets(n)' = Brackets(n)
      /\ \A n, k : StatementAt(n, k)' <=> StatementAt(n, k)
  BY <1>1, SameStatements
<1>4. \A p : Way(p)' = Way(p)
  BY <1>1 DEF Way
<1>5. \A p, n : GuardOf(p, n)' = GuardOf(p, n)
  BY <1>3, <1>4 DEF GuardOf
<1>6. \A p, n : GuardedBy(p, n) => GuardedBy(p, n)'
  <2>1. ASSUME NEW p, NEW n, GuardedBy(p, n)
        PROVE  GuardedBy(p, n)'
    <3>1. StatementAt(n, Loc(Way(p)))'
      BY <2>1, <1>3, <1>4 DEF GuardedBy, Loc
    <3>2. Noted(Inside(n)[1], Inside(n)[2], GuardOf(p, n))'
      BY <2>1, <1>2, <1>3, <1>5 DEF GuardedBy
    <3>3. Brackets(n)' => Noted(End(n)[1], End(n)[2] + 1, Brace)'
      BY <2>1, <1>2, <1>3 DEF GuardedBy
    <3>4. QED
      BY <3>1, <3>2, <3>3 DEF GuardedBy
  <2>2. QED
    BY <2>1
<1>7. QED
  BY <1>2, <1>5, <1>6

LEMMA StillGuarded ==
    ASSUME WitnessInv, GuardInv, UNCHANGED <<input, text>>, bad' = <<>> => bad = <<>>,
           Keeps(inserts, inserts'),
           bad' = <<>> => \A p \in Positions : Way(p).type = "assumption" /\ Past(p)' =>
                             Past(p) \/ \E n \in Nodes : GuardedBy(p, n)'
    PROVE  RolesOK' /\ LinesOK' /\ GuardsOK'
<1>1. prog' = prog /\ witness' = witness /\ cLines' = cLines /\ shift' = shift
  BY DEF input, text
<1>2. RolesOK' /\ Nodes' = Nodes
  BY <1>1, SameStatements DEF GuardInv, RolesOK
<1>3. LinesOK'
  BY <1>1 DEF LinesOK, GuardInv
<1>4. Positions' = Positions /\ \A p : Way(p)' = Way(p)
  BY <1>1 DEF Positions, Way
<1>5. ASSUME bad' = <<>>, NEW p \in Positions, Way(p).type = "assumption", Past(p)'
      PROVE  \E n \in Nodes : GuardedBy(p, n)'
  <2>1. CASE Past(p)
    <3>1. PICK n \in Nodes : GuardedBy(p, n)
      BY <1>5, <2>1 DEF GuardInv, GuardsOK
    <3>2. GuardedBy(p, n)'
      BY <3>1, NotedStays
    <3>3. QED
      BY <3>2
  <2>2. QED
    BY <2>1, <1>5
<1>6. GuardsOK'
  BY <1>2, <1>4, <1>5 DEF GuardsOK
<1>7. QED
  BY <1>2, <1>3, <1>6

\* Neither the text nor the list of insertions has changed, and no assumption is
\* passed.
LEMMA SameGuards ==
    ASSUME WitnessInv, GuardInv, UNCHANGED <<input, inserts, text>>, bad' = <<>> => bad = <<>>,
           StatementsOK', Numbered',
           bad' = <<>> => \A p \in Positions : Way(p).type = "assumption" /\ Past(p)' => Past(p)
    PROVE  GuardInv'
<1>1. Keeps(inserts, inserts')
  BY DEF Keeps, Listed
<1>2. RolesOK' /\ LinesOK' /\ GuardsOK'
  BY <1>1, StillGuarded
<1>3. QED
  BY <1>2 DEF GuardInv

LEMMA CollectGuards ==
    ASSUME WitnessInv, GuardInv, Collect
    PROVE  GuardInv'
<1>1. /\ UNCHANGED <<input, content, node, cursor, text>> /\ phase' \in {"traverse", "crashed"}
      /\ assumptions' = [l \in LocsOf({"assumption"}) |-> None]
  BY DEF Collect
<1>2. UNCHANGED <<input, inserts, text>> /\ bad' = bad /\ seg' = seg /\ way' = way /\ sIndex' = sIndex
  BY <1>1 DEF cursor
<1>3. StatementsOK'
  BY <1>1 DEF StatementsOK
<1>4. Numbered'
  BY <1>1, <1>2 DEF Numbered, GuardInv
<1>5. \A p : Past(p)' => Past(p)
  BY <1>2 DEF Past
<1>6. QED
  BY <1>2, <1>3, <1>4, <1>5, SameGuards

LEMMA VisitGuards ==
    ASSUME WitnessInv, GuardInv, Visit
    PROVE  GuardInv'
<1>1. UNCHANGED <<input, content, cursor, text>> /\ phase' \in {"traverse", "crashed"}
      /\ node < Len(prog.nodes) /\ node' = node + 1
      /\ (UNCHANGED maps \/ VisitAssumption(node'))
  BY DEF Visit
<1>2. UNCHANGED <<input, inserts, text>> /\ bad' = bad /\ seg' = seg /\ way' = way /\ sIndex' = sIndex
  BY <1>1 DEF cursor
<1>3. prog' = prog
  BY <1>1 DEF input
<1>4. StatementsOK'
  <2>1. CASE UNCHANGED maps
    BY <2>1, <1>3, SameStored DEF maps, GuardInv
  <2>2. CASE VisitAssumption(node')
    <3>1. node' \in Nodes
      BY <1>1 DEF WitnessInv, InputOK, IsProgram, StageOK, Nodes
    <3>2. PICK n \in Nodes : n = node'
      BY <3>1
    <3>3. VisitAssumption(n)
      BY <2>2, <3>2
    <3>4. QED
      BY <3>3, <1>3, VisitKeepsStatements DEF GuardInv, WitnessInv
  <2>3. QED
    BY <2>1, <2>2, <1>1
<1>5. Numbered'
  BY <1>1, <1>2 DEF Numbered, GuardInv
<1>6. \A p : Past(p)' => Past(p)
  BY <1>2 DEF Past
<1>7. QED
  BY <1>2, <1>4, <1>5, <1>6, SameGuards

LEMMA EndTraversalGuards ==
    ASSUME WitnessInv, GuardInv, EndTraversal
    PROVE  GuardInv'
<1>1. UNCHANGED <<input, content, node, maps, cursor, text>> /\ phase' = "waypoints"
  BY DEF EndTraversal
<1>2. UNCHANGED <<input, inserts, text>> /\ bad' = bad /\ seg' = seg /\ way' = way /\ sIndex' = sIndex
  BY <1>1 DEF cursor
<1>3. StatementsOK'
  BY <1>1, SameStored DEF input, maps, GuardInv
<1>4. Numbered'
  BY <1>1, <1>2 DEF Numbered, GuardInv
<1>5. \A p : Past(p)' => Past(p)
  BY <1>2 DEF Past
<1>6. QED
  BY <1>2, <1>3, <1>4, <1>5, SameGuards

LEMMA InvalidLocationGuards ==
    ASSUME WitnessInv, GuardInv, InvalidLocation
    PROVE  GuardInv'
<1>1. /\ UNCHANGED <<input, content, node, maps, seg, covered, inserts, text>>
      /\ \/ bad' = Append(bad, sIndex) /\ UNCHANGED phase
         \/ phase' = "rejected" /\ UNCHANGED <<bad, sIndex, way>>
  BY DEF InvalidLocation
<1>2. phase = "waypoints" /\ bad \in Seq(Nat)
  BY DEF InvalidLocation, Here, WitnessInv, StageOK
<1>3. UNCHANGED <<input, inserts, text>>
  BY <1>1
<1>4. StatementsOK'
  BY <1>1, SameStored DEF input, maps, GuardInv
<1>5. bad' # <<>> \/ (bad' = bad /\ sIndex' = sIndex /\ way' = way)
  BY <1>1, <1>2
<1>6. Numbered'
  BY <1>1, <1>2, <1>5 DEF Numbered, GuardInv
<1>7. bad' = <<>> => bad = <<>> /\ \A p : Past(p)' => Past(p)
  BY <1>1, <1>5 DEF Past
<1>8. QED
  BY <1>3, <1>4, <1>6, <1>7, SameGuards

\* One waypoint further, which is no assumption.
LEMMA PassGuards ==
    ASSUME WitnessInv, GuardInv, NEW type, type # "assumption", Here(type), NextWaypoint,
           UNCHANGED <<input, maps, sIndex, text>>,
           Keeps(inserts, inserts')
    PROVE  GuardInv'
<1>1. /\ Way(<<seg, way>>).type = type /\ phase = "waypoints"
      /\ \A p \in Positions : p = <<seg, way>> \/ Past(p) <=> Past(p)'
  BY HereIs DEF Past, NextWaypoint, Here
<1>2. phase' = phase /\ seg' = seg /\ bad' = bad /\ sIndex' = sIndex
  BY DEF NextWaypoint
<1>3. StatementsOK'
  BY SameStored DEF input, maps, GuardInv
<1>4. Numbered'
  BY <1>1, <1>2 DEF Numbered, GuardInv
<1>5. RolesOK' /\ LinesOK' /\ GuardsOK'
  BY <1>1, <1>2, StillGuarded
<1>6. QED
  BY <1>3, <1>4, <1>5 DEF GuardInv

LEMMA CallWaypointGuards ==
    ASSUME WitnessInv, GuardInv, CallWaypoint
    PROVE  GuardInv'
<1>1. Here("call") /\ NextWaypoint /\ UNCHANGED <<input, maps, sIndex, inserts, text>>
  BY DEF CallWaypoint
<1>2. Keeps(inserts, inserts')
  BY <1>1 DEF Keeps, Listed
<1>3. QED
  BY <1>1, <1>2, PassGuards

LEMMA TargetWaypointGuards ==
    ASSUME WitnessInv, GuardInv, TargetWaypoint
    PROVE  GuardInv'
<1>1. Here("target") /\ NextWaypoint /\ UNCHANGED <<input, maps, sIndex, inserts, text>>
  BY DEF TargetWaypoint
<1>2. Keeps(inserts, inserts')
  BY <1>1 DEF Keeps, Listed
<1>3. QED
  BY <1>1, <1>2, PassGuards

\* A longer list has all it had.
LEMMA ConcatKeeps ==
    ASSUME NEW S, NEW s \in Seq(S), NEW T, NEW t \in Seq(T)
    PROVE  s \o t \in Seq(S \cup T) /\ Keeps(s, s \o t) /\ Keeps(t, s \o t)
<1> DEFINE U   == S \cup T
           new == s \o t
<1>1. s \in Seq(U) /\ t \in Seq(U)
  BY SeqMonotonic
<1> HIDE DEF U
<1>2. PICK m \in Nat, n \in Nat : m = Len(s) /\ DOMAIN s = 1..m /\ n = Len(t) /\ DOMAIN t = 1..n
  OBVIOUS
<1>3. /\ new \in Seq(U) /\ Len(new) = m + n
      /\ \A i \in 1..m + n : new[i] = IF i <= m THEN s[i] ELSE t[i - m]
  BY <1>1, <1>2, ConcatProperties
<1> HIDE DEF new
<1>4. DOMAIN new = 1..m + n
  BY <1>3
<1>5. \A i \in DOMAIN s : i \in DOMAIN new /\ new[i] = s[i]
  BY <1>2, <1>3, <1>4
<1>6. ASSUME NEW i \in DOMAIN t
      PROVE  m + i \in DOMAIN new /\ new[m + i] = t[i]
  <2>1. m + i \in 1..m + n /\ ~(m + i <= m) /\ (m + i) - m = i
    BY <1>2
  <2>2. QED
    BY <2>1, <1>3, <1>4
<1>7. QED
  BY <1>3, <1>5, <1>6 DEF new, U, Keeps, Listed

LEMMA ConcatOne ==
    ASSUME NEW S, NEW s \in Seq(S), NEW x
    PROVE  /\ s \o <<x>> \in Seq(S \cup {x})
           /\ Keeps(s, s \o <<x>>) /\ Listed(x, s \o <<x>>)
<1>1. PICK T : T = {x}
  OBVIOUS
<1>2. PICK t \in Seq(T) : t = <<x>> /\ 1 \in DOMAIN t /\ t[1] = x
  <2>1. <<x>> \in Seq({x}) /\ 1 \in DOMAIN <<x>> /\ <<x>>[1] = x
    OBVIOUS
  <2>2. QED
    BY <2>1, <1>1
<1>3. s \o t \in Seq(S \cup T) /\ Keeps(s, s \o t) /\ Keeps(t, s \o t)
  BY ConcatKeeps, Zenon
<1>4. Listed(x, s \o t)
  BY <1>2, <1>3, Zenon DEF Keeps
<1>5. QED
  BY <1>1, <1>2, <1>3, <1>4, Zenon

LEMMA BranchingWaypointGuards ==
    ASSUME WitnessInv, GuardInv, BranchingWaypoint
    PROVE  GuardInv'
<1>1. Here("branching") /\ NextWaypoint /\ UNCHANGED <<input, maps, sIndex, text>>
  BY DEF BranchingWaypoint
<1>2. inserts' = inserts \/ \E x, y : inserts' = inserts \o <<x, y>>
  BY DEF BranchingWaypoint
<1>3. Keeps(inserts, inserts')
  <2>1. CASE inserts' = inserts
    BY <2>1 DEF Keeps, Listed
  <2>2. ASSUME NEW x, NEW y, inserts' = inserts \o <<x, y>>
        PROVE  Keeps(inserts, inserts')
    <3>1. PICK t \in Seq({x, y}) : t = <<x, y>>
      <4>1. <<x, y>> \in Seq({x, y})
        OBVIOUS
      <4>2. QED
        BY <4>1
    <3>2. PICK S : inserts \in Seq(S)
      BY DEF WitnessInv, InsertsOK
    <3>3. Keeps(inserts, inserts \o t)
      BY <3>1, <3>2, ConcatKeeps, Zenon
    <3>4. QED
      BY <2>2, <3>1, <3>3
  <2>3. QED
    BY <2>1, <2>2, <1>2
<1>4. QED
  BY <1>1, <1>3, PassGuards

\* The texts for the statement are noted down, under the number of the segment.
LEMMA AssumptionWaypointGuards ==
    ASSUME WitnessInv, GuardInv, AssumptionWaypoint
    PROVE  GuardInv'
<1>1. Here("assumption") /\ ~Invalid(Waypoint) /\ NextWaypoint
      /\ UNCHANGED <<input, maps, sIndex, text>>
  BY DEF AssumptionWaypoint
<1>2. phase = "waypoints" /\ phase' = phase /\ seg' = seg /\ bad' = bad /\ sIndex' = sIndex
  BY <1>1 DEF NextWaypoint, Here
<1>0. PICK p0 : p0 = <<seg, way>>
  OBVIOUS
<1>3. /\ p0 \in Positions /\ p0[1] = seg /\ Waypoint = Way(p0) /\ Waypoint.type = "assumption"
      /\ WLoc \in LocsOf({"assumption"})
      /\ \A p \in Positions : p = p0 \/ Past(p) <=> Past(p)'
  BY <1>0, <1>1, HereIs DEF Past, NextWaypoint
<1>4. WLoc \in DOMAIN assumptions /\ WLoc = Loc(Way(p0))
  BY <1>2, <1>3 DEF WitnessInv, KeysOK, WLoc
<1>5. assumptions[WLoc] # None
  BY <1>1, <1>3 DEF Invalid, WLoc
<1>6. PICK n \in Nodes : /\ StatementAt(n, WLoc)
                         /\ assumptions[WLoc] = <<Inside(n), End(n), Brackets(n)>>
  BY <1>4, <1>5 DEF GuardInv, StatementsOK
<1> DEFINE call  == CreateAssumption(Waypoint.constraint, sIndex,
                                     Waypoint.action # "avoid", Brackets(n))
           brace == <<End(n)[1], End(n)[2] + 1, Brace>>
           item  == <<Inside(n)[1], Inside(n)[2], call>>
           opt   == IF Brackets(n) THEN <<brace>> ELSE <<>>
<1>7. inserts' = (inserts \o opt) \o <<item>>
  BY <1>6 DEF AssumptionWaypoint
<1>8. bad = <<>> => call = GuardOf(p0, n)
  BY <1>3 DEF GuardOf, GuardInv, Numbered
<1> HIDE DEF call
<1>9. /\ Keeps(inserts, inserts')
      /\ Listed(item, inserts')
      /\ Brackets(n) => Listed(brace, inserts')
  <2> HIDE DEF item, brace
  <2>1. PICK S : inserts \in Seq(S)
    BY DEF WitnessInv, InsertsOK
  <2> DEFINE mid == inserts \o opt
  <2>2. /\ \E T : mid \in Seq(T)
        /\ Keeps(inserts, mid)
        /\ Brackets(n) => Listed(brace, mid)
    <3>1. CASE Brackets(n)
      <4>1. opt = <<brace>>
        BY <3>1
      <4> HIDE DEF opt
      <4>2. mid \in Seq(S \cup {brace}) /\ Keeps(inserts, mid) /\ Listed(brace, mid)
        BY <4>1, <2>1, ConcatOne, Zenon
      <4>3. QED
        BY <4>2
    <3>2. CASE ~Brackets(n)
      <4>1. opt = <<>> /\ inserts \o <<>> = inserts
        BY <3>2, <2>1
      <4> HIDE DEF opt
      <4>2. Keeps(inserts, inserts)
        BY DEF Keeps, Listed
      <4>3. QED
        BY <4>1, <4>2, <3>2, <2>1, Zenon
    <3>3. QED
      BY <3>1, <3>2
  <2> HIDE DEF opt
  <2>3. inserts' = mid \o <<item>>
    BY <1>7, Zenon
  <2> HIDE DEF mid
  <2>4. Keeps(mid, inserts') /\ Listed(item, inserts')
    BY <2>2, <2>3, ConcatOne, Zenon
  <2>5. QED
    BY <2>2, <2>4, Zenon DEF Keeps, Listed
<1> HIDE DEF opt
<1>10. prog' = prog /\ witness' = witness
  BY <1>1 DEF input
<1>11. bad' = <<>> => GuardedBy(p0, n)'
  <2>1. Inside(n)' = Inside(n) /\ End(n)' = End(n) /\ Brackets(n)' = Brackets(n)
    BY <1>10, SameStatements
  <2>2. Way(p0)' = Way(p0)
    BY <1>10 DEF Way
  <2>3. GuardOf(p0, n)' = GuardOf(p0, n)
    BY <2>1, <2>2 DEF GuardOf
  <2>4. ASSUME bad = <<>>
        PROVE  Noted(Inside(n)[1], Inside(n)[2], GuardOf(p0, n))'
    <3>1. Listed(<<Inside(n)[1], Inside(n)[2], GuardOf(p0, n)>>, inserts')
      BY <2>4, <1>8, <1>9
    <3>2. QED
      BY <3>1, <2>1, <2>3 DEF Noted, Listed
  <2>5. Brackets(n)' => Noted(End(n)[1], End(n)[2] + 1, Brace)'
    <3>1. Brackets(n) => Listed(<<End(n)[1], End(n)[2] + 1, Brace>>, inserts')
      BY <1>9
    <3>2. QED
      BY <3>1, <2>1 DEF Noted, Listed
  <2>6. StatementAt(n, Loc(Way(p0)))'
    <3>1. \A k : StatementAt(n, k)' <=> StatementAt(n, k)
      BY <1>10, SameStatements
    <3>2. QED
      BY <3>1, <2>2, <1>4, <1>6 DEF Loc
  <2>7. QED
    BY <2>4, <2>5, <2>6, <1>2 DEF GuardedBy
<1>12. StatementsOK'
  BY <1>1, SameStored DEF input, maps, GuardInv
<1>13. Numbered'
  BY <1>2 DEF Numbered, GuardInv
<1>14. RolesOK' /\ LinesOK' /\ GuardsOK'
  <2>1. bad' = <<>> => \A p \in Positions : Way(p).type = "assumption" /\ Past(p)' =>
                          Past(p) \/ \E m \in Nodes : GuardedBy(p, m)'
    BY <1>3, <1>11
  <2>2. QED
    BY <2>1, <1>1, <1>2, <1>9, StillGuarded
<1>15. QED
  BY <1>12, <1>13, <1>14 DEF GuardInv

\* The end of a segment passes no waypoint.
LEMMA EndSegmentPasses ==
    ASSUME WitnessInv, EndSegment
    PROVE  \A p \in Positions : Past(p)' => Past(p)
<1>1. /\ seg <= Len(content) /\ way > Len(content[seg])
      /\ seg' = seg + 1 /\ way' = 1
  BY DEF EndSegment
<1>2. InputOK /\ StageOK /\ ContentOK
  BY DEF WitnessInv
<1>3. seg \in 1..Len(witness) /\ seg \in Nat /\ way \in Nat /\ Len(witness) \in Nat
  <2>1. seg <= Len(witness)
    BY <1>1, <1>2, SegmentsAre
  <2>2. QED
    BY <2>1, <1>2, StageIs
<1>4. ASSUME NEW p \in Positions, Past(p)'
      PROVE  Past(p)
  <2>0. PICK s \in DOMAIN witness : \E i \in DOMAIN witness[s] : p = <<s, i>>
    BY PositionsAre
  <2>1. PICK i \in DOMAIN witness[s] : p = <<s, i>>
    BY <2>0
  <2>2. s \in Nat /\ i \in Nat /\ i >= 1 /\ p[1] = s /\ p[2] = i
    BY <2>1, <1>2, StageIs
  <2>3. s = seg => i < way
    <3>1. ASSUME s = seg PROVE i < way
      <4>1. i <= Len(witness[s]) /\ Len(witness[s]) \in Nat
        BY <1>2, StageIs
      <4>2. way > Len(witness[s])
        BY <3>1, <1>1, <1>2, SegmentsAre
      <4>3. QED
        BY <4>1, <4>2, <2>2, <1>3
    <3>2. QED
      BY <3>1
  <2>4. QED
    BY <2>2, <2>3, <1>1, <1>3, <1>4 DEF Past
<1>5. QED
  BY <1>4

LEMMA EndSegmentGuards ==
    ASSUME WitnessInv, GuardInv, EndSegment
    PROVE  GuardInv'
<1>1. /\ UNCHANGED <<phase, input, content, node, maps, covered, inserts, bad, text>>
      /\ phase = "waypoints" /\ seg <= Len(content) /\ way > Len(content[seg])
      /\ seg' = seg + 1 /\ way' = 1 /\ sIndex' = sIndex + 1
  BY DEF EndSegment
<1>2. InputOK /\ StageOK /\ ContentOK
  BY DEF WitnessInv
<1>3. UNCHANGED <<input, inserts, text>> /\ bad' = bad /\ phase' = phase
  BY <1>1
<1>4. seg \in 1..Len(witness) /\ seg \in Nat /\ way \in Nat /\ Len(witness) \in Nat
  <2>1. seg <= Len(witness)
    BY <1>1, <1>2, SegmentsAre
  <2>2. QED
    BY <2>1, <1>2, StageIs
<1>5. StatementsOK'
  BY <1>1, SameStored DEF input, maps, GuardInv
<1>6. Numbered'
  <2>1. bad = <<>> => sIndex = seg - 1
    BY DEF GuardInv, Numbered
  <2>2. QED
    BY <2>1, <1>1, <1>3, <1>4 DEF Numbered
<1>7. \A p \in Positions : Past(p)' => Past(p)
  BY EndSegmentPasses
<1>8. QED
  BY <1>3, <1>5, <1>6, <1>7, SameGuards

LEMMA EndWaypointsGuards ==
    ASSUME WitnessInv, GuardInv, EndWaypoints
    PROVE  GuardInv'
<1>1. /\ UNCHANGED <<input, content, node, maps, seg, way, sIndex, covered, bad, text>>
      /\ phase' \in {"rejected", "insert"}
      /\ inserts' = inserts \/ \E x : inserts' = Append(inserts, x)
  BY DEF EndWaypoints
<1>2. Keeps(inserts, inserts')
  <2>1. CASE inserts' = inserts
    BY <2>1 DEF Keeps, Listed
  <2>2. ASSUME NEW x, inserts' = Append(inserts, x)
        PROVE  Keeps(inserts, inserts')
    <3>1. PICK S : inserts \in Seq(S)
      BY DEF WitnessInv, InsertsOK
    <3>2. Keeps(inserts, inserts \o <<x>>)
      BY <3>1, ConcatOne, Zenon
    <3>3. inserts \in Seq(S \cup {x}) /\ x \in S \cup {x}
      BY <3>1, SeqMonotonic
    <3>4. inserts' = inserts \o <<x>>
      BY <3>3, <2>2, AppendIsConcat
    <3>5. QED
      BY <3>2, <3>4
  <2>3. QED
    BY <2>1, <2>2, <1>1
<1>3. StatementsOK'
  BY <1>1, SameStored DEF input, maps, GuardInv
<1>4. Numbered'
  BY <1>1 DEF Numbered, GuardInv
<1>5. \A p : Past(p)' => Past(p)
  BY <1>1 DEF Past
<1>6. RolesOK' /\ LinesOK' /\ GuardsOK'
  BY <1>1, <1>2, <1>5, StillGuarded
<1>7. QED
  BY <1>3, <1>4, <1>6 DEF GuardInv

LEMMA ShiftWitnessGuards ==
    ASSUME WitnessInv, GuardInv, ShiftWitness
    PROVE  GuardInv'
<1>1. UNCHANGED <<input, node, maps, cursor, text>> /\ inserts = <<>>
  BY DEF ShiftWitness
<1>2. UNCHANGED <<input, inserts, text>> /\ bad' = bad /\ seg' = seg /\ way' = way /\ sIndex' = sIndex
  BY <1>1 DEF cursor
<1>3. StatementsOK'
  BY <1>1, SameStored DEF input, maps, GuardInv
<1>4. Numbered'
  BY <1>1, <1>2 DEF Numbered, GuardInv
<1>5. \A p : Past(p)' => Past(p)
  BY <1>2 DEF Past
<1>6. QED
  BY <1>2, <1>3, <1>4, <1>5, SameGuards

LEMMA StutteringGuards ==
    ASSUME WitnessInv, GuardInv, UNCHANGED vars
    PROVE  GuardInv'
<1>1. UNCHANGED <<phase, input, maps, cursor, text>>
  BY DEF vars
<1>2. UNCHANGED <<input, inserts, text>> /\ bad' = bad /\ seg' = seg /\ way' = way /\ sIndex' = sIndex
  BY <1>1 DEF cursor
<1>3. StatementsOK'
  BY <1>1, SameStored DEF input, maps, GuardInv
<1>4. Numbered'
  BY <1>1, <1>2 DEF Numbered, GuardInv
<1>5. \A p : Past(p)' => Past(p)
  BY <1>2 DEF Past
<1>6. QED
  BY <1>2, <1>3, <1>4, <1>5, SameGuards

\* The list without one of its items.
LEMMA RemoveKeeps ==
    ASSUME NEW S, NEW s \in Seq(S), NEW i \in DOMAIN s, NEW j \in DOMAIN s, j # i
    PROVE  Listed(s[j], RemoveAt(s, i))
<1>1. PICK n \in Nat : n = Len(s) /\ DOMAIN s = 1..n /\ \A k \in 1..n : s[k] \in S
  OBVIOUS
<1> DEFINE a == SubSeq(s, 1, i - 1)
           b == SubSeq(s, i + 1, n)
<1>2. i \in Int /\ i - 1 \in Int /\ i + 1 \in Int /\ n \in Int /\ i \in 1..n /\ j \in 1..n
  BY <1>1
<1>3. \A k \in 1..i - 1 : s[k] \in S
  BY <1>1
<1>4. \A k \in i + 1..n : s[k] \in S
  BY <1>1
<1>5. /\ a \in Seq(S) /\ Len(a) = (IF 1 <= i - 1 THEN (i - 1) - 1 + 1 ELSE 0)
      /\ \A k \in 1..(i - 1) - 1 + 1 : a[k] = s[1 + k - 1]
  BY <1>2, <1>3, SubSeqProperties
<1>6. /\ b \in Seq(S) /\ Len(b) = (IF i + 1 <= n THEN n - (i + 1) + 1 ELSE 0)
      /\ \A k \in 1..n - (i + 1) + 1 : b[k] = s[i + 1 + k - 1]
  BY <1>2, <1>4, SubSeqProperties
<1>7. RemoveAt(s, i) = a \o b
  BY <1>1 DEF RemoveAt
<1> HIDE DEF a, b
<1>8. Keeps(a, a \o b) /\ Keeps(b, a \o b)
  BY <1>5, <1>6, ConcatKeeps, Zenon
<1>9. CASE j < i
  <2>1. Len(a) = i - 1 /\ DOMAIN a = 1..Len(a)
    BY <1>2, <1>5, <1>9
  <2>2. j \in DOMAIN a /\ j \in 1..(i - 1) - 1 + 1 /\ 1 + j - 1 = j
    BY <2>1, <1>2, <1>9
  <2>3. a[j] = s[j]
    BY <2>2, <1>5
  <2>4. QED
    BY <2>2, <2>3, <1>7, <1>8, Zenon DEF Keeps
<1>10. CASE i < j
  <2> DEFINE k == j - i
  <2>0. i + 1 <= n /\ n - (i + 1) + 1 = n - i
    BY <1>2, <1>10
  <2>1. Len(b) = n - i /\ DOMAIN b = 1..Len(b)
    <3>1. PICK d : d = n - i
      OBVIOUS
    <3>2. n - (i + 1) + 1 = d
      BY <2>0, <3>1
    <3>3. Len(b) = d
      BY <2>0, <3>2, <1>6, Zenon
    <3>4. DOMAIN b = 1..Len(b)
      BY <1>6
    <3>5. QED
      BY <3>1, <3>3, <3>4
  <2>2. k \in DOMAIN b /\ k \in 1..n - (i + 1) + 1 /\ i + 1 + k - 1 = j
    <3>1. k \in 1..n - i /\ i + 1 + k - 1 = j
      BY <1>2, <1>10
    <3> HIDE DEF k
    <3>2. QED
      BY <2>0, <2>1, <3>1, Zenon
  <2> HIDE DEF k
  <2>3. b[k] = s[j]
    BY <2>2, <1>6
  <2>4. QED
    BY <2>2, <2>3, <1>7, <1>8, Zenon DEF Keeps
<1>11. QED
  BY <1>2, <1>9, <1>10

\* One text more in its gap; those that are in stay in theirs.
LEMMA InsertNoted ==
    ASSUME WitnessInv, LinesOK, InsertCall
    PROVE  /\ LinesOK'
           /\ \A l \in DOMAIN prog.lines : \A c \in 1..Len(prog.lines[l]) + 1 : \A v :
                 Noted(l, c, v) => Noted(l, c, v)'
<1>1. InputOK /\ InsertsOK /\ TextOK /\ IsProgram(prog)
  BY DEF WitnessInv, InputOK
<1>2. prog' = prog /\ phase = "insert"
  BY DEF InsertCall, input
<1>3. PICK i \in DOMAIN inserts :
         /\ IsNext(i)
         /\ cLines' = [cLines EXCEPT ![inserts[i][1]] =
                          InsertText(@, inserts[i][2], inserts[i][3])]
         /\ shift' = [shift EXCEPT ![inserts[i][1]] =
                          AddShift(@, inserts[i][2], Width(inserts[i][3]))]
         /\ inserts' = RemoveAt(inserts, i)
  BY DEF InsertCall
<1> DEFINE Items == (DOMAIN prog.lines) \X (Nat \ {0}) \X Values
           l     == inserts[i][1]
           col   == inserts[i][2]
           value == inserts[i][3]
           line  == InsertText(cLines[l], col, value)
           cols  == AddShift(shift[l], col, Width(value))
<1>4. inserts \in Seq(Items)
  BY <1>1 DEF InsertsOK
<1>5. l \in DOMAIN prog.lines /\ col \in Nat \ {0} /\ value \in Values
  <2>1. inserts[i] \in Items
    BY <1>4
  <2>2. QED
    BY <2>1
<1> HIDE DEF Items
<1>6. /\ cLines'[l] = line /\ shift'[l] = cols
      /\ \A m \in DOMAIN prog.lines : m # l => cLines'[m] = cLines[m] /\ shift'[m] = shift[m]
  BY <1>1, <1>3, <1>5 DEF TextOK
<1>7. /\ shift[l] \in Records /\ Descending(shift[l])
      /\ \A j \in DOMAIN shift[l] : col <= shift[l][j][1]
      /\ Placed(cLines[l], shift[l], l, Len(prog.lines[l]))
      /\ Ordered(shift[l]) /\ Filled(cLines[l])
  BY <1>1, <1>2, <1>5 DEF TextOK, Recorded, LinesOK
<1>8. Width(value) \in Nat \ {0} /\ Len(prog.lines[l]) \in Nat /\ cLines[l] \in Seq(Chars)
  BY <1>1, <1>5, <1>7, WidthIs, LinesAre DEF Placed
<1>9. Ordered(cols)
  BY <1>5, <1>7, <1>8, InsertKeepsOrder
<1>10. Filled(line)
  BY <1>5, <1>7, <1>8, InsertKeepsFilled
<1>11. PICK n \in Nat : n = Len(prog.lines[l])
  BY <1>8
<1>12. Placed(cLines[l], shift[l], l, n)
  BY <1>7, <1>11
<1>13. ASSUME NEW c \in Nat, NEW v, InGap(cLines[l], shift[l], n, c, v)
       PROVE  InGap(line, cols, n, c, v)
  BY <1>13, <1>5, <1>7, <1>12, InsertKeepsGaps
<1>14. col <= n + 1 => InGap(line, cols, n, col, value)
  BY <1>5, <1>7, <1>12, InsertedInGap
<1> HIDE DEF l, col, value, line, cols
<1>15. LinesOK'
  <2>1. ASSUME NEW m \in DOMAIN prog.lines
        PROVE  Ordered(shift'[m]) /\ Filled(cLines'[m])
    <3>1. CASE m = l
      BY <3>1, <1>6, <1>9, <1>10
    <3>2. CASE m # l
      BY <3>2, <1>6 DEF LinesOK
    <3>3. QED
      BY <3>1, <3>2
  <2>2. QED
    BY <2>1, <1>2 DEF LinesOK
<1>16. ASSUME NEW m \in DOMAIN prog.lines, NEW c \in 1..Len(prog.lines[m]) + 1, NEW v,
              Noted(m, c, v)
       PROVE  Noted(m, c, v)'
  <2>1. CASE InGap(cLines[m], shift[m], Len(prog.lines[m]), c, v)
    <3>1. InGap(cLines'[m], shift'[m], Len(prog.lines[m]), c, v)
      <4>1. CASE m = l
        <5>1. c \in Nat
          OBVIOUS
        <5>2. QED
          BY <5>1, <4>1, <2>1, <1>6, <1>11, <1>13
      <4>2. CASE m # l
        BY <4>2, <2>1, <1>6
      <4>3. QED
        BY <4>1, <4>2
    <3>2. QED
      BY <3>1, <1>2 DEF Noted
  <2>2. CASE Listed(<<m, c, v>>, inserts)
    <3>1. PICK j \in DOMAIN inserts : inserts[j] = <<m, c, v>>
      BY <2>2 DEF Listed
    <3>2. CASE j = i
      <4>1. m = l /\ c = col /\ v = value
        BY <3>1, <3>2 DEF l, col, value
      <4>2. col <= n + 1
        BY <4>1, <1>11
      <4>3. InGap(cLines'[m], shift'[m], Len(prog.lines[m]), c, v)
        BY <4>1, <4>2, <1>6, <1>11, <1>14
      <4>4. QED
        BY <4>3, <1>2 DEF Noted
    <3>3. CASE j # i
      <4>1. Listed(inserts[j], inserts')
        BY <3>3, <1>3, <1>4, RemoveKeeps
      <4>2. QED
        BY <4>1, <3>1 DEF Noted, Listed
    <3>4. QED
      BY <3>2, <3>3
  <2>3. QED
    BY <2>1, <2>2, <1>16 DEF Noted
<1>17. QED
  BY <1>15, <1>16

LEMMA InsertCallGuards ==
    ASSUME WitnessInv, GuardInv, InsertCall
    PROVE  GuardInv'
<1>1. UNCHANGED <<phase, input, content, node, maps, seg, way, sIndex, covered, bad>>
      /\ phase = "insert"
  BY DEF InsertCall
<1>2. prog' = prog /\ witness' = witness
  BY <1>1 DEF input
<1>3. RolesOK' /\ Nodes' = Nodes
  BY <1>2, SameStatements DEF GuardInv, RolesOK
<1>4. StatementsOK'
  BY <1>1, <1>2, SameStored DEF maps, GuardInv
<1>5. Numbered'
  BY <1>1 DEF Numbered, GuardInv
<1>6. LinesOK'
  BY InsertNoted DEF GuardInv
<1>7. \A p : (Past(p)' <=> Past(p)) /\ Way(p)' = Way(p)
  BY <1>1, <1>2 DEF Past, Way
<1>8. Positions' = Positions
  BY <1>2 DEF Positions
<1>9. ASSUME NEW p \in Positions, Way(p).type = "assumption",
             NEW n \in Nodes, GuardedBy(p, n)
      PROVE  GuardedBy(p, n)'
  <2>1. /\ Inside(n)' = Inside(n) /\ End(n)' = End(n) /\ Brackets(n)' = Brackets(n)
        /\ \A k : StatementAt(n, k)' <=> StatementAt(n, k)
    BY <1>2, SameStatements
  <2>2. StatementAt(n, Loc(Way(p)))
    BY <1>9 DEF GuardedBy
  <2>3. /\ Inside(n)[1] \in DOMAIN prog.lines
        /\ Inside(n)[2] \in 1..Len(prog.lines[Inside(n)[1]]) + 1
        /\ Brackets(n) => /\ End(n)[1] \in DOMAIN prog.lines
                          /\ End(n)[2] + 1 \in 1..Len(prog.lines[End(n)[1]]) + 1
    BY <2>2, <1>9, GapsOf DEF WitnessInv, GuardInv
  <2>4. StatementAt(n, Loc(Way(p)))'
    BY <2>1, <2>2, <1>7 DEF Loc
  <2>5. GuardOf(p, n)' = GuardOf(p, n)
    BY <2>1, <1>7 DEF GuardOf
  <2>6. \A l \in DOMAIN prog.lines : \A c \in 1..Len(prog.lines[l]) + 1 : \A v :
           Noted(l, c, v) => Noted(l, c, v)'
    BY InsertNoted DEF GuardInv
  <2>7. Noted(Inside(n)[1], Inside(n)[2], GuardOf(p, n))'
    <3>1. PICK a, b, v : a = Inside(n)[1] /\ b = Inside(n)[2] /\ v = GuardOf(p, n)
      OBVIOUS
    <3>2. Noted(a, b, v)'
      BY <3>1, <2>3, <2>6, <1>9 DEF GuardedBy
    <3>3. QED
      BY <3>1, <3>2, <2>1, <2>5
  <2>8. Brackets(n)' => Noted(End(n)[1], End(n)[2] + 1, Brace)'
    <3>1. PICK a, b : a = End(n)[1] /\ b = End(n)[2] + 1
      OBVIOUS
    <3>2. Brackets(n) => Noted(a, b, Brace)'
      BY <3>1, <2>3, <2>6, <1>9 DEF GuardedBy
    <3>3. QED
      BY <3>1, <3>2, <2>1
  <2>9. QED
    BY <2>4, <2>7, <2>8 DEF GuardedBy
<1>10. GuardsOK'
  <2>1. ASSUME bad' = <<>>, NEW p \in Positions, Way(p).type = "assumption", Past(p)'
        PROVE  \E n \in Nodes : GuardedBy(p, n)'
    <3>1. PICK n \in Nodes : GuardedBy(p, n)
      BY <2>1, <1>1, <1>7 DEF GuardInv, GuardsOK
    <3>2. QED
      BY <3>1, <2>1, <1>9
  <2>2. QED
    BY <2>1, <1>3, <1>7, <1>8 DEF GuardsOK
<1>11. QED
  BY <1>3, <1>4, <1>5, <1>6, <1>10 DEF GuardInv

\* When nothing is left to put in, what is noted is in the text.
LEMMA GuardsInText ==
    ASSUME WitnessInv, GuardInv, phase = "done",
           NEW p \in Positions, Way(p).type = "assumption",
           NEW n \in Nodes, GuardedBy(p, n)
    PROVE  /\ prog.nodes[n].role \in {"stmt", "body"}
           /\ Names(Way(p), Start(n)) /\ Guarded(n, Way(p), p[1])
<1> DEFINE l    == Start(n)[1]
           k    == IndexOf(l, Start(n)[2])
           role == prog.nodes[n].role
           w    == Way(p)
           call(bracket) == CreateAssumption(w.constraint, p[1] - 1, w.action # "avoid", bracket)
<1>1. inserts = <<>>
  BY DEF GuardInv, Numbered
<1>2. \A m, c, v : Noted(m, c, v) => InGap(cLines[m], shift[m], Len(prog.lines[m]), c, v)
  BY <1>1 DEF Noted, Listed
<1>3. /\ StatementAt(n, Loc(Way(p))) /\ w.line = l /\ w.col \in {0, Start(n)[2]}
      /\ InGap(cLines[Inside(n)[1]], shift[Inside(n)[1]], Len(prog.lines[Inside(n)[1]]),
               Inside(n)[2], GuardOf(p, n))
      /\ Brackets(n) => InGap(cLines[End(n)[1]], shift[End(n)[1]], Len(prog.lines[End(n)[1]]),
                              End(n)[2] + 1, Brace)
  BY <1>2 DEF GuardedBy, StatementAt, Loc
<1>4. /\ l \in DOMAIN prog.lines /\ Start(n)[2] \in DOMAIN prog.lines[l]
      /\ Inside(n)[1] = l /\ role \in {"stmt", "body"}
      /\ ~Block(n) => (Brackets(n) <=> role = "body")
      /\ Brackets(n) => /\ End(n)[1] \in DOMAIN prog.lines
                        /\ End(n)[2] \in DOMAIN prog.lines[End(n)[1]]
  BY <1>3, GapsOf DEF WitnessInv, GuardInv
<1>5. LinesOK
  BY DEF GuardInv
<1>6. GuardOf(p, n) = call(Brackets(n))
  BY DEF GuardOf
<1> HIDE DEF l, role, w, call
<1>7. Guarded(n, w, p[1])
  <2>1. CASE Block(n)
    <3>1. ~Brackets(n) /\ Inside(n)[2] = Start(n)[2] + 1
      BY <2>1 DEF Brackets, Inside, Plus
    <3>2. GuardOf(p, n) \in NewBehind(l, k)
      BY <3>1, <1>3, <1>4, <1>5, GapBehind
    <3>3. Brackets(n) = FALSE
      BY <3>1 DEF Brackets
    <3>4. call(FALSE) \in NewBehind(l, k)
      BY <3>2, <3>3, <1>6
    <3>5. QED
      BY <3>4, <2>1 DEF Guarded, Block, l, call
  <2>2. CASE ~Block(n)
    <3>1. Inside(n)[2] = Start(n)[2]
      BY <2>2 DEF Inside
    <3>2. GuardOf(p, n) \in NewBefore(l, k)
      BY <3>1, <1>3, <1>4, <1>5, GapBefore
    <3>3. Brackets(n) = (role = "body")
      BY <2>2, <1>4 DEF Brackets
    <3>4. call(role = "body") \in NewBefore(l, k)
      BY <3>2, <3>3, <1>6
    <3>5. role = "body" => Brace \in NewBehind(End(n)[1], IndexOf(End(n)[1], End(n)[2]))
      BY <3>3, <1>3, <1>4, <1>5, GapBehind
    <3>6. QED
      BY <3>4, <3>5, <2>2 DEF Guarded, Block, l, role, call
  <2>3. QED
    BY <2>1, <2>2
<1>8. QED
  BY <1>3, <1>4, <1>7 DEF Names, l, role, w

(***************************************************************************)
(* What is noted down for an assumption waypoint stays noted down, first   *)
(* in the list of insertions and then, between the same two characters, in *)
(* the text.                                                               *)
(***************************************************************************)
THEOREM GuardInvariant == Spec => [](WitnessInv /\ GuardInv)
<1>1. Init => GuardInv
  BY InitGuardInv
<1>2. ASSUME WitnessInv, GuardInv, [Next]_vars
      PROVE  GuardInv'
  <2>1. CASE Collect
    BY <2>1, <1>2, CollectGuards
  <2>2. CASE Visit
    BY <2>2, <1>2, VisitGuards
  <2>3. CASE EndTraversal
    BY <2>3, <1>2, EndTraversalGuards
  <2>4. CASE InvalidLocation
    BY <2>4, <1>2, InvalidLocationGuards
  <2>5. CASE CallWaypoint
    BY <2>5, <1>2, CallWaypointGuards
  <2>6. CASE TargetWaypoint
    BY <2>6, <1>2, TargetWaypointGuards
  <2>7. CASE AssumptionWaypoint
    BY <2>7, <1>2, AssumptionWaypointGuards
  <2>8. CASE BranchingWaypoint
    BY <2>8, <1>2, BranchingWaypointGuards
  <2>9. CASE EndSegment
    BY <2>9, <1>2, EndSegmentGuards
  <2>10. CASE EndWaypoints
    BY <2>10, <1>2, EndWaypointsGuards
  <2>11. CASE InsertCall
    BY <2>11, <1>2, InsertCallGuards
  <2>12. CASE ShiftWitness
    BY <2>12, <1>2, ShiftWitnessGuards
  <2>13. CASE UNCHANGED vars
    BY <2>13, <1>2, StutteringGuards
  <2>14. QED
    BY <2>1, <2>2, <2>3, <2>4, <2>5, <2>6, <2>7, <2>8, <2>9, <2>10, <2>11, <2>12, <2>13,
       <1>2 DEF Next
<1>3. QED
  BY <1>1, <1>2, WitnessInvariant, PTL DEF Spec

(***************************************************************************)
(* When the transformation is done, the constraint of every assumption     *)
(* waypoint stands directly before the statement it names (behind the      *)
(* opening brace of a block), under the number of its segment, and a body  *)
(* that got an opening brace has the closing one directly behind it.       *)
(***************************************************************************)
THEOREM AssumptionsAlwaysGuard == Spec => []AssumptionsGuardStatements
<1>1. ASSUME WitnessInv, GuardInv
      PROVE  AssumptionsGuardStatements
  <2>1. ASSUME phase = "done", NEW p \in Positions, Way(p).type = "assumption"
        PROVE  \E n \in Nodes : /\ prog.nodes[n].role \in {"stmt", "body"}
                                /\ Names(Way(p), Start(n))
                                /\ Guarded(n, Way(p), p[1])
    <3>1. seg = Len(witness) + 1 /\ bad = <<>>
      BY <1>1, <2>1 DEF WitnessInv, StageOK
    <3>2. Past(p)
      <4>1. PICK s \in DOMAIN witness : \E i \in DOMAIN witness[s] : p = <<s, i>>
        BY PositionsAre
      <4>2. p[1] = s /\ s \in 1..Len(witness) /\ Len(witness) \in Nat
        BY <4>1, <1>1, StageIs DEF WitnessInv
      <4>3. QED
        BY <4>2, <3>1 DEF Past
    <3>3. PICK n \in Nodes : GuardedBy(p, n)
      BY <1>1, <2>1, <3>1, <3>2 DEF GuardInv, GuardsOK
    <3>4. QED
      BY <1>1, <2>1, <3>3, GuardsInText
  <2>2. QED
    BY <2>1 DEF AssumptionsGuardStatements
<1>2. QED
  BY <1>1, GuardInvariant, PTL

----------------------------------------------------------------------------
(***************************************************************************)
(* The calls for branchings: a third inductive invariant                   *)
(***************************************************************************)

From(n) == prog.nodes[n].ctrl[1]
To(n)   == prog.nodes[n].ctrl[2]

\* What a dictionary holds for a node that is named by place q, and what is put
\* in for it.
EntryOf(n, q) ==
    <<From(n), IF Kind(n) = "for" THEN Plus(To(n), -1) ELSE To(n), q[2]>>
CallOf(n, q) == IF Kind(n) = "switch" THEN SwitchCall(q[1], q[2]) ELSE BranchCall(q[1], q[2])
CloseOf(n)   == IF From(n) = To(n) THEN Close1 ELSE Close
CloseCol(n)  == IF Kind(n) = "for" THEN To(n)[2] ELSE To(n)[2] + 1

\* A location of the witness, with a column or without, is about place q.
KeyOf(k, q) == k[1] = q[1] /\ k[2] \in {0, q[2]}

StoredFor(n, k, entry) ==
    \E q \in PlacesIn(prog, n) : KeyOf(k, q) /\ entry = EntryOf(n, q)

EntriesOK ==
    \A k \in DOMAIN branchings :
        /\ \/ branchings[k] = None
           \/ \E n \in Nodes : Kind(n) # "switch" /\ StoredFor(n, k, branchings[k])
        /\ \/ switches[k] = None
           \/ \E n \in Nodes : Kind(n) = "switch" /\ StoredFor(n, k, switches[k])

\* The column is within the line.
Fits(item) == item[2] \in 1..Len(prog.lines[item[1]]) + 1
ColsOK     == \A i \in DOMAIN inserts : Fits(inserts[i])

\* The call is still to be put in, and then comes before the condition that is
\* added at the same column, or it stands there.
Opened(l, col, value) ==
    \/ Listed(<<l, col, value>>, inserts)
    \/ /\ \A i \in DOMAIN inserts : inserts[i][3] # value
       /\ InGapAfter(cLines[l], shift[l], Len(prog.lines[l]), col, Close1, {value})

WrappedBy(n, q) ==
    /\ Noted(From(n)[1], From(n)[2], CallOf(n, q))
    /\ Noted(To(n)[1], CloseCol(n), CloseOf(n))
    /\ From(n) = To(n) => Opened(From(n)[1], From(n)[2], CallOf(n, q))

CoveredOK ==
    \A loc \in covered :
        \E n \in Nodes : /\ loc \in PlacesIn(prog, n) /\ BranchedAt(witness, loc)
                         /\ WrappedBy(n, loc)

PassedOK ==
    bad = <<>> => \A p \in Positions : Way(p).type = "branching" /\ Past(p) =>
                    Loc(Now(p)) \in covered /\ Names(Way(p), Loc(Now(p)))

\* A call of __VALIDATOR_branch or __VALIDATOR_switch, and the place it names.
IsCall(value)  == value # None /\ value[1] \in {4, 5}
Calling(value) == <<value[2], value[3]>>

\* The text stands in the line once.
OneBlock(line, value) ==
    \E b \in Nat : /\ b + Width(value) <= Len(line)
                   /\ \A m \in 1..Len(line) :
                        line[m].new = value <=> m \in b + 1..b + Width(value)

\* A call for a place is noted down once, and then it is covered.
ListedOnce ==
    \A i \in DOMAIN inserts : IsCall(inserts[i][3]) =>
        /\ Calling(inserts[i][3]) \in covered
        /\ \A j \in DOMAIN inserts : inserts[j][3] = inserts[i][3] => j = i

InTextOnce ==
    \A l \in DOMAIN prog.lines : \A k \in DOMAIN cLines[l] :
        LET value == cLines[l][k].new
        IN  IsCall(value) =>
                /\ Calling(value) \in covered
                /\ \A i \in DOMAIN inserts : inserts[i][3] # value
                /\ OneBlock(cLines[l], value)

WrapInv == EntriesOK /\ ColsOK /\ CoveredOK /\ PassedOK /\ ListedOnce /\ InTextOnce

\* The invariant of an input that fits.
BranchInv == ControlsFit(prog, witness) => WrapInv

LEMMA SameControls ==
    ASSUME UNCHANGED prog
    PROVE  /\ Nodes' = Nodes
           /\ \A n : /\ Kind(n)' = Kind(n) /\ From(n)' = From(n) /\ To(n)' = To(n)
                     /\ CloseOf(n)' = CloseOf(n) /\ CloseCol(n)' = CloseCol(n)
           /\ \A n, q : EntryOf(n, q)' = EntryOf(n, q) /\ CallOf(n, q)' = CallOf(n, q)
           /\ \A n, k, entry : StoredFor(n, k, entry)' <=> StoredFor(n, k, entry)
<1>1. Nodes' = Nodes
  BY DEF Nodes
<1>2. \A n : Kind(n)' = Kind(n) /\ From(n)' = From(n) /\ To(n)' = To(n)
  BY DEF Kind, From, To
<1>3. \A n : CloseOf(n)' = CloseOf(n) /\ CloseCol(n)' = CloseCol(n)
  BY <1>2 DEF CloseOf, CloseCol
<1>4. \A n, q : EntryOf(n, q)' = EntryOf(n, q) /\ CallOf(n, q)' = CallOf(n, q)
  BY <1>2 DEF EntryOf, CallOf
<1>5. \A n, k, entry : StoredFor(n, k, entry)' <=> StoredFor(n, k, entry)
  BY <1>4 DEF StoredFor
<1>6. QED
  BY <1>1, <1>2, <1>3, <1>4, <1>5

LEMMA SameEntries ==
    ASSUME EntriesOK, UNCHANGED <<prog, branchings, switches>>
    PROVE  EntriesOK'
<1>1. prog' = prog /\ branchings' = branchings /\ switches' = switches
  OBVIOUS
<1>2. /\ Nodes' = Nodes /\ \A n : Kind(n)' = Kind(n)
      /\ \A n, k, entry : StoredFor(n, k, entry)' <=> StoredFor(n, k, entry)
  BY <1>1, SameControls
<1>3. QED
  BY <1>1, <1>2 DEF EntriesOK

\* A list that has grown by texts that are no such calls.
Adds(old, list) ==
    /\ \A i \in DOMAIN old : i \in DOMAIN list /\ list[i] = old[i]
    /\ \A i \in DOMAIN list : i \notin DOMAIN old => ~IsCall(list[i][3]) /\ Fits(list[i])

LEMMA AddsOne ==
    ASSUME NEW S, NEW s \in Seq(S), NEW x, ~IsCall(x[3]), Fits(x)
    PROVE  Adds(s, s \o <<x>>)
<1> DEFINE T   == S \cup {x}
           new == s \o <<x>>
<1>1. PICK n \in Nat : n = Len(s) /\ DOMAIN s = 1..n
  OBVIOUS
<1>2. PICK t \in Seq(T) : t = <<x>> /\ Len(t) = 1 /\ t[1] = x
  <2>1. <<x>> \in Seq(T) /\ Len(<<x>>) = 1 /\ <<x>>[1] = x
    OBVIOUS
  <2>2. QED
    BY <2>1
<1>3. s \in Seq(T)
  BY SeqMonotonic
<1> HIDE DEF T
<1>4. /\ new \in Seq(T) /\ Len(new) = n + 1
      /\ \A i \in 1..n + 1 : new[i] = IF i <= n THEN s[i] ELSE t[i - n]
  BY <1>1, <1>2, <1>3, ConcatProperties
<1> HIDE DEF new
<1>5. DOMAIN new = 1..n + 1
  BY <1>4
<1>6. \A i \in DOMAIN s : i \in DOMAIN new /\ new[i] = s[i]
  BY <1>1, <1>4, <1>5
<1>7. ASSUME NEW i \in DOMAIN new, i \notin DOMAIN s
      PROVE  new[i] = x
  <2>1. i = n + 1 /\ ~(i <= n) /\ i - n = 1
    BY <1>1, <1>5, <1>7
  <2>2. QED
    BY <2>1, <1>2, <1>4, <1>5
<1>8. Adds(s, new)
  BY <1>6, <1>7 DEF Adds
<1>9. QED
  BY <1>8 DEF new

LEMMA AddsMore ==
    ASSUME NEW r, NEW s, NEW t, Adds(r, s), Adds(s, t)
    PROVE  Adds(r, t)
BY DEF Adds

LEMMA AddsNone == \A s : Adds(s, s)
BY DEF Adds

\* Nothing is put in and no branching is noted down: what is wrapped stays wrapped.
LEMMA WrapStays ==
    ASSUME WitnessInv, WrapInv, UNCHANGED <<input, covered, text>>,
           Adds(inserts, inserts'), EntriesOK', PassedOK'
    PROVE  WrapInv'
<1>1. /\ prog' = prog /\ witness' = witness /\ cLines' = cLines /\ shift' = shift
      /\ covered' = covered /\ UNCHANGED <<input, text>>
  BY DEF input, text
<1>2. /\ Nodes' = Nodes
      /\ \A n : /\ From(n)' = From(n) /\ To(n)' = To(n)
                /\ CloseOf(n)' = CloseOf(n) /\ CloseCol(n)' = CloseCol(n)
      /\ \A n, q : CallOf(n, q)' = CallOf(n, q)
  BY <1>1, SameControls
<1>3. /\ \A i \in DOMAIN inserts : i \in DOMAIN inserts' /\ inserts'[i] = inserts[i]
      /\ \A i \in DOMAIN inserts' :
            i \notin DOMAIN inserts => ~IsCall(inserts'[i][3]) /\ Fits(inserts'[i])
  BY DEF Adds
<1>4. ColsOK'
  <2>1. \A i \in DOMAIN inserts' : Fits(inserts'[i])
    BY <1>3 DEF WrapInv, ColsOK
  <2>2. QED
    BY <2>1, <1>1 DEF ColsOK, Fits
<1>5. CoveredOK'
  <2>1. ASSUME NEW l, NEW col, NEW value, Noted(l, col, value)
        PROVE  Noted(l, col, value)'
    <3>1. Keeps(inserts, inserts')
      BY <1>3 DEF Keeps, Listed
    <3>2. QED
      BY <2>1, <3>1, <1>1, NotedStays
  <2>2. ASSUME NEW l, NEW col, NEW value, IsCall(value), Opened(l, col, value)
        PROVE  Opened(l, col, value)'
    <3>1. CASE Listed(<<l, col, value>>, inserts)
      BY <3>1, <1>3 DEF Opened, Listed
    <3>2. CASE /\ \A i \in DOMAIN inserts : inserts[i][3] # value
               /\ InGapAfter(cLines[l], shift[l], Len(prog.lines[l]), col, Close1, {value})
      <4>1. \A i \in DOMAIN inserts' : inserts'[i][3] # value
        BY <2>2, <3>2, <1>3
      <4>2. QED
        BY <3>2, <4>1, <1>1 DEF Opened
    <3>3. QED
      BY <2>2, <3>1, <3>2 DEF Opened
  <2>3. \A n, q : IsCall(CallOf(n, q))
    BY DEF IsCall, CallOf, SwitchCall, BranchCall, None
  <2>4. ASSUME NEW n, NEW q, WrappedBy(n, q)
        PROVE  WrappedBy(n, q)'
    <3>1. /\ Noted(From(n)[1], From(n)[2], CallOf(n, q))
          /\ Noted(To(n)[1], CloseCol(n), CloseOf(n))
          /\ From(n) = To(n) => Opened(From(n)[1], From(n)[2], CallOf(n, q))
      BY <2>4 DEF WrappedBy
    <3>2. PICK a, b, c, d, v, w :
             /\ a = From(n)[1] /\ b = From(n)[2] /\ v = CallOf(n, q)
             /\ c = To(n)[1] /\ d = CloseCol(n) /\ w = CloseOf(n)
      OBVIOUS
    <3>3. /\ Noted(a, b, v)' /\ Noted(c, d, w)'
          /\ From(n) = To(n) => Opened(a, b, v)'
      BY <3>1, <3>2, <2>1, <2>2, <2>3
    <3>4. QED
      BY <3>2, <3>3, <1>2 DEF WrappedBy
  <2>5. QED
    BY <2>4, <1>1, <1>2 DEF WrapInv, CoveredOK
<1>6. ListedOnce'
  <2>1. ASSUME NEW i \in DOMAIN inserts', IsCall(inserts'[i][3])
        PROVE  /\ Calling(inserts'[i][3]) \in covered
               /\ \A j \in DOMAIN inserts' : inserts'[j][3] = inserts'[i][3] => j = i
    <3>1. i \in DOMAIN inserts /\ inserts'[i] = inserts[i]
      BY <2>1, <1>3
    <3>2. ASSUME NEW j \in DOMAIN inserts', inserts'[j][3] = inserts'[i][3]
          PROVE  j \in DOMAIN inserts /\ inserts'[j] = inserts[j]
      BY <2>1, <3>2, <1>3
    <3>3. QED
      BY <2>1, <3>1, <3>2 DEF WrapInv, ListedOnce
  <2>2. \A v : (Calling(v)' = Calling(v)) /\ (IsCall(v)' <=> IsCall(v))
    BY DEF Calling, IsCall
  <2>3. QED
    BY <2>1, <2>2, <1>1 DEF ListedOnce, Calling, IsCall
<1>7. InTextOnce'
  <2>1. ASSUME NEW l \in DOMAIN prog.lines, NEW k \in DOMAIN cLines[l],
               IsCall(cLines[l][k].new)
        PROVE  /\ Calling(cLines[l][k].new) \in covered
               /\ \A i \in DOMAIN inserts' : inserts'[i][3] # cLines[l][k].new
               /\ OneBlock(cLines[l], cLines[l][k].new)
    BY <2>1, <1>3 DEF WrapInv, InTextOnce
  <2>2. QED
    BY <2>1, <1>1 DEF InTextOnce
<1>8. QED
  BY <1>4, <1>5, <1>6, <1>7 DEF WrapInv

\* No branching is passed.
LEMMA SamePassed ==
    ASSUME WitnessInv, WrapInv, UNCHANGED <<input, covered>>, bad' = <<>> => bad = <<>>,
           bad' = <<>> => \A p \in Positions : Way(p).type = "branching" /\ Past(p)' =>
                             Past(p) /\ Loc(Now(p)') = Loc(Now(p))
    PROVE  PassedOK'
<1>1. witness' = witness /\ covered' = covered
  BY DEF input
<1>2. Positions' = Positions /\ \A p : Way(p)' = Way(p)
  BY <1>1 DEF Positions, Way
<1>3. ASSUME bad' = <<>>, NEW p \in Positions, Way(p).type = "branching", Past(p)'
      PROVE  Loc(Now(p)') \in covered /\ Names(Way(p), Loc(Now(p)'))
  <2>1. Past(p) /\ Loc(Now(p)') = Loc(Now(p)) /\ bad = <<>>
    BY <1>3
  <2>2. Loc(Now(p)) \in covered /\ Names(Way(p), Loc(Now(p)))
    BY <1>3, <2>1 DEF WrapInv, PassedOK
  <2>3. QED
    BY <2>1, <2>2
<1>4. \A p : /\ Loc(Now(p))' = Loc(Now(p)')
             /\ Names(Way(p), Loc(Now(p)))' <=> Names(Way(p)', Loc(Now(p)'))
  BY DEF Loc, Names
<1>5. QED
  BY <1>1, <1>2, <1>3, <1>4 DEF PassedOK

\* Neither is anything put in or noted down.
LEMMA SameWraps ==
    ASSUME WitnessInv, WrapInv, UNCHANGED <<input, content, covered, inserts, text>>,
           bad' = <<>> => bad = <<>> /\ \A p \in Positions : Past(p)' => Past(p),
           EntriesOK'
    PROVE  WrapInv'
<1>1. \A p : Now(p)' = Now(p)
  BY DEF Now
<1>2. PassedOK'
  BY <1>1, SamePassed
<1>3. Adds(inserts, inserts')
  BY AddsNone
<1>4. QED
  BY <1>2, <1>3, WrapStays

LEMMA CollectWraps ==
    ASSUME WitnessInv, WrapInv, Collect
    PROVE  WrapInv'
<1>1. /\ UNCHANGED <<input, content, node, cursor, text>>
      /\ branchings' = [l \in LocsOf({"branching"}) |-> None]
      /\ switches' = [l \in LocsOf({"branching"}) |-> None]
  BY DEF Collect
<1>2. UNCHANGED <<input, content, covered, inserts, text>> /\ bad' = bad /\ seg' = seg /\ way' = way
  BY <1>1 DEF cursor
<1>3. EntriesOK'
  BY <1>1 DEF EntriesOK
<1>4. \A p : Past(p)' => Past(p)
  BY <1>2 DEF Past
<1>5. QED
  BY <1>2, <1>3, <1>4, SameWraps

LEMMA EndTraversalWraps ==
    ASSUME WitnessInv, WrapInv, EndTraversal
    PROVE  WrapInv'
<1>1. UNCHANGED <<input, content, node, maps, cursor, text>>
  BY DEF EndTraversal
<1>2. UNCHANGED <<input, content, covered, inserts, text>> /\ bad' = bad /\ seg' = seg /\ way' = way
  BY <1>1 DEF cursor
<1>3. EntriesOK'
  BY <1>1, SameEntries DEF input, maps, WrapInv
<1>4. \A p : Past(p)' => Past(p)
  BY <1>2 DEF Past
<1>5. QED
  BY <1>2, <1>3, <1>4, SameWraps

LEMMA InvalidLocationWraps ==
    ASSUME WitnessInv, WrapInv, InvalidLocation
    PROVE  WrapInv'
<1>1. /\ UNCHANGED <<input, content, node, maps, seg, covered, inserts, text>>
      /\ \/ bad' = Append(bad, sIndex) /\ UNCHANGED phase
         \/ phase' = "rejected" /\ UNCHANGED <<bad, sIndex, way>>
  BY DEF InvalidLocation
<1>2. bad \in Seq(Nat)
  BY DEF WitnessInv, StageOK
<1>3. bad' # <<>> \/ (bad' = bad /\ way' = way)
  BY <1>1, <1>2
<1>4. EntriesOK'
  BY <1>1, SameEntries DEF input, maps, WrapInv
<1>5. bad' = <<>> => bad = <<>> /\ \A p \in Positions : Past(p)' => Past(p)
  BY <1>1, <1>3 DEF Past
<1>6. UNCHANGED <<input, content, covered, inserts, text>>
  BY <1>1
<1>7. QED
  BY <1>4, <1>5, <1>6, SameWraps

LEMMA EndSegmentWraps ==
    ASSUME WitnessInv, WrapInv, EndSegment
    PROVE  WrapInv'
<1>1. UNCHANGED <<phase, input, content, node, maps, covered, inserts, bad, text>>
  BY DEF EndSegment
<1>2. UNCHANGED <<input, content, covered, inserts, text>> /\ bad' = bad
  BY <1>1
<1>3. EntriesOK'
  BY <1>1, SameEntries DEF input, maps, WrapInv
<1>4. \A p \in Positions : Past(p)' => Past(p)
  BY EndSegmentPasses
<1>5. QED
  BY <1>2, <1>3, <1>4, SameWraps

LEMMA StutteringWraps ==
    ASSUME WitnessInv, WrapInv, UNCHANGED vars
    PROVE  WrapInv'
<1>1. UNCHANGED <<input, content, maps, cursor, text>>
  BY DEF vars
<1>2. UNCHANGED <<input, content, covered, inserts, text>> /\ bad' = bad /\ seg' = seg /\ way' = way
  BY <1>1 DEF cursor
<1>3. EntriesOK'
  BY <1>1, SameEntries DEF input, maps, WrapInv
<1>4. \A p : Past(p)' => Past(p)
  BY <1>2 DEF Past
<1>5. QED
  BY <1>2, <1>3, <1>4, SameWraps

\* One waypoint is rewritten.
LEMMA OthersStay ==
    ASSUME WitnessInv, NEW type, Here(type), NEW w,
           content' = [content EXCEPT ![seg] = [content[seg] EXCEPT ![way] = w]]
    PROVE  /\ content'[seg][way] = w
           /\ \A p \in Positions : p # <<seg, way>> => Now(p)' = Now(p)
<1>1. seg \in DOMAIN content /\ way \in DOMAIN content[seg]
  BY HereIs
<1>2. ASSUME NEW s \in DOMAIN witness, NEW i \in DOMAIN witness[s], <<s, i>> # <<seg, way>>
      PROVE  content'[s][i] = content[s][i]
  <2>1. s \in DOMAIN content /\ i \in DOMAIN content[s]
    BY DEF WitnessInv, ContentOK
  <2>2. QED
    BY <2>1, <1>1, <1>2
<1>3. \A p \in Positions : p # <<seg, way>> => Now(p)' = Now(p)
  BY <1>2, PositionsAre DEF Now
<1>4. QED
  BY <1>1, <1>3

\* One waypoint further, which is no branching.
LEMMA PassWraps ==
    ASSUME WitnessInv, WrapInv, NEW type, type # "branching", Here(type), NextWaypoint,
           UNCHANGED <<input, maps, covered, text>>, Adds(inserts, inserts'),
           \A p \in Positions : p # <<seg, way>> => Now(p)' = Now(p)
    PROVE  WrapInv'
<1>1. PICK p0 : p0 = <<seg, way>>
  OBVIOUS
<1>2. Way(p0).type = type /\ \A p \in Positions : p = p0 \/ Past(p) <=> Past(p)'
  BY <1>1, HereIs DEF Past, NextWaypoint
<1>3. bad' = bad
  BY DEF NextWaypoint
<1>4. \A p \in Positions : Way(p).type = "branching" /\ Past(p)' =>
          Past(p) /\ Loc(Now(p)') = Loc(Now(p))
  BY <1>1, <1>2
<1>5. PassedOK'
  BY <1>3, <1>4, SamePassed
<1>6. EntriesOK'
  BY SameEntries DEF input, maps, WrapInv
<1>7. QED
  BY <1>5, <1>6, WrapStays

LEMMA CallWaypointWraps ==
    ASSUME WitnessInv, WrapInv, CallWaypoint
    PROVE  WrapInv'
<1>1. Here("call") /\ NextWaypoint /\ UNCHANGED <<input, maps, sIndex, covered, inserts, text>>
  BY DEF CallWaypoint
<1> DEFINE a == calls[WLoc][1]
           b == calls[WLoc][2]
           w == [content[seg][way] EXCEPT !.line = a, !.col = b]
<1>2. content' = [content EXCEPT ![seg][way].line = a, ![seg][way].col = b]
  BY DEF CallWaypoint
<1>3. seg \in DOMAIN content /\ way \in DOMAIN content[seg]
  BY <1>1, HereIs
<1> HIDE DEF a, b
<1>4. content' = [content EXCEPT ![seg] = [content[seg] EXCEPT ![way] = w]]
  BY <1>2, <1>3
<1> HIDE DEF w
<1>5. \A p \in Positions : p # <<seg, way>> => Now(p)' = Now(p)
  BY <1>1, <1>4, OthersStay
<1>6. Adds(inserts, inserts')
  BY <1>1, AddsNone
<1>7. QED
  BY <1>1, <1>5, <1>6, PassWraps

LEMMA TargetWaypointWraps ==
    ASSUME WitnessInv, WrapInv, TargetWaypoint
    PROVE  WrapInv'
<1>1. Here("target") /\ NextWaypoint /\ UNCHANGED <<input, maps, sIndex, covered, inserts, text>>
  BY DEF TargetWaypoint
<1> DEFINE a == target[WLoc][1][2]
           b == target[WLoc][2]
           w == [content[seg][way] EXCEPT !.col = a, !.loc2 = b]
<1>2. content' = [content EXCEPT ![seg][way].col = a, ![seg][way].loc2 = b]
  BY DEF TargetWaypoint
<1>3. seg \in DOMAIN content /\ way \in DOMAIN content[seg]
  BY <1>1, HereIs
<1> HIDE DEF a, b
<1>4. content' = [content EXCEPT ![seg] = [content[seg] EXCEPT ![way] = w]]
  BY <1>2, <1>3
<1> HIDE DEF w
<1>5. \A p \in Positions : p # <<seg, way>> => Now(p)' = Now(p)
  BY <1>1, <1>4, OthersStay
<1>6. Adds(inserts, inserts')
  BY <1>1, AddsNone
<1>7. QED
  BY <1>1, <1>5, <1>6, PassWraps

LEMMA AssumptionWaypointWraps ==
    ASSUME WitnessInv, GuardInv, WrapInv, AssumptionWaypoint
    PROVE  WrapInv'
<1>1. Here("assumption") /\ ~Invalid(Waypoint) /\ NextWaypoint
      /\ UNCHANGED <<input, maps, sIndex, covered, text>> /\ content' = content
  BY DEF AssumptionWaypoint
<1>2. PICK p0 : p0 = <<seg, way>>
  OBVIOUS
<1>3. /\ p0 \in Positions /\ Waypoint = Way(p0) /\ Waypoint.type = "assumption"
      /\ WLoc \in LocsOf({"assumption"})
  BY <1>1, <1>2, HereIs
<1>4. WLoc \in DOMAIN assumptions /\ WLoc = Loc(Way(p0))
  BY <1>1, <1>3 DEF WitnessInv, KeysOK, WLoc, Here
<1>5. assumptions[WLoc] # None
  BY <1>1, <1>3 DEF Invalid, WLoc
<1>6. PICK n \in Nodes : /\ StatementAt(n, WLoc)
                         /\ assumptions[WLoc] = <<Inside(n), End(n), Brackets(n)>>
  BY <1>4, <1>5 DEF GuardInv, StatementsOK
<1> DEFINE call  == CreateAssumption(Waypoint.constraint, sIndex,
                                     Waypoint.action # "avoid", Brackets(n))
           brace == <<End(n)[1], End(n)[2] + 1, Brace>>
           item  == <<Inside(n)[1], Inside(n)[2], call>>
           opt   == IF Brackets(n) THEN <<brace>> ELSE <<>>
           mid   == inserts \o opt
<1>7. inserts' = mid \o <<item>>
  BY <1>6 DEF AssumptionWaypoint
<1>8. ~IsCall(call) /\ ~IsCall(Brace)
  BY DEF IsCall, CreateAssumption, Brace
<1>9. /\ Inside(n)[2] \in 1..Len(prog.lines[Inside(n)[1]]) + 1
      /\ Brackets(n) => End(n)[2] + 1 \in 1..Len(prog.lines[End(n)[1]]) + 1
  BY <1>3, <1>4, <1>6, GapsOf DEF WitnessInv, GuardInv
<1> HIDE DEF call
<1>10. /\ ~IsCall(item[3]) /\ Fits(item)
       /\ ~IsCall(brace[3]) /\ (Brackets(n) => Fits(brace))
  BY <1>8, <1>9 DEF Fits
<1> HIDE DEF brace, item
<1>11. PICK S : inserts \in Seq(S)
  BY DEF WitnessInv, InsertsOK
<1>12. Adds(inserts, mid) /\ \E T : mid \in Seq(T)
  <2>1. CASE Brackets(n)
    <3>1. mid = inserts \o <<brace>>
      BY <2>1
    <3>2. Adds(inserts, inserts \o <<brace>>)
      BY <2>1, <1>10, <1>11, AddsOne, Zenon
    <3>3. inserts \o <<brace>> \in Seq(S \cup {brace})
      BY <1>11, ConcatOne, Zenon
    <3> HIDE DEF mid
    <3>4. QED
      BY <3>1, <3>2, <3>3, Zenon
  <2>2. CASE ~Brackets(n)
    <3>1. mid = inserts
      BY <2>2, <1>11
    <3> HIDE DEF mid
    <3>2. QED
      BY <3>1, <1>11, AddsNone, Zenon
  <2>3. QED
    BY <2>1, <2>2
<1> HIDE DEF mid
<1>13. Adds(mid, inserts')
  BY <1>7, <1>10, <1>12, AddsOne, Zenon
<1>14. Adds(inserts, inserts')
  BY <1>12, <1>13, AddsMore, Zenon
<1>15. \A p : Now(p)' = Now(p)
  BY <1>1 DEF Now
<1>16. QED
  BY <1>1, <1>14, <1>15, PassWraps

LEMMA EndWaypointsWraps ==
    ASSUME WitnessInv, WrapInv, EndWaypoints
    PROVE  WrapInv'
<1> DEFINE item == <<FirstDecl, 1, Declarations>>
<1>1. /\ UNCHANGED <<input, content, node, maps, seg, way, sIndex, covered, bad, text>>
      /\ inserts' = inserts \/ inserts' = Append(inserts, item)
  BY DEF EndWaypoints
<1>2. Fits(item)
  <2>1. FirstDecl \in DOMAIN prog.lines
    BY FirstDeclIs DEF WitnessInv, InputOK
  <2>2. Len(prog.lines[FirstDecl]) \in Nat
    BY <2>1, LinesAre DEF WitnessInv, InputOK
  <2>3. QED
    BY <2>2 DEF Fits
<1>3. ~IsCall(item[3])
  BY DEF IsCall, Declarations
<1> HIDE DEF item
<1>4. Adds(inserts, inserts')
  <2>1. CASE inserts' = inserts
    BY <2>1, AddsNone
  <2>2. CASE inserts' = Append(inserts, item)
    <3>1. PICK S : inserts \in Seq(S)
      BY DEF WitnessInv, InsertsOK
    <3>2. Adds(inserts, inserts \o <<item>>)
      BY <3>1, <1>2, <1>3, AddsOne, Zenon
    <3>3. inserts \in Seq(S \cup {item}) /\ item \in S \cup {item}
      BY <3>1, SeqMonotonic
    <3>4. inserts' = inserts \o <<item>>
      BY <3>3, <2>2, AppendIsConcat
    <3>5. QED
      BY <3>2, <3>4
  <2>3. QED
    BY <2>1, <2>2, <1>1
<1>5. \A p : (Past(p)' <=> Past(p)) /\ Now(p)' = Now(p)
  BY <1>1 DEF Past, Now
<1>6. bad' = bad /\ UNCHANGED <<input, covered, text>>
  BY <1>1
<1>7. PassedOK'
  BY <1>5, <1>6, SamePassed
<1>8. EntriesOK'
  BY <1>1, SameEntries DEF input, maps, WrapInv
<1>9. QED
  BY <1>4, <1>6, <1>7, <1>8, WrapStays

\* The location of a branching is not shifted.
LEMMA ShiftedBranching ==
    ASSUME WitnessInv, ShiftWitness, NEW p \in Positions, Way(p).type = "branching"
    PROVE  Loc(Now(p)') = Loc(Now(p))
<1>1. InputOK /\ StageOK /\ ContentOK /\ phase = "insert"
  BY DEF WitnessInv, ShiftWitness
<1> DEFINE moved == [s \in DOMAIN content |->
                        [i \in DOMAIN content[s] |-> ShiftWaypoint(content[s][i])]]
           last  == Len(content)
           end   == Len(content[last])
<1>2. content' = [moved EXCEPT ![last][end] = ShiftTargetEnd(@)]
  BY DEF ShiftWitness
<1> HIDE DEF last, end
<1>3. PICK s \in DOMAIN witness : \E i \in DOMAIN witness[s] : p = <<s, i>>
  BY PositionsAre
<1>4. PICK i \in DOMAIN witness[s] : p = <<s, i>>
  BY <1>3
<1>5. s \in DOMAIN content /\ i \in DOMAIN content[s] /\ Now(p) = content[s][i]
      /\ Now(p)' = content'[s][i]
  BY <1>1, <1>4 DEF ContentOK, Now
<1> DEFINE w == content[s][i]
<1>6. w \in Waypoints /\ w.type = "branching"
  BY <1>1, <1>5 DEF ContentOK
<1>7. ShiftWaypoint(w) = w
  BY <1>6 DEF ShiftWaypoint
<1>8. content'[s][i] = w \/ content'[s][i] = ShiftTargetEnd(w)
  <2>1. moved[s] = [j \in DOMAIN content[s] |-> ShiftWaypoint(content[s][j])]
    BY <1>5
  <2>2. CASE s = last
    <3>1. content'[s] = [moved[s] EXCEPT ![end] = ShiftTargetEnd(@)]
      BY <2>2, <1>2, <1>5
    <3> HIDE DEF moved
    <3>2. QED
      BY <3>1, <2>1, <1>5, <1>7
  <2>3. CASE s # last
    <3>1. content'[s] = moved[s]
      BY <2>3, <1>2, <1>5
    <3> HIDE DEF moved
    <3>2. QED
      BY <3>1, <2>1, <1>5, <1>7
  <2>4. QED
    BY <2>2, <2>3
<1> HIDE DEF w, moved
<1>9. {"type", "line", "col"} \subseteq DOMAIN w
  BY <1>6 DEF Waypoints
<1>10. Loc(ShiftTargetEnd(w)) = Loc(w)
  BY <1>9, ShiftTargetEndIs
<1>11. QED
  BY <1>5, <1>8, <1>10 DEF w

LEMMA ShiftWitnessWraps ==
    ASSUME WitnessInv, WrapInv, ShiftWitness
    PROVE  WrapInv'
<1>1. UNCHANGED <<input, node, maps, cursor, text>>
  BY DEF ShiftWitness
<1>2. UNCHANGED <<input, covered, inserts, text>> /\ bad' = bad /\ seg' = seg /\ way' = way
  BY <1>1 DEF cursor
<1>3. \A p : Past(p)' => Past(p)
  BY <1>2 DEF Past
<1>4. \A p \in Positions : Way(p).type = "branching" => Loc(Now(p)') = Loc(Now(p))
  BY ShiftedBranching
<1>5. PassedOK'
  BY <1>2, <1>3, <1>4, SamePassed
<1>6. EntriesOK'
  BY <1>1, SameEntries DEF input, maps, WrapInv
<1>7. Adds(inserts, inserts')
  BY <1>2, AddsNone
<1>8. QED
  BY <1>2, <1>5, <1>6, <1>7, WrapStays

\* What traverse_AST stores is the control expression of the grammar.
LEMMA ChildFits ==
    ASSUME IsProgram(prog), NEW n \in Nodes
    PROVE  /\ Cardinality(Children(n)) >= 1 =>
                 Child(n, 0) \in Nodes /\ IsChild(prog, n, Child(n, 0), 0)
           /\ Cardinality(Children(n)) >= 2 =>
                 Child(n, 1) \in Nodes /\ IsChild(prog, n, Child(n, 1), 1)
<1>1. Children(n) = ChildrenIn(prog, n) /\ Children(n) \subseteq Nodes
  BY NodesAre, ChildExists
<1>2. ASSUME NEW m \in Children(n), NEW i, Index(m) = i
      PROVE  IsChild(prog, n, m, i)
  <2>1. Parent(m) = n
    BY DEF Children
  <2>2. Cardinality({j \in ChildrenIn(prog, n) : j < m}) = i
    BY <1>1, <1>2, <2>1 DEF Index
  <2>3. QED
    BY <1>1, <2>2 DEF IsChild
<1>3. QED
  BY <1>1, <1>2, ChildExists

\* The number of children is a number.
LEMMA ManyChildren ==
    ASSUME IsProgram(prog), NEW n \in Nodes
    PROVE  Cardinality(Children(n)) \in Nat
<1>1. IsFiniteSet(Nodes)
  BY NodesAre, FS_Interval DEF Nodes
<1>2. QED
  BY <1>1, ChildExists, FS_Subset, FS_CardinalityType

LEMMA ControlIsAt ==
    ASSUME IsProgram(prog), NEW n \in Nodes, ControlFits(prog, n),
           NEW m \in Nodes, IsControl(prog, n, m)
    PROVE  Start(m) = From(n) /\ End(m) = To(n)
<1>1. m \in DOMAIN prog.nodes
  BY NodesAre
<1>2. prog.nodes[n].ctrl = <<prog.nodes[m].start, prog.nodes[m].end>>
  BY <1>1 DEF ControlFits
<1>3. QED
  BY <1>2 DEF From, To, Start, End

LEMMA ForEntryFits ==
    ASSUME IsProgram(prog), NEW n \in Nodes, ControlFits(prog, n), Kind(n) = "for",
           Cardinality(Children(n)) >= 2
    PROVE  ForControl(n) = EntryOf(n, Start(n))
<1> DEFINE e == prog.nodes[n]
           first == e.tokens[1]
           second == e.tokens[2]
           parts == Cardinality(Children(n))
           Ctrl(m) == <<Start(m), Plus(End(m), -1), Start(n)[2]>>
<1>1. e.kind = "for" /\ Children(n) = ChildrenIn(prog, n) /\ parts \in Nat
  BY NodesAre, ManyChildren DEF Kind, Nodes
<1>2. first.semi \in BOOLEAN /\ second.semi \in BOOLEAN
  BY NodesAre DEF IsToken
<1>3. EntryOf(n, Start(n)) = <<From(n), Plus(To(n), -1), Start(n)[2]>>
  BY DEF EntryOf
<1>4. HeaderFits(prog, n) /\ From(n) \in Spots(prog)
  BY <1>1 DEF ControlFits, From
<1>5. ForControl(n) = IF parts # 4 /\ second.semi
                      THEN <<second.start, Plus(second.end, -2), Start(n)[2]>>
                      ELSE IF parts # 4 /\ first.semi THEN Ctrl(Child(n, 0))
                                                      ELSE Ctrl(Child(n, 1))
  BY DEF ForControl
<1>6. CASE From(n) = To(n)
  <2>1. /\ second.semi /\ parts # 4
        /\ second.start = From(n) /\ second.end = Plus(From(n), 1)
    BY <1>1, <1>4, <1>6 DEF HeaderFits, From, To
  <2>2. Plus(second.end, -2) = Plus(To(n), -1)
    <3>1. From(n)[1] \in Nat /\ From(n)[2] \in Nat
      BY <1>4, SpotsAre
    <3>2. PICK a, b \in Nat : From(n)[1] = a /\ From(n)[2] = b
      BY <3>1
    <3>3. Plus(From(n), 1) = <<a, b + 1>> /\ Plus(To(n), -1) = <<a, b + -1>>
      BY <3>2, <1>6 DEF Plus
    <3>4. Plus(<<a, b + 1>>, -2) = <<a, b + -1>>
      BY DEF Plus
    <3>5. QED
      BY <2>1, <3>3, <3>4
  <2> HIDE DEF e
  <2>3. QED
    BY <2>1, <2>2, <1>3, <1>5
<1>7. CASE From(n) # To(n)
  <2>1. /\ first.semi => parts # 4
        /\ second.semi => parts = 4
    BY <1>1, <1>4, <1>7 DEF HeaderFits, From, To
  <2>2. /\ Child(n, 0) \in Nodes /\ IsChild(prog, n, Child(n, 0), 0)
        /\ Child(n, 1) \in Nodes /\ IsChild(prog, n, Child(n, 1), 1)
    BY <1>1, ChildFits
  <2>3. PICK m : m = IF first.semi THEN Child(n, 0) ELSE Child(n, 1)
    OBVIOUS
  <2>4. m \in Nodes /\ IsChild(prog, n, m, IF first.semi THEN 0 ELSE 1)
    BY <2>2, <2>3
  <2>5. IsControl(prog, n, m)
    BY <2>4, <1>1, <1>7 DEF IsControl, From, To
  <2>6. Start(m) = From(n) /\ End(m) = To(n)
    BY <2>4, <2>5, ControlIsAt
  <2>7. ForControl(n) = Ctrl(m)
    BY <2>1, <2>3, <1>2, <1>5
  <2>8. QED
    BY <2>6, <2>7, <1>3
<1>8. QED
  BY <1>6, <1>7

LEMMA EntryFits ==
    ASSUME IsProgram(prog), NEW n \in Nodes, ControlFits(prog, n)
    PROVE  /\ IsBranch(n) /\ ~NoSuchChild(n) => Control(n) = EntryOf(n, Start(n))
           /\ Kind(n) = "switch" => BranchInfo(n, Child(n, 0)) = EntryOf(n, Start(n))
<1>1. prog.nodes[n].kind = Kind(n)
  BY NodesAre DEF Kind, Nodes
<1>2. ASSUME NEW m \in Nodes, IsControl(prog, n, m), Kind(n) # "for"
      PROVE  BranchInfo(n, m) = EntryOf(n, Start(n))
  BY <1>2, ControlIsAt DEF BranchInfo, EntryOf
<1>3. ASSUME Kind(n) \in {"if", "while", "switch"}
      PROVE  BranchInfo(n, Child(n, 0)) = EntryOf(n, Start(n))
  <2>1. Child(n, 0) \in Nodes /\ IsChild(prog, n, Child(n, 0), 0)
    BY <1>3, NodesAre, ChildFits
  <2>2. IsControl(prog, n, Child(n, 0))
    BY <2>1, <1>1, <1>3 DEF IsControl
  <2>3. QED
    BY <2>1, <2>2, <1>2, <1>3
<1>4. ASSUME Kind(n) = "do"
      PROVE  BranchInfo(n, Child(n, 1)) = EntryOf(n, Start(n))
  <2>1. Child(n, 1) \in Nodes /\ IsChild(prog, n, Child(n, 1), 1)
    BY <1>4, NodesAre, ChildFits
  <2>2. IsControl(prog, n, Child(n, 1))
    BY <2>1, <1>1, <1>4 DEF IsControl
  <2>3. QED
    BY <2>1, <2>2, <1>2, <1>4
<1>5. ASSUME Kind(n) = "for", ~NoSuchChild(n)
      PROVE  ForControl(n) = EntryOf(n, Start(n))
  <2>1. Cardinality(Children(n)) >= 2
    BY <1>5, ManyChildren DEF NoSuchChild
  <2>2. QED
    BY <2>1, <1>5, ForEntryFits
<1>6. QED
  BY <1>3, <1>4, <1>5 DEF Control, IsBranch

LEMMA TernaryFits ==
    ASSUME IsProgram(prog), NEW n \in Nodes, Kind(n) = "cond", ControlFits(prog, n)
    PROVE  LET cond == IF Kind(Child(n, 0)) = "paren" THEN Child(Child(n, 0), 0)
                                                       ELSE Child(n, 0)
           IN  Start(cond) = From(n) /\ End(cond) = To(n)
<1> DEFINE k    == Child(n, 0)
           cond == IF Kind(k) = "paren" THEN Child(k, 0) ELSE k
<1>1. prog.nodes[n].kind = "cond"
  BY NodesAre DEF Kind, Nodes
<1>2. k \in Nodes /\ IsChild(prog, n, k, 0)
  <2>1. Cardinality(Children(n)) >= 2 /\ Cardinality(Children(n)) \in Nat
    BY NodesAre, ManyChildren
  <2>2. Cardinality(Children(n)) >= 1
    BY <2>1
  <2>3. QED
    BY <2>2, ChildFits
<1> HIDE DEF k
<1>3. k \in ChildrenIn(prog, n) /\ prog.nodes[k].kind = Kind(k)
  BY <1>2, NodesAre DEF IsChild, Kind, Nodes
<1>4. cond \in Nodes /\ IF Kind(k) = "paren" THEN IsChild(prog, k, cond, 0) ELSE cond = k
  BY <1>2, NodesAre, ChildFits
<1> HIDE DEF cond
<1>5. IsControl(prog, n, cond)
  BY <1>1, <1>2, <1>3, <1>4 DEF IsControl
<1>6. Start(cond) = From(n) /\ End(cond) = To(n)
  BY <1>4, <1>5, ControlIsAt
<1>7. QED
  BY <1>6 DEF cond, k

\* What a location of the witness names has a control expression that fits.
LEMMA KeysAreFit ==
    ASSUME ControlsFit(prog, witness), NEW n \in Nodes, NEW q \in PlacesIn(prog, n),
           NEW k \in LocsOf({"branching"}), KeyOf(k, q), IsProgram(prog)
    PROVE  BranchedAt(witness, q) /\ ControlFits(prog, n)
<1>1. PICK p \in Positions : Way(p).type = "branching" /\ k = Loc(Way(p))
  BY DEF LocsOf
<1>2. p[1] \in DOMAIN witness /\ p[2] \in DOMAIN witness[p[1]]
  BY PositionsAre
<1>3. BranchedAt(witness, q)
  BY <1>1, <1>2 DEF BranchedAt, Way, Loc, KeyOf
<1>4. QED
  BY <1>3, NodesAre DEF ControlsFit

LEMMA VisitKeepsEntries ==
    ASSUME InputOK, BranchingsOK, ControlsFit(prog, witness),
           DOMAIN branchings = LocsOf({"branching"}), EntriesOK,
           NEW n \in Nodes, VisitBranching(n), UNCHANGED prog,
           ~(NoSuchChild(n) /\ Keys(branchings, Start(n)) \cap DOMAIN branchings # {})
    PROVE  EntriesOK'
<1> DEFINE keys  == Keys(branchings, Start(n)) \cap DOMAIN branchings
           marks == Marks(End(Child(n, 0)), Start(Child(n, 1)))
           q     == First(marks)
           cond  == IF Kind(Child(n, 0)) = "paren" THEN Child(Child(n, 0), 0)
                                                    ELSE Child(n, 0)
           Branch(k, v) == v = None \/ \E m \in Nodes : Kind(m) # "switch" /\ StoredFor(m, k, v)
           Switch(k, v) == v = None \/ \E m \in Nodes : Kind(m) = "switch" /\ StoredFor(m, k, v)
<1>1. /\ \A k \in DOMAIN branchings : Branch(k, branchings[k]) /\ Switch(k, switches[k])
      /\ DOMAIN switches = DOMAIN branchings /\ IsProgram(prog)
  BY DEF EntriesOK, BranchingsOK, InputOK
<1>2. ASSUME DOMAIN switches' = DOMAIN branchings, DOMAIN branchings' = DOMAIN branchings,
             \A k \in DOMAIN branchings : Branch(k, branchings'[k]) /\ Switch(k, switches'[k])
      PROVE  EntriesOK'
  <2>1. /\ Nodes' = Nodes /\ \A m : Kind(m)' = Kind(m)
        /\ \A m, k, entry : StoredFor(m, k, entry)' <=> StoredFor(m, k, entry)
    BY SameControls
  <2>2. QED
    BY <2>1, <1>2 DEF EntriesOK
<1>3. CASE Kind(n) = "cond"
  <2>1. switches' = switches /\ branchings' = IF marks = {} THEN branchings
          ELSE Store(branchings, Keys(branchings, q), <<Start(cond), End(cond), q[2]>>)
    BY <1>3 DEF VisitBranching
  <2>2. ASSUME marks # {}, NEW k \in DOMAIN branchings, k \in Keys(branchings, q)
        PROVE  StoredFor(n, k, <<Start(cond), End(cond), q[2]>>)
    <3>1. q \in marks
      BY <2>2, <1>1, FirstMark
    <3>2. q \in PlacesIn(prog, n)
      <4>1. Child(n, 0) \in Nodes /\ IsChild(prog, n, Child(n, 0), 0)
            /\ Child(n, 1) \in Nodes /\ IsChild(prog, n, Child(n, 1), 1)
        <5>1. Cardinality(Children(n)) >= 2 /\ Cardinality(Children(n)) \in Nat
          BY <1>1, <1>3, NodesAre, ManyChildren
        <5>2. Cardinality(Children(n)) >= 1
          BY <5>1
        <5>3. QED
          BY <5>1, <5>2, <1>1, ChildFits
      <4> DEFINE c == <<Child(n, 0), Child(n, 1)>>
                 e == prog.nodes[n]
                 pairs == {d \in ChildrenIn(prog, n) \X ChildrenIn(prog, n) :
                              IsChild(prog, n, d[1], 0) /\ IsChild(prog, n, d[2], 1)}
      <4>2. c \in pairs
        BY <4>1 DEF IsChild
      <4>3. marks = MarksIn(prog, prog.nodes[c[1]].end, prog.nodes[c[2]].start)
        BY DEF Marks, End, Start
      <4>4. e.kind = "cond"
        BY <1>1, <1>3, NodesAre DEF Kind, Nodes
      <4>5. PlacesIn(prog, n) =
              UNION {MarksIn(prog, prog.nodes[d[1]].end, prog.nodes[d[2]].start) : d \in pairs}
        BY <4>4 DEF PlacesIn
      <4> HIDE DEF c, e, pairs, marks, q
      <4>6. QED
        BY <4>2, <4>3, <4>5, <3>1
    <3>3. KeyOf(k, q)
      <4>1. q = <<q[1], q[2]>>
        <5>1. \A p \in marks : p = <<p[1], p[2]>>
          BY DEF Marks, MarksIn
        <5> HIDE DEF marks, q
        <5>2. QED
          BY <5>1, <3>1
      <4>2. k \in {q, <<q[1], 0>>}
        BY <2>2 DEF Keys
      <4> HIDE DEF q
      <4>3. QED
        BY <4>1, <4>2 DEF KeyOf
    <3> HIDE DEF q, marks
    <3>4. ControlFits(prog, n)
      BY <3>2, <3>3, <2>2, <1>1, KeysAreFit
    <3>5. Start(cond) = From(n) /\ End(cond) = To(n)
      BY <3>4, <1>1, <1>3, TernaryFits
    <3> HIDE DEF cond
    <3>6. EntryOf(n, q) = <<Start(cond), End(cond), q[2]>>
      BY <3>5, <1>3 DEF EntryOf
    <3>7. QED
      BY <3>2, <3>3, <3>6 DEF StoredFor
  <2> HIDE DEF q, marks, cond
  <2>3. \A k \in DOMAIN branchings : Branch(k, branchings'[k])
    BY <2>1, <2>2, <1>1, <1>3 DEF Store
  <2>4. DOMAIN branchings' = DOMAIN branchings
    BY <2>1 DEF Store
  <2> HIDE DEF Branch, Switch
  <2>5. QED
    BY <2>1, <2>3, <2>4, <1>1, <1>2
<1>4. CASE Kind(n) # "cond"
  <2>1. branchings' = IF IsBranch(n) /\ keys # {} THEN Store(branchings, keys, Control(n))
                                                  ELSE branchings
    BY <1>4 DEF VisitBranching
  <2>2. switches' = IF Kind(n) = "switch" THEN Store(switches, keys, BranchInfo(n, Child(n, 0)))
                                          ELSE switches
    BY <1>4 DEF VisitBranching
  <2>3. ASSUME NEW k \in keys, IsBranch(n) \/ Kind(n) = "switch"
        PROVE  /\ Start(n) \in PlacesIn(prog, n) /\ KeyOf(k, Start(n))
               /\ ControlFits(prog, n)
    <3>1. prog.nodes[n].kind = Kind(n)
      BY <1>1, NodesAre DEF Kind, Nodes
    <3>2. Start(n) \in PlacesIn(prog, n)
      BY <2>3, <3>1 DEF PlacesIn, IsBranch, Start
    <3>3. KeyOf(k, Start(n))
      <4>1. Start(n) = <<Start(n)[1], Start(n)[2]>>
        BY <1>1, NodesAre, SpotsAre
      <4>2. k \in {Start(n), <<Start(n)[1], 0>>}
        BY DEF Keys
      <4>3. QED
        BY <4>1, <4>2 DEF KeyOf
    <3>4. QED
      BY <3>2, <3>3, <1>1, KeysAreFit
  <2>4. ASSUME NEW k \in keys, IsBranch(n) PROVE StoredFor(n, k, Control(n))
    <3>1. ~NoSuchChild(n)
      BY <2>4
    <3>2. Control(n) = EntryOf(n, Start(n))
      BY <3>1, <2>3, <2>4, <1>1, EntryFits
    <3>3. QED
      BY <3>2, <2>3, <2>4 DEF StoredFor
  <2>5. ASSUME NEW k \in keys, Kind(n) = "switch"
        PROVE  StoredFor(n, k, BranchInfo(n, Child(n, 0)))
    <3>1. BranchInfo(n, Child(n, 0)) = EntryOf(n, Start(n))
      BY <2>3, <2>5, <1>1, EntryFits
    <3>2. QED
      BY <3>1, <2>3, <2>5 DEF StoredFor
  <2> HIDE DEF keys
  <2>6. \A k \in DOMAIN branchings : Branch(k, branchings'[k])
    <3>1. IsBranch(n) => Kind(n) # "switch"
      BY DEF IsBranch
    <3>2. QED
      BY <3>1, <2>1, <2>4, <1>1 DEF Store
  <2>7. \A k \in DOMAIN branchings : Switch(k, switches'[k])
    BY <2>2, <2>5, <1>1 DEF Store
  <2>8. DOMAIN branchings' = DOMAIN branchings /\ DOMAIN switches' = DOMAIN branchings
    BY <2>1, <2>2, <1>1 DEF Store
  <2> HIDE DEF Branch, Switch
  <2>9. QED
    BY <2>6, <2>7, <2>8, <1>2
<1>5. QED
  BY <1>3, <1>4

LEMMA VisitWraps ==
    ASSUME WitnessInv, WrapInv, ControlsFit(prog, witness), Visit
    PROVE  WrapInv'
<1>1. /\ UNCHANGED <<input, content, cursor, text>> /\ phase = "traverse"
      /\ node < Len(prog.nodes) /\ node' = node + 1
      /\ \/ UNCHANGED maps
         \/ /\ ~(NoSuchChild(node') /\ Keys(branchings, Start(node')) \cap DOMAIN branchings # {})
            /\ VisitBranching(node')
  BY DEF Visit
<1>2. UNCHANGED <<input, content, covered, inserts, text>> /\ bad' = bad /\ seg' = seg /\ way' = way
  BY <1>1 DEF cursor
<1>3. EntriesOK'
  <2>1. CASE UNCHANGED maps
    BY <2>1, <1>2, SameEntries DEF input, maps, WrapInv
  <2>2. CASE /\ ~(NoSuchChild(node') /\ Keys(branchings, Start(node')) \cap DOMAIN branchings # {})
             /\ VisitBranching(node')
    <3>1. node' \in Nodes
      BY <1>1 DEF WitnessInv, InputOK, IsProgram, StageOK, Nodes
    <3>2. PICK n \in Nodes : n = node'
      BY <3>1
    <3>3. /\ VisitBranching(n)
          /\ ~(NoSuchChild(n) /\ Keys(branchings, Start(n)) \cap DOMAIN branchings # {})
      BY <2>2, <3>2
    <3>4. /\ InputOK /\ BranchingsOK /\ EntriesOK /\ prog' = prog
          /\ DOMAIN branchings = LocsOf({"branching"})
      BY <1>1 DEF WitnessInv, DictsOK, KeysOK, WrapInv, input
    <3>5. QED
      BY <3>3, <3>4, VisitKeepsEntries
  <2>3. QED
    BY <2>1, <2>2, <1>1
<1>4. \A p : Past(p)' => Past(p)
  BY <1>2 DEF Past
<1>5. QED
  BY <1>2, <1>3, <1>4, SameWraps

\* The texts for a branching: where they go, and whom they are about.
LEMMA PlacesAre ==
    ASSUME IsProgram(prog), NEW n \in Nodes, NEW q \in PlacesIn(prog, n)
    PROVE  q = <<q[1], q[2]>>
<1> DEFINE e == prog.nodes[n]
<1>1. CASE e.kind \in {"if", "while", "do", "for", "switch"}
  <2>1. q = Start(n)
    BY <1>1 DEF PlacesIn, Start
  <2>2. QED
    BY <2>1, NodesAre, SpotsAre
<1>2. CASE e.kind = "cond"
  <2>1. \A a, b : \A p \in MarksIn(prog, a, b) : p = <<p[1], p[2]>>
    BY DEF MarksIn
  <2>2. \E c : q \in MarksIn(prog, prog.nodes[c[1]].end, prog.nodes[c[2]].start)
    BY <1>2 DEF PlacesIn
  <2>3. QED
    BY <2>1, <2>2
<1>3. CASE e.kind \notin {"if", "while", "do", "for", "switch", "cond"}
  <2>1. PlacesIn(prog, n) = {}
    BY <1>3 DEF PlacesIn
  <2>2. QED
    BY <2>1
<1>4. QED
  BY <1>1, <1>2, <1>3

LEMMA CallingIs ==
    ASSUME NEW n, NEW q, q = <<q[1], q[2]>>
    PROVE  IsCall(CallOf(n, q)) /\ Calling(CallOf(n, q)) = q /\ ~IsCall(CloseOf(n))
<1>1. CallOf(n, q) = <<4, q[1], q[2]>> \/ CallOf(n, q) = <<5, q[1], q[2]>>
  BY DEF CallOf, BranchCall, SwitchCall
<1>2. CloseOf(n) = <<1>> \/ CloseOf(n) = <<2>>
  BY DEF CloseOf, Close, Close1
<1>3. IsCall(CallOf(n, q)) /\ Calling(CallOf(n, q)) = <<q[1], q[2]>>
  BY <1>1 DEF IsCall, Calling, None
<1>4. ~IsCall(CloseOf(n))
  BY <1>2 DEF IsCall
<1>5. QED
  BY <1>3, <1>4

LEMMA ControlSpots ==
    ASSUME IsProgram(prog), NEW n \in Nodes, ControlFits(prog, n)
    PROVE  /\ From(n) \in Spots(prog) /\ To(n) \in Spots(prog)
           /\ From(n)[2] \in DOMAIN prog.lines[From(n)[1]]
           /\ To(n)[2] \in DOMAIN prog.lines[To(n)[1]]
           /\ \A v : Fits(<<From(n)[1], From(n)[2], v>>) /\ Fits(<<To(n)[1], CloseCol(n), v>>)
           /\ From(n) = To(n) => Kind(n) = "for" /\ CloseCol(n) = From(n)[2]
           /\ From(n) # To(n) => Before(From(n), To(n))
           /\ Kind(n) # "for" => prog.lines[To(n)[1]][To(n)[2]] \in {" ", ")"}
<1>1. prog.nodes[n].kind = Kind(n)
  BY NodesAre DEF Kind, Nodes
<1>2. /\ From(n) \in Spots(prog) /\ To(n) \in Spots(prog)
      /\ From(n)[2] \in DOMAIN prog.lines[From(n)[1]]
      /\ To(n)[2] \in DOMAIN prog.lines[To(n)[1]]
      /\ From(n) # To(n) => Before(From(n), To(n))
      /\ Kind(n) # "for" => prog.lines[To(n)[1]][To(n)[2]] \in {" ", ")"}
  BY <1>1 DEF ControlFits, From, To
<1>3. From(n) = To(n) => Kind(n) = "for"
  BY <1>1 DEF ControlFits, From, To
<1>4. From(n) = To(n) => CloseCol(n) = From(n)[2]
  BY <1>3 DEF CloseCol
<1>5. \A l \in DOMAIN prog.lines :
         Len(prog.lines[l]) \in Nat /\ DOMAIN prog.lines[l] = 1..Len(prog.lines[l])
  BY LinesAre
<1>6. From(n)[1] \in DOMAIN prog.lines /\ To(n)[1] \in DOMAIN prog.lines
  BY <1>2, SpotsAre
<1>7. From(n)[2] \in 1..Len(prog.lines[From(n)[1]]) + 1
  <2>1. PICK len \in Nat : len = Len(prog.lines[From(n)[1]])
                           /\ DOMAIN prog.lines[From(n)[1]] = 1..len
    BY <1>5, <1>6
  <2>2. From(n)[2] \in 1..len
    BY <2>1, <1>2
  <2>3. QED
    BY <2>1, <2>2
<1>8. CloseCol(n) \in 1..Len(prog.lines[To(n)[1]]) + 1
  <2>1. PICK len \in Nat : len = Len(prog.lines[To(n)[1]])
                           /\ DOMAIN prog.lines[To(n)[1]] = 1..len
    BY <1>5, <1>6
  <2>2. To(n)[2] \in 1..len /\ CloseCol(n) \in {To(n)[2], To(n)[2] + 1}
    BY <2>1, <1>2 DEF CloseCol
  <2>3. QED
    BY <2>1, <2>2
<1>9. \A v : Fits(<<From(n)[1], From(n)[2], v>>) /\ Fits(<<To(n)[1], CloseCol(n), v>>)
  BY <1>7, <1>8 DEF Fits
<1>10. QED
  BY <1>2, <1>3, <1>4, <1>9

LEMMA EntryIs ==
    ASSUME IsProgram(prog), NEW n \in Nodes, ControlFits(prog, n), NEW q
    PROVE  LET start == EntryOf(n, q)[1]
               end   == EntryOf(n, q)[2]
           IN  /\ start = From(n) /\ EntryOf(n, q)[3] = q[2]
               /\ end[1] = To(n)[1] /\ end[2] + 1 = CloseCol(n)
               /\ (IF Before(end, start) THEN Close1 ELSE Close) = CloseOf(n)
<1> DEFINE start == EntryOf(n, q)[1]
           end   == EntryOf(n, q)[2]
<1>1. /\ start = From(n) /\ EntryOf(n, q)[3] = q[2]
      /\ end = IF Kind(n) = "for" THEN Plus(To(n), -1) ELSE To(n)
  BY DEF EntryOf
<1> HIDE DEF start, end
<1>2. PICK a, b, c, d \in Nat : From(n) = <<a, b>> /\ To(n) = <<c, d>>
  <2>1. From(n) \in Spots(prog) /\ To(n) \in Spots(prog)
    BY ControlSpots
  <2>2. /\ From(n) = <<From(n)[1], From(n)[2]>> /\ To(n) = <<To(n)[1], To(n)[2]>>
        /\ From(n)[1] \in Nat /\ From(n)[2] \in Nat /\ To(n)[1] \in Nat /\ To(n)[2] \in Nat
    BY <2>1, SpotsAre
  <2>3. QED
    BY <2>2
<1>3. end[1] = To(n)[1] /\ end[2] + 1 = CloseCol(n)
  <2>1. CASE Kind(n) = "for"
    <3>1. end = <<c, d + -1>> /\ CloseCol(n) = d
      BY <2>1, <1>1, <1>2 DEF Plus, CloseCol
    <3>2. QED
      BY <3>1, <1>2
  <2>2. CASE Kind(n) # "for"
    BY <2>2, <1>1, <1>2 DEF CloseCol
  <2>3. QED
    BY <2>1, <2>2
<1>4. Before(end, start) <=> From(n) = To(n)
  <2>1. /\ From(n) = To(n) => Kind(n) = "for"
        /\ From(n) # To(n) => Before(From(n), To(n))
    BY ControlSpots
  <2>2. end = <<c, IF Kind(n) = "for" THEN d - 1 ELSE d>>
    BY <1>1, <1>2 DEF Plus
  <2>3. Before(end, start) <=>
           c < a \/ (c = a /\ (IF Kind(n) = "for" THEN d - 1 ELSE d) < b)
    BY <2>2, <1>1, <1>2 DEF Before
  <2>4. From(n) = To(n) <=> a = c /\ b = d
    BY <1>2
  <2>5. Before(From(n), To(n)) <=> a < c \/ (a = c /\ b < d)
    BY <1>2 DEF Before
  <2>6. QED
    BY <2>1, <2>3, <2>4, <2>5
<1>5. QED
  BY <1>1, <1>3, <1>4 DEF CloseOf, start, end

\* The place that is covered, and what is noted down for it.
LEMMA BranchingIs ==
    ASSUME WitnessInv, EntriesOK, ControlsFit(prog, witness), BranchingWaypoint
    PROVE  \E n \in Nodes : \E q \in PlacesIn(prog, n) :
              /\ BranchedAt(witness, q) /\ ControlFits(prog, n) /\ KeyOf(WLoc, q)
              /\ covered' = covered \cup {q}
              /\ inserts' = IF q \in covered THEN inserts
                            ELSE inserts \o <<<<From(n)[1], From(n)[2], CallOf(n, q)>>,
                                              <<To(n)[1], CloseCol(n), CloseOf(n)>>>>
              /\ content' = IF WLoc[2] = 0 THEN [content EXCEPT ![seg][way].col = q[2]]
                                           ELSE content
<1>1. Here("branching") /\ ~Invalid(Waypoint)
  BY DEF BranchingWaypoint
<1>2. /\ Waypoint.type = "branching" /\ WLoc \in LocsOf({"branching"})
      /\ WLoc \in DOMAIN branchings /\ IsProgram(prog)
  BY <1>1, HereIs DEF WitnessInv, InputOK, KeysOK, Here
<1> DEFINE isBranch == branchings[WLoc] # None
           entry    == IF isBranch THEN branchings[WLoc] ELSE switches[WLoc]
           start    == entry[1]
           end      == entry[2]
           loc      == <<WLoc[1], entry[3]>>
           call     == IF isBranch THEN BranchCall(loc[1], loc[2])
                                   ELSE SwitchCall(loc[1], loc[2])
           close    == IF Before(end, start) THEN Close1 ELSE Close
<1>3. /\ content' = IF WLoc[2] = 0 THEN [content EXCEPT ![seg][way].col = loc[2]]
                                   ELSE content
      /\ covered' = covered \cup {loc}
      /\ inserts' = IF loc \in covered THEN inserts
                    ELSE inserts \o <<<<start[1], start[2], call>>,
                                      <<end[1], end[2] + 1, close>>>>
  BY DEF BranchingWaypoint
<1>4. branchings[WLoc] # None \/ switches[WLoc] # None
  BY <1>1, <1>2 DEF Invalid, WLoc
<1>5. PICK n \in Nodes : (isBranch <=> Kind(n) # "switch") /\ StoredFor(n, WLoc, entry)
  BY <1>2, <1>4 DEF EntriesOK
<1>6. PICK q \in PlacesIn(prog, n) : KeyOf(WLoc, q) /\ entry = EntryOf(n, q)
  BY <1>5 DEF StoredFor
<1>7. BranchedAt(witness, q) /\ ControlFits(prog, n)
  BY <1>2, <1>6, KeysAreFit
<1> HIDE DEF entry, isBranch
<1>8. /\ start = From(n) /\ entry[3] = q[2] /\ end[1] = To(n)[1] /\ end[2] + 1 = CloseCol(n)
      /\ close = CloseOf(n)
  BY <1>2, <1>6, <1>7, EntryIs
<1>9. q = <<q[1], q[2]>>
  BY <1>2, PlacesAre
<1>10. loc = q
  BY <1>6, <1>8, <1>9 DEF KeyOf
<1> HIDE DEF start, end, close
<1>11. call = CallOf(n, q)
  BY <1>5, <1>10 DEF CallOf
<1> HIDE DEF call, loc
<1>12. QED
  BY <1>3, <1>6, <1>7, <1>8, <1>10, <1>11

\* The list has grown by two items.
Grown(old, list, a, b) ==
    \E n \in Nat : /\ DOMAIN old = 1..n /\ DOMAIN list = 1..n + 2
                   /\ \A i \in 1..n : list[i] = old[i]
                   /\ list[n + 1] = a /\ list[n + 2] = b

LEMMA TwoMore ==
    ASSUME NEW S, NEW s \in Seq(S), NEW a, NEW b
    PROVE  Grown(s, s \o <<a, b>>, a, b)
<1> DEFINE T   == S \cup {a, b}
           new == s \o <<a, b>>
<1>1. PICK n \in Nat : n = Len(s) /\ DOMAIN s = 1..n
  OBVIOUS
<1>2. PICK t \in Seq(T) : t = <<a, b>> /\ Len(t) = 2 /\ t[1] = a /\ t[2] = b
  <2>1. <<a, b>> \in Seq(T) /\ Len(<<a, b>>) = 2 /\ <<a, b>>[1] = a /\ <<a, b>>[2] = b
    OBVIOUS
  <2>2. QED
    BY <2>1
<1>3. s \in Seq(T)
  BY SeqMonotonic
<1> HIDE DEF T
<1>4. /\ new \in Seq(T) /\ Len(new) = n + 2
      /\ \A i \in 1..n + 2 : new[i] = IF i <= n THEN s[i] ELSE t[i - n]
  BY <1>1, <1>2, <1>3, ConcatProperties
<1> HIDE DEF new
<1>5. DOMAIN new = 1..n + 2
  BY <1>4
<1>6. \A i \in 1..n : new[i] = s[i]
  BY <1>4
<1>7. new[n + 1] = t[1] /\ new[n + 2] = t[2]
  <2>1. /\ n + 1 \in 1..n + 2 /\ ~(n + 1 <= n) /\ n + 1 - n = 1
        /\ n + 2 \in 1..n + 2 /\ ~(n + 2 <= n) /\ n + 2 - n = 2
    OBVIOUS
  <2>2. QED
    BY <2>1, <1>4
<1>8. QED
  BY <1>1, <1>2, <1>5, <1>6, <1>7 DEF new, Grown

\* A place is covered: the call and what closes it are noted down.
LEMMA CoverWraps ==
    ASSUME WitnessInv, WrapInv, UNCHANGED <<input, text>>,
           NEW n \in Nodes, NEW q \in PlacesIn(prog, n), q \notin covered,
           BranchedAt(witness, q), ControlFits(prog, n),
           covered' = covered \cup {q},
           inserts' = inserts \o <<<<From(n)[1], From(n)[2], CallOf(n, q)>>,
                                   <<To(n)[1], CloseCol(n), CloseOf(n)>>>>
    PROVE  ColsOK' /\ CoveredOK' /\ ListedOnce' /\ InTextOnce'
<1> DEFINE call  == <<From(n)[1], From(n)[2], CallOf(n, q)>>
           close == <<To(n)[1], CloseCol(n), CloseOf(n)>>
<1>1. /\ prog' = prog /\ witness' = witness /\ cLines' = cLines /\ shift' = shift
      /\ IsProgram(prog)
  BY DEF input, text, WitnessInv, InputOK
<1>2. PICK len \in Nat :
         /\ DOMAIN inserts = 1..len /\ DOMAIN inserts' = 1..len + 2
         /\ \A i \in 1..len : inserts'[i] = inserts[i]
         /\ inserts'[len + 1] = call /\ inserts'[len + 2] = close
  <2>1. PICK S : inserts \in Seq(S)
    BY DEF WitnessInv, InsertsOK
  <2> HIDE DEF call, close
  <2>2. inserts' = inserts \o <<call, close>>
    BY DEF call, close
  <2>3. Grown(inserts, inserts \o <<call, close>>, call, close)
    BY <2>1, TwoMore, Zenon
  <2>4. QED
    BY <2>2, <2>3 DEF Grown
<1>3. q = <<q[1], q[2]>>
  BY <1>1, PlacesAre
<1>4. /\ call[3] = CallOf(n, q) /\ IsCall(CallOf(n, q)) /\ Calling(CallOf(n, q)) = q
      /\ close[3] = CloseOf(n) /\ ~IsCall(CloseOf(n))
  BY <1>3, CallingIs
<1>5. Fits(call) /\ Fits(close)
  BY <1>1, ControlSpots
<1> HIDE DEF call, close
<1>6. ASSUME NEW i \in DOMAIN inserts'
      PROVE  \/ i \in DOMAIN inserts /\ inserts'[i] = inserts[i]
             \/ i = len + 1 /\ inserts'[i] = call
             \/ i = len + 2 /\ inserts'[i] = close
  <2>1. i \in 1..len \/ i = len + 1 \/ i = len + 2
    BY <1>2
  <2>2. QED
    BY <2>1, <1>2
<1>7. \A i \in DOMAIN inserts : i \in DOMAIN inserts' /\ inserts'[i] = inserts[i]
  BY <1>2
<1>8. ColsOK'
  <2>1. \A i \in DOMAIN inserts' : Fits(inserts'[i])
    BY <1>5, <1>6 DEF WrapInv, ColsOK
  <2>2. QED
    BY <2>1, <1>1 DEF ColsOK, Fits
<1>9. Listed(call, inserts') /\ Listed(close, inserts')
  <2>1. len + 1 \in DOMAIN inserts' /\ len + 2 \in DOMAIN inserts'
    BY <1>2
  <2>2. QED
    BY <2>1, <1>2 DEF Listed
<1>10. /\ Nodes' = Nodes
       /\ \A m : /\ From(m)' = From(m) /\ To(m)' = To(m)
                 /\ CloseOf(m)' = CloseOf(m) /\ CloseCol(m)' = CloseCol(m)
       /\ \A m, r : CallOf(m, r)' = CallOf(m, r)
  BY <1>1, SameControls
<1>11. ASSUME NEW l, NEW col, NEW value, Noted(l, col, value)
       PROVE  Noted(l, col, value)'
  <2>1. Keeps(inserts, inserts')
    BY <1>7 DEF Keeps, Listed
  <2>2. QED
    BY <2>1, <1>11, NotedStays
<1>12. ASSUME NEW l, NEW col, NEW value, IsCall(value), Calling(value) # q,
              Opened(l, col, value)
       PROVE  Opened(l, col, value)'
  <2>1. CASE Listed(<<l, col, value>>, inserts)
    BY <2>1, <1>7 DEF Opened, Listed
  <2>2. CASE /\ \A i \in DOMAIN inserts : inserts[i][3] # value
             /\ InGapAfter(cLines[l], shift[l], Len(prog.lines[l]), col, Close1, {value})
    <3>1. call[3] # value /\ close[3] # value
      BY <1>4, <1>12
    <3>2. \A i \in DOMAIN inserts' : inserts'[i][3] # value
      BY <2>2, <3>1, <1>6
    <3>3. QED
      BY <2>2, <3>2, <1>1 DEF Opened
  <2>3. QED
    BY <2>1, <2>2, <1>12 DEF Opened
<1>13. ASSUME NEW m \in Nodes, NEW loc \in covered, loc \in PlacesIn(prog, m), WrappedBy(m, loc)
       PROVE  WrappedBy(m, loc)'
  <2>1. /\ Noted(From(m)[1], From(m)[2], CallOf(m, loc))
        /\ Noted(To(m)[1], CloseCol(m), CloseOf(m))
        /\ From(m) = To(m) => Opened(From(m)[1], From(m)[2], CallOf(m, loc))
    BY <1>13 DEF WrappedBy
  <2>2. IsCall(CallOf(m, loc)) /\ Calling(CallOf(m, loc)) # q
    <3>1. loc = <<loc[1], loc[2]>>
      BY <1>1, <1>13, PlacesAre
    <3>2. IsCall(CallOf(m, loc)) /\ Calling(CallOf(m, loc)) = loc
      BY <3>1, CallingIs
    <3>3. QED
      BY <3>2
  <2>3. PICK a, b, c, d, v, w :
           /\ a = From(m)[1] /\ b = From(m)[2] /\ v = CallOf(m, loc)
           /\ c = To(m)[1] /\ d = CloseCol(m) /\ w = CloseOf(m)
    OBVIOUS
  <2>4. /\ Noted(a, b, v)' /\ Noted(c, d, w)'
        /\ From(m) = To(m) => Opened(a, b, v)'
    BY <2>1, <2>2, <2>3, <1>11, <1>12
  <2>5. QED
    BY <2>3, <2>4, <1>10 DEF WrappedBy
<1>14. WrappedBy(n, q)'
  <2>1. PICK a, b, c, d, v, w :
           /\ a = From(n)[1] /\ b = From(n)[2] /\ v = CallOf(n, q)
           /\ c = To(n)[1] /\ d = CloseCol(n) /\ w = CloseOf(n)
    OBVIOUS
  <2>2. Listed(<<a, b, v>>, inserts') /\ Listed(<<c, d, w>>, inserts')
    BY <2>1, <1>9 DEF call, close
  <2>3. Noted(a, b, v)' /\ Noted(c, d, w)' /\ Opened(a, b, v)'
    BY <2>2 DEF Noted, Opened, Listed
  <2>4. QED
    BY <2>1, <2>3, <1>10 DEF WrappedBy
<1>15. CoveredOK'
  <2>1. ASSUME NEW loc \in covered'
        PROVE  \E m \in Nodes : /\ loc \in PlacesIn(prog, m) /\ BranchedAt(witness, loc)
                                /\ WrappedBy(m, loc)'
    <3>1. CASE loc = q
      BY <3>1, <1>14
    <3>2. CASE loc \in covered
      <4>1. PICK m \in Nodes : /\ loc \in PlacesIn(prog, m) /\ BranchedAt(witness, loc)
                               /\ WrappedBy(m, loc)
        BY <3>2 DEF WrapInv, CoveredOK
      <4>2. QED
        BY <3>2, <4>1, <1>13
    <3>3. QED
      BY <3>1, <3>2
  <2>2. QED
    BY <2>1, <1>1, <1>10 DEF CoveredOK
<1>16. ListedOnce'
  <2>1. ASSUME NEW i \in DOMAIN inserts', IsCall(inserts'[i][3])
        PROVE  /\ Calling(inserts'[i][3]) \in covered'
               /\ \A j \in DOMAIN inserts' : inserts'[j][3] = inserts'[i][3] => j = i
    <3>1. CASE i \in DOMAIN inserts /\ inserts'[i] = inserts[i]
      <4>1. Calling(inserts[i][3]) \in covered /\ IsCall(inserts[i][3])
        BY <2>1, <3>1 DEF WrapInv, ListedOnce
      <4>2. ASSUME NEW j \in DOMAIN inserts', inserts'[j][3] = inserts'[i][3]
            PROVE  j \in DOMAIN inserts /\ inserts'[j] = inserts[j]
        BY <4>1, <4>2, <3>1, <1>4, <1>6
      <4>3. QED
        BY <2>1, <3>1, <4>1, <4>2 DEF WrapInv, ListedOnce
    <3>2. CASE i = len + 1 /\ inserts'[i] = call
      <4>1. ASSUME NEW j \in DOMAIN inserts', inserts'[j][3] = inserts'[i][3]
            PROVE  j = i
        <5>1. ~(j \in DOMAIN inserts /\ inserts'[j] = inserts[j])
          BY <4>1, <3>2, <1>4 DEF WrapInv, ListedOnce
        <5>2. ~(j = len + 2 /\ inserts'[j] = close)
          BY <4>1, <3>2, <1>4
        <5>3. QED
          BY <5>1, <5>2, <3>2, <1>6
      <4>2. QED
        BY <3>2, <4>1, <1>4
    <3>3. CASE i = len + 2 /\ inserts'[i] = close
      BY <2>1, <3>3, <1>4
    <3>4. QED
      BY <3>1, <3>2, <3>3, <1>6
  <2>2. QED
    BY <2>1 DEF ListedOnce, Calling, IsCall
<1>17. InTextOnce'
  <2>1. ASSUME NEW l \in DOMAIN prog.lines, NEW k \in DOMAIN cLines[l],
               IsCall(cLines[l][k].new)
        PROVE  /\ Calling(cLines[l][k].new) \in covered'
               /\ \A i \in DOMAIN inserts' : inserts'[i][3] # cLines[l][k].new
               /\ OneBlock(cLines[l], cLines[l][k].new)
    <3>1. /\ Calling(cLines[l][k].new) \in covered
          /\ \A i \in DOMAIN inserts : inserts[i][3] # cLines[l][k].new
          /\ OneBlock(cLines[l], cLines[l][k].new)
      BY <2>1 DEF WrapInv, InTextOnce
    <3>2. call[3] # cLines[l][k].new /\ close[3] # cLines[l][k].new
      BY <2>1, <3>1, <1>4
    <3>3. \A i \in DOMAIN inserts' : inserts'[i][3] # cLines[l][k].new
      BY <3>1, <3>2, <1>6
    <3>4. QED
      BY <3>1, <3>3
  <2>2. QED
    BY <2>1, <1>1 DEF InTextOnce, Calling, IsCall
<1>18. QED
  BY <1>8, <1>15, <1>16, <1>17

LEMMA BranchingWaypointWraps ==
    ASSUME WitnessInv, GuardInv, WrapInv, ControlsFit(prog, witness), BranchingWaypoint
    PROVE  WrapInv'
<1>1. Here("branching") /\ NextWaypoint /\ UNCHANGED <<input, maps, sIndex, text>>
  BY DEF BranchingWaypoint
<1>2. PICK n \in Nodes : \E q \in PlacesIn(prog, n) :
         /\ BranchedAt(witness, q) /\ ControlFits(prog, n) /\ KeyOf(WLoc, q)
         /\ covered' = covered \cup {q}
         /\ inserts' = IF q \in covered THEN inserts
                       ELSE inserts \o <<<<From(n)[1], From(n)[2], CallOf(n, q)>>,
                                         <<To(n)[1], CloseCol(n), CloseOf(n)>>>>
         /\ content' = IF WLoc[2] = 0 THEN [content EXCEPT ![seg][way].col = q[2]]
                                      ELSE content
  BY BranchingIs DEF WrapInv
<1>3. PICK q \in PlacesIn(prog, n) :
         /\ BranchedAt(witness, q) /\ ControlFits(prog, n) /\ KeyOf(WLoc, q)
         /\ covered' = covered \cup {q}
         /\ inserts' = IF q \in covered THEN inserts
                       ELSE inserts \o <<<<From(n)[1], From(n)[2], CallOf(n, q)>>,
                                         <<To(n)[1], CloseCol(n), CloseOf(n)>>>>
         /\ content' = IF WLoc[2] = 0 THEN [content EXCEPT ![seg][way].col = q[2]]
                                      ELSE content
  BY <1>2
<1>4. PICK p0 : p0 = <<seg, way>>
  OBVIOUS
<1>5. /\ p0 \in Positions /\ p0[1] = seg /\ p0[2] = way
      /\ Waypoint = Way(p0) /\ Now(p0) = Way(p0)
      /\ seg \in DOMAIN content /\ way \in DOMAIN content[seg] /\ Waypoint \in Waypoints
      /\ \A p \in Positions : p = p0 \/ Past(p) <=> Past(p)'
  BY <1>1, <1>4, HereIs DEF Past, NextWaypoint
<1>6. prog' = prog /\ witness' = witness /\ bad' = bad /\ IsProgram(prog)
  BY <1>1 DEF input, NextWaypoint, WitnessInv, InputOK
<1>7. q = <<q[1], q[2]>>
  BY <1>3, <1>6, PlacesAre
<1>8. Loc(Now(p0)') = q /\ \A p \in Positions : p # p0 => Now(p)' = Now(p)
  <2>1. CASE WLoc[2] = 0
    <3> DEFINE w == [Waypoint EXCEPT !.col = q[2]]
    <3>1. content' = [content EXCEPT ![seg] = [content[seg] EXCEPT ![way] = w]]
      BY <2>1, <1>3, <1>5 DEF Waypoint
    <3>2. w.line = Waypoint.line /\ w.col = q[2]
      BY <1>5 DEF Waypoints
    <3> HIDE DEF w
    <3>3. content'[seg][way] = w /\ \A p \in Positions : p # p0 => Now(p)' = Now(p)
      BY <3>1, <1>1, <1>4, OthersStay
    <3>4. Now(p0)' = w
      BY <3>3, <1>5 DEF Now
    <3>5. Waypoint.line = q[1]
      BY <1>3 DEF KeyOf, WLoc, Loc
    <3>6. QED
      BY <3>2, <3>3, <3>4, <3>5, <1>7 DEF Loc
  <2>2. CASE WLoc[2] # 0
    <3>1. content' = content
      BY <2>2, <1>3
    <3>2. \A p : Now(p)' = Now(p)
      BY <3>1 DEF Now
    <3>3. Waypoint.line = q[1] /\ Waypoint.col = q[2]
      BY <2>2, <1>3 DEF KeyOf, WLoc, Loc
    <3>4. Loc(Now(p0)) = q
      BY <3>3, <1>5, <1>7 DEF Loc
    <3>5. QED
      BY <3>2, <3>4
  <2>3. QED
    BY <2>1, <2>2
<1>9. Names(Way(p0), q)
  BY <1>3, <1>5 DEF KeyOf, WLoc, Loc, Names
<1>10. PassedOK'
  <2>1. ASSUME bad' = <<>>, NEW p \in Positions, Way(p).type = "branching", Past(p)'
        PROVE  Loc(Now(p)') \in covered' /\ Names(Way(p), Loc(Now(p)'))
    <3>1. CASE p = p0
      BY <3>1, <1>3, <1>8, <1>9
    <3>2. CASE p # p0
      <4>1. Past(p) /\ Now(p)' = Now(p)
        BY <2>1, <3>2, <1>5, <1>8
      <4>2. Loc(Now(p)) \in covered /\ Names(Way(p), Loc(Now(p)))
        BY <2>1, <4>1, <1>6 DEF WrapInv, PassedOK
      <4>3. QED
        BY <4>1, <4>2, <1>3
    <3>3. QED
      BY <3>1, <3>2
  <2>2. Positions' = Positions /\ \A p : Way(p)' = Way(p)
    BY <1>6 DEF Positions, Way
  <2>3. \A p : /\ Loc(Now(p))' = Loc(Now(p)')
               /\ Names(Way(p), Loc(Now(p)))' <=> Names(Way(p)', Loc(Now(p)'))
    BY DEF Loc, Names
  <2>4. QED
    BY <2>1, <2>2, <2>3 DEF PassedOK
<1>11. EntriesOK'
  BY <1>1, SameEntries DEF input, maps, WrapInv
<1>12. CASE q \in covered
  <2>1. covered' = covered /\ inserts' = inserts
    BY <1>3, <1>12
  <2>2. Adds(inserts, inserts')
    BY <2>1, AddsNone
  <2>3. QED
    BY <2>1, <2>2, <1>1, <1>10, <1>11, WrapStays
<1>13. CASE q \notin covered
  <2>1. inserts' = inserts \o <<<<From(n)[1], From(n)[2], CallOf(n, q)>>,
                                <<To(n)[1], CloseCol(n), CloseOf(n)>>>>
    BY <1>3, <1>13
  <2>2. ColsOK' /\ CoveredOK' /\ ListedOnce' /\ InTextOnce'
    BY <2>1, <1>1, <1>3, <1>13, CoverWraps
  <2>3. QED
    BY <2>2, <1>10, <1>11 DEF WrapInv
<1>14. QED
  BY <1>12, <1>13

\* What is left of a list without one of its items.
Removed(old, i, list) ==
    \E f \in [DOMAIN list -> DOMAIN old \ {i}] :
        /\ \A k \in DOMAIN list : list[k] = old[f[k]]
        /\ \A k, m \in DOMAIN list : f[k] = f[m] => k = m

LEMMA RemoveAtRemoves ==
    ASSUME NEW S, NEW s \in Seq(S), NEW i \in DOMAIN s
    PROVE  Removed(s, i, RemoveAt(s, i))
<1>1. PICK n \in Nat : n = Len(s) /\ DOMAIN s = 1..n /\ \A j \in 1..n : s[j] \in S
  OBVIOUS
<1> DEFINE a    == SubSeq(s, 1, i - 1)
           b    == SubSeq(s, i + 1, n)
           list == RemoveAt(s, i)
<1>2. i \in 1..n /\ i \in Nat /\ i - 1 \in Int /\ i + 1 \in Int /\ n \in Int
  BY <1>1
<1>3. \A k \in 1..i - 1 : s[k] \in S
  BY <1>1
<1>4. \A k \in i + 1..n : s[k] \in S
  BY <1>1
<1>5. /\ a \in Seq(S) /\ Len(a) = (IF 1 <= i - 1 THEN (i - 1) - 1 + 1 ELSE 0)
      /\ \A k \in 1..(i - 1) - 1 + 1 : a[k] = s[1 + k - 1]
  BY <1>2, <1>3, SubSeqProperties
<1>6. /\ b \in Seq(S) /\ Len(b) = (IF i + 1 <= n THEN n - (i + 1) + 1 ELSE 0)
      /\ \A k \in 1..n - (i + 1) + 1 : b[k] = s[i + 1 + k - 1]
  BY <1>2, <1>4, SubSeqProperties
<1>7. list = a \o b
  BY <1>1 DEF RemoveAt
<1> HIDE DEF a, b, list
<1>8. Len(a) = i - 1 /\ \A k \in 1..i - 1 : a[k] = s[k]
  BY <1>2, <1>5
<1>9. Len(b) = n - i /\ \A k \in 1..n - i : b[k] = s[i + k]
  <2>1. PICK d : d = Len(b)
    OBVIOUS
  <2>2. d = IF i + 1 <= n THEN n - (i + 1) + 1 ELSE 0
    BY <2>1, <1>6, Zenon
  <2>3. d = n - i
    BY <2>2, <1>2
  <2>4. ASSUME NEW k \in 1..n - i PROVE b[k] = s[i + k]
    <3>1. k \in 1..n - (i + 1) + 1 /\ i + 1 + k - 1 = i + k
      BY <1>2
    <3>2. QED
      BY <3>1, <1>6
  <2>5. QED
    BY <2>1, <2>3, <2>4
<1>10. /\ list \in Seq(S) /\ Len(list) = Len(a) + Len(b)
       /\ \A k \in 1..Len(a) + Len(b) : list[k] = IF k <= Len(a) THEN a[k] ELSE b[k - Len(a)]
  BY <1>5, <1>6, <1>7, ConcatProperties
<1>11. DOMAIN list = 1..n - 1
  BY <1>2, <1>8, <1>9, <1>10
<1> DEFINE f == [k \in DOMAIN list |-> IF k < i THEN k ELSE k + 1]
<1>12. f \in [DOMAIN list -> DOMAIN s \ {i}]
  BY <1>1, <1>2, <1>11
<1>13. ASSUME NEW k \in DOMAIN list PROVE list[k] = s[f[k]]
  <2>1. k \in 1..Len(a) + Len(b) /\ k \in Nat
    BY <1>2, <1>8, <1>9, <1>11
  <2>2. CASE k < i
    <3>1. k <= Len(a) /\ k \in 1..i - 1 /\ f[k] = k
      BY <2>1, <2>2, <1>2, <1>8, <1>11
    <3>2. QED
      BY <3>1, <2>1, <1>8, <1>10
  <2>3. CASE ~(k < i)
    <3>1. ~(k <= i - 1) /\ k - (i - 1) \in 1..n - i /\ f[k] = k + 1 /\ i + (k - (i - 1)) = k + 1
      BY <2>1, <2>3, <1>2, <1>11
    <3>2. list[k] = b[k - (i - 1)]
      BY <3>1, <2>1, <1>8, <1>10
    <3>3. QED
      BY <3>1, <3>2, <1>9
  <2>4. QED
    BY <2>2, <2>3
<1>14. \A k, m \in DOMAIN list : f[k] = f[m] => k = m
  BY <1>2, <1>11
<1> HIDE DEF f
<1>15. QED
  BY <1>12, <1>13, <1>14 DEF Removed, list

\* No text is put in among the calls that are in; what is new is in one piece.
KeepsBlocks(line, value, out) ==
    /\ (\A m \in 1..Len(line) : line[m].new # value) => OneBlock(out, value)
    /\ \A other : IsCall(other) /\ other # value /\ OneBlock(line, other) => OneBlock(out, other)
    /\ \A k \in DOMAIN out : \/ out[k].new = value
                             \/ \E m \in DOMAIN line : line[m].new = out[k].new

LEMMA InsertKeepsBlocks ==
    ASSUME NEW line, NEW cols \in Records, NEW l, NEW n \in Nat,
           Placed(line, cols, l, n),
           NEW col \in Nat \ {0}, NEW value \in Values, col <= n + 1,
           \A i \in DOMAIN cols : col <= cols[i][1]
    PROVE  KeepsBlocks(line, value, InsertText(line, col, value))
<1> DEFINE w   == Width(value)
           out == InsertText(line, col, value)
<1>1. w \in Nat \ {0}
  BY WidthIs
<1>2. PICK b \in Nat :
         /\ b <= Len(line) /\ b <= col - 1 /\ (b = col - 1 \/ b = Len(line))
         /\ out \in Seq(Chars) /\ Len(out) = Len(line) + w
         /\ \A k \in 1..(Len(line) + w) :
              /\ k <= b => out[k] = line[k]
              /\ b < k /\ k <= b + w => out[k] = New(value)
              /\ b + w < k => out[k] = line[k - w]
  BY InsertTextIs DEF Placed
<1>3. PICK len \in Nat : len = Len(line) /\ DOMAIN line = 1..len
  BY DEF Placed
<1> HIDE DEF w, out
<1>4. \A c \in 1..n : c < col => c \in 1..len /\ line[c] = Source(l, c)
  <2>1. ASSUME NEW c \in 1..n, c < col
        PROVE  c \in 1..len /\ line[c] = Source(l, c)
    <3>1. c \in Nat /\ ShiftSum(cols, c) = 0
      BY <2>1, NothingBefore
    <3>2. c + ShiftSum(cols, c) = c
      BY <3>1
    <3>3. QED
      BY <3>2, <1>3 DEF Placed
  <2>2. QED
    BY <2>1
<1>5. b = col - 1
  <2>1. CASE col = 1
    BY <2>1, <1>2
  <2>2. CASE col # 1
    <3>1. col - 1 \in 1..n /\ col - 1 < col
      BY <2>2
    <3>2. col - 1 <= len
      BY <3>1, <1>4
    <3>3. QED
      BY <3>2, <1>2, <1>3
  <2>3. QED
    BY <2>1, <2>2
<1>6. ASSUME NEW k \in 1..b PROVE k \in 1..len /\ line[k].new = None
  <2>1. k \in 1..n /\ k < col
    BY <1>5
  <2>2. k \in 1..len /\ line[k] = Source(l, k)
    BY <2>1, <1>4
  <2>3. Source(l, k).new = None
    BY DEF Source
  <2>4. QED
    BY <2>2, <2>3
<1>7. /\ out \in Seq(Chars) /\ Len(out) = len + w /\ DOMAIN out = 1..len + w
      /\ b <= len
  BY <1>1, <1>2, <1>3
<1>8. \A k \in 1..len + w :
         /\ k <= b => k \in 1..len /\ out[k] = line[k] /\ out[k].new = None
         /\ b < k /\ k <= b + w => out[k].new = value
         /\ b + w < k => k - w \in 1..len /\ out[k] = line[k - w]
  <2>1. ASSUME NEW k \in 1..len + w, k <= b
        PROVE  k \in 1..len /\ out[k] = line[k] /\ out[k].new = None
    <3>1. k \in 1..b
      BY <2>1
    <3>2. k \in 1..len /\ line[k].new = None
      BY <3>1, <1>6
    <3>3. out[k] = line[k]
      BY <2>1, <1>2, <1>3
    <3>4. QED
      BY <3>2, <3>3
  <2>2. ASSUME NEW k \in 1..len + w, b < k, k <= b + w
        PROVE  out[k].new = value
    <3>1. out[k] = New(value)
      BY <2>2, <1>2, <1>3
    <3>2. QED
      BY <3>1 DEF New
  <2>3. ASSUME NEW k \in 1..len + w, b + w < k
        PROVE  k - w \in 1..len /\ out[k] = line[k - w]
    <3>1. k - w \in 1..len
      BY <2>3, <1>1
    <3>2. QED
      BY <3>1, <2>3, <1>2, <1>3
  <2>4. QED
    BY <2>1, <2>2, <2>3
<1>9. value # None
  BY WidthIs
<1>10. ASSUME \A m \in 1..Len(line) : line[m].new # value
       PROVE  OneBlock(out, value)
  <2>1. ASSUME NEW m \in 1..len + w
        PROVE  out[m].new = value <=> m \in b + 1..b + w
    <3>1. CASE m <= b
      <4>1. out[m].new = None /\ m \notin b + 1..b + w
        BY <3>1, <1>8
      <4>2. QED
        BY <4>1, <1>9
    <3>2. CASE b < m /\ m <= b + w
      <4>1. out[m].new = value /\ m \in b + 1..b + w
        BY <3>2, <1>8
      <4>2. QED
        BY <4>1
    <3>3. CASE b + w < m
      <4>1. m - w \in 1..len /\ out[m] = line[m - w] /\ m \notin b + 1..b + w
        BY <3>3, <1>1, <1>8
      <4>2. QED
        BY <4>1, <1>3, <1>10
    <3>4. QED
      BY <3>1, <3>2, <3>3, <1>1
  <2>2. b + w <= len + w
    BY <1>1, <1>7
  <2>3. QED
    BY <2>1, <2>2, <1>7 DEF OneBlock, w
<1>11. ASSUME NEW other, IsCall(other), other # value, OneBlock(line, other)
       PROVE  OneBlock(out, other)
  <2>1. Width(other) = 3 /\ other # None
    BY <1>11 DEF IsCall, Width
  <2>2. PICK d \in Nat : /\ d + 3 <= len
                         /\ \A m \in 1..len : line[m].new = other <=> m \in d + 1..d + 3
    BY <2>1, <1>3, <1>11 DEF OneBlock
  <2>3. b <= d
    <3>1. SUFFICES ASSUME d < b PROVE FALSE
      OBVIOUS
    <3>2. d + 1 \in 1..b
      BY <3>1
    <3>3. d + 1 \in 1..len /\ line[d + 1].new = None
      BY <3>2, <1>6
    <3>4. d + 1 \in d + 1..d + 3
      OBVIOUS
    <3>5. QED
      BY <3>3, <3>4, <2>1, <2>2
  <2> DEFINE e == d + w
  <2>4. e \in Nat /\ e + 3 <= len + w /\ b + w <= e
    BY <2>2, <2>3, <1>1
  <2>5. ASSUME NEW m \in 1..len + w
        PROVE  out[m].new = other <=> m \in e + 1..e + 3
    <3>1. CASE m <= b
      <4>1. out[m].new = None /\ m \notin e + 1..e + 3
        BY <3>1, <2>4, <1>1, <1>8
      <4>2. QED
        BY <4>1, <2>1
    <3>2. CASE b < m /\ m <= b + w
      <4>1. out[m].new = value /\ m \notin e + 1..e + 3
        BY <3>2, <2>4, <1>1, <1>8
      <4>2. QED
        BY <4>1, <1>11
    <3>3. CASE b + w < m
      <4>1. m - w \in 1..len /\ out[m] = line[m - w]
        BY <3>3, <1>8
      <4>2. m \in e + 1..e + 3 <=> m - w \in d + 1..d + 3
        BY <1>1
      <4>3. QED
        BY <4>1, <4>2, <2>2
    <3>4. QED
      BY <3>1, <3>2, <3>3, <1>1
  <2> HIDE DEF e
  <2>6. QED
    BY <2>1, <2>4, <2>5, <1>7 DEF OneBlock
<1>12. ASSUME NEW k \in DOMAIN out
       PROVE  out[k].new = value \/ \E m \in DOMAIN line : line[m].new = out[k].new
  <2>1. k \in 1..len + w /\ k \in Nat
    BY <1>7
  <2>2. CASE k <= b
    BY <2>1, <2>2, <1>3, <1>8
  <2>3. CASE b < k /\ k <= b + w
    BY <2>1, <2>3, <1>8
  <2>4. CASE b + w < k
    BY <2>1, <2>4, <1>3, <1>8
  <2>5. QED
    BY <2>1, <2>2, <2>3, <2>4, <1>1
<1>13. QED
  BY <1>10, <1>11, <1>12 DEF out, KeepsBlocks

\* What the insertion of one text comes to.
LEMMA InsertCallIs ==
    ASSUME WitnessInv, ColsOK, InsertCall
    PROVE  \E i \in DOMAIN inserts :
              LET l     == inserts[i][1]
                  col   == inserts[i][2]
                  value == inserts[i][3]
              IN  /\ IsNext(i)
                  /\ l \in DOMAIN prog.lines /\ col \in Nat \ {0} /\ value \in Values
                  /\ col <= Len(prog.lines[l]) + 1 /\ Len(prog.lines[l]) \in Nat
                  /\ cLines'[l] = InsertText(cLines[l], col, value)
                  /\ shift'[l] = AddShift(shift[l], col, Width(value))
                  /\ \A m \in DOMAIN prog.lines :
                        m # l => cLines'[m] = cLines[m] /\ shift'[m] = shift[m]
                  /\ shift[l] \in Records /\ Descending(shift[l])
                  /\ \A j \in DOMAIN shift[l] : col <= shift[l][j][1]
                  /\ Placed(cLines[l], shift[l], l, Len(prog.lines[l]))
                  /\ Removed(inserts, i, inserts')
                  /\ \A j \in DOMAIN inserts : j # i => Listed(inserts[j], inserts')
<1>1. InsertsOK /\ TextOK /\ IsProgram(prog) /\ phase = "insert"
  BY DEF WitnessInv, InputOK, InsertCall
<1>2. PICK i \in DOMAIN inserts :
         /\ IsNext(i)
         /\ cLines' = [cLines EXCEPT ![inserts[i][1]] =
                          InsertText(@, inserts[i][2], inserts[i][3])]
         /\ shift' = [shift EXCEPT ![inserts[i][1]] =
                          AddShift(@, inserts[i][2], Width(inserts[i][3]))]
         /\ inserts' = RemoveAt(inserts, i)
  BY DEF InsertCall
<1> DEFINE Items == (DOMAIN prog.lines) \X (Nat \ {0}) \X Values
           l     == inserts[i][1]
           col   == inserts[i][2]
           value == inserts[i][3]
<1>3. inserts \in Seq(Items)
  BY <1>1 DEF InsertsOK
<1>4. l \in DOMAIN prog.lines /\ col \in Nat \ {0} /\ value \in Values
  <2>1. inserts[i] \in Items
    BY <1>3
  <2>2. QED
    BY <2>1
<1> HIDE DEF Items
<1>5. /\ cLines'[l] = InsertText(cLines[l], col, value)
      /\ shift'[l] = AddShift(shift[l], col, Width(value))
      /\ \A m \in DOMAIN prog.lines : m # l => cLines'[m] = cLines[m] /\ shift'[m] = shift[m]
  BY <1>1, <1>2, <1>4 DEF TextOK
<1>6. /\ shift[l] \in Records /\ Descending(shift[l])
      /\ \A j \in DOMAIN shift[l] : col <= shift[l][j][1]
      /\ Placed(cLines[l], shift[l], l, Len(prog.lines[l]))
  BY <1>1, <1>4 DEF TextOK, Recorded
<1>7. Len(prog.lines[l]) \in Nat
  BY <1>1, <1>4, LinesAre
<1>8. col <= Len(prog.lines[l]) + 1
  BY <1>7 DEF ColsOK, Fits
<1>9. Removed(inserts, i, RemoveAt(inserts, i))
  BY <1>3, RemoveAtRemoves, Zenon
<1>10. \A j \in DOMAIN inserts : j # i => Listed(inserts[j], RemoveAt(inserts, i))
  BY <1>3, RemoveKeeps
<1>11. inserts' = RemoveAt(inserts, i)
  BY <1>2
<1> HIDE DEF l, col, value
<1>12. Removed(inserts, i, inserts') /\ \A j \in DOMAIN inserts : j # i => Listed(inserts[j], inserts')
  BY <1>9, <1>10, <1>11
<1>13. QED
  BY <1>2, <1>4, <1>5, <1>6, <1>7, <1>8, <1>12 DEF l, col, value

\* A call comes before the condition that is added behind it.
LEMMA OpenedStays ==
    ASSUME WitnessInv, WrapInv, InsertCall,
           NEW m \in DOMAIN prog.lines, NEW c \in 1..Len(prog.lines[m]) + 1,
           NEW v, IsCall(v), Opened(m, c, v), Noted(m, c, Close1)
    PROVE  Opened(m, c, v)'
<1>1. ColsOK /\ ListedOnce /\ InTextOnce /\ prog' = prog
  BY DEF WrapInv, InsertCall, input
<1>2. PICK i \in DOMAIN inserts :
         LET l     == inserts[i][1]
             col   == inserts[i][2]
             value == inserts[i][3]
         IN  /\ IsNext(i)
             /\ l \in DOMAIN prog.lines /\ col \in Nat \ {0} /\ value \in Values
             /\ col <= Len(prog.lines[l]) + 1 /\ Len(prog.lines[l]) \in Nat
             /\ cLines'[l] = InsertText(cLines[l], col, value)
             /\ shift'[l] = AddShift(shift[l], col, Width(value))
             /\ \A k \in DOMAIN prog.lines :
                   k # l => cLines'[k] = cLines[k] /\ shift'[k] = shift[k]
             /\ shift[l] \in Records /\ Descending(shift[l])
             /\ \A j \in DOMAIN shift[l] : col <= shift[l][j][1]
             /\ Placed(cLines[l], shift[l], l, Len(prog.lines[l]))
             /\ Removed(inserts, i, inserts')
             /\ \A j \in DOMAIN inserts : j # i => Listed(inserts[j], inserts')
  BY <1>1, InsertCallIs
<1> DEFINE l     == inserts[i][1]
           col   == inserts[i][2]
           value == inserts[i][3]
           n     == Len(prog.lines[l])
<1>3. /\ l \in DOMAIN prog.lines /\ col \in Nat \ {0} /\ value \in Values
      /\ col <= n + 1 /\ n \in Nat
      /\ cLines'[l] = InsertText(cLines[l], col, value)
      /\ shift'[l] = AddShift(shift[l], col, Width(value))
      /\ \A k \in DOMAIN prog.lines : k # l => cLines'[k] = cLines[k] /\ shift'[k] = shift[k]
      /\ shift[l] \in Records /\ Descending(shift[l])
      /\ \A j \in DOMAIN shift[l] : col <= shift[l][j][1]
      /\ Placed(cLines[l], shift[l], l, n)
  BY <1>2
<1>4. PICK f \in [DOMAIN inserts' -> DOMAIN inserts \ {i}] :
         \A k \in DOMAIN inserts' : inserts'[k] = inserts[f[k]]
  BY <1>2 DEF Removed
<1>5. <<m, c, v>>[1] = m /\ <<m, c, v>>[2] = c /\ <<m, c, v>>[3] = v
  OBVIOUS
<1> HIDE DEF l, col, value, n
<1>6. ASSUME NEW other, NEW first, value \in first => col <= c /\ m = l,
             InGapAfter(cLines[m], shift[m], Len(prog.lines[m]), c, other, first)
      PROVE  InGapAfter(cLines'[m], shift'[m], Len(prog.lines[m]), c, other, first)
  <2>1. CASE m = l
    <3>1. c \in Nat /\ c <= n + 1 /\ Len(prog.lines[m]) = n
      BY <2>1, <1>3 DEF n
    <3>2. InGapAfter(cLines[l], shift[l], n, c, other, first)
      BY <2>1, <3>1, <1>6
    <3>3. InGapAfter(InsertText(cLines[l], col, value), AddShift(shift[l], col, Width(value)),
                     n, c, other, first)
      BY <3>1, <3>2, <1>3, <1>6, InsertKeepsOrderInGap
    <3>4. QED
      BY <2>1, <3>1, <3>3, <1>3
  <2>2. CASE m # l
    BY <2>2, <1>3, <1>6
  <2>3. QED
    BY <2>1, <2>2
<1>7. CASE /\ \A j \in DOMAIN inserts : inserts[j][3] # v
           /\ InGapAfter(cLines[m], shift[m], Len(prog.lines[m]), c, Close1, {v})
  <2>1. \A k \in DOMAIN inserts' : inserts'[k][3] # v
    BY <1>4, <1>7
  <2>2. value \notin {v}
    BY <1>7 DEF value
  <2>3. InGapAfter(cLines'[m], shift'[m], Len(prog.lines[m]), c, Close1, {v})
    BY <2>2, <1>6, <1>7
  <2>4. QED
    BY <2>1, <2>3, <1>1 DEF Opened
<1>8. CASE Listed(<<m, c, v>>, inserts)
  <2>1. PICK j \in DOMAIN inserts : inserts[j] = <<m, c, v>>
    BY <1>8 DEF Listed
  <2>2. CASE j # i
    <3>1. Listed(<<m, c, v>>, inserts')
      BY <2>1, <2>2, <1>2
    <3>2. QED
      BY <3>1 DEF Opened, Listed
  <2>3. CASE j = i
    <3>1. m = l /\ c = col /\ v = value
      BY <2>1, <2>3, <1>5 DEF l, col, value
    <3>2. \A k \in DOMAIN inserts' : inserts'[k][3] # v
      <4>1. ASSUME NEW k \in DOMAIN inserts', inserts'[k][3] = v PROVE FALSE
        <5>1. f[k] \in DOMAIN inserts /\ f[k] # i /\ inserts[f[k]][3] = v
          BY <4>1, <1>4
        <5>2. inserts[i][3] = v
          BY <3>1 DEF value
        <5>3. QED
          BY <5>1, <5>2, <1>1 DEF ListedOnce
      <4>2. QED
        BY <4>1
    <3>3. ~Listed(<<m, c, Close1>>, inserts)
      <4>1. ASSUME NEW k \in DOMAIN inserts, inserts[k] = <<m, c, Close1>> PROVE FALSE
        <5>1. Close1 = <<2>> /\ v \in Values /\ v[1] \in {4, 5}
          BY <3>1, <1>3 DEF Close1, IsCall
        <5>2. v \in Seq(Nat) /\ v # None
          BY <5>1 DEF Values
        <5>3. Len(Close1) = 1 /\ Close1[1] = 2 /\ 1 <= Len(v)
          BY <5>1, <5>2 DEF None
        <5>4. ValueLess(Close1, v)
          <6>1. 1 \in 1..Len(Close1) /\ Close1[1] < v[1] /\ 1..1 - 1 = {}
            BY <5>1, <5>3
          <6>2. QED
            BY <6>1, <5>3 DEF ValueLess
        <5>5. inserts[k][1] = m /\ inserts[k][2] = c /\ inserts[k][3] = Close1
          BY <4>1
        <5>6. inserts[i][1] = m /\ inserts[i][2] = c /\ inserts[i][3] = v
          BY <2>1, <2>3, <1>5
        <5>7. InsertedFirst(inserts[k], inserts[i])
          BY <5>4, <5>5, <5>6 DEF InsertedFirst
        <5>8. QED
          BY <5>7, <1>2 DEF IsNext
      <4>2. QED
        BY <4>1 DEF Listed
    <3>4. InGap(cLines[m], shift[m], Len(prog.lines[m]), c, Close1)
      BY <3>3 DEF Noted
    <3>5. ASSUME NEW k \in 1..Len(cLines[m]) PROVE cLines[m][k].new # v
      <4>1. k \in DOMAIN cLines[m]
        BY <3>1, <1>3 DEF Placed
      <4>2. inserts[i][3] = v
        BY <3>1 DEF value
      <4>3. QED
        BY <4>1, <4>2, <1>1 DEF InTextOnce
    <3>6. InGapAfter(cLines[m], shift[m], Len(prog.lines[m]), c, Close1, {v})
      BY <3>4, <3>5 DEF InGap, InGapAfter
    <3>7. InGapAfter(cLines'[m], shift'[m], Len(prog.lines[m]), c, Close1, {v})
      <4>1. col <= c /\ m = l
        BY <3>1, <1>3
      <4>2. QED
        BY <4>1, <3>6, <1>6
    <3>8. QED
      BY <3>2, <3>7, <1>1 DEF Opened
  <2>4. QED
    BY <2>2, <2>3
<1>9. QED
  BY <1>7, <1>8 DEF Opened

LEMMA InsertCallWraps ==
    ASSUME WitnessInv, GuardInv, WrapInv, ControlsFit(prog, witness), InsertCall
    PROVE  WrapInv'
<1>1. /\ UNCHANGED <<phase, input, content, node, maps, seg, way, sIndex, covered, bad>>
      /\ EntriesOK /\ ColsOK /\ CoveredOK /\ ListedOnce /\ InTextOnce
  BY DEF InsertCall, WrapInv
<1>2. prog' = prog /\ witness' = witness /\ covered' = covered /\ IsProgram(prog)
  BY <1>1 DEF input, WitnessInv, InputOK
<1>3. PICK i \in DOMAIN inserts :
         LET l     == inserts[i][1]
             col   == inserts[i][2]
             value == inserts[i][3]
         IN  /\ IsNext(i)
             /\ l \in DOMAIN prog.lines /\ col \in Nat \ {0} /\ value \in Values
             /\ col <= Len(prog.lines[l]) + 1 /\ Len(prog.lines[l]) \in Nat
             /\ cLines'[l] = InsertText(cLines[l], col, value)
             /\ shift'[l] = AddShift(shift[l], col, Width(value))
             /\ \A k \in DOMAIN prog.lines :
                   k # l => cLines'[k] = cLines[k] /\ shift'[k] = shift[k]
             /\ shift[l] \in Records /\ Descending(shift[l])
             /\ \A j \in DOMAIN shift[l] : col <= shift[l][j][1]
             /\ Placed(cLines[l], shift[l], l, Len(prog.lines[l]))
             /\ Removed(inserts, i, inserts')
             /\ \A j \in DOMAIN inserts : j # i => Listed(inserts[j], inserts')
  BY <1>1, InsertCallIs
<1> DEFINE l     == inserts[i][1]
           col   == inserts[i][2]
           value == inserts[i][3]
           n     == Len(prog.lines[l])
           out   == InsertText(cLines[l], col, value)
<1>4. /\ l \in DOMAIN prog.lines /\ col \in Nat \ {0} /\ value \in Values
      /\ col <= n + 1 /\ n \in Nat /\ cLines'[l] = out
      /\ \A k \in DOMAIN prog.lines : k # l => cLines'[k] = cLines[k]
      /\ shift[l] \in Records /\ \A j \in DOMAIN shift[l] : col <= shift[l][j][1]
      /\ Placed(cLines[l], shift[l], l, n)
  BY <1>3
<1>5. inserts[i][3] = value
  OBVIOUS
<1>6. PICK f \in [DOMAIN inserts' -> DOMAIN inserts \ {i}] :
         /\ \A k \in DOMAIN inserts' : inserts'[k] = inserts[f[k]]
         /\ \A k, m \in DOMAIN inserts' : f[k] = f[m] => k = m
  BY <1>3 DEF Removed
<1> HIDE DEF l, col, value, n
<1>7. EntriesOK'
  BY <1>1, <1>2, SameEntries DEF maps
<1>8. PassedOK'
  <2>1. \A p : (Past(p)' <=> Past(p)) /\ Now(p)' = Now(p)
    BY <1>1 DEF Past, Now
  <2>2. QED
    BY <2>1, <1>1, SamePassed
<1>9. ColsOK'
  <2>1. \A k \in DOMAIN inserts' : Fits(inserts'[k])
    BY <1>1, <1>6 DEF ColsOK
  <2>2. QED
    BY <2>1, <1>2 DEF ColsOK, Fits
<1>10. CoveredOK'
  <2>1. \A m \in DOMAIN prog.lines : \A c \in 1..Len(prog.lines[m]) + 1 : \A v :
           Noted(m, c, v) => Noted(m, c, v)'
    BY InsertNoted DEF GuardInv
  <2>2. \A m \in DOMAIN prog.lines : \A c \in 1..Len(prog.lines[m]) + 1 : \A v :
           IsCall(v) /\ Opened(m, c, v) /\ Noted(m, c, Close1) => Opened(m, c, v)'
    BY OpenedStays
  <2>3. /\ Nodes' = Nodes
        /\ \A m : /\ From(m)' = From(m) /\ To(m)' = To(m)
                  /\ CloseOf(m)' = CloseOf(m) /\ CloseCol(m)' = CloseCol(m)
        /\ \A m, r : CallOf(m, r)' = CallOf(m, r)
    BY <1>2, SameControls
  <2>4. ASSUME NEW loc \in covered, NEW m \in Nodes,
               loc \in PlacesIn(prog, m), BranchedAt(witness, loc), WrappedBy(m, loc)
        PROVE  WrappedBy(m, loc)'
    <3>0. ControlFits(prog, m)
      BY <2>4, <1>2, NodesAre DEF ControlsFit
    <3>1. /\ Noted(From(m)[1], From(m)[2], CallOf(m, loc))
          /\ Noted(To(m)[1], CloseCol(m), CloseOf(m))
          /\ From(m) = To(m) => Opened(From(m)[1], From(m)[2], CallOf(m, loc))
      BY <2>4 DEF WrappedBy
    <3>2. PICK a, b, c, d, v, w :
             /\ a = From(m)[1] /\ b = From(m)[2] /\ v = CallOf(m, loc)
             /\ c = To(m)[1] /\ d = CloseCol(m) /\ w = CloseOf(m)
      OBVIOUS
    <3>3. /\ a \in DOMAIN prog.lines /\ b \in 1..Len(prog.lines[a]) + 1
          /\ c \in DOMAIN prog.lines /\ d \in 1..Len(prog.lines[c]) + 1
      <4>1. /\ From(m) \in Spots(prog) /\ To(m) \in Spots(prog)
            /\ Fits(<<a, b, v>>) /\ Fits(<<c, d, w>>)
        BY <3>0, <3>2, <1>2, ControlSpots
      <4>2. From(m)[1] \in DOMAIN prog.lines /\ To(m)[1] \in DOMAIN prog.lines
        BY <4>1, <1>2, SpotsAre
      <4>3. QED
        BY <4>1, <4>2, <3>2 DEF Fits
    <3>4. IsCall(v)
      <4>1. loc = <<loc[1], loc[2]>>
        BY <2>4, <1>2, PlacesAre
      <4>2. QED
        BY <4>1, <3>2, CallingIs
    <3>5. From(m) = To(m) => a = c /\ b = d /\ w = Close1
      BY <3>0, <3>2, <1>2, ControlSpots DEF CloseOf
    <3>6. /\ Noted(a, b, v)' /\ Noted(c, d, w)'
          /\ From(m) = To(m) => Opened(a, b, v)'
      <4>1. Noted(a, b, v) /\ Noted(c, d, w)
        BY <3>1, <3>2
      <4>2. Noted(a, b, v)' /\ Noted(c, d, w)'
        BY <4>1, <3>3, <2>1
      <4>3. ASSUME From(m) = To(m) PROVE Opened(a, b, v)'
        <5>1. Opened(a, b, v) /\ Noted(a, b, Close1)
          BY <4>1, <4>3, <3>1, <3>2, <3>5
        <5>2. QED
          BY <5>1, <3>3, <3>4, <2>2
      <4>4. QED
        BY <4>2, <4>3
    <3>7. QED
      BY <3>2, <3>6, <2>3 DEF WrappedBy
  <2>5. ASSUME NEW loc \in covered
        PROVE  \E m \in Nodes : /\ loc \in PlacesIn(prog, m) /\ BranchedAt(witness, loc)
                                /\ WrappedBy(m, loc)'
    BY <2>4, <1>1 DEF CoveredOK
  <2>6. QED
    BY <2>5, <2>3, <1>2 DEF CoveredOK
<1>11. ListedOnce'
  <2>1. ASSUME NEW k \in DOMAIN inserts', IsCall(inserts'[k][3])
        PROVE  /\ Calling(inserts'[k][3]) \in covered
               /\ \A m \in DOMAIN inserts' : inserts'[m][3] = inserts'[k][3] => m = k
    <3>1. f[k] \in DOMAIN inserts /\ inserts'[k] = inserts[f[k]]
      BY <1>6
    <3>2. ASSUME NEW m \in DOMAIN inserts', inserts'[m][3] = inserts'[k][3]
          PROVE  m = k
      <4>1. f[m] \in DOMAIN inserts /\ inserts'[m] = inserts[f[m]]
        BY <1>6
      <4>2. f[m] = f[k]
        BY <2>1, <3>1, <3>2, <4>1, <1>1 DEF ListedOnce
      <4>3. QED
        BY <4>2, <1>6
    <3>3. QED
      BY <2>1, <3>1, <3>2, <1>1 DEF ListedOnce
  <2>2. QED
    BY <2>1, <1>2 DEF ListedOnce, Calling, IsCall
<1>12. InTextOnce'
  <2>1. \A k \in DOMAIN inserts' : f[k] \in DOMAIN inserts /\ f[k] # i /\ inserts'[k] = inserts[f[k]]
    BY <1>6
  <2>2. KeepsBlocks(cLines[l], value, out)
    BY <1>4, InsertKeepsBlocks
  <2> HIDE DEF out
  <2>3. DOMAIN cLines[l] = 1..Len(cLines[l])
    BY <1>4 DEF Placed
  <2>4. ASSUME NEW m \in DOMAIN prog.lines, NEW k \in DOMAIN cLines'[m],
               IsCall(cLines'[m][k].new)
        PROVE  /\ Calling(cLines'[m][k].new) \in covered
               /\ \A j \in DOMAIN inserts' : inserts'[j][3] # cLines'[m][k].new
               /\ OneBlock(cLines'[m], cLines'[m][k].new)
    <3>1. PICK v : v = cLines'[m][k].new
      OBVIOUS
    <3>2. CASE m # l
      <4>1. cLines'[m] = cLines[m]
        BY <3>2, <1>4
      <4>2. /\ Calling(v) \in covered /\ OneBlock(cLines[m], v)
            /\ \A j \in DOMAIN inserts : inserts[j][3] # v
        BY <4>1, <3>1, <2>4, <1>1 DEF InTextOnce
      <4>3. QED
        BY <4>1, <4>2, <3>1, <2>1
    <3>3. CASE m = l /\ v = value
      <4>1. Calling(v) \in covered
        BY <3>1, <3>3, <2>4, <1>1, <1>5 DEF ListedOnce
      <4>2. \A j \in DOMAIN inserts' : inserts'[j][3] # v
        <5>1. ASSUME NEW j \in DOMAIN inserts', inserts'[j][3] = v PROVE FALSE
          <6>1. inserts[f[j]][3] = inserts[i][3] /\ IsCall(inserts[i][3])
            BY <5>1, <3>1, <3>3, <2>1, <2>4, <1>5
          <6>2. f[j] = i
            BY <6>1, <2>1, <1>1 DEF ListedOnce
          <6>3. QED
            BY <6>2, <2>1
        <5>2. QED
          BY <5>1
      <4>3. \A j \in 1..Len(cLines[l]) : cLines[l][j].new # value
        <5>1. ASSUME NEW j \in DOMAIN cLines[l], cLines[l][j].new = value PROVE FALSE
          <6>1. IsCall(cLines[l][j].new)
            BY <5>1, <3>1, <3>3, <2>4
          <6>2. inserts[i][3] # cLines[l][j].new
            BY <6>1, <1>1, <1>4 DEF InTextOnce
          <6>3. QED
            BY <6>2, <5>1, <1>5
        <5>2. QED
          BY <5>1, <2>3
      <4>4. OneBlock(cLines'[m], v)
        BY <4>3, <3>3, <2>2, <1>4 DEF KeepsBlocks
      <4>5. QED
        BY <4>1, <4>2, <4>4, <3>1
    <3>4. CASE m = l /\ v # value
      <4>1. k \in DOMAIN out /\ out[k].new = v
        BY <3>1, <3>4, <2>4, <1>4
      <4>2. PICK j \in DOMAIN cLines[l] : cLines[l][j].new = v
        BY <4>1, <3>4, <2>2 DEF KeepsBlocks
      <4>3. /\ Calling(v) \in covered /\ OneBlock(cLines[l], v)
            /\ \A j2 \in DOMAIN inserts : inserts[j2][3] # v
        BY <4>2, <3>1, <2>4, <1>1, <1>4 DEF InTextOnce
      <4>4. OneBlock(cLines'[m], v)
        BY <4>3, <3>1, <3>4, <2>2, <2>4, <1>4 DEF KeepsBlocks
      <4>5. QED
        BY <4>3, <4>4, <3>1, <2>1
    <3>5. QED
      BY <3>2, <3>3, <3>4
  <2>5. QED
    BY <2>4, <1>2 DEF InTextOnce, Calling, IsCall
<1>13. QED
  BY <1>7, <1>8, <1>9, <1>10, <1>11, <1>12 DEF WrapInv

LEMMA InitWrapInv == Init => WrapInv
<1> SUFFICES ASSUME Init PROVE WrapInv
  OBVIOUS
<1>1. WitnessInv
  BY InitWitnessInv
<1>2. DOMAIN branchings = {} /\ DOMAIN inserts = {} /\ covered = {}
  BY DEF Init, None
<1>3. EntriesOK
  BY <1>2 DEF EntriesOK
<1>4. ColsOK /\ CoveredOK /\ ListedOnce
  BY <1>2 DEF ColsOK, CoveredOK, ListedOnce
<1>5. PassedOK
  <2>1. ASSUME NEW p \in Positions PROVE ~Past(p)
    <3>1. PICK s \in DOMAIN witness : \E i \in DOMAIN witness[s] : p = <<s, i>>
      BY PositionsAre
    <3>2. PICK i \in DOMAIN witness[s] : p = <<s, i>>
      BY <3>1
    <3>3. s \in Nat \ {0} /\ i \in Nat \ {0} /\ p[1] = s /\ p[2] = i
      BY <3>2, <1>1, StageIs DEF WitnessInv
    <3>4. seg = 1 /\ way = 1
      BY DEF Init
    <3>5. QED
      BY <3>3, <3>4 DEF Past
  <2>2. QED
    BY <2>1 DEF PassedOK
<1>6. InTextOnce
  <2>1. ASSUME NEW l \in DOMAIN prog.lines, NEW k \in DOMAIN cLines[l]
        PROVE  ~IsCall(cLines[l][k].new)
    <3>1. cLines[l] = [c \in DOMAIN prog.lines[l] |-> Source(l, c)]
      BY DEF Init
    <3>2. cLines[l][k].new = None
      BY <3>1 DEF Source
    <3>3. QED
      BY <3>2 DEF IsCall
  <2>2. QED
    BY <2>1 DEF InTextOnce
<1>7. QED
  BY <1>3, <1>4, <1>5, <1>6 DEF WrapInv

(***************************************************************************)
(* If every control expression that a branching waypoint names can be told *)
(* from the tree and is followed by a blank or a parenthesis, then it is   *)
(* noted down once, in the list of insertions or in the text, what the     *)
(* dictionaries hold is its extent, and a waypoint that was looked at names*)
(* a place that is covered.                                                *)
(***************************************************************************)
THEOREM BranchInvariant == Spec => [](WitnessInv /\ GuardInv /\ BranchInv)
<1>1. Init => BranchInv
  BY InitWrapInv DEF BranchInv
<1>2. ASSUME WitnessInv, GuardInv, BranchInv, [Next]_vars
      PROVE  BranchInv'
  <2>1. input' = input
    BY <1>2 DEF Next, vars, Collect, Visit, EndTraversal, InvalidLocation, CallWaypoint,
                TargetWaypoint, AssumptionWaypoint, BranchingWaypoint, EndSegment,
                EndWaypoints, InsertCall, ShiftWitness
  <2>2. prog' = prog /\ witness' = witness
    BY <2>1 DEF input
  <2>3. ASSUME ControlsFit(prog, witness)
        PROVE  WrapInv'
    <3>0. WrapInv
      BY <1>2, <2>3 DEF BranchInv
    <3>1. CASE Collect
      BY <3>0, <3>1, <1>2, CollectWraps
    <3>2. CASE Visit
      BY <3>0, <3>2, <1>2, <2>3, VisitWraps
    <3>3. CASE EndTraversal
      BY <3>0, <3>3, <1>2, EndTraversalWraps
    <3>4. CASE InvalidLocation
      BY <3>0, <3>4, <1>2, InvalidLocationWraps
    <3>5. CASE CallWaypoint
      BY <3>0, <3>5, <1>2, CallWaypointWraps
    <3>6. CASE TargetWaypoint
      BY <3>0, <3>6, <1>2, TargetWaypointWraps
    <3>7. CASE AssumptionWaypoint
      BY <3>0, <3>7, <1>2, AssumptionWaypointWraps
    <3>8. CASE BranchingWaypoint
      BY <3>0, <3>8, <1>2, <2>3, BranchingWaypointWraps
    <3>9. CASE EndSegment
      BY <3>0, <3>9, <1>2, EndSegmentWraps
    <3>10. CASE EndWaypoints
      BY <3>0, <3>10, <1>2, EndWaypointsWraps
    <3>11. CASE InsertCall
      BY <3>0, <3>11, <1>2, <2>3, InsertCallWraps
    <3>12. CASE ShiftWitness
      BY <3>0, <3>12, <1>2, ShiftWitnessWraps
    <3>13. CASE UNCHANGED vars
      BY <3>0, <3>13, <1>2, StutteringWraps
    <3>14. QED
      BY <3>1, <3>2, <3>3, <3>4, <3>5, <3>6, <3>7, <3>8, <3>9, <3>10, <3>11, <3>12, <3>13,
         <1>2 DEF Next
  <2>4. QED
    BY <2>2, <2>3 DEF BranchInv
<1>3. QED
  BY <1>1, <1>2, GuardInvariant, PTL DEF Spec

\* A text in a gap, and the characters around it.
LEMMA InGapIs ==
    ASSUME WitnessInv, NEW l \in DOMAIN prog.lines, NEW gap, NEW k \in 1..Len(cLines[l]),
           \A c \in 1..Len(prog.lines[l]) : IF c < gap THEN c + ShiftSum(shift[l], c) < k
                                                       ELSE k < c + ShiftSum(shift[l], c)
    PROVE  /\ k \in DOMAIN cLines[l]
           /\ \A c \in DOMAIN prog.lines[l] : IF c < gap THEN IndexOf(l, c) < k
                                                         ELSE ~(IndexOf(l, c) < k)
<1>1. IsProgram(prog) /\ DOMAIN cLines[l] = 1..Len(cLines[l])
  BY DEF WitnessInv, InputOK, TextOK, Placed
<1>2. DOMAIN prog.lines[l] = 1..Len(prog.lines[l])
  BY <1>1, LinesAre
<1>3. ASSUME NEW c \in DOMAIN prog.lines[l]
      PROVE  IF c < gap THEN IndexOf(l, c) < k ELSE ~(IndexOf(l, c) < k)
  <2>1. /\ c \in Nat /\ ShiftSum(shift[l], c) \in Nat
        /\ IndexOf(l, c) = c + ShiftSum(shift[l], c)
    BY WhereIs
  <2>2. PICK at \in Nat : at = c + ShiftSum(shift[l], c)
    BY <2>1
  <2>3. IF c < gap THEN at < k ELSE k < at
    BY <2>2, <1>2
  <2>4. k \in Nat /\ IndexOf(l, c) = at
    BY <2>1, <2>2
  <2> HIDE <2>2
  <2>5. QED
    BY <2>3, <2>4
<1>4. QED
  BY <1>1, <1>3

\* When nothing is left to put in, the call and what closes it are in the text.
LEMMA WrapsInText ==
    ASSUME WitnessInv, GuardInv, WrapInv, phase = "done",
           NEW n \in Nodes, NEW q \in PlacesIn(prog, n), ControlFits(prog, n), WrappedBy(n, q),
           NEW w, w.line = q[1], w.col = q[2]
    PROVE  prog.nodes[n].ctrl # None /\ Wrapped(n, w)
<1> DEFINE from  == prog.nodes[n].ctrl[1]
           to    == prog.nodes[n].ctrl[2]
           value == IF Kind(n) = "switch" THEN SwitchCall(w.line, w.col)
                                          ELSE BranchCall(w.line, w.col)
           close == IF from = to THEN Close1 ELSE Close
<1>1. inserts = <<>> /\ IsProgram(prog) /\ LinesOK
  BY DEF GuardInv, Numbered, WitnessInv, InputOK
<1>2. from = From(n) /\ to = To(n) /\ value = CallOf(n, q) /\ close = CloseOf(n)
  BY DEF From, To, CallOf, CloseOf
<1> HIDE DEF from, to, value, close
<1>3. /\ from \in Spots(prog) /\ to \in Spots(prog)
      /\ from[2] \in DOMAIN prog.lines[from[1]] /\ to[2] \in DOMAIN prog.lines[to[1]]
      /\ from = to => Kind(n) = "for" /\ CloseCol(n) = from[2]
      /\ Kind(n) # "for" => prog.lines[to[1]][to[2]] \in {" ", ")"}
  BY <1>1, <1>2, ControlSpots
<1>4. from[1] \in DOMAIN prog.lines /\ to[1] \in DOMAIN prog.lines
  BY <1>1, <1>3, SpotsAre
<1>5. /\ InGap(cLines[from[1]], shift[from[1]], Len(prog.lines[from[1]]), from[2], value)
      /\ InGap(cLines[to[1]], shift[to[1]], Len(prog.lines[to[1]]), CloseCol(n), close)
      /\ from = to => InGapAfter(cLines[from[1]], shift[from[1]], Len(prog.lines[from[1]]),
                                 from[2], Close1, {value})
  <2>1. \A x : ~Listed(x, inserts)
    BY <1>1 DEF Listed
  <2>2. QED
    BY <2>1, <1>2 DEF WrappedBy, Noted, Opened
<1>6. value \in NewBefore(from[1], IndexOf(from[1], from[2]))
  BY <1>1, <1>3, <1>4, <1>5, GapBefore
<1>7. IsCall(value)
  <2>1. q = <<q[1], q[2]>>
    BY <1>1, PlacesAre
  <2>2. QED
    BY <2>1, <1>2, CallingIs
<1>8. \A l \in DOMAIN prog.lines : DOMAIN cLines[l] = 1..Len(cLines[l])
  BY DEF WitnessInv, TextOK, Placed
<1>9. Cardinality({i \in DOMAIN cLines[from[1]] : cLines[from[1]][i].new = value}) = Width(value)
  <2> DEFINE line == cLines[from[1]]
             all  == {i \in DOMAIN line : line[i].new = value}
  <2>1. PICK k \in 1..Len(line) : line[k].new = value
    BY <1>5 DEF InGap
  <2>2. OneBlock(line, value)
    <3>1. k \in DOMAIN line
      BY <2>1, <1>4, <1>8
    <3>2. QED
      BY <3>1, <2>1, <1>4, <1>7 DEF WrapInv, InTextOnce
  <2>3. PICK b \in Nat : /\ b + Width(value) <= Len(line)
                         /\ \A m \in 1..Len(line) :
                              line[m].new = value <=> m \in b + 1..b + Width(value)
    BY <2>2 DEF OneBlock
  <2>4. Width(value) = 3
    BY <1>7 DEF IsCall, Width
  <2>5. PICK len \in Nat : len = Len(line) /\ DOMAIN line = 1..len
    <3>1. line \in Seq(Chars)
      BY <1>4 DEF WitnessInv, TextOK, Placed
    <3>2. QED
      BY <3>1
  <2> HIDE DEF line
  <2>6. all = b + 1..b + 3
    <3>1. b + 3 <= len
      BY <2>3, <2>4, <2>5
    <3>2. \A m \in 1..len : line[m].new = value <=> m \in b + 1..b + 3
      BY <2>3, <2>4, <2>5
    <3>3. \A m \in b + 1..b + 3 : m \in 1..len
      BY <3>1
    <3>4. QED
      BY <3>2, <3>3, <2>5
  <2>7. Cardinality(b + 1..b + 3) = 3
    BY FS_Interval
  <2>8. QED
    BY <2>4, <2>6, <2>7 DEF line
<1>10. \E i \in DOMAIN cLines[to[1]] :
          /\ cLines[to[1]][i].new = close
          /\ \A c \in DOMAIN prog.lines[to[1]] :
                IF c < to[2] THEN IndexOf(to[1], c) < i
                ELSE IndexOf(to[1], c) < i => prog.lines[to[1]][c] \in {" ", ")"}
          /\ from = to => \A j \in DOMAIN cLines[to[1]] :
                            cLines[to[1]][j].new = value => j < i
  <2>1. CASE from = to
    <3>1. PICK k \in 1..Len(cLines[to[1]]) :
             /\ cLines[to[1]][k].new = Close1
             /\ \A c \in 1..Len(prog.lines[to[1]]) :
                   IF c < to[2] THEN c + ShiftSum(shift[to[1]], c) < k
                                ELSE k < c + ShiftSum(shift[to[1]], c)
             /\ \A j \in 1..Len(cLines[to[1]]) : cLines[to[1]][j].new \in {value} => j < k
      BY <2>1, <1>5 DEF InGapAfter
    <3>2. /\ k \in DOMAIN cLines[to[1]]
          /\ \A c \in DOMAIN prog.lines[to[1]] : IF c < to[2] THEN IndexOf(to[1], c) < k
                                                 ELSE ~(IndexOf(to[1], c) < k)
      BY <3>1, <1>4, InGapIs
    <3>3. close = Close1
      BY <2>1 DEF close
    <3>4. \A j \in DOMAIN cLines[to[1]] : cLines[to[1]][j].new = value => j < k
      BY <3>1, <1>4, <1>8
    <3>5. QED
      BY <3>1, <3>2, <3>3, <3>4
  <2>2. CASE from # to
    <3>1. PICK k \in 1..Len(cLines[to[1]]) :
             /\ cLines[to[1]][k].new = close
             /\ \A c \in 1..Len(prog.lines[to[1]]) :
                   IF c < CloseCol(n) THEN c + ShiftSum(shift[to[1]], c) < k
                                      ELSE k < c + ShiftSum(shift[to[1]], c)
      BY <1>5 DEF InGap
    <3>2. /\ k \in DOMAIN cLines[to[1]]
          /\ \A c \in DOMAIN prog.lines[to[1]] : IF c < CloseCol(n) THEN IndexOf(to[1], c) < k
                                                 ELSE ~(IndexOf(to[1], c) < k)
      BY <3>1, <1>4, InGapIs
    <3>3. ASSUME NEW c \in DOMAIN prog.lines[to[1]]
          PROVE  IF c < to[2] THEN IndexOf(to[1], c) < k
                 ELSE IndexOf(to[1], c) < k => prog.lines[to[1]][c] \in {" ", ")"}
      <4>1. c \in Nat /\ to[2] \in Nat
        BY <1>1, <1>3, <1>4, WhereIs
      <4>2. CASE Kind(n) = "for"
        <5>1. CloseCol(n) = to[2]
          BY <4>2, <1>2 DEF CloseCol
        <5>2. QED
          BY <5>1, <3>2
      <4>3. CASE Kind(n) # "for"
        <5>1. CloseCol(n) = to[2] + 1
          BY <4>3, <1>2 DEF CloseCol
        <5>2. c < to[2] => c < CloseCol(n)
          BY <5>1, <4>1
        <5>3. c < CloseCol(n) => c < to[2] \/ c = to[2]
          BY <5>1, <4>1
        <5>4. c = to[2] => prog.lines[to[1]][c] \in {" ", ")"}
          BY <4>3, <1>3
        <5>5. QED
          BY <5>2, <5>3, <5>4, <3>2
      <4>4. QED
        BY <4>2, <4>3
    <3>4. QED
      BY <3>1, <3>2, <3>3, <2>2
  <2>3. QED
    BY <2>1, <2>2
<1>11. prog.nodes[n].ctrl # None
  BY DEF ControlFits
<1>12. QED
  BY <1>6, <1>9, <1>10, <1>11 DEF Wrapped, from, to, value, close

(***************************************************************************)
(* When the transformation is done, the control expression of every branch *)
(* the witness names stands behind one call of the validator with the place*)
(* of the branch, and the call is closed before anything but blanks and    *)
(* parentheses follows the expression: if all those expressions fit.       *)
(***************************************************************************)
THEOREM BranchesAlwaysWrapped ==
    Spec => [](ControlsFit(prog, witness) => BranchesWrapControl)
<1>1. ASSUME WitnessInv, GuardInv, BranchInv, ControlsFit(prog, witness)
      PROVE  BranchesWrapControl
  <2>1. ASSUME phase = "done", NEW p \in Positions, Way(p).type = "branching"
        PROVE  \E n \in Nodes :
                  /\ prog.nodes[n].ctrl # None
                  /\ \E loc \in PlacesIn(prog, n) : Names(Way(p), loc)
                  /\ Wrapped(n, content[p[1]][p[2]])
    <3>1. seg = Len(witness) + 1 /\ bad = <<>> /\ WrapInv /\ IsProgram(prog)
      BY <1>1, <2>1 DEF WitnessInv, StageOK, BranchInv, InputOK
    <3>2. Past(p)
      <4>1. PICK s \in DOMAIN witness : \E i \in DOMAIN witness[s] : p = <<s, i>>
        BY PositionsAre
      <4>2. p[1] = s /\ s \in 1..Len(witness) /\ Len(witness) \in Nat
        BY <4>1, <1>1, StageIs DEF WitnessInv
      <4>3. QED
        BY <4>2, <3>1 DEF Past
    <3>3. PICK loc : loc = Loc(Now(p))
      OBVIOUS
    <3>4. loc \in covered /\ Names(Way(p), loc)
      BY <2>1, <3>1, <3>2, <3>3 DEF WrapInv, PassedOK
    <3>5. PICK n \in Nodes : /\ loc \in PlacesIn(prog, n) /\ BranchedAt(witness, loc)
                             /\ WrappedBy(n, loc)
      BY <3>1, <3>4 DEF WrapInv, CoveredOK
    <3>6. ControlFits(prog, n)
      BY <1>1, <3>1, <3>5, NodesAre DEF ControlsFit
    <3>7. Now(p).line = loc[1] /\ Now(p).col = loc[2]
      BY <3>3 DEF Loc
    <3>8. PICK w : w = Now(p)
      OBVIOUS
    <3>9. prog.nodes[n].ctrl # None /\ Wrapped(n, w)
      BY <1>1, <2>1, <3>1, <3>5, <3>6, <3>7, <3>8, WrapsInText
    <3>10. w = content[p[1]][p[2]]
      BY <3>8 DEF Now
    <3>11. QED
      BY <3>4, <3>5, <3>9, <3>10
  <2>2. QED
    BY <2>1 DEF BranchesWrapControl
<1>2. QED
  BY <1>1, BranchInvariant, PTL

=============================================================================
