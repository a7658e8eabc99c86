----------------------------- MODULE FoldLemmas -----------------------------
(***************************************************************************)
(* Induction over sets of numbers, the existence of recursive functions,   *)
(* and what FoldLeft and FlattenSeq of SequencesExt compute.               *)
(*                                                                         *)
(* The induction theorems of the standard library quantify over operators. *)
(* Here the property that is proved by induction is a set of numbers, and  *)
(* the body of a recursion is a function.                                  *)
(***************************************************************************)
EXTENDS Integers, SequencesExt, TLAPS, WellFoundedInduction

-----------------------------------------------------------------------------
(* Induction *)

(* A set of natural numbers that is not empty has a smallest element.      *)
LEMMA Smallest ==
    ASSUME NEW T, T \subseteq Nat, T # {}
    PROVE  \E m \in T : \A n \in T : m <= n
  <1>1. PICK less : less = OpToRel(<, Nat)
    OBVIOUS
  <1>2. IsWellFoundedOn(less, Nat)
    BY <1>1, NatLessThanWellFounded
  <1>3. PICK m \in T : \A n \in T : ~ (<<n, m>> \in less)
    BY <1>2, WFMin
  <1>4. \A x, y \in Nat : y < x => <<y, x>> \in less
    BY <1>1, Zenon DEF OpToRel
  <1>5. ASSUME NEW n \in T
        PROVE  m <= n
    <2>1. m \in Nat /\ n \in Nat
      OBVIOUS
    <2>2. ~ (n < m)
      BY <1>3, <1>4, <2>1
    <2>3. QED
      BY <2>1, <2>2
  <1>6. QED
    BY <1>5

(* Induction: from 0 upwards, over an interval in either direction.        *)
LEMMA Induction ==
    ASSUME NEW T, 0 \in T, \A n \in Nat : n \in T => n + 1 \in T
    PROVE  Nat \subseteq T
  <1>1. SUFFICES ASSUME Nat \ T # {}
                 PROVE  FALSE
    OBVIOUS
  <1>2. PICK m \in Nat \ T : \A n \in Nat \ T : m <= n
    BY <1>1, Smallest
  <1>3. m # 0 /\ m - 1 \in Nat /\ m - 1 \in T
    BY <1>2
  <1>4. QED
    BY <1>2, <1>3

(* Induction over the numbers from a to b.                                 *)
LEMMA Upwards ==
    ASSUME NEW a \in Int, NEW b \in Int, NEW T,
           a \in T, \A n \in a .. b - 1 : n \in T => n + 1 \in T
    PROVE  a .. b \subseteq T
  <1> DEFINE U == {n \in Nat : a + n <= b => a + n \in T}
  <1>1. 0 \in U
    OBVIOUS
  <1>2. ASSUME NEW n \in Nat, n \in U
        PROVE  n + 1 \in U
    <2>1. SUFFICES ASSUME a + (n + 1) <= b
                   PROVE  a + (n + 1) \in T
      OBVIOUS
    <2>2. a + n \in T /\ a + n \in a .. b - 1
      BY <1>2, <2>1
    <2>3. (a + n) + 1 \in T
      BY <2>2
    <2>4. QED
      BY <2>3
  <1> HIDE DEF U
  <1>3. Nat \subseteq U
    BY <1>1, <1>2, Induction
  <1>4. ASSUME NEW i \in a .. b
        PROVE  i \in T
    <2>1. i - a \in U
      BY <1>3
    <2>2. a + (i - a) = i
      OBVIOUS
    <2>3. QED
      BY <2>1, <2>2 DEF U
  <1>5. QED
    BY <1>4

(* Induction over the numbers from b down to a.                            *)
LEMMA Downwards ==
    ASSUME NEW a \in Int, NEW b \in Int, NEW T,
           b \in T, \A n \in a .. b - 1 : n + 1 \in T => n \in T
    PROVE  a .. b \subseteq T
  <1> DEFINE U == {n \in Nat : a <= b - n => b - n \in T}
  <1>1. 0 \in U
    OBVIOUS
  <1>2. ASSUME NEW n \in Nat, n \in U
        PROVE  n + 1 \in U
    <2>1. SUFFICES ASSUME a <= b - (n + 1)
                   PROVE  b - (n + 1) \in T
      OBVIOUS
    <2>2. b - n \in T /\ b - (n + 1) \in a .. b - 1 /\ (b - (n + 1)) + 1 = b - n
      BY <1>2, <2>1
    <2>3. QED
      BY <2>2
  <1> HIDE DEF U
  <1>3. Nat \subseteq U
    BY <1>1, <1>2, Induction
  <1>4. ASSUME NEW i \in a .. b
        PROVE  i \in T
    <2>1. b - i \in U
      BY <1>3
    <2>2. b - (b - i) = i
      OBVIOUS
    <2>3. QED
      BY <2>1, <2>2 DEF U
  <1>5. QED
    BY <1>4

-----------------------------------------------------------------------------
(* Recursive functions *)

(* The step at an element looks at values of lower rank only.              *)
LooksLower(D, V, rank, step) ==
    \A x \in D : \A g, h \in [D -> V] :
        (\A y \in D : rank[y] < rank[x] => g[y] = h[y]) => step[x][g] = step[x][h]

HasSolution(D, V, step) == \E g \in [D -> V] : \A x \in D : g[x] = step[x][g]

RankedBelow(D, rank, N) == rank \in [D -> Nat] /\ \A x \in D : rank[x] < N

(* A function is well defined by what a step makes of its values at        *)
(* elements of lower rank.                                                 *)
LEMMA Recursion ==
    ASSUME NEW D, NEW V, V # {}, NEW N \in Nat,
           NEW rank, RankedBelow(D, rank, N),
           NEW step, step \in [D -> [[D -> V] -> V]], LooksLower(D, V, rank, step)
    PROVE  HasSolution(D, V, step)
  <1> USE DEF LooksLower, HasSolution, RankedBelow
  <1> PICK v \in V : TRUE
    OBVIOUS
  <1> DEFINE Upto(n, g) == \A x \in D : rank[x] < n => g[x] = step[x][g]
             T == {n \in Nat : \E g \in [D -> V] : Upto(n, g)}
  <1>1. 0 \in T
    <2>1. [x \in D |-> v] \in [D -> V] /\ Upto(0, [x \in D |-> v])
      OBVIOUS
    <2>2. QED
      BY <2>1
  <1>2. ASSUME NEW n \in Nat, n \in T
        PROVE  n + 1 \in T
    <2>1. PICK g \in [D -> V] : Upto(n, g)
      BY <1>2
    <2> DEFINE h == [x \in D |-> IF rank[x] < n THEN g[x] ELSE step[x][g]]
    <2>2. h \in [D -> V]
      OBVIOUS
    <2>3. \A y \in D : rank[y] < n => h[y] = g[y]
      OBVIOUS
    <2>4. \A x \in D : ~(rank[x] < n) => h[x] = step[x][g]
      OBVIOUS
    <2> HIDE DEF h
    <2>5. ASSUME NEW x \in D, rank[x] < n + 1
          PROVE  h[x] = step[x][h]
      <3>1. \A y \in D : rank[y] < rank[x] => g[y] = h[y]
        BY <2>3, <2>5
      <3>2. step[x][g] = step[x][h]
        BY <2>2, <3>1
      <3>3. h[x] = step[x][g]
        BY <2>1, <2>3, <2>4
      <3>4. QED
        BY <3>2, <3>3
    <2>6. QED
      BY <2>2, <2>5
  <1>3. N \in T
    <2> HIDE DEF T
    <2>1. QED
      BY <1>1, <1>2, Induction
  <1>4. QED
    BY <1>3

-----------------------------------------------------------------------------
(* FoldLeft *)

(* The largest element of a set of positions.                              *)
LEMMA MaxIs ==
    ASSUME NEW n \in Int, NEW s, s \subseteq 0 .. n, s # {}
    PROVE  /\ Max(s) \in s
           /\ \A i \in s : i <= Max(s)
  <1> DEFINE T == {i \in Nat : n - i \in s}
  <1>1. \A i \in s : i \in 0 .. n /\ n - i \in Nat /\ n - (n - i) = i
    OBVIOUS
  <1>2. T # {}
    BY <1>1
  <1>3. PICK m \in T : \A i \in T : m <= i
    BY <1>2, Smallest
  <1>4. ASSUME NEW i \in s
        PROVE  i <= n - m
    <2>1. n - i \in T
      BY <1>1
    <2>2. m <= n - i
      BY <1>3, <2>1
    <2>3. QED
      BY <1>1, <2>2
  <1>5. n - m \in s
    BY <1>3
  <1>6. \E x \in s : \A y \in s : x >= y
    BY <1>1, <1>4, <1>5
  <1>7. \A i \in s : i <= Max(s)
    <2>1. Max(s) \in s /\ \A y \in s : Max(s) >= y
      BY <1>6 DEF Max
    <2>2. QED
      BY <1>1, <2>1
  <1>8. Max(s) \in s
    BY <1>6 DEF Max
  <1>9. QED
    BY <1>7, <1>8

(* A fold over 1 .. n takes off the greatest number first.                 *)
LEMMA MaxOfInterval ==
    ASSUME NEW n \in Nat, n > 0
    PROVE  /\ 1 .. n # {}
           /\ Max(1 .. n) = n
           /\ (1 .. n) \ {n} = 1 .. n - 1
  <1>1. n \in Int /\ 1 .. n \subseteq 0 .. n /\ n \in 1 .. n
    OBVIOUS
  <1> DEFINE s == 1 .. n
  <1>2. Max(s) \in s /\ n <= Max(s)
    <2> s \subseteq 0 .. n /\ n \in s /\ s # {}
      BY <1>1
    <2> HIDE DEF s
    <2>1. QED
      BY <1>1, MaxIs
  <1>3. Max(1 .. n) = n
    BY <1>2
  <1>4. QED
    BY <1>1, <1>3

(* A fold over the positions 1 to n is well defined: add[i] is what it     *)
(* does at position i.                                                     *)
HasFold(n, V, base, add) ==
    \E iter \in [SUBSET (1 .. n) -> V] :
        \A s \in SUBSET (1 .. n) :
            iter[s] = IF s = {} THEN base ELSE add[Max(s)][iter[s \ {Max(s)}]]

(* The recursive function that a fold chooses exists.                      *)
LEMMA FoldExists ==
    ASSUME NEW n \in Nat, NEW V, NEW base \in V, NEW add \in [1 .. n -> [V -> V]]
    PROVE  HasFold(n, V, base, add)
  <1> DEFINE D == SUBSET (1 .. n)
             rank == [s \in D |-> IF s = {} THEN 0 ELSE Max(s)]
             step == [s \in D |-> [g \in [D -> V] |->
                        IF s = {} THEN base ELSE add[Max(s)][g[s \ {Max(s)}]]]]
  <1>1. ASSUME NEW s \in D, s # {}
        PROVE  /\ Max(s) \in s
               /\ Max(s) \in 1 .. n
               /\ \A i \in s : i <= Max(s)
    <2>1. n \in Int /\ s \subseteq 0 .. n
      OBVIOUS
    <2> HIDE DEF D
    <2>2. Max(s) \in s /\ \A i \in s : i <= Max(s)
      BY <1>1, <2>1, MaxIs
    <2>3. QED
      BY <2>2 DEF D
  <1>2. rank \in [D -> Nat] /\ \A s \in D : rank[s] < n + 1
    BY <1>1
  <1>3. step \in [D -> [[D -> V] -> V]]
    <2>1. ASSUME NEW s \in D, NEW g \in [D -> V], s # {}
          PROVE  add[Max(s)][g[s \ {Max(s)}]] \in V
      <3>1. s \ {Max(s)} \in D
        OBVIOUS
      <3>2. g[s \ {Max(s)}] \in V
        BY <3>1
      <3>3. Max(s) \in 1 .. n
        BY <1>1, <2>1
      <3>4. add[Max(s)] \in [V -> V]
        BY <3>3
      <3>5. QED
        BY <3>2, <3>4
    <2>2. QED
      BY <2>1
  <1>4. ASSUME NEW s \in D, s # {}
        PROVE  rank[s \ {Max(s)}] < rank[s]
    <2>1. s \ {Max(s)} \in D
      OBVIOUS
    <2>2. CASE s \ {Max(s)} = {}
      BY <1>1, <1>4, <2>1, <2>2
    <2>3. CASE s \ {Max(s)} # {}
      <3>1. Max(s \ {Max(s)}) \in s \ {Max(s)}
        BY <1>1, <2>1, <2>3
      <3>2. rank[s] = Max(s) /\ rank[s \ {Max(s)}] = Max(s \ {Max(s)})
        BY <1>4, <2>1, <2>3
      <3>3. Max(s \ {Max(s)}) <= Max(s) /\ Max(s \ {Max(s)}) # Max(s)
        BY <1>1, <1>4, <3>1
      <3>4. Max(s) \in Int
        BY <1>1, <1>4
      <3> DEFINE r == s \ {Max(s)}
      <3>6. Max(r) \in 1 .. n
        <4> r \in D /\ r # {}
          BY <2>1, <2>3
        <4> HIDE DEF r, D
        <4>1. QED
          BY <1>1
      <3>5. QED
        BY <3>2, <3>3, <3>4, <3>6
    <2>4. QED
      BY <2>2, <2>3
  <1>5. ASSUME NEW s \in D, NEW g \in [D -> V], NEW h \in [D -> V],
               \A y \in D : rank[y] < rank[s] => g[y] = h[y]
        PROVE  step[s][g] = step[s][h]
    <2>1. CASE s = {}
      BY <2>1
    <2>2. CASE s # {}
      <3>1. g[s \ {Max(s)}] = h[s \ {Max(s)}]
        BY <1>4, <1>5, <2>2
      <3>2. QED
        BY <2>2, <3>1
    <2>3. QED
      BY <2>1, <2>2
  <1>6. \E iter \in [D -> V] : \A s \in D : iter[s] = step[s][iter]
    <2> HIDE DEF D, rank, step
    <2>1. n + 1 \in Nat /\ V # {}
      OBVIOUS
    <2>2. RankedBelow(D, rank, n + 1)
      BY <1>2 DEF RankedBelow
    <2>3. LooksLower(D, V, rank, step)
      BY <1>5 DEF LooksLower
    <2>4. HasSolution(D, V, step)
      BY <1>3, <2>1, <2>2, <2>3, Recursion
    <2>5. QED
      BY <2>4 DEF HasSolution
  <1>7. QED
    BY <1>6 DEF HasFold

(* What a fold over 1 .. n returns, for the function f that FoldLeft       *)
(* chooses: the last of its accumulators.                                  *)
FoldsWith(n, V, base, add, f) ==
    /\ f[{}] = base
    /\ \A s \in SUBSET (1 .. n) : s # {} /\ f[s \ {Max(s)}] \in V =>
          f[s] = add[Max(s)][f[s \ {Max(s)}]]

Accumulates(n, V, base, add, f) ==
    \E acc \in [0 .. n -> V] :
        /\ acc[0] = base
        /\ \A i \in 1 .. n : acc[i] = add[i][acc[i - 1]]
        /\ acc[n] = f[1 .. n]

(* It has the values of the accumulators, one after another.               *)
LEMMA FoldComputes ==
    ASSUME NEW n \in Nat, NEW V, NEW base \in V, NEW add \in [1 .. n -> [V -> V]], NEW f,
           FoldsWith(n, V, base, add, f)
    PROVE  Accumulates(n, V, base, add, f)
  <1> USE DEF FoldsWith, Accumulates
  <1> DEFINE T == {i \in 0 .. n : f[1 .. i] \in V}
  <1>1. ASSUME NEW i \in 1 .. n, f[1 .. i - 1] \in V
        PROVE  f[1 .. i] = add[i][f[1 .. i - 1]] /\ f[1 .. i] \in V
    <2>1. i \in Nat /\ i > 0 /\ 1 .. i \in SUBSET (1 .. n)
      OBVIOUS
    <2>2. Max(1 .. i) = i /\ (1 .. i) \ {i} = 1 .. i - 1 /\ 1 .. i # {}
      BY <2>1, MaxOfInterval
    <2>3. f[1 .. i] = add[i][f[1 .. i - 1]]
      BY <1>1, <2>1, <2>2
    <2>4. add[i] \in [V -> V]
      OBVIOUS
    <2>5. QED
      BY <1>1, <2>3, <2>4
  <1>2. 1 .. 0 = {}
    OBVIOUS
  <1>3. 0 .. n \subseteq T
    <2>1. 0 \in T
      BY <1>2
    <2>2. ASSUME NEW i \in 0 .. n - 1, i \in T
          PROVE  i + 1 \in T
      <3>1. i + 1 \in 1 .. n /\ (i + 1) - 1 = i /\ i + 1 \in 0 .. n
        OBVIOUS
      <3>2. f[1 .. (i + 1)] \in V
        BY <1>1, <2>2, <3>1
      <3>3. QED
        BY <3>1, <3>2
    <2>3. 0 \in Int /\ n \in Int
      OBVIOUS
    <2> HIDE DEF T
    <2>4. QED
      BY <2>1, <2>2, <2>3, Upwards
  <1> DEFINE acc == [i \in 0 .. n |-> f[1 .. i]]
  <1>4. acc \in [0 .. n -> V]
    BY <1>3
  <1>5. acc[0] = base /\ acc[n] = f[1 .. n]
    BY <1>2
  <1>6. ASSUME NEW i \in 1 .. n
        PROVE  acc[i] = add[i][acc[i - 1]]
    <2>1. i - 1 \in 0 .. n /\ i \in 0 .. n
      OBVIOUS
    <2>2. f[1 .. i - 1] \in V
      BY <1>3, <2>1
    <2>3. QED
      BY <1>1, <2>1, <2>2
  <1>7. QED
    BY <1>4, <1>5, <1>6

-----------------------------------------------------------------------------
(* FlattenSeq *)

(* Where each of the sequences begins in their concatenation.              *)
Positions(cs, pos) ==
    /\ pos \in [1 .. Len(cs) + 1 -> Nat \ {0}]
    /\ pos[1] = 1
    /\ \A k \in 1 .. Len(cs) : pos[k + 1] = pos[k] + Len(cs[k])

(* Every sequence of sequences has these positions.                        *)
LEMMA PositionsExist ==
    ASSUME NEW S, NEW cs \in Seq(Seq(S))
    PROVE  \E pos : Positions(cs, pos)
  <1> DEFINE n == Len(cs)
             D == 1 .. n + 1
             V == Nat \ {0}
             rank == [x \in D |-> x]
             step == [x \in D |-> [g \in [D -> V] |->
                        IF x = 1 THEN 1 ELSE g[x - 1] + Len(cs[x - 1])]]
  <1>1. n \in Nat
    OBVIOUS
  <1>2. \A k \in 1 .. n : Len(cs[k]) \in Nat
    OBVIOUS
  <1> HIDE DEF n
  <1>3. step \in [D -> [[D -> V] -> V]]
    <2>1. ASSUME NEW x \in D, NEW g \in [D -> V], x # 1
          PROVE  g[x - 1] + Len(cs[x - 1]) \in V
      <3>1. x - 1 \in 1 .. n /\ x - 1 \in D
        BY <1>1, <2>1
      <3>2. Len(cs[x - 1]) \in Nat /\ g[x - 1] \in V
        BY <1>2, <3>1
      <3>3. QED
        BY <3>2
    <2>2. QED
      BY <2>1
  <1>4. LooksLower(D, V, rank, step)
    <2>1. ASSUME NEW x \in D, NEW g \in [D -> V], NEW h \in [D -> V],
                 \A y \in D : rank[y] < rank[x] => g[y] = h[y]
          PROVE  step[x][g] = step[x][h]
      <3>1. CASE x = 1
        BY <3>1
      <3>2. CASE x # 1
        <4>1. x - 1 \in D /\ rank[x - 1] < rank[x]
          BY <1>1, <3>2
        <4>2. g[x - 1] = h[x - 1]
          BY <2>1, <4>1
        <4>3. QED
          BY <3>2, <4>2
      <3>3. QED
        BY <3>1, <3>2
    <2> HIDE DEF D, V, rank, step
    <2>2. QED
      BY <2>1 DEF LooksLower
  <1>5. RankedBelow(D, rank, n + 2) /\ n + 2 \in Nat /\ V # {}
    <2>1. 1 \in V
      OBVIOUS
    <2>2. rank \in [D -> Nat] /\ n + 2 \in Nat
      BY <1>1
    <2>3. \A x \in D : rank[x] < n + 2
      BY <1>1
    <2>4. QED
      BY <2>1, <2>2, <2>3 DEF RankedBelow
  <1>6. HasSolution(D, V, step)
    <2> HIDE DEF D, V, rank, step
    <2>1. QED
      BY <1>3, <1>4, <1>5, Recursion
  <1>7. PICK pos \in [D -> V] : \A x \in D : pos[x] = step[x][pos]
    BY <1>6 DEF HasSolution
  <1>8. pos[1] = 1
    <2>1. 1 \in D
      BY <1>1
    <2>2. QED
      BY <1>7, <2>1
  <1>9. ASSUME NEW k \in 1 .. n
        PROVE  pos[k + 1] = pos[k] + Len(cs[k])
    <2>1. k + 1 \in D /\ k + 1 # 1 /\ (k + 1) - 1 = k
      BY <1>1
    <2>2. QED
      BY <1>7, <2>1
  <1>10. QED
    BY <1>7, <1>8, <1>9 DEF Positions, n

(* Later sequences begin at later positions.                               *)
LEMMA PositionsGrow ==
    ASSUME NEW S, NEW cs \in Seq(Seq(S)), NEW pos, Positions(cs, pos),
           NEW i \in 1 .. Len(cs) + 1, NEW k \in i .. Len(cs) + 1
    PROVE  pos[i] <= pos[k]
  <1> DEFINE T == {m \in i .. Len(cs) + 1 : pos[i] <= pos[m]}
  <1>1. Len(cs) \in Nat
    OBVIOUS
  <1>2. \A m \in 1 .. Len(cs) + 1 : pos[m] \in Nat
    BY DEF Positions
  <1>3. i \in T
    BY <1>1, <1>2
  <1>4. ASSUME NEW m \in i .. (Len(cs) + 1) - 1, m \in T
        PROVE  m + 1 \in T
    <2>1. m \in 1 .. Len(cs) /\ m + 1 \in 1 .. Len(cs) + 1 /\ m + 1 \in i .. Len(cs) + 1
      BY <1>1
    <2>2. Len(cs[m]) \in Nat /\ pos[m + 1] = pos[m] + Len(cs[m])
      BY <2>1 DEF Positions
    <2>3. pos[i] \in Nat /\ pos[m] \in Nat /\ pos[m + 1] \in Nat /\ pos[i] <= pos[m]
      BY <1>1, <1>2, <1>4, <2>1
    <2>4. pos[i] <= pos[m + 1]
      <3>1. \A a, b, c, l \in Nat : a <= b /\ c = b + l => a <= c
        OBVIOUS
      <3>2. QED
        BY <2>2, <2>3, <3>1
    <2>5. QED
      BY <2>1, <2>4
  <1>5. i .. Len(cs) + 1 \subseteq T
    <2> HIDE DEF T
    <2>1. i \in Int /\ Len(cs) + 1 \in Int
      BY <1>1
    <2>2. QED
      BY <1>3, <1>4, <2>1, Upwards
  <1>6. QED
    BY <1>5

(* The positions are numbers from 1 on, and the differences are the        *)
(* lengths.                                                                *)
LEMMA PositionFacts ==
    ASSUME NEW S, NEW cs \in Seq(Seq(S)), NEW pos, Positions(cs, pos)
    PROVE  /\ Len(cs) \in Nat
           /\ pos[1] = 1
           /\ \A k \in 1 .. Len(cs) + 1 : pos[k] \in Nat /\ pos[k] >= 1
           /\ \A k \in 1 .. Len(cs) :
                /\ k \in Nat /\ k >= 1
                /\ k \in 1 .. Len(cs) + 1 /\ k + 1 \in 1 .. Len(cs) + 1
                /\ cs[k] \in Seq(S)
                /\ Len(cs[k]) \in Nat
                /\ pos[k + 1] = pos[k] + Len(cs[k])
  <1>1. Len(cs) \in Nat /\ \A k \in 1 .. Len(cs) : cs[k] \in Seq(S) /\ Len(cs[k]) \in Nat
    OBVIOUS
  <1>2. pos[1] = 1 /\ \A k \in 1 .. Len(cs) : pos[k + 1] = pos[k] + Len(cs[k])
    BY DEF Positions
  <1>3. \A k \in 1 .. Len(cs) + 1 : pos[k] \in Nat /\ pos[k] >= 1
    BY DEF Positions
  <1>4. \A k \in 1 .. Len(cs) :
           k \in Nat /\ k >= 1 /\ k \in 1 .. Len(cs) + 1 /\ k + 1 \in 1 .. Len(cs) + 1
    BY <1>1
  <1>5. QED
    BY <1>1, <1>2, <1>3, <1>4

(* The same, of one sequence.                                              *)
LEMMA PositionOf ==
    ASSUME NEW S, NEW cs \in Seq(Seq(S)), NEW pos, Positions(cs, pos), NEW k \in 1 .. Len(cs)
    PROVE  /\ pos[k] \in Nat /\ pos[k] >= 1
           /\ pos[k + 1] \in Nat
           /\ cs[k] \in Seq(S)
           /\ Len(cs[k]) \in Nat
           /\ pos[k + 1] = pos[k] + Len(cs[k])
  <1>1. k \in 1 .. Len(cs) + 1 /\ k + 1 \in 1 .. Len(cs) + 1
    BY PositionFacts
  <1>2. QED
    BY <1>1, PositionFacts

(* Every position of the concatenation is one of one of the sequences.     *)
LEMMA Located ==
    ASSUME NEW S, NEW cs \in Seq(Seq(S)), NEW pos, Positions(cs, pos),
           NEW p \in Nat, p >= 1, p < pos[Len(cs) + 1]
    PROVE  \E k \in 1 .. Len(cs) : \E j \in 1 .. Len(cs[k]) : p = pos[k] + j - 1
  <1> DEFINE after == {m \in 1 .. Len(cs) + 1 : p < pos[m]}
  <1>1. Len(cs) \in Nat /\ Len(cs) + 1 \in after
    BY PositionFacts
  <1>2. after \subseteq Nat /\ after # {}
    BY <1>1
  <1>3. PICK m \in after : \A i \in after : m <= i
    <2> HIDE DEF after
    <2>1. QED
      BY <1>2, Smallest
  <1>4. m \in 1 .. Len(cs) + 1 /\ p < pos[m]
    OBVIOUS
  <1>5. m # 1
    BY <1>4, PositionFacts
  <1> DEFINE k == m - 1
  <1>6. k \in 1 .. Len(cs) /\ k + 1 = m /\ k < m
    BY <1>1, <1>4, <1>5
  <1>7. k \in 1 .. Len(cs) + 1 /\ pos[k] \in Nat /\ Len(cs[k]) \in Nat /\ pos[m] = pos[k] + Len(cs[k])
    BY <1>6, PositionFacts
  <1>8. ~(p < pos[k])
    <2>1. ~(m <= k)
      BY <1>1, <1>4, <1>6
    <2>2. k \notin after
      BY <1>3, <2>1
    <2>3. QED
      BY <1>7, <2>2
  <1> HIDE DEF k
  <1>9. \A a, l, c \in Nat : p < c /\ c = a + l /\ ~(p < a) =>
           p - a + 1 \in 1 .. l /\ p = a + (p - a + 1) - 1
    OBVIOUS
  <1>10. pos[m] \in Nat
    BY <1>7
  <1>11. p - pos[k] + 1 \in 1 .. Len(cs[k]) /\ p = pos[k] + (p - pos[k] + 1) - 1
    BY <1>4, <1>7, <1>8, <1>9, <1>10
  <1>12. QED
    BY <1>6, <1>11

(* The first sequences stand in s one after another. *)
LaidOut(S, cs, pos, i, s) ==
    /\ s \in Seq(S)
    /\ Len(s) = pos[i + 1] - 1
    /\ \A k \in 1 .. i : \A j \in 1 .. Len(cs[k]) :
         /\ pos[k] + j - 1 \in 1 .. Len(s)
         /\ s[pos[k] + j - 1] = cs[k][j]

(* What is laid out is a sequence.                                         *)
LEMMA LaidOutType ==
    ASSUME NEW S, NEW cs, NEW pos, NEW i, NEW s, LaidOut(S, cs, pos, i, s)
    PROVE  s \in Seq(S) /\ Len(s) \in Nat
  <1>1. s \in Seq(S)
    BY DEF LaidOut
  <1>2. QED
    BY <1>1

(* One more sequence at the end.                                           *)
LEMMA LaidOutNext ==
    ASSUME NEW S, NEW cs \in Seq(Seq(S)), NEW pos, Positions(cs, pos),
           NEW i \in 1 .. Len(cs) - 1, NEW s, LaidOut(S, cs, pos, i, s)
    PROVE  LaidOut(S, cs, pos, i + 1, s \o cs[i + 1])
  <1> DEFINE next == cs[i + 1]
             t == s \o next
  <1>1. /\ Len(cs) \in Nat /\ i + 1 \in 1 .. Len(cs)
        /\ next \in Seq(S) /\ Len(next) \in Nat
        /\ s \in Seq(S) /\ Len(s) \in Nat
    BY DEF LaidOut
  <1> DEFINE end == pos[(i + 1) + 1]
  <1>2. end = pos[i + 1] + Len(next) /\ pos[i + 1] \in Nat /\ pos[i + 1] = Len(s) + 1
    <2>1. end = pos[i + 1] + Len(next) /\ pos[i + 1] \in Nat
      <3> HIDE DEF t
      <3>1. QED
        BY <1>1, PositionFacts
    <2>2. Len(s) = pos[i + 1] - 1
      BY DEF LaidOut
    <2>3. QED
      BY <2>1, <2>2
  <1>3. /\ t \in Seq(S)
        /\ Len(t) = Len(s) + Len(next)
        /\ \A p \in 1 .. Len(s) : t[p] = s[p]
        /\ \A j \in 1 .. Len(next) : t[Len(s) + j] = next[j]
    BY <1>1
  <1> HIDE DEF t
  <1>4. Len(t) = end - 1
    <2> HIDE DEF end, next
    <2>1. end = (Len(s) + 1) + Len(next)
      BY <1>2
    <2>2. QED
      BY <1>1, <1>3, <2>1
  <1>5. ASSUME NEW k \in 1 .. i, NEW j \in 1 .. Len(cs[k])
        PROVE  /\ pos[k] + j - 1 \in 1 .. Len(t)
               /\ t[pos[k] + j - 1] = cs[k][j]
    <2> DEFINE p == pos[k] + j - 1
    <2>1. p \in 1 .. Len(s) /\ s[p] = cs[k][j]
      BY DEF LaidOut
    <2> HIDE DEF p
    <2>2. p \in 1 .. Len(t) /\ t[p] = s[p]
      BY <1>1, <1>3, <2>1
    <2>3. QED
      BY <2>1, <2>2 DEF p
  <1>6. ASSUME NEW j \in 1 .. Len(next)
        PROVE  /\ pos[i + 1] + j - 1 \in 1 .. Len(t)
               /\ t[pos[i + 1] + j - 1] = next[j]
    <2>1. Len(s) + j = pos[i + 1] + j - 1 /\ Len(s) + j \in 1 .. Len(t)
      <3>1. j \in Nat /\ j >= 1 /\ j <= Len(next)
        BY <1>1
      <3> HIDE DEF end, next
      <3>2. QED
        BY <1>1, <1>2, <1>3, <3>1
    <2>2. QED
      BY <1>3, <2>1
  <1>7. \A k \in 1 .. i + 1 : k \in 1 .. i \/ k = i + 1
    BY <1>1
  <1>8. \A k \in 1 .. i + 1 : \A j \in 1 .. Len(cs[k]) :
           /\ pos[k] + j - 1 \in 1 .. Len(t)
           /\ t[pos[k] + j - 1] = cs[k][j]
    BY <1>5, <1>6, <1>7
  <1>9. QED
    BY <1>3, <1>4, <1>8 DEF LaidOut, t

(* The partial concatenations that FlattenSeq is defined by.               *)
LEMMA Flattened ==
    ASSUME NEW S, NEW cs \in Seq(Seq(S)), Len(cs) # 0
    PROVE  \E flat : /\ flat[1] = cs[1]
                     /\ \A i \in 2 .. Len(cs) : flat[i] = flat[i - 1] \o cs[i]
                     /\ FlattenSeq(cs) = flat[Len(cs)]
  <1> DEFINE D == 1 .. Len(cs)
             V == Seq(S)
             rank == [x \in D |-> x]
             step == [x \in D |-> [g \in [D -> V] |->
                        IF x = 1 THEN cs[x] ELSE g[x - 1] \o cs[x]]]
             body(f) == [i \in 1 .. Len(cs) |-> IF i = 1 THEN cs[i] ELSE f[i - 1] \o cs[i]]
             flat == CHOOSE f : f = body(f)
  <1>1. /\ Len(cs) \in Nat
        /\ \A k \in D : k \in Nat /\ cs[k] \in V
        /\ \A k \in D : k # 1 => k - 1 \in D /\ k - 1 < k
    OBVIOUS
  <1>2. \A a, b \in V : a \o b \in V
    OBVIOUS
  <1>3. step \in [D -> [[D -> V] -> V]]
    <2> HIDE DEF D, V
    <2>1. \A x \in D, g \in [D -> V] : x # 1 => g[x - 1] \o cs[x] \in V
      BY <1>1, <1>2
    <2>2. QED
      BY <1>1, <2>1
  <1>4. LooksLower(D, V, rank, step)
    <2> HIDE DEF D, V
    <2>1. ASSUME NEW x \in D, NEW g \in [D -> V], NEW h \in [D -> V],
                 \A y \in D : rank[y] < rank[x] => g[y] = h[y]
          PROVE  step[x][g] = step[x][h]
      <3>1. x # 1 => g[x - 1] = h[x - 1]
        BY <1>1, <2>1
      <3>2. QED
        BY <3>1
    <2> HIDE DEF rank, step
    <2>2. QED
      BY <2>1 DEF LooksLower
  <1>5. RankedBelow(D, rank, Len(cs) + 1) /\ Len(cs) + 1 \in Nat
    <2>1. rank \in [D -> Nat] /\ Len(cs) + 1 \in Nat
      BY <1>1
    <2>2. \A x \in D : rank[x] < Len(cs) + 1
      BY <1>1
    <2>3. QED
      BY <2>1, <2>2 DEF RankedBelow
  <1>6. V # {}
    <2>1. <<>> \in V
      OBVIOUS
    <2>2. QED
      BY <2>1
  <1>7. HasSolution(D, V, step)
    <2> HIDE DEF D, V, rank, step
    <2>1. QED
      BY <1>3, <1>4, <1>5, <1>6, Recursion
  <1>8. PICK g \in [D -> V] : \A x \in D : g[x] = step[x][g]
    BY <1>7 DEF HasSolution
  <1>9. g = body(g)
    <2>1. \A x \in D : g[x] = IF x = 1 THEN cs[x] ELSE g[x - 1] \o cs[x]
      BY <1>8
    <2>2. QED
      BY <2>1
  <1>10. flat = body(flat)
    <2> HIDE DEF body
    <2>1. QED
      BY <1>9
  <1>11. FlattenSeq(cs) = flat[Len(cs)]
    BY DEF FlattenSeq
  <1> HIDE DEF flat
  <1>12. \A i \in 1 .. Len(cs) : flat[i] = IF i = 1 THEN cs[i] ELSE flat[i - 1] \o cs[i]
    BY <1>10
  <1>13. flat[1] = cs[1] /\ \A i \in 2 .. Len(cs) : flat[i] = flat[i - 1] \o cs[i]
    <2>1. 1 \in 1 .. Len(cs) /\ \A i \in 2 .. Len(cs) : i \in 1 .. Len(cs) /\ i # 1
      BY <1>1
    <2>2. QED
      BY <1>12, <2>1
  <1>14. QED
    BY <1>11, <1>13

(* FlattenSeq puts each sequence at its position: by induction over them.  *)
LEMMA Layout ==
    ASSUME NEW S, NEW cs \in Seq(Seq(S)), NEW pos, Positions(cs, pos)
    PROVE  LaidOut(S, cs, pos, Len(cs), FlattenSeq(cs))
  <1>1. Len(cs) \in Nat
    OBVIOUS
  <1>2. CASE Len(cs) = 0
    <2>1. FlattenSeq(cs) = <<>>
      BY <1>2 DEF FlattenSeq
    <2>2. pos[1] = 1
      BY DEF Positions
    <2>3. QED
      BY <1>2, <2>1, <2>2 DEF LaidOut
  <1>3. CASE Len(cs) # 0
    <2>1. PICK flat : /\ flat[1] = cs[1]
                      /\ \A i \in 2 .. Len(cs) : flat[i] = flat[i - 1] \o cs[i]
                      /\ FlattenSeq(cs) = flat[Len(cs)]
      BY <1>3, Flattened
    <2> DEFINE T == {i \in 1 .. Len(cs) : LaidOut(S, cs, pos, i, flat[i])}
    <2>2. 1 \in T
      <3>1. 1 \in 1 .. Len(cs) /\ pos[1 + 1] = pos[1] + Len(cs[1]) /\ pos[1] = 1
        BY <1>1, <1>3 DEF Positions
      <3>2. cs[1] \in Seq(S) /\ Len(cs[1]) \in Nat
        BY <3>1
      <3>3. Len(cs[1]) = pos[1 + 1] - 1
        BY <3>1, <3>2
      <3>4. \A k \in 1 .. 1 : k = 1 /\ \A j \in 1 .. Len(cs[1]) : pos[1] + j - 1 = j
        BY <3>1, <3>2
      <3>5. LaidOut(S, cs, pos, 1, cs[1])
        BY <3>2, <3>3, <3>4 DEF LaidOut
      <3>6. QED
        BY <2>1, <3>1, <3>5
    <2>3. ASSUME NEW i \in 1 .. Len(cs) - 1, i \in T
          PROVE  i + 1 \in T
      <3>1. i + 1 \in 2 .. Len(cs) /\ i + 1 \in 1 .. Len(cs) /\ (i + 1) - 1 = i
        BY <1>1
      <3>2. flat[i + 1] = flat[i] \o cs[i + 1]
        BY <2>1, <3>1
      <3>3. LaidOut(S, cs, pos, i, flat[i])
        BY <2>3
      <3>4. LaidOut(S, cs, pos, i + 1, flat[i] \o cs[i + 1])
        BY <3>3, LaidOutNext
      <3>5. QED
        BY <3>1, <3>2, <3>4
    <2>4. 1 \in Int /\ Len(cs) \in Int /\ Len(cs) \in 1 .. Len(cs)
      BY <1>1, <1>3
    <2>5. Len(cs) \in T
      <3> HIDE DEF T
      <3>1. QED
        BY <2>2, <2>3, <2>4, Upwards
    <2>6. QED
      BY <2>1, <2>5
  <1>4. QED
    BY <1>2, <1>3

(* Every element of a concatenation, and nothing else, is an element of    *)
(* one of the sequences.                                                   *)
IsElement(cs, pos, p, x) ==
    \E k \in 1 .. Len(cs) : \E j \in 1 .. Len(cs[k]) : p = pos[k] + j - 1 /\ x = cs[k][j]

(* Every element of FlattenSeq(cs) is one of one of the sequences.         *)
LEMMA LayoutElement ==
    ASSUME NEW S, NEW cs \in Seq(Seq(S)), NEW pos, Positions(cs, pos),
           NEW p \in 1 .. Len(FlattenSeq(cs))
    PROVE  IsElement(cs, pos, p, FlattenSeq(cs)[p])
  <1> DEFINE s == FlattenSeq(cs)
             end == pos[Len(cs) + 1]
  <1>1. LaidOut(S, cs, pos, Len(cs), s)
    BY Layout
  <1>2. Len(s) \in Nat /\ Len(s) = end - 1
    BY <1>1 DEF LaidOut
  <1>3. end \in Nat
    <2>1. Len(cs) + 1 \in 1 .. Len(cs) + 1
      OBVIOUS
    <2>2. QED
      BY <2>1, PositionFacts
  <1>4. p \in Nat /\ p >= 1 /\ p < end
    <2> HIDE DEF s, end
    <2>1. p \in 1 .. Len(s)
      BY DEF s
    <2>2. QED
      BY <1>2, <1>3, <2>1
  <1>5. PICK k \in 1 .. Len(cs) : \E j \in 1 .. Len(cs[k]) : p = pos[k] + j - 1
    BY <1>4, Located
  <1>6. PICK j \in 1 .. Len(cs[k]) : p = pos[k] + j - 1
    BY <1>5
  <1>7. s[pos[k] + j - 1] = cs[k][j]
    <2> HIDE DEF s
    <2>1. QED
      BY <1>1 DEF LaidOut
  <1>8. QED
    BY <1>6, <1>7 DEF IsElement

(* Applying a function to the elements commutes with concatenation.        *)
Mapped(cs, ds, f) ==
    /\ Len(ds) = Len(cs)
    /\ \A k \in 1 .. Len(cs) :
         /\ Len(ds[k]) = Len(cs[k])
         /\ \A j \in 1 .. Len(cs[k]) : ds[k][j] = f[cs[k][j]]

(* Mapping the elements of every sequence maps those of FlattenSeq.        *)
LEMMA FlattenMapped ==
    ASSUME NEW S, NEW U, NEW cs \in Seq(Seq(S)), NEW ds \in Seq(Seq(U)),
           NEW f \in [S -> U], Mapped(cs, ds, f)
    PROVE  /\ FlattenSeq(cs) \in Seq(S)
           /\ FlattenSeq(ds) = [p \in DOMAIN FlattenSeq(cs) |-> f[FlattenSeq(cs)[p]]]
  <1> DEFINE s == FlattenSeq(cs)
             u == FlattenSeq(ds)
             n == Len(cs)
  <1>1. PICK pos : Positions(cs, pos)
    BY PositionsExist
  <1>2. n \in Nat /\ Len(ds) = n
    BY DEF Mapped
  <1>3. Positions(ds, pos)
    BY <1>1, <1>2 DEF Positions, Mapped
  <1>4. LaidOut(S, cs, pos, Len(cs), s) /\ LaidOut(U, ds, pos, Len(ds), u)
    BY <1>1, <1>3, Layout
  <1>5. s \in Seq(S) /\ u \in Seq(U) /\ Len(s) = Len(u)
    BY <1>2, <1>4 DEF LaidOut
  <1>6. ASSUME NEW p \in 1 .. Len(s)
        PROVE  u[p] = f[s[p]]
    <2>1. IsElement(cs, pos, p, s[p])
      BY <1>1, LayoutElement
    <2>2. PICK k \in 1 .. Len(cs) : \E j \in 1 .. Len(cs[k]) :
            p = pos[k] + j - 1 /\ s[p] = cs[k][j]
      BY <2>1 DEF IsElement
    <2>3. PICK j \in 1 .. Len(cs[k]) : p = pos[k] + j - 1 /\ s[p] = cs[k][j]
      BY <2>2
    <2>4. k \in 1 .. Len(ds) /\ j \in 1 .. Len(ds[k]) /\ ds[k][j] = f[cs[k][j]]
      BY DEF Mapped
    <2> HIDE DEF s, u, n
    <2>5. u[pos[k] + j - 1] = ds[k][j]
      BY <1>4, <2>4 DEF LaidOut
    <2>6. QED
      BY <2>3, <2>4, <2>5
  <1> HIDE DEF s, u, n
  <1>7. DOMAIN s = 1 .. Len(s) /\ DOMAIN u = 1 .. Len(s) /\ u = [p \in DOMAIN u |-> u[p]]
    BY <1>5
  <1>8. u = [p \in DOMAIN s |-> f[s[p]]]
    BY <1>6, <1>7
  <1>9. QED
    BY <1>5, <1>8 DEF s, u

(* The elements of v at the positions of K, each in a sequence of its own. *)
Singles(v, K, ds) == \A i \in 1 .. Len(ds) : ds[i] = IF i \in K THEN <<v[i]>> ELSE <<>>

(* An interval of positions leaves a part of v. *)
LEMMA IntervalKept ==
    ASSUME NEW S, NEW w \in Seq(S), NEW v, NEW ds \in Seq(Seq(S)), NEW a \in Nat,
           a + Len(w) <= Len(ds),
           Singles(v, a + 1 .. a + Len(w), ds),
           \A j \in 1 .. Len(w) : v[a + j] = w[j]
    PROVE  FlattenSeq(ds) = w
  <1> DEFINE n == Len(ds)
             m == Len(w)
             pos == [i \in 1 .. n + 1 |->
                       IF i <= a + 1 THEN 1 ELSE IF i <= a + m + 1 THEN i - a ELSE m + 1]
             s == FlattenSeq(ds)
  <1>1. n \in Nat /\ m \in Nat /\ a + m <= n
    OBVIOUS
  <1>2. ASSUME NEW i \in 1 .. n
        PROVE  Len(ds[i]) = IF i \in a + 1 .. a + m THEN 1 ELSE 0
    <2>1. ds[i] = IF i \in a + 1 .. a + m THEN <<v[i]>> ELSE <<>>
      BY DEF Singles
    <2> HIDE DEF m
    <2>2. QED
      BY <2>1
  <1> HIDE DEF n, m, s
  <1>3. Positions(ds, pos)
    <2>1. pos \in [1 .. n + 1 -> Nat \ {0}]
      BY <1>1
    <2>2. pos[1] = 1
      BY <1>1
    <2>3. ASSUME NEW k \in 1 .. n
          PROVE  pos[k + 1] = pos[k] + Len(ds[k])
      <3>1. k \in 1 .. n + 1 /\ k + 1 \in 1 .. n + 1 /\ k \in Int
        BY <1>1
      <3>2. pos[k + 1] = IF k + 1 <= a + 1 THEN 1 ELSE IF k + 1 <= a + m + 1 THEN (k + 1) - a ELSE m + 1
        BY <3>1
      <3>3. pos[k] = IF k <= a + 1 THEN 1 ELSE IF k <= a + m + 1 THEN k - a ELSE m + 1
        BY <3>1
      <3>4. Len(ds[k]) = IF k \in a + 1 .. a + m THEN 1 ELSE 0
        BY <1>2
      <3> HIDE DEF pos
      <3>5. QED
        BY <1>1, <3>1, <3>2, <3>3, <3>4
    <2> HIDE DEF pos
    <2>4. QED
      BY <2>1, <2>2, <2>3 DEF Positions, n
  <1>4. LaidOut(S, ds, pos, n, s)
    <2> HIDE DEF pos
    <2>1. QED
      BY <1>3, Layout DEF s, n
  <1>5. s \in Seq(S) /\ Len(s) = m
    <2>1. pos[n + 1] - 1 = m
      BY <1>1
    <2> HIDE DEF pos
    <2>2. QED
      BY <1>4, <2>1 DEF LaidOut
  <1>6. ASSUME NEW j \in 1 .. m
        PROVE  s[j] = w[j]
    <2>1. a + j \in 1 .. n /\ a + j \in a + 1 .. a + m /\ a + j \in 1 .. n + 1
      BY <1>1
    <2>2. pos[a + j] = j
      BY <1>1, <2>1
    <2>3. ds[a + j] = <<v[a + j]>> /\ v[a + j] = w[j]
      BY <2>1 DEF Singles, n, m
    <2>4. 1 \in 1 .. Len(ds[a + j]) /\ ds[a + j][1] = w[j]
      BY <2>3
    <2> HIDE DEF pos
    <2>5. s[pos[a + j] + 1 - 1] = ds[a + j][1]
      BY <1>4, <2>1, <2>4 DEF LaidOut
    <2>6. pos[a + j] + 1 - 1 = j
      BY <2>2
    <2>7. QED
      BY <2>4, <2>5, <2>6
  <1>7. s = w
    <2>1. w \in Seq(S) /\ Len(w) = m
      BY DEF m
    <2>2. DOMAIN s = 1 .. m /\ DOMAIN w = 1 .. m
      BY <1>5, <2>1
    <2>3. s = [j \in 1 .. m |-> s[j]] /\ w = [j \in 1 .. m |-> w[j]]
      BY <1>5, <2>1, <2>2
    <2>4. QED
      BY <1>6, <2>3
  <1>8. QED
    BY <1>7 DEF s

(* A sequence has the elements of v at the positions of K, and no others.  *)
HasElements(s, v, K) ==
    /\ \A p \in DOMAIN s : \E i \in K : s[p] = v[i]
    /\ \A i \in K : \E p \in DOMAIN s : s[p] = v[i]

(* What is left has the kept elements, and no others. *)
LEMMA ElementsKept ==
    ASSUME NEW S, NEW v, NEW ds \in Seq(Seq(S)), NEW K, K \subseteq 1 .. Len(ds),
           Singles(v, K, ds)
    PROVE  /\ FlattenSeq(ds) \in Seq(S)
           /\ HasElements(FlattenSeq(ds), v, K)
  <1> DEFINE s == FlattenSeq(ds)
  <1>1. PICK pos : Positions(ds, pos)
    BY PositionsExist
  <1>2. LaidOut(S, ds, pos, Len(ds), s)
    BY <1>1, Layout
  <1> HIDE DEF s
  <1>3. s \in Seq(S)
    BY <1>2 DEF LaidOut
  <1>4. ASSUME NEW p \in DOMAIN s
        PROVE  \E i \in K : s[p] = v[i]
    <2>1. p \in 1 .. Len(s)
      BY <1>3
    <2>2. IsElement(ds, pos, p, s[p])
      BY <1>1, <2>1, LayoutElement DEF s
    <2>3. PICK k \in 1 .. Len(ds) : \E j \in 1 .. Len(ds[k]) : s[p] = ds[k][j]
      BY <2>2 DEF IsElement
    <2>4. PICK j \in 1 .. Len(ds[k]) : s[p] = ds[k][j]
      BY <2>3
    <2>5. ds[k] = IF k \in K THEN <<v[k]>> ELSE <<>>
      BY DEF Singles
    <2>6. k \in K /\ ds[k] = <<v[k]>>
      BY <2>4, <2>5
    <2>7. j = 1
      BY <2>4, <2>6
    <2>8. QED
      BY <2>4, <2>6, <2>7
  <1>5. ASSUME NEW i \in K
        PROVE  \E p \in DOMAIN s : s[p] = v[i]
    <2>1. i \in 1 .. Len(ds) /\ ds[i] = <<v[i]>>
      BY DEF Singles
    <2>2. 1 \in 1 .. Len(ds[i]) /\ ds[i][1] = v[i]
      BY <2>1
    <2>3. pos[i] + 1 - 1 \in 1 .. Len(s) /\ s[pos[i] + 1 - 1] = v[i]
      BY <1>2, <2>1, <2>2 DEF LaidOut
    <2>4. QED
      BY <1>3, <2>3
  <1>6. QED
    BY <1>3, <1>4, <1>5 DEF s, HasElements
=============================================================================
