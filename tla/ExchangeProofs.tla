--------------------------- MODULE ExchangeProofs ---------------------------
(***************************************************************************)
(* Proofs about Exchange, for all names, keys, requests and times:         *)
(*   - what the library writes is read back with the same content;         *)
(*   - a first invariant: the certificates of the CAs, the key of a        *)
(*     response, and damaged documents;                                    *)
(*   - a second one, which relies on the first: what every document and    *)
(*     every request says.                                                 *)
(***************************************************************************)
EXTENDS Exchange, FoldLemmas, FiniteSetTheorems

-----------------------------------------------------------------------------
(* A sequence of at most one element that is not empty.                    *)
LEMMA OneElement ==
    ASSUME NEW T, NEW x \in Seq(T), Len(x) <= 1, x # <<>>
    PROVE  Len(x) = 1 /\ DOMAIN x = {1} /\ x = <<x[1]>>
  <1>1. Len(x) \in Nat /\ DOMAIN x = 1 .. Len(x)
    OBVIOUS
  <1>2. Len(x) # 0
    OBVIOUS
  <1>3. Len(x) = 1 /\ DOMAIN x = {1}
    BY <1>1, <1>2
  <1>4. x = <<x[1]>>
    BY <1>3
  <1>5. QED
    BY <1>3, <1>4

-----------------------------------------------------------------------------
(* Lemmas about the values at some positions *)

(* What Chosen flattens. *)
LEMMA ChosenSingles ==
    ASSUME NEW S, NEW v \in Seq(S), NEW K
    PROVE  \E ds \in Seq(Seq(S)) :
              /\ Chosen(v, K) = FlattenSeq(ds)
              /\ Len(ds) = Len(v)
              /\ Singles(v, K, ds)
  <1> DEFINE ds == [i \in DOMAIN v |-> IF i \in K THEN <<v[i]>> ELSE <<>>]
  <1>1. DOMAIN v = 1 .. Len(v) /\ Len(v) \in Nat
    OBVIOUS
  <1>2. \A i \in DOMAIN v : <<v[i]>> \in Seq(S) /\ <<>> \in Seq(S)
    OBVIOUS
  <1>3. ds \in Seq(Seq(S)) /\ Len(ds) = Len(v)
    BY <1>1, <1>2
  <1>4. Chosen(v, K) = FlattenSeq(ds)
    BY DEF Chosen
  <1>5. Singles(v, K, ds)
    BY <1>1, <1>3 DEF Singles
  <1> HIDE DEF ds
  <1>6. QED
    BY <1>3, <1>4, <1>5

(* The values of an interval. *)
LEMMA ChosenInterval ==
    ASSUME NEW S, NEW w \in Seq(S), NEW v \in Seq(S), NEW a \in Nat, a + Len(w) <= Len(v),
           NEW K, K = a + 1 .. a + Len(w),
           \A j \in 1 .. Len(w) : v[a + j] = w[j]
    PROVE  Chosen(v, K) = w
  <1>1. PICK ds \in Seq(Seq(S)) :
            /\ Chosen(v, K) = FlattenSeq(ds)
            /\ Len(ds) = Len(v)
            /\ Singles(v, K, ds)
    BY ChosenSingles
  <1>2. /\ a + Len(w) <= Len(ds)
        /\ Singles(v, a + 1 .. a + Len(w), ds)
    BY <1>1
  <1>3. FlattenSeq(ds) = w
    BY <1>2, IntervalKept
  <1>4. QED
    BY <1>1, <1>3

(* The values at any positions. *)
LEMMA ChosenElements ==
    ASSUME NEW S, NEW v \in Seq(S), NEW K, K \subseteq 1 .. Len(v)
    PROVE  /\ Chosen(v, K) \in Seq(S)
           /\ ToSet(Chosen(v, K)) = {v[i] : i \in K}
  <1>1. PICK ds \in Seq(Seq(S)) :
            /\ Chosen(v, K) = FlattenSeq(ds)
            /\ Len(ds) = Len(v)
            /\ Singles(v, K, ds)
    BY ChosenSingles
  <1>a. K \subseteq 1 .. Len(ds) /\ Singles(v, K, ds)
    BY <1>1
  <1>2. FlattenSeq(ds) \in Seq(S) /\ HasElements(FlattenSeq(ds), v, K)
    BY <1>a, ElementsKept
  <1>3. Chosen(v, K) \in Seq(S) /\ HasElements(Chosen(v, K), v, K)
    BY <1>1, <1>2
  <1>4. ToSet(Chosen(v, K)) = {Chosen(v, K)[p] : p \in DOMAIN Chosen(v, K)}
    BY DEF ToSet
  <1>5. \A x \in ToSet(Chosen(v, K)) : x \in {v[i] : i \in K}
    BY <1>3, <1>4 DEF HasElements
  <1>6. \A x \in {v[i] : i \in K} : x \in ToSet(Chosen(v, K))
    BY <1>3, <1>4 DEF HasElements
  <1> HIDE DEF HasElements
  <1>7. QED
    BY <1>3, <1>5, <1>6, Zenon

-----------------------------------------------------------------------------
(* Lemmas about strings and times *)

(* What is written of a string is read as the same string. *)
LEMMA StringRead ==
    ASSUME NEW v \in Seq(Characters)
    PROVE  /\ marshalDirectoryString(v) \in DirectoryStrings
           /\ marshalDirectoryString(v).tag \in {"printable", "utf8"}
           /\ parseDirectoryString(marshalDirectoryString(v)) = v
           /\ marshalDirectoryString(v).bytes = v
  BY DEF marshalDirectoryString, DirectoryStrings, parseDirectoryString

(* A time in whole seconds is read as it was written. *)
LEMMA TimeRead ==
    ASSUME NEW t \in Int, t % 2 = 0, marshalTime(t) # Error
    PROVE  /\ marshalTime(t) \in Dates
           /\ marshalTime(t).tag # "absent"
           /\ parseTime(marshalTime(t)) = t
           /\ t < Century \/ t <= Forever
  <1>1. Century \in Int /\ Forever \in Int
    BY TimeAssumption DEF TimesAre
  <1>2. t - (t % 2) = t
    OBVIOUS
  <1>3. CASE t \in 0 .. Century - 1
    <2>1. marshalTime(t) = [tag |-> "utc", digits |-> t % Century]
      BY <1>2, <1>3 DEF marshalTime
    <2>2. t % Century = t /\ t < Century
      BY <1>1, <1>3
    <2>3. QED
      BY <2>1, <2>2 DEF Dates, parseTime
  <1>4. CASE t \notin 0 .. Century - 1
    <2>1. t <= Forever /\ marshalTime(t) = [tag |-> "generalized", digits |-> t]
      BY <1>2, <1>4 DEF marshalTime
    <2>2. QED
      BY <2>1 DEF Dates, parseTime
  <1>5. QED
    BY <1>3, <1>4

(* A time before one that can be written can be written. *)
LEMMA TimeWritten ==
    ASSUME NEW t \in Int, t % 2 = 0,
           NEW u \in Int, t <= u, u < Century \/ u <= Forever
    PROVE  marshalTime(t) # Error
  <1>1. Century \in Int /\ Forever \in Int /\ Century <= Forever
    BY TimeAssumption DEF TimesAre
  <1>2. t - (t % 2) = t
    OBVIOUS
  <1>3. CASE t \in 0 .. Century - 1
    <2>1. marshalTime(t) = [tag |-> "utc", digits |-> t % Century]
      BY <1>2, <1>3 DEF marshalTime
    <2>2. t % Century = t
      BY <1>1, <1>3
    <2>3. marshalTime(t) \in Dates
      BY <2>1, <2>2 DEF Dates
    <2>4. QED
      BY <2>3, TypeAssumption DEF NoValue
  <1>4. CASE t \notin 0 .. Century - 1
    <2>1. t <= Forever
      BY <1>1
    <2>2. marshalTime(t) = [tag |-> "generalized", digits |-> t]
      BY <1>2, <1>4, <2>1 DEF marshalTime
    <2>3. marshalTime(t) \in Dates
      BY <2>2 DEF Dates
    <2>4. QED
      BY <2>3, TypeAssumption DEF NoValue
  <1>5. QED
    BY <1>3, <1>4

(* The types of a name.                                                    *)
LEMMA TypesAre ==
    /\ Len(Types) = 6 /\ DOMAIN Types = 1 .. 6
    /\ Types \in Seq(ToSet(Types))
    /\ \A j, k \in 1 .. 6 : Types[j] = Types[k] => j = k
    /\ Types[6] = "CN"
    /\ "CN" \in ToSet(Types)
    /\ \A t \in ToSet(Types) : \E k \in 1 .. 6 : t = Types[k]
    /\ \A k \in 1 .. 6 : Types[k] \in ToSet(Types)
  <1>1. Len(Types) = 6 /\ DOMAIN Types = 1 .. 6
    BY DEF Types
  <1>2. Types[1] = "C" /\ Types[2] = "ST" /\ Types[3] = "L" /\ Types[4] = "O" /\ Types[5] = "OU"
        /\ Types[6] = "CN"
    BY DEF Types
  <1>3. \A j, k \in 1 .. 6 : Types[j] = Types[k] => j = k
    BY <1>2
  <1>4. ToSet(Types) = {Types[k] : k \in 1 .. 6}
    BY <1>1 DEF ToSet
  <1>a. \A k \in 1 .. 6 : Types[k] \in ToSet(Types)
    BY <1>4
  <1>b. \A t \in ToSet(Types) : \E k \in 1 .. 6 : t = Types[k]
    BY <1>4
  <1>5. Types = [k \in 1 .. 6 |-> Types[k]]
    BY <1>1 DEF Types
  <1>6. Types \in Seq(ToSet(Types))
    <2> HIDE DEF Types
    <2>1. \A f : f = [k \in 1 .. 6 |-> Types[k]] => f \in Seq(ToSet(Types))
      BY <1>a
    <2>2. QED
      BY <1>5, <2>1
  <1>7. "CN" \in ToSet(Types)
    BY <1>2, <1>4
  <1>8. QED
    BY <1>1, <1>2, <1>3, <1>6, <1>7, <1>a, <1>b

-----------------------------------------------------------------------------
(* Lemmas about ParseName *)

(* The value of each RDN of a name, and the name with one more of them.    *)
Valued(rdns) ==
    [i \in DOMAIN rdns |-> IF rdns[i].avas = 1 THEN parseDirectoryString(rdns[i].value) ELSE Error]

AddRDN(rdns, n, i) ==
    IF rdns[i].type \notin DOMAIN n THEN n
    ELSE IF rdns[i].type = "CN"
      THEN [n EXCEPT !["CN"] = IF Valued(rdns)[i] = <<>> THEN <<>> ELSE <<Valued(rdns)[i]>>]
      ELSE [n EXCEPT ![rdns[i].type] = Append(@, Valued(rdns)[i])]

ValueLists == [ToSet(Types) -> Seq(Seq(Characters))]

NameRounds(rdns, acc) ==
    /\ acc \in [0 .. Len(rdns) -> ValueLists]
    /\ acc[0] = EmptyName
    /\ \A i \in 1 .. Len(rdns) : acc[i] = AddRDN(rdns, acc[i - 1], i)
    /\ ParseName(rdns) = acc[Len(rdns)]

(* A round of ParseName leaves lists of values.                            *)
LEMMA AddRDNType ==
    ASSUME NEW rdns, NEW n \in ValueLists, NEW i \in DOMAIN rdns, Valued(rdns)[i] \in Seq(Characters)
    PROVE  AddRDN(rdns, n, i) \in ValueLists
  <1>1. CASE rdns[i].type \notin ToSet(Types)
    BY <1>1 DEF AddRDN, ValueLists
  <1> DEFINE v == Valued(rdns)[i]
  <1>a. v \in Seq(Characters)
    OBVIOUS
  <1> HIDE DEF v
  <1>2. CASE rdns[i].type \in ToSet(Types) /\ rdns[i].type = "CN"
    <2>1. AddRDN(rdns, n, i) = [n EXCEPT !["CN"] = IF v = <<>> THEN <<>> ELSE <<v>>]
      BY <1>2 DEF AddRDN, ValueLists, v
    <2>2. (IF v = <<>> THEN <<>> ELSE <<v>>) \in Seq(Seq(Characters))
      BY <1>a
    <2>3. QED
      BY <2>1, <2>2 DEF ValueLists
  <1>3. CASE rdns[i].type \in ToSet(Types) /\ rdns[i].type # "CN"
    <2> DEFINE t == rdns[i].type
    <2>1. AddRDN(rdns, n, i) = [n EXCEPT ![t] = Append(n[t], v)]
      BY <1>3 DEF AddRDN, ValueLists, v
    <2>2. n[t] \in Seq(Seq(Characters))
      BY <1>3 DEF ValueLists
    <2>3. Append(n[t], v) \in Seq(Seq(Characters))
      BY <1>a, <2>2
    <2>4. QED
      BY <2>1, <2>3 DEF ValueLists
  <1>4. QED
    BY <1>1, <1>2, <1>3

(* The rounds of the loop exist: ParseName is what is left after the last. *)
LEMMA NameRoundsExist ==
    ASSUME NEW rdns, NEW n \in Nat, DOMAIN rdns = 1 .. n, Len(rdns) = n,
           ~Fails(Valued(rdns)), \A i \in 1 .. n : Valued(rdns)[i] \in Seq(Characters)
    PROVE  \E acc : NameRounds(rdns, acc)
  <1> DEFINE index == [i \in DOMAIN rdns |-> i]
             round(f) == [x \in SUBSET DOMAIN index |->
                           IF x = {} THEN EmptyName
                           ELSE AddRDN(rdns, f[x \ {Max(x)}], index[Max(x)])]
             last == CHOOSE f : f = round(f)
             add == [i \in 1 .. n |-> [m \in ValueLists |-> AddRDN(rdns, m, i)]]
  <1>1. DOMAIN index = 1 .. n /\ EmptyName \in ValueLists
    BY DEF EmptyName, ValueLists
  <1>2. ParseName(rdns) = last[DOMAIN index]
    BY DEF ParseName, FoldLeftDomain, FoldLeft, MapThenFoldSet, AddRDN, Valued
  <1>3. \A x \in SUBSET (1 .. n) : x # {} => Max(x) \in 1 .. n /\ index[Max(x)] = Max(x)
    <2>1. ASSUME NEW x \in SUBSET (1 .. n), x # {}
          PROVE  Max(x) \in 1 .. n
      <3>1. n \in Int /\ x \subseteq 0 .. n
        OBVIOUS
      <3>2. Max(x) \in x
        BY <2>1, <3>1, MaxIs
      <3>3. QED
        BY <3>2
    <2>2. QED
      BY <1>1, <2>1
  <1>4. add \in [1 .. n -> [ValueLists -> ValueLists]]
    BY AddRDNType
  <1>5. PICK iter \in [SUBSET (1 .. n) -> ValueLists] :
          \A x \in SUBSET (1 .. n) :
            iter[x] = IF x = {} THEN EmptyName ELSE add[Max(x)][iter[x \ {Max(x)}]]
    <2> HIDE DEF add
    <2>1. HasFold(n, ValueLists, EmptyName, add)
      BY <1>1, <1>4, FoldExists
    <2>2. QED
      BY <2>1 DEF HasFold
  <1>6. iter = round(iter)
    <2>1. ASSUME NEW x \in SUBSET (1 .. n)
          PROVE  iter[x] = IF x = {} THEN EmptyName
                           ELSE AddRDN(rdns, iter[x \ {Max(x)}], index[Max(x)])
      <3>1. CASE x = {}
        BY <1>5, <3>1
      <3>2. CASE x # {}
        <4>1. Max(x) \in 1 .. n /\ index[Max(x)] = Max(x)
          BY <1>3, <3>2
        <4>2. iter[x \ {Max(x)}] \in ValueLists
          OBVIOUS
        <4>3. QED
          BY <1>5, <3>2, <4>1, <4>2
      <3>3. QED
        BY <3>1, <3>2
    <2>2. QED
      BY <1>1, <2>1
  <1>7. last = round(last)
    <2> HIDE DEF round
    <2>1. QED
      BY <1>6
  <1>8. /\ last[{}] = EmptyName
        /\ \A x \in SUBSET (1 .. n) : x # {} /\ last[x \ {Max(x)}] \in ValueLists =>
              last[x] = add[Max(x)][last[x \ {Max(x)}]]
    <2> HIDE DEF last
    <2>1. ASSUME NEW x \in SUBSET (1 .. n)
          PROVE  last[x] = IF x = {} THEN EmptyName
                           ELSE AddRDN(rdns, last[x \ {Max(x)}], index[Max(x)])
      BY <1>1, <1>7
    <2>2. {} \in SUBSET (1 .. n)
      OBVIOUS
    <2>3. last[{}] = EmptyName
      BY <2>1, <2>2
    <2>4. ASSUME NEW x \in SUBSET (1 .. n), x # {}, last[x \ {Max(x)}] \in ValueLists
          PROVE  last[x] = add[Max(x)][last[x \ {Max(x)}]]
      <3>1. Max(x) \in 1 .. n /\ index[Max(x)] = Max(x)
        BY <1>3, <2>4
      <3>2. last[x] = AddRDN(rdns, last[x \ {Max(x)}], Max(x))
        BY <2>1, <2>4, <3>1
      <3>3. QED
        BY <2>4, <3>1, <3>2
    <2>5. QED
      BY <2>3, <2>4
  <1>9. PICK acc \in [0 .. n -> ValueLists] :
          /\ acc[0] = EmptyName
          /\ \A i \in 1 .. n : acc[i] = add[i][acc[i - 1]]
          /\ acc[n] = last[1 .. n]
    <2> HIDE DEF add, last
    <2>1. FoldsWith(n, ValueLists, EmptyName, add, last)
      BY <1>8 DEF FoldsWith
    <2>2. Accumulates(n, ValueLists, EmptyName, add, last)
      BY <1>1, <1>4, <2>1, FoldComputes
    <2>3. QED
      BY <2>2 DEF Accumulates
  <1>10. ASSUME NEW i \in 1 .. n
         PROVE  acc[i] = AddRDN(rdns, acc[i - 1], i)
    <2>1. i - 1 \in 0 .. n
      OBVIOUS
    <2>2. acc[i - 1] \in ValueLists
      BY <2>1
    <2>3. QED
      BY <1>9, <2>2
  <1>11. ParseName(rdns) = acc[n]
    <2> HIDE DEF last, index
    <2>1. QED
      BY <1>1, <1>2, <1>9
  <1>12. QED
    BY <1>9, <1>10, <1>11 DEF NameRounds

(* The values chosen so far, position after position.                      *)
ChosenRounds(S, v, K, flat) ==
    /\ \A i \in 0 .. Len(v) : flat[i] \in Seq(S)
    /\ flat[0] = <<>>
    /\ \A i \in 1 .. Len(v) : flat[i] = IF i \in K THEN Append(flat[i - 1], v[i]) ELSE flat[i - 1]
    /\ Chosen(v, K) = flat[Len(v)]

(* They exist, up to the last position.                                    *)
LEMMA ChosenRoundsExist ==
    ASSUME NEW S, NEW v \in Seq(S), NEW K
    PROVE  \E flat : ChosenRounds(S, v, K, flat)
  <1>1. PICK ds \in Seq(Seq(S)) :
            /\ Chosen(v, K) = FlattenSeq(ds)
            /\ Len(ds) = Len(v)
            /\ Singles(v, K, ds)
    BY ChosenSingles
  <1> DEFINE n == Len(v)
  <1>n. n \in Nat /\ Len(ds) = n
    BY <1>1
  <1>2. CASE n = 0
    <2>1. FlattenSeq(ds) = <<>>
      <3>1. ds = <<>>
        <4> HIDE DEF n
        <4>1. QED
          BY <1>n, <1>2
      <3>2. QED
        BY <3>1 DEF FlattenSeq
    <2> DEFINE flat == [i \in 0 .. 0 |-> <<>>]
    <2>2. flat[0] = <<>> /\ flat[0] \in Seq(S)
      OBVIOUS
    <2>3. Len(v) = 0 /\ Chosen(v, K) = <<>>
      BY <1>1, <1>2, <2>1
    <2> HIDE DEF flat, n
    <2>a. (\A i \in 0 .. 0 : i = 0) /\ 1 .. 0 = {}
      OBVIOUS
    <2>4. ChosenRounds(S, v, K, flat)
      BY <2>2, <2>3, <2>a, Zenon DEF ChosenRounds
    <2>5. QED
      BY <2>4
  <1>3. CASE n # 0
    <2>1. PICK some : /\ some[1] = ds[1]
                      /\ \A i \in 2 .. Len(ds) : some[i] = some[i - 1] \o ds[i]
                      /\ FlattenSeq(ds) = some[Len(ds)]
      BY <1>n, <1>3, Flattened
    <2> DEFINE flat == [i \in 0 .. n |-> IF i = 0 THEN <<>> ELSE some[i]]
               T == {i \in 0 .. n : flat[i] \in Seq(S)}
    <2>2. ASSUME NEW i \in 1 .. n
          PROVE  /\ ds[i] = IF i \in K THEN <<v[i]>> ELSE <<>>
                 /\ ds[i] \in Seq(S)
                 /\ v[i] \in S
                 /\ i \in 1 .. Len(ds)
      BY <1>1, <1>n DEF Singles
    <2>3. ASSUME NEW i \in 1 .. n, flat[i - 1] \in Seq(S)
          PROVE  flat[i] = flat[i - 1] \o ds[i]
      <3>1. CASE i = 1
        <4>a. 0 \in 0 .. n /\ 1 \in 0 .. n
          BY <1>n, <3>1
        <4>1. flat[0] = <<>> /\ flat[1] = ds[1]
          BY <2>1, <4>a
        <4>2. ds[1] \in Seq(S)
          BY <2>2, <3>1
        <4>3. <<>> \o ds[1] = ds[1]
          BY <4>2
        <4> HIDE DEF flat
        <4>4. i - 1 = 0
          BY <3>1
        <4>5. flat[i - 1] = <<>> /\ flat[i] = ds[1] /\ ds[i] = ds[1]
          BY <3>1, <4>1, <4>4
        <4>6. QED
          BY <4>3, <4>5, Zenon
      <3>2. CASE i # 1
        <4>1. i \in 2 .. Len(ds) /\ i - 1 \in 1 .. n
          BY <1>n, <3>2
        <4>2. flat[i - 1] = some[i - 1] /\ flat[i] = some[i]
          BY <1>n, <4>1
        <4>3. QED
          BY <2>1, <4>1, <4>2
      <3>3. QED
        BY <3>1, <3>2
    <2>4. ASSUME NEW i \in 1 .. n, flat[i - 1] \in Seq(S)
          PROVE  /\ flat[i] = IF i \in K THEN Append(flat[i - 1], v[i]) ELSE flat[i - 1]
                 /\ flat[i] \in Seq(S)
      <3>1. flat[i] = flat[i - 1] \o ds[i] /\ ds[i] \in Seq(S)
        BY <2>2, <2>3, <2>4
      <3> HIDE DEF flat
      <3>2. flat[i] \in Seq(S)
        BY <2>4, <3>1
      <3>3. CASE i \in K
        <4>1. ds[i] = <<v[i]>> /\ v[i] \in S
          BY <2>2, <3>3
        <4>2. \A u \in Seq(S) : u \o <<v[i]>> = Append(u, v[i])
          BY <4>1
        <4>3. QED
          BY <2>4, <3>1, <3>2, <3>3, <4>1, <4>2
      <3>4. CASE i \notin K
        <4>1. ds[i] = <<>>
          BY <2>2, <3>4
        <4>2. \A u \in Seq(S) : u \o <<>> = u
          OBVIOUS
        <4>3. QED
          BY <2>4, <3>1, <3>2, <3>4, <4>1, <4>2
      <3>5. QED
        BY <3>3, <3>4
    <2>5. 0 \in T
      BY <1>n
    <2>6. ASSUME NEW i \in 0 .. n - 1, i \in T
          PROVE  i + 1 \in T
      <3>1. i + 1 \in 1 .. n /\ (i + 1) - 1 = i
        BY <1>n
      <3> HIDE DEF flat
      <3>2. flat[(i + 1) - 1] \in Seq(S)
        BY <2>6, <3>1
      <3>3. flat[i + 1] \in Seq(S)
        BY <2>4, <3>1, <3>2
      <3>4. QED
        BY <1>n, <3>1, <3>3
    <2>7. 0 .. n \subseteq T
      <3>1. 0 \in Int /\ n \in Int
        BY <1>n
      <3> HIDE DEF T, n
      <3>2. QED
        BY <2>5, <2>6, <3>1, Upwards
    <2>8. \A i \in 0 .. n : flat[i] \in Seq(S)
      BY <2>7
    <2>9. flat[0] = <<>> /\ flat[n] = some[Len(ds)]
      BY <1>n, <1>3
    <2> HIDE DEF flat, T
    <2>10. ASSUME NEW i \in 1 .. n
           PROVE  flat[i] = IF i \in K THEN Append(flat[i - 1], v[i]) ELSE flat[i - 1]
      <3>1. i - 1 \in 0 .. n
        BY <1>n
      <3>2. flat[i - 1] \in Seq(S)
        BY <2>8, <3>1
      <3>3. QED
        BY <2>4, <3>2
    <2>11. QED
      BY <1>1, <2>1, <2>8, <2>9, <2>10 DEF ChosenRounds
  <1>4. QED
    BY <1>2, <1>3

(* The common name is the last one, unless that is empty.                  *)
CommonName(values) ==
    IF values = <<>> \/ values[Len(values)] = <<>> THEN <<>> ELSE <<values[Len(values)]>>

OfType(rdns, t) == {i \in DOMAIN rdns : rdns[i].type = t}

(* A name has the values of its RDNs, type by type.                        *)
NameOf(rdns, n) ==
    /\ n \in Names
    /\ \A t \in ToSet(Types) \ {"CN"} : n[t] = Chosen(Valued(rdns), OfType(rdns, t))
    /\ n["CN"] = CommonName(Chosen(Valued(rdns), OfType(rdns, "CN")))

(* What ParseName returns.                                                 *)
LEMMA NameParsed ==
    ASSUME NEW rdns, NEW n \in Nat, DOMAIN rdns = 1 .. n, Len(rdns) = n,
           ~Fails(Valued(rdns)), \A i \in 1 .. n : Valued(rdns)[i] \in Seq(Characters)
    PROVE  NameOf(rdns, ParseName(rdns))
  <1>1. PICK acc : NameRounds(rdns, acc)
    BY NameRoundsExist
  <1>2. /\ acc \in [0 .. n -> ValueLists]
        /\ acc[0] = EmptyName
        /\ \A i \in 1 .. n : acc[i] = AddRDN(rdns, acc[i - 1], i)
        /\ ParseName(rdns) = acc[n]
    BY <1>1 DEF NameRounds
  <1> DEFINE v == Valued(rdns)
             S == Seq(Characters)
  <1>3. v \in Seq(S) /\ Len(v) = n
    <2>1. v = [i \in 1 .. n |-> v[i]]
      BY DEF Valued
    <2>2. \A i \in 1 .. n : v[i] \in S
      OBVIOUS
    <2> HIDE DEF v, S
    <2>3. \A f : f = [i \in 1 .. n |-> v[i]] => f \in Seq(S) /\ Len(f) = n
      BY <2>2
    <2>4. QED
      BY <2>1, <2>3
  <1>4. "CN" \in ToSet(Types)
    BY TypesAre
  <1>v. \A i \in 1 .. n : v[i] \in S
    OBVIOUS
  <1>5. ASSUME NEW i \in 1 .. n
        PROVE  /\ i - 1 \in 0 .. n
               /\ acc[i - 1] \in [ToSet(Types) -> Seq(S)]
               /\ acc[i] = IF rdns[i].type \notin ToSet(Types) THEN acc[i - 1]
                           ELSE IF rdns[i].type = "CN"
                             THEN [acc[i - 1] EXCEPT !["CN"] = IF v[i] = <<>> THEN <<>> ELSE <<v[i]>>]
                             ELSE [acc[i - 1] EXCEPT ![rdns[i].type] = Append(@, v[i])]
    <2>1. i - 1 \in 0 .. n
      OBVIOUS
    <2>2. acc[i - 1] \in [ToSet(Types) -> Seq(S)]
      BY <1>2, <2>1 DEF ValueLists
    <2>3. DOMAIN acc[i - 1] = ToSet(Types)
      BY <2>2
    <2>4. QED
      BY <1>2, <2>1, <2>2, <2>3 DEF AddRDN
  <1> HIDE DEF v, S
  <1>6. ASSUME NEW t \in ToSet(Types) \ {"CN"}
        PROVE  acc[n][t] = Chosen(v, OfType(rdns, t))
    <2> DEFINE K == OfType(rdns, t)
    <2>1. PICK flat : ChosenRounds(S, v, K, flat)
      BY <1>3, ChosenRoundsExist
    <2>2. /\ flat[0] = <<>>
          /\ \A i \in 1 .. n : flat[i] = IF i \in K THEN Append(flat[i - 1], v[i]) ELSE flat[i - 1]
          /\ Chosen(v, K) = flat[n]
      BY <1>3, <2>1 DEF ChosenRounds
    <2> DEFINE T == {i \in 0 .. n : acc[i][t] = flat[i]}
    <2>3. 0 \in T
      BY <1>2, <2>2 DEF EmptyName
    <2>4. ASSUME NEW j \in 0 .. n - 1, j \in T
          PROVE  j + 1 \in T
      <3>1. j + 1 \in 1 .. n /\ (j + 1) - 1 = j /\ acc[j][t] = flat[j] /\ j + 1 \in 0 .. n
        BY <2>4
      <3> DEFINE i == j + 1
      <3>2. i \in K <=> rdns[i].type = t
        BY <3>1 DEF OfType
      <3> HIDE DEF K
      <3>3. flat[i] = IF rdns[i].type = t THEN Append(flat[j], v[i]) ELSE flat[j]
        BY <2>2, <3>1, <3>2
      <3>4. /\ acc[j] \in [ToSet(Types) -> Seq(S)]
            /\ acc[i] = IF rdns[i].type \notin ToSet(Types) THEN acc[j]
                        ELSE IF rdns[i].type = "CN"
                          THEN [acc[j] EXCEPT !["CN"] = IF v[i] = <<>> THEN <<>> ELSE <<v[i]>>]
                          ELSE [acc[j] EXCEPT ![rdns[i].type] = Append(@, v[i])]
        BY <1>5, <3>1
      <3> HIDE DEF i
      <3>5. acc[i][t] = flat[i]
        BY <1>4, <3>1, <3>3, <3>4
      <3>6. QED
        BY <3>1, <3>5 DEF i
    <2>5. 0 .. n \subseteq T
      <3>1. 0 \in Int /\ n \in Int
        OBVIOUS
      <3> HIDE DEF T
      <3>2. QED
        BY <2>3, <2>4, <3>1, Upwards
    <2>6. n \in T
      BY <2>5
    <2>7. QED
      BY <2>2, <2>6
  <1>7. acc[n]["CN"] = CommonName(Chosen(v, OfType(rdns, "CN")))
    <2> DEFINE K == OfType(rdns, "CN")
    <2>1. PICK flat : ChosenRounds(S, v, K, flat)
      BY <1>3, ChosenRoundsExist
    <2>2. /\ flat[0] = <<>>
          /\ \A i \in 0 .. n : flat[i] \in Seq(S)
          /\ \A i \in 1 .. n : flat[i] = IF i \in K THEN Append(flat[i - 1], v[i]) ELSE flat[i - 1]
          /\ Chosen(v, K) = flat[n]
      BY <1>3, <2>1 DEF ChosenRounds
    <2> DEFINE T == {i \in 0 .. n : acc[i]["CN"] = CommonName(flat[i])}
    <2>3. 0 \in T
      <3>1. acc[0]["CN"] = <<>>
        BY <1>2, <1>4 DEF EmptyName
      <3>2. CommonName(flat[0]) = <<>>
        BY <2>2 DEF CommonName
      <3>3. QED
        BY <3>1, <3>2
    <2>4. ASSUME NEW j \in 0 .. n - 1, j \in T
          PROVE  j + 1 \in T
      <3>1. j + 1 \in 1 .. n /\ (j + 1) - 1 = j /\ acc[j]["CN"] = CommonName(flat[j]) /\ j + 1 \in 0 .. n
        BY <2>4
      <3> DEFINE i == j + 1
      <3>2. i \in K <=> rdns[i].type = "CN"
        BY <3>1 DEF OfType
      <3> HIDE DEF K
      <3>3. flat[i] = IF rdns[i].type = "CN" THEN Append(flat[j], v[i]) ELSE flat[j]
        BY <2>2, <3>1, <3>2
      <3>4. /\ acc[j] \in [ToSet(Types) -> Seq(S)]
            /\ acc[i] = IF rdns[i].type \notin ToSet(Types) THEN acc[j]
                        ELSE IF rdns[i].type = "CN"
                          THEN [acc[j] EXCEPT !["CN"] = IF v[i] = <<>> THEN <<>> ELSE <<v[i]>>]
                          ELSE [acc[j] EXCEPT ![rdns[i].type] = Append(@, v[i])]
        BY <1>5, <3>1
      <3>a. v[i] \in S /\ flat[j] \in Seq(S)
        BY <1>v, <2>2, <3>1
      <3> HIDE DEF i
      <3>5. CASE rdns[i].type = "CN"
        <4>1. acc[i]["CN"] = IF v[i] = <<>> THEN <<>> ELSE <<v[i]>>
          BY <1>4, <3>4, <3>5
        <4>2. flat[i] = Append(flat[j], v[i])
          BY <3>3, <3>5
        <4>a. \A u \in Seq(S), x \in S :
                 Append(u, x) # <<>> /\ Append(u, x)[Len(Append(u, x))] = x
          OBVIOUS
        <4>3. flat[i] # <<>> /\ flat[i][Len(flat[i])] = v[i]
          BY <3>a, <4>2, <4>a, Zenon
        <4>4. CommonName(flat[i]) = IF v[i] = <<>> THEN <<>> ELSE <<v[i]>>
          BY <4>3 DEF CommonName
        <4>5. QED
          BY <3>1, <4>1, <4>4 DEF i
      <3>6. CASE rdns[i].type # "CN"
        <4>1. acc[i]["CN"] = acc[j]["CN"]
          BY <1>4, <3>4, <3>6
        <4>2. flat[i] = flat[j]
          BY <3>3, <3>6
        <4>5. QED
          BY <3>1, <4>1, <4>2 DEF i
      <3>7. QED
        BY <3>5, <3>6
    <2>5. 0 .. n \subseteq T
      <3>1. 0 \in Int /\ n \in Int
        OBVIOUS
      <3> HIDE DEF T
      <3>2. QED
        BY <2>3, <2>4, <3>1, Upwards
    <2>6. n \in T
      BY <2>5
    <2>7. QED
      BY <2>2, <2>6
  <1>8. acc[n] \in Names
    <2>1. acc[n] \in [ToSet(Types) -> Seq(Seq(Characters))]
      BY <1>2 DEF ValueLists
    <2> DEFINE c == Chosen(v, OfType(rdns, "CN"))
    <2>2. acc[n]["CN"] = CommonName(c)
      BY <1>7
    <2> HIDE DEF c
    <2>3. \/ CommonName(c) = <<>>
          \/ \E x : x # <<>> /\ CommonName(c) = <<x>>
      BY DEF CommonName
    <2>4. Len(CommonName(c)) <= 1 /\ <<>> \notin ToSet(CommonName(c))
      <3>1. CASE CommonName(c) = <<>>
        <4>1. ToSet(<<>>) = {}
          BY DEF ToSet
        <4>2. QED
          BY <3>1, <4>1
      <3>2. ASSUME NEW x, x # <<>>, CommonName(c) = <<x>>
            PROVE  Len(CommonName(c)) <= 1 /\ <<>> \notin ToSet(CommonName(c))
        <4>1. ToSet(<<x>>) = {x}
          BY DEF ToSet
        <4>2. QED
          BY <3>2, <4>1
      <3>3. QED
        BY <2>3, <3>1, <3>2
    <2>5. QED
      BY <2>1, <2>2, <2>4 DEF Names, IsName
  <1>9. QED
    BY <1>2, <1>6, <1>7, <1>8 DEF NameOf, v

-----------------------------------------------------------------------------
(* Lemmas about ToRDNSequence *)

(* What is written of a value.                                             *)
Written(t, v) == [type |-> t, value |-> marshalDirectoryString(v), avas |-> 1]

(* The RDNs of a name, type by type, and where each type begins.           *)
RDNsByType(n, cs) ==
    /\ cs \in Seq(Seq(RDNs))
    /\ Len(cs) = 6
    /\ \A k \in 1 .. 6 :
         /\ Len(cs[k]) = Len(n[Types[k]])
         /\ \A j \in 1 .. Len(cs[k]) : cs[k][j] = Written(Types[k], n[Types[k]][j])

(* What is written of a value can be read as that value.                   *)
LEMMA WrittenIs ==
    ASSUME NEW t \in ToSet(Types), NEW v \in Seq(Characters)
    PROVE  /\ Written(t, v) \in RDNs
           /\ Written(t, v).type = t
           /\ Written(t, v).avas = 1
           /\ parseDirectoryString(Written(t, v).value) = v
  <1> DEFINE rv == marshalDirectoryString(v)
  <1>1. rv \in DirectoryStrings /\ parseDirectoryString(rv) = v
    BY StringRead
  <1>2. Written(t, v) = [type |-> t, value |-> rv, avas |-> 1]
    BY DEF Written
  <1> HIDE DEF rv
  <1>3. QED
    BY <1>1, <1>2 DEF RDNs

(* ToRDNSequence writes the RDNs type by type.                             *)
LEMMA NameSplit ==
    ASSUME NEW n \in Names
    PROVE  \E cs : /\ RDNsByType(n, cs)
                   /\ ToRDNSequence(n) = FlattenSeq(cs)
  <1> DEFINE rdns(t) == [i \in DOMAIN n[t] |->
                           [type |-> t, value |-> marshalDirectoryString(n[t][i]), avas |-> 1]]
             cs == [k \in DOMAIN Types |-> rdns(Types[k])]
             S == RDNs
  <1>1. ToRDNSequence(n) = FlattenSeq(cs)
    BY DEF ToRDNSequence
  <1>2. n \in [ToSet(Types) -> Seq(Seq(Characters))]
    BY DEF Names
  <1>3. ASSUME NEW k \in 1 .. 6
        PROVE  /\ cs[k] = [i \in 1 .. Len(n[Types[k]]) |-> Written(Types[k], n[Types[k]][i])]
               /\ cs[k] \in Seq(S) /\ Len(cs[k]) = Len(n[Types[k]])
    <2>1. Types[k] \in ToSet(Types) /\ k \in DOMAIN Types
      BY TypesAre
    <2> DEFINE t == Types[k]
    <2>2. n[t] \in Seq(Seq(Characters)) /\ DOMAIN n[t] = 1 .. Len(n[t]) /\ Len(n[t]) \in Nat
      BY <1>2, <2>1
    <2>3. cs[k] = [i \in 1 .. Len(n[t]) |-> Written(t, n[t][i])]
      BY <2>1, <2>2 DEF Written
    <2> HIDE DEF cs, t
    <2>4. ASSUME NEW i \in 1 .. Len(n[t])
          PROVE  Written(t, n[t][i]) \in S
      <3>1. n[t][i] \in Seq(Characters) /\ t \in ToSet(Types)
        BY <2>1, <2>2 DEF t
      <3>2. QED
        BY <3>1, WrittenIs
    <2> HIDE DEF S
    <2>5. cs[k] \in Seq(S) /\ Len(cs[k]) = Len(n[t])
      BY <2>2, <2>3, <2>4
    <2>6. QED
      BY <2>3, <2>5 DEF t
  <1>4. cs \in Seq(Seq(S)) /\ Len(cs) = 6
    <2>1. DOMAIN cs = 1 .. 6 /\ cs = [k \in 1 .. 6 |-> cs[k]]
      BY TypesAre
    <2>a. \A k \in 1 .. 6 : cs[k] \in Seq(S)
      BY <1>3
    <2> HIDE DEF cs, S
    <2>2. \A f : f = [k \in 1 .. 6 |-> cs[k]] => f \in Seq(Seq(S)) /\ Len(f) = 6
      BY <2>a
    <2>3. QED
      BY <2>1, <2>2
  <1> HIDE DEF cs
  <1>5. \A k \in 1 .. 6 : \A j \in 1 .. Len(cs[k]) : cs[k][j] = Written(Types[k], n[Types[k]][j])
    BY <1>3
  <1>6. RDNsByType(n, cs)
    BY <1>3, <1>4, <1>5 DEF RDNsByType
  <1>7. QED
    BY <1>1, <1>6

(* The types of the values of a name.                                      *)
LEMMA NameTyped ==
    ASSUME NEW n \in Names, NEW k \in 1 .. 6
    PROVE  /\ Types[k] \in ToSet(Types)
           /\ n[Types[k]] \in Seq(Seq(Characters))
           /\ Len(n[Types[k]]) \in Nat /\ DOMAIN n[Types[k]] = 1 .. Len(n[Types[k]])
           /\ \A j \in 1 .. Len(n[Types[k]]) : n[Types[k]][j] \in Seq(Characters)
  <1>1. Types[k] \in ToSet(Types)
    BY TypesAre
  <1> DEFINE t == Types[k]
  <1>2. t \in ToSet(Types)
    BY <1>1
  <1> HIDE DEF t
  <1>3. n[t] \in Seq(Seq(Characters))
    BY <1>2 DEF Names
  <1> DEFINE w == n[t]
  <1>4. w \in Seq(Seq(Characters))
    BY <1>3
  <1> HIDE DEF w
  <1>5. /\ Len(w) \in Nat /\ DOMAIN w = 1 .. Len(w)
        /\ \A j \in 1 .. Len(w) : w[j] \in Seq(Characters)
    BY <1>4
  <1>6. QED
    BY <1>2, <1>4, <1>5 DEF w, t

(* A name that is written is read as the same name.                        *)
RDNsOf(n, rdns) ==
    /\ rdns \in Seq(RDNs)
    /\ \A i \in 1 .. Len(rdns) : Valued(rdns)[i] \in Seq(Characters)
    /\ ~Fails(Valued(rdns))
    /\ \A t \in ToSet(Types) : Chosen(Valued(rdns), OfType(rdns, t)) = n[t]

(* The RDNs that ToRDNSequence returns are read as the same name.          *)
LEMMA NameWritten ==
    ASSUME NEW n \in Names, NEW rdns, rdns = ToRDNSequence(n)
    PROVE  /\ RDNsOf(n, rdns)
           /\ ParseName(rdns) = n
  <1>1. PICK cs : /\ RDNsByType(n, cs)
                  /\ rdns = FlattenSeq(cs)
    BY NameSplit
  <1>2. rdns = FlattenSeq(cs)
    BY <1>1
  <1> DEFINE S == RDNs
             m == Len(rdns)
  <1>3. /\ cs \in Seq(Seq(S))
        /\ Len(cs) = 6
        /\ \A k \in 1 .. 6 :
             /\ Len(cs[k]) = Len(n[Types[k]])
             /\ \A j \in 1 .. Len(cs[k]) : cs[k][j] = Written(Types[k], n[Types[k]][j])
    BY <1>1 DEF RDNsByType
  <1>n. n \in [ToSet(Types) -> Seq(Seq(Characters))]
    BY DEF Names
  <1> HIDE DEF S
  <1>4. PICK pos : Positions(cs, pos)
    BY <1>3, PositionsExist
  <1>5. /\ rdns \in Seq(S)
        /\ m = pos[7] - 1
        /\ \A k \in 1 .. 6 : \A j \in 1 .. Len(cs[k]) :
             /\ pos[k] + j - 1 \in 1 .. m
             /\ rdns[pos[k] + j - 1] = cs[k][j]
    <2>1. LaidOut(S, cs, pos, 6, rdns)
      BY <1>2, <1>3, <1>4, Layout
    <2>2. QED
      BY <2>1 DEF LaidOut
  <1>6. m \in Nat /\ DOMAIN rdns = 1 .. m
    BY <1>5
  <1>7. ASSUME NEW p \in 1 .. m
        PROVE  \E k \in 1 .. 6 : \E j \in 1 .. Len(cs[k]) : p = pos[k] + j - 1 /\ rdns[p] = cs[k][j]
    <2>1. p \in 1 .. Len(FlattenSeq(cs))
      BY <1>2
    <2>2. IsElement(cs, pos, p, FlattenSeq(cs)[p])
      BY <1>3, <1>4, <2>1, LayoutElement
    <2>3. QED
      BY <1>2, <1>3, <2>2 DEF IsElement
  <1>8. ASSUME NEW k \in 1 .. 6, NEW j \in 1 .. Len(cs[k])
        PROVE  /\ Types[k] \in ToSet(Types)
               /\ n[Types[k]] \in Seq(Seq(Characters))
               /\ j \in 1 .. Len(n[Types[k]])
               /\ n[Types[k]][j] \in Seq(Characters)
               /\ cs[k][j] = Written(Types[k], n[Types[k]][j])
    <2>1. /\ Types[k] \in ToSet(Types)
          /\ n[Types[k]] \in Seq(Seq(Characters))
          /\ \A i \in 1 .. Len(n[Types[k]]) : n[Types[k]][i] \in Seq(Characters)
      BY NameTyped
    <2>2. Len(cs[k]) = Len(n[Types[k]]) /\ cs[k][j] = Written(Types[k], n[Types[k]][j])
      BY <1>3, Zenon
    <2>3. QED
      BY <2>1, <2>2, Zenon
  <1>9. ASSUME NEW k \in 1 .. 6, NEW j \in 1 .. Len(cs[k])
        PROVE  /\ pos[k] + j - 1 \in 1 .. m
               /\ rdns[pos[k] + j - 1] \in RDNs
               /\ rdns[pos[k] + j - 1].type = Types[k]
               /\ Valued(rdns)[pos[k] + j - 1] = n[Types[k]][j]
    <2> DEFINE p == pos[k] + j - 1
               v == n[Types[k]][j]
    <2>1. p \in 1 .. m /\ p \in DOMAIN rdns /\ rdns[p] = Written(Types[k], v)
          /\ v \in Seq(Characters) /\ Types[k] \in ToSet(Types)
      BY <1>5, <1>6, <1>8
    <2> HIDE DEF p, v
    <2>3. rdns[p] \in RDNs /\ rdns[p].type = Types[k] /\ rdns[p].avas = 1
          /\ parseDirectoryString(rdns[p].value) = v
      BY <2>1, WrittenIs
    <2>4. Valued(rdns)[p] = v
      BY <2>1, <2>3 DEF Valued
    <2>5. QED
      BY <2>1, <2>3, <2>4 DEF p, v
  <1>10. ASSUME NEW p \in 1 .. m
         PROVE  rdns[p] \in RDNs /\ Valued(rdns)[p] \in Seq(Characters)
    <2>1. PICK k \in 1 .. 6 : \E j \in 1 .. Len(cs[k]) : p = pos[k] + j - 1
      BY <1>7
    <2>2. PICK j \in 1 .. Len(cs[k]) : p = pos[k] + j - 1
      BY <2>1
    <2>3. QED
      BY <1>8, <1>9, <2>2
  <1>11. rdns \in Seq(RDNs)
    <2>1. rdns = [p \in 1 .. m |-> rdns[p]]
      BY <1>5, <1>6
    <2> HIDE DEF m
    <2>2. \A f : f = [p \in 1 .. m |-> rdns[p]] => f \in Seq(RDNs)
      BY <1>6, <1>10
    <2>3. QED
      BY <2>1, <2>2
  <1>12. ~Fails(Valued(rdns))
    <2>1. DOMAIN Valued(rdns) = 1 .. m
      BY <1>6 DEF Valued
    <2>2. Error \notin Seq(Characters)
      BY TypeAssumption DEF NoValue
    <2>3. QED
      BY <1>10, <2>1, <2>2 DEF Fails
  <1>13. Valued(rdns) \in Seq(Seq(Characters)) /\ Len(Valued(rdns)) = m
    <2>1. Valued(rdns) = [p \in 1 .. m |-> Valued(rdns)[p]]
      BY <1>6 DEF Valued
    <2> HIDE DEF m
    <2>2. \A f : f = [p \in 1 .. m |-> Valued(rdns)[p]] => f \in Seq(Seq(Characters)) /\ Len(f) = m
      BY <1>6, <1>10
    <2>3. QED
      BY <2>1, <2>2
  <1>14. ASSUME NEW k \in 1 .. 6
         PROVE  Chosen(Valued(rdns), OfType(rdns, Types[k])) = n[Types[k]]
    <2> DEFINE w == n[Types[k]]
               a == pos[k] - 1
               K == OfType(rdns, Types[k])
    <2>1. w \in Seq(Seq(Characters)) /\ Len(w) \in Nat /\ Len(cs[k]) = Len(w)
      <3>1. Len(cs[k]) = Len(w)
        BY <1>3, Zenon
      <3>2. QED
        BY <3>1, NameTyped, Zenon
    <2>2. pos[k] \in Nat \ {0} /\ pos[k + 1] = pos[k] + Len(cs[k]) /\ pos[k + 1] \in Nat /\ pos[7] \in Nat
      <3>1. /\ pos \in [1 .. Len(cs) + 1 -> Nat \ {0}]
            /\ \A i \in 1 .. Len(cs) : pos[i + 1] = pos[i] + Len(cs[i])
        BY <1>4 DEF Positions
      <3>2. Len(cs) = 6 /\ k \in 1 .. 7 /\ k + 1 \in 1 .. 7 /\ 7 \in 1 .. 7 /\ 6 + 1 = 7
        BY <1>3
      <3>3. pos \in [1 .. 7 -> Nat \ {0}] /\ \A i \in 1 .. 6 : pos[i + 1] = pos[i] + Len(cs[i])
        BY <3>1, <3>2
      <3>4. QED
        BY <3>2, <3>3
    <2>3. pos[k + 1] <= pos[7]
      <3>1. k + 1 \in 1 .. Len(cs) + 1 /\ 7 \in k + 1 .. Len(cs) + 1
        BY <1>3
      <3>2. QED
        BY <1>3, <1>4, <3>1, PositionsGrow
    <2> HIDE DEF w
    <2>4. a \in Nat /\ a + Len(w) <= m
      <3>1. m = pos[7] - 1
        BY <1>5
      <3> HIDE DEF m
      <3>a. \A x \in Nat \ {0}, y \in Nat, z \in Nat, l \in Nat :
               y = x + l /\ y <= z => x - 1 \in Nat /\ (x - 1) + l <= z - 1
        OBVIOUS
      <3>2. /\ pos[k] \in Nat \ {0} /\ pos[k + 1] \in Nat /\ pos[7] \in Nat /\ Len(w) \in Nat
            /\ pos[k + 1] = pos[k] + Len(w) /\ pos[k + 1] <= pos[7]
        BY <2>1, <2>2, <2>3, Zenon
      <3>3. pos[k] - 1 \in Nat /\ (pos[k] - 1) + Len(w) <= pos[7] - 1
        BY <3>a, <3>2, Zenon
      <3>4. QED
        BY <3>1, <3>3
    <2>5. \A j \in 1 .. Len(w) : a + j = pos[k] + j - 1
      BY <2>1, <2>2
    <2>6. \A j \in 1 .. Len(w) :
             a + j \in 1 .. m /\ Valued(rdns)[a + j] = w[j] /\ rdns[a + j].type = Types[k]
      <3>1. ASSUME NEW j \in 1 .. Len(w)
            PROVE  a + j \in 1 .. m /\ Valued(rdns)[a + j] = w[j] /\ rdns[a + j].type = Types[k]
        <4>1. j \in 1 .. Len(cs[k]) /\ a + j = pos[k] + j - 1
          BY <2>1, <2>5, Zenon
        <4> HIDE DEF a
        <4>2. QED
          BY <1>9, <4>1, Zenon DEF w
      <3>2. QED
        BY <3>1, Zenon
    <2> HIDE DEF a
    <2>7. K = a + 1 .. a + Len(w)
      <3>1. ASSUME NEW p \in K
            PROVE  p \in a + 1 .. a + Len(w)
        <4>1. p \in 1 .. m /\ rdns[p].type = Types[k]
          BY <1>6 DEF OfType
        <4>2. PICK l \in 1 .. 6 : \E j \in 1 .. Len(cs[l]) : p = pos[l] + j - 1
          BY <1>7, <4>1
        <4>3. PICK j \in 1 .. Len(cs[l]) : p = pos[l] + j - 1
          BY <4>2
        <4>4. rdns[p].type = Types[l]
          BY <1>9, <4>3
        <4>5. l = k
          BY <4>1, <4>4, TypesAre
        <4>6. j \in 1 .. Len(w) /\ p = a + j
          BY <2>1, <2>5, <4>3, <4>5
        <4>7. QED
          BY <2>1, <2>4, <4>6
      <3>2. ASSUME NEW p \in a + 1 .. a + Len(w)
            PROVE  p \in K
        <4>1. p - a \in 1 .. Len(w) /\ a + (p - a) = p
          BY <2>1, <2>4
        <4>2. p \in 1 .. m /\ rdns[p].type = Types[k]
          BY <2>6, <4>1
        <4>3. QED
          BY <1>6, <4>2 DEF OfType
      <3> HIDE DEF K
      <3>3. QED
        BY <3>1, <3>2
    <2>8. \A j \in 1 .. Len(w) : Valued(rdns)[a + j] = w[j]
      BY <2>6
    <2> DEFINE v == Valued(rdns)
    <2>9. v \in Seq(Seq(Characters)) /\ a + Len(w) <= Len(v) /\ \A j \in 1 .. Len(w) : v[a + j] = w[j]
      BY <1>13, <2>4, <2>8
    <2> HIDE DEF K, v
    <2>10. Chosen(v, K) = w
      BY <2>1, <2>4, <2>7, <2>9, ChosenInterval
    <2>11. QED
      BY <2>10 DEF K, v, w
  <1>15. \A t \in ToSet(Types) : Chosen(Valued(rdns), OfType(rdns, t)) = n[t]
    BY <1>14, TypesAre
  <1>16. RDNsOf(n, rdns)
    BY <1>10, <1>11, <1>12, <1>15 DEF RDNsOf
  <1>17. ParseName(rdns) = n
    <2> DEFINE r == ParseName(rdns)
    <2>1. NameOf(rdns, r)
      <3> HIDE DEF m
      <3>1. m \in Nat /\ DOMAIN rdns = 1 .. m /\ Len(rdns) = m
        BY <1>6 DEF m
      <3>2. QED
        BY <1>10, <1>12, <3>1, NameParsed
    <2> HIDE DEF r
    <2>2. /\ r \in Names
          /\ \A t \in ToSet(Types) \ {"CN"} : r[t] = n[t]
          /\ r["CN"] = CommonName(n["CN"])
      BY <1>15, <2>1, TypesAre DEF NameOf
    <2>3. CommonName(n["CN"]) = n["CN"]
      <3>1. n["CN"] \in Seq(Seq(Characters)) /\ Len(n["CN"]) <= 1 /\ <<>> \notin ToSet(n["CN"])
        BY TypesAre DEF Names, IsName
      <3> DEFINE c == n["CN"]
      <3>2. CASE c = <<>>
        BY <3>2 DEF CommonName
      <3>3. CASE c # <<>>
        <4>a. c \in Seq(Seq(Characters)) /\ Len(c) <= 1 /\ c # <<>>
          BY <3>1, <3>3
        <4> HIDE DEF c
        <4>1. Len(c) = 1 /\ DOMAIN c = {1} /\ c = <<c[1]>>
          BY <4>a, OneElement
        <4>2. c[1] # <<>>
          BY <3>1, <4>1 DEF ToSet, c
        <4>3. CommonName(c) = c
          BY <4>a, <4>1, <4>2 DEF CommonName
        <4>4. QED
          BY <4>3 DEF c
      <3>4. QED
        BY <3>2, <3>3
    <2>4. \A t \in ToSet(Types) : r[t] = n[t]
      BY <2>2, <2>3
    <2>5. r \in [ToSet(Types) -> Seq(Seq(Characters))]
      BY <2>2 DEF Names
    <2>6. r = n
      BY <1>n, <2>4, <2>5
    <2>7. QED
      BY <2>6 DEF r
  <1>18. QED
    BY <1>16, <1>17

(* Every name can be written, one that is not UTF-8 too.                   *)
LEMMA NameWritable ==
    ASSUME NEW n \in Names
    PROVE  ToRDNSequence(n) # Error
  <1>1. ToRDNSequence(n) \in Seq(RDNs)
    BY NameWritten DEF RDNsOf
  <1>2. QED
    BY <1>1, TypeAssumption DEF NoValue

-----------------------------------------------------------------------------
(* Lemmas about alternative names *)

(* A sequence of elements of T. *)
LEMMA Narrowed ==
    ASSUME NEW S, NEW T, NEW s \in Seq(S), ToSet(s) \subseteq T
    PROVE  s \in Seq(T)
  <1>1. s = [i \in 1 .. Len(s) |-> s[i]] /\ DOMAIN s = 1 .. Len(s) /\ Len(s) \in Nat
    OBVIOUS
  <1>2. \A i \in 1 .. Len(s) : s[i] \in T
    BY <1>1 DEF ToSet
  <1>3. \A l \in Nat : \A f : (\A p \in 1 .. l : s[p] \in T) /\ f = [p \in 1 .. l |-> s[p]]
                                => f \in Seq(T)
    OBVIOUS
  <1>4. QED
    BY <1>1, <1>2, <1>3

(* A sequence given by its elements. *)
LEMMA SequenceOf ==
    ASSUME NEW T, NEW l \in Nat, NEW f, DOMAIN f = 1 .. l, f = [i \in 1 .. l |-> f[i]],
           \A i \in 1 .. l : f[i] \in T
    PROVE  f \in Seq(T) /\ Len(f) = l
  <1>1. \A h : (\A p \in 1 .. l : f[p] \in T) /\ h = [p \in 1 .. l |-> f[p]]
                 => h \in Seq(T) /\ Len(h) = l
    OBVIOUS
  <1>2. QED
    BY <1>1

(* The addresses of a certificate. *)
Stored(ips) == [i \in DOMAIN ips |-> To4(ips[i])]

(* They are as many as were asked for, and of the same types.              *)
LEMMA StoredAre ==
    ASSUME NEW ips \in Seq(Hosts({4, 16}))
    PROVE  /\ Stored(ips) \in Seq(Hosts({4, 16}))
           /\ Len(Stored(ips)) = Len(ips)
           /\ Stored(ips) = <<>> <=> ips = <<>>
           /\ ToSet(Stored(ips)) = {To4(ip) : ip \in ToSet(ips)}
  <1>1. \A ip \in Hosts({4, 16}) : To4(ip) \in Hosts({4, 16})
    BY DEF Hosts, To4
  <1>2. DOMAIN ips = 1 .. Len(ips) /\ Len(ips) \in Nat
    OBVIOUS
  <1>3. /\ DOMAIN Stored(ips) = 1 .. Len(ips)
        /\ Stored(ips) = [i \in 1 .. Len(ips) |-> Stored(ips)[i]]
        /\ \A i \in 1 .. Len(ips) : Stored(ips)[i] = To4(ips[i])
    BY <1>2 DEF Stored
  <1>4. \A i \in 1 .. Len(ips) : Stored(ips)[i] \in Hosts({4, 16})
    BY <1>1, <1>3
  <1>5. Stored(ips) \in Seq(Hosts({4, 16})) /\ Len(Stored(ips)) = Len(ips)
    BY <1>2, <1>3, <1>4, SequenceOf
  <1>6. ToSet(Stored(ips)) = {To4(ip) : ip \in ToSet(ips)}
    <2>1. ToSet(Stored(ips)) = {To4(ips[i]) : i \in 1 .. Len(ips)}
      BY <1>3 DEF ToSet
    <2>2. ToSet(ips) = {ips[i] : i \in 1 .. Len(ips)}
      BY <1>2 DEF ToSet
    <2>3. QED
      BY <2>1, <2>2, Zenon
  <1> DEFINE s == Stored(ips)
  <1>7. s \in Seq(Hosts({4, 16})) /\ Len(s) = Len(ips)
    BY <1>5
  <1> HIDE DEF s
  <1>8. s = <<>> <=> ips = <<>>
    BY <1>7
  <1>9. QED
    BY <1>5, <1>6, <1>8 DEF s

Tagged(tag, values) == [i \in DOMAIN values |-> [tag |-> tag, bytes |-> values[i]]]

TaggedWith(names, tag, values, G) ==
    /\ names \in Seq(G)
    /\ Len(names) = Len(values)
    /\ \A i \in 1 .. Len(values) : names[i].tag = tag /\ names[i].bytes = values[i]

(* The general names of one kind.                                          *)
LEMMA TaggedAre ==
    ASSUME NEW tag, NEW T, NEW values \in Seq(T), NEW G,
           \A x \in T : [tag |-> tag, bytes |-> x] \in G
    PROVE  TaggedWith(Tagged(tag, values), tag, values, G)
  <1>1. DOMAIN values = 1 .. Len(values) /\ Len(values) \in Nat
        /\ \A i \in 1 .. Len(values) : values[i] \in T
    OBVIOUS
  <1>2. /\ DOMAIN Tagged(tag, values) = 1 .. Len(values)
        /\ Tagged(tag, values) = [i \in 1 .. Len(values) |-> Tagged(tag, values)[i]]
        /\ \A i \in 1 .. Len(values) : Tagged(tag, values)[i] = [tag |-> tag, bytes |-> values[i]]
    BY <1>1 DEF Tagged
  <1>3. \A i \in 1 .. Len(values) : Tagged(tag, values)[i] \in G
    BY <1>1, <1>2
  <1>4. Tagged(tag, values) \in Seq(G) /\ Len(Tagged(tag, values)) = Len(values)
    BY <1>1, <1>2, <1>3, SequenceOf
  <1>5. QED
    BY <1>2, <1>4 DEF TaggedWith

ValuesOfTag(names, tag) ==
    Chosen([i \in DOMAIN names |-> names[i].bytes], {i \in DOMAIN names : names[i].tag = tag})

(* The names of one tag, when they stand one after another.                *)
StandAfter(names, tag, w, a) ==
    /\ a \in Nat /\ a + Len(w) <= Len(names)
    /\ \A i \in 1 .. Len(names) : names[i].tag = tag <=> i \in a + 1 .. a + Len(w)
    /\ \A j \in 1 .. Len(w) : names[a + j].bytes = w[j]

(* They are all that is chosen.                                            *)
LEMMA NamesOfTag ==
    ASSUME NEW S, NEW names \in Seq([tag : Int, bytes : S]), NEW w \in Seq(S),
           NEW a, NEW tag, StandAfter(names, tag, w, a)
    PROVE  ValuesOfTag(names, tag) = w
  <1>0. /\ a \in Nat /\ a + Len(w) <= Len(names)
        /\ \A i \in 1 .. Len(names) : names[i].tag = tag <=> i \in a + 1 .. a + Len(w)
        /\ \A j \in 1 .. Len(w) : names[a + j].bytes = w[j]
    BY DEF StandAfter
  <1> DEFINE v == [i \in DOMAIN names |-> names[i].bytes]
             K == {i \in DOMAIN names : names[i].tag = tag}
  <1>1. DOMAIN names = 1 .. Len(names) /\ Len(names) \in Nat /\ Len(w) \in Nat
    OBVIOUS
  <1>2. \A i \in 1 .. Len(names) : v[i] = names[i].bytes /\ v[i] \in S
    <2>1. \A i \in 1 .. Len(names) : v[i] = names[i].bytes
      BY <1>1
    <2> DEFINE H == [tag : Int, bytes : S]
    <2>a. names \in Seq(H)
      OBVIOUS
    <2>b. \A x \in H : x.bytes \in S
      OBVIOUS
    <2> HIDE DEF v, H
    <2>2. \A i \in 1 .. Len(names) : names[i] \in H
      BY <2>a
    <2>3. \A i \in 1 .. Len(names) : names[i].bytes \in S
      BY <2>2, <2>b
    <2>4. QED
      BY <2>1, <2>3
  <1>3. v \in Seq(S) /\ Len(v) = Len(names)
    <2>1. DOMAIN v = 1 .. Len(names) /\ v = [i \in 1 .. Len(names) |-> v[i]]
      BY <1>1
    <2> HIDE DEF v
    <2>2. QED
      BY <1>1, <1>2, <2>1, SequenceOf
  <1>4. K = a + 1 .. a + Len(w)
    <2>1. \A i \in a + 1 .. a + Len(w) : i \in 1 .. Len(names)
      BY <1>0, <1>1
    <2>2. \A i : i \in K <=> i \in 1 .. Len(names) /\ names[i].tag = tag
      BY <1>1
    <2> HIDE DEF K
    <2>3. \A i : i \in K <=> i \in a + 1 .. a + Len(w)
      BY <1>0, <2>1, <2>2, Zenon
    <2>4. QED
      BY <2>3
  <1>5. \A j \in 1 .. Len(w) : v[a + j] = w[j]
    <2>1. \A j \in 1 .. Len(w) : a + j \in 1 .. Len(names)
      BY <1>0, <1>1
    <2> HIDE DEF v
    <2>2. QED
      BY <1>0, <1>2, <2>1
  <1>6. a \in Nat /\ a + Len(w) <= Len(v)
    BY <1>0, <1>3
  <1> HIDE DEF v, K
  <1>7. Chosen(v, K) = w
    BY <1>3, <1>4, <1>5, <1>6, ChosenInterval
  <1>8. QED
    BY <1>7 DEF v, K, ValuesOfTag

(* Alternative names are read as they were written, an IPv4 address with   *)
(* its four bytes.                                                         *)
SANsReadAs(names, s) ==
    /\ names \in Seq(GeneralNames({4, 16}))
    /\ names # Error
    /\ parseSANs(names) = [dns |-> s.dns, email |-> s.email, ip |-> Stored(s.ip)]
    /\ parseSANs(names) \in AltNames

(* What marshalSANs writes is read as such.                                *)
LEMMA SANsRead ==
    ASSUME NEW s \in AltNames, s # EmptySANs
    PROVE  SANsReadAs(marshalSANs(s), s)
  <1> DEFINE G == GeneralNames({4, 16})
             dns == s.dns
             email == s.email
             ip == Stored(s.ip)
             d == Tagged(2, dns)
             e == Tagged(1, email)
             p == Tagged(7, ip)
             names == d \o e \o p
             S == Strings \cup Hosts({4, 16})
  <1>1. marshalSANs(s) = names
    BY DEF marshalSANs, Tagged, Stored
  <1>2. s.dns \in Seq(Strings) /\ s.email \in Seq(Strings) /\ s.ip \in Seq(Hosts({4, 16}))
    BY DEF AltNames
  <1>3. Stored(s.ip) \in Seq(Hosts({4, 16}))
    BY <1>2, StoredAre
  <1> DEFINE a == Len(dns)
             b == Len(email)
             c == Len(ip)
  <1>4. /\ \A x \in Strings : [tag |-> 2, bytes |-> x] \in G
        /\ \A x \in Strings : [tag |-> 1, bytes |-> x] \in G
        /\ \A x \in Hosts({4, 16}) : [tag |-> 7, bytes |-> x] \in G
    BY DEF GeneralNames
  <1>5. dns \in Seq(Strings) /\ email \in Seq(Strings) /\ ip \in Seq(Hosts({4, 16}))
    BY <1>2, <1>3
  <1> HIDE DEF G, dns, email, ip
  <1>6. /\ d \in Seq(G) /\ Len(d) = a
        /\ \A i \in 1 .. a : d[i].tag = 2 /\ d[i].bytes = dns[i]
    <2>1. dns \in Seq(Strings) /\ \A x \in Strings : [tag |-> 2, bytes |-> x] \in G
      BY <1>4, <1>5
    <2>2. TaggedWith(d, 2, dns, G)
      BY <2>1, TaggedAre
    <2>3. QED
      BY <2>2 DEF TaggedWith
  <1>7. /\ e \in Seq(G) /\ Len(e) = b
        /\ \A i \in 1 .. b : e[i].tag = 1 /\ e[i].bytes = email[i]
    <2>1. email \in Seq(Strings) /\ \A x \in Strings : [tag |-> 1, bytes |-> x] \in G
      BY <1>4, <1>5
    <2>2. TaggedWith(e, 1, email, G)
      BY <2>1, TaggedAre
    <2>3. QED
      BY <2>2 DEF TaggedWith
  <1>8. /\ p \in Seq(G) /\ Len(p) = c
        /\ \A i \in 1 .. c : p[i].tag = 7 /\ p[i].bytes = ip[i]
    <2>1. ip \in Seq(Hosts({4, 16})) /\ \A x \in Hosts({4, 16}) : [tag |-> 7, bytes |-> x] \in G
      BY <1>4, <1>5
    <2>2. TaggedWith(p, 7, ip, G)
      BY <2>1, TaggedAre
    <2>3. QED
      BY <2>2 DEF TaggedWith
  <1>9. a \in Nat /\ b \in Nat /\ c \in Nat
    BY <1>5
  <1> HIDE DEF d, e, p, a, b, c
  <1>t. d \in Seq(G) /\ Len(d) = a /\ e \in Seq(G) /\ Len(e) = b /\ p \in Seq(G) /\ Len(p) = c
    BY <1>6, <1>7, <1>8
  <1>10. names \in Seq(G) /\ Len(names) = a + b + c /\ DOMAIN names = 1 .. a + b + c
    BY <1>9, <1>t
  <1>11. \A i \in 1 .. a + b + c :
            names[i] = IF i <= a THEN d[i] ELSE IF i <= a + b THEN e[i - a] ELSE p[i - a - b]
    <2> DEFINE q == d \o e
    <2>1. /\ q \in Seq(G) /\ Len(q) = a + b
          /\ \A i \in 1 .. a + b : q[i] = IF i <= a THEN d[i] ELSE e[i - a]
      BY <1>9, <1>t
    <2> HIDE DEF q
    <2>2. \A i \in 1 .. a + b + c : (q \o p)[i] = IF i <= a + b THEN q[i] ELSE p[i - (a + b)]
      BY <1>9, <1>t, <2>1
    <2>3. ASSUME NEW i \in 1 .. a + b + c
          PROVE  (q \o p)[i] = IF i <= a THEN d[i] ELSE IF i <= a + b THEN e[i - a] ELSE p[i - a - b]
      <3>1. i - (a + b) = i - a - b /\ (i <= a => i <= a + b) /\ (i <= a + b => i \in 1 .. a + b)
        BY <1>9
      <3>2. (q \o p)[i] = IF i <= a + b THEN q[i] ELSE p[i - a - b]
        BY <2>2, <3>1
      <3>3. i <= a + b => q[i] = IF i <= a THEN d[i] ELSE e[i - a]
        BY <2>1, <3>1
      <3>4. QED
        BY <3>1, <3>2, <3>3, Zenon
    <2>4. QED
      BY <2>3 DEF q
  <1> HIDE DEF names
  <1>12. ASSUME NEW i \in 1 .. a + b + c
         PROVE  /\ i <= a => names[i].tag = 2 /\ names[i].bytes = dns[i]
                /\ i > a /\ i <= a + b => names[i].tag = 1 /\ names[i].bytes = email[i - a]
                /\ i > a + b => names[i].tag = 7 /\ names[i].bytes = ip[i - a - b]
    <2>1. CASE i <= a
      BY <1>6, <1>9, <1>11, <2>1
    <2>2. CASE i > a /\ i <= a + b
      <3>1. i - a \in 1 .. b /\ names[i] = e[i - a]
        BY <1>9, <1>11, <2>2
      <3>2. QED
        BY <1>7, <1>9, <2>2, <3>1
    <2>3. CASE i > a + b
      <3>1. i - a - b \in 1 .. c /\ names[i] = p[i - a - b]
        BY <1>9, <1>11, <2>3
      <3>2. QED
        BY <1>8, <1>9, <2>3, <3>1
    <2>4. QED
      BY <1>9, <2>1, <2>2, <2>3
  <1>13. names \in Seq([tag : Int, bytes : S])
    <2>1. G \subseteq [tag : Int, bytes : S]
      BY DEF G, GeneralNames
    <2> DEFINE H == [tag : Int, bytes : S]
    <2>2. G \subseteq H
      BY <2>1
    <2> HIDE DEF H
    <2>3. names \in Seq(H)
      BY <1>10, <2>2
    <2>4. QED
      BY <2>3 DEF H
  <1>14. dns \in Seq(S) /\ email \in Seq(S) /\ ip \in Seq(S)
    <2>1. Strings \subseteq S /\ Hosts({4, 16}) \subseteq S
      OBVIOUS
    <2> HIDE DEF S
    <2>2. QED
      BY <1>5, <2>1
  <1> HIDE DEF S
  <1>15. ValuesOfTag(names, 2) = dns
    <2>1. \A i \in 1 .. Len(names) : names[i].tag = 2 <=> i \in 0 + 1 .. 0 + Len(dns)
      BY <1>9, <1>10, <1>12 DEF a
    <2>2. \A j \in 1 .. Len(dns) : names[0 + j].bytes = dns[j]
      BY <1>9, <1>12 DEF a
    <2>3. 0 \in Nat /\ 0 + Len(dns) <= Len(names)
      BY <1>9, <1>10 DEF a
    <2>4. StandAfter(names, 2, dns, 0)
      BY <2>1, <2>2, <2>3 DEF StandAfter
    <2>5. QED
      BY <1>13, <1>14, <2>4, NamesOfTag
  <1>16. ValuesOfTag(names, 1) = email
    <2>1. \A i \in 1 .. Len(names) : names[i].tag = 1 <=> i \in a + 1 .. a + Len(email)
      BY <1>9, <1>10, <1>12 DEF b
    <2>2. \A j \in 1 .. Len(email) : names[a + j].bytes = email[j]
      <3>1. ASSUME NEW j \in 1 .. Len(email)
            PROVE  names[a + j].bytes = email[j]
        <4>1. a + j \in 1 .. a + b + c /\ a + j > a /\ a + j <= a + b /\ (a + j) - a = j
          BY <1>9 DEF b
        <4>2. QED
          BY <1>12, <4>1
      <3>2. QED
        BY <3>1
    <2>3. a \in Nat /\ a + Len(email) <= Len(names)
      BY <1>9, <1>10 DEF b
    <2>4. StandAfter(names, 1, email, a)
      BY <2>1, <2>2, <2>3 DEF StandAfter
    <2>5. QED
      BY <1>13, <1>14, <2>4, NamesOfTag
  <1>17. ValuesOfTag(names, 7) = ip
    <2>1. \A i \in 1 .. Len(names) : names[i].tag = 7 <=> i \in (a + b) + 1 .. (a + b) + Len(ip)
      BY <1>9, <1>10, <1>12 DEF c
    <2>2. \A j \in 1 .. Len(ip) : names[(a + b) + j].bytes = ip[j]
      <3>1. ASSUME NEW j \in 1 .. Len(ip)
            PROVE  names[(a + b) + j].bytes = ip[j]
        <4>1. (a + b) + j \in 1 .. a + b + c /\ (a + b) + j > a + b /\ ((a + b) + j) - a - b = j
          BY <1>9 DEF c
        <4>2. QED
          BY <1>12, <4>1
      <3>2. QED
        BY <3>1
    <2>3. a + b \in Nat /\ (a + b) + Len(ip) <= Len(names)
      BY <1>9, <1>10 DEF c
    <2>4. StandAfter(names, 7, ip, a + b)
      BY <2>1, <2>2, <2>3 DEF StandAfter
    <2>5. QED
      BY <1>13, <1>14, <2>4, NamesOfTag
  <1>18. ~ \E i \in DOMAIN names :
              \/ names[i].tag \notin {1, 2, 7}
              \/ names[i].tag = 7 /\ names[i].bytes.size \notin {4, 16}
    <2>1. ASSUME NEW i \in DOMAIN names
          PROVE  names[i].tag \in {1, 2, 7} /\ (names[i].tag = 7 => names[i].bytes.size \in {4, 16})
      <3>1. i \in 1 .. a + b + c
        BY <1>10
      <3>2. CASE i <= a
        BY <1>9, <1>12, <3>1, <3>2
      <3>3. CASE i > a /\ i <= a + b
        BY <1>9, <1>12, <3>1, <3>3
      <3>4. CASE i > a + b
        <4>1. names[i].tag = 7 /\ names[i].bytes = ip[i - a - b] /\ i - a - b \in 1 .. Len(ip)
          BY <1>9, <1>12, <3>1, <3>4 DEF c
        <4>2. ip[i - a - b] \in Hosts({4, 16})
          BY <1>5, <4>1
        <4>3. QED
          BY <4>1, <4>2 DEF Hosts
      <3>5. QED
        BY <1>9, <3>1, <3>2, <3>3, <3>4
    <2>2. QED
      BY <2>1
  <1>19. names # Error /\ names \in Seq(GeneralNames({4, 16}))
    <2>1. Error \notin ExtensionValues
      BY TypeAssumption DEF NoValue
    <2>2. names \in Seq(GeneralNames({4, 16}))
      BY <1>10 DEF G
    <2>3. QED
      BY <2>1, <2>2 DEF ExtensionValues
  <1>20. parseSANs(names) = [dns |-> ValuesOfTag(names, 2), email |-> ValuesOfTag(names, 1),
                             ip |-> ValuesOfTag(names, 7)]
    BY <1>18, <1>19 DEF parseSANs, ValuesOfTag
  <1>21. parseSANs(names) = [dns |-> dns, email |-> email, ip |-> ip]
    BY <1>15, <1>16, <1>17, <1>20
  <1>22. parseSANs(names) \in AltNames
    BY <1>5, <1>21 DEF AltNames
  <1>23. QED
    BY <1>1, <1>19, <1>21, <1>22 DEF SANsReadAs, dns, email, ip

(* What is read of any general names has their types, and all of them.     *)
BytesOf(names, tag) == {names[i].bytes : i \in {j \in DOMAIN names : names[j].tag = tag}}

(* What parseSANs returns of any general names.                            *)
LEMMA SANsParsed ==
    ASSUME NEW names \in Seq(GeneralNames(Nat)), NEW r, r = parseSANs(names), r # Error
    PROVE  /\ r \in AltNames
           /\ ToSet(r.dns) = BytesOf(names, 2)
           /\ ToSet(r.email) = BytesOf(names, 1)
           /\ ToSet(r.ip) = BytesOf(names, 7)
  <1> DEFINE S == Strings \cup Hosts(Nat)
             v == [i \in DOMAIN names |-> names[i].bytes]
             K(tag) == {i \in DOMAIN names : names[i].tag = tag}
  <1>1. /\ r = [dns |-> Chosen(v, K(2)), email |-> Chosen(v, K(1)), ip |-> Chosen(v, K(7))]
        /\ \A i \in DOMAIN names : names[i].tag = 7 => names[i].bytes.size \in {4, 16}
    BY DEF parseSANs
  <1>2. DOMAIN names = 1 .. Len(names) /\ Len(names) \in Nat
        /\ \A i \in 1 .. Len(names) : names[i] \in GeneralNames(Nat)
    OBVIOUS
  <1>3. ASSUME NEW i \in 1 .. Len(names)
        PROVE  /\ v[i] = names[i].bytes
               /\ v[i] \in S
               /\ names[i].tag # 7 => v[i] \in Strings
               /\ names[i].tag = 7 => v[i] \in Hosts({4, 16})
    <2>1. v[i] = names[i].bytes /\ names[i] \in GeneralNames(Nat)
      BY <1>2
    <2>2. names[i].tag = 7 => names[i].bytes.size \in {4, 16}
      BY <1>1, <1>2
    <2> HIDE DEF v
    <2>3. names[i] \in [tag : Int \ {7}, bytes : Strings] \/ names[i] \in [tag : {7}, bytes : Hosts(Nat)]
      BY <2>1 DEF GeneralNames
    <2>4. CASE names[i] \in [tag : Int \ {7}, bytes : Strings]
      BY <2>1, <2>4
    <2>5. CASE names[i] \in [tag : {7}, bytes : Hosts(Nat)]
      <3>1. names[i].tag = 7 /\ names[i].bytes \in Hosts(Nat)
        BY <2>5
      <3> DEFINE h == names[i].bytes
      <3>2. h \in Hosts(Nat) /\ h.size \in {4, 16}
        BY <2>2, <3>1
      <3> HIDE DEF h
      <3>3. h \in Hosts({4, 16})
        BY <3>2 DEF Hosts
      <3>4. QED
        BY <2>1, <3>1, <3>2, <3>3 DEF h
    <2>6. QED
      BY <2>3, <2>4, <2>5
  <1>4. v \in Seq(S) /\ Len(v) = Len(names)
    <2>1. DOMAIN v = 1 .. Len(names) /\ v = [i \in 1 .. Len(names) |-> v[i]]
      BY <1>2
    <2>2. \A i \in 1 .. Len(names) : v[i] \in S
      BY <1>3
    <2> HIDE DEF v, S
    <2>3. QED
      BY <1>2, <2>1, <2>2, SequenceOf
  <1>5. ASSUME NEW tag
        PROVE  /\ Chosen(v, K(tag)) \in Seq(S)
               /\ ToSet(Chosen(v, K(tag))) = BytesOf(names, tag)
               /\ ToSet(Chosen(v, K(tag))) = {v[i] : i \in K(tag)}
    <2>1. K(tag) \subseteq 1 .. Len(v)
      BY <1>2, <1>4
    <2>2. BytesOf(names, tag) = {v[i] : i \in K(tag)}
      BY DEF BytesOf
    <2> DEFINE k == K(tag)
    <2>3. k \subseteq 1 .. Len(v) /\ BytesOf(names, tag) = {v[i] : i \in k}
      BY <2>1, <2>2
    <2> HIDE DEF k, v, S
    <2>4. Chosen(v, k) \in Seq(S) /\ ToSet(Chosen(v, k)) = {v[i] : i \in k}
      BY <1>4, <2>3, ChosenElements
    <2>5. QED
      BY <2>3, <2>4 DEF k
  <1>6. ASSUME NEW T, NEW tag, \A i \in 1 .. Len(names) : names[i].tag = tag => v[i] \in T
        PROVE  Chosen(v, K(tag)) \in Seq(T)
    <2>1. \A i \in K(tag) : v[i] \in T
      BY <1>2, <1>6
    <2>a. ToSet(Chosen(v, K(tag))) = {v[i] : i \in K(tag)}
      BY <1>5
    <2> HIDE DEF K, v
    <2>2. ToSet(Chosen(v, K(tag))) \subseteq T
      BY <2>1, <2>a, Zenon
    <2> DEFINE c == Chosen(v, K(tag))
    <2>3. c \in Seq(S) /\ ToSet(c) \subseteq T
      BY <1>5, <2>2
    <2> HIDE DEF c, S
    <2>4. c \in Seq(T)
      BY <2>3, Narrowed
    <2>5. QED
      BY <2>4 DEF c
  <1>a. \A i \in 1 .. Len(names) : names[i].tag = 2 \/ names[i].tag = 1 => v[i] \in Strings
    <2> HIDE DEF v
    <2>1. \A i \in 1 .. Len(names) : names[i].tag # 7 => v[i] \in Strings
      BY <1>3
    <2>2. QED
      BY <2>1
  <1>7. Chosen(v, K(2)) \in Seq(Strings)
    <2>1. \A i \in 1 .. Len(names) : names[i].tag = 2 => v[i] \in Strings
      BY <1>a
    <2> HIDE DEF v, K
    <2>2. QED
      BY <1>6, <2>1
  <1>8. Chosen(v, K(1)) \in Seq(Strings)
    <2>1. \A i \in 1 .. Len(names) : names[i].tag = 1 => v[i] \in Strings
      BY <1>a
    <2> HIDE DEF v, K
    <2>2. QED
      BY <1>6, <2>1
  <1>9. Chosen(v, K(7)) \in Seq(Hosts({4, 16}))
    BY <1>3, <1>6
  <1> DEFINE d == Chosen(v, K(2))
             e == Chosen(v, K(1))
             p == Chosen(v, K(7))
  <1>10. d \in Seq(Strings) /\ e \in Seq(Strings) /\ p \in Seq(Hosts({4, 16}))
    BY <1>7, <1>8, <1>9
  <1>11. ToSet(d) = BytesOf(names, 2) /\ ToSet(e) = BytesOf(names, 1) /\ ToSet(p) = BytesOf(names, 7)
    BY <1>5
  <1>12. r = [dns |-> d, email |-> e, ip |-> p]
    BY <1>1
  <1> HIDE DEF d, e, p
  <1>13. r \in AltNames
    BY <1>10, <1>12 DEF AltNames
  <1>14. QED
    BY <1>11, <1>12, <1>13

-----------------------------------------------------------------------------
(* Lemmas about keys and signatures *)

PublicKeys == {k \in Keys : k.bytes.size = Info[k.alg].pk}
Signers == [alg : DOMAIN Info, id : Strings]

(* The sizes of signatures and keys are numbers.                           *)
LEMMA Sizes == \A alg \in DOMAIN Info : Info[alg].sig \in Nat /\ Info[alg].pk \in Nat
  <1>1. \A info \in algorithms : info.sig \in Nat /\ info.pk \in Nat
    BY DEF algorithms
  <1>2. ASSUME NEW alg \in DOMAIN Info
        PROVE  Info[alg] \in algorithms
    BY DEF Info
  <1>3. QED
    BY <1>1, <1>2

(* The public key of a pair has the size of its algorithm.                 *)
LEMMA PublicKeyIs ==
    ASSUME NEW pair \in Signers
    PROVE  Public(pair) \in PublicKeys /\ Public(pair).alg = pair.alg
  <1>1. pair.alg \in DOMAIN Info /\ pair.id \in Strings /\ Info[pair.alg].pk \in Nat
    BY Sizes DEF Signers
  <1> DEFINE size == Info[pair.alg].pk
             alg == pair.alg
  <1>2. size \in Nat /\ alg \in DOMAIN Info /\ pair.id \in Strings /\ Info[alg].pk = size
    BY <1>1
  <1>3. Public(pair) = [alg |-> alg, bytes |-> [id |-> pair.id, size |-> size]]
    BY DEF Public
  <1> HIDE DEF size, alg
  <1>4. Public(pair) \in Keys /\ Public(pair).bytes.size = size /\ Public(pair).alg = alg
    BY <1>2, <1>3 DEF Keys, KeyBytes
  <1>5. QED
    BY <1>2, <1>4 DEF PublicKeys, alg

(* A public key can be marshalled, and is read as the same key.            *)
LEMMA KeyMarshalled ==
    ASSUME NEW pub \in PublicKeys
    PROVE  /\ MarshalPKIXPublicKey(pub) \in SubjectKeys
           /\ MarshalPKIXPublicKey(pub) # Error
           /\ publicKeyFromSPKI(MarshalPKIXPublicKey(pub)) = pub
           /\ MarshalPKIXPublicKey(pub).alg.oid = pub.alg
           /\ pub \in Keys /\ pub.alg \in DOMAIN Info /\ pub # Error
           /\ pub.bytes \in KeyBytes
  <1>1. pub \in Keys /\ pub.bytes.size = Info[pub.alg].pk
    BY DEF PublicKeys
  <1>2. /\ pub.alg \in DOMAIN Info /\ pub.bytes \in KeyBytes
        /\ pub = [alg |-> pub.alg, bytes |-> pub.bytes]
    BY <1>1 DEF Keys
  <1> DEFINE spki == [alg |-> Identifier(pub.alg), bytes |-> pub.bytes, unused |-> FALSE]
  <1>3. MarshalPKIXPublicKey(pub) = spki
    BY <1>1, <1>2 DEF MarshalPKIXPublicKey, Valid
  <1>4. spki \in SubjectKeys
    BY <1>2 DEF SubjectKeys, Identifiers, Identifier
  <1>5. spki.alg.oid = pub.alg /\ ~spki.alg.params /\ ~spki.unused /\ spki.bytes = pub.bytes
    BY DEF Identifier
  <1>6. Error \notin SubjectKeys /\ Error \notin Keys
    BY TypeAssumption DEF NoValue
  <1> HIDE DEF spki
  <1>7. publicKeyFromSPKI(spki) = [alg |-> pub.alg, bytes |-> pub.bytes]
    BY <1>1, <1>2, <1>5 DEF publicKeyFromSPKI, Valid
  <1>8. QED
    BY <1>1, <1>2, <1>3, <1>4, <1>5, <1>6, <1>7

(* A signature has the algorithm and the size of its key.                  *)
LEMMA SignatureIs ==
    ASSUME NEW pair \in Signers, NEW T, NEW msg \in T
    PROVE  /\ Sign(pair, msg) \in Signatures(T)
           /\ Identifier(pair.alg) \in Identifiers
           /\ Identifier(pair.alg).oid = pair.alg /\ ~Identifier(pair.alg).params
           /\ Sign(pair, msg).over = msg /\ Sign(pair, msg).by = Public(pair)
           /\ Sign(pair, msg).size = Info[pair.alg].sig
           /\ ~Sign(pair, msg).unused
           /\ Valid(pair.alg)
  <1>1. Public(pair) \in Keys /\ pair.alg \in DOMAIN Info
    BY PublicKeyIs DEF PublicKeys, Signers
  <1> DEFINE size == Info[pair.alg].sig
             pub == Public(pair)
  <1>2. size \in Nat /\ pub \in Keys
    BY <1>1, Sizes
  <1>3. Sign(pair, msg) = [by |-> pub, over |-> msg, size |-> size, unused |-> FALSE]
    BY DEF Sign
  <1> HIDE DEF size, pub
  <1>4. /\ Sign(pair, msg) \in Signatures(T)
        /\ Sign(pair, msg).over = msg /\ Sign(pair, msg).by = pub
        /\ Sign(pair, msg).size = size
        /\ ~Sign(pair, msg).unused
    BY <1>2, <1>3 DEF Signatures
  <1>5. /\ Identifier(pair.alg) \in Identifiers
        /\ Identifier(pair.alg).oid = pair.alg /\ ~Identifier(pair.alg).params
    BY <1>1 DEF Identifier, Identifiers
  <1>6. QED
    BY <1>1, <1>4, <1>5 DEF Valid, size, pub

-----------------------------------------------------------------------------
(* Lemmas about the values of extensions *)

(* Key usages are read as they were written, the bit of cRLSign too.       *)
LEMMA UsagesRead ==
    ASSUME NEW ku \in SUBSET KeyUsageBits, ku # {}
    PROVE  /\ marshalKeyUsage(ku) \in WrittenUsages
           /\ marshalKeyUsage(ku) # Error
           /\ parseKeyUsage(marshalKeyUsage(ku)) = ku
           /\ ku # Error
  <1>1. Max(ku) \in ku /\ \A i \in ku : i <= Max(ku)
    <2>1. 8 \in Int /\ ku \subseteq 0 .. 8
      BY DEF KeyUsageBits
    <2>2. QED
      BY <2>1, MaxIs
  <1> DEFINE m == Max(ku)
  <1>2. m \in 0 .. 8 /\ \A i \in ku : i \in 0 .. 8 /\ i <= m
    BY <1>1 DEF KeyUsageBits
  <1>3. marshalKeyUsage(ku) = [bits |-> ku, length |-> m + 1]
    BY DEF marshalKeyUsage
  <1> HIDE DEF m
  <1>4. marshalKeyUsage(ku) \in WrittenUsages
    <2>1. m + 1 \in Nat
      BY <1>2
    <2>2. QED
      BY <1>3, <2>1 DEF WrittenUsages
  <1>5. marshalKeyUsage(ku) # Error /\ ku # Error
    BY <1>4, TypeAssumption DEF NoValue, ExtensionValues
  <1>6. parseKeyUsage(marshalKeyUsage(ku)) = {bit \in ku : bit < 16 /\ bit < m + 1}
    BY <1>3, <1>5 DEF parseKeyUsage
  <1>7. \A bit \in ku : bit < 16 /\ bit < m + 1
    BY <1>2
  <1>8. QED
    BY <1>4, <1>5, <1>6, <1>7

(* Extended key usages that are known can be written, and are read again.  *)
LEMMA ExtUsagesRead ==
    ASSUME NEW ekus \in Seq(Strings)
    PROVE  /\ ToSet(ekus) \subseteq KnownUsages => marshalExtKeyUsage(ekus) = ekus
           /\ ekus # Error
           /\ marshalExtKeyUsage(ekus) # Error =>
                /\ marshalExtKeyUsage(ekus) = ekus
                /\ parseExtKeyUsage(ekus) = ekus
  <1>1. ekus # Error /\ ekus \in ExtensionValues
    BY TypeAssumption DEF NoValue, ExtensionValues
  <1>2. ASSUME marshalExtKeyUsage(ekus) # Error
        PROVE  marshalExtKeyUsage(ekus) = ekus /\ parseExtKeyUsage(ekus) = ekus
    <2>1. ToSet(ekus) \subseteq KnownUsages /\ marshalExtKeyUsage(ekus) = ekus
      BY <1>2 DEF marshalExtKeyUsage
    <2> DEFINE K == {i \in DOMAIN ekus : ekus[i] \in KnownUsages}
    <2>2. DOMAIN ekus = 1 .. Len(ekus) /\ Len(ekus) \in Nat
      OBVIOUS
    <2>3. K = 1 .. Len(ekus)
      BY <2>1, <2>2 DEF ToSet
    <2>4. K = 0 + 1 .. 0 + Len(ekus) /\ 0 + Len(ekus) <= Len(ekus) /\ 0 \in Nat
      BY <2>2, <2>3
    <2>5. \A j \in 1 .. Len(ekus) : ekus[0 + j] = ekus[j]
      OBVIOUS
    <2>6. parseExtKeyUsage(ekus) = Chosen(ekus, K)
      BY <1>1 DEF parseExtKeyUsage
    <2> HIDE DEF K
    <2>7. Chosen(ekus, K) = ekus
      BY <2>4, <2>5, ChosenInterval
    <2>8. QED
      BY <2>1, <2>6, <2>7
  <1>3. ToSet(ekus) \subseteq KnownUsages => marshalExtKeyUsage(ekus) = ekus
    BY DEF marshalExtKeyUsage
  <1>4. QED
    BY <1>1, <1>2, <1>3

(* The constraints of templates: those of a CA, and none. *)
IsConstraints(bc) ==
    bc = NoConstraints \/ \E n \in Nat : bc = [isCA |-> TRUE, maxPathLen |-> n, maxPathLenSet |-> TRUE]

(* Basic constraints are read as they were written.                        *)
LEMMA ConstraintsReadBack ==
    ASSUME NEW bc, IsConstraints(bc)
    PROVE  /\ marshalBasicConstraints(bc) \in WrittenConstraints
           /\ marshalBasicConstraints(bc) # Error
           /\ parseBasicConstraints(marshalBasicConstraints(bc)) = bc
           /\ bc \in Constraints /\ bc # Error
  <1>0. \A v \in WrittenConstraints : v # Error
    BY TypeAssumption DEF NoValue, ExtensionValues
  <1>1. bc \in Constraints
    <2>1. CASE bc = NoConstraints
      BY <2>1 DEF NoConstraints, Constraints
    <2>2. ASSUME NEW n \in Nat, bc = [isCA |-> TRUE, maxPathLen |-> n, maxPathLenSet |-> TRUE]
          PROVE  bc \in Constraints
      BY <2>2 DEF Constraints
    <2>3. QED
      BY <2>1, <2>2 DEF IsConstraints
  <1>2. bc # Error
    BY <1>1, TypeAssumption DEF NoValue
  <1>3. CASE bc = NoConstraints
    <2>1. marshalBasicConstraints(bc) = [isCA |-> FALSE, maxPathLen |-> -1]
      BY <1>3 DEF marshalBasicConstraints, NoConstraints
    <2> DEFINE v == marshalBasicConstraints(bc)
    <2>2. v = [isCA |-> FALSE, maxPathLen |-> -1]
      BY <2>1
    <2> HIDE DEF v
    <2>3. v \in WrittenConstraints
      BY <2>2 DEF WrittenConstraints
    <2>4. v # Error
      BY <1>0, <2>3
    <2>5. parseBasicConstraints(v) = [isCA |-> FALSE, maxPathLen |-> 0, maxPathLenSet |-> FALSE]
      BY <2>2, <2>4 DEF parseBasicConstraints
    <2>6. QED
      BY <1>1, <1>2, <1>3, <2>3, <2>4, <2>5 DEF NoConstraints, v
  <1>4. ASSUME NEW n \in Nat, bc = [isCA |-> TRUE, maxPathLen |-> n, maxPathLenSet |-> TRUE]
        PROVE  /\ marshalBasicConstraints(bc) \in WrittenConstraints
               /\ marshalBasicConstraints(bc) # Error
               /\ parseBasicConstraints(marshalBasicConstraints(bc)) = bc
    <2>1. marshalBasicConstraints(bc) = [isCA |-> TRUE, maxPathLen |-> n]
      BY <1>4 DEF marshalBasicConstraints
    <2> DEFINE v == marshalBasicConstraints(bc)
    <2>2. v = [isCA |-> TRUE, maxPathLen |-> n]
      BY <2>1
    <2> HIDE DEF v
    <2>3. v \in WrittenConstraints
      BY <2>2 DEF WrittenConstraints
    <2>4. v # Error
      BY <1>0, <2>3
    <2>5. parseBasicConstraints(v) = [isCA |-> TRUE, maxPathLen |-> n, maxPathLenSet |-> TRUE]
      BY <2>2, <2>4 DEF parseBasicConstraints
    <2>6. QED
      BY <1>4, <2>3, <2>4, <2>5 DEF v
  <1>5. QED
    BY <1>1, <1>2, <1>3, <1>4 DEF IsConstraints

-----------------------------------------------------------------------------
(* Lemmas about the extensions of a certificate *)

Has(s, e) == \E k \in DOMAIN s : s[k] = e

(* The last of one position.                                               *)
LEMMA MaxOfOne == \A k \in Int : Max({k}) = k
  BY DEF Max

(* The only position is the first: it is the last, and there is one.       *)
LEMMA OnlyOne ==
    ASSUME NEW s, s = {1}
    PROVE  s = {1} /\ Max(s) = 1 /\ Cardinality(s) = 1
  <1>1. Max({1}) = 1
    BY MaxOfOne
  <1>2. Cardinality({1}) = 1
    BY FS_Singleton
  <1>3. QED
    BY <1>1, <1>2

(* The value of an extension that comes once.                              *)
LEMMA ValueFound ==
    ASSUME NEW exts, NEW known, NEW ext, NEW absent,
           DOMAIN exts \subseteq Int,
           ExtensionsAllowed(exts, known),
           Has(exts, ext)
    PROVE  ValueOf(exts, ext.id, absent) = ParsedValue(ext)
  <1>1. PICK k \in DOMAIN exts : exts[k] = ext
    BY DEF Has
  <1>2. {i \in DOMAIN exts : exts[i].id = ext.id} = {k}
    BY <1>1 DEF ExtensionsAllowed
  <1>3. Max({k}) = k
    BY MaxOfOne
  <1>4. QED
    BY <1>1, <1>2, <1>3 DEF ValueOf

(* Short sequences, and what they are joined to.                           *)
LEMMA Tuples ==
    ASSUME NEW E, NEW a \in E, NEW b \in E, NEW c \in E, NEW d \in E, NEW e \in E, NEW f \in E
    PROVE  /\ <<a, b, c, d>> \in Seq(E)
           /\ <<a, b, c, d, e>> \in Seq(E)
           /\ <<a, b, c, d, e, f>> \in Seq(E)
  <1>1. <<a, b, c, d>> \in Seq(E)
    OBVIOUS
  <1>2. <<a, b, c, d, e>> \in Seq(E)
    OBVIOUS
  <1>3. <<a, b, c, d, e, f>> \in Seq(E)
    OBVIOUS
  <1>4. QED
    BY <1>1, <1>2, <1>3

(* Sequences with the same elements are the same.                          *)
LEMMA SameSequence ==
    ASSUME NEW E, NEW s \in Seq(E), NEW u \in Seq(E), Len(s) = Len(u),
           \A i \in 1 .. Len(s) : s[i] = u[i]
    PROVE  s = u
  OBVIOUS

JoinedAre(a, b, c, d, e, f) ==
    /\ <<a>> \o <<b>> = <<a, b>>
    /\ <<a, b>> \o <<>> = <<a, b>>
    /\ <<a, b>> \o <<c>> = <<a, b, c>>
    /\ <<a, b>> \o <<c, d>> = <<a, b, c, d>>
    /\ <<a, b, c>> \o <<d, e>> = <<a, b, c, d, e>>
    /\ <<a, b, c, d>> \o <<>> = <<a, b, c, d>>
    /\ <<a, b, c, d>> \o <<e>> = <<a, b, c, d, e>>
    /\ <<a, b, c, d, e>> \o <<>> = <<a, b, c, d, e>>
    /\ <<a, b, c, d, e>> \o <<f>> = <<a, b, c, d, e, f>>

(* The ways in which the six are joined.                                   *)
LEMMA Joined ==
    ASSUME NEW a, NEW b, NEW c, NEW d, NEW e, NEW f
    PROVE  JoinedAre(a, b, c, d, e, f)
  <1> DEFINE E == {a, b, c, d, e, f}
  <1>0. a \in E /\ b \in E /\ c \in E /\ d \in E /\ e \in E /\ f \in E
    OBVIOUS
  <1> HIDE DEF E
  <1>1. <<a>> \o <<b>> = <<a, b>>
    <2>1. <<a>> \o <<b>> \in Seq(E) /\ <<a, b>> \in Seq(E)
      BY <1>0
    <2>2. Len(<<a>> \o <<b>>) = 2 /\ Len(<<a, b>>) = 2
      OBVIOUS
    <2>3. \A i \in 1 .. 2 : (<<a>> \o <<b>>)[i] = <<a, b>>[i]
      OBVIOUS
    <2>4. QED
      BY <2>1, <2>2, <2>3, SameSequence
  <1>2. <<a, b>> \o <<>> = <<a, b>>
    <2>1. <<a, b>> \o <<>> \in Seq(E) /\ <<a, b>> \in Seq(E)
      BY <1>0
    <2>2. Len(<<a, b>> \o <<>>) = 2 /\ Len(<<a, b>>) = 2
      OBVIOUS
    <2>3. \A i \in 1 .. 2 : (<<a, b>> \o <<>>)[i] = <<a, b>>[i]
      OBVIOUS
    <2>4. QED
      BY <2>1, <2>2, <2>3, SameSequence
  <1>3. <<a, b>> \o <<c>> = <<a, b, c>>
    <2>1. <<a, b>> \o <<c>> \in Seq(E) /\ <<a, b, c>> \in Seq(E)
      BY <1>0
    <2>2. Len(<<a, b>> \o <<c>>) = 3 /\ Len(<<a, b, c>>) = 3
      OBVIOUS
    <2>3. \A i \in 1 .. 3 : (<<a, b>> \o <<c>>)[i] = <<a, b, c>>[i]
      OBVIOUS
    <2>4. QED
      BY <2>1, <2>2, <2>3, SameSequence
  <1>4. <<a, b>> \o <<c, d>> = <<a, b, c, d>>
    <2>1. <<a, b>> \o <<c, d>> \in Seq(E) /\ <<a, b, c, d>> \in Seq(E)
      BY <1>0
    <2>2. Len(<<a, b>> \o <<c, d>>) = 4 /\ Len(<<a, b, c, d>>) = 4
      OBVIOUS
    <2>3. \A i \in 1 .. 4 : (<<a, b>> \o <<c, d>>)[i] = <<a, b, c, d>>[i]
      OBVIOUS
    <2>4. QED
      BY <2>1, <2>2, <2>3, SameSequence
  <1>5. <<a, b, c>> \o <<d, e>> = <<a, b, c, d, e>>
    <2>1. <<a, b, c>> \o <<d, e>> \in Seq(E) /\ <<a, b, c, d, e>> \in Seq(E)
      BY <1>0
    <2>2. Len(<<a, b, c>> \o <<d, e>>) = 5 /\ Len(<<a, b, c, d, e>>) = 5
      OBVIOUS
    <2>3. \A i \in 1 .. 5 : (<<a, b, c>> \o <<d, e>>)[i] = <<a, b, c, d, e>>[i]
      OBVIOUS
    <2>4. QED
      BY <2>1, <2>2, <2>3, SameSequence
  <1>6. <<a, b, c, d>> \o <<>> = <<a, b, c, d>>
    <2>1. <<a, b, c, d>> \o <<>> \in Seq(E) /\ <<a, b, c, d>> \in Seq(E)
      BY <1>0
    <2>2. Len(<<a, b, c, d>> \o <<>>) = 4 /\ Len(<<a, b, c, d>>) = 4
      OBVIOUS
    <2>3. \A i \in 1 .. 4 : (<<a, b, c, d>> \o <<>>)[i] = <<a, b, c, d>>[i]
      OBVIOUS
    <2>4. QED
      BY <2>1, <2>2, <2>3, SameSequence
  <1>7. <<a, b, c, d>> \o <<e>> = <<a, b, c, d, e>>
    <2>1. <<a, b, c, d>> \o <<e>> \in Seq(E) /\ <<a, b, c, d, e>> \in Seq(E)
      BY <1>0
    <2>2. Len(<<a, b, c, d>> \o <<e>>) = 5 /\ Len(<<a, b, c, d, e>>) = 5
      OBVIOUS
    <2>3. \A i \in 1 .. 5 : (<<a, b, c, d>> \o <<e>>)[i] = <<a, b, c, d, e>>[i]
      OBVIOUS
    <2>4. QED
      BY <2>1, <2>2, <2>3, SameSequence
  <1>8. <<a, b, c, d, e>> \o <<>> = <<a, b, c, d, e>>
    <2>1. <<a, b, c, d, e>> \o <<>> \in Seq(E) /\ <<a, b, c, d, e>> \in Seq(E)
      BY <1>0
    <2>2. Len(<<a, b, c, d, e>> \o <<>>) = 5 /\ Len(<<a, b, c, d, e>>) = 5
      OBVIOUS
    <2>3. \A i \in 1 .. 5 : (<<a, b, c, d, e>> \o <<>>)[i] = <<a, b, c, d, e>>[i]
      OBVIOUS
    <2>4. QED
      BY <2>1, <2>2, <2>3, SameSequence
  <1>9. <<a, b, c, d, e>> \o <<f>> = <<a, b, c, d, e, f>>
    <2>1. <<a, b, c, d, e>> \o <<f>> \in Seq(E) /\ <<a, b, c, d, e, f>> \in Seq(E)
      BY <1>0
    <2>2. Len(<<a, b, c, d, e>> \o <<f>>) = 6 /\ Len(<<a, b, c, d, e, f>>) = 6
      OBVIOUS
    <2>3. \A i \in 1 .. 6 : (<<a, b, c, d, e>> \o <<f>>)[i] = <<a, b, c, d, e, f>>[i]
      OBVIOUS
    <2>4. QED
      BY <2>1, <2>2, <2>3, SameSequence
  <1>10. QED
    BY <1>1, <1>2, <1>3, <1>4, <1>5, <1>6, <1>7, <1>8, <1>9 DEF JoinedAre

(* The extensions of a certificate: four that it always has, and two that  *)
(* are left out when there is nothing to say.                              *)
Listed(bc, ku, eku, skid, akid, san, usages, names) ==
    IF usages
      THEN IF names THEN <<bc, ku, eku, skid, akid, san>> ELSE <<bc, ku, eku, skid, akid>>
      ELSE IF names THEN <<bc, ku, skid, akid, san>> ELSE <<bc, ku, skid, akid>>

(* Whichever are there, none comes twice.                                  *)
ListedOf(exts, E, bc, ku, eku, skid, akid, san, usages, names) ==
    /\ exts \in Seq(E)
    /\ \A i, j \in DOMAIN exts : exts[i].id = exts[j].id => i = j
    /\ Has(exts, bc) /\ Has(exts, ku) /\ Has(exts, skid) /\ Has(exts, akid)
    /\ usages => Has(exts, eku)
    /\ ~usages => \A i \in DOMAIN exts : exts[i].id # eku.id
    /\ names => Has(exts, san)
    /\ ~names => \A i \in DOMAIN exts : exts[i].id # san.id
    /\ \A i \in DOMAIN exts : exts[i] \in {bc, ku, eku, skid, akid, san}

(* Each extension of the list is found in it, once.                        *)
LEMMA ListedOnce ==
    ASSUME NEW E, NEW bc \in E, NEW ku \in E, NEW eku \in E, NEW skid \in E, NEW akid \in E,
           NEW san \in E,
           NEW usages \in BOOLEAN, NEW names \in BOOLEAN,
           NEW exts, exts = Listed(bc, ku, eku, skid, akid, san, usages, names),
           bc.id # ku.id, bc.id # eku.id, bc.id # skid.id, bc.id # akid.id, bc.id # san.id,
           ku.id # eku.id, ku.id # skid.id, ku.id # akid.id, ku.id # san.id,
           eku.id # skid.id, eku.id # akid.id, eku.id # san.id,
           skid.id # akid.id, skid.id # san.id, akid.id # san.id
    PROVE  ListedOf(exts, E, bc, ku, eku, skid, akid, san, usages, names)
  <1>1. CASE ~usages /\ ~names
    <2>1. DOMAIN exts = 1 .. 4 /\ exts[1] = bc /\ exts[2] = ku /\ exts[3] = skid /\ exts[4] = akid
      BY <1>1 DEF Listed
    <2>2. exts \in Seq(E)
      BY <1>1, Tuples DEF Listed
    <2>3. QED
      BY <1>1, <2>1, <2>2 DEF Has, ListedOf
  <1>2. CASE usages /\ ~names
    <2>1. DOMAIN exts = 1 .. 5 /\ exts[1] = bc /\ exts[2] = ku /\ exts[3] = eku /\ exts[4] = skid
          /\ exts[5] = akid
      BY <1>2 DEF Listed
    <2>2. exts \in Seq(E)
      BY <1>2, Tuples DEF Listed
    <2>3. \A i \in DOMAIN exts : i \in {1, 2, 3, 4, 5}
      BY <2>1
    <2>a. \A i, j \in DOMAIN exts : exts[i].id = exts[j].id => i = j
      BY <2>1, <2>3, SMTT(60)
    <2>b. \A i \in DOMAIN exts : exts[i] \in {bc, ku, eku, skid, akid, san}
      BY <2>1, <2>3
    <2>4. /\ \A i, j \in DOMAIN exts : exts[i].id = exts[j].id => i = j
          /\ \A i \in DOMAIN exts : exts[i] \in {bc, ku, eku, skid, akid, san}
      BY <2>a, <2>b
    <2>5. Has(exts, bc) /\ Has(exts, ku) /\ Has(exts, skid) /\ Has(exts, akid)
      BY <2>1 DEF Has
    <2>6. Has(exts, eku)
      BY <2>1 DEF Has
    <2>7. \A i \in DOMAIN exts : exts[i].id # san.id
      BY <2>1, <2>3
    <2>8. QED
      BY <1>2, <2>2, <2>4, <2>5, <2>6, <2>7, Zenon DEF ListedOf
  <1>3. CASE ~usages /\ names
    <2>1. DOMAIN exts = 1 .. 5 /\ exts[1] = bc /\ exts[2] = ku /\ exts[3] = skid /\ exts[4] = akid
          /\ exts[5] = san
      BY <1>3 DEF Listed
    <2>2. exts \in Seq(E)
      BY <1>3, Tuples DEF Listed
    <2>3. \A i \in DOMAIN exts : i \in {1, 2, 3, 4, 5}
      BY <2>1
    <2>a. \A i, j \in DOMAIN exts : exts[i].id = exts[j].id => i = j
      BY <2>1, <2>3, SMTT(60)
    <2>b. \A i \in DOMAIN exts : exts[i] \in {bc, ku, eku, skid, akid, san}
      BY <2>1, <2>3
    <2>4. /\ \A i, j \in DOMAIN exts : exts[i].id = exts[j].id => i = j
          /\ \A i \in DOMAIN exts : exts[i] \in {bc, ku, eku, skid, akid, san}
      BY <2>a, <2>b
    <2>5. Has(exts, bc) /\ Has(exts, ku) /\ Has(exts, skid) /\ Has(exts, akid)
      BY <2>1 DEF Has
    <2>6. Has(exts, san)
      BY <2>1 DEF Has
    <2>7. \A i \in DOMAIN exts : exts[i].id # eku.id
      BY <2>1, <2>3
    <2>8. QED
      BY <1>3, <2>2, <2>4, <2>5, <2>6, <2>7, Zenon DEF ListedOf
  <1>4. CASE usages /\ names
    <2>1. DOMAIN exts = 1 .. 6 /\ exts[1] = bc /\ exts[2] = ku /\ exts[3] = eku /\ exts[4] = skid
          /\ exts[5] = akid /\ exts[6] = san
      BY <1>4 DEF Listed
    <2>2. exts \in Seq(E)
      BY <1>4, Tuples DEF Listed
    <2>3. \A i \in DOMAIN exts : i \in {1, 2, 3, 4, 5, 6}
      BY <2>1
    <2>a. \A i, j \in DOMAIN exts : exts[i].id = exts[j].id => i = j
      BY <2>1, <2>3, SMTT(60)
    <2>b. \A i \in DOMAIN exts : exts[i] \in {bc, ku, eku, skid, akid, san}
      BY <2>1, <2>3
    <2>4. /\ \A i, j \in DOMAIN exts : exts[i].id = exts[j].id => i = j
          /\ \A i \in DOMAIN exts : exts[i] \in {bc, ku, eku, skid, akid, san}
      BY <2>a, <2>b
    <2>5. Has(exts, bc) /\ Has(exts, ku) /\ Has(exts, skid) /\ Has(exts, akid)
      BY <2>1 DEF Has
    <2>6. Has(exts, eku) /\ Has(exts, san)
      BY <2>1 DEF Has
    <2>8. QED
      BY <1>4, <2>2, <2>4, <2>5, <2>6, Zenon DEF ListedOf
  <1>5. QED
    BY <1>1, <1>2, <1>3, <1>4

(* What a template may ask of the extensions of its certificate.           *)
ExtensionsWanted(t) ==
    /\ IsConstraints(t.bc)
    /\ t.keyUsage \in SUBSET KeyUsageBits /\ t.keyUsage # {}
    /\ t.extKeyUsage \in Seq(Strings)
    /\ t.sans \in AltNames

(* What is read of them.                                                   *)
ExtensionsSay(exts, t, pub, signer) ==
    /\ exts \in Seq(Extensions)
    /\ ExtensionsAllowed(exts, CertificateExtensions)
    /\ ValueOf(exts, "basicConstraints", NoConstraints) = t.bc
    /\ ValueOf(exts, "keyUsage", {}) = t.keyUsage
    /\ ValueOf(exts, "extKeyUsage", <<>>) = t.extKeyUsage
    /\ ValueOf(exts, "subjectKeyID", <<>>) = pub.bytes
    /\ ValueOf(exts, "authorityKeyID", <<>>) = Public(signer).bytes
    /\ ValueOf(exts, "subjectAltName", EmptySANs)
          = [dns |-> t.sans.dns, email |-> t.sans.email, ip |-> Stored(t.sans.ip)]
    /\ ValueOf(exts, "subjectAltName", EmptySANs) \in AltNames

(* The value of an extension that is not there.                            *)
LEMMA ValueAbsent ==
    ASSUME NEW exts, NEW id, NEW absent, \A i \in DOMAIN exts : exts[i].id # id
    PROVE  ValueOf(exts, id, absent) = absent
  BY DEF ValueOf

(* The fields of an extension.                                             *)
LEMMA ExtensionIs ==
    ASSUME NEW id, NEW critical, NEW value
    PROVE  /\ Extension(id, critical, value).id = id
           /\ Extension(id, critical, value).critical = critical
           /\ Extension(id, critical, value).value = value
           /\ /\ id \in CertificateExtensions \cup {"cRLNumber", "cRLReason"}
              /\ critical \in BOOLEAN
              /\ value \in ExtensionValues
              => Extension(id, critical, value) \in Extensions
  BY DEF Extension, Extensions

(* The six values, and what is read of them.                               *)
LEMMA ValuesRead ==
    ASSUME NEW critical,
           NEW pub, NEW v
    PROVE  /\ ParsedValue(Extension("basicConstraints", critical, v)) = parseBasicConstraints(v)
           /\ ParsedValue(Extension("keyUsage", critical, v)) = parseKeyUsage(v)
           /\ ParsedValue(Extension("extKeyUsage", critical, v)) = parseExtKeyUsage(v)
           /\ ParsedValue(Extension("subjectAltName", critical, v)) = parseSANs(v)
           /\ ParsedValue(Extension("subjectKeyID", critical, v)) = v
           /\ ParsedValue(Extension("authorityKeyID", critical, v)) = v
           /\ ParsedValue(Extension("cRLNumber", critical, v)) = v
           /\ ParsedValue(Extension("cRLReason", critical, v)) = v
  BY DEF ParsedValue, Extension

(* What buildExtensions writes says what the template asked for.           *)
LEMMA ExtensionsBuilt ==
    ASSUME NEW t, ExtensionsWanted(t),
           NEW pub \in PublicKeys, NEW signer \in Signers, NEW empty \in BOOLEAN,
           NEW exts, exts = buildExtensions(t, pub, signer, empty)
    PROVE  /\ ToSet(t.extKeyUsage) \subseteq KnownUsages => exts # Error
           /\ exts # Error => ExtensionsSay(exts, t, pub, signer)
  <1> DEFINE V    == ExtensionValues
             vbc  == marshalBasicConstraints(t.bc)
             vku  == marshalKeyUsage(t.keyUsage)
             veku == marshalExtKeyUsage(t.extKeyUsage)
             vskid == KeyIdentifier(pub)
             vakid == KeyIdentifier(Public(signer))
             vsan == marshalSANs(t.sans)
             bc   == Extension("basicConstraints", TRUE, vbc)
             ku   == Extension("keyUsage", TRUE, vku)
             eku  == Extension("extKeyUsage", FALSE, veku)
             skid == Extension("subjectKeyID", FALSE, vskid)
             akid == Extension("authorityKeyID", FALSE, vakid)
             san  == Extension("subjectAltName", empty, vsan)
             usages == t.extKeyUsage # <<>>
             names == t.sans # EmptySANs
             all  == Listed(bc, ku, eku, skid, akid, san, usages, names)
             values == [i \in DOMAIN all |-> all[i].value]
  <1>1. IsConstraints(t.bc) /\ t.keyUsage \in SUBSET KeyUsageBits /\ t.keyUsage # {}
        /\ t.extKeyUsage \in Seq(Strings) /\ t.sans \in AltNames
    BY DEF ExtensionsWanted
  <1>2. exts = IF Fails(values) THEN Error ELSE all
    <2> DEFINE kus == IF t.keyUsage = {} THEN <<>> ELSE <<ku>>
               ekus == IF t.extKeyUsage = <<>> THEN <<>> ELSE <<eku>>
               sans == IF t.sans = EmptySANs THEN <<>> ELSE <<san>>
               cat == <<bc>> \o kus \o ekus \o <<skid, akid>> \o sans
    <2>1. exts = IF Fails([i \in DOMAIN cat |-> cat[i].value]) THEN Error ELSE cat
      BY DEF buildExtensions
    <2>2. kus = <<ku>>
      BY <1>1
    <2>3. cat = all
      <3>1. /\ ekus = IF usages THEN <<eku>> ELSE <<>>
            /\ sans = IF names THEN <<san>> ELSE <<>>
        OBVIOUS
      <3> HIDE DEF bc, ku, eku, skid, akid, san, kus, ekus, sans, usages, names
      <3>2. JoinedAre(bc, ku, eku, skid, akid, san) /\ JoinedAre(bc, ku, skid, akid, san, san)
        BY Joined
      <3> DEFINE k1 == <<bc, ku>>
                 k2 == k1 \o ekus
                 k3 == k2 \o <<skid, akid>>
                 k4 == k3 \o sans
      <3>3. k2 = IF usages THEN <<bc, ku, eku>> ELSE k1
        BY <3>1, <3>2, Zenon DEF JoinedAre
      <3>4. k3 = IF usages THEN <<bc, ku, eku, skid, akid>> ELSE <<bc, ku, skid, akid>>
        BY <3>2, <3>3, Zenon DEF JoinedAre
      <3>5. k4 = all
        BY <3>1, <3>2, <3>4, Zenon DEF Listed, JoinedAre
      <3>6. cat = k4
        BY <2>2, <3>2, Zenon DEF JoinedAre
      <3>7. QED
        BY <3>5, <3>6
    <2> HIDE DEF cat, all
    <2>4. QED
      BY <2>1, <2>3
  <1>3. /\ vbc \in V /\ vbc # Error /\ parseBasicConstraints(vbc) = t.bc
        /\ vku \in V /\ vku # Error /\ parseKeyUsage(vku) = t.keyUsage
        /\ vskid \in V /\ vskid # Error /\ vskid = pub.bytes
        /\ vakid \in V /\ vakid # Error /\ vakid = Public(signer).bytes
    <2>1. Error \notin V
      BY TypeAssumption DEF NoValue
    <2>2. /\ WrittenConstraints \subseteq V /\ WrittenUsages \subseteq V /\ KeyBytes \subseteq V
      BY DEF ExtensionValues
    <2>3. vbc \in WrittenConstraints /\ parseBasicConstraints(vbc) = t.bc
      BY <1>1, ConstraintsReadBack
    <2>4. vku \in WrittenUsages /\ parseKeyUsage(vku) = t.keyUsage
      BY <1>1, UsagesRead
    <2>5. vskid = pub.bytes /\ pub.bytes \in KeyBytes
      BY KeyMarshalled DEF KeyIdentifier
    <2>6. Public(signer) \in PublicKeys
      BY PublicKeyIs
    <2>7. vakid = Public(signer).bytes /\ Public(signer).bytes \in KeyBytes
      BY <2>6, KeyMarshalled DEF KeyIdentifier
    <2> HIDE DEF V, vbc, vku, vskid, vakid
    <2>8. QED
      BY <2>1, <2>2, <2>3, <2>4, <2>5, <2>7
  <1>4. /\ ToSet(t.extKeyUsage) \subseteq KnownUsages => veku # Error
        /\ veku # Error => veku \in V /\ parseExtKeyUsage(veku) = t.extKeyUsage
    <2>1. Seq(Strings) \subseteq V
      BY DEF ExtensionValues
    <2> HIDE DEF V
    <2>2. QED
      BY <1>1, <2>1, ExtUsagesRead
  <1>5. names => /\ vsan \in V /\ vsan # Error
                 /\ parseSANs(vsan) = [dns |-> t.sans.dns, email |-> t.sans.email, ip |-> Stored(t.sans.ip)]
                 /\ parseSANs(vsan) \in AltNames
    <2>1. Seq(GeneralNames({4, 16})) \subseteq V
      BY DEF ExtensionValues
    <2>2. names => SANsReadAs(vsan, t.sans)
      BY <1>1, SANsRead
    <2> HIDE DEF V, vsan, names
    <2>3. QED
      BY <2>1, <2>2 DEF SANsReadAs
  <1> DEFINE I == CertificateExtensions
  <1>6. /\ bc.id = "basicConstraints" /\ ku.id = "keyUsage" /\ eku.id = "extKeyUsage"
        /\ skid.id = "subjectKeyID" /\ akid.id = "authorityKeyID" /\ san.id = "subjectAltName"
        /\ bc.value = vbc /\ ku.value = vku /\ eku.value = veku
        /\ skid.value = vskid /\ akid.value = vakid /\ san.value = vsan
    <2> HIDE DEF vbc, vku, veku, vskid, vakid, vsan
    <2>1. QED
      BY DEF Extension
  <1>7. /\ bc.id \in I /\ ku.id \in I /\ eku.id \in I /\ skid.id \in I /\ akid.id \in I /\ san.id \in I
        /\ bc.id # ku.id /\ bc.id # eku.id /\ bc.id # skid.id /\ bc.id # akid.id /\ bc.id # san.id
        /\ ku.id # eku.id /\ ku.id # skid.id /\ ku.id # akid.id /\ ku.id # san.id
        /\ eku.id # skid.id /\ eku.id # akid.id /\ eku.id # san.id
        /\ skid.id # akid.id /\ skid.id # san.id /\ akid.id # san.id
    BY DEF CertificateExtensions, Extension
  <1>8. /\ vbc \in V => bc \in Extensions
        /\ vku \in V => ku \in Extensions
        /\ veku \in V => eku \in Extensions
        /\ vskid \in V => skid \in Extensions
        /\ vakid \in V => akid \in Extensions
        /\ vsan \in V => san \in Extensions
    <2>1. I \subseteq CertificateExtensions \cup {"cRLNumber", "cRLReason"}
      OBVIOUS
    <2>2. /\ "basicConstraints" \in I /\ "keyUsage" \in I /\ "extKeyUsage" \in I
          /\ "subjectKeyID" \in I /\ "authorityKeyID" \in I /\ "subjectAltName" \in I
      BY DEF CertificateExtensions
    <2> HIDE DEF I, vbc, vku, veku, vskid, vakid, vsan
    <2>3. QED
      BY <2>1, <2>2, ExtensionIs
  <1>9. /\ ParsedValue(bc) = parseBasicConstraints(vbc)
        /\ ParsedValue(ku) = parseKeyUsage(vku)
        /\ ParsedValue(eku) = parseExtKeyUsage(veku)
        /\ ParsedValue(skid) = vskid
        /\ ParsedValue(akid) = vakid
        /\ ParsedValue(san) = parseSANs(vsan)
    <2> HIDE DEF vbc, vku, veku, vskid, vakid, vsan
    <2>1. QED
      BY ValuesRead
  <1> DEFINE E == {bc, ku, eku, skid, akid, san}
  <1>10. /\ all \in Seq(E)
         /\ \A i, j \in DOMAIN all : all[i].id = all[j].id => i = j
         /\ Has(all, bc) /\ Has(all, ku) /\ Has(all, skid) /\ Has(all, akid)
         /\ usages => Has(all, eku)
         /\ ~usages => \A i \in DOMAIN all : all[i].id # eku.id
         /\ names => Has(all, san)
         /\ ~names => \A i \in DOMAIN all : all[i].id # san.id
         /\ \A i \in DOMAIN all : all[i] \in {bc, ku, eku, skid, akid, san}
    <2>1. bc \in E /\ ku \in E /\ eku \in E /\ skid \in E /\ akid \in E /\ san \in E
      OBVIOUS
    <2>2. usages \in BOOLEAN /\ names \in BOOLEAN
      OBVIOUS
    <2>3. all = Listed(bc, ku, eku, skid, akid, san, usages, names)
      OBVIOUS
    <2> HIDE DEF bc, ku, eku, skid, akid, san, E, usages, names, all
    <2>4. ListedOf(all, E, bc, ku, eku, skid, akid, san, usages, names)
      BY <1>7, <2>1, <2>2, <2>3, ListedOnce
    <2>5. QED
      BY <2>4 DEF ListedOf
  <1>11. values = [i \in DOMAIN all |-> all[i].value]
    OBVIOUS
  <1>12. /\ t.extKeyUsage = <<>> => ~usages
         /\ t.extKeyUsage # <<>> => usages
         /\ t.sans = EmptySANs => ~names
         /\ t.sans # EmptySANs => names
    OBVIOUS
  <1> HIDE DEF V, I, vbc, vku, veku, vskid, vakid, vsan, bc, ku, eku, skid, akid, san, usages, names,
               all, values, E
  <1>13a. ASSUME \A i \in DOMAIN all : all[i].value # Error
          PROVE  all \in Seq(Extensions)
    <2>2. usages => veku # Error
      BY <1>6, <1>10, <1>13a DEF Has
    <2>3. ASSUME NEW i \in DOMAIN all
          PROVE  all[i] \in Extensions
      <3>1. all[i] \in {bc, ku, eku, skid, akid, san}
        BY <1>10
      <3>2. (all[i] = san => names) /\ (all[i] = eku => usages)
        BY <1>10
      <3>3. QED
        BY <1>3, <1>4, <1>5, <1>8, <2>2, <3>1, <3>2
    <2>4. ToSet(all) \subseteq Extensions
      BY <2>3 DEF ToSet
    <2>5. QED
      BY <1>10, <2>4, Narrowed
  <1>13b. \A i \in DOMAIN all : all[i].id \in I
    BY <1>7, <1>10
  <1>13. ASSUME ToSet(t.extKeyUsage) \subseteq KnownUsages
         PROVE  exts # Error
    <2>1. ASSUME NEW i \in DOMAIN all
          PROVE  all[i].value # Error
      <3>1. all[i] \in {bc, ku, eku, skid, akid, san}
        BY <1>10
      <3>2. all[i] = san => names
        BY <1>10
      <3>3. QED
        BY <1>3, <1>4, <1>5, <1>6, <1>13, <3>1, <3>2
    <2>2. ~Fails(values)
      BY <1>11, <2>1 DEF Fails
    <2>3. all # Error
      BY <1>13a, <2>1, TypeAssumption DEF NoValue
    <2>4. QED
      BY <1>2, <2>2, <2>3
  <1>14. ASSUME exts # Error
         PROVE  ExtensionsSay(exts, t, pub, signer)
    <2>1. exts = all /\ \A i \in DOMAIN all : all[i].value # Error
      BY <1>2, <1>11, <1>14 DEF Fails
    <2>2. usages => veku # Error
      BY <1>6, <1>10, <2>1 DEF Has
    <2>4. exts \in Seq(Extensions)
      BY <1>13a, <2>1
    <2>5. ExtensionsAllowed(exts, CertificateExtensions)
      BY <1>10, <1>13b, <2>1 DEF ExtensionsAllowed, I
    <2>6. DOMAIN exts \subseteq Int
      BY <2>4
    <2>7. ASSUME NEW e, NEW absent, Has(exts, e)
          PROVE  ValueOf(exts, e.id, absent) = ParsedValue(e)
      BY <2>5, <2>6, <2>7, ValueFound
    <2>8. /\ ValueOf(exts, "basicConstraints", NoConstraints) = t.bc
          /\ ValueOf(exts, "keyUsage", {}) = t.keyUsage
          /\ ValueOf(exts, "subjectKeyID", <<>>) = pub.bytes
          /\ ValueOf(exts, "authorityKeyID", <<>>) = Public(signer).bytes
      <3>1. Has(exts, bc) /\ Has(exts, ku) /\ Has(exts, skid) /\ Has(exts, akid)
        BY <1>10, <2>1
      <3>2. /\ ValueOf(exts, bc.id, NoConstraints) = ParsedValue(bc)
            /\ ValueOf(exts, ku.id, {}) = ParsedValue(ku)
            /\ ValueOf(exts, skid.id, <<>>) = ParsedValue(skid)
            /\ ValueOf(exts, akid.id, <<>>) = ParsedValue(akid)
        BY <2>7, <3>1
      <3>3. QED
        BY <1>3, <1>6, <1>9, <3>2, Zenon
    <2>9. ValueOf(exts, "extKeyUsage", <<>>) = t.extKeyUsage
      <3>1. CASE usages
        <4>1. ValueOf(exts, eku.id, <<>>) = ParsedValue(eku)
          BY <1>10, <2>1, <2>7, <3>1
        <4>2. ParsedValue(eku) = t.extKeyUsage
          BY <1>4, <1>9, <2>2, <3>1
        <4>3. QED
          BY <1>6, <4>1, <4>2, Zenon
      <3>2. CASE ~usages
        <4>1. ValueOf(exts, eku.id, <<>>) = <<>>
          BY <1>10, <2>1, <3>2, ValueAbsent
        <4>2. QED
          BY <1>6, <1>12, <3>2, <4>1, Zenon
      <3>3. QED
        BY <3>1, <3>2
    <2> DEFINE n == [dns |-> t.sans.dns, email |-> t.sans.email, ip |-> Stored(t.sans.ip)]
    <2>10. /\ ValueOf(exts, "subjectAltName", EmptySANs) = n
           /\ ValueOf(exts, "subjectAltName", EmptySANs) \in AltNames
      <3>1. CASE names
        <4>1. ValueOf(exts, san.id, EmptySANs) = ParsedValue(san)
          BY <1>10, <2>1, <2>7, <3>1
        <4>2. ParsedValue(san) = n /\ ParsedValue(san) \in AltNames
          BY <1>5, <1>9, <3>1
        <4> HIDE DEF n
        <4>3. QED
          BY <1>6, <4>1, <4>2, Zenon
      <3>2. CASE ~names
        <4>1. ValueOf(exts, san.id, EmptySANs) = EmptySANs
          BY <1>10, <2>1, <3>2, ValueAbsent
        <4>2. t.sans = EmptySANs
          BY <1>12, <3>2
        <4>3. Stored(<<>>) = <<>>
          BY DEF Stored
        <4>4. n = EmptySANs
          BY <4>2, <4>3 DEF EmptySANs
        <4> HIDE DEF n
        <4>5. QED
          BY <1>1, <1>6, <4>1, <4>2, <4>4, Zenon
      <3>3. QED
        BY <3>1, <3>2
    <2> HIDE DEF n
    <2>11. QED
      BY <2>4, <2>5, <2>8, <2>9, <2>10 DEF ExtensionsSay, n
  <1>15. QED
    BY <1>13, <1>14

-----------------------------------------------------------------------------
(* Lemmas about certificates as they are read back *)

(* What the engine puts into a template.                                   *)
TemplateIs(t) ==
    /\ t.serial \in Nat \ {0}
    /\ t.alg \in DOMAIN Info
    /\ t.subject \in Names
    /\ t.notBefore \in Int /\ t.notBefore % 2 = 0
    /\ t.notAfter \in Int /\ t.notAfter % 2 = 0
    /\ ExtensionsWanted(t)

(* The name of an issuer, as it was written and can be read.               *)
Readable(rdns) == \E n \in Names : RDNsOf(n, rdns)

(* A certificate says what its template says.                              *)
ReadFrom(cert, t, pub, signer) ==
    /\ cert \in Certificates
    /\ cert.serial = t.serial
    /\ cert.alg = t.alg
    /\ cert.subject = t.subject
    /\ RDNsOf(t.subject, cert.rawSubject)
    /\ cert.notBefore = t.notBefore
    /\ cert.notAfter = t.notAfter
    /\ t.notAfter < Century \/ t.notAfter <= Forever
    /\ cert.bc = t.bc
    /\ cert.keyUsage = t.keyUsage
    /\ cert.extKeyUsage = t.extKeyUsage
    /\ cert.key = pub
    /\ cert.sans = [dns |-> t.sans.dns, email |-> t.sans.email, ip |-> Stored(t.sans.ip)]
    /\ cert.sig = Sign(signer, cert.rawTBS)

(* Such a name is read as a name.                                          *)
LEMMA NameRead ==
    ASSUME NEW rdns, Readable(rdns)
    PROVE  ParseName(rdns) \in Names
  <1>1. PICK n \in Names : RDNsOf(n, rdns)
    BY DEF Readable
  <1>2. /\ rdns \in Seq(RDNs)
        /\ ~Fails(Valued(rdns)) /\ \A i \in 1 .. Len(rdns) : Valued(rdns)[i] \in Seq(Characters)
    BY <1>1 DEF RDNsOf
  <1>3. DOMAIN rdns = 1 .. Len(rdns) /\ Len(rdns) \in Nat
    BY <1>2
  <1>4. NameOf(rdns, ParseName(rdns))
    BY <1>2, <1>3, NameParsed
  <1>5. QED
    BY <1>4 DEF NameOf

(* What is signed of a certificate, when each part of it can be written.   *)
Content(t, parent, pub, exts) ==
    [version |-> 2, serial |-> t.serial, alg |-> Identifier(t.alg),
     issuer |-> IF parent = NULL THEN ToRDNSequence(t.subject) ELSE parent.rawSubject,
     notBefore |-> marshalTime(t.notBefore), notAfter |-> marshalTime(t.notAfter),
     subject |-> ToRDNSequence(t.subject), spki |-> MarshalPKIXPublicKey(pub), exts |-> exts]

CertificateExts(t, pub, signer) ==
    buildExtensions(t, pub, signer, ToRDNSequence(t.subject) = <<>>)

(* What is signed has the types of a certificate.                          *)
LEMMA ContentIs ==
    ASSUME NEW t, TemplateIs(t), NEW parent, parent = NULL \/ Readable(parent.rawSubject),
           NEW pub \in PublicKeys, NEW signer \in Signers,
           marshalTime(t.notBefore) # Error, marshalTime(t.notAfter) # Error,
           NEW exts, exts = CertificateExts(t, pub, signer), exts # Error
    PROVE  /\ Content(t, parent, pub, exts) \in SignedCertificates
           /\ Readable(Content(t, parent, pub, exts).issuer)
           /\ ExtensionsSay(exts, t, pub, signer)
  <1> DEFINE subject == ToRDNSequence(t.subject)
             spki == MarshalPKIXPublicKey(pub)
             notBefore == marshalTime(t.notBefore)
             notAfter == marshalTime(t.notAfter)
             empty == subject = <<>>
             alg == Identifier(t.alg)
             issuer == IF parent = NULL THEN subject ELSE parent.rawSubject
             tbs == [version |-> 2, serial |-> t.serial, alg |-> alg,
                     issuer |-> issuer, notBefore |-> notBefore, notAfter |-> notAfter,
                     subject |-> subject, spki |-> spki, exts |-> exts]
  <1>1. Content(t, parent, pub, exts) = tbs
    BY DEF Content
  <1>2. /\ t.serial \in Nat \ {0} /\ t.alg \in DOMAIN Info /\ t.subject \in Names
        /\ t.notBefore \in Int /\ t.notBefore % 2 = 0 /\ t.notAfter \in Int /\ t.notAfter % 2 = 0
        /\ ExtensionsWanted(t)
    BY DEF TemplateIs
  <1>3. exts = buildExtensions(t, pub, signer, empty)
    BY DEF CertificateExts
  <1>4. RDNsOf(t.subject, subject)
    BY <1>2, NameWritten
  <1>5. spki \in SubjectKeys
    BY KeyMarshalled
  <1>6. notBefore \in Dates /\ notAfter \in Dates
    BY <1>2, TimeRead
  <1>7. empty \in BOOLEAN
    OBVIOUS
  <1>8. ExtensionsSay(exts, t, pub, signer)
    <2> HIDE DEF empty
    <2>1. QED
      BY <1>2, <1>3, <1>7, ExtensionsBuilt
  <1>9. Readable(issuer)
    <2>1. Readable(subject)
      BY <1>2, <1>4 DEF Readable
    <2>2. QED
      BY <2>1
  <1>10. alg \in Identifiers
    BY <1>2 DEF Identifier, Identifiers
  <1>11. issuer \in Seq(RDNs) /\ subject \in Seq(RDNs) /\ exts \in Seq(Extensions)
    BY <1>4, <1>8, <1>9 DEF Readable, RDNsOf, ExtensionsSay
  <1> HIDE DEF subject, spki, notBefore, notAfter, alg, issuer, empty
  <1>12. tbs \in SignedCertificates
    BY <1>2, <1>5, <1>6, <1>10, <1>11 DEF SignedCertificates
  <1>13. tbs.issuer = issuer
    OBVIOUS
  <1> HIDE DEF tbs
  <1>14. QED
    BY <1>1, <1>8, <1>9, <1>12, <1>13

(* What is written of a certificate has its types.                         *)
LEMMA CertificateWritten ==
    ASSUME NEW t, TemplateIs(t), NEW parent, parent = NULL \/ Readable(parent.rawSubject),
           NEW pub \in PublicKeys, NEW signer \in Signers,
           NEW der, der = CreateCertificate(t, parent, pub, signer), der # Error
    PROVE  /\ der.tbs \in SignedCertificates
           /\ der = [tbs |-> der.tbs, alg |-> Identifier(t.alg), sig |-> Sign(signer, der.tbs),
                     rest |-> FALSE]
           /\ t.alg = signer.alg
           /\ der.tbs.version = 2 /\ der.tbs.serial = t.serial
           /\ der.tbs.alg = Identifier(t.alg)
           /\ Readable(der.tbs.issuer)
           /\ der.tbs.notBefore = marshalTime(t.notBefore) /\ marshalTime(t.notBefore) # Error
           /\ der.tbs.notAfter = marshalTime(t.notAfter) /\ marshalTime(t.notAfter) # Error
           /\ der.tbs.subject = ToRDNSequence(t.subject)
           /\ der.tbs.spki = MarshalPKIXPublicKey(pub)
           /\ ExtensionsSay(der.tbs.exts, t, pub, signer)
  <1> DEFINE subject == ToRDNSequence(t.subject)
             spki == MarshalPKIXPublicKey(pub)
             notBefore == marshalTime(t.notBefore)
             notAfter == marshalTime(t.notAfter)
             exts == CertificateExts(t, pub, signer)
             tbs == Content(t, parent, pub, exts)
  <1>1. /\ t.alg = signer.alg
        /\ ~Fails(<<subject, spki, notBefore, notAfter, exts>>)
        /\ der = [tbs |-> tbs, alg |-> Identifier(t.alg), sig |-> Sign(signer, tbs), rest |-> FALSE]
    BY DEF CreateCertificate, Content, CertificateExts
  <1>2. notBefore # Error /\ notAfter # Error /\ exts # Error
    <2> HIDE DEF subject, spki, notBefore, notAfter, exts
    <2>1. QED
      BY <1>1 DEF Fails
  <1>3. /\ tbs \in SignedCertificates
        /\ Readable(tbs.issuer)
        /\ ExtensionsSay(exts, t, pub, signer)
    <2> HIDE DEF exts
    <2>1. exts = CertificateExts(t, pub, signer)
      BY DEF exts
    <2>2. QED
      BY <1>2, <2>1, ContentIs
  <1> HIDE DEF exts
  <1>4. /\ tbs.version = 2 /\ tbs.serial = t.serial /\ tbs.alg = Identifier(t.alg)
        /\ tbs.notBefore = notBefore /\ tbs.notAfter = notAfter /\ tbs.subject = subject
        /\ tbs.spki = spki /\ tbs.exts = exts
    BY DEF Content
  <1> HIDE DEF tbs
  <1>5. der.tbs = tbs
    BY <1>1
  <1>6. QED
    BY <1>1, <1>2, <1>3, <1>4, <1>5

(* When a certificate is made: its times can be written, its usages are    *)
(* known, and it is for somebody.                                          *)
LEMMA CertificateMade ==
    ASSUME NEW t, TemplateIs(t), NEW parent, parent = NULL \/ Readable(parent.rawSubject),
           NEW pub \in PublicKeys, NEW signer \in Signers,
           t.alg = signer.alg,
           t.notBefore < t.notAfter, t.notAfter < Century \/ t.notAfter <= Forever,
           ToSet(t.extKeyUsage) \subseteq KnownUsages,
           ToRDNSequence(t.subject) # <<>> \/ t.sans # EmptySANs
    PROVE  CreateCertificate(t, parent, pub, signer) # Error
  <1> DEFINE subject == ToRDNSequence(t.subject)
             spki == MarshalPKIXPublicKey(pub)
             notBefore == marshalTime(t.notBefore)
             notAfter == marshalTime(t.notAfter)
             empty == subject = <<>>
             exts == CertificateExts(t, pub, signer)
             tbs == Content(t, parent, pub, exts)
  <1>1. /\ t.serial \in Nat \ {0} /\ t.alg \in DOMAIN Info
        /\ t.notBefore \in Int /\ t.notBefore % 2 = 0 /\ t.notAfter \in Int /\ t.notAfter % 2 = 0
        /\ ExtensionsWanted(t)
    BY DEF TemplateIs
  <1>2. spki # Error /\ subject # Error
    BY KeyMarshalled, NameWritable DEF TemplateIs
  <1>3. notBefore # Error /\ notAfter # Error
    <2>1. t.notBefore <= t.notAfter /\ t.notAfter <= t.notAfter
      BY <1>1
    <2>2. QED
      BY <1>1, <2>1, TimeWritten
  <1>4. exts # Error
    <2>1. exts = buildExtensions(t, pub, signer, empty)
      BY DEF CertificateExts
    <2>2. empty \in BOOLEAN
      OBVIOUS
    <2> HIDE DEF exts, empty
    <2>3. QED
      BY <1>1, <2>1, <2>2, ExtensionsBuilt
  <1>5. tbs \in SignedCertificates
    <2> HIDE DEF exts
    <2>1. exts = CertificateExts(t, pub, signer)
      BY DEF exts
    <2>2. QED
      BY <1>3, <1>4, <2>1, ContentIs
  <1> DEFINE der == [tbs |-> tbs, alg |-> Identifier(t.alg), sig |-> Sign(signer, tbs), rest |-> FALSE]
  <1>6. CreateCertificate(t, parent, pub, signer) = der
    <2>1. CreateCertificate(t, parent, pub, signer) =
            IF \/ t.serial <= 0
               \/ t.notAfter <= t.notBefore
               \/ t.alg # signer.alg
               \/ subject = <<>> /\ t.sans = EmptySANs
               \/ Fails(<<subject, spki, notBefore, notAfter, exts>>)
              THEN Error
              ELSE der
      BY DEF CreateCertificate, Content, CertificateExts
    <2> HIDE DEF spki, notBefore, notAfter, exts, der
    <2>2. ~Fails(<<subject, spki, notBefore, notAfter, exts>>)
      BY <1>2, <1>3, <1>4 DEF Fails
    <2>3. ~(t.serial <= 0) /\ ~(t.notAfter <= t.notBefore)
      BY <1>1
    <2>4. QED
      BY <2>1, <2>2, <2>3
  <1>7. der \in DocumentsOf(SignedCertificates)
    <2> HIDE DEF tbs
    <2>1. Sign(signer, tbs) \in Signatures(SignedCertificates)
      BY <1>5, SignatureIs
    <2>2. Identifier(t.alg) \in Identifiers
      BY <1>1 DEF Identifier, Identifiers
    <2> DEFINE s == Sign(signer, tbs)
               T == Signatures(SignedCertificates)
    <2>3. s \in T /\ DocumentsOf(SignedCertificates)
                      = [tbs : SignedCertificates, alg : Identifiers, sig : T, rest : {FALSE}]
      BY <2>1 DEF DocumentsOf
    <2> HIDE DEF s, T
    <2>4. [tbs |-> tbs, alg |-> Identifier(t.alg), sig |-> s, rest |-> FALSE]
            \in DocumentsOf(SignedCertificates)
      BY <1>5, <2>2, <2>3
    <2>5. QED
      BY <2>4 DEF s
  <1>8. QED
    BY <1>6, <1>7, TypeAssumption DEF NoValue

(* What ParseCertificate returns, unless it refuses.                       *)
CertificateRead(der) ==
    [version |-> der.tbs.version + 1, serial |-> der.tbs.serial, alg |-> der.alg.oid,
     sig |-> der.sig, rawTBS |-> der.tbs,
     issuer |-> ParseName(der.tbs.issuer), rawIssuer |-> der.tbs.issuer,
     subject |-> ParseName(der.tbs.subject), rawSubject |-> der.tbs.subject,
     notBefore |-> parseTime(der.tbs.notBefore), notAfter |-> parseTime(der.tbs.notAfter),
     key |-> publicKeyFromSPKI(der.tbs.spki),
     bc |-> ValueOf(der.tbs.exts, "basicConstraints", NoConstraints),
     keyUsage |-> ValueOf(der.tbs.exts, "keyUsage", {}),
     extKeyUsage |-> ValueOf(der.tbs.exts, "extKeyUsage", <<>>),
     subjectKeyID |-> ValueOf(der.tbs.exts, "subjectKeyID", <<>>),
     authorityKeyID |-> ValueOf(der.tbs.exts, "authorityKeyID", <<>>),
     sans |-> ValueOf(der.tbs.exts, "subjectAltName", EmptySANs)]

(* ParseCertificate returns it when no part of it is refused.              *)
LEMMA CertificateAcceptedWhen ==
    ASSUME NEW der, NEW cert, cert = CertificateRead(der),
           ~der.rest, SignatureReadable(der),
           der.tbs.alg.oid = der.alg.oid, ~der.tbs.alg.params,
           ~(der.tbs.serial <= 0), cert.version = 3,
           ExtensionsAllowed(der.tbs.exts, CertificateExtensions),
           cert.issuer # Error, cert.subject # Error, cert.notBefore # Error, cert.notAfter # Error,
           cert.key # Error, cert.bc # Error, cert.keyUsage # Error, cert.extKeyUsage # Error,
           cert.subjectKeyID # Error, cert.authorityKeyID # Error, cert.sans # Error
    PROVE  ParseCertificate(der) = cert
  <1> DEFINE fields == {"issuer", "subject", "notBefore", "notAfter", "key", "bc", "keyUsage",
                        "extKeyUsage", "subjectKeyID", "authorityKeyID", "sans"}
  <1>1. ParseCertificate(der) =
          IF \/ der.rest
             \/ ~SignatureReadable(der)
             \/ der.tbs.alg.oid # der.alg.oid \/ der.tbs.alg.params
             \/ der.tbs.serial <= 0
             \/ cert.version # 3
             \/ ~ExtensionsAllowed(der.tbs.exts, CertificateExtensions)
             \/ \E field \in fields : cert[field] = Error
            THEN Error
            ELSE cert
    BY DEF ParseCertificate, CertificateRead
  <1>2. \A field \in fields : cert[field] # Error
    OBVIOUS
  <1> HIDE DEF fields
  <1>3. QED
    BY <1>1, <1>2

(* A certificate that was created is read as it was meant.                 *)
LEMMA CertificateReadBack ==
    ASSUME NEW t, TemplateIs(t), NEW parent, parent = NULL \/ Readable(parent.rawSubject),
           NEW pub \in PublicKeys, NEW signer \in Signers,
           NEW der, der = CreateCertificate(t, parent, pub, signer), der # Error
    PROVE  /\ ParseCertificate(der) # Error
           /\ ReadFrom(ParseCertificate(der), t, pub, signer)
  <1> DEFINE tbs == der.tbs
             cert == CertificateRead(der)
             n == [dns |-> t.sans.dns, email |-> t.sans.email, ip |-> Stored(t.sans.ip)]
  <1>1. /\ tbs \in SignedCertificates
        /\ der = [tbs |-> tbs, alg |-> Identifier(t.alg), sig |-> Sign(signer, tbs), rest |-> FALSE]
        /\ t.alg = signer.alg
        /\ tbs.version = 2 /\ tbs.serial = t.serial
        /\ tbs.alg = Identifier(t.alg)
        /\ Readable(tbs.issuer)
        /\ tbs.notBefore = marshalTime(t.notBefore) /\ marshalTime(t.notBefore) # Error
        /\ tbs.notAfter = marshalTime(t.notAfter) /\ marshalTime(t.notAfter) # Error
        /\ tbs.subject = ToRDNSequence(t.subject)
        /\ tbs.spki = MarshalPKIXPublicKey(pub)
        /\ ExtensionsSay(tbs.exts, t, pub, signer)
    BY CertificateWritten
  <1>2. /\ t.serial \in Nat \ {0} /\ t.alg \in DOMAIN Info /\ t.subject \in Names
        /\ t.notBefore \in Int /\ t.notBefore % 2 = 0 /\ t.notAfter \in Int /\ t.notAfter % 2 = 0
        /\ ExtensionsWanted(t)
    BY DEF TemplateIs
  <1>3. /\ Sign(signer, tbs) \in Signatures(SignedCertificates)
        /\ Identifier(t.alg).oid = t.alg /\ ~Identifier(t.alg).params
        /\ Sign(signer, tbs).size = Info[t.alg].sig
        /\ ~Sign(signer, tbs).unused
        /\ Valid(t.alg)
    BY <1>1, SignatureIs
  <1> HIDE DEF tbs
  <1>4. /\ ~der.rest /\ der.alg = Identifier(t.alg) /\ der.sig = Sign(signer, tbs)
    BY <1>1
  <1>5. SignatureReadable(der)
    BY <1>3, <1>4 DEF SignatureReadable
  <1>6. /\ ParseName(tbs.subject) = t.subject /\ RDNsOf(t.subject, tbs.subject)
    BY <1>1, <1>2, NameWritten
  <1>7. ParseName(tbs.issuer) \in Names
    BY <1>1, NameRead
  <1>8. /\ parseTime(tbs.notBefore) = t.notBefore /\ parseTime(tbs.notAfter) = t.notAfter
        /\ t.notAfter < Century \/ t.notAfter <= Forever
    BY <1>1, <1>2, TimeRead
  <1>9. publicKeyFromSPKI(tbs.spki) = pub /\ pub \in Keys
    BY <1>1, KeyMarshalled
  <1>10. /\ tbs.exts \in Seq(Extensions)
         /\ ExtensionsAllowed(tbs.exts, CertificateExtensions)
         /\ ValueOf(tbs.exts, "basicConstraints", NoConstraints) = t.bc
         /\ ValueOf(tbs.exts, "keyUsage", {}) = t.keyUsage
         /\ ValueOf(tbs.exts, "extKeyUsage", <<>>) = t.extKeyUsage
         /\ ValueOf(tbs.exts, "subjectKeyID", <<>>) = pub.bytes
         /\ ValueOf(tbs.exts, "authorityKeyID", <<>>) = Public(signer).bytes
         /\ ValueOf(tbs.exts, "subjectAltName", EmptySANs) = n
         /\ n \in AltNames
    BY <1>1 DEF ExtensionsSay
  <1>11. /\ t.bc \in Constraints /\ t.keyUsage \in SUBSET KeyUsageBits /\ t.extKeyUsage \in Seq(Strings)
    BY <1>2, ConstraintsReadBack DEF ExtensionsWanted
  <1>12. pub.bytes \in KeyBytes /\ Public(signer).bytes \in KeyBytes
    BY PublicKeyIs, KeyMarshalled
  <1>13. tbs.issuer \in Seq(RDNs) /\ tbs.subject \in Seq(RDNs)
    BY <1>1, <1>6 DEF Readable, RDNsOf
  <1> HIDE DEF n
  <1>14. cert = [version |-> 3, serial |-> t.serial, alg |-> t.alg,
                 sig |-> Sign(signer, tbs), rawTBS |-> tbs,
                 issuer |-> ParseName(tbs.issuer), rawIssuer |-> tbs.issuer,
                 subject |-> t.subject, rawSubject |-> tbs.subject,
                 notBefore |-> t.notBefore, notAfter |-> t.notAfter,
                 key |-> pub, bc |-> t.bc, keyUsage |-> t.keyUsage,
                 extKeyUsage |-> t.extKeyUsage, subjectKeyID |-> pub.bytes,
                 authorityKeyID |-> Public(signer).bytes, sans |-> n]
    <2>1. der.tbs = tbs /\ tbs.version + 1 = 3 /\ der.alg.oid = t.alg
      BY <1>1, <1>3, <1>4 DEF tbs
    <2>2. QED
      BY <1>1, <1>4, <1>6, <1>8, <1>9, <1>10, <2>1, Zenon DEF CertificateRead
  <1> HIDE DEF cert
  <1>15. cert \in Certificates
    <2> DEFINE S == Sign(signer, tbs)
               I == ParseName(tbs.issuer)
               T == Signatures(SignedCertificates)
               R == Seq(RDNs)
               U == SUBSET KeyUsageBits
               Q == Seq(Strings)
               K == Public(signer).bytes
    <2>1. S \in T /\ I \in Names /\ tbs.issuer \in R /\ tbs.subject \in R /\ t.keyUsage \in U
          /\ t.extKeyUsage \in Q /\ K \in KeyBytes
      BY <1>3, <1>7, <1>11, <1>12, <1>13
    <2>2. cert = [version |-> 3, serial |-> t.serial, alg |-> t.alg,
                 sig |-> S, rawTBS |-> tbs, issuer |-> I, rawIssuer |-> tbs.issuer,
                 subject |-> t.subject, rawSubject |-> tbs.subject,
                 notBefore |-> t.notBefore, notAfter |-> t.notAfter,
                 key |-> pub, bc |-> t.bc, keyUsage |-> t.keyUsage,
                 extKeyUsage |-> t.extKeyUsage, subjectKeyID |-> pub.bytes,
                 authorityKeyID |-> K, sans |-> n]
      BY <1>14
    <2>3. Certificates =
            [version : {3}, serial : Nat, alg : DOMAIN Info, sig : T,
             rawTBS : SignedCertificates, issuer : Names, rawIssuer : R, subject : Names,
             rawSubject : R, notBefore : Int, notAfter : Int, key : Keys, bc : Constraints,
             keyUsage : U, extKeyUsage : Q, subjectKeyID : KeyBytes,
             authorityKeyID : KeyBytes, sans : AltNames]
      BY DEF Certificates
    <2> HIDE DEF S, I, T, R, U, Q, K
    <2>4. QED
      BY <1>1, <1>2, <1>9, <1>10, <1>11, <1>12, <2>1, <2>2, <2>3
  <1>16. /\ cert.version = 3 /\ cert.serial = t.serial /\ cert.alg = t.alg
         /\ cert.sig = Sign(signer, tbs) /\ cert.rawTBS = tbs
         /\ cert.issuer = ParseName(tbs.issuer) /\ cert.subject = t.subject
         /\ cert.rawSubject = tbs.subject
         /\ cert.notBefore = t.notBefore /\ cert.notAfter = t.notAfter
         /\ cert.key = pub /\ cert.bc = t.bc /\ cert.keyUsage = t.keyUsage
         /\ cert.extKeyUsage = t.extKeyUsage /\ cert.subjectKeyID = pub.bytes
         /\ cert.authorityKeyID = Public(signer).bytes /\ cert.sans = n
    BY <1>14
  <1>17. /\ cert.issuer # Error /\ cert.subject # Error /\ cert.notBefore # Error /\ cert.notAfter # Error
         /\ cert.key # Error /\ cert.bc # Error /\ cert.keyUsage # Error /\ cert.extKeyUsage # Error
         /\ cert.subjectKeyID # Error /\ cert.authorityKeyID # Error /\ cert.sans # Error
    <2>1. /\ Error \notin Names /\ Error \notin Int /\ Error \notin Keys /\ Error \notin Constraints
          /\ Error \notin AltNames /\ \A bits \in SUBSET KeyUsageBits : Error # bits
          /\ Error \notin Seq(Strings) /\ Error \notin KeyBytes
      BY TypeAssumption DEF NoValue, ExtensionValues
    <2>2. QED
      BY <1>2, <1>7, <1>9, <1>10, <1>11, <1>12, <1>16, <2>1, Zenon
  <1>18. ParseCertificate(der) = cert
    <2>1. /\ der.tbs.alg.oid = der.alg.oid /\ ~der.tbs.alg.params /\ ~(der.tbs.serial <= 0)
          /\ ExtensionsAllowed(der.tbs.exts, CertificateExtensions)
      BY <1>1, <1>2, <1>3, <1>4, <1>10 DEF tbs
    <2>2. cert = CertificateRead(der)
      BY DEF cert
    <2>3. QED
      BY <1>4, <1>5, <1>16, <1>17, <2>1, <2>2, CertificateAcceptedWhen
  <1>19. cert # Error
    BY <1>15, TypeAssumption DEF NoValue
  <1>20. QED
    BY <1>6, <1>8, <1>15, <1>16, <1>18, <1>19 DEF ReadFrom, n

-----------------------------------------------------------------------------
(* Lemmas about the requests of other programs *)

(* What the parser of requests relies on: strings that are read are of     *)
(* characters, and extensions that ask for names hold general names.       *)
Askable(csr) ==
    /\ IsSequence(csr.tbs.subject)
    /\ \A i \in DOMAIN csr.tbs.subject :
         Valued(csr.tbs.subject)[i] # Error => Valued(csr.tbs.subject)[i] \in Seq(Characters)
    /\ csr.tbs.spki.bytes \in KeyBytes
    /\ IsSequence(csr.tbs.attributes)
    /\ \A a \in ToSet(csr.tbs.attributes) : a.type = "extensionRequest" => AsksForNames(a)

(* What is flattened has elements of the same type.                        *)
LEMMA FlattenType ==
    ASSUME NEW S, NEW cs \in Seq(Seq(S))
    PROVE  FlattenSeq(cs) \in Seq(S)
  <1>1. PICK pos : Positions(cs, pos)
    BY PositionsExist
  <1>2. LaidOut(S, cs, pos, Len(cs), FlattenSeq(cs))
    BY <1>1, Layout
  <1>3. QED
    BY <1>2, LaidOutType

(* Half a character is never read.                                         *)
LEMMA WideStringRead ==
    ASSUME NEW units \in Seq(Characters \cup {"lead", "trail", "half"})
    PROVE  /\ decodeBMPString(units) = Error \/ decodeBMPString(units) \in Seq(Characters)
           /\ decodeUniversalString(units) = Error \/ decodeUniversalString(units) \in Seq(Characters)
  <1>1. DOMAIN units = 1 .. Len(units) /\ Len(units) \in Nat
        /\ \A i \in 1 .. Len(units) : units[i] \in Characters \cup {"lead", "trail", "half"}
    OBVIOUS
  <1> DEFINE cs == [i \in DOMAIN units |-> CASE units[i] = "lead" -> <<"astral">>
                                             [] units[i] = "trail" -> <<>>
                                             [] OTHER -> <<units[i]>>]
  <1>2. ASSUME decodeBMPString(units) # Error
        PROVE  decodeBMPString(units) \in Seq(Characters)
    <2>1. /\ decodeBMPString(units) = FlattenSeq(cs)
          /\ \A i \in DOMAIN units : units[i] # "half"
      BY <1>2 DEF decodeBMPString
    <2>2. ASSUME NEW i \in 1 .. Len(units)
          PROVE  cs[i] \in Seq(Characters)
      <3>1. CASE units[i] = "lead"
        <4>1. cs[i] = <<"astral">>
          BY <1>1, <3>1
        <4>2. "astral" \in Characters
          BY DEF Characters
        <4>3. QED
          BY <4>1, <4>2
      <3>2. CASE units[i] = "trail"
        <4>1. cs[i] = <<>>
          BY <1>1, <3>2
        <4>2. QED
          BY <4>1
      <3>3. CASE units[i] # "lead" /\ units[i] # "trail"
        <4>1. cs[i] = <<units[i]>>
          BY <1>1, <3>3
        <4>2. units[i] \in Characters
          BY <1>1, <2>1, <3>3
        <4> HIDE DEF cs
        <4>3. QED
          BY <4>1, <4>2
      <3>4. QED
        BY <3>1, <3>2, <3>3
    <2>3. DOMAIN cs = 1 .. Len(units) /\ cs = [i \in 1 .. Len(units) |-> cs[i]]
      BY <1>1
    <2> HIDE DEF cs
    <2>4. cs \in Seq(Seq(Characters))
      <3> DEFINE T == Seq(Characters)
      <3>1. \A i \in 1 .. Len(units) : cs[i] \in T
        BY <2>2
      <3> HIDE DEF T
      <3>2. cs \in Seq(T)
        BY <1>1, <2>3, <3>1, SequenceOf
      <3>3. QED
        BY <3>2 DEF T
    <2>5. QED
      BY <2>1, <2>4, FlattenType
  <1>3. ASSUME decodeUniversalString(units) # Error
        PROVE  decodeUniversalString(units) \in Seq(Characters)
    <2>1. decodeUniversalString(units) = units
          /\ \A i \in DOMAIN units : units[i] \notin {"half", "lead", "trail"}
      BY <1>3 DEF decodeUniversalString
    <2>2. \A i \in 1 .. Len(units) : units[i] \in Characters
      BY <1>1, <2>1
    <2>3. ToSet(units) \subseteq Characters
      BY <1>1, <2>2 DEF ToSet
    <2>4. units \in Seq(Characters)
      BY <2>3, Narrowed
    <2>5. QED
      BY <2>1, <2>4
  <1>4. QED
    BY <1>2, <1>3

(* A string of another program is read as characters, or refused.          *)
LEMMA ForeignStringRead ==
    ASSUME NEW rv \in ForeignStrings, parseDirectoryString(rv) # Error
    PROVE  parseDirectoryString(rv) \in Seq(Characters)
  <1> DEFINE U == Seq(Characters \cup {"lead", "trail", "half"})
             C == Seq(Characters)
  <1>1. \/ rv.tag \in {"printable", "utf8", "ia5", "t61"} /\ rv.bytes \in C
        \/ rv.tag \notin {"printable", "utf8", "ia5", "t61"} /\ rv.bytes \in U
    <2> DEFINE N == Strings \ {"printable", "utf8", "ia5", "t61"}
    <2>1. ForeignStrings = [tag : {"printable", "utf8", "ia5", "t61"}, bytes : C] \cup [tag : N, bytes : U]
      BY DEF ForeignStrings
    <2>2. \A x \in N : x \notin {"printable", "utf8", "ia5", "t61"}
      OBVIOUS
    <2> HIDE DEF N, U, C
    <2>3. QED
      BY <2>1, <2>2
  <1>2. CASE rv.tag \in {"printable", "utf8", "ia5", "t61"} /\ rv.bytes \in C
    BY <1>2 DEF parseDirectoryString
  <1>3. CASE rv.tag \notin {"printable", "utf8", "ia5", "t61"} /\ rv.bytes \in U
    <2>1. parseDirectoryString(rv) \in {decodeBMPString(rv.bytes), decodeUniversalString(rv.bytes)}
      BY <1>3 DEF parseDirectoryString
    <2> DEFINE units == rv.bytes
    <2>2. units \in U
      BY <1>3
    <2> HIDE DEF units
    <2>3. /\ decodeBMPString(units) = Error \/ decodeBMPString(units) \in C
          /\ decodeUniversalString(units) = Error \/ decodeUniversalString(units) \in C
      BY <2>2, WideStringRead
    <2>4. QED
      BY <2>1, <2>3 DEF units, C
  <1>4. QED
    BY <1>1, <1>2, <1>3

(* The requests of other programs are such requests.                       *)
LEMMA ForeignAskable == \A csr \in ForeignCSRs : Askable(csr)
  <1>1. SUFFICES ASSUME NEW csr \in ForeignCSRs
                 PROVE  Askable(csr)
    OBVIOUS
  <1> DEFINE R == [type : STRING, value : ForeignStrings, avas : Nat]
             s == csr.tbs.subject
  <1>2. /\ s \in Seq(R)
        /\ csr.tbs.spki.bytes \in KeyBytes
        /\ IsSequence(csr.tbs.attributes)
        /\ \A a \in ToSet(csr.tbs.attributes) : a.type = "extensionRequest" => AsksForNames(a)
    BY ForeignTypeAssumption DEF ForeignRequestsAre
  <1>3. \A r \in R : r.value \in ForeignStrings
    OBVIOUS
  <1> HIDE DEF R, s
  <1>4. DOMAIN s = 1 .. Len(s) /\ Len(s) \in Nat /\ \A i \in DOMAIN s : s[i].value \in ForeignStrings
    BY <1>2, <1>3
  <1>5. ASSUME NEW i \in DOMAIN s, Valued(s)[i] # Error
        PROVE  Valued(s)[i] \in Seq(Characters)
    <2>1. Valued(s)[i] = parseDirectoryString(s[i].value)
      BY <1>5 DEF Valued
    <2> DEFINE rv == s[i].value
    <2>2. rv \in ForeignStrings /\ parseDirectoryString(rv) # Error
      BY <1>4, <1>5, <2>1
    <2> HIDE DEF rv
    <2>3. parseDirectoryString(rv) \in Seq(Characters)
      BY <2>2, ForeignStringRead
    <2>4. QED
      BY <2>1, <2>3 DEF rv
  <1>6. IsSequence(s)
    BY <1>4 DEF IsSequence
  <1>7. QED
    BY <1>2, <1>5, <1>6 DEF Askable, s

-----------------------------------------------------------------------------
(* What a request says, own or foreign *)

(* A set of positions with at most one element.                            *)
LEMMA AtMostOne ==
    ASSUME NEW n \in Nat, NEW S, S \subseteq 1 .. n, ~(Cardinality(S) > 1), NEW x \in S
    PROVE  S = {x} /\ Max(S) = x
  <1>1. IsFiniteSet(S)
    <2>1. IsFiniteSet(1 .. n)
      BY FS_Interval
    <2>2. S \in SUBSET (1 .. n)
      OBVIOUS
    <2>3. QED
      BY <2>1, <2>2, FS_Subset
  <1>2. Cardinality(S) \in Nat
    BY <1>1, FS_CardinalityType
  <1>3. Cardinality(S) # 0
    BY <1>1, FS_EmptySet
  <1>4. Cardinality(S) = 1
    BY <1>2, <1>3
  <1>5. S = {x}
    BY <1>1, <1>4, FS_Singleton
  <1>6. Max({x}) = x
    BY MaxOfOne
  <1>7. QED
    BY <1>5, <1>6

(* The bytes of a kind that one list of extensions asks for.               *)
AskedIn(exts, tag) ==
    UNION {BytesOf(e.value, tag) : e \in {x \in ToSet(exts) : x.id = "subjectAltName"}}

(* Alternative names that are read are of their types, and all of those    *)
(* that are asked for.                                                     *)
NamesAsked(sans, dns, email, ip) ==
    /\ sans \in AltNames
    /\ ToSet(sans.dns) = dns
    /\ ToSet(sans.email) = email
    /\ ToSet(sans.ip) = ip

(* Where nothing is asked for, there are no names.                         *)
LEMMA NoneAsked == NamesAsked(EmptySANs, {}, {}, {})
  <1>1. EmptySANs.dns = <<>> /\ EmptySANs.email = <<>> /\ EmptySANs.ip = <<>>
    BY DEF EmptySANs
  <1>2. EmptySANs \in AltNames
    <2> DEFINE A == Seq(Strings)
               B == Seq(Hosts({4, 16}))
    <2>1. <<>> \in A /\ <<>> \in B
      OBVIOUS
    <2>2. AltNames = [dns : A, email : A, ip : B]
      BY DEF AltNames
    <2> HIDE DEF A, B
    <2>3. QED
      BY <2>1, <2>2 DEF EmptySANs
  <1>3. ToSet(<<>>) = {}
    BY DEF ToSet
  <1>4. QED
    BY <1>1, <1>2, <1>3 DEF NamesAsked

(* One list of extensions that asks for names once says all of them.       *)
LEMMA NamesOfExtensions ==
    ASSUME NEW exts, IsSequence(exts),
           \A e \in ToSet(exts) :
              e.id = "subjectAltName" /\ e.value # Error => e.value \in Seq(GeneralNames(Nat)),
           ~(Cardinality({i \in DOMAIN exts : exts[i].id = "subjectAltName"}) > 1),
           NEW r, r = ValueOf(exts, "subjectAltName", EmptySANs), r # Error
    PROVE  NamesAsked(r, AskedIn(exts, 2), AskedIn(exts, 1), AskedIn(exts, 7))
  <1> DEFINE K == {i \in DOMAIN exts : exts[i].id = "subjectAltName"}
             X == {x \in ToSet(exts) : x.id = "subjectAltName"}
  <1>1. DOMAIN exts = 1 .. Len(exts) /\ Len(exts) \in Nat
    BY DEF IsSequence
  <1>2. r = IF K = {} THEN EmptySANs ELSE ParsedValue(exts[Max(K)])
    BY DEF ValueOf
  <1>3. CASE K = {}
    <2>1. X = {}
      BY <1>3 DEF ToSet
    <2>2. AskedIn(exts, 2) = {} /\ AskedIn(exts, 1) = {} /\ AskedIn(exts, 7) = {}
      BY <2>1 DEF AskedIn
    <2>3. QED
      BY <1>2, <1>3, <2>2, NoneAsked
  <1>4. CASE K # {}
    <2>1. PICK k \in K : TRUE
      BY <1>4
    <2>2. K \subseteq 1 .. Len(exts) /\ ~(Cardinality(K) > 1)
      BY <1>1
    <2> HIDE DEF K
    <2>3. K = {k} /\ Max(K) = k
      BY <1>1, <2>1, <2>2, AtMostOne
    <2> DEFINE e == exts[k]
    <2>4. k \in DOMAIN exts /\ e.id = "subjectAltName"
      BY <2>1 DEF K
    <2>5. X = {e}
      <3>1. e \in X
        BY <2>4 DEF ToSet
      <3>2. ASSUME NEW x \in X
            PROVE  x = e
        <4>1. PICK i \in DOMAIN exts : x = exts[i]
          BY DEF ToSet
        <4>2. i \in K
          BY <4>1 DEF K
        <4>3. QED
          BY <2>3, <4>1, <4>2
      <3> HIDE DEF X, e
      <3>3. QED
        BY <3>1, <3>2
    <2>6. r = parseSANs(e.value)
      <3>1. ParsedValue(e) = parseSANs(e.value)
        BY <2>4 DEF ParsedValue
      <3>2. QED
        BY <1>2, <1>4, <2>3, <3>1
    <2>7. e.value # Error
      BY <2>6 DEF parseSANs
    <2>8. e.value \in Seq(GeneralNames(Nat))
      BY <2>4, <2>7 DEF ToSet
    <2>9. \A tag : AskedIn(exts, tag) = BytesOf(e.value, tag)
      BY <2>5 DEF AskedIn
    <2> DEFINE names == e.value
    <2>10. names \in Seq(GeneralNames(Nat)) /\ r = parseSANs(names)
      BY <2>6, <2>8
    <2>11. AskedIn(exts, 2) = BytesOf(names, 2) /\ AskedIn(exts, 1) = BytesOf(names, 1)
           /\ AskedIn(exts, 7) = BytesOf(names, 7)
      BY <2>9
    <2> HIDE DEF names
    <2>12. /\ r \in AltNames
           /\ ToSet(r.dns) = BytesOf(names, 2)
           /\ ToSet(r.email) = BytesOf(names, 1)
           /\ ToSet(r.ip) = BytesOf(names, 7)
      BY <2>10, SANsParsed
    <2>13. QED
      BY <2>11, <2>12 DEF NamesAsked
  <1>5. QED
    BY <1>3, <1>4

(* sansFromCSRAttributes returns all the names that a request asks for.    *)
LEMMA NamesOfAttributes ==
    ASSUME NEW csr, Askable(csr),
           NEW r, r = sansFromCSRAttributes(csr.tbs.attributes), r # Error
    PROVE  NamesAsked(r, RequestedSANs(csr, 2), RequestedSANs(csr, 1), RequestedSANs(csr, 7))
  <1> DEFINE attributes == csr.tbs.attributes
             asking == {i \in DOMAIN attributes : attributes[i].type = "extensionRequest"}
             A == {x \in ToSet(attributes) : x.type = "extensionRequest"}
  <1>1. /\ DOMAIN attributes = 1 .. Len(attributes) /\ Len(attributes) \in Nat
        /\ \A a \in ToSet(attributes) : a.type = "extensionRequest" => AsksForNames(a)
    BY DEF Askable, IsSequence
  <1>2. \A tag : RequestedSANs(csr, tag) = UNION {AskedIn(a.values[1], tag) : a \in A}
    BY DEF RequestedSANs, AskedIn, BytesOf
  <1>3. CASE asking = {}
    <2>1. A = {}
      BY <1>3 DEF ToSet
    <2>2. r = EmptySANs
      BY <1>3 DEF sansFromCSRAttributes
    <2>3. \A tag : RequestedSANs(csr, tag) = {}
      BY <1>2, <2>1
    <2>4. QED
      BY <2>2, <2>3, NoneAsked
  <1>4. CASE asking # {}
    <2>1. PICK k \in asking : TRUE
      BY <1>4
    <2>2. /\ ~(Cardinality(asking) > 1)
          /\ Len(attributes[Max(asking)].values) = 1
          /\ attributes[Max(asking)].values[1] # Error
          /\ ~(Cardinality({i \in DOMAIN attributes[Max(asking)].values[1] :
                  attributes[Max(asking)].values[1][i].id = "subjectAltName"}) > 1)
          /\ r = ValueOf(attributes[Max(asking)].values[1], "subjectAltName", EmptySANs)
      BY <1>4 DEF sansFromCSRAttributes
    <2>3. asking \subseteq 1 .. Len(attributes)
      BY <1>1
    <2> HIDE DEF asking
    <2>4. asking = {k} /\ Max(asking) = k
      BY <1>1, <2>1, <2>2, <2>3, AtMostOne
    <2> DEFINE a == attributes[k]
               exts == a.values[1]
    <2>5. k \in DOMAIN attributes /\ a.type = "extensionRequest"
      BY <2>1 DEF asking
    <2>6. A = {a}
      <3>1. a \in A
        BY <2>5 DEF ToSet
      <3>2. ASSUME NEW x \in A
            PROVE  x = a
        <4>1. PICK i \in DOMAIN attributes : x = attributes[i]
          BY DEF ToSet
        <4>2. i \in asking
          BY <4>1 DEF asking
        <4>3. QED
          BY <2>4, <4>1, <4>2
      <3> HIDE DEF A, a
      <3>3. QED
        BY <3>1, <3>2
    <2>7. AsksForNames(a)
      BY <1>1, <2>5 DEF ToSet
    <2>8. 1 \in DOMAIN a.values
      <3>1. Len(a.values) = 1
        BY <2>2, <2>4
      <3>2. DOMAIN a.values = 1 .. Len(a.values)
        BY <2>7 DEF AsksForNames, IsSequence
      <3> HIDE DEF a
      <3>3. QED
        BY <3>1, <3>2
    <2>9. /\ IsSequence(exts)
          /\ \A e \in ToSet(exts) :
                e.id = "subjectAltName" /\ e.value # Error => e.value \in Seq(GeneralNames(Nat))
      BY <2>2, <2>4, <2>7, <2>8 DEF AsksForNames
    <2>10. ~(Cardinality({i \in DOMAIN exts : exts[i].id = "subjectAltName"}) > 1)
           /\ r = ValueOf(exts, "subjectAltName", EmptySANs)
      BY <2>2, <2>4
    <2>11. \A tag : RequestedSANs(csr, tag) = AskedIn(exts, tag)
      BY <1>2, <2>6
    <2> HIDE DEF exts
    <2>12. NamesAsked(r, AskedIn(exts, 2), AskedIn(exts, 1), AskedIn(exts, 7))
      BY <2>9, <2>10, NamesOfExtensions
    <2>13. QED
      BY <2>11, <2>12
  <1>5. QED
    BY <1>3, <1>4

(* A request that is read says what it asks for.                           *)
RequestSays(r, csr) ==
    /\ r.subject \in Names
    /\ \A t \in ToSet(Types) \ {"CN"} : r.subject[t] = RequestedValues(csr, t)
    /\ r.subject["CN"] = CommonName(RequestedValues(csr, "CN"))
    /\ NamesAsked(r.sans, RequestedSANs(csr, 2), RequestedSANs(csr, 1), RequestedSANs(csr, 7))
    /\ r.key \in PublicKeys
    /\ r.key.alg = csr.tbs.spki.alg.oid

(* What ParseCertificateRequest returns says what was asked for.           *)
LEMMA RequestParsed ==
    ASSUME NEW csr, Askable(csr), NEW r, r = ParseCertificateRequest(csr), r # Error
    PROVE  RequestSays(r, csr)
  <1> DEFINE rdns == csr.tbs.subject
             spki == csr.tbs.spki
             sans == sansFromCSRAttributes(csr.tbs.attributes)
             key == publicKeyFromSPKI(spki)
             subject == ParseName(rdns)
  <1>1. /\ r.subject = subject /\ r.sans = sans /\ r.key = key
        /\ key # Error
        /\ ~Fails(<<subject, sans>>)
    BY DEF ParseCertificateRequest
  <1>2. subject # Error /\ sans # Error
    <2> HIDE DEF subject, sans
    <2>1. QED
      BY <1>1 DEF Fails
  <1>3. NamesAsked(sans, RequestedSANs(csr, 2), RequestedSANs(csr, 1), RequestedSANs(csr, 7))
    BY <1>2, NamesOfAttributes
  <1>4. key \in PublicKeys /\ key.alg = spki.alg.oid
    <2>1. /\ Valid(spki.alg.oid) /\ spki.bytes.size = Info[spki.alg.oid].pk
          /\ key = [alg |-> spki.alg.oid, bytes |-> spki.bytes]
      BY <1>1 DEF publicKeyFromSPKI
    <2>2. spki.bytes \in KeyBytes
      BY DEF Askable
    <2> HIDE DEF key, spki
    <2>3. QED
      BY <2>1, <2>2 DEF PublicKeys, Keys, Valid
  <1>5. ~Fails(Valued(rdns))
    <2>1. subject = IF Fails(Valued(rdns)) THEN Error ELSE subject
      BY DEF ParseName, Valued
    <2>2. QED
      BY <1>2, <2>1
  <1>6. DOMAIN rdns = 1 .. Len(rdns) /\ Len(rdns) \in Nat
    BY DEF Askable, IsSequence
  <1>7. \A i \in DOMAIN rdns : Valued(rdns)[i] # Error /\ Valued(rdns)[i] \in Seq(Characters)
    <2>1. DOMAIN Valued(rdns) = DOMAIN rdns
      BY DEF Valued
    <2>2. QED
      BY <1>5, <2>1 DEF Fails, Askable
  <1>8. NameOf(rdns, subject)
    BY <1>5, <1>6, <1>7, NameParsed
  <1>9. \A t : RequestedValues(csr, t) = Chosen(Valued(rdns), OfType(rdns, t))
    <2>1. \A i \in DOMAIN rdns : Valued(rdns)[i] = parseDirectoryString(rdns[i].value)
      BY <1>7 DEF Valued
    <2>2. Valued(rdns) = [i \in DOMAIN rdns |-> Valued(rdns)[i]]
      BY DEF Valued
    <2>3. Valued(rdns) = [i \in DOMAIN rdns |-> parseDirectoryString(rdns[i].value)]
      BY <2>1, <2>2
    <2>4. QED
      BY <2>3 DEF RequestedValues, OfType
  <1> HIDE DEF rdns, spki, sans, key, subject
  <1>10. QED
    BY <1>1, <1>3, <1>4, <1>8, <1>9 DEF RequestSays, NameOf, rdns, spki

(* A request of this library can be read, and says what it was made of.    *)
OwnRequest(csr, subject, pair, sans) ==
    /\ csr = CreateCertificateRequest(subject, Public(pair), pair, sans)
    /\ ToRDNSequence(subject) = <<>> => sans # EmptySANs
    /\ subject \in Names
    /\ pair \in Signers
    /\ sans \in AltNames

OwnRequestRead(r, csr, subject, pair, sans) ==
    /\ r # Error
    /\ r.subject = subject
    /\ r.sans = [dns |-> sans.dns, email |-> sans.email, ip |-> Stored(sans.ip)]
    /\ r.key = Public(pair)
    /\ r.alg = pair.alg /\ r.sig = csr.sig /\ r.rawTBS = csr.tbs

(* The attributes of a request of this library.                            *)
LEMMA OwnAttributes ==
    ASSUME NEW sans \in AltNames, NEW attributes, attributes = marshalCSRAttributes(sans)
    PROVE  /\ attributes \in Seq(Attributes)
           /\ IsSequence(attributes)
           /\ \A a \in ToSet(attributes) : a.type = "extensionRequest" => AsksForNames(a)
           /\ sansFromCSRAttributes(attributes)
                = [dns |-> sans.dns, email |-> sans.email, ip |-> Stored(sans.ip)]
           /\ [dns |-> sans.dns, email |-> sans.email, ip |-> Stored(sans.ip)] \in AltNames
           /\ sans = EmptySANs => attributes = <<>>
  <1> DEFINE n == [dns |-> sans.dns, email |-> sans.email, ip |-> Stored(sans.ip)]
  <1>1. CASE sans = EmptySANs
    <2>1. attributes = <<>>
      BY <1>1 DEF marshalCSRAttributes
    <2>2. n = EmptySANs
      <3>1. Stored(<<>>) = <<>>
        BY DEF Stored
      <3>2. QED
        BY <1>1, <3>1 DEF EmptySANs
    <2>3. sansFromCSRAttributes(<<>>) = EmptySANs
      BY DEF sansFromCSRAttributes
    <2>4. <<>> \in Seq(Attributes) /\ IsSequence(<<>>) /\ ToSet(<<>>) = {}
      BY DEF IsSequence, ToSet
    <2> HIDE DEF n
    <2>5. QED
      BY <1>1, <2>1, <2>2, <2>3, <2>4 DEF n
  <1>2. CASE sans # EmptySANs
    <2> DEFINE names == marshalSANs(sans)
               e == Extension("subjectAltName", FALSE, names)
               exts == <<e>>
               a == [type |-> "extensionRequest", values |-> <<exts>>]
               asking == {i \in DOMAIN attributes : attributes[i].type = "extensionRequest"}
    <2>1. attributes = <<a>>
      BY <1>2 DEF marshalCSRAttributes
    <2>2. /\ names \in Seq(GeneralNames({4, 16})) /\ names # Error
          /\ parseSANs(names) = n /\ n \in AltNames
      BY <1>2, SANsRead DEF SANsReadAs
    <2>3. e \in Extensions /\ e.id = "subjectAltName" /\ e.value = names
          /\ ParsedValue(e) = parseSANs(names)
      <3>1. names \in ExtensionValues
        BY <2>2 DEF ExtensionValues
      <3>2. "subjectAltName" \in CertificateExtensions \cup {"cRLNumber", "cRLReason"}
        BY DEF CertificateExtensions
      <3>3. FALSE \in BOOLEAN
        OBVIOUS
      <3> HIDE DEF names
      <3>4. e \in Extensions
        BY <3>1, <3>2, <3>3, ExtensionIs
      <3>5. e.id = "subjectAltName" /\ e.value = names
        BY DEF Extension
      <3>6. ParsedValue(e) = parseSANs(names)
        BY ValuesRead
      <3>7. QED
        BY <3>4, <3>5, <3>6
    <2> HIDE DEF names, e, n
    <2>4. /\ exts \in Seq(Extensions) /\ DOMAIN exts = 1 .. 1 /\ Len(exts) = 1 /\ exts[1] = e
      BY <2>3
    <2>5. /\ a \in Attributes /\ a.type = "extensionRequest" /\ a.values = <<exts>>
      <3> DEFINE Q == Seq(Extensions)
      <3>1. exts \in Q
        BY <2>4
      <3> HIDE DEF Q, exts
      <3>2. <<exts>> \in Seq(Q)
        BY <3>1
      <3>3. QED
        BY <3>2 DEF Attributes, Q
    <2> HIDE DEF a
    <2>6. /\ attributes \in Seq(Attributes) /\ DOMAIN attributes = 1 .. 1 /\ Len(attributes) = 1
          /\ attributes[1] = a
      BY <2>1, <2>5
    <2>7. /\ IsSequence(attributes) /\ IsSequence(exts)
          /\ Len(a.values) = 1 /\ DOMAIN a.values = 1 .. 1 /\ a.values[1] = exts
          /\ IsSequence(a.values)
      BY <2>4, <2>5, <2>6 DEF IsSequence
    <2>8. ToSet(attributes) = {a} /\ ToSet(exts) = {e}
      BY <2>4, <2>6 DEF ToSet
    <2>9. names \in Seq(GeneralNames(Nat))
      <3>1. GeneralNames({4, 16}) \subseteq GeneralNames(Nat)
        BY DEF GeneralNames, Hosts
      <3> DEFINE G == GeneralNames({4, 16})
                 H == GeneralNames(Nat)
      <3>2. names \in Seq(G) /\ G \subseteq H
        BY <2>2, <3>1
      <3> HIDE DEF G, H
      <3>3. names \in Seq(H)
        BY <3>2
      <3>4. QED
        BY <3>3 DEF H
    <2>10. AsksForNames(a)
      <3>1. \A k \in DOMAIN a.values : a.values[k] = exts
        BY <2>7
      <3>2. \A x \in ToSet(exts) : x.value \in Seq(GeneralNames(Nat))
        BY <2>3, <2>8, <2>9
      <3>3. QED
        BY <2>7, <3>1, <3>2 DEF AsksForNames
    <2>11. sansFromCSRAttributes(attributes) = n
      <3>1. asking = {1} /\ Max(asking) = 1 /\ Cardinality(asking) = 1
        <4>1. asking = {1}
          BY <2>5, <2>6
        <4>2. QED
          BY <4>1, OnlyOne
      <3> DEFINE having == {i \in DOMAIN exts : exts[i].id = "subjectAltName"}
      <3>2. having = {1} /\ Max(having) = 1 /\ Cardinality(having) = 1
        <4>1. having = {1}
          BY <2>3, <2>4
        <4>2. QED
          BY <4>1, OnlyOne
      <3>3. ValueOf(exts, "subjectAltName", EmptySANs) = n
        BY <2>2, <2>3, <2>4, <3>2 DEF ValueOf
      <3>4. exts # Error
        BY <2>4, TypeAssumption DEF NoValue
      <3>5. attributes[Max(asking)].values[1] = exts /\ Len(attributes[Max(asking)].values) = 1
        BY <2>6, <2>7, <3>1
      <3> HIDE DEF exts
      <3>6. QED
        BY <3>1, <3>2, <3>3, <3>4, <3>5 DEF sansFromCSRAttributes
    <2>12. QED
      BY <1>2, <2>2, <2>6, <2>7, <2>8, <2>10, <2>11 DEF n
  <1>3. QED
    BY <1>1, <1>2

(* A name of which nothing is written is empty.                            *)
LEMMA NothingWritten ==
    ASSUME NEW n \in Names, ToRDNSequence(n) = <<>>
    PROVE  n = EmptyName /\ n["CN"] = <<>>
  <1> DEFINE rdns == ToRDNSequence(n)
             v == Valued(rdns)
  <1>1. RDNsOf(n, rdns)
    BY NameWritten
  <1>2. \A t \in ToSet(Types) : Chosen(v, OfType(rdns, t)) = n[t]
    BY <1>1 DEF RDNsOf
  <1>3. v = <<>> /\ \A t \in ToSet(Types) : OfType(rdns, t) = {}
    BY DEF Valued, OfType
  <1>4. Chosen(<<>>, {}) = <<>>
    <2>1. <<>> \in Seq(Nat) /\ {} \subseteq 1 .. Len(<<>>)
      OBVIOUS
    <2> DEFINE c == Chosen(<<>>, {})
    <2>2. c \in Seq(Nat) /\ ToSet(c) = {<<>>[i] : i \in {}}
      BY <2>1, ChosenElements
    <2> HIDE DEF c
    <2>3. ToSet(c) = {}
      BY <2>2
    <2>4. c = <<>>
      <3>1. DOMAIN c = 1 .. Len(c) /\ Len(c) \in Nat /\ c = [i \in 1 .. Len(c) |-> c[i]]
        BY <2>2
      <3>2. \A i \in 1 .. Len(c) : c[i] \in ToSet(c)
        BY <3>1 DEF ToSet
      <3>3. Len(c) = 0
        BY <2>3, <3>1, <3>2
      <3>4. QED
        BY <2>2, <3>3
    <2>5. QED
      BY <2>4 DEF c
  <1> HIDE DEF v
  <1>5. \A t \in ToSet(Types) : n[t] = <<>>
    BY <1>2, <1>3, <1>4
  <1>6. n \in [ToSet(Types) -> Seq(Seq(Characters))]
    BY DEF Names
  <1>7. n = EmptyName
    BY <1>5, <1>6 DEF EmptyName
  <1>8. QED
    BY <1>5, <1>7, TypesAre

(* The content of a request of this library.                               *)
LEMMA OwnRequestIs ==
    ASSUME NEW csr, NEW subject, NEW pair, NEW sans, OwnRequest(csr, subject, pair, sans)
    PROVE  /\ csr \in DocumentsOf(SignedRequests) /\ csr # Error
           /\ Askable(csr)
           /\ OwnRequestRead(ParseCertificateRequest(csr), csr, subject, pair, sans)
           /\ csr.tbs.spki.alg.oid = pair.alg
           /\ sans = EmptySANs => csr.tbs.attributes = <<>>
           /\ RequestedValues(csr, "CN") = subject["CN"]
           /\ csr.sig.over = csr.tbs /\ csr.sig.by = Public(pair)
           /\ csr.sig.size = Info[pair.alg].sig
  <1> DEFINE name == ToRDNSequence(subject)
             pub == Public(pair)
             spki == MarshalPKIXPublicKey(pub)
             attributes == marshalCSRAttributes(sans)
             info == [version |-> 0, subject |-> name, spki |-> spki, attributes |-> attributes]
             n == [dns |-> sans.dns, email |-> sans.email, ip |-> Stored(sans.ip)]
  <1>1. subject \in Names /\ pair \in Signers /\ sans \in AltNames
    BY DEF OwnRequest
  <1>3. name # Error /\ spki # Error
    BY <1>1, NameWritable, PublicKeyIs, KeyMarshalled
  <1>2. csr = [tbs |-> info, alg |-> Identifier(pub.alg), sig |-> Sign(pair, info), rest |-> FALSE]
    <2>1. csr = IF (name = <<>> /\ sans = EmptySANs) \/ Fails(<<name, spki>>) THEN Error
                ELSE [tbs |-> info, alg |-> Identifier(pub.alg), sig |-> Sign(pair, info), rest |-> FALSE]
      BY DEF OwnRequest, CreateCertificateRequest
    <2>2. ~(name = <<>> /\ sans = EmptySANs)
      BY DEF OwnRequest
    <2> HIDE DEF name, spki, info, pub
    <2>3. ~Fails(<<name, spki>>)
      BY <1>3 DEF Fails
    <2>4. QED
      BY <2>1, <2>2, <2>3
  <1>4. RDNsOf(subject, name) /\ ParseName(name) = subject
    BY <1>1, NameWritten
  <1>5. pub \in PublicKeys /\ pub.alg = pair.alg
    BY <1>1, PublicKeyIs
  <1>6. /\ spki \in SubjectKeys /\ publicKeyFromSPKI(spki) = pub /\ spki.alg.oid = pub.alg
        /\ pub # Error
    <2> HIDE DEF pub
    <2>1. QED
      BY <1>5, KeyMarshalled
  <1>7. /\ IsSequence(attributes) /\ attributes \in Seq(Attributes)
        /\ \A a \in ToSet(attributes) : a.type = "extensionRequest" => AsksForNames(a)
        /\ sansFromCSRAttributes(attributes) = n
        /\ n \in AltNames
        /\ sans = EmptySANs => attributes = <<>>
    BY <1>1, OwnAttributes
  <1> HIDE DEF name, pub, spki, attributes, n
  <1>8. info.version = 0 /\ info.subject = name /\ info.spki = spki /\ info.attributes = attributes
    OBVIOUS
  <1> HIDE DEF info
  <1>9. /\ Identifier(pair.alg).oid = pair.alg /\ ~Identifier(pair.alg).params
        /\ Sign(pair, info).over = info /\ Sign(pair, info).by = pub
        /\ Sign(pair, info).size = Info[pair.alg].sig
        /\ ~Sign(pair, info).unused
        /\ Valid(pair.alg)
    <2>1. info \in {info}
      OBVIOUS
    <2>2. QED
      BY <1>1, <2>1, SignatureIs DEF pub
  <1>10. /\ csr.tbs = info /\ csr.alg = Identifier(pair.alg) /\ csr.sig = Sign(pair, info) /\ ~csr.rest
    BY <1>2, <1>5
  <1>11. SignatureReadable(csr)
    BY <1>9, <1>10 DEF SignatureReadable
  <1>12. name \in Seq(RDNs) /\ \A i \in 1 .. Len(name) : Valued(name)[i] \in Seq(Characters)
    BY <1>4 DEF RDNsOf
  <1>13. Askable(csr)
    <2>1. spki.bytes \in KeyBytes
      BY <1>6 DEF SubjectKeys
    <2>2. IsSequence(name) /\ \A i \in DOMAIN name : Valued(name)[i] \in Seq(Characters)
      BY <1>12 DEF IsSequence
    <2>3. QED
      BY <1>7, <1>8, <1>10, <2>1, <2>2 DEF Askable
  <1> DEFINE r == [subject |-> ParseName(name), key |-> publicKeyFromSPKI(spki),
                   alg |-> csr.alg.oid, sig |-> csr.sig, rawTBS |-> info,
                   sans |-> sansFromCSRAttributes(attributes)]
  <1>14. /\ r.subject = subject /\ r.key = pub /\ r.alg = pair.alg /\ r.sig = csr.sig /\ r.rawTBS = csr.tbs
         /\ r.sans = n
    BY <1>4, <1>6, <1>7, <1>9, <1>10
  <1>15. ParseCertificateRequest(csr) = r
    <2>1. ParseCertificateRequest(csr) =
            IF \/ csr.rest
               \/ info.version # 0
               \/ r.key = Error
               \/ ~SignatureReadable(csr)
               \/ csr.alg.oid # r.key.alg
               \/ Fails(<<r.subject, r.sans>>)
              THEN Error
              ELSE r
      BY <1>8, <1>10 DEF ParseCertificateRequest
    <2>2. subject # Error /\ n # Error
      BY <1>1, <1>7, TypeAssumption DEF NoValue
    <2> HIDE DEF r
    <2>3. ~Fails(<<r.subject, r.sans>>)
      BY <1>14, <2>2 DEF Fails
    <2>4. QED
      BY <1>5, <1>6, <1>8, <1>9, <1>10, <1>11, <1>14, <2>1, <2>3
  <1> HIDE DEF r
  <1>16. info \in SignedRequests
    <2> DEFINE R == Seq(RDNs)
               A == Seq(Attributes)
    <2>1. name \in R /\ attributes \in A /\ spki \in SubjectKeys
      BY <1>6, <1>7, <1>12
    <2>2. SignedRequests = [version : {0}, subject : R, spki : SubjectKeys, attributes : A]
      BY DEF SignedRequests
    <2> HIDE DEF R, A
    <2>3. QED
      BY <2>1, <2>2 DEF info
  <1> DEFINE T == Signatures(SignedRequests)
  <1>a. csr.sig \in T /\ Identifier(pair.alg) \in Identifiers
    BY <1>1, <1>10, <1>16, SignatureIs
  <1>b. csr \in DocumentsOf(SignedRequests)
    <2>1. DocumentsOf(SignedRequests)
            = [tbs : SignedRequests, alg : Identifiers, sig : T, rest : {FALSE}]
      BY DEF DocumentsOf
    <2>2. csr = [tbs |-> info, alg |-> Identifier(pair.alg), sig |-> csr.sig, rest |-> FALSE]
      BY <1>2, <1>5, <1>10
    <2> HIDE DEF T
    <2>3. QED
      BY <1>a, <1>16, <2>1, <2>2
  <1>c. r # Error
    <2>1. Requests = [subject : Names, key : Keys, alg : DOMAIN Info, sig : T,
                      rawTBS : SignedRequests, sans : AltNames]
      BY DEF Requests
    <2>2. r = [subject |-> subject, key |-> pub, alg |-> pair.alg, sig |-> csr.sig,
               rawTBS |-> info, sans |-> n]
      BY <1>4, <1>6, <1>7, <1>9, <1>10 DEF r
    <2>3. pub \in Keys /\ pair.alg \in DOMAIN Info
      BY <1>1, <1>5 DEF PublicKeys, Signers
    <2> HIDE DEF T
    <2>4. r \in Requests
      BY <1>1, <1>7, <1>16, <1>a, <2>1, <2>2, <2>3
    <2>5. QED
      BY <2>4, TypeAssumption DEF NoValue
  <1>17. RequestedValues(csr, "CN") = subject["CN"]
    <2>1. ~Fails(Valued(name)) /\ Chosen(Valued(name), OfType(name, "CN")) = subject["CN"]
      BY <1>4, TypesAre DEF RDNsOf
    <2>2. \A i \in DOMAIN name : Valued(name)[i] # Error
      BY <2>1 DEF Fails, Valued
    <2>3. \A i \in DOMAIN name : Valued(name)[i] = parseDirectoryString(name[i].value)
      BY <2>2 DEF Valued
    <2>4. Valued(name) = [i \in DOMAIN name |-> Valued(name)[i]]
      BY DEF Valued
    <2>5. Valued(name) = [i \in DOMAIN name |-> parseDirectoryString(name[i].value)]
      BY <2>3, <2>4
    <2>6. QED
      BY <1>8, <1>10, <2>1, <2>5 DEF RequestedValues, OfType
  <1>18. csr # Error
    BY <1>b, TypeAssumption DEF NoValue
  <1>19. QED
    BY <1>3, <1>6, <1>5, <1>7, <1>8, <1>9, <1>10, <1>13, <1>14, <1>15, <1>b, <1>c, <1>17, <1>18
       DEF OwnRequestRead, name, pub, n

(* A CSR can be made of everything but nothing.                            *)
LEMMA CSRRefused ==
    ASSUME NEW s \in Names, NEW p \in Signers, NEW n \in AltNames,
           CreateCertificateRequest(s, Public(p), p, n) = Error
    PROVE  s = EmptyName /\ n = EmptySANs
  <1> DEFINE csr == CreateCertificateRequest(s, Public(p), p, n)
  <1>1. ASSUME ToRDNSequence(s) = <<>> => n # EmptySANs
        PROVE  FALSE
    <2>1. OwnRequest(csr, s, p, n)
      BY <1>1 DEF OwnRequest
    <2> HIDE DEF csr
    <2>2. csr # Error
      BY <2>1, OwnRequestIs
    <2>3. QED
      BY <2>2 DEF csr
  <1>2. QED
    BY <1>1, NothingWritten

-----------------------------------------------------------------------------
(* Lemmas about lists as they are read back *)

(* What Publish gives to CreateRevocationList.                             *)
ListIs(issuer, signer, number, entries, this, next) ==
    /\ Readable(issuer.rawSubject)
    /\ issuer.key \in PublicKeys
    /\ signer \in Signers /\ Public(signer) = issuer.key
    /\ number \in Nat
    /\ entries \in Seq(EntriesOfLists)
    /\ \A i \in DOMAIN entries : entries[i].time % 2 = 0
    /\ this \in Int /\ this % 2 = 0 /\ next \in Int /\ next % 2 = 0

ListReadFrom(list, issuer, signer, number, entries, this, next) ==
    /\ list \in Lists
    /\ list.rawIssuer = issuer.rawSubject
    /\ list.alg = signer.alg
    /\ list.sig = Sign(signer, list.rawTBS)
    /\ list.number = number
    /\ list.entries = entries
    /\ list.thisUpdate = this
    /\ list.nextUpdate = next

(* An entry is read as it was written, a reason of zero too.               *)
WrittenEntries == [serial : Nat, date : Dates, exts : Seq(Extensions)]

(* What RevokedCertificate writes of an entry is read as that entry.       *)
LEMMA EntryRead ==
    ASSUME NEW entry \in EntriesOfLists, entry.time % 2 = 0, NEW w, w = RevokedCertificate(entry),
           w.date # Error
    PROVE  /\ w \in WrittenEntries
           /\ w.serial = entry.serial
           /\ parseTime(w.date) = entry.time
           /\ ValueOf(w.exts, "cRLReason", 0) = entry.reason
           /\ entry = [serial |-> w.serial, time |-> parseTime(w.date),
                       reason |-> ValueOf(w.exts, "cRLReason", 0)]
           /\ \A j \in DOMAIN w.exts : ~w.exts[j].critical
  <1>1. /\ entry.serial \in Nat \ {0} /\ entry.time \in Nat /\ entry.reason \in Nat
        /\ entry = [serial |-> entry.serial, time |-> entry.time, reason |-> entry.reason]
    BY DEF EntriesOfLists
  <1> DEFINE e == Extension("cRLReason", FALSE, entry.reason)
             exts == IF entry.reason = 0 THEN <<>> ELSE <<e>>
             date == marshalTime(entry.time)
  <1>2. w = [serial |-> entry.serial, date |-> date, exts |-> exts]
    BY DEF RevokedCertificate
  <1>3. date \in Dates /\ parseTime(date) = entry.time
    <2>1. date # Error
      BY <1>2
    <2>2. QED
      BY <1>1, <2>1, TimeRead
  <1>4. e \in Extensions /\ e.id = "cRLReason" /\ ParsedValue(e) = entry.reason /\ ~e.critical
    <2>1. entry.reason \in ExtensionValues
      BY <1>1 DEF ExtensionValues
    <2>2. "cRLReason" \in CertificateExtensions \cup {"cRLNumber", "cRLReason"}
      OBVIOUS
    <2>3. FALSE \in BOOLEAN
      OBVIOUS
    <2>4. e \in Extensions
      BY <2>1, <2>2, <2>3, ExtensionIs
    <2>5. e.id = "cRLReason" /\ ~e.critical
      BY DEF Extension
    <2>6. ParsedValue(e) = entry.reason
      BY ValuesRead
    <2>7. QED
      BY <2>4, <2>5, <2>6
  <1> HIDE DEF e, date
  <1>5. exts \in Seq(Extensions) /\ \A j \in DOMAIN exts : ~exts[j].critical
    <2>1. CASE entry.reason = 0
      BY <2>1
    <2>2. CASE entry.reason # 0
      <3>1. exts = <<e>>
        BY <2>2
      <3>2. QED
        BY <1>4, <3>1
    <2>3. QED
      BY <2>1, <2>2
  <1>6. ValueOf(exts, "cRLReason", 0) = entry.reason
    <2>1. CASE entry.reason = 0
      BY <2>1 DEF ValueOf
    <2>2. CASE entry.reason # 0
      <3>1. exts = <<e>>
        BY <2>2
      <3> DEFINE s == <<e>>
                 having == {i \in DOMAIN s : s[i].id = "cRLReason"}
      <3>2. DOMAIN s = {1} /\ s[1] = e
        OBVIOUS
      <3> HIDE DEF s
      <3>3. having = {1} /\ Max(having) = 1
        <4>1. having = {1}
          BY <1>4, <3>2
        <4>2. QED
          BY <4>1, MaxOfOne
      <3>4. ValueOf(s, "cRLReason", 0) = ParsedValue(e)
        BY <3>2, <3>3 DEF ValueOf
      <3>5. QED
        BY <1>4, <3>1, <3>4 DEF s
    <2>3. QED
      BY <2>1, <2>2
  <1> HIDE DEF exts
  <1>7. w.serial = entry.serial /\ w.date = date /\ w.exts = exts
    BY <1>2
  <1>8. w \in WrittenEntries
    <2> DEFINE Q == Seq(Extensions)
    <2>1. exts \in Q /\ WrittenEntries = [serial : Nat, date : Dates, exts : Q]
      BY <1>5 DEF WrittenEntries
    <2> HIDE DEF Q
    <2>2. QED
      BY <1>1, <1>2, <1>3, <2>1
  <1>9. QED
    BY <1>1, <1>3, <1>5, <1>6, <1>7, <1>8

(* The two extensions of a list.                                           *)
LEMMA ListExtensions ==
    ASSUME NEW pub \in PublicKeys, NEW number \in Nat, NEW exts,
           exts = <<Extension("authorityKeyID", FALSE, KeyIdentifier(pub)),
                    Extension("cRLNumber", FALSE, number)>>
    PROVE  /\ exts \in Seq(Extensions)
           /\ ExtensionsAllowed(exts, {"authorityKeyID", "cRLNumber"})
           /\ ValueOf(exts, "authorityKeyID", NULL) = pub.bytes
           /\ ValueOf(exts, "cRLNumber", NULL) = number
           /\ pub.bytes \in KeyBytes
  <1> DEFINE id == KeyIdentifier(pub)
             a == Extension("authorityKeyID", FALSE, id)
             n == Extension("cRLNumber", FALSE, number)
  <1>1. id = pub.bytes /\ pub.bytes \in KeyBytes
    BY KeyMarshalled DEF KeyIdentifier
  <1>2. id \in ExtensionValues /\ number \in ExtensionValues
    BY <1>1 DEF ExtensionValues
  <1>3. /\ "authorityKeyID" \in CertificateExtensions \cup {"cRLNumber", "cRLReason"}
        /\ "cRLNumber" \in CertificateExtensions \cup {"cRLNumber", "cRLReason"}
    BY DEF CertificateExtensions
  <1>4. FALSE \in BOOLEAN
    OBVIOUS
  <1> HIDE DEF id
  <1>5. a \in Extensions /\ n \in Extensions
    BY <1>2, <1>3, <1>4, ExtensionIs
  <1>6. a.id = "authorityKeyID" /\ ~a.critical /\ n.id = "cRLNumber" /\ ~n.critical
    BY DEF Extension
  <1>7. ParsedValue(a) = id /\ ParsedValue(n) = number
    BY ValuesRead
  <1>8. a.id # n.id
    BY <1>6
  <1> HIDE DEF a, n
  <1>9. exts = <<a, n>>
    BY DEF a, n, id
  <1> DEFINE s == <<a, n>>
  <1>10. DOMAIN s = {1, 2} /\ s[1] = a /\ s[2] = n /\ s \in Seq(Extensions)
    BY <1>5
  <1>11. exts = s
    BY <1>9
  <1> HIDE DEF s
  <1>12. Has(s, a) /\ Has(s, n)
    BY <1>10 DEF Has
  <1>13. ExtensionsAllowed(s, {"authorityKeyID", "cRLNumber"})
    <2>1. s[1].id # s[2].id
      BY <1>8, <1>10
    <2>2. \A i, j \in DOMAIN s : i # j => s[i].id # s[j].id
      BY <1>10, <2>1
    <2>3. \A i \in DOMAIN s : ~s[i].critical
      BY <1>6, <1>10
    <2>4. QED
      BY <2>2, <2>3 DEF ExtensionsAllowed
  <1>14. DOMAIN s \subseteq Int
    BY <1>10
  <1>15. ValueOf(s, a.id, NULL) = ParsedValue(a) /\ ValueOf(s, n.id, NULL) = ParsedValue(n)
    BY <1>12, <1>13, <1>14, ValueFound
  <1>16. QED
    BY <1>1, <1>6, <1>7, <1>10, <1>11, <1>13, <1>15

(* The entries as ParseRevocationList returns them.                        *)
EntriesRead(revoked) ==
    [i \in DOMAIN revoked |->
        [serial |-> revoked[i].serial, time |-> parseTime(revoked[i].date),
         reason |-> ValueOf(revoked[i].exts, "cRLReason", 0)]]

(* All the entries of a list are read as they were written.                *)
LEMMA EntriesReadBack ==
    ASSUME NEW entries \in Seq(EntriesOfLists), \A i \in DOMAIN entries : entries[i].time % 2 = 0,
           NEW revoked, revoked = [i \in DOMAIN entries |-> RevokedCertificate(entries[i])],
           \A i \in DOMAIN entries : revoked[i].date # Error
    PROVE  /\ revoked \in Seq(WrittenEntries)
           /\ DOMAIN revoked = DOMAIN entries
           /\ EntriesRead(revoked) = entries
           /\ \A i \in DOMAIN revoked : \A j \in DOMAIN revoked[i].exts : ~revoked[i].exts[j].critical
  <1>1. DOMAIN revoked = DOMAIN entries /\ \A i \in DOMAIN entries : revoked[i] = RevokedCertificate(entries[i])
    OBVIOUS
  <1>2. ASSUME NEW i \in DOMAIN entries
        PROVE  /\ revoked[i] \in WrittenEntries
               /\ entries[i] = [serial |-> revoked[i].serial, time |-> parseTime(revoked[i].date),
                                reason |-> ValueOf(revoked[i].exts, "cRLReason", 0)]
               /\ \A j \in DOMAIN revoked[i].exts : ~revoked[i].exts[j].critical
    <2>1. entries[i] \in EntriesOfLists /\ entries[i].time % 2 = 0
      OBVIOUS
    <2>2. revoked[i] = RevokedCertificate(entries[i]) /\ revoked[i].date # Error
      OBVIOUS
    <2>3. QED
      BY <2>1, <2>2, EntryRead
  <1>3. revoked \in Seq(WrittenEntries)
    <2>1. Len(entries) \in Nat /\ DOMAIN entries = 1 .. Len(entries)
      OBVIOUS
    <2> DEFINE f == [i \in 1 .. Len(entries) |-> RevokedCertificate(entries[i])]
    <2>2. revoked = f
      BY <2>1
    <2> HIDE DEF f
    <2>3. f = [i \in 1 .. Len(entries) |-> f[i]] /\ \A i \in 1 .. Len(entries) : f[i] \in WrittenEntries
      BY <1>2, <2>1, <2>2 DEF f
    <2>4. QED
      BY <2>1, <2>2, <2>3
  <1>4. EntriesRead(revoked) = entries
    <2>1. EntriesRead(revoked) =
            [i \in DOMAIN entries |->
               [serial |-> revoked[i].serial, time |-> parseTime(revoked[i].date),
                reason |-> ValueOf(revoked[i].exts, "cRLReason", 0)]]
      BY <1>1 DEF EntriesRead
    <2>2. EntriesRead(revoked) = [i \in DOMAIN entries |-> entries[i]]
      BY <1>2, <2>1, Zenon
    <2>3. QED
      BY <2>2
  <1>5. QED
    BY <1>1, <1>2, <1>3, <1>4

(* What is signed of a list.                                               *)
ListExts(pub, number) ==
    <<Extension("authorityKeyID", FALSE, KeyIdentifier(pub)),
      Extension("cRLNumber", FALSE, number)>>

ListContent(issuer, signer, revoked, exts, this, next) ==
    [version |-> 1, alg |-> Identifier(signer.alg), issuer |-> issuer.rawSubject,
     thisUpdate |-> marshalTime(this), nextUpdate |-> marshalTime(next),
     revoked |-> revoked, exts |-> exts]

(* What ParseRevocationList returns of a list with both times.             *)
ListRead(der) ==
    [issuer |-> ParseName(der.tbs.issuer), rawIssuer |-> der.tbs.issuer, alg |-> der.alg.oid,
     sig |-> der.sig, rawTBS |-> der.tbs,
     thisUpdate |-> parseTime(der.tbs.thisUpdate), nextUpdate |-> parseTime(der.tbs.nextUpdate),
     number |-> ValueOf(der.tbs.exts, "cRLNumber", NULL),
     authorityKeyID |-> ValueOf(der.tbs.exts, "authorityKeyID", NULL),
     entries |-> EntriesRead(der.tbs.revoked)]

(* ParseRevocationList returns it when no part of it is refused.           *)
LEMMA ListAcceptedWhen ==
    ASSUME NEW der, NEW list, list = ListRead(der),
           ~der.rest, SignatureReadable(der), ~der.tbs.alg.params, der.tbs.version = 1,
           der.tbs.nextUpdate.tag # "absent",
           ExtensionsAllowed(der.tbs.exts, {"authorityKeyID", "cRLNumber"}),
           list.issuer # Error, list.thisUpdate # Error, list.nextUpdate # Error,
           list.number # Error, list.authorityKeyID # Error,
           \A i \in DOMAIN list.entries :
              list.entries[i].time # Error /\ list.entries[i].reason # Error,
           \A i \in DOMAIN der.tbs.revoked :
              \A j \in DOMAIN der.tbs.revoked[i].exts : ~der.tbs.revoked[i].exts[j].critical
    PROVE  ParseRevocationList(der) = list
  <1> DEFINE fields == {"issuer", "thisUpdate", "nextUpdate", "number", "authorityKeyID"}
  <1>1. list.entries = EntriesRead(der.tbs.revoked)
    BY DEF ListRead
  <1>2. DOMAIN EntriesRead(der.tbs.revoked) = DOMAIN der.tbs.revoked
    BY DEF EntriesRead
  <1>3. ParseRevocationList(der) =
          IF \/ der.rest
             \/ ~SignatureReadable(der)
             \/ der.tbs.alg.params
             \/ der.tbs.version # 1 /\ der.tbs.exts # <<>>
             \/ ~ExtensionsAllowed(der.tbs.exts, {"authorityKeyID", "cRLNumber"})
             \/ \E field \in fields : list[field] = Error
             \/ \E i \in DOMAIN list.entries : Fails(<<list.entries[i].time, list.entries[i].reason>>)
             \/ \E i \in DOMAIN list.entries : \E j \in DOMAIN der.tbs.revoked[i].exts :
                  /\ der.tbs.revoked[i].exts[j].critical
                  /\ der.tbs.revoked[i].exts[j].id # "cRLReason"
            THEN Error
            ELSE list
    BY <1>1 DEF ParseRevocationList, ListRead, EntriesRead
  <1>4. \A field \in fields : list[field] # Error
    OBVIOUS
  <1>5. ASSUME NEW i \in DOMAIN list.entries
        PROVE  ~Fails(<<list.entries[i].time, list.entries[i].reason>>)
    BY DEF Fails
  <1> HIDE DEF fields
  <1>6. QED
    BY <1>1, <1>2, <1>3, <1>4, <1>5, Zenon

(* What CreateRevocationList writes has the types of a list.               *)
LEMMA ListWritten ==
    ASSUME NEW issuer, NEW signer, NEW number, NEW entries, NEW this, NEW next,
           ListIs(issuer, signer, number, entries, this, next),
           NEW der, der = CreateRevocationList(issuer, signer, number, entries, this, next),
           der # Error
    PROVE  /\ der.tbs \in SignedLists
           /\ der = [tbs |-> der.tbs, alg |-> Identifier(signer.alg), sig |-> Sign(signer, der.tbs),
                     rest |-> FALSE]
           /\ der.tbs.version = 1 /\ der.tbs.alg = Identifier(signer.alg)
           /\ der.tbs.issuer = issuer.rawSubject
           /\ der.tbs.thisUpdate = marshalTime(this) /\ marshalTime(this) # Error
           /\ der.tbs.nextUpdate = marshalTime(next) /\ marshalTime(next) # Error
           /\ EntriesRead(der.tbs.revoked) = entries
           /\ \A i \in DOMAIN der.tbs.revoked :
                 \A j \in DOMAIN der.tbs.revoked[i].exts : ~der.tbs.revoked[i].exts[j].critical
           /\ der.tbs.exts = ListExts(issuer.key, number)
  <1> DEFINE revoked == [i \in DOMAIN entries |-> RevokedCertificate(entries[i])]
             exts == ListExts(issuer.key, number)
             tbs == ListContent(issuer, signer, revoked, exts, this, next)
             alg == Identifier(signer.alg)
  <1>1. /\ Readable(issuer.rawSubject) /\ issuer.key \in PublicKeys /\ signer \in Signers
        /\ number \in Nat /\ entries \in Seq(EntriesOfLists)
        /\ \A i \in DOMAIN entries : entries[i].time % 2 = 0
        /\ this \in Int /\ this % 2 = 0 /\ next \in Int /\ next % 2 = 0
    BY DEF ListIs
  <1>2. /\ der = [tbs |-> tbs, alg |-> alg, sig |-> Sign(signer, tbs), rest |-> FALSE]
        /\ ~Fails(<<marshalTime(this), marshalTime(next)>>)
        /\ \A i \in DOMAIN entries : revoked[i].date # Error
    BY DEF CreateRevocationList, ListContent, ListExts
  <1>3. marshalTime(this) # Error /\ marshalTime(next) # Error
    BY <1>2 DEF Fails
  <1>4. /\ revoked \in Seq(WrittenEntries)
        /\ EntriesRead(revoked) = entries
        /\ \A i \in DOMAIN revoked : \A j \in DOMAIN revoked[i].exts : ~revoked[i].exts[j].critical
    <2> DEFINE r == revoked
    <2>1. r = [i \in DOMAIN entries |-> RevokedCertificate(entries[i])]
      OBVIOUS
    <2>2. \A i \in DOMAIN entries : r[i].date # Error
      BY <1>2
    <2> HIDE DEF r
    <2>3. /\ r \in Seq(WrittenEntries)
          /\ EntriesRead(r) = entries
          /\ \A i \in DOMAIN r : \A j \in DOMAIN r[i].exts : ~r[i].exts[j].critical
      BY <1>1, <2>1, <2>2, EntriesReadBack
    <2>4. QED
      BY <2>3 DEF r
  <1>5. exts \in Seq(Extensions)
    BY <1>1, ListExtensions DEF ListExts
  <1>6. marshalTime(this) \in Dates /\ marshalTime(next) \in Dates
    BY <1>1, <1>3, TimeRead
  <1>7. issuer.rawSubject \in Seq(RDNs)
    BY <1>1 DEF Readable, RDNsOf
  <1>8. alg \in Identifiers
    BY <1>1, SignatureIs
  <1> HIDE DEF revoked, exts, alg
  <1>9. tbs = [version |-> 1, alg |-> alg, issuer |-> issuer.rawSubject,
               thisUpdate |-> marshalTime(this), nextUpdate |-> marshalTime(next),
               revoked |-> revoked, exts |-> exts]
    BY DEF ListContent, alg
  <1> HIDE DEF tbs
  <1>10. tbs \in SignedLists
    <2> DEFINE R == Seq(RDNs)
               W == Seq(WrittenEntries)
               Q == Seq(Extensions)
    <2>1. issuer.rawSubject \in R /\ revoked \in W /\ exts \in Q
      BY <1>4, <1>5, <1>7
    <2>2. SignedLists = [version : {1}, alg : Identifiers, issuer : R, thisUpdate : Dates,
                         nextUpdate : Dates, revoked : W, exts : Q]
      BY DEF SignedLists, WrittenEntries
    <2> HIDE DEF R, W, Q
    <2>3. QED
      BY <1>6, <1>8, <1>9, <2>1, <2>2
  <1>11. /\ tbs.version = 1 /\ tbs.alg = alg /\ tbs.issuer = issuer.rawSubject
         /\ tbs.thisUpdate = marshalTime(this) /\ tbs.nextUpdate = marshalTime(next)
         /\ tbs.revoked = revoked /\ tbs.exts = exts
    BY <1>9
  <1>12. der.tbs = tbs /\ der = [tbs |-> tbs, alg |-> alg, sig |-> Sign(signer, tbs), rest |-> FALSE]
    BY <1>2
  <1>13. QED
    BY <1>3, <1>4, <1>10, <1>11, <1>12 DEF alg, exts

(* A list that was created is read as it was meant.                        *)
LEMMA ListReadBack ==
    ASSUME NEW issuer, NEW signer, NEW number, NEW entries, NEW this, NEW next,
           ListIs(issuer, signer, number, entries, this, next),
           NEW der, der = CreateRevocationList(issuer, signer, number, entries, this, next),
           der # Error
    PROVE  /\ ParseRevocationList(der) # Error
           /\ ListReadFrom(ParseRevocationList(der), issuer, signer, number, entries, this, next)
  <1> DEFINE tbs == der.tbs
             list == ListRead(der)
  <1>1. /\ Readable(issuer.rawSubject) /\ issuer.key \in PublicKeys /\ signer \in Signers
        /\ number \in Nat /\ entries \in Seq(EntriesOfLists)
        /\ this \in Int /\ this % 2 = 0 /\ next \in Int /\ next % 2 = 0
    BY DEF ListIs
  <1>2. /\ tbs \in SignedLists
        /\ der = [tbs |-> tbs, alg |-> Identifier(signer.alg), sig |-> Sign(signer, tbs),
                     rest |-> FALSE]
        /\ tbs.version = 1 /\ tbs.alg = Identifier(signer.alg)
        /\ tbs.issuer = issuer.rawSubject
        /\ tbs.thisUpdate = marshalTime(this) /\ marshalTime(this) # Error
        /\ tbs.nextUpdate = marshalTime(next) /\ marshalTime(next) # Error
        /\ EntriesRead(tbs.revoked) = entries
        /\ \A i \in DOMAIN tbs.revoked :
                 \A j \in DOMAIN tbs.revoked[i].exts : ~tbs.revoked[i].exts[j].critical
        /\ tbs.exts = ListExts(issuer.key, number)
    BY ListWritten
  <1>3. /\ Sign(signer, tbs) \in Signatures(SignedLists)
        /\ Identifier(signer.alg).oid = signer.alg /\ ~Identifier(signer.alg).params
        /\ Sign(signer, tbs).size = Info[signer.alg].sig
        /\ ~Sign(signer, tbs).unused
        /\ Valid(signer.alg)
    BY <1>1, <1>2, SignatureIs
  <1>4. signer.alg \in DOMAIN Info
    BY <1>1 DEF Signers
  <1> DEFINE exts == tbs.exts
             keyID == issuer.key.bytes
  <1>5. /\ ExtensionsAllowed(exts, {"authorityKeyID", "cRLNumber"})
        /\ ValueOf(exts, "authorityKeyID", NULL) = keyID
        /\ ValueOf(exts, "cRLNumber", NULL) = number
        /\ keyID \in KeyBytes
    <2> DEFINE e == ListExts(issuer.key, number)
    <2>1. e = <<Extension("authorityKeyID", FALSE, KeyIdentifier(issuer.key)),
                Extension("cRLNumber", FALSE, number)>>
      BY DEF ListExts
    <2> HIDE DEF e
    <2>2. /\ ExtensionsAllowed(e, {"authorityKeyID", "cRLNumber"})
          /\ ValueOf(e, "authorityKeyID", NULL) = keyID
          /\ ValueOf(e, "cRLNumber", NULL) = number
          /\ keyID \in KeyBytes
      BY <1>1, <2>1, ListExtensions
    <2>3. e = exts
      BY <1>2 DEF e
    <2>4. QED
      BY <2>2, <2>3, Zenon
  <1>6. /\ parseTime(tbs.thisUpdate) = this /\ parseTime(tbs.nextUpdate) = next
        /\ tbs.nextUpdate.tag # "absent"
    BY <1>1, <1>2, TimeRead
  <1>7. ParseName(tbs.issuer) \in Names /\ tbs.issuer \in Seq(RDNs)
    BY <1>1, <1>2, NameRead DEF Readable, RDNsOf
  <1> HIDE DEF tbs, exts, keyID
  <1>8. /\ ~der.rest /\ der.alg = Identifier(signer.alg) /\ der.sig = Sign(signer, tbs)
        /\ der.tbs = tbs
    BY <1>2
  <1>9. SignatureReadable(der)
    BY <1>3, <1>8 DEF SignatureReadable
  <1>10. list = [issuer |-> ParseName(tbs.issuer), rawIssuer |-> tbs.issuer, alg |-> signer.alg,
                 sig |-> Sign(signer, tbs), rawTBS |-> tbs, thisUpdate |-> this, nextUpdate |-> next,
                 number |-> number, authorityKeyID |-> keyID, entries |-> entries]
    <2>1. der.alg.oid = signer.alg
      BY <1>3, <1>8
    <2>2. QED
      BY <1>2, <1>5, <1>6, <1>8, <2>1, Zenon DEF ListRead, exts
  <1> HIDE DEF list
  <1>11. list \in Lists
    <2> DEFINE S == Sign(signer, tbs)
               I == ParseName(tbs.issuer)
               T == Signatures(SignedLists)
               R == Seq(RDNs)
               E == Seq(EntriesOfLists)
    <2>1. S \in T /\ I \in Names /\ tbs.issuer \in R /\ entries \in E
      BY <1>1, <1>3, <1>7
    <2>2. list = [issuer |-> I, rawIssuer |-> tbs.issuer, alg |-> signer.alg,
                 sig |-> S, rawTBS |-> tbs, thisUpdate |-> this, nextUpdate |-> next,
                 number |-> number, authorityKeyID |-> keyID, entries |-> entries]
      BY <1>10
    <2>3. Lists = [issuer : Names, rawIssuer : R, alg : DOMAIN Info, sig : T,
                   rawTBS : SignedLists, thisUpdate : Int, nextUpdate : Int, number : Nat,
                   authorityKeyID : KeyBytes, entries : E]
      BY DEF Lists
    <2> HIDE DEF S, I, T, R, E
    <2>4. QED
      BY <1>1, <1>2, <1>4, <1>5, <2>1, <2>2, <2>3
  <1>12. /\ list.issuer = ParseName(tbs.issuer) /\ list.rawIssuer = tbs.issuer
         /\ list.alg = signer.alg /\ list.sig = Sign(signer, tbs) /\ list.rawTBS = tbs
         /\ list.thisUpdate = this /\ list.nextUpdate = next /\ list.number = number
         /\ list.authorityKeyID = keyID /\ list.entries = entries
    BY <1>10
  <1>13. /\ list.issuer # Error /\ list.thisUpdate # Error /\ list.nextUpdate # Error
         /\ list.number # Error /\ list.authorityKeyID # Error
    <2>1. Error \notin Names /\ Error \notin Int /\ Error \notin KeyBytes /\ Error \notin Nat
      BY TypeAssumption DEF NoValue, ExtensionValues
    <2>2. QED
      BY <1>1, <1>5, <1>7, <1>12, <2>1
  <1>14. ASSUME NEW i \in DOMAIN list.entries
         PROVE  list.entries[i].time # Error /\ list.entries[i].reason # Error
    <2>1. entries[i] \in EntriesOfLists
      BY <1>1, <1>12
    <2>2. entries[i].time \in Nat /\ entries[i].reason \in Nat
      BY <2>1 DEF EntriesOfLists
    <2>3. Error \notin Nat
      BY TypeAssumption DEF NoValue
    <2>4. QED
      BY <1>12, <2>2, <2>3
  <1>15. ParseRevocationList(der) = list
    <2>1. /\ ~der.tbs.alg.params /\ der.tbs.version = 1 /\ der.tbs.nextUpdate.tag # "absent"
          /\ ExtensionsAllowed(der.tbs.exts, {"authorityKeyID", "cRLNumber"})
          /\ \A i \in DOMAIN der.tbs.revoked :
                 \A j \in DOMAIN der.tbs.revoked[i].exts : ~der.tbs.revoked[i].exts[j].critical
      BY <1>2, <1>3, <1>5, <1>6, <1>8, Zenon DEF exts
    <2>2. list = ListRead(der)
      BY DEF list
    <2>3. QED
      BY <1>8, <1>9, <1>13, <1>14, <2>1, <2>2, ListAcceptedWhen
  <1>16. list # Error
    BY <1>11, TypeAssumption DEF NoValue
  <1>17. QED
    BY <1>2, <1>11, <1>12, <1>15, <1>16 DEF ListReadFrom

(* Every certificate of the list is found in it.                           *)
LEMMA RevokedFound ==
    ASSUME NEW list, list.entries \in Seq(EntriesOfLists), NEW i \in DOMAIN list.entries
    PROVE  IsRevoked(list, list.entries[i].serial) # NULL
  <1> DEFINE having == {k \in DOMAIN list.entries : list.entries[k].serial = list.entries[i].serial}
  <1>1. having \subseteq Nat /\ having # {}
    OBVIOUS
  <1>2. Min(having) \in having
    <2> HIDE DEF having
    <2>1. QED
      BY <1>1, Smallest DEF Min
  <1>3. list.entries[Min(having)] \in EntriesOfLists
    <2>1. Min(having) \in DOMAIN list.entries
      BY <1>2, Zenon
    <2> HIDE DEF having
    <2>2. QED
      BY <2>1
  <1>4. list.entries[Min(having)] # NULL
    BY <1>3, TypeAssumption DEF NoValue
  <1>5. QED
    BY <1>1, <1>4 DEF IsRevoked

-----------------------------------------------------------------------------
(* Lemmas about what is marshalled of a key *)

(* The size of a signature is a number, so one byte less is another size.  *)
LEMMA SignatureSizes == \A alg : Valid(alg) => Info[alg].sig \in Nat
  <1>1. \A info \in algorithms : info.sig \in Nat
    BY DEF algorithms
  <1>2. ASSUME NEW alg, Valid(alg)
        PROVE  Info[alg] \in algorithms
    BY <1>2 DEF Valid, Info
  <1>3. QED
    BY <1>1, <1>2

(* What is marshalled of a public key is read as the same key.             *)
LEMMA PublicKeyRead ==
    ASSUME NEW pub, NEW spki,
           spki = MarshalPKIXPublicKey(pub), spki # Error
    PROVE  /\ publicKeyFromSPKI(spki) = [alg |-> pub.alg, bytes |-> pub.bytes]
           /\ spki.bytes = pub.bytes
           /\ spki.alg.oid = pub.alg
           /\ Valid(pub.alg)
  BY DEF MarshalPKIXPublicKey, publicKeyFromSPKI, Identifier

(* The fields of a public key.                                             *)
LEMMA PublicIs ==
    ASSUME NEW pair
    PROVE  /\ Public(pair) = [alg |-> Public(pair).alg, bytes |-> Public(pair).bytes]
           /\ Public(pair).alg = pair.alg
           /\ Public(pair).bytes.id = pair.id
  BY DEF Public

-----------------------------------------------------------------------------
(* Lemmas about the extensions that are always there *)

(* What is in one of two sequences is in both together.                    *)
LEMMA Concatenation ==
    ASSUME NEW S, NEW s \in Seq(S), NEW u \in Seq(S), NEW e
    PROVE  /\ s \o u \in Seq(S)
           /\ Has(s, e) \/ Has(u, e) => Has(s \o u, e)
  <1>1. s \o u \in Seq(S)
    OBVIOUS
  <1>2. ASSUME NEW k \in DOMAIN s
        PROVE  k \in DOMAIN (s \o u) /\ (s \o u)[k] = s[k]
    OBVIOUS
  <1>3. ASSUME NEW k \in DOMAIN u
        PROVE  Len(s) + k \in DOMAIN (s \o u) /\ (s \o u)[Len(s) + k] = u[k]
    OBVIOUS
  <1>4. QED
    BY <1>1, <1>2, <1>3 DEF Has

(* The extensions that a certificate always has, and its key usage.        *)
LEMMA Built ==
    ASSUME NEW t, NEW pub, NEW signer, NEW empty, NEW exts,
           exts = buildExtensions(t, pub, signer, empty),
           exts # Error
    PROVE  /\ DOMAIN exts \subseteq Int
           /\ Has(exts, Extension("basicConstraints", TRUE, marshalBasicConstraints(t.bc)))
           /\ Has(exts, Extension("subjectKeyID", FALSE, KeyIdentifier(pub)))
           /\ Has(exts, Extension("authorityKeyID", FALSE, KeyIdentifier(Public(signer))))
           /\ t.keyUsage # {} =>
                Has(exts, Extension("keyUsage", TRUE, marshalKeyUsage(t.keyUsage)))
  <1> DEFINE bc   == Extension("basicConstraints", TRUE, marshalBasicConstraints(t.bc))
             kuE  == Extension("keyUsage", TRUE, marshalKeyUsage(t.keyUsage))
             ku   == IF t.keyUsage = {} THEN <<>> ELSE <<kuE>>
             ekuE == Extension("extKeyUsage", FALSE, marshalExtKeyUsage(t.extKeyUsage))
             eku  == IF t.extKeyUsage = <<>> THEN <<>> ELSE <<ekuE>>
             skid == Extension("subjectKeyID", FALSE, KeyIdentifier(pub))
             akid == Extension("authorityKeyID", FALSE, KeyIdentifier(Public(signer)))
             sanE == Extension("subjectAltName", empty, marshalSANs(t.sans))
             san  == IF t.sans = EmptySANs THEN <<>> ELSE <<sanE>>
             all  == <<bc>> \o ku \o eku \o <<skid, akid>> \o san
             S    == {bc, kuE, ekuE, skid, akid, sanE}
  <1>1. exts = all
    BY DEF buildExtensions
  <1> HIDE DEF bc, kuE, ekuE, skid, akid, sanE
  <1>2. <<bc>> \in Seq(S) /\ ku \in Seq(S) /\ eku \in Seq(S) /\ <<skid, akid>> \in Seq(S)
        /\ san \in Seq(S)
    <2>1. {bc, kuE, ekuE, skid, akid, sanE} \subseteq S
      OBVIOUS
    <2> HIDE DEF S
    <2>2. <<bc>> \in Seq(S) /\ <<skid, akid>> \in Seq(S) /\ << >> \in Seq(S)
      BY <2>1
    <2>3. <<kuE>> \in Seq(S) /\ <<ekuE>> \in Seq(S) /\ <<sanE>> \in Seq(S)
      BY <2>1
    <2>4. QED
      BY <2>2, <2>3
  <1>3. /\ Has(<<bc>>, bc)
        /\ t.keyUsage # {} => Has(ku, kuE)
        /\ Has(<<skid, akid>>, skid)
        /\ Has(<<skid, akid>>, akid)
    <2>1. <<bc>>[1] = bc /\ 1 \in DOMAIN <<bc>>
      OBVIOUS
    <2>2. <<kuE>>[1] = kuE /\ 1 \in DOMAIN <<kuE>>
      OBVIOUS
    <2>3. /\ <<skid, akid>>[1] = skid /\ 1 \in DOMAIN <<skid, akid>>
          /\ <<skid, akid>>[2] = akid /\ 2 \in DOMAIN <<skid, akid>>
      OBVIOUS
    <2>4. Has(<<bc>>, bc)
      BY <2>1 DEF Has
    <2>5. t.keyUsage # {} => Has(ku, kuE)
      <3>1. Has(<<kuE>>, kuE)
        BY <2>2 DEF Has
      <3>2. QED
        BY <3>1
    <2>6. Has(<<skid, akid>>, skid) /\ Has(<<skid, akid>>, akid)
      BY <2>3 DEF Has
    <2>7. QED
      BY <2>4, <2>5, <2>6
  <1> HIDE DEF ku, eku, san, S
  <1>4. /\ <<bc>> \o ku \in Seq(S)
        /\ <<bc>> \o ku \o eku \in Seq(S)
        /\ <<bc>> \o ku \o eku \o <<skid, akid>> \in Seq(S)
        /\ all \in Seq(S)
    BY <1>2
  <1>5. ASSUME NEW e, Has(<<bc>>, e) \/ Has(ku, e)
        PROVE  Has(all, e)
    <2>1. Has(<<bc>> \o ku, e)
      BY <1>2, <1>5, Concatenation
    <2>2. Has(<<bc>> \o ku \o eku, e)
      BY <1>2, <1>4, <2>1, Concatenation
    <2>3. Has(<<bc>> \o ku \o eku \o <<skid, akid>>, e)
      BY <1>2, <1>4, <2>2, Concatenation
    <2>4. QED
      BY <1>2, <1>4, <2>3, Concatenation
  <1>6. ASSUME NEW e, Has(<<skid, akid>>, e)
        PROVE  Has(all, e)
    <2>1. Has(<<bc>> \o ku \o eku \o <<skid, akid>>, e)
      BY <1>2, <1>4, <1>6, Concatenation
    <2>2. QED
      BY <1>2, <1>4, <2>1, Concatenation
  <1>7. DOMAIN all \subseteq Int
    BY <1>4
  <1>8. QED
    BY <1>1, <1>3, <1>5, <1>6, <1>7 DEF bc, kuE, skid, akid

-----------------------------------------------------------------------------
(* Lemmas about certificates and their signers *)

(* What CreateCertificate signs.                                           *)
CertificateSigned(der, t, parent, pub, signer) ==
    /\ der = [tbs |-> der.tbs, alg |-> Identifier(signer.alg),
              sig |-> Sign(signer, der.tbs), rest |-> FALSE]
    /\ der.tbs.alg = Identifier(signer.alg)
    /\ der.tbs.issuer = IF parent = NULL THEN der.tbs.subject ELSE parent.rawSubject
    /\ der.tbs.spki = MarshalPKIXPublicKey(pub)
    /\ der.tbs.spki # Error
    /\ der.tbs.exts # Error
    /\ \E empty : der.tbs.exts = buildExtensions(t, pub, signer, empty)

(* What CreateCertificate returns is signed by the signer.                 *)
LEMMA Created ==
    ASSUME NEW t, NEW parent, NEW pub, NEW signer, NEW der,
           der = CreateCertificate(t, parent, pub, signer),
           der # Error
    PROVE  CertificateSigned(der, t, parent, pub, signer)
  <1> DEFINE subject == ToRDNSequence(t.subject)
             spki == MarshalPKIXPublicKey(pub)
             notBefore == marshalTime(t.notBefore)
             notAfter == marshalTime(t.notAfter)
             exts == buildExtensions(t, pub, signer, subject = <<>>)
             tbs == [version |-> 2, serial |-> t.serial, alg |-> Identifier(t.alg),
                     issuer |-> IF parent = NULL THEN subject ELSE parent.rawSubject,
                     notBefore |-> notBefore, notAfter |-> notAfter,
                     subject |-> subject, spki |-> spki, exts |-> exts]
  <1>1. /\ t.alg = signer.alg
        /\ ~Fails(<<subject, spki, notBefore, notAfter, exts>>)
        /\ der = [tbs |-> tbs, alg |-> Identifier(t.alg), sig |-> Sign(signer, tbs), rest |-> FALSE]
    BY DEF CreateCertificate
  <1>2. exts = buildExtensions(t, pub, signer, subject = <<>>)
    OBVIOUS
  <1> HIDE DEF subject, spki, notBefore, notAfter, exts
  <1>3. spki # Error /\ exts # Error
    BY <1>1 DEF Fails
  <1>4. der.tbs = tbs
    BY <1>1
  <1>5. /\ der.tbs.alg = Identifier(signer.alg)
        /\ der.tbs.issuer = IF parent = NULL THEN der.tbs.subject ELSE parent.rawSubject
        /\ der.tbs.spki = spki
        /\ der.tbs.exts = exts
    BY <1>1, <1>4
  <1>6. QED
    BY <1>1, <1>2, <1>3, <1>4, <1>5 DEF spki, CertificateSigned

(* What ParseCertificate asks of a certificate, and returns.               *)
LEMMA Parsed ==
    ASSUME NEW der, NEW cert,
           cert = ParseCertificate(der),
           cert # Error
    PROVE  /\ ~der.rest
           /\ SignatureReadable(der)
           /\ der.tbs.alg.oid = der.alg.oid
           /\ ExtensionsAllowed(der.tbs.exts, CertificateExtensions)
           /\ cert.alg = der.alg.oid
           /\ cert.sig = der.sig
           /\ cert.rawTBS = der.tbs
           /\ cert.rawIssuer = der.tbs.issuer
           /\ cert.rawSubject = der.tbs.subject
           /\ cert.key = publicKeyFromSPKI(der.tbs.spki)
           /\ cert.key # Error
           /\ cert.bc = ValueOf(der.tbs.exts, "basicConstraints", NoConstraints)
           /\ cert.bc # Error
           /\ cert.keyUsage = ValueOf(der.tbs.exts, "keyUsage", {})
           /\ cert.keyUsage # Error
           /\ cert.subjectKeyID = ValueOf(der.tbs.exts, "subjectKeyID", <<>>)
           /\ cert.authorityKeyID = ValueOf(der.tbs.exts, "authorityKeyID", <<>>)
  <1>1. /\ ~der.rest
        /\ SignatureReadable(der)
        /\ der.tbs.alg.oid = der.alg.oid
        /\ ExtensionsAllowed(der.tbs.exts, CertificateExtensions)
        /\ cert.alg = der.alg.oid
        /\ cert.sig = der.sig
        /\ cert.rawTBS = der.tbs
        /\ cert.rawIssuer = der.tbs.issuer
        /\ cert.rawSubject = der.tbs.subject
        /\ cert.key = publicKeyFromSPKI(der.tbs.spki)
        /\ cert.bc = ValueOf(der.tbs.exts, "basicConstraints", NoConstraints)
        /\ cert.keyUsage = ValueOf(der.tbs.exts, "keyUsage", {})
        /\ cert.subjectKeyID = ValueOf(der.tbs.exts, "subjectKeyID", <<>>)
        /\ cert.authorityKeyID = ValueOf(der.tbs.exts, "authorityKeyID", <<>>)
        /\ \A field \in {"issuer", "subject", "notBefore", "notAfter", "key", "bc", "keyUsage",
                          "extKeyUsage", "subjectKeyID", "authorityKeyID", "sans"} :
             cert[field] # Error
    BY DEF ParseCertificate
  <1>2. cert.key # Error /\ cert.bc # Error /\ cert.keyUsage # Error
    BY <1>1
  <1>3. QED
    BY <1>1, <1>2

(* What a certificate says that was made of a template.                    *)
CertificateFor(cert, t, parent, pub, signer) ==
    /\ cert.key = [alg |-> pub.alg, bytes |-> pub.bytes]
    /\ Valid(pub.alg)
    /\ cert.alg = signer.alg
    /\ cert.sig = Sign(signer, cert.rawTBS)
    /\ Info[signer.alg].sig = cert.sig.size
    /\ cert.rawIssuer = IF parent = NULL THEN cert.rawSubject ELSE parent.rawSubject
    /\ cert.bc = parseBasicConstraints(marshalBasicConstraints(t.bc))
    /\ cert.bc # Error
    /\ t.keyUsage # {} => cert.keyUsage = parseKeyUsage(marshalKeyUsage(t.keyUsage))
    /\ cert.keyUsage # Error
    /\ cert.subjectKeyID = pub.bytes
    /\ cert.authorityKeyID = Public(signer).bytes

(* A certificate that was created and can be read says what its template   *)
(* says, and links to the key that signed it.                              *)
LEMMA CreatedAndRead ==
    ASSUME NEW t, NEW parent, NEW pub, NEW signer, NEW der, NEW cert,
           der = CreateCertificate(t, parent, pub, signer),
           der # Error,
           cert = ParseCertificate(der),
           cert # Error
    PROVE  CertificateFor(cert, t, parent, pub, signer)
  <1>1. /\ der.alg = Identifier(signer.alg)
        /\ der.sig = Sign(signer, der.tbs)
        /\ der.tbs.issuer = IF parent = NULL THEN der.tbs.subject ELSE parent.rawSubject
        /\ der.tbs.spki = MarshalPKIXPublicKey(pub)
        /\ der.tbs.spki # Error
        /\ der.tbs.exts # Error
    <2>1. der = [tbs |-> der.tbs, alg |-> Identifier(signer.alg),
                 sig |-> Sign(signer, der.tbs), rest |-> FALSE]
      BY Created DEF CertificateSigned
    <2>2. /\ der.alg = Identifier(signer.alg)
          /\ der.sig = Sign(signer, der.tbs)
      BY <2>1
    <2>3. QED
      BY <2>2, Created DEF CertificateSigned
  <1>2. PICK empty : der.tbs.exts = buildExtensions(t, pub, signer, empty)
    BY Created DEF CertificateSigned
  <1>3. /\ SignatureReadable(der)
        /\ ExtensionsAllowed(der.tbs.exts, CertificateExtensions)
        /\ cert.alg = der.alg.oid
        /\ cert.sig = der.sig
        /\ cert.rawTBS = der.tbs
        /\ cert.rawIssuer = der.tbs.issuer
        /\ cert.rawSubject = der.tbs.subject
        /\ cert.key = publicKeyFromSPKI(der.tbs.spki)
        /\ cert.bc = ValueOf(der.tbs.exts, "basicConstraints", NoConstraints)
        /\ cert.bc # Error
        /\ cert.keyUsage = ValueOf(der.tbs.exts, "keyUsage", {})
        /\ cert.keyUsage # Error
        /\ cert.subjectKeyID = ValueOf(der.tbs.exts, "subjectKeyID", <<>>)
        /\ cert.authorityKeyID = ValueOf(der.tbs.exts, "authorityKeyID", <<>>)
    BY Parsed
  <1>4. cert.key = [alg |-> pub.alg, bytes |-> pub.bytes] /\ Valid(pub.alg)
    BY <1>1, <1>3, PublicKeyRead
  <1>5. cert.alg = signer.alg /\ Info[signer.alg].sig = cert.sig.size
    BY <1>1, <1>3 DEF Identifier, Sign
  <1> DEFINE exts == der.tbs.exts
             bc   == Extension("basicConstraints", TRUE, marshalBasicConstraints(t.bc))
             ku   == Extension("keyUsage", TRUE, marshalKeyUsage(t.keyUsage))
             skid == Extension("subjectKeyID", FALSE, KeyIdentifier(pub))
             akid == Extension("authorityKeyID", FALSE, KeyIdentifier(Public(signer)))
  <1>6. /\ DOMAIN exts \subseteq Int
        /\ Has(exts, bc)
        /\ Has(exts, skid)
        /\ Has(exts, akid)
        /\ t.keyUsage # {} => Has(exts, ku)
    BY <1>1, <1>2, Built
  <1>7. /\ bc.id = "basicConstraints" /\ ku.id = "keyUsage"
        /\ skid.id = "subjectKeyID" /\ akid.id = "authorityKeyID"
        /\ ParsedValue(bc) = parseBasicConstraints(marshalBasicConstraints(t.bc))
        /\ ParsedValue(ku) = parseKeyUsage(marshalKeyUsage(t.keyUsage))
        /\ ParsedValue(skid) = pub.bytes
        /\ ParsedValue(akid) = Public(signer).bytes
    BY DEF Extension, ParsedValue, KeyIdentifier
  <1> HIDE DEF exts, bc, ku, skid, akid
  <1>8. ASSUME NEW ext, NEW absent, Has(exts, ext)
        PROVE  ValueOf(exts, ext.id, absent) = ParsedValue(ext)
    <2>1. ExtensionsAllowed(exts, CertificateExtensions)
      BY <1>3 DEF exts
    <2>2. DOMAIN exts \subseteq Int
      BY <1>6
    <2>3. QED
      BY <1>8, <2>1, <2>2, ValueFound
  <1>9. /\ ValueOf(exts, "basicConstraints", NoConstraints) = ParsedValue(bc)
        /\ ValueOf(exts, "subjectKeyID", <<>>) = ParsedValue(skid)
        /\ ValueOf(exts, "authorityKeyID", <<>>) = ParsedValue(akid)
        /\ t.keyUsage # {} => ValueOf(exts, "keyUsage", {}) = ParsedValue(ku)
    BY <1>6, <1>7, <1>8
  <1>10. QED
    BY <1>1, <1>3, <1>4, <1>5, <1>7, <1>9 DEF exts, CertificateFor

-----------------------------------------------------------------------------
(* The first invariant *)

Later == {"ready", "unsent", "handle", "refused", "read certificate", "certificate", "read list",
          "list"}

(* The certificates of the CAs are what the engine makes.                  *)
CAsInv ==
    /\ pc \in {"root", "intermediate", "failed"} \cup Later
    /\ pc = "root" => root = NULL
    /\ pc \in {"root", "intermediate"} => intermediate = NULL
    /\ pc = "intermediate" => root \in Roots
    /\ pc \in Later => root \in Roots /\ intermediate \in Intermediates(root)
    /\ root # NULL => root \in Roots
    /\ intermediate # NULL => root \in Roots /\ intermediate \in Intermediates(root)

(* A document as its author leaves it: the algorithm and the size of the   *)
(* signature are those of the key that signed.                             *)
Signed(d) ==
    /\ d = [tbs |-> d.tbs, alg |-> Identifier(d.sig.by.alg), sig |-> d.sig, rest |-> FALSE]
    /\ d.sig = [by |-> d.sig.by, over |-> d.sig.over,
                size |-> Info[d.sig.by.alg].sig, unused |-> FALSE]

SignedRequest(d) ==
    /\ Signed(d)
    /\ d.sig.over = d.tbs \/ \A e \in DamagedRequest(d) : d.sig.over # e.tbs
    /\ publicKeyFromSPKI(d.tbs.spki) # NULL

SignedBy(d, cert) == Signed(d) /\ d.sig.by = cert.key /\ d.sig.over = d.tbs

CertificateAccepted(d) ==
    ParseCertificate(d) # Error /\ VerifyCertificateFrom(ParseCertificate(d), intermediate)

ListAccepted(d) ==
    ParseRevocationList(d) # Error /\ VerifyListFrom(ParseRevocationList(d), intermediate)

Linked(cert) ==
    /\ cert.rawIssuer = intermediate.rawSubject
    /\ cert.authorityKeyID = intermediate.subjectKeyID

RequestInv ==
    /\ pc \in {"root", "intermediate", "ready"} => ~damaged
    /\ pc = "handle" =>
         /\ body.csr = NULL => doc = NULL /\ ~damaged
         /\ body.csr # NULL /\ ~damaged => doc = body.csr /\ SignedRequest(doc)
         /\ body.csr # NULL /\ damaged => parseCSRPEM(doc) = Error

CertificateInv ==
    /\ pc = "read certificate" =>
         /\ ~made.fromDamaged
         /\ ~damaged => /\ SignedBy(doc, intermediate)
                        /\ doc.tbs.alg.oid = doc.alg.oid
                        /\ Linked(ParseCertificate(doc))
         /\ damaged => ~CertificateAccepted(doc)
    /\ pc = "certificate" /\ damaged => got = NULL
    /\ pc = "certificate" /\ got # NULL => Linked(got)

ListInv ==
    /\ pc = "read list" =>
         /\ ~damaged =>
              /\ SignedBy(doc, intermediate)
              /\ ListAccepted(doc) =>
                   ParseRevocationList(doc).authorityKeyID = intermediate.subjectKeyID
         /\ damaged => ~ListAccepted(doc)
    /\ pc = "list" /\ damaged => got = NULL
    /\ pc = "list" /\ got # NULL => got.authorityKeyID = intermediate.subjectKeyID

IInv ==
    /\ CAsInv
    /\ RequestInv
    /\ CertificateInv
    /\ ListInv
    /\ IssuedToTheKeyHolder
    /\ KeyFitsCertificate

-----------------------------------------------------------------------------
(* Lemmas about the certificates of CAs *)

(* The private key of a certificate is found by its public key.            *)
LEMMA KeyOfIs ==
    ASSUME NEW cert, NEW pair, cert.key = Public(pair)
    PROVE  /\ KeyOf(cert).alg = pair.alg
           /\ Public(KeyOf(cert)) = cert.key
  BY DEF KeyOf, Public

(* A path length that is written is read, the zero too.                    *)
LEMMA ConstraintsRead ==
    ASSUME NEW n \in Nat,
           NEW bc, bc = [isCA |-> TRUE, maxPathLen |-> n, maxPathLenSet |-> TRUE],
           parseBasicConstraints(marshalBasicConstraints(bc)) # Error
    PROVE  parseBasicConstraints(marshalBasicConstraints(bc)) = bc
  BY DEF parseBasicConstraints, marshalBasicConstraints

(* What is relied on of a root.                                            *)
LEMMA RootFacts ==
    ASSUME NEW r \in Roots
    PROVE  /\ r # NULL
           /\ \E alg : r.key = Public(RootKey(alg))
           /\ Public(KeyOf(r)) = r.key
           /\ KeyOf(r).alg = r.key.alg
           /\ r.subjectKeyID = r.key.bytes
           /\ VerifyCertificateFrom(r, r)
           /\ r.rawIssuer = r.rawSubject
           /\ r.bc = [isCA |-> TRUE, maxPathLen |-> 1, maxPathLenSet |-> TRUE]
  <1>1. PICK s \in CASubjects, alg \in CAAlgorithms :
          \E t \in Times : r = CertificateOf(RootCertificate(s, alg, t))
    BY DEF Roots
  <1>2. PICK t \in Times : r = CertificateOf(RootCertificate(s, alg, t))
    BY <1>1
  <1> DEFINE tmpl == CATemplate(rootProfile, s, alg, t)
             pair == RootKey(alg)
             pub  == Public(pair)
             der  == CreateCertificate(tmpl, NULL, pub, pair)
  <1>3. r # Error /\ r # NULL
    BY NullAssumption DEF Roots
  <1>4. der # Error /\ r = ParseCertificate(der)
    BY <1>2, <1>3 DEF CertificateOf, RootCertificate
  <1>5. tmpl.bc = [isCA |-> TRUE, maxPathLen |-> 1, maxPathLenSet |-> TRUE]
    BY DEF CATemplate, rootProfile
  <1>6. CertificateFor(r, tmpl, NULL, pub, pair)
    BY <1>3, <1>4, CreatedAndRead
  <1> HIDE DEF tmpl, pair, pub, der
  <1>a. /\ r.key = [alg |-> pub.alg, bytes |-> pub.bytes]
        /\ Valid(pub.alg)
        /\ r.alg = pair.alg
        /\ r.sig = Sign(pair, r.rawTBS)
        /\ Info[pair.alg].sig = r.sig.size
        /\ r.rawIssuer = r.rawSubject
        /\ r.bc = parseBasicConstraints(marshalBasicConstraints(tmpl.bc))
        /\ r.bc # Error
        /\ r.subjectKeyID = pub.bytes
    BY <1>6 DEF CertificateFor
  <1>7. r.key = Public(pair) /\ pub.bytes = r.key.bytes /\ r.key.alg = pair.alg
    BY <1>a, PublicIs DEF pub
  <1>8. KeyOf(r).alg = pair.alg /\ Public(KeyOf(r)) = r.key
    BY <1>7, KeyOfIs
  <1>9. r.bc = [isCA |-> TRUE, maxPathLen |-> 1, maxPathLenSet |-> TRUE]
    BY <1>5, <1>a, ConstraintsRead
  <1>10. r.key.bytes.size = Info[r.key.alg].pk
    BY <1>7 DEF Public
  <1>11. VerifyCertificateFrom(r, r)
    BY <1>a, <1>7, <1>10 DEF VerifyCertificateFrom, Verify, Sign
  <1>12. QED
    BY <1>3, <1>a, <1>7, <1>8, <1>9, <1>11 DEF pair

(* What is relied on of an intermediate.                                   *)
LEMMA IntermediateFacts ==
    ASSUME NEW r \in Roots, NEW i \in Intermediates(r)
    PROVE  /\ i # NULL
           /\ i.key # NULL
           /\ Public(KeyOf(i)) = i.key
           /\ KeyOf(i).alg = i.key.alg
           /\ i.subjectKeyID = i.key.bytes
           /\ VerifyCertificateFrom(i, r)
           /\ i.rawIssuer = r.rawSubject
           /\ i.authorityKeyID = r.subjectKeyID
           /\ i.bc = [isCA |-> TRUE, maxPathLen |-> 0, maxPathLenSet |-> TRUE]
  <1>1. PICK s \in CASubjects, alg \in CAAlgorithms :
          \E t \in Times : i = CertificateOf(IntermediateCertificate(r, s, alg, t))
    BY DEF Intermediates
  <1>2. PICK t \in Times : i = CertificateOf(IntermediateCertificate(r, s, alg, t))
    BY <1>1
  <1> DEFINE tmpl == CATemplate(intermediateProfile, s, r.key.alg, t)
             pair == IntermediateKey(alg)
             pub  == Public(pair)
             der  == CreateCertificate(tmpl, r, pub, KeyOf(r))
  <1>3. i # Error /\ i # NULL
    BY NullAssumption DEF Intermediates
  <1>4. der # Error /\ i = ParseCertificate(der)
    BY <1>2, <1>3 DEF CertificateOf, IntermediateCertificate
  <1>5. tmpl.bc = [isCA |-> TRUE, maxPathLen |-> 0, maxPathLenSet |-> TRUE]
    BY DEF CATemplate, intermediateProfile
  <1>6. CertificateFor(i, tmpl, r, pub, KeyOf(r))
    BY <1>3, <1>4, CreatedAndRead
  <1> HIDE DEF tmpl, pair, pub, der
  <1>a. /\ i.key = [alg |-> pub.alg, bytes |-> pub.bytes]
        /\ Valid(pub.alg)
        /\ i.alg = KeyOf(r).alg
        /\ i.sig = Sign(KeyOf(r), i.rawTBS)
        /\ Info[KeyOf(r).alg].sig = i.sig.size
        /\ i.rawIssuer = IF r = NULL THEN i.rawSubject ELSE r.rawSubject
        /\ i.bc = parseBasicConstraints(marshalBasicConstraints(tmpl.bc))
        /\ i.bc # Error
        /\ i.subjectKeyID = pub.bytes
        /\ i.authorityKeyID = Public(KeyOf(r)).bytes
    BY <1>6 DEF CertificateFor
  <1>7. i.key = Public(pair) /\ pub.bytes = i.key.bytes /\ i.key.alg = pair.alg
    BY <1>a, PublicIs DEF pub
  <1>8. KeyOf(i).alg = pair.alg /\ Public(KeyOf(i)) = i.key
    BY <1>7, KeyOfIs
  <1>9. i.bc = [isCA |-> TRUE, maxPathLen |-> 0, maxPathLenSet |-> TRUE]
    BY <1>5, <1>a, ConstraintsRead
  <1>10. i.key # NULL
    <2>1. pub.alg = alg
      BY DEF pub, pair, Public, IntermediateKey
    <2>2. QED
      BY <1>a, <1>7, <2>1, NullAssumption DEF pair, Valid
  <1>11. PICK a : r.key = Public(RootKey(a))
    BY RootFacts
  <1>12. /\ r # NULL
         /\ Public(KeyOf(r)) = r.key
         /\ KeyOf(r).alg = r.key.alg
         /\ r.subjectKeyID = r.key.bytes
    BY RootFacts
  <1>13. r.key.bytes.size = Info[r.key.alg].pk
    BY <1>11 DEF Public
  <1>14. VerifyCertificateFrom(i, r)
    BY <1>a, <1>12, <1>13 DEF VerifyCertificateFrom, Verify, Sign
  <1>15. QED
    BY <1>3, <1>a, <1>7, <1>8, <1>9, <1>10, <1>12, <1>14

-----------------------------------------------------------------------------
(* Lemmas about damage *)

(* Around the signed part: what is not refused at sight leaves a signature *)
(* that names another algorithm, or is by no key.                          *)
LEMMA DamageAround ==
    ASSUME NEW d, NEW e \in DamagedAround(d), Signed(d), e # d
    PROVE  /\ e.tbs = d.tbs
           /\ \/ e.rest
              \/ ~SignatureReadable(e)
              \/ e.sig.by = NULL
              \/ e.sig = d.sig /\ e.alg.oid # d.alg.oid
  <1>1. d = [tbs |-> d.tbs, alg |-> Identifier(d.sig.by.alg), sig |-> d.sig, rest |-> FALSE]
    BY DEF Signed
  <1>2. d.sig = [by |-> d.sig.by, over |-> d.sig.over,
                 size |-> Info[d.sig.by.alg].sig, unused |-> FALSE]
    BY DEF Signed
  <1>3. d.alg = [oid |-> d.sig.by.alg, params |-> FALSE]
    BY <1>1 DEF Identifier
  <1>4. CASE e = [d EXCEPT !.rest = TRUE]
    BY <1>1, <1>4
  <1>5. CASE e = [d EXCEPT !.alg.params = TRUE]
    <2>1. e.tbs = d.tbs /\ e.alg.params
      BY <1>1, <1>3, <1>5
    <2>2. QED
      BY <2>1 DEF SignatureReadable
  <1>6. CASE e = [d EXCEPT !.sig.unused = TRUE]
    <2>1. e.tbs = d.tbs /\ e.sig.unused
      BY <1>1, <1>2, <1>6
    <2>2. QED
      BY <2>1 DEF SignatureReadable
  <1>7. CASE e = [d EXCEPT !.sig.size = @ - 1]
    <2>1. e.tbs = d.tbs /\ e.alg = d.alg /\ e.sig.size = d.sig.size - 1
      BY <1>1, <1>2, <1>7
    <2>2. SUFFICES ASSUME SignatureReadable(e)
                   PROVE  FALSE
      BY <2>1
    <2>3. /\ Valid(d.sig.by.alg)
          /\ e.sig.size = Info[d.sig.by.alg].sig
      BY <1>3, <2>1, <2>2 DEF SignatureReadable
    <2>4. d.sig.size = Info[d.sig.by.alg].sig
      BY <1>2
    <2>5. Info[d.sig.by.alg].sig \in Nat
      BY <2>3, SignatureSizes
    <2>6. QED
      BY <2>1, <2>3, <2>4, <2>5
  <1>8. CASE e = [d EXCEPT !.sig.by = NULL]
    BY <1>1, <1>2, <1>8
  <1>9. CASE \E oid \in DOMAIN Info \cup {"other"} : e = [d EXCEPT !.alg = Identifier(oid)]
    <2>1. PICK oid : e = [d EXCEPT !.alg = Identifier(oid)]
      BY <1>9
    <2>2. e = [tbs |-> d.tbs, alg |-> Identifier(oid), sig |-> d.sig, rest |-> d.rest]
      <3>1. PICK n : n = Identifier(oid)
        OBVIOUS
      <3>2. d = [tbs |-> d.tbs, alg |-> d.alg, sig |-> d.sig, rest |-> d.rest]
        <4>1. d.alg = Identifier(d.sig.by.alg) /\ d.rest = FALSE
          BY <1>1
        <4>2. QED
          BY <1>1, <4>1
      <3>3. e = [d EXCEPT !.alg = n]
        BY <2>1, <3>1
      <3>4. e = [tbs |-> d.tbs, alg |-> n, sig |-> d.sig, rest |-> d.rest]
        BY <3>2, <3>3
      <3>5. QED
        BY <3>1, <3>4
    <2>3. e.alg # d.alg
      BY <1>1, <2>2
    <2>4. e.alg.oid # d.alg.oid
      <3>1. e.alg = [oid |-> oid, params |-> FALSE]
        BY <2>2 DEF Identifier
      <3>2. e.alg.oid = oid /\ d.alg.oid = d.sig.by.alg
        BY <1>3, <3>1
      <3>3. QED
        BY <1>3, <2>3, <3>1, <3>2
    <2>5. QED
      BY <2>2, <2>4
  <1>10. QED
    BY <1>4, <1>5, <1>6, <1>7, <1>8, <1>9 DEF DamagedAround

(* Within the signed part: the signature is still over what there was.     *)
LEMMA DamageWithin ==
    ASSUME NEW d, NEW e \in DamagedRequest(d) \cup DamagedIssued(d), Signed(d), e # d
    PROVE  /\ e.sig = d.sig
           /\ e.tbs # d.tbs
  <1>1. d = [tbs |-> d.tbs, alg |-> d.alg, sig |-> d.sig, rest |-> d.rest]
    <2>1. d = [tbs |-> d.tbs, alg |-> Identifier(d.sig.by.alg), sig |-> d.sig, rest |-> FALSE]
      BY DEF Signed
    <2>2. d.alg = Identifier(d.sig.by.alg) /\ d.rest = FALSE
      BY <2>1
    <2>3. QED
      BY <2>1, <2>2
  <1>2. \E x : e = [d EXCEPT !.tbs = x]
    <2>1. CASE e \in DamagedRequest(d)
      BY <2>1 DEF DamagedRequest
    <2>2. CASE e \in DamagedIssued(d)
      BY <2>2 DEF DamagedIssued
    <2>3. QED
      BY <2>1, <2>2
  <1>3. PICK x : e = [d EXCEPT !.tbs = x]
    BY <1>2
  <1>4. e = [tbs |-> x, alg |-> d.alg, sig |-> d.sig, rest |-> d.rest]
    BY <1>1, <1>3
  <1>5. x # d.tbs
    BY <1>1, <1>4
  <1>6. QED
    BY <1>4, <1>5

(* No damaged request is accepted.                                         *)
LEMMA RequestNoticed ==
    ASSUME NEW d, NEW e, SignedRequest(d), e # d,
           e \in DamagedAround(d) \cup DamagedRequest(d)
    PROVE  parseCSRPEM(e) = Error
  <1> DEFINE csr == ParseCertificateRequest(e)
  <1>1. SUFFICES ASSUME csr # Error, CheckSignature(csr)
                 PROVE  FALSE
    BY DEF parseCSRPEM
  <1>2. /\ ~e.rest
        /\ SignatureReadable(e)
        /\ e.alg.oid = csr.key.alg
        /\ csr.key = publicKeyFromSPKI(e.tbs.spki)
        /\ csr.sig = e.sig
        /\ csr.rawTBS = e.tbs
    BY <1>1 DEF ParseCertificateRequest
  <1> HIDE DEF csr
  <1>3. e.sig.by = csr.key /\ e.sig.over = e.tbs
    BY <1>1, <1>2 DEF CheckSignature, Verify
  <1>4. Signed(d)
    BY DEF SignedRequest
  <1>5. CASE e \in DamagedAround(d)
    <2>1. e.tbs = d.tbs
      BY <1>4, <1>5, DamageAround
    <2>2. csr.key # NULL
      BY <1>2, <2>1 DEF SignedRequest
    <2>3. e.sig = d.sig /\ e.alg.oid # d.alg.oid
      BY <1>2, <1>3, <1>4, <1>5, <2>2, DamageAround
    <2>4. d.alg.oid = d.sig.by.alg
      <3>1. d.alg = Identifier(d.sig.by.alg)
        BY <1>4 DEF Signed
      <3>2. QED
        BY <3>1 DEF Identifier
    <2>5. QED
      BY <1>2, <1>3, <2>3, <2>4
  <1>6. CASE e \in DamagedRequest(d)
    <2>1. e.sig = d.sig /\ e.tbs # d.tbs
      BY <1>4, <1>6, DamageWithin
    <2>2. QED
      BY <1>3, <1>6, <2>1 DEF SignedRequest
  <1>7. QED
    BY <1>5, <1>6

(* No damaged certificate is accepted, and no damaged list.                *)
LEMMA CertificateNoticed ==
    ASSUME NEW d, NEW e, SignedBy(d, intermediate), e # d,
           d.tbs.alg.oid = d.alg.oid,
           intermediate.key # NULL,
           e \in DamagedAround(d) \cup DamagedIssued(d)
    PROVE  ~CertificateAccepted(e)
  <1> DEFINE cert == ParseCertificate(e)
  <1>1. SUFFICES ASSUME cert # Error, VerifyCertificateFrom(cert, intermediate)
                 PROVE  FALSE
    BY DEF CertificateAccepted
  <1>2. /\ ~e.rest
        /\ SignatureReadable(e)
        /\ e.tbs.alg.oid = e.alg.oid
        /\ cert.sig = e.sig
        /\ cert.rawTBS = e.tbs
    BY <1>1, Parsed
  <1> HIDE DEF cert
  <1>3. e.sig.by = intermediate.key /\ e.sig.over = e.tbs
    BY <1>1, <1>2 DEF VerifyCertificateFrom, Verify
  <1>4. Signed(d)
    BY DEF SignedBy
  <1>5. CASE e \in DamagedAround(d)
    <2>1. e.tbs = d.tbs
      BY <1>4, <1>5, DamageAround
    <2>2. e.alg.oid # d.alg.oid
      BY <1>2, <1>3, <1>4, <1>5, DamageAround
    <2>3. QED
      BY <1>2, <2>1, <2>2
  <1>6. CASE e \in DamagedIssued(d)
    <2>1. e.sig = d.sig /\ e.tbs # d.tbs
      BY <1>4, <1>6, DamageWithin
    <2>2. QED
      BY <1>3, <2>1 DEF SignedBy
  <1>7. QED
    BY <1>5, <1>6

(* A damaged list is not accepted.                                         *)
LEMMA ListNoticed ==
    ASSUME NEW d, NEW e, SignedBy(d, intermediate), e # d,
           intermediate.key # NULL,
           e \in DamagedAround(d) \cup DamagedIssued(d)
    PROVE  ~ListAccepted(e)
  <1> DEFINE list == ParseRevocationList(e)
  <1>1. SUFFICES ASSUME list # Error, VerifyListFrom(list, intermediate)
                 PROVE  FALSE
    BY DEF ListAccepted
  <1>2. /\ ~e.rest
        /\ SignatureReadable(e)
        /\ list.alg = e.alg.oid
        /\ list.sig = e.sig
        /\ list.rawTBS = e.tbs
    BY <1>1 DEF ParseRevocationList
  <1> HIDE DEF list
  <1>3. /\ e.sig.by = intermediate.key /\ e.sig.over = e.tbs
        /\ e.alg.oid = intermediate.key.alg
    BY <1>1, <1>2 DEF VerifyListFrom, Verify
  <1>4. Signed(d) /\ d.sig.by = intermediate.key
    BY DEF SignedBy
  <1>5. CASE e \in DamagedAround(d)
    <2>1. e.alg.oid # d.alg.oid
      BY <1>2, <1>3, <1>4, <1>5, DamageAround
    <2>2. d.alg.oid = d.sig.by.alg
      <3>1. d.alg = Identifier(d.sig.by.alg)
        BY <1>4 DEF Signed
      <3>2. QED
        BY <3>1 DEF Identifier
    <2>3. QED
      BY <1>3, <1>4, <2>1, <2>2
  <1>6. CASE e \in DamagedIssued(d)
    <2>1. e.sig = d.sig /\ e.tbs # d.tbs
      BY <1>4, <1>6, DamageWithin
    <2>2. QED
      BY <1>3, <2>1 DEF SignedBy
  <1>7. QED
    BY <1>5, <1>6

-----------------------------------------------------------------------------
(* Lemmas about what is written *)

(* A document with the signature that Sign returns.                        *)
LEMMA SignIsSigned ==
    ASSUME NEW d, NEW tbs, NEW pair,
           d = [tbs |-> tbs, alg |-> Identifier(pair.alg), sig |-> Sign(pair, tbs), rest |-> FALSE]
    PROVE  /\ Signed(d)
           /\ d.tbs = tbs
           /\ d.alg.oid = pair.alg
           /\ d.sig.by = Public(pair)
           /\ d.sig.over = d.tbs
  <1>1. Public(pair).alg = pair.alg
    BY PublicIs
  <1>2. /\ d.tbs = tbs
        /\ d.alg = Identifier(pair.alg)
        /\ d.sig = Sign(pair, tbs)
        /\ d.rest = FALSE
    OBVIOUS
  <1>3. d.sig = [by |-> Public(pair), over |-> tbs, size |-> Info[pair.alg].sig, unused |-> FALSE]
    BY <1>2 DEF Sign
  <1>4. d.sig.by = Public(pair) /\ d.sig.over = tbs
    BY <1>3
  <1>5. d.sig.by.alg = pair.alg
    BY <1>1, <1>4
  <1>6. d = [tbs |-> d.tbs, alg |-> Identifier(d.sig.by.alg), sig |-> d.sig, rest |-> FALSE]
    BY <1>2, <1>5
  <1>7. d.sig = [by |-> d.sig.by, over |-> d.sig.over,
                 size |-> Info[d.sig.by.alg].sig, unused |-> FALSE]
    BY <1>3, <1>4, <1>5
  <1>8. d.alg.oid = pair.alg
    BY <1>2 DEF Identifier
  <1>9. QED
    BY <1>2, <1>4, <1>6, <1>7, <1>8 DEF Signed

(* A request of this library is signed.                                    *)
LEMMA RequestIsSigned ==
    ASSUME NEW subject, NEW sans, NEW pair \in Pairs, NEW csr,
           csr = CreateCertificateRequest(subject, Public(pair), pair, sans),
           csr # Error
    PROVE  SignedRequest(csr)
  <1> DEFINE spki == MarshalPKIXPublicKey(Public(pair))
             name == ToRDNSequence(subject)
             info == [version |-> 0, subject |-> name, spki |-> spki,
                      attributes |-> marshalCSRAttributes(sans)]
  <1>1. /\ ~Fails(<<name, spki>>)
        /\ csr = [tbs |-> info, alg |-> Identifier(Public(pair).alg),
                  sig |-> Sign(pair, info), rest |-> FALSE]
    BY DEF CreateCertificateRequest
  <1>2. info.spki = spki
    OBVIOUS
  <1> HIDE DEF spki, name, info
  <1>3. spki # Error
    BY <1>1 DEF Fails
  <1>4. publicKeyFromSPKI(spki) = Public(pair)
    BY <1>3, PublicKeyRead, PublicIs DEF spki
  <1>5. Public(pair) # NULL
    BY NullAssumption
  <1>6. csr = [tbs |-> info, alg |-> Identifier(pair.alg), sig |-> Sign(pair, info), rest |-> FALSE]
    BY <1>1, PublicIs
  <1>7. Signed(csr) /\ csr.tbs = info /\ csr.sig.over = csr.tbs
    BY <1>6, SignIsSigned
  <1>8. QED
    BY <1>2, <1>4, <1>5, <1>7 DEF SignedRequest

(* So are those of other programs.                                         *)
LEMMA ForeignIsSigned == \A csr \in ForeignCSRs : SignedRequest(csr)
  BY ForeignAssumption, NullAssumption DEF SignedRequest, Signed

(* A revocation list is signed with the key of its issuer, and links to    *)
(* it.                                                                     *)
LEMMA ListIsSigned ==
    ASSUME NEW issuer, NEW number, NEW entries, NEW this, NEW next, NEW der,
           der = CreateRevocationList(issuer, KeyOf(issuer), number, entries, this, next),
           der # Error,
           Public(KeyOf(issuer)) = issuer.key
    PROVE  /\ SignedBy(der, issuer)
           /\ ParseRevocationList(der) # Error =>
                ParseRevocationList(der).authorityKeyID = issuer.key.bytes
  <1> DEFINE akid == Extension("authorityKeyID", FALSE, KeyIdentifier(issuer.key))
             exts == <<akid, Extension("cRLNumber", FALSE, number)>>
             revoked == [i \in DOMAIN entries |-> RevokedCertificate(entries[i])]
             tbs == [version |-> 1, alg |-> Identifier(KeyOf(issuer).alg),
                     issuer |-> issuer.rawSubject,
                     thisUpdate |-> marshalTime(this), nextUpdate |-> marshalTime(next),
                     revoked |-> revoked, exts |-> exts]
  <1>a. /\ der = [tbs |-> tbs, alg |-> Identifier(KeyOf(issuer).alg),
                  sig |-> Sign(KeyOf(issuer), tbs), rest |-> FALSE]
        /\ tbs.exts = exts
    BY DEF CreateRevocationList
  <1> HIDE DEF akid, revoked, tbs
  <1>1. /\ der = [tbs |-> tbs, alg |-> Identifier(KeyOf(issuer).alg),
                  sig |-> Sign(KeyOf(issuer), tbs), rest |-> FALSE]
        /\ tbs.exts = exts
    BY <1>a
  <1>2. SignedBy(der, issuer) /\ der.tbs = tbs
    BY <1>1, SignIsSigned DEF SignedBy
  <1>3. ASSUME ParseRevocationList(der) # Error
        PROVE  ParseRevocationList(der).authorityKeyID = issuer.key.bytes
    <2>1. /\ ExtensionsAllowed(tbs.exts, {"authorityKeyID", "cRLNumber"})
          /\ ParseRevocationList(der).authorityKeyID = ValueOf(tbs.exts, "authorityKeyID", NULL)
      BY <1>2, <1>3 DEF ParseRevocationList
    <2>2. Has(exts, akid) /\ DOMAIN exts \subseteq Int
      <3>1. exts[1] = akid /\ DOMAIN exts = {1, 2}
        OBVIOUS
      <3>2. QED
        BY <3>1 DEF Has
    <2>3. akid.id = "authorityKeyID" /\ ParsedValue(akid) = issuer.key.bytes
      BY DEF akid, Extension, ParsedValue, KeyIdentifier
    <2> HIDE DEF exts
    <2>4. ValueOf(exts, akid.id, NULL) = ParsedValue(akid)
      BY <1>1, <2>1, <2>2, ValueFound
    <2>5. QED
      BY <1>1, <2>1, <2>3, <2>4
  <1>4. QED
    BY <1>2, <1>3

-----------------------------------------------------------------------------
(* Lemmas about issuance *)

(* A new key is had back from its PEM, whatever its algorithm.             *)
LEMMA KeyRead ==
    ASSUME NEW alg, Valid(alg),
           NEW priv, priv = PrivateKey(NewKey(alg))
    PROVE  /\ priv # NULL
           /\ DecodePrivateKeyPEM(EncodePrivateKeyPEM(priv)) = priv
           /\ priv # Error
           /\ Public(Signer(priv)) = Public(NewKey(alg))
  <1>1. priv # NULL /\ priv # Error
    BY NullAssumption, ErrorAssumption DEF Valid
  <1> DEFINE seed == [id |-> "new key", size |-> Info[alg].seed]
  <1>2. priv = [alg |-> alg, seed |-> seed]
    BY DEF PrivateKey, NewKey
  <1>a. seed.size = Info[alg].seed /\ seed.id = "new key"
    OBVIOUS
  <1> HIDE DEF seed
  <1>3. /\ priv.alg = alg
        /\ priv.seed = seed
        /\ priv.seed.size = Info[priv.alg].seed
        /\ priv.seed.id = "new key"
    <2>1. priv.alg = alg /\ priv.seed = seed
      BY <1>2
    <2>2. QED
      BY <1>a, <2>1, Zenon
  <1>4. EncodePrivateKeyPEM(priv)
          = [block |-> "PRIVATE KEY", version |-> 0, alg |-> Identifier(alg), seed |-> seed]
    BY <1>3 DEF EncodePrivateKeyPEM
  <1>b. Identifier(alg).oid = alg /\ ~Identifier(alg).params
    BY DEF Identifier
  <1>5. DecodePrivateKeyPEM(EncodePrivateKeyPEM(priv)) = [alg |-> alg, seed |-> seed]
    <2> DEFINE pem == EncodePrivateKeyPEM(priv)
    <2>a. pem = [block |-> "PRIVATE KEY", version |-> 0, alg |-> Identifier(alg), seed |-> seed]
      BY <1>4
    <2> HIDE DEF pem
    <2>1. /\ pem.block = "PRIVATE KEY"
          /\ pem.version = 0
          /\ pem.alg = Identifier(alg)
          /\ pem.seed = seed
      BY <2>a
    <2>2. pem.alg.oid = alg /\ ~pem.alg.params /\ pem.seed.size = Info[pem.alg.oid].seed
      BY <1>a, <1>b, <2>1, Zenon
    <2>3. DecodePrivateKeyPEM(pem) = [alg |-> pem.alg.oid, seed |-> pem.seed]
      BY <2>1, <2>2 DEF DecodePrivateKeyPEM
    <2>4. QED
      BY <2>1, <2>2, <2>3 DEF pem
  <1>6. Signer(priv) = NewKey(alg)
    BY <1>3 DEF Signer, NewKey
  <1>7. QED
    BY <1>1, <1>2, <1>5, <1>6

(* The profile of an end entity, as read.                                  *)
LEMMA NoConstraintsRead ==
    ASSUME parseBasicConstraints(marshalBasicConstraints(NoConstraints)) # Error
    PROVE  parseBasicConstraints(marshalBasicConstraints(NoConstraints)) = NoConstraints
  BY DEF parseBasicConstraints, marshalBasicConstraints, NoConstraints

(* The key usage of an end entity.                                         *)
LEMMA UsageRead ==
    ASSUME parseKeyUsage(marshalKeyUsage({0})) # Error
    PROVE  parseKeyUsage(marshalKeyUsage({0})) = {0}
  <1>1. marshalKeyUsage({0}) = [bits |-> {0}, length |-> 1]
    <2>1. Max({0}) = 0
      BY MaxOfOne
    <2>2. QED
      BY <2>1 DEF marshalKeyUsage
  <1>2. parseKeyUsage(marshalKeyUsage({0})) = {bit \in {0} : bit < 16 /\ bit < 1}
    BY <1>1 DEF parseKeyUsage
  <1>3. QED
    BY <1>2

(* A step that issues a certificate for a key.                             *)
IssuedFor(pub, priv) ==
    /\ pc' = "read certificate"
    /\ ~damaged'
    /\ made'.key = pub
    /\ made'.fromDamaged = damaged
    /\ keyPEM' = IF priv = NULL \/ body.storeKey THEN NULL ELSE EncodePrivateKeyPEM(priv)
    /\ SignedBy(doc', intermediate)
    /\ doc'.tbs.alg.oid = doc'.alg.oid
    /\ Linked(ParseCertificate(doc'))
    /\ ParseCertificate(doc').bc = NoConstraints
    /\ ParseCertificate(doc').keyUsage = {0}
    /\ ParseCertificate(doc').key = pub

(* What the engine does with a request that the handler let through.       *)
LEMMA Issued ==
    ASSUME NEW subject, NEW sans, NEW alg, NEW pub, NEW priv, NEW ekus, NEW now,
           root \in Roots, intermediate \in Intermediates(root),
           pub = [alg |-> pub.alg, bytes |-> pub.bytes],
           IssueCertificate(subject, sans, alg, pub, priv, ekus, now),
           pc' # "refused", pc' # "failed"
    PROVE  IssuedFor(pub, priv)
  <1> DEFINE tmpl == [serial |-> 2, alg |-> intermediate.key.alg, subject |-> subject,
                      notBefore |-> Truncate(now) - Skew, notAfter |-> Truncate(now) + EndEntityLife,
                      bc |-> NoConstraints, keyUsage |-> {0},
                      extKeyUsage |-> IF ekus = <<>> THEN <<"serverAuth">> ELSE ekus, sans |-> sans]
             der  == CreateCertificate(tmpl, intermediate, pub, KeyOf(intermediate))
             cert == ParseCertificate(der)
  <1>1. /\ der # Error
        /\ doc' = der
        /\ made' = [template |-> tmpl, key |-> pub, fromDamaged |-> damaged]
        /\ keyPEM' = IF priv = NULL \/ body.storeKey THEN NULL ELSE EncodePrivateKeyPEM(priv)
        /\ damaged' = FALSE
        /\ pc' = IF ParseCertificate(der) = Error THEN "failed" ELSE "read certificate"
    BY DEF IssueCertificate, Refuse
  <1>2. cert # Error /\ pc' = "read certificate"
    BY <1>1
  <1>3. tmpl.bc = NoConstraints /\ tmpl.keyUsage = {0}
    OBVIOUS
  <1>4. /\ made'.key = pub
        /\ made'.fromDamaged = damaged
    BY <1>1
  <1>a. der = CreateCertificate(tmpl, intermediate, pub, KeyOf(intermediate))
    OBVIOUS
  <1> HIDE DEF tmpl
  <1>5. CertificateFor(cert, tmpl, intermediate, pub, KeyOf(intermediate))
    BY <1>1, <1>2, CreatedAndRead
  <1>6. /\ der = [tbs |-> der.tbs, alg |-> Identifier(KeyOf(intermediate).alg),
                  sig |-> Sign(KeyOf(intermediate), der.tbs), rest |-> FALSE]
        /\ der.tbs.alg = Identifier(KeyOf(intermediate).alg)
    <2> HIDE DEF der
    <2>1. CertificateSigned(der, tmpl, intermediate, pub, KeyOf(intermediate))
      BY <1>1, <1>a, Created
    <2>2. QED
      BY <2>1 DEF CertificateSigned
  <1> HIDE DEF der
  <1>7. /\ intermediate # NULL
        /\ Public(KeyOf(intermediate)) = intermediate.key
        /\ intermediate.subjectKeyID = intermediate.key.bytes
    BY IntermediateFacts
  <1>8. SignedBy(der, intermediate) /\ der.tbs.alg.oid = der.alg.oid
    <2>1. /\ Signed(der)
          /\ der.alg.oid = KeyOf(intermediate).alg
          /\ der.sig.by = Public(KeyOf(intermediate))
          /\ der.sig.over = der.tbs
      BY <1>6, SignIsSigned
    <2>2. der.tbs.alg.oid = KeyOf(intermediate).alg
      BY <1>6 DEF Identifier
    <2>3. QED
      BY <1>7, <2>1, <2>2 DEF SignedBy
  <1> HIDE DEF cert
  <1>9. /\ cert.key = pub
        /\ cert.rawIssuer = intermediate.rawSubject
        /\ cert.authorityKeyID = intermediate.subjectKeyID
        /\ cert.bc = parseBasicConstraints(marshalBasicConstraints(tmpl.bc))
        /\ cert.bc # Error
        /\ tmpl.keyUsage # {} => cert.keyUsage = parseKeyUsage(marshalKeyUsage(tmpl.keyUsage))
        /\ cert.keyUsage # Error
    BY <1>5, <1>7 DEF CertificateFor
  <1>10. cert.bc = NoConstraints
    BY <1>3, <1>9, NoConstraintsRead
  <1>11. cert.keyUsage = {0}
    BY <1>3, <1>9, UsageRead
  <1>12. Linked(cert)
    BY <1>9 DEF Linked
  <1>13. QED
    BY <1>1, <1>2, <1>4, <1>8, <1>9, <1>10, <1>11, <1>12 DEF cert, IssuedFor

(* What the handler accepts of a CSR that it was sent: the key that it is  *)
(* signed with, over all of it.                                            *)
LEMMA RequestRead ==
    ASSUME NEW der, NEW csr, csr = parseCSRPEM(der), csr # Error
    PROVE  /\ csr.key = publicKeyFromSPKI(der.tbs.spki)
           /\ csr.key = [alg |-> der.tbs.spki.alg.oid, bytes |-> der.tbs.spki.bytes]
           /\ csr.key = [alg |-> csr.key.alg, bytes |-> csr.key.bytes]
           /\ der.sig.by = csr.key
           /\ der.sig.over = der.tbs
  <1>1. csr = ParseCertificateRequest(der) /\ CheckSignature(csr)
    BY DEF parseCSRPEM
  <1>2. /\ csr.key = publicKeyFromSPKI(der.tbs.spki)
        /\ csr.key # Error
        /\ csr.sig = der.sig
        /\ csr.rawTBS = der.tbs
    BY <1>1 DEF ParseCertificateRequest
  <1>3. csr.key = [alg |-> der.tbs.spki.alg.oid, bytes |-> der.tbs.spki.bytes]
    BY <1>2 DEF publicKeyFromSPKI
  <1>4. der.sig.by = csr.key /\ der.sig.over = der.tbs
    BY <1>1, <1>2 DEF CheckSignature, Verify
  <1>5. csr.key = [alg |-> csr.key.alg, bytes |-> csr.key.bytes]
    BY <1>3
  <1>6. QED
    BY <1>2, <1>3, <1>4, <1>5

-----------------------------------------------------------------------------
(* The steps and the first invariant *)

(* Nothing but the CAs matters after a step that ends the run.             *)
Documented == {"root", "intermediate", "ready", "handle", "read certificate", "certificate",
               "read list", "list"}

(* Where there is no document nothing is said of one.                      *)
LEMMA Ended ==
    ASSUME pc' \notin Documented
    PROVE  RequestInv' /\ CertificateInv' /\ ListInv' /\ IssuedToTheKeyHolder' /\ KeyFitsCertificate'
  BY DEF Documented, RequestInv, CertificateInv, ListInv, IssuedToTheKeyHolder, KeyFitsCertificate

(* The certificates of the CAs stay what they are.                         *)
LEMMA CAsKept ==
    ASSUME CAsInv, UNCHANGED <<root, intermediate>>, pc \in Later, pc' \in Later \cup {"failed"}
    PROVE  CAsInv'
  <1>1. root \in Roots /\ intermediate \in Intermediates(root)
    BY DEF CAsInv
  <1>2. Roots' = Roots /\ Intermediates(root)' = Intermediates(root)
    BY DEF Roots, Intermediates, CertificateOf, RootCertificate, IntermediateCertificate
  <1>3. QED
    BY <1>1, <1>2 DEF CAsInv, Later

(* CreateRoot keeps the invariant.                                         *)
LEMMA CreateRootStep ==
    ASSUME IInv,
           NEW s \in CASubjects, NEW a \in CAAlgorithms, NEW t \in Times,
           CreateRoot(s, a, t)
    PROVE  IInv'
  <1> DEFINE c == CertificateOf(RootCertificate(s, a, t))
  <1>1. /\ pc = "root"
        /\ \/ pc' = "failed" /\ root' = root
           \/ pc' = "intermediate" /\ root' = c /\ c # Error
        /\ intermediate' = intermediate
        /\ damaged' = damaged
    BY DEF CreateRoot
  <1>2. root = NULL /\ intermediate = NULL /\ ~damaged
    BY <1>1 DEF IInv, CAsInv, RequestInv
  <1>3. c # Error => c \in Roots
    BY DEF Roots
  <1> HIDE DEF c
  <1>4. CAsInv'
    BY <1>1, <1>2, <1>3 DEF CAsInv, Later
  <1>5. /\ RequestInv' /\ CertificateInv' /\ ListInv'
        /\ IssuedToTheKeyHolder' /\ KeyFitsCertificate'
    BY <1>1, <1>2 DEF RequestInv, CertificateInv, ListInv, IssuedToTheKeyHolder, KeyFitsCertificate
  <1>6. QED
    BY <1>4, <1>5 DEF IInv

(* CreateIntermediate keeps it.                                            *)
LEMMA CreateIntermediateStep ==
    ASSUME IInv,
           NEW s \in CASubjects, NEW a \in CAAlgorithms, NEW t \in Times,
           CreateIntermediate(s, a, t)
    PROVE  IInv'
  <1> DEFINE c == CertificateOf(IntermediateCertificate(root, s, a, t))
  <1>1. /\ pc = "intermediate"
        /\ \/ pc' = "failed" /\ intermediate' = intermediate
           \/ pc' = "ready" /\ intermediate' = c /\ c # Error
        /\ root' = root
        /\ damaged' = damaged
    BY DEF CreateIntermediate
  <1>2. root \in Roots /\ intermediate = NULL /\ ~damaged
    BY <1>1 DEF IInv, CAsInv, RequestInv
  <1>3. c # Error => c \in Intermediates(root)
    BY DEF Intermediates
  <1> HIDE DEF c
  <1>4. CAsInv'
    BY <1>1, <1>2, <1>3 DEF CAsInv, Later
  <1>5. /\ RequestInv' /\ CertificateInv' /\ ListInv'
        /\ IssuedToTheKeyHolder' /\ KeyFitsCertificate'
    BY <1>1, <1>2 DEF RequestInv, CertificateInv, ListInv, IssuedToTheKeyHolder, KeyFitsCertificate
  <1>6. QED
    BY <1>4, <1>5 DEF IInv

(* What a client sends: no CSR, or one that somebody signed.               *)
LEMMA AskSends ==
    ASSUME Ask
    PROVE  \/ \E subject, sans : GiveUp(subject, sans)
           \/ \E request, byUs :
                /\ Send(request, byUs)
                /\ request.csr = NULL \/ SignedRequest(request.csr)
  <1>1. ASSUME NEW s, NEW n, NEW p \in Pairs, NEW u, SendCSR(s, n, p, u)
        PROVE  \/ GiveUp(s, n)
               \/ \E request, byUs :
                    /\ Send(request, byUs)
                    /\ request.csr = NULL \/ SignedRequest(request.csr)
    <2> DEFINE csr == CreateCertificateRequest(s, Public(p), p, n)
               request == [EmptyBody EXCEPT !.csr = csr, !.extKeyUsage = u]
    <2>1. IF csr = Error THEN GiveUp(s, n) ELSE Send(request, TRUE)
      BY <1>1 DEF SendCSR
    <2>2. csr = Error \/ SignedRequest(csr)
      BY RequestIsSigned
    <2> HIDE DEF csr
    <2>3. request.csr = csr
      BY DEF EmptyBody
    <2>4. QED
      BY <2>1, <2>2, <2>3
  <1>2. ASSUME NEW csr \in ForeignCSRs, SendForeignCSR(csr)
        PROVE  \E request, byUs :
                 /\ Send(request, byUs)
                 /\ request.csr = NULL \/ SignedRequest(request.csr)
    <2>1. [EmptyBody EXCEPT !.csr = csr].csr = csr
      BY DEF EmptyBody
    <2>2. QED
      BY <1>2, <2>1, ForeignIsSigned DEF SendForeignCSR
  <1>3. ASSUME NEW p \in Pairs, SendCSRAndMore(p)
        PROVE  \E request, byUs :
                 /\ Send(request, byUs)
                 /\ request.csr = NULL \/ SignedRequest(request.csr)
    <2>1. PICK csr \in {CreateCertificateRequest(s, Public(p), p, EmptySANs) : s \in Subjects} :
            /\ csr # Error
            /\ \E request \in
                 {[EmptyBody EXCEPT !.csr = csr, !.subject = [EmptyName EXCEPT !["O"] = <<<<"b">>>>]],
                  [EmptyBody EXCEPT !.csr = csr, !.dns = <<"host">>],
                  [EmptyBody EXCEPT !.csr = csr, !.email = <<"mail">>],
                  [EmptyBody EXCEPT !.csr = csr, !.ip = <<"10.0.0.1">>],
                  [EmptyBody EXCEPT !.csr = csr, !.alg = "ML-DSA-44"],
                  [EmptyBody EXCEPT !.csr = csr, !.storeKey = TRUE]} : Send(request, TRUE)
      BY <1>3 DEF SendCSRAndMore
    <2>2. PICK request \in
                 {[EmptyBody EXCEPT !.csr = csr, !.subject = [EmptyName EXCEPT !["O"] = <<<<"b">>>>]],
                  [EmptyBody EXCEPT !.csr = csr, !.dns = <<"host">>],
                  [EmptyBody EXCEPT !.csr = csr, !.email = <<"mail">>],
                  [EmptyBody EXCEPT !.csr = csr, !.ip = <<"10.0.0.1">>],
                  [EmptyBody EXCEPT !.csr = csr, !.alg = "ML-DSA-44"],
                  [EmptyBody EXCEPT !.csr = csr, !.storeKey = TRUE]} : Send(request, TRUE)
      BY <2>1
    <2>3. SignedRequest(csr)
      BY <2>1, RequestIsSigned
    <2>4. request.csr = csr
      BY <2>2 DEF EmptyBody
    <2>5. QED
      BY <2>2, <2>3, <2>4
  <1>4. ASSUME NEW s, NEW n, NEW ip, NEW a, NEW u, NEW k, SendBody(s, n, ip, a, u, k)
        PROVE  \E request, byUs :
                 /\ Send(request, byUs)
                 /\ request.csr = NULL \/ SignedRequest(request.csr)
    <2> DEFINE request == [EmptyBody EXCEPT !.subject = s, !.dns = n.dns, !.email = n.email,
                                            !.ip = ip, !.alg = a, !.extKeyUsage = u,
                                            !.storeKey = k]
    <2>1. Send(request, TRUE)
      BY <1>4 DEF SendBody
    <2>2. request.csr = NULL
      BY DEF EmptyBody
    <2>3. QED
      BY <2>1, <2>2
  <1>5. QED
    BY <1>1, <1>2, <1>3, <1>4 DEF Ask

(* A request keeps it.                                                     *)
LEMMA AskStep ==
    ASSUME IInv, Ask
    PROVE  IInv'
  <1>1. CASE \E subject, sans : GiveUp(subject, sans)
    <2>1. /\ pc = "ready" /\ pc' = "unsent"
          /\ UNCHANGED <<root, intermediate>>
      BY <1>1 DEF GiveUp
    <2>2. CAsInv'
      BY <2>1, CAsKept DEF IInv, Later
    <2>3. QED
      BY <2>1, <2>2, Ended DEF IInv, Documented
  <1>2. ASSUME NEW request, NEW byUs, Send(request, byUs),
               request.csr = NULL \/ SignedRequest(request.csr)
        PROVE  IInv'
    <2>1. /\ pc = "ready" /\ pc' = "handle"
          /\ body' = request
          /\ doc' = request.csr
          /\ UNCHANGED <<root, intermediate, keyPEM, damaged, got>>
      BY <1>2 DEF Send
    <2>2. CAsInv'
      BY <2>1, CAsKept DEF IInv, Later
    <2>3. ~damaged'
      BY <2>1 DEF IInv, RequestInv
    <2>4. RequestInv'
      <3>1. CASE request.csr = NULL
        BY <2>1, <2>3, <3>1 DEF RequestInv
      <3>2. CASE SignedRequest(request.csr)
        <4>1. SignedRequest(doc')
          BY <2>1, <3>2
        <4>2. SignedRequest(doc)'
          BY <4>1 DEF SignedRequest, Signed, DamagedRequest
        <4>3. QED
          BY <2>1, <2>3, <4>2 DEF RequestInv
      <3>3. QED
        BY <1>2, <3>1, <3>2
    <2>5. /\ CertificateInv' /\ ListInv'
          /\ IssuedToTheKeyHolder' /\ KeyFitsCertificate'
      BY <2>1 DEF CertificateInv, ListInv, IssuedToTheKeyHolder, KeyFitsCertificate
    <2>6. QED
      BY <2>2, <2>4, <2>5 DEF IInv
  <1>3. QED
    BY <1>1, <1>2, AskSends

(* HandleIssueCertificate keeps it.                                        *)
LEMMA HandleStep ==
    ASSUME IInv, NEW now \in Times, HandleIssueCertificate(now)
    PROVE  IInv'
  <1> DEFINE csr == IF body.csr = NULL THEN NULL ELSE parseCSRPEM(doc)
             ips == [i \in DOMAIN body.ip |-> ParseIP(body.ip[i])]
             alg == IF body.alg = "" THEN "ML-DSA-44" ELSE body.alg
             pair == NewKey(alg)
             sans == [dns |-> body.dns, email |-> body.email,
                      ip |-> [i \in DOMAIN ips |-> To4(ips[i])]]
             FromCSR == IssueCertificate(csr.subject, csr.sans, csr.key.alg, csr.key, NULL,
                                         body.extKeyUsage, now)
             FromBody == IssueCertificate(body.subject, sans, alg, Public(pair), PrivateKey(pair),
                                          body.extKeyUsage, now)
  <1>1. /\ pc = "handle"
        /\ UNCHANGED <<root, intermediate, body, own, got>>
        /\ \/ Refuse(now)
           \/ csr # Error /\ body.csr # NULL /\ FromCSR
           \/ Valid(alg) /\ body.csr = NULL /\ FromBody
    BY DEF HandleIssueCertificate
  <1>2. root \in Roots /\ intermediate \in Intermediates(root)
    BY <1>1 DEF IInv, CAsInv, Later
  <1> HIDE DEF ips, alg, sans
  <1>3. pc' \in {"refused", "failed", "read certificate"}
    BY <1>1 DEF IssueCertificate, Refuse
  <1>4. CAsInv'
    BY <1>1, <1>3, CAsKept DEF IInv, Later
  <1>5. CASE pc' # "read certificate"
    <2>1. pc' \notin Documented
      BY <1>3, <1>5 DEF Documented
    <2>2. QED
      BY <1>4, <2>1, Ended DEF IInv
  <1>6. ASSUME NEW pub, NEW priv,
               IssuedFor(pub, priv),
               ~damaged,
               body.csr # NULL =>
                 /\ priv = NULL
                 /\ pub = [alg |-> body.csr.tbs.spki.alg.oid, bytes |-> body.csr.tbs.spki.bytes]
                 /\ body.csr.sig.by = pub
                 /\ body.csr.sig.over = body.csr.tbs,
               body.csr = NULL =>
                 /\ Valid(alg)
                 /\ priv = PrivateKey(NewKey(alg))
                 /\ pub = Public(NewKey(alg))
        PROVE  IInv'
    <2>a. /\ pc' = "read certificate"
          /\ ~damaged'
          /\ made'.key = pub
          /\ ~made'.fromDamaged
          /\ keyPEM' = IF priv = NULL \/ body.storeKey THEN NULL ELSE EncodePrivateKeyPEM(priv)
          /\ SignedBy(doc', intermediate)
          /\ doc'.tbs.alg.oid = doc'.alg.oid
          /\ Linked(ParseCertificate(doc'))
          /\ ParseCertificate(doc').bc = NoConstraints
          /\ ParseCertificate(doc').keyUsage = {0}
          /\ ParseCertificate(doc').key = pub
      BY <1>6 DEF IssuedFor
    <2>1. RequestInv' /\ ListInv'
      BY <2>a DEF RequestInv, ListInv
    <2>2. SignedBy(doc, intermediate)' /\ Linked(ParseCertificate(doc))'
      BY <1>1, <2>a DEF SignedBy, Signed, Linked
    <2>3. CertificateInv'
      BY <2>2, <2>a DEF CertificateInv
    <2>4. IssuedToTheKeyHolder'
      <3>1. body.csr # NULL =>
              pub = [alg |-> body.csr.tbs.spki.alg.oid, bytes |-> body.csr.tbs.spki.bytes]
        BY <1>6
      <3>2. body.csr # NULL =>
              /\ pub.bytes = body.csr.tbs.spki.bytes
              /\ pub.alg = body.csr.tbs.spki.alg.oid
        BY <3>1
      <3>3. body.csr # NULL => body.csr.sig.by = pub /\ body.csr.sig.over = body.csr.tbs
        BY <1>6
      <3>4. QED
        BY <1>1, <2>a, <3>2, <3>3 DEF IssuedToTheKeyHolder
    <2>5. KeyFitsCertificate'
      <3>1. CASE body.csr # NULL \/ body.storeKey
        <4>1. keyPEM' = NULL
          BY <1>6, <2>a, <3>1
        <4>2. QED
          BY <1>1, <3>1, <4>1 DEF KeyFitsCertificate
      <3>2. CASE body.csr = NULL /\ ~body.storeKey
        <4>a. Valid(alg) /\ priv = PrivateKey(NewKey(alg)) /\ pub = Public(NewKey(alg))
          BY <1>6, <3>2
        <4>1. /\ priv # NULL
              /\ DecodePrivateKeyPEM(EncodePrivateKeyPEM(priv)) = priv
              /\ priv # Error
              /\ Public(Signer(priv)) = Public(NewKey(alg))
          BY <4>a, KeyRead
        <4>2. keyPEM' = EncodePrivateKeyPEM(priv) /\ made'.key = Public(NewKey(alg))
          BY <2>a, <3>2, <4>a, <4>1
        <4>3. /\ DecodePrivateKeyPEM(keyPEM') # Error
              /\ Public(Signer(DecodePrivateKeyPEM(keyPEM'))) = made'.key
          BY <4>1, <4>2
        <4>4. QED
          BY <1>1, <3>2, <4>3 DEF KeyFitsCertificate
      <3>3. QED
        BY <3>1, <3>2
    <2>6. QED
      BY <1>4, <2>1, <2>3, <2>4, <2>5 DEF IInv
  <1>7. CASE Refuse(now)
    BY <1>5, <1>7 DEF Refuse
  <1>8. CASE csr # Error /\ body.csr # NULL /\ FromCSR
    <2>1. SUFFICES ASSUME pc' = "read certificate"
                   PROVE  IInv'
      BY <1>5
    <2>2. csr = parseCSRPEM(doc)
      BY <1>8
    <2>3. ~damaged /\ doc = body.csr
      BY <1>1, <1>8, <2>2 DEF IInv, RequestInv
    <2> HIDE DEF csr
    <2>4. /\ csr.key = [alg |-> doc.tbs.spki.alg.oid, bytes |-> doc.tbs.spki.bytes]
          /\ csr.key = [alg |-> csr.key.alg, bytes |-> csr.key.bytes]
          /\ doc.sig.by = csr.key
          /\ doc.sig.over = doc.tbs
      BY <1>8, <2>2, RequestRead
    <2>5. IssuedFor(csr.key, NULL)
      <3>1. pc' # "refused" /\ pc' # "failed"
        BY <2>1
      <3>2. csr.key = [alg |-> csr.key.alg, bytes |-> csr.key.bytes]
        BY <2>4
      <3>3. QED
        BY <1>2, <1>8, <3>1, <3>2, Issued
    <2>6. QED
      BY <1>6, <1>8, <2>3, <2>4, <2>5
  <1>9. CASE Valid(alg) /\ body.csr = NULL /\ FromBody
    <2>1. SUFFICES ASSUME pc' = "read certificate"
                   PROVE  IInv'
      BY <1>5
    <2>2. ~damaged
      BY <1>1, <1>9 DEF IInv, RequestInv
    <2>3. Public(pair) = [alg |-> Public(pair).alg, bytes |-> Public(pair).bytes]
      BY PublicIs
    <2> HIDE DEF pair
    <2>4. IssuedFor(Public(pair), PrivateKey(pair))
      <3>1. pc' # "refused" /\ pc' # "failed"
        BY <2>1
      <3>2. QED
        BY <1>2, <1>9, <2>3, <3>1, Issued
    <2>5. QED
      BY <1>6, <1>9, <2>2, <2>4 DEF pair
  <1>10. QED
    BY <1>1, <1>7, <1>8, <1>9

(* Publish keeps it.                                                       *)
LEMMA PublishStep ==
    ASSUME IInv, NEW e \in Entries, NEW now \in Times, Publish(e, now)
    PROVE  IInv'
  <1> DEFINE der == CreateRevocationList(intermediate, KeyOf(intermediate), Len(e) + 1, e,
                                         Truncate(now), Truncate(now) + CRLLife)
  <1>1. /\ pc = "ready"
        /\ doc' = der
        /\ pc' = IF der = Error THEN "failed" ELSE "read list"
        /\ UNCHANGED <<root, intermediate, body, own, keyPEM, damaged, got>>
    BY DEF Publish
  <1>2. root \in Roots /\ intermediate \in Intermediates(root) /\ ~damaged
    BY <1>1 DEF IInv, CAsInv, RequestInv, Later
  <1>3. CAsInv'
    BY <1>1, CAsKept DEF IInv, Later
  <1>4. CASE der = Error
    <2>1. pc' \notin Documented
      BY <1>1, <1>4 DEF Documented
    <2>2. QED
      BY <1>3, <2>1, Ended DEF IInv
  <1>5. CASE der # Error
    <2>1. /\ Public(KeyOf(intermediate)) = intermediate.key
          /\ intermediate.subjectKeyID = intermediate.key.bytes
      BY <1>2, IntermediateFacts
    <2>2. /\ SignedBy(der, intermediate)
          /\ ParseRevocationList(der) # Error =>
               ParseRevocationList(der).authorityKeyID = intermediate.key.bytes
      BY <1>5, <2>1, ListIsSigned
    <2> HIDE DEF der
    <2>3. SignedBy(doc, intermediate)'
      BY <1>1, <2>2 DEF SignedBy, Signed
    <2>4. ListAccepted(doc)' =>
            (ParseRevocationList(doc).authorityKeyID = intermediate.subjectKeyID)'
      BY <1>1, <2>1, <2>2 DEF ListAccepted
    <2>5. ListInv'
      BY <1>1, <1>2, <1>5, <2>3, <2>4 DEF ListInv
    <2>6. /\ RequestInv' /\ CertificateInv'
          /\ IssuedToTheKeyHolder' /\ KeyFitsCertificate'
      BY <1>1, <1>5 DEF RequestInv, CertificateInv, IssuedToTheKeyHolder, KeyFitsCertificate
    <2>7. QED
      BY <1>3, <2>5, <2>6 DEF IInv
  <1>6. QED
    BY <1>4, <1>5

(* ReadCertificate keeps it.                                               *)
LEMMA ReadCertificateStep ==
    ASSUME IInv, ReadCertificate
    PROVE  IInv'
  <1> DEFINE cert == ParseCertificate(doc)
  <1>1. /\ pc = "read certificate" /\ pc' = "certificate"
        /\ UNCHANGED <<root, intermediate, body, own, doc, made, keyPEM, damaged>>
        /\ \/ got' = NULL
           \/ CertificateAccepted(doc) /\ got' = cert
    BY DEF ReadCertificate, CertificateAccepted
  <1>2. CAsInv'
    BY <1>1, CAsKept DEF IInv, Later
  <1>3. /\ ~damaged => Linked(cert)
        /\ damaged => ~CertificateAccepted(doc)
    BY <1>1 DEF IInv, CertificateInv
  <1> HIDE DEF cert
  <1>4. got' # NULL => ~damaged' /\ Linked(got')
    BY <1>1, <1>3
  <1>5. Linked(got)' <=> Linked(got')
    BY <1>1 DEF Linked
  <1>6. CertificateInv'
    BY <1>1, <1>4, <1>5 DEF CertificateInv
  <1>7. /\ RequestInv' /\ ListInv'
        /\ IssuedToTheKeyHolder' /\ KeyFitsCertificate'
    BY <1>1 DEF RequestInv, ListInv, IssuedToTheKeyHolder, KeyFitsCertificate
  <1>8. QED
    BY <1>2, <1>6, <1>7 DEF IInv

(* ReadList keeps it.                                                      *)
LEMMA ReadListStep ==
    ASSUME IInv, ReadList
    PROVE  IInv'
  <1> DEFINE list == ParseRevocationList(doc)
  <1>1. /\ pc = "read list" /\ pc' = "list"
        /\ UNCHANGED <<root, intermediate, body, own, doc, made, keyPEM, damaged>>
        /\ \/ got' = NULL
           \/ ListAccepted(doc) /\ got' = list
    BY DEF ReadList, ListAccepted
  <1>2. CAsInv'
    BY <1>1, CAsKept DEF IInv, Later
  <1>3. /\ ~damaged => (ListAccepted(doc) => list.authorityKeyID = intermediate.subjectKeyID)
        /\ damaged => ~ListAccepted(doc)
    BY <1>1 DEF IInv, ListInv
  <1> HIDE DEF list
  <1>4. got' # NULL => ~damaged' /\ got'.authorityKeyID = intermediate'.subjectKeyID
    BY <1>1, <1>3
  <1>5. ListInv'
    BY <1>1, <1>4 DEF ListInv
  <1>6. /\ RequestInv' /\ CertificateInv'
        /\ IssuedToTheKeyHolder' /\ KeyFitsCertificate'
    BY <1>1 DEF RequestInv, CertificateInv, IssuedToTheKeyHolder, KeyFitsCertificate
  <1>7. QED
    BY <1>2, <1>5, <1>6 DEF IInv

(* Damage keeps it.                                                        *)
LEMMA DamageStep ==
    ASSUME IInv, Damage
    PROVE  IInv'
  <1>1. /\ pc \in {"handle", "read certificate", "read list"}
        /\ doc # NULL
        /\ ~damaged
        /\ doc' \in DamagedAround(doc) \cup (IF pc = "handle" THEN DamagedRequest(doc)
                                             ELSE DamagedIssued(doc))
        /\ doc' # doc
        /\ damaged' = TRUE
        /\ UNCHANGED <<pc, root, intermediate, body, own, made, keyPEM, got>>
    BY DEF Damage
  <1>2. CAsInv'
    BY <1>1, CAsKept DEF IInv, Later
  <1>3. IssuedToTheKeyHolder' /\ KeyFitsCertificate'
    BY <1>1 DEF IInv, IssuedToTheKeyHolder, KeyFitsCertificate
  <1>4. intermediate.key # NULL
    BY <1>1, IntermediateFacts DEF IInv, CAsInv, Later
  <1>5. CASE pc = "handle"
    <2>1. body.csr # NULL /\ SignedRequest(doc)
      BY <1>1, <1>5 DEF IInv, RequestInv
    <2>2. parseCSRPEM(doc') = Error
      BY <1>1, <1>5, <2>1, RequestNoticed
    <2>3. RequestInv'
      BY <1>1, <1>5, <2>1, <2>2 DEF RequestInv
    <2>4. CertificateInv' /\ ListInv'
      BY <1>1, <1>5 DEF CertificateInv, ListInv
    <2>5. QED
      BY <1>2, <1>3, <2>3, <2>4 DEF IInv
  <1>6. CASE pc = "read certificate"
    <2>1. /\ SignedBy(doc, intermediate)
          /\ doc.tbs.alg.oid = doc.alg.oid
          /\ ~made.fromDamaged
      BY <1>1, <1>6 DEF IInv, CertificateInv
    <2>2. ~CertificateAccepted(doc')
      BY <1>1, <1>4, <1>6, <2>1, CertificateNoticed
    <2>3. ~CertificateAccepted(doc)'
      BY <1>1, <2>2 DEF CertificateAccepted
    <2>4. CertificateInv'
      BY <1>1, <1>6, <2>1, <2>3 DEF CertificateInv
    <2>5. RequestInv' /\ ListInv'
      BY <1>1, <1>6 DEF RequestInv, ListInv
    <2>6. QED
      BY <1>2, <1>3, <2>4, <2>5 DEF IInv
  <1>7. CASE pc = "read list"
    <2>1. SignedBy(doc, intermediate)
      BY <1>1, <1>7 DEF IInv, ListInv
    <2>2. ~ListAccepted(doc')
      BY <1>1, <1>4, <1>7, <2>1, ListNoticed
    <2>3. ~ListAccepted(doc)'
      BY <1>1, <2>2 DEF ListAccepted
    <2>4. ListInv'
      BY <1>1, <1>7, <2>3 DEF ListInv
    <2>5. RequestInv' /\ CertificateInv'
      BY <1>1, <1>7 DEF RequestInv, CertificateInv
    <2>6. QED
      BY <1>2, <1>3, <2>4, <2>5 DEF IInv
  <1>8. QED
    BY <1>1, <1>5, <1>6, <1>7

-----------------------------------------------------------------------------
(* The theorems that the first invariant gives *)

(* Every step keeps the invariant.                                         *)
LEMMA StepKeeps ==
    ASSUME IInv, [Next]_vars
    PROVE  IInv'
  <1>1. CASE \E s \in CASubjects, a \in CAAlgorithms, t \in Times :
               CreateRoot(s, a, t) \/ CreateIntermediate(s, a, t)
    BY <1>1, CreateRootStep, CreateIntermediateStep
  <1>2. CASE Ask
    BY <1>2, AskStep
  <1>3. CASE \E t \in Times : HandleIssueCertificate(t)
    BY <1>3, HandleStep
  <1>4. CASE \E e \in Entries, t \in Times : Publish(e, t)
    BY <1>4, PublishStep
  <1>5. CASE ReadCertificate
    BY <1>5, ReadCertificateStep
  <1>6. CASE ReadList
    BY <1>6, ReadListStep
  <1>7. CASE Damage
    BY <1>7, DamageStep
  <1>8. CASE UNCHANGED vars
    <2>1. /\ UNCHANGED <<pc, root, intermediate, body, own, doc, made, keyPEM, damaged, got>>
      BY <1>8 DEF vars
    <2>2. CAsInv'
      <3>1. Roots' = Roots /\ Intermediates(root)' = Intermediates(root)
        BY <2>1 DEF Roots, Intermediates, CertificateOf, RootCertificate, IntermediateCertificate
      <3>2. QED
        BY <2>1, <3>1 DEF IInv, CAsInv
    <2>3. RequestInv'
      BY <2>1 DEF IInv, RequestInv
    <2>4. CertificateInv'
      BY <2>1 DEF IInv, CertificateInv, CertificateAccepted, SignedBy, Signed, Linked
    <2>5. ListInv'
      BY <2>1 DEF IInv, ListInv, ListAccepted, SignedBy, Signed
    <2>6. IssuedToTheKeyHolder' /\ KeyFitsCertificate'
      BY <2>1 DEF IInv, IssuedToTheKeyHolder, KeyFitsCertificate
    <2>7. QED
      BY <2>2, <2>3, <2>4, <2>5, <2>6 DEF IInv
  <1>9. QED
    BY <1>1, <1>2, <1>3, <1>4, <1>5, <1>6, <1>7, <1>8 DEF Next

(* The certificates of CAs, requests, certificates and lists stay as their *)
(* authors make them, and a damaged one is refused by who reads it.        *)
THEOREM Invariance == Spec => []IInv
  <1>1. Init => IInv
    BY DEF Init, IInv, CAsInv, RequestInv, CertificateInv, ListInv, IssuedToTheKeyHolder,
           KeyFitsCertificate, Later
  <1>2. IInv /\ [Next]_vars => IInv'
    BY StepKeeps
  <1>3. QED
    BY <1>1, <1>2, PTL DEF Spec

(* The private key of a response (EncodePrivateKeyPEM of pkcs8.go) can be  *)
(* read, and its public key is that of the certificate beside it, for      *)
(* every algorithm; for a CSR, or with store_key, there is none.           *)
THEOREM TheKeyIsTheCertificates == Spec => []KeyFitsCertificate
  <1>1. IInv => KeyFitsCertificate
    BY DEF IInv
  <1>2. QED
    BY <1>1, Invariance, PTL

(* What handleIssueCertificate grants is for the key that the CSR was      *)
(* signed with, and never a CA, whatever another program put into the CSR. *)
THEOREM GrantedToTheKeyHolder == Spec => []IssuedToTheKeyHolder
  <1>1. IInv => IssuedToTheKeyHolder
    BY DEF IInv
  <1>2. QED
    BY <1>1, Invariance, PTL

(* One changed field of a CSR, a certificate or a CRL: parseCSRPEM,        *)
(* VerifySignatureFrom of certificates and of lists refuse it.             *)
THEOREM DamageIsRefused == Spec => []DamageIsNoticed
  <1>1. IInv => DamageIsNoticed
    BY DEF IInv, CertificateInv, ListInv, DamageIsNoticed
  <1>2. QED
    BY <1>1, Invariance, PTL

(* What CreateCA, IssueCertificate and CRL sign has what Verify needs to   *)
(* link it to its issuer: names, key identifiers, signatures, path         *)
(* lengths.                                                                *)
THEOREM ChainsLink == Spec => []ChainLinks
  <1>1. ASSUME IInv
        PROVE  ChainLinks
    <2>1. root # NULL => root \in Roots
      BY <1>1 DEF IInv, CAsInv
    <2>2. intermediate # NULL => root \in Roots /\ intermediate \in Intermediates(root)
      BY <1>1 DEF IInv, CAsInv
    <2>3. root # NULL =>
            /\ VerifyCertificateFrom(root, root)
            /\ root.rawIssuer = root.rawSubject
            /\ root.bc = [isCA |-> TRUE, maxPathLen |-> 1, maxPathLenSet |-> TRUE]
      BY <2>1, RootFacts
    <2>4. intermediate # NULL =>
            /\ VerifyCertificateFrom(intermediate, root)
            /\ intermediate.rawIssuer = root.rawSubject
            /\ intermediate.authorityKeyID = root.subjectKeyID
            /\ intermediate.bc = [isCA |-> TRUE, maxPathLen |-> 0, maxPathLenSet |-> TRUE]
      BY <2>2, IntermediateFacts
    <2>5. pc = "certificate" /\ got # NULL => Linked(got)
      BY <1>1 DEF IInv, CertificateInv
    <2>6. pc = "list" /\ got # NULL => got.authorityKeyID = intermediate.subjectKeyID
      BY <1>1 DEF IInv, ListInv
    <2>7. QED
      BY <2>3, <2>4, <2>5, <2>6 DEF ChainLinks, Linked
  <1>2. QED
    BY <1>1, Invariance, PTL

-----------------------------------------------------------------------------
(* Lemmas about the authorities *)

(* What others rely on in the certificate of a CA.                         *)
AuthorityIs(cert) ==
    /\ Readable(cert.rawSubject)
    /\ cert.key \in PublicKeys
    /\ KeyOf(cert) \in Signers
    /\ KeyOf(cert).alg = cert.key.alg
    /\ Public(KeyOf(cert)) = cert.key
    /\ cert.notAfter \in Int
    /\ cert.notAfter < Century \/ cert.notAfter <= Forever

(* A time without its half second, and what is added to it.                *)
LEMMA Truncated ==
    ASSUME NEW t \in Times
    PROVE  /\ Truncate(t) \in Nat /\ Truncate(t) % 2 = 0
           /\ Truncate(t) - Skew \in Int /\ (Truncate(t) - Skew) % 2 = 0
           /\ \A life \in {Skew, RootLife, IntermediateLife, EndEntityLife, CRLLife} :
                 Truncate(t) + life \in Int /\ (Truncate(t) + life) % 2 = 0
  <1>1. /\ t \in Nat /\ Skew \in Nat /\ Skew % 2 = 0
        /\ \A d \in {Skew, RootLife, IntermediateLife, EndEntityLife, CRLLife} : d \in Nat /\ d % 2 = 0
    BY TimeAssumption DEF TimesAre
  <1>2. Truncate(t) \in Nat /\ Truncate(t) % 2 = 0
    <2>1. t % 2 \in {0, 1} /\ t >= t % 2
      BY <1>1
    <2>2. QED
      BY <1>1, <2>1 DEF Truncate
  <1> DEFINE u == Truncate(t)
  <1>3. u \in Nat /\ u % 2 = 0
    BY <1>1, <1>2
  <1> HIDE DEF u
  <1>4. u - Skew \in Int /\ (u - Skew) % 2 = 0
    BY <1>1, <1>3
  <1>5. ASSUME NEW life \in Nat, life % 2 = 0
        PROVE  u + life \in Int /\ (u + life) % 2 = 0
    BY <1>3, <1>5
  <1>6. QED
    BY <1>1, <1>3, <1>4, <1>5 DEF u

(* The keys that the engine generates.                                     *)
LEMMA KeysAre ==
    ASSUME NEW alg \in DOMAIN Info
    PROVE  RootKey(alg) \in Signers /\ IntermediateKey(alg) \in Signers /\ NewKey(alg) \in Signers
  <1>1. /\ "root key" \in Strings /\ "intermediate key" \in Strings /\ "new key" \in Strings
    BY DEF Strings
  <1>2. QED
    BY <1>1 DEF RootKey, IntermediateKey, NewKey, Signers

(* No alternative names are alternative names.                             *)
LEMMA NoNamesType == EmptySANs \in AltNames
  BY NoneAsked DEF NamesAsked

(* The templates of CAs can be written.                                    *)
LEMMA CATemplateIs ==
    ASSUME NEW subject \in CASubjects, NEW alg \in DOMAIN Info, NEW now \in Times,
           NEW profile \in {rootProfile, intermediateProfile}
    PROVE  TemplateIs(CATemplate(profile, subject, alg, now))
  <1> DEFINE t == CATemplate(profile, subject, alg, now)
             bc == [isCA |-> TRUE, maxPathLen |-> profile.pathLen, maxPathLenSet |-> TRUE]
  <1>1. /\ profile.pathLen \in Nat /\ profile.keyUsage = {5, 6}
        /\ profile.life \in {RootLife, IntermediateLife}
    BY DEF rootProfile, intermediateProfile
  <1>2. /\ t.serial = 1 /\ t.alg = alg /\ t.subject = subject
        /\ t.notBefore = Truncate(now) - Skew /\ t.notAfter = Truncate(now) + profile.life
        /\ t.bc = bc /\ t.keyUsage = profile.keyUsage /\ t.extKeyUsage = <<>> /\ t.sans = EmptySANs
    BY DEF CATemplate
  <1>3. IsConstraints(bc)
    BY <1>1 DEF IsConstraints
  <1>4. profile.keyUsage \in SUBSET KeyUsageBits /\ profile.keyUsage # {}
    BY <1>1 DEF KeyUsageBits
  <1>5. <<>> \in Seq(Strings)
    OBVIOUS
  <1>6. EmptySANs \in AltNames
    BY NoNamesType
  <1>7. subject \in Names
    BY InputAssumption DEF InputsAre
  <1> HIDE DEF t, bc
  <1>8. ExtensionsWanted(t)
    BY <1>2, <1>3, <1>4, <1>5, <1>6 DEF ExtensionsWanted
  <1>9. /\ t.notBefore \in Int /\ t.notBefore % 2 = 0 /\ t.notAfter \in Int /\ t.notAfter % 2 = 0
    BY <1>1, <1>2, Truncated
  <1>10. QED
    BY <1>2, <1>7, <1>8, <1>9 DEF TemplateIs, t

(* A certificate of a CA that is written is read as the one of an          *)
(* authority.                                                              *)
LEMMA AuthorityMade ==
    ASSUME NEW t, TemplateIs(t), NEW parent, parent = NULL \/ Readable(parent.rawSubject),
           NEW pair \in Signers, NEW signer \in Signers,
           NEW der, der = CreateCertificate(t, parent, Public(pair), signer), der # Error
    PROVE  /\ ParseCertificate(der) # Error
           /\ AuthorityIs(ParseCertificate(der))
  <1> DEFINE cert == ParseCertificate(der)
             pub == Public(pair)
  <1>1. pub \in PublicKeys /\ pub.alg = pair.alg
    BY PublicKeyIs
  <1>2. cert # Error /\ ReadFrom(cert, t, pub, signer)
    <2> HIDE DEF pub
    <2>1. der = CreateCertificate(t, parent, pub, signer)
      BY DEF pub
    <2>2. QED
      BY <1>1, <2>1, CertificateReadBack
  <1>3. t.subject \in Names /\ t.notAfter \in Int
    BY DEF TemplateIs
  <1> HIDE DEF cert
  <1>4. /\ cert.key = pub /\ RDNsOf(t.subject, cert.rawSubject)
        /\ cert.notAfter = t.notAfter /\ (t.notAfter < Century \/ t.notAfter <= Forever)
    BY <1>2 DEF ReadFrom
  <1>5. Readable(cert.rawSubject)
    BY <1>3, <1>4 DEF Readable
  <1>6. KeyOf(cert) = [alg |-> pair.alg, id |-> pair.id]
    <2>1. cert.key.alg = pair.alg /\ cert.key.bytes.id = pair.id
      BY <1>4, PublicIs
    <2>2. QED
      BY <2>1 DEF KeyOf
  <1>7. KeyOf(cert) \in Signers
    BY <1>6 DEF Signers
  <1>8. KeyOf(cert).alg = cert.key.alg /\ Public(KeyOf(cert)) = cert.key
    <2>1. KeyOf(cert).alg = pair.alg /\ Public(KeyOf(cert)) = cert.key
      BY <1>4, KeyOfIs DEF pub
    <2>2. QED
      BY <1>1, <1>4, <2>1
  <1>9. QED
    BY <1>1, <1>2, <1>3, <1>4, <1>5, <1>7, <1>8 DEF AuthorityIs, cert

(* The engine reads what it wrote of a root.                               *)
LEMMA RootMade ==
    ASSUME NEW subject \in CASubjects, NEW alg, NEW now \in Times,
           RootCertificate(subject, alg, now) # Error
    PROVE  /\ ParseCertificate(RootCertificate(subject, alg, now)) # Error
           /\ AuthorityIs(ParseCertificate(RootCertificate(subject, alg, now)))
  <1> DEFINE t == CATemplate(rootProfile, subject, alg, now)
             pair == RootKey(alg)
             pub == Public(pair)
             der == RootCertificate(subject, alg, now)
  <1>1. der = CreateCertificate(t, NULL, pub, pair) /\ der # Error
    BY DEF RootCertificate
  <1>2. pub.alg = alg
    BY PublicIs DEF RootKey
  <1>3. Valid(pub.alg)
    <2> HIDE DEF pub, pair, t, der
    <2>1. der.tbs.spki = MarshalPKIXPublicKey(pub) /\ der.tbs.spki # Error
      BY <1>1, Created DEF CertificateSigned
    <2>2. QED
      BY <2>1, PublicKeyRead
  <1>4. alg \in DOMAIN Info
    BY <1>2, <1>3 DEF Valid
  <1>5. TemplateIs(t) /\ pair \in Signers
    <2>1. TemplateIs(t)
      BY <1>4, CATemplateIs
    <2>2. QED
      BY <1>4, <2>1, KeysAre
  <1> HIDE DEF t, pair, der
  <1>6. ParseCertificate(der) # Error /\ AuthorityIs(ParseCertificate(der))
    BY <1>1, <1>5, AuthorityMade
  <1>7. QED
    BY <1>6 DEF der

(* Every root is an authority.                                             *)
LEMMA RootIs ==
    ASSUME NEW r \in Roots
    PROVE  AuthorityIs(r)
  <1>1. PICK s \in CASubjects, alg \in CAAlgorithms, t \in Times :
          r = CertificateOf(RootCertificate(s, alg, t))
    BY DEF Roots
  <1>2. r # Error
    BY DEF Roots
  <1>3. RootCertificate(s, alg, t) # Error /\ r = ParseCertificate(RootCertificate(s, alg, t))
    BY <1>1, <1>2 DEF CertificateOf
  <1>4. QED
    BY <1>3, RootMade

(* The engine reads what it wrote of an intermediate.                      *)
LEMMA IntermediateMade ==
    ASSUME NEW parent, AuthorityIs(parent), NEW subject \in CASubjects, NEW alg, NEW now \in Times,
           IntermediateCertificate(parent, subject, alg, now) # Error
    PROVE  /\ ParseCertificate(IntermediateCertificate(parent, subject, alg, now)) # Error
           /\ AuthorityIs(ParseCertificate(IntermediateCertificate(parent, subject, alg, now)))
  <1> DEFINE t == CATemplate(intermediateProfile, subject, parent.key.alg, now)
             pair == IntermediateKey(alg)
             pub == Public(pair)
             signer == KeyOf(parent)
             der == IntermediateCertificate(parent, subject, alg, now)
  <1>1. der = CreateCertificate(t, parent, pub, signer) /\ der # Error
    BY DEF IntermediateCertificate
  <1>2. pub.alg = alg
    BY PublicIs DEF IntermediateKey
  <1>3. Valid(pub.alg)
    <2> HIDE DEF pub, pair, t, der, signer
    <2>1. der.tbs.spki = MarshalPKIXPublicKey(pub) /\ der.tbs.spki # Error
      BY <1>1, Created DEF CertificateSigned
    <2>2. QED
      BY <2>1, PublicKeyRead
  <1>4. alg \in DOMAIN Info
    BY <1>2, <1>3 DEF Valid
  <1>5. /\ Readable(parent.rawSubject) /\ signer \in Signers
        /\ parent.key.alg \in DOMAIN Info
    <2>1. Readable(parent.rawSubject) /\ signer \in Signers /\ parent.key \in PublicKeys
      BY DEF AuthorityIs
    <2>2. QED
      BY <2>1, KeyMarshalled
  <1>6. TemplateIs(t) /\ pair \in Signers
    <2>1. TemplateIs(t)
      BY <1>5, CATemplateIs
    <2>2. QED
      BY <1>4, <2>1, KeysAre
  <1> HIDE DEF t, pair, der, signer
  <1>7. ParseCertificate(der) # Error /\ AuthorityIs(ParseCertificate(der))
    BY <1>1, <1>5, <1>6, AuthorityMade
  <1>8. QED
    BY <1>7 DEF der

(* Every intermediate is an authority.                                     *)
LEMMA IntermediateIs ==
    ASSUME NEW r \in Roots, NEW i \in Intermediates(r)
    PROVE  AuthorityIs(i)
  <1>1. PICK s \in CASubjects, alg \in CAAlgorithms, t \in Times :
          i = CertificateOf(IntermediateCertificate(r, s, alg, t))
    BY DEF Intermediates
  <1>2. i # Error
    BY DEF Intermediates
  <1>3. /\ IntermediateCertificate(r, s, alg, t) # Error
        /\ i = ParseCertificate(IntermediateCertificate(r, s, alg, t))
    BY <1>1, <1>2 DEF CertificateOf
  <1>4. AuthorityIs(r)
    BY RootIs
  <1>5. QED
    BY <1>3, <1>4, IntermediateMade

-----------------------------------------------------------------------------
(* Lemmas about the requests that are sent *)

(* A body without a CSR.                                                   *)
WrittenBody(b) ==
    /\ b.subject \in Names
    /\ b.dns \in Seq(Strings) /\ b.email \in Seq(Strings)
    /\ b.ip \in Seq({"10.0.0.1", "::ffff:10.0.0.1", "2001:db8::1", "bad"})

(* What clients send.                                                      *)
RequestIs(b, byUs) ==
    /\ b.extKeyUsage \in Seq(Strings)
    /\ b.csr = NULL => WrittenBody(b)
    /\ b.csr # NULL => Askable(b.csr)
    /\ b.csr # NULL /\ byUs =>
         \E s \in Names, p \in Signers, n \in AltNames : OwnRequest(b.csr, s, p, n)

(* What CreateCertificateRequest makes for a client is such a request.     *)
LEMMA OwnRequestMade ==
    ASSUME NEW s \in Subjects, NEW p \in Pairs, NEW n \in AltNames,
           NEW csr, csr = CreateCertificateRequest(s, Public(p), p, n), csr # Error
    PROVE  /\ csr # NULL
           /\ Askable(csr)
           /\ \E ss \in Names, pp \in Signers, nn \in AltNames : OwnRequest(csr, ss, pp, nn)
  <1>1. s \in Names /\ p \in Signers
    BY InputAssumption DEF InputsAre, Signers
  <1>2. OwnRequest(csr, s, p, n)
    BY <1>1 DEF OwnRequest, CreateCertificateRequest
  <1>3. Askable(csr)
    BY <1>2, OwnRequestIs
  <1>4. csr \in DocumentsOf(SignedRequests)
    BY <1>2, OwnRequestIs
  <1>5. csr # NULL
    BY <1>4, TypeAssumption DEF NoValue
  <1>6. QED
    BY <1>1, <1>2, <1>3, <1>5

(* So is an empty body.                                                    *)
LEMMA EmptyBodyWritten == WrittenBody(EmptyBody) /\ EmptyBody.extKeyUsage \in Seq(Strings)
  <1>1. EmptyName \in Names
    <2>1. EmptyName \in [ToSet(Types) -> Seq(Seq(Characters))]
      BY DEF EmptyName
    <2>2. EmptyName["CN"] = <<>>
      BY TypesAre DEF EmptyName
    <2>3. ToSet(<<>>) = {} /\ Len(<<>>) = 0
      BY DEF ToSet
    <2>4. QED
      BY <2>1, <2>2, <2>3 DEF Names, IsName
  <1>3. /\ EmptyBody.subject = EmptyName /\ EmptyBody.dns = <<>> /\ EmptyBody.email = <<>>
        /\ EmptyBody.ip = <<>> /\ EmptyBody.extKeyUsage = <<>>
    BY DEF EmptyBody
  <1>4. QED
    BY <1>1, <1>3 DEF WrittenBody

(* Every request that is sent is one of these.                             *)
LEMMA RequestsSent ==
    ASSUME Ask
    PROVE  \/ GiveUp(EmptyName, EmptySANs)
           \/ \E request, byUs : Send(request, byUs) /\ RequestIs(request, byUs)
  <1> DEFINE Sent == \E request, byUs : Send(request, byUs) /\ RequestIs(request, byUs)
             Unsent == GiveUp(EmptyName, EmptySANs)
  <1>1. ASSUME NEW s \in Subjects, NEW n \in SANs, NEW p \in Pairs, NEW u \in ExtKeyUsages,
               SendCSR(s, n, p, u)
        PROVE  Unsent \/ Sent
    <2> DEFINE csr == CreateCertificateRequest(s, Public(p), p, n)
               request == [EmptyBody EXCEPT !.csr = csr, !.extKeyUsage = u]
    <2>1. IF csr = Error THEN GiveUp(s, n) ELSE Send(request, TRUE)
      BY <1>1 DEF SendCSR
    <2>2. s \in Names /\ p \in Signers /\ n \in AltNames /\ u \in Seq(Strings)
      BY InputAssumption DEF InputsAre, Signers
    <2>3. csr = Error => s = EmptyName /\ n = EmptySANs
      BY <2>2, CSRRefused
    <2>4. csr # Error =>
            /\ csr # NULL
            /\ Askable(csr)
            /\ \E ss \in Names, pp \in Signers, nn \in AltNames : OwnRequest(csr, ss, pp, nn)
      BY <2>2, OwnRequestMade
    <2> HIDE DEF csr
    <2>5. request.csr = csr /\ request.extKeyUsage = u
      BY DEF EmptyBody
    <2> HIDE DEF request
    <2>6. csr # Error => RequestIs(request, TRUE)
      BY <2>2, <2>4, <2>5 DEF RequestIs
    <2>7. QED
      BY <2>1, <2>3, <2>6
  <1>2. ASSUME NEW csr \in ForeignCSRs, SendForeignCSR(csr)
        PROVE  Sent
    <2> DEFINE request == [EmptyBody EXCEPT !.csr = csr]
    <2>1. Send(request, FALSE)
      BY <1>2 DEF SendForeignCSR
    <2>2. /\ request.csr = csr /\ request.extKeyUsage = EmptyBody.extKeyUsage
          /\ request.subject = EmptyBody.subject /\ request.dns = EmptyBody.dns
          /\ request.email = EmptyBody.email /\ request.ip = EmptyBody.ip
      BY DEF EmptyBody
    <2> HIDE DEF request
    <2>3. WrittenBody(request) /\ request.extKeyUsage \in Seq(Strings)
      BY <2>2, EmptyBodyWritten DEF WrittenBody
    <2>4. RequestIs(request, FALSE)
      BY <2>2, <2>3, ForeignAskable DEF RequestIs
    <2>5. QED
      BY <2>1, <2>4
  <1>3. ASSUME NEW p \in Pairs, SendCSRAndMore(p)
        PROVE  Sent
    <2>1. PICK csr \in {CreateCertificateRequest(s, Public(p), p, EmptySANs) : s \in Subjects} :
            /\ csr # Error
            /\ \E request \in
                 {[EmptyBody EXCEPT !.csr = csr, !.subject = [EmptyName EXCEPT !["O"] = <<<<"b">>>>]],
                  [EmptyBody EXCEPT !.csr = csr, !.dns = <<"host">>],
                  [EmptyBody EXCEPT !.csr = csr, !.email = <<"mail">>],
                  [EmptyBody EXCEPT !.csr = csr, !.ip = <<"10.0.0.1">>],
                  [EmptyBody EXCEPT !.csr = csr, !.alg = "ML-DSA-44"],
                  [EmptyBody EXCEPT !.csr = csr, !.storeKey = TRUE]} : Send(request, TRUE)
      BY <1>3 DEF SendCSRAndMore
    <2>2. PICK request \in
                 {[EmptyBody EXCEPT !.csr = csr, !.subject = [EmptyName EXCEPT !["O"] = <<<<"b">>>>]],
                  [EmptyBody EXCEPT !.csr = csr, !.dns = <<"host">>],
                  [EmptyBody EXCEPT !.csr = csr, !.email = <<"mail">>],
                  [EmptyBody EXCEPT !.csr = csr, !.ip = <<"10.0.0.1">>],
                  [EmptyBody EXCEPT !.csr = csr, !.alg = "ML-DSA-44"],
                  [EmptyBody EXCEPT !.csr = csr, !.storeKey = TRUE]} : Send(request, TRUE)
      BY <2>1
    <2>3. PICK s \in Subjects : csr = CreateCertificateRequest(s, Public(p), p, EmptySANs)
      BY <2>1
    <2>4. /\ csr # NULL
          /\ Askable(csr)
          /\ \E ss \in Names, pp \in Signers, nn \in AltNames : OwnRequest(csr, ss, pp, nn)
      BY <2>1, <2>3, NoNamesType, OwnRequestMade
    <2>5. request.csr = csr /\ request.extKeyUsage = EmptyBody.extKeyUsage
      BY <2>2 DEF EmptyBody
    <2>6. RequestIs(request, TRUE)
      BY <2>4, <2>5, EmptyBodyWritten DEF RequestIs
    <2>7. QED
      BY <2>2, <2>6
  <1>4. ASSUME NEW s \in Subjects, NEW n \in SANs, NEW ip \in Addresses, NEW a,
               NEW u \in ExtKeyUsages, NEW k, SendBody(s, n, ip, a, u, k)
        PROVE  Sent
    <2> DEFINE request == [EmptyBody EXCEPT !.subject = s, !.dns = n.dns, !.email = n.email,
                                            !.ip = ip, !.alg = a, !.extKeyUsage = u,
                                            !.storeKey = k]
    <2>1. Send(request, TRUE)
      BY <1>4 DEF SendBody
    <2>2. /\ request.csr = NULL /\ request.subject = s /\ request.dns = n.dns
          /\ request.email = n.email /\ request.ip = ip /\ request.extKeyUsage = u
      BY DEF EmptyBody
    <2> HIDE DEF request
    <2>3. s \in Names /\ n \in AltNames /\ u \in Seq(Strings)
      BY InputAssumption DEF InputsAre
    <2>4. ip \in Seq({"10.0.0.1", "::ffff:10.0.0.1", "2001:db8::1", "bad"})
      BY InputAssumption, Zenon DEF InputsAre
    <2>5. n.dns \in Seq(Strings) /\ n.email \in Seq(Strings)
      BY <2>3 DEF AltNames
    <2>6. RequestIs(request, TRUE)
      BY <2>1, <2>2, <2>3, <2>4, <2>5, Zenon DEF RequestIs, WrittenBody
    <2>7. QED
      BY <2>1, <2>6
  <1> HIDE DEF Sent, Unsent
  <1>5. Unsent \/ Sent
    BY <1>1, <1>2, <1>3, <1>4 DEF Ask
  <1>6. QED
    BY <1>5 DEF Sent, Unsent

-----------------------------------------------------------------------------
(* Lemmas about the certificate of an end entity *)

(* The template of IssueCertificate.                                       *)
EndEntity(subject, sans, ekus, now) ==
    [serial |-> 2, alg |-> intermediate.key.alg, subject |-> subject,
     notBefore |-> Truncate(now) - Skew, notAfter |-> Truncate(now) + EndEntityLife,
     bc |-> NoConstraints, keyUsage |-> {0},
     extKeyUsage |-> IF ekus = <<>> THEN <<"serverAuth">> ELSE ekus, sans |-> sans]

(* That template can be written.                                           *)
LEMMA EndEntityIs ==
    ASSUME AuthorityIs(intermediate), NEW subject \in Names, NEW sans \in AltNames,
           NEW ekus \in Seq(Strings), NEW now \in Times,
           NEW t, t = EndEntity(subject, sans, ekus, now)
    PROVE  /\ TemplateIs(t)
           /\ t.alg = intermediate.key.alg /\ t.subject = subject /\ t.sans = sans
           /\ t.notBefore < t.notAfter
           /\ t.notAfter = Truncate(now) + EndEntityLife
           /\ t.extKeyUsage = IF ekus = <<>> THEN <<"serverAuth">> ELSE ekus
           /\ ToSet(ekus) \subseteq KnownUsages => ToSet(t.extKeyUsage) \subseteq KnownUsages
  <1> DEFINE usages == IF ekus = <<>> THEN <<"serverAuth">> ELSE ekus
  <1>1. /\ t.serial = 2 /\ t.alg = intermediate.key.alg /\ t.subject = subject
        /\ t.notBefore = Truncate(now) - Skew /\ t.notAfter = Truncate(now) + EndEntityLife
        /\ t.bc = NoConstraints /\ t.keyUsage = {0} /\ t.extKeyUsage = usages /\ t.sans = sans
    BY DEF EndEntity
  <1>2. /\ usages \in Seq(Strings)
        /\ ToSet(ekus) \subseteq KnownUsages => ToSet(usages) \subseteq KnownUsages
    <2> DEFINE one == <<"serverAuth">>
    <2>1. "serverAuth" \in KnownUsages
      BY DEF KnownUsages
    <2>2. KnownUsages \subseteq Strings
      BY DEF Strings
    <2>3. one \in Seq(KnownUsages)
      BY <2>1
    <2> HIDE DEF one
    <2>4. one \in Seq(Strings)
      BY <2>2, <2>3
    <2>5. ToSet(one) \subseteq KnownUsages
      BY <2>3 DEF ToSet
    <2>6. usages = IF ekus = <<>> THEN one ELSE ekus
      BY DEF one
    <2> HIDE DEF usages
    <2>7. QED
      BY <2>4, <2>5, <2>6
  <1> HIDE DEF usages
  <1>3. /\ intermediate.key \in PublicKeys /\ intermediate.key.alg \in DOMAIN Info
    BY KeyMarshalled DEF AuthorityIs
  <1>4. EndEntityLife \in Nat /\ EndEntityLife > 0 /\ Skew \in Nat
    BY TimeAssumption DEF TimesAre
  <1>5. /\ Truncate(now) \in Nat
        /\ Truncate(now) - Skew \in Int /\ (Truncate(now) - Skew) % 2 = 0
        /\ Truncate(now) + EndEntityLife \in Int /\ (Truncate(now) + EndEntityLife) % 2 = 0
    BY Truncated
  <1>6. t.notBefore < t.notAfter
    <2> DEFINE u == Truncate(now)
    <2>1. u \in Nat /\ t.notBefore = u - Skew /\ t.notAfter = u + EndEntityLife
      BY <1>1, <1>5
    <2> HIDE DEF u
    <2>2. QED
      BY <1>4, <2>1
  <1>7. ExtensionsWanted(t)
    <2>1. IsConstraints(t.bc)
      BY <1>1 DEF IsConstraints
    <2>2. {0} \in SUBSET KeyUsageBits /\ {0} # {}
      BY DEF KeyUsageBits
    <2>3. QED
      BY <1>1, <1>2, <2>1, <2>2 DEF ExtensionsWanted
  <1>8. TemplateIs(t)
    BY <1>1, <1>3, <1>5, <1>7 DEF TemplateIs
  <1>9. QED
    BY <1>1, <1>2, <1>6, <1>8 DEF usages

(* Why the engine refuses what the handler let through.                    *)
RefusedBecause(subject, sans, alg, ekus, now) ==
    \/ alg \notin endEntityAlgorithms
    \/ subject["CN"] = <<>> /\ sans = EmptySANs
    \/ Truncate(now) + EndEntityLife > intermediate.notAfter
    \/ ~(ToSet(ekus) \subseteq KnownUsages)

(* A document that is the certificate for a template and a key.            *)
WrittenFor(der, t, pub) ==
    /\ der = CreateCertificate(t, intermediate, pub, KeyOf(intermediate))
    /\ der # Error
    /\ TemplateIs(t)
    /\ pub \in PublicKeys

(* What the engine does with a request.                                    *)
Outcome(subject, sans, alg, pub, ekus, now) ==
    \/ /\ pc' = "refused" /\ made' = [now |-> now] /\ damaged' = damaged
       /\ RefusedBecause(subject, sans, alg, ekus, now)
    \/ /\ pc' = "read certificate" /\ ~damaged'
       /\ made'.template = EndEntity(subject, sans, ekus, now)
       /\ made'.key = pub
       /\ WrittenFor(doc', EndEntity(subject, sans, ekus, now), pub)

(* IssueCertificate has one of these outcomes; it never fails to read what *)
(* it wrote.                                                               *)
LEMMA IssueResult ==
    ASSUME AuthorityIs(intermediate), NEW subject \in Names, NEW sans \in AltNames, NEW alg,
           NEW pub \in PublicKeys, NEW priv, NEW ekus \in Seq(Strings), NEW now \in Times,
           IssueCertificate(subject, sans, alg, pub, priv, ekus, now)
    PROVE  Outcome(subject, sans, alg, pub, ekus, now)
  <1> DEFINE t == EndEntity(subject, sans, ekus, now)
             der == CreateCertificate(t, intermediate, pub, KeyOf(intermediate))
             late == Truncate(now) + EndEntityLife > intermediate.notAfter
  <1>1. /\ TemplateIs(t)
        /\ t.alg = intermediate.key.alg /\ t.subject = subject /\ t.sans = sans
        /\ t.notBefore < t.notAfter
        /\ t.notAfter = Truncate(now) + EndEntityLife
        /\ ToSet(ekus) \subseteq KnownUsages => ToSet(t.extKeyUsage) \subseteq KnownUsages
    <2> HIDE DEF t
    <2>1. t = EndEntity(subject, sans, ekus, now)
      BY DEF t
    <2>2. QED
      BY <2>1, EndEntityIs
  <1>2. /\ Readable(intermediate.rawSubject) /\ intermediate.notAfter \in Int
        /\ KeyOf(intermediate) \in Signers /\ KeyOf(intermediate).alg = intermediate.key.alg
        /\ intermediate.notAfter < Century \/ intermediate.notAfter <= Forever
    BY DEF AuthorityIs
  <1>3. IF alg \notin endEntityAlgorithms \/ (subject["CN"] = <<>> /\ sans = EmptySANs)
           \/ late \/ der = Error
          THEN Refuse(now)
          ELSE /\ doc' = der
               /\ made' = [template |-> t, key |-> pub, fromDamaged |-> damaged]
               /\ damaged' = FALSE
               /\ pc' = IF ParseCertificate(der) = Error THEN "failed" ELSE "read certificate"
    BY DEF IssueCertificate, EndEntity
  <1> HIDE DEF t
  <1>4. der # Error => ParseCertificate(der) # Error
    <2>1. der = CreateCertificate(t, intermediate, pub, KeyOf(intermediate))
      OBVIOUS
    <2> HIDE DEF der
    <2>2. QED
      BY <1>1, <1>2, <2>1, CertificateReadBack
  <1>5. der = Error => RefusedBecause(subject, sans, alg, ekus, now)
    <2>1. SUFFICES ASSUME ~RefusedBecause(subject, sans, alg, ekus, now)
                   PROVE  der # Error
      OBVIOUS
    <2>2. /\ ~(subject["CN"] = <<>> /\ sans = EmptySANs) /\ ~late
          /\ ToSet(ekus) \subseteq KnownUsages
      BY <2>1 DEF RefusedBecause
    <2>3. t.notAfter < Century \/ t.notAfter <= Forever
      <3> DEFINE a == t.notAfter
                 b == intermediate.notAfter
      <3>1. a \in Int /\ b \in Int /\ a <= b /\ (b < Century \/ b <= Forever)
        BY <1>1, <1>2, <2>2 DEF TemplateIs
      <3>2. Century \in Int /\ Forever \in Int
        BY TimeAssumption DEF TimesAre
      <3> HIDE DEF a, b
      <3>3. a < Century \/ a <= Forever
        BY <3>1, <3>2
      <3>4. QED
        BY <3>3 DEF a
    <2>4. ToRDNSequence(t.subject) # <<>> \/ t.sans # EmptySANs
      BY <1>1, <2>2, NothingWritten
    <2>5. ToSet(t.extKeyUsage) \subseteq KnownUsages
      BY <1>1, <2>2
    <2>6. QED
      BY <1>1, <1>2, <2>3, <2>4, <2>5, CertificateMade
  <1> HIDE DEF der, late
  <1>6. CASE alg \notin endEntityAlgorithms \/ (subject["CN"] = <<>> /\ sans = EmptySANs)
             \/ late \/ der = Error
    <2>1. RefusedBecause(subject, sans, alg, ekus, now)
      BY <1>5, <1>6 DEF RefusedBecause, late
    <2>2. Refuse(now)
      BY <1>3, <1>6
    <2>3. QED
      BY <2>1, <2>2 DEF Refuse, Outcome
  <1>7. CASE ~(alg \notin endEntityAlgorithms \/ (subject["CN"] = <<>> /\ sans = EmptySANs)
               \/ late \/ der = Error)
    <2>1. /\ doc' = der /\ der # Error
          /\ made' = [template |-> t, key |-> pub, fromDamaged |-> damaged]
          /\ damaged' = FALSE
          /\ pc' = "read certificate"
      BY <1>3, <1>4, <1>7
    <2>2. made'.template = t /\ made'.key = pub
      BY <2>1
    <2>3. WrittenFor(doc', t, pub)
      BY <1>1, <2>1 DEF WrittenFor, der
    <2>4. QED
      BY <2>1, <2>2, <2>3 DEF t, Outcome
  <1>8. QED
    BY <1>6, <1>7

-----------------------------------------------------------------------------
(* The second invariant *)

(* A template that grants what was requested.                              *)
AsRequested(t, b) ==
    /\ t.extKeyUsage = IF b.extKeyUsage = <<>> THEN <<"serverAuth">> ELSE b.extKeyUsage
    /\ b.csr = NULL =>
         /\ t.subject = b.subject
         /\ t.sans.dns = b.dns /\ t.sans.email = b.email
         /\ Len(t.sans.ip) = Len(b.ip)
    /\ b.csr # NULL =>
         /\ NamesAsked(t.sans, RequestedSANs(b.csr, 2), RequestedSANs(b.csr, 1),
                       RequestedSANs(b.csr, 7))
         /\ \A type \in ToSet(Types) \ {"CN"} : t.subject[type] = RequestedValues(b.csr, type)
         /\ t.subject["CN"] = CommonName(RequestedValues(b.csr, "CN"))

(* The list that Publish made.                                             *)
ListWrittenFor(der, m) ==
    /\ der = CreateRevocationList(intermediate, KeyOf(intermediate), m.number, m.entries,
                                  Truncate(m.now), Truncate(m.now) + CRLLife)
    /\ der # Error
    /\ ListIs(intermediate, KeyOf(intermediate), m.number, m.entries,
              Truncate(m.now), Truncate(m.now) + CRLLife)

CertificateSays(cert, m) ==
    /\ cert # NULL
    /\ \A field \in {"serial", "alg", "subject", "notBefore", "notAfter", "bc", "keyUsage",
                     "extKeyUsage"} : cert[field] = m.template[field]
    /\ cert.key = m.key
    /\ cert.sans = [m.template.sans EXCEPT !.ip = [i \in DOMAIN @ |-> To4(@[i])]]

ListSays(list, m) ==
    /\ list # NULL
    /\ list.entries = m.entries
    /\ list.number = m.number
    /\ list.thisUpdate = Truncate(m.now)
    /\ list.nextUpdate = Truncate(m.now) + CRLLife
    /\ \A i \in DOMAIN m.entries : IsRevoked(list, m.entries[i].serial) # NULL

(* The second invariant: every document holds what its author meant, and   *)
(* every request is one that can be sent.                                  *)
SentInv ==
    /\ pc \in {"handle", "refused", "read certificate"} => RequestIs(body, own)
    /\ pc = "failed" => doc \in {NULL, Error}

WrittenInv ==
    /\ pc = "read certificate" /\ ~damaged =>
         WrittenFor(doc, made.template, made.key) /\ AsRequested(made.template, body)
    /\ pc = "certificate" /\ ~damaged => CertificateSays(got, made)
    /\ pc = "read list" /\ ~damaged => ListWrittenFor(doc, made)
    /\ pc = "list" /\ ~damaged => ListSays(got, made)

ContentInv == SentInv /\ WrittenInv /\ OwnRequestsAreIssued

(* The certificates of the CAs are those of authorities.                   *)
LEMMA CAsAre ==
    ASSUME IInv
    PROVE  /\ pc = "intermediate" => AuthorityIs(root)
           /\ pc \in Later => AuthorityIs(root) /\ AuthorityIs(intermediate)
  BY RootIs, IntermediateIs DEF IInv, CAsInv

(* What is read of a certificate.                                          *)
LEMMA CertificateRelied ==
    ASSUME AuthorityIs(intermediate), NEW t, NEW pub, NEW der, WrittenFor(der, t, pub),
           NEW cert, cert = ParseCertificate(der)
    PROVE  /\ cert # Error /\ cert # NULL
           /\ VerifyCertificateFrom(cert, intermediate)
           /\ ReadFrom(cert, t, pub, KeyOf(intermediate))
  <1> DEFINE signer == KeyOf(intermediate)
  <1>1. /\ Readable(intermediate.rawSubject) /\ signer \in Signers
        /\ intermediate.key \in PublicKeys /\ signer.alg = intermediate.key.alg
        /\ Public(signer) = intermediate.key
    BY DEF AuthorityIs
  <1>2. /\ der = CreateCertificate(t, intermediate, pub, signer) /\ der # Error
        /\ TemplateIs(t) /\ pub \in PublicKeys
    BY DEF WrittenFor
  <1> HIDE DEF signer
  <1>3. cert # Error /\ ReadFrom(cert, t, pub, signer)
    BY <1>1, <1>2, CertificateReadBack
  <1>4. t.alg = signer.alg
    BY <1>1, <1>2, CertificateWritten
  <1>5. cert # NULL
    BY <1>3, TypeAssumption DEF ReadFrom, NoValue
  <1>6. /\ cert.alg = signer.alg /\ cert.sig = Sign(signer, cert.rawTBS)
    BY <1>3, <1>4 DEF ReadFrom
  <1>7. intermediate.key.bytes.size = Info[intermediate.key.alg].pk
    BY <1>1 DEF PublicKeys
  <1>8. VerifyCertificateFrom(cert, intermediate)
    BY <1>1, <1>6, <1>7 DEF VerifyCertificateFrom, Verify, Sign
  <1>9. QED
    BY <1>3, <1>5, <1>8 DEF signer

(* A certificate that is read says what was put into it.                   *)
LEMMA CertificateSaysIt ==
    ASSUME NEW m, NEW signer, NEW cert, ReadFrom(cert, m.template, m.key, signer),
           TemplateIs(m.template)
    PROVE  CertificateSays(cert, m)
  <1> DEFINE t == m.template
             n == t.sans
  <1>1. /\ cert \in Certificates
        /\ cert.serial = t.serial /\ cert.alg = t.alg /\ cert.subject = t.subject
        /\ cert.notBefore = t.notBefore /\ cert.notAfter = t.notAfter
        /\ cert.bc = t.bc /\ cert.keyUsage = t.keyUsage /\ cert.extKeyUsage = t.extKeyUsage
        /\ cert.key = m.key
        /\ cert.sans = [dns |-> n.dns, email |-> n.email, ip |-> Stored(n.ip)]
    BY DEF ReadFrom
  <1>2. n \in AltNames
    BY DEF TemplateIs, ExtensionsWanted
  <1>3. cert.sans = [n EXCEPT !.ip = [i \in DOMAIN @ |-> To4(@[i])]]
    <2> DEFINE s == Stored(n.ip)
    <2>1. s = [i \in DOMAIN n.ip |-> To4(n.ip[i])]
      BY DEF Stored
    <2>2. n = [dns |-> n.dns, email |-> n.email, ip |-> n.ip]
      BY <1>2 DEF AltNames
    <2>3. [n EXCEPT !.ip = [i \in DOMAIN @ |-> To4(@[i])]] = [n EXCEPT !.ip = s]
      BY <2>1
    <2>4. [n EXCEPT !.ip = s] = [dns |-> n.dns, email |-> n.email, ip |-> s]
      <3> HIDE DEF s, n
      <3>1. QED
        BY <2>2
    <2>5. QED
      BY <1>1, <2>3, <2>4
  <1>4. cert # NULL
    BY <1>1, TypeAssumption DEF NoValue
  <1> HIDE DEF t, n
  <1>5. \A field \in {"serial", "alg", "subject", "notBefore", "notAfter", "bc", "keyUsage",
                      "extKeyUsage"} : cert[field] = t[field]
    BY <1>1
  <1>6. QED
    BY <1>1, <1>3, <1>4, <1>5 DEF CertificateSays, t, n

(* What a relying party reads of a list.                                   *)
LEMMA ListRelied ==
    ASSUME AuthorityIs(intermediate), NEW m, NEW der, ListWrittenFor(der, m),
           NEW list, list = ParseRevocationList(der)
    PROVE  /\ list # Error
           /\ VerifyListFrom(list, intermediate)
           /\ ListSays(list, m)
  <1> DEFINE signer == KeyOf(intermediate)
             this == Truncate(m.now)
             next == Truncate(m.now) + CRLLife
  <1>1. /\ signer \in Signers /\ intermediate.key \in PublicKeys
        /\ signer.alg = intermediate.key.alg /\ Public(signer) = intermediate.key
    BY DEF AuthorityIs
  <1>2. /\ der = CreateRevocationList(intermediate, signer, m.number, m.entries, this, next)
        /\ der # Error
        /\ ListIs(intermediate, signer, m.number, m.entries, this, next)
    BY DEF ListWrittenFor
  <1> HIDE DEF signer, this, next
  <1>3. list # Error /\ ListReadFrom(list, intermediate, signer, m.number, m.entries, this, next)
    BY <1>2, ListReadBack
  <1>4. /\ list \in Lists /\ list.rawIssuer = intermediate.rawSubject
        /\ list.alg = signer.alg /\ list.sig = Sign(signer, list.rawTBS)
        /\ list.number = m.number /\ list.entries = m.entries
        /\ list.thisUpdate = this /\ list.nextUpdate = next
    BY <1>3 DEF ListReadFrom
  <1>5. list # NULL
    BY <1>4, TypeAssumption DEF NoValue
  <1>6. intermediate.key.bytes.size = Info[intermediate.key.alg].pk
    BY <1>1 DEF PublicKeys
  <1>7. VerifyListFrom(list, intermediate)
    BY <1>1, <1>4, <1>6 DEF VerifyListFrom, Verify, Sign
  <1>8. \A i \in DOMAIN m.entries : IsRevoked(list, m.entries[i].serial) # NULL
    <2>1. list.entries \in Seq(EntriesOfLists)
      BY <1>2, <1>4 DEF ListIs
    <2>2. QED
      BY <1>4, <2>1, RevokedFound
  <1>9. QED
    BY <1>3, <1>4, <1>5, <1>7, <1>8 DEF ListSays, this, next

-----------------------------------------------------------------------------
(* The steps and the second invariant *)

(* CreateRoot keeps the second invariant.                                  *)
LEMMA CreateRootContent ==
    ASSUME IInv, ContentInv,
           NEW s \in CASubjects, NEW a \in CAAlgorithms, NEW t \in Times,
           CreateRoot(s, a, t)
    PROVE  ContentInv'
  <1> DEFINE der == RootCertificate(s, a, t)
             refused == s["CN"] = <<>> \/ a \notin rootProfile.algorithms
             cert == IF refused THEN Error ELSE CertificateOf(der)
  <1>1. IF cert = Error
          THEN pc' = "failed" /\ doc' = IF refused THEN NULL ELSE der
          ELSE pc' = "intermediate"
    BY DEF CreateRoot
  <1>2. der # Error => ParseCertificate(der) # Error
    BY RootMade
  <1>3. pc' = "failed" => doc' \in {NULL, Error}
    <2> HIDE DEF der, refused
    <2>1. QED
      BY <1>1, <1>2 DEF CertificateOf
  <1>4. pc' \in {"failed", "intermediate"}
    BY <1>1
  <1>5. QED
    BY <1>3, <1>4 DEF ContentInv, SentInv, WrittenInv, OwnRequestsAreIssued

(* CreateIntermediate keeps it.                                            *)
LEMMA CreateIntermediateContent ==
    ASSUME IInv, ContentInv,
           NEW s \in CASubjects, NEW a \in CAAlgorithms, NEW t \in Times,
           CreateIntermediate(s, a, t)
    PROVE  ContentInv'
  <1> DEFINE der == IntermediateCertificate(root, s, a, t)
             tmpl == CATemplate(intermediateProfile, s, root.key.alg, t)
             refused == \/ s["CN"] = <<>>
                        \/ a \notin intermediateProfile.algorithms
                        \/ tmpl.notAfter > root.notAfter
             cert == IF refused THEN Error ELSE CertificateOf(der)
  <1>1. /\ IF cert = Error
             THEN pc' = "failed" /\ doc' = IF refused THEN NULL ELSE der
             ELSE pc' = "ready"
        /\ pc = "intermediate"
    BY DEF CreateIntermediate
  <1>2. AuthorityIs(root)
    BY <1>1, CAsAre
  <1>3. der # Error => ParseCertificate(der) # Error
    BY <1>2, IntermediateMade
  <1>4. pc' = "failed" => doc' \in {NULL, Error}
    <2> HIDE DEF der, refused
    <2>1. QED
      BY <1>1, <1>3 DEF CertificateOf
  <1>5. pc' \in {"failed", "ready"}
    BY <1>1
  <1>6. QED
    BY <1>4, <1>5 DEF ContentInv, SentInv, WrittenInv, OwnRequestsAreIssued

(* A request keeps it.                                                     *)
LEMMA AskContent ==
    ASSUME IInv, ContentInv, Ask
    PROVE  ContentInv'
  <1>1. CASE GiveUp(EmptyName, EmptySANs)
    <2>1. pc' = "unsent" /\ made' = [subject |-> EmptyName, sans |-> EmptySANs]
      BY <1>1 DEF GiveUp
    <2>2. made'.subject = EmptyName /\ made'.sans = EmptySANs
      BY <2>1
    <2>3. QED
      BY <2>1, <2>2 DEF ContentInv, SentInv, WrittenInv, OwnRequestsAreIssued
  <1>2. ASSUME NEW request, NEW byUs, Send(request, byUs), RequestIs(request, byUs)
        PROVE  ContentInv'
    <2>1. body' = request /\ own' = byUs /\ pc' = "handle"
      BY <1>2 DEF Send
    <2>2. RequestIs(body', own')
      BY <1>2, <2>1
    <2>3. RequestIs(body, own)' <=> RequestIs(body', own')
      OBVIOUS
    <2>4. QED
      BY <2>1, <2>2, <2>3 DEF ContentInv, SentInv, WrittenInv, OwnRequestsAreIssued
  <1>3. QED
    BY <1>1, <1>2, RequestsSent

(* Publish keeps it.                                                       *)
LEMMA PublishContent ==
    ASSUME IInv, ContentInv, NEW e \in Entries, NEW now \in Times, Publish(e, now)
    PROVE  ContentInv'
  <1> DEFINE number == Len(e) + 1
             der == CreateRevocationList(intermediate, KeyOf(intermediate), number, e,
                                         Truncate(now), Truncate(now) + CRLLife)
             m == [entries |-> e, number |-> number, now |-> now]
  <1>1. /\ pc = "ready"
        /\ doc' = der /\ made' = m
        /\ pc' = IF der = Error THEN "failed" ELSE "read list"
        /\ UNCHANGED <<root, intermediate, body, own, keyPEM, damaged, got>>
    BY DEF Publish
  <1>2. AuthorityIs(intermediate)
    BY <1>1, CAsAre DEF Later
  <1>3. /\ e \in Seq(EntriesOfLists) /\ \A i \in DOMAIN e : e[i].time % 2 = 0
        /\ number \in Nat
    BY InputAssumption DEF InputsAre
  <1>4. /\ Truncate(now) \in Int /\ Truncate(now) % 2 = 0
        /\ Truncate(now) + CRLLife \in Int /\ (Truncate(now) + CRLLife) % 2 = 0
    BY Truncated
  <1>5. m.entries = e /\ m.number = number /\ m.now = now
    OBVIOUS
  <1> HIDE DEF m, number
  <1>6. ListIs(intermediate, KeyOf(intermediate), number, e, Truncate(now), Truncate(now) + CRLLife)
    BY <1>2, <1>3, <1>4 DEF ListIs, AuthorityIs
  <1>7. der # Error => ListWrittenFor(der, m)
    BY <1>5, <1>6 DEF ListWrittenFor
  <1> HIDE DEF der
  <1>8. pc' = "read list" => ListWrittenFor(doc, made)'
    <2>1. ASSUME ListWrittenFor(der, m)
          PROVE  ListWrittenFor(doc, made)'
      BY <1>1, <2>1 DEF ListWrittenFor
    <2>2. QED
      BY <1>1, <1>7, <2>1
  <1>9. pc' \in {"failed", "read list"} /\ (pc' = "failed" => doc' = Error)
    BY <1>1
  <1>10. QED
    BY <1>8, <1>9 DEF ContentInv, SentInv, WrittenInv, OwnRequestsAreIssued

(* ReadCertificate keeps it.                                               *)
LEMMA ReadCertificateContent ==
    ASSUME IInv, ContentInv, ReadCertificate
    PROVE  ContentInv'
  <1> DEFINE cert == ParseCertificate(doc)
  <1>1. /\ pc = "read certificate" /\ pc' = "certificate"
        /\ UNCHANGED <<root, intermediate, body, own, doc, made, keyPEM, damaged>>
        /\ cert # Error /\ VerifyCertificateFrom(cert, intermediate) => got' = cert
    BY DEF ReadCertificate
  <1>2. AuthorityIs(intermediate)
    BY <1>1, CAsAre DEF Later
  <1>3. ASSUME ~damaged
        PROVE  CertificateSays(got', made)
    <2>1. WrittenFor(doc, made.template, made.key) /\ TemplateIs(made.template)
      BY <1>1, <1>3 DEF ContentInv, WrittenInv, WrittenFor
    <2>2. /\ cert # Error /\ VerifyCertificateFrom(cert, intermediate)
          /\ ReadFrom(cert, made.template, made.key, KeyOf(intermediate))
      BY <1>2, <2>1, CertificateRelied
    <2> HIDE DEF cert
    <2>3. CertificateSays(cert, made)
      BY <2>1, <2>2, CertificateSaysIt
    <2>4. QED
      BY <1>1, <2>2, <2>3
  <1>4. CertificateSays(got, made)' <=> CertificateSays(got', made')
    OBVIOUS
  <1>5. ~damaged' => CertificateSays(got, made)'
    BY <1>1, <1>3, <1>4
  <1>6. QED
    BY <1>1, <1>5 DEF ContentInv, SentInv, WrittenInv, OwnRequestsAreIssued

(* ReadList keeps it.                                                      *)
LEMMA ReadListContent ==
    ASSUME IInv, ContentInv, ReadList
    PROVE  ContentInv'
  <1> DEFINE list == ParseRevocationList(doc)
  <1>1. /\ pc = "read list" /\ pc' = "list"
        /\ UNCHANGED <<root, intermediate, body, own, doc, made, keyPEM, damaged>>
        /\ list # Error /\ VerifyListFrom(list, intermediate) => got' = list
    BY DEF ReadList
  <1>2. AuthorityIs(intermediate)
    BY <1>1, CAsAre DEF Later
  <1>3. ASSUME ~damaged
        PROVE  ListSays(got', made)
    <2>1. ListWrittenFor(doc, made)
      BY <1>1, <1>3 DEF ContentInv, WrittenInv
    <2>2. list # Error /\ VerifyListFrom(list, intermediate) /\ ListSays(list, made)
      BY <1>2, <2>1, ListRelied
    <2>3. QED
      BY <1>1, <2>2
  <1>4. ListSays(got, made)' <=> ListSays(got', made')
    OBVIOUS
  <1>5. ~damaged' => ListSays(got, made)'
    BY <1>1, <1>3, <1>4
  <1>6. QED
    BY <1>1, <1>5 DEF ContentInv, SentInv, WrittenInv, OwnRequestsAreIssued

(* Damage keeps it: only what is not damaged is spoken of.                 *)
LEMMA DamageContent ==
    ASSUME IInv, ContentInv, Damage
    PROVE  ContentInv'
  <1>1. /\ pc \in {"handle", "read certificate", "read list"}
        /\ damaged' = TRUE
        /\ UNCHANGED <<pc, root, intermediate, body, own, made, keyPEM, got>>
    BY DEF Damage
  <1>2. RequestIs(body, own)' <=> RequestIs(body', own')
    OBVIOUS
  <1>3. SentInv'
    BY <1>1, <1>2 DEF ContentInv, SentInv
  <1>4. QED
    BY <1>1, <1>3 DEF ContentInv, WrittenInv, OwnRequestsAreIssued

-----------------------------------------------------------------------------
(* Lemmas about the handler *)

(* The algorithms of end entities are algorithms, the default among them.  *)
LEMMA AlgorithmsAre == endEntityAlgorithms \subseteq DOMAIN Info /\ "ML-DSA-44" \in endEntityAlgorithms
  <1> DEFINE named(n) == \E info \in algorithms : info.name = n
  <1>1. /\ named("ML-DSA-44") /\ named("ML-DSA-65")
        /\ named("SLH-DSA-SHA2-128s") /\ named("SLH-DSA-SHA2-128f")
        /\ named("SLH-DSA-SHAKE-128s") /\ named("SLH-DSA-SHAKE-128f")
    BY DEF algorithms
  <1>2. \A n : named(n) => n \in DOMAIN Info
    BY DEF Info
  <1> HIDE DEF named
  <1>3. QED
    BY <1>1, <1>2, Zenon DEF endEntityAlgorithms

(* The addresses of a body.                                                *)
LEMMA AddressesRead ==
    ASSUME NEW raws \in Seq({"10.0.0.1", "::ffff:10.0.0.1", "2001:db8::1", "bad"}),
           NEW ips, ips = [i \in DOMAIN raws |-> ParseIP(raws[i])]
    PROVE  /\ Fails(ips) => "bad" \in ToSet(raws)
           /\ ~Fails(ips) => /\ Stored(ips) \in Seq(Hosts({4, 16}))
                             /\ Len(Stored(ips)) = Len(raws)
                             /\ Stored(ips) = <<>> => raws = <<>>
  <1>1. \A raw \in {"10.0.0.1", "::ffff:10.0.0.1", "2001:db8::1"} : ParseIP(raw) \in Hosts({4, 16})
    <2>1. "10.0.0.1" \in Strings /\ "2001:db8::1" \in Strings
      BY DEF Strings
    <2> DEFINE a == [size |-> 16, mapped |-> TRUE, host |-> "10.0.0.1"]
               b == [size |-> 16, mapped |-> FALSE, host |-> "2001:db8::1"]
    <2>2. a \in Hosts({4, 16}) /\ b \in Hosts({4, 16})
      BY <2>1 DEF Hosts
    <2>3. ParseIP("10.0.0.1") = a /\ ParseIP("::ffff:10.0.0.1") = a /\ ParseIP("2001:db8::1") = b
      BY DEF ParseIP
    <2> HIDE DEF a, b
    <2>4. QED
      BY <2>2, <2>3
  <1> DEFINE Raw == {"10.0.0.1", "::ffff:10.0.0.1", "2001:db8::1", "bad"}
  <1>2. raws \in Seq(Raw)
    OBVIOUS
  <1>3. \A raw \in Raw : raw = "bad" \/ ParseIP(raw) \in Hosts({4, 16})
    BY <1>1
  <1> HIDE DEF Raw
  <1>4. DOMAIN raws = 1 .. Len(raws) /\ Len(raws) \in Nat /\ \A i \in DOMAIN raws : raws[i] \in Raw
    BY <1>2
  <1>5. Error \notin Hosts({4, 16})
    BY TypeAssumption DEF NoValue
  <1>6. ASSUME Fails(ips)
        PROVE  "bad" \in ToSet(raws)
    <2>1. PICK i \in DOMAIN raws : ParseIP(raws[i]) = Error
      BY <1>6 DEF Fails
    <2>2. raws[i] = "bad"
      BY <1>3, <1>4, <1>5, <2>1
    <2>3. QED
      BY <2>1, <2>2 DEF ToSet
  <1>7. ASSUME ~Fails(ips), Stored(ips) = <<>>, ips \in Seq(Hosts({4, 16}))
        PROVE  raws = <<>>
    <2>1. ips = <<>>
      BY <1>7, StoredAre
    <2>2. Len(raws) = 0
      BY <1>4, <2>1
    <2>3. QED
      BY <1>2, <2>2
  <1>8. ASSUME ~Fails(ips)
        PROVE  ips \in Seq(Hosts({4, 16})) /\ Len(ips) = Len(raws)
    <2>1. \A i \in DOMAIN raws : ips[i] # Error /\ ips[i] = ParseIP(raws[i])
      BY <1>8 DEF Fails
    <2>2. ParseIP("bad") = Error
      BY DEF ParseIP
    <2>3. \A i \in 1 .. Len(raws) : ips[i] \in Hosts({4, 16})
      BY <1>3, <1>4, <2>1, <2>2
    <2>4. ips = [i \in 1 .. Len(raws) |-> ips[i]]
      BY <1>4
    <2>5. QED
      BY <1>4, <2>3, <2>4
  <1>9. ASSUME ~Fails(ips)
        PROVE  /\ Stored(ips) \in Seq(Hosts({4, 16}))
               /\ Len(Stored(ips)) = Len(raws)
               /\ Stored(ips) = <<>> => raws = <<>>
    BY <1>7, <1>8, <1>9, StoredAre
  <1>10. QED
    BY <1>6, <1>9

(* The handler takes a request of this library.                            *)
LEMMA OwnRequestTaken ==
    ASSUME NEW csr, NEW s, NEW p, NEW n, OwnRequest(csr, s, p, n)
    PROVE  /\ parseCSRPEM(csr) # Error
           /\ OwnRequestRead(parseCSRPEM(csr), csr, s, p, n)
  <1> DEFINE r == ParseCertificateRequest(csr)
  <1>1. /\ OwnRequestRead(r, csr, s, p, n)
        /\ csr.sig.over = csr.tbs /\ csr.sig.by = Public(p)
        /\ csr.sig.size = Info[p.alg].sig
    BY OwnRequestIs
  <1> HIDE DEF r
  <1>2. r # Error /\ r.key = Public(p) /\ r.sig = csr.sig /\ r.rawTBS = csr.tbs
    BY <1>1 DEF OwnRequestRead
  <1>3. Public(p).alg = p.alg /\ Public(p).bytes.size = Info[Public(p).alg].pk
    BY DEF Public
  <1>4. CheckSignature(r)
    BY <1>1, <1>2, <1>3 DEF CheckSignature, Verify
  <1>5. parseCSRPEM(csr) = r
    BY <1>2, <1>4 DEF parseCSRPEM, r
  <1>6. QED
    BY <1>1, <1>2, <1>5

(* What parseCSRPEM returns says what the request asks for.                *)
LEMMA RequestTaken ==
    ASSUME NEW csr, Askable(csr), NEW r, r = parseCSRPEM(csr), r # Error
    PROVE  RequestSays(r, csr)
  <1>1. r = ParseCertificateRequest(csr)
    BY DEF parseCSRPEM
  <1>2. QED
    BY <1>1, RequestParsed

(* Nothing has no positions.                                               *)
LEMMA EmptyDomain == DOMAIN <<>> = {}
  OBVIOUS

(* What the template grants.                                               *)
LEMMA GrantedByCSR ==
    ASSUME NEW b, b.csr # NULL, NEW r, RequestSays(r, b.csr), NEW now
    PROVE  AsRequested(EndEntity(r.subject, r.sans, b.extKeyUsage, now), b)
  <1> DEFINE t == EndEntity(r.subject, r.sans, b.extKeyUsage, now)
  <1>1. /\ t.subject = r.subject /\ t.sans = r.sans
        /\ t.extKeyUsage = IF b.extKeyUsage = <<>> THEN <<"serverAuth">> ELSE b.extKeyUsage
    BY DEF EndEntity
  <1> HIDE DEF t
  <1>2. AsRequested(t, b)
    BY <1>1 DEF AsRequested, RequestSays
  <1>3. QED
    BY <1>2 DEF t

(* The same of a body.                                                     *)
LEMMA GrantedByBody ==
    ASSUME NEW b, b.csr = NULL, NEW sans, sans.dns = b.dns, sans.email = b.email,
           Len(sans.ip) = Len(b.ip), NEW now
    PROVE  AsRequested(EndEntity(b.subject, sans, b.extKeyUsage, now), b)
  <1> DEFINE t == EndEntity(b.subject, sans, b.extKeyUsage, now)
  <1>1. /\ t.subject = b.subject /\ t.sans = sans
        /\ t.extKeyUsage = IF b.extKeyUsage = <<>> THEN <<"serverAuth">> ELSE b.extKeyUsage
    BY DEF EndEntity
  <1> HIDE DEF t
  <1>2. AsRequested(t, b)
    BY <1>1 DEF AsRequested
  <1>3. QED
    BY <1>2 DEF t

(* Why a request of this library may be refused.                           *)
MayRefuse(b, now) ==
    \/ Truncate(now) + EndEntityLife > intermediate.notAfter
    \/ b.csr = NULL /\
         \/ ~(ToSet(b.extKeyUsage) \subseteq KnownUsages)
         \/ b.alg \notin endEntityAlgorithms \cup {""}
         \/ "bad" \in ToSet(b.ip)
         \/ b.subject["CN"] = <<>> /\ b.dns = <<>> /\ b.email = <<>> /\ b.ip = <<>>
    \/ b.csr # NULL /\
         \/ ~(ToSet(b.extKeyUsage) \subseteq KnownUsages)
         \/ b.csr.tbs.spki.alg.oid \notin endEntityAlgorithms
         \/ csrForbiddenField(b)
         \/ RequestedValues(b.csr, "CN") = <<>> /\ b.csr.tbs.attributes = <<>>

(* The handler refuses it.                                                 *)
LEMMA RefusedByHandler ==
    ASSUME NEW b, RequestIs(b, TRUE), NEW now,
           NEW csr, csr = IF b.csr = NULL THEN NULL ELSE parseCSRPEM(b.csr),
           NEW ips, ips = [i \in DOMAIN b.ip |-> ParseIP(b.ip[i])],
           NEW alg, alg = IF b.alg = "" THEN "ML-DSA-44" ELSE b.alg,
           \/ csr = Error
           \/ b.csr # NULL /\ csrForbiddenField(b)
           \/ ~Valid(alg)
           \/ ~(ToSet(b.extKeyUsage) \subseteq KnownUsages)
           \/ Fails(ips)
    PROVE  MayRefuse(b, now)
  <1>1. CASE csr = Error
    <2>1. b.csr # NULL
      BY <1>1, TypeAssumption DEF NoValue
    <2>2. PICK s \in Names, p \in Signers, n \in AltNames : OwnRequest(b.csr, s, p, n)
      BY <2>1 DEF RequestIs
    <2>3. parseCSRPEM(b.csr) # Error
      BY <2>2, OwnRequestTaken
    <2>4. QED
      BY <1>1, <2>1, <2>3
  <1>2. CASE b.csr # NULL /\ csrForbiddenField(b)
    BY <1>2 DEF MayRefuse
  <1>3. CASE ~Valid(alg)
    <2>1. b.alg # "" /\ alg = b.alg /\ b.alg \notin endEntityAlgorithms
      BY <1>3, AlgorithmsAre, Zenon DEF Valid
    <2>2. csrForbiddenField(b)
      BY <2>1 DEF csrForbiddenField
    <2>3. b.alg \notin endEntityAlgorithms \cup {""}
      BY <2>1
    <2>4. QED
      BY <2>2, <2>3 DEF MayRefuse
  <1>4. CASE ~(ToSet(b.extKeyUsage) \subseteq KnownUsages)
    BY <1>4 DEF MayRefuse
  <1>5. CASE Fails(ips)
    <2>1. CASE b.csr = NULL
      <3>1. b.ip \in Seq({"10.0.0.1", "::ffff:10.0.0.1", "2001:db8::1", "bad"})
        BY <2>1, Zenon DEF RequestIs, WrittenBody
      <3>2. "bad" \in ToSet(b.ip)
        BY <1>5, <3>1, AddressesRead
      <3>3. QED
        BY <2>1, <3>2 DEF MayRefuse
    <2>2. CASE b.csr # NULL
      <3>1. PICK i \in DOMAIN ips : ips[i] = Error
        BY <1>5 DEF Fails
      <3>2. DOMAIN b.ip # {}
        BY <3>1
      <3>4. b.ip # <<>>
        BY <3>2, EmptyDomain, Zenon
      <3>5. csrForbiddenField(b)
        BY <3>4, Zenon DEF csrForbiddenField
      <3>6. QED
        BY <2>2, <3>5, Zenon DEF MayRefuse
    <2>3. QED
      BY <2>1, <2>2
  <1>6. QED
    BY <1>1, <1>2, <1>3, <1>4, <1>5

(* The engine refuses what the handler let through.                        *)
LEMMA CSRRefusedByEngine ==
    ASSUME NEW b, RequestIs(b, TRUE), b.csr # NULL,
           NEW r, r = parseCSRPEM(b.csr), NEW now,
           RefusedBecause(r.subject, r.sans, r.key.alg, b.extKeyUsage, now)
    PROVE  MayRefuse(b, now)
  <1>1. PICK s \in Names, p \in Signers, n \in AltNames : OwnRequest(b.csr, s, p, n)
    BY DEF RequestIs
  <1>2. OwnRequestRead(r, b.csr, s, p, n)
    BY <1>1, OwnRequestTaken
  <1>3. /\ b.csr.tbs.spki.alg.oid = p.alg
        /\ n = EmptySANs => b.csr.tbs.attributes = <<>>
        /\ RequestedValues(b.csr, "CN") = s["CN"]
    BY <1>1, OwnRequestIs
  <1>4. /\ r.subject = s /\ r.key = Public(p)
        /\ r.sans = [dns |-> n.dns, email |-> n.email, ip |-> Stored(n.ip)]
    BY <1>2 DEF OwnRequestRead
  <1>5. r.key.alg = p.alg
    BY <1>4, PublicKeyIs
  <1>6. r.sans = EmptySANs => n = EmptySANs
    <2> DEFINE v == Stored(n.ip)
    <2>1. /\ n = [dns |-> n.dns, email |-> n.email, ip |-> n.ip]
          /\ n.ip \in Seq(Hosts({4, 16}))
      BY DEF AltNames
    <2>2. v = <<>> => n.ip = <<>>
      BY <2>1, StoredAre
    <2> HIDE DEF v
    <2>3. r.sans.dns = n.dns /\ r.sans.email = n.email /\ r.sans.ip = v
      BY <1>4 DEF v
    <2>4. EmptySANs.dns = <<>> /\ EmptySANs.email = <<>> /\ EmptySANs.ip = <<>>
      BY DEF EmptySANs
    <2>5. r.sans = EmptySANs => n.dns = <<>> /\ n.email = <<>> /\ n.ip = <<>>
      BY <2>2, <2>3, <2>4
    <2>6. QED
      BY <2>1, <2>5 DEF EmptySANs
  <1>7. CASE r.key.alg \notin endEntityAlgorithms
    BY <1>3, <1>5, <1>7 DEF MayRefuse
  <1>8. CASE r.subject["CN"] = <<>> /\ r.sans = EmptySANs
    <2>1. RequestedValues(b.csr, "CN") = <<>> /\ b.csr.tbs.attributes = <<>>
      BY <1>3, <1>4, <1>6, <1>8
    <2>2. QED
      BY <2>1, Zenon DEF MayRefuse
  <1>9. CASE Truncate(now) + EndEntityLife > intermediate.notAfter
    BY <1>9 DEF MayRefuse
  <1>10. CASE ~(ToSet(b.extKeyUsage) \subseteq KnownUsages)
    BY <1>10 DEF MayRefuse
  <1>11. QED
    BY <1>7, <1>8, <1>9, <1>10 DEF RefusedBecause

(* The same of a body.                                                     *)
LEMMA BodyRefusedByEngine ==
    ASSUME NEW b, b.csr = NULL, WrittenBody(b), NEW now,
           NEW ips, ips = [i \in DOMAIN b.ip |-> ParseIP(b.ip[i])], ~Fails(ips),
           NEW sans, sans = [dns |-> b.dns, email |-> b.email, ip |-> Stored(ips)],
           NEW alg, alg = IF b.alg = "" THEN "ML-DSA-44" ELSE b.alg,
           RefusedBecause(b.subject, sans, alg, b.extKeyUsage, now)
    PROVE  MayRefuse(b, now)
  <1>1. b.ip \in Seq({"10.0.0.1", "::ffff:10.0.0.1", "2001:db8::1", "bad"})
    BY DEF WrittenBody
  <1>3. Stored(ips) = <<>> => b.ip = <<>>
    BY <1>1, AddressesRead
  <1>4. CASE alg \notin endEntityAlgorithms
    <2>1. b.alg # "" /\ b.alg \notin endEntityAlgorithms
      BY <1>4, AlgorithmsAre
    <2>2. b.alg \notin endEntityAlgorithms \cup {""}
      BY <2>1
    <2>3. QED
      BY <2>2, Zenon DEF MayRefuse
  <1>5. CASE b.subject["CN"] = <<>> /\ sans = EmptySANs
    <2> DEFINE v == Stored(ips)
    <2>1. sans.dns = b.dns /\ sans.email = b.email /\ sans.ip = v
      OBVIOUS
    <2>2. EmptySANs.dns = <<>> /\ EmptySANs.email = <<>> /\ EmptySANs.ip = <<>>
      BY DEF EmptySANs
    <2>3. b.dns = <<>> /\ b.email = <<>> /\ b.ip = <<>>
      BY <1>3, <1>5, <2>1, <2>2
    <2>4. QED
      BY <1>5, <2>3, Zenon DEF MayRefuse
  <1>6. CASE Truncate(now) + EndEntityLife > intermediate.notAfter
    BY <1>6 DEF MayRefuse
  <1>7. CASE ~(ToSet(b.extKeyUsage) \subseteq KnownUsages)
    BY <1>7 DEF MayRefuse
  <1>8. QED
    BY <1>4, <1>5, <1>6, <1>7 DEF RefusedBecause

(* The outcomes of a request.                                              *)
LEMMA RefusalContent ==
    ASSUME ContentInv, NEW now, pc' = "refused", made' = [now |-> now], pc = "handle",
           UNCHANGED <<root, intermediate, body, own, damaged>>,
           own /\ ~damaged => MayRefuse(body, now)
    PROVE  ContentInv'
  <1>1. RequestIs(body, own)
    BY DEF ContentInv, SentInv
  <1>2. RequestIs(body, own)' <=> RequestIs(body', own')
    OBVIOUS
  <1>3. SentInv'
    BY <1>1, <1>2 DEF SentInv
  <1>4. MayRefuse(body, now) => OwnRequestsAreIssued'
    <2>1. made'.now = now
      OBVIOUS
    <2>2. body' = body /\ intermediate' = intermediate
      OBVIOUS
    <2>3. QED
      BY <2>1, <2>2 DEF MayRefuse, OwnRequestsAreIssued
  <1>5. OwnRequestsAreIssued'
    <2>1. ~(own /\ ~damaged) => OwnRequestsAreIssued'
      BY DEF OwnRequestsAreIssued
    <2>2. QED
      BY <1>4, <2>1
  <1>6. QED
    BY <1>3, <1>5 DEF ContentInv, WrittenInv

(* A grant keeps the second invariant.                                     *)
LEMMA GrantContent ==
    ASSUME ContentInv, pc = "handle", pc' = "read certificate",
           UNCHANGED <<root, intermediate, body, own>>,
           NEW t, NEW pub, made'.template = t, made'.key = pub,
           WrittenFor(doc', t, pub), AsRequested(t, body)
    PROVE  ContentInv'
  <1>1. RequestIs(body, own)
    BY DEF ContentInv, SentInv
  <1>2. RequestIs(body, own)' <=> RequestIs(body', own')
    OBVIOUS
  <1>3. SentInv'
    BY <1>1, <1>2 DEF SentInv
  <1>4. WrittenFor(doc, made.template, made.key)'
    BY DEF WrittenFor
  <1>5. AsRequested(made.template, body)' <=> AsRequested(made'.template, body')
    OBVIOUS
  <1>6. QED
    BY <1>3, <1>4, <1>5 DEF ContentInv, WrittenInv, OwnRequestsAreIssued

(* What the handler makes of a CSR, and of a body.                         *)
LEMMA FromCSRContent ==
    ASSUME ContentInv, AuthorityIs(intermediate), pc = "handle", body.csr # NULL, ~damaged,
           NEW csr, csr = parseCSRPEM(body.csr), csr # Error, NEW now \in Times,
           UNCHANGED <<root, intermediate, body, own>>,
           IssueCertificate(csr.subject, csr.sans, csr.key.alg, csr.key, NULL,
                            body.extKeyUsage, now)
    PROVE  ContentInv'
  <1>1. RequestIs(body, own)
    BY DEF ContentInv, SentInv
  <1>2. body.extKeyUsage \in Seq(Strings) /\ Askable(body.csr)
    BY <1>1 DEF RequestIs
  <1>3. RequestSays(csr, body.csr)
    BY <1>2, RequestTaken
  <1>4. csr.subject \in Names /\ csr.sans \in AltNames /\ csr.key \in PublicKeys
    BY <1>3 DEF RequestSays, NamesAsked
  <1> DEFINE t == EndEntity(csr.subject, csr.sans, body.extKeyUsage, now)
             refused == RefusedBecause(csr.subject, csr.sans, csr.key.alg, body.extKeyUsage, now)
  <1>5. \/ /\ pc' = "refused" /\ made' = [now |-> now] /\ damaged' = damaged
           /\ refused
        \/ /\ pc' = "read certificate" /\ ~damaged'
           /\ made'.template = t /\ made'.key = csr.key
           /\ WrittenFor(doc', t, csr.key)
    <2>1. Outcome(csr.subject, csr.sans, csr.key.alg, csr.key, body.extKeyUsage, now)
      BY <1>2, <1>4, IssueResult
    <2>2. QED
      BY <2>1 DEF Outcome
  <1>6. AsRequested(t, body)
    BY <1>3, GrantedByCSR
  <1>7. refused /\ own => MayRefuse(body, now)
    <2>1. own => RequestIs(body, TRUE)
      BY <1>1 DEF RequestIs
    <2>2. QED
      BY <2>1, CSRRefusedByEngine
  <1> HIDE DEF t, refused
  <1>8. CASE pc' = "refused" /\ made' = [now |-> now] /\ damaged' = damaged /\ refused
    BY <1>7, <1>8, RefusalContent
  <1>9. CASE /\ pc' = "read certificate" /\ made'.template = t /\ made'.key = csr.key
             /\ WrittenFor(doc', t, csr.key)
    BY <1>6, <1>9, GrantContent
  <1>10. QED
    BY <1>5, <1>8, <1>9

(* The algorithm of a body.                                                *)
AlgorithmOf(b) == IF b.alg = "" THEN "ML-DSA-44" ELSE b.alg

(* Names, key and usages of a body without a CSR.                          *)
LEMMA FromBodyContent ==
    ASSUME ContentInv, AuthorityIs(intermediate), pc = "handle", body.csr = NULL,
           NEW ips, ips = [i \in DOMAIN body.ip |-> ParseIP(body.ip[i])], ~Fails(ips),
           NEW sans, sans = [dns |-> body.dns, email |-> body.email, ip |-> Stored(ips)],
           NEW alg, alg = AlgorithmOf(body), Valid(alg),
           NEW now \in Times, UNCHANGED <<root, intermediate, body, own>>,
           IssueCertificate(body.subject, sans, alg, Public(NewKey(alg)), PrivateKey(NewKey(alg)),
                            body.extKeyUsage, now)
    PROVE  ContentInv'
  <1>1. RequestIs(body, own)
    BY DEF ContentInv, SentInv
  <1>2. body.extKeyUsage \in Seq(Strings) /\ WrittenBody(body)
    BY <1>1 DEF RequestIs
  <1>3. /\ body.subject \in Names
        /\ body.dns \in Seq(Strings) /\ body.email \in Seq(Strings)
        /\ body.ip \in Seq({"10.0.0.1", "::ffff:10.0.0.1", "2001:db8::1", "bad"})
    BY <1>2 DEF WrittenBody
  <1>4. Stored(ips) \in Seq(Hosts({4, 16})) /\ Len(Stored(ips)) = Len(body.ip)
    BY <1>3, AddressesRead
  <1>5. /\ sans \in AltNames
        /\ sans.dns = body.dns /\ sans.email = body.email /\ Len(sans.ip) = Len(body.ip)
    <2> DEFINE v == Stored(ips)
               Q == Seq(Hosts({4, 16}))
    <2>1. v \in Q /\ Len(v) = Len(body.ip)
      BY <1>4
    <2>2. sans = [dns |-> body.dns, email |-> body.email, ip |-> v]
      OBVIOUS
    <2>3. AltNames = [dns : Seq(Strings), email : Seq(Strings), ip : Q]
      BY DEF AltNames
    <2> HIDE DEF v, Q
    <2>4. body.dns \in Seq(Strings) /\ body.email \in Seq(Strings)
      BY <1>3
    <2>5. sans.dns = body.dns /\ sans.email = body.email /\ sans.ip = v
      BY <2>2
    <2>6. sans \in AltNames
      BY <2>1, <2>2, <2>3, <2>4
    <2>7. QED
      BY <2>1, <2>5, <2>6
  <1> DEFINE pub == Public(NewKey(alg))
             priv == PrivateKey(NewKey(alg))
             t == EndEntity(body.subject, sans, body.extKeyUsage, now)
             refused == RefusedBecause(body.subject, sans, alg, body.extKeyUsage, now)
  <1>6. pub \in PublicKeys
    <2>1. alg \in DOMAIN Info
      BY DEF Valid
    <2>2. QED
      BY <2>1, KeysAre, PublicKeyIs
  <1>7. \/ /\ pc' = "refused" /\ made' = [now |-> now] /\ damaged' = damaged
           /\ refused
        \/ /\ pc' = "read certificate" /\ ~damaged'
           /\ made'.template = t /\ made'.key = pub
           /\ WrittenFor(doc', t, pub)
    <2>1. IssueCertificate(body.subject, sans, alg, pub, priv, body.extKeyUsage, now)
      OBVIOUS
    <2> HIDE DEF pub, priv
    <2>2. Outcome(body.subject, sans, alg, pub, body.extKeyUsage, now)
      BY <1>2, <1>3, <1>5, <1>6, <2>1, IssueResult
    <2>3. QED
      BY <2>2 DEF Outcome
  <1>8. AsRequested(t, body)
    BY <1>5, GrantedByBody
  <1>9. refused => MayRefuse(body, now)
    BY <1>2, BodyRefusedByEngine DEF AlgorithmOf
  <1> HIDE DEF t, refused, pub
  <1>10. CASE pc' = "refused" /\ made' = [now |-> now] /\ damaged' = damaged /\ refused
    BY <1>9, <1>10, RefusalContent
  <1>11. CASE /\ pc' = "read certificate" /\ made'.template = t /\ made'.key = pub
              /\ WrittenFor(doc', t, pub)
    BY <1>8, <1>11, GrantContent
  <1>12. QED
    BY <1>7, <1>10, <1>11

(* HandleIssueCertificate keeps the second invariant.                      *)
LEMMA HandleContent ==
    ASSUME IInv, ContentInv, NEW now \in Times, HandleIssueCertificate(now)
    PROVE  ContentInv'
  <1> DEFINE csr == IF body.csr = NULL THEN NULL ELSE parseCSRPEM(doc)
             ips == [i \in DOMAIN body.ip |-> ParseIP(body.ip[i])]
             alg == IF body.alg = "" THEN "ML-DSA-44" ELSE body.alg
             pair == NewKey(alg)
             sans == [dns |-> body.dns, email |-> body.email,
                      ip |-> [i \in DOMAIN ips |-> To4(ips[i])]]
             FromCSR == IssueCertificate(csr.subject, csr.sans, csr.key.alg, csr.key, NULL,
                                         body.extKeyUsage, now)
             FromBody == IssueCertificate(body.subject, sans, alg, Public(pair), PrivateKey(pair),
                                          body.extKeyUsage, now)
             wrong == \/ csr = Error
                      \/ body.csr # NULL /\ csrForbiddenField(body)
                      \/ ~Valid(alg)
                      \/ ~(ToSet(body.extKeyUsage) \subseteq KnownUsages)
                      \/ Fails(ips)
  <1>1. /\ pc = "handle"
        /\ UNCHANGED <<root, intermediate, body, own, got>>
        /\ IF wrong THEN Refuse(now) ELSE IF body.csr # NULL THEN FromCSR ELSE FromBody
    BY DEF HandleIssueCertificate
  <1>2. AuthorityIs(intermediate)
    BY <1>1, CAsAre DEF Later
  <1>3. RequestIs(body, own)
    BY <1>1 DEF ContentInv, SentInv
  <1>4. /\ body.csr # NULL /\ ~damaged => doc = body.csr
        /\ body.csr # NULL /\ damaged => parseCSRPEM(doc) = Error
    BY <1>1 DEF IInv, RequestInv
  <1>5. CASE wrong
    <2>1. pc' = "refused" /\ made' = [now |-> now] /\ damaged' = damaged
      BY <1>1, <1>5 DEF Refuse
    <2>2. ASSUME own, ~damaged
          PROVE  MayRefuse(body, now)
      <3>1. RequestIs(body, TRUE)
        BY <1>3, <2>2 DEF RequestIs
      <3>2. csr = IF body.csr = NULL THEN NULL ELSE parseCSRPEM(body.csr)
        BY <1>4, <2>2
      <3> HIDE DEF csr, ips, alg
      <3>3. ips = [i \in DOMAIN body.ip |-> ParseIP(body.ip[i])]
        BY DEF ips
      <3>4. alg = IF body.alg = "" THEN "ML-DSA-44" ELSE body.alg
        BY DEF alg
      <3>5. QED
        BY <1>3, <1>5, <3>1, <3>2, <3>3, <3>4, RefusedByHandler
    <2>3. QED
      BY <1>1, <2>1, <2>2, RefusalContent
  <1>6. CASE ~wrong /\ body.csr # NULL
    <2>1. csr = parseCSRPEM(doc) /\ csr # Error /\ FromCSR
      BY <1>1, <1>6
    <2>2. ~damaged /\ doc = body.csr
      BY <1>4, <1>6, <2>1
    <2> HIDE DEF csr
    <2>3. csr = parseCSRPEM(body.csr)
      BY <2>1, <2>2
    <2>4. QED
      BY <1>1, <1>2, <1>6, <2>1, <2>2, <2>3, FromCSRContent
  <1>7. CASE ~wrong /\ body.csr = NULL
    <2>1. ~Fails(ips) /\ Valid(alg) /\ FromBody
      BY <1>1, <1>7
    <2>2. sans = [dns |-> body.dns, email |-> body.email, ip |-> Stored(ips)]
      BY DEF Stored
    <2>3. /\ ips = [i \in DOMAIN body.ip |-> ParseIP(body.ip[i])]
          /\ alg = AlgorithmOf(body)
      BY DEF AlgorithmOf
    <2> HIDE DEF ips, alg, sans
    <2>4. QED
      BY <1>1, <1>2, <1>7, <2>1, <2>2, <2>3, FromBodyContent
  <1>8. QED
    BY <1>5, <1>6, <1>7

(* Every step keeps the second invariant.                                  *)
LEMMA ContentStepKeeps ==
    ASSUME IInv, ContentInv, [Next]_vars
    PROVE  ContentInv'
  <1>1. ASSUME NEW s \in CASubjects, NEW a \in CAAlgorithms, NEW t \in Times,
               CreateRoot(s, a, t) \/ CreateIntermediate(s, a, t)
        PROVE  ContentInv'
    BY <1>1, CreateRootContent, CreateIntermediateContent
  <1>2. CASE Ask
    BY <1>2, AskContent
  <1>3. ASSUME NEW t \in Times, HandleIssueCertificate(t)
        PROVE  ContentInv'
    BY <1>3, HandleContent
  <1>4. ASSUME NEW e \in Entries, NEW t \in Times, Publish(e, t)
        PROVE  ContentInv'
    BY <1>4, PublishContent
  <1>5. CASE ReadCertificate
    BY <1>5, ReadCertificateContent
  <1>6. CASE ReadList
    BY <1>6, ReadListContent
  <1>7. CASE Damage
    BY <1>7, DamageContent
  <1>8. CASE UNCHANGED vars
    <2>1. RequestIs(body, own)' <=> RequestIs(body', own')
      OBVIOUS
    <2>2. SentInv'
      BY <1>8, <2>1 DEF ContentInv, SentInv, vars
    <2>3. /\ WrittenFor(doc, made.template, made.key) => WrittenFor(doc, made.template, made.key)'
          /\ ListWrittenFor(doc, made) => ListWrittenFor(doc, made)'
      BY <1>8 DEF WrittenFor, ListWrittenFor, vars
    <2>4. /\ AsRequested(made.template, body)' <=> AsRequested(made'.template, body')
          /\ CertificateSays(got, made)' <=> CertificateSays(got', made')
          /\ ListSays(got, made)' <=> ListSays(got', made')
      OBVIOUS
    <2>5. WrittenInv'
      BY <1>8, <2>3, <2>4 DEF ContentInv, WrittenInv, vars
    <2>6. OwnRequestsAreIssued'
      BY <1>8 DEF ContentInv, OwnRequestsAreIssued, vars
    <2>7. QED
      BY <2>2, <2>5, <2>6 DEF ContentInv
  <1>9. QED
    BY <1>1, <1>2, <1>3, <1>4, <1>5, <1>6, <1>7, <1>8 DEF Next

(* What every document and every request says, whatever happens.  The first*)
(* invariant is used: an undamaged request is handled as it was sent, and  *)
(* the CAs are authorities.                                                *)
THEOREM ContentInvariance == Spec => []ContentInv
  <1>1. Init => ContentInv
    BY DEF Init, ContentInv, SentInv, WrittenInv, OwnRequestsAreIssued
  <1>2. IInv /\ ContentInv /\ [Next]_vars => ContentInv'
    BY ContentStepKeeps
  <1>3. QED
    BY <1>1, <1>2, Invariance, PTL DEF Spec

(* What CreateCA, IssueCertificate and CRL wrote, of any name, UTF-8 or    *)
(* not, is read back by ParseCertificate and ParseRevocationList with the  *)
(* same content, and neither CreateCA nor IssueCertificate fails to read   *)
(* what it wrote.                                                          *)
THEOREM WrittenIsRead == Spec => []OwnDocumentsAreRead
  <1>1. ContentInv => OwnDocumentsAreRead
    BY DEF ContentInv, SentInv, WrittenInv, CertificateSays, ListSays, OwnDocumentsAreRead
  <1>2. QED
    BY <1>1, ContentInvariance, PTL

(* CreateCertificateRequest makes a CSR of every subject, UTF-8 or not, and*)
(* of all alternative names, except of nothing at all; and of what it made,*)
(* or what a JSON body may hold, handleIssueCertificate and                *)
(* IssueCertificate refuse nothing but for the policy of the CA: no        *)
(* address, character or time is a reason.                                 *)
THEOREM OwnRequestsGranted == Spec => []OwnRequestsAreIssued
  <1>1. ContentInv => OwnRequestsAreIssued
    BY DEF ContentInv
  <1>2. QED
    BY <1>1, ContentInvariance, PTL

(* A certificate says what was asked for.                                  *)
LEMMA SaysWhatWasAsked ==
    ASSUME NEW cert, NEW t, NEW pub, NEW signer, ReadFrom(cert, t, pub, signer),
           TemplateIs(t), NEW b, AsRequested(t, b)
    PROVE  /\ IsName(cert.subject)
           /\ cert.extKeyUsage = IF b.extKeyUsage = <<>> THEN <<"serverAuth">> ELSE b.extKeyUsage
           /\ b.csr = NULL =>
                /\ cert.subject = b.subject
                /\ cert.sans.dns = b.dns /\ cert.sans.email = b.email
                /\ Len(cert.sans.ip) = Len(b.ip)
           /\ b.csr # NULL =>
                /\ ToSet(cert.sans.dns) = RequestedSANs(b.csr, 2)
                /\ ToSet(cert.sans.email) = RequestedSANs(b.csr, 1)
                /\ ToSet(cert.sans.ip) = {To4(ip) : ip \in RequestedSANs(b.csr, 7)}
                /\ \A type \in ToSet(Types) \ {"CN"} : cert.subject[type] = RequestedValues(b.csr, type)
                /\ cert.subject["CN"] # <<>> =>
                     cert.subject["CN"][1] = Last(RequestedValues(b.csr, "CN"))
  <1> DEFINE n == t.sans
             v == Stored(n.ip)
  <1>1. /\ cert.subject = t.subject /\ cert.extKeyUsage = t.extKeyUsage
        /\ cert.sans = [dns |-> n.dns, email |-> n.email, ip |-> v]
    BY DEF ReadFrom
  <1>2. t.subject \in Names /\ n \in AltNames
    BY DEF TemplateIs, ExtensionsWanted
  <1>3. IsName(t.subject)
    BY <1>2 DEF Names
  <1>4. Len(v) = Len(n.ip) /\ ToSet(v) = {To4(ip) : ip \in ToSet(n.ip)}
    <2>1. n.ip \in Seq(Hosts({4, 16}))
      BY <1>2 DEF AltNames
    <2>2. QED
      BY <2>1, StoredAre
  <1> HIDE DEF v, n
  <1>5. cert.sans.dns = n.dns /\ cert.sans.email = n.email /\ cert.sans.ip = v
    BY <1>1
  <1>6. cert.extKeyUsage = IF b.extKeyUsage = <<>> THEN <<"serverAuth">> ELSE b.extKeyUsage
    BY <1>1 DEF AsRequested
  <1>7. ASSUME b.csr = NULL
        PROVE  /\ cert.subject = b.subject
               /\ cert.sans.dns = b.dns /\ cert.sans.email = b.email
               /\ Len(cert.sans.ip) = Len(b.ip)
    BY <1>1, <1>4, <1>5, <1>7 DEF AsRequested, n
  <1>8. ASSUME b.csr # NULL
        PROVE  /\ ToSet(cert.sans.dns) = RequestedSANs(b.csr, 2)
               /\ ToSet(cert.sans.email) = RequestedSANs(b.csr, 1)
               /\ ToSet(cert.sans.ip) = {To4(ip) : ip \in RequestedSANs(b.csr, 7)}
               /\ \A type \in ToSet(Types) \ {"CN"} :
                    cert.subject[type] = RequestedValues(b.csr, type)
               /\ cert.subject["CN"] # <<>> =>
                    cert.subject["CN"][1] = Last(RequestedValues(b.csr, "CN"))
    <2> DEFINE w == RequestedValues(b.csr, "CN")
    <2>1. /\ NamesAsked(n, RequestedSANs(b.csr, 2), RequestedSANs(b.csr, 1), RequestedSANs(b.csr, 7))
          /\ \A type \in ToSet(Types) \ {"CN"} : t.subject[type] = RequestedValues(b.csr, type)
          /\ t.subject["CN"] = CommonName(w)
      BY <1>8 DEF AsRequested, n
    <2>2. /\ ToSet(n.dns) = RequestedSANs(b.csr, 2) /\ ToSet(n.email) = RequestedSANs(b.csr, 1)
          /\ ToSet(n.ip) = RequestedSANs(b.csr, 7)
      BY <2>1 DEF NamesAsked
    <2> HIDE DEF w
    <2>3. CommonName(w) # <<>> => CommonName(w)[1] = Last(w)
      BY DEF CommonName, Last
    <2>4. QED
      BY <1>1, <1>4, <1>5, <2>1, <2>2, <2>3 DEF w
  <1>9. QED
    BY <1>1, <1>3, <1>6, <1>7, <1>8

(* What handleIssueCertificate grants for a CSR, of this library or of any *)
(* other program, is what the CSR asked for (sansFromCSRAttributes,        *)
(* ParseName), with all of its names, in whatever string type and UTF-8 or *)
(* not, for the key that signed it; and for a body what the body says.     *)
THEOREM GrantedAsRequested == Spec => []IssuedAsRequested
  <1>1. ASSUME IInv, ContentInv
        PROVE  IssuedAsRequested
    <2>1. IssuedToTheKeyHolder
      BY <1>1 DEF IInv
    <2>2. SUFFICES ASSUME pc = "read certificate", ~damaged
                   PROVE  IssuedAsRequested
      BY <2>1 DEF IssuedAsRequested
    <2> DEFINE cert == ParseCertificate(doc)
    <2>3. WrittenFor(doc, made.template, made.key) /\ AsRequested(made.template, body)
      BY <1>1, <2>2 DEF ContentInv, WrittenInv
    <2>4. AuthorityIs(intermediate)
      BY <1>1, <2>2, CAsAre DEF Later
    <2>5. ReadFrom(cert, made.template, made.key, KeyOf(intermediate))
      BY <2>3, <2>4, CertificateRelied
    <2>6. TemplateIs(made.template)
      BY <2>3 DEF WrittenFor
    <2> HIDE DEF cert
    <2>7. /\ IsName(cert.subject)
          /\ cert.extKeyUsage
               = IF body.extKeyUsage = <<>> THEN <<"serverAuth">> ELSE body.extKeyUsage
          /\ body.csr = NULL =>
               /\ cert.subject = body.subject
               /\ cert.sans.dns = body.dns /\ cert.sans.email = body.email
               /\ Len(cert.sans.ip) = Len(body.ip)
          /\ body.csr # NULL =>
               /\ ToSet(cert.sans.dns) = RequestedSANs(body.csr, 2)
               /\ ToSet(cert.sans.email) = RequestedSANs(body.csr, 1)
               /\ ToSet(cert.sans.ip) = {To4(ip) : ip \in RequestedSANs(body.csr, 7)}
               /\ \A t \in ToSet(Types) \ {"CN"} : cert.subject[t] = RequestedValues(body.csr, t)
               /\ cert.subject["CN"] # <<>> =>
                    cert.subject["CN"][1] = Last(RequestedValues(body.csr, "CN"))
      BY <2>3, <2>5, <2>6, SaysWhatWasAsked
    <2>8. QED
      BY <2>1, <2>7, Zenon DEF IssuedAsRequested, cert
  <1>2. QED
    BY <1>1, Invariance, ContentInvariance, PTL
=============================================================================
