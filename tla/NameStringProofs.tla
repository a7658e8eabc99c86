-------------------------- MODULE NameStringProofs --------------------------
(***************************************************************************)
(* Proofs about the text form of distinguished names: what String writes,  *)
(* ParseNameString reads back, character by character, for names and texts *)
(* of any length.                                                          *)
(***************************************************************************)
EXTENDS NameString, FoldLemmas

-----------------------------------------------------------------------------
(* Backslashes *)

(* The loop of splitUnescaped that counts backslashes, one character       *)
(* further: another backslash counts, any other character starts afresh.   *)
LEMMA BackslashRun ==
    ASSUME NEW s \in Seq(Characters), NEW i \in 1 .. Len(s)
    PROVE  /\ Backslashes(s, i) \in Nat
           /\ s[i] # "\\" => Backslashes(s, i + 1) = 0
           /\ s[i] = "\\" => Backslashes(s, i + 1) = Backslashes(s, i) + 1
  <1> DEFINE others(k) == {0} \cup {j \in 1 .. k - 1 : s[j] # "\\"}
  <1>1. i \in Nat /\ i >= 1 /\ (i + 1) - 1 = i
    OBVIOUS
  <1>2. ASSUME NEW k \in Nat, k >= 1
        PROVE  /\ Max(others(k)) \in others(k)
               /\ \A j \in others(k) : j <= Max(others(k))
               /\ others(k) \subseteq 0 .. k - 1
    <2>1. k - 1 \in Int /\ others(k) \subseteq 0 .. k - 1 /\ others(k) # {}
      BY <1>2
    <2> HIDE DEF others
    <2>2. QED
      BY <2>1, MaxIs
  <1>3. others(i + 1) = IF s[i] # "\\" THEN others(i) \cup {i} ELSE others(i)
    BY <1>1
  <1>4. i \in Nat /\ i + 1 \in Nat /\ i + 1 >= 1
    BY <1>1
  <1> HIDE DEF others
  <1>5. s[i] # "\\" => Max(others(i + 1)) = i
    <2> SUFFICES ASSUME s[i] # "\\"
                 PROVE  Max(others(i + 1)) = i
      OBVIOUS
    <2>1. i \in others(i + 1)
      BY <1>3
    <2>2. i <= Max(others(i + 1)) /\ Max(others(i + 1)) \in 0 .. (i + 1) - 1
      BY <1>2, <1>4, <2>1
    <2>3. QED
      BY <1>1, <2>2
  <1>6. Max(others(i)) \in 0 .. i - 1
    BY <1>1, <1>2
  <1>7. Backslashes(s, i) = i - 1 - Max(others(i)) /\ Backslashes(s, i + 1) = i - Max(others(i + 1))
    BY <1>1 DEF Backslashes, others
  <1>8. QED
    BY <1>1, <1>3, <1>5, <1>6, <1>7

(* No backslash stands before the first character.                         *)
LEMMA NoBackslashYet ==
    ASSUME NEW s
    PROVE  Backslashes(s, 1) = 0
  <1>1. {0} \cup {j \in 1 .. 1 - 1 : s[j] # "\\"} = {0}
    OBVIOUS
  <1>2. {0} \subseteq 0 .. 0 /\ {0} # {} /\ 0 \in Int
    OBVIOUS
  <1>3. Max({0}) \in {0}
    BY <1>2, MaxIs
  <1>4. QED
    BY <1>1, <1>3 DEF Backslashes

-----------------------------------------------------------------------------
(* Escapes *)

(* What escapeAttributeValue writes for one character.                     *)
Chunks(v) ==
    [i \in DOMAIN v |->
        IF \/ v[i] \in Reserved
           \/ v[i] \in {"#", " "} /\ i = 1
           \/ v[i] = " " /\ i = Len(v)
          THEN <<"\\", v[i]>> ELSE <<v[i]>>]

(* What a backslash escapes. *)
Escapable == Reserved \cup {" ", "#", "="}

(* An escaped value is its chunks, one after another.                      *)
LEMMA ChunkFacts ==
    ASSUME NEW v \in Seq(Characters)
    PROVE  /\ Chunks(v) \in Seq(Seq(Characters))
           /\ Len(Chunks(v)) = Len(v)
           /\ Len(v) \in Nat
           /\ escapeAttributeValue(v) = FlattenSeq(Chunks(v))
  <1>1. DOMAIN v = 1 .. Len(v) /\ Len(v) \in Nat /\ \A i \in 1 .. Len(v) : v[i] \in Characters
    OBVIOUS
  <1>2. "\\" \in Characters
    BY CharactersAssumption, Zenon DEF Reserved
  <1>3. \A c \in Characters : <<c>> \in Seq(Characters) /\ <<"\\", c>> \in Seq(Characters)
    BY <1>2
  <1>4. Chunks(v) \in [1 .. Len(v) -> Seq(Characters)]
    BY <1>1, <1>3 DEF Chunks
  <1>5. Chunks(v) \in Seq(Seq(Characters)) /\ Len(Chunks(v)) = Len(v)
    BY <1>1, <1>4
  <1>6. escapeAttributeValue(v) = FlattenSeq(Chunks(v))
    BY DEF escapeAttributeValue, Chunks
  <1>7. QED
    BY <1>1, <1>5, <1>6

(* A chunk is a character that needs no escape, or an escaped one.         *)
LEMMA ChunkOf ==
    ASSUME NEW v \in Seq(Characters), NEW i \in 1 .. Len(v)
    PROVE  LET c == Chunks(v)[i]
           IN  /\ v[i] \in Characters
               /\ c \in Seq(Characters)
               /\ Len(c) \in Nat /\ Len(c) >= 1 /\ Len(c) <= 2
               /\ Len(c) < 2 => /\ c[1] = v[i]
                                /\ v[i] \notin Reserved
                                /\ i = 1 => v[i] # "#"
               /\ Len(c) > 1 => /\ c[1] = "\\"
                                /\ c[2] = v[i]
                                /\ v[i] \in Escapable
  <1> DEFINE c == Chunks(v)[i]
  <1>1. v[i] \in Characters /\ i \in DOMAIN v
    OBVIOUS
  <1>2. c \in Seq(Characters)
    <2>1. Chunks(v) \in Seq(Seq(Characters)) /\ i \in 1 .. Len(Chunks(v))
      BY ChunkFacts
    <2>2. QED
      BY <2>1
  <1>3. \/ c = <<v[i]>> /\ v[i] \notin Reserved /\ (i = 1 => v[i] # "#")
        \/ c = <<"\\", v[i]>> /\ v[i] \in Escapable
    BY <1>1, Zenon DEF Chunks, Escapable
  <1> HIDE DEF c
  <1>4. CASE c = <<v[i]>> /\ v[i] \notin Reserved /\ (i = 1 => v[i] # "#")
    <2>1. c[1] = v[i] /\ Len(c) = 1
      BY <1>4
    <2>2. Len(c) \in Nat /\ Len(c) >= 1 /\ Len(c) <= 2 /\ ~(Len(c) > 1)
      BY <1>4
    <2>3. QED
      BY <1>1, <1>2, <1>4, <2>1, <2>2 DEF c
  <1>5. CASE c = <<"\\", v[i]>> /\ v[i] \in Escapable
    <2>1. c[1] = "\\" /\ c[2] = v[i]
      BY <1>5
    <2>2. Len(c) \in Nat /\ Len(c) >= 1 /\ Len(c) <= 2 /\ ~(Len(c) < 2)
      <3>1. \A x, y : Len(<<x, y>>) \in Nat /\ Len(<<x, y>>) = 2
        OBVIOUS
      <3>2. c = <<"\\", v[i]>>
        BY <1>5
      <3> DEFINE l == Len(c)
      <3>3. l \in Nat /\ l = 2
        BY <3>1, <3>2, Zenon
      <3> HIDE DEF l
      <3>4. l >= 1 /\ l <= 2 /\ ~(l < 2)
        BY <3>3
      <3>5. QED
        BY <3>3, <3>4 DEF l
    <2>3. QED
      BY <1>1, <1>2, <1>5, <2>1, <2>2 DEF c
  <1>6. QED
    BY <1>3, <1>4, <1>5

(* The character at i is not escaped; no separator from a up to b; e       *)
(* stands in s after the first d characters.                               *)
Free(s, i) == Backslashes(s, i) % 2 = 0

Quiet(s, sep, a, b) == \A i \in a .. b - 1 : i \notin Separators(s, sep)

StandsAt(s, d, e) ==
    /\ d + Len(e) <= Len(s)
    /\ \A j \in 1 .. Len(e) : s[d + j] = e[j]

(* A stretch without separators goes on with any character that is none.   *)
LEMMA QuietGrows ==
    ASSUME NEW s, NEW sep, NEW a \in Int, NEW b \in Int, Quiet(s, sep, a, b),
           b \notin Separators(s, sep)
    PROVE  Quiet(s, sep, a, b + 1)
  <1>1. \A i \in a .. (b + 1) - 1 : i \in a .. b - 1 \/ i = b
    OBVIOUS
  <1>2. QED
    BY <1>1 DEF Quiet

(* Character by character, what it means that e stands at a place of s.    *)
LEMMA StandsAtFacts ==
    ASSUME NEW s \in Seq(Characters), NEW d \in Nat, NEW e \in Seq(Characters), StandsAt(s, d, e),
           NEW p \in 1 .. Len(e)
    PROVE  d + p \in 1 .. Len(s) /\ s[d + p] = e[p]
  <1>1. Len(e) \in Nat /\ Len(s) \in Nat /\ d + Len(e) <= Len(s) /\ s[d + p] = e[p]
    BY DEF StandsAt
  <1>2. QED
    BY <1>1

LEMMA BackslashIsReserved == "\\" \in Reserved /\ "," \in Reserved /\ "+" \in Reserved
  BY Zenon DEF Reserved

(* One character that is neither, and one that a backslash escapes: no     *)
(* separator, and the next character is not escaped.                       *)
LEMMA PlainCharacter ==
    ASSUME NEW s \in Seq(Characters), NEW sep, NEW i \in 1 .. Len(s),
           s[i] # "\\", s[i] # sep
    PROVE  i \notin Separators(s, sep) /\ Free(s, i + 1)
  <1>1. Backslashes(s, i + 1) = 0
    BY BackslashRun
  <1>2. QED
    BY <1>1 DEF Separators, Free

(* A backslash and the character that it escapes: neither separates, and   *)
(* what comes after them is not escaped.                                   *)
LEMMA EscapedCharacter ==
    ASSUME NEW s \in Seq(Characters), NEW sep \in Reserved \ {"\\"},
           NEW i \in 1 .. Len(s), i + 1 \in 1 .. Len(s),
           s[i] = "\\", Free(s, i)
    PROVE  /\ i \notin Separators(s, sep)
           /\ i + 1 \notin Separators(s, sep)
           /\ Free(s, (i + 1) + 1)
  <1>1. Backslashes(s, i) \in Nat /\ Backslashes(s, i + 1) = Backslashes(s, i) + 1
    BY BackslashRun
  <1>2. (Backslashes(s, i) + 1) % 2 = 1 /\ (Backslashes(s, i) + 2) % 2 = 0
    BY <1>1 DEF Free
  <1>3. Backslashes(s, i + 1) % 2 # 0
    BY <1>1, <1>2
  <1>4. i \notin Separators(s, sep) /\ i + 1 \notin Separators(s, sep)
    BY <1>3 DEF Separators
  <1>5. \/ Backslashes(s, (i + 1) + 1) = 0
        \/ Backslashes(s, (i + 1) + 1) = Backslashes(s, i + 1) + 1
    BY BackslashRun
  <1>6. Backslashes(s, i + 1) + 1 = Backslashes(s, i) + 2
    BY <1>1
  <1>7. QED
    BY <1>2, <1>4, <1>5, <1>6 DEF Free

(* The characters of one chunk, wherever it stands.                        *)
LEMMA EscapedChunk ==
    ASSUME NEW v \in Seq(Characters), NEW k \in 1 .. Len(v),
           NEW s \in Seq(Characters), NEW sep \in Reserved \ {"\\"}, NEW i \in Nat, i >= 1,
           StandsAt(s, i - 1, Chunks(v)[k]), Free(s, i),
           NEW a \in Int, Quiet(s, sep, a, i)
    PROVE  /\ Quiet(s, sep, a, i + Len(Chunks(v)[k]))
           /\ Free(s, i + Len(Chunks(v)[k]))
  <1> DEFINE c == Chunks(v)[k]
             l == Len(c)
  <1>1. /\ c \in Seq(Characters)
        /\ l \in Nat /\ l >= 1 /\ l <= 2
        /\ l < 2 => c[1] = v[k] /\ v[k] \notin Reserved
        /\ l > 1 => c[1] = "\\"
    BY ChunkOf
  <1>2. StandsAt(s, i - 1, c)
    OBVIOUS
  <1> HIDE DEF c
  <1>3. i - 1 \in Nat /\ (i - 1) + 1 = i /\ (i - 1) + 2 = i + 1
    OBVIOUS
  <1>4. \A p \in 1 .. l : (i - 1) + p \in 1 .. Len(s) /\ s[(i - 1) + p] = c[p]
    BY <1>1, <1>2, <1>3, StandsAtFacts
  <1> HIDE DEF l
  <1>5. i \in 1 .. Len(s) /\ s[i] = c[1]
    <2>1. 1 \in 1 .. l
      BY <1>1
    <2>2. QED
      BY <1>3, <1>4, <2>1
  <1>6. CASE l < 2
    <2>1. s[i] # "\\" /\ s[i] # sep
      BY <1>1, <1>5, <1>6, BackslashIsReserved
    <2>2. i \notin Separators(s, sep) /\ Free(s, i + 1)
      BY <1>5, <2>1, PlainCharacter
    <2>3. Quiet(s, sep, a, i + 1)
      BY <2>2, QuietGrows
    <2>4. i + l = i + 1
      BY <1>1, <1>6
    <2>5. QED
      BY <2>2, <2>3, <2>4 DEF c, l
  <1>7. CASE l > 1
    <2>1. i + 1 \in 1 .. Len(s) /\ s[i] = "\\" /\ sep # "\\"
      <3>1. 2 \in 1 .. l
        BY <1>1, <1>7
      <3>2. QED
        BY <1>1, <1>3, <1>4, <1>5, <1>7, <3>1
    <2>2. /\ i \notin Separators(s, sep)
          /\ i + 1 \notin Separators(s, sep)
          /\ Free(s, (i + 1) + 1)
      BY <1>5, <2>1, EscapedCharacter
    <2>3. Quiet(s, sep, a, i + 1)
      BY <2>2, QuietGrows
    <2>4. Quiet(s, sep, a, (i + 1) + 1)
      BY <2>2, <2>3, QuietGrows
    <2>5. i + l = (i + 1) + 1
      BY <1>1, <1>7
    <2>6. QED
      BY <2>2, <2>4, <2>5 DEF c, l
  <1>8. QED
    BY <1>1, <1>6, <1>7

(* Wherever an escaped value stands, none of its characters separates, and *)
(* the character after it is not escaped.                                  *)
LEMMA EscapedValue ==
    ASSUME NEW v \in Seq(Characters), NEW s \in Seq(Characters), NEW d \in Nat,
           NEW sep \in Reserved \ {"\\"},
           StandsAt(s, d, escapeAttributeValue(v)), Free(s, d + 1)
    PROVE  /\ escapeAttributeValue(v) \in Seq(Characters)
           /\ Quiet(s, sep, d + 1, d + Len(escapeAttributeValue(v)) + 1)
           /\ Free(s, d + Len(escapeAttributeValue(v)) + 1)
  <1> DEFINE e == escapeAttributeValue(v)
             cs == Chunks(v)
             n == Len(v)
  <1>1. /\ n \in Nat /\ cs \in Seq(Seq(Characters)) /\ Len(cs) = n
        /\ e = FlattenSeq(cs)
    BY ChunkFacts
  <1>2. PICK pos : Positions(cs, pos)
    BY <1>1, PositionsExist
  <1>3. LaidOut(Characters, cs, pos, n, e)
    BY <1>1, <1>2, Layout
  <1>4. e \in Seq(Characters) /\ Len(e) \in Nat /\ Len(e) = pos[n + 1] - 1
    BY <1>3 DEF LaidOut
  <1>5. pos[1] = 1 /\ n + 1 \in 1 .. n + 1 /\ pos[n + 1] \in Nat
    BY <1>1, <1>2, PositionFacts
  <1> DEFINE T == {k \in 1 .. n + 1 : Free(s, d + pos[k]) /\ Quiet(s, sep, d + 1, d + pos[k])}
  <1>6. 1 \in T
    <2>1. Quiet(s, sep, d + 1, d + 1)
      BY DEF Quiet
    <2>2. QED
      BY <1>1, <1>5, <2>1
  <1>7. ASSUME NEW k \in 1 .. (n + 1) - 1, k \in T
        PROVE  k + 1 \in T
    <2> DEFINE i == d + pos[k]
    <2>1. k \in 1 .. n /\ k + 1 \in 1 .. n + 1
      BY <1>1
    <2>2. /\ pos[k] \in Nat /\ pos[k] >= 1 /\ Len(cs[k]) \in Nat
          /\ pos[k + 1] = pos[k] + Len(cs[k])
          /\ cs[k] \in Seq(Characters)
      <3>1. k \in 1 .. Len(cs) /\ cs \in Seq(Seq(Characters))
        BY <1>1, <2>1
      <3> HIDE DEF cs, n, T, i
      <3>2. QED
        BY <1>2, <3>1, PositionOf
    <2>3. /\ i \in Nat /\ i >= 1 /\ d + 1 \in Int /\ i - 1 \in Nat
          /\ d + pos[k + 1] = i + Len(cs[k])
      <3> DEFINE p == pos[k]
                 l == Len(cs[k])
                 q == pos[k + 1]
      <3>1. p \in Nat /\ p >= 1 /\ l \in Nat /\ q = p + l
        BY <2>2
      <3> HIDE DEF p, l, q
      <3>2. d + p \in Nat /\ d + p >= 1 /\ d + 1 \in Int /\ (d + p) - 1 \in Nat /\ d + q = (d + p) + l
        BY <3>1
      <3>3. QED
        BY <3>2 DEF p, l, q
    <2>4. Free(s, i) /\ Quiet(s, sep, d + 1, i)
      BY <1>7
    <2>5. StandsAt(s, i - 1, cs[k])
      <3>1. ASSUME NEW j \in 1 .. Len(cs[k])
            PROVE  (i - 1) + j \in 1 .. Len(s) /\ s[(i - 1) + j] = cs[k][j]
        <4> DEFINE p == pos[k] + j - 1
        <4>1. p \in 1 .. Len(e) /\ e[p] = cs[k][j]
          BY <1>3, <2>1 DEF LaidOut
        <4>2. d + p = (i - 1) + j
          <5> HIDE DEF cs, n, T
          <5>1. j \in Int
            BY <2>2
          <5>2. QED
            BY <2>2, <5>1
        <4> HIDE DEF p, i, e
        <4>3. d + p \in 1 .. Len(s) /\ s[d + p] = e[p]
          BY <1>4, <4>1, StandsAtFacts DEF e
        <4>4. QED
          BY <4>1, <4>2, <4>3
      <3>2. Len(cs[k]) >= 1
        <4> HIDE DEF i, T
        <4>1. QED
          BY <2>1, ChunkOf
      <3>3. Len(cs[k]) \in 1 .. Len(cs[k])
        BY <2>2, <3>2
      <3> HIDE DEF i, cs
      <3>4. (i - 1) + Len(cs[k]) \in 1 .. Len(s)
        BY <3>1, <3>3
      <3>5. (i - 1) + Len(cs[k]) <= Len(s)
        BY <3>4
      <3>6. QED
        BY <3>1, <3>5 DEF StandsAt
    <2> HIDE DEF i
    <2>6. Quiet(s, sep, d + 1, i + Len(cs[k])) /\ Free(s, i + Len(cs[k]))
      BY <2>1, <2>2, <2>3, <2>4, <2>5, EscapedChunk
    <2>7. QED
      BY <2>1, <2>3, <2>6
  <1>8. n + 1 \in T
    <2>1. 1 \in Int /\ n + 1 \in Int
      BY <1>1
    <2> HIDE DEF T, n
    <2>2. QED
      BY <1>5, <1>6, <1>7, <2>1, Upwards
  <1>9. d + pos[n + 1] = d + Len(e) + 1
    <2> HIDE DEF e, n
    <2>1. QED
      BY <1>4, <1>5
  <1>10. QED
    BY <1>4, <1>8, <1>9

-----------------------------------------------------------------------------
(* Splitting *)

(* A substring s[a-1:b] of Go: its type, its length and its characters.    *)
LEMMA SubSeqFacts ==
    ASSUME NEW S, NEW s \in Seq(S), NEW a \in Nat \ {0}, NEW b \in 0 .. Len(s)
    PROVE  /\ SubSeq(s, a, b) \in Seq(S)
           /\ Len(SubSeq(s, a, b)) = IF a <= b THEN b - a + 1 ELSE 0
           /\ \A j \in 1 .. Len(SubSeq(s, a, b)) : SubSeq(s, a, b)[j] = s[a + j - 1]
  <1>1. QED
    OBVIOUS

(* One round of the loop of splitUnescaped: the parts that are complete    *)
(* and where the next one begins.                                          *)
Split == [parts : Seq(Seq(Characters)), start : Nat \ {0}]

CutOne(s, positions, done, i) ==
    IF i \in positions
      THEN [parts |-> Append(done.parts, SubSeq(s, done.start, i - 1)), start |-> i + 1]
      ELSE done

(* A round keeps complete parts and a beginning.                           *)
LEMMA CutOneType ==
    ASSUME NEW s \in Seq(Characters), NEW positions, NEW i \in 1 .. Len(s), NEW done \in Split
    PROVE  CutOne(s, positions, done, i) \in Split
  <1>1. i - 1 \in 0 .. Len(s) /\ i + 1 \in Nat \ {0} /\ done.start \in Nat \ {0}
    BY DEF Split
  <1>2. SubSeq(s, done.start, i - 1) \in Seq(Characters)
    BY <1>1, SubSeqFacts
  <1>3. Append(done.parts, SubSeq(s, done.start, i - 1)) \in Seq(Seq(Characters))
    BY <1>2 DEF Split
  <1>4. QED
    BY <1>1, <1>3 DEF CutOne, Split

(* The rounds that CutAt takes.                                            *)
Rounds(s, positions, acc) ==
    /\ acc \in [0 .. Len(s) -> Split]
    /\ acc[0] = [parts |-> <<>>, start |-> 1]
    /\ \A i \in 1 .. Len(s) : acc[i] = CutOne(s, positions, acc[i - 1], i)
    /\ CutAt(s, positions) =
         Append(acc[Len(s)].parts, SubSeq(s, acc[Len(s)].start, Len(s)))

(* The rounds of the loop exist: CutAt is what is left after the last.     *)
LEMMA CutAtRounds ==
    ASSUME NEW s \in Seq(Characters), NEW positions
    PROVE  \E acc : Rounds(s, positions, acc)
  <1> DEFINE n == Len(s)
             base == [parts |-> <<>>, start |-> 1]
             index == [i \in DOMAIN s |-> i]
             body(f) == [x \in SUBSET DOMAIN index |->
                           IF x = {} THEN base
                           ELSE CutOne(s, positions, f[x \ {Max(x)}], index[Max(x)])]
             last == CHOOSE f : f = body(f)
             add == [i \in 1 .. n |-> [done \in Split |-> CutOne(s, positions, done, i)]]
  <1>1. n \in Nat /\ DOMAIN s = 1 .. n /\ DOMAIN index = 1 .. n /\ base \in Split
    BY DEF Split
  <1>2. CutAt(s, positions)
          = Append(last[DOMAIN index].parts, SubSeq(s, last[DOMAIN index].start, Len(s)))
    BY DEF CutAt, FoldLeftDomain, FoldLeft, MapThenFoldSet, CutOne
  <1>3. \A x \in SUBSET (1 .. n) : x # {} => Max(x) \in 1 .. n /\ index[Max(x)] = Max(x)
    <2>1. ASSUME NEW x \in SUBSET (1 .. n), x # {}
          PROVE  Max(x) \in 1 .. n
      <3>1. n \in Int /\ x \subseteq 0 .. n
        BY <1>1
      <3>2. Max(x) \in x
        BY <2>1, <3>1, MaxIs
      <3>3. QED
        BY <3>2
    <2>2. QED
      BY <1>1, <2>1
  <1>4. add \in [1 .. n -> [Split -> Split]]
    BY <1>1, CutOneType
  <1>5. PICK iter \in [SUBSET (1 .. n) -> Split] :
          \A x \in SUBSET (1 .. n) :
            iter[x] = IF x = {} THEN base ELSE add[Max(x)][iter[x \ {Max(x)}]]
    <2> HIDE DEF add, base, n
    <2>1. HasFold(n, Split, base, add)
      BY <1>1, <1>4, FoldExists
    <2>2. QED
      BY <2>1 DEF HasFold
  <1>6. iter = body(iter)
    <2>1. ASSUME NEW x \in SUBSET (1 .. n)
          PROVE  iter[x] = IF x = {} THEN base
                           ELSE CutOne(s, positions, iter[x \ {Max(x)}], index[Max(x)])
      <3>1. CASE x = {}
        BY <1>5, <3>1
      <3>2. CASE x # {}
        <4>1. Max(x) \in 1 .. n /\ index[Max(x)] = Max(x)
          BY <1>3, <3>2
        <4>2. iter[x \ {Max(x)}] \in Split
          OBVIOUS
        <4>3. QED
          BY <1>5, <3>2, <4>1, <4>2
      <3>3. QED
        BY <3>1, <3>2
    <2>2. QED
      BY <1>1, <2>1
  <1>7. last = body(last)
    <2> HIDE DEF body
    <2>1. QED
      BY <1>6
  <1>8. /\ last[{}] = base
        /\ \A x \in SUBSET (1 .. n) : x # {} /\ last[x \ {Max(x)}] \in Split =>
              last[x] = add[Max(x)][last[x \ {Max(x)}]]
    <2> HIDE DEF last
    <2>1. ASSUME NEW x \in SUBSET (1 .. n)
          PROVE  last[x] = IF x = {} THEN base
                           ELSE CutOne(s, positions, last[x \ {Max(x)}], index[Max(x)])
      BY <1>1, <1>7
    <2>2. {} \in SUBSET (1 .. n)
      OBVIOUS
    <2>3. last[{}] = base
      BY <2>1, <2>2
    <2>4. ASSUME NEW x \in SUBSET (1 .. n), x # {}, last[x \ {Max(x)}] \in Split
          PROVE  last[x] = add[Max(x)][last[x \ {Max(x)}]]
      <3>1. Max(x) \in 1 .. n /\ index[Max(x)] = Max(x)
        BY <1>3, <2>4
      <3>2. last[x] = CutOne(s, positions, last[x \ {Max(x)}], Max(x))
        BY <2>1, <2>4, <3>1
      <3>3. QED
        BY <2>4, <3>1, <3>2
    <2>5. QED
      BY <2>3, <2>4
  <1>9. PICK acc \in [0 .. n -> Split] :
          /\ acc[0] = base
          /\ \A i \in 1 .. n : acc[i] = add[i][acc[i - 1]]
          /\ acc[n] = last[1 .. n]
    <2> HIDE DEF add, base, n, last
    <2>1. FoldsWith(n, Split, base, add, last)
      BY <1>8 DEF FoldsWith
    <2>2. Accumulates(n, Split, base, add, last)
      BY <1>1, <1>4, <2>1, FoldComputes
    <2>3. QED
      BY <2>2 DEF Accumulates
  <1>10. ASSUME NEW i \in 1 .. n
         PROVE  acc[i] = CutOne(s, positions, acc[i - 1], i)
    <2>1. i - 1 \in 0 .. n
      BY <1>1
    <2>2. acc[i - 1] \in Split
      BY <2>1
    <2>3. QED
      BY <1>9, <2>2
  <1>11. CutAt(s, positions) = Append(acc[n].parts, SubSeq(s, acc[n].start, n))
    <2> HIDE DEF last, index
    <2>1. QED
      BY <1>1, <1>2, <1>9
  <1>12. QED
    BY <1>9, <1>10, <1>11 DEF Rounds

(* Sequences with the same elements are equal.                             *)
LEMMA SameSequence ==
    ASSUME NEW S, NEW a \in Seq(S), NEW b \in Seq(S), Len(a) = Len(b),
           \A i \in 1 .. Len(a) : a[i] = b[i]
    PROVE  a = b
  <1>1. DOMAIN a = 1 .. Len(a) /\ DOMAIN b = 1 .. Len(b)
    OBVIOUS
  <1>2. QED
    BY <1>1

(* No cut, no round changes anything.                                      *)
LEMMA RoundsStay ==
    ASSUME NEW s \in Seq(Characters), NEW positions, NEW acc, Rounds(s, positions, acc),
           NEW a \in 0 .. Len(s), NEW b \in a .. Len(s),
           \A i \in a + 1 .. b : i \notin positions
    PROVE  acc[b] = acc[a]
  <1> DEFINE T == {i \in a .. b : acc[i] = acc[a]}
  <1>1. Len(s) \in Nat /\ a \in Int /\ b \in Int /\ a \in a .. b /\ b \in a .. b
    OBVIOUS
  <1>2. a \in T
    BY <1>1
  <1>3. ASSUME NEW i \in a .. b - 1, i \in T
        PROVE  i + 1 \in T
    <2>1. i + 1 \in 1 .. Len(s) /\ (i + 1) - 1 = i /\ i + 1 \in a + 1 .. b /\ i + 1 \in a .. b
      BY <1>1
    <2>2. acc[i + 1] = CutOne(s, positions, acc[i], i + 1)
      BY <2>1 DEF Rounds
    <2>3. acc[i + 1] = acc[i]
      BY <2>1, <2>2 DEF CutOne
    <2>4. QED
      BY <1>3, <2>1, <2>3
  <1>4. a .. b \subseteq T
    <2> HIDE DEF T
    <2>1. QED
      BY <1>1, <1>2, <1>3, Upwards
  <1>5. QED
    BY <1>1, <1>4

LEMMA WholeSubSeq ==
    ASSUME NEW S, NEW s \in Seq(S)
    PROVE  SubSeq(s, 1, Len(s)) = s
  OBVIOUS

(* Without separators there is one part.                                   *)
LEMMA NoCut ==
    ASSUME NEW s \in Seq(Characters), NEW positions,
           \A i \in 1 .. Len(s) : i \notin positions
    PROVE  CutAt(s, positions) = <<s>>
  <1>1. PICK acc : Rounds(s, positions, acc)
    BY CutAtRounds
  <1>2. Len(s) \in Nat /\ 0 \in 0 .. Len(s) /\ Len(s) \in 0 .. Len(s)
    OBVIOUS
  <1>3. \A i \in 0 + 1 .. Len(s) : i \notin positions
    OBVIOUS
  <1>4. acc[Len(s)] = acc[0]
    BY <1>1, <1>2, <1>3, RoundsStay
  <1>5. acc[0] = [parts |-> <<>>, start |-> 1]
    BY <1>1 DEF Rounds
  <1>6. CutAt(s, positions) = Append(acc[Len(s)].parts, SubSeq(s, acc[Len(s)].start, Len(s)))
    BY <1>1 DEF Rounds
  <1> DEFINE done == acc[Len(s)]
  <1>7. done.parts = <<>> /\ done.start = 1
    <2>1. done = [parts |-> <<>>, start |-> 1]
      BY <1>4, <1>5, Zenon
    <2> HIDE DEF done
    <2>2. QED
      BY <2>1
  <1>8. CutAt(s, positions) = Append(<<>>, SubSeq(s, 1, Len(s)))
    BY <1>6, <1>7, Zenon
  <1>9. QED
    BY <1>8, WholeSubSeq

(* What Join puts one after another: each part but the first has the       *)
(* separator before it.                                                    *)
Joined(parts, sep) ==
    [k \in DOMAIN parts |-> IF k = 1 THEN parts[k] ELSE <<sep>> \o parts[k]]

(* Where a part begins.                                                    *)
Start(pos, k) == IF k = 1 THEN 1 ELSE pos[k] + 1

(* strings.Join puts these one after another.                              *)
LEMMA JoinedFacts ==
    ASSUME NEW parts \in Seq(Seq(Characters)), NEW sep \in Characters
    PROVE  /\ Joined(parts, sep) \in Seq(Seq(Characters))
           /\ Len(Joined(parts, sep)) = Len(parts)
           /\ Len(parts) \in Nat
           /\ Join(parts, sep) = FlattenSeq(Joined(parts, sep))
  <1>1. DOMAIN parts = 1 .. Len(parts) /\ Len(parts) \in Nat
    OBVIOUS
  <1>2. \A k \in 1 .. Len(parts) : parts[k] \in Seq(Characters) /\ <<sep>> \o parts[k] \in Seq(Characters)
    OBVIOUS
  <1>3. Joined(parts, sep) \in [1 .. Len(parts) -> Seq(Characters)]
    BY <1>1, <1>2 DEF Joined
  <1>4. QED
    BY <1>1, <1>3 DEF Join, Joined

(* The parts stand where they were joined.                                 *)
LEMMA PartStands ==
    ASSUME NEW parts \in Seq(Seq(Characters)), NEW sep \in Characters, NEW pos,
           Positions(Joined(parts, sep), pos), NEW k \in 1 .. Len(parts)
    PROVE  LET s == Join(parts, sep)
           IN  /\ s \in Seq(Characters)
               /\ Start(pos, k) - 1 \in Nat /\ Start(pos, k) \in Nat
               /\ pos[k] \in Nat /\ pos[k] >= 1
               /\ pos[k + 1] = Start(pos, k) + Len(parts[k])
               /\ StandsAt(s, Start(pos, k) - 1, parts[k])
               /\ k > 1 => pos[k] \in 1 .. Len(s) /\ s[pos[k]] = sep /\ Start(pos, k) = pos[k] + 1
  <1> DEFINE cs == Joined(parts, sep)
             s == Join(parts, sep)
             p == parts[k]
             l == Len(p)
             q == pos[k]
             c == Len(cs[k])
  <1>1. /\ cs \in Seq(Seq(Characters)) /\ k \in 1 .. Len(cs) /\ s = FlattenSeq(cs)
        /\ Positions(cs, pos)
        /\ p \in Seq(Characters) /\ l \in Nat
        /\ cs[k] = IF k = 1 THEN p ELSE <<sep>> \o p
    <2>1. k \in DOMAIN parts /\ p \in Seq(Characters) /\ l \in Nat
      OBVIOUS
    <2>2. cs[k] = IF k = 1 THEN p ELSE <<sep>> \o p
      BY <2>1 DEF Joined
    <2>3. Positions(cs, pos)
      OBVIOUS
    <2> HIDE DEF cs, s, p
    <2>4. cs \in Seq(Seq(Characters)) /\ k \in 1 .. Len(cs) /\ s = FlattenSeq(cs)
      BY JoinedFacts DEF cs, s
    <2>5. QED
      BY <2>1, <2>2, <2>3, <2>4
  <1> HIDE DEF cs, s
  <1>2. /\ LaidOut(Characters, cs, pos, Len(cs), s)
        /\ s \in Seq(Characters) /\ Len(s) \in Nat
    <2>1. LaidOut(Characters, cs, pos, Len(cs), s)
      BY <1>1, Layout
    <2>2. s \in Seq(Characters) /\ Len(s) \in Nat
      BY <2>1, LaidOutType
    <2>3. QED
      BY <2>1, <2>2
  <1>3. \A j \in 1 .. c : q + j - 1 \in 1 .. Len(s) /\ s[q + j - 1] = cs[k][j]
    BY <1>1, <1>2 DEF LaidOut
  <1>4. q \in Nat /\ q >= 1 /\ pos[k + 1] = q + c /\ c \in Nat
    <2> HIDE DEF p
    <2>1. QED
      BY <1>1, PositionOf, ZenonT(40)
  <1>5. pos[1] = 1
    BY <1>1 DEF Positions
  <1> DEFINE f == Start(pos, k)
             m == Len(s)
             d == f - 1
  <1> HIDE DEF p, l, q, c, m
  <1>6. CASE k = 1
    <2>1. cs[k] = p /\ q = 1 /\ f = 1 /\ c = l
      BY <1>1, <1>5, <1>6 DEF Start, q, l, c
    <2>2. \A j \in 1 .. l : j \in 1 .. m /\ s[j] = p[j]
      <3>1. \A j \in 1 .. l : q + j - 1 = j
        BY <1>1, <2>1
      <3>2. QED
        BY <1>3, <2>1, <3>1 DEF m
    <2>3. d + l <= m /\ \A j \in 1 .. l : s[d + j] = p[j]
      <3>1. l = 0 \/ l \in 1 .. l
        BY <1>1
      <3>2. l <= m
        BY <1>1, <1>2, <2>2, <3>1 DEF m
      <3>3. d = 0
        BY <2>1
      <3>4. \A j \in 1 .. l : 0 + j = j
        BY <1>1
      <3>5. QED
        BY <1>1, <2>2, <3>2, <3>3, <3>4
    <2>4. StandsAt(s, d, p)
      BY <2>3 DEF StandsAt, l, m
    <2>5. d \in Nat /\ f \in Nat /\ pos[k + 1] = f + l
      BY <1>1, <1>4, <2>1
    <2>6. QED
      BY <1>2, <1>4, <1>6, <2>4, <2>5 DEF p, l, q, s
  <1>7. CASE k # 1
    <2>1. /\ cs[k] = <<sep>> \o p /\ f = q + 1 /\ d = q
          /\ c = l + 1
          /\ cs[k][1] = sep
          /\ \A j \in 1 .. l : cs[k][j + 1] = p[j]
      <3>1. cs[k] = <<sep>> \o p /\ f = q + 1
        BY <1>1, <1>7 DEF Start, q
      <3>2. d = q
        BY <1>4, <3>1
      <3>3. /\ Len(<<sep>> \o p) = l + 1
            /\ (<<sep>> \o p)[1] = sep
            /\ \A j \in 1 .. l : (<<sep>> \o p)[j + 1] = p[j]
        BY <1>1 DEF l
      <3>4. QED
        BY <3>1, <3>2, <3>3 DEF c
    <2> HIDE DEF f, d
    <2>2. pos[k + 1] = f + l /\ f \in Nat /\ d \in Nat
      BY <1>1, <1>4, <2>1
    <2>3. q \in 1 .. m /\ s[q] = sep
      <3>1. 1 \in 1 .. c /\ q + 1 - 1 = q
        BY <1>1, <1>4, <2>1
      <3>2. QED
        BY <1>3, <2>1, <3>1 DEF m
    <2>4. \A j \in 1 .. l : q + j \in 1 .. m /\ s[q + j] = p[j]
      <3>1. \A j \in 1 .. l : j + 1 \in 1 .. c /\ q + (j + 1) - 1 = q + j
        BY <1>1, <1>4, <2>1
      <3>2. QED
        BY <1>3, <2>1, <3>1 DEF m
    <2>5. q + l <= m
      <3>1. l = 0 \/ l \in 1 .. l
        BY <1>1
      <3>2. QED
        <4>1. m \in Nat
          BY <1>2 DEF m
        <4>2. CASE l = 0
          BY <1>4, <2>3, <4>1, <4>2
        <4>3. CASE l \in 1 .. l
          <5>1. q + l \in 1 .. m
            BY <2>4, <4>3
          <5>2. QED
            BY <4>1, <5>1
        <4>4. QED
          BY <3>1, <4>2, <4>3
    <2>6. StandsAt(s, d, p)
      BY <2>1, <2>4, <2>5 DEF StandsAt, l, m
    <2>7. QED
      BY <1>2, <1>4, <1>7, <2>1, <2>2, <2>3, <2>6 DEF p, l, q, s, f, d, m
  <1>8. QED
    BY <1>6, <1>7

-----------------------------------------------------------------------------
(* Components *)

(* What String writes for a value of a type.                               *)
Prefix(t) == Key[t] \o <<"=">>

Part(c) == Prefix(c.type) \o escapeAttributeValue(c.value)

(* Types are written with letters that nothing escapes, and end at the     *)
(* equals sign.                                                            *)
LEMMA PlainCharacters ==
    /\ {"C", "N", "O", "U", "L", "S", "T", "="} \cap (Reserved \cup {" ", "#"}) = {}
    /\ "=" \notin {"C", "N", "O", "U", "L", "S", "T"}
  <1>1. \A c \in {"C", "N", "O", "U", "L", "S", "T", "="} : c \notin Reserved \cup {" ", "#"}
    BY Zenon DEF Reserved
  <1>2. QED
    BY <1>1

Letters == {"C", "N", "O", "U", "L", "S", "T"}

(* A type is written with one letter at least.                             *)
LEMMA KeyFacts ==
    ASSUME NEW t \in DOMAIN Key
    PROVE  /\ Key[t] \in Seq(Characters)
           /\ Key[t] \in Seq(Letters)
           /\ Len(Key[t]) \in Nat /\ Len(Key[t]) >= 1
  <1>1. Key[t] \in Seq(Characters)
    BY CharactersAssumption
  <1>2. \E x, y \in Letters : Key[t] = <<x>> \/ Key[t] = <<x, y>>
    BY DEF Key, Letters
  <1>3. \A x, y \in Letters :
           /\ <<x>> \in Seq(Letters) /\ <<x>> # <<>>
           /\ <<x, y>> \in Seq(Letters) /\ <<x, y>> # <<>>
    OBVIOUS
  <1>4. Key[t] \in Seq(Letters) /\ Key[t] # <<>>
    BY <1>2, <1>3, Zenon
  <1>5. QED
    BY <1>1, <1>4

(* A text without separators, escapes and spaces. *)
PlainText(w) == \A j \in 1 .. Len(w) : w[j] \notin Reserved \cup {" ", "#"}

(* What comes before a value: the type, in which there is no equals sign,  *)
(* and the equals sign.                                                    *)
LEMMA PrefixFacts ==
    ASSUME NEW t \in DOMAIN Key
    PROVE  /\ Prefix(t) \in Seq(Characters)
           /\ Len(Prefix(t)) \in Nat
           /\ Len(Key[t]) \in Nat /\ Len(Key[t]) >= 1
           /\ Len(Prefix(t)) = Len(Key[t]) + 1
           /\ Prefix(t)[Len(Key[t]) + 1] = "="
           /\ \A j \in 1 .. Len(Key[t]) : Prefix(t)[j] = Key[t][j] /\ Key[t][j] # "="
           /\ PlainText(Prefix(t))
  <1> DEFINE k == Key[t]
             l == Len(k)
  <1>1. k \in Seq(Characters) /\ k \in Seq(Letters) /\ l \in Nat /\ l >= 1
    BY KeyFacts
  <1>2. "=" \in Characters
    BY CharactersAssumption
  <1> HIDE DEF k
  <1>3. /\ k \o <<"=">> \in Seq(Characters)
        /\ Len(k \o <<"=">>) = l + 1
        /\ (k \o <<"=">>)[l + 1] = "="
        /\ \A j \in 1 .. l : (k \o <<"=">>)[j] = k[j]
    BY <1>1, <1>2
  <1>4. \A j \in 1 .. l : k[j] \in Letters
    BY <1>1
  <1>5. \A c \in Letters : c # "=" /\ c \notin Reserved \cup {" ", "#"}
    BY PlainCharacters DEF Letters
  <1>6. "=" \notin Reserved \cup {" ", "#"}
    BY PlainCharacters
  <1> DEFINE w == k \o <<"=">>
  <1>7. \A j \in 1 .. l + 1 : w[j] \notin Reserved \cup {" ", "#"}
    <2> HIDE DEF l, w
    <2>1. \A j \in 1 .. l + 1 : j \in 1 .. l \/ j = l + 1
      BY <1>1
    <2>2. QED
      BY <1>3, <1>4, <1>5, <1>6, <2>1 DEF w
  <1>8. Prefix(t) = w
    BY DEF Prefix, k
  <1>9. Len(w) \in Nat /\ Len(w) = l + 1
    BY <1>1, <1>3
  <1> HIDE DEF w, l
  <1>10. PlainText(w)
    BY <1>7, <1>9 DEF PlainText
  <1>11. \A j \in 1 .. l : w[j] = k[j] /\ k[j] # "="
    BY <1>3, <1>4, <1>5 DEF w
  <1>12. w \in Seq(Characters) /\ w[l + 1] = "="
    BY <1>3 DEF w
  <1>13. QED
    BY <1>1, <1>8, <1>9, <1>10, <1>11, <1>12 DEF k, l

(* What stands somewhere stands there piece by piece.                      *)
LEMMA StandsAtSplit ==
    ASSUME NEW s \in Seq(Characters), NEW d \in Nat,
           NEW a \in Seq(Characters), NEW b \in Seq(Characters), StandsAt(s, d, a \o b)
    PROVE  StandsAt(s, d, a) /\ StandsAt(s, d + Len(a), b)
  <1> DEFINE l == Len(a)
             m == Len(b)
             n == Len(s)
  <1>1. l \in Nat /\ m \in Nat /\ n \in Nat
    OBVIOUS
  <1>2. /\ a \o b \in Seq(Characters)
        /\ Len(a \o b) = l + m
        /\ \A j \in 1 .. l : (a \o b)[j] = a[j]
        /\ \A j \in 1 .. m : (a \o b)[l + j] = b[j]
    OBVIOUS
  <1> DEFINE c == a \o b
  <1>3. d + (l + m) <= n /\ \A j \in 1 .. l + m : s[d + j] = c[j]
    BY <1>2 DEF StandsAt
  <1> HIDE DEF l, m, n, c
  <1>4. d + l <= n /\ (d + l) + m <= n
    BY <1>1, <1>3
  <1>5. \A j \in 1 .. l : s[d + j] = a[j]
    <2>1. \A j \in 1 .. l : j \in 1 .. l + m
      BY <1>1
    <2>2. QED
      BY <1>2, <1>3, <2>1 DEF c
  <1>6. \A j \in 1 .. m : s[(d + l) + j] = b[j]
    <2>1. \A j \in 1 .. m : l + j \in 1 .. l + m /\ (d + l) + j = d + (l + j)
      BY <1>1
    <2>2. QED
      BY <1>2, <1>3, <2>1 DEF c
  <1>7. QED
    BY <1>4, <1>5, <1>6 DEF StandsAt, l, m, n

(* Plain text has no separators, and the character after it is not         *)
(* escaped.                                                                *)
LEMMA PlainRun ==
    ASSUME NEW s \in Seq(Characters), NEW d \in Nat, NEW w \in Seq(Characters),
           NEW sep \in Reserved, StandsAt(s, d, w), Free(s, d + 1), PlainText(w)
    PROVE  Quiet(s, sep, d + 1, d + Len(w) + 1) /\ Free(s, d + Len(w) + 1)
  <1> DEFINE l == Len(w)
  <1>1. l \in Nat
    OBVIOUS
  <1>2. \A j \in 1 .. l : d + j \in 1 .. Len(s) /\ s[d + j] = w[j]
    BY StandsAtFacts
  <1>3. \A j \in 1 .. l : d + j \in 1 .. Len(s) /\ s[d + j] \notin Reserved
    BY <1>2 DEF PlainText
  <1> HIDE DEF l
  <1>4. \A j \in 1 .. l : d + j \notin Separators(s, sep) /\ Free(s, (d + j) + 1)
    BY <1>3, BackslashIsReserved, PlainCharacter
  <1>5. Quiet(s, sep, d + 1, d + l + 1)
    <2>1. \A i \in d + 1 .. (d + l + 1) - 1 : i - d \in 1 .. l /\ d + (i - d) = i
      BY <1>1
    <2>2. \A i \in d + 1 .. (d + l + 1) - 1 : i \notin Separators(s, sep)
      BY <1>4, <2>1
    <2>3. QED
      BY <2>2 DEF Quiet
  <1>6. Free(s, d + l + 1)
    <2>1. l = 0 \/ l \in 1 .. l
      BY <1>1
    <2>2. CASE l = 0
      BY <2>2
    <2>3. CASE l \in 1 .. l
      BY <1>4, <2>3
    <2>4. QED
      BY <2>1, <2>2, <2>3
  <1>7. QED
    BY <1>5, <1>6 DEF l

(* Two stretches without separators make one.                              *)
LEMMA QuietJoin ==
    ASSUME NEW s, NEW sep, NEW a \in Int, NEW b \in Int, NEW c \in Int,
           Quiet(s, sep, a, b), Quiet(s, sep, b, c)
    PROVE  Quiet(s, sep, a, c)
  <1>1. \A i \in a .. c - 1 : i \in a .. b - 1 \/ i \in b .. c - 1
    OBVIOUS
  <1>2. QED
    BY <1>1 DEF Quiet

(* A part that String writes is a text.                                    *)
LEMMA PartType ==
    ASSUME NEW c \in Pair
    PROVE  /\ c.type \in DOMAIN Key /\ c.value \in Seq(Characters)
           /\ escapeAttributeValue(c.value) \in Seq(Characters)
           /\ Part(c) \in Seq(Characters)
  <1>1. c.type \in DOMAIN Key /\ c.value \in Seq(Characters)
    BY DEF Pair
  <1>2. PICK pos : Positions(Chunks(c.value), pos)
    BY <1>1, ChunkFacts, PositionsExist
  <1>3. LaidOut(Characters, Chunks(c.value), pos, Len(Chunks(c.value)), FlattenSeq(Chunks(c.value)))
    BY <1>1, <1>2, ChunkFacts, Layout
  <1>4. escapeAttributeValue(c.value) \in Seq(Characters)
    BY <1>1, <1>3, ChunkFacts DEF LaidOut
  <1>5. Prefix(c.type) \in Seq(Characters)
    BY <1>1, PrefixFacts
  <1>6. QED
    BY <1>1, <1>4, <1>5 DEF Part

(* A part holds no separator, and what follows it is not escaped.          *)
LEMMA QuietPart ==
    ASSUME NEW s \in Seq(Characters), NEW d \in Nat, NEW c \in Pair,
           NEW sep \in Reserved \ {"\\"}, StandsAt(s, d, Part(c)), Free(s, d + 1)
    PROVE  /\ Quiet(s, sep, d + 1, d + Len(Part(c)) + 1)
           /\ Free(s, d + Len(Part(c)) + 1)
  <1> DEFINE w == Prefix(c.type)
             e == escapeAttributeValue(c.value)
             l == Len(w)
             m == Len(e)
  <1>1. /\ w \in Seq(Characters) /\ e \in Seq(Characters) /\ l \in Nat /\ m \in Nat
        /\ c.value \in Seq(Characters)
        /\ PlainText(w)
    <2>1. c.type \in DOMAIN Key /\ c.value \in Seq(Characters) /\ e \in Seq(Characters)
      BY PartType
    <2>2. QED
      BY <2>1, PrefixFacts
  <1>2. Len(Part(c)) = l + m
    BY <1>1 DEF Part
  <1>3. StandsAt(s, d, w) /\ StandsAt(s, d + l, e)
    <2>1. StandsAt(s, d, w \o e)
      BY DEF Part
    <2> HIDE DEF w, e
    <2>2. QED
      BY <1>1, <2>1, StandsAtSplit DEF l
  <1> HIDE DEF w
  <1>4. Quiet(s, sep, d + 1, d + l + 1) /\ Free(s, d + l + 1)
    BY <1>1, <1>3, PlainRun DEF l
  <1>5. Quiet(s, sep, (d + l) + 1, (d + l) + m + 1) /\ Free(s, (d + l) + m + 1)
    <2>1. d + l \in Nat
      BY <1>1
    <2> HIDE DEF l
    <2>2. QED
      BY <1>1, <1>3, <1>4, <2>1, EscapedValue
  <1> HIDE DEF l, m, e
  <1>6. d + 1 \in Int /\ d + l + 1 \in Int /\ (d + l) + m + 1 \in Int /\ (d + l) + m + 1 = d + (l + m) + 1
    BY <1>1
  <1>7. Quiet(s, sep, d + 1, (d + l) + m + 1)
    BY <1>4, <1>5, <1>6, QuietJoin
  <1>8. QED
    BY <1>2, <1>5, <1>6, <1>7

-----------------------------------------------------------------------------
(* Splitting what was joined                                               *)

(* What stands somewhere is the substring at that place.                   *)
LEMMA StandsSubSeq ==
    ASSUME NEW s \in Seq(Characters), NEW d \in Nat, NEW e \in Seq(Characters), StandsAt(s, d, e)
    PROVE  SubSeq(s, d + 1, d + Len(e)) = e
  <1> DEFINE l == Len(e)
             a == d + 1
             b == d + l
             w == SubSeq(s, a, b)
  <1>1. /\ l \in Nat /\ Len(s) \in Nat /\ d + l <= Len(s)
        /\ \A j \in 1 .. l : s[d + j] = e[j]
    BY DEF StandsAt
  <1> HIDE DEF l
  <1>2. a \in Nat \ {0} /\ b \in 0 .. Len(s)
    BY <1>1
  <1>3. a = d + 1 /\ b = d + l
    OBVIOUS
  <1> HIDE DEF a, b
  <1>4. /\ w \in Seq(Characters)
        /\ Len(w) = IF a <= b THEN b - a + 1 ELSE 0
        /\ \A j \in 1 .. Len(w) : w[j] = s[a + j - 1]
    BY <1>2, SubSeqFacts
  <1> HIDE DEF w
  <1>5. Len(w) = l
    BY <1>1, <1>3, <1>4
  <1>6. \A j \in 1 .. l : a + j - 1 = d + j
    BY <1>1, <1>3
  <1>7. \A j \in 1 .. l : w[j] = e[j]
    BY <1>1, <1>4, <1>5, <1>6
  <1>8. w = e
    BY <1>4, <1>5, <1>7, SameSequence DEF l
  <1>9. QED
    BY <1>8 DEF w, l, a, b

(* The first k parts are the first k - 1 and the next.                     *)
LEMMA SubSeqNext ==
    ASSUME NEW S, NEW parts \in Seq(S), NEW k \in 1 .. Len(parts)
    PROVE  Append(SubSeq(parts, 1, k - 1), parts[k]) = SubSeq(parts, 1, k)
  <1> DEFINE a == SubSeq(parts, 1, k - 1)
             b == SubSeq(parts, 1, k)
  <1>1. k \in Nat /\ k >= 1 /\ Len(parts) \in Nat /\ parts[k] \in S
        /\ k - 1 \in 0 .. Len(parts) /\ k \in 0 .. Len(parts) /\ 1 \in Nat \ {0}
    OBVIOUS
  <1>2. /\ a \in Seq(S) /\ Len(a) = k - 1 /\ \A j \in 1 .. k - 1 : a[j] = parts[j]
        /\ b \in Seq(S) /\ Len(b) = k /\ \A j \in 1 .. k : b[j] = parts[j]
    BY <1>1
  <1> HIDE DEF a, b
  <1>3. /\ Append(a, parts[k]) \in Seq(S)
        /\ Len(Append(a, parts[k])) = k
        /\ \A j \in 1 .. k - 1 : Append(a, parts[k])[j] = a[j]
        /\ Append(a, parts[k])[k] = parts[k]
    BY <1>1, <1>2
  <1>4. \A j \in 1 .. k : j \in 1 .. k - 1 \/ j = k
    BY <1>1
  <1>5. Append(a, parts[k]) = b
    BY <1>2, <1>3, <1>4, SameSequence
  <1>6. QED
    BY <1>5 DEF a, b

(* Where parts were joined there are separators, and nowhere else.         *)
Parts(pairs) == [k \in DOMAIN pairs |-> Part(pairs[k])]

(* The parts of a name are texts.                                          *)
LEMMA PartsType ==
    ASSUME NEW pairs \in Seq(Pair)
    PROVE  /\ Parts(pairs) \in Seq(Seq(Characters))
           /\ Len(Parts(pairs)) = Len(pairs) /\ Len(pairs) \in Nat
           /\ \A k \in 1 .. Len(pairs) : pairs[k] \in Pair /\ Parts(pairs)[k] = Part(pairs[k])
  <1>1. DOMAIN pairs = 1 .. Len(pairs) /\ Len(pairs) \in Nat /\ \A k \in 1 .. Len(pairs) : pairs[k] \in Pair
    OBVIOUS
  <1>2. \A k \in 1 .. Len(pairs) : Part(pairs[k]) \in Seq(Characters)
    BY <1>1, PartType
  <1>3. Parts(pairs) \in [1 .. Len(pairs) -> Seq(Characters)]
    BY <1>1, <1>2 DEF Parts
  <1>4. \A k \in 1 .. Len(pairs) : Parts(pairs)[k] = Part(pairs[k])
    BY <1>1 DEF Parts
  <1>5. QED
    BY <1>1, <1>3, <1>4

(* What is found between one joint and the next. *)
Joint(s, sep, pos, k) ==
    /\ Quiet(s, sep, Start(pos, k), pos[k + 1])
    /\ Free(s, pos[k + 1])

(* One part in the text: if it begins at a character that is not escaped,  *)
(* then it is cut out whole, there is no separator in it, and the          *)
(* separator after it is not escaped.                                      *)
LEMMA OneJoint ==
    ASSUME NEW pairs \in Seq(Pair), NEW sep \in Reserved \ {"\\"}, sep \in Characters, NEW pos,
           Positions(Joined(Parts(pairs), sep), pos), NEW k \in 1 .. Len(pairs),
           Free(Join(Parts(pairs), sep), Start(pos, k))
    PROVE  Joint(Join(Parts(pairs), sep), sep, pos, k)
  <1> DEFINE s == Join(Parts(pairs), sep)
             d == Start(pos, k) - 1
             p == Parts(pairs)[k]
  <1>1. /\ Parts(pairs) \in Seq(Seq(Characters)) /\ k \in 1 .. Len(Parts(pairs))
        /\ pairs[k] \in Pair /\ p = Part(pairs[k])
    BY PartsType
  <1>2. /\ s \in Seq(Characters)
        /\ d \in Nat /\ Start(pos, k) \in Nat
        /\ pos[k + 1] = Start(pos, k) + Len(p)
        /\ StandsAt(s, d, p)
    BY <1>1, PartStands
  <1>3. Free(s, Start(pos, k))
    OBVIOUS
  <1> HIDE DEF s
  <1>4. Start(pos, k) = d + 1
    BY <1>2
  <1> DEFINE a == Start(pos, k)
  <1> HIDE DEF a, d
  <1>5. Quiet(s, sep, d + 1, d + Len(p) + 1) /\ Free(s, d + Len(p) + 1)
    <2>1. StandsAt(s, d, Part(pairs[k])) /\ Free(s, d + 1)
      BY <1>1, <1>2, <1>3, <1>4 DEF a
    <2>2. QED
      BY <1>1, <1>2, <2>1, QuietPart
  <1>6. d + Len(p) + 1 = pos[k + 1]
    <2>1. Len(p) \in Nat
      BY <1>1, PartType
    <2> HIDE DEF p
    <2>2. QED
      BY <1>2, <1>4, <2>1
  <1>7. QED
    BY <1>4, <1>5, <1>6 DEF Joint, s, a

(* No part begins at a character that is escaped: by induction over the    *)
(* parts before it.                                                        *)
LEMMA FreeAtJoint ==
    ASSUME NEW pairs \in Seq(Pair), NEW sep \in Reserved \ {"\\"}, sep \in Characters, NEW pos,
           Positions(Joined(Parts(pairs), sep), pos), NEW k \in 1 .. Len(pairs)
    PROVE  Free(Join(Parts(pairs), sep), Start(pos, k))
  <1> DEFINE s == Join(Parts(pairs), sep)
             m == Len(pairs)
             T == {i \in 1 .. m : Free(s, Start(pos, i))}
  <1>1. m \in Nat /\ k \in Nat /\ 1 \in 1 .. m
    BY PartsType
  <1>2. 1 \in T
    <2>1. Backslashes(s, 1) % 2 = 0
      BY NoBackslashYet
    <2>2. QED
      BY <1>1, <2>1 DEF Free, Start
  <1>3. ASSUME NEW i \in 1 .. m - 1, i \in T
        PROVE  i + 1 \in T
    <2>1. i \in 1 .. m /\ i + 1 \in 1 .. m /\ i + 1 > 1
      BY <1>1
    <2>2. Joint(s, sep, pos, i)
      BY <1>3, <2>1, OneJoint
    <2>3. /\ s \in Seq(Characters)
          /\ pos[i + 1] \in 1 .. Len(s) /\ s[pos[i + 1]] = sep
          /\ Start(pos, i + 1) = pos[i + 1] + 1
      <3> DEFINE q == i + 1
      <3>1. Parts(pairs) \in Seq(Seq(Characters)) /\ q \in 1 .. Len(Parts(pairs)) /\ q > 1
        BY <2>1, PartsType
      <3> HIDE DEF m, q, T
      <3>2. /\ s \in Seq(Characters)
            /\ pos[q] \in 1 .. Len(s) /\ s[pos[q]] = sep
            /\ Start(pos, q) = pos[q] + 1
        BY <3>1, PartStands
      <3>3. QED
        BY <3>2 DEF q
    <2> HIDE DEF s
    <2>4. Backslashes(s, pos[i + 1] + 1) = 0
      BY <2>3, BackslashRun
    <2>5. QED
      BY <2>1, <2>3, <2>4 DEF Free
  <1>4. k \in T
    <2> HIDE DEF T, m
    <2>1. 1 \in Int /\ m \in Int /\ k \in 1 .. m
      BY <1>1 DEF m
    <2>2. QED
      BY <1>2, <1>3, <2>1, Upwards
  <1>5. QED
    BY <1>4

(* So every part is cut out whole, and the joints are the only separators. *)
LEMMA Joints ==
    ASSUME NEW pairs \in Seq(Pair), NEW sep \in Reserved \ {"\\"}, sep \in Characters, NEW pos,
           Positions(Joined(Parts(pairs), sep), pos), NEW k \in 1 .. Len(pairs)
    PROVE  LET s == Join(Parts(pairs), sep)
           IN  /\ s \in Seq(Characters)
               /\ Start(pos, k) \in Nat /\ Start(pos, k) >= 1
               /\ pos[k + 1] \in Nat
               /\ Start(pos, k) <= pos[k + 1]
               /\ SubSeq(s, Start(pos, k), pos[k + 1] - 1) = Parts(pairs)[k]
               /\ Quiet(s, sep, Start(pos, k), pos[k + 1])
               /\ k < Len(pairs) => /\ pos[k + 1] \in 1 .. Len(s)
                                    /\ pos[k + 1] \in Separators(s, sep)
                                    /\ Start(pos, k + 1) = pos[k + 1] + 1
               /\ k = Len(pairs) => pos[k + 1] = Len(s) + 1
  <1> DEFINE s == Join(Parts(pairs), sep)
             m == Len(pairs)
             cs == Joined(Parts(pairs), sep)
             f == Start(pos, k)
             p == Parts(pairs)[k]
             e == pos[k + 1]
  <1>1. /\ Parts(pairs) \in Seq(Seq(Characters))
        /\ Len(Parts(pairs)) = m /\ m \in Nat /\ k \in 1 .. m
        /\ p \in Seq(Characters)
    <2>1. Parts(pairs) \in Seq(Seq(Characters)) /\ Len(Parts(pairs)) = m /\ m \in Nat /\ k \in 1 .. m
      BY PartsType
    <2>2. QED
      BY <2>1
  <1>2. cs \in Seq(Seq(Characters)) /\ Len(cs) = m /\ s = FlattenSeq(cs)
    BY <1>1, JoinedFacts
  <1>3. Free(s, f)
    BY FreeAtJoint
  <1>4. Joint(s, sep, pos, k)
    BY <1>3, OneJoint
  <1>5. /\ s \in Seq(Characters)
        /\ f - 1 \in Nat /\ f \in Nat
        /\ e = f + Len(p)
        /\ StandsAt(s, f - 1, p)
    BY <1>1, PartStands
  <1>6. ASSUME k < m
        PROVE  e \in 1 .. Len(s) /\ s[e] = sep /\ Start(pos, k + 1) = e + 1
    <2> DEFINE q == k + 1
    <2>1. q \in 1 .. Len(Parts(pairs)) /\ q > 1
      BY <1>1, <1>6
    <2> HIDE DEF q, m, f, p, cs
    <2>2. /\ pos[q] \in 1 .. Len(s) /\ s[pos[q]] = sep
          /\ Start(pos, q) = pos[q] + 1
      BY <1>1, <2>1, PartStands
    <2>3. QED
      BY <2>2 DEF q
  <1>7. Len(s) = pos[m + 1] - 1
    <2>1. LaidOut(Characters, cs, pos, Len(cs), FlattenSeq(cs))
      BY <1>2, Layout
    <2> HIDE DEF s, cs
    <2>2. QED
      BY <1>2, <2>1 DEF LaidOut
  <1>8. Quiet(s, sep, f, e) /\ Free(s, e)
    BY <1>4 DEF Joint
  <1> HIDE DEF s, f, p, e, cs, m
  <1>9. Len(p) \in Nat /\ e \in Nat /\ f >= 1 /\ f <= e
    BY <1>1, <1>5
  <1>10. SubSeq(s, f, e - 1) = p
    <2>1. SubSeq(s, (f - 1) + 1, (f - 1) + Len(p)) = p
      BY <1>1, <1>5, StandsSubSeq
    <2>2. (f - 1) + 1 = f /\ (f - 1) + Len(p) = e - 1
      BY <1>5, <1>9
    <2>3. QED
      BY <2>1, <2>2, Zenon
  <1>11. k < m => e \in Separators(s, sep)
    <2>1. DOMAIN s = 1 .. Len(s)
      BY <1>5
    <2>2. QED
      BY <1>6, <1>8, <2>1 DEF Separators, Free
  <1>12. k = m => e = Len(s) + 1
    <2>1. Len(s) \in Nat
      BY <1>5
    <2>2. k = m => Len(s) = e - 1
      BY <1>7 DEF e
    <2>3. QED
      BY <1>9, <2>1, <2>2
  <1>13. QED
    BY <1>5, <1>6, <1>8, <1>9, <1>10, <1>11, <1>12 DEF s, f, p, e, m

(* The rounds from the beginning of a part to the separator after it.      *)
Clear(positions, a, b) == \A i \in a .. b - 1 : i \notin positions

PartEnds(s, acc, a, b) ==
    acc[b] = [parts |-> Append(acc[a - 1].parts, SubSeq(s, acc[a - 1].start, b - 1)),
              start |-> b + 1]

(* Nothing is cut before the separator, and there the part is complete.    *)
LEMMA RoundsOfPart ==
    ASSUME NEW s \in Seq(Characters), NEW positions, NEW acc, Rounds(s, positions, acc),
           NEW a \in 1 .. Len(s), NEW b \in a .. Len(s), Clear(positions, a, b), b \in positions
    PROVE  PartEnds(s, acc, a, b)
  <1> DEFINE c == a - 1
             d == b - 1
  <1>1. /\ Len(s) \in Nat /\ c \in 0 .. Len(s) /\ d \in c .. Len(s)
        /\ b \in 1 .. Len(s) /\ \A i \in c + 1 .. d : i \in a .. b - 1
    OBVIOUS
  <1>2. \A i \in c + 1 .. d : i \notin positions
    BY <1>1 DEF Clear
  <1> HIDE DEF c
  <1>3. acc[d] = acc[c]
    <2> HIDE DEF d
    <2>1. QED
      BY <1>1, <1>2, RoundsStay
  <1>4. acc[b] = CutOne(s, positions, acc[d], b)
    BY <1>1 DEF Rounds
  <1>5. QED
    BY <1>3, <1>4 DEF CutOne, PartEnds, c

(* When the loop reaches a part, the parts before it are complete.         *)
RoundAt(parts, pos, acc, k) ==
    acc[Start(pos, k) - 1] = [parts |-> SubSeq(parts, 1, k - 1), start |-> Start(pos, k)]

(* By induction over the parts: the loop completes each of them.           *)
LEMMA RoundsReachParts ==
    ASSUME NEW pairs \in Seq(Pair), NEW sep \in Reserved \ {"\\"}, sep \in Characters, NEW pos,
           Positions(Joined(Parts(pairs), sep), pos), NEW acc,
           Rounds(Join(Parts(pairs), sep), Separators(Join(Parts(pairs), sep), sep), acc),
           NEW k \in 1 .. Len(pairs)
    PROVE  RoundAt(Parts(pairs), pos, acc, k)
  <1> DEFINE s == Join(Parts(pairs), sep)
             m == Len(pairs)
             parts == Parts(pairs)
             positions == Separators(s, sep)
             T == {i \in 1 .. m : RoundAt(parts, pos, acc, i)}
  <1>1. /\ m \in Nat /\ k \in 1 .. m /\ 1 \in 1 .. m
        /\ parts \in Seq(Seq(Characters)) /\ Len(parts) = m
    BY PartsType
  <1>2. 1 \in T
    <2>1. acc[0] = [parts |-> <<>>, start |-> 1]
      BY DEF Rounds
    <2> HIDE DEF parts, s, positions
    <2>2. SubSeq(parts, 1, 1 - 1) = <<>> /\ Start(pos, 1) = 1 /\ 1 - 1 = 0
      BY <1>1 DEF Start
    <2>3. RoundAt(parts, pos, acc, 1)
      BY <2>1, <2>2, Zenon DEF RoundAt
    <2>4. QED
      BY <1>1, <2>3
  <1>3. ASSUME NEW i \in 1 .. m - 1, i \in T
        PROVE  i + 1 \in T
    <2> DEFINE a == Start(pos, i)
               b == pos[i + 1]
    <2>1. i \in 1 .. m /\ i + 1 \in 1 .. m /\ i < m /\ (i + 1) - 1 = i
      BY <1>1
    <2>2. /\ s \in Seq(Characters)
          /\ a \in Nat /\ a >= 1 /\ b \in Nat /\ a <= b
          /\ SubSeq(s, a, b - 1) = parts[i]
          /\ Quiet(s, sep, a, b)
          /\ b \in 1 .. Len(s) /\ b \in positions /\ Start(pos, i + 1) = b + 1
      BY <2>1, Joints
    <2>3. Rounds(s, positions, acc)
      OBVIOUS
    <2>4. RoundAt(parts, pos, acc, i)
      BY <1>3
    <2>5. Clear(positions, a, b)
      BY <2>2 DEF Quiet, Clear
    <2>6. a \in 1 .. Len(s) /\ b \in a .. Len(s)
      <3> HIDE DEF s, a, b
      <3>1. Len(s) \in Nat
        BY <2>2
      <3>2. QED
        BY <2>2, <3>1
    <2> HIDE DEF s, positions, a, b, parts, m
    <2>7. PartEnds(s, acc, a, b)
      BY <2>2, <2>3, <2>5, <2>6, RoundsOfPart
    <2>8. acc[a - 1].parts = SubSeq(parts, 1, i - 1) /\ acc[a - 1].start = a
      BY <2>4 DEF RoundAt, a
    <2>9. Append(SubSeq(parts, 1, i - 1), parts[i]) = SubSeq(parts, 1, i)
      BY <1>1, <2>1, SubSeqNext
    <2>10. acc[b] = [parts |-> SubSeq(parts, 1, i), start |-> b + 1]
      BY <2>2, <2>7, <2>8, <2>9, Zenon DEF PartEnds
    <2>11. (b + 1) - 1 = b
      BY <2>2
    <2>12. RoundAt(parts, pos, acc, i + 1)
      BY <2>1, <2>2, <2>10, <2>11, Zenon DEF RoundAt
    <2>13. QED
      BY <2>1, <2>12
  <1>4. k \in T
    <2> HIDE DEF T, m
    <2>1. 1 \in Int /\ m \in Int
      BY <1>1
    <2>2. QED
      BY <1>1, <1>2, <1>3, <2>1, Upwards
  <1>5. QED
    BY <1>4

(* Splitting undoes joining.                                               *)
LEMMA JoinSplit ==
    ASSUME NEW pairs \in Seq(Pair), pairs # <<>>, NEW sep \in Reserved \ {"\\"}, sep \in Characters
    PROVE  splitUnescaped(Join(Parts(pairs), sep), sep) = Parts(pairs)
  <1> DEFINE s == Join(Parts(pairs), sep)
             m == Len(pairs)
             parts == Parts(pairs)
             positions == Separators(s, sep)
  <1>1. /\ m \in Nat /\ m \in 1 .. m
        /\ parts \in Seq(Seq(Characters)) /\ Len(parts) = m
    <2>1. m \in Nat /\ m # 0
      OBVIOUS
    <2>2. QED
      BY <2>1, PartsType
  <1>2. PICK pos : Positions(Joined(parts, sep), pos)
    <2>1. Joined(parts, sep) \in Seq(Seq(Characters))
      BY <1>1, JoinedFacts
    <2>2. QED
      BY <2>1, PositionsExist
  <1> DEFINE f == Start(pos, m)
             e == pos[m + 1]
  <1>3. /\ s \in Seq(Characters)
        /\ f \in Nat /\ f >= 1 /\ e \in Nat /\ f <= e
        /\ SubSeq(s, f, e - 1) = parts[m]
        /\ Quiet(s, sep, f, e)
        /\ e = Len(s) + 1
    <2>1. PICK k \in 1 .. Len(pairs) : k = Len(pairs)
      BY <1>1
    <2> DEFINE g == Start(pos, k)
               h == pos[k + 1]
    <2>2. /\ s \in Seq(Characters)
          /\ g \in Nat /\ g >= 1 /\ h \in Nat /\ g <= h
          /\ SubSeq(s, g, h - 1) = parts[k]
          /\ Quiet(s, sep, g, h)
          /\ k = Len(pairs) => h = Len(s) + 1
      <3> HIDE DEF m
      <3>1. QED
        BY <1>2, Joints
    <2>3. k = m /\ g = f /\ h = e
      BY <2>1
    <2> HIDE DEF m, g, h, f, e, s, parts
    <2>4. QED
      BY <2>1, <2>2, <2>3
  <1>4. PICK acc : Rounds(s, positions, acc)
    BY <1>3, CutAtRounds
  <1>5. RoundAt(parts, pos, acc, m)
    BY <1>1, <1>2, <1>4, RoundsReachParts
  <1> DEFINE c == f - 1
             l == Len(s)
  <1>6. /\ l \in Nat /\ e - 1 = l
        /\ c \in 0 .. l /\ l \in c .. l
        /\ \A i \in c + 1 .. l : i \in f .. e - 1
    <2>1. l \in Nat
      BY <1>3
    <2> HIDE DEF s, f, e, l
    <2>2. e = l + 1
      BY <1>3 DEF l
    <2>3. QED
      BY <1>3, <2>1, <2>2
  <1>7. \A i \in c + 1 .. l : i \notin positions
    <2>1. \A i \in f .. e - 1 : i \notin positions
      BY <1>3 DEF Quiet
    <2>2. QED
      BY <1>6, <2>1
  <1> HIDE DEF s, positions, f, e, c, parts, m
  <1>8. acc[l] = acc[c]
    BY <1>3, <1>4, <1>6, <1>7, RoundsStay
  <1>9. acc[c] = [parts |-> SubSeq(parts, 1, m - 1), start |-> f]
    BY <1>5 DEF RoundAt, c, f
  <1>10. CutAt(s, positions) = Append(acc[l].parts, SubSeq(s, acc[l].start, l))
    BY <1>4 DEF Rounds
  <1>11. acc[l].parts = SubSeq(parts, 1, m - 1) /\ acc[l].start = f
    <2> DEFINE done == acc[l]
               before == SubSeq(parts, 1, m - 1)
    <2>1. done = [parts |-> before, start |-> f]
      BY <1>8, <1>9, Zenon
    <2> HIDE DEF done, before
    <2>2. done.parts = before /\ done.start = f
      BY <2>1
    <2>3. QED
      BY <2>2, Zenon DEF done, before
  <1>12. SubSeq(s, f, l) = parts[m]
    BY <1>3, <1>6, Zenon
  <1>13. Append(SubSeq(parts, 1, m - 1), parts[m]) = parts
    <2>1. Append(SubSeq(parts, 1, m - 1), parts[m]) = SubSeq(parts, 1, m)
      BY <1>1, SubSeqNext
    <2>2. SubSeq(parts, 1, m) = parts
      BY <1>1, WholeSubSeq
    <2>3. QED
      BY <2>1, <2>2
  <1>14. CutAt(s, positions) = parts
    BY <1>10, <1>11, <1>12, <1>13, Zenon
  <1>15. QED
    BY <1>14 DEF splitUnescaped, s, positions, parts

-----------------------------------------------------------------------------
(* Escapes are undone                                                      *)

Before(c, s) == IF s = Error THEN Error ELSE <<c>> \o s

Byte(c, d) == Bytes[16 * HexVal[c] + HexVal[d]]

(* What unescapeAttributeValue reads from a position on, given what it     *)
(* reads from the later ones.                                              *)
ReadFrom(e, i, later) ==
    IF i > Len(e) THEN <<>>
    ELSE IF e[i] # "\\" THEN Before(e[i], later[i + 1])
    ELSE IF i = Len(e) THEN Error
    ELSE IF e[i + 1] \in Escapable THEN Before(e[i + 1], later[i + 2])
    ELSE IF i + 1 < Len(e) /\ IsHex(e[i + 1]) /\ IsHex(e[i + 2])
      THEN Before(Byte(e[i + 1], e[i + 2]), later[i + 3])
    ELSE Error

Result == Seq(Characters) \cup {Error}

(* A character before what was read is something that was read.            *)
LEMMA BeforeType ==
    ASSUME NEW c \in Characters, NEW s \in Result
    PROVE  Before(c, s) \in Result
  BY DEF Before, Result

(* A pair of hexadecimal digits denotes a character.                       *)
LEMMA ByteType ==
    ASSUME NEW c, NEW d, IsHex(c), IsHex(d)
    PROVE  Byte(c, d) \in Characters
  <1>1. c \in DOMAIN HexVal /\ d \in DOMAIN HexVal
    BY DEF IsHex
  <1>2. QED
    BY <1>1, CharactersAssumption DEF Byte

(* What is read from a position on is a text or the error.                 *)
LEMMA ReadFromType ==
    ASSUME NEW e \in Seq(Characters), NEW i \in 1 .. Len(e) + 1,
           NEW later \in [1 .. Len(e) + 1 -> Result]
    PROVE  ReadFrom(e, i, later) \in Result
  <1>1. Len(e) \in Nat /\ <<>> \in Result /\ Error \in Result
    BY DEF Result
  <1>2. \A j \in 1 .. Len(e) : e[j] \in Characters
    OBVIOUS
  <1>3. CASE i > Len(e)
    BY <1>1, <1>3 DEF ReadFrom
  <1>4. CASE ~(i > Len(e)) /\ e[i] # "\\"
    <2>1. i \in 1 .. Len(e) /\ i + 1 \in 1 .. Len(e) + 1
      BY <1>1, <1>4
    <2>2. Before(e[i], later[i + 1]) \in Result
      BY <1>2, <2>1, BeforeType
    <2>3. QED
      BY <1>4, <2>2 DEF ReadFrom
  <1>5. CASE ~(i > Len(e)) /\ e[i] = "\\"
    <2>1. CASE i = Len(e)
      BY <1>1, <1>5, <2>1 DEF ReadFrom
    <2>2. CASE i # Len(e)
      <3>1. i + 1 \in 1 .. Len(e) /\ i + 2 \in 1 .. Len(e) + 1
        BY <1>1, <1>5, <2>2
      <3>2. Before(e[i + 1], later[i + 2]) \in Result
        BY <1>2, <3>1, BeforeType
      <3>3. CASE e[i + 1] \in Escapable
        BY <1>5, <2>2, <3>2, <3>3 DEF ReadFrom
      <3>4. CASE e[i + 1] \notin Escapable
        <4>1. CASE i + 1 < Len(e) /\ IsHex(e[i + 1]) /\ IsHex(e[i + 2])
          <5>1. i + 3 \in 1 .. Len(e) + 1
            BY <1>1, <4>1
          <5>2. Byte(e[i + 1], e[i + 2]) \in Characters
            BY <4>1, ByteType
          <5>3. Before(Byte(e[i + 1], e[i + 2]), later[i + 3]) \in Result
            BY <5>1, <5>2, BeforeType
          <5>4. QED
            BY <1>5, <2>2, <3>4, <4>1, <5>3 DEF ReadFrom
        <4>2. CASE ~(i + 1 < Len(e) /\ IsHex(e[i + 1]) /\ IsHex(e[i + 2]))
          BY <1>1, <1>5, <2>2, <3>4, <4>2 DEF ReadFrom
        <4>3. QED
          BY <4>1, <4>2
      <3>5. QED
        BY <3>3, <3>4
    <2>3. QED
      BY <2>1, <2>2
  <1>6. QED
    BY <1>3, <1>4, <1>5

(* It reads later positions only.                                          *)
LEMMA ReadFromLater ==
    ASSUME NEW e \in Seq(Characters), NEW i \in 1 .. Len(e) + 1, NEW g, NEW h,
           \A j \in 1 .. Len(e) + 1 : i < j => g[j] = h[j]
    PROVE  ReadFrom(e, i, g) = ReadFrom(e, i, h)
  <1>1. Len(e) \in Nat
    OBVIOUS
  <1>2. ~(i > Len(e)) => g[i + 1] = h[i + 1]
    BY <1>1
  <1>3. ~(i > Len(e)) /\ i # Len(e) => g[i + 2] = h[i + 2]
    BY <1>1
  <1>4. i + 1 < Len(e) => g[i + 3] = h[i + 3]
    BY <1>1
  <1>5. QED
    BY <1>2, <1>3, <1>4 DEF ReadFrom

Reads(e, from) ==
    /\ from \in [1 .. Len(e) + 1 -> Result]
    /\ \A i \in 1 .. Len(e) + 1 : from[i] = ReadFrom(e, i, from)
    /\ unescapeAttributeValue(e) = from[1]

(* unescapeAttributeValue reads the text from its first character on.      *)
LEMMA UnescapeReads ==
    ASSUME NEW e \in Seq(Characters)
    PROVE  \E from : Reads(e, from)
  <1> DEFINE D == 1 .. Len(e) + 1
             V == Result
             N == Len(e) + 1
             rank == [i \in D |-> N - i]
             step == [i \in D |-> [g \in [D -> V] |-> ReadFrom(e, i, g)]]
             body(f) == [i \in 1 .. Len(e) + 1 |-> ReadFrom(e, i, f)]
             from == CHOOSE f : f = body(f)
  <1>1. Len(e) \in Nat /\ N \in Nat /\ V # {} /\ 1 \in D
    BY DEF Result
  <1>2. step \in [D -> [[D -> V] -> V]]
    BY ReadFromType
  <1>3. RankedBelow(D, rank, N)
    <2>1. \A i \in D : N - i \in Nat /\ N - i < N
      BY <1>1
    <2>2. QED
      BY <2>1 DEF RankedBelow
  <1>4. LooksLower(D, V, rank, step)
    <2>1. ASSUME NEW x \in D, NEW g \in [D -> V], NEW h \in [D -> V],
                 \A y \in D : rank[y] < rank[x] => g[y] = h[y]
          PROVE  step[x][g] = step[x][h]
      <3>1. \A j \in D : x < j => rank[j] < rank[x]
        BY <1>1
      <3>2. \A j \in 1 .. Len(e) + 1 : x < j => g[j] = h[j]
        BY <2>1, <3>1
      <3>3. ReadFrom(e, x, g) = ReadFrom(e, x, h)
        BY <3>2, ReadFromLater
      <3>4. QED
        BY <3>3
    <2> HIDE DEF D, V, rank, step
    <2>2. QED
      BY <2>1 DEF LooksLower
  <1>5. PICK g \in [D -> V] : \A i \in D : g[i] = step[i][g]
    <2> HIDE DEF D, V, N, rank, step
    <2>1. HasSolution(D, V, step)
      BY <1>1, <1>2, <1>3, <1>4, Recursion
    <2>2. QED
      BY <2>1 DEF HasSolution
  <1>6. g = body(g)
    BY <1>5
  <1>7. from = body(from)
    <2> HIDE DEF body
    <2>1. QED
      BY <1>6
  <1>8. unescapeAttributeValue(e) = from[1]
    BY DEF unescapeAttributeValue, ReadFrom, Before, Byte, Escapable
  <1> HIDE DEF from
  <1> DEFINE T == {i \in D : \A j \in i .. N : from[j] \in V}
  <1>9. \A i \in D : from[i] = ReadFrom(e, i, from)
    BY <1>7
  <1>10. N \in T
    <2>1. \A j \in N .. N : j = N /\ j > Len(e)
      BY <1>1
    <2>2. N \in D /\ N > Len(e) /\ <<>> \in V
      BY <1>1 DEF Result
    <2>3. from[N] = <<>>
      BY <1>9, <2>2 DEF ReadFrom
    <2>4. QED
      BY <2>1, <2>2, <2>3
  <1>11. ASSUME NEW i \in 1 .. N - 1, i + 1 \in T
         PROVE  i \in T
    <2> DEFINE h == [j \in D |-> IF i < j THEN from[j] ELSE <<>>]
    <2>1. i \in D /\ \A j \in D : i < j => j \in i + 1 .. N
      BY <1>1
    <2>2. <<>> \in V
      BY DEF Result
    <2>3. h \in [D -> V]
      BY <1>11, <2>1, <2>2
    <2>4. \A j \in D : i < j => from[j] = h[j]
      OBVIOUS
    <2> HIDE DEF h
    <2>5. ReadFrom(e, i, from) = ReadFrom(e, i, h)
      BY <2>1, <2>4, ReadFromLater
    <2>6. from[i] \in V
      BY <1>9, <2>1, <2>3, <2>5, ReadFromType
    <2>7. \A j \in i .. N : j = i \/ j \in i + 1 .. N
      BY <1>1
    <2>8. QED
      BY <1>11, <2>1, <2>6, <2>7
  <1>12. from \in [D -> V]
    <2>1. 1 .. N \subseteq T
      <3> HIDE DEF T
      <3>1. 1 \in Int /\ N \in Int
        BY <1>1
      <3> HIDE DEF N
      <3>2. QED
        BY <1>10, <1>11, <3>1, Downwards
    <2>2. \A i \in D : i \in i .. N /\ i \in 1 .. N
      BY <1>1
    <2>3. \A i \in D : from[i] \in V
      BY <2>1, <2>2
    <2>4. from = [i \in D |-> ReadFrom(e, i, from)]
      BY <1>7
    <2>5. QED
      BY <2>3, <2>4
  <1>13. QED
    BY <1>8, <1>9, <1>12 DEF Reads

(* A character before a sequence: the type, the length and the elements.   *)
LEMMA Prepend ==
    ASSUME NEW S, NEW x \in S, NEW a \in Seq(S)
    PROVE  /\ <<x>> \o a \in Seq(S)
           /\ Len(<<x>> \o a) = 1 + Len(a)
           /\ (<<x>> \o a)[1] = x
           /\ \A j \in 1 .. Len(a) : (<<x>> \o a)[1 + j] = a[j]
  OBVIOUS

(* The end of a sequence is its first element and the rest.                *)
LEMMA SubSeqTail ==
    ASSUME NEW S, NEW v \in Seq(S), NEW k \in 1 .. Len(v)
    PROVE  <<v[k]>> \o SubSeq(v, k + 1, Len(v)) = SubSeq(v, k, Len(v))
  <1> DEFINE n == Len(v)
             a == SubSeq(v, k + 1, n)
             b == SubSeq(v, k, n)
             w == <<v[k]>> \o a
  <1>1. /\ n \in Nat /\ n \in 0 .. n /\ k \in 1 .. n
        /\ k \in Nat \ {0} /\ k + 1 \in Nat \ {0} /\ v[k] \in S
    OBVIOUS
  <1>2. /\ a \in Seq(S) /\ Len(a) = n - k
        /\ \A j \in 1 .. n - k : a[j] = v[k + j]
    <2> DEFINE c == k + 1
    <2>1. c \in Nat \ {0}
      BY <1>1
    <2> HIDE DEF c, n, a
    <2>2. /\ SubSeq(v, c, n) \in Seq(S)
          /\ Len(SubSeq(v, c, n)) = IF c <= n THEN n - c + 1 ELSE 0
          /\ \A j \in 1 .. Len(SubSeq(v, c, n)) : SubSeq(v, c, n)[j] = v[c + j - 1]
      BY <1>1, <2>1, SubSeqFacts DEF n
    <2>3. a = SubSeq(v, c, n) /\ c = k + 1
      BY DEF a, c
    <2>4. Len(a) = n - k
      BY <1>1, <2>2, <2>3
    <2>5. \A j \in 1 .. n - k : c + j - 1 = k + j
      BY <1>1, <2>3
    <2>6. QED
      BY <2>2, <2>3, <2>4, <2>5
  <1>3. /\ b \in Seq(S) /\ Len(b) = n - k + 1
        /\ \A j \in 1 .. n - k + 1 : b[j] = v[k + j - 1]
    <2> HIDE DEF n, b
    <2>1. /\ SubSeq(v, k, n) \in Seq(S)
          /\ Len(SubSeq(v, k, n)) = IF k <= n THEN n - k + 1 ELSE 0
          /\ \A j \in 1 .. Len(SubSeq(v, k, n)) : SubSeq(v, k, n)[j] = v[k + j - 1]
      BY <1>1, SubSeqFacts DEF n
    <2>2. QED
      BY <1>1, <2>1 DEF b
  <1> HIDE DEF n, a, b
  <1>4. /\ w \in Seq(S) /\ Len(w) = 1 + Len(a)
        /\ w[1] = v[k]
        /\ \A j \in 1 .. Len(a) : w[1 + j] = a[j]
    <2> DEFINE x == v[k]
    <2>1. x \in S /\ a \in Seq(S)
      BY <1>1, <1>2
    <2> HIDE DEF x
    <2>2. /\ <<x>> \o a \in Seq(S)
          /\ Len(<<x>> \o a) = 1 + Len(a)
          /\ (<<x>> \o a)[1] = x
          /\ \A j \in 1 .. Len(a) : (<<x>> \o a)[1 + j] = a[j]
      BY <2>1, Prepend
    <2>3. w = <<x>> \o a
      BY DEF x
    <2> HIDE DEF w
    <2>4. QED
      BY <2>2, <2>3 DEF x
  <1> HIDE DEF w
  <1>5. Len(w) = Len(b)
    BY <1>1, <1>2, <1>3, <1>4
  <1>6. ASSUME NEW j \in 1 .. n - k + 1
        PROVE  w[j] = b[j]
    <2>1. CASE j = 1
      <3>1. b[1] = v[k]
        <4>1. k + 1 - 1 = k /\ 1 \in 1 .. n - k + 1
          BY <1>1
        <4>2. QED
          BY <1>3, <4>1
      <3>2. QED
        BY <1>4, <2>1, <3>1
    <2>2. CASE j # 1
      <3> DEFINE i == j - 1
      <3>1. i \in 1 .. n - k /\ j = 1 + i /\ k + i = k + j - 1
        BY <1>1, <2>2
      <3> HIDE DEF i
      <3>2. w[j] = a[i]
        BY <1>2, <1>4, <3>1
      <3>3. QED
        BY <1>2, <1>3, <3>1, <3>2
    <2>3. QED
      BY <2>1, <2>2
  <1>7. w = b
    BY <1>3, <1>4, <1>5, <1>6, SameSequence
  <1>8. QED
    BY <1>7 DEF n, a, b, w

(* One chunk: what is read from its beginning is its character and what is *)
(* read from its end.                                                      *)
LEMMA ChunkRead ==
    ASSUME NEW e \in Seq(Characters), NEW from, Reads(e, from),
           NEW v \in Seq(Characters), NEW k \in 1 .. Len(v), NEW i \in Nat, i >= 1,
           StandsAt(e, i - 1, Chunks(v)[k])
    PROVE  /\ i \in 1 .. Len(e)
           /\ from[i] = Before(v[k], from[i + Len(Chunks(v)[k])])
  <1> DEFINE c == Chunks(v)[k]
             l == Len(c)
  <1>1. /\ c \in Seq(Characters)
        /\ l \in Nat /\ l >= 1 /\ l <= 2
        /\ l < 2 => c[1] = v[k] /\ v[k] \notin Reserved
        /\ l > 1 => c[1] = "\\" /\ c[2] = v[k] /\ v[k] \in Escapable
    BY ChunkOf
  <1>2. StandsAt(e, i - 1, c) /\ Len(e) \in Nat
    OBVIOUS
  <1> HIDE DEF c
  <1>3. i - 1 \in Nat /\ (i - 1) + 1 = i /\ (i - 1) + 2 = i + 1
    OBVIOUS
  <1>4. \A p \in 1 .. l : (i - 1) + p \in 1 .. Len(e) /\ e[(i - 1) + p] = c[p]
    BY <1>1, <1>2, <1>3, StandsAtFacts
  <1> HIDE DEF l
  <1>5. i \in 1 .. Len(e) /\ e[i] = c[1] /\ i \in 1 .. Len(e) + 1 /\ ~(i > Len(e))
    <2>1. 1 \in 1 .. l
      BY <1>1
    <2>2. i \in 1 .. Len(e) /\ e[i] = c[1]
      BY <1>3, <1>4, <2>1
    <2>3. QED
      BY <1>2, <2>2
  <1>6. from[i] = ReadFrom(e, i, from)
    BY <1>5 DEF Reads
  <1>7. CASE l < 2
    <2>1. e[i] # "\\" /\ e[i] = v[k]
      BY <1>1, <1>5, <1>7, BackslashIsReserved
    <2>2. i + l = i + 1
      BY <1>1, <1>7
    <2>3. ReadFrom(e, i, from) = Before(v[k], from[i + 1])
      BY <1>5, <2>1 DEF ReadFrom
    <2>4. QED
      BY <1>5, <1>6, <2>2, <2>3 DEF c, l
  <1>8. CASE l > 1
    <2>1. i + 1 \in 1 .. Len(e) /\ e[i + 1] = c[2]
      <3>1. 2 \in 1 .. l
        BY <1>1, <1>8
      <3>2. QED
        BY <1>3, <1>4, <3>1
    <2>2. e[i] = "\\" /\ e[i + 1] = v[k] /\ v[k] \in Escapable /\ i # Len(e)
      BY <1>1, <1>2, <1>5, <1>8, <2>1
    <2>3. i + l = i + 2
      BY <1>1, <1>8
    <2>4. ReadFrom(e, i, from) = Before(v[k], from[i + 2])
      BY <1>5, <2>2 DEF ReadFrom
    <2>5. QED
      BY <1>5, <1>6, <2>3, <2>4 DEF c, l
  <1>9. QED
    BY <1>1, <1>7, <1>8

(* The sequences stand where they are laid out.                            *)
LEMMA ChunkStands ==
    ASSUME NEW cs \in Seq(Seq(Characters)), NEW pos, Positions(cs, pos),
           NEW e \in Seq(Characters), LaidOut(Characters, cs, pos, Len(cs), e),
           NEW k \in 1 .. Len(cs)
    PROVE  pos[k] - 1 \in Nat /\ StandsAt(e, pos[k] - 1, cs[k])
  <1> DEFINE i == pos[k]
             l == Len(cs[k])
  <1>1. /\ i \in Nat /\ i >= 1 /\ l \in Nat /\ Len(e) \in Nat
        /\ pos[k + 1] \in Nat
        /\ pos[k + 1] = i + l
    BY PositionOf
  <1>2. \A j \in 1 .. l : i + j - 1 \in 1 .. Len(e) /\ e[i + j - 1] = cs[k][j]
    BY DEF LaidOut
  <1>3. Len(e) = pos[Len(cs) + 1] - 1 /\ pos[k + 1] <= pos[Len(cs) + 1] /\ pos[Len(cs) + 1] \in Nat
    <2>1. /\ k + 1 \in 1 .. Len(cs) + 1 /\ Len(cs) + 1 \in k + 1 .. Len(cs) + 1
          /\ Len(cs) + 1 \in 1 .. Len(cs) + 1
      OBVIOUS
    <2>2. pos[k + 1] <= pos[Len(cs) + 1]
      BY <2>1, PositionsGrow
    <2>3. QED
      BY <2>1, <2>2, PositionFacts DEF LaidOut
  <1> DEFINE d == i - 1
  <1> HIDE DEF i, l
  <1>4. \A j \in 1 .. l : d + j = i + j - 1
    BY <1>1
  <1>5. d + l <= Len(e) /\ d \in Nat
    BY <1>1, <1>3
  <1>6. \A j \in 1 .. l : e[d + j] = cs[k][j]
    BY <1>2, <1>4
  <1> HIDE DEF d
  <1>7. StandsAt(e, d, cs[k])
    BY <1>5, <1>6 DEF StandsAt, l
  <1>8. QED
    BY <1>5, <1>7 DEF d, i

(* unescapeAttributeValue undoes escapeAttributeValue.                     *)
LEMMA EscapeUndone ==
    ASSUME NEW v \in Seq(Characters)
    PROVE  unescapeAttributeValue(escapeAttributeValue(v)) = v
  <1> DEFINE e == escapeAttributeValue(v)
             cs == Chunks(v)
             n == Len(v)
  <1>1. n \in Nat /\ cs \in Seq(Seq(Characters)) /\ Len(cs) = n /\ e = FlattenSeq(cs)
    BY ChunkFacts
  <1>2. PICK pos : Positions(cs, pos)
    BY <1>1, PositionsExist
  <1>3. LaidOut(Characters, cs, pos, n, e)
    BY <1>1, <1>2, Layout
  <1>4. e \in Seq(Characters) /\ Len(e) \in Nat /\ Len(e) = pos[n + 1] - 1
    BY <1>3 DEF LaidOut
  <1>5. pos[1] = 1 /\ n + 1 \in 1 .. n + 1 /\ pos[n + 1] \in Nat
    BY <1>1, <1>2, PositionFacts
  <1>6. PICK from : Reads(e, from)
    BY <1>4, UnescapeReads
  <1> DEFINE T == {k \in 1 .. n + 1 : from[pos[k]] = SubSeq(v, k, n)}
  <1>7. n + 1 \in T
    <2>1. SubSeq(v, n + 1, n) = <<>>
      BY <1>1
    <2>2. pos[n + 1] = Len(e) + 1
      <3> HIDE DEF e, n
      <3>1. QED
        BY <1>4, <1>5
    <2>3. from[Len(e) + 1] = <<>>
      <3> HIDE DEF e
      <3>1. Len(e) + 1 \in 1 .. Len(e) + 1 /\ Len(e) + 1 > Len(e)
        BY <1>4
      <3>2. QED
        BY <1>6, <3>1 DEF Reads, ReadFrom
    <2>4. QED
      BY <1>5, <2>1, <2>2, <2>3
  <1>8. ASSUME NEW k \in 1 .. (n + 1) - 1, k + 1 \in T
        PROVE  k \in T
    <2> DEFINE i == pos[k]
    <2>1. k \in 1 .. n /\ k + 1 \in 1 .. n + 1 /\ k \in 1 .. n + 1 /\ k \in 1 .. Len(v)
      BY <1>1
    <2>2. /\ i \in Nat /\ i >= 1
          /\ pos[k + 1] = i + Len(cs[k])
          /\ cs[k] \in Seq(Characters) /\ Len(cs[k]) \in Nat
      <3>1. k \in 1 .. Len(cs) /\ cs \in Seq(Seq(Characters))
        BY <1>1, <2>1
      <3> HIDE DEF cs, n, T
      <3>2. QED
        BY <1>2, <3>1, PositionOf
    <2>3. StandsAt(e, i - 1, cs[k])
      <3>1. k \in 1 .. Len(cs) /\ cs \in Seq(Seq(Characters)) /\ LaidOut(Characters, cs, pos, Len(cs), e)
        BY <1>1, <1>3, <2>1
      <3> HIDE DEF cs, n, T, e
      <3>2. QED
        BY <1>2, <1>4, <3>1, ChunkStands
    <2> HIDE DEF i, e, cs
    <2>4. from[i] = Before(v[k], from[i + Len(cs[k])])
      BY <1>4, <1>6, <2>1, <2>2, <2>3, ChunkRead DEF cs
    <2>5. from[pos[k + 1]] = SubSeq(v, k + 1, n)
      BY <1>8
    <2>6. SubSeq(v, k + 1, n) \in Seq(Characters)
      BY <2>1
    <2>7. Before(v[k], SubSeq(v, k + 1, n)) = <<v[k]>> \o SubSeq(v, k + 1, n)
      BY <2>6, ErrorAssumption DEF Before
    <2>8. <<v[k]>> \o SubSeq(v, k + 1, n) = SubSeq(v, k, n)
      BY <2>1, SubSeqTail
    <2>9. from[i] = SubSeq(v, k, n)
      BY <2>2, <2>4, <2>5, <2>7, <2>8, Zenon
    <2>10. QED
      BY <2>1, <2>9 DEF i
  <1>9. 1 \in T
    <2>1. 1 \in Int /\ n + 1 \in Int /\ 1 \in 1 .. n + 1
      BY <1>1
    <2> HIDE DEF T, n
    <2>2. QED
      BY <1>7, <1>8, <2>1, Downwards
  <1>10. from[1] = SubSeq(v, 1, n)
    BY <1>5, <1>9
  <1>11. SubSeq(v, 1, n) = v
    BY WholeSubSeq
  <1>12. QED
    BY <1>6, <1>10, <1>11 DEF Reads

-----------------------------------------------------------------------------
(* One component                                                           *)

(* A member that is below all others is the minimum.                       *)
LEMMA MinEquals ==
    ASSUME NEW s, s \subseteq Int, NEW x \in s, \A y \in s : x <= y
    PROVE  Min(s) = x
  <1>1. Min(s) \in s /\ \A y \in s : Min(s) <= y
    BY DEF Min
  <1>2. Min(s) <= x /\ x <= Min(s) /\ x \in Int /\ Min(s) \in Int
    BY <1>1
  <1>3. QED
    BY <1>2

(* A member that is above all others is the maximum.                       *)
LEMMA MaxEquals ==
    ASSUME NEW s, s \subseteq Int, NEW x \in s, \A y \in s : y <= x
    PROVE  Max(s) = x
  <1>1. Max(s) \in s /\ \A y \in s : Max(s) >= y
    <2>1. \E z \in s : \A y \in s : z >= y
      OBVIOUS
    <2>2. QED
      BY <2>1 DEF Max
  <1>2. Max(s) >= x /\ Max(s) <= x /\ x \in Int /\ Max(s) \in Int
    BY <1>1
  <1>3. QED
    BY <1>2

(* Every text stands in itself.                                            *)
LEMMA StandsInItself ==
    ASSUME NEW s \in Seq(Characters)
    PROVE  StandsAt(s, 0, s)
  <1>1. Len(s) \in Nat /\ \A j \in 1 .. Len(s) : 0 + j = j
    OBVIOUS
  <1>2. QED
    BY <1>1 DEF StandsAt

(* The first "=" of a part stands between the type and the value.          *)
LEMMA PartCut ==
    ASSUME NEW c \in Pair
    PROVE  LET k == Key[c.type]
               l == Len(k)
               p == Part(c)
           IN  /\ l \in Nat /\ l >= 1
               /\ SubSeq(p, 1, l) = k
               /\ SubSeq(p, l + 1 + 1, Len(p)) = escapeAttributeValue(c.value)
               /\ Min({i \in DOMAIN p : p[i] = "="}) = l + 1
               /\ {i \in DOMAIN p : p[i] = "="} # {}
  <1> DEFINE k == Key[c.type]
             l == Len(k)
             w == Prefix(c.type)
             e == escapeAttributeValue(c.value)
             p == Part(c)
  <1>1. /\ k \in Seq(Characters)
        /\ l \in Nat /\ l >= 1
        /\ w \in Seq(Characters)
        /\ e \in Seq(Characters)
        /\ p \in Seq(Characters)
        /\ w[l + 1] = "="
        /\ Len(w) = l + 1
        /\ \A j \in 1 .. l : w[j] = k[j] /\ k[j] # "="
    BY PartType, PrefixFacts, KeyFacts
  <1>2. p = w \o e /\ w = k \o <<"=">>
    BY DEF Part, Prefix
  <1>3. <<"=">> \in Seq(Characters)
    <2>1. "=" \in Characters
      BY CharactersAssumption
    <2>2. QED
      BY <2>1
  <1> HIDE DEF w, e, p, k
  <1>4. StandsAt(p, 0, w) /\ StandsAt(p, 0 + Len(w), e)
    BY <1>1, <1>2, StandsInItself, StandsAtSplit
  <1>5. StandsAt(p, 0, k)
    BY <1>1, <1>2, <1>3, <1>4, StandsAtSplit
  <1> DEFINE m == Len(e)
             n == Len(p)
  <1>6. n = l + 1 + m /\ m \in Nat /\ n \in Nat
    <2>1. Len(p) = Len(w) + Len(e)
      BY <1>1, <1>2
    <2> HIDE DEF l
    <2>2. QED
      BY <1>1, <2>1
  <1>7. SubSeq(p, 1, l) = k
    <2>1. SubSeq(p, 0 + 1, 0 + Len(k)) = k
      BY <1>1, <1>5, StandsSubSeq
    <2>2. QED
      BY <1>1, <2>1
  <1>8. SubSeq(p, l + 1 + 1, n) = e
    <2> DEFINE d == l + 1
    <2>1. d \in Nat /\ StandsAt(p, d, e) /\ d + m = n
      <3> HIDE DEF l
      <3>1. d \in Nat /\ 0 + Len(w) = d /\ d + m = n
        BY <1>1, <1>6
      <3> HIDE DEF d
      <3>2. QED
        BY <1>4, <3>1
    <2> HIDE DEF d, n
    <2>2. SubSeq(p, d + 1, d + m) = e
      BY <1>1, <2>1, StandsSubSeq
    <2>3. QED
      BY <2>1, <2>2 DEF d
  <1> HIDE DEF n, m
  <1> DEFINE equals == {i \in DOMAIN p : p[i] = "="}
  <1>9. \A j \in 1 .. l + 1 : j \in 1 .. n /\ p[j] = w[j]
    <2>1. \A j \in 1 .. Len(w) : 0 + j \in 1 .. Len(p) /\ p[0 + j] = w[j]
      BY <1>1, <1>4, StandsAtFacts
    <2>2. \A j \in 1 .. l + 1 : 0 + j = j
      OBVIOUS
    <2>3. QED
      BY <1>1, <2>1, <2>2 DEF n
  <1> HIDE DEF l
  <1>10. l + 1 \in equals
    <2>1. l + 1 \in 1 .. l + 1 /\ DOMAIN p = 1 .. n
      BY <1>1 DEF n
    <2>2. QED
      BY <1>1, <1>9, <2>1
  <1>11. \A i \in equals : l + 1 <= i
    <2>1. \A j \in 1 .. l : j \in 1 .. l + 1
      BY <1>1
    <2>2. \A j \in 1 .. l : j \notin equals
      BY <1>1, <1>9, <2>1
    <2>3. \A i \in equals : i \in 1 .. n
      BY <1>1 DEF n
    <2> HIDE DEF equals
    <2>4. QED
      BY <1>1, <1>6, <2>2, <2>3
  <1>12. equals \subseteq Int
    BY <1>1
  <1> HIDE DEF equals
  <1>13. Min(equals) = l + 1
    <2> DEFINE x == l + 1
    <2>1. x \in equals /\ \A i \in equals : x <= i
      BY <1>10, <1>11
    <2> HIDE DEF x
    <2>2. Min(equals) = x
      BY <1>12, <2>1, MinEquals
    <2>3. QED
      BY <2>2 DEF x
  <1>14. QED
    BY <1>1, <1>7, <1>8, <1>10, <1>13 DEF l, k, e, p, n, equals

(* The type is read as it was written.                                     *)
NoSpace(s) == \A i \in DOMAIN s : s[i] # " "

(* A text without spaces is not trimmed.                                   *)
LEMMA NothingToTrim ==
    ASSUME NEW s \in Seq(Characters), s # <<>>, NoSpace(s)
    PROVE  TrimSpace(s) = s
  <1> DEFINE n == Len(s)
             t == 1 .. n
  <1>1. n \in Nat /\ n >= 1 /\ DOMAIN s = t
    OBVIOUS
  <1>2. t \subseteq Int /\ 1 \in t /\ n \in t /\ \A y \in t : 1 <= y /\ y <= n
    BY <1>1
  <1>3. Min(t) = 1 /\ Max(t) = n
    <2> HIDE DEF t, n
    <2>1. QED
      BY <1>2, MinEquals, MaxEquals
  <1>4. SubSeq(s, 1, n) = s
    BY WholeSubSeq
  <1>5. t # {}
    BY <1>2
  <1> HIDE DEF t, n
  <1>6. {i \in DOMAIN s : s[i] # " "} = t
    BY <1>1, Zenon DEF NoSpace
  <1>7. TrimSpace(s) = SubSeq(s, Min(t), Max(t))
    BY <1>5, <1>6, Zenon DEF TrimSpace
  <1>8. QED
    BY <1>3, <1>4, <1>7, Zenon

(* Types are written in upper case.                                        *)
LEMMA UpperCase ==
    ASSUME NEW s \in Seq(Letters)
    PROVE  ToUpper(s) = s
  <1>1. \A i \in DOMAIN s : s[i] \in Letters
    OBVIOUS
  <1>2. \A x \in Letters : x \notin {"c", "n", "o", "u", "l", "s", "t"}
    BY DEF Letters
  <1>3. DOMAIN [c |-> "C", n |-> "N", o |-> "O", u |-> "U", l |-> "L", s |-> "S", t |-> "T"]
          = {"c", "n", "o", "u", "l", "s", "t"}
    OBVIOUS
  <1>4. ToUpper(s) = [i \in DOMAIN s |-> s[i]]
    BY <1>1, <1>2, <1>3, Zenon DEF ToUpper
  <1>5. QED
    BY <1>4

(* No two types are written alike.                                         *)
LEMMA KeysDiffer ==
    ASSUME NEW t \in DOMAIN Key, NEW u \in DOMAIN Key, Key[t] = Key[u]
    PROVE  t = u
  <1>1. DOMAIN Key = {"CN", "OU", "O", "L", "ST", "C"}
    BY DEF Key
  <1>2. /\ Key["CN"] = <<"C", "N">> /\ Key["OU"] = <<"O", "U">> /\ Key["O"] = <<"O">>
        /\ Key["L"] = <<"L">> /\ Key["ST"] = <<"S", "T">> /\ Key["C"] = <<"C">>
    BY DEF Key
  <1>3. \A x, y : Len(<<x>>) = 1 /\ <<x>>[1] = x /\ Len(<<x, y>>) = 2 /\ <<x, y>>[1] = x
    OBVIOUS
  <1>4. QED
    BY <1>1, <1>2, <1>3

(* No escaped value begins with the character for hexadecimal values.      *)
LEMMA NoHash ==
    ASSUME NEW v \in Seq(Characters), v # <<>>
    PROVE  escapeAttributeValue(v)[1] # "#"
  <1> DEFINE e == escapeAttributeValue(v)
             cs == Chunks(v)
             c == cs[1]
  <1>1. cs \in Seq(Seq(Characters)) /\ Len(cs) = Len(v) /\ e = FlattenSeq(cs)
    BY ChunkFacts
  <1>2. 1 \in 1 .. Len(v)
    OBVIOUS
  <1>3. PICK pos : Positions(cs, pos)
    BY <1>1, PositionsExist
  <1>4. LaidOut(Characters, cs, pos, Len(cs), e)
    BY <1>1, <1>3, Layout
  <1>5. pos[1] = 1
    BY <1>3 DEF Positions
  <1>6. /\ Len(c) \in Nat /\ Len(c) >= 1 /\ Len(c) <= 2
        /\ Len(c) < 2 => c[1] = v[1] /\ v[1] # "#"
        /\ Len(c) > 1 => c[1] = "\\"
    BY <1>2, ChunkOf
  <1>7. "\\" # "#"
    OBVIOUS
  <1>8. c[1] # "#"
    <2>1. Len(c) < 2 \/ Len(c) > 1
      BY <1>6
    <2>2. QED
      BY <1>6, <1>7, <2>1, Zenon
  <1>9. 1 \in 1 .. Len(cs) /\ 1 \in 1 .. Len(c)
    BY <1>1, <1>2, <1>6
  <1> HIDE DEF e, cs, c
  <1>10. e[pos[1] + 1 - 1] = cs[1][1]
    BY <1>4, <1>9 DEF LaidOut, c
  <1>11. pos[1] + 1 - 1 = 1
    BY <1>5
  <1>12. e[1] # "#"
    BY <1>8, <1>10, <1>11, Zenon DEF c
  <1>13. QED
    BY <1>12 DEF e

(* No escaped value looks like two values of one component.                *)
LEMMA NoPlus ==
    ASSUME NEW v \in Seq(Characters)
    PROVE  splitUnescaped(escapeAttributeValue(v), "+") = <<escapeAttributeValue(v)>>
  <1> DEFINE e == escapeAttributeValue(v)
  <1>1. PICK sep : sep = "+"
    OBVIOUS
  <1>2. sep \in Reserved \ {"\\"}
    <2>1. "+" # "\\"
      BY Zenon
    <2>2. QED
      BY <1>1, <2>1, BackslashIsReserved, Zenon
  <1>3. e \in Seq(Characters)
    <2>1. [type |-> "C", value |-> v] \in Pair
      <3>1. "C" \in DOMAIN Key
        BY DEF Key
      <3>2. QED
        BY <3>1 DEF Pair
    <2>2. [type |-> "C", value |-> v].value = v
      OBVIOUS
    <2>3. QED
      BY <2>1, <2>2, PartType
  <1>4. StandsAt(e, 0, e) /\ Free(e, 0 + 1)
    <2>1. Free(e, 1)
      BY NoBackslashYet DEF Free
    <2>2. QED
      BY <1>3, <2>1, StandsInItself
  <1>5. Quiet(e, sep, 0 + 1, 0 + Len(e) + 1)
    BY <1>2, <1>3, <1>4, EscapedValue
  <1>6. \A i \in 1 .. Len(e) : i \notin Separators(e, sep)
    <2>1. Len(e) \in Nat
      BY <1>3
    <2> HIDE DEF e
    <2>2. \A i \in 1 .. Len(e) : i \in 0 + 1 .. (0 + Len(e) + 1) - 1
      BY <2>1
    <2>3. QED
      BY <1>5, <2>2 DEF Quiet
  <1> HIDE DEF e
  <1>7. CutAt(e, Separators(e, sep)) = <<e>>
    BY <1>3, <1>6, NoCut
  <1>8. QED
    BY <1>1, <1>7, Zenon DEF splitUnescaped, e

(* What String writes for one value, ParseNameString reads back.           *)
LEMMA ComponentRead ==
    ASSUME NEW c \in Pair, c.value # <<>>
    PROVE  Component(Part(c)) = c
  <1> DEFINE p == Part(c)
             k == Key[c.type]
             v == c.value
             e == escapeAttributeValue(v)
             l == Len(k)
             equals == {i \in DOMAIN p : p[i] = "="}
             cut == Min(equals)
             key == TrimSpace(SubSeq(p, 1, cut - 1))
             raw == SubSeq(p, cut + 1, Len(p))
             value == unescapeAttributeValue(raw)
             types == {t \in DOMAIN Key : Key[t] = ToUpper(key)}
  <1>1. /\ c.type \in DOMAIN Key /\ v \in Seq(Characters)
        /\ e \in Seq(Characters)
        /\ k \in Seq(Characters) /\ k \in Seq(Letters)
        /\ c = [type |-> c.type, value |-> c.value]
    <2>1. c = [type |-> c.type, value |-> c.value]
      BY DEF Pair
    <2>2. QED
      BY <2>1, PartType, KeyFacts
  <1>2. /\ l \in Nat /\ l >= 1
        /\ SubSeq(p, 1, l) = k
        /\ SubSeq(p, l + 1 + 1, Len(p)) = e
        /\ cut = l + 1
        /\ equals # {}
    BY PartCut
  <1>3. k # <<>> /\ NoSpace(k)
    <2>1. \A x \in Letters : x # " "
      BY PlainCharacters, Zenon DEF Letters
    <2>2. \A i \in DOMAIN k : k[i] \in Letters
      BY <1>1
    <2>3. NoSpace(k)
      BY <2>1, <2>2, Zenon DEF NoSpace
    <2>4. k # <<>>
      BY <1>2
    <2>5. QED
      BY <2>3, <2>4
  <1> HIDE DEF p, k, e, l
  <1>4. TrimSpace(k) = k
    BY <1>1, <1>3, NothingToTrim
  <1>5. cut - 1 = l
    BY <1>2
  <1>6. key = k /\ raw = e
    BY <1>2, <1>4, <1>5, Zenon
  <1>7. value = v
    BY <1>1, <1>6, EscapeUndone, Zenon DEF e
  <1>8. splitUnescaped(raw, "+") = <<raw>>
    BY <1>1, <1>6, NoPlus, Zenon DEF e
  <1>9. raw[1] # "#"
    BY <1>1, <1>6, NoHash, Zenon DEF e
  <1>10. types = {c.type}
    <2>1. ToUpper(key) = k
      BY <1>1, <1>6, UpperCase, Zenon
    <2>2. \A t \in DOMAIN Key : Key[t] = k <=> t = c.type
      BY <1>1, KeysDiffer DEF k
    <2>3. types = {t \in DOMAIN Key : Key[t] = k}
      BY <2>1, Zenon
    <2>4. QED
      BY <1>1, <2>2, <2>3
  <1>11. key # <<>>
    BY <1>3, <1>6
  <1>12. value # Error /\ value # <<>> /\ types # {}
    BY <1>1, <1>7, <1>10, ErrorAssumption
  <1>13. ~(Len(splitUnescaped(raw, "+")) > 1)
    <2>1. Len(<<raw>>) = 1
      OBVIOUS
    <2>2. ~(Len(<<raw>>) > 1)
      <3> DEFINE n == Len(<<raw>>)
      <3>1. n = 1
        BY <2>1
      <3> HIDE DEF n
      <3>2. ~(n > 1)
        BY <3>1
      <3>3. QED
        BY <3>2 DEF n
    <2>3. QED
      BY <1>8, <2>2, Zenon
  <1>14. Component(p) = [type |-> CHOOSE t \in types : TRUE, value |-> value]
    BY <1>2, <1>9, <1>11, <1>12, <1>13, Zenon DEF Component
  <1>15. (CHOOSE t \in types : TRUE) = c.type
    BY <1>10
  <1>16. QED
    BY <1>1, <1>7, <1>14, <1>15, Zenon DEF p

-----------------------------------------------------------------------------
(* String                                                                  *)

(* The components that String writes, by type and one after another.       *)
PairsOf(n, t) == [j \in DOMAIN n[t] |-> [type |-> t, value |-> n[t][j]]]

PairsByType(n) == [k \in DOMAIN Types |-> PairsOf(n, Types[k])]

PartsByType(n) ==
    [k \in DOMAIN Types |->
        [j \in DOMAIN n[Types[k]] |-> Part([type |-> Types[k], value |-> n[Types[k]][j]])]]

Pairs(n) == FlattenSeq(PairsByType(n))

Table == [DOMAIN Key -> Seq(Seq(Characters))]

(* String goes through each type once.                                     *)
LEMMA TypesFacts ==
    /\ DOMAIN Types = 1 .. 6
    /\ \A k \in 1 .. 6 : Types[k] \in DOMAIN Key
    /\ \A t \in DOMAIN Key : \E k \in 1 .. 6 : t = Types[k]
    /\ \A k, l \in 1 .. 6 : Types[k] = Types[l] => k = l
  <1>1. Types = <<"CN", "OU", "O", "L", "ST", "C">> /\ DOMAIN Key = {"CN", "OU", "O", "L", "ST", "C"}
    BY DEF Types, Key
  <1>2. DOMAIN Types = 1 .. 6
    BY DEF Types
  <1>3. /\ Types[1] = "CN" /\ Types[2] = "OU" /\ Types[3] = "O"
        /\ Types[4] = "L" /\ Types[5] = "ST" /\ Types[6] = "C"
    BY DEF Types
  <1>4. \A k \in 1 .. 6 : k = 1 \/ k = 2 \/ k = 3 \/ k = 4 \/ k = 5 \/ k = 6
    OBVIOUS
  <1>5. \A k \in 1 .. 6 : Types[k] \in DOMAIN Key
    BY <1>1, <1>3, <1>4
  <1>6. \A t \in DOMAIN Key : \E k \in 1 .. 6 : t = Types[k]
    BY <1>1, <1>3
  <1>7. \A k, l \in 1 .. 6 : Types[k] = Types[l] => k = l
    BY <1>3, <1>4
  <1>8. QED
    BY <1>2, <1>5, <1>6, <1>7

(* A function on 1 .. m is a sequence of m elements.                       *)
LEMMA FunctionOnInterval ==
    ASSUME NEW S, NEW m \in Nat, NEW f \in [1 .. m -> S]
    PROVE  f \in Seq(S) /\ Len(f) = m
  OBVIOUS

(* The pairs of a name, type by type, and the parts that are written for   *)
(* them.                                                                   *)
LEMMA PairsFacts ==
    ASSUME NEW n \in Table
    PROVE  /\ PairsByType(n) \in Seq(Seq(Pair)) /\ Len(PairsByType(n)) = 6
           /\ PartsByType(n) \in Seq(Seq(Seq(Characters)))
           /\ Mapped(PairsByType(n), PartsByType(n), [c \in Pair |-> Part(c)])
           /\ \A k \in 1 .. 6 :
                /\ Types[k] \in DOMAIN Key
                /\ n[Types[k]] \in Seq(Seq(Characters))
                /\ Len(PairsByType(n)[k]) = Len(n[Types[k]])
                /\ \A j \in 1 .. Len(n[Types[k]]) :
                     PairsByType(n)[k][j] = [type |-> Types[k], value |-> n[Types[k]][j]]
  <1> DEFINE cs == PairsByType(n)
             ds == PartsByType(n)
             f == [c \in Pair |-> Part(c)]
  <1>1. ASSUME NEW k \in 1 .. 6
        PROVE  /\ Types[k] \in DOMAIN Key
               /\ n[Types[k]] \in Seq(Seq(Characters))
               /\ cs[k] \in Seq(Pair)
               /\ ds[k] \in Seq(Seq(Characters))
               /\ Len(cs[k]) = Len(n[Types[k]])
               /\ Len(ds[k]) = Len(n[Types[k]])
               /\ \A j \in 1 .. Len(n[Types[k]]) :
                    /\ cs[k][j] \in Pair
                    /\ cs[k][j] = [type |-> Types[k], value |-> n[Types[k]][j]]
                    /\ ds[k][j] = Part(cs[k][j])
    <2> DEFINE t == Types[k]
               vs == n[t]
               m == Len(vs)
    <2>1. k \in DOMAIN Types /\ t \in DOMAIN Key
      BY TypesFacts
    <2>2. vs \in Seq(Seq(Characters)) /\ m \in Nat /\ DOMAIN vs = 1 .. m
      BY <2>1 DEF Table
    <2>3. \A j \in 1 .. m : vs[j] \in Seq(Characters)
      BY <2>2
    <2>4. \A j \in 1 .. m : [type |-> t, value |-> vs[j]] \in Pair
      BY <2>1, <2>3 DEF Pair
    <2>5. \A j \in 1 .. m : Part([type |-> t, value |-> vs[j]]) \in Seq(Characters)
      BY <2>4, PartType
    <2>6. /\ cs[k] = [j \in 1 .. m |-> [type |-> t, value |-> vs[j]]]
          /\ ds[k] = [j \in 1 .. m |-> Part([type |-> t, value |-> vs[j]])]
      BY <2>1, <2>2 DEF PairsByType, PairsOf, PartsByType
    <2> HIDE DEF vs, m, t, cs, ds
    <2>7. /\ cs[k] \in Seq(Pair) /\ Len(cs[k]) = m
          /\ \A j \in 1 .. m : cs[k][j] = [type |-> t, value |-> vs[j]]
      BY <2>2, <2>4, <2>6
    <2>8. /\ ds[k] \in Seq(Seq(Characters)) /\ Len(ds[k]) = m
          /\ \A j \in 1 .. m : ds[k][j] = Part([type |-> t, value |-> vs[j]])
      BY <2>2, <2>5, <2>6
    <2>9. \A j \in 1 .. m : cs[k][j] \in Pair /\ ds[k][j] = Part(cs[k][j])
      BY <2>4, <2>7, <2>8
    <2>10. QED
      BY <2>1, <2>2, <2>7, <2>8, <2>9 DEF t, vs, m
  <1>2. cs \in [1 .. 6 -> Seq(Pair)] /\ ds \in [1 .. 6 -> Seq(Seq(Characters))]
    <2>1. DOMAIN Types = 1 .. 6
      BY TypesFacts
    <2>2. cs = [k \in 1 .. 6 |-> cs[k]] /\ ds = [k \in 1 .. 6 |-> ds[k]]
      BY <2>1 DEF PairsByType, PartsByType
    <2> HIDE DEF cs, ds
    <2>3. QED
      BY <1>1, <2>2
  <1> HIDE DEF cs, ds
  <1>3. /\ cs \in Seq(Seq(Pair)) /\ Len(cs) = 6
        /\ ds \in Seq(Seq(Seq(Characters))) /\ Len(ds) = 6
    <2>1. PICK m \in Nat : m = 6
      OBVIOUS
    <2>2. cs \in [1 .. m -> Seq(Pair)] /\ ds \in [1 .. m -> Seq(Seq(Characters))]
      BY <1>2, <2>1, Zenon
    <2>3. /\ cs \in Seq(Seq(Pair)) /\ Len(cs) = m
          /\ ds \in Seq(Seq(Seq(Characters))) /\ Len(ds) = m
      BY <2>2, FunctionOnInterval
    <2>4. QED
      BY <2>1, <2>3, Zenon
  <1>4. Mapped(cs, ds, f)
    <2>1. ASSUME NEW k \in 1 .. Len(cs)
          PROVE  /\ Len(ds[k]) = Len(cs[k])
                 /\ \A j \in 1 .. Len(cs[k]) : ds[k][j] = f[cs[k][j]]
      <3>1. k \in 1 .. 6
        BY <1>3
      <3>2. QED
        BY <1>1, <3>1
    <2> HIDE DEF f
    <2>2. QED
      BY <1>3, <2>1 DEF Mapped
  <1>5. QED
    BY <1>1, <1>3, <1>4 DEF cs, ds

(* String joins the parts that are written for the pairs of the name.      *)
LEMMA StringIs ==
    ASSUME NEW n \in Table
    PROVE  /\ Pairs(n) \in Seq(Pair)
           /\ String(n) = Join(Parts(Pairs(n)), ",")
  <1> DEFINE f == [c \in Pair |-> Part(c)]
             cs == PairsByType(n)
             ds == PartsByType(n)
  <1>1. /\ cs \in Seq(Seq(Pair)) /\ ds \in Seq(Seq(Seq(Characters)))
        /\ Mapped(cs, ds, f)
    BY PairsFacts
  <1>2. f \in [Pair -> Seq(Characters)]
    BY PartType
  <1> HIDE DEF f, cs, ds
  <1>3. /\ FlattenSeq(cs) \in Seq(Pair)
        /\ FlattenSeq(ds) = [p \in DOMAIN FlattenSeq(cs) |-> f[FlattenSeq(cs)[p]]]
    BY <1>1, <1>2, FlattenMapped
  <1>4. FlattenSeq(ds) = Parts(FlattenSeq(cs))
    <2> DEFINE s == FlattenSeq(cs)
    <2>1. \A p \in DOMAIN s : f[s[p]] = Part(s[p])
      <3>1. \A p \in DOMAIN s : s[p] \in Pair
        BY <1>3
      <3> HIDE DEF s
      <3>2. QED
        BY <3>1 DEF f
    <2>2. FlattenSeq(ds) = [p \in DOMAIN s |-> f[s[p]]]
      BY <1>3
    <2> HIDE DEF s
    <2>3. QED
      BY <2>1, <2>2 DEF Parts, s
  <1>5. String(n) = Join(FlattenSeq(ds), ",")
    BY Zenon DEF String, ds, PartsByType, Part, Prefix
  <1>6. QED
    BY <1>3, <1>4, <1>5, Zenon DEF Pairs, cs

-----------------------------------------------------------------------------
(* Adding one component after another                                      *)

(* Adding a component changes the values of its type alone.                *)
LEMMA AddFacts ==
    ASSUME NEW n \in Table, NEW c \in Pair
    PROVE  /\ Add(n, c) \in Table
           /\ \A t \in DOMAIN Key : t # c.type => Add(n, c)[t] = n[t]
           /\ Add(n, c)[c.type] = IF c.type = "CN" THEN <<c.value>> ELSE Append(n[c.type], c.value)
  <1> DEFINE t == c.type
             v == c.value
             w == IF t = "CN" THEN <<v>> ELSE Append(n[t], v)
  <1>1. t \in DOMAIN Key /\ v \in Seq(Characters)
    BY DEF Pair
  <1>2. n[t] \in Seq(Seq(Characters))
    BY <1>1 DEF Table
  <1>3. w \in Seq(Seq(Characters))
    BY <1>1, <1>2
  <1>4. Add(n, c) = [n EXCEPT ![t] = w]
    BY DEF Add
  <1> HIDE DEF w, v, t
  <1>5. /\ [n EXCEPT ![t] = w] \in Table
        /\ \A u \in DOMAIN Key : u # t => [n EXCEPT ![t] = w][u] = n[u]
        /\ [n EXCEPT ![t] = w][t] = w
    BY <1>1, <1>3 DEF Table
  <1>6. QED
    BY <1>4, <1>5 DEF t, v, w

(* The names after each component. *)
Sums(components, acc) ==
    /\ acc \in [0 .. Len(components) -> Table]
    /\ acc[0] = EmptyName
    /\ \A i \in 1 .. Len(components) : acc[i] = Add(acc[i - 1], components[i])
    /\ FoldLeft(Add, EmptyName, components) = acc[Len(components)]

(* The names after each component exist, and the last is the result.       *)
LEMMA AddSums ==
    ASSUME NEW components \in Seq(Pair)
    PROVE  \E acc : Sums(components, acc)
  <1> DEFINE n == Len(components)
             base == EmptyName
             body(f) == [x \in SUBSET DOMAIN components |->
                           IF x = {} THEN base
                           ELSE Add(f[x \ {Max(x)}], components[Max(x)])]
             last == CHOOSE f : f = body(f)
             add == [i \in 1 .. n |-> [done \in Table |-> Add(done, components[i])]]
  <1>1. /\ n \in Nat /\ DOMAIN components = 1 .. n
        /\ \A i \in 1 .. n : components[i] \in Pair
    OBVIOUS
  <1>2. base \in Table
    BY DEF EmptyName, Table
  <1>3. FoldLeft(Add, EmptyName, components) = last[DOMAIN components]
    BY DEF FoldLeft, MapThenFoldSet
  <1>4. \A x \in SUBSET (1 .. n) : x # {} => Max(x) \in 1 .. n
    <2>1. ASSUME NEW x \in SUBSET (1 .. n), x # {}
          PROVE  Max(x) \in 1 .. n
      <3>1. n \in Int /\ x \subseteq 0 .. n
        BY <1>1
      <3>2. Max(x) \in x
        BY <2>1, <3>1, MaxIs
      <3>3. QED
        BY <3>2
    <2>2. QED
      BY <2>1
  <1>5. add \in [1 .. n -> [Table -> Table]]
    BY <1>1, AddFacts
  <1>6. PICK iter \in [SUBSET (1 .. n) -> Table] :
          \A x \in SUBSET (1 .. n) :
            iter[x] = IF x = {} THEN base ELSE add[Max(x)][iter[x \ {Max(x)}]]
    <2> HIDE DEF add, base, n
    <2>1. HasFold(n, Table, base, add)
      BY <1>1, <1>2, <1>5, FoldExists
    <2>2. QED
      BY <2>1 DEF HasFold
  <1>7. iter = body(iter)
    <2>1. ASSUME NEW x \in SUBSET (1 .. n)
          PROVE  iter[x] = IF x = {} THEN base
                           ELSE Add(iter[x \ {Max(x)}], components[Max(x)])
      <3>1. CASE x = {}
        BY <1>6, <3>1
      <3>2. CASE x # {}
        <4>1. Max(x) \in 1 .. n
          BY <1>4, <3>2
        <4>2. iter[x \ {Max(x)}] \in Table
          OBVIOUS
        <4>3. QED
          BY <1>6, <3>2, <4>1, <4>2
      <3>3. QED
        BY <3>1, <3>2
    <2>2. QED
      BY <1>1, <2>1
  <1>8. last = body(last)
    <2> HIDE DEF body
    <2>1. QED
      BY <1>7
  <1>9. /\ last[{}] = base
        /\ \A x \in SUBSET (1 .. n) : x # {} /\ last[x \ {Max(x)}] \in Table =>
              last[x] = add[Max(x)][last[x \ {Max(x)}]]
    <2> HIDE DEF last
    <2>1. ASSUME NEW x \in SUBSET (1 .. n)
          PROVE  last[x] = IF x = {} THEN base
                           ELSE Add(last[x \ {Max(x)}], components[Max(x)])
      BY <1>1, <1>8
    <2>2. {} \in SUBSET (1 .. n)
      OBVIOUS
    <2>3. last[{}] = base
      BY <2>1, <2>2
    <2>4. ASSUME NEW x \in SUBSET (1 .. n), x # {}, last[x \ {Max(x)}] \in Table
          PROVE  last[x] = add[Max(x)][last[x \ {Max(x)}]]
      <3>1. Max(x) \in 1 .. n
        BY <1>4, <2>4
      <3>2. last[x] = Add(last[x \ {Max(x)}], components[Max(x)])
        BY <2>1, <2>4, <3>1
      <3>3. QED
        BY <2>4, <3>1, <3>2
    <2>5. QED
      BY <2>3, <2>4
  <1>10. PICK acc \in [0 .. n -> Table] :
          /\ acc[0] = base
          /\ \A i \in 1 .. n : acc[i] = add[i][acc[i - 1]]
          /\ acc[n] = last[1 .. n]
    <2> HIDE DEF add, base, n, last
    <2>1. FoldsWith(n, Table, base, add, last)
      BY <1>9 DEF FoldsWith
    <2>2. Accumulates(n, Table, base, add, last)
      BY <1>1, <1>2, <1>5, <2>1, FoldComputes
    <2>3. QED
      BY <2>2 DEF Accumulates
  <1>11. ASSUME NEW i \in 1 .. n
         PROVE  acc[i] = Add(acc[i - 1], components[i])
    <2>1. i - 1 \in 0 .. n
      BY <1>1
    <2>2. acc[i - 1] \in Table
      BY <2>1
    <2>3. QED
      BY <1>10, <2>2
  <1>12. FoldLeft(Add, EmptyName, components) = acc[n]
    <2> HIDE DEF last
    <2>1. QED
      BY <1>1, <1>3, <1>10
  <1>13. QED
    BY <1>10, <1>11, <1>12 DEF Sums

(* The name that the values of the first types make, and that and the      *)
(* first values of the next type.                                          *)
First(k) == {Types[i] : i \in 1 .. k}

Done(n, k) == [t \in DOMAIN Key |-> IF t \in First(k) THEN n[t] ELSE <<>>]

Partly(n, k, j) ==
    [t \in DOMAIN Key |->
        IF t \in First(k - 1) THEN n[t] ELSE IF t = Types[k] THEN SubSeq(n[t], 1, j) ELSE <<>>]

(* Each type comes once.                                                   *)
LEMMA FirstFacts ==
    ASSUME NEW k \in 1 .. 6
    PROVE  /\ Types[k] \notin First(k - 1)
           /\ First(k) = First(k - 1) \cup {Types[k]}
  <1>1. \A i \in 1 .. k : i \in 1 .. k - 1 \/ i = k
    OBVIOUS
  <1>2. \A i \in 1 .. k - 1 : i \in 1 .. k /\ i \in 1 .. 6 /\ i # k
    OBVIOUS
  <1>3. k \in 1 .. k
    OBVIOUS
  <1>4. Types[k] \notin First(k - 1)
    BY <1>2, TypesFacts DEF First
  <1>5. First(k) = First(k - 1) \cup {Types[k]}
    BY <1>1, <1>2, <1>3 DEF First
  <1>6. QED
    BY <1>4, <1>5

(* With none of the values of a type, the name has the types before it;    *)
(* with all of them, the type too.                                         *)
LEMMA PartlyFacts ==
    ASSUME NEW n \in Table, NEW k \in 1 .. 6
    PROVE  /\ Partly(n, k, 0) = Done(n, k - 1)
           /\ Partly(n, k, Len(n[Types[k]])) = Done(n, k)
  <1> DEFINE u == Types[k]
  <1>1. u \in DOMAIN Key /\ u \notin First(k - 1) /\ First(k) = First(k - 1) \cup {u}
    BY FirstFacts, TypesFacts
  <1>2. n[u] \in Seq(Seq(Characters))
    BY <1>1 DEF Table
  <1>3. SubSeq(n[u], 1, 0) = <<>> /\ SubSeq(n[u], 1, Len(n[u])) = n[u]
    <2>1. SubSeq(n[u], 1, 0) = <<>>
      BY <1>2
    <2>2. QED
      BY <1>2, <2>1, WholeSubSeq
  <1> HIDE DEF u
  <1>4. Partly(n, k, 0) = Done(n, k - 1)
    BY <1>3 DEF Partly, Done, u
  <1>5. Partly(n, k, Len(n[u])) = Done(n, k)
    BY <1>1, <1>3 DEF Partly, Done, u
  <1>6. QED
    BY <1>4, <1>5 DEF u

OneCommonName(n) == Len(n["CN"]) <= 1

(* One more value of a type. The common name is replaced, which is the     *)
(* same, as there is at most one.                                          *)
LEMMA AddPartly ==
    ASSUME NEW n \in Table, OneCommonName(n), NEW k \in 1 .. 6, NEW j \in 1 .. Len(n[Types[k]])
    PROVE  Add(Partly(n, k, j - 1), [type |-> Types[k], value |-> n[Types[k]][j]]) = Partly(n, k, j)
  <1> DEFINE u == Types[k]
             vs == n[u]
             v == vs[j]
             c == [type |-> u, value |-> v]
             before == Partly(n, k, j - 1)
  <1>1. u \in DOMAIN Key /\ u \notin First(k - 1)
    BY FirstFacts, TypesFacts
  <1>2. vs \in Seq(Seq(Characters)) /\ \A t \in DOMAIN Key : n[t] \in Seq(Seq(Characters))
    BY <1>1 DEF Table
  <1>3. j \in 1 .. Len(vs) /\ v \in Seq(Characters)
    BY <1>2
  <1>4. c \in Pair /\ c.type = u /\ c.value = v
    BY <1>1, <1>3 DEF Pair
  <1> HIDE DEF vs, v, c
  <1>5. SubSeq(vs, 1, j - 1) \in Seq(Seq(Characters))
    BY <1>2, <1>3
  <1>6. before \in Table /\ before[u] = SubSeq(vs, 1, j - 1)
    <2>1. \A t \in DOMAIN Key : before[t] =
             IF t \in First(k - 1) THEN n[t] ELSE IF t = u THEN SubSeq(n[t], 1, j - 1) ELSE <<>>
      BY DEF Partly
    <2>2. before[u] = SubSeq(vs, 1, j - 1)
      BY <1>1, <2>1 DEF vs
    <2>3. <<>> \in Seq(Seq(Characters))
      OBVIOUS
    <2>4. \A t \in DOMAIN Key : before[t] \in Seq(Seq(Characters))
      BY <1>2, <1>5, <2>1, <2>2, <2>3
    <2>5. before = [t \in DOMAIN Key |-> before[t]]
      BY DEF Partly
    <2> HIDE DEF before
    <2>6. QED
      BY <2>2, <2>4, <2>5 DEF Table
  <1> DEFINE after == Add(before, c)
  <1> HIDE DEF before
  <1>7. /\ after \in Table
        /\ \A t \in DOMAIN Key : t # u => after[t] = before[t]
        /\ after[u] = IF u = "CN" THEN <<v>> ELSE Append(before[u], v)
    BY <1>4, <1>6, AddFacts, ZenonT(40)
  <1>8. after[u] = SubSeq(vs, 1, j)
    <2>1. Append(SubSeq(vs, 1, j - 1), vs[j]) = SubSeq(vs, 1, j)
      BY <1>2, <1>3, SubSeqNext
    <2>2. CASE u = "CN"
      <3>1. Len(vs) <= 1
        BY <2>2 DEF OneCommonName, vs
      <3>2. j = 1
        BY <1>2, <1>3, <3>1
      <3>3. SubSeq(vs, 1, 1 - 1) = <<>>
        BY <1>2
      <3>4. Append(<<>>, v) = <<v>>
        OBVIOUS
      <3>5. QED
        BY <1>7, <2>1, <2>2, <3>2, <3>3, <3>4, Zenon DEF v
    <2>3. CASE u # "CN"
      BY <1>6, <1>7, <2>1, <2>3, Zenon DEF v
    <2>4. QED
      BY <2>2, <2>3
  <1>9. \A t \in DOMAIN Key : after[t] = Partly(n, k, j)[t]
    <2>1. \A t \in DOMAIN Key : t # u => before[t] = Partly(n, k, j)[t]
      BY DEF before, Partly
    <2>2. Partly(n, k, j)[u] = SubSeq(vs, 1, j)
      BY <1>1 DEF Partly, vs
    <2>3. QED
      BY <1>7, <1>8, <2>1, <2>2
  <1>10. after = [t \in DOMAIN Key |-> after[t]] /\ Partly(n, k, j) = [t \in DOMAIN Key |-> Partly(n, k, j)[t]]
    <2>1. Partly(n, k, j) = [t \in DOMAIN Key |-> Partly(n, k, j)[t]]
      BY DEF Partly
    <2> HIDE DEF after
    <2>2. after = [t \in DOMAIN Key |-> after[t]]
      BY <1>7 DEF Table
    <2>3. QED
      BY <2>1, <2>2
  <1>11. after = Partly(n, k, j)
    <2> HIDE DEF after
    <2>1. QED
      BY <1>9, <1>10
  <1>12. QED
    BY <1>11 DEF before, c, v, vs

(* The rounds for the values of one type.                                  *)
Reached(n, pos, acc, k) == acc[pos[k] - 1] = Done(n, k - 1)

(* By induction over the values of a type: after its pairs the name has    *)
(* all of them.                                                            *)
LEMMA TypeAdded ==
    ASSUME NEW n \in Table, OneCommonName(n), NEW acc, Sums(Pairs(n), acc),
           NEW pos, Positions(PairsByType(n), pos), NEW k \in 1 .. 6,
           Reached(n, pos, acc, k)
    PROVE  acc[pos[k + 1] - 1] = Done(n, k)
  <1> DEFINE u == Types[k]
             m == Len(n[u])
             b == pos[k] - 1
             s == Pairs(n)
             cs == PairsByType(n)
             T == {j \in 0 .. m : acc[b + j] = Partly(n, k, j)}
  <1>1. /\ cs \in Seq(Seq(Pair)) /\ Len(cs) = 6
        /\ n[u] \in Seq(Seq(Characters))
        /\ Len(cs[k]) = m
        /\ \A j \in 1 .. m : cs[k][j] = [type |-> u, value |-> n[u][j]]
    BY PairsFacts
  <1>2. Positions(cs, pos) /\ acc[b] = Done(n, k - 1) /\ Sums(s, acc)
    BY DEF Reached
  <1>3. k \in 1 .. Len(cs) /\ m \in Nat
    <2>1. k \in 1 .. Len(cs)
      BY <1>1, Zenon
    <2>2. m \in Nat
      BY <1>1
    <2>3. QED
      BY <2>1, <2>2
  <1> HIDE DEF cs, s
  <1>4. /\ pos[k] \in Nat /\ pos[k] >= 1 /\ pos[k + 1] = pos[k] + m
    <2>1. cs \in Seq(Seq(Pair)) /\ Len(cs[k]) = m
      BY <1>1
    <2> HIDE DEF m, T, b, u
    <2>2. QED
      BY <1>2, <1>3, <2>1, PositionOf
  <1>5. /\ LaidOut(Pair, cs, pos, Len(cs), s)
        /\ s \in Seq(Pair)
    <2>1. LaidOut(Pair, cs, pos, Len(cs), FlattenSeq(cs))
      BY <1>1, <1>2, Layout
    <2>2. s = FlattenSeq(cs)
      BY DEF Pairs, cs, s
    <2>3. QED
      BY <2>1, <2>2 DEF LaidOut
  <1>6. \A j \in 1 .. m : pos[k] + j - 1 \in 1 .. Len(s) /\ s[pos[k] + j - 1] = cs[k][j]
    BY <1>1, <1>3, <1>5 DEF LaidOut
  <1> DEFINE p == pos[k]
             q == pos[k + 1]
  <1>7. b \in Nat /\ b = p - 1 /\ q - 1 = b + m
    <2>1. p \in Nat /\ p >= 1 /\ q = p + m /\ m \in Nat
      BY <1>3, <1>4
    <2> HIDE DEF p, q, m, T
    <2>2. p - 1 \in Nat /\ q - 1 = (p - 1) + m
      BY <2>1
    <2>3. QED
      BY <2>2 DEF p
  <1> HIDE DEF p, q
  <1> HIDE DEF b, m
  <1>8. 0 \in T
    <2>1. b + 0 = b /\ 0 \in 0 .. m
      BY <1>3, <1>7
    <2>2. acc[b + 0] = Partly(n, k, 0)
      BY <1>2, <2>1, PartlyFacts
    <2>3. QED
      BY <2>1, <2>2
  <1>9. ASSUME NEW j \in 0 .. m - 1, j \in T
        PROVE  j + 1 \in T
    <2> DEFINE i == j + 1
    <2>1. i \in 1 .. m /\ i \in 0 .. m /\ i - 1 = j
      BY <1>3
    <2> DEFINE r == b + i
    <2>2. r = p + i - 1 /\ r - 1 = b + j
      <3>1. p \in Int
        BY <1>4 DEF p
      <3> HIDE DEF T
      <3>2. QED
        BY <1>3, <1>7, <3>1
    <2> HIDE DEF i, r
    <2>3. r \in 1 .. Len(s) /\ s[r] = [type |-> u, value |-> n[u][i]]
      BY <1>1, <1>6, <2>1, <2>2 DEF p
    <2>4. acc[r] = Add(acc[r - 1], s[r])
      BY <1>2, <2>3 DEF Sums
    <2>5. acc[r - 1] = Partly(n, k, i - 1)
      BY <1>9, <2>1, <2>2
    <2>6. Add(Partly(n, k, i - 1), [type |-> u, value |-> n[u][i]]) = Partly(n, k, i)
      BY <2>1, AddPartly DEF m
    <2>7. acc[r] = Partly(n, k, i)
      BY <2>3, <2>4, <2>5, <2>6, Zenon
    <2>8. QED
      BY <2>1, <2>7 DEF i, r
  <1>10. m \in T
    <2>1. 0 \in Int /\ m \in Int /\ m \in 0 .. m
      BY <1>3
    <2> HIDE DEF T
    <2>2. QED
      BY <1>8, <1>9, <2>1, Upwards
  <1>11. acc[b + m] = Partly(n, k, m)
    BY <1>10
  <1>12. Partly(n, k, m) = Done(n, k)
    BY PartlyFacts DEF m
  <1>13. QED
    BY <1>7, <1>11, <1>12, Zenon DEF q

(* Added one after another, the components of a name make that name.       *)
LEMMA Rebuilt ==
    ASSUME NEW n \in Table, OneCommonName(n)
    PROVE  FoldLeft(Add, EmptyName, Pairs(n)) = n
  <1> DEFINE cs == PairsByType(n)
             s == Pairs(n)
  <1>1. cs \in Seq(Seq(Pair)) /\ Len(cs) = 6
    BY PairsFacts
  <1>2. PICK pos : Positions(cs, pos)
    BY <1>1, PositionsExist
  <1>3. s \in Seq(Pair) /\ s = FlattenSeq(cs)
    BY StringIs DEF Pairs
  <1>4. PICK acc : Sums(s, acc)
    BY <1>3, AddSums
  <1> DEFINE T == {k \in 1 .. 7 : acc[pos[k] - 1] = Done(n, k - 1)}
  <1>5. 1 \in T
    <2>1. pos[1] = 1
      BY <1>2 DEF Positions
    <2>2. acc[0] = EmptyName
      BY <1>4 DEF Sums
    <2>3. Done(n, 0) = EmptyName
      <3>1. First(0) = {}
        BY DEF First
      <3>2. QED
        BY <3>1 DEF Done, EmptyName
    <2>4. acc[pos[1] - 1] = Done(n, 1 - 1)
      BY <2>1, <2>2, <2>3
    <2>5. QED
      BY <2>4
  <1>6. ASSUME NEW k \in 1 .. 7 - 1, k \in T
        PROVE  k + 1 \in T
    <2>1. k \in 1 .. 6 /\ k + 1 \in 1 .. 7 /\ (k + 1) - 1 = k
      OBVIOUS
    <2>2. acc[pos[k] - 1] = Done(n, k - 1)
      BY <1>6
    <2> HIDE DEF cs, s, T
    <2>3. acc[pos[k + 1] - 1] = Done(n, k)
      BY <1>2, <1>4, <2>1, <2>2, TypeAdded DEF cs, s, Reached
    <2>4. QED
      BY <2>1, <2>3 DEF T
  <1>7. 7 \in T
    <2>1. 1 .. 7 \subseteq T
      <3> HIDE DEF T
      <3>1. 1 \in Int /\ 7 \in Int
        OBVIOUS
      <3>2. QED
        BY <1>5, <1>6, <3>1, Upwards
    <2>2. QED
      BY <2>1
  <1>8. acc[pos[7] - 1] = Done(n, 6)
    BY <1>7
  <1>9. Len(s) = pos[7] - 1
    <2>1. LaidOut(Pair, cs, pos, Len(cs), FlattenSeq(cs))
      BY <1>1, <1>2, Layout
    <2> HIDE DEF cs, s
    <2>2. Len(s) = pos[Len(cs) + 1] - 1
      BY <1>3, <2>1 DEF LaidOut
    <2>3. Len(cs) + 1 = 7
      <3> DEFINE l == Len(cs)
      <3>1. l = 6
        BY <1>1
      <3> HIDE DEF l
      <3>2. l + 1 = 7
        BY <3>1
      <3>3. QED
        BY <3>2 DEF l
    <2>4. QED
      BY <2>2, <2>3, Zenon
  <1>10. Done(n, 6) = n
    <2>1. \A t \in DOMAIN Key : t \in First(6)
      BY TypesFacts DEF First
    <2>2. n = [t \in DOMAIN Key |-> n[t]]
      BY DEF Table
    <2>3. QED
      BY <2>1, <2>2 DEF Done
  <1>11. FoldLeft(Add, EmptyName, s) = acc[Len(s)]
    BY <1>4 DEF Sums
  <1> HIDE DEF s
  <1>12. FoldLeft(Add, EmptyName, s) = n
    BY <1>8, <1>9, <1>10, <1>11, Zenon
  <1>13. QED
    BY <1>12 DEF s

-----------------------------------------------------------------------------
(* Reading what String wrote                                               *)

LEMMA Comma == "," \in Reserved \ {"\\"} /\ "," \in Characters
  <1>1. "," # "\\"
    BY Zenon
  <1>2. "," \in Characters
    BY CharactersAssumption, BackslashIsReserved, Zenon
  <1>3. QED
    BY <1>1, <1>2, BackslashIsReserved, Zenon

Solid(s) == {i \in DOMAIN s : s[i] # " "}

(* A text that has more than spaces is not empty when it is trimmed.       *)
LEMMA SomethingLeft ==
    ASSUME NEW s \in Seq(Characters), Solid(s) # {}
    PROVE  TrimSpace(s) # <<>>
  <1> DEFINE x == Solid(s)
             a == Min(x)
             b == Max(x)
  <1>1. x \subseteq DOMAIN s
    BY Zenon DEF Solid
  <1> HIDE DEF x
  <1>2. Len(s) \in Nat /\ DOMAIN s = 1 .. Len(s)
    OBVIOUS
  <1>3. x \subseteq Nat /\ x \subseteq 0 .. Len(s) /\ x # {} /\ Len(s) \in Int
    BY <1>1, <1>2 DEF x
  <1>4. PICK m \in x : \A n \in x : m <= n
    BY <1>3, Smallest
  <1>5. a \in x
    BY <1>4 DEF Min
  <1>6. b \in x /\ \A i \in x : i <= b
    BY <1>3, MaxIs
  <1>7. a \in Nat \ {0} /\ b \in 0 .. Len(s) /\ a <= b
    BY <1>1, <1>2, <1>3, <1>5, <1>6
  <1> HIDE DEF a, b
  <1>8. SubSeq(s, a, b) \in Seq(Characters) /\ Len(SubSeq(s, a, b)) = b - a + 1
    BY <1>7, SubSeqFacts
  <1>9. Len(SubSeq(s, a, b)) # 0
    BY <1>7, <1>8
  <1>10. SubSeq(s, a, b) # <<>>
    <2>1. Len(<<>>) = 0
      OBVIOUS
    <2>2. QED
      BY <1>9, <2>1, Zenon
  <1>11. TrimSpace(s) = SubSeq(s, a, b)
    BY <1>3, Zenon DEF TrimSpace, x, a, b, Solid
  <1>12. QED
    BY <1>10, <1>11, Zenon

(* The text of a pair has more than spaces: its equals sign.               *)
LEMMA JoinNotEmpty ==
    ASSUME NEW pairs \in Seq(Pair), pairs # <<>>, NEW sep \in Characters
    PROVE  /\ Join(Parts(pairs), sep) \in Seq(Characters)
           /\ Solid(Join(Parts(pairs), sep)) # {}
  <1> DEFINE s == Join(Parts(pairs), sep)
             p == Part(pairs[1])
  <1>1. /\ Parts(pairs) \in Seq(Seq(Characters)) /\ 1 \in 1 .. Len(Parts(pairs))
        /\ pairs[1] \in Pair /\ Parts(pairs)[1] = p
    <2>1. 1 \in 1 .. Len(pairs)
      OBVIOUS
    <2>2. QED
      BY <2>1, PartsType
  <1>2. PICK pos : Positions(Joined(Parts(pairs), sep), pos)
    <2>1. Joined(Parts(pairs), sep) \in Seq(Seq(Characters))
      BY <1>1, JoinedFacts
    <2>2. QED
      BY <2>1, PositionsExist
  <1>3. s \in Seq(Characters) /\ StandsAt(s, Start(pos, 1) - 1, Parts(pairs)[1])
    <2> PICK k \in 1 .. Len(Parts(pairs)) : k = 1
      BY <1>1
    <2>1. s \in Seq(Characters) /\ StandsAt(s, Start(pos, k) - 1, Parts(pairs)[k])
      BY <1>1, <1>2, PartStands
    <2>2. QED
      BY <2>1
  <1>4. StandsAt(s, 0, p)
    <2>1. Start(pos, 1) - 1 = 0
      BY DEF Start
    <2>2. QED
      BY <1>1, <1>3, <2>1, Zenon
  <1>5. p \in Seq(Characters) /\ {i \in DOMAIN p : p[i] = "="} # {}
    BY <1>1, PartType, PartCut
  <1>6. PICK i \in DOMAIN p : p[i] = "="
    BY <1>5
  <1> HIDE DEF s, p
  <1>7. i \in 1 .. Len(p) /\ i \in Nat
    BY <1>5
  <1>8. 0 + i \in 1 .. Len(s) /\ s[0 + i] = p[i]
    BY <1>3, <1>4, <1>5, <1>7, StandsAtFacts
  <1>9. i \in DOMAIN s /\ s[i] = "="
    <2>1. 0 + i = i /\ DOMAIN s = 1 .. Len(s)
      BY <1>3, <1>7
    <2>2. QED
      BY <1>6, <1>8, <2>1, Zenon
  <1>10. "=" # " "
    BY PlainCharacters, Zenon
  <1>11. i \in Solid(s)
    BY <1>9, <1>10, Zenon DEF Solid
  <1>12. QED
    BY <1>3, <1>11, Zenon DEF s

(* What String writes of a name with a value is split into the parts that  *)
(* it joined, and is not refused as empty.                                 *)
LEMMA StringSplit ==
    ASSUME NEW n \in Table, Pairs(n) # <<>>
    PROVE  /\ String(n) \in Seq(Characters)
           /\ splitUnescaped(String(n), ",") = Parts(Pairs(n))
           /\ TrimSpace(String(n)) # <<>>
           /\ String(n) # <<>>
  <1>1. PICK sep : sep = ","
    BY Zenon
  <1>2. sep \in Reserved \ {"\\"} /\ sep \in Characters
    BY <1>1, Comma, Zenon
  <1>3. Pairs(n) \in Seq(Pair) /\ String(n) = Join(Parts(Pairs(n)), sep)
    BY <1>1, StringIs, Zenon
  <1> DEFINE s == String(n)
             pairs == Pairs(n)
  <1>4. pairs # <<>>
    OBVIOUS
  <1> HIDE DEF s, pairs
  <1>5. pairs \in Seq(Pair) /\ s = Join(Parts(pairs), sep)
    BY <1>3 DEF s, pairs
  <1>6. s \in Seq(Characters) /\ Solid(s) # {}
    BY <1>2, <1>4, <1>5, JoinNotEmpty
  <1>7. TrimSpace(s) # <<>>
    BY <1>6, SomethingLeft
  <1>8. s # <<>>
    <2>1. Solid(<<>>) = {}
      <3>1. DOMAIN <<>> = {}
        OBVIOUS
      <3>2. QED
        BY <3>1, Zenon DEF Solid
    <2>2. QED
      BY <1>6, <2>1
  <1>9. splitUnescaped(s, sep) = Parts(pairs)
    BY <1>2, <1>4, <1>5, JoinSplit
  <1>10. QED
    BY <1>1, <1>6, <1>7, <1>8, <1>9, Zenon DEF s, pairs

(* The text of a name without values is empty.                             *)
LEMMA NoParts ==
    ASSUME NEW n \in Table, Pairs(n) = <<>>
    PROVE  String(n) = <<>>
  <1>1. PICK sep : sep = ","
    BY Zenon
  <1>2. String(n) = Join(Parts(<<>>), sep)
    BY <1>1, StringIs, Zenon
  <1>3. Parts(<<>>) = <<>>
    BY DEF Parts
  <1>4. Join(<<>>, sep) = <<>>
    BY DEF Join, FlattenSeq
  <1>5. QED
    BY <1>2, <1>3, <1>4, Zenon

(* The components that String writes are those that the name holds.        *)
LEMMA PairOf ==
    ASSUME NEW n \in Table, NEW i \in 1 .. Len(Pairs(n))
    PROVE  \E k \in 1 .. 6 : \E j \in 1 .. Len(n[Types[k]]) : Pairs(n)[i].value = n[Types[k]][j]
  <1> DEFINE cs == PairsByType(n)
             s == FlattenSeq(cs)
  <1>1. cs \in Seq(Seq(Pair)) /\ Len(cs) = 6
    BY PairsFacts
  <1>2. PICK pos : Positions(cs, pos)
    BY <1>1, PositionsExist
  <1>3. i \in 1 .. Len(s) /\ Pairs(n) = s
    BY DEF Pairs
  <1> HIDE DEF cs
  <1>4. IsElement(cs, pos, i, s[i])
    BY <1>1, <1>2, <1>3, LayoutElement
  <1> HIDE DEF s
  <1> PICK k \in 1 .. Len(cs) : \E j \in 1 .. Len(cs[k]) : s[i] = cs[k][j]
    BY <1>4 DEF IsElement
  <1>5. PICK j \in 1 .. Len(cs[k]) : s[i] = cs[k][j]
    OBVIOUS
  <1>6. k \in 1 .. 6
    BY <1>1, Zenon
  <1>7. /\ Len(cs[k]) = Len(n[Types[k]])
        /\ \A l \in 1 .. Len(n[Types[k]]) : cs[k][l] = [type |-> Types[k], value |-> n[Types[k]][l]]
    BY <1>6, PairsFacts DEF cs
  <1>8. j \in 1 .. Len(n[Types[k]]) /\ s[i] = [type |-> Types[k], value |-> n[Types[k]][j]]
    BY <1>5, <1>7
  <1>9. s[i].value = n[Types[k]][j]
    BY <1>8
  <1>10. QED
    BY <1>3, <1>6, <1>8, <1>9

(* A name has at most one common name.                                     *)
LEMMA NameFacts ==
    ASSUME NEW n \in Name
    PROVE  n \in Table /\ OneCommonName(n)
  BY DEF Name, Table, OneCommonName

(* A complete name is read back as it was written.                         *)
THEOREM CompleteNameRead ==
    ASSUME NEW n \in Name, Complete(n)
    PROVE  ParseNameString(String(n)) = n
  <1> DEFINE pairs == Pairs(n)
             s == String(n)
             parts == splitUnescaped(s, ",")
             components == [k \in DOMAIN parts |-> Component(parts[k])]
  <1>1. n \in Table /\ OneCommonName(n) /\ n # EmptyName
    BY NameFacts DEF Complete
  <1>2. pairs \in Seq(Pair)
    BY <1>1, StringIs
  <1>3. FoldLeft(Add, EmptyName, pairs) = n
    BY <1>1, Rebuilt
  <1>4. pairs # <<>>
    <2>1. PICK acc : Sums(<<>>, acc)
      <3>1. <<>> \in Seq(Pair)
        OBVIOUS
      <3>2. QED
        BY <3>1, AddSums
    <2>2. FoldLeft(Add, EmptyName, <<>>) = EmptyName
      <3>1. Len(<<>>) = 0
        OBVIOUS
      <3>2. FoldLeft(Add, EmptyName, <<>>) = acc[Len(<<>>)] /\ acc[0] = EmptyName
        BY <2>1 DEF Sums
      <3>3. QED
        BY <3>1, <3>2, Zenon
    <2>3. QED
      BY <1>1, <1>3, <2>2
  <1>5. s \in Seq(Characters) /\ parts = Parts(pairs) /\ TrimSpace(s) # <<>>
    BY <1>1, <1>4, StringSplit
  <1>6. \A i \in 1 .. Len(pairs) : pairs[i].value # <<>>
    <2>1. ASSUME NEW i \in 1 .. Len(pairs)
          PROVE  pairs[i].value # <<>>
      <3> PICK k \in 1 .. 6 : \E j \in 1 .. Len(n[Types[k]]) : pairs[i].value = n[Types[k]][j]
        BY <1>1, PairOf
      <3>1. PICK j \in 1 .. Len(n[Types[k]]) : pairs[i].value = n[Types[k]][j]
        OBVIOUS
      <3>2. Types[k] \in DOMAIN Key
        BY TypesFacts
      <3>3. Types[k] \in DOMAIN n /\ j \in DOMAIN n[Types[k]]
        BY <1>1, <3>2 DEF Table
      <3>4. QED
        BY <3>1, <3>3 DEF Complete
    <2>2. QED
      BY <2>1
  <1> HIDE DEF pairs, s
  <1>7. /\ DOMAIN pairs = 1 .. Len(pairs)
        /\ \A i \in 1 .. Len(pairs) : pairs[i] \in Pair
        /\ pairs = [i \in DOMAIN pairs |-> pairs[i]]
    BY <1>2
  <1>8. \A i \in 1 .. Len(pairs) : Component(Part(pairs[i])) = pairs[i]
    BY <1>6, <1>7, ComponentRead
  <1>9. DOMAIN parts = DOMAIN pairs /\ \A i \in DOMAIN pairs : parts[i] = Part(pairs[i])
    BY <1>5 DEF Parts
  <1> HIDE DEF parts
  <1>10. components = pairs
    BY <1>7, <1>8, <1>9
  <1>11. \A k \in DOMAIN parts : components[k] # Error
    BY <1>7, <1>9, <1>10, ErrorAssumption
  <1>12. ParseNameString(s) = FoldLeft(Add, EmptyName, components)
    BY <1>5, <1>11, Zenon DEF ParseNameString, parts
  <1> HIDE DEF components
  <1>13. ParseNameString(s) = n
    BY <1>3, <1>10, <1>12, Zenon DEF pairs
  <1>14. QED
    BY <1>13 DEF s

(* Different names have different texts.                                   *)
LEMMA PartsDiffer ==
    ASSUME NEW c \in Pair, NEW d \in Pair, Part(c) = Part(d)
    PROVE  c = d
  <1> DEFINE k == Key[c.type]
             l == Key[d.type]
             p == Part(c)
             equals == {i \in DOMAIN p : p[i] = "="}
  <1>1. /\ Len(k) \in Nat /\ SubSeq(p, 1, Len(k)) = k
        /\ SubSeq(p, Len(k) + 1 + 1, Len(p)) = escapeAttributeValue(c.value)
        /\ Min(equals) = Len(k) + 1
    BY PartCut
  <1>2. /\ Len(l) \in Nat /\ SubSeq(p, 1, Len(l)) = l
        /\ SubSeq(p, Len(l) + 1 + 1, Len(p)) = escapeAttributeValue(d.value)
        /\ Min(equals) = Len(l) + 1
    <2> DEFINE q == Part(d)
    <2>1. /\ Len(l) \in Nat /\ SubSeq(q, 1, Len(l)) = l
          /\ SubSeq(q, Len(l) + 1 + 1, Len(q)) = escapeAttributeValue(d.value)
          /\ Min({i \in DOMAIN q : q[i] = "="}) = Len(l) + 1
      BY PartCut
    <2>2. q = p
      OBVIOUS
    <2> HIDE DEF q, p, l
    <2>3. QED
      BY <2>1, <2>2
  <1>3. Len(k) = Len(l)
    <2> DEFINE a == Len(k)
               b == Len(l)
               m == Min(equals)
    <2>1. a \in Nat /\ b \in Nat /\ m = a + 1 /\ m = b + 1
      BY <1>1, <1>2
    <2> HIDE DEF a, b, m
    <2>2. a = b
      BY <2>1
    <2>3. QED
      BY <2>2 DEF a, b
  <1>4. c.type = d.type
    <2>1. k = l
      BY <1>1, <1>2, <1>3, Zenon
    <2>2. c.type \in DOMAIN Key /\ d.type \in DOMAIN Key
      BY PartType
    <2>3. QED
      BY <2>1, <2>2, KeysDiffer
  <1>5. c.value = d.value
    <2>1. escapeAttributeValue(c.value) = escapeAttributeValue(d.value)
      BY <1>1, <1>2, <1>3, Zenon
    <2>2. c.value \in Seq(Characters) /\ d.value \in Seq(Characters)
      BY PartType
    <2>3. QED
      BY <2>1, <2>2, EscapeUndone
  <1>6. c = [type |-> c.type, value |-> c.value] /\ d = [type |-> d.type, value |-> d.value]
    BY DEF Pair
  <1>7. QED
    BY <1>4, <1>5, <1>6

(* Names with the same text are the same name: the text determines the     *)
(* parts, a part its type and its escaped value, and that the value.       *)
THEOREM NamesDiffer ==
    ASSUME NEW n \in Name, NEW m \in Name, String(n) = String(m)
    PROVE  n = m
  <1> DEFINE p == Pairs(n)
             q == Pairs(m)
  <1>1. n \in Table /\ OneCommonName(n) /\ m \in Table /\ OneCommonName(m)
    BY NameFacts
  <1>2. p \in Seq(Pair) /\ q \in Seq(Pair)
    BY <1>1, StringIs
  <1>3. p = q
    <2>1. CASE p = <<>>
      BY <1>1, <2>1, NoParts, StringSplit
    <2>2. CASE q = <<>>
      BY <1>1, <2>2, NoParts, StringSplit
    <2>3. CASE p # <<>> /\ q # <<>>
      <3>1. Parts(p) = Parts(q)
        BY <1>1, <2>3, StringSplit
      <3> HIDE DEF p, q
      <3>2. DOMAIN p = DOMAIN q /\ \A i \in DOMAIN p : Part(p[i]) = Part(q[i])
        BY <3>1 DEF Parts
      <3>3. \A i \in DOMAIN p : p[i] \in Pair /\ q[i] \in Pair
        BY <1>2, <3>2
      <3>4. \A i \in DOMAIN p : p[i] = q[i]
        BY <3>2, <3>3, PartsDiffer
      <3>5. p = [i \in DOMAIN p |-> p[i]] /\ q = [i \in DOMAIN q |-> q[i]]
        BY <1>2
      <3>6. QED
        BY <3>2, <3>4, <3>5
    <2>4. QED
      BY <2>1, <2>2, <2>3
  <1>4. FoldLeft(Add, EmptyName, p) = n /\ FoldLeft(Add, EmptyName, q) = m
    BY <1>1, Rebuilt
  <1>5. QED
    BY <1>3, <1>4

-----------------------------------------------------------------------------
(* Reading any text                                                        *)

(* What an accepted component can be. *)
Given == {c \in Pair : c.value # <<>>}

(* A component that is accepted has a type and a value that is not empty.  *)
LEMMA ComponentType ==
    ASSUME NEW p \in Seq(Characters), Component(p) # Error
    PROVE  Component(p) \in Given
  <1> DEFINE equals == {i \in DOMAIN p : p[i] = "="}
             cut == Min(equals)
             key == TrimSpace(SubSeq(p, 1, cut - 1))
             raw == SubSeq(p, cut + 1, Len(p))
             value == unescapeAttributeValue(raw)
             types == {t \in DOMAIN Key : Key[t] = ToUpper(key)}
             type == CHOOSE t \in types : TRUE
  <1>1. /\ equals # {}
        /\ value \notin {Error, <<>>}
        /\ types # {}
        /\ Component(p) = [type |-> type, value |-> value]
    BY Zenon DEF Component
  <1>2. raw \in Seq(Characters)
    <2>1. Len(p) \in Nat /\ DOMAIN p = 1 .. Len(p) /\ Len(p) \in 0 .. Len(p)
      OBVIOUS
    <2>2. equals \subseteq Nat
      BY <2>1
    <2>3. PICK m \in equals : \A n \in equals : m <= n
      BY <1>1, <2>2, Smallest
    <2>4. cut \in equals
      BY <2>3 DEF Min
    <2>5. cut + 1 \in Nat \ {0}
      BY <2>2, <2>4
    <2> HIDE DEF cut, equals
    <2>6. QED
      <3> DEFINE a == cut + 1
      <3> HIDE DEF a
      <3>1. SubSeq(p, a, Len(p)) \in Seq(Characters)
        BY <2>1, <2>5, SubSeqFacts DEF a
      <3>2. QED
        BY <3>1 DEF a
  <1> HIDE DEF raw
  <1>3. value \in Result
    <2>1. PICK from : Reads(raw, from)
      BY <1>2, UnescapeReads
    <2>2. 1 \in 1 .. Len(raw) + 1
      BY <1>2
    <2>3. QED
      BY <2>1, <2>2 DEF Reads
  <1>4. value \in Seq(Characters) /\ value # <<>>
    BY <1>1, <1>3 DEF Result
  <1>5. type \in DOMAIN Key
    <2>1. type \in types
      BY <1>1
    <2>2. QED
      BY <2>1
  <1> HIDE DEF type, value
  <1>6. QED
    BY <1>1, <1>4, <1>5 DEF Given, Pair

(* Texts are split into texts.                                             *)
LEMMA SplitType ==
    ASSUME NEW s \in Seq(Characters), NEW sep
    PROVE  splitUnescaped(s, sep) \in Seq(Seq(Characters))
  <1> DEFINE positions == Separators(s, sep)
             n == Len(s)
  <1> HIDE DEF positions
  <1>1. PICK acc : Rounds(s, positions, acc)
    BY CutAtRounds
  <1>2. n \in Nat /\ n \in 0 .. n
    OBVIOUS
  <1>3. acc[n] \in Split /\ CutAt(s, positions) = Append(acc[n].parts, SubSeq(s, acc[n].start, n))
    BY <1>1, <1>2 DEF Rounds
  <1> DEFINE parts == acc[n].parts
             start == acc[n].start
  <1>4. parts \in Seq(Seq(Characters)) /\ start \in Nat \ {0}
    BY <1>3 DEF Split
  <1> HIDE DEF parts, start
  <1>5. SubSeq(s, start, n) \in Seq(Characters)
    BY <1>2, <1>4, SubSeqFacts
  <1>6. Append(parts, SubSeq(s, start, n)) \in Seq(Seq(Characters))
    BY <1>4, <1>5
  <1>7. QED
    BY <1>3, <1>6, Zenon DEF splitUnescaped, positions, parts, start

Components(s) ==
    [k \in DOMAIN splitUnescaped(s, ",") |-> Component(splitUnescaped(s, ",")[k])]

(* An accepted text: every component was accepted, and was added.          *)
LEMMA Accepted ==
    ASSUME NEW s \in Seq(Characters), ParseNameString(s) # Error
    PROVE  /\ Components(s) \in Seq(Given)
           /\ Components(s) \in Seq(Pair)
           /\ Len(Components(s)) = Len(splitUnescaped(s, ","))
           /\ Len(Components(s)) \in Nat
           /\ \A k \in 1 .. Len(Components(s)) : Components(s)[k] = Component(splitUnescaped(s, ",")[k])
           /\ ParseNameString(s) = FoldLeft(Add, EmptyName, Components(s))
  <1> DEFINE parts == splitUnescaped(s, ",")
             components == Components(s)
  <1>1. parts \in Seq(Seq(Characters))
    <2>1. PICK sep : sep = ","
      BY Zenon
    <2>2. splitUnescaped(s, sep) \in Seq(Seq(Characters))
      BY SplitType
    <2>3. QED
      BY <2>1, <2>2, Zenon
  <1>2. /\ \A k \in DOMAIN parts : Component(parts[k]) # Error
        /\ ParseNameString(s) = FoldLeft(Add, EmptyName, components)
    BY Zenon DEF ParseNameString, Components
  <1>3. components = [k \in DOMAIN parts |-> Component(parts[k])]
    BY Zenon DEF Components
  <1> HIDE DEF parts, components
  <1>4. \A k \in DOMAIN parts : parts[k] \in Seq(Characters)
    BY <1>1
  <1>5. \A k \in DOMAIN parts : Component(parts[k]) \in Given
    BY <1>2, <1>4, ComponentType
  <1>6. DOMAIN parts = 1 .. Len(parts) /\ Len(parts) \in Nat
    BY <1>1
  <1>7. components \in [1 .. Len(parts) -> Given]
    BY <1>3, <1>5, <1>6
  <1>8. components \in Seq(Given) /\ Len(components) = Len(parts)
    BY <1>6, <1>7
  <1>9. components \in Seq(Pair)
    <2>1. components \in [1 .. Len(parts) -> Pair]
      BY <1>7 DEF Given
    <2>2. QED
      BY <1>6, <2>1
  <1>10. \A k \in 1 .. Len(components) : components[k] = Component(parts[k])
    BY <1>3, <1>6, <1>8
  <1>11. QED
    BY <1>2, <1>6, <1>8, <1>9, <1>10, Zenon DEF parts, components

(* What ParseNameString accepts is a name.                                 *)
LEMMA AddName ==
    ASSUME NEW n \in Name, NEW c \in Given
    PROVE  Add(n, c) \in Name
  <1> DEFINE m == Add(n, c)
  <1>1. n \in Table /\ c \in Pair /\ c.value # <<>> /\ c.value \in Seq(Characters) /\ c.type \in DOMAIN Key
    BY NameFacts DEF Given, Pair
  <1>2. /\ m \in Table
        /\ \A t \in DOMAIN Key : t # c.type => m[t] = n[t]
        /\ m[c.type] = IF c.type = "CN" THEN <<c.value>> ELSE Append(n[c.type], c.value)
    BY <1>1, AddFacts
  <1> HIDE DEF m
  <1>3. "CN" \in DOMAIN Key
    BY DEF Key
  <1>4. Len(n["CN"]) <= 1 /\ \A j \in DOMAIN n["CN"] : n["CN"][j] # <<>>
    BY DEF Name
  <1>5. Len(m["CN"]) <= 1 /\ \A j \in DOMAIN m["CN"] : m["CN"][j] # <<>>
    <2>1. CASE c.type = "CN"
      <3>1. m["CN"] = <<c.value>>
        BY <1>2, <2>1
      <3>2. \A x : Len(<<x>>) <= 1 /\ \A j \in DOMAIN <<x>> : <<x>>[j] = x
        OBVIOUS
      <3>3. QED
        BY <1>1, <3>1, <3>2, Zenon
    <2>2. CASE c.type # "CN"
      <3>1. m["CN"] = n["CN"]
        BY <1>2, <1>3, <2>2
      <3>2. QED
        BY <1>4, <3>1
    <2>3. QED
      BY <2>1, <2>2
  <1>6. QED
    BY <1>2, <1>5 DEF Name, Table, m

(* What ParseNameString accepts becomes a name.                            *)
LEMMA ParsedName ==
    ASSUME NEW s \in Seq(Characters), ParseNameString(s) # Error
    PROVE  ParseNameString(s) \in Name
  <1> DEFINE components == Components(s)
             n == Len(components)
  <1>1. /\ components \in Seq(Given) /\ components \in Seq(Pair)
        /\ n \in Nat
        /\ ParseNameString(s) = FoldLeft(Add, EmptyName, components)
    BY Accepted
  <1> HIDE DEF components
  <1>2. PICK acc : Sums(components, acc)
    BY <1>1, AddSums
  <1> DEFINE T == {i \in 0 .. n : acc[i] \in Name}
  <1>3. 0 \in T
    <2>1. EmptyName \in Name
      <3>1. "CN" \in DOMAIN Key
        BY DEF Key
      <3>2. EmptyName["CN"] = <<>>
        BY <3>1 DEF EmptyName
      <3>3. EmptyName \in [DOMAIN Key -> Seq(Seq(Characters))]
        BY DEF EmptyName
      <3>4. Len(<<>>) <= 1 /\ DOMAIN <<>> = {}
        OBVIOUS
      <3>5. QED
        BY <3>2, <3>3, <3>4 DEF Name
    <2>2. 0 \in 0 .. n /\ acc[0] = EmptyName
      BY <1>1, <1>2 DEF Sums
    <2>3. QED
      BY <2>1, <2>2
  <1>4. ASSUME NEW i \in 0 .. n - 1, i \in T
        PROVE  i + 1 \in T
    <2>1. i + 1 \in 1 .. n /\ i + 1 \in 0 .. n /\ (i + 1) - 1 = i
      BY <1>1
    <2>2. acc[i + 1] = Add(acc[i], components[i + 1])
      BY <1>2, <2>1 DEF Sums
    <2>3. components[i + 1] \in Given /\ acc[i] \in Name
      BY <1>1, <1>4, <2>1
    <2>4. Add(acc[i], components[i + 1]) \in Name
      BY <2>3, AddName
    <2>5. QED
      BY <2>1, <2>2, <2>4
  <1>5. n \in T
    <2>1. 0 \in Int /\ n \in Int /\ n \in 0 .. n
      BY <1>1
    <2> HIDE DEF T, n
    <2>2. QED
      BY <1>3, <1>4, <2>1, Upwards
  <1>6. ParseNameString(s) = acc[n]
    BY <1>1, <1>2 DEF Sums
  <1>7. QED
    BY <1>5, <1>6

-----------------------------------------------------------------------------
(* No component is lost                                                    *)

(* A value that is appended is there, and those before it remain.          *)
LEMMA AppendContains ==
    ASSUME NEW S, NEW x \in Seq(S), NEW v \in S
    PROVE  /\ Contains(<<v>>, v)
           /\ Contains(Append(x, v), v)
           /\ \A u : Contains(x, u) => Contains(Append(x, v), u)
  <1> DEFINE n == Len(x)
             y == Append(x, v)
  <1>1. /\ n \in Nat /\ Len(y) = n + 1 /\ y[n + 1] = v /\ \A i \in 1 .. n : y[i] = x[i]
    OBVIOUS
  <1>2. Contains(<<v>>, v)
    <2>1. 1 \in 1 .. Len(<<v>>) /\ <<v>>[1] = v
      OBVIOUS
    <2>2. QED
      BY <2>1 DEF Contains
  <1> HIDE DEF n, y
  <1>3. n + 1 \in 1 .. Len(y) /\ \A i \in 1 .. n : i \in 1 .. Len(y)
    BY <1>1
  <1>4. Contains(y, v)
    BY <1>1, <1>3 DEF Contains
  <1>5. \A u : Contains(x, u) => Contains(y, u)
    BY <1>1, <1>3 DEF Contains, n
  <1>6. QED
    BY <1>2, <1>4, <1>5 DEF y

(* The value of a component is in the name n, unless it is a common name   *)
(* and one of the components after it, up to i, is one too.                *)
Kept(components, n, k, i) ==
    \/ Contains(n[components[k].type], components[k].value)
    \/ /\ components[k].type = "CN"
       /\ \E l \in k + 1 .. i : components[l].type = "CN"

(* A component is kept when it is added, and remains so when others are.   *)
LEMMA KeptByAdd ==
    ASSUME NEW components \in Seq(Pair), NEW k \in 1 .. Len(components), NEW n \in Table
    PROVE  /\ Kept(components, Add(n, components[k]), k, k)
           /\ \A i \in k .. Len(components) - 1 :
                Kept(components, n, k, i) => Kept(components, Add(n, components[i + 1]), k, i + 1)
  <1> DEFINE c == components[k]
             m == Len(components)
             t == c.type
  <1>1. m \in Nat /\ \A i \in 1 .. m : components[i] \in Pair
    OBVIOUS
  <1>2. \A d \in Pair : d.type \in DOMAIN Key /\ d.value \in Seq(Characters)
    BY DEF Pair
  <1>3. c \in Pair /\ t \in DOMAIN Key /\ n[t] \in Seq(Seq(Characters))
    <2>1. c \in Pair
      BY <1>1
    <2>2. QED
      BY <1>2, <2>1 DEF Table
  <1>4. Kept(components, Add(n, c), k, k)
    <2>1. Add(n, c)[t] = IF t = "CN" THEN <<c.value>> ELSE Append(n[t], c.value)
      BY <1>3, AddFacts
    <2>2. c.value \in Seq(Characters)
      BY <1>2, <1>3
    <2> DEFINE v == c.value
               x == n[t]
    <2>3. x \in Seq(Seq(Characters)) /\ v \in Seq(Characters)
      BY <1>3, <2>2
    <2> HIDE DEF v, x
    <2>4. Contains(<<v>>, v) /\ Contains(Append(x, v), v)
      BY <2>3, AppendContains
    <2>5. Contains(Add(n, c)[t], c.value)
      BY <2>1, <2>4, Zenon DEF v, x
    <2>6. QED
      BY <2>5 DEF Kept
  <1>5. ASSUME NEW i \in k .. m - 1, Kept(components, n, k, i)
        PROVE  Kept(components, Add(n, components[i + 1]), k, i + 1)
    <2> DEFINE d == components[i + 1]
               o == Add(n, d)
    <2>1. i + 1 \in 1 .. m /\ i + 1 \in k + 1 .. i + 1 /\ \A l \in k + 1 .. i : l \in k + 1 .. i + 1
      BY <1>1
    <2>2. d \in Pair
      BY <1>1, <2>1
    <2>3. /\ \A u \in DOMAIN Key : u # d.type => o[u] = n[u]
          /\ o[d.type] = IF d.type = "CN" THEN <<d.value>> ELSE Append(n[d.type], d.value)
      BY <2>2, AddFacts
    <2> HIDE DEF o
    <2>4. CASE t = "CN" /\ \E l \in k + 1 .. i : components[l].type = "CN"
      BY <2>1, <2>4 DEF Kept
    <2>5. CASE Contains(n[t], c.value) /\ d.type # t
      <3>1. o[t] = n[t]
        BY <1>3, <2>3, <2>5
      <3>2. QED
        BY <2>5, <3>1 DEF Kept, o
    <2>6. CASE d.type = t /\ t = "CN"
      BY <2>1, <2>6 DEF Kept
    <2>7. CASE Contains(n[t], c.value) /\ d.type = t /\ t # "CN"
      <3> DEFINE v == d.value
                 x == n[t]
      <3>1. x \in Seq(Seq(Characters)) /\ v \in Seq(Characters) /\ o[t] = Append(x, v)
        BY <1>2, <1>3, <2>2, <2>3, <2>7
      <3> HIDE DEF x, v
      <3>2. \A u : Contains(x, u) => Contains(Append(x, v), u)
        BY <3>1, AppendContains
      <3>3. Contains(o[t], c.value)
        BY <2>7, <3>1, <3>2, Zenon DEF x
      <3>4. QED
        BY <3>3 DEF Kept, o
    <2>8. QED
      BY <1>5, <2>4, <2>5, <2>6, <2>7 DEF Kept
  <1>6. QED
    BY <1>4, <1>5

(* Every component of an accepted text is kept: by induction over the      *)
(* components after it.                                                    *)
THEOREM ComponentsKept ==
    ASSUME NEW s \in Seq(Characters), ParseNameString(s) # Error,
           NEW k \in 1 .. Len(Components(s))
    PROVE  Kept(Components(s), ParseNameString(s), k, Len(Components(s)))
  <1> DEFINE components == Components(s)
             m == Len(components)
  <1>1. /\ components \in Seq(Pair)
        /\ m \in Nat /\ k \in 1 .. m
        /\ ParseNameString(s) = FoldLeft(Add, EmptyName, components)
    BY Accepted
  <1> HIDE DEF components
  <1>2. PICK acc : Sums(components, acc)
    BY <1>1, AddSums
  <1>3. \A i \in 1 .. m : acc[i] = Add(acc[i - 1], components[i]) /\ acc[i - 1] \in Table
    <2>1. \A i \in 1 .. m : i - 1 \in 0 .. m
      BY <1>1
    <2>2. QED
      BY <1>2, <2>1 DEF Sums
  <1> DEFINE T == {i \in k .. m : Kept(components, acc[i], k, i)}
  <1>4. k \in T
    <2>1. Kept(components, Add(acc[k - 1], components[k]), k, k)
      BY <1>1, <1>3, KeptByAdd
    <2>2. k \in k .. m /\ acc[k] = Add(acc[k - 1], components[k])
      BY <1>1, <1>3
    <2>3. QED
      BY <2>1, <2>2
  <1>5. ASSUME NEW i \in k .. m - 1, i \in T
        PROVE  i + 1 \in T
    <2>1. i + 1 \in 1 .. m /\ (i + 1) - 1 = i /\ i + 1 \in k .. m
      BY <1>1
    <2>2. acc[i + 1] = Add(acc[i], components[i + 1]) /\ acc[i] \in Table
      BY <1>3, <2>1
    <2>3. Kept(components, acc[i], k, i)
      BY <1>5
    <2> HIDE DEF T
    <2>4. Kept(components, Add(acc[i], components[i + 1]), k, i + 1)
      BY <1>1, <2>2, <2>3, KeptByAdd
    <2>5. QED
      BY <2>1, <2>2, <2>4 DEF T
  <1>6. m \in T
    <2>1. k \in Int /\ m \in Int /\ m \in k .. m
      BY <1>1
    <2> HIDE DEF T, m
    <2>2. QED
      BY <1>4, <1>5, <2>1, Upwards
  <1>7. ParseNameString(s) = acc[m]
    BY <1>1, <1>2 DEF Sums
  <1>8. QED
    BY <1>6, <1>7 DEF components, m

-----------------------------------------------------------------------------
(* The specification                                                       *)

(* The inductive invariant: what is written is a name, what was read is    *)
(* what ParseNameString made of the text, and the later steps follow from  *)
(* it.                                                                     *)
IInv ==
    /\ pc \in {"read", "refused", "write", "reread", "done"}
    /\ origin \in {"read", "made"}
    /\ given \in Seq(Characters)
    /\ origin = "made" => pc \notin {"read", "refused"} /\ name \in Names
    /\ origin = "read" /\ pc \in {"write", "reread", "done"} =>
          name = ParseNameString(given) /\ name # Error
    /\ pc \in {"reread", "done"} => text = String(name)
    /\ pc = "done" => back = ParseNameString(text)

(* Every state of the specification satisfies the inductive invariant: the *)
(* three steps run in the order of pc, each on the result of the one       *)
(* before it.                                                              *)
THEOREM Invariance == Spec => []IInv
  <1>1. Init => IInv
    <2>1. <<>> \in Seq(Characters)
      OBVIOUS
    <2>2. QED
      BY <2>1, TextsAssumption DEF Init, IInv
  <1>2. IInv /\ [Next]_vars => IInv'
    <2>1. SUFFICES ASSUME IInv, [Next]_vars
                   PROVE  IInv'
      OBVIOUS
    <2>2. CASE Read
      BY <2>1, <2>2 DEF IInv, Read
    <2>3. CASE Write
      BY <2>1, <2>3 DEF IInv, Write
    <2>4. CASE Reread
      BY <2>1, <2>4 DEF IInv, Reread
    <2>5. CASE UNCHANGED vars
      BY <2>1, <2>5 DEF IInv, vars
    <2>6. QED
      BY <2>1, <2>2, <2>3, <2>4, <2>5 DEF Next
  <1>3. QED
    BY <1>1, <1>2, PTL DEF Spec

(* What is written is a name. *)
LEMMA NameWritten ==
    ASSUME IInv, pc \in {"write", "reread", "done"}
    PROVE  name \in Name
  <1>1. CASE origin = "made"
    BY <1>1, NamesAssumption DEF IInv
  <1>2. CASE origin = "read"
    BY <1>2, ParsedName DEF IInv
  <1>3. QED
    BY <1>1, <1>2 DEF IInv

(* ParseNameString reads back what String writes of a complete name: the   *)
(* escapes of escapeAttributeValue and the backslashes that splitUnescaped *)
(* counts agree on every separator, for values of any length.              *)
THEOREM NamesSurvive == Spec => []CompleteNamesSurvive
  <1>1. IInv => CompleteNamesSurvive
    <2>1. SUFFICES ASSUME IInv, pc = "done", Complete(name)
                   PROVE  back = name
      BY DEF CompleteNamesSurvive
    <2>2. name \in Name
      BY <2>1, NameWritten
    <2>3. ParseNameString(String(name)) = name
      BY <2>1, <2>2, CompleteNameRead
    <2>4. QED
      BY <2>1, <2>3 DEF IInv
  <1>2. QED
    BY <1>1, Invariance, PTL

(* The text of a name, which subject_dn holds, is that of no other name,   *)
(* whatever values, empty ones too, String is given.                       *)
THEOREM NamesToldApart == Spec => []NamesAreToldApart
  <1>1. IInv => NamesAreToldApart
    <2>1. SUFFICES ASSUME IInv, pc = "reread", origin = "made",
                          NEW w \in Written, w.text = text
                   PROVE  w.name = name
      BY DEF NamesAreToldApart
    <2>2. PICK n \in Names : w = [name |-> n, text |-> String(n)]
      BY <2>1 DEF Written
    <2>3. w.name = n /\ w.text = String(n)
      BY <2>2
    <2>4. name \in Names /\ text = String(name)
      BY <2>1 DEF IInv
    <2>5. n \in Name /\ name \in Name
      BY <2>2, <2>4, NamesAssumption
    <2>6. n = name
      BY <2>1, <2>3, <2>4, <2>5, NamesDiffer
    <2>7. QED
      BY <2>3, <2>6
  <1>2. QED
    BY <1>1, Invariance, PTL

(* Every component that ParseNameString accepts is a value of the name, or *)
(* a common name that a later component replaces.                          *)
THEOREM NothingDropped == Spec => []NothingElseIsDropped
  <1>1. IInv => NothingElseIsDropped
    <2> DEFINE parts == splitUnescaped(given, ",")
               components == Components(given)
    <2>1. SUFFICES ASSUME IInv, origin = "read", pc = "write",
                          NEW k \in DOMAIN parts
                   PROVE  \/ Contains(name[Component(parts[k]).type], Component(parts[k]).value)
                          \/ /\ Component(parts[k]).type = "CN"
                             /\ \E l \in k + 1 .. Len(parts) : Component(parts[l]).type = "CN"
      BY Zenon DEF NothingElseIsDropped
    <2>2. given \in Seq(Characters) /\ name = ParseNameString(given) /\ name # Error
      BY <2>1 DEF IInv
    <2>3. /\ Len(components) = Len(parts) /\ Len(components) \in Nat
          /\ \A l \in 1 .. Len(components) : components[l] = Component(parts[l])
      BY <2>2, Accepted
    <2>4. parts \in Seq(Seq(Characters))
      BY <2>2, SplitType
    <2> HIDE DEF parts, components
    <2>5. k \in 1 .. Len(components) /\ k \in Nat
      BY <2>1, <2>3, <2>4
    <2>6. Kept(components, name, k, Len(components))
      BY <2>2, <2>5, ComponentsKept DEF components
    <2>7. \A l \in k + 1 .. Len(parts) : l \in 1 .. Len(components)
      BY <2>3, <2>5
    <2>8. QED
      BY <2>3, <2>5, <2>6, <2>7 DEF Kept
  <1>2. QED
    BY <1>1, Invariance, PTL

=============================================================================
