------------------------ MODULE PathValidationProofs ------------------------
(***************************************************************************)
(* Certificate.Verify returns exactly the valid chains, and its error      *)
(* tells why there is none, proved for any certificates, any pools and any *)
(* limit of the depth: in particular however CAs have certified each       *)
(* other.  That it returns at all is a question for TLC.                   *)
(***************************************************************************)
EXTENDS PathValidation, SequenceTheorems, TLAPS

-----------------------------------------------------------------------------
(* Sequences *)

LEMMA AppendFacts ==
  ASSUME NEW S, NEW s \in Seq(S), NEW e \in S
  PROVE  /\ Append(s, e) \in Seq(S)
         /\ Len(s) \in Nat
         /\ Len(Append(s, e)) = Len(s) + 1
         /\ \A i \in 1 .. Len(s) : Append(s, e)[i] = s[i]
         /\ Append(s, e)[Len(s) + 1] = e
  BY AppendProperties, LenProperties

LEMMA FrontFacts ==
  ASSUME NEW S, NEW s \in Seq(S), s # <<>>
  PROVE  /\ Len(s) \in Nat /\ Len(s) > 0
         /\ Front(s) \in Seq(S)
         /\ Len(Front(s)) = Len(s) - 1
         /\ \A i \in 1 .. Len(s) - 1 : Front(s)[i] = s[i]
         /\ (Front(s) = <<>>) <=> (Len(s) = 1)
<1>1. Len(s) \in Nat /\ Len(s) > 0
  BY EmptySeq, LenProperties
<1> DEFINE n == Len(s) - 1
<1>2. n \in Nat /\ \A i \in 1 .. n : s[i] \in S
  BY <1>1, ElementOfSeq
<1>3. n = Len(s) - 1
  OBVIOUS
<1> HIDE DEF n
<1>4. /\ SubSeq(s, 1, n) \in Seq(S)
      /\ Len(SubSeq(s, 1, n)) = IF 1 <= n THEN n - 1 + 1 ELSE 0
      /\ \A i \in 1 .. n - 1 + 1 : SubSeq(s, 1, n)[i] = s[1 + i - 1]
  <2>1. 1 \in Int /\ n \in Int
    BY <1>2
  <2> QED
    BY <1>2, <2>1, SubSeqProperties
<1>5. /\ Len(SubSeq(s, 1, n)) = n
      /\ \A i \in 1 .. n : SubSeq(s, 1, n)[i] = s[i]
  BY <1>2, <1>4
<1>6. SubSeq(s, 1, n) = <<>> <=> n = 0
  <2>1. SubSeq(s, 1, n) = <<>> => n = 0
    BY <1>5, EmptySeq
  <2>2. n = 0 => SubSeq(s, 1, n) = <<>>
    BY <1>4, <1>5, EmptySeq
  <2> QED
    BY <2>1, <2>2
<1>7. Front(s) = SubSeq(s, 1, n)
  BY <1>3 DEF Front
<1> QED
  BY <1>1, <1>2, <1>3, <1>4, <1>5, <1>6, <1>7

-----------------------------------------------------------------------------
(* Links and chains *)

(* The errors that note keeps. *)
LinkErrors == Errors \ {"unknown_authority"}

(* A chain that the search may be at, said by its elements. *)
IsPartial(p) ==
    /\ p \in Seq(Certs)
    /\ Len(p) >= 1 /\ Len(p) <= MaxChainDepth
    /\ p[1] = input.leaf
    /\ \A i \in 2 .. Len(p) : \E j \in 1 .. Len(input.inters) : input.inters[j] = p[i]
    /\ \A i, j \in 1 .. Len(p) : p[i] = p[j] => i = j
    /\ \A i \in 1 .. Len(p) - 1 : Issued(p, i)

(* The inputs have the types that the code gives them. *)
LEMMA InputFacts ==
  ASSUME input \in Inputs
  PROVE  /\ input.leaf \in Certs
         /\ input.roots \in Seq(Certs) /\ Len(input.roots) \in Nat
         /\ input.inters \in Seq(Certs) /\ Len(input.inters) \in Nat
         /\ \A i \in 1 .. Len(input.roots) : input.roots[i] \in Certs
         /\ \A i \in 1 .. Len(input.inters) : input.inters[i] \in Certs
         /\ \A c \in Certs : /\ Attr(c).period \in {"future", "now", "past"}
                             /\ Attr(c).maxPathLen \in Int
  BY InputAssumption, LenProperties, ElementOfSeq DEF Attr

LEMMA PartialFacts ==
  ASSUME input \in Inputs
  PROVE  \A p : p \in Partial <=> IsPartial(p)
<1>1. ASSUME NEW p, p \in Partial
      PROVE  IsPartial(p)
  <2>1. /\ \A i, j \in 1 .. Len(p) : p[i] = p[j] => i = j
        /\ \A i \in 1 .. Len(p) - 1 : Issued(p, i)
    BY <1>1 DEF Partial
  <2>2. PICK s \in SeqOf(ToSet(input.inters), MaxChainDepth - 1) : p = <<input.leaf>> \o s
    BY <1>1 DEF Partial
  <2>3. PICK m \in 0 .. MaxChainDepth - 1 : s \in [1 .. m -> ToSet(input.inters)]
    BY <2>2, DepthAssumption DEF SeqOf
  <2>4. DOMAIN input.inters = 1 .. Len(input.inters)
    BY InputFacts, LenProperties
  <2>5. \A i \in 1 .. m : \E j \in 1 .. Len(input.inters) : input.inters[j] = s[i]
    BY <2>3, <2>4 DEF ToSet
  <2>6. s \in [1 .. m -> Certs] /\ m \in Nat
    BY <2>3, <2>5, InputFacts, DepthAssumption
  <2>7. s \in Seq(Certs) /\ Len(s) = m
    BY <2>6
  <2>8. <<input.leaf>> \in Seq(Certs) /\ Len(<<input.leaf>>) = 1 /\ <<input.leaf>>[1] = input.leaf
    BY InputFacts
  <2>9. /\ p \in Seq(Certs) /\ Len(p) = 1 + m
        /\ \A i \in 1 .. 1 + m : p[i] = IF i <= 1 THEN <<input.leaf>>[i] ELSE s[i - 1]
    BY <2>2, <2>7, <2>8, ConcatProperties
  <2>10. p[1] = input.leaf
    BY <2>6, <2>8, <2>9
  <2>11. \A i \in 2 .. Len(p) : p[i] = s[i - 1] /\ i - 1 \in 1 .. m
    BY <2>6, <2>9
  <2>12. \A i \in 2 .. Len(p) : \E j \in 1 .. Len(input.inters) : input.inters[j] = p[i]
    BY <2>5, <2>11
  <2>13. Len(p) >= 1 /\ Len(p) <= MaxChainDepth
    BY <2>3, <2>6, <2>9, DepthAssumption
  <2> QED
    BY <2>1, <2>9, <2>10, <2>12, <2>13 DEF IsPartial
<1>2. ASSUME NEW p, IsPartial(p)
      PROVE  p \in Partial
  <2> DEFINE m == Len(p) - 1
             s == [i \in 1 .. m |-> p[i + 1]]
  <2>1. /\ p \in Seq(Certs) /\ Len(p) \in Nat
        /\ m \in 0 .. MaxChainDepth - 1
        /\ p[1] = input.leaf
    BY <1>2, DepthAssumption, LenProperties DEF IsPartial
  <2>2. DOMAIN input.inters = 1 .. Len(input.inters)
    BY InputFacts, LenProperties
  <2>3. \A i \in 1 .. m : p[i + 1] \in ToSet(input.inters) /\ p[i + 1] \in Certs
    <3> SUFFICES ASSUME NEW i \in 1 .. m
                 PROVE  p[i + 1] \in ToSet(input.inters) /\ p[i + 1] \in Certs
      OBVIOUS
    <3>1. i + 1 \in 2 .. Len(p)
      BY <2>1
    <3>2. PICK j \in 1 .. Len(input.inters) : input.inters[j] = p[i + 1]
      BY <1>2, <3>1 DEF IsPartial
    <3> QED
      BY <2>2, <3>2, InputFacts DEF ToSet
  <2>4. s \in [1 .. m -> ToSet(input.inters)] /\ s \in [1 .. m -> Certs]
    BY <2>3
  <2>5. s \in SeqOf(ToSet(input.inters), MaxChainDepth - 1)
    BY <2>1, <2>4 DEF SeqOf
  <2>6. s \in Seq(Certs) /\ Len(s) = m
    BY <2>1, <2>4
  <2>7. <<input.leaf>> \in Seq(Certs) /\ Len(<<input.leaf>>) = 1 /\ <<input.leaf>>[1] = input.leaf
    BY InputFacts
  <2>8. /\ <<input.leaf>> \o s \in Seq(Certs) /\ Len(<<input.leaf>> \o s) = 1 + m
        /\ \A i \in 1 .. 1 + m :
             (<<input.leaf>> \o s)[i] = IF i <= 1 THEN <<input.leaf>>[i] ELSE s[i - 1]
    <3> HIDE DEF s, m
    <3> QED
      BY <2>6, <2>7, ConcatProperties
  <2>9. \A i \in 1 .. Len(p) : (<<input.leaf>> \o s)[i] = p[i]
    <3> SUFFICES ASSUME NEW i \in 1 .. Len(p)
                 PROVE  (<<input.leaf>> \o s)[i] = p[i]
      OBVIOUS
    <3>1. CASE i = 1
      BY <2>1, <2>7, <2>8, <3>1
    <3>2. CASE i > 1
      <4>1. i - 1 \in 1 .. m /\ (i - 1) + 1 = i /\ i \in 1 .. 1 + m
        BY <2>1, <3>2
      <4>2. s[i - 1] = p[i]
        BY <4>1
      <4> QED
        BY <2>8, <3>2, <4>1, <4>2
    <3> QED
      BY <2>1, <3>1, <3>2
  <2>10. p = <<input.leaf>> \o s
    BY <2>1, <2>8, <2>9, SeqEqual
  <2> HIDE DEF s, m
  <2> QED
    BY <1>2, <2>5, <2>10 DEF Partial, IsPartial
<1> QED
  BY <1>1, <1>2

(* checkLink finds nothing exactly if the issuer may issue the last        *)
(* certificate of the chain, and otherwise has an error of its own.        *)
LEMMA LinkFacts ==
  ASSUME input \in Inputs,
         NEW p \in Seq(Certs), Len(p) >= 1, NEW ca \in Certs
  PROVE  LET err == checkLink(Last(p), ca, Len(p) + 1)
         IN /\ err \in LinkErrors \cup {NULL}
            /\ NamedIssuer(Last(p), ca) =>
                 (err = NULL <=> Issued(Append(p, ca), Len(p)))
<1> DEFINE err == checkLink(Last(p), ca, Len(p) + 1)
<1>1. /\ Len(p) \in Nat
      /\ Append(p, ca)[Len(p)] = Last(p)
      /\ Append(p, ca)[Len(p) + 1] = ca
  BY AppendFacts DEF Last
<1>2. Last(p) \in Certs
  BY <1>1, ElementOfSeq DEF Last
<1>3. Attr(ca).period \in {"future", "now", "past"} /\ Attr(ca).maxPathLen \in Int
  BY InputFacts
<1>4. /\ checkValidity(ca) \in {"not_yet_valid", "expired", NULL}
      /\ checkValidity(ca) = NULL <=> Attr(ca).period = "now"
  BY <1>3, NullAssumption DEF checkValidity, Errors
<1>5. err \in LinkErrors \cup {NULL}
  BY <1>4 DEF checkLink, LinkErrors, Errors
<1>6. err = NULL <=> /\ Attr(ca).period = "now"
                     /\ Attr(ca).isCA
                     /\ Attr(ca).certSign
                     /\ ~(Attr(ca).maxPathLen # -1 /\ Len(p) + 1 - 2 > Attr(ca).maxPathLen)
                     /\ SignedBy(Last(p), ca)
                     /\ ~Attr(Last(p)).revoked
  BY <1>4, NullAssumption DEF checkLink, Errors
<1>7. Issued(Append(p, ca), Len(p)) <=>
        /\ Attr(Last(p)).issuer = Attr(ca).subject
        /\ Attr(Last(p)).signedBy = Attr(ca).key
        /\ ~Attr(Last(p)).revoked
        /\ Attr(ca).period = "now" /\ Attr(ca).isCA /\ Attr(ca).certSign
        /\ Attr(ca).maxPathLen = -1 \/ Len(p) - 1 <= Attr(ca).maxPathLen
  BY <1>1 DEF Issued
<1>8. (Attr(ca).maxPathLen = -1 \/ Len(p) - 1 <= Attr(ca).maxPathLen) <=>
        ~(Attr(ca).maxPathLen # -1 /\ Len(p) + 1 - 2 > Attr(ca).maxPathLen)
  BY <1>1, <1>3
<1>9. NamedIssuer(Last(p), ca) => (err = NULL <=> Issued(Append(p, ca), Len(p)))
  BY <1>6, <1>7, <1>8 DEF NamedIssuer, SignedBy
<1> QED
  BY <1>5, <1>9

(* The links of a chain stay when it is extended. *)
LEMMA LinksStay ==
  ASSUME NEW p \in Seq(Certs), NEW ca \in Certs, NEW i \in 1 .. Len(p) - 1
  PROVE  Issued(Append(p, ca), i) <=> Issued(p, i)
<1>1. Len(p) \in Nat /\ i \in 1 .. Len(p) /\ i + 1 \in 1 .. Len(p)
  BY LenProperties
<1>2. Append(p, ca)[i] = p[i] /\ Append(p, ca)[i + 1] = p[i + 1]
  BY <1>1, AppendFacts
<1> QED
  BY <1>2 DEF Issued

(* The leaf alone is where the search begins. *)
LEMMA LeafIsPartial ==
  ASSUME input \in Inputs
  PROVE  IsPartial(<<input.leaf>>)
  BY InputFacts, DepthAssumption DEF IsPartial

(* An intermediate that walk goes on with makes the chain one longer. *)
LEMMA LongerIsPartial ==
  ASSUME input \in Inputs,
         NEW p, IsPartial(p), Len(p) < MaxChainDepth,
         NEW j \in 1 .. Len(input.inters),
         ~contains(p, input.inters[j]),
         Issued(Append(p, input.inters[j]), Len(p))
  PROVE  IsPartial(Append(p, input.inters[j]))
<1> DEFINE ca == input.inters[j]
           q == Append(p, ca)
<1>1. p \in Seq(Certs) /\ ca \in Certs /\ MaxChainDepth \in Nat
  BY InputFacts, DepthAssumption DEF IsPartial
<1>2. /\ q \in Seq(Certs) /\ Len(p) \in Nat /\ Len(q) = Len(p) + 1
      /\ \A i \in 1 .. Len(p) : q[i] = p[i]
      /\ q[Len(p) + 1] = ca
  BY <1>1, AppendFacts
<1>3. /\ Len(p) >= 1
      /\ p[1] = input.leaf
      /\ \A i \in 2 .. Len(p) : \E k \in 1 .. Len(input.inters) : input.inters[k] = p[i]
      /\ \A i, k \in 1 .. Len(p) : p[i] = p[k] => i = k
      /\ \A i \in 1 .. Len(p) - 1 : Issued(p, i)
  BY DEF IsPartial
<1>4. \A i \in 1 .. Len(p) : p[i] # ca
  BY DEF contains, Contains
<1>5. \A i \in 1 .. Len(p) - 1 : Issued(q, i)
  BY <1>1, <1>3, LinksStay
<1>6. ca = input.inters[j] /\ Issued(q, Len(p))
  OBVIOUS
<1> HIDE DEF q, ca
<1>7. \A i \in 1 .. Len(q) : i \in 1 .. Len(p) \/ i = Len(p) + 1
  BY <1>2
<1>8. \A i \in 2 .. Len(q) : \E k \in 1 .. Len(input.inters) : input.inters[k] = q[i]
  <2> SUFFICES ASSUME NEW i \in 2 .. Len(q)
               PROVE  \E k \in 1 .. Len(input.inters) : input.inters[k] = q[i]
    OBVIOUS
  <2>1. CASE i \in 2 .. Len(p)
    <3>1. q[i] = p[i]
      BY <1>2, <2>1
    <3> QED
      BY <1>3, <2>1, <3>1
  <2>2. CASE i = Len(p) + 1
    BY <1>2, <1>6, <2>2
  <2> QED
    BY <1>2, <2>1, <2>2
<1>9. \A i, k \in 1 .. Len(q) : q[i] = q[k] => i = k
  <2> SUFFICES ASSUME NEW i \in 1 .. Len(q), NEW k \in 1 .. Len(q), q[i] = q[k]
               PROVE  i = k
    OBVIOUS
  <2>1. CASE i \in 1 .. Len(p) /\ k \in 1 .. Len(p)
    BY <1>2, <1>3, <2>1
  <2>2. CASE i \in 1 .. Len(p) /\ k = Len(p) + 1
    BY <1>2, <1>4, <2>2
  <2>3. CASE i = Len(p) + 1 /\ k \in 1 .. Len(p)
    BY <1>2, <1>4, <2>3
  <2>4. CASE i = Len(p) + 1 /\ k = Len(p) + 1
    BY <2>4
  <2> QED
    BY <1>7, <2>1, <2>2, <2>3, <2>4
<1>10. \A i \in 1 .. Len(q) - 1 : Issued(q, i)
  <2>1. \A i \in 1 .. Len(q) - 1 : i \in 1 .. Len(p) - 1 \/ i = Len(p)
    BY <1>2
  <2> QED
    BY <1>5, <1>6, <2>1
<1>11. Len(q) >= 1 /\ Len(q) <= MaxChainDepth
  BY <1>1, <1>2, <1>3
<1>12. q[1] = input.leaf
  BY <1>2, <1>3
<1>13. IsPartial(q)
  BY <1>2, <1>8, <1>9, <1>10, <1>11, <1>12 DEF IsPartial
<1> QED
  BY <1>13 DEF q, ca

(* The chains that Verify is to return, said by their elements. *)
IsValidChain(chain) ==
    \E p : \E j \in 1 .. Len(input.roots) :
        /\ IsPartial(p)
        /\ chain = Append(p, input.roots[j])
        /\ Issued(Append(p, input.roots[j]), Len(p))

LEMMA ValidChainFacts ==
  ASSUME input \in Inputs
  PROVE  \A chain : chain \in ValidChains <=>
           Attr(input.leaf).period = "now" /\ IsValidChain(chain)
<1>1. \A p : p \in Partial <=> IsPartial(p)
  BY PartialFacts
<1>2. ASSUME NEW p, IsPartial(p), NEW root \in Certs
      PROVE  Len(Append(p, root)) - 1 = Len(p)
  BY <1>2, AppendFacts DEF IsPartial
<1>3. \A root : root \in ToSet(input.roots) <=>
                  \E j \in 1 .. Len(input.roots) : root = input.roots[j]
  BY InputFacts, LenProperties DEF ToSet
<1>4. ASSUME NEW chain, chain \in ValidChains
      PROVE  Attr(input.leaf).period = "now" /\ IsValidChain(chain)
  <2>1. Attr(input.leaf).period = "now"
    BY <1>4 DEF ValidChains
  <2>2. PICK p \in Partial, root \in ToSet(input.roots) : chain = Append(p, root)
    BY <1>4, <2>1 DEF ValidChains
  <2>3. Issued(chain, Len(chain) - 1)
    BY <1>4, <2>1 DEF ValidChains
  <2>4. PICK j \in 1 .. Len(input.roots) : root = input.roots[j]
    BY <1>3, <2>2
  <2>5. IsPartial(p) /\ root \in Certs
    BY <1>1, <2>2, <2>4, InputFacts
  <2>6. Issued(Append(p, input.roots[j]), Len(p))
    BY <1>2, <2>2, <2>3, <2>4, <2>5
  <2> QED
    BY <2>1, <2>2, <2>4, <2>5, <2>6 DEF IsValidChain
<1>5. ASSUME NEW chain, Attr(input.leaf).period = "now", IsValidChain(chain)
      PROVE  chain \in ValidChains
  <2>0. PICK p : \E j \in 1 .. Len(input.roots) :
                   /\ IsPartial(p)
                   /\ chain = Append(p, input.roots[j])
                   /\ Issued(Append(p, input.roots[j]), Len(p))
    BY <1>5 DEF IsValidChain
  <2>1. PICK j \in 1 .. Len(input.roots) :
               /\ IsPartial(p)
               /\ chain = Append(p, input.roots[j])
               /\ Issued(Append(p, input.roots[j]), Len(p))
    BY <2>0
  <2>2. p \in Partial /\ input.roots[j] \in ToSet(input.roots) /\ input.roots[j] \in Certs
    <3>1. p \in Partial
      BY <1>1, <2>1
    <3>2. input.roots[j] \in Certs
      BY <2>1, InputFacts
    <3>3. input.roots[j] \in ToSet(input.roots)
      BY <1>3, <2>1
    <3> QED
      BY <3>1, <3>2, <3>3
  <2>3. Issued(chain, Len(chain) - 1)
    BY <1>2, <2>1, <2>2
  <2> QED
    BY <1>5, <2>1, <2>2, <2>3 DEF ValidChains
<1> QED
  BY <1>4, <1>5

-----------------------------------------------------------------------------
(* The inductive invariant *)

(* The certificate that the loops of walk are at with their position i:    *)
(* the roots come first.                                                   *)
Candidate(i) ==
    IF i <= Len(input.roots) THEN input.roots[i] ELSE input.inters[i - Len(input.roots)]

(* The positions of the loops are those of the roots, and then those of    *)
(* the intermediates.                                                      *)
LEMMA IndexFacts ==
  ASSUME input \in Inputs
  PROVE  /\ \A i \in 1 .. Len(input.roots) + Len(input.inters) :
              /\ i \in Nat /\ i >= 1
              /\ i - Len(input.roots) <= Len(input.inters)
         /\ \A j \in 1 .. Len(input.roots) :
              /\ j \in 1 .. Len(input.roots) + Len(input.inters)
              /\ ~(j > Len(input.roots))
              /\ Candidate(j) = input.roots[j]
         /\ \A j \in 1 .. Len(input.inters) :
              /\ Len(input.roots) + j \in 1 .. Len(input.roots) + Len(input.inters)
              /\ Len(input.roots) + j > Len(input.roots)
              /\ Candidate(Len(input.roots) + j) = input.inters[j]
<1>1. Len(input.roots) \in Nat /\ Len(input.inters) \in Nat
  BY InputFacts
<1>2. \A a, b \in Nat :
        /\ \A i \in 1 .. a + b : i \in Nat /\ i >= 1 /\ i - a <= b
        /\ \A j \in 1 .. a : j \in 1 .. a + b /\ ~(j > a) /\ j <= a
        /\ \A j \in 1 .. b : /\ a + j \in 1 .. a + b /\ a + j > a
                            /\ ~(a + j <= a) /\ (a + j) - a = j
  OBVIOUS
<1>3. \A j \in 1 .. Len(input.roots) : Candidate(j) = input.roots[j]
  BY <1>1, <1>2 DEF Candidate
<1>4. ASSUME NEW j \in 1 .. Len(input.inters)
      PROVE  Candidate(Len(input.roots) + j) = input.inters[j]
  <2> DEFINE a == Len(input.roots)
             b == Len(input.inters)
  <2>1. ~(a + j <= a) /\ (a + j) - a = j
    BY <1>1, <1>2
  <2> QED
    BY <2>1, Zenon DEF Candidate
<1> QED
  BY <1>1, <1>2, <1>3, <1>4

(* A call of checkLink that the search should make: for the chain p and    *)
(* the i-th candidate.                                                     *)
Attempt(p, i) ==
    /\ IsPartial(p)
    /\ i \in 1 .. Len(input.roots) + Len(input.inters)
    /\ NamedIssuer(p[Len(p)], Candidate(i))
    /\ i > Len(input.roots) => Len(p) < MaxChainDepth /\ ~contains(p, Candidate(i))

(* It was made, and left what it has to. *)
Done(p, i) ==
    IF Issued(Append(p, Candidate(i)), Len(p))
      THEN i <= Len(input.roots) =>
             \E k \in 1 .. Len(chains) : chains[k] = Append(p, Candidate(i))
      ELSE firstErr # NULL

(* The activation f of walk has it before it: its chain is p and its loops *)
(* are not past i, or its chain begins p and its loop over Intermediates   *)
(* is not past the next certificate of p.                                  *)
AheadOf(f, p, i) ==
    /\ Len(f.chain) <= Len(p)
    /\ \A m \in 1 .. Len(f.chain) : f.chain[m] = p[m]
    /\ Len(f.chain) = Len(p) => f.next <= i
    /\ Len(f.chain) < Len(p) =>
         \E j \in 1 .. Len(input.inters) :
            input.inters[j] = p[Len(f.chain) + 1] /\ f.next <= Len(input.roots) + j

Pending(p, i) == \E k \in 1 .. Len(stack) : AheadOf(stack[k], p, i)

(* No call of checkLink is forgotten. *)
Covered == \A p, i : Attempt(p, i) => Done(p, i) \/ Pending(p, i)

Frames == [chain : Seq(Certs), next : Nat \ {0}]

TypeInv ==
    /\ input \in Inputs
    /\ stack \in Seq(Frames)
    /\ chains \in Seq(Seq(Certs))
    /\ firstErr \in LinkErrors \cup {NULL}

(* The search is at partial chains, and has found valid ones. *)
SoundInv ==
    /\ \A k \in 1 .. Len(stack) : IsPartial(stack[k].chain)
    /\ \A k \in 1 .. Len(chains) : IsValidChain(chains[k])

SearchInv ==
    stack # <<>> => Attr(input.leaf).period = "now" /\ result = NULL /\ Covered

(* Verify has returned: at once, or after a complete search. *)
ResultInv ==
    result # NULL =>
        /\ stack = <<>>
        /\ \/ /\ Attr(input.leaf).period # "now"
              /\ result = [chains |-> <<>>, err |-> checkValidity(input.leaf)]
           \/ /\ Attr(input.leaf).period = "now"
              /\ result = Outcome
              /\ Covered

IInv == TypeInv /\ SoundInv /\ SearchInv /\ ResultInv

-----------------------------------------------------------------------------
(* The steps *)

LEMMA InitIInv == Init => IInv
<1> SUFFICES ASSUME Init PROVE IInv
  OBVIOUS
<1>1. stack \in Seq(Frames) /\ chains \in Seq(Seq(Certs)) /\ Len(stack) = 0 /\ Len(chains) = 0
  BY EmptySeq DEF Init
<1> QED
  BY <1>1 DEF Init, IInv, TypeInv, SoundInv, SearchInv, ResultInv

(* The activation on top, and the stack when it is one iteration further.  *)
LEMMA TopFacts ==
  ASSUME TypeInv, stack # <<>>
  PROVE  /\ Len(stack) \in Nat /\ Len(stack) > 0
         /\ Top \in Frames
         /\ Top.chain \in Seq(Certs) /\ Len(Top.chain) \in Nat
         /\ Top.next \in Nat /\ Top.next > 0
         /\ Advanced \in Seq(Frames)
         /\ Len(Advanced) = Len(stack)
         /\ Advanced # <<>>
         /\ \A k \in 1 .. Len(stack) : k # Len(stack) => Advanced[k] = stack[k]
         /\ Advanced[Len(stack)].chain = Top.chain
         /\ Advanced[Len(stack)].next = Top.next + 1
<1>1. stack \in Seq(Frames) /\ Len(stack) \in Nat /\ Len(stack) > 0
  BY EmptySeq, LenProperties DEF TypeInv
<1>2. Top \in Frames
  BY <1>1, ElementOfSeq DEF Top
<1>3. /\ Top.chain \in Seq(Certs) /\ Len(Top.chain) \in Nat
      /\ Top.next \in Nat /\ Top.next > 0
  BY <1>2, LenProperties DEF Frames
<1> DEFINE further == [Top EXCEPT !.next = @ + 1]
<1>4. further = [chain |-> Top.chain, next |-> Top.next + 1]
  BY <1>2 DEF Frames
<1>5. further \in Frames
  BY <1>3, <1>4 DEF Frames
<1>6. Advanced = [stack EXCEPT ![Len(stack)] = further]
  BY DEF Advanced, Top
<1>7. further.chain = Top.chain /\ further.next = Top.next + 1
  BY <1>4
<1> HIDE DEF further
<1>8. /\ Advanced \in Seq(Frames)
      /\ Len(Advanced) = Len(stack)
      /\ \A k \in 1 .. Len(stack) :
           Advanced[k] = IF k = Len(stack) THEN further ELSE stack[k]
  BY <1>1, <1>5, <1>6, ExceptSeq
<1>9. Advanced # <<>>
  BY <1>1, <1>8, EmptySeq
<1> QED
  BY <1>1, <1>2, <1>3, <1>7, <1>8, <1>9

(* An activation that has just begun has everything before it. *)
LEMMA NewFrameIsAhead ==
  ASSUME input \in Inputs,
         NEW p, NEW i, Attempt(p, i),
         NEW c \in Seq(Certs), Len(c) >= 1, Len(c) <= Len(p),
         \A m \in 1 .. Len(c) : c[m] = p[m]
  PROVE  AheadOf(Frame(c), p, i)
<1>1. Frame(c).chain = c /\ Frame(c).next = 1
  BY DEF Frame
<1>2. /\ Len(c) \in Nat /\ Len(p) \in Nat
      /\ i \in 1 .. Len(input.roots) + Len(input.inters)
      /\ Len(input.roots) \in Nat /\ Len(input.inters) \in Nat
  BY InputFacts, LenProperties DEF Attempt, IsPartial
<1>3. ASSUME Len(c) < Len(p)
      PROVE  \E j \in 1 .. Len(input.inters) :
               input.inters[j] = p[Len(c) + 1] /\ 1 <= Len(input.roots) + j
  <2>1. Len(c) + 1 \in 2 .. Len(p)
    BY <1>2, <1>3
  <2>2. PICK j \in 1 .. Len(input.inters) : input.inters[j] = p[Len(c) + 1]
    BY <2>1 DEF Attempt, IsPartial
  <2> QED
    BY <1>2, <2>2
<1> QED
  BY <1>1, <1>2, <1>3 DEF AheadOf

(* An activation that goes on by one iteration still has before it all but *)
(* what this iteration is about.                                           *)
LEMMA NextIsAhead ==
  ASSUME input \in Inputs,
         NEW f \in Frames, NEW g \in Frames,
         g.chain = f.chain, g.next = f.next + 1,
         NEW p, NEW i, Attempt(p, i), AheadOf(f, p, i),
         ~(Len(f.chain) = Len(p) /\ f.next = i),
         ~(/\ Len(f.chain) < Len(p)
           /\ \E j \in 1 .. Len(input.inters) :
                input.inters[j] = p[Len(f.chain) + 1] /\ f.next = Len(input.roots) + j)
  PROVE  AheadOf(g, p, i)
<1>1. /\ f.next \in Nat /\ Len(input.roots) \in Nat /\ Len(input.inters) \in Nat
      /\ i \in Nat
  BY InputFacts DEF Frames, Attempt
<1>2. Len(f.chain) = Len(p) => g.next <= i
  BY <1>1 DEF AheadOf
<1>3. ASSUME Len(f.chain) < Len(p)
      PROVE  \E j \in 1 .. Len(input.inters) :
               input.inters[j] = p[Len(f.chain) + 1] /\ g.next <= Len(input.roots) + j
  <2>1. PICK j \in 1 .. Len(input.inters) :
               input.inters[j] = p[Len(f.chain) + 1] /\ f.next <= Len(input.roots) + j
    BY <1>3 DEF AheadOf
  <2>2. f.next # Len(input.roots) + j
    BY <1>3, <2>1
  <2>3. g.next <= Len(input.roots) + j
    <3>1. j \in Nat /\ f.next <= Len(input.roots) + j /\ g.next = f.next + 1
      BY <1>1, <2>1
    <3> QED
      BY <1>1, <2>2, <3>1
  <2> QED
    BY <2>1, <2>3
<1> QED
  BY <1>2, <1>3 DEF AheadOf

(* What is said of the input alone stays. *)
LEMMA InputStays ==
  ASSUME input' = input
  PROVE  /\ \A p, i : Issued(p, i)' <=> Issued(p, i)
         /\ \A p : IsPartial(p)' <=> IsPartial(p)
         /\ \A chain : IsValidChain(chain)' <=> IsValidChain(chain)
         /\ \A i : Candidate(i)' = Candidate(i)
         /\ \A p, i : Attempt(p, i)' <=> Attempt(p, i)
         /\ \A f, p, i : AheadOf(f, p, i)' <=> AheadOf(f, p, i)
         /\ Attr(input.leaf)' = Attr(input.leaf)
         /\ checkValidity(input.leaf)' = checkValidity(input.leaf)
<1>1. \A c : Attr(c)' = Attr(c)
  BY DEF Attr
<1>2. \A p, i : Issued(p, i)' <=> Issued(p, i)
  BY <1>1 DEF Issued
<1>3. \A p : IsPartial(p)' <=> IsPartial(p)
  BY <1>2 DEF IsPartial
<1>4. \A chain : IsValidChain(chain)' <=> IsValidChain(chain)
  BY <1>2, <1>3 DEF IsValidChain
<1>5. \A i : Candidate(i)' = Candidate(i)
  BY DEF Candidate
<1>6. \A c, d : NamedIssuer(c, d)' <=> NamedIssuer(c, d)
  BY <1>1 DEF NamedIssuer
<1>7. \A p, i : Attempt(p, i)' <=> Attempt(p, i)
  BY <1>3, <1>5, <1>6 DEF Attempt, contains
<1>8. \A f, p, i : AheadOf(f, p, i)' <=> AheadOf(f, p, i)
  BY DEF AheadOf
<1>9. Attr(input.leaf)' = Attr(input.leaf)
  BY DEF Attr
<1>10. checkValidity(input.leaf)' = checkValidity(input.leaf)
  BY DEF checkValidity, Attr
<1> QED
  BY <1>2, <1>3, <1>4, <1>5, <1>7, <1>8, <1>9, <1>10

(* What was done is not undone: chains grows, and firstErr is kept. *)
LEMMA DoneStays ==
  ASSUME input' = input,
         firstErr # NULL => firstErr' # NULL,
         Len(chains) \in Nat, Len(chains') \in Nat, Len(chains') >= Len(chains),
         \A k \in 1 .. Len(chains) : chains'[k] = chains[k],
         NEW p, NEW i, Done(p, i)
  PROVE  Done(p, i)'
<1> DEFINE link == Append(p, Candidate(i))
<1>1. link' = link
  BY InputStays
<1>2. Issued(link, Len(p))' <=> Issued(link, Len(p))
  BY <1>1, InputStays
<1>3. (\E k \in 1 .. Len(chains) : chains[k] = link) =>
        \E k \in 1 .. Len(chains') : chains'[k] = link
  <2> SUFFICES ASSUME NEW k \in 1 .. Len(chains), chains[k] = link
               PROVE  \E n \in 1 .. Len(chains') : chains'[n] = link
    OBVIOUS
  <2>1. k \in 1 .. Len(chains') /\ chains'[k] = link
    OBVIOUS
  <2> QED
    BY <2>1
<1> QED
  BY <1>1, <1>2, <1>3 DEF Done

LEMMA CallStep ==
  ASSUME IInv, Call
  PROVE  IInv'
<1>1. /\ input \in Inputs /\ input' = input /\ chains' = chains /\ firstErr' = firstErr
      /\ stack = <<>> /\ chains = <<>> /\ result = NULL
      /\ firstErr \in LinkErrors \cup {NULL}
      /\ chains \in Seq(Seq(Certs)) /\ stack \in Seq(Frames)
      /\ Len(chains) = 0 /\ Len(stack) = 0
  BY EmptySeq DEF IInv, TypeInv, Call
<1>2. Attr(input.leaf).period # "now" <=> checkValidity(input.leaf) # NULL
  BY <1>1, InputFacts, NullAssumption DEF checkValidity, Errors
<1>3. CASE checkValidity(input.leaf) # NULL
  <2>1. stack' = stack /\ result' = [chains |-> <<>>, err |-> checkValidity(input.leaf)]
    BY <1>3 DEF Call
  <2>2. TypeInv' /\ SoundInv' /\ SearchInv'
    BY <1>1, <2>1 DEF TypeInv, SoundInv, SearchInv
  <2>3. ResultInv'
    BY <1>1, <1>2, <1>3, <2>1, InputStays DEF ResultInv
  <2> QED
    BY <2>2, <2>3 DEF IInv
<1>4. CASE checkValidity(input.leaf) = NULL
  <2> DEFINE c == <<input.leaf>>
  <2>1. /\ stack' = <<Frame(c)>>
        /\ result' = result
    BY <1>4 DEF Call
  <2>2. c \in Seq(Certs) /\ Len(c) = 1 /\ c[1] = input.leaf /\ IsPartial(c)
    BY <1>1, InputFacts, LeafIsPartial
  <2> HIDE DEF c
  <2>3. Frame(c) \in Frames /\ Frame(c).chain = c
    BY <2>2 DEF Frame, Frames
  <2>4. stack' \in Seq(Frames) /\ Len(stack') = 1 /\ stack'[1] = Frame(c) /\ stack' # <<>>
    BY <2>1, <2>3, EmptySeq
  <2>5. TypeInv'
    BY <1>1, <2>4 DEF TypeInv
  <2>6. SoundInv'
    BY <1>1, <2>2, <2>3, <2>4, InputStays DEF SoundInv
  <2>7. Covered'
    <3> SUFFICES ASSUME NEW p, NEW i, Attempt(p, i)'
                 PROVE  Pending(p, i)'
      BY DEF Covered
    <3>1. Attempt(p, i)
      BY <1>1, InputStays
    <3>2. Len(c) >= 1 /\ Len(c) <= Len(p) /\ \A m \in 1 .. Len(c) : c[m] = p[m]
      BY <2>2, <3>1 DEF Attempt, IsPartial
    <3>3. AheadOf(Frame(c), p, i)
      BY <1>1, <2>2, <3>1, <3>2, NewFrameIsAhead
    <3>4. AheadOf(stack[1], p, i)'
      BY <1>1, <2>4, <3>3 DEF AheadOf
    <3> QED
      BY <2>4, <3>4 DEF Pending
  <2>8. SearchInv' /\ ResultInv'
    BY <1>1, <1>2, <1>4, <2>1, <2>7, InputStays DEF SearchInv, ResultInv
  <2> QED
    BY <2>5, <2>6, <2>8 DEF IInv
<1> QED
  BY <1>3, <1>4

(* What holds in a state of the search, for the activation on top. *)
LEMMA AtTop ==
  ASSUME IInv, stack # <<>>
  PROVE  /\ input \in Inputs /\ TypeInv
         /\ Attr(input.leaf).period = "now" /\ result = NULL /\ Covered
         /\ IsPartial(Top.chain) /\ Top.chain \in Seq(Certs)
         /\ Len(Top.chain) \in Nat /\ Len(Top.chain) >= 1
         /\ Len(Top.chain) <= MaxChainDepth
         /\ Last(Top.chain) = Top.chain[Len(Top.chain)]
         /\ Len(chains) \in Nat
<1>1. TypeInv /\ Len(stack) \in Nat /\ Len(stack) > 0
  BY TopFacts DEF IInv
<1>2. IsPartial(Top.chain)
  BY <1>1 DEF IInv, SoundInv, Top
<1> QED
  BY <1>1, <1>2, TopFacts, LenProperties DEF IInv, TypeInv, SearchInv, IsPartial, Last

(* An iteration that leaves Advanced, and what was before the activation   *)
(* on top either done or still before some activation, forgets nothing.    *)
LEMMA StillCovered ==
  ASSUME IInv, stack # <<>>, input' = input,
         firstErr # NULL => firstErr' # NULL,
         Len(chains') \in Nat, Len(chains') >= Len(chains),
         \A k \in 1 .. Len(chains) : chains'[k] = chains[k],
         Len(stack') \in Nat,
         \A k \in 1 .. Len(stack) - 1 : k \in 1 .. Len(stack') /\ stack'[k] = stack[k],
         \A p, i : Attempt(p, i) /\ AheadOf(Top, p, i) => Done(p, i)' \/ Pending(p, i)'
  PROVE  Covered'
<1>1. Covered /\ Len(chains) \in Nat /\ Len(stack) \in Nat /\ Len(stack) > 0
  BY AtTop, TopFacts
<1> SUFFICES ASSUME NEW p, NEW i, Attempt(p, i)'
             PROVE  Done(p, i)' \/ Pending(p, i)'
  BY DEF Covered
<1>2. Attempt(p, i)
  BY InputStays
<1>3. CASE Done(p, i)
  BY <1>1, <1>3, DoneStays
<1>4. ASSUME NEW k \in 1 .. Len(stack), AheadOf(stack[k], p, i)
      PROVE  Done(p, i)' \/ Pending(p, i)'
  <2>1. CASE k = Len(stack)
    BY <1>2, <1>4, <2>1 DEF Top
  <2>2. CASE k # Len(stack)
    <3>1. k \in 1 .. Len(stack') /\ stack'[k] = stack[k]
      BY <1>1, <2>2
    <3>2. AheadOf(stack[k], p, i)'
      BY <1>4, <3>1 DEF AheadOf
    <3> QED
      BY <3>1, <3>2 DEF Pending
  <2> QED
    BY <2>1, <2>2
<1> QED
  BY <1>1, <1>2, <1>3, <1>4 DEF Covered, Pending

(* All but what the iteration is about stays before the activation on top. *)
LEMMA AdvancedIsPending ==
  ASSUME IInv, stack # <<>>, input' = input,
         Len(stack') \in Nat, Len(stack') >= Len(stack),
         stack'[Len(stack)] = Advanced[Len(stack)],
         NEW p, NEW i, Attempt(p, i), AheadOf(Top, p, i),
         ~(Len(Top.chain) = Len(p) /\ Top.next = i),
         ~(/\ Len(Top.chain) < Len(p)
           /\ \E j \in 1 .. Len(input.inters) :
                input.inters[j] = p[Len(Top.chain) + 1] /\ Top.next = Len(input.roots) + j)
  PROVE  Pending(p, i)'
<1> DEFINE g == Advanced[Len(stack)]
<1>1. /\ input \in Inputs /\ TypeInv
      /\ Len(stack) \in Nat /\ Len(stack) > 0 /\ Top \in Frames
  BY AtTop, TopFacts
<1>2. g \in Frames /\ g.chain = Top.chain /\ g.next = Top.next + 1
  <2>1. Advanced \in Seq(Frames) /\ Len(Advanced) = Len(stack)
    BY <1>1, TopFacts
  <2>2. Len(stack) \in 1 .. Len(Advanced)
    BY <1>1, <2>1
  <2>3. g \in Frames
    BY <2>1, <2>2, ElementOfSeq
  <2> QED
    BY <1>1, <2>3, TopFacts
<1>3. stack'[Len(stack)] = g
  OBVIOUS
<1> HIDE DEF g
<1>4. AheadOf(g, p, i)
  BY <1>1, <1>2, NextIsAhead
<1>6. \A k : stack'[k] = g => AheadOf(stack[k], p, i)'
  BY <1>4 DEF AheadOf
<1>7. Len(stack) \in 1 .. Len(stack')
  BY <1>1
<1> QED
  BY <1>3, <1>6, <1>7 DEF Pending

(* The activations on Advanced are those on stack. *)
LEMMA AdvancedIsSound ==
  ASSUME IInv, stack # <<>>
  PROVE  \A k \in 1 .. Len(stack) : IsPartial(Advanced[k].chain)
<1>1. TypeInv /\ SoundInv
  BY DEF IInv
<1>2. ASSUME NEW k \in 1 .. Len(stack)
      PROVE  Advanced[k].chain = stack[k].chain
  BY <1>1, TopFacts DEF Top
<1> QED
  BY <1>1, <1>2 DEF SoundInv

(* A call of checkLink for the chain on top. *)
LEMMA AttemptAtTop ==
  ASSUME IInv, stack # <<>>,
         NEW p, NEW i, Attempt(p, i), AheadOf(Top, p, i), Len(Top.chain) = Len(p)
  PROVE  p = Top.chain /\ NamedIssuer(Last(Top.chain), Candidate(i))
<1>1. Top.chain \in Seq(Certs) /\ p \in Seq(Certs)
  BY AtTop DEF Attempt, IsPartial
<1>2. \A m \in 1 .. Len(Top.chain) : Top.chain[m] = p[m]
  BY DEF AheadOf
<1>3. p = Top.chain
  BY <1>1, <1>2, SeqEqual
<1> QED
  BY <1>3 DEF Attempt, Last

LEMMA TryRootStep ==
  ASSUME IInv, TryRoot
  PROVE  IInv'
<1> DEFINE n == Top.next
           root == input.roots[Top.next]
           link == Append(Top.chain, root)
           err == checkLink(Last(Top.chain), root, Len(Top.chain) + 1)
<1>1. /\ stack # <<>> /\ n <= Len(input.roots)
      /\ stack' = Advanced /\ input' = input /\ result' = result
  BY DEF TryRoot
<1>2. /\ input \in Inputs /\ TypeInv /\ SoundInv
      /\ Attr(input.leaf).period = "now" /\ result = NULL
      /\ IsPartial(Top.chain) /\ Top.chain \in Seq(Certs)
      /\ Len(Top.chain) \in Nat /\ Len(Top.chain) >= 1
      /\ Len(chains) \in Nat
  BY <1>1, AtTop DEF IInv
<1>3. /\ Len(stack) \in Nat /\ Len(stack) > 0
      /\ Advanced \in Seq(Frames) /\ Len(Advanced) = Len(stack) /\ Advanced # <<>>
      /\ \A k \in 1 .. Len(stack) : k # Len(stack) => Advanced[k] = stack[k]
      /\ n \in Nat /\ n > 0
  BY <1>1, <1>2, TopFacts
<1>4. /\ n \in 1 .. Len(input.roots) /\ Len(input.roots) \in Nat
      /\ root \in Certs /\ Candidate(n) = root
  BY <1>1, <1>2, <1>3, InputFacts DEF Candidate
<1>5. /\ err \in LinkErrors \cup {NULL}
      /\ NamedIssuer(Last(Top.chain), root) => (err = NULL <=> Issued(link, Len(Top.chain)))
  BY <1>2, <1>4, LinkFacts
<1>6. link \in Seq(Certs)
  BY <1>2, <1>4, AppendFacts
<1>7. \/ ~NamedIssuer(Last(Top.chain), root) /\ chains' = chains /\ firstErr' = firstErr
      \/ /\ NamedIssuer(Last(Top.chain), root) /\ err # NULL
         /\ chains' = chains /\ firstErr' = Note(err)
      \/ /\ NamedIssuer(Last(Top.chain), root) /\ err = NULL
         /\ chains' = Append(chains, link) /\ firstErr' = firstErr
  BY DEF TryRoot
<1> HIDE DEF n, root, link, err
<1>8. /\ chains' \in Seq(Seq(Certs)) /\ Len(chains') \in Nat /\ Len(chains') >= Len(chains)
      /\ \A k \in 1 .. Len(chains) : chains'[k] = chains[k]
      /\ firstErr' \in LinkErrors \cup {NULL}
      /\ firstErr # NULL => firstErr' # NULL
  <2>1. chains \in Seq(Seq(Certs)) /\ firstErr \in LinkErrors \cup {NULL}
    BY <1>2 DEF TypeInv
  <2>2. /\ Append(chains, link) \in Seq(Seq(Certs))
        /\ Len(Append(chains, link)) = Len(chains) + 1
        /\ \A k \in 1 .. Len(chains) : Append(chains, link)[k] = chains[k]
    BY <1>6, <2>1, AppendFacts
  <2>3. Note(err) \in LinkErrors \cup {NULL} /\ (firstErr # NULL => Note(err) # NULL)
    BY <1>5, <2>1 DEF Note
  <2>4. CASE chains' = chains
    <3>1. firstErr' = firstErr \/ firstErr' = Note(err)
      BY <1>7, <2>2, <2>4
    <3> QED
      BY <1>2, <2>1, <2>3, <2>4, <3>1
  <2>5. CASE chains' = Append(chains, link) /\ firstErr' = firstErr
    BY <1>2, <2>1, <2>2, <2>5
  <2> QED
    BY <1>7, <2>4, <2>5
<1>9. TypeInv'
  BY <1>1, <1>2, <1>3, <1>8 DEF TypeInv
<1>10. \A k \in 1 .. Len(chains') : IsValidChain(chains'[k])
  <2>1. CASE chains' = chains
    BY <1>2, <2>1 DEF SoundInv
  <2>2. CASE NamedIssuer(Last(Top.chain), root) /\ err = NULL /\ chains' = Append(chains, link)
    <3>1. IsValidChain(link)
      BY <1>2, <1>4, <1>5, <2>2 DEF IsValidChain, link, root, n
    <3>2. /\ Len(chains') = Len(chains) + 1
          /\ chains'[Len(chains) + 1] = link
          /\ \A k \in 1 .. Len(chains) : chains'[k] = chains[k]
      BY <1>2, <1>6, <2>2, AppendFacts DEF TypeInv
    <3>3. \A k \in 1 .. Len(chains') : k \in 1 .. Len(chains) \/ k = Len(chains) + 1
      BY <1>2, <3>2
    <3> QED
      BY <1>2, <3>1, <3>2, <3>3 DEF SoundInv
  <2> QED
    BY <1>7, <2>1, <2>2
<1>11. SoundInv'
  <2>1. \A k \in 1 .. Len(stack') : IsPartial(stack'[k].chain)
    BY <1>1, <1>3, AdvancedIsSound
  <2> QED
    BY <1>1, <1>10, <2>1, InputStays DEF SoundInv
<1>12. ASSUME NEW p, NEW i, Attempt(p, i), AheadOf(Top, p, i)
       PROVE  Done(p, i)' \/ Pending(p, i)'
  <2>1. CASE Len(Top.chain) = Len(p) /\ n = i
    <3>1. p = Top.chain /\ NamedIssuer(Last(Top.chain), root)
      BY <1>1, <1>4, <1>12, <2>1, AttemptAtTop
    <3>2. Append(p, Candidate(i)) = link
      BY <1>4, <2>1, <3>1 DEF link
    <3> DEFINE lk == Append(p, Candidate(i))
    <3>3. lk' = lk /\ (Issued(lk, Len(p))' <=> Issued(lk, Len(p)))
      BY <1>1, InputStays
    <3>4. CASE err # NULL
      <4>1. firstErr' # NULL
        BY <1>7, <3>1, <3>4 DEF Note
      <4>2. ~Issued(lk, Len(p))
        BY <1>5, <3>1, <3>2, <3>4
      <4> QED
        BY <3>3, <4>1, <4>2 DEF Done
    <3>5. CASE err = NULL
      <4>1. chains' = Append(chains, link)
        BY <1>7, <3>1, <3>5
      <4>2. Len(chains') = Len(chains) + 1 /\ chains'[Len(chains) + 1] = link
        BY <1>2, <1>6, <4>1, AppendFacts DEF TypeInv
      <4>3. \E k \in 1 .. Len(chains') : chains'[k] = lk
        BY <1>2, <3>2, <4>2
      <4>4. Issued(lk, Len(p))
        BY <1>5, <3>1, <3>2, <3>5
      <4> QED
        BY <3>3, <4>3, <4>4 DEF Done
    <3> QED
      BY <3>4, <3>5
  <2>2. CASE ~(Len(Top.chain) = Len(p) /\ n = i)
    <3>1. \A j \in 1 .. Len(input.inters) : Top.next # Len(input.roots) + j
      BY <1>1, <1>2, <1>3, <1>4, InputFacts DEF n
    <3>2. ~(Len(Top.chain) = Len(p) /\ Top.next = i)
      BY <2>2 DEF n
    <3> QED
      BY <1>1, <1>3, <1>12, <3>1, <3>2, AdvancedIsPending
  <2> QED
    BY <2>1, <2>2
<1>13. Covered'
  BY <1>1, <1>3, <1>8, <1>12, StillCovered
<1>14. SearchInv' /\ ResultInv'
  BY <1>1, <1>2, <1>3, <1>13, InputStays DEF SearchInv, ResultInv
<1> QED
  BY <1>9, <1>11, <1>14 DEF IInv

LEMMA TryIntermediateStep ==
  ASSUME IInv, TryIntermediate
  PROVE  IInv'
<1> DEFINE n == Top.next
           j == Position
           inter == input.inters[Position]
           link == Append(Top.chain, inter)
           err == checkLink(Last(Top.chain), inter, Len(Top.chain) + 1)
           skipped == ~NamedIssuer(Last(Top.chain), inter) \/ contains(Top.chain, inter)
           deeper == Append(Advanced, Frame(link))
<1>1. /\ stack # <<>> /\ j >= 1 /\ j <= Len(input.inters)
      /\ Len(Top.chain) < MaxChainDepth
      /\ input' = input /\ result' = result /\ chains' = chains
  BY DEF TryIntermediate, AtIntermediates
<1>2. /\ input \in Inputs /\ TypeInv /\ SoundInv
      /\ Attr(input.leaf).period = "now" /\ result = NULL
      /\ IsPartial(Top.chain) /\ Top.chain \in Seq(Certs)
      /\ Len(Top.chain) \in Nat /\ Len(Top.chain) >= 1
      /\ Len(chains) \in Nat
  BY <1>1, AtTop DEF IInv
<1>3. /\ Len(stack) \in Nat /\ Len(stack) > 0
      /\ Advanced \in Seq(Frames) /\ Len(Advanced) = Len(stack) /\ Advanced # <<>>
      /\ \A k \in 1 .. Len(stack) : k # Len(stack) => Advanced[k] = stack[k]
      /\ n \in Nat /\ n > 0
  BY <1>1, <1>2, TopFacts
<1>4. /\ Len(input.roots) \in Nat /\ Len(input.inters) \in Nat
      /\ n = Len(input.roots) + j /\ n > Len(input.roots)
      /\ j \in 1 .. Len(input.inters)
      /\ inter \in Certs /\ Candidate(n) = inter
  BY <1>1, <1>2, <1>3, InputFacts DEF Candidate, Position
<1>5. /\ err \in LinkErrors \cup {NULL}
      /\ NamedIssuer(Last(Top.chain), inter) => (err = NULL <=> Issued(link, Len(Top.chain)))
  BY <1>2, <1>4, LinkFacts
<1>6. /\ link \in Seq(Certs) /\ Len(link) = Len(Top.chain) + 1
      /\ \A m \in 1 .. Len(Top.chain) : link[m] = Top.chain[m]
      /\ link[Len(Top.chain) + 1] = inter
  BY <1>2, <1>4, AppendFacts
<1>7. \/ skipped /\ stack' = Advanced /\ firstErr' = firstErr
      \/ ~skipped /\ err # NULL /\ stack' = Advanced /\ firstErr' = Note(err)
      \/ ~skipped /\ err = NULL /\ stack' = deeper /\ firstErr' = firstErr
  BY DEF TryIntermediate
<1>8. /\ Frame(link) \in Frames /\ Frame(link).chain = link
      /\ deeper \in Seq(Frames) /\ Len(deeper) = Len(stack) + 1 /\ deeper # <<>>
      /\ \A k \in 1 .. Len(stack) : deeper[k] = Advanced[k]
      /\ deeper[Len(stack) + 1] = Frame(link)
  <2>1. Frame(link) \in Frames /\ Frame(link).chain = link
    BY <1>6 DEF Frame, Frames
  <2> HIDE DEF link
  <2>2. /\ deeper \in Seq(Frames) /\ Len(deeper) = Len(stack) + 1
        /\ \A k \in 1 .. Len(stack) : deeper[k] = Advanced[k]
        /\ deeper[Len(stack) + 1] = Frame(link)
    BY <1>3, <2>1, AppendFacts
  <2>3. deeper # <<>>
    BY <1>3, <2>2, EmptySeq
  <2> QED
    BY <2>1, <2>2, <2>3
<1>9. ~skipped /\ err = NULL => IsPartial(link)
  <2>1. ~skipped /\ err = NULL => ~contains(Top.chain, inter) /\ Issued(link, Len(Top.chain))
    BY <1>5
  <2> QED
    BY <1>1, <1>2, <1>4, <2>1, LongerIsPartial
<1>10. skipped <=> ~NamedIssuer(Last(Top.chain), inter) \/ contains(Top.chain, inter)
  OBVIOUS
<1>11. n = Top.next /\ inter = input.inters[j] /\ link = Append(Top.chain, inter)
  OBVIOUS
<1> HIDE DEF n, j, inter, link, err, skipped, deeper
<1>12. /\ stack' \in Seq(Frames) /\ Len(stack') \in Nat /\ Len(stack') >= Len(stack)
       /\ stack' # <<>>
       /\ \A k \in 1 .. Len(stack) : stack'[k] = Advanced[k]
       /\ firstErr' \in LinkErrors \cup {NULL}
       /\ firstErr # NULL => firstErr' # NULL
  <2>1. firstErr \in LinkErrors \cup {NULL}
    BY <1>2 DEF TypeInv
  <2>2. Note(err) \in LinkErrors \cup {NULL} /\ (firstErr # NULL => Note(err) # NULL)
    BY <1>5, <2>1 DEF Note
  <2>3. CASE stack' = Advanced /\ (firstErr' = firstErr \/ firstErr' = Note(err))
    BY <1>3, <2>1, <2>2, <2>3
  <2>4. CASE stack' = deeper /\ firstErr' = firstErr
    BY <1>3, <1>8, <2>1, <2>4
  <2> QED
    BY <1>7, <2>3, <2>4
<1>13. TypeInv'
  BY <1>1, <1>2, <1>12 DEF TypeInv
<1>14. \A k \in 1 .. Len(stack') : IsPartial(stack'[k].chain)
  <2>1. \A k \in 1 .. Len(stack) : IsPartial(Advanced[k].chain)
    BY <1>1, AdvancedIsSound
  <2>2. CASE stack' = Advanced
    BY <1>3, <2>1, <2>2
  <2>3. CASE ~skipped /\ err = NULL /\ stack' = deeper
    <3>1. \A k \in 1 .. Len(stack') : k \in 1 .. Len(stack) \/ k = Len(stack) + 1
      BY <1>3, <1>8, <2>3
    <3>2. IsPartial(deeper[Len(stack) + 1].chain)
      BY <1>8, <1>9, <2>3
    <3>3. \A k \in 1 .. Len(stack) : IsPartial(deeper[k].chain)
      BY <1>8, <2>1
    <3> QED
      BY <2>3, <3>1, <3>2, <3>3
  <2> QED
    BY <1>7, <2>2, <2>3
<1>15. SoundInv'
  BY <1>1, <1>2, <1>14, InputStays DEF SoundInv
<1>16. ASSUME NEW p, NEW i, Attempt(p, i), AheadOf(Top, p, i)
       PROVE  Done(p, i)' \/ Pending(p, i)'
  <2>0. p \in Seq(Certs) /\ Len(p) \in Nat
    BY <1>16, LenProperties DEF Attempt, IsPartial
  <2>1. CASE Len(Top.chain) = Len(p) /\ n = i
    <3>1. p = Top.chain /\ NamedIssuer(Last(Top.chain), inter)
      BY <1>1, <1>4, <1>16, <2>1, AttemptAtTop
    <3>2. ~skipped
      BY <1>4, <1>10, <1>16, <2>1, <3>1 DEF Attempt
    <3> DEFINE lk == Append(p, Candidate(i))
    <3>3. lk = link
      BY <1>4, <1>11, <2>1, <3>1
    <3>4. lk' = lk /\ (Issued(lk, Len(p))' <=> Issued(lk, Len(p)))
      BY <1>1, InputStays
    <3>5. CASE err # NULL
      <4>1. firstErr' # NULL
        BY <1>7, <3>2, <3>5 DEF Note
      <4>2. ~Issued(lk, Len(p))
        BY <1>5, <3>1, <3>3, <3>5
      <4> QED
        BY <3>4, <4>1, <4>2 DEF Done
    <3>6. CASE err = NULL
      <4>1. Issued(lk, Len(p))
        BY <1>5, <3>1, <3>3, <3>6
      <4>2. ~(i <= Len(input'.roots))
        BY <1>1, <1>3, <1>4, <2>1
      <4> QED
        BY <3>4, <4>1, <4>2 DEF Done
    <3> QED
      BY <3>5, <3>6
  <2>2. CASE Len(Top.chain) < Len(p) /\ inter = p[Len(Top.chain) + 1]
    <3>1. /\ \A m \in 1 .. Len(Top.chain) : Top.chain[m] = p[m]
          /\ Len(Top.chain) \in 1 .. Len(p) - 1
          /\ Last(Top.chain) = p[Len(Top.chain)]
      BY <1>2, <1>16, <2>0, <2>2 DEF AheadOf, Last
    <3>2. Issued(p, Len(Top.chain))
      BY <1>16, <3>1 DEF Attempt, IsPartial
    <3>3. link[Len(Top.chain)] = p[Len(Top.chain)] /\ link[Len(Top.chain) + 1] = p[Len(Top.chain) + 1]
      BY <1>2, <1>6, <2>2, <3>1
    <3>4. Issued(link, Len(Top.chain))
      BY <3>2, <3>3 DEF Issued
    <3>5. NamedIssuer(Last(Top.chain), inter)
      BY <2>2, <3>1, <3>2 DEF Issued, NamedIssuer
    <3>6. ~contains(Top.chain, inter)
      <4>1. \A a, b \in 1 .. Len(p) : p[a] = p[b] => a = b
        BY <1>16 DEF Attempt, IsPartial
      <4>2. ASSUME NEW m \in 1 .. Len(Top.chain), Top.chain[m] = inter
            PROVE  FALSE
        <5>1. m \in 1 .. Len(p) /\ Len(Top.chain) + 1 \in 1 .. Len(p) /\ m # Len(Top.chain) + 1
          BY <1>2, <2>0, <2>2
        <5>2. p[m] = p[Len(Top.chain) + 1]
          BY <2>2, <3>1, <4>2
        <5> QED
          BY <4>1, <5>1, <5>2
      <4> QED
        BY <4>2 DEF contains, Contains
    <3>7. stack' = deeper
      BY <1>5, <1>7, <1>10, <3>4, <3>5, <3>6
    <3>8. \A m \in 1 .. Len(link) : link[m] = p[m]
      <4>1. \A m \in 1 .. Len(link) : m \in 1 .. Len(Top.chain) \/ m = Len(Top.chain) + 1
        BY <1>2, <1>6
      <4> QED
        BY <1>6, <2>2, <3>1, <4>1
    <3>9. Len(link) >= 1 /\ Len(link) <= Len(p)
      BY <1>2, <1>6, <2>0, <2>2
    <3>10. AheadOf(Frame(link), p, i)
      BY <1>2, <1>6, <1>16, <3>8, <3>9, NewFrameIsAhead
    <3> DEFINE top == Len(stack) + 1
               g == Frame(link)
    <3>11. top \in 1 .. Len(stack') /\ stack'[top] = g
      BY <1>3, <1>8, <3>7
    <3> HIDE DEF top, g
    <3>12. AheadOf(g, p, i)
      BY <3>10 DEF g
    <3>13. \A k : stack'[k] = g => AheadOf(stack[k], p, i)'
      BY <1>1, <3>12 DEF AheadOf
    <3> QED
      BY <3>11, <3>13 DEF Pending
  <2>3. CASE /\ ~(Len(Top.chain) = Len(p) /\ n = i)
             /\ ~(Len(Top.chain) < Len(p) /\ inter = p[Len(Top.chain) + 1])
    <3>1. ~(Len(Top.chain) = Len(p) /\ Top.next = i)
      BY <1>11, <2>3
    <3>2. ~(/\ Len(Top.chain) < Len(p)
            /\ \E h \in 1 .. Len(input.inters) :
                 input.inters[h] = p[Len(Top.chain) + 1] /\ Top.next = Len(input.roots) + h)
      <4> SUFFICES ASSUME Len(Top.chain) < Len(p),
                          NEW h \in 1 .. Len(input.inters),
                          input.inters[h] = p[Len(Top.chain) + 1],
                          Top.next = Len(input.roots) + h
                   PROVE  FALSE
        OBVIOUS
      <4>1. h = j
        BY <1>4, <1>11
      <4> QED
        BY <1>11, <2>3, <4>1
    <3>3. Len(stack) \in 1 .. Len(stack)
      BY <1>3
    <3> QED
      BY <1>1, <1>12, <1>16, <3>1, <3>2, <3>3, AdvancedIsPending
  <2> QED
    BY <2>1, <2>2, <2>3
<1>17. Covered'
  <2>1. \A k \in 1 .. Len(stack) - 1 : k \in 1 .. Len(stack') /\ stack'[k] = stack[k]
    BY <1>3, <1>12
  <2> QED
    BY <1>1, <1>2, <1>12, <1>16, <2>1, StillCovered
<1>18. SearchInv' /\ ResultInv'
  BY <1>1, <1>2, <1>12, <1>17, InputStays DEF SearchInv, ResultInv
<1> QED
  BY <1>13, <1>15, <1>18 DEF IInv

LEMMA ReturnStep ==
  ASSUME IInv, Return
  PROVE  IInv'
<1>1. /\ stack # <<>> /\ Top.next > Len(input.roots) /\ ~AtIntermediates
      /\ stack' = Front(stack)
      /\ input' = input /\ chains' = chains /\ firstErr' = firstErr
      /\ result' = IF Len(stack) = 1 THEN Outcome ELSE result
  BY DEF Return
<1>2. /\ input \in Inputs /\ TypeInv /\ SoundInv
      /\ Attr(input.leaf).period = "now" /\ result = NULL
      /\ Top.chain \in Seq(Certs) /\ Len(Top.chain) \in Nat
      /\ Len(chains) \in Nat
      /\ stack \in Seq(Frames) /\ Len(stack) \in Nat /\ Len(stack) > 0
      /\ Top.next \in Nat
      /\ Len(input.roots) \in Nat /\ Len(input.inters) \in Nat
  BY <1>1, AtTop, TopFacts, InputFacts DEF IInv, TypeInv
<1>3. /\ Front(stack) \in Seq(Frames) /\ Len(Front(stack)) = Len(stack) - 1
      /\ \A k \in 1 .. Len(stack) - 1 : Front(stack)[k] = stack[k]
      /\ (Front(stack) = <<>>) <=> (Len(stack) = 1)
  BY <1>1, <1>2, FrontFacts
<1>4. TypeInv'
  BY <1>1, <1>2, <1>3 DEF TypeInv
<1>5. SoundInv'
  <2>1. \A k \in 1 .. Len(stack') : k \in 1 .. Len(stack) /\ stack'[k] = stack[k]
    BY <1>1, <1>2, <1>3
  <2> QED
    BY <1>1, <1>2, <2>1, InputStays DEF SoundInv
<1>6. ASSUME NEW p, NEW i, Attempt(p, i), AheadOf(Top, p, i)
      PROVE  FALSE
  <2>1. /\ Len(p) \in Nat /\ Len(p) <= MaxChainDepth /\ MaxChainDepth \in Nat
        /\ i \in Nat /\ i - Len(input.roots) <= Len(input.inters)
    BY <1>2, <1>6, IndexFacts, LenProperties, DepthAssumption DEF Attempt, IsPartial
  <2>2. \/ Top.next - Len(input.roots) > Len(input.inters)
        \/ Len(Top.chain) >= MaxChainDepth
    BY <1>1, <1>2, <2>1 DEF AtIntermediates, Position
  <2>3. CASE Len(Top.chain) = Len(p)
    <3>1. Top.next <= i
      BY <1>6, <2>3 DEF AheadOf
    <3>2. Len(p) < MaxChainDepth
      BY <1>1, <1>2, <1>6, <2>1, <3>1 DEF Attempt
    <3>3. Top.next - Len(input.roots) > Len(input.inters)
      BY <2>1, <2>2, <2>3, <3>2
    <3>4. \A a, b, c, d \in Int : a <= b /\ a - c > d => ~(b - c <= d)
      OBVIOUS
    <3>5. Top.next \in Int /\ i \in Int /\ Len(input.roots) \in Int /\ Len(input.inters) \in Int
      BY <1>2, <2>1
    <3> QED
      BY <2>1, <3>1, <3>3, <3>4, <3>5
  <2>4. CASE Len(Top.chain) < Len(p)
    <3>1. PICK j \in 1 .. Len(input.inters) : Top.next <= Len(input.roots) + j
      BY <1>6, <2>4 DEF AheadOf
    <3> QED
      BY <1>2, <2>1, <2>2, <2>4, <3>1
  <2> QED
    BY <1>2, <1>6, <2>1, <2>3, <2>4 DEF AheadOf
<1>7. Covered'
  <2>1. /\ Len(stack') \in Nat
        /\ \A k \in 1 .. Len(stack) - 1 : k \in 1 .. Len(stack') /\ stack'[k] = stack[k]
    BY <1>1, <1>2, <1>3
  <2> QED
    BY <1>1, <1>2, <1>6, <2>1, StillCovered
<1>8. SearchInv'
  BY <1>1, <1>2, <1>3, <1>7, InputStays DEF SearchInv
<1>9. Outcome' = Outcome
  BY <1>1 DEF Outcome
<1>10. ResultInv'
  BY <1>1, <1>2, <1>3, <1>7, <1>9, InputStays DEF ResultInv
<1> QED
  BY <1>4, <1>5, <1>8, <1>10 DEF IInv

LEMMA StutterStep ==
  ASSUME IInv, UNCHANGED vars
  PROVE  IInv'
<1>1. input' = input /\ stack' = stack /\ chains' = chains /\ firstErr' = firstErr
      /\ result' = result
  BY DEF vars
<1>2. TypeInv' /\ SoundInv'
  BY <1>1, InputStays DEF IInv, TypeInv, SoundInv
<1>3. Covered => Covered'
  <2> SUFFICES ASSUME Covered, NEW p, NEW i, Attempt(p, i)'
               PROVE  Done(p, i)' \/ Pending(p, i)'
    BY DEF Covered
  <2>1. Attempt(p, i) /\ Len(chains) \in Nat
    BY <1>1, InputStays, LenProperties DEF IInv, TypeInv
  <2>2. Done(p, i) => Done(p, i)'
    BY <1>1, <2>1, DoneStays
  <2>3. Pending(p, i) => Pending(p, i)'
    BY <1>1 DEF Pending, AheadOf
  <2> QED
    BY <2>1, <2>2, <2>3 DEF Covered
<1>4. Outcome' = Outcome
  BY <1>1 DEF Outcome
<1>5. SearchInv' /\ ResultInv'
  BY <1>1, <1>3, <1>4, InputStays DEF IInv, SearchInv, ResultInv
<1> QED
  BY <1>2, <1>5 DEF IInv

LEMMA NextIInv ==
  ASSUME IInv, [Next]_vars
  PROVE  IInv'
  BY CallStep, TryRootStep, TryIntermediateStep, ReturnStep, StutterStep DEF Next

(* In every state of the search, each call of checkLink that it should     *)
(* make is done or before an activation of walk.                           *)
THEOREM Invariance == Spec => []IInv
  BY InitIInv, NextIInv, PTL DEF Spec

-----------------------------------------------------------------------------
(* What follows for the answers *)

(* When Verify has returned after a search, every link was tried. *)
LEMMA AllDone ==
  ASSUME IInv, result # NULL, Attr(input.leaf).period = "now"
  PROVE  \A p, i : Attempt(p, i) => Done(p, i)
<1>1. stack = <<>> /\ Covered /\ Len(stack) = 0
  BY EmptySeq DEF IInv, TypeInv, ResultInv
<1> QED
  BY <1>1 DEF Covered, Pending

(* A chain to a root that may issue is an attempt with its root. *)
LEMMA ValidChainIsFound ==
  ASSUME IInv, result # NULL, Attr(input.leaf).period = "now",
         NEW chain, IsValidChain(chain)
  PROVE  \E k \in 1 .. Len(chains) : chains[k] = chain
<1>1. PICK p : \E j \in 1 .. Len(input.roots) :
                 /\ IsPartial(p)
                 /\ chain = Append(p, input.roots[j])
                 /\ Issued(Append(p, input.roots[j]), Len(p))
  BY DEF IsValidChain
<1>2. PICK j \in 1 .. Len(input.roots) :
             /\ IsPartial(p)
             /\ chain = Append(p, input.roots[j])
             /\ Issued(Append(p, input.roots[j]), Len(p))
  BY <1>1
<1>3. /\ input \in Inputs /\ Len(input.roots) \in Nat /\ Len(input.inters) \in Nat
      /\ input.roots[j] \in Certs
      /\ p \in Seq(Certs) /\ Len(p) >= 1
  BY <1>2, InputFacts DEF IInv, TypeInv, IsPartial
<1>4. /\ Candidate(j) = input.roots[j]
      /\ j \in 1 .. Len(input.roots) + Len(input.inters) /\ ~(j > Len(input.roots))
  BY <1>3, IndexFacts
<1>5. NamedIssuer(p[Len(p)], input.roots[j])
  <2>1. /\ Len(p) \in 1 .. Len(p)
        /\ Append(p, input.roots[j])[Len(p)] = p[Len(p)]
        /\ Append(p, input.roots[j])[Len(p) + 1] = input.roots[j]
    BY <1>3, AppendFacts
  <2> QED
    BY <1>2, <2>1 DEF Issued, NamedIssuer
<1>6. Attempt(p, j)
  BY <1>2, <1>3, <1>4, <1>5 DEF Attempt
<1>7. Done(p, j)
  BY <1>6, AllDone
<1> QED
  BY <1>2, <1>3, <1>4, <1>7 DEF Done

LEMMA FoundIsValid ==
  ASSUME IInv, result # NULL
  PROVE  /\ ToSet(result.chains) = ValidChains
         /\ result.chains = <<>> <=> ValidChains = {}
<1>1. /\ input \in Inputs /\ TypeInv /\ SoundInv
      /\ chains \in Seq(Seq(Certs)) /\ Len(chains) \in Nat
      /\ DOMAIN chains = 1 .. Len(chains)
  BY LenProperties DEF IInv, TypeInv
<1>2. CASE Attr(input.leaf).period # "now"
  <2>1. result.chains = <<>> /\ ValidChains = {}
    BY <1>2 DEF IInv, ResultInv, ValidChains
  <2> QED
    BY <2>1 DEF ToSet
<1>3. CASE Attr(input.leaf).period = "now"
  <2>1. result.chains = chains
    BY <1>3 DEF IInv, ResultInv, Outcome
  <2>2. \A chain : chain \in ValidChains <=> IsValidChain(chain)
    BY <1>1, <1>3, ValidChainFacts
  <2>3. \A chain : IsValidChain(chain) <=> \E k \in 1 .. Len(chains) : chains[k] = chain
    BY <1>1, <1>3, ValidChainIsFound DEF SoundInv
  <2>4. ToSet(chains) = ValidChains
    BY <1>1, <2>2, <2>3 DEF ToSet
  <2>5. chains = <<>> <=> Len(chains) = 0
    BY <1>1, EmptySeq
  <2>6. Len(chains) = 0 <=> \A chain : ~IsValidChain(chain)
    <3>1. Len(chains) = 0 => \A chain : ~IsValidChain(chain)
      BY <2>3
    <3>2. Len(chains) # 0 => IsValidChain(chains[1])
      BY <1>1, <2>3
    <3> QED
      BY <3>1, <3>2
  <2> QED
    BY <2>1, <2>2, <2>4, <2>5, <2>6
<1> QED
  BY <1>2, <1>3

LEMMA ErrorIsTrue == IInv => ErrorTellsWhy
<1> SUFFICES ASSUME IInv, result # NULL
             PROVE  /\ result.err # NULL <=> ValidChains = {}
                    /\ result.err = "unknown_authority" =>
                         Attr(input.leaf).period = "now" /\ ~SomeLinkFails
  BY DEF ErrorTellsWhy
<1>1. input \in Inputs /\ firstErr \in LinkErrors \cup {NULL}
  BY DEF IInv, TypeInv
<1>2. CASE Attr(input.leaf).period # "now"
  <2>1. result.chains = <<>> /\ result.err = checkValidity(input.leaf)
    BY <1>2 DEF IInv, ResultInv
  <2>2. checkValidity(input.leaf) \in {"not_yet_valid", "expired"}
    BY <1>1, <1>2, InputFacts DEF checkValidity
  <2>3. result.err # NULL /\ result.err # "unknown_authority"
    BY <2>1, <2>2, NullAssumption DEF Errors
  <2> QED
    BY <2>1, <2>3, FoundIsValid
<1>3. CASE Attr(input.leaf).period = "now"
  <2>1. /\ result.chains = chains
        /\ result.err = IF chains # <<>> THEN NULL
                        ELSE IF firstErr # NULL THEN firstErr ELSE "unknown_authority"
    BY <1>3 DEF IInv, ResultInv, Outcome
  <2>2. result.err # NULL <=> chains = <<>>
    BY <2>1, NullAssumption DEF Errors
  <2>3. ASSUME result.err = "unknown_authority", SomeLinkFails
        PROVE  FALSE
    <3>1. firstErr = NULL
      BY <1>1, <2>1, <2>3, NullAssumption DEF LinkErrors, Errors
    <3>2. PICK p \in Partial :
            \E ca \in ToSet(input.roots) \cup
                      (IF Len(p) < MaxChainDepth THEN ToSet(input.inters) \ ToSet(p) ELSE {}) :
                NamedIssuer(Last(p), ca) /\ ~Issued(Append(p, ca), Len(p))
      BY <2>3 DEF SomeLinkFails
    <3>3. PICK ca \in ToSet(input.roots) \cup
                      (IF Len(p) < MaxChainDepth THEN ToSet(input.inters) \ ToSet(p) ELSE {}) :
                NamedIssuer(Last(p), ca) /\ ~Issued(Append(p, ca), Len(p))
      BY <3>2
    <3>4. IsPartial(p) /\ Last(p) = p[Len(p)]
      BY <1>1, <3>2, PartialFacts DEF Last
    <3>5. /\ Len(input.roots) \in Nat /\ Len(input.inters) \in Nat
          /\ DOMAIN input.roots = 1 .. Len(input.roots)
          /\ DOMAIN input.inters = 1 .. Len(input.inters)
          /\ DOMAIN p = 1 .. Len(p)
      BY <1>1, <3>4, InputFacts, LenProperties DEF IsPartial
    <3>6. ASSUME NEW i, Attempt(p, i), Candidate(i) = ca
          PROVE  FALSE
      <4>1. Done(p, i)
        BY <1>3, <3>6, AllDone
      <4> QED
        BY <3>1, <3>3, <3>6, <4>1 DEF Done
    <3>7. CASE ca \in ToSet(input.roots)
      <4>1. PICK j \in 1 .. Len(input.roots) : ca = input.roots[j]
        BY <3>5, <3>7 DEF ToSet
      <4>2. Candidate(j) = ca /\ j \in 1 .. Len(input.roots) + Len(input.inters)
            /\ ~(j > Len(input.roots))
        BY <1>1, <4>1, IndexFacts
      <4>3. Attempt(p, j)
        BY <3>3, <3>4, <4>2 DEF Attempt
      <4> QED
        BY <3>6, <4>2, <4>3
    <3>8. CASE Len(p) < MaxChainDepth /\ ca \in ToSet(input.inters) \ ToSet(p)
      <4>1. PICK j \in 1 .. Len(input.inters) : ca = input.inters[j]
        BY <3>5, <3>8 DEF ToSet
      <4> DEFINE i == Len(input.roots) + j
      <4>2. Candidate(i) = ca /\ i \in 1 .. Len(input.roots) + Len(input.inters)
        BY <1>1, <4>1, IndexFacts
      <4>3. ~contains(p, ca)
        BY <3>5, <3>8 DEF contains, Contains, ToSet
      <4> HIDE DEF i
      <4>4. Attempt(p, i)
        BY <3>3, <3>4, <3>8, <4>2, <4>3 DEF Attempt
      <4> QED
        BY <3>6, <4>2, <4>4
    <3> QED
      BY <3>3, <3>7, <3>8
  <2> QED
    BY <1>3, <2>1, <2>2, <2>3, FoundIsValid
<1> QED
  BY <1>2, <1>3

(* Verify "returns every chain from c to a configured root", and no other. *)
THEOREM AllChainsAndNoOther == Spec => []ReturnsTheValidChains
<1>1. IInv => ReturnsTheValidChains
  BY FoundIsValid DEF ReturnsTheValidChains
<1> QED
  BY <1>1, Invariance, PTL

(* Verify fails exactly if there is no chain; the authority is unknown     *)
(* only if no candidate issuer was found wanting.                          *)
THEOREM TheErrorTellsWhy == Spec => []ErrorTellsWhy
  BY ErrorIsTrue, Invariance, PTL
=============================================================================
