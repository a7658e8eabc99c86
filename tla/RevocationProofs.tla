-------------------------- MODULE RevocationProofs --------------------------
(***************************************************************************)
(* Proofs, for any number of CAs, serials and requests, any clock and any  *)
(* CRL validity, that Revocation keeps its invariant and the properties    *)
(* that follow from it, and that it implements AtomicRevocation.           *)
(***************************************************************************)
EXTENDS Revocation, FiniteSetTheorems, TLAPS

-----------------------------------------------------------------------------
(* Maps *)

(* Writing an entry, as the SQL statements and Engine.CRL do, keeps a map  *)
(* of its type.                                                            *)
LEMMA PutIsMap ==
    ASSUME NEW S, NEW T, NEW f, IsMap(f, S, T), NEW k \in S, NEW v \in T
    PROVE  IsMap(Put(f, k, v), S, T)
  BY DEF IsMap, Put

(* So does deleting one, as invalidateCRL does. *)
LEMMA RemoveIsMap ==
    ASSUME NEW S, NEW T, NEW f, IsMap(f, S, T), NEW k
    PROVE  IsMap(Remove(f, k), S, T)
  BY DEF IsMap, Remove

(* The two ways of typing what is revoked agree. *)
LEMMA SnapshotIsMap ==
    ASSUME NEW f
    PROVE  f \in Snapshots <=> IsMap(f, Serials, RevocationInfo)
<1>1. ASSUME f \in Snapshots PROVE IsMap(f, Serials, RevocationInfo)
  BY <1>1 DEF Snapshots, IsMap
<1>2. ASSUME IsMap(f, Serials, RevocationInfo) PROVE f \in Snapshots
  <2>1. f \in [DOMAIN f -> RevocationInfo] /\ DOMAIN f \in SUBSET Serials
    BY <1>2 DEF IsMap
  <2> QED BY <2>1 DEF Snapshots
<1> QED BY <1>1, <1>2

(* Extends is a partial order on maps. *)
LEMMA ExtendsReflexive == ASSUME NEW f PROVE Extends(f, f)
  BY DEF Extends

LEMMA ExtendsTransitive ==
    ASSUME NEW f, NEW g, NEW h, Extends(h, g), Extends(g, f)
    PROVE  Extends(h, f)
  BY DEF Extends

(* The number of entries of a CRL, which is also its number less one. *)
LEMMA CountIsNat ==
    ASSUME NEW f \in Snapshots
    PROVE  IsFiniteSet(DOMAIN f) /\ Cardinality(DOMAIN f) \in Nat
<1>1. DOMAIN f \subseteq Serials
  BY DEF Snapshots
<1> QED BY <1>1, SerialsAssumption, FS_Subset, FS_CardinalityType

(* Two states of the revoked rows, one an extension of the other, are      *)
(* equal when they have equally many rows: the test of Engine.CRL.         *)
LEMMA EqualCountEqualRows ==
    ASSUME NEW f \in Snapshots, NEW g \in Snapshots, Comparable(f, g),
           Cardinality(DOMAIN f) = Cardinality(DOMAIN g)
    PROVE  f = g
<1>1. IsFiniteSet(DOMAIN f) /\ IsFiniteSet(DOMAIN g)
  BY CountIsNat
<1>2. DOMAIN f = DOMAIN g
  <2>1. CASE Extends(f, g)
    <3>1. DOMAIN g \in SUBSET DOMAIN f
      BY <2>1 DEF Extends
    <3> QED BY <3>1, <1>1, FS_Subset
  <2>2. CASE Extends(g, f)
    <3>1. DOMAIN f \in SUBSET DOMAIN g
      BY <2>2 DEF Extends
    <3> QED BY <3>1, <1>1, FS_Subset
  <2> QED BY <2>1, <2>2 DEF Comparable
<1>3. \A x \in DOMAIN f : f[x] = g[x]
  BY <1>2 DEF Comparable, Extends
<1> QED BY <1>2, <1>3 DEF Snapshots

-----------------------------------------------------------------------------
(* The table only grows *)

(* Every step keeps the revoked rows as they are, and only adds to them;   *)
(* the same holds of the issuer of every certificate.                      *)
LEMMA TableGrows ==
    ASSUME IInv, [Next]_vars
    PROVE  Extends(revocation', revocation) /\ Extends(caOf', caOf)
<1>1. ASSUME NEW s \in Serials, NEW ca \in CAs, InsertCertificate(s, ca)
      PROVE  Extends(revocation', revocation) /\ Extends(caOf', caOf)
  BY <1>1 DEF InsertCertificate, Put, Extends
<1>2. ASSUME NEW r \in Requests, CommitRevocation(r)
      PROVE  Extends(revocation', revocation) /\ Extends(caOf', caOf)
  <2>1. arg[r].serial \notin DOMAIN revocation
    BY <1>2 DEF IInv, RequestInv, RevokeInv, CommitRevocation
  <2> QED BY <1>2, <2>1 DEF CommitRevocation, Put, Extends
<1>3. CASE UNCHANGED <<caOf, revocation>>
  BY <1>3 DEF Extends
<1> QED
  BY <1>1, <1>2, <1>3
  DEF Next, Environment, Client, RevokeStep, CRLStep, vars, store, process,
      CreateCA, SetClock, Restart, CallRevoke, CallCRL, Return, Fails,
      GetCertificate, RevokeNow, BeginTx, CheckStatus, InvalidateCRL, RereadCertificate,
      GetCA, ListRevoked, CRLNow, CheckCache, LoadKey, SignCRL

(* So what is revoked of one CA only grows. *)
LEMMA RevokedGrows ==
    ASSUME IInv, [Next]_vars, NEW ca
    PROVE  Extends(RevokedBy(ca)', RevokedBy(ca))
<1>1. Extends(revocation', revocation) /\ Extends(caOf', caOf)
  BY TableGrows
<1>2. DOMAIN revocation \subseteq DOMAIN caOf
  BY DEF IInv, TableInv
<1> QED BY <1>1, <1>2 DEF RevokedBy, Extends

-----------------------------------------------------------------------------
(* Types *)

(* The rows listed of a CA are a part of the table. *)
LEMMA RevokedByIsSnapshot ==
    ASSUME TypeOK, NEW ca
    PROVE  RevokedBy(ca) \in Snapshots
<1>1. IsMap(revocation, Serials, RevocationInfo)
  BY SnapshotIsMap DEF TypeOK
<1>2. IsMap(RevokedBy(ca), Serials, RevocationInfo)
  BY <1>1 DEF IsMap, RevokedBy
<1> QED BY <1>2, SnapshotIsMap

(* What SignCRL signs is a CRL of the CA that was asked for. *)
LEMMA NewCRLType ==
    ASSUME IInv, NEW r \in Requests, pc[r] = "crl_sign"
    PROVE  /\ NewCRL(r) \in CRLs
           /\ NewCRL(r).ca = arg[r].ca
           /\ NewCRL(r).entries = listed[r]
           /\ NewCRL(r).number = Cardinality(DOMAIN listed[r]) + 1
           /\ NewCRL(r).nextUpdate = now[r] + CRLValidity
           /\ NewCRL(r).nextUpdate \in Nat
           /\ now[r] < NewCRL(r).nextUpdate
<1>1. arg[r].ca \in CAs /\ listed[r] \in Snapshots /\ now[r] \in Times
  BY DEF IInv, RequestInv, CRLInv, CRLSteps, AfterList, AfterNow
<1>2. Cardinality(DOMAIN listed[r]) + 1 \in Nat
  BY <1>1, CountIsNat
<1>3. now[r] + CRLValidity \in Nat /\ now[r] < now[r] + CRLValidity
  BY <1>1, ClockAssumption DEF Times
<1> QED BY <1>1, <1>2, <1>3 DEF NewCRL, CRLs

(* Every reply that the handlers write has the type of a reply. *)
LEMMA ErrorType ==
    ASSUME NEW status \in Statuses
    PROVE  Error(status) \in Replies /\ Error(status).crl = NULL
           /\ Error(status).status = status
  BY DEF Error, Replies

(* The type invariant is preserved, given the rest of the invariant. *)
LEMMA TypeStep == IInv /\ [Next]_vars => TypeOK'
<1> SUFFICES ASSUME IInv, [Next]_vars PROVE TypeOK'
  OBVIOUS
<1>0. TypeOK
  BY DEF IInv
<1>1. ASSUME NEW ca \in CAs, CreateCA(ca) PROVE TypeOK'
  BY <1>0, <1>1 DEF TypeOK, CreateCA, process
<1>2. ASSUME NEW s \in Serials, NEW ca \in CAs, InsertCertificate(s, ca) PROVE TypeOK'
  <2>1. IsMap(caOf', Serials, CAs)
    BY <1>0, <1>2, PutIsMap DEF TypeOK, InsertCertificate
  <2> QED BY <1>0, <1>2, <2>1 DEF TypeOK, InsertCertificate, process
<1>3. CASE SetClock
  BY <1>0, <1>3 DEF TypeOK, SetClock, store, process
<1>4. CASE Restart
  <2>1. IsMap(crlCache', CAs, CacheEntries)
    BY <1>4 DEF Restart, EmptyMap, IsMap
  <2> QED BY <1>0, <1>4, <2>1 DEF TypeOK, Restart, store, Steps
<1>5. CASE UNCHANGED vars
  BY <1>0, <1>5 DEF TypeOK, vars, store, process
<1>6. ASSUME NEW r \in Requests,
             \/ \E s \in Serials, reason \in Reasons : CallRevoke(r, s, reason)
             \/ RevokeStep(r)
      PROVE  TypeOK'
  <2>1. ASSUME NEW s \in Serials, NEW reason \in Reasons, CallRevoke(r, s, reason)
        PROVE  TypeOK'
    <3>1. [op |-> "revoke", ca |-> NULL, serial |-> s, reason |-> reason, pass |-> FALSE]
            \in Args
      BY DEF Args
    <3>2. Error("constraint") \in Replies
      BY ErrorType DEF Statuses
    <3> QED
      BY <1>0, <2>1, <3>1, <3>2
      DEF TypeOK, CallRevoke, Goto, Answer, store, Steps, StoreCalls
  <2>2. CASE GetCertificate(r)
    <3>1. ASSUME arg[r].serial \in DOMAIN caOf
          PROVE  [arg[r] EXCEPT !.ca = caOf[arg[r].serial]] \in Args
      <4>1. arg[r] \in Args /\ caOf[arg[r].serial] \in CAs
        BY <1>0, <2>2, <3>1
        DEF IInv, RequestInv, RevokeInv, GetCertificate, RevokeSteps, TypeOK, IsMap
      <4> QED BY <4>1 DEF Args
    <3>2. Error("not_found") \in Replies
      BY ErrorType DEF Statuses
    <3> QED
      BY <1>0, <2>2, <3>1, <3>2
      DEF TypeOK, GetCertificate, Goto, Answer, store, Steps
  <2>3. CASE RevokeNow(r)
    BY <1>0, <2>3 DEF TypeOK, RevokeNow, Goto, store, Steps, StoreCalls
  <2>4. CASE BeginTx(r)
    BY <1>0, <2>4 DEF TypeOK, BeginTx, Goto, store, Steps, StoreCalls
  <2>5. CASE CheckStatus(r)
    <3>1. Error("already_revoked") \in Replies
      BY ErrorType DEF Statuses
    <3> QED
      BY <1>0, <2>5, <3>1 DEF TypeOK, CheckStatus, Goto, Answer, store, Steps, StoreCalls
  <2>6. CASE CommitRevocation(r)
    <3>1. arg[r].serial \in Serials /\ OwnRow(r) \in RevocationInfo
      BY <2>6
      DEF IInv, RequestInv, RevokeInv, CommitRevocation, RevokeSteps, AfterNow, AfterGet,
          OwnRow, RevocationInfo
    <3>2. revocation' \in Snapshots
      BY <1>0, <2>6, <3>1, PutIsMap, SnapshotIsMap DEF TypeOK, CommitRevocation, OwnRow
    <3> QED
      BY <1>0, <2>6, <3>2 DEF TypeOK, CommitRevocation, Goto, Steps
  <2>7. CASE InvalidateCRL(r)
    <3>1. IsMap(crlCache', CAs, CacheEntries)
      BY <1>0, <2>7, RemoveIsMap DEF TypeOK, InvalidateCRL
    <3> QED
      BY <1>0, <2>7, <3>1 DEF TypeOK, InvalidateCRL, Goto, store, Steps, StoreCalls
  <2>8. CASE RereadCertificate(r)
    <3>1. revocation[arg[r].serial] \in RevocationInfo
      BY <1>0, <2>8, SnapshotIsMap
      DEF IInv, RequestInv, RevokeInv, RereadCertificate, TypeOK, IsMap
    <3>2. [status |-> "ok", row |-> revocation[arg[r].serial], crl |-> NULL] \in Replies
      BY <3>1 DEF Replies, Statuses
    <3> QED
      BY <1>0, <2>8, <3>2 DEF TypeOK, RereadCertificate, Goto, Answer, store, Steps
  <2> QED
    BY <1>6, <2>1, <2>2, <2>3, <2>4, <2>5, <2>6, <2>7, <2>8 DEF RevokeStep
<1>7. ASSUME NEW r \in Requests,
             \/ \E ca \in CAs, pass \in BOOLEAN : CallCRL(r, ca, pass)
             \/ CRLStep(r)
      PROVE  TypeOK'
  <2>1. ASSUME NEW ca \in CAs, NEW pass \in BOOLEAN, CallCRL(r, ca, pass)
        PROVE  TypeOK'
    <3>1. [op |-> "crl", ca |-> ca, serial |-> NULL, reason |-> NULL, pass |-> pass] \in Args
      BY DEF Args
    <3> QED
      BY <1>0, <2>1, <3>1, RevokedByIsSnapshot
      DEF TypeOK, CallCRL, Goto, store, Steps, StoreCalls
  <2>2. CASE GetCA(r)
    <3>1. Error("not_found") \in Replies
      BY ErrorType DEF Statuses
    <3> QED
      BY <1>0, <2>2, <3>1 DEF TypeOK, GetCA, Goto, Answer, store, Steps, StoreCalls
  <2>3. CASE ListRevoked(r)
    BY <1>0, <2>3, RevokedByIsSnapshot DEF TypeOK, ListRevoked, Goto, store, Steps
  <2>4. CASE CRLNow(r)
    BY <1>0, <2>4 DEF TypeOK, CRLNow, Goto, store, Steps
  <2>5. CASE CheckCache(r)
    <3>1. ASSUME CacheHit(r)
          PROVE  [status |-> "ok", row |-> NULL, crl |-> crlCache[arg[r].ca].der] \in Replies
      BY <1>0, <3>1 DEF CacheHit, TypeOK, IsMap, CacheEntries, Replies, Statuses
    <3> QED
      BY <1>0, <2>5, <3>1 DEF TypeOK, CheckCache, Goto, Answer, store, Steps
  <2>6. CASE LoadKey(r)
    <3>1. Error("wrong_passphrase") \in Replies
      BY ErrorType DEF Statuses
    <3> QED
      BY <1>0, <2>6, <3>1 DEF TypeOK, LoadKey, Goto, Answer, store, Steps
  <2>7. CASE SignCRL(r)
    <3>1. NewCRL(r) \in CRLs /\ NewCRL(r).nextUpdate \in Nat
      BY <2>7, NewCRLType DEF SignCRL
    <3>2. arg[r].ca \in CAs /\ Cardinality(DOMAIN listed[r]) \in Nat
      BY <2>7, CountIsNat DEF IInv, RequestInv, CRLInv, CRLSteps, AfterList, SignCRL
    <3>3. [der |-> NewCRL(r), entryCount |-> Cardinality(DOMAIN listed[r]),
           nextUpdate |-> NewCRL(r).nextUpdate] \in CacheEntries
      BY <3>1, <3>2 DEF CacheEntries
    <3>4. IsMap(crlCache', CAs, CacheEntries)
      BY <1>0, <2>7, <3>2, <3>3, PutIsMap DEF TypeOK, SignCRL
    <3>5. [status |-> "ok", row |-> NULL, crl |-> NewCRL(r)] \in Replies
      BY <3>1 DEF Replies, Statuses
    <3> QED
      BY <1>0, <2>7, <3>1, <3>4, <3>5 DEF TypeOK, SignCRL, Goto, Answer, store, Steps
  <2> QED
    BY <1>7, <2>1, <2>2, <2>3, <2>4, <2>5, <2>6, <2>7 DEF CRLStep
<1>8. ASSUME NEW r \in Requests, Fails(r) PROVE TypeOK'
  <2>1. Error("internal") \in Replies
    BY ErrorType DEF Statuses
  <2> QED BY <1>0, <1>8, <2>1 DEF TypeOK, Fails, Goto, Answer, store, Steps
<1>9. ASSUME NEW r \in Requests, Return(r) PROVE TypeOK'
  BY <1>0, <1>9 DEF TypeOK, Return, Goto, store, Steps
<1> QED
  BY <1>1, <1>2, <1>3, <1>4, <1>5, <1>6, <1>7, <1>8, <1>9 DEF Next, Environment, Client

-----------------------------------------------------------------------------
(* Requests *)

(* A step of one request leaves the local variables of the others alone.   *)
LEMMA OthersUnchanged ==
    ASSUME IInv, NEW r \in Requests, NEW q \in Requests, q # r,
           Client(r) \/ RevokeStep(r) \/ CRLStep(r) \/ Fails(r)
    PROVE  /\ pc'[q] = pc[q] /\ arg'[q] = arg[q] /\ now'[q] = now[q]
           /\ listed'[q] = listed[q] /\ reply'[q] = reply[q] /\ before'[q] = before[q]
<1>1. TypeOK
  BY DEF IInv
<1> QED
  BY <1>1
  DEF TypeOK, Client, RevokeStep, CRLStep, Fails, CallRevoke, CallCRL, Return, Goto, Answer,
      GetCertificate, RevokeNow, BeginTx, CheckStatus, CommitRevocation, InvalidateCRL,
      RereadCertificate, GetCA, ListRevoked, CRLNow, CheckCache, LoadKey, SignCRL

(* Steps of the environment leave every request alone, or end them all.    *)
LEMMA EnvironmentStep ==
    ASSUME Environment \/ UNCHANGED vars
    PROVE  \/ UNCHANGED <<pc, arg, now, listed, reply, before>>
           \/ \A r \in Requests : pc'[r] = "idle"
  BY DEF Environment, CreateCA, InsertCertificate, SetClock, Restart, process, vars

(* Only certificates of the table are ever revoked. *)
LEMMA TableStep == IInv /\ [Next]_vars => TableInv'
<1> SUFFICES ASSUME IInv, [Next]_vars PROVE TableInv'
  OBVIOUS
<1>0. TableInv
  BY DEF IInv
<1>1. Extends(caOf', caOf)
  BY TableGrows
<1>2. ASSUME NEW r \in Requests, CommitRevocation(r) PROVE TableInv'
  <2>1. arg[r].serial \in DOMAIN caOf
    BY <1>2 DEF IInv, RequestInv, RevokeInv, CommitRevocation, AfterGet, RevokeSteps
  <2> QED BY <1>0, <1>1, <1>2, <2>1 DEF TableInv, CommitRevocation, Put, Extends
<1>3. CASE UNCHANGED revocation
  BY <1>0, <1>1, <1>3 DEF TableInv, Extends
<1> QED
  BY <1>2, <1>3
  DEF Next, Environment, Client, RevokeStep, CRLStep, vars, store, process,
      CreateCA, InsertCertificate, SetClock, Restart, CallRevoke, CallCRL, Return, Fails,
      GetCertificate, RevokeNow, BeginTx, CheckStatus, InvalidateCRL, RereadCertificate,
      GetCA, ListRevoked, CRLNow, CheckCache, LoadKey, SignCRL

(* What a request knows stays true while others take their steps, because  *)
(* the table only grows.  A request that is about to commit is the only    *)
(* one in a transaction, so nobody revokes its certificate first.          *)
LEMMA RequestStable ==
    ASSUME IInv, [Next]_vars, NEW q \in Requests,
           pc'[q] = pc[q], arg'[q] = arg[q], now'[q] = now[q],
           listed'[q] = listed[q], reply'[q] = reply[q], before'[q] = before[q],
           pc[q] = "revoke_commit" => UNCHANGED revocation
    PROVE  /\ RevokeInv(q)'
           /\ CRLInv(q)'
           /\ pc'[q] \in AfterNow => now'[q] \in Times
           /\ pc'[q] = "done" => arg'[q] \in Args /\ reply'[q] \in Replies
<1>1. RevokeInv(q) /\ CRLInv(q)
      /\ (pc[q] \in AfterNow => now[q] \in Times)
      /\ (pc[q] = "done" => arg[q] \in Args /\ reply[q] \in Replies)
  BY DEF IInv, RequestInv
<1>2. Extends(revocation', revocation) /\ Extends(caOf', caOf)
  BY TableGrows
<1>3. RevokeInv(q)'
  BY <1>1, <1>2 DEF RevokeInv, OwnRow, Extends
<1>4. CRLInv(q)'
  <2> DEFINE ca == arg[q].ca
  <2>1. Extends(RevokedBy(ca)', RevokedBy(ca))
    BY RevokedGrows
  <2>2. pc[q] \in CRLSteps => Extends(RevokedBy(ca)', before[q])
    BY <1>1, <2>1, ExtendsTransitive DEF CRLInv
  <2>3. pc[q] \in AfterList => Extends(RevokedBy(ca)', listed[q])
    BY <1>1, <2>1, ExtendsTransitive DEF CRLInv
  <2>4. RevokedBy(arg[q].ca)' = RevokedBy(ca)'
    BY DEF RevokedBy
  <2> QED BY <1>1, <2>2, <2>3, <2>4 DEF CRLInv
<1> QED BY <1>1, <1>3, <1>4

(* The request that takes a step knows what its next step needs. *)
LEMMA RevokeOwnStep ==
    ASSUME IInv, [Next]_vars, TypeOK', TableInv', NEW r \in Requests, RevokeStep(r)
    PROVE  /\ RevokeInv(r)'
           /\ CRLInv(r)'
           /\ pc'[r] \in AfterNow => now'[r] \in Times
           /\ pc'[r] = "done" => arg'[r] \in Args /\ reply'[r] \in Replies
<1> USE DEF RevokeSteps, AfterGet, AfterNow, CRLSteps, AfterList, OwnRow
<1>0. TypeOK /\ RevokeInv(r) /\ CRLInv(r) /\ (pc[r] \in AfterNow => now[r] \in Times)
  BY DEF IInv, RequestInv
<1>1. pc[r] \in RevokeSteps
  BY DEF RevokeStep, GetCertificate, RevokeNow, BeginTx, CheckStatus, CommitRevocation,
         InvalidateCRL, RereadCertificate
<1>2. CRLInv(r)'
  <2>1. pc'[r] \notin CRLSteps
    BY <1>0
    DEF RevokeStep, GetCertificate, RevokeNow, BeginTx, CheckStatus, CommitRevocation,
        InvalidateCRL, RereadCertificate, Goto, Answer, TypeOK
  <2> QED BY <2>1 DEF CRLInv
<1>3. CASE GetCertificate(r)
  <2>1. CASE arg[r].serial \in DOMAIN caOf
    <3>1. /\ arg'[r] = [arg[r] EXCEPT !.ca = caOf[arg[r].serial]]
          /\ pc'[r] = "revoke_now"
          /\ caOf' = caOf
      BY <1>0, <1>3, <2>1 DEF GetCertificate, Goto, TypeOK, store
    <3>2. arg[r] \in Args /\ caOf[arg[r].serial] \in CAs
      BY <1>0, <1>1, <2>1 DEF RevokeInv, TypeOK, IsMap
    <3>3. /\ arg'[r] \in Args
          /\ arg'[r].op = arg[r].op /\ arg'[r].serial = arg[r].serial
          /\ arg'[r].reason = arg[r].reason /\ arg'[r].ca = caOf[arg[r].serial]
      BY <3>1, <3>2 DEF Args
    <3> QED BY <1>0, <1>1, <1>2, <2>1, <3>1, <3>3 DEF RevokeInv
  <2>2. CASE arg[r].serial \notin DOMAIN caOf
    <3>1. pc'[r] = "done" /\ arg'[r] = arg[r] /\ reply'[r] = Error("not_found")
      BY <1>0, <1>3, <2>2 DEF GetCertificate, Goto, Answer, TypeOK
    <3>2. Error("not_found") \in Replies
      BY ErrorType DEF Statuses
    <3> QED BY <1>0, <1>1, <1>2, <3>1, <3>2 DEF RevokeInv
  <2> QED BY <2>1, <2>2
<1>4. CASE RevokeNow(r)
  <2>1. /\ pc'[r] = "revoke_begin" /\ now'[r] = clock /\ arg'[r] = arg[r]
        /\ UNCHANGED <<caOf, revocation>>
    BY <1>0, <1>4 DEF RevokeNow, Goto, TypeOK, store
  <2>2. pc[r] = "revoke_now" /\ clock \in Times
    BY <1>0, <1>4 DEF RevokeNow, TypeOK
  <2> QED BY <1>0, <1>2, <2>1, <2>2 DEF RevokeInv
<1>5. CASE BeginTx(r)
  <2>1. /\ pc[r] = "revoke_begin" /\ pc'[r] = "revoke_check"
        /\ UNCHANGED <<caOf, revocation, arg, now>>
    BY <1>0, <1>5 DEF BeginTx, Goto, TypeOK, store
  <2> QED BY <1>0, <1>2, <2>1 DEF RevokeInv
<1>6. CASE CheckStatus(r)
  <2>1. pc[r] = "revoke_check" /\ UNCHANGED <<caOf, revocation, arg, now>>
    BY <1>6 DEF CheckStatus, store
  <2>2. \/ pc'[r] = "revoke_commit" /\ arg[r].serial \notin DOMAIN revocation
        \/ pc'[r] = "done" /\ reply'[r] = Error("already_revoked")
    BY <1>0, <1>6 DEF CheckStatus, Goto, Answer, TypeOK
  <2>3. Error("already_revoked") \in Replies
    BY ErrorType DEF Statuses
  <2> QED BY <1>0, <1>2, <2>1, <2>2, <2>3 DEF RevokeInv
<1>7. CASE CommitRevocation(r)
  <2>1. /\ pc[r] = "revoke_commit" /\ pc'[r] = "revoke_invalidate"
        /\ UNCHANGED <<caOf, arg, now>>
        /\ revocation' = Put(revocation, arg[r].serial, OwnRow(r))
    BY <1>0, <1>7 DEF CommitRevocation, Goto, TypeOK
  <2> QED BY <1>0, <1>2, <2>1 DEF RevokeInv, Put
<1>8. CASE InvalidateCRL(r)
  <2>1. /\ pc[r] = "revoke_invalidate" /\ pc'[r] = "revoke_reread"
        /\ UNCHANGED <<caOf, revocation, arg, now>>
    BY <1>0, <1>8 DEF InvalidateCRL, Goto, TypeOK, store
  <2> QED BY <1>0, <1>2, <2>1 DEF RevokeInv
<1>9. CASE RereadCertificate(r)
  <2>1. /\ pc[r] = "revoke_reread" /\ pc'[r] = "done"
        /\ arg'[r] = arg[r]
        /\ reply'[r] = [status |-> "ok", row |-> revocation[arg[r].serial], crl |-> NULL]
    BY <1>0, <1>9 DEF RereadCertificate, Goto, Answer, TypeOK
  <2>2. revocation[arg[r].serial] \in RevocationInfo
    BY <1>0, <2>1, SnapshotIsMap DEF RevokeInv, TypeOK, IsMap
  <2>3. reply'[r] \in Replies
    BY <2>1, <2>2 DEF Replies, Statuses
  <2> QED BY <1>0, <1>2, <2>1, <2>3 DEF RevokeInv
<1> QED
  BY <1>3, <1>4, <1>5, <1>6, <1>7, <1>8, <1>9 DEF RevokeStep

(* The same for a request for a CRL. *)
LEMMA CRLOwnStep ==
    ASSUME IInv, [Next]_vars, TypeOK', NEW r \in Requests, CRLStep(r)
    PROVE  /\ RevokeInv(r)'
           /\ CRLInv(r)'
           /\ pc'[r] \in AfterNow => now'[r] \in Times
           /\ pc'[r] = "done" => arg'[r] \in Args /\ reply'[r] \in Replies
<1> USE DEF RevokeSteps, AfterGet, AfterNow, CRLSteps, AfterList
<1>0. TypeOK /\ CRLInv(r) /\ (pc[r] \in AfterNow => now[r] \in Times)
  BY DEF IInv, RequestInv
<1>1. /\ pc[r] \in CRLSteps
      /\ UNCHANGED <<caOf, revocation, arg, before>>
  BY DEF CRLStep, GetCA, ListRevoked, CRLNow, CheckCache, LoadKey, SignCRL, store
<1>2. RevokeInv(r)'
  <2>1. pc'[r] \notin RevokeSteps
    BY <1>0
    DEF CRLStep, GetCA, ListRevoked, CRLNow, CheckCache, LoadKey, SignCRL, Goto, Answer, TypeOK
  <2> QED BY <2>1 DEF RevokeInv
<1>3. RevokedBy(arg[r].ca)' = RevokedBy(arg[r].ca)
  BY <1>1 DEF RevokedBy
<1>4. CASE ListRevoked(r)
  <2>1. pc[r] = "crl_list" /\ pc'[r] = "crl_now" /\ listed'[r] = RevokedBy(arg[r].ca)
    BY <1>0, <1>4 DEF ListRevoked, Goto, TypeOK
  <2>2. listed'[r] \in Snapshots /\ Extends(RevokedBy(arg[r].ca), listed'[r])
    BY <1>0, <2>1, RevokedByIsSnapshot, ExtendsReflexive
  <2> QED BY <1>0, <1>1, <1>2, <1>3, <2>1, <2>2 DEF CRLInv
<1>5. CASE CRLNow(r)
  <2>1. pc[r] = "crl_now" /\ pc'[r] = "crl_cache" /\ now'[r] \in Times /\ UNCHANGED listed
    BY <1>0, <1>5 DEF CRLNow, Goto, TypeOK
  <2> QED BY <1>0, <1>1, <1>2, <1>3, <2>1 DEF CRLInv
<1>6. CASE GetCA(r) \/ CheckCache(r) \/ LoadKey(r) \/ SignCRL(r)
  <2>1. /\ UNCHANGED <<listed, now>>
        /\ \/ pc[r] = "crl_getca" /\ pc'[r] = "crl_list"
           \/ pc[r] = "crl_cache" /\ pc'[r] = "crl_load"
           \/ pc[r] = "crl_load" /\ pc'[r] = "crl_sign"
           \/ pc'[r] = "done"
    BY <1>0, <1>6 DEF GetCA, CheckCache, LoadKey, SignCRL, Goto, Answer, TypeOK
  <2>2. ASSUME pc'[r] = "done" PROVE reply'[r] \in Replies
    <3>1. Error("not_found") \in Replies /\ Error("wrong_passphrase") \in Replies
      BY ErrorType DEF Statuses
    <3>2. CASE GetCA(r) \/ LoadKey(r)
      BY <1>0, <2>2, <3>1, <3>2 DEF GetCA, LoadKey, Goto, Answer, TypeOK
    <3>3. CASE CheckCache(r)
      <4>1. CacheHit(r) /\ reply'[r] = [status |-> "ok", row |-> NULL,
                                        crl |-> crlCache[arg[r].ca].der]
        BY <1>0, <2>2, <3>3 DEF CheckCache, Goto, Answer, TypeOK
      <4>2. crlCache[arg[r].ca].der \in CRLs
        BY <1>0, <4>1 DEF CacheHit, TypeOK, IsMap, CacheEntries
      <4> QED BY <4>1, <4>2 DEF Replies, Statuses
    <3>4. CASE SignCRL(r)
      <4>1. reply'[r] = [status |-> "ok", row |-> NULL, crl |-> NewCRL(r)]
        BY <1>0, <3>4 DEF SignCRL, Answer, TypeOK
      <4>2. NewCRL(r) \in CRLs
        BY <3>4, NewCRLType DEF SignCRL
      <4> QED BY <4>1, <4>2 DEF Replies, Statuses
    <3> QED BY <1>6, <3>2, <3>3, <3>4
  <2> QED BY <1>0, <1>1, <1>2, <1>3, <2>1, <2>2 DEF CRLInv
<1> QED
  BY <1>4, <1>5, <1>6 DEF CRLStep

(* Arrival, failure and end of a request. *)
LEMMA ClientOwnStep ==
    ASSUME IInv, [Next]_vars, TypeOK', NEW r \in Requests, Client(r) \/ Fails(r)
    PROVE  /\ RevokeInv(r)'
           /\ CRLInv(r)'
           /\ pc'[r] \in AfterNow => now'[r] \in Times
           /\ pc'[r] = "done" => arg'[r] \in Args /\ reply'[r] \in Replies
<1> USE DEF RevokeSteps, AfterGet, AfterNow, CRLSteps, AfterList
<1>0. TypeOK /\ RevokeInv(r) /\ CRLInv(r)
  BY DEF IInv, RequestInv
<1>1. ASSUME NEW s \in Serials, NEW reason \in Reasons, CallRevoke(r, s, reason)
      PROVE  /\ RevokeInv(r)' /\ CRLInv(r)'
             /\ pc'[r] \in AfterNow => now'[r] \in Times
             /\ pc'[r] = "done" => arg'[r] \in Args /\ reply'[r] \in Replies
  <2>1. arg'[r] = [op |-> "revoke", ca |-> NULL, serial |-> s, reason |-> reason,
                   pass |-> FALSE]
    BY <1>0, <1>1 DEF CallRevoke, TypeOK
  <2>2. arg'[r] \in Args
    BY <2>1 DEF Args
  <2>3. \/ pc'[r] = "revoke_get" /\ IsReason(reason)
        \/ pc'[r] = "done" /\ reply'[r] = Error("constraint")
    BY <1>0, <1>1 DEF CallRevoke, TypeOK, Goto, Answer
  <2>4. Error("constraint") \in Replies
    BY ErrorType DEF Statuses
  <2> QED BY <2>1, <2>2, <2>3, <2>4 DEF RevokeInv, CRLInv
<1>2. ASSUME NEW ca \in CAs, NEW pass \in BOOLEAN, CallCRL(r, ca, pass)
      PROVE  /\ RevokeInv(r)' /\ CRLInv(r)'
             /\ pc'[r] \in AfterNow => now'[r] \in Times
             /\ pc'[r] = "done" => arg'[r] \in Args /\ reply'[r] \in Replies
  <2>1. /\ arg'[r] = [op |-> "crl", ca |-> ca, serial |-> NULL, reason |-> NULL,
                      pass |-> pass]
        /\ before'[r] = RevokedBy(ca)
        /\ pc'[r] = "crl_getca"
        /\ UNCHANGED <<caOf, revocation>>
    BY <1>0, <1>2 DEF CallCRL, TypeOK, Goto, store
  <2>2. arg'[r] \in Args
    BY <2>1 DEF Args
  <2>3. before'[r] \in Snapshots
    BY <1>0, <2>1, RevokedByIsSnapshot
  <2>4. RevokedBy(ca)' = RevokedBy(ca)
    BY <2>1 DEF RevokedBy
  <2>5. Extends(RevokedBy(arg[r].ca)', before'[r])
    BY <2>1, <2>4, ExtendsReflexive DEF RevokedBy
  <2> QED BY <2>1, <2>2, <2>3, <2>5 DEF RevokeInv, CRLInv
<1>3. CASE Return(r)
  <2>1. pc'[r] = "idle"
    BY <1>0, <1>3 DEF Return, TypeOK, Goto
  <2> QED BY <2>1 DEF RevokeInv, CRLInv
<1>4. CASE Fails(r)
  <2>1. pc'[r] = "done" /\ reply'[r] = Error("internal") /\ arg'[r] = arg[r]
    BY <1>0, <1>4 DEF Fails, TypeOK, Goto, Answer
  <2>2. Error("internal") \in Replies
    BY ErrorType DEF Statuses
  <2>3. arg[r] \in Args
    BY <1>0, <1>4 DEF Fails, StoreCalls, RevokeInv, CRLInv
  <2> QED BY <2>1, <2>2, <2>3 DEF RevokeInv, CRLInv
<1> QED
  BY <1>1, <1>2, <1>3, <1>4 DEF Client

(* The connection is held exactly by the request that is in a transaction. *)
LEMMA ConnectionStep ==
    ASSUME IInv, [Next]_vars
    PROVE  /\ NoConnectionLeak'
           /\ \A q \in Requests : pc'[q] \in InTransaction => conn' = q
<1> USE DEF InTransaction
<1>0. /\ TypeOK /\ NoConnectionLeak
      /\ \A q \in Requests : pc[q] \in InTransaction => conn = q
  BY DEF IInv, RequestInv
<1>1. CASE Environment \/ UNCHANGED vars
  <2>1. \/ UNCHANGED <<pc, conn>>
        \/ conn' = NULL /\ pc' = [r \in Requests |-> "idle"]
    BY <1>1 DEF Environment, CreateCA, InsertCertificate, SetClock, Restart, process, vars
  <2> QED BY <1>0, <2>1 DEF NoConnectionLeak
<1>2. ASSUME NEW r \in Requests, Client(r) \/ CRLStep(r)
      PROVE  /\ NoConnectionLeak'
             /\ \A q \in Requests : pc'[q] \in InTransaction => conn' = q
  <2>1. /\ conn' = conn /\ pc[r] \notin InTransaction
        /\ pc' = [pc EXCEPT ![r] = pc'[r]] /\ pc'[r] \notin InTransaction
    BY <1>0, <1>2
    DEF Client, CRLStep, CallRevoke, CallCRL, Return, GetCA, ListRevoked, CRLNow, CheckCache,
        LoadKey, SignCRL, Goto, Answer, TypeOK
  <2> QED BY <1>0, <2>1 DEF NoConnectionLeak, TypeOK
<1>3. ASSUME NEW r \in Requests, RevokeStep(r) \/ Fails(r)
      PROVE  /\ NoConnectionLeak'
             /\ \A q \in Requests : pc'[q] \in InTransaction => conn' = q
  <2>1. CASE GetCertificate(r) \/ RevokeNow(r) \/ InvalidateCRL(r) \/ RereadCertificate(r)
    <3>1. /\ conn' = conn /\ pc[r] \notin InTransaction
          /\ pc' = [pc EXCEPT ![r] = pc'[r]] /\ pc'[r] \notin InTransaction
      BY <1>0, <2>1
      DEF GetCertificate, RevokeNow, InvalidateCRL, RereadCertificate, Goto, Answer, TypeOK
    <3> QED BY <1>0, <3>1 DEF NoConnectionLeak, TypeOK
  <2>2. CASE BeginTx(r)
    BY <1>0, <2>2, NullAssumption DEF BeginTx, Goto, NoConnectionLeak, TypeOK
  <2>3. CASE CheckStatus(r)
    BY <1>0, <2>3 DEF CheckStatus, Goto, Answer, NoConnectionLeak, TypeOK
  <2>4. CASE CommitRevocation(r)
    BY <1>0, <2>4 DEF CommitRevocation, Goto, NoConnectionLeak, TypeOK
  <2>5. CASE Fails(r)
    BY <1>0, <2>5 DEF Fails, Goto, Answer, NoConnectionLeak, TypeOK
  <2> QED BY <1>3, <2>1, <2>2, <2>3, <2>4, <2>5 DEF RevokeStep
<1> QED
  BY <1>1, <1>2, <1>3 DEF Next

(* Together: what requests know is preserved by every step. *)
LEMMA RequestInvStep == IInv /\ [Next]_vars => RequestInv'
<1> SUFFICES ASSUME IInv, [Next]_vars, NEW q \in Requests
             PROVE  /\ RevokeInv(q)' /\ CRLInv(q)'
                    /\ pc'[q] \in AfterNow => now'[q] \in Times
                    /\ pc'[q] = "done" => arg'[q] \in Args /\ reply'[q] \in Replies
  BY ConnectionStep DEF RequestInv
<1>0. TypeOK' /\ TableInv'
  BY TypeStep, TableStep
<1>1. CASE Environment \/ UNCHANGED vars
  <2>1. UNCHANGED revocation
    BY <1>1 DEF Environment, CreateCA, InsertCertificate, SetClock, Restart, store, vars
  <2>2. CASE UNCHANGED <<pc, arg, now, listed, reply, before>>
    BY <2>1, <2>2, RequestStable
  <2>3. CASE \A r \in Requests : pc'[r] = "idle"
    <3>1. pc'[q] = "idle"
      BY <2>3
    <3> QED
      BY <3>1 DEF RevokeInv, CRLInv, RevokeSteps, AfterGet, AfterNow, CRLSteps, AfterList
  <2> QED BY <1>1, <2>2, <2>3, EnvironmentStep
<1>2. ASSUME NEW r \in Requests, Client(r) \/ RevokeStep(r) \/ CRLStep(r) \/ Fails(r), q # r
      PROVE  /\ RevokeInv(q)' /\ CRLInv(q)'
             /\ pc'[q] \in AfterNow => now'[q] \in Times
             /\ pc'[q] = "done" => arg'[q] \in Args /\ reply'[q] \in Replies
  <2>1. pc[q] = "revoke_commit" => UNCHANGED revocation
    <3>1. ASSUME pc[q] = "revoke_commit" PROVE ~ CommitRevocation(r)
      BY <1>2, <3>1 DEF IInv, RequestInv, InTransaction, CommitRevocation
    <3>2. CommitRevocation(r) \/ UNCHANGED revocation
      BY <1>2
      DEF Client, RevokeStep, CRLStep, Fails, store, CallRevoke, CallCRL, Return,
          GetCertificate, RevokeNow, BeginTx, CheckStatus, InvalidateCRL, RereadCertificate,
          GetCA, ListRevoked, CRLNow, CheckCache, LoadKey, SignCRL
    <3> QED BY <3>1, <3>2
  <2>2. /\ pc'[q] = pc[q] /\ arg'[q] = arg[q] /\ now'[q] = now[q]
        /\ listed'[q] = listed[q] /\ reply'[q] = reply[q] /\ before'[q] = before[q]
    BY <1>2, OthersUnchanged
  <2> QED BY <2>1, <2>2, RequestStable
<1>3. CASE Client(q) \/ Fails(q)
  BY <1>0, <1>3, ClientOwnStep
<1>4. CASE RevokeStep(q)
  BY <1>0, <1>4, RevokeOwnStep
<1>5. CASE CRLStep(q)
  BY <1>0, <1>5, CRLOwnStep
<1> QED
  BY <1>1, <1>2, <1>3, <1>4, <1>5 DEF Next

-----------------------------------------------------------------------------
(* CRLs *)

(* The only step that signs a CRL is SignCRL. *)
LEMMA PublishedStep ==
    ASSUME [Next]_vars
    PROVE  \/ UNCHANGED published
           \/ \E r \in Requests : SignCRL(r)
  BY DEF Next, Environment, Client, RevokeStep, CRLStep, vars, process,
         CreateCA, InsertCertificate, SetClock, Restart, CallRevoke, CallCRL, Return, Fails,
         GetCertificate, RevokeNow, BeginTx, CheckStatus, CommitRevocation, InvalidateCRL,
         RereadCertificate, GetCA, ListRevoked, CRLNow, CheckCache, LoadKey

(* The number of a CRL follows from the number of its entries. *)
LEMMA NumberStep == IInv /\ [Next]_vars => NumberInv'
<1> SUFFICES ASSUME IInv, [Next]_vars PROVE NumberInv'
  OBVIOUS
<1>1. CASE UNCHANGED published
  BY <1>1 DEF IInv, NumberInv
<1>2. ASSUME NEW r \in Requests, SignCRL(r) PROVE NumberInv'
  <2>1. /\ NewCRL(r).entries = listed[r]
        /\ NewCRL(r).number = Cardinality(DOMAIN listed[r]) + 1
    BY <1>2, NewCRLType DEF SignCRL
  <2>2. published' = published \cup {NewCRL(r)}
    BY <1>2 DEF SignCRL
  <2>3. NumberInv
    BY DEF IInv
  <2> QED BY <2>1, <2>2, <2>3 DEF NumberInv
<1> QED BY <1>1, <1>2, PublishedStep

(* No published CRL is contradicted by a later state of the table. *)
LEMMA PublishedTrueStep == IInv /\ [Next]_vars => PublishedStaysTrue'
<1> SUFFICES ASSUME IInv, [Next]_vars, NEW c \in published'
             PROVE  Extends(RevokedBy(c.ca)', c.entries)
  BY DEF PublishedStaysTrue
<1>1. Extends(RevokedBy(c.ca)', RevokedBy(c.ca))
  BY RevokedGrows
<1>2. Extends(RevokedBy(c.ca), c.entries)
  <2>1. CASE c \in published
    BY <2>1 DEF IInv, PublishedStaysTrue
  <2>2. ASSUME NEW r \in Requests, SignCRL(r), c = NewCRL(r)
        PROVE  Extends(RevokedBy(c.ca), c.entries)
    <3>1. c.ca = arg[r].ca /\ c.entries = listed[r]
      BY <2>2, NewCRLType DEF SignCRL
    <3>2. Extends(RevokedBy(arg[r].ca), listed[r])
      BY <2>2 DEF IInv, RequestInv, CRLInv, SignCRL, AfterList, CRLSteps
    <3> QED BY <3>1, <3>2
  <2> QED BY <2>1, <2>2, PublishedStep DEF SignCRL
<1> QED BY <1>1, <1>2, ExtendsTransitive

(* A cached CRL was published, and its cache entry describes it. *)
LEMMA CacheStep == IInv /\ [Next]_vars => CacheInv'
<1> SUFFICES ASSUME IInv, [Next]_vars PROVE CacheInv'
  OBVIOUS
<1>0. CacheInv
  BY DEF IInv
<1>1. published \subseteq published'
  BY PublishedStep DEF SignCRL
<1>2. CASE UNCHANGED crlCache
  BY <1>0, <1>1, <1>2 DEF CacheInv
<1>3. CASE Restart
  BY <1>3 DEF Restart, CacheInv, EmptyMap
<1>4. ASSUME NEW r \in Requests, InvalidateCRL(r) PROVE CacheInv'
  BY <1>0, <1>1, <1>4 DEF InvalidateCRL, CacheInv, Remove
<1>5. ASSUME NEW r \in Requests, SignCRL(r) PROVE CacheInv'
  <2> DEFINE e == [der |-> NewCRL(r), entryCount |-> Cardinality(DOMAIN listed[r]),
                   nextUpdate |-> NewCRL(r).nextUpdate]
  <2>1. crlCache' = Put(crlCache, arg[r].ca, e) /\ published' = published \cup {NewCRL(r)}
    BY <1>5 DEF SignCRL
  <2>2. /\ e.der \in published' /\ e.der.ca = arg[r].ca
        /\ e.entryCount = Cardinality(DOMAIN e.der.entries)
        /\ e.nextUpdate = e.der.nextUpdate
    BY <1>5, <2>1, NewCRLType DEF SignCRL
  <2> QED BY <1>0, <1>1, <2>1, <2>2 DEF CacheInv, Put
<1> QED
  BY <1>2, <1>3, <1>4, <1>5
  DEF Next, Environment, Client, RevokeStep, CRLStep, vars, process,
      CreateCA, InsertCertificate, SetClock, CallRevoke, CallCRL, Return, Fails,
      GetCertificate, RevokeNow, BeginTx, CheckStatus, CommitRevocation, RereadCertificate,
      GetCA, ListRevoked, CRLNow, CheckCache, LoadKey

(* Rows that a request holds were held before the step, or were listed by  *)
(* it.                                                                     *)
LEMMA ListedStep ==
    ASSUME IInv, [Next]_vars, NEW q \in Requests, pc'[q] \in AfterList
    PROVE  \/ /\ pc[q] \in AfterList
              /\ arg'[q] = arg[q] /\ listed'[q] = listed[q]
           \/ /\ listed'[q] = RevokedBy(arg'[q].ca)
              /\ UNCHANGED <<caOf, revocation, published>>
              /\ \A r \in Requests \ {q} :
                   pc'[r] = pc[r] /\ arg'[r] = arg[r] /\ listed'[r] = listed[r]
<1> USE DEF AfterList, CRLSteps
<1>0. TypeOK
  BY DEF IInv
<1>1. CASE Environment \/ UNCHANGED vars
  BY <1>1, EnvironmentStep
<1>2. ASSUME NEW r \in Requests, Client(r) \/ RevokeStep(r) \/ CRLStep(r) \/ Fails(r), q # r
      PROVE  pc[q] \in AfterList /\ arg'[q] = arg[q] /\ listed'[q] = listed[q]
  BY <1>2, OthersUnchanged
<1>3. CASE Client(q) \/ RevokeStep(q) \/ Fails(q)
  <2>1. pc'[q] \notin AfterList
    BY <1>0, <1>3
    DEF Client, RevokeStep, Fails, CallRevoke, CallCRL, Return, Goto, Answer, TypeOK,
        GetCertificate, RevokeNow, BeginTx, CheckStatus, CommitRevocation, InvalidateCRL,
        RereadCertificate
  <2> QED BY <2>1
<1>4. CASE ListRevoked(q)
  BY <1>0, <1>4 DEF ListRevoked, Goto, TypeOK, store
<1>5. CASE GetCA(q) \/ CRLNow(q) \/ CheckCache(q) \/ LoadKey(q) \/ SignCRL(q)
  BY <1>0, <1>5 DEF GetCA, CRLNow, CheckCache, LoadKey, SignCRL, Goto, Answer, TypeOK
<1> QED
  BY <1>1, <1>2, <1>3, <1>4, <1>5 DEF Next, CRLStep

(* States of the table that were seen are seen in one order. *)
LEMMA ChainStep == IInv /\ [Next]_vars => ChainInv'
<1> SUFFICES ASSUME IInv, [Next]_vars PROVE ChainInv'
  OBVIOUS
<1>0. ChainInv
  BY DEF IInv
<1>1. \A c \in published : Extends(RevokedBy(c.ca), c.entries)
  BY DEF IInv, PublishedStaysTrue
<1>2. \A r \in Requests : pc[r] \in AfterList => Extends(RevokedBy(arg[r].ca), listed[r])
  BY DEF IInv, RequestInv, CRLInv
<1>3. \A c, d \in published' : c.ca = d.ca => Comparable(c.entries, d.entries)
  <2>1. CASE UNCHANGED published
    BY <1>0, <2>1 DEF ChainInv
  <2>2. ASSUME NEW r \in Requests, SignCRL(r)
        PROVE  \A c, d \in published' : c.ca = d.ca => Comparable(c.entries, d.entries)
    <3>1. /\ NewCRL(r).ca = arg[r].ca /\ NewCRL(r).entries = listed[r]
          /\ published' = published \cup {NewCRL(r)}
          /\ pc[r] \in AfterList
      BY <2>2, NewCRLType DEF SignCRL, AfterList, CRLSteps
    <3>2. \A c \in published : c.ca = arg[r].ca => Comparable(c.entries, listed[r])
      BY <1>0, <3>1 DEF ChainInv
    <3> QED BY <1>0, <3>1, <3>2 DEF ChainInv, Comparable, Extends
  <2> QED BY <2>1, <2>2, PublishedStep
<1>4. ASSUME NEW c \in published', NEW q \in Requests, pc'[q] \in AfterList, arg'[q].ca = c.ca
      PROVE  Comparable(c.entries, listed'[q])
  <2>1. CASE pc[q] \in AfterList /\ arg'[q] = arg[q] /\ listed'[q] = listed[q]
    <3>1. CASE c \in published
      BY <1>0, <1>4, <2>1, <3>1 DEF ChainInv
    <3>2. ASSUME NEW r \in Requests, SignCRL(r), c = NewCRL(r)
          PROVE  Comparable(c.entries, listed'[q])
      <4>1. c.ca = arg[r].ca /\ c.entries = listed[r] /\ pc[r] \in AfterList
        BY <3>2, NewCRLType DEF SignCRL, AfterList, CRLSteps
      <4> QED BY <1>0, <1>4, <2>1, <4>1 DEF ChainInv
    <3> QED BY <3>1, <3>2, PublishedStep DEF SignCRL
  <2>2. CASE /\ listed'[q] = RevokedBy(arg'[q].ca)
             /\ UNCHANGED <<caOf, revocation, published>>
    BY <1>1, <1>4, <2>2 DEF Comparable
  <2> QED BY <1>4, <2>1, <2>2, ListedStep
<1>5. ASSUME NEW r \in Requests, NEW q \in Requests,
             pc'[r] \in AfterList, pc'[q] \in AfterList, arg'[r].ca = arg'[q].ca
      PROVE  Comparable(listed'[r], listed'[q])
  <2>1. CASE /\ pc[r] \in AfterList /\ arg'[r] = arg[r] /\ listed'[r] = listed[r]
             /\ pc[q] \in AfterList /\ arg'[q] = arg[q] /\ listed'[q] = listed[q]
    BY <1>0, <1>5, <2>1 DEF ChainInv
  <2>2. CASE r = q
    BY <2>2, ExtendsReflexive DEF Comparable
  <2>3. CASE /\ r # q
             /\ listed'[q] = RevokedBy(arg'[q].ca)
             /\ pc'[r] = pc[r] /\ arg'[r] = arg[r] /\ listed'[r] = listed[r]
    BY <1>2, <1>5, <2>3 DEF Comparable
  <2>4. CASE /\ r # q
             /\ listed'[r] = RevokedBy(arg'[r].ca)
             /\ pc'[q] = pc[q] /\ arg'[q] = arg[q] /\ listed'[q] = listed[q]
    BY <1>2, <1>5, <2>4 DEF Comparable
  <2> QED BY <1>5, <2>1, <2>2, <2>3, <2>4, ListedStep
<1> QED
  BY <1>3, <1>4, <1>5 DEF ChainInv

-----------------------------------------------------------------------------
(* Answers *)

(* An answer is given once, in the step that ends the request. *)
LEMMA AnswerStep ==
    ASSUME IInv, [Next]_vars, NEW q \in Requests, pc'[q] = "done"
    PROVE  \/ /\ pc[q] = "done"
              /\ arg'[q] = arg[q] /\ now'[q] = now[q]
              /\ reply'[q] = reply[q] /\ before'[q] = before[q]
           \/ /\ reply'[q].crl = NULL
              /\ reply'[q].status \notin {"ok", "already_revoked"}
           \/ CheckCache(q) \/ SignCRL(q) \/ CheckStatus(q) \/ RereadCertificate(q)
<1>0. TypeOK
  BY DEF IInv
<1>1. CASE Environment \/ UNCHANGED vars
  BY <1>1, EnvironmentStep
<1>2. ASSUME NEW r \in Requests, Client(r) \/ RevokeStep(r) \/ CRLStep(r) \/ Fails(r), q # r
      PROVE  /\ pc[q] = "done"
             /\ arg'[q] = arg[q] /\ now'[q] = now[q]
             /\ reply'[q] = reply[q] /\ before'[q] = before[q]
  BY <1>2, OthersUnchanged
<1>3. CASE Client(q) \/ RevokeNow(q) \/ BeginTx(q) \/ CommitRevocation(q) \/ InvalidateCRL(q)
           \/ ListRevoked(q) \/ CRLNow(q) \/ Fails(q) \/ GetCertificate(q) \/ GetCA(q)
           \/ LoadKey(q)
  BY <1>0, <1>3
  DEF Client, CallRevoke, CallCRL, Return, RevokeNow, BeginTx, CommitRevocation, InvalidateCRL,
      ListRevoked, CRLNow, Fails, GetCertificate, GetCA, LoadKey, Goto, Answer, Error, TypeOK
<1> QED
  BY <1>1, <1>2, <1>3 DEF Next, RevokeStep, CRLStep

(* A request that finds the cached CRL good serves exactly the rows that   *)
(* it listed itself: the cached CRL was published, so it is comparable     *)
(* with them, and it has as many entries.                                  *)
LEMMA HitServesListed ==
    ASSUME IInv, NEW r \in Requests, pc[r] = "crl_cache", CacheHit(r)
    PROVE  /\ crlCache[arg[r].ca].der.entries = listed[r]
           /\ crlCache[arg[r].ca].der.ca = arg[r].ca
           /\ crlCache[arg[r].ca].der.nextUpdate = crlCache[arg[r].ca].nextUpdate
<1> DEFINE ca == arg[r].ca
           c  == crlCache[ca].der
<1>1. /\ ca \in DOMAIN crlCache
      /\ crlCache[ca].entryCount = Cardinality(DOMAIN listed[r])
  BY DEF CacheHit
<1>2. /\ c \in published /\ c.ca = ca
      /\ crlCache[ca].entryCount = Cardinality(DOMAIN c.entries)
      /\ crlCache[ca].nextUpdate = c.nextUpdate
  BY <1>1 DEF IInv, CacheInv
<1>3. c.entries \in Snapshots
  BY <1>2 DEF IInv, TypeOK, CRLs
<1>4. listed[r] \in Snapshots /\ Comparable(c.entries, listed[r])
  BY <1>2 DEF IInv, RequestInv, CRLInv, ChainInv, AfterList, CRLSteps
<1>5. Cardinality(DOMAIN c.entries) = Cardinality(DOMAIN listed[r])
  BY <1>1, <1>2
<1> QED BY <1>2, <1>3, <1>4, <1>5, EqualCountEqualRows

(* What is served is complete and unexpired when it is served, and stays   *)
(* true afterwards.                                                        *)
LEMMA ServedStep == IInv /\ [Next]_vars => ServedCRLIsComplete' /\ ServedCRLIsUnexpired'
<1> SUFFICES ASSUME IInv, [Next]_vars, NEW q \in Requests,
                    pc'[q] = "done", reply'[q].crl # NULL
             PROVE  /\ Extends(reply'[q].crl.entries, before'[q])
                    /\ Extends(RevokedBy(arg[q].ca)', reply'[q].crl.entries)
                    /\ reply'[q].crl.ca = arg'[q].ca
                    /\ now'[q] < reply'[q].crl.nextUpdate
  BY DEF ServedCRLIsComplete, ServedCRLIsUnexpired, Served, RevokedBy
<1>0. TypeOK
  BY DEF IInv
<1>1. \A ca : Extends(RevokedBy(ca)', RevokedBy(ca))
  BY RevokedGrows
<1>2. CASE /\ pc[q] = "done"
           /\ arg'[q] = arg[q] /\ now'[q] = now[q]
           /\ reply'[q] = reply[q] /\ before'[q] = before[q]
  <2>1. /\ Extends(reply[q].crl.entries, before[q])
        /\ Extends(RevokedBy(arg[q].ca), reply[q].crl.entries)
        /\ reply[q].crl.ca = arg[q].ca
        /\ now[q] < reply[q].crl.nextUpdate
    BY <1>2 DEF IInv, ServedCRLIsComplete, ServedCRLIsUnexpired, Served
  <2> QED BY <1>1, <1>2, <2>1, ExtendsTransitive
<1>3. CASE CheckCache(q) \/ SignCRL(q)
  <2>1. /\ arg' = arg /\ now' = now /\ before' = before
        /\ pc[q] \in AfterList
    BY <1>3 DEF CheckCache, SignCRL, AfterList, CRLSteps
  <2>2. Extends(listed[q], before[q]) /\ Extends(RevokedBy(arg[q].ca), listed[q])
    BY <2>1 DEF IInv, RequestInv, CRLInv
  <2>3. /\ reply'[q].crl.entries = listed[q]
        /\ reply'[q].crl.ca = arg[q].ca
        /\ now[q] < reply'[q].crl.nextUpdate
    <3>1. CASE CheckCache(q)
      <4>1. pc[q] = "crl_cache" /\ CacheHit(q) /\ reply'[q].crl = crlCache[arg[q].ca].der
        BY <1>0, <3>1 DEF CheckCache, Goto, Answer, TypeOK
      <4> QED BY <4>1, HitServesListed DEF CacheHit
    <3>2. CASE SignCRL(q)
      <4>1. pc[q] = "crl_sign" /\ reply'[q].crl = NewCRL(q)
        BY <1>0, <3>2 DEF SignCRL, Answer, TypeOK
      <4> QED BY <4>1, NewCRLType
    <3> QED BY <1>3, <3>1, <3>2
  <2> QED BY <1>1, <2>1, <2>2, <2>3, ExtendsTransitive
<1>4. CASE CheckStatus(q) \/ RereadCertificate(q)
  <2>1. reply'[q].crl = NULL
    BY <1>0, <1>4 DEF CheckStatus, RereadCertificate, Goto, Answer, Error, TypeOK
  <2> QED BY <2>1
<1> QED
  BY <1>2, <1>3, <1>4, AnswerStep

(* The answers to requests to revoke are, and stay, true. *)
LEMMA RevokeReplyStep == IInv /\ [Next]_vars => RevokeReplyIsTrue'
<1> SUFFICES ASSUME IInv, [Next]_vars, NEW q \in Requests,
                    pc'[q] = "done", arg'[q].op = "revoke"
             PROVE  /\ reply'[q].status = "ok" =>
                         /\ arg'[q].serial \in DOMAIN revocation'
                         /\ reply'[q].row = revocation'[arg'[q].serial]
                         /\ reply'[q].row = [revokedAt |-> now'[q], reason |-> arg'[q].reason]
                    /\ reply'[q].status = "already_revoked" =>
                         arg'[q].serial \in DOMAIN revocation'
  BY DEF RevokeReplyIsTrue
<1>0. TypeOK
  BY DEF IInv
<1>1. Extends(revocation', revocation)
  BY TableGrows
<1>2. CASE /\ pc[q] = "done"
           /\ arg'[q] = arg[q] /\ now'[q] = now[q]
           /\ reply'[q] = reply[q] /\ before'[q] = before[q]
  <2>1. /\ reply[q].status = "ok" =>
             /\ arg[q].serial \in DOMAIN revocation
             /\ reply[q].row = revocation[arg[q].serial]
             /\ reply[q].row = [revokedAt |-> now[q], reason |-> arg[q].reason]
        /\ reply[q].status = "already_revoked" => arg[q].serial \in DOMAIN revocation
    BY <1>2 DEF IInv, RevokeReplyIsTrue
  <2> QED BY <1>1, <1>2, <2>1 DEF Extends
<1>3. CASE CheckCache(q) \/ SignCRL(q)
  <2>1. arg'[q].op = "crl"
    BY <1>3 DEF CheckCache, SignCRL, IInv, RequestInv, CRLInv, CRLSteps
  <2> QED BY <2>1
<1>4. CASE CheckStatus(q)
  <2>1. /\ reply'[q].status = "already_revoked"
        /\ arg[q].serial \in DOMAIN revocation
        /\ arg' = arg
    BY <1>0, <1>4 DEF CheckStatus, Goto, Answer, Error, TypeOK
  <2> QED BY <1>1, <2>1 DEF Extends
<1>5. CASE RereadCertificate(q)
  <2>1. /\ reply'[q] = [status |-> "ok", row |-> revocation[arg[q].serial], crl |-> NULL]
        /\ UNCHANGED <<arg, now, revocation>>
        /\ pc[q] = "revoke_reread"
    BY <1>0, <1>5 DEF RereadCertificate, Answer, TypeOK, store
  <2>2. arg[q].serial \in DOMAIN revocation /\ revocation[arg[q].serial] = OwnRow(q)
    BY <2>1 DEF IInv, RequestInv, RevokeInv
  <2> QED BY <2>1, <2>2 DEF OwnRow
<1> QED
  BY <1>2, <1>3, <1>4, <1>5, AnswerStep

-----------------------------------------------------------------------------
(* Theorems *)

(* The first state of a new installation satisfies the invariant. *)
LEMMA InitIInv == Init => IInv
<1> SUFFICES ASSUME Init PROVE IInv
  OBVIOUS
<1>1. TypeOK
  <2>1. IsMap(EmptyMap, Serials, CAs) /\ IsMap(EmptyMap, CAs, CacheEntries)
        /\ IsMap(EmptyMap, Serials, RevocationInfo)
    BY DEF IsMap, EmptyMap
  <2>2. EmptyMap \in Snapshots
    BY <2>1, SnapshotIsMap
  <2>3. 0 \in Times
    BY ClockAssumption DEF Times
  <2> QED BY <2>1, <2>2, <2>3 DEF Init, TypeOK, Steps
<1>2. TableInv /\ CacheInv /\ NumberInv /\ PublishedStaysTrue /\ NoConnectionLeak
  BY DEF Init, EmptyMap, TableInv, CacheInv, NumberInv, PublishedStaysTrue, NoConnectionLeak
<1>3. \A r \in Requests : pc[r] = "idle"
  BY DEF Init
<1>4. RequestInv
  BY <1>3
  DEF RequestInv, RevokeInv, CRLInv, RevokeSteps, CRLSteps, AfterGet, AfterNow, AfterList,
      InTransaction
<1>5. ChainInv
  BY <1>3 DEF Init, ChainInv, AfterList, CRLSteps
<1>6. ServedCRLIsComplete /\ ServedCRLIsUnexpired /\ RevokeReplyIsTrue
  BY <1>3 DEF ServedCRLIsComplete, ServedCRLIsUnexpired, RevokeReplyIsTrue, Served
<1> QED BY <1>1, <1>2, <1>4, <1>5, <1>6 DEF IInv

(* IInv is an invariant of the specification: the central result, from     *)
(* which the others follow.                                                *)
THEOREM Invariance == Spec => []IInv
<1>1. Init => IInv
  BY InitIInv
<1>2. IInv /\ [Next]_vars => IInv'
  <2> SUFFICES ASSUME IInv, [Next]_vars PROVE IInv'
    OBVIOUS
  <2>1. TypeOK' /\ TableInv' /\ RequestInv'
    BY TypeStep, TableStep, RequestInvStep
  <2>2. NoConnectionLeak'
    BY ConnectionStep
  <2>3. CacheInv' /\ NumberInv' /\ PublishedStaysTrue' /\ ChainInv'
    BY CacheStep, NumberStep, PublishedTrueStep, ChainStep
  <2>4. ServedCRLIsComplete' /\ ServedCRLIsUnexpired' /\ RevokeReplyIsTrue'
    BY ServedStep, RevokeReplyStep
  <2> QED BY <2>1, <2>2, <2>3, <2>4 DEF IInv
<1> QED BY <1>1, <1>2, PTL DEF Spec

(* Every variable of the revocation service keeps its type. *)
THEOREM TypeCorrect == Spec => []TypeOK
<1>1. IInv => TypeOK
  BY DEF IInv
<1> QED BY <1>1, Invariance, PTL

(* Engine.CRL serves complete and truthful CRLs, whatever requests run     *)
(* beside it and whenever the process was restarted.                       *)
THEOREM ServedComplete == Spec => []ServedCRLIsComplete
<1>1. IInv => ServedCRLIsComplete
  BY DEF IInv
<1> QED BY <1>1, Invariance, PTL

(* Engine.CRL serves no CRL that had expired by its reading of the clock.  *)
THEOREM ServedUnexpired == Spec => []ServedCRLIsUnexpired
<1>1. IInv => ServedCRLIsUnexpired
  BY DEF IInv
<1> QED BY <1>1, Invariance, PTL

(* What was signed stays true for ever. *)
THEOREM PublishedTrue == Spec => []PublishedStaysTrue
<1>1. IInv => PublishedStaysTrue
  BY DEF IInv
<1> QED BY <1>1, Invariance, PTL

(* The CRL number identifies the entries, across restarts: published CRLs  *)
(* of a CA are comparable, and equal numbers mean equally many entries.    *)
THEOREM NumberIdentifies == Spec => []NumberIdentifiesContent
<1>1. IInv => NumberIdentifiesContent
  <2> SUFFICES ASSUME IInv, NEW c \in published, NEW d \in published,
                      c.ca = d.ca, c.number = d.number
               PROVE  c.entries = d.entries
    BY DEF NumberIdentifiesContent
  <2>1. c.entries \in Snapshots /\ d.entries \in Snapshots
    BY DEF IInv, TypeOK, CRLs
  <2>2. /\ Cardinality(DOMAIN c.entries) \in Nat /\ Cardinality(DOMAIN d.entries) \in Nat
        /\ Cardinality(DOMAIN c.entries) + 1 = Cardinality(DOMAIN d.entries) + 1
    BY <2>1, CountIsNat DEF IInv, NumberInv
  <2>3. Cardinality(DOMAIN c.entries) = Cardinality(DOMAIN d.entries)
    BY <2>2
  <2>4. Comparable(c.entries, d.entries)
    BY DEF IInv, ChainInv
  <2> QED BY <2>1, <2>3, <2>4, EqualCountEqualRows
<1> QED BY <1>1, Invariance, PTL

(* handleRevoke's answers are true. *)
THEOREM RevokeReplyTrue == Spec => []RevokeReplyIsTrue
<1>1. IInv => RevokeReplyIsTrue
  BY DEF IInv
<1> QED BY <1>1, Invariance, PTL

(* The connection of the pool is never lost. *)
THEOREM ConnectionKept == Spec => []NoConnectionLeak
<1>1. IInv => NoConnectionLeak
  BY DEF IInv
<1> QED BY <1>1, Invariance, PTL

(* A revocation is final, with its time and its reason. *)
THEOREM RevocationIsFinal == Spec => FirstRevocationWins
<1>1. IInv /\ [Next]_vars => Extends(revocation', revocation)
  BY TableGrows
<1> QED BY <1>1, Invariance, PTL DEF Spec, FirstRevocationWins

(* A winner has won before the step, or passes the status check in it.     *)
LEMMA WonStep ==
    ASSUME IInv, [Next]_vars, NEW q \in Requests, Won(q)'
    PROVE  \/ Won(q) /\ arg'[q] = arg[q]
           \/ /\ pc[q] = "revoke_check" /\ arg'[q] = arg[q]
              /\ arg[q].serial \notin DOMAIN revocation
<1> USE DEF Won
<1>0. TypeOK
  BY DEF IInv
<1>1. CASE Environment \/ UNCHANGED vars
  BY <1>1, EnvironmentStep
<1>2. ASSUME NEW r \in Requests, Client(r) \/ RevokeStep(r) \/ CRLStep(r) \/ Fails(r), q # r
      PROVE  Won(q) /\ arg'[q] = arg[q]
  BY <1>2, OthersUnchanged
<1>3. CASE Client(q) \/ Fails(q) \/ GetCertificate(q) \/ RevokeNow(q) \/ BeginTx(q)
  BY <1>0, <1>3
  DEF Client, Fails, CallRevoke, CallCRL, Return, GetCertificate, RevokeNow, BeginTx,
      Goto, Answer, Error, TypeOK
<1>4. CASE CRLStep(q)
  <2>1. arg'[q].op = "crl"
    BY <1>4
    DEF CRLStep, GetCA, ListRevoked, CRLNow, CheckCache, LoadKey, SignCRL,
        IInv, RequestInv, CRLInv, CRLSteps
  <2> QED BY <2>1
<1>5. CASE CheckStatus(q)
  BY <1>0, <1>5 DEF CheckStatus, Goto, Answer, Error, TypeOK
<1>6. CASE CommitRevocation(q) \/ InvalidateCRL(q) \/ RereadCertificate(q)
  <2>1. pc[q] \in {"revoke_commit", "revoke_invalidate", "revoke_reread"} /\ arg' = arg
    BY <1>6 DEF CommitRevocation, InvalidateCRL, RereadCertificate
  <2> QED BY <2>1
<1> QED
  BY <1>1, <1>2, <1>3, <1>4, <1>5, <1>6 DEF Next, RevokeStep

(* Concurrent requests to revoke one certificate: at most one succeeds.    *)
(* One that is past its status check either holds the only connection or   *)
(* has left its row in the table, where the next check finds it.           *)
THEOREM OneRevoker == Spec => []OneRevokerWins
<1>1. Init => OneRevokerWins
  BY DEF Init, OneRevokerWins, Won
<1>2. IInv /\ OneRevokerWins /\ [Next]_vars => OneRevokerWins'
  <2> SUFFICES ASSUME IInv, OneRevokerWins, [Next]_vars,
                      NEW r \in Requests, NEW q \in Requests,
                      Won(r)', Won(q)', arg'[r].serial = arg'[q].serial, r # q
               PROVE  FALSE
    BY DEF OneRevokerWins
  <2>1. ~(Won(r) /\ Won(q) /\ arg[r].serial = arg[q].serial)
    BY DEF OneRevokerWins
  <2>2. ASSUME NEW a \in Requests, NEW b \in Requests, a # b,
               pc[a] = "revoke_check", arg[a].serial \notin DOMAIN revocation,
               Won(b), arg[a].serial = arg[b].serial
        PROVE  FALSE
    <3>1. CASE pc[b] = "revoke_commit"
      BY <2>2, <3>1 DEF IInv, RequestInv, InTransaction
    <3>2. CASE pc[b] \in {"revoke_invalidate", "revoke_reread"}
      BY <2>2, <3>2 DEF IInv, RequestInv, RevokeInv
    <3>3. CASE pc[b] = "done"
      BY <2>2, <3>3 DEF IInv, RevokeReplyIsTrue, Won
    <3> QED BY <2>2, <3>1, <3>2, <3>3 DEF Won
  <2>3. ~(pc[r] = "revoke_check" /\ pc[q] = "revoke_check")
    BY DEF IInv, RequestInv, InTransaction
  <2> QED BY <2>1, <2>2, <2>3, WonStep
<1> QED BY <1>1, <1>2, Invariance, PTL DEF Spec

-----------------------------------------------------------------------------
(* Revocation implements AtomicRevocation: clients cannot tell the service,*)
(* with its cache and its steps of several requests in any order, from one *)
(* in which every request takes effect in one step.  First, what the       *)
(* mapping makes of a request.                                             *)

Entry(op, target, phase, seen, status) ==
    [op |-> op, target |-> target, phase |-> phase, seen |-> seen, status |-> status]

RevokeCalled == {"revoke_get", "revoke_now", "revoke_begin", "revoke_check", "revoke_commit"}

CallIs(r) ==
    /\ pc[r] = "idle" => callBar[r] = NULL
    /\ pc[r] \in RevokeCalled =>
         callBar[r] = Entry("revoke", arg[r].serial, "called", NULL, "none")
    /\ pc[r] \in {"revoke_invalidate", "revoke_reread"} =>
         callBar[r] = Entry("revoke", arg[r].serial, "effective", OwnRow(r), "none")
    /\ pc[r] \in {"crl_getca", "crl_list"} =>
         callBar[r] = Entry("crl", arg[r].ca, "called", NULL, "none")
    /\ pc[r] \in AfterList =>
         callBar[r] = Entry("crl", arg[r].ca, "effective", listed[r], "none")
    /\ pc[r] = "done" /\ arg[r].op = "revoke" =>
         callBar[r] = Entry("revoke", arg[r].serial, "answered", reply[r].row, statusBar(r))
    /\ pc[r] = "done" /\ arg[r].op = "crl" =>
         callBar[r] = Entry("crl", arg[r].ca, "answered",
                            IF reply[r].crl = NULL THEN NULL ELSE reply[r].crl.entries,
                            statusBar(r))

CallsAre ==
    /\ callBar = [r \in Requests |-> callBar[r]]
    /\ \A r \in Requests : CallIs(r)
    /\ \A r \in Requests : pc[r] # "idle" => callBar[r] # NULL

(* The phases of a request, read off its next step. *)
LEMMA CallFacts == IInv => CallsAre
<1> SUFFICES ASSUME IInv PROVE CallsAre
  OBVIOUS
<1>1. callBar = [r \in Requests |-> callBar[r]]
  BY DEF callBar
<1>2. ASSUME NEW r \in Requests PROVE CallIs(r)
  <2> USE DEF callBar, phaseBar, seenBar, statusBar, Entry
  <2>1. CASE pc[r] = "idle"
    BY <2>1 DEF CallIs, RevokeCalled, AfterList, CRLSteps
  <2>2. CASE pc[r] \in RevokeSteps
    <3>1. arg[r].op = "revoke"
      BY <2>2 DEF IInv, RequestInv, RevokeInv
    <3> QED BY <2>2, <3>1 DEF CallIs, RevokeSteps, RevokeCalled, AfterList, CRLSteps, Effective, OwnRow
  <2>3. CASE pc[r] \in CRLSteps
    <3>1. arg[r].op = "crl"
      BY <2>3 DEF IInv, RequestInv, CRLInv
    <3> QED BY <2>3, <3>1 DEF CallIs, CRLSteps, RevokeCalled, AfterList, Effective
  <2>4. CASE pc[r] = "done"
    BY <2>4 DEF CallIs, CRLSteps, RevokeCalled, AfterList, Effective
  <2>5. pc[r] \in RevokeSteps \cup CRLSteps \cup {"idle", "done"}
    BY DEF IInv, TypeOK, Steps, StoreCalls, RevokeSteps, CRLSteps
  <2> QED BY <2>1, <2>2, <2>3, <2>4, <2>5
<1>3. ASSUME NEW r \in Requests, pc[r] # "idle" PROVE callBar[r] # NULL
  <2>1. arg[r] \in Args
    BY <1>3 DEF IInv, RequestInv, RevokeInv, CRLInv, TypeOK, Steps, StoreCalls, RevokeSteps, CRLSteps
  <2>2. arg[r].op \in {"revoke", "crl"} /\ {arg[r].serial, arg[r].ca} \subseteq CAs \cup Serials \cup {NULL}
    BY <2>1 DEF Args
  <2>3. callBar[r].phase \in {"called", "effective", "answered"}
    BY <1>3 DEF callBar, phaseBar
  <2>4. statusBar(r) \in {"none", "ok", "already_revoked", "error"}
    BY DEF statusBar
  <2>5. seenBar(r) \in Snapshots \cup RevocationInfo \cup {NULL}
    <3>1. CASE pc[r] \in Effective /\ arg[r].op = "crl"
      <4>1. listed[r] \in Snapshots \cup {NULL}
        BY DEF IInv, TypeOK
      <4>2. seenBar(r) = listed[r]
        BY <3>1 DEF seenBar, Effective
      <4> QED BY <4>1, <4>2
    <3>2. CASE pc[r] \in Effective /\ arg[r].op = "revoke"
      <4>1. pc[r] \in {"revoke_invalidate", "revoke_reread"}
        BY <3>2 DEF IInv, RequestInv, CRLInv, Effective, CRLSteps
      <4>2. now[r] \in Times /\ arg[r].reason \in Reasons /\ IsReason(arg[r].reason)
        BY <4>1 DEF IInv, RequestInv, RevokeInv, AfterNow, AfterGet, RevokeSteps
      <4>3. seenBar(r) = [revokedAt |-> now[r], reason |-> arg[r].reason]
        BY <3>2 DEF seenBar, Effective
      <4> QED BY <4>2, <4>3 DEF RevocationInfo
    <3>3. CASE pc[r] = "done"
      <4>1. reply[r] \in Replies
        BY <3>3 DEF IInv, RequestInv
      <4>2. reply[r].row \in RevocationInfo \cup {NULL} /\ reply[r].crl \in CRLs \cup {NULL}
        BY <4>1 DEF Replies
      <4>3. reply[r].crl # NULL => reply[r].crl.entries \in Snapshots
        BY <4>2 DEF CRLs
      <4> QED BY <2>2, <3>3, <4>2, <4>3 DEF seenBar, Effective
    <3>4. CASE pc[r] \notin Effective \cup {"done"}
      BY <3>4 DEF seenBar
    <3> QED BY <2>2, <3>1, <3>2, <3>3, <3>4
  <2>6. callBar[r] \in Calls
    BY <1>3, <2>2, <2>3, <2>4, <2>5 DEF callBar, Calls, phaseBar
  <2> QED BY <2>6, CallAssumption
<1> QED BY <1>1, <1>2, <1>3 DEF CallsAre

-----------------------------------------------------------------------------
(* Steps *)

(* A step of one request changes what the mapping makes of this one only.  *)
LEMMA OneCall ==
    ASSUME IInv, NEW r \in Requests, Client(r) \/ RevokeStep(r) \/ CRLStep(r) \/ Fails(r)
    PROVE  callBar' = [callBar EXCEPT ![r] = callBar'[r]]
<1>1. \A q \in Requests \ {r} : callBar'[q] = callBar[q]
  BY OthersUnchanged DEF callBar, phaseBar, seenBar, statusBar
<1>2. callBar' = [q \in Requests |-> callBar'[q]]
  BY DEF callBar
<1>3. callBar = [q \in Requests |-> callBar[q]]
  BY DEF callBar
<1> QED BY <1>1, <1>2, <1>3

(* Nothing happens to the tables and the requests: a stuttering step.      *)
LEMMA Stutters ==
    ASSUME UNCHANGED <<caOf, revocation>>, NEW r \in Requests,
           callBar' = [callBar EXCEPT ![r] = callBar'[r]], callBar'[r] = callBar[r]
    PROVE  UNCHANGED Atomic!vars
<1>1. callBar = [q \in Requests |-> callBar[q]]
  BY DEF callBar
<1>2. callBar' = callBar
  BY <1>1
<1> QED BY <1>2 DEF Atomic!vars

(* A request goes to another phase. *)
LEMMA Moves ==
    ASSUME NEW r \in Requests, NEW op, NEW target, NEW phase, NEW seen, NEW status,
           NEW phase0, NEW seen0, NEW status0,
           callBar[r] = Entry(op, target, phase0, seen0, status0),
           callBar' = [callBar EXCEPT ![r] = Entry(op, target, phase, seen, status)]
    PROVE  Atomic!To(r, phase, seen, status)
<1> DEFINE f1 == [callBar EXCEPT ![r].phase = phase]
           f2 == [f1 EXCEPT ![r].seen = seen]
           f3 == [f2 EXCEPT ![r].status = status]
<1>1. callBar = [q \in Requests |-> callBar[q]]
  BY DEF callBar
<1>2. f1 = [callBar EXCEPT ![r] = Entry(op, target, phase, seen0, status0)]
  <2>1. [callBar[r] EXCEPT !.phase = phase] = Entry(op, target, phase, seen0, status0)
    BY DEF Entry
  <2> QED BY <1>1, <2>1
<1>3. f2 = [callBar EXCEPT ![r] = Entry(op, target, phase, seen, status0)]
  <2>1. f1[r] = Entry(op, target, phase, seen0, status0)
    BY <1>1, <1>2
  <2> HIDE DEF f1
  <2>2. [f1[r] EXCEPT !.seen = seen] = Entry(op, target, phase, seen, status0)
    BY <2>1 DEF Entry
  <2> QED BY <1>1, <1>2, <2>2
<1>4. f3 = [callBar EXCEPT ![r] = Entry(op, target, phase, seen, status)]
  <2>1. f2[r] = Entry(op, target, phase, seen, status0)
    BY <1>1, <1>3
  <2> HIDE DEF f2
  <2>2. [f2[r] EXCEPT !.status = status] = Entry(op, target, phase, seen, status)
    BY <2>1 DEF Entry
  <2> QED BY <1>1, <1>3, <2>2
<1>5. f3 = [callBar EXCEPT ![r].phase = phase, ![r].seen = seen, ![r].status = status]
  OBVIOUS
<1> QED BY <1>4, <1>5 DEF Atomic!To

(* It arrives, and is taken or rejected. *)
LEMMA Arrives ==
    ASSUME IInv, IInv', NEW r \in Requests, Client(r), pc[r] = "idle"
    PROVE  \/ \E ca \in CAs : Atomic!Call(r, "crl", ca)
           \/ \E s \in Serials : Atomic!Call(r, "revoke", s) \/ Atomic!Reject(r, "revoke", s)
<1>0. TypeOK /\ CallIs(r)
  BY CallFacts DEF IInv, CallsAre
<1>1. callBar[r] = NULL /\ callBar' = [callBar EXCEPT ![r] = callBar'[r]]
  BY <1>0, OneCall DEF CallIs
<1> USE DEF Goto, store
<1>2. ASSUME NEW s \in Serials, NEW reason \in Reasons, CallRevoke(r, s, reason)
      PROVE  Atomic!Call(r, "revoke", s) \/ Atomic!Reject(r, "revoke", s)
  <2>1. arg'[r].op = "revoke" /\ arg'[r].serial = s /\ UNCHANGED <<caOf, revocation>>
    BY <1>0, <1>2 DEF TypeOK, CallRevoke
  <2>2. CASE IsReason(reason)
    <3>1. pc'[r] = "revoke_get"
      BY <1>0, <1>2, <2>2 DEF TypeOK, CallRevoke
    <3>2. callBar'[r] = Entry("revoke", s, "called", NULL, "none")
      BY <2>1, <3>1 DEF callBar, phaseBar, seenBar, statusBar, Effective, Entry
    <3> QED BY <1>1, <2>1, <3>2 DEF Atomic!Call, Entry
  <2>3. CASE ~IsReason(reason)
    <3>1. pc'[r] = "done" /\ reply'[r] = Error("constraint")
      BY <1>0, <1>2, <2>3 DEF TypeOK, CallRevoke, Answer
    <3>2. reply'[r].row = NULL /\ reply'[r].status = "constraint"
      BY <3>1 DEF Error
    <3>3. callBar'[r] = Entry("revoke", s, "answered", NULL, "error")
      BY <2>1, <3>1, <3>2 DEF callBar, phaseBar, seenBar, statusBar, Effective, Entry
    <3> QED BY <1>1, <2>1, <3>3 DEF Atomic!Reject, Entry
  <2> QED BY <2>2, <2>3
<1>3. ASSUME NEW ca \in CAs, NEW pass \in BOOLEAN, CallCRL(r, ca, pass)
      PROVE  Atomic!Call(r, "crl", ca)
  <2>1. /\ arg'[r].op = "crl" /\ arg'[r].ca = ca /\ pc'[r] = "crl_getca"
        /\ UNCHANGED <<caOf, revocation>>
    BY <1>0, <1>3 DEF TypeOK, CallCRL
  <2>2. callBar'[r] = Entry("crl", ca, "called", NULL, "none")
    BY <2>1 DEF callBar, phaseBar, seenBar, statusBar, Effective, Entry
  <2> QED BY <1>1, <2>1, <2>2 DEF Atomic!Call, Entry
<1>4. ~Return(r)
  BY DEF Return
<1> QED BY <1>2, <1>3, <1>4 DEF Client

(* It leaves. *)
LEMMA Leaves ==
    ASSUME IInv, NEW r \in Requests, Return(r)
    PROVE  Atomic!Return(r)
<1>0. TypeOK /\ CallIs(r) /\ callBar[r] # NULL /\ pc[r] = "done"
  BY CallFacts DEF IInv, CallsAre, Return
<1>1. callBar' = [callBar EXCEPT ![r] = callBar'[r]]
  BY OneCall DEF Client
<1>2. callBar'[r] = NULL
  BY <1>0 DEF TypeOK, Return, Goto, callBar
<1>3. callBar[r].phase = "answered"
  BY <1>0 DEF callBar, phaseBar, Effective
<1>4. UNCHANGED <<caOf, revocation>>
  BY DEF Return, store
<1> QED BY <1>0, <1>1, <1>2, <1>3, <1>4 DEF Atomic!Return, Atomic!In

(* It is answered with an error: it had not been answered before.          *)
LEMMA IsRefusedWith ==
    ASSUME IInv, NEW r \in Requests, RevokeStep(r) \/ CRLStep(r) \/ Fails(r),
           UNCHANGED <<caOf, revocation>>, arg'[r] = arg[r],
           pc[r] \notin {"idle", "done"}, pc'[r] = "done",
           NEW status, reply'[r] = Error(status), status \notin {"ok", "already_revoked"}
    PROVE  Atomic!Fail(r)
<1>1. callBar[r] # NULL /\ callBar' = [callBar EXCEPT ![r] = callBar'[r]]
  BY CallFacts, OneCall DEF CallsAre
<1>2. arg[r].op \in {"revoke", "crl"}
  BY DEF IInv, RequestInv, RevokeInv, CRLInv, TypeOK, Steps, StoreCalls, RevokeSteps, CRLSteps
<1> DEFINE target == IF arg[r].op = "crl" THEN arg[r].ca ELSE arg[r].serial
<1>3. callBar[r] = Entry(arg[r].op, target, phaseBar(r), seenBar(r), statusBar(r))
  BY DEF callBar, Entry
<1>4. phaseBar(r) \in {"called", "effective"}
  BY DEF phaseBar
<1>5. reply'[r].row = NULL /\ reply'[r].crl = NULL /\ reply'[r].status = status
  BY DEF Error
<1>6. callBar'[r] = Entry(arg[r].op, target, "answered", NULL, "error")
  BY <1>2, <1>5 DEF callBar, phaseBar, seenBar, statusBar, Effective, Entry
<1>7. Atomic!To(r, "answered", NULL, "error")
  BY <1>1, <1>3, <1>6, Moves
<1>8. callBar[r].phase \in {"called", "effective"}
  BY <1>3, <1>4 DEF Entry
<1> QED BY <1>1, <1>7, <1>8 DEF Atomic!Fail, Atomic!In

(* It goes on to a step of the same phase, with the same arguments.        *)
LEMMA GoesOn ==
    ASSUME IInv, IInv', NEW r \in Requests, RevokeStep(r) \/ CRLStep(r) \/ Fails(r),
           UNCHANGED <<caOf, revocation>>, arg'[r].serial = arg[r].serial,
           \/ pc[r] \in RevokeCalled /\ pc'[r] \in RevokeCalled
           \/ /\ pc[r] \in {"revoke_invalidate", "revoke_reread"}
              /\ pc'[r] \in {"revoke_invalidate", "revoke_reread"}
              /\ now'[r] = now[r] /\ arg'[r] = arg[r]
           \/ /\ pc[r] \in {"crl_getca", "crl_list"} /\ pc'[r] \in {"crl_getca", "crl_list"}
              /\ arg'[r] = arg[r]
           \/ /\ pc[r] \in AfterList /\ pc'[r] \in AfterList
              /\ arg'[r] = arg[r] /\ listed'[r] = listed[r]
    PROVE  UNCHANGED Atomic!vars
<1>1. CallIs(r) /\ callBar' = [callBar EXCEPT ![r] = callBar'[r]]
  BY CallFacts, OneCall DEF CallsAre
<1>2. CallIs(r)'
  <2>1. CallsAre'
    BY CallFacts, PTL
  <2> QED BY <2>1 DEF CallsAre
<1>3. callBar'[r] = callBar[r]
  BY <1>1, <1>2 DEF CallIs, OwnRow
<1> QED BY <1>1, <1>3, Stutters

(* Requests to revoke take effect when their transaction commits. *)
LEMMA RevokeRefines ==
    ASSUME IInv, IInv', NEW r \in Requests, RevokeStep(r)
    PROVE  \/ UNCHANGED Atomic!vars
           \/ \E info \in RevocationInfo : Atomic!Revoke(r, info)
           \/ Atomic!Refuse(r) \/ Atomic!Answer(r) \/ Atomic!Fail(r)
<1>0. TypeOK /\ CallIs(r) /\ callBar' = [callBar EXCEPT ![r] = callBar'[r]]
  BY CallFacts, OneCall DEF CallsAre, IInv
<1>1. CallIs(r)'
  <2>1. CallsAre'
    BY CallFacts, PTL
  <2> QED BY <2>1 DEF CallsAre
<1>2. pc[r] \in RevokeSteps /\ callBar[r] # NULL
  BY CallFacts
  DEF CallsAre, RevokeStep, RevokeSteps, GetCertificate, RevokeNow, BeginTx, CheckStatus,
      CommitRevocation, InvalidateCRL, RereadCertificate
<1>3. /\ arg[r] \in Args /\ arg[r].op = "revoke" /\ arg[r].serial \in Serials
      /\ arg[r].reason \in Reasons /\ IsReason(arg[r].reason)
  BY <1>2 DEF IInv, RequestInv, RevokeInv
<1> USE DEF Goto, store
<1>4. CASE GetCertificate(r)
  <2>1. CASE arg[r].serial \in DOMAIN caOf
    <3>1. arg'[r].serial = arg[r].serial
      BY <1>0, <1>3, <1>4, <2>1 DEF GetCertificate, TypeOK, Args
    <3> QED BY <1>0, <1>4, <2>1, <3>1, GoesOn DEF GetCertificate, TypeOK, RevokeCalled
  <2>2. CASE arg[r].serial \notin DOMAIN caOf
    BY <1>0, <1>4, <2>2, IsRefusedWith DEF GetCertificate, Answer, TypeOK
  <2> QED BY <2>1, <2>2
<1>5. CASE RevokeNow(r) \/ BeginTx(r)
  BY <1>0, <1>5, GoesOn DEF RevokeNow, BeginTx, TypeOK, RevokeCalled
<1>6. CASE CheckStatus(r)
  <2>1. CASE arg[r].serial \in DOMAIN revocation
    <3>1. /\ pc[r] = "revoke_check" /\ pc'[r] = "done" /\ UNCHANGED <<arg, caOf, revocation>>
          /\ reply'[r] = Error("already_revoked")
      BY <1>0, <1>6, <2>1 DEF CheckStatus, Answer, TypeOK
    <3>2. reply'[r].row = NULL /\ statusBar(r)' = "already_revoked"
      BY <3>1 DEF Error, statusBar
    <3>3. callBar[r] = Entry("revoke", arg[r].serial, "called", NULL, "none")
      BY <1>0, <3>1 DEF CallIs, RevokeCalled
    <3>4. callBar'[r] = Entry("revoke", arg[r].serial, "answered", NULL, "already_revoked")
      BY <1>1, <1>3, <3>1, <3>2 DEF CallIs
    <3>5. Atomic!To(r, "answered", NULL, "already_revoked")
      BY <1>0, <3>3, <3>4, Moves
    <3> QED BY <1>2, <2>1, <3>1, <3>3, <3>5 DEF Atomic!Refuse, Atomic!In, Entry
  <2>2. CASE arg[r].serial \notin DOMAIN revocation
    BY <1>0, <1>6, <2>2, GoesOn DEF CheckStatus, TypeOK, RevokeCalled
  <2> QED BY <2>1, <2>2
<1>7. CASE CommitRevocation(r)
  <2>1. /\ pc[r] = "revoke_commit" /\ pc'[r] = "revoke_invalidate"
        /\ UNCHANGED <<arg, now, caOf>>
        /\ revocation' = Put(revocation, arg[r].serial, OwnRow(r))
    BY <1>0, <1>7 DEF CommitRevocation, TypeOK, OwnRow
  <2>2. arg[r].serial \in DOMAIN caOf \ DOMAIN revocation /\ now[r] \in Times
    BY <2>1 DEF IInv, RequestInv, RevokeInv, AfterGet, AfterNow, RevokeSteps
  <2>3. OwnRow(r) \in RevocationInfo
    BY <1>3, <2>2 DEF OwnRow, RevocationInfo
  <2>4. callBar[r] = Entry("revoke", arg[r].serial, "called", NULL, "none")
    BY <1>0, <2>1 DEF CallIs, RevokeCalled
  <2>5. callBar'[r] = Entry("revoke", arg[r].serial, "effective", OwnRow(r), "none")
    BY <1>1, <2>1 DEF CallIs, OwnRow
  <2>6. Atomic!To(r, "effective", OwnRow(r), "none")
    BY <1>0, <2>4, <2>5, Moves
  <2>7. Atomic!Revoke(r, OwnRow(r))
    BY <1>2, <2>1, <2>2, <2>4, <2>6 DEF Atomic!Revoke, Atomic!In, Entry, Put, Atomic!Put
  <2> QED BY <2>3, <2>7
<1>8. CASE InvalidateCRL(r)
  BY <1>0, <1>8, GoesOn DEF InvalidateCRL, TypeOK
<1>9. CASE RereadCertificate(r)
  <2>1. /\ pc[r] = "revoke_reread" /\ pc'[r] = "done" /\ UNCHANGED <<arg, caOf, revocation>>
        /\ reply'[r] = [status |-> "ok", row |-> revocation[arg[r].serial], crl |-> NULL]
    BY <1>0, <1>9 DEF RereadCertificate, Answer, TypeOK
  <2>2. revocation[arg[r].serial] = OwnRow(r)
    BY <2>1 DEF IInv, RequestInv, RevokeInv
  <2>3. reply'[r].row = OwnRow(r) /\ statusBar(r)' = "ok"
    BY <2>1, <2>2 DEF statusBar
  <2>4. callBar[r] = Entry("revoke", arg[r].serial, "effective", OwnRow(r), "none")
    BY <1>0, <2>1 DEF CallIs
  <2>5. callBar'[r] = Entry("revoke", arg[r].serial, "answered", OwnRow(r), "ok")
    BY <1>1, <1>3, <2>1, <2>3 DEF CallIs
  <2>6. Atomic!To(r, "answered", OwnRow(r), "ok")
    BY <1>0, <2>4, <2>5, Moves
  <2> QED BY <1>2, <2>1, <2>4, <2>6 DEF Atomic!Answer, Atomic!In, Entry
<1> QED BY <1>4, <1>5, <1>6, <1>7, <1>8, <1>9 DEF RevokeStep

(* Requests for a CRL take effect when they list the revoked rows: what    *)
(* they are answered with, cached or new, is what they listed.             *)
LEMMA CRLRefines ==
    ASSUME IInv, IInv', NEW r \in Requests, CRLStep(r)
    PROVE  UNCHANGED Atomic!vars \/ Atomic!Read(r) \/ Atomic!Answer(r) \/ Atomic!Fail(r)
<1>0. TypeOK /\ CallIs(r) /\ callBar' = [callBar EXCEPT ![r] = callBar'[r]]
  BY CallFacts, OneCall DEF CallsAre, IInv
<1>1. CallIs(r)'
  <2>1. CallsAre'
    BY CallFacts, PTL
  <2> QED BY <2>1 DEF CallsAre
<1>2. pc[r] \in CRLSteps /\ callBar[r] # NULL
  BY CallFacts
  DEF CallsAre, CRLStep, CRLSteps, GetCA, ListRevoked, CRLNow, CheckCache, LoadKey, SignCRL
<1>3. arg[r].op = "crl" /\ UNCHANGED <<arg, caOf, revocation>>
  BY <1>2
  DEF IInv, RequestInv, CRLInv, CRLStep, GetCA, ListRevoked, CRLNow, CheckCache, LoadKey,
      SignCRL, store
<1> USE DEF Goto, AfterList, CRLSteps
<1>4. CASE GetCA(r)
  <2>1. CASE arg[r].ca \in cas
    BY <1>0, <1>3, <1>4, <2>1, GoesOn DEF GetCA, TypeOK
  <2>2. CASE arg[r].ca \notin cas
    BY <1>0, <1>3, <1>4, <2>2, IsRefusedWith DEF GetCA, Answer, TypeOK
  <2> QED BY <2>1, <2>2
<1>5. CASE ListRevoked(r)
  <2>1. pc[r] = "crl_list" /\ pc'[r] = "crl_now" /\ listed'[r] = RevokedBy(arg[r].ca)
    BY <1>0, <1>5 DEF ListRevoked, TypeOK
  <2>2. callBar[r] = Entry("crl", arg[r].ca, "called", NULL, "none")
    BY <1>0, <2>1 DEF CallIs
  <2>3. callBar'[r] = Entry("crl", arg[r].ca, "effective", RevokedBy(arg[r].ca), "none")
    BY <1>1, <1>3, <2>1 DEF CallIs
  <2>4. Atomic!To(r, "effective", RevokedBy(arg[r].ca), "none")
    BY <1>0, <2>2, <2>3, Moves
  <2>5. Atomic!Revoked(callBar[r].target) = RevokedBy(arg[r].ca)
    BY <2>2 DEF Atomic!Revoked, RevokedBy, Entry
  <2> QED BY <1>2, <1>3, <2>2, <2>4, <2>5 DEF Atomic!Read, Atomic!In, Entry
<1>6. CASE CRLNow(r)
  BY <1>0, <1>3, <1>6, GoesOn DEF CRLNow, TypeOK
<1>7. ASSUME NEW c \in CRLs, c.entries = listed[r], pc[r] \in AfterList,
             pc'[r] = "done", reply'[r] = [status |-> "ok", row |-> NULL, crl |-> c]
      PROVE  Atomic!Answer(r)
  <2>1. c # NULL
    BY NullAssumption
  <2>2. reply'[r].crl = c /\ statusBar(r)' = "ok"
    BY <1>7 DEF statusBar
  <2>3. callBar[r] = Entry("crl", arg[r].ca, "effective", listed[r], "none")
    BY <1>0, <1>7 DEF CallIs
  <2>4. callBar'[r] = Entry("crl", arg[r].ca, "answered", listed[r], "ok")
    BY <1>1, <1>3, <1>7, <2>1, <2>2 DEF CallIs
  <2>5. Atomic!To(r, "answered", listed[r], "ok")
    BY <1>0, <2>3, <2>4, Moves
  <2> QED BY <1>2, <1>3, <2>3, <2>5 DEF Atomic!Answer, Atomic!In, Entry
<1>8. CASE CheckCache(r)
  <2>1. CASE CacheHit(r)
    <3> DEFINE c == crlCache[arg[r].ca].der
    <3>1. c \in CRLs
      BY <2>1 DEF CacheHit, IInv, CacheInv, TypeOK
    <3>2. c.entries = listed[r]
      BY <1>8, <2>1, HitServesListed DEF CheckCache
    <3>3. /\ pc[r] \in AfterList /\ pc'[r] = "done"
          /\ reply'[r] = [status |-> "ok", row |-> NULL, crl |-> c]
      BY <1>0, <1>8, <2>1 DEF CheckCache, Answer, TypeOK
    <3> HIDE DEF c
    <3> QED BY <1>7, <3>1, <3>2, <3>3
  <2>2. CASE ~CacheHit(r)
    BY <1>0, <1>3, <1>8, <2>2, GoesOn DEF CheckCache, TypeOK
  <2> QED BY <2>1, <2>2
<1>9. CASE LoadKey(r)
  <2>1. CASE arg[r].pass
    BY <1>0, <1>3, <1>9, <2>1, GoesOn DEF LoadKey, TypeOK
  <2>2. CASE ~arg[r].pass
    BY <1>0, <1>3, <1>9, <2>2, IsRefusedWith DEF LoadKey, Answer, TypeOK
  <2> QED BY <2>1, <2>2
<1>10. CASE SignCRL(r)
  <2>1. pc[r] = "crl_sign" /\ NewCRL(r) \in CRLs /\ NewCRL(r).entries = listed[r]
    BY <1>10, NewCRLType DEF SignCRL
  <2>2. /\ pc'[r] = "done"
        /\ reply'[r] = [status |-> "ok", row |-> NULL, crl |-> NewCRL(r)]
    BY <1>0, <1>10 DEF SignCRL, Answer, TypeOK
  <2> QED BY <1>7, <2>1, <2>2
<1> QED BY <1>4, <1>5, <1>6, <1>8, <1>9, <1>10 DEF CRLStep

(* What happens outside of the requests. *)
LEMMA EnvironmentRefines ==
    ASSUME IInv, Environment \/ UNCHANGED vars
    PROVE  \/ UNCHANGED Atomic!vars
           \/ \E s \in Serials, ca \in CAs : Atomic!Issue(s, ca)
           \/ Atomic!Restart
<1>1. ASSUME UNCHANGED <<pc, arg, now, listed, reply>> PROVE UNCHANGED callBar
  BY <1>1 DEF callBar, phaseBar, seenBar, statusBar
<1>2. CASE SetClock \/ UNCHANGED vars \/ \E ca \in CAs : CreateCA(ca)
  BY <1>1, <1>2 DEF SetClock, CreateCA, vars, store, process, Atomic!vars
<1>3. ASSUME NEW s \in Serials, NEW ca \in CAs, InsertCertificate(s, ca)
      PROVE  Atomic!Issue(s, ca)
  BY <1>1, <1>3 DEF InsertCertificate, process, Atomic!Issue, Put, Atomic!Put
<1>4. CASE Restart
  <2>1. callBar' = [r \in Requests |-> NULL]
    BY <1>4 DEF Restart, callBar
  <2> QED BY <1>4, <2>1 DEF Restart, store, Atomic!Restart
<1> QED BY <1>2, <1>3, <1>4 DEF Environment

LEMMA FailsRefines ==
    ASSUME IInv, NEW r \in Requests, Fails(r)
    PROVE  Atomic!Fail(r)
<1>1. /\ pc[r] \notin {"idle", "done"} /\ pc'[r] = "done"
      /\ UNCHANGED <<arg, caOf, revocation>> /\ reply'[r] = Error("internal")
  BY DEF IInv, TypeOK, Fails, Answer, Goto, StoreCalls, store
<1> QED BY <1>1, IsRefusedWith

-----------------------------------------------------------------------------
(* The refinement *)

LEMMA InitRefines == Init => Atomic!Init
<1> SUFFICES ASSUME Init PROVE Atomic!Init
  OBVIOUS
<1>1. callBar = [r \in Requests |-> NULL]
  BY DEF Init, callBar
<1> QED BY <1>1 DEF Init, Atomic!Init, EmptyMap, Atomic!EmptyMap

LEMMA NextRefines == IInv /\ IInv' /\ [Next]_vars => [Atomic!Next]_(Atomic!vars)
<1> SUFFICES ASSUME IInv, IInv', [Next]_vars PROVE Atomic!Next \/ UNCHANGED Atomic!vars
  OBVIOUS
<1>1. CASE Environment \/ UNCHANGED vars
  BY <1>1, EnvironmentRefines DEF Atomic!Next
<1>2. ASSUME NEW r \in Requests, Client(r) PROVE Atomic!Next
  <2>1. CASE Return(r)
    BY <2>1, Leaves DEF Atomic!Next
  <2>2. CASE pc[r] = "idle"
    BY <1>2, <2>2, Arrives DEF Atomic!Next
  <2> QED BY <1>2, <2>1, <2>2 DEF Client, CallRevoke, CallCRL
<1>3. ASSUME NEW r \in Requests, RevokeStep(r) PROVE Atomic!Next \/ UNCHANGED Atomic!vars
  BY <1>3, RevokeRefines DEF Atomic!Next
<1>4. ASSUME NEW r \in Requests, CRLStep(r) PROVE Atomic!Next \/ UNCHANGED Atomic!vars
  BY <1>4, CRLRefines DEF Atomic!Next
<1>5. ASSUME NEW r \in Requests, Fails(r) PROVE Atomic!Next
  BY <1>5, FailsRefines DEF Atomic!Next
<1> QED BY <1>1, <1>2, <1>3, <1>4, <1>5 DEF Next

(* Every behaviour of the revocation service, whatever its requests do at  *)
(* the same time, with its cache, its one connection, failures and         *)
(* crashes, is one in which each request takes effect in a single step     *)
(* between its arrival and its answer.                                     *)
THEOREM Refinement == Spec => ImplementsAtomic
  BY InitRefines, NextRefines, Invariance, PTL DEF Spec, ImplementsAtomic, Atomic!Spec

=============================================================================
