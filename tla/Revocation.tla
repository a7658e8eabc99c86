----------------------------- MODULE Revocation -----------------------------
(***************************************************************************)
(* Revocation and CRL publication: Engine.Revoke, Engine.CRL and           *)
(* invalidateCRL (internal/ca), the certificates table and the single      *)
(* database connection they run over (internal/store), and the two HTTP    *)
(* handlers that call them (internal/api).                                 *)
(*                                                                         *)
(* Every HTTP request runs in a goroutine of its own.  The goroutines      *)
(* share the database, through one pooled connection, and Engine.crlCache, *)
(* under Engine.mu.  A step below is one access to shared state: one SQL   *)
(* statement, one critical section, or one reading of the wall clock.      *)
(***************************************************************************)
EXTENDS Integers, FiniteSets, Maps

CONSTANTS
    CAs,          \* identifiers of certificate authorities
    Serials,      \* certificate serial numbers
    Requests,     \* goroutines serving HTTP requests
    Reasons,      \* reason codes that clients send
    CRLValidity,  \* Options.CRLValidity, in clock units
    MaxClock,     \* bound: the wall clock shows a time of 0..MaxClock
    NULL          \* nil, a free connection, an absent value

VARIABLES
    (* persistent: the SQLite database *)
    cas,         \* ids of the rows of table cas
    caOf,        \* certificates.ca_id; its domain is the serials of the table
    revocation,  \* revoked_at and revocation_reason of the rows with status
                 \* 'revoked'; its domain is the serials of those rows
    (* volatile: the process *)
    conn,        \* the request whose transaction holds the only connection
    crlCache,    \* Engine.crlCache, a map from CA ids to cached CRLs
    clock,       \* what e.now(), truncated to seconds, returns
    pc,          \* the next step of each request
    arg,         \* the arguments of each request
    now,         \* the local variable now (CRL) or argument at (Revoke)
    listed,      \* the local variable revoked of Engine.CRL
    reply,       \* the response of each request
    (* observations, which no step reads *)
    before,      \* what was revoked when the request arrived
    published    \* every CRL that was ever signed

store   == <<cas, caOf, revocation>>
process == <<conn, crlCache, pc, arg, now, listed, reply>>
vars    == <<store, process, clock, before, published>>

-----------------------------------------------------------------------------
(* Values *)

Times == 0 .. MaxClock

(* Revoke rejects codes that RFC 5280 does not define. *)
IsReason(reason) == reason >= 0 /\ reason <= 10 /\ reason # 7

RevocationInfo == [revokedAt : Times, reason : {x \in Reasons : IsReason(x)}]

(* What is revoked, with time and reason: a part of the table. *)
Snapshots == UNION {[S -> RevocationInfo] : S \in SUBSET Serials}

(* The contents of a CRL, as the rows that ListRevoked returned. *)
CRLs == [ca : CAs, number : Nat, entries : Snapshots,
         thisUpdate : Times, nextUpdate : Nat]

CacheEntries == [der : CRLs, entryCount : Nat, nextUpdate : Nat]

Args == [op : {"revoke", "crl"}, ca : CAs \cup {NULL}, serial : Serials \cup {NULL},
         reason : Reasons \cup {NULL}, pass : BOOLEAN]

Statuses == {"ok", "constraint", "not_found", "already_revoked",
             "wrong_passphrase", "internal"}

Replies == [status : Statuses, row : RevocationInfo \cup {NULL}, crl : CRLs \cup {NULL}]

Error(status) == [status |-> status, row |-> NULL, crl |-> NULL]

(* Steps that send a statement to the database. *)
StoreCalls == {"revoke_get", "revoke_begin", "revoke_check", "revoke_commit",
               "revoke_reread", "crl_getca", "crl_list"}

Steps == {"idle", "done", "revoke_now", "revoke_invalidate",
          "crl_now", "crl_cache", "crl_load", "crl_sign"} \cup StoreCalls

(* Between BeginTx and Commit or Rollback the connection is taken. *)
InTransaction == {"revoke_check", "revoke_commit"}

ASSUME SerialsAssumption == IsFiniteSet(Serials)
ASSUME ClockAssumption == MaxClock \in Nat /\ CRLValidity \in Nat \ {0}
ASSUME NullAssumption == NULL \notin Requests \cup CRLs
ASSUME ReasonsAssumption == Reasons \subseteq Int

-----------------------------------------------------------------------------
(* SELECT ... WHERE ca_id = ca AND status = 'revoked' *)
RevokedBy(ca) ==
    [s \in {t \in DOMAIN revocation : caOf[t] = ca} |-> revocation[s]]

Init ==
    /\ cas = {}
    /\ caOf = EmptyMap
    /\ revocation = EmptyMap
    /\ conn = NULL
    /\ crlCache = EmptyMap
    /\ clock = 0
    /\ pc = [r \in Requests |-> "idle"]
    /\ arg = [r \in Requests |-> NULL]
    /\ now = [r \in Requests |-> NULL]
    /\ listed = [r \in Requests |-> NULL]
    /\ reply = [r \in Requests |-> NULL]
    /\ before = [r \in Requests |-> NULL]
    /\ published = {}

Goto(r, step) == pc' = [pc EXCEPT ![r] = step]

Answer(r, response) ==
    /\ Goto(r, "done")
    /\ reply' = [reply EXCEPT ![r] = response]

-----------------------------------------------------------------------------
(* The rest of the service, as far as it changes the tables read here.     *)

CreateCA(ca) ==
    /\ conn = NULL
    /\ ca \notin cas
    /\ cas' = cas \cup {ca}
    /\ UNCHANGED <<caOf, revocation, process, clock, before, published>>

InsertCertificate(s, ca) ==
    /\ conn = NULL
    /\ ca \in cas               \* REFERENCES cas(id), foreign_keys(1)
    /\ s \notin DOMAIN caOf     \* PRIMARY KEY
    /\ caOf' = Put(caOf, s, ca)
    /\ UNCHANGED <<cas, revocation, process, clock, before, published>>

(* The wall clock, which may also be set back. *)
SetClock ==
    /\ clock' \in Times \ {clock}
    /\ UNCHANGED <<store, process, before, published>>

-----------------------------------------------------------------------------
(* POST /v1/certificates/{serial}/revoke: handleRevoke, Engine.Revoke *)

(* Variant: the reason code is not checked. *)
CallRevokeUnchecked(r, s, reason) ==
    /\ pc[r] = "idle"
    /\ arg' = [arg EXCEPT ![r] = [op |-> "revoke", ca |-> NULL, serial |-> s,
                                  reason |-> reason, pass |-> FALSE]]
    /\ Goto(r, "revoke_get")
    /\ UNCHANGED <<store, conn, crlCache, now, listed, reply, clock, before, published>>

CallRevoke(r, s, reason) ==
    /\ pc[r] = "idle"
    /\ arg' = [arg EXCEPT ![r] = [op |-> "revoke", ca |-> NULL, serial |-> s,
                                  reason |-> reason, pass |-> FALSE]]
    /\ IF IsReason(reason) THEN Goto(r, "revoke_get") /\ UNCHANGED reply
                           ELSE Answer(r, Error("constraint"))
    /\ UNCHANGED <<store, conn, crlCache, now, listed, clock, before, published>>

GetCertificate(r) ==
    /\ pc[r] = "revoke_get"
    /\ conn = NULL
    /\ IF arg[r].serial \in DOMAIN caOf
         THEN /\ arg' = [arg EXCEPT ![r].ca = caOf[arg[r].serial]]
              /\ Goto(r, "revoke_now")
              /\ UNCHANGED reply
         ELSE Answer(r, Error("not_found")) /\ UNCHANGED arg
    /\ UNCHANGED <<store, conn, crlCache, now, listed, clock, before, published>>

(* e.now() is an argument of the call, so it is read before the transaction. *)
RevokeNow(r) ==
    /\ pc[r] = "revoke_now"
    /\ now' = [now EXCEPT ![r] = clock]
    /\ Goto(r, "revoke_begin")
    /\ UNCHANGED <<store, conn, crlCache, arg, listed, reply, clock, before, published>>

BeginTx(r) ==
    /\ pc[r] = "revoke_begin"
    /\ conn = NULL
    /\ conn' = r
    /\ Goto(r, "revoke_check")
    /\ UNCHANGED <<store, crlCache, arg, now, listed, reply, clock, before, published>>

(* Variant: the status is not looked at. *)
CheckStatusSkipped(r) ==
    /\ pc[r] = "revoke_check"
    /\ Goto(r, "revoke_commit")
    /\ UNCHANGED <<store, conn, crlCache, arg, now, listed, reply, clock, before, published>>

(* Variant: a conflict returns without the rollback. *)
CheckStatusNoRollback(r) ==
    /\ pc[r] = "revoke_check"
    /\ IF arg[r].serial \in DOMAIN revocation
         THEN Answer(r, Error("already_revoked"))
         ELSE Goto(r, "revoke_commit") /\ UNCHANGED reply
    /\ UNCHANGED <<store, conn, crlCache, arg, now, listed, clock, before, published>>

(* SELECT status; a conflict rolls back and gives the connection up. *)
CheckStatus(r) ==
    /\ pc[r] = "revoke_check"
    /\ IF arg[r].serial \in DOMAIN revocation
         THEN Answer(r, Error("already_revoked")) /\ conn' = NULL
         ELSE Goto(r, "revoke_commit") /\ UNCHANGED <<conn, reply>>
    /\ UNCHANGED <<store, crlCache, arg, now, listed, clock, before, published>>

(* UPDATE certificates and COMMIT: nobody else sees the state between them. *)
CommitRevocation(r) ==
    /\ pc[r] = "revoke_commit"
    /\ revocation' = Put(revocation, arg[r].serial,
                         [revokedAt |-> now[r], reason |-> arg[r].reason])
    /\ conn' = NULL
    /\ Goto(r, "revoke_invalidate")
    /\ UNCHANGED <<cas, caOf, crlCache, arg, now, listed, reply, clock, before, published>>

InvalidateCRL(r) ==
    /\ pc[r] = "revoke_invalidate"
    /\ crlCache' = Remove(crlCache, arg[r].ca)
    /\ Goto(r, "revoke_reread")
    /\ UNCHANGED <<store, conn, arg, now, listed, reply, clock, before, published>>

(* handleRevoke reads the row again and answers with what it finds. *)
RereadCertificate(r) ==
    /\ pc[r] = "revoke_reread"
    /\ conn = NULL
    /\ Answer(r, [status |-> "ok", row |-> revocation[arg[r].serial], crl |-> NULL])
    /\ UNCHANGED <<store, conn, crlCache, arg, now, listed, clock, before, published>>

-----------------------------------------------------------------------------
(* GET /v1/ca/{id}/crl: handleGetCRL, Engine.CRL *)

CallCRL(r, ca, pass) ==
    /\ pc[r] = "idle"
    /\ arg' = [arg EXCEPT ![r] = [op |-> "crl", ca |-> ca, serial |-> NULL,
                                  reason |-> NULL, pass |-> pass]]
    /\ before' = [before EXCEPT ![r] = RevokedBy(ca)]
    /\ Goto(r, "crl_getca")
    /\ UNCHANGED <<store, conn, crlCache, now, listed, reply, clock, published>>

GetCA(r) ==
    /\ pc[r] = "crl_getca"
    /\ conn = NULL
    /\ IF arg[r].ca \in cas THEN Goto(r, "crl_list") /\ UNCHANGED reply
                            ELSE Answer(r, Error("not_found"))
    /\ UNCHANGED <<store, conn, crlCache, arg, now, listed, clock, before, published>>

ListRevoked(r) ==
    /\ pc[r] = "crl_list"
    /\ conn = NULL
    /\ listed' = [listed EXCEPT ![r] = RevokedBy(arg[r].ca)]
    /\ Goto(r, "crl_now")
    /\ UNCHANGED <<store, conn, crlCache, arg, now, reply, clock, before, published>>

CRLNow(r) ==
    /\ pc[r] = "crl_now"
    /\ now' = [now EXCEPT ![r] = clock]
    /\ Goto(r, "crl_cache")
    /\ UNCHANGED <<store, conn, crlCache, arg, listed, reply, clock, before, published>>

(* Variant: the number of entries is not compared. *)
CacheHitAnyCount(r) ==
    LET ca == arg[r].ca IN
    /\ ca \in DOMAIN crlCache
    /\ now[r] < crlCache[ca].nextUpdate

(* Variant: an expired entry counts. *)
CacheHitExpired(r) ==
    LET ca == arg[r].ca IN
    /\ ca \in DOMAIN crlCache
    /\ crlCache[ca].entryCount = Cardinality(DOMAIN listed[r])

(* The cached CRL is taken for current when it has as many entries as the  *)
(* rows just listed, and has not expired.                                  *)
CacheHit(r) ==
    LET ca == arg[r].ca IN
    /\ ca \in DOMAIN crlCache
    /\ crlCache[ca].entryCount = Cardinality(DOMAIN listed[r])
    /\ now[r] < crlCache[ca].nextUpdate

CheckCache(r) ==
    /\ pc[r] = "crl_cache"
    /\ IF CacheHit(r)
         THEN Answer(r, [status |-> "ok", row |-> NULL, crl |-> crlCache[arg[r].ca].der])
         ELSE Goto(r, "crl_load") /\ UNCHANGED reply
    /\ UNCHANGED <<store, conn, crlCache, arg, now, listed, clock, before, published>>

LoadKey(r) ==
    /\ pc[r] = "crl_load"
    /\ IF arg[r].pass THEN Goto(r, "crl_sign") /\ UNCHANGED reply
                      ELSE Answer(r, Error("wrong_passphrase"))
    /\ UNCHANGED <<store, conn, crlCache, arg, now, listed, clock, before, published>>

(* Variant: CRLs are numbered by the clock. *)
NewCRLByClock(r) ==
    [ca |-> arg[r].ca, number |-> now[r] + 1,
     entries |-> listed[r], thisUpdate |-> now[r], nextUpdate |-> now[r] + CRLValidity]

(* The CRL that Engine.CRL signs, and the number it gives it. *)
NewCRL(r) ==
    [ca |-> arg[r].ca, number |-> Cardinality(DOMAIN listed[r]) + 1,
     entries |-> listed[r], thisUpdate |-> now[r], nextUpdate |-> now[r] + CRLValidity]

(* Variant: the entry is counted when it is cached, not when it was listed. *)
SignCRLRecounted(r) ==
    /\ pc[r] = "crl_sign"
    /\ crlCache' = Put(crlCache, arg[r].ca,
                       [der |-> NewCRL(r), entryCount |-> Cardinality(DOMAIN RevokedBy(arg[r].ca)),
                        nextUpdate |-> NewCRL(r).nextUpdate])
    /\ published' = published \cup {NewCRL(r)}
    /\ Answer(r, [status |-> "ok", row |-> NULL, crl |-> NewCRL(r)])
    /\ UNCHANGED <<store, conn, arg, now, listed, clock, before>>

(* Signing touches no shared state; the cache is written, under the lock,  *)
(* whatever it holds by now.                                               *)
SignCRL(r) ==
    /\ pc[r] = "crl_sign"
    /\ crlCache' = Put(crlCache, arg[r].ca,
                       [der |-> NewCRL(r), entryCount |-> Cardinality(DOMAIN listed[r]),
                        nextUpdate |-> NewCRL(r).nextUpdate])
    /\ published' = published \cup {NewCRL(r)}
    /\ Answer(r, [status |-> "ok", row |-> NULL, crl |-> NewCRL(r)])
    /\ UNCHANGED <<store, conn, arg, now, listed, clock, before>>

-----------------------------------------------------------------------------
(* A statement fails (the client went away, an I/O error), a transaction   *)
(* rolls back, the key file cannot be read or the CRL not be signed.       *)
Fails(r) ==
    /\ pc[r] \in StoreCalls \cup {"crl_load", "crl_sign"}
    /\ Answer(r, Error("internal"))
    /\ conn' = IF conn = r THEN NULL ELSE conn
    /\ UNCHANGED <<store, crlCache, arg, now, listed, clock, before, published>>

(* The goroutine ends, and may serve another request. *)
Return(r) ==
    /\ pc[r] = "done"
    /\ Goto(r, "idle")
    /\ arg' = [arg EXCEPT ![r] = NULL]
    /\ now' = [now EXCEPT ![r] = NULL]
    /\ listed' = [listed EXCEPT ![r] = NULL]
    /\ reply' = [reply EXCEPT ![r] = NULL]
    /\ before' = [before EXCEPT ![r] = NULL]
    /\ UNCHANGED <<store, conn, crlCache, clock, published>>

(* The process dies and is started again over the same database. *)
Restart ==
    /\ conn' = NULL
    /\ crlCache' = EmptyMap
    /\ pc' = [r \in Requests |-> "idle"]
    /\ arg' = [r \in Requests |-> NULL]
    /\ now' = [r \in Requests |-> NULL]
    /\ listed' = [r \in Requests |-> NULL]
    /\ reply' = [r \in Requests |-> NULL]
    /\ before' = [r \in Requests |-> NULL]
    /\ UNCHANGED <<store, clock, published>>

RevokeStep(r) ==
    \/ GetCertificate(r) \/ RevokeNow(r) \/ BeginTx(r) \/ CheckStatus(r)
    \/ CommitRevocation(r) \/ InvalidateCRL(r) \/ RereadCertificate(r)

CRLStep(r) ==
    \/ GetCA(r) \/ ListRevoked(r) \/ CRLNow(r) \/ CheckCache(r)
    \/ LoadKey(r) \/ SignCRL(r)

Environment ==
    \/ \E ca \in CAs : CreateCA(ca)
    \/ \E s \in Serials, ca \in CAs : InsertCertificate(s, ca)
    \/ SetClock
    \/ Restart

Client(r) ==
    \/ \E s \in Serials, reason \in Reasons : CallRevoke(r, s, reason)
    \/ \E ca \in CAs, pass \in BOOLEAN : CallCRL(r, ca, pass)
    \/ Return(r)

Next ==
    \/ Environment
    \/ \E r \in Requests : Client(r) \/ RevokeStep(r) \/ CRLStep(r) \/ Fails(r)

Spec == Init /\ [][Next]_vars

(* The Go scheduler runs every goroutine, and database/sql hands a freed   *)
(* connection to a waiting request: no request waits for it for ever.      *)
FairSpec ==
    Spec /\ \A r \in Requests : SF_vars(RevokeStep(r) \/ CRLStep(r))

-----------------------------------------------------------------------------
(* Properties *)

(* Every variable keeps the type the code gives it: the tables and the     *)
(* cache are maps over serials and CA ids, every request has one of the    *)
(* program's steps ahead of it.                                            *)
TypeOK ==
    /\ cas \subseteq CAs
    /\ IsMap(caOf, Serials, CAs)
    /\ revocation \in Snapshots
    /\ conn \in Requests \cup {NULL}
    /\ IsMap(crlCache, CAs, CacheEntries)
    /\ clock \in Times
    /\ pc \in [Requests -> Steps]
    /\ arg \in [Requests -> Args \cup {NULL}]
    /\ now \in [Requests -> Times \cup {NULL}]
    /\ listed \in [Requests -> Snapshots \cup {NULL}]
    /\ reply \in [Requests -> Replies \cup {NULL}]
    /\ before \in [Requests -> Snapshots \cup {NULL}]
    /\ published \subseteq CRLs

Served(r) == pc[r] = "done" /\ reply[r].crl # NULL

(* A served CRL is complete and truthful, wherever it came from: it lists  *)
(* every certificate of the CA that was revoked when the request arrived,  *)
(* with the recorded time and reason, and nothing that is not revoked.     *)
(* This is what makes the test entryCount == len(revoked) of Engine.CRL    *)
(* sound when a slow rebuild writes the cache after a newer invalidation.  *)
ServedCRLIsComplete ==
    \A r \in Requests : Served(r) =>
        /\ Extends(reply[r].crl.entries, before[r])
        /\ Extends(RevokedBy(arg[r].ca), reply[r].crl.entries)

(* A served CRL is of the CA that was asked for, and by the clock reading  *)
(* of the request it has not reached its nextUpdate, even if the cached    *)
(* entry was replaced between that reading and the look into the cache.    *)
ServedCRLIsUnexpired ==
    \A r \in Requests : Served(r) =>
        /\ reply[r].crl.ca = arg[r].ca
        /\ now[r] < reply[r].crl.nextUpdate

(* CRLs of a CA that carry the same number list the same entries, also     *)
(* when different processes, before and after a restart, signed them: the  *)
(* number is computed from len(revoked) and nothing else is persisted.     *)
NumberIdentifiesContent ==
    \A c, d \in published :
        c.ca = d.ca /\ c.number = d.number => c.entries = d.entries

(* No CRL that was ever signed is contradicted later: every entry stays in *)
(* the table with the time and the reason the CRL gave, through restarts   *)
(* and failed requests.                                                    *)
PublishedStaysTrue ==
    \A c \in published : Extends(RevokedBy(c.ca), c.entries)

(* handleRevoke answers with a row it reads after the commit: the row is   *)
(* still the one this request wrote.  A conflict is reported only for a    *)
(* certificate that is revoked.                                            *)
RevokeReplyIsTrue ==
    \A r \in Requests : pc[r] = "done" /\ arg[r].op = "revoke" =>
        /\ reply[r].status = "ok" =>
             /\ arg[r].serial \in DOMAIN revocation
             /\ reply[r].row = revocation[arg[r].serial]
             /\ reply[r].row = [revokedAt |-> now[r], reason |-> arg[r].reason]
        /\ reply[r].status = "already_revoked" => arg[r].serial \in DOMAIN revocation

(* The request found the certificate unrevoked, in its transaction. *)
Won(r) ==
    /\ pc[r] \in {"revoke_commit", "revoke_invalidate", "revoke_reread", "done"}
    /\ arg[r].op = "revoke"
    /\ pc[r] = "done" => reply[r].status = "ok"

(* Of requests that revoke the same certificate at the same time, at most  *)
(* one gets past the status check of RevokeCertificate.                    *)
OneRevokerWins ==
    \A r, q \in Requests :
        Won(r) /\ Won(q) /\ arg[r].serial = arg[q].serial => r = q

(* The pool's only connection is held by a transaction that will end, so   *)
(* no way out of RevokeCertificate leaves it taken.                        *)
NoConnectionLeak == conn # NULL => pc[conn] \in InTransaction

(* A revocation is final: no step removes it or changes its time or its    *)
(* reason, not even a second request to revoke the certificate.            *)
FirstRevocationWins == [][Extends(revocation', revocation)]_vars

(* Every request is answered, unless the process dies first: waiting for   *)
(* the connection never turns into waiting for ever.                       *)
EveryRequestAnswered ==
    \A r \in Requests : pc[r] # "idle" ~> pc[r] \in {"done", "idle"}

(* What the cached CRL would tell a request that comes now is right. *)
CachedIsCurrent(ca) ==
    /\ ca \in DOMAIN crlCache
    /\ crlCache[ca].der.entries = RevokedBy(ca)
    /\ clock < crlCache[ca].nextUpdate

(* The design says that a CRL is "cached until next revocation or          *)
(* nextUpdate": as long as the process lives, only the commit of a         *)
(* revocation or the clock makes a current cached CRL unusable.            *)
CachedUntilNextRevocation ==
    [][\/ Restart
       \/ revocation' # revocation
       \/ clock' # clock
       \/ \A ca \in CAs : CachedIsCurrent(ca) => CachedIsCurrent(ca)']_vars

-----------------------------------------------------------------------------
(* The inductive invariant behind the properties.                          *)

RevokeSteps == {"revoke_get", "revoke_now", "revoke_begin", "revoke_check",
                "revoke_commit", "revoke_invalidate", "revoke_reread"}

CRLSteps == {"crl_getca", "crl_list", "crl_now", "crl_cache", "crl_load", "crl_sign"}

(* Steps after the certificate was found, the clock read, the rows listed. *)
AfterGet == RevokeSteps \ {"revoke_get"}
AfterNow == (AfterGet \ {"revoke_now"}) \cup {"crl_cache", "crl_load", "crl_sign"}
AfterList == CRLSteps \ {"crl_getca", "crl_list"}

(* Only certificates of the table are revoked. *)
TableInv == DOMAIN revocation \subseteq DOMAIN caOf

(* The request's own row, once committed. *)
OwnRow(r) == [revokedAt |-> now[r], reason |-> arg[r].reason]

RevokeInv(r) ==
    /\ pc[r] \in RevokeSteps =>
         /\ arg[r] \in Args
         /\ arg[r].op = "revoke"
         /\ arg[r].serial \in Serials
         /\ arg[r].reason \in Reasons
         /\ IsReason(arg[r].reason)
    /\ pc[r] \in AfterGet =>
         /\ arg[r].serial \in DOMAIN caOf
         /\ arg[r].ca = caOf[arg[r].serial]
    /\ pc[r] = "revoke_commit" => arg[r].serial \notin DOMAIN revocation
    /\ pc[r] \in {"revoke_invalidate", "revoke_reread"} =>
         /\ arg[r].serial \in DOMAIN revocation
         /\ revocation[arg[r].serial] = OwnRow(r)

CRLInv(r) ==
    /\ pc[r] \in CRLSteps =>
         /\ arg[r] \in Args
         /\ arg[r].op = "crl"
         /\ arg[r].ca \in CAs
         /\ before[r] \in Snapshots
         /\ Extends(RevokedBy(arg[r].ca), before[r])
    /\ pc[r] \in AfterList =>
         /\ listed[r] \in Snapshots
         /\ Extends(listed[r], before[r])
         /\ Extends(RevokedBy(arg[r].ca), listed[r])

RequestInv ==
    \A r \in Requests :
        /\ RevokeInv(r)
        /\ CRLInv(r)
        /\ pc[r] \in AfterNow => now[r] \in Times
        /\ pc[r] = "done" => arg[r] \in Args /\ reply[r] \in Replies
        /\ pc[r] \in InTransaction => conn = r

(* What is cached was published, and is described by the entry's fields.   *)
CacheInv ==
    \A ca \in DOMAIN crlCache :
        /\ crlCache[ca].der \in published
        /\ crlCache[ca].der.ca = ca
        /\ crlCache[ca].entryCount = Cardinality(DOMAIN crlCache[ca].der.entries)
        /\ crlCache[ca].nextUpdate = crlCache[ca].der.nextUpdate

NumberInv == \A c \in published : c.number = Cardinality(DOMAIN c.entries) + 1

Comparable(f, g) == Extends(f, g) \/ Extends(g, f)

(* The table only grows, so what two requests listed or published of the   *)
(* same CA are an earlier and a later state of it: equally many rows are   *)
(* then the same rows.                                                     *)
ChainInv ==
    /\ \A c, d \in published : c.ca = d.ca => Comparable(c.entries, d.entries)
    /\ \A c \in published, r \in Requests :
         pc[r] \in AfterList /\ arg[r].ca = c.ca => Comparable(c.entries, listed[r])
    /\ \A r, q \in Requests :
         pc[r] \in AfterList /\ pc[q] \in AfterList /\ arg[r].ca = arg[q].ca
           => Comparable(listed[r], listed[q])

(* The inductive invariant: it implies the properties above, every step    *)
(* preserves it.                                                           *)
IInv ==
    /\ TypeOK
    /\ TableInv
    /\ RequestInv
    /\ NoConnectionLeak
    /\ CacheInv
    /\ NumberInv
    /\ PublishedStaysTrue
    /\ ChainInv
    /\ ServedCRLIsComplete
    /\ ServedCRLIsUnexpired
    /\ RevokeReplyIsTrue

-----------------------------------------------------------------------------
(* Refinement: a CRL request takes effect when it lists the revoked rows,  *)
(* a request to revoke when its transaction commits.                       *)

Effective == {"revoke_invalidate", "revoke_reread",
              "crl_now", "crl_cache", "crl_load", "crl_sign"}

phaseBar(r) ==
    CASE pc[r] = "done"       -> "answered"
      [] pc[r] \in Effective  -> "effective"
      [] OTHER                -> "called"

seenBar(r) ==
    CASE pc[r] \in Effective /\ arg[r].op = "crl" -> listed[r]
      [] pc[r] \in Effective /\ arg[r].op = "revoke" ->
           [revokedAt |-> now[r], reason |-> arg[r].reason]
      [] pc[r] = "done" /\ arg[r].op = "crl" -> 
           IF reply[r].crl = NULL THEN NULL ELSE reply[r].crl.entries
      [] pc[r] = "done" /\ arg[r].op = "revoke" -> reply[r].row
      [] OTHER -> NULL

statusBar(r) ==
    IF pc[r] # "done" THEN "none"
    ELSE IF reply[r].status \in {"ok", "already_revoked"} THEN reply[r].status ELSE "error"

callBar ==
    [r \in Requests |->
        IF pc[r] = "idle" THEN NULL
        ELSE [op |-> arg[r].op,
              target |-> IF arg[r].op = "crl" THEN arg[r].ca ELSE arg[r].serial,
              phase |-> phaseBar(r), seen |-> seenBar(r), status |-> statusBar(r)]]

(* What callBar has of a request that is under way. *)
Calls == [op : {"revoke", "crl"}, target : CAs \cup Serials \cup {NULL},
          phase : {"called", "effective", "answered"},
          seen : Snapshots \cup RevocationInfo \cup {NULL},
          status : {"none", "ok", "already_revoked", "error"}]

ASSUME CallAssumption == NULL \notin Calls

Atomic == INSTANCE AtomicRevocation WITH call <- callBar

(* Clients cannot tell the service from one without a cache, in which      *)
(* every request takes effect in one step between arrival and answer.      *)
ImplementsAtomic == Atomic!Spec
=============================================================================
