-------------------------- MODULE AtomicRevocation --------------------------
(***************************************************************************)
(* What revocation promises its clients.  There is no cache, no connection *)
(* pool and no clock: between its arrival and its answer a request takes   *)
(* effect in one step.  A request for a CRL sees what is revoked at that   *)
(* step, all of it; a request to revoke is the first for its serial, or is *)
(* told that it is not.  Either may be answered with an error instead, and *)
(* a request to revoke may then have taken effect.                         *)
(***************************************************************************)
EXTENDS Maps

CONSTANTS
    CAs, Serials, Requests,
    RevocationInfo,  \* time and reason of a revocation
    NULL

VARIABLES
    caOf,        \* the issuer of each certificate
    revocation,  \* time and reason of each revoked certificate
    call         \* the request that each client waits for

vars == <<caOf, revocation, call>>

Revoked(ca) ==
    [s \in {t \in DOMAIN revocation : caOf[t] = ca} |-> revocation[s]]

Init ==
    /\ caOf = EmptyMap
    /\ revocation = EmptyMap
    /\ call = [r \in Requests |-> NULL]

In(r, phase) == call[r] # NULL /\ call[r].phase = phase

To(r, phase, seen, status) ==
    call' = [call EXCEPT ![r].phase = phase, ![r].seen = seen, ![r].status = status]

Issue(s, ca) ==
    /\ s \notin DOMAIN caOf
    /\ caOf' = Put(caOf, s, ca)
    /\ UNCHANGED <<revocation, call>>

Call(r, op, target) ==
    /\ call[r] = NULL
    /\ call' = [call EXCEPT ![r] = [op |-> op, target |-> target, phase |-> "called",
                                    seen |-> NULL, status |-> "none"]]
    /\ UNCHANGED <<caOf, revocation>>

(* The request is rejected where it arrives. *)
Reject(r, op, target) ==
    /\ call[r] = NULL
    /\ call' = [call EXCEPT ![r] = [op |-> op, target |-> target, phase |-> "answered",
                                    seen |-> NULL, status |-> "error"]]
    /\ UNCHANGED <<caOf, revocation>>

Read(r) ==
    /\ In(r, "called")
    /\ call[r].op = "crl"
    /\ To(r, "effective", Revoked(call[r].target), "none")
    /\ UNCHANGED <<caOf, revocation>>

Revoke(r, info) ==
    /\ In(r, "called")
    /\ call[r].op = "revoke"
    /\ call[r].target \in DOMAIN caOf \ DOMAIN revocation
    /\ revocation' = Put(revocation, call[r].target, info)
    /\ To(r, "effective", info, "none")
    /\ UNCHANGED caOf

Refuse(r) ==
    /\ In(r, "called")
    /\ call[r].op = "revoke"
    /\ call[r].target \in DOMAIN revocation
    /\ To(r, "answered", NULL, "already_revoked")
    /\ UNCHANGED <<caOf, revocation>>

(* The answer is what the request saw, or did, when it took effect. *)
Answer(r) ==
    /\ In(r, "effective")
    /\ To(r, "answered", call[r].seen, "ok")
    /\ UNCHANGED <<caOf, revocation>>

Fail(r) ==
    /\ In(r, "called") \/ In(r, "effective")
    /\ To(r, "answered", NULL, "error")
    /\ UNCHANGED <<caOf, revocation>>

Return(r) ==
    /\ In(r, "answered")
    /\ call' = [call EXCEPT ![r] = NULL]
    /\ UNCHANGED <<caOf, revocation>>

(* A crash: requests are lost, what took effect is not. *)
Restart ==
    /\ call' = [r \in Requests |-> NULL]
    /\ UNCHANGED <<caOf, revocation>>

Next ==
    \/ \E s \in Serials, ca \in CAs : Issue(s, ca)
    \/ Restart
    \/ \E r \in Requests :
         \/ \E ca \in CAs : Call(r, "crl", ca)
         \/ \E s \in Serials : Call(r, "revoke", s) \/ Reject(r, "revoke", s)
         \/ \E info \in RevocationInfo : Revoke(r, info)
         \/ Read(r) \/ Refuse(r) \/ Answer(r) \/ Fail(r) \/ Return(r)

Spec == Init /\ [][Next]_vars
=============================================================================
