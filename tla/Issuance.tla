------------------------------ MODULE Issuance ------------------------------
(***************************************************************************)
(* Creating CAs and issuing certificates: Engine.CreateCA and              *)
(* Engine.IssueCertificate (internal/ca), the key directory they fill      *)
(* (internal/keystore), the tables they insert into (internal/store), and  *)
(* the HTTP handlers that call them (internal/api).                        *)
(*                                                                         *)
(* A key file and the row that names it are written one after the other,   *)
(* with no transaction around them, by goroutines that run concurrently in *)
(* a process that may die anywhere.  A step below is one SQL statement,    *)
(* one operation on a key file, or one reading of the wall clock.          *)
(***************************************************************************)
EXTENDS Integers, Maps

CONSTANTS
    Requests,          \* goroutines serving HTTP requests
    CAIds,             \* identifiers that NewKeyID gives to CAs
    KeyIds,            \* identifiers that NewKeyID gives to keys
    Serials,           \* serial numbers that GenerateSerialNumber returns
    Passphrases,
    CSRKeys,           \* key pairs of the clients that send a CSR
    CreateRequests,    \* bodies of the requests to create a CA
    IssueRequests,     \* bodies of the requests to issue a certificate
    RootDays,          \* rootValidityDays, the default and the maximum
    IntermediateDays,  \* intermediateValidityDays, the default and the maximum
    EndEntityDays,     \* endEntityValidityDays, the default
    MaxDays,           \* Options.MaxValidity of the engine, in days
    LateCancel,        \* the driver may report a cancellation after the insert
    MaxKeys,           \* bound: key pairs generated in a behaviour
    MaxClock,          \* bound: the wall clock shows a day of 0..MaxClock
    NULL               \* nil, the empty string, an absent value

VARIABLES
    (* persistent: the key directory and the SQLite database *)
    files,         \* the sealed keys: key id -> sealed key
    cas,           \* table cas: id -> row
    certificates,  \* table certificates: serial -> row
    (* volatile: the process *)
    pc,            \* the next step of each request
    arg,           \* the body of each request
    local,         \* the local variables of CreateCA and IssueCertificate
    reply,         \* the response of each request
    (* the world *)
    clock,         \* what e.now() returns, in days
    generated,     \* how many key pairs GenerateKey returned so far
    (* observations, which no step reads *)
    disclosed,     \* private keys that left in a response
    abandoned,     \* key ids of files that the program gave up on
    confirmed      \* keys kept for what a client was told was created

disk == <<files, cas, certificates>>
vars == <<disk, pc, arg, local, reply, clock, generated, disclosed, abandoned, confirmed>>

-----------------------------------------------------------------------------
(* Values *)

Pairs == (1 .. MaxKeys) \cup CSRKeys

(* What Seal writes: whole once all of it is in the file. *)
SealedKeys == [pair : Pairs, pass : Passphrases, whole : BOOLEAN]

(* A certificate: its public key, the key that signed it, its last day. *)
Certificates == [subject : Pairs, signedBy : Pairs, notAfter : Int]

CARows == [parent : CAIds \cup {NULL}, keyId : KeyIds, cert : Certificates]

CertificateRows == [ca : CAIds, keyId : KeyIds \cup {NULL}, cert : Certificates]

(* wellFormed: the body passes the checks that come before the lookup of   *)
(* the issuer (JSON, names, passphrase, CSR).  allowed: algorithm, subject *)
(* and key usages pass the checks of the profile, after that lookup.       *)
CreateArgs == [op : {"create"}, wellFormed : BOOLEAN, allowed : BOOLEAN, days : Int,
               parent : CAIds \cup {NULL}, pass : Passphrases, parentPass : Passphrases]

IssueArgs == [op : {"issue"}, wellFormed : BOOLEAN, allowed : BOOLEAN, days : Int,
              ca : CAIds, pass : Passphrases, storeKey : BOOLEAN, csr : CSRKeys \cup {NULL}]

Locals == [issuer : CARows \cup {NULL}, notAfter : Int, pair : Pairs \cup {NULL},
           signer : Pairs \cup {NULL}, keyId : KeyIds \cup {NULL}]

NoLocals == [issuer |-> NULL, notAfter |-> 0, pair |-> NULL, signer |-> NULL, keyId |-> NULL]

Statuses == {"none", "created", "rejected", "not_found", "wrong_passphrase", "internal"}

Steps == {"idle", "get_parent", "get_ca", "now", "load", "generate", "create_file",
          "write_file", "serial", "insert", "delete", "chain", "done"}

ASSUME RequestBodies == CreateRequests \subseteq CreateArgs /\ IssueRequests \subseteq IssueArgs
ASSUME IssuanceBounds == {RootDays, IntermediateDays, EndEntityDays, MaxDays, MaxKeys, MaxClock} \subseteq Nat
ASSUME LateCancelAssumption == LateCancel \in BOOLEAN
ASSUME NullIsNoValue == NULL \notin CAIds \cup KeyIds \cup Pairs \cup CARows
ASSUME ClientKeysDiffer == CSRKeys \cap (1 .. MaxKeys) = {}

-----------------------------------------------------------------------------
Init ==
    /\ files = EmptyMap
    /\ cas = EmptyMap
    /\ certificates = EmptyMap
    /\ pc = [r \in Requests |-> "idle"]
    /\ arg = [r \in Requests |-> NULL]
    /\ local = [r \in Requests |-> NoLocals]
    /\ reply = [r \in Requests |-> "none"]
    /\ clock = 0
    /\ generated = 0
    /\ disclosed = {}
    /\ confirmed = {}
    /\ abandoned = {}

Goto(r, step) == pc' = [pc EXCEPT ![r] = step]

Answer(r, status) == Goto(r, "done") /\ reply' = [reply EXCEPT ![r] = status]

Creates(r) == arg[r].op = "create"

IsRoot(r) == Creates(r) /\ arg[r].parent = NULL

(* Variant: a failed insert leaves the key file. *)
UndoneAfterLoad(r) == pc[r] = "load" /\ local[r].keyId # NULL

(* Variant: a failure after the insert deletes the key file too. *)
UndoneAfterInsert(r) == pc[r] \in {"load", "insert", "chain"} /\ local[r].keyId # NULL

(* After these failures the key file of the request is deleted. *)
Undone(r) == pc[r] \in {"load", "insert"} /\ local[r].keyId # NULL

Abort(r, status) ==
    /\ Goto(r, IF Undone(r) THEN "delete" ELSE "done")
    /\ reply' = [reply EXCEPT ![r] = status]

-----------------------------------------------------------------------------
(* POST /v1/ca: handleCreateCA, Engine.CreateCA *)
CallCreateCA(r, body) ==
    /\ pc[r] = "idle"
    /\ arg' = [arg EXCEPT ![r] = body]
    /\ IF ~body.wellFormed
         THEN Answer(r, "rejected")
         ELSE /\ Goto(r, IF body.parent = NULL THEN "now" ELSE "get_parent")
              /\ UNCHANGED reply
    /\ UNCHANGED <<disk, local, clock, generated, disclosed, abandoned, confirmed>>

(* Only a root may issue an intermediate. *)
GetParent(r) ==
    /\ pc[r] = "get_parent"
    /\ LET parent == arg[r].parent IN
         IF parent \notin DOMAIN cas
           THEN Answer(r, "not_found") /\ UNCHANGED local
           ELSE IF cas[parent].parent # NULL
             THEN Answer(r, "rejected") /\ UNCHANGED local
             ELSE /\ local' = [local EXCEPT ![r].issuer = cas[parent]]
                  /\ Goto(r, "now")
                  /\ UNCHANGED reply
    /\ UNCHANGED <<disk, arg, clock, generated, disclosed, abandoned, confirmed>>

(* A CSR excludes store_key: the server never sees the private key. *)
CSRAllowed(body) == body.csr # NULL => ~body.storeKey

(* POST /v1/certificates: handleIssueCertificate, Engine.IssueCertificate *)
CallIssue(r, body) ==
    /\ pc[r] = "idle"
    /\ arg' = [arg EXCEPT ![r] = body]
    /\ IF ~body.wellFormed \/ ~CSRAllowed(body)
         THEN Answer(r, "rejected")
         ELSE Goto(r, "get_ca") /\ UNCHANGED reply
    /\ UNCHANGED <<disk, local, clock, generated, disclosed, abandoned, confirmed>>

(* Variant: a root may issue certificates. *)
GetCAAnyLevel(r) ==
    /\ pc[r] = "get_ca"
    /\ LET ca == arg[r].ca IN
         IF ca \notin DOMAIN cas
           THEN Answer(r, "not_found") /\ UNCHANGED local
           ELSE /\ local' = [local EXCEPT ![r].issuer = cas[ca]]
                /\ Goto(r, "now")
                /\ UNCHANGED reply
    /\ UNCHANGED <<disk, arg, clock, generated, disclosed, abandoned, confirmed>>

(* A root issues intermediates only. *)
GetCA(r) ==
    /\ pc[r] = "get_ca"
    /\ LET ca == arg[r].ca IN
         IF ca \notin DOMAIN cas
           THEN Answer(r, "not_found") /\ UNCHANGED local
           ELSE IF cas[ca].parent = NULL
             THEN Answer(r, "rejected") /\ UNCHANGED local
             ELSE /\ local' = [local EXCEPT ![r].issuer = cas[ca]]
                  /\ Goto(r, "now")
                  /\ UNCHANGED reply
    /\ UNCHANGED <<disk, arg, clock, generated, disclosed, abandoned, confirmed>>

(* The days of validity: what was requested, or the default of the level. *)
ResolveDays(r) ==
    IF arg[r].days # 0 THEN arg[r].days
    ELSE IF IsRoot(r) THEN RootDays
    ELSE IF Creates(r) THEN IntermediateDays ELSE EndEntityDays

MaxDaysOf(r) ==
    IF IsRoot(r) THEN RootDays ELSE IF Creates(r) THEN IntermediateDays ELSE MaxDays

(* Variant: only an issuer that has expired is refused. *)
OutlastsAtStart(r) ==
    local[r].issuer # NULL /\ clock > local[r].issuer.cert.notAfter

(* A certificate may not outlast its issuer. *)
Outlasts(r) ==
    local[r].issuer # NULL /\ clock + ResolveDays(r) > local[r].issuer.cert.notAfter

DaysAllowed(r) == ResolveDays(r) >= 0 /\ ResolveDays(r) <= MaxDaysOf(r)

(* The profile of the level has the algorithm and the key usages. *)
Allowed(r) == arg[r].allowed

(* The checks of the profile, and the validity from the present time on. *)
Now(r) ==
    /\ pc[r] = "now"
    /\ IF ~Allowed(r) \/ ~DaysAllowed(r) \/ Outlasts(r)
         THEN Answer(r, "rejected") /\ UNCHANGED local
         ELSE /\ local' = [local EXCEPT ![r].notAfter = clock + ResolveDays(r)]
              /\ Goto(r, IF Creates(r) THEN "generate" ELSE "load")
              /\ UNCHANGED reply
    /\ UNCHANGED <<disk, arg, clock, generated, disclosed, abandoned, confirmed>>

-----------------------------------------------------------------------------
(* The key directory *)

(* Unseal: the key in the file, if it is all there and the passphrase fits. *)
Unsealed(k, pass) == k \in DOMAIN files /\ files[k].whole /\ files[k].pass = pass

(* Load the key of the issuer. *)
Load(r) ==
    /\ pc[r] = "load"
    /\ LET k == local[r].issuer.keyId
           pass == IF Creates(r) THEN arg[r].parentPass ELSE arg[r].pass
       IN IF Unsealed(k, pass)
            THEN /\ local' = [local EXCEPT ![r].signer = files[k].pair]
                 /\ Goto(r, IF Creates(r) THEN "insert" ELSE "generate")
                 /\ UNCHANGED reply
            ELSE /\ Abort(r, IF k \in DOMAIN files /\ files[k].whole
                             THEN "wrong_passphrase" ELSE "internal")
                 /\ UNCHANGED local
    /\ UNCHANGED <<disk, arg, clock, generated, disclosed, abandoned, confirmed>>

(* GenerateKey, or the key of the CSR. *)
Generate(r) ==
    /\ pc[r] = "generate"
    /\ IF Creates(r) \/ arg[r].csr = NULL
         THEN /\ generated < MaxKeys
              /\ generated' = generated + 1
              /\ local' = [local EXCEPT ![r].pair = generated + 1]
         ELSE /\ local' = [local EXCEPT ![r].pair = arg[r].csr]
              /\ UNCHANGED generated
    /\ Goto(r, IF Creates(r) \/ arg[r].storeKey THEN "create_file" ELSE "insert")
    /\ UNCHANGED <<disk, arg, reply, clock, disclosed, abandoned, confirmed>>

(* Variant: without O_EXCL. *)
CreateKeyFileTruncates(r, k) ==
    /\ pc[r] = "create_file"
    /\ files' = Put(files, k, [pair |-> local[r].pair, pass |-> arg[r].pass, whole |-> FALSE])
    /\ local' = [local EXCEPT ![r].keyId = k]
    /\ Goto(r, "write_file")
    /\ UNCHANGED <<cas, certificates, arg, reply, clock, generated, disclosed, abandoned, confirmed>>

(* Store creates the file with O_EXCL, under a random name. *)
CreateKeyFile(r, k) ==
    /\ pc[r] = "create_file"
    /\ IF k \in DOMAIN files
         THEN Answer(r, "internal") /\ UNCHANGED <<files, local>>
         ELSE /\ files' = Put(files, k, [pair |-> local[r].pair, pass |-> arg[r].pass,
                                         whole |-> FALSE])
              /\ local' = [local EXCEPT ![r].keyId = k]
              /\ Goto(r, "write_file")
              /\ UNCHANGED reply
    /\ UNCHANGED <<cas, certificates, arg, clock, generated, disclosed, abandoned, confirmed>>

(* Store writes and syncs it. *)
WriteKeyFile(r) ==
    /\ pc[r] = "write_file"
    /\ files' = [files EXCEPT ![local[r].keyId].whole = TRUE]
    /\ Goto(r, IF Creates(r) THEN "serial" ELSE "insert")
    /\ UNCHANGED <<cas, certificates, arg, local, reply, clock, generated, disclosed, abandoned, confirmed>>

(* Variant: a root is left without a signer. *)
GenerateSerialNumberNoSigner(r) ==
    /\ pc[r] = "serial"
    /\ Goto(r, IF IsRoot(r) THEN "insert" ELSE "load")
    /\ UNCHANGED <<disk, arg, local, reply, clock, generated, disclosed, abandoned, confirmed>>

(* CreateCA draws the serial number; a root signs with its own key. *)
GenerateSerialNumber(r) ==
    /\ pc[r] = "serial"
    /\ IF IsRoot(r)
         THEN local' = [local EXCEPT ![r].signer = local[r].pair] /\ Goto(r, "insert")
         ELSE Goto(r, "load") /\ UNCHANGED local
    /\ UNCHANGED <<disk, arg, reply, clock, generated, disclosed, abandoned, confirmed>>

(* Delete after a failure. *)
DeleteKeyFile(r) ==
    /\ pc[r] = "delete"
    /\ files' = Remove(files, local[r].keyId)
    /\ Goto(r, "done")
    /\ UNCHANGED <<cas, certificates, arg, local, reply, clock, generated, disclosed, abandoned, confirmed>>

(* The error of Delete is ignored. *)
DeleteFails(r) ==
    /\ pc[r] = "delete"
    /\ Goto(r, "done")
    /\ abandoned' = abandoned \cup {local[r].keyId}
    /\ UNCHANGED <<disk, arg, local, reply, clock, generated, disclosed, confirmed>>

-----------------------------------------------------------------------------
(* The tables *)

NewCertificate(r) ==
    [subject |-> local[r].pair, signedBy |-> local[r].signer, notAfter |-> local[r].notAfter]

NewCA(r) == [parent |-> arg[r].parent, keyId |-> local[r].keyId, cert |-> NewCertificate(r)]

NewRow(r) == [ca |-> arg[r].ca, keyId |-> local[r].keyId, cert |-> NewCertificate(r)]

(* The response says that the key is kept. *)
Confirm(r) ==
    confirmed' = IF local[r].keyId = NULL THEN confirmed
                 ELSE confirmed \cup {[keyId |-> local[r].keyId, pair |-> local[r].pair]}

(* CreateCertificate and INSERT INTO cas, under a random id. *)
InsertCA(r, id) ==
    /\ pc[r] = "insert"
    /\ Creates(r)
    /\ IF id \in DOMAIN cas
         THEN Abort(r, "internal") /\ UNCHANGED <<cas, confirmed>>
         ELSE cas' = Put(cas, id, NewCA(r)) /\ Answer(r, "created") /\ Confirm(r)
    /\ UNCHANGED <<files, certificates, arg, local, clock, generated, disclosed, abandoned>>

(* The client goes away while the row is inserted: it is there, and the    *)
(* driver reports the cancellation of the context.                         *)
InsertCACancelled(r, id) ==
    /\ LateCancel
    /\ pc[r] = "insert"
    /\ Creates(r)
    /\ id \notin DOMAIN cas
    /\ cas' = Put(cas, id, NewCA(r))
    /\ Abort(r, "internal")
    /\ UNCHANGED <<files, certificates, arg, local, clock, generated, disclosed, abandoned, confirmed>>

(* INSERT INTO certificates, under a random serial number. *)
InsertCertificate(r, s) ==
    /\ pc[r] = "insert"
    /\ ~Creates(r)
    /\ IF s \in DOMAIN certificates
         THEN Abort(r, "internal") /\ UNCHANGED certificates
         ELSE /\ certificates' = Put(certificates, s, NewRow(r))
              /\ Goto(r, "chain")
              /\ UNCHANGED reply
    /\ UNCHANGED <<files, cas, arg, local, clock, generated, disclosed, abandoned, confirmed>>

InsertCertificateCancelled(r, s) ==
    /\ LateCancel
    /\ pc[r] = "insert"
    /\ ~Creates(r)
    /\ s \notin DOMAIN certificates
    /\ certificates' = Put(certificates, s, NewRow(r))
    /\ Abort(r, "internal")
    /\ UNCHANGED <<files, cas, arg, local, clock, generated, disclosed, abandoned, confirmed>>

(* caResult finds the CA that issued the issuer. *)
ParentFound(r) == local[r].issuer.parent \in DOMAIN cas

(* Variant: a stored key is returned as well. *)
AssembleChainWithKey(r) ==
    /\ pc[r] = "chain"
    /\ IF ParentFound(r)
         THEN /\ Answer(r, "created") /\ Confirm(r)
              /\ disclosed' = IF arg[r].csr # NULL THEN disclosed
                              ELSE disclosed \cup {local[r].pair}
         ELSE Answer(r, "not_found") /\ UNCHANGED <<disclosed, confirmed>>
    /\ UNCHANGED <<disk, arg, local, clock, generated, abandoned>>

(* The chain is assembled; then the response is complete, with the private *)
(* key if the server made it and did not store it.                         *)
AssembleChain(r) ==
    /\ pc[r] = "chain"
    /\ IF ParentFound(r)
         THEN /\ Answer(r, "created") /\ Confirm(r)
              /\ disclosed' = IF arg[r].storeKey \/ arg[r].csr # NULL THEN disclosed
                              ELSE disclosed \cup {local[r].pair}
         ELSE Answer(r, "not_found") /\ UNCHANGED <<disclosed, confirmed>>
    /\ UNCHANGED <<disk, arg, local, clock, generated, abandoned>>

-----------------------------------------------------------------------------
(* The client goes away, the disk is full, a read or a write fails, there  *)
(* is no entropy: the step has no effect and its error is returned.        *)
Fails(r) ==
    /\ pc[r] \in Steps \ {"idle", "now", "delete", "done"}
    /\ Abort(r, "internal")
    /\ abandoned' = IF pc[r] \in {"write_file", "serial"}
                    THEN abandoned \cup {local[r].keyId} ELSE abandoned
    /\ UNCHANGED <<disk, arg, local, clock, generated, disclosed, confirmed>>

Return(r) ==
    /\ pc[r] = "done"
    /\ Goto(r, "idle")
    /\ arg' = [arg EXCEPT ![r] = NULL]
    /\ local' = [local EXCEPT ![r] = NoLocals]
    /\ reply' = [reply EXCEPT ![r] = "none"]
    /\ UNCHANGED <<disk, clock, generated, disclosed, abandoned, confirmed>>

(* The wall clock, which may also be set back. *)
SetClock ==
    /\ clock' \in (0 .. MaxClock) \ {clock}
    /\ UNCHANGED <<disk, pc, arg, local, reply, generated, disclosed, abandoned, confirmed>>

(* The request has a key file that no row names. *)
HoldsKey(r) ==
    /\ pc[r] \in {"write_file", "serial", "load", "insert", "delete"}
    /\ local[r].keyId # NULL

(* The process dies and is started again over the same files. *)
Restart ==
    /\ pc' = [r \in Requests |-> "idle"]
    /\ arg' = [r \in Requests |-> NULL]
    /\ local' = [r \in Requests |-> NoLocals]
    /\ reply' = [r \in Requests |-> "none"]
    /\ abandoned' = abandoned \cup {local[r].keyId : r \in {q \in Requests : HoldsKey(q)}}
    /\ UNCHANGED <<disk, clock, generated, disclosed, confirmed>>

Step(r) ==
    \/ GetParent(r) \/ GetCA(r) \/ Now(r) \/ Load(r) \/ Generate(r)
    \/ \E k \in KeyIds : CreateKeyFile(r, k)
    \/ WriteKeyFile(r) \/ GenerateSerialNumber(r) \/ DeleteKeyFile(r) \/ DeleteFails(r)
    \/ \E id \in CAIds : InsertCA(r, id) \/ InsertCACancelled(r, id)
    \/ \E s \in Serials : InsertCertificate(r, s) \/ InsertCertificateCancelled(r, s)
    \/ AssembleChain(r)

Client(r) ==
    \/ \E body \in CreateRequests : CallCreateCA(r, body)
    \/ \E body \in IssueRequests : CallIssue(r, body)
    \/ Return(r)

Next ==
    \/ SetClock
    \/ Restart
    \/ \E r \in Requests : Client(r) \/ Step(r) \/ Fails(r)

Spec == Init /\ [][Next]_vars

-----------------------------------------------------------------------------
(* Properties *)

(* Every variable keeps the type the code gives it: the directory and the  *)
(* tables are maps over their keys, every request has one of the program's *)
(* steps ahead of it.                                                      *)
TypeOK ==
    /\ IsMap(files, KeyIds, SealedKeys)
    /\ IsMap(cas, CAIds, CARows)
    /\ IsMap(certificates, Serials, CertificateRows)
    /\ pc \in [Requests -> Steps]
    /\ arg \in [Requests -> CreateArgs \cup IssueArgs \cup {NULL}]
    /\ local \in [Requests -> Locals]
    /\ reply \in [Requests -> Statuses]
    /\ clock \in 0 .. MaxClock
    /\ generated \in 0 .. MaxKeys
    /\ disclosed \subseteq Pairs
    /\ abandoned \subseteq KeyIds
    /\ confirmed \subseteq [keyId : KeyIds, pair : Pairs]

(* The key directory has the whole private key of p under the name k. *)
Keeps(k, p) == k \in DOMAIN files /\ files[k].whole /\ files[k].pair = p

(* Every row that names a key names the right one, whole: no crash between *)
(* key file and row, no collision of random ids and no clean-up after a    *)
(* failure elsewhere leaves a CA that cannot sign, or the certificate of a *)
(* stored key without it.                                                  *)
EveryRowHasItsKey ==
    /\ \A ca \in DOMAIN cas : Keeps(cas[ca].keyId, cas[ca].cert.subject)
    /\ \A s \in DOMAIN certificates :
         certificates[s].keyId # NULL =>
           Keeps(certificates[s].keyId, certificates[s].cert.subject)

Named == {cas[ca].keyId : ca \in DOMAIN cas}
           \cup {certificates[s].keyId : s \in DOMAIN certificates}

(* No key file is left over: a row names it, or the request that wrote it  *)
(* still runs.  The ones that CreateCA and Store do give up on (a crash,   *)
(* a failed write, a failed Delete, no serial number) no row ever names.   *)
NoStrayKeys ==
    /\ \A k \in DOMAIN files \ Named :
         k \in abandoned \/ \E r \in Requests : HoldsKey(r) /\ local[r].keyId = k
    /\ abandoned \cap Named = {}

(* No key serves two rows, although key_id is not UNIQUE in either table   *)
(* and the clean-up of one request may race the insert of another.         *)
OneRowPerKey ==
    /\ \A a, b \in DOMAIN cas : cas[a].keyId = cas[b].keyId => a = b
    /\ \A s, t \in DOMAIN certificates :
         certificates[s].keyId = certificates[t].keyId /\ certificates[s].keyId # NULL
           => s = t
    /\ \A a \in DOMAIN cas, s \in DOMAIN certificates :
         cas[a].keyId # certificates[s].keyId

(* No certificate is below a CA of the wrong level or outlasts its issuer, *)
(* however the clock was set and whichever requests ran between the check  *)
(* of the parent and the insert.                                           *)
WithinIssuer ==
    /\ \A s \in DOMAIN certificates :
         LET ca == certificates[s].ca
         IN /\ ca \in DOMAIN cas
            /\ cas[ca].parent # NULL
            /\ certificates[s].cert.notAfter <= cas[ca].cert.notAfter
    /\ \A ca \in DOMAIN cas :
         LET parent == cas[ca].parent
         IN parent # NULL =>
              /\ parent \in DOMAIN cas
              /\ cas[parent].parent = NULL
              /\ cas[ca].cert.notAfter <= cas[parent].cert.notAfter

(* Every recorded certificate has the chain that path validation wants:    *)
(* leaf, intermediate and root are within each other's limits, and each is *)
(* signed with the key that the next one certifies, although the key is    *)
(* read from its file long after the parent was read from its row.         *)
ChainHolds ==
    /\ WithinIssuer
    /\ \A s \in DOMAIN certificates :
         certificates[s].cert.signedBy = cas[certificates[s].ca].cert.subject
    /\ \A ca \in DOMAIN cas :
         LET issuer == IF cas[ca].parent = NULL THEN ca ELSE cas[ca].parent
         IN cas[ca].cert.signedBy = cas[issuer].cert.subject

(* A private key has one home: what a response disclosed is in no key file *)
(* (so no CA key is ever disclosed), the key of a CSR is in none, and no   *)
(* two files hold the same key.                                            *)
KeyHasOneHome ==
    /\ \A k \in DOMAIN files : files[k].pair \notin disclosed \cup CSRKeys
    /\ \A k, l \in DOMAIN files : files[k].pair = files[l].pair => k = l
    /\ disclosed \cap CSRKeys = {}

(* A CA, or a stored key, that a client was told was created has its key  *)
(* for good, whole: whatever fails later, whichever inserts are done and   *)
(* yet reported as cancelled, and however their clean-up races.            *)
CreatedHasItsKey == \A c \in confirmed : Keeps(c.keyId, c.pair)
=============================================================================
