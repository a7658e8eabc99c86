--------------------------- MODULE IssuanceProofs ---------------------------
(***************************************************************************)
(* Proofs, for any number of requests, identifiers and keys, any clock and *)
(* any limits of validity, that Issuance keeps its invariant, and the      *)
(* safety properties that follow from it.                                  *)
(***************************************************************************)
EXTENDS Issuance, TLAPS

-----------------------------------------------------------------------------
(* The invariant *)

(* The steps after the lookup of the issuer, and after the clock was read. *)
HasIssuer == {"now", "load", "generate", "create_file", "write_file", "serial", "insert",
              "chain"}

Dated == HasIssuer \ {"now"}

(* The order of CreateCA: the key is made and stored before the key of the *)
(* parent is loaded.                                                       *)
CreateFlow(r) ==
    /\ arg[r] \in CreateArgs
    /\ pc[r] \in Steps \ {"get_ca", "chain"}
    /\ pc[r] \in {"get_parent", "load"} => arg[r].parent # NULL
    /\ pc[r] \in {"get_parent", "now", "generate"} =>
         local[r].pair = NULL /\ local[r].keyId = NULL
    /\ pc[r] \in {"create_file", "write_file", "serial", "load", "insert", "delete"} =>
         local[r].pair # NULL /\ local[r].pair \notin CSRKeys
    /\ pc[r] = "create_file" => local[r].keyId = NULL
    /\ pc[r] \in {"write_file", "serial", "load", "insert", "delete"} => local[r].keyId # NULL
    /\ pc[r] \in {"get_parent", "now", "generate", "create_file", "write_file", "serial", "load"} =>
         local[r].signer = NULL
    /\ pc[r] = "insert" => local[r].signer # NULL

(* The order of IssueCertificate: the key of the CA is loaded first.       *)
IssueFlow(r) ==
    /\ arg[r] \in IssueArgs
    /\ pc[r] \in Steps \ {"get_parent", "serial"}
    /\ pc[r] # "done" => CSRAllowed(arg[r])
    /\ pc[r] \in {"get_ca", "now", "load", "generate"} =>
         local[r].pair = NULL /\ local[r].keyId = NULL
    /\ pc[r] \in {"get_ca", "now", "load"} => local[r].signer = NULL
    /\ pc[r] \in {"create_file", "write_file", "insert", "delete", "chain"} =>
         /\ local[r].pair # NULL
         /\ local[r].pair \in CSRKeys <=> arg[r].csr # NULL
         /\ pc[r] \notin {"insert", "chain"} => arg[r].storeKey
         /\ arg[r].storeKey <=> (pc[r] = "create_file" \/ local[r].keyId # NULL)
    /\ pc[r] = "create_file" => local[r].keyId = NULL
    /\ pc[r] \in {"generate", "create_file", "write_file", "insert", "chain"} =>
         local[r].signer # NULL

(* Every request is at a step of what its body asks for. *)
FlowInv ==
    \A r \in Requests :
        IF pc[r] = "idle" THEN local[r] = NoLocals ELSE CreateFlow(r) \/ IssueFlow(r)

(* What a request has read of its issuer is still in the table, and the    *)
(* validity it settled on is within the issuer's.                          *)
ReadIssuer(r) ==
    /\ pc[r] \in HasIssuer /\ Creates(r) =>
         IF arg[r].parent = NULL THEN local[r].issuer = NULL
         ELSE /\ arg[r].parent \in DOMAIN cas
              /\ local[r].issuer = cas[arg[r].parent]
              /\ local[r].issuer.parent = NULL
    /\ pc[r] \in HasIssuer /\ ~Creates(r) =>
         /\ arg[r].ca \in DOMAIN cas
         /\ local[r].issuer = cas[arg[r].ca]
         /\ local[r].issuer.parent # NULL
    /\ pc[r] \in Dated /\ local[r].issuer # NULL =>
         local[r].notAfter <= local[r].issuer.cert.notAfter

IssuerInv == \A r \in Requests : ReadIssuer(r)

(* The request has a key pair of its own, which is disclosed to nobody and *)
(* in no file, except in the one that the request created for it.          *)
HasPair(r) == pc[r] # "done" /\ local[r].pair # NULL /\ local[r].pair \notin CSRKeys

PairInv ==
    /\ KeyHasOneHome
    /\ \A k \in DOMAIN files : files[k].pair \in 1 .. generated
    /\ disclosed \subseteq 1 .. generated
    /\ \A r \in Requests : HasPair(r) =>
         /\ local[r].pair \in 1 .. generated
         /\ local[r].pair \notin disclosed
         /\ \A k \in DOMAIN files : files[k].pair = local[r].pair => k = local[r].keyId
    /\ \A r, q \in Requests :
         HasPair(r) /\ HasPair(q) /\ local[r].pair = local[q].pair => r = q

(* A request that stored its key can count on the file until it answers,   *)
(* and nobody can give up or confirm this file before.                     *)
FileInv ==
    /\ \A r \in Requests : pc[r] # "done" /\ local[r].keyId # NULL =>
         /\ local[r].keyId \in DOMAIN files
         /\ files[local[r].keyId].pair = local[r].pair
         /\ pc[r] # "write_file" => files[local[r].keyId].whole
    /\ abandoned \subseteq DOMAIN files
    /\ \A r \in Requests : HoldsKey(r) => local[r].keyId \notin abandoned
    /\ CreatedHasItsKey
    /\ \A r \in Requests, c \in confirmed : HoldsKey(r) => local[r].keyId # c.keyId

(* The rows and the files, if no insert is done and yet reported as        *)
(* cancelled: no row names the file of a request that is under way.        *)
RowInv ==
    /\ EveryRowHasItsKey
    /\ OneRowPerKey
    /\ NoStrayKeys
    /\ \A r \in Requests : HoldsKey(r) => local[r].keyId \notin Named

(* Under the same condition the key that was loaded is the issuer's.       *)
SignerInv ==
    /\ ChainHolds
    /\ \A r \in Requests : pc[r] \in HasIssuer /\ local[r].signer # NULL =>
         local[r].signer = IF local[r].issuer = NULL THEN local[r].pair
                           ELSE local[r].issuer.cert.subject

IInv ==
    /\ TypeOK /\ FlowInv
    /\ IssuerInv /\ WithinIssuer
    /\ PairInv /\ FileInv
    /\ ~LateCancel => RowInv /\ SignerInv

-----------------------------------------------------------------------------
(* Maps *)

(* Writing an entry keeps a map of its type. *)
LEMMA PutIsMap ==
    ASSUME NEW S, NEW T, NEW f, IsMap(f, S, T), NEW k \in S, NEW v \in T
    PROVE  IsMap(Put(f, k, v), S, T)
  BY DEF IsMap, Put

(* So does deleting one. *)
LEMMA RemoveIsMap ==
    ASSUME NEW S, NEW T, NEW f, IsMap(f, S, T), NEW k
    PROVE  IsMap(Remove(f, k), S, T)
  BY DEF IsMap, Remove

-----------------------------------------------------------------------------
(* Types *)

(* One local variable is assigned; the others, and those of the other      *)
(* requests, stay.                                                         *)
LEMMA LocalSet ==
    ASSUME local \in [Requests -> Locals], NEW r \in Requests, NEW v
    PROVE  /\ local' = [local EXCEPT ![r].issuer = v] =>
                /\ \A q \in Requests \ {r} : local'[q] = local[q]
                /\ local'[r].issuer = v
                /\ local'[r].notAfter = local[r].notAfter /\ local'[r].pair = local[r].pair
                /\ local'[r].signer = local[r].signer /\ local'[r].keyId = local[r].keyId
                /\ v \in CARows \cup {NULL} => local' \in [Requests -> Locals]
           /\ local' = [local EXCEPT ![r].notAfter = v] =>
                /\ \A q \in Requests \ {r} : local'[q] = local[q]
                /\ local'[r].notAfter = v
                /\ local'[r].issuer = local[r].issuer /\ local'[r].pair = local[r].pair
                /\ local'[r].signer = local[r].signer /\ local'[r].keyId = local[r].keyId
                /\ v \in Int => local' \in [Requests -> Locals]
           /\ local' = [local EXCEPT ![r].pair = v] =>
                /\ \A q \in Requests \ {r} : local'[q] = local[q]
                /\ local'[r].pair = v
                /\ local'[r].issuer = local[r].issuer /\ local'[r].notAfter = local[r].notAfter
                /\ local'[r].signer = local[r].signer /\ local'[r].keyId = local[r].keyId
                /\ v \in Pairs => local' \in [Requests -> Locals]
           /\ local' = [local EXCEPT ![r].signer = v] =>
                /\ \A q \in Requests \ {r} : local'[q] = local[q]
                /\ local'[r].signer = v
                /\ local'[r].issuer = local[r].issuer /\ local'[r].notAfter = local[r].notAfter
                /\ local'[r].pair = local[r].pair /\ local'[r].keyId = local[r].keyId
                /\ v \in Pairs => local' \in [Requests -> Locals]
           /\ local' = [local EXCEPT ![r].keyId = v] =>
                /\ \A q \in Requests \ {r} : local'[q] = local[q]
                /\ local'[r].keyId = v
                /\ local'[r].issuer = local[r].issuer /\ local'[r].notAfter = local[r].notAfter
                /\ local'[r].pair = local[r].pair /\ local'[r].signer = local[r].signer
                /\ v \in KeyIds => local' \in [Requests -> Locals]
  BY DEF Locals

(* The local variables of a request have their types. *)
LEMMA LocalType ==
    ASSUME TypeOK, NEW r \in Requests
    PROVE  /\ local[r].issuer \in CARows \cup {NULL}
           /\ local[r].notAfter \in Int
           /\ local[r].pair \in Pairs \cup {NULL}
           /\ local[r].signer \in Pairs \cup {NULL}
           /\ local[r].keyId \in KeyIds \cup {NULL}
  BY DEF TypeOK, Locals

(* The body of a request tells the operation it is for. *)
LEMMA BodyType ==
    ASSUME NEW b
    PROVE  /\ b \in CreateArgs =>
                /\ b.op = "create"
                /\ b.parent \in CAIds \cup {NULL} /\ b.days \in Int
                /\ b.pass \in Passphrases /\ b.parentPass \in Passphrases
           /\ b \in IssueArgs =>
                /\ b.op = "issue"
                /\ b.ca \in CAIds /\ b.csr \in CSRKeys \cup {NULL} /\ b.storeKey \in BOOLEAN
                /\ b.days \in Int /\ b.pass \in Passphrases
  BY DEF CreateArgs, IssueArgs

(* Every request under way has a body of the one or the other kind. *)
LEMMA FlowOf ==
    ASSUME IInv, NEW r \in Requests, pc[r] # "idle"
    PROVE  /\ Creates(r) => CreateFlow(r) /\ arg[r] \in CreateArgs
           /\ ~Creates(r) => IssueFlow(r) /\ arg[r] \in IssueArgs
  BY BodyType DEF IInv, FlowInv, Creates, CreateFlow, IssueFlow

(* What is inserted has the type of a row. *)
LEMMA NewRowTypes ==
    ASSUME IInv, NEW r \in Requests, pc[r] = "insert"
    PROVE  /\ NewCertificate(r) \in Certificates
           /\ Creates(r) => NewCA(r) \in CARows /\ arg[r] \in CreateArgs
           /\ ~Creates(r) => NewRow(r) \in CertificateRows /\ arg[r] \in IssueArgs
<1>1. NewCertificate(r) \in Certificates
  BY FlowOf, LocalType DEF IInv, NewCertificate, Certificates, CreateFlow, IssueFlow
<1>2. ASSUME Creates(r) PROVE NewCA(r) \in CARows /\ arg[r] \in CreateArgs
  <2>1. local[r].keyId \in KeyIds /\ arg[r] \in CreateArgs
    BY <1>2, FlowOf, LocalType DEF IInv, CreateFlow
  <2>2. arg[r].parent \in CAIds \cup {NULL}
    BY <2>1, BodyType
  <2> QED BY <1>1, <2>1, <2>2 DEF NewCA, CARows
<1>3. ASSUME ~Creates(r) PROVE NewRow(r) \in CertificateRows /\ arg[r] \in IssueArgs
  <2>1. local[r].keyId \in KeyIds \cup {NULL} /\ arg[r] \in IssueArgs
    BY <1>3, FlowOf, LocalType DEF IInv
  <2>2. arg[r].ca \in CAIds
    BY <2>1, BodyType
  <2> QED BY <1>1, <2>1, <2>2 DEF NewRow, CertificateRows
<1> QED BY <1>1, <1>2, <1>3

(* The days that are asked for or given by default are an integer. *)
LEMMA DaysType ==
    ASSUME IInv, NEW r \in Requests, pc[r] # "idle"
    PROVE  ResolveDays(r) \in Int
<1>1. arg[r].days \in Int
  BY FlowOf, BodyType
<1> QED BY <1>1, IssuanceBounds DEF ResolveDays

(* The type invariant is preserved, given the rest of the invariant. *)
LEMMA TypeStep == IInv /\ [Next]_vars => TypeOK'
<1> SUFFICES ASSUME IInv, [Next]_vars PROVE TypeOK'
  OBVIOUS
<1>0. TypeOK
  BY DEF IInv
<1> USE DEF disk, Goto, Answer, Abort, Steps, Statuses
<1>1. ASSUME NEW r \in Requests, Client(r) PROVE TypeOK'
  <2>1. ASSUME NEW body \in CreateRequests, CallCreateCA(r, body) PROVE TypeOK'
    BY <1>0, <2>1, RequestBodies DEF TypeOK, CallCreateCA
  <2>2. ASSUME NEW body \in IssueRequests, CallIssue(r, body) PROVE TypeOK'
    BY <1>0, <2>2, RequestBodies DEF TypeOK, CallIssue
  <2>3. CASE Return(r)
    <3>1. NoLocals \in Locals
      BY DEF NoLocals, Locals
    <3> QED BY <1>0, <2>3, <3>1 DEF TypeOK, Return
  <2> QED BY <1>1, <2>1, <2>2, <2>3 DEF Client
<1>2. ASSUME NEW r \in Requests, Step(r) PROVE TypeOK'
  <2>1. CASE GetParent(r)
    <3>1. arg[r].parent \in DOMAIN cas => cas[arg[r].parent] \in CARows
      BY <1>0 DEF TypeOK, IsMap
    <3>2. local' \in [Requests -> Locals]
      BY <1>0, <2>1, <3>1, LocalSet DEF TypeOK, GetParent
    <3> QED BY <1>0, <2>1, <3>2 DEF TypeOK, GetParent
  <2>2. CASE GetCA(r)
    <3>1. arg[r].ca \in DOMAIN cas => cas[arg[r].ca] \in CARows
      BY <1>0 DEF TypeOK, IsMap
    <3>2. local' \in [Requests -> Locals]
      BY <1>0, <2>2, <3>1, LocalSet DEF TypeOK, GetCA
    <3> QED BY <1>0, <2>2, <3>2 DEF TypeOK, GetCA
  <2>3. CASE Now(r)
    <3>1. clock + ResolveDays(r) \in Int
      BY <1>0, <2>3, DaysType, IssuanceBounds DEF TypeOK, Now
    <3>2. local' \in [Requests -> Locals]
      BY <1>0, <2>3, <3>1, LocalSet DEF TypeOK, Now
    <3> QED BY <1>0, <2>3, <3>2 DEF TypeOK, Now
  <2>4. CASE Load(r)
    <3>1. \A k \in DOMAIN files : files[k].pair \in Pairs
      BY <1>0 DEF TypeOK, IsMap, SealedKeys
    <3>2. local' \in [Requests -> Locals]
      BY <1>0, <2>4, <3>1, LocalSet DEF TypeOK, Load, Unsealed
    <3> QED BY <1>0, <2>4, <3>2 DEF TypeOK, Load
  <2>5. CASE Generate(r)
    <3>1. CASE Creates(r) \/ arg[r].csr = NULL
      <4>1. generated + 1 \in 1 .. MaxKeys /\ generated + 1 \in 0 .. MaxKeys
        BY <1>0, <2>5, <3>1, IssuanceBounds DEF TypeOK, Generate
      <4>2. local' \in [Requests -> Locals]
        BY <1>0, <2>5, <3>1, <4>1, LocalSet DEF TypeOK, Generate, Pairs
      <4> QED BY <1>0, <2>5, <3>1, <4>1, <4>2 DEF TypeOK, Generate
    <3>2. CASE ~(Creates(r) \/ arg[r].csr = NULL)
      <4>1. arg[r].csr \in Pairs
        BY <2>5, <3>2, FlowOf, BodyType DEF Generate, Pairs
      <4>2. local' \in [Requests -> Locals]
        BY <1>0, <2>5, <3>2, <4>1, LocalSet DEF TypeOK, Generate
      <4> QED BY <1>0, <2>5, <3>2, <4>2 DEF TypeOK, Generate
    <3> QED BY <3>1, <3>2
  <2>6. ASSUME NEW k \in KeyIds, CreateKeyFile(r, k) PROVE TypeOK'
    <3>1. [pair |-> local[r].pair, pass |-> arg[r].pass, whole |-> FALSE] \in SealedKeys
      BY <1>0, <2>6, FlowOf, BodyType, LocalType
      DEF CreateKeyFile, SealedKeys, CreateFlow, IssueFlow
    <3>2. IsMap(files', KeyIds, SealedKeys)
      BY <1>0, <2>6, <3>1, PutIsMap DEF TypeOK, CreateKeyFile
    <3>3. local' \in [Requests -> Locals]
      BY <1>0, <2>6, LocalSet DEF TypeOK, CreateKeyFile
    <3> QED BY <1>0, <2>6, <3>2, <3>3 DEF TypeOK, CreateKeyFile
  <2>7. CASE WriteKeyFile(r)
    <3>1. IsMap(files', KeyIds, SealedKeys)
      BY <1>0, <2>7 DEF TypeOK, WriteKeyFile, IsMap, SealedKeys
    <3> QED BY <1>0, <2>7, <3>1 DEF TypeOK, WriteKeyFile
  <2>8. CASE GenerateSerialNumber(r)
    <3>1. local[r].pair \in Pairs
      BY <1>0, <2>8, FlowOf, LocalType DEF GenerateSerialNumber, CreateFlow, IssueFlow
    <3>2. local' \in [Requests -> Locals]
      BY <1>0, <2>8, <3>1, LocalSet DEF TypeOK, GenerateSerialNumber
    <3> QED BY <1>0, <2>8, <3>2 DEF TypeOK, GenerateSerialNumber
  <2>9. CASE DeleteKeyFile(r)
    <3>1. IsMap(files', KeyIds, SealedKeys)
      BY <1>0, <2>9, RemoveIsMap DEF TypeOK, DeleteKeyFile
    <3> QED BY <1>0, <2>9, <3>1 DEF TypeOK, DeleteKeyFile
  <2>10. CASE DeleteFails(r)
    <3>1. local[r].keyId \in KeyIds
      BY <1>0, <2>10, FlowOf, LocalType DEF DeleteFails, CreateFlow, IssueFlow
    <3> QED BY <1>0, <2>10, <3>1 DEF TypeOK, DeleteFails
  <2>11. ASSUME Confirm(r), local[r].pair # NULL
         PROVE  confirmed' \subseteq [keyId : KeyIds, pair : Pairs]
    BY <1>0, <2>11, LocalType DEF Confirm, TypeOK
  <2>12. ASSUME NEW id \in CAIds, InsertCA(r, id) \/ InsertCACancelled(r, id) PROVE TypeOK'
    <3>1. IsMap(cas', CAIds, CARows)
      BY <1>0, <2>12, NewRowTypes, PutIsMap DEF TypeOK, InsertCA, InsertCACancelled
    <3>2. local[r].pair # NULL
      BY <2>12, FlowOf DEF InsertCA, InsertCACancelled, CreateFlow
    <3>3. confirmed' \subseteq [keyId : KeyIds, pair : Pairs]
      BY <1>0, <2>11, <2>12, <3>2 DEF TypeOK, InsertCA, InsertCACancelled
    <3> QED BY <1>0, <2>12, <3>1, <3>3 DEF TypeOK, InsertCA, InsertCACancelled
  <2>13. ASSUME NEW s \in Serials, InsertCertificate(r, s) \/ InsertCertificateCancelled(r, s)
         PROVE  TypeOK'
    <3>1. IsMap(certificates', Serials, CertificateRows)
      BY <1>0, <2>13, NewRowTypes, PutIsMap
      DEF TypeOK, InsertCertificate, InsertCertificateCancelled
    <3> QED BY <1>0, <2>13, <3>1 DEF TypeOK, InsertCertificate, InsertCertificateCancelled
  <2>14. CASE AssembleChain(r)
    <3>1. local[r].pair \in Pairs
      BY <1>0, <2>14, FlowOf, LocalType DEF AssembleChain, CreateFlow, IssueFlow
    <3>2. local[r].pair # NULL
      BY <2>14, FlowOf DEF AssembleChain, CreateFlow, IssueFlow
    <3>3. confirmed' \subseteq [keyId : KeyIds, pair : Pairs]
      BY <1>0, <2>11, <2>14, <3>2 DEF TypeOK, AssembleChain
    <3> QED BY <1>0, <2>14, <3>1, <3>3 DEF TypeOK, AssembleChain
  <2> QED
    BY <1>2, <2>1, <2>2, <2>3, <2>4, <2>5, <2>6, <2>7, <2>8, <2>9, <2>10, <2>12, <2>13, <2>14
    DEF Step
<1>3. ASSUME NEW r \in Requests, Fails(r) PROVE TypeOK'
  <2>1. pc[r] \in {"write_file", "serial"} => local[r].keyId \in KeyIds
    BY <1>0, FlowOf, LocalType DEF CreateFlow, IssueFlow
  <2> QED BY <1>0, <1>3, <2>1 DEF TypeOK, Fails
<1>4. CASE SetClock
  BY <1>0, <1>4 DEF TypeOK, SetClock
<1>5. CASE Restart
  <2>1. NoLocals \in Locals
    BY DEF NoLocals, Locals
  <2>2. \A r \in Requests : HoldsKey(r) => local[r].keyId \in KeyIds
    BY <1>0, LocalType DEF HoldsKey
  <2> QED BY <1>0, <1>5, <2>1, <2>2 DEF TypeOK, Restart
<1>6. CASE UNCHANGED vars
  BY <1>0, <1>6 DEF TypeOK, vars
<1> QED BY <1>1, <1>2, <1>3, <1>4, <1>5, <1>6 DEF Next

-----------------------------------------------------------------------------
(* The order of the steps *)

(* Only the request that takes the step has to be looked at. *)
LEMMA FlowKept ==
    ASSUME IInv, NEW r \in Requests,
           \A q \in Requests \ {r} : pc'[q] = pc[q] /\ arg'[q] = arg[q] /\ local'[q] = local[q],
           IF pc'[r] = "idle" THEN local'[r] = NoLocals ELSE CreateFlow(r)' \/ IssueFlow(r)'
    PROVE  FlowInv'
<1>1. ASSUME NEW q \in Requests \ {r}
      PROVE  IF pc'[q] = "idle" THEN local'[q] = NoLocals ELSE CreateFlow(q)' \/ IssueFlow(q)'
  BY DEF IInv, FlowInv, CreateFlow, IssueFlow
<1> QED BY <1>1 DEF FlowInv

(* A request that fails is done, or deletes the file of a key it stored. *)
LEMMA AbortFlow ==
    ASSUME IInv, NEW r \in Requests, NEW status, Abort(r, status), UNCHANGED <<arg, local>>,
           pc[r] \notin {"idle", "delete", "done"}
    PROVE  FlowInv'
<1>0. TypeOK /\ FlowInv
  BY DEF IInv
<1>1. pc' = [pc EXCEPT ![r] = IF Undone(r) THEN "delete" ELSE "done"]
  BY DEF Abort, Goto
<1>2. CASE Creates(r)
  <2>1. CreateFlow(r)'
    BY <1>0, <1>1, <1>2, FlowOf DEF CreateFlow, Undone, TypeOK, Steps
  <2> QED BY <1>0, <1>1, <2>1, FlowKept DEF TypeOK
<1>3. CASE ~Creates(r)
  <2>1. IssueFlow(r)'
    BY <1>0, <1>1, <1>3, FlowOf DEF IssueFlow, Undone, TypeOK, Steps
  <2> QED BY <1>0, <1>1, <2>1, FlowKept DEF TypeOK
<1> QED BY <1>2, <1>3

(* So is one that is answered. *)
LEMMA AnswerFlow ==
    ASSUME IInv, NEW r \in Requests, pc' = [pc EXCEPT ![r] = "done"], UNCHANGED <<arg, local>>,
           pc[r] # "idle"
    PROVE  FlowInv'
<1>0. TypeOK /\ FlowInv
  BY DEF IInv
<1>1. CASE Creates(r)
  <2>1. CreateFlow(r)'
    BY <1>0, <1>1, FlowOf DEF CreateFlow, TypeOK, Steps
  <2> QED BY <1>0, <2>1, FlowKept DEF TypeOK
<1>2. CASE ~Creates(r)
  <2>1. IssueFlow(r)'
    BY <1>0, <1>2, FlowOf DEF IssueFlow, TypeOK, Steps
  <2> QED BY <1>0, <2>1, FlowKept DEF TypeOK
<1> QED BY <1>1, <1>2

(* Every step leads to a step of the same operation, with what that step   *)
(* needs.                                                                  *)
LEMMA FlowStep == IInv /\ [Next]_vars => FlowInv'
<1> SUFFICES ASSUME IInv, [Next]_vars PROVE FlowInv'
  OBVIOUS
<1>0. TypeOK /\ FlowInv
  BY DEF IInv
<1> USE DEF disk, Goto, Answer, Steps
<1>1. ASSUME NEW r \in Requests, Client(r) PROVE FlowInv'
  <2>1. ASSUME NEW body \in CreateRequests, CallCreateCA(r, body) PROVE FlowInv'
    <3>1. body \in CreateArgs
      BY RequestBodies
    <3>2. local[r] = NoLocals /\ UNCHANGED local /\ arg'[r] = body
            /\ pc'[r] \in {"done", "now", "get_parent"}
            /\ (pc'[r] = "get_parent" => body.parent # NULL)
      BY <1>0, <2>1 DEF TypeOK, FlowInv, CallCreateCA
    <3>3. CreateFlow(r)'
      BY <3>1, <3>2 DEF CreateFlow, NoLocals
    <3> QED BY <1>0, <2>1, <3>2, <3>3, FlowKept DEF TypeOK, CallCreateCA
  <2>2. ASSUME NEW body \in IssueRequests, CallIssue(r, body) PROVE FlowInv'
    <3>1. body \in IssueArgs
      BY RequestBodies
    <3>2. local[r] = NoLocals /\ UNCHANGED local /\ arg'[r] = body
            /\ pc'[r] \in {"done", "get_ca"}
            /\ (pc'[r] = "get_ca" => CSRAllowed(body))
      BY <1>0, <2>2 DEF TypeOK, FlowInv, CallIssue
    <3>3. IssueFlow(r)'
      BY <3>1, <3>2 DEF IssueFlow, NoLocals, CSRAllowed
    <3> QED BY <1>0, <2>2, <3>2, <3>3, FlowKept DEF TypeOK, CallIssue
  <2>3. CASE Return(r)
    BY <1>0, <2>3, FlowKept DEF TypeOK, Return
  <2> QED BY <1>1, <2>1, <2>2, <2>3 DEF Client
<1>2. ASSUME NEW r \in Requests, Step(r) PROVE FlowInv'
  <2>1. CASE GetParent(r)
    <3>1. CASE UNCHANGED local /\ pc' = [pc EXCEPT ![r] = "done"]
      BY <1>0, <2>1, <3>1, AnswerFlow DEF TypeOK, GetParent
    <3>2. CASE local' = [local EXCEPT ![r].issuer = cas[arg[r].parent]] /\ pc' = [pc EXCEPT ![r] = "now"]
      <4>1. CreateFlow(r)
        BY <1>0, <2>1, FlowOf DEF GetParent, IssueFlow
      <4>2. CreateFlow(r)'
        BY <1>0, <2>1, <3>2, <4>1, LocalSet DEF TypeOK, CreateFlow, GetParent
      <4> QED BY <1>0, <2>1, <3>2, <4>2, LocalSet, FlowKept DEF TypeOK, GetParent
    <3> QED BY <2>1, <3>1, <3>2 DEF GetParent
  <2>2. CASE GetCA(r)
    <3>1. CASE UNCHANGED local /\ pc' = [pc EXCEPT ![r] = "done"]
      BY <1>0, <2>2, <3>1, AnswerFlow DEF TypeOK, GetCA
    <3>2. CASE local' = [local EXCEPT ![r].issuer = cas[arg[r].ca]] /\ pc' = [pc EXCEPT ![r] = "now"]
      <4>1. IssueFlow(r)
        BY <1>0, <2>2, FlowOf DEF GetCA, CreateFlow
      <4>2. IssueFlow(r)'
        BY <1>0, <2>2, <3>2, <4>1, LocalSet DEF TypeOK, IssueFlow, GetCA
      <4> QED BY <1>0, <2>2, <3>2, <4>2, LocalSet, FlowKept DEF TypeOK, GetCA
    <3> QED BY <2>2, <3>1, <3>2 DEF GetCA
  <2>3. CASE Now(r)
    <3>1. CASE UNCHANGED local /\ pc' = [pc EXCEPT ![r] = "done"]
      BY <1>0, <2>3, <3>1, AnswerFlow DEF TypeOK, Now
    <3>2. CASE /\ local' = [local EXCEPT ![r].notAfter = clock + ResolveDays(r)]
               /\ pc' = [pc EXCEPT ![r] = IF Creates(r) THEN "generate" ELSE "load"]
      <4>1. CreateFlow(r)' \/ IssueFlow(r)'
        BY <1>0, <2>3, <3>2, FlowOf, LocalSet DEF TypeOK, CreateFlow, IssueFlow, Now
      <4> QED BY <1>0, <2>3, <3>2, <4>1, LocalSet, FlowKept DEF TypeOK, Now
    <3> QED BY <2>3, <3>1, <3>2 DEF Now
  <2>4. CASE Load(r)
    <3>1. CASE UNCHANGED local /\ \E status : Abort(r, status)
      BY <1>0, <2>4, <3>1, AbortFlow DEF TypeOK, Load
    <3>2. CASE /\ Unsealed(local[r].issuer.keyId, IF Creates(r) THEN arg[r].parentPass ELSE arg[r].pass)
               /\ local' = [local EXCEPT ![r].signer = files[local[r].issuer.keyId].pair]
               /\ pc' = [pc EXCEPT ![r] = IF Creates(r) THEN "insert" ELSE "generate"]
      <4>1. files[local[r].issuer.keyId].pair # NULL
        BY <1>0, <3>2, NullIsNoValue DEF TypeOK, IsMap, SealedKeys, Unsealed
      <4>2. CreateFlow(r)' \/ IssueFlow(r)'
        BY <1>0, <2>4, <3>2, <4>1, FlowOf, LocalSet DEF TypeOK, CreateFlow, IssueFlow, Load
      <4> QED BY <1>0, <2>4, <3>2, <4>2, LocalSet, FlowKept DEF TypeOK, Load
    <3> QED BY <2>4, <3>1, <3>2 DEF Load
  <2>5. CASE Generate(r)
    <3>1. PICK v : local' = [local EXCEPT ![r].pair = v]
                     /\ v = IF Creates(r) \/ arg[r].csr = NULL THEN generated + 1 ELSE arg[r].csr
      BY <2>5 DEF Generate
    <3>2. v \in Pairs /\ (v \in CSRKeys <=> ~Creates(r) /\ arg[r].csr # NULL)
      <4>1. CASE Creates(r) \/ arg[r].csr = NULL
        <5>1. v \in 1 .. MaxKeys
          BY <1>0, <2>5, <3>1, <4>1, IssuanceBounds DEF TypeOK, Generate
        <5> QED BY <4>1, <5>1, ClientKeysDiffer DEF Pairs
      <4>2. CASE ~(Creates(r) \/ arg[r].csr = NULL)
        <5>1. arg[r].csr \in CSRKeys
          BY <2>5, <4>2, FlowOf, BodyType DEF Generate
        <5> QED BY <3>1, <4>2, <5>1 DEF Pairs
      <4> QED BY <4>1, <4>2
    <3>3. v # NULL
      BY <3>2, NullIsNoValue
    <3>4. /\ pc' = [pc EXCEPT ![r] = IF Creates(r) \/ arg[r].storeKey THEN "create_file" ELSE "insert"]
          /\ UNCHANGED arg
      BY <2>5 DEF Generate
    <3>5. /\ local'[r].pair = v /\ local'[r].signer = local[r].signer
          /\ local'[r].keyId = local[r].keyId
          /\ \A q \in Requests \ {r} : local'[q] = local[q]
      BY <1>0, <3>1, LocalSet DEF TypeOK
    <3>6. CASE Creates(r)
      <4>1. CreateFlow(r)'
        BY <1>0, <2>5, <3>2, <3>3, <3>4, <3>5, <3>6, FlowOf DEF TypeOK, CreateFlow, Generate
      <4> QED BY <1>0, <3>4, <3>5, <4>1, FlowKept DEF TypeOK
    <3>7. CASE ~Creates(r)
      <4>1. IssueFlow(r)'
        BY <1>0, <2>5, <3>2, <3>3, <3>4, <3>5, <3>7, FlowOf, BodyType
        DEF TypeOK, IssueFlow, Generate
      <4> QED BY <1>0, <3>4, <3>5, <4>1, FlowKept DEF TypeOK
    <3> QED BY <3>6, <3>7
  <2>6. ASSUME NEW k \in KeyIds, CreateKeyFile(r, k) PROVE FlowInv'
    <3>1. CASE UNCHANGED local /\ pc' = [pc EXCEPT ![r] = "done"]
      BY <1>0, <2>6, <3>1, AnswerFlow DEF TypeOK, CreateKeyFile
    <3>2. CASE local' = [local EXCEPT ![r].keyId = k] /\ pc' = [pc EXCEPT ![r] = "write_file"]
      <4>1. k # NULL /\ pc[r] = "create_file" /\ UNCHANGED arg /\ pc'[r] = "write_file"
        BY <1>0, <2>6, <3>2, NullIsNoValue DEF TypeOK, CreateKeyFile
      <4>2. /\ local'[r].keyId = k
            /\ local'[r].pair = local[r].pair /\ local'[r].signer = local[r].signer
            /\ \A q \in Requests \ {r} : local'[q] = local[q]
        BY <1>0, <3>2, LocalSet DEF TypeOK
      <4>3. CreateFlow(r) => CreateFlow(r)'
        BY <4>1, <4>2 DEF CreateFlow
      <4>4. IssueFlow(r) => IssueFlow(r)'
        BY <4>1, <4>2 DEF IssueFlow, CSRAllowed
      <4> QED BY <1>0, <3>2, <4>1, <4>2, <4>3, <4>4, FlowOf, FlowKept DEF TypeOK
    <3> QED BY <2>6, <3>1, <3>2 DEF CreateKeyFile
  <2>7. CASE WriteKeyFile(r)
    <3>1. CreateFlow(r)' \/ IssueFlow(r)'
      BY <1>0, <2>7, FlowOf DEF TypeOK, CreateFlow, IssueFlow, WriteKeyFile
    <3> QED BY <1>0, <2>7, <3>1, FlowKept DEF TypeOK, WriteKeyFile
  <2>8. CASE GenerateSerialNumber(r)
    <3>1. CreateFlow(r) /\ Creates(r)
      BY <2>8, FlowOf DEF GenerateSerialNumber, IssueFlow
    <3>2. CASE IsRoot(r)
      <4>1. local' = [local EXCEPT ![r].signer = local[r].pair] /\ pc' = [pc EXCEPT ![r] = "insert"]
        BY <2>8, <3>2 DEF GenerateSerialNumber
      <4>2. CreateFlow(r)'
        BY <1>0, <2>8, <3>1, <4>1, LocalSet DEF TypeOK, CreateFlow, GenerateSerialNumber
      <4> QED BY <1>0, <2>8, <4>1, <4>2, LocalSet, FlowKept DEF TypeOK, GenerateSerialNumber
    <3>3. CASE ~IsRoot(r)
      <4>1. CreateFlow(r)'
        BY <1>0, <2>8, <3>1, <3>3 DEF TypeOK, CreateFlow, GenerateSerialNumber, IsRoot
      <4> QED BY <1>0, <2>8, <3>3, <4>1, FlowKept DEF TypeOK, GenerateSerialNumber
    <3> QED BY <3>2, <3>3
  <2>9. CASE DeleteKeyFile(r) \/ DeleteFails(r)
    BY <1>0, <2>9, AnswerFlow DEF TypeOK, DeleteKeyFile, DeleteFails
  <2>10. ASSUME NEW id \in CAIds, InsertCA(r, id) \/ InsertCACancelled(r, id) PROVE FlowInv'
    BY <1>0, <2>10, AnswerFlow, AbortFlow DEF TypeOK, InsertCA, InsertCACancelled
  <2>11. ASSUME NEW s \in Serials, InsertCertificate(r, s) \/ InsertCertificateCancelled(r, s)
         PROVE  FlowInv'
    <3>1. CASE \E status : Abort(r, status)
      BY <1>0, <2>11, <3>1, AbortFlow DEF TypeOK, InsertCertificate, InsertCertificateCancelled
    <3>2. CASE pc' = [pc EXCEPT ![r] = "chain"]
      <4>1. IssueFlow(r)'
        BY <1>0, <2>11, <3>2, FlowOf
        DEF TypeOK, IssueFlow, InsertCertificate, InsertCertificateCancelled
      <4> QED
        BY <1>0, <2>11, <3>2, <4>1, FlowKept
        DEF TypeOK, InsertCertificate, InsertCertificateCancelled
    <3> QED BY <2>11, <3>1, <3>2 DEF InsertCertificate, InsertCertificateCancelled
  <2>12. CASE AssembleChain(r)
    BY <1>0, <2>12, AnswerFlow DEF TypeOK, AssembleChain
  <2> QED
    BY <1>2, <2>1, <2>2, <2>3, <2>4, <2>5, <2>6, <2>7, <2>8, <2>9, <2>10, <2>11, <2>12
    DEF Step
<1>3. ASSUME NEW r \in Requests, Fails(r) PROVE FlowInv'
  BY <1>0, <1>3, AbortFlow DEF Fails
<1>4. CASE SetClock \/ UNCHANGED vars
  BY <1>0, <1>4 DEF FlowInv, CreateFlow, IssueFlow, SetClock, vars
<1>5. CASE Restart
  BY <1>5 DEF FlowInv, Restart
<1> QED BY <1>1, <1>2, <1>3, <1>4, <1>5 DEF Next

-----------------------------------------------------------------------------
(* Issuers *)

(* The two statements that change a table, whatever is reported of them. *)
AddsCA(r, id) ==
    /\ InsertCA(r, id) \/ InsertCACancelled(r, id)
    /\ pc[r] = "insert" /\ Creates(r)
    /\ id \notin DOMAIN cas
    /\ cas' = Put(cas, id, NewCA(r))
    /\ UNCHANGED <<files, certificates>>

AddsCertificate(r, s) ==
    /\ InsertCertificate(r, s) \/ InsertCertificateCancelled(r, s)
    /\ pc[r] = "insert" /\ ~Creates(r)
    /\ s \notin DOMAIN certificates
    /\ certificates' = Put(certificates, s, NewRow(r))
    /\ UNCHANGED <<files, cas>>

(* No other step changes a table. *)
LEMMA TablesStep ==
    ASSUME [Next]_vars
    PROVE  \/ UNCHANGED <<cas, certificates>>
           \/ \E r \in Requests, id \in CAIds : AddsCA(r, id)
           \/ \E r \in Requests, s \in Serials : AddsCertificate(r, s)
<1>1. ASSUME NEW r \in Requests, Client(r) \/ Fails(r) PROVE UNCHANGED <<cas, certificates>>
  BY <1>1 DEF Client, CallCreateCA, CallIssue, Return, Fails, disk
<1>2. ASSUME NEW r \in Requests, Step(r)
      PROVE  \/ UNCHANGED <<cas, certificates>>
             \/ \E id \in CAIds : AddsCA(r, id)
             \/ \E s \in Serials : AddsCertificate(r, s)
  <2>1. CASE GetParent(r) \/ GetCA(r) \/ Now(r) \/ Load(r) \/ Generate(r)
    BY <2>1 DEF GetParent, GetCA, Now, Load, Generate, disk
  <2>2. CASE \/ \E k \in KeyIds : CreateKeyFile(r, k)
             \/ WriteKeyFile(r) \/ GenerateSerialNumber(r) \/ DeleteKeyFile(r) \/ DeleteFails(r)
             \/ AssembleChain(r)
    BY <2>2
    DEF CreateKeyFile, WriteKeyFile, GenerateSerialNumber, DeleteKeyFile, DeleteFails,
        AssembleChain, disk
  <2>3. ASSUME NEW id \in CAIds, InsertCA(r, id) \/ InsertCACancelled(r, id)
        PROVE  UNCHANGED <<cas, certificates>> \/ AddsCA(r, id)
    BY <2>3 DEF InsertCA, InsertCACancelled, AddsCA
  <2>4. ASSUME NEW s \in Serials, InsertCertificate(r, s) \/ InsertCertificateCancelled(r, s)
        PROVE  UNCHANGED <<cas, certificates>> \/ AddsCertificate(r, s)
    BY <2>4 DEF InsertCertificate, InsertCertificateCancelled, AddsCertificate
  <2> QED BY <1>2, <2>1, <2>2, <2>3, <2>4 DEF Step
<1>3. CASE SetClock \/ Restart \/ UNCHANGED vars
  BY <1>3 DEF SetClock, Restart, vars, disk
<1> QED BY <1>1, <1>2, <1>3 DEF Next

(* What becomes of the tables. *)
LEMMA AddedRows ==
    ASSUME NEW r
    PROVE  /\ \A id : AddsCA(r, id) =>
                /\ DOMAIN cas' = DOMAIN cas \cup {id} /\ cas'[id] = NewCA(r)
                /\ \A ca \in DOMAIN cas : cas'[ca] = cas[ca]
           /\ \A s : AddsCertificate(r, s) =>
                /\ DOMAIN certificates' = DOMAIN certificates \cup {s}
                /\ certificates'[s] = NewRow(r)
                /\ \A t \in DOMAIN certificates : certificates'[t] = certificates[t]
  BY DEF AddsCA, AddsCertificate, Put

(* No step changes or removes a row of the table of CAs. *)
LEMMA CAsGrow ==
    ASSUME [Next]_vars
    PROVE  Extends(cas', cas)
<1>1. ASSUME NEW r \in Requests, NEW id \in CAIds, AddsCA(r, id) PROVE Extends(cas', cas)
  BY <1>1, AddedRows DEF Extends
<1>2. CASE UNCHANGED cas
  BY <1>2 DEF Extends
<1> QED BY <1>1, <1>2, TablesStep DEF AddsCertificate

(* A step of one request leaves the others where they are. *)
LEMMA OneMoves ==
    ASSUME IInv, NEW r \in Requests, Client(r) \/ Step(r) \/ Fails(r)
    PROVE  \A q \in Requests \ {r} :
             pc'[q] = pc[q] /\ arg'[q] = arg[q] /\ local'[q] = local[q]
<1>0. TypeOK
  BY DEF IInv
<1> USE DEF Goto, Answer, Abort
<1>1. CASE Client(r) \/ Fails(r)
  BY <1>0, <1>1 DEF TypeOK, Client, CallCreateCA, CallIssue, Return, Fails
<1>2. CASE GetParent(r) \/ GetCA(r) \/ Now(r) \/ Load(r) \/ Generate(r)
  BY <1>0, <1>2, LocalSet DEF TypeOK, GetParent, GetCA, Now, Load, Generate
<1>3. CASE \/ \E k \in KeyIds : CreateKeyFile(r, k)
           \/ WriteKeyFile(r) \/ GenerateSerialNumber(r) \/ DeleteKeyFile(r) \/ DeleteFails(r)
  BY <1>0, <1>3, LocalSet
  DEF TypeOK, CreateKeyFile, WriteKeyFile, GenerateSerialNumber, DeleteKeyFile, DeleteFails
<1>4. CASE \/ \E id \in CAIds : InsertCA(r, id) \/ InsertCACancelled(r, id)
           \/ \E s \in Serials : InsertCertificate(r, s) \/ InsertCertificateCancelled(r, s)
           \/ AssembleChain(r)
  BY <1>0, <1>4
  DEF TypeOK, InsertCA, InsertCACancelled, InsertCertificate, InsertCertificateCancelled,
      AssembleChain
<1> QED BY <1>1, <1>2, <1>3, <1>4 DEF Step

(* What was read stays true while the request goes on. *)
LEMMA ReadKept ==
    ASSUME IInv, Extends(cas', cas), NEW q \in Requests, arg'[q] = arg[q],
           local'[q].issuer = local[q].issuer, local'[q].notAfter = local[q].notAfter,
           pc'[q] \in HasIssuer => pc[q] \in HasIssuer,
           pc'[q] \in Dated => pc[q] \in Dated
    PROVE  ReadIssuer(q)'
  BY DEF IInv, IssuerInv, ReadIssuer, Extends, Creates

(* Every request keeps an issuer that is in the table, at the right level. *)
LEMMA IssuerStep == IInv /\ [Next]_vars => IssuerInv'
<1> SUFFICES ASSUME IInv, [Next]_vars PROVE IssuerInv'
  OBVIOUS
<1>0. TypeOK /\ IssuerInv /\ Extends(cas', cas)
  BY CAsGrow DEF IInv
<1> USE DEF Goto, Answer, HasIssuer, Dated
<1>1. ASSUME NEW r \in Requests, Client(r) \/ Step(r) \/ Fails(r), ReadIssuer(r)'
      PROVE  IssuerInv'
  <2>1. \A q \in Requests \ {r} : ReadIssuer(q)'
    BY <1>0, <1>1, OneMoves, ReadKept
  <2> QED BY <1>1, <2>1 DEF IssuerInv
<1>2. ASSUME NEW r \in Requests, Client(r) PROVE ReadIssuer(r)'
  <2>1. ASSUME NEW body \in CreateRequests, CallCreateCA(r, body) PROVE ReadIssuer(r)'
    <3>1. local'[r].issuer = NULL
      BY <2>1 DEF IInv, FlowInv, CallCreateCA, NoLocals
    <3>2. arg'[r] = body /\ pc'[r] \in {"done", "now", "get_parent"}
            /\ (pc'[r] = "now" => body.parent = NULL) /\ body.op = "create"
      BY <1>0, <2>1, RequestBodies, BodyType DEF TypeOK, CallCreateCA
    <3> QED BY <3>1, <3>2 DEF ReadIssuer, Creates
  <2>2. ASSUME NEW body \in IssueRequests, CallIssue(r, body) PROVE ReadIssuer(r)'
    BY <1>0, <2>2 DEF TypeOK, CallIssue, ReadIssuer
  <2>3. CASE Return(r)
    BY <1>0, <2>3 DEF TypeOK, Return, ReadIssuer
  <2> QED BY <1>2, <2>1, <2>2, <2>3 DEF Client
<1>3. ASSUME NEW r \in Requests, Step(r) PROVE ReadIssuer(r)'
  <2>1. CASE GetParent(r)
    <3>1. pc[r] = "get_parent" /\ UNCHANGED <<arg, cas>> /\ Creates(r) /\ arg[r].parent # NULL
      BY <2>1, FlowOf DEF GetParent, disk, CreateFlow, IssueFlow
    <3>2. CASE pc' = [pc EXCEPT ![r] = "done"]
      BY <1>0, <3>2 DEF TypeOK, ReadIssuer
    <3>3. CASE /\ pc' = [pc EXCEPT ![r] = "now"]
               /\ local' = [local EXCEPT ![r].issuer = cas[arg[r].parent]]
               /\ arg[r].parent \in DOMAIN cas /\ cas[arg[r].parent].parent = NULL
      <4>1. local'[r].issuer = cas[arg[r].parent] /\ pc'[r] = "now"
        BY <1>0, <3>3, LocalSet DEF TypeOK
      <4> QED BY <3>1, <3>3, <4>1 DEF ReadIssuer, Creates
    <3> QED BY <2>1, <3>2, <3>3 DEF GetParent
  <2>2. CASE GetCA(r)
    <3>1. pc[r] = "get_ca" /\ UNCHANGED <<arg, cas>> /\ ~Creates(r)
      BY <2>2, FlowOf DEF GetCA, disk, CreateFlow, IssueFlow
    <3>2. CASE pc' = [pc EXCEPT ![r] = "done"]
      BY <1>0, <3>2 DEF TypeOK, ReadIssuer
    <3>3. CASE /\ pc' = [pc EXCEPT ![r] = "now"]
               /\ local' = [local EXCEPT ![r].issuer = cas[arg[r].ca]]
               /\ arg[r].ca \in DOMAIN cas /\ cas[arg[r].ca].parent # NULL
      <4>1. local'[r].issuer = cas[arg[r].ca] /\ pc'[r] = "now"
        BY <1>0, <3>3, LocalSet DEF TypeOK
      <4> QED BY <3>1, <3>3, <4>1 DEF ReadIssuer, Creates
    <3> QED BY <2>2, <3>2, <3>3 DEF GetCA
  <2>3. CASE Now(r)
    <3>1. CASE pc' = [pc EXCEPT ![r] = "done"]
      BY <1>0, <3>1 DEF TypeOK, ReadIssuer
    <3>2. CASE /\ pc' = [pc EXCEPT ![r] = IF Creates(r) THEN "generate" ELSE "load"]
               /\ local' = [local EXCEPT ![r].notAfter = clock + ResolveDays(r)]
               /\ ~Outlasts(r)
      <4>1. /\ local'[r].issuer = local[r].issuer /\ local'[r].notAfter = clock + ResolveDays(r)
            /\ UNCHANGED <<arg, cas>> /\ pc[r] = "now" /\ pc'[r] \in Dated
        BY <1>0, <2>3, <3>2, LocalSet DEF TypeOK, Now, disk
      <4>2. clock + ResolveDays(r) \in Int
        BY <1>0, <2>3, DaysType, IssuanceBounds DEF TypeOK, Now
      <4>3. local[r].issuer # NULL => local[r].issuer.cert.notAfter \in Int
        BY <1>0, LocalType DEF CARows, Certificates
      <4>4. local[r].issuer # NULL => clock + ResolveDays(r) <= local[r].issuer.cert.notAfter
        BY <3>2, <4>2, <4>3 DEF Outlasts
      <4> QED BY <1>0, <4>1, <4>4 DEF IssuerInv, ReadIssuer, Creates
    <3> QED BY <2>3, <3>1, <3>2 DEF Now
  <2>4. CASE Load(r) \/ Generate(r)
    <3>1. UNCHANGED arg /\ pc[r] \in Dated
      BY <2>4 DEF Load, Generate
    <3>2. local'[r].issuer = local[r].issuer /\ local'[r].notAfter = local[r].notAfter
      <4>1. \/ UNCHANGED local
            \/ \E v : local' = [local EXCEPT ![r].signer = v]
            \/ \E v : local' = [local EXCEPT ![r].pair = v]
        BY <2>4 DEF Load, Generate
      <4> QED BY <1>0, <4>1, LocalSet DEF TypeOK
    <3> QED BY <1>0, <3>1, <3>2, ReadKept
  <2>5. ASSUME NEW k \in KeyIds, CreateKeyFile(r, k) PROVE ReadIssuer(r)'
    BY <1>0, <2>5, LocalSet, ReadKept DEF TypeOK, CreateKeyFile
  <2>6. CASE WriteKeyFile(r) \/ GenerateSerialNumber(r) \/ DeleteKeyFile(r) \/ DeleteFails(r)
    BY <1>0, <2>6, LocalSet, ReadKept
    DEF TypeOK, WriteKeyFile, GenerateSerialNumber, DeleteKeyFile, DeleteFails
  <2>7. ASSUME NEW id \in CAIds, InsertCA(r, id) \/ InsertCACancelled(r, id) PROVE ReadIssuer(r)'
    BY <1>0, <2>7, ReadKept DEF TypeOK, InsertCA, InsertCACancelled, Abort
  <2>8. ASSUME NEW s \in Serials, InsertCertificate(r, s) \/ InsertCertificateCancelled(r, s)
        PROVE  ReadIssuer(r)'
    BY <1>0, <2>8, ReadKept DEF TypeOK, InsertCertificate, InsertCertificateCancelled, Abort
  <2>9. CASE AssembleChain(r)
    BY <1>0, <2>9, ReadKept DEF TypeOK, AssembleChain
  <2> QED BY <1>3, <2>1, <2>2, <2>3, <2>4, <2>5, <2>6, <2>7, <2>8, <2>9 DEF Step
<1>4. ASSUME NEW r \in Requests, Fails(r) PROVE ReadIssuer(r)'
  BY <1>0, <1>4, ReadKept DEF TypeOK, Fails, Abort
<1>5. CASE SetClock \/ UNCHANGED vars
  BY <1>0, <1>5 DEF IssuerInv, ReadIssuer, Creates, SetClock, vars, disk
<1>6. CASE Restart
  BY <1>6 DEF IssuerInv, ReadIssuer, Restart
<1> QED BY <1>1, <1>2, <1>3, <1>4, <1>5, <1>6 DEF Next

(* Neither does a row outlast its issuer, nor is it at the wrong level.    *)
LEMMA WithinStep == IInv /\ [Next]_vars => WithinIssuer'
<1> SUFFICES ASSUME IInv, [Next]_vars PROVE WithinIssuer'
  OBVIOUS
<1>0. TypeOK /\ IssuerInv /\ WithinIssuer
  BY DEF IInv
<1>1. ASSUME NEW r \in Requests, NEW id \in CAIds, AddsCA(r, id) PROVE WithinIssuer'
  <2>1. pc[r] = "insert" /\ Creates(r) /\ UNCHANGED certificates
    BY <1>1 DEF AddsCA
  <2>2. /\ DOMAIN cas' = DOMAIN cas \cup {id} /\ cas'[id] = NewCA(r)
        /\ \A ca \in DOMAIN cas : cas'[ca] = cas[ca]
    BY <1>1, AddedRows
  <2>3. /\ NewCA(r).parent = arg[r].parent
        /\ NewCA(r).cert.notAfter = local[r].notAfter
    BY DEF NewCA, NewCertificate
  <2>4. arg[r].parent # NULL =>
          /\ arg[r].parent \in DOMAIN cas
          /\ cas[arg[r].parent].parent = NULL
          /\ local[r].notAfter <= cas[arg[r].parent].cert.notAfter
    <3>1. arg[r].parent # NULL =>
            /\ arg[r].parent \in DOMAIN cas
            /\ local[r].issuer = cas[arg[r].parent]
            /\ local[r].issuer.parent = NULL
      BY <1>0, <2>1 DEF IssuerInv, ReadIssuer, HasIssuer
    <3>2. arg[r].parent # NULL => local[r].issuer # NULL
      BY <1>0, <3>1, NullIsNoValue DEF TypeOK, IsMap
    <3> QED BY <1>0, <2>1, <3>1, <3>2 DEF IssuerInv, ReadIssuer, Dated, HasIssuer
  <2> QED BY <1>0, <2>1, <2>2, <2>3, <2>4 DEF WithinIssuer
<1>2. ASSUME NEW r \in Requests, NEW s \in Serials, AddsCertificate(r, s) PROVE WithinIssuer'
  <2>1. pc[r] = "insert" /\ ~Creates(r) /\ UNCHANGED cas
    BY <1>2 DEF AddsCertificate
  <2>2. /\ DOMAIN certificates' = DOMAIN certificates \cup {s} /\ certificates'[s] = NewRow(r)
        /\ \A t \in DOMAIN certificates : certificates'[t] = certificates[t]
    BY <1>2, AddedRows
  <2>3. NewRow(r).ca = arg[r].ca /\ NewRow(r).cert.notAfter = local[r].notAfter
    BY DEF NewRow, NewCertificate
  <2>4. /\ arg[r].ca \in DOMAIN cas
        /\ cas[arg[r].ca].parent # NULL
        /\ local[r].notAfter <= cas[arg[r].ca].cert.notAfter
    <3>1. /\ arg[r].ca \in DOMAIN cas
          /\ local[r].issuer = cas[arg[r].ca]
          /\ local[r].issuer.parent # NULL
      BY <1>0, <2>1 DEF IssuerInv, ReadIssuer, HasIssuer
    <3>2. local[r].issuer # NULL
      BY <1>0, <3>1, NullIsNoValue DEF TypeOK, IsMap
    <3> QED BY <1>0, <2>1, <3>1, <3>2 DEF IssuerInv, ReadIssuer, Dated, HasIssuer
  <2> QED BY <1>0, <2>1, <2>2, <2>3, <2>4 DEF WithinIssuer
<1>3. CASE UNCHANGED <<cas, certificates>>
  BY <1>0, <1>3 DEF WithinIssuer
<1> QED BY <1>1, <1>2, <1>3, TablesStep

-----------------------------------------------------------------------------
(* Key files *)

(* CreateKeyFile, when the name is free. *)
CreatesFile(r, k) ==
    /\ pc[r] = "create_file" /\ k \notin DOMAIN files
    /\ files' = Put(files, k, [pair |-> local[r].pair, pass |-> arg[r].pass, whole |-> FALSE])
    /\ local' = [local EXCEPT ![r].keyId = k]
    /\ pc' = [pc EXCEPT ![r] = "write_file"]
    /\ UNCHANGED <<cas, certificates, generated, disclosed, abandoned, confirmed>>

(* The three operations that change the key directory. *)
LEMMA FilesStep ==
    ASSUME [Next]_vars
    PROVE  \/ UNCHANGED files
           \/ \E r \in Requests : \/ \E k \in KeyIds : CreatesFile(r, k)
                                  \/ WriteKeyFile(r)
                                  \/ DeleteKeyFile(r)
<1>1. ASSUME NEW r \in Requests, Client(r) \/ Fails(r) PROVE UNCHANGED files
  BY <1>1 DEF Client, CallCreateCA, CallIssue, Return, Fails, disk
<1>2. ASSUME NEW r \in Requests, Step(r)
      PROVE  \/ UNCHANGED files
             \/ \E k \in KeyIds : CreatesFile(r, k)
             \/ WriteKeyFile(r) \/ DeleteKeyFile(r)
  <2>1. CASE GetParent(r) \/ GetCA(r) \/ Now(r) \/ Load(r) \/ Generate(r)
    BY <2>1 DEF GetParent, GetCA, Now, Load, Generate, disk
  <2>2. CASE GenerateSerialNumber(r) \/ DeleteFails(r) \/ AssembleChain(r)
    BY <2>2 DEF GenerateSerialNumber, DeleteFails, AssembleChain, disk
  <2>3. ASSUME NEW id \in CAIds, InsertCA(r, id) \/ InsertCACancelled(r, id)
        PROVE  UNCHANGED files
    BY <2>3 DEF InsertCA, InsertCACancelled
  <2>4. ASSUME NEW s \in Serials, InsertCertificate(r, s) \/ InsertCertificateCancelled(r, s)
        PROVE  UNCHANGED files
    BY <2>4 DEF InsertCertificate, InsertCertificateCancelled
  <2>5. ASSUME NEW k \in KeyIds, CreateKeyFile(r, k)
        PROVE  UNCHANGED files \/ CreatesFile(r, k)
    BY <2>5 DEF CreateKeyFile, CreatesFile, Goto
  <2> QED BY <1>2, <2>1, <2>2, <2>3, <2>4, <2>5 DEF Step
<1>3. CASE SetClock \/ Restart \/ UNCHANGED vars
  BY <1>3 DEF SetClock, Restart, vars, disk
<1> QED BY <1>1, <1>2, <1>3 DEF Next

(* What becomes of the directory. *)
LEMMA FilesAfter ==
    ASSUME IInv, NEW r \in Requests
    PROVE  /\ \A k \in KeyIds : CreatesFile(r, k) =>
                /\ DOMAIN files' = DOMAIN files \cup {k}
                /\ files'[k].pair = local[r].pair
                /\ \A l \in DOMAIN files : files'[l] = files[l]
           /\ WriteKeyFile(r) =>
                /\ DOMAIN files' = DOMAIN files
                /\ \A l \in DOMAIN files :
                     /\ files'[l].pair = files[l].pair
                     /\ files[l].whole \/ l = local[r].keyId => files'[l].whole
           /\ DeleteKeyFile(r) =>
                /\ DOMAIN files' = DOMAIN files \ {local[r].keyId}
                /\ \A l \in DOMAIN files' : files'[l] = files[l]
<1>1. ASSUME NEW k \in KeyIds, CreatesFile(r, k)
      PROVE  /\ DOMAIN files' = DOMAIN files \cup {k}
             /\ files'[k].pair = local[r].pair
             /\ \A l \in DOMAIN files : files'[l] = files[l]
  BY <1>1 DEF CreatesFile, Put
<1>2. ASSUME WriteKeyFile(r)
      PROVE  /\ DOMAIN files' = DOMAIN files
             /\ \A l \in DOMAIN files :
                  /\ files'[l].pair = files[l].pair
                  /\ files[l].whole \/ l = local[r].keyId => files'[l].whole
  <2>1. /\ files = [x \in DOMAIN files |-> files[x]]
        /\ \A l \in DOMAIN files : files[l] \in SealedKeys
    BY DEF IInv, TypeOK, IsMap
  <2>2. files' = [files EXCEPT ![local[r].keyId].whole = TRUE]
    BY <1>2 DEF WriteKeyFile
  <2> QED BY <2>1, <2>2 DEF SealedKeys
<1>3. ASSUME DeleteKeyFile(r)
      PROVE  /\ DOMAIN files' = DOMAIN files \ {local[r].keyId}
             /\ \A l \in DOMAIN files' : files'[l] = files[l]
  BY <1>3 DEF DeleteKeyFile, Remove
<1> QED BY <1>1, <1>2, <1>3

(* A file stays, with its key, unless the request that created it deletes  *)
(* it.                                                                     *)
LEMMA FilesKept ==
    ASSUME IInv, [Next]_vars, NEW k \in DOMAIN files,
           \A r \in Requests : DeleteKeyFile(r) => local[r].keyId # k
    PROVE  /\ k \in DOMAIN files'
           /\ files'[k].pair = files[k].pair
           /\ files[k].whole => files'[k].whole
  BY FilesStep, FilesAfter

(* Of two requests under way, each has a file of its own. *)
LEMMA OwnFiles ==
    ASSUME IInv, NEW r \in Requests, NEW q \in Requests, r # q,
           pc[r] # "done", pc[q] # "done", local[r].keyId # NULL
    PROVE  local[r].keyId # local[q].keyId
<1> SUFFICES ASSUME local[r].keyId = local[q].keyId PROVE FALSE
  OBVIOUS
<1>1. /\ local[r].keyId \in DOMAIN files
      /\ files[local[r].keyId].pair = local[r].pair
      /\ files[local[r].keyId].pair = local[q].pair
  BY DEF IInv, FileInv
<1>2. local[r].pair \in Pairs /\ local[r].pair \notin CSRKeys
  BY <1>1 DEF IInv, TypeOK, IsMap, SealedKeys, PairInv, KeyHasOneHome
<1>3. local[r].pair # NULL
  BY <1>2, NullIsNoValue
<1> QED BY <1>1, <1>2, <1>3 DEF IInv, PairInv, HasPair

-----------------------------------------------------------------------------
(* Key pairs *)

(* A step that neither makes, stores nor discloses a key disturbs nothing  *)
(* of who has which.                                                       *)
LEMMA PairKept ==
    ASSUME IInv, UNCHANGED <<generated, disclosed>>,
           \A k \in DOMAIN files' : k \in DOMAIN files /\ files'[k].pair = files[k].pair,
           \A q \in Requests : HasPair(q)' =>
             HasPair(q) /\ local'[q].pair = local[q].pair /\ local'[q].keyId = local[q].keyId
    PROVE  PairInv'
  BY DEF IInv, PairInv, KeyHasOneHome

(* Key pairs stay where they belong. *)
LEMMA PairStep == IInv /\ [Next]_vars => PairInv'
<1> SUFFICES ASSUME IInv, [Next]_vars PROVE PairInv'
  OBVIOUS
<1>0. TypeOK /\ PairInv /\ FileInv
  BY DEF IInv
<1> USE DEF Goto, Answer, disk
<1>1. ASSUME NEW r \in Requests, Generate(r) PROVE PairInv'
  <2>1. /\ pc[r] = "generate" /\ pc'[r] \in {"create_file", "insert"}
        /\ UNCHANGED <<files, disclosed>>
    BY <1>0, <1>1 DEF Generate, TypeOK
  <2>2. \A q \in Requests \ {r} : pc'[q] = pc[q] /\ local'[q] = local[q]
    BY <1>1, OneMoves DEF Step
  <2>3. CASE Creates(r) \/ arg[r].csr = NULL
    <3>1. generated' = generated + 1 /\ local'[r].pair = generated + 1
      BY <1>0, <1>1, <2>3, LocalSet DEF Generate, TypeOK
    <3>2. generated \in Nat /\ generated + 1 \in 1 .. generated'
            /\ 1 .. generated \subseteq 1 .. generated' /\ generated + 1 \notin 1 .. generated
      BY <1>0, <3>1, IssuanceBounds DEF TypeOK
    <3>3. \A q \in Requests \ {r} : HasPair(q)' => HasPair(q)
      BY <2>2 DEF HasPair
    <3> QED BY <1>0, <2>1, <2>2, <3>1, <3>2, <3>3 DEF PairInv, KeyHasOneHome
  <2>4. CASE ~(Creates(r) \/ arg[r].csr = NULL)
    <3>1. arg[r].csr \in CSRKeys
      BY <2>1, <2>4, FlowOf, BodyType
    <3>2. UNCHANGED generated /\ local'[r].pair = arg[r].csr
      BY <1>0, <1>1, <2>4, LocalSet DEF Generate, TypeOK
    <3>3. ~HasPair(r)'
      BY <3>1, <3>2 DEF HasPair
    <3> QED BY <2>1, <2>2, <3>2, <3>3, PairKept DEF HasPair
  <2> QED BY <2>3, <2>4
<1>2. ASSUME NEW r \in Requests, NEW k \in KeyIds, CreatesFile(r, k) PROVE PairInv'
  <2>1. /\ DOMAIN files' = DOMAIN files \cup {k} /\ k \notin DOMAIN files
        /\ files'[k].pair = local[r].pair
        /\ \A l \in DOMAIN files : files'[l] = files[l]
        /\ UNCHANGED <<generated, disclosed>>
    BY <1>2, FilesAfter DEF CreatesFile
  <2>2. /\ local'[r].keyId = k /\ local'[r].pair = local[r].pair
        /\ \A q \in Requests \ {r} : local'[q] = local[q]
    BY <1>0, <1>2, LocalSet DEF CreatesFile, TypeOK
  <2>3. pc[r] = "create_file" /\ pc'[r] = "write_file" /\ \A q \in Requests \ {r} : pc'[q] = pc[q]
    BY <1>0, <1>2 DEF CreatesFile, TypeOK
  <2>4. local[r].keyId = NULL /\ HasPair(r)
    <3>1. CASE Creates(r)
      <4>1. CreateFlow(r)
        BY <2>3, <3>1, FlowOf
      <4> QED BY <2>3, <4>1 DEF CreateFlow, HasPair
    <3>2. CASE ~Creates(r)
      <4>1. IssueFlow(r)
        BY <2>3, <3>2, FlowOf
      <4> QED BY <2>3, <4>1 DEF IssueFlow, HasPair, CSRAllowed
    <3> QED BY <3>1, <3>2
  <2>5. NULL \notin DOMAIN files
    BY <1>0, NullIsNoValue DEF TypeOK, IsMap
  <2>6. \A l \in DOMAIN files : files[l].pair # local[r].pair
    BY <1>0, <2>4, <2>5 DEF PairInv
  <2>7. \A q \in Requests : HasPair(q)' <=> HasPair(q)
    BY <2>2, <2>3, <2>4 DEF HasPair
  <2>8. KeyHasOneHome'
    BY <1>0, <2>1, <2>4, <2>6 DEF PairInv, KeyHasOneHome, HasPair
  <2> QED BY <1>0, <2>1, <2>2, <2>4, <2>6, <2>7, <2>8 DEF PairInv
<1>3. ASSUME NEW r \in Requests, AssembleChain(r), UNCHANGED files PROVE PairInv'
  <2>1. /\ pc[r] = "chain" /\ pc'[r] = "done" /\ UNCHANGED <<local, generated>>
        /\ \A q \in Requests \ {r} : pc'[q] = pc[q]
    BY <1>0, <1>3 DEF AssembleChain, TypeOK
  <2>2. \A q \in Requests : HasPair(q)' => HasPair(q) /\ q # r
    BY <2>1 DEF HasPair
  <2>3. CASE UNCHANGED disclosed
    BY <1>3, <2>1, <2>2, <2>3, PairKept
  <2>4. CASE disclosed' # disclosed
    <3>1. /\ disclosed' = disclosed \cup {local[r].pair}
          /\ ~arg[r].storeKey /\ arg[r].csr = NULL
      BY <1>3, <2>4 DEF AssembleChain
    <3>2. IssueFlow(r)
      BY <2>1, FlowOf DEF CreateFlow
    <3>3. local[r].keyId = NULL /\ HasPair(r)
      BY <2>1, <3>1, <3>2 DEF IssueFlow, HasPair
    <3>4. \A l \in DOMAIN files : files[l].pair # local[r].pair
      BY <1>0, <3>3, NullIsNoValue DEF PairInv, TypeOK, IsMap
    <3>5. KeyHasOneHome'
      BY <1>0, <1>3, <3>1, <3>3, <3>4 DEF PairInv, KeyHasOneHome, HasPair
    <3> QED BY <1>0, <1>3, <2>1, <2>2, <3>1, <3>3, <3>5 DEF PairInv
  <2> QED BY <2>3, <2>4
<1>4. CASE /\ UNCHANGED <<generated, disclosed>>
           /\ \A q \in Requests : HasPair(q)' =>
                HasPair(q) /\ local'[q].pair = local[q].pair /\ local'[q].keyId = local[q].keyId
           /\ \/ UNCHANGED files
              \/ \E r \in Requests : WriteKeyFile(r) \/ DeleteKeyFile(r)
  <2>1. \A k \in DOMAIN files' : k \in DOMAIN files /\ files'[k].pair = files[k].pair
    BY <1>4, FilesAfter
  <2> QED BY <1>4, <2>1, PairKept
<1>5. ASSUME NEW r \in Requests, Client(r) \/ Step(r) \/ Fails(r), UNCHANGED <<generated, disclosed>>,
             pc'[r] = "done" \/ local'[r].pair = NULL
               \/ (local'[r].pair = local[r].pair /\ local'[r].keyId = local[r].keyId /\ pc[r] # "done"),
             UNCHANGED files \/ WriteKeyFile(r) \/ DeleteKeyFile(r)
      PROVE  PairInv'
  <2>1. \A q \in Requests \ {r} : HasPair(q)' => HasPair(q) /\ local'[q] = local[q]
    BY <1>5, OneMoves DEF HasPair
  <2>2. HasPair(r)' => HasPair(r) /\ local'[r].pair = local[r].pair /\ local'[r].keyId = local[r].keyId
    BY <1>5 DEF HasPair
  <2> QED BY <1>4, <1>5, <2>1, <2>2
<1>6. ASSUME NEW r \in Requests, Client(r) PROVE PairInv'
  <2>1. UNCHANGED <<generated, disclosed, files>>
    BY <1>6 DEF Client, CallCreateCA, CallIssue, Return
  <2>2. CASE Return(r)
    <3>1. local'[r].pair = NULL
      BY <1>0, <2>2 DEF Return, TypeOK, NoLocals
    <3> QED BY <1>5, <1>6, <2>1, <3>1
  <2>3. CASE pc[r] = "idle" /\ UNCHANGED local
    BY <1>5, <1>6, <2>1, <2>3
  <2> QED BY <1>6, <2>2, <2>3 DEF Client, CallCreateCA, CallIssue
<1>7. ASSUME NEW r \in Requests, Fails(r) PROVE PairInv'
  BY <1>5, <1>7 DEF Fails
<1>8. ASSUME NEW r \in Requests, Step(r) PROVE PairInv'
  <2>1. CASE GetParent(r) \/ GetCA(r) \/ Now(r) \/ Load(r) \/ GenerateSerialNumber(r)
    <3>1. UNCHANGED <<generated, disclosed, files>> /\ pc[r] # "done"
      BY <2>1 DEF GetParent, GetCA, Now, Load, GenerateSerialNumber
    <3>2. \/ UNCHANGED local
          \/ \E v : local' = [local EXCEPT ![r].issuer = v]
          \/ \E v : local' = [local EXCEPT ![r].notAfter = v]
          \/ \E v : local' = [local EXCEPT ![r].signer = v]
      BY <2>1 DEF GetParent, GetCA, Now, Load, GenerateSerialNumber
    <3>3. local'[r].pair = local[r].pair /\ local'[r].keyId = local[r].keyId
      BY <1>0, <3>2, LocalSet DEF TypeOK
    <3> QED BY <1>5, <1>8, <3>1, <3>3
  <2>2. CASE WriteKeyFile(r) \/ DeleteKeyFile(r) \/ DeleteFails(r)
    BY <1>5, <1>8, <2>2 DEF WriteKeyFile, DeleteKeyFile, DeleteFails
  <2>3. ASSUME NEW k \in KeyIds, CreateKeyFile(r, k) PROVE PairInv'
    <3>1. CreatesFile(r, k) \/ (UNCHANGED <<generated, disclosed, files, local>> /\ pc[r] # "done")
      BY <2>3 DEF CreateKeyFile, CreatesFile
    <3> QED BY <1>2, <1>5, <1>8, <3>1
  <2>4. ASSUME NEW id \in CAIds, InsertCA(r, id) \/ InsertCACancelled(r, id) PROVE PairInv'
    BY <1>5, <1>8, <2>4 DEF InsertCA, InsertCACancelled
  <2>5. ASSUME NEW s \in Serials, InsertCertificate(r, s) \/ InsertCertificateCancelled(r, s)
        PROVE  PairInv'
    BY <1>5, <1>8, <2>5 DEF InsertCertificate, InsertCertificateCancelled
  <2>6. CASE AssembleChain(r)
    BY <1>3, <2>6 DEF AssembleChain
  <2> QED BY <1>1, <1>8, <2>1, <2>2, <2>3, <2>4, <2>5, <2>6 DEF Step
<1>9. CASE SetClock \/ UNCHANGED vars
  BY <1>4, <1>9 DEF SetClock, vars, HasPair
<1>10. CASE Restart
  <2>1. \A q \in Requests : ~HasPair(q)'
    BY <1>10 DEF Restart, HasPair, NoLocals
  <2> QED BY <1>4, <1>10, <2>1 DEF Restart
<1> QED BY <1>6, <1>7, <1>8, <1>9, <1>10 DEF Next

-----------------------------------------------------------------------------
(* The files of the requests under way *)

(* The part of FileInv about one request. *)
HasFile(r) ==
    pc[r] # "done" /\ local[r].keyId # NULL =>
      /\ local[r].keyId \in DOMAIN files
      /\ files[local[r].keyId].pair = local[r].pair
      /\ pc[r] # "write_file" => files[local[r].keyId].whole

(* A request keeps its file while others take steps. *)
LEMMA HasFileKept ==
    ASSUME IInv, [Next]_vars, NEW q \in Requests,
           pc'[q] = pc[q], local'[q] = local[q], ~DeleteKeyFile(q)
    PROVE  HasFile(q)'
<1> SUFFICES ASSUME pc[q] # "done", local[q].keyId # NULL
             PROVE  /\ local[q].keyId \in DOMAIN files'
                    /\ files'[local[q].keyId].pair = local[q].pair
                    /\ pc[q] # "write_file" => files'[local[q].keyId].whole
  BY DEF HasFile
<1>1. /\ local[q].keyId \in DOMAIN files
      /\ files[local[q].keyId].pair = local[q].pair
      /\ pc[q] # "write_file" => files[local[q].keyId].whole
  BY DEF IInv, FileInv
<1>2. \A r \in Requests : DeleteKeyFile(r) => local[r].keyId # local[q].keyId
  BY OwnFiles DEF DeleteKeyFile
<1> QED BY <1>1, <1>2, FilesKept

(* Every request that stored its key has it in its file. *)
LEMMA HasFileStep == IInv /\ [Next]_vars => \A r \in Requests : HasFile(r)'
<1> SUFFICES ASSUME IInv, [Next]_vars, NEW q \in Requests PROVE HasFile(q)'
  OBVIOUS
<1>0. TypeOK /\ FileInv
  BY DEF IInv
<1> USE DEF Goto, Answer, disk
<1>1. CASE pc'[q] = pc[q] /\ local'[q] = local[q] /\ ~DeleteKeyFile(q)
  BY <1>1, HasFileKept
<1>2. CASE pc'[q] = "done" \/ local'[q].keyId = NULL
  BY <1>2 DEF HasFile
<1>3. CASE /\ UNCHANGED files /\ pc[q] \notin {"done", "write_file"}
           /\ local'[q].keyId = local[q].keyId /\ local'[q].pair = local[q].pair
  BY <1>0, <1>3 DEF HasFile, FileInv
<1>4. ASSUME NEW r \in Requests, Client(r) \/ Step(r) \/ Fails(r), r # q PROVE HasFile(q)'
  <2>1. pc'[q] = pc[q] /\ local'[q] = local[q]
    BY <1>4, OneMoves
  <2>2. CASE DeleteKeyFile(q)
    <3>1. pc[q] = "delete" /\ pc'[q] = "done"
      BY <1>0, <2>2 DEF DeleteKeyFile, TypeOK
    <3> QED BY <2>1, <3>1
  <2> QED BY <1>1, <2>1, <2>2
<1>5. ASSUME Client(q) \/ Fails(q) PROVE HasFile(q)'
  <2>1. CASE Return(q)
    BY <1>0, <1>2, <2>1 DEF Return, TypeOK, NoLocals
  <2>2. CASE pc[q] = "idle" /\ UNCHANGED local
    BY <1>2, <2>2 DEF IInv, FlowInv, NoLocals
  <2>3. CASE Fails(q)
    <3>1. pc'[q] = "done" \/ (pc'[q] = "delete" /\ pc[q] \in {"load", "insert"})
      BY <1>0, <2>3 DEF Fails, Abort, Undone, TypeOK
    <3> QED BY <1>2, <1>3, <2>3, <3>1 DEF Fails
  <2> QED BY <1>5, <2>1, <2>2, <2>3 DEF Client, CallCreateCA, CallIssue
<1>6. ASSUME Step(q) PROVE HasFile(q)'
  <2>1. CASE GetParent(q) \/ GetCA(q) \/ Now(q) \/ Load(q) \/ Generate(q) \/ GenerateSerialNumber(q)
    <3>1. UNCHANGED files /\ pc[q] \notin {"done", "write_file"}
      BY <2>1 DEF GetParent, GetCA, Now, Load, Generate, GenerateSerialNumber
    <3>2. CASE Generate(q)
      <4>1. local[q].keyId = NULL
        BY <3>2, FlowOf DEF Generate, CreateFlow, IssueFlow
      <4>2. \E v : local' = [local EXCEPT ![q].pair = v]
        BY <3>2 DEF Generate
      <4> QED BY <1>0, <1>2, <4>1, <4>2, LocalSet DEF TypeOK
    <3>3. CASE ~Generate(q)
      <4>1. \/ UNCHANGED local
            \/ \E v : local' = [local EXCEPT ![q].issuer = v]
            \/ \E v : local' = [local EXCEPT ![q].notAfter = v]
            \/ \E v : local' = [local EXCEPT ![q].signer = v]
        BY <2>1, <3>3 DEF GetParent, GetCA, Now, Load, GenerateSerialNumber
      <4>2. local'[q].pair = local[q].pair /\ local'[q].keyId = local[q].keyId
        BY <1>0, <4>1, LocalSet DEF TypeOK
      <4> QED BY <1>3, <3>1, <4>2
    <3> QED BY <3>2, <3>3
  <2>2. ASSUME NEW k \in KeyIds, CreateKeyFile(q, k) PROVE HasFile(q)'
    <3>1. CASE CreatesFile(q, k)
      <4>1. local'[q].keyId = k /\ local'[q].pair = local[q].pair /\ pc'[q] = "write_file"
        BY <1>0, <3>1, LocalSet DEF CreatesFile, TypeOK
      <4> QED BY <3>1, <4>1, FilesAfter DEF HasFile
    <3>2. CASE pc'[q] = "done"
      BY <1>2, <3>2
    <3> QED BY <1>0, <2>2, <3>1, <3>2 DEF CreateKeyFile, CreatesFile, TypeOK
  <2>3. CASE WriteKeyFile(q)
    <3>1. UNCHANGED local /\ pc[q] = "write_file"
      BY <2>3 DEF WriteKeyFile
    <3>2. local[q].keyId \in DOMAIN files /\ files[local[q].keyId].pair = local[q].pair
      BY <1>0, <3>1, FlowOf DEF FileInv, CreateFlow, IssueFlow
    <3> QED BY <2>3, <3>1, <3>2, FilesAfter DEF HasFile
  <2>4. CASE DeleteKeyFile(q) \/ DeleteFails(q) \/ AssembleChain(q)
    BY <1>0, <1>2, <2>4 DEF DeleteKeyFile, DeleteFails, AssembleChain, TypeOK
  <2>5. ASSUME NEW id \in CAIds, InsertCA(q, id) \/ InsertCACancelled(q, id) PROVE HasFile(q)'
    BY <1>3, <2>5 DEF InsertCA, InsertCACancelled
  <2>6. ASSUME NEW s \in Serials, InsertCertificate(q, s) \/ InsertCertificateCancelled(q, s)
        PROVE  HasFile(q)'
    BY <1>3, <2>6 DEF InsertCertificate, InsertCertificateCancelled
  <2> QED BY <1>6, <2>1, <2>2, <2>3, <2>4, <2>5, <2>6 DEF Step
<1>7. CASE SetClock \/ UNCHANGED vars
  BY <1>0, <1>7 DEF SetClock, vars, HasFile, FileInv
<1>8. CASE Restart
  BY <1>2, <1>8 DEF Restart, NoLocals
<1> QED BY <1>4, <1>5, <1>6, <1>7, <1>8 DEF Next

(* A request comes to hold a key only by creating a file for it. *)
LEMMA HoldsStep ==
    ASSUME IInv, [Next]_vars, NEW q \in Requests, HoldsKey(q)'
    PROVE  \/ HoldsKey(q) /\ local'[q].keyId = local[q].keyId
           \/ local'[q].keyId \notin DOMAIN files
<1>0. TypeOK
  BY DEF IInv
<1> DEFINE P == \/ HoldsKey(q) /\ local'[q].keyId = local[q].keyId
                \/ local'[q].keyId \notin DOMAIN files
<1> USE DEF Goto, Answer, disk
<1>1. CASE pc'[q] = pc[q] /\ local'[q] = local[q]
  BY <1>1 DEF HoldsKey
<1>2. ASSUME local'[q].keyId = local[q].keyId,
             pc[q] \in {"write_file", "serial", "load", "insert", "delete"}
      PROVE  P
  BY <1>2 DEF HoldsKey
<1>3. pc'[q] \in {"write_file", "serial", "load", "insert", "delete"} /\ local'[q].keyId # NULL
  BY DEF HoldsKey
<1>4. ASSUME Client(q) \/ Fails(q) PROVE P
  <2>1. CASE Client(q)
    BY <1>0, <1>3, <2>1 DEF Client, CallCreateCA, CallIssue, Return, TypeOK
  <2>2. CASE Fails(q)
    BY <1>0, <1>2, <1>3, <2>2 DEF Fails, Abort, Undone, TypeOK
  <2> QED BY <1>4, <2>1, <2>2
<1>5. ASSUME Step(q) PROVE P
  <2>1. CASE GetParent(q) \/ GetCA(q) \/ DeleteKeyFile(q) \/ DeleteFails(q) \/ AssembleChain(q)
    BY <1>0, <1>3, <2>1 DEF GetParent, GetCA, DeleteKeyFile, DeleteFails, AssembleChain, TypeOK
  <2>2. CASE Now(q) \/ Generate(q)
    <3>1. local[q].keyId = NULL
      BY <2>2, FlowOf DEF Now, Generate, CreateFlow, IssueFlow
    <3>2. \/ UNCHANGED local
          \/ \E v : local' = [local EXCEPT ![q].notAfter = v]
          \/ \E v : local' = [local EXCEPT ![q].pair = v]
      BY <2>2 DEF Now, Generate
    <3>3. local'[q].keyId = NULL
      BY <1>0, <3>1, <3>2, LocalSet DEF TypeOK
    <3> QED BY <1>3, <3>3
  <2>3. CASE Load(q) \/ GenerateSerialNumber(q)
    <3>1. \/ UNCHANGED local
          \/ \E v : local' = [local EXCEPT ![q].signer = v]
      BY <2>3 DEF Load, GenerateSerialNumber
    <3>2. local'[q].keyId = local[q].keyId
      BY <1>0, <3>1, LocalSet DEF TypeOK
    <3> QED BY <1>2, <2>3, <3>2 DEF Load, GenerateSerialNumber
  <2>4. CASE WriteKeyFile(q)
    BY <1>2, <2>4 DEF WriteKeyFile
  <2>5. ASSUME NEW k \in KeyIds, CreateKeyFile(q, k) PROVE P
    <3>1. pc'[q] = "done" \/ (k \notin DOMAIN files /\ local' = [local EXCEPT ![q].keyId = k])
      BY <1>0, <2>5 DEF CreateKeyFile, TypeOK
    <3> QED BY <1>0, <1>3, <3>1, LocalSet DEF TypeOK
  <2>6. ASSUME NEW id \in CAIds, InsertCA(q, id) \/ InsertCACancelled(q, id) PROVE P
    BY <1>2, <2>6 DEF InsertCA, InsertCACancelled
  <2>7. ASSUME NEW s \in Serials, InsertCertificate(q, s) \/ InsertCertificateCancelled(q, s)
        PROVE  P
    BY <1>2, <2>7 DEF InsertCertificate, InsertCertificateCancelled
  <2> QED BY <1>5, <2>1, <2>2, <2>3, <2>4, <2>5, <2>6, <2>7 DEF Step
<1>6. ASSUME NEW r \in Requests, Client(r) \/ Step(r) \/ Fails(r), r # q PROVE P
  BY <1>1, <1>6, OneMoves
<1>7. CASE SetClock \/ UNCHANGED vars
  BY <1>1, <1>7 DEF SetClock, vars
<1>8. CASE Restart
  BY <1>3, <1>8 DEF Restart
<1> QED BY <1>4, <1>5, <1>6, <1>7, <1>8 DEF Next

(* A request that deletes a file holds it. *)
LEMMA DeleteHolds ==
    ASSUME IInv, NEW r \in Requests, DeleteKeyFile(r) \/ DeleteFails(r)
    PROVE  HoldsKey(r)
  BY FlowOf DEF DeleteKeyFile, DeleteFails, HoldsKey, CreateFlow, IssueFlow

(* Only a file that a request holds is given up, and not held any more.    *)
LEMMA GivenUp ==
    ASSUME IInv, [Next]_vars, NEW k \in abandoned', k \notin abandoned
    PROVE  /\ UNCHANGED <<files, cas, certificates>>
           /\ \E r \in Requests : HoldsKey(r) /\ local[r].keyId = k /\ ~HoldsKey(r)'
<1>0. TypeOK
  BY DEF IInv
<1> USE DEF Goto, disk
<1>1. ASSUME NEW r \in Requests, DeleteFails(r)
      PROVE  UNCHANGED disk /\ HoldsKey(r) /\ local[r].keyId = k /\ ~HoldsKey(r)'
  BY <1>0, <1>1, DeleteHolds DEF DeleteFails, TypeOK, HoldsKey
<1>2. ASSUME NEW r \in Requests, Fails(r)
      PROVE  UNCHANGED disk /\ HoldsKey(r) /\ local[r].keyId = k /\ ~HoldsKey(r)'
  <2>1. pc[r] \in {"write_file", "serial"} /\ local[r].keyId = k /\ UNCHANGED disk
    BY <1>2 DEF Fails
  <2>2. local[r].keyId # NULL
    BY <2>1, FlowOf DEF CreateFlow, IssueFlow
  <2>3. pc'[r] = "done"
    BY <1>0, <1>2, <2>1 DEF Fails, Abort, Undone, TypeOK
  <2> QED BY <2>1, <2>2, <2>3 DEF HoldsKey
<1>3. CASE Restart
  BY <1>3 DEF Restart, HoldsKey
<1>4. CASE UNCHANGED abandoned
  BY <1>4
<1>5. ASSUME NEW r \in Requests, Step(r), ~DeleteFails(r) PROVE UNCHANGED abandoned
  BY <1>5
  DEF Step, GetParent, GetCA, Now, Load, Generate, CreateKeyFile, WriteKeyFile,
      GenerateSerialNumber, DeleteKeyFile, InsertCA, InsertCACancelled, InsertCertificate,
      InsertCertificateCancelled, AssembleChain
<1>6. ASSUME NEW r \in Requests, Client(r) PROVE UNCHANGED abandoned
  BY <1>6 DEF Client, CallCreateCA, CallIssue, Return
<1>7. CASE SetClock \/ UNCHANGED vars
  BY <1>4, <1>7 DEF SetClock, vars
<1> QED BY <1>1, <1>2, <1>3, <1>4, <1>5, <1>6, <1>7 DEF Next

(* Only a key that a request has stored is confirmed, as it is done. *)
LEMMA NewlyConfirmed ==
    ASSUME IInv, [Next]_vars, NEW c \in confirmed', c \notin confirmed
    PROVE  /\ UNCHANGED files
           /\ \E r \in Requests : /\ pc[r] \in {"insert", "chain"} /\ pc'[r] = "done"
                                  /\ local[r].keyId # NULL
                                  /\ c = [keyId |-> local[r].keyId, pair |-> local[r].pair]
<1>0. TypeOK
  BY DEF IInv
<1> DEFINE P(r) == /\ UNCHANGED files
                   /\ pc[r] \in {"insert", "chain"} /\ pc'[r] = "done"
                   /\ local[r].keyId # NULL
                   /\ c = [keyId |-> local[r].keyId, pair |-> local[r].pair]
<1> USE DEF Goto, Answer, disk
<1>1. ASSUME NEW r \in Requests, NEW id \in CAIds, InsertCA(r, id) PROVE P(r)
  BY <1>0, <1>1 DEF InsertCA, Confirm, TypeOK
<1>2. ASSUME NEW r \in Requests, AssembleChain(r) PROVE P(r)
  BY <1>0, <1>2 DEF AssembleChain, Confirm, TypeOK
<1>3. ASSUME NEW r \in Requests, Step(r), ~AssembleChain(r), \A id \in CAIds : ~InsertCA(r, id)
      PROVE  UNCHANGED confirmed
  BY <1>3
  DEF Step, GetParent, GetCA, Now, Load, Generate, CreateKeyFile, WriteKeyFile,
      GenerateSerialNumber, DeleteKeyFile, DeleteFails, InsertCACancelled, InsertCertificate,
      InsertCertificateCancelled
<1>4. ASSUME NEW r \in Requests, Client(r) \/ Fails(r) PROVE UNCHANGED confirmed
  BY <1>4 DEF Client, CallCreateCA, CallIssue, Return, Fails
<1>5. CASE SetClock \/ Restart \/ UNCHANGED vars
  BY <1>5 DEF SetClock, Restart, vars
<1> QED BY <1>1, <1>2, <1>3, <1>4, <1>5 DEF Next

(* Files that were given up or confirmed are never touched again. *)
LEMMA FileStep == IInv /\ [Next]_vars => FileInv'
<1> SUFFICES ASSUME IInv, [Next]_vars PROVE FileInv'
  OBVIOUS
<1>0. TypeOK /\ FileInv
  BY DEF IInv
<1>1. \A r \in Requests : HasFile(r)'
  BY HasFileStep
<1>2. \A r \in Requests : HoldsKey(r) => pc[r] # "done" /\ local[r].keyId # NULL
  BY DEF HoldsKey
<1>3. \A r \in Requests : HoldsKey(r) => local[r].keyId \in DOMAIN files
  BY <1>0, <1>2 DEF FileInv
<1>4. \A r, q \in Requests :
        HoldsKey(q) /\ pc[r] # "done" /\ r # q => local[r].keyId # local[q].keyId
  BY <1>2, OwnFiles
<1>5. ASSUME NEW k \in abandoned' PROVE k \in DOMAIN files'
  <2>1. CASE k \in abandoned
    BY <1>0, <2>1, DeleteHolds, FilesKept DEF FileInv
  <2>2. CASE k \notin abandoned
    BY <1>3, <2>2, GivenUp
  <2> QED BY <2>1, <2>2
<1>6. ASSUME NEW q \in Requests, HoldsKey(q)' PROVE local'[q].keyId \notin abandoned'
  <2> SUFFICES ASSUME NEW k \in abandoned', k = local'[q].keyId PROVE FALSE
    OBVIOUS
  <2>1. CASE k \in abandoned
    BY <1>0, <1>6, <2>1, HoldsStep DEF FileInv
  <2>2. CASE k \notin abandoned
    BY <1>2, <1>3, <1>4, <1>6, <2>2, GivenUp, HoldsStep
  <2> QED BY <2>1, <2>2
<1>7. ASSUME NEW c \in confirmed' PROVE Keeps(c.keyId, c.pair)'
  <2>1. CASE c \in confirmed
    <3>1. Keeps(c.keyId, c.pair)
      BY <1>0, <2>1 DEF FileInv, CreatedHasItsKey
    <3>2. \A r \in Requests : DeleteKeyFile(r) => local[r].keyId # c.keyId
      BY <1>0, <2>1, DeleteHolds DEF FileInv
    <3> QED BY <3>1, <3>2, FilesKept DEF Keeps
  <2>2. CASE c \notin confirmed
    <3>1. UNCHANGED files
      BY <2>2, NewlyConfirmed
    <3>2. PICK r \in Requests : /\ pc[r] \in {"insert", "chain"} /\ local[r].keyId # NULL
                                /\ c = [keyId |-> local[r].keyId, pair |-> local[r].pair]
      BY <2>2, NewlyConfirmed
    <3>3. Keeps(local[r].keyId, local[r].pair)
      BY <1>0, <3>2 DEF FileInv, Keeps
    <3> QED BY <3>1, <3>2, <3>3 DEF Keeps
  <2> QED BY <2>1, <2>2
<1>8. ASSUME NEW q \in Requests, NEW c \in confirmed', HoldsKey(q)'
      PROVE  local'[q].keyId # c.keyId
  <2>1. CASE c \in confirmed
    <3>1. c.keyId \in DOMAIN files
      BY <1>0, <2>1 DEF FileInv, CreatedHasItsKey, Keeps
    <3> QED BY <1>0, <1>8, <2>1, <3>1, HoldsStep DEF FileInv
  <2>2. CASE c \notin confirmed
    <3>1. PICK r \in Requests : /\ pc[r] \in {"insert", "chain"} /\ pc'[r] = "done"
                                /\ local[r].keyId # NULL
                                /\ c = [keyId |-> local[r].keyId, pair |-> local[r].pair]
      BY <2>2, NewlyConfirmed
    <3>2. q # r
      BY <1>8, <3>1 DEF HoldsKey
    <3>3. local[r].keyId \in DOMAIN files /\ c.keyId = local[r].keyId
      BY <1>0, <3>1 DEF FileInv
    <3> QED BY <1>4, <1>8, <3>1, <3>2, <3>3, HoldsStep
  <2> QED BY <2>1, <2>2
<1> QED
  BY <1>1, <1>5, <1>6, <1>7, <1>8 DEF FileInv, HasFile, CreatedHasItsKey

-----------------------------------------------------------------------------
(* Rows and files, when an insert that is reported as failed was not done *)

(* A request that inserted its row is past the clean-up. *)
LEMMA InsertEnds ==
    ASSUME IInv, ~LateCancel, NEW r \in Requests,
           \/ \E id \in CAIds : AddsCA(r, id)
           \/ \E s \in Serials : AddsCertificate(r, s)
    PROVE  /\ pc[r] = "insert" /\ pc'[r] \in {"done", "chain"}
           /\ UNCHANGED <<files, local, abandoned>>
           /\ \A q \in Requests \ {r} : pc'[q] = pc[q]
           /\ Named' = Named \cup {local[r].keyId}
<1>0. TypeOK
  BY DEF IInv
<1> USE DEF Goto, Answer, Abort
<1>1. ASSUME NEW id \in CAIds, AddsCA(r, id)
      PROVE  /\ pc[r] = "insert" /\ pc'[r] \in {"done", "chain"}
             /\ UNCHANGED <<files, local, abandoned>>
             /\ \A q \in Requests \ {r} : pc'[q] = pc[q]
             /\ Named' = Named \cup {local[r].keyId}
  <2>1. InsertCA(r, id)
    BY <1>1 DEF AddsCA, InsertCACancelled
  <2>2. NewCA(r).keyId = local[r].keyId
    BY DEF NewCA
  <2>3. Named' = Named \cup {local[r].keyId}
    <3>1. /\ DOMAIN cas' = DOMAIN cas \cup {id} /\ cas'[id].keyId = local[r].keyId
          /\ \A ca \in DOMAIN cas : cas'[ca] = cas[ca]
      BY <1>1, <2>2, AddedRows
    <3>2. UNCHANGED certificates
      BY <1>1 DEF AddsCA
    <3> QED BY <3>1, <3>2 DEF Named
  <2> QED BY <1>0, <1>1, <2>1, <2>3 DEF AddsCA, InsertCA, TypeOK
<1>2. ASSUME NEW s \in Serials, AddsCertificate(r, s)
      PROVE  /\ pc[r] = "insert" /\ pc'[r] \in {"done", "chain"}
             /\ UNCHANGED <<files, local, abandoned>>
             /\ \A q \in Requests \ {r} : pc'[q] = pc[q]
             /\ Named' = Named \cup {local[r].keyId}
  <2>1. InsertCertificate(r, s)
    BY <1>2 DEF AddsCertificate, InsertCertificateCancelled
  <2>2. NewRow(r).keyId = local[r].keyId
    BY DEF NewRow
  <2>3. Named' = Named \cup {local[r].keyId}
    <3>1. /\ DOMAIN certificates' = DOMAIN certificates \cup {s}
          /\ certificates'[s].keyId = local[r].keyId
          /\ \A t \in DOMAIN certificates : certificates'[t] = certificates[t]
      BY <1>2, <2>2, AddedRows
    <3>2. UNCHANGED cas
      BY <1>2 DEF AddsCertificate
    <3> QED BY <3>1, <3>2 DEF Named
  <2> QED BY <1>0, <1>2, <2>1, <2>3 DEF AddsCertificate, InsertCertificate, TypeOK
<1> QED BY <1>1, <1>2

(* What the rows name: as before, or one more key, of a request that then  *)
(* does not hold it any more.                                              *)
LEMMA NamedStep ==
    ASSUME IInv, ~LateCancel, [Next]_vars
    PROVE  \/ UNCHANGED <<cas, certificates>> /\ Named' = Named
           \/ \E r \in Requests : /\ pc[r] = "insert" /\ ~HoldsKey(r)'
                                  /\ Named' = Named \cup {local[r].keyId}
                                  /\ UNCHANGED <<files, abandoned>>
<1>1. CASE UNCHANGED <<cas, certificates>>
  BY <1>1 DEF Named
<1>2. ASSUME NEW r \in Requests,
             \/ \E id \in CAIds : AddsCA(r, id)
             \/ \E s \in Serials : AddsCertificate(r, s)
      PROVE  /\ pc[r] = "insert" /\ ~HoldsKey(r)'
             /\ Named' = Named \cup {local[r].keyId}
             /\ UNCHANGED <<files, abandoned>>
  BY <1>2, InsertEnds DEF HoldsKey
<1> QED BY <1>1, <1>2, TablesStep

(* A key that a row names stays in its file. *)
LEMMA KeepsKept ==
    ASSUME IInv, ~LateCancel, [Next]_vars, NEW k \in Named, NEW p, Keeps(k, p)
    PROVE  Keeps(k, p)'
<1>1. \A r \in Requests : DeleteKeyFile(r) => local[r].keyId # k
  BY DeleteHolds DEF IInv, RowInv
<1> QED BY <1>1, FilesKept DEF Keeps

(* The key of a request that inserts is whole in its file. *)
LEMMA InsertsKept ==
    ASSUME IInv, NEW r \in Requests, pc[r] = "insert", local[r].keyId # NULL
    PROVE  Keeps(local[r].keyId, local[r].pair)
  BY DEF IInv, FileInv, Keeps

(* Every row that names a key has it. *)
LEMMA RowKeyStep == IInv /\ ~LateCancel /\ [Next]_vars => EveryRowHasItsKey'
<1> SUFFICES ASSUME IInv, ~LateCancel, [Next]_vars PROVE EveryRowHasItsKey'
  OBVIOUS
<1>0. TypeOK /\ EveryRowHasItsKey
  BY DEF IInv, RowInv
<1>2. ASSUME NEW ca \in DOMAIN cas
      PROVE  /\ cas[ca].keyId \in DOMAIN files'
             /\ files'[cas[ca].keyId].whole
             /\ files'[cas[ca].keyId].pair = cas[ca].cert.subject
  <2>1. cas[ca].keyId \in Named /\ Keeps(cas[ca].keyId, cas[ca].cert.subject)
    BY <1>0 DEF Named, EveryRowHasItsKey
  <2> DEFINE k == cas[ca].keyId
  <2>2. \A r \in Requests : DeleteKeyFile(r) => local[r].keyId # k
    BY <2>1, DeleteHolds DEF IInv, RowInv
  <2> QED BY <2>1, <2>2, FilesKept DEF Keeps
<1>3. ASSUME NEW s \in DOMAIN certificates, certificates[s].keyId # NULL
      PROVE  /\ certificates[s].keyId \in DOMAIN files'
             /\ files'[certificates[s].keyId].whole
             /\ files'[certificates[s].keyId].pair = certificates[s].cert.subject
  <2>1. /\ certificates[s].keyId \in Named
        /\ Keeps(certificates[s].keyId, certificates[s].cert.subject)
    BY <1>0, <1>3 DEF Named, EveryRowHasItsKey
  <2> DEFINE k == certificates[s].keyId
  <2>2. \A r \in Requests : DeleteKeyFile(r) => local[r].keyId # k
    BY <2>1, DeleteHolds DEF IInv, RowInv
  <2> QED BY <2>1, <2>2, FilesKept DEF Keeps
<1>4. CASE UNCHANGED <<cas, certificates>>
  BY <1>2, <1>3, <1>4 DEF EveryRowHasItsKey, Keeps
<1>5. ASSUME NEW r \in Requests, NEW id \in CAIds, AddsCA(r, id) PROVE EveryRowHasItsKey'
  <2>1. UNCHANGED <<files, certificates>> /\ pc[r] = "insert" /\ Creates(r)
    BY <1>5 DEF AddsCA
  <2>2. Keeps(local[r].keyId, local[r].pair)
    BY <2>1, InsertsKept, FlowOf DEF CreateFlow
  <2>3. NewCA(r).keyId = local[r].keyId /\ NewCA(r).cert.subject = local[r].pair
    BY DEF NewCA, NewCertificate
  <2>4. /\ DOMAIN cas' = DOMAIN cas \cup {id} /\ cas'[id] = NewCA(r)
        /\ \A ca \in DOMAIN cas : cas'[ca] = cas[ca]
    BY <1>5, AddedRows
  <2> QED BY <1>2, <1>3, <2>1, <2>2, <2>3, <2>4 DEF EveryRowHasItsKey, Keeps
<1>6. ASSUME NEW r \in Requests, NEW s \in Serials, AddsCertificate(r, s)
      PROVE  EveryRowHasItsKey'
  <2>1. UNCHANGED <<files, cas>> /\ pc[r] = "insert"
    BY <1>6 DEF AddsCertificate
  <2>2. local[r].keyId # NULL => Keeps(local[r].keyId, local[r].pair)
    BY <2>1, InsertsKept
  <2>3. NewRow(r).keyId = local[r].keyId /\ NewRow(r).cert.subject = local[r].pair
    BY DEF NewRow, NewCertificate
  <2>4. /\ DOMAIN certificates' = DOMAIN certificates \cup {s} /\ certificates'[s] = NewRow(r)
        /\ \A t \in DOMAIN certificates : certificates'[t] = certificates[t]
    BY <1>6, AddedRows
  <2> QED BY <1>2, <1>3, <2>1, <2>2, <2>3, <2>4 DEF EveryRowHasItsKey, Keeps
<1> QED BY <1>4, <1>5, <1>6, TablesStep

(* No key is named by two rows. *)
LEMMA OneRowStep == IInv /\ ~LateCancel /\ [Next]_vars => OneRowPerKey'
<1> SUFFICES ASSUME IInv, ~LateCancel, [Next]_vars PROVE OneRowPerKey'
  OBVIOUS
<1>0. TypeOK /\ OneRowPerKey
  BY DEF IInv, RowInv
<1>1. \A r \in Requests : pc[r] = "insert" /\ local[r].keyId # NULL => local[r].keyId \notin Named
  BY DEF IInv, RowInv, HoldsKey
<1>2. \A ca \in DOMAIN cas : cas[ca].keyId # NULL /\ cas[ca].keyId \in Named
  BY <1>0, NullIsNoValue DEF TypeOK, IsMap, CARows, Named
<1>3. \A s \in DOMAIN certificates : certificates[s].keyId \in Named
  BY DEF Named
<1>4. ASSUME NEW r \in Requests, NEW id \in CAIds, AddsCA(r, id) PROVE OneRowPerKey'
  <2>1. UNCHANGED certificates /\ pc[r] = "insert" /\ Creates(r)
    BY <1>4 DEF AddsCA
  <2>2. local[r].keyId \notin Named
    BY <1>1, <2>1, FlowOf DEF CreateFlow
  <2>3. NewCA(r).keyId = local[r].keyId
    BY DEF NewCA
  <2>4. /\ DOMAIN cas' = DOMAIN cas \cup {id} /\ cas'[id] = NewCA(r)
        /\ \A ca \in DOMAIN cas : cas'[ca] = cas[ca]
    BY <1>4, AddedRows
  <2> QED BY <1>0, <1>2, <1>3, <2>1, <2>2, <2>3, <2>4 DEF OneRowPerKey
<1>5. ASSUME NEW r \in Requests, NEW s \in Serials, AddsCertificate(r, s) PROVE OneRowPerKey'
  <2>1. UNCHANGED cas /\ pc[r] = "insert"
    BY <1>5 DEF AddsCertificate
  <2>2. local[r].keyId = NULL \/ local[r].keyId \notin Named
    BY <1>1, <2>1
  <2>3. NewRow(r).keyId = local[r].keyId
    BY DEF NewRow
  <2>4. /\ DOMAIN certificates' = DOMAIN certificates \cup {s} /\ certificates'[s] = NewRow(r)
        /\ \A t \in DOMAIN certificates : certificates'[t] = certificates[t]
    BY <1>5, AddedRows
  <2> QED BY <1>0, <1>2, <1>3, <2>1, <2>2, <2>3, <2>4 DEF OneRowPerKey
<1>6. CASE UNCHANGED <<cas, certificates>>
  BY <1>0, <1>6 DEF OneRowPerKey
<1> QED BY <1>4, <1>5, <1>6, TablesStep

(* A request lets go of its key file in three ways: a row names it, the    *)
(* file is deleted, or it is given up.                                     *)
LEMMA HeldStep ==
    ASSUME IInv, ~LateCancel, [Next]_vars, NEW r \in Requests, HoldsKey(r)
    PROVE  \/ HoldsKey(r)' /\ local'[r].keyId = local[r].keyId
           \/ local[r].keyId \in abandoned'
           \/ local[r].keyId \in Named'
           \/ local[r].keyId \notin DOMAIN files'
<1>0. TypeOK
  BY DEF IInv
<1> DEFINE P == \/ HoldsKey(r)' /\ local'[r].keyId = local[r].keyId
                \/ local[r].keyId \in abandoned'
                \/ local[r].keyId \in Named'
                \/ local[r].keyId \notin DOMAIN files'
<1> USE DEF Goto, Answer, disk
<1>1. pc[r] \in {"write_file", "serial", "load", "insert", "delete"} /\ local[r].keyId # NULL
  BY DEF HoldsKey
<1>2. ASSUME pc'[r] \in {"write_file", "serial", "load", "insert", "delete"},
             local'[r].keyId = local[r].keyId
      PROVE  P
  BY <1>1, <1>2 DEF HoldsKey
<1>3. ASSUME NEW q \in Requests, Client(q) \/ Step(q) \/ Fails(q), q # r PROVE P
  BY <1>1, <1>2, <1>3, OneMoves
<1>4. CASE Client(r)
  BY <1>1, <1>4 DEF Client, CallCreateCA, CallIssue, Return
<1>5. ASSUME NEW status, Abort(r, status), pc[r] \in {"load", "insert"}, UNCHANGED local PROVE P
  <2>1. pc'[r] = "delete"
    BY <1>0, <1>1, <1>5 DEF Abort, Undone, TypeOK
  <2> QED BY <1>2, <1>5, <2>1
<1>6. CASE Fails(r)
  <2>1. CASE pc[r] \in {"write_file", "serial"}
    BY <1>6, <2>1 DEF Fails
  <2>2. CASE pc[r] \in {"load", "insert"}
    BY <1>5, <1>6, <2>2 DEF Fails
  <2> QED BY <1>1, <1>6, <2>1, <2>2 DEF Fails
<1>7. CASE Step(r)
  <2>1. CASE GetParent(r) \/ GetCA(r) \/ Now(r) \/ Generate(r) \/ AssembleChain(r)
    BY <1>1, <2>1 DEF GetParent, GetCA, Now, Generate, AssembleChain
  <2>2. CASE Load(r)
    <3>1. CASE UNCHANGED local /\ \E status : Abort(r, status)
      BY <1>5, <2>2, <3>1 DEF Load
    <3>2. CASE /\ \E v : local' = [local EXCEPT ![r].signer = v]
               /\ pc' = [pc EXCEPT ![r] = IF Creates(r) THEN "insert" ELSE "generate"]
      <4>1. Creates(r)
        BY <1>1, <2>2, FlowOf DEF Load, IssueFlow
      <4>2. /\ pc'[r] = "insert"
            /\ \E v : local' = [local EXCEPT ![r].signer = v]
        BY <1>0, <3>2, <4>1 DEF TypeOK
      <4>3. local'[r].keyId = local[r].keyId
        BY <1>0, <4>2, LocalSet DEF TypeOK
      <4> QED BY <1>2, <4>2, <4>3
    <3> QED BY <2>2, <3>1, <3>2 DEF Load
  <2>3. ASSUME NEW k \in KeyIds, CreateKeyFile(r, k) PROVE P
    BY <1>1, <2>3 DEF CreateKeyFile
  <2>4. CASE WriteKeyFile(r)
    BY <1>0, <1>2, <2>4 DEF WriteKeyFile, TypeOK
  <2>5. CASE GenerateSerialNumber(r)
    <3>1. pc'[r] \in {"insert", "load"}
      BY <1>0, <2>5 DEF GenerateSerialNumber, TypeOK
    <3>2. UNCHANGED local \/ \E v : local' = [local EXCEPT ![r].signer = v]
      BY <2>5 DEF GenerateSerialNumber
    <3>3. local'[r].keyId = local[r].keyId
      BY <1>0, <3>2, LocalSet DEF TypeOK
    <3> QED BY <1>2, <3>1, <3>3
  <2>6. CASE DeleteKeyFile(r)
    BY <2>6, FilesAfter
  <2>7. CASE DeleteFails(r)
    BY <2>7 DEF DeleteFails
  <2>8. ASSUME NEW id \in CAIds, InsertCA(r, id) \/ InsertCACancelled(r, id) PROVE P
    <3>1. CASE AddsCA(r, id)
      BY <3>1, InsertEnds
    <3>2. CASE ~AddsCA(r, id)
      BY <1>5, <2>8, <3>2 DEF InsertCA, InsertCACancelled, AddsCA
    <3> QED BY <3>1, <3>2
  <2>9. ASSUME NEW s \in Serials, InsertCertificate(r, s) \/ InsertCertificateCancelled(r, s)
        PROVE  P
    <3>1. CASE AddsCertificate(r, s)
      BY <3>1, InsertEnds
    <3>2. CASE ~AddsCertificate(r, s)
      BY <1>5, <2>9, <3>2 DEF InsertCertificate, InsertCertificateCancelled, AddsCertificate
    <3> QED BY <3>1, <3>2
  <2> QED BY <1>7, <2>1, <2>2, <2>3, <2>4, <2>5, <2>6, <2>7, <2>8, <2>9 DEF Step
<1>8. CASE SetClock \/ UNCHANGED vars
  BY <1>1, <1>2, <1>8 DEF SetClock, vars
<1>9. CASE Restart
  BY <1>9 DEF Restart
<1> QED BY <1>3, <1>4, <1>6, <1>7, <1>8, <1>9 DEF Next

(* What was given up stays given up. *)
LEMMA AbandonedGrows ==
    ASSUME [Next]_vars
    PROVE  abandoned \subseteq abandoned'
<1>1. ASSUME NEW r \in Requests, Step(r) PROVE abandoned \subseteq abandoned'
  BY <1>1
  DEF Step, GetParent, GetCA, Now, Load, Generate, CreateKeyFile, WriteKeyFile,
      GenerateSerialNumber, DeleteKeyFile, DeleteFails, InsertCA, InsertCACancelled,
      InsertCertificate, InsertCertificateCancelled, AssembleChain
<1>2. ASSUME NEW r \in Requests, Client(r) \/ Fails(r) PROVE abandoned \subseteq abandoned'
  BY <1>2 DEF Client, CallCreateCA, CallIssue, Return, Fails
<1>3. CASE SetClock \/ Restart \/ UNCHANGED vars
  BY <1>3 DEF SetClock, Restart, vars
<1> QED BY <1>1, <1>2, <1>3 DEF Next

(* A file that was not there before is held by the request that created    *)
(* it.                                                                     *)
LEMMA NewFileHeld ==
    ASSUME IInv, [Next]_vars, NEW k \in DOMAIN files', k \notin DOMAIN files
    PROVE  \E r \in Requests : HoldsKey(r)' /\ local'[r].keyId = k
<1>0. TypeOK
  BY DEF IInv
<1>1. PICK r \in Requests, l \in KeyIds : CreatesFile(r, l)
  BY FilesStep, FilesAfter
<1>2. l = k
  BY <1>1, FilesAfter
<1>3. local'[r].keyId = k /\ pc'[r] = "write_file"
  BY <1>0, <1>1, <1>2, LocalSet DEF CreatesFile, TypeOK
<1>4. k # NULL
  BY <1>2, NullIsNoValue
<1> QED BY <1>3, <1>4 DEF HoldsKey

(* No row names a file that a request still holds. *)
LEMMA HeldUnnamedStep ==
    IInv /\ ~LateCancel /\ [Next]_vars =>
      \A q \in Requests : HoldsKey(q)' => local'[q].keyId \notin Named'
<1> SUFFICES ASSUME IInv, ~LateCancel, [Next]_vars, NEW q \in Requests, HoldsKey(q)'
             PROVE  local'[q].keyId \notin Named'
  OBVIOUS
<1>1. \A k \in Named : k # NULL => k \in DOMAIN files
  BY DEF IInv, RowInv, EveryRowHasItsKey, Keeps, Named
<1>2. local'[q].keyId \notin Named
  <2>1. local'[q].keyId # NULL
    BY DEF HoldsKey
  <2> QED BY <1>1, <2>1, HoldsStep DEF IInv, RowInv
<1>3. ASSUME NEW r \in Requests, pc[r] = "insert", ~HoldsKey(r)',
             Named' = Named \cup {local[r].keyId}
      PROVE  local'[q].keyId # local[r].keyId
  <2>1. q # r /\ local'[q].keyId # NULL
    BY <1>3 DEF HoldsKey
  <2>2. CASE HoldsKey(q) /\ local'[q].keyId = local[q].keyId
    BY <1>3, <2>1, <2>2, OwnFiles DEF HoldsKey
  <2>3. CASE local'[q].keyId \notin DOMAIN files
    BY <1>3, <2>1, <2>3 DEF IInv, FileInv
  <2> QED BY <2>2, <2>3, HoldsStep
<1> QED BY <1>2, <1>3, NamedStep

(* No file is left over. *)
LEMMA StrayStep == IInv /\ ~LateCancel /\ [Next]_vars => NoStrayKeys'
<1> SUFFICES ASSUME IInv, ~LateCancel, [Next]_vars PROVE NoStrayKeys'
  OBVIOUS
<1>0. NoStrayKeys /\ FileInv /\ RowInv
  BY DEF IInv, RowInv
<1>1. Named \subseteq Named'
  BY NamedStep
<1>2. ASSUME NEW k \in DOMAIN files' \ Named'
      PROVE  k \in abandoned' \/ \E r \in Requests : HoldsKey(r)' /\ local'[r].keyId = k
  <2>1. CASE k \notin DOMAIN files
    BY <2>1, NewFileHeld
  <2>2. CASE k \in abandoned
    BY <2>2, AbandonedGrows
  <2>3. ASSUME NEW r \in Requests, HoldsKey(r), local[r].keyId = k
        PROVE  k \in abandoned' \/ (HoldsKey(r)' /\ local'[r].keyId = k)
    BY <1>2, <2>3, HeldStep
  <2> QED BY <1>0, <1>1, <1>2, <2>1, <2>2, <2>3 DEF NoStrayKeys
<1>3. ASSUME NEW k \in abandoned', k \in Named' PROVE FALSE
  <2>1. CASE k \notin abandoned
    <3>1. Named' = Named
      BY <2>1, GivenUp DEF Named
    <3> QED BY <1>0, <1>3, <2>1, <3>1, GivenUp DEF RowInv
  <2>2. CASE k \in abandoned
    <3>1. k \notin Named
      BY <1>0, <2>2 DEF NoStrayKeys
    <3>2. PICK r \in Requests : pc[r] = "insert" /\ k = local[r].keyId
      BY <1>3, <3>1, NamedStep
    <3>3. HoldsKey(r)
      BY <1>0, <2>2, <3>2, NullIsNoValue DEF HoldsKey, IInv, TypeOK
    <3> QED BY <1>0, <2>2, <3>2, <3>3 DEF FileInv
  <2> QED BY <2>1, <2>2
<1> QED BY <1>2, <1>3 DEF NoStrayKeys

(* Rows and files fit. *)
LEMMA RowStep == IInv /\ ~LateCancel /\ [Next]_vars => RowInv'
  BY RowKeyStep, OneRowStep, StrayStep, HeldUnnamedStep DEF RowInv
-----------------------------------------------------------------------------
(* Signers *)

(* The part of SignerInv about one request. *)
SignerIsIssuer(r) ==
    pc[r] \in HasIssuer /\ local[r].signer # NULL =>
      local[r].signer = IF local[r].issuer = NULL THEN local[r].pair
                        ELSE local[r].issuer.cert.subject

(* The issuer that was looked up is no NULL, unless a root is created. *)
LEMMA IssuerFound ==
    ASSUME IInv, NEW r \in Requests, pc[r] \in HasIssuer
    PROVE  /\ ~Creates(r) =>
                /\ arg[r].ca \in DOMAIN cas
                /\ local[r].issuer = cas[arg[r].ca] /\ local[r].issuer # NULL
           /\ Creates(r) /\ arg[r].parent = NULL => local[r].issuer = NULL
           /\ Creates(r) /\ arg[r].parent # NULL =>
                /\ arg[r].parent \in DOMAIN cas
                /\ local[r].issuer = cas[arg[r].parent] /\ local[r].issuer # NULL
<1>1. \A ca \in DOMAIN cas : cas[ca] # NULL
  BY NullIsNoValue DEF IInv, TypeOK, IsMap
<1> QED BY <1>1 DEF IInv, IssuerInv, ReadIssuer

(* A request that goes on with what it has still has the right signer. *)
LEMMA SignerKept ==
    ASSUME IInv, ~LateCancel, NEW q \in Requests,
           pc'[q] \in HasIssuer => pc[q] \in HasIssuer,
           local'[q].issuer = local[q].issuer, local'[q].signer = local[q].signer,
           local'[q].pair = local[q].pair
    PROVE  SignerIsIssuer(q)'
  BY DEF IInv, SignerInv, SignerIsIssuer

(* The key that a request signs with is the one its issuer certifies. *)
LEMMA RequestSignerStep ==
    IInv /\ ~LateCancel /\ [Next]_vars => \A r \in Requests : SignerIsIssuer(r)'
<1> SUFFICES ASSUME IInv, ~LateCancel, [Next]_vars, NEW q \in Requests PROVE SignerIsIssuer(q)'
  OBVIOUS
<1>0. TypeOK
  BY DEF IInv
<1> USE DEF Goto, Answer, disk, HasIssuer
<1>1. CASE local'[q].signer = NULL \/ pc'[q] \notin HasIssuer
  BY <1>1 DEF SignerIsIssuer
<1>2. CASE local'[q] = local[q] /\ (pc'[q] \in HasIssuer => pc[q] \in HasIssuer)
  BY <1>2, SignerKept
<1>3. ASSUME NEW r \in Requests, Client(r) \/ Step(r) \/ Fails(r), r # q PROVE SignerIsIssuer(q)'
  BY <1>2, <1>3, OneMoves
<1>4. ASSUME Client(q) PROVE SignerIsIssuer(q)'
  <2>1. CASE Return(q)
    BY <1>0, <1>1, <2>1 DEF Return, TypeOK
  <2>2. CASE pc[q] = "idle" /\ UNCHANGED local
    BY <1>1, <2>2 DEF IInv, FlowInv, NoLocals
  <2> QED BY <1>4, <2>1, <2>2 DEF Client, CallCreateCA, CallIssue
<1>5. ASSUME Fails(q) PROVE SignerIsIssuer(q)'
  BY <1>0, <1>1, <1>5 DEF Fails, Abort, TypeOK
<1>6. ASSUME Step(q) PROVE SignerIsIssuer(q)'
  <2>1. CASE GetParent(q) \/ GetCA(q) \/ Now(q)
    <3>1. local[q].signer = NULL
      BY <2>1, FlowOf DEF GetParent, GetCA, Now, CreateFlow, IssueFlow
    <3>2. \/ UNCHANGED local
          \/ \E v : local' = [local EXCEPT ![q].issuer = v]
          \/ \E v : local' = [local EXCEPT ![q].notAfter = v]
      BY <2>1 DEF GetParent, GetCA, Now
    <3>3. local'[q].signer = NULL
      BY <1>0, <3>1, <3>2, LocalSet DEF TypeOK
    <3> QED BY <1>1, <3>3
  <2>2. CASE Load(q)
    <3>1. pc[q] = "load"
      BY <2>2 DEF Load
    <3>2. CASE UNCHANGED local
      BY <1>2, <3>1, <3>2
    <3>3. CASE /\ local' = [local EXCEPT ![q].signer = files[local[q].issuer.keyId].pair]
      <4>1. Creates(q) => arg[q].parent # NULL
        BY <3>1, FlowOf DEF CreateFlow
      <4>2. local[q].issuer # NULL /\ \E ca \in DOMAIN cas : local[q].issuer = cas[ca]
        BY <3>1, <4>1, IssuerFound
      <4>3. files[local[q].issuer.keyId].pair = local[q].issuer.cert.subject
        BY <4>2 DEF IInv, RowInv, EveryRowHasItsKey, Keeps
      <4>4. /\ local'[q].issuer = local[q].issuer
            /\ local'[q].signer = local[q].issuer.cert.subject
        BY <1>0, <3>3, <4>3, LocalSet DEF TypeOK
      <4> QED BY <4>2, <4>4 DEF SignerIsIssuer
    <3> QED BY <2>2, <3>2, <3>3 DEF Load
  <2>3. CASE Generate(q)
    <3>1. pc[q] = "generate" /\ \E v : local' = [local EXCEPT ![q].pair = v]
      BY <2>3 DEF Generate
    <3>2. local'[q].issuer = local[q].issuer /\ local'[q].signer = local[q].signer
      BY <1>0, <3>1, LocalSet DEF TypeOK
    <3>3. local[q].signer # NULL => local[q].issuer # NULL
      BY <3>1, FlowOf, IssuerFound DEF CreateFlow
    <3> QED BY <3>1, <3>2, <3>3 DEF SignerIsIssuer, IInv, SignerInv
  <2>4. ASSUME NEW k \in KeyIds, CreateKeyFile(q, k) PROVE SignerIsIssuer(q)'
    <3>1. pc[q] = "create_file" /\ (UNCHANGED local \/ local' = [local EXCEPT ![q].keyId = k])
      BY <2>4 DEF CreateKeyFile
    <3>2. /\ local'[q].issuer = local[q].issuer /\ local'[q].signer = local[q].signer
          /\ local'[q].pair = local[q].pair
      BY <1>0, <3>1, LocalSet DEF TypeOK
    <3> QED BY <3>1, <3>2, SignerKept
  <2>5. CASE GenerateSerialNumber(q)
    <3>1. pc[q] = "serial"
      BY <2>5 DEF GenerateSerialNumber
    <3>2. CASE UNCHANGED local
      BY <1>2, <3>1, <3>2
    <3>3. CASE local' = [local EXCEPT ![q].signer = local[q].pair] /\ IsRoot(q)
      <4>1. local[q].issuer = NULL
        BY <3>1, <3>3, IssuerFound DEF IsRoot
      <4>2. /\ local'[q].issuer = NULL /\ local'[q].pair = local[q].pair
            /\ local'[q].signer = local[q].pair
        BY <1>0, <3>3, <4>1, LocalSet DEF TypeOK
      <4> QED BY <4>2 DEF SignerIsIssuer
    <3> QED BY <2>5, <3>2, <3>3 DEF GenerateSerialNumber
  <2>6. CASE WriteKeyFile(q) \/ DeleteKeyFile(q) \/ DeleteFails(q) \/ AssembleChain(q)
    BY <1>0, <1>2, <2>6 DEF WriteKeyFile, DeleteKeyFile, DeleteFails, AssembleChain, TypeOK
  <2>7. ASSUME NEW id \in CAIds, InsertCA(q, id) \/ InsertCACancelled(q, id)
        PROVE  SignerIsIssuer(q)'
    BY <1>2, <2>7 DEF InsertCA, InsertCACancelled
  <2>8. ASSUME NEW s \in Serials, InsertCertificate(q, s) \/ InsertCertificateCancelled(q, s)
        PROVE  SignerIsIssuer(q)'
    BY <1>2, <2>8 DEF InsertCertificate, InsertCertificateCancelled
  <2> QED BY <1>6, <2>1, <2>2, <2>3, <2>4, <2>5, <2>6, <2>7, <2>8 DEF Step
<1>7. CASE SetClock \/ UNCHANGED vars
  BY <1>2, <1>7 DEF SetClock, vars
<1>8. CASE Restart
  BY <1>1, <1>8 DEF Restart
<1> QED BY <1>3, <1>4, <1>5, <1>6, <1>7, <1>8 DEF Next

(* Every row is signed with the key that its issuer's row certifies. *)
LEMMA ChainStep == IInv /\ ~LateCancel /\ [Next]_vars => ChainHolds'
<1> SUFFICES ASSUME IInv, ~LateCancel, [Next]_vars PROVE ChainHolds'
  OBVIOUS
<1>0. WithinIssuer /\ ChainHolds /\ WithinIssuer'
  BY WithinStep DEF IInv, SignerInv
<1>1. ASSUME NEW r \in Requests, NEW id \in CAIds, AddsCA(r, id) PROVE ChainHolds'
  <2>1. pc[r] = "insert" /\ Creates(r) /\ UNCHANGED certificates
    BY <1>1 DEF AddsCA
  <2>2. /\ DOMAIN cas' = DOMAIN cas \cup {id} /\ cas'[id] = NewCA(r)
        /\ \A ca \in DOMAIN cas : cas'[ca] = cas[ca]
    BY <1>1, AddedRows
  <2>3. /\ NewCA(r).parent = arg[r].parent
        /\ NewCA(r).cert.subject = local[r].pair
        /\ NewCA(r).cert.signedBy = local[r].signer
    BY DEF NewCA, NewCertificate
  <2>4. local[r].signer = IF local[r].issuer = NULL THEN local[r].pair
                          ELSE local[r].issuer.cert.subject
    BY <2>1, FlowOf DEF CreateFlow, IInv, SignerInv, HasIssuer
  <2>5. LET issuer == IF cas'[id].parent = NULL THEN id ELSE cas'[id].parent
        IN  cas'[id].cert.signedBy = cas'[issuer].cert.subject
    BY <2>1, <2>2, <2>3, <2>4, IssuerFound DEF HasIssuer
  <2>6. ASSUME NEW ca \in DOMAIN cas
        PROVE  LET issuer == IF cas'[ca].parent = NULL THEN ca ELSE cas'[ca].parent
               IN  cas'[ca].cert.signedBy = cas'[issuer].cert.subject
    BY <1>0, <2>2, <2>6 DEF ChainHolds, WithinIssuer
  <2>7. \A s \in DOMAIN certificates :
          certificates[s].cert.signedBy = cas'[certificates[s].ca].cert.subject
    BY <1>0, <2>2 DEF ChainHolds, WithinIssuer
  <2> QED BY <1>0, <2>1, <2>2, <2>5, <2>6, <2>7 DEF ChainHolds
<1>2. ASSUME NEW r \in Requests, NEW s \in Serials, AddsCertificate(r, s) PROVE ChainHolds'
  <2>1. pc[r] = "insert" /\ ~Creates(r) /\ UNCHANGED cas
    BY <1>2 DEF AddsCertificate
  <2>2. /\ DOMAIN certificates' = DOMAIN certificates \cup {s} /\ certificates'[s] = NewRow(r)
        /\ \A t \in DOMAIN certificates : certificates'[t] = certificates[t]
    BY <1>2, AddedRows
  <2>3. NewRow(r).ca = arg[r].ca /\ NewRow(r).cert.signedBy = local[r].signer
    BY DEF NewRow, NewCertificate
  <2>4. local[r].signer = IF local[r].issuer = NULL THEN local[r].pair
                          ELSE local[r].issuer.cert.subject
    BY <2>1, FlowOf DEF IssueFlow, IInv, SignerInv, HasIssuer
  <2>5. local[r].signer = cas[arg[r].ca].cert.subject
    BY <2>1, <2>4, IssuerFound DEF HasIssuer
  <2> QED BY <1>0, <2>1, <2>2, <2>3, <2>5 DEF ChainHolds
<1>3. CASE UNCHANGED <<cas, certificates>>
  BY <1>0, <1>3 DEF ChainHolds
<1> QED BY <1>1, <1>2, <1>3, TablesStep

-----------------------------------------------------------------------------
(* The invariant holds *)

LEMMA InitInv == Init => IInv
<1> SUFFICES ASSUME Init PROVE IInv
  OBVIOUS
<1> USE DEF Init, EmptyMap
<1>1. TypeOK
  <2>1. NoLocals \in Locals
    BY DEF NoLocals, Locals
  <2> QED BY <2>1, IssuanceBounds DEF TypeOK, IsMap, Steps, Statuses
<1>2. FlowInv
  BY DEF FlowInv
<1>3. IssuerInv /\ WithinIssuer
  BY DEF IssuerInv, ReadIssuer, WithinIssuer, HasIssuer, Dated
<1>4. PairInv
  BY DEF PairInv, KeyHasOneHome, HasPair, NoLocals
<1>5. FileInv
  BY DEF FileInv, CreatedHasItsKey, HoldsKey, NoLocals
<1>6. RowInv
  BY DEF RowInv, EveryRowHasItsKey, OneRowPerKey, NoStrayKeys, Named, HoldsKey
<1>7. SignerInv
  BY <1>3 DEF SignerInv, ChainHolds, HasIssuer
<1> QED BY <1>1, <1>2, <1>3, <1>4, <1>5, <1>6, <1>7 DEF IInv

LEMMA NextInv == IInv /\ [Next]_vars => IInv'
<1> SUFFICES ASSUME IInv, [Next]_vars PROVE IInv'
  OBVIOUS
<1>1. ~LateCancel => SignerInv'
  BY ChainStep, RequestSignerStep DEF SignerInv, SignerIsIssuer
<1> QED
  BY <1>1, TypeStep, FlowStep, IssuerStep, WithinStep, PairStep, FileStep, RowStep DEF IInv

(* The invariant holds in every reachable state, for every interleaving of *)
(* the requests, every failure and every crash of the process.             *)
THEOREM Invariance == Spec => []IInv
  BY InitInv, NextInv, PTL DEF Spec

(* The directory, the tables and the variables of the requests keep their  *)
(* types.                                                                  *)
THEOREM TypeCorrect == Spec => []TypeOK
<1>1. IInv => TypeOK
  BY DEF IInv
<1> QED BY <1>1, Invariance, PTL

(* CreateCA and IssueCertificate never record a certificate that outlasts  *)
(* its issuer or is below a CA of the wrong level, although the issuer is  *)
(* checked long before the insert.                                         *)
THEOREM NeverBeyondIssuer == Spec => []WithinIssuer
<1>1. IInv => WithinIssuer
  BY DEF IInv
<1> QED BY <1>1, Invariance, PTL

(* A private key is in one file or in one response, never in both, and the *)
(* key of a CSR is in neither.                                             *)
THEOREM KeysStayHome == Spec => []KeyHasOneHome
<1>1. IInv => KeyHasOneHome
  BY DEF IInv, PairInv
<1> QED BY <1>1, Invariance, PTL

(* What a client was told was created keeps its key, even if inserts may   *)
(* be done and yet be reported as cancelled.                               *)
THEOREM ConfirmedKeysStay == Spec => []CreatedHasItsKey
<1>1. IInv => CreatedHasItsKey
  BY DEF IInv, FileInv
<1> QED BY <1>1, Invariance, PTL

(* If the driver reports the insert of a row as failed only when it was    *)
(* not done, then no failure, collision or crash leaves a row without the  *)
(* key that it names.                                                      *)
THEOREM RowsHaveKeys == ASSUME ~LateCancel PROVE Spec => []EveryRowHasItsKey
<1>1. IInv => EveryRowHasItsKey
  BY DEF IInv, RowInv
<1> QED BY <1>1, Invariance, PTL

(* Under the same condition the only files without a row are those of the  *)
(* requests under way and those that the program knowingly gave up.        *)
THEOREM NoKeyLeftOver == ASSUME ~LateCancel PROVE Spec => []NoStrayKeys
<1>1. IInv => NoStrayKeys
  BY DEF IInv, RowInv
<1> QED BY <1>1, Invariance, PTL

(* Under the same condition no two rows share a key, although no UNIQUE    *)
(* constraint says so.                                                     *)
THEOREM KeysAreNotShared == ASSUME ~LateCancel PROVE Spec => []OneRowPerKey
<1>1. IInv => OneRowPerKey
  BY DEF IInv, RowInv
<1> QED BY <1>1, Invariance, PTL

(* Under the same condition every recorded certificate is signed with the  *)
(* key that its issuer certifies, up to a root that signed itself.         *)
THEOREM ChainsAreSigned == ASSUME ~LateCancel PROVE Spec => []ChainHolds
<1>1. IInv => ChainHolds
  BY DEF IInv, SignerInv
<1> QED BY <1>1, Invariance, PTL
=============================================================================
