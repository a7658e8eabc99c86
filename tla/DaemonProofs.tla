---------------------------- MODULE DaemonProofs ----------------------------
(***************************************************************************)
(* Proofs, for any number of processes, clients, tokens and migrations,    *)
(* that Daemon keeps its invariant, and the safety properties that follow  *)
(* from it.                                                                *)
(***************************************************************************)
EXTENDS Daemon, TLAPS

-----------------------------------------------------------------------------
(* The invariant *)

(* The steps after Open, until the store is closed. *)
Opened == {"check", "apply", "record", "commit", "wire", "generate", "insert", "print",
           "select", "shutdown", "await"}

Migrated == {"wire", "generate", "insert", "print", "select", "shutdown", "await"}

InTx == {"record", "commit"}

(* The steps that a process with an HTTP server can be at. *)
Serving == {"select", "shutdown", "await", "cleanup", "exit"}

(* The write transaction belongs to a process between Begin and Commit,    *)
(* and has the file that this process is at, which nobody applied since.   *)
TxInv ==
    /\ \A p \in Processes : pc[p] \in InTx => tx # NULL /\ tx.owner = p
    /\ tx # NULL =>
         /\ pc[tx.owner] \in InTx
         /\ tx.tables = {mig[tx.owner]}
         /\ tx.recorded = IF pc[tx.owner] = "commit" THEN {mig[tx.owner]} ELSE {}

(* migrate has every file before the one at hand, and then all of them.    *)
MigrateInv ==
    \A p \in Processes :
        /\ pc[p] \in Opened => mig[p] \in Nat \ {0} /\ 1 .. (mig[p] - 1) \subseteq recorded
        /\ pc[p] \in {"apply", "record", "commit"} => mig[p] \in Files
        /\ pc[p] \in Migrated => tables = Files
        /\ http[p] # "none" => tables = Files

(* What the goroutine of ServeTLS has done, against where serve is.  Only  *)
(* a server that was not told to stop is reached through the listener.     *)
ServerInv ==
    \A p \in Processes :
        /\ pc[p] # "down" => cmd[p] \in Commands
        /\ http[p] # "none" => pc[p] \in Serving /\ cmd[p] = "serve"
        /\ pc[p] \in {"select", "shutdown", "await"} => http[p] # "none"
        /\ pc[p] \in {"generate", "insert", "print"} => cmd[p] = "token"
        /\ pc[p] \in {"shutdown", "await"} => signalled[p]
        /\ errCh[p] # NULL => pc[p] \in Serving \cup {"down"}
        /\ errCh[p] = "ok" => pc[p] # "select"
        /\ listener = p /\ http[p] # "none" => pc[p] = "select" /\ errCh[p] = NULL
        /\ pc[p] \notin {"cleanup", "exit", "down"} => result[p] = NULL

(* What is printed is in the table, and what a client was told of is       *)
(* printed.                                                                *)
TokenInv ==
    /\ printed \subseteq tokens
    /\ \A r \in Requests : req[r].known => req[r].token \in printed
    /\ \A p \in Processes : pc[p] \in {"insert", "print"} => token[p] \in Tokens
    /\ \A p \in Processes : pc[p] = "print" => token[p] \in tokens

(* A request that is not answered is with a process whose server reads     *)
(* requests; a shutdown that ended has waited for all of them.             *)
ActiveInv ==
    /\ \A r \in Requests : req[r].st \in {"auth", "handle"} =>
         req[r].proc \in Processes /\ http[req[r].proc] # "none"
    /\ \A p \in Processes : pc[p] = "await" => Active(p) = {}

IInv ==
    /\ TypeOK
    /\ SchemaWhole /\ TxInv /\ MigrateInv
    /\ ServerInv /\ ActiveInv
    /\ TokenInv /\ PrintedIsAccepted
    /\ CleanExit

-----------------------------------------------------------------------------
(* Types *)

(* What becomes of a request that is cut off. *)
Cut(q, res) == [q EXCEPT !.st = "cut", !.why = res]

(* Only its state changes. *)
LEMMA CutRequest ==
    ASSUME NEW q \in RequestStates, NEW res \in Results
    PROVE  /\ Cut(q, res) \in RequestStates
           /\ Cut(q, res).st = "cut" /\ Cut(q, res).why = res
           /\ Cut(q, res).token = q.token /\ Cut(q, res).known = q.known
  BY DEF RequestStates, Cut

(* When a process is gone, the requests it had read are cut off, and the   *)
(* others are as they were.                                                *)
LEMMA GoneRequests ==
    ASSUME req \in [Requests -> RequestStates], NEW p \in Processes, NEW res \in Results,
           Gone(p, res)
    PROVE  /\ req' \in [Requests -> RequestStates]
           /\ \A r \in Requests : r \notin Active(p) => req'[r] = req[r]
           /\ \A r \in Active(p) :
                /\ req'[r].st = "cut" /\ req'[r].why = res
                /\ req'[r].token = req[r].token /\ req'[r].known = req[r].known
<1>1. req' = [r \in Requests |-> IF r \in Active(p) THEN Cut(req[r], res) ELSE req[r]]
  BY DEF Gone, Cut
<1>2. \A r \in Requests : req[r] \in RequestStates
  OBVIOUS
<1>3. Active(p) \subseteq Requests
  BY DEF Active
<1> QED BY <1>1, <1>2, <1>3, CutRequest

(* The type invariant is preserved, given the rest of the invariant.       *)
LEMMA TypeStep == IInv /\ [Next]_vars => TypeOK'
<1> SUFFICES ASSUME IInv, [Next]_vars PROVE TypeOK'
  OBVIOUS
<1>0. TypeOK /\ TxInv /\ MigrateInv /\ ActiveInv
  BY DEF IInv
<1> USE DEF Goto, Returns, disk, proc, Steps, Starting
<1>1. ASSUME NEW p \in Processes, Main(p) PROVE TypeOK'
  <2>1. CASE Load(p)
    BY <1>0, <2>1 DEF TypeOK, Load
  <2>2. CASE Listen(p)
    BY <1>0, <2>2 DEF TypeOK, Listen, Results
  <2>3. CASE Open(p)
    BY <1>0, <2>3, MigrationsAssumption DEF TypeOK, Open
  <2>4. CASE CheckMigration(p)
    BY <1>0, <2>4, MigrationsAssumption DEF TypeOK, CheckMigration, Files
  <2>5. CASE ApplyMigration(p)
    BY <1>0, <2>5 DEF TypeOK, ApplyMigration, MigrateInv, Transactions, Results
  <2>6. CASE RecordMigration(p)
    BY <1>0, <2>6 DEF TypeOK, RecordMigration, TxInv, InTx, MigrateInv, Transactions
  <2>7. CASE CommitMigration(p)
    <3>1. mig[p] \in Files /\ tx \in Transactions
      BY <1>0, <2>7 DEF TypeOK, CommitMigration, TxInv, InTx, MigrateInv
    <3>2. mig[p] + 1 \in 0 .. Migrations + 1
      BY <3>1, MigrationsAssumption DEF Files
    <3>3. tx.tables \subseteq Files /\ tx.recorded \subseteq Files
      BY <3>1 DEF Transactions
    <3> QED BY <1>0, <2>7, <3>2, <3>3 DEF TypeOK, CommitMigration
  <2>8. CASE Busy(p)
    BY <1>0, <2>8 DEF TypeOK, Busy, Results
  <2>9. CASE Wire(p)
    BY <1>0, <2>9 DEF TypeOK, Wire
  <2>10. ASSUME NEW t \in Tokens, GenerateToken(p, t) PROVE TypeOK'
    BY <1>0, <2>10 DEF TypeOK, GenerateToken
  <2>11. CASE CreateToken(p)
    BY <2>11 DEF IInv, TokenInv, TypeOK, CreateToken
  <2>12. CASE PrintToken(p)
    BY <2>12 DEF IInv, TokenInv, TypeOK, PrintToken, Results
  <2>13. CASE SelectErr(p) \/ ShutdownTimesOut(p) \/ Await(p)
    BY <1>0, <2>13 DEF TypeOK, SelectErr, ShutdownTimesOut, Await, Results
  <2>14. CASE SelectDone(p) \/ ShutdownDone(p) \/ Cleanup(p)
    BY <1>0, <2>14 DEF TypeOK, SelectDone, ShutdownDone, Cleanup
  <2>15. CASE Exit(p)
    <3>1. result[p] \in Results
      BY <1>0 DEF TypeOK
    <3>2. req' \in [Requests -> RequestStates]
      BY <1>0, <2>15, <3>1, GoneRequests DEF TypeOK, Exit
    <3> QED BY <1>0, <2>15, <3>1, <3>2 DEF TypeOK, Exit, Gone, Unlock
  <2> QED
    BY <1>1, <2>1, <2>2, <2>3, <2>4, <2>5, <2>6, <2>7, <2>8, <2>9, <2>10, <2>11, <2>12,
       <2>13, <2>14, <2>15
    DEF Main
<1>2. ASSUME NEW p \in Processes, Server(p) \/ Fails(p) \/ ServeFails(p) PROVE TypeOK'
  <2>1. CASE Server(p)
    BY <1>0, <2>1 DEF TypeOK, Server, ServeStarts, ServeReturns
  <2>2. CASE Fails(p)
    BY <1>0, <2>2 DEF TypeOK, Fails, Unlock, Results
  <2>3. CASE ServeFails(p)
    BY <1>0, <2>3 DEF TypeOK, ServeFails
  <2> QED BY <1>2, <2>1, <2>2, <2>3
<1>3. ASSUME NEW p \in Processes, Operator(p) PROVE TypeOK'
  <2>1. ASSUME NEW c \in Commands, Start(p, c) PROVE TypeOK'
    BY <1>0, <2>1, MigrationsAssumption DEF TypeOK, Start, Results
  <2>2. CASE Signal(p)
    BY <1>0, <2>2 DEF TypeOK, Signal
  <2>3. CASE Killed(p)
    <3>1. req' \in [Requests -> RequestStates]
      BY <1>0, <2>3, GoneRequests DEF TypeOK, Killed, Results
    <3> QED BY <1>0, <2>3, <3>1 DEF TypeOK, Killed, Gone, Unlock, Results
  <2> QED BY <1>3, <2>1, <2>2, <2>3 DEF Operator
<1>4. ASSUME NEW r \in Requests, Client(r) PROVE TypeOK'
  <2>1. ASSUME NEW t \in Tokens \cup {NoToken}, Send(r, t) PROVE TypeOK'
    BY <1>0, <2>1 DEF TypeOK, Send, RequestStates, Results
  <2>2. ASSUME NEW st \in {"handle", "unauthorized", "closed", "failed"}, Authenticate(r, st)
        PROVE  TypeOK'
    BY <1>0, <2>2 DEF TypeOK, Authenticate, RequestStates
  <2>3. CASE Handle(r)
    BY <1>0, <2>3 DEF TypeOK, Handle, RequestStates
  <2>4. CASE Received(r)
    BY <1>0, <2>4 DEF TypeOK, Received, RequestStates, NoRequest, Results
  <2> QED BY <1>4, <2>1, <2>2, <2>3, <2>4 DEF Client
<1>5. CASE UNCHANGED vars
  BY <1>0, <1>5 DEF TypeOK, vars
<1> QED BY <1>1, <1>2, <1>3, <1>4, <1>5 DEF Next

-----------------------------------------------------------------------------
(* Migrations *)

(* A process that neither begins nor commits a transaction keeps what is   *)
(* known of the one that is open, also when it rolls back its own.         *)
LEMMA TxKept ==
    ASSUME IInv, NEW p \in Processes, pc'[p] \notin InTx,
           \A q \in Processes \ {p} : pc'[q] = pc[q] /\ mig'[q] = mig[q],
           Unlock(p) \/ (pc[p] \notin InTx /\ tx' = tx)
    PROVE  TxInv'
<1>0. TypeOK /\ TxInv
  BY DEF IInv
<1>1. CASE tx = NULL \/ tx.owner = p
  <2>1. \A q \in Processes : pc'[q] \notin InTx
    BY <1>0, <1>1 DEF TxInv
  <2>2. tx' = NULL
    BY <1>0, <1>1 DEF TxInv, Unlock
  <2> QED BY <2>1, <2>2 DEF TxInv
<1>2. CASE tx # NULL /\ tx.owner # p
  <2>1. tx' = tx /\ tx.owner \in Processes \ {p}
    BY <1>0, <1>2 DEF TypeOK, Transactions, Unlock
  <2> QED BY <1>0, <1>2, <2>1 DEF TxInv
<1> QED BY <1>1, <1>2

(* A process that takes no step of migrate, and no step into it, disturbs  *)
(* nothing of the schema; it may leave migrate, and release the lock.      *)
LEMMA SchemaKept ==
    ASSUME IInv, NEW p \in Processes, UNCHANGED <<recorded, tables, mig>>,
           \A q \in Processes \ {p} : pc'[q] = pc[q] /\ http'[q] = http[q],
           pc'[p] = pc[p] \/ pc'[p] \notin Opened \/ (pc[p] \in Migrated /\ pc'[p] \in Migrated),
           http'[p] \in {http[p], "none"} \/ pc[p] \in Migrated \/ http[p] # "none",
           \/ pc'[p] \notin InTx /\ Unlock(p)
           \/ tx' = tx /\ (pc'[p] = pc[p] \/ pc[p] \notin InTx)
    PROVE  SchemaWhole' /\ TxInv' /\ MigrateInv'
<1>0. TypeOK /\ SchemaWhole /\ TxInv /\ MigrateInv
  BY DEF IInv
<1>1. SchemaWhole'
  BY <1>0 DEF SchemaWhole
<1>2. MigrateInv'
  BY <1>0 DEF MigrateInv, Opened, Migrated
<1>3. TxInv'
  <2>1. CASE pc'[p] \notin InTx
    BY <2>1, TxKept
  <2>2. CASE pc'[p] \in InTx
    <3>1. tx' = tx /\ \A q \in Processes : pc'[q] = pc[q]
      BY <2>2 DEF InTx, Opened, Migrated
    <3>2. tx = NULL \/ tx.owner \in Processes
      BY <1>0 DEF TypeOK, Transactions
    <3> QED BY <1>0, <3>1, <3>2 DEF TxInv
  <2> QED BY <2>1, <2>2
<1> QED BY <1>1, <1>2, <1>3

(* The schema stays whole, whichever processes migrate it and die.         *)
LEMMA SchemaStep == IInv /\ [Next]_vars => SchemaWhole' /\ TxInv' /\ MigrateInv'
<1> DEFINE Schema == SchemaWhole /\ TxInv /\ MigrateInv
<1> SUFFICES ASSUME IInv, [Next]_vars PROVE Schema'
  OBVIOUS
<1>0. TypeOK /\ SchemaWhole /\ TxInv /\ MigrateInv /\ TypeOK'
  BY TypeStep DEF IInv
<1> USE DEF Goto, Returns, disk, proc
<1> USE DEF Steps, Starting
<1>1. ASSUME NEW p \in Processes, Main(p) PROVE Schema'
  <2>1. CASE Load(p) \/ Listen(p) \/ Wire(p)
    BY <1>0, <2>1, SchemaKept DEF TypeOK, Load, Listen, Wire, Opened, Migrated, InTx
  <2>3. CASE Open(p)
    <3>1. SchemaWhole'
      BY <1>0, <2>3 DEF SchemaWhole, Open
    <3>2. MigrateInv'
      BY <1>0, <2>3 DEF MigrateInv, Open, TypeOK, Opened, Migrated
    <3>3. TxInv'
      BY <1>0, <2>3, TxKept DEF Open, TypeOK, InTx
    <3> QED BY <3>1, <3>2, <3>3
  <2>4. CASE CheckMigration(p)
    <3>1. SchemaWhole'
      BY <1>0, <2>4 DEF SchemaWhole, CheckMigration
    <3>2. TxInv'
      BY <1>0, <2>4, TxKept DEF CheckMigration, TypeOK, InTx
    <3>3. mig[p] \in Nat \ {0} /\ 1 .. (mig[p] - 1) \subseteq recorded
      BY <1>0, <2>4 DEF MigrateInv, CheckMigration, Opened
    <3>4. CASE mig[p] > Migrations
      <4>1. Files \subseteq recorded
        BY <3>3, <3>4, MigrationsAssumption DEF Files
      <4>2. tables = Files
        BY <1>0, <4>1 DEF SchemaWhole, TypeOK
      <4>3. MigrateInv'
        BY <1>0, <2>4, <3>3, <3>4, <4>2
        DEF MigrateInv, CheckMigration, TypeOK, Opened, Migrated
      <4> QED BY <3>1, <3>2, <4>3
    <3>5. CASE mig[p] \in Files /\ mig[p] \in recorded
      <4>1. 1 .. (mig[p] + 1 - 1) \subseteq recorded
        BY <3>3, <3>5
      <4>2. MigrateInv'
        BY <1>0, <2>4, <3>3, <3>5, <4>1, MigrationsAssumption
        DEF MigrateInv, CheckMigration, TypeOK, Opened, Migrated, Files
      <4> QED BY <3>1, <3>2, <4>2
    <3>6. CASE mig[p] \in Files /\ mig[p] \notin recorded
      <4>1. MigrateInv'
        BY <1>0, <2>4, <3>3, <3>6, MigrationsAssumption
        DEF MigrateInv, CheckMigration, TypeOK, Opened, Migrated, Files
      <4> QED BY <3>1, <3>2, <4>1
    <3> QED BY <3>3, <3>4, <3>5, <3>6, MigrationsAssumption DEF Files
  <2>5. CASE ApplyMigration(p)
    <3>1. SchemaWhole'
      BY <1>0, <2>5 DEF SchemaWhole, ApplyMigration
    <3>2. MigrateInv'
      BY <1>0, <2>5 DEF MigrateInv, ApplyMigration, TypeOK, Opened, Migrated
    <3>3. CASE mig[p] \in tables
      <4>1. TxInv'
        BY <1>0, <2>5, <3>3, TxKept DEF ApplyMigration, TypeOK, InTx
      <4> QED BY <3>1, <3>2, <4>1
    <3>4. CASE mig[p] \notin tables
      <4>1. /\ tx' = [owner |-> p, tables |-> {mig[p]}, recorded |-> {}]
            /\ pc' = [pc EXCEPT ![p] = "record"] /\ mig' = mig
        BY <2>5, <3>4 DEF ApplyMigration
      <4>2. tx'.owner = p /\ tx'.tables = {mig'[p]} /\ tx'.recorded = {}
        BY <4>1
      <4>3. tx' # NULL
        <5>1. mig[p] \in Files
          BY <1>0, <2>5 DEF MigrateInv, ApplyMigration
        <5>2. tx' \in Transactions
          BY <4>1, <5>1 DEF Transactions
        <5> QED BY <5>2, NoTransaction
      <4>4. pc'[p] = "record" /\ \A q \in Processes \ {p} : pc'[q] = pc[q]
        BY <1>0, <4>1 DEF TypeOK
      <4>5. \A q \in Processes : pc[q] \notin InTx
        BY <1>0, <2>5 DEF TxInv, ApplyMigration
      <4>6. TxInv'
        BY <4>2, <4>3, <4>4, <4>5 DEF TxInv, InTx
      <4> QED BY <3>1, <3>2, <4>6
    <3> QED BY <3>3, <3>4
  <2>6. CASE RecordMigration(p)
    <3>1. SchemaWhole'
      BY <1>0, <2>6 DEF SchemaWhole, RecordMigration
    <3>2. MigrateInv'
      BY <1>0, <2>6 DEF MigrateInv, RecordMigration, TypeOK, Opened, Migrated
    <3>3. tx \in Transactions /\ tx.owner = p /\ tx.tables = {mig[p]}
      BY <1>0, <2>6 DEF TxInv, RecordMigration, TypeOK, InTx
    <3>4. tx' \in Transactions /\ tx'.owner = p /\ tx'.tables = {mig[p]}
            /\ tx'.recorded = {mig[p]}
      BY <1>0, <2>6, <3>3 DEF RecordMigration, Transactions, TypeOK, MigrateInv
    <3>5. TxInv'
      BY <1>0, <2>6, <3>3, <3>4, NoTransaction DEF TxInv, RecordMigration, TypeOK, InTx
    <3> QED BY <3>1, <3>2, <3>5
  <2>7. CASE CommitMigration(p)
    <3>1. /\ tx.owner = p /\ tx.tables = {mig[p]} /\ tx.recorded = {mig[p]}
          /\ mig[p] \in Files /\ 1 .. (mig[p] - 1) \subseteq recorded
      BY <1>0, <2>7 DEF TxInv, MigrateInv, CommitMigration, InTx, Opened
    <3>2. tables' = tables \cup {mig[p]} /\ recorded' = recorded \cup {mig[p]}
      BY <2>7, <3>1 DEF CommitMigration
    <3>3. 1 .. mig[p] \subseteq recorded'
      BY <3>1, <3>2, MigrationsAssumption DEF Files
    <3>4. SchemaWhole'
      BY <1>0, <3>2, <3>3 DEF SchemaWhole
    <3>5. MigrateInv'
      BY <1>0, <2>7, <3>1, <3>2, <3>3, MigrationsAssumption
      DEF MigrateInv, CommitMigration, TypeOK, Opened, Migrated, Files
    <3>6. TxInv'
      BY <1>0, <2>7, <3>1 DEF TxInv, CommitMigration, TypeOK, InTx
    <3> QED BY <3>4, <3>5, <3>6
  <2>8. CASE Busy(p)
    BY <1>0, <2>8, SchemaKept DEF TypeOK, Busy, Opened, Migrated, InTx
  <2>10. ASSUME NEW t \in Tokens, GenerateToken(p, t) PROVE Schema'
    BY <1>0, <2>10, SchemaKept DEF TypeOK, GenerateToken, Opened, Migrated, InTx
  <2>11. CASE CreateToken(p) \/ PrintToken(p)
    BY <1>0, <2>11, SchemaKept DEF TypeOK, CreateToken, PrintToken, Opened, Migrated, InTx
  <2>13. CASE SelectErr(p) \/ ShutdownTimesOut(p) \/ Await(p)
    BY <1>0, <2>13, SchemaKept
    DEF TypeOK, SelectErr, ShutdownTimesOut, Await, Opened, Migrated, InTx
  <2>14. CASE SelectDone(p) \/ ShutdownDone(p) \/ Cleanup(p)
    BY <1>0, <2>14, SchemaKept
    DEF TypeOK, SelectDone, ShutdownDone, Cleanup, Opened, Migrated, InTx
  <2>15. CASE Exit(p)
    <3>1. Gone(p, result[p])
      BY <2>15 DEF Exit
    <3> QED BY <1>0, <3>1, SchemaKept DEF TypeOK, Gone, Opened, InTx
  <2> QED
    BY <1>1, <2>1, <2>3, <2>4, <2>5, <2>6, <2>7, <2>8, <2>10, <2>11, <2>13, <2>14, <2>15
    DEF Main
<1>2. ASSUME NEW p \in Processes, Server(p) \/ Fails(p) \/ ServeFails(p) PROVE Schema'
  <2>1. CASE Server(p) \/ ServeFails(p)
    BY <1>0, <2>1, SchemaKept DEF TypeOK, Server, ServeStarts, ServeReturns, ServeFails
  <2>2. CASE Fails(p)
    BY <1>0, <2>2, SchemaKept DEF TypeOK, Fails, Opened, InTx
  <2> QED BY <1>2, <2>1, <2>2
<1>3. ASSUME NEW p \in Processes, Operator(p) PROVE Schema'
  <2>1. ASSUME NEW c \in Commands, Start(p, c) PROVE Schema'
    <3>1. SchemaWhole'
      BY <1>0, <2>1 DEF SchemaWhole, Start
    <3>2. MigrateInv'
      BY <1>0, <2>1 DEF MigrateInv, Start, TypeOK, Opened, Migrated
    <3>3. TxInv'
      BY <1>0, <2>1, TxKept DEF Start, TypeOK, InTx
    <3> QED BY <3>1, <3>2, <3>3
  <2>2. CASE Signal(p)
    BY <1>0, <2>2, SchemaKept DEF TypeOK, Signal
  <2>3. CASE Killed(p)
    <3>1. Gone(p, "killed")
      BY <2>3 DEF Killed
    <3> QED BY <1>0, <3>1, SchemaKept DEF TypeOK, Gone, Opened, InTx
  <2> QED BY <1>3, <2>1, <2>2, <2>3 DEF Operator
<1>4. CASE UNCHANGED <<recorded, tables, tx, pc, mig, http>>
  BY <1>0, <1>4 DEF SchemaWhole, TxInv, MigrateInv
<1> QED
  BY <1>1, <1>2, <1>3, <1>4
  DEF Next, vars, Client, Send, Authenticate, Handle, Received

-----------------------------------------------------------------------------
(* Servers *)

(* ServeTLS and the main goroutine stay in step, and only a server that    *)
(* was not told to stop can be reached.                                    *)
LEMMA ServerStep == IInv /\ [Next]_vars => ServerInv'
<1> SUFFICES ASSUME IInv, [Next]_vars PROVE ServerInv'
  OBVIOUS
<1>0. TypeOK /\ ServerInv
  BY DEF IInv
<1> USE NamesDiffer DEF Goto, Returns, disk, proc, Starting, Serving
<1>1. ASSUME NEW p \in Processes, Main(p) PROVE ServerInv'
  <2>1. CASE Load(p)
    BY <1>0, <2>1 DEF TypeOK, ServerInv, Load
  <2>2. CASE Listen(p)
    BY <1>0, <2>2 DEF TypeOK, ServerInv, Listen
  <2>3. CASE Open(p) \/ CheckMigration(p)
    BY <1>0, <2>3 DEF TypeOK, ServerInv, Open, CheckMigration
  <2>4. CASE ApplyMigration(p) \/ RecordMigration(p) \/ CommitMigration(p)
    BY <1>0, <2>4 DEF TypeOK, ServerInv, ApplyMigration, RecordMigration, CommitMigration
  <2>5. CASE Busy(p)
    BY <1>0, <2>5 DEF TypeOK, ServerInv, Busy
  <2>6. CASE Wire(p)
    <3>1. cmd[p] \in Commands
      BY <1>0, <2>6 DEF ServerInv, Wire
    <3> QED BY <1>0, <2>6, <3>1 DEF TypeOK, ServerInv, Wire, Commands
  <2>7. ASSUME NEW t \in Tokens, GenerateToken(p, t) PROVE ServerInv'
    BY <1>0, <2>7 DEF TypeOK, ServerInv, GenerateToken
  <2>8. CASE CreateToken(p) \/ PrintToken(p)
    BY <1>0, <2>8 DEF TypeOK, ServerInv, CreateToken, PrintToken
  <2>9. CASE SelectErr(p) \/ SelectDone(p)
    BY <1>0, <2>9 DEF TypeOK, ServerInv, SelectErr, SelectDone
  <2>10. CASE ShutdownDone(p) \/ ShutdownTimesOut(p) \/ Await(p) \/ Cleanup(p)
    BY <1>0, <2>10 DEF TypeOK, ServerInv, ShutdownDone, ShutdownTimesOut, Await, Cleanup
  <2>11. CASE Exit(p)
    BY <1>0, <2>11 DEF TypeOK, ServerInv, Exit, Gone
  <2> QED
    BY <1>1, <2>1, <2>2, <2>3, <2>4, <2>5, <2>6, <2>7, <2>8, <2>9, <2>10, <2>11 DEF Main
<1>2. ASSUME NEW p \in Processes, Server(p) \/ Fails(p) \/ ServeFails(p) PROVE ServerInv'
  <2>1. CASE Server(p)
    BY <1>0, <2>1 DEF TypeOK, ServerInv, Server, ServeStarts, ServeReturns
  <2>2. CASE Fails(p)
    BY <1>0, <2>2 DEF TypeOK, ServerInv, Fails
  <2>3. CASE ServeFails(p)
    BY <1>0, <2>3 DEF TypeOK, ServerInv, ServeFails
  <2> QED BY <1>2, <2>1, <2>2, <2>3
<1>3. ASSUME NEW p \in Processes, Operator(p) PROVE ServerInv'
  <2>1. ASSUME NEW c \in Commands, Start(p, c) PROVE ServerInv'
    BY <1>0, <2>1 DEF TypeOK, ServerInv, Start
  <2>2. CASE Signal(p)
    BY <1>0, <2>2 DEF TypeOK, ServerInv, Signal
  <2>3. CASE Killed(p)
    BY <1>0, <2>3 DEF TypeOK, ServerInv, Killed, Gone
  <2> QED BY <1>3, <2>1, <2>2, <2>3 DEF Operator
<1>4. CASE UNCHANGED <<listener, proc>>
  BY <1>0, <1>4 DEF ServerInv
<1> QED
  BY <1>1, <1>2, <1>3, <1>4
  DEF Next, vars, Client, Send, Authenticate, Handle, Received

-----------------------------------------------------------------------------
(* Requests *)

(* Nothing but the state of a request changes while it is handled. *)
LEMMA RequestMoves ==
    ASSUME req \in [Requests -> RequestStates], NEW r \in Requests, NEW st,
           req' = [req EXCEPT ![r].st = st]
    PROVE  /\ \A q \in Requests \ {r} : req'[q] = req[q]
           /\ req'[r].st = st
           /\ req'[r].proc = req[r].proc /\ req'[r].token = req[r].token
           /\ req'[r].known = req[r].known /\ req'[r].why = req[r].why
  BY DEF RequestStates

(* A request is only ever read by a server that was not told to stop. *)
LEMMA SentToServer ==
    ASSUME IInv, NEW r \in Requests, NEW t, Send(r, t)
    PROVE  /\ listener \in Processes
           /\ http[listener] = "accepting"
           /\ pc[listener] = "select"
  BY DEF IInv, TypeOK, Send, ServerInv

(* Requests that are not answered are with a process that has a server,    *)
(* and a shutdown that is over has left none.                              *)
LEMMA ActiveStep == IInv /\ [Next]_vars => ActiveInv'
<1> SUFFICES ASSUME IInv, [Next]_vars PROVE ActiveInv'
  OBVIOUS
<1>0. TypeOK /\ ServerInv /\ ActiveInv
  BY DEF IInv
<1> USE DEF Goto, Returns, disk, proc, Active
<1>1. ASSUME NEW p \in Processes, Exit(p) \/ Killed(p) PROVE ActiveInv'
  <2> HIDE DEF Active
  <2>1. PICK res \in Results : Gone(p, res)
    BY <1>0, <1>1 DEF TypeOK, Exit, Killed, Results
  <2>2. /\ \A r \in Requests : r \notin Active(p) => req'[r] = req[r]
        /\ \A r \in Active(p) : req'[r].st = "cut"
    BY <1>0, <2>1, GoneRequests DEF TypeOK
  <2>3. ASSUME NEW r \in Requests, req'[r].st \in {"auth", "handle"}
        PROVE  req'[r] = req[r] /\ r \notin Active(p)
    BY <2>2, <2>3
  <2>4. /\ pc'[p] = "down"
        /\ \A q \in Processes \ {p} : pc'[q] = pc[q] /\ http'[q] = http[q]
    BY <1>0, <2>1 DEF TypeOK, Gone
  <2>5. ASSUME NEW r \in Requests, req'[r].st \in {"auth", "handle"}
        PROVE  req[r].proc \in Processes \ {p} /\ http[req[r].proc] # "none"
    BY <1>0, <2>3, <2>5 DEF ActiveInv, Active
  <2> QED BY <1>0, <2>3, <2>4, <2>5 DEF ActiveInv, Active
<1>2. ASSUME NEW r \in Requests, NEW t \in Tokens \cup {NoToken}, Send(r, t) PROVE ActiveInv'
  <2>1. req'[r].proc = listener /\ \A q \in Requests \ {r} : req'[q] = req[q]
    BY <1>0, <1>2 DEF TypeOK, Send
  <2>2. UNCHANGED <<http, pc>>
    BY <1>2 DEF Send
  <2>3. listener \in Processes /\ http[listener] = "accepting" /\ pc[listener] = "select"
    BY <1>2, SentToServer
  <2> QED BY <1>0, <2>1, <2>2, <2>3 DEF ActiveInv
<1>3. ASSUME NEW r \in Requests, UNCHANGED <<http, pc>>, NEW st,
             req[r].st \in {"auth", "handle"}, req' = [req EXCEPT ![r].st = st]
      PROVE  ActiveInv'
  <2>1. req'[r].proc = req[r].proc /\ \A q \in Requests \ {r} : req'[q] = req[q]
    BY <1>0, <1>3, RequestMoves DEF TypeOK
  <2> QED BY <1>0, <1>3, <2>1 DEF ActiveInv
<1>4. ASSUME NEW r \in Requests, Received(r) PROVE ActiveInv'
  <2>1. req'[r].st = "idle" /\ \A q \in Requests \ {r} : req'[q] = req[q]
    BY <1>0, <1>4 DEF TypeOK, Received, NoRequest
  <2> QED BY <1>0, <1>4, <2>1 DEF ActiveInv, Received
<1>5. ASSUME NEW r \in Requests, Client(r) PROVE ActiveInv'
  BY <1>2, <1>3, <1>4, <1>5 DEF Client, Authenticate, Handle
<1>6. CASE UNCHANGED req /\ UNCHANGED http /\ (\A p \in Processes : pc'[p] = "await" => pc[p] = "await")
  BY <1>0, <1>6 DEF ActiveInv
<1>7. ASSUME NEW p \in Processes,
             Main(p) \/ Server(p) \/ Fails(p) \/ ServeFails(p) \/ Operator(p), ~Exit(p), ~Killed(p)
      PROVE  ActiveInv'
  <2>1. CASE ShutdownDone(p)
    BY <1>0, <2>1 DEF ActiveInv, ShutdownDone, TypeOK
  <2>2. CASE Wire(p)
    BY <1>0, <2>2 DEF ActiveInv, Wire, TypeOK
  <2>3. CASE Server(p) \/ ServeFails(p)
    BY <1>0, <2>3 DEF ActiveInv, Server, ServeStarts, ServeReturns, ServeFails, TypeOK
  <2>4. ASSUME NEW c \in Commands, Start(p, c) PROVE ActiveInv'
    BY <1>0, <2>4 DEF ActiveInv, ServerInv, Serving, Start, TypeOK
  <2>5. CASE Load(p) \/ Listen(p) \/ Open(p) \/ CheckMigration(p) \/ ApplyMigration(p)
    BY <1>0, <1>6, <2>5 DEF TypeOK, Load, Listen, Open, CheckMigration, ApplyMigration
  <2>6. CASE RecordMigration(p) \/ CommitMigration(p) \/ Busy(p) \/ CreateToken(p) \/ PrintToken(p)
    BY <1>0, <1>6, <2>6
    DEF TypeOK, RecordMigration, CommitMigration, Busy, CreateToken, PrintToken
  <2>7. ASSUME NEW t \in Tokens, GenerateToken(p, t) PROVE ActiveInv'
    BY <1>0, <1>6, <2>7 DEF TypeOK, GenerateToken
  <2>8. CASE SelectErr(p) \/ SelectDone(p) \/ ShutdownTimesOut(p) \/ Await(p) \/ Cleanup(p)
    BY <1>0, <1>6, <2>8 DEF TypeOK, SelectErr, SelectDone, ShutdownTimesOut, Await, Cleanup
  <2>9. CASE Fails(p) \/ Signal(p)
    BY <1>0, <1>6, <2>9 DEF TypeOK, Fails, Signal
  <2> QED
    BY <1>7, <2>1, <2>2, <2>3, <2>4, <2>5, <2>6, <2>7, <2>8, <2>9 DEF Main, Operator
<1>8. CASE UNCHANGED vars
  BY <1>6, <1>8 DEF vars
<1> QED BY <1>1, <1>5, <1>7, <1>8 DEF Next

(* Tokens: what is printed is in the table before, and stays there.        *)
LEMMA TokenStep == IInv /\ [Next]_vars => TokenInv' /\ PrintedIsAccepted'
<1> DEFINE Inv == TokenInv /\ PrintedIsAccepted
<1> SUFFICES ASSUME IInv, [Next]_vars PROVE Inv'
  OBVIOUS
<1>0. TypeOK /\ TokenInv /\ PrintedIsAccepted
  BY DEF IInv
<1> USE DEF Goto, Returns, disk, proc
<1>1. ASSUME NEW p \in Processes, NEW t \in Tokens, GenerateToken(p, t) PROVE Inv'
  BY <1>0, <1>1 DEF TypeOK, TokenInv, PrintedIsAccepted, GenerateToken
<1>2. ASSUME NEW p \in Processes, CreateToken(p) \/ PrintToken(p) PROVE Inv'
  BY <1>0, <1>2 DEF TypeOK, TokenInv, PrintedIsAccepted, CreateToken, PrintToken
<1>3. ASSUME NEW p \in Processes, Exit(p) \/ Killed(p) PROVE Inv'
  <2>1. PICK res \in Results : Gone(p, res)
    BY <1>0, <1>3 DEF TypeOK, Exit, Killed, Results
  <2>2. \A r \in Requests :
          /\ req'[r].known = req[r].known /\ req'[r].token = req[r].token
          /\ req'[r].st # "cut" => req'[r].st = req[r].st
    BY <1>0, <2>1, GoneRequests DEF TypeOK
  <2>3. UNCHANGED <<tokens, printed, token>> /\ \A q \in Processes : pc'[q] \in {pc[q], "down"}
    BY <1>0, <2>1 DEF Gone, TypeOK
  <2> QED BY <1>0, <2>2, <2>3 DEF TokenInv, PrintedIsAccepted
<1>4. ASSUME NEW r \in Requests, Client(r) PROVE Inv'
  <2>1. UNCHANGED <<tokens, printed, token, pc>>
    BY <1>4 DEF Client, Send, Authenticate, Handle, Received
  <2>2. SUFFICES
          /\ \A q \in Requests \ {r} : req'[q] = req[q]
          /\ req'[r].known => req'[r].token \in printed
          /\ req'[r].st = "unauthorized" => ~req'[r].known
          /\ req'[r].st \in {"handle", "done"} => req'[r].token \in tokens
    BY <1>0, <2>1 DEF TokenInv, PrintedIsAccepted
  <2>3. ASSUME NEW t \in Tokens \cup {NoToken}, Send(r, t)
        PROVE  /\ \A q \in Requests \ {r} : req'[q] = req[q]
               /\ req'[r].st \in {"unauthorized", "auth"} /\ req'[r].token = t
               /\ req'[r].known = (t \in printed)
               /\ req'[r].st = "unauthorized" => t = NoToken
    BY <1>0, <2>3 DEF TypeOK, Send
  <2>4. NoToken \notin printed
    BY <1>0, NamesDiffer DEF TypeOK
  <2>5. ASSUME NEW st \in {"handle", "unauthorized", "closed", "failed"}, Authenticate(r, st)
        PROVE  /\ \A q \in Requests \ {r} : req'[q] = req[q]
               /\ req'[r].st = st
               /\ req'[r].known = req[r].known /\ req'[r].token = req[r].token
               /\ st = "handle" => req[r].token \in tokens
               /\ st = "unauthorized" => req[r].token \notin tokens
    <3>1. req' = [req EXCEPT ![r].st = st]
      BY <2>5 DEF Authenticate
    <3>2. /\ \A q \in Requests \ {r} : req'[q] = req[q]
          /\ req'[r].st = st
          /\ req'[r].known = req[r].known /\ req'[r].token = req[r].token
      BY <1>0, <3>1, RequestMoves DEF TypeOK
    <3>3. /\ st = "handle" => req[r].token \in tokens
          /\ st = "unauthorized" => req[r].token \notin tokens
      BY <2>5 DEF Authenticate
    <3> QED BY <3>2, <3>3
  <2>6. ASSUME Handle(r)
        PROVE  /\ \A q \in Requests \ {r} : req'[q] = req[q]
               /\ req'[r].st \in {"done", "closed"} /\ req[r].st = "handle"
               /\ req'[r].known = req[r].known /\ req'[r].token = req[r].token
    <3>1. PICK st \in {"done", "closed"} : req' = [req EXCEPT ![r].st = st]
      BY <2>6 DEF Handle
    <3>2. /\ \A q \in Requests \ {r} : req'[q] = req[q]
          /\ req'[r].st = st
          /\ req'[r].known = req[r].known /\ req'[r].token = req[r].token
      BY <1>0, <3>1, RequestMoves DEF TypeOK
    <3> QED BY <2>6, <3>2 DEF Handle
  <2>7. ASSUME Received(r)
        PROVE  /\ \A q \in Requests \ {r} : req'[q] = req[q]
               /\ req'[r].st = "idle" /\ ~req'[r].known
    BY <1>0, <2>7 DEF TypeOK, Received, NoRequest
  <2>8. printed \subseteq tokens /\ (req[r].known => req[r].token \in printed)
          /\ (req[r].st \in {"handle", "done"} => req[r].token \in tokens)
    BY <1>0 DEF TokenInv, PrintedIsAccepted
  <2> QED
    BY <1>4, <2>3, <2>4, <2>5, <2>6, <2>7, <2>8 DEF Client
<1>5. CASE UNCHANGED <<tokens, printed, req>>
           /\ \A p \in Processes : pc'[p] \notin {"insert", "print"} \/ (pc'[p] = pc[p] /\ token'[p] = token[p])
  BY <1>0, <1>5 DEF TokenInv, PrintedIsAccepted
<1>6. ASSUME NEW p \in Processes,
             \/ Main(p) /\ ~(\E t \in Tokens : GenerateToken(p, t))
                  /\ ~CreateToken(p) /\ ~PrintToken(p) /\ ~Exit(p)
             \/ Server(p) \/ Fails(p) \/ ServeFails(p)
             \/ Operator(p) /\ ~Killed(p)
      PROVE  Inv'
  <2>1. CASE Load(p) \/ Listen(p) \/ Open(p) \/ CheckMigration(p) \/ ApplyMigration(p)
    BY <1>0, <1>5, <2>1 DEF TypeOK, Load, Listen, Open, CheckMigration, ApplyMigration
  <2>2. CASE RecordMigration(p) \/ CommitMigration(p) \/ Busy(p) \/ Wire(p)
    BY <1>0, <1>5, <2>2 DEF TypeOK, RecordMigration, CommitMigration, Busy, Wire
  <2>3. CASE SelectErr(p) \/ SelectDone(p) \/ ShutdownDone(p) \/ ShutdownTimesOut(p) \/ Await(p)
              \/ Cleanup(p)
    BY <1>0, <1>5, <2>3
    DEF TypeOK, SelectErr, SelectDone, ShutdownDone, ShutdownTimesOut, Await, Cleanup
  <2>4. CASE Server(p) \/ Fails(p) \/ ServeFails(p)
    BY <1>0, <1>5, <2>4 DEF TypeOK, Server, ServeStarts, ServeReturns, Fails, ServeFails
  <2>5. CASE (\E c \in Commands : Start(p, c)) \/ Signal(p)
    BY <1>0, <1>5, <2>5 DEF TypeOK, Start, Signal
  <2> QED BY <1>6, <2>1, <2>2, <2>3, <2>4, <2>5 DEF Main, Operator
<1>7. CASE UNCHANGED vars
  BY <1>5, <1>7 DEF vars
<1> QED BY <1>1, <1>2, <1>3, <1>4, <1>6, <1>7 DEF Next, Main, Operator

(* serve ends without an error only on a signal and with every request     *)
(* answered; a request is cut off only by a process that fails or dies.    *)
LEMMA CleanExitStep == IInv /\ [Next]_vars => CleanExit'
<1> SUFFICES ASSUME IInv, [Next]_vars PROVE CleanExit'
  OBVIOUS
<1>0. TypeOK /\ ServerInv /\ ActiveInv /\ CleanExit
  BY DEF IInv
<1> USE NamesDiffer DEF Goto, Returns, disk, proc, Active
<1>1. ASSUME NEW p \in Processes, NEW res \in Results, Gone(p, res),
             pc[p] # "down", res = "ok" => result[p] = "ok"
      PROVE  CleanExit'
  <2>1. /\ \A r \in Requests : r \notin Active(p) => req'[r] = req[r]
        /\ \A r \in Active(p) : req'[r].st = "cut" /\ req'[r].why = res
    BY <1>0, <1>1, GoneRequests DEF TypeOK
  <2>2. \A q \in Processes : Active(q)' \subseteq Active(q)
    BY <2>1
  <2>3. /\ UNCHANGED <<cmd, signalled, errCh>>
        /\ result'[p] = res /\ \A q \in Processes \ {p} : result'[q] = result[q]
    BY <1>0, <1>1 DEF TypeOK, Gone
  <2>4. ASSUME res = "ok" PROVE Active(p) = {}
    <3>1. CASE cmd[p] = "serve"
      BY <1>0, <1>1, <2>4, <3>1 DEF CleanExit
    <3>2. CASE cmd[p] # "serve"
      BY <1>0, <3>2 DEF ServerInv, ActiveInv
    <3> QED BY <3>1, <3>2
  <2>5. \A q \in Processes : cmd'[q] = "serve" /\ result'[q] = "ok" =>
          signalled'[q] /\ errCh'[q] = "ok" /\ Active(q)' = {}
    BY <1>0, <1>1, <2>2, <2>3 DEF CleanExit
  <2>6. \A r \in Requests : req'[r].st = "cut" => req'[r].why # "ok"
    BY <1>0, <2>1, <2>4 DEF CleanExit
  <2> QED BY <2>5, <2>6 DEF CleanExit
<1>2. ASSUME NEW p \in Processes, Exit(p) \/ Killed(p) PROVE CleanExit'
  BY <1>0, <1>1, <1>2 DEF TypeOK, Exit, Killed, Results
<1>3. ASSUME NEW r \in Requests, Client(r) PROVE CleanExit'
  <2>1. UNCHANGED proc
    BY <1>3 DEF Client, Send, Authenticate, Handle, Received
  <2>2. ASSUME NEW t \in Tokens \cup {NoToken}, Send(r, t) PROVE CleanExit'
    <3>1. /\ req'[r].proc = listener /\ req'[r].st # "cut"
          /\ \A q \in Requests \ {r} : req'[q] = req[q]
      BY <1>0, <2>2 DEF TypeOK, Send
    <3>2. listener \in Processes /\ result[listener] = NULL
      BY <1>0, <2>2, SentToServer DEF ServerInv
    <3>3. ASSUME NEW q \in Processes, result[q] = "ok" PROVE Active(q)' \subseteq Active(q)
      BY <3>1, <3>2, <3>3
    <3> QED BY <1>0, <2>1, <3>1, <3>3 DEF CleanExit
  <2>3. ASSUME NEW st, st # "cut", req[r].st \in {"auth", "handle"},
               req' = [req EXCEPT ![r].st = st]
        PROVE  CleanExit'
    <3>1. /\ req'[r].proc = req[r].proc /\ req'[r].st # "cut"
          /\ \A q \in Requests \ {r} : req'[q] = req[q]
      BY <1>0, <2>3, RequestMoves DEF TypeOK
    <3>2. \A q \in Processes : Active(q)' \subseteq Active(q)
      BY <2>3, <3>1
    <3> QED BY <1>0, <2>1, <3>1, <3>2 DEF CleanExit
  <2>4. CASE Received(r)
    <3>1. req'[r].st = "idle" /\ \A q \in Requests \ {r} : req'[q] = req[q]
      BY <1>0, <2>4 DEF TypeOK, Received, NoRequest
    <3>2. \A q \in Processes : Active(q)' \subseteq Active(q)
      BY <3>1
    <3> QED BY <1>0, <2>1, <3>1, <3>2 DEF CleanExit
  <2> QED BY <1>3, <2>2, <2>3, <2>4 DEF Client, Authenticate, Handle
<1>4. CASE /\ UNCHANGED <<cmd, req>>
           /\ \A q \in Processes : result'[q] = "ok" /\ cmd[q] = "serve" =>
                result[q] = "ok" /\ signalled'[q] = signalled[q] /\ errCh'[q] = errCh[q]
  <2>1. \A q \in Processes : Active(q)' = Active(q)
    BY <1>4
  <2> QED BY <1>0, <1>4, <2>1 DEF CleanExit
<1>5. ASSUME NEW p \in Processes, Main(p), ~Exit(p) PROVE CleanExit'
  <2>1. CASE Load(p) \/ Listen(p) \/ Open(p) \/ CheckMigration(p) \/ ApplyMigration(p)
    BY <1>0, <1>4, <2>1 DEF TypeOK, Load, Listen, Open, CheckMigration, ApplyMigration
  <2>2. CASE RecordMigration(p) \/ CommitMigration(p) \/ Busy(p) \/ Wire(p) \/ CreateToken(p)
    BY <1>0, <1>4, <2>2 DEF TypeOK, RecordMigration, CommitMigration, Busy, Wire, CreateToken
  <2>3. ASSUME NEW t \in Tokens, GenerateToken(p, t) PROVE CleanExit'
    BY <1>0, <1>4, <2>3 DEF TypeOK, GenerateToken
  <2>4. CASE PrintToken(p)
    BY <1>0, <1>4, <2>4 DEF TypeOK, ServerInv, PrintToken
  <2>5. CASE SelectErr(p)
    BY <1>0, <1>4, <2>5 DEF TypeOK, ServerInv, SelectErr
  <2>6. CASE SelectDone(p) \/ ShutdownDone(p) \/ ShutdownTimesOut(p) \/ Cleanup(p)
    BY <1>0, <1>4, <2>6 DEF TypeOK, SelectDone, ShutdownDone, ShutdownTimesOut, Cleanup
  <2>7. CASE Await(p)
    <3>1. signalled[p] /\ Active(p) = {}
      BY <1>0, <2>7 DEF ServerInv, ActiveInv, Await
    <3>2. /\ UNCHANGED <<cmd, req, signalled, errCh>>
          /\ result'[p] = errCh[p] /\ \A q \in Processes \ {p} : result'[q] = result[q]
      BY <1>0, <2>7 DEF TypeOK, Await
    <3>3. \A q \in Processes : Active(q)' = Active(q)
      BY <3>2
    <3> QED BY <1>0, <3>1, <3>2, <3>3 DEF CleanExit
  <2> QED BY <1>5, <2>1, <2>2, <2>3, <2>4, <2>5, <2>6, <2>7 DEF Main
<1>6. ASSUME NEW p \in Processes, Server(p) \/ Fails(p) \/ ServeFails(p) PROVE CleanExit'
  <2>1. CASE Server(p)
    BY <1>0, <1>4, <2>1 DEF TypeOK, CleanExit, Server, ServeStarts, ServeReturns
  <2>2. CASE Fails(p)
    BY <1>0, <1>4, <2>2 DEF TypeOK, Fails
  <2>3. CASE ServeFails(p)
    BY <1>0, <1>4, <2>3 DEF TypeOK, ServerInv, ServeFails
  <2> QED BY <1>6, <2>1, <2>2, <2>3
<1>7. ASSUME NEW p \in Processes, NEW c \in Commands, Start(p, c) PROVE CleanExit'
  <2>1. /\ UNCHANGED req /\ result'[p] = NULL
        /\ \A q \in Processes \ {p} : /\ cmd'[q] = cmd[q] /\ result'[q] = result[q]
                                      /\ signalled'[q] = signalled[q] /\ errCh'[q] = errCh[q]
    BY <1>0, <1>7 DEF TypeOK, Start
  <2>2. \A q \in Processes : Active(q)' = Active(q)
    BY <2>1
  <2> QED BY <1>0, <2>1, <2>2 DEF CleanExit
<1>8. ASSUME NEW p \in Processes, Signal(p) PROVE CleanExit'
  BY <1>0, <1>4, <1>8 DEF TypeOK, CleanExit, Signal
<1>9. CASE UNCHANGED vars
  BY <1>4, <1>9 DEF vars
<1> QED BY <1>2, <1>3, <1>5, <1>6, <1>7, <1>8, <1>9 DEF Next, Operator

-----------------------------------------------------------------------------
(* Theorems *)

(* Nothing runs yet and the database is empty: the invariant holds. *)
LEMMA InitInv == Init => IInv
<1> SUFFICES ASSUME Init PROVE IInv
  OBVIOUS
<1>1. TypeOK
  <2>1. NoRequest \in RequestStates
    BY DEF NoRequest, RequestStates, Results
  <2>2. req \in [Requests -> RequestStates]
    BY <2>1 DEF Init
  <2>3. mig \in [Processes -> 0 .. Migrations + 1]
    BY MigrationsAssumption DEF Init
  <2>4. pc \in [Processes -> Steps] /\ result \in [Processes -> Results]
    BY DEF Init, Steps, Results
  <2> QED BY <2>2, <2>3, <2>4 DEF Init, TypeOK
<1>2. SchemaWhole /\ TxInv /\ MigrateInv
  BY DEF Init, SchemaWhole, TxInv, MigrateInv, Opened, Migrated, InTx
<1>3. ServerInv
  BY NamesDiffer DEF Init, ServerInv, Serving
<1>4. \A r \in Requests : req[r].st = "idle" /\ ~req[r].known
  BY DEF Init, NoRequest
<1>5. ActiveInv /\ TokenInv /\ PrintedIsAccepted
  BY <1>4 DEF Init, ActiveInv, TokenInv, PrintedIsAccepted
<1>6. CleanExit
  BY <1>4, NamesDiffer DEF Init, CleanExit
<1> QED BY <1>1, <1>2, <1>3, <1>5, <1>6 DEF IInv

(* Every reachable state of the processes, of the database and of the      *)
(* requests satisfies the invariant.                                       *)
THEOREM Invariance == Spec => []IInv
<1>1. IInv /\ [Next]_vars => IInv'
  BY TypeStep, SchemaStep, ServerStep, ActiveStep, TokenStep, CleanExitStep DEF IInv
<1> QED BY InitInv, <1>1, PTL DEF Spec

(* Every variable keeps its type. *)
THEOREM TypeCorrect == Spec => []TypeOK
<1>1. IInv => TypeOK
  BY DEF IInv
<1> QED BY Invariance, <1>1, PTL

(* Whichever processes migrate the same database at once, and wherever     *)
(* they die (store.migrate), a migration is recorded exactly if its tables *)
(* are there, and none is recorded before the ones that sort before it.    *)
THEOREM SchemaStaysWhole == Spec => []SchemaWhole
<1>1. IInv => SchemaWhole
  BY DEF IInv
<1> QED BY Invariance, <1>1, PTL

(* No request is read, and no token minted, before every migration is      *)
(* there: newApp opens the store before anything uses it.                  *)
THEOREM UsedOnlyMigrated == Spec => []MigratedBeforeUse
<1>1. IInv => MigratedBeforeUse
  BY DEF IInv, MigrateInv, ActiveInv, MigratedBeforeUse, Migrated
<1> QED BY Invariance, <1>1, PTL

(* A token that runTokenCreate printed is never answered with 401 by       *)
(* requireToken, and a handler runs only for a token in the table.         *)
THEOREM PrintedTokensWork == Spec => []PrintedIsAccepted
<1>1. IInv => PrintedIsAccepted
  BY DEF IInv
<1> QED BY Invariance, <1>1, PTL

(* serveOnListener returns nil only on a signal, after ServeTLS returned   *)
(* nil, with no request unanswered.                                        *)
THEOREM ExitIsClean == Spec => []CleanExit
<1>1. IInv => CleanExit
  BY DEF IInv
<1> QED BY Invariance, <1>1, PTL
=============================================================================
