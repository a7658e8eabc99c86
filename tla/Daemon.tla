------------------------------- MODULE Daemon -------------------------------
(***************************************************************************)
(* The processes of pqtrustd over one configuration: `serve` and           *)
(* `token create` (cmd/pqtrustd), the migrations that each of them runs    *)
(* when it opens the SQLite file they share (internal/store), the HTTP     *)
(* server and its shutdown, and the check of bearer tokens (internal/api). *)
(*                                                                         *)
(* A step is one SQL statement, one receive from a channel or one call of  *)
(* the HTTP server.  What a handler does once it is authenticated is in    *)
(* Issuance and Revocation; here it runs for as long as it likes.          *)
(***************************************************************************)
EXTENDS Integers

CONSTANTS
    Servers,     \* processes that may run `serve`
    Minters,     \* processes that may run `token create`
    Requests,    \* connections of clients, one request at a time
    Tokens,      \* what GenerateToken returns
    NoToken,     \* a request without a bearer token
    Migrations,  \* how many files there are in migrations/
    NULL

Processes == Servers \cup Minters

Files == 1 .. Migrations

Commands == {"serve", "token"}

ASSUME MigrationsAssumption == Migrations \in Nat
ASSUME NamesDiffer == NULL \notin Processes \cup Tokens \cup {"ok", "error", "killed"} /\ NoToken \notin Tokens

VARIABLES
    (* persistent: the SQLite database *)
    logTable,   \* the table schema_migrations exists
    recorded,   \* the migrations it names
    tables,     \* the migrations whose tables and indexes exist
    tokens,     \* table tokens
    (* the operating system *)
    tx,         \* the write transaction, held by at most one process
    listener,   \* the process that listens on the configured address
    (* the processes *)
    cmd,        \* the command of each process
    pc,         \* the next step of its main goroutine
    mig,        \* migrate: the file at hand
    store,      \* the database handle is open
    signalled,  \* ctx is done
    http,       \* the goroutine that runs ServeTLS
    errCh,      \* what it sent to errCh
    token,      \* runTokenCreate: the token at hand
    result,     \* how the process ends
    req,        \* the requests
    printed     \* observation: the tokens that were printed

disk == <<logTable, recorded, tables, tokens>>
proc == <<cmd, pc, mig, store, signalled, http, errCh, token, result>>
vars == <<disk, tx, listener, proc, req, printed>>

Starting == {"load", "listen", "open", "check", "apply", "record", "commit", "wire"}

Steps == Starting \cup {"down", "generate", "insert", "print", "select", "shutdown",
                        "await", "cleanup", "exit"}

Results == {NULL, "ok", "error", "killed"}

Transactions == [owner : Processes, tables : SUBSET Files, recorded : SUBSET Files]

ASSUME NoTransaction == NULL \notin Transactions

NoRequest == [st |-> "idle", proc |-> NULL, token |-> NoToken, known |-> FALSE, why |-> NULL]

(* known: the token was printed before the request was sent.  why: how the *)
(* process ended under a request that was never answered.                  *)
RequestStates ==
    [st : {"idle", "auth", "handle", "done", "unauthorized", "failed", "closed", "cut"},
     proc : Processes \cup {NULL}, token : Tokens \cup {NoToken}, known : BOOLEAN,
     why : Results]

Init ==
    /\ logTable = FALSE
    /\ recorded = {}
    /\ tables = {}
    /\ tokens = {}
    /\ tx = NULL
    /\ listener = NULL
    /\ cmd = [p \in Processes |-> NULL]
    /\ pc = [p \in Processes |-> "down"]
    /\ mig = [p \in Processes |-> 0]
    /\ store = [p \in Processes |-> FALSE]
    /\ signalled = [p \in Processes |-> FALSE]
    /\ http = [p \in Processes |-> "none"]
    /\ errCh = [p \in Processes |-> NULL]
    /\ token = [p \in Processes |-> NULL]
    /\ result = [p \in Processes |-> NULL]
    /\ req = [r \in Requests |-> NoRequest]
    /\ printed = {}

Goto(p, step) == pc' = [pc EXCEPT ![p] = step]

(* The function returns; its deferred cleanup closes the store. *)
Returns(p, res) ==
    /\ Goto(p, "cleanup")
    /\ result' = [result EXCEPT ![p] = res]

Unlock(p) == tx' = IF tx # NULL /\ tx.owner = p THEN NULL ELSE tx

(* The requests that the server of p has read and not answered. *)
Active(p) == {r \in Requests : req[r].proc = p /\ req[r].st \in {"auth", "handle"}}

-----------------------------------------------------------------------------
(* Starting: run, serve, newApp, Open, migrate *)

Start(p, c) ==
    /\ pc[p] = "down"
    /\ p \in IF c = "serve" THEN Servers ELSE Minters
    /\ cmd' = [cmd EXCEPT ![p] = c]
    /\ Goto(p, "load")
    /\ mig' = [mig EXCEPT ![p] = 0]
    /\ signalled' = [signalled EXCEPT ![p] = FALSE]
    /\ http' = [http EXCEPT ![p] = "none"]
    /\ errCh' = [errCh EXCEPT ![p] = NULL]
    /\ token' = [token EXCEPT ![p] = NULL]
    /\ result' = [result EXCEPT ![p] = NULL]
    /\ UNCHANGED <<disk, tx, listener, store, req, printed>>

(* config.Load; an invalid configuration is one way to fail. *)
Load(p) ==
    /\ pc[p] = "load"
    /\ Goto(p, IF cmd[p] = "serve" THEN "listen" ELSE "open")
    /\ UNCHANGED <<disk, tx, listener, cmd, mig, store, signalled, http, errCh, token,
                   result, req, printed>>

(* net.Listen, which fails while another process has the address. *)
Listen(p) ==
    /\ pc[p] = "listen"
    /\ IF listener = NULL
         THEN listener' = p /\ Goto(p, "open") /\ UNCHANGED result
         ELSE Returns(p, "error") /\ UNCHANGED listener
    /\ UNCHANGED <<disk, tx, cmd, mig, store, signalled, http, errCh, token, req, printed>>

(* Open, and CREATE TABLE IF NOT EXISTS: it writes only if it must. *)
Open(p) ==
    /\ pc[p] = "open"
    /\ logTable \/ tx = NULL
    /\ logTable' = TRUE
    /\ store' = [store EXCEPT ![p] = TRUE]
    /\ mig' = [mig EXCEPT ![p] = 1]
    /\ Goto(p, "check")
    /\ UNCHANGED <<recorded, tables, tokens, tx, listener, cmd, signalled, http, errCh,
                   token, result, req, printed>>

(* Variant: the loop ends at the first migration that is applied. *)
CheckMigrationStops(p) ==
    /\ pc[p] = "check"
    /\ Goto(p, IF mig[p] > Migrations \/ mig[p] \in recorded THEN "wire" ELSE "apply")
    /\ UNCHANGED <<disk, tx, listener, cmd, mig, store, signalled, http, errCh, token,
                   result, req, printed>>

(* Variant: the loop runs past the last file. *)
CheckMigrationPastEnd(p) ==
    /\ pc[p] = "check"
    /\ IF mig[p] > Migrations + 1 THEN Goto(p, "wire") /\ UNCHANGED mig
       ELSE IF mig[p] \in recorded THEN mig' = [mig EXCEPT ![p] = mig[p] + 1] /\ UNCHANGED pc
       ELSE Goto(p, "apply") /\ UNCHANGED mig
    /\ UNCHANGED <<disk, tx, listener, cmd, store, signalled, http, errCh, token, result,
                   req, printed>>

(* Variant: the loop stays at a migration that is applied. *)
CheckMigrationLoops(p) ==
    /\ pc[p] = "check"
    /\ mig[p] > Migrations \/ mig[p] \notin recorded
    /\ Goto(p, IF mig[p] > Migrations THEN "wire" ELSE "apply")
    /\ UNCHANGED <<disk, tx, listener, cmd, mig, store, signalled, http, errCh, token,
                   result, req, printed>>

(* SELECT COUNT(1) FROM schema_migrations, outside of any transaction. *)
CheckMigration(p) ==
    /\ pc[p] = "check"
    /\ IF mig[p] > Migrations THEN Goto(p, "wire") /\ UNCHANGED mig
       ELSE IF mig[p] \in recorded THEN mig' = [mig EXCEPT ![p] = mig[p] + 1] /\ UNCHANGED pc
       ELSE Goto(p, "apply") /\ UNCHANGED mig
    /\ UNCHANGED <<disk, tx, listener, cmd, store, signalled, http, errCh, token, result,
                   req, printed>>

(* Variant: the statements of the file run outside of the transaction. *)
ApplyMigrationNoTx(p) ==
    /\ pc[p] = "apply"
    /\ tx = NULL
    /\ IF mig[p] \in tables
         THEN Returns(p, "error") /\ UNCHANGED <<tables, tx>>
         ELSE /\ tx' = [owner |-> p, tables |-> {}, recorded |-> {}]
              /\ tables' = tables \cup {mig[p]}
              /\ Goto(p, "record")
              /\ UNCHANGED result
    /\ UNCHANGED <<logTable, recorded, tokens, listener, cmd, mig, store, signalled, http,
                   errCh, token, req, printed>>

(* Begin and the statements of the file.  The first of them takes the      *)
(* write lock; it fails if the table is there by then.                     *)
ApplyMigration(p) ==
    /\ pc[p] = "apply"
    /\ tx = NULL
    /\ IF mig[p] \in tables
         THEN Returns(p, "error") /\ UNCHANGED tx
         ELSE /\ tx' = [owner |-> p, tables |-> {mig[p]}, recorded |-> {}]
              /\ Goto(p, "record")
              /\ UNCHANGED result
    /\ UNCHANGED <<disk, listener, cmd, mig, store, signalled, http, errCh, token, req, printed>>

(* INSERT INTO schema_migrations *)
RecordMigration(p) ==
    /\ pc[p] = "record"
    /\ tx' = [tx EXCEPT !.recorded = {mig[p]}]
    /\ Goto(p, "commit")
    /\ UNCHANGED <<disk, listener, cmd, mig, store, signalled, http, errCh, token, result,
                   req, printed>>

CommitMigration(p) ==
    /\ pc[p] = "commit"
    /\ tables' = tables \cup tx.tables
    /\ recorded' = recorded \cup tx.recorded
    /\ tx' = NULL
    /\ mig' = [mig EXCEPT ![p] = mig[p] + 1]
    /\ Goto(p, "check")
    /\ UNCHANGED <<logTable, tokens, listener, cmd, store, signalled, http, errCh, token,
                   result, req, printed>>

(* The key directory, the engine, the routes and the TLS certificate; then *)
(* `serve` starts the goroutine that runs ServeTLS.                        *)
Wire(p) ==
    /\ pc[p] = "wire"
    /\ IF cmd[p] = "serve"
         THEN http' = [http EXCEPT ![p] = "starting"] /\ Goto(p, "select")
         ELSE Goto(p, "generate") /\ UNCHANGED http
    /\ UNCHANGED <<disk, tx, listener, cmd, mig, store, signalled, errCh, token, result,
                   req, printed>>

(* The write lock was not obtained within busy_timeout, five seconds. *)
Busy(p) ==
    /\ pc[p] \in {"open", "apply", "insert"}
    /\ tx # NULL
    /\ Returns(p, "error")
    /\ UNCHANGED <<disk, tx, listener, cmd, mig, store, signalled, http, errCh, token, req, printed>>

(* A step of the main goroutine returns an error: a bad configuration, a   *)
(* full disk, a closed output.  The transaction is rolled back.            *)
Fails(p) ==
    /\ pc[p] \in Starting \cup {"generate", "insert", "print"}
    /\ Unlock(p)
    /\ Returns(p, "error")
    /\ UNCHANGED <<disk, listener, cmd, mig, store, signalled, http, errCh, token, req, printed>>

-----------------------------------------------------------------------------
(* `token create`: runTokenCreate *)

(* 256 random bits: a token is never drawn twice. *)
GenerateToken(p, t) ==
    /\ pc[p] = "generate"
    /\ t \notin tokens
    /\ \A q \in Processes : token[q] # t
    /\ token' = [token EXCEPT ![p] = t]
    /\ Goto(p, "insert")
    /\ UNCHANGED <<disk, tx, listener, cmd, mig, store, signalled, http, errCh, result,
                   req, printed>>

(* INSERT INTO tokens, the hash only. *)
CreateToken(p) ==
    /\ pc[p] = "insert"
    /\ tx = NULL
    /\ tokens' = tokens \cup {token[p]}
    /\ Goto(p, "print")
    /\ UNCHANGED <<logTable, recorded, tables, tx, listener, cmd, mig, store, signalled,
                   http, errCh, token, result, req, printed>>

PrintToken(p) ==
    /\ pc[p] = "print"
    /\ printed' = printed \cup {token[p]}
    /\ Returns(p, "ok")
    /\ UNCHANGED <<disk, tx, listener, cmd, mig, store, signalled, http, errCh, token, req>>

-----------------------------------------------------------------------------
(* `serve`: the goroutine of ServeTLS *)

ServeStarts(p) ==
    /\ http[p] = "starting"
    /\ IF pc[p] # "select"
         THEN http' = [http EXCEPT ![p] = "returned"] /\ errCh' = [errCh EXCEPT ![p] = "ok"]
         ELSE http' = [http EXCEPT ![p] = "accepting"] /\ UNCHANGED errCh
    /\ UNCHANGED <<disk, tx, listener, cmd, pc, mig, store, signalled, token, result, req, printed>>

(* ErrServerClosed, which becomes nil: Shutdown was called. *)
ServeReturns(p) ==
    /\ http[p] = "accepting"
    /\ pc[p] # "select"
    /\ http' = [http EXCEPT ![p] = "returned"]
    /\ errCh' = [errCh EXCEPT ![p] = "ok"]
    /\ UNCHANGED <<disk, tx, listener, cmd, pc, mig, store, signalled, token, result, req, printed>>

(* Accept fails. *)
ServeFails(p) ==
    /\ http[p] = "accepting"
    /\ pc[p] = "select"
    /\ http' = [http EXCEPT ![p] = "returned"]
    /\ errCh' = [errCh EXCEPT ![p] = "error"]
    /\ listener' = NULL
    /\ UNCHANGED <<disk, tx, cmd, pc, mig, store, signalled, token, result, req, printed>>

(* The main goroutine of serveOnListener *)

SelectErr(p) ==
    /\ pc[p] = "select"
    /\ errCh[p] # NULL
    /\ Returns(p, errCh[p])
    /\ UNCHANGED <<disk, tx, listener, cmd, mig, store, signalled, http, errCh, token, req, printed>>

(* ctx.Done: Shutdown closes the listener. *)
SelectDone(p) ==
    /\ pc[p] = "select"
    /\ signalled[p]
    /\ listener' = IF listener = p THEN NULL ELSE listener
    /\ Goto(p, "shutdown")
    /\ UNCHANGED <<disk, tx, cmd, mig, store, signalled, http, errCh, token, result, req, printed>>

(* Shutdown returns once no request is active. *)
ShutdownDone(p) ==
    /\ pc[p] = "shutdown"
    /\ Active(p) = {}
    /\ Goto(p, "await")
    /\ UNCHANGED <<disk, tx, listener, cmd, mig, store, signalled, http, errCh, token,
                   result, req, printed>>

(* Variant: the error of Shutdown is dropped. *)
ShutdownTimesOutSilently(p) ==
    /\ pc[p] = "shutdown"
    /\ Goto(p, "await")
    /\ UNCHANGED <<disk, tx, listener, cmd, mig, store, signalled, http, errCh, token,
                   result, req, printed>>

(* Variant: Shutdown has no deadline. *)
ShutdownNoTimeout(p) == FALSE /\ UNCHANGED vars

(* Ten seconds have passed. *)
ShutdownTimesOut(p) ==
    /\ pc[p] = "shutdown"
    /\ Returns(p, "error")
    /\ UNCHANGED <<disk, tx, listener, cmd, mig, store, signalled, http, errCh, token, req, printed>>

Await(p) ==
    /\ pc[p] = "await"
    /\ errCh[p] # NULL
    /\ Returns(p, errCh[p])
    /\ UNCHANGED <<disk, tx, listener, cmd, mig, store, signalled, http, errCh, token, req, printed>>

(* The deferred cleanup, also under handlers that still run. *)
Cleanup(p) ==
    /\ pc[p] = "cleanup"
    /\ store' = [store EXCEPT ![p] = FALSE]
    /\ Goto(p, "exit")
    /\ UNCHANGED <<disk, tx, listener, cmd, mig, signalled, http, errCh, token, result, req, printed>>

(* The process is gone: its lock, its address, its connections. *)
Gone(p, res) ==
    /\ Goto(p, "down")
    /\ store' = [store EXCEPT ![p] = FALSE]
    /\ http' = [http EXCEPT ![p] = "none"]
    /\ result' = [result EXCEPT ![p] = res]
    /\ Unlock(p)
    /\ listener' = IF listener = p THEN NULL ELSE listener
    /\ req' = [r \in Requests |-> IF r \in Active(p) THEN [req[r] EXCEPT !.st = "cut", !.why = res]
                                  ELSE req[r]]
    /\ UNCHANGED <<disk, cmd, mig, signalled, errCh, token, printed>>

Exit(p) == pc[p] = "exit" /\ Gone(p, result[p])

(* SIGKILL, a power cut, an interrupt of `token create`. *)
Killed(p) == pc[p] # "down" /\ Gone(p, "killed")

(* SIGINT or SIGTERM cancels the context of `serve`, at any time. *)
Signal(p) ==
    /\ cmd[p] = "serve"
    /\ pc[p] # "down"
    /\ ~signalled[p]
    /\ signalled' = [signalled EXCEPT ![p] = TRUE]
    /\ UNCHANGED <<disk, tx, listener, cmd, pc, mig, store, http, errCh, token, result, req, printed>>

-----------------------------------------------------------------------------
(* Requests *)

(* The server reads the request and bearerToken finds a token or not. *)
Send(r, t) ==
    /\ req[r].st = "idle"
    /\ listener # NULL
    /\ http[listener] = "accepting"
    /\ req' = [req EXCEPT ![r] = [st |-> IF t = NoToken THEN "unauthorized" ELSE "auth",
                                  proc |-> listener, token |-> t,
                                  known |-> t \in printed, why |-> NULL]]
    /\ UNCHANGED <<disk, tx, listener, proc, printed>>

(* Variant: an error of the lookup is taken for an unknown token. *)
AuthenticateNoError(r, st) ==
    /\ req[r].st = "auth"
    /\ \/ st = "handle" /\ store[req[r].proc] /\ req[r].token \in tokens
       \/ st = "unauthorized" /\ (~store[req[r].proc] \/ req[r].token \notin tokens)
    /\ req' = [req EXCEPT ![r].st = st]
    /\ UNCHANGED <<disk, tx, listener, proc, printed>>

(* requireToken: SELECT FROM tokens by hash, which may fail. *)
Authenticate(r, st) ==
    /\ req[r].st = "auth"
    /\ \/ st = "handle" /\ store[req[r].proc] /\ req[r].token \in tokens
       \/ st = "unauthorized" /\ store[req[r].proc] /\ req[r].token \notin tokens
       \/ st = "closed" /\ ~store[req[r].proc]
       \/ st = "failed"
    /\ req' = [req EXCEPT ![r].st = st]
    /\ UNCHANGED <<disk, tx, listener, proc, printed>>

(* The handler ends, with an error if the store was closed under it. *)
Handle(r) ==
    /\ req[r].st = "handle"
    /\ req' = [req EXCEPT ![r].st = IF store[req[r].proc] THEN "done" ELSE "closed"]
    /\ UNCHANGED <<disk, tx, listener, proc, printed>>

Received(r) ==
    /\ req[r].st \in {"done", "unauthorized", "failed", "closed", "cut"}
    /\ req' = [req EXCEPT ![r] = NoRequest]
    /\ UNCHANGED <<disk, tx, listener, proc, printed>>

-----------------------------------------------------------------------------
(* What the main goroutine and the goroutine of ServeTLS do by themselves. *)
Main(p) ==
    \/ Load(p) \/ Listen(p) \/ Open(p) \/ CheckMigration(p) \/ ApplyMigration(p)
    \/ RecordMigration(p) \/ CommitMigration(p) \/ Busy(p) \/ Wire(p)
    \/ \E t \in Tokens : GenerateToken(p, t)
    \/ CreateToken(p) \/ PrintToken(p)
    \/ SelectErr(p) \/ SelectDone(p) \/ ShutdownDone(p) \/ ShutdownTimesOut(p)
    \/ Await(p) \/ Cleanup(p) \/ Exit(p)

Server(p) == ServeStarts(p) \/ ServeReturns(p)

Operator(p) == (\E c \in Commands : Start(p, c)) \/ Signal(p) \/ Killed(p)

Client(r) ==
    \/ \E t \in Tokens \cup {NoToken} : Send(r, t)
    \/ \E st \in {"handle", "unauthorized", "closed", "failed"} : Authenticate(r, st)
    \/ Handle(r) \/ Received(r)

Next ==
    \/ \E p \in Processes : Main(p) \/ Server(p) \/ Fails(p) \/ ServeFails(p) \/ Operator(p)
    \/ \E r \in Requests : Client(r)

Spec == Init /\ [][Next]_vars

(* The goroutines of a process run.  Nothing is assumed of handlers, of    *)
(* clients, of failures and of the operator.                               *)
Fairness ==
    \A p \in Processes : WF_vars(Main(p)) /\ WF_vars(Server(p))

FairSpec == Spec /\ Fairness

-----------------------------------------------------------------------------
(* Properties *)

(* Every variable keeps its type. *)
TypeOK ==
    /\ logTable \in BOOLEAN
    /\ recorded \subseteq Files
    /\ tables \subseteq Files
    /\ tokens \subseteq Tokens
    /\ tx \in Transactions \cup {NULL}
    /\ listener \in Processes \cup {NULL}
    /\ cmd \in [Processes -> Commands \cup {NULL}]
    /\ pc \in [Processes -> Steps]
    /\ mig \in [Processes -> 0 .. Migrations + 1]
    /\ store \in [Processes -> BOOLEAN]
    /\ signalled \in [Processes -> BOOLEAN]
    /\ http \in [Processes -> {"none", "starting", "accepting", "returned"}]
    /\ errCh \in [Processes -> {NULL, "ok", "error"}]
    /\ token \in [Processes -> Tokens \cup {NULL}]
    /\ result \in [Processes -> Results]
    /\ req \in [Requests -> RequestStates]
    /\ printed \subseteq Tokens

(* Wherever processes die and whichever start together, a migration is     *)
(* recorded exactly when its tables exist, and none is recorded before the *)
(* ones that sort before it: no crash leaves a database that can never be  *)
(* opened again.                                                           *)
SchemaWhole ==
    /\ recorded = tables
    /\ \A m \in recorded : 1 .. m \subseteq recorded

(* No process serves a request or mints a token on a database that lacks a *)
(* migration.                                                              *)
MigratedBeforeUse ==
    /\ \A p \in Processes :
         pc[p] \in {"generate", "insert", "print", "select", "shutdown", "await"} =>
           tables = Files
    /\ \A r \in Requests : req[r].st \in {"auth", "handle"} => tables = Files

(* A token that was printed is never refused with 401, by the same or by   *)
(* any later server; a token that was not inserted never reaches a handler. *)
PrintedIsAccepted ==
    \A r \in Requests :
        /\ req[r].st = "unauthorized" => ~req[r].known
        /\ req[r].st \in {"handle", "done"} => req[r].token \in tokens

(* `serve` ends without an error only on a signal, once ServeTLS has       *)
(* returned without one, and then every request it had read was answered   *)
(* with its store still open.                                              *)
CleanExit ==
    /\ \A p \in Processes : cmd[p] = "serve" /\ result[p] = "ok" =>
         signalled[p] /\ errCh[p] = "ok" /\ Active(p) = {}
    /\ \A r \in Requests : req[r].st = "cut" => req[r].why # "ok"

(* A server that was signalled stops, whatever its handlers and its        *)
(* clients do, and wherever the signal found it.                           *)
StopsAfterSignal == \A p \in Processes : signalled[p] ~> pc[p] = "down"

(* Every process that starts gets past its migrations or reports an error: *)
(* no two of them wait for each other.                                     *)
StartEnds == \A p \in Processes : pc[p] \in Starting ~> pc[p] \notin Starting
=============================================================================
