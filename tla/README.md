# Formal verification of pqtrust

pqtrust is a post-quantum certificate authority: a daemon with an HTTP API that
creates root and intermediate CAs, issues end-entity certificates, revokes them
and publishes CRLs. This directory holds TLA+ models of its core, the TLC runs
that check them on small instances, and TLAPS proofs for instances of any size.

Paths below are relative to the repository (`internal/...`, `cmd/...`, `docs/...`).

## 1. Inventory of the system

| Part | State it keeps | Operations | Interacts with |
|---|---|---|---|
| `internal/ca` engine | `crlCache` under `mu`; the clock function | `CreateCA`, `IssueCertificate`, `Revoke`, `CRL`, `GetCA`, `ListCAs`, `GetCertificate` | store, keystore, pqx509 |
| `internal/ca` profiles | constants | limits of validity, algorithms, key usages per level | engine |
| `internal/store` | SQLite tables `cas`, `certificates`, `tokens`, `schema_migrations`; one pooled connection | inserts, lookups, `RevokeCertificate` (a transaction), `ListRevoked` | engine, api |
| `internal/keystore` | one file per key, sealed under a passphrase | `Generate`, `Store`, `Load`, `Delete`, `Has` | engine |
| `internal/pqx509` | none | build and parse certificates, CRLs, CSRs, names; `Verify` (path validation) | engine, clients of the package |
| `internal/api` | none | one handler per route, token authentication, errors to RFC 7807 answers | engine, store |
| `internal/config` | none | file and environment, validation | cmd |
| `cmd/pqtrustd` | the HTTP server | start, serve, shut down, create tokens | everything |

How they interact: `net/http` runs every request in a goroutine of its own. A
handler calls the engine, which makes several calls to store and keystore one
after another. Nothing but `RevokeCertificate` and the migrations runs in a
transaction, and `Engine.mu` is held only for single accesses to the CRL cache.
So requests interleave between any two calls.

What is hard here, and what correctness means:

- **CRLs.** Listing the revoked rows, looking into the cache, signing and writing
  the cache are separate steps; so are the commit of a revocation and the
  invalidation of the cache. A served CRL must nevertheless list everything that
  was revoked when its request arrived, be unexpired, and never be contradicted.
  The cache test compares only *how many* entries there are.
- **Revocation.** The first one wins, also when two arrive together, when a client
  retries after an error, or when the process dies after the commit.
- **The connection.** `SetMaxOpenConns(1)`: a transaction left open stops everything.
- **Keys and rows.** A key file is written first, then the row that names it. Crashes,
  failed steps, clean-up and colliding random ids must not leave a CA without its key,
  two rows with one key, or key files nobody knows of.
- **Chains.** Levels, signatures and validities are checked against a parent that was
  read earlier; what is recorded must have a valid chain.
- **Path validation.** A search through certificates that may have certified each
  other in circles.
- **Processes.** `serve` and `token create` share one SQLite file, and both migrate it
  when they open it. They start together, are signalled and die between any two
  statements. Handlers may outlive the time that shutdown grants them.
- **Lengths of time.** Days and hours of the configuration and of requests are
  multiplied into 64 bits of nanoseconds without a check.
- **Names as text.** Separators and escapes may occur in the values they separate.
- **Documents.** Certificates, CSRs and CRLs are read from other programs and from damaged
  media: string types, repeated extensions, sizes, the change of time format in 2050.

`PROJECT.json` lists the hazards one by one, each at its line, with the properties
that would catch it going wrong.

## 2. Modules

| Module | Models | Kind |
|---|---|---|
| `Maps` | Go maps and tables: functions with a varying domain | operators |
| `Revocation` | `Engine.Revoke`, `Engine.CRL`, `invalidateCRL`, the store calls they make, `handleRevoke`, `handleGetCRL` | state machine |
| `AtomicRevocation` | what revocation promises to clients | abstract specification |
| `RevocationProofs` | theorems about `Revocation`, and that it implements `AtomicRevocation` | proofs |
| `Issuance` | `Engine.CreateCA`, `Engine.IssueCertificate`, `caResult`, `FileBackend`, the inserts, `handleCreateCA`, `handleIssueCertificate` | state machine |
| `IssuanceProofs` | theorems about `Issuance` | proofs |
| `PathValidation` | `Certificate.Verify`, `checkLink`, `checkValidity` | state machine |
| `PathValidationProofs` | theorems about `PathValidation` | proofs |
| `Daemon` | `main`, `serve`, `newApp`, `serveOnListener`, `runTokenCreate`, `Open`, `migrate`, `requireToken` | state machine |
| `DaemonProofs` | theorems about `Daemon` | proofs |
| `Validity` | `config.Load`, `Validate`, the durations of `newApp`, `New`, `IssueCertificate`, `CRL` at their width | state machine |
| `ValidityProofs` | theorems about `Validity` | proofs |
| `NameString` | `Name.String`, `ParseNameString` and their escapes | state machine |
| `NameStringProofs` | theorems about `NameString` | proofs |
| `FoldLemmas` | induction over numbers, what recursive functions, `FoldLeft` and `FlattenSeq` compute | lemmas |
| `Encoding` | keys, PKCS#8, PEM, signatures, times, names, extensions | operators |
| `Documents` | `CreateCertificate`, `ParseCertificate`, CSRs and CRLs | operators |
| `Exchange` | what `CreateCA`, `handleIssueCertificate`, `IssueCertificate` and `CRL` put into documents, and what a reader makes of them | state machine |
| `ExchangeProofs` | theorems about `Exchange` | proofs |
| `MCRevocation`, `MCIssuance`, `MCPathValidation`, `MCValidity`, `MCNameString`, `MCExchange` | the instances for TLC (`Daemon` is run as it is) | model checking |

`Exchange` extends `Documents`, which extends `Encoding`. `Issuance` and `Exchange` look at
the same two operations from two sides: `Issuance` has the order of their steps and
everything that is stored, with the contents of a request as one bit; `Exchange` has the
contents, with each operation as one step.

Operators called *Variant* in the modules are deliberate errors (a dropped check, a
missing rollback). Specifications do not use them; substituted for the operator they
follow or precede, each makes a property fail, which shows that the property depends
on that piece of the code. `PROJECT.json` lists the pairs under `mutants`.

### Revocation

One step is one access to shared state: an SQL statement, a critical section of
`Engine.mu`, or a reading of the clock. The table `certificates` is `caOf` (serial to
CA) and `revocation` (serial to time and reason, for the rows whose status is
`revoked`). `conn` is the request whose transaction holds the only connection; other
store calls need `conn = NULL`. `pc[r]` is the next step of a request, `arg`, `now`,
`listed`, `reply` are its local variables. `before` and `published` are observations
that no step reads: what was revoked when a CRL request arrived, and every CRL that
was ever signed.

`Revoke` is `CallRevoke` (reason code) - `GetCertificate` - `RevokeNow` - `BeginTx` -
`CheckStatus` - `CommitRevocation` - `InvalidateCRL` - `RereadCertificate`. `CRL` is
`CallCRL` - `GetCA` - `ListRevoked` - `CRLNow` - `CheckCache` - `LoadKey` - `SignCRL`.
`Fails` is the failure of any statement, of reading the key or of signing; it takes the
way out that the code takes, rollback included. `Restart` loses everything volatile.
The clock may be set forward and back at any time. UPDATE and COMMIT are one step: the
connection is held, and nobody else can see the state between them.

### AtomicRevocation

No cache, no connection, no clock: between arrival and answer a request takes effect in
one step. `Revocation` maps to it through `callBar`: a CRL request takes effect when it
lists the rows, a revocation when it commits. That a CRL from the *cache* may be
explained by what the request itself listed is the substance of the refinement.

### Issuance

`files` maps key ids to sealed keys: the key pair, the passphrase and whether the file
is `whole`. A file is created (`CreateKeyFile`, O_EXCL) and then written
(`WriteKeyFile`); a failure or a crash between leaves it partial. `cas` and
`certificates` are the tables; a certificate is its public key, the key that signed it
and its last day. The steps of both operations that do the same thing are the same
action:

- `CreateCA`: call, `get_parent`, `now`, `generate`, `create_file`, `write_file`,
  `serial`, `load` (the parent's key), `insert`, done;
- `IssueCertificate`: call, `get_ca`, `now`, `load`, `generate`, `create_file` and
  `write_file` if the key is stored, `insert`, `chain`, done.

`Fails` is the failure of any of these steps; after `load` and `insert` the request
goes on to delete its key file (`Undone`), as the code does, and that may fail too.
Random key ids, CA ids and serials may be any value of their set, so they collide.
Names, algorithms, key usages and JSON are two bits of a request: `wellFormed` (checked
before the issuer is looked up) and `allowed` (after). Status `rejected` stands for the
answers 400 and 422. A CA's status is always `active` in this code, so the checks of it
never fail and are left out. `notBefore` is left out: with a clock that is set back a
certificate may be valid earlier than its issuer, and no code prevents that.

If the constant `LateCancel` holds, an insert may be done and yet be reported as cancelled
(`InsertCACancelled`, `InsertCertificateCancelled`), which `database/sql` allows when the
client goes away meanwhile. `issuance_checks` has it, and `issuance_interleavings` has not,
because `EveryRowHasItsKey` does not survive it (section 4).

`disclosed` (private keys that were returned) and `abandoned` (key files the program
gave up on: a crash, a failed write, a failed delete, no serial number) are observations, and
so is `confirmed`, the keys that are kept for what a client was told was created.

### PathValidation

The closure `walk` calls itself; its activations are a stack, and a step is one
iteration of one of its two loops or a return. Names, keys, signers, validity, basic
constraints, key usage and revocation are attributes of a certificate. `ValidChains`
says what a chain is without any search; `ReturnsTheValidChains` compares.

### Daemon

`logTable`, `recorded`, `tables` and `tokens` are the database, `tx` the one write
transaction that SQLite allows; a process that wants to write waits for it or fails
(`Busy`). A process goes through `Load`, `Listen` (only `serve`), `Open`, then
`CheckMigration`, `ApplyMigration`, `RecordMigration`, `CommitMigration` for each file, and
`Wire`. A `serve` process then waits in `select` for the error of the goroutine that runs
`ServeTLS` (`http`, `errCh`) or for the signal, and ends by `SelectErr` or by `SelectDone`,
`ShutdownDone` or `ShutdownTimesOut`, `Await`, `Cleanup`, `Exit`. A `token create` process goes
through `GenerateToken`, `CreateToken` and `PrintToken`. `Fails` is the failure of any of
these steps, `Killed` the end of a process anywhere. A request is sent, authenticated (an
SQL lookup, which may fail) and handled; the handler takes as long as it likes. The order of
statements in `migrate` matters: the check precedes the transaction.

All processes use the same configuration. GenerateToken draws 256 random bits, so no token
is drawn twice. What `net/http` does between accepting a connection and knowing of it is not
in this repository; a request here is one that the server has read.

### Validity

Integers and durations are in `-Half .. Half - 1` and wrap. `Load` lays the environment over
the file over the defaults, `New` makes durations, `IssueCertificate` and `CRL` check and add.
A length of 2^57 days wraps to nothing and is granted, with an end that is the present; one
of 49746427883962101 days wraps to -128 seconds, and as a certificate begins `clockSkew`
(300 seconds) before the present, it is granted with an end that is past. Both are of no
use, and of no harm. That a wrapped length does no harm in general is what
`NoLongerThanAllowed` says. The duration that is checked and the seconds that `AddDate` adds
are different numbers. A number of days for which only the duration wraps to a small one
ends far outside of what any issuer allows; one for which the seconds wrap to a small number
too has the same small duration, and that was checked.

### NameString

A text is a sequence of characters, one for each class that the functions treat
differently. A behaviour begins with a text, which is parsed, or with a name; the name is
written, and its text is read back. `String` fills the column `subject_dn` and the answers of
the API, where two subjects must not look the same; `ParseNameString` is called by
tests alone. `Characters` is what texts consist of: the ones that the functions write or denote
are among them, and there may be any others.

### Encoding, Documents, Exchange

A DER structure is a record of its fields, a byte string a sequence of the characters or
the key it holds, with its size where the code checks sizes. What remains is what the code
decides: which string type a value is written as, which ones are read, which extensions
are written and which are refused, where parameters, versions, sizes, trailing data and
algorithm identifiers are checked, and UTCTime before 2050 against GeneralizedTime after.
Times are in half seconds from 1950, since DER has whole seconds; `Century` is the year 2050.
A character stands for each class that the code treats differently; "byte" is one that is not
UTF-8, which `encoding/asn1` writes like any other when the type of the string is
given, as `marshalDirectoryString` does. In a JSON body there is none, since `encoding/json`
replaces it. Both are modelled from what these libraries do.

`Exchange` creates a root and an intermediate, then either issues a certificate from a CSR
(of this library, or of another program) or from a JSON body, or publishes a CRL. The client
gives up (`GiveUp`, "unsent") if `CreateCertificateRequest` makes no CSR for it. `Damage`
changes one field of the document: of its signed part, its algorithm, its signature, or data
after it. Then it is read. The clock may be set back between the creation of two CAs.

Left out: template fields that the engine never sets (`RawSubject`, `SubjectKeyID`,
`AuthorityKeyID`, `UnhandledExtensions`), trailing bytes within one attribute of a name, and
the older format of a private key, which nothing in the repository writes. The functions of
`name.go` that lay out lengths by hand are taken to do what `encoding/asn1` does.

## 3. Runs

| Run | Instance | Properties |
|---|---|---|
| `revocation_interleavings` | 2 requests, 2 CAs, 2 serials, clock at rest | `TypeOK`, `ServedCRLIsComplete`, `NumberIdentifiesContent`, `OneRevokerWins`, `NoConnectionLeak` |
| `revocation_expiry` | 2 requests, 1 CA, 1 serial, clock 0..1, validity 1 | `ServedCRLIsUnexpired`, `PublishedStaysTrue`, `RevokeReplyIsTrue`, `FirstRevocationWins` |
| `revocation_atomic` | 2 requests, 1 CA, 2 serials | `ImplementsAtomic`, `EveryRequestAnswered` |
| `crl_cache_dropped` | 2 requests, 1 CA, 1 serial | `CachedUntilNextRevocation` is violated |
| `issuance_interleavings` | 2 requests, 2 CA ids, 3 key ids, 2 serials, 4 key pairs | `TypeOK`, `EveryRowHasItsKey`, `NoStrayKeys`, `OneRowPerKey`, `ChainHolds`, `KeyHasOneHome` |
| `issuance_checks` | 1 request, 3 CA ids, bodies of every kind, clock 0..1, inserts that are done but reported as cancelled | `WithinIssuer`, `CreatedHasItsKey` |
| `path_validation` | leaf, two CAs and a root; all ways to sign, same names, one flaw, path lengths, pools | `ReturnsTheValidChains`, `ErrorTellsWhy`, `Terminates` |
| `daemon_processes` | one process of either command, one that mints, 1 request, 1 token, 2 migrations | `TypeOK`, `SchemaWhole`, `MigratedBeforeUse`, `PrintedIsAccepted`, `CleanExit`, `StopsAfterSignal`, `StartEnds` |
| `validity_width` | integers of 7 bits, all of them configured and requested | `NoLongerThanAllowed`, `AllowedIsGranted` |
| `name_strings` | all texts of up to 4 of 13 characters, common names of up to 4, pairs of components; names of up to four attributes | `CompleteNamesSurvive`, `NamesAreToldApart`, `NothingElseIsDropped` |
| `exchange_requests` | 3 client keys, 10 subjects, 4 sets of alternative names, CSRs of other programs, JSON bodies | `IssuedAsRequested`, `OwnRequestsAreIssued`, `KeyFitsCertificate` |
| `exchange_documents` | CAs of both families, signed before, around and after 2050, CRLs of 0 to 2 entries, one field damaged | `OwnDocumentsAreRead`, `DamageIsNoticed`, `ChainLinks` |

**Bounds.** Requests return and are reused, so two of them give behaviours of any
length; two are enough for every race between one rebuild and one revocation, and the
proofs cover any number. Two certificates are needed for equal counts with different
contents, two CAs to see that caches are kept apart. A clock of two instants with a
validity of one makes CRLs expire, also in the middle of a request. Three key ids are
what a root, an intermediate and a stored leaf key need, so every further one collides;
four key pairs allow one failed attempt more. In `path_validation` the depth limit is 3
where the code has 6, so that it is reached with three issuers.

Processes are started again after they end, so two of them give every order of a restart
and a first start; two servers at once are left out, since the second finds the address
taken and ends. The repository has one migration; the run has two, so that
the loop is gone through and a process can die between them. Integers of seven bits let TLC
go through all configured and all requested numbers. A second is an even number of ticks, as
it is in nanoseconds, so that durations wrap at numbers of days at which seconds do not;
`Skew` is greater than the smallest difference that a wrapped sum of seconds can make, as
300 seconds are greater than 128. In the runs of names a text of four
characters holds an escape of two digits and a character after it.
In the runs of `Exchange` names that are not UTF-8 occur in CSRs of this library and of others
and in certificates, a half second is the least difference that DER drops, the lives
of the certificates are such that each of them begins before 2050 and ends after it in some
behaviour, and every kind of attribute that the CSR reader tells apart occurs.

**Symmetry** of requests and serials (and of random ids) is used in runs of invariants
and of one action property. The refinement and liveness runs use none.

**Fairness.** `FairSpec` has strong fairness of each request's next step: the Go
scheduler runs every goroutine, and `database/sql` queues those that wait for a
connection and hands it to the first, so one that waits is not passed over for ever. No
fairness is assumed of clients, failures, restarts or the clock. `Verify` is a
sequential function: weak fairness of its steps says that it is executed.
In `Daemon`, the main goroutine of each process and the goroutine of its HTTP server
are weakly fair: a process that is not killed runs, and the time-out of `Shutdown`, a timer,
expires. No fairness is assumed of handlers, clients, the operator and failures. So
`StopsAfterSignal` says that a server stops although its handlers hang.

`path_validation`, the run of `NameString` and those of `Exchange` allow deadlock because a
function that has returned, or a document that was read, is done.

## 4. Findings

**A fresh CRL is thrown away** (`crl_cache_dropped`). `Revoke` commits, and only then
invalidates the cache. A CRL built between the two already has the new entry, and is
deleted although nothing was revoked since; the next request must rebuild it, for which it
needs the passphrase. The design document has it "cached until next revocation or
`nextUpdate`". The CRLs that are served are right all the same.

The models also show these differences between the code and what is said of it. They have
no run of their own; the property that states what does hold is named with each.

1. **CRL numbers are reused** (`internal/ca/crl.go:66`). The number is the count of revoked
   certificates plus one, so a CRL that is renewed without a revocation has the number of
   its predecessor, where RFC 5280 section 5, to which the design refers, has numbers
   increase. A number determines the entries (`NumberIdentifiesContent`, proved).
2. **An error may leave a valid certificate** (`internal/ca/engine.go:440`). If the parent
   cannot be read after the insert, the client gets an error, the certificate stays recorded
   and its private key, unless it is stored, is lost. The design has "transactions around
   issuance". The rows and the keys stay consistent (`EveryRowHasItsKey`).
3. **A CA may lose its key** (`internal/ca/engine.go:206`). On any error of the insert,
   `CreateCA` deletes the key file. If the client goes away while the statement runs,
   `database/sql` may report the cancellation of a statement that is done: the CA is
   recorded, and its key is gone. A CA that was *answered* as created keeps its key
   (`CreatedHasItsKey`).
4. **A migration may be applied twice** (`internal/store/migrate.go:30`). The check whether it
   is pending is made before the transaction that applies it. Of two processes that start
   together the second fails on the existing table. The schema stays whole
   (`SchemaWhole`), and starting again helps.
5. **A validated configuration may not work** (`cmd/pqtrustd/serve.go:50`). From 106752 days,
   or 2562048 hours, the duration wraps and may be negative; every certificate or CRL is then
   refused, although `Validate` "reports configuration that cannot produce a working server".
   A request of that size may be granted with an end that is already past (section 2,
   Validity), although "validity must be positive" (`internal/ca/engine.go:354`).
   Nothing lives longer than allowed, and what is allowed is granted while the maximum fits
   (`NoLongerThanAllowed`, `AllowedIsGranted`, proved).
6. **The text of a name is not always lossless** (`internal/pqx509/name.go:366`). The empty name
   and empty values are written and not read back. Complete names are
   (`CompleteNamesSurvive`), and incomplete ones are at least told apart.
7. **A repeated common name is dropped** (`internal/pqx509/name.go:390`), where the comment
   promises that a field is never dropped silently. Nothing else is (`NothingElseIsDropped`).
8. **A UTF8String may hold what is not UTF-8** (`internal/pqx509/name.go:112`, `249`). The
   reader takes a T61String, IA5String or UTF8String byte for byte, and the writer calls it
   "utf8", with which `encoding/asn1` copies the bytes and checks nothing. Such a certificate is
   issued; a stricter reader, as that of `crypto/x509`, refuses it. The design
   (phase 2, 2.4) has strings "converted to UTF-8" and speaks of two other types.
   Within the library nothing is lost: the certificate has the bytes of the request
   (`IssuedAsRequested`), no request is refused for them (`OwnRequestsAreIssued`), and what
   was written is read back (`OwnDocumentsAreRead`); all three are proved for such names too.

## 5. Proofs

| Module | Theorem | Statement |
|---|---|---|
| `RevocationProofs` | `TypeCorrect` | `Spec => []TypeOK` |
| | `ServedComplete` | `Spec => []ServedCRLIsComplete` |
| | `ServedUnexpired` | `Spec => []ServedCRLIsUnexpired` |
| | `PublishedTrue` | `Spec => []PublishedStaysTrue` |
| | `NumberIdentifies` | `Spec => []NumberIdentifiesContent` |
| | `RevokeReplyTrue` | `Spec => []RevokeReplyIsTrue` |
| | `OneRevoker` | `Spec => []OneRevokerWins` |
| | `ConnectionKept` | `Spec => []NoConnectionLeak` |
| | `RevocationIsFinal` | `Spec => FirstRevocationWins` |
| | `Refinement` | `Spec => ImplementsAtomic` |
| `IssuanceProofs` | `TypeCorrect` | `Spec => []TypeOK` |
| | `NeverBeyondIssuer` | `Spec => []WithinIssuer` |
| | `KeysStayHome` | `Spec => []KeyHasOneHome` |
| | `ConfirmedKeysStay` | `Spec => []CreatedHasItsKey` |
| | `RowsHaveKeys` | `Spec => []EveryRowHasItsKey`, if `~LateCancel` |
| | `NoKeyLeftOver` | `Spec => []NoStrayKeys`, if `~LateCancel` |
| | `KeysAreNotShared` | `Spec => []OneRowPerKey`, if `~LateCancel` |
| | `ChainsAreSigned` | `Spec => []ChainHolds`, if `~LateCancel` |
| `DaemonProofs` | `TypeCorrect` | `Spec => []TypeOK` |
| | `SchemaStaysWhole` | `Spec => []SchemaWhole` |
| | `UsedOnlyMigrated` | `Spec => []MigratedBeforeUse` |
| | `PrintedTokensWork` | `Spec => []PrintedIsAccepted` |
| | `ExitIsClean` | `Spec => []CleanExit` |
| `ValidityProofs` | `NothingLivesTooLong` | `Spec => []NoLongerThanAllowed` |
| | `TheAllowedIsGranted` | `Spec => []AllowedIsGranted` |
| `PathValidationProofs` | `AllChainsAndNoOther` | `Spec => []ReturnsTheValidChains` |
| | `TheErrorTellsWhy` | `Spec => []ErrorTellsWhy` |
| `ExchangeProofs` | `TheKeyIsTheCertificates` | `Spec => []KeyFitsCertificate` |
| | `GrantedToTheKeyHolder` | `Spec => []IssuedToTheKeyHolder` |
| | `DamageIsRefused` | `Spec => []DamageIsNoticed` |
| | `ChainsLink` | `Spec => []ChainLinks` |
| | `WrittenIsRead` | `Spec => []OwnDocumentsAreRead` |
| | `OwnRequestsGranted` | `Spec => []OwnRequestsAreIssued` |
| | `GrantedAsRequested` | `Spec => []IssuedAsRequested` |
| `NameStringProofs` | `NamesSurvive` | `Spec => []CompleteNamesSurvive` |
| | `NamesToldApart` | `Spec => []NamesAreToldApart` |
| | `NothingDropped` | `Spec => []NothingElseIsDropped` |

In each module the theorems follow from `Invariance == Spec => []IInv` for an inductive
invariant `IInv`, except that `OneRevokerWins` is inductive relative to it, and that `Exchange`
has a second invariant that is (`ContentInvariance == Spec => []ContentInv`). With them every
invariant that a run checks is a theorem.

**Assumptions.** There is no bound on the numbers of requests, CAs, keys, processes and
migrations, on clocks or on pools. What is assumed of the constants is stated where they are
declared, and TLC evaluates it on every run:

- in `Revocation`, there are finitely many serials (`SerialsAssumption`; the table is finite),
  the clock shows natural numbers and a CRL is valid for a positive time (`ClockAssumption`;
  the configuration refuses others), reason codes are integers (`ReasonsAssumption`);
- in `Issuance`, the bodies of requests are of their types and the limits are numbers
  (`RequestBodies`, `IssuanceBounds`, `LateCancelAssumption`), and no client has a key pair that
  this process generates (`ClientKeysDiffer`);
- in `Daemon`, the number of migrations is one (`MigrationsAssumption`);
- in `Validity`, units are positive, the validities that the code has as constants are far from
  the limits of a Duration, so are the times of requests (`Units`, `CAsAreShort`), and a number
  that was parsed is an int (`NumbersFit`);
- in `PathValidation`, a call is of its type (`InputAssumption`) and the limit of the depth
  is positive (`DepthAssumption`);
- in `Exchange`, a CSR of another program is signed by some key, either over its own content
  or over something that no damage makes of it (`ForeignAssumption`): a CSR whose
  signature is wrong and which damage puts right is a valid CSR, and nobody could tell;
- in `Exchange`, `NULL` is no certificate of a CA and no key, and `Error` is no key
  (`NullAssumption`, `ErrorAssumption`); more generally, neither is among the values that
  functions of `Encoding` and `Documents` return (`TypeAssumption`);
- in `Exchange`, what clients and administrators send has its types: names of characters with
  at most one common name, alternative names of strings and of addresses with 4 or 16 bytes,
  entries whose times are whole seconds, which the rows have (`InputAssumption`). The subject
  of a CSR of another program may hold strings of any tag and 16 bit units of any kind, its
  attributes general names of any tag and addresses of any size (`ForeignTypeAssumption`).
  Lives are in whole seconds, no CA is run before 1950, and 2050 is before the last year that
  can be written (`TimeAssumption`);
- in `NameString`, texts and names are made of characters (`TextsAssumption`, `NamesAssumption`,
  `CharactersAssumption`), and an error is neither a text nor a name (`ErrorAssumption`);
- `NULL`, which stands for nil, is none of the values it is compared with (`NullAssumption`,
  `CallAssumption`, `NullIsNoValue`, `NamesDiffer`, `NoTransaction`).

**Revocation.** The difficult property is `ServedCRLIsComplete`: the cache test
compares counts, so a CRL with other entries but equally many of them would pass. It is
not inductive; `IInv` adds what makes it so.

1. `TableGrows`: no step changes or removes a revoked row. `CommitRevocation` would, if
   two requests could both find the row active; `RequestInv` says that a request about to
   commit holds the only connection and that its row is still not revoked, and
   `NoConnectionLeak` that a held connection belongs to a request inside its transaction.
2. So what is revoked of a CA only grows. `RequestInv` records, step by step, what a
   request knows: its list extends what was revoked when it arrived, and is extended by
   what is revoked now.
3. `ChainInv`: everything that was ever listed by a running request or published for one
   CA was a state of the same growing table, so any two of these are comparable.
4. `EqualCountEqualRows`: of two comparable finite maps with equally many entries each is
   the other (cardinality of finite sets). With `CacheInv` (a cached CRL is published, and
   its count is the number of its entries) a cache hit has exactly the entries listed.
5. `NumberInv` (number = entries + 1) and step 4 give `NumberIdentifiesContent`, across
   restarts, because `published` survives them.

**Refinement.** `CallFacts` reads off the mapped state of a request from its next step.
The steps of the service then fall into four kinds, each with a lemma: those that the
mapping does not see (`Stutters`), an arrival (`Arrives`), an answer (`Leaves`, `IsRefusedWith`)
and a step that takes effect (`Moves`): the listing of the rows for a CRL, the commit for a
revocation. The step that carries the argument is the cache hit: it stutters because, by
step 4 above, the cached CRL has exactly the entries that were listed.

**Issuance.** What each request has of its own and what it may rely on:

1. `FlowInv` has the order of the steps: which local variables are set at which step, for
   each of the two operations, with their different positions of loading a key.
2. `IssuerInv`: rows of `cas` are never removed or changed, so the issuer that a request
   read is still the one in the table when it inserts. From this, `WithinIssuer`.
3. `PairInv`: the key pair of a request is in no response, in no other request, and in no
   file but its own. From this, `KeyHasOneHome`, whichever random ids collide, since files are
   created exclusively.
4. `FileInv`: the file that a request created is there, whole once it was written, and nobody
   else gives it up. From this, `CreatedHasItsKey`.
5. `RowInv`: no row names the file of a request under way. This is what late cancellations
   break: the row is there, and the request still goes on to delete its file. So the four
   properties that rest on it are proved under `~LateCancel`; `EveryRowHasItsKey` is false
   otherwise (section 4).
6. `SignerInv`: the key that was loaded is the one that the issuer's certificate has; it
   needs `EveryRowHasItsKey` of the issuer at the step that loads it, which gives
   `ChainHolds`.

**Daemon.** `TxInv` has the write transaction with the process that is between begin and
commit, with the one file that it applies; `MigrateInv` has that a process is past a file only
if it is recorded, so that a process that is past all of them finds a whole schema. A
process that checked before another one applied finds the table there and fails; that is
why `SchemaWhole` does not need the check to be inside the transaction. `ServerInv` ties the
states of the goroutine of `ServeTLS`, its channel and `serve` to each other, `ActiveInv` says
that an unanswered request belongs to a process that still serves, and that none is left when
`Shutdown` has returned without an error.

**Validity.** `WrapIs`: two numbers that differ by a multiple of 2 * `Half` wrap to the same.
`CheckedLength`: if the length r that is left of the seconds after `AddDate` wrapped makes ticks
that fit, the duration that was checked is exactly r in ticks, since both are the days times
a constant, less a multiple of 2 * `Half`. `GrantedIsAllowed`: the issuer bounds r by the
validity of a CA, which fits; so r is within the maximum. `LimitFacts`: the maximum, wrapped
and with zero replaced by the default, is never above what was configured. The proof showed
that a length may wrap to one below zero, which the model had not reached with a skew of 1:
the property had said that no certificate ends before the present, and now says that none
ends before it begins.

**Path validation.** No induction over chains is needed, because `Covered` is about every
call of `checkLink` that the search should make (`Attempt(p, i)`: a partial chain and the
position of a candidate): it is `Done`, which means that its chain was recorded or an error
noted, or it is `Pending`, which means that the loops of some activation on the stack still
have the candidate, or the next certificate of the partial chain, before them. An iteration
takes one attempt off the list, or moves those with a longer chain to the new activation; a
return finds none left for the activation that ends. When the stack is empty, all are done.

**Exchange.** No induction over a document is needed for what concerns its keys, its
signature and the extensions with a fixed value.

1. `Built`: `buildExtensions` writes basic constraints, key usage and the key identifiers with
   the value of the template. `ValueFound`: a reader finds the value that was written, since
   `ExtensionsAllowed` refuses a document in which an extension occurs twice. Together, in
   `CreatedAndRead`, what a template says comes back in the certificate that is read.
2. So every certificate of a CA that is in use is in `Roots` or `Intermediates` (`CAsInv`), and
   `RootFacts` and `IntermediateFacts` have what is true of these: names, identifiers,
   signatures and path lengths, of which `ChainLinks` is made.
3. `Signed(d)`: a document that its author signed has the algorithm and the size of the key that
   signed. `DamageAround` shows that no change around the signed part survives the checks of
   the reader, `DamageWithin` that a change in it does not have the signature. The first
   rests on every reader comparing the algorithm that the document names with that of the key
   it verifies with, since the part that is signed need not name it: a CSR's does not.
4. `RequestInv`, `CertificateInv` and `ListInv` carry this from the author to the reader: as long
   as a document is undamaged it is `Signed`, by the key of its issuer; after that it is one
   that nobody accepts. `DamageIsNoticed` follows, for a CSR as the certificate that is not
   issued.
5. `GrantedToTheKeyHolder` is the part of `IssuedAsRequested` that concerns the key and the
   constraints, and holds of any CSR that is signed.

What the names, times, usages and entries of a document become is proved in the second half
of the module, with the induction of `FoldLemmas`.

1. *Reading undoes writing*, structure by structure. `NameWritten`: `ParseName` goes through the
   RDNs that `ToRDNSequence` joined type by type, so it finds the values of each type, in
   order (`Layout` says where each type begins, `ChosenRounds` what the loop has collected so
   far), and `NameWritable` that every name can be written. `SANsRead`, `UsagesRead`, `ExtUsagesRead`, `ConstraintsReadBack`, `TimeRead` and
   `EntryRead` are the same for the others. `ListedOnce` has the four ways in which
   `buildExtensions` joins four extensions and two optional ones, and that none comes twice.
2. *Together*: `CertificateReadBack`, `ListReadBack` and `OwnRequestIs` say that what
   `CreateCertificate`, `CreateRevocationList` and `CreateCertificateRequest` return
   is accepted by its parser and has the same content (`ReadFrom`, `ListReadFrom`,
   `OwnRequestRead`). `CertificateMade` and `CSRRefused` say when a certificate or a CSR is
   made at all: the engine's refusals are then the only ones, and a CSR is made of everything
   but nothing. The time is the case that takes an argument: a
   certificate does not outlive its issuer, and the issuer's end was written, so its own can be.
3. *A CSR of another program* need not have been written by this library. `RequestParsed` says
   of any request that `ParseCertificateRequest` accepts that the result holds what was
   asked for: every name of every list of extensions of every attribute
   (`NamesOfAttributes`, which rests on two lists with names, or a list that has them twice,
   being refused), and the values of the subject by type, the common name being the last one.
   `WideStringRead` has that half of a surrogate pair is refused and not read.
4. `ContentInv` carries this through the steps: `SentInv` says that a request that is handled is
   one that can be sent, and that nothing fails but what could not be written; `WrittenInv`
   that an undamaged certificate or list is the one for its author's template
   (`WrittenFor`, `ListWrittenFor`), which grants what was requested (`AsRequested`), and that
   what was read of it says so. It is inductive relative to `IInv`, from which it takes that the
   CAs are those that the engine makes (`AuthorityIs`), and that an undamaged request is
   handled as it was sent.
5. `OwnRequestsAreIssued` is a part of `ContentInv`. `RefusedByHandler`, `CSRRefusedByEngine` and
   `BodyRefusedByEngine` take the reasons for which the handler and the engine refuse one by one
   and show that each is the policy of the CA (`MayRefuse`) or cannot arise: this library
   reads what it wrote.

**Names as text.** `String` and `ParseNameString` are loops over values of any length, so what
they compute needs induction over data. The library's induction theorems quantify over operators
and cannot be used; `FoldLemmas` proves induction for *sets* of numbers (`Upwards`,
`Downwards`), from which it proves that recursive functions exist (`Recursion`), that a fold
goes through its accumulators (`FoldComputes`), and where `FlattenSeq` puts
each of the sequences that it joins (`Layout`). The argument about the text is then:

1. A position is `Free` if an even number of backslashes stands before it, and a stretch is
   `Quiet` if it holds no separator. From a free position, one chunk that
   `escapeAttributeValue` writes is quiet and ends at a free position (`EscapedChunk`), so the
   whole value is and does (`EscapedValue`), and so does the type before it (`PlainRun`).
2. By induction over the parts, each begins at a free position, and the
   separators of the text are exactly the ones that `Join` put there (`Joints`); so the loop of
   `splitUnescaped` cuts out the parts that were joined (`JoinSplit`).
3. By induction from the end of a value, `unescapeAttributeValue` undoes every chunk
   (`EscapeUndone`); type, trimming and the refused forms do not interfere (`ComponentRead`).
4. By induction over types and values, adding the components makes the name again (`Rebuilt`).
   With 2 and 3 this is `CompleteNameRead`. Names with empty values are not
   read back, but 2 and 3 still hold of their text: it determines the parts, these the types and
   the escaped values, and these the values (`NamesDiffer`).
5. `NothingElseIsDropped` is by induction over the components after the one in question
   (`ComponentsKept`).

Only model-checked are `EveryRequestAnswered`, `StopsAfterSignal`, `StartEnds` and `Terminates`,
since liveness is out of the prover's reach.

## 6. What is not modelled

- The bytes of DER, PEM and PKCS#8, and cryptography: a structure is its fields, a signature
  is the key that made it over a message, a hash is what it is of, a sealed key is had back
  with the passphrase it was sealed with.
- The syntax of JSON and of YAML: a body and a file are the fields they set.
- Handlers that only read (lists, single CAs and certificates, health), and `ListCAs` and
  `ListCertificates` of the store. One of them has a hazard that no property covers: the
  alternative names are one column, joined by commas.
- Which TLS certificate the daemon uses, and how it makes a self-signed one: a step of the
  start that may fail.
- A statement that fails is taken to have no effect, except for the inserts of `Issuance`
  with `LateCancel`. A key file that was synced is taken to survive; the directory is not
  synced by the code.
- Entropy failures are allowed by the model wherever the code handles them, although
  recent Go releases end the process instead.
- Calendars: a day is 24 hours, as in the UTC that the engine uses.

## 7. Plan

Done: `Revocation` with abstract specification, proofs and refinement; `Issuance` with late
cancellations, `Daemon`, `Validity`, `PathValidation`, `Exchange` over `Documents` and
`Encoding`, and `NameString`, each with proofs. Next, in this order:

1. Composition: `Issuance` and `Revocation` over the same tables, so that the
   certificates that are revoked are the ones that were issued.
2. An abstract specification of issuance, in which a request takes effect when its row is
   inserted, and that `Issuance` implements it.
