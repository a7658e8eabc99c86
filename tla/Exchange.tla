------------------------------ MODULE Exchange ------------------------------
(***************************************************************************)
(* The documents of pqtrust on their way: the CA writes its own            *)
(* certificates, a client asks for a certificate with a CSR or with a JSON *)
(* body, the server reads it, fills a template and signs it, and a relying *)
(* party reads the certificate or the CRL with the same library.  Any      *)
(* document may be damaged in one field before it is read.                 *)
(*                                                                         *)
(* CreateCA and IssueCertificate (internal/ca), handleIssueCertificate     *)
(* (internal/api).  Rows, keys files and times of the requests are those   *)
(* of Issuance, which leaves out what is inside a certificate.             *)
(***************************************************************************)
EXTENDS Documents

CONSTANTS
    CASubjects, CAAlgorithms,          \* of the requests to create a CA
    Subjects, SANs, Pairs, Algorithms, ExtKeyUsages,  \* of the requests of clients
    ForeignCSRs,                       \* requests made by other programs
    Addresses,                         \* ip_addresses of a body
    Entries,                           \* lists of revoked certificates
    Times,                             \* times at which something is signed
    Skew, RootLife, IntermediateLife, EndEntityLife, CRLLife  \* half seconds

VARIABLES
    pc,            \* what happens next
    root,          \* the certificate of the root CA, as parsed
    intermediate,  \* the certificate of the intermediate CA, as parsed
    body,          \* the request of the client
    own,           \* its CSR was made by CreateCertificateRequest
    doc,           \* the document that was written last
    made,          \* what its author put into it
    keyPEM,        \* private_key_pem of the response, NULL if there is none
    damaged,       \* it was damaged
    got            \* what the reader accepted of it, NULL if nothing

vars == <<pc, root, intermediate, body, own, doc, made, keyPEM, damaged, got>>

Init ==
    /\ pc = "root"
    /\ root = NULL
    /\ intermediate = NULL
    /\ body = NULL
    /\ own = FALSE
    /\ doc = NULL
    /\ made = NULL
    /\ keyPEM = NULL
    /\ damaged = FALSE
    /\ got = NULL

-----------------------------------------------------------------------------
(* CreateCA *)

rootProfile ==
    [algorithms |-> {"ML-DSA-87", "SLH-DSA-SHA2-256s", "SLH-DSA-SHAKE-256s"},
     pathLen |-> 1, keyUsage |-> {5, 6}, life |-> RootLife]

intermediateProfile ==
    [algorithms |-> {"ML-DSA-65", "SLH-DSA-SHA2-192s", "SLH-DSA-SHAKE-192s"},
     pathLen |-> 0, keyUsage |-> {5, 6}, life |-> IntermediateLife]

Truncate(t) == t - (t % 2)

CATemplate(profile, subject, alg, now) ==
    [serial |-> 1, alg |-> alg, subject |-> subject,
     notBefore |-> Truncate(now) - Skew, notAfter |-> Truncate(now) + profile.life,
     bc |-> [isCA |-> TRUE, maxPathLen |-> profile.pathLen, maxPathLenSet |-> TRUE],
     keyUsage |-> profile.keyUsage, extKeyUsage |-> <<>>, sans |-> EmptySANs]

(* The private key of a CA certificate, from the key store. *)
KeyOf(cert) == [alg |-> cert.key.alg, id |-> cert.key.bytes.id]

(* The documents of the two: GenerateKey, the template and its signature.  *)
RootKey(alg) == [alg |-> alg, id |-> "root key"]

RootCertificate(subject, alg, now) ==
    CreateCertificate(CATemplate(rootProfile, subject, alg, now), NULL,
                      Public(RootKey(alg)), RootKey(alg))

IntermediateKey(alg) == [alg |-> alg, id |-> "intermediate key"]

IntermediateCertificate(parent, subject, alg, now) ==
    CreateCertificate(CATemplate(intermediateProfile, subject, parent.key.alg, now), parent,
                      Public(IntermediateKey(alg)), KeyOf(parent))

(* What was signed, as read back. *)
CertificateOf(der) == IF der = Error THEN Error ELSE ParseCertificate(der)

CreateRoot(subject, alg, now) ==
    LET tmpl == CATemplate(rootProfile, subject, alg, now)
        der  == RootCertificate(subject, alg, now)
        refused == subject["CN"] = <<>> \/ alg \notin rootProfile.algorithms
        cert == IF refused THEN Error ELSE CertificateOf(der)
    IN  /\ pc = "root"
        /\ made' = [template |-> tmpl, key |-> Public(RootKey(alg))]
        /\ IF cert = Error
             THEN /\ pc' = "failed"
                  /\ doc' = IF refused THEN NULL ELSE der
                  /\ UNCHANGED root
             ELSE pc' = "intermediate" /\ doc' = der /\ root' = cert
        /\ UNCHANGED <<intermediate, body, own, keyPEM, damaged, got>>

CreateIntermediate(subject, alg, now) ==
    LET tmpl == CATemplate(intermediateProfile, subject, root.key.alg, now)
        der  == IntermediateCertificate(root, subject, alg, now)
        refused == \/ subject["CN"] = <<>>
                   \/ alg \notin intermediateProfile.algorithms
                   \/ tmpl.notAfter > root.notAfter
        cert == IF refused THEN Error ELSE CertificateOf(der)
    IN  /\ pc = "intermediate"
        /\ made' = [template |-> tmpl, key |-> Public(IntermediateKey(alg))]
        /\ IF cert = Error
             THEN /\ pc' = "failed"
                  /\ doc' = IF refused THEN NULL ELSE der
                  /\ UNCHANGED intermediate
             ELSE pc' = "ready" /\ doc' = der /\ intermediate' = cert
        /\ UNCHANGED <<root, body, own, keyPEM, damaged, got>>

-----------------------------------------------------------------------------
(* The request of the client *)

EmptyBody == [csr |-> NULL, subject |-> EmptyName, dns |-> <<>>, email |-> <<>>, ip |-> <<>>,
              alg |-> "", extKeyUsage |-> <<>>, storeKey |-> FALSE]

Send(request, byUs) ==
    /\ pc = "ready"
    /\ body' = request
    /\ own' = byUs
    /\ doc' = request.csr
    /\ made' = NULL
    /\ pc' = "handle"
    /\ UNCHANGED <<root, intermediate, keyPEM, damaged, got>>

(* CreateCertificateRequest makes no CSR of what the client gave it. *)
GiveUp(subject, sans) ==
    /\ pc = "ready"
    /\ made' = [subject |-> subject, sans |-> sans]
    /\ pc' = "unsent"
    /\ UNCHANGED <<root, intermediate, body, own, doc, keyPEM, damaged, got>>

SendCSR(subject, sans, pair, ekus) ==
    \E csr \in {CreateCertificateRequest(subject, Public(pair), pair, sans)} :
        IF csr = Error THEN GiveUp(subject, sans)
        ELSE Send([EmptyBody EXCEPT !.csr = csr, !.extKeyUsage = ekus], TRUE)

SendForeignCSR(csr) == Send([EmptyBody EXCEPT !.csr = csr], FALSE)

(* A CSR, and a field that must be empty when there is one. *)
SendCSRAndMore(pair) ==
    \E csr \in {CreateCertificateRequest(s, Public(pair), pair, EmptySANs) : s \in Subjects} :
        /\ csr # Error
        /\ \E request \in
               {[EmptyBody EXCEPT !.csr = csr, !.subject = [EmptyName EXCEPT !["O"] = <<<<"b">>>>]],
                [EmptyBody EXCEPT !.csr = csr, !.dns = <<"host">>],
                [EmptyBody EXCEPT !.csr = csr, !.email = <<"mail">>],
                [EmptyBody EXCEPT !.csr = csr, !.ip = <<"10.0.0.1">>],
                [EmptyBody EXCEPT !.csr = csr, !.alg = "ML-DSA-44"],
                [EmptyBody EXCEPT !.csr = csr, !.storeKey = TRUE]} : Send(request, TRUE)

IsUTF8(v) == \A i \in DOMAIN v : v[i] # "byte"

(* encoding/json leaves nothing in a string that is not UTF-8. *)
SendBody(subject, sans, ips, alg, ekus, storeKey) ==
    /\ pc = "ready"
    /\ \A t \in ToSet(Types) : \A i \in DOMAIN subject[t] : IsUTF8(subject[t][i])
    /\ Send([EmptyBody EXCEPT !.subject = subject, !.dns = sans.dns, !.email = sans.email,
                              !.ip = ips, !.alg = alg, !.extKeyUsage = ekus,
                              !.storeKey = storeKey], TRUE)

-----------------------------------------------------------------------------
(* handleIssueCertificate, IssueCertificate *)

parseCSRPEM(der) ==
    LET csr == ParseCertificateRequest(der)
    IN  IF csr = Error THEN Error ELSE IF CheckSignature(csr) THEN csr ELSE Error

csrForbiddenField(b) ==
    \/ b.subject # EmptyName
    \/ b.dns # <<>> \/ b.ip # <<>> \/ b.email # <<>>
    \/ b.alg # ""
    \/ b.storeKey

(* net.ParseIP: an IPv4 address in the form of sixteen bytes. *)
ParseIP(raw) ==
    CASE raw = "10.0.0.1" -> [size |-> 16, mapped |-> TRUE, host |-> "10.0.0.1"]
      [] raw = "::ffff:10.0.0.1" -> [size |-> 16, mapped |-> TRUE, host |-> "10.0.0.1"]
      [] raw = "2001:db8::1" -> [size |-> 16, mapped |-> FALSE, host |-> "2001:db8::1"]
      [] OTHER -> Error

endEntityAlgorithms ==
    {"ML-DSA-44", "ML-DSA-65", "SLH-DSA-SHA2-128s", "SLH-DSA-SHA2-128f",
     "SLH-DSA-SHAKE-128s", "SLH-DSA-SHAKE-128f"}

Refuse(now) == pc' = "refused" /\ made' = [now |-> now] /\ UNCHANGED <<doc, keyPEM, damaged>>

(* The certificate: subject, names and key of the request, the rest from   *)
(* the profile of an end entity.                                           *)
IssueCertificate(subject, sans, alg, pub, priv, ekus, now) ==
    LET tmpl == [serial |-> 2, alg |-> intermediate.key.alg, subject |-> subject,
                 notBefore |-> Truncate(now) - Skew, notAfter |-> Truncate(now) + EndEntityLife,
                 bc |-> NoConstraints, keyUsage |-> {0},
                 extKeyUsage |-> IF ekus = <<>> THEN <<"serverAuth">> ELSE ekus, sans |-> sans]
        der == CreateCertificate(tmpl, intermediate, pub, KeyOf(intermediate))
    IN  IF \/ alg \notin endEntityAlgorithms
           \/ subject["CN"] = <<>> /\ sans = EmptySANs
           \/ tmpl.notAfter > intermediate.notAfter
           \/ der = Error
          THEN Refuse(now)
          ELSE /\ doc' = der
               /\ made' = [template |-> tmpl, key |-> pub, fromDamaged |-> damaged]
               /\ keyPEM' = IF priv = NULL \/ body.storeKey THEN NULL ELSE EncodePrivateKeyPEM(priv)
               /\ damaged' = FALSE
               /\ pc' = IF ParseCertificate(der) = Error THEN "failed" ELSE "read certificate"

(* GenerateKey, when there is no CSR. *)
NewKey(alg) == [alg |-> alg, id |-> "new key"]

HandleIssueCertificate(now) ==
    /\ pc = "handle"
    /\ LET csr == IF body.csr = NULL THEN NULL ELSE parseCSRPEM(doc)
           ips == [i \in DOMAIN body.ip |-> ParseIP(body.ip[i])]
           alg == IF body.alg = "" THEN "ML-DSA-44" ELSE body.alg
           pair == NewKey(alg)
       IN  IF \/ csr = Error
              \/ body.csr # NULL /\ csrForbiddenField(body)
              \/ ~Valid(alg)
              \/ ~(ToSet(body.extKeyUsage) \subseteq KnownUsages)
              \/ Fails(ips)
             THEN Refuse(now)
             ELSE IF body.csr # NULL
               THEN IssueCertificate(csr.subject, csr.sans, csr.key.alg, csr.key, NULL,
                                     body.extKeyUsage, now)
               ELSE IssueCertificate(body.subject,
                        [dns |-> body.dns, email |-> body.email,
                         ip |-> [i \in DOMAIN ips |-> To4(ips[i])]],
                        alg, Public(pair), PrivateKey(pair), body.extKeyUsage, now)
    /\ UNCHANGED <<root, intermediate, body, own, got>>

-----------------------------------------------------------------------------
(* Engine.CRL, and the relying party *)

Publish(entries, now) ==
    LET number == Len(entries) + 1
        der == CreateRevocationList(intermediate, KeyOf(intermediate), number, entries,
                                    Truncate(now), Truncate(now) + CRLLife)
    IN  /\ pc = "ready"
        /\ doc' = der
        /\ made' = [entries |-> entries, number |-> number, now |-> now]
        /\ pc' = IF der = Error THEN "failed" ELSE "read list"
        /\ UNCHANGED <<root, intermediate, body, own, keyPEM, damaged, got>>

ReadCertificate ==
    /\ pc = "read certificate"
    /\ LET cert == ParseCertificate(doc)
       IN  got' = IF cert = Error THEN NULL
                  ELSE IF VerifyCertificateFrom(cert, intermediate) THEN cert ELSE NULL
    /\ pc' = "certificate"
    /\ UNCHANGED <<root, intermediate, body, own, doc, made, keyPEM, damaged>>

ReadList ==
    /\ pc = "read list"
    /\ LET list == ParseRevocationList(doc)
       IN  got' = IF list = Error THEN NULL
                  ELSE IF VerifyListFrom(list, intermediate) THEN list ELSE NULL
    /\ pc' = "list"
    /\ UNCHANGED <<root, intermediate, body, own, doc, made, keyPEM, damaged>>

(* One field of the document changes: around the part that is signed, or   *)
(* in it.                                                                  *)
DamagedAround(d) ==
    {[d EXCEPT !.rest = TRUE], [d EXCEPT !.alg.params = TRUE], [d EXCEPT !.sig.unused = TRUE],
     [d EXCEPT !.sig.size = @ - 1], [d EXCEPT !.sig.by = NULL]}
      \cup {[d EXCEPT !.alg = Identifier(oid)] : oid \in DOMAIN Info \cup {"other"}}

DamagedRequest(d) ==
    {[d EXCEPT !.tbs.version = @ + 1], [d EXCEPT !.tbs.spki.bytes.id = "damaged"],
     [d EXCEPT !.tbs.subject = <<>>], [d EXCEPT !.tbs.attributes = <<>>]}

DamagedIssued(d) ==
    {[d EXCEPT !.tbs.version = @ + 1], [d EXCEPT !.tbs.issuer = <<>>]}
      \cup {[d EXCEPT !.tbs.alg.oid = oid] : oid \in DOMAIN Info}
      \cup {[d EXCEPT !.tbs.exts = SubSeq(@, 1, n)] : n \in 0 .. Len(d.tbs.exts)}

Damage ==
    /\ pc \in {"handle", "read certificate", "read list"}
    /\ doc # NULL
    /\ ~damaged
    /\ doc' \in DamagedAround(doc) \cup (IF pc = "handle" THEN DamagedRequest(doc)
                                        ELSE DamagedIssued(doc))
    /\ doc' # doc
    /\ damaged' = TRUE
    /\ UNCHANGED <<pc, root, intermediate, body, own, made, keyPEM, got>>

Ask ==
    \/ \E s \in Subjects, n \in SANs, p \in Pairs, u \in ExtKeyUsages : SendCSR(s, n, p, u)
    \/ \E csr \in ForeignCSRs : SendForeignCSR(csr)
    \/ \E p \in Pairs : SendCSRAndMore(p)
    \/ \E s \in Subjects, n \in SANs, ip \in Addresses, a \in Algorithms, u \in ExtKeyUsages,
          k \in BOOLEAN : SendBody(s, n, ip, a, u, k)

Next ==
    \/ \E s \in CASubjects, a \in CAAlgorithms, t \in Times :
            CreateRoot(s, a, t) \/ CreateIntermediate(s, a, t)
    \/ Ask
    \/ \E t \in Times : HandleIssueCertificate(t)
    \/ \E e \in Entries, t \in Times : Publish(e, t)
    \/ ReadCertificate
    \/ ReadList
    \/ Damage

Spec == Init /\ [][Next]_vars

-----------------------------------------------------------------------------
(* The types of documents, and of what is in them *)

(* Every string; some are named because the proofs know STRING only as a   *)
(* set of which they cannot tell that a given string is in it.             *)
Strings ==
    STRING \cup KnownUsages \cup {"root key", "intermediate key", "new key"}
      \cup {"10.0.0.1", "2001:db8::1"}

(* A name of characters, with no half of a surrogate pair. *)
Characters == {"a", "b", "n~", "astral", "byte"}

IsName(n) == n \in [ToSet(Types) -> Seq(Seq(Characters))] /\ Len(n["CN"]) <= 1

Names == {n \in [ToSet(Types) -> Seq(Seq(Characters))] : IsName(n) /\ <<>> \notin ToSet(n["CN"])}

DirectoryStrings == [tag : {"printable", "utf8"}, bytes : Seq(Characters)]
RDNs == [type : ToSet(Types), value : DirectoryStrings, avas : {1}]

KeyBytes == [id : Strings, size : Nat]
Keys == [alg : DOMAIN Info, bytes : KeyBytes]
Identifiers == [oid : DOMAIN Info, params : {FALSE}]
SubjectKeys == [alg : Identifiers, bytes : KeyBytes, unused : {FALSE}]
Dates == [tag : {"utc", "generalized"}, digits : Int]

Hosts(sizes) == [size : sizes, mapped : BOOLEAN, host : Strings]
GeneralNames(sizes) == [tag : Int \ {7}, bytes : Strings] \cup [tag : {7}, bytes : Hosts(sizes)]
AltNames == [dns : Seq(Strings), email : Seq(Strings), ip : Seq(Hosts({4, 16}))]

Constraints == [isCA : BOOLEAN, maxPathLen : Nat, maxPathLenSet : BOOLEAN]
WrittenConstraints == [isCA : BOOLEAN, maxPathLen : Int]
KeyUsageBits == 0 .. 8
WrittenUsages == [bits : SUBSET KeyUsageBits, length : Nat]

ExtensionValues ==
    WrittenConstraints \cup WrittenUsages \cup Seq(Strings) \cup KeyBytes
      \cup Seq(GeneralNames({4, 16})) \cup Int

Extensions ==
    [id : CertificateExtensions \cup {"cRLNumber", "cRLReason"}, critical : BOOLEAN,
     value : ExtensionValues]

Signatures(T) == [by : Keys, over : T, size : Nat, unused : {FALSE}]
DocumentsOf(T) == [tbs : T, alg : Identifiers, sig : Signatures(T), rest : {FALSE}]

SignedCertificates ==
    [version : {2}, serial : Nat, alg : Identifiers, issuer : Seq(RDNs), notBefore : Dates,
     notAfter : Dates, subject : Seq(RDNs), spki : SubjectKeys, exts : Seq(Extensions)]

Certificates ==
    [version : {3}, serial : Nat, alg : DOMAIN Info, sig : Signatures(SignedCertificates),
     rawTBS : SignedCertificates, issuer : Names, rawIssuer : Seq(RDNs), subject : Names,
     rawSubject : Seq(RDNs), notBefore : Int, notAfter : Int, key : Keys, bc : Constraints,
     keyUsage : SUBSET KeyUsageBits, extKeyUsage : Seq(Strings), subjectKeyID : KeyBytes,
     authorityKeyID : KeyBytes, sans : AltNames]

Attributes == [type : {"extensionRequest"}, values : Seq(Seq(Extensions))]

SignedRequests ==
    [version : {0}, subject : Seq(RDNs), spki : SubjectKeys, attributes : Seq(Attributes)]

Requests ==
    [subject : Names, key : Keys, alg : DOMAIN Info, sig : Signatures(SignedRequests),
     rawTBS : SignedRequests, sans : AltNames]

EntriesOfLists == [serial : Nat \ {0}, time : Nat, reason : Nat]

SignedLists ==
    [version : {1}, alg : Identifiers, issuer : Seq(RDNs), thisUpdate : Dates, nextUpdate : Dates,
     revoked : Seq([serial : Nat, date : Dates, exts : Seq(Extensions)]), exts : Seq(Extensions)]

Lists ==
    [issuer : Names, rawIssuer : Seq(RDNs), alg : DOMAIN Info, sig : Signatures(SignedLists),
     rawTBS : SignedLists, thisUpdate : Int, nextUpdate : Int, number : Nat,
     authorityKeyID : KeyBytes, entries : Seq(EntriesOfLists)]

-----------------------------------------------------------------------------
(* Assumptions *)

(* The certificates of CAs that can be: as parsed. *)
Roots ==
    {CertificateOf(RootCertificate(s, a, t)) : s \in CASubjects, a \in CAAlgorithms, t \in Times}
      \ {Error}

Intermediates(parent) ==
    {CertificateOf(IntermediateCertificate(parent, s, a, t)) :
        s \in CASubjects, a \in CAAlgorithms, t \in Times} \ {Error}

(* NULL, which stands for nil, is no certificate and no key. *)
ASSUME NullAssumption ==
    /\ NULL \notin Roots
    /\ \A parent \in Roots : NULL \notin Intermediates(parent)
    /\ \A pair \in Pairs : Public(pair) # NULL
    /\ \A csr \in ForeignCSRs : publicKeyFromSPKI(csr.tbs.spki) # NULL
    /\ \A alg \in DOMAIN Info :
         /\ Public(IntermediateKey(alg)) # NULL
         /\ PrivateKey(NewKey(alg)) # NULL

(* Neither is Error a key. *)
ASSUME ErrorAssumption == \A alg \in DOMAIN Info : PrivateKey(NewKey(alg)) # Error

(* Error is none of the values that functions return otherwise, and NULL   *)
(* none of those that a reader has.                                        *)
NoValue ==
    /\ Error # NULL
    /\ Error \notin Int
    /\ Error \notin Seq(Characters)
    /\ Error \notin Names
    /\ Error \notin DirectoryStrings
    /\ Error \notin RDNs
    /\ Error \notin Seq(RDNs)
    /\ Error \notin Keys
    /\ Error \notin SubjectKeys
    /\ Error \notin Dates
    /\ Error \notin Hosts({4, 16})
    /\ Error \notin AltNames
    /\ Error \notin Constraints
    /\ \A bits \in SUBSET KeyUsageBits : Error # bits
    /\ Error \notin ExtensionValues
    /\ Error \notin Seq(Extensions)
    /\ Error \notin DocumentsOf(SignedCertificates)
    /\ Error \notin DocumentsOf(SignedRequests) /\ NULL \notin DocumentsOf(SignedRequests)
    /\ Error \notin Certificates /\ NULL \notin Certificates
    /\ Error \notin Requests
    /\ Error \notin Lists /\ NULL \notin Lists
    /\ NULL \notin EntriesOfLists

ASSUME TypeAssumption == NoValue

(* Durations are in whole seconds. *)
TimesAre ==
    /\ Century \in Int /\ Forever \in Int /\ Century <= Forever
    /\ \A d \in {Skew, RootLife, IntermediateLife, EndEntityLife, CRLLife} : d \in Nat /\ d % 2 = 0
    /\ EndEntityLife > 0
    /\ Times \subseteq Nat

ASSUME TimeAssumption == TimesAre

(* The requests of this library and of the clients of the API. *)
InputsAre ==
    /\ Subjects \subseteq Names /\ CASubjects \subseteq Names
    /\ SANs \subseteq AltNames
    /\ Pairs \subseteq [alg : DOMAIN Info, id : Strings]
    /\ ExtKeyUsages \subseteq Seq(Strings)
    /\ Addresses \subseteq Seq({"10.0.0.1", "::ffff:10.0.0.1", "2001:db8::1", "bad"})
    /\ Entries \subseteq Seq(EntriesOfLists)
    /\ \A entries \in Entries : \A i \in DOMAIN entries : entries[i].time % 2 = 0

ASSUME InputAssumption == InputsAre

(* A request of another program is signed by some key, over its own        *)
(* content or over something that no damage makes it: damage does not      *)
(* mend.                                                                   *)
ASSUME ForeignAssumption ==
    \A csr \in ForeignCSRs :
        /\ csr = [tbs |-> csr.tbs, alg |-> Identifier(csr.sig.by.alg), sig |-> csr.sig, rest |-> FALSE]
        /\ csr.sig = [by |-> csr.sig.by, over |-> csr.sig.over,
                      size |-> Info[csr.sig.by.alg].sig, unused |-> FALSE]
        /\ csr.sig.over = csr.tbs \/ \A d \in DamagedRequest(csr) : csr.sig.over # d.tbs

(* Its subject may hold strings of any type, with sixteen bit units of any *)
(* kind, and its attributes anything, general names of any tag and         *)
(* addresses of any size.                                                  *)
ForeignStrings ==
    [tag : {"printable", "utf8", "ia5", "t61"}, bytes : Seq(Characters)]
      \cup [tag : Strings \ {"printable", "utf8", "ia5", "t61"},
            bytes : Seq(Characters \cup {"lead", "trail", "half"})]

IsSequence(s) == Len(s) \in Nat /\ DOMAIN s = 1 .. Len(s)

AsksForNames(a) ==
    /\ IsSequence(a.values)
    /\ \A k \in DOMAIN a.values : a.values[k] # Error =>
         /\ IsSequence(a.values[k])
         /\ \A e \in ToSet(a.values[k]) :
              e.id = "subjectAltName" /\ e.value # Error => e.value \in Seq(GeneralNames(Nat))

ForeignRequestsAre ==
    \A csr \in ForeignCSRs :
        /\ csr.tbs.subject \in Seq([type : STRING, value : ForeignStrings, avas : Nat])
        /\ csr.tbs.spki.bytes \in KeyBytes
        /\ IsSequence(csr.tbs.attributes)
        /\ \A a \in ToSet(csr.tbs.attributes) : a.type = "extensionRequest" => AsksForNames(a)

ASSUME ForeignTypeAssumption == ForeignRequestsAre

-----------------------------------------------------------------------------
(* Properties *)

(* What a CSR asks for, of each kind of name, and of each type of subject. *)
RequestedSANs(csr, tag) ==
    UNION {UNION {{e.value[i].bytes : i \in {j \in DOMAIN e.value : e.value[j].tag = tag}} :
                    e \in {x \in ToSet(a.values[1]) : x.id = "subjectAltName"}} :
             a \in {x \in ToSet(csr.tbs.attributes) : x.type = "extensionRequest"}}

RequestedValues(csr, type) ==
    LET rdns == csr.tbs.subject
    IN  Chosen([i \in DOMAIN rdns |-> parseDirectoryString(rdns[i].value)],
               {i \in DOMAIN rdns : rdns[i].type = type})

(* A certificate is for the key that its CSR was signed with, the whole    *)
(* CSR as it came, and is never one of a CA, whatever extensions were      *)
(* requested.                                                              *)
IssuedToTheKeyHolder ==
    pc = "read certificate" /\ ~damaged =>
        LET cert == ParseCertificate(doc)
            csr  == body.csr
        IN  /\ cert.bc = NoConstraints
            /\ cert.keyUsage = {0}
            /\ cert.key = made.key
            /\ csr # NULL =>
                 /\ cert.key.bytes = csr.tbs.spki.bytes /\ cert.key.alg = csr.tbs.spki.alg.oid
                 /\ csr.sig.by = cert.key /\ csr.sig.over = csr.tbs

(* A certificate says what its CSR asked for and nothing else that the     *)
(* client may choose: subject, alternative names and key are those of the  *)
(* CSR, which the owner of the key signed; it is never one of a CA,        *)
(* whatever extensions were requested; a CSR that asks for names twice is  *)
(* not granted one of the two; and no half character is signed.            *)
IssuedAsRequested ==
    /\ IssuedToTheKeyHolder
    /\ pc = "read certificate" /\ ~damaged =>
        LET cert == ParseCertificate(doc)
            csr  == body.csr
        IN  /\ IsName(cert.subject)
            /\ cert.extKeyUsage = IF body.extKeyUsage = <<>> THEN <<"serverAuth">> ELSE body.extKeyUsage
            /\ csr = NULL =>
                 /\ cert.subject = body.subject
                 /\ cert.sans.dns = body.dns /\ cert.sans.email = body.email
                 /\ Len(cert.sans.ip) = Len(body.ip)
            /\ csr # NULL =>
                 /\ ToSet(cert.sans.dns) = RequestedSANs(csr, 2)
                 /\ ToSet(cert.sans.email) = RequestedSANs(csr, 1)
                 /\ ToSet(cert.sans.ip) = {To4(ip) : ip \in RequestedSANs(csr, 7)}
                 /\ \A t \in ToSet(Types) \ {"CN"} : cert.subject[t] = RequestedValues(csr, t)
                 /\ cert.subject["CN"] # <<>> =>
                      cert.subject["CN"][1] = Last(RequestedValues(csr, "CN"))

(* This library makes a CSR of every subject and of all alternative names, *)
(* except of nothing at all.  A request made with it, within the policy of *)
(* the CA, is never refused: not for an address, a character or a time,    *)
(* and not for a subject that is not UTF-8.                                *)
OwnRequestsAreIssued ==
    /\ pc = "unsent" => made.subject = EmptyName /\ made.sans = EmptySANs
    /\ pc = "refused" /\ own /\ ~damaged =>
         \/ Truncate(made.now) + EndEntityLife > intermediate.notAfter
         \/ body.csr = NULL /\
              \/ ~(ToSet(body.extKeyUsage) \subseteq KnownUsages)
              \/ body.alg \notin endEntityAlgorithms \cup {""}
              \/ "bad" \in ToSet(body.ip)
              \/ body.subject["CN"] = <<>> /\ body.dns = <<>> /\ body.email = <<>> /\ body.ip = <<>>
         \/ body.csr # NULL /\
              \/ ~(ToSet(body.extKeyUsage) \subseteq KnownUsages)
              \/ body.csr.tbs.spki.alg.oid \notin endEntityAlgorithms
              \/ csrForbiddenField(body)
              \/ RequestedValues(body.csr, "CN") = <<>> /\ body.csr.tbs.attributes = <<>>

(* What the engine or a client wrote is read back with the same content,   *)
(* and CreateCA and IssueCertificate never fail to read what they wrote.   *)
OwnDocumentsAreRead ==
    /\ pc = "failed" => doc \in {NULL, Error}
    /\ pc = "certificate" /\ ~damaged =>
         /\ got # NULL
         /\ \A field \in {"serial", "alg", "subject", "notBefore", "notAfter", "bc", "keyUsage",
                          "extKeyUsage"} : got[field] = made.template[field]
         /\ got.key = made.key
         /\ got.sans = [made.template.sans EXCEPT !.ip = [i \in DOMAIN @ |-> To4(@[i])]]
    /\ pc = "list" /\ ~damaged =>
         /\ got # NULL
         /\ got.entries = made.entries
         /\ got.number = made.number
         /\ got.thisUpdate = Truncate(made.now)
         /\ got.nextUpdate = Truncate(made.now) + CRLLife
         /\ \A i \in DOMAIN made.entries : IsRevoked(got, made.entries[i].serial) # NULL

(* The key that a response holds can be read and is the one of the         *)
(* certificate beside it; for a CSR, or with store_key, there is none.     *)
KeyFitsCertificate ==
    pc = "read certificate" =>
        IF body.csr # NULL \/ body.storeKey
          THEN keyPEM = NULL
          ELSE LET priv == DecodePrivateKeyPEM(keyPEM)
               IN  priv # Error /\ Public(Signer(priv)) = made.key

(* One changed field of a CSR, a certificate or a CRL, signed or not, and  *)
(* nobody accepts it.                                                      *)
DamageIsNoticed ==
    /\ pc = "read certificate" => ~made.fromDamaged
    /\ pc \in {"certificate", "list"} /\ damaged => got = NULL

(* What Verify needs of the certificates of one CA: the names and the key  *)
(* identifiers link, the signatures hold, and the path lengths survive,    *)
(* the zero of the intermediate too.                                       *)
ChainLinks ==
    /\ root # NULL =>
         /\ VerifyCertificateFrom(root, root)
         /\ root.rawIssuer = root.rawSubject
         /\ root.bc = [isCA |-> TRUE, maxPathLen |-> 1, maxPathLenSet |-> TRUE]
    /\ intermediate # NULL =>
         /\ VerifyCertificateFrom(intermediate, root)
         /\ intermediate.rawIssuer = root.rawSubject
         /\ intermediate.authorityKeyID = root.subjectKeyID
         /\ intermediate.bc = [isCA |-> TRUE, maxPathLen |-> 0, maxPathLenSet |-> TRUE]
    /\ pc = "certificate" /\ got # NULL =>
         /\ got.rawIssuer = intermediate.rawSubject
         /\ got.authorityKeyID = intermediate.subjectKeyID
    /\ pc = "list" /\ got # NULL => got.authorityKeyID = intermediate.subjectKeyID
=============================================================================
