----------------------------- MODULE Documents ------------------------------
(***************************************************************************)
(* Certificates (certificate.go, verify.go), certificate requests (csr.go) *)
(* and revocation lists (crl.go) of internal/pqx509: how each is created,  *)
(* what its parser refuses and returns, and how its signature is checked.  *)
(*                                                                         *)
(* A document has a part that is signed, and around it the algorithm and   *)
(* the signature; rest: bytes follow it.                                   *)
(***************************************************************************)
EXTENDS Encoding

-----------------------------------------------------------------------------
(* Certificates.  A template has the fields that the engine sets. *)

buildExtensions(t, pub, signer, subjectEmpty) ==
    LET bc   == Extension("basicConstraints", TRUE, marshalBasicConstraints(t.bc))
        ku   == IF t.keyUsage = {} THEN <<>>
                ELSE <<Extension("keyUsage", TRUE, marshalKeyUsage(t.keyUsage))>>
        eku  == IF t.extKeyUsage = <<>> THEN <<>>
                ELSE <<Extension("extKeyUsage", FALSE, marshalExtKeyUsage(t.extKeyUsage))>>
        skid == Extension("subjectKeyID", FALSE, KeyIdentifier(pub))
        akid == Extension("authorityKeyID", FALSE, KeyIdentifier(Public(signer)))
        san  == IF t.sans = EmptySANs THEN <<>>
                ELSE <<Extension("subjectAltName", subjectEmpty, marshalSANs(t.sans))>>
        exts == <<bc>> \o ku \o eku \o <<skid, akid>> \o san
    IN  IF Fails([i \in DOMAIN exts |-> exts[i].value]) THEN Error ELSE exts

(* parent = NULL: the certificate is self-signed. *)
CreateCertificate(t, parent, pub, signer) ==
    LET subject   == ToRDNSequence(t.subject)
        spki      == MarshalPKIXPublicKey(pub)
        notBefore == marshalTime(t.notBefore)
        notAfter  == marshalTime(t.notAfter)
        exts      == buildExtensions(t, pub, signer, subject = <<>>)
        tbs == [version |-> 2, serial |-> t.serial, alg |-> Identifier(t.alg),
                issuer |-> IF parent = NULL THEN subject ELSE parent.rawSubject,
                notBefore |-> notBefore, notAfter |-> notAfter,
                subject |-> subject, spki |-> spki, exts |-> exts]
    IN  IF \/ t.serial <= 0
           \/ t.notAfter <= t.notBefore
           \/ t.alg # signer.alg
           \/ subject = <<>> /\ t.sans = EmptySANs
           \/ Fails(<<subject, spki, notBefore, notAfter, exts>>)
          THEN Error
          ELSE [tbs |-> tbs, alg |-> Identifier(t.alg), sig |-> Sign(signer, tbs), rest |-> FALSE]

CertificateExtensions ==
    {"basicConstraints", "keyUsage", "extKeyUsage", "subjectKeyID", "authorityKeyID", "subjectAltName"}

NoConstraints == [isCA |-> FALSE, maxPathLen |-> 0, maxPathLenSet |-> FALSE]

ParseCertificate(der) ==
    LET tbs  == der.tbs
        cert == [version |-> tbs.version + 1, serial |-> tbs.serial, alg |-> der.alg.oid,
                 sig |-> der.sig, rawTBS |-> tbs,
                 issuer |-> ParseName(tbs.issuer), rawIssuer |-> tbs.issuer,
                 subject |-> ParseName(tbs.subject), rawSubject |-> tbs.subject,
                 notBefore |-> parseTime(tbs.notBefore), notAfter |-> parseTime(tbs.notAfter),
                 key |-> publicKeyFromSPKI(tbs.spki),
                 bc |-> ValueOf(tbs.exts, "basicConstraints", NoConstraints),
                 keyUsage |-> ValueOf(tbs.exts, "keyUsage", {}),
                 extKeyUsage |-> ValueOf(tbs.exts, "extKeyUsage", <<>>),
                 subjectKeyID |-> ValueOf(tbs.exts, "subjectKeyID", <<>>),
                 authorityKeyID |-> ValueOf(tbs.exts, "authorityKeyID", <<>>),
                 sans |-> ValueOf(tbs.exts, "subjectAltName", EmptySANs)]
    IN  IF \/ der.rest
           \/ ~SignatureReadable(der)
           \/ tbs.alg.oid # der.alg.oid \/ tbs.alg.params
           \/ tbs.serial <= 0
           \/ cert.version # 3
           \/ ~ExtensionsAllowed(tbs.exts, CertificateExtensions)
           \/ \E field \in {"issuer", "subject", "notBefore", "notAfter", "key", "bc", "keyUsage",
                             "extKeyUsage", "subjectKeyID", "authorityKeyID", "sans"} :
                cert[field] = Error
          THEN Error
          ELSE cert

(* Certificate.VerifySignatureFrom *)
VerifyCertificateFrom(cert, parent) ==
    cert.alg = parent.key.alg /\ Verify(parent.key, cert.rawTBS, cert.sig)

-----------------------------------------------------------------------------
(* Certificate requests *)

(* At most one attribute, which asks for the alternative names. *)
marshalCSRAttributes(sans) ==
    IF sans = EmptySANs
      THEN <<>>
      ELSE <<[type |-> "extensionRequest",
              values |-> << <<Extension("subjectAltName", FALSE, marshalSANs(sans))>> >>]>>

CreateCertificateRequest(subject, pub, signer, sans) ==
    LET name == ToRDNSequence(subject)
        spki == MarshalPKIXPublicKey(pub)
        info == [version |-> 0, subject |-> name, spki |-> spki,
                 attributes |-> marshalCSRAttributes(sans)]
    IN  IF \/ pub # Public(signer)
           \/ name = <<>> /\ sans = EmptySANs
           \/ Fails(<<name, spki>>)
          THEN Error
          ELSE [tbs |-> info, alg |-> Identifier(pub.alg), sig |-> Sign(signer, info), rest |-> FALSE]

(* Variant: the last of several attributes counts. *)
sansFromLastAttribute(attributes) ==
    LET asking == {i \in DOMAIN attributes : attributes[i].type = "extensionRequest"}
        values == attributes[Max(asking)].values
        exts   == values[1]
    IN  IF asking = {} THEN EmptySANs
        ELSE IF Len(values) # 1 THEN Error
        ELSE IF exts = Error THEN Error
        ELSE IF Cardinality({i \in DOMAIN exts : exts[i].id = "subjectAltName"}) > 1
          THEN Error
          ELSE ValueOf(exts, "subjectAltName", EmptySANs)

(* One attribute with one value may ask for extensions, and one extension  *)
(* of it for alternative names; every other request is ignored.            *)
sansFromCSRAttributes(attributes) ==
    LET asking == {i \in DOMAIN attributes : attributes[i].type = "extensionRequest"}
        values == attributes[Max(asking)].values
        exts   == values[1]
    IN  IF asking = {} THEN EmptySANs
        ELSE IF \/ Cardinality(asking) > 1
                \/ Len(values) # 1
                \/ exts = Error
          THEN Error
        ELSE IF Cardinality({i \in DOMAIN exts : exts[i].id = "subjectAltName"}) > 1
          THEN Error
          ELSE ValueOf(exts, "subjectAltName", EmptySANs)

ParseCertificateRequest(der) ==
    LET info == der.tbs
        csr  == [subject |-> ParseName(info.subject), key |-> publicKeyFromSPKI(info.spki),
                 alg |-> der.alg.oid, sig |-> der.sig, rawTBS |-> info,
                 sans |-> sansFromCSRAttributes(info.attributes)]
    IN  IF \/ der.rest
           \/ info.version # 0
           \/ csr.key = Error
           \/ ~SignatureReadable(der)
           \/ der.alg.oid # csr.key.alg
           \/ Fails(<<csr.subject, csr.sans>>)
          THEN Error
          ELSE csr

CheckSignature(csr) == Verify(csr.key, csr.rawTBS, csr.sig)

-----------------------------------------------------------------------------
(* Revocation lists *)

cRLSign == 6

(* An entry has a serial number, a time and a reason; 0 is not written. *)
RevokedCertificate(entry) ==
    [serial |-> entry.serial, date |-> marshalTime(entry.time),
     exts |-> IF entry.reason = 0 THEN <<>>
              ELSE <<Extension("cRLReason", FALSE, entry.reason)>>]

CreateRevocationList(issuer, signer, number, entries, thisUpdate, nextUpdate) ==
    LET revoked == [i \in DOMAIN entries |-> RevokedCertificate(entries[i])]
        tbs == [version |-> 1, alg |-> Identifier(signer.alg), issuer |-> issuer.rawSubject,
                thisUpdate |-> marshalTime(thisUpdate), nextUpdate |-> marshalTime(nextUpdate),
                revoked |-> revoked,
                exts |-> <<Extension("authorityKeyID", FALSE, KeyIdentifier(issuer.key)),
                           Extension("cRLNumber", FALSE, number)>>]
    IN  IF \/ number < 0
           \/ nextUpdate <= thisUpdate
           \/ issuer.keyUsage # {} /\ cRLSign \notin issuer.keyUsage
           \/ signer.alg # issuer.key.alg
           \/ Fails(<<tbs.thisUpdate, tbs.nextUpdate>>)
           \/ \E i \in DOMAIN entries : entries[i].serial <= 0 \/ revoked[i].date = Error
          THEN Error
          ELSE [tbs |-> tbs, alg |-> Identifier(signer.alg), sig |-> Sign(signer, tbs), rest |-> FALSE]

(* A list without a next update has tag "absent" there, and the next field *)
(* is taken for it.                                                        *)
ParseRevocationList(der) ==
    LET tbs     == der.tbs
        next    == IF tbs.nextUpdate.tag # "absent" THEN parseTime(tbs.nextUpdate)
                   ELSE IF tbs.revoked = <<>> /\ tbs.exts = <<>> THEN NULL
                   ELSE Error
        entries == [i \in DOMAIN tbs.revoked |->
                      [serial |-> tbs.revoked[i].serial, time |-> parseTime(tbs.revoked[i].date),
                       reason |-> ValueOf(tbs.revoked[i].exts, "cRLReason", 0)]]
        list == [issuer |-> ParseName(tbs.issuer), rawIssuer |-> tbs.issuer, alg |-> der.alg.oid,
                 sig |-> der.sig, rawTBS |-> tbs,
                 thisUpdate |-> parseTime(tbs.thisUpdate), nextUpdate |-> next,
                 number |-> ValueOf(tbs.exts, "cRLNumber", NULL),
                 authorityKeyID |-> ValueOf(tbs.exts, "authorityKeyID", NULL),
                 entries |-> entries]
    IN  IF \/ der.rest
           \/ ~SignatureReadable(der)
           \/ tbs.alg.params
           \/ tbs.version # 1 /\ tbs.exts # <<>>
           \/ ~ExtensionsAllowed(tbs.exts, {"authorityKeyID", "cRLNumber"})
           \/ \E field \in {"issuer", "thisUpdate", "nextUpdate", "number", "authorityKeyID"} :
                list[field] = Error
           \/ \E i \in DOMAIN entries : Fails(<<entries[i].time, entries[i].reason>>)
           \/ \E i \in DOMAIN entries : \E j \in DOMAIN tbs.revoked[i].exts :
                tbs.revoked[i].exts[j].critical /\ tbs.revoked[i].exts[j].id # "cRLReason"
          THEN Error
          ELSE list

(* Variant: the algorithm of the list is not compared. *)
VerifyListAnyAlgorithm(list, issuer) ==
    list.rawIssuer = issuer.rawSubject /\ Verify(issuer.key, list.rawTBS, list.sig)

(* RevocationList.VerifySignatureFrom *)
VerifyListFrom(list, issuer) ==
    /\ list.rawIssuer = issuer.rawSubject
    /\ list.alg = issuer.key.alg
    /\ Verify(issuer.key, list.rawTBS, list.sig)

(* The entry of a serial number, or NULL. *)
IsRevoked(list, serial) ==
    LET having == {i \in DOMAIN list.entries : list.entries[i].serial = serial}
    IN  IF having = {} THEN NULL ELSE list.entries[Min(having)]
=============================================================================
