------------------------------ MODULE Encoding ------------------------------
(***************************************************************************)
(* The documents of internal/pqx509: distinguished names, subject          *)
(* alternative names, extensions, times, keys, and the certificates,       *)
(* certificate requests and CRLs built of them.                            *)
(*                                                                         *)
(* A DER structure is a record of its fields: encoding/asn1 lays them out  *)
(* in bytes and is not modelled.  What pqx509 itself decides is: how a     *)
(* value is written, which forms are read, what is refused.  Error is the  *)
(* error of a function, and the value of a field that does not parse.      *)
(***************************************************************************)
EXTENDS Integers, SequencesExt

CONSTANTS
    Error,
    Century,  \* the year 2050 in half seconds from 1950
    Forever,  \* the end of the year 9999
    NULL      \* nil

(* One of the results is an error. *)
Fails(results) == \E i \in DOMAIN results : results[i] = Error

(* The values at some positions, one after another. *)
Chosen(values, positions) ==
    FlattenSeq([i \in DOMAIN values |-> IF i \in positions THEN <<values[i]>> ELSE <<>>])

-----------------------------------------------------------------------------
(* Algorithms and keys: algorithm.go, keys.go, family.go, slhdsa.go *)

algorithms ==
    {[name |-> "ML-DSA-44", pk |-> 1312, sig |-> 2420, seed |-> 32],
     [name |-> "ML-DSA-65", pk |-> 1952, sig |-> 3309, seed |-> 32],
     [name |-> "ML-DSA-87", pk |-> 2592, sig |-> 4627, seed |-> 32],
     [name |-> "SLH-DSA-SHA2-128s", pk |-> 32, sig |-> 7856, seed |-> 64],
     [name |-> "SLH-DSA-SHA2-128f", pk |-> 32, sig |-> 17088, seed |-> 64],
     [name |-> "SLH-DSA-SHA2-192s", pk |-> 48, sig |-> 16224, seed |-> 96],
     [name |-> "SLH-DSA-SHA2-192f", pk |-> 48, sig |-> 35664, seed |-> 96],
     [name |-> "SLH-DSA-SHA2-256s", pk |-> 64, sig |-> 29792, seed |-> 128],
     [name |-> "SLH-DSA-SHA2-256f", pk |-> 64, sig |-> 49856, seed |-> 128],
     [name |-> "SLH-DSA-SHAKE-128s", pk |-> 32, sig |-> 7856, seed |-> 64],
     [name |-> "SLH-DSA-SHAKE-128f", pk |-> 32, sig |-> 17088, seed |-> 64],
     [name |-> "SLH-DSA-SHAKE-192s", pk |-> 48, sig |-> 16224, seed |-> 96],
     [name |-> "SLH-DSA-SHAKE-192f", pk |-> 48, sig |-> 35664, seed |-> 96],
     [name |-> "SLH-DSA-SHAKE-256s", pk |-> 64, sig |-> 29792, seed |-> 128],
     [name |-> "SLH-DSA-SHAKE-256f", pk |-> 64, sig |-> 49856, seed |-> 128]}

Info == [name \in {info.name : info \in algorithms} |->
            CHOOSE info \in algorithms : info.name = name]

Valid(alg) == alg \in DOMAIN Info

(* A key pair has an algorithm and an identity. *)
Public(pair) == [alg |-> pair.alg, bytes |-> [id |-> pair.id, size |-> Info[pair.alg].pk]]

(* GenerateKey: the seed of a pair.  Signer: the pair that it expands to. *)
PrivateKey(pair) == [alg |-> pair.alg, seed |-> [id |-> pair.id, size |-> Info[pair.alg].seed]]

Signer(priv) ==
    IF Valid(priv.alg) /\ priv.seed.size = Info[priv.alg].seed
      THEN [alg |-> priv.alg, id |-> priv.seed.id]
      ELSE Error

(* An AlgorithmIdentifier; params: its parameters are present. *)
Identifier(alg) == [oid |-> alg, params |-> FALSE]

MarshalPKIXPublicKey(pub) ==
    IF Valid(pub.alg) /\ pub.bytes.size = Info[pub.alg].pk
      THEN [alg |-> Identifier(pub.alg), bytes |-> pub.bytes, unused |-> FALSE]
      ELSE Error

publicKeyFromSPKI(spki) ==
    IF /\ Valid(spki.alg.oid)
       /\ ~spki.alg.params
       /\ ~spki.unused
       /\ spki.bytes.size = Info[spki.alg.oid].pk
      THEN [alg |-> spki.alg.oid, bytes |-> spki.bytes]
      ELSE Error

(* pkcs8.go, pem.go: the private key of a response. *)
EncodePrivateKeyPEM(priv) ==
    IF Valid(priv.alg) /\ priv.seed.size = Info[priv.alg].seed
      THEN [block |-> "PRIVATE KEY", version |-> 0, alg |-> Identifier(priv.alg), seed |-> priv.seed]
      ELSE Error

(* Variant: every seed has 32 bytes, as the ones of ML-DSA. *)
DecodePrivateKeySeed32(pem) ==
    IF /\ pem.block = "PRIVATE KEY" => pem.version = 0 /\ ~pem.alg.params
       /\ Valid(pem.alg.oid)
       /\ pem.seed.size = 32
      THEN [alg |-> pem.alg.oid, seed |-> pem.seed]
      ELSE Error

(* The older block has the seed alone, and the algorithm in a header. *)
DecodePrivateKeyPEM(pem) ==
    IF /\ pem.block \in {"PRIVATE KEY", "PQTRUST ML-DSA PRIVATE KEY"}
       /\ pem.block = "PRIVATE KEY" => pem.version = 0 /\ ~pem.alg.params
       /\ Valid(pem.alg.oid)
       /\ pem.seed.size = Info[pem.alg.oid].seed
      THEN [alg |-> pem.alg.oid, seed |-> pem.seed]
      ELSE Error

(* A hash of the key, whatever its algorithm. *)
KeyIdentifier(pub) == pub.bytes

(* A signature is by a key over a message; unused: bits of its last byte. *)
Sign(signer, msg) ==
    [by |-> Public(signer), over |-> msg, size |-> Info[signer.alg].sig, unused |-> FALSE]

Verify(pub, msg, sig) ==
    /\ pub.bytes.size = Info[pub.alg].pk
    /\ sig.size = Info[pub.alg].sig
    /\ sig.by = pub
    /\ sig.over = msg

(* What all three parsers ask of the outer algorithm and the signature. *)
SignatureReadable(der) ==
    /\ Valid(der.alg.oid)
    /\ ~der.alg.params
    /\ ~der.sig.unused
    /\ der.sig.size = Info[der.alg.oid].sig

-----------------------------------------------------------------------------
(* Times: time.go.  A time counts half seconds from 1950, and is none      *)
(* before the year 0.                                                      *)

(* encoding/asn1 falls back to a GeneralizedTime where a UTCTime does not  *)
(* reach.                                                                  *)
marshalTime(t) ==
    LET u == t - (t % 2)
    IN  IF u \in 0 .. Century - 1 THEN [tag |-> "utc", digits |-> u % Century]
        ELSE IF u <= Forever THEN [tag |-> "generalized", digits |-> u]
        ELSE Error

(* The two digits of the year of a UTCTime are of 1950 to 2049. *)
parseTime(rv) == IF rv.tag \in {"utc", "generalized"} THEN rv.digits ELSE Error

-----------------------------------------------------------------------------
(* Names: name.go.  A string is a sequence of characters, of which one is  *)
(* outside the PrintableString set, one outside the BMP, and one no UTF-8. *)

isPrintableString(v) == \A i \in DOMAIN v : v[i] \in {"a", "b"}

(* Neither form is refused: the code has looked at the characters of a     *)
(* PrintableString, and encoding/asn1 checks that a string is UTF-8 only   *)
(* when it chooses the type itself.                                        *)
marshalDirectoryString(v) ==
    [tag |-> IF isPrintableString(v) THEN "printable" ELSE "utf8", bytes |-> v]

(* Sixteen bit units; "half" stands for a byte that is left over. *)
decodeBMPString(units) ==
    LET at(i) == IF i \in DOMAIN units THEN units[i] ELSE "none"
    IN  IF \E i \in DOMAIN units :
              \/ units[i] = "half"
              \/ units[i] = "lead" /\ at(i + 1) # "trail"
              \/ units[i] = "trail" /\ at(i - 1) # "lead"
          THEN Error
          ELSE FlattenSeq([i \in DOMAIN units |->
                  CASE units[i] = "lead" -> <<"astral">>
                    [] units[i] = "trail" -> <<>>
                    [] OTHER -> <<units[i]>>])

(* Thirty-two bit units. *)
decodeUniversalString(runes) ==
    IF \E i \in DOMAIN runes : runes[i] \in {"half", "lead", "trail"} THEN Error ELSE runes

parseDirectoryString(rv) ==
    CASE rv.tag \in {"printable", "utf8", "ia5", "t61"} -> rv.bytes
      [] rv.tag = "bmp" -> decodeBMPString(rv.bytes)
      [] rv.tag = "universal" -> decodeUniversalString(rv.bytes)
      [] OTHER -> Error

(* A name maps each type to its values; a CommonName of "" is absent. *)
Types == <<"C", "ST", "L", "O", "OU", "CN">>

EmptyName == [t \in ToSet(Types) |-> <<>>]

(* An RDN has one attribute; avas counts them. *)
ToRDNSequence(n) ==
    LET rdns(t) == [i \in DOMAIN n[t] |->
                      [type |-> t, value |-> marshalDirectoryString(n[t][i]), avas |-> 1]]
    IN  FlattenSeq([k \in DOMAIN Types |-> rdns(Types[k])])

(* A type that is not supported is decoded and left out; a second common   *)
(* name replaces the first.                                                *)
ParseName(rdns) ==
    LET values == [i \in DOMAIN rdns |->
                     IF rdns[i].avas = 1 THEN parseDirectoryString(rdns[i].value) ELSE Error]
        add(n, i) == IF rdns[i].type \notin DOMAIN n THEN n
                     ELSE IF rdns[i].type = "CN"
                       THEN [n EXCEPT !["CN"] = IF values[i] = <<>> THEN <<>> ELSE <<values[i]>>]
                       ELSE [n EXCEPT ![rdns[i].type] = Append(@, values[i])]
    IN  IF Fails(values) THEN Error ELSE FoldLeftDomain(add, EmptyName, rdns)

-----------------------------------------------------------------------------
(* Subject alternative names: extensions.go *)

EmptySANs == [dns |-> <<>>, email |-> <<>>, ip |-> <<>>]

(* An address has 4 or 16 bytes; mapped: 16 bytes that hold an IPv4 one. *)
To4(ip) == IF ip.size = 4 \/ ip.mapped THEN [size |-> 4, mapped |-> FALSE, host |-> ip.host] ELSE ip

marshalSANs(s) ==
    LET tagged(tag, values) == [i \in DOMAIN values |-> [tag |-> tag, bytes |-> values[i]]]
    IN  IF s = EmptySANs
          THEN Error
          ELSE tagged(2, s.dns) \o tagged(1, s.email)
                 \o tagged(7, [i \in DOMAIN s.ip |-> To4(s.ip[i])])

(* Variant: only addresses of four bytes are read. *)
parseSANsIPv4(names) ==
    LET of(tag) == Chosen([i \in DOMAIN names |-> names[i].bytes],
                          {i \in DOMAIN names : names[i].tag = tag})
    IN  IF names = Error THEN Error
        ELSE IF \E i \in DOMAIN names :
                  \/ names[i].tag \notin {1, 2, 7}
                  \/ names[i].tag = 7 /\ names[i].bytes.size # 4
          THEN Error
          ELSE [dns |-> of(2), email |-> of(1), ip |-> of(7)]

parseSANs(names) ==
    LET of(tag) == Chosen([i \in DOMAIN names |-> names[i].bytes],
                          {i \in DOMAIN names : names[i].tag = tag})
    IN  IF names = Error THEN Error
        ELSE IF \E i \in DOMAIN names :
                  \/ names[i].tag \notin {1, 2, 7}
                  \/ names[i].tag = 7 /\ names[i].bytes.size \notin {4, 16}
          THEN Error
          ELSE [dns |-> of(2), email |-> of(1), ip |-> of(7)]

-----------------------------------------------------------------------------
(* The other extensions: extensions.go *)

(* Variant: the highest bit is the number of bits. *)
marshalKeyUsageShort(ku) == IF ku = {} THEN Error ELSE [bits |-> ku, length |-> Max(ku)]

(* A key usage is a set of bits; its DER ends with the highest one. *)
marshalKeyUsage(ku) == IF ku = {} THEN Error ELSE [bits |-> ku, length |-> Max(ku) + 1]

parseKeyUsage(bs) ==
    IF bs = Error THEN Error ELSE {bit \in bs.bits : bit < 16 /\ bit < bs.length}

KnownUsages == {"serverAuth", "clientAuth"}

marshalExtKeyUsage(ekus) == IF ToSet(ekus) \subseteq KnownUsages THEN ekus ELSE Error

parseExtKeyUsage(oids) ==
    IF oids = Error THEN Error ELSE Chosen(oids, {i \in DOMAIN oids : oids[i] \in KnownUsages})

(* Variant: a path length of zero is left out, as the zero of an optional  *)
(* field without a default is.                                             *)
marshalConstraintsNoZero(bc) ==
    [isCA |-> bc.isCA, maxPathLen |-> IF bc.isCA /\ bc.maxPathLen > 0 THEN bc.maxPathLen ELSE -1]

(* The path length is optional, and -1 stands for its absence: a length of *)
(* zero is written.                                                        *)
marshalBasicConstraints(bc) ==
    IF bc.isCA /\ bc.maxPathLenSet
      THEN IF bc.maxPathLen < 0 THEN Error ELSE [isCA |-> TRUE, maxPathLen |-> bc.maxPathLen]
      ELSE [isCA |-> bc.isCA, maxPathLen |-> -1]

parseBasicConstraints(v) ==
    IF v = Error THEN Error
    ELSE IF v.maxPathLen < 0
      THEN [isCA |-> v.isCA, maxPathLen |-> 0, maxPathLenSet |-> FALSE]
    ELSE IF ~v.isCA THEN Error
    ELSE [isCA |-> TRUE, maxPathLen |-> v.maxPathLen, maxPathLenSet |-> TRUE]

Extension(id, critical, value) == [id |-> id, critical |-> critical, value |-> value]

ParsedValue(ext) ==
    CASE ext.id = "basicConstraints" -> parseBasicConstraints(ext.value)
      [] ext.id = "keyUsage"         -> parseKeyUsage(ext.value)
      [] ext.id = "extKeyUsage"      -> parseExtKeyUsage(ext.value)
      [] ext.id = "subjectAltName"   -> parseSANs(ext.value)
      [] OTHER                       -> ext.value

(* What the last extension id of exts says. *)
ValueOf(exts, id, absent) ==
    LET having == {i \in DOMAIN exts : exts[i].id = id}
    IN  IF having = {} THEN absent ELSE ParsedValue(exts[Max(having)])

(* No extension twice, and no critical one that is not known. *)
ExtensionsAllowed(exts, known) ==
    /\ \A i, j \in DOMAIN exts : exts[i].id = exts[j].id => i = j
    /\ \A i \in DOMAIN exts : exts[i].critical => exts[i].id \in known
=============================================================================
