----------------------------- MODULE MCExchange -----------------------------
(* Small sets of names, keys and requests for Exchange, for TLC. *)
EXTENDS Exchange

Named(cn, o) == [EmptyName EXCEPT !["CN"] = cn, !["O"] = o]

(* CAs: two that differ in one value, and one without a common name. *)
AllCASubjects == {Named(<<<<"a">>>>, <<>>), Named(<<<<"n~">>>>, <<<<"a">>>>), Named(<<>>, <<<<"a">>>>)}

OneCASubject == {Named(<<<<"a">>>>, <<>>)}

(* Both levels of both families, the two SLH-DSA ones with their twins of  *)
(* the same sizes.                                                         *)
AllCAAlgorithms == {"ML-DSA-87", "SLH-DSA-SHA2-256s", "ML-DSA-65", "SLH-DSA-SHA2-192s"}

OneCAAlgorithm == {"ML-DSA-87", "SLH-DSA-SHAKE-192s"}

(* Names with no value, an empty one, several, and each kind of character. *)
AllSubjects ==
    {Named(cn, o) :
        cn \in {<<>>, <<<<"n~", "a">>>>},
        o \in {<<>>, <<<<>>>>, <<<<"a">>, <<"b">>>>, <<<<"astral">>>>, <<<<"byte">>>>}}

(* A common name, none, and one that is not UTF-8. *)
FewSubjects == {Named(<<<<"a">>>>, <<>>), Named(<<>>, <<>>), Named(<<<<"byte", "a">>>>, <<>>)}

V4 == [size |-> 4, mapped |-> FALSE, host |-> "10.0.0.1"]
Mapped == [size |-> 16, mapped |-> TRUE, host |-> "10.0.0.1"]
V6 == [size |-> 16, mapped |-> FALSE, host |-> "2001:db8::1"]

AllSANs ==
    {EmptySANs, [EmptySANs EXCEPT !.dns = <<"host", "other">>], [EmptySANs EXCEPT !.ip = <<V4, V6>>],
     [dns |-> <<"host">>, email |-> <<"mail">>, ip |-> <<Mapped>>]}

TwoSANs == {EmptySANs, [dns |-> <<"host">>, email |-> <<>>, ip |-> <<Mapped>>]}

Pair(alg) == [alg |-> alg, id |-> "client key"]

AllPairs == {Pair("ML-DSA-44"), Pair("SLH-DSA-SHA2-128s"), Pair("ML-DSA-87")}
OnePair == {Pair("SLH-DSA-SHA2-128s")}

AllBodyAlgorithms == {"", "SLH-DSA-SHAKE-128f", "ML-DSA-87", "other"}
OneBodyAlgorithm == {""}

AllUsages == {<<>>, <<"clientAuth", "serverAuth">>, <<"codeSigning">>}
OneUsage == {<<>>}

AllAddresses == {<<>>, <<"10.0.0.1", "2001:db8::1">>, <<"::ffff:10.0.0.1">>, <<"bad">>}
NoAddress == {<<>>}

-----------------------------------------------------------------------------
(* Requests of other programs: any subject and any attributes, signed with *)
(* the key they carry, with another one, or over something else.           *)

RDN(type, tag, bytes) == [type |-> type, value |-> [tag |-> tag, bytes |-> bytes], avas |-> 1]

ForeignSubjects ==
    {<<>>,
     <<RDN("CN", "bmp", <<"lead", "trail", "a">>)>>,
     <<RDN("CN", "bmp", <<"lead", "a">>)>>,
     <<RDN("CN", "bmp", <<"trail">>)>>,
     <<RDN("CN", "bmp", <<"a", "half">>)>>,
     <<RDN("CN", "universal", <<"astral">>)>>,
     <<RDN("CN", "universal", <<"lead">>)>>,
     <<RDN("CN", "t61", <<"byte">>)>>,
     <<RDN("CN", "ia5", <<"a">>), RDN("O", "utf8", <<"n~">>), RDN("CN", "utf8", <<"b">>)>>,
     <<RDN("CN", "printable", <<"a">>), RDN("mail", "ia5", <<"a">>)>>,
     <<RDN("CN", "printable", <<"a">>), RDN("mail", "integer", <<"a">>)>>,
     <<[RDN("CN", "printable", <<"a">>) EXCEPT !.avas = 2]>>}

DNS(names) == Extension("subjectAltName", FALSE, [i \in DOMAIN names |-> [tag |-> 2, bytes |-> names[i]]])
IP(ip) == Extension("subjectAltName", TRUE, <<[tag |-> 7, bytes |-> ip]>>)
URI == Extension("subjectAltName", FALSE, <<[tag |-> 6, bytes |-> "uri"]>>)
CA == Extension("basicConstraints", TRUE, [isCA |-> TRUE, maxPathLen |-> 0])

Requesting(exts) == [type |-> "extensionRequest", values |-> <<exts>>]

ForeignAttributes ==
    {<<>>,
     <<Requesting(<<>>)>>,
     <<Requesting(<<CA, DNS(<<"host">>), Extension("extKeyUsage", FALSE, <<"codeSigning">>)>>)>>,
     <<Requesting(<<DNS(<<"host">>), DNS(<<"other">>)>>)>>,
     <<Requesting(<<DNS(<<"host">>)>>), Requesting(<<DNS(<<"other">>)>>)>>,
     <<[type |-> "challengePassword", values |-> <<<<>>>>], Requesting(<<IP(Mapped)>>)>>,
     <<Requesting(<<IP([size |-> 5, mapped |-> FALSE, host |-> "bad"])>>)>>,
     <<Requesting(<<URI>>)>>,
     <<[type |-> "extensionRequest", values |-> <<>>]>>,
     <<[type |-> "extensionRequest", values |-> <<Error>>]>>,
     <<Requesting(<<Extension("subjectAltName", FALSE, Error)>>)>>,
     <<[type |-> "extensionRequest", values |-> <<<<DNS(<<"host">>)>>, <<>>>>]>>}

Foreign(subject, attributes, alg) ==
    LET info == [version |-> 0, subject |-> subject, attributes |-> attributes,
                 spki |-> MarshalPKIXPublicKey(Public(Pair("ML-DSA-44")))]
    IN  [tbs |-> info, alg |-> Identifier(alg), sig |-> Sign(Pair(alg), info), rest |-> FALSE]

AllForeignCSRs ==
    {Foreign(s, a, "ML-DSA-44") : s \in ForeignSubjects, a \in ForeignAttributes}
      \cup {Foreign(s, <<>>, "ML-DSA-65") : s \in ForeignSubjects}
      \cup {[Foreign(s, <<>>, "ML-DSA-44") EXCEPT !.sig.over = Error] : s \in ForeignSubjects}

NoForeignCSR == {}

-----------------------------------------------------------------------------
Entry(serial, time, reason) == [serial |-> serial, time |-> time, reason |-> reason]

(* Times before 2050 and after it, in whole seconds as Revoke writes them; *)
(* a reason of zero is not written.                                        *)
AllEntries ==
    {<<>>, <<Entry(2, 600, 0)>>, <<Entry(2, 998, 1), Entry(3, 1000, 10)>>}

NoEntries == {<<>>}
=============================================================================
