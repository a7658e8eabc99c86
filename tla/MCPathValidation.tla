-------------------------- MODULE MCPathValidation --------------------------
(* A leaf, two CAs and a root that may have certified each other. *)
EXTENDS PathValidation, TLC

CONSTANTS leafCert, caA, caB, rootCert

(* Nothing is wrong with a certificate, or one thing. *)
Flaws == {"none", "future", "past", "not_ca", "no_sign", "revoked"}

Cert(c, subject, by, flaw, pathLen) ==
    [subject |-> subject[c], issuer |-> subject[by], key |-> c, signedBy |-> by,
     period |-> IF flaw \in {"future", "past"} THEN flaw ELSE "now",
     isCA |-> c # leafCert /\ flaw # "not_ca", certSign |-> flaw # "no_sign",
     maxPathLen |-> pathLen, revoked |-> flaw = "revoked"]

(* caB may bear the name of caA, as after the renewal of a CA key. *)
Names == {[c \in Certs |-> c], [c \in Certs |-> IF c = caB THEN caA ELSE c]}

(* Who signed whom: the leaf by a CA, the CAs by each other or the root,   *)
(* the root by itself or, cross-signed, by a CA.                           *)
Signers == {[c \in Certs |-> CASE c = leafCert -> s[1] [] c = caA -> s[2]
                               [] c = caB -> s[3] [] OTHER -> s[4]] :
              s \in {caA, caB} \X {caB, rootCert} \X {caA, rootCert} \X {rootCert, caA}}

PathLens == {[c \in Certs |-> CASE c = caA -> n[1] [] c = rootCert -> n[2] [] OTHER -> -1] :
               n \in {-1, 0, 1} \X {-1, 1}}

Pools == {[roots |-> rs, inters |-> is] :
            rs \in {<<rootCert>>, <<rootCert, caB>>},
            is \in {<<>>, <<caA, caB>>, <<caB, caA, rootCert>>}}

SomeInputs ==
    {[leaf |-> leafCert, roots |-> pools.roots, inters |-> pools.inters,
      cert |-> [c \in Certs |-> Cert(c, names, by[c], IF c = who THEN flaw ELSE "none", lens[c])]] :
       names \in Names, by \in Signers, lens \in PathLens, pools \in Pools,
       who \in Certs, flaw \in Flaws}
=============================================================================
