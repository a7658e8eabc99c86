----------------------------- MODULE MCIssuance -----------------------------
(* Small instances of Issuance for TLC. *)
EXTENDS Issuance, TLC

CONSTANTS p1, p2, csr1

Body(parent, days, pass, parentPass) ==
    [op |-> "create", wellFormed |-> TRUE, allowed |-> TRUE, days |-> days,
     parent |-> parent, pass |-> pass, parentPass |-> parentPass]

LeafBody(ca, pass, storeKey, csr) ==
    [op |-> "issue", wellFormed |-> TRUE, allowed |-> TRUE, days |-> 0,
     ca |-> ca, pass |-> pass, storeKey |-> storeKey, csr |-> csr]

(* Roots, intermediates with the right and the wrong passphrase. *)
SomeCreateRequests ==
    {Body(NULL, 0, p1, p1)} \cup {Body(ca, 0, p1, pass) : ca \in CAIds, pass \in {p1, p2}}

(* Certificates with the key returned, stored, or from a CSR. *)
SomeIssueRequests ==
    {LeafBody(ca, p1, storeKey, NULL) : ca \in CAIds, storeKey \in BOOLEAN}
      \cup {LeafBody(ca, p1, FALSE, csr1) : ca \in CAIds}

(* Requests for validities around the limits, and bodies that a check      *)
(* rejects.                                                                *)
AllDays == {-1, 0, 2, 3}

CheckedCreateRequests ==
    {Body(parent, days, p1, p1) : parent \in CAIds \cup {NULL}, days \in AllDays}
      \cup {[Body(parent, 0, p1, p1) EXCEPT !.wellFormed = w, !.allowed = ~w] :
              parent \in CAIds \cup {NULL}, w \in BOOLEAN}

CheckedIssueRequests ==
    {[LeafBody(ca, p1, FALSE, NULL) EXCEPT !.days = days] : ca \in CAIds, days \in AllDays}
      \cup {[LeafBody(ca, p1, FALSE, NULL) EXCEPT !.wellFormed = w, !.allowed = ~w] :
              ca \in CAIds, w \in BOOLEAN}
      \cup {LeafBody(ca, p1, TRUE, csr1) : ca \in CAIds}

(* Requests, and random identifiers, are interchangeable. *)
Symmetry == Permutations(Requests) \cup Permutations(KeyIds) \cup Permutations(CAIds)
              \cup Permutations(Serials)
=============================================================================
