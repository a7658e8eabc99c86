--------------------------- MODULE PathValidation ---------------------------
(***************************************************************************)
(* Certificate.Verify (internal/pqx509/verify.go): the search for chains   *)
(* from a certificate to a trusted root.  The closure walk calls itself;   *)
(* its activations are the elements of stack, each with the chain it was   *)
(* called with and the position of its loops over Roots and Intermediates. *)
(* A step is one iteration of a loop, or a return.                         *)
(***************************************************************************)
EXTENDS Integers, Sequences, SequencesExt

CONSTANTS
    Certs,          \* certificates; different ones differ in Raw
    Inputs,         \* calls of Verify: see input
    MaxChainDepth,  \* maxChainDepth
    NULL

VARIABLES
    input,     \* the call: the certificate leaf, the pools roots and inters
               \* (sequences of Certs), and what is in the certificates
    stack,     \* the activations of walk
    chains,    \* the variable chains
    firstErr,  \* the variable firstErr
    result     \* what Verify returned

vars == <<input, stack, chains, firstErr, result>>

Errors == {"not_yet_valid", "expired", "not_a_ca", "key_usage", "path_len",
           "bad_signature", "revoked", "unknown_authority"}

ASSUME DepthAssumption == MaxChainDepth \in Nat \ {0}

ASSUME NullAssumption == NULL \notin Errors

(* What a call is given: certificates, of which it reads the fields below. *)
ASSUME InputAssumption ==
    \A call \in Inputs :
        /\ call.leaf \in Certs
        /\ call.roots \in Seq(Certs) /\ call.inters \in Seq(Certs)
        /\ \A c \in Certs :
             /\ call.cert[c].period \in {"future", "now", "past"}
             /\ call.cert[c].maxPathLen \in Int

-----------------------------------------------------------------------------
(* What is in a certificate: subject and issuer names, the key it is for   *)
(* and the key it is signed with, validity relative to the present time,   *)
(* basic constraints (maxPathLen -1: not set), whether its key usage       *)
(* allows to sign certificates, and what CheckRevocation says of it.       *)
Attr(c) == input.cert[c]

checkValidity(c) ==
    CASE Attr(c).period = "future" -> "not_yet_valid"
      [] Attr(c).period = "past"   -> "expired"
      [] OTHER                     -> NULL

(* VerifySignatureFrom *)
SignedBy(child, issuer) == Attr(child).signedBy = Attr(issuer).key

(* Variant: the issuer itself counts among the certificates below it. *)
checkLinkCountsItself(child, issuer, depth) ==
    CASE checkValidity(issuer) # NULL -> checkValidity(issuer)
      [] ~Attr(issuer).isCA -> "not_a_ca"
      [] ~Attr(issuer).certSign -> "key_usage"
      [] Attr(issuer).maxPathLen # -1 /\ depth - 1 > Attr(issuer).maxPathLen -> "path_len"
      [] ~SignedBy(child, issuer) -> "bad_signature"
      [] Attr(child).revoked -> "revoked"
      [] OTHER -> NULL

(* The checks on one link, in the order of the code; depth is the length   *)
(* of the candidate chain, issuer included.                                *)
checkLink(child, issuer, depth) ==
    CASE checkValidity(issuer) # NULL -> checkValidity(issuer)
      [] ~Attr(issuer).isCA -> "not_a_ca"
      [] ~Attr(issuer).certSign -> "key_usage"
      [] Attr(issuer).maxPathLen # -1 /\ depth - 2 > Attr(issuer).maxPathLen -> "path_len"
      [] ~SignedBy(child, issuer) -> "bad_signature"
      [] Attr(child).revoked -> "revoked"
      [] OTHER -> NULL

(* note *)
Note(err) == IF firstErr = NULL THEN err ELSE firstErr

Frame(chain) == [chain |-> chain, next |-> 1]

Top == stack[Len(stack)]

(* The rest of the stack, with the top activation one iteration further. *)
Advanced == [stack EXCEPT ![Len(stack)].next = @ + 1]

-----------------------------------------------------------------------------
Init ==
    /\ input \in Inputs
    /\ stack = <<>>
    /\ chains = <<>>
    /\ firstErr = NULL
    /\ result = NULL

(* Verify is called. *)
Call ==
    /\ result = NULL /\ stack = <<>> /\ chains = <<>> /\ firstErr = NULL
    /\ IF checkValidity(input.leaf) # NULL
         THEN /\ result' = [chains |-> <<>>, err |-> checkValidity(input.leaf)]
              /\ UNCHANGED stack
         ELSE stack' = <<Frame(<<input.leaf>>)>> /\ UNCHANGED result
    /\ UNCHANGED <<input, chains, firstErr>>

NamedIssuer(c, issuer) == Attr(c).issuer = Attr(issuer).subject

(* One iteration of the loop over opts.Roots. *)
TryRoot ==
    /\ stack # <<>>
    /\ Top.next <= Len(input.roots)
    /\ LET root == input.roots[Top.next]
           err == checkLink(Last(Top.chain), root, Len(Top.chain) + 1)
       IN IF ~NamedIssuer(Last(Top.chain), root)
            THEN UNCHANGED <<chains, firstErr>>
            ELSE IF err # NULL
              THEN firstErr' = Note(err) /\ UNCHANGED chains
              ELSE chains' = Append(chains, Append(Top.chain, root)) /\ UNCHANGED firstErr
    /\ stack' = Advanced
    /\ UNCHANGED <<input, result>>

contains(chain, c) == Contains(chain, c)

(* The position in the loop over opts.Intermediates. *)
Position == Top.next - Len(input.roots)

AtIntermediates ==
    /\ stack # <<>>
    /\ Position >= 1 /\ Position <= Len(input.inters)
    /\ Len(Top.chain) < MaxChainDepth

(* Variant: a certificate that is skipped is not left behind. *)
TryIntermediateStuck ==
    /\ AtIntermediates
    /\ LET inter == input.inters[Position]
           err == checkLink(Last(Top.chain), inter, Len(Top.chain) + 1)
       IN /\ NamedIssuer(Last(Top.chain), inter)
          /\ ~contains(Top.chain, inter)
          /\ IF err # NULL
               THEN stack' = Advanced /\ firstErr' = Note(err)
               ELSE /\ stack' = Append(Advanced, Frame(Append(Top.chain, inter)))
                    /\ UNCHANGED firstErr
    /\ UNCHANGED <<input, chains, result>>

(* One iteration of the loop over opts.Intermediates. *)
TryIntermediate ==
    /\ AtIntermediates
    /\ LET inter == input.inters[Position]
           err == checkLink(Last(Top.chain), inter, Len(Top.chain) + 1)
       IN IF ~NamedIssuer(Last(Top.chain), inter) \/ contains(Top.chain, inter)
            THEN stack' = Advanced /\ UNCHANGED firstErr
            ELSE IF err # NULL
              THEN stack' = Advanced /\ firstErr' = Note(err)
              ELSE /\ stack' = Append(Advanced, Frame(Append(Top.chain, inter)))
                   /\ UNCHANGED firstErr
    /\ UNCHANGED <<input, chains, result>>

(* Variant: the errors of the links are forgotten. *)
OutcomeUnexplained ==
    [chains |-> chains, err |-> IF chains # <<>> THEN NULL ELSE "unknown_authority"]

(* The answer, when the outermost walk is done. *)
Outcome ==
    [chains |-> chains,
     err |-> IF chains # <<>> THEN NULL
             ELSE IF firstErr # NULL THEN firstErr ELSE "unknown_authority"]

(* walk returns: both loops are done, or the chain is too long to go on. *)
Return ==
    /\ stack # <<>>
    /\ Top.next > Len(input.roots)
    /\ ~AtIntermediates
    /\ stack' = Front(stack)
    /\ result' = IF Len(stack) = 1 THEN Outcome ELSE result
    /\ UNCHANGED <<input, chains, firstErr>>

Next == Call \/ TryRoot \/ TryIntermediate \/ Return

(* Verify is a sequential function: it runs until it returns. *)
Spec == Init /\ [][Next]_vars /\ WF_vars(Next)

-----------------------------------------------------------------------------
(* What is a chain, stated without the search *)

(* The i-th certificate of a chain is rightly issued by the next one. *)
Issued(chain, i) ==
    LET c == Attr(chain[i])
        ca == Attr(chain[i + 1])
    IN /\ c.issuer = ca.subject
       /\ c.signedBy = ca.key
       /\ ~c.revoked
       /\ ca.period = "now" /\ ca.isCA /\ ca.certSign
       /\ ca.maxPathLen = -1 \/ i - 1 <= ca.maxPathLen

(* Distinct intermediates behind the leaf, each the issuer of the last. *)
Partial ==
    {chain \in {<<input.leaf>> \o s : s \in SeqOf(ToSet(input.inters), MaxChainDepth - 1)} :
       /\ \A i, j \in 1 .. Len(chain) : chain[i] = chain[j] => i = j
       /\ \A i \in 1 .. Len(chain) - 1 : Issued(chain, i)}

ValidChains ==
    IF Attr(input.leaf).period # "now" THEN {}
    ELSE {chain \in {Append(p, root) : p \in Partial, root \in ToSet(input.roots)} :
            Issued(chain, Len(chain) - 1)}

(* Verify "returns every chain from c to a configured root" and no other,  *)
(* whatever is in the pools: cross-signed CAs, CAs with the same name,     *)
(* roots among the intermediates, certificates that do not qualify.        *)
ReturnsTheValidChains ==
    result # NULL => ToSet(result.chains) = ValidChains

(* A partial chain has a candidate issuer that does not qualify. *)
SomeLinkFails ==
    \E p \in Partial :
        \E ca \in ToSet(input.roots) \cup
                  (IF Len(p) < MaxChainDepth THEN ToSet(input.inters) \ ToSet(p) ELSE {}) :
            NamedIssuer(Last(p), ca) /\ ~Issued(Append(p, ca), Len(p))

(* Verify fails exactly if there is no chain, and its error tells why: the *)
(* authority is unknown only if no candidate issuer was found wanting.     *)
ErrorTellsWhy ==
    result # NULL =>
        /\ result.err # NULL <=> ValidChains = {}
        /\ result.err = "unknown_authority" =>
             Attr(input.leaf).period = "now" /\ ~SomeLinkFails

(* Verify returns, also when CAs have certified each other in a circle. *)
Terminates == <>(result # NULL)
=============================================================================
