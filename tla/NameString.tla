----------------------------- MODULE NameString -----------------------------
(***************************************************************************)
(* The text form of a distinguished name (internal/pqx509/name.go):        *)
(* Name.String with its escapes, which fills subject_dn and the answers of *)
(* the API, and ParseNameString, which reads it back.                      *)
(*                                                                         *)
(* A text is a sequence of characters.  The characters are the ones that   *)
(* the two functions treat differently: the separators, the escapes, two   *)
(* cases of a letter, hexadecimal digits and the bytes that they denote.   *)
(***************************************************************************)
EXTENDS Integers, SequencesExt

CONSTANTS
    Characters,  \* what texts and values consist of
    Texts,   \* the texts given to ParseNameString
    Names,   \* the names given to String
    Error    \* the error of ParseNameString

VARIABLES
    pc,      \* the function that runs next
    given,   \* the text that it began with, if it began with one
    origin,  \* whether the name was read or made by other means
    name,
    text,    \* the text of that name
    back     \* what ParseNameString makes of that text

vars == <<pc, given, origin, name, text, back>>

-----------------------------------------------------------------------------
(* Names.  A name maps each type to its values; CommonName is a single     *)
(* string in the code, and the empty string stands for its absence.        *)

(* Most specific first, the order of String. *)
Types == <<"CN", "OU", "O", "L", "ST", "C">>

(* The characters of the types. *)
Key == [CN |-> <<"C", "N">>, OU |-> <<"O", "U">>, O |-> <<"O">>,
        L |-> <<"L">>, ST |-> <<"S", "T">>, C |-> <<"C">>]

EmptyName == [t \in DOMAIN Key |-> <<>>]

(* Every value is a sequence of characters. *)
Name ==
    {n \in [DOMAIN Key -> Seq(Seq(Characters))] :
        Len(n["CN"]) <= 1 /\ \A j \in DOMAIN n["CN"] : n["CN"][j] # <<>>}

(* What ParseNameString reads of one component. *)
Pair == [type : DOMAIN Key, value : Seq(Characters)]

-----------------------------------------------------------------------------
(* Texts *)

(* strings.ToUpper *)
ToUpper(s) ==
    LET upper == [c |-> "C", n |-> "N", o |-> "O", u |-> "U", l |-> "L", s |-> "S", t |-> "T"]
    IN  [i \in DOMAIN s |-> IF s[i] \in DOMAIN upper THEN upper[s[i]] ELSE s[i]]

(* strings.TrimSpace *)
TrimSpace(s) ==
    LET solid == {i \in DOMAIN s : s[i] # " "}
    IN  IF solid = {} THEN <<>> ELSE SubSeq(s, Min(solid), Max(solid))

(* Hexadecimal digits, and the bytes that pairs of them denote. *)
HexVal == [c \in {"0", "2", "c", "C"} |->
              CASE c = "0" -> 0 [] c = "2" -> 2 [] OTHER -> 12]

Bytes == [b \in {16 * HexVal[c] + HexVal[d] : c, d \in DOMAIN HexVal} |->
              CASE b = 0 -> "byte 00" [] b = 2 -> "byte 02" [] b = 12 -> "byte 0c"
                [] b = 32 -> " " [] b = 34 -> "\"" [] b = 44 -> ","
                [] b = 192 -> "byte c0" [] b = 194 -> "byte c2" [] b = 204 -> "byte cc"]

IsHex(c) == c \in DOMAIN HexVal

(* The backslashes that stand directly before a position. *)
Backslashes(s, i) == i - 1 - Max({0} \cup {j \in 1 .. i - 1 : s[j] # "\\"})

(* The separators that no odd number of backslashes precedes. *)
Separators(s, sep) == {i \in DOMAIN s : s[i] = sep /\ Backslashes(s, i) % 2 = 0}

(* A part ends before each of the positions, and the next begins after it. *)
CutAt(s, positions) ==
    LET cut(done, i) ==
            IF i \in positions
              THEN [parts |-> Append(done.parts, SubSeq(s, done.start, i - 1)), start |-> i + 1]
              ELSE done
        done == FoldLeftDomain(cut, [parts |-> <<>>, start |-> 1], s)
    IN  Append(done.parts, SubSeq(s, done.start, Len(s)))

(* Variant: one backslash before the separator is enough to escape it. *)
SplitAtUnquoted(s, sep) ==
    CutAt(s, {i \in DOMAIN s : s[i] = sep /\ (i = 1 \/ s[i - 1] # "\\")})

splitUnescaped(s, sep) == CutAt(s, Separators(s, sep))

-----------------------------------------------------------------------------
(* Escapes *)

Reserved == {",", "+", "\"", "\\", "<", ">", ";"}

escapeAttributeValue(v) ==
    FlattenSeq([i \in DOMAIN v |->
        IF \/ v[i] \in Reserved
           \/ v[i] \in {"#", " "} /\ i = 1
           \/ v[i] = " " /\ i = Len(v)
          THEN <<"\\", v[i]>> ELSE <<v[i]>>])

(* The value, or Error for an escape that is cut off or unknown. *)
unescapeAttributeValue(v) ==
    LET before(c, s) == IF s = Error THEN Error ELSE <<c>> \o s
        from[i \in 1 .. Len(v) + 1] ==
            IF i > Len(v) THEN <<>>
            ELSE IF v[i] # "\\" THEN before(v[i], from[i + 1])
            ELSE IF i = Len(v) THEN Error
            ELSE IF v[i + 1] \in Reserved \cup {" ", "#", "="} THEN before(v[i + 1], from[i + 2])
            ELSE IF i + 1 < Len(v) /\ IsHex(v[i + 1]) /\ IsHex(v[i + 2])
              THEN before(Bytes[16 * HexVal[v[i + 1]] + HexVal[v[i + 2]]], from[i + 3])
            ELSE Error
    IN  from[1]

-----------------------------------------------------------------------------
(* The constants: the two functions write and denote characters, and an    *)
(* error is no result.                                                     *)

ASSUME CharactersAssumption ==
    /\ Reserved \cup {" ", "#", "="} \subseteq Characters
    /\ \A t \in DOMAIN Key : Key[t] \in Seq(Characters)
    /\ \A c, d \in DOMAIN HexVal : Bytes[16 * HexVal[c] + HexVal[d]] \in Characters

ASSUME TextsAssumption == Texts \subseteq Seq(Characters)

ASSUME NamesAssumption == Names \subseteq Name

ASSUME ErrorAssumption == Error \notin Seq(Characters) \cup Pair \cup Name

-----------------------------------------------------------------------------
(* String and ParseNameString *)

Join(parts, sep) ==
    FlattenSeq([k \in DOMAIN parts |-> IF k = 1 THEN parts[k] ELSE <<sep>> \o parts[k]])

(* Variant: the parts are joined with no separator. *)
StringUnseparated(n) ==
    FlattenSeq(FlattenSeq([k \in DOMAIN Types |->
        LET t == Types[k]
        IN  [j \in DOMAIN n[t] |-> Key[t] \o <<"=">> \o escapeAttributeValue(n[t][j])]]))

String(n) ==
    Join(FlattenSeq([k \in DOMAIN Types |->
            LET t == Types[k]
            IN  [j \in DOMAIN n[t] |-> Key[t] \o <<"=">> \o escapeAttributeValue(n[t][j])]]),
         ",")

(* One component: its type and its value, or Error. *)
Component(part) ==
    LET equals == {i \in DOMAIN part : part[i] = "="}
        cut    == Min(equals)
        key    == TrimSpace(SubSeq(part, 1, cut - 1))
        raw    == SubSeq(part, cut + 1, Len(part))
        value  == unescapeAttributeValue(raw)
        types  == {t \in DOMAIN Key : Key[t] = ToUpper(key)}
    IN  IF \/ equals = {}
           \/ key = <<>>
           \/ Len(splitUnescaped(raw, "+")) > 1
           \/ raw # <<>> /\ raw[1] = "#"
           \/ value \in {Error, <<>>}
           \/ types = {}
          THEN Error
          ELSE [type |-> CHOOSE t \in types : TRUE, value |-> value]

(* Variant: every type has one value. *)
AddReplaces(n, component) == [n EXCEPT ![component.type] = <<component.value>>]

(* A component joins the values of its type; a common name replaces the    *)
(* one before it.                                                          *)
Add(n, component) ==
    LET t == component.type
    IN  [n EXCEPT ![t] = IF t = "CN" THEN <<component.value>> ELSE Append(@, component.value)]

ParseNameString(s) ==
    LET parts == splitUnescaped(s, ",")
        components == [k \in DOMAIN parts |-> Component(parts[k])]
    IN  IF TrimSpace(s) = <<>> \/ \E k \in DOMAIN parts : components[k] = Error
          THEN Error
          ELSE FoldLeft(Add, EmptyName, components)

-----------------------------------------------------------------------------
Init ==
    /\ \/ given \in Texts /\ origin = "read" /\ pc = "read" /\ name = EmptyName
       \/ given = <<>> /\ origin = "made" /\ pc = "write" /\ name \in Names
    /\ text = <<>>
    /\ back = EmptyName

(* A text that is read first, and written if it was accepted. *)
Read ==
    /\ pc = "read"
    /\ name' = ParseNameString(given)
    /\ pc' = IF name' = Error THEN "refused" ELSE "write"
    /\ UNCHANGED <<given, origin, text, back>>

Write ==
    /\ pc = "write"
    /\ text' = String(name)
    /\ pc' = "reread"
    /\ UNCHANGED <<given, origin, name, back>>

Reread ==
    /\ pc = "reread"
    /\ back' = ParseNameString(text)
    /\ pc' = "done"
    /\ UNCHANGED <<given, origin, name, text>>

Next == Read \/ Write \/ Reread

Spec == Init /\ [][Next]_vars

-----------------------------------------------------------------------------
(* Properties *)

(* A name that has a value, and only values that are not empty. *)
Complete(n) == n # EmptyName /\ \A t \in DOMAIN n : \A j \in DOMAIN n[t] : n[t][j] # <<>>

(* What String writes of a complete name, ParseNameString reads back,      *)
(* whatever separators and escapes its values hold, wherever they stand.   *)
CompleteNamesSurvive == pc = "done" /\ Complete(name) => back = name

Written == {[name |-> n, text |-> String(n)] : n \in Names}

(* Two names never have the same text, not even those with empty values:   *)
(* subject_dn tells them apart.                                            *)
NamesAreToldApart ==
    pc = "reread" /\ origin = "made" => \A w \in Written : w.text = text => w.name = name

(* "a typo in an API request never silently drops a field"                 *)
(* (ParseNameString): every component of an accepted text is in the name,  *)
(* but for a common name that a later one replaces.                        *)
NothingElseIsDropped ==
    origin = "read" /\ pc = "write" =>
        LET parts == splitUnescaped(given, ",")
        IN  \A k \in DOMAIN parts :
                LET c == Component(parts[k])
                IN  \/ Contains(name[c.type], c.value)
                    \/ /\ c.type = "CN"
                       /\ \E l \in k + 1 .. Len(parts) : Component(parts[l]).type = "CN"
=============================================================================
