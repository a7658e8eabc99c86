---------------------------- MODULE MCNameString ----------------------------
(* Texts and names of bounded length, for TLC. *)
EXTENDS NameString

TextCharacters == {"C", "c", "N", "0", "2", "x", ",", "+", "\\", " ", "#", "=", "\""}

(* Any text of up to four characters; a common name of up to four; two     *)
(* components of up to two characters each.                                *)
ShortTexts == BoundedSeq(TextCharacters, 4)

CommonNames == {<<"C", "N", "=">> \o v : v \in BoundedSeq(TextCharacters, 4)}

Pairs == {<<"C", "=">> \o v \o <<",", "c", "n", "=">> \o w :
            v, w \in BoundedSeq(TextCharacters, 2)}

(* Two components of any types, equal ones too. *)
Repeated == {Key[t] \o <<"=", "x", ",">> \o Key[u] \o <<"=", "c">> : t, u \in DOMAIN Key}

AllTexts == ShortTexts \cup CommonNames \cup Pairs \cup Repeated

(* Characters that a value holds; the bytes come from escapes and DER. *)
ValueCharacters == {"c", "2", ",", "+", "\\", " ", "#", "=", "\"", "byte c2"}

WithCommonName(v) == [EmptyName EXCEPT !["CN"] = IF v = <<>> THEN <<>> ELSE <<v>>]

AllCharacters ==
    TextCharacters \cup ValueCharacters \cup Reserved
      \cup {"n", "O", "U", "L", "S", "T"} \cup {Bytes[b] : b \in DOMAIN Bytes}

(* Values that a separator or its escape could confuse. *)
Confusing == {<<>>, <<",">>, <<"\\">>, <<"C", "=">>}

(* A common name of up to three characters; organizational units of one    *)
(* character each; every combination of at most one common name, two units *)
(* and one country with confusing values.                                  *)
AllNames ==
    {WithCommonName(v) : v \in BoundedSeq(ValueCharacters, 3)}
      \cup {[EmptyName EXCEPT !["OU"] = values] :
              values \in BoundedSeq(BoundedSeq(ValueCharacters, 1), 2)}
      \cup {[WithCommonName(v) EXCEPT !["OU"] = units, !["C"] = countries] :
              v \in Confusing, units \in BoundedSeq(Confusing, 2),
              countries \in BoundedSeq(Confusing, 1)}
=============================================================================
