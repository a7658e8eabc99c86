----------------------------- MODULE MCValidity -----------------------------
(* An instance of Validity with integers of seven bits, for TLC. *)
EXTENDS Validity

Sets(field, value) == [f \in {field} |-> value]

AllIntegers == -Half .. Half - 1

(* Every value of each number, and what Load refuses. *)
AllFiles ==
    {EmptyMap, Sets("days", Malformed), Sets("unknown", 1), Sets("selfSigned", FALSE)}
      \cup {Sets(f, n) : f \in {"days", "hours"}, n \in AllIntegers}
      \cup {Sets(f, "") : f \in {"listen", "dbPath", "keystoreDir"}}

(* The environment: nothing, a number over the one of the file, the names  *)
(* of the TLS files, a value that is not a number.                         *)
AllEnvs ==
    {EmptyMap, Sets("days", 3), Sets("hours", Malformed),
     [f \in {"certFile", "keyFile"} |-> "set"]}
=============================================================================
