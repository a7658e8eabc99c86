------------------------------ MODULE Validity ------------------------------
(***************************************************************************)
(* The lengths of time of pqtrust at the width of the machine: the         *)
(* configured maximum in days and CRL life in hours (internal/config), the *)
(* time.Duration that newApp and New make of them (cmd/pqtrustd, internal/ *)
(* ca), the days of a request in IssueCertificate and the checks that      *)
(* CreateCertificate and CreateRevocationList repeat (internal/pqx509).    *)
(*                                                                         *)
(* An int and a Duration (in ticks) wrap at the same width, and so do the  *)
(* seconds of AddDate; nothing checks for it.  Times are in seconds.       *)
(***************************************************************************)
EXTENDS Integers, Maps

CONSTANTS
    Half,              \* an integer is in -Half .. Half - 1 (2^63)
    Ticks,             \* ticks of a Duration in a second (10^9)
    Hour,              \* seconds (3600)
    DayHours,          \* hours in a day (24)
    Skew,              \* clockSkew, in seconds (300)
    EndEntityDays,     \* endEntityValidityDays (90)
    MaxEndEntityDays,  \* maxEndEntityValidityDays (397)
    IntermediateDays,  \* intermediateValidityDays (1825)
    CRLHours,          \* the default of the CRL life (168)
    Files, Envs,       \* contents of config.yaml and of the environment
    Malformed,         \* a value that does not parse
    Nows,              \* times at which a request may come
    Requested          \* validity_days of the requests

Day == DayHours * Hour

ASSUME Units == /\ {Half, Ticks, Hour, DayHours, IntermediateDays} \subseteq Nat \ {0}
                /\ {Skew, EndEntityDays, MaxEndEntityDays, CRLHours} \subseteq Nat
                /\ Nows \subseteq Nat
                /\ Requested \subseteq -Half .. Half - 1

(* The validity of a CA is far from the limits of a Duration, and a time   *)
(* of the present is far from the limits of a time.                        *)
ASSUME CAsAreShort ==
    /\ IntermediateDays * Day * Ticks < Half
    /\ MaxEndEntityDays * Day * Ticks < Half
    /\ CRLHours * Hour * Ticks < Half
    /\ \A now \in Nows : now + IntermediateDays * Day < Half /\ now - Skew >= -Half

(* A number that was parsed is an int; one that is no int does not parse.  *)
ASSUME NumbersFit ==
    \A layer \in Files \cup Envs : \A f \in DOMAIN layer \cap {"days", "hours"} :
        layer[f] # Malformed => layer[f] \in -Half .. Half - 1

VARIABLES
    file, env,    \* what the process finds when it starts
    pc,
    config,       \* the configuration, once loaded
    maxValidity,  \* Options.MaxValidity, a Duration
    crlValidity,  \* Options.CRLValidity, a Duration
    now,          \* the time of the request
    issuer,       \* NotAfter of the issuing CA
    outcome       \* the answer to the request

vars == <<file, env, pc, config, maxValidity, crlValidity, now, issuer, outcome>>

-----------------------------------------------------------------------------
(* Arithmetic *)

(* Two's complement. *)
Wrap(n) == ((n + Half) % (2 * Half)) - Half

(* time.Duration(days) * 24 * time.Hour *)
DurationOfDays(days) == Wrap(days * Day * Ticks)

(* time.Duration(hours) * time.Hour *)
DurationOfHours(hours) == Wrap(hours * Hour * Ticks)

(* Time.AddDate(0, 0, days) *)
AddDays(t, days) == Wrap(t + days * Day)

-----------------------------------------------------------------------------
(* internal/config *)

(* A layer maps the fields it sets to their values. *)
Default ==
    [listen |-> "set", dbPath |-> "set", keystoreDir |-> "set", selfSigned |-> TRUE,
     certFile |-> "", keyFile |-> "", days |-> MaxEndEntityDays, hours |-> CRLHours]

Over(layer, c) == [f \in DOMAIN c |-> IF f \in DOMAIN layer THEN layer[f] ELSE c[f]]

Parses(layer) == \A f \in DOMAIN layer : layer[f] # Malformed

(* The file over the defaults; an unknown field is an error.  Then the     *)
(* environment over both.                                                  *)
Loaded == Over(env, Over(file, Default))

LoadOK == Parses(file) /\ DOMAIN file \subseteq DOMAIN Default /\ Parses(env)

Validate(c) ==
    /\ c.listen # ""
    /\ c.selfSigned \/ (c.certFile # "" /\ c.keyFile # "")
    /\ c.dbPath # ""
    /\ c.keystoreDir # ""
    /\ c.days > 0
    /\ c.hours > 0

-----------------------------------------------------------------------------
NoOutcome == [op |-> "none", days |-> 0, granted |-> FALSE, notAfter |-> 0]

Init ==
    /\ file \in Files
    /\ env \in Envs
    /\ pc = "load"
    /\ config = Default
    /\ maxValidity = 0
    /\ crlValidity = 0
    /\ now \in Nows
    /\ issuer \in {now + t : t \in -1 .. IntermediateDays * Day}
    /\ outcome = NoOutcome

Load ==
    /\ pc = "load"
    /\ IF LoadOK /\ Validate(Loaded)
         THEN config' = Loaded /\ pc' = "wire"
         ELSE pc' = "refused" /\ UNCHANGED config
    /\ UNCHANGED <<file, env, maxValidity, crlValidity, now, issuer, outcome>>

OrDefault(duration, default) == IF duration = 0 THEN default ELSE duration

(* newApp, New *)
New ==
    /\ pc = "wire"
    /\ maxValidity' = OrDefault(DurationOfDays(config.days), MaxEndEntityDays * Day * Ticks)
    /\ crlValidity' = OrDefault(DurationOfHours(config.hours), CRLHours * Hour * Ticks)
    /\ pc' = "ready"
    /\ UNCHANGED <<file, env, config, now, issuer, outcome>>

(* Variant: the time is not compared with the one of the issuer. *)
RequestGrantedAnyIssuer(days) ==
    /\ days >= 0
    /\ DurationOfDays(days) <= maxValidity
    /\ AddDays(now, days) > now - Skew

(* Variant: the comparison with the maximum is strict. *)
RequestGrantedStrict(days) ==
    /\ days >= 0
    /\ DurationOfDays(days) < maxValidity
    /\ AddDays(now, days) <= issuer
    /\ AddDays(now, days) > now - Skew

(* The checks of IssueCertificate, and the one of CreateCertificate that   *)
(* NotAfter is after NotBefore.                                            *)
RequestGranted(days) ==
    /\ days >= 0
    /\ DurationOfDays(days) <= maxValidity
    /\ AddDays(now, days) <= issuer
    /\ AddDays(now, days) > now - Skew

IssueCertificate(requested) ==
    /\ pc = "ready"
    /\ LET days == IF requested = 0 THEN EndEntityDays ELSE requested IN
         outcome' = [op |-> "issue", days |-> days, granted |-> RequestGranted(days),
                     notAfter |-> AddDays(now, days)]
    /\ pc' = "done"
    /\ UNCHANGED <<file, env, config, maxValidity, crlValidity, now, issuer>>

(* CRL: nextUpdate must be after thisUpdate, and is written in seconds. *)
CRL ==
    /\ pc = "ready"
    /\ outcome' = [op |-> "crl", days |-> 0, granted |-> crlValidity > 0,
                   notAfter |-> now + (crlValidity \div Ticks)]
    /\ pc' = "done"
    /\ UNCHANGED <<file, env, config, maxValidity, crlValidity, now, issuer>>

(* The next request comes at another time. *)
NextRequest ==
    /\ pc = "done"
    /\ outcome' = NoOutcome
    /\ now' \in {t \in Nows : issuer - t <= IntermediateDays * Day}
    /\ pc' = "ready"
    /\ UNCHANGED <<file, env, config, maxValidity, crlValidity, issuer>>

(* The process has ended; the operator goes back to the defaults. *)
StartAgain ==
    /\ pc = "refused"
    /\ pc' = "load"
    /\ file' = EmptyMap
    /\ env' = EmptyMap
    /\ UNCHANGED <<config, maxValidity, crlValidity, now, issuer, outcome>>

Next == Load \/ New \/ (\E days \in Requested : IssueCertificate(days)) \/ CRL
          \/ NextRequest \/ StartAgain

Spec == Init /\ [][Next]_vars

-----------------------------------------------------------------------------
(* Properties *)

(* Whatever was requested and configured, and however both wrapped, a      *)
(* certificate lives no longer than the configured days and its issuer, a  *)
(* CRL no longer than the configured hours; none ends before it begins.    *)
(* A certificate begins clockSkew before now: a length that wraps to less  *)
(* than nothing is granted with an end between that and now.               *)
NoLongerThanAllowed ==
    /\ outcome.op = "issue" /\ outcome.granted =>
         /\ outcome.notAfter - now <= config.days * Day
         /\ outcome.notAfter <= issuer
         /\ outcome.notAfter > now - Skew
    /\ outcome.op = "crl" /\ outcome.granted =>
         /\ outcome.notAfter - now <= config.hours * Hour
         /\ outcome.notAfter >= now

(* No wrap refuses what is allowed: with a configured maximum that fits, a *)
(* request within it and within the issuer is granted in full.             *)
AllowedIsGranted ==
    /\ outcome.op = "issue"
    /\ outcome.days > 0
    /\ outcome.days <= config.days
    /\ config.days * Day * Ticks < Half
    /\ now + outcome.days * Day <= issuer
    => /\ outcome.granted
       /\ outcome.notAfter = now + outcome.days * Day
=============================================================================
