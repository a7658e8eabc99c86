--------------------------- MODULE ValidityProofs ---------------------------
(***************************************************************************)
(* No certificate and no CRL lives longer than is allowed, and no wrap     *)
(* refuses what is, proved for integers of any width, any unit of a        *)
(* Duration and any configuration: at the width of the machine, where      *)
(* Validity is checked with seven bits.                                    *)
(***************************************************************************)
EXTENDS Validity, TLAPS

-----------------------------------------------------------------------------
(* Arithmetic *)

(* The units are positive, and so is a day. *)
LEMMA UnitsFacts ==
    /\ Half \in Nat /\ Half > 0
    /\ Ticks \in Nat /\ Ticks > 0
    /\ Hour \in Nat /\ Hour > 0
    /\ Day \in Nat /\ Day > 0
    /\ IntermediateDays \in Nat /\ MaxEndEntityDays \in Nat
    /\ EndEntityDays \in Nat /\ CRLHours \in Nat /\ Skew \in Nat
<1>1. \A a, b \in Nat : a > 0 /\ b > 0 => a * b \in Nat /\ a * b > 0
  BY SMT
<1> QED
  BY <1>1, Units DEF Day

(* A factor that is not zero makes no product smaller than the other. *)
LEMMA Multiple ==
  ASSUME NEW h \in Nat, h > 0, NEW k \in Int
  PROVE  /\ h * k \in Int
         /\ k >= 1 => h * k >= h
         /\ k <= -1 => h * k <= -h
         /\ k = 0 => h * k = 0
<1>1. k >= 1 => h * k >= h
  <2> SUFFICES ASSUME k >= 1 PROVE h * k >= h
    OBVIOUS
  <2>1. k - 1 >= 0 /\ h * (k - 1) >= 0
    BY SMT
  <2>2. h * (k - 1) = h * k - h
    BY SMT
  <2> QED
    BY <2>1, <2>2
<1>2. k <= -1 => h * k <= -h
  <2> SUFFICES ASSUME k <= -1 PROVE h * k <= -h
    OBVIOUS
  <2>1. h * (-1 - k) >= 0
    BY SMT
  <2>2. h * (-1 - k) = -h - h * k
    BY SMT
  <2> QED
    BY <2>1, <2>2
<1> QED
  BY <1>1, <1>2, SMT

(* Products keep the order, and lose it only with it. *)
LEMMA Ordered ==
  ASSUME NEW u \in Nat, u > 0, NEW a \in Int, NEW b \in Int
  PROVE  /\ a * u \in Int /\ b * u \in Int
         /\ a * u <= b * u <=> a <= b
<1> DEFINE d == b - a
<1>1. d \in Int /\ u * d = b * u - a * u
  BY SMT
<1> HIDE DEF d
<1>2. d >= 1 => u * d >= u
  BY <1>1, Multiple
<1>3. d <= -1 => u * d <= -u
  BY <1>1, Multiple
<1>4. d = 0 => u * d = 0
  BY <1>1, Multiple
<1>5. d = b - a
  BY DEF d
<1> QED
  BY <1>1, <1>2, <1>3, <1>4, <1>5, SMT

(* To wrap is to leave out a multiple of 2 * Half. *)
LEMMA WrapFacts ==
  ASSUME NEW n \in Int
  PROVE  /\ Wrap(n) \in -Half .. Half - 1
         /\ \E k \in Int : n = Wrap(n) + 2 * (Half * k)
<1> DEFINE m == 2 * Half
           q == (n + Half) \div m
           r == (n + Half) % m
<1>1. m \in Nat /\ m > 0 /\ n + Half \in Int
  BY UnitsFacts
<1>2. \A a \in Int, b \in Nat : b > 0 =>
        a \div b \in Int /\ a % b \in 0 .. b - 1 /\ a = b * (a \div b) + (a % b)
  BY SMT
<1>3. q \in Int /\ r \in 0 .. m - 1 /\ n + Half = m * q + r
  BY <1>1, <1>2
<1>4. m * q = 2 * (Half * q)
  <2>1. \A a, b \in Int : (2 * a) * b = 2 * (a * b)
    BY SMT
  <2>2. Half \in Int /\ q \in Int
    BY <1>3, UnitsFacts
  <2> QED
    BY <2>1, <2>2
<1>5. Wrap(n) = r - Half
  BY DEF Wrap
<1> HIDE DEF m, q, r
<1>6. m = 2 * Half
  BY DEF m
<1>7. Half * q \in Int
  BY <1>3, UnitsFacts, Multiple
<1>8. Wrap(n) \in -Half .. Half - 1
  BY <1>3, <1>5, <1>6, UnitsFacts
<1>9. n = Wrap(n) + 2 * (Half * q)
  BY <1>3, <1>4, <1>5, <1>6, <1>7, UnitsFacts
<1> QED
  BY <1>3, <1>8, <1>9

(* Numbers that differ by a multiple of 2 * Half wrap to the same one, and *)
(* a number that fits is what it wraps to.                                 *)
LEMMA WrapIs ==
  ASSUME NEW n \in Int, NEW w \in -Half .. Half - 1, NEW j \in Int,
         n = w + 2 * (Half * j)
  PROVE  Wrap(n) = w
<1>1. PICK k \in Int : n = Wrap(n) + 2 * (Half * k)
  BY WrapFacts
<1>2. Wrap(n) \in -Half .. Half - 1
  BY WrapFacts
<1> DEFINE d == j - k
<1>3. d \in Int /\ Half * d = Half * j - Half * k
  BY <1>1, UnitsFacts, SMT
<1> HIDE DEF d
<1>4. Half * j \in Int /\ Half * k \in Int
  BY <1>1, UnitsFacts, Multiple
<1>5. Wrap(n) - w = 2 * (Half * d)
  BY <1>1, <1>2, <1>3, <1>4, UnitsFacts
<1>6. /\ d >= 1 => Half * d >= Half
      /\ d <= -1 => Half * d <= -Half
      /\ d = 0 => Half * d = 0
  BY <1>3, UnitsFacts, Multiple
<1>7. Half * d \in Int
  BY <1>3, <1>4
<1> QED
  BY <1>2, <1>3, <1>5, <1>6, <1>7, UnitsFacts

LEMMA WrapFits ==
  ASSUME NEW n \in -Half .. Half - 1
  PROVE  Wrap(n) = n
<1>1. n \in Int /\ n = n + 2 * (Half * 0)
  BY UnitsFacts, Multiple
<1> QED
  BY <1>1, WrapIs

(* To wrap never makes a number of Nat greater. *)
LEMMA WrapIsLess ==
  ASSUME NEW n \in Nat
  PROVE  Wrap(n) <= n
<1>1. PICK k \in Int : n = Wrap(n) + 2 * (Half * k)
  BY WrapFacts
<1>2. Wrap(n) \in -Half .. Half - 1
  BY WrapFacts
<1>3. /\ Half * k \in Int
      /\ k >= 1 => Half * k >= Half
      /\ k <= -1 => Half * k <= -Half
      /\ k = 0 => Half * k = 0
  BY <1>1, UnitsFacts, Multiple
<1> QED
  BY <1>1, <1>2, <1>3, UnitsFacts

-----------------------------------------------------------------------------
(* What New, IssueCertificate and CRL compute *)

(* The limit that New makes of a configured number (n ticks before they    *)
(* wrap, d ticks by default) is never above it, and is it when it fits.    *)
LEMMA LimitFacts ==
  ASSUME NEW n \in Nat, n > 0, NEW d \in Nat, d < Half
  PROVE  /\ OrDefault(Wrap(n), d) \in Int
         /\ OrDefault(Wrap(n), d) <= n
         /\ n < Half => OrDefault(Wrap(n), d) = n
<1>1. /\ Wrap(n) \in Int
      /\ Wrap(n) <= n
      /\ n < Half => Wrap(n) = n
  BY WrapFacts, WrapIsLess, WrapFits, UnitsFacts
<1>2. ASSUME Wrap(n) = 0
      PROVE  n >= 2 * Half
  <2>1. PICK k \in Int : n = Wrap(n) + 2 * (Half * k)
    BY WrapFacts
  <2>2. /\ Half * k \in Int
        /\ k >= 1 => Half * k >= Half
        /\ k <= -1 => Half * k <= -Half
        /\ k = 0 => Half * k = 0
    BY <2>1, UnitsFacts, Multiple
  <2> QED
    BY <1>2, <2>1, <2>2, UnitsFacts
<1> QED
  BY <1>1, <1>2, UnitsFacts DEF OrDefault

(* The configured days make ticks that New can wrap, and so do the hours.  *)
LEMMA ConfiguredTicks ==
  ASSUME NEW a \in Nat, a > 0
  PROVE  /\ a * Day * Ticks \in Nat /\ a * Day * Ticks > 0
         /\ a * Hour * Ticks \in Nat /\ a * Hour * Ticks > 0
         /\ a * Day \in Nat /\ a * Day > 0
         /\ a * Hour \in Nat /\ a * Hour > 0
<1>1. \A b, c \in Nat : b > 0 /\ c > 0 => b * c \in Nat /\ b * c > 0
  BY SMT
<1> QED
  BY <1>1, UnitsFacts

(* The defaults fit. *)
LEMMA DefaultTicks ==
  /\ MaxEndEntityDays * Day * Ticks \in Nat /\ MaxEndEntityDays * Day * Ticks < Half
  /\ CRLHours * Hour * Ticks \in Nat /\ CRLHours * Hour * Ticks < Half
  /\ IntermediateDays * Day \in Nat
  /\ IntermediateDays * Day * Ticks \in Nat /\ IntermediateDays * Day * Ticks < Half
<1>1. \A b, c \in Nat : b * c \in Nat
  BY SMT
<1> QED
  BY <1>1, UnitsFacts, CAsAreShort

(* The two numbers that IssueCertificate makes of the days, the duration   *)
(* and the end, wrap together: if the length that results fits into a      *)
(* Duration, it is the duration that was checked.                          *)
LEMMA CheckedLength ==
  ASSUME NEW t \in Int, NEW days \in Int,
         NEW r \in Int, r = AddDays(t, days) - t,
         r * Ticks \in -Half .. Half - 1
  PROVE  DurationOfDays(days) = r * Ticks
<1>1. days * Day \in Int
  BY UnitsFacts, Multiple
<1>2. AddDays(t, days) \in Int
  BY <1>1, WrapFacts, UnitsFacts DEF AddDays
<1>3. PICK k \in Int : t + days * Day = AddDays(t, days) + 2 * (Half * k)
  BY <1>1, WrapFacts DEF AddDays
<1>4. Half * k \in Int
  BY UnitsFacts, Multiple
<1>5. days * Day = r + 2 * (Half * k)
  BY <1>1, <1>2, <1>3, <1>4
<1>6. \A a, b, c, h \in Int : (b + 2 * (h * c)) * a = b * a + 2 * (h * (c * a))
  BY SMT
<1>7. days * Day * Ticks = r * Ticks + 2 * (Half * (k * Ticks))
  <2>1. Ticks \in Int /\ r \in Int /\ k \in Int /\ Half \in Int
    BY UnitsFacts
  <2>2. (r + 2 * (Half * k)) * Ticks = r * Ticks + 2 * (Half * (k * Ticks))
    BY ONLY <1>6, <2>1
  <2> QED
    BY <1>5, <2>2, Zenon
<1>8. k * Ticks \in Int /\ days * Day * Ticks \in Int
  BY <1>1, UnitsFacts, Multiple
<1> QED
  BY <1>7, <1>8, WrapIs DEF DurationOfDays

(* So a request that is granted is granted for no more than is configured, *)
(* whatever wrapped.                                                       *)
LEMMA GrantedIsAllowed ==
  ASSUME NEW t \in Int, NEW ca \in Int, ca - t <= IntermediateDays * Day,
         NEW days \in Int,
         NEW allowed \in Nat, allowed > 0,
         NEW max \in Int, max <= allowed * Day * Ticks,
         DurationOfDays(days) <= max,
         AddDays(t, days) <= ca
  PROVE  AddDays(t, days) - t <= allowed * Day
<1> DEFINE r == AddDays(t, days) - t
<1>1. AddDays(t, days) \in Int
  <2>1. days * Day \in Int
    BY UnitsFacts, Multiple
  <2> QED
    BY <2>1, WrapFacts, UnitsFacts DEF AddDays
<1>2. r \in Int /\ r <= IntermediateDays * Day
  BY <1>1, DefaultTicks
<1>3. allowed * Day \in Nat /\ allowed * Day * Ticks \in Nat
  BY ConfiguredTicks
<1>4. CASE r <= 0
  BY <1>2, <1>3, <1>4
<1>5. CASE r > 0
  <2>1. r * Ticks \in Nat
    BY <1>2, <1>5, UnitsFacts, SMT
  <2>2. r * Ticks <= IntermediateDays * Day * Ticks
    BY <1>2, UnitsFacts, DefaultTicks, Ordered
  <2>3. r * Ticks \in -Half .. Half - 1
    BY <2>1, <2>2, UnitsFacts, DefaultTicks
  <2>4. DurationOfDays(days) = r * Ticks
    BY <1>2, <2>3, CheckedLength
  <2>5. r * Ticks <= allowed * Day * Ticks
    BY <1>3, <2>1, <2>4
  <2> QED
    BY <1>2, <1>3, <2>5, UnitsFacts, Ordered
<1> QED
  BY <1>2, <1>4, <1>5

(* The seconds of a CRL are no more than its ticks are worth. *)
LEMMA SecondsOfTicks ==
  ASSUME NEW x \in Nat, NEW s \in Nat, x <= s * Ticks
  PROVE  x \div Ticks \in Nat /\ x \div Ticks <= s
<1>1. \A a \in Int, b \in Nat : b > 0 =>
        a \div b \in Int /\ a % b \in 0 .. b - 1 /\ a = b * (a \div b) + (a % b)
  BY SMT
<1> DEFINE q == x \div Ticks
           r == x % Ticks
<1>2. q \in Int /\ r \in 0 .. Ticks - 1 /\ x = Ticks * q + r
  BY <1>1, UnitsFacts
<1> HIDE DEF q, r
<1>3. /\ Ticks * q \in Int
      /\ q <= -1 => Ticks * q <= -Ticks
  BY <1>2, UnitsFacts, Multiple
<1>4. q >= 0
  BY <1>2, <1>3, UnitsFacts
<1>5. q * Ticks = Ticks * q
  BY <1>2, UnitsFacts, SMT
<1>6. q * Ticks <= s * Ticks
  <2>1. s * Ticks \in Int
    BY UnitsFacts, Ordered
  <2> QED
    BY <1>2, <1>3, <1>5, <2>1, UnitsFacts
<1>7. q <= s
  BY <1>2, <1>6, UnitsFacts, Ordered
<1> QED
  BY <1>2, <1>4, <1>7 DEF q

-----------------------------------------------------------------------------
(* The inductive invariant *)

(* What a layer has for a number is one, if it parses. *)
IsLayer(layer) ==
    \A f \in DOMAIN layer \cap {"days", "hours"} : layer[f] # Malformed => layer[f] \in Int

TypeInv ==
    /\ IsLayer(file) /\ IsLayer(env)
    /\ pc \in {"load", "refused", "wire", "ready", "done"}
    /\ now \in Nows /\ now \in Int
    /\ issuer \in Int
    /\ issuer - now <= IntermediateDays * Day

(* A configuration that is used was validated. *)
ConfigInv ==
    pc \in {"wire", "ready", "done"} =>
        /\ config.days \in Nat /\ config.days > 0
        /\ config.hours \in Nat /\ config.hours > 0

MaxValidityOf(c) == OrDefault(DurationOfDays(c.days), MaxEndEntityDays * Day * Ticks)

CRLValidityOf(c) == OrDefault(DurationOfHours(c.hours), CRLHours * Hour * Ticks)

EngineInv ==
    pc \in {"ready", "done"} =>
        /\ maxValidity = MaxValidityOf(config)
        /\ crlValidity = CRLValidityOf(config)

Issued(days) ==
    [op |-> "issue", days |-> days, granted |-> RequestGranted(days),
     notAfter |-> AddDays(now, days)]

Published ==
    [op |-> "crl", days |-> 0, granted |-> crlValidity > 0,
     notAfter |-> now + (crlValidity \div Ticks)]

(* An answer is what the checks say of the present request. *)
OutcomeInv ==
    /\ pc # "done" => outcome = NoOutcome
    /\ pc = "done" => (\E days \in Int : outcome = Issued(days)) \/ outcome = Published

IInv == TypeInv /\ ConfigInv /\ EngineInv /\ OutcomeInv

-----------------------------------------------------------------------------
(* The initial states and the steps *)

LEMMA InitIInv == Init => IInv
<1> SUFFICES ASSUME Init PROVE IInv
  OBVIOUS
<1>1. IsLayer(file) /\ IsLayer(env)
  BY NumbersFit, UnitsFacts DEF Init, IsLayer
<1>2. now \in Nows /\ now \in Int
  BY Units DEF Init
<1>3. PICK t \in -1 .. IntermediateDays * Day : issuer = now + t
  BY DEF Init
<1>4. issuer \in Int /\ issuer - now <= IntermediateDays * Day
  BY <1>2, <1>3, DefaultTicks
<1> QED
  BY <1>1, <1>2, <1>4 DEF Init, IInv, TypeInv, ConfigInv, EngineInv, OutcomeInv

LEMMA NextIInv ==
  ASSUME IInv, [Next]_vars
  PROVE  IInv'
<1> USE DEF IInv
<1>1. CASE Load
  <2>1. TypeInv'
    BY <1>1 DEF Load, TypeInv, IsLayer
  <2>2. ASSUME LoadOK, Validate(Loaded)
        PROVE  Loaded.days \in Int /\ Loaded.hours \in Int
    <3>1. IsLayer(file) /\ IsLayer(env) /\ Parses(file) /\ Parses(env)
      BY <2>2 DEF TypeInv, LoadOK
    <3>2. DOMAIN Default = {"listen", "dbPath", "keystoreDir", "selfSigned", "certFile",
                            "keyFile", "days", "hours"}
      BY DEF Default
    <3>3. Default.days \in Int /\ Default.hours \in Int
      BY UnitsFacts DEF Default
    <3> DEFINE under == Over(file, Default)
    <3>4. /\ DOMAIN under = DOMAIN Default
          /\ under["days"] = IF "days" \in DOMAIN file THEN file["days"] ELSE Default["days"]
          /\ under["hours"] = IF "hours" \in DOMAIN file THEN file["hours"]
                                                         ELSE Default["hours"]
      BY <3>2 DEF Over
    <3>5. under["days"] \in Int /\ under["hours"] \in Int
      BY <3>1, <3>3, <3>4 DEF IsLayer, Parses
    <3> HIDE DEF under
    <3>6. /\ Loaded["days"] = IF "days" \in DOMAIN env THEN env["days"] ELSE under["days"]
          /\ Loaded["hours"] = IF "hours" \in DOMAIN env THEN env["hours"] ELSE under["hours"]
      BY <3>2, <3>4 DEF Loaded, Over, under
    <3> QED
      BY <3>1, <3>5, <3>6 DEF IsLayer, Parses
  <2>3. ConfigInv'
    <3>1. CASE LoadOK /\ Validate(Loaded)
      <4>1. config' = Loaded /\ Loaded.days \in Int /\ Loaded.hours \in Int
        BY <1>1, <2>2, <3>1 DEF Load
      <4>2. Loaded.days > 0 /\ Loaded.hours > 0
        BY <3>1 DEF Validate
      <4>3. config'.days = Loaded.days /\ config'.hours = Loaded.hours
        BY <4>1
      <4> HIDE DEF IInv
      <4> QED
        BY <4>1, <4>2, <4>3 DEF ConfigInv
    <3>2. CASE ~(LoadOK /\ Validate(Loaded))
      BY <1>1, <3>2 DEF Load, ConfigInv
    <3> QED
      BY <3>1, <3>2
  <2>4. EngineInv' /\ OutcomeInv'
    BY <1>1 DEF Load, EngineInv, OutcomeInv, NoOutcome
  <2> QED
    BY <2>1, <2>3, <2>4
<1>2. CASE New
  <2>1. TypeInv' /\ ConfigInv'
    BY <1>2 DEF New, TypeInv, ConfigInv, IsLayer
  <2>2. EngineInv'
    BY <1>2 DEF New, EngineInv, MaxValidityOf, CRLValidityOf
  <2>3. OutcomeInv'
    BY <1>2 DEF New, OutcomeInv, NoOutcome
  <2> QED
    BY <2>1, <2>2, <2>3
<1>3. ASSUME NEW requested \in Requested, IssueCertificate(requested)
      PROVE  IInv'
  <2>1. TypeInv' /\ ConfigInv'
    BY <1>3 DEF IssueCertificate, TypeInv, ConfigInv, IsLayer
  <2>2. EngineInv'
    BY <1>3 DEF IssueCertificate, EngineInv, MaxValidityOf, CRLValidityOf
  <2> DEFINE days == IF requested = 0 THEN EndEntityDays ELSE requested
  <2>3. days \in Int
    BY UnitsFacts, Units
  <2>4. outcome' = Issued(days)
    BY <1>3 DEF IssueCertificate, Issued
  <2>5. Issued(days)' = Issued(days)
    BY <1>3 DEF IssueCertificate, Issued, RequestGranted
  <2> HIDE DEF days
  <2>6. OutcomeInv'
    BY <1>3, <2>3, <2>4, <2>5 DEF IssueCertificate, OutcomeInv
  <2> QED
    BY <2>1, <2>2, <2>6
<1>4. CASE CRL
  <2>1. TypeInv' /\ ConfigInv'
    BY <1>4 DEF CRL, TypeInv, ConfigInv, IsLayer
  <2>2. EngineInv'
    BY <1>4 DEF CRL, EngineInv, MaxValidityOf, CRLValidityOf
  <2>3. OutcomeInv'
    BY <1>4 DEF CRL, OutcomeInv, Published
  <2> QED
    BY <2>1, <2>2, <2>3
<1>5. CASE NextRequest
  <2>1. TypeInv' /\ ConfigInv'
    BY <1>5, Units DEF NextRequest, TypeInv, ConfigInv, IsLayer
  <2>2. EngineInv' /\ OutcomeInv'
    BY <1>5 DEF NextRequest, EngineInv, OutcomeInv, NoOutcome, MaxValidityOf, CRLValidityOf
  <2> QED
    BY <2>1, <2>2
<1>6. CASE StartAgain
  <2>1. IsLayer(EmptyMap)
    BY DEF IsLayer, EmptyMap
  <2>2. TypeInv'
    BY <1>6, <2>1 DEF StartAgain, TypeInv, IsLayer
  <2>3. ConfigInv' /\ EngineInv' /\ OutcomeInv'
    BY <1>6 DEF StartAgain, ConfigInv, EngineInv, OutcomeInv, NoOutcome
  <2> QED
    BY <2>2, <2>3
<1>7. CASE UNCHANGED vars
  BY <1>7 DEF vars, TypeInv, IsLayer, ConfigInv, EngineInv, OutcomeInv, NoOutcome, Issued,
      Published, RequestGranted, MaxValidityOf, CRLValidityOf
<1> QED
  BY <1>1, <1>2, <1>3, <1>4, <1>5, <1>6, <1>7 DEF Next

(* In every reachable state the configuration that is used is validated,   *)
(* the durations are those that New makes of it, and the answer is that of *)
(* the checks.                                                             *)
THEOREM Invariance == Spec => []IInv
  BY InitIInv, NextIInv, PTL DEF Spec

-----------------------------------------------------------------------------
(* What follows *)

(* A validated configuration limits the engine to what it says. *)
LEMMA EngineFacts ==
  ASSUME IInv, pc = "done"
  PROVE  /\ config.days \in Nat /\ config.days > 0
         /\ config.hours \in Nat /\ config.hours > 0
         /\ maxValidity \in Int /\ maxValidity <= config.days * Day * Ticks
         /\ config.days * Day * Ticks < Half => maxValidity = config.days * Day * Ticks
         /\ crlValidity \in Int /\ crlValidity <= config.hours * Hour * Ticks
<1>1. /\ config.days \in Nat /\ config.days > 0
      /\ config.hours \in Nat /\ config.hours > 0
      /\ maxValidity = MaxValidityOf(config)
      /\ crlValidity = CRLValidityOf(config)
  BY DEF IInv, ConfigInv, EngineInv
<1>2. /\ config.days * Day * Ticks \in Nat /\ config.days * Day * Ticks > 0
      /\ config.hours * Hour * Ticks \in Nat /\ config.hours * Hour * Ticks > 0
  BY <1>1, ConfiguredTicks
<1>3. /\ maxValidity \in Int /\ maxValidity <= config.days * Day * Ticks
      /\ config.days * Day * Ticks < Half => maxValidity = config.days * Day * Ticks
  BY <1>1, <1>2, DefaultTicks, LimitFacts DEF MaxValidityOf, DurationOfDays
<1>4. crlValidity \in Int /\ crlValidity <= config.hours * Hour * Ticks
  BY <1>1, <1>2, DefaultTicks, LimitFacts DEF CRLValidityOf, DurationOfHours
<1> QED
  BY <1>1, <1>3, <1>4

LEMMA NoneLonger == IInv => NoLongerThanAllowed
<1> SUFFICES ASSUME IInv PROVE NoLongerThanAllowed
  OBVIOUS
<1>1. /\ now \in Int /\ issuer \in Int /\ issuer - now <= IntermediateDays * Day
      /\ pc # "done" => outcome.op = "none"
      /\ pc = "done" => (\E days \in Int : outcome = Issued(days)) \/ outcome = Published
  BY DEF IInv, TypeInv, OutcomeInv, NoOutcome
<1>2. CASE pc # "done"
  BY <1>1, <1>2 DEF NoLongerThanAllowed
<1>3. ASSUME pc = "done", NEW days \in Int, outcome = Issued(days)
      PROVE  NoLongerThanAllowed
  <2>1. /\ outcome.op = "issue"
        /\ outcome.granted <=> RequestGranted(days)
        /\ outcome.notAfter = AddDays(now, days)
    BY <1>3 DEF Issued
  <2>2. SUFFICES ASSUME RequestGranted(days)
                 PROVE  /\ AddDays(now, days) - now <= config.days * Day
                        /\ AddDays(now, days) <= issuer
                        /\ AddDays(now, days) > now - Skew
    BY <2>1 DEF NoLongerThanAllowed
  <2>3. /\ DurationOfDays(days) <= maxValidity
        /\ AddDays(now, days) <= issuer
        /\ AddDays(now, days) > now - Skew
    BY <2>2 DEF RequestGranted
  <2>4. AddDays(now, days) - now <= config.days * Day
    BY <1>1, <1>3, <2>3, EngineFacts, GrantedIsAllowed
  <2> QED
    BY <2>3, <2>4
<1>4. ASSUME pc = "done", outcome = Published
      PROVE  NoLongerThanAllowed
  <2>1. /\ outcome.op = "crl"
        /\ outcome.granted <=> crlValidity > 0
        /\ outcome.notAfter = now + (crlValidity \div Ticks)
    BY <1>4 DEF Published
  <2>2. SUFFICES ASSUME crlValidity > 0
                 PROVE  /\ crlValidity \div Ticks \in Nat
                        /\ crlValidity \div Ticks <= config.hours * Hour
    <3>1. config.hours * Hour \in Nat
      BY <1>4, EngineFacts, ConfiguredTicks
    <3> QED
      BY <1>1, <2>1, <2>2, <3>1 DEF NoLongerThanAllowed
  <2>3. /\ crlValidity \in Nat /\ crlValidity <= config.hours * Hour * Ticks
        /\ config.hours * Hour \in Nat
    BY <1>4, <2>2, EngineFacts, ConfiguredTicks
  <2> QED
    BY <2>3, SecondsOfTicks
<1> QED
  BY <1>1, <1>2, <1>3, <1>4

LEMMA AllowedGranted == IInv => AllowedIsGranted
<1> SUFFICES ASSUME IInv,
                    outcome.op = "issue", outcome.days > 0, outcome.days <= config.days,
                    config.days * Day * Ticks < Half,
                    now + outcome.days * Day <= issuer
             PROVE  outcome.granted /\ outcome.notAfter = now + outcome.days * Day
  BY DEF AllowedIsGranted
<1>1. /\ now \in Nows /\ now \in Int
      /\ issuer \in Int /\ issuer - now <= IntermediateDays * Day
      /\ pc = "done"
      /\ \E days \in Int : outcome = Issued(days)
  BY DEF IInv, TypeInv, OutcomeInv, NoOutcome, Published
<1>2. PICK days \in Int : outcome = Issued(days)
  BY <1>1
<1>3. /\ outcome.days = days
      /\ outcome.granted <=> RequestGranted(days)
      /\ outcome.notAfter = AddDays(now, days)
  BY <1>2 DEF Issued
<1>4. days \in Nat /\ days > 0 /\ days <= config.days
  BY <1>3
<1>5. /\ days * Day \in Nat /\ days * Day > 0
      /\ days * Day * Ticks \in Nat
      /\ config.days \in Nat /\ config.days * Day \in Nat
      /\ config.days * Day * Ticks \in Nat
      /\ maxValidity = config.days * Day * Ticks
  BY <1>1, <1>4, ConfiguredTicks, EngineFacts
<1>6. days * Day <= config.days * Day
  BY <1>4, <1>5, UnitsFacts, Ordered
<1>7. days * Day * Ticks <= config.days * Day * Ticks
  BY <1>5, <1>6, UnitsFacts, Ordered
<1>8. DurationOfDays(days) = days * Day * Ticks
  BY <1>5, <1>7, UnitsFacts, WrapFits DEF DurationOfDays
<1>9. now + days * Day \in -Half .. Half - 1
  BY <1>1, <1>3, <1>5, UnitsFacts, DefaultTicks, CAsAreShort
<1>10. AddDays(now, days) = now + days * Day
  BY <1>9, WrapFits DEF AddDays
<1>11. RequestGranted(days)
  BY <1>1, <1>3, <1>4, <1>5, <1>7, <1>8, <1>10, UnitsFacts DEF RequestGranted
<1> QED
  BY <1>3, <1>10, <1>11

(* No certificate outlives the configured days or its issuer, no CRL the   *)
(* configured hours, though New, IssueCertificate and AddDate all wrap.    *)
THEOREM NothingLivesTooLong == Spec => []NoLongerThanAllowed
  BY Invariance, NoneLonger, PTL

(* IssueCertificate grants in full what the configuration and the issuer   *)
(* allow.                                                                  *)
THEOREM TheAllowedIsGranted == Spec => []AllowedIsGranted
  BY Invariance, AllowedGranted, PTL
=============================================================================
