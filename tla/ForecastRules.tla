---- MODULE ForecastRules ----
(***************************************************************************)
(* What the mock and the FourCastNet provider share: how numbers are       *)
(* rounded, when a step has which condition, and which signals a timeline  *)
(* gives.  Every quantity is a whole number of thousandths of its unit.    *)
(***************************************************************************)
EXTENDS Integers, Sequences, FiniteSetsExt

\* Python's round: the nearest integer to n/d, the even one of two (d > 0).
HalfEven(n, d) ==
  LET q == n \div d
      twice == 2 * (n % d)
  IN IF twice < d \/ (twice = d /\ q % 2 = 0) THEN q ELSE q + 1

\* n/d thousandths, rounded to one or two decimals
OneDecimal(n, d) == 100 * HalfEven(n, 100 * d)
TwoDecimals(n, d) == 10 * HalfEven(n, 10 * d)

Clamp(low, high, x) == Min({high, Max({low, x})})
Abs(x) == IF x < 0 THEN -x ELSE x

\* The elements of a finite set, first the one that no pair of the order puts behind another
InOrder(S, order) ==
  [k \in 1..Cardinality(S) |->
     CHOOSE x \in S : Cardinality({y \in S : <<y, x>> \in order}) = k - 1]
Ascending(S) == InOrder(S, {pair \in S \X S : pair[1] < pair[2]})

\* Slip: the rain watch starts where the precipitation signal is elevated.
ConditionLateRain(wind, humidity, rain) ==
  CASE rain >= 60000 -> "rain_watch"
    [] rain < 60000 /\ wind >= 8000 -> "breezy"
    [] rain < 60000 /\ wind < 8000 /\ humidity >= 74000 -> "humid"
    [] OTHER -> "clear"
Condition(wind, humidity, rain) ==
  CASE rain >= 45000 -> "rain_watch"
    [] rain < 45000 /\ wind >= 8000 -> "breezy"
    [] rain < 45000 /\ wind < 8000 /\ humidity >= 74000 -> "humid"
    [] OTHER -> "clear"

\* A step of a timeline
Step(lead, temperature, wind, humidity, rain, pressure, confidence) ==
  [lead |-> lead, temperature |-> temperature, wind |-> wind, humidity |-> humidity,
   rain |-> rain, pressure |-> pressure, confidence |-> confidence,
   condition |-> Condition(wind, humidity, rain)]

Signals(timeline) ==
  LET rain == Max({timeline[i].rain : i \in DOMAIN timeline})
      wind == Max({timeline[i].wind : i \in DOMAIN timeline})
      confidence == Min({timeline[i].confidence : i \in DOMAIN timeline})
  IN [precipitation |-> IF rain >= 55000 THEN "elevated" ELSE IF rain >= 35000 THEN "moderate"
                        ELSE "low",
      wind |-> IF wind >= 9000 THEN "moderate" ELSE "low",
      confidence |-> IF confidence < 780 THEN "moderate" ELSE "low"]

Metrics(step) == [temperature |-> step.temperature, wind |-> step.wind, humidity |-> step.humidity]

\* What the constraints of schemas/forecast.py demand of a summary's fields; a summary
\* they reject would not be answered with.
ValidStep(step) ==
  /\ step.lead \in Nat /\ step.temperature \in Int /\ step.wind \in Int /\ step.pressure \in Int
  /\ step.humidity \in Nat /\ step.humidity <= 100000
  /\ step.rain \in Nat /\ step.rain <= 100000
  /\ step.confidence \in Nat /\ step.confidence <= 1000
  /\ step.condition \in {"clear", "breezy", "humid", "rain_watch"}
ValidTimeline(timeline) == \A i \in DOMAIN timeline : ValidStep(timeline[i])
====
