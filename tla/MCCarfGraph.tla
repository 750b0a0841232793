---------------------------- MODULE MCCarfGraph ----------------------------
(* CarfGraph on small instances: the properties and the constants of the runs. *)
EXTENDS CarfGraph

\* guardian.py:86-95 and 98-107
MCThresholds == [d \in Domains |->
  CASE d = "Clear" -> 95 [] d = "Complicated" -> 85 [] d = "Complex" -> 70
    [] d = "Chaotic" -> 50 [] d = "Disorder" -> 0]
MCLimits == [d \in Domains |->
  CASE d = "Clear" -> 100 [] d = "Complicated" -> 50 [] d = "Complex" -> 25
    [] d = "Chaotic" -> 10 [] d = "Disorder" -> 0]

\* Two confidences above the router's threshold, between and above the Guardian's
\* thresholds; a reply that does not parse comes with confidence 0.
MCLevels == {75, 97}
\* E-values below and at the profile's minimum; an oracle's evidence has none.
MCEValues == {1, 2}

Config(strict, confidenceOverride) ==
  [strict |-> strict, confidence |-> confidenceOverride, limit |-> None]
MCConfigs == {Config(FALSE, None), Config(TRUE, 0)}
MCOneConfig == {Config(FALSE, None)}

\* A plain question and a causal one with a matching oracle model, with and
\* without a scenario's hint and a risk level declared by the caller.
MCQueries == {q \in Query : /\ q.hint \in {None, "Complex"} /\ q.risk \in {None, "HIGH"}
                           /\ q.causal = q.oracle /\ q.data = q.causal}

MCOneQuery == {q \in MCQueries : q.hint = None /\ q.risk = None /\ q.oracle}
=============================================================================
