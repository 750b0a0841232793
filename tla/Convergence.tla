------------------------------ MODULE Convergence ------------------------------
(***************************************************************************)
(* The watch over the router's retraining (src/src/services/               *)
(* router_retraining_service.py, src/src/api/routers/monitoring.py): the   *)
(* accuracy of every epoch is recorded in memory, and each record, or a    *)
(* question at any time, is answered by comparing the last epochs.         *)
(*                                                                         *)
(* Accuracies are integers in a unit of which Epsilon is the threshold of  *)
(* 0.5 %, so differences are exact.                                        *)
(***************************************************************************)
EXTENDS Integers, SequencesExt

CONSTANTS
  Accuracies,
  Epsilon,
  MaxPlateau,  \* 3 in the code
  MaxEpochs    \* bounds the epochs between restarts

VARIABLES
  history,  \* the accuracies recorded since the process started
  verdict,  \* the last answer
  still     \* history: how many epochs in a row changed by less than Epsilon
convergenceVars == <<history, verdict, still>>

Size(x) == IF x < 0 THEN -x ELSE x

\* The loop of check_convergence: of the last MaxPlateau epochs, those up to the
\* newest that changed by less than Epsilon; the first epoch has no predecessor.
PlateauCount(h) ==
  LET quiet(n) == \A i \in Len(h) - n + 1 .. Len(h) : Size(h[i] - h[i - 1]) < Epsilon
  IN  CHOOSE n \in 0..MaxPlateau :
        /\ n < Len(h) /\ quiet(n)
        /\ n < MaxPlateau /\ n + 1 < Len(h) => ~quiet(n + 1)

\* check_convergence: a fall is a regression whatever came before it.
Verdict(h) ==
  LET delta == h[Len(h)] - h[Len(h) - 1]
  IN  IF Len(h) < 2 THEN "insufficient"
      ELSE CASE delta < -Epsilon -> "regression"
             [] delta >= -Epsilon /\ PlateauCount(h) >= MaxPlateau -> "plateau"
             [] delta >= -Epsilon /\ PlateauCount(h) < MaxPlateau ->
                  IF delta < Epsilon THEN "marginal" ELSE "improvement"

-----------------------------------------------------------------------------
Init == history = <<>> /\ verdict = "insufficient" /\ still = 0

\* The endpoint's record_accuracy.
Record(accuracy) ==
  /\ Len(history) < MaxEpochs
  /\ history' = Append(history, accuracy)
  /\ verdict' = Verdict(history')
  /\ still' = IF history # <<>> /\ Size(accuracy - Last(history)) < Epsilon THEN still + 1 ELSE 0

\* get_convergence_status
Ask ==
  /\ verdict' = Verdict(history)
  /\ UNCHANGED <<history, still>>

\* Nothing is persisted.
Restart ==
  /\ history' = <<>>
  /\ still' = 0
  /\ UNCHANGED verdict

Next == (\E a \in Accuracies : Record(a)) \/ Ask \/ Restart

Spec == Init /\ [][Next]_convergenceVars

-----------------------------------------------------------------------------
\* A plateau is reported exactly when the last MaxPlateau epochs of this process
\* each changed the accuracy by less than Epsilon, in either direction: never
\* within as many epochs of a start, a leap or a reported fall, and always by then.
\* (check_convergence, whose loop looks back over a list that may be shorter.)
PlateauIsStandstill ==
  history # <<>> => (Verdict(history) = "plateau" <=> still >= MaxPlateau)
=============================================================================
