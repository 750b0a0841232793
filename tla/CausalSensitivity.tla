------------------------- MODULE CausalSensitivity -------------------------
(***************************************************************************)
(* The robustness report of a causal estimate                              *)
(* (src/src/services/causal_sensitivity.py) and the CausalEvidence that    *)
(* run_causal_analysis builds from it (src/src/services/causal.py).        *)
(*                                                                         *)
(* The numeric E-value formula is left out: an estimate comes with an      *)
(* E-value (None when the estimate is not finite) and the fact that its    *)
(* confidence interval crosses the null or does not.                       *)
(***************************************************************************)
EXTENDS Integers, FiniteSets

CONSTANTS
  None,         \* Python's None
  MinEValue,    \* ProfileConfig.causal_min_e_value, scaled to an integer
  RequireFull   \* ProfileConfig.causal_require_full_refutation

\* summarize_refutations: a refuter's name is mapped to its success.
RefutationStatus(results) ==
  LET tests == DOMAIN results
      passed == {t \in tests : results[t]}
  IN  CASE tests = {} -> "skipped"
        [] tests # {} /\ passed = tests -> "passed"
        [] tests # {} /\ passed = {} -> "failed"
        [] OTHER -> "partial"

\* assess_robustness: the reasons it lists ...
SensitivityReasons(status, eValue, crossesNull) ==
  (IF status = "passed" THEN {} ELSE {status})
    \cup (IF eValue = None THEN {"e-value could not be computed"}
          ELSE IF eValue < MinEValue THEN {"e-value below minimum"} ELSE {})
    \cup (IF eValue # None /\ crossesNull THEN {"confidence interval crosses the null"}
          ELSE {})

\* ... and its verdict.
Robust(status, eValue, crossesNull) ==
  /\ status = "passed" \/ (status = "partial" /\ ~RequireFull)
  /\ eValue # None /\ eValue >= MinEValue
  /\ ~crossesNull

RefutationStatuses == {"skipped", "passed", "failed", "partial"}
Reasons == RefutationStatuses \cup
  {"e-value could not be computed", "e-value below minimum",
   "confidence interval crosses the null"}
Evidences == [status : RefutationStatuses, eValue : Int \cup {None},
              reasons : SUBSET Reasons, refutationPassed : BOOLEAN]

\* The CausalEvidence of a full analysis.  refutationPassed is true only when
\* every refuter passed.
EstimatedEvidence(status, eValue, crossesNull) ==
  [status |-> status, eValue |-> eValue,
   reasons |-> SensitivityReasons(status, eValue, crossesNull),
   refutationPassed |-> status = "passed"]

\* A mutant of OracleEvidence: the prediction inherits its training's validation.
OracleEvidenceTrusted ==
  [status |-> "passed", eValue |-> MinEValue, reasons |-> {}, refutationPassed |-> TRUE]

\* The CausalEvidence of a ChimeraOracle prediction: refutation_status, e_value
\* and sensitivity_reasons keep the defaults of the model class.
OracleEvidence ==
  [status |-> "skipped", eValue |-> None, reasons |-> {}, refutationPassed |-> TRUE]
=============================================================================
