---------------------------- MODULE SmartReflector ----------------------------
(***************************************************************************)
(* Repairing what the Guardian rejected: SmartReflectorService.repair      *)
(* (src/src/services/smart_reflector.py) as reflector_node calls it on the *)
(* session's proposed action (src/src/workflows/graph.py), and as an MCP   *)
(* client calls it on an action of its own (src/src/mcp/tools/reflector.py)*)
(*                                                                         *)
(* An action is a dict whose "parameters" are a dict of their own: the     *)
(* record here holds a reference to it, an index into params, because      *)
(* action.copy() copies the reference only.  Numbers are integers large    *)
(* enough for every reduction to lower them.                               *)
(***************************************************************************)
EXTENDS Integers, Sequences, FiniteSets, SequencesExt, TLC

CONSTANTS
  Strategies,      \* the values of REFLECTOR_STRATEGY to choose among
  TestModes,       \* and of CARF_TEST_MODE: the LLM's answer is a stub
  MaxReflections,
  MaxViolations,   \* that one rejection lists
  Numbers,         \* what amounts, limits and effects are proposed
  MaxClientRepairs \* bound of the check

Kinds == {"budget", "limit", "approval", "other"}  \* what a violation's text mentions

Violations == {v \in SeqOf(Kinds, MaxViolations) : v # <<>>}

VARIABLES
  strategy, testMode, \* how the service was configured
  phase,       \* "proposing", "judged" or "reflected"
  params,      \* every "parameters" dict, as a function from its numeric keys
  action,      \* proposed_action: NoAction or [top, ref, marks]
  original,    \* context["original_action"]
  violations,  \* policy_violations
  rejections,  \* context["guardian_rejections"]: whether each repair succeeded
  installed,   \* the action the last reflection put in place, or NoAction
  client, asked \* an MCP client's action, by value, and how often it asked
config == <<strategy, testMode>>
session == <<phase, action, original, violations, rejections, installed>>
vars == <<config, session, params, client, asked>>

\* top: the positive number among the action's own values, 0 if there is none;
\* marks: the keys that repairs add.
Action(top, ref, marks) == [top |-> top, ref |-> ref, marks |-> marks]
NoAction == Action(0, 0, {})

Init ==
  /\ strategy \in Strategies /\ testMode \in TestModes
  /\ phase = "proposing"
  /\ params = <<>> /\ action = NoAction /\ original = NoAction
  /\ violations = <<>> /\ rejections = <<>> /\ installed = NoAction
  /\ client \in [top : Numbers \cup {0}, nested : [{"amount", "budget_limit"} -> Numbers],
                 marks : {{}}]
  /\ asked = 0

-----------------------------------------------------------------------------
(* The service.  A repair is applied to a value [top, nested, marks]. *)

\* By how much the heuristics scale every positive number.
Percent(kind) == CASE kind = "budget" -> 80 [] kind = "limit" -> 90 [] OTHER -> 100

Scaled(a, percent) ==
  [a EXCEPT !.top = (@ * percent) \div 100,
            !.nested = [k \in DOMAIN @ |-> (@[k] * percent) \div 100]]

HeuristicStep(a, kind) ==
  [Scaled(a, Percent(kind)) EXCEPT
     !.marks = IF kind = "approval" THEN @ \cup {"requires_human_review"} ELSE @]

Known(kind) == kind # "other"

Result(repaired, confidence, addressed, remaining) ==
  [repaired |-> repaired, confidence |-> confidence,
   addressed |-> addressed, remaining |-> remaining]

\* Those of a list that are of some kinds, in their order.
Those(list, kinds) ==
  LET kept[i \in 0..Len(list)] ==
        IF i = 0 THEN <<>>
        ELSE IF list[i] \in kinds THEN Append(kept[i - 1], list[i]) ELSE kept[i - 1]
  IN kept[Len(list)]

\* _try_heuristic_repair, when something matches
Heuristic(a, viols) ==
  LET remaining == Those(viols, {k \in Kinds : ~Known(k)})
  IN  Result(FoldLeft(HeuristicStep, a, viols), IF remaining = <<>> THEN 85 ELSE 60,
             Those(viols, {k \in Kinds : Known(k)}), remaining)

\* _try_llm_repair: a stub in test mode; otherwise get_chat_model is imported
\* from a module that does not have it, and the attempt fails.
Llm(a, viols) ==
  IF testMode
  THEN Result([a EXCEPT !.top = (@ * 85) \div 100, !.marks = @ \cup {"llm_repair_applied"}],
              70, viols, <<>>)
  ELSE Result(a, 0, <<>>, viols)

\* A mutant of Merge that reports what the LLM addressed only.
MergeForgets(h, l) == Result(l.repaired, (h.confidence + l.confidence) \div 2, l.addressed, l.remaining)
Merge(h, l) ==
  Result(l.repaired, (h.confidence + l.confidence) \div 2, h.addressed \o l.addressed, l.remaining)

Repair(a, viols) ==
  LET matched == \E i \in DOMAIN viols : Known(viols[i])
      h == Heuristic(a, viols)
  IN  CASE strategy = "llm" -> Llm(a, viols)
        [] strategy # "llm" /\ ~matched ->
             IF strategy = "hybrid" THEN Llm(a, viols) ELSE Result(a, 0, <<>>, viols)
        [] strategy = "hybrid" /\ matched /\ h.remaining # <<>> ->
             Merge(h, Llm(h.repaired, h.remaining))
        [] OTHER -> h

-----------------------------------------------------------------------------
(* The session *)

\* A domain agent replaces the proposed action by one of its own, whose numbers
\* are all among its parameters.
Propose ==
  /\ phase \in {"proposing", "reflected"} /\ phase' = "judged"
  /\ \E n \in Numbers : params' = Append(params, ("effect_size" :> n))
  /\ action' = Action(0, Len(params'), {})
  /\ UNCHANGED <<config, original, violations, rejections, installed, client, asked>>

ValueOf(a) == [top |-> a.top, nested |-> params[a.ref], marks |-> a.marks]

\* reflector_node, after a rejection.  repair's copies share the parameters, so
\* what it does to them is done to the proposed action, to the one kept in the
\* context and to the repaired one, before the two are compared.
Reflect ==
  /\ phase = "judged" /\ Len(rejections) < MaxReflections
  /\ phase' = "reflected"
  /\ violations' \in Violations
  /\ LET r == Repair(ValueOf(action), violations')
         repaired == Action(r.repaired.top, action.ref, r.repaired.marks)
         successful == r.confidence > 0 /\ repaired # action
     IN  /\ params' = [params EXCEPT ![action.ref] = r.repaired.nested]
         /\ action' = IF successful THEN repaired ELSE NoAction
         /\ installed' = action'
         /\ rejections' = Append(rejections, successful)
  /\ original' = IF original = NoAction THEN action ELSE original
  /\ UNCHANGED <<config, client, asked>>

-----------------------------------------------------------------------------
(* A client of the MCP tool *)

ReflectorRepair(viols) ==
  /\ asked < MaxClientRepairs /\ asked' = asked + 1
  /\ client' = Repair(client, viols).repaired
  /\ UNCHANGED <<config, session, params>>

Next == Propose \/ Reflect \/ \E viols \in Violations : ReflectorRepair(viols)

Spec == Init /\ [][Next]_vars

-----------------------------------------------------------------------------
(* Properties *)

Occurs(s, kind) == Cardinality({i \in DOMAIN s : s[i] = kind})

\* Every strategy, and the merge of two, accounts for every violation it was
\* given, once.
EveryViolationAccounted ==
  \A viols \in Violations :
    LET r == Repair(client, viols)
    IN  \A kind \in Kinds : Occurs(viols, kind) = Occurs(r.addressed \o r.remaining, kind)

\* "Original action preserved in context["original_action"]"
\* (src/docs/SELF_HEALING_ARCHITECTURE.md)
OriginalPreserved ==
  [][Reflect /\ original = NoAction => params'[original'.ref] = params[original'.ref]]_vars

\* "Repaired action returned to workflow", then "Guardian re-evaluates"
\* (src/docs/WALKTHROUGH.md): what the Guardian judges after a successful repair
\* is the repaired action.
RepairIsJudged == phase = "judged" /\ installed # NoAction => action = installed

\* "Unknown violations: LLM-based contextual repair (hybrid mode)"
\* (reflector_node)
UnknownIsRepaired ==
  phase = "reflected" /\ (\A i \in DOMAIN violations : violations[i] = "other") => action # NoAction

\* "Budget violations -> reduce amount by 20%" (src/docs/WALKTHROUGH.md): a
\* repair of a budget violation reduces the amount, and leaves the limit that
\* the amount exceeded as it is.
AmountIsReduced ==
  [][ReflectorRepair(<<"budget">>) =>
       /\ client'.nested["amount"] < client.nested["amount"]
       /\ client'.nested["budget_limit"] = client.nested["budget_limit"]]_vars
===============================================================================
