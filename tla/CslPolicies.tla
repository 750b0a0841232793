------------------------------ MODULE CslPolicies ------------------------------
(***************************************************************************)
(* The CSL service's policies while they are edited and evaluated at the   *)
(* same time: CSLPolicyService.evaluate walks the policy and rule lists in *)
(* a worker thread (asyncio.to_thread), and the handlers of                *)
(* src/src/api/routers/csl.py and of the MCP server change the same lists  *)
(* from the event loop, without a lock.  A handler runs to completion      *)
(* before the next one; between any two steps of the walk it may run, and  *)
(* reload may be overtaken by the walk between its two assignments.        *)
(***************************************************************************)
EXTENDS CslRules

CONSTANTS
  Builtin, Federated,    \* what _load_policies installs, as sequences of policies
  Contexts,              \* what requests are evaluated in
  NewRules, Constraints, \* what rules are added, and what constraints are set
  FailClosed,            \* CSL_FAIL_CLOSED
  MaxEdits               \* bound of the check

Policy(name, rules) == [name |-> name, rules |-> rules]
RulesOf(policies) == UNION {{<<p.name, r>> : r \in ToSet(p.rules)} : p \in ToSet(policies)}

\* A rule whose constraint was set.
Constrained(rule, then) == [rule EXCEPT !.then = then]

\* The rules there can ever be: those installed or added, with any constraint set.
Written == NewRules \cup {s[2] : s \in RulesOf(Builtin \o Federated)}
Rules == Written \cup {Constrained(r, then) : r \in Written, then \in Constraints}
Policies == [name : STRING, rules : Seq(Rules)]

ASSUME ServiceAssumption ==
  /\ FailClosed \in BOOLEAN /\ MaxEdits \in Nat
  /\ Builtin \in Seq(Policies) /\ Federated \in Seq(Policies)
  /\ \A r \in Rules : r.then \in Seq(ToSet(r.then))

VARIABLES
  lists,      \* every list _policies has been bound to; the last is current
  reloading,  \* whether a reload has still to extend the current list
  edits,
  phase,      \* of the evaluation: "none", "walking" or "done"
  ctx, at,    \* its context; the list, policy and rule it comes to next
  failed, raised,
  standing,   \* the rules in force since the evaluation began, unchanged
  seen,       \* the rules in force at some time since
  disturbed   \* whether a rule was deleted since, or it began amid a reload
evaluation == <<phase, ctx, at, failed, raised>>
ghosts == <<standing, seen, disturbed>>
vars == <<lists, reloading, edits, evaluation, ghosts>>

current == lists[Len(lists)]
\* What the service is to enforce: a reload does not suspend the federated rules.
InForce(policies, pending) == RulesOf(policies) \cup (IF pending THEN RulesOf(Federated) ELSE {})

Init ==
  /\ lists = <<Builtin \o Federated>> /\ reloading = FALSE
  /\ edits = 0
  /\ phase = "none" /\ ctx = <<>> /\ at = <<0, 0, 0>>
  /\ failed = {} /\ raised = FALSE
  /\ standing = {} /\ seen = {} /\ disturbed = FALSE

-----------------------------------------------------------------------------
(* evaluate, in its thread *)

\* A mutant of Begin that keeps the violations of the evaluation before.
BeginKeepsFailed ==
  /\ phase # "walking" /\ phase' = "walking"
  /\ ctx' \in Contexts
  /\ at' = <<Len(lists), 1, 1>>
  /\ raised' = FALSE
  /\ standing' = InForce(current, reloading) /\ seen' = standing' /\ disturbed' = reloading
  /\ UNCHANGED <<lists, reloading, edits, failed>>

Begin ==
  /\ phase # "walking" /\ phase' = "walking"
  /\ ctx' \in Contexts
  /\ at' = <<Len(lists), 1, 1>>
  /\ failed' = {} /\ raised' = FALSE
  /\ standing' = InForce(current, reloading) /\ seen' = standing' /\ disturbed' = reloading
  /\ UNCHANGED <<lists, reloading, edits>>

walked == lists[at[1]]

CheckRule ==
  /\ phase = "walking" /\ at[2] <= Len(walked)
  /\ at[3] <= Len(walked[at[2]].rules)
  /\ LET policy == walked[at[2]]
         rule == policy.rules[at[3]]
         outcome == RuleOutcome(ctx, rule)
     IN  /\ failed' = IF outcome = "fails" THEN failed \cup {<<policy.name, rule>>} ELSE failed
         /\ raised' = (outcome = "raises")
         /\ phase' = IF raised' THEN "done" ELSE phase
  /\ at' = [at EXCEPT ![3] = @ + 1]
  /\ UNCHANGED <<lists, reloading, edits, ctx, ghosts>>

NextPolicy ==
  /\ phase = "walking" /\ at[2] <= Len(walked)
  /\ at[3] > Len(walked[at[2]].rules)
  /\ at' = <<at[1], at[2] + 1, 1>>
  /\ UNCHANGED <<lists, reloading, edits, phase, ctx, failed, raised, ghosts>>

Finish ==
  /\ phase = "walking" /\ at[2] > Len(walked)
  /\ phase' = "done"
  /\ UNCHANGED <<lists, reloading, edits, ctx, at, failed, raised, ghosts>>

allow == IF raised THEN ~FailClosed ELSE failed = {}

-----------------------------------------------------------------------------
(* The handlers, in the event loop *)

Names(policy) == {r.name : r \in ToSet(policy.rules)}

\* Edit policy i of the current list so that it has these rules; disturbs says
\* whether rules move to other places.
Install(i, rules, disturbs) ==
  /\ ~reloading /\ edits < MaxEdits /\ edits' = edits + 1
  /\ lists' = [lists EXCEPT ![Len(lists)][i].rules = rules]
  /\ standing' = standing \cap RulesOf(lists'[Len(lists)])
  /\ seen' = seen \cup RulesOf(lists'[Len(lists)])
  /\ disturbed' = (disturbed \/ disturbs)
  /\ UNCHANGED <<reloading, evaluation>>

\* The first policy of that name, and the first rule of that name in it.
PolicyAt(i) == \A j \in 1..i - 1 : current[j].name # current[i].name
RuleAt(i, k) == \A j \in 1..k - 1 : current[i].rules[j].name # current[i].rules[k].name

AddRule ==
  \E i \in DOMAIN current, rule \in NewRules :
    /\ PolicyAt(i) /\ rule.name \notin Names(current[i])
    /\ Install(i, Append(current[i].rules, rule), FALSE)

\* A mutant of UpdateRule that takes the rule out and appends the new one.
UpdateReplaces ==
  \E i \in DOMAIN current : \E k \in DOMAIN current[i].rules, then \in Constraints :
    /\ PolicyAt(i) /\ RuleAt(i, k)
    /\ Install(i, Append(RemoveAt(current[i].rules, k), Constrained(current[i].rules[k], then)), FALSE)

UpdateRule ==
  \E i \in DOMAIN current : \E k \in DOMAIN current[i].rules, then \in Constraints :
    /\ PolicyAt(i) /\ RuleAt(i, k)
    /\ Install(i, [current[i].rules EXCEPT ![k] = Constrained(@, then)], FALSE)

DeleteRule ==
  \E i \in DOMAIN current : \E k \in DOMAIN current[i].rules :
    /\ PolicyAt(i) /\ RuleAt(i, k)
    /\ Install(i, RemoveAt(current[i].rules, k), TRUE)

\* guardian_add_rule: the first policy of the name, and no check.
McpAddRule ==
  \E i \in DOMAIN current, rule \in NewRules :
    /\ PolicyAt(i)
    /\ Install(i, Append(current[i].rules, rule), FALSE)

\* _load_policies binds _policies to a list of the built-in ones ...
Reload ==
  /\ ~reloading /\ edits < MaxEdits /\ edits' = edits + 1
  /\ lists' = Append(lists, Builtin) /\ reloading' = TRUE
  /\ standing' = standing \cap InForce(Builtin, TRUE)
  /\ seen' = seen \cup InForce(Builtin, TRUE)
  /\ UNCHANGED <<evaluation, disturbed>>

\* ... and extends that list by the federated ones.
ExtendFederated ==
  /\ reloading /\ reloading' = FALSE
  /\ lists' = [lists EXCEPT ![Len(lists)] = @ \o Federated]
  /\ UNCHANGED <<edits, evaluation, ghosts>>

Next == \/ Begin \/ CheckRule \/ NextPolicy \/ Finish
        \/ AddRule \/ UpdateRule \/ DeleteRule \/ McpAddRule \/ Reload \/ ExtendFederated

Spec == Init /\ [][Next]_vars

-----------------------------------------------------------------------------
(* Properties *)

\* An evaluation that allows has held the request against every rule that stood
\* unchanged from its beginning to its end, however many rules are added and updated
\* under it and whatever list a reload binds, unless rules moved in the list it walks.
StandingRulesEnforced ==
  phase = "done" /\ allow /\ ~disturbed => \A s \in standing : RuleOutcome(ctx, s[2]) = "holds"

\* "Evaluate all CSL policies against the current state."
\* (CSLPolicyService.evaluate): no edit of other rules makes the walk miss one that
\* stood unchanged.
AllRulesEvaluated ==
  phase = "done" /\ allow => \A s \in standing : RuleOutcome(ctx, s[2]) = "holds"

\* A denial with violations names rules that were in force while it ran and
\* that the request fails: an edit of the lists invents none.
DenialsAreReal ==
  \A s \in failed : s \in seen /\ RuleOutcome(ctx, s[2]) = "fails"

\* "Unique rule name within the policy": the handlers for update and delete find
\* a rule by its name and take the first.
NamesUnique == \A i \in DOMAIN current : Cardinality(Names(current[i])) = Len(current[i].rules)

\* "External agents cannot use MCP tools to modify CARF's policies"
\* (src/docs/INTEGRATION_GUIDE.md).
McpLeavesPolicies == [][McpAddRule => UNCHANGED lists]_vars

\* A rule added in the form guardian_add_rule documents, an amount with an
\* operator and a value, denies a request above that value.
DocumentedRuleBites ==
  phase = "done" /\ allow =>
    \A s \in standing : s[2].name = "documented" => Resolve(ctx, "action.amount")[2] <= 1
===============================================================================
