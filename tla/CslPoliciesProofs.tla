-------------------------- MODULE CslPoliciesProofs --------------------------
(***************************************************************************)
(* Proofs about CslPolicies for any policies, contexts and number of edits: *)
(* an evaluation that allows has held the request against every rule that  *)
(* stood, and one that denies names rules that were in force.              *)
(***************************************************************************)
EXTENDS CslPolicies, TLAPS, FiniteSetTheorems, WellFoundedInduction

\* A set of natural numbers that is not empty has a least element.
LEMMA LeastNatural ==
  ASSUME NEW T \in SUBSET Nat, T # {}
  PROVE  \E n \in T : \A m \in T : n <= m
<1> DEFINE Below(n) == 1..n
           Families == {Below(n) : n \in T}
           R == StrictSubsetOrdering(Nat)
<1>1. Families # {} /\ Families \subseteq FiniteSubsetsOf(Nat)
  <2>1. \A n \in T : IsFiniteSet(Below(n)) /\ Below(n) \subseteq Nat
    BY FS_Interval
  <2> QED
    BY <2>1, Zenon DEF FiniteSubsetsOf
<1>2. IsWellFoundedOn(R, FiniteSubsetsOf(Nat))
  BY FS_StrictSubsetOrderingWellFounded
<1>3. PICK S \in Families : \A U \in Families : <<U, S>> \notin R
  BY <1>1, <1>2, WFMin, Zenon
<1>4. PICK n \in T : S = Below(n)
  OBVIOUS
<1>5. ASSUME NEW m \in T, m < n PROVE FALSE
  <2>1. Below(m) \in Families /\ Below(m) \subseteq Below(n)
    BY <1>5
  <2>2. n \in Below(n) /\ n \notin Below(m)
    BY <1>5
  <2>3. <<Below(m), S>> \in R
    BY <2>1, <2>2, <1>4 DEF StrictSubsetOrdering
  <2> QED
    BY <2>1, <2>3, <1>3
<1> QED
  BY <1>5

\* A rule holds, fails or raises, whatever it is evaluated in.
LEMMA RuleOutcomes ==
  ASSUME NEW c, NEW rule \in Rules
  PROVE  RuleOutcome(c, rule) \in {"holds", "fails", "raises"}
<1>1. \A e : EntryOutcome(c, e) \in {"holds", "fails", "raises"}
  BY Zenon DEF EntryOutcome, Verdict
<1> DEFINE outcomes == [i \in DOMAIN rule.then |-> EntryOutcome(c, rule.then[i])]
           bad == {i \in DOMAIN outcomes : outcomes[i] # "holds"}
<1>2. bad \in SUBSET Nat
  BY ServiceAssumption
<1>3. bad # {} => outcomes[CHOOSE i \in bad : \A j \in bad : i <= j] \in {"holds", "fails", "raises"}
  <2> SUFFICES ASSUME bad # {}
               PROVE  (CHOOSE i \in bad : \A j \in bad : i <= j) \in bad
    BY <1>1
  <2>1. \E i \in bad : \A j \in bad : i <= j
    BY <1>2, LeastNatural, Zenon
  <2> QED
    BY <2>1, Zenon
<1> QED
  BY <1>3, Zenon DEF RuleOutcome

-----------------------------------------------------------------------------
(* The policies stay sequences of policies, and the walk within them. *)

TypeOK ==
  /\ lists \in Seq(Seq(Policies)) /\ lists # <<>>
  /\ reloading \in BOOLEAN /\ raised \in BOOLEAN /\ disturbed \in BOOLEAN
  /\ edits \in Nat
  /\ phase \in {"none", "walking", "done"}
  /\ at \in Nat \X Nat \X Nat
  /\ phase = "walking" => at[1] \in DOMAIN lists /\ at[2] # 0 /\ at[3] # 0

\* Setting a rule's constraint makes a rule again.
LEMMA UpdatedRule ==
  ASSUME NEW rule \in Rules, NEW then \in Constraints
  PROVE  Constrained(rule, then) \in Rules
<1>1. CASE rule \in Written
  BY <1>1 DEF Rules
<1>2. ASSUME NEW r \in Written, NEW t \in Constraints, rule = Constrained(r, t)
      PROVE  Constrained(rule, then) \in Rules
  <2>1. Constrained(rule, then) = Constrained(r, then)
    BY <1>2 DEF Constrained
  <2> QED
    BY <2>1 DEF Rules
<1> QED
  BY <1>1, <1>2 DEF Rules

\* What an edit installs is a list of policies, of which one has other rules.
LEMMA Installed ==
  ASSUME TypeOK, NEW i \in DOMAIN current, NEW rules \in Seq(Rules), NEW disturbs,
         Install(i, rules, disturbs)
  PROVE  /\ lists' \in Seq(Seq(Policies)) /\ Len(lists') = Len(lists)
         /\ \A n \in DOMAIN lists : n # Len(lists) => lists'[n] = lists[n]
         /\ Len(current') = Len(current)
         /\ \A j \in DOMAIN current : current'[j].name = current[j].name
         /\ \A j \in DOMAIN current : j # i => current'[j].rules = current[j].rules
         /\ current'[i].rules = rules
<1>1. /\ current \in Seq(Policies) /\ Len(lists) \in DOMAIN lists
      /\ lists' = [lists EXCEPT ![Len(lists)] = [current EXCEPT ![i] = [current[i] EXCEPT !.rules = rules]]]
  BY DEF TypeOK, current, Install
<1>2. [current[i] EXCEPT !.rules = rules] \in Policies
  <2>1. current[i] \in Policies
    BY <1>1
  <2> QED
    BY <2>1 DEF Policies
<1>3. [current EXCEPT ![i] = [current[i] EXCEPT !.rules = rules]] \in Seq(Policies)
  BY <1>1, <1>2
<1>4. /\ lists' \in Seq(Seq(Policies)) /\ Len(lists') = Len(lists)
      /\ \A n \in DOMAIN lists : n # Len(lists) => lists'[n] = lists[n]
      /\ current' = [current EXCEPT ![i] = [current[i] EXCEPT !.rules = rules]]
  BY <1>1, <1>3 DEF TypeOK, current
<1> QED
  BY <1>1, <1>4 DEF Policies

\* The current list is a list of policies with their rules.
LEMMA CurrentPolicies ==
  ASSUME TypeOK
  PROVE  /\ lists \in Seq(Seq(Policies)) /\ current \in Seq(Policies)
         /\ Len(lists) \in DOMAIN lists
         /\ \A i \in DOMAIN current : current[i].rules \in Seq(Rules)
<1>1. lists \in Seq(Seq(Policies)) /\ current \in Seq(Policies) /\ Len(lists) \in DOMAIN lists
  BY DEF TypeOK, current
<1>2. \A i \in DOMAIN current : current[i] \in Policies
  BY <1>1
<1> QED
  BY <1>1, <1>2 DEF Policies

\* Every edit of a rule installs a sequence of rules.
LEMMA EditsInstall ==
  ASSUME TypeOK, AddRule \/ McpAddRule \/ UpdateRule \/ DeleteRule
  PROVE  \E i \in DOMAIN current : \E rules \in Seq(Rules), disturbs \in BOOLEAN :
           Install(i, rules, disturbs)
<1>1. \A i \in DOMAIN current : current[i].rules \in Seq(Rules)
  BY CurrentPolicies
<1>2. CASE AddRule \/ McpAddRule
  <2>1. PICK i \in DOMAIN current, rule \in NewRules : Install(i, Append(current[i].rules, rule), FALSE)
    BY <1>2 DEF AddRule, McpAddRule
  <2>2. rule \in Rules
    BY DEF Rules, Written
  <2>3. Append(current[i].rules, rule) \in Seq(Rules)
    BY <1>1, <2>2
  <2> QED
    BY <2>1, <2>3
<1>3. CASE UpdateRule
  <2>1. PICK i \in DOMAIN current : \E k \in DOMAIN current[i].rules, then \in Constraints :
          Install(i, [current[i].rules EXCEPT ![k] = Constrained(@, then)], FALSE)
    BY <1>3 DEF UpdateRule
  <2>2. PICK k \in DOMAIN current[i].rules, then \in Constraints :
          Install(i, [current[i].rules EXCEPT ![k] = Constrained(@, then)], FALSE)
    BY <2>1
  <2>3. current[i].rules[k] \in Rules
    BY <1>1
  <2>4. [current[i].rules EXCEPT ![k] = Constrained(@, then)] \in Seq(Rules)
    BY <1>1, <2>3, UpdatedRule
  <2> QED
    BY <2>2, <2>4
<1>4. CASE DeleteRule
  <2>1. PICK i \in DOMAIN current : \E k \in DOMAIN current[i].rules :
          Install(i, RemoveAt(current[i].rules, k), TRUE)
    BY <1>4 DEF DeleteRule
  <2>2. PICK k \in DOMAIN current[i].rules : Install(i, RemoveAt(current[i].rules, k), TRUE)
    BY <2>1
  <2>3. RemoveAt(current[i].rules, k) \in Seq(Rules)
    BY <1>1 DEF RemoveAt
  <2> QED
    BY <2>2, <2>3
<1> QED
  BY <1>2, <1>3, <1>4

\* The rules of a list are those at its places.
LEMMA RulesAtPlaces ==
  ASSUME NEW ps, NEW s
  PROVE  s \in RulesOf(ps) <=>
           \E i \in DOMAIN ps : \E k \in DOMAIN ps[i].rules : s = <<ps[i].name, ps[i].rules[k]>>
BY DEF RulesOf, ToSet

THEOREM TypeCorrect == Spec => []TypeOK
<1>1. Init => TypeOK
  <2>1. Builtin \o Federated \in Seq(Policies)
    BY ServiceAssumption
  <2>2. <<Builtin \o Federated>> \in Seq(Seq(Policies)) /\ <<Builtin \o Federated>> # <<>>
    BY <2>1
  <2>3. <<0, 0, 0>> \in Nat \X Nat \X Nat
    OBVIOUS
  <2> QED
    BY <2>2, <2>3 DEF Init, TypeOK
<1>2. TypeOK /\ [Next]_vars => TypeOK'
  <2> SUFFICES ASSUME TypeOK, [Next]_vars PROVE TypeOK'
    OBVIOUS
  <2>0. /\ current \in Seq(Policies) /\ Len(lists) \in DOMAIN lists
        /\ \A i \in DOMAIN current : current[i].rules \in Seq(Rules)
    BY CurrentPolicies
  <2>1. ASSUME NEW i \in DOMAIN current, NEW rules \in Seq(Rules), NEW disturbs \in BOOLEAN,
               Install(i, rules, disturbs)
        PROVE  TypeOK'
    <3>1. lists' \in Seq(Seq(Policies)) /\ Len(lists') = Len(lists)
      BY <2>1, Installed
    <3>2. /\ edits' = edits + 1 /\ reloading' = reloading /\ disturbed' = (disturbed \/ disturbs)
          /\ phase' = phase /\ at' = at /\ raised' = raised
      BY <2>1 DEF Install, evaluation
    <3> QED
      BY <3>1, <3>2 DEF TypeOK
  <2>2. CASE Begin
    <3>1. /\ lists' = lists /\ reloading' = reloading /\ edits' = edits /\ phase' = "walking"
          /\ at' = <<Len(lists), 1, 1>> /\ raised' = FALSE /\ disturbed' = reloading
      BY <2>2 DEF Begin
    <3>2. at' \in Nat \X Nat \X Nat /\ at'[1] \in DOMAIN lists /\ at'[2] # 0 /\ at'[3] # 0
      BY <2>0, <3>1
    <3> QED
      BY <3>1, <3>2 DEF TypeOK
  <2>3. CASE CheckRule
    BY <2>3 DEF CheckRule, TypeOK, ghosts
  <2>4. CASE NextPolicy
    BY <2>4 DEF NextPolicy, TypeOK, ghosts
  <2>5. CASE Finish
    BY <2>5 DEF Finish, TypeOK, ghosts
  <2>6. CASE AddRule \/ McpAddRule \/ UpdateRule \/ DeleteRule
    BY <2>1, <2>6, EditsInstall
  <2>7. CASE Reload
    BY <2>7, ServiceAssumption DEF Reload, TypeOK, evaluation
  <2>8. CASE ExtendFederated
    <3>1. current \o Federated \in Seq(Policies)
      BY <2>0, ServiceAssumption
    <3>2. lists' = [lists EXCEPT ![Len(lists)] = current \o Federated]
      BY <2>8 DEF ExtendFederated, current
    <3>3. lists' \in Seq(Seq(Policies)) /\ Len(lists') = Len(lists) /\ lists' # <<>>
      BY <2>0, <3>1, <3>2 DEF TypeOK
    <3> QED
      BY <2>8, <3>3 DEF ExtendFederated, TypeOK, evaluation, ghosts
  <2>9. CASE UNCHANGED vars
    BY <2>9 DEF vars, TypeOK, evaluation, ghosts
  <2> QED
    BY <2>2, <2>3, <2>4, <2>5, <2>6, <2>7, <2>8, <2>9 DEF Next
<1> QED
  BY <1>1, <1>2, PTL DEF Spec

-----------------------------------------------------------------------------
(* What holds while the walk is under way, so that at its end it has missed  *)
(* no rule that stood and found fault with none that was not in force.       *)

\* A rule that the walk has not come to.
Ahead(s) ==
  \E i \in DOMAIN walked : \E k \in DOMAIN walked[i].rules :
    /\ s = <<walked[i].name, walked[i].rules[k]>>
    /\ i > at[2] \/ (i = at[2] /\ k >= at[3])

Enforced(s) == RuleOutcome(ctx, s[2]) = "holds" \/ failed # {}

StillEnforced == phase = "walking" /\ ~disturbed => \A s \in standing : Ahead(s) \/ Enforced(s)
WasEnforced == phase = "done" /\ ~raised /\ ~disturbed => \A s \in standing : Enforced(s)
WalkedWasInForce ==
  phase = "walking" =>
    RulesOf(walked) \subseteq seen /\ (reloading => RulesOf(Federated) \subseteq seen)

\* An edit that moves no rule leaves ahead what was ahead: the policy and the rule
\* it changes are the first of their names, so that a rule that is in force after it
\* is still where it was or at a later place.
LEMMA EditKeepsAhead ==
  ASSUME TypeOK, phase = "walking", NEW i \in DOMAIN current, NEW rules \in Seq(Rules),
         NEW disturbs, Install(i, rules, disturbs),
         \A k \in DOMAIN current[i].rules :
           /\ k \in DOMAIN rules
           /\ rules[k] # current[i].rules[k] =>
                /\ PolicyAt(i) /\ RuleAt(i, k)
                /\ DOMAIN rules = DOMAIN current[i].rules
                /\ \A j \in DOMAIN rules : j # k => rules[j] = current[i].rules[j],
         NEW s, Ahead(s), s \in RulesOf(current')
  PROVE  Ahead(s)'
<1>1. /\ at' = at /\ at[1] \in DOMAIN lists /\ Len(lists') = Len(lists)
      /\ at \in Nat \X Nat \X Nat /\ DOMAIN lists = 1..Len(lists)
  BY Installed DEF Install, evaluation, TypeOK
<1>2. CASE at[1] # Len(lists)
  <2>1. walked' = walked
    BY <1>1, <1>2, Installed DEF walked
  <2> QED
    BY <1>1, <2>1 DEF Ahead
<1>3. CASE at[1] = Len(lists)
  <2>1. walked = current /\ walked' = current'
    BY <1>1, <1>3 DEF walked, current
  <2>2. /\ current \in Seq(Policies) /\ current' \in Seq(Policies)
    BY <1>1, Installed DEF TypeOK, current
  <2>3. /\ DOMAIN current' = DOMAIN current /\ DOMAIN current = 1..Len(current)
        /\ \A j \in DOMAIN current : current[j].rules \in Seq(Rules) /\ current'[j].rules \in Seq(Rules)
    <3>1. DOMAIN current' = DOMAIN current /\ DOMAIN current = 1..Len(current)
      BY <2>2, Installed
    <3>2. \A j \in DOMAIN current : current[j] \in Policies /\ current'[j] \in Policies
      BY <2>2, <3>1
    <3> QED
      BY <3>1, <3>2 DEF Policies
  <2>4. PICK j \in DOMAIN current : \E k \in DOMAIN current[j].rules :
               /\ s = <<current[j].name, current[j].rules[k]>>
               /\ j > at[2] \/ (j = at[2] /\ k >= at[3])
    BY <2>1 DEF Ahead
  <2>5. PICK k \in DOMAIN current[j].rules :
               /\ s = <<current[j].name, current[j].rules[k]>>
               /\ j > at[2] \/ (j = at[2] /\ k >= at[3])
    BY <2>4
  <2>6. PICK l \in DOMAIN current' : \E m \in DOMAIN current'[l].rules :
               s = <<current'[l].name, current'[l].rules[m]>>
    BY RulesAtPlaces
  <2>7. PICK m \in DOMAIN current'[l].rules : s = <<current'[l].name, current'[l].rules[m]>>
    BY <2>6
  <2>8. i \in Int /\ j \in Int /\ k \in Int /\ l \in Int /\ m \in Int /\ at[2] \in Int /\ at[3] \in Int
    <3>1. DOMAIN current[j].rules = 1..Len(current[j].rules)
          /\ DOMAIN current'[l].rules = 1..Len(current'[l].rules)
      BY <2>3
    <3>2. i \in 1..Len(current) /\ j \in 1..Len(current) /\ l \in 1..Len(current)
      BY <2>3
    <3> QED
      BY <1>1, <3>1, <3>2
  <2>9. current'[j].name = current[j].name /\ current'[l].name = current[l].name
    BY <2>3, Installed
  <2>10. CASE j # i
    <3>1. current'[j].rules = current[j].rules
      BY <2>10, Installed
    <3> QED
      BY <1>1, <2>1, <2>3, <2>5, <2>9, <3>1 DEF Ahead
  <2>11. CASE j = i /\ rules[k] = current[i].rules[k]
    <3>1. current'[i].rules = rules /\ k \in DOMAIN rules
      BY <2>5, <2>11, Installed
    <3> QED
      BY <1>1, <2>1, <2>3, <2>5, <2>9, <2>11, <3>1 DEF Ahead
  <2>12. CASE j = i /\ rules[k] # current[i].rules[k]
    <3>1. /\ current'[i].rules = rules /\ PolicyAt(i) /\ RuleAt(i, k)
          /\ DOMAIN rules = DOMAIN current[i].rules
          /\ \A n \in DOMAIN rules : n # k => rules[n] = current[i].rules[n]
      BY <2>5, <2>12, Installed
    <3>2. current[l].name = current[i].name /\ current'[l].rules[m] = current[i].rules[k]
      BY <2>5, <2>7, <2>9, <2>12
    <3>3. ~(l < i)
      BY <2>3, <2>8, <3>1, <3>2 DEF PolicyAt
    <3>4. CASE l = i
      <4>1. m # k /\ m \in DOMAIN rules /\ rules[m] = current[i].rules[m]
        BY <2>7, <2>12, <3>1, <3>2, <3>4
      <4>2. DOMAIN current[i].rules = 1..Len(current[i].rules) /\ Len(current[i].rules) \in Nat
        BY <2>3
      <4>3. m > k
        BY <2>5, <2>12, <3>1, <3>2, <3>4, <4>1, <4>2 DEF RuleAt
      <4>4. l \in DOMAIN walked' /\ m \in DOMAIN walked'[l].rules
            /\ s = <<walked'[l].name, walked'[l].rules[m]>>
        BY <2>1, <2>7
      <4>5. l > at'[2] \/ (l = at'[2] /\ m >= at'[3])
        BY <1>1, <2>5, <2>12, <2>8, <3>4, <4>3
      <4> QED
        BY <4>4, <4>5 DEF Ahead
    <3>5. CASE l > i
      <4>1. l \in DOMAIN walked' /\ m \in DOMAIN walked'[l].rules
            /\ s = <<walked'[l].name, walked'[l].rules[m]>>
        BY <2>1, <2>7
      <4>2. l > at'[2]
        BY <1>1, <2>5, <2>12, <2>8, <3>5
      <4> QED
        BY <4>1, <4>2 DEF Ahead
    <3> QED
      BY <2>3, <3>3, <3>4, <3>5
  <2> QED
    BY <2>10, <2>11, <2>12
<1> QED
  BY <1>2, <1>3

\* Setting a rule's constraint, or appending a rule, moves none.
LEMMA EditKeepsPromise ==
  ASSUME TypeOK, StillEnforced, WasEnforced, AddRule \/ McpAddRule \/ UpdateRule
  PROVE  StillEnforced' /\ WasEnforced'
<1>1. /\ current \in Seq(Policies)
      /\ \A i \in DOMAIN current : current[i].rules \in Seq(Rules)
  BY CurrentPolicies
<1>2. ASSUME NEW i \in DOMAIN current, NEW rules \in Seq(Rules), Install(i, rules, FALSE),
             \A k \in DOMAIN current[i].rules :
               /\ k \in DOMAIN rules
               /\ rules[k] # current[i].rules[k] =>
                    /\ PolicyAt(i) /\ RuleAt(i, k)
                    /\ DOMAIN rules = DOMAIN current[i].rules
                    /\ \A j \in DOMAIN rules : j # k => rules[j] = current[i].rules[j]
      PROVE  StillEnforced' /\ WasEnforced'
  <2>1. /\ phase' = phase /\ ctx' = ctx /\ failed' = failed /\ raised' = raised
        /\ disturbed' = disturbed /\ Len(lists') = Len(lists)
        /\ standing' = standing \cap RulesOf(lists'[Len(lists)])
    BY <1>2, Installed DEF Install, evaluation, TypeOK
  <2>2. standing' \subseteq standing /\ \A s \in standing' : s \in RulesOf(current')
    BY <2>1 DEF current
  <2>3. \A s : Enforced(s) <=> Enforced(s)'
    BY <2>1 DEF Enforced
  <2>4. ASSUME NEW s \in standing', phase = "walking", Ahead(s)
        PROVE  Ahead(s)'
    BY <1>2, <2>2, <2>4, EditKeepsAhead
  <2> QED
    BY <2>1, <2>2, <2>3, <2>4 DEF StillEnforced, WasEnforced
<1>3. CASE AddRule \/ McpAddRule
  <2>1. PICK i \in DOMAIN current, rule \in NewRules : Install(i, Append(current[i].rules, rule), FALSE)
    BY <1>3 DEF AddRule, McpAddRule
  <2> DEFINE rules == Append(current[i].rules, rule)
  <2>2. rules \in Seq(Rules)
    <3>1. rule \in Rules
      BY DEF Rules, Written
    <3> QED
      BY <1>1, <3>1
  <2>3. \A k \in DOMAIN current[i].rules : k \in DOMAIN rules /\ rules[k] = current[i].rules[k]
    BY <1>1
  <2> HIDE DEF rules
  <2> QED
    BY <1>2, <2>1, <2>2, <2>3 DEF rules
<1>4. CASE UpdateRule
  <2>1. PICK i \in DOMAIN current : \E k \in DOMAIN current[i].rules, then \in Constraints :
          /\ PolicyAt(i) /\ RuleAt(i, k)
          /\ Install(i, [current[i].rules EXCEPT ![k] = Constrained(@, then)], FALSE)
    BY <1>4 DEF UpdateRule
  <2>2. PICK k \in DOMAIN current[i].rules, then \in Constraints :
          /\ PolicyAt(i) /\ RuleAt(i, k)
          /\ Install(i, [current[i].rules EXCEPT ![k] = Constrained(@, then)], FALSE)
    BY <2>1
  <2> DEFINE rules == [current[i].rules EXCEPT ![k] = Constrained(@, then)]
  <2>3. rules \in Seq(Rules)
    <3>1. current[i].rules[k] \in Rules
      BY <1>1
    <3>2. Constrained(current[i].rules[k], then) \in Rules
      BY <3>1, UpdatedRule
    <3> QED
      BY <1>1, <3>2
  <2>4. /\ DOMAIN rules = DOMAIN current[i].rules
        /\ \A j \in DOMAIN rules : j # k => rules[j] = current[i].rules[j]
    BY <1>1
  <2> HIDE DEF rules
  <2> QED
    BY <1>2, <2>2, <2>3, <2>4 DEF rules
<1> QED
  BY <1>3, <1>4

\* At the end of the walk nothing is ahead, and what it comes to it evaluates.
LEMMA WalkKeepsPromise ==
  ASSUME TypeOK, StillEnforced, WasEnforced, CheckRule \/ NextPolicy \/ Finish
  PROVE  StillEnforced' /\ WasEnforced'
<1>1. /\ phase = "walking" /\ walked \in Seq(Policies) /\ walked' = walked /\ ctx' = ctx
      /\ standing' = standing /\ disturbed' = disturbed
      /\ at \in Nat \X Nat \X Nat /\ at[2] # 0 /\ at[3] # 0
  BY DEF CheckRule, NextPolicy, Finish, ghosts, TypeOK, walked
<1>2. \A i \in DOMAIN walked : i \in Int /\ i <= Len(walked) /\ walked[i] \in Policies
  BY <1>1
<1>3. \A i \in DOMAIN walked : walked[i].rules \in Seq(Rules)
  BY <1>2 DEF Policies
<1>4. \A i \in DOMAIN walked : \A k \in DOMAIN walked[i].rules :
        k \in Int /\ 1 <= k /\ k <= Len(walked[i].rules)
  BY <1>3
<1>5. CASE CheckRule
  <2> DEFINE policy == walked[at[2]]
             rule == policy.rules[at[3]]
             outcome == RuleOutcome(ctx, rule)
  <2>1. /\ failed' = IF outcome = "fails" THEN failed \cup {<<policy.name, rule>>} ELSE failed
        /\ raised' = (outcome = "raises") /\ phase' = IF raised' THEN "done" ELSE phase
        /\ at[2] <= Len(walked) /\ at[3] <= Len(policy.rules)
        /\ at' = [at EXCEPT ![3] = @ + 1]
    BY <1>5 DEF CheckRule
  <2>2. at[2] \in DOMAIN walked /\ policy.rules \in Seq(Rules)
    BY <1>1, <1>3, <2>1
  <2>3. rule \in Rules
    BY <1>1, <2>1, <2>2
  <2>4. outcome \in {"holds", "fails", "raises"}
    BY <2>3, RuleOutcomes
  <2>5. at'[2] = at[2] /\ at'[3] = at[3] + 1
    BY <1>1, <2>1
  <2> HIDE DEF outcome
  <2>6. ASSUME NEW s \in standing, Ahead(s), ~raised'
        PROVE  Ahead(s)' \/ Enforced(s)'
    <3>1. PICK i \in DOMAIN walked : \E k \in DOMAIN walked[i].rules :
                 /\ s = <<walked[i].name, walked[i].rules[k]>>
                 /\ i > at[2] \/ (i = at[2] /\ k >= at[3])
      BY <2>6 DEF Ahead
    <3>2. PICK k \in DOMAIN walked[i].rules :
                 /\ s = <<walked[i].name, walked[i].rules[k]>>
                 /\ i > at[2] \/ (i = at[2] /\ k >= at[3])
      BY <3>1
    <3>3. CASE i = at[2] /\ k = at[3]
      <4>1. RuleOutcome(ctx, s[2]) = outcome
        BY <3>2, <3>3 DEF outcome
      <4> QED
        BY <1>1, <2>1, <2>4, <2>6, <4>1 DEF Enforced
    <3>4. CASE ~(i = at[2] /\ k = at[3])
      <4>1. i > at'[2] \/ (i = at'[2] /\ k >= at'[3])
        BY <1>1, <1>2, <1>4, <2>5, <3>2, <3>4
      <4> QED
        BY <1>1, <3>2, <4>1 DEF Ahead
    <3> QED
      BY <3>3, <3>4
  <2>7. \A s : Enforced(s) => Enforced(s)'
    BY <1>1, <2>1 DEF Enforced
  <2> QED
    BY <1>1, <2>1, <2>6, <2>7 DEF StillEnforced, WasEnforced
<1>6. CASE NextPolicy
  <2>1. /\ at' = <<at[1], at[2] + 1, 1>> /\ at[3] > Len(walked[at[2]].rules)
        /\ failed' = failed /\ phase' = phase
    BY <1>6 DEF NextPolicy
  <2>2. at'[2] = at[2] + 1 /\ at'[3] = 1
    BY <2>1
  <2>3. ASSUME NEW s, Ahead(s)
        PROVE  Ahead(s)'
    <3>1. PICK i \in DOMAIN walked : \E k \in DOMAIN walked[i].rules :
                 /\ s = <<walked[i].name, walked[i].rules[k]>>
                 /\ i > at[2] \/ (i = at[2] /\ k >= at[3])
      BY <2>3 DEF Ahead
    <3>2. PICK k \in DOMAIN walked[i].rules :
                 /\ s = <<walked[i].name, walked[i].rules[k]>>
                 /\ i > at[2] \/ (i = at[2] /\ k >= at[3])
      BY <3>1
    <3>3. Len(walked[i].rules) \in Int
      BY <1>3
    <3>4. i > at[2]
      BY <1>1, <1>2, <1>4, <2>1, <3>2, <3>3
    <3>5. i > at'[2] \/ (i = at'[2] /\ k >= at'[3])
      BY <1>1, <1>2, <1>4, <2>2, <3>4
    <3> QED
      BY <1>1, <3>2, <3>5 DEF Ahead
  <2> QED
    BY <1>1, <2>1, <2>3 DEF StillEnforced, WasEnforced, Enforced
<1>7. CASE Finish
  <2>1. at[2] > Len(walked) /\ failed' = failed /\ phase' = "done"
    BY <1>7 DEF Finish
  <2>2. \A s : ~Ahead(s)
    BY <1>1, <1>2, <2>1 DEF Ahead
  <2> QED
    BY <1>1, <2>1, <2>2 DEF StillEnforced, WasEnforced, Enforced
<1> QED
  BY <1>5, <1>6, <1>7

\* An evaluation that allows has held the request against every rule that stood
\* unchanged from its beginning to its end (CSLPolicyService.evaluate in its thread,
\* add_rule, update_rule, delete_rule and reload in the event loop), for any
\* policies, requests and edits; with an exception the request is let through
\* unless the service fails closed.
THEOREM StandingRulesAreEnforced ==
  ASSUME FailClosed
  PROVE  Spec => []StandingRulesEnforced
<1>1. Init => StillEnforced /\ WasEnforced
  BY DEF Init, StillEnforced, WasEnforced
<1>2. TypeOK /\ StillEnforced /\ WasEnforced /\ [Next]_vars => StillEnforced' /\ WasEnforced'
  <2> SUFFICES ASSUME TypeOK, StillEnforced, WasEnforced, [Next]_vars
               PROVE  StillEnforced' /\ WasEnforced'
    OBVIOUS
  <2>1. CASE Begin
    <3>1. /\ phase' = "walking" /\ disturbed' = reloading /\ lists' = lists
          /\ at' = <<Len(lists), 1, 1>> /\ standing' = InForce(current, reloading)
      BY <2>1 DEF Begin
    <3>2. walked' = current /\ at'[2] = 1 /\ at'[3] = 1
      BY <3>1 DEF walked, current
    <3>3. current \in Seq(Policies)
      BY DEF TypeOK, current
    <3>4. \A i \in DOMAIN current : i \in Int /\ 1 <= i /\ current[i] \in Policies
      BY <3>3
    <3>5. \A i \in DOMAIN current : \A k \in DOMAIN current[i].rules : k \in Int /\ 1 <= k
      BY <3>4 DEF Policies
    <3>6. ASSUME NEW s \in RulesOf(current)
          PROVE  Ahead(s)'
      BY <3>2, <3>4, <3>5, RulesAtPlaces DEF Ahead
    <3> QED
      BY <3>1, <3>6 DEF StillEnforced, WasEnforced, InForce
  <2>2. CASE CheckRule \/ NextPolicy \/ Finish
    BY <2>2, WalkKeepsPromise
  <2>3. CASE AddRule \/ McpAddRule \/ UpdateRule
    BY <2>3, EditKeepsPromise
  <2>4. CASE DeleteRule
    BY <2>4 DEF DeleteRule, Install, StillEnforced, WasEnforced
  <2>5. CASE Reload \/ ExtendFederated
    <3>1. /\ phase' = phase /\ at' = at /\ ctx' = ctx /\ failed' = failed /\ raised' = raised
          /\ disturbed' = disturbed /\ standing' \subseteq standing
      BY <2>5 DEF Reload, ExtendFederated, evaluation, ghosts
    <3>2. ASSUME NEW s, phase = "walking", Ahead(s)
          PROVE  Ahead(s)'
      <4>1. at[1] \in DOMAIN lists /\ lists \in Seq(Seq(Policies)) /\ walked \in Seq(Policies)
        BY <3>2 DEF TypeOK, walked
      <4>2. \/ walked' = walked
            \/ walked' = walked \o Federated
        <5>1. CASE lists' = Append(lists, Builtin)
          BY <3>1, <4>1, <5>1 DEF walked
        <5>2. CASE lists' = [lists EXCEPT ![Len(lists)] = @ \o Federated]
          BY <3>1, <4>1, <5>2 DEF walked
        <5> QED
          BY <2>5, <5>1, <5>2 DEF Reload, ExtendFederated
      <4>3. /\ DOMAIN walked \subseteq DOMAIN walked'
            /\ \A i \in DOMAIN walked : walked'[i] = walked[i]
        <5>1. Federated \in Seq(Policies)
          BY ServiceAssumption
        <5> HIDE DEF walked
        <5>2. CASE walked' = walked \o Federated
          <6> DEFINE w == walked \o Federated
          <6>1. DOMAIN walked \subseteq DOMAIN w /\ \A i \in DOMAIN walked : w[i] = walked[i]
            BY <4>1, <5>1
          <6> QED
            BY <5>2, <6>1
        <5> QED
          BY <4>2, <5>2
      <4> QED
        BY <3>1, <3>2, <4>3 DEF Ahead
    <3> QED
      BY <3>1, <3>2 DEF StillEnforced, WasEnforced, Enforced
  <2>6. CASE UNCHANGED vars
    BY <2>6 DEF vars, evaluation, ghosts, StillEnforced, WasEnforced, Enforced, Ahead, walked
  <2> QED
    BY <2>1, <2>2, <2>3, <2>4, <2>5, <2>6 DEF Next
<1>3. WasEnforced /\ TypeOK => StandingRulesEnforced
  BY DEF WasEnforced, StandingRulesEnforced, Enforced, allow, TypeOK
<1> QED
  BY <1>1, <1>2, <1>3, TypeCorrect, PTL DEF Spec

\* A denial with violations names rules that were in force while it ran and that
\* the request fails, whatever is added, updated, deleted or reloaded under it: the
\* lists the walk reads hold nothing else.
THEOREM DenialsNameRulesInForce == Spec => []DenialsAreReal
<1>1. Init => WalkedWasInForce /\ DenialsAreReal
  BY DEF Init, WalkedWasInForce, DenialsAreReal
<1>2. TypeOK /\ WalkedWasInForce /\ DenialsAreReal /\ [Next]_vars => WalkedWasInForce' /\ DenialsAreReal'
  <2> SUFFICES ASSUME TypeOK, WalkedWasInForce, DenialsAreReal, [Next]_vars
               PROVE  WalkedWasInForce' /\ DenialsAreReal'
    OBVIOUS
  <2>0. /\ lists \in Seq(Seq(Policies)) /\ current \in Seq(Policies) /\ Len(lists) \in DOMAIN lists
    BY CurrentPolicies
  <2>1. CASE Begin
    <3>1. walked' = current /\ RulesOf(current) \subseteq seen' /\ failed' = {}
          /\ (reloading' => RulesOf(Federated) \subseteq seen')
      BY <2>1 DEF Begin, InForce, walked, current
    <3> QED
      BY <3>1 DEF WalkedWasInForce, DenialsAreReal
  <2>2. CASE CheckRule
    <3> DEFINE policy == walked[at[2]]
               rule == policy.rules[at[3]]
    <3>1. /\ phase = "walking" /\ walked' = walked /\ seen' = seen /\ reloading' = reloading /\ ctx' = ctx
          /\ failed' = IF RuleOutcome(ctx, rule) = "fails" THEN failed \cup {<<policy.name, rule>>} ELSE failed
          /\ at[2] <= Len(walked) /\ at[3] <= Len(policy.rules)
      BY <2>2 DEF CheckRule, ghosts, walked, TypeOK
    <3>2. walked \in Seq(Policies) /\ at \in Nat \X Nat \X Nat /\ at[2] # 0 /\ at[3] # 0
      BY <3>1 DEF TypeOK, walked
    <3>3. at[2] \in DOMAIN walked /\ policy \in Policies
      BY <3>1, <3>2
    <3>4. at[3] \in DOMAIN policy.rules
      BY <3>1, <3>2, <3>3 DEF Policies
    <3> HIDE DEF rule, policy
    <3>5. <<policy.name, rule>> \in seen
      BY <3>1, <3>3, <3>4, RulesAtPlaces DEF WalkedWasInForce, rule, policy
    <3> QED
      BY <3>1, <3>5 DEF WalkedWasInForce, DenialsAreReal
  <2>3. CASE NextPolicy \/ Finish
    BY <2>3 DEF NextPolicy, Finish, ghosts, WalkedWasInForce, DenialsAreReal, walked, TypeOK
  <2>4. ASSUME NEW i \in DOMAIN current, NEW rules \in Seq(Rules), NEW disturbs,
               Install(i, rules, disturbs)
        PROVE  WalkedWasInForce' /\ DenialsAreReal'
    <3>1. /\ phase' = phase /\ at' = at /\ ctx' = ctx /\ failed' = failed /\ ~reloading'
          /\ Len(lists') = Len(lists) /\ seen' = seen \cup RulesOf(current')
      BY <2>4, Installed DEF Install, evaluation, current
    <3>2. phase = "walking" => RulesOf(walked') \subseteq seen'
      <4> SUFFICES ASSUME phase = "walking" PROVE RulesOf(walked') \subseteq seen'
        OBVIOUS
      <4>1. at[1] \in DOMAIN lists
        BY DEF TypeOK
      <4>2. walked' = walked \/ walked' = current'
        BY <2>4, <3>1, <4>1, Installed DEF walked, current
      <4> QED
        BY <3>1, <4>2 DEF WalkedWasInForce
    <3> QED
      BY <3>1, <3>2 DEF WalkedWasInForce, DenialsAreReal
  <2>5. CASE AddRule \/ McpAddRule \/ UpdateRule \/ DeleteRule
    BY <2>4, <2>5, EditsInstall
  <2>6. CASE Reload
    <3>1. /\ phase' = phase /\ at' = at /\ ctx' = ctx /\ failed' = failed
          /\ lists' = Append(lists, Builtin) /\ seen' = seen \cup InForce(Builtin, TRUE)
      BY <2>6 DEF Reload, evaluation
    <3>2. phase = "walking" => walked' = walked
      BY <2>0, <3>1 DEF TypeOK, walked
    <3> QED
      BY <3>1, <3>2 DEF WalkedWasInForce, DenialsAreReal, InForce
  <2>7. CASE ExtendFederated
    <3>1. /\ phase' = phase /\ at' = at /\ ctx' = ctx /\ failed' = failed /\ seen' = seen
          /\ reloading /\ ~reloading' /\ lists' = [lists EXCEPT ![Len(lists)] = current \o Federated]
      BY <2>7 DEF ExtendFederated, evaluation, ghosts, current
    <3>2. ASSUME phase = "walking" PROVE RulesOf(walked') \subseteq RulesOf(walked) \cup RulesOf(Federated)
      <4>1. walked' = walked \/ (walked = current /\ walked' = current \o Federated)
        BY <2>0, <3>1, <3>2 DEF TypeOK, walked, current
      <4>2. RulesOf(current \o Federated) \subseteq RulesOf(current) \cup RulesOf(Federated)
        <5>1. Federated \in Seq(Policies)
          BY ServiceAssumption
        <5>2. \A p \in ToSet(current \o Federated) : p \in ToSet(current) \/ p \in ToSet(Federated)
          BY <2>0, <5>1 DEF ToSet
        <5> QED
          BY <5>2 DEF RulesOf
      <4> QED
        BY <4>1, <4>2
    <3> QED
      BY <3>1, <3>2 DEF WalkedWasInForce, DenialsAreReal
  <2>8. CASE UNCHANGED vars
    BY <2>8 DEF vars, evaluation, ghosts, WalkedWasInForce, DenialsAreReal, walked
  <2> QED
    BY <2>1, <2>2, <2>3, <2>5, <2>6, <2>7, <2>8 DEF Next
<1> QED
  BY <1>1, <1>2, TypeCorrect, PTL DEF Spec
=============================================================================
