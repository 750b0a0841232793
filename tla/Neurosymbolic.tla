---------------------------- MODULE Neurosymbolic ----------------------------
(***************************************************************************)
(* One run of the neurosymbolic loop (src/src/services/                    *)
(* neurosymbolic_engine.py): facts come from the knowledge graph and, in   *)
(* every iteration, from a language model; rules derive more by forward    *)
(* chaining; the model concludes and is corrected; the conclusion is       *)
(* searched for steps it skipped.  A run has a knowledge base of its own,  *)
(* copied from the engine's, so runs do not meet.                          *)
(*                                                                         *)
(* Values are integers, of which only Numbers parse as such; confidences   *)
(* are in ten-thousandths.  Facts stand in the order of their insertion.   *)
(***************************************************************************)
EXTENDS Integers, FiniteSets, SequencesExt

CONSTANTS
  Rules,        \* the knowledge base's, in order; some restrict: they conclude reject, deny, block or enforce
  GraphFacts,   \* what grounding may find: sequences of facts
  Extractions,  \* what the language model may extract: sequences of facts
  Numbers, Substrings,  \* the values that parse, the pairs of which one contains the other
  MaxRounds, MaxIterations  \* 10 and 3 in the code

VARIABLES
  stage,      \* idle, extracting, deepening, correcting, done or validated
  iteration,
  facts,      \* of the run
  given,      \* what facts were given to it, as pairs of attribute and value
  derived,    \* how many facts it derived
  grounding,  \* how many facts the graph gave it
  fresh,      \* this iteration extracted or derived something
  quiet,      \* its forward chaining ended with a round that derived nothing
  reasoned    \* its warnings and its confidence
reasonVars == <<stage, iteration, facts, given, derived, grounding, fresh, quiet, reasoned>>

NoAnswer == [warnings |-> {}, confidence |-> 0]

Init ==
  /\ stage = "idle" /\ iteration = 0
  /\ facts = <<>> /\ given = {} /\ derived = 0 /\ grounding = 0
  /\ fresh = FALSE /\ quiet = TRUE
  /\ reasoned = NoAnswer

-----------------------------------------------------------------------------
(* The knowledge base *)

\* RuleCondition: a value that does not parse satisfies no comparison.
Satisfies(value, cond) ==
  CASE cond.operator = "==" -> value = cond.value
    [] cond.operator = "!=" -> value # cond.value
    [] cond.operator = "contains" -> value = cond.value \/ <<value, cond.value>> \in Substrings
    [] OTHER ->
         /\ {value, cond.value} \subseteq Numbers
         /\ CASE cond.operator = "<" -> value < cond.value
              [] cond.operator = "<=" -> value <= cond.value
              [] cond.operator = ">" -> value > cond.value
              [] cond.operator = ">=" -> value >= cond.value

\* SymbolicRule.evaluate, of pairs of an attribute and a value.
Holds(rule, pairs) ==
  \A c \in ToSet(rule.conditions) :
    \E p \in pairs : p[1] = c.attribute /\ Satisfies(p[2], c)

Pairs(s) == {<<f.attribute, f.value>> : f \in ToSet(s)}

\* add_fact: a fact already there is replaced where it stands, if less certain.
AddFact(s, f) ==
  LET same == {i \in DOMAIN s : /\ s[i].entity = f.entity
                                /\ s[i].attribute = f.attribute /\ s[i].value = f.value}
  IN  IF same = {} THEN Append(s, f)
      ELSE [i \in DOMAIN s |-> IF i \in same /\ f.confidence > s[i].confidence THEN f ELSE s[i]]

AddFacts(s, new) ==
  LET after[i \in 0..Len(new)] == IF i = 0 THEN s ELSE AddFact(after[i - 1], new[i])
  IN  after[Len(new)]

\* The entity a conclusion is about: that of the first fact with the attribute
\* of the first condition for which it is not the system.
About(rule, s) ==
  LET first(c) == LET i == SelectInSeq(s, LAMBDA f : f.attribute = c.attribute)
                  IN  IF i = 0 THEN "system" ELSE s[i].entity
      named == SelectInSeq(rule.conditions, LAMBDA c : first(c) # "system")
  IN  IF named = 0 THEN "system" ELSE first(rule.conditions[named])

\* A mutant of Fire: the round is judged by its last rule alone.
FireForgets(st, rule) ==
  LET f == [entity |-> About(rule, st.facts), attribute |-> rule.attribute, value |-> rule.value,
            confidence |-> (95 * rule.confidence) \div 100, source |-> "rule"]
      next == IF Holds(rule, Pairs(st.facts)) THEN AddFact(st.facts, f) ELSE st.facts
  IN  [st EXCEPT !.facts = next, !.added = next # st.facts,
                 !.derived = @ + (IF next # st.facts THEN 1 ELSE 0)]

Fire(st, rule) ==
  LET f == [entity |-> About(rule, st.facts), attribute |-> rule.attribute, value |-> rule.value,
            confidence |-> (95 * rule.confidence) \div 100, source |-> "rule"]
      next == IF Holds(rule, Pairs(st.facts)) THEN AddFact(st.facts, f) ELSE st.facts
  IN  IF next = st.facts THEN st
      ELSE [st EXCEPT !.facts = next, !.added = TRUE, !.derived = @ + 1]

\* forward_chain, and a round of it.
Round(st) ==
  LET after[i \in 0..Len(Rules)] ==
        IF i = 0 THEN [st EXCEPT !.added = FALSE] ELSE Fire(after[i - 1], Rules[i])
      last == after[Len(Rules)]
  IN  IF st.quiet THEN st ELSE [last EXCEPT !.quiet = ~last.added]

ForwardChain(s) ==
  LET after[i \in 0..MaxRounds] ==
        IF i = 0 THEN [facts |-> s, derived |-> 0, added |-> FALSE, quiet |-> FALSE]
        ELSE Round(after[i - 1])
  IN  after[MaxRounds]

-----------------------------------------------------------------------------
(* The checks of a conclusion *)

\* _validate_against_rules: it looks at the model's facts, not at the text.
Violations(s) ==
  UNION {{<<r.name, f.attribute, f.value>> :
            f \in {g \in ToSet(s) : /\ g.source = "llm"
                                   /\ \E c \in ToSet(r.conditions) :
                                        c.attribute = g.attribute /\ c.value # g.value}} :
         r \in {rule \in ToSet(Rules) : rule.restricts /\ Holds(rule, Pairs(s))}}

\* _detect_shortcuts: of the rules that conclude an attribute the last is asked.
Shortcuts(mentioned, s) ==
  {attribute \in mentioned :
     LET i == SelectLastInSeq(Rules, LAMBDA r : r.attribute = attribute)
     IN  /\ i # 0
         /\ \E c \in ToSet(Rules[i].conditions) : c.attribute \notin {f.attribute : f \in ToSet(s)}}

AtMost(x, y) == IF x < y THEN x ELSE y

\* _compute_confidence, in hundredths.
Confidence(warnings) ==
  LET score == 50 + AtMost(2 * grounding, 15) + AtMost(3 * derived, 15)
                 + (IF Len(facts) > 10 THEN 10 ELSE 0) - 10 * Cardinality(warnings)
  IN  IF score < 0 THEN 0 ELSE AtMost(score, 100)

-----------------------------------------------------------------------------
(* The loop; it waits at each answer of the language model *)

\* reason: grounding fails without a trace.
Reason ==
  /\ stage = "idle" /\ stage' = "extracting"
  /\ \E found \in GraphFacts \cup {<<>>} :
       /\ facts' = AddFacts(facts, found)
       /\ given' = given \cup Pairs(found)
       /\ grounding' = Len(found)
  /\ UNCHANGED <<iteration, derived, fresh, quiet, reasoned>>

\* The model's facts, or none if it fails, and what follows from them.
Extract ==
  /\ stage = "extracting" /\ stage' = "deepening"
  /\ \E extracted \in Extractions \cup {<<>>} :
       LET chained == ForwardChain(AddFacts(facts, extracted))
       IN  /\ facts' = chained.facts
           /\ derived' = derived + chained.derived
           /\ quiet' = chained.quiet
           /\ given' = given \cup Pairs(extracted)
           /\ fresh' = (chained.derived > 0 \/ extracted # <<>>)
  /\ UNCHANGED <<iteration, grounding, reasoned>>

\* The next iteration, or the end: the conclusion is that of the last one.
Iterate ==
  /\ iteration' = iteration + 1
  /\ IF fresh /\ iteration + 1 < MaxIterations
     THEN stage' = "extracting" /\ UNCHANGED reasoned
     ELSE /\ stage' = "done"
          /\ \E mentioned \in SUBSET {r.attribute : r \in ToSet(Rules)} :
               LET warnings == Shortcuts(mentioned, facts)
               IN  reasoned' = [warnings |-> warnings, confidence |-> Confidence(warnings)]
  /\ UNCHANGED <<facts, given, derived, grounding, fresh, quiet>>

Deepen ==
  /\ stage = "deepening"
  /\ IF Violations(facts) # {}
     THEN stage' = "correcting"
          /\ UNCHANGED <<iteration, facts, given, derived, grounding, fresh, quiet, reasoned>>
     ELSE Iterate

Correct == stage = "correcting" /\ Iterate

\* validate_claim: of facts that nobody derives from.
ValidateClaim ==
  /\ stage = "idle" /\ stage' = "validated"
  /\ \E mentioned \in SUBSET {r.attribute : r \in ToSet(Rules)} :
       reasoned' = [warnings |-> Shortcuts(mentioned, facts),
                  confidence |-> IF Violations(facts) = {} THEN 80 ELSE 30]
  /\ UNCHANGED <<iteration, facts, given, derived, grounding, fresh, quiet>>

Next == Reason \/ Extract \/ Deepen \/ Correct \/ ValidateClaim

ReasonSpec == Init /\ [][Next]_reasonVars

-----------------------------------------------------------------------------

\* What follows from what was given, by the definition: the least set that
\* holds it and every conclusion of a rule whose conditions hold in it.
Closure ==
  LET conclusions == {<<r.attribute, r.value>> : r \in ToSet(Rules)}
      closed == {P \in {given \cup C : C \in SUBSET conclusions} :
                   \A r \in ToSet(Rules) : Holds(r, P) => <<r.attribute, r.value>> \in P}
  IN  {p \in given \cup conclusions : \A P \in closed : p \in P}

\* Forward chaining derives what follows and nothing else, in whatever order the
\* rules stand, whatever replaces what and however the facts arrive, unless its
\* rounds run out.
DerivesWhatFollows ==
  stage \notin {"idle", "extracting", "validated"} =>
    /\ Pairs(facts) \subseteq Closure
    /\ quiet => Pairs(facts) = Closure
=============================================================================
