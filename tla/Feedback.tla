------------------------------- MODULE Feedback -------------------------------
(***************************************************************************)
(* What users say of the analyses and what is made of it (src/src/api/     *)
(* routers/feedback.py, src/src/services/router_retraining_service.py,     *)
(* src/scripts/retrain_router_from_feedback.py).  An item of feedback is a *)
(* row; one that corrects the router's domain is also a row of overrides,  *)
(* which three programs read: the endpoint that says whether there are     *)
(* enough, the one that extracts keywords, and the script that exports     *)
(* training data and checks it by rules of its own.                        *)
(*                                                                         *)
(* A label is what the user wrote for a domain, in any case of letters,    *)
(* perhaps padded with blanks: a pair <<domain, padded>>.  The endpoints   *)
(* that only read change nothing and are operators here.                   *)
(***************************************************************************)
EXTENDS Integers, FiniteSets, Functions

CONSTANTS
  Types, Labels, Queries,  \* what users send; "" stands for a label or a query left out
  Valid,                   \* the domains the script knows
  Words,                   \* by query, its words of three letters or more that are no stop words
  ReadyTotal, PerDomain, HintTotal, TopWords,  \* 10, 3, 5 and 10 in the code
  MaxItems                 \* bounds the rows of feedback

VARIABLES
  feedback,   \* the rows of feedback, a bag
  overrides,  \* the rows of domain_overrides
  thanked,    \* history: the items whose sender got an answer
  exported    \* the script's file
feedbackVars == <<feedback, overrides, thanked, exported>>

\* Bags of rows: the empty one, one with a row more, and whether one is part of another.
EmptyBag == <<>>
BagAdd(b, x) ==
  [y \in DOMAIN b \cup {x} |->
     (IF y \in DOMAIN b THEN b[y] ELSE 0) + (IF y = x THEN 1 ELSE 0)]
Within(a, b) == \A x \in DOMAIN a : x \in DOMAIN b /\ a[x] <= b[x]

\* The size of a bag.
Copies(b) == UNION {{x} \X (1..b[x]) : x \in DOMAIN b}
Total(b) == Cardinality(Copies(b))

Init == feedback = EmptyBag /\ overrides = EmptyBag /\ thanked = EmptyBag /\ exported = EmptyBag

\* A label left out; one of blanks only is a label, of no domain.
NoLabel == <<"", FALSE>>

Items == [type : Types, label : Labels, query : Queries]

\* The values of a bag's elements under f, with their counts.
Tally(f, b) ==
  [v \in {f[x] : x \in DOMAIN b} |-> Total(Restrict(b, {x \in DOMAIN b : f[x] = v}))]

-----------------------------------------------------------------------------
(* The readers of the overrides *)

\* check_retraining_readiness.  Only domains that were named are counted.
Distribution == Tally([x \in DOMAIN overrides |-> x.label], overrides)

Recommendation ==
  LET total == Total(overrides)
  IN  CASE total = 0 -> "encourage"
        [] total \in 1..ReadyTotal - 1 -> "collect more"
        [] OTHER -> IF \A l \in DOMAIN Distribution : Distribution[l] >= PerDomain
                    THEN "ready" ELSE "domains under-represented"

\* A mutant of Ready: the domains are not looked at.
ReadyByTotal == Total(overrides) >= ReadyTotal

Ready == Recommendation = "ready"

\* retrain_router
MayRetrain == Total(overrides) >= HintTotal

\* retrain_keyword_hints: the most frequent words of a domain's queries, all of
\* them where the last places are shared.
Hints ==
  LET told == {x \in DOMAIN overrides : x.label[1] # "" /\ x.query # ""}
      uses(d, w) == Total(Restrict(overrides, {x \in told : x.label[1] = d /\ w \in Words[x.query]}))
      words(d) == UNION {Words[x.query] : x \in {y \in told : y.label[1] = d}}
      top(d) == {w \in words(d) :
                   Cardinality({v \in words(d) : uses(d, v) > uses(d, w)}) < TopWords}
      hinted == {d \in {x.label[1] : x \in told} : words(d) # {}}
  IN  IF MayRetrain THEN [d \in hinted |-> top(d)] ELSE <<>>

\* extract_training_data: blanks are not stripped.
Usable(x) == x.query # "" /\ ~x.label[2] /\ x.label[1] \in Valid
TrainingData == Restrict(overrides, {x \in DOMAIN overrides : Usable(x)})

\* validate_training_data
Contradictions(b) ==
  {q \in {x.query : x \in DOMAIN b} : Cardinality({x.label : x \in {y \in DOMAIN b : y.query = q}}) > 1}
ReportReady(b) ==
  LET samples == Tally([x \in DOMAIN b |-> x.label], b)
  IN  /\ \A l \in DOMAIN samples : samples[l] >= PerDomain
      /\ Contradictions(b) = {}
      /\ Total(b) >= PerDomain

-----------------------------------------------------------------------------
\* submit_feedback and FeedbackStore.add: both rows are inserted in one
\* transaction.  The process may stop before it commits, or before it answers.
Submit(item, fate) ==
  /\ Total(feedback) < MaxItems
  /\ IF fate = "stopped" THEN UNCHANGED <<feedback, overrides>>
     ELSE /\ feedback' = BagAdd(feedback, item)
          /\ overrides' = IF item.type = "domain_override" /\ item.label # NoLabel
                          THEN BagAdd(overrides, [label |-> item.label, query |-> item.query])
                          ELSE overrides
  /\ thanked' = IF fate = "answered" THEN BagAdd(thanked, item) ELSE thanked
  /\ UNCHANGED exported

\* The script's main, export_training_jsonl: without data the old file stays, and
\* issues are only logged.
Export(dryRun) ==
  /\ exported' = IF dryRun \/ TrainingData = EmptyBag THEN exported ELSE TrainingData
  /\ UNCHANGED <<feedback, overrides, thanked>>

Next ==
  \/ \E item \in Items, fate \in {"answered", "lost", "stopped"} : Submit(item, fate)
  \/ \E dryRun \in BOOLEAN : Export(dryRun)

Spec == Init /\ [][Next]_feedbackVars

-----------------------------------------------------------------------------
\* What a user was thanked for is stored, a correction also where the readers look,
\* whatever stops in between, and only usable corrections are exported.
CorrectionsAreKept ==
  LET labelled == {x \in DOMAIN feedback : x.type = "domain_override" /\ x.label # NoLabel}
  IN  /\ Within(thanked, feedback)
      /\ overrides = Tally([x \in labelled |-> [label |-> x.label, query |-> x.query]],
                           Restrict(feedback, labelled))
      /\ Within(exported, overrides) /\ \A x \in DOMAIN exported : Usable(x)

\* The programs that read them agree on corrections that are in order, each with a
\* query and a known domain and no query with two: they are ready for one reader
\* just when they are for the other, given the total that only the first asks for,
\* and the domains with keywords are those of the exported data.
\* (check_retraining_readiness, retrain_keyword_hints and validate_training_data,
\* which count separately.)
ReadersAgree ==
  (\A x \in DOMAIN overrides : Usable(x)) /\ Contradictions(overrides) = {} =>
    /\ Ready <=> Total(overrides) >= ReadyTotal /\ ReportReady(TrainingData)
    /\ DOMAIN Hints \subseteq {x.label[1] : x \in DOMAIN TrainingData}
    /\ Ready /\ (\A q \in Queries \ {""} : Words[q] # {}) =>
         DOMAIN Hints = {x.label[1] : x \in DOMAIN TrainingData}
=============================================================================
