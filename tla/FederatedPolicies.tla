--------------------------- MODULE FederatedPolicies ---------------------------
(***************************************************************************)
(* The policies that domain owners contribute (FederatedPolicyService,     *)
(* src/src/services/federated_policy_service.py): loaded from YAML files,  *)
(* edited through /governance (src/src/api/routers/governance.py),         *)
(* compared with those of other domains, and handed to the CSL service,    *)
(* which loads the files anew whenever it loads its own policies.          *)
(* Each handler runs to completion in the event loop.  A policy is held    *)
(* with the identifier of its registration, since every registration makes *)
(* a new object.                                                           *)
(***************************************************************************)
EXTENDS Integers, Sequences, FiniteSets, SequencesExt, Functions, TLC

CONSTANTS
  FileVersions,  \* what the policy directory may hold: sequences of files
  NewPolicies,   \* what is registered through the API
  MaxEdits, MaxLoads \* bounds of the check

\* The parts of a policy: [ns, domain, rules, active].  A rule is the keys of its
\* condition and its constraint, [when |-> a set, then |-> a function]; a file
\* is [domain, policies, bad], where bad is the policy whose parsing raises.

\* What a constraint names can be listed.
IsWritten(p) == \A r \in p.rules : IsFiniteSet(DOMAIN r.then)
AreWritten(list) == list \in Seq({p \in Range(list) : IsWritten(p)})

ASSUME FederationAssumption ==
  /\ MaxEdits \in Nat /\ MaxLoads \in Nat
  /\ \A p \in NewPolicies : IsWritten(p)
  /\ \A list \in FileVersions :
       /\ Len(list) \in Nat
       /\ \A i \in 1..Len(list) :
            AreWritten(list[i].policies) /\ list[i].bad \in 0..Len(list[i].policies)

Bool(b) == [kind |-> "bool", n |-> IF b THEN 1 ELSE 0]
Number(n) == [kind |-> "number", n |-> n]
Other(n) == [kind |-> "other", n |-> n]
IsNumeric(v) == v.kind \in {"bool", "number"}  \* bool is an int in Python

VARIABLES
  files,
  registry,  \* [domains, policies, next]: _domains, _policies and the next identifier
  conflicts, \* the values of _conflicts
  enforced,  \* the federated policies among the CSL service's, by namespace
  removed,   \* the namespaces last removed, and not registered since
  edits, loads
vars == <<files, registry, conflicts, enforced, removed, edits, loads>>

-----------------------------------------------------------------------------
(* Conflicts *)

SharedConstraints(r, s) == DOMAIN r.then \cap DOMAIN s.then
Clash(r, s) == r.when \cap s.when # {} /\ SharedConstraints(r, s) # {}

Contradictory(v, w) == v.kind = "bool" /\ w.kind = "bool" /\ v.n # w.n

\* A mutant of TypeAfter without the break at a contradiction.
TypeAfterNoBreak(type, v, w) ==
  CASE Contradictory(v, w) -> "contradictory"
    [] ~Contradictory(v, w) /\ IsNumeric(v) /\ IsNumeric(w) /\ v.n # w.n -> "resource_contention"
    [] OTHER -> type

TypeAfter(type, v, w) ==
  CASE type = "contradictory" \/ Contradictory(v, w) -> "contradictory"
    [] ~Contradictory(v, w) /\ type # "contradictory"
         /\ IsNumeric(v) /\ IsNumeric(w) /\ v.n # w.n -> "resource_contention"
    [] OTHER -> type

\* _check_rule_conflict walks a set of keys, whose order differs from one
\* process to the next.
ConflictType(r, s, keys) ==
  LET after[i \in 0..Len(keys)] ==
        IF i = 0 THEN "overlapping" ELSE TypeAfter(after[i - 1], r.then[keys[i]], s.then[keys[i]])
  IN  after[Len(keys)]

Conflict(new, q, r, s) ==
  [a |-> new.id, b |-> q.id, rules |-> <<r, s>>, names |-> <<new.ns, q.ns>>,
   domains |-> <<new.domain, q.domain>>,
   type |-> ConflictType(r, s, SetToSeq(SharedConstraints(r, s))), resolved |-> FALSE]

\* detect_conflicts: new is already registered.
Detected(new, policies) ==
  UNION {UNION {{Conflict(new, q, r, s) : s \in {t \in q.rules : Clash(r, t)}} : r \in new.rules} :
         q \in {p \in Range(policies) : p.ns # new.ns /\ p.domain # new.domain}}

-----------------------------------------------------------------------------
(* Registration *)

Registered(reg, p, api) ==
  LET new == [id |-> reg.next, api |-> api, ns |-> p.ns, domain |-> p.domain,
              rules |-> p.rules, active |-> p.active]
  IN  [domains |-> reg.domains,
       policies |-> [ns \in DOMAIN reg.policies \cup {p.ns} |->
                       IF ns = p.ns THEN new ELSE reg.policies[ns]],
       next |-> reg.next + 1]

\* A file that raises leaves behind what was read of it.
Taken(file) == IF file.bad = 0 THEN file.policies ELSE SubSeq(file.policies, 1, file.bad - 1)
LoadFile(reg, file) ==
  LET after[i \in 0..Len(Taken(file))] ==
        IF i = 0 THEN [domains |-> reg.domains \cup {file.domain}, policies |-> reg.policies, next |-> reg.next]
        ELSE Registered(after[i - 1], Taken(file)[i], FALSE)
  IN  after[Len(Taken(file))]

Loaded(reg, list) ==
  LET after[i \in 0..Len(list)] == IF i = 0 THEN reg ELSE LoadFile(after[i - 1], list[i])
  IN  after[Len(list)]

Empty == [domains |-> {}, policies |-> <<>>, next |-> 1]

\* What get_csl_policies converts.
CslPolicies(policies) ==
  {ns \in DOMAIN policies : policies[ns].active /\ policies[ns].rules # {}}

\* The application has started, with governance enabled: the files are loaded
\* before the first request, and the CSL service does not exist yet.
Init ==
  /\ files \in FileVersions
  /\ registry = Loaded(Empty, files)
  /\ conflicts = {} /\ enforced = {} /\ removed = {}
  /\ edits = 0 /\ loads = 0

-----------------------------------------------------------------------------
(* Handlers *)

Edit == edits < MaxEdits /\ edits' = edits + 1

\* What add_policy of p does to the registry and the conflicts.
Added(reg, p) == Registered(reg, p, TRUE)

\* A mutant of NewConflicts that compares new namespaces only.
NewConflictsFirst(reg, p) ==
  IF p.ns \in DOMAIN reg.policies THEN {}
  ELSE Detected(Added(reg, p).policies[p.ns], Added(reg, p).policies)

NewConflicts(reg, p) == Detected(Added(reg, p).policies[p.ns], Added(reg, p).policies)

AddPolicy(p) ==
  /\ Edit
  /\ registry' = Added(registry, p)
  /\ conflicts' = conflicts \cup NewConflicts(registry, p)
  /\ removed' = removed \ {p.ns}
  /\ UNCHANGED <<files, enforced, loads>>

\* What an update can change: is_active, of what conflicts or is converted.
UpdatePolicy(ns, active) ==
  /\ Edit
  /\ ns \in DOMAIN registry.policies
  /\ registry' = [registry EXCEPT !.policies[ns].active = active]
  /\ UNCHANGED <<files, conflicts, enforced, removed, loads>>

RemovePolicy(ns) ==
  /\ Edit
  /\ ns \in DOMAIN registry.policies
  /\ registry' = [registry EXCEPT !.policies = Restrict(@, DOMAIN @ \ {ns})]
  /\ removed' = removed \cup {ns}
  /\ UNCHANGED <<files, conflicts, enforced, loads>>

RegisterDomain(domain) ==
  /\ Edit
  /\ registry' = [registry EXCEPT !.domains = @ \cup {domain}]
  /\ UNCHANGED <<files, conflicts, enforced, removed, loads>>

ResolveConflict(c) ==
  /\ Edit
  /\ conflicts' = (conflicts \ {c}) \cup {[c EXCEPT !.resolved = TRUE]}
  /\ UNCHANGED <<files, registry, enforced, removed, loads>>

\* The CSL service is created, or reloaded: load_policies, then get_csl_policies.
CslLoad ==
  /\ loads < MaxLoads /\ loads' = loads + 1
  /\ registry' = Loaded(registry, files)
  /\ enforced' = CslPolicies(registry'.policies)
  /\ UNCHANGED <<files, conflicts, removed, edits>>

\* A domain owner changes the files.
EditFiles == Edit /\ files' \in FileVersions
             /\ UNCHANGED <<registry, conflicts, enforced, removed, loads>>

Api ==
  \/ \E p \in NewPolicies : AddPolicy(p) \/ RegisterDomain(p.domain)
  \/ \E ns \in DOMAIN registry.policies :
       RemovePolicy(ns) \/ \E active \in BOOLEAN : UpdatePolicy(ns, active)
  \/ \E c \in conflicts : ResolveConflict(c)

Next == Api \/ CslLoad \/ EditFiles

Spec == Init /\ [][Next]_vars

-----------------------------------------------------------------------------
(* Properties *)

Policies == Range(registry.policies)

Compared(p, q) ==
  \A r \in p.rules, s \in q.rules :
    Clash(r, s) => \E c \in conflicts : c.a = p.id /\ c.b = q.id /\ c.rules = <<r, s>>

\* Whatever was removed, replaced, reloaded and resolved in between: of two
\* policies of different domains, if the one registered later came through the
\* API, every clash between their rules is on record, under their identifiers.
ClashesOnRecord ==
  \A p, q \in Policies : p.domain # q.domain /\ p.id > q.id /\ p.api => Compared(p, q)

\* The type of a conflict does not depend on the order in which the keys are met.
OrderIsIrrelevant ==
  \A r, s \in UNION {p.rules : p \in Policies} :
    LET keys == SharedConstraints(r, s)
        Expected == CASE \E k \in keys : Contradictory(r.then[k], s.then[k]) -> "contradictory"
                      [] (\A k \in keys : ~Contradictory(r.then[k], s.then[k]))
                           /\ (\E k \in keys : IsNumeric(r.then[k]) /\ IsNumeric(s.then[k])
                                                 /\ r.then[k].n # s.then[k].n) -> "resource_contention"
                      [] OTHER -> "overlapping"
    IN  \A order \in SetToSeqs(keys) : ConflictType(r, s, order) = Expected

\* "Run conflict detection across all federated policies." (resolve_tensions,
\* src/src/services/governance_service.py): every clash between policies of two
\* domains is on record.
AllClashesDetected ==
  \A p, q \in Policies : p.domain # q.domain => Compared(p, q) \/ Compared(q, p)

\* "assert service.remove_policy(...) is True", then "assert
\* service.get_policy(...) is None" (src/tests/unit/test_federated_policy_service.py):
\* a removed policy is found again only after it was registered again.
RemovedIsGone == removed \cap DOMAIN registry.policies = {}

\* "conflict detection feeds back to policies" (src/docs/SELF_HEALING_ARCHITECTURE.md):
\* what is shown as unresolved concerns policies that exist.
UnresolvedAreCurrent ==
  \A c \in conflicts : ~c.resolved => {c.a, c.b} \subseteq {p.id : p \in Policies}
===============================================================================
