---------------------------- MODULE GovernanceBoards ----------------------------
(***************************************************************************)
(* Boards, which group domains and policies by name                        *)
(* (src/src/services/governance_board_service.py), beside the federated    *)
(* policies that templates add to and everybody else edits.                *)
(***************************************************************************)
EXTENDS FederatedPolicies

CONSTANTS
  Builtin,    \* BOARD_TEMPLATES: a function from identifiers to [domains, policies]
  OnDisk,     \* the templates in the template directory, likewise
  MaxBoards   \* bound of the check

ASSUME BoardAssumption ==
  /\ MaxBoards \in Nat
  /\ \A t \in DOMAIN Builtin : AreWritten(Builtin[t].policies)
  /\ \A t \in DOMAIN OnDisk : AreWritten(OnDisk[t].policies)

VARIABLES
  templates, \* BOARD_TEMPLATES, which the process shares
  read,      \* _templates_loaded
  listed,    \* what list_templates returned last, or {}
  boards,    \* _boards: a function from identifiers to [domains, namespaces]
  created    \* how many were created
boardVars == <<templates, read, listed, boards, created>>
allVars == <<vars, boardVars>>

BoardInit ==
  /\ Init
  /\ templates = Builtin /\ read = FALSE /\ listed = {}
  /\ boards = <<>> /\ created = 0

\* The list is built before the disk is read.
ListTemplates ==
  /\ listed' = DOMAIN templates
  /\ templates' = IF read THEN templates
                  ELSE [t \in DOMAIN templates \cup DOMAIN OnDisk |->
                          IF t \in DOMAIN templates THEN templates[t] ELSE OnDisk[t]]
  /\ read' = TRUE
  /\ UNCHANGED <<vars, boards, created>>

NewBoard(domains, namespaces) ==
  /\ created < MaxBoards /\ created' = created + 1
  /\ boards' = (created' :> [domains |-> domains, namespaces |-> namespaces]) @@ boards

\* Names are taken as they come.
CreateBoard(domains, namespaces) ==
  /\ NewBoard(domains, namespaces)
  /\ UNCHANGED <<vars, templates, read, listed>>

UpdateBoard(id, namespaces) ==
  /\ id \in DOMAIN boards
  /\ boards' = [boards EXCEPT ![id].namespaces = namespaces]
  /\ UNCHANGED <<vars, templates, read, listed, created>>

DeleteBoard(id) ==
  /\ id \in DOMAIN boards
  /\ boards' = Restrict(boards, DOMAIN boards \ {id})
  /\ UNCHANGED <<vars, templates, read, listed, created>>

\* One policy of a template: [reg, new] are the registry and the new conflicts.
AddMissing(acc, p) ==
  IF p.ns \in DOMAIN acc.reg.policies THEN acc
  ELSE [reg |-> Added(acc.reg, p), new |-> acc.new \cup NewConflicts(acc.reg, p)]

AddAllMissing(start, policies) ==
  LET after[i \in 0..Len(policies)] == IF i = 0 THEN start ELSE AddMissing(after[i - 1], policies[i])
  IN  after[Len(policies)]

CreateFromTemplate(t) ==
  /\ t \in DOMAIN templates
  /\ LET start == [reg |-> [registry EXCEPT !.domains = @ \cup templates[t].domains], new |-> {}]
         end == AddAllMissing(start, templates[t].policies)
         namespaces == {p.ns : p \in ToSet(templates[t].policies)}
     IN  /\ NewBoard(templates[t].domains, namespaces)
         /\ registry' = end.reg
         /\ conflicts' = conflicts \cup end.new
         /\ removed' = removed \ namespaces
  /\ UNCHANGED <<files, enforced, edits, loads, templates, read, listed>>

Boards ==
  \/ ListTemplates
  \/ \E t \in DOMAIN templates : CreateFromTemplate(t)
  \/ CreateBoard({}, DOMAIN registry.policies)
  \/ \E id \in DOMAIN boards : DeleteBoard(id) \/ UpdateBoard(id, DOMAIN registry.policies)

BoardNext == Boards \/ (Next /\ UNCHANGED boardVars)

BoardSpec == BoardInit /\ [][BoardNext]_allVars

-----------------------------------------------------------------------------
(* Properties *)

\* "Also load any YAML templates from disk" (list_templates): they are listed.
DiskIsListed == listed # {} => DOMAIN OnDisk \subseteq listed
===============================================================================
