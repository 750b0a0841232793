--------------------------- MODULE MCGovernanceBoards ---------------------------
(* Three domains, whose rules contradict, contend, or merely overlap; a    *)
(* built-in template that shares a namespace with the files and clashes    *)
(* with another of their policies, and two on disk, one of them of the     *)
(* same identifier.                                                        *)
EXTENDS SemanticGraph

Fast  == [when |-> {"action"}, then |-> "days" :> Number(3) @@ "air" :> Bool(TRUE)]
Green == [when |-> {"action", "emergency"},
          then |-> "days" :> Number(14) @@ "air" :> Bool(FALSE) @@ "note" :> Other(1)]
Cap   == [when |-> {"emergency"}, then |-> "days" :> Number(7) @@ "note" :> Other(2)]
Policy(ns, domain, rules, active) == [ns |-> ns, domain |-> domain, rules |-> rules, active |-> active]

Spend  == Policy("procurement.spend", "procurement", {Fast}, TRUE)
Carbon == Policy("sustainability.carbon", "sustainability", {Green}, TRUE)
Draft  == Policy("sustainability.draft", "sustainability", {Cap}, FALSE)
MCNewPolicies ==
  {Policy("finance.cap", "finance", {Cap, Green}, TRUE),
   Policy("procurement.spend", "procurement", {Cap}, TRUE)}

File(domain, policies, bad) == [domain |-> domain, policies |-> policies, bad |-> bad]
MCFileVersions ==
  {<<File("procurement", <<Spend>>, 0), File("sustainability", <<Carbon, Draft>>, 0)>>,
   <<File("procurement", <<Spend>>, 0), File("sustainability", <<Carbon, Draft>>, 2)>>}

MCBuiltin ==
  "csrd" :> [domains |-> {"sustainability", "legal"},
             policies |-> <<Policy("sustainability.carbon", "sustainability", {Cap}, TRUE),
                            Policy("legal.review", "legal", {Fast}, TRUE)>>]
MCOnDisk ==
  "csrd" :> [domains |-> {"sustainability"}, policies |-> <<>>] @@
  "energy" :> [domains |-> {"energy"}, policies |-> <<>>]

\* What queries mention: a domain of the files and one that nobody registered.
MCMentions == {<<"procurement", "hr">>}
===============================================================================
