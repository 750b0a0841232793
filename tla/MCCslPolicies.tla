---------------------------- MODULE MCCslPolicies ----------------------------
(* Values of CslPolicies' constants for TLC: two built-in policies and a    *)
(* federated one, of one to three rules each.                               *)
EXTENDS CslPolicies

Limit(n) == <<Is("action.amount", Num(n))>>
Budget == Policy("budget_limits",
  <<DomainLimit("Clear", 100), DomainLimit("Complex", 25), ConversionGate>>)
Gates == Policy("action_gates", <<Rule("chaotic_domain_block", {On("domain.type", "Chaotic")}, Escalated)>>)
MCBuiltin == <<Budget, Gates>>
MCFederated ==
  <<Policy("federated_procurement",
           <<Rule("fed_vendor_verification", {On("action.type", "new_vendor")}, Approved)>>)>>
MCNewRules ==
  {Rule("extra", {}, Limit(10)),
   Rule("documented", {}, <<OtherKeys("action.amount")>>)}
MCConstraints == {Limit(1), Escalated}

Request(domain, type, amount, escalated) ==
  ("domain.type" :> Str(domain)) @@ ("action.type" :> Str(type)) @@ ("action.amount" :> amount)
  @@ ("approval.escalated" :> Bool(escalated))
MCContexts ==
  {Request("Complex", "spend", Num(30), TRUE), Request("Clear", "new_vendor", Num(5), FALSE),
   Request("Chaotic", "spend", Num(5), FALSE), Request("Clear", "spend", Num(1), TRUE),
   Request("Clear", "spend", Str("ten"), TRUE)}
===============================================================================
