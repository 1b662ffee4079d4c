------------------------ MODULE MCCredentialPolling ------------------------
(***************************************************************************)
(* CredentialPolling for TLC: alice's page with two polls that may overlap, *)
(* and one goroutine that parks her request and serves bob's decision.      *)
(***************************************************************************)
EXTENDS CredentialPolling, TLC

CONSTANTS g1, p1, p2

MCEntities == {"alice", "bob"}
MCNoEntity == ""

Alice == [entity |-> "alice", root |-> FALSE]
Bob == [entity |-> "bob", root |-> FALSE]
MCCallers == {Alice, Bob}

MCPaths == {<<"database", "creds", "readonly">>}
MCTargets == {<<"database", "creds", "*">>}

MCRuleWrites ==
  {[target |-> MCTargets, approvers |-> {{"bob"}}, required |-> {}, self |-> {}]}

MCServes ==
  (g1 :> {"write", "park", "approve", "deny"}) @@ (p1 :> {"fetch"}) @@ (p2 :> {"fetch"})
=============================================================================
