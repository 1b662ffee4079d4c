------------------------ MODULE MCApprovalWorkflow ------------------------
(***************************************************************************)
(* ApprovalWorkflow for TLC: a requester, two approvers (the requester may  *)
(* be listed as one), a root token and a token without an entity.           *)
(***************************************************************************)
EXTENDS ApprovalWorkflow

MCEntities == {"alice", "bob"}
MCNoEntity == ""

User(e) == [entity |-> e, root |-> FALSE]
RootToken == [entity |-> MCNoEntity, root |-> TRUE]

MCCallers == {User("alice"), User("bob"), User(MCNoEntity), RootToken}
MCUsers == {User("alice"), User("bob")}

Creds == <<"database", "creds", "readonly">>
MCPaths == {Creds}
MCTargets == {<<"database", "creds", "*">>}

RuleWrite(target, approvers, required, self) ==
  [target |-> target, approvers |-> approvers, required |-> required, self |-> self]

\* Full writes with and without a threshold, and partial ones that change the
\* threshold or allow self-approval, which are refused unless the rule exists.
MCRuleWrites ==
  {RuleWrite(MCTargets, {{"alice", "bob"}}, {2}, {}),
   RuleWrite(MCTargets, {{"bob"}}, {}, {}),
   RuleWrite({}, {}, {1}, {}),
   RuleWrite({}, {}, {}, {TRUE})}

MCOneRuleWrite == {RuleWrite(MCTargets, {{"bob"}}, {}, {})}
===========================================================================
