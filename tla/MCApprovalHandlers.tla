------------------------ MODULE MCApprovalHandlers ------------------------
(***************************************************************************)
(* ApprovalHandlers for TLC: a requester, two approvers and a root token;   *)
(* each run says which handlers its goroutines serve.                       *)
(***************************************************************************)
EXTENDS ApprovalHandlers, TLC

CONSTANTS g1, g2

MCEntities == {"alice", "bob", "carol"}
MCNoEntity == ""

User(e) == [entity |-> e, root |-> FALSE]
RootToken == [entity |-> MCNoEntity, root |-> TRUE]

MCCallers == {User("alice"), User("bob"), RootToken}
MCUsers == {User("alice"), User("bob")}
MCApprovers == {User("alice"), User("bob"), User("carol")}

MCPaths == {<<"database", "creds", "readonly">>}
MCTargets == {<<"database", "creds", "*">>}

RuleWrite(target, approvers, required, self) ==
  [target |-> target, approvers |-> approvers, required |-> required, self |-> self]

MCOneApproval == {RuleWrite(MCTargets, {{"bob", "carol"}}, {}, {})}
MCTwoApprovals == {RuleWrite(MCTargets, {{"alice", "bob", "carol"}}, {2}, {})}
MCRuleWrites == MCOneApproval \cup MCTwoApprovals

\* One request at a time.
MCSequential == (g1 :> AllHandlers) @@ (g2 :> {})

\* Both goroutines may park, decide and deliver.
MCConcurrent ==
  LET core == {"write", "park", "approve", "fetch"} IN (g1 :> core) @@ (g2 :> core)

MCConcurrentDeny ==
  (g1 :> {"write", "park", "approve"}) @@ (g2 :> {"deny"})

\* The two goroutines serve the same handlers.
GoroutineSymmetry == Permutations({g1, g2})
===========================================================================
