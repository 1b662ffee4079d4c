------------------------- MODULE CredentialPolling -------------------------
(***************************************************************************)
(* The credential page of the UI on top of the handlers it talks to.  Once  *)
(* its request is parked the page polls approvals/fetch/:id on an interval  *)
(* timer, whether or not the previous poll has been answered, so polls      *)
(* overlap, their handlers interleave with each other and with a decision,  *)
(* and their answers arrive in any order.  Stopping clears the timer only:  *)
(* an answer that is still under way is processed when it comes.            *)
(*                                                                         *)
(* Every poll is served by a goroutine of ApprovalHandlers; the goroutines  *)
(* in Connections serve the polls of the page and nothing else.             *)
(***************************************************************************)
EXTENDS ApprovalHandlers

CONSTANTS
  Connections,  \* goroutines that serve polls: bounds how many overlap
  User,         \* the token of the page
  MaxFailures   \* bound on polls that fail or whose answer is lost

ASSUME ConnectionAssumption ==
  Connections \subseteq Goroutines /\ \A g \in Connections : Serves[g] = {"fetch"}

ASSUME UserAssumption == User \in Callers /\ MaxFailures \in Nat

VARIABLES
  page,      \* what the page shows and whether its timer runs
  call,      \* the poll under way on each connection
  failures   \* polls that failed so far

ui == <<page, call, failures>>
uiVars == <<vars, ui>>

\* Answers are named by their status field, or by their HTTP status when the
\* request fails; "network" is a 5xx or no answer at all.
Answers ==
  {"pending", "approved", "denied", "expired", "400", "403", "404", "network"}

NoCall == [at |-> "none", cred |-> NilData]

Answer(a, cred) == [at |-> a, cred |-> cred]

BlankPage ==
  [state |-> "form", id |-> 0, resolvedCred |-> NilData, pollError |-> "none"]

PageType ==
  /\ page \in [state : {"form", "polling", "stopped", "left"}, id : Nat,
               resolvedCred : CredentialData,
               pollError : {"none", "denied", "expired", "not found", "forbidden"}]
  /\ call \in [Connections -> [at : {"none", "sent", "served"} \cup Answers,
                               cred : CredentialData]]
  /\ failures \in 0..MaxFailures

UITypeOK == TypeOK /\ PageType

UIInit ==
  /\ Init
  /\ page = BlankPage
  /\ call = [g \in Connections |-> NoCall]
  /\ failures = 0

-----------------------------------------------------------------------------
(* The page                                                                *)

\* The credential request was answered with a request ID.  Bound: early enough
\* for the request to expire before the clock stops.
startPolling(id) ==
  /\ page.state = "form"
  /\ id \in used /\ owner[id] = User.entity
  /\ now + RequestTTL < MaxTime
  /\ page' = [BlankPage EXCEPT !.state = "polling", !.id = id]
  /\ UNCHANGED <<vars, call, failures>>

TimerFires(g) ==
  /\ page.state = "polling"
  /\ call[g] = NoCall
  /\ call' = [call EXCEPT ![g] = Answer("sent", NilData)]
  /\ UNCHANGED <<vars, page, failures>>

\* The user navigates away: the destructor clears the timer.
Leave ==
  /\ page.state \in {"polling", "stopped"}
  /\ page' = [page EXCEPT !.state = "left"]
  /\ UNCHANGED <<vars, call, failures>>

stopPolling(p) == IF p.state = "polling" THEN [p EXCEPT !.state = "stopped"] ELSE p

Error(p, text) == stopPolling([p EXCEPT !.pollError = text])

\* Mutant: answers that come after the timer was cleared are dropped.
Processed_OnlyPolling(p, a) ==
  IF p.state # "polling" THEN p
  ELSE CASE a.at = "approved" -> stopPolling([p EXCEPT !.resolvedCred = a.cred])
         [] a.at = "denied" -> Error(p, "denied")
         [] a.at = "expired" -> Error(p, "expired")
         [] a.at \in {"404", "400"} -> Error(p, "not found")
         [] a.at = "403" -> Error(p, "forbidden")
         [] a.at \in {"pending", "network"} -> p

\* Mutant: a 404 or a 400 is taken for a transient failure.
Processed_RetryNotFound(p, a) ==
  CASE a.at = "approved" -> stopPolling([p EXCEPT !.resolvedCred = a.cred])
    [] a.at = "denied" -> Error(p, "denied")
    [] a.at = "expired" -> Error(p, "expired")
    [] a.at = "403" -> Error(p, "forbidden")
    [] a.at \in {"pending", "network", "404", "400"} -> p

\* The callback of the timer once its poll is answered.
Processed(p, a) ==
  CASE a.at = "approved" -> stopPolling([p EXCEPT !.resolvedCred = a.cred])
    [] a.at = "denied" -> Error(p, "denied")
    [] a.at = "expired" -> Error(p, "expired")
    [] a.at \in {"404", "400"} -> Error(p, "not found")
    [] a.at = "403" -> Error(p, "forbidden")
    [] a.at \in {"pending", "network"} -> p

PollAnswered(g) ==
  /\ call[g].at \in Answers
  /\ page' = Processed(page, call[g])
  /\ call' = [call EXCEPT ![g] = NoCall]
  /\ UNCHANGED <<vars, failures>>

-----------------------------------------------------------------------------
(* The server's side of a poll                                             *)

\* handleApprovalFetch where it only reports.
Reported(p) ==
  CASE p.status = "absent" -> "404"
    [] p.status # "absent" /\ ~MayFetch(User, p) -> "403"
    [] p.status = "pending" /\ MayFetch(User, p) -> "pending"
    [] p.status = "denied" /\ MayFetch(User, p) -> "denied"
    [] p.status = "approved" /\ MayFetch(User, p) -> "400"

PollReport(g) ==
  LET p == pending[page.id] IN
  /\ call[g].at = "sent"
  /\ MayFetch(User, p) => /\ ~ExpiredPending(p, now)
                          /\ p.status = "approved" => p.cred.kind = "nil"
  /\ call' = [call EXCEPT ![g] = Answer(Reported(p), NilData)]
  /\ UNCHANGED <<vars, page, failures>>

PollGet(g) ==
  /\ call[g].at = "sent"
  /\ FetchGet(g, User, page.id)
  /\ call' = [call EXCEPT ![g] = Answer("served", NilData)]
  /\ UNCHANGED <<page, failures>>

PollBurn(g) ==
  /\ call[g].at = "served"
  /\ FetchLapsed(g) \/ FetchBurn(g) \/ FetchDelete(g) \/ FetchRetrieved(g)
  /\ UNCHANGED ui

\* An undecided request is reported as expired, a lapsed credential as a 400.
PollExpired(g) ==
  /\ call[g].at = "served"
  /\ FetchLog(g)
  /\ call' = [call EXCEPT ![g] =
                Answer(IF local[g].p.status = "approved" THEN "400" ELSE "expired",
                       NilData)]
  /\ UNCHANGED <<page, failures>>

PollRespond(g) ==
  /\ call[g].at = "served"
  /\ FetchRespond(g)
  /\ call' = [call EXCEPT ![g] = Answer("approved", local[g].p.cred)]
  /\ UNCHANGED <<page, failures>>

\* A poll fails on its way, in its handler, or loses its answer.
PollFails(g) ==
  /\ call[g].at \notin {"none", "network"}
  /\ failures < MaxFailures
  /\ failures' = failures + 1
  /\ call' = [call EXCEPT ![g] = Answer("network", NilData)]
  /\ IF call[g].at = "served" THEN Return(g) ELSE UNCHANGED vars
  /\ UNCHANGED page

-----------------------------------------------------------------------------

Serve(g) ==
  \/ PollReport(g) \/ PollGet(g) \/ PollBurn(g) \/ PollExpired(g) \/ PollRespond(g)

UINext ==
  \/ /\ Tick \/ \E g \in Goroutines \ Connections : Step(g)
     /\ UNCHANGED ui
  \/ \E id \in ReqIDs : startPolling(id)
  \/ Leave
  \/ \E g \in Connections :
       TimerFires(g) \/ Serve(g) \/ PollFails(g) \/ PollAnswered(g)

(***************************************************************************)
(* Time passes, the interval timer keeps firing, and a poll is served and   *)
(* answered unless it fails; "transient failures should self-heal", so only *)
(* finitely many fail.  Nothing is assumed of approvers, of the user or of  *)
(* the handlers that serve them.                                           *)
(***************************************************************************)
Fairness ==
  /\ WF_uiVars(Tick /\ UNCHANGED ui)
  /\ \A g \in Connections : /\ WF_uiVars(TimerFires(g))
                            /\ WF_uiVars(Serve(g))
                            /\ WF_uiVars(PollAnswered(g))

UISpec == UIInit /\ [][UINext]_uiVars /\ Fairness

-----------------------------------------------------------------------------
(* Properties                                                              *)

\* No page polls for ever: handleApprovalFetch gives a definitive answer at the
\* latest once the request or its retrieval window has expired, whatever
\* approvers do or leave undone, and the callback stops on every such answer.
PollingEnds == page.state = "polling" ~> page.state # "polling"

\* Overlapping polls do not lose a credential: when one poll has burned the
\* entry and another is answered "not found" first, the callback of the first
\* still shows the credential after the timer was cleared.  Only a failed poll,
\* or a user who leaves, loses it.
DeliveredIsShown ==
  \A id \in ReqIDs :
    page.id = id /\ delivered[id] # <<>> ~>
      page.resolvedCred # NilData \/ failures > 0 \/ page.state = "left"

\* "Primary cleanup path since most unanswered requests are discovered through
\* polling": a request that no approver answers does not outlive, past its time
\* limit, a page that stays on it.  (An approval that is under way when a poll
\* deletes the entry puts it back, and then nothing but a listing removes it.)
ExpiredIsCleared ==
  \A id \in ReqIDs :
    [](\A g \in Goroutines : local[g].op = "approve" => local[g].id # id) =>
      (page.id = id /\ ExpiredPending(pending[id], now) ~>
         pending[id].status # "pending" \/ page.state = "left")

\* A page that says "denied" is right for good: no secret was or will be
\* generated for its request, however its polls and the decision interleave.
\* (Decisions are not made at the same time and the put of the credential does
\* not fail: a secret that could not be stored stays behind when the rolled back
\* request is denied.)
DenialShownIsTrue ==
  page.pollError = "denied" => minted[page.id] = {}

\* handleApprovalFetch answers 404 so that the page "can distinguish "truly
\* gone" from transient errors and stop polling cleanly": a page that has
\* stopped with "not found" has no request that is still being decided or
\* whose credential still waits to be fetched.
NotFoundIsGone ==
  page.pollError = "not found" /\ page.resolvedCred = NilData =>
    \/ pending[page.id].status \in {"absent", "denied"}
    \/ pending[page.id].status = "approved" /\ pending[page.id].cred.kind = "nil"

-----------------------------------------------------------------------------
(* What makes DenialShownIsTrue inductive                                  *)

\* One goroutine serves the decisions, as many as there are serve polls.
OneDecides ==
  \A g, h \in Goroutines :
    /\ Serves[g] \cap {"approve", "deny"} # {}
    /\ Serves[h] \cap {"approve", "deny"} # {}
    => g = h

Decides(l) ==
  /\ l.op \in {"approve", "deny"}
  /\ l.pc \in {"get", "vote", "mark", "reread", "execute", "store", "rollback", "deny"}

\* A handler decides an entry that is not denied yet, executes it only while it
\* is not undecided, and has no secret for it before it executes; what a poll
\* burns was approved.
DecisionSound(l) ==
  /\ Decides(l) =>
       /\ pending[l.id].status # "denied"
       /\ l.pc # "store" => minted[l.id] = {}
       /\ l.pc \in {"reread", "execute", "store", "rollback"} =>
            pending[l.id].status # "pending"
       /\ l.pc \in {"mark", "reread", "execute", "store"} => l.p.status = "approved"
  /\ l.op = "fetch" /\ l.pc = "burn" => l.p.status = "approved"

DecisionInv ==
  /\ \A g \in Goroutines : IF local[g].pc = "idle" THEN local[g].op = "none"
                           ELSE local[g].op \in Serves[g]
  /\ \A id \in ReqIDs : pending[id].status \in {"pending", "denied"} => minted[id] = {}
  /\ \A g \in Goroutines : DecisionSound(local[g])

\* No secret was or will be generated for the request.
Dead(id) ==
  /\ minted[id] = {}
  /\ pending[id].status # "pending"
  /\ \A g \in Goroutines : Decides(local[g]) => local[g].id # id

\* The request of a page that polls exists, and no poll is under way before.
PageAt ==
  /\ page.state # "form" => page.id \in used
  /\ page.state = "form" => /\ page.pollError = "none"
                            /\ \A g \in Connections : call[g].at = "none"

\* A denial that is shown, or on its way to the page, is of a dead request.
PageInv ==
  /\ PageAt
  /\ \/ page.pollError = "denied"
     \/ \E g \in Connections : call[g].at = "denied"
     => Dead(page.id)

=============================================================================
