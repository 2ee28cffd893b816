--------------------------- MODULE MatcherService ---------------------------
(***************************************************************************)
(* The way of a command from a browser to the store and back: the review,  *)
(* signature and retry of lib/matcher-order-workflow.ts and                *)
(* lib/matcher-order-controls.ts, the gateway of lib/matcher-proxy.ts, the *)
(* request handler of services/matcher/server.ts, and MatcherStore.        *)
(* A task is one reviewed order or control; its request ID is the task.    *)
(***************************************************************************)
EXTENDS MatcherStore

CONSTANTS
  Wants,      \* what a task asks for
  Gateways,   \* "proxy": /api/matcher; "direct": a fetcher that returns answers whole
  Callers,    \* "desks": the workflows; "any": any command at any time
  MaxPosts,   \* bound: posts of one task
  MaxPending  \* maximumPendingMutations

ASSUME MatcherServiceConstants ==
  /\ Wants \in [Ids -> Bodies]
  /\ Gateways \subseteq {"proxy", "direct"}
  /\ Callers \subseteq {"desks", "any"}
  /\ MaxPosts \in [Ids -> Nat]
  /\ MaxPending \in Nat

VARIABLES
  desk,     \* what the browser holds of a task
  calls,    \* posts on their way or in the server
  gateway,  \* the gateway of this behaviour
  callers   \* who calls the store in this behaviour

serviceVars == <<storeVars, desk, calls, gateway, callers>>

Blank == [phase |-> "idle", seen |-> <<>>, at |-> 0, posts |-> 0, acked |-> FALSE]

MatcherServiceInit ==
  /\ MatcherStoreInit
  /\ desk = [t \in Ids |-> Blank]
  /\ calls = {}
  /\ gateway \in Gateways
  /\ callers \in Callers
  /\ callers = "desks" => disk = NewDirectory

-----------------------------------------------------------------------------
(* The browser.                                                            *)

IsOrder(t) == Needs[Wants[t]] = None

Command(t) == [id |-> t, body |-> Wants[t], at |-> desk[t].at]

OrderRequest(t) == [key |-> t, action |-> "accept-order", command |-> Command(t)]
ControlRequest(t) == [key |-> t, action |-> "control", command |-> Command(t)]
Request(t) == IF IsOrder(t) THEN OrderRequest(t) ELSE ControlRequest(t)

(* What the server says of itself and of an account. *)
HealthAnswer ==
  [ok |-> Accepting, sequence |-> Len(mem.log), checkpoint |-> mem.checkpoint]
AccountAnswer ==
  [sequence |-> Len(mem.log), checkpoint |-> SubSeq(mem.log, 1, mem.checkpoint)]

(* While a checkpoint is being written the answers contradict themselves   *)
(* and neither the gateway nor the browser takes them.                     *)
HealthPasses(h) == h.ok /\ h.checkpoint = h.sequence
AccountPasses(a) == Len(a.checkpoint) = a.sequence
AccountFits(a) == AccountPasses(a)

Healthy == HealthPasses(HealthAnswer) /\ AccountFits(AccountAnswer)

deskOnly == <<storeVars, calls, gateway, callers>>

(* What the review freezes: the account it saw and the time it will be     *)
(* posted with; the order itself is the task.                              *)
Draft(t, at, account) ==
  [desk[t] EXCEPT !.phase = "reviewed", !.seen = account.checkpoint, !.at = at]

(* A review is made once, and again when the account moved on. *)
Review(t, at) ==
  /\ callers = "desks"
  /\ \/ desk[t].phase = "idle"
     \/ desk[t].phase = "reviewed" /\ desk[t].seen # AccountAnswer.checkpoint
  /\ Healthy
  /\ desk' = [desk EXCEPT ![t] = Draft(t, at, AccountAnswer)]
  /\ UNCHANGED deskOnly

ReviewOrder(t, at) == IsOrder(t) /\ Review(t, at)

(* A control is reviewed from the confirmed order it acts on. *)
ConfirmedArtifact(t) ==
  \E o \in Ids : desk[o].phase = "confirmed" /\ Wants[o] = Needs[Wants[t]]

ReviewControl(t, at) == ~IsOrder(t) /\ ConfirmedArtifact(t) /\ Review(t, at)

OrderUnchanged(t, account) == desk[t].seen = account.checkpoint
ControlUnchanged(t, account) == desk[t].seen = account.checkpoint

(* The confirmation reads health and account again before it asks for the  *)
(* signature; anything may happen while the wallet waits for its user.     *)
AskWallet(t) ==
  /\ Healthy
  /\ desk' = [desk EXCEPT ![t].phase = "signing"]
  /\ UNCHANGED deskOnly

ConfirmOrder(t) ==
  /\ IsOrder(t) /\ desk[t].phase = "reviewed"
  /\ OrderUnchanged(t, AccountAnswer)
  /\ AskWallet(t)

ConfirmControl(t) ==
  /\ ~IsOrder(t) /\ desk[t].phase = "reviewed"
  /\ ControlUnchanged(t, AccountAnswer)
  /\ AskWallet(t)

Decline(t) ==
  /\ desk[t].phase = "signing"
  /\ desk' = [desk EXCEPT ![t].phase = "reviewed"]
  /\ UNCHANGED deskOnly

Posted(d) == [d EXCEPT !.phase = "posting", !.posts = @ + 1, !.acked = FALSE]

Post(t) ==
  /\ desk' = [desk EXCEPT ![t] = Posted(@)]
  /\ calls' = calls \cup
       {[task |-> t, n |-> desk[t].posts + 1, stage |-> "sent", now |-> 0]}
  /\ UNCHANGED <<storeVars, gateway, callers>>

SignOrder(t) == IsOrder(t) /\ desk[t].phase = "signing" /\ Post(t)
SignControl(t) == ~IsOrder(t) /\ desk[t].phase = "signing" /\ Post(t)

Unanswered(t) == desk[t].phase \in {"rejected", "unknown"} /\ desk[t].posts < MaxPosts[t]

(* The same bytes again; an order goes out on the health of its review, *)
(* a control looks first.                                               *)
RetryOrder(t) == IsOrder(t) /\ Unanswered(t) /\ Post(t)
RetryControl(t) ==
  ~IsOrder(t) /\ Unanswered(t) /\ HealthPasses(HealthAnswer) /\ Post(t)

(* The fetch fails; the post may be anywhere. *)
GiveUp(t) ==
  /\ desk[t].phase = "posting"
  /\ desk' = [desk EXCEPT ![t].phase = "unknown"]
  /\ UNCHANGED deskOnly

-----------------------------------------------------------------------------
(* The answer. The command hash covers the stamped time.                   *)

Receipt(r) ==
  IF gateway = "proxy" THEN [id |-> r.id, body |-> r.body]
                       ELSE [id |-> r.id, body |-> r.body, hash |-> r]

OrderReceiptFits(t, receipt) ==
  receipt = [id |-> t, body |-> Wants[t], hash |-> Command(t)]

ControlReceiptFits(t, receipt) == receipt = [id |-> t, body |-> Wants[t]]

Done == {"accepted", "replayed"}

OutcomeOf(result, fits) ==
  CASE result \in Done /\ fits -> "confirmed"
    [] result = "refused" -> "rejected"
    [] OTHER -> "unknown"

OrderOutcome(t, result, r) ==
  OutcomeOf(result, result \in Done /\ OrderReceiptFits(t, Receipt(r)))
ControlOutcome(t, result, r) ==
  OutcomeOf(result, result \in Done /\ ControlReceiptFits(t, Receipt(r)))

Outcome(t, result, r) ==
  IF IsOrder(t) THEN OrderOutcome(t, result, r) ELSE ControlOutcome(t, result, r)

(* Fault: an error of the store is answered as one of the request. *)
StatusOfAnyError(result) == IF result = "fault" THEN "refused" ELSE result

(* errorStatus: an error of the store is a 503. *)
Status(result) == IF result = "fault" THEN "unavailable" ELSE result

(* The browser hears of the post it waits for and of no other. *)
Deliver(c, result, r) ==
  desk' = IF desk[c.task].phase = "posting" /\ desk[c.task].posts = c.n
          THEN [desk EXCEPT ![c.task] = [@ EXCEPT !.phase = Outcome(c.task, result, r),
                                                  !.acked = result \in Done]]
          ELSE desk

-----------------------------------------------------------------------------
(* The server.                                                             *)

InServer == {c \in calls : c.stage # "sent"}

Admits == IF gateway = "proxy" THEN HealthPasses(HealthAnswer) ELSE Accepting

(* The gateway and the server each match the header with the body. *)
GatewayTakes(q) == q.key = q.command.id /\ q.action \in {"accept-order", "control"}
ServerTakes(q) ==
  /\ q.key = q.command.id
  /\ q.action = (IF Needs[q.command.body] = None THEN "accept-order" ELSE "control")

(* Answered before the store saw it. *)
Reply(c, result) ==
  /\ Deliver(c, result, None)
  /\ calls' = calls \ {c}
  /\ UNCHANGED <<storeVars, gateway, callers>>

MoveTo(c, stage) == calls' = (calls \ {c}) \cup {[c EXCEPT !.stage = stage, !.now = clock]}

Arrives(c) == c.stage = "sent" /\ pc \in {"up", "down"}

TurnAway(c) ==
  /\ Arrives(c)
  /\ ~Admits \/ Cardinality(InServer) >= MaxPending
  /\ Reply(c, "unavailable")

(* 429 of either limiter, in the server and so through the gateway. *)
RateLimit(c) == Arrives(c) /\ Admits /\ Reply(c, "refused")

ReadBody(c) ==
  /\ Arrives(c)
  /\ Admits /\ GatewayTakes(Request(c.task))
  /\ Cardinality(InServer) < MaxPending
  /\ MoveTo(c, "reading")
  /\ UNCHANGED <<storeVars, desk, gateway, callers>>

(* 408, which the gateway turns into 503. *)
BodyTimesOut(c) ==
  /\ c.stage = "reading"
  /\ Reply(c, IF gateway = "proxy" THEN "unavailable" ELSE "refused")

(* The time is compared with the clock the request came in at. *)
Unfit(c) == ~ServerTakes(Request(c.task)) \/ ~TimeFits(Command(c.task), c.now)

RefuseBody(c) ==
  /\ c.stage = "reading"
  /\ Unfit(c)
  /\ Reply(c, "refused")

Mutate(c) ==
  /\ c.stage = "reading"
  /\ ~Unfit(c)
  /\ \/ /\ Submit(<<c.task, c.n>>, Command(c.task))
        /\ MoveTo(c, "storing")
        /\ UNCHANGED <<desk, gateway, callers>>
     \/ ~Accepting /\ Reply(c, "unavailable")

Respond(c, a) ==
  /\ a.from = <<c.task, c.n>>
  /\ Take(a)
  /\ Deliver(c, Status(a.result), a.record)
  /\ calls' = calls \ {c}
  /\ UNCHANGED <<gateway, callers>>

(* close waits for the requests in the server. *)
StopServer == InServer = {} /\ BeginClose /\ UNCHANGED <<desk, calls, gateway, callers>>

(* A dead process takes the calls in it along. *)
Crash ==
  /\ ProcessDies \/ PowerFails
  /\ calls' = calls \ InServer
  /\ UNCHANGED <<desk, gateway, callers>>

-----------------------------------------------------------------------------

StoreWorks ==
  \/ OpenStep
  \/ MutateStep
  \/ ReleaseWriterLock

Outside == ShowState \/ WriteFails \/ OperatorRemovesLock \/ ClockMoves

ServerStep == \E c \in calls :
  \/ TurnAway(c)
  \/ RateLimit(c)
  \/ ReadBody(c)
  \/ BodyTimesOut(c)
  \/ RefuseBody(c)
  \/ Mutate(c)
  \/ \E a \in answers : Respond(c, a)

DeskStep == \E t \in Ids :
  \/ \E at \in Times : ReviewOrder(t, at) \/ ReviewControl(t, at)
  \/ ConfirmOrder(t) \/ ConfirmControl(t)
  \/ Decline(t)
  \/ SignOrder(t) \/ SignControl(t)
  \/ RetryOrder(t) \/ RetryControl(t)
  \/ GiveUp(t)

(* Calls of mutate that come from anywhere, one at a time. *)
AnyCall ==
  /\ callers = "any"
  /\ \/ answers = {} /\ \E c \in Commands : Submit(None, c)
     \/ \E a \in answers : Take(a)
  /\ UNCHANGED <<desk, calls, gateway, callers>>

MatcherServiceNext ==
  \/ StoreWorks /\ UNCHANGED <<desk, calls, gateway, callers>>
  \/ Outside /\ UNCHANGED <<desk, calls, gateway, callers>>
  \/ StopServer
  \/ Crash
  \/ ServerStep
  \/ DeskStep
  \/ AnyCall

MatcherServiceSafety == MatcherServiceInit /\ [][MatcherServiceNext]_serviceVars

(* The event loop runs the promises that are due. *)
MatcherServiceFairness ==
  /\ WF_serviceVars(MutateStep /\ UNCHANGED <<desk, calls, gateway, callers>>)
  /\ WF_serviceVars(\E c \in calls, a \in answers : Respond(c, a))

-----------------------------------------------------------------------------

(* What the browser calls confirmed is in the journal for good, whatever   *)
(* crashes: matcher-order-workflow.ts keeps the artifact to cancel with.   *)
ConfirmedStands ==
  \A t \in Ids : desk[t].phase = "confirmed" =>
    \E r \in ToSet(UserLog(disk.journal)) : r.id = t /\ r.body = Wants[t]

(* A 4xx on the first post means the order was not taken and never will    *)
(* be: an error of the store is a 503, never a 4xx (errorStatus).          *)
FirstRefusalFinal ==
  \A t \in Ids : desk[t].phase = "rejected" /\ desk[t].posts = 1 =>
    /\ Prior(UserLog(disk.journal), t) = {}
    /\ \A q \in ToSet(queue) : q.command.id # t

(* What the browser tells of the first answer is so.                       *)
AnswersStand == ConfirmedStands /\ FirstRefusalFinal

(* Every call of mutate is answered or dies with its process, whatever the *)
(* ones before it came to.                                                 *)
CallsSettle ==
  \A t \in Ids : \A n \in 1 .. MaxPosts[t] :
    (\E c \in calls : c.task = t /\ c.n = n /\ c.stage = "storing")
      ~> (\A c \in calls : c.task # t \/ c.n # n)

(* "posts exact bytes, and binds its receipt": an order that was answered  *)
(* with 200 or 201 is confirmed (matcher-order-workflow.test.ts).          *)
AnsweredIsConfirmed ==
  \A t \in Ids : desk[t].acked => desk[t].phase = "confirmed"
=============================================================================
