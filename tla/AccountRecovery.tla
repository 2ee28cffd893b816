--------------------------- MODULE AccountRecovery ---------------------------
(***************************************************************************)
(* A maker who lost the browser's records asks the matcher for the open    *)
(* orders of an account: page after page, each against a one-time          *)
(* challenge the wallet signs, through the gateway, while the matcher      *)
(* keeps filling, cancelling and accepting orders of that account.         *)
(*                                                                         *)
(* The account's orders are records [seq, expiry, epoch]; the other        *)
(* accounts appear through what their commands do to these and through the *)
(* challenges they hold.                                                   *)
(***************************************************************************)
EXTENDS Integers, Sequences, FiniteSets, SequencesExt, Absent

CONSTANTS
  Starts,             \* sequences a recovery may start after
  PageLimit,          \* orders per page
  PageBound,          \* pages the client follows
  ChallengeSeconds,   \* life of a challenge
  MaxChallenges,      \* challenges the server keeps
  OrderExpiries,      \* expiries of the orders the account signs
  MaxMutations, MaxRecoveryTime   \* bounds

ASSUME RecoveryAssumption ==
  PageLimit \in Nat \ {0} /\ Starts \subseteq Nat /\ OrderExpiries \subseteq Nat

VARIABLES
  live,          \* the account's open orders in the store's state
  liveEpoch,     \* the account's epoch there
  applied,       \* sequence of the store's state
  checkpointed,  \* sequence of the checkpoint the store holds
  serving,       \* the store accepts mutations
  challenges,    \* the server's challenges: a set of records
  issued,        \* challenges made so far: names the next one
  visitor,       \* the client's recovery
  post,          \* the request on its way, or None
  recoveryNow,
  since,         \* sequences of the orders open at every moment since the recovery began
  ever           \* orders open at some moment since the recovery began

recoveryVars == <<live, liveEpoch, applied, checkpointed, serving, challenges, issued,
                  visitor, post, recoveryNow, since, ever>>

Resting == [phase |-> "idle", start |-> 0, after |-> 0, pages |-> 0, checkpoint |-> None,
            epoch |-> None, orders |-> <<>>, challenge |-> None]

RecoveryInit ==
  /\ live = {} /\ liveEpoch = 0 /\ applied = 0 /\ checkpointed = 0 /\ serving = TRUE
  /\ challenges = {} /\ issued = 0
  /\ visitor = Resting /\ post = None
  /\ recoveryNow = 0 /\ since = {} /\ ever = {}

-----------------------------------------------------------------------------
(* The store: one command at a time changes the state and then writes the  *)
(* checkpoint; a checkpoint that cannot be written faults the store.       *)

Mutate(open) ==
  /\ serving /\ applied = checkpointed /\ applied < MaxMutations
  /\ applied' = applied + 1
  /\ live' = open
  /\ since' = since \cap {o.seq : o \in open}
  /\ ever' = IF visitor.phase = "idle" THEN {} ELSE ever \cup open
  /\ UNCHANGED <<checkpointed, serving, challenges, issued, visitor, post, recoveryNow>>

AcceptOwn ==
  \E e \in OrderExpiries :
    /\ e > recoveryNow
    /\ Mutate(live \cup {[seq |-> applied + 1, expiry |-> e, epoch |-> liveEpoch]})
    /\ UNCHANGED liveEpoch

\* A command of another account fills one of the orders, in part or whole; a
\* cancellation of the account's own removes it as well.
CloseOrFill ==
  /\ \/ \E o \in live : Mutate(live \ {o})
     \/ live # {} /\ Mutate(live)
  /\ UNCHANGED liveEpoch

AdvanceOwnEpoch ==
  /\ liveEpoch = 0
  /\ liveEpoch' = 1
  /\ Mutate({})

WriteCheckpoint ==
  /\ serving /\ checkpointed < applied
  /\ \/ checkpointed' = applied /\ UNCHANGED serving
     \/ serving' = FALSE /\ UNCHANGED checkpointed
  /\ UNCHANGED <<live, liveEpoch, applied, challenges, issued, visitor, post, recoveryNow,
                 since, ever>>

\* The matcher restarts: what is on its way is lost, and so are the challenges.
RestartMatcher ==
  /\ ~serving \/ challenges # {}
  /\ serving' = TRUE /\ checkpointed' = applied
  /\ challenges' = {}
  /\ IF post = None THEN UNCHANGED <<visitor, post>>
     ELSE visitor' = [Resting EXCEPT !.phase = "failed"] /\ post' = None
  /\ UNCHANGED <<live, liveEpoch, applied, issued, recoveryNow, since, ever>>

-----------------------------------------------------------------------------
(* The client.                                                             *)

\* What the wallet signs and the server holds a proof against.
Authorization(c) ==
  [id |-> c.id, after |-> c.after, checkpoint |-> c.checkpoint, expires |-> c.expires]

Send(kind) == post' = [kind |-> kind, stage |-> "sent", now |-> None, answer |-> None]

\* The fault of a step, or an answer the gateway or the client refuses, ends the
\* recovery; the client has nothing to retry with.
FailRecovery ==
  /\ visitor' = [Resting EXCEPT !.phase = "failed"]
  /\ post' = None

BeginRecovery ==
  /\ visitor.phase = "idle"
  /\ \E a \in Starts : visitor' = [Resting EXCEPT !.phase = "asking", !.start = a, !.after = a]
  /\ Send("ask")
  /\ since' = {o.seq : o \in live} /\ ever' = live
  /\ UNCHANGED <<live, liveEpoch, applied, checkpointed, serving, challenges, issued, recoveryNow>>

HealthInOrder == serving /\ applied = checkpointed

\* The gateway finds the matcher's health in order, no write in flight, and
\* forwards the request; the server finds its store accepting mutations, reads
\* its clock and then the body, and does not ask about the store again.
Arrive ==
  /\ post # None /\ post.stage = "sent"
  /\ IF HealthInOrder
     THEN /\ post' = [post EXCEPT !.stage = "reading", !.now = recoveryNow]
          /\ UNCHANGED visitor
     ELSE FailRecovery
  /\ UNCHANGED <<live, liveEpoch, applied, checkpointed, serving, challenges, issued,
                 recoveryNow, since, ever>>

\* Orders in the order they were accepted.
InSequence(orders) ==
  CHOOSE s \in [1..Cardinality(orders) -> orders] :
    \A i, j \in 1..Cardinality(orders) : i < j => s[i].seq < s[j].seq

Matching(after, now) == InSequence({o \in live : o.seq > after /\ o.expiry > now})

Shown(matching) == SubSeq(matching, 1, IF Len(matching) < PageLimit THEN Len(matching) ELSE PageLimit)

(* Fault: a single order left over makes no further page. *)
LastPageEarly(matching, after) ==
  LET page == Shown(matching)
  IN  [orders |-> page, nextAfter |-> IF page = <<>> THEN after ELSE Last(page).seq,
       hasMore |-> Len(matching) > Len(page) + 1]

\* The page of the challenge: taken now, from the state, under the checkpoint
\* held; an order whose receipt no checkpoint covers yet cannot be shown.
RecoveryOpenOrderPage(matching, after) ==
  LET page == Shown(matching)
  IN  [orders |-> page, nextAfter |-> IF page = <<>> THEN after ELSE Last(page).seq,
       hasMore |-> Len(matching) > Len(page)]

Pruned(now) == {c \in challenges : c.expires >= now}

IssueChallenge ==
  /\ post # None /\ post.kind = "ask" /\ post.stage = "reading"
  /\ \E page \in {RecoveryOpenOrderPage(Matching(visitor.after, post.now), visitor.after)} :
     \E kept \in {Pruned(post.now)} :
       IF /\ Cardinality(kept) < MaxChallenges
          /\ \A i \in DOMAIN page.orders : page.orders[i].seq <= checkpointed
       THEN LET c == [id |-> issued, after |-> visitor.after, checkpoint |-> checkpointed,
                      epoch |-> liveEpoch, page |-> page, issuedAt |-> post.now,
                      expires |-> post.now + ChallengeSeconds]
            IN  /\ challenges' = kept \cup {c}
                /\ issued' = issued + 1
                /\ post' = [post EXCEPT !.stage = "answered", !.answer = c]
                /\ UNCHANGED visitor
       ELSE /\ challenges' = kept
            /\ UNCHANGED issued
            /\ FailRecovery
  /\ UNCHANGED <<live, liveEpoch, applied, checkpointed, serving, recoveryNow, since, ever>>

\* The client holds the challenge against its clock and against the checkpoint
\* of the pages before, has the wallet sign, and sends the proof.
TakeChallenge ==
  /\ post # None /\ post.kind = "ask" /\ post.stage = "answered"
  /\ IF /\ post.answer.issuedAt <= recoveryNow /\ recoveryNow <= post.answer.expires
        /\ visitor.checkpoint \in {None, post.answer.checkpoint}
     THEN /\ visitor' = [visitor EXCEPT !.phase = "signing", !.checkpoint = post.answer.checkpoint,
                                        !.challenge = Authorization(post.answer)]
          /\ post' = None
     ELSE FailRecovery
  /\ UNCHANGED <<live, liveEpoch, applied, checkpointed, serving, challenges, issued,
                 recoveryNow, since, ever>>

\* The wallet may show another account or chain by now, or refuse.
SignProof ==
  /\ visitor.phase = "signing"
  /\ \/ visitor' = [visitor EXCEPT !.phase = "proving"] /\ Send("prove")
     \/ FailRecovery
  /\ UNCHANGED <<live, liveEpoch, applied, checkpointed, serving, challenges, issued,
                 recoveryNow, since, ever>>

\* A proof is taken once, within the times of its challenge, and answered with
\* the page that was stored with it.
AnswerProof ==
  /\ post # None /\ post.kind = "prove" /\ post.stage = "reading"
  /\ \E held \in {{c \in challenges : Authorization(c) = visitor.challenge}} :
       IF /\ held # {}
          /\ \A c \in held : c.issuedAt <= post.now /\ post.now <= c.expires
       THEN /\ challenges' = challenges \ held
            /\ post' = [post EXCEPT !.stage = "answered", !.answer = CHOOSE c \in held : TRUE]
            /\ UNCHANGED visitor
       ELSE FailRecovery /\ UNCHANGED challenges
  /\ UNCHANGED <<live, liveEpoch, applied, checkpointed, serving, issued, recoveryNow, since, ever>>

OrderFits(o, prior, c) == o.epoch = c.epoch /\ prior < o.seq /\ o.seq <= c.checkpoint

\* What gateway and client both ask of a page: orders of one epoch, in order,
\* past the cursor, under the checkpoint.
PageAccepted(c) ==
  /\ visitor.epoch \in {None, c.epoch}
  /\ c.page.hasMore => Len(c.page.orders) = PageLimit
  /\ \A i \in DOMAIN c.page.orders :
       OrderFits(c.page.orders[i], IF i = 1 THEN c.after ELSE c.page.orders[i-1].seq, c)

TakePage ==
  /\ post # None /\ post.kind = "prove" /\ post.stage = "answered"
  /\ IF PageAccepted(post.answer)
     THEN \E seen \in {[visitor EXCEPT !.orders = visitor.orders \o post.answer.page.orders,
                          !.epoch = post.answer.epoch, !.after = post.answer.page.nextAfter,
                          !.pages = visitor.pages + 1, !.challenge = None]} :
            IF ~post.answer.page.hasMore
            THEN visitor' = [seen EXCEPT !.phase = "done"] /\ post' = None
            ELSE IF seen.pages = PageBound THEN FailRecovery
            ELSE visitor' = [seen EXCEPT !.phase = "asking"] /\ Send("ask")
     ELSE FailRecovery
  /\ UNCHANGED <<live, liveEpoch, applied, checkpointed, serving, challenges, issued,
                 recoveryNow, since, ever>>

\* A request or an answer is lost, or the gateway stops waiting for it.
LosePost ==
  /\ post # None
  /\ FailRecovery
  /\ UNCHANGED <<live, liveEpoch, applied, checkpointed, serving, challenges, issued,
                 recoveryNow, since, ever>>

\* Another visitor asks and never proves.
OtherChallenge ==
  /\ serving /\ issued = 0
  /\ Cardinality(Pruned(recoveryNow)) < MaxChallenges
  /\ challenges' = Pruned(recoveryNow) \cup
       {[id |-> issued, after |-> 0, checkpoint |-> checkpointed, epoch |-> 0, issuedAt |-> recoveryNow,
         page |-> RecoveryOpenOrderPage(<<>>, 0), expires |-> recoveryNow + ChallengeSeconds]}
  /\ issued' = issued + 1
  /\ UNCHANGED <<live, liveEpoch, applied, checkpointed, serving, visitor, post, recoveryNow,
                 since, ever>>

RecoverySecond ==
  /\ recoveryNow < MaxRecoveryTime
  /\ recoveryNow' = recoveryNow + 1
  /\ UNCHANGED <<live, liveEpoch, applied, checkpointed, serving, challenges, issued, visitor,
                 post, since, ever>>

\* Once the recovery is over, nothing that happens matters to it.
RecoveryNext ==
  /\ visitor.phase \notin {"done", "failed"}
  /\ \/ AcceptOwn \/ CloseOrFill \/ AdvanceOwnEpoch \/ WriteCheckpoint \/ RestartMatcher
     \/ BeginRecovery \/ Arrive \/ IssueChallenge \/ TakeChallenge \/ SignProof
     \/ AnswerProof \/ TakePage \/ LosePost \/ OtherChallenge \/ RecoverySecond

-----------------------------------------------------------------------------
\* A recovery that ends well lists every order that was open from its beginning
\* to its end and has not expired, and lists no order twice and none that was
\* not open meanwhile, though each page is read from a state that may have moved
\* since the page before (recoveryOpenOrderPage, recoverMatcherAccountOrders).
RecoveryComplete ==
  visitor.phase = "done" =>
    LET listed == [i \in DOMAIN visitor.orders |-> visitor.orders[i].seq]
    IN  /\ \A o \in live : o.seq \in since /\ o.seq > visitor.start /\ o.expiry > recoveryNow
                             => o.seq \in Range(listed)
        /\ Range(visitor.orders) \subseteq ever
        /\ Cardinality(Range(listed)) = Len(listed)
=============================================================================
