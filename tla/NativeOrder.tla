----------------------------- MODULE NativeOrder -----------------------------
(***************************************************************************)
(* The native order surface: it asks an injected workflow to review the    *)
(* ticket's order and then to confirm the reviewed one, while the market,  *)
(* the deployment and the workflow it was given may change under either    *)
(* request, and the ticket at any time.                                    *)
(***************************************************************************)
EXTENDS Naturals, FiniteSets, Absent

CONSTANTS
  NativeMarkets,
  Deployments,       \* [market, config, enabled]
  NativeTerms,       \* what a ticket asks for, besides its market
  MaxContexts, MaxNativeCalls   \* bounds

ASSUME NativeConstants == None \notin {"review", "confirm"}

VARIABLES
  context,      \* [id, market, deployment, workflow]: id grows with every change
  retiring,     \* the effect that clears the old context's state is due
  ticket,       \* reviewInput: [market, terms], or None
  pending,      \* the frozen review, with the context it was made in, or None
  busy,         \* "review", "confirm" or None
  outcome,      \* or None
  calls,        \* requests to the workflow not yet answered
  accepted      \* request ids the matcher accepted with a receipt

nativeVars == <<context, retiring, ticket, pending, busy, outcome, calls, accepted>>

NativeInit ==
  /\ context \in [id : {1}, market : NativeMarkets, deployment : Deployments, workflow : BOOLEAN]
  /\ retiring = FALSE /\ pending = None /\ busy = None /\ outcome = None
  /\ ticket = None /\ calls = {} /\ accepted = {}

-----------------------------------------------------------------------------
\* nativeMatcherOrderActionState is "workflow-ready".
Ready ==
  /\ context.deployment.market = context.market
  /\ context.deployment.enabled
  /\ context.workflow /\ ticket # None /\ ticket.market = context.market

\* The parent renders with another market, deployment or workflow: the reference
\* moves at once, the state is cleared by the effect that follows.
Rerender ==
  /\ context.id < MaxContexts /\ retiring = FALSE
  /\ \E m \in NativeMarkets, d \in Deployments, w \in BOOLEAN :
       LET next == [id |-> context.id + 1, market |-> m, deployment |-> d, workflow |-> w]
       IN  /\ <<m, d, w>> # <<context.market, context.deployment, context.workflow>>
           /\ context' = next
  /\ retiring' = TRUE
  /\ UNCHANGED <<ticket, pending, busy, outcome, calls, accepted>>

Retire ==
  /\ retiring = TRUE
  /\ retiring' = FALSE
  /\ pending' = None /\ outcome' = None /\ busy' = None
  /\ UNCHANGED <<context, ticket, calls, accepted>>

EditTicket ==
  /\ ticket' \in {None} \cup [market : NativeMarkets, terms : NativeTerms]
  /\ UNCHANGED <<context, retiring, pending, busy, outcome, calls, accepted>>

\* The buttons are off while busy; an event waits for the effect.
Ask(kind, about) ==
  /\ retiring = FALSE /\ busy = None /\ Ready
  /\ Cardinality(calls) < MaxNativeCalls
  /\ busy' = kind /\ outcome' = None
  /\ calls' = calls \cup {[kind |-> kind, context |-> context, about |-> about]}
  /\ UNCHANGED <<context, retiring, ticket, pending, accepted>>

RequestOrderReview == Ask("review", ticket)

\* Shown and enabled while the review is of this context and has no outcome.
ConfirmReview ==
  /\ pending # None /\ outcome = None
  /\ pending.market = context.market /\ pending.deployment = context.deployment
  /\ Ask("confirm", pending.review)

\* What a review may come back as: its request names market, terms and
\* configuration together.
Reviews == [market : NativeMarkets, terms : NativeTerms, config : {d.config : d \in Deployments}]

BindReview(call, review) ==
  /\ review.config = call.context.deployment.config
  /\ review.market = call.about.market /\ review.terms = call.about.terms

(* Fault: the market alone tells whether the context is still the one of the call. *)
SameMarket(call) == call.context.market = context.market

OutcomeStands(call) == call.context.id = context.id

\* The answer to a review request: a review, or a failure.
Reviewed(call) ==
  /\ call.kind = "review"
  /\ calls' = calls \ {call}
  /\ IF OutcomeStands(call)
     THEN /\ busy' = None
          /\ \/ pending' = None
             \/ \E review \in Reviews :
                  pending' = IF BindReview(call, review)
                             THEN [market |-> call.context.market, deployment |-> call.context.deployment,
                                   review |-> review]
                             ELSE None
     ELSE UNCHANGED <<busy, pending>>
  /\ UNCHANGED <<context, retiring, ticket, outcome, accepted>>

\* A confirmed outcome must carry a receipt whose subject is the request reviewed.
BindOutcome(review, answer) == answer.request = review

\* The matcher takes the order or not, and the workflow answers that, that it
\* does not know, something about another request, or fails.
Confirmed(call) ==
  /\ call.kind = "confirm"
  /\ calls' = calls \ {call}
  /\ \E took \in BOOLEAN :
     \E answer \in [kind : {IF took THEN "confirmed" ELSE "rejected", "receipt-unknown"}, request : Reviews] :
       /\ accepted' = IF took THEN accepted \cup {call.about} ELSE accepted
       /\ IF OutcomeStands(call)
          THEN /\ busy' = None
               /\ outcome' = IF BindOutcome(call.about, answer) THEN answer ELSE outcome
          ELSE UNCHANGED <<busy, outcome>>
  /\ UNCHANGED <<context, retiring, ticket, pending>>

NativeNext ==
  \/ Rerender \/ Retire \/ EditTicket
  \/ RequestOrderReview \/ ConfirmReview
  \/ \E call \in calls : Reviewed(call) \/ Confirmed(call)

-----------------------------------------------------------------------------
\* What is on screen once the effect ran belongs together whatever changed
\* under the requests: the review is of this market and configuration, the
\* outcome is the outcome of the review shown, accepted only with a receipt,
\* and the buttons are off exactly while a request of this context is out.
OutcomeOfReview ==
  retiring = FALSE =>
    /\ pending # None =>
         /\ pending.review.market = context.market
         /\ pending.review.config = context.deployment.config
    /\ outcome # None =>
         /\ pending # None
         /\ outcome.request = pending.review
         /\ outcome.kind = "confirmed" => outcome.request \in accepted
    /\ busy = None <=> \A call \in calls : call.context.id # context.id
    /\ Cardinality({call \in calls : call.context.id = context.id}) <= 1
=============================================================================
