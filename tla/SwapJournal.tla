----------------------------- MODULE SwapJournal -----------------------------
(***************************************************************************)
(* The append-only journal of src/lib/swap-journal.ts over the swap state  *)
(* machine.  A receipt occupies a semantic slot for ever: appending the    *)
(* same payload again changes nothing, and appending another payload for   *)
(* an occupied slot throws, so both are steps that do not happen here.     *)
(* The next state is hashed into the receipt, and the state root refuses   *)
(* to hash a state that its integrity assertion rejects (swap-root.ts).    *)
(***************************************************************************)
EXTENDS SwapState

VARIABLE slots  \* the semantic slots of the receipts

journalVars == <<vars, slots>>

(* Fault: the time is part of the slot of a preparation. *)
PrepareSlotAtTime(l, h, t) == <<"prepare-funding", l, h, t>>

PrepareSlot(l, h, t) == <<"prepare-funding", l, h>>

(* Fault: the observer is not part of the slot of its report. *)
ObserveSlotOfFact(k, a) ==
  IF k = "funding"
    THEN <<"observe-funding", a.fact.leg, a.fact>>
    ELSE <<"observe-spend", a.fact.leg, a.fact.action, a.fact>>

(* swapEventSemanticSlot of a report: who reports which fact. *)
ObserveSlot(k, a) ==
  IF k = "funding"
    THEN <<"observe-funding", a.fact.leg, a.fact, a.source>>
    ELSE <<"observe-spend", a.fact.leg, a.fact.action, a.fact, a.source>>

(* That of a replacement.  A report is replaced at most once, so the        *)
(* identifier of the resolution tells no two replacements apart.           *)
ReplaceSlot(l, k, old) ==
  <<IF k = "funding" THEN "replace-funding-attestation" ELSE "replace-spend-attestation",
    l, old.id>>

(* The append of a receipt; the root hashes the next state, which the      *)
(* integrity assertion must accept.                                        *)
Record(slot) ==
  /\ slot \notin slots
  /\ slots' = slots \cup {slot}
  /\ SwapIntegrity'

JournalInit == Init /\ slots = {}

(* A report that is in its collection already, as the replacement of       *)
(* another: the library returns the state it was given, and the event is   *)
(* journaled all the same.                                                 *)
ObserveReplacement(l, k, a) ==
  /\ NotDisputed
  /\ a \in reports[<<l, k>>]
  /\ ValidEvidence(l, k, a.fact, a)
  /\ phase[l] \in {"funding-seen", "claim-seen", "refund-seen"}
  /\ (k = "funding") = (phase[l] = "funding-seen")
  /\ UNCHANGED vars
  /\ Record(ObserveSlot(k, a))

JournalNext ==
  \/ \E r \in Role, t \in Times :
       AuthorizeSwapTerms(r, t) /\ Record(<<"authorize-terms", r>>)
  \/ \E l \in Leg, h \in Artifacts, t \in Times :
       PrepareSwapFunding(l, h, t) /\ Record(PrepareSlot(l, h, t))
  \/ \E l \in Leg, h \in Artifacts :
       AbandonSwapFunding(l, h) /\ Record(<<"abandon-funding", l, h>>)
  \/ \E t \in Times : ExpireSwap(t) /\ Record(<<"expire-swap", t>>)
  \/ \E l \in Leg, a \in Attestations :
       ObserveSwapFunding(l, a) /\ Record(ObserveSlot("funding", a))
  \/ \E l \in Leg, f \in FundingFacts, t \in Times :
       ConfirmSwapFunding(l, f, t) /\ Record(<<"confirm-funding", l, f>>)
  \/ \E l \in Leg, a \in Attestations :
       ObserveSwapSpend(l, a) /\ Record(ObserveSlot("spend", a))
  \/ \E l \in Leg, f \in SpendFacts, t \in Times :
       ConfirmSwapSpend(l, f, t) /\ Record(<<"confirm-spend", l, f>>)
  \/ \E l \in Leg, k \in Kind, a \in Attestations : ObserveReplacement(l, k, a)
  \/ \E why \in Reason, e \in FlagTargets :
       FlagSwapDispute(why, e) /\ Record(<<"flag-dispute", why, e>>)
  \/ \E e \in EvidenceIds : RetractSwapEvidence(e) /\ Record(<<"retract-evidence", e>>)
  \/ \E l \in Leg, old, a \in Attestations, t \in Times :
       /\ ReplaceSwapFundingAttestation(l, old, a, t)
       /\ Record(ReplaceSlot(l, "funding", old))
  \/ \E l \in Leg, old, a \in Attestations, t \in Times :
       /\ ReplaceSwapSpendAttestation(l, old, a, t)
       /\ Record(ReplaceSlot(l, "spend", old))

JournalSpec == JournalInit /\ [][JournalNext]_journalVars

-----------------------------------------------------------------------------
(* What the journal adds to the library. *)

Heard(l, k, s) == \E a \in reports[<<l, k>>] : a.source = s

Displaced(l, k, s) ==
  \E r \in resolutions :
    r.leg = l /\ r.kind = k /\ r.retracted.source = s /\ r.replacement.source # s

Receipted(l, k, a) ==
  \/ ObserveSlot(k, a) \in slots
  \/ \E r \in resolutions :
       r.leg = l /\ r.kind = k /\ r.replacement = a /\ ReplaceSlot(l, k, r.retracted) \in slots

SourcesHeard(l, k) ==
  \A s \in Sources :
    ObserveSlot(k, [fact |-> fact[<<l, k>>], source |-> s]) \in slots =>
      Heard(l, k, s) \/ Displaced(l, k, s)

AllReceipted(l, k) == \A a \in reports[<<l, k>>] : Receipted(l, k, a)

(* Receipts are for ever while collections change: reports are withdrawn   *)
(* and replaced.  The two never drift apart.  The slot that would refuse a *)
(* source's report of the fact of a collection is occupied only if that    *)
(* source is heard in the collection, or lost its place in it to another   *)
(* source's replacement; and every report in a collection has its receipt, *)
(* that of its own observation or that of the replacement that brought it  *)
(* (swapEventSemanticSlot, appendSwapEvent).                               *)
ReceiptsMatchReports ==
  \A l \in Leg, k \in Kind : fact[<<l, k>>] # None => SourcesHeard(l, k) /\ AllReceipted(l, k)

(* A funding artifact that was abandoned never comes back: the funding may *)
(* be prepared again only as a newly hashed artifact (PRODUCT_SPEC).       *)
AbandonedStaysAbandoned ==
  \A l \in Leg, h \in Artifacts :
    <<"abandon-funding", l, h>> \in slots => artifact[l] # h
=============================================================================
