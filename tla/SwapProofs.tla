------------------------------ MODULE SwapProofs -----------------------------
(***************************************************************************)
(* The state machine of one swap and its journal, for every choice of the  *)
(* constants: types and the causal order of the two legs, the assertion of *)
(* swap-state.ts as an invariant of its operations, and what the journal   *)
(* adds to the library.                                                    *)
(***************************************************************************)
EXTENDS SwapJournal, FiniteSetTheorems, TLAPS

-----------------------------------------------------------------------------
(* Every step of the machine is a step of one operation. *)

LEMMA StepCases ==
  ASSUME Next
  PROVE  \/ \E r \in Role, t \in Times : AuthorizeSwapTerms(r, t)
         \/ \E l \in Leg, h \in Artifacts, t \in Times : PrepareSwapFunding(l, h, t)
         \/ \E l \in Leg, h \in Artifacts : AbandonSwapFunding(l, h)
         \/ \E t \in Times : ExpireSwap(t)
         \/ \E l \in Leg, a \in Attestations : ObserveSwapFunding(l, a)
         \/ \E l \in Leg, f \in FundingFacts, t \in Times : ConfirmSwapFunding(l, f, t)
         \/ \E l \in Leg, a \in Attestations : ObserveSwapSpend(l, a)
         \/ \E l \in Leg, f \in SpendFacts, t \in Times : ConfirmSwapSpend(l, f, t)
         \/ \E why \in Reason, e \in FlagTargets : FlagSwapDispute(why, e)
         \/ \E e \in EvidenceIds : RetractSwapEvidence(e)
         \/ \E l \in Leg, k \in Kind, old, a \in Attestations, t \in Times :
              Replace(l, k, old, a, t)
<1>1. \A l, old, a, t : ReplaceSwapFundingAttestation(l, old, a, t)
                          => Replace(l, "funding", old, a, t)
  BY DEF ReplaceSwapFundingAttestation
<1>2. \A l, old, a, t : ReplaceSwapSpendAttestation(l, old, a, t)
                          => Replace(l, "spend", old, a, t)
  BY DEF ReplaceSwapSpendAttestation
<1>3. "funding" \in Kind /\ "spend" \in Kind
  BY DEF Kind
<1>. QED  BY <1>1, <1>2, <1>3 DEF Next

(* The types of the facts and reports that the operations may be given. *)
LEMMA InputsTyped ==
  /\ \A f \in FundingFacts : f \in Facts
  /\ \A f \in SpendFacts : f \in Facts
  /\ \A a \in Attestations : a.id \in EvidenceIds /\ a.fact \in Facts
  /\ FlagTargets \subseteq EvidenceIds \cup Facts \cup {None}
BY InputTypes DEF Facts

-----------------------------------------------------------------------------
(* The state is always a SwapState. *)
THEOREM TypeCorrect == Spec => []TypeOK
<1>1. Init => TypeOK
  BY DEF Init, TypeOK, Phase, FundedPhase
<1>2. TypeOK /\ [Next]_vars => TypeOK'
  <2>. SUFFICES ASSUME TypeOK, [Next]_vars PROVE TypeOK'
    OBVIOUS
  <2>1. ASSUME NEW r \in Role, NEW t \in Times, AuthorizeSwapTerms(r, t) PROVE TypeOK'
    BY <2>1 DEF TypeOK, AuthorizeSwapTerms, legVars, secretVars, recoveryVars
  <2>2. ASSUME NEW l \in Leg, NEW h \in Artifacts, NEW t \in Times,
               PrepareSwapFunding(l, h, t)
        PROVE  TypeOK'
    BY <2>2 DEF TypeOK, PrepareSwapFunding, secretVars, recoveryVars, Phase
  <2>3. ASSUME NEW l \in Leg, NEW h \in Artifacts, AbandonSwapFunding(l, h) PROVE TypeOK'
    BY <2>3 DEF TypeOK, AbandonSwapFunding, secretVars, recoveryVars, Phase
  <2>4. ASSUME NEW t \in Times, ExpireSwap(t) PROVE TypeOK'
    BY <2>4 DEF TypeOK, ExpireSwap, secretVars, recoveryVars, Phase
  <2>5. ASSUME NEW l \in Leg, NEW k \in Kind, NEW a \in Attestations, Collect(l, k, a)
        PROVE  /\ fact' \in [Slot -> Facts \cup {None}]
               /\ reports' \in [Slot -> SUBSET Attestations]
               /\ disputes' \subseteq Dispute
    <3>1. [reason |-> "observer-conflict", evidence |-> a.id] \in Dispute
      BY InputsTyped DEF Dispute, Reason
    <3>2. <<l, k>> \in Slot
      BY DEF Slot
    <3>. QED  BY <2>5, <3>1, <3>2, InputsTyped DEF TypeOK, Collect
  <2>6. ASSUME NEW l \in Leg, NEW a \in Attestations, ObserveSwapFunding(l, a) PROVE TypeOK'
    <3>1. "funding" \in Kind /\ Collect(l, "funding", a)
      BY <2>6 DEF ObserveSwapFunding, Kind
    <3>. QED  BY <2>6, <2>5, <3>1 DEF TypeOK, ObserveSwapFunding, secretVars, Phase
  <2>7. ASSUME NEW l \in Leg, NEW f \in FundingFacts, NEW t \in Times,
               ConfirmSwapFunding(l, f, t)
        PROVE  TypeOK'
    BY <2>7 DEF TypeOK, ConfirmSwapFunding, secretVars, recoveryVars, Phase, FundedPhase,
                Slot, Kind
  <2>8. ASSUME NEW l \in Leg, NEW a \in Attestations, ObserveSwapSpend(l, a) PROVE TypeOK'
    <3>1. "spend" \in Kind /\ Collect(l, "spend", a)
      BY <2>8 DEF ObserveSwapSpend, Kind
    <3>2. a.fact \in SpendFacts
      BY <2>8 DEF ObserveSwapSpend, ValidSpend
    <3>3. SeenPhase(a.fact) \in Phase
      BY DEF SeenPhase, Phase, FundedPhase
    <3>4. observedSecret' \in SpendFacts \cup {None}
      BY <2>8, <3>2 DEF TypeOK, ObserveSwapSpend, RevealedBy
    <3>. QED  BY <2>8, <2>5, <3>1, <3>3, <3>4 DEF TypeOK, ObserveSwapSpend
  <2>9. ASSUME NEW l \in Leg, NEW f \in SpendFacts, NEW t \in Times,
               ConfirmSwapSpend(l, f, t)
        PROVE  TypeOK'
    BY <2>9 DEF TypeOK, ConfirmSwapSpend, recoveryVars, Phase, FundedPhase, Slot, Kind
  <2>10. ASSUME NEW why \in Reason, NEW e \in FlagTargets, FlagSwapDispute(why, e)
         PROVE  TypeOK'
    <3>1. [reason |-> why, evidence |-> e] \in Dispute
      BY InputsTyped DEF Dispute
    <3>. QED  BY <2>10, <3>1 DEF TypeOK, FlagSwapDispute, legVars, secretVars
  <2>11. ASSUME NEW e \in EvidenceIds, RetractSwapEvidence(e) PROVE TypeOK'
    <3>1. [reason |-> "reorganization", evidence |-> e] \in Dispute
      BY DEF Dispute, Reason
    <3>. QED  BY <2>11, <3>1 DEF TypeOK, RetractSwapEvidence, legVars, secretVars
  <2>12. ASSUME NEW l \in Leg, NEW k \in Kind, NEW old \in Attestations,
                NEW a \in Attestations, NEW t \in Times, Replace(l, k, old, a, t)
         PROVE  TypeOK'
    <3>1. [leg |-> l, kind |-> k, retracted |-> old, replacement |-> a] \in Resolution
      BY DEF Resolution
    <3>. QED  BY <2>12, <3>1 DEF TypeOK, Replace, secretVars, Slot
  <2>13. CASE UNCHANGED vars
    BY <2>13 DEF TypeOK, vars, legVars, secretVars, recoveryVars
  <2>. QED
    BY <2>1, <2>2, <2>3, <2>4, <2>6, <2>7, <2>8, <2>9, <2>10, <2>11, <2>12, <2>13, StepCases
<1>. QED  BY <1>1, <1>2, PTL DEF Spec

-----------------------------------------------------------------------------
(* What an open dispute stops and what it survives. *)

(* A step other than those of the dispute operations and of authorization  *)
(* starts undisputed.                                                      *)
LEMMA UndisputedSteps ==
  ASSUME Next, disputes # {}
  PROVE  \/ \E r \in Role, t \in Times : AuthorizeSwapTerms(r, t)
         \/ \E why \in Reason, e \in FlagTargets : FlagSwapDispute(why, e)
         \/ \E e \in EvidenceIds : RetractSwapEvidence(e)
         \/ \E l \in Leg, k \in Kind, old, a \in Attestations, t \in Times :
              Replace(l, k, old, a, t)
<1>1. \A l, h, t : ~PrepareSwapFunding(l, h, t)
  BY DEF PrepareSwapFunding, NotDisputed
<1>2. \A l, h : ~AbandonSwapFunding(l, h)
  BY DEF AbandonSwapFunding, NotDisputed
<1>3. \A t : ~ExpireSwap(t)
  BY DEF ExpireSwap, NotDisputed
<1>4. \A l, a : ~ObserveSwapFunding(l, a) /\ ~ObserveSwapSpend(l, a)
  BY DEF ObserveSwapFunding, ObserveSwapSpend, NotDisputed
<1>5. \A l, f, t : ~ConfirmSwapFunding(l, f, t) /\ ~ConfirmSwapSpend(l, f, t)
  BY DEF ConfirmSwapFunding, ConfirmSwapSpend, NotDisputed
<1>. QED  BY <1>1, <1>2, <1>3, <1>4, <1>5, StepCases

(* While a dispute is open neither leg advances, whatever is called.       *)
THEOREM DisputesFreeze == Spec => DisputeFreezesProgress
<1>1. [Next]_vars =>
        [disputes # {} => UNCHANGED <<phase, artifact, preparedAt, confirmedAt,
                                      fact, secretVars, expired>>]_vars
  <2>. SUFFICES ASSUME Next, disputes # {}
                PROVE  UNCHANGED <<phase, artifact, preparedAt, confirmedAt,
                                   fact, secretVars, expired>>
    OBVIOUS
  <2>1. ASSUME NEW r \in Role, NEW t \in Times, AuthorizeSwapTerms(r, t)
        PROVE  UNCHANGED <<phase, artifact, preparedAt, confirmedAt, fact, secretVars, expired>>
    BY <2>1 DEF AuthorizeSwapTerms, legVars
  <2>2. ASSUME NEW why \in Reason, NEW e \in FlagTargets, FlagSwapDispute(why, e)
        PROVE  UNCHANGED <<phase, artifact, preparedAt, confirmedAt, fact, secretVars, expired>>
    BY <2>2 DEF FlagSwapDispute, legVars
  <2>3. ASSUME NEW e \in EvidenceIds, RetractSwapEvidence(e)
        PROVE  UNCHANGED <<phase, artifact, preparedAt, confirmedAt, fact, secretVars, expired>>
    BY <2>3 DEF RetractSwapEvidence, legVars
  <2>4. ASSUME NEW l \in Leg, NEW k \in Kind, NEW old \in Attestations,
               NEW a \in Attestations, NEW t \in Times, Replace(l, k, old, a, t)
        PROVE  UNCHANGED <<phase, artifact, preparedAt, confirmedAt, fact, secretVars, expired>>
    BY <2>4 DEF Replace
  <2>. QED  BY <2>1, <2>2, <2>3, <2>4, UndisputedSteps
<1>. QED  BY <1>1, PTL DEF Spec, DisputeFreezesProgress

(* A dispute that is not about a reorganization is open for ever.          *)
THEOREM HardDisputesPersist == Spec => HardDisputePersists
<1>1. [Next]_vars =>
        [\A d \in disputes : d.reason # "reorganization" => d \in disputes']_vars
  <2>. SUFFICES ASSUME Next, NEW d \in disputes, d.reason # "reorganization"
                PROVE  d \in disputes'
    OBVIOUS
  <2>1. ASSUME NEW r \in Role, NEW t \in Times, AuthorizeSwapTerms(r, t)
        PROVE  d \in disputes'
    BY <2>1 DEF AuthorizeSwapTerms, recoveryVars
  <2>2. ASSUME NEW why \in Reason, NEW e \in FlagTargets, FlagSwapDispute(why, e)
        PROVE  d \in disputes'
    BY <2>2 DEF FlagSwapDispute
  <2>3. ASSUME NEW e \in EvidenceIds, RetractSwapEvidence(e) PROVE d \in disputes'
    BY <2>3 DEF RetractSwapEvidence
  <2>4. ASSUME NEW l \in Leg, NEW k \in Kind, NEW old \in Attestations,
               NEW a \in Attestations, NEW t \in Times, Replace(l, k, old, a, t)
        PROVE  FALSE
    BY <2>4 DEF Replace, MayReplace, OnlyDispute
  <2>. QED  BY <2>1, <2>2, <2>3, <2>4, UndisputedSteps
<1>. QED  BY <1>1, PTL DEF Spec, HardDisputePersists

-----------------------------------------------------------------------------
(* What is final stays final. *)

(* The integrity assertion ties the confirmation of a slot to the phase of *)
(* its leg.                                                                *)
LEMMA ConfirmedPhases ==
  ASSUME SwapIntegrity, NEW l \in Leg
  PROVE  /\ confirmedAt[<<l, "funding">>] # None => phase[l] \in FundedPhase
         /\ confirmedAt[<<l, "spend">>] # None => phase[l] \in SpentPhase
BY DEF SwapIntegrity, RecoverableIntegrity, LegIntegrity

Frozen ==
  /\ \A s \in Slot : confirmedAt[s] # None =>
       /\ confirmedAt'[s] = confirmedAt[s]
       /\ fact'[s] = fact[s]
       /\ reports'[s] = reports[s]
       /\ ~\E a \in reports[s] : a.id \in retracted' \ retracted
  /\ confirmedSecret # None => UNCHANGED secretVars

(* A step that changes one slot only, and withdraws nothing, leaves what   *)
(* is confirmed in the other slots alone.                                  *)
LEMMA OneSlotChanges ==
  ASSUME TypeOK, NEW u \in Slot, confirmedAt[u] = None,
         \A s \in Slot \ {u} : /\ confirmedAt'[s] = confirmedAt[s]
                               /\ fact'[s] = fact[s]
                               /\ reports'[s] = reports[s],
         retracted' = retracted,
         confirmedSecret # None => UNCHANGED secretVars
  PROVE  Frozen
BY DEF Frozen

(* Nothing confirmed is ever changed or withdrawn, and the secret that is  *)
(* final is never exchanged.                                               *)
THEOREM ConfirmationsFrozen == Spec => ConfirmedEvidenceFrozen
<1>1. TypeOK /\ [Next]_vars => [Frozen]_vars
  <2>. SUFFICES ASSUME TypeOK, Next PROVE Frozen
    OBVIOUS
  <2>1. ASSUME NEW r \in Role, NEW t \in Times, AuthorizeSwapTerms(r, t) PROVE Frozen
    BY <2>1 DEF Frozen, AuthorizeSwapTerms, legVars, secretVars, recoveryVars
  <2>2. ASSUME NEW l \in Leg, NEW h \in Artifacts, NEW t \in Times, PrepareSwapFunding(l, h, t)
        PROVE  Frozen
    BY <2>2 DEF Frozen, PrepareSwapFunding, recoveryVars
  <2>3. ASSUME NEW l \in Leg, NEW h \in Artifacts, AbandonSwapFunding(l, h) PROVE Frozen
    BY <2>3 DEF Frozen, AbandonSwapFunding, recoveryVars
  <2>4. ASSUME NEW t \in Times, ExpireSwap(t) PROVE Frozen
    BY <2>4 DEF Frozen, ExpireSwap, recoveryVars
  <2>5. ASSUME NEW l \in Leg, NEW a \in Attestations, ObserveSwapFunding(l, a) PROVE Frozen
    <3>1. phase[l] \notin FundedPhase /\ <<l, "funding">> \in Slot
      BY <2>5 DEF ObserveSwapFunding, FundedPhase, Slot, Kind
    <3>2. confirmedAt[<<l, "funding">>] = None
      BY <2>5, <3>1, ConfirmedPhases DEF ObserveSwapFunding
    <3>. QED  BY <2>5, <3>1, <3>2, OneSlotChanges DEF TypeOK, ObserveSwapFunding, Collect
  <2>6. ASSUME NEW l \in Leg, NEW f \in FundingFacts, NEW t \in Times, ConfirmSwapFunding(l, f, t)
        PROVE  Frozen
    <3>1. phase[l] \notin FundedPhase /\ <<l, "funding">> \in Slot
      BY <2>6 DEF ConfirmSwapFunding, FundedPhase, Slot, Kind
    <3>2. confirmedAt[<<l, "funding">>] = None
      BY <2>6, <3>1, ConfirmedPhases DEF ConfirmSwapFunding
    <3>. QED  BY <2>6, <3>1, <3>2, OneSlotChanges DEF TypeOK, ConfirmSwapFunding, recoveryVars
  <2>7. ASSUME NEW l \in Leg, NEW a \in Attestations, ObserveSwapSpend(l, a) PROVE Frozen
    <3>1. phase[l] \notin SpentPhase /\ <<l, "spend">> \in Slot
      BY <2>7 DEF ObserveSwapSpend, SeenPhase, SpentPhase, Slot, Kind
    <3>2. confirmedAt[<<l, "spend">>] = None
      BY <2>7, <3>1, ConfirmedPhases DEF ObserveSwapSpend
    <3>3. confirmedSecret # None => observedSecret # None
      BY <2>7 DEF ObserveSwapSpend, SwapIntegrity, RecoverableIntegrity, SecretsBound
    <3>4. confirmedSecret # None => UNCHANGED secretVars
      BY <2>7, <3>3 DEF ObserveSwapSpend, RevealedBy, secretVars
    <3>. QED  BY <2>7, <3>1, <3>2, <3>4, OneSlotChanges DEF TypeOK, ObserveSwapSpend, Collect
  <2>8. ASSUME NEW l \in Leg, NEW f \in SpendFacts, NEW t \in Times, ConfirmSwapSpend(l, f, t)
        PROVE  Frozen
    <3>1. phase[l] \notin SpentPhase /\ <<l, "spend">> \in Slot
      BY <2>8 DEF ConfirmSwapSpend, SpentPhase, Slot, Kind
    <3>2. confirmedAt[<<l, "spend">>] = None
      BY <2>8, <3>1, ConfirmedPhases DEF ConfirmSwapSpend
    <3>3. confirmedSecret # None => phase["evm"] = "claimed-confirmed"
      BY <2>8 DEF ConfirmSwapSpend, SwapIntegrity, RecoverableIntegrity, SecretsBound
    <3>4. confirmedSecret # None => UNCHANGED secretVars
      BY <2>8, <3>3 DEF ConfirmSwapSpend, secretVars
    <3>. QED  BY <2>8, <3>1, <3>2, <3>4, OneSlotChanges DEF TypeOK, ConfirmSwapSpend, recoveryVars
  <2>9. ASSUME NEW why \in Reason, NEW e \in FlagTargets, FlagSwapDispute(why, e) PROVE Frozen
    BY <2>9 DEF Frozen, FlagSwapDispute, legVars, secretVars
  <2>10. ASSUME NEW e \in EvidenceIds, RetractSwapEvidence(e) PROVE Frozen
    <3>1. \A s \in Slot : \A a \in reports[s] : a.id = e => confirmedAt[s] = None
      BY <2>10 DEF RetractSwapEvidence, Retractable
    <3>. QED  BY <2>10, <3>1 DEF Frozen, RetractSwapEvidence, legVars, secretVars
  <2>11. ASSUME NEW l \in Leg, NEW old \in Attestations, NEW a \in Attestations, NEW t \in Times,
                ReplaceSwapFundingAttestation(l, old, a, t)
         PROVE  Frozen
    <3>1. phase[l] \notin FundedPhase /\ <<l, "funding">> \in Slot
      BY <2>11 DEF ReplaceSwapFundingAttestation, FundedPhase, Slot, Kind
    <3>2. confirmedAt[<<l, "funding">>] = None
      BY <2>11, <3>1, ConfirmedPhases DEF ReplaceSwapFundingAttestation, Replace, MayReplace
    <3>. QED
      BY <2>11, <3>1, <3>2, OneSlotChanges DEF TypeOK, ReplaceSwapFundingAttestation, Replace
  <2>12. ASSUME NEW l \in Leg, NEW old \in Attestations, NEW a \in Attestations, NEW t \in Times,
                ReplaceSwapSpendAttestation(l, old, a, t)
         PROVE  Frozen
    <3>1. phase[l] \notin SpentPhase /\ <<l, "spend">> \in Slot
      BY <2>12 DEF ReplaceSwapSpendAttestation, SpentPhase, Slot, Kind
    <3>2. confirmedAt[<<l, "spend">>] = None
      BY <2>12, <3>1, ConfirmedPhases DEF ReplaceSwapSpendAttestation, Replace, MayReplace
    <3>. QED
      BY <2>12, <3>1, <3>2, OneSlotChanges DEF TypeOK, ReplaceSwapSpendAttestation, Replace
  <2>. QED
    BY <2>1, <2>2, <2>3, <2>4, <2>5, <2>6, <2>7, <2>8, <2>9, <2>10, <2>11, <2>12 DEF Next
<1>2. ConfirmedEvidenceFrozen <=> [][Frozen]_vars
  BY DEF ConfirmedEvidenceFrozen, Frozen
<1>. QED  BY <1>1, <1>2, TypeCorrect, PTL DEF Spec

-----------------------------------------------------------------------------
(* The order of the chain facts. *)

(* What the integrity assertion says of the slots of one leg.              *)
LEMMA SlotsOfLeg ==
  ASSUME SwapIntegrity, NEW l \in Leg
  PROVE  /\ phase[l] \in {"unfunded", "funding-prepared"} => fact[<<l, "funding">>] = None
         /\ phase[l] \notin {"unfunded", "funding-prepared"} =>
              /\ fact[<<l, "funding">>] # None
              /\ \E a : ValidFunding(l, fact[<<l, "funding">>], a)
         /\ confirmedAt[<<l, "funding">>] # None <=> phase[l] \in FundedPhase
         /\ phase[l] \notin SpendPhase => fact[<<l, "spend">>] = None
         /\ phase[l] \in SpendPhase =>
              /\ fact[<<l, "spend">>] # None
              /\ fact[<<l, "spend">>].action =
                   (IF phase[l] \in ClaimPhase THEN "claim" ELSE "refund")
              /\ \E a : ValidSpend(l, fact[<<l, "spend">>], a)
         /\ confirmedAt[<<l, "spend">>] # None <=> phase[l] \in SpentPhase
<1>1. LegIntegrity(l)
  BY DEF SwapIntegrity, RecoverableIntegrity
<1>2. phase[l] \notin {"unfunded", "funding-prepared"} => CollectionIntegrity(l, "funding")
  BY <1>1 DEF LegIntegrity
<1>3. phase[l] \in SpendPhase => CollectionIntegrity(l, "spend")
  BY <1>1 DEF LegIntegrity
<1>4. ASSUME CollectionIntegrity(l, "funding")
      PROVE  \E a : ValidFunding(l, fact[<<l, "funding">>], a)
  BY <1>4 DEF CollectionIntegrity, ValidEvidence
<1>5. ASSUME CollectionIntegrity(l, "spend")
      PROVE  \E a : ValidSpend(l, fact[<<l, "spend">>], a)
  BY <1>5 DEF CollectionIntegrity, ValidEvidence
<1>6. /\ CollectionIntegrity(l, "funding") => fact[<<l, "funding">>] # None
      /\ CollectionIntegrity(l, "spend") => fact[<<l, "spend">>] # None
  BY DEF CollectionIntegrity
<1>. QED  BY <1>1, <1>2, <1>3, <1>4, <1>5, <1>6 DEF LegIntegrity, NoCollection

(* The parts of CausalSettlement. *)
ClaimsOrdered ==
  phase["zec"] \in ClaimPhase =>
    /\ confirmedAt[<<"evm", "spend">>] # None
    /\ fact[<<"evm", "spend">>].action = "claim"
    /\ fact[<<"evm", "spend">>].preimage = fact[<<"zec", "spend">>].preimage

FundingsOrdered ==
  fact[<<"evm", "funding">>] # None =>
    /\ confirmedAt[<<"zec", "funding">>] # None
    /\ fact[<<"zec", "funding">>].executedAt < ZecFundBy
    /\ confirmedAt[<<"zec", "funding">>] <= preparedAt["evm"]
    /\ preparedAt["evm"] <= fact[<<"evm", "funding">>].executedAt

SpendsOrdered(l) ==
  fact[<<l, "spend">>] # None =>
    /\ fact[<<l, "spend">>].funding = fact[<<l, "funding">>]
    /\ confirmedAt[<<l, "funding">>] <= fact[<<l, "spend">>].executedAt

LEMMA CausalParts ==
  /\ CausalSettlement <=> ClaimsOrdered /\ FundingsOrdered /\ \A l \in Leg : SpendsOrdered(l)
  /\ CausalSettlement' <=> ClaimsOrdered' /\ FundingsOrdered' /\ \A l \in Leg : SpendsOrdered(l)'
BY DEF CausalSettlement, ClaimsOrdered, FundingsOrdered, SpendsOrdered

(* The ZEC claim is only ever observed behind a final stablecoin claim     *)
(* with the same secret, and every fact lies behind the one it rests on:   *)
(* in every reachable state, even one the assertion would reject.          *)
THEOREM SettlementIsCausal == Spec => []CausalSettlement
<1>1. Init => CausalSettlement
  BY DEF Init, CausalSettlement, ClaimPhase, Slot, Leg, Kind
<1>2. TypeOK /\ TypeOK' /\ CausalSettlement /\ [Next]_vars => CausalSettlement'
  <2>. SUFFICES ASSUME TypeOK, TypeOK', CausalSettlement, [Next]_vars PROVE CausalSettlement'
    OBVIOUS
  <2>. "zec" \in Leg /\ "evm" \in Leg
    BY DEF Leg
  <2>1. ASSUME UNCHANGED <<phase, fact, confirmedAt, preparedAt>> PROVE CausalSettlement'
    BY <2>1 DEF CausalSettlement
  <2>2. ASSUME NEW l \in Leg, NEW h \in Artifacts, NEW t \in Times, PrepareSwapFunding(l, h, t)
        PROVE  CausalSettlement'
    <3>1. phase[l] = "unfunded" /\ fact[<<l, "funding">>] = None
      BY <2>2, SlotsOfLeg DEF PrepareSwapFunding
    <3>2. ClaimsOrdered'
      BY <2>2, CausalParts DEF PrepareSwapFunding, ClaimsOrdered, ClaimPhase, TypeOK
    <3>3. FundingsOrdered'
      BY <2>2, <3>1, CausalParts DEF PrepareSwapFunding, FundingsOrdered, TypeOK
    <3>4. \A m \in Leg : SpendsOrdered(m)'
      BY <2>2, CausalParts DEF PrepareSwapFunding, SpendsOrdered
    <3>. QED  BY <3>2, <3>3, <3>4, CausalParts
  <2>3. ASSUME NEW l \in Leg, NEW h \in Artifacts, AbandonSwapFunding(l, h)
        PROVE  CausalSettlement'
    <3>1. fact[<<l, "funding">>] = None
      BY <2>3, SlotsOfLeg DEF AbandonSwapFunding
    <3>2. ClaimsOrdered'
      BY <2>3, CausalParts DEF AbandonSwapFunding, ClaimsOrdered, ClaimPhase, TypeOK
    <3>3. FundingsOrdered'
      BY <2>3, <3>1, CausalParts DEF AbandonSwapFunding, FundingsOrdered, TypeOK
    <3>4. \A m \in Leg : SpendsOrdered(m)'
      BY <2>3, CausalParts DEF AbandonSwapFunding, SpendsOrdered
    <3>. QED  BY <3>2, <3>3, <3>4, CausalParts
  <2>4. ASSUME NEW t \in Times, ExpireSwap(t) PROVE CausalSettlement'
    <3>1. \A l \in Leg : fact[<<l, "funding">>] = None /\ fact[<<l, "spend">>] = None
      BY <2>4, SlotsOfLeg DEF ExpireSwap, SpendPhase, FundedPhase
    <3>. QED  BY <2>4, <3>1 DEF ExpireSwap, CausalSettlement, ClaimPhase
  <2>5. ASSUME NEW l \in Leg, NEW a \in Attestations, ObserveSwapFunding(l, a)
        PROVE  CausalSettlement'
    <3>1. /\ phase[l] \notin SpendPhase /\ fact[<<l, "spend">>] = None
          /\ confirmedAt[<<l, "funding">>] = None
      BY <2>5, SlotsOfLeg DEF ObserveSwapFunding, SpendPhase, FundedPhase
    <3>2. /\ fact' = [fact EXCEPT ![<<l, "funding">>] = a.fact]
          /\ phase' = [phase EXCEPT ![l] = "funding-seen"]
          /\ confirmedAt' = confirmedAt /\ preparedAt' = preparedAt
          /\ ValidFunding(l, a.fact, a)
          /\ phase[l] # "unfunded"
      BY <2>5 DEF ObserveSwapFunding, Collect
    <3>3. ClaimsOrdered'
      BY <3>2, CausalParts DEF ClaimsOrdered, ClaimPhase, TypeOK, Slot, Kind
    <3>4. \A m \in Leg : SpendsOrdered(m)'
      BY <3>1, <3>2, CausalParts DEF SpendsOrdered, TypeOK, Slot, Kind
    <3>5. CASE l = "zec"
      <4>1. fact[<<"evm", "funding">>] = None
        BY <3>1, <3>5, CausalParts DEF FundingsOrdered
      <4>. QED  BY <3>2, <3>3, <3>4, <3>5, <4>1, CausalParts DEF FundingsOrdered, TypeOK, Slot, Kind
    <3>6. CASE l = "evm"
      <4>1. /\ confirmedAt[<<"zec", "funding">>] # None
            /\ preparedAt["evm"] >= confirmedAt[<<"zec", "funding">>]
        BY <2>5, <3>2, <3>6
           DEF ObserveSwapFunding, SwapIntegrity, RecoverableIntegrity, PreparationInWindow
      <4>2. \E b : ValidFunding("zec", fact[<<"zec", "funding">>], b)
        BY <2>5, <4>1, SlotsOfLeg DEF ObserveSwapFunding, FundedPhase
      <4>3. fact[<<"zec", "funding">>].executedAt < ZecFundBy
        BY <4>2 DEF ValidFunding
      <4>4. a.fact.executedAt >= preparedAt["evm"]
        BY <3>2, <3>6 DEF ValidFunding
      <4>5. FundingsOrdered'
        BY <3>2, <3>6, <4>1, <4>3, <4>4 DEF FundingsOrdered, TypeOK, Slot, Kind
      <4>. QED  BY <3>3, <3>4, <4>5, CausalParts
    <3>. QED  BY <3>5, <3>6 DEF Leg
  <2>6. ASSUME NEW l \in Leg, NEW f \in FundingFacts, NEW t \in Times, ConfirmSwapFunding(l, f, t)
        PROVE  CausalSettlement'
    <3>1. /\ phase[l] = "funding-seen" /\ fact[<<l, "spend">>] = None
          /\ confirmedAt[<<l, "funding">>] = None
      BY <2>6, SlotsOfLeg DEF ConfirmSwapFunding, SpendPhase, FundedPhase
    <3>2. l = "zec" => fact[<<"evm", "funding">>] = None
      BY <3>1, CausalParts DEF FundingsOrdered
    <3>3. ClaimsOrdered'
      BY <2>6, CausalParts DEF ConfirmSwapFunding, ClaimsOrdered, ClaimPhase, TypeOK, Slot, Kind
    <3>4. FundingsOrdered'
      BY <2>6, <3>2, CausalParts DEF ConfirmSwapFunding, FundingsOrdered, TypeOK, Slot, Kind, Leg
    <3>5. \A m \in Leg : SpendsOrdered(m)'
      BY <2>6, <3>1, CausalParts DEF ConfirmSwapFunding, SpendsOrdered, TypeOK, Slot, Kind
    <3>. QED  BY <3>3, <3>4, <3>5, CausalParts
  <2>7. ASSUME NEW l \in Leg, NEW a \in Attestations, ObserveSwapSpend(l, a)
        PROVE  CausalSettlement'
    <3>1. /\ fact' = [fact EXCEPT ![<<l, "spend">>] = a.fact]
          /\ phase' = [phase EXCEPT ![l] = SeenPhase(a.fact)]
          /\ confirmedAt' = confirmedAt /\ preparedAt' = preparedAt
          /\ ValidSpend(l, a.fact, a)
      BY <2>7 DEF ObserveSwapSpend, Collect
    <3>2. FundingsOrdered'
      BY <3>1, CausalParts DEF FundingsOrdered, TypeOK, Slot, Kind
    <3>3. SpendsOrdered(l)'
      BY <3>1 DEF SpendsOrdered, ValidSpend, TypeOK, Slot, Kind
    <3>4. \A m \in Leg \ {l} : SpendsOrdered(m)'
      BY <3>1, CausalParts DEF SpendsOrdered, TypeOK, Slot, Kind
    <3>5. ClaimsOrdered'
      <4>. SUFFICES ASSUME phase'["zec"] \in ClaimPhase PROVE ClaimsOrdered'
        BY DEF ClaimsOrdered
      <4>1. CASE l = "zec"
        <5>1. a.fact.action = "claim"
          BY <3>1, <4>1 DEF SeenPhase, ClaimPhase, TypeOK
        <5>2. a.fact.leg = "zec"
          BY <3>1, <4>1 DEF ValidSpend
        <5>3. /\ phase["evm"] = "claimed-confirmed" /\ confirmedSecret # None
              /\ confirmedSecret.preimage = a.fact.preimage
          BY <2>7, <5>1, <5>2 DEF ObserveSwapSpend, ClaimAfterConfirmedSecret
        <5>4. /\ confirmedAt[<<"evm", "spend">>] # None
              /\ fact[<<"evm", "spend">>].action = "claim"
          BY <2>7, <5>3, SlotsOfLeg
             DEF ObserveSwapSpend, SpendPhase, SpentPhase, ClaimPhase, FundedPhase
        <5>5. confirmedSecret = fact[<<"evm", "spend">>]
          BY <2>7, <5>3 DEF ObserveSwapSpend, SwapIntegrity, RecoverableIntegrity, SecretsBound
        <5>. QED  BY <3>1, <4>1, <5>3, <5>4, <5>5 DEF ClaimsOrdered, TypeOK, Slot, Kind
      <4>2. CASE l = "evm"
        <5>1. phase["zec"] \in ClaimPhase
          BY <3>1, <4>2 DEF TypeOK
        <5>2. phase["evm"] = "claimed-confirmed"
          BY <2>7, <5>1 DEF ObserveSwapSpend, SwapIntegrity, RecoverableIntegrity, LegOrder
        <5>. QED  BY <2>7, <4>2, <5>2 DEF ObserveSwapSpend, SeenPhase
      <4>. QED  BY <4>1, <4>2 DEF Leg
    <3>. QED  BY <3>2, <3>3, <3>4, <3>5, CausalParts
  <2>8. ASSUME NEW l \in Leg, NEW f \in SpendFacts, NEW t \in Times, ConfirmSwapSpend(l, f, t)
        PROVE  CausalSettlement'
    <3>1. /\ phase'["zec"] \in ClaimPhase => phase["zec"] \in ClaimPhase
          /\ confirmedAt' = [confirmedAt EXCEPT ![<<l, "spend">>] = t]
          /\ fact' = fact /\ preparedAt' = preparedAt /\ t # None
      BY <2>8, InputTypes DEF ConfirmSwapSpend, ClaimPhase, TypeOK
    <3>2. ClaimsOrdered'
      BY <3>1, CausalParts DEF ClaimsOrdered, TypeOK, Slot, Kind
    <3>3. FundingsOrdered'
      BY <3>1, CausalParts DEF FundingsOrdered, TypeOK, Slot, Kind
    <3>4. \A m \in Leg : SpendsOrdered(m)'
      BY <3>1, CausalParts DEF SpendsOrdered, TypeOK, Slot, Kind
    <3>. QED  BY <3>2, <3>3, <3>4, CausalParts
  <2>9. ASSUME NEW r \in Role, NEW t \in Times, AuthorizeSwapTerms(r, t)
        PROVE  UNCHANGED <<phase, fact, confirmedAt, preparedAt>>
    BY <2>9 DEF AuthorizeSwapTerms, legVars
  <2>10. ASSUME NEW why \in Reason, NEW e \in FlagTargets, FlagSwapDispute(why, e)
         PROVE  UNCHANGED <<phase, fact, confirmedAt, preparedAt>>
    BY <2>10 DEF FlagSwapDispute, legVars
  <2>11. ASSUME NEW e \in EvidenceIds, RetractSwapEvidence(e)
         PROVE  UNCHANGED <<phase, fact, confirmedAt, preparedAt>>
    BY <2>11 DEF RetractSwapEvidence, legVars
  <2>12. ASSUME NEW l \in Leg, NEW k \in Kind, NEW old \in Attestations,
                NEW a \in Attestations, NEW t \in Times, Replace(l, k, old, a, t)
         PROVE  UNCHANGED <<phase, fact, confirmedAt, preparedAt>>
    BY <2>12 DEF Replace
  <2>13. CASE UNCHANGED vars
    BY <2>13, <2>1 DEF vars, legVars
  <2>. QED
    BY <2>1, <2>2, <2>3, <2>4, <2>5, <2>6, <2>7, <2>8, <2>9, <2>10, <2>11, <2>12, <2>13, StepCases
<1>. QED  BY <1>1, <1>2, TypeCorrect, PTL DEF Spec

-----------------------------------------------------------------------------
(* The assertion of swap-state.ts. *)

(* What the assertion does not say and the confirmation of the stablecoin  *)
(* claim needs: a claim that was seen has revealed the secret.             *)
ClaimReveals == phase["evm"] \in ClaimPhase => observedSecret # None

IndEvidence == TypeOK /\ RecoverableIntegrity /\ ClaimReveals

(* A qualifying quorum depends on the withdrawn identifiers only.          *)
LEMMA QualifiedFrame ==
  ASSUME retracted' = retracted, NEW l, NEW f, NEW c, NEW t, PolicyQualified(l, f, c, t)
  PROVE  PolicyQualified(l, f, c, t)'
BY DEF PolicyQualified, Qualifying

(* A report that was valid stays valid when the facts it rests on stay.    *)
LEMMA EvidenceFrame ==
  ASSUME NEW l, NEW k \in Kind, NEW f, NEW a, ValidEvidence(l, k, f, a),
         \A t : AuthorizedBy(t) => AuthorizedBy(t)',
         k = "funding" => /\ preparedAt'[l] = preparedAt[l]
                          /\ l = "evm" => confirmedAt'[<<"zec", "funding">>]
                                            = confirmedAt[<<"zec", "funding">>],
         k = "spend" => /\ fact'[<<l, "funding">>] = fact[<<l, "funding">>]
                        /\ confirmedAt'[<<l, "funding">>] = confirmedAt[<<l, "funding">>]
  PROVE  ValidEvidence(l, k, f, a)'
<1>1. CASE k = "funding"
  <2>1. ValidFunding(l, f, a)
    BY <1>1 DEF ValidEvidence
  <2>2. ValidFunding(l, f, a)'
    BY <1>1, <2>1 DEF ValidFunding
  <2>. QED  BY <1>1, <2>2 DEF ValidEvidence
<1>2. CASE k = "spend"
  <2>1. ValidSpend(l, f, a)
    BY <1>2 DEF ValidEvidence
  <2>2. ValidSpend(l, f, a)'
    BY <1>2, <2>1 DEF ValidSpend
  <2>. QED  BY <1>2, <2>2 DEF ValidEvidence
<1>. QED  BY <1>1, <1>2 DEF Kind

LEMMA CollectionFrame ==
  ASSUME NEW l, NEW k \in Kind, CollectionIntegrity(l, k),
         fact'[<<l, k>>] = fact[<<l, k>>],
         reports'[<<l, k>>] = reports[<<l, k>>],
         \A t : AuthorizedBy(t) => AuthorizedBy(t)',
         k = "funding" => /\ preparedAt'[l] = preparedAt[l]
                          /\ l = "evm" => confirmedAt'[<<"zec", "funding">>]
                                            = confirmedAt[<<"zec", "funding">>],
         k = "spend" => /\ fact'[<<l, "funding">>] = fact[<<l, "funding">>]
                        /\ confirmedAt'[<<l, "funding">>] = confirmedAt[<<l, "funding">>]
  PROVE  CollectionIntegrity(l, k)'
<1>1. \A a \in reports[<<l, k>>] : ValidEvidence(l, k, fact[<<l, k>>], a)'
  BY EvidenceFrame DEF CollectionIntegrity
<1>2. \A a \in reports'[<<l, k>>] : ValidEvidence(l, k, fact[<<l, k>>], a)'
  BY <1>1
<1>. QED  BY <1>2 DEF CollectionIntegrity

(* A leg that an operation does not touch keeps its integrity, while the   *)
(* leg it may rest on keeps its confirmation or it is not funded yet.      *)
LEMMA LegFrame ==
  ASSUME NEW l \in Leg, LegIntegrity(l), PreparationInWindow(l),
         phase'[l] = phase[l], artifact'[l] = artifact[l], preparedAt'[l] = preparedAt[l],
         \A k \in Kind : /\ fact'[<<l, k>>] = fact[<<l, k>>]
                         /\ reports'[<<l, k>>] = reports[<<l, k>>]
                         /\ confirmedAt'[<<l, k>>] = confirmedAt[<<l, k>>],
         retracted' = retracted,
         \A t : AuthorizedBy(t) => AuthorizedBy(t)',
         \/ phase[l] = "unfunded"
         \/ l = "evm" => confirmedAt'[<<"zec", "funding">>] = confirmedAt[<<"zec", "funding">>]
  PROVE  LegIntegrity(l)' /\ PreparationInWindow(l)'
<1>. "funding" \in Kind /\ "spend" \in Kind
  BY DEF Kind
<1>1. ASSUME phase[l] # "unfunded", CollectionIntegrity(l, "funding")
      PROVE  CollectionIntegrity(l, "funding")'
  BY <1>1, CollectionFrame
<1>2. ASSUME CollectionIntegrity(l, "spend") PROVE CollectionIntegrity(l, "spend")'
  BY <1>2, CollectionFrame
<1>3. \A k \in Kind : NoCollection(l, k) => NoCollection(l, k)'
  BY DEF NoCollection
<1>4. \A k \in Kind : \A t : PolicyQualified(l, fact[<<l, k>>], reports[<<l, k>>], t)
                          => PolicyQualified(l, fact[<<l, k>>], reports[<<l, k>>], t)'
  BY QualifiedFrame
<1>5. LegIntegrity(l)'
  <2>1. IF phase'[l] = "unfunded"
          THEN artifact'[l] = None /\ preparedAt'[l] = None
          ELSE artifact'[l] # None /\ preparedAt'[l] # None
    BY DEF LegIntegrity
  <2>2. IF phase'[l] \in {"unfunded", "funding-prepared"}
          THEN NoCollection(l, "funding")'
          ELSE CollectionIntegrity(l, "funding")'
    BY <1>1, <1>3 DEF LegIntegrity
  <2>3. IF phase'[l] \in SpendPhase
          THEN /\ CollectionIntegrity(l, "spend")'
               /\ fact'[<<l, "spend">>].action
                    = (IF phase'[l] \in ClaimPhase THEN "claim" ELSE "refund")
          ELSE NoCollection(l, "spend")'
    BY <1>2, <1>3 DEF LegIntegrity
  <2>4. IF phase'[l] \in FundedPhase
          THEN /\ confirmedAt'[<<l, "funding">>] # None
               /\ PolicyQualified(l, fact[<<l, "funding">>], reports[<<l, "funding">>],
                                  confirmedAt[<<l, "funding">>])'
          ELSE confirmedAt'[<<l, "funding">>] = None
    BY <1>4 DEF LegIntegrity
  <2>5. IF phase'[l] \in SpentPhase
          THEN /\ confirmedAt'[<<l, "spend">>] # None
               /\ PolicyQualified(l, fact[<<l, "spend">>], reports[<<l, "spend">>],
                                  confirmedAt[<<l, "spend">>])'
          ELSE confirmedAt'[<<l, "spend">>] = None
    BY <1>4 DEF LegIntegrity
  <2>. QED  BY <2>1, <2>2, <2>3, <2>4, <2>5 DEF LegIntegrity
<1>6. PreparationInWindow(l)'
  BY DEF PreparationInWindow, AuthorizedBy, Leg
<1>. QED  BY <1>5, <1>6

(* The parts of the assertion that are about the records of the swap: its  *)
(* reports, disputes and resolutions.                                      *)
RecordsIntegrity ==
  /\ UniqueEvidence
  /\ DisputesKnown
  /\ ConflictsDisputed
  /\ ResolutionsDistinct
  /\ ResolutionsBindFacts
  /\ ResolvedStayInactive => ReplacementsTraceable
  /\ RetractionsAccounted

AuthorizedInTime == \A r \in Role : authorizations[r] # None
                                     => authorizations[r] < AuthorizationDeadline

LEMMA RecoverableParts ==
  /\ RecoverableIntegrity <=> /\ AuthorizedInTime
                              /\ \A l \in Leg : LegIntegrity(l) /\ PreparationInWindow(l)
                              /\ LegOrder /\ RecordsIntegrity /\ SecretsBound /\ ExpiredClean
  /\ RecoverableIntegrity' <=> /\ AuthorizedInTime'
                               /\ \A l \in Leg : LegIntegrity(l)' /\ PreparationInWindow(l)'
                               /\ LegOrder' /\ RecordsIntegrity' /\ SecretsBound' /\ ExpiredClean'
BY DEF RecoverableIntegrity, RecordsIntegrity, AuthorizedInTime

(* An operation that collects nothing keeps the records sound.             *)
LEMMA RecordsFrame ==
  ASSUME RecordsIntegrity,
         UNCHANGED <<fact, reports, disputes, resolutions, retracted>>,
         disputes = {} \/ confirmedAt' = confirmedAt
  PROVE  RecordsIntegrity'
<1>1. UniqueEvidence'
  BY DEF RecordsIntegrity, UniqueEvidence
<1>2. DisputesKnown'
  BY DEF RecordsIntegrity, DisputesKnown, HasEvidence, ActiveIds, ActiveFacts, ActiveReports
<1>3. ConflictsDisputed'
  BY DEF RecordsIntegrity, ConflictsDisputed
<1>4. ResolutionsDistinct'
  BY DEF RecordsIntegrity, ResolutionsDistinct
<1>5. ResolutionsBindFacts'
  BY DEF RecordsIntegrity, ResolutionsBindFacts
<1>6. (ResolvedStayInactive => ReplacementsTraceable)'
  BY DEF RecordsIntegrity, ResolvedStayInactive, ReplacementsTraceable, ResolvedIds, ActiveIds,
         ActiveReports
<1>7. RetractionsAccounted'
  BY DEF RecordsIntegrity, RetractionsAccounted, ResolvedIds, ActiveIds, ActiveReports
<1>. QED  BY <1>1, <1>2, <1>3, <1>4, <1>5, <1>6, <1>7 DEF RecordsIntegrity

(* Neither does one that collects a report of the view already reported.   *)
LEMMA CollectRecords ==
  ASSUME TypeOK, RecordsIntegrity, NEW l \in Leg, NEW k \in Kind, NEW a \in Attestations,
         Admissible(l, k, a), Collect(l, k, a), ~ViewConflict(reports[<<l, k>>], a),
         fact[<<l, k>>] = None => reports[<<l, k>>] = {},
         disputes = {}, UNCHANGED <<confirmedAt, resolutions, retracted>>
  PROVE  RecordsIntegrity'
<1>. DEFINE s0 == <<l, k>>
<1>0. s0 \in Slot
  BY DEF Slot
<1>1. /\ fact' = [fact EXCEPT ![s0] = a.fact]
      /\ reports' = [reports EXCEPT ![s0] = @ \cup {a}]
      /\ disputes' = {}
  BY DEF Collect
<1>2. /\ reports'[s0] = reports[s0] \cup {a}
      /\ \A s \in Slot \ {s0} : reports'[s] = reports[s]
  BY <1>0, <1>1 DEF TypeOK
<1>3. \A s \in Slot : fact[s] # None => fact'[s] = fact[s]
  BY <1>0, <1>1 DEF TypeOK, Admissible
<1>4. \A s \in Slot : \A b \in reports[s] : b.id # a.id
  BY DEF Admissible, ActiveIds, ActiveReports
<1>5. UniqueEvidence'
  BY <1>0, <1>2, <1>4 DEF RecordsIntegrity, UniqueEvidence
<1>6. DisputesKnown'
  BY <1>1 DEF DisputesKnown
<1>7. ConflictsDisputed'
  <2>1. \A s \in Slot : ~(Cardinality(Views(reports[s])) > 1)
    BY DEF RecordsIntegrity, ConflictsDisputed
  <2>2. Views(reports'[s0]) = {View(a)}
    BY <1>2 DEF Views, ViewConflict
  <2>3. Cardinality({View(a)}) = 1
    BY FS_Singleton
  <2>4. \A s \in Slot : ~(Cardinality(Views(reports'[s])) > 1)
    BY <1>2, <2>1, <2>2, <2>3
  <2>. QED  BY <2>4 DEF ConflictsDisputed
<1>8. ResolutionsDistinct'
  BY DEF RecordsIntegrity, ResolutionsDistinct
<1>9. \A r \in resolutions : <<r.leg, r.kind>> \in Slot
  BY DEF TypeOK, Resolution, Slot
<1>10. ResolutionsBindFacts'
  BY <1>3, <1>9 DEF RecordsIntegrity, ResolutionsBindFacts
<1>11. ASSUME ResolvedStayInactive' PROVE ReplacementsTraceable'
  <2>1. \A s \in Slot : reports[s] \subseteq reports'[s]
    BY <1>2
  <2>2. ActiveIds \subseteq ActiveIds'
    BY <2>1 DEF ActiveIds, ActiveReports
  <2>3. ResolvedStayInactive
    BY <1>11, <2>2 DEF ResolvedStayInactive, ResolvedIds
  <2>. SUFFICES ASSUME NEW r \in resolutions
                PROVE  \/ r.replacement \in reports'[<<r.leg, r.kind>>]
                       \/ /\ r.replacement.id \notin {b.id : b \in reports'[<<r.leg, r.kind>>]}
                          /\ r.replacement.id \in retracted'
                          /\ \E q \in resolutions' :
                               q.leg = r.leg /\ q.kind = r.kind /\ q.retracted = r.replacement
    BY DEF ReplacementsTraceable
  <2>4. \/ r.replacement \in reports[<<r.leg, r.kind>>]
        \/ /\ r.replacement.id \in retracted
           /\ \E q \in resolutions :
                q.leg = r.leg /\ q.kind = r.kind /\ q.retracted = r.replacement
    BY <2>3 DEF RecordsIntegrity, ReplacementsTraceable
  <2>5. CASE r.replacement \in reports[<<r.leg, r.kind>>]
    BY <2>5, <2>1, <1>9
  <2>6. ASSUME r.replacement.id \in retracted,
               NEW q \in resolutions,
               q.leg = r.leg /\ q.kind = r.kind /\ q.retracted = r.replacement
        PROVE  r.replacement.id \notin {b.id : b \in reports'[<<r.leg, r.kind>>]}
    <3>1. r.replacement.id \in ResolvedIds'
      BY <2>6 DEF ResolvedIds
    <3>2. r.replacement.id \notin ActiveIds'
      BY <3>1, <1>11 DEF ResolvedStayInactive
    <3>. QED  BY <3>2, <1>9 DEF ActiveIds, ActiveReports
  <2>. QED  BY <2>4, <2>5, <2>6
<1>12. RetractionsAccounted'
  BY DEF RecordsIntegrity, RetractionsAccounted, ResolvedIds
<1>. QED
  BY <1>5, <1>6, <1>7, <1>8, <1>10, <1>11, <1>12 DEF RecordsIntegrity

-----------------------------------------------------------------------------
(* The operations, one lemma each. *)

(* A new swap passes the assertion.                                        *)
LEMMA EvidenceInit == Init => RecoverableIntegrity
<1>. SUFFICES ASSUME Init PROVE RecoverableIntegrity
  OBVIOUS
<1>1. AuthorizedInTime /\ ExpiredClean
  BY DEF Init, AuthorizedInTime, ExpiredClean
<1>2. \A l \in Leg : LegIntegrity(l) /\ PreparationInWindow(l)
  BY DEF Init, LegIntegrity, PreparationInWindow, NoCollection, Slot, Kind, SpendPhase,
         FundedPhase, SpentPhase
<1>3. LegOrder /\ SecretsBound
  BY DEF Init, LegOrder, SecretsBound, Leg, ClaimPhase
<1>4. RecordsIntegrity
  <2>1. \A s \in Slot : Views(reports[s]) = {}
    BY DEF Init, Views
  <2>2. ConflictsDisputed
    BY <2>1, FS_EmptySet DEF ConflictsDisputed
  <2>. QED
    BY <2>2 DEF Init, RecordsIntegrity, UniqueEvidence, DisputesKnown, ResolutionsDistinct,
                ResolutionsBindFacts, ReplacementsTraceable, RetractionsAccounted
<1>. QED  BY <1>1, <1>2, <1>3, <1>4, RecoverableParts

LEMMA AuthorizeSound ==
  ASSUME TypeOK, RecoverableIntegrity, NEW r \in Role, NEW t \in Times, AuthorizeSwapTerms(r, t)
  PROVE  RecoverableIntegrity'
<1>1. /\ authorizations' = [authorizations EXCEPT ![r] = t]
      /\ authorizations[r] = None /\ t < AuthorizationDeadline
      /\ UNCHANGED <<phase, artifact, preparedAt, fact, reports, confirmedAt, observedSecret,
                     confirmedSecret, expired, disputes, resolutions, retracted>>
  BY DEF AuthorizeSwapTerms, legVars, secretVars, recoveryVars
<1>2. \A u : AuthorizedBy(u) => AuthorizedBy(u)'
  BY <1>1 DEF AuthorizedBy, TypeOK
<1>3. AuthorizedInTime'
  BY <1>1, RecoverableParts DEF AuthorizedInTime, TypeOK
<1>4. \A l \in Leg : LegIntegrity(l)' /\ PreparationInWindow(l)'
  BY <1>1, <1>2, LegFrame, RecoverableParts
<1>5. LegOrder' /\ SecretsBound' /\ ExpiredClean'
  BY <1>1, RecoverableParts DEF LegOrder, SecretsBound, ExpiredClean
<1>6. RecordsIntegrity'
  BY <1>1, RecordsFrame, RecoverableParts
<1>. QED  BY <1>3, <1>4, <1>5, <1>6, RecoverableParts

LEMMA PrepareSound ==
  ASSUME TypeOK, RecoverableIntegrity, NEW l \in Leg, NEW h \in Artifacts, NEW t \in Times,
         PrepareSwapFunding(l, h, t)
  PROVE  RecoverableIntegrity'
<1>1. /\ ~expired /\ disputes = {} /\ phase[l] = "unfunded" /\ FundingWindowOpen(l, t)
      /\ phase' = [phase EXCEPT ![l] = "funding-prepared"]
      /\ artifact' = [artifact EXCEPT ![l] = h]
      /\ preparedAt' = [preparedAt EXCEPT ![l] = t]
      /\ UNCHANGED <<authorizations, fact, reports, confirmedAt, observedSecret,
                     confirmedSecret, expired, disputes, resolutions, retracted>>
  BY DEF PrepareSwapFunding, NotDisputed, secretVars, recoveryVars
<1>2. \A u : AuthorizedBy(u) => AuthorizedBy(u)'
  BY <1>1 DEF AuthorizedBy
<1>3. AuthorizedInTime' /\ ExpiredClean'
  BY <1>1, RecoverableParts DEF AuthorizedInTime, ExpiredClean
<1>4. h # None /\ t # None
  BY InputTypes
<1>5. LegIntegrity(l)' /\ PreparationInWindow(l)'
  <2>1. NoCollection(l, "funding") /\ NoCollection(l, "spend")
    BY <1>1, RecoverableParts DEF LegIntegrity, SpendPhase, FundedPhase
  <2>2. /\ confirmedAt[<<l, "funding">>] = None
        /\ confirmedAt[<<l, "spend">>] = None
    BY <1>1, RecoverableParts DEF LegIntegrity, FundedPhase, SpentPhase
  <2>3. LegIntegrity(l)'
    BY <1>1, <1>4, <2>1, <2>2
       DEF LegIntegrity, NoCollection, TypeOK, SpendPhase, FundedPhase, SpentPhase
  <2>4. confirmedAt[<<"zec", "funding">>] = None => l # "evm"
    BY <1>1, RecoverableParts DEF FundingWindowOpen, LegIntegrity, FundedPhase, Leg
  <2>5. PreparationInWindow(l)'
    BY <1>1, <2>4 DEF PreparationInWindow, FundingWindowOpen, AuthorizedBy, TypeOK, Leg
  <2>. QED  BY <2>3, <2>5
<1>6. \A m \in Leg \ {l} : LegIntegrity(m)' /\ PreparationInWindow(m)'
  BY <1>1, <1>2, LegFrame, RecoverableParts DEF TypeOK
<1>7. LegOrder'
  BY <1>1, RecoverableParts DEF LegOrder, FundingWindowOpen, FundedPhase, ClaimPhase, TypeOK, Leg
<1>8. SecretsBound'
  BY <1>1, RecoverableParts DEF SecretsBound, ClaimPhase, TypeOK, Leg
<1>9. RecordsIntegrity'
  BY <1>1, RecordsFrame, RecoverableParts
<1>. QED  BY <1>3, <1>5, <1>6, <1>7, <1>8, <1>9, RecoverableParts

LEMMA AbandonSound ==
  ASSUME TypeOK, RecoverableIntegrity, NEW l \in Leg, NEW h \in Artifacts,
         AbandonSwapFunding(l, h)
  PROVE  RecoverableIntegrity'
<1>1. /\ ~expired /\ disputes = {} /\ phase[l] = "funding-prepared"
      /\ phase' = [phase EXCEPT ![l] = "unfunded"]
      /\ artifact' = [artifact EXCEPT ![l] = None]
      /\ preparedAt' = [preparedAt EXCEPT ![l] = None]
      /\ UNCHANGED <<authorizations, fact, reports, confirmedAt, observedSecret,
                     confirmedSecret, expired, disputes, resolutions, retracted>>
  BY DEF AbandonSwapFunding, NotDisputed, secretVars, recoveryVars
<1>2. \A u : AuthorizedBy(u) => AuthorizedBy(u)'
  BY <1>1 DEF AuthorizedBy
<1>3. AuthorizedInTime' /\ ExpiredClean'
  BY <1>1, RecoverableParts DEF AuthorizedInTime, ExpiredClean
<1>5. LegIntegrity(l)' /\ PreparationInWindow(l)'
  <2>1. NoCollection(l, "funding") /\ NoCollection(l, "spend")
    BY <1>1, RecoverableParts DEF LegIntegrity, SpendPhase, FundedPhase
  <2>2. /\ confirmedAt[<<l, "funding">>] = None
        /\ confirmedAt[<<l, "spend">>] = None
    BY <1>1, RecoverableParts DEF LegIntegrity, FundedPhase, SpentPhase
  <2>3. LegIntegrity(l)'
    BY <1>1, <2>1, <2>2
       DEF LegIntegrity, NoCollection, TypeOK, SpendPhase, FundedPhase, SpentPhase
  <2>. QED  BY <1>1, <2>3 DEF PreparationInWindow, TypeOK
<1>6. \A m \in Leg \ {l} : LegIntegrity(m)' /\ PreparationInWindow(m)'
  BY <1>1, <1>2, LegFrame, RecoverableParts DEF TypeOK
<1>7. LegOrder'
  BY <1>1, RecoverableParts DEF LegOrder, FundedPhase, ClaimPhase, TypeOK, Leg
<1>8. SecretsBound'
  BY <1>1, RecoverableParts DEF SecretsBound, ClaimPhase, TypeOK, Leg
<1>9. RecordsIntegrity'
  BY <1>1, RecordsFrame, RecoverableParts
<1>. QED  BY <1>3, <1>5, <1>6, <1>7, <1>8, <1>9, RecoverableParts

LEMMA ExpireSound ==
  ASSUME TypeOK, RecoverableIntegrity, NEW t \in Times, ExpireSwap(t)
  PROVE  RecoverableIntegrity'
<1>1. /\ disputes = {} /\ expired' = TRUE
      /\ \A l \in Leg : phase[l] \in {"unfunded", "funding-prepared"}
      /\ phase' = [l \in Leg |-> "unfunded"]
      /\ artifact' = [l \in Leg |-> None]
      /\ preparedAt' = [l \in Leg |-> None]
      /\ UNCHANGED <<authorizations, fact, reports, confirmedAt, observedSecret,
                     confirmedSecret, disputes, resolutions, retracted>>
  BY DEF ExpireSwap, NotDisputed, secretVars, recoveryVars
<1>2. \A l \in Leg : /\ NoCollection(l, "funding") /\ NoCollection(l, "spend")
                     /\ confirmedAt[<<l, "funding">>] = None
                     /\ confirmedAt[<<l, "spend">>] = None
  BY <1>1, RecoverableParts DEF LegIntegrity, SpendPhase, FundedPhase, SpentPhase
<1>3. \A l \in Leg, k \in Kind : fact[<<l, k>>] = None
  BY <1>2 DEF Kind, NoCollection
<1>4. resolutions = {}
  <2>1. \A r \in resolutions : /\ r.leg \in Leg /\ r.kind \in Kind
                                /\ fact[<<r.leg, r.kind>>] # None
    BY RecoverableParts DEF TypeOK, Resolution, RecordsIntegrity, ResolutionsBindFacts
  <2>. QED  BY <2>1, <1>3
<1>5. retracted = {}
  BY <1>1, <1>4, RecoverableParts DEF RecordsIntegrity, RetractionsAccounted, ResolvedIds
<1>6. observedSecret = None /\ confirmedSecret = None
  BY <1>1, RecoverableParts DEF SecretsBound, ClaimPhase, Leg
<1>7. AuthorizedInTime'
  BY <1>1, RecoverableParts DEF AuthorizedInTime
<1>8. \A l \in Leg : LegIntegrity(l)' /\ PreparationInWindow(l)'
  BY <1>1, <1>2
     DEF LegIntegrity, PreparationInWindow, NoCollection, SpendPhase, FundedPhase, SpentPhase
<1>9. LegOrder' /\ SecretsBound' /\ ExpiredClean'
  BY <1>1, <1>4, <1>5, <1>6 DEF LegOrder, SecretsBound, ExpiredClean, ClaimPhase, Leg
<1>10. RecordsIntegrity'
  BY <1>1, RecordsFrame, RecoverableParts
<1>. QED  BY <1>7, <1>8, <1>9, <1>10, RecoverableParts

(* A collection that gains a report of the view and the fact it has.       *)
LEMMA CollectedSound ==
  ASSUME TypeOK, NEW l \in Leg, NEW k \in Kind, NEW a \in Attestations,
         Admissible(l, k, a), Collect(l, k, a), ~ViewConflict(reports[<<l, k>>], a),
         NoCollection(l, k) \/ CollectionIntegrity(l, k),
         ValidEvidence(l, k, a.fact, a),
         UNCHANGED <<authorizations, preparedAt, confirmedAt>>
  PROVE  CollectionIntegrity(l, k)' /\ fact'[<<l, k>>] = a.fact
<1>. DEFINE s0 == <<l, k>>
<1>0. s0 \in Slot
  BY DEF Slot
<1>1. fact'[s0] = a.fact /\ reports'[s0] = reports[s0] \cup {a}
  BY <1>0 DEF Collect, TypeOK
<1>2. a.fact # None
  BY InputTypes
<1>3. \A b \in reports[s0] : ValidEvidence(l, k, a.fact, b)
  BY DEF NoCollection, CollectionIntegrity, Admissible
<1>4. \A t : AuthorizedBy(t) => AuthorizedBy(t)'
  BY DEF AuthorizedBy
<1>5. k = "spend" => fact'[<<l, "funding">>] = fact[<<l, "funding">>]
  BY DEF Collect, TypeOK, Slot, Kind
<1>6. \A b : ValidEvidence(l, k, a.fact, b) => ValidEvidence(l, k, a.fact, b)'
  BY <1>4, <1>5, EvidenceFrame
<1>7. \A b \in reports'[s0] : ValidEvidence(l, k, a.fact, b)'
  BY <1>1, <1>3, <1>6
<1>8. \A b \in reports[s0] : b.id # a.id /\ b.source # a.source
  BY <1>0 DEF Admissible, ActiveIds, ActiveReports
<1>9. \A b, c \in reports[s0] : b.id = c.id \/ b.source = c.source => b = c
  BY DEF NoCollection, CollectionIntegrity
<1>. QED  BY <1>1, <1>2, <1>7, <1>8, <1>9 DEF CollectionIntegrity

LEMMA ObserveFundingSound ==
  ASSUME TypeOK, RecoverableIntegrity, NEW l \in Leg, NEW a \in Attestations,
         ObserveSwapFunding(l, a)
  PROVE  RecoverableIntegrity'
<1>. SUFFICES ASSUME ~ViewConflict(reports[<<l, "funding">>], a)
              PROVE  RecoverableIntegrity'
  BY DEF ObserveSwapFunding, Collect, SwapIntegrity
<1>. "funding" \in Kind /\ "spend" \in Kind
  BY DEF Kind
<1>1. /\ ~expired /\ disputes = {} /\ phase[l] \in {"funding-prepared", "funding-seen"}
      /\ ValidFunding(l, a.fact, a) /\ Admissible(l, "funding", a) /\ Collect(l, "funding", a)
      /\ phase' = [phase EXCEPT ![l] = "funding-seen"]
      /\ UNCHANGED <<authorizations, artifact, preparedAt, confirmedAt, observedSecret,
                     confirmedSecret, expired, resolutions, retracted>>
  BY DEF ObserveSwapFunding, NotDisputed, secretVars
<1>2. /\ \A s \in Slot \ {<<l, "funding">>} : fact'[s] = fact[s] /\ reports'[s] = reports[s]
      /\ disputes' = disputes
  BY <1>1 DEF Collect, TypeOK
<1>3. \A u : AuthorizedBy(u) => AuthorizedBy(u)'
  BY <1>1 DEF AuthorizedBy
<1>4. NoCollection(l, "funding") \/ CollectionIntegrity(l, "funding")
  BY RecoverableParts DEF LegIntegrity
<1>5. LegIntegrity(l)' /\ PreparationInWindow(l)'
  <2>1. CollectionIntegrity(l, "funding")'
    BY <1>1, <1>4, CollectedSound DEF ValidEvidence
  <2>2. NoCollection(l, "spend")'
    BY <1>1, <1>2, RecoverableParts DEF LegIntegrity, SpendPhase, FundedPhase, NoCollection, Slot
  <2>3. /\ confirmedAt[<<l, "funding">>] = None /\ confirmedAt[<<l, "spend">>] = None
        /\ artifact[l] # None /\ preparedAt[l] # None
    BY <1>1, RecoverableParts DEF LegIntegrity, FundedPhase, SpentPhase
  <2>4. LegIntegrity(l)'
    BY <1>1, <2>1, <2>2, <2>3 DEF LegIntegrity, TypeOK, SpendPhase, FundedPhase, SpentPhase
  <2>5. PreparationInWindow(l)'
    BY <1>1, RecoverableParts DEF PreparationInWindow, AuthorizedBy, TypeOK
  <2>. QED  BY <2>4, <2>5
<1>6. \A m \in Leg \ {l} : LegIntegrity(m)' /\ PreparationInWindow(m)'
  <2>1. \A m \in Leg \ {l}, k \in Kind : <<m, k>> \in Slot \ {<<l, "funding">>}
    BY DEF Slot
  <2>. QED  BY <1>1, <1>2, <1>3, <2>1, LegFrame, RecoverableParts DEF TypeOK
<1>7. AuthorizedInTime' /\ ExpiredClean'
  BY <1>1, RecoverableParts DEF AuthorizedInTime, ExpiredClean
<1>8. LegOrder'
  BY <1>1, RecoverableParts DEF LegOrder, FundedPhase, ClaimPhase, TypeOK, Leg
<1>9. SecretsBound'
  <2>1. <<"evm", "spend">> \in Slot \ {<<l, "funding">>}
    BY DEF Slot, Leg
  <2>. QED
    BY <1>1, <1>2, <2>1, RecoverableParts DEF SecretsBound, ClaimPhase, TypeOK, Leg
<1>10. RecordsIntegrity'
  <2>1. fact[<<l, "funding">>] = None => reports[<<l, "funding">>] = {}
    BY <1>4 DEF NoCollection, CollectionIntegrity
  <2>. QED  BY <1>1, <2>1, CollectRecords, RecoverableParts
<1>. QED  BY <1>5, <1>6, <1>7, <1>8, <1>9, <1>10, RecoverableParts

LEMMA ConfirmFundingSound ==
  ASSUME TypeOK, RecoverableIntegrity, NEW l \in Leg, NEW f \in FundingFacts, NEW t \in Times,
         ConfirmSwapFunding(l, f, t)
  PROVE  RecoverableIntegrity'
<1>. "funding" \in Kind /\ "spend" \in Kind
  BY DEF Kind
<1>1. /\ ~expired /\ disputes = {} /\ phase[l] = "funding-seen"
      /\ fact[<<l, "funding">>] = f /\ PolicyQualified(l, f, reports[<<l, "funding">>], t)
      /\ phase' = [phase EXCEPT ![l] = "funded-confirmed"]
      /\ confirmedAt' = [confirmedAt EXCEPT ![<<l, "funding">>] = t]
      /\ UNCHANGED <<authorizations, artifact, preparedAt, fact, reports, observedSecret,
                     confirmedSecret, expired, disputes, resolutions, retracted>>
  BY DEF ConfirmSwapFunding, NotDisputed, secretVars, recoveryVars
<1>2. /\ confirmedAt'[<<l, "funding">>] = t /\ t # None
      /\ \A s \in Slot \ {<<l, "funding">>} : confirmedAt'[s] = confirmedAt[s]
  BY <1>1, InputTypes DEF TypeOK, Slot
<1>3. \A u : AuthorizedBy(u) => AuthorizedBy(u)'
  BY <1>1 DEF AuthorizedBy
<1>4. l = "zec" => phase["evm"] = "unfunded"
  BY <1>1, RecoverableParts DEF LegOrder, FundedPhase
<1>5. LegIntegrity(l)' /\ PreparationInWindow(l)'
  <2>1. CollectionIntegrity(l, "funding")
    BY <1>1, RecoverableParts DEF LegIntegrity
  <2>2. CollectionIntegrity(l, "funding")'
    <3>1. l = "evm" => confirmedAt'[<<"zec", "funding">>] = confirmedAt[<<"zec", "funding">>]
      BY <1>2 DEF Slot, Leg
    <3>. QED  BY <1>1, <1>3, <2>1, <3>1, CollectionFrame
  <2>3. PolicyQualified(l, f, reports[<<l, "funding">>], t)'
    BY <1>1, QualifiedFrame
  <2>4. NoCollection(l, "spend") /\ NoCollection(l, "spend")'
    BY <1>1, RecoverableParts DEF LegIntegrity, SpendPhase, FundedPhase, NoCollection
  <2>5. /\ confirmedAt'[<<l, "spend">>] = None
        /\ artifact[l] # None /\ preparedAt[l] # None
    BY <1>1, <1>2, RecoverableParts DEF LegIntegrity, SpentPhase, Slot
  <2>6. phase'[l] = "funded-confirmed"
    BY <1>1 DEF TypeOK
  <2>7. LegIntegrity(l)'
    BY <1>1, <1>2, <2>2, <2>3, <2>4, <2>5, <2>6
       DEF LegIntegrity, SpendPhase, FundedPhase, SpentPhase
  <2>8. PreparationInWindow(l)'
    BY <1>1, <1>2, RecoverableParts DEF PreparationInWindow, AuthorizedBy, Leg, Slot
  <2>. QED  BY <2>7, <2>8
<1>6. \A m \in Leg \ {l} : LegIntegrity(m)' /\ PreparationInWindow(m)'
  <2>1. \A m \in Leg \ {l}, k \in Kind : <<m, k>> \in Slot \ {<<l, "funding">>}
    BY DEF Slot
  <2>2. \A m \in Leg \ {l} : phase'[m] = phase[m]
    BY <1>1 DEF TypeOK
  <2>3. \A m \in Leg \ {l} : m = "evm" => phase[m] = "unfunded"
    BY <1>4 DEF Leg
  <2>4. \A m \in Leg \ {l}, k \in Kind : confirmedAt'[<<m, k>>] = confirmedAt[<<m, k>>]
    BY <1>2, <2>1
  <2>. QED  BY <1>1, <1>3, <2>2, <2>3, <2>4, LegFrame, RecoverableParts
<1>7. AuthorizedInTime' /\ ExpiredClean'
  BY <1>1, RecoverableParts DEF AuthorizedInTime, ExpiredClean
<1>8. LegOrder'
  BY <1>1, RecoverableParts DEF LegOrder, FundedPhase, ClaimPhase, TypeOK, Leg
<1>9. SecretsBound'
  BY <1>1, RecoverableParts DEF SecretsBound, ClaimPhase, TypeOK, Leg
<1>10. RecordsIntegrity'
  BY <1>1, RecordsFrame, RecoverableParts
<1>. QED  BY <1>5, <1>6, <1>7, <1>8, <1>9, <1>10, RecoverableParts

LEMMA ObserveSpendSound ==
  ASSUME TypeOK, RecoverableIntegrity, NEW l \in Leg, NEW a \in Attestations,
         ObserveSwapSpend(l, a)
  PROVE  RecoverableIntegrity'
<1>. SUFFICES ASSUME ~ViewConflict(reports[<<l, "spend">>], a)
              PROVE  RecoverableIntegrity'
  BY DEF ObserveSwapSpend, Collect, SwapIntegrity
<1>. "funding" \in Kind /\ "spend" \in Kind
  BY DEF Kind
<1>1. /\ ~expired /\ disputes = {} /\ ValidSpend(l, a.fact, a)
      /\ phase[l] \in {"funded-confirmed", SeenPhase(a.fact)}
      /\ ClaimAfterConfirmedSecret(a.fact)
      /\ Admissible(l, "spend", a) /\ Collect(l, "spend", a)
      /\ phase' = [phase EXCEPT ![l] = SeenPhase(a.fact)]
      /\ observedSecret' = RevealedBy(l, a.fact)
      /\ UNCHANGED <<authorizations, artifact, preparedAt, confirmedAt, confirmedSecret,
                     expired, resolutions, retracted>>
  BY DEF ObserveSwapSpend, NotDisputed
<1>2. /\ \A s \in Slot \ {<<l, "spend">>} : fact'[s] = fact[s] /\ reports'[s] = reports[s]
      /\ disputes' = disputes
  BY <1>1 DEF Collect, TypeOK
<1>3. \A u : AuthorizedBy(u) => AuthorizedBy(u)'
  BY <1>1 DEF AuthorizedBy
<1>4. NoCollection(l, "spend") \/ CollectionIntegrity(l, "spend")
  BY RecoverableParts DEF LegIntegrity
<1>5. /\ a.fact.leg = l /\ a.fact.action \in {"claim", "refund"}
      /\ a.fact.action = "claim" => a.fact.preimage = Secret
  BY <1>1, InputTypes DEF ValidSpend
<1>6. /\ phase'[l] = SeenPhase(a.fact)
      /\ SeenPhase(a.fact) = (IF a.fact.action = "claim" THEN "claim-seen" ELSE "refund-seen")
      /\ phase[l] \in FundedPhase
  BY <1>1 DEF TypeOK, SeenPhase, FundedPhase
<1>7. CollectionIntegrity(l, "spend")' /\ fact'[<<l, "spend">>] = a.fact
  BY <1>1, <1>4, CollectedSound DEF ValidEvidence
<1>8. LegIntegrity(l)' /\ PreparationInWindow(l)'
  <2>1. CollectionIntegrity(l, "funding")
    BY <1>1, <1>6, RecoverableParts DEF LegIntegrity, FundedPhase
  <2>2. fact'[<<l, "funding">>] = fact[<<l, "funding">>]
        /\ reports'[<<l, "funding">>] = reports[<<l, "funding">>]
    BY <1>2 DEF Slot
  <2>3. CollectionIntegrity(l, "funding")'
    BY <1>1, <1>3, <2>1, <2>2, CollectionFrame
  <2>4. /\ confirmedAt[<<l, "funding">>] # None
        /\ PolicyQualified(l, fact[<<l, "funding">>], reports[<<l, "funding">>],
                           confirmedAt[<<l, "funding">>])
        /\ confirmedAt[<<l, "spend">>] = None
        /\ artifact[l] # None /\ preparedAt[l] # None
    BY <1>1, <1>6, RecoverableParts DEF LegIntegrity, FundedPhase, SpentPhase
  <2>5. PolicyQualified(l, fact[<<l, "funding">>], reports[<<l, "funding">>],
                        confirmedAt[<<l, "funding">>])'
    BY <1>1, <2>2, <2>4, QualifiedFrame
  <2>6. LegIntegrity(l)'
    BY <1>1, <1>5, <1>6, <1>7, <2>3, <2>4, <2>5
       DEF LegIntegrity, SpendPhase, FundedPhase, SpentPhase, ClaimPhase
  <2>7. PreparationInWindow(l)'
    BY <1>1, <1>6, RecoverableParts DEF PreparationInWindow, AuthorizedBy, FundedPhase
  <2>. QED  BY <2>6, <2>7
<1>9. \A m \in Leg \ {l} : LegIntegrity(m)' /\ PreparationInWindow(m)'
  <2>1. \A m \in Leg \ {l}, k \in Kind : <<m, k>> \in Slot \ {<<l, "spend">>}
    BY DEF Slot
  <2>. QED  BY <1>1, <1>2, <1>3, <2>1, LegFrame, RecoverableParts DEF TypeOK
<1>10. AuthorizedInTime' /\ ExpiredClean'
  BY <1>1, RecoverableParts DEF AuthorizedInTime, ExpiredClean
<1>11. l = "evm" => phase["evm"] # "claimed-confirmed"
  BY <1>1, <1>6
<1>12. LegOrder'
  <2>1. CASE l = "zec"
    BY <1>1, <1>5, <1>6, <2>1, RecoverableParts
       DEF LegOrder, ClaimAfterConfirmedSecret, FundedPhase, ClaimPhase, TypeOK, Leg
  <2>2. CASE l = "evm"
    BY <1>1, <1>6, <1>11, <2>2, RecoverableParts DEF LegOrder, FundedPhase, ClaimPhase, TypeOK, Leg
  <2>. QED  BY <2>1, <2>2 DEF Leg
<1>13. SecretsBound'
  <2>1. CASE l = "zec"
    <3>1. <<"evm", "spend">> \in Slot \ {<<l, "spend">>}
      BY <2>1 DEF Slot, Leg
    <3>2. observedSecret' = observedSecret /\ phase'["evm"] = phase["evm"]
      BY <1>1, <2>1 DEF RevealedBy, TypeOK
    <3>3. phase'["zec"] \in ClaimPhase => confirmedSecret # None
      BY <1>1, <1>5, <1>6, <2>1 DEF ClaimAfterConfirmedSecret, ClaimPhase
    <3>. QED  BY <1>1, <1>2, <3>1, <3>2, <3>3, RecoverableParts DEF SecretsBound
  <2>2. CASE l = "evm"
    <3>1. confirmedSecret = None /\ phase'["zec"] \notin ClaimPhase
      BY <1>1, <1>11, <2>2, RecoverableParts DEF SecretsBound, LegOrder, TypeOK, Leg
    <3>2. CASE observedSecret = None
      BY <1>1, <1>5, <1>6, <1>7, <2>2, <3>1, <3>2 DEF SecretsBound, RevealedBy, ClaimPhase
    <3>3. CASE observedSecret # None
      <4>1. /\ phase["evm"] \in ClaimPhase /\ observedSecret = fact[<<"evm", "spend">>]
            /\ observedSecret.action = "claim" /\ observedSecret.preimage = Secret
        BY <3>3, RecoverableParts DEF SecretsBound
      <4>2. phase[l] = "claim-seen" /\ phase'[l] = "claim-seen"
        BY <1>1, <1>6, <2>2, <4>1 DEF ClaimPhase
      <4>3. fact[<<"evm", "spend">>] # None
        BY <2>2, <4>2, RecoverableParts
           DEF LegIntegrity, CollectionIntegrity, SpendPhase, FundedPhase
      <4>4. a.fact = fact[<<"evm", "spend">>]
        BY <1>1, <2>2, <4>3 DEF Admissible
      <4>5. observedSecret' = observedSecret
        BY <1>1, <3>3 DEF RevealedBy
      <4>. QED  BY <1>1, <1>7, <2>2, <3>1, <4>1, <4>2, <4>4, <4>5 DEF SecretsBound, ClaimPhase
    <3>. QED  BY <3>2, <3>3
  <2>. QED  BY <2>1, <2>2 DEF Leg
<1>14. RecordsIntegrity'
  <2>1. fact[<<l, "spend">>] = None => reports[<<l, "spend">>] = {}
    BY <1>4 DEF NoCollection, CollectionIntegrity
  <2>. QED  BY <1>1, <2>1, CollectRecords, RecoverableParts
<1>. QED  BY <1>8, <1>9, <1>10, <1>12, <1>13, <1>14, RecoverableParts

LEMMA ConfirmSpendSound ==
  ASSUME TypeOK, RecoverableIntegrity, ClaimReveals,
         NEW l \in Leg, NEW f \in SpendFacts, NEW t \in Times, ConfirmSwapSpend(l, f, t)
  PROVE  RecoverableIntegrity'
<1>. "funding" \in Kind /\ "spend" \in Kind
  BY DEF Kind
<1>1. /\ ~expired /\ disputes = {} /\ phase[l] \in {"claim-seen", "refund-seen"}
      /\ fact[<<l, "spend">>] = f /\ PolicyQualified(l, f, reports[<<l, "spend">>], t)
      /\ phase' = [phase EXCEPT ![l] = IF @ = "claim-seen" THEN "claimed-confirmed"
                                                           ELSE "refunded-confirmed"]
      /\ confirmedAt' = [confirmedAt EXCEPT ![<<l, "spend">>] = t]
      /\ confirmedSecret' = IF l = "evm" /\ phase[l] = "claim-seen" THEN f ELSE confirmedSecret
      /\ UNCHANGED <<authorizations, artifact, preparedAt, fact, reports, observedSecret,
                     expired, disputes, resolutions, retracted>>
  BY DEF ConfirmSwapSpend, NotDisputed, recoveryVars
<1>2. /\ confirmedAt'[<<l, "spend">>] = t /\ t # None
      /\ \A s \in Slot \ {<<l, "spend">>} : confirmedAt'[s] = confirmedAt[s]
      /\ \A m \in Leg : confirmedAt'[<<m, "funding">>] = confirmedAt[<<m, "funding">>]
  BY <1>1, InputTypes DEF TypeOK, Slot
<1>3. \A u : AuthorizedBy(u) => AuthorizedBy(u)'
  BY <1>1 DEF AuthorizedBy
<1>4. phase'[l] = IF phase[l] = "claim-seen" THEN "claimed-confirmed" ELSE "refunded-confirmed"
  BY <1>1 DEF TypeOK
<1>5. LegIntegrity(l)' /\ PreparationInWindow(l)'
  <2>1. CollectionIntegrity(l, "funding") /\ CollectionIntegrity(l, "spend")
    BY <1>1, RecoverableParts DEF LegIntegrity, SpendPhase, FundedPhase
  <2>2. CollectionIntegrity(l, "funding")' /\ CollectionIntegrity(l, "spend")'
    BY <1>1, <1>2, <1>3, <2>1, CollectionFrame DEF Leg
  <2>3. PolicyQualified(l, f, reports[<<l, "spend">>], t)'
    BY <1>1, QualifiedFrame
  <2>4. /\ confirmedAt[<<l, "funding">>] # None
        /\ PolicyQualified(l, fact[<<l, "funding">>], reports[<<l, "funding">>],
                           confirmedAt[<<l, "funding">>])
        /\ artifact[l] # None /\ preparedAt[l] # None
        /\ f.action = (IF phase[l] \in ClaimPhase THEN "claim" ELSE "refund")
    BY <1>1, RecoverableParts DEF LegIntegrity, SpendPhase, FundedPhase
  <2>5. PolicyQualified(l, fact[<<l, "funding">>], reports[<<l, "funding">>],
                        confirmedAt[<<l, "funding">>])'
    BY <1>1, <1>2, <2>4, QualifiedFrame
  <2>6. LegIntegrity(l)'
    BY <1>1, <1>2, <1>4, <2>2, <2>3, <2>4, <2>5
       DEF LegIntegrity, SpendPhase, FundedPhase, SpentPhase, ClaimPhase
  <2>7. PreparationInWindow(l)'
    BY <1>1, <1>2, RecoverableParts DEF PreparationInWindow, AuthorizedBy, Leg
  <2>. QED  BY <2>6, <2>7
<1>6. \A m \in Leg \ {l} : LegIntegrity(m)' /\ PreparationInWindow(m)'
  <2>1. \A m \in Leg \ {l}, k \in Kind : <<m, k>> \in Slot \ {<<l, "spend">>}
    BY DEF Slot
  <2>2. \A m \in Leg \ {l} : phase'[m] = phase[m]
    BY <1>1 DEF TypeOK
  <2>3. \A m \in Leg \ {l}, k \in Kind : confirmedAt'[<<m, k>>] = confirmedAt[<<m, k>>]
    BY <1>2, <2>1
  <2>4. confirmedAt'[<<"zec", "funding">>] = confirmedAt[<<"zec", "funding">>]
    BY <1>2 DEF Leg
  <2>. QED  BY <1>1, <1>3, <2>2, <2>3, <2>4, LegFrame, RecoverableParts
<1>7. AuthorizedInTime' /\ ExpiredClean'
  BY <1>1, RecoverableParts DEF AuthorizedInTime, ExpiredClean
<1>8. LegOrder'
  BY <1>1, <1>4, RecoverableParts DEF LegOrder, FundedPhase, ClaimPhase, TypeOK, Leg
<1>9. SecretsBound'
  <2>1. CASE l = "zec"
    BY <1>1, <1>4, <2>1, RecoverableParts DEF SecretsBound, ClaimPhase, TypeOK
  <2>2. CASE l = "evm" /\ phase[l] = "claim-seen"
    <3>1. observedSecret # None
      BY <2>2 DEF ClaimReveals, ClaimPhase
    <3>2. phase["zec"] \notin ClaimPhase /\ phase'["zec"] = phase["zec"]
      BY <1>1, <2>2, RecoverableParts DEF LegOrder, TypeOK, Leg
    <3>. QED  BY <1>1, <1>4, <2>2, <3>1, <3>2, RecoverableParts DEF SecretsBound, ClaimPhase
  <2>3. CASE l = "evm" /\ phase[l] = "refund-seen"
    <3>1. phase["zec"] \notin ClaimPhase /\ phase'["zec"] = phase["zec"]
      BY <1>1, <2>3, RecoverableParts DEF LegOrder, TypeOK, Leg
    <3>. QED  BY <1>1, <1>4, <2>3, <3>1, RecoverableParts DEF SecretsBound, ClaimPhase
  <2>. QED  BY <1>1, <2>1, <2>2, <2>3 DEF Leg
<1>10. RecordsIntegrity'
  BY <1>1, RecordsFrame, RecoverableParts
<1>. QED  BY <1>5, <1>6, <1>7, <1>8, <1>9, <1>10, RecoverableParts

(* A claim that is seen has revealed the secret.                           *)
LEMMA RevealKept ==
  ASSUME TypeOK, RecoverableIntegrity, ClaimReveals, [Next]_vars
  PROVE  ClaimReveals'
<1>1. ASSUME phase'["evm"] \in ClaimPhase => phase["evm"] \in ClaimPhase,
             observedSecret' = observedSecret
      PROVE  ClaimReveals'
  BY <1>1 DEF ClaimReveals
<1>2. ASSUME NEW r \in Role, NEW t \in Times, AuthorizeSwapTerms(r, t) PROVE ClaimReveals'
  BY <1>2, <1>1 DEF AuthorizeSwapTerms, legVars, secretVars
<1>3. ASSUME NEW l \in Leg, NEW h \in Artifacts, NEW t \in Times, PrepareSwapFunding(l, h, t)
      PROVE  ClaimReveals'
  BY <1>3, <1>1 DEF PrepareSwapFunding, secretVars, ClaimPhase, TypeOK
<1>4. ASSUME NEW l \in Leg, NEW h \in Artifacts, AbandonSwapFunding(l, h) PROVE ClaimReveals'
  BY <1>4, <1>1 DEF AbandonSwapFunding, secretVars, ClaimPhase, TypeOK
<1>5. ASSUME NEW t \in Times, ExpireSwap(t) PROVE ClaimReveals'
  BY <1>5, <1>1 DEF ExpireSwap, secretVars, ClaimPhase, Leg
<1>6. ASSUME NEW l \in Leg, NEW a \in Attestations, ObserveSwapFunding(l, a) PROVE ClaimReveals'
  BY <1>6, <1>1 DEF ObserveSwapFunding, secretVars, ClaimPhase, TypeOK
<1>7. ASSUME NEW l \in Leg, NEW f \in FundingFacts, NEW t \in Times, ConfirmSwapFunding(l, f, t)
      PROVE  ClaimReveals'
  BY <1>7, <1>1 DEF ConfirmSwapFunding, secretVars, ClaimPhase, TypeOK
<1>8. ASSUME NEW l \in Leg, NEW a \in Attestations, ObserveSwapSpend(l, a) PROVE ClaimReveals'
  <2>1. /\ phase' = [phase EXCEPT ![l] = SeenPhase(a.fact)]
        /\ observedSecret' = RevealedBy(l, a.fact)
        /\ a.fact # None
    BY <1>8, InputTypes DEF ObserveSwapSpend
  <2>2. CASE l = "evm" /\ a.fact.action = "claim"
    BY <2>1, <2>2 DEF RevealedBy, ClaimReveals
  <2>3. CASE l = "evm" /\ a.fact.action # "claim"
    BY <2>1, <2>3 DEF ClaimReveals, SeenPhase, ClaimPhase, TypeOK
  <2>4. CASE l = "zec"
    BY <2>1, <2>4, <1>1 DEF RevealedBy, TypeOK
  <2>. QED  BY <2>2, <2>3, <2>4 DEF Leg
<1>9. ASSUME NEW l \in Leg, NEW f \in SpendFacts, NEW t \in Times, ConfirmSwapSpend(l, f, t)
      PROVE  ClaimReveals'
  BY <1>9, <1>1 DEF ConfirmSwapSpend, ClaimPhase, TypeOK
<1>10. ASSUME NEW why \in Reason, NEW e \in FlagTargets, FlagSwapDispute(why, e)
       PROVE  ClaimReveals'
  BY <1>10, <1>1 DEF FlagSwapDispute, legVars, secretVars
<1>11. ASSUME NEW e \in EvidenceIds, RetractSwapEvidence(e) PROVE ClaimReveals'
  BY <1>11, <1>1 DEF RetractSwapEvidence, legVars, secretVars
<1>12. ASSUME NEW l \in Leg, NEW k \in Kind, NEW old \in Attestations,
              NEW a \in Attestations, NEW t \in Times, Replace(l, k, old, a, t)
       PROVE  ClaimReveals'
  BY <1>12, <1>1 DEF Replace, secretVars
<1>13. CASE UNCHANGED vars
  BY <1>13, <1>1 DEF vars, legVars, secretVars
<1>. QED
  BY <1>2, <1>3, <1>4, <1>5, <1>6, <1>7, <1>8, <1>9, <1>10, <1>11, <1>12, <1>13, StepCases

(* No sequence of calls leads to a state that the operations' own          *)
(* assertion would refuse, but for a resolved report that comes back.      *)
THEOREM EvidenceInductive == Spec => []IndEvidence
<1>1. Init => RecoverableIntegrity /\ ClaimReveals
  BY EvidenceInit DEF Init, ClaimReveals, ClaimPhase, Leg
<1>2. TypeOK /\ RecoverableIntegrity /\ ClaimReveals /\ [Next]_vars
        => RecoverableIntegrity' /\ ClaimReveals'
  <2>. SUFFICES ASSUME TypeOK, RecoverableIntegrity, ClaimReveals, [Next]_vars
                PROVE  RecoverableIntegrity'
    BY RevealKept
  <2>1. ASSUME NEW why \in Reason, NEW e \in FlagTargets, FlagSwapDispute(why, e)
        PROVE  RecoverableIntegrity'
    BY <2>1 DEF FlagSwapDispute, SwapIntegrity
  <2>2. ASSUME NEW e \in EvidenceIds, RetractSwapEvidence(e) PROVE RecoverableIntegrity'
    BY <2>2 DEF RetractSwapEvidence, SwapIntegrity
  <2>3. ASSUME NEW l \in Leg, NEW k \in Kind, NEW old \in Attestations,
               NEW a \in Attestations, NEW t \in Times, Replace(l, k, old, a, t)
        PROVE  RecoverableIntegrity'
    BY <2>3 DEF Replace, SwapIntegrity
  <2>4. CASE UNCHANGED vars
    <3>1. \A l \in Leg : LegIntegrity(l)' /\ PreparationInWindow(l)'
      BY <2>4, LegFrame, RecoverableParts DEF vars, legVars, recoveryVars, AuthorizedBy
    <3>2. RecordsIntegrity'
      BY <2>4, RecordsFrame, RecoverableParts DEF vars, legVars, recoveryVars
    <3>. QED
      BY <2>4, <3>1, <3>2, RecoverableParts
         DEF vars, legVars, secretVars, recoveryVars, AuthorizedInTime, LegOrder, SecretsBound,
             ExpiredClean
  <2>. QED
    BY <2>1, <2>2, <2>3, <2>4, StepCases, AuthorizeSound, PrepareSound, AbandonSound, ExpireSound,
       ObserveFundingSound, ConfirmFundingSound, ObserveSpendSound, ConfirmSpendSound
<1>. QED  BY <1>1, <1>2, TypeCorrect, PTL DEF Spec, IndEvidence

(* The quorum that PolicyQualified counted once is still there: it is      *)
(* counted among reports that are not withdrawn.                           *)
LEMMA QuorumStands ==
  ASSUME TypeOK, RecoverableIntegrity
  PROVE  QuorumBehindConfirmation
<1>. SUFFICES ASSUME NEW l \in Leg, NEW k \in Kind, confirmedAt[<<l, k>>] # None
              PROVE  \E q \in SUBSET reports[<<l, k>>] :
                       /\ Cardinality({a.source : a \in q}) >= RequiredSources
                       /\ \A a, b \in q : View(a) = View(b)
                       /\ \A a \in q : /\ a.fact = fact[<<l, k>>]
                                       /\ a.source \in Sources
                                       /\ a.id \notin retracted
                                       /\ a.height - fact[<<l, k>>].height + 1
                                            >= MinConfirmations[l]
  BY DEF QuorumBehindConfirmation
<1>. DEFINE f == fact[<<l, k>>]
            c == reports[<<l, k>>]
            t == confirmedAt[<<l, k>>]
<1>1. CollectionIntegrity(l, k) /\ PolicyQualified(l, f, c, t)
  BY RecoverableParts DEF LegIntegrity, Kind, FundedPhase, SpentPhase, SpendPhase
<1>2. PICK v \in Views(c) :
        Cardinality({a.source : a \in {b \in Qualifying(l, f, c, t) : View(b) = v}})
          >= RequiredSources
  BY <1>1 DEF PolicyQualified
<1>. DEFINE q == {b \in Qualifying(l, f, c, t) : View(b) = v}
<1>3. q \in SUBSET c
  BY DEF Qualifying
<1>4. \A a \in q : a.id \notin retracted /\ a.height + 1 >= f.height + MinConfirmations[l]
  BY DEF Qualifying
<1>5. \A a \in q : a.fact = f /\ a.source \in Sources
  BY <1>1, <1>3 DEF CollectionIntegrity, ValidEvidence, ValidFunding, ValidSpend, ValidAttestation
<1>6. f \in Facts
  BY <1>1 DEF CollectionIntegrity, TypeOK, Slot
<1>7. f.height \in Nat /\ MinConfirmations[l] \in Nat
  BY <1>6, InputTypes, Policies DEF Facts, EvidencePolicies
<1>8. \A a \in q : a.height \in Nat
  <2>1. c \subseteq Attestations
    BY DEF TypeOK, Slot
  <2>. QED  BY <1>3, <2>1, InputTypes
<1>9. \A a \in q : a.height - f.height + 1 >= MinConfirmations[l]
  BY <1>4, <1>7, <1>8
<1>. QED  BY <1>2, <1>3, <1>4, <1>5, <1>9

(* The evidence of a swap is sound in every state the library can produce. *)
THEOREM EvidenceIsSound == Spec => []EvidenceSound
<1>1. IndEvidence => EvidenceSound
  BY QuorumStands DEF IndEvidence, EvidenceSound
<1>. QED  BY <1>1, EvidenceInductive, PTL

-----------------------------------------------------------------------------
(* The one way out of the states the assertion accepts. *)

(* An observation is the only operation that may lead from a state every   *)
(* operation accepts to one that none accepts, and it does so only with an *)
(* identifier that was retracted and replaced before: nothing else is left *)
(* for the journal's state root to refuse (swap-state.ts:1023).            *)
THEOREM IntegrityLostByReturn ==
  Spec => [][SwapIntegrity /\ ~SwapIntegrity' =>
               \E l \in Leg, a \in Attestations :
                 /\ ObserveSwapFunding(l, a) \/ ObserveSwapSpend(l, a)
                 /\ a.id \in ResolvedIds]_vars
<1>1. TypeOK /\ IndEvidence' /\ [Next]_vars
        => [SwapIntegrity /\ ~SwapIntegrity' =>
              \E l \in Leg, a \in Attestations :
                /\ ObserveSwapFunding(l, a) \/ ObserveSwapSpend(l, a)
                /\ a.id \in ResolvedIds]_vars
  <2>. SUFFICES ASSUME TypeOK, IndEvidence', Next, SwapIntegrity, ~SwapIntegrity'
                PROVE  \E l \in Leg, a \in Attestations :
                         /\ ObserveSwapFunding(l, a) \/ ObserveSwapSpend(l, a)
                         /\ a.id \in ResolvedIds
    OBVIOUS
  <2>1. ResolvedStayInactive /\ ~ResolvedStayInactive'
    BY DEF SwapIntegrity, IndEvidence
  <2>2. ~(reports' = reports /\ resolutions' = resolutions)
    BY <2>1 DEF ResolvedStayInactive, ResolvedIds, ActiveIds, ActiveReports
  <2>3. ASSUME NEW l \in Leg, NEW k \in Kind, NEW a \in Attestations, Collect(l, k, a),
               resolutions' = resolutions
        PROVE  a.id \in ResolvedIds
    <3>1. PICK e \in ResolvedIds' : e \in ActiveIds'
      BY <2>1 DEF ResolvedStayInactive
    <3>2. e \in ResolvedIds
      BY <2>3, <3>1 DEF ResolvedIds
    <3>3. e \notin ActiveIds
      BY <2>1, <3>2 DEF ResolvedStayInactive
    <3>4. PICK s \in Slot : \E b \in reports'[s] : b.id = e
      BY <3>1 DEF ActiveIds, ActiveReports
    <3>5. PICK b \in reports'[s] : b.id = e
      BY <3>4
    <3>6. b \notin reports[s]
      BY <3>3, <3>5 DEF ActiveIds, ActiveReports
    <3>7. b = a
      BY <2>3, <3>5, <3>6 DEF Collect, TypeOK
    <3>. QED  BY <3>2, <3>5, <3>7
  <2>4. ASSUME NEW r \in Role, NEW t \in Times, AuthorizeSwapTerms(r, t) PROVE FALSE
    BY <2>2, <2>4 DEF AuthorizeSwapTerms, legVars, recoveryVars
  <2>5. ASSUME NEW l \in Leg, NEW h \in Artifacts, NEW t \in Times, PrepareSwapFunding(l, h, t)
        PROVE  FALSE
    BY <2>2, <2>5 DEF PrepareSwapFunding, recoveryVars
  <2>6. ASSUME NEW l \in Leg, NEW h \in Artifacts, AbandonSwapFunding(l, h) PROVE FALSE
    BY <2>2, <2>6 DEF AbandonSwapFunding, recoveryVars
  <2>7. ASSUME NEW t \in Times, ExpireSwap(t) PROVE FALSE
    BY <2>2, <2>7 DEF ExpireSwap, recoveryVars
  <2>8. ASSUME NEW l \in Leg, NEW a \in Attestations, ObserveSwapFunding(l, a)
        PROVE  a.id \in ResolvedIds
    BY <2>3, <2>8 DEF ObserveSwapFunding, Kind
  <2>9. ASSUME NEW l \in Leg, NEW f \in FundingFacts, NEW t \in Times, ConfirmSwapFunding(l, f, t)
        PROVE  FALSE
    BY <2>2, <2>9 DEF ConfirmSwapFunding, recoveryVars
  <2>10. ASSUME NEW l \in Leg, NEW a \in Attestations, ObserveSwapSpend(l, a)
         PROVE  a.id \in ResolvedIds
    BY <2>3, <2>10 DEF ObserveSwapSpend, Kind
  <2>11. ASSUME NEW l \in Leg, NEW f \in SpendFacts, NEW t \in Times, ConfirmSwapSpend(l, f, t)
         PROVE  FALSE
    BY <2>2, <2>11 DEF ConfirmSwapSpend, recoveryVars
  <2>12. ASSUME NEW why \in Reason, NEW e \in FlagTargets, FlagSwapDispute(why, e) PROVE FALSE
    BY <2>2, <2>12 DEF FlagSwapDispute, legVars
  <2>13. ASSUME NEW e \in EvidenceIds, RetractSwapEvidence(e) PROVE FALSE
    BY <2>2, <2>13 DEF RetractSwapEvidence, legVars
  <2>14. ASSUME NEW l \in Leg, NEW k \in Kind, NEW old \in Attestations,
                NEW a \in Attestations, NEW t \in Times, Replace(l, k, old, a, t)
         PROVE  FALSE
    BY <2>14 DEF Replace
  <2>. QED
    BY <2>4, <2>5, <2>6, <2>7, <2>8, <2>9, <2>10, <2>11, <2>12, <2>13, <2>14, StepCases
<1>. QED  BY <1>1, TypeCorrect, EvidenceInductive, PTL DEF Spec

-----------------------------------------------------------------------------
(* The journal. *)

(* A journaled step is a step of the library, or repeats a report that is  *)
(* in its collection already.                                              *)
LEMMA JournaledStep ==
  ASSUME JournalNext
  PROVE  [Next]_vars
<1>1. ASSUME NEW r \in Role, NEW t \in Times,
             AuthorizeSwapTerms(r, t) /\ Record(<<"authorize-terms", r>>)
      PROVE  Next
  BY <1>1 DEF Next
<1>2. ASSUME NEW l \in Leg, NEW h \in Artifacts, NEW t \in Times,
             PrepareSwapFunding(l, h, t) /\ Record(PrepareSlot(l, h, t))
      PROVE  Next
  BY <1>2 DEF Next
<1>3. ASSUME NEW l \in Leg, NEW h \in Artifacts,
             AbandonSwapFunding(l, h) /\ Record(<<"abandon-funding", l, h>>)
      PROVE  Next
  BY <1>3 DEF Next
<1>4. ASSUME NEW t \in Times, ExpireSwap(t) /\ Record(<<"expire-swap", t>>)
      PROVE  Next
  BY <1>4 DEF Next
<1>5. ASSUME NEW l \in Leg, NEW a \in Attestations,
             ObserveSwapFunding(l, a) /\ Record(ObserveSlot("funding", a))
      PROVE  Next
  BY <1>5 DEF Next
<1>6. ASSUME NEW l \in Leg, NEW f \in FundingFacts, NEW t \in Times,
             ConfirmSwapFunding(l, f, t) /\ Record(<<"confirm-funding", l, f>>)
      PROVE  Next
  BY <1>6 DEF Next
<1>7. ASSUME NEW l \in Leg, NEW a \in Attestations,
             ObserveSwapSpend(l, a) /\ Record(ObserveSlot("spend", a))
      PROVE  Next
  BY <1>7 DEF Next
<1>8. ASSUME NEW l \in Leg, NEW f \in SpendFacts, NEW t \in Times,
             ConfirmSwapSpend(l, f, t) /\ Record(<<"confirm-spend", l, f>>)
      PROVE  Next
  BY <1>8 DEF Next
<1>9. ASSUME NEW l \in Leg, NEW k \in Kind, NEW a \in Attestations, ObserveReplacement(l, k, a)
      PROVE  UNCHANGED vars
  BY <1>9 DEF ObserveReplacement
<1>10. ASSUME NEW why \in Reason, NEW e \in FlagTargets,
              FlagSwapDispute(why, e) /\ Record(<<"flag-dispute", why, e>>)
       PROVE  Next
  BY <1>10 DEF Next
<1>11. ASSUME NEW e \in EvidenceIds, RetractSwapEvidence(e) /\ Record(<<"retract-evidence", e>>)
       PROVE  Next
  BY <1>11 DEF Next
<1>12. ASSUME NEW l \in Leg, NEW old \in Attestations, NEW a \in Attestations, NEW t \in Times,
              /\ ReplaceSwapFundingAttestation(l, old, a, t)
              /\ Record(ReplaceSlot(l, "funding", old))
       PROVE  Next
  BY <1>12 DEF Next
<1>13. ASSUME NEW l \in Leg, NEW old \in Attestations, NEW a \in Attestations, NEW t \in Times,
              /\ ReplaceSwapSpendAttestation(l, old, a, t)
              /\ Record(ReplaceSlot(l, "spend", old))
       PROVE  Next
  BY <1>13 DEF Next
<1>. QED
  BY <1>1, <1>2, <1>3, <1>4, <1>5, <1>6, <1>7, <1>8, <1>9, <1>10, <1>11, <1>12, <1>13
     DEF JournalNext

(* A journaled swap is a swap of the library: what the theorems of the     *)
(* library say holds of it.                                                *)
THEOREM JournalImplementsLibrary == JournalSpec => Spec
<1>1. JournalInit => Init
  BY DEF JournalInit
<1>2. [JournalNext]_journalVars => [Next]_vars
  BY JournaledStep DEF journalVars
<1>. QED  BY <1>1, <1>2, PTL DEF JournalSpec, Spec

-----------------------------------------------------------------------------
(* Receipts and collections. *)

LEMMA ObserveSlots ==
  ASSUME NEW k \in Kind, NEW a
  PROVE  /\ ObserveSlot(k, a)[1] \in {"observe-funding", "observe-spend"}
         /\ \A m \in Kind : \A b : ObserveSlot(m, b) = ObserveSlot(k, a) =>
              m = k /\ b.fact = a.fact /\ b.source = a.source
<1>1. CASE k = "funding"
  BY <1>1 DEF ObserveSlot, Kind
<1>2. CASE k = "spend"
  BY <1>2 DEF ObserveSlot, Kind
<1>. QED  BY <1>1, <1>2 DEF Kind

(* A collection holds reports of its fact, a fact of its leg, and nothing  *)
(* is receipted but reports of the fact of a collection: a slot is never   *)
(* occupied before its fact is there.                                      *)
FactInPlace(l, k) ==
  /\ fact[<<l, k>>] # None => fact[<<l, k>>].leg = l
  /\ \A a \in reports[<<l, k>>] : fact[<<l, k>>] # None /\ a.fact = fact[<<l, k>>]

FactsInPlace == \A l \in Leg, k \in Kind : FactInPlace(l, k)

ReceiptsOfFacts ==
  \A k \in Kind, f \in Facts, s \in Sources :
    ObserveSlot(k, [fact |-> f, source |-> s]) \in slots =>
      \E l \in Leg : fact[<<l, k>>] = f

IndReceipts == FactsInPlace /\ ReceiptsOfFacts /\ ReceiptsMatchReports

(* What was receipted stays so. *)
LEMMA ReceiptedStays ==
  ASSUME NEW l \in Leg, NEW k \in Kind, NEW a, Receipted(l, k, a),
         slots \subseteq slots', resolutions \subseteq resolutions'
  PROVE  Receipted(l, k, a)'
<1>1. CASE ObserveSlot(k, a) \in slots
  BY <1>1 DEF Receipted, ObserveSlot
<1>2. CASE \E r \in resolutions :
             /\ r.leg = l /\ r.kind = k /\ r.replacement = a
             /\ ReplaceSlot(l, k, r.retracted) \in slots
  BY <1>2 DEF Receipted, ReplaceSlot
<1>. QED  BY <1>1, <1>2 DEF Receipted

LEMMA DisplacedStays ==
  ASSUME NEW l \in Leg, NEW k \in Kind, NEW s, Displaced(l, k, s),
         resolutions \subseteq resolutions'
  PROVE  Displaced(l, k, s)'
BY DEF Displaced

(* A step that changes no fact, and reports only by a replacement or not   *)
(* at all, and occupies no slot but of a report that is heard.             *)
LEMMA ReceiptsKept ==
  ASSUME IndReceipts, fact' = fact, slots \subseteq slots', resolutions \subseteq resolutions',
         FactsInPlace',
         \A k \in Kind, f \in Facts, s \in Sources :
           LET slot == ObserveSlot(k, [fact |-> f, source |-> s]) IN
           slot \in slots' =>
             slot \in slots \/ \E l \in Leg : fact[<<l, k>>] = f /\ Heard(l, k, s)',
         \A l \in Leg, k \in Kind, s \in Sources :
           Heard(l, k, s) => Heard(l, k, s)' \/ Displaced(l, k, s)',
         \A l \in Leg, k \in Kind : \A a \in reports'[<<l, k>>] \ reports[<<l, k>>] :
           Receipted(l, k, a)',
         fact \in [Slot -> Facts \cup {None}]
  PROVE  IndReceipts'
<1>1. ReceiptsOfFacts'
  <2>. SUFFICES ASSUME NEW k \in Kind, NEW f \in Facts, NEW s \in Sources,
                       ObserveSlot(k, [fact |-> f, source |-> s]) \in slots'
                PROVE  \E l \in Leg : fact'[<<l, k>>] = f
    BY DEF ReceiptsOfFacts, ObserveSlot
  <2>. QED  BY DEF IndReceipts, ReceiptsOfFacts
<1>2. ReceiptsMatchReports'
  <2>. SUFFICES ASSUME NEW l \in Leg, NEW k \in Kind, fact[<<l, k>>] # None
                PROVE  SourcesHeard(l, k)' /\ AllReceipted(l, k)'
    BY DEF ReceiptsMatchReports
  <2>1. ASSUME NEW s \in Sources,
               ObserveSlot(k, [fact |-> fact[<<l, k>>], source |-> s]) \in slots'
        PROVE  Heard(l, k, s)' \/ Displaced(l, k, s)'
    <3>1. fact[<<l, k>>] \in Facts
      BY DEF Slot
    <3>2. CASE ObserveSlot(k, [fact |-> fact[<<l, k>>], source |-> s]) \in slots
      <4>1. Heard(l, k, s) \/ Displaced(l, k, s)
        BY <3>2 DEF IndReceipts, ReceiptsMatchReports, SourcesHeard, AllReceipted
      <4>. QED  BY <4>1, DisplacedStays
    <3>3. CASE \E m \in Leg : fact[<<m, k>>] = fact[<<l, k>>] /\ Heard(m, k, s)'
      BY <3>3 DEF IndReceipts, FactsInPlace, FactInPlace
    <3>. QED  BY <2>1, <3>1, <3>2, <3>3
  <2>2. ASSUME NEW a \in reports'[<<l, k>>] PROVE Receipted(l, k, a)'
    <3>1. CASE a \in reports[<<l, k>>]
      <4>1. Receipted(l, k, a)
        BY <3>1 DEF IndReceipts, ReceiptsMatchReports, SourcesHeard, AllReceipted
      <4>. QED  BY <4>1, ReceiptedStays
    <3>. QED  BY <3>1
  <2>3. SourcesHeard(l, k)'
    BY <2>1 DEF SourcesHeard, ObserveSlot
  <2>4. AllReceipted(l, k)'
    BY <2>2 DEF AllReceipted
  <2>. QED  BY <2>3, <2>4
<1>. QED  BY <1>1, <1>2 DEF IndReceipts

(* The receipt of anything but an observation. *)
LEMMA ReceiptAside ==
  ASSUME TypeOK, IndReceipts, NEW slot, slots' = slots \cup {slot},
         slot[1] \notin {"observe-funding", "observe-spend"},
         fact' = fact, reports' = reports, resolutions' = resolutions
  PROVE  IndReceipts'
<1>1. \A k \in Kind, f \in Facts, s \in Sources :
        ObserveSlot(k, [fact |-> f, source |-> s]) \in slots'
          => ObserveSlot(k, [fact |-> f, source |-> s]) \in slots
  BY ObserveSlots
<1>2. FactsInPlace'
  <2>. SUFFICES ASSUME NEW l \in Leg, NEW k \in Kind PROVE FactInPlace(l, k)'
    BY DEF FactsInPlace
  <2>. QED  BY DEF IndReceipts, FactsInPlace, FactInPlace
<1>3. \A l \in Leg, k \in Kind, s \in Sources : Heard(l, k, s) => Heard(l, k, s)'
  BY DEF Heard
<1>. QED  BY <1>1, <1>2, <1>3, ReceiptsKept DEF TypeOK

(* The receipt of a report that its collection has already. *)
LEMMA ReceiptOfRepeat ==
  ASSUME TypeOK, IndReceipts, NEW l \in Leg, NEW k \in Kind, NEW a \in reports[<<l, k>>],
         UNCHANGED vars, slots' = slots \cup {ObserveSlot(k, a)}
  PROVE  IndReceipts'
<1>1. fact' = fact /\ reports' = reports /\ resolutions' = resolutions
  BY DEF vars, legVars, recoveryVars
<1>2. a.fact = fact[<<l, k>>]
  BY DEF IndReceipts, FactsInPlace, FactInPlace
<1>3. ASSUME NEW j \in Kind, NEW f \in Facts, NEW s \in Sources,
             ObserveSlot(j, [fact |-> f, source |-> s]) \in slots'
      PROVE  \/ ObserveSlot(j, [fact |-> f, source |-> s]) \in slots
             \/ \E m \in Leg : fact[<<m, j>>] = f /\ Heard(m, j, s)'
  <2>1. CASE ObserveSlot(j, [fact |-> f, source |-> s]) = ObserveSlot(k, a)
    <3>1. j = k /\ f = a.fact /\ s = a.source
      BY <2>1, ObserveSlots
    <3>. QED  BY <1>1, <1>2, <3>1 DEF Heard
  <2>. QED  BY <1>3, <2>1
<1>4. FactsInPlace'
  <2>. SUFFICES ASSUME NEW m \in Leg, NEW j \in Kind PROVE FactInPlace(m, j)'
    BY DEF FactsInPlace
  <2>. QED  BY <1>1 DEF IndReceipts, FactsInPlace, FactInPlace
<1>5. \A m \in Leg, j \in Kind, s \in Sources : Heard(m, j, s) => Heard(m, j, s)'
  BY <1>1 DEF Heard
<1>. QED  BY <1>1, <1>3, <1>4, <1>5, ReceiptsKept DEF TypeOK

(* The receipt of a replacement. *)
LEMMA ReceiptOfReplacement ==
  ASSUME TypeOK, IndReceipts, NEW l \in Leg, NEW k \in Kind, NEW old \in Attestations,
         NEW a \in Attestations, NEW t \in Times, Replace(l, k, old, a, t),
         slots' = slots \cup {ReplaceSlot(l, k, old)}
  PROVE  IndReceipts'
<1>. DEFINE new == [leg |-> l, kind |-> k, retracted |-> old, replacement |-> a]
<1>1. /\ old \in reports[<<l, k>>]
      /\ a.fact = fact[<<l, k>>]
      /\ fact' = fact
      /\ reports' = [reports EXCEPT ![<<l, k>>] = (@ \ {old}) \cup {a}]
      /\ resolutions' = resolutions \cup {new}
  BY DEF Replace, MayReplace, FitReplacement
<1>2. /\ reports'[<<l, k>>] = (reports[<<l, k>>] \ {old}) \cup {a}
      /\ \A m \in Leg, j \in Kind : ~(m = l /\ j = k) => reports'[<<m, j>>] = reports[<<m, j>>]
  BY <1>1 DEF TypeOK, Slot
<1>3. FactsInPlace'
  <2>. SUFFICES ASSUME NEW m \in Leg, NEW j \in Kind PROVE FactInPlace(m, j)'
    BY DEF FactsInPlace
  <2>1. CASE m = l /\ j = k
    BY <1>1, <1>2, <2>1 DEF IndReceipts, FactsInPlace, FactInPlace
  <2>2. CASE ~(m = l /\ j = k)
    BY <1>1, <1>2, <2>2 DEF IndReceipts, FactsInPlace, FactInPlace
  <2>. QED  BY <2>1, <2>2
<1>4. \A j \in Kind, f \in Facts, s \in Sources :
        ObserveSlot(j, [fact |-> f, source |-> s]) \in slots'
          => ObserveSlot(j, [fact |-> f, source |-> s]) \in slots
  <2>1. ReplaceSlot(l, k, old)[1] \notin {"observe-funding", "observe-spend"}
    BY DEF ReplaceSlot
  <2>. QED  BY <2>1, ObserveSlots
<1>5. new \in resolutions' /\ new.leg = l /\ new.kind = k /\ new.retracted = old
        /\ new.replacement = a
  BY <1>1
<1>6. ASSUME NEW m \in Leg, NEW j \in Kind, NEW s \in Sources, Heard(m, j, s)
      PROVE  Heard(m, j, s)' \/ Displaced(m, j, s)'
  <2>1. PICK b \in reports[<<m, j>>] : b.source = s
    BY <1>6 DEF Heard
  <2>2. CASE b \in reports'[<<m, j>>]
    BY <2>1, <2>2 DEF Heard
  <2>3. CASE b \notin reports'[<<m, j>>]
    <3>1. m = l /\ j = k /\ b = old
      BY <1>2, <2>3
    <3>2. CASE a.source = s
      BY <1>2, <3>1, <3>2 DEF Heard
    <3>3. CASE a.source # s
      BY <1>5, <2>1, <3>1, <3>3 DEF Displaced
    <3>. QED  BY <3>2, <3>3
  <2>. QED  BY <2>2, <2>3
<1>7. ASSUME NEW m \in Leg, NEW j \in Kind, NEW b \in reports'[<<m, j>>] \ reports[<<m, j>>]
      PROVE  Receipted(m, j, b)'
  <2>1. m = l /\ j = k /\ b = a
    BY <1>2
  <2>2. ReplaceSlot(l, k, new.retracted) \in slots'
    BY <1>5
  <2>3. ReplaceSlot(l, k, new.retracted)' = ReplaceSlot(l, k, new.retracted)
    BY DEF ReplaceSlot
  <2>. QED  BY <1>5, <2>1, <2>2, <2>3 DEF Receipted
<1>8. slots \subseteq slots' /\ resolutions \subseteq resolutions'
  BY <1>1
<1>. QED  BY <1>1, <1>3, <1>4, <1>6, <1>7, <1>8, ReceiptsKept DEF TypeOK

(* The receipt of an observation that adds its report to the collection.   *)
LEMMA ReceiptOfObservation ==
  ASSUME TypeOK, IndReceipts, NEW l \in Leg, NEW k \in Kind, NEW a \in Attestations,
         a.fact.leg = l, a.source \in Sources, Admissible(l, k, a), Collect(l, k, a),
         resolutions' = resolutions, slots' = slots \cup {ObserveSlot(k, a)}
  PROVE  IndReceipts'
<1>1. a.fact \in Facts /\ a.fact # None /\ None \notin Facts
  BY InputsTyped, InputTypes
<1>2. /\ fact[<<l, k>>] \in {None, a.fact}
      /\ fact' = [fact EXCEPT ![<<l, k>>] = a.fact]
      /\ reports' = [reports EXCEPT ![<<l, k>>] = @ \cup {a}]
  BY DEF Admissible, Collect
<1>3. /\ fact'[<<l, k>>] = a.fact
      /\ reports'[<<l, k>>] = reports[<<l, k>>] \cup {a}
      /\ \A m \in Leg, j \in Kind : ~(m = l /\ j = k) =>
           fact'[<<m, j>>] = fact[<<m, j>>] /\ reports'[<<m, j>>] = reports[<<m, j>>]
  BY <1>2 DEF TypeOK, Slot
<1>4. FactsInPlace'
  <2>. SUFFICES ASSUME NEW m \in Leg, NEW j \in Kind PROVE FactInPlace(m, j)'
    BY DEF FactsInPlace
  <2>1. CASE m = l /\ j = k
    <3>1. \A b \in reports[<<l, k>>] : b.fact = a.fact
      BY <1>2 DEF IndReceipts, FactsInPlace, FactInPlace
    <3>. QED  BY <1>1, <1>3, <2>1, <3>1 DEF FactInPlace
  <2>2. CASE ~(m = l /\ j = k)
    BY <1>3, <2>2 DEF IndReceipts, FactsInPlace, FactInPlace
  <2>. QED  BY <2>1, <2>2
<1>5. ASSUME NEW j \in Kind, NEW f \in Facts, NEW s \in Sources,
             ObserveSlot(j, [fact |-> f, source |-> s]) \in slots'
      PROVE  \/ ObserveSlot(j, [fact |-> f, source |-> s]) \in slots
             \/ j = k /\ f = a.fact /\ s = a.source
  <2>1. CASE ObserveSlot(j, [fact |-> f, source |-> s]) = ObserveSlot(k, a)
    BY <2>1, ObserveSlots
  <2>. QED  BY <1>5, <2>1
<1>6. ASSUME NEW m \in Leg, NEW j \in Kind, NEW f \in Facts, fact[<<m, j>>] = f
      PROVE  fact'[<<m, j>>] = f
  BY <1>1, <1>2, <1>3, <1>6
<1>7. ReceiptsOfFacts'
  <2>. SUFFICES ASSUME NEW j \in Kind, NEW f \in Facts, NEW s \in Sources,
                       ObserveSlot(j, [fact |-> f, source |-> s]) \in slots'
                PROVE  \E m \in Leg : fact'[<<m, j>>] = f
    BY DEF ReceiptsOfFacts, ObserveSlot
  <2>1. CASE ObserveSlot(j, [fact |-> f, source |-> s]) \in slots
    BY <1>6, <2>1 DEF IndReceipts, ReceiptsOfFacts
  <2>2. CASE j = k /\ f = a.fact
    BY <1>3, <2>2
  <2>. QED  BY <1>5, <2>1, <2>2
<1>8. \A m \in Leg, j \in Kind, s \in Sources : Heard(m, j, s) => Heard(m, j, s)'
  <2>. SUFFICES ASSUME NEW m \in Leg, NEW j \in Kind
                PROVE  reports[<<m, j>>] \subseteq reports'[<<m, j>>]
    BY DEF Heard
  <2>. QED  BY <1>3
<1>9. slots \subseteq slots' /\ resolutions \subseteq resolutions'
  OBVIOUS
<1>10. ReceiptsMatchReports'
  <2>. SUFFICES ASSUME NEW m \in Leg, NEW j \in Kind, fact'[<<m, j>>] # None
                PROVE  SourcesHeard(m, j)' /\ AllReceipted(m, j)'
    BY DEF ReceiptsMatchReports
  <2>1. fact'[<<m, j>>] \in Facts
    <3>1. fact'[<<m, j>>] \in {a.fact, fact[<<m, j>>]} /\ fact[<<m, j>>] \in Facts \cup {None}
      BY <1>3 DEF TypeOK, Slot
    <3>. QED  BY <1>1, <3>1
  <2>2. ASSUME NEW s \in Sources,
               ObserveSlot(j, [fact |-> fact'[<<m, j>>], source |-> s]) \in slots'
        PROVE  Heard(m, j, s)' \/ Displaced(m, j, s)'
    <3>1. CASE ObserveSlot(j, [fact |-> fact'[<<m, j>>], source |-> s]) \in slots
      <4>1. PICK n \in Leg : fact[<<n, j>>] = fact'[<<m, j>>]
        BY <2>1, <3>1 DEF IndReceipts, ReceiptsOfFacts
      <4>2. fact[<<n, j>>] # None /\ fact[<<n, j>>].leg = n
        BY <4>1 DEF IndReceipts, FactsInPlace, FactInPlace
      <4>3. fact'[<<m, j>>].leg = m
        BY <1>4 DEF FactsInPlace, FactInPlace
      <4>4. Heard(m, j, s) \/ Displaced(m, j, s)
        BY <3>1, <4>1, <4>2, <4>3 DEF IndReceipts, ReceiptsMatchReports, SourcesHeard, AllReceipted
      <4>. QED  BY <1>8, <1>9, <4>4, DisplacedStays
    <3>2. CASE j = k /\ fact'[<<m, j>>] = a.fact /\ s = a.source
      <4>1. m = l
        BY <1>4, <3>2 DEF FactsInPlace, FactInPlace
      <4>. QED  BY <1>3, <3>2, <4>1 DEF Heard
    <3>. QED  BY <1>5, <2>1, <2>2, <3>1, <3>2
  <2>3. ASSUME NEW b \in reports'[<<m, j>>] PROVE Receipted(m, j, b)'
    <3>1. CASE b \in reports[<<m, j>>]
      <4>1. Receipted(m, j, b)
        BY <3>1 DEF IndReceipts, FactsInPlace, FactInPlace, ReceiptsMatchReports, AllReceipted
      <4>. QED  BY <1>9, <4>1, ReceiptedStays
    <3>2. CASE b \notin reports[<<m, j>>]
      <4>1. m = l /\ j = k /\ b = a
        BY <1>3, <3>2
      <4>. QED  BY <4>1 DEF Receipted, ObserveSlot
    <3>. QED  BY <3>1, <3>2
  <2>4. SourcesHeard(m, j)'
    BY <2>2 DEF SourcesHeard, ObserveSlot
  <2>5. AllReceipted(m, j)'
    BY <2>3 DEF AllReceipted
  <2>. QED  BY <2>4, <2>5
<1>. QED  BY <1>4, <1>7, <1>10 DEF IndReceipts

(* Receipts and reports never drift apart, whatever is withdrawn, replaced *)
(* and offered again.                                                      *)
THEOREM ReceiptsAlwaysMatch == JournalSpec => []ReceiptsMatchReports
<1>1. JournalInit => IndReceipts
  BY DEF JournalInit, Init, IndReceipts, FactsInPlace, FactInPlace, ReceiptsOfFacts,
         ReceiptsMatchReports, Slot
<1>2. TypeOK /\ IndReceipts /\ [JournalNext]_journalVars => IndReceipts'
  <2>. SUFFICES ASSUME TypeOK, IndReceipts, [JournalNext]_journalVars PROVE IndReceipts'
    OBVIOUS
  <2>. USE DEF Record
  <2>1. ASSUME NEW r \in Role, NEW t \in Times,
               AuthorizeSwapTerms(r, t) /\ Record(<<"authorize-terms", r>>)
        PROVE  IndReceipts'
    BY <2>1, ReceiptAside DEF AuthorizeSwapTerms, legVars, recoveryVars
  <2>2. ASSUME NEW l \in Leg, NEW h \in Artifacts, NEW t \in Times,
               PrepareSwapFunding(l, h, t) /\ Record(PrepareSlot(l, h, t))
        PROVE  IndReceipts'
    BY <2>2, ReceiptAside DEF PrepareSwapFunding, PrepareSlot, recoveryVars
  <2>3. ASSUME NEW l \in Leg, NEW h \in Artifacts,
               AbandonSwapFunding(l, h) /\ Record(<<"abandon-funding", l, h>>)
        PROVE  IndReceipts'
    BY <2>3, ReceiptAside DEF AbandonSwapFunding, recoveryVars
  <2>4. ASSUME NEW t \in Times, ExpireSwap(t) /\ Record(<<"expire-swap", t>>)
        PROVE  IndReceipts'
    BY <2>4, ReceiptAside DEF ExpireSwap, recoveryVars
  <2>5. ASSUME NEW l \in Leg, NEW a \in Attestations,
               ObserveSwapFunding(l, a) /\ Record(ObserveSlot("funding", a))
        PROVE  IndReceipts'
    <3>1. /\ a.fact.leg = l /\ a.source \in Sources
          /\ Admissible(l, "funding", a) /\ Collect(l, "funding", a)
          /\ resolutions' = resolutions /\ "funding" \in Kind
      BY <2>5 DEF ObserveSwapFunding, ValidFunding, ValidAttestation, Kind
    <3>. QED  BY <2>5, <3>1, ReceiptOfObservation
  <2>6. ASSUME NEW l \in Leg, NEW f \in FundingFacts, NEW t \in Times,
               ConfirmSwapFunding(l, f, t) /\ Record(<<"confirm-funding", l, f>>)
        PROVE  IndReceipts'
    BY <2>6, ReceiptAside DEF ConfirmSwapFunding, recoveryVars
  <2>7. ASSUME NEW l \in Leg, NEW a \in Attestations,
               ObserveSwapSpend(l, a) /\ Record(ObserveSlot("spend", a))
        PROVE  IndReceipts'
    <3>1. /\ a.fact.leg = l /\ a.source \in Sources
          /\ Admissible(l, "spend", a) /\ Collect(l, "spend", a)
          /\ resolutions' = resolutions /\ "spend" \in Kind
      BY <2>7 DEF ObserveSwapSpend, ValidSpend, ValidAttestation, Kind
    <3>. QED  BY <2>7, <3>1, ReceiptOfObservation
  <2>8. ASSUME NEW l \in Leg, NEW f \in SpendFacts, NEW t \in Times,
               ConfirmSwapSpend(l, f, t) /\ Record(<<"confirm-spend", l, f>>)
        PROVE  IndReceipts'
    BY <2>8, ReceiptAside DEF ConfirmSwapSpend, recoveryVars
  <2>9. ASSUME NEW l \in Leg, NEW k \in Kind, NEW a \in Attestations, ObserveReplacement(l, k, a)
        PROVE  IndReceipts'
    BY <2>9, ReceiptOfRepeat DEF ObserveReplacement
  <2>10. ASSUME NEW why \in Reason, NEW e \in FlagTargets,
                FlagSwapDispute(why, e) /\ Record(<<"flag-dispute", why, e>>)
         PROVE  IndReceipts'
    BY <2>10, ReceiptAside DEF FlagSwapDispute, legVars
  <2>11. ASSUME NEW e \in EvidenceIds,
                RetractSwapEvidence(e) /\ Record(<<"retract-evidence", e>>)
         PROVE  IndReceipts'
    BY <2>11, ReceiptAside DEF RetractSwapEvidence, legVars
  <2>12. ASSUME NEW l \in Leg, NEW old \in Attestations, NEW a \in Attestations,
                NEW t \in Times,
                /\ ReplaceSwapFundingAttestation(l, old, a, t)
                /\ Record(ReplaceSlot(l, "funding", old))
         PROVE  IndReceipts'
    BY <2>12, ReceiptOfReplacement DEF ReplaceSwapFundingAttestation, Kind
  <2>13. ASSUME NEW l \in Leg, NEW old \in Attestations, NEW a \in Attestations,
                NEW t \in Times,
                /\ ReplaceSwapSpendAttestation(l, old, a, t)
                /\ Record(ReplaceSlot(l, "spend", old))
         PROVE  IndReceipts'
    BY <2>13, ReceiptOfReplacement DEF ReplaceSwapSpendAttestation, Kind
  <2>14. CASE UNCHANGED journalVars
    <3>1. /\ fact' = fact /\ reports' = reports /\ resolutions' = resolutions
          /\ slots' = slots
      BY <2>14 DEF journalVars, vars, legVars, recoveryVars
    <3>2. FactsInPlace'
      <4>. SUFFICES ASSUME NEW l \in Leg, NEW k \in Kind PROVE FactInPlace(l, k)'
        BY DEF FactsInPlace
      <4>. QED  BY <3>1 DEF IndReceipts, FactsInPlace, FactInPlace
    <3>3. \A l \in Leg, k \in Kind, s \in Sources : Heard(l, k, s) => Heard(l, k, s)'
      BY <3>1 DEF Heard
    <3>. QED  BY <3>1, <3>2, <3>3, ReceiptsKept DEF TypeOK
  <2>. QED
    BY <2>1, <2>2, <2>3, <2>4, <2>5, <2>6, <2>7, <2>8, <2>9, <2>10, <2>11, <2>12, <2>13, <2>14
       DEF JournalNext
<1>3. IndReceipts => ReceiptsMatchReports
  BY DEF IndReceipts
<1>. QED  BY <1>1, <1>2, <1>3, JournalImplementsLibrary, TypeCorrect, PTL DEF JournalSpec

-----------------------------------------------------------------------------
(* Artifacts are used once. *)

(* The receipt of the preparation stands behind every artifact in use and  *)
(* every abandoned one.                                                    *)
PreparationsReceipted ==
  /\ \A l \in Leg : artifact[l] # None => <<"prepare-funding", l, artifact[l]>> \in slots
  /\ \A l \in Leg, h \in Artifacts :
       <<"abandon-funding", l, h>> \in slots => <<"prepare-funding", l, h>> \in slots

IndAbandoned == PreparationsReceipted /\ AbandonedStaysAbandoned

(* What a slot other than that of an abandonment leaves alone.             *)
LEMMA OtherReceipts ==
  ASSUME IndAbandoned, NEW slot, slots' = slots \cup {slot},
         slot[1] # "abandon-funding", artifact' = artifact
  PROVE  IndAbandoned'
BY DEF IndAbandoned, PreparationsReceipted, AbandonedStaysAbandoned

(* An abandoned artifact is never prepared again.                          *)
THEOREM AbandonedForGood == JournalSpec => []AbandonedStaysAbandoned
<1>1. JournalInit => IndAbandoned
  BY DEF JournalInit, Init, IndAbandoned, PreparationsReceipted, AbandonedStaysAbandoned
<1>2. TypeOK /\ IndAbandoned /\ [JournalNext]_journalVars => IndAbandoned'
  <2>. SUFFICES ASSUME TypeOK, IndAbandoned, [JournalNext]_journalVars PROVE IndAbandoned'
    OBVIOUS
  <2>. USE DEF Record
  <2>1. ASSUME NEW r \in Role, NEW t \in Times,
               AuthorizeSwapTerms(r, t) /\ Record(<<"authorize-terms", r>>)
        PROVE  IndAbandoned'
    BY <2>1, OtherReceipts DEF AuthorizeSwapTerms, legVars
  <2>2. ASSUME NEW l \in Leg, NEW h \in Artifacts, NEW t \in Times,
               PrepareSwapFunding(l, h, t) /\ Record(PrepareSlot(l, h, t))
        PROVE  IndAbandoned'
    <3>1. /\ artifact' = [artifact EXCEPT ![l] = h]
          /\ slots' = slots \cup {<<"prepare-funding", l, h>>}
          /\ <<"prepare-funding", l, h>> \notin slots
      BY <2>2 DEF PrepareSwapFunding, PrepareSlot
    <3>2. \A m \in Leg, g \in Artifacts :
            <<"abandon-funding", m, g>> \in slots' => <<"abandon-funding", m, g>> \in slots
      BY <3>1
    <3>3. <<"abandon-funding", l, h>> \notin slots
      BY <3>1 DEF IndAbandoned, PreparationsReceipted
    <3>4. PreparationsReceipted'
      BY <3>1, <3>2 DEF IndAbandoned, PreparationsReceipted, TypeOK
    <3>5. AbandonedStaysAbandoned'
      BY <3>1, <3>2, <3>3 DEF IndAbandoned, AbandonedStaysAbandoned, TypeOK
    <3>. QED  BY <3>4, <3>5 DEF IndAbandoned
  <2>3. ASSUME NEW l \in Leg, NEW h \in Artifacts,
               AbandonSwapFunding(l, h) /\ Record(<<"abandon-funding", l, h>>)
        PROVE  IndAbandoned'
    <3>1. /\ artifact[l] = h /\ artifact' = [artifact EXCEPT ![l] = None]
          /\ slots' = slots \cup {<<"abandon-funding", l, h>>}
          /\ h # None /\ None \notin Artifacts
      BY <2>3, InputTypes DEF AbandonSwapFunding
    <3>2. <<"prepare-funding", l, h>> \in slots
      BY <3>1 DEF IndAbandoned, PreparationsReceipted
    <3>3. PreparationsReceipted'
      BY <3>1, <3>2 DEF IndAbandoned, PreparationsReceipted, TypeOK
    <3>4. AbandonedStaysAbandoned'
      BY <3>1 DEF IndAbandoned, AbandonedStaysAbandoned, TypeOK
    <3>. QED  BY <3>3, <3>4 DEF IndAbandoned
  <2>4. ASSUME NEW t \in Times, ExpireSwap(t) /\ Record(<<"expire-swap", t>>)
        PROVE  IndAbandoned'
    <3>1. /\ artifact' = [l \in Leg |-> None]
          /\ slots' = slots \cup {<<"expire-swap", t>>}
          /\ None \notin Artifacts
      BY <2>4, InputTypes DEF ExpireSwap
    <3>. QED  BY <3>1 DEF IndAbandoned, PreparationsReceipted, AbandonedStaysAbandoned
  <2>5. ASSUME NEW l \in Leg, NEW a \in Attestations,
               ObserveSwapFunding(l, a) /\ Record(ObserveSlot("funding", a))
        PROVE  IndAbandoned'
    BY <2>5, OtherReceipts DEF ObserveSwapFunding, ObserveSlot
  <2>6. ASSUME NEW l \in Leg, NEW f \in FundingFacts, NEW t \in Times,
               ConfirmSwapFunding(l, f, t) /\ Record(<<"confirm-funding", l, f>>)
        PROVE  IndAbandoned'
    BY <2>6, OtherReceipts DEF ConfirmSwapFunding
  <2>7. ASSUME NEW l \in Leg, NEW a \in Attestations,
               ObserveSwapSpend(l, a) /\ Record(ObserveSlot("spend", a))
        PROVE  IndAbandoned'
    BY <2>7, OtherReceipts DEF ObserveSwapSpend, ObserveSlot
  <2>8. ASSUME NEW l \in Leg, NEW f \in SpendFacts, NEW t \in Times,
               ConfirmSwapSpend(l, f, t) /\ Record(<<"confirm-spend", l, f>>)
        PROVE  IndAbandoned'
    BY <2>8, OtherReceipts DEF ConfirmSwapSpend
  <2>9. ASSUME NEW l \in Leg, NEW k \in Kind, NEW a \in Attestations, ObserveReplacement(l, k, a)
        PROVE  IndAbandoned'
    BY <2>9, OtherReceipts DEF ObserveReplacement, ObserveSlot, vars, legVars
  <2>10. ASSUME NEW why \in Reason, NEW e \in FlagTargets,
                FlagSwapDispute(why, e) /\ Record(<<"flag-dispute", why, e>>)
         PROVE  IndAbandoned'
    BY <2>10, OtherReceipts DEF FlagSwapDispute, legVars
  <2>11. ASSUME NEW e \in EvidenceIds,
                RetractSwapEvidence(e) /\ Record(<<"retract-evidence", e>>)
         PROVE  IndAbandoned'
    BY <2>11, OtherReceipts DEF RetractSwapEvidence, legVars
  <2>12. ASSUME NEW l \in Leg, NEW old \in Attestations, NEW a \in Attestations,
                NEW t \in Times,
                /\ ReplaceSwapFundingAttestation(l, old, a, t)
                /\ Record(ReplaceSlot(l, "funding", old))
         PROVE  IndAbandoned'
    BY <2>12, OtherReceipts DEF ReplaceSwapFundingAttestation, Replace, ReplaceSlot
  <2>13. ASSUME NEW l \in Leg, NEW old \in Attestations, NEW a \in Attestations,
                NEW t \in Times,
                /\ ReplaceSwapSpendAttestation(l, old, a, t)
                /\ Record(ReplaceSlot(l, "spend", old))
         PROVE  IndAbandoned'
    BY <2>13, OtherReceipts DEF ReplaceSwapSpendAttestation, Replace, ReplaceSlot
  <2>14. CASE UNCHANGED journalVars
    BY <2>14 DEF journalVars, vars, legVars, IndAbandoned, PreparationsReceipted,
                 AbandonedStaysAbandoned
  <2>. QED
    BY <2>1, <2>2, <2>3, <2>4, <2>5, <2>6, <2>7, <2>8, <2>9, <2>10, <2>11, <2>12, <2>13, <2>14
       DEF JournalNext
<1>3. IndAbandoned => AbandonedStaysAbandoned
  BY DEF IndAbandoned
<1>. QED  BY <1>1, <1>2, <1>3, JournalImplementsLibrary, TypeCorrect, PTL DEF JournalSpec
=============================================================================
