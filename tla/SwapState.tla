------------------------------ MODULE SwapState ------------------------------
(***************************************************************************)
(* The two-leg swap state machine of src/lib/swap-state.ts under the       *)
(* policies of src/lib/swap-policy.ts: one fill, a native ZEC leg and an   *)
(* EVM stablecoin leg, advanced by what independent observers attest.      *)
(*                                                                         *)
(* One action per exported operation.  An operation that throws is a step  *)
(* that is not taken, and one that returns its argument (a repeated        *)
(* authorization, flag, retraction or report) is a stuttering step.  Every *)
(* operation starts by asserting the integrity of the state it is given:   *)
(* SwapIntegrity is a conjunct of every guard, written after the cheaper   *)
(* ones because TLC evaluates a conjunction in order.                      *)
(*                                                                         *)
(* A chain fact is identified by the hash of its content, so here a fact   *)
(* is its own identifier.  "binds" stands for the field by field           *)
(* comparison with the signed terms, successful execution included.        *)
(***************************************************************************)
EXTENDS Naturals, FiniteSets, Absent

CONSTANTS
  Sources,           \* evidencePolicies.observer.sourceIds
  RequiredSources,   \* evidencePolicies.observer.requiredSourceCount
  MaxDelay,          \* evidencePolicies.observer.maxObservationDelaySeconds
  MinConfirmations,  \* per leg, minimumConfirmations of its finality policy
  MinAge,            \* per leg, minimumAgeSeconds of its finality policy
  AuthorizationDeadline, ZecFundBy, EvmFundBy,       \* the signed deadlines
  EvmClaimSafetyCutoff, EvmRefundTime, ZecRefundTime,
  Secret,            \* the preimage of the signed secretHash
  Artifacts,         \* hashes of prepared funding transactions
  FundingFacts,      \* funding facts some observer may report
  SpendFacts,        \* claims and refunds some observer may report
  Attestations,      \* attestations some observer may submit
  EvidenceIds,       \* identifiers those attestations carry
  Times,             \* seconds the callers pass to the operations
  FlagTargets,       \* evidence an operator may name in a dispute, or None
  MaxDisputes        \* bound: no operator flags when this many are open

VARIABLES
  authorizations,    \* per role, when it authorized the terms, or None
  phase,             \* per leg, its SwapLegPhase
  artifact,          \* per leg, fundingArtifactHash, or None
  preparedAt,        \* per leg, fundingPreparedAtSeconds, or None
  fact,              \* per leg and kind of evidence, the fact, or None
  reports,           \* per leg and kind, the attestations collected
  confirmedAt,       \* per leg and kind, when policy qualified it, or None
  observedSecret,    \* the EVM claim that revealed the secret, or None
  confirmedSecret,   \* the same once that claim is final, or None
  expired,           \* terminal
  disputes,          \* open disputes
  resolutions,       \* archived replacements of retracted attestations
  retracted          \* retractedEvidenceIds

legVars == <<phase, artifact, preparedAt, fact, reports, confirmedAt>>
secretVars == <<observedSecret, confirmedSecret>>
recoveryVars == <<disputes, resolutions, retracted>>
vars == <<authorizations, legVars, secretVars, expired, recoveryVars>>

Role == {"zec-seller", "stablecoin-seller"}
Leg == {"zec", "evm"}
Kind == {"funding", "spend"}
Slot == Leg \X Kind
Reason == {"observer-conflict", "observer-stale", "reorganization", "semantic-mismatch"}

FundedPhase == {"funded-confirmed", "claim-seen", "claimed-confirmed",
                "refund-seen", "refunded-confirmed"}
SpendPhase == FundedPhase \ {"funded-confirmed"}
SpentPhase == {"claimed-confirmed", "refunded-confirmed"}
ClaimPhase == {"claim-seen", "claimed-confirmed"}
Phase == {"unfunded", "funding-prepared", "funding-seen"} \cup FundedPhase

Facts == FundingFacts \cup SpendFacts
Dispute == [reason : Reason, evidence : EvidenceIds \cup Facts \cup {None}]
Resolution == [leg : Leg, kind : Kind, retracted : Attestations, replacement : Attestations]

(***************************************************************************)
(* assertSwapTimingPolicy and assertSwapEvidencePolicies.                  *)
(***************************************************************************)
TimingPolicy ==
  /\ AuthorizationDeadline \in Nat
  /\ ZecFundBy \in Nat
  /\ EvmFundBy \in Nat
  /\ EvmClaimSafetyCutoff \in Nat
  /\ EvmRefundTime \in Nat
  /\ ZecRefundTime \in Nat
  /\ AuthorizationDeadline < ZecFundBy
  /\ ZecFundBy < EvmFundBy
  /\ EvmFundBy < EvmClaimSafetyCutoff
  /\ EvmClaimSafetyCutoff + 1 < EvmRefundTime
  /\ EvmRefundTime < ZecRefundTime

EvidencePolicies ==
  /\ IsFiniteSet(Sources)
  /\ RequiredSources \in 2 .. Cardinality(Sources)
  /\ MaxDelay \in Nat \ {0}
  /\ MinConfirmations \in [Leg -> Nat \ {0}]
  /\ MinAge \in [Leg -> Nat]

ASSUME Policies == TimingPolicy /\ EvidencePolicies

(* The identifiers, facts and reports that the program hashes and decodes. *)
ASSUME InputTypes ==
  /\ Times \subseteq Nat
  /\ \A f \in FundingFacts :
       f.leg \in Leg /\ f.executedAt \in Nat /\ f.height \in Nat /\ f.binds \in BOOLEAN
  /\ \A f \in SpendFacts :
       /\ f.leg \in Leg /\ f.executedAt \in Nat /\ f.height \in Nat /\ f.binds \in BOOLEAN
       /\ f.action \in {"claim", "refund"}
       /\ f.funding \in FundingFacts
  /\ \A a \in Attestations :
       a.id \in EvidenceIds /\ a.fact \in Facts /\ a.observedAt \in Nat /\ a.height \in Nat
  /\ FlagTargets \subseteq EvidenceIds \cup Facts \cup {None}
  /\ None \notin Nat
  /\ None \notin Facts
  /\ None \notin Artifacts
  /\ None \notin EvidenceIds
  /\ EvidenceIds \cap Facts = {}

-----------------------------------------------------------------------------
(* Helpers of the state machine. *)

ActiveReports == UNION {reports[s] : s \in Slot}
ActiveIds == {a.id : a \in ActiveReports}
ActiveFacts == {fact[s] : s \in Slot} \ {None}
HasEvidence(e) == e \in ActiveIds \/ e \in ActiveFacts

AllAuthorized == \A r \in Role : authorizations[r] # None
AuthorizedBy(t) == \A r \in Role : authorizations[r] # None /\ authorizations[r] <= t

RefundTime(l) == IF l = "zec" THEN ZecRefundTime ELSE EvmRefundTime

View(a) == <<a.height, a.tip>>
Views(c) == {View(a) : a \in c}
ViewConflict(c, a) == \E b \in c : View(b) # View(a)

ValidAttestation(f, a) ==
  /\ a.fact = f
  /\ a.source \in Sources
  /\ a.height >= f.height
  /\ a.observedAt >= f.executedAt
  /\ a.observedAt <= f.executedAt + MaxDelay

ValidFunding(l, f, a) ==
  /\ f \in FundingFacts /\ f.leg = l /\ f.binds
  /\ IF l = "zec" THEN f.executedAt < ZecFundBy ELSE f.executedAt <= EvmFundBy
  /\ preparedAt[l] # None /\ f.executedAt >= preparedAt[l]
  /\ AuthorizedBy(f.executedAt)
  /\ l = "evm" => /\ confirmedAt[<<"zec", "funding">>] # None
                  /\ f.executedAt >= confirmedAt[<<"zec", "funding">>]
  /\ ValidAttestation(f, a)

ValidSpend(l, f, a) ==
  /\ f \in SpendFacts /\ f.leg = l /\ f.binds
  /\ fact[<<l, "funding">>] # None /\ f.funding = fact[<<l, "funding">>]
  /\ confirmedAt[<<l, "funding">>] # None /\ f.executedAt >= confirmedAt[<<l, "funding">>]
  /\ f.executedAt >= f.funding.executedAt
  /\ f.height >= f.funding.height
  /\ f.action = "refund" => f.executedAt >= RefundTime(l) /\ f.preimage = None
  /\ f.action = "claim" => /\ f.preimage = Secret
                           /\ l = "evm" => f.executedAt <= EvmClaimSafetyCutoff
  /\ ValidAttestation(f, a)

ValidEvidence(l, k, f, a) ==
  IF k = "funding" THEN ValidFunding(l, f, a) ELSE ValidSpend(l, f, a)

(* The reports of c that count towards finality of f at time t. *)
Qualifying(l, f, c, t) ==
  {a \in c : /\ a.id \notin retracted
             /\ a.height + 1 >= f.height + MinConfirmations[l]
             /\ a.observedAt >= f.executedAt + MinAge[l]
             /\ t >= a.observedAt
             /\ t <= a.observedAt + MaxDelay}

(* Fault: one source too few. *)
PolicyQualifiedMinority(l, f, c, t) ==
  \E v \in Views(c) :
    Cardinality({a.source : a \in {b \in Qualifying(l, f, c, t) : View(b) = v}}) + 1
      >= RequiredSources

PolicyQualified(l, f, c, t) ==
  \E v \in Views(c) :
    Cardinality({a.source : a \in {b \in Qualifying(l, f, c, t) : View(b) = v}})
      >= RequiredSources

-----------------------------------------------------------------------------
(* assertSwapStateIntegrity, in the parts it is written in. *)

CollectionIntegrity(l, k) ==
  /\ fact[<<l, k>>] # None
  /\ reports[<<l, k>>] # {}
  /\ \A a \in reports[<<l, k>>] : ValidEvidence(l, k, fact[<<l, k>>], a)
  /\ \A a, b \in reports[<<l, k>>] : a.id = b.id \/ a.source = b.source => a = b

NoCollection(l, k) == fact[<<l, k>>] = None /\ reports[<<l, k>>] = {}

LegIntegrity(l) ==
  /\ IF phase[l] = "unfunded"
       THEN artifact[l] = None /\ preparedAt[l] = None
       ELSE artifact[l] # None /\ preparedAt[l] # None
  /\ IF phase[l] \in {"unfunded", "funding-prepared"}
       THEN NoCollection(l, "funding")
       ELSE CollectionIntegrity(l, "funding")
  /\ IF phase[l] \in SpendPhase
       THEN /\ CollectionIntegrity(l, "spend")
            /\ fact[<<l, "spend">>].action = (IF phase[l] \in ClaimPhase THEN "claim" ELSE "refund")
       ELSE NoCollection(l, "spend")
  /\ IF phase[l] \in FundedPhase
       THEN /\ confirmedAt[<<l, "funding">>] # None
            /\ PolicyQualified(l, fact[<<l, "funding">>], reports[<<l, "funding">>],
                               confirmedAt[<<l, "funding">>])
       ELSE confirmedAt[<<l, "funding">>] = None
  /\ IF phase[l] \in SpentPhase
       THEN /\ confirmedAt[<<l, "spend">>] # None
            /\ PolicyQualified(l, fact[<<l, "spend">>], reports[<<l, "spend">>],
                               confirmedAt[<<l, "spend">>])
       ELSE confirmedAt[<<l, "spend">>] = None

PreparationInWindow(l) ==
  phase[l] # "unfunded" =>
    /\ AuthorizedBy(preparedAt[l])
    /\ IF l = "zec"
         THEN preparedAt[l] < ZecFundBy
         ELSE /\ preparedAt[l] <= EvmFundBy
              /\ preparedAt[l] < EvmClaimSafetyCutoff
              /\ confirmedAt[<<"zec", "funding">>] # None
              /\ preparedAt[l] >= confirmedAt[<<"zec", "funding">>]

LegOrder ==
  /\ phase["evm"] # "unfunded" => phase["zec"] \in FundedPhase
  /\ phase["zec"] \in ClaimPhase => phase["evm"] = "claimed-confirmed"

UniqueEvidence ==
  \A s, u \in Slot : \A a \in reports[s], b \in reports[u] :
    a.id = b.id => s = u /\ a = b

DisputesKnown ==
  \A d \in disputes :
    IF d.reason = "reorganization"
      THEN d.evidence \in retracted \cap ActiveIds
      ELSE d.evidence # None => HasEvidence(d.evidence)

ConflictsDisputed ==
  \A s \in Slot :
    Cardinality(Views(reports[s])) > 1 =>
      /\ confirmedAt[s] = None
      /\ \E d \in disputes : /\ d.reason = "observer-conflict"
                             /\ d.evidence \in {a.id : a \in reports[s]}

ResolvedIds == {r.retracted.id : r \in resolutions}

ResolutionsDistinct ==
  /\ \A r, q \in resolutions :
       r.retracted.id = q.retracted.id \/ r.replacement.id = q.replacement.id => r = q
  /\ \A r \in resolutions : /\ r.retracted.id # r.replacement.id
                            /\ r.retracted.id \in retracted

ResolutionsBindFacts ==
  \A r \in resolutions :
    /\ fact[<<r.leg, r.kind>>] # None
    /\ ValidAttestation(fact[<<r.leg, r.kind>>], r.retracted)
    /\ ValidAttestation(fact[<<r.leg, r.kind>>], r.replacement)

ReplacementsTraceable ==
  \A r \in resolutions :
    \/ r.replacement \in reports[<<r.leg, r.kind>>]
    \/ /\ r.replacement.id \notin {a.id : a \in reports[<<r.leg, r.kind>>]}
       /\ r.replacement.id \in retracted
       /\ \E q \in resolutions :
            q.leg = r.leg /\ q.kind = r.kind /\ q.retracted = r.replacement

ResolvedStayInactive == ResolvedIds \cap ActiveIds = {}

RetractionsAccounted ==
  \A e \in retracted :
    \/ e \in ResolvedIds
    \/ e \in ActiveIds /\ [reason |-> "reorganization", evidence |-> e] \in disputes

SecretsBound ==
  /\ observedSecret # None =>
       /\ observedSecret = fact[<<"evm", "spend">>]
       /\ observedSecret.action = "claim" /\ observedSecret.preimage = Secret
       /\ phase["evm"] \in ClaimPhase
  /\ confirmedSecret # None =>
       /\ confirmedSecret = observedSecret
       /\ phase["evm"] = "claimed-confirmed"
  /\ phase["zec"] \in ClaimPhase => confirmedSecret # None

ExpiredClean ==
  expired =>
    /\ \A l \in Leg : phase[l] = "unfunded"
    /\ disputes = {} /\ resolutions = {} /\ retracted = {}
    /\ observedSecret = None /\ confirmedSecret = None

(* Everything the assertion demands except that a resolved attestation     *)
(* stays out of the collections.  Where one has come back, an identifier   *)
(* says nothing of the replacements: observers choose their identifiers,   *)
(* and the same one may return with other content.                         *)
RecoverableIntegrity ==
  /\ \A r \in Role : authorizations[r] # None => authorizations[r] < AuthorizationDeadline
  /\ \A l \in Leg : LegIntegrity(l) /\ PreparationInWindow(l)
  /\ LegOrder
  /\ UniqueEvidence
  /\ DisputesKnown
  /\ ConflictsDisputed
  /\ ResolutionsDistinct
  /\ ResolutionsBindFacts
  /\ ResolvedStayInactive => ReplacementsTraceable
  /\ RetractionsAccounted
  /\ SecretsBound
  /\ ExpiredClean

(* assertSwapStateIntegrity, with which every operation begins.                 *)
SwapIntegrity == RecoverableIntegrity /\ ResolvedStayInactive

(* Fault: the disputes are not looked at. *)
NotTerminal == ~expired

NotDisputed == ~expired /\ disputes = {}

-----------------------------------------------------------------------------
(* createSwapState *)
Init ==
  /\ authorizations = [r \in Role |-> None]
  /\ phase = [l \in Leg |-> "unfunded"]
  /\ artifact = [l \in Leg |-> None]
  /\ preparedAt = [l \in Leg |-> None]
  /\ fact = [s \in Slot |-> None]
  /\ reports = [s \in Slot |-> {}]
  /\ confirmedAt = [s \in Slot |-> None]
  /\ observedSecret = None
  /\ confirmedSecret = None
  /\ expired = FALSE
  /\ disputes = {}
  /\ resolutions = {}
  /\ retracted = {}

(* Allowed while disputed; a second authorization by the same role changes *)
(* nothing.                                                                *)
AuthorizeSwapTerms(r, t) ==
  /\ ~expired
  /\ t < AuthorizationDeadline
  /\ authorizations[r] = None
  /\ SwapIntegrity
  /\ authorizations' = [authorizations EXCEPT ![r] = t]
  /\ UNCHANGED <<legVars, secretVars, expired, recoveryVars>>

FundingWindowOpen(l, t) ==
  /\ AuthorizedBy(t)
  /\ IF l = "zec"
       THEN t < ZecFundBy
       ELSE /\ phase["zec"] = "funded-confirmed"
            /\ t >= confirmedAt[<<"zec", "funding">>]
            /\ t <= EvmFundBy
            /\ t < EvmClaimSafetyCutoff

PrepareSwapFunding(l, h, t) ==
  /\ NotDisputed
  /\ phase[l] = "unfunded"
  /\ FundingWindowOpen(l, t)
  /\ SwapIntegrity
  /\ phase' = [phase EXCEPT ![l] = "funding-prepared"]
  /\ artifact' = [artifact EXCEPT ![l] = h]
  /\ preparedAt' = [preparedAt EXCEPT ![l] = t]
  /\ UNCHANGED <<authorizations, fact, reports, confirmedAt, secretVars, expired, recoveryVars>>

AbandonSwapFunding(l, h) ==
  /\ NotDisputed
  /\ phase[l] = "funding-prepared"
  /\ artifact[l] = h
  /\ SwapIntegrity
  /\ phase' = [phase EXCEPT ![l] = "unfunded"]
  /\ artifact' = [artifact EXCEPT ![l] = None]
  /\ preparedAt' = [preparedAt EXCEPT ![l] = None]
  /\ UNCHANGED <<authorizations, fact, reports, confirmedAt, secretVars, expired, recoveryVars>>

ExpireSwap(t) ==
  /\ NotDisputed
  /\ \A l \in Leg : phase[l] \in {"unfunded", "funding-prepared"}
  /\ t >= (IF AllAuthorized THEN ZecFundBy ELSE AuthorizationDeadline)
  /\ SwapIntegrity
  /\ expired' = TRUE
  /\ phase' = [l \in Leg |-> "unfunded"]
  /\ artifact' = [l \in Leg |-> None]
  /\ preparedAt' = [l \in Leg |-> None]
  /\ UNCHANGED <<authorizations, fact, reports, confirmedAt, secretVars, recoveryVars>>

(* Fault: one source may report a fact twice. *)
AdmissibleAnySource(l, k, a) ==
  /\ fact[<<l, k>>] \in {None, a.fact}
  /\ a.id \notin ActiveIds

(* assertFreshAttestationId and addAttestation *)
Admissible(l, k, a) ==
  /\ fact[<<l, k>>] \in {None, a.fact}
  /\ a.id \notin ActiveIds
  /\ a.source \notin {b.source : b \in reports[<<l, k>>]}

(* Fault: the report's fact is stored where the report belongs. *)
CollectFact(l, k, a) ==
  /\ fact' = [fact EXCEPT ![<<l, k>>] = a.fact]
  /\ reports' = [reports EXCEPT ![<<l, k>>] = @ \cup {a.fact}]
  /\ disputes' = disputes

(* The collection with the report added, and the dispute a report of       *)
(* another chain view raises (withObserverConflict).                       *)
Collect(l, k, a) ==
  /\ fact' = [fact EXCEPT ![<<l, k>>] = a.fact]
  /\ reports' = [reports EXCEPT ![<<l, k>>] = @ \cup {a}]
  /\ disputes' = IF ViewConflict(reports[<<l, k>>], a)
                   THEN disputes \cup {[reason |-> "observer-conflict", evidence |-> a.id]}
                   ELSE disputes
  /\ ViewConflict(reports[<<l, k>>], a) => SwapIntegrity'

ObserveSwapFunding(l, a) ==
  /\ NotDisputed
  /\ phase[l] \in {"funding-prepared", "funding-seen"}
  /\ ValidFunding(l, a.fact, a)
  /\ Admissible(l, "funding", a)
  /\ SwapIntegrity
  /\ phase' = [phase EXCEPT ![l] = "funding-seen"]
  /\ UNCHANGED <<authorizations, artifact, preparedAt, confirmedAt, secretVars,
                 expired, resolutions, retracted>>
  /\ Collect(l, "funding", a)

ConfirmSwapFunding(l, f, t) ==
  /\ NotDisputed
  /\ phase[l] = "funding-seen"
  /\ fact[<<l, "funding">>] = f
  /\ PolicyQualified(l, f, reports[<<l, "funding">>], t)
  /\ SwapIntegrity
  /\ phase' = [phase EXCEPT ![l] = "funded-confirmed"]
  /\ confirmedAt' = [confirmedAt EXCEPT ![<<l, "funding">>] = t]
  /\ UNCHANGED <<authorizations, artifact, preparedAt, fact, reports, secretVars,
                 expired, recoveryVars>>

SeenPhase(f) == IF f.action = "claim" THEN "claim-seen" ELSE "refund-seen"

(* Fault: the revealed secret is used before it is final. *)
ClaimAfterReveal(f) ==
  f.leg = "zec" /\ f.action = "claim" =>
    /\ observedSecret # None
    /\ observedSecret.preimage = f.preimage

(* The ZEC claim follows the final claim that revealed its preimage. *)
ClaimAfterConfirmedSecret(f) ==
  f.leg = "zec" /\ f.action = "claim" =>
    /\ phase["evm"] = "claimed-confirmed"
    /\ confirmedSecret # None
    /\ confirmedSecret.preimage = f.preimage

(* The EVM claim that first revealed the secret. *)
RevealedBy(l, f) ==
  IF l = "evm" /\ f.action = "claim" /\ observedSecret = None THEN f ELSE observedSecret

ObserveSwapSpend(l, a) ==
  /\ NotDisputed
  /\ ValidSpend(l, a.fact, a)
  /\ phase[l] \in {"funded-confirmed", SeenPhase(a.fact)}
  /\ ClaimAfterConfirmedSecret(a.fact)
  /\ Admissible(l, "spend", a)
  /\ SwapIntegrity
  /\ phase' = [phase EXCEPT ![l] = SeenPhase(a.fact)]
  /\ observedSecret' = RevealedBy(l, a.fact)
  /\ UNCHANGED <<authorizations, artifact, preparedAt, confirmedAt, confirmedSecret,
                 expired, resolutions, retracted>>
  /\ Collect(l, "spend", a)

ConfirmSwapSpend(l, f, t) ==
  /\ NotDisputed
  /\ phase[l] \in {"claim-seen", "refund-seen"}
  /\ fact[<<l, "spend">>] = f
  /\ PolicyQualified(l, f, reports[<<l, "spend">>], t)
  /\ SwapIntegrity
  /\ phase' = [phase EXCEPT ![l] = IF @ = "claim-seen" THEN "claimed-confirmed"
                                                       ELSE "refunded-confirmed"]
  /\ confirmedAt' = [confirmedAt EXCEPT ![<<l, "spend">>] = t]
  /\ confirmedSecret' = IF l = "evm" /\ phase[l] = "claim-seen" THEN f ELSE confirmedSecret
  /\ UNCHANGED <<authorizations, artifact, preparedAt, fact, reports, observedSecret,
                 expired, recoveryVars>>

FlagSwapDispute(why, e) ==
  /\ ~expired
  /\ Cardinality(disputes) < MaxDisputes
  /\ SwapIntegrity
  /\ disputes' = disputes \cup {[reason |-> why, evidence |-> e]}
  /\ UNCHANGED <<authorizations, legVars, secretVars, expired, resolutions, retracted>>
  /\ SwapIntegrity'

(* Fault: a report behind confirmed evidence can be withdrawn. *)
RetractableAnytime(e) == e \in ActiveIds \ retracted

Retractable(e) ==
  /\ e \in ActiveIds \ retracted
  /\ \A s \in Slot : e \in {a.id : a \in reports[s]} => confirmedAt[s] = None

RetractSwapEvidence(e) ==
  /\ Retractable(e)
  /\ SwapIntegrity
  /\ retracted' = retracted \cup {e}
  /\ disputes' = disputes \cup {[reason |-> "reorganization", evidence |-> e]}
  /\ UNCHANGED <<authorizations, legVars, secretVars, expired, resolutions>>
  /\ SwapIntegrity'

(* Fault: resolving one reorganization closes every dispute. *)
AmongDisputes(e) == [reason |-> "reorganization", evidence |-> e] \in disputes

OnlyDispute(e) == disputes = {[reason |-> "reorganization", evidence |-> e]}

(* a is a fresh report of old's fact that fits in its place. *)
FitReplacement(l, k, old, a, t) ==
  /\ old \in reports[<<l, k>>]
  /\ a.fact = fact[<<l, k>>]
  /\ ValidEvidence(l, k, a.fact, a)
  /\ a.id \notin retracted
  /\ ~HasEvidence(a.id)
  /\ t >= a.observedAt
  /\ t >= old.observedAt
  /\ ~ViewConflict(reports[<<l, k>>] \ {old}, a)
  /\ a.source \notin {b.source : b \in reports[<<l, k>>] \ {old}}

(* The guards both replacement operations and resolutionContext share.     *)
MayReplace(l, k, old, a, t) ==
  /\ ~expired
  /\ old.id \in retracted
  /\ OnlyDispute(old.id)
  /\ FitReplacement(l, k, old, a, t)
  /\ SwapIntegrity

Replace(l, k, old, a, t) ==
  /\ MayReplace(l, k, old, a, t)
  /\ reports' = [reports EXCEPT ![<<l, k>>] = (@ \ {old}) \cup {a}]
  /\ disputes' = {}
  /\ resolutions' = resolutions \cup
       {[leg |-> l, kind |-> k, retracted |-> old, replacement |-> a]}
  /\ UNCHANGED <<authorizations, phase, artifact, preparedAt, fact, confirmedAt,
                 secretVars, expired, retracted>>
  /\ SwapIntegrity'

ReplaceSwapFundingAttestation(l, old, a, t) ==
  /\ phase[l] = "funding-seen"
  /\ Replace(l, "funding", old, a, t)

ReplaceSwapSpendAttestation(l, old, a, t) ==
  /\ phase[l] \in {"claim-seen", "refund-seen"}
  /\ Replace(l, "spend", old, a, t)

Next ==
  \/ \E r \in Role, t \in Times : AuthorizeSwapTerms(r, t)
  \/ \E l \in Leg, h \in Artifacts, t \in Times : PrepareSwapFunding(l, h, t)
  \/ \E l \in Leg, h \in Artifacts : AbandonSwapFunding(l, h)
  \/ \E t \in Times : ExpireSwap(t)
  \/ \E l \in Leg, a \in Attestations : ObserveSwapFunding(l, a)
  \/ \E l \in Leg, f \in FundingFacts, t \in Times : ConfirmSwapFunding(l, f, t)
  \/ \E l \in Leg, a \in Attestations : ObserveSwapSpend(l, a)
  \/ \E l \in Leg, f \in SpendFacts, t \in Times : ConfirmSwapSpend(l, f, t)
  \/ \E why \in Reason, e \in FlagTargets : FlagSwapDispute(why, e)
  \/ \E e \in EvidenceIds : RetractSwapEvidence(e)
  \/ \E l \in Leg, old, a \in Attestations, t \in Times :
       ReplaceSwapFundingAttestation(l, old, a, t)
  \/ \E l \in Leg, old, a \in Attestations, t \in Times :
       ReplaceSwapSpendAttestation(l, old, a, t)

Spec == Init /\ [][Next]_vars

-----------------------------------------------------------------------------
(* What the library promises. *)

(* The state is a SwapState: every field holds a value of its type.        *)
TypeOK ==
  /\ authorizations \in [Role -> Times \cup {None}]
  /\ phase \in [Leg -> Phase]
  /\ artifact \in [Leg -> Artifacts \cup {None}]
  /\ preparedAt \in [Leg -> Times \cup {None}]
  /\ fact \in [Slot -> Facts \cup {None}]
  /\ reports \in [Slot -> SUBSET Attestations]
  /\ confirmedAt \in [Slot -> Times \cup {None}]
  /\ observedSecret \in SpendFacts \cup {None}
  /\ confirmedSecret \in SpendFacts \cup {None}
  /\ expired \in BOOLEAN
  /\ disputes \subseteq Dispute
  /\ resolutions \subseteq Resolution
  /\ retracted \subseteq EvidenceIds

(* RecoverableIntegrity above is the first safety invariant: no operation  *)
(* of the library, called in any order with any of these inputs, produces  *)
(* a state its own assertion would reject, the re-observation of resolved  *)
(* evidence apart (see SwapIntegrity in the README).                       *)

(* The ZEC leg does not settle alone: once it has been claimed with the    *)
(* secret, the stablecoin was claimed too, finally, with the same secret,  *)
(* and was not refunded; each step of the chain of facts is no earlier     *)
(* than the one it depends on.                                             *)
CausalSettlement ==
  /\ phase["zec"] \in ClaimPhase =>
       /\ confirmedAt[<<"evm", "spend">>] # None
       /\ fact[<<"evm", "spend">>].action = "claim"
       /\ fact[<<"evm", "spend">>].preimage = fact[<<"zec", "spend">>].preimage
  /\ fact[<<"evm", "funding">>] # None =>
       /\ confirmedAt[<<"zec", "funding">>] # None
       /\ fact[<<"zec", "funding">>].executedAt < ZecFundBy
       /\ confirmedAt[<<"zec", "funding">>] <= preparedAt["evm"]
       /\ preparedAt["evm"] <= fact[<<"evm", "funding">>].executedAt
  /\ \A l \in Leg : fact[<<l, "spend">>] # None =>
       /\ fact[<<l, "spend">>].funding = fact[<<l, "funding">>]
       /\ confirmedAt[<<l, "funding">>] <= fact[<<l, "spend">>].executedAt

(* What is confirmed stays supported: at least RequiredSources distinct    *)
(* approved observers report that very fact on one chain view, deep        *)
(* enough, and none of those reports has been withdrawn since.             *)
QuorumBehindConfirmation ==
  \A l \in Leg, k \in Kind : confirmedAt[<<l, k>>] # None =>
    \E q \in SUBSET reports[<<l, k>>] :
      /\ Cardinality({a.source : a \in q}) >= RequiredSources
      /\ \A a, b \in q : View(a) = View(b)
      /\ \A a \in q : /\ a.fact = fact[<<l, k>>]
                      /\ a.source \in Sources
                      /\ a.id \notin retracted
                      /\ a.height - fact[<<l, k>>].height + 1 >= MinConfirmations[l]

(* The evidence of a state is sound: every operation's own assertion holds *)
(* of it, but for reports that come back to life, and what is confirmed    *)
(* has its quorum still (assertSwapStateIntegrity, policyQualified).       *)
EvidenceSound == RecoverableIntegrity /\ QuorumBehindConfirmation

(* While any dispute is open the swap makes no progress on either leg:     *)
(* nothing is prepared, observed into another phase, confirmed or revealed *)
(* (SwapDisputedError).                                                    *)
DisputeFreezesProgress ==
  [][disputes # {} => UNCHANGED <<phase, artifact, preparedAt, confirmedAt,
                                  fact, secretVars, expired>>]_vars

(* Only a reorganization dispute can be lifted: one about a conflict, a    *)
(* stale observer or a mismatch stays open for good.                       *)
HardDisputePersists ==
  [][\A d \in disputes : d.reason # "reorganization" => d \in disputes']_vars

(* What was final stays final: a confirmed slot keeps its fact, its time   *)
(* and every report behind it, and the revealed secret is never exchanged. *)
ConfirmedEvidenceFrozen ==
  [][/\ \A s \in Slot : confirmedAt[s] # None =>
          /\ confirmedAt'[s] = confirmedAt[s]
          /\ fact'[s] = fact[s]
          /\ reports'[s] = reports[s]
          /\ ~\E a \in reports[s] : a.id \in retracted' \ retracted
     /\ confirmedSecret # None => UNCHANGED secretVars]_vars

-----------------------------------------------------------------------------
(* What the repository says of the machine and the code does not do. *)

(* ADR 0011: an observer conflict clears through the retraction and        *)
(* replacement flow.  If the conflicting report is retracted, every open   *)
(* dispute is about it and a fitting replacement is at hand, it can be     *)
(* replaced.                                                               *)
ConflictClearsByReplacement ==
  \A s \in Slot, a \in Attestations, t \in Times : \A old \in reports[s] :
    /\ old.id \in retracted
    /\ [reason |-> "observer-conflict", evidence |-> old.id] \in disputes
    /\ \A d \in disputes : d.evidence = old.id
    /\ FitReplacement(s[1], s[2], old, a, t)
    => MayReplace(s[1], s[2], old, a, t)
=============================================================================
