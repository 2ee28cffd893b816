-------------------------- MODULE MCMatcherService --------------------------
EXTENDS MatcherService, TLC
CONSTANTS r1, r2, order, cancel, raw
MCNeeds == [b \in Bodies |-> IF b = order THEN None ELSE order]
MCWants == r1 :> order @@ r2 :> cancel
MCMaxPosts == r1 :> 2 @@ r2 :> 2

(* Each gateway is tried under one kind of crash, arbitrary calls under both. *)
MCInit ==
  /\ MatcherServiceInit
  /\ callers = "any" => gateway = "proxy"
  /\ callers = "any" /\ weather = "process" => disk = LegacyDirectory
  /\ callers = "desks" => (gateway = "direct" <=> weather = "power")

(* Bound: three posts between them. *)
MCNext == MatcherServiceNext /\ desk'[r1].posts + desk'[r2].posts <= 3

MCSpec ==
  /\ MCInit
  /\ [][MCNext]_serviceVars
  /\ MatcherServiceFairness
=============================================================================
