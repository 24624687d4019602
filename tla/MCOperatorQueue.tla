-------------------------- MODULE MCOperatorQueue --------------------------
(* Instances of OperatorQueue for TLC.                                      *)
EXTENDS OperatorQueue, TLC

(* One Amazon run of up to three stages.                                    *)
AmazonOnly == 1 :> "find_sellers"

(* Two Amazon runs on one marketplace.                                      *)
AmazonTwice == 1 :> "find_sellers" @@ 2 :> "find_sellers"

(* Two runs of up to two stages; the second can be a retry of the first.    *)
ResolveTwice == 1 :> "resolve_seller" @@ 2 :> "resolve_seller"

(* One run of two stages.                                                   *)
ResolveOnly == 1 :> "resolve_seller"

(* An Amazon run of up to three stages, and a run of one.                   *)
AmazonThenSite == 1 :> "find_sellers" @@ 2 :> "known_websites"

(* Runs of one stage each.                                                  *)
Sites == [r \in Runs |-> "known_websites"]

WorkerSymmetry == Permutations(Workers)
=============================================================================
