------------------------------- MODULE Badges --------------------------------
(***************************************************************************)
(* packages/core/src/swarm.ts badgeFor: the one word for a lot, and which  *)
(* of several truths about it wins.                                        *)
(***************************************************************************)

Breaks == {"CHAIN_GAP", "CHAIN_FORK"}

FlagFirst(broken, anchored, flagged) ==       \* variant: the precedence swapped
  IF flagged THEN "FLAGGED" ELSE IF broken THEN "UNVERIFIABLE"
  ELSE IF anchored THEN "VERIFIED" ELSE "PENDING_ANCHOR"

(* proofVerified, always true in the gateway, is left out.                 *)
BadgeFor(broken, anchored, flagged) ==
  CASE broken                              -> "UNVERIFIABLE"
    [] ~broken /\ flagged                  -> "FLAGGED"
    [] ~broken /\ ~flagged /\ ~anchored    -> "PENDING_ANCHOR"
    [] OTHER                               -> "VERIFIED"
=============================================================================
