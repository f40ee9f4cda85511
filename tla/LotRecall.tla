------------------------------ MODULE LotRecall ------------------------------
(***************************************************************************)
(* The recall query, GET /lot/:lotId/recall (apps/gateway/src/index.ts),   *)
(* and the walks of LotService under it (chain.ts): operators over the     *)
(* state of LotRegistry.  A query is taken to read one state; over a chain *)
(* that moves while it reads it may see less.  Walks stop after MaxDepth   *)
(* levels.                                                                 *)
(***************************************************************************)
EXTENDS LotRegistry

MaxDepth == 8

(* The lots within MaxDepth steps of l, l left out, which the code reaches *)
(* level by level, remembering those it has seen.                          *)
Walk(next, l) ==
  LET reach[depth \in 0 .. MaxDepth] ==
        IF depth = 0 THEN {l}
        ELSE LET seen == reach[depth - 1] IN seen \cup UNION {next[x] : x \in seen}
  IN reach[MaxDepth] \ {l}

Parents == [l \in LotId |-> IF Exists(l) /\ parent[l] # ZeroLot THEN {parent[l]} ELSE {}]
Children == children

ChildrenOnly(l) == children[l] \ {l}           \* variant: one level

Descendants(l) == Walk(Children, l)

Ancestors(l) == Walk(Parents, l)

Affected(l) == {l} \cup Descendants(l) \cup Ancestors(l)

-----------------------------------------------------------------------------
(* "Which farms fed the lot on truck 27?" (index.ts:711): over any graph,  *)
(* cycles included, the recall of a flagged lot names a lot that a breach  *)
(* was reported of, and the recall of that lot names this one.  (To the    *)
(* gateway a parent of zero is no parent: nothing may have been rolled     *)
(* into the zero lot.)                                                     *)
RecallFindsCulprit ==
  children[ZeroLot] = {} =>
    \A l \in LotId : flagged[l] => \E r \in reported \cap Affected(l) : l \in Affected(r)
=============================================================================
