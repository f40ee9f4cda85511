---------------------------- MODULE ActorRegistry ----------------------------
(***************************************************************************)
(* contracts/contracts/ActorRegistry.sol: who may make claims about lots.  *)
(* An address is registered at most once, and a revocation is for good,    *)
(* because registerActor refuses an address whose record exists.  Names    *)
(* and roles are left out: the lot contract asks isActive and nothing      *)
(* else.  Only the administrator calls the two operations, so each is an   *)
(* action without a sender.                                                *)
(***************************************************************************)
CONSTANT Address          \* wallets that may act, registered or not

VARIABLE actorStatus      \* Address -> what _actors holds for it

ActorStatus == {"unregistered", "active", "revoked"}

ActorTypeOK == actorStatus \in [Address -> ActorStatus]

ActorInit == actorStatus = [a \in Address |-> "unregistered"]

HasRecord(a) == actorStatus[a] # "unregistered"

IsActive(a) == actorStatus[a] = "active"

RegisterActor(a) ==
  /\ actorStatus[a] = "unregistered"
  /\ actorStatus' = [actorStatus EXCEPT ![a] = "active"]

RevokeActor(a) ==
  /\ actorStatus[a] # "unregistered"
  /\ actorStatus' = [actorStatus EXCEPT ![a] = "revoked"]
=============================================================================
