---------------------------- MODULE MCGraduation ----------------------------
(***************************************************************************)
(* Three scenarios of the contracts, one chosen at the start: tokens that  *)
(* graduate while the configuration of graduations comes and goes; owners  *)
(* who pass roles around and set fees and treasury while nobody trades;    *)
(* and what becomes of the fees in the distributor and the staking pool.   *)
(***************************************************************************)
EXTENDS MCSacFactory, FeeSharing

VARIABLE scenario

\* The split the distributor starts with, one that gives all to the stakers whatever
\* there is, and one that update_config refuses.
MCSplits ==
    {[treasury |-> 5000, staking |-> 3000, burn |-> 2000, minimum |-> 3],
     [treasury |-> 0, staking |-> 10000, burn |-> 0, minimum |-> 0],
     [treasury |-> 5000, staking |-> 3000, burn |-> 2001, minimum |-> 0]}

\* The bound of the model on calls, reached.
SharingRests == sharingMoves = MoveBound /\ UNCHANGED sharingVars

MCInit == Init /\ SharingInit /\ scenario \in {"graduations", "roles", "sharing"}

MCNext ==
  /\ UNCHANGED scenario
  /\ \/ /\ scenario # "sharing"
        /\ \E admin \in FirstOwners, treasury \in FirstTreasuries : Initialize(admin, treasury)
        /\ UNCHANGED sharingVars
     \/ /\ scenario = "graduations"
        /\ TraderStep \/ IssuerStep \/ OwnerStep \/ AdminStep \/ Tick
        /\ UNCHANGED <<roles, feeConfig, sharingVars>>
     \/ /\ scenario = "roles"
        /\ AdminStep
        /\ UNCHANGED <<configVars, sharingVars>>
     \/ /\ scenario = "sharing"
        /\ SharingNext \/ SharingRests
        /\ UNCHANGED vars

MCSpec == MCInit /\ [][MCNext]_<<vars, sharingVars, scenario>>
=============================================================================
