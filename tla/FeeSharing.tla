----------------------------- MODULE FeeSharing -----------------------------
(***************************************************************************)
(* What becomes of the protocol's fees: the fee distributor                *)
(* (contracts/fee-distributor), which collects them and splits them among  *)
(* the treasury, the stakers and the burn address, and the staking pool    *)
(* (contracts/staking-pool), which pays rewards to stakers by the          *)
(* accumulated reward per share.  The two meet in the tokens' ledgers      *)
(* only: the distributor transfers the stakers' share to the pool and      *)
(* never calls add_rewards.  A transaction that fails is rolled back, so   *)
(* an action is a call that succeeds.  Callers hold whatever they pay.     *)
(* What leaves for the treasury, the burn address or a user leaves the     *)
(* model.                                                                  *)
(***************************************************************************)
EXTENDS Integers, FiniteSets, FiniteSetsExt, Functions, SequencesExt

CONSTANTS
    Stakers, FeeTokens, StakeToken,
    PRECISION,       \* the unit of the reward per share (math.rs)
    Amounts,         \* the amounts callers choose from
    Minimums,        \* the minima an administrator sets
    Splits,          \* the configurations of the distributor he sets
    MoveBound        \* calls in a behaviour

BPS == 10000

ASSUME SharingAssumption ==
    /\ IsFiniteSet(Stakers) /\ StakeToken \in FeeTokens
    /\ PRECISION \in Nat \ {0}
    /\ Amounts \subseteq Int
    /\ Minimums \subseteq Int
    /\ Splits \subseteq [treasury : Nat, staking : Nat, burn : Nat, minimum : Int]
    /\ MoveBound \in Nat

VARIABLES
    splitConfig,       \* DataKey::Config of the distributor
    pendingFees,      \* PendingFees per token
    supported,       \* SupportedTokens, in the order of their first fee
    minStake,        \* min_stake_amount of the pool
    stakeOf,         \* UserStake: the amount and the one reward_debt
    poolTotal,       \* TotalStaked
    accPerShare,     \* AccRewardPerShare per token
    rewardTokens,    \* RewardTokens, in the order of their first reward
    paused,          \* Paused of each contract
    held,            \* what each contract owns of each token
    drawn,           \* what emergency_withdraw took from each contract
    stakeMoves,      \* history: stakes and unstakes, each of which rounds a debt
    sharingMoves     \* calls so far

distributorVars == <<splitConfig, pendingFees, supported>>
poolVars == <<minStake, stakeOf, poolTotal, accPerShare, rewardTokens, stakeMoves>>
sharingVars == <<distributorVars, poolVars, paused, held, drawn, sharingMoves>>

SharedBy == {"distributor", "pool"}
Nothing == [t \in FeeTokens |-> 0]

\* The defaults of initialize: half to the treasury, 30 % to the stakers, the rest burnt.
SharingInit ==
    /\ splitConfig \in {s \in Splits : /\ s.treasury = 5000
                                     /\ s.staking = 3000
                                     /\ s.burn = 2000}
    /\ pendingFees = Nothing /\ supported = << >>
    /\ minStake \in {m \in Minimums : m > 0}
    /\ stakeOf = [u \in Stakers |-> [amount |-> 0, debt |-> 0]]
    /\ poolTotal = 0
    /\ accPerShare = Nothing /\ rewardTokens = << >>
    /\ paused = [c \in SharedBy |-> FALSE]
    /\ held = [c \in SharedBy |-> Nothing] /\ drawn = [c \in SharedBy |-> Nothing]
    /\ stakeMoves = 0 /\ sharingMoves = 0

SharingCalled ==
    /\ sharingMoves < MoveBound
    /\ sharingMoves' = sharingMoves + 1

\* add_supported_token and add_reward_token: a token is listed once.
WithToken(s, t) == IF t \in Range(s) THEN s ELSE Append(s, t)

-----------------------------------------------------------------------------
(* The distributor.                                                        *)

ReceiveFees(t, n) ==
    /\ SharingCalled
    /\ ~paused["distributor"] /\ n > 0
    /\ held' = [held EXCEPT !["distributor"][t] = @ + n]
    /\ pendingFees' = [pendingFees EXCEPT ![t] = @ + n]
    /\ supported' = WithToken(supported, t)
    /\ UNCHANGED <<splitConfig, poolVars, paused, drawn>>

\* A share in basis points, rounded down.
ShareOf(n, bps) == (n * bps) \div BPS
StakersShare(t) == ShareOf(pendingFees[t], splitConfig.staking)
BurntShare(t) == ShareOf(pendingFees[t], splitConfig.burn)

\* The treasury takes what rounding leaves.
Dust(t) ==
    pendingFees[t] - (ShareOf(pendingFees[t], splitConfig.treasury)
                       + StakersShare(t) + BurntShare(t))
TreasuryShare(t) == ShareOf(pendingFees[t], splitConfig.treasury) + Dust(t)

Due(t) == pendingFees[t] >= splitConfig.minimum

\* The transfers to the three: a share the distributor does not hold fails the call, and
\* with it everything the call has done.
Outgoing(t) == TreasuryShare(t) + StakersShare(t) + BurntShare(t)

Shared(T) ==
    /\ \A t \in T : Outgoing(t) <= held["distributor"][t]
    /\ held' = [c \in SharedBy |-> [t \in FeeTokens |->
                  IF t \notin T THEN held[c][t]
                  ELSE IF c = "pool" THEN held[c][t] + StakersShare(t)
                  ELSE held[c][t] - Outgoing(t)]]
    /\ pendingFees' = [t \in FeeTokens |-> IF t \in T THEN 0 ELSE pendingFees[t]]
    /\ UNCHANGED <<splitConfig, supported, poolVars, paused, drawn>>

Distribute(t) ==
    /\ SharingCalled
    /\ ~paused["distributor"] /\ Due(t)
    /\ Shared({t})

\* Every token that is due, one after the other in one transaction: the Err(_) it skips
\* is never a transfer's, which traps.
DistributeAll ==
    /\ SharingCalled
    /\ ~paused["distributor"]
    /\ Shared({t \in Range(supported) : Due(t)})

UpdateSplit(s) ==
    /\ SharingCalled
    /\ s.treasury + s.staking + s.burn = BPS
    /\ splitConfig' = s
    /\ UNCHANGED <<pendingFees, supported, poolVars, paused, held, drawn>>

-----------------------------------------------------------------------------
(* The staking pool.                                                       *)

\* calculate_pending: one debt, whichever the token.
PendingReward(u, t) ==
    (stakeOf[u].amount * accPerShare[t]) \div PRECISION - stakeOf[u].debt

\* internal_harvest pays each reward token of which something is pending, and pays nobody
\* who has nothing staked.
Harvested(u, t) ==
    IF /\ stakeOf[u].amount # 0 /\ t \in Range(rewardTokens)
       /\ PendingReward(u, t) > 0
    THEN PendingReward(u, t)
    ELSE 0

\* The debt taken from the amount before the call, as a swapped order would.
DebtFor_AmountBefore(u, n) ==
    IF rewardTokens = << >> THEN stakeOf[u].debt
    ELSE (stakeOf[u].amount * accPerShare[Last(rewardTokens)]) \div PRECISION

\* The debt is written for each reward token in turn, so that the last one's stays.
DebtFor(u, n) ==
    IF rewardTokens = << >> THEN stakeOf[u].debt
    ELSE (n * accPerShare[Last(rewardTokens)]) \div PRECISION

\* The user's rewards go out, and n of the stake token comes in (or goes out, below 0).
Settle(u, n) ==
    LET moved(t) == (IF t = StakeToken THEN n ELSE 0) - Harvested(u, t)
        staked == stakeOf[u].amount + n
    IN  /\ \A t \in FeeTokens : held["pool"][t] + moved(t) >= 0
        /\ held' = [held EXCEPT !["pool"] = [t \in FeeTokens |-> @[t] + moved(t)]]
        /\ stakeOf' = [stakeOf EXCEPT ![u] = [amount |-> staked, debt |-> DebtFor(u, staked)]]
        /\ poolTotal' = poolTotal + n
        /\ UNCHANGED <<distributorVars, minStake, accPerShare, rewardTokens, paused, drawn>>

Stake(u, n) ==
    /\ SharingCalled
    /\ ~paused["pool"] /\ n >= minStake
    /\ Settle(u, n)
    /\ stakeMoves' = stakeMoves + 1

Unstake(u, n) ==
    /\ SharingCalled
    /\ ~paused["pool"] /\ n > 0 /\ n <= stakeOf[u].amount
    /\ Settle(u, -n)
    /\ stakeMoves' = stakeMoves + 1

ClaimRewards(u) ==
    /\ SharingCalled
    /\ ~paused["pool"]
    /\ Settle(u, 0)
    /\ UNCHANGED stakeMoves

\* What is added while nobody stakes is nobody's: the reward per share stays.
RewardPerShare(n) == IF poolTotal > 0 THEN (n * PRECISION) \div poolTotal ELSE 0

\* Callers: the administrator, or the distributor, which never does.  The call does not
\* ask whether the pool is paused.
AddRewards(t, n) ==
    /\ SharingCalled
    /\ n > 0
    /\ held' = [held EXCEPT !["pool"][t] = @ + n]
    /\ accPerShare' = [accPerShare EXCEPT ![t] = @ + RewardPerShare(n)]
    /\ rewardTokens' = WithToken(rewardTokens, t)
    /\ UNCHANGED <<distributorVars, minStake, stakeOf, poolTotal, stakeMoves, paused, drawn>>

UpdateStaking(m) ==
    /\ SharingCalled
    /\ m > 0
    /\ minStake' = m
    /\ UNCHANGED <<distributorVars, stakeOf, poolTotal, accPerShare, rewardTokens, stakeMoves,
                   paused, held, drawn>>

-----------------------------------------------------------------------------
(* The administrator of either contract.                                   *)

SetPaused(c, b) ==
    /\ SharingCalled
    /\ paused' = [paused EXCEPT ![c] = b]
    /\ UNCHANGED <<distributorVars, poolVars, held, drawn>>

\* What is withdrawn stays owed: no book is corrected.
EmergencyWithdraw(c, t, n) ==
    /\ SharingCalled
    /\ paused[c]
    /\ 0 <= n /\ n <= held[c][t]
    /\ held' = [held EXCEPT ![c][t] = @ - n]
    /\ drawn' = [drawn EXCEPT ![c][t] = @ + n]
    /\ UNCHANGED <<distributorVars, poolVars, paused>>

SharingNext ==
    \/ \E t \in FeeTokens, n \in Amounts : ReceiveFees(t, n) \/ AddRewards(t, n)
    \/ \E t \in FeeTokens : Distribute(t)
    \/ DistributeAll
    \/ \E s \in Splits : UpdateSplit(s)
    \/ \E u \in Stakers, n \in Amounts : Stake(u, n) \/ Unstake(u, n)
    \/ \E u \in Stakers : ClaimRewards(u)
    \/ \E m \in Minimums : UpdateStaking(m)
    \/ \E c \in SharedBy, b \in BOOLEAN : SetPaused(c, b)
    \/ \E c \in SharedBy, t \in FeeTokens, n \in Amounts : EmergencyWithdraw(c, t, n)

SharingSpec == SharingInit /\ [][SharingNext]_sharingVars

-----------------------------------------------------------------------------
\* What each staker can ask back of a token: the stake and the reward pending on it.
ClaimsOn(t) ==
    [u \in Stakers |-> (IF t = StakeToken THEN stakeOf[u].amount ELSE 0) + Harvested(u, t)]

SharingTypeOK ==
    /\ splitConfig \in Splits /\ pendingFees \in [FeeTokens -> Nat]
    /\ supported \in Seq(FeeTokens)
    /\ minStake \in Nat \ {0}
    /\ stakeOf \in [Stakers -> [amount : Nat, debt : Nat]]
    /\ poolTotal \in Nat
    /\ accPerShare \in [FeeTokens -> Nat] /\ rewardTokens \in Seq(FeeTokens)
    /\ paused \in [SharedBy -> BOOLEAN]
    /\ held \in [SharedBy -> [FeeTokens -> Nat]] /\ drawn \in [SharedBy -> [FeeTokens -> Nat]]
    /\ stakeMoves \in Nat /\ sharingMoves \in 0 .. MoveBound

(* Either contract can pay what it owes, apart from what the administrator *)
(* withdrew in an emergency.  The distributor holds every fee it lists as  *)
(* pending, whatever it has split before and under whichever               *)
(* configuration.  The pool holds every stake and every reward pending on  *)
(* it, up to one unit for each stake or unstake, whose new debt is rounded *)
(* down (staking-pool lib.rs:149, 194): this for a pool that pays rewards  *)
(* in one token, because a second one shares the first one's debt          *)
(* (lib.rs:526-529).                                                       *)
ClaimsAreCovered ==
    \A t \in FeeTokens :
        /\ held["distributor"][t] + drawn["distributor"][t] >= pendingFees[t]
        /\ Len(rewardTokens) <= 1 =>
             held["pool"][t] + drawn["pool"][t] + stakeMoves
               >= SumFunctionOnSet(ClaimsOn(t), Stakers)
=============================================================================
