------------------------------ MODULE AntiWhale -----------------------------
(***************************************************************************)
(* The optional purchase limits of sac-factory (anti_whale.rs): a cap on   *)
(* recorded holdings, a fee that grows with them, a cooldown between buys. *)
(* Holdings are recorded per wallet, over all tokens together, and only by *)
(* trades with the factory.                                                *)
(***************************************************************************)
EXTENDS AccessControl, Integers, Sequences

CONSTANTS WHALE_BPS,        \* basis points in a whole (the 10_000 of anti_whale.rs)
          MAX_TIER_FEE_BPS, \* the 5000 of set_config
          WhaleConfigs,     \* bound: the configurations an admin tries to set
          Balances          \* bound: the balances an owner resets a wallet to

(* AntiWhaleConfig.  tiers is the sequence of <<threshold in bps, extra fee *)
(* in bps>> that the code keeps as two vectors.                            *)
WhaleConfig == [enabled : BOOLEAN, maxBps : Nat, tiers : Seq(Nat \X Nat), cooldown : Nat]

ASSUME WhaleAssumption ==
  /\ WHALE_BPS \in Nat \ {0}
  /\ MAX_TIER_FEE_BPS \in 0 .. WHALE_BPS
  /\ Balances \subseteq Nat
  /\ \A c \in WhaleConfigs : c \in WhaleConfig

VARIABLES whaleConfig,      \* AntiWhaleKey::Config
          walletHoldings,   \* AntiWhaleKey::WalletHoldings, 0 when absent
          lastBuyTime       \* AntiWhaleKey::LastBuyTime, 0 when absent

whaleVars == <<whaleConfig, walletHoldings, lastBuyTime>>

DefaultWhaleConfig == [enabled |-> FALSE, maxBps |-> WHALE_BPS, tiers |-> << >>, cooldown |-> 0]

WhaleInit ==
  /\ whaleConfig = DefaultWhaleConfig
  /\ walletHoldings = [a \in Account |-> 0]
  /\ lastBuyTime = [a \in Account |-> 0]

(* calculate_progressive_fee: the fee of the last tier reached, the tiers  *)
(* being in ascending order.                                               *)
ProgressiveFee(bps) ==
  LET reached == {i \in DOMAIN whaleConfig.tiers :
                    \A j \in 1 .. i : bps >= whaleConfig.tiers[j][1]}
  IN IF reached = {} THEN 0
     ELSE whaleConfig.tiers[CHOOSE i \in reached : \A j \in reached : j <= i][2]

HoldingsBps(holdings, supply) == (holdings * WHALE_BPS) \div supply

CooldownOver(buyer, now) ==
  \/ whaleConfig.cooldown = 0
  \/ lastBuyTime[buyer] = 0
  \/ now - lastBuyTime[buyer] >= whaleConfig.cooldown

(* validate_buy is asked with the tokens the GROSS amount would buy.       *)
UnderCap_BeforeBuy(buyer, tokens, supply) ==
  HoldingsBps(walletHoldings[buyer], supply) <= whaleConfig.maxBps
UnderCap(buyer, tokens, supply) ==
  HoldingsBps(walletHoldings[buyer] + tokens, supply) <= whaleConfig.maxBps

BuyAllowed(buyer, tokens, supply, now) ==
  whaleConfig.enabled => CooldownOver(buyer, now) /\ UnderCap(buyer, tokens, supply)

ExtraFeeBps(buyer, tokens, supply) ==
  IF whaleConfig.enabled
    THEN ProgressiveFee(HoldingsBps(walletHoldings[buyer] + tokens, supply)) ELSE 0

RecordBuy(buyer, tokens, now) ==
  /\ walletHoldings' = [walletHoldings EXCEPT ![buyer] = @ + tokens]
  /\ lastBuyTime' = [lastBuyTime EXCEPT ![buyer] = now]

HoldingsAfterSell(held, tokens) == IF held > tokens THEN held - tokens ELSE 0

RecordSell(seller, tokens) ==
  /\ walletHoldings' = [walletHoldings EXCEPT ![seller] = HoldingsAfterSell(@, tokens)]
  /\ UNCHANGED lastBuyTime

(* validate_fee_tiers and the limits of set_config.                        *)
ValidWhaleConfig(c) ==
  /\ c.maxBps \in 1 .. WHALE_BPS
  /\ \A i \in 2 .. Len(c.tiers) : c.tiers[i - 1][1] < c.tiers[i][1]
  /\ \A i \in DOMAIN c.tiers : c.tiers[i][2] <= MAX_TIER_FEE_BPS

SetAntiWhaleConfig(admin, c) ==
  /\ HasAnyRole(admin, {"Owner", "FeeAdmin"})
  /\ ValidWhaleConfig(c)
  /\ whaleConfig' = c
  /\ UNCHANGED <<walletHoldings, lastBuyTime>>

SetAntiWhaleEnabled(admin, enabled) ==
  /\ HasRole(admin, "Owner")
  /\ whaleConfig' = [whaleConfig EXCEPT !.enabled = enabled]
  /\ UNCHANGED <<walletHoldings, lastBuyTime>>

ResetWalletHoldings(admin, wallet, balance) ==
  /\ HasRole(admin, "Owner")
  /\ walletHoldings' = [walletHoldings EXCEPT ![wallet] = balance]
  /\ UNCHANGED <<whaleConfig, lastBuyTime>>

ClearWalletHoldings(admin, wallet) ==
  /\ HasRole(admin, "Owner")
  /\ walletHoldings' = [walletHoldings EXCEPT ![wallet] = 0]
  /\ lastBuyTime' = [lastBuyTime EXCEPT ![wallet] = 0]
  /\ UNCHANGED whaleConfig

WhaleAdminStep(a) ==
  \/ \E c \in WhaleConfigs : SetAntiWhaleConfig(a, c)
  \/ \E e \in BOOLEAN : SetAntiWhaleEnabled(a, e)
  \/ \E w \in Account, b \in Balances : ResetWalletHoldings(a, w, b)
  \/ \E w \in Account : ClearWalletHoldings(a, w)

-----------------------------------------------------------------------------
WhaleTypeOK ==
  /\ whaleConfig \in WhaleConfig
  /\ walletHoldings \in [Account -> Nat]
  /\ lastBuyTime \in [Account -> Nat]
=============================================================================
