-------------------------- MODULE SacFactoryProofs --------------------------
(***************************************************************************)
(* What TLAPS proves of the factory for every set of accounts, tokens and  *)
(* parameters: it keeps an owner, its curves stay consistent, the counter  *)
(* of locked XLM is the sum of the locks, and the factory holds what it    *)
(* owes but for what withdraw_fees took.                                   *)
(***************************************************************************)
EXTENDS SacFactory, BondingCurveTheorems

-----------------------------------------------------------------------------
(* Roles and contract state                                                *)

(* Two facts make the owner's invariant inductive: each step that takes an *)
(* ownership away leaves or makes an owner it names, the revoker itself or *)
(* the heir; and before initialize nobody has a role, so that nobody can   *)
(* pause, and then unpause, a contract without owner.                      *)
NoRolesBeforeInitialize ==
  contractState = "Uninitialized" => \A a \in Account : roles[a] = {}

AccessInv == AccessTypeOK /\ OwnerNeverLost /\ NoRolesBeforeInitialize

(* The roles and the state are well-typed after every operation.           *)
LEMMA AccessStepType ==
  ASSUME AccessTypeOK, [AccessNext]_accessVars
  PROVE  AccessTypeOK'
<1>1. CASE RoleStep
  <2>1. ASSUME NEW a \in Account, NEW b \in Account, NEW r \in GrantableRole,
               GrantRole(a, b, r) \/ RevokeRole(a, b, r)
        PROVE  AccessTypeOK'
    <3>1. r \in Role
      BY AccessAssumption
    <3>2. QED
      BY <2>1, <3>1 DEF AccessTypeOK, GrantRole, RevokeRole
  <2>2. ASSUME NEW a \in Account, NEW b \in NewOwners, TransferOwnership(a, b)
        PROVE  AccessTypeOK'
    <3>1. "Owner" \in Role
      BY DEF Role
    <3>2. QED
      BY <2>2, <3>1, AccessAssumption DEF AccessTypeOK, TransferOwnership, HandOver
  <2>3. QED
    BY <1>1, <2>1, <2>2 DEF RoleStep
<1>2. CASE PauseStep
  BY <1>2 DEF PauseStep, Pause, Unpause, AccessTypeOK
<1>3. ASSUME NEW a \in FirstOwners, InitializeAccess(a)
      PROVE  AccessTypeOK'
  <2>1. "Owner" \in Role
    BY DEF Role
  <2>2. QED
    BY <1>3, <2>1, AccessAssumption DEF AccessTypeOK, InitializeAccess
<1>4. CASE UNCHANGED accessVars
  BY <1>4 DEF accessVars, AccessTypeOK
<1>5. QED
  BY <1>1, <1>2, <1>3, <1>4 DEF AccessNext

(* Only an account that has a role changes roles or state after, or before, *)
(* initialize: what the contract is like before it stays so until then.    *)
LEMMA AccessStepNoRoles ==
  ASSUME AccessInv, [AccessNext]_accessVars
  PROVE  NoRolesBeforeInitialize'
<1> USE DEF AccessInv, AccessTypeOK, NoRolesBeforeInitialize, HasRole, HasAnyRole
<1>1. CASE contractState = "Uninitialized"
  <2>1. ~ RoleStep
    BY <1>1 DEF RoleStep, GrantRole, RevokeRole, MayRevoke, TransferOwnership
  <2>2. ~ PauseStep
    BY <1>1 DEF PauseStep, Pause, Unpause
  <2>3. QED
    BY <2>1, <2>2 DEF AccessNext, InitializeAccess, accessVars
<1>2. CASE contractState # "Uninitialized"
  <2>1. contractState' # "Uninitialized"
    BY <1>2 DEF AccessNext, RoleStep, PauseStep, GrantRole, RevokeRole, TransferOwnership,
                Pause, Unpause, InitializeAccess, accessVars
  <2>2. QED
    BY <2>1
<1>3. QED
  BY <1>1, <1>2

(* No operation removes the last owner.                                    *)
LEMMA AccessStepOwner ==
  ASSUME AccessInv, [AccessNext]_accessVars
  PROVE  OwnerNeverLost'
<1> USE DEF AccessInv, AccessTypeOK, OwnerNeverLost, Owners, HasRole
<1>1. ASSUME NEW a \in Account, NEW b \in Account, NEW r \in GrantableRole,
             GrantRole(a, b, r)
      PROVE  OwnerNeverLost'
  <2>1. "Owner" \in roles'[a]
    BY <1>1 DEF GrantRole
  <2>2. QED
    BY <2>1
<1>2. ASSUME NEW a \in Account, NEW b \in Account, NEW r \in GrantableRole,
             RevokeRole(a, b, r)
      PROVE  OwnerNeverLost'
  <2>1. "Owner" \in roles'[a]
    <3>1. CASE b = a
      BY <1>2, <3>1 DEF RevokeRole, MayRevoke
    <3>2. CASE b # a
      BY <1>2, <3>2 DEF RevokeRole, MayRevoke
    <3>3. QED
      BY <3>1, <3>2
  <2>2. QED
    BY <2>1
<1>3. ASSUME NEW a \in Account, NEW b \in NewOwners, TransferOwnership(a, b)
      PROVE  OwnerNeverLost'
  <2>1. b \in Account
    BY AccessAssumption
  <2>2. "Owner" \in roles'[b]
    BY <1>3, <2>1 DEF TransferOwnership, HandOver
  <2>3. QED
    BY <2>1, <2>2
<1>4. ASSUME NEW a \in Account, Pause(a) \/ Unpause(a)
      PROVE  OwnerNeverLost'
  <2>1. contractState # "Uninitialized"
    BY <1>4 DEF Pause, Unpause, HasAnyRole, NoRolesBeforeInitialize
  <2>2. QED
    BY <1>4, <2>1 DEF Pause, Unpause
<1>5. ASSUME NEW a \in FirstOwners, InitializeAccess(a)
      PROVE  OwnerNeverLost'
  <2>1. a \in Account
    BY AccessAssumption
  <2>2. "Owner" \in roles'[a]
    BY <1>5, <2>1 DEF InitializeAccess
  <2>3. QED
    BY <2>1, <2>2
<1>6. CASE UNCHANGED accessVars
  BY <1>6 DEF accessVars
<1>7. QED
  BY <1>1, <1>2, <1>3, <1>4, <1>5, <1>6 DEF AccessNext, RoleStep, PauseStep

(* Type correctness of the roles and of the contract state.                *)
THEOREM AccessTypeCorrect == AccessSpec => []AccessTypeOK
<1>1. AccessInit => AccessTypeOK
  BY DEF AccessInit, AccessTypeOK
<1>2. QED
  BY <1>1, AccessStepType, PTL DEF AccessSpec

LEMMA AccessInvariant == AccessSpec => []AccessInv
<1>1. AccessInit => AccessInv
  BY DEF AccessInit, AccessInv, AccessTypeOK, OwnerNeverLost, NoRolesBeforeInitialize
<1>2. AccessInv /\ [AccessNext]_accessVars => AccessInv'
  BY AccessStepType, AccessStepOwner, AccessStepNoRoles DEF AccessInv
<1>3. QED
  BY <1>1, <1>2, PTL DEF AccessSpec

(* Once initialized, the contract has an owner in every state any order of *)
(* grants, revocations, transfers and pauses can reach.                    *)
THEOREM OwnerAlwaysPresent == AccessSpec => []OwnerNeverLost
<1>1. AccessInv => OwnerNeverLost
  BY DEF AccessInv
<1>2. QED
  BY <1>1, AccessInvariant, PTL

(* Every call of the factory changes roles and contract state only by an   *)
(* operation of access_control.rs or state_management.rs.                  *)
LEMMA StepAccess == [Next]_vars => [AccessNext]_accessVars
<1> SUFFICES ASSUME [Next]_vars PROVE [AccessNext]_accessVars
  OBVIOUS
<1>1. ASSUME NEW admin \in FirstOwners, NEW treasury \in FirstTreasuries,
             Initialize(admin, treasury)
      PROVE  AccessNext
  BY <1>1 DEF Initialize, AccessNext
<1>2. CASE TraderStep
  BY <1>2 DEF TraderStep, Buy, BuyAndGraduate, BuyFailsToGraduate, Sell, ExecuteBuy
<1>3. CASE IssuerStep
  BY <1>3 DEF IssuerStep, Launch, MakeMintable
<1>4. CASE HolderStep
  BY <1>4 DEF HolderStep, Transfer
<1>5. CASE OwnerStep
  BY <1>5 DEF OwnerStep, ManualGraduation, ManualGraduationFails, WithdrawFees
<1>6. CASE AdminStep
  BY <1>6 DEF AdminStep, AccessNext
<1>7. CASE Tick
  BY <1>7 DEF Tick
<1>8. CASE UNCHANGED vars
  BY <1>8 DEF vars
<1>9. QED
  BY <1>1, <1>2, <1>3, <1>4, <1>5, <1>6, <1>7, <1>8 DEF Next

(* The factory implements the access specification: whatever else a call   *)
(* does, roles and contract state move as access_control.rs says.          *)
THEOREM FactoryImplementsAccess == Spec => AccessSpec
<1>1. Init => AccessInit
  BY DEF Init
<1>2. QED
  BY <1>1, StepAccess, PTL DEF Spec, AccessSpec

(* Once initialized the factory has an owner, in every state any sequence  *)
(* of trades, launches, graduations and administration can reach.          *)
THEOREM FactoryKeepsOwner == Spec => []OwnerNeverLost
  BY FactoryImplementsAccess, OwnerAlwaysPresent, PTL

-----------------------------------------------------------------------------
(* The arithmetic of balances and fees                                     *)

(* A transfer an account can pay leaves balances natural numbers, and      *)
(* changes no other account.                                               *)
LEMMA MoveFacts ==
  ASSUME NEW S, NEW b \in [S -> Nat], NEW from \in S, NEW to \in S,
         NEW amount \in Nat, amount <= b[from]
  PROVE  /\ Move(b, from, to, amount) \in [S -> Nat]
         /\ from # to => Move(b, from, to, amount)[from] = b[from] - amount
         /\ from # to => Move(b, from, to, amount)[to] = b[to] + amount
         /\ from = to => Move(b, from, to, amount)[from] = b[from]
         /\ \A h \in S : h \notin {from, to} => Move(b, from, to, amount)[h] = b[h]
  BY DEF Move

(* So does a mint. *)
LEMMA MintFacts ==
  ASSUME NEW S, NEW b \in [S -> Nat], NEW to \in S, NEW amount \in Nat
  PROVE  Mint(b, to, amount) \in [S -> Nat]
  BY DEF Mint

LEMMA RoundUpNat ==
  ASSUME NEW amount \in Nat, NEW bps \in Nat
  PROVE  RoundUpBps(amount, bps) \in Nat
<1>1. amount * bps \in Nat
  BY ProductNat
<1>2. BPS_PRECISION \in Nat \ {0}
  BY FeeAssumption
<1>3. amount * bps + BPS_PRECISION - 1 \in Nat
  BY <1>1, <1>2
<1>4. QED
  BY <1>2, <1>3, DivFloor DEF RoundUpBps

(* The parts of a fee breakdown add up to the gross amount. *)
LEMMA FeeParts ==
  ASSUME FeeTypeOK, NEW gross \in Nat
  PROVE  LET fees == FeeBreakdown(gross)
         IN /\ fees \in [gross : {gross}, protocol : Nat, lp : Nat, net : Int]
            /\ fees.net = gross - fees.protocol - fees.lp
<1>1. feeConfig.protocol_fee_bps \in Nat /\ feeConfig.lp_fee_bps \in Nat
  BY DEF FeeTypeOK, FeeConfig
<1>2. /\ RoundUpBps(gross, feeConfig.protocol_fee_bps) \in Nat
      /\ RoundUpBps(gross, feeConfig.lp_fee_bps) \in Nat
  BY <1>1, RoundUpNat
<1>3. QED
  BY <1>2 DEF FeeBreakdown

(* set_config refuses tiers above the limit, so no stored tier exceeds it. *)
TiersLimited ==
  \A i \in DOMAIN whaleConfig.tiers : whaleConfig.tiers[i][2] <= MAX_TIER_FEE_BPS

LEMMA ExtraFeeLimited ==
  ASSUME WhaleTypeOK, TiersLimited, NEW buyer, NEW tokens, NEW supply
  PROVE  ExtraFeeBps(buyer, tokens, supply) \in 0 .. WHALE_BPS
<1> DEFINE bps == HoldingsBps(walletHoldings[buyer] + tokens, supply)
           tiers == whaleConfig.tiers
           R == {i \in DOMAIN tiers : \A j \in 1 .. i : bps >= tiers[j][1]}
<1>1. tiers \in Seq(Nat \X Nat) /\ WHALE_BPS \in Nat /\ MAX_TIER_FEE_BPS \in 0 .. WHALE_BPS
  BY WhaleAssumption DEF WhaleTypeOK, WhaleConfig
<1>2. DOMAIN tiers = 1 .. Len(tiers) /\ Len(tiers) \in Nat
  BY <1>1
<1> HIDE DEF bps, tiers
<1>3. ASSUME R # {}
      PROVE  tiers[CHOOSE i \in R : \A j \in R : j <= i][2] \in 0 .. WHALE_BPS
  <2>1. R \in SUBSET (1 .. Len(tiers))
    BY <1>2
  <2> HIDE DEF R
  <2>2. \E i \in R : \A j \in R : j <= i
    <3>1. IsFiniteSet(1 .. Len(tiers))
      BY <1>2, FS_Interval
    <3>2. IsFiniteSet(R)
      BY <2>1, <3>1, FS_Subset
    <3>3. \A i \in R : i \in Int
      BY <1>2, <2>1
    <3>4. QED
      BY <1>3, <3>2, <3>3, LargestElement
  <2>3. (CHOOSE i \in R : \A j \in R : j <= i) \in 1 .. Len(tiers)
    BY <2>1, <2>2
  <2>4. ASSUME NEW i \in 1 .. Len(tiers) PROVE tiers[i][2] \in 0 .. WHALE_BPS
    <3>1. tiers[i] \in Nat \X Nat
      BY <1>1, <2>4
    <3>2. tiers[i][2] \in Nat /\ tiers[i][2] <= MAX_TIER_FEE_BPS
      BY <1>2, <2>4, <3>1 DEF TiersLimited, tiers
    <3>3. QED
      BY <1>1, <3>2
  <2>5. QED
    BY <2>3, <2>4
<1>4. ProgressiveFee(bps) \in 0 .. WHALE_BPS
  <2>1. ProgressiveFee(bps) = IF R = {} THEN 0
                              ELSE tiers[CHOOSE i \in R : \A j \in R : j <= i][2]
    BY DEF ProgressiveFee, tiers
  <2> HIDE DEF R
  <2>2. QED
    BY <1>1, <1>3, <2>1
<1>5. QED
  BY <1>1, <1>4 DEF ExtraFeeBps, bps

(* Dividing a negative number by a whole that the share does not exceed:   *)
(* the share of what is missing is no more than what is missing.           *)
LEMMA ShareOfMissing ==
  ASSUME NEW n \in Int, n < 0, NEW whole \in Nat \ {0}, NEW share \in 0 .. whole
  PROVE  (n * share) \div whole \in Int /\ n <= (n * share) \div whole
  OBVIOUS

(* The parts of what a buyer pays add up, whale tax included; if something *)
(* is left for the swap, the tax was not negative.                         *)
LEMMA BuyFeeParts ==
  ASSUME FeeTypeOK, WhaleTypeOK, TiersLimited, NEW buyer, NEW t, NEW gross \in Nat,
         BuyFees(buyer, t, gross).net > 0
  PROVE  LET fees == BuyFees(buyer, t, gross)
         IN /\ fees.protocol \in Nat /\ fees.lp \in Nat /\ fees.net \in Nat \ {0}
            /\ fees.protocol + fees.lp + fees.net = gross
<1> DEFINE plain == FeeBreakdown(gross)
           fees == BuyFees(buyer, t, gross)
           share == ExtraFeeBps(buyer, CalculateBuy(curve[t], gross), INITIAL_SUPPLY)
           tax == (plain.net * share) \div WHALE_BPS
<1>1. /\ plain \in [gross : {gross}, protocol : Nat, lp : Nat, net : Int]
      /\ plain.net = gross - plain.protocol - plain.lp
  BY FeeParts
<1>2. share \in 0 .. WHALE_BPS
  BY ExtraFeeLimited
<1>3. WHALE_BPS \in Nat \ {0}
  BY WhaleAssumption
<1>4. fees = [plain EXCEPT !.protocol = @ + tax, !.net = @ - tax]
  BY DEF BuyFees
<1>5. fees.net > 0
  OBVIOUS
<1> HIDE DEF plain, fees, share, tax
<1>6. /\ fees.protocol = plain.protocol + tax /\ fees.lp = plain.lp
      /\ fees.net = plain.net - tax
  BY <1>1, <1>4
<1>7. tax \in Int /\ (plain.net >= 0 => tax \in Nat) /\ (plain.net < 0 => plain.net <= tax)
  <2>1. plain.net \in Int
    BY <1>1
  <2>2. CASE plain.net >= 0
    <3>1. plain.net * share \in Nat
      BY <1>2, <2>1, <2>2, ProductNat
    <3>2. tax \in Nat
      BY <1>3, <3>1, DivFloor DEF tax
    <3>3. QED
      BY <2>1, <2>2, <3>2
  <2>3. CASE plain.net < 0
    BY <1>2, <1>3, <2>1, <2>3, ShareOfMissing DEF tax
  <2>4. QED
    BY <2>1, <2>2, <2>3
<1>8. plain.net \in Int /\ plain.protocol \in Nat /\ plain.lp \in Nat
  BY <1>1
<1>9. tax \in Nat
  BY <1>5, <1>6, <1>7, <1>8
<1>10. QED
  BY <1>1, <1>5, <1>6, <1>8, <1>9 DEF fees

-----------------------------------------------------------------------------
(* The books                                                               *)

(* What a launch finds: nothing was raised for a token nobody launched.    *)
NothingRaisedBeforeLaunch ==
  \A t \in Token : status[t] = "Unlaunched" => raised[t] = 0

(* The inductive invariant. *)
FactoryInv ==
  /\ TypeOK /\ TiersLimited /\ CurvesConsistent /\ NothingRaisedBeforeLaunch
  /\ LockedTotal /\ Backing

(* The part of the invariant that concerns one token. *)
LEMMA TokenFacts ==
  ASSUME FactoryInv, NEW t \in Token
  PROVE  /\ SoundCurve(curve[t], BONDING_CURVE_SUPPLY)
         /\ locked[t] \in Nat /\ raised[t] \in Nat
         /\ status[t] = "Bonding" => curve[t].xlm_reserve = INITIAL_VIRTUAL_RESERVE + locked[t]
         /\ status[t] # "Bonding" => locked[t] = 0
         /\ status[t] \in {"Unlaunched", "Bonding", "Graduated"}
  BY DEF FactoryInv, TypeOK, CurvesConsistent, SoundCurve, Statuses

(* Changing the lock of one token changes the sum of the locks by as much. *)
LEMMA LockSum ==
  ASSUME FactoryInv, NEW t \in Token, locked' \in [Token -> Nat],
         \A u \in Token \ {t} : locked'[u] = locked[u]
  PROVE  /\ totalLocked \in Nat /\ locked[t] <= totalLocked
         /\ SumFunctionOnSet(locked', Token) = totalLocked - locked[t] + locked'[t]
<1>1. locked \in [Token -> Nat] /\ totalLocked = SumFunctionOnSet(locked, Token)
      /\ totalLocked \in Nat
  BY DEF FactoryInv, TypeOK, LockedTotal
<1>2. locked \in [Token -> Int] /\ locked' \in [Token -> Int]
      /\ \A x \in Token : locked[x] >= 0
  BY <1>1
<1>3. IsFiniteSet(Token)
  BY FactoryAssumption
<1>4. locked[t] <= SumFunctionOnSet(locked, Token)
  BY <1>2, <1>3, SumNonNegative
<1>5. SumFunctionOnSet(locked', Token)
        = SumFunctionOnSet(locked, Token) - locked[t] + locked'[t]
  BY <1>2, <1>3, SumDiffersAtOnePoint
<1>6. QED
  BY <1>1, <1>4, <1>5

(* A step that touches the books of one token only: what the factory owes  *)
(* changes by what it owes for this token.                                 *)
LEMMA OwedSum ==
  ASSUME FactoryInv, NEW t \in Token,
         \A u \in Token \ {t} : status'[u] = status[u] /\ locked'[u] = locked[u]
                                 /\ raised'[u] = raised[u],
         locked'[t] \in Nat, raised'[t] \in Nat
  PROVE  /\ SumFunctionOnSet(Owed, Token) \in Int
         /\ SumFunctionOnSet(Owed', Token)
              = SumFunctionOnSet(Owed, Token) - Owed[t] + Owed'[t]
         /\ Owed[t] \in Nat /\ Owed'[t] \in Nat
         /\ Owed[t] = IF status[t] = "Bonding" THEN Larger(locked[t], raised[t]) ELSE 0
         /\ Owed'[t] = IF status'[t] = "Bonding" THEN Larger(locked'[t], raised'[t]) ELSE 0
<1>1. locked \in [Token -> Nat] /\ raised \in [Token -> Nat]
  BY DEF FactoryInv, TypeOK
<1>2. Owed \in [Token -> Int] /\ Owed[t] \in Nat
  BY <1>1 DEF Owed, Larger
<1>3. Owed'[t] \in Nat
      /\ Owed'[t] = IF status'[t] = "Bonding" THEN Larger(locked'[t], raised'[t]) ELSE 0
  BY DEF Owed, Larger
<1>4. Owed' = [Owed EXCEPT ![t] = Owed'[t]]
  BY DEF Owed, Larger
<1>5. IsFiniteSet(Token) /\ Owed'[t] \in Int
  BY <1>3, FactoryAssumption
<1>6. /\ SumFunctionOnSet(Owed, Token) \in Int
      /\ SumFunctionOnSet([Owed EXCEPT ![t] = Owed'[t]], Token)
           = SumFunctionOnSet(Owed, Token) - Owed[t] + Owed'[t]
  BY <1>2, <1>5, SumUpdate
<1>7. Owed[t] = IF status[t] = "Bonding" THEN Larger(locked[t], raised[t]) ELSE 0
  BY DEF Owed
<1>8. QED
  BY <1>2, <1>3, <1>4, <1>6, <1>7

(* TypeOK, in the part the administration writes and the part trades write. *)
ConfigTypes ==
  /\ FeeTypeOK /\ WhaleTypeOK
  /\ symbolOf \in [Token -> Symbol \cup {NoSymbol}]
  /\ kindOf \in [Token -> {"V1", "V2"}]
  /\ usedSymbols \subseteq Symbol
  /\ threshold \in Nat \ {0}
  /\ dex \in DexConfig
  /\ mintable \in [Token -> BOOLEAN]
  /\ now \in Nat
  /\ failedGraduations \subseteq Token

BookTypes ==
  /\ status \in [Token -> {"Unlaunched", "Bonding", "Graduated"}]
  /\ curve \in [Token -> Curve]
  /\ raised \in [Token -> Nat] /\ locked \in [Token -> Nat]
  /\ totalLocked \in Nat
  /\ pool \in [Token -> Nat]
  /\ xlm \in [Holder -> Nat]
  /\ bal \in [Token -> [Holder -> Nat]]
  /\ withdrawn \in Nat

LEMMA TypeParts == TypeOK <=> AccessTypeOK /\ ConfigTypes /\ BookTypes
<1>1. Statuses \ {"GraduationInProgress", "GraduationFailed"}
        = {"Unlaunched", "Bonding", "Graduated"}
  BY DEF Statuses
<1>2. QED
  BY <1>1 DEF TypeOK, ConfigTypes, BookTypes

(* The conjuncts of the invariant that relate the books. *)
BooksAgree ==
  CurvesConsistent /\ NothingRaisedBeforeLaunch /\ LockedTotal /\ Backing

(* A step that leaves the books of every token alone keeps them in         *)
(* agreement, if the factory's XLM and what was withdrawn do not shrink.   *)
LEMMA BooksKept ==
  ASSUME FactoryInv, UNCHANGED marketVars,
         xlm'[FACTORY] + withdrawn' >= xlm[FACTORY] + withdrawn,
         xlm'[FACTORY] \in Nat, withdrawn' \in Nat
  PROVE  BooksAgree'
<1>1. /\ UNCHANGED status /\ UNCHANGED curve /\ UNCHANGED raised /\ UNCHANGED locked
      /\ UNCHANGED totalLocked
  BY DEF marketVars
<1>2. CurvesConsistent' /\ NothingRaisedBeforeLaunch' /\ LockedTotal'
  BY <1>1 DEF FactoryInv, CurvesConsistent, NothingRaisedBeforeLaunch, LockedTotal
<1>3. Owed' = Owed
  BY <1>1 DEF Owed
<1>4. xlm[FACTORY] + withdrawn >= SumFunctionOnSet(Owed, Token)
  BY DEF FactoryInv, Backing
<1>5. SumFunctionOnSet(Owed, Token) \in Int /\ xlm[FACTORY] \in Nat /\ withdrawn \in Nat
  <2>1. /\ raised \in [Token -> Nat] /\ locked \in [Token -> Nat]
        /\ xlm \in [Holder -> Nat] /\ withdrawn \in Nat
    BY DEF FactoryInv, TypeOK
  <2>2. Owed \in [Token -> Int] /\ \A t \in Token : Owed[t] >= 0
    BY <2>1 DEF Owed, Larger
  <2>3. IsFiniteSet(Token)
    BY FactoryAssumption
  <2>4. SumFunctionOnSet(Owed, Token) \in Nat
    BY <2>2, <2>3, SumNonNegative
  <2>5. QED
    BY <2>1, <2>4 DEF Holder
<1>6. Backing'
  BY <1>3, <1>4, <1>5 DEF Backing
<1>7. QED
  BY <1>2, <1>6 DEF BooksAgree

(* A step that touches the books of one token keeps the books in           *)
(* agreement, if the counter moves with the token's lock and the factory's *)
(* XLM with what it owes for the token.                                    *)
LEMMA BooksChanged ==
  ASSUME FactoryInv, NEW t \in Token, BookTypes',
         \A u \in Token \ {t} : status'[u] = status[u] /\ curve'[u] = curve[u]
                                 /\ locked'[u] = locked[u] /\ raised'[u] = raised[u],
         SoundCurve(curve'[t], BONDING_CURVE_SUPPLY),
         status'[t] = "Bonding" => curve'[t].xlm_reserve = INITIAL_VIRTUAL_RESERVE + locked'[t],
         status'[t] # "Bonding" => locked'[t] = 0,
         status'[t] # "Unlaunched",
         totalLocked' = totalLocked - locked[t] + locked'[t],
         xlm'[FACTORY] + withdrawn' >= xlm[FACTORY] + withdrawn - Owed[t] + Owed'[t]
  PROVE  BooksAgree'
<1>1. CurvesConsistent'
  BY DEF FactoryInv, CurvesConsistent, SoundCurve
<1>2. NothingRaisedBeforeLaunch'
  BY DEF FactoryInv, NothingRaisedBeforeLaunch
<1>3. LockedTotal'
  <2>1. locked' \in [Token -> Nat]
    BY DEF BookTypes
  <2>2. SumFunctionOnSet(locked', Token) = totalLocked - locked[t] + locked'[t]
    BY <2>1, LockSum
  <2>3. QED
    BY <2>2 DEF LockedTotal
<1>4. Backing'
  <2>1. /\ locked'[t] \in Nat /\ raised'[t] \in Nat /\ withdrawn' \in Nat
        /\ xlm'[FACTORY] \in Nat /\ xlm[FACTORY] \in Nat /\ withdrawn \in Nat
    BY DEF BookTypes, Holder, FactoryInv, TypeOK
  <2>2. /\ SumFunctionOnSet(Owed, Token) \in Int
        /\ SumFunctionOnSet(Owed', Token) = SumFunctionOnSet(Owed, Token) - Owed[t] + Owed'[t]
        /\ Owed[t] \in Nat /\ Owed'[t] \in Nat
    BY <2>1, OwedSum
  <2>3. xlm[FACTORY] + withdrawn >= SumFunctionOnSet(Owed, Token)
    BY DEF FactoryInv, Backing
  <2>4. xlm'[FACTORY] + withdrawn' >= SumFunctionOnSet(Owed', Token)
    BY <2>1, <2>2, <2>3
  <2>5. QED
    BY <2>4 DEF Backing
<1>5. QED
  BY <1>1, <1>2, <1>3, <1>4 DEF BooksAgree

LEMMA FactoryInit == Init => FactoryInv
<1> SUFFICES ASSUME Init PROVE FactoryInv
  OBVIOUS
<1>1. ConfigTypes /\ TiersLimited
  <2>1. FeeTypeOK
    BY FeeAssumption DEF Init, FeeInit, FeeTypeOK, FeeConfig, DefaultFeeConfig
  <2>2. WhaleTypeOK /\ TiersLimited
    BY WhaleAssumption
       DEF Init, WhaleInit, WhaleTypeOK, WhaleConfig, DefaultWhaleConfig, TiersLimited
  <2>3. dex \in DexConfig
    BY DEF Init, NoDex, DexConfig
  <2>4. QED
    BY <2>1, <2>2, <2>3, FactoryAssumption DEF Init, ConfigTypes
<1>2. AccessTypeOK
  BY DEF Init, AccessInit, AccessTypeOK
<1>3. BONDING_CURVE_SUPPLY \in Nat
  BY FactoryAssumption
<1>4. SoundCurve(NewCurve(BONDING_CURVE_SUPPLY), BONDING_CURVE_SUPPLY)
  BY <1>3, NewCurveSound
<1>5. BookTypes
  <2>1. xlm \in [Holder -> Nat]
    BY FactoryAssumption DEF Init, Holder
  <2>2. QED
    BY <1>4, <2>1 DEF Init, BookTypes, SoundCurve
<1>6. CurvesConsistent /\ NothingRaisedBeforeLaunch
  BY <1>4 DEF Init, CurvesConsistent, NothingRaisedBeforeLaunch, SoundCurve
<1>7. LockedTotal /\ Backing
  <2>1. /\ locked \in [Token -> Int] /\ \A t \in Token : locked[t] = 0 /\ locked[t] >= 0
        /\ Owed \in [Token -> Int] /\ \A t \in Token : Owed[t] = 0 /\ Owed[t] >= 0
    BY DEF Init, Owed
  <2>2. IsFiniteSet(Token)
    BY FactoryAssumption
  <2>3. SumFunctionOnSet(locked, Token) = 0
    BY <2>1, <2>2, SumNonNegative
  <2>4. SumFunctionOnSet(Owed, Token) = 0
    BY <2>1, <2>2, SumNonNegative
  <2>5. xlm[FACTORY] \in Nat /\ withdrawn = 0 /\ totalLocked = 0
    BY <1>5 DEF Init, BookTypes, Holder
  <2>6. QED
    BY <2>3, <2>4, <2>5 DEF LockedTotal, Backing
<1>8. QED
  BY <1>1, <1>2, <1>5, <1>6, <1>7, TypeParts DEF FactoryInv

(* What a buy does, whether or not it also graduates its token.            *)
LEMMA BuyFacts ==
  ASSUME FactoryInv, NEW buyer \in Account, NEW t \in Token, NEW gross \in Nat,
         NEW minTokens, NEW deadline,
         CanExecuteBuy(buyer, t, gross, minTokens, deadline), ExecuteBuy(buyer, t, gross)
  PROVE  LET fees == BuyFees(buyer, t, gross)
             lock == LockedByBuy(fees)
             out == TokensOut(buyer, t, gross)
         IN /\ status[t] = "Bonding" /\ gross <= xlm[buyer] /\ mintable[t]
            /\ fees.protocol \in Nat /\ fees.lp \in Nat /\ fees.net \in Nat \ {0}
            /\ fees.protocol + fees.lp + fees.net = gross
            /\ lock \in Nat /\ lock <= gross
            /\ out \in Nat
            /\ curve' \in [Token -> Curve]
            /\ \A u \in Token \ {t} : curve'[u] = curve[u] /\ raised'[u] = raised[u]
            /\ SoundCurve(curve'[t], BONDING_CURVE_SUPPLY)
            /\ curve'[t].xlm_reserve = INITIAL_VIRTUAL_RESERVE + locked[t] + lock
            /\ curve'[t].tokens_remaining = curve[t].tokens_remaining - out
            /\ raised' \in [Token -> Nat] /\ raised'[t] = raised[t] + gross
            /\ withdrawn' = withdrawn
            /\ ConfigTypes' /\ TiersLimited'
<1> DEFINE fees == BuyFees(buyer, t, gross)
           out == TokensOut(buyer, t, gross)
           c == curve[t]
<1>1. /\ ConfigTypes /\ BookTypes /\ TiersLimited
  BY TypeParts DEF FactoryInv
<1>2. /\ status[t] = "Bonding" /\ gross <= xlm[buyer] /\ mintable[t]
      /\ CanBuy(c, fees.net) /\ out < c.tokens_remaining
  BY DEF CanExecuteBuy, Tradable
<1>3. /\ fees.protocol \in Nat /\ fees.lp \in Nat /\ fees.net \in Nat \ {0}
      /\ fees.protocol + fees.lp + fees.net = gross
  <2>1. fees.net > 0
    BY <1>2 DEF CanBuy
  <2>2. QED
    BY <1>1, <2>1, BuyFeeParts DEF ConfigTypes
<1>4. /\ SoundCurve(c, BONDING_CURVE_SUPPLY)
      /\ c.xlm_reserve = INITIAL_VIRTUAL_RESERVE + locked[t]
      /\ locked[t] \in Nat /\ raised[t] \in Nat
  BY <1>2, TokenFacts
<1>5. out = CalculateBuy(c, fees.net)
  BY DEF TokensOut
<1>6. /\ curve' = [curve EXCEPT ![t] = ExecuteBuyWithLpFee(@, fees.net, out, fees.lp)]
      /\ raised' = [raised EXCEPT ![t] = @ + gross]
      /\ RecordBuy(buyer, out, now)
      /\ accumulatedFees' = accumulatedFees + fees.protocol
      /\ UNCHANGED <<accessVars, feeConfig, whaleConfig, tokenVars, configVars,
                     historyVars, mintable, now>>
  BY DEF ExecuteBuy
<1> HIDE DEF fees, out, c
<1> DEFINE after == ExecuteBuyWithLpFee(c, fees.net, out, fees.lp)
<1>7. /\ out \in Nat
      /\ SoundCurve(after, BONDING_CURVE_SUPPLY)
      /\ after.tokens_remaining = c.tokens_remaining - out
      /\ after.xlm_reserve = c.xlm_reserve + fees.net + fees.lp
  BY <1>2, <1>3, <1>4, <1>5, BuyKeepsCurveSound
<1> HIDE DEF after
<1>8. /\ curve' = [curve EXCEPT ![t] = after] /\ curve \in [Token -> Curve] /\ after \in Curve
  BY <1>1, <1>6, <1>7 DEF BookTypes, SoundCurve, after, c
<1>9. /\ curve' \in [Token -> Curve] /\ curve'[t] = after
      /\ \A u \in Token \ {t} : curve'[u] = curve[u]
  BY <1>8
<1>10. /\ raised' \in [Token -> Nat] /\ raised'[t] = raised[t] + gross
       /\ \A u \in Token \ {t} : raised'[u] = raised[u]
  BY <1>1, <1>6 DEF BookTypes
<1>11. curve'[t].xlm_reserve = INITIAL_VIRTUAL_RESERVE + locked[t] + (fees.net + fees.lp)
  BY <1>3, <1>4, <1>7, <1>9, VirtualReserveAssumption
<1>12. ConfigTypes' /\ TiersLimited'
  <2>1. FeeTypeOK'
    BY <1>1, <1>3, <1>6 DEF ConfigTypes, FeeTypeOK
  <2>2. now \in Nat
    BY <1>1 DEF ConfigTypes
  <2>3. WhaleTypeOK' /\ TiersLimited'
    BY <1>1, <1>6, <1>7, <2>2 DEF ConfigTypes, WhaleTypeOK, RecordBuy, TiersLimited
  <2>4. QED
    BY <1>1, <1>6, <2>1, <2>3 DEF ConfigTypes, tokenVars, configVars, historyVars
<1>13. withdrawn' = withdrawn
  BY <1>6 DEF historyVars
<1>14. fees.net + fees.lp \in Nat /\ fees.net + fees.lp <= gross
  BY <1>3
<1>15. QED
  BY <1>2, <1>3, <1>7, <1>9, <1>10, <1>11, <1>12, <1>13, <1>14 DEF LockedByBuy, fees, out, c

(* The balances a buy leaves are natural numbers. *)
LEMMA BuyBalances ==
  ASSUME FactoryInv, NEW buyer \in Account, NEW t \in Token, NEW gross,
         TokensOut(buyer, t, gross) \in Nat, BuyFees(buyer, t, gross).protocol \in Nat
  PROVE  BalancesAfterBuy(buyer, t, gross) \in [Holder -> Nat]
<1>1. bal[t] \in [Holder -> Nat] /\ buyer \in Holder /\ feeConfig.treasury \in Holder
  BY DEF FactoryInv, TypeOK, FeeTypeOK, FeeConfig, Holder
<1>2. Mint(bal[t], buyer, TokensOut(buyer, t, gross)) \in [Holder -> Nat]
  BY <1>1, MintFacts
<1>3. QED
  BY <1>1, <1>2, MintFacts DEF BalancesAfterBuy

(* All of the invariant but the types of roles and contract state. *)
BooksInv == ConfigTypes /\ TiersLimited /\ BookTypes /\ BooksAgree

LEMMA InvParts == FactoryInv <=> AccessTypeOK /\ BooksInv
  BY TypeParts DEF FactoryInv, BooksInv, BooksAgree

(* The accounts a call moves XLM between. *)
LEMMA Holders ==
  ASSUME FactoryInv, NEW a \in Account
  PROVE  /\ a \in Holder /\ FACTORY \in Holder /\ DEX \in Holder
         /\ feeConfig.treasury \in Holder
         /\ a # FACTORY /\ DEX # FACTORY
         /\ xlm \in [Holder -> Nat] /\ withdrawn \in Nat
  BY FactoryAssumption, FeeAssumption
     DEF Holder, FactoryInv, TypeOK, FeeTypeOK, FeeConfig

LEMMA BuyKeepsBooks ==
  ASSUME FactoryInv, NEW buyer \in Account, NEW t \in Token, NEW gross \in BuyAmounts,
         NEW minTokens, NEW deadline, Buy(buyer, t, gross, minTokens, deadline)
  PROVE  BooksInv'
<1> DEFINE fees == BuyFees(buyer, t, gross)
           lock == LockedByBuy(fees)
<1>1. gross \in Nat
  BY FactoryAssumption
<1>2. /\ CanExecuteBuy(buyer, t, gross, minTokens, deadline) /\ ExecuteBuy(buyer, t, gross)
      /\ locked' = [locked EXCEPT ![t] = @ + lock]
      /\ totalLocked' = totalLocked + lock
      /\ xlm' = Move(xlm, buyer, FACTORY, gross)
      /\ bal' = [bal EXCEPT ![t] = BalancesAfterBuy(buyer, t, gross)]
      /\ status' = status /\ pool' = pool
  BY DEF Buy
<1>3. /\ status[t] = "Bonding" /\ gross <= xlm[buyer]
      /\ fees.protocol \in Nat
      /\ lock \in Nat /\ lock <= gross
      /\ TokensOut(buyer, t, gross) \in Nat
      /\ curve' \in [Token -> Curve]
      /\ \A u \in Token \ {t} : curve'[u] = curve[u] /\ raised'[u] = raised[u]
      /\ SoundCurve(curve'[t], BONDING_CURVE_SUPPLY)
      /\ curve'[t].xlm_reserve = INITIAL_VIRTUAL_RESERVE + locked[t] + lock
      /\ raised' \in [Token -> Nat] /\ raised'[t] = raised[t] + gross
      /\ withdrawn' = withdrawn
      /\ ConfigTypes' /\ TiersLimited'
  BY <1>1, <1>2, BuyFacts
<1>4. BalancesAfterBuy(buyer, t, gross) \in [Holder -> Nat]
  BY <1>3, BuyBalances
<1> HIDE DEF fees, lock
<1>5. BookTypes
  BY InvParts DEF BooksInv
<1>6. /\ locked' \in [Token -> Nat] /\ locked'[t] = locked[t] + lock
      /\ \A u \in Token \ {t} : locked'[u] = locked[u]
      /\ locked[t] \in Nat /\ raised[t] \in Nat
  BY <1>2, <1>3, <1>5 DEF BookTypes
<1>7. /\ xlm' \in [Holder -> Nat] /\ xlm'[FACTORY] = xlm[FACTORY] + gross
      /\ xlm[FACTORY] \in Nat /\ withdrawn \in Nat
  BY <1>1, <1>2, <1>3, Holders, MoveFacts
<1>8. BookTypes'
  BY <1>2, <1>3, <1>4, <1>5, <1>6, <1>7 DEF BookTypes
<1>9. xlm'[FACTORY] + withdrawn' >= xlm[FACTORY] + withdrawn - Owed[t] + Owed'[t]
  <2>1. /\ Owed[t] = Larger(locked[t], raised[t])
        /\ Owed'[t] = Larger(locked'[t], raised'[t])
    BY <1>2, <1>3 DEF Owed
  <2>2. Owed'[t] <= Owed[t] + gross /\ Owed[t] \in Nat /\ Owed'[t] \in Nat
    BY <1>1, <1>3, <1>6, <2>1 DEF Larger
  <2>3. QED
    BY <1>1, <1>3, <1>7, <2>2
<1>10. /\ totalLocked' = totalLocked - locked[t] + locked'[t]
       /\ curve'[t].xlm_reserve = INITIAL_VIRTUAL_RESERVE + locked'[t]
  <2>1. totalLocked \in Nat /\ INITIAL_VIRTUAL_RESERVE \in Nat
    BY <1>5, VirtualReserveAssumption DEF BookTypes
  <2>2. QED
    BY <1>2, <1>3, <1>6, <2>1
<1>11. BooksAgree'
  BY <1>2, <1>3, <1>6, <1>8, <1>9, <1>10, BooksChanged
<1>12. QED
  BY <1>3, <1>8, <1>11 DEF BooksInv

-----------------------------------------------------------------------------
(* Graduation                                                              *)

LEMMA PercentFacts ==
  ASSUME NEW amount \in Nat, NEW p \in Nat
  PROVE  Percent(amount, p) \in Nat /\ Percent(amount, p) * 100 <= amount * p
<1>1. amount * p \in Nat
  BY ProductNat
<1>2. QED
  BY <1>1, DivFloor DEF Percent

(* A graduation pays out natural amounts, and never more than was raised.  *)
LEMMA PayoutFacts ==
  ASSUME NEW total \in Nat, NEW remaining \in Nat
  PROVE  /\ PaidOut(total) \in Nat /\ PaidOut(total) <= total
         /\ MainPoolXlm(total) \in Nat
         /\ TokensOutlaid(total, remaining) \in Nat
<1>1. /\ Percent(total, 75) \in Nat /\ Percent(total, 75) * 100 <= total * 75
      /\ Percent(total, 23) \in Nat /\ Percent(total, 23) * 100 <= total * 23
      /\ Percent(total, 2) \in Nat /\ Percent(total, 2) * 100 <= total * 2
      /\ Percent(remaining, 75) \in Nat /\ Percent(remaining, 23) \in Nat
  BY PercentFacts
<1>2. Percent(total, 75) + Percent(total, 23) + Percent(total, 2) <= total
  BY <1>1
<1>3. QED
  BY <1>1, <1>2 DEF PaidOut, MainPoolXlm, TokensOutlaid

(* The books after a graduation, reached from a buy that first added to    *)
(* the lock and to the raised amount, or by itself.                        *)
LEMMA GraduationKeepsBooks ==
  ASSUME FactoryInv, NEW t \in Token, NEW total \in Nat, NEW added \in Nat,
         NEW gross \in Nat, total = raised[t] + gross,
         status[t] = "Bonding", GraduateBooks(t, total, added),
         \A u \in Token \ {t} : curve'[u] = curve[u] /\ raised'[u] = raised[u],
         SoundCurve(curve'[t], BONDING_CURVE_SUPPLY), curve' \in [Token -> Curve],
         raised' \in [Token -> Nat],
         xlm' \in [Holder -> Nat], xlm'[FACTORY] = xlm[FACTORY] + gross - PaidOut(total),
         bal' \in [Token -> [Holder -> Nat]],
         withdrawn' = withdrawn
  PROVE  BookTypes' /\ BooksAgree'
<1>1. BookTypes
  BY InvParts DEF BooksInv
<1>2. /\ status' = [status EXCEPT ![t] = "Graduated"]
      /\ locked' = [locked EXCEPT ![t] = 0]
      /\ totalLocked' = AtLeastZero(totalLocked + added - (locked[t] + added))
      /\ pool' = [pool EXCEPT ![t] = MainPoolXlm(total)]
  BY DEF GraduateBooks, ReleasedByGraduation
<1>3. /\ status'[t] = "Graduated" /\ locked'[t] = 0
      /\ \A u \in Token \ {t} : status'[u] = status[u] /\ locked'[u] = locked[u]
      /\ locked' \in [Token -> Nat]
      /\ status' \in [Token -> {"Unlaunched", "Bonding", "Graduated"}]
  BY <1>1, <1>2 DEF BookTypes
<1>4. locked[t] \in Nat /\ raised[t] \in Nat /\ xlm[FACTORY] \in Nat /\ withdrawn \in Nat
  BY <1>1 DEF BookTypes, Holder
<1>5. totalLocked \in Nat /\ locked[t] <= totalLocked
  BY <1>3, LockSum
<1>6. totalLocked' = totalLocked - locked[t] /\ totalLocked' \in Nat
  BY <1>2, <1>4, <1>5 DEF AtLeastZero
<1>7. PaidOut(total) \in Nat /\ PaidOut(total) <= total /\ MainPoolXlm(total) \in Nat
  BY PayoutFacts
<1>8. BookTypes'
  BY <1>1, <1>2, <1>3, <1>4, <1>6, <1>7 DEF BookTypes
<1>9. xlm'[FACTORY] + withdrawn' >= xlm[FACTORY] + withdrawn - Owed[t] + Owed'[t]
  <2>1. Owed[t] = Larger(locked[t], raised[t]) /\ Owed'[t] = 0
    BY <1>3 DEF Owed
  <2>2. Owed[t] \in Nat /\ raised[t] <= Owed[t]
    BY <1>4, <2>1 DEF Larger
  <2>3. QED
    BY <1>4, <1>7, <2>1, <2>2
<1>10. totalLocked' = totalLocked - locked[t] + locked'[t]
  BY <1>3, <1>4, <1>5, <1>6
<1>11. BooksAgree'
  BY <1>3, <1>8, <1>9, <1>10, BooksChanged
<1>12. QED
  BY <1>8, <1>11

LEMMA BuyAndGraduateKeepsBooks ==
  ASSUME FactoryInv, NEW buyer \in Account, NEW t \in Token, NEW gross \in BuyAmounts,
         NEW minTokens, NEW deadline, BuyAndGraduate(buyer, t, gross, minTokens, deadline)
  PROVE  BooksInv'
<1> DEFINE fees == BuyFees(buyer, t, gross)
           lock == LockedByBuy(fees)
           out == TokensOut(buyer, t, gross)
           total == raised[t] + gross
           remaining == curve[t].tokens_remaining - out
           balances == BalancesAfterBuy(buyer, t, gross)
<1>1. gross \in Nat
  BY FactoryAssumption
<1>2. /\ CanExecuteBuy(buyer, t, gross, minTokens, deadline) /\ ExecuteBuy(buyer, t, gross)
      /\ CanGraduate(t, total, remaining, xlm[FACTORY] + gross)
      /\ GraduateBooks(t, total, lock)
      /\ xlm' = Move(Move(xlm, buyer, FACTORY, gross), FACTORY, DEX, PaidOut(total))
      /\ bal' = [bal EXCEPT ![t] = Mint(balances, DEX, TokensOutlaid(total, remaining))]
  BY DEF BuyAndGraduate
<1>3. /\ status[t] = "Bonding" /\ gross <= xlm[buyer]
      /\ fees.protocol \in Nat
      /\ lock \in Nat
      /\ out \in Nat
      /\ curve' \in [Token -> Curve]
      /\ \A u \in Token \ {t} : curve'[u] = curve[u] /\ raised'[u] = raised[u]
      /\ SoundCurve(curve'[t], BONDING_CURVE_SUPPLY)
      /\ curve'[t].tokens_remaining = remaining
      /\ raised' \in [Token -> Nat]
      /\ withdrawn' = withdrawn
      /\ ConfigTypes' /\ TiersLimited'
  BY <1>1, <1>2, BuyFacts
<1>4. balances \in [Holder -> Nat]
  BY <1>3, BuyBalances
<1>5. remaining \in Nat
  BY <1>3 DEF SoundCurve, Curve
<1>6. PaidOut(total) <= xlm[FACTORY] + gross
  BY <1>2 DEF CanGraduate
<1> HIDE DEF fees, lock, out, remaining, balances
<1>7. total \in Nat /\ bal \in [Token -> [Holder -> Nat]]
  BY <1>1, TokenFacts, InvParts DEF BooksInv, BookTypes
<1> HIDE DEF total
<1>8. /\ PaidOut(total) \in Nat /\ TokensOutlaid(total, remaining) \in Nat
  BY <1>5, <1>7, PayoutFacts
<1>9. bal' \in [Token -> [Holder -> Nat]]
  <2>1. Mint(balances, DEX, TokensOutlaid(total, remaining)) \in [Holder -> Nat]
    BY <1>4, <1>8, Holders, MintFacts
  <2>2. QED
    BY <1>2, <1>7, <2>1
<1> DEFINE received == Move(xlm, buyer, FACTORY, gross)
<1>10. received \in [Holder -> Nat] /\ received[FACTORY] = xlm[FACTORY] + gross
  BY <1>1, <1>3, Holders, MoveFacts
<1>11. xlm' = Move(received, FACTORY, DEX, PaidOut(total))
  BY <1>2
<1> HIDE DEF received
<1>12. xlm' \in [Holder -> Nat] /\ xlm'[FACTORY] = xlm[FACTORY] + gross - PaidOut(total)
  <2>1. DEX \in Holder /\ FACTORY \in Holder /\ DEX # FACTORY
    BY Holders
  <2>2. PaidOut(total) <= received[FACTORY]
    BY <1>6, <1>10
  <2>3. /\ Move(received, FACTORY, DEX, PaidOut(total)) \in [Holder -> Nat]
        /\ Move(received, FACTORY, DEX, PaidOut(total))[FACTORY]
             = received[FACTORY] - PaidOut(total)
    BY <1>8, <1>10, <2>1, <2>2, MoveFacts
  <2>4. QED
    <3>1. xlm[FACTORY] \in Nat /\ gross \in Nat /\ PaidOut(total) \in Nat
      BY <1>1, <1>8, Holders
    <3>2. QED
      BY <1>10, <1>11, <2>3, <3>1
<1>13. total = raised[t] + gross
  BY DEF total
<1>14. BookTypes' /\ BooksAgree'
  BY <1>1, <1>2, <1>3, <1>7, <1>9, <1>12, <1>13, GraduationKeepsBooks
<1>15. QED
  BY <1>3, <1>14 DEF BooksInv

LEMMA ManualGraduationKeepsBooks ==
  ASSUME FactoryInv, NEW admin \in Account, NEW t \in Token, ManualGraduation(admin, t)
  PROVE  BooksInv'
<1> DEFINE total == raised[t]
           remaining == curve[t].tokens_remaining
<1>1. /\ CanGraduate(t, total, remaining, xlm[FACTORY])
      /\ GraduateBooks(t, total, 0)
      /\ xlm' = Move(xlm, FACTORY, DEX, PaidOut(total))
      /\ bal' = [bal EXCEPT ![t] = Mint(@, DEX, TokensOutlaid(total, remaining))]
      /\ UNCHANGED <<accessVars, feeVars, whaleVars, tokenVars, curve, raised,
                     configVars, historyVars, mintable, now>>
  BY DEF ManualGraduation
<1>2. status[t] = "Bonding" /\ PaidOut(total) <= xlm[FACTORY]
  BY <1>1 DEF CanGraduate
<1>3. /\ total \in Nat /\ SoundCurve(curve[t], BONDING_CURVE_SUPPLY)
  BY TokenFacts
<1>4. remaining \in Nat
  BY <1>3 DEF SoundCurve, Curve
<1>5. ConfigTypes /\ TiersLimited /\ BookTypes
  BY InvParts DEF BooksInv
<1>6. ConfigTypes' /\ TiersLimited'
  BY <1>1, <1>5 DEF ConfigTypes, TiersLimited, FeeTypeOK, WhaleTypeOK, feeVars, whaleVars,
                    tokenVars, configVars, historyVars
<1> HIDE DEF total, remaining
<1>7. PaidOut(total) \in Nat /\ TokensOutlaid(total, remaining) \in Nat
  BY <1>3, <1>4, PayoutFacts
<1>8. bal' \in [Token -> [Holder -> Nat]]
  <2>1. bal \in [Token -> [Holder -> Nat]]
    BY <1>5 DEF BookTypes
  <2>2. Mint(bal[t], DEX, TokensOutlaid(total, remaining)) \in [Holder -> Nat]
    BY <1>7, <2>1, MintFacts DEF Holder
  <2>3. QED
    BY <1>1, <2>1, <2>2
<1>9. xlm' \in [Holder -> Nat] /\ xlm'[FACTORY] = xlm[FACTORY] - PaidOut(total)
  <2>1. xlm \in [Holder -> Nat] /\ DEX \in Holder /\ FACTORY \in Holder /\ FACTORY # DEX
    BY <1>5, FactoryAssumption DEF BookTypes, Holder
  <2>2. QED
    BY <1>1, <1>2, <1>7, <2>1, MoveFacts
<1>10. /\ UNCHANGED curve /\ UNCHANGED raised /\ withdrawn' = withdrawn
       /\ curve' \in [Token -> Curve] /\ raised' \in [Token -> Nat]
  BY <1>1, <1>5 DEF BookTypes, historyVars
<1>11. total = raised[t] + 0 /\ xlm'[FACTORY] = xlm[FACTORY] + 0 - PaidOut(total)
  BY <1>3, <1>5, <1>7, <1>9 DEF total, BookTypes, Holder
<1>12. BookTypes' /\ BooksAgree'
  BY <1>1, <1>2, <1>3, <1>8, <1>9, <1>10, <1>11, GraduationKeepsBooks
<1>13. QED
  BY <1>6, <1>12 DEF BooksInv

-----------------------------------------------------------------------------
(* Selling                                                                 *)

LEMMA SellKeepsBooks ==
  ASSUME FactoryInv, NEW seller \in Account, NEW t \in Token, NEW amount \in SellAmounts,
         NEW minXlm \in MinOuts, NEW deadline, Sell(seller, t, amount, minXlm, deadline)
  PROVE  BooksInv'
<1> DEFINE gross == CalculateSell(curve[t], amount)
           fees == FeeBreakdown(gross)
           after == ExecuteSellWithLpFee(curve[t], gross, amount, fees.lp)
<1>1. amount \in Nat /\ minXlm \in Nat
  BY FactoryAssumption
<1>2. ConfigTypes /\ TiersLimited /\ BookTypes
  BY InvParts DEF BooksInv
<1>3. /\ status[t] = "Bonding" /\ amount <= bal[t][seller]
      /\ CanSell(curve[t], amount)
      /\ fees.net >= minXlm
      /\ fees.gross - fees.lp <= locked[t] /\ fees.gross <= raised[t]
      /\ fees.net + fees.protocol <= xlm[FACTORY]
      /\ curve' = [curve EXCEPT ![t] = ExecuteSellWithLpFee(@, fees.gross, amount, fees.lp)]
      /\ locked' = [locked EXCEPT ![t] = @ - (fees.gross - fees.lp)]
      /\ totalLocked' = AtLeastZero(totalLocked - (fees.gross - fees.lp))
      /\ raised' = [raised EXCEPT ![t] = @ - fees.gross]
      /\ RecordSell(seller, amount)
      /\ bal' = [bal EXCEPT ![t][seller] = @ - amount]
      /\ xlm' = Move(Move(xlm, FACTORY, seller, fees.net),
                     FACTORY, feeConfig.treasury, fees.protocol)
      /\ UNCHANGED <<accessVars, feeVars, whaleConfig, tokenVars, status, configVars,
                     historyVars, pool, mintable, now>>
  BY DEF Sell, SellFees, Tradable, BooksCoverSale, ReleasedBySell
<1>4. /\ SoundCurve(curve[t], BONDING_CURVE_SUPPLY)
      /\ curve[t].xlm_reserve = INITIAL_VIRTUAL_RESERVE + locked[t]
      /\ locked[t] \in Nat /\ raised[t] \in Nat
  BY <1>3, TokenFacts
<1>5. gross \in Nat
  <2>1. curve[t].tokens_remaining \in Nat /\ amount > 0 /\ gross > 0
    BY <1>3, <1>4 DEF SoundCurve, Curve, CanSell
  <2>2. gross \in Int
    BY <1>1, <1>4, <2>1, QuotesAreIntegers
  <2>3. QED
    BY <2>1, <2>2
<1>6. /\ fees.gross = gross /\ fees.protocol \in Nat /\ fees.lp \in Nat /\ fees.net \in Nat
      /\ fees.net + fees.protocol + fees.lp = gross
  <2>1. /\ fees \in [gross : {gross}, protocol : Nat, lp : Nat, net : Int]
        /\ fees.net = gross - fees.protocol - fees.lp
    BY <1>2, <1>5, FeeParts DEF ConfigTypes
  <2> HIDE DEF gross, fees
  <2>2. QED
    BY <1>1, <1>3, <1>5, <2>1
<1>7. gross - fees.lp \in Nat /\ gross - fees.lp <= locked[t] /\ gross <= raised[t]
  <2> HIDE DEF gross, fees
  <2>1. QED
    BY <1>3, <1>5, <1>6
<1>8. /\ SoundCurve(after, BONDING_CURVE_SUPPLY)
      /\ after.xlm_reserve = curve[t].xlm_reserve - (gross - fees.lp)
  <2>1. gross - fees.lp <= curve[t].xlm_reserve
    <3> HIDE DEF gross, fees
    <3>1. QED
      BY <1>4, <1>5, <1>6, <1>7, VirtualReserveAssumption
  <2>2. QED
    BY <1>1, <1>3, <1>4, <1>6, <2>1, SellKeepsCurveSound
<1>9. curve' = [curve EXCEPT ![t] = after]
  BY <1>3, <1>6
<1> HIDE DEF gross, fees, after
<1>10. /\ curve' \in [Token -> Curve] /\ curve'[t] = after
       /\ \A u \in Token \ {t} : curve'[u] = curve[u]
  BY <1>2, <1>8, <1>9 DEF BookTypes, SoundCurve
<1>11. /\ locked' \in [Token -> Nat] /\ locked'[t] = locked[t] - (gross - fees.lp)
       /\ raised' \in [Token -> Nat] /\ raised'[t] = raised[t] - gross
       /\ \A u \in Token \ {t} : locked'[u] = locked[u] /\ raised'[u] = raised[u]
  BY <1>2, <1>3, <1>5, <1>6, <1>7 DEF BookTypes
<1>12. totalLocked' = totalLocked - locked[t] + locked'[t] /\ totalLocked' \in Nat
  <2>1. totalLocked \in Nat /\ locked[t] <= totalLocked
    BY <1>11, LockSum
  <2>2. QED
    BY <1>3, <1>4, <1>6, <1>7, <1>11, <2>1 DEF AtLeastZero
<1> DEFINE paid == Move(xlm, FACTORY, seller, fees.net)
<1>13. /\ xlm' \in [Holder -> Nat]
       /\ xlm'[FACTORY] >= xlm[FACTORY] - (gross - fees.lp)
  <2>1. xlm[FACTORY] \in Nat
    BY Holders
  <2>2. paid \in [Holder -> Nat] /\ paid[FACTORY] = xlm[FACTORY] - fees.net
    BY <1>3, <1>6, <2>1, Holders, MoveFacts
  <2>3. xlm' = Move(paid, FACTORY, feeConfig.treasury, fees.protocol)
    BY <1>3
  <2> HIDE DEF paid
  <2>4. fees.protocol <= paid[FACTORY]
    BY <1>3, <1>6, <2>1, <2>2
  <2>5. /\ xlm' \in [Holder -> Nat]
        /\ feeConfig.treasury # FACTORY => xlm'[FACTORY] = paid[FACTORY] - fees.protocol
        /\ feeConfig.treasury = FACTORY => xlm'[FACTORY] = paid[FACTORY]
    BY <1>6, <2>2, <2>3, <2>4, Holders, MoveFacts
  <2>6. xlm'[FACTORY] >= paid[FACTORY] - fees.protocol
    BY <1>6, <2>1, <2>2, <2>5
  <2>7. QED
    BY <1>5, <1>6, <2>1, <2>2, <2>5, <2>6
<1>14. bal' \in [Token -> [Holder -> Nat]]
  <2>1. bal \in [Token -> [Holder -> Nat]] /\ seller \in Holder
    BY <1>2 DEF BookTypes, Holder
  <2>2. bal[t][seller] - amount \in Nat
    BY <1>1, <1>3, <2>1
  <2>3. QED
    BY <1>3, <2>1, <2>2
<1>15. /\ UNCHANGED status /\ UNCHANGED pool /\ UNCHANGED withdrawn
  BY <1>3 DEF historyVars
<1>16. BookTypes'
  BY <1>2, <1>10, <1>11, <1>12, <1>13, <1>14, <1>15 DEF BookTypes
<1>17. xlm'[FACTORY] + withdrawn' >= xlm[FACTORY] + withdrawn - Owed[t] + Owed'[t]
  <2>1. /\ Owed[t] = Larger(locked[t], raised[t])
        /\ Owed'[t] = Larger(locked'[t], raised'[t])
    BY <1>3, <1>15 DEF Owed
  <2>2. Owed'[t] <= Owed[t] - (gross - fees.lp) /\ Owed[t] \in Nat /\ Owed'[t] \in Int
    BY <1>4, <1>5, <1>6, <1>7, <1>11, <2>1 DEF Larger
  <2>3. xlm[FACTORY] \in Nat /\ withdrawn \in Nat /\ xlm'[FACTORY] \in Nat
    BY <1>13, Holders
  <2>4. QED
    BY <1>5, <1>6, <1>13, <1>15, <2>2, <2>3
<1>18. curve'[t].xlm_reserve = INITIAL_VIRTUAL_RESERVE + locked'[t]
  BY <1>4, <1>5, <1>6, <1>8, <1>10, <1>11, VirtualReserveAssumption
<1>19. BooksAgree'
  BY <1>3, <1>8, <1>10, <1>11, <1>12, <1>15, <1>16, <1>17, <1>18, BooksChanged
<1>20. ConfigTypes' /\ TiersLimited'
  <2>1. WhaleTypeOK'
    BY <1>1, <1>2, <1>3 DEF ConfigTypes, WhaleTypeOK, RecordSell, HoldingsAfterSell
  <2>2. QED
    BY <1>2, <1>3, <2>1
       DEF ConfigTypes, FeeTypeOK, TiersLimited, feeVars, tokenVars, configVars, historyVars
<1>21. QED
  BY <1>16, <1>19, <1>20 DEF BooksInv

-----------------------------------------------------------------------------
(* The other calls                                                         *)

LEMMA WithdrawKeepsBooks ==
  ASSUME FactoryInv, NEW admin \in Account, NEW amount \in WithdrawAmounts,
         WithdrawFees(admin, amount)
  PROVE  BooksInv'
<1> DEFINE taken == IF amount <= 0 THEN Available ELSE Smaller(amount, Available)
<1>1. ConfigTypes /\ TiersLimited /\ BookTypes
  BY InvParts DEF BooksInv
<1>2. /\ Available > 0
      /\ xlm' = Move(xlm, FACTORY, feeConfig.treasury, taken)
      /\ withdrawn' = withdrawn + taken
      /\ UNCHANGED <<accessVars, feeVars, whaleVars, tokenVars, marketVars, configVars,
                     bal, failedGraduations, pool, mintable, now>>
  BY DEF WithdrawFees
<1>3. xlm[FACTORY] \in Nat /\ withdrawn \in Nat /\ totalLocked \in Nat
  BY <1>1, Holders DEF BookTypes
<1>4. Available \in Int /\ Available <= xlm[FACTORY]
  BY <1>3 DEF Available
<1>5. taken \in Nat /\ taken <= xlm[FACTORY]
  <2>1. amount \in Int
    BY FactoryAssumption
  <2> HIDE DEF taken
  <2>2. CASE amount <= 0
    <3>1. taken = Available
      BY <2>2 DEF taken
    <3>2. QED
      BY <1>2, <1>4, <3>1
  <2>3. CASE ~ (amount <= 0)
    <3>1. taken = IF amount < Available THEN amount ELSE Available
      BY <2>3 DEF taken, Smaller
    <3>2. QED
      BY <1>2, <1>3, <1>4, <2>1, <2>3, <3>1
  <2>4. QED
    BY <2>2, <2>3
<1> HIDE DEF taken
<1>6. /\ xlm' \in [Holder -> Nat]
      /\ feeConfig.treasury # FACTORY => xlm'[FACTORY] = xlm[FACTORY] - taken
      /\ feeConfig.treasury = FACTORY => xlm'[FACTORY] = xlm[FACTORY]
  BY <1>2, <1>5, Holders, MoveFacts
<1>7. /\ xlm'[FACTORY] + withdrawn' >= xlm[FACTORY] + withdrawn
      /\ xlm'[FACTORY] \in Nat /\ withdrawn' \in Nat
  BY <1>2, <1>3, <1>5, <1>6 DEF Holder
<1>8. UNCHANGED marketVars
  BY <1>2
<1>9. BooksAgree'
  BY <1>7, <1>8, BooksKept
<1>10. BookTypes'
  BY <1>1, <1>2, <1>6, <1>7 DEF BookTypes, marketVars
<1>11. ConfigTypes' /\ TiersLimited'
  BY <1>1, <1>2 DEF ConfigTypes, TiersLimited, FeeTypeOK, WhaleTypeOK, feeVars, whaleVars,
                    tokenVars, configVars
<1>12. QED
  BY <1>9, <1>10, <1>11 DEF BooksInv

LEMMA LaunchKeepsBooks ==
  ASSUME FactoryInv, NEW creator \in Account, NEW t \in Token, NEW symbol \in Symbol,
         NEW kind \in Kinds, Launch(creator, t, symbol, kind)
  PROVE  BooksInv'
<1> DEFINE fee == feeConfig.creation_fee
           fresh == NewCurve(BONDING_CURVE_SUPPLY)
<1>1. ConfigTypes /\ TiersLimited /\ BookTypes
  BY InvParts DEF BooksInv
<1>2. /\ status[t] = "Unlaunched" /\ fee <= xlm[creator]
      /\ xlm' = Move(xlm, creator, feeConfig.treasury, fee)
      /\ accumulatedFees' = accumulatedFees + fee
      /\ status' = [status EXCEPT ![t] = "Bonding"]
      /\ curve' = [curve EXCEPT ![t] = fresh]
      /\ symbolOf' = [symbolOf EXCEPT ![t] = symbol]
      /\ kindOf' = [kindOf EXCEPT ![t] = kind]
      /\ usedSymbols' = usedSymbols \cup {symbol}
      /\ mintable' = [mintable EXCEPT ![t] = (kind = "V2")]
      /\ UNCHANGED <<accessVars, feeConfig, whaleVars, raised, locked, totalLocked,
                     configVars, bal, historyVars, pool, now>>
  BY DEF Launch, SymbolsAfterLaunch
<1>3. fee \in Nat /\ kind \in {"V1", "V2"}
  BY <1>1, FactoryAssumption DEF ConfigTypes, FeeTypeOK, FeeConfig
<1>4. /\ SoundCurve(fresh, BONDING_CURVE_SUPPLY) /\ fresh \in Curve
      /\ fresh.xlm_reserve = INITIAL_VIRTUAL_RESERVE
  BY FactoryAssumption, NewCurveSound DEF SoundCurve
<1> HIDE DEF fee, fresh
<1>5. locked[t] = 0 /\ raised[t] = 0
  BY <1>2, TokenFacts DEF FactoryInv, NothingRaisedBeforeLaunch
<1>6. /\ xlm' \in [Holder -> Nat] /\ xlm'[FACTORY] \in Nat
      /\ xlm'[FACTORY] >= xlm[FACTORY]
  <2>1. /\ creator \in Holder /\ FACTORY \in Holder /\ feeConfig.treasury \in Holder
        /\ creator # FACTORY /\ xlm \in [Holder -> Nat]
    BY Holders
  <2>2. /\ xlm' \in [Holder -> Nat]
        /\ feeConfig.treasury = FACTORY => xlm'[FACTORY] = xlm[FACTORY] + fee
        /\ feeConfig.treasury # FACTORY => xlm'[FACTORY] = xlm[FACTORY]
    BY <1>2, <1>3, <2>1, MoveFacts
  <2>3. QED
    BY <1>3, <2>1, <2>2
<1>7. /\ status' \in [Token -> {"Unlaunched", "Bonding", "Graduated"}]
      /\ status'[t] = "Bonding"
      /\ \A u \in Token \ {t} : status'[u] = status[u]
      /\ curve' \in [Token -> Curve] /\ curve'[t] = fresh
      /\ \A u \in Token \ {t} : curve'[u] = curve[u]
  BY <1>1, <1>2, <1>4 DEF BookTypes
<1>8. /\ UNCHANGED raised /\ UNCHANGED locked /\ UNCHANGED totalLocked /\ UNCHANGED bal
      /\ UNCHANGED pool /\ UNCHANGED withdrawn
  BY <1>2 DEF historyVars
<1>9. BookTypes'
  BY <1>1, <1>6, <1>7, <1>8 DEF BookTypes
<1>10. xlm'[FACTORY] + withdrawn' >= xlm[FACTORY] + withdrawn - Owed[t] + Owed'[t]
  <2>1. Owed[t] = 0 /\ Owed'[t] = 0
    BY <1>2, <1>5, <1>7, <1>8 DEF Owed, Larger
  <2>2. xlm[FACTORY] \in Nat /\ withdrawn \in Nat
    BY Holders
  <2>3. QED
    BY <1>6, <1>8, <2>1, <2>2
<1>11. /\ totalLocked' = totalLocked - locked[t] + locked'[t]
       /\ curve'[t].xlm_reserve = INITIAL_VIRTUAL_RESERVE + locked'[t]
  BY <1>1, <1>4, <1>5, <1>7, <1>8, VirtualReserveAssumption DEF BookTypes
<1>12. BooksAgree'
  BY <1>4, <1>7, <1>8, <1>9, <1>10, <1>11, BooksChanged
<1>13. FeeTypeOK'
  BY <1>1, <1>2, <1>3 DEF ConfigTypes, FeeTypeOK
<1>14. ConfigTypes' /\ TiersLimited'
  BY <1>1, <1>2, <1>3, <1>13
     DEF ConfigTypes, TiersLimited, WhaleTypeOK, whaleVars, configVars, historyVars
<1>15. QED
  BY <1>9, <1>12, <1>14 DEF BooksInv

(* A step that leaves the books and the factory's XLM alone. *)
LEMMA UntouchedBooks ==
  ASSUME FactoryInv, UNCHANGED <<marketVars, xlm, withdrawn, pool>>,
         bal' \in [Token -> [Holder -> Nat]], ConfigTypes', TiersLimited'
  PROVE  BooksInv'
<1>1. BookTypes
  BY InvParts DEF BooksInv
<1>2. BookTypes'
  BY <1>1 DEF BookTypes, marketVars
<1>3. /\ xlm'[FACTORY] + withdrawn' >= xlm[FACTORY] + withdrawn
      /\ xlm'[FACTORY] \in Nat /\ withdrawn' \in Nat
  BY <1>1 DEF BookTypes, Holder
<1>4. BooksAgree'
  BY <1>3, BooksKept
<1>5. QED
  BY <1>2, <1>4 DEF BooksInv

LEMMA TransferKeepsBooks ==
  ASSUME FactoryInv, NEW t \in Token, NEW from \in Account, NEW to \in Account,
         NEW amount \in TransferAmounts, Transfer(t, from, to, amount)
  PROVE  BooksInv'
<1>1. ConfigTypes /\ TiersLimited /\ BookTypes
  BY InvParts DEF BooksInv
<1>2. /\ amount <= bal[t][from]
      /\ bal' = [bal EXCEPT ![t] = Move(@, from, to, amount)]
      /\ UNCHANGED <<accessVars, feeVars, whaleVars, tokenVars, marketVars, configVars,
                     xlm, historyVars, pool, mintable, now>>
  BY DEF Transfer
<1>3. bal' \in [Token -> [Holder -> Nat]]
  <2>1. bal \in [Token -> [Holder -> Nat]] /\ from \in Holder /\ to \in Holder
    BY <1>1 DEF BookTypes, Holder
  <2>2. amount \in Nat
    BY FactoryAssumption
  <2>3. Move(bal[t], from, to, amount) \in [Holder -> Nat]
    BY <1>2, <2>1, <2>2, MoveFacts
  <2>4. QED
    BY <1>2, <2>1, <2>3
<1>4. ConfigTypes' /\ TiersLimited'
  BY <1>1, <1>2 DEF ConfigTypes, TiersLimited, FeeTypeOK, WhaleTypeOK, feeVars, whaleVars,
                    tokenVars, configVars, historyVars
<1>5. UNCHANGED <<marketVars, xlm, withdrawn, pool>>
  BY <1>2 DEF historyVars
<1>6. QED
  BY <1>3, <1>4, <1>5, UntouchedBooks

(* A call that leaves the books and the balances alone keeps the invariant *)
(* if it keeps the configuration well-typed.                               *)
LEMMA ConfigurationOnly ==
  ASSUME FactoryInv, UNCHANGED <<marketVars, ledgerVars, withdrawn, pool>>,
         ConfigTypes', TiersLimited'
  PROVE  BooksInv'
<1>1. bal \in [Token -> [Holder -> Nat]]
  BY DEF FactoryInv, TypeOK
<1>2. UNCHANGED <<marketVars, xlm, withdrawn, pool>> /\ bal' = bal
  BY DEF ledgerVars
<1>3. QED
  BY <1>1, <1>2, UntouchedBooks

LEMMA FailedGraduationKeepsBooks ==
  ASSUME FactoryInv, NEW t \in Token, failedGraduations' = failedGraduations \cup {t},
         UNCHANGED <<accessVars, feeVars, whaleVars, tokenVars, marketVars, configVars,
                     ledgerVars, withdrawn, pool, mintable, now>>
  PROVE  BooksInv'
<1>1. ConfigTypes /\ TiersLimited
  BY InvParts DEF BooksInv
<1>2. ConfigTypes' /\ TiersLimited'
  BY <1>1 DEF ConfigTypes, TiersLimited, FeeTypeOK, WhaleTypeOK, feeVars, whaleVars,
              tokenVars, configVars
<1>3. QED
  BY <1>2, ConfigurationOnly

LEMMA MakeMintableKeepsBooks ==
  ASSUME FactoryInv, NEW t \in Token, MakeMintable(t)
  PROVE  BooksInv'
<1>1. ConfigTypes /\ TiersLimited
  BY InvParts DEF BooksInv
<1>2. ConfigTypes' /\ TiersLimited'
  BY <1>1 DEF MakeMintable, ConfigTypes, TiersLimited, FeeTypeOK, WhaleTypeOK, feeVars,
              whaleVars, tokenVars, configVars, historyVars
<1>3. UNCHANGED <<marketVars, ledgerVars, withdrawn, pool>>
  BY DEF MakeMintable, historyVars
<1>4. QED
  BY <1>2, <1>3, ConfigurationOnly

LEMMA TickKeepsBooks ==
  ASSUME FactoryInv, Tick
  PROVE  BooksInv'
<1>1. ConfigTypes /\ TiersLimited
  BY InvParts DEF BooksInv
<1>2. ConfigTypes' /\ TiersLimited'
  BY <1>1 DEF Tick, ConfigTypes, TiersLimited, FeeTypeOK, WhaleTypeOK, feeVars,
              whaleVars, tokenVars, configVars, historyVars
<1>3. UNCHANGED <<marketVars, ledgerVars, withdrawn, pool>>
  BY DEF Tick, historyVars
<1>4. QED
  BY <1>2, <1>3, ConfigurationOnly

LEMMA InitializeKeepsBooks ==
  ASSUME FactoryInv, NEW admin \in FirstOwners, NEW treasury \in FirstTreasuries,
         Initialize(admin, treasury)
  PROVE  BooksInv'
<1>1. ConfigTypes /\ TiersLimited
  BY InvParts DEF BooksInv
<1>2. feeConfig' \in FeeConfig
  BY FactoryAssumption, FeeAssumption DEF Initialize, DefaultFeeConfig, FeeConfig
<1>3. ConfigTypes' /\ TiersLimited'
  BY <1>1, <1>2 DEF Initialize, ConfigTypes, TiersLimited, FeeTypeOK, WhaleTypeOK,
                    whaleVars, tokenVars, configVars, historyVars
<1>4. UNCHANGED <<marketVars, ledgerVars, withdrawn, pool>>
  BY DEF Initialize, historyVars
<1>5. QED
  BY <1>3, <1>4, ConfigurationOnly

LEMMA FeeAdminKeepsTypes ==
  ASSUME FeeTypeOK, NEW a \in Account, FeeAdminStep(a)
  PROVE  FeeTypeOK'
<1>1. ASSUME NEW bps \in FeeBpsChoices, SetProtocolFee(a, bps) \/ SetLpFee(a, bps)
      PROVE  FeeTypeOK'
  <2>1. bps \in Nat
    BY <1>1, FeeAssumption DEF SetProtocolFee, SetLpFee, RatesAllowed
  <2>2. QED
    BY <1>1, <2>1 DEF SetProtocolFee, SetLpFee, FeeTypeOK, FeeConfig
<1>2. ASSUME NEW fee \in CreationFeeChoices, SetCreationFee(a, fee)
      PROVE  FeeTypeOK'
  <2>1. fee \in Nat
    BY <1>2, FeeAssumption DEF SetCreationFee
  <2>2. QED
    BY <1>2, <2>1 DEF SetCreationFee, FeeTypeOK, FeeConfig
<1>3. ASSUME NEW treasury \in TreasuryChoices, SetTreasury(a, treasury)
      PROVE  FeeTypeOK'
  BY <1>3, FeeAssumption DEF SetTreasury, FeeTypeOK, FeeConfig
<1>4. QED
  BY <1>1, <1>2, <1>3 DEF FeeAdminStep

LEMMA WhaleAdminKeepsTypes ==
  ASSUME WhaleTypeOK, TiersLimited, NEW a \in Account, WhaleAdminStep(a)
  PROVE  WhaleTypeOK' /\ TiersLimited'
<1>1. ASSUME NEW c \in WhaleConfigs, SetAntiWhaleConfig(a, c)
      PROVE  WhaleTypeOK' /\ TiersLimited'
  BY <1>1, WhaleAssumption
     DEF SetAntiWhaleConfig, ValidWhaleConfig, WhaleTypeOK, TiersLimited
<1>2. ASSUME NEW e \in BOOLEAN, SetAntiWhaleEnabled(a, e)
      PROVE  WhaleTypeOK' /\ TiersLimited'
  <2>1. whaleConfig' \in WhaleConfig /\ whaleConfig'.tiers = whaleConfig.tiers
    BY <1>2 DEF SetAntiWhaleEnabled, WhaleTypeOK, WhaleConfig
  <2>2. QED
    BY <1>2, <2>1 DEF SetAntiWhaleEnabled, WhaleTypeOK, TiersLimited
<1>3. ASSUME NEW w \in Account, NEW b \in Balances, ResetWalletHoldings(a, w, b)
      PROVE  WhaleTypeOK' /\ TiersLimited'
  BY <1>3, WhaleAssumption DEF ResetWalletHoldings, WhaleTypeOK, TiersLimited
<1>4. ASSUME NEW w \in Account, ClearWalletHoldings(a, w)
      PROVE  WhaleTypeOK' /\ TiersLimited'
  BY <1>4 DEF ClearWalletHoldings, WhaleTypeOK, TiersLimited
<1>5. QED
  BY <1>1, <1>2, <1>3, <1>4 DEF WhaleAdminStep

LEMMA ConfigureKeepsTypes ==
  ASSUME threshold \in Nat \ {0}, dex \in DexConfig, NEW a \in Account,
         \/ \E amount \in ThresholdChoices : SetGraduationThreshold(a, amount)
         \/ \E call \in OwnerCalls : Configure(a, call)
  PROVE  threshold' \in Nat \ {0} /\ dex' \in DexConfig
<1>1. ASSUME NEW amount \in ThresholdChoices, SetGraduationThreshold(a, amount)
      PROVE  threshold' \in Nat \ {0} /\ dex' \in DexConfig
  BY <1>1, FactoryAssumption DEF SetGraduationThreshold
<1>2. ASSUME NEW call \in OwnerCalls, Configure(a, call)
      PROVE  threshold' \in Nat \ {0} /\ dex' \in DexConfig
  BY <1>2 DEF Configure, DexConfig
<1>3. QED
  BY <1>1, <1>2

LEMMA AdminKeepsBooks ==
  ASSUME FactoryInv, AdminStep
  PROVE  BooksInv'
<1>1. ConfigTypes /\ TiersLimited
  BY InvParts DEF BooksInv
<1>2. UNCHANGED <<tokenVars, marketVars, ledgerVars, historyVars, pool, mintable, now>>
  BY DEF AdminStep
<1>3. /\ FeeTypeOK' /\ WhaleTypeOK' /\ TiersLimited'
      /\ threshold' \in Nat \ {0} /\ dex' \in DexConfig
  <2>1. CASE UNCHANGED <<feeVars, whaleVars, configVars>>
    BY <1>1, <2>1 DEF ConfigTypes, FeeTypeOK, WhaleTypeOK, TiersLimited, feeVars,
                      whaleVars, configVars
  <2>2. CASE (\E a \in Account : FeeAdminStep(a)) /\ UNCHANGED <<accessVars, whaleVars, configVars>>
    <3>1. FeeTypeOK'
      BY <1>1, <2>2, FeeAdminKeepsTypes DEF ConfigTypes
    <3>2. QED
      BY <1>1, <2>2, <3>1 DEF ConfigTypes, WhaleTypeOK, TiersLimited, whaleVars, configVars
  <2>3. CASE (\E a \in Account : WhaleAdminStep(a)) /\ UNCHANGED <<accessVars, feeVars, configVars>>
    <3>1. WhaleTypeOK' /\ TiersLimited'
      BY <1>1, <2>3, WhaleAdminKeepsTypes DEF ConfigTypes
    <3>2. QED
      BY <1>1, <2>3, <3>1 DEF ConfigTypes, FeeTypeOK, feeVars, configVars
  <2>4. CASE /\ \E a \in Account :
                  \/ \E amount \in ThresholdChoices : SetGraduationThreshold(a, amount)
                  \/ \E call \in OwnerCalls : Configure(a, call)
             /\ UNCHANGED <<accessVars, feeVars, whaleVars>>
    <3>1. threshold' \in Nat \ {0} /\ dex' \in DexConfig
      BY <1>1, <2>4, ConfigureKeepsTypes DEF ConfigTypes
    <3>2. QED
      BY <1>1, <2>4, <3>1 DEF ConfigTypes, FeeTypeOK, WhaleTypeOK, TiersLimited,
                              feeVars, whaleVars
  <2>5. QED
    BY <2>1, <2>2, <2>3, <2>4 DEF AdminStep
<1>4. ConfigTypes'
  BY <1>1, <1>2, <1>3 DEF ConfigTypes, tokenVars, historyVars
<1>5. UNCHANGED <<marketVars, ledgerVars, withdrawn, pool>>
  BY <1>2 DEF historyVars
<1>6. QED
  BY <1>3, <1>4, <1>5, ConfigurationOnly

-----------------------------------------------------------------------------
(* Every step keeps the invariant                                          *)

LEMMA FactoryStep ==
  ASSUME FactoryInv, [Next]_vars
  PROVE  FactoryInv'
<1>1. AccessTypeOK'
  <2>1. AccessTypeOK
    BY InvParts
  <2>2. [AccessNext]_accessVars
    BY StepAccess
  <2>3. QED
    BY <2>1, <2>2, AccessStepType
<1>2. FactoryInv' <=> (AccessTypeOK' /\ BooksInv')
  BY InvParts, PTL
<1> SUFFICES BooksInv'
  BY <1>1, <1>2
<1>3. ASSUME NEW admin \in FirstOwners, NEW treasury \in FirstTreasuries,
             Initialize(admin, treasury)
      PROVE  BooksInv'
  BY <1>3, InitializeKeepsBooks
<1>4. CASE TraderStep
  <2> SUFFICES ASSUME NEW a \in Account, NEW t \in Token, NEW deadline \in Deadlines,
                      NEW minOut \in MinOuts,
                      \/ \E gross \in BuyAmounts :
                           \/ Buy(a, t, gross, minOut, deadline)
                           \/ BuyAndGraduate(a, t, gross, minOut, deadline)
                           \/ BuyFailsToGraduate(a, t, gross, minOut, deadline)
                      \/ \E amount \in SellAmounts : Sell(a, t, amount, minOut, deadline)
               PROVE  BooksInv'
    BY <1>4 DEF TraderStep
  <2>1. ASSUME NEW gross \in BuyAmounts, Buy(a, t, gross, minOut, deadline)
        PROVE  BooksInv'
    BY <2>1, BuyKeepsBooks
  <2>2. ASSUME NEW gross \in BuyAmounts, BuyAndGraduate(a, t, gross, minOut, deadline)
        PROVE  BooksInv'
    BY <2>2, BuyAndGraduateKeepsBooks
  <2>3. ASSUME NEW gross \in BuyAmounts, BuyFailsToGraduate(a, t, gross, minOut, deadline)
        PROVE  BooksInv'
    BY <2>3, FailedGraduationKeepsBooks DEF BuyFailsToGraduate
  <2>4. ASSUME NEW amount \in SellAmounts, Sell(a, t, amount, minOut, deadline)
        PROVE  BooksInv'
    BY <2>4, SellKeepsBooks
  <2>5. QED
    BY <2>1, <2>2, <2>3, <2>4
<1>5. CASE IssuerStep
  <2>1. ASSUME NEW a \in Account, NEW t \in Token, NEW symbol \in Symbol,
               NEW kind \in Kinds, Launch(a, t, symbol, kind)
        PROVE  BooksInv'
    BY <2>1, LaunchKeepsBooks
  <2>2. ASSUME NEW t \in Token, MakeMintable(t)
        PROVE  BooksInv'
    BY <2>2, MakeMintableKeepsBooks
  <2>3. QED
    BY <1>5, <2>1, <2>2 DEF IssuerStep
<1>6. CASE HolderStep
  BY <1>6, TransferKeepsBooks DEF HolderStep
<1>7. CASE OwnerStep
  <2>1. ASSUME NEW a \in Account, NEW t \in Token, ManualGraduation(a, t)
        PROVE  BooksInv'
    BY <2>1, ManualGraduationKeepsBooks
  <2>2. ASSUME NEW a \in Account, NEW t \in Token, ManualGraduationFails(a, t)
        PROVE  BooksInv'
    BY <2>2, FailedGraduationKeepsBooks DEF ManualGraduationFails
  <2>3. ASSUME NEW a \in Account, NEW amount \in WithdrawAmounts, WithdrawFees(a, amount)
        PROVE  BooksInv'
    BY <2>3, WithdrawKeepsBooks
  <2>4. QED
    BY <1>7, <2>1, <2>2, <2>3 DEF OwnerStep
<1>8. CASE AdminStep
  BY <1>8, AdminKeepsBooks
<1>9. CASE Tick
  BY <1>9, TickKeepsBooks
<1>10. CASE UNCHANGED vars
  <2>1. ConfigTypes /\ TiersLimited
    BY InvParts DEF BooksInv
  <2>2. ConfigTypes' /\ TiersLimited'
    BY <1>10, <2>1 DEF vars, ConfigTypes, TiersLimited, FeeTypeOK, WhaleTypeOK, feeVars,
                      whaleVars, tokenVars, configVars, historyVars
  <2>3. UNCHANGED <<marketVars, ledgerVars, withdrawn, pool>>
    BY <1>10 DEF vars, historyVars
  <2>4. QED
    BY <2>2, <2>3, ConfigurationOnly
<1>11. QED
  BY <1>3, <1>4, <1>5, <1>6, <1>7, <1>8, <1>9, <1>10 DEF Next

(* The inductive invariant holds in every state the factory can reach,     *)
(* whatever calls its users and admins make, and in whatever order.        *)
THEOREM FactoryInvariant == Spec => []FactoryInv
<1>1. FactoryInv /\ [Next]_vars => FactoryInv'
  BY FactoryStep
<1>2. QED
  BY FactoryInit, <1>1, PTL DEF Spec

(* Every variable keeps its type: no reserve, lock, balance or counter is  *)
(* ever driven below zero, and no stored status is a graduation under way. *)
THEOREM FactoryTypeCorrect == Spec => []TypeOK
<1>1. FactoryInv => TypeOK
  BY DEF FactoryInv
<1>2. QED
  BY <1>1, FactoryInvariant, PTL

(* Reserves, supply and lock of every token agree after any calls, so the  *)
(* price the curve quotes is backed by XLM that is counted as locked.      *)
THEOREM CurvesStayConsistent == Spec => []CurvesConsistent
<1>1. FactoryInv => CurvesConsistent
  BY DEF FactoryInv
<1>2. QED
  BY <1>1, FactoryInvariant, PTL

(* The global counter that withdraw_fees consults is the sum of the locks  *)
(* of all tokens: its saturating subtraction never loses a unit.           *)
THEOREM LockedTotalIsSum == Spec => []LockedTotal
<1>1. FactoryInv => LockedTotal
  BY DEF FactoryInv
<1>2. QED
  BY <1>1, FactoryInvariant, PTL

(* The factory's XLM covers what it owes sellers and graduations over all  *)
(* tokens, up to what withdraw_fees took out of it.                        *)
THEOREM FactoryIsBacked == Spec => []Backing
<1>1. FactoryInv => Backing
  BY DEF FactoryInv
<1>2. QED
  BY <1>1, FactoryInvariant, PTL

-----------------------------------------------------------------------------
(* What a step may never do                                                *)

(* Only a launch, a trade or a graduation of a token writes its books, and *)
(* each of them finds it unlaunched or on the curve.                       *)
LEMMA GraduatedUntouched ==
  ASSUME TypeOK, [Next]_vars, NEW t \in Token, status[t] = "Graduated"
  PROVE  /\ status'[t] = "Graduated" /\ curve'[t] = curve[t] /\ raised'[t] = raised[t]
         /\ locked'[t] = locked[t] /\ pool'[t] = pool[t]
<1> DEFINE Untouched == /\ status'[t] = "Graduated" /\ curve'[t] = curve[t]
                        /\ raised'[t] = raised[t]
                        /\ locked'[t] = locked[t] /\ pool'[t] = pool[t]
<1>1. /\ DOMAIN status = Token /\ DOMAIN curve = Token /\ DOMAIN raised = Token
      /\ DOMAIN locked = Token /\ DOMAIN pool = Token
  BY DEF TypeOK
<1>2. ASSUME UNCHANGED <<marketVars, pool>>
      PROVE  Untouched
  BY <1>2 DEF marketVars
<1>3. ASSUME NEW a \in Account, NEW u \in Token, NEW gross \in BuyAmounts,
             NEW minOut, NEW deadline,
             Buy(a, u, gross, minOut, deadline) \/ BuyAndGraduate(a, u, gross, minOut, deadline)
      PROVE  Untouched
  <2>1. u # t
    BY <1>3 DEF Buy, BuyAndGraduate, CanExecuteBuy, Tradable
  <2>2. /\ status' = status \/ \E s : status' = [status EXCEPT ![u] = s]
        /\ \E c : curve' = [curve EXCEPT ![u] = c]
        /\ \E r : raised' = [raised EXCEPT ![u] = r]
        /\ \E l : locked' = [locked EXCEPT ![u] = l]
        /\ pool' = pool \/ \E x : pool' = [pool EXCEPT ![u] = x]
    BY <1>3 DEF Buy, BuyAndGraduate, ExecuteBuy, GraduateBooks
  <2>3. QED
    BY <1>1, <2>1, <2>2
<1>4. ASSUME NEW a \in Account, NEW u \in Token, NEW amount \in SellAmounts,
             NEW minOut, NEW deadline, Sell(a, u, amount, minOut, deadline)
      PROVE  Untouched
  <2>1. u # t
    BY <1>4 DEF Sell, Tradable
  <2>2. /\ status' = status /\ pool' = pool
        /\ \E c : curve' = [curve EXCEPT ![u] = c]
        /\ \E r : raised' = [raised EXCEPT ![u] = r]
        /\ \E l : locked' = [locked EXCEPT ![u] = l]
    BY <1>4 DEF Sell
  <2>3. QED
    BY <1>1, <2>1, <2>2
<1>5. ASSUME NEW a \in Account, NEW u \in Token, NEW symbol \in Symbol, NEW kind \in Kinds,
             Launch(a, u, symbol, kind)
      PROVE  Untouched
  BY <1>1, <1>5 DEF Launch
<1>6. ASSUME NEW a \in Account, NEW u \in Token, ManualGraduation(a, u)
      PROVE  Untouched
  BY <1>1, <1>6 DEF ManualGraduation, MayGraduateManually, GraduateBooks
<1>7. CASE TraderStep
  BY <1>2, <1>3, <1>4, <1>7 DEF TraderStep, BuyFailsToGraduate
<1>8. CASE IssuerStep
  BY <1>2, <1>5, <1>8 DEF IssuerStep, MakeMintable
<1>9. CASE OwnerStep
  BY <1>2, <1>6, <1>9 DEF OwnerStep, ManualGraduationFails, WithdrawFees
<1>10. CASE HolderStep \/ AdminStep \/ Tick \/ UNCHANGED vars
           \/ \E admin \in FirstOwners, treasury \in FirstTreasuries : Initialize(admin, treasury)
  BY <1>2, <1>10 DEF HolderStep, Transfer, AdminStep, Tick, vars, Initialize
<1>11. QED
  BY <1>7, <1>8, <1>9, <1>10 DEF Next

(* A graduated token stays graduated, and no call trades it on the curve,  *)
(* counts its XLM or pays its pool again.                                  *)
THEOREM GraduatedTokensAreFinal == Spec => GraduationIsFinal
<1>1. FactoryInv /\ [Next]_vars =>
        [\A t \in Token :
           status[t] = "Graduated" =>
             /\ status'[t] = "Graduated"
             /\ <<curve[t], raised[t], locked[t], pool[t]>>'
                  = <<curve[t], raised[t], locked[t], pool[t]>>]_vars
  BY GraduatedUntouched DEF FactoryInv
<1>2. QED
  BY <1>1, FactoryInvariant, PTL DEF Spec, GraduationIsFinal

(* While the contract is not active only calls of the owner, of a holder   *)
(* or of the token's issuer succeed, and none of them writes a curve.      *)
THEOREM PausedMarketsStandStill == Spec => PauseStopsTrading
<1>1. FactoryInv /\ [Next]_vars =>
        [contractState # "Active" => curve' = curve /\ raised' = raised]_vars
  <2> SUFFICES ASSUME [Next]_vars, contractState # "Active"
               PROVE  curve' = curve /\ raised' = raised
    OBVIOUS
  <2>1. CASE TraderStep
    BY <2>1 DEF TraderStep, Buy, BuyAndGraduate, BuyFailsToGraduate, Sell, CanExecuteBuy,
                Active, marketVars
  <2>2. CASE IssuerStep
    BY <2>2 DEF IssuerStep, Launch, MakeMintable, Active, marketVars
  <2>3. CASE OwnerStep
    BY <2>3 DEF OwnerStep, ManualGraduation, ManualGraduationFails, WithdrawFees, marketVars
  <2>4. CASE HolderStep \/ AdminStep \/ Tick \/ UNCHANGED vars
           \/ \E admin \in FirstOwners, treasury \in FirstTreasuries : Initialize(admin, treasury)
    BY <2>4 DEF HolderStep, Transfer, AdminStep, Tick, vars, Initialize, marketVars
  <2>5. QED
    BY <2>1, <2>2, <2>3, <2>4 DEF Next
<1>2. QED
  BY <1>1, FactoryInvariant, PTL DEF Spec, PauseStopsTrading

(* What a step does to the two things a graduation depends on.             *)
LEMMA RaisedOnlyBelowThreshold ==
  ASSUME FactoryInv, [Next]_vars, NEW t \in Token,
         status'[t] = "Bonding", raised'[t] >= threshold'
  PROVE  raised[t] >= threshold'
<1>1. /\ status \in [Token -> {"Unlaunched", "Bonding", "Graduated"}]
      /\ raised \in [Token -> Nat] /\ threshold \in Nat
  BY InvParts DEF BooksInv, BookTypes, ConfigTypes
<1>2. CASE UNCHANGED raised
  BY <1>2
<1>3. ASSUME NEW a \in Account, NEW u \in Token, NEW gross \in BuyAmounts,
             NEW minOut, NEW deadline, Buy(a, u, gross, minOut, deadline)
      PROVE  raised[t] >= threshold'
  <2>1. /\ raised' = [raised EXCEPT ![u] = @ + gross] /\ threshold' = threshold
        /\ ~ (raised[u] + gross >= threshold)
    BY <1>3 DEF Buy, ExecuteBuy, ReachesThreshold, configVars
  <2>2. QED
    BY <1>1, <2>1
<1>4. ASSUME NEW a \in Account, NEW u \in Token, NEW gross \in BuyAmounts,
             NEW minOut, NEW deadline, BuyAndGraduate(a, u, gross, minOut, deadline)
      PROVE  raised[t] >= threshold'
  <2>1. /\ raised' = [raised EXCEPT ![u] = @ + gross]
        /\ status' = [status EXCEPT ![u] = "Graduated"]
    BY <1>4 DEF BuyAndGraduate, ExecuteBuy, GraduateBooks
  <2>2. t # u
    BY <1>1, <2>1
  <2>3. QED
    BY <1>1, <2>1, <2>2
<1>5. ASSUME NEW a \in Account, NEW u \in Token, NEW amount \in SellAmounts,
             NEW minOut, NEW deadline, Sell(a, u, amount, minOut, deadline)
      PROVE  raised[t] >= threshold'
  <2> DEFINE back == SellFees(u, amount).gross
  <2>1. /\ raised' = [raised EXCEPT ![u] = @ - back] /\ threshold' = threshold
        /\ CanTradeFor(back)
    BY <1>5 DEF Sell, configVars
  <2>2. back \in Int
    <3>1. SellFees(u, amount).gross = CalculateSell(curve[u], amount)
      BY DEF SellFees, FeeBreakdown
    <3>2. SoundCurve(curve[u], BONDING_CURVE_SUPPLY) /\ amount \in Nat \ {0}
      BY TokenFacts, FactoryAssumption
    <3>3. curve[u].tokens_remaining \in Nat
      BY <3>2 DEF SoundCurve, Curve
    <3>4. CalculateSell(curve[u], amount) \in Int
      BY <3>2, <3>3, QuotesAreIntegers
    <3>5. QED
      BY <3>1, <3>4
  <2>3. back >= 0
    BY <2>1, <2>2, FeeAssumption DEF CanTradeFor
  <2> HIDE DEF back
  <2>4. QED
    BY <1>1, <2>1, <2>2, <2>3
<1>6. CASE TraderStep
  BY <1>2, <1>3, <1>4, <1>5, <1>6 DEF TraderStep, BuyFailsToGraduate, marketVars
<1>7. CASE IssuerStep
  BY <1>2, <1>7 DEF IssuerStep, Launch, MakeMintable, marketVars
<1>8. CASE OwnerStep
  BY <1>2, <1>8 DEF OwnerStep, ManualGraduation, ManualGraduationFails, WithdrawFees, marketVars
<1>9. CASE HolderStep \/ AdminStep \/ Tick \/ UNCHANGED vars
           \/ \E admin \in FirstOwners, treasury \in FirstTreasuries : Initialize(admin, treasury)
  BY <1>2, <1>9 DEF HolderStep, Transfer, AdminStep, Tick, vars, Initialize, marketVars
<1>10. QED
  BY <1>6, <1>7, <1>8, <1>9 DEF Next

(* No buy leaves a token on the curve at or above the threshold: only a    *)
(* lowered threshold does.                                                 *)
THEOREM BuysNeverSkipGraduation == Spec => NoGraduationSkipped
<1>1. FactoryInv /\ [Next]_vars =>
        [\A t \in Token :
           status'[t] = "Bonding" /\ raised'[t] >= threshold' =>
             raised[t] >= threshold']_vars
  BY RaisedOnlyBelowThreshold
<1>2. QED
  BY <1>1, FactoryInvariant, PTL DEF Spec, NoGraduationSkipped

(* The symbol of every launched token is marked used. *)
SymbolsMarked ==
  \A t \in Token : status[t] # "Unlaunched" => symbolOf[t] \in usedSymbols

LEMMA LaunchedBefore ==
  ASSUME FactoryInv, [Next]_vars,
         ~ \E a \in Account, t \in Token, symbol \in Symbol, kind \in Kinds :
             Launch(a, t, symbol, kind)
  PROVE  /\ symbolOf' = symbolOf /\ usedSymbols' = usedSymbols
         /\ \A t \in Token : status'[t] # "Unlaunched" => status[t] # "Unlaunched"
<1>1. status \in [Token -> {"Unlaunched", "Bonding", "Graduated"}]
  BY InvParts DEF BooksInv, BookTypes
<1>2. CASE TraderStep
  <2>1. UNCHANGED tokenVars
    BY <1>2 DEF TraderStep, Buy, BuyAndGraduate, BuyFailsToGraduate, Sell, ExecuteBuy
  <2>2. \/ status' = status
        \/ \E u \in Token : status[u] = "Bonding" /\ status' = [status EXCEPT ![u] = "Graduated"]
    BY <1>2 DEF TraderStep, Buy, BuyAndGraduate, BuyFailsToGraduate, Sell, GraduateBooks,
                CanGraduate, marketVars
  <2>3. QED
    BY <1>1, <2>1, <2>2 DEF tokenVars
<1>3. CASE OwnerStep
  <2>1. UNCHANGED tokenVars
    BY <1>3 DEF OwnerStep, ManualGraduation, ManualGraduationFails, WithdrawFees
  <2>2. \/ status' = status
        \/ \E u \in Token : status[u] = "Bonding" /\ status' = [status EXCEPT ![u] = "Graduated"]
    BY <1>3 DEF OwnerStep, ManualGraduation, ManualGraduationFails, WithdrawFees, GraduateBooks,
                CanGraduate, marketVars
  <2>3. QED
    BY <1>1, <2>1, <2>2 DEF tokenVars
<1>4. CASE IssuerStep
  BY <1>4 DEF IssuerStep, MakeMintable, tokenVars, marketVars
<1>5. CASE HolderStep \/ AdminStep \/ Tick \/ UNCHANGED vars
           \/ \E admin \in FirstOwners, treasury \in FirstTreasuries : Initialize(admin, treasury)
  BY <1>5 DEF HolderStep, Transfer, AdminStep, Tick, vars, Initialize, tokenVars, marketVars
<1>6. QED
  BY <1>2, <1>3, <1>4, <1>5 DEF Next

(* No two launched tokens share a symbol, in whatever order they are       *)
(* launched, traded and graduated.                                         *)
THEOREM LaunchedSymbolsUnique == Spec => []SymbolsUnique
<1> DEFINE SymbolInv == SymbolsMarked /\ SymbolsUnique
<1>1. Init => SymbolInv
  BY DEF Init, SymbolsMarked, SymbolsUnique
<1>2. FactoryInv /\ SymbolInv /\ [Next]_vars => SymbolInv'
  <2> SUFFICES ASSUME FactoryInv, SymbolsMarked, SymbolsUnique, [Next]_vars
               PROVE  SymbolsMarked' /\ SymbolsUnique'
    OBVIOUS
  <2>1. ASSUME NEW a \in Account, NEW t \in Token, NEW symbol \in Symbol, NEW kind \in Kinds,
               Launch(a, t, symbol, kind)
        PROVE  SymbolsMarked' /\ SymbolsUnique'
    <3>1. /\ status \in [Token -> {"Unlaunched", "Bonding", "Graduated"}]
          /\ symbolOf \in [Token -> Symbol \cup {NoSymbol}]
      BY InvParts DEF BooksInv, BookTypes, ConfigTypes
    <3>2. /\ status' = [status EXCEPT ![t] = "Bonding"] /\ symbol \notin usedSymbols
          /\ symbolOf' = [symbolOf EXCEPT ![t] = symbol]
          /\ usedSymbols' = usedSymbols \cup {symbol}
      BY <2>1 DEF Launch, SymbolsAfterLaunch
    <3>3. SymbolsMarked'
      BY <3>1, <3>2 DEF SymbolsMarked
    <3>4. SymbolsUnique'
      BY <3>1, <3>2 DEF SymbolsMarked, SymbolsUnique
    <3>5. QED
      BY <3>3, <3>4
  <2>2. CASE ~ \E a \in Account, t \in Token, symbol \in Symbol, kind \in Kinds :
                 Launch(a, t, symbol, kind)
    BY <2>2, LaunchedBefore DEF SymbolsMarked, SymbolsUnique
  <2>3. QED
    BY <2>1, <2>2
<1>3. SymbolInv => SymbolsUnique
  OBVIOUS
<1>4. QED
  BY <1>1, <1>2, <1>3, FactoryInvariant, PTL DEF Spec

-----------------------------------------------------------------------------
(* The tokens in accounts                                                  *)

(* Minting adds to what accounts hold if it is to an account, and never    *)
(* takes anything away; the factory and the DEX are no accounts.           *)
LEMMA MintSum ==
  ASSUME NEW b \in [Holder -> Nat], NEW to \in Holder, NEW amount \in Nat
  PROVE  LET after == SumFunctionOnSet(Mint(b, to, amount), Account)
             before == SumFunctionOnSet(b, Account)
         IN /\ before \in Nat /\ after \in Nat
            /\ after = IF to \in Account THEN before + amount ELSE before
<1> DEFINE m == Mint(b, to, amount)
<1>1. IsFiniteSet(Account) /\ Account \subseteq Holder
  BY FactoryAssumption DEF Holder
<1>2. /\ m \in [Holder -> Nat] /\ m[to] = b[to] + amount
      /\ \A h \in Holder : h # to => m[h] = b[h]
  BY DEF Mint
<1> HIDE DEF m
<1>3. /\ \A h \in Account : b[h] \in Int /\ b[h] >= 0 /\ m[h] \in Int /\ m[h] >= 0
      /\ b[to] \in Nat
  BY <1>1, <1>2
<1>4. SumFunctionOnSet(b, Account) \in Nat /\ SumFunctionOnSet(m, Account) \in Nat
  BY <1>1, <1>3, SumNonNegative
<1>5. CASE to \in Account
  <2>1. SumFunctionOnSet(m, Account) = SumFunctionOnSet(b, Account) - b[to] + m[to]
    BY <1>1, <1>2, <1>3, <1>5, SumDiffersAtOnePoint
  <2>2. QED
    BY <1>2, <1>3, <1>4, <1>5, <2>1 DEF m
<1>6. CASE to \notin Account
  <2>1. SumFunctionOnSet(m, Account) = SumFunctionOnSet(b, Account)
    <3>1. \A h \in Account : m[h] = b[h]
      BY <1>1, <1>2, <1>6
    <3>2. QED
      BY <1>1, <1>3, <3>1, SumCongruence
  <2>2. QED
    BY <1>4, <1>6, <2>1 DEF m
<1>7. QED
  BY <1>5, <1>6

(* A buy puts at least what the curve sold into accounts: the protocol's   *)
(* fee, minted to the treasury, comes on top.                              *)
LEMMA BuySum ==
  ASSUME FactoryInv, NEW buyer \in Account, NEW t \in Token, NEW gross,
         TokensOut(buyer, t, gross) \in Nat, BuyFees(buyer, t, gross).protocol \in Nat
  PROVE  /\ SumFunctionOnSet(bal[t], Account) \in Nat
         /\ SumFunctionOnSet(BalancesAfterBuy(buyer, t, gross), Account)
              >= SumFunctionOnSet(bal[t], Account) + TokensOut(buyer, t, gross)
<1> DEFINE out == TokensOut(buyer, t, gross)
           fee == BuyFees(buyer, t, gross).protocol
           once == Mint(bal[t], buyer, out)
<1>1. bal[t] \in [Holder -> Nat] /\ buyer \in Holder /\ feeConfig.treasury \in Holder
  BY DEF FactoryInv, TypeOK, FeeTypeOK, FeeConfig, Holder
<1>2. BalancesAfterBuy(buyer, t, gross) = Mint(once, feeConfig.treasury, fee)
  BY DEF BalancesAfterBuy
<1>3. out \in Nat /\ fee \in Nat
  OBVIOUS
<1> HIDE DEF out, fee
<1>4. once \in [Holder -> Nat]
  BY <1>1, <1>3, MintFacts
<1>5. /\ SumFunctionOnSet(bal[t], Account) \in Nat
      /\ SumFunctionOnSet(once, Account) = SumFunctionOnSet(bal[t], Account) + out
  BY <1>1, <1>3, MintSum
<1> HIDE DEF once
<1>6. SumFunctionOnSet(Mint(once, feeConfig.treasury, fee), Account)
        >= SumFunctionOnSet(once, Account)
  BY <1>1, <1>3, <1>4, MintSum
<1>7. SumFunctionOnSet(Mint(once, feeConfig.treasury, fee), Account) \in Nat
  BY <1>1, <1>3, <1>4, MintSum
<1>8. QED
  BY <1>2, <1>3, <1>5, <1>6, <1>7 DEF out

(* A transfer between accounts moves tokens and makes none.                *)
LEMMA MoveSum ==
  ASSUME NEW b \in [Holder -> Nat], NEW from \in Account, NEW to \in Account,
         from # to, NEW amount \in Nat, amount <= b[from]
  PROVE  /\ SumFunctionOnSet(b, Account) \in Nat
         /\ SumFunctionOnSet(Move(b, from, to, amount), Account) = SumFunctionOnSet(b, Account)
<1> DEFINE paid == [b EXCEPT ![from] = @ - amount]
<1>1. IsFiniteSet(Account) /\ Account \subseteq Holder
  BY FactoryAssumption DEF Holder
<1>2. b[from] \in Nat /\ b[from] - amount \in Nat
  BY <1>1
<1>3. /\ paid \in [Holder -> Nat] /\ paid[from] = b[from] - amount
      /\ \A h \in Holder : h # from => paid[h] = b[h]
  BY <1>1, <1>2
<1>4. Move(b, from, to, amount) = Mint(paid, to, amount)
  BY DEF Move, Mint
<1> HIDE DEF paid
<1>5. \A h \in Account : b[h] \in Int /\ b[h] >= 0 /\ paid[h] \in Int
  BY <1>1, <1>3
<1>6. SumFunctionOnSet(b, Account) \in Nat
  BY <1>1, <1>5, SumNonNegative
<1>7. SumFunctionOnSet(paid, Account) = SumFunctionOnSet(b, Account) - b[from] + paid[from]
  BY <1>1, <1>3, <1>5, SumDiffersAtOnePoint
<1>8. SumFunctionOnSet(Mint(paid, to, amount), Account) = SumFunctionOnSet(paid, Account) + amount
  BY <1>1, <1>3, MintSum
<1>9. QED
  BY <1>2, <1>3, <1>4, <1>6, <1>7, <1>8

(* A sale takes from an account exactly what leaves the count of sold.     *)
LEMMA BurnSum ==
  ASSUME NEW b \in [Holder -> Nat], NEW from \in Account, NEW amount \in Nat, amount <= b[from]
  PROVE  /\ SumFunctionOnSet(b, Account) \in Nat
         /\ SumFunctionOnSet([b EXCEPT ![from] = @ - amount], Account)
              = SumFunctionOnSet(b, Account) - amount
<1> DEFINE paid == [b EXCEPT ![from] = @ - amount]
<1>1. IsFiniteSet(Account) /\ Account \subseteq Holder
  BY FactoryAssumption DEF Holder
<1>2. b[from] \in Nat /\ b[from] - amount \in Nat
  BY <1>1
<1>3. /\ paid \in [Holder -> Nat] /\ paid[from] = b[from] - amount
      /\ \A h \in Holder : h # from => paid[h] = b[h]
  BY <1>1, <1>2
<1> HIDE DEF paid
<1>4. \A h \in Account : b[h] \in Int /\ b[h] >= 0 /\ paid[h] \in Int
  BY <1>1, <1>3
<1>5. SumFunctionOnSet(b, Account) \in Nat
  BY <1>1, <1>4, SumNonNegative
<1>6. SumFunctionOnSet(paid, Account) = SumFunctionOnSet(b, Account) - b[from] + paid[from]
  BY <1>1, <1>3, <1>4, SumDiffersAtOnePoint
<1>7. QED
  BY <1>2, <1>3, <1>5, <1>6 DEF paid

(* What one token's holders have and what its curve counts as sold.        *)
Covered(t) == SumFunctionOnSet(bal[t], Account) >= curve[t].tokens_sold

LEMMA SoldCount ==
  ASSUME FactoryInv, NEW t \in Token
  PROVE  /\ curve[t].tokens_sold \in Nat /\ curve[t].tokens_remaining \in Nat
         /\ curve[t].tokens_sold + curve[t].tokens_remaining = BONDING_CURVE_SUPPLY
         /\ bal[t] \in [Holder -> Nat]
         /\ SumFunctionOnSet(bal[t], Account) \in Nat
<1>1. SoundCurve(curve[t], BONDING_CURVE_SUPPLY) /\ bal[t] \in [Holder -> Nat]
  BY TokenFacts DEF FactoryInv, TypeOK
<1>2. IsFiniteSet(Account) /\ \A h \in Account : bal[t][h] \in Int /\ bal[t][h] >= 0
  BY <1>1, FactoryAssumption DEF Holder
<1>3. SumFunctionOnSet(bal[t], Account) \in Nat
  BY <1>2, SumNonNegative
<1>4. QED
  BY <1>1, <1>3 DEF SoundCurve, Curve

(* A buy, graduating or not, keeps the tokens sold in accounts.            *)
LEMMA BuyKeepsCovered ==
  ASSUME FactoryInv, FactoryInv', SoldTokensExist, NEW buyer \in Account, NEW t \in Token,
         NEW gross \in BuyAmounts, NEW minTokens, NEW deadline,
         \/ Buy(buyer, t, gross, minTokens, deadline)
         \/ BuyAndGraduate(buyer, t, gross, minTokens, deadline)
  PROVE  SoldTokensExist'
<1> DEFINE out == TokensOut(buyer, t, gross)
           fee == BuyFees(buyer, t, gross).protocol
           balances == BalancesAfterBuy(buyer, t, gross)
           total == raised[t] + gross
           remaining == curve[t].tokens_remaining - out
<1>1. gross \in Nat
  BY FactoryAssumption
<1>2. CanExecuteBuy(buyer, t, gross, minTokens, deadline) /\ ExecuteBuy(buyer, t, gross)
  BY DEF Buy, BuyAndGraduate
<1>3. /\ out \in Nat /\ fee \in Nat
      /\ \A u \in Token \ {t} : curve'[u] = curve[u]
      /\ curve'[t].tokens_remaining = remaining
      /\ SoundCurve(curve'[t], BONDING_CURVE_SUPPLY)
  BY <1>1, <1>2, BuyFacts
<1>4. balances \in [Holder -> Nat]
  BY <1>3, BuyBalances
<1>5. /\ SumFunctionOnSet(bal[t], Account) \in Nat
      /\ SumFunctionOnSet(balances, Account) >= SumFunctionOnSet(bal[t], Account) + out
  BY <1>3, BuySum
<1>6. \E minted \in Nat : bal' = [bal EXCEPT ![t] = Mint(balances, DEX, minted)]
  <2>1. CASE Buy(buyer, t, gross, minTokens, deadline)
    <3>1. bal' = [bal EXCEPT ![t] = balances]
      BY <2>1 DEF Buy
    <3>2. Mint(balances, DEX, 0) = balances
      <4> HIDE DEF balances
      <4>1. DEX \in Holder /\ balances[DEX] + 0 = balances[DEX]
        BY <1>4 DEF Holder
      <4>2. QED
        BY <1>4, <4>1 DEF Mint
    <3>3. QED
      BY <3>1, <3>2
  <2>2. CASE BuyAndGraduate(buyer, t, gross, minTokens, deadline)
    <3>1. bal' = [bal EXCEPT ![t] = Mint(balances, DEX, TokensOutlaid(total, remaining))]
      BY <2>2 DEF BuyAndGraduate
    <3>2. total \in Nat /\ remaining \in Nat
      BY <1>1, <1>3, TokenFacts DEF SoundCurve, Curve
    <3>3. TokensOutlaid(total, remaining) \in Nat
      BY <3>2, PayoutFacts
    <3>4. QED
      BY <3>1, <3>3
  <2>3. QED
    BY <2>1, <2>2
<1>7. PICK minted \in Nat : bal' = [bal EXCEPT ![t] = Mint(balances, DEX, minted)]
  BY <1>6
<1>8. bal \in [Token -> [Holder -> Nat]]
  BY DEF FactoryInv, TypeOK
<1> HIDE DEF out, fee, balances, total, remaining
<1>9. SumFunctionOnSet(Mint(balances, DEX, minted), Account) = SumFunctionOnSet(balances, Account)
  <2>1. DEX \in Holder /\ DEX \notin Account
    BY FactoryAssumption DEF Holder
  <2>2. QED
    BY <1>4, <2>1, MintSum
<1>10. curve'[t].tokens_sold = curve[t].tokens_sold + out
  <2>1. /\ curve[t].tokens_sold \in Nat /\ curve[t].tokens_remaining \in Nat
        /\ curve[t].tokens_sold + curve[t].tokens_remaining = BONDING_CURVE_SUPPLY
    BY SoldCount
  <2>2. /\ curve'[t].tokens_sold \in Nat
        /\ curve'[t].tokens_sold + curve'[t].tokens_remaining = BONDING_CURVE_SUPPLY
    BY <1>3 DEF SoundCurve, Curve
  <2>3. QED
    BY <1>3, <2>1, <2>2 DEF remaining
<1>11. Covered(t)'
  <2>1. bal'[t] = Mint(balances, DEX, minted)
    BY <1>7, <1>8
  <2>2. curve[t].tokens_sold \in Nat /\ Covered(t)
    BY SoldCount DEF SoldTokensExist, Covered
  <2>3. SumFunctionOnSet(balances, Account) \in Nat
    <3>1. DEX \in Holder
      BY DEF Holder
    <3>2. QED
      BY <1>4, <3>1, MintSum
  <2>4. SumFunctionOnSet(bal'[t], Account) >= curve'[t].tokens_sold
    BY <1>3, <1>5, <1>9, <1>10, <2>1, <2>2, <2>3 DEF Covered
  <2>5. QED
    BY <2>4 DEF Covered
<1>12. \A u \in Token \ {t} : Covered(u)'
  <2>1. \A u \in Token \ {t} : bal'[u] = bal[u] /\ curve'[u] = curve[u]
    BY <1>3, <1>7, <1>8
  <2>2. QED
    BY <2>1 DEF SoldTokensExist, Covered
<1>13. QED
  BY <1>11, <1>12 DEF SoldTokensExist, Covered

LEMMA SellKeepsCovered ==
  ASSUME FactoryInv, FactoryInv', SoldTokensExist, NEW seller \in Account, NEW t \in Token,
         NEW amount \in SellAmounts, NEW minXlm, NEW deadline,
         Sell(seller, t, amount, minXlm, deadline)
  PROVE  SoldTokensExist'
<1> DEFINE fees == SellFees(t, amount)
<1>1. amount \in Nat /\ amount <= bal[t][seller]
  BY FactoryAssumption DEF Sell
<1>2. /\ curve' = [curve EXCEPT ![t] = ExecuteSellWithLpFee(@, fees.gross, amount, fees.lp)]
      /\ bal' = [bal EXCEPT ![t][seller] = @ - amount]
  BY DEF Sell
<1>3. /\ bal \in [Token -> [Holder -> Nat]] /\ curve \in [Token -> Curve]
  BY DEF FactoryInv, TypeOK
<1>4. /\ curve'[t] = ExecuteSellWithLpFee(curve[t], fees.gross, amount, fees.lp)
      /\ \A u \in Token \ {t} : curve'[u] = curve[u] /\ bal'[u] = bal[u]
      /\ bal'[t] = [bal[t] EXCEPT ![seller] = @ - amount]
  BY <1>2, <1>3
<1> HIDE DEF fees
<1>5. curve'[t].tokens_sold = curve[t].tokens_sold - amount
  <2>1. curve[t] \in Curve
    BY <1>3
  <2>2. QED
    BY <1>4, <2>1 DEF ExecuteSellWithLpFee, Curve
<1>6. /\ curve[t].tokens_sold \in Nat /\ Covered(t)
  BY SoldCount DEF SoldTokensExist, Covered
<1>7. /\ SumFunctionOnSet(bal[t], Account) \in Nat
      /\ SumFunctionOnSet(bal'[t], Account) = SumFunctionOnSet(bal[t], Account) - amount
  BY <1>1, <1>3, <1>4, BurnSum
<1>8. Covered(t)'
  BY <1>1, <1>5, <1>6, <1>7 DEF Covered
<1>9. QED
  BY <1>4, <1>8 DEF SoldTokensExist, Covered

(* A step that writes neither balances nor curves.                         *)
LEMMA UntouchedCovered ==
  ASSUME SoldTokensExist, UNCHANGED <<curve, bal>>
  PROVE  SoldTokensExist'
  BY DEF SoldTokensExist

LEMMA SoldTokensStep ==
  ASSUME FactoryInv, FactoryInv', SoldTokensExist, [Next]_vars
  PROVE  SoldTokensExist'
<1>1. CASE TraderStep
  <2>1. ASSUME NEW a \in Account, NEW t \in Token, NEW gross \in BuyAmounts,
               NEW minOut, NEW deadline, BuyFailsToGraduate(a, t, gross, minOut, deadline)
        PROVE  SoldTokensExist'
    BY <2>1, UntouchedCovered DEF BuyFailsToGraduate, marketVars, ledgerVars
  <2>2. QED
    BY <1>1, <2>1, BuyKeepsCovered, SellKeepsCovered DEF TraderStep
<1>2. ASSUME NEW a \in Account, NEW t \in Token, NEW symbol \in Symbol, NEW kind \in Kinds,
             Launch(a, t, symbol, kind)
      PROVE  SoldTokensExist'
  <2>1. /\ bal' = bal /\ curve' = [curve EXCEPT ![t] = NewCurve(BONDING_CURVE_SUPPLY)]
        /\ curve \in [Token -> Curve]
    BY <1>2 DEF Launch, FactoryInv, TypeOK
  <2>2. /\ curve'[t].tokens_sold = 0 /\ \A u \in Token \ {t} : curve'[u] = curve[u]
    BY <2>1 DEF NewCurve
  <2>3. SumFunctionOnSet(bal[t], Account) \in Nat
    BY SoldCount
  <2>4. QED
    BY <2>1, <2>2, <2>3 DEF SoldTokensExist
<1>3. ASSUME NEW t \in Token, MakeMintable(t)
      PROVE  SoldTokensExist'
  BY <1>3, UntouchedCovered DEF MakeMintable, marketVars, ledgerVars
<1>4. ASSUME NEW t \in Token, NEW from \in Account, NEW to \in Account,
             NEW amount \in TransferAmounts, Transfer(t, from, to, amount)
      PROVE  SoldTokensExist'
  <2>1. /\ from # to /\ amount <= bal[t][from] /\ amount \in Nat
        /\ bal' = [bal EXCEPT ![t] = Move(@, from, to, amount)]
        /\ curve' = curve
    BY <1>4, FactoryAssumption DEF Transfer, marketVars
  <2>2. bal \in [Token -> [Holder -> Nat]]
    BY DEF FactoryInv, TypeOK
  <2>3. /\ bal'[t] = Move(bal[t], from, to, amount)
        /\ \A u \in Token \ {t} : bal'[u] = bal[u]
    BY <2>1, <2>2
  <2>4. SumFunctionOnSet(bal'[t], Account) = SumFunctionOnSet(bal[t], Account)
    BY <2>1, <2>2, <2>3, MoveSum
  <2>5. QED
    BY <2>1, <2>3, <2>4 DEF SoldTokensExist
<1>5. ASSUME NEW a \in Account, NEW t \in Token, ManualGraduation(a, t)
      PROVE  SoldTokensExist'
  <2>1. PICK minted \in Nat : bal' = [bal EXCEPT ![t] = Mint(@, DEX, minted)]
    <3>1. bal' = [bal EXCEPT ![t] =
                    Mint(@, DEX, TokensOutlaid(raised[t], curve[t].tokens_remaining))]
      BY <1>5 DEF ManualGraduation
    <3>2. TokensOutlaid(raised[t], curve[t].tokens_remaining) \in Nat
      BY TokenFacts, SoldCount, PayoutFacts
    <3>3. QED
      BY <3>1, <3>2
  <2>2. curve' = curve
    BY <1>5 DEF ManualGraduation
  <2>3. bal \in [Token -> [Holder -> Nat]] /\ DEX \in Holder /\ DEX \notin Account
    BY FactoryAssumption DEF FactoryInv, TypeOK, Holder
  <2>4. /\ bal'[t] = Mint(bal[t], DEX, minted)
        /\ \A u \in Token \ {t} : bal'[u] = bal[u]
    BY <2>1, <2>3
  <2>5. SumFunctionOnSet(bal'[t], Account) = SumFunctionOnSet(bal[t], Account)
    BY <2>3, <2>4, MintSum
  <2>6. QED
    BY <2>2, <2>4, <2>5 DEF SoldTokensExist
<1>6. CASE OwnerStep
  BY <1>5, <1>6, UntouchedCovered
     DEF OwnerStep, ManualGraduationFails, WithdrawFees, marketVars, ledgerVars
<1>7. CASE AdminStep \/ Tick \/ UNCHANGED vars
           \/ \E admin \in FirstOwners, treasury \in FirstTreasuries : Initialize(admin, treasury)
  BY <1>7, UntouchedCovered DEF AdminStep, Tick, vars, Initialize, marketVars, ledgerVars
<1>8. QED
  BY <1>1, <1>2, <1>3, <1>4, <1>6, <1>7 DEF Next, IssuerStep, HolderStep

(* Whatever is minted, burned, transferred and graduated, the accounts     *)
(* hold at least the tokens the curve counts as sold.                      *)
THEOREM SoldTokensAlwaysExist == Spec => []SoldTokensExist
<1>1. Init => SoldTokensExist
  <2> SUFFICES ASSUME Init, NEW t \in Token
               PROVE  SumFunctionOnSet(bal[t], Account) >= curve[t].tokens_sold
    BY DEF SoldTokensExist
  <2>1. curve[t].tokens_sold = 0 /\ SumFunctionOnSet(bal[t], Account) \in Nat
    BY FactoryInit, SoldCount DEF Init, NewCurve
  <2>2. QED
    BY <2>1
<1>2. FactoryInv /\ FactoryInv' /\ SoldTokensExist /\ [Next]_vars => SoldTokensExist'
  BY SoldTokensStep
<1>3. QED
  BY <1>1, <1>2, FactoryInvariant, PTL DEF Spec

-----------------------------------------------------------------------------
(* What graduation hands over                                              *)

(* The three rounded shares leave behind at most two units.                *)
LEMMA PayoutNearTotal ==
  ASSUME NEW total \in Nat
  PROVE  PaidOut(total) \in (total - 2) .. total
<1>1. ASSUME NEW p \in Nat
      PROVE  /\ Percent(total, p) \in Nat
             /\ Percent(total, p) * 100 <= total * p
             /\ total * p < Percent(total, p) * 100 + 100
  <2>1. total * p \in Nat
    BY ProductNat
  <2>2. QED
    BY <2>1, DivFloor DEF Percent
<1>2. /\ Percent(total, 75) \in Nat /\ Percent(total, 75) * 100 <= total * 75
      /\ total * 75 < Percent(total, 75) * 100 + 100
      /\ Percent(total, 23) \in Nat /\ Percent(total, 23) * 100 <= total * 23
      /\ total * 23 < Percent(total, 23) * 100 + 100
      /\ Percent(total, 2) \in Nat /\ Percent(total, 2) * 100 <= total * 2
      /\ total * 2 < Percent(total, 2) * 100 + 100
  BY <1>1
<1>3. Percent(total, 75) + Percent(total, 23) + Percent(total, 2) \in (total - 2) .. total
  BY <1>2
<1>4. QED
  BY <1>3 DEF PaidOut

(* A buy pays the factory, and a payment out of the factory goes to the    *)
(* DEX only when a token graduates.                                        *)
GraduatesNothing == GraduatedTokens' = GraduatedTokens /\ xlm'[DEX] = xlm[DEX]
Graduates(t) ==
  /\ status[t] = "Bonding"
  /\ GraduatedTokens' = GraduatedTokens \cup {t}
  /\ raised'[t] \in Nat
  /\ xlm'[DEX] = xlm[DEX] + PaidOut(raised'[t])

LEMMA DexIsNotPaid ==
  ASSUME FactoryInv, NEW from \in Account \cup {FACTORY}, NEW to \in Account \cup {FACTORY},
         NEW b \in [Holder -> Nat], NEW amount
  PROVE  Move(b, from, to, amount)[DEX] = b[DEX]
<1>1. DEX \notin {from, to} /\ {from, to, DEX} \subseteq Holder
  BY FactoryAssumption DEF Holder
<1>2. QED
  BY <1>1 DEF Move

LEMMA StatusOfBuy ==
  ASSUME FactoryInv, FactoryInv', NEW buyer \in Account, NEW t \in Token,
         NEW gross \in BuyAmounts, NEW minTokens, NEW deadline,
         BuyAndGraduate(buyer, t, gross, minTokens, deadline)
  PROVE  Graduates(t)
<1> DEFINE total == raised[t] + gross
           received == Move(xlm, buyer, FACTORY, gross)
<1>1. gross \in Nat
  BY FactoryAssumption
<1>2. /\ CanExecuteBuy(buyer, t, gross, minTokens, deadline) /\ ExecuteBuy(buyer, t, gross)
      /\ status' = [status EXCEPT ![t] = "Graduated"]
      /\ xlm' = Move(received, FACTORY, DEX, PaidOut(total))
      /\ PaidOut(total) <= xlm[FACTORY] + gross
  BY DEF BuyAndGraduate, GraduateBooks, CanGraduate
<1>3. status[t] = "Bonding" /\ raised'[t] = total /\ gross <= xlm[buyer]
  BY <1>1, <1>2, BuyFacts
<1>4. total \in Nat /\ status \in [Token -> {"Unlaunched", "Bonding", "Graduated"}]
  BY <1>1, TokenFacts, InvParts DEF BooksInv, BookTypes
<1>5. received \in [Holder -> Nat] /\ received[FACTORY] = xlm[FACTORY] + gross
  BY <1>1, <1>3, Holders, MoveFacts
<1>6. received[DEX] = xlm[DEX]
  BY Holders, DexIsNotPaid
<1> HIDE DEF total, received
<1>7. PaidOut(total) \in Nat
  BY <1>4, PayoutFacts
<1>8. xlm'[DEX] = xlm[DEX] + PaidOut(total)
  <2>1. DEX \in Holder /\ FACTORY \in Holder /\ DEX # FACTORY
    BY FactoryAssumption DEF Holder
  <2>2. QED
    BY <1>2, <1>5, <1>6, <1>7, <2>1, MoveFacts
<1>9. GraduatedTokens' = GraduatedTokens \cup {t}
  BY <1>2, <1>4 DEF GraduatedTokens
<1>10. QED
  BY <1>3, <1>4, <1>8, <1>9 DEF Graduates

LEMMA StatusOfManualGraduation ==
  ASSUME FactoryInv, NEW admin \in Account, NEW t \in Token, ManualGraduation(admin, t)
  PROVE  Graduates(t)
<1>1. /\ status[t] = "Bonding"
      /\ status' = [status EXCEPT ![t] = "Graduated"]
      /\ xlm' = Move(xlm, FACTORY, DEX, PaidOut(raised[t]))
      /\ PaidOut(raised[t]) <= xlm[FACTORY]
      /\ raised' = raised
  BY DEF ManualGraduation, GraduateBooks, CanGraduate
<1>2. raised[t] \in Nat /\ status \in [Token -> {"Unlaunched", "Bonding", "Graduated"}]
  BY TokenFacts, InvParts DEF BooksInv, BookTypes
<1>3. PaidOut(raised[t]) \in Nat
  BY <1>2, PayoutFacts
<1>4. xlm'[DEX] = xlm[DEX] + PaidOut(raised[t])
  <2>1. /\ DEX \in Holder /\ FACTORY \in Holder /\ DEX # FACTORY /\ xlm \in [Holder -> Nat]
    BY FactoryAssumption DEF Holder, FactoryInv, TypeOK
  <2>2. QED
    BY <1>1, <1>3, <2>1, MoveFacts
<1>5. GraduatedTokens' = GraduatedTokens \cup {t}
  BY <1>1, <1>2 DEF GraduatedTokens
<1>6. QED
  BY <1>1, <1>2, <1>4, <1>5 DEF Graduates

(* Every other step leaves the graduated tokens and the DEX alone.         *)
LEMMA GraduationsOfStep ==
  ASSUME FactoryInv, FactoryInv', [Next]_vars
  PROVE  GraduatesNothing \/ \E t \in Token : Graduates(t)
<1>1. /\ status \in [Token -> {"Unlaunched", "Bonding", "Graduated"}]
      /\ xlm \in [Holder -> Nat] /\ feeConfig.treasury \in Account \cup {FACTORY}
      /\ DEX \in Holder
  BY InvParts DEF BooksInv, BookTypes, Holder, ConfigTypes, FeeTypeOK, FeeConfig
<1>2. ASSUME status' = status, xlm'[DEX] = xlm[DEX]
      PROVE  GraduatesNothing
  BY <1>2 DEF GraduatesNothing, GraduatedTokens
<1>3. ASSUME NEW a \in Account, NEW t \in Token, NEW gross \in BuyAmounts, NEW minOut,
             NEW deadline, Buy(a, t, gross, minOut, deadline)
      PROVE  GraduatesNothing
  <2>1. status' = status /\ xlm' = Move(xlm, a, FACTORY, gross)
    BY <1>3 DEF Buy
  <2>2. QED
    BY <1>1, <1>2, <2>1, DexIsNotPaid
<1>4. ASSUME NEW a \in Account, NEW t \in Token, NEW amount \in SellAmounts,
             NEW minOut \in MinOuts, NEW deadline, Sell(a, t, amount, minOut, deadline)
      PROVE  GraduatesNothing
  <2> DEFINE fees == SellFees(t, amount)
             paid == Move(xlm, FACTORY, a, fees.net)
  <2>1. status' = status /\ xlm' = Move(paid, FACTORY, feeConfig.treasury, fees.protocol)
    BY <1>4 DEF Sell
  <2>2. {FACTORY, a, feeConfig.treasury, DEX} \subseteq Holder
        /\ DEX \notin {FACTORY, a, feeConfig.treasury}
    BY <1>1, FactoryAssumption DEF Holder
  <2> HIDE DEF fees
  <2>3. DOMAIN paid = Holder /\ paid[DEX] = xlm[DEX]
    BY <1>1, <2>2 DEF Move
  <2> HIDE DEF paid
  <2>4. xlm'[DEX] = paid[DEX]
    BY <2>1, <2>2, <2>3 DEF Move
  <2>5. QED
    BY <1>2, <2>1, <2>3, <2>4
<1>5. CASE TraderStep
  <2>1. ASSUME NEW a \in Account, NEW t \in Token, NEW gross \in BuyAmounts,
               NEW minOut, NEW deadline, BuyFailsToGraduate(a, t, gross, minOut, deadline)
        PROVE  GraduatesNothing
    BY <1>2, <2>1 DEF BuyFailsToGraduate, marketVars, ledgerVars
  <2>2. QED
    BY <1>3, <1>4, <1>5, <2>1, StatusOfBuy DEF TraderStep
<1>6. ASSUME NEW a \in Account, NEW t \in Token, NEW symbol \in Symbol, NEW kind \in Kinds,
             Launch(a, t, symbol, kind)
      PROVE  GraduatesNothing
  <2>1. /\ status[t] = "Unlaunched" /\ status' = [status EXCEPT ![t] = "Bonding"]
        /\ xlm' = Move(xlm, a, feeConfig.treasury, feeConfig.creation_fee)
    BY <1>6 DEF Launch
  <2>2. xlm'[DEX] = xlm[DEX]
    BY <1>1, <2>1, DexIsNotPaid
  <2>3. GraduatedTokens' = GraduatedTokens
    BY <1>1, <2>1 DEF GraduatedTokens
  <2>4. QED
    BY <2>2, <2>3 DEF GraduatesNothing
<1>7. CASE IssuerStep
  BY <1>2, <1>6, <1>7 DEF IssuerStep, MakeMintable, marketVars, ledgerVars
<1>8. CASE HolderStep
  BY <1>2, <1>8 DEF HolderStep, Transfer, marketVars
<1>9. ASSUME NEW a \in Account, NEW amount \in WithdrawAmounts, WithdrawFees(a, amount)
      PROVE  GraduatesNothing
  <2>1. /\ status' = status
        /\ \E taken : xlm' = Move(xlm, FACTORY, feeConfig.treasury, taken)
    BY <1>9 DEF WithdrawFees, marketVars
  <2>2. xlm'[DEX] = xlm[DEX]
    BY <1>1, <2>1, DexIsNotPaid
  <2>3. QED
    BY <1>2, <2>1, <2>2
<1>10. CASE OwnerStep
  BY <1>2, <1>9, <1>10, StatusOfManualGraduation
     DEF OwnerStep, ManualGraduationFails, marketVars, ledgerVars
<1>11. CASE AdminStep \/ Tick \/ UNCHANGED vars
           \/ \E admin \in FirstOwners, treasury \in FirstTreasuries : Initialize(admin, treasury)
  BY <1>2, <1>11 DEF AdminStep, Tick, vars, Initialize, marketVars, ledgerVars
<1>12. QED
  BY <1>5, <1>7, <1>8, <1>10, <1>11 DEF Next

LEMMA RaisedSums ==
  ASSUME FactoryInv, NEW G \in SUBSET Token
  PROVE  /\ IsFiniteSet(G) /\ Cardinality(G) \in Nat
         /\ \A t \in G : raised[t] \in Int
         /\ SumFunctionOnSet(raised, G) \in Nat
<1>1. \A t \in G : raised[t] \in Int /\ raised[t] >= 0
  BY TokenFacts
<1>2. IsFiniteSet(G) /\ Cardinality(G) \in Nat
  BY FactoryAssumption, FS_Subset, FS_CardinalityType
<1>3. SumFunctionOnSet(raised, G) \in Nat
  BY <1>1, <1>2, SumNonNegative
<1>4. QED
  BY <1>1, <1>2, <1>3

LEMMA RaisedXlmStep ==
  ASSUME FactoryInv, FactoryInv', RaisedXlmReachesDex, [Next]_vars
  PROVE  RaisedXlmReachesDex'
<1> DEFINE G == GraduatedTokens
           due == SumFunctionOnSet(raised, G)
           later == SumFunctionOnSet(raised', G)
<1>1. G \in SUBSET Token
  BY DEF GraduatedTokens
<1>2. /\ IsFiniteSet(G) /\ Cardinality(G) \in Nat /\ \A t \in G : raised[t] \in Int
      /\ due \in Nat
  BY <1>1, RaisedSums
<1>3. \A t \in G : raised'[t] = raised[t]
  <2>1. TypeOK
    BY DEF FactoryInv
  <2>2. QED
    BY <2>1, GraduatedUntouched DEF GraduatedTokens
<1> HIDE DEF G
<1>4. later = due
  BY <1>2, <1>3, SumCongruence
<1>5. xlm[DEX] \in (due - 2 * Cardinality(G)) .. due
  BY DEF RaisedXlmReachesDex, G
<1>6. CASE GraduatesNothing
  <2>1. (GraduatedTokens)' = G /\ xlm'[DEX] = xlm[DEX]
    BY <1>6 DEF GraduatesNothing, G
  <2>2. QED
    BY <1>4, <1>5, <2>1 DEF RaisedXlmReachesDex
<1>7. ASSUME NEW t \in Token, Graduates(t)
      PROVE  RaisedXlmReachesDex'
  <2> DEFINE after == SumFunctionOnSet(raised', G \cup {t})
             paid == PaidOut(raised'[t])
  <2>1. /\ t \notin G /\ (GraduatedTokens)' = G \cup {t} /\ raised'[t] \in Nat
        /\ xlm'[DEX] = xlm[DEX] + paid
    BY <1>7 DEF Graduates, GraduatedTokens, G
  <2>2. paid \in (raised'[t] - 2) .. raised'[t]
    BY <2>1, PayoutNearTotal
  <2>3. Cardinality(G \cup {t}) = Cardinality(G) + 1
    BY <1>2, <2>1, FS_AddElement
  <2>4. after = later + raised'[t]
    <3>1. \A x \in G \cup {t} : raised'[x] \in Int
      BY <1>2, <1>3, <2>1
    <3>2. QED
      BY <1>2, <2>1, <3>1, SumAddsElement
  <2>5. xlm[DEX] \in Nat
    BY Holders, FactoryAssumption DEF FactoryInv, TypeOK, Holder
  <2> HIDE DEF due, later, after, paid
  <2>6. xlm'[DEX] \in (after - 2 * Cardinality(G \cup {t})) .. after
    BY <1>2, <1>4, <1>5, <2>1, <2>2, <2>3, <2>4, <2>5
  <2>7. QED
    BY <2>1, <2>6 DEF RaisedXlmReachesDex, after
<1>8. QED
  BY <1>6, <1>7, GraduationsOfStep

(* Over any history the DEX received what the graduated tokens had raised, *)
(* once each, less at most two units a token that rounding left behind.    *)
THEOREM RaisedXlmAlwaysReachesDex == Spec => []RaisedXlmReachesDex
<1>1. Init => RaisedXlmReachesDex
  <2> SUFFICES ASSUME Init PROVE RaisedXlmReachesDex
    OBVIOUS
  <2>1. GraduatedTokens = {} /\ xlm[DEX] = 0
    BY FactoryAssumption DEF Init, GraduatedTokens, Holder
  <2>2. SumFunctionOnSet(raised, {}) = 0 /\ Cardinality({}) = 0
    BY SumOfNothing, FS_EmptySet
  <2>3. QED
    BY <2>1, <2>2 DEF RaisedXlmReachesDex
<1>2. FactoryInv /\ FactoryInv' /\ RaisedXlmReachesDex /\ [Next]_vars => RaisedXlmReachesDex'
  BY RaisedXlmStep
<1>3. QED
  BY <1>1, <1>2, FactoryInvariant, PTL DEF Spec

-----------------------------------------------------------------------------
(* The cap on holdings                                                     *)

LEMMA HoldingsMonotone ==
  ASSUME NEW m \in Nat, NEW n \in Nat, m <= n
  PROVE  HoldingsBps(m, INITIAL_SUPPLY) <= HoldingsBps(n, INITIAL_SUPPLY)
         /\ HoldingsBps(m, INITIAL_SUPPLY) \in Nat
<1>1. WHALE_BPS \in Nat /\ INITIAL_SUPPLY \in Nat \ {0}
  BY WhaleAssumption, FactoryAssumption
<1>2. m * WHALE_BPS \in Nat /\ n * WHALE_BPS \in Nat /\ m * WHALE_BPS <= n * WHALE_BPS
  BY <1>1, ProductNat
<1>3. QED
  BY <1>1, <1>2, DivMonotone, DivFloor DEF HoldingsBps

(* What the fees leave buys no more than the gross amount would, and the   *)
(* cap was tested with the latter.                                         *)
LEMMA BuyWithinEstimate ==
  ASSUME FactoryInv, NEW buyer \in Account, NEW t \in Token, NEW gross \in Nat,
         NEW minTokens, NEW deadline,
         CanExecuteBuy(buyer, t, gross, minTokens, deadline), ExecuteBuy(buyer, t, gross)
  PROVE  /\ TokensOut(buyer, t, gross) \in Nat
         /\ CalculateBuy(curve[t], gross) \in Nat
         /\ TokensOut(buyer, t, gross) <= CalculateBuy(curve[t], gross)
<1> DEFINE net == BuyFees(buyer, t, gross).net
           c == curve[t]
<1>1. /\ net \in Nat \ {0} /\ net <= gross /\ TokensOut(buyer, t, gross) \in Nat
      /\ SoundCurve(c, BONDING_CURVE_SUPPLY)
  BY BuyFacts, TokenFacts
<1>2. TokensOut(buyer, t, gross) = CalculateBuy(c, net)
  BY DEF TokensOut
<1> HIDE DEF net, c
<1>3. c.tokens_remaining \in Nat /\ c.k \in Nat /\ c.xlm_reserve \in Nat
  BY <1>1 DEF SoundCurve, Curve
<1>4. /\ c.xlm_reserve + net \in Nat \ {0} /\ c.xlm_reserve + gross \in Nat \ {0}
      /\ c.xlm_reserve + net <= c.xlm_reserve + gross
  BY <1>1, <1>3
<1>5. /\ c.k \div (c.xlm_reserve + gross) <= c.k \div (c.xlm_reserve + net)
      /\ c.k \div (c.xlm_reserve + gross) \in Nat /\ c.k \div (c.xlm_reserve + net) \in Nat
  BY <1>3, <1>4, DivAntitone, DivFloor
<1>6. CalculateBuy(c, net) <= CalculateBuy(c, gross) /\ CalculateBuy(c, gross) \in Int
  BY <1>3, <1>5 DEF CalculateBuy
<1>7. QED
  BY <1>1, <1>2, <1>6 DEF c

(* What a step does to the recorded holdings, if it moves tokens.          *)
LEMMA HoldingsOfStep ==
  ASSUME FactoryInv, [Next]_vars, bal' # bal, whaleConfig.enabled,
         NEW a \in Account, walletHoldings'[a] > walletHoldings[a]
  PROVE  HoldingsBps(walletHoldings'[a], INITIAL_SUPPLY) <= whaleConfig.maxBps
<1>1. walletHoldings \in [Account -> Nat] /\ whaleConfig.maxBps \in Nat
  BY DEF FactoryInv, TypeOK, WhaleTypeOK, WhaleConfig
<1>2. walletHoldings' # walletHoldings
  <2>1. walletHoldings[a] \in Nat
    BY <1>1
  <2>2. QED
    BY <2>1
<1>3. ASSUME NEW b \in Account, NEW t \in Token, NEW gross \in BuyAmounts,
             NEW minOut, NEW deadline,
             Buy(b, t, gross, minOut, deadline) \/ BuyAndGraduate(b, t, gross, minOut, deadline)
      PROVE  HoldingsBps(walletHoldings'[a], INITIAL_SUPPLY) <= whaleConfig.maxBps
  <2> DEFINE out == TokensOut(b, t, gross)
             estimate == CalculateBuy(curve[t], gross)
  <2>1. gross \in Nat /\ CanExecuteBuy(b, t, gross, minOut, deadline) /\ ExecuteBuy(b, t, gross)
    BY <1>3, FactoryAssumption DEF Buy, BuyAndGraduate
  <2>2. out \in Nat /\ estimate \in Nat /\ out <= estimate
    BY <2>1, BuyWithinEstimate
  <2>3. /\ walletHoldings' = [walletHoldings EXCEPT ![b] = @ + out]
        /\ HoldingsBps(walletHoldings[b] + estimate, INITIAL_SUPPLY) <= whaleConfig.maxBps
    BY <2>1 DEF CanExecuteBuy, ExecuteBuy, RecordBuy, BuyAllowed, UnderCap
  <2> HIDE DEF out, estimate
  <2>4. a = b
    <3>1. walletHoldings[a] \in Nat
      BY <1>1
    <3>2. a # b => walletHoldings'[a] = walletHoldings[a]
      BY <1>1, <2>3
    <3>3. QED
      BY <3>1, <3>2
  <2>5. walletHoldings'[a] = walletHoldings[a] + out /\ walletHoldings[a] \in Nat
    BY <1>1, <2>3, <2>4
  <2>6. /\ HoldingsBps(walletHoldings[a] + out, INITIAL_SUPPLY)
             <= HoldingsBps(walletHoldings[a] + estimate, INITIAL_SUPPLY)
        /\ HoldingsBps(walletHoldings[a] + out, INITIAL_SUPPLY) \in Nat
        /\ HoldingsBps(walletHoldings[a] + estimate, INITIAL_SUPPLY) \in Nat
    BY <2>2, <2>5, HoldingsMonotone
  <2>7. QED
    BY <1>1, <2>3, <2>4, <2>5, <2>6
<1>4. ASSUME NEW b \in Account, NEW t \in Token, NEW amount \in SellAmounts,
             NEW minOut, NEW deadline, Sell(b, t, amount, minOut, deadline)
      PROVE  FALSE
  <2>1. /\ amount \in Nat
        /\ walletHoldings' = [walletHoldings EXCEPT ![b] = HoldingsAfterSell(@, amount)]
    BY <1>4, FactoryAssumption DEF Sell, RecordSell
  <2>2. walletHoldings[a] \in Nat
    BY <1>1
  <2>3. walletHoldings'[a] = walletHoldings[a]
        \/ walletHoldings'[a] = HoldingsAfterSell(walletHoldings[a], amount)
    BY <1>1, <2>1
  <2>4. QED
    BY <2>1, <2>2, <2>3 DEF HoldingsAfterSell
<1>5. CASE TraderStep
  <2>1. ASSUME NEW b \in Account, NEW t \in Token, NEW gross \in BuyAmounts,
               NEW minOut, NEW deadline, BuyFailsToGraduate(b, t, gross, minOut, deadline)
        PROVE  FALSE
    BY <2>1 DEF BuyFailsToGraduate, ledgerVars
  <2>2. QED
    BY <1>3, <1>4, <1>5, <2>1 DEF TraderStep
<1>6. CASE IssuerStep \/ HolderStep \/ OwnerStep \/ AdminStep \/ Tick \/ UNCHANGED vars
           \/ \E admin \in FirstOwners, treasury \in FirstTreasuries : Initialize(admin, treasury)
  BY <1>2, <1>6 DEF IssuerStep, Launch, MakeMintable, HolderStep, Transfer, OwnerStep,
     ManualGraduation, ManualGraduationFails, WithdrawFees, AdminStep, Tick, vars, Initialize,
     ledgerVars, whaleVars
<1>7. QED
  BY <1>5, <1>6 DEF Next

(* The cap holds of what a buy records, although it was tested with an     *)
(* estimate from before the fees: the estimate is never the smaller one.   *)
THEOREM BuysRespectCap == Spec => CapRespected
<1>1. FactoryInv /\ [Next]_vars =>
        [\A a \in Account :
           whaleConfig.enabled /\ bal' # bal /\ walletHoldings'[a] > walletHoldings[a] =>
             HoldingsBps(walletHoldings'[a], INITIAL_SUPPLY) <= whaleConfig.maxBps]_vars
  BY HoldingsOfStep
<1>2. QED
  BY <1>1, FactoryInvariant, PTL DEF Spec, CapRespected

-----------------------------------------------------------------------------
(* Every token is a market                                                 *)

(* Token t alone, as CurveMarket sees it: any fees, any reserve.           *)
Market(t) == INSTANCE CurveMarket WITH
  phase <- status[t], curve <- curve[t], raised <- raised[t], locked <- locked[t],
  Supply <- BONDING_CURVE_SUPPLY, Amounts <- BuyAmounts,
  ProtocolFees <- Nat, LpFees <- Nat, Reserves <- Nat

(* The market computes with the same curve.                                *)
LEMMA SameCurve ==
  ASSUME NEW t, NEW c, NEW x, NEW y, NEW z
  PROVE  /\ Market(t)!NewCurve(x) = NewCurve(x)
         /\ Market(t)!CalculateBuy(c, x) = CalculateBuy(c, x)
         /\ Market(t)!CanBuy(c, x) <=> CanBuy(c, x)
         /\ Market(t)!CalculateSell(c, x) = CalculateSell(c, x)
         /\ Market(t)!CanSell(c, x) <=> CanSell(c, x)
         /\ Market(t)!ExecuteBuyWithLpFee(c, x, y, z) = ExecuteBuyWithLpFee(c, x, y, z)
         /\ Market(t)!ExecuteSellWithLpFee(c, x, y, z) = ExecuteSellWithLpFee(c, x, y, z)
  BY DEF Market!NewCurve, Market!CalculateBuy, Market!CanBuy, Market!CalculateSell,
         Market!CanSell, Market!ExecuteBuyWithLpFee, Market!ExecuteSellWithLpFee,
         NewCurve, CalculateBuy, CanBuy, CalculateSell, CanSell, ExecuteBuyWithLpFee,
         ExecuteSellWithLpFee

LEMMA MarketInit ==
  ASSUME NEW t \in Token, Init
  PROVE  Market(t)!Init
<1>1. Market(t)!NewCurve(BONDING_CURVE_SUPPLY) = NewCurve(BONDING_CURVE_SUPPLY)
  BY SameCurve
<1>2. QED
  BY <1>1 DEF Init, Market!Init

(* What a launch finds is a new curve. *)
UnlaunchedIsNew ==
  \A t \in Token : status[t] = "Unlaunched" => curve[t] = NewCurve(BONDING_CURVE_SUPPLY)

(* The fields of token t, for the steps that do not concern it.            *)
Untouched(t) ==
  /\ status'[t] = status[t] /\ curve'[t] = curve[t]
  /\ raised'[t] = raised[t] /\ locked'[t] = locked[t]

(* The curve part of a buy is the market's, for the fees of the factory.   *)
LEMMA MarketBuyStep ==
  ASSUME FactoryInv, NEW t \in Token, NEW buyer \in Account, NEW gross \in BuyAmounts,
         NEW minTokens, NEW deadline,
         CanExecuteBuy(buyer, t, gross, minTokens, deadline), ExecuteBuy(buyer, t, gross)
  PROVE  LET fees == BuyFees(buyer, t, gross)
         IN /\ fees.protocol \in Nat /\ fees.lp \in Nat
            /\ LockedByBuy(fees) = gross - fees.protocol
            /\ Market(t)!BuyStep(gross, fees.protocol, fees.lp)
<1> DEFINE fees == BuyFees(buyer, t, gross)
           out == TokensOut(buyer, t, gross)
           p == fees.protocol
           l == fees.lp
           net == gross - p - l
<1>1. gross \in Nat
  BY FactoryAssumption
<1>2. /\ status[t] = "Bonding"
      /\ p \in Nat /\ l \in Nat /\ fees.net \in Nat \ {0}
      /\ p + l + fees.net = gross
      /\ curve'[t].xlm_reserve \in Nat
  BY <1>1, BuyFacts DEF SoundCurve, Curve
<1>3. /\ CanBuy(curve[t], gross) /\ CanBuy(curve[t], fees.net)
      /\ out = CalculateBuy(curve[t], fees.net) /\ out < curve[t].tokens_remaining
      /\ curve' = [curve EXCEPT ![t] = ExecuteBuyWithLpFee(@, fees.net, out, l)]
      /\ raised' = [raised EXCEPT ![t] = @ + gross]
  BY DEF CanExecuteBuy, ExecuteBuy, TokensOut
<1>4. curve \in [Token -> Curve] /\ raised \in [Token -> Nat]
  BY DEF FactoryInv, TypeOK
<1>5. LockedByBuy(fees) = fees.net + l
  BY DEF LockedByBuy
<1> HIDE DEF fees, out, p, l
<1>6. net = fees.net /\ LockedByBuy(fees) = gross - p
  BY <1>1, <1>2, <1>5
<1>7. /\ curve'[t] = ExecuteBuyWithLpFee(curve[t], net, CalculateBuy(curve[t], net), l)
      /\ raised'[t] = raised[t] + gross
  BY <1>3, <1>4, <1>6
<1>8. CanBuy(curve[t], net) /\ CalculateBuy(curve[t], net) < curve[t].tokens_remaining
  BY <1>3, <1>6
<1>9. curve[t].xlm_reserve + net + l \in Nat
  BY <1>1, <1>2, <1>4, <1>6 DEF Curve
<1> HIDE DEF net
<1>10. /\ Market(t)!CanBuy(curve[t], gross) <=> CanBuy(curve[t], gross)
       /\ Market(t)!CanBuy(curve[t], net) <=> CanBuy(curve[t], net)
       /\ Market(t)!CalculateBuy(curve[t], net) = CalculateBuy(curve[t], net)
       /\ Market(t)!ExecuteBuyWithLpFee(curve[t], net, CalculateBuy(curve[t], net), l)
            = ExecuteBuyWithLpFee(curve[t], net, CalculateBuy(curve[t], net), l)
  BY SameCurve
<1>11. Market(t)!BuyStep(gross, p, l)
  BY <1>2, <1>3, <1>7, <1>8, <1>9, <1>10 DEF Market!BuyStep, net
<1>12. QED
  BY <1>2, <1>6, <1>11 DEF p, l, fees

LEMMA MarketBuy ==
  ASSUME FactoryInv, NEW t \in Token, NEW buyer \in Account, NEW gross \in BuyAmounts,
         NEW minTokens, NEW deadline,
         \/ Buy(buyer, t, gross, minTokens, deadline)
         \/ BuyAndGraduate(buyer, t, gross, minTokens, deadline)
  PROVE  Market(t)!Next
<1> DEFINE fees == BuyFees(buyer, t, gross)
<1>1. CanExecuteBuy(buyer, t, gross, minTokens, deadline) /\ ExecuteBuy(buyer, t, gross)
  BY DEF Buy, BuyAndGraduate
<1>2. /\ fees.protocol \in Nat /\ fees.lp \in Nat
      /\ LockedByBuy(fees) = gross - fees.protocol
      /\ Market(t)!BuyStep(gross, fees.protocol, fees.lp)
  BY <1>1, MarketBuyStep
<1>3. /\ status \in [Token -> {"Unlaunched", "Bonding", "Graduated"}]
      /\ locked \in [Token -> Nat]
  BY InvParts DEF BooksInv, BookTypes
<1>4. PICK p \in Nat, l \in Nat :
        p = fees.protocol /\ l = fees.lp
  BY <1>2
<1>5. CASE Buy(buyer, t, gross, minTokens, deadline)
  <2>1. status' = status /\ locked' = [locked EXCEPT ![t] = @ + LockedByBuy(fees)]
    BY <1>5 DEF Buy
  <2>2. status'[t] = status[t] /\ locked'[t] = locked[t] + (gross - fees.protocol)
    BY <1>2, <1>3, <2>1
  <2> HIDE DEF fees
  <2>3. Market(t)!Buy(gross, p, l)
    BY <1>2, <1>4, <2>2 DEF Market!Buy, Market!LockedByBuy
  <2>4. QED
    BY <2>3 DEF Market!Next
<1>6. CASE BuyAndGraduate(buyer, t, gross, minTokens, deadline)
  <2>1. /\ status' = [status EXCEPT ![t] = "Graduated"] /\ locked' = [locked EXCEPT ![t] = 0]
    BY <1>6 DEF BuyAndGraduate, GraduateBooks
  <2>2. status'[t] = "Graduated" /\ locked'[t] = 0
    BY <1>3, <2>1
  <2> HIDE DEF fees
  <2>3. Market(t)!BuyAndGraduate(gross, p, l)
    BY <1>2, <1>4, <2>2 DEF Market!BuyAndGraduate
  <2>4. QED
    BY <2>3 DEF Market!Next
<1>7. QED
  BY <1>5, <1>6

LEMMA MarketSell ==
  ASSUME FactoryInv, NEW t \in Token, NEW seller \in Account, NEW amount \in SellAmounts,
         NEW minXlm \in MinOuts, NEW deadline, Sell(seller, t, amount, minXlm, deadline)
  PROVE  Market(t)!Next
<1> DEFINE gross == CalculateSell(curve[t], amount)
           fees == FeeBreakdown(gross)
           p == fees.protocol
           l == fees.lp
<1>1. amount \in Nat \ {0} /\ minXlm \in Nat
  BY FactoryAssumption
<1>2. /\ status[t] = "Bonding"
      /\ CanSell(curve[t], amount)
      /\ fees.net >= minXlm
      /\ fees.gross - l <= locked[t] /\ fees.gross <= raised[t]
      /\ curve' = [curve EXCEPT ![t] = ExecuteSellWithLpFee(@, fees.gross, amount, l)]
      /\ locked' = [locked EXCEPT ![t] = @ - (fees.gross - l)]
      /\ raised' = [raised EXCEPT ![t] = @ - fees.gross]
      /\ status' = status
  BY DEF Sell, SellFees, Tradable, BooksCoverSale, ReleasedBySell
<1>3. /\ curve \in [Token -> Curve] /\ locked \in [Token -> Nat] /\ raised \in [Token -> Nat]
      /\ FeeTypeOK /\ SoundCurve(curve[t], BONDING_CURVE_SUPPLY)
  BY TokenFacts DEF FactoryInv, TypeOK
<1>4. gross \in Nat /\ amount \in 1 .. curve[t].tokens_sold
  <2>1. /\ curve[t].tokens_remaining \in Nat /\ curve[t].tokens_sold \in Nat
        /\ gross > 0 /\ amount <= curve[t].tokens_sold
    BY <1>2, <1>3 DEF CanSell, Curve
  <2>2. gross \in Int
    BY <1>1, <1>3, <2>1, QuotesAreIntegers
  <2> HIDE DEF gross
  <2>3. QED
    BY <1>1, <2>1, <2>2
<1>5. /\ fees \in [gross : {gross}, protocol : Nat, lp : Nat, net : Int]
      /\ fees.net = gross - fees.protocol - fees.lp
  BY <1>3, <1>4, FeeParts
<1> HIDE DEF gross, fees
<1>6. /\ p \in Nat /\ l \in Nat /\ fees.gross = gross /\ p + l <= gross
  BY <1>1, <1>2, <1>4, <1>5
<1> HIDE DEF p, l
<1>7. /\ curve'[t] = ExecuteSellWithLpFee(curve[t], gross, amount, l)
      /\ locked'[t] = locked[t] - (gross - l) /\ raised'[t] = raised[t] - gross
      /\ gross - l <= locked[t] /\ gross <= raised[t]
      /\ status'[t] = status[t]
  BY <1>2, <1>3, <1>6
<1>8. /\ Market(t)!CanSell(curve[t], amount) <=> CanSell(curve[t], amount)
      /\ Market(t)!CalculateSell(curve[t], amount) = gross
      /\ Market(t)!ExecuteSellWithLpFee(curve[t], gross, amount, l)
           = ExecuteSellWithLpFee(curve[t], gross, amount, l)
  BY SameCurve DEF gross
<1>9. Market(t)!Sell(amount, p, l)
  BY <1>2, <1>6, <1>7, <1>8 DEF Market!Sell, Market!SellCovered
<1>10. QED
  BY <1>4, <1>6, <1>9 DEF Market!Next

LEMMA MarketGraduates ==
  ASSUME FactoryInv, NEW t \in Token, NEW admin \in Account, ManualGraduation(admin, t)
  PROVE  Market(t)!Next
<1>1. /\ status[t] = "Bonding" /\ raised[t] > 0 /\ curve[t].tokens_remaining > 0
      /\ status' = [status EXCEPT ![t] = "Graduated"] /\ locked' = [locked EXCEPT ![t] = 0]
      /\ curve' = curve /\ raised' = raised
  BY DEF ManualGraduation, CanGraduate, GraduateBooks
<1>2. /\ status \in [Token -> {"Unlaunched", "Bonding", "Graduated"}]
      /\ locked \in [Token -> Nat]
  BY InvParts DEF BooksInv, BookTypes
<1>3. Market(t)!Graduate
  BY <1>1, <1>2 DEF Market!Graduate
<1>4. QED
  BY <1>3 DEF Market!Next

LEMMA MarketLaunch ==
  ASSUME FactoryInv, UnlaunchedIsNew, NEW t \in Token, NEW a \in Account, NEW symbol, NEW kind,
         Launch(a, t, symbol, kind)
  PROVE  Market(t)!Next
<1>1. /\ status[t] = "Unlaunched" /\ status' = [status EXCEPT ![t] = "Bonding"]
      /\ curve' = [curve EXCEPT ![t] = NewCurve(BONDING_CURVE_SUPPLY)]
      /\ raised' = raised /\ locked' = locked
  BY DEF Launch
<1>2. /\ status \in [Token -> {"Unlaunched", "Bonding", "Graduated"}]
      /\ curve \in [Token -> Curve]
  BY InvParts DEF BooksInv, BookTypes
<1>3. curve'[t] = curve[t]
  BY <1>1, <1>2 DEF UnlaunchedIsNew
<1>4. Market(t)!Launch
  BY <1>1, <1>2, <1>3 DEF Market!Launch
<1>5. QED
  BY <1>4 DEF Market!Next

(* Every step of the factory concerns one token or none.                   *)
LEMMA StepTouchesOne ==
  ASSUME FactoryInv, [Next]_vars, NEW t \in Token
  PROVE  \/ Untouched(t)
         \/ \E a \in Account, gross \in BuyAmounts : \E minOut, deadline :
              \/ Buy(a, t, gross, minOut, deadline)
              \/ BuyAndGraduate(a, t, gross, minOut, deadline)
         \/ \E a \in Account, amount \in SellAmounts, minOut \in MinOuts : \E deadline :
              Sell(a, t, amount, minOut, deadline)
         \/ \E a \in Account : ManualGraduation(a, t)
         \/ \E a \in Account : \E symbol, kind : Launch(a, t, symbol, kind)
<1> DEFINE Concerns(u) ==
         \/ \E a \in Account, gross \in BuyAmounts : \E minOut, deadline :
              \/ Buy(a, u, gross, minOut, deadline)
              \/ BuyAndGraduate(a, u, gross, minOut, deadline)
         \/ \E a \in Account, amount \in SellAmounts, minOut \in MinOuts : \E deadline :
              Sell(a, u, amount, minOut, deadline)
         \/ \E a \in Account : ManualGraduation(a, u)
         \/ \E a \in Account : \E symbol, kind : Launch(a, u, symbol, kind)
<1>1. /\ DOMAIN status = Token /\ DOMAIN curve = Token /\ DOMAIN raised = Token
      /\ DOMAIN locked = Token
  BY DEF FactoryInv, TypeOK
<1>2. ASSUME UNCHANGED marketVars PROVE Untouched(t)
  BY <1>2 DEF marketVars, Untouched
<1>3. ASSUME NEW u \in Token, Concerns(u), u # t PROVE Untouched(t)
  <2>1. /\ status' = status \/ \E s : status' = [status EXCEPT ![u] = s]
        /\ curve' = curve \/ \E c : curve' = [curve EXCEPT ![u] = c]
        /\ raised' = raised \/ \E r : raised' = [raised EXCEPT ![u] = r]
        /\ locked' = locked \/ \E l : locked' = [locked EXCEPT ![u] = l]
    BY <1>3 DEF Buy, BuyAndGraduate, ExecuteBuy, GraduateBooks, Sell, ManualGraduation, Launch
  <2>2. QED
    BY <1>1, <1>3, <2>1 DEF Untouched
<1>4. Untouched(t) \/ \E u \in Token : Concerns(u)
  <2>1. CASE TraderStep
    BY <1>2, <2>1 DEF TraderStep, BuyFailsToGraduate
  <2>2. CASE IssuerStep
    BY <1>2, <2>2 DEF IssuerStep, MakeMintable
  <2>3. CASE OwnerStep
    BY <1>2, <2>3 DEF OwnerStep, ManualGraduationFails, WithdrawFees
  <2>4. CASE HolderStep \/ AdminStep \/ Tick \/ UNCHANGED vars
           \/ \E admin \in FirstOwners, treasury \in FirstTreasuries : Initialize(admin, treasury)
    BY <1>2, <2>4 DEF HolderStep, Transfer, AdminStep, Tick, vars, Initialize
  <2>5. QED
    BY <2>1, <2>2, <2>3, <2>4 DEF Next
<1>5. QED
  <2> HIDE DEF Concerns
  <2>1. Untouched(t) \/ Concerns(t)
    BY <1>3, <1>4
  <2>2. QED
    BY <2>1 DEF Concerns

LEMMA UnlaunchedStep ==
  ASSUME FactoryInv, UnlaunchedIsNew, [Next]_vars
  PROVE  UnlaunchedIsNew'
<1> SUFFICES ASSUME NEW t \in Token, status'[t] = "Unlaunched"
             PROVE  curve'[t] = NewCurve(BONDING_CURVE_SUPPLY)
  BY DEF UnlaunchedIsNew
<1>1. status \in [Token -> {"Unlaunched", "Bonding", "Graduated"}]
  BY InvParts DEF BooksInv, BookTypes
<1>2. CASE Untouched(t)
  BY <1>2 DEF Untouched, UnlaunchedIsNew
<1>3. ASSUME NEW a \in Account, NEW gross, NEW minOut, NEW deadline,
             Buy(a, t, gross, minOut, deadline) \/ BuyAndGraduate(a, t, gross, minOut, deadline)
      PROVE  FALSE
  BY <1>1, <1>3 DEF Buy, BuyAndGraduate, CanExecuteBuy, Tradable, GraduateBooks
<1>4. ASSUME NEW a \in Account, NEW amount, NEW minOut, NEW deadline,
             Sell(a, t, amount, minOut, deadline)
      PROVE  FALSE
  BY <1>4 DEF Sell, Tradable
<1>5. ASSUME NEW a \in Account, ManualGraduation(a, t)
      PROVE  FALSE
  BY <1>1, <1>5 DEF ManualGraduation, GraduateBooks
<1>6. ASSUME NEW a \in Account, NEW symbol, NEW kind, Launch(a, t, symbol, kind)
      PROVE  FALSE
  BY <1>1, <1>6 DEF Launch
<1>7. QED
  BY <1>2, <1>3, <1>4, <1>5, <1>6, StepTouchesOne

(* Every step of the factory is a step of the token's market, or leaves it *)
(* as it is.                                                               *)
LEMMA MarketStep ==
  ASSUME FactoryInv, UnlaunchedIsNew, [Next]_vars, NEW t \in Token
  PROVE  [Market(t)!Next]_(Market(t)!vars)
<1>1. CASE Untouched(t)
  BY <1>1 DEF Untouched, Market!vars
<1>2. QED
  BY <1>1, StepTouchesOne, MarketBuy, MarketSell, MarketGraduates, MarketLaunch

(* Each token taken alone is a market in the sense of CurveMarket, for     *)
(* whatever fees the factory is configured with and whatever its other     *)
(* tokens, holders and admins do.                                          *)
THEOREM EveryTokenIsMarket ==
  ASSUME NEW CONSTANT t \in Token
  PROVE  Spec => Market(t)!Spec
<1>1. Init => Market(t)!Init /\ UnlaunchedIsNew
  <2>1. Init => UnlaunchedIsNew
    BY DEF Init, UnlaunchedIsNew
  <2>2. QED
    BY <2>1, MarketInit
<1>2. FactoryInv /\ UnlaunchedIsNew /\ [Next]_vars => UnlaunchedIsNew'
  BY UnlaunchedStep
<1>3. FactoryInv /\ UnlaunchedIsNew /\ [Next]_vars => [Market(t)!Next]_(Market(t)!vars)
  BY MarketStep
<1>4. QED
  BY <1>1, <1>2, <1>3, FactoryInvariant, PTL DEF Spec, Market!Spec
=============================================================================
