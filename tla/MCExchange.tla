----------------------------- MODULE MCExchange ------------------------------
(***************************************************************************)
(* The pair, the client of the factory with its getters of settings, the   *)
(* page of a token, its charts and the trading screens.  Each behaviour    *)
(* moves one focus part; "factory" and "page" have the chain of            *)
(* FactoryClient beside them.                                              *)
(***************************************************************************)
EXTENDS TokenPage, MarketCharts, TradeScreens

VARIABLE focus   \* the part whose actions a behaviour takes

exchangeVars == <<focus, factoryVars, pageOnly, chartVars, screenVars>>

MCFirstCurve == [xlm |-> 20000, token |-> 20000, raised |-> 19200]
MCFirstAccount == [xlm |-> 1600, token |-> 1700, holdings |-> 600]
MCFeeConfigs == {[creation |-> 20, protocol |-> 100, lp |-> 0]}
MCWhaleConfigs == {[enabled |-> TRUE, max |-> 700, cooldown |-> TRUE,
                    tiers |-> <<[from |-> 300, fee |-> 50], [from |-> 600, fee |-> 300]>>]}
MCDecimals == {[int |-> 15, frac |-> <<5>>], [int |-> 20, frac |-> <<0, 0, 9>>]}

\* Beside the trades of a user the administrators act once.
AdministratorSteps == (settings = FirstSettings /\ AdministratorActs) \/ CooldownEnds

\* What the parts that do not move could begin with in two ways is pinned.
MCInit ==
    /\ focus \in {"amm", "factory", "settings", "page", "simple", "trading", "progress", "screens"}
    /\ FactoryInit /\ TokenPageInit /\ ChartsInit /\ ScreensInit
    /\ focus = "page" <=> refs.mounted
    /\ focus # "page" => inDatabase = "absent"
    /\ focus # "simple" => ~simple.graduated
    /\ focus = "screens" <=> mounted # "none"

MCNext ==
    /\ UNCHANGED focus
    /\ \/ focus = "amm" /\ PairNext
          /\ UNCHANGED <<factoryToken, wallet, marketMoves, clientVars, pageOnly, chartVars, screenVars>>
       \/ focus = "factory" /\ (FactoryNext \/ AdministratorSteps) /\ UNCHANGED <<pageOnly, chartVars, screenVars>>
       \/ focus = "settings" /\ SettingsNext /\ UNCHANGED <<pageOnly, chartVars, screenVars>>
       \/ focus = "page" /\ TokenPageNext /\ UNCHANGED <<chartVars, screenVars>>
       \/ /\ \/ focus = "simple" /\ SimpleChartNext /\ deals' = deals
             \/ focus = "trading" /\ TradingViewChartNext
             \/ focus = "progress" /\ BondingCurveChartNext
          /\ UNCHANGED <<factoryVars, pageOnly, screenVars>>
       \/ focus = "screens" /\ ScreensNext /\ UNCHANGED <<pageOnly, chartVars>>

MCSpec ==
    /\ MCInit /\ [][MCNext]_exchangeVars
    /\ TokenPageFairness /\ ScreensFairness
=============================================================================
