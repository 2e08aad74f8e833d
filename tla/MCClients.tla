----------------------------- MODULE MCClients ------------------------------
(***************************************************************************)
(* The market of one token and what its clients do and see: trading from a *)
(* page, the requests a page signs, the list of tokens, the lists of       *)
(* transactions and the fee statistics.  They share no state in these      *)
(* models; focus, chosen at the start, names the one that moves.           *)
(***************************************************************************)
EXTENDS CurveMarket, TradeClient, SignedRequests, TokenBrowsing, ActivityFeeds, FeeStats

VARIABLE focus
clientVars == <<focus, vars, tradeVars, signedVars, browseVars, feedVars, feeVars>>

MCInit ==
    /\ focus \in {"market", "trade", "signed", "browse", "feed", "fees"}
    /\ Init /\ TradeInit /\ SignedInit /\ BrowseInit /\ FeedsInit /\ FeeInit
    /\ focus # "browse" => initialTokens.edges = <<>>
    /\ focus = "feed" <=> reader # "none"

MCNext ==
    /\ UNCHANGED focus
    /\ \/ focus = "market" /\ Next /\ UNCHANGED <<tradeVars, signedVars, browseVars, feedVars, feeVars>>
       \/ focus = "trade" /\ TradeNext /\ UNCHANGED <<vars, signedVars, browseVars, feedVars, feeVars>>
       \/ focus = "signed" /\ SignedNext /\ UNCHANGED <<vars, tradeVars, browseVars, feedVars, feeVars>>
       \/ focus = "browse" /\ BrowseNext /\ UNCHANGED <<vars, tradeVars, signedVars, feedVars, feeVars>>
       \/ focus = "feed" /\ FeedsNext /\ UNCHANGED <<vars, tradeVars, signedVars, browseVars, feeVars>>
       \/ focus = "fees" /\ FeeNext /\ UNCHANGED <<vars, tradeVars, signedVars, browseVars, feedVars>>

\* The fairness of the lists, and FeeFairness asked of the part that moves.
MCSpec ==
    /\ MCInit /\ [][MCNext]_clientVars
    /\ focus = "feed" => FeedsFairness
    /\ WF_feeVars(focus = "fees" /\ CronRecalculates)
    /\ \A k \in TaskNames : WF_feeVars(focus = "fees" /\ TaskStep(k))

\* Amounts with gaps, so that orders cross several steps of the rounding.
MCAmounts == {2, 3, 5, 8}
MCTwoFees == {0, 1}
MCLpFees == {1, 2}

\* 14 * 13 is just below the product of a new curve, 4 * 48: see LockAlwaysCovers.
MCReserves == 0 .. 14

\* One search that finds every token and one that finds some.
MCSearchHits == ("" :> 1 .. 10) @@ ("x" :> {1, 3})

\* The market of the trading instance, and a pair on which a buy is worth its while.
MCMarket == [mode |-> "bonding", xlm |-> 20000, token |-> 20000]
MCPool == [mode |-> "amm", xlm |-> 2, token |-> 1200]
=============================================================================
