------------------------------- MODULE MCPages -------------------------------
(***************************************************************************)
(* Pages of the web application and what the gateway answers them: the     *)
(* wallet, the page of a token, the page that creates one, the queries and *)
(* the rate limits.  They share no state in these models; focus, chosen at *)
(* the start, names the one that moves.                                    *)
(***************************************************************************)
EXTENDS WalletSession, TokenHooks, TokenCreation, GatewayQueries, RateLimits

VARIABLE focus
pageVars == <<focus, walletVars, hookVars, createVars, queryVars, rateVars>>

MCInit ==
    /\ focus \in {"wallet", "hooks", "create", "queries", "rates"}
    /\ SessionInit /\ HooksInit /\ CreateInit /\ QueriesInit /\ RateInit
    \* A part that does not move needs one of its initial states.
    /\ focus # "wallet" => savedAccount = NoAccount
    /\ focus # "hooks" => tokenInfo = [t \in ShownTokens |-> 0]
    /\ focus # "queries" => subject = "boards"
    /\ focus # "rates" => limiter = "page"

MCNext ==
    /\ UNCHANGED focus
    /\ \/ /\ focus = "wallet" /\ SessionNext
          /\ UNCHANGED <<hookVars, createVars, queryVars, rateVars>>
       \/ /\ focus = "hooks" /\ HooksNext
          /\ UNCHANGED <<walletVars, createVars, queryVars, rateVars>>
       \/ /\ focus = "create" /\ CreateNext
          /\ UNCHANGED <<walletVars, hookVars, queryVars, rateVars>>
       \/ /\ focus = "queries" /\ QueriesNext
          /\ UNCHANGED <<walletVars, hookVars, createVars, rateVars>>
       \/ /\ focus = "rates" /\ RateNext
          /\ UNCHANGED <<walletVars, hookVars, createVars, queryVars>>

\* SessionFairness and HooksFairness, asked of the part that moves.
MCSpec ==
    /\ MCInit /\ [][MCNext]_pageVars
    /\ \A s \in FetchSlots :
        /\ WF_walletVars(focus = "wallet" /\ PollBalance(s))
        /\ WF_walletVars(focus = "wallet" /\ ReadBalance(s))
        /\ WF_walletVars(focus = "wallet" /\ BalanceArrives(s))
    /\ SF_hookVars(focus = "hooks" /\ PollPrice)
    /\ SF_hookVars(focus = "hooks" /\ RefreshToken)
    /\ \A s \in ReadSlots :
        /\ WF_hookVars(focus = "hooks" /\ ReadContract(s))
        /\ WF_hookVars(focus = "hooks" /\ PriceArrives(s))
        /\ WF_hookVars(focus = "hooks" /\ InfoArrives(s))
=============================================================================
