----------------------------- MODULE TokenHooks -----------------------------
(***************************************************************************)
(* What a page knows of a token: the price of usePrice                     *)
(* (src/apps/web/src/hooks/usePrice.ts), the records of the token store    *)
(* (src/apps/web/src/stores/useTokenStore.ts, filled by hooks/useToken.ts) *)
(* and the holdings computed from the transactions of an account           *)
(* (src/apps/web/src/hooks/useUserHoldings.ts).  Both hooks ask the        *)
(* contract; an answer meets whatever token the page shows by then.        *)
(***************************************************************************)
EXTENDS Integers, FiniteSets, SequencesExt

CONSTANTS
    ShownTokens,
    NoToken,
    ListedTokens,   \* the tokens of a list beside the page
    ReadSlots,      \* bound of the model on the reads of the contract under way
    PageBound,      \* bound of the model on changes of page, resets and failures
    PriceBound      \* bound of the model on the changes of the contract

ASSUME TokenHooksAssumption == NoToken \notin ShownTokens /\ ListedTokens \subseteq ShownTokens

VARIABLES
    onChain,      \* onChain[t]: number of the token's state in the contract, from 1
    pageToken,    \* the token of the page
    price,        \* [now, previous, change]: <<token, state>> or NoPrice; change is a pair of them
    tokenInfo,    \* tokens of the store: the state read, 0 when there is none
    loadingTokens,
    errors,       \* the tokens whose last read failed
    reading,      \* reading[s]: [kind, of, read] of a read under way
    moves

hookVars == <<onChain, pageToken, price, tokenInfo, loadingTokens, errors, reading, moves>>

NoPrice == <<NoToken, 0>>
NoPrices == [now |-> NoPrice, previous |-> NoPrice, change |-> <<NoPrice, NoPrice>>]
NoRead == [kind |-> "none", of |-> NoToken, read |-> 0]
Moves == moves < PageBound /\ moves' = moves + 1
Starts(kind, t) == \E s \in ReadSlots :
    /\ reading[s] = NoRead
    /\ reading' = [reading EXCEPT ![s] = [kind |-> kind, of |-> t, read |-> 0]]

HooksInit ==
    /\ onChain = [t \in ShownTokens |-> 1]
    /\ pageToken = NoToken
    /\ price = NoPrices
    /\ tokenInfo \in [ShownTokens -> {0, 1}]     \* what the browser kept
    /\ loadingTokens = {} /\ errors = {}
    /\ reading = [s \in ReadSlots |-> NoRead]
    /\ moves = 0

\* The page turns to another token, or to none: usePrice forgets the prices and asks
\* for the new one; without a token it keeps them.
ShowToken(t) ==
    /\ t # pageToken /\ Moves
    /\ pageToken' = t
    /\ IF t = NoToken THEN UNCHANGED <<price, reading>>
       ELSE price' = NoPrices /\ Starts("price", t)
    /\ UNCHANGED <<onChain, tokenInfo, loadingTokens, errors>>

\* The interval of usePrice.
PollPrice ==
    /\ pageToken # NoToken /\ Starts("price", pageToken)
    /\ UNCHANGED <<onChain, pageToken, price, tokenInfo, loadingTokens, errors, moves>>

\* fetchTokenInfo up to its await: a token that is loading is not asked for again.
FetchTokenInfo(t) ==
    /\ t \notin loadingTokens
    /\ loadingTokens' = loadingTokens \cup {t}
    /\ Starts("info", t)
    /\ UNCHANGED <<onChain, pageToken, price, tokenInfo, errors, moves>>
\* useToken asks at once for a token the store does not have, also right after a read
\* of it failed, and refreshes it later.
UseToken == pageToken # NoToken /\ tokenInfo[pageToken] = 0 /\ FetchTokenInfo(pageToken)
RefreshToken == pageToken # NoToken /\ FetchTokenInfo(pageToken)
\* useTokens does the same for each token of a list, whatever the page is about.
UseTokens(t) == t \in ListedTokens /\ tokenInfo[t] = 0 /\ FetchTokenInfo(t)
RefreshTokens(t) == t \in ListedTokens /\ FetchTokenInfo(t)

\* The contract answers a read.
ReadContract(s) ==
    /\ reading[s].kind # "none" /\ reading[s].read = 0
    /\ reading' = [reading EXCEPT ![s].read = onChain[reading[s].of]]
    /\ UNCHANGED <<onChain, pageToken, price, tokenInfo, loadingTokens, errors, moves>>

\* Mutant: the price before the last one is kept.
PriceArrives_KeepsFirst(s) ==
    /\ reading[s].kind = "price" /\ reading[s].read # 0
    /\ reading' = [reading EXCEPT ![s] = NoRead]
    /\ LET current == <<reading[s].of, reading[s].read>>
           previous == IF price.now # NoPrice /\ price.previous = NoPrice THEN price.now
                       ELSE price.previous
       IN  price' = [now |-> current, previous |-> previous,
                     change |-> IF previous # NoPrice THEN <<previous, current>> ELSE price.change]
    /\ UNCHANGED <<onChain, pageToken, tokenInfo, loadingTokens, errors, moves>>

\* fetchPrice after its await, for the token it was asked for.
PriceArrives(s) ==
    /\ reading[s].kind = "price" /\ reading[s].read # 0
    /\ reading' = [reading EXCEPT ![s] = NoRead]
    /\ LET current == <<reading[s].of, reading[s].read>>
           previous == IF price.now # NoPrice THEN price.now ELSE price.previous
       IN  price' = [now |-> current, previous |-> previous,
                     change |-> IF previous # NoPrice THEN <<previous, current>> ELSE price.change]
    /\ UNCHANGED <<onChain, pageToken, tokenInfo, loadingTokens, errors, moves>>
PriceFails(s) ==
    /\ reading[s].kind = "price" /\ Moves
    /\ reading' = [reading EXCEPT ![s] = NoRead]
    /\ UNCHANGED <<onChain, pageToken, price, tokenInfo, loadingTokens, errors>>

\* fetchTokenInfo after its await.
InfoArrives(s) ==
    /\ reading[s].kind = "info" /\ reading[s].read # 0
    /\ reading' = [reading EXCEPT ![s] = NoRead]
    /\ tokenInfo' = [tokenInfo EXCEPT ![reading[s].of] = reading[s].read]
    /\ loadingTokens' = loadingTokens \ {reading[s].of}
    /\ errors' = errors \ {reading[s].of}
    /\ UNCHANGED <<onChain, pageToken, price, moves>>

InfoFails(s) ==
    /\ reading[s].kind = "info" /\ Moves
    /\ reading' = [reading EXCEPT ![s] = NoRead]
    /\ loadingTokens' = loadingTokens \ {reading[s].of}
    /\ errors' = errors \cup {reading[s].of}
    /\ UNCHANGED <<onChain, pageToken, price, tokenInfo>>

\* reset, when the wallet disconnects: the reads under way are not called off.
ResetStore ==
    /\ Moves
    /\ tokenInfo' = [t \in ShownTokens |-> 0]
    /\ loadingTokens' = {} /\ errors' = {}
    /\ UNCHANGED <<onChain, pageToken, price, reading>>

\* Somebody trades the token.
ContractChanges(t) ==
    /\ onChain[t] < PriceBound
    /\ onChain' = [onChain EXCEPT ![t] = @ + 1]
    /\ UNCHANGED <<pageToken, price, tokenInfo, loadingTokens, errors, reading, moves>>

HooksNext ==
    \/ \E t \in ShownTokens \cup {NoToken} : ShowToken(t)
    \/ PollPrice \/ UseToken \/ RefreshToken \/ ResetStore
    \/ \E s \in ReadSlots : \/ ReadContract(s) \/ PriceArrives(s) \/ PriceFails(s)
                            \/ InfoArrives(s) \/ InfoFails(s)
    \/ \E t \in ShownTokens : UseTokens(t) \/ RefreshTokens(t) \/ ContractChanges(t)

\* The timers of the page run and the contract answers; a slot is free for each of
\* them again and again.
HooksFairness ==
    /\ SF_hookVars(PollPrice) /\ SF_hookVars(RefreshToken)
    /\ \A s \in ReadSlots : /\ WF_hookVars(ReadContract(s))
                            /\ WF_hookVars(PriceArrives(s))
                            /\ WF_hookVars(InfoArrives(s))
HooksSpec == HooksInit /\ [][HooksNext]_hookVars /\ HooksFairness

-----------------------------------------------------------------------------
\* useUserHoldings: what a list of trades, records of [token, kind, amount], leaves of
\* each token; only what is positive is held.
NetBalance(trades, t) ==
    FoldSeq(LAMBDA x, n : IF x.token # t THEN n
                          ELSE IF x.kind = "TOKEN_BOUGHT" THEN n + x.amount
                          ELSE IF x.kind = "TOKEN_SOLD" THEN n - x.amount ELSE n, 0, trades)
HeldTokens(trades) == {t \in {trades[i].token : i \in DOMAIN trades} : NetBalance(trades, t) > 0}
PortfolioValue(trades, worth) ==
    FoldSet(LAMBDA t, n : n + NetBalance(trades, t) * worth[t], 0, HeldTokens(trades))

\* Types of the variables.
HooksTypeOK ==
    /\ onChain \in [ShownTokens -> 1 .. PriceBound]
    /\ pageToken \in ShownTokens \cup {NoToken}
    /\ tokenInfo \in [ShownTokens -> 0 .. PriceBound]
    /\ loadingTokens \subseteq ShownTokens /\ errors \subseteq ShownTokens

\* A token is marked as loading only while a read of it is under way: a mark left
\* behind would keep the token from ever being read again, and reads outlive the
\* reset that clears the marks (fetchTokenInfo, reset).
LoadingIsUnderWay ==
    \A t \in loadingTokens : \E s \in ReadSlots : reading[s].kind = "info" /\ reading[s].of = t

\* The page comes to show the price and the record of its own token, and a change
\* computed from two prices of that token, although a late answer for an earlier token
\* is taken for the price of the present one (fetchPrice has no guard after its await).
ViewFollowsToken ==
    <>[](pageToken # NoToken =>
            /\ price.now = <<pageToken, onChain[pageToken]>>
            /\ price.previous[1] = pageToken
            /\ tokenInfo[pageToken] = onChain[pageToken])
=============================================================================
