---------------------------- MODULE WalletSession ----------------------------
(***************************************************************************)
(* The account of a page: the connection of a wallet, what is remembered   *)
(* of it in the browser, the header of the requests                        *)
(* (src/apps/web/src/contexts/WalletContext.tsx) and the balance shown for *)
(* it (src/apps/web/src/hooks/useBalance.ts).  A balance is asked of the   *)
(* network when the account changes and once a minute; its answer meets    *)
(* whatever account the page has by then.                                  *)
(***************************************************************************)
EXTENDS Integers, FiniteSets

CONSTANTS
    Accounts,
    NoAccount,        \* no address, nothing saved
    Corrupt,          \* a saved value that is no valid address
    FetchSlots,       \* bound of the model on the balance requests under way
    SessionBound,     \* bound of the model on what the user and the network do
    PaymentBound      \* bound of the model on the payments of an account

ASSUME SessionAssumption == NoAccount \notin Accounts /\ Corrupt \notin Accounts

VARIABLES
    xlm,          \* xlm[a]: the balance of a on the network
    savedAccount,        \* localStorage: the wallet address of the last connection
    address, connected, connecting,   \* state of WalletProvider
    modal,        \* the wallet dialog: "closed", "open", or the account asked for
    header,       \* X-Stellar-Address of the requests
    mounted,      \* isMountedRef of useBalance
    balance,      \* what the page shows: <<account, amount>>, or Zero
    fetching,     \* fetching[s]: NoFetch, or the account asked for and the amount read
    happened      \* counts against SessionBound

walletVars == <<xlm, savedAccount, address, connected, connecting, modal, header, mounted,
                balance, fetching, happened>>

Zero == <<NoAccount, 0>>
NoFetch == [of |-> NoAccount, read |-> -1]
Happens == happened < SessionBound /\ happened' = happened + 1

SessionInit ==
    /\ xlm = [a \in Accounts |-> 0]
    /\ savedAccount \in Accounts \cup {NoAccount, Corrupt}
    /\ address = NoAccount /\ connected = FALSE /\ connecting = FALSE
    /\ modal = "closed" /\ header = NoAccount
    /\ mounted = FALSE /\ balance = Zero
    /\ fetching = [s \in FetchSlots |-> NoFetch]
    /\ happened = 0

\* The effect of useBalance after the address became a: the answers of earlier
\* requests are not called off, the flag that would drop them is set again, and a
\* request for a begins unless there is no account.
BalanceEffect(a) ==
    /\ mounted' = TRUE
    /\ IF a = NoAccount THEN balance' = Zero /\ UNCHANGED fetching
       ELSE /\ UNCHANGED balance
            /\ \E s \in FetchSlots : /\ fetching[s] = NoFetch
                                     /\ fetching' = [fetching EXCEPT ![s].of = a]
\* The address changes: the header and the balance follow as effects.
SetAddress(a) ==
    /\ address' = a /\ header' = a
    /\ IF a = address THEN UNCHANGED <<mounted, balance, fetching>> ELSE BalanceEffect(a)

\* WalletProvider and useBalance are mounted: a saved connection is restored when its
\* wallet is there, and forgotten when it is not or is no address.
LoadPage ==
    /\ ~mounted
    /\ \/ savedAccount \in Accounts /\ SetAddress(savedAccount) /\ connected' = TRUE /\ UNCHANGED savedAccount
       \/ /\ savedAccount # NoAccount /\ savedAccount' = NoAccount
          /\ mounted' = TRUE /\ UNCHANGED <<address, header, connected, balance, fetching>>
       \/ /\ savedAccount = NoAccount
          /\ mounted' = TRUE /\ UNCHANGED <<savedAccount, address, header, connected, balance, fetching>>
    /\ UNCHANGED <<xlm, connecting, modal, happened>>

\* connect opens the dialog; the dialog then resolves, or fails, whatever the user
\* does in it.
WalletConnects ==
    /\ mounted /\ Happens
    /\ connecting' = TRUE /\ modal' = "open"
    /\ UNCHANGED <<xlm, savedAccount, address, connected, header, mounted, balance, fetching>>
ModalOpens ==
    /\ connecting /\ connecting' = FALSE
    /\ UNCHANGED <<xlm, savedAccount, address, connected, modal, header, mounted, balance, fetching, happened>>
ModalFails ==
    /\ connecting /\ connecting' = FALSE
    /\ connected' = FALSE /\ modal' = "closed"
    /\ UNCHANGED <<xlm, savedAccount, address, header, mounted, balance, fetching, happened>>

\* onWalletSelected asks the wallet for its address, and what follows the answer:
\* also one that comes after the user disconnected.
SelectWallet(a) ==
    /\ modal = "open" /\ modal' = a
    /\ UNCHANGED <<xlm, savedAccount, address, connected, connecting, header, mounted, balance, fetching, happened>>
WalletAnswers ==
    /\ modal \in Accounts /\ modal' = "closed" /\ mounted
    /\ \/ /\ SetAddress(modal) /\ connected' = TRUE
          /\ savedAccount' \in {modal, savedAccount}
       \/ UNCHANGED <<savedAccount, address, connected, header, mounted, balance, fetching>>
    /\ UNCHANGED <<xlm, connecting, happened>>

WalletDisconnects ==
    /\ mounted /\ address # NoAccount
    /\ SetAddress(NoAccount) /\ connected' = FALSE
    /\ savedAccount' \in {NoAccount, savedAccount}
    /\ UNCHANGED <<xlm, connecting, modal, happened>>

\* The component goes away, or the page: every answer is dropped.
LeavePage ==
    /\ mounted /\ Happens
    /\ mounted' = FALSE
    /\ address' = NoAccount /\ connected' = FALSE /\ connecting' = FALSE
    /\ modal' = "closed" /\ header' = NoAccount
    /\ balance' = Zero /\ fetching' = [s \in FetchSlots |-> NoFetch]
    /\ UNCHANGED <<xlm, savedAccount>>

-----------------------------------------------------------------------------
\* Mutant: the timer asks only as long as nothing is shown.
PollBalance_UntilShown(s) ==
    /\ mounted /\ address # NoAccount /\ fetching[s] = NoFetch
    /\ balance = Zero
    /\ fetching' = [fetching EXCEPT ![s].of = address]
    /\ UNCHANGED <<xlm, savedAccount, address, connected, connecting, modal, header, mounted, balance, happened>>

\* The timer of useBalance.
PollBalance(s) ==
    /\ mounted /\ address # NoAccount /\ fetching[s] = NoFetch
    /\ fetching' = [fetching EXCEPT ![s].of = address]
    /\ UNCHANGED <<xlm, savedAccount, address, connected, connecting, modal, header, mounted, balance, happened>>

ReadBalance(s) ==
    /\ fetching[s].of # NoAccount /\ fetching[s].read = -1
    /\ fetching' = [fetching EXCEPT ![s].read = xlm[fetching[s].of]]
    /\ UNCHANGED <<xlm, savedAccount, address, connected, connecting, modal, header, mounted, balance, happened>>

\* fetchBalance after its await.
BalanceArrives(s) ==
    /\ fetching[s].read # -1
    /\ fetching' = [fetching EXCEPT ![s] = NoFetch]
    /\ balance' = IF mounted THEN <<fetching[s].of, fetching[s].read>> ELSE balance
    /\ UNCHANGED <<xlm, savedAccount, address, connected, connecting, modal, header, mounted, happened>>
BalanceFails(s) ==
    /\ fetching[s] # NoFetch /\ Happens
    /\ fetching' = [fetching EXCEPT ![s] = NoFetch]
    /\ balance' = IF mounted THEN Zero ELSE balance
    /\ UNCHANGED <<xlm, savedAccount, address, connected, connecting, modal, header, mounted>>

\* Payments on the network.
Payment(a) ==
    /\ xlm[a] < PaymentBound /\ xlm' = [xlm EXCEPT ![a] = @ + 1]
    /\ UNCHANGED <<savedAccount, address, connected, connecting, modal, header, mounted, balance, fetching, happened>>

SessionNext ==
    \/ LoadPage \/ WalletConnects \/ ModalOpens \/ ModalFails \/ WalletAnswers \/ WalletDisconnects \/ LeavePage
    \/ \E a \in Accounts : SelectWallet(a) \/ Payment(a)
    \/ \E s \in FetchSlots : PollBalance(s) \/ ReadBalance(s) \/ BalanceArrives(s) \/ BalanceFails(s)

\* The timer runs and the network answers what it is asked.
SessionFairness ==
    \A s \in FetchSlots : /\ WF_walletVars(PollBalance(s))
                          /\ WF_walletVars(ReadBalance(s))
                          /\ WF_walletVars(BalanceArrives(s))
SessionSpec == SessionInit /\ [][SessionNext]_walletVars /\ SessionFairness

-----------------------------------------------------------------------------
\* Types of the variables.
SessionTypeOK ==
    /\ xlm \in [Accounts -> 0 .. PaymentBound]
    /\ savedAccount \in Accounts \cup {NoAccount, Corrupt}
    /\ address \in Accounts \cup {NoAccount} /\ header = address
    /\ connected \in BOOLEAN /\ connecting \in BOOLEAN /\ mounted \in BOOLEAN
    /\ modal \in Accounts \cup {"closed", "open"}

\* While an account is connected the page comes to show the balance of that account
\* and no other, although the answer to a request for an earlier account is shown
\* when it comes (useBalance drops answers by one flag that every effect sets again):
\* the timer makes good what the race did.
BalanceFollowsAccount ==
    <>[](address # NoAccount => balance = <<address, xlm[address]>>)

\* "Clear all cached data to prevent stale user-specific data" (WalletContext.tsx:293):
\* without an account the page shows no balance.  The same race breaks it, and no
\* timer runs without an account.
NoBalanceWithoutAccount == <>[](address = NoAccount => balance = Zero)
=============================================================================
