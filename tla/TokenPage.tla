----------------------------- MODULE TokenPage ------------------------------
(***************************************************************************)
(* The page of one token (app/t/[address]/page.tsx): it reads the token    *)
(* from the factory, falls back to the gateway's database in a read-only   *)
(* mode, reads again every minute and after a trade, celebrates the        *)
(* graduation it sees happen, and shows the progress to it                 *)
(* (GraduationProgressAnimated.tsx).  Reads overlap and arrive in any      *)
(* order; each fails on its own.                                           *)
(***************************************************************************)
EXTENDS FactoryClient, FiniteSets

CONSTANTS
    LoadSlots,    \* fetchToken calls at work at once
    Milestones,   \* XLM raised at which particles are shown
    PageTrades    \* the amounts others trade while the page is open

ASSUME TokenPageAssumption == Milestones \subseteq Nat /\ PageTrades \subseteq Nat

VARIABLES
    page,        \* useState: [loading, error, source, token, database, address]
    refs,        \* useRef: [mounted, source, previous, toastShown]
    toasts,      \* graduation toasts shown so far
    load,        \* load[s]: a fetchToken at work: [at, initial, info, address]
    inDatabase,  \* external: the row of the token at the gateway: "absent", "trading" or
                 \* "graduated"
    party        \* progress bar: [previous, particles, confetti]

pageOnly == <<page, refs, toasts, load, inDatabase, party>>
tokenPageVars == <<chainVars, pageOnly>>
Quiet == UNCHANGED clientVars   \* the trading widget of the page is idle here

NoLoad == [at |-> "idle", initial |-> FALSE, info |-> NoInfo, address |-> FALSE]

-----------------------------------------------------------------------------
\* What is rendered.  An error hides the page only when no source is left.
HasContractData(p) == p.source = "contract" /\ p.token.found
HasGraphqlData(p) == p.source = "graphql" /\ p.database # "absent"
Screen(p) ==
    CASE p.loading /\ ~p.token.found /\ p.database = "absent" -> "skeleton"
      [] p.error /\ p.source = "none" -> "failed"
      [] ~HasContractData(p) /\ ~HasGraphqlData(p) /\ ~p.loading -> "not found"
      [] HasContractData(p) -> "live"
      [] OTHER -> "read-only"

\* The parts of the page: the widget trades and the chart is drawn in live mode only.
Sections(p) ==
    CASE Screen(p) = "skeleton" -> {"skeleton"}
      [] Screen(p) \in {"failed", "not found"} -> {"retry"}
      [] Screen(p) = "live" -> {"header", "widget", "chart", "progress", "stats", "activity"}
      [] OTHER -> {"banner", "header", "disabled widget", "no chart", "progress", "stats", "activity"}
ShownXlm(p) == IF HasContractData(p) THEN p.token.raised ELSE FirstCurve.raised
\* Never so of the contract's answer, which the adapter reads as trading; the gateway's row
\* says it in the read-only mode.
ShownGraduated(p) ==
    \/ HasContractData(p) /\ p.token.status = "Graduated"
    \/ HasGraphqlData(p) /\ p.database = "graduated"

\* The milestones of the bar that are lit.
Reached(p) == {m \in Milestones : ShownXlm(p) >= m}

\* GraduationProgressAnimated after a render: particles at every milestone passed since
\* the last one, and the confetti once.  A bar that leaves the page forgets all of it.
Celebrated(p) ==
    LET passed == {m \in Reached(p) : party.previous < m}
    IN  IF "progress" \notin Sections(p)
        THEN [previous |-> 0, particles |-> {}, confetti |-> FALSE]
        ELSE [previous |-> ShownXlm(p), particles |-> party.particles \cup passed,
              confetti |-> party.confetti \/ ShownGraduated(p)]

\* What it shows: the card of a graduation, or the bar with the milestones reached.
GraduatedCard(p) ==
    IF "progress" \in Sections(p) /\ ShownGraduated(p)
    THEN {"trophy"} \cup (IF Celebrated(p).confetti THEN {"confetti"} ELSE {}) ELSE {}
ProgressCard(p) ==
    IF "progress" \in Sections(p) /\ ~ShownGraduated(p) THEN Reached(p) ELSE {}

-----------------------------------------------------------------------------
TokenPageInit ==
    /\ page = [loading |-> TRUE, error |-> FALSE, source |-> "none", token |-> NoInfo,
               database |-> "absent", address |-> FALSE]
    /\ toasts = 0
    /\ inDatabase \in {"absent", "trading"}
    /\ party = [previous |-> 0, particles |-> {}, confetti |-> FALSE]
    \* The page is open and the effect that runs on mount has called fetchToken(true), or
    \* nobody visits it.
    /\ \E first \in LoadSlots, open \in BOOLEAN :
          /\ refs = [mounted |-> open, source |-> "none", previous |-> "unknown", toastShown |-> FALSE]
          /\ load = [s \in LoadSlots |-> IF s = first /\ open
                                         THEN [NoLoad EXCEPT !.at = "contract", !.initial = TRUE]
                                         ELSE NoLoad]

StartLoad(s) ==
    /\ load[s].at = "idle" /\ refs.mounted
    /\ load' = [load EXCEPT ![s] = [NoLoad EXCEPT !.at = "contract"]]
    /\ UNCHANGED <<chainVars, page, refs, toasts, inDatabase, party>>

\* Mutant: the interval looks at the state of its first render.
PollToken_Closure(s) == refs.source = "none" /\ page.source = "contract" /\ StartLoad(s)
\* The interval of a minute polls only when the last answer came from the contract.
PollToken(s) == refs.source = "contract" /\ StartLoad(s)
\* onTradeSuccess, from the widget.
TradeSucceeds(s) == Screen(page) = "live" /\ StartLoad(s)

\* The three reads of Promise.allSettled; none of them throws.
ReadToken(s, ok) ==
    /\ load[s].at = "contract"
    /\ load' = [load EXCEPT ![s].at = "address", ![s].info = GetTokenInfo(ok)]
    /\ UNCHANGED <<chainVars, page, refs, toasts, inDatabase, party>>
ReadAddress(s, ok) ==
    /\ load[s].at = "address"
    /\ load' = [load EXCEPT ![s].at = "arrives", ![s].address = GetAmmPairAddress(ok)]
    /\ UNCHANGED <<chainVars, page, refs, toasts, inDatabase, party>>

\* The token was seen trading on its curve, and is seen graduated for the first time, which
\* the adapter never lets happen: no toast is ever shown.
JustGraduated(l) ==
    /\ ~l.initial /\ refs.previous = "trading" /\ l.info.status = "Graduated"
    /\ ~refs.toastShown

Shows(p) == page' = p /\ party' = Celebrated(p)

TokenArrives(s) ==
    LET l == load[s]
    IN  /\ l.at = "arrives" /\ refs.mounted /\ l.info.found
        /\ toasts' = toasts + (IF JustGraduated(l) THEN 1 ELSE 0)
        /\ refs' = [refs EXCEPT !.source = "contract", !.toastShown = @ \/ JustGraduated(l),
                 !.previous = IF l.info.status = "Graduated" THEN "graduated" ELSE "trading"]
        /\ Shows([page EXCEPT !.token = l.info, !.source = "contract", !.address = l.address,
                              !.loading = @ /\ ~l.initial])
        /\ load' = [load EXCEPT ![s] = NoLoad]
        /\ UNCHANGED <<chainVars, inDatabase>>

\* Nothing from the contract: the gateway is asked.
FallBack(s) ==
    /\ load[s].at = "arrives" /\ refs.mounted /\ ~load[s].info.found
    /\ load' = [load EXCEPT ![s].at = "graphql"]
    /\ UNCHANGED <<chainVars, page, refs, toasts, inDatabase, party>>

\* Its answer, or the error of both sources; the token read before is kept.
GraphqlArrives(s, ok) ==
    LET source == IF ok /\ inDatabase # "absent" THEN "graphql" ELSE "none"
    IN  /\ load[s].at = "graphql" /\ refs.mounted
        /\ refs' = [refs EXCEPT !.source = source]
        /\ Shows([page EXCEPT !.source = source, !.database = IF source = "graphql" THEN inDatabase ELSE @,
                              !.error = @ \/ source = "none",
                              !.loading = @ /\ ~load[s].initial])
        /\ load' = [load EXCEPT ![s] = NoLoad]
        /\ UNCHANGED <<chainVars, toasts, inDatabase>>

\* The gateway learns of the token from the chain, and of its graduation, which the
\* synchronisation with the chain takes back.
Indexed ==
    /\ inDatabase' \in {"trading"} \cup {status \in {"graduated"} : factoryToken.status = "Graduated"}
    /\ inDatabase' # inDatabase
    /\ UNCHANGED <<chainVars, page, refs, toasts, load, party>>

\* The user leaves: what arrives afterwards is dropped.
LeavePage ==
    /\ refs.mounted /\ refs' = [refs EXCEPT !.mounted = FALSE]
    /\ load' = [s \in LoadSlots |-> NoLoad]
    /\ UNCHANGED <<chainVars, page, toasts, inDatabase, party>>

\* Two seconds after they appeared, the particles of a milestone vanish.
ParticlesVanish ==
    \E m \in party.particles :
        /\ party' = [party EXCEPT !.particles = @ \ {m}]
        /\ UNCHANGED <<chainVars, page, refs, toasts, load, inDatabase>>

\* The chain beside the page.
PageChainMoves ==
    /\ \E x \in PageTrades : OthersTrade(x)
    /\ UNCHANGED pageOnly

TokenPageNext ==
    \/ PageChainMoves
    \/ Indexed /\ Quiet
    \/ LeavePage /\ Quiet
    \/ ParticlesVanish /\ Quiet
    \/ \E s \in LoadSlots :
          \/ PollToken(s) /\ Quiet
          \/ TradeSucceeds(s) /\ Quiet
          \/ \E ok \in BOOLEAN : ReadToken(s, ok) /\ Quiet
          \/ \E ok \in BOOLEAN : ReadAddress(s, ok) /\ Quiet
          \/ TokenArrives(s) /\ Quiet
          \/ FallBack(s) /\ Quiet
          \/ \E ok \in BOOLEAN : GraphqlArrives(s, ok) /\ Quiet

\* The interval fires for ever, every read ends, and the particles' timer runs.  That
\* reads succeed again and again is assumed of the network.
TokenPageFairness ==
    /\ WF_<<factoryVars, pageOnly>>(ParticlesVanish /\ Quiet)
    /\ \A s \in LoadSlots :
          /\ WF_<<factoryVars, pageOnly>>(PollToken(s) /\ Quiet)
          /\ WF_<<factoryVars, pageOnly>>(\E ok \in BOOLEAN : ReadToken(s, ok) /\ Quiet)
          /\ SF_<<factoryVars, pageOnly>>(ReadToken(s, TRUE) /\ Quiet)
          /\ WF_<<factoryVars, pageOnly>>(\E ok \in BOOLEAN : ReadAddress(s, ok) /\ Quiet)
          /\ WF_<<factoryVars, pageOnly>>(TokenArrives(s) /\ Quiet)
          /\ WF_<<factoryVars, pageOnly>>(FallBack(s) /\ Quiet)
          /\ WF_<<factoryVars, pageOnly>>(\E ok \in BOOLEAN : GraphqlArrives(s, ok) /\ Quiet)

-----------------------------------------------------------------------------
\* A visitor who stays sees what the token raised, also through its graduation and in
\* whatever order the reads that overlap arrive, or the page has lost the contract as its
\* source, which stops the polling for good.
PageFollowsToken ==
    <>[](ShownXlm(page) = factoryToken.raised \/ refs.source # "contract" \/ ~refs.mounted)
=============================================================================
