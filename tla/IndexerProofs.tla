---------------------------- MODULE IndexerProofs ---------------------------
(***************************************************************************)
(* Proofs about the database of the indexer, for any chain, any page and   *)
(* cache size and any number of overlapping sync runs: who writes the      *)
(* token rows, what has a transaction, and what the cursor has passed.     *)
(***************************************************************************)
EXTENDS BlockchainSync, ArithmeticTheorems, SequenceTheorems

-----------------------------------------------------------------------------
Kinds == {"launched", "bought", "sold", "graduated"}
Trades == {"bought", "sold"}
Ev == [ledger : Nat, kind : Kinds, token : Tokens, amount : Int]
IsTrade(i) == chain[i].kind \in Trades
Total(t) == SumFunctionOnSet(TradeAmount(t), txRow)

(* The chain: ledgers never decrease, and trades are of no less than zero. *)
ChainInv ==
  /\ head \in Nat /\ chain \in Seq(Ev)
  /\ \A i \in 1 .. Len(chain) : IsTrade(i) => chain[i].amount \in Nat
  /\ \A i \in 1 .. Len(chain) : chain[i].ledger <= head
  /\ \A i, j \in 1 .. Len(chain) : i <= j => chain[i].ledger <= chain[j].ledger

(* A row is none, or counts a volume.                                      *)
RowShape(r) == DOMAIN r = {"raised", "volume", "graduated"}
GoodRow(r) == RowShape(r) /\ (r = NoRow \/ r.volume \in Nat)
RowsInv ==
  /\ tokenRow = [t \in Tokens |-> tokenRow[t]]
  /\ \A t \in Tokens : GoodRow(tokenRow[t])
  /\ txRow \subseteq 1 .. Len(chain) /\ IsFiniteSet(txRow)

(* The handler at work holds what it read of the row, plus its own trade:  *)
(* nobody else writes transactions meanwhile.                              *)
HandlerInv ==
  /\ DOMAIN handler = {"at", "id", "row"}
  /\ handler.at \in {"none", "check", "commit", "done"}
  /\ handler.at # "none" => handler.id \in 1 .. Len(chain)
  /\ handler.at = "commit" =>
       LET e == chain[handler.id]
       IN  /\ e.kind \in {"launched"} \cup Trades
           /\ handler.row # NoRow =>
                /\ RowShape(handler.row) /\ handler.row.volume \in Nat
                /\ e.kind = "launched" => handler.row.volume = 0
                /\ e.kind \in Trades => /\ HasRow(e.token)
                                        /\ handler.row.volume <= Total(e.token) + e.amount

(* Rows never vanish, so a sync run lists only rows that are there and the *)
(* gateway's creations all have one.                                       *)
WritersInv ==
  /\ sync = [s \in Syncers |-> sync[s]]
  /\ \A s \in Syncers : /\ DOMAIN sync[s] = {"busy", "forced", "todo", "rows", "fetched"}
                        /\ \A t \in sync[s].todo : t \in Tokens /\ HasRow(t)
  /\ DOMAIN gateway = {"tokens", "left", "info"} /\ gateway.tokens \subseteq Tokens
  /\ gateway.info = NoRow \/ (RowShape(gateway.info) /\ gateway.info.volume = 0)
  /\ \A t \in creationTx : t \in Tokens /\ HasRow(t)

(* What the sync-tokens script holds of a token counts no volume.          *)
ScriptInv ==
  /\ DOMAIN script = {"todo", "at", "info"}
  /\ script.at # {} => RowShape(script.info) /\ script.info.volume = 0

(* The page of the poll at work holds events of the chain, and the cursor  *)
(* is a ledger of the past; its copy is empty or the same.                 *)
PageInv ==
  /\ DOMAIN poll = {"at", "rest", "latest"} /\ poll.rest \in Seq(1 .. Len(chain))
  /\ poll.latest \in Nat /\ poll.latest <= head
  /\ poll.at = "handling" => poll.rest # <<>>
CursorKnown == cursorRow \in Nat /\ cursorRow <= head /\ cursorCache \in {0, cursorRow}

RecordsInv ==
  /\ ChainInv /\ RowsInv /\ HandlerInv /\ WritersInv /\ PageInv /\ CursorKnown
  /\ VolumeHasTransactions /\ LaunchRecordedOnce

(* A trade is accounted for when it has a transaction, a fault lost it or  *)
(* its topic has no case.                                                  *)
Accounted(i) == i \in txRow \cup lost \cup unhandled

(* All that the cursor or the answer of the poll at work covers is         *)
(* accounted for or still in the page.                                     *)
CursorInv ==
  /\ poll.at \in {"none", "next", "handling"}
  /\ poll.at = "none" => poll = NoPoll
  /\ \A i \in Range(poll.rest) : chain[i].ledger <= poll.latest
  /\ poll.at = "handling" => handler.at # "none" /\ handler.id = Head(poll.rest)
  /\ poll.at = "handling" /\ handler.at = "done" /\ IsTrade(handler.id) => Accounted(handler.id)
  /\ seen \in Seq(1 .. Len(chain)) /\ \A i \in Range(seen) : IsTrade(i) => Accounted(i)
  /\ poll.at # "none" => \A i \in 1 .. Len(chain) :
        chain[i].ledger <= poll.latest /\ IsTrade(i) => Accounted(i) \/ i \in Range(poll.rest)

-----------------------------------------------------------------------------
(* What the chain holds.                                                   *)
LEMMA ChainFacts ==
  ASSUME ChainInv
  PROVE  /\ Len(chain) \in Nat /\ DOMAIN chain = 1 .. Len(chain)
         /\ \A i \in 1 .. Len(chain) : /\ chain[i] \in Ev /\ chain[i].ledger \in Nat
                                       /\ chain[i].kind \in Kinds /\ chain[i].token \in Tokens
                                       /\ chain[i].amount \in Int
<1>1. Len(chain) \in Nat /\ DOMAIN chain = 1 .. Len(chain) /\ \A i \in 1 .. Len(chain) : chain[i] \in Ev
  BY DEF ChainInv
<1>2. QED
  BY <1>1 DEF Ev

LEMMA RaisedIsInteger ==
  ASSUME ChainInv, NEW t
  PROVE  OnChain(t).raised \in Int
<1> DEFINE f == [i \in DOMAIN chain |-> Signed(i)]
           S == EventsUpTo(Len(chain), t)
<1>1. S \subseteq 1 .. Len(chain) /\ IsFiniteSet(S)
  <2>1. S \subseteq 1 .. Len(chain)
    BY DEF EventsUpTo
  <2>2. 1 \in Int /\ Len(chain) \in Int
    BY ChainFacts
  <2>3. IsFiniteSet(1 .. Len(chain))
    BY <2>2, FS_Interval
  <2>4. QED
    BY <2>1, <2>3, FS_Subset
<1>2. \A i \in 1 .. Len(chain) : Signed(i) \in Int
  <2>1. TAKE i \in 1 .. Len(chain)
  <2>2. chain[i].amount \in Int /\ -chain[i].amount \in Int
    BY ChainFacts
  <2>3. Signed(i) = chain[i].amount \/ Signed(i) = -chain[i].amount \/ Signed(i) = 0
    BY DEF Signed
  <2>4. QED
    BY <2>2, <2>3
<1>3. \A i \in S : f[i] \in Int
  BY <1>1, <1>2, ChainFacts
<1>4. OnChain(t).raised = SumFunctionOnSet(f, S)
  BY DEF OnChain
<1> HIDE DEF f, S
<1>5. \A i \in S : f[i] = f[i]
  OBVIOUS
<1>6. SumFunctionOnSet(f, S) \in Int
  BY <1>1, <1>3, <1>5, SumCongruence
<1>7. QED
  BY <1>4, <1>6

(* A ledger closes: the chain goes on with events of a new ledger.         *)
ChainGoesOn ==
  /\ ChainInv' /\ head' = head + 1 /\ Len(chain) <= Len(chain')
  /\ \A i \in 1 .. Len(chain) : chain'[i] = chain[i]
  /\ \A i \in 1 .. Len(chain') : i \notin 1 .. Len(chain) => chain'[i].ledger = head + 1

LEMMA OneMore ==
  ASSUME ChainInv, NEW e \in Ev, e.ledger = head + 1, e.kind \in Trades => e.amount \in Nat,
         head' = head + 1, chain' = Append(chain, e)
  PROVE  ChainGoesOn
<1>1. /\ Len(chain') = Len(chain) + 1 /\ chain' \in Seq(Ev) /\ Len(chain) \in Nat
      /\ \A i \in 1 .. Len(chain) : chain'[i] = chain[i]
      /\ chain'[Len(chain) + 1] = e
  BY DEF ChainInv
<1>2. \A i \in 1 .. Len(chain') : i \notin 1 .. Len(chain) => chain'[i] = e
  BY <1>1
<1>3. \A i \in 1 .. Len(chain') : i \in 1 .. Len(chain) \/ i = Len(chain) + 1
  BY <1>1
<1>4. ChainInv'
  <2>1. \A i \in 1 .. Len(chain') : chain'[i].kind \in Trades => chain'[i].amount \in Nat
    BY <1>1, <1>2 DEF ChainInv, IsTrade
  <2>2. \A i \in 1 .. Len(chain') : chain'[i].ledger <= head + 1
    BY <1>1, <1>2, ChainFacts DEF ChainInv
  <2>3. \A i, j \in 1 .. Len(chain') : i <= j => chain'[i].ledger <= chain'[j].ledger
    <3>1. SUFFICES ASSUME NEW i \in 1 .. Len(chain'), NEW j \in 1 .. Len(chain'), i <= j
                   PROVE  chain'[i].ledger <= chain'[j].ledger
      OBVIOUS
    <3>2. CASE j \in 1 .. Len(chain)
      <4>1. i \in 1 .. Len(chain)
        BY <1>1, <3>1, <3>2
      <4>2. QED
        BY <1>1, <3>1, <3>2, <4>1 DEF ChainInv
    <3>3. CASE j \notin 1 .. Len(chain)
      BY <1>2, <2>2, <3>3
    <3>4. QED
      BY <3>2, <3>3
  <2>4. head' \in Nat
    BY DEF ChainInv
  <2>5. QED
    BY <1>1, <2>1, <2>2, <2>3, <2>4 DEF ChainInv, IsTrade
<1>5. QED
  BY <1>1, <1>2, <1>4 DEF ChainGoesOn

(* Two events of one ledger.                                               *)
LEMMA TwoMore ==
  ASSUME ChainInv, NEW d \in Ev, NEW e \in Ev, d.ledger = head + 1, e.ledger = head + 1,
         d.kind \in Trades => d.amount \in Nat, e.kind \in Trades => e.amount \in Nat,
         head' = head + 1, chain' = chain \o <<d, e>>
  PROVE  ChainGoesOn
<1>1. /\ Len(chain') = Len(chain) + 2 /\ chain' \in Seq(Ev) /\ Len(chain) \in Nat
      /\ \A i \in 1 .. Len(chain) : chain'[i] = chain[i]
      /\ chain'[Len(chain) + 1] = d /\ chain'[Len(chain) + 2] = e
  BY DEF ChainInv
<1>2. \A i \in 1 .. Len(chain') : i \notin 1 .. Len(chain) => chain'[i] = d \/ chain'[i] = e
  <2>1. \A i \in 1 .. Len(chain') : i \in 1 .. Len(chain) \/ i = Len(chain) + 1 \/ i = Len(chain) + 2
    BY <1>1
  <2>2. QED
    BY <1>1, <2>1
<1>3. \A i \in 1 .. Len(chain') : i \notin 1 .. Len(chain) =>
        chain'[i].ledger = head + 1 /\ (chain'[i].kind \in Trades => chain'[i].amount \in Nat)
  BY <1>2
<1>4. ChainInv'
  <2>1. \A i \in 1 .. Len(chain') : chain'[i].kind \in Trades => chain'[i].amount \in Nat
    BY <1>1, <1>3 DEF ChainInv, IsTrade
  <2>2. \A i \in 1 .. Len(chain') : chain'[i].ledger <= head + 1
    BY <1>1, <1>3, ChainFacts DEF ChainInv
  <2>3. \A i, j \in 1 .. Len(chain') : i <= j => chain'[i].ledger <= chain'[j].ledger
    <3>1. SUFFICES ASSUME NEW i \in 1 .. Len(chain'), NEW j \in 1 .. Len(chain'), i <= j
                   PROVE  chain'[i].ledger <= chain'[j].ledger
      OBVIOUS
    <3>2. CASE j \in 1 .. Len(chain)
      <4>1. i \in 1 .. Len(chain)
        BY <1>1, <3>1, <3>2
      <4>2. QED
        BY <1>1, <3>1, <3>2, <4>1 DEF ChainInv
    <3>3. CASE j \notin 1 .. Len(chain)
      BY <1>3, <2>2, <3>3
    <3>4. QED
      BY <3>2, <3>3
  <2>4. head' \in Nat
    BY DEF ChainInv
  <2>5. QED
    BY <1>1, <2>1, <2>2, <2>3, <2>4 DEF ChainInv, IsTrade
<1>5. QED
  BY <1>1, <1>3, <1>4 DEF ChainGoesOn

LEMMA NewEvents ==
  ASSUME ChainInv, NEW t \in Tokens, NEW k \in Kinds, NEW a \in Int
  PROVE  /\ Event(k, t, a) \in Ev /\ Event(k, t, a).ledger = head + 1
         /\ Event(k, t, a).kind = k /\ Event(k, t, a).amount = a
<1>1. head + 1 \in Nat
  BY DEF ChainInv
<1>2. QED
  BY <1>1 DEF Event, Ev

LEMMA LedgerClosesGrows ==
  ASSUME ChainInv, NEW t \in Tokens, NEW a \in Amounts, LedgerCloses(t, a)
  PROVE  ChainGoesOn
<1>1. a \in Nat /\ a \in Int /\ 0 \in Nat /\ 0 \in Int
  BY TokenAssumption
<1>2. OnChain(t).raised + a \in Int
  BY <1>1, RaisedIsInteger
<1>3. "launched" \in Kinds /\ "bought" \in Kinds /\ "sold" \in Kinds /\ "graduated" \in Kinds
      /\ "graduated" \notin Trades
  BY DEF Kinds, Trades
<1>4. head' = head + 1
  BY DEF LedgerCloses
<1> DEFINE l == Event("launched", t, 0)
           b == Event("bought", t, a)
           s == Event("sold", t, a)
           g == Event("graduated", t, OnChain(t).raised + a)
<1>5. \/ chain' = Append(chain, l) \/ chain' = chain \o <<l, b>> \/ chain' = chain \o <<b, b>>
      \/ chain' = Append(chain, b) \/ chain' = chain \o <<b, g>> \/ chain' = Append(chain, s)
  BY DEF LedgerCloses
<1>6. /\ l \in Ev /\ l.ledger = head + 1 /\ (l.kind \in Trades => l.amount \in Nat)
      /\ b \in Ev /\ b.ledger = head + 1 /\ (b.kind \in Trades => b.amount \in Nat)
      /\ s \in Ev /\ s.ledger = head + 1 /\ (s.kind \in Trades => s.amount \in Nat)
  <2>1. l \in Ev /\ l.ledger = head + 1 /\ l.amount = 0
    BY <1>1, <1>3, NewEvents
  <2>2. b \in Ev /\ b.ledger = head + 1 /\ b.amount = a
    BY <1>1, <1>3, NewEvents
  <2>3. s \in Ev /\ s.ledger = head + 1 /\ s.amount = a
    BY <1>1, <1>3, NewEvents
  <2> HIDE DEF l, b, s
  <2>4. QED
    BY <1>1, <2>1, <2>2, <2>3
<1>7. g \in Ev /\ g.ledger = head + 1 /\ (g.kind \in Trades => g.amount \in Nat)
  <2>1. g \in Ev /\ g.ledger = head + 1 /\ g.kind = "graduated"
    BY <1>2, <1>3, NewEvents
  <2> HIDE DEF g
  <2>2. QED
    BY <1>3, <2>1
<1> HIDE DEF l, b, s, g
<1>8. CASE chain' = Append(chain, l)
  BY <1>4, <1>6, <1>8, OneMore
<1>9. CASE chain' = Append(chain, b)
  BY <1>4, <1>6, <1>9, OneMore
<1>10. CASE chain' = Append(chain, s)
  BY <1>4, <1>6, <1>10, OneMore
<1>11. CASE chain' = chain \o <<l, b>>
  BY <1>4, <1>6, <1>11, TwoMore
<1>12. CASE chain' = chain \o <<b, g>>
  BY <1>4, <1>6, <1>7, <1>12, TwoMore
<1>13. CASE chain' = chain \o <<b, b>>
  BY <1>4, <1>6, <1>13, TwoMore
<1>14. QED
  BY <1>5, <1>8, <1>9, <1>10, <1>11, <1>12, <1>13

(* What the trades of a token sum to.                                      *)
LEMMA TradeAmounts ==
  ASSUME ChainInv, NEW t, NEW i \in 1 .. Len(chain)
  PROVE  /\ TradeAmount(t)[i] \in Nat
         /\ chain[i].token = t /\ IsTrade(i) => TradeAmount(t)[i] = chain[i].amount
<1>1. i \in DOMAIN chain
  BY ChainFacts
<1>2. TradeAmount(t)[i] = IF chain[i].token = t /\ IsTrade(i) THEN chain[i].amount ELSE 0
  BY <1>1 DEF TradeAmount, IsTrade, Trades
<1>3. IsTrade(i) => chain[i].amount \in Nat
  BY DEF ChainInv
<1>4. QED
  BY <1>2, <1>3

LEMMA TotalIsNatural ==
  ASSUME ChainInv, RowsInv, NEW t
  PROVE  Total(t) \in Nat
<1> DEFINE f == TradeAmount(t)
<1>1. \A i \in txRow : f[i] \in Nat
  BY TradeAmounts DEF RowsInv
<1> HIDE DEF f
<1>2. \A i \in txRow : f[i] \in Int /\ f[i] >= 0
  BY <1>1
<1>3. IsFiniteSet(txRow)
  BY DEF RowsInv
<1>4. SumFunctionOnSet(f, txRow) \in Nat
  BY <1>2, <1>3, SumNonNegative
<1>5. QED
  BY <1>4 DEF Total, f

(* The chain goes on: no row and no transaction has another trade for it.  *)
LEMMA TotalStands ==
  ASSUME ChainInv, RowsInv, ChainGoesOn, UNCHANGED txRow, NEW t
  PROVE  Total(t)' = Total(t)
<1> DEFINE f == TradeAmount(t)
<1>1. \A i \in txRow : f[i] \in Int
  <2>1. \A i \in txRow : f[i] \in Nat
    BY TradeAmounts DEF RowsInv
  <2>2. QED
    BY <2>1
<1>2. IsFiniteSet(txRow) /\ txRow \subseteq 1 .. Len(chain)
  BY DEF RowsInv
<1>3. Len(chain) \in Nat /\ DOMAIN chain = 1 .. Len(chain) /\ Len(chain') \in Nat
      /\ DOMAIN chain' = 1 .. Len(chain') /\ Len(chain) <= Len(chain')
  <2>1. Len(chain) \in Nat /\ DOMAIN chain = 1 .. Len(chain)
    BY ChainFacts
  <2>2. chain' \in Seq(Ev) /\ Len(chain) <= Len(chain')
    BY DEF ChainGoesOn, ChainInv, Ev
  <2>3. QED
    BY <2>1, <2>2
<1>4. \A i \in txRow : i \in DOMAIN chain /\ i \in DOMAIN chain' /\ chain'[i] = chain[i]
  BY <1>2, <1>3 DEF ChainGoesOn
<1>5. PICK h : h = TradeAmount(t)'
  OBVIOUS
<1>6. \A i \in txRow : h[i] = f[i]
  BY <1>4, <1>5 DEF TradeAmount
<1> HIDE DEF f
<1>7. SumFunctionOnSet(h, txRow) = SumFunctionOnSet(f, txRow)
  BY <1>1, <1>2, <1>6, SumCongruence
<1>8. Total(t)' = SumFunctionOnSet(h, txRow)
  BY <1>5 DEF Total
<1>9. Total(t) = SumFunctionOnSet(f, txRow)
  BY DEF Total, f
<1>10. QED
  BY <1>7, <1>8, <1>9

(* A new transaction adds the amount of its trade, or nothing.             *)
LEMMA TotalAdds ==
  ASSUME ChainInv, RowsInv, NEW i \in 1 .. Len(chain), i \notin txRow,
         UNCHANGED chain, txRow' = txRow \cup {i}, NEW t
  PROVE  /\ Total(t) <= Total(t)' /\ Total(t)' \in Nat
         /\ chain[i].token = t /\ IsTrade(i) => Total(t)' = Total(t) + chain[i].amount
<1> DEFINE f == TradeAmount(t)
<1>1. f[i] \in Nat /\ (chain[i].token = t /\ IsTrade(i) => f[i] = chain[i].amount)
  BY TradeAmounts
<1>2. \A j \in txRow \cup {i} : f[j] \in Int
  <2>1. \A j \in txRow \cup {i} : f[j] \in Nat
    BY TradeAmounts DEF RowsInv
  <2>2. QED
    BY <2>1
<1>3. Total(t)' = SumFunctionOnSet(f, txRow \cup {i})
  BY DEF Total, TradeAmount
<1>4. Total(t) = SumFunctionOnSet(f, txRow) /\ Total(t) \in Nat /\ IsFiniteSet(txRow)
  BY TotalIsNatural DEF Total, RowsInv
<1> HIDE DEF f
<1>5. SumFunctionOnSet(f, txRow \cup {i}) = SumFunctionOnSet(f, txRow) + f[i]
  <2>1. PICK F, S : F = f /\ S = txRow
    OBVIOUS
  <2>2. IsFiniteSet(S) /\ i \notin S /\ \A j \in S \cup {i} : F[j] \in Int
    BY <1>2, <1>4, <2>1
  <2>3. SumFunctionOnSet(F, S \cup {i}) = SumFunctionOnSet(F, S) + F[i]
    BY <2>2, SumAddsElement
  <2>4. QED
    BY <2>1, <2>3
<1>6. PICK a, b : a = Total(t) /\ b = Total(t)'
  OBVIOUS
<1>7. b = a + f[i] /\ a \in Nat
  BY <1>3, <1>4, <1>5, <1>6
<1>8. a <= b /\ b \in Nat
  BY <1>1, <1>7
<1>9. QED
  BY <1>1, <1>6, <1>7, <1>8

(* A step that moves no transaction and no chain moves no total.           *)
LEMMA TotalSame ==
  ASSUME UNCHANGED <<chain, txRow>>, NEW t
  PROVE  Total(t)' = Total(t)
  BY DEF Total, TradeAmount

(* What no step ever takes back: the chain, that a token has a row, and    *)
(* the transactions of its trades.                                         *)
Persist ==
  /\ Len(chain) <= Len(chain') /\ \A i \in 1 .. Len(chain) : chain'[i] = chain[i]
  /\ \A t \in Tokens : HasRow(t) => HasRow(t)'
  /\ \A t \in Tokens : Total(t)' \in Nat /\ Total(t) <= Total(t)'

LEMMA SameRowsPersist ==
  ASSUME ChainInv, RowsInv, UNCHANGED <<chain, txRow>>, \A t \in Tokens : HasRow(t) => HasRow(t)'
  PROVE  Persist
<1>1. \A t \in Tokens : Total(t) \in Nat
  BY TotalIsNatural
<1>2. \A t \in Tokens : Total(t)' = Total(t)
  BY TotalSame
<1>3. Len(chain) \in Nat
  BY ChainFacts
<1>4. \A t \in Tokens : Total(t)' \in Nat /\ Total(t) <= Total(t)'
  <2>1. TAKE t \in Tokens
  <2>2. PICK a, b : a = Total(t) /\ b = Total(t)'
    OBVIOUS
  <2>3. a \in Nat /\ b = a
    BY <1>1, <1>2, <2>2
  <2>4. b \in Nat /\ a <= b
    BY <2>3
  <2>5. QED
    BY <2>2, <2>4
<1>5. Len(chain) <= Len(chain') /\ \A i \in 1 .. Len(chain) : chain'[i] = chain[i]
  BY <1>3
<1>6. QED
  BY <1>4, <1>5, Zenon DEF Persist

(* The handler at work, and the other writers, go on with what they hold.  *)
LEMMA HandlerStands ==
  ASSUME ChainInv, RowsInv, HandlerInv, ChainInv', Persist, UNCHANGED handler
  PROVE  HandlerInv'
<1>1. Len(chain) \in Nat /\ Len(chain') \in Nat /\ Len(chain) <= Len(chain')
  BY ChainFacts DEF ChainInv, Persist
<1>2. handler.at # "none" => handler.id \in 1 .. Len(chain)
                             /\ handler.id \in 1 .. Len(chain') /\ chain'[handler.id] = chain[handler.id]
  BY <1>1 DEF HandlerInv, Persist
<1>3. SUFFICES ASSUME handler.at = "commit", handler.row # NoRow,
                      NEW t, NEW a, t = chain[handler.id].token, a = chain[handler.id].amount,
                      chain[handler.id].kind \in Trades
               PROVE  HasRow(t)' /\ handler.row.volume <= Total(t)' + a
  BY <1>2, ChainFacts, Zenon DEF HandlerInv
<1>6. t \in Tokens /\ a \in Int
  BY <1>2, <1>3, ChainFacts
<1>7. HasRow(t) /\ handler.row.volume \in Nat /\ handler.row.volume <= Total(t) + a
  BY <1>3 DEF HandlerInv
<1>8. Total(t) \in Nat /\ Total(t)' \in Nat /\ Total(t) <= Total(t)' /\ HasRow(t)'
  BY <1>6, <1>7, TotalIsNatural DEF Persist
<1>9. PICK p, q, v : p = Total(t) /\ q = Total(t)' /\ v = handler.row.volume
  OBVIOUS
<1>10. v <= q + a
  BY <1>6, <1>7, <1>8, <1>9
<1>11. QED
  BY <1>8, <1>9, <1>10

LEMMA WritersStand ==
  ASSUME WritersInv, Persist, UNCHANGED <<sync, gateway, creationTx>>
  PROVE  WritersInv'
<1>1. \A t \in Tokens : HasRow(t) => HasRow(t)'
  BY DEF Persist
<1>2. QED
  BY <1>1, Zenon DEF WritersInv

LEMMA LaunchStands ==
  ASSUME ChainInv, RowsInv, LaunchRecordedOnce, Persist, UNCHANGED <<txRow, creationTx>>
  PROVE  LaunchRecordedOnce'
<1>1. \A i \in txRow : chain'[i] = chain[i]
  BY DEF RowsInv, Persist
<1>2. QED
  BY <1>1, Zenon DEF LaunchRecordedOnce

(* A row that a writer wrote counts no more than the transactions say.     *)
LEMMA RowMoves ==
  ASSUME RowsInv, VolumeHasTransactions,
         \A t \in Tokens : Total(t) \in Nat /\ Total(t)' \in Nat /\ Total(t) <= Total(t)',
         NEW t \in Tokens, NEW r, RowShape(r), r.volume \in Nat, r.volume <= Total(t)',
         tokenRow' = [tokenRow EXCEPT ![t] = r]
  PROVE  /\ tokenRow' = [u \in Tokens |-> tokenRow'[u]]
         /\ \A u \in Tokens : GoodRow(tokenRow'[u]) /\ (HasRow(u) => HasRow(u)')
         /\ VolumeHasTransactions' /\ HasRow(t)'
<1>1. tokenRow = [u \in Tokens |-> tokenRow[u]]
  BY DEF RowsInv
<1>2. tokenRow' = [u \in Tokens |-> tokenRow'[u]] /\ tokenRow'[t] = r
      /\ \A u \in Tokens : u # t => tokenRow'[u] = tokenRow[u]
  BY <1>1
<1>3. r # NoRow /\ GoodRow(r)
  BY DEF NoRow, GoodRow
<1>4. \A u \in Tokens : GoodRow(tokenRow'[u]) /\ (HasRow(u) => HasRow(u)')
  BY <1>2, <1>3, Zenon DEF RowsInv, HasRow
<1>5. VolumeHasTransactions'
  <2>1. \A u \in Tokens : tokenRow'[u].volume <= Total(u)'
    <3>1. TAKE u \in Tokens
    <3>2. CASE u = t
      BY <1>2, <3>2
    <3>3. CASE u # t
      <4>1. tokenRow'[u] = tokenRow[u] /\ tokenRow[u].volume <= Total(u) /\ GoodRow(tokenRow[u])
        BY <1>2, <3>3 DEF VolumeHasTransactions, Total, RowsInv
      <4>2. tokenRow[u].volume \in Int
        BY <4>1 DEF GoodRow, NoRow
      <4>3. PICK p, q, v : p = Total(u) /\ q = Total(u)' /\ v = tokenRow[u].volume
        OBVIOUS
      <4>4. p \in Nat /\ q \in Nat /\ p <= q /\ v \in Int /\ v <= p
        BY <4>1, <4>2, <4>3
      <4>5. v <= q
        BY <4>4
      <4>6. QED
        BY <4>1, <4>3, <4>5
    <3>4. QED
      BY <3>2, <3>3
  <2>2. QED
    BY <2>1 DEF VolumeHasTransactions, Total
<1>6. HasRow(t)'
  BY <1>2, <1>3 DEF HasRow
<1>7. QED
  BY <1>2, <1>4, <1>5, <1>6

(* The events of a ledger and later are the end of the chain.              *)
LEMMA SuffixExists ==
  ASSUME ChainInv, NEW l \in Nat
  PROVE  \E n \in 0 .. Len(chain) : \A i \in DOMAIN chain : chain[i].ledger >= l <=> i > n
<1> DEFINE R == {i \in 1 .. Len(chain) : chain[i].ledger < l}
<1>1. Len(chain) \in Nat /\ DOMAIN chain = 1 .. Len(chain)
      /\ \A i \in 1 .. Len(chain) : chain[i].ledger \in Nat
  BY ChainFacts
<1>2. CASE R = {}
  <2>1. \A i \in DOMAIN chain : chain[i].ledger >= l <=> i > 0
    BY <1>1, <1>2
  <2>2. 0 \in 0 .. Len(chain)
    BY <1>1
  <2>3. QED
    BY <2>1, <2>2
<1>3. CASE R # {}
  <2>1. IsFiniteSet(1 .. Len(chain))
    <3>1. 1 \in Int /\ Len(chain) \in Int
      BY <1>1
    <3>2. QED
      BY <3>1, FS_Interval
  <2>2. IsFiniteSet(R) /\ \A i \in R : i \in Int
    BY <2>1, FS_Subset
  <2>3. PICK n \in R : \A j \in R : j <= n
    BY <1>3, <2>2, LargestElement
  <2>4. n \in 0 .. Len(chain) /\ n \in 1 .. Len(chain) /\ chain[n].ledger < l
    BY <1>1, <2>3
  <2>5. \A i \in DOMAIN chain : i > n => chain[i].ledger >= l
    BY <1>1, <2>3
  <2>6. \A i \in DOMAIN chain : i <= n => chain[i].ledger < l
    <3>1. TAKE i \in DOMAIN chain
    <3>2. HAVE i <= n
    <3>3. chain[i].ledger <= chain[n].ledger
      BY <1>1, <2>4, <3>2 DEF ChainInv
    <3>4. QED
      BY <1>1, <2>4, <3>3
  <2>7. \A i \in DOMAIN chain : chain[i].ledger >= l <=> i > n
    BY <1>1, <2>4, <2>5, <2>6
  <2>8. QED
    BY <2>4, <2>7
<1>4. QED
  BY <1>2, <1>3

LEMMA FromLedgerFacts ==
  ASSUME ChainInv, NEW l \in Nat
  PROVE  /\ FromLedger(l) \in Seq(1 .. Len(chain))
         /\ \A i \in 1 .. Len(chain) : i \in Range(FromLedger(l)) <=> chain[i].ledger >= l
<1> DEFINE n == CHOOSE n \in 0 .. Len(chain) :
                    \A i \in DOMAIN chain : chain[i].ledger >= l <=> i > n
<1>1. n \in 0 .. Len(chain) /\ \A i \in DOMAIN chain : chain[i].ledger >= l <=> i > n
  BY SuffixExists
<1>2. FromLedger(l) = [k \in 1 .. Len(chain) - n |-> n + k]
  BY DEF FromLedger
<1> HIDE DEF n
<1>3. Len(chain) \in Nat /\ DOMAIN chain = 1 .. Len(chain)
  BY ChainFacts
<1>4. PICK m, N, s : m = n /\ N = Len(chain) /\ s = FromLedger(l)
  OBVIOUS
<1>5. m \in Nat /\ N \in Nat /\ N - m \in Nat /\ s = [k \in 1 .. N - m |-> m + k]
  BY <1>1, <1>2, <1>3, <1>4
<1>6. s \in Seq(1 .. N)
  <2>1. \A k \in 1 .. N - m : m + k \in 1 .. N
    BY <1>5
  <2>2. QED
    BY <1>5, <2>1
<1>7. \A i \in 1 .. N : i \in Range(s) <=> i > m
  <2>1. \A k \in 1 .. N - m : s[k] = m + k
    BY <1>5
  <2>2. DOMAIN s = 1 .. N - m
    BY <1>5
  <2>3. \A i \in 1 .. N : i \in Range(s) => i > m
    BY <1>5, <2>1, <2>2 DEF Range
  <2>4. \A i \in 1 .. N : i > m => i \in Range(s)
    <3>1. TAKE i \in 1 .. N
    <3>2. HAVE i > m
    <3>3. i - m \in 1 .. N - m /\ m + (i - m) = i
      BY <1>5, <3>2
    <3>4. QED
      BY <2>1, <2>2, <3>3 DEF Range
  <2>5. QED
    BY <2>3, <2>4
<1>8. QED
  BY <1>1, <1>3, <1>4, <1>6, <1>7

LEMMA CutPageFacts ==
  ASSUME NEW S, NEW s \in Seq(S)
  PROVE  CutPage(s) \in Seq(S) /\ Range(CutPage(s)) \subseteq Range(s)
<1>1. PageLimit \in Nat /\ Len(s) \in Nat
  BY IndexerAssumption
<1> DEFINE m == IF Len(s) > PageLimit THEN PageLimit ELSE Len(s)
<1>2. m \in Nat /\ m <= Len(s) /\ CutPage(s) = SubSeq(s, 1, m)
  BY <1>1 DEF CutPage
<1> HIDE DEF m
<1>3. /\ SubSeq(s, 1, m) \in Seq(S) /\ DOMAIN SubSeq(s, 1, m) = 1 .. m
      /\ \A i \in 1 .. m : SubSeq(s, 1, m)[i] = s[i] /\ i \in DOMAIN s
  BY <1>1, <1>2
<1>4. QED
  BY <1>2, <1>3 DEF Range

(* A step that leaves chain, rows and transactions alone.                  *)
LEMMA RowsStand ==
  ASSUME RecordsInv, UNCHANGED <<chain, head, tokenRow, txRow>>
  PROVE  ChainInv' /\ RowsInv' /\ VolumeHasTransactions' /\ Persist
<1>1. ChainInv /\ RowsInv /\ VolumeHasTransactions
  BY DEF RecordsInv
<1>2. ChainInv'
  BY <1>1 DEF ChainInv, IsTrade
<1>3. RowsInv'
  BY <1>1 DEF RowsInv
<1>4. VolumeHasTransactions'
  <2>1. \A t \in Tokens : Total(t)' = Total(t)
    BY TotalSame
  <2>2. QED
    BY <1>1, <2>1 DEF VolumeHasTransactions, Total
<1>5. \A t \in Tokens : HasRow(t) => HasRow(t)'
  BY DEF HasRow
<1>6. Persist
  BY <1>1, <1>5, SameRowsPersist
<1>7. QED
  BY <1>2, <1>3, <1>4, <1>6

(* ... and handler and writers too.                                        *)
LEMMA RecordsStand ==
  ASSUME RecordsInv, UNCHANGED <<chain, head, tokenRow, txRow, handler, sync, gateway, creationTx>>
  PROVE  /\ ChainInv' /\ RowsInv' /\ VolumeHasTransactions' /\ Persist
         /\ HandlerInv' /\ WritersInv' /\ LaunchRecordedOnce'
<1>1. ChainInv' /\ RowsInv' /\ VolumeHasTransactions' /\ Persist
  BY RowsStand
<1>2. HandlerInv'
  BY <1>1, HandlerStands DEF RecordsInv
<1>3. WritersInv'
  BY <1>1, WritersStand DEF RecordsInv
<1>4. LaunchRecordedOnce'
  BY <1>1, LaunchStands DEF RecordsInv
<1>5. QED
  BY <1>1, <1>2, <1>3, <1>4

(* The page stays, or loses its first event.                               *)
LEMMA PageStands ==
  ASSUME PageInv, ChainInv, Len(chain) <= Len(chain'), head <= head', ChainInv', UNCHANGED poll
  PROVE  PageInv'
<1>1. Len(chain) \in Nat /\ Len(chain') \in Nat
  BY DEF ChainInv
<1>2. 1 .. Len(chain) \subseteq 1 .. Len(chain')
  BY <1>1
<1>3. poll.rest \in Seq(1 .. Len(chain'))
  BY <1>2 DEF PageInv
<1>4. poll.latest <= head'
  BY DEF PageInv, ChainInv
<1>5. QED
  BY <1>3, <1>4 DEF PageInv

LEMMA PageMoves ==
  ASSUME PageInv, UNCHANGED <<chain, head>>, poll.rest # <<>>,
         \/ poll.at = "next" /\ poll' = [poll EXCEPT !.rest = Tail(@)]
         \/ poll' = [poll EXCEPT !.at = "next", !.rest = Tail(@)]
  PROVE  PageInv' /\ poll'.rest = Tail(poll.rest)
<1>1. poll.rest \in Seq(1 .. Len(chain)) /\ DOMAIN poll = {"at", "rest", "latest"}
  BY DEF PageInv
<1>2. Tail(poll.rest) \in Seq(1 .. Len(chain))
  BY <1>1
<1>3. /\ poll'.rest = Tail(poll.rest) /\ DOMAIN poll' = {"at", "rest", "latest"}
      /\ poll'.latest = poll.latest /\ poll'.at = "next"
  BY <1>1
<1>4. QED
  BY <1>2, <1>3 DEF PageInv

LEMMA NoPageIsPage ==
  ASSUME ChainInv', poll' = NoPoll
  PROVE  PageInv' /\ poll'.rest = <<>>
<1>1. /\ poll'.rest = <<>> /\ DOMAIN poll' = {"at", "rest", "latest"}
      /\ poll'.latest = 0 /\ poll'.at = "none"
  BY DEF NoPoll
<1>2. head' \in Nat
  BY DEF ChainInv
<1>3. <<>> \in Seq(1 .. Len(chain'))
  OBVIOUS
<1>4. QED
  BY <1>1, <1>2, <1>3 DEF PageInv

-----------------------------------------------------------------------------
(* The steps of the poller.                                                *)
LEMMA ChainStep ==
  ASSUME RecordsInv, NEW t \in Tokens, NEW a \in Amounts, LedgerCloses(t, a),
         UNCHANGED <<indexerVars, syncVars>>
  PROVE  RecordsInv'
<1>1. ChainInv /\ RowsInv /\ HandlerInv /\ WritersInv /\ PageInv
      /\ CursorKnown /\ VolumeHasTransactions /\ LaunchRecordedOnce
  BY DEF RecordsInv
<1>2. ChainGoesOn /\ ChainInv'
  BY <1>1, LedgerClosesGrows DEF ChainGoesOn
<1>3. UNCHANGED <<tokenRow, txRow, handler>> /\ UNCHANGED poll /\ UNCHANGED <<sync, gateway, creationTx>>
  BY DEF LedgerCloses, indexerVars, syncVars, gatewayVars
<1>4. \A u \in Tokens : Total(u)' = Total(u) /\ Total(u) \in Nat
  BY <1>1, <1>2, <1>3, TotalStands, TotalIsNatural
<1>5. Persist
  <2>1. \A u \in Tokens : Total(u)' \in Nat /\ Total(u) <= Total(u)'
    BY <1>4
  <2>2. \A u \in Tokens : HasRow(u) => HasRow(u)'
    BY <1>3 DEF HasRow
  <2>3. QED
    BY <1>2, <2>1, <2>2, Zenon DEF Persist, ChainGoesOn
<1>6. RowsInv'
  <2>1. Len(chain) \in Nat /\ Len(chain') \in Nat /\ Len(chain) <= Len(chain')
    BY <1>1, <1>2 DEF ChainInv, ChainGoesOn
  <2>2. 1 .. Len(chain) \subseteq 1 .. Len(chain')
    BY <2>1
  <2>3. QED
    BY <1>1, <1>3, <2>2 DEF RowsInv
<1>7. VolumeHasTransactions'
  BY <1>1, <1>3, <1>4 DEF VolumeHasTransactions, Total
<1>8. HandlerInv' /\ WritersInv' /\ LaunchRecordedOnce'
  BY <1>1, <1>2, <1>3, <1>5, HandlerStands, WritersStand, LaunchStands
<1>9. PageInv' /\ CursorKnown'
  <2>1. head \in Nat /\ head' = head + 1
    BY <1>1, <1>2 DEF ChainInv, ChainGoesOn
  <2>2. head <= head'
    BY <2>1
  <2>3. UNCHANGED <<cursorRow, cursorCache>>
    BY DEF indexerVars
  <2>4. CursorKnown'
    BY <1>1, <2>1, <2>3 DEF CursorKnown
  <2>5. QED
    BY <1>1, <1>2, <1>3, <2>2, <2>4, PageStands DEF ChainGoesOn
<1>10. QED
  BY <1>2, <1>6, <1>7, <1>8, <1>9 DEF RecordsInv

(* A poll starts behind the cursor or, without one, at the head.           *)
LEMMA LastLedgerFacts ==
  ASSUME ChainInv, CursorKnown, NEW last \in {LastLedger, 0}
  PROVE  last \in {0, cursorRow} /\ StartLedger(last) \in Nat
<1>1. LastLedger = cursorRow
  BY DEF LastLedger, CursorKnown
<1>2. head \in Nat
  BY DEF ChainInv
<1>3. QED
  BY <1>1, <1>2 DEF StartLedger, CursorKnown

(* What a poll that starts after ledger last does.                         *)
PollsFrom(last) ==
  LET found == FromLedger(StartLedger(last))
  IN  /\ poll'.rest = CutPage(found) /\ poll'.latest = head /\ poll'.at = "next"
      /\ lost' = lost \cup (Range(found) \ Range(CutPage(found))) \cup Jumped(found)
      /\ cursorCache' = last

LEMMA PollStartsPage ==
  ASSUME ChainInv, CursorKnown, PollStarts
  PROVE  PageInv' /\ \E last \in {0, cursorRow} : PollsFrom(last) /\ StartLedger(last) \in Nat
<1>1. PICK last \in {LastLedger, 0} :
        LET found == FromLedger(StartLedger(last))
        IN  /\ poll' = [at |-> "next", rest |-> CutPage(found), latest |-> head]
            /\ lost' = lost \cup (Range(found) \ Range(CutPage(found))) \cup Jumped(found)
            /\ cursorCache' = last
  BY Zenon DEF PollStarts
<1>2. last \in {0, cursorRow} /\ StartLedger(last) \in Nat
  BY LastLedgerFacts
<1>3. FromLedger(StartLedger(last)) \in Seq(1 .. Len(chain))
  BY <1>2, FromLedgerFacts
<1> DEFINE r == CutPage(FromLedger(StartLedger(last)))
<1>4. r \in Seq(1 .. Len(chain))
  BY <1>3, CutPageFacts
<1>5. poll' = [at |-> "next", rest |-> r, latest |-> head]
  BY <1>1
<1>6. UNCHANGED <<chain, head>> /\ head \in Nat
  BY DEF PollStarts, ChainInv
<1> HIDE DEF r
<1>7. PageInv' /\ poll'.rest = r /\ poll'.latest = head /\ poll'.at = "next"
  BY <1>4, <1>5, <1>6 DEF PageInv
<1>8. PollsFrom(last)
  BY <1>1, <1>7 DEF PollsFrom, r
<1>9. QED
  BY <1>2, <1>7, <1>8

LEMMA CursorStands ==
  ASSUME CursorKnown, UNCHANGED <<cursorRow, cursorCache, head>>
  PROVE  CursorKnown'
  BY DEF CursorKnown

LEMMA PollSteps ==
  ASSUME RecordsInv, PollStarts \/ SkipDuplicate \/ RefuseQueued \/ PollEnds \/ Restart,
         UNCHANGED syncVars
  PROVE  RecordsInv'
<1>1. /\ ChainInv /\ PageInv /\ CursorKnown
      /\ UNCHANGED <<chain, head, tokenRow, txRow, handler, sync, gateway, creationTx>>
  BY DEF RecordsInv, PollStarts, SkipDuplicate, RefuseQueued, PollEnds, Restart, tokenVars,
         syncVars, gatewayVars
<1>2. /\ ChainInv' /\ RowsInv' /\ VolumeHasTransactions' /\ Persist
      /\ HandlerInv' /\ WritersInv' /\ LaunchRecordedOnce'
  BY <1>1, RecordsStand
<1>3. SUFFICES PageInv' /\ CursorKnown'
  BY <1>2 DEF RecordsInv
<1>4. CASE PollStarts
  <2>1. PageInv' /\ \E last \in {0, cursorRow} : PollsFrom(last)
    BY <1>1, <1>4, PollStartsPage
  <2>2. cursorCache' \in {0, cursorRow}
    BY <2>1 DEF PollsFrom
  <2>3. cursorRow' = cursorRow /\ head' = head
    BY <1>4 DEF PollStarts
  <2>4. CursorKnown'
    BY <1>1, <2>2, <2>3 DEF CursorKnown
  <2>5. QED
    BY <2>1, <2>4
<1>5. CASE SkipDuplicate \/ RefuseQueued
  <2>1. poll.at = "next" /\ poll.rest # <<>> /\ poll' = [poll EXCEPT !.rest = Tail(@)]
        /\ UNCHANGED <<cursorRow, cursorCache, head>>
    BY <1>1, <1>5 DEF SkipDuplicate, RefuseQueued
  <2>2. QED
    BY <1>1, <2>1, PageMoves, CursorStands
<1>6. CASE PollEnds
  <2>1. poll' = NoPoll
    BY <1>6 DEF PollEnds
  <2>2. PageInv'
    BY <1>2, <2>1, NoPageIsPage
  <2>3. \/ cursorRow' = poll.latest /\ cursorCache' = poll.latest
        \/ UNCHANGED <<cursorRow, cursorCache>>
    BY <1>6 DEF PollEnds, SaveCursor, SaveCursorFails
  <2>4. poll.latest \in Nat /\ poll.latest <= head' /\ head' = head
    BY <1>1 DEF PageInv
  <2>5. CursorKnown'
    BY <1>1, <2>3, <2>4 DEF CursorKnown
  <2>6. QED
    BY <2>2, <2>5
<1>7. CASE Restart
  <2>1. UNCHANGED poll /\ UNCHANGED <<cursorRow, cursorCache, head>>
    BY <1>1, <1>7 DEF Restart
  <2>2. PageInv'
    BY <1>1, <2>1, Zenon DEF PageInv
  <2>3. QED
    BY <1>1, <2>1, <2>2, CursorStands
<1>8. QED
  BY <1>4, <1>5, <1>6, <1>7

(* The first event of the page is one of the chain's.                      *)
LEMMA HeadOfPage ==
  ASSUME PageInv, poll.rest # <<>>
  PROVE  Head(poll.rest) \in 1 .. Len(chain)
<1>1. poll.rest \in Seq(1 .. Len(chain))
  BY DEF PageInv
<1>2. QED
  BY <1>1

LEMMA TakeEventStep ==
  ASSUME RecordsInv, TakeEvent, UNCHANGED syncVars
  PROVE  RecordsInv'
<1>1. /\ ChainInv /\ PageInv /\ CursorKnown /\ RowsInv /\ WritersInv /\ LaunchRecordedOnce
      /\ UNCHANGED <<chain, head, tokenRow, txRow>> /\ UNCHANGED <<sync, gateway, creationTx>>
  BY DEF RecordsInv, TakeEvent, syncVars, gatewayVars
<1>2. ChainInv' /\ RowsInv' /\ VolumeHasTransactions' /\ Persist
  BY <1>1, RowsStand
<1> DEFINE h == Head(poll.rest)
<1>3. h \in 1 .. Len(chain) /\ chain[h].ledger \in Nat /\ chain[h].ledger <= head
  BY <1>1, HeadOfPage, ChainFacts DEF TakeEvent, ChainInv
<1>4. DOMAIN handler' = {"at", "id", "row"} /\ handler'.id = h
      /\ (handler'.at = "check" \/ handler'.at = "done")
  BY DEF TakeEvent, StartHandler
<1> HIDE DEF h
<1>5. HandlerInv'
  BY <1>1, <1>3, <1>4 DEF HandlerInv
<1>6. WritersInv' /\ LaunchRecordedOnce'
  BY <1>1, <1>2, WritersStand, LaunchStands
<1>7. PageInv'
  <2>1. poll' = [poll EXCEPT !.at = "handling"]
    BY DEF TakeEvent
  <2>2. /\ DOMAIN poll' = {"at", "rest", "latest"} /\ poll'.rest = poll.rest
        /\ poll'.latest = poll.latest /\ poll.rest # <<>>
    BY <1>1, <2>1 DEF PageInv, TakeEvent
  <2>3. QED
    BY <1>1, <2>2 DEF PageInv
<1>8. CursorKnown'
  <2>1. \/ cursorRow' = chain[h].ledger /\ cursorCache' = chain[h].ledger
        \/ UNCHANGED <<cursorRow, cursorCache>>
    BY DEF TakeEvent, SaveCursor, SaveCursorFails, h
  <2>2. QED
    BY <1>1, <1>3, <2>1 DEF CursorKnown
<1>9. QED
  BY <1>2, <1>5, <1>6, <1>7, <1>8 DEF RecordsInv

LEMMA NoHandlerIsHandler ==
  ASSUME handler' = NoHandler
  PROVE  HandlerInv'
  BY DEF HandlerInv, NoHandler

LEMMA MarkProcessedStep ==
  ASSUME RecordsInv, MarkProcessed, UNCHANGED syncVars
  PROVE  RecordsInv'
<1>1. /\ ChainInv /\ PageInv /\ CursorKnown /\ RowsInv /\ WritersInv /\ LaunchRecordedOnce
      /\ UNCHANGED <<chain, head, tokenRow, txRow>> /\ UNCHANGED <<sync, gateway, creationTx>>
      /\ UNCHANGED <<cursorRow, cursorCache>> /\ UNCHANGED <<chain, head>>
  BY DEF RecordsInv, MarkProcessed, syncVars, gatewayVars
<1>2. ChainInv' /\ RowsInv' /\ VolumeHasTransactions' /\ Persist
  BY <1>1, RowsStand
<1>3. HandlerInv'
  BY NoHandlerIsHandler DEF MarkProcessed
<1>4. WritersInv' /\ LaunchRecordedOnce'
  BY <1>1, <1>2, WritersStand, LaunchStands
<1>5. PageInv'
  <2>1. poll.rest # <<>> /\ poll' = [poll EXCEPT !.at = "next", !.rest = Tail(@)]
    BY <1>1 DEF MarkProcessed, PageInv
  <2>2. QED
    BY <1>1, <2>1, PageMoves
<1>6. CursorKnown'
  BY <1>1 DEF CursorKnown
<1>7. QED
  BY <1>2, <1>3, <1>4, <1>5, <1>6 DEF RecordsInv

LEMMA DiesStep ==
  ASSUME RecordsInv, ProcessDies
  PROVE  RecordsInv'
<1>1. /\ ChainInv /\ PageInv /\ CursorKnown /\ RowsInv /\ WritersInv /\ LaunchRecordedOnce
      /\ UNCHANGED <<chain, head, tokenRow, txRow>> /\ UNCHANGED <<txRow, creationTx>>
  BY DEF RecordsInv, ProcessDies, Crash, gatewayVars
<1>2. ChainInv' /\ RowsInv' /\ VolumeHasTransactions' /\ Persist
  BY <1>1, RowsStand
<1>3. HandlerInv'
  BY NoHandlerIsHandler DEF ProcessDies, Crash
<1>4. PageInv'
  BY <1>2, NoPageIsPage DEF ProcessDies, Crash
<1>5. LaunchRecordedOnce'
  BY <1>1, <1>2, LaunchStands
<1>6. CursorKnown'
  BY <1>1 DEF CursorKnown, ProcessDies, Crash
<1>7. WritersInv'
  <2>1. sync' = [s \in Syncers |-> NoSync] /\ UNCHANGED <<gateway, creationTx>>
    BY DEF ProcessDies, gatewayVars
  <2>2. \A s \in Syncers : DOMAIN sync'[s] = {"busy", "forced", "todo", "rows", "fetched"}
                           /\ sync'[s].todo = {}
    BY <2>1 DEF NoSync
  <2>3. \A t \in Tokens : HasRow(t) => HasRow(t)'
    BY <1>2 DEF Persist
  <2>4. sync' = [s \in Syncers |-> sync'[s]]
    BY <2>1
  <2>5. QED
    BY <1>1, <2>1, <2>2, <2>3, <2>4, Zenon DEF WritersInv
<1>8. QED
  BY <1>2, <1>3, <1>4, <1>5, <1>6, <1>7 DEF RecordsInv

-----------------------------------------------------------------------------
(* The steps of a handler.                                                 *)
LEMMA RowFacts ==
  ASSUME RowsInv, NEW t \in Tokens, HasRow(t)
  PROVE  RowShape(tokenRow[t]) /\ tokenRow[t].volume \in Nat
  BY DEF RowsInv, GoodRow, HasRow

(* A handler reads: it ends with nothing to write, or holds a row that is  *)
(* no further than the transactions and its own trade.                     *)
(* The rows the readers make of the contract's answer count no volume.     *)
LEMMA ReadShape ==
  ASSUME NEW t
  PROVE  /\ RowShape(ReadTokenInfo(t)) /\ ReadTokenInfo(t).volume = 0
         /\ RowShape(RawTokenInfo(t)) /\ RawTokenInfo(t).volume = 0
<1>1. PICK r : r = ReadTokenInfo(t)
  OBVIOUS
<1>2. RowShape(r) /\ r.volume = 0
  BY <1>1 DEF ReadTokenInfo, RowShape
<1>3. PICK q : q = [r EXCEPT !.graduated = FALSE]
  OBVIOUS
<1>4. RowShape(q) /\ q.volume = 0
  BY <1>2, <1>3 DEF RowShape
<1>5. QED
  BY <1>1, <1>2, <1>3, <1>4 DEF RawTokenInfo

LEMMA HandlerReads ==
  ASSUME ChainInv, RowsInv, VolumeHasTransactions, HandlerInv,
         AlreadyDone \/ HandleTokenCreated \/ NoTokenInfo \/ HandleTokenBuy \/ HandleTokenSell
         \/ HandlerError
  PROVE  HandlerInv' /\ UNCHANGED <<chain, head, tokenRow, txRow>>
<1>1. UNCHANGED <<chain, head, tokenRow, txRow>>
  BY DEF AlreadyDone, HandleTokenCreated, NoTokenInfo, StartsWith, HandleTokenBuy, HandleTokenSell,
         HandlerError
<1>2. handler.at \in {"check", "commit"} /\ handler.id \in 1 .. Len(chain)
  BY DEF AlreadyDone, HandleTokenCreated, NoTokenInfo, StartsWith, HandleTokenBuy, HandleTokenSell,
         HandlerError, HandlerInv
<1> DEFINE e == chain[handler.id]
<1>3. e.token \in Tokens /\ e.amount \in Int
  BY <1>2, ChainFacts
<1>4. DOMAIN handler = {"at", "id", "row"}
  BY DEF HandlerInv
<1>5. CASE AlreadyDone \/ HandlerError
  <2>1. handler' = [handler EXCEPT !.at = "done"]
    BY <1>5 DEF AlreadyDone, HandlerError
  <2>2. DOMAIN handler' = {"at", "id", "row"} /\ handler'.at = "done" /\ handler'.id = handler.id
    BY <1>4, <2>1
  <2>3. QED
    BY <1>1, <1>2, <2>2 DEF HandlerInv
<1>6. ASSUME NEW r, e.kind \in {"launched"} \cup Trades,
             handler' = [handler EXCEPT !.at = "commit", !.row = r],
             r # NoRow => /\ RowShape(r) /\ r.volume \in Nat
                          /\ e.kind = "launched" => r.volume = 0
                          /\ e.kind \in Trades => HasRow(e.token) /\ r.volume <= Total(e.token) + e.amount
      PROVE  HandlerInv'
  <2>1. /\ DOMAIN handler' = {"at", "id", "row"} /\ handler'.at = "commit" /\ handler'.id = handler.id
        /\ handler'.row = r
    BY <1>4, <1>6
  <2>2. PICK t : t = e.token
    OBVIOUS
  <2>3. Total(t)' = Total(t) /\ (HasRow(t) <=> HasRow(t)')
    BY <1>1, TotalSame DEF HasRow
  <2>4. PICK a, k : a = e.amount /\ k = e.kind
    OBVIOUS
  <2>5. r # NoRow => /\ RowShape(r) /\ r.volume \in Nat
                     /\ k = "launched" => r.volume = 0
                     /\ k \in Trades => HasRow(t)' /\ r.volume <= Total(t)' + a
    BY <1>6, <2>2, <2>3, <2>4
  <2>6. chain'[handler'.id].token = t /\ chain'[handler'.id].amount = a /\ chain'[handler'.id].kind = k
        /\ k \in {"launched"} \cup Trades
    BY <1>1, <1>6, <2>1, <2>2, <2>4
  <2>7. handler'.id \in 1 .. Len(chain')
    BY <1>1, <1>2, <2>1
  <2>8. SUFFICES ASSUME NEW c, c = chain'[handler'.id], r # NoRow, c.kind \in Trades
                 PROVE  HasRow(c.token)' /\ r.volume <= Total(c.token)' + c.amount
    BY <2>1, <2>5, <2>6, <2>7 DEF HandlerInv
  <2>9. QED
    BY <2>5, <2>6, <2>8
<1>7. CASE HandleTokenCreated \/ NoTokenInfo
  <2>1. PICK r : StartsWith(r) /\ RowShape(r) /\ r.volume = 0
    BY <1>7, ReadShape DEF HandleTokenCreated, NoTokenInfo, RowShape
  <2>2. e.kind = "launched" /\ handler' = [handler EXCEPT !.at = "commit", !.row = r]
    BY <2>1 DEF StartsWith
  <2>3. RowShape(r) /\ r.volume = 0
    BY <2>1
  <2>4. e.kind \notin Trades
    BY <2>2 DEF Trades
  <2>5. r.volume \in Nat /\ e.kind \in {"launched"} \cup Trades
    BY <2>2, <2>3
  <2> HIDE DEF e
  <2>6. HandlerInv'
    BY <1>6, <2>2, <2>3, <2>4, <2>5, Zenon
  <2>7. QED
    BY <1>1, <2>6
<1>8. CASE HandleTokenBuy \/ HandleTokenSell
  <2>1. e.kind \in Trades /\ e.kind # "launched"
    BY <1>8 DEF HandleTokenBuy, HandleTokenSell, Trades
  <2>2. PICK r : /\ handler' = [handler EXCEPT !.at = "commit", !.row = r]
                 /\ \/ ~HasRow(e.token) /\ r = NoRow
                    \/ HasRow(e.token) /\ \/ r = [tokenRow[e.token] EXCEPT !.raised = @ + e.amount,
                                                                           !.volume = @ + e.amount]
                                          \/ r = [tokenRow[e.token] EXCEPT !.volume = @ + e.amount]
    BY <1>8 DEF HandleTokenBuy, HandleTokenSell
  <2>3. e.amount \in Nat
    BY <1>2, <2>1 DEF ChainInv, IsTrade
  <2>4. ASSUME HasRow(e.token)
        PROVE  RowShape(r) /\ r.volume \in Nat /\ r.volume <= Total(e.token) + e.amount
    <3>1. RowShape(tokenRow[e.token]) /\ tokenRow[e.token].volume \in Nat
          /\ tokenRow[e.token].volume <= Total(e.token) /\ Total(e.token) \in Nat
      <4>1. \A t \in Tokens : HasRow(t) => RowShape(tokenRow[t]) /\ tokenRow[t].volume \in Nat
        BY RowFacts
      <4>2. \A t \in Tokens : Total(t) \in Nat /\ tokenRow[t].volume <= Total(t)
        BY TotalIsNatural DEF VolumeHasTransactions, Total
      <4>3. QED
        BY <1>3, <2>4, <4>1, <4>2
    <3>2. RowShape(r) /\ r.volume = tokenRow[e.token].volume + e.amount
      BY <2>2, <2>4, <3>1 DEF RowShape
    <3>3. PICK v, p, a : v = tokenRow[e.token].volume /\ p = Total(e.token) /\ a = e.amount
      OBVIOUS
    <3>4. r.volume = v + a /\ v \in Nat /\ a \in Nat /\ p \in Nat /\ v <= p
      BY <2>3, <3>1, <3>2, <3>3
    <3>5. r.volume \in Nat /\ r.volume <= p + a
      BY <3>4
    <3>6. QED
      BY <3>2, <3>3, <3>5
  <2>5. r # NoRow => HasRow(e.token)
    BY <2>2
  <2>6. HandlerInv'
    BY <1>6, <2>1, <2>2, <2>4, <2>5
  <2>7. QED
    BY <1>1, <2>6
<1>9. QED
  BY <1>1, <1>5, <1>7, <1>8

LEMMA DoneIsHandler ==
  ASSUME ChainInv, HandlerInv, handler.at \in {"check", "commit"}, UNCHANGED chain,
         handler' = [handler EXCEPT !.at = "done"]
  PROVE  HandlerInv'
<1>1. DOMAIN handler' = {"at", "id", "row"} /\ handler'.at = "done" /\ handler'.id = handler.id
  BY DEF HandlerInv
<1>2. QED
  BY <1>1 DEF HandlerInv

LEMMA TotalsKnown ==
  ASSUME ChainInv, RowsInv, UNCHANGED <<chain, txRow>>
  PROVE  \A t \in Tokens : Total(t) \in Nat /\ Total(t)' \in Nat /\ Total(t) <= Total(t)'
<1>1. TAKE t \in Tokens
<1>2. Total(t) \in Nat /\ Total(t)' = Total(t)
  BY TotalIsNatural, TotalSame
<1>3. QED
  BY <1>2

(* A writer replaces the row of a token by one of no volume, or keeps its  *)
(* volume.                                                                 *)
LEMMA RowReplaced ==
  ASSUME RecordsInv, NEW t \in Tokens, NEW r, RowShape(r),
         r.volume = 0 \/ (HasRow(t) /\ r.volume = tokenRow[t].volume),
         tokenRow' = [tokenRow EXCEPT ![t] = r], UNCHANGED <<chain, head, txRow>>
  PROVE  ChainInv' /\ RowsInv' /\ VolumeHasTransactions' /\ Persist /\ HasRow(t)'
<1>1. ChainInv /\ RowsInv /\ VolumeHasTransactions
  BY DEF RecordsInv
<1>2. \A u \in Tokens : Total(u) \in Nat /\ Total(u)' \in Nat /\ Total(u) <= Total(u)'
  BY <1>1, TotalsKnown
<1>3. r.volume \in Nat /\ r.volume <= Total(t)'
  <2>1. Total(t)' = Total(t) /\ Total(t) \in Nat
    BY <1>1, TotalSame, TotalIsNatural
  <2>2. CASE r.volume = 0
    BY <2>1, <2>2
  <2>3. CASE HasRow(t) /\ r.volume = tokenRow[t].volume
    <3>1. tokenRow[t].volume \in Nat
      BY <1>1, <2>3, RowFacts
    <3>2. tokenRow[t].volume <= Total(t)
      BY <1>1 DEF VolumeHasTransactions, Total
    <3>3. QED
      BY <2>1, <2>3, <3>1, <3>2
  <2>4. QED
    BY <2>2, <2>3
<1>4. /\ tokenRow' = [u \in Tokens |-> tokenRow'[u]]
      /\ \A u \in Tokens : GoodRow(tokenRow'[u]) /\ (HasRow(u) => HasRow(u)')
      /\ VolumeHasTransactions' /\ HasRow(t)'
  BY <1>1, <1>2, <1>3, RowMoves
<1>5. ChainInv'
  BY <1>1 DEF ChainInv, IsTrade
<1>6. RowsInv'
  BY <1>1, <1>4 DEF RowsInv
<1>7. Persist
  BY <1>1, <1>4, SameRowsPersist
<1>8. QED
  BY <1>4, <1>5, <1>6, <1>7

(* Who replaces a row keeps the records, if it starts from such a row.     *)
LEMMA RowReplacedRecords ==
  ASSUME RecordsInv, NEW t \in Tokens, NEW r, RowShape(r),
         r.volume = 0 \/ (HasRow(t) /\ r.volume = tokenRow[t].volume),
         tokenRow' = [tokenRow EXCEPT ![t] = r],
         UNCHANGED <<chain, head, txRow, cursorRow, cursorCache, poll>>
  PROVE  /\ ChainInv' /\ RowsInv' /\ VolumeHasTransactions' /\ PageInv' /\ CursorKnown'
         /\ Persist /\ HasRow(t)'
<1>1. ChainInv' /\ RowsInv' /\ VolumeHasTransactions' /\ Persist /\ HasRow(t)'
  BY RowReplaced
<1>2. PageInv /\ CursorKnown
  BY DEF RecordsInv
<1>3. PageInv' /\ CursorKnown'
  BY <1>2, Zenon DEF PageInv, CursorKnown
<1>4. QED
  BY <1>1, <1>3

LEMMA GraduatedStep ==
  ASSUME RecordsInv, HandleTokenGraduated, poll.at = "handling",
         UNCHANGED <<cursorRow, cursorCache, poll>>, UNCHANGED syncVars
  PROVE  RecordsInv'
<1>1. /\ ChainInv /\ PageInv /\ CursorKnown /\ RowsInv /\ WritersInv /\ HandlerInv /\ LaunchRecordedOnce
      /\ UNCHANGED <<chain, head, txRow>> /\ UNCHANGED <<sync, gateway, creationTx>>
  BY DEF RecordsInv, HandleTokenGraduated, syncVars, gatewayVars
<1>2. handler.at = "check" /\ handler.id \in 1 .. Len(chain)
  BY <1>1 DEF HandleTokenGraduated, HandlerInv
<1>3. PICK t, a : t = chain[handler.id].token /\ a = chain[handler.id].amount
  OBVIOUS
<1>4. t \in Tokens
  BY <1>1, <1>2, <1>3, ChainFacts
<1>5. HandlerInv'
  BY <1>1, <1>2, DoneIsHandler DEF HandleTokenGraduated
<1>6. ChainInv' /\ RowsInv' /\ VolumeHasTransactions' /\ PageInv' /\ CursorKnown' /\ Persist
  <2>1. CASE ~HasRow(t)
    <3>1. UNCHANGED tokenRow
      BY <1>3, <2>1 DEF HandleTokenGraduated
    <3>2. PageInv' /\ CursorKnown'
      BY <1>1, Zenon DEF PageInv, CursorKnown
    <3>3. QED
      BY <1>1, <3>1, <3>2, RowsStand
  <2>2. CASE HasRow(t)
    <3>1. tokenRow' = [tokenRow EXCEPT ![t].graduated = TRUE, ![t].raised = a]
      BY <1>3, <2>2 DEF HandleTokenGraduated
    <3>2. PICK r : r = [tokenRow[t] EXCEPT !.graduated = TRUE, !.raised = a]
      OBVIOUS
    <3>3. RowShape(tokenRow[t])
      BY <1>1, <1>4, <2>2, RowFacts
    <3>4. RowShape(r) /\ r.volume = tokenRow[t].volume
      BY <3>2, <3>3 DEF RowShape
    <3>5. tokenRow' = [tokenRow EXCEPT ![t] = r]
      <4>1. tokenRow = [u \in Tokens |-> tokenRow[u]]
        BY <1>1 DEF RowsInv
      <4>2. QED
        BY <1>4, <3>1, <3>2, <4>1
    <3>6. QED
      BY <1>1, <1>4, <2>2, <3>4, <3>5, RowReplacedRecords
  <2>3. QED
    BY <2>1, <2>2
<1>7. WritersInv' /\ LaunchRecordedOnce'
  BY <1>1, <1>6, WritersStand, LaunchStands
<1>8. QED
  BY <1>5, <1>6, <1>7 DEF RecordsInv

LEMMA CommitStep ==
  ASSUME RecordsInv, Commit, UNCHANGED <<cursorRow, cursorCache, poll>>, UNCHANGED syncVars
  PROVE  RecordsInv'
<1>1. /\ ChainInv /\ PageInv /\ CursorKnown /\ RowsInv /\ WritersInv /\ HandlerInv
      /\ LaunchRecordedOnce /\ VolumeHasTransactions
      /\ UNCHANGED <<chain, head>> /\ UNCHANGED <<sync, gateway, creationTx>>
  BY DEF RecordsInv, Commit, syncVars, gatewayVars
<1>2. handler.at = "commit" /\ handler.id \in 1 .. Len(chain)
  BY <1>1 DEF Commit, HandlerInv
<1>3. PICK i, e, t : i = handler.id /\ e = chain[i] /\ t = e.token
  OBVIOUS
<1>4. t \in Tokens /\ i \in 1 .. Len(chain) /\ e.amount \in Int
  BY <1>1, <1>2, <1>3, ChainFacts
<1>5. HandlerInv'
  BY <1>1, <1>2, DoneIsHandler DEF Commit
<1>6. PageInv' /\ CursorKnown' /\ ChainInv'
  <2>1. ChainInv'
    BY <1>1 DEF ChainInv, IsTrade
  <2>2. QED
    BY <1>1, <2>1, Zenon DEF PageInv, CursorKnown
<1>7. CASE i \in txRow \/ (e.kind = "launched" /\ HasRow(t))
  <2>1. UNCHANGED <<tokenRow, txRow>>
    BY <1>3, <1>7 DEF Commit
  <2>2. RowsInv' /\ VolumeHasTransactions' /\ Persist
    BY <1>1, <2>1, RowsStand
  <2>3. WritersInv' /\ LaunchRecordedOnce'
    BY <1>1, <2>1, <2>2, WritersStand, LaunchStands
  <2>4. QED
    BY <1>5, <1>6, <2>2, <2>3 DEF RecordsInv
<1>8. CASE i \notin txRow /\ ~(e.kind = "launched" /\ HasRow(t))
  <2>1. txRow' = txRow \cup {i}
    BY <1>3, <1>8 DEF Commit
  <2>2. \A u \in Tokens : Total(u) \in Nat /\ Total(u)' \in Nat /\ Total(u) <= Total(u)'
    BY <1>1, <1>4, <1>8, <2>1, TotalAdds, TotalIsNatural
  <2>3. e.kind \in Trades => Total(t)' = Total(t) + e.amount
    BY <1>1, <1>3, <1>4, <1>8, <2>1, TotalAdds DEF IsTrade
  <2>4. txRow' \subseteq 1 .. Len(chain) /\ IsFiniteSet(txRow')
    BY <1>1, <1>4, <2>1, FS_AddElement DEF RowsInv
  <2>5. /\ tokenRow' = [u \in Tokens |-> tokenRow'[u]]
        /\ \A u \in Tokens : GoodRow(tokenRow'[u]) /\ (HasRow(u) => HasRow(u)')
        /\ VolumeHasTransactions'
    <3>1. CASE handler.row = NoRow
      <4>1. UNCHANGED tokenRow
        BY <1>3, <1>8, <3>1 DEF Commit
      <4>2. \A u \in Tokens : tokenRow'[u].volume <= Total(u)'
        <5>1. TAKE u \in Tokens
        <5>2. tokenRow[u].volume <= Total(u) /\ GoodRow(tokenRow[u])
          BY <1>1 DEF VolumeHasTransactions, Total, RowsInv
        <5>3. tokenRow[u].volume \in Int
          BY <5>2 DEF GoodRow, NoRow
        <5>4. PICK p, q, v : p = Total(u) /\ q = Total(u)' /\ v = tokenRow[u].volume
          OBVIOUS
        <5>5. p \in Nat /\ q \in Nat /\ p <= q /\ v \in Int /\ v <= p
          BY <2>2, <5>2, <5>3, <5>4
        <5>6. v <= q
          BY <5>5
        <5>7. QED
          BY <4>1, <5>4, <5>6
      <4>3. VolumeHasTransactions'
        BY <4>2 DEF VolumeHasTransactions, Total
      <4>4. QED
        BY <1>1, <4>1, <4>3 DEF RowsInv, HasRow
    <3>2. CASE handler.row # NoRow
      <4>1. /\ e.kind \in {"launched"} \cup Trades
            /\ RowShape(handler.row) /\ handler.row.volume \in Nat
            /\ e.kind = "launched" => handler.row.volume = 0
            /\ e.kind \in Trades => HasRow(t) /\ handler.row.volume <= Total(t) + e.amount
        BY <1>1, <1>2, <1>3, <3>2 DEF HandlerInv
      <4>2. PICK r : /\ tokenRow' = [tokenRow EXCEPT ![t] = r]
                     /\ e.kind = "launched" => r = handler.row
                     /\ e.kind = "bought" => r = [tokenRow[t] EXCEPT !.raised = handler.row.raised,
                                                                     !.volume = handler.row.volume]
                     /\ e.kind = "sold" => r = [tokenRow[t] EXCEPT !.volume = handler.row.volume]
        BY <1>3, <1>8, <3>2 DEF Commit
      <4>3. RowShape(r) /\ r.volume = handler.row.volume
        <5>1. CASE e.kind = "launched"
          BY <4>1, <4>2, <5>1
        <5>2. CASE e.kind \in Trades
          <6>1. RowShape(tokenRow[t])
            BY <1>1, <1>4, <4>1, <5>2, RowFacts
          <6>2. e.kind = "bought" \/ e.kind = "sold"
            BY <5>2 DEF Trades
          <6>3. QED
            BY <4>2, <6>1, <6>2 DEF RowShape
        <5>3. QED
          BY <4>1, <5>1, <5>2
      <4>4. r.volume \in Nat /\ r.volume <= Total(t)'
        <5>1. CASE e.kind = "launched"
          <6>1. r.volume = 0 /\ Total(t)' \in Nat
            BY <1>4, <2>2, <4>1, <4>3, <5>1
          <6>2. QED
            BY <6>1
        <5>2. CASE e.kind \in Trades
          BY <2>3, <4>1, <4>3, <5>2
        <5>3. QED
          BY <4>1, <5>1, <5>2
      <4>5. QED
        BY <1>1, <1>4, <2>2, <4>2, <4>3, <4>4, RowMoves
    <3>3. QED
      BY <3>1, <3>2
  <2>6. RowsInv'
    BY <1>1, <2>4, <2>5 DEF RowsInv
  <2>7. Persist
    <3>1. Len(chain) \in Nat
      BY <1>1, ChainFacts
    <3>2. Len(chain) <= Len(chain') /\ \A j \in 1 .. Len(chain) : chain'[j] = chain[j]
      BY <1>1, <3>1
    <3>3. QED
      BY <2>2, <2>5, <3>2, Zenon DEF Persist
  <2>8. WritersInv'
    BY <1>1, <2>7, WritersStand
  <2>9. LaunchRecordedOnce'
    <3>1. \A u \in creationTx : HasRow(u)
      BY <1>1 DEF WritersInv
    <3>2. \A u \in creationTx : chain[i].token = u => chain[i].kind # "launched"
      BY <1>3, <1>8, <3>1
    <3>3. QED
      BY <1>1, <2>1, <3>2 DEF LaunchRecordedOnce
  <2>10. QED
    BY <1>5, <1>6, <2>5, <2>6, <2>8, <2>9 DEF RecordsInv
<1>9. QED
  BY <1>7, <1>8

LEMMA HandleSteps ==
  ASSUME RecordsInv, Handle, UNCHANGED syncVars
  PROVE  RecordsInv'
<1>1. /\ ChainInv /\ PageInv /\ CursorKnown /\ RowsInv /\ WritersInv /\ HandlerInv
      /\ LaunchRecordedOnce /\ VolumeHasTransactions
      /\ UNCHANGED <<sync, gateway, creationTx>> /\ UNCHANGED <<cursorRow, cursorCache, poll>>
      /\ poll.at = "handling"
  BY DEF RecordsInv, Handle, syncVars, gatewayVars
<1>2. CASE Commit
  BY <1>1, <1>2, CommitStep
<1>3. CASE HandleTokenGraduated
  BY <1>1, <1>3, GraduatedStep
<1>4. CASE AlreadyDone \/ HandleTokenCreated \/ NoTokenInfo \/ HandleTokenBuy \/ HandleTokenSell
           \/ HandlerError
  <2>1. HandlerInv' /\ UNCHANGED <<chain, head, tokenRow, txRow>>
    BY <1>1, <1>4, HandlerReads
  <2>2. ChainInv' /\ RowsInv' /\ VolumeHasTransactions' /\ Persist
    BY <2>1, RowsStand
  <2>3. WritersInv' /\ LaunchRecordedOnce'
    BY <1>1, <2>1, <2>2, WritersStand, LaunchStands
  <2>4. PageInv' /\ CursorKnown'
    BY <1>1, <2>1, Zenon DEF PageInv, CursorKnown
  <2>5. QED
    BY <2>1, <2>2, <2>3, <2>4 DEF RecordsInv
<1>5. QED
  BY <1>2, <1>3, <1>4 DEF Handle, HandlerStep

-----------------------------------------------------------------------------
(* The other writers.                                                      *)
LEMMA SyncStands ==
  ASSUME WritersInv, Persist, UNCHANGED <<gateway, creationTx>>,
         sync' = [s \in Syncers |-> sync'[s]],
         \A s \in Syncers : /\ DOMAIN sync'[s] = {"busy", "forced", "todo", "rows", "fetched"}
                            /\ \A t \in sync'[s].todo : t \in Tokens /\ HasRow(t)
  PROVE  WritersInv'
<1>1. \A t \in Tokens : HasRow(t) => HasRow(t)'
  BY DEF Persist
<1>2. \A s \in Syncers : \A t \in sync'[s].todo : t \in Tokens /\ HasRow(t)'
  BY <1>1
<1>3. QED
  BY <1>1, <1>2, Zenon DEF WritersInv

\* A run that goes on, with no new token to do.
LEMMA SyncGoesOn ==
  ASSUME WritersInv, NEW s \in Syncers, NEW r, sync' = [sync EXCEPT ![s] = r],
         DOMAIN r = {"busy", "forced", "todo", "rows", "fetched"},
         \A t \in r.todo : t \in Tokens /\ HasRow(t)
  PROVE  /\ sync' = [u \in Syncers |-> sync'[u]]
         /\ \A u \in Syncers : /\ DOMAIN sync'[u] = {"busy", "forced", "todo", "rows", "fetched"}
                               /\ \A t \in sync'[u].todo : t \in Tokens /\ HasRow(t)
<1>1. sync = [u \in Syncers |-> sync[u]]
  BY DEF WritersInv
<1>2. sync' = [u \in Syncers |-> sync'[u]] /\ sync'[s] = r
      /\ \A u \in Syncers : u # s => sync'[u] = sync[u]
  BY <1>1
<1>3. \A u \in Syncers : /\ DOMAIN sync'[u] = {"busy", "forced", "todo", "rows", "fetched"}
                         /\ \A t \in sync'[u].todo : t \in Tokens /\ HasRow(t)
  BY <1>2, Zenon DEF WritersInv
<1>4. QED
  BY <1>2, <1>3

LEMMA LeavesGoesOn ==
  ASSUME WritersInv, NEW s \in Syncers, NEW t, Leaves(s, t)
  PROVE  /\ sync' = [u \in Syncers |-> sync'[u]]
         /\ \A u \in Syncers : /\ DOMAIN sync'[u] = {"busy", "forced", "todo", "rows", "fetched"}
                               /\ \A v \in sync'[u].todo : v \in Tokens /\ HasRow(v)
<1>1. DOMAIN sync[s] = {"busy", "forced", "todo", "rows", "fetched"}
      /\ \A v \in sync[s].todo : v \in Tokens /\ HasRow(v)
  BY DEF WritersInv
<1>2. PICK r : r = [sync[s] EXCEPT !.todo = @ \ {t}]
  OBVIOUS
<1>3. DOMAIN r = {"busy", "forced", "todo", "rows", "fetched"} /\ r.todo = sync[s].todo \ {t}
  BY <1>1, <1>2
<1>4. sync' = [sync EXCEPT ![s] = r]
  BY <1>2 DEF Leaves
<1>5. QED
  BY <1>1, <1>3, <1>4, SyncGoesOn

LEMMA SyncQuietSteps ==
  ASSUME RecordsInv, NEW s \in Syncers, NEW t,
         RunSync(s) \/ RunSyncEnds(s) \/ (t \in Tokens /\ SyncSingleToken(s, t)) \/ FetchToken(s, t)
         \/ SyncTokenFails(s, t)
  PROVE  RecordsInv'
<1>1. /\ ChainInv /\ PageInv /\ CursorKnown /\ RowsInv /\ WritersInv /\ HandlerInv
      /\ LaunchRecordedOnce
      /\ UNCHANGED <<chain, head, tokenRow, txRow>> /\ UNCHANGED handler /\ UNCHANGED <<gateway, creationTx>>
      /\ UNCHANGED <<cursorRow, cursorCache, poll>> /\ UNCHANGED <<txRow, creationTx>>
  BY DEF RecordsInv, RunSync, RunSyncEnds, SyncSingleToken, FetchToken, SyncTokenFails, tokenVars,
         indexerVars, gatewayVars
<1>2. ChainInv' /\ RowsInv' /\ VolumeHasTransactions' /\ Persist
  BY <1>1, RowsStand
<1>3. HandlerInv' /\ LaunchRecordedOnce'
  BY <1>1, <1>2, HandlerStands, LaunchStands
<1>4. PageInv' /\ CursorKnown'
  BY <1>1, Zenon DEF PageInv, CursorKnown
<1>5. SUFFICES WritersInv'
  BY <1>2, <1>3, <1>4 DEF RecordsInv
<1>6. SUFFICES /\ sync' = [u \in Syncers |-> sync'[u]]
               /\ \A u \in Syncers : /\ DOMAIN sync'[u] = {"busy", "forced", "todo", "rows", "fetched"}
                                     /\ \A v \in sync'[u].todo : v \in Tokens /\ HasRow(v)
  BY <1>1, <1>2, SyncStands
<1>7. CASE UNCHANGED sync
  BY <1>1, <1>7 DEF WritersInv
<1>8. CASE Leaves(s, t)
  BY <1>1, <1>8, LeavesGoesOn
<1>9. ASSUME NEW r, sync' = [sync EXCEPT ![s] = r],
             DOMAIN r = {"busy", "forced", "todo", "rows", "fetched"},
             \A v \in r.todo : v \in Tokens /\ HasRow(v)
      PROVE  /\ sync' = [u \in Syncers |-> sync'[u]]
             /\ \A u \in Syncers : /\ DOMAIN sync'[u] = {"busy", "forced", "todo", "rows", "fetched"}
                                   /\ \A v \in sync'[u].todo : v \in Tokens /\ HasRow(v)
  BY <1>1, <1>9, SyncGoesOn
<1>10. CASE RunSync(s) /\ ~UNCHANGED sync
  <2>1. PICK r : /\ sync' = [sync EXCEPT ![s] = r]
                 /\ r = [NoSync EXCEPT !.busy = TRUE, !.rows = tokenRow,
                                       !.todo = {v \in Tokens : HasRow(v)}]
    BY <1>10 DEF RunSync
  <2>2. DOMAIN r = {"busy", "forced", "todo", "rows", "fetched"} /\ r.todo = {v \in Tokens : HasRow(v)}
    BY <2>1 DEF NoSync
  <2>3. QED
    BY <1>9, <2>1, <2>2
<1>11. CASE RunSyncEnds(s)
  <2>1. sync' = [sync EXCEPT ![s] = NoSync]
    BY <1>11 DEF RunSyncEnds
  <2>2. DOMAIN NoSync = {"busy", "forced", "todo", "rows", "fetched"} /\ NoSync.todo = {}
    BY DEF NoSync
  <2>3. QED
    BY <1>9, <2>1, <2>2
<1>12. CASE t \in Tokens /\ SyncSingleToken(s, t)
  <2>1. PICK r : /\ sync' = [sync EXCEPT ![s] = r] /\ HasRow(t)
                 /\ r = [NoSync EXCEPT !.busy = TRUE, !.forced = TRUE, !.todo = {t}]
    BY <1>12 DEF SyncSingleToken
  <2>2. DOMAIN r = {"busy", "forced", "todo", "rows", "fetched"} /\ r.todo = {t}
    BY <2>1 DEF NoSync
  <2>3. QED
    BY <1>9, <1>12, <2>1, <2>2
<1>13. CASE FetchToken(s, t) /\ ~Leaves(s, t)
  <2>1. PICK a : sync' = [sync EXCEPT ![s].fetched[t] = a]
    BY <1>13 DEF FetchToken
  <2>2. PICK r : r = [sync[s] EXCEPT !.fetched[t] = a]
    OBVIOUS
  <2>3. DOMAIN sync[s] = {"busy", "forced", "todo", "rows", "fetched"}
        /\ \A v \in sync[s].todo : v \in Tokens /\ HasRow(v)
    BY <1>1 DEF WritersInv
  <2>4. DOMAIN r = {"busy", "forced", "todo", "rows", "fetched"} /\ r.todo = sync[s].todo
    BY <2>2, <2>3
  <2>5. sync' = [sync EXCEPT ![s] = r]
    BY <2>1, <2>2
  <2>6. QED
    BY <1>9, <2>3, <2>4, <2>5
<1>14. QED
  BY <1>7, <1>8, <1>10, <1>11, <1>12, <1>13 DEF SyncTokenFails

LEMMA UpdateTokenStep ==
  ASSUME RecordsInv, NEW s \in Syncers, NEW t \in Tokens, UpdateToken(s, t)
  PROVE  RecordsInv'
<1>1. /\ ChainInv /\ PageInv /\ CursorKnown /\ RowsInv /\ WritersInv /\ HandlerInv
      /\ LaunchRecordedOnce
      /\ UNCHANGED <<chain, head, txRow, cursorRow, cursorCache, poll>> /\ UNCHANGED handler
      /\ UNCHANGED <<gateway, creationTx>> /\ UNCHANGED <<txRow, creationTx>>
  BY DEF RecordsInv, UpdateToken, indexerVars, gatewayVars
<1>2. HasRow(t)
  BY <1>1 DEF UpdateToken, WritersInv
<1>3. PICK a, g : tokenRow' = [tokenRow EXCEPT ![t].raised = a, ![t].graduated = g]
  BY DEF UpdateToken
<1>4. PICK r : r = [tokenRow[t] EXCEPT !.raised = a, !.graduated = g]
  OBVIOUS
<1>5. RowShape(r) /\ r.volume = tokenRow[t].volume
  <2>1. RowShape(tokenRow[t])
    BY <1>1, <1>2, RowFacts
  <2>2. QED
    BY <1>4, <2>1 DEF RowShape
<1>6. tokenRow' = [tokenRow EXCEPT ![t] = r]
  <2>1. tokenRow = [u \in Tokens |-> tokenRow[u]]
    BY <1>1 DEF RowsInv
  <2>2. QED
    BY <1>3, <1>4, <2>1
<1>7. ChainInv' /\ RowsInv' /\ VolumeHasTransactions' /\ PageInv' /\ CursorKnown' /\ Persist
  BY <1>1, <1>2, <1>5, <1>6, RowReplacedRecords
<1>8. HandlerInv' /\ LaunchRecordedOnce'
  BY <1>1, <1>7, HandlerStands, LaunchStands
<1>9. WritersInv'
  <2>1. Leaves(s, t)
    BY DEF UpdateToken
  <2>2. QED
    BY <1>1, <1>7, <2>1, LeavesGoesOn, SyncStands
<1>10. QED
  BY <1>7, <1>8, <1>9 DEF RecordsInv

LEMMA BootSteps ==
  ASSUME RecordsInv, NEW t, Bootstrap \/ BootstrapEnds \/ (t \in Tokens /\ BootstrapToken(t))
  PROVE  RecordsInv'
<1>1. /\ ChainInv /\ PageInv /\ CursorKnown /\ RowsInv /\ WritersInv /\ HandlerInv
      /\ LaunchRecordedOnce
      /\ UNCHANGED <<chain, head, txRow, cursorRow, cursorCache, poll>> /\ UNCHANGED handler
      /\ UNCHANGED <<sync, gateway, creationTx>> /\ UNCHANGED <<txRow, creationTx>>
  BY DEF RecordsInv, Bootstrap, BootstrapEnds, BootstrapToken, tokenVars, indexerVars, gatewayVars
<1>2. ChainInv' /\ RowsInv' /\ VolumeHasTransactions' /\ PageInv' /\ CursorKnown' /\ Persist
  <2>1. CASE UNCHANGED tokenRow
    <3>1. PageInv' /\ CursorKnown'
      BY <1>1, Zenon DEF PageInv, CursorKnown
    <3>2. QED
      BY <1>1, <2>1, <3>1, RowsStand
  <2>2. CASE t \in Tokens /\ BootstrapToken(t) /\ ~UNCHANGED tokenRow
    <3>1. PICK r : r = ReadTokenInfo(t)
      OBVIOUS
    <3>2. tokenRow' = [tokenRow EXCEPT ![t] = r] /\ RowShape(r) /\ r.volume = 0
      BY <2>2, <3>1, ReadShape DEF BootstrapToken
    <3>3. t \in Tokens
      BY <2>2
    <3>4. QED
      BY <1>1, <3>2, <3>3, RowReplacedRecords
  <2>3. QED
    BY <2>1, <2>2 DEF Bootstrap, BootstrapEnds, BootstrapToken, tokenVars
<1>3. HandlerInv' /\ LaunchRecordedOnce' /\ WritersInv'
  BY <1>1, <1>2, HandlerStands, LaunchStands, WritersStand
<1>4. QED
  BY <1>2, <1>3 DEF RecordsInv

LEMMA GatewayReads ==
  ASSUME RecordsInv, NEW t,
         \/ t \in Tokens /\ (RequestSync(t) \/ GetTokenInfo(t) \/ GetTokenInfoFails(t))
         \/ SyncTokenRollsBack
  PROVE  RecordsInv'
<1>1. /\ ChainInv /\ PageInv /\ CursorKnown /\ RowsInv /\ WritersInv /\ HandlerInv
      /\ LaunchRecordedOnce
      /\ UNCHANGED <<chain, head, tokenRow, txRow>> /\ UNCHANGED handler /\ UNCHANGED <<sync, creationTx>>
      /\ UNCHANGED <<cursorRow, cursorCache, poll>> /\ UNCHANGED <<txRow, creationTx>>
  BY DEF RecordsInv, RequestSync, GetTokenInfo, GetTokenInfoFails, SyncTokenRollsBack, tokenVars,
         indexerVars
<1>2. ChainInv' /\ RowsInv' /\ VolumeHasTransactions' /\ Persist
  BY <1>1, RowsStand
<1>3. HandlerInv' /\ LaunchRecordedOnce'
  BY <1>1, <1>2, HandlerStands, LaunchStands
<1>4. PageInv' /\ CursorKnown'
  BY <1>1, Zenon DEF PageInv, CursorKnown
<1>5. /\ DOMAIN gateway' = {"tokens", "left", "info"} /\ gateway'.tokens \subseteq Tokens
      /\ gateway'.info = NoRow \/ (RowShape(gateway'.info) /\ gateway'.info.volume = 0)
  <2>1. /\ DOMAIN gateway = {"tokens", "left", "info"} /\ gateway.tokens \subseteq Tokens
        /\ gateway.info = NoRow \/ (RowShape(gateway.info) /\ gateway.info.volume = 0)
    BY <1>1 DEF WritersInv
  <2>2. CASE t \in Tokens /\ RequestSync(t)
    BY <2>2 DEF RequestSync
  <2>3. CASE GetTokenInfo(t)
    <3>1. PICK r : gateway' = [gateway EXCEPT !.info = r] /\ r = RawTokenInfo(t)
      BY <2>3 DEF GetTokenInfo
    <3>2. RowShape(r) /\ r.volume = 0
      BY <3>1, ReadShape
    <3>3. DOMAIN gateway' = {"tokens", "left", "info"} /\ gateway'.tokens = gateway.tokens
          /\ gateway'.info = r
      BY <2>1, <3>1
    <3>4. QED
      BY <2>1, <3>2, <3>3
  <2>4. CASE GetTokenInfoFails(t)
    <3>1. gateway' = [gateway EXCEPT !.left = @ - 1] \/ gateway' = NoMutation
      BY <2>4 DEF GetTokenInfoFails
    <3>2. CASE gateway' = [gateway EXCEPT !.left = @ - 1]
      <4>1. DOMAIN gateway' = {"tokens", "left", "info"} /\ gateway'.tokens = gateway.tokens
            /\ gateway'.info = gateway.info
        BY <2>1, <3>2
      <4>2. QED
        BY <2>1, <4>1
    <3>3. CASE gateway' = NoMutation
      BY <3>3 DEF NoMutation
    <3>4. QED
      BY <3>1, <3>2, <3>3
  <2>5. CASE SyncTokenRollsBack
    BY <2>5 DEF SyncTokenRollsBack, NoMutation
  <2>6. QED
    BY <2>2, <2>3, <2>4, <2>5
<1>6. \A u \in Tokens : HasRow(u) => HasRow(u)'
  BY <1>2 DEF Persist
<1>7. WritersInv'
  BY <1>1, <1>5, <1>6, Zenon DEF WritersInv
<1>8. QED
  BY <1>2, <1>3, <1>4, <1>7 DEF RecordsInv

LEMMA SyncTokenToDatabaseStep ==
  ASSUME RecordsInv, NEW t \in Tokens, SyncTokenToDatabase(t)
  PROVE  RecordsInv'
<1>1. /\ ChainInv /\ PageInv /\ CursorKnown /\ RowsInv /\ WritersInv /\ HandlerInv
      /\ LaunchRecordedOnce
      /\ UNCHANGED <<chain, head, txRow, cursorRow, cursorCache, poll>> /\ UNCHANGED handler
      /\ UNCHANGED sync
  BY DEF RecordsInv, SyncTokenToDatabase, indexerVars
<1>2. RowShape(gateway.info) /\ gateway.info.volume = 0
      /\ tokenRow' = [tokenRow EXCEPT ![t] = gateway.info]
  BY <1>1 DEF SyncTokenToDatabase, WritersInv
<1>3. PICK r : r = gateway.info
  OBVIOUS
<1>4. /\ ChainInv' /\ RowsInv' /\ VolumeHasTransactions' /\ PageInv' /\ CursorKnown'
      /\ Persist /\ HasRow(t)'
  BY <1>1, <1>2, <1>3, RowReplacedRecords
<1>5. HandlerInv'
  BY <1>1, <1>4, HandlerStands
<1>6. \A u \in creationTx' : u \in creationTx \/ (u = t /\ ~ \E i \in txRow : /\ chain[i].kind = "launched"
                                                                             /\ chain[i].token = t)
  BY DEF SyncTokenToDatabase
<1>7. WritersInv'
  <2>1. gateway' = NoMutation
    BY DEF SyncTokenToDatabase
  <2>2. DOMAIN gateway' = {"tokens", "left", "info"} /\ gateway'.tokens \subseteq Tokens
        /\ gateway'.info = NoRow
    BY <2>1 DEF NoMutation
  <2>3. \A u \in Tokens : HasRow(u) => HasRow(u)'
    BY <1>4 DEF Persist
  <2>4. \A u \in creationTx' : u \in Tokens /\ HasRow(u)'
    BY <1>1, <1>4, <1>6, <2>3, Zenon DEF WritersInv
  <2>5. QED
    BY <1>1, <2>2, <2>3, <2>4, Zenon DEF WritersInv
<1>8. LaunchRecordedOnce'
  BY <1>1, <1>6, Zenon DEF LaunchRecordedOnce
<1>9. QED
  BY <1>4, <1>5, <1>7, <1>8 DEF RecordsInv

LEMMA ScriptReads ==
  ASSUME RecordsInv, NEW t, RunScript \/ (t \in Tokens /\ ProcessToken(t))
  PROVE  RecordsInv'
<1>1. /\ ChainInv /\ PageInv /\ CursorKnown /\ RowsInv /\ WritersInv /\ HandlerInv
      /\ LaunchRecordedOnce
      /\ UNCHANGED <<chain, head, tokenRow, txRow>> /\ UNCHANGED handler
      /\ UNCHANGED <<sync, gateway, creationTx>>
      /\ UNCHANGED <<cursorRow, cursorCache, poll>> /\ UNCHANGED <<txRow, creationTx>>
  BY DEF RecordsInv, RunScript, ProcessToken, tokenVars, indexerVars
<1>2. ChainInv' /\ RowsInv' /\ VolumeHasTransactions' /\ Persist
  BY <1>1, RowsStand
<1>3. HandlerInv' /\ LaunchRecordedOnce' /\ WritersInv'
  BY <1>1, <1>2, HandlerStands, LaunchStands, WritersStand
<1>4. PageInv' /\ CursorKnown'
  BY <1>1, Zenon DEF PageInv, CursorKnown
<1>5. QED
  BY <1>2, <1>3, <1>4 DEF RecordsInv

LEMMA UpsertTokenStep ==
  ASSUME RecordsInv, ScriptInv, NEW t \in Tokens, UpsertToken(t)
  PROVE  RecordsInv'
<1>1. /\ ChainInv /\ PageInv /\ CursorKnown /\ RowsInv /\ WritersInv /\ HandlerInv
      /\ LaunchRecordedOnce
      /\ UNCHANGED <<chain, head, txRow, cursorRow, cursorCache, poll>> /\ UNCHANGED handler
      /\ UNCHANGED <<sync, gateway, creationTx>> /\ UNCHANGED <<txRow, creationTx>>
  BY DEF RecordsInv, UpsertToken, indexerVars
<1>2. ChainInv' /\ RowsInv' /\ VolumeHasTransactions' /\ PageInv' /\ CursorKnown' /\ Persist
  <2>1. CASE UNCHANGED tokenRow
    <3>1. PageInv' /\ CursorKnown'
      BY <1>1, Zenon DEF PageInv, CursorKnown
    <3>2. QED
      BY <1>1, <2>1, <3>1, RowsStand
  <2>2. CASE ~UNCHANGED tokenRow
    <3>1. PICK r : r = script.info
      OBVIOUS
    <3>2. tokenRow' = [tokenRow EXCEPT ![t] = r] /\ RowShape(r) /\ r.volume = 0
      BY <2>2, <3>1 DEF UpsertToken, ScriptInv
    <3>3. QED
      BY <1>1, <3>2, RowReplacedRecords
  <2>3. QED
    BY <2>1, <2>2
<1>3. HandlerInv' /\ LaunchRecordedOnce' /\ WritersInv'
  BY <1>1, <1>2, HandlerStands, LaunchStands, WritersStand
<1>4. QED
  BY <1>2, <1>3 DEF RecordsInv

LEMMA ScriptKept ==
  ASSUME ScriptInv, [DatabaseNext]_databaseVars
  PROVE  ScriptInv'
<1>1. CASE UNCHANGED script
  BY <1>1, Zenon DEF ScriptInv
<1>2. CASE RunScript
  BY <1>2 DEF RunScript, NoScript, ScriptInv
<1>3. ASSUME NEW t \in Tokens, ProcessToken(t)
      PROVE  ScriptInv'
  <2>1. PICK r : r = RawTokenInfo(t)
    OBVIOUS
  <2>2. RowShape(r) /\ r.volume = 0
    BY <2>1, ReadShape
  <2>3. CASE script' = [todo |-> script.todo \ {t}, at |-> {t}, info |-> r]
    <3>1. script'.info = r /\ DOMAIN script' = {"todo", "at", "info"}
      BY <2>3
    <3>2. QED
      BY <2>2, <3>1, Zenon DEF ScriptInv
  <2>4. CASE script' = [script EXCEPT !.todo = @ \ {t}]
    <3>1. script'.at = {} /\ DOMAIN script' = {"todo", "at", "info"}
      BY <1>3, <2>4 DEF ScriptInv, ProcessToken
    <3>2. QED
      BY <3>1, Zenon DEF ScriptInv
  <2>5. QED
    BY <1>3, <2>1, <2>3, <2>4 DEF ProcessToken
<1>4. ASSUME NEW t \in Tokens, UpsertToken(t)
      PROVE  ScriptInv'
  <2>1. script'.at = {} /\ DOMAIN script' = {"todo", "at", "info"}
    BY <1>4 DEF UpsertToken, ScriptInv
  <2>2. QED
    BY <2>1, Zenon DEF ScriptInv
<1>5. CASE \/ Bootstrap \/ BootstrapEnds \/ ProcessDies \/ SyncTokenRollsBack
           \/ \E s \in Syncers : RunSync(s) \/ RunSyncEnds(s)
  BY <1>1, <1>5 DEF Bootstrap, BootstrapEnds, ProcessDies, SyncTokenRollsBack, RunSync, RunSyncEnds,
     gatewayVars
<1>6. ASSUME NEW s \in Syncers, NEW t \in Tokens,
             SyncSingleToken(s, t) \/ FetchToken(s, t) \/ UpdateToken(s, t) \/ SyncTokenFails(s, t)
      PROVE  ScriptInv'
  BY <1>1, <1>6 DEF SyncSingleToken, FetchToken, UpdateToken, SyncTokenFails, gatewayVars
<1>7. ASSUME NEW t \in Tokens,
             \/ BootstrapToken(t)
             \/ RequestSync(t) \/ GetTokenInfo(t) \/ GetTokenInfoFails(t) \/ SyncTokenToDatabase(t)
      PROVE  ScriptInv'
  BY <1>1, <1>7 DEF BootstrapToken, RequestSync, GetTokenInfo, GetTokenInfoFails, SyncTokenToDatabase,
     gatewayVars
<1>8. CASE UNCHANGED syncVars
  BY <1>1, <1>8 DEF syncVars, gatewayVars
<1>9. CASE UNCHANGED databaseVars
  BY <1>8, <1>9 DEF databaseVars
<1>10. QED
  BY <1>2, <1>3, <1>4, <1>5, <1>6, <1>7, <1>8, <1>9 DEF DatabaseNext

-----------------------------------------------------------------------------
LEMMA RecordsStart ==
  ASSUME DatabaseInit
  PROVE  RecordsInv /\ ScriptInv
<1>1. /\ chain = <<>> /\ head = 1 /\ tokenRow = [t \in Tokens |-> NoRow] /\ txRow = {}
      /\ handler = NoHandler /\ poll = NoPoll /\ cursorRow = 0 /\ cursorCache = 0
      /\ sync = [s \in Syncers |-> NoSync] /\ gateway = NoMutation /\ creationTx = {}
      /\ script = NoScript
  BY DEF DatabaseInit, TokenInit, IndexerInit, SyncInit
<1>2. Len(chain) = 0 /\ 1 .. Len(chain) = {} /\ chain \in Seq(Ev) /\ head \in Nat
  BY <1>1
<1>3. ChainInv
  BY <1>2 DEF ChainInv
<1>4. \A t \in Tokens : tokenRow[t] = NoRow
  BY <1>1
<1>5. RowShape(NoRow)
  BY DEF RowShape, NoRow
<1>6. RowsInv
  <2>1. IsFiniteSet(txRow) /\ txRow \subseteq 1 .. Len(chain)
    BY <1>1, FS_EmptySet
  <2>2. \A t \in Tokens : GoodRow(tokenRow[t])
    BY <1>4, <1>5 DEF GoodRow
  <2>3. tokenRow = [t \in Tokens |-> tokenRow[t]]
    BY <1>1
  <2>4. QED
    BY <2>1, <2>2, <2>3 DEF RowsInv
<1>7. HandlerInv
  BY <1>1 DEF HandlerInv, NoHandler
<1>8. WritersInv
  <2>1. \A s \in Syncers : DOMAIN sync[s] = {"busy", "forced", "todo", "rows", "fetched"} /\ sync[s].todo = {}
    BY <1>1 DEF NoSync
  <2>2. sync = [s \in Syncers |-> sync[s]]
    BY <1>1
  <2>3. DOMAIN gateway = {"tokens", "left", "info"} /\ gateway.tokens \subseteq Tokens /\ gateway.info = NoRow
    BY <1>1 DEF NoMutation
  <2>4. QED
    BY <1>1, <2>1, <2>2, <2>3, Zenon DEF WritersInv
<1>9. PageInv /\ CursorKnown
  <2>1. /\ poll.rest = <<>> /\ DOMAIN poll = {"at", "rest", "latest"}
        /\ poll.latest = 0 /\ poll.at = "none"
    BY <1>1 DEF NoPoll
  <2>2. PageInv
    BY <1>1, <2>1 DEF PageInv
  <2>3. CursorKnown
    BY <1>1 DEF CursorKnown
  <2>4. QED
    BY <2>2, <2>3
<1>10. VolumeHasTransactions
  <2>1. \A t \in Tokens : Total(t) = 0
    BY <1>1, SumOfNothing DEF Total
  <2>2. \A t \in Tokens : tokenRow[t].volume <= Total(t)
    BY <1>4, <2>1 DEF NoRow
  <2>3. QED
    BY <2>2 DEF VolumeHasTransactions, Total
<1>11. LaunchRecordedOnce
  BY <1>1 DEF LaunchRecordedOnce
<1>12. ScriptInv
  BY <1>1 DEF NoScript, ScriptInv
<1>13. QED
  BY <1>3, <1>6, <1>7, <1>8, <1>9, <1>10, <1>11, <1>12 DEF RecordsInv

LEMMA RecordsUnmoved ==
  ASSUME RecordsInv, UNCHANGED databaseVars
  PROVE  RecordsInv'
<1>1. /\ UNCHANGED <<chain, head, tokenRow, txRow, handler, sync, gateway, creationTx>>
      /\ UNCHANGED <<cursorRow, cursorCache, poll>>
  BY DEF databaseVars, tokenVars, indexerVars, syncVars, gatewayVars
<1>2. /\ ChainInv' /\ RowsInv' /\ VolumeHasTransactions'
      /\ HandlerInv' /\ WritersInv' /\ LaunchRecordedOnce'
  BY <1>1, RecordsStand
<1>3. PageInv' /\ CursorKnown'
  BY <1>1, Zenon DEF PageInv, CursorKnown, RecordsInv
<1>4. QED
  BY <1>2, <1>3 DEF RecordsInv

LEMMA RecordsKept ==
  ASSUME RecordsInv, ScriptInv, [DatabaseNext]_databaseVars
  PROVE  RecordsInv' /\ ScriptInv'
<1> SUFFICES RecordsInv'
  BY ScriptKept
<1>1. CASE UNCHANGED databaseVars
  BY <1>1, RecordsUnmoved
<1>2. ASSUME NEW t \in Tokens, NEW a \in Amounts, LedgerCloses(t, a), UNCHANGED <<indexerVars, syncVars>>
      PROVE  RecordsInv'
  BY <1>2, ChainStep
<1>3. CASE (PollStarts \/ SkipDuplicate \/ RefuseQueued \/ PollEnds \/ Restart) /\ UNCHANGED syncVars
  BY <1>3, PollSteps
<1>4. CASE TakeEvent /\ UNCHANGED syncVars
  BY <1>4, TakeEventStep
<1>5. CASE Handle /\ UNCHANGED syncVars
  BY <1>5, HandleSteps
<1>6. CASE MarkProcessed /\ UNCHANGED syncVars
  BY <1>6, MarkProcessedStep
<1>7. CASE ProcessDies
  BY <1>7, DiesStep
<1>8. CASE Bootstrap \/ BootstrapEnds
  <2>1. \A t : Bootstrap \/ BootstrapEnds \/ (t \in Tokens /\ BootstrapToken(t)) => RecordsInv'
    BY BootSteps
  <2>2. QED
    BY <1>8, <2>1
<1>9. ASSUME NEW t \in Tokens, BootstrapToken(t)
      PROVE  RecordsInv'
  BY <1>9, BootSteps
<1>10. ASSUME NEW s \in Syncers, NEW t \in Tokens,
              SyncSingleToken(s, t) \/ FetchToken(s, t) \/ SyncTokenFails(s, t)
       PROVE  RecordsInv'
  BY <1>10, SyncQuietSteps
<1>11. ASSUME NEW s \in Syncers, NEW t \in Tokens, UpdateToken(s, t)
       PROVE  RecordsInv'
  BY <1>11, UpdateTokenStep
<1>12. ASSUME NEW t \in Tokens, RequestSync(t) \/ GetTokenInfo(t) \/ GetTokenInfoFails(t)
       PROVE  RecordsInv'
  BY <1>12, GatewayReads, Zenon
<1>13. ASSUME NEW t \in Tokens, SyncTokenToDatabase(t)
       PROVE  RecordsInv'
  BY <1>13, SyncTokenToDatabaseStep
<1>14. ASSUME NEW s \in Syncers, RunSync(s) \/ RunSyncEnds(s)
       PROVE  RecordsInv'
  <2>1. \A t : RunSync(s) \/ RunSyncEnds(s) \/ (t \in Tokens /\ SyncSingleToken(s, t))
              \/ FetchToken(s, t) \/ SyncTokenFails(s, t) => RecordsInv'
    BY SyncQuietSteps
  <2>2. QED
    BY <1>14, <2>1
<1>15. CASE SyncTokenRollsBack \/ RunScript
  <2>1. \A t : (SyncTokenRollsBack => RecordsInv') /\ (RunScript => RecordsInv')
    BY GatewayReads, ScriptReads
  <2>2. QED
    BY <1>15, <2>1
<1>16. ASSUME NEW t \in Tokens, ProcessToken(t)
       PROVE  RecordsInv'
  BY <1>16, ScriptReads
<1>17. ASSUME NEW t \in Tokens, UpsertToken(t)
       PROVE  RecordsInv'
  BY <1>17, UpsertTokenStep
<1>18. QED
  BY <1>1, <1>2, <1>3, <1>4, <1>5, <1>6, <1>7, <1>8, <1>9, <1>10, <1>11, <1>12, <1>13, <1>14,
     <1>15, <1>16, <1>17 DEF DatabaseNext

(* The database is consistent in every state: no row counts a volume that  *)
(* no transaction accounts for, and no launch is recorded twice.           *)
THEOREM VolumesHaveTransactions == DatabaseSpec => []VolumeHasTransactions
<1>1. RecordsInv => VolumeHasTransactions
  BY DEF RecordsInv
<1>2. QED
  BY <1>1, RecordsStart, RecordsKept, PTL DEF DatabaseSpec

(* Handler and gateway each look before they record a launch, and neither  *)
(* can do so between the other's look and its record.                      *)
THEOREM LaunchesRecordedOnce == DatabaseSpec => []LaunchRecordedOnce
<1>1. RecordsInv => LaunchRecordedOnce
  BY DEF RecordsInv
<1>2. QED
  BY <1>1, RecordsStart, RecordsKept, PTL DEF DatabaseSpec

-----------------------------------------------------------------------------
(* What the cursor has passed.                                             *)
Passed ==
  \A i \in 1 .. Len(chain) :
     chain[i].ledger <= cursorRow /\ IsTrade(i) => Accounted(i) \/ i \in Range(poll.rest)

LEMMA PassedIsSeen ==
  ASSUME ChainInv
  PROVE  Passed => CursorPassesNothingUnseen
<1>1. DOMAIN chain = 1 .. Len(chain)
  BY ChainFacts
<1>2. QED
  BY <1>1 DEF Passed, CursorPassesNothingUnseen, IsTrade, Trades, Accounted

LEMMA RangeOfTail ==
  ASSUME NEW T, NEW s \in Seq(T), s # <<>>
  PROVE  /\ Tail(s) \in Seq(T) /\ Head(s) \in Range(s)
         /\ Range(Tail(s)) \subseteq Range(s) /\ Range(s) \subseteq Range(Tail(s)) \cup {Head(s)}
<1>1. Len(s) \in Nat \ {0} /\ DOMAIN s = 1 .. Len(s) /\ Head(s) = s[1]
  OBVIOUS
<1>2. /\ Tail(s) \in Seq(T) /\ DOMAIN Tail(s) = 1 .. Len(s) - 1
      /\ \A i \in 1 .. Len(s) - 1 : Tail(s)[i] = s[i + 1]
  OBVIOUS
<1>3. Head(s) \in Range(s)
  BY <1>1 DEF Range
<1>4. Range(Tail(s)) \subseteq Range(s)
  <2>1. \A i \in 1 .. Len(s) - 1 : i + 1 \in DOMAIN s
    BY <1>1
  <2>2. QED
    BY <1>2, <2>1 DEF Range
<1>5. Range(s) \subseteq Range(Tail(s)) \cup {Head(s)}
  <2>1. SUFFICES ASSUME NEW i \in DOMAIN s, i # 1 PROVE s[i] \in Range(Tail(s))
    BY <1>1 DEF Range
  <2>2. i - 1 \in 1 .. Len(s) - 1 /\ Tail(s)[i - 1] = s[i]
    BY <1>1, <1>2, <2>1
  <2>3. QED
    BY <1>2, <2>2 DEF Range
<1>6. QED
  BY <1>2, <1>3, <1>4, <1>5

LEMMA RememberFacts ==
  ASSUME NEW T, seen \in Seq(T), NEW id \in T
  PROVE  Remember(id) \in Seq(T) /\ Range(Remember(id)) \subseteq Range(seen) \cup {id}
<1> DEFINE room == IF Len(seen) >= CacheSize THEN Tail(seen) ELSE seen
<1>1. room \in Seq(T) /\ Range(room) \subseteq Range(seen)
  <2>1. CASE Len(seen) >= CacheSize
    <3>1. seen # <<>>
      BY <2>1, IndexerAssumption
    <3>2. QED
      BY <2>1, <3>1, RangeOfTail
  <2>2. CASE ~(Len(seen) >= CacheSize)
    BY <2>2
  <2>3. QED
    BY <2>1, <2>2
<1>2. Remember(id) = room \/ Remember(id) = Append(room, id)
  BY Zenon DEF Remember
<1> HIDE DEF room
<1>3. Append(room, id) \in Seq(T) /\ Range(Append(room, id)) \subseteq Range(room) \cup {id}
  <2>1. /\ Append(room, id) \in Seq(T) /\ DOMAIN Append(room, id) = 1 .. Len(room) + 1
        /\ DOMAIN room = 1 .. Len(room) /\ Len(room) \in Nat
        /\ \A i \in 1 .. Len(room) : Append(room, id)[i] = room[i]
        /\ Append(room, id)[Len(room) + 1] = id
    BY <1>1
  <2>2. \A i \in 1 .. Len(room) + 1 : i \in 1 .. Len(room) \/ i = Len(room) + 1
    BY <2>1
  <2>3. QED
    BY <2>1, <2>2 DEF Range
<1>4. QED
  BY <1>1, <1>2, <1>3

(* A hit of the cache moves an entry to its end.                           *)
LEMMA UsedFacts ==
  ASSUME NEW T, seen \in Seq(T), NEW id, Cached(id)
  PROVE  Used(id) \in Seq(T) /\ Range(Used(id)) \subseteq Range(seen)
<1>1. PICK i : i = CHOOSE j \in DOMAIN seen : Key(seen[j]) = Key(id)
  OBVIOUS
<1>2. i \in DOMAIN seen
  BY <1>1 DEF Cached
<1>3. Len(seen) \in Nat /\ DOMAIN seen = 1 .. Len(seen) /\ \A j \in DOMAIN seen : seen[j] \in T
  OBVIOUS
<1> DEFINE q == RemoveAt(seen, i)
<1>4. q \in Seq(T) /\ \A j \in DOMAIN q : q[j] \in Range(seen)
  <2>1. q = SubSeq(seen, 1, i - 1) \o SubSeq(seen, i + 1, Len(seen))
    BY DEF RemoveAt
  <2> HIDE DEF q
  <2>2. i \in 1 .. Len(seen)
    BY <1>2, <1>3
  <2> DEFINE x == SubSeq(seen, 1, i - 1)
             y == SubSeq(seen, i + 1, Len(seen))
  <2>3. /\ x \in Seq(T) /\ Len(x) = i - 1 /\ \A j \in 1 .. i - 1 : x[j] = seen[j]
    BY <1>3, <2>2
  <2>4. /\ y \in Seq(T) /\ Len(y) = Len(seen) - i /\ \A j \in 1 .. Len(seen) - i : y[j] = seen[i + j]
    <3>1. /\ i + 1 \in Int /\ Len(seen) \in Int /\ \A j \in i + 1 .. Len(seen) : seen[j] \in T
          /\ Len(seen) - (i + 1) + 1 = Len(seen) - i
      BY <1>3, <2>2
    <3>2. /\ y \in Seq(T) /\ Len(y) = (IF i + 1 <= Len(seen) THEN Len(seen) - (i + 1) + 1 ELSE 0)
          /\ \A j \in 1 .. Len(seen) - (i + 1) + 1 : y[j] = seen[(i + 1) + j - 1]
      BY <3>1, SubSeqProperties
    <3>3. Len(y) = Len(seen) - i
      <4>1. i \in Int /\ Len(seen) \in Int /\ i <= Len(seen)
        BY <1>3, <2>2
      <4>2. PICK m \in Int : m = Len(seen)
        BY <4>1
      <4>3. Len(y) = IF i + 1 <= m THEN m - (i + 1) + 1 ELSE 0
        BY <3>2, <4>2
      <4>4. Len(y) = m - i
        BY <4>1, <4>2, <4>3
      <4>5. QED
        BY <4>2, <4>4
    <3>4. \A j \in 1 .. Len(seen) - i : (i + 1) + j - 1 = i + j
      BY <1>3, <2>2
    <3>5. QED
      BY <3>1, <3>2, <3>3, <3>4
  <2> HIDE DEF x, y
  <2>5. /\ q \in Seq(T) /\ Len(q) = Len(x) + Len(y) /\ DOMAIN q = 1 .. Len(q)
        /\ \A j \in 1 .. Len(q) : q[j] = IF j <= Len(x) THEN x[j] ELSE y[j - Len(x)]
    BY <2>1, <2>3, <2>4 DEF x, y
  <2>6. ASSUME NEW j \in 1 .. Len(q)
        PROVE  q[j] \in Range(seen)
    <3>1. CASE j <= Len(x)
      <4>1. Len(q) \in Nat /\ j \in 1 .. i - 1 /\ j \in DOMAIN seen
        BY <1>3, <2>2, <2>3, <2>5, <2>6, <3>1
      <4>2. q[j] = seen[j]
        BY <2>3, <2>5, <2>6, <3>1, <4>1
      <4>3. QED
        BY <4>1, <4>2 DEF Range
    <3>2. CASE ~(j <= Len(x))
      <4>1. j - Len(x) \in 1 .. Len(seen) - i /\ q[j] = y[j - Len(x)]
        <5>1. Len(q) = (i - 1) + (Len(seen) - i) /\ i \in Nat /\ j \in Nat /\ j <= Len(q)
          BY <1>3, <2>2, <2>3, <2>4, <2>5, <2>6
        <5>2. j - Len(x) \in 1 .. Len(seen) - i
          BY <1>3, <2>2, <2>3, <3>2, <5>1
        <5>3. QED
          BY <2>5, <2>6, <3>2, <5>2
      <4>2. q[j] = seen[i + (j - Len(x))] /\ i + (j - Len(x)) \in DOMAIN seen
        BY <1>3, <2>2, <2>3, <2>4, <4>1
      <4>3. QED
        BY <4>2 DEF Range
    <3>3. QED
      BY <3>1, <3>2
  <2>7. QED
    BY <2>5, <2>6
<1>5. Used(id) = Append(q, seen[i])
  BY <1>1 DEF Used
<1> HIDE DEF q
<1>6. seen[i] \in T /\ seen[i] \in Range(seen)
  BY <1>2, <1>3 DEF Range
<1>7. /\ Append(q, seen[i]) \in Seq(T) /\ DOMAIN Append(q, seen[i]) = 1 .. Len(q) + 1
      /\ DOMAIN q = 1 .. Len(q) /\ Len(q) \in Nat
      /\ \A j \in 1 .. Len(q) : Append(q, seen[i])[j] = q[j]
      /\ Append(q, seen[i])[Len(q) + 1] = seen[i]
  BY <1>4, <1>6
<1>8. \A j \in 1 .. Len(q) + 1 : Append(q, seen[i])[j] \in Range(seen)
  <2>1. \A j \in 1 .. Len(q) + 1 : j \in 1 .. Len(q) \/ j = Len(q) + 1
    BY <1>7
  <2>2. QED
    BY <1>4, <1>6, <1>7, <2>1
<1>9. Range(Append(q, seen[i])) \subseteq Range(seen)
  BY <1>7, <1>8 DEF Range
<1>10. QED
  BY <1>5, <1>7, <1>9

(* A step away from the poller that forgets no record.                     *)
LEMMA CursorUnmoved ==
  ASSUME CursorInv, Passed, UNCHANGED <<chain, cursorRow, seen, poll, handler>>,
         txRow \subseteq txRow', lost \subseteq lost', unhandled \subseteq unhandled'
  PROVE  CursorInv' /\ Passed'
<1>1. \A i : Accounted(i) => Accounted(i)'
  BY DEF Accounted
<1>2. \A i : IsTrade(i)' = IsTrade(i)
  BY DEF IsTrade
<1>3. Passed'
  BY <1>1, <1>2 DEF Passed
<1>4. CursorInv'
  BY <1>1, <1>2 DEF CursorInv, IsTrade
<1>5. QED
  BY <1>3, <1>4

LEMMA RangeInSeq ==
  ASSUME NEW T, NEW s \in Seq(T)
  PROVE  Range(s) \subseteq T
<1>1. \A i \in DOMAIN s : s[i] \in T
  OBVIOUS
<1>2. QED
  BY <1>1 DEF Range

LEMMA SeqWidens ==
  ASSUME NEW T, NEW U, T \subseteq U, NEW s \in Seq(T)
  PROVE  s \in Seq(U)
  OBVIOUS

(* New ledgers are later than all that cursor and poll cover.              *)
LEMMA ChainUnseen ==
  ASSUME ChainInv, PageInv, CursorKnown, CursorInv, Passed, ChainGoesOn,
         UNCHANGED <<cursorRow, seen, poll, handler, txRow, lost, unhandled>>,
         handler.at # "none" => handler.id \in 1 .. Len(chain)
  PROVE  CursorInv' /\ Passed'
<1>1. /\ Len(chain) \in Nat /\ Len(chain') \in Nat /\ Len(chain) <= Len(chain')
      /\ \A i \in 1 .. Len(chain) : chain'[i] = chain[i]
      /\ \A i \in 1 .. Len(chain') : i \notin 1 .. Len(chain) => chain'[i].ledger = head + 1
      /\ head \in Nat
  BY DEF ChainGoesOn, ChainInv
<1>2. 1 .. Len(chain) \subseteq 1 .. Len(chain')
  BY <1>1
<1>3. poll.latest \in Nat /\ poll.latest <= head /\ cursorRow \in Nat /\ cursorRow <= head
  BY DEF PageInv, CursorKnown
<1>4. \A i \in 1 .. Len(chain') : i \notin 1 .. Len(chain) =>
         ~(chain'[i].ledger <= poll.latest) /\ ~(chain'[i].ledger <= cursorRow)
  BY <1>1, <1>3
<1>5. Range(poll.rest) \subseteq 1 .. Len(chain) /\ Range(seen) \subseteq 1 .. Len(chain)
      /\ seen \in Seq(1 .. Len(chain'))
  <2>1. poll.rest \in Seq(1 .. Len(chain)) /\ seen \in Seq(1 .. Len(chain))
    BY DEF PageInv, CursorInv
  <2>2. Range(poll.rest) \subseteq 1 .. Len(chain) /\ Range(seen) \subseteq 1 .. Len(chain)
    BY <2>1, RangeInSeq
  <2>3. seen \in Seq(1 .. Len(chain'))
    BY <1>2, <2>1, SeqWidens, Zenon
  <2>4. QED
    BY <2>2, <2>3
<1>6. Passed'
  BY <1>1, <1>4 DEF Passed, IsTrade, Accounted
<1>7. CursorInv'
  <2>1. \A i \in Range(poll.rest) : chain'[i].ledger <= poll.latest
    BY <1>1, <1>5 DEF CursorInv
  <2>2. \A i \in Range(seen) : IsTrade(i)' => Accounted(i)'
    BY <1>1, <1>5 DEF CursorInv, IsTrade, Accounted
  <2>3. poll.at # "none" => \A i \in 1 .. Len(chain') :
          chain'[i].ledger <= poll.latest /\ IsTrade(i)' => Accounted(i)' \/ i \in Range(poll.rest)
    BY <1>1, <1>4 DEF CursorInv, IsTrade, Accounted
  <2>4. /\ poll.at = "handling" => handler.at # "none" /\ handler.id = Head(poll.rest)
        /\ poll.at \in {"none", "next", "handling"} /\ (poll.at = "none" => poll = NoPoll)
    BY DEF CursorInv
  <2>5. poll.at = "handling" /\ handler.at = "done" /\ chain'[handler.id].kind \in Trades
          => handler.id \in txRow \cup lost \cup unhandled
    BY <1>1, <2>4 DEF CursorInv, IsTrade, Accounted
  <2>6. QED
    BY <1>5, <2>1, <2>2, <2>3, <2>4, <2>5 DEF CursorInv, IsTrade, Accounted
<1>8. QED
  BY <1>6, <1>7

(* A poll fetches what the cursor has not passed, or gives it up: what is  *)
(* left out of its page is behind the cursor or lost.                      *)
LEMMA PollStartsUnseen ==
  ASSUME ChainInv, PageInv, CursorKnown, CursorInv, Passed, PollStarts
  PROVE  CursorInv' /\ Passed'
<1>1. /\ UNCHANGED <<chain, cursorRow, seen, handler, txRow, unhandled>> /\ head \in Nat
      /\ poll.at = "none" /\ poll.rest = <<>>
  BY DEF PollStarts, ChainInv, NoPoll
<1>2. PageInv' /\ \E last \in {0, cursorRow} : PollsFrom(last) /\ StartLedger(last) \in Nat
  BY PollStartsPage
<1>3. PICK last \in {0, cursorRow} : PollsFrom(last) /\ StartLedger(last) \in Nat
  BY <1>2
<1> DEFINE found == FromLedger(StartLedger(last))
           F == Range(found)
           C == Range(CutPage(found))
<1>4. C \subseteq F /\ F \subseteq 1 .. Len(chain)
  <2>1. found \in Seq(1 .. Len(chain))
    BY <1>3, FromLedgerFacts
  <2>2. F \subseteq 1 .. Len(chain)
    BY <2>1, RangeInSeq
  <2>3. C \subseteq F
    BY <2>1, CutPageFacts
  <2>4. QED
    BY <2>2, <2>3
<1>5. /\ lost' = lost \cup (F \ C) \cup Jumped(found) /\ Range(poll'.rest) = C
      /\ poll'.latest = head /\ poll'.at = "next"
  BY <1>3 DEF PollsFrom
<1>6. \A i \in 1 .. Len(chain) : i \notin F /\ i \notin txRow /\ chain[i].ledger > cursorRow
         => i \in Jumped(found)
  BY ChainFacts DEF Jumped
<1> HIDE DEF found, F, C
<1>7. \A i \in 1 .. Len(chain) : IsTrade(i) => i \in C \/ i \in txRow \cup lost' \cup unhandled
  <2>1. SUFFICES ASSUME NEW i \in 1 .. Len(chain), IsTrade(i), i \notin F
                 PROVE  i \in txRow \cup lost' \cup unhandled
    BY <1>5
  <2>2. CASE chain[i].ledger > cursorRow
    BY <1>5, <1>6, <2>1, <2>2
  <2>3. CASE ~(chain[i].ledger > cursorRow)
    <3>1. chain[i].ledger <= cursorRow
      BY <2>3, ChainFacts DEF CursorKnown
    <3>2. Range(poll.rest) = {}
      BY <1>1 DEF Range
    <3>3. i \in txRow \cup lost \cup unhandled
      BY <2>1, <3>1, <3>2 DEF Passed, Accounted
    <3>4. QED
      BY <1>5, <3>3
  <2>4. QED
    BY <2>2, <2>3
<1>8. Passed'
  BY <1>1, <1>5, <1>7 DEF Passed, IsTrade, Accounted
<1>9. CursorInv'
  <2>1. \A i \in C : chain[i].ledger <= head
    BY <1>4 DEF ChainInv
  <2>2. /\ seen \in Seq(1 .. Len(chain))
        /\ \A i \in Range(seen) : IsTrade(i) => i \in txRow \cup lost \cup unhandled
    BY DEF CursorInv, Accounted
  <2>3. lost \subseteq lost'
    BY <1>5
  <2>4. \A i \in Range(seen) : IsTrade(i)' => Accounted(i)'
    BY <1>1, <2>2, <2>3 DEF IsTrade, Accounted
  <2>5. \A i \in 1 .. Len(chain) : IsTrade(i)' => Accounted(i)' \/ i \in C
    BY <1>1, <1>7 DEF IsTrade, Accounted
  <2>6. poll'.at # "handling" /\ poll'.at # "none" /\ poll'.at \in {"none", "next", "handling"}
    BY <1>5
  <2>7. QED
    BY <1>1, <1>5, <2>1, <2>2, <2>4, <2>5, <2>6, Zenon DEF CursorInv
<1>10. QED
  BY <1>8, <1>9

(* The first event of the page leaves it, accounted for.                   *)
LEMMA PageShortens ==
  ASSUME ChainInv, PageInv, CursorInv, Passed, poll.rest # <<>>, poll.at # "none",
         UNCHANGED <<chain, cursorRow, txRow, unhandled>>, lost \subseteq lost',
         DOMAIN poll' = {"at", "rest", "latest"}, poll'.rest = Tail(poll.rest),
         poll'.at = "next", poll'.latest = poll.latest,
         IsTrade(Head(poll.rest)) => Head(poll.rest) \in txRow \cup lost' \cup unhandled,
         seen' \in Seq(1 .. Len(chain)), Range(seen') \subseteq Range(seen) \cup {Head(poll.rest)}
  PROVE  CursorInv' /\ Passed'
<1>0. PICK h : h = Head(poll.rest)
  OBVIOUS
<1>1. /\ Range(poll'.rest) \subseteq Range(poll.rest) /\ h \in Range(poll.rest)
      /\ Range(poll.rest) \subseteq Range(poll'.rest) \cup {h}
  BY <1>0, RangeOfTail DEF PageInv
<1>2. IsTrade(h) => h \in txRow \cup lost' \cup unhandled
  BY <1>0
<1>3. Range(seen') \subseteq Range(seen) \cup {h}
  BY <1>0
<1>4. \A i : Accounted(i) => Accounted(i)'
  BY DEF Accounted
<1>5. \A i : IsTrade(i)' <=> IsTrade(i)
  BY DEF IsTrade
<1>6. IsTrade(h) => Accounted(h)'
  BY <1>2 DEF Accounted
<1>7. Passed'
  <2>1. SUFFICES ASSUME NEW i \in 1 .. Len(chain), chain[i].ledger <= cursorRow, IsTrade(i)
                 PROVE  Accounted(i)' \/ i \in Range(poll'.rest)
    BY <1>5 DEF Passed
  <2>2. Accounted(i) \/ i \in Range(poll.rest)
    BY <2>1 DEF Passed
  <2>3. QED
    BY <1>1, <1>4, <1>6, <2>1, <2>2
<1>8. \A i \in 1 .. Len(chain) : chain[i].ledger <= poll.latest /\ IsTrade(i)
         => Accounted(i)' \/ i \in Range(poll'.rest)
  <2>1. SUFFICES ASSUME NEW i \in 1 .. Len(chain), chain[i].ledger <= poll.latest, IsTrade(i)
                 PROVE  Accounted(i)' \/ i \in Range(poll'.rest)
    OBVIOUS
  <2>2. Accounted(i) \/ i \in Range(poll.rest)
    BY <2>1 DEF CursorInv
  <2>3. QED
    BY <1>1, <1>4, <1>6, <2>1, <2>2
<1>9. \A i \in Range(seen') : IsTrade(i)' => Accounted(i)'
  <2>1. \A i \in Range(seen) : IsTrade(i) => Accounted(i)
    BY DEF CursorInv
  <2>2. QED
    BY <1>3, <1>4, <1>5, <1>6, <2>1
<1>10. \A i \in Range(poll'.rest) : chain[i].ledger <= poll.latest
  BY <1>1 DEF CursorInv
<1>11. CursorInv'
  <2>1. poll'.at # "handling" /\ poll'.at # "none" /\ poll'.at \in {"none", "next", "handling"}
    OBVIOUS
  <2>2. QED
    BY <1>5, <1>8, <1>9, <1>10, <2>1, Zenon DEF CursorInv
<1>12. QED
  BY <1>7, <1>11

(* The poller's other steps.                                               *)
LEMMA SkipUnseen ==
  ASSUME ChainInv, PageInv, CursorInv, Passed, SkipDuplicate
  PROVE  CursorInv' /\ Passed'
<1>1. PICK h : h = Head(poll.rest)
  OBVIOUS
<1>2. /\ poll.at = "next" /\ poll.rest # <<>> /\ poll' = [poll EXCEPT !.rest = Tail(@)]
      /\ seen' = IF Cached(h) THEN Used(h) ELSE Remember(h)
      /\ lost' = lost \cup ({h} \ (Range(seen) \cup txRow))
      /\ UNCHANGED <<chain, cursorRow, txRow, unhandled>>
  BY <1>1 DEF SkipDuplicate
<1>3. h \in 1 .. Len(chain) /\ seen \in Seq(1 .. Len(chain))
  BY <1>1, <1>2, HeadOfPage DEF CursorInv
<1>4. seen' \in Seq(1 .. Len(chain)) /\ Range(seen') \subseteq Range(seen) \cup {h}
  <2>1. CASE Cached(h)
    <3>1. Used(h) \in Seq(1 .. Len(chain)) /\ Range(Used(h)) \subseteq Range(seen)
      BY <1>3, <2>1, UsedFacts
    <3>2. QED
      BY <1>2, <2>1, <3>1
  <2>2. CASE ~Cached(h)
    BY <1>2, <1>3, <2>2, RememberFacts
  <2>3. QED
    BY <2>1, <2>2
<1>5. IsTrade(h) => h \in txRow \cup lost' \cup unhandled
  <2>1. h \in Range(seen) \/ h \in txRow \/ h \in lost'
    BY <1>2
  <2>2. lost \subseteq lost'
    BY <1>2
  <2>3. QED
    BY <2>1, <2>2 DEF CursorInv, Accounted
<1>6. DOMAIN poll' = {"at", "rest", "latest"} /\ poll'.rest = Tail(poll.rest)
      /\ poll'.at = "next" /\ poll'.latest = poll.latest
  BY <1>2 DEF PageInv
<1>7. UNCHANGED <<chain, cursorRow, txRow, unhandled>> /\ lost \subseteq lost' /\ poll.at # "none"
      /\ (IsTrade(Head(poll.rest)) => Head(poll.rest) \in txRow \cup lost' \cup unhandled)
      /\ Range(seen') \subseteq Range(seen) \cup {Head(poll.rest)}
  BY <1>1, <1>2, <1>4, <1>5
<1>8. QED
  BY <1>2, <1>4, <1>6, <1>7, PageShortens

LEMMA RefuseUnseen ==
  ASSUME ChainInv, PageInv, CursorInv, Passed, RefuseQueued
  PROVE  CursorInv' /\ Passed'
<1>1. /\ poll.at = "next" /\ poll.rest # <<>> /\ poll' = [poll EXCEPT !.rest = Tail(@)]
      /\ lost' = lost \cup {Head(poll.rest)} /\ UNCHANGED <<chain, cursorRow, txRow, unhandled>>
      /\ seen' = seen
  BY DEF RefuseQueued
<1>2. DOMAIN poll' = {"at", "rest", "latest"} /\ poll'.rest = Tail(poll.rest)
      /\ poll'.at = "next" /\ poll'.latest = poll.latest
  BY <1>1 DEF PageInv
<1>3. /\ lost \subseteq lost' /\ poll.at # "none"
      /\ (IsTrade(Head(poll.rest)) => Head(poll.rest) \in txRow \cup lost' \cup unhandled)
      /\ Range(seen') \subseteq Range(seen) \cup {Head(poll.rest)} /\ seen' \in Seq(1 .. Len(chain))
  BY <1>1 DEF CursorInv
<1>4. QED
  BY <1>1, <1>2, <1>3, PageShortens

LEMMA MarkUnseen ==
  ASSUME ChainInv, PageInv, CursorInv, Passed, MarkProcessed
  PROVE  CursorInv' /\ Passed'
<1>1. /\ poll.at = "handling" /\ handler.at = "done" /\ poll.rest # <<>>
      /\ poll' = [poll EXCEPT !.at = "next", !.rest = Tail(@)] /\ seen' = Remember(handler.id)
      /\ UNCHANGED <<chain, cursorRow, txRow, unhandled>> /\ lost' = lost
  BY DEF MarkProcessed, PageInv
<1>2. handler.id = Head(poll.rest) /\ (IsTrade(handler.id) => handler.id \in txRow \cup lost \cup unhandled)
  BY <1>1 DEF CursorInv, Accounted
<1>3. Head(poll.rest) \in 1 .. Len(chain) /\ seen \in Seq(1 .. Len(chain))
  BY <1>1, HeadOfPage DEF CursorInv
<1>4. PICK h : h = handler.id
  OBVIOUS
<1>5. seen' \in Seq(1 .. Len(chain)) /\ Range(seen') \subseteq Range(seen) \cup {h}
  BY <1>1, <1>2, <1>3, <1>4, RememberFacts
<1>6. DOMAIN poll' = {"at", "rest", "latest"} /\ poll'.rest = Tail(poll.rest)
      /\ poll'.at = "next" /\ poll'.latest = poll.latest
  BY <1>1 DEF PageInv
<1>7. /\ lost \subseteq lost' /\ poll.at # "none"
      /\ (IsTrade(Head(poll.rest)) => Head(poll.rest) \in txRow \cup lost' \cup unhandled)
      /\ Range(seen') \subseteq Range(seen) \cup {Head(poll.rest)}
  BY <1>1, <1>2, <1>4, <1>5
<1>8. QED
  BY <1>1, <1>5, <1>6, <1>7, PageShortens

LEMMA PollEndsUnseen ==
  ASSUME ChainInv, PageInv, CursorInv, Passed, PollEnds
  PROVE  CursorInv' /\ Passed'
<1>1. /\ poll.at = "next" /\ poll.rest = <<>> /\ poll' = NoPoll
      /\ cursorRow' = poll.latest \/ cursorRow' = cursorRow
      /\ UNCHANGED <<chain, txRow, handler, lost, seen, unhandled>>
  BY DEF PollEnds, SaveCursor, SaveCursorFails, tokenVars
<1>2. Range(poll.rest) = {} /\ poll'.at = "none" /\ Range(poll'.rest) = {}
  BY <1>1 DEF Range, NoPoll
<1>3. \A i \in 1 .. Len(chain) :
         (chain[i].ledger <= poll.latest \/ chain[i].ledger <= cursorRow) /\ IsTrade(i) => Accounted(i)
  BY <1>1, <1>2 DEF CursorInv, Passed
<1>4. \A i : (Accounted(i)' <=> Accounted(i)) /\ (IsTrade(i)' <=> IsTrade(i))
  BY <1>1 DEF Accounted, IsTrade
<1>5. Passed'
  BY <1>1, <1>3, <1>4 DEF Passed
<1>6. seen' \in Seq(1 .. Len(chain')) /\ \A i \in Range(seen') : IsTrade(i)' => Accounted(i)'
  BY <1>1, <1>4 DEF CursorInv
<1>7. CursorInv'
  BY <1>1, <1>2, <1>6 DEF CursorInv
<1>8. QED
  BY <1>5, <1>7

LEMMA TakeUnseen ==
  ASSUME ChainInv, PageInv, CursorInv, Passed, TakeEvent
  PROVE  CursorInv' /\ Passed'
<1>1. PICK h : h = Head(poll.rest)
  OBVIOUS
<1>2. /\ poll.at = "next" /\ poll.rest # <<>> /\ poll' = [poll EXCEPT !.at = "handling"]
      /\ cursorRow' = chain[h].ledger \/ cursorRow' = cursorRow
      /\ handler' = [at |-> IF IsRouted(h) THEN "check" ELSE "done", id |-> h, row |-> NoRow]
      /\ UNCHANGED <<chain, txRow, lost, seen>>
      /\ unhandled' = unhandled \cup {i \in {h} : ~IsRouted(i)}
  BY <1>1 DEF TakeEvent, SaveCursor, SaveCursorFails, StartHandler
<1>3. h \in 1 .. Len(chain) /\ h \in Range(poll.rest)
  BY <1>1, <1>2, HeadOfPage, RangeOfTail DEF PageInv
<1>4. chain[h].ledger \in Nat /\ chain[h].ledger <= poll.latest /\ poll.latest \in Nat
  BY <1>3, ChainFacts DEF CursorInv, PageInv
<1>5. poll'.at = "handling" /\ poll'.rest = poll.rest /\ poll'.latest = poll.latest
  BY <1>2 DEF PageInv
<1>6. \A i : (Accounted(i) => Accounted(i)') /\ (IsTrade(i)' <=> IsTrade(i))
  BY <1>2 DEF Accounted, IsTrade
<1>7. \A i \in 1 .. Len(chain) : chain[i].ledger <= poll.latest /\ IsTrade(i)
         => Accounted(i) \/ i \in Range(poll.rest)
  BY <1>2 DEF CursorInv
<1>8. \A i \in 1 .. Len(chain) : chain[i].ledger <= chain[h].ledger => chain[i].ledger <= poll.latest
  <2>1. TAKE i \in 1 .. Len(chain)
  <2>2. chain[i].ledger \in Nat
    BY ChainFacts
  <2>3. QED
    BY <1>4, <2>2
<1>9. Passed'
  BY <1>2, <1>5, <1>6, <1>7, <1>8 DEF Passed
<1>10. handler'.at = "done" => h \in unhandled'
  BY <1>2
<1>11. handler'.id = h /\ handler'.at # "none" /\ handler'.id = Head(poll'.rest)
  BY <1>1, <1>2, <1>5
<1>12. CursorInv'
  <2>1. seen' \in Seq(1 .. Len(chain')) /\ \A i \in Range(seen') : IsTrade(i)' => Accounted(i)'
    BY <1>2, <1>6 DEF CursorInv
  <2>2. \A i \in Range(poll'.rest) : chain'[i].ledger <= poll'.latest
    BY <1>2, <1>5 DEF CursorInv
  <2>3. \A i \in 1 .. Len(chain') : chain'[i].ledger <= poll'.latest /\ IsTrade(i)'
           => Accounted(i)' \/ i \in Range(poll'.rest)
    BY <1>2, <1>5, <1>6, <1>7
  <2>4. handler'.at = "done" => handler'.id \in txRow' \cup lost' \cup unhandled'
    BY <1>10, <1>11
  <2>5. QED
    BY <1>5, <1>11, <2>1, <2>2, <2>3, <2>4 DEF CursorInv, IsTrade, Accounted
<1>13. QED
  BY <1>9, <1>12

LEMMA HandleUnseen ==
  ASSUME ChainInv, CursorInv, Passed, HandlerInv, Handle
  PROVE  CursorInv' /\ Passed'
<1>1. poll.at = "handling" /\ UNCHANGED <<cursorRow, seen, poll, unhandled>>
  BY DEF Handle
<1>2. \/ AlreadyDone \/ HandleTokenCreated \/ HandleTokenBuy \/ HandleTokenSell
      \/ HandleTokenGraduated \/ Commit \/ NoTokenInfo \/ HandlerError
  BY DEF Handle, HandlerStep
<1>3. UNCHANGED chain /\ txRow \subseteq txRow' /\ lost \subseteq lost'
  BY <1>2 DEF AlreadyDone, HandleTokenCreated, HandleTokenBuy, HandleTokenSell, NoTokenInfo,
     StartsWith, HandleTokenGraduated, Commit, HandlerError
<1>4. PICK h : h = handler.id
  OBVIOUS
<1>5. handler'.id = h /\ handler'.at \in {"commit", "done"}
      /\ (handler'.at = "done" /\ IsTrade(h) => h \in txRow' \cup lost')
  <2>1. DOMAIN handler = {"at", "id", "row"}
    BY DEF HandlerInv
  <2>2. CASE AlreadyDone
    <3>1. handler' = [handler EXCEPT !.at = "done"] /\ UNCHANGED txRow
          /\ (chain[h].kind = "launched" \/ h \in txRow)
      BY <1>4, <2>2 DEF AlreadyDone
    <3>2. handler'.id = h /\ handler'.at = "done"
      BY <1>4, <2>1, <3>1
    <3>3. QED
      BY <3>1, <3>2 DEF IsTrade, Trades
  <2>3. CASE HandleTokenCreated \/ HandleTokenBuy \/ HandleTokenSell \/ NoTokenInfo
    <3>1. PICK r : handler' = [handler EXCEPT !.at = "commit", !.row = r]
      BY <2>3 DEF HandleTokenCreated, HandleTokenBuy, HandleTokenSell, NoTokenInfo, StartsWith
    <3>2. handler'.id = h /\ handler'.at = "commit"
      BY <1>4, <2>1, <3>1
    <3>3. QED
      BY <3>2
  <2>4. CASE HandleTokenGraduated
    <3>1. handler' = [handler EXCEPT !.at = "done"] /\ chain[h].kind = "graduated"
      BY <1>4, <2>4 DEF HandleTokenGraduated
    <3>2. handler'.id = h /\ handler'.at = "done"
      BY <1>4, <2>1, <3>1
    <3>3. QED
      BY <3>1, <3>2 DEF IsTrade, Trades
  <2>5. CASE HandlerError
    <3>1. handler' = [handler EXCEPT !.at = "done"] /\ h \in lost'
      BY <1>4, <2>5 DEF HandlerError
    <3>2. handler'.id = h /\ handler'.at = "done"
      BY <1>4, <2>1, <3>1
    <3>3. QED
      BY <3>1, <3>2
  <2>6. CASE Commit
    <3>1. handler' = [handler EXCEPT !.at = "done"] /\ (h \in txRow' \/ chain[h].kind = "launched")
      BY <1>4, <2>6 DEF Commit
    <3>2. handler'.id = h /\ handler'.at = "done"
      BY <1>4, <2>1, <3>1
    <3>3. QED
      BY <3>1, <3>2 DEF IsTrade, Trades
  <2>7. QED
    BY <1>2, <2>2, <2>3, <2>4, <2>5, <2>6
<1>6. \A i : Accounted(i) => Accounted(i)'
  BY <1>1, <1>3 DEF Accounted
<1>7. \A i : IsTrade(i)' <=> IsTrade(i)
  BY <1>3 DEF IsTrade
<1>8. Passed'
  BY <1>1, <1>3, <1>6, <1>7 DEF Passed
<1>9. CursorInv'
  <2>1. seen' \in Seq(1 .. Len(chain')) /\ \A i \in Range(seen') : IsTrade(i)' => Accounted(i)'
    BY <1>1, <1>3, <1>6, <1>7 DEF CursorInv
  <2>2. \A i \in Range(poll'.rest) : chain'[i].ledger <= poll'.latest
    BY <1>1, <1>3 DEF CursorInv
  <2>3. \A i \in 1 .. Len(chain') : chain'[i].ledger <= poll'.latest /\ IsTrade(i)'
           => Accounted(i)' \/ i \in Range(poll'.rest)
    BY <1>1, <1>3, <1>6, <1>7 DEF CursorInv
  <2>4. handler'.at = "done" /\ chain'[handler'.id].kind \in Trades
           => handler'.id \in txRow' \cup lost'
    BY <1>3, <1>5 DEF IsTrade
  <2>5. handler'.at # "none" /\ handler'.id = Head(poll'.rest)
    BY <1>1, <1>4, <1>5 DEF CursorInv
  <2>6. QED
    BY <1>1, <2>1, <2>2, <2>3, <2>4, <2>5 DEF CursorInv, IsTrade, Accounted
<1>10. QED
  BY <1>8, <1>9

LEMMA DiesUnseen ==
  ASSUME ChainInv, CursorInv, Passed, ProcessDies
  PROVE  CursorInv' /\ Passed'
<1>1. /\ UNCHANGED <<chain, txRow, cursorRow, unhandled>> /\ poll' = NoPoll /\ seen' = <<>>
      /\ lost' = lost \cup {i \in Range(poll.rest) : chain[i].ledger <= cursorRow}
  BY DEF ProcessDies, Crash
<1>2. poll'.at = "none" /\ Range(poll'.rest) = {} /\ Range(seen') = {} /\ seen' \in Seq(1 .. Len(chain'))
  BY <1>1 DEF NoPoll, Range
<1>3. Passed'
  BY <1>1 DEF Passed, Accounted, IsTrade
<1>4. CursorInv'
  BY <1>1, <1>2 DEF CursorInv
<1>5. QED
  BY <1>3, <1>4

CursorSafe == RecordsInv /\ ScriptInv /\ CursorInv /\ Passed

LEMMA CursorKept ==
  ASSUME CursorSafe, [DatabaseNext]_databaseVars
  PROVE  CursorSafe'
<1>1. /\ ChainInv /\ PageInv /\ CursorKnown /\ HandlerInv /\ CursorInv /\ Passed
      /\ RecordsInv /\ RecordsInv' /\ ScriptInv'
  BY RecordsKept DEF CursorSafe, RecordsInv
<1>2. SUFFICES CursorInv' /\ Passed'
  BY <1>1 DEF CursorSafe
<1>3. ASSUME UNCHANGED <<chain, cursorRow, seen, poll, handler>>,
             txRow \subseteq txRow', lost \subseteq lost', unhandled \subseteq unhandled'
      PROVE  CursorInv' /\ Passed'
  BY <1>1, <1>3, CursorUnmoved
<1>4. CASE UNCHANGED databaseVars
  BY <1>3, <1>4 DEF databaseVars, tokenVars, indexerVars
<1>5. ASSUME NEW t \in Tokens, NEW a \in Amounts, LedgerCloses(t, a), UNCHANGED <<indexerVars, syncVars>>
      PROVE  CursorInv' /\ Passed'
  <2>1. UNCHANGED <<cursorRow, seen, poll, handler, txRow, lost, unhandled>>
    BY <1>5 DEF LedgerCloses, indexerVars
  <2>2. handler.at # "none" => handler.id \in 1 .. Len(chain)
    BY <1>1 DEF HandlerInv
  <2>3. QED
    BY <1>1, <1>5, <2>1, <2>2, LedgerClosesGrows, ChainUnseen
<1>6. CASE PollStarts
  BY <1>1, <1>6, PollStartsUnseen
<1>7. CASE SkipDuplicate
  BY <1>1, <1>7, SkipUnseen
<1>8. CASE RefuseQueued
  BY <1>1, <1>8, RefuseUnseen
<1>9. CASE PollEnds
  BY <1>1, <1>9, PollEndsUnseen
<1>10. CASE TakeEvent
  BY <1>1, <1>10, TakeUnseen
<1>11. CASE Handle
  BY <1>1, <1>11, HandleUnseen
<1>12. CASE MarkProcessed
  BY <1>1, <1>12, MarkUnseen
<1>13. CASE ProcessDies
  BY <1>1, <1>13, DiesUnseen
<1>14. CASE Restart \/ Bootstrap \/ BootstrapEnds \/ SyncTokenRollsBack \/ RunScript
  BY <1>3, <1>14 DEF Restart, Bootstrap, BootstrapEnds, SyncTokenRollsBack, RunScript, tokenVars,
     indexerVars
<1>15. ASSUME NEW t \in Tokens, BootstrapToken(t)
       PROVE  CursorInv' /\ Passed'
  BY <1>3, <1>15 DEF BootstrapToken
<1>16. ASSUME NEW s \in Syncers, RunSync(s) \/ RunSyncEnds(s)
       PROVE  CursorInv' /\ Passed'
  BY <1>3, <1>16 DEF RunSync, RunSyncEnds, tokenVars, indexerVars
<1>17. ASSUME NEW s \in Syncers, NEW t \in Tokens,
              SyncSingleToken(s, t) \/ FetchToken(s, t) \/ UpdateToken(s, t) \/ SyncTokenFails(s, t)
       PROVE  CursorInv' /\ Passed'
  BY <1>3, <1>17 DEF SyncSingleToken, FetchToken, UpdateToken, SyncTokenFails, tokenVars, indexerVars
<1>18. ASSUME NEW t \in Tokens,
              \/ RequestSync(t) \/ GetTokenInfo(t) \/ GetTokenInfoFails(t) \/ SyncTokenToDatabase(t)
              \/ ProcessToken(t) \/ UpsertToken(t)
       PROVE  CursorInv' /\ Passed'
  BY <1>3, <1>18 DEF RequestSync, GetTokenInfo, GetTokenInfoFails, SyncTokenToDatabase,
     ProcessToken, UpsertToken, tokenVars, indexerVars
<1>19. QED
  BY <1>4, <1>5, <1>6, <1>7, <1>8, <1>9, <1>10, <1>11, <1>12, <1>13, <1>14, <1>15, <1>16, <1>17, <1>18
     DEF DatabaseNext

LEMMA CursorStarts ==
  ASSUME DatabaseInit
  PROVE  CursorSafe
<1>1. chain = <<>> /\ seen = <<>> /\ poll = NoPoll /\ RecordsInv /\ ScriptInv
  BY RecordsStart DEF DatabaseInit, TokenInit, IndexerInit
<1>2. Len(chain) = 0 /\ Range(seen) = {} /\ poll.at = "none" /\ Range(poll.rest) = {}
      /\ seen \in Seq(1 .. Len(chain))
  BY <1>1 DEF Range, NoPoll
<1>3. CursorInv
  BY <1>1, <1>2 DEF CursorInv
<1>4. Passed
  BY <1>2 DEF Passed
<1>5. QED
  BY <1>1, <1>3, <1>4 DEF CursorSafe

(* The cursor passes no trade that is neither recorded, nor in the page at *)
(* work, nor lost in a way the code gives up on, nor of a topic without a  *)
(* case: for every order of polls, duplicates, failing reads and writes of *)
(* the cursor, and crashes.                                                *)
THEOREM NothingUnseenIsPassed == DatabaseSpec => []CursorPassesNothingUnseen
<1>1. DatabaseInit => CursorSafe
  BY CursorStarts
<1>2. CursorSafe /\ [DatabaseNext]_databaseVars => CursorSafe'
  BY CursorKept
<1>3. CursorSafe => CursorPassesNothingUnseen
  BY PassedIsSeen DEF CursorSafe, RecordsInv
<1>4. QED
  BY <1>1, <1>2, <1>3, PTL DEF DatabaseSpec
=============================================================================
