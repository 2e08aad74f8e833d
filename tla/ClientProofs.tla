---------------------------- MODULE ClientProofs ----------------------------
(***************************************************************************)
(* Proofs about the web application.                                       *)
(*                                                                         *)
(* Signed requests: a running gateway authenticates a request at most      *)
(* once, for any set of requests, any clock skew and any number of         *)
(* restarts.  The only thing needed of the two periods is that a nonce is  *)
(* kept at least as long as a signature is accepted.  The invariant is     *)
(* AcceptedIsRecorded: an accepted request either has its nonce on record, *)
(* recorded no earlier than the request was signed, or has expired.        *)
(*                                                                         *)
(* Trades: what a widget reports as failed was not executed and cannot be  *)
(* any more (TradesInv), and what it signed while the market stood still   *)
(* is not refused for its minimum output (QuotesInv).                      *)
(*                                                                         *)
(* Launches: the token shown is the one launched (CreateInv).              *)
(***************************************************************************)
EXTENDS SignedRequests, TradeClient, TokenCreation, ArithmeticTheorems, TLAPS

SignedInv == SignedTypeOK /\ SignatureUsedOnce /\ AcceptedIsRecorded

(* No request is on record, and none accepted, when the gateway starts.    *)
LEMMA SignedInitInv ==
  ASSUME SignedInit
  PROVE  SignedInv
BY SignedRequestsAssumption
   DEF SignedInit, SignedInv, SignedTypeOK, SignatureUsedOnce, AcceptedIsRecorded,
       Unsigned, Unused

(* The clock, the timer, the headers, the records and the counts stay      *)
(* well-typed.                                                             *)
LEMMA SignedStepType ==
  ASSUME SignedTypeOK, [SignedNext]_signedVars
  PROVE  SignedTypeOK'
<1> USE SignedRequestsAssumption DEF SignedTypeOK
<1>1. ASSUME NEW r \in Requests, SignAuthMessage(r)
      PROVE  SignedTypeOK'
  BY <1>1 DEF SignAuthMessage
<1>2. ASSUME NEW r \in Requests, ExtractUser(r)
      PROVE  SignedTypeOK'
  BY <1>2 DEF ExtractUser
<1>3. CASE CleanUpNonces
  BY <1>3 DEF CleanUpNonces, Unused
<1>4. CASE GatewayRestarts
  BY <1>4 DEF GatewayRestarts
<1>5. CASE TimePasses
  BY <1>5 DEF TimePasses
<1>6. CASE UNCHANGED signedVars
  BY <1>6 DEF signedVars
<1>7. QED
  BY <1>1, <1>2, <1>3, <1>4, <1>5, <1>6 DEF SignedNext

(* A fresh request without a nonce on record has not been accepted before. *)
LEMMA FreshIsNew ==
  ASSUME SignedInv, NEW r \in Requests, Fresh(r), usedNonces[r] = Unused
  PROVE  accepted[r] = 0
BY SignedRequestsAssumption
   DEF SignedInv, SignedTypeOK, AcceptedIsRecorded, Fresh, Unused, Unsigned

(* Every step keeps the record of what was accepted: signing touches only  *)
(* requests never seen, accepting records the nonce, and a nonce that is   *)
(* cleaned up belongs to a request that is past its age.                   *)
LEMMA SignedStepInv ==
  ASSUME SignedInv, [SignedNext]_signedVars
  PROVE  SignedInv'
<1> USE SignedRequestsAssumption DEF SignedInv, SignatureUsedOnce, AcceptedIsRecorded,
                                     Unsigned, Unused
<1> SUFFICES SignatureUsedOnce' /\ AcceptedIsRecorded'
  BY SignedStepType
<1>1. ASSUME NEW r \in Requests, SignAuthMessage(r)
      PROVE  SignatureUsedOnce' /\ AcceptedIsRecorded'
  <2>1. usedNonces[r] = Unused /\ accepted[r] = 0
    BY <1>1 DEF SignAuthMessage, SignedTypeOK
  <2>2. QED
    BY <1>1, <2>1 DEF SignAuthMessage, SignedTypeOK
<1>2. ASSUME NEW r \in Requests, ExtractUser(r)
      PROVE  SignatureUsedOnce' /\ AcceptedIsRecorded'
  <2>1. accepted[r] = 0 /\ signedAt[r] <= now
    BY <1>2, FreshIsNew DEF ExtractUser, Fresh
  <2>2. accepted'[r] \in {0, 1}
    BY <1>2, <2>1 DEF ExtractUser, SignedTypeOK
  <2>3. \A q \in Requests \ {r} : accepted'[q] = accepted[q] /\ usedNonces'[q] = usedNonces[q]
    BY <1>2 DEF ExtractUser, SignedTypeOK
  <2>4. usedNonces'[r] = now /\ UNCHANGED <<now, signedAt>>
    BY <1>2 DEF ExtractUser, SignedTypeOK
  <2>5. signedAt[r] # Unsigned
    BY <1>2 DEF ExtractUser
  <2>6. SignatureUsedOnce'
    BY <2>2, <2>3
  <2>7. AcceptedIsRecorded'
    BY <2>1, <2>3, <2>4, <2>5 DEF SignedTypeOK
  <2>8. QED
    BY <2>6, <2>7
<1>3. CASE CleanUpNonces
  <2>1. \A q \in Requests : \/ usedNonces'[q] = usedNonces[q]
                            \/ /\ usedNonces'[q] = Unused
                               /\ usedNonces[q] # Unused
                               /\ now - usedNonces[q] > NonceTtl
    BY <1>3 DEF CleanUpNonces
  <2>2. UNCHANGED <<now, signedAt, accepted>>
    BY <1>3 DEF CleanUpNonces
  <2>3. \A q \in Requests : usedNonces'[q] # usedNonces[q] =>
            signedAt[q] # Unsigned /\ now - signedAt[q] > MaxAge
    BY <2>1 DEF SignedTypeOK
  <2>4. QED
    BY <2>1, <2>2, <2>3
<1>4. CASE GatewayRestarts
  BY <1>4 DEF GatewayRestarts
<1>5. CASE TimePasses
  BY <1>5 DEF TimePasses, SignedTypeOK
<1>6. CASE UNCHANGED signedVars
  BY <1>6 DEF signedVars
<1>7. QED
  BY <1>1, <1>2, <1>3, <1>4, <1>5, <1>6 DEF SignedNext

(* Type correctness of the signed requests and the nonce store.            *)
THEOREM SignedTypeCorrect == SignedSpec => []SignedTypeOK
<1>1. SignedInit => SignedTypeOK
  BY SignedInitInv DEF SignedInv
<1>2. SignedTypeOK /\ [SignedNext]_signedVars => SignedTypeOK'
  BY SignedStepType
<1>3. QED
  BY <1>1, <1>2, PTL DEF SignedSpec

(* One gateway process never authenticates the same signed request twice,  *)
(* however often and however late it arrives.                              *)
THEOREM SignaturesUsedOnce == SignedSpec => []SignatureUsedOnce
<1>1. SignedInit => SignedInv
  BY SignedInitInv
<1>2. SignedInv /\ [SignedNext]_signedVars => SignedInv'
  BY SignedStepInv
<1>3. SignedInv => SignatureUsedOnce
  BY DEF SignedInv
<1>4. QED
  BY <1>1, <1>2, <1>3, PTL DEF SignedSpec

(***************************************************************************)
(* What a widget knows of its trade.  Until the transaction is submitted   *)
(* the network knows nothing of it; poll k comes at least k seconds after  *)
(* the wallet's answer, so the last poll of a widget comes after the       *)
(* deadline, and what it saw not executed cannot be executed any more.     *)
(***************************************************************************)
Truthful(w, t, s, c) ==
    /\ DOMAIN t = DOMAIN NoTrade
    /\ t.at \in TradePhases /\ t.built \in Nat /\ t.polls \in 0 .. PollAttempts
    /\ t.polledAt \in Int /\ t.blind \in BOOLEAN
    /\ w # "interface" =>
        /\ t.at \in {"preparing", "building", "signing", "submitting"} => s = "none" /\ t.polls = 0
        /\ t.at = "signing" => t.built <= c
        /\ t.at = "submitting" => t.built + 2 <= c
        /\ t.at = "confirming" =>
            /\ t.built + 2 <= c
            /\ t.polls > 0 => t.built + t.polls + 1 <= t.polledAt /\ t.polledAt <= c
            /\ t.polls = PollAttempts /\ ~t.blind => s # "executed"
        /\ t.at = "error" /\ ~t.blind =>
            s = "none" \/ (s # "executed" /\ t.built + TxTimeout < c)

TradesInv ==
    /\ clock \in Nat
    /\ trade = [w \in Widgets |-> trade[w]] /\ sent = [w \in Widgets |-> sent[w]]
    /\ \A w \in Widgets : Truthful(w, trade[w], sent[w], clock)

(* Only the trade of one widget moves.                                     *)
LEMMA OneTradeMoves ==
  ASSUME TradesInv, NEW w \in Widgets, NEW t, NEW s, clock' = clock,
         trade' = [trade EXCEPT ![w] = t], sent' = [sent EXCEPT ![w] = s],
         Truthful(w, t, s, clock)
  PROVE  TradesInv'
<1>1. /\ trade' = [v \in Widgets |-> IF v = w THEN t ELSE trade[v]]
      /\ sent' = [v \in Widgets |-> IF v = w THEN s ELSE sent[v]]
  BY DEF TradesInv
<1>2. \A v \in Widgets : Truthful(v, trade'[v], sent'[v], clock)
  BY <1>1 DEF TradesInv
<1>3. trade' = [v \in Widgets |-> trade'[v]] /\ sent' = [v \in Widgets |-> sent'[v]]
  BY <1>1
<1>4. QED
  BY <1>2, <1>3 DEF TradesInv

(* The same when the network is not touched.                               *)
LEMMA OneTradeGoes ==
  ASSUME TradesInv, NEW w \in Widgets, NEW t, clock' = clock, Goes(w, t), sent' = sent,
         Truthful(w, t, sent[w], clock)
  PROVE  TradesInv'
<1>1. sent' = [sent EXCEPT ![w] = sent[w]]
  BY DEF TradesInv
<1>2. trade' = [trade EXCEPT ![w] = t]
  BY DEF Goes
<1>3. QED
  BY <1>1, <1>2, OneTradeMoves

(* The fields of a trade that only changes its phase.                      *)
LEMMA PhaseFields ==
  ASSUME NEW w \in Widgets, NEW phase, DOMAIN trade[w] = DOMAIN NoTrade
  PROVE  /\ DOMAIN At(w, phase) = DOMAIN NoTrade /\ At(w, phase).at = phase
         /\ At(w, phase).built = trade[w].built /\ At(w, phase).polls = trade[w].polls
         /\ At(w, phase).polledAt = trade[w].polledAt /\ At(w, phase).blind = trade[w].blind
BY DEF At, NoTrade

(* A widget with nothing at work.                                          *)
LEMMA NoTradeIsTruthful ==
  ASSUME NEW w, NEW s, NEW c
  PROVE  Truthful(w, NoTrade, s, c)
<1>1. NoTrade.at = "idle" /\ NoTrade.built = 0 /\ NoTrade.polls = 0 /\ NoTrade.polledAt = -1
  BY DEF NoTrade
<1>2. NoTrade.blind \in BOOLEAN
  BY ZenonT(30) DEF NoTrade
<1>3. QED
  BY <1>1, <1>2, TradeAssumption DEF Truthful, TradePhases

LEMMA TradeStart ==
  ASSUME TradeInit
  PROVE  TradesInv
BY NoTradeIsTruthful DEF TradeInit, TradesInv

LEMMA BeginKeeps ==
  ASSUME TradesInv, NEW w, NEW minimum, NEW fresh, Begin(w, minimum, fresh)
  PROVE  TradesInv'
<1>1. PICK t : t = [NoTrade EXCEPT !.at = "preparing", !.type = form.type,
                        !.amount = form.amount, !.min = minimum, !.view = view, !.fresh = fresh]
  OBVIOUS
<1>2. /\ trade' = [trade EXCEPT ![w] = t] /\ sent' = [sent EXCEPT ![w] = "none"]
      /\ clock' = clock /\ w \in Widgets
  BY <1>1 DEF Begin
<1>3. /\ DOMAIN t = DOMAIN NoTrade /\ t.at = "preparing" /\ t.built = 0 /\ t.polls = 0
      /\ t.polledAt = -1 /\ t.blind = NoTrade.blind
  BY <1>1 DEF NoTrade
<1>4. Truthful(w, t, "none", clock)
  BY <1>3, NoTradeIsTruthful, TradeAssumption DEF Truthful, TradePhases
<1>5. QED
  BY <1>2, <1>4, OneTradeMoves

LEMMA TrustlineKeeps ==
  ASSUME TradesInv, NEW w \in Widgets, EnsureTrustline(w)
  PROVE  TradesInv'
<1>1. Truthful(w, trade[w], sent[w], clock) /\ trade[w].at = "preparing"
  BY DEF TradesInv, EnsureTrustline
<1>2. ASSUME NEW phase \in {"building", "error"}
      PROVE  Truthful(w, At(w, phase), sent[w], clock)
  BY <1>1, PhaseFields DEF Truthful, TradePhases
<1>3. \E phase \in {"building", "error"} : Goes(w, At(w, phase))
  BY DEF EnsureTrustline
<1>4. clock' = clock /\ sent' = sent
  BY DEF EnsureTrustline
<1>5. QED
  BY <1>2, <1>3, <1>4, OneTradeGoes

LEMMA SimulateKeeps ==
  ASSUME TradesInv, NEW w \in Widgets, Simulate(w)
  PROVE  TradesInv'
<1>1. /\ Truthful(w, trade[w], sent[w], clock) /\ trade[w].at = "building"
      /\ clock' = clock /\ sent' = sent /\ clock \in Nat
  BY DEF TradesInv, Simulate
<1>2. PICK t : t = [trade[w] EXCEPT !.built = clock, !.seq = sequence + 1, !.at = "signing",
                     !.min = IF w = "interface" THEN ServiceMinimum(trade[w]) ELSE @]
  OBVIOUS
<1>3. Goes(w, t) \/ Goes(w, At(w, "error"))
  BY <1>2 DEF Simulate
<1>4. Truthful(w, At(w, "error"), sent[w], clock)
  BY <1>1, PhaseFields DEF Truthful, TradePhases
<1>5. /\ DOMAIN t = DOMAIN NoTrade /\ t.at = "signing" /\ t.built = clock
      /\ t.polls = trade[w].polls /\ t.polledAt = trade[w].polledAt /\ t.blind = trade[w].blind
  BY <1>1, <1>2 DEF Truthful, NoTrade
<1>6. Truthful(w, t, sent[w], clock)
  BY <1>1, <1>5 DEF Truthful, TradePhases
<1>7. QED
  BY <1>1, <1>3, <1>4, <1>6, OneTradeGoes

LEMMA SignKeeps ==
  ASSUME TradesInv, NEW w \in Widgets, Sign(w)
  PROVE  TradesInv'
<1>1. /\ Truthful(w, trade[w], sent[w], clock) /\ trade[w].at = "signing"
      /\ clock' = clock /\ sent' = sent /\ clock \in Nat
      /\ clock >= trade[w].built + SigningTakes
  BY DEF TradesInv, Sign
<1>2. ASSUME NEW phase \in {"submitting", "error"}
      PROVE  Truthful(w, At(w, phase), sent[w], clock)
  BY <1>1, PhaseFields, TradeAssumption DEF Truthful, TradePhases
<1>3. PICK phase \in {"submitting", "error"} : Goes(w, At(w, phase))
  BY DEF Sign
<1>4. QED
  BY <1>1, <1>2, <1>3, OneTradeGoes

LEMMA SubmitKeeps ==
  ASSUME TradesInv, NEW w \in Widgets, Submit(w)
  PROVE  TradesInv'
<1>1. /\ Truthful(w, trade[w], sent[w], clock) /\ trade[w].at = "submitting"
      /\ clock' = clock /\ clock \in Nat
  BY DEF TradesInv, Submit
<1>2. PICK t : t = [At(w, "error") EXCEPT !.blind = TRUE]
  OBVIOUS
<1>3. /\ DOMAIN t = DOMAIN NoTrade /\ t.at = "error" /\ t.blind = TRUE
      /\ t.built = trade[w].built /\ t.polls = trade[w].polls /\ t.polledAt = trade[w].polledAt
  BY <1>1, <1>2, PhaseFields DEF Truthful, NoTrade
<1>4. /\ Truthful(w, t, "pending", clock)
      /\ Truthful(w, At(w, "confirming"), "pending", clock)
      /\ Truthful(w, At(w, "error"), sent[w], clock)
  <2>1. t.blind /\ t.blind \in BOOLEAN
    BY <1>3, Zenon
  <2>2. Truthful(w, t, "pending", clock)
    BY <1>1, <1>3, <2>1 DEF Truthful, TradePhases
  <2>3. Truthful(w, At(w, "confirming"), "pending", clock)
    BY <1>1, PhaseFields, TradeAssumption DEF Truthful, TradePhases
  <2>4. Truthful(w, At(w, "error"), sent[w], clock)
    BY <1>1, PhaseFields DEF Truthful, TradePhases
  <2>5. QED
    BY <2>2, <2>3, <2>4
<1>5. \/ sent' = [sent EXCEPT ![w] = "pending"] /\ (Goes(w, At(w, "confirming")) \/ Goes(w, t))
      \/ sent' = sent /\ Goes(w, At(w, "error"))
  BY <1>2 DEF Submit
<1>6. QED
  BY <1>1, <1>4, <1>5, OneTradeMoves, OneTradeGoes DEF Goes

(* The poll that ends the attempts comes after the deadline.               *)
LEMMA PollKeeps ==
  ASSUME TradesInv, NEW w \in Widgets, Poll(w)
  PROVE  TradesInv'
<1>1. /\ Truthful(w, trade[w], sent[w], clock) /\ trade[w].at = "confirming"
      /\ trade[w].polls < PollAttempts /\ trade[w].polledAt < clock
      /\ clock' = clock /\ sent' = sent /\ clock \in Nat
  BY DEF TradesInv, Poll
<1> DEFINE again(b) == [trade[w] EXCEPT !.polls = @ + 1, !.polledAt = clock, !.blind = b]
           lost == [At(w, "error") EXCEPT !.blind = TRUE]
<1>2. \/ sent[w] = "executed" /\ Goes(w, At(w, "success"))
      \/ sent[w] # "executed" /\ Goes(w, again(FALSE))
      \/ w = "interface" /\ Goes(w, At(w, "error"))
      \/ Goes(w, again(TRUE))
      \/ w = "interface" /\ Goes(w, lost)
  BY DEF Poll
<1>3. Truthful(w, At(w, "success"), sent[w], clock)
  BY <1>1, PhaseFields DEF Truthful, TradePhases
<1>4. ASSUME NEW b \in BOOLEAN, b \/ sent[w] # "executed"
      PROVE  Truthful(w, again(b), sent[w], clock)
  <2>1. PICK t : t = again(b)
    OBVIOUS
  <2>2. /\ DOMAIN t = DOMAIN NoTrade /\ t.at = "confirming" /\ t.built = trade[w].built
        /\ t.polls = trade[w].polls + 1 /\ t.polledAt = clock /\ t.blind = b
    BY <1>1, <2>1 DEF Truthful, NoTrade
  <2>3. Truthful(w, t, sent[w], clock)
    BY <1>1, <1>4, <2>2, TradeAssumption DEF Truthful, TradePhases
  <2>4. QED
    BY <2>1, <2>3
<1>5. ASSUME w = "interface"
      PROVE  Truthful(w, At(w, "error"), sent[w], clock) /\ Truthful(w, lost, sent[w], clock)
  <2>1. PICK t : t = lost
    OBVIOUS
  <2>2. /\ DOMAIN t = DOMAIN NoTrade /\ t.at = "error" /\ t.blind = TRUE
        /\ t.built = trade[w].built /\ t.polls = trade[w].polls /\ t.polledAt = trade[w].polledAt
    BY <1>1, <2>1, PhaseFields DEF Truthful, NoTrade
  <2>3. Truthful(w, t, sent[w], clock) /\ Truthful(w, At(w, "error"), sent[w], clock)
    BY <1>1, <1>5, <2>2, PhaseFields DEF Truthful, TradePhases
  <2>4. QED
    BY <2>1, <2>3
<1> HIDE DEF again, lost
<1>6. CASE sent[w] # "executed" /\ Goes(w, again(FALSE))
  BY <1>1, <1>4, <1>6, OneTradeGoes
<1>7. CASE Goes(w, again(TRUE))
  BY <1>1, <1>4, <1>7, OneTradeGoes
<1>8. QED
  BY <1>1, <1>2, <1>3, <1>5, <1>6, <1>7, OneTradeGoes

(* The attempts are used up: what the last poll saw is final.              *)
LEMMA GiveUpKeeps ==
  ASSUME TradesInv, NEW w \in Widgets, GiveUp(w)
  PROVE  TradesInv'
<1>1. /\ Truthful(w, trade[w], sent[w], clock) /\ trade[w].at = "confirming"
      /\ trade[w].polls = PollAttempts /\ trade[w].polledAt < clock
      /\ clock' = clock /\ sent' = sent /\ clock \in Nat /\ Goes(w, At(w, "error"))
  BY DEF TradesInv, GiveUp
<1>2. Truthful(w, At(w, "error"), sent[w], clock)
  BY <1>1, PhaseFields, TradeAssumption DEF Truthful, TradePhases
<1>3. QED
  BY <1>1, <1>2, OneTradeGoes

LEMMA SettleKeeps ==
  ASSUME TradesInv, NEW w \in Widgets, Settle(w)
  PROVE  TradesInv'
<1>1. Truthful(w, NoTrade, sent[w], clock)
  BY NoTradeIsTruthful
<1>2. clock' = clock /\ sent' = sent /\ Goes(w, NoTrade)
  BY DEF Settle
<1>3. QED
  BY <1>1, <1>2, OneTradeGoes

(* The network executes nothing after the deadline.                        *)
LEMMA IncludeKeeps ==
  ASSUME TradesInv, NEW w \in Widgets, Include(w)
  PROVE  TradesInv'
<1>1. /\ Truthful(w, trade[w], sent[w], clock) /\ CanExecute(w)
      /\ clock' = clock /\ trade' = trade /\ clock \in Nat
  BY DEF TradesInv, Include
<1>2. PICK s \in {"executed", "refused"} : sent' = [sent EXCEPT ![w] = s]
  BY DEF Include
<1>3. sent[w] = "pending" /\ (w # "interface" => clock <= trade[w].built + TxTimeout)
  BY <1>1 DEF CanExecute, Deadline
<1>4. Truthful(w, trade[w], s, clock)
  BY <1>1, <1>3, TradeAssumption DEF Truthful, TradePhases
<1>5. trade' = [trade EXCEPT ![w] = trade[w]]
  BY <1>1 DEF TradesInv
<1>6. QED
  BY <1>1, <1>2, <1>4, <1>5, OneTradeMoves

LEMMA TickKeeps ==
  ASSUME TradesInv, Tick
  PROVE  TradesInv'
<1>1. clock \in Nat /\ clock' = clock + 1 /\ trade' = trade /\ sent' = sent
  BY DEF TradesInv, Tick
<1>2. \A w \in Widgets : Truthful(w, trade[w], sent[w], clock)
  BY DEF TradesInv
<1>3. \A w \in Widgets : Truthful(w, trade[w], sent[w], clock + 1)
  BY <1>1, <1>2, TradeAssumption DEF Truthful
<1>4. QED
  BY <1>1, <1>3 DEF TradesInv

LEMMA TradeStep ==
  ASSUME TradesInv, [TradeNext]_tradeVars
  PROVE  TradesInv'
<1>1. ASSUME trade' = trade, sent' = sent, clock' = clock
      PROVE  TradesInv'
  BY <1>1 DEF TradesInv
<1>2. ASSUME NEW type, NEW x, ChangeInput(type, x) \/ OtherTrade(type, x)
      PROVE  TradesInv'
  BY <1>1, <1>2 DEF ChangeInput, OtherTrade
<1>3. CASE LoadTradingContext \/ CalculateOutput \/ SwitchType \/ TokenGraduates
  BY <1>1, <1>3 DEF LoadTradingContext, CalculateOutput, SwitchType, TokenGraduates
<1>4. CASE Trades
  <2>1. \E w, minimum, fresh : Begin(w, minimum, fresh)
    BY <1>4 DEF Trades, HandleTrade, ExecuteTrade, HandleBasicTrade, HandleInterfaceTrade
  <2>2. \A w, minimum, fresh : Begin(w, minimum, fresh) => TradesInv'
    BY BeginKeeps
  <2>3. QED
    BY <2>1, <2>2
<1>5. ASSUME NEW w \in Widgets,
             \/ EnsureTrustline(w) \/ Simulate(w) \/ Sign(w) \/ Submit(w)
             \/ Poll(w) \/ GiveUp(w) \/ Settle(w) \/ Include(w)
      PROVE  TradesInv'
  BY <1>5, TrustlineKeeps, SimulateKeeps, SignKeeps, SubmitKeeps, PollKeeps, GiveUpKeeps,
     SettleKeeps, IncludeKeeps
<1>6. CASE UNCHANGED tradeVars
  BY <1>1, <1>6 DEF tradeVars
<1>7. QED
  BY <1>2, <1>3, <1>4, <1>5, <1>6, TickKeeps DEF TradeNext

(* A widget that reports an error tells the truth: its transaction was not *)
(* executed and cannot be any more, whatever the number of widgets and of  *)
(* other traders, as long as a widget polls for its transaction's lifetime.*)
THEOREM ErrorsAreAlwaysFinal == TradeSpec => []ErrorsAreFinal
<1>1. TradeInit => TradesInv
  BY TradeStart
<1>2. TradesInv /\ [TradeNext]_tradeVars => TradesInv'
  BY TradeStep
<1>3. TradesInv => ErrorsAreFinal
  <2> SUFFICES ASSUME TradesInv, NEW w \in Widgets \ {"interface"},
                      trade[w].at = "error", ~trade[w].blind
               PROVE  sent[w] # "executed" /\ ~CanExecute(w)
    BY DEF ErrorsAreFinal
  <2>1. Truthful(w, trade[w], sent[w], clock) /\ clock \in Nat
    BY DEF TradesInv
  <2>2. QED
    BY <2>1, TradeAssumption DEF Truthful, CanExecute, Deadline
<1>4. QED
  BY <1>1, <1>2, <1>3, PTL DEF TradeSpec

(***************************************************************************)
(* What a widget shows is what is paid.  The roundings: each fee of a      *)
(* contract is rounded up, each of the page rounded down, the output of a  *)
(* curve loses less than one unit, and the output shown is rounded to the  *)
(* nearest of DisplayGrain.  All of them together stay below the tolerance *)
(* of half a per cent from MeaningfulMin on (the four lemmas Covered).     *)
(* QuotesInv says where a minimum comes from: a trade that is fresh was    *)
(* begun with the output of its own type, amount and reserves.             *)
(***************************************************************************)
(* The fees of an amount, by what they are of the exact figure.            *)
LEMMA FeesOfAmount ==
  ASSUME NEW x \in Nat
  PROVE  /\ Fee(x, 5) \in Nat /\ Fee(x, 25) \in Nat /\ NetOfFees(x) \in Nat /\ ApplyTradingFee(x) \in Nat
         /\ NetOfFees(x) <= x
         /\ 1000 * NetOfFees(x) >= 997 * x /\ 1000 * NetOfFees(x) <= 997 * x + 2000
         /\ 1000 * ApplyTradingFee(x) <= 997 * x + 1000
         /\ 1000 * (x - Fee(x, 5) - Fee(x, 25)) >= 997 * x - 2000
         /\ x - Fee(x, 5) - Fee(x, 25) <= NetOfFees(x)
         /\ x - Fee(x, 5) - Fee(x, 25) >= NetOfFees(x) - 2
         /\ Fee(x, 5) <= x /\ Fee(x, 25) <= x
<1> DEFINE f5 == (x * 5) \div 10000
           f25 == (x * 25) \div 10000
           f30 == (x * 30) \div 10000
           c5 == (x * 5 + 9999) \div 10000
           c25 == (x * 25 + 9999) \div 10000
<1>1. /\ f5 \in Nat /\ f5 * 10000 <= x * 5 /\ x * 5 < f5 * 10000 + 10000
      /\ f25 \in Nat /\ f25 * 10000 <= x * 25 /\ x * 25 < f25 * 10000 + 10000
      /\ f30 \in Nat /\ f30 * 10000 <= x * 30 /\ x * 30 < f30 * 10000 + 10000
  OBVIOUS
<1>2. /\ c5 \in Nat /\ c5 * 10000 <= x * 5 + 9999 /\ x * 5 + 9999 < c5 * 10000 + 10000
      /\ c25 \in Nat /\ c25 * 10000 <= x * 25 + 9999 /\ x * 25 + 9999 < c25 * 10000 + 10000
  OBVIOUS
<1>3. /\ NetOfFees(x) = x - f5 - f25 /\ ApplyTradingFee(x) = x - f30
      /\ Fee(x, 5) = c5 /\ Fee(x, 25) = c25
  BY DEF NetOfFees, ApplyTradingFee, Fee
<1> HIDE DEF f5, f25, f30, c5, c25
<1>4. QED
  BY <1>1, <1>2, <1>3

(* The output shown, and the minimum of it.                                *)
LEMMA MinimumOfShown ==
  ASSUME NEW q \in Nat, NEW mode
  PROVE  /\ ToFixed(q) \in Nat /\ MinOutput(mode, ToFixed(q)) \in Nat
         /\ 2000 * MinOutput(mode, ToFixed(q)) <= 995 * (2 * q + DisplayGrain)
         /\ mode = "amm" => 2000 * MinOutput(mode, ToFixed(q)) <= 990 * (2 * q + DisplayGrain)
<1> DEFINE G == DisplayGrain
           s == (2 * q + G) \div (2 * G)
           r == IF mode = "amm" THEN 990 ELSE 995
           m == (ToFixed(q) * r) \div 1000
<1>1. G \in Nat \ {0} /\ 2 * G \in Nat \ {0} /\ 2 * q + G \in Nat
  BY RoundingAssumption
<1>2. s \in Nat /\ s * (2 * G) <= 2 * q + G
  BY <1>1, DivFloor
<1>3. ToFixed(q) = s * G
  BY DEF ToFixed
<1> HIDE DEF s, G
<1>4. s * G \in Nat /\ s * (2 * G) = 2 * (s * G)
  BY <1>1, <1>2, ProductNat
<1>5. ToFixed(q) \in Nat /\ 2 * ToFixed(q) <= 2 * q + G
  BY <1>1, <1>2, <1>3, <1>4
<1>6. m \in Nat /\ m * 1000 <= ToFixed(q) * r
  <2>1. r \in {990, 995}
    OBVIOUS
  <2>2. ASSUME NEW t \in Nat, NEW u \in {990, 995}
        PROVE  (t * u) \div 1000 \in Nat /\ ((t * u) \div 1000) * 1000 <= t * u
    BY <2>2
  <2> HIDE DEF r
  <2>3. QED
    BY <1>5, <2>1, <2>2
<1>7. MinOutput(mode, ToFixed(q)) = m
  BY DEF MinOutput
<1>8. QED
  <2> DEFINE t == ToFixed(q)
  <2>1. t \in Nat /\ 2 * t <= 2 * q + G /\ m * 1000 <= t * r /\ m \in Nat
    BY <1>5, <1>6
  <2> HIDE DEF t, m
  <2>2. t * r = (IF mode = "amm" THEN t * 990 ELSE t * 995)
    OBVIOUS
  <2>3. m * 1000 <= t * 995 /\ (mode = "amm" => m * 1000 <= t * 990)
    BY <2>1, <2>2
  <2> HIDE DEF r
  <2>4. 2000 * m <= 995 * (2 * q + G) /\ (mode = "amm" => 2000 * m <= 990 * (2 * q + G))
    BY <1>1, <2>1, <2>3
  <2>5. QED
    BY <1>5, <1>6, <1>7, <2>4 DEF G, m, t

(* A swap on the pair: what is shown is what is paid, up to the grain.     *)
LEMMA SwapCovered ==
  ASSUME NEW q \in Nat, MinOutput("amm", ToFixed(q)) >= MeaningfulMin
  PROVE  q >= MinOutput("amm", ToFixed(q))
<1> DEFINE m == MinOutput("amm", ToFixed(q))
<1>1. m \in Nat /\ 2000 * m <= 990 * (2 * q + DisplayGrain) /\ m >= MeaningfulMin
  BY MinimumOfShown
<1> HIDE DEF m
<1>2. q >= m
  BY <1>1, RoundingAssumption
<1>3. QED
  BY <1>2 DEF m

(* A sell, whose fees come from what the curve pays.                       *)
LEMMA SellCovered ==
  ASSUME NEW g \in Nat, NEW q \in {ApplyTradingFee(g), NetOfFees(g)},
         MinOutput("bonding", ToFixed(q)) >= MeaningfulMin
  PROVE  g - Fee(g, 5) - Fee(g, 25) >= MinOutput("bonding", ToFixed(q))
<1> DEFINE m == MinOutput("bonding", ToFixed(q))
           p == g - Fee(g, 5) - Fee(g, 25)
<1>1. q \in Nat /\ p \in Int /\ 1000 * p >= 997 * g - 2000 /\ 1000 * q <= 997 * g + 2000
  <2>1. /\ Fee(g, 5) \in Nat /\ Fee(g, 25) \in Nat
        /\ 1000 * (g - Fee(g, 5) - Fee(g, 25)) >= 997 * g - 2000
    BY FeesOfAmount
  <2>2. ApplyTradingFee(g) \in Nat /\ 1000 * ApplyTradingFee(g) <= 997 * g + 1000
    BY FeesOfAmount
  <2>3. NetOfFees(g) \in Nat /\ 1000 * NetOfFees(g) <= 997 * g + 2000
    BY FeesOfAmount
  <2>4. p \in Int /\ 1000 * p >= 997 * g - 2000
    BY <2>1
  <2> HIDE DEF p
  <2>5. QED
    BY <2>2, <2>3, <2>4
<1>2. m \in Nat /\ 2000 * m <= 995 * (2 * q + DisplayGrain) /\ m >= MeaningfulMin
  BY <1>1, MinimumOfShown
<1> HIDE DEF m, p
<1>3. p >= m
  BY <1>1, <1>2, RoundingAssumption
<1>4. QED
  BY <1>3 DEF m, p

(* A ratio of whole numbers carries over.                                  *)
LEMMA RatioCarries ==
  ASSUME NEW p \in Nat, NEW r \in Nat, NEW n \in Nat \ {0}, NEW x \in Nat \ {0},
         NEW c \in Nat, NEW d \in Nat,
         (r - 1) * n <= p * x, d * n >= c * x
  PROVE  c * (r - 1) <= d * p
<1> DEFINE s == r - 1
<1>1. CASE r = 0
  <2>1. c * (r - 1) <= 0 /\ c * (r - 1) \in Int
    BY <1>1
  <2>2. d * p \in Nat
    BY ProductNat
  <2>3. QED
    BY <2>1, <2>2
<1>2. CASE r # 0
  <2>1. s \in Nat /\ s * n <= p * x
    BY <1>2
  <2> HIDE DEF s
  <2>2. c * x \in Nat /\ d * n \in Nat /\ s * n \in Nat /\ p * x \in Nat /\ c * s \in Nat /\ d * p \in Nat
    BY <2>1, ProductNat
  <2>3. s * (c * x) <= s * (d * n)
    <3> DEFINE u == c * x
               v == d * n
    <3>1. u \in Nat /\ v \in Nat /\ u <= v
      BY <2>2
    <3> HIDE DEF u, v
    <3>2. s * u <= s * v
      BY <2>1, <3>1
    <3>3. QED
      BY <3>2 DEF u, v
  <2>4. d * (s * n) <= d * (p * x)
    <3> DEFINE u == s * n
               v == p * x
    <3>1. u \in Nat /\ v \in Nat /\ u <= v
      BY <2>1, <2>2
    <3> HIDE DEF u, v
    <3>2. d * u <= d * v
      BY <3>1
    <3>3. QED
      BY <3>2 DEF u, v
  <2>5. s * (c * x) = (c * s) * x /\ s * (d * n) = d * (s * n) /\ d * (p * x) = (d * p) * x
    BY <2>1
  <2>6. (c * s) * x <= (d * p) * x
    <3>1. s * (d * n) \in Int /\ s * (c * x) \in Int /\ d * (p * x) \in Int
      BY <2>1, <2>2
    <3>2. QED
      BY <2>3, <2>4, <2>5, <3>1
  <2>7. c * s <= d * p
    <3> DEFINE u == c * s
               v == d * p
    <3>1. u \in Nat /\ v \in Nat /\ u * x <= v * x
      BY <2>2, <2>6
    <3> HIDE DEF u, v
    <3>2. SUFFICES ASSUME v < u PROVE FALSE
      BY <3>1 DEF u, v
    <3>3. v * x < u * x
      BY <3>1, <3>2
    <3>4. v * x \in Nat /\ u * x \in Nat
      BY <3>1, ProductNat
    <3>5. QED
      BY <3>1, <3>3, <3>4
  <2>8. QED
    BY <2>7 DEF s
<1>3. QED
  BY <1>1, <1>2

(* A buy quoted by the premium widget: the page takes the fee from the     *)
(* tokens, the factory from the XLM.                                       *)
LEMMA BuyCovered ==
  ASSUME NEW X \in Nat, NEW Y \in Nat, NEW x \in Nat, x >= MinTrade,
         NEW q, q = ApplyTradingFee(Y - (X * Y) \div (X + x)),
         MinOutput("bonding", ToFixed(q)) >= MeaningfulMin
  PROVE  /\ x - Fee(x, 5) - Fee(x, 25) \in Nat \ {0}
         /\ Y - (X * Y) \div (X + (x - Fee(x, 5) - Fee(x, 25))) >= MinOutput("bonding", ToFixed(q))
<1> DEFINE n == x - Fee(x, 5) - Fee(x, 25)
           p == Y - (X * Y) \div (X + n)
           r == Y - (X * Y) \div (X + x)
           m == MinOutput("bonding", ToFixed(q))
<1>1. x >= 1000 /\ x \in Nat \ {0}
  BY RoundingAssumption
<1>2. n \in Nat \ {0} /\ n <= x /\ 200 * n >= 199 * x
  <2>1. /\ Fee(x, 5) \in Nat /\ Fee(x, 25) \in Nat
        /\ 1000 * (x - Fee(x, 5) - Fee(x, 25)) >= 997 * x - 2000
    BY FeesOfAmount
  <2> DEFINE f == Fee(x, 5)
             g == Fee(x, 25)
  <2>2. f \in Nat /\ g \in Nat /\ n = x - f - g /\ 1000 * n >= 997 * x - 2000
    BY <2>1
  <2> HIDE DEF f, g, n
  <2>3. QED
    BY <1>1, <2>2
<1> HIDE DEF n
<1>3. p \in Nat /\ r \in Nat /\ (r - 1) * n <= p * x
  BY <1>1, <1>2, SmallerInput
<1> HIDE DEF p, r
<1>4. 199 * (r - 1) <= 200 * p
  BY <1>1, <1>2, <1>3, RatioCarries
<1>5. q = ApplyTradingFee(r)
  BY DEF r
<1>6. q \in Nat /\ 1000 * q <= 997 * r + 1000
  BY <1>3, <1>5, FeesOfAmount
<1>7. m \in Nat /\ 2000 * m <= 995 * (2 * q + DisplayGrain) /\ m >= MeaningfulMin
  BY <1>6, MinimumOfShown
<1> HIDE DEF m
<1>8. p >= m
  BY <1>3, <1>4, <1>6, <1>7, RoundingAssumption
<1>9. QED
  BY <1>2, <1>8 DEF n, p, m

(* A buy quoted by TradingWidget, which takes the fees from the XLM too,   *)
(* but rounds them down.                                                   *)
LEMMA BasicBuyCovered ==
  ASSUME NEW X \in Nat, NEW Y \in Nat, NEW x \in Nat, x >= MinTrade,
         NEW q, q = Y - (X * Y) \div (X + NetOfFees(x)),
         MinOutput("bonding", ToFixed(q)) >= MeaningfulMin
  PROVE  Y - (X * Y) \div (X + (x - Fee(x, 5) - Fee(x, 25))) >= MinOutput("bonding", ToFixed(q))
<1> DEFINE n == x - Fee(x, 5) - Fee(x, 25)
           y == NetOfFees(x)
           p == Y - (X * Y) \div (X + n)
           m == MinOutput("bonding", ToFixed(q))
<1>1. x >= 1000 /\ x \in Nat \ {0}
  BY RoundingAssumption
<1>2. n \in Nat \ {0} /\ y \in Nat \ {0} /\ n <= y /\ 1000 * n >= 997 * y
  <2>1. /\ Fee(x, 5) \in Nat /\ Fee(x, 25) \in Nat /\ NetOfFees(x) \in Nat
        /\ 1000 * NetOfFees(x) >= 997 * x
        /\ x - Fee(x, 5) - Fee(x, 25) <= NetOfFees(x)
        /\ x - Fee(x, 5) - Fee(x, 25) >= NetOfFees(x) - 2
    BY FeesOfAmount
  <2> DEFINE f == Fee(x, 5)
             g == Fee(x, 25)
  <2>2. f \in Nat /\ g \in Nat /\ n = x - f - g /\ y \in Nat /\ 1000 * y >= 997 * x /\ n <= y /\ n >= y - 2
    BY <2>1
  <2> HIDE DEF f, g, n, y
  <2>3. QED
    BY <1>1, <2>2
<1>3. q = Y - (X * Y) \div (X + y)
  OBVIOUS
<1> HIDE DEF n, y
<1>4. p \in Nat /\ q \in Nat /\ (q - 1) * n <= p * y
  <2>1. ASSUME NEW u \in Nat \ {0}, NEW z \in Nat, u <= z
        PROVE  /\ Y - (X * Y) \div (X + u) \in Nat /\ Y - (X * Y) \div (X + z) \in Nat
               /\ ((Y - (X * Y) \div (X + z)) - 1) * u <= (Y - (X * Y) \div (X + u)) * z
    BY <2>1, SmallerInput
  <2>2. /\ Y - (X * Y) \div (X + n) \in Nat /\ Y - (X * Y) \div (X + y) \in Nat
        /\ ((Y - (X * Y) \div (X + y)) - 1) * n <= (Y - (X * Y) \div (X + n)) * y
    BY <1>2, <2>1
  <2>3. p = Y - (X * Y) \div (X + n)
    OBVIOUS
  <2> HIDE DEF p
  <2>4. QED
    BY <1>3, <2>2, <2>3, Zenon
<1> HIDE DEF p
<1>5. 997 * (q - 1) <= 1000 * p
  BY <1>2, <1>4, RatioCarries
<1>6. m \in Nat /\ 2000 * m <= 995 * (2 * q + DisplayGrain) /\ m >= MeaningfulMin
  BY <1>4, MinimumOfShown
<1> HIDE DEF m
<1>7. p >= m
  BY <1>4, <1>5, <1>6, RoundingAssumption
<1>8. QED
  BY <1>7 DEF n, p, m

Markets == [mode : {"bonding", "amm"}, xlm : Nat, token : Nat]

(* What a constant product pays is no more than the reserve.               *)
LEMMA OutputsOfMarket ==
  ASSUME NEW m \in Markets, NEW x \in Nat \ {0}
  PROVE  /\ CalculateBuyOutput(m, x) \in Nat /\ CalculateBuyOutput(m, x) <= m.token
         /\ CalculateSellOutput(m, x) \in Nat /\ CalculateSellOutput(m, x) <= m.xlm
<1>1. m.xlm \in Nat /\ m.token \in Nat /\ x > 0 /\ x \in Nat
  BY DEF Markets
<1>2. /\ CalculateBuyOutput(m, x) = m.token - (m.xlm * m.token) \div (m.xlm + x)
      /\ CalculateSellOutput(m, x) = m.xlm - (m.token * m.xlm) \div (m.token + x)
  BY <1>1 DEF CalculateBuyOutput, CalculateSellOutput
<1>3. LET out == m.token - (m.xlm * m.token) \div (m.xlm + x) IN out \in Nat /\ out <= m.token
  BY <1>1, QuoteBounds
<1>4. LET out == m.xlm - (m.token * m.xlm) \div (m.token + x) IN out \in Nat /\ out <= m.xlm
  BY <1>1, QuoteBounds
<1>5. QED
  BY <1>2, <1>3, <1>4

LEMMA SwapOfMarket ==
  ASSUME NEW in \in Nat, NEW out \in Nat, NEW x \in Nat \ {0}
  PROVE  CalculateAmmSwapOutput(x, in, out) \in Nat /\ CalculateAmmSwapOutput(x, in, out) <= out
<1> DEFINE a == x * 997 * out
           b == in * 1000 + x * 997
           q == a \div b
<1>1. a \in Nat /\ b \in Nat \ {0} /\ a = (x * 997) * out
  BY ProductNat
<1>2. q \in Nat /\ q * b <= a
  <2> HIDE DEF a, b
  <2>1. QED
    BY <1>1, DivFloor
<1>3. a <= b * out
  <2> DEFINE u == x * 997
  <2>1. u \in Nat /\ in * 1000 \in Nat /\ b = in * 1000 + u /\ a = u * out
    BY <1>1
  <2> HIDE DEF u, a, b
  <2>2. u * out <= b * out
    BY <2>1
  <2>3. QED
    BY <2>1, <2>2
<1>4. q <= out
  <2> HIDE DEF q, a, b
  <2>1. SUFFICES ASSUME out < q PROVE FALSE
    BY <1>2
  <2>2. out * b < q * b
    BY <1>1, <1>2, <2>1
  <2>3. out * b \in Nat /\ q * b \in Nat /\ b * out = out * b
    BY <1>1, <1>2, ProductNat
  <2>4. QED
    BY <1>1, <1>2, <1>3, <2>2, <2>3
<1>5. QED
  BY <1>2, <1>4 DEF CalculateAmmSwapOutput

LEMMA QuotesAreNatural ==
  ASSUME NEW v \in Markets, NEW type \in {"buy", "sell"}, NEW x \in Nat \ {0}
  PROVE  PremiumQuote(v, type, x) \in Nat
<1>1. v.mode \in {"bonding", "amm"} /\ v.xlm \in Nat /\ v.token \in Nat
  BY DEF Markets
<1>2. CASE v.mode = "amm" /\ type = "buy"
  BY <1>1, <1>2, SwapOfMarket DEF PremiumQuote
<1>3. CASE v.mode = "amm" /\ type = "sell"
  BY <1>1, <1>3, SwapOfMarket DEF PremiumQuote
<1>4. CASE v.mode = "bonding" /\ type = "buy"
  BY <1>4, OutputsOfMarket, FeesOfAmount DEF PremiumQuote
<1>5. CASE v.mode = "bonding" /\ type = "sell"
  BY <1>5, OutputsOfMarket, FeesOfAmount DEF PremiumQuote
<1>6. QED
  BY <1>1, <1>2, <1>3, <1>4, <1>5

(* A trade leaves reserves that are natural numbers.                       *)
LEMMA MarketAfterTrade ==
  ASSUME NEW m \in Markets, NEW type \in {"buy", "sell"}, NEW x \in Nat \ {0}
  PROVE  After(m, type, x) \in Markets
<1>1. /\ m.mode \in {"bonding", "amm"} /\ m.xlm \in Nat /\ m.token \in Nat
      /\ m = [mode |-> m.mode, xlm |-> m.xlm, token |-> m.token]
  BY DEF Markets
<1>2. CASE m.mode = "amm"
  <2>1. Received(m, type, x) = PremiumQuote(m, type, x)
    BY <1>2 DEF Received
  <2>2. CASE type = "buy"
    <3>1. Received(m, type, x) \in Nat /\ Received(m, type, x) <= m.token
      BY <1>1, <1>2, <2>1, <2>2, SwapOfMarket DEF PremiumQuote
    <3>2. After(m, type, x) = [mode |-> m.mode, xlm |-> m.xlm + x, token |-> m.token - Received(m, type, x)]
      BY <1>1, <1>2, <2>2 DEF After
    <3>3. QED
      BY <1>1, <3>1, <3>2 DEF Markets
  <2>3. CASE type = "sell"
    <3>1. Received(m, type, x) \in Nat /\ Received(m, type, x) <= m.xlm
      BY <1>1, <1>2, <2>1, <2>3, SwapOfMarket DEF PremiumQuote
    <3>2. After(m, type, x) = [mode |-> m.mode, xlm |-> m.xlm - Received(m, type, x), token |-> m.token + x]
      BY <1>1, <1>2, <2>3 DEF After
    <3>3. QED
      BY <1>1, <3>1, <3>2 DEF Markets
  <2>4. QED
    BY <2>2, <2>3
<1>3. CASE m.mode = "bonding" /\ type = "buy"
  <2> DEFINE n == x - Fee(x, 5) - Fee(x, 25)
  <2>1. Received(m, type, x) = CalculateBuyOutput(m, n)
    BY <1>3 DEF Received
  <2>2. Fee(x, 5) \in Nat /\ Fee(x, 5) <= x /\ Fee(x, 25) \in Nat /\ n \in Int
    BY FeesOfAmount
  <2> HIDE DEF n
  <2>5. CalculateBuyOutput(m, n) \in Nat /\ CalculateBuyOutput(m, n) <= m.token
    <3>1. n <= 0 => CalculateBuyOutput(m, n) = 0
      BY DEF CalculateBuyOutput
    <3>2. n > 0 => n \in Nat \ {0}
      BY <2>2
    <3>3. QED
      BY <1>1, <2>2, <3>1, <3>2, OutputsOfMarket
  <2>6. After(m, type, x) = [mode |-> m.mode, xlm |-> m.xlm + x - Fee(x, 5), token |-> m.token - Received(m, type, x)]
    BY <1>1, <1>3 DEF After
  <2>7. QED
    BY <1>1, <2>1, <2>2, <2>5, <2>6 DEF Markets
<1>4. CASE m.mode = "bonding" /\ type = "sell"
  <2> DEFINE g == CalculateSellOutput(m, x)
  <2>1. g \in Nat /\ g <= m.xlm
    BY OutputsOfMarket
  <2>2. After(m, type, x) = [mode |-> m.mode, xlm |-> m.xlm - g + Fee(g, 25), token |-> m.token + x]
    BY <1>1, <1>4 DEF After
  <2> HIDE DEF g
  <2>3. Fee(g, 25) \in Nat
    BY <2>1, FeesOfAmount
  <2>4. QED
    BY <1>1, <2>1, <2>2, <2>3 DEF Markets
<1>5. QED
  BY <1>1, <1>2, <1>3, <1>4

(* The output a widget's minimum is taken from.                            *)
QuoteOf(w, v, type, x) == IF w = "basic" THEN BasicQuote(v, type, x) ELSE PremiumQuote(v, type, x)
ModeOf(w, v) == IF w = "premium" THEN v.mode ELSE "bonding"
Quoted(w, t) ==
    t.fresh /\ t.at \in {"preparing", "building"} =>
        /\ w # "interface" /\ t.type \in {"buy", "sell"} /\ t.amount \in Nat \ {0} /\ t.view \in Markets
        /\ t.min = MinOutput(ModeOf(w, t.view), ToFixed(QuoteOf(w, t.view, t.type, t.amount)))

(* A trade at work has an amount; with none at work there is no transaction.*)
Ordered(t) ==
    /\ t.type \in {"buy", "sell"} /\ t.amount \in Nat
    /\ IF t.at = "idle" THEN t.seq = 0 ELSE t.amount # 0

FormInv ==
    /\ view \in Markets \cup {NoView}
    /\ form = [type |-> form.type, amount |-> form.amount, quote |-> form.quote,
               quotedFor |-> form.quotedFor, edits |-> form.edits]
    /\ form.type \in {"buy", "sell"} /\ form.amount \in Nat /\ form.quote \in Nat
    /\ form.quote > 0 /\ form.quotedFor # <<>> =>
          \E type \in {"buy", "sell"}, x \in Nat \ {0}, v \in Markets :
              form.quotedFor = <<type, x, v>> /\ form.quote = ToFixed(PremiumQuote(v, type, x))

QuotesInv ==
    /\ market \in Markets /\ sequence \in Nat /\ FormInv
    /\ \A w \in Widgets : Ordered(trade[w]) /\ Quoted(w, trade[w])

(* A trade that meets what was quoted for it on the reserves of now.       *)
LEMMA QuotedMeetsMinimum ==
  ASSUME NEW w \in Widgets \ {"interface"}, NEW t, Quoted(w, t), t.fresh, t.at \in {"preparing", "building"},
         t.view = market, market.mode = "bonding" \/ w = "premium",
         LargeEnough(market, t.type, t.amount), t.min >= MeaningfulMin
  PROVE  Received(market, t.type, t.amount) >= t.min
<1> DEFINE x == t.amount
           type == t.type
           q == QuoteOf(w, market, type, x)
<1>1. /\ market \in Markets /\ x \in Nat \ {0} /\ type \in {"buy", "sell"}
      /\ t.min = MinOutput(ModeOf(w, market), ToFixed(q)) /\ MinOutput(ModeOf(w, market), ToFixed(q)) >= MeaningfulMin
  BY DEF Quoted
<1>2. /\ market.mode \in {"bonding", "amm"} /\ market.xlm \in Nat /\ market.token \in Nat
  BY <1>1 DEF Markets
<1>3. CASE market.mode = "amm"
  <2>1. w = "premium" /\ ModeOf(w, market) = "amm" /\ q = PremiumQuote(market, type, x)
    BY <1>3 DEF ModeOf, QuoteOf
  <2>2. q \in Nat
    BY <1>1, <2>1, QuotesAreNatural
  <2> HIDE DEF q
  <2>3. q >= MinOutput("amm", ToFixed(q))
    BY <1>1, <2>1, <2>2, SwapCovered
  <2>4. Received(market, type, x) = q
    BY <1>3, <2>1 DEF Received
  <2>5. QED
    BY <1>1, <2>1, <2>3, <2>4
<1>4. CASE market.mode = "bonding" /\ type = "sell"
  <2> DEFINE g == CalculateSellOutput(market, x)
  <2>1. g \in Nat /\ ModeOf(w, market) = "bonding"
    BY <1>1, <1>4, OutputsOfMarket DEF ModeOf
  <2>2. q \in {ApplyTradingFee(g), NetOfFees(g)}
    BY <1>4 DEF QuoteOf, BasicQuote, PremiumQuote
  <2>3. Received(market, type, x) = g - Fee(g, 5) - Fee(g, 25)
    BY <1>4 DEF Received
  <2> HIDE DEF g, q
  <2>4. QED
    BY <1>1, <2>1, <2>2, <2>3, SellCovered
<1>5. CASE market.mode = "bonding" /\ type = "buy"
  <2> DEFINE X == market.xlm
             Y == market.token
             n == x - Fee(x, 5) - Fee(x, 25)
  <2>1. x >= MinTrade /\ x \in Nat /\ X \in Nat /\ Y \in Nat /\ ModeOf(w, market) = "bonding"
    BY <1>1, <1>2, <1>5 DEF LargeEnough, ModeOf
  <2>2. Received(market, type, x) = CalculateBuyOutput(market, n)
    BY <1>5 DEF Received
  <2>3. n \in Nat \ {0} => Received(market, type, x) = Y - (X * Y) \div (X + n)
    <3> HIDE DEF n
    <3>1. QED
      BY <2>2 DEF CalculateBuyOutput
  <2>4. n \in Nat \ {0}
    <3>1. x \in Nat /\ x >= 1000
      BY <2>1, RoundingAssumption
    <3>2. /\ Fee(x, 5) \in Nat /\ Fee(x, 25) \in Nat
          /\ 1000 * (x - Fee(x, 5) - Fee(x, 25)) >= 997 * x - 2000
      <4> HIDE DEF x, n, type, q
      <4>1. QED
        BY <3>1, FeesOfAmount
    <3> DEFINE f == Fee(x, 5)
               h == Fee(x, 25)
               y == x
    <3>3. f \in Nat /\ h \in Nat /\ n = y - f - h /\ 1000 * n >= 997 * y - 2000 /\ y \in Nat /\ y >= 1000
      BY <3>1, <3>2
    <3> HIDE DEF f, h, n, y
    <3>4. QED
      BY <3>3
  <2>5. CASE w = "basic"
    <3>1. NetOfFees(x) \in Nat /\ NetOfFees(x) >= 1
      <4>1. x \in Nat /\ x >= 1000 /\ NetOfFees(x) \in Nat /\ 1000 * NetOfFees(x) >= 997 * x
        <5> HIDE DEF x, n, type, q
        <5>1. x \in Nat /\ x >= 1000
          BY <2>1, RoundingAssumption
        <5>2. NetOfFees(x) \in Nat /\ 1000 * NetOfFees(x) >= 997 * x
          BY <2>1, FeesOfAmount
        <5>3. QED
          BY <5>1, <5>2
      <4> DEFINE y == x
                 z == NetOfFees(x)
      <4>2. y \in Nat /\ y >= 1000 /\ z \in Nat /\ 1000 * z >= 997 * y
        BY <4>1
      <4> HIDE DEF y, z
      <4>3. z >= 1
        BY <4>2
      <4>4. QED
        BY <4>1, <4>3 DEF z
    <3>2. q = CalculateBuyOutput(market, NetOfFees(x))
      BY <1>5, <2>5 DEF QuoteOf, BasicQuote
    <3>3. q = Y - (X * Y) \div (X + NetOfFees(x))
      BY <3>1, <3>2 DEF CalculateBuyOutput
    <3> HIDE DEF q
    <3>4. Y - (X * Y) \div (X + n) >= MinOutput("bonding", ToFixed(q))
      BY <1>1, <2>1, <3>3, BasicBuyCovered
    <3>5. QED
      BY <1>1, <2>1, <2>3, <2>4, <3>4
  <2>6. CASE w # "basic"
    <3>1. q = ApplyTradingFee(CalculateBuyOutput(market, x))
      BY <1>5, <2>6 DEF QuoteOf, PremiumQuote
    <3>2. CalculateBuyOutput(market, x) = Y - (X * Y) \div (X + x)
      BY <1>1 DEF CalculateBuyOutput
    <3>3. q = ApplyTradingFee(Y - (X * Y) \div (X + x))
      BY <3>1, <3>2
    <3> HIDE DEF q
    <3>4. Y - (X * Y) \div (X + n) >= MinOutput("bonding", ToFixed(q))
      BY <1>1, <2>1, <3>3, BuyCovered
    <3>5. QED
      BY <1>1, <2>1, <2>3, <2>4, <3>4
  <2>7. QED
    BY <2>5, <2>6
<1>6. QED
  BY <1>1, <1>2, <1>3, <1>4, <1>5

(* The steps on the form.                                                  *)
LEMMA ShownIsNatural ==
  ASSUME NEW q \in Nat
  PROVE  ToFixed(q) \in Nat
<1> DEFINE n == 2 * q + DisplayGrain
           d == 2 * DisplayGrain
<1>1. n \in Nat /\ d \in Nat \ {0} /\ DisplayGrain \in Nat
  BY RoundingAssumption
<1> HIDE DEF n, d
<1>2. n \div d \in Nat
  BY <1>1, DivFloor
<1>3. (n \div d) * DisplayGrain \in Nat
  BY <1>1, <1>2, ProductNat
<1>4. QED
  BY <1>3 DEF ToFixed, n, d

LEMMA FormStays ==
  ASSUME FormInv, view' \in Markets \cup {NoView}, form' = form
  PROVE  FormInv'
BY DEF FormInv

LEMMA InputChangeKeeps ==
  ASSUME FormInv, NEW type \in {"buy", "sell"}, NEW x \in Nat, ChangeInput(type, x)
  PROVE  FormInv'
<1>1. form' = [type |-> type, amount |-> x, quote |-> form.quote, quotedFor |-> form.quotedFor,
               edits |-> form.edits + 1] /\ view' = view
  BY DEF ChangeInput, FormInv
<1>2. form'.type = type /\ form'.amount = x /\ form'.quote = form.quote
      /\ form'.quotedFor = form.quotedFor /\ form'.edits = form.edits + 1
  BY <1>1
<1>3. QED
  BY <1>1, <1>2 DEF FormInv

LEMMA OutputKeeps ==
  ASSUME FormInv, CalculateOutput
  PROVE  FormInv'
<1>1. PICK q : /\ q = IF form.amount = 0 \/ view = NoView THEN 0
                      ELSE ToFixed(PremiumQuote(view, form.type, form.amount))
               /\ form' = [form EXCEPT !.quote = q, !.quotedFor = <<form.type, form.amount, view>>]
               /\ view' = view
  BY DEF CalculateOutput
<1>2. form' = [type |-> form.type, amount |-> form.amount, quote |-> q,
               quotedFor |-> <<form.type, form.amount, view>>, edits |-> form.edits]
  BY <1>1 DEF FormInv
<1>3. form'.type = form.type /\ form'.amount = form.amount /\ form'.quote = q
      /\ form'.quotedFor = <<form.type, form.amount, view>> /\ form'.edits = form.edits
  BY <1>2
<1>4. /\ form.type \in {"buy", "sell"} /\ form.amount \in Nat /\ view \in Markets \cup {NoView}
  BY DEF FormInv
<1>5. CASE form.amount = 0 \/ view = NoView
  <2>1. q = 0
    BY <1>1, <1>5
  <2>2. form' = [type |-> form'.type, amount |-> form'.amount, quote |-> form'.quote,
                 quotedFor |-> form'.quotedFor, edits |-> form'.edits]
    BY <1>2, <1>3
  <2>3. ~(form'.quote > 0) /\ form'.quote \in Nat
    BY <1>3, <2>1
  <2>4. QED
    BY <1>1, <1>3, <1>4, <2>2, <2>3 DEF FormInv
<1>6. CASE form.amount # 0 /\ view # NoView
  <2>1. form.amount \in Nat \ {0} /\ view \in Markets
    BY <1>4, <1>6
  <2>2. q = ToFixed(PremiumQuote(view, form.type, form.amount)) /\ q \in Nat
    BY <1>1, <1>4, <1>6, <2>1, QuotesAreNatural, ShownIsNatural
  <2>3. \E type \in {"buy", "sell"}, x \in Nat \ {0}, v \in Markets :
            form'.quotedFor = <<type, x, v>> /\ form'.quote = ToFixed(PremiumQuote(v, type, x))
    BY <1>3, <1>4, <2>1, <2>2
  <2>4. QED
    BY <1>1, <1>2, <1>3, <1>4, <2>2, <2>3 DEF FormInv
<1>7. QED
  BY <1>5, <1>6

LEMMA SwitchKeeps ==
  ASSUME FormInv, SwitchType
  PROVE  FormInv'
<1>1. PICK type \in {"buy", "sell"} :
         form' = [form EXCEPT !.type = type, !.amount = form.quote, !.quote = form.amount,
                              !.quotedFor = <<>>, !.edits = @ + 1]
  BY DEF SwitchType, FormInv
<1>2. form' = [type |-> type, amount |-> form.quote, quote |-> form.amount, quotedFor |-> <<>>,
               edits |-> form.edits + 1]
  BY <1>1 DEF FormInv
<1>3. form'.type = type /\ form'.amount = form.quote /\ form'.quote = form.amount
      /\ form'.quotedFor = <<>> /\ form'.edits = form.edits + 1
  BY <1>2
<1>4. view' = view
  BY DEF SwitchType
<1>5. QED
  BY <1>2, <1>3, <1>4 DEF FormInv

LEMMA ClearedKeeps ==
  ASSUME FormInv, form' = [form EXCEPT !.amount = 0, !.quote = 0], view' \in Markets \cup {NoView}
  PROVE  FormInv'
<1>1. form' = [type |-> form.type, amount |-> 0, quote |-> 0, quotedFor |-> form.quotedFor,
               edits |-> form.edits]
  BY DEF FormInv
<1>2. form'.type = form.type /\ form'.amount = 0 /\ form'.quote = 0
      /\ form'.quotedFor = form.quotedFor /\ form'.edits = form.edits
  BY <1>1
<1>3. form.type \in {"buy", "sell"} /\ ~(form'.quote > 0)
  BY <1>2 DEF FormInv
<1>4. form' = [type |-> form'.type, amount |-> form'.amount, quote |-> form'.quote,
               quotedFor |-> form'.quotedFor, edits |-> form'.edits]
  BY <1>1, <1>2
<1>5. QED
  BY <1>2, <1>3, <1>4 DEF FormInv

(* The steps of a trade.                                                   *)
LEMMA OneQuoteMoves ==
  ASSUME TradesInv, QuotesInv, NEW w \in Widgets, NEW t, trade' = [trade EXCEPT ![w] = t],
         market' \in Markets, sequence' \in Nat, FormInv', Ordered(t), Quoted(w, t)
  PROVE  QuotesInv'
<1>1. trade' = [v \in Widgets |-> IF v = w THEN t ELSE trade[v]]
  BY DEF TradesInv
<1>2. \A v \in Widgets : Ordered(trade'[v]) /\ Quoted(v, trade'[v])
  BY <1>1 DEF QuotesInv
<1>3. \A v \in Widgets : Ordered(trade[v])' /\ Quoted(v, trade[v])'
  BY <1>2 DEF Ordered, Quoted, QuoteOf, ModeOf, ToFixed, MinOutput, BasicQuote, PremiumQuote
<1>4. QED
  BY <1>3 DEF QuotesInv

LEMMA NoTradesMove ==
  ASSUME QuotesInv, trade' = trade, market' \in Markets, sequence' \in Nat, FormInv'
  PROVE  QuotesInv'
BY DEF QuotesInv

(* A trade keeps what it was begun with.                                   *)
LEMMA PhaseMoves ==
  ASSUME TradesInv, QuotesInv, NEW w \in Widgets, NEW t, Goes(w, t),
         t.type = trade[w].type, t.amount = trade[w].amount,
         trade[w].at # "idle", t.at # "idle",
         t.at \in {"preparing", "building"} =>
            /\ trade[w].at \in {"preparing", "building"}
            /\ t.fresh = trade[w].fresh /\ t.view = trade[w].view /\ t.min = trade[w].min,
         market' = market, sequence' \in Nat, FormInv'
  PROVE  QuotesInv'
<1>1. Ordered(trade[w]) /\ Quoted(w, trade[w]) /\ market' \in Markets
  BY DEF QuotesInv
<1>2. Ordered(t)
  BY <1>1 DEF Ordered
<1>3. Quoted(w, t)
  BY <1>1 DEF Quoted
<1>4. QED
  BY <1>1, <1>2, <1>3, OneQuoteMoves DEF Goes

LEMMA KeptFields ==
  ASSUME TradesInv, NEW w \in Widgets, NEW phase
  PROVE  /\ At(w, phase).at = phase /\ At(w, phase).type = trade[w].type
         /\ At(w, phase).amount = trade[w].amount /\ At(w, phase).fresh = trade[w].fresh
         /\ At(w, phase).view = trade[w].view /\ At(w, phase).min = trade[w].min
         /\ DOMAIN At(w, phase) = DOMAIN NoTrade
<1>1. DOMAIN trade[w] = DOMAIN NoTrade
  BY DEF TradesInv, Truthful
<1>2. QED
  BY <1>1 DEF At, NoTrade

(* A widget begins with the output shown.                                  *)
LEMMA BegunQuoted ==
  ASSUME TradesInv, QuotesInv, NEW w, NEW minimum, NEW fresh, Begin(w, minimum, fresh),
         fresh => /\ w # "interface" /\ view \in Markets
                  /\ minimum = MinOutput(ModeOf(w, view), ToFixed(QuoteOf(w, view, form.type, form.amount)))
  PROVE  QuotesInv'
<1>1. PICK t : t = [NoTrade EXCEPT !.at = "preparing", !.type = form.type,
                        !.amount = form.amount, !.min = minimum, !.view = view, !.fresh = fresh]
  OBVIOUS
<1>2. /\ trade' = [trade EXCEPT ![w] = t] /\ w \in Widgets /\ form.amount > 0
      /\ market' = market /\ sequence' = sequence /\ view' = view /\ form' = form
  BY <1>1 DEF Begin
<1>3. /\ t.at = "preparing" /\ t.type = form.type /\ t.amount = form.amount
      /\ t.min = minimum /\ t.view = view
  BY <1>1 DEF NoTrade
<1>4. t.fresh = fresh
  BY <1>1, Zenon DEF NoTrade
<1>5. /\ form.type \in {"buy", "sell"} /\ form.amount \in Nat \ {0} /\ market \in Markets /\ sequence \in Nat
      /\ FormInv /\ view \in Markets \cup {NoView}
  BY <1>2 DEF QuotesInv, FormInv
<1>6. Ordered(t)
  BY <1>3, <1>5 DEF Ordered
<1>7. Quoted(w, t)
  <2>1. SUFFICES ASSUME t.fresh
                 PROVE  /\ w # "interface" /\ t.type \in {"buy", "sell"} /\ t.amount \in Nat \ {0} /\ t.view \in Markets
                        /\ t.min = MinOutput(ModeOf(w, t.view), ToFixed(QuoteOf(w, t.view, t.type, t.amount)))
    BY DEF Quoted
  <2>2. fresh
    BY <1>4, <2>1
  <2>3. QED
    BY <1>3, <1>5, <2>2
<1>8. FormInv'
  BY <1>2, <1>5, FormStays
<1>9. QED
  BY <1>2, <1>5, <1>6, <1>7, <1>8, OneQuoteMoves

LEMMA TradesQuoted ==
  ASSUME TradesInv, QuotesInv, Trades
  PROVE  QuotesInv'
<1>1. FormInv /\ (view # NoView => view \in Markets)
  BY DEF QuotesInv, FormInv
<1>2. ASSUME QuoteIsFresh, view # NoView, form.quote > 0
      PROVE  form.quote = ToFixed(PremiumQuote(view, form.type, form.amount))
  <2>1. form.quotedFor = <<form.type, form.amount, view>>
    BY <1>2 DEF QuoteIsFresh
  <2>2. form.quotedFor # <<>>
    BY <2>1
  <2>3. PICK type \in {"buy", "sell"}, x \in Nat \ {0}, v \in Markets :
             form.quotedFor = <<type, x, v>> /\ form.quote = ToFixed(PremiumQuote(v, type, x))
    BY <1>1, <1>2, <2>2 DEF FormInv
  <2>4. type = form.type /\ x = form.amount /\ v = view
    BY <2>1, <2>3
  <2>5. QED
    BY <2>3, <2>4
<1>3. CASE HandleTrade
  <2>1. /\ view # NoView /\ form.quote > 0
        /\ Begin("premium", MinOutput(view.mode, form.quote), QuoteIsFresh)
    BY <1>3 DEF HandleTrade
  <2>2. QuoteIsFresh => /\ view \in Markets
            /\ MinOutput(view.mode, form.quote)
                 = MinOutput(ModeOf("premium", view), ToFixed(QuoteOf("premium", view, form.type, form.amount)))
    BY <1>1, <1>2, <2>1 DEF ModeOf, QuoteOf
  <2>3. QED
    BY <2>1, <2>2, BegunQuoted
<1>4. CASE ExecuteTrade
  <2>1. /\ view # NoView /\ form.quote > 0
        /\ Begin("hook", MinOutput("bonding", form.quote), QuoteIsFresh)
    BY <1>4 DEF ExecuteTrade
  <2>2. QuoteIsFresh => /\ view \in Markets
            /\ MinOutput("bonding", form.quote)
                 = MinOutput(ModeOf("hook", view), ToFixed(QuoteOf("hook", view, form.type, form.amount)))
    BY <1>1, <1>2, <2>1 DEF ModeOf, QuoteOf
  <2>3. QED
    BY <2>1, <2>2, BegunQuoted
<1>5. CASE HandleBasicTrade
  <2>1. /\ view # NoView
        /\ Begin("basic", MinOutput("bonding", ToFixed(BasicQuote(view, form.type, form.amount))), TRUE)
    BY <1>5 DEF HandleBasicTrade
  <2>2. /\ view \in Markets
        /\ MinOutput("bonding", ToFixed(BasicQuote(view, form.type, form.amount)))
             = MinOutput(ModeOf("basic", view), ToFixed(QuoteOf("basic", view, form.type, form.amount)))
    BY <1>1, <2>1 DEF ModeOf, QuoteOf
  <2>3. QED
    BY <2>1, <2>2, BegunQuoted
<1>6. CASE HandleInterfaceTrade
  <2>1. Begin("interface", 0, FALSE)
    BY <1>6 DEF HandleInterfaceTrade
  <2>2. QED
    BY <2>1, BegunQuoted
<1>7. QED
  BY <1>3, <1>4, <1>5, <1>6 DEF Trades

LEMMA WidgetQuoted ==
  ASSUME TradesInv, QuotesInv, NEW w \in Widgets,
         EnsureTrustline(w) \/ Simulate(w) \/ Sign(w) \/ Submit(w) \/ Poll(w) \/ GiveUp(w)
  PROVE  QuotesInv'
<1>1. /\ market' = market /\ view' = view /\ form' = form
      /\ sequence' \in {sequence, sequence + 1} /\ trade[w].at # "idle"
  BY DEF EnsureTrustline, Simulate, Sign, Submit, Poll, GiveUp
<1>2. sequence' \in Nat /\ FormInv'
  <2>1. sequence \in Nat /\ FormInv /\ view \in Markets \cup {NoView}
    BY DEF QuotesInv, FormInv
  <2>2. QED
    BY <1>1, <2>1, FormStays
<1>3. DOMAIN trade[w] = DOMAIN NoTrade
  BY DEF TradesInv, Truthful
<1>4. ASSUME NEW phase, Goes(w, At(w, phase)), phase # "idle",
             phase \in {"preparing", "building"} => trade[w].at \in {"preparing", "building"}
      PROVE  QuotesInv'
  BY <1>1, <1>2, <1>4, KeptFields, PhaseMoves
<1>5. CASE EnsureTrustline(w)
  <2>1. \E phase \in {"building", "error"} : Goes(w, At(w, phase))
    BY <1>5 DEF EnsureTrustline
  <2>2. trade[w].at = "preparing"
    BY <1>5 DEF EnsureTrustline
  <2>3. QED
    BY <1>4, <2>1, <2>2
<1>6. CASE Simulate(w)
  <2>1. PICK t : t = [trade[w] EXCEPT !.built = clock, !.seq = sequence + 1, !.at = "signing",
                     !.min = IF w = "interface" THEN ServiceMinimum(trade[w]) ELSE @]
    OBVIOUS
  <2>2. Goes(w, t) \/ Goes(w, At(w, "error"))
    BY <1>6, <2>1 DEF Simulate
  <2>3. t.at = "signing" /\ t.type = trade[w].type /\ t.amount = trade[w].amount
    BY <1>3, <2>1 DEF NoTrade
  <2>4. QED
    BY <1>1, <1>2, <1>4, <2>2, <2>3, PhaseMoves
<1>7. CASE Sign(w) \/ GiveUp(w)
  <2>1. \E phase \in {"submitting", "error"} : Goes(w, At(w, phase))
    BY <1>7 DEF Sign, GiveUp
  <2>2. QED
    BY <1>4, <2>1
<1>8. ASSUME NEW blind, Goes(w, [At(w, "error") EXCEPT !.blind = blind])
      PROVE  QuotesInv'
  <2>1. PICK t : t = [At(w, "error") EXCEPT !.blind = blind]
    OBVIOUS
  <2>2. t.at = "error" /\ t.type = trade[w].type /\ t.amount = trade[w].amount
    BY <2>1, KeptFields DEF NoTrade
  <2>3. QED
    BY <1>1, <1>2, <1>8, <2>1, <2>2, PhaseMoves
<1>9. CASE Submit(w)
  <2>1. \/ \E phase \in {"confirming", "error"} : Goes(w, At(w, phase))
        \/ Goes(w, [At(w, "error") EXCEPT !.blind = TRUE])
    BY <1>9 DEF Submit
  <2>2. QED
    BY <1>4, <1>8, <2>1
<1>10. CASE Poll(w)
  <2>1. trade[w].at = "confirming"
    BY <1>10 DEF Poll
  <2>2. ASSUME NEW blind, Goes(w, [trade[w] EXCEPT !.polls = @ + 1, !.polledAt = clock, !.blind = blind])
        PROVE  QuotesInv'
    <3>1. PICK t : t = [trade[w] EXCEPT !.polls = @ + 1, !.polledAt = clock, !.blind = blind]
      OBVIOUS
    <3>2. t.at = "confirming" /\ t.type = trade[w].type /\ t.amount = trade[w].amount
      BY <1>3, <2>1, <3>1 DEF NoTrade
    <3>3. QED
      BY <1>1, <1>2, <2>2, <3>1, <3>2, PhaseMoves
  <2>3. \/ \E phase \in {"success", "error"} : Goes(w, At(w, phase))
        \/ \E blind : Goes(w, [trade[w] EXCEPT !.polls = @ + 1, !.polledAt = clock, !.blind = blind])
        \/ Goes(w, [At(w, "error") EXCEPT !.blind = TRUE])
    BY <1>10 DEF Poll
  <2>4. QED
    BY <1>4, <1>8, <2>2, <2>3
<1>11. QED
  BY <1>5, <1>6, <1>7, <1>9, <1>10

LEMMA NoTradeIsQuoted ==
  ASSUME NEW w
  PROVE  Ordered(NoTrade) /\ Quoted(w, NoTrade)
<1>1. NoTrade.at = "idle" /\ NoTrade.type = "buy" /\ NoTrade.amount = 0 /\ NoTrade.seq = 0
  BY DEF NoTrade
<1>2. QED
  BY <1>1 DEF Ordered, Quoted

LEMMA SettleQuoted ==
  ASSUME TradesInv, QuotesInv, NEW w \in Widgets, Settle(w)
  PROVE  QuotesInv'
<1>1. trade' = [trade EXCEPT ![w] = NoTrade] /\ market' = market /\ sequence' = sequence
  BY DEF Settle, Goes
<1>2. FormInv /\ market \in Markets /\ sequence \in Nat /\ view \in Markets \cup {NoView}
  BY DEF QuotesInv, FormInv
<1>3. FormInv'
  <2>1. \/ form' = [form EXCEPT !.amount = 0, !.quote = 0] /\ view' \in {market, NoView}
        \/ form' = form /\ view' = view
    BY DEF Settle
  <2>2. QED
    BY <1>2, <2>1, FormStays, ClearedKeeps
<1>4. QED
  BY <1>1, <1>2, <1>3, NoTradeIsQuoted, OneQuoteMoves

LEMMA IncludeQuoted ==
  ASSUME QuotesInv, NEW w \in Widgets, Include(w)
  PROVE  QuotesInv'
<1>1. /\ trade' = trade /\ sequence' = sequence + 1 /\ form' = form /\ view' = view
      /\ market' \in {market, After(market, trade[w].type, trade[w].amount)}
      /\ trade[w].seq = sequence + 1
  BY DEF Include, CanExecute
<1>2. /\ FormInv /\ market \in Markets /\ sequence \in Nat /\ view \in Markets \cup {NoView}
      /\ Ordered(trade[w])
  BY DEF QuotesInv, FormInv
<1>3. trade[w].type \in {"buy", "sell"} /\ trade[w].amount \in Nat \ {0}
  BY <1>1, <1>2 DEF Ordered
<1>4. market' \in Markets
  BY <1>1, <1>2, <1>3, MarketAfterTrade
<1>5. QED
  BY <1>1, <1>2, <1>4, FormStays, NoTradesMove

LEMMA QuotesStep ==
  ASSUME TradesInv, QuotesInv, [TradeNext]_tradeVars
  PROVE  QuotesInv'
<1>1. FormInv /\ market \in Markets /\ sequence \in Nat /\ view \in Markets \cup {NoView}
  BY DEF QuotesInv, FormInv
<1>2. ASSUME NEW type \in {"buy", "sell"}, NEW x \in TradeAmounts, ChangeInput(type, x)
      PROVE  QuotesInv'
  <2>1. x \in Nat
    BY TradeAssumption
  <2>2. trade' = trade /\ market' = market /\ sequence' = sequence
    BY <1>2 DEF ChangeInput
  <2>3. QED
    BY <1>1, <1>2, <2>1, <2>2, InputChangeKeeps, NoTradesMove
<1>3. CASE LoadTradingContext
  <2>1. /\ trade' = trade /\ market' = market /\ sequence' = sequence /\ form' = form
        /\ view' \in {market, NoView}
    BY <1>3 DEF LoadTradingContext
  <2>2. QED
    BY <1>1, <2>1, FormStays, NoTradesMove
<1>4. CASE CalculateOutput
  <2>1. trade' = trade /\ market' = market /\ sequence' = sequence
    BY <1>4 DEF CalculateOutput
  <2>2. QED
    BY <1>1, <1>4, <2>1, OutputKeeps, NoTradesMove
<1>5. CASE SwitchType
  <2>1. trade' = trade /\ market' = market /\ sequence' = sequence
    BY <1>5 DEF SwitchType
  <2>2. QED
    BY <1>1, <1>5, <2>1, SwitchKeeps, NoTradesMove
<1>6. ASSUME NEW type \in {"buy", "sell"}, NEW x \in OtherAmounts, OtherTrade(type, x)
      PROVE  QuotesInv'
  <2>1. /\ trade' = trade /\ sequence' = sequence /\ form' = form /\ view' = view
        /\ market' = After(market, type, x)
    BY <1>6 DEF OtherTrade
  <2>2. x \in Nat \ {0}
    BY TradeAssumption
  <2>3. market' \in Markets
    BY <1>1, <2>1, <2>2, MarketAfterTrade
  <2>4. QED
    BY <1>1, <2>1, <2>3, FormStays, NoTradesMove
<1>7. CASE TokenGraduates
  <2>1. /\ trade' = trade /\ sequence' = sequence /\ form' = form /\ view' = view
        /\ market' = FirstPool
    BY <1>7 DEF TokenGraduates
  <2>2. FirstPool \in Markets
    BY TradeAssumption DEF Markets
  <2>3. QED
    BY <1>1, <2>1, <2>2, FormStays, NoTradesMove
<1>8. CASE Tick \/ UNCHANGED tradeVars
  <2>1. /\ trade' = trade /\ sequence' = sequence /\ form' = form /\ view' = view
        /\ market' = market
    BY <1>8 DEF Tick, tradeVars
  <2>2. QED
    BY <1>1, <2>1, FormStays, NoTradesMove
<1>9. QED
  BY <1>2, <1>3, <1>4, <1>5, <1>6, <1>7, <1>8, TradesQuoted, WidgetQuoted, SettleQuoted, IncludeQuoted
     DEF TradeNext

LEMMA QuotesStart ==
  ASSUME TradeInit
  PROVE  QuotesInv
<1>1. market \in Markets
  BY TradeAssumption DEF TradeInit, Markets
<1>2. FormInv
  BY DEF TradeInit, FormInv
<1>3. \A w \in Widgets : Ordered(trade[w]) /\ Quoted(w, trade[w])
  BY NoTradeIsQuoted DEF TradeInit
<1>4. QED
  BY <1>1, <1>2, <1>3 DEF TradeInit, QuotesInv

(* What a widget shows is what the contract pays: a trade whose output was *)
(* computed for its inputs and for the reserves of now meets its minimum,  *)
(* for every size of the reserves and every amount the factory takes, on   *)
(* the curve and on the AMM pair, in all three widgets that quote.         *)
THEOREM QuotedTradesAreTaken == TradeSpec => []QuotedTradesAreAccepted
<1>1. TradeInit => TradesInv /\ QuotesInv
  BY TradeStart, QuotesStart
<1>2. TradesInv /\ QuotesInv /\ [TradeNext]_tradeVars => TradesInv' /\ QuotesInv'
  BY TradeStep, QuotesStep
<1>3. QuotesInv => QuotedTradesAreAccepted
  <2>1. SUFFICES ASSUME QuotesInv, NEW w \in Widgets \ {"interface"},
                        trade[w].at \in {"preparing", "building"}, trade[w].fresh, trade[w].view = market,
                        trade[w].view.mode = "bonding" \/ w = "premium",
                        LargeEnough(market, trade[w].type, trade[w].amount), trade[w].min >= MeaningfulMin
                 PROVE  Received(market, trade[w].type, trade[w].amount) >= trade[w].min
    BY DEF QuotedTradesAreAccepted
  <2>2. Quoted(w, trade[w]) /\ market \in Markets
    BY <2>1 DEF QuotesInv
  <2>3. QED
    BY <2>1, <2>2, QuotedMeetsMinimum
<1>4. QED
  BY <1>1, <1>2, <1>3, PTL DEF TradeSpec

(***************************************************************************)
(* The launch of a token.  LaunchTypes: shapes of the records.  ChainInv:  *)
(* the factory's symbols are unique, and a launch that was executed is in  *)
(* the list of the creator, at its end while the account did nothing since.*)
(* PageInv: the transaction the page polls for, if the network took it, is *)
(* that of the launch at work; what is past the try of now was never sent. *)
(* LeftInv: a launch whose page was left is one of an earlier try, or the  *)
(* page has begun none since.                                              *)
(***************************************************************************)
Forms == [symbol : Symbols \cup {NoSymbol}, image : Images \cup {NoImage}]
Pictures == Images \cup {NoImage}

LaunchOK(l) == /\ DOMAIN l = DOMAIN NoLaunch /\ l.form \in Forms
               /\ l.n \in 0 .. TryBound /\ l.seq \in Nat
SentOK(x) == /\ DOMAIN x = DOMAIN NotSent /\ x.form \in Forms /\ x.seq \in Nat
             /\ x.at \in {"none", "pending", "executed", "refused"}

FieldTypes ==
    /\ fields \in Forms /\ storedForm \in Forms
    /\ selected \in [Selections -> [image : Pictures, at : {"none", "reading", "uploading"}]]
LaunchTypes ==
    /\ createdTokens \in Seq(Forms) /\ creatorSeq \in Nat /\ LaunchOK(launch)
    /\ launched = [n \in 1 .. TryBound |-> launched[n]]
    /\ \A n \in 1 .. TryBound : SentOK(launched[n])

SymbolsDiffer ==
    \A i, j \in DOMAIN createdTokens : createdTokens[i].symbol = createdTokens[j].symbol => i = j
Listed(x) ==
    /\ x.seq <= creatorSeq
    /\ \E i \in DOMAIN createdTokens : /\ createdTokens[i] = x.form
                                       /\ x.seq = creatorSeq => i = Len(createdTokens)
LaunchesInv ==
    /\ SymbolsDiffer
    /\ \A n \in 1 .. TryBound : launched[n].at = "executed" => Listed(launched[n])

PageInv ==
    /\ \A m \in 1 .. TryBound : m > launch.n => launched[m].at = "none"
    /\ formState \in {"building", "signing", "submitting"} =>
          launch.n \in 1 .. TryBound /\ launched[launch.n].at = "none"
    /\ formState \in {"confirming", "success"} =>
          /\ launch.n \in 1 .. TryBound
          /\ launched[launch.n].at # "none" =>
                launched[launch.n].form = launch.form /\ launched[launch.n].seq = launch.seq
    /\ formState = "success" => launched[launch.n].at = "executed"

LeftOK(x) == DOMAIN x = DOMAIN NotSent /\ x.form \in Forms /\ x.seq \in Nat
LeftInv ==
    /\ left = [n \in 1 .. TryBound |-> left[n]]
    /\ \A n \in 1 .. TryBound :
          /\ LeftOK(left[n])
          /\ left[n].at # "none" => n <= launch.n /\ (n = launch.n => formState = "idle")

CreateInv == /\ FieldTypes /\ LaunchTypes /\ LaunchesInv /\ LeftInv
             /\ PageInv /\ ShownTokenIsTheLaunched

(* Neither the factory nor the launch at work is touched.                  *)
LEMMA LaunchUntouched ==
  ASSUME CreateInv, FieldTypes',
         UNCHANGED <<createdTokens, creatorSeq, launch, launched, left, formState>>
  PROVE  CreateInv'
BY DEF CreateInv, LaunchTypes, LaunchesInv, SymbolsDiffer, Listed, PageInv, LeftInv,
       ShownTokenIsTheLaunched, AddressShown

(* No launch is at work: the form is there again, or the page is left.     *)
LEMMA LaunchDropped ==
  ASSUME CreateInv, FieldTypes', LeftInv', formState' = "idle" \/ formState' = "error",
         UNCHANGED <<createdTokens, creatorSeq, launched>>,
         LaunchOK(launch)', launch'.n = launch.n
  PROVE  CreateInv'
<1>1. LaunchTypes' /\ LaunchesInv'
  BY DEF CreateInv, LaunchTypes, LaunchesInv, SymbolsDiffer, Listed
<1>2. PageInv' /\ ShownTokenIsTheLaunched'
  BY DEF CreateInv, LaunchTypes, PageInv, ShownTokenIsTheLaunched, AddressShown
<1>3. QED
  BY <1>1, <1>2 DEF CreateInv

LEMMA EmptyFormIsForm == EmptyForm \in Forms /\ NoFile \in [image : Pictures, at : {"none", "reading", "uploading"}]
BY DEF EmptyForm, Forms, NoFile, Pictures

LEMMA CreateStart ==
  ASSUME CreateInit
  PROVE  CreateInv
<1>1. FieldTypes
  BY EmptyFormIsForm DEF CreateInit, FieldTypes, NoFile, Pictures
<1>2. LaunchTypes
  BY EmptyFormIsForm, CreationAssumption DEF CreateInit, LaunchTypes, LaunchOK, SentOK, NoLaunch, NotSent
<1>3. LaunchesInv /\ PageInv /\ ShownTokenIsTheLaunched
  BY CreationAssumption DEF CreateInit, LaunchesInv, SymbolsDiffer, PageInv, ShownTokenIsTheLaunched, AddressShown,
                            NotSent, NoLaunch
<1>4. LeftInv
  BY EmptyFormIsForm DEF CreateInit, LeftInv, LeftOK, NotSent
<1>5. QED
  BY <1>1, <1>2, <1>3, <1>4 DEF CreateInv

(* The fields stay forms.                                                  *)
LEMMA FieldsStay ==
  ASSUME FieldTypes, UNCHANGED <<fields, storedForm, selected>>
  PROVE  FieldTypes'
BY DEF FieldTypes

LEMMA FilesEmptied ==
  ASSUME fields' \in Forms, storedForm' \in Forms, selected' = [s \in Selections |-> NoFile]
  PROVE  FieldTypes'
BY EmptyFormIsForm DEF FieldTypes, NoFile, Pictures

LEMMA OneFileMoves ==
  ASSUME FieldTypes, fields' \in Forms, storedForm' \in Forms, NEW s \in Selections,
         NEW x \in [image : Pictures, at : {"none", "reading", "uploading"}],
         selected' = [selected EXCEPT ![s] = x]
  PROVE  FieldTypes'
BY DEF FieldTypes

(* What the user and the upload do to the form keeps the launch.           *)
LEMMA EditsKeep ==
  ASSUME CreateInv,
         \/ RestoreForm \/ HandleRemove
         \/ \E s \in Symbols : EditField(s)
         \/ \E s \in Selections : \/ \E i \in Images : HandleFileSelect(s, i)
                                  \/ ValidateImage(s) \/ UploadToIPFS(s) \/ UploadFails(s)
  PROVE  CreateInv'
<1>0. FieldTypes
  BY DEF CreateInv
<1>1. CASE RestoreForm
  BY <1>0, <1>1, LaunchUntouched DEF RestoreForm, FieldTypes, chainVars
<1>2. CASE HandleRemove
  <2>1. [fields EXCEPT !.image = NoImage] \in Forms
    BY <1>0 DEF FieldTypes, Forms
  <2>2. FieldTypes'
    BY <1>0, <1>2, <2>1 DEF HandleRemove, SaveForm, FieldTypes
  <2>3. QED
    BY <1>2, <2>2, LaunchUntouched DEF HandleRemove, chainVars
<1>3. ASSUME NEW s \in Symbols, EditField(s)
      PROVE  CreateInv'
  <2>1. [fields EXCEPT !.symbol = s] \in Forms
    BY <1>0 DEF FieldTypes, Forms
  <2>2. FieldTypes'
    BY <1>0, <1>3, <2>1 DEF EditField, SaveForm, FieldTypes, imageVars
  <2>3. QED
    BY <1>3, <2>2, LaunchUntouched DEF EditField, chainVars
<1>4. ASSUME NEW s \in Selections, NEW i \in Images, HandleFileSelect(s, i)
      PROVE  CreateInv'
  <2>1. [image |-> i, at |-> "reading"] \in [image : Pictures, at : {"none", "reading", "uploading"}]
    BY DEF Pictures
  <2>2. FieldTypes'
    BY <1>0, <1>4, <2>1, OneFileMoves DEF HandleFileSelect, FieldTypes
  <2>3. QED
    BY <1>4, <2>2, LaunchUntouched DEF HandleFileSelect, chainVars
<1>5. ASSUME NEW s \in Selections, ValidateImage(s)
      PROVE  CreateInv'
  <2>1. PICK x : /\ x \in [image : Pictures, at : {"none", "reading", "uploading"}]
                 /\ selected' = [selected EXCEPT ![s] = x]
    <3>1. [selected[s] EXCEPT !.at = "uploading"] \in [image : Pictures, at : {"none", "reading", "uploading"}]
      BY <1>0 DEF FieldTypes
    <3>2. \/ selected' = [selected EXCEPT ![s] = NoFile]
          \/ selected' = [selected EXCEPT ![s] = [selected[s] EXCEPT !.at = "uploading"]]
      BY <1>5 DEF ValidateImage
    <3>3. QED
      BY <3>1, <3>2, EmptyFormIsForm
  <2>2. FieldTypes'
    BY <1>0, <1>5, <2>1, OneFileMoves DEF ValidateImage, FieldTypes
  <2>3. QED
    BY <1>5, <2>2, LaunchUntouched DEF ValidateImage, chainVars
<1>6. ASSUME NEW s \in Selections, NEW image \in Pictures, UploadEnds(s, image)
      PROVE  CreateInv'
  <2>1. [fields EXCEPT !.image = image] \in Forms
    BY <1>0 DEF FieldTypes, Forms, Pictures
  <2>2. FieldTypes'
    BY <1>0, <1>6, <2>1, OneFileMoves, EmptyFormIsForm DEF UploadEnds, SaveForm
  <2>3. QED
    BY <1>6, <2>2, LaunchUntouched DEF UploadEnds, chainVars
<1>7. ASSUME NEW s \in Selections, UploadToIPFS(s) \/ UploadFails(s)
      PROVE  CreateInv'
  <2>1. PICK image \in Pictures : UploadEnds(s, image)
    BY <1>0, <1>7 DEF UploadToIPFS, UploadFails, FieldTypes, Pictures
  <2>2. QED
    BY <1>6, <2>1
<1>8. QED
  BY <1>1, <1>2, <1>3, <1>4, <1>5, <1>7

(* A launch goes on without its page, with what it has.                    *)
LEMMA OneLeft ==
  ASSUME LeftInv, NEW n \in 1 .. TryBound, NEW l, LeftOK(l)
  PROVE  /\ [left EXCEPT ![n] = l] = [m \in 1 .. TryBound |-> [left EXCEPT ![n] = l][m]]
         /\ [left EXCEPT ![n] = l][n] = l
         /\ \A m \in 1 .. TryBound : m # n => [left EXCEPT ![n] = l][m] = left[m]
         /\ \A m \in 1 .. TryBound : LeftOK([left EXCEPT ![n] = l][m])
BY DEF LeftInv

(* LeftTries(tries): launches without a page that the state may leave.     *)
LeftTries(tries) ==
    /\ tries = [n \in 1 .. TryBound |-> tries[n]]
    /\ \A n \in 1 .. TryBound : /\ LeftOK(tries[n])
                                /\ tries[n].at # "none" => n <= launch.n

LEMMA NotSentIsLeft == LeftOK(NotSent)
BY EmptyFormIsForm DEF LeftOK, NotSent

LEMMA AbandonedIsLeft ==
  ASSUME CreateInv, NEW tries, LeftTries(tries)
  PROVE  LeftTries(Abandoned(tries))
<1>1. LaunchTypes /\ PageInv
  BY DEF CreateInv
<1>2. CASE IsProcessing \/ formState = "success"
  <2>1. PICK x : x = [at |-> formState, form |-> launch.form, built |-> launch.built, seq |-> launch.seq]
    OBVIOUS
  <2>2. LeftOK(x)
    BY <1>1, <2>1 DEF LeftOK, NotSent, LaunchTypes, LaunchOK
  <2>3. Abandoned(tries) = [tries EXCEPT ![launch.n] = x]
    BY <1>2, <2>1 DEF Abandoned
  <2>4. launch.n \in 1 .. TryBound
    BY <1>1, <1>2 DEF PageInv, IsProcessing
  <2>5. \A n \in 1 .. TryBound : [tries EXCEPT ![launch.n] = x][n] = IF n = launch.n THEN x ELSE tries[n]
    BY <2>4 DEF LeftTries
  <2>6. ASSUME NEW n \in 1 .. TryBound
        PROVE  /\ LeftOK([tries EXCEPT ![launch.n] = x][n])
               /\ [tries EXCEPT ![launch.n] = x][n].at # "none" => n <= launch.n
    <3>1. CASE n = launch.n
      BY <2>2, <2>4, <2>5, <3>1
    <3>2. CASE n # launch.n
      BY <2>5, <3>2 DEF LeftTries
    <3>3. QED
      BY <3>1, <3>2
  <2>7. [tries EXCEPT ![launch.n] = x] = [n \in 1 .. TryBound |-> [tries EXCEPT ![launch.n] = x][n]]
    BY DEF LeftTries
  <2>8. QED
    BY <2>3, <2>6, <2>7, Zenon DEF LeftTries
<1>3. QED
  BY <1>2 DEF Abandoned

(* Leaving the page, an error's timer and the way to the list of tokens.   *)
LEMMA GoneKeeps ==
  ASSUME CreateInv, PageIsGone, storedForm' \in Forms, LeftTries(left'),
         UNCHANGED <<createdTokens, creatorSeq, launched>>
  PROVE  CreateInv'
<1>1. FieldTypes /\ LaunchOK(launch)
  BY DEF CreateInv, LaunchTypes
<1>2. LaunchOK([NoLaunch EXCEPT !.n = launch.n]) /\ [NoLaunch EXCEPT !.n = launch.n].n = launch.n
  BY <1>1, EmptyFormIsForm DEF LaunchOK, NoLaunch
<1>3. FieldTypes'
  BY FilesEmptied, EmptyFormIsForm DEF PageIsGone
<1>4. LaunchOK(launch)' /\ launch'.n = launch.n /\ formState' = "idle"
  BY <1>2 DEF PageIsGone, LaunchOK
<1>5. LeftInv'
  <2>1. left' = [n \in 1 .. TryBound |-> left'[n]]
    BY Zenon DEF LeftTries
  <2>2. \A n \in 1 .. TryBound : LeftOK(left'[n]) /\ (left'[n].at # "none" => n <= launch.n)
    BY Zenon DEF LeftTries
  <2>3. ASSUME NEW n \in 1 .. TryBound
        PROVE  left'[n].at # "none" => n <= launch'.n
    BY <1>4, <2>2
  <2>4. QED
    BY <1>4, <2>1, <2>2, <2>3, Zenon DEF LeftInv, LeftOK
<1>6. QED
  BY <1>3, <1>4, <1>5, LaunchDropped

LEMMA LeavesKeep ==
  ASSUME CreateInv, NEW tries, LeftTries(tries), PageIsLeft(tries)
  PROVE  CreateInv'
<1>1. storedForm' \in Forms
  BY EmptyFormIsForm DEF PageIsLeft, CreateInv, FieldTypes
<1>2. LeftTries(left')
  BY AbandonedIsLeft DEF PageIsLeft
<1>3. QED
  BY <1>1, <1>2, GoneKeeps DEF PageIsLeft, chainVars

LEMMA DropsKeep ==
  ASSUME CreateInv, LeaveCreatePage \/ ReloadCreatePage \/ RedirectToExplore \/ ResetAfterError
  PROVE  CreateInv'
<1>1. FieldTypes /\ LaunchOK(launch) /\ LeftInv
  BY DEF CreateInv, LaunchTypes
<1>2. LeftTries(left)
  BY <1>1 DEF LeftInv, LeftTries
<1>3. CASE LeaveCreatePage
  BY <1>2, <1>3, LeavesKeep DEF LeaveCreatePage
<1>4. CASE ReloadCreatePage
  <2>1. LeftTries(left')
    BY <1>4, NotSentIsLeft DEF ReloadCreatePage, LeftTries, NotSent
  <2>2. QED
    BY <1>1, <1>4, <2>1, GoneKeeps DEF ReloadCreatePage, FieldTypes, chainVars
<1>5. CASE RedirectToExplore
  <2>1. storedForm' \in Forms /\ UNCHANGED <<createdTokens, creatorSeq, launched, left>> /\ PageIsGone
    BY <1>5, EmptyFormIsForm DEF RedirectToExplore, chainVars
  <2>2. QED
    BY <1>2, <2>1, GoneKeeps
<1>6. CASE ResetAfterError
  <2>1. UNCHANGED <<createdTokens, creatorSeq, fields, storedForm, selected, launch, launched, left>>
        /\ formState' = "idle"
    BY <1>6 DEF ResetAfterError, chainVars, imageVars
  <2>2. FieldTypes' /\ LaunchOK(launch)' /\ LeftInv'
    BY <1>1, <2>1, FieldsStay DEF LaunchOK, LeftInv, LeftOK
  <2>3. QED
    BY <2>1, <2>2, LaunchDropped
<1>7. QED
  BY <1>3, <1>4, <1>5, <1>6

(* What a launch without its page does to the form of the session and to   *)
(* the transactions under way.                                             *)
LEMMA LeftSteps ==
  ASSUME CreateInv, NEW n \in 1 .. TryBound, NEW l, LeftMoves(n, l), LeftOK(l),
         left[n].at # "none", storedForm' \in Forms,
         NEW x, SentOK(x), x.at = "pending",
         launched' = launched \/ launched' = [launched EXCEPT ![n] = x]
  PROVE  CreateInv'
<1>1. /\ FieldTypes /\ LaunchTypes /\ LaunchesInv /\ LeftInv /\ PageInv
      /\ ShownTokenIsTheLaunched
      /\ UNCHANGED <<createdTokens, creatorSeq, fields, selected, launch, formState>>
      /\ left' = [left EXCEPT ![n] = l]
  BY DEF CreateInv, LeftMoves, chainVars, imageVars
<1>2. n <= launch.n /\ (n = launch.n => formState = "idle")
  BY <1>1 DEF LeftInv
<1>3. FieldTypes'
  BY <1>1 DEF FieldTypes
<1>4. LeftInv'
  <2>1. \A m \in 1 .. TryBound : LeftOK(left'[m]) /\ (m # n => left'[m] = left[m])
    BY <1>1, OneLeft
  <2>2. left' = [m \in 1 .. TryBound |-> left'[m]]
    BY <1>1, OneLeft
  <2>3. QED
    BY <1>1, <1>2, <2>1, <2>2 DEF LeftInv, LeftOK
<1>5. \A m \in 1 .. TryBound : launched'[m] = launched[m] \/ (m = n /\ launched'[m] = x)
  <2>1. CASE launched' = launched
    BY <2>1
  <2>2. CASE launched' = [launched EXCEPT ![n] = x]
    <3>1. launched = [m \in 1 .. TryBound |-> launched[m]]
      BY <1>1 DEF LaunchTypes
    <3>2. QED
      BY <2>2, <3>1
  <2>3. QED
    BY <2>1, <2>2
<1>6. LaunchTypes'
  <2>1. launched' = [m \in 1 .. TryBound |-> launched'[m]]
    BY <1>1 DEF LaunchTypes
  <2>2. \A m \in 1 .. TryBound : SentOK(launched'[m])
    BY <1>1, <1>5 DEF LaunchTypes
  <2>3. QED
    BY <1>1, <2>1, <2>2 DEF LaunchTypes, LaunchOK, SentOK
<1>7. LaunchesInv'
  BY <1>1, <1>5 DEF LaunchesInv, SymbolsDiffer, Listed
<1>8. PageInv'
  <2>1. launch.n \in 0 .. TryBound /\ launch' = launch /\ formState' = formState
    BY <1>1 DEF LaunchTypes, LaunchOK
  <2>2. ASSUME NEW m \in 1 .. TryBound, m > launch.n \/ (m = launch.n /\ formState # "idle")
        PROVE  launched'[m] = launched[m]
    BY <1>2, <1>5, <2>1, <2>2, CreationAssumption
  <2>3. ASSUME NEW m \in 1 .. TryBound, m > launch'.n
        PROVE  launched'[m].at = "none"
    <3>1. m > launch.n /\ launched[m].at = "none"
      BY <1>1, <2>1, <2>3 DEF PageInv
    <3>2. QED
      BY <2>2, <3>1
  <2>4. formState # "idle" /\ launch.n \in 1 .. TryBound => launched'[launch.n] = launched[launch.n]
    BY <2>2
  <2>5. QED
    BY <1>1, <2>1, <2>3, <2>4, Zenon DEF PageInv
<1>9. ShownTokenIsTheLaunched'
  BY <1>1 DEF ShownTokenIsTheLaunched, AddressShown
<1>10. QED
  BY <1>3, <1>4, <1>6, <1>7, <1>8, <1>9 DEF CreateInv

LEMMA LeftKeeps ==
  ASSUME CreateInv, NEW n \in 1 .. TryBound,
         \/ LeftBuilds(n) \/ LeftSubmits(n) \/ LeftConfirms(n)
         \/ LeftClearsForm(n) \/ LeftRedirects(n)
  PROVE  CreateInv'
<1>1. FieldTypes /\ LaunchTypes /\ LeftInv /\ LeftOK(left[n])
  BY DEF CreateInv, LeftInv
<1>2. PICK x : x = LaunchTransaction(left[n])
  OBVIOUS
<1>3. SentOK(x) /\ x.at = "pending"
  BY <1>1, <1>2 DEF LaunchTransaction, LeftOK, SentOK, NotSent
<1>4. CASE LeftRedirects(n)
  <2>1. PICK tries : tries = [left EXCEPT ![n] = NotSent] /\ PageIsLeft(tries)
    BY <1>4 DEF LeftRedirects
  <2>2. LeftTries(tries)
    BY <1>1, <2>1, NotSentIsLeft, OneLeft DEF LeftTries, LeftInv, NotSent
  <2>3. QED
    BY <2>1, <2>2, LeavesKeep
<1>5. CASE LeftBuilds(n) \/ LeftSubmits(n) \/ LeftConfirms(n) \/ LeftClearsForm(n)
  <2>1. PICK l : LeftMoves(n, l) /\ LeftOK(l)
    <3>1. \A at : LeftOK([left[n] EXCEPT !.at = at])
      BY <1>1 DEF LeftOK, NotSent
    <3>2. LeftOK([left[n] EXCEPT !.at = "signing", !.built = createClock, !.seq = creatorSeq + 1])
      BY <1>1 DEF LeftOK, NotSent, LaunchTypes
    <3>3. QED
      BY <1>5, <3>1, <3>2, NotSentIsLeft DEF LeftBuilds, LeftSubmits, LeftConfirms, LeftClearsForm
  <2>2. left[n].at # "none" /\ storedForm' \in Forms
    BY <1>1, <1>5, EmptyFormIsForm
       DEF LeftBuilds, LeftSubmits, LeftConfirms, LeftClearsForm, FieldTypes
  <2>3. launched' = launched \/ launched' = [launched EXCEPT ![n] = x]
    BY <1>2, <1>5 DEF LeftBuilds, LeftSubmits, LeftConfirms, LeftClearsForm
  <2>4. QED
    BY <1>3, <2>1, <2>2, <2>3, LeftSteps
<1>6. QED
  BY <1>4, <1>5

(* The try is counted, and nothing was sent for it yet.                    *)
LEMMA ButtonKeeps ==
  ASSUME CreateInv, HandleCreateToken
  PROVE  CreateInv'
<1>1. /\ LaunchTypes /\ FieldTypes /\ LaunchesInv /\ PageInv /\ launch.n < TryBound
      /\ UNCHANGED <<createdTokens, creatorSeq, launched>> /\ formState' = "building"
  BY DEF CreateInv, HandleCreateToken, chainVars
<1>2. PICK l : l = [NoLaunch EXCEPT !.n = launch.n + 1, !.form = fields]
  OBVIOUS
<1>3. launch' = l /\ l.n = launch.n + 1 /\ LaunchOK(l)
  BY <1>1, <1>2, CreationAssumption DEF HandleCreateToken, LaunchTypes, LaunchOK, FieldTypes, NoLaunch
<1>4. FieldTypes' /\ LaunchTypes' /\ LaunchesInv'
  BY <1>1, <1>3, FieldsStay
     DEF HandleCreateToken, imageVars, LaunchTypes, LaunchesInv, SymbolsDiffer, Listed
<1>5. PageInv' /\ LeftInv'
  BY <1>1, <1>3, CreationAssumption
     DEF CreateInv, HandleCreateToken, PageInv, LeftInv, LeftOK, LaunchTypes, LaunchOK
<1>6. QED
  BY <1>1, <1>4, <1>5 DEF CreateInv, ShownTokenIsTheLaunched, AddressShown

(* A step of the page that leaves the factory and what was sent alone.     *)
LEMMA PageMoves ==
  ASSUME CreateInv, NEW state, NEW l, Then(state, l), UNCHANGED <<createdTokens, creatorSeq, launched>>,
         LaunchOK(l), l.n = launch.n, formState # "idle", PageInv', ShownTokenIsTheLaunched'
  PROVE  CreateInv'
<1>1. FieldTypes' /\ LaunchTypes' /\ LaunchesInv' /\ LeftInv'
  BY FieldsStay DEF CreateInv, Then, imageVars, LaunchTypes, LaunchesInv, SymbolsDiffer, Listed,
                    LeftInv, LeftOK
<1>2. QED
  BY <1>1 DEF CreateInv

(* A launch that fails.                                                    *)
LEMMA FailsKeeps ==
  ASSUME CreateInv, NEW blind, Fails(blind), UNCHANGED <<createdTokens, creatorSeq, launched>>,
         formState # "idle"
  PROVE  CreateInv'
<1>1. LaunchOK([launch EXCEPT !.blind = blind]) /\ [launch EXCEPT !.blind = blind].n = launch.n
  BY DEF CreateInv, LaunchTypes, LaunchOK, NoLaunch
<1>2. FieldTypes'
  BY FieldsStay DEF CreateInv, Fails, Then, imageVars
<1>3. LeftInv'
  BY <1>1 DEF CreateInv, Fails, Then, LeftInv, LeftOK
<1>4. QED
  BY <1>1, <1>2, <1>3, LaunchDropped DEF Fails, Then, LaunchOK

LEMMA BuildKeeps ==
  ASSUME CreateInv, BuildLaunch
  PROVE  CreateInv'
<1>1. UNCHANGED <<createdTokens, creatorSeq, launched>> /\ formState = "building"
  BY DEF BuildLaunch, chainVars
<1>2. PICK l : l = [launch EXCEPT !.built = createClock, !.seq = creatorSeq + 1]
  OBVIOUS
<1>3. Then("signing", l) \/ Fails(FALSE)
  BY <1>2 DEF BuildLaunch
<1>4. LaunchOK(l) /\ l.n = launch.n
  BY <1>2 DEF CreateInv, LaunchTypes, LaunchOK, NoLaunch
<1>5. CASE Then("signing", l)
  <2>1. PageInv' /\ ShownTokenIsTheLaunched'
    BY <1>1, <1>4, <1>5 DEF CreateInv, PageInv, Then, ShownTokenIsTheLaunched, AddressShown
  <2>2. QED
    BY <1>1, <1>4, <1>5, <2>1, PageMoves
<1>6. QED
  BY <1>1, <1>3, <1>5, FailsKeeps

LEMMA SignLaunchKeeps ==
  ASSUME CreateInv, SignLaunch
  PROVE  CreateInv'
<1>1. UNCHANGED <<createdTokens, creatorSeq, launched>> /\ formState = "signing"
  BY DEF SignLaunch, chainVars
<1>2. CASE Then("submitting", launch)
  <2>1. PageInv' /\ ShownTokenIsTheLaunched'
    BY <1>1, <1>2 DEF CreateInv, PageInv, Then, ShownTokenIsTheLaunched, AddressShown
  <2>2. QED
    BY <1>1, <1>2, <2>1, PageMoves DEF CreateInv, LaunchTypes
<1>3. QED
  BY <1>1, <1>2, FailsKeeps DEF SignLaunch

(* The transaction on its way is that of the launch at work.               *)
LEMMA SubmitLaunchKeeps ==
  ASSUME CreateInv, SubmitLaunch
  PROVE  CreateInv'
<1>1. /\ LaunchTypes /\ FieldTypes /\ LaunchesInv /\ LeftInv /\ PageInv /\ formState = "submitting"
      /\ UNCHANGED <<createdTokens, creatorSeq>>
      /\ launch.n \in 1 .. TryBound /\ launched[launch.n].at = "none"
  BY DEF CreateInv, SubmitLaunch, PageInv, chainVars
<1>2. PICK x : x = LaunchTransaction(launch)
  OBVIOUS
<1>3. PICK l : l = [launch EXCEPT !.polledAt = createClock - 1]
  OBVIOUS
<1>4. /\ Then("confirming", l) \/ Fails(TRUE) \/ Fails(FALSE)
      /\ launched' = launched \/ launched' = [launched EXCEPT ![launch.n] = x]
  BY <1>2, <1>3 DEF SubmitLaunch
<1>5. /\ LaunchOK(l) /\ l.n = launch.n /\ l.form = launch.form /\ l.seq = launch.seq
  BY <1>1, <1>3 DEF LaunchTypes, LaunchOK, NoLaunch
<1>6. /\ SentOK(x) /\ x.at = "pending" /\ x.form = launch.form /\ x.seq = launch.seq
  BY <1>1, <1>2 DEF LaunchTransaction, LaunchTypes, LaunchOK, SentOK, NotSent
<1>7. PICK l2 : launch' = l2 /\ LaunchOK(l2) /\ l2.n = launch.n
                /\ l2.form = launch.form /\ l2.seq = launch.seq
                /\ formState' \in {"confirming", "error"}
  <2>1. CASE Then("confirming", l)
    BY <1>5, <2>1 DEF Then
  <2>2. ASSUME NEW b, Fails(b)
        PROVE  LaunchOK(launch)' /\ launch'.n = launch.n /\ launch'.form = launch.form
               /\ launch'.seq = launch.seq /\ formState' = "error"
    BY <1>1, <2>2 DEF Fails, Then, LaunchTypes, LaunchOK, NoLaunch
  <2>3. QED
    BY <1>4, <2>1, <2>2 DEF LaunchOK
<1>8. FieldTypes'
  BY <1>1, <1>4, FieldsStay DEF Fails, Then, imageVars
<1>9. \A m \in 1 .. TryBound : \/ launched'[m] = launched[m]
                               \/ m = launch.n /\ launched'[m] = x
  BY <1>1, <1>4 DEF LaunchTypes
<1>10. LaunchTypes'
  BY <1>1, <1>4, <1>6, <1>7 DEF LaunchTypes
<1>11. LaunchesInv'
  BY <1>1, <1>6, <1>9 DEF LaunchesInv, SymbolsDiffer, Listed
<1>12. PageInv'
  BY <1>1, <1>6, <1>7, <1>9, CreationAssumption DEF PageInv, LaunchTypes, LaunchOK
<1>13. LeftInv'
  BY <1>1, <1>4, <1>7 DEF LeftInv, LeftOK, Fails, Then
<1>14. QED
  BY <1>7, <1>8, <1>10, <1>11, <1>12, <1>13 DEF CreateInv, ShownTokenIsTheLaunched, AddressShown

(* The answer names the token of the launch: its symbol is nobody else's.  *)
LEMMA PollLaunchKeeps ==
  ASSUME CreateInv, PollLaunch
  PROVE  CreateInv'
<1>1. /\ LaunchTypes /\ LaunchesInv /\ PageInv /\ formState = "confirming"
      /\ UNCHANGED <<createdTokens, creatorSeq, launched>>
      /\ launch.n \in 1 .. TryBound
  BY DEF CreateInv, PollLaunch, PageInv, chainVars
<1> DEFINE again(b) == [launch EXCEPT !.polls = @ + 1, !.polledAt = createClock, !.blind = b]
           place == CHOOSE i \in DOMAIN createdTokens : createdTokens[i].symbol = launch.form.symbol
           shown(k) == [launch EXCEPT !.shown = k]
<1>2. \/ \E b : Fails(b) \/ Then("confirming", again(b))
      \/ /\ launched[launch.n].at = "executed"
         /\ Then("success", shown(place)) \/ Then("success", shown(-1))
  BY DEF PollLaunch
<1>3. ASSUME NEW b, Then("confirming", again(b))
      PROVE  CreateInv'
  <2>1. PICK l : l = again(b)
    OBVIOUS
  <2>2. LaunchOK(l) /\ l.n = launch.n /\ l.form = launch.form /\ l.seq = launch.seq
    BY <1>1, <2>1 DEF LaunchTypes, LaunchOK, NoLaunch
  <2>3. Then("confirming", l)
    BY <1>3, <2>1
  <2> HIDE DEF again
  <2>4. PageInv' /\ ShownTokenIsTheLaunched'
    BY <1>1, <2>2, <2>3 DEF PageInv, Then, ShownTokenIsTheLaunched, AddressShown
  <2>5. QED
    BY <1>1, <2>2, <2>3, <2>4, PageMoves
<1>4. ASSUME NEW k, Then("success", shown(k)), launched[launch.n].at = "executed",
             k = place \/ k = -1
      PROVE  CreateInv'
  <2>1. PICK l : l = shown(k)
    OBVIOUS
  <2>2. /\ LaunchOK(l) /\ l.n = launch.n /\ l.form = launch.form /\ l.seq = launch.seq
        /\ l.shown = k
    BY <1>1, <2>1 DEF LaunchTypes, LaunchOK, NoLaunch
  <2>3. Then("success", l)
    BY <1>4, <2>1
  <2>4. launched[launch.n].form = launch.form /\ Listed(launched[launch.n])
    BY <1>1, <1>4 DEF PageInv, LaunchesInv
  <2>5. PICK i \in DOMAIN createdTokens : createdTokens[i] = launch.form
    BY <2>4 DEF Listed
  <2>6. place \in DOMAIN createdTokens /\ createdTokens[place].symbol = launch.form.symbol
    BY <2>5
  <2> HIDE DEF place, shown
  <2>7. createdTokens[place] = launch.form
    BY <1>1, <2>5, <2>6 DEF LaunchesInv, SymbolsDiffer
  <2>8. ShownTokenIsTheLaunched'
    BY <1>1, <1>4, <2>2, <2>3, <2>7 DEF ShownTokenIsTheLaunched, AddressShown, Then
  <2>9. PageInv'
    BY <1>1, <1>4, <2>2, <2>3 DEF PageInv, Then
  <2>10. QED
    BY <1>1, <2>2, <2>3, <2>8, <2>9, PageMoves
<1>5. QED
  BY <1>1, <1>2, <1>3, <1>4, FailsKeeps

LEMMA GiveUpLaunchKeeps ==
  ASSUME CreateInv, GiveUpLaunch
  PROVE  CreateInv'
<1>1. PICK b : b = launch.blind
  OBVIOUS
<1>2. Fails(b) /\ UNCHANGED <<createdTokens, creatorSeq, launched>> /\ formState = "confirming"
  BY <1>1 DEF GiveUpLaunch, chainVars
<1>3. QED
  BY <1>2, FailsKeeps

(* The end of the creator's list is the launch as long as the account did  *)
(* nothing else and one read holds the whole list.                         *)
LEMMA FallbackKeeps ==
  ASSUME CreateInv, GetCreatorTokens
  PROVE  CreateInv'
<1>1. /\ LaunchTypes /\ LaunchesInv /\ PageInv /\ formState = "success"
      /\ UNCHANGED <<createdTokens, creatorSeq, launched>>
      /\ launch.n \in 1 .. TryBound /\ launched[launch.n].at = "executed"
  BY DEF CreateInv, GetCreatorTokens, PageInv, chainVars
<1> DEFINE whole == SubSeq(createdTokens, 1, Min({ListLimit, Len(createdTokens)}))
<1>2. PICK k : /\ k = Len(whole) \/ k = Len(<<>>)
               /\ Then("success", [launch EXCEPT !.shown = k])
  BY DEF GetCreatorTokens, NewestToken
<1>3. PICK l : l = [launch EXCEPT !.shown = k]
  OBVIOUS
<1>4. /\ LaunchOK(l) /\ l.n = launch.n /\ l.form = launch.form /\ l.seq = launch.seq
      /\ l.shown = k /\ Then("success", l)
  BY <1>1, <1>2, <1>3 DEF LaunchTypes, LaunchOK, NoLaunch
<1>5. ASSUME Len(createdTokens) <= ListLimit, k > 0, creatorSeq = launch.seq
      PROVE  createdTokens[k] = launch.form
  <2>1. Len(createdTokens) \in Nat /\ createdTokens \in Seq(Forms)
    BY <1>1 DEF LaunchTypes
  <2>2. Min({ListLimit, Len(createdTokens)}) = Len(createdTokens)
    BY <1>5, <2>1, CreationAssumption DEF Min
  <2>3. Len(whole) = Len(createdTokens)
    BY <2>1, <2>2
  <2>4. Listed(launched[launch.n]) /\ launched[launch.n].form = launch.form
        /\ launched[launch.n].seq = launch.seq
    BY <1>1 DEF LaunchesInv, PageInv
  <2>5. createdTokens[Len(createdTokens)] = launch.form
    BY <1>5, <2>4 DEF Listed
  <2> HIDE DEF whole
  <2>6. QED
    BY <1>2, <1>5, <2>3, <2>5
<1> HIDE DEF whole
<1>6. ShownTokenIsTheLaunched'
  BY <1>1, <1>4, <1>5 DEF ShownTokenIsTheLaunched, AddressShown, Then
<1>7. PageInv'
  BY <1>1, <1>4 DEF PageInv, Then
<1>8. QED
  BY <1>1, <1>4, <1>6, <1>7, PageMoves

(* A launch of the account moves on its sequence number, so what was shown *)
(* before is no longer claimed; the list only grows at its end.            *)
LEMMA TokenAppended ==
  ASSUME LaunchTypes, SymbolsDiffer, NEW f \in Forms, SymbolIsFree(f.symbol),
         createdTokens' = Append(createdTokens, f), creatorSeq' = creatorSeq + 1
  PROVE  /\ createdTokens' \in Seq(Forms) /\ SymbolsDiffer'
         /\ \A x : SentOK(x) /\ Listed(x) => Listed(x)'
         /\ Len(createdTokens)' \in DOMAIN createdTokens'
         /\ createdTokens'[Len(createdTokens)'] = f
<1>1. createdTokens \in Seq(Forms) /\ creatorSeq \in Nat
  BY DEF LaunchTypes
<1>2. /\ createdTokens' \in Seq(Forms) /\ Len(createdTokens)' = Len(createdTokens) + 1
      /\ DOMAIN createdTokens = 1 .. Len(createdTokens)
      /\ DOMAIN createdTokens' = 1 .. Len(createdTokens) + 1
      /\ \A i \in DOMAIN createdTokens : createdTokens'[i] = createdTokens[i]
      /\ createdTokens'[Len(createdTokens) + 1] = f
      /\ Len(createdTokens) \in Nat
  BY <1>1
<1>3. \A i \in DOMAIN createdTokens : createdTokens[i].symbol # f.symbol
  BY DEF SymbolIsFree
<1>4. SymbolsDiffer'
  <2>1. \A i \in DOMAIN createdTokens' : i \in DOMAIN createdTokens \/ i = Len(createdTokens) + 1
    BY <1>2
  <2>2. QED
    BY <1>2, <1>3, <2>1 DEF SymbolsDiffer
<1>5. ASSUME NEW x, SentOK(x), Listed(x)
      PROVE  Listed(x)'
  BY <1>1, <1>2, <1>5 DEF Listed, SentOK
<1>6. QED
  BY <1>2, <1>4, <1>5

LEMMA LaunchElsewhereKeeps ==
  ASSUME CreateInv, NEW s \in Symbols, NEW i \in Images, LaunchElsewhere(s, i)
  PROVE  CreateInv'
<1>1. LaunchTypes /\ FieldTypes /\ LaunchesInv /\ PageInv
  BY DEF CreateInv
<1>2. PICK f \in Forms : f.symbol = s /\ createdTokens' = Append(createdTokens, f)
  <2>1. [symbol |-> s, image |-> i] \in Forms /\ [symbol |-> s, image |-> i].symbol = s
    BY DEF Forms
  <2>2. QED
    BY <2>1 DEF LaunchElsewhere
<1>3. /\ SymbolIsFree(f.symbol) /\ creatorSeq' = creatorSeq + 1
      /\ UNCHANGED <<fields, storedForm, selected, formState, launch, launched>>
  BY <1>2 DEF LaunchElsewhere, imageVars
<1>4. createdTokens' \in Seq(Forms) /\ SymbolsDiffer' /\ \A x : SentOK(x) /\ Listed(x) => Listed(x)'
  BY <1>1, <1>2, <1>3, TokenAppended DEF LaunchesInv
<1>5. LaunchTypes'
  BY <1>1, <1>3, <1>4 DEF LaunchTypes, LaunchOK
<1>6. LaunchesInv'
  <2> SUFFICES ASSUME NEW n \in 1 .. TryBound, launched'[n].at = "executed"
               PROVE  Listed(launched[n])'
    BY <1>4 DEF LaunchesInv
  <2>1. PICK x : x = launched[n]
    OBVIOUS
  <2>2. SentOK(x) /\ Listed(x) /\ launched'[n] = x
    BY <1>1, <1>3, <2>1 DEF LaunchTypes, LaunchesInv
  <2>3. Listed(x)'
    BY <1>4, <2>2
  <2>4. QED
    BY <2>2, <2>3
<1>7. PageInv'
  BY <1>1, <1>3 DEF PageInv
<1>8. ShownTokenIsTheLaunched'
  <2> SUFFICES ASSUME formState' = "success", creatorSeq' = launch'.seq
               PROVE  FALSE
    BY DEF ShownTokenIsTheLaunched, AddressShown
  <2>1. Listed(launched[launch.n]) /\ launched[launch.n].seq = launch.seq
    BY <1>1, <1>3 DEF PageInv, LaunchesInv
  <2>2. launch.seq <= creatorSeq
    BY <2>1 DEF Listed
  <2>3. creatorSeq + 1 = launch.seq /\ creatorSeq \in Nat
    BY <1>1, <1>3 DEF LaunchTypes
  <2>4. QED
    BY <2>2, <2>3
<1>9. LeftInv'
  BY DEF CreateInv, LaunchElsewhere, LeftInv, LeftOK
<1>10. QED
  BY <1>1, <1>3, <1>5, <1>6, <1>7, <1>8, <1>9, FieldsStay DEF CreateInv

LEMMA IncludeLaunchKeeps ==
  ASSUME CreateInv, NEW n \in 1 .. TryBound, IncludeLaunch(n)
  PROVE  CreateInv'
<1>1. LaunchTypes /\ FieldTypes /\ LaunchesInv /\ PageInv
  BY DEF CreateInv
<1>2. PICK y : y = launched[n]
  OBVIOUS
<1>3. /\ SentOK(y) /\ y.at = "pending" /\ y.seq = creatorSeq + 1 /\ creatorSeq' = creatorSeq + 1
      /\ creatorSeq \in Nat
      /\ UNCHANGED <<fields, storedForm, selected, formState, launch>>
  BY <1>1, <1>2 DEF LaunchTypes, IncludeLaunch, CanLaunch, imageVars
<1>4. PICK z : /\ DOMAIN z = DOMAIN NotSent /\ z.form = y.form /\ z.seq = y.seq
               /\ launched' = [launched EXCEPT ![n] = z]
               /\ \/ /\ z.at = "executed" /\ SymbolIsFree(y.form.symbol)
                     /\ createdTokens' = Append(createdTokens, y.form)
                  \/ z.at = "refused" /\ createdTokens' = createdTokens
  <2>1. CASE SymbolIsFree(y.form.symbol)
    <3>1. PICK z : z = [y EXCEPT !.at = "executed"]
      OBVIOUS
    <3>2. DOMAIN z = DOMAIN NotSent /\ z.form = y.form /\ z.seq = y.seq /\ z.at = "executed"
      BY <1>3, <3>1 DEF SentOK, NotSent
    <3>3. launched' = [launched EXCEPT ![n] = z] /\ createdTokens' = Append(createdTokens, y.form)
      BY <1>2, <2>1, <3>1 DEF IncludeLaunch
    <3>4. QED
      BY <2>1, <3>2, <3>3
  <2>2. CASE ~SymbolIsFree(y.form.symbol)
    <3>1. PICK z : z = [y EXCEPT !.at = "refused"]
      OBVIOUS
    <3>2. DOMAIN z = DOMAIN NotSent /\ z.form = y.form /\ z.seq = y.seq /\ z.at = "refused"
      BY <1>3, <3>1 DEF SentOK, NotSent
    <3>3. launched' = [launched EXCEPT ![n] = z] /\ createdTokens' = createdTokens
      BY <1>2, <2>2, <3>1 DEF IncludeLaunch
    <3>4. QED
      BY <3>2, <3>3
  <2>3. QED
    BY <2>1, <2>2
<1>5. /\ createdTokens' \in Seq(Forms) /\ SymbolsDiffer'
      /\ \A x : SentOK(x) /\ Listed(x) => Listed(x)'
      /\ z.at = "executed" => Listed(z)'
  <2>1. CASE z.at = "refused" /\ createdTokens' = createdTokens
    <3>1. \A x : SentOK(x) /\ Listed(x) => Listed(x)'
      BY <1>3, <2>1 DEF Listed, SentOK
    <3>2. QED
      BY <1>1, <2>1, <3>1 DEF LaunchTypes, LaunchesInv, SymbolsDiffer
  <2>2. CASE SymbolIsFree(y.form.symbol) /\ createdTokens' = Append(createdTokens, y.form)
    <3>1. PICK f \in Forms : f = y.form
      BY <1>3 DEF SentOK
    <3>2. /\ createdTokens' \in Seq(Forms) /\ SymbolsDiffer'
          /\ \A x : SentOK(x) /\ Listed(x) => Listed(x)'
          /\ Len(createdTokens)' \in DOMAIN createdTokens'
          /\ createdTokens'[Len(createdTokens)'] = f
      BY <1>1, <1>3, <2>2, <3>1, TokenAppended DEF LaunchesInv
    <3>3. Listed(z)'
      BY <1>3, <1>4, <3>1, <3>2 DEF Listed
    <3>4. QED
      BY <3>2, <3>3
  <2>3. QED
    BY <1>4, <2>1, <2>2
<1>6. SentOK(z) /\ z.at # "none" /\ z.at # "pending"
  BY <1>3, <1>4 DEF SentOK
<1>7. \A m \in 1 .. TryBound : \/ launched'[m] = launched[m]
                               \/ m = n /\ launched'[m] = z
  BY <1>1, <1>4 DEF LaunchTypes
<1>8. LaunchTypes'
  <2>1. \A m \in 1 .. TryBound : SentOK(launched'[m])
    BY <1>1, <1>6, <1>7 DEF LaunchTypes
  <2>2. launched' = [m \in 1 .. TryBound |-> launched'[m]]
    BY <1>1, <1>4 DEF LaunchTypes
  <2>3. LaunchOK(launch)' /\ creatorSeq' \in Nat
    BY <1>1, <1>3 DEF LaunchTypes, LaunchOK
  <2>4. QED
    BY <1>5, <2>1, <2>2, <2>3 DEF LaunchTypes, SentOK
<1>9. LaunchesInv'
  <2> SUFFICES ASSUME NEW m \in 1 .. TryBound, launched'[m].at = "executed"
               PROVE  Listed(launched[m])'
    BY <1>5 DEF LaunchesInv
  <2>1. CASE m = n /\ launched'[m] = z
    BY <1>5, <2>1
  <2>2. CASE launched'[m] = launched[m]
    <3>1. PICK x : x = launched[m]
      OBVIOUS
    <3>2. SentOK(x) /\ Listed(x) /\ launched'[m] = x
      BY <1>1, <2>2, <3>1 DEF LaunchTypes, LaunchesInv
    <3>3. Listed(x)'
      BY <1>5, <3>2
    <3>4. QED
      BY <3>2, <3>3
  <2>3. QED
    BY <1>7, <2>1, <2>2
<1>10. PageInv'
  BY <1>1, <1>2, <1>3, <1>4, <1>6, <1>7 DEF PageInv
<1>11. ShownTokenIsTheLaunched'
  <2> SUFFICES ASSUME formState' = "success", creatorSeq' = launch'.seq
               PROVE  FALSE
    BY DEF ShownTokenIsTheLaunched, AddressShown
  <2>1. Listed(launched[launch.n]) /\ launched[launch.n].seq = launch.seq
    BY <1>1, <1>3 DEF PageInv, LaunchesInv
  <2>2. launch.seq <= creatorSeq
    BY <2>1 DEF Listed
  <2>3. creatorSeq + 1 = launch.seq /\ creatorSeq \in Nat
    BY <1>1, <1>3 DEF LaunchTypes
  <2>4. QED
    BY <2>2, <2>3
<1>12. LeftInv'
  BY DEF CreateInv, IncludeLaunch, LeftInv, LeftOK
<1>13. QED
  BY <1>1, <1>3, <1>8, <1>9, <1>10, <1>11, <1>12, FieldsStay DEF CreateInv

LEMMA CreateStep ==
  ASSUME CreateInv, [CreateNext]_createVars
  PROVE  CreateInv'
<1>1. CASE SecondPasses \/ UNCHANGED createVars
  <2>1. FieldTypes' /\ UNCHANGED <<createdTokens, creatorSeq, launch, launched, left, formState>>
    BY <1>1, FieldsStay DEF CreateInv, SecondPasses, createVars, imageVars
  <2>2. QED
    BY <2>1, LaunchUntouched
<1>2. QED
  BY <1>1, EditsKeep, DropsKeep, LeftKeeps, ButtonKeeps, BuildKeeps, SignLaunchKeeps, SubmitLaunchKeeps,
     PollLaunchKeeps, GiveUpLaunchKeeps, FallbackKeeps, LaunchElsewhereKeeps, IncludeLaunchKeeps
     DEF CreateNext

(* The token shown after a launch is the one that was launched, also when  *)
(* the answer did not name it, for any number of tries, files and launches *)
(* elsewhere, as long as one read holds all tokens of the creator.         *)
THEOREM ShownTokenIsAlwaysTheLaunched == CreateSpec => []ShownTokenIsTheLaunched
<1>1. CreateInit => CreateInv
  BY CreateStart
<1>2. CreateInv /\ [CreateNext]_createVars => CreateInv'
  BY CreateStep
<1>3. CreateInv => ShownTokenIsTheLaunched
  BY DEF CreateInv
<1>4. QED
  BY <1>1, <1>2, <1>3, PTL DEF CreateSpec
=============================================================================
