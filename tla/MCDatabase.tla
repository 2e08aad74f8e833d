----------------------------- MODULE MCDatabase -----------------------------
(***************************************************************************)
(* First topics of the factory's events, in lower case: those the indexer  *)
(* routes, and those the factory publishes                                 *)
(* (src/contracts/sac-factory/test_snapshots/tests/tests).                 *)
(***************************************************************************)
EXTENDS BlockchainSync

RoutedTopics == [launched |-> "created", bought |-> "buy", sold |-> "sell",
                 graduated |-> "tokengraduated"]
FactoryTopics == [launched |-> "token_launched", bought |-> "tokens_bought",
                  sold |-> "tokens_sold", graduated |-> "token_graduated"]
=============================================================================
