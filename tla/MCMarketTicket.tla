---------------------------- MODULE MCMarketTicket ----------------------------
(***************************************************************************)
(* A small instance of MarketTicket for TLC.                               *)
(***************************************************************************)
EXTENDS MarketTicket

CONSTANTS admin, alice, nobody

MCUsers == {admin, alice}
MCFunds == [u \in MCUsers |-> IF u = alice THEN 50 ELSE 0]
TwoMarkets == 1 .. 2
TwoOutcomes == 0 .. 1
=============================================================================
