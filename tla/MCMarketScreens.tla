-------------------------- MODULE MCMarketScreens --------------------------
(***************************************************************************)
(* A small instance of MarketScreens for TLC: values of its constants.     *)
(***************************************************************************)
EXTENDS MarketScreens

CONSTANTS admin, alice, bob, nobody, relay1, relay2, module

MCUsers == {admin, alice, bob}
MCFunds ==
  [u \in MCUsers |-> CASE u = alice -> 110 [] u = bob -> 70 [] OTHER -> 0]
OneMarket == 1 .. 1
ThreeOutcomes == 0 .. 2
TwoCounts == {2}

\* Alice signs two bets with one nonce, the second bound to a relayer, and
\* one with the next nonce and a later deadline.
Signatures ==
  LET Signature(o, n, deadline, relayer) ==
        [bettor |-> alice, marketId |-> 1, outcome |-> o, amount |-> 40,
         nonce |-> n, deadline |-> deadline, authorizedRelayer |-> relayer]
  IN  {Signature(0, 0, 1, nobody), Signature(1, 0, 2, relay1),
       Signature(0, 1, 2, nobody)}
=============================================================================
