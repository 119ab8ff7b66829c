---------------------------- MODULE MCBountyViews ----------------------------
(***************************************************************************)
(* A small instance of BountyViews for TLC.                                *)
(***************************************************************************)
EXTENDS BountyViews

CONSTANTS alice, bob

MCUsers == {alice, bob}
MCFunds == [u \in MCUsers |-> IF u = alice THEN 6 ELSE 0]
TwoIds == 1 .. 2
=============================================================================
