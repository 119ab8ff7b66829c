--------------------------- MODULE MCChallengeViews --------------------------
(***************************************************************************)
(* Small instances of ChallengeViews for TLC.                              *)
(***************************************************************************)
EXTENDS ChallengeViews

CONSTANTS admin, alice, bob, watcher

MCUsers == {admin, alice, bob, watcher}
MCFunds ==
  [u \in MCUsers |-> CASE u = alice -> 60 [] u = bob -> 60 [] u = watcher -> 1
                        [] OTHER -> 0]
OneId == 1 .. 1
=============================================================================
