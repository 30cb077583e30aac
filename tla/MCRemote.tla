------------------------------- MODULE MCRemote -------------------------------
(* Instances of Remote for TLC.                                            *)
EXTENDS Remote

TwoHands == {[device |-> "Treo", override |-> TRUE], [device |-> "Tungsten", override |-> TRUE]}
TwoKeyboards == [Treo |-> {"a", "Side"}, Tungsten |-> {"Up", "Center", "Hard1"}]
=============================================================================
