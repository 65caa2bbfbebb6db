---------------------------- MODULE MCChatInbox ----------------------------
(* A small instance of ChatInbox.                                              *)
EXTENDS ChatInbox, TLC

CONSTANTS alice, bob

MCUsers  == {alice, bob}
Symmetry == Permutations(MCUsers)
==============================================================================
