------------------------------ MODULE MCMfrc522 ------------------------------
(* Two kinds of card: one with a short uid, and one with a long one, of      *)
(* which the anticollision shows the first part only, and of a type that     *)
(* read_card and test.c refuse.                                              *)
EXTENDS Mfrc522
CONSTANTS classic, desfire
MCShown == [c \in Cards |-> c]
MCAtqa == [c \in Cards |-> IF c = classic THEN <<4, 0>> ELSE <<68, 3>>]
==============================================================================
