---------------------------- MODULE MCSendStream ----------------------------
(* Instances of SendStream for TLC. *)
EXTENDS SendStream

CONSTANTS r1, r2, r3

(* A text of one batch and a half, one that is exactly a batch, and one *)
(* without a word.                                                      *)
Texts(r) == CASE r = r1 -> 3 [] r = r2 -> 2 [] r = r3 -> 0
=============================================================================
