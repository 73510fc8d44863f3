---------------------------- MODULE MCTextSplit ----------------------------
(* Instances of TextSplit for TLC. *)
EXTENDS TextSplit
=============================================================================
