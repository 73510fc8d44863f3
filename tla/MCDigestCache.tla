---------------------------- MODULE MCDigestCache ----------------------------
(* Instances of DigestCache for TLC. *)
EXTENDS DigestCache, TLC

=============================================================================
