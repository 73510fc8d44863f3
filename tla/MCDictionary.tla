--------------------------- MODULE MCDictionary ----------------------------
(* Instances of Dictionary for TLC. *)
EXTENDS Dictionary

(* Characters of one, two and three bytes and one of four, the separator   *)
(* of get_segs, a stray and a missing trailing byte.                       *)
Characters ==
  { << 65 >>, << 1 >>, << 195, 169 >>, << 228, 189, 160 >>, << 240, 159, 152, 128 >>,
    << 169 >>, << 228, 189 >> }

SomeTexts ==
  { FlattenSeq(cs) : cs \in UNION {[1 .. n -> Characters] : n \in 0 .. 3} }
=============================================================================
