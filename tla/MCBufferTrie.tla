---------------------------- MODULE MCBufferTrie ----------------------------
(* Instances of BufferTrie for TLC. *)
EXTENDS BufferTrie

Strings(chars, n) == UNION {[1 .. k -> chars] : k \in 1 .. n}

(* A word that occurs once has the value log 1 = 0. *)
Count(w) == IF Last(w) = 2 THEN 0 ELSE 1 + Len(w) + 5 * w[1]

DictOf(words) == [w \in words |-> Count(w)]

(* Every dictionary over words of up to two characters and every one of    *)
(* two longer words.                                                       *)
SmallDicts ==
  {DictOf(ws) : ws \in (SUBSET Strings({1, 2}, 2)) \ {{}}}
  \cup {DictOf({u, v}) : u, v \in Strings({1, 2}, 3)}

(* Every text of up to three characters, one of them in no word. *)
SmallTexts == Strings({1, 2, 3}, 3)
=============================================================================
