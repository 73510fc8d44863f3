----------------------------- MODULE MCPatterns -----------------------------
(* Instances of Patterns for TLC.                                          *)
EXTENDS Patterns

NfaOf(t, c2, c3, n0, n1, n2, n3) ==
  [ids |-> 0 .. 3, start |-> 0,
   symbol |-> (0 :> Epsilon @@ 1 :> 1 @@ 2 :> c2 @@ 3 :> c3),
   type |-> (0 :> -1) @@ t,
   succ |-> (0 :> n0 @@ 1 :> n1 @@ 2 :> n2 @@ 3 :> n3),
   symbols |-> <<1, 2>>]

(* Nfas of four nodes over two symbols: two accepting nodes of the same or *)
(* of different types, one of which may be entered without reading, loops  *)
(* and common prefixes; one accepts the empty text.                        *)
Types == { <<-1, 2, 4>>, <<8, -1, 4>> }
MCNfas ==
  { NfaOf(t, c2, c3, n0, n1, n2, {1}) :
      t \in Types, c2 \in {1, Epsilon}, c3 \in {Epsilon, 2},
      n0 \in {{1}, {1, 2}}, n1 \in {{2}, {1, 3}}, n2 \in {{2, 3}} }
  \cup { NfaOf(<<-1, 2, 4>>, 2, Epsilon, {1, 3}, {2}, {}, {3}) }

TextsOver(set, n) == UNION { [1 .. k -> set] : k \in 0 .. n }
MCTexts == TextsOver({1, 2}, 2) \cup
           { <<1, 3, 1>>, <<1, 2, 1>>, <<1, 1, 2>>, <<1, 2, 1, 2>>, <<1, 1, 2, 2>> }

CallOf(o, t, n) == [op |-> o, text |-> t, cap |-> n]
MCCalls ==
  { CallOf(o, t, 0) : o \in {"greedy", "longest", "any"}, t \in MCTexts }
  \cup { CallOf(o, t, n) : o \in {"longest_buffer", "prefix"}, t \in MCTexts, n \in 0 .. 2 }
  \cup { CallOf("prefix_wide", t, n) : t \in MCTexts \cup {<<5, 6>>, <<1, 6>>, <<1, 4>>},
                                       n \in 0 .. 1 }
=============================================================================
