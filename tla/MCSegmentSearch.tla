-------------------------- MODULE MCSegmentSearch --------------------------
(* Instances of SegmentSearch for TLC. *)
EXTENDS SegmentSearch, FiniteSets

(* Every dictionary over a chunk of sz characters: each word (p, len) is    *)
(* either absent or has the count Val(p, len); the values make some         *)
(* segmentations tie and others differ.                                     *)
Val(p, len) == (5 * p + 9 * len + 3 * p * len) % 13

(* The matches at p, shortest first, as the trie reports them. *)
Found(p, lens, n) ==
  LET pick == SelectSeq([k \in 1 .. n |-> k], LAMBDA k : k \in lens)
  IN  [k \in 1 .. Len(pick) |-> [len |-> pick[k], val |-> Val(p, pick[k])]]

MCGarbage == { [len |-> 0, type |-> {}], [len |-> N, type |-> {2}] }

(* Lengths of the dictionary words of each position, and of one DFA match. *)
DictLens(sz) == { f \in [Pos -> SUBSET (1 .. N)] :
                    \A p \in Pos : \A l \in f[p] : l <= sz - p }
DfaLens(sz)  == { [p \in Pos |-> 0],
                  [p \in Pos |-> IF p = 0 /\ sz >= 2 THEN 2
                                 ELSE IF p = 1 /\ sz >= 2 THEN 1 ELSE 0] }

ChunkOf(d, f, s) ==
  [ sz   |-> 3,
    dict |-> [p \in Pos |-> Found(p, d[p], N)],
    dfa  |-> [p \in Pos |-> IF f[p] = 0 THEN <<>>
                            ELSE << [len |-> f[p], val |-> 5 + f[p]] >>],
    stop |-> s,
    short |-> FALSE ]

(* The automaton reports two matches where the dictionary words fill the   *)
(* buffer: the two kinds of characters differ.                             *)
TwoMatches(p) == << [len |-> 1, val |-> 20], [len |-> 3 - p, val |-> 21] >>

FullChunks ==
  { [ChunkOf([p \in Pos |-> IF p = at THEN {2, 3 - at} \cup {1} ELSE {}], [p \in Pos |-> 0], {1})
       EXCEPT !.dfa[at] = TwoMatches(at), !.short = short]
    : at \in {0, 1}, short \in BOOLEAN }

(* Every dictionary over three characters, with and without the DFA, and   *)
(* the full buffers.                                                       *)
AllChunks ==
  { ChunkOf(d, f, {1}) : d \in DictLens(3), f \in DfaLens(3) } \cup FullChunks
=============================================================================
