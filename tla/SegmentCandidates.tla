------------------------- MODULE SegmentCandidates -------------------------
(***************************************************************************)
(* The candidate words of one chunk of text, as NGramDict::get_seg_ids     *)
(* (src/src/segmenter/ngram_dict.h) collects and weighs them.              *)
(*                                                                         *)
(* A chunk is abstracted to what the search can tell apart: its size and,  *)
(* for every position, the matches the dictionary trie and the DFA report  *)
(* there (length and log-count) and whether the character is a stop word.  *)
(* get_seg_ids exists twice, for wchar_t and for 16 bit characters: `short` *)
(* says that the chunk is given to the second, whose automaton function    *)
(* does not look for room before its first match.                          *)
(* The floats of the code are integers here.                               *)
(***************************************************************************)
EXTENDS Integers, Sequences

CONSTANTS
  N,             (* length of the arrays segs, prob and type              *)
  BufSize,       (* slots of the arrays pvals and plens (100 in the code) *)
  TotalLogP,     (* TOTAL_LOG_P                                           *)
  StopwordLogP,  (* STOPWORD_LOG_P                                        *)
  Chunks,        (* the chunks the search is called with                  *)
  Garbage        (* what new[] may leave in an entry of segs and type     *)

Pos == 0 .. N - 1

Match == [len : 1 .. N, val : Int]

Chunk == [ sz   : 0 .. N,
           dict : [Pos -> Seq(Match)],
           dfa  : [Pos -> Seq(Match)],
           stop : SUBSET Pos,
           short : BOOLEAN ]

ASSUME SizesAssumption ==
  /\ N \in Nat
  /\ BufSize \in Nat \ {0}
  /\ TotalLogP \in Int
  /\ StopwordLogP \in Int
  /\ 0 < StopwordLogP /\ StopwordLogP < TotalLogP
  /\ Garbage \subseteq [len : 0 .. N, type : SUBSET {1, 2}]

(***************************************************************************)
(* A match lies inside the chunk, and its log-count is below TOTAL_LOG_P:  *)
(* counts are counts of words in a corpus of exp(TOTAL_LOG_P) words, and   *)
(* Dfa::GetScore returns at most 28.  This is what the commented-out       *)
(* assertions of get_seg_ids (lines 221 and 229) say.                      *)
(***************************************************************************)
ASSUME ChunksAssumption ==
  /\ Chunks \subseteq Chunk
  /\ \A c \in Chunks : \A p \in Pos :
       /\ \A i \in 1 .. Len(c.dict[p]) : /\ c.dict[p][i].len <= c.sz - p
                                         /\ c.dict[p][i].val < TotalLogP
       /\ \A i \in 1 .. Len(c.dfa[p])  : /\ c.dfa[p][i].len <= c.sz - p
                                         /\ c.dfa[p][i].val < TotalLogP

-----------------------------------------------------------------------------
(* The first n elements of s: a matcher stops writing when its buffer is full. *)
Cap(s, n) == SubSeq(s, 1, IF Len(s) < n THEN Len(s) ELSE n)

DictMatches(c, p) == Cap(c.dict[p], BufSize)

(***************************************************************************)
(* The automaton gets the rest of the buffer.  Without a rest, the one for *)
(* 16 bit characters still reports a match that another type follows: it   *)
(* writes it behind pvals and plens and counts it.  What the write hits is *)
(* undefined; here the entry is read back as it was written, and nothing   *)
(* else is lost.                                                           *)
(***************************************************************************)
WritesBehind(c, p) ==
  c.short /\ Len(DictMatches(c, p)) = BufSize /\ Len(c.dfa[p]) > 1

DfaMatches(c, p) ==
  Cap(c.dfa[p], IF WritesBehind(c, p) THEN 1 ELSE BufSize - Len(DictMatches(c, p)))

FallbackTakesTwo(c, p) ==
  [len |-> 2, val |-> (IF p \in c.stop THEN StopwordLogP ELSE 0) - TotalLogP]

(* The single character taken when neither matcher finds anything. *)
Fallback(c, p) ==
  [len |-> 1, val |-> (IF p \in c.stop THEN StopwordLogP ELSE 0) - TotalLogP]

Matches(c, p) ==
  LET found == DictMatches(c, p) \o DfaMatches(c, p)
  IN  IF found = <<>> THEN << Fallback(c, p) >> ELSE found

(* The fallback counts as a dictionary match: the code sets cnt = 1 for it. *)
DictCount(c, p) ==
  IF DictMatches(c, p) \o DfaMatches(c, p) = <<>> THEN 1
  ELSE Len(DictMatches(c, p))

Count(c, p)      == Len(Matches(c, p))
Length(c, p, i)  == Matches(c, p)[i].len

(* A one-character match of a stop word is given the stop word's value. *)
Weight(c, p, i) ==
  (IF Length(c, p, i) = 1 /\ p \in c.stop THEN StopwordLogP
   ELSE Matches(c, p)[i].val) - TotalLogP

(* type: 1 for a dictionary word, 2 for a DFA match, both for a DFA match
   whose length some dictionary word has too. *)
Origin(c, p, i) ==
  IF i <= DictCount(c, p) THEN {1}
  ELSE {2} \cup {k \in {1} : \E j \in 1 .. DictCount(c, p) :
                               Length(c, p, j) = Length(c, p, i)}
=============================================================================
