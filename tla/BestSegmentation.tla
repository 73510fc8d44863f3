------------------------- MODULE BestSegmentation --------------------------
(***************************************************************************)
(* What the segmenter promises: a chunk is answered with a tiling of its   *)
(* positions by candidate words whose total weight no other tiling beats.  *)
(* This module knows nothing of the memo, the recursion or the walk.       *)
(***************************************************************************)
EXTENDS SegmentCandidates, FiniteSetsExt

VARIABLES
  request,  (* the chunk asked about                           *)
  answer    (* {} while it is pending, then { its segmentation } *)

(* A piece is a word placed in the chunk, with the weight of its candidate. *)
Pieces(c) ==
  UNION { { [at |-> p, len |-> Length(c, p, i), freq |-> Weight(c, p, i)]
            : i \in 1 .. Count(c, p) } : p \in 0 .. c.sz - 1 }

Covers(w, p) == w.at <= p /\ p < w.at + w.len

Tilings(c) ==
  { S \in SUBSET Pieces(c) :
      \A p \in 0 .. c.sz - 1 : Cardinality({w \in S : Covers(w, p)}) = 1 }

Total(S) == MapThenSumSet(LAMBDA w : w.freq, S)

BestTilings(c) ==
  LET all  == Tilings(c)
      best == Max({Total(S) : S \in all})
  IN  {S \in all : Total(S) = best}

Init == request \in Chunks /\ answer = {}

Ask == /\ answer # {}
       /\ request' \in Chunks
       /\ answer' = {}

(* answer' # {} follows from the third conjunct; stated first, it spares TLC
   the search for best tilings on steps that leave the answer pending. *)
Answer == /\ answer = {}
          /\ answer' # {}
          /\ \E t \in BestTilings(request) : answer' = {t}
          /\ UNCHANGED request

Next == Ask \/ Answer

Spec == Init /\ [][Next]_<<request, answer>>
=============================================================================
