--------------------------- MODULE SegmentSearch ---------------------------
(***************************************************************************)
(* The memoised recursion of NGramDict::get_seg_ids, step by step on an    *)
(* explicit call stack, and the walk over segs by which its callers        *)
(* (NGramDictManage::get_segs_ex and get_segs) cut the chunk into words.   *)
(* The arrays outlive a chunk: get_segs clears prob before each chunk and  *)
(* leaves what the last one wrote in segs.                                 *)
(***************************************************************************)
EXTENDS SegmentCandidates

VARIABLES
  chunk,    (* the chunk being segmented                                  *)
  pc,       (* "enter" a call, "loop" over candidates, "return", "walk",  *)
            (* "done"                                                     *)
  arg,      (* start, the argument of the call being entered              *)
  ret,      (* the value the last call returned                           *)
  stack,    (* activation records: start, loop index i and max            *)
  prob,     (* memo: weight of the best segmentation from a position on;  *)
            (* 0 when it is not known                                     *)
  segs,     (* length of the first word of that segmentation              *)
  type,     (* where that word was found                                  *)
  cur,      (* the caller's walk position                                 *)
  words     (* the words it has cut                                       *)

vars == << chunk, pc, arg, ret, stack, prob, segs, type, cur, words >>

NoMemo == [p \in Pos |-> 0]

Frame == [start : Pos, i : Nat \ {0}, max : Int]
Word  == [at : Pos, len : 1 .. N, type : SUBSET {1, 2}, freq : Int]

TypeOK ==
  /\ chunk \in Chunk
  /\ pc \in {"enter", "loop", "return", "walk", "done"}
  /\ arg \in 0 .. N
  /\ ret \in Int
  /\ stack \in Seq(Frame)
  /\ prob \in [Pos -> Int]
  /\ segs \in [Pos -> 0 .. N]
  /\ type \in [Pos -> SUBSET {1, 2}]
  /\ cur \in 0 .. N
  /\ words \in Seq(Word)

-----------------------------------------------------------------------------
Top == stack[Len(stack)]

(* prob is cleared by the caller; segs and type come from new[] as they are. *)
Init ==
  /\ chunk \in Chunks
  /\ pc = "enter" /\ arg = 0 /\ ret = 0
  /\ stack = <<>>
  /\ prob = NoMemo
  /\ \E g \in Garbage : /\ segs = [p \in Pos |-> g.len]
                        /\ type = [p \in Pos |-> g.type]
  /\ cur = 0 /\ words = <<>>

(* get_seg_ids(start): past the last character. *)
ReturnEnd ==
  /\ pc = "enter" /\ arg = chunk.sz
  /\ ret' = 0
  /\ pc' = "return"
  /\ UNCHANGED << chunk, arg, stack, prob, segs, type, cur, words >>

(* get_seg_ids(start): answered from the memo. *)
ReturnMemo ==
  /\ pc = "enter" /\ arg # chunk.sz
  /\ prob[arg] # 0
  /\ ret' = prob[arg]
  /\ pc' = "return"
  /\ UNCHANGED << chunk, arg, stack, prob, segs, type, cur, words >>

(* get_seg_ids(start): collect the candidates and start the loop. *)
Enter ==
  /\ pc = "enter" /\ arg # chunk.sz
  /\ prob[arg] = 0
  /\ stack' = Append(stack, [start |-> arg, i |-> 1, max |-> 0])
  /\ pc' = "loop"
  /\ UNCHANGED << chunk, arg, ret, prob, segs, type, cur, words >>

(* The recursive call of one iteration. *)
Recurse ==
  /\ pc = "loop"
  /\ Top.i <= Count(chunk, Top.start)
  /\ arg' = Top.start + Length(chunk, Top.start, Top.i)
  /\ pc' = "enter"
  /\ UNCHANGED << chunk, ret, stack, prob, segs, type, cur, words >>

(* Whether a candidate replaces the best so far; max = 0 means there is none. *)
FirstWins(rightside, max) == max = 0
Better(rightside, max) == max = 0 \/ rightside > max

(* What the iteration leaves in an entry of segs or type. *)
AlwaysTaken(better, array, p, v) == [array EXCEPT ![p] = v]
Taken(better, array, p, v) ==
  IF better THEN [array EXCEPT ![p] = v] ELSE array

ResumeMemoises ==
  /\ pc = "return" /\ stack # <<>>
  /\ LET p         == Top.start
         rightside == ret + Weight(chunk, p, Top.i)
         better    == Better(rightside, Top.max)
     IN  /\ stack' = [stack EXCEPT ![Len(stack)] =
                        [start |-> p, i |-> Top.i + 1,
                         max |-> IF better THEN rightside ELSE Top.max]]
         /\ segs' = Taken(better, segs, p, Length(chunk, p, Top.i))
         /\ type' = Taken(better, type, p, Origin(chunk, p, Top.i))
         /\ prob' = Taken(better, prob, p, rightside)
  /\ pc' = "loop"
  /\ UNCHANGED << chunk, arg, ret, cur, words >>

(* The rest of the iteration, once the recursive call has returned. *)
Resume ==
  /\ pc = "return" /\ stack # <<>>
  /\ LET p         == Top.start
         rightside == ret + Weight(chunk, p, Top.i)
         better    == Better(rightside, Top.max)
     IN  /\ stack' = [stack EXCEPT ![Len(stack)] =
                        [start |-> p, i |-> Top.i + 1,
                         max |-> IF better THEN rightside ELSE Top.max]]
         /\ segs' = Taken(better, segs, p, Length(chunk, p, Top.i))
         /\ type' = Taken(better, type, p, Origin(chunk, p, Top.i))
  /\ pc' = "loop"
  /\ UNCHANGED << chunk, arg, ret, prob, cur, words >>

(* All candidates tried: memoise and return. *)
Finish ==
  /\ pc = "loop"
  /\ Top.i > Count(chunk, Top.start)
  /\ prob' = [prob EXCEPT ![Top.start] = Top.max]
  /\ ret' = Top.max
  /\ stack' = SubSeq(stack, 1, Len(stack) - 1)
  /\ pc' = "return"
  /\ UNCHANGED << chunk, arg, segs, type, cur, words >>

(* The outermost call has returned to get_segs_ex. *)
StartWalk ==
  /\ pc = "return" /\ stack = <<>>
  /\ pc' = "walk"
  /\ cur' = 0
  /\ UNCHANGED << chunk, arg, ret, stack, prob, segs, type, words >>

(* One turn of  for (i = 0; i < len; i += segs[i]). *)
CutWord ==
  /\ pc = "walk" /\ cur < chunk.sz
  /\ LET next == cur + segs[cur]
     IN  /\ words' = Append(words,
                 [at   |-> cur, len |-> segs[cur], type |-> type[cur],
                  freq |-> IF next < chunk.sz THEN prob[cur] - prob[next]
                           ELSE prob[cur]])
         /\ cur' = next
  /\ UNCHANGED << chunk, pc, arg, ret, stack, prob, segs, type >>

EndWalkPastEnd ==
  /\ pc = "walk" /\ cur > chunk.sz
  /\ pc' = "done"
  /\ UNCHANGED << chunk, arg, ret, stack, prob, segs, type, cur, words >>

EndWalk ==
  /\ pc = "walk" /\ cur >= chunk.sz
  /\ pc' = "done"
  /\ UNCHANGED << chunk, arg, ret, stack, prob, segs, type, cur, words >>

NextChunkKeepsMemo ==
  /\ pc = "done"
  /\ chunk' \in Chunks
  /\ pc' = "enter" /\ arg' = 0
  /\ words' = <<>>
  /\ UNCHANGED << ret, stack, prob, segs, type, cur >>

(* The next chunk of the text: prob is cleared, segs and type are not. *)
NextChunk ==
  /\ pc = "done"
  /\ chunk' \in Chunks
  /\ prob' = [p \in Pos |-> IF p < chunk'.sz THEN 0 ELSE prob[p]]
  /\ pc' = "enter" /\ arg' = 0
  /\ words' = <<>>
  /\ UNCHANGED << ret, stack, segs, type, cur >>

Search == ReturnEnd \/ ReturnMemo \/ Enter \/ Recurse \/ Resume \/ Finish
Walk   == StartWalk \/ CutWord \/ EndWalk
Next   == Search \/ Walk \/ NextChunk

(* The code runs to completion on its own thread: it takes a step while it
   can; nothing obliges the caller to bring another chunk. *)
Spec == Init /\ [][Next]_vars /\ WF_vars(Search \/ Walk)

-----------------------------------------------------------------------------
(* Whether the best segmentation from p on is known, and its weight. *)
Known(p) == p = chunk.sz \/ prob[p] # 0
Value(p) == IF p = chunk.sz THEN 0 ELSE prob[p]

(* The weight of taking candidate i at p and the best from its end on. *)
Through(p, i) ==
  Weight(chunk, p, i) + Value(p + Length(chunk, p, i))

(* A memoised value is the maximum over all candidates of the position,    *)
(* each continued by a memoised value, and segs and type name a candidate  *)
(* that attains it: the recursion, the sentinel 0 and the early returns of *)
(* get_seg_ids never leave a memo that a later caller could not trust.     *)
MemoOptimal ==
  \A p \in Pos : p < chunk.sz /\ prob[p] # 0 =>
    /\ \A i \in 1 .. Count(chunk, p) :
         /\ Known(p + Length(chunk, p, i))
         /\ Through(p, i) <= prob[p]
    /\ \E i \in 1 .. Count(chunk, p) :
         /\ segs[p] = Length(chunk, p, i)
         /\ type[p] = Origin(chunk, p, i)
         /\ prob[p] = Through(p, i)

(* The recursion is at most one call deep per character, so a chunk of at  *)
(* most 1000 characters bounds the stack: the calls on it start at         *)
(* increasing positions of the chunk.                                      *)
StackIncreasing ==
  \A j, k \in 1 .. Len(stack) :
     /\ stack[k].start < chunk.sz
     /\ j < k => stack[j].start < stack[k].start

(* The words cut so far lie end to end from the start of the chunk, and    *)
(* the walk never leaves the chunk nor stalls on a position whose segs is  *)
(* left over from another chunk.                                           *)
WordsTile ==
  pc \in {"walk", "done"} =>
    /\ cur <= chunk.sz
    /\ pc = "done" => cur = chunk.sz
    /\ words = <<>> => cur = 0
    /\ \A k \in 1 .. Len(words) :
         /\ words[k].at + words[k].len =
              IF k = Len(words) THEN cur ELSE words[k + 1].at
         /\ k = 1 => words[k].at = 0

(* The frequency the caller reports for a word, a difference of two memo   *)
(* entries, is the weight of a candidate of exactly that length and        *)
(* origin, and "dictionary" is part of the origin exactly when some        *)
(* dictionary candidate (or the fallback) has that length.                 *)
WordsTruthful ==
  \A k \in 1 .. Len(words) :
    LET w == words[k]
    IN  /\ \E i \in 1 .. Count(chunk, w.at) :
             /\ w.len  = Length(chunk, w.at, i)
             /\ w.type = Origin(chunk, w.at, i)
             /\ w.freq = Weight(chunk, w.at, i)
        /\ 1 \in w.type <=> \E i \in 1 .. DictCount(chunk, w.at) :
                               Length(chunk, w.at, i) = w.len

(* The words of a chunk are a tiling of it, each with the length, origin   *)
(* and frequency of one candidate of its place.                            *)
WordsRight == WordsTile /\ WordsTruthful

(* Once a position is memoised nothing that belongs to it changes until    *)
(* the next chunk, however many calls reach it.                            *)
MemoFrozen ==
  [][ pc # "done" =>
      \A p \in Pos : p < chunk.sz /\ prob[p] # 0 =>
         prob'[p] = prob[p] /\ segs'[p] = segs[p] /\ type'[p] = type[p] ]_vars

(* Every call of the search returns and the walk ends. *)
Terminates == pc = "enter" ~> pc = "done"

-----------------------------------------------------------------------------
(* The answer to a chunk, as BestSegmentation has it: its words are there  *)
(* when the walk is done.                                                  *)
Cut(ws) == { [at |-> ws[k].at, len |-> ws[k].len, freq |-> ws[k].freq]
             : k \in 1 .. Len(ws) }

Promise == INSTANCE BestSegmentation WITH
             request <- chunk,
             answer  <- IF pc = "done" THEN {Cut(words)} ELSE {}

(* Every chunk is answered with a tiling by candidate words that weighs as *)
(* much as any: the memo, the recursion and the walk of get_seg_ids and    *)
(* its callers are not to be seen.                                         *)
ImplementsPromise == Promise!Spec
=============================================================================
