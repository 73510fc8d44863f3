------------------------ MODULE SegmentSearchProofs ------------------------
(***************************************************************************)
(* The memo of get_seg_ids can be trusted, for every text, dictionary and  *)
(* buffer size: SegmentSearch keeps its types, its recursion goes strictly *)
(* forward, and a memoised value is a maximum that segs and type attain.   *)
(* The words that are cut from it are therefore a best segmentation: the   *)
(* module implements BestSegmentation.                                     *)
(***************************************************************************)
EXTENDS SegmentSearch, FiniteSetTheorems, SequenceTheorems, WellFoundedInduction, TLAPS

-----------------------------------------------------------------------------
(* What the search needs to know of its candidates.                        *)

(* Cutting a list of matches to the buffer keeps a prefix of it. *)
LEMMA CapPrefix ==
  ASSUME NEW S, NEW s \in Seq(S), NEW n \in Nat
  PROVE  /\ Cap(s, n) \in Seq(S)
         /\ Len(Cap(s, n)) <= Len(s)
         /\ Len(Cap(s, n)) <= n
         /\ \A i \in 1 .. Len(Cap(s, n)) : Cap(s, n)[i] = s[i]
<1> DEFINE m == IF Len(s) < n THEN Len(s) ELSE n
<1>1. m \in Nat /\ m <= Len(s) /\ m <= n
  BY LenProperties
<1>2. \A i \in 1 .. m : s[i] \in S
  BY <1>1, ElementOfSeq, LenProperties
<1>3. Cap(s, n) = SubSeq(s, 1, m)
  BY DEF Cap
<1> HIDE DEF m
<1>4. /\ SubSeq(s, 1, m) \in Seq(S)
      /\ Len(SubSeq(s, 1, m)) = IF 1 <= m THEN m - 1 + 1 ELSE 0
      /\ \A i \in 1 .. m - 1 + 1 : SubSeq(s, 1, m)[i] = s[1 + i - 1]
  BY <1>1, <1>2, SubSeqProperties, 1 \in Int, m \in Int
<1> QED
  BY <1>1, <1>3, <1>4

(* The matches of a position of the chunk: there is at least one, each      *)
(* lies inside the chunk and, unless it is a stop word, counts less than    *)
(* TOTAL_LOG_P.                                                             *)
LEMMA MatchesInChunk ==
  ASSUME NEW c \in Chunks, NEW p \in Pos, p < c.sz
  PROVE  /\ Count(c, p) \in Nat \ {0}
         /\ DictCount(c, p) \in Nat
         /\ \A i \in 1 .. Count(c, p) :
              /\ Matches(c, p)[i].len \in 1 .. c.sz - p
              /\ Matches(c, p)[i].val \in Int
              /\ Matches(c, p)[i].val < TotalLogP
<1> DEFINE d == DictMatches(c, p)
           f == DfaMatches(c, p)
           Good(m) == m.len \in 1 .. c.sz - p /\ m.val \in Int /\ m.val < TotalLogP
<1>1. /\ c.sz \in 0 .. N
      /\ c.dict[p] \in Seq(Match)
      /\ c.dfa[p] \in Seq(Match)
  BY ChunksAssumption DEF Chunk
<1>0. ASSUME NEW m \in Match, m.len <= c.sz - p, m.val < TotalLogP
      PROVE  Good(m)
  <2>1. m.len \in 1 .. N /\ m.val \in Int
    BY DEF Match
  <2>2. c.sz - p \in Int /\ N \in Nat
    BY <1>1, SizesAssumption DEF Pos
  <2> QED
    BY <1>0, <2>1, <2>2
<1>2. /\ \A i \in 1 .. Len(c.dict[p]) : Good(c.dict[p][i])
      /\ \A i \in 1 .. Len(c.dfa[p]) : Good(c.dfa[p][i])
  <2>1. ASSUME NEW i \in 1 .. Len(c.dict[p])
        PROVE  Good(c.dict[p][i])
    <3>1. c.dict[p][i] \in Match
      BY <1>1, ElementOfSeq
    <3>2. c.dict[p][i].len <= c.sz - p /\ c.dict[p][i].val < TotalLogP
      BY ChunksAssumption
    <3> QED
      BY <1>0, <3>1, <3>2
  <2>2. ASSUME NEW i \in 1 .. Len(c.dfa[p])
        PROVE  Good(c.dfa[p][i])
    <3>1. c.dfa[p][i] \in Match
      BY <1>1, ElementOfSeq
    <3>2. c.dfa[p][i].len <= c.sz - p /\ c.dfa[p][i].val < TotalLogP
      BY ChunksAssumption
    <3> QED
      BY <1>0, <3>1, <3>2
  <2> QED
    BY <2>1, <2>2
<1>3. /\ d \in Seq(Match)
      /\ Len(d) <= BufSize
      /\ \A i \in 1 .. Len(d) : Good(d[i])
  <2>1. BufSize \in Nat
    BY SizesAssumption
  <2>2. /\ d \in Seq(Match) /\ Len(d) <= Len(c.dict[p]) /\ Len(d) <= BufSize
        /\ \A i \in 1 .. Len(d) : d[i] = c.dict[p][i]
    BY <1>1, <2>1, CapPrefix DEF DictMatches
  <2> HIDE DEF Good, d
  <2> QED
    BY <1>1, <1>2, <2>2, LenProperties
<1>4. /\ f \in Seq(Match)
      /\ \A i \in 1 .. Len(f) : Good(f[i])
  <2>1. BufSize - Len(d) \in Nat
    BY <1>3, LenProperties, SizesAssumption
  <2>2. /\ f \in Seq(Match) /\ Len(f) <= Len(c.dfa[p])
        /\ \A i \in 1 .. Len(f) : f[i] = c.dfa[p][i]
    <3> DEFINE n == IF WritesBehind(c, p) THEN 1 ELSE BufSize - Len(d)
    <3>1. n \in Nat /\ f = Cap(c.dfa[p], n)
      BY <2>1 DEF DfaMatches
    <3> HIDE DEF n, f
    <3> QED
      BY <1>1, <3>1, CapPrefix
  <2> HIDE DEF Good, f
  <2> QED
    BY <1>1, <1>2, <2>2, LenProperties
<1>5. CASE d \o f = <<>>
  <2>1. Matches(c, p) = << Fallback(c, p) >>
    BY <1>5 DEF Matches
  <2>2. Good(Fallback(c, p))
    BY <1>1, SizesAssumption DEF Fallback, Pos
  <2> QED
    BY <1>5, <2>1, <2>2 DEF Count, DictCount
<1>6. CASE d \o f # <<>>
  <2>1. /\ Matches(c, p) = d \o f
        /\ DictCount(c, p) = Len(d)
    BY <1>6 DEF Matches, DictCount
  <2>2. /\ d \o f \in Seq(Match)
        /\ Len(d \o f) = Len(d) + Len(f)
        /\ \A i \in 1 .. Len(d) + Len(f) :
             (d \o f)[i] = IF i <= Len(d) THEN d[i] ELSE f[i - Len(d)]
    BY <1>3, <1>4, ConcatProperties
  <2>3. Len(d \o f) \in Nat \ {0}
    BY <1>6, <2>2, EmptySeq
  <2>4. Len(d) \in Nat /\ Len(f) \in Nat
    BY <1>3, <1>4, LenProperties
  <2>5. ASSUME NEW i \in 1 .. Len(d) + Len(f)
        PROVE  Good((d \o f)[i])
    <3> HIDE DEF Good, d, f
    <3>1. CASE i <= Len(d)
      BY <1>3, <2>2, <2>4, <3>1
    <3>2. CASE ~(i <= Len(d))
      <4>1. i - Len(d) \in 1 .. Len(f)
        BY <2>4, <3>2
      <4> QED
        BY <1>4, <2>2, <3>2, <4>1
    <3> QED
      BY <3>1, <3>2
  <2> QED
    BY <2>1, <2>2, <2>3, <2>4, <2>5 DEF Count
<1> QED
  BY <1>5, <1>6

(* Every candidate is a word inside the chunk and has negative weight: this *)
(* is what makes 0 a safe mark for "not memoised" and "no maximum yet".     *)
LEMMA CandidateFacts ==
  ASSUME NEW c \in Chunks, NEW p \in Pos, p < c.sz
  PROVE  /\ Count(c, p) \in Nat \ {0}
         /\ \A i \in 1 .. Count(c, p) :
              /\ Length(c, p, i) \in 1 .. c.sz - p
              /\ Weight(c, p, i) \in Int
              /\ Weight(c, p, i) < 0
              /\ Origin(c, p, i) \in SUBSET {1, 2}
<1>1. ASSUME NEW i \in 1 .. Count(c, p)
      PROVE  Weight(c, p, i) \in Int /\ Weight(c, p, i) < 0
  BY MatchesInChunk, SizesAssumption DEF Weight
<1>2. ASSUME NEW i \in 1 .. Count(c, p)
      PROVE  Origin(c, p, i) \in SUBSET {1, 2}
  BY DEF Origin
<1> QED
  BY <1>1, <1>2, MatchesInChunk DEF Length

-----------------------------------------------------------------------------
(* The inductive invariant.                                                *)

(* Some candidate of p with an index in J attains v, and is the one that   *)
(* segs and type record.                                                   *)
Attained(p, J, v) ==
  \E j \in J : /\ segs[p] = Length(chunk, p, j)
               /\ type[p] = Origin(chunk, p, j)
               /\ v = Through(p, j)

(* v is the maximum over the candidates of p before the i-th. *)
MaxBefore(p, i, v) ==
  /\ v \in Int
  /\ i = 1 => v = 0
  /\ i > 1 => v < 0
  /\ \A j \in 1 .. i - 1 : /\ Known(p + Length(chunk, p, j))
                           /\ Through(p, j) <= v
  /\ i > 1 => Attained(p, 1 .. i - 1, v)

(* A call in progress: its position is not memoised, and its max is right. *)
FrameOK(f) ==
  /\ f.start < chunk.sz
  /\ prob[f.start] = 0
  /\ f.i <= Count(chunk, f.start) + 1
  /\ MaxBefore(f.start, f.i, f.max)

(* The position the iteration in progress of f calls get_seg_ids with. *)
Target(f) == f.start + Length(chunk, f.start, f.i)

(* Where the value asked for belongs: the whole chunk, or the target of the *)
(* innermost call.                                                          *)
Wanted == IF stack = <<>> THEN 0 ELSE Target(Top)

ControlOK ==
  /\ chunk \in Chunks
  /\ pc \in {"enter", "return"} /\ stack # <<>> =>
       Top.i <= Count(chunk, Top.start)
  /\ pc = "enter" => arg = Wanted
  /\ pc = "loop" => stack # <<>>
  /\ pc = "return" => Known(Wanted) /\ ret = Value(Wanted)
  /\ pc \in {"walk", "done"} => stack = <<>> /\ Known(0)

MemoOK ==
  \A p \in Pos : p < chunk.sz /\ prob[p] # 0 =>
     MaxBefore(p, Count(chunk, p) + 1, prob[p])

(* Each call on the stack was made by the iteration its caller is in. *)
ChainOK ==
  /\ stack # <<>> => stack[1].start = 0
  /\ \A k \in 1 .. Len(stack) - 1 :
       /\ stack[k].i <= Count(chunk, stack[k].start)
       /\ stack[k + 1].start = Target(stack[k])

StackOK == \A k \in 1 .. Len(stack) : FrameOK(stack[k])

(* The walk stands on a memoised position, so segs is meaningful there. *)
WalkOK ==
  /\ pc = "walk" => cur <= chunk.sz /\ Known(cur)
  /\ pc = "done" => cur = chunk.sz

Inv == /\ TypeOK /\ ControlOK /\ MemoOK /\ WalkOK
       /\ StackOK /\ ChainOK /\ StackIncreasing

-----------------------------------------------------------------------------
(* Steps that leave the arrays alone leave every fact about them alone.    *)
LEMMA SameMemo ==
  ASSUME chunk' = chunk, prob' = prob, segs' = segs, type' = type
  PROVE  /\ \A p : Known(p)' <=> Known(p)
         /\ \A p : Value(p)' = Value(p)
         /\ \A p, i, v : MaxBefore(p, i, v)' <=> MaxBefore(p, i, v)
         /\ \A f : FrameOK(f)' <=> FrameOK(f)
         /\ \A f : Target(f)' = Target(f)
         /\ MemoOK' <=> MemoOK
<1>1. /\ \A p : Known(p)' <=> Known(p)
      /\ \A p : Value(p)' = Value(p)
      /\ \A f : Target(f)' = Target(f)
  BY DEF Known, Value, Target
<1>2. \A p, i : Through(p, i)' = Through(p, i)
  BY <1>1 DEF Through
<1>3. \A p, J, v : Attained(p, J, v)' <=> Attained(p, J, v)
  BY <1>2 DEF Attained
<1>4. \A p, i, v : MaxBefore(p, i, v)' <=> MaxBefore(p, i, v)
  BY <1>1, <1>2, <1>3 DEF MaxBefore
<1>5. \A f : FrameOK(f)' <=> FrameOK(f)
  BY <1>4 DEF FrameOK
<1>6. MemoOK' <=> MemoOK
  BY <1>4 DEF MemoOK
<1> QED
  BY <1>1, <1>4, <1>5, <1>6

(* The innermost call and its current candidate. *)
LEMMA TopFacts ==
  ASSUME Inv, stack # <<>>
  PROVE  /\ Len(stack) \in Nat \ {0}
         /\ Top \in Frame
         /\ FrameOK(Top)
         /\ Top.i <= Count(chunk, Top.start) =>
              /\ Target(Top) \in Top.start + 1 .. chunk.sz
              /\ Weight(chunk, Top.start, Top.i) \in Int
              /\ Weight(chunk, Top.start, Top.i) < 0
<1>1. /\ Len(stack) \in Nat \ {0}
      /\ Top \in Frame
      /\ FrameOK(Top)
  <2>1. Len(stack) \in 1 .. Len(stack)
    BY EmptySeq, LenProperties DEF Inv, TypeOK
  <2> QED
    BY <2>1, ElementOfSeq DEF Inv, TypeOK, StackOK, Top
<1>2. ASSUME Top.i <= Count(chunk, Top.start)
      PROVE  /\ Target(Top) \in Top.start + 1 .. chunk.sz
             /\ Weight(chunk, Top.start, Top.i) \in Int
             /\ Weight(chunk, Top.start, Top.i) < 0
  <2>1. Top.start \in Pos /\ Top.start < chunk.sz /\ chunk \in Chunks
    BY <1>1 DEF Inv, ControlOK, FrameOK, Frame
  <2>2. Top.i \in 1 .. Count(chunk, Top.start)
    BY <1>1, <1>2, <2>1, CandidateFacts DEF Frame
  <2>3. chunk.sz \in 0 .. N
    BY DEF Inv, TypeOK, Chunk
  <2>4. Length(chunk, Top.start, Top.i) \in 1 .. chunk.sz - Top.start
    BY <2>1, <2>2, CandidateFacts
  <2>5. Target(Top) \in Top.start + 1 .. chunk.sz
    <3> DEFINE p == Top.start
               l == Length(chunk, Top.start, Top.i)
    <3>1. p \in Int /\ l \in 1 .. chunk.sz - p /\ chunk.sz \in Int
      BY <2>1, <2>3, <2>4, SizesAssumption DEF Pos
    <3>2. Target(Top) = p + l
      BY DEF Target
    <3> HIDE DEF p, l
    <3>3. p + l \in p + 1 .. chunk.sz
      BY <3>1
    <3> QED
      BY <3>2, <3>3 DEF p
  <2> QED
    BY <2>1, <2>2, <2>5, CandidateFacts
<1> QED
  BY <1>1, <1>2

(* The position asked for is one of the chunk or its end. *)
LEMMA WantedInChunk ==
  ASSUME Inv, pc \in {"enter", "return"}
  PROVE  Wanted \in 0 .. chunk.sz
<1>1. chunk.sz \in 0 .. N /\ N \in Nat
  BY SizesAssumption DEF Inv, TypeOK, Chunk
<1>2. CASE stack = <<>>
  BY <1>1, <1>2 DEF Wanted
<1>3. CASE stack # <<>>
  <2>1. Target(Top) \in Top.start + 1 .. chunk.sz
    BY <1>3, TopFacts DEF Inv, ControlOK
  <2>2. Top.start \in Nat
    BY <1>3, TopFacts DEF Frame, Pos
  <2> QED
    BY <1>1, <1>3, <2>1, <2>2 DEF Wanted
<1> QED
  BY <1>2, <1>3

-----------------------------------------------------------------------------
(* One lemma per action of the search.                                     *)

(* The arrays of the first chunk, prob cleared, satisfy the invariant. *)
LEMMA InitInv == Init => Inv
<1> SUFFICES ASSUME Init PROVE Inv
  OBVIOUS
<1>1. TypeOK
  BY ChunksAssumption, SizesAssumption, EmptySeq DEF Init, TypeOK, NoMemo, Pos
<1>2. ControlOK /\ WalkOK
  BY DEF Init, ControlOK, WalkOK, Wanted
<1>3. MemoOK
  BY DEF Init, MemoOK, NoMemo
<1>4. StackOK /\ ChainOK /\ StackIncreasing
  BY EmptySeq DEF Init, StackOK, ChainOK, StackIncreasing
<1> QED
  BY <1>1, <1>2, <1>3, <1>4 DEF Inv

(* The early returns of get_seg_ids hand a value the caller may use. *)
LEMMA ReturnInv ==
  ASSUME Inv, ReturnEnd \/ ReturnMemo
  PROVE  Inv'
<1> USE DEF ReturnEnd, ReturnMemo
<1>1. Wanted \in 0 .. chunk.sz /\ arg = Wanted
  BY WantedInChunk DEF Inv, ControlOK
<1>2. ret' = Value(arg) /\ Known(arg)
  BY DEF Value, Known
<1>3. Wanted' = Wanted
  BY DEF Wanted, Target, Top
<1>4. TypeOK'
  <2>1. chunk.sz \in 0 .. N /\ N \in Nat /\ prob \in [Pos -> Int]
    BY SizesAssumption DEF Inv, TypeOK, Chunk
  <2>2. arg # chunk.sz => arg \in Pos
    BY <1>1, <2>1 DEF Pos
  <2>3. ret' \in Int
    BY <2>1, <2>2
  <2> QED
    BY <2>3 DEF Inv, TypeOK
<1>5. ControlOK'
  BY <1>1, <1>2, <1>3, SameMemo DEF Inv, ControlOK, Top
<1>6. MemoOK' /\ StackOK' /\ ChainOK' /\ StackIncreasing' /\ WalkOK'
  BY SameMemo DEF Inv, StackOK, ChainOK, StackIncreasing, WalkOK
<1> QED
  BY <1>4, <1>5, <1>6 DEF Inv

(* A position without a memo gets a frame strictly behind its caller's. *)
LEMMA EnterInv ==
  ASSUME Inv, Enter
  PROVE  Inv'
<1> DEFINE new == [start |-> arg, i |-> 1, max |-> 0]
<1> USE DEF Enter
<1>1. arg \in Pos /\ arg < chunk.sz /\ arg = Wanted
  <2>1. Wanted \in 0 .. chunk.sz /\ arg = Wanted
    BY WantedInChunk DEF Inv, ControlOK
  <2>2. chunk.sz \in 0 .. N /\ N \in Nat
    BY SizesAssumption DEF Inv, TypeOK, Chunk
  <2> QED
    BY <2>1, <2>2 DEF Pos
<1>2. new \in Frame
  BY <1>1 DEF Frame
<1>3. /\ stack' \in Seq(Frame)
      /\ Len(stack) \in Nat
      /\ Len(stack') = Len(stack) + 1
      /\ \A k \in 1 .. Len(stack) : stack'[k] = stack[k]
      /\ stack'[Len(stack) + 1] = new
  BY <1>2, AppendProperties, LenProperties DEF Inv, TypeOK
<1>4. FrameOK(new)
  <2>1. Count(chunk, arg) \in Nat \ {0}
    BY <1>1, CandidateFacts DEF Inv, ControlOK
  <2>2. MaxBefore(arg, 1, 0)
    BY DEF MaxBefore
  <2> QED
    BY <1>1, <2>1, <2>2 DEF FrameOK
<1>5. TypeOK'
  BY <1>3 DEF Inv, TypeOK
<1>6. ControlOK'
  BY <1>3, EmptySeq DEF Inv, ControlOK
<1>7. MemoOK' /\ WalkOK'
  BY SameMemo DEF Inv, WalkOK
<1>8. StackOK'
  BY <1>3, <1>4, SameMemo DEF Inv, StackOK
<1>9. StackIncreasing'
  <2>1. ASSUME NEW j \in 1 .. Len(stack)
        PROVE  stack[j].start < arg
    <3>1. stack # <<>>
      BY EmptySeq
    <3>2. Wanted = Target(Top) /\ Target(Top) \in Top.start + 1 .. chunk.sz
      BY <3>1, TopFacts DEF Wanted, Inv, ControlOK
    <3>3. Top \in Frame /\ stack[j] \in Frame
      BY <3>1, TopFacts, ElementOfSeq DEF Inv, TypeOK
    <3>4. stack[j].start <= Top.start
      <4>1. j < Len(stack) => stack[j].start < Top.start
        BY <1>3 DEF Inv, StackIncreasing, Top
      <4>2. j = Len(stack) => stack[j].start = Top.start
        BY DEF Top
      <4> QED
        BY <1>3, <3>3, <4>1, <4>2 DEF Frame, Pos
    <3> QED
      BY <1>1, <3>2, <3>3, <3>4 DEF Frame, Pos
  <2> QED
    BY <1>1, <1>3, <2>1 DEF Inv, StackIncreasing
<1>10. ChainOK'
  <2>1. CASE stack = <<>>
    BY <1>1, <1>3, <2>1, EmptySeq DEF ChainOK, Wanted
  <2>2. CASE stack # <<>>
    <3>1. Len(stack) \in Nat \ {0}
      BY <2>2, TopFacts
    <3>2. stack'[1].start = 0
      BY <1>3, <2>2, <3>1 DEF Inv, ChainOK
    <3>3. ASSUME NEW k \in 1 .. Len(stack) - 1
          PROVE  /\ stack[k].i <= Count(chunk, stack[k].start)
                 /\ stack[k + 1].start = Target(stack[k])
                 /\ stack'[k] = stack[k] /\ stack'[k + 1] = stack[k + 1]
      BY <1>3, <3>1 DEF Inv, ChainOK
    <3>4. /\ Top.i <= Count(chunk, Top.start) /\ arg = Target(Top)
          /\ stack'[Len(stack)] = Top
      BY <1>1, <1>3, <2>2, <3>1 DEF Inv, ControlOK, Wanted, Top
    <3>5. ASSUME NEW k \in 1 .. Len(stack)
          PROVE  /\ stack'[k].i <= Count(chunk, stack'[k].start)
                 /\ stack'[k + 1].start = Target(stack'[k])
      <4>1. CASE k \in 1 .. Len(stack) - 1
        BY <3>3, <4>1
      <4>2. CASE k = Len(stack)
        BY <1>3, <3>4, <4>2
      <4> QED
        BY <3>1, <4>1, <4>2
    <3> QED
      BY <1>3, <3>1, <3>2, <3>5 DEF ChainOK, Target
  <2> QED
    BY <2>1, <2>2
<1> QED
  BY <1>5, <1>6, <1>7, <1>8, <1>9, <1>10 DEF Inv

(* The recursive call goes to the position behind the candidate. *)
LEMMA RecurseInv ==
  ASSUME Inv, Recurse
  PROVE  Inv'
<1> USE DEF Recurse
<1>1. stack # <<>> /\ arg' = Target(Top)
  BY DEF Inv, ControlOK, Target
<1>2. Target(Top) \in 0 .. chunk.sz
  <2>1. Target(Top) \in Top.start + 1 .. chunk.sz
    BY <1>1, TopFacts
  <2>2. Top.start \in Nat
    BY <1>1, TopFacts DEF Frame, Pos
  <2> QED
    BY <2>1, <2>2
<1>3. TypeOK'
  <2>1. chunk.sz \in 0 .. N /\ N \in Nat
    BY SizesAssumption DEF Inv, TypeOK, Chunk
  <2>2. arg' \in 0 .. N
    BY <1>1, <1>2, <2>1
  <2> QED
    BY <2>2 DEF Inv, TypeOK
<1>4. Wanted' = Target(Top)
  BY <1>1 DEF Wanted, Target, Top
<1>5. ControlOK'
  BY <1>1, <1>4 DEF Inv, ControlOK, Top
<1>6. MemoOK' /\ StackOK' /\ ChainOK' /\ StackIncreasing' /\ WalkOK'
  BY SameMemo DEF Inv, StackOK, ChainOK, StackIncreasing, WalkOK
<1> QED
  BY <1>3, <1>5, <1>6 DEF Inv

(* The weight through a candidate does not depend on segs and type. *)
LEMMA SameWeights ==
  ASSUME chunk' = chunk, prob' = prob
  PROVE  /\ \A q : Known(q)' <=> Known(q)
         /\ \A q, i : Through(q, i)' = Through(q, i)
<1>1. /\ \A q : Known(q)' <=> Known(q)
      /\ \A q : Value(q)' = Value(q)
  BY DEF Known, Value
<1> QED
  BY <1>1 DEF Through

(* A memoised value is negative: it is a maximum over at least one candidate. *)
LEMMA ValueNotPositive ==
  ASSUME Inv, NEW q \in 0 .. chunk.sz, Known(q)
  PROVE  Value(q) \in Int /\ Value(q) <= 0
<1>1. CASE q = chunk.sz
  BY <1>1 DEF Value
<1>2. CASE q # chunk.sz
  <2>1. q \in Pos /\ q < chunk.sz
    BY <1>2, SizesAssumption DEF Inv, TypeOK, Chunk, Pos
  <2>2. MaxBefore(q, Count(chunk, q) + 1, prob[q])
    BY <1>2, <2>1 DEF Known, Inv, MemoOK
  <2>3. Count(chunk, q) \in Nat \ {0}
    BY <2>1, CandidateFacts DEF Inv, ControlOK
  <2>4. prob[q] \in Int /\ prob[q] < 0
    BY <2>2, <2>3 DEF MaxBefore
  <2> QED
    BY <1>2, <2>4 DEF Value
<1> QED
  BY <1>1, <1>2

(* The step of the maximum: one more candidate of p has been looked at. *)
LEMMA MaxStep ==
  ASSUME Inv, chunk' = chunk, prob' = prob,
         NEW p \in Pos, p < chunk.sz,
         NEW i \in 1 .. Count(chunk, p), NEW m, NEW max,
         MaxBefore(p, i, m),
         Known(p + Length(chunk, p, i)),
         \A q : q # p => segs'[q] = segs[q] /\ type'[q] = type[q],
         \/ /\ m = 0 \/ Through(p, i) > m
            /\ max = Through(p, i)
            /\ segs'[p] = Length(chunk, p, i) /\ type'[p] = Origin(chunk, p, i)
         \/ /\ m # 0 /\ ~(Through(p, i) > m)
            /\ max = m /\ segs' = segs /\ type' = type
  PROVE  MaxBefore(p, i + 1, max)'
<1>1. /\ i \in Nat \ {0} /\ Count(chunk, p) \in Nat
      /\ i + 1 > 1 /\ i + 1 # 1 /\ i + 1 - 1 = i
  BY CandidateFacts DEF Inv, ControlOK
<1>2. ASSUME NEW j \in 1 .. i
      PROVE  Known(p + Length(chunk, p, j)) /\ Through(p, j) \in Int /\ Through(p, j) < 0
  <2>1. j \in 1 .. Count(chunk, p)
    BY <1>1
  <2>2. /\ Weight(chunk, p, j) \in Int /\ Weight(chunk, p, j) < 0
        /\ Length(chunk, p, j) \in 1 .. chunk.sz - p
    BY <2>1, CandidateFacts DEF Inv, ControlOK
  <2>3. chunk.sz \in Nat /\ p \in Nat
    BY SizesAssumption DEF Inv, TypeOK, Chunk, Pos
  <2>4. p + Length(chunk, p, j) \in 0 .. chunk.sz
    BY <2>2, <2>3
  <2>5. Known(p + Length(chunk, p, j))
    BY <1>1 DEF MaxBefore
  <2>6. /\ Value(p + Length(chunk, p, j)) \in Int
        /\ Value(p + Length(chunk, p, j)) <= 0
    BY <2>4, <2>5, ValueNotPositive
  <2> QED
    BY <2>2, <2>5, <2>6 DEF Through
<1>3. /\ max \in Int /\ max < 0
      /\ \A j \in 1 .. i : Through(p, j) <= max
  <2>1. i \in 1 .. i
    BY <1>1
  <2>2. Through(p, i) \in Int /\ Through(p, i) < 0
    BY <1>2, <2>1
  <2>3. /\ m \in Int
        /\ i = 1 => m = 0
        /\ i > 1 => m < 0
        /\ \A j \in 1 .. i - 1 : Through(p, j) <= m
    BY DEF MaxBefore
  <2>4. \A j \in 1 .. i : j = i \/ j \in 1 .. i - 1
    BY <1>1
  <2>5. /\ max \in Int /\ max < 0 /\ Through(p, i) <= max
        /\ i > 1 => m <= max
    BY <1>1, <2>2, <2>3
  <2>6. ASSUME NEW j \in 1 .. i - 1
        PROVE  Through(p, j) <= max
    BY <1>1, <1>2, <2>3, <2>5
  <2> QED
    BY <2>4, <2>5, <2>6
<1>4. Attained(p, 1 .. i, max)'
  <2>1. \A j : Through(p, j)' = Through(p, j)
    BY SameWeights
  <2>2. CASE /\ max = Through(p, i)
             /\ segs'[p] = Length(chunk, p, i) /\ type'[p] = Origin(chunk, p, i)
    <3>1. i \in 1 .. i
      BY <1>1
    <3> QED
      BY <2>1, <2>2, <3>1 DEF Attained
  <2>3. CASE m # 0 /\ max = m /\ segs' = segs /\ type' = type
    <3>1. Attained(p, 1 .. i - 1, max)
      BY <1>1, <2>3 DEF MaxBefore
    <3>2. \A j \in 1 .. i - 1 : j \in 1 .. i
      BY <1>1
    <3> QED
      BY <2>1, <2>3, <3>1, <3>2 DEF Attained
  <2> QED
    BY <2>2, <2>3
<1>5. \A j \in 1 .. i : Known(p + Length(chunk, p, j))' /\ (Through(p, j) <= max)'
  BY <1>2, <1>3, SameWeights
<1> QED
  BY <1>1, <1>3, <1>4, <1>5 DEF MaxBefore

(* Comparing the value returned with the best so far keeps the best of the candidates tried. *)
LEMMA ResumeInv ==
  ASSUME Inv, Resume
  PROVE  Inv'
<1>1. PICK n, p, i, m, rightside, max, new :
        /\ n = Len(stack) /\ p = Top.start /\ i = Top.i /\ m = Top.max
        /\ rightside = ret + Weight(chunk, p, i)
        /\ max = IF m = 0 \/ rightside > m THEN rightside ELSE m
        /\ new = [start |-> p, i |-> i + 1, max |-> max]
  OBVIOUS
<1>2. /\ pc = "return" /\ pc' = "loop" /\ stack # <<>>
      /\ chunk' = chunk /\ prob' = prob
      /\ arg' = arg /\ ret' = ret /\ cur' = cur /\ words' = words
      /\ stack' = [stack EXCEPT ![n] = new]
      /\ segs' = IF m = 0 \/ rightside > m
                   THEN [segs EXCEPT ![p] = Length(chunk, p, i)] ELSE segs
      /\ type' = IF m = 0 \/ rightside > m
                   THEN [type EXCEPT ![p] = Origin(chunk, p, i)] ELSE type
  BY <1>1 DEF Resume, Better, Taken
<1>3. /\ n \in Nat \ {0} /\ Top \in Frame /\ Top = stack[n]
      /\ p \in Pos /\ p < chunk.sz /\ prob[p] = 0
      /\ MaxBefore(p, i, m)
      /\ i \in Nat \ {0} /\ m \in Int
  BY <1>1, <1>2, TopFacts DEF FrameOK, Frame, Top
<1>4. /\ i \in 1 .. Count(chunk, p)
      /\ Count(chunk, p) \in Nat
      /\ Length(chunk, p, i) \in 1 .. chunk.sz - p
      /\ Origin(chunk, p, i) \in SUBSET {1, 2}
  <2>1. Count(chunk, p) \in Nat /\ chunk \in Chunks
    BY <1>3, CandidateFacts DEF Inv, ControlOK
  <2>2. i \in 1 .. Count(chunk, p)
    BY <1>1, <1>2, <1>3, <2>1 DEF Inv, ControlOK
  <2> QED
    BY <1>3, <2>1, <2>2, CandidateFacts
<1>5. Known(p + Length(chunk, p, i)) /\ rightside = Through(p, i)
  <2>1. Wanted = p + Length(chunk, p, i)
    BY <1>1, <1>2 DEF Wanted, Target
  <2>2. Known(Wanted) /\ ret = Value(Wanted)
    BY <1>2 DEF Inv, ControlOK
  <2>3. ret \in Int /\ Weight(chunk, p, i) \in Int
    BY <1>3, <1>4, CandidateFacts DEF Inv, TypeOK, ControlOK
  <2> QED
    BY <1>1, <2>1, <2>2, <2>3 DEF Through
<1>6. /\ segs \in [Pos -> 0 .. N] /\ type \in [Pos -> SUBSET {1, 2}]
      /\ stack \in Seq(Frame)
  BY DEF Inv, TypeOK
<1>7. /\ \A q : q # p => segs'[q] = segs[q] /\ type'[q] = type[q]
      /\ m = 0 \/ rightside > m => /\ segs'[p] = Length(chunk, p, i)
                                   /\ type'[p] = Origin(chunk, p, i)
  BY <1>2, <1>3, <1>6
<1>16. \A q, j, v : q # p => (MaxBefore(q, j, v)' <=> MaxBefore(q, j, v))
  <2>1. \A q : (Known(q)' <=> Known(q)) /\ Value(q)' = Value(q)
    BY <1>2 DEF Known, Value
  <2>2. \A q, j : Through(q, j)' = Through(q, j)
    BY <1>2, <2>1 DEF Through
  <2>3. \A q, J, v : q # p => (Attained(q, J, v)' <=> Attained(q, J, v))
    BY <1>2, <1>7, <2>2 DEF Attained
  <2> QED
    BY <1>2, <2>1, <2>2, <2>3 DEF MaxBefore
<1>8. MaxBefore(p, i + 1, max)'
  <2>1. \/ /\ m = 0 \/ Through(p, i) > m
           /\ max = Through(p, i)
           /\ segs'[p] = Length(chunk, p, i) /\ type'[p] = Origin(chunk, p, i)
        \/ /\ m # 0 /\ ~(Through(p, i) > m)
           /\ max = m /\ segs' = segs /\ type' = type
    BY <1>1, <1>2, <1>5, <1>7
  <2> QED
    BY <1>2, <1>3, <1>4, <1>5, <1>7, <2>1, MaxStep
<1>9. /\ new \in Frame
      /\ stack' \in Seq(Frame) /\ Len(stack') = n
      /\ \A k \in 1 .. n : stack'[k] = IF k = n THEN new ELSE stack[k]
  <2>1. max \in Int
    BY <1>8 DEF MaxBefore
  <2>2. new \in Frame
    BY <1>1, <1>3, <2>1 DEF Frame
  <2>3. n \in 1 .. Len(stack)
    BY <1>1, <1>3
  <2> QED
    BY <1>1, <1>2, <1>6, <2>2, <2>3, ExceptSeq
<1>10. TypeOK'
  <2>1. chunk.sz \in 0 .. N /\ N \in Nat
    BY SizesAssumption DEF Inv, TypeOK, Chunk
  <2>2. Length(chunk, p, i) \in 0 .. N
    BY <1>3, <1>4, <2>1 DEF Pos
  <2>3. segs' \in [Pos -> 0 .. N] /\ type' \in [Pos -> SUBSET {1, 2}]
    BY <1>2, <1>4, <1>6, <2>2
  <2> QED
    BY <1>2, <1>9, <2>3 DEF Inv, TypeOK
<1>11. ControlOK'
  BY <1>2, <1>3, <1>9, EmptySeq DEF Inv, ControlOK
<1>12. MemoOK'
  <2>1. ASSUME NEW q \in Pos, q < chunk.sz, prob[q] # 0
        PROVE  MaxBefore(q, Count(chunk, q) + 1, prob[q])'
    <3>1. MaxBefore(q, Count(chunk, q) + 1, prob[q])
      BY <2>1 DEF Inv, MemoOK
    <3>2. q # p
      BY <1>3, <2>1
    <3>3. \A j, v : MaxBefore(q, j, v)' <=> MaxBefore(q, j, v)
      BY <1>16, <3>2
    <3> QED
      BY <1>2, <3>1, <3>3
  <2> QED
    BY <1>2, <2>1 DEF MemoOK
<1>13. StackOK'
  <2>1. new.start = p /\ new.i = i + 1 /\ new.max = max
    BY <1>1
  <2>2. FrameOK(new)'
    BY <1>2, <1>3, <1>4, <1>8, <2>1 DEF FrameOK
  <2>3. ASSUME NEW k \in 1 .. n, k # n
        PROVE  FrameOK(stack[k])'
    <3>1. k < n /\ k \in 1 .. Len(stack) /\ n \in 1 .. Len(stack)
      BY <1>1, <1>3, <2>3
    <3>2. stack[k].start < p
      BY <1>1, <1>3, <3>1 DEF Inv, StackIncreasing
    <3>3. PICK f \in Frame : f = stack[k]
      BY <1>6, <3>1, ElementOfSeq
    <3>4. f.start # p
      BY <1>3, <3>2, <3>3 DEF Frame, Pos
    <3>5. FrameOK(f)
      BY <3>1, <3>3 DEF Inv, StackOK
    <3>6. \A j, v : MaxBefore(f.start, j, v)' <=> MaxBefore(f.start, j, v)
      BY <1>16, <3>4
    <3>7. FrameOK(f)'
      BY <1>2, <3>5, <3>6 DEF FrameOK
    <3> QED
      BY <1>9, <2>3, <3>3, <3>7
  <2>4. FrameOK(stack[n])'
    BY <1>3, <1>9, <2>2
  <2> QED
    BY <1>9, <2>3, <2>4 DEF StackOK
<1>14. StackIncreasing'
  <2>1. \A k \in 1 .. n : stack'[k].start = stack[k].start
    BY <1>1, <1>3, <1>9
  <2> QED
    BY <1>1, <1>2, <1>9, <2>1 DEF Inv, StackIncreasing
<1>15. WalkOK'
  BY <1>2 DEF WalkOK
<1>17. ChainOK'
  <2>1. \A k \in 1 .. n : stack'[k].start = stack[k].start
    BY <1>1, <1>3, <1>9
  <2>2. \A k \in 1 .. n - 1 : stack'[k] = stack[k]
    BY <1>3, <1>9
  <2>3. stack'[1].start = 0
    BY <1>2, <1>3, <2>1 DEF Inv, ChainOK
  <2>4. ASSUME NEW k \in 1 .. n - 1
        PROVE  /\ stack'[k].i <= Count(chunk, stack'[k].start)
               /\ stack'[k + 1].start = Target(stack'[k])
    <3>1. k + 1 \in 1 .. n
      BY <1>3
    <3> QED
      BY <1>1, <2>1, <2>2, <3>1 DEF Inv, ChainOK
  <2> QED
    BY <1>2, <1>9, <2>3, <2>4 DEF ChainOK, Target
<1> QED
  BY <1>10, <1>11, <1>12, <1>13, <1>14, <1>15, <1>17 DEF Inv

(* What the last candidate leaves is the optimum, and becomes the memo. *)
LEMMA FinishInv ==
  ASSUME Inv, Finish
  PROVE  Inv'
<1>1. PICK n, p, max : n = Len(stack) /\ p = Top.start /\ max = Top.max
  OBVIOUS
<1>2. /\ pc = "loop" /\ pc' = "return" /\ stack # <<>>
      /\ Top.i > Count(chunk, p)
      /\ prob' = [prob EXCEPT ![p] = max]
      /\ ret' = max
      /\ stack' = SubSeq(stack, 1, n - 1)
      /\ chunk' = chunk /\ arg' = arg /\ segs' = segs /\ type' = type
      /\ cur' = cur /\ words' = words
  BY <1>1 DEF Finish, Inv, ControlOK
<1>3. /\ n \in Nat \ {0} /\ Top \in Frame /\ Top = stack[n] /\ FrameOK(Top)
      /\ p \in Pos /\ p < chunk.sz /\ prob[p] = 0
  BY <1>1, <1>2, TopFacts DEF FrameOK, Frame, Top
<1>4. Count(chunk, p) \in Nat \ {0} /\ Top.i = Count(chunk, p) + 1
  <2>1. Count(chunk, p) \in Nat \ {0}
    BY <1>3, CandidateFacts DEF Inv, ControlOK
  <2>2. Top.i <= Count(chunk, p) + 1 /\ Top.i \in Nat
    BY <1>1, <1>3 DEF FrameOK, Frame
  <2> QED
    BY <1>2, <2>1, <2>2
<1>5. MaxBefore(p, Count(chunk, p) + 1, max) /\ max \in Int /\ max < 0
  <2>1. MaxBefore(p, Count(chunk, p) + 1, max)
    BY <1>1, <1>3, <1>4 DEF FrameOK
  <2> QED
    BY <1>4, <2>1 DEF MaxBefore
<1>7. /\ prob \in [Pos -> Int] /\ stack \in Seq(Frame) /\ chunk \in Chunks
      /\ chunk.sz \in 0 .. N /\ N \in Nat
  BY SizesAssumption DEF Inv, TypeOK, ControlOK, Chunk
<1>18. ASSUME NEW q \in 0 .. chunk.sz, Known(q)
       PROVE  Known(q)' /\ Value(q)' = Value(q)
  <2>1. CASE q = chunk.sz
    BY <1>2, <2>1 DEF Known, Value
  <2>2. CASE q # chunk.sz
    <3>1. q \in Pos /\ prob[q] # 0 /\ q # p
      BY <1>3, <1>7, <1>18, <2>2 DEF Known, Pos
    <3>2. prob'[q] = prob[q]
      BY <1>2, <1>7, <3>1
    <3> QED
      BY <1>2, <2>2, <3>1, <3>2 DEF Known, Value
  <2> QED
    BY <2>1, <2>2
(* Memoising one more position keeps every maximum found so far. *)
<1>6. ASSUME NEW q \in Pos, NEW i \in 1 .. Count(chunk, q) + 1, NEW v,
             q < chunk.sz, MaxBefore(q, i, v)
      PROVE  MaxBefore(q, i, v)'
  <2>1. ASSUME NEW j \in 1 .. i - 1
        PROVE  Known(q + Length(chunk, q, j))' /\ Through(q, j)' = Through(q, j)
    <3>1. j \in 1 .. Count(chunk, q)
      BY <1>6, <1>7, CandidateFacts
    <3>2. PICK r : r = q + Length(chunk, q, j)
      OBVIOUS
    <3>3. r \in 0 .. chunk.sz
      BY <1>6, <1>7, <3>1, <3>2, CandidateFacts DEF Pos
    <3>4. Known(r)
      BY <1>6, <3>2 DEF MaxBefore
    <3>5. Known(r)' /\ Value(r)' = Value(r)
      BY <1>18, <3>3, <3>4
    <3>6. r = q + Length(chunk', q, j)
      BY <1>2, <3>2
    <3> QED
      BY <1>2, <3>2, <3>5, <3>6 DEF Through
  <2>2. \A j \in 1 .. i - 1 : Known(q + Length(chunk, q, j))' /\ (Through(q, j) <= v)'
    BY <1>6, <2>1 DEF MaxBefore
  <2>3. i > 1 => Attained(q, 1 .. i - 1, v)'
    BY <1>2, <1>6, <2>1 DEF MaxBefore, Attained
  <2> QED
    BY <1>6, <2>2, <2>3 DEF MaxBefore
<1>8. /\ stack' \in Seq(Frame) /\ Len(stack') = n - 1
      /\ \A k \in 1 .. n - 1 : stack'[k] = stack[k]
  <2>1. \A k \in 1 .. n - 1 : stack[k] \in Frame
    BY <1>1, <1>3, <1>7, ElementOfSeq
  <2>2. n - 1 \in Int /\ 1 \in Int
    BY <1>3
  <2>3. /\ SubSeq(stack, 1, n - 1) \in Seq(Frame)
        /\ Len(SubSeq(stack, 1, n - 1)) = IF 1 <= n - 1 THEN n - 1 - 1 + 1 ELSE 0
        /\ \A k \in 1 .. n - 1 - 1 + 1 : SubSeq(stack, 1, n - 1)[k] = stack[1 + k - 1]
    BY <2>1, <2>2, SubSeqProperties
  <2> QED
    BY <1>2, <1>3, <2>3
<1>9. TypeOK'
  BY <1>2, <1>3, <1>5, <1>7, <1>8 DEF Inv, TypeOK
<1>10. Known(p)' /\ Value(p)' = max
  <2>1. prob'[p] = max
    BY <1>2, <1>3, <1>7
  <2>2. p # chunk.sz
    BY <1>3, <1>7 DEF Pos
  <2> QED
    BY <1>2, <1>5, <2>1, <2>2 DEF Known, Value
<1>11. Wanted' = p /\ (stack' # <<>> => Top'.i <= Count(chunk, Top'.start))
  <2>1. CASE n = 1
    <3>1. stack' = <<>>
      BY <1>8, <2>1, EmptySeq
    <3>2. p = 0
      BY <1>1, <1>2, <1>3, <2>1 DEF Inv, ChainOK
    <3> QED
      BY <3>1, <3>2 DEF Wanted
  <2>2. CASE n # 1
    <3>1. n - 1 \in 1 .. Len(stack) - 1 /\ n - 1 + 1 = n
      BY <1>1, <1>3, <2>2
    <3>2. stack' # <<>> /\ Top' = stack[n - 1]
      BY <1>3, <1>8, <3>1, EmptySeq DEF Top
    <3>3. /\ stack[n - 1].i <= Count(chunk, stack[n - 1].start)
          /\ stack[n].start = Target(stack[n - 1])
      BY <3>1 DEF Inv, ChainOK
    <3>4. p = Top'.start + Length(chunk, Top'.start, Top'.i)
      BY <1>1, <1>3, <3>2, <3>3 DEF Target
    <3>5. Wanted' = p
      BY <1>2, <3>2, <3>4 DEF Wanted, Target
    <3> QED
      BY <3>2, <3>3, <3>5
  <2> QED
    BY <2>1, <2>2
<1>12. ControlOK'
  <2>1. Known(Wanted)' /\ ret' = Value(Wanted)'
    BY <1>2, <1>10, <1>11 DEF Known, Value
  <2> QED
    BY <1>2, <1>7, <1>11, <2>1 DEF ControlOK
<1>13. MemoOK'
  <2>1. ASSUME NEW q \in Pos, q < chunk.sz, prob'[q] # 0
        PROVE  MaxBefore(q, Count(chunk, q) + 1, prob[q])'
    <3>1. PICK i, v : i = Count(chunk, q) + 1 /\ v = prob'[q]
      OBVIOUS
    <3>2. i \in 1 .. Count(chunk, q) + 1
      BY <1>7, <2>1, <3>1, CandidateFacts
    <3>3. MaxBefore(q, i, v)
      <4>1. CASE q = p
        BY <1>2, <1>5, <1>7, <3>1, <4>1
      <4>2. CASE q # p
        BY <1>2, <1>7, <2>1, <3>1, <4>2 DEF Inv, MemoOK
      <4> QED
        BY <4>1, <4>2
    <3>4. MaxBefore(q, i, v)'
      BY <1>6, <2>1, <3>2, <3>3
    <3> QED
      BY <1>2, <3>1, <3>4
  <2> QED
    BY <1>2, <2>1 DEF MemoOK
<1>14. StackOK'
  <2>1. ASSUME NEW k \in 1 .. n - 1
        PROVE  FrameOK(stack[k])'
    <3>1. k \in 1 .. Len(stack) /\ n \in 1 .. Len(stack) /\ k < n
      BY <1>1, <1>3
    <3>2. PICK f \in Frame : f = stack[k]
      BY <1>7, <3>1, ElementOfSeq
    <3>3. f.start < p
      BY <1>1, <1>3, <3>1, <3>2 DEF Inv, StackIncreasing
    <3>4. f.start \in Pos /\ f.start # p
      BY <1>3, <3>2, <3>3 DEF Frame, Pos
    <3>5. FrameOK(f)
      BY <3>1, <3>2 DEF Inv, StackOK
    <3>6. f.i \in 1 .. Count(chunk, f.start) + 1
      BY <1>7, <3>2, <3>4, <3>5, CandidateFacts DEF FrameOK, Frame
    <3>7. MaxBefore(f.start, f.i, f.max)'
      BY <1>6, <3>4, <3>5, <3>6 DEF FrameOK
    <3>8. prob'[f.start] = 0
      BY <1>2, <1>7, <3>4, <3>5 DEF FrameOK
    <3>9. FrameOK(f)'
      BY <1>2, <3>5, <3>7, <3>8 DEF FrameOK
    <3>10. stack'[k] = f
      BY <1>8, <3>2
    <3> QED
      BY <3>9, <3>10
  <2> QED
    BY <1>8, <2>1 DEF StackOK
<1>15. StackIncreasing'
  BY <1>1, <1>2, <1>3, <1>8 DEF Inv, StackIncreasing
<1>16. ChainOK'
  <2>1. stack' # <<>> => stack'[1].start = 0
    BY <1>2, <1>3, <1>8, EmptySeq DEF Inv, ChainOK
  <2>2. ASSUME NEW k \in 1 .. n - 2
        PROVE  /\ stack'[k].i <= Count(chunk, stack'[k].start)
               /\ stack'[k + 1].start = Target(stack'[k])
    <3>1. /\ k \in 1 .. Len(stack) - 1 /\ k \in 1 .. n - 1
          /\ k + 1 \in 1 .. n - 1
      BY <1>1, <1>3
    <3> QED
      BY <1>8, <3>1 DEF Inv, ChainOK
  <2>3. Len(stack') - 1 = n - 2
    BY <1>3, <1>8
  <2> QED
    BY <1>2, <2>1, <2>2, <2>3 DEF ChainOK, Target
<1>17. WalkOK'
  BY <1>2 DEF WalkOK
<1> QED
  BY <1>9, <1>12, <1>13, <1>14, <1>15, <1>16, <1>17 DEF Inv

-----------------------------------------------------------------------------
(* The caller's walk and the next chunk.                                   *)

(* The walk starts when the memo of position 0 is complete. *)
LEMMA WalkInv ==
  ASSUME Inv, StartWalk \/ EndWalk
  PROVE  Inv'
<1> USE DEF StartWalk, EndWalk
<1>1. pc' \in {"walk", "done"} /\ stack = <<>>
  BY DEF Inv, ControlOK
<1>2. Known(0)
  BY DEF Inv, ControlOK, Wanted
<1>3. chunk.sz \in 0 .. N /\ N \in Nat
  BY SizesAssumption DEF Inv, TypeOK, Chunk
<1>4. TypeOK'
  BY <1>3 DEF Inv, TypeOK
<1>5. ControlOK'
  BY <1>1, <1>2, SameMemo DEF Inv, ControlOK
<1>6. MemoOK' /\ StackOK' /\ ChainOK' /\ StackIncreasing'
  BY SameMemo DEF Inv, StackOK, ChainOK, StackIncreasing
<1>7. WalkOK'
  <2>1. CASE StartWalk
    BY <1>2, <1>3, <2>1, SameMemo DEF WalkOK
  <2>2. CASE EndWalk
    BY <1>3, <2>2 DEF Inv, WalkOK, TypeOK
  <2> QED
    BY <2>1, <2>2
<1> QED
  BY <1>4, <1>5, <1>6, <1>7 DEF Inv

(* A word is cut where the memo is known, so it stays inside the chunk and *)
(* ends where the memo is known again.                                     *)
LEMMA CutFacts ==
  ASSUME Inv, CutWord
  PROVE  /\ cur \in Pos /\ cur < chunk.sz
         /\ segs[cur] \in 1 .. chunk.sz - cur
         /\ cur + segs[cur] \in 0 .. chunk.sz
         /\ Known(cur + segs[cur])
         /\ prob[cur] \in Int /\ Value(cur + segs[cur]) \in Int
         /\ \E i \in 1 .. Count(chunk, cur) :
              /\ segs[cur] = Length(chunk, cur, i)
              /\ type[cur] = Origin(chunk, cur, i)
              /\ prob[cur] - Value(cur + segs[cur]) = Weight(chunk, cur, i)
<1>1. /\ chunk.sz \in 0 .. N /\ N \in Nat /\ chunk \in Chunks
      /\ prob \in [Pos -> Int]
  BY SizesAssumption DEF Inv, TypeOK, ControlOK, Chunk
<1>2. cur \in Pos /\ cur < chunk.sz /\ prob[cur] # 0
  BY <1>1 DEF CutWord, Inv, TypeOK, WalkOK, Known, Pos
<1>3. MaxBefore(cur, Count(chunk, cur) + 1, prob[cur])
  BY <1>2 DEF Inv, MemoOK
<1>4. Count(chunk, cur) \in Nat \ {0}
  BY <1>1, <1>2, CandidateFacts
<1>5. PICK i \in 1 .. Count(chunk, cur) :
        /\ segs[cur] = Length(chunk, cur, i)
        /\ type[cur] = Origin(chunk, cur, i)
        /\ prob[cur] = Through(cur, i)
        /\ Known(cur + Length(chunk, cur, i))
  BY <1>3, <1>4 DEF MaxBefore, Attained
<1>6. /\ Length(chunk, cur, i) \in 1 .. chunk.sz - cur
      /\ Weight(chunk, cur, i) \in Int
  BY <1>1, <1>2, CandidateFacts
<1>7. cur + segs[cur] \in 0 .. chunk.sz
  BY <1>1, <1>2, <1>5, <1>6 DEF Pos
<1>8. Value(cur + segs[cur]) \in Int
  BY <1>5, <1>7, ValueNotPositive
<1>9. prob[cur] - Value(cur + segs[cur]) = Weight(chunk, cur, i)
  BY <1>5, <1>6, <1>8 DEF Through
<1> QED
  BY <1>1, <1>2, <1>5, <1>6, <1>7, <1>8, <1>9

(* One step of the walk leaves the memo alone and stays on memoised positions. *)
LEMMA CutInv ==
  ASSUME Inv, CutWord
  PROVE  Inv'
<1>1. PICK next, w :
        /\ next = cur + segs[cur]
        /\ w = [at   |-> cur, len |-> segs[cur], type |-> type[cur],
                freq |-> IF next < chunk.sz THEN prob[cur] - prob[next]
                         ELSE prob[cur]]
  OBVIOUS
<1>2. /\ pc = "walk" /\ pc' = "walk"
      /\ words' = Append(words, w) /\ cur' = next
      /\ chunk' = chunk /\ arg' = arg /\ ret' = ret /\ stack' = stack
      /\ prob' = prob /\ segs' = segs /\ type' = type
  BY <1>1 DEF CutWord
<1>3. /\ cur \in Pos /\ segs[cur] \in 1 .. chunk.sz - cur
      /\ next \in 0 .. chunk.sz /\ Known(next)
      /\ prob[cur] \in Int /\ Value(next) \in Int
  BY <1>1, CutFacts
<1>4. chunk.sz \in 0 .. N /\ N \in Nat
  BY SizesAssumption DEF Inv, TypeOK, Chunk
<1>5. w \in Word
  <2>1. segs[cur] \in 1 .. N /\ type[cur] \in SUBSET {1, 2}
    BY <1>3, <1>4 DEF Inv, TypeOK, Pos
  <2>2. next < chunk.sz => prob[next] \in Int
    BY <1>3, <1>4 DEF Value
  <2> QED
    BY <1>1, <1>3, <2>1, <2>2 DEF Word
<1>6. TypeOK'
  <2>1. words' \in Seq(Word)
    BY <1>2, <1>5, AppendProperties DEF Inv, TypeOK
  <2>2. cur' \in 0 .. N
    BY <1>2, <1>3, <1>4
  <2> QED
    BY <1>2, <2>1, <2>2 DEF Inv, TypeOK
<1>7. MemoOK' /\ StackOK' /\ ChainOK' /\ StackIncreasing'
  BY <1>2, SameMemo DEF Inv, StackOK, ChainOK, StackIncreasing
<1>8. ControlOK'
  BY <1>2, SameMemo DEF Inv, ControlOK
<1>9. WalkOK'
  BY <1>2, <1>3, <1>4 DEF WalkOK, Known
<1> QED
  BY <1>6, <1>7, <1>8, <1>9 DEF Inv

(* get_segs clears prob for the next chunk: nothing old is trusted. *)
LEMMA NextChunkInv ==
  ASSUME Inv, NextChunk
  PROVE  Inv'
<1>1. /\ chunk' \in Chunks /\ chunk' \in Chunk
      /\ chunk'.sz \in 0 .. N /\ N \in Nat
  BY ChunksAssumption, SizesAssumption DEF NextChunk, Chunk
<1>2. /\ pc' = "enter" /\ arg' = 0 /\ words' = <<>>
      /\ ret' = ret /\ stack' = <<>> /\ segs' = segs /\ type' = type
      /\ cur' = cur
      /\ prob' = [p \in Pos |-> IF p < chunk'.sz THEN 0 ELSE prob[p]]
  BY DEF NextChunk, Inv, ControlOK
<1>3. TypeOK'
  <2>1. prob' \in [Pos -> Int]
    BY <1>2 DEF Inv, TypeOK
  <2> QED
    BY <1>1, <1>2, <2>1, EmptySeq DEF Inv, TypeOK
<1>4. ControlOK' /\ WalkOK'
  BY <1>1, <1>2 DEF ControlOK, WalkOK, Wanted
<1>5. MemoOK'
  BY <1>2 DEF MemoOK
<1>6. StackOK' /\ ChainOK' /\ StackIncreasing'
  BY <1>2, EmptySeq DEF StackOK, ChainOK, StackIncreasing
<1> QED
  BY <1>3, <1>4, <1>5, <1>6 DEF Inv

-----------------------------------------------------------------------------
(* Inv holds in every reachable state: the search may trust its memo and   *)
(* its caller may trust segs.                                              *)
LEMMA StepInv == Inv /\ [Next]_vars => Inv'
<1> SUFFICES ASSUME Inv, [Next]_vars
             PROVE  Inv'
  OBVIOUS
<1>1. CASE Search
  BY <1>1, ReturnInv, EnterInv, RecurseInv, ResumeInv, FinishInv DEF Search
<1>2. CASE Walk
  BY <1>2, WalkInv, CutInv DEF Walk
<1>3. CASE NextChunk
  BY <1>3, NextChunkInv
<1>4. CASE UNCHANGED vars
  <2>1. /\ chunk' = chunk /\ prob' = prob /\ segs' = segs /\ type' = type
        /\ pc' = pc /\ arg' = arg /\ ret' = ret /\ stack' = stack
        /\ cur' = cur /\ words' = words
    BY <1>4 DEF vars
  <2>2. TypeOK'
    BY <2>1 DEF Inv, TypeOK
  <2>3. MemoOK' /\ StackOK' /\ ChainOK' /\ StackIncreasing'
    BY <2>1, SameMemo DEF Inv, StackOK, ChainOK, StackIncreasing
  <2>4. ControlOK'
    <3>1. Wanted' = Wanted /\ Top' = Top
      BY <2>1 DEF Wanted, Top, Target
    <3> QED
      BY <2>1, <3>1 DEF Inv, ControlOK, Known, Value
  <2>5. WalkOK'
    BY <2>1 DEF Inv, WalkOK, Known
  <2> QED
    BY <2>2, <2>3, <2>4, <2>5 DEF Inv
<1> QED
  BY <1>1, <1>2, <1>3, <1>4 DEF Next

(* The inductive invariant of search and walk holds in every reachable state. *)
THEOREM InvHolds == Spec => []Inv
<1> QED
  BY InitInv, StepInv, PTL DEF Spec

(* The search and the walk keep every variable in its type: in particular  *)
(* no index leaves the arrays that get_segs_ex allocates.                  *)
THEOREM TypeCorrect == Spec => []TypeOK
<1>1. Inv => TypeOK
  BY DEF Inv
<1> QED
  BY <1>1, InvHolds, PTL

(* The calls of get_seg_ids on the stack start at increasing positions of  *)
(* the chunk, so the recursion is never deeper than the chunk is long.     *)
THEOREM RecursionForward == Spec => []StackIncreasing
<1>1. Inv => StackIncreasing
  BY DEF Inv
<1> QED
  BY <1>1, InvHolds, PTL

(* A memoised value is the maximum over the candidates of its position and *)
(* segs and type name the candidate that attains it.                       *)
THEOREM MemoTrusted == Spec => []MemoOptimal
<1>1. Inv => MemoOptimal
  <2> SUFFICES ASSUME Inv, NEW p \in Pos, p < chunk.sz, prob[p] # 0
               PROVE  /\ \A i \in 1 .. Count(chunk, p) :
                           /\ Known(p + Length(chunk, p, i))
                           /\ Through(p, i) <= prob[p]
                      /\ \E i \in 1 .. Count(chunk, p) :
                           /\ segs[p] = Length(chunk, p, i)
                           /\ type[p] = Origin(chunk, p, i)
                           /\ prob[p] = Through(p, i)
    BY DEF MemoOptimal
  <2>1. Count(chunk, p) \in Nat \ {0}
    BY CandidateFacts DEF Inv, ControlOK
  <2>2. MaxBefore(p, Count(chunk, p) + 1, prob[p])
    BY DEF Inv, MemoOK
  <2>3. PICK n, v : n = Count(chunk, p) /\ v = prob[p]
    OBVIOUS
  <2>4. n \in Nat \ {0}
    BY <2>1, <2>3
  <2>5. MaxBefore(p, n + 1, v)
    BY <2>2, <2>3
  <2>6. /\ \A i \in 1 .. n : /\ Known(p + Length(chunk, p, i))
                             /\ Through(p, i) <= v
        /\ Attained(p, 1 .. n, v)
    BY <2>4, <2>5 DEF MaxBefore
  <2> QED
    BY <2>3, <2>6 DEF Attained
<1> QED
  BY <1>1, InvHolds, PTL

-----------------------------------------------------------------------------
(* The words the walk cuts.                                                *)
WordsOK ==
  /\ pc \notin {"walk", "done"} => words = <<>>
  /\ WordsTile
  /\ WordsTruthful

(* There are no words before the first walk. *)
LEMMA InitWords == Init => WordsOK
  BY EmptySeq DEF Init, WordsOK, WordsTile, WordsTruthful

(* A word cut from segs starts where the last one ended and is a candidate. *)
LEMMA CutWords ==
  ASSUME Inv, WordsOK, CutWord
  PROVE  WordsOK'
<1>1. PICK n, w, q, next :
        /\ n = Len(words) /\ q = cur /\ next = cur + segs[cur]
        /\ w = [at   |-> cur, len |-> segs[cur], type |-> type[cur],
                freq |-> IF next < chunk.sz THEN prob[cur] - prob[next]
                         ELSE prob[cur]]
  OBVIOUS
<1>2. /\ pc = "walk" /\ pc' = "walk" /\ chunk' = chunk
      /\ words' = Append(words, w) /\ cur' = next
  BY <1>1 DEF CutWord
<1>3. /\ q \in Pos /\ next \in 0 .. chunk.sz
      /\ chunk \in Chunks /\ chunk.sz \in 0 .. N /\ N \in Nat
  BY <1>1, CutFacts, SizesAssumption DEF Inv, TypeOK, ControlOK, Chunk
<1>4. w.at = q /\ w.at + w.len = next
  BY <1>1
<1>5. PICK i \in 1 .. Count(chunk, q) :
        /\ w.len  = Length(chunk, q, i)
        /\ w.type = Origin(chunk, q, i)
        /\ w.freq = Weight(chunk, q, i)
  <2>1. w.freq = prob[q] - Value(next)
    BY <1>1, <1>3, CutFacts DEF Value
  <2> QED
    BY <1>1, <2>1, CutFacts
<1>6. 1 \in w.type <=> \E j \in 1 .. DictCount(chunk, q) :
                         Length(chunk, q, j) = w.len
  <2>1. Count(chunk, q) \in Nat /\ DictCount(chunk, q) \in Nat
    BY <1>1, <1>3, CutFacts, MatchesInChunk
  <2>2. i <= DictCount(chunk, q) => i \in 1 .. DictCount(chunk, q)
    BY <2>1
  <2> QED
    BY <1>5, <2>2 DEF Origin
<1>7. /\ n \in Nat /\ Len(words') = n + 1
      /\ words'[n + 1] = w
      /\ \A k \in 1 .. n : words'[k] = words[k]
  BY <1>1, <1>2, LenProperties, AppendProperties DEF Inv, TypeOK
<1>8. \A k \in 1 .. n + 1 : k = n + 1 \/ k \in 1 .. n
  BY <1>7
<1>9. WordsTruthful'
  <2> DEFINE Truthful(u) ==
        /\ \E j \in 1 .. Count(chunk, u.at) :
             /\ u.len  = Length(chunk, u.at, j)
             /\ u.type = Origin(chunk, u.at, j)
             /\ u.freq = Weight(chunk, u.at, j)
        /\ 1 \in u.type <=> \E j \in 1 .. DictCount(chunk, u.at) :
                               Length(chunk, u.at, j) = u.len
  <2>1. Truthful(w)
    BY <1>4, <1>5, <1>6
  <2>2. \A k \in 1 .. n : Truthful(words[k])
    BY <1>1 DEF WordsOK, WordsTruthful
  <2>3. \A k \in 1 .. n + 1 : Truthful(words'[k])
    <3> HIDE DEF Truthful
    <3> QED
      BY <1>7, <1>8, <2>1, <2>2
  <2> QED
    BY <1>2, <1>7, <2>3 DEF WordsTruthful
<1>10. WordsTile'
  <2>1. words' # <<>>
    BY <1>7, EmptySeq
  <2>2. ASSUME NEW k \in 1 .. n + 1
        PROVE  /\ words'[k].at + words'[k].len =
                    IF k = n + 1 THEN next ELSE words'[k + 1].at
               /\ k = 1 => words'[k].at = 0
    <3>1. CASE k = n + 1
      <4>1. n = 0 => q = 0
        BY <1>1, <1>2, EmptySeq DEF WordsOK, WordsTile, Inv, TypeOK
      <4> QED
        BY <1>4, <1>7, <3>1, <4>1
    <3>2. CASE k # n + 1
      <4>1. k \in 1 .. n /\ k + 1 \in 1 .. n + 1
        BY <1>7, <3>2
      <4>2. /\ words[k].at + words[k].len =
                 IF k = n THEN q ELSE words[k + 1].at
            /\ k = 1 => words[k].at = 0
        BY <1>1, <1>2, <4>1 DEF WordsOK, WordsTile
      <4>3. k # n => k + 1 \in 1 .. n
        BY <1>7, <4>1
      <4> QED
        BY <1>4, <1>7, <3>2, <4>1, <4>2, <4>3
    <3> QED
      BY <3>1, <3>2
  <2>3. next <= chunk.sz
    BY <1>3
  <2>4. Len(words') = n + 1
    BY <1>7
  <2> QED
    BY <1>2, <2>1, <2>2, <2>3, <2>4 DEF WordsTile
<1> QED
  BY <1>2, <1>9, <1>10 DEF WordsOK

(* Every step keeps the words adjacent and truthful. *)
LEMMA StepWords == Inv /\ WordsOK /\ [Next]_vars => WordsOK'
<1> SUFFICES ASSUME Inv, WordsOK, [Next]_vars
             PROVE  WordsOK'
  OBVIOUS
<1>1. CASE Search
  BY <1>1, EmptySeq
     DEF Search, ReturnEnd, ReturnMemo, Enter, Recurse, Resume, Finish,
         WordsOK, WordsTile, WordsTruthful
<1>2. CASE StartWalk
  BY <1>2, EmptySeq DEF StartWalk, WordsOK, WordsTile, WordsTruthful, Inv, TypeOK, Chunk
<1>3. CASE CutWord
  BY <1>3, CutWords
<1>4. CASE EndWalk
  <2>1. chunk.sz \in Int /\ cur \in Int
    BY SizesAssumption DEF Inv, TypeOK, Chunk
  <2> QED
    BY <1>4, <2>1 DEF EndWalk, WordsOK, WordsTile, WordsTruthful
<1>5. CASE NextChunk
  BY <1>5, EmptySeq DEF NextChunk, WordsOK, WordsTile, WordsTruthful
<1>6. CASE UNCHANGED vars
  BY <1>6 DEF vars, WordsOK, WordsTile, WordsTruthful
<1> QED
  BY <1>1, <1>2, <1>3, <1>4, <1>5, <1>6 DEF Next, Walk

(* The walk of get_segs_ex cuts the chunk into adjacent words that begin   *)
(* where it begins and end where it ends.                                  *)
THEOREM WalkTiles == Spec => []WordsTile
<1>1. WordsOK => WordsTile
  BY DEF WordsOK
<1> QED
  BY <1>1, InitInv, StepInv, InitWords, StepWords, PTL DEF Spec

(* The length, origin and frequency of a word the walk reports are those   *)
(* of one candidate of its position.                                       *)
THEOREM WalkTruthful == Spec => []WordsTruthful
<1>1. WordsOK => WordsTruthful
  BY DEF WordsOK
<1> QED
  BY <1>1, InitInv, StepInv, InitWords, StepWords, PTL DEF Spec

(* The words of a chunk tile it, and each is one of the candidates.        *)
THEOREM WalkRight == Spec => []WordsRight
  BY WalkTiles, WalkTruthful, PTL DEF WordsRight

(* Until the next chunk, what is memoised of a position stays as it is.    *)
THEOREM MemoStays == Spec => MemoFrozen
<1>1. ASSUME Inv, [Next]_vars, pc # "done",
             NEW p \in Pos, p < chunk.sz, prob[p] # 0
      PROVE  prob'[p] = prob[p] /\ segs'[p] = segs[p] /\ type'[p] = type[p]
  <2> DEFINE q == Top.start
  <2>1. prob \in [Pos -> Int] /\ segs \in [Pos -> 0 .. N] /\ type \in [Pos -> SUBSET {1, 2}]
    BY <1>1 DEF Inv, TypeOK
  <2>2. stack # <<>> => p # q
    BY <1>1, TopFacts DEF FrameOK
  <2>3. CASE Resume
    BY <2>1, <2>2, <2>3 DEF Resume, Taken
  <2>4. CASE Finish
    <3>1. stack # <<>>
      BY <1>1, <2>4 DEF Finish, Inv, ControlOK
    <3> QED
      BY <2>1, <2>2, <2>4, <3>1 DEF Finish
  <2>5. CASE ReturnEnd \/ ReturnMemo \/ Enter \/ Recurse \/ Walk
    BY <2>5 DEF ReturnEnd, ReturnMemo, Enter, Recurse, Walk, StartWalk, CutWord, EndWalk
  <2>6. CASE UNCHANGED vars
    BY <2>6 DEF vars
  <2> QED
    BY <1>1, <2>3, <2>4, <2>5, <2>6 DEF Next, Search, NextChunk
<1>2. Inv /\ [Next]_vars =>
        [ pc # "done" =>
            \A p \in Pos : p < chunk.sz /\ prob[p] # 0 =>
               prob'[p] = prob[p] /\ segs'[p] = segs[p] /\ type'[p] = type[p] ]_vars
  BY <1>1
<1> QED
  BY <1>2, InvHolds, PTL DEF Spec, MemoFrozen

-----------------------------------------------------------------------------
(* Total, a fold in whatever order CHOOSE takes the words, is a sum.       *)
First(s) == CHOOSE x \in s : TRUE

SumsOn(D, g) ==
  g = [s \in D |-> IF s = {} THEN 0 ELSE First(s).freq + g[s \ {First(s)}]]

Sums(U, g) == SumsOn(SUBSET U, g)

(* Among sets there is a smallest one. *)
LEMMA Smallest ==
  ASSUME NEW U, IsFiniteSet(U), NEW B, B \subseteq SUBSET U, B # {}
  PROVE  \E s \in B : \A t \in B : Cardinality(s) <= Cardinality(t)
<1>1. \A s \in B : IsFiniteSet(s) /\ Cardinality(s) \in Nat
  BY FS_Subset, FS_CardinalityType
<1> DEFINE sizes == {Cardinality(s) : s \in B}
<1>2. sizes \subseteq Nat /\ sizes # {}
  BY <1>1
<1>3. PICK n \in sizes : \A m \in sizes : ~(<< m, n >> \in OpToRel(<, Nat))
  <2> HIDE DEF sizes
  <2> QED
    BY <1>2, NatLessThanWellFounded, WFMin
<1>4. PICK s \in B : n = Cardinality(s)
  BY <1>3
<1>5. ASSUME NEW t \in B PROVE Cardinality(s) <= Cardinality(t)
  <2>1. Cardinality(t) \in sizes /\ Cardinality(t) \in Nat /\ n \in Nat
    BY <1>1, <1>4
  <2>2. ~(Cardinality(t) < n)
    BY <1>3, <2>1 DEF OpToRel
  <2> QED
    BY <1>4, <2>1, <2>2
<1> QED
  BY <1>4, <1>5

LEMMA FirstIn ==
  ASSUME NEW s, IsFiniteSet(s), s # {}
  PROVE  /\ First(s) \in s /\ IsFiniteSet(s \ {First(s)})
         /\ Cardinality(s) \in Nat /\ Cardinality(s \ {First(s)}) \in Nat
         /\ Cardinality(s \ {First(s)}) = Cardinality(s) - 1
<1>1. First(s) \in s
  BY DEF First
<1> QED
  BY <1>1, FS_RemoveElement, FS_CardinalityType

LEMMA SumsExist ==
  ASSUME NEW U, IsFiniteSet(U)
  PROVE  \E g : Sums(U, g)
<1> DEFINE small(n) == {s \in SUBSET U : Cardinality(s) <= n}
           bad == {n \in Nat : ~ \E g : SumsOn(small(n), g)}
<1>1. \A s \in SUBSET U : IsFiniteSet(s) /\ Cardinality(s) \in Nat
  BY FS_Subset, FS_CardinalityType
<1>2. ASSUME bad # {} PROVE FALSE
  <2>1. bad \subseteq Nat
    OBVIOUS
  <2>2. PICK n \in bad : \A m \in bad : ~(<< m, n >> \in OpToRel(<, Nat))
    BY <1>2, <2>1, NatLessThanWellFounded, WFMin
  <2>3. n \in Nat /\ ~ \E g : SumsOn(small(n), g)
    OBVIOUS
  <2>4. CASE n = 0
    <3> DEFINE g == [s \in small(n) |-> 0]
    <3>1. \A s \in small(n) : s = {}
      BY <1>1, <2>4, FS_EmptySet
    <3>2. SumsOn(small(n), g)
      BY <3>1 DEF SumsOn
    <3> QED
      BY <2>3, <3>2
  <2>5. CASE n # 0
    <3>1. n - 1 \in Nat /\ n - 1 < n
      BY <2>3, <2>5
    <3>2. n - 1 \notin bad
      BY <2>2, <2>3, <3>1 DEF OpToRel
    <3>3. PICK g : SumsOn(small(n - 1), g)
      BY <3>1, <3>2
    <3> DEFINE new(k, s) == IF s = {} THEN 0 ELSE First(s).freq + k[s \ {First(s)}]
               h == [s \in small(n) |-> new(g, s)]
    <3>4. \A t \in small(n - 1) : g[t] = new(g, t)
      BY <3>3 DEF SumsOn
    <3>5. \A t \in small(n - 1) : t \in small(n) /\ h[t] = g[t]
      <4>1. \A t \in small(n - 1) : t \in small(n)
        BY <1>1, <2>3
      <4> HIDE DEF new
      <4> QED
        BY <3>4, <4>1
    <3>6. ASSUME NEW s \in small(n), s # {}
          PROVE  s \ {First(s)} \in small(n - 1)
      <4>1. Cardinality(s) \in Nat /\ Cardinality(s \ {First(s)}) = Cardinality(s) - 1
        BY <1>1, <3>6, FirstIn
      <4>2. Cardinality(s) <= n
        OBVIOUS
      <4> QED
        BY <2>3, <4>1, <4>2
    <3>7. ASSUME NEW s \in small(n) PROVE new(g, s) = new(h, s)
      <4>1. CASE s = {}
        BY <4>1
      <4>2. CASE s # {}
        <5>1. h[s \ {First(s)}] = g[s \ {First(s)}]
          BY <3>5, <3>6, <4>2
        <5> HIDE DEF h
        <5> QED
          BY <4>2, <5>1
      <4> QED
        BY <4>1, <4>2
    <3>8. h = [s \in small(n) |-> new(h, s)]
      <4> HIDE DEF new, small
      <4>1. \A s \in small(n) : new(g, s) = new(h, s)
        BY <3>7
      <4>2. PICK k : k = h
        OBVIOUS
      <4>3. \A s \in small(n) : new(g, s) = new(k, s)
        BY <4>1, <4>2
      <4>4. [s \in small(n) |-> new(g, s)] = [s \in small(n) |-> new(k, s)]
        BY <4>3
      <4> QED
        BY <4>2, <4>4
    <3>9. SumsOn(small(n), h)
      BY <3>8 DEF SumsOn
    <3> QED
      BY <2>3, <3>9
  <2> QED
    BY <2>4, <2>5
<1>3. Cardinality(U) \in Nat
  BY FS_CardinalityType
<1>4. \A s \in SUBSET U : Cardinality(s) <= Cardinality(U)
  BY FS_Subset
<1>5. small(Cardinality(U)) = SUBSET U
  BY <1>4
<1>6. Cardinality(U) \notin bad
  BY <1>2
<1>7. \E g : SumsOn(small(Cardinality(U)), g)
  BY <1>3, <1>6
<1> QED
  BY <1>5, <1>7 DEF Sums

LEMMA SumOf ==
  ASSUME NEW U, NEW g, Sums(U, g)
  PROVE  g[{}] = 0 /\ \A s \in SUBSET U : s # {} => g[s] = First(s).freq + g[s \ {First(s)}]
<1>1. \A s \in SUBSET U : g[s] = IF s = {} THEN 0 ELSE First(s).freq + g[s \ {First(s)}]
  BY DEF Sums, SumsOn
<1> QED
  BY <1>1

(* The sum over a part is the same in a larger set. *)
LEMMA SumsAgree ==
  ASSUME NEW U, IsFiniteSet(U), NEW T, T \subseteq U, NEW g, NEW h, Sums(U, g), Sums(T, h)
  PROVE  \A s \in SUBSET T : g[s] = h[s]
<1> DEFINE B == {s \in SUBSET T : g[s] # h[s]}
<1> SUFFICES ASSUME B # {} PROVE FALSE
  OBVIOUS
<1>1. IsFiniteSet(T)
  BY FS_Subset
<1>2. PICK s \in B : \A t \in B : Cardinality(s) <= Cardinality(t)
  <2>1. B \subseteq SUBSET T
    OBVIOUS
  <2> QED
    BY <1>1, <2>1, Smallest
<1>3. s \in SUBSET T /\ s \in SUBSET U /\ g[s] # h[s] /\ IsFiniteSet(s)
  BY <1>1, FS_Subset
<1>4. s # {}
  BY <1>3, SumOf
<1>5. First(s) \in s /\ Cardinality(s) \in Nat /\ Cardinality(s \ {First(s)}) = Cardinality(s) - 1
  BY <1>3, <1>4, FirstIn
<1>6. s \ {First(s)} \notin B
  BY <1>2, <1>5
<1>7. g[s \ {First(s)}] = h[s \ {First(s)}]
  BY <1>3, <1>6
<1>8. \A t \in SUBSET U : t # {} => g[t] = First(t).freq + g[t \ {First(t)}]
  BY SumOf
<1>9. \A t \in SUBSET T : t # {} => h[t] = First(t).freq + h[t \ {First(t)}]
  BY SumOf
<1> QED
  BY <1>3, <1>4, <1>7, <1>8, <1>9

Weighed(S) == \A x \in S : x.freq \in Int

LEMMA SumAdds ==
  ASSUME NEW U, IsFiniteSet(U), Weighed(U), NEW g, Sums(U, g)
  PROVE  \A s \in SUBSET U : g[s] \in Int /\ \A w \in s : g[s] = w.freq + g[s \ {w}]
<1> DEFINE ok(s) == g[s] \in Int /\ \A w \in s : g[s] = w.freq + g[s \ {w}]
           B == {s \in SUBSET U : ~ok(s)}
<1> SUFFICES ASSUME B # {} PROVE FALSE
  OBVIOUS
<1>1. PICK s \in B : \A t \in B : Cardinality(s) <= Cardinality(t)
  <2>1. B \subseteq SUBSET U
    OBVIOUS
  <2> QED
    BY <2>1, Smallest
<1>2. s \in SUBSET U /\ ~ok(s) /\ IsFiniteSet(s)
  BY FS_Subset
<1>3. s # {}
  <2>1. g[{}] = 0
    BY SumOf
  <2>2. ok({})
    BY <2>1
  <2> QED
    BY <1>2, <2>2
<1>4. PICK x : x = First(s)
  OBVIOUS
<1>5. x \in s /\ Cardinality(s) \in Nat /\ s \subseteq U
  BY <1>2, <1>3, <1>4, FirstIn
<1>6. g[s] = x.freq + g[s \ {x}]
  <2>1. \A t \in SUBSET U : t # {} => g[t] = First(t).freq + g[t \ {First(t)}]
    BY SumOf
  <2> QED
    BY <1>2, <1>3, <1>4, <2>1
<1>7. \A t \in SUBSET U : Cardinality(t) \in Nat /\ Cardinality(t) < Cardinality(s) => ok(t)
  BY <1>1, <1>5
<1>8. \A w \in U : w.freq \in Int
  BY DEF Weighed
<1>9. \A t \in SUBSET s : \A w \in t :
        Cardinality(t \ {w}) \in Nat /\ Cardinality(t \ {w}) < Cardinality(t)
  <2> SUFFICES ASSUME NEW t \in SUBSET s, NEW w \in t
               PROVE  Cardinality(t \ {w}) \in Nat /\ Cardinality(t \ {w}) < Cardinality(t)
    OBVIOUS
  <2>1. IsFiniteSet(t) /\ Cardinality(t) \in Nat
    BY <1>2, FS_Subset, FS_CardinalityType
  <2>2. IsFiniteSet(t \ {w}) /\ Cardinality(t \ {w}) = Cardinality(t) - 1
    BY <2>1, FS_RemoveElement
  <2>3. Cardinality(t \ {w}) \in Nat
    BY <2>2, FS_CardinalityType
  <2> QED
    BY <2>1, <2>2, <2>3
<1>10. \A w \in s : ok(s \ {w}) /\ Cardinality(s \ {w}) \in Nat /\ Cardinality(s \ {w}) < Cardinality(s)
  <2> SUFFICES ASSUME NEW w \in s
               PROVE  ok(s \ {w}) /\ Cardinality(s \ {w}) \in Nat /\ Cardinality(s \ {w}) < Cardinality(s)
    OBVIOUS
  <2> HIDE DEF ok
  <2>1. Cardinality(s \ {w}) \in Nat /\ Cardinality(s \ {w}) < Cardinality(s)
    BY <1>9
  <2>2. s \ {w} \in SUBSET U
    BY <1>2
  <2> QED
    BY <1>7, <2>1, <2>2
<1>11. g[s] \in Int
  <2>1. g[s \ {x}] \in Int
    BY <1>5, <1>10
  <2> QED
    BY <1>5, <1>6, <1>8, <2>1
<1>12. ASSUME NEW w \in s PROVE g[s] = w.freq + g[s \ {w}]
  <2>1. CASE w = x
    BY <1>6, <2>1
  <2>2. CASE w # x
    <3>1. w \in s \ {x} /\ x \in s \ {w}
      BY <1>5, <2>2
    <3>2. g[s \ {x}] = w.freq + g[(s \ {x}) \ {w}]
      BY <1>5, <1>10, <3>1
    <3>3. g[s \ {w}] = x.freq + g[(s \ {w}) \ {x}]
      BY <1>5, <1>10, <3>1
    <3>4. PICK t : t = (s \ {w}) \ {x}
      OBVIOUS
    <3>5. (s \ {x}) \ {w} = t
      BY <3>4
    <3>6. g[t] \in Int
      <4> HIDE DEF ok
      <4>1. Cardinality(t) \in Nat /\ Cardinality(t) < Cardinality(s \ {w})
        <5>1. s \ {w} \in SUBSET s
          OBVIOUS
        <5> QED
          BY <1>9, <3>1, <3>4, <5>1
      <4>2. t \in SUBSET U
        BY <1>2, <3>4
      <4>3. Cardinality(s \ {w}) \in Nat /\ Cardinality(s \ {w}) < Cardinality(s)
        BY <1>10
      <4>4. ok(t)
        BY <1>5, <1>7, <4>1, <4>2, <4>3
      <4> QED
        BY <4>4 DEF ok
    <3>7. w.freq \in Int /\ x.freq \in Int
      BY <1>5, <1>8
    <3>8. g[s] = x.freq + (w.freq + g[t])
      BY <1>6, <3>2, <3>5
    <3>9. g[s \ {w}] = x.freq + g[t]
      BY <3>3, <3>4
    <3> HIDE DEF ok
    <3> QED
      BY <3>6, <3>7, <3>8, <3>9
  <2> QED
    BY <2>1, <2>2
<1> QED
  BY <1>2, <1>11, <1>12

LEMMA TotalIs ==
  ASSUME NEW U, IsFiniteSet(U), NEW g, Sums(U, g), NEW S, S \subseteq U
  PROVE  Promise!Total(S) = g[S]
<1>1. IsFiniteSet(S)
  BY FS_Subset
<1>2. PICK h : h = CHOOSE k : Sums(S, k)
  OBVIOUS
<1>3. Sums(S, h)
  BY <1>1, <1>2, SumsExist
<1>4. Promise!Total(S) = (CHOOSE k : Sums(S, k))[S]
  BY DEF Promise!Total, Promise!MapThenSumSet, Promise!MapThenFoldSet, Sums, SumsOn, First
<1>5. g[S] = h[S]
  BY <1>3, SumsAgree
<1> QED
  BY <1>2, <1>4, <1>5

(* One word more adds its weight. *)
LEMMA TotalAdds ==
  ASSUME NEW S, IsFiniteSet(S), Weighed(S)
  PROVE  /\ Promise!Total(S) \in Int
         /\ \A w \in S : Promise!Total(S) = w.freq + Promise!Total(S \ {w})
<1>1. PICK g : Sums(S, g)
  BY SumsExist
<1>2. g[S] \in Int /\ \A w \in S : g[S] = w.freq + g[S \ {w}]
  <2>1. \A s \in SUBSET S : g[s] \in Int /\ \A w \in s : g[s] = w.freq + g[s \ {w}]
    BY <1>1, SumAdds
  <2>2. S \in SUBSET S
    OBVIOUS
  <2> QED
    BY <2>1, <2>2
<1>3. \A T : T \subseteq S => Promise!Total(T) = g[T]
  BY <1>1, TotalIs
<1> QED
  BY <1>2, <1>3

LEMMA TotalNone == Promise!Total({}) = 0
<1>1. IsFiniteSet({})
  BY FS_EmptySet
<1>2. PICK g : Sums({}, g)
  BY <1>1, SumsExist
<1>3. g[{}] = 0
  BY <1>2, SumOf
<1> QED
  BY <1>1, <1>2, <1>3, TotalIs

(* The pieces of a chunk, as BestSegmentation has them, are its candidates. *)
Placed(c, p, i) == [at |-> p, len |-> Length(c, p, i), freq |-> Weight(c, p, i)]
PiecesAt(c, p) == {Placed(c, p, i) : i \in 1 .. Count(c, p)}

LEMMA PiecesAre ==
  ASSUME NEW c
  PROVE  Promise!Pieces(c) = UNION {PiecesAt(c, p) : p \in 0 .. c.sz - 1}
<1>1. \A p : Promise!Matches(c, p) = Matches(c, p)
  BY DEF Promise!Matches, Matches, Promise!DictMatches, DictMatches, Promise!DfaMatches,
         DfaMatches, Promise!WritesBehind, WritesBehind, Promise!Cap, Cap, Promise!Fallback, Fallback
<1>2. \A p : Promise!Count(c, p) = Count(c, p)
  BY <1>1 DEF Promise!Count, Count
<1>3. \A p, i : Promise!Length(c, p, i) = Length(c, p, i)
  BY <1>1 DEF Promise!Length, Length
<1>4. \A p, i : Promise!Weight(c, p, i) = Weight(c, p, i)
  BY <1>1, <1>3 DEF Promise!Weight, Weight
<1>5. Promise!Pieces(c) =
        UNION { { [at |-> p, len |-> Promise!Length(c, p, i), freq |-> Promise!Weight(c, p, i)]
                  : i \in 1 .. Promise!Count(c, p) } : p \in 0 .. c.sz - 1 }
  BY DEF Promise!Pieces
<1>6. \A p : { [at |-> p, len |-> Promise!Length(c, p, i), freq |-> Promise!Weight(c, p, i)]
               : i \in 1 .. Promise!Count(c, p) } = PiecesAt(c, p)
  BY <1>2, <1>3, <1>4 DEF PiecesAt, Placed
<1> QED
  BY <1>5, <1>6

LEMMA RangeFinite ==
  ASSUME NEW D, IsFiniteSet(D), NEW f
  PROVE  IsFiniteSet({f[x] : x \in D})
<1> DEFINE T == {f[x] : x \in D}
           g == [x \in D |-> f[x]]
<1>1. g \in Surjection(D, T)
  BY DEF Surjection
<1> QED
  BY <1>1, FS_Surjection

LEMMA PieceFacts ==
  ASSUME NEW c \in Chunks
  PROVE  /\ IsFiniteSet(Promise!Pieces(c))
         /\ \A w \in Promise!Pieces(c) :
              /\ w.at \in 0 .. c.sz - 1 /\ w.len \in 1 .. c.sz - w.at /\ w.freq \in Int
              /\ \E i \in 1 .. Count(c, w.at) :
                   w.len = Length(c, w.at, i) /\ w.freq = Weight(c, w.at, i)
         /\ \A p \in 0 .. c.sz - 1 : \A i \in 1 .. Count(c, p) :
              Placed(c, p, i) \in Promise!Pieces(c)
<1>1. c.sz \in 0 .. N /\ N \in Nat
  BY ChunksAssumption, SizesAssumption DEF Chunk
<1>2. \A p \in 0 .. c.sz - 1 : p \in Pos /\ p < c.sz
  BY <1>1 DEF Pos
<1>3. ASSUME NEW p \in 0 .. c.sz - 1
      PROVE  IsFiniteSet(PiecesAt(c, p))
  <2> DEFINE f == [i \in 1 .. Count(c, p) |-> Placed(c, p, i)]
  <2>1. Count(c, p) \in Nat
    BY <1>2, CandidateFacts
  <2>2. IsFiniteSet(1 .. Count(c, p))
    BY <2>1, FS_Interval
  <2>3. IsFiniteSet({f[i] : i \in 1 .. Count(c, p)})
    <3> HIDE DEF f
    <3> QED
      BY <2>2, RangeFinite
  <2>4. PiecesAt(c, p) = {f[i] : i \in 1 .. Count(c, p)}
    BY DEF PiecesAt
  <2> QED
    BY <2>3, <2>4
<1>4. IsFiniteSet({PiecesAt(c, p) : p \in 0 .. c.sz - 1})
  <2> DEFINE f == [p \in 0 .. c.sz - 1 |-> PiecesAt(c, p)]
  <2>1. IsFiniteSet(0 .. c.sz - 1)
    BY <1>1, FS_Interval
  <2>2. IsFiniteSet({f[p] : p \in 0 .. c.sz - 1})
    <3> HIDE DEF f
    <3> QED
      BY <2>1, RangeFinite
  <2>3. {PiecesAt(c, p) : p \in 0 .. c.sz - 1} = {f[p] : p \in 0 .. c.sz - 1}
    OBVIOUS
  <2> QED
    BY <2>2, <2>3
<1>5. IsFiniteSet(Promise!Pieces(c))
  <2>1. PICK S : S = {PiecesAt(c, p) : p \in 0 .. c.sz - 1}
    OBVIOUS
  <2>2. \A T \in S : IsFiniteSet(T)
    BY <1>3, <2>1
  <2>3. IsFiniteSet(UNION S)
    BY <1>4, <2>1, <2>2, FS_UNION
  <2> QED
    BY <2>1, <2>3, PiecesAre
<1>6. ASSUME NEW w \in Promise!Pieces(c)
      PROVE  /\ w.at \in 0 .. c.sz - 1 /\ w.len \in 1 .. c.sz - w.at /\ w.freq \in Int
             /\ \E i \in 1 .. Count(c, w.at) :
                  w.len = Length(c, w.at, i) /\ w.freq = Weight(c, w.at, i)
  <2>1. PICK p \in 0 .. c.sz - 1 : w \in PiecesAt(c, p)
    BY PiecesAre
  <2>2. PICK i \in 1 .. Count(c, p) : w = Placed(c, p, i)
    BY <2>1 DEF PiecesAt
  <2>3. w.at = p /\ w.len = Length(c, p, i) /\ w.freq = Weight(c, p, i)
    BY <2>2 DEF Placed
  <2>4. Length(c, p, i) \in 1 .. c.sz - p /\ Weight(c, p, i) \in Int
    BY <1>2, CandidateFacts
  <2> QED
    BY <2>3, <2>4
<1>7. \A p \in 0 .. c.sz - 1 : \A i \in 1 .. Count(c, p) :
        Placed(c, p, i) \in Promise!Pieces(c)
  BY PiecesAre DEF PiecesAt
<1> QED
  BY <1>5, <1>6, <1>7

LEMMA SameCardinality ==
  ASSUME NEW S
  PROVE  Promise!Cardinality(S) = Cardinality(S)
BY DEF Promise!Cardinality, Cardinality, Promise!IsFiniteSet, IsFiniteSet

LEMMA TilingFacts ==
  ASSUME NEW c \in Chunks, NEW S \in Promise!Tilings(c)
  PROVE  /\ S \subseteq Promise!Pieces(c) /\ IsFiniteSet(S) /\ Weighed(S)
         /\ \A p \in 0 .. c.sz - 1 : \E w \in S : {u \in S : Promise!Covers(u, p)} = {w}
<1>1. /\ S \subseteq Promise!Pieces(c)
      /\ \A p \in 0 .. c.sz - 1 : Cardinality({u \in S : Promise!Covers(u, p)}) = 1
  BY SameCardinality DEF Promise!Tilings
<1>2. IsFiniteSet(S) /\ Weighed(S)
  BY <1>1, PieceFacts, FS_Subset DEF Weighed
<1>3. ASSUME NEW p \in 0 .. c.sz - 1
      PROVE  \E w \in S : {u \in S : Promise!Covers(u, p)} = {w}
  <2>1. PICK T : T = {u \in S : Promise!Covers(u, p)}
    OBVIOUS
  <2>2. T \subseteq S /\ Cardinality(T) = 1
    BY <1>1, <2>1
  <2>3. IsFiniteSet(T)
    BY <1>2, <2>2, FS_Subset
  <2>4. PICK w : T = {w}
    BY <2>2, <2>3, FS_Singleton
  <2> QED
    BY <2>1, <2>2, <2>4
<1> QED
  BY <1>1, <1>2, <1>3

-----------------------------------------------------------------------------
(* No tiling beats the memo: going along one, the weight so far and the    *)
(* memo of the next word's place are together at most the memo of 0.       *)
Behind(S, p) == {w \in S : w.at < p}

Stop(S, p) ==
  /\ p \in 0 .. chunk.sz /\ Known(p)
  /\ \A w \in S : w.at < p => w.at + w.len <= p
  /\ Promise!Total(Behind(S, p)) + Value(p) <= Value(0)

LEMMA MemoBest ==
  ASSUME Inv, NEW p \in 0 .. chunk.sz - 1, Known(p), NEW i \in 1 .. Count(chunk, p)
  PROVE  /\ p + Length(chunk, p, i) \in p + 1 .. chunk.sz
         /\ Known(p + Length(chunk, p, i)) /\ Value(p + Length(chunk, p, i)) \in Int
         /\ Weight(chunk, p, i) \in Int /\ Value(p) \in Int
         /\ Weight(chunk, p, i) + Value(p + Length(chunk, p, i)) <= Value(p)
<1>1. chunk.sz \in 0 .. N /\ N \in Nat /\ chunk \in Chunks
  BY SizesAssumption DEF Inv, TypeOK, ControlOK, Chunk
<1>2. p \in Pos /\ p < chunk.sz /\ p \in Nat
  BY <1>1 DEF Pos
<1>3. prob[p] # 0 /\ Value(p) = prob[p]
  BY <1>2 DEF Known, Value
<1>4. Length(chunk, p, i) \in 1 .. chunk.sz - p /\ Weight(chunk, p, i) \in Int
  BY <1>1, <1>2, CandidateFacts
<1>5. Count(chunk, p) \in Nat
  BY <1>1, <1>2, CandidateFacts
<1>6. MaxBefore(p, Count(chunk, p) + 1, prob[p])
  BY <1>2, <1>3 DEF Inv, MemoOK
<1>7. Known(p + Length(chunk, p, i)) /\ Through(p, i) <= prob[p] /\ prob[p] \in Int
  BY <1>5, <1>6 DEF MaxBefore
<1>8. p + Length(chunk, p, i) \in p + 1 .. chunk.sz
  BY <1>1, <1>2, <1>4
<1>9. Value(p + Length(chunk, p, i)) \in Int
  <2>1. p + Length(chunk, p, i) \in 0 .. chunk.sz
    BY <1>2, <1>8
  <2> QED
    BY <1>7, <2>1, ValueNotPositive
<1> QED
  BY <1>3, <1>4, <1>7, <1>8, <1>9 DEF Through

LEMMA NextStop ==
  ASSUME Inv, NEW S \in Promise!Tilings(chunk), NEW p, Stop(S, p), p # chunk.sz, Value(0) \in Int
  PROVE  \E q : q > p /\ Stop(S, q)
<1>1. chunk.sz \in 0 .. N /\ N \in Nat /\ chunk \in Chunks
  BY SizesAssumption DEF Inv, TypeOK, ControlOK, Chunk
<1>2. /\ S \subseteq Promise!Pieces(chunk) /\ IsFiniteSet(S) /\ Weighed(S)
      /\ \A k \in 0 .. chunk.sz - 1 : \E w \in S : {u \in S : Promise!Covers(u, k)} = {w}
  BY <1>1, TilingFacts
<1>3. \A w \in S :
        /\ w.at \in 0 .. chunk.sz - 1 /\ w.len \in 1 .. chunk.sz - w.at /\ w.freq \in Int
        /\ \E i \in 1 .. Count(chunk, w.at) :
             w.len = Length(chunk, w.at, i) /\ w.freq = Weight(chunk, w.at, i)
  BY <1>1, <1>2, PieceFacts
<1>4. p \in 0 .. chunk.sz - 1 /\ Known(p) /\ p \in Nat
  BY <1>1 DEF Stop
<1>5. PICK w \in S : {u \in S : Promise!Covers(u, p)} = {w}
  BY <1>2, <1>4
<1>6. w.at <= p /\ p < w.at + w.len
  BY <1>5 DEF Promise!Covers
<1>7. w.at = p
  <2>1. w.at < p => w.at + w.len <= p
    BY DEF Stop
  <2>2. w.at \in Int /\ w.len \in Int
    BY <1>1, <1>3
  <2> QED
    BY <1>4, <1>6, <2>1, <2>2
<1>8. PICK i \in 1 .. Count(chunk, p) : w.len = Length(chunk, p, i) /\ w.freq = Weight(chunk, p, i)
  BY <1>3, <1>7
<1>9. PICK q : q = p + w.len
  OBVIOUS
<1>10. /\ q \in p + 1 .. chunk.sz /\ Known(q) /\ Value(q) \in Int
       /\ w.freq \in Int /\ Value(p) \in Int /\ w.freq + Value(q) <= Value(p)
  BY <1>4, <1>8, <1>9, MemoBest
<1>11. ASSUME NEW u \in S, u.at < q, ~(u.at < p)
       PROVE  u = w
  <2>1. u.at \in 0 .. chunk.sz - 1 /\ u.len \in 1 .. chunk.sz - u.at
    BY <1>3
  <2>2. u.at <= u.at /\ u.at < u.at + u.len /\ w.at <= u.at /\ u.at < w.at + w.len
    BY <1>1, <1>4, <1>7, <1>9, <1>10, <1>11, <2>1
  <2>3. Promise!Covers(u, u.at) /\ Promise!Covers(w, u.at)
    BY <2>2 DEF Promise!Covers
  <2>4. PICK v \in S : {x \in S : Promise!Covers(x, u.at)} = {v}
    BY <1>2, <2>1
  <2> QED
    BY <2>3, <2>4
<1>12. /\ w \in Behind(S, q) /\ Behind(S, q) \ {w} = Behind(S, p)
  <2>1. w \in Behind(S, q) /\ w \notin Behind(S, p)
    BY <1>4, <1>7, <1>10 DEF Behind
  <2>2. \A u \in S : u.at < p => u.at < q
    BY <1>1, <1>3, <1>4, <1>10
  <2> QED
    BY <1>11, <2>1, <2>2 DEF Behind
<1>13. /\ Promise!Total(Behind(S, q)) \in Int /\ Promise!Total(Behind(S, p)) \in Int
       /\ Promise!Total(Behind(S, q)) = w.freq + Promise!Total(Behind(S, p))
  <2>1. \A r : IsFiniteSet(Behind(S, r)) /\ Weighed(Behind(S, r))
    BY <1>2, FS_Subset DEF Behind, Weighed
  <2>2. \A T : IsFiniteSet(T) /\ Weighed(T) =>
          /\ Promise!Total(T) \in Int
          /\ \A x \in T : Promise!Total(T) = x.freq + Promise!Total(T \ {x})
    BY TotalAdds
  <2> QED
    BY <1>12, <2>1, <2>2
<1>14. ASSUME NEW u \in S, u.at < q
       PROVE  u.at + u.len <= q
  <2>1. CASE u.at < p
    <3>1. u.at + u.len <= p
      BY <2>1 DEF Stop
    <3>2. u.at \in Int /\ u.len \in Int
      BY <1>1, <1>3
    <3> QED
      BY <1>4, <1>10, <3>1, <3>2
  <2>2. CASE ~(u.at < p)
    <3>1. u = w
      BY <1>11, <1>14, <2>2
    <3> QED
      BY <1>4, <1>7, <1>9, <1>10, <3>1
  <2> QED
    BY <2>1, <2>2
<1>15. Promise!Total(Behind(S, p)) + Value(p) <= Value(0)
  BY DEF Stop
<1>16. Promise!Total(Behind(S, q)) + Value(q) <= Value(0)
  <2>1. PICK a, b, x, y, z, f :
          /\ a = Promise!Total(Behind(S, p)) /\ b = Promise!Total(Behind(S, q))
          /\ x = Value(p) /\ y = Value(q) /\ z = Value(0) /\ f = w.freq
    OBVIOUS
  <2>2. a \in Int /\ b \in Int /\ x \in Int /\ y \in Int /\ z \in Int /\ f \in Int
    BY <1>10, <1>13, <2>1
  <2>3. b = f + a /\ a + x <= z /\ f + y <= x
    BY <1>10, <1>13, <1>15, <2>1
  <2>4. b + y <= z
    BY <2>2, <2>3
  <2> QED
    BY <2>1, <2>4
<1>17. q > p /\ q \in 0 .. chunk.sz
  BY <1>4, <1>10
<1> QED
  BY <1>10, <1>14, <1>16, <1>17 DEF Stop

LEMMA NoneBetter ==
  ASSUME Inv, Known(0), NEW S \in Promise!Tilings(chunk)
  PROVE  Promise!Total(S) <= Value(0) /\ Promise!Total(S) \in Int
<1>1. chunk.sz \in 0 .. N /\ N \in Nat /\ chunk \in Chunks
  BY SizesAssumption DEF Inv, TypeOK, ControlOK, Chunk
<1>2. /\ S \subseteq Promise!Pieces(chunk) /\ IsFiniteSet(S) /\ Weighed(S)
  BY <1>1, TilingFacts
<1>3. \A w \in S : w.at \in 0 .. chunk.sz - 1
  BY <1>1, <1>2, PieceFacts
<1>4. 0 \in 0 .. chunk.sz /\ Value(0) \in Int
  <2>1. 0 \in 0 .. chunk.sz
    BY <1>1
  <2> QED
    BY <2>1, ValueNotPositive
<1>5. Stop(S, 0)
  <2>1. Behind(S, 0) = {}
    BY <1>1, <1>3 DEF Behind
  <2>2. \A w \in S : ~(w.at < 0)
    BY <1>1, <1>3
  <2>3. Promise!Total(Behind(S, 0)) + Value(0) <= Value(0)
    BY <1>4, <2>1, TotalNone
  <2> QED
    BY <1>4, <2>2, <2>3 DEF Stop
<1> DEFINE left == {k \in Nat : \E p : Stop(S, p) /\ k = chunk.sz - p}
<1>6. left \subseteq Nat /\ chunk.sz \in left
  <2>1. chunk.sz \in Nat /\ chunk.sz = chunk.sz - 0
    BY <1>1
  <2> QED
    BY <1>5, <2>1
<1>7. PICK n \in left : \A m \in left : ~(<< m, n >> \in OpToRel(<, Nat))
  <2> HIDE DEF left
  <2> QED
    BY <1>6, NatLessThanWellFounded, WFMin
<1>8. PICK p : Stop(S, p) /\ n = chunk.sz - p
  OBVIOUS
<1>9. p = chunk.sz
  <2> SUFFICES ASSUME p # chunk.sz PROVE FALSE
    OBVIOUS
  <2>1. PICK q : q > p /\ Stop(S, q)
    BY <1>4, <1>8, NextStop
  <2>2. p \in 0 .. chunk.sz /\ q \in 0 .. chunk.sz
    BY <1>8, <2>1 DEF Stop
  <2>3. chunk.sz - q \in Nat /\ chunk.sz - q < n /\ n \in Nat
    BY <1>1, <1>8, <2>1, <2>2
  <2>4. chunk.sz - q \in left
    BY <2>1, <2>3
  <2> QED
    BY <1>7, <2>3, <2>4 DEF OpToRel
<1>10. Behind(S, p) = S
  BY <1>1, <1>3, <1>9 DEF Behind
<1>11. Promise!Total(S) \in Int
  BY <1>2, TotalAdds
<1>12. Promise!Total(S) + Value(p) <= Value(0) /\ Value(p) = 0
  BY <1>8, <1>9, <1>10 DEF Stop, Value
<1> QED
  BY <1>4, <1>11, <1>12

(* The words the walk has cut tile what lies behind it, and weigh what the *)
(* memo of 0 has more than that of the place the walk stands on.           *)
CutOK(C) ==
  /\ C \subseteq Promise!Pieces(chunk)
  /\ \A w \in C : w.at + w.len <= cur
  /\ \A p \in 0 .. cur - 1 : \E w \in C : {u \in C : Promise!Covers(u, p)} = {w}
  /\ Promise!Total(C) + Value(cur) = Value(0)

AnswerOK == pc \in {"walk", "done"} => CutOK(Cut(words))

Trimmed(w) == [at |-> w.at, len |-> w.len, freq |-> w.freq]

LEMMA CutGrows ==
  ASSUME NEW T, NEW s \in Seq(T), NEW w
  PROVE  Cut(Append(s, w)) = Cut(s) \cup {Trimmed(w)}
<1> DEFINE t == Append(s, w)
<1>1. /\ Len(s) \in Nat /\ Len(t) = Len(s) + 1 /\ t[Len(s) + 1] = w
      /\ \A k \in 1 .. Len(s) : t[k] = s[k]
  OBVIOUS
<1>2. Cut(t) = {Trimmed(t[k]) : k \in 1 .. Len(t)}
  BY DEF Cut, Trimmed
<1>3. Cut(s) = {Trimmed(s[k]) : k \in 1 .. Len(s)}
  BY DEF Cut, Trimmed
<1>4. PICK n : n = Len(s)
  OBVIOUS
<1>5. n \in Nat /\ 1 .. Len(t) = 1 .. n \cup {n + 1}
  BY <1>1, <1>4
<1>6. /\ \A k \in 1 .. n : t[k] = s[k]
      /\ t[n + 1] = w
  BY <1>1, <1>4
<1> HIDE DEF t
<1>7. {Trimmed(t[k]) : k \in 1 .. n} = {Trimmed(s[k]) : k \in 1 .. n}
  BY <1>6
<1>8. {Trimmed(t[k]) : k \in 1 .. n \cup {n + 1}} = {Trimmed(t[k]) : k \in 1 .. n} \cup {Trimmed(t[n + 1])}
  OBVIOUS
<1> QED
  BY <1>2, <1>3, <1>4, <1>5, <1>6, <1>7, <1>8 DEF t

LEMMA CutAnswer ==
  ASSUME Inv, AnswerOK, CutWord
  PROVE  AnswerOK'
<1>1. chunk.sz \in 0 .. N /\ N \in Nat /\ chunk \in Chunks /\ words \in Seq(Word)
  BY SizesAssumption DEF Inv, TypeOK, ControlOK, Chunk
<1>2. PICK q, next, C, w :
        /\ q = cur /\ next = cur + segs[cur] /\ C = Cut(words)
        /\ w = [at   |-> cur, len |-> segs[cur], type |-> type[cur],
                freq |-> IF next < chunk.sz THEN prob[cur] - prob[next] ELSE prob[cur]]
  OBVIOUS
<1>3. /\ pc = "walk" /\ words' = Append(words, w) /\ cur' = next /\ chunk' = chunk /\ prob' = prob
  BY <1>2 DEF CutWord
<1>4. /\ q \in 0 .. chunk.sz - 1 /\ q \in Pos /\ w.len \in 1 .. chunk.sz - q
      /\ next = q + w.len /\ next \in 0 .. chunk.sz /\ Known(next) /\ Value(next) \in Int
      /\ Value(q) = prob[q] /\ prob[q] \in Int
  <2>1. /\ q \in Pos /\ q < chunk.sz /\ segs[q] \in 1 .. chunk.sz - q /\ next \in 0 .. chunk.sz
        /\ Known(next) /\ prob[q] \in Int /\ Value(next) \in Int
    BY <1>2, CutFacts
  <2>2. q \in Nat
    BY <1>1, <2>1 DEF Pos
  <2> QED
    BY <1>1, <1>2, <2>1, <2>2 DEF Value
<1>5. PICK i \in 1 .. Count(chunk, q) : w.len = Length(chunk, q, i) /\ prob[q] - Value(next) = Weight(chunk, q, i)
  BY <1>2, CutFacts
<1>6. w.freq = prob[q] - Value(next)
  <2>1. CASE next < chunk.sz
    <3>1. next # chunk.sz
      BY <1>1, <1>4, <2>1
    <3> QED
      BY <1>2, <2>1, <3>1 DEF Value
  <2>2. CASE ~(next < chunk.sz)
    <3>1. next = chunk.sz
      BY <1>1, <1>4, <2>2
    <3>2. Value(next) = 0 /\ w.freq = prob[q]
      BY <1>2, <2>2, <3>1 DEF Value
    <3> QED
      BY <1>4, <3>2
  <2> QED
    BY <2>1, <2>2
<1>7. PICK v : v = Trimmed(w)
  OBVIOUS
<1>8. v.at = q /\ v.len = w.len /\ v.freq = w.freq /\ v \in Promise!Pieces(chunk)
  <2>1. v = Placed(chunk, q, i)
    BY <1>2, <1>5, <1>6, <1>7 DEF Trimmed, Placed
  <2>2. Placed(chunk, q, i) \in Promise!Pieces(chunk)
    BY <1>1, <1>4, PieceFacts
  <2> QED
    BY <1>2, <1>7, <2>1, <2>2 DEF Trimmed
<1>9. CutOK(C)
  BY <1>2, <1>3 DEF AnswerOK
<1>10. Cut(words') = C \cup {v}
  BY <1>1, <1>2, <1>3, <1>7, CutGrows
<1>11. PICK D : D = C \cup {v}
  OBVIOUS
<1>12. \A u \in D : u.at \in 0 .. chunk.sz - 1 /\ u.len \in 1 .. chunk.sz - u.at /\ u.freq \in Int
  <2>1. D \subseteq Promise!Pieces(chunk)
    BY <1>8, <1>9, <1>11 DEF CutOK
  <2> QED
    BY <1>1, <2>1, PieceFacts
<1>13. \A u \in C : u.at + u.len <= q
  BY <1>2, <1>9 DEF CutOK
<1>14. v \notin C
  <2> SUFFICES ASSUME v \in C PROVE FALSE
    OBVIOUS
  <2>1. v.at + v.len <= q
    BY <1>13
  <2> QED
    BY <1>1, <1>4, <1>8, <2>1
<1>15. \A u \in D : u.at + u.len <= next
  <2>1. \A u \in C : u.at \in Int /\ u.len \in Int
    BY <1>1, <1>11, <1>12
  <2>2. \A u \in C : u.at + u.len <= next
    BY <1>1, <1>4, <1>13, <2>1
  <2>3. v.at + v.len <= next
    BY <1>1, <1>4, <1>8
  <2> QED
    BY <1>11, <2>2, <2>3
<1>16. ASSUME NEW p \in 0 .. next - 1
       PROVE  \E u \in D : {x \in D : Promise!Covers(x, p)} = {u}
  <2>1. q \in Nat /\ next \in Nat /\ p \in Nat /\ p < next
    BY <1>1, <1>4
  <2>2. CASE p < q
    <3>1. p \in 0 .. q - 1
      BY <2>1, <2>2
    <3>2. PICK u \in C : {x \in C : Promise!Covers(x, p)} = {u}
      BY <1>2, <1>9, <3>1 DEF CutOK
    <3>3. ~Promise!Covers(v, p)
      BY <1>8, <2>1, <2>2 DEF Promise!Covers
    <3> QED
      BY <1>11, <3>2, <3>3
  <2>3. CASE ~(p < q)
    <3>1. Promise!Covers(v, p)
      BY <1>1, <1>4, <1>8, <2>1, <2>3 DEF Promise!Covers
    <3>2. ASSUME NEW x \in C PROVE ~Promise!Covers(x, p)
      <4>1. x.at \in Int /\ x.len \in Int /\ x.at + x.len <= q
        BY <1>1, <1>11, <1>12, <1>13
      <4> QED
        BY <2>1, <2>3, <4>1 DEF Promise!Covers
    <3> QED
      BY <1>11, <3>1, <3>2
  <2> QED
    BY <2>2, <2>3
<1>17. Promise!Total(D) + Value(next) = Value(0)
  <2>1. IsFiniteSet(D) /\ Weighed(D) /\ IsFiniteSet(C) /\ Weighed(C)
    <3>1. D \subseteq Promise!Pieces(chunk)
      BY <1>8, <1>9, <1>11 DEF CutOK
    <3>2. IsFiniteSet(D) /\ Weighed(D)
      BY <1>1, <1>12, <3>1, PieceFacts, FS_Subset DEF Weighed
    <3> QED
      BY <1>11, <3>2, FS_Subset DEF Weighed
  <2>2. \A T : IsFiniteSet(T) /\ Weighed(T) =>
          /\ Promise!Total(T) \in Int
          /\ \A x \in T : Promise!Total(T) = x.freq + Promise!Total(T \ {x})
    BY TotalAdds
  <2>3. D \ {v} = C /\ v \in D
    BY <1>11, <1>14
  <2>4. PICK a, b, x, y, z :
          /\ a = Promise!Total(C) /\ b = Promise!Total(D)
          /\ x = Value(q) /\ y = Value(next) /\ z = Value(0)
    OBVIOUS
  <2>5. a \in Int /\ b \in Int /\ b = v.freq + a
    BY <2>1, <2>2, <2>3, <2>4
  <2>6. v.freq = x - y /\ x \in Int /\ y \in Int
    BY <1>4, <1>6, <1>8, <2>4
  <2>7. a + x = z
    BY <1>2, <1>9, <2>4 DEF CutOK
  <2>8. b + y = z
    BY <2>5, <2>6, <2>7
  <2> QED
    BY <2>4, <2>8
<1>18. Value(next)' = Value(next) /\ Value(0)' = Value(0) /\ Value(cur)' = Value(next)
  BY <1>2, <1>3, <1>4 DEF Value
<1>19. CutOK(D)'
  <2>1. D \subseteq Promise!Pieces(chunk)
    BY <1>8, <1>9, <1>11 DEF CutOK
  <2> QED
    BY <1>3, <1>15, <1>16, <1>17, <1>18, <2>1 DEF CutOK
<1>20. D' = D
  OBVIOUS
<1> QED
  BY <1>10, <1>11, <1>19 DEF AnswerOK

LEMMA BeginsAnswer == Init => AnswerOK
  BY DEF Init, AnswerOK

LEMMA StepAnswer == Inv /\ WordsOK /\ AnswerOK /\ [Next]_vars => AnswerOK'
<1> SUFFICES ASSUME Inv, WordsOK, AnswerOK, [Next]_vars
             PROVE  AnswerOK'
  OBVIOUS
<1>1. CASE Search \/ NextChunk
  BY <1>1 DEF Search, ReturnEnd, ReturnMemo, Enter, Recurse, Resume, Finish, NextChunk, AnswerOK
<1>2. CASE StartWalk
  <2>1. /\ pc' = "walk" /\ cur' = 0 /\ words' = words /\ words = <<>>
        /\ chunk' = chunk /\ prob' = prob
    BY <1>2 DEF StartWalk, WordsOK
  <2>2. Cut(words') = {}
    BY <2>1 DEF Cut
  <2>3. Value(cur)' = Value(0)' /\ Value(0)' = Value(0)
    BY <2>1 DEF Value
  <2>4. Value(0) \in Int
    <3>1. chunk.sz \in Nat
      BY SizesAssumption DEF Inv, TypeOK, Chunk
    <3>2. Known(0)
      BY <1>2, <2>1 DEF StartWalk, Inv, ControlOK, Wanted
    <3> QED
      BY <3>1, <3>2, ValueNotPositive
  <2>5. Promise!Total({}) = 0
    BY TotalNone
  <2>6. CutOK({})'
    BY <2>1, <2>3, <2>4, <2>5 DEF CutOK
  <2> QED
    BY <2>2, <2>6 DEF AnswerOK
<1>3. CASE CutWord
  BY <1>3, CutAnswer
<1>4. CASE EndWalk \/ UNCHANGED vars
  <2>1. /\ chunk' = chunk /\ prob' = prob /\ cur' = cur /\ words' = words
        /\ pc' \in {"walk", "done"} => pc \in {"walk", "done"}
    BY <1>4 DEF EndWalk, vars
  <2>2. CutOK(Cut(words))' <=> CutOK(Cut(words))
    BY <2>1 DEF CutOK, Cut, Value
  <2> QED
    BY <2>1, <2>2 DEF AnswerOK
<1> QED
  BY <1>1, <1>2, <1>3, <1>4 DEF Next, Walk

(* When the walk is done, its words are a best tiling. *)
LEMMA BestAnswer ==
  ASSUME Inv, AnswerOK, pc \in {"walk", "done"}, cur = chunk.sz
  PROVE  Cut(words) \in Promise!BestTilings(chunk)
<1>1. chunk.sz \in 0 .. N /\ N \in Nat /\ chunk \in Chunks /\ Known(0)
  BY SizesAssumption DEF Inv, TypeOK, ControlOK, Chunk
<1>2. PICK C : C = Cut(words)
  OBVIOUS
<1>3. CutOK(C)
  BY <1>2 DEF AnswerOK
<1>4. C \in Promise!Tilings(chunk)
  <2>1. \A p \in 0 .. chunk.sz - 1 : Promise!Cardinality({u \in C : Promise!Covers(u, p)}) = 1
    <3>1. \A p \in 0 .. chunk.sz - 1 : \E w \in C : {u \in C : Promise!Covers(u, p)} = {w}
      BY <1>3 DEF CutOK
    <3> QED
      BY <3>1, SameCardinality, FS_Singleton
  <2>2. C \subseteq Promise!Pieces(chunk)
    BY <1>3 DEF CutOK
  <2> QED
    BY <2>1, <2>2 DEF Promise!Tilings
<1>5. Promise!Total(C) = Value(0) /\ Value(0) \in Int
  <2>1. Promise!Total(C) \in Int
    BY <1>1, <1>4, NoneBetter
  <2>2. Promise!Total(C) + Value(cur) = Value(0) /\ Value(cur) = 0
    BY <1>3 DEF CutOK, Value
  <2> QED
    BY <2>1, <2>2
<1>6. PICK T : T = {Promise!Total(S) : S \in Promise!Tilings(chunk)}
  OBVIOUS
<1>7. Value(0) \in T /\ \A x \in T : x <= Value(0) /\ x \in Int
  BY <1>1, <1>4, <1>5, <1>6, NoneBetter
<1>8. Promise!Max(T) = Value(0)
  <2>1. Promise!Max(T) = CHOOSE x \in T : \A y \in T : x >= y
    BY DEF Promise!Max
  <2>2. \A y \in T : Value(0) >= y
    BY <1>5, <1>7
  <2>3. PICK m : m = CHOOSE x \in T : \A y \in T : x >= y
    OBVIOUS
  <2>4. m \in T /\ \A y \in T : m >= y
    BY <1>7, <2>2, <2>3
  <2>5. m = Value(0)
    BY <1>5, <1>7, <2>4
  <2> QED
    BY <2>1, <2>3, <2>5
<1> QED
  BY <1>2, <1>4, <1>5, <1>6, <1>8 DEF Promise!BestTilings

(* A step answers the chunk, asks about another one, or is not to be seen. *)
Reply == IF pc = "done" THEN {Cut(words)} ELSE {}

LEMMA StepPromise ==
  Inv /\ AnswerOK /\ [Next]_vars => [Promise!Next]_<< chunk, Reply >>
<1> SUFFICES ASSUME Inv, AnswerOK, [Next]_vars
             PROVE  [Promise!Next]_<< chunk, Reply >>
  OBVIOUS
<1>1. CASE Search \/ StartWalk \/ CutWord
  <2>1. chunk' = chunk /\ pc # "done" /\ pc' # "done"
    BY <1>1 DEF Search, ReturnEnd, ReturnMemo, Enter, Recurse, Resume, Finish, StartWalk, CutWord
  <2> QED
    BY <2>1 DEF Reply
<1>2. CASE EndWalk
  <2>1. pc = "walk" /\ pc' = "done" /\ chunk' = chunk /\ words' = words /\ cur = chunk.sz
    <3>1. pc = "walk" /\ cur >= chunk.sz /\ cur <= chunk.sz /\ cur \in 0 .. N /\ chunk.sz \in 0 .. N
      BY <1>2 DEF EndWalk, Inv, WalkOK, TypeOK, Chunk
    <3>2. cur = chunk.sz
      BY <3>1, SizesAssumption
    <3> QED
      BY <1>2, <3>2 DEF EndWalk
  <2>2. Cut(words) \in Promise!BestTilings(chunk)
    BY <2>1, BestAnswer
  <2>3. Reply = {} /\ Reply' = {Cut(words)}
    BY <2>1 DEF Reply, Cut
  <2>4. Promise!Answer
    BY <2>1, <2>2, <2>3 DEF Promise!Answer, Reply
  <2> QED
    BY <2>4 DEF Promise!Next
<1>3. CASE NextChunk
  <2>1. pc = "done" /\ pc' = "enter" /\ chunk' \in Chunks
    BY <1>3 DEF NextChunk
  <2>2. Promise!Ask
    BY <2>1 DEF Promise!Ask
  <2> QED
    BY <2>2 DEF Promise!Next
<1>4. CASE UNCHANGED vars
  BY <1>4 DEF vars, Reply, Cut
<1> QED
  BY <1>1, <1>2, <1>3, <1>4 DEF Next, Walk

(* A chunk is answered with a tiling by candidate words that no other      *)
(* tiling outweighs: get_seg_ids, its memo and the walk over segs          *)
(* implement BestSegmentation, for every chunk, dictionary and buffer.     *)
THEOREM FindsBest == Spec => ImplementsPromise
<1>1. Init => Promise!Init
  BY DEF Init, Promise!Init
<1>2. Inv /\ AnswerOK /\ [Next]_vars => [Promise!Next]_<< chunk, Reply >>
  BY StepPromise
<1> QED
  BY <1>1, <1>2, InitInv, StepInv, InitWords, StepWords, BeginsAnswer, StepAnswer, PTL
     DEF Spec, ImplementsPromise, Promise!Spec, Reply
=============================================================================
