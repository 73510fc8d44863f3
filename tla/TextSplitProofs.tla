-------------------------- MODULE TextSplitProofs --------------------------
(***************************************************************************)
(* What get_segs_ex returns for texts of any size and any limit.  The      *)
(* invariant adds to the properties what a turn of the loop knows between  *)
(* the match and the copies it makes.                                      *)
(***************************************************************************)
EXTENDS TextSplit, TLAPS

(* The piece and its separator are in the rest of the text. *)
TurnFits == at = "words" => start + len + skip <= size

(* After the first match the rest of the text is known to be valid. *)
RestValid == at = "words" \/ out # << >> => Valid

(* A piece that was not cut has no separator in it, ends at one, and       *)
(* without a match it is all the rest.                                     *)
TurnExact ==
  at = "words" /\ ~Overlong =>
    /\ \A p \in start .. start + len - 1 : text[p] \in {"char", "gap"}
    /\ \A p \in start + len .. start + len + skip - 1 : text[p] \in {"sep", "gap"}
    /\ ~found => start + len + skip = size

TurnOver == at \in {"match", "done", "error"} => i = 0

Inv ==
  /\ TypeOK /\ Contiguous /\ Separated /\ Complete /\ ErrorEmpty
  /\ TurnFits /\ RestValid /\ TurnExact /\ TurnOver

-----------------------------------------------------------------------------
(* Appending a copy of what comes next keeps the list contiguous. *)
LEMMA AppendAdjacent ==
  ASSUME NEW s \in Seq(Entry), NEW n \in Nat \ {0}, NEW f \in Nat,
         NEW k \in {"word", "separator"}, Adjacent(s, f)
  PROVE  Adjacent(Append(s, Copy(f, n, k)), f + n)
<1> DEFINE e == Copy(f, n, k)
           r == Append(s, e)
<1>1. e \in Entry /\ e.from = f /\ End(e) = f + n
  BY DEF Entry, Copy, End
<1>2. /\ r \in Seq(Entry) /\ Len(r) = Len(s) + 1 /\ r[Len(s) + 1] = e
      /\ \A j \in 1 .. Len(s) : r[j] = s[j]
  BY <1>1
<1>3. Len(s) \in Nat /\ (s = << >> <=> Len(s) = 0) /\ (r = << >> <=> Len(r) = 0)
  BY <1>2
<1> HIDE DEF e, r
<1>4. r # << >> /\ End(r[Len(r)]) = f + n
  BY <1>1, <1>2, <1>3
<1>5. ASSUME NEW j \in 1 .. Len(r)
      PROVE  r[j].from = IF j = 1 THEN 0 ELSE End(r[j - 1])
  <2>1. CASE j \in 1 .. Len(s)
    <3>1. s[j].from = IF j = 1 THEN 0 ELSE End(s[j - 1])
      BY <2>1 DEF Adjacent
    <3>2. r[j] = s[j] /\ (j # 1 => r[j - 1] = s[j - 1])
      BY <1>2, <1>3, <2>1
    <3> QED
      BY <3>1, <3>2
  <2>2. CASE j = Len(s) + 1
    <3>1. f = IF s = << >> THEN 0 ELSE End(s[Len(s)])
      BY DEF Adjacent
    <3>2. r[j].from = f /\ j - 1 = Len(s) /\ (j # 1 => r[j - 1] = s[Len(s)])
      BY <1>1, <1>2, <1>3, <2>2
    <3> QED
      BY <1>3, <2>2, <3>1, <3>2
  <2> QED
    BY <1>2, <1>3, <2>1, <2>2
<1> QED
  BY <1>4, <1>5 DEF Adjacent, r, e

(* The copy of a part of the text is what that part is. *)
LEMMA CopyTruthful ==
  ASSUME NEW f \in Int, NEW n \in Int, NEW txt
  PROVE  /\ (\A p \in f .. f + n - 1 : txt[p] \in {"char", "gap"})
               => Truthful(Copy(f, n, "word"), txt)
         /\ (\A p \in f .. f + n - 1 : txt[p] \in {"sep", "gap"})
               => Truthful(Copy(f, n, "separator"), txt)
<1>1. \A k : /\ Copy(f, n, k).from = f /\ Copy(f, n, k).kind = k
             /\ End(Copy(f, n, k)) = f + n
  BY DEF Copy, End
<1>2. ASSUME NEW e, e.from = f, End(e) = f + n, e.kind = "word",
             \A p \in f .. f + n - 1 : txt[p] \in {"char", "gap"}
      PROVE  Truthful(e, txt)
  BY <1>2 DEF Truthful
<1>3. ASSUME NEW e, e.from = f, End(e) = f + n, e.kind = "separator",
             \A p \in f .. f + n - 1 : txt[p] \in {"sep", "gap"}
      PROVE  Truthful(e, txt)
  BY <1>3 DEF Truthful
<1> QED
  BY <1>1, <1>2, <1>3

(* Appending an entry that is what it is called to a list of such entries   *)
(* makes a list of such entries.                                            *)
LEMMA AppendTruthful ==
  ASSUME NEW s \in Seq(Entry), NEW e \in Entry, NEW txt, Truthful(e, txt),
         \A k \in 1 .. Len(s) : Truthful(s[k], txt)
  PROVE  \A k \in 1 .. Len(Append(s, e)) : Truthful(Append(s, e)[k], txt)
<1>1. /\ Len(Append(s, e)) = Len(s) + 1 /\ Append(s, e)[Len(s) + 1] = e
      /\ \A k \in 1 .. Len(s) : Append(s, e)[k] = s[k]
  OBVIOUS
<1> QED
  BY <1>1

(* A piece between separators is not cut in a text without over-long runs. *)
LEMMA NotCut ==
  ASSUME TypeOK, ~Overlong, NEW b \in start .. size,
         \A p \in start .. b - 1 : text[p] # "sep"
  PROVE  Cut(b - start) = b - start
<1>1. b \in 0 .. size /\ start \in 0 .. size
  BY DEF TypeOK
<1>2. ~(b - start > Limit)
  BY <1>1 DEF Overlong
<1> QED
  BY <1>1, <1>2, SplitAssumption DEF Cut, Smaller

(* The cut is a length within the piece and the limit. *)
LEMMA CutBounds ==
  ASSUME NEW n \in Nat
  PROVE  Cut(n) \in 0 .. Limit /\ Cut(n) <= n
BY SplitAssumption DEF Cut, Smaller

-----------------------------------------------------------------------------
(* At first nothing is returned and nothing is passed. *)
LEMMA InitInv == Init => Inv
<1> SUFFICES ASSUME Init PROVE Inv
  OBVIOUS
<1>1. size \in Nat /\ 0 \in 0 .. size /\ 0 \in 0 .. Limit /\ 0 \in 0 .. 0 /\ out \in Seq(Entry)
  BY SplitAssumption DEF Init
<1>2. TypeOK
  BY <1>1 DEF Init, TypeOK
<1> QED
  BY <1>2 DEF Init, Inv, Contiguous, Adjacent, Separated, Complete, ErrorEmpty, TurnFits, RestValid, Valid,
       TurnExact, TurnOver

(* A match fixes a piece and a separator within the rest of the text. *)
LEMMA MatchInv == Inv /\ Match => Inv'
<1> SUFFICES ASSUME Inv, Match PROVE Inv'
  OBVIOUS
<1> USE DEF Inv
<1>0. PICK from \in start .. size - 1 : \E to \in from + 1 .. size :
        Separator(from, to) /\ len' = Cut(from - start) /\ skip' = to - from
  BY Zenon DEF Match
<1>1. PICK to \in from + 1 .. size :
        Separator(from, to) /\ len' = Cut(from - start) /\ skip' = to - from
  BY <1>0
<1>2. /\ at = "match" /\ at' = "words" /\ found' = TRUE /\ i = 0
      /\ UNCHANGED << size, text, start, i, out >>
      /\ \A p \in start .. size - 1 : text[p] # "bad"
  BY DEF Match, Valid, TurnOver
<1>3. size \in Nat /\ start \in 0 .. size /\ from \in Nat /\ to \in Nat /\ from - start \in Nat
  BY DEF TypeOK
<1>4. len' \in 0 .. Limit /\ len' <= from - start
  BY <1>1, <1>3, CutBounds
<1>5. TypeOK'
  BY <1>1, <1>2, <1>3, <1>4 DEF TypeOK
<1>6. TurnFits'
  BY <1>1, <1>2, <1>3, <1>4, SplitAssumption DEF TurnFits
<1>7. TurnExact'
  <2> SUFFICES ASSUME ~Overlong
               PROVE  /\ \A p \in start .. start + len' - 1 : text[p] \in {"char", "gap"}
                      /\ \A p \in start + len' .. start + len' + skip' - 1 :
                           text[p] \in {"sep", "gap"}
    BY <1>2 DEF TurnExact, Overlong
  <2>1. \A p \in start .. from - 1 : text[p] # "sep" /\ text[p] # "bad" /\ text[p] \in Kinds
    BY <1>1, <1>2, <1>3 DEF Separator, Begins, TypeOK
  <2>2. len' = from - start
    <3>1. from \in start .. size /\ \A p \in start .. from - 1 : text[p] # "sep"
      BY <1>3, <2>1
    <3> QED
      BY <1>1, <3>1, NotCut
  <2> QED
    BY <1>1, <1>3, <2>1, <2>2 DEF Separator, Kinds
<1>8. Contiguous' /\ Separated' /\ Complete' /\ ErrorEmpty' /\ RestValid' /\ TurnOver'
  BY <1>2 DEF Contiguous, Separated, Complete, ErrorEmpty, RestValid, Valid, TurnOver, Overlong
<1> QED
  BY <1>5, <1>6, <1>7, <1>8

(* Without a match the piece is the rest of the text. *)
LEMMA NoMatchInv == Inv /\ NoMatch => Inv'
<1> SUFFICES ASSUME Inv, NoMatch PROVE Inv'
  OBVIOUS
<1> USE DEF Inv
<1>1. /\ at = "match" /\ at' = "words" /\ found' = FALSE /\ i = 0
      /\ len' = Cut(size - start) /\ skip' = 0
      /\ UNCHANGED << size, text, start, i, out >>
      /\ \A p \in start .. size - 1 : text[p] # "bad" /\ ~Begins(p)
  BY DEF NoMatch, Valid, TurnOver
<1>2. size \in Nat /\ start \in 0 .. size /\ size - start \in Nat
  BY DEF TypeOK
<1>3. /\ len' \in 0 .. Limit /\ len' <= size - start
      /\ 0 \in 0 .. size /\ 0 \in 0 .. len'
  BY <1>1, <1>2, CutBounds, SplitAssumption
<1>4. TypeOK'
  BY <1>1, <1>2, <1>3 DEF TypeOK
<1>5. TurnFits'
  BY <1>1, <1>2, <1>3, SplitAssumption DEF TurnFits
<1>6. TurnExact'
  <2> SUFFICES ASSUME ~Overlong
               PROVE  /\ \A p \in start .. start + len' - 1 : text[p] \in {"char", "gap"}
                      /\ \A p \in start + len' .. start + len' - 1 :
                           text[p] \in {"sep", "gap"}
                      /\ start + len' = size
    BY <1>1, <1>2, <1>3, SplitAssumption DEF TurnExact, Overlong
  <2>1. \A p \in start .. size - 1 : text[p] # "sep" /\ text[p] # "bad" /\ text[p] \in Kinds
    BY <1>1, <1>2 DEF Begins, TypeOK
  <2>2. len' = size - start
    <3>1. size \in start .. size
      BY <1>2
    <3> QED
      BY <1>1, <2>1, <3>1, NotCut
  <2> QED
    BY <1>2, <2>1, <2>2 DEF Kinds
<1>7. Contiguous' /\ Separated' /\ Complete' /\ ErrorEmpty' /\ RestValid' /\ TurnOver'
  BY <1>1 DEF Contiguous, Separated, Complete, ErrorEmpty, RestValid, Valid, TurnOver, Overlong
<1> QED
  BY <1>4, <1>5, <1>6, <1>7

(* A text that is not valid ends the loop and leaves all as it was. *)
LEMMA ErrorInv == Inv /\ Error => Inv'
BY DEF Inv, Error, TypeOK, Contiguous, Separated, Complete, ErrorEmpty, TurnFits, RestValid, Valid,
       TurnExact, TurnOver,
       Overlong

-----------------------------------------------------------------------------
(* A word is the next part of the piece. *)
LEMMA WordInv == Inv /\ Word => Inv'
<1> SUFFICES ASSUME Inv, Word PROVE Inv'
  OBVIOUS
<1> USE DEF Inv
<1>1. PICK n \in 1 .. len - i :
        out' = Append(out, Copy(start + i, n, "word")) /\ i' = i + n
  BY DEF Word
<1>2. /\ at = "words" /\ i < len
      /\ UNCHANGED << size, text, start, len, skip, found, at >>
  BY DEF Word
<1>3. /\ size \in Nat /\ start \in 0 .. size /\ len \in 0 .. Limit /\ i \in 0 .. len
      /\ n \in Nat \ {0} /\ start + i \in Nat /\ out \in Seq(Entry)
      /\ i + n \in 0 .. len
  BY <1>2, SplitAssumption DEF TypeOK
<1>4. Copy(start + i, n, "word") \in Entry
  BY <1>3 DEF Copy, Entry
<1>5. TypeOK'
  <2>1. out' \in Seq(Entry)
    BY <1>1, <1>3, <1>4
  <2> QED
    BY <1>1, <1>2, <1>3, <2>1 DEF TypeOK
<1>6. Contiguous'
  <2>1. Adjacent(out', start + i + n)
    BY <1>1, <1>3, AppendAdjacent DEF Contiguous
  <2>2. start' + i' = start + i + n
    BY <1>1, <1>2, <1>3
  <2> QED
    BY <2>1, <2>2 DEF Contiguous
<1>7. Separated'
  <2> SUFFICES ASSUME ~Overlong
               PROVE  \A k \in 1 .. Len(out') : Truthful(out'[k], text)
    BY <1>2 DEF Separated, Overlong
  <2>1. \A p \in start + i .. start + i + n - 1 : text[p] \in {"char", "gap"}
    <3>1. \A p \in start .. start + len - 1 : text[p] \in {"char", "gap"}
      BY <1>2 DEF TurnExact
    <3> QED
      BY <1>3, <3>1
  <2>2. Truthful(Copy(start + i, n, "word"), text)
    BY <1>3, <2>1, CopyTruthful
  <2> QED
    BY <1>1, <1>3, <1>4, <2>2, AppendTruthful DEF Separated
<1>8. Complete' /\ ErrorEmpty' /\ TurnFits' /\ RestValid' /\ TurnExact' /\ TurnOver'
  BY <1>2 DEF Complete, ErrorEmpty, TurnFits, RestValid, Valid,
       TurnExact, TurnOver, Overlong
<1> QED
  BY <1>5, <1>6, <1>7, <1>8

(* The separator is the part of the text after the piece. *)
LEMMA AdvanceInv == Inv /\ Advance => Inv'
<1> SUFFICES ASSUME Inv, Advance PROVE Inv'
  OBVIOUS
<1> USE DEF Inv
<1>1. /\ at = "words" /\ i = len /\ out' = WithSeparator
      /\ start' = start + len + skip /\ i' = 0
      /\ at' = IF found THEN "match" ELSE "done"
      /\ UNCHANGED << size, text, len, skip, found >>
  BY DEF Advance, Continue
<1>2. /\ size \in Nat /\ start \in 0 .. size /\ len \in Nat /\ len \in 0 .. Limit
      /\ skip \in Nat /\ out \in Seq(Entry) /\ start + len \in Nat
      /\ start + len + skip <= size
  BY <1>1, SplitAssumption DEF TypeOK, TurnFits
<1>3. Complete' /\ ErrorEmpty' /\ TurnFits' /\ RestValid' /\ TurnExact' /\ TurnOver'
  <2>1. RestValid'
    <3>1. \A p \in start .. size - 1 : text[p] # "bad"
      BY <1>1 DEF RestValid, Valid
    <3>2. \A p \in start' .. size' - 1 : text'[p] # "bad"
      BY <1>1, <1>2, <3>1
    <3> QED
      BY <3>2 DEF RestValid, Valid
  <2>2. Complete'
    BY <1>1 DEF Complete, TurnExact, Overlong
  <2> QED
    BY <1>1, <2>1, <2>2 DEF ErrorEmpty, TurnFits, TurnExact, TurnOver
<1>4. CASE skip = 0
  <2>1. out' = out
    BY <1>1, <1>2, <1>4 DEF WithSeparator
  <2>2. TypeOK'
    BY <1>1, <1>2, <2>1 DEF TypeOK
  <2>3. Contiguous' /\ Separated'
    BY <1>1, <1>2, <1>4, <2>1 DEF Contiguous, Separated, Overlong
  <2> QED
    BY <1>3, <2>2, <2>3
<1>5. CASE skip # 0
  <2>1. out' = Append(out, Copy(start + len, skip, "separator"))
    BY <1>1, <1>2, <1>5 DEF WithSeparator
  <2>2. Copy(start + len, skip, "separator") \in Entry
    BY <1>2, <1>5 DEF Copy, Entry
  <2>3. TypeOK'
    <3>1. out' \in Seq(Entry)
      BY <1>2, <2>1, <2>2
    <3> QED
      BY <1>1, <1>2, <3>1 DEF TypeOK
  <2>4. Contiguous'
    <3>1. Adjacent(out', start + len + skip)
      BY <1>1, <1>2, <1>5, <2>1, AppendAdjacent DEF Contiguous
    <3>2. start' + i' = start + len + skip
      BY <1>1, <1>2
    <3> QED
      BY <3>1, <3>2 DEF Contiguous
  <2>5. Separated'
    <3> SUFFICES ASSUME ~Overlong
                 PROVE  \A k \in 1 .. Len(out') : Truthful(out'[k], text)
      BY <1>1 DEF Separated, Overlong
    <3>1. \A p \in start + len .. start + len + skip - 1 : text[p] \in {"sep", "gap"}
      BY <1>1 DEF TurnExact
    <3>2. Truthful(Copy(start + len, skip, "separator"), text)
      BY <1>2, <3>1, CopyTruthful
    <3> QED
      BY <1>2, <2>1, <2>2, <3>2, AppendTruthful DEF Separated
  <2> QED
    BY <1>3, <2>3, <2>4, <2>5
<1> QED
  BY <1>4, <1>5

(* Every step keeps the invariant, one that changes nothing included. *)
LEMMA StepInv == Inv /\ [Next]_vars => Inv'
<1> SUFFICES ASSUME Inv, [Next]_vars PROVE Inv'
  OBVIOUS
<1>1. CASE UNCHANGED vars
  BY <1>1 DEF vars, Inv, TypeOK, Contiguous, Separated, Complete, ErrorEmpty, TurnFits,
              RestValid, Valid, TurnExact, TurnOver, Overlong
<1>2. CASE Next
  BY <1>2, MatchInv, NoMatchInv, ErrorInv, WordInv, AdvanceInv DEF Next
<1> QED
  BY <1>1, <1>2

(* The invariant holds of every behaviour of get_segs_ex. *)
THEOREM InvHolds == Spec => []Inv
BY InitInv, StepInv, PTL DEF Spec

(* Positions and lengths stay within the text and the limit. *)
THEOREM TypeCorrect == Spec => []TypeOK
<1>1. Inv => TypeOK
  BY DEF Inv
<1> QED
  BY <1>1, InvHolds, PTL

(* The entries returned are adjacent copies from the first character on,    *)
(* for texts of every size and every limit.                                 *)
THEOREM OutputContiguous == Spec => []Contiguous
<1>1. Inv => Contiguous
  BY DEF Inv
<1> QED
  BY <1>1, InvHolds, PTL

(* Without over-long runs words are words and separators are separators.    *)
THEOREM OutputSeparated == Spec => []Separated
<1>1. Inv => Separated
  BY DEF Inv
<1> QED
  BY <1>1, InvHolds, PTL

(* Without over-long runs the whole text is returned. *)
THEOREM OutputComplete == Spec => []Complete
<1>1. Inv => Complete
  BY DEF Inv
<1> QED
  BY <1>1, InvHolds, PTL

(* An error of the expression never leaves a partial list. *)
THEOREM ErrorsReturnNothing == Spec => []ErrorEmpty
<1>1. Inv => ErrorEmpty
  BY DEF Inv
<1> QED
  BY <1>1, InvHolds, PTL

(* The list a caller gets is adjacent, truthful, complete, and empty after *)
(* an error.                                                               *)
THEOREM OutputIsExact == Spec => []OutputExact
  BY OutputContiguous, OutputSeparated, OutputComplete, ErrorsReturnNothing, PTL
     DEF OutputExact
=============================================================================
