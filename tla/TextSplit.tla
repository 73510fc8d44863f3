----------------------------- MODULE TextSplit -----------------------------
(***************************************************************************)
(* NGramDictManage::get_segs_ex for wide characters                        *)
(* (src/src/segmenter/relrank_dict.cpp): a text is split at the matches of *)
(* the separator expression, the pieces between them are searched and cut  *)
(* into words, and words and separators are returned in one list.          *)
(*                                                                         *)
(* A character is known by what the expression makes of it: "sep" always   *)
(* belongs to a separator, "gap" may (a blank between letters, once the    *)
(* letter before it is no longer part of the text the expression is given),*)
(* "bad" is not a character at all.  The search is SegmentSearch, of which *)
(* this module uses only that its words tile the piece.                    *)
(***************************************************************************)
EXTENDS Integers, Sequences

CONSTANTS
  MaxSize,  (* bound: characters in a text                                 *)
  Limit     (* longest piece that is searched; 1000 in the code            *)

ASSUME SplitAssumption == MaxSize \in Nat /\ Limit \in Nat \ {0}

VARIABLES
  size, text,  (* the argument: buf[0 .. sz-1]                             *)
  start,       (* where the rest of the text begins                        *)
  len, skip,   (* of the piece and of the separator after it               *)
  found,       (* did the expression match (rc > 0)?                       *)
  i,           (* how far the piece is cut into words                      *)
  out,         (* the list returned: where each entry was copied from      *)
  at           (* the part of the loop to do next                          *)

vars == << size, text, start, len, skip, found, i, out, at >>

Kinds == {"char", "gap", "sep", "bad"}
Entry == [from : Nat, len : Nat \ {0}, kind : {"word", "separator"}]
Copy(f, l, k) == [from |-> f, len |-> l, kind |-> k]

Smaller(m, n) == IF m < n THEN m ELSE n

-----------------------------------------------------------------------------
Init ==
  /\ size \in 0 .. MaxSize
  /\ text \in [0 .. size - 1 -> Kinds]
  /\ start = 0 /\ len = 0 /\ skip = 0 /\ i = 0
  /\ found = FALSE
  /\ out = << >>
  /\ at = "match"

(* pcre2_match checks the whole rest of the text before it matches. *)
Valid == \A p \in start .. size - 1 : text[p] # "bad"

Begins(p) == text[p] = "sep" \/ (text[p] = "gap" /\ p = start)

(* The leftmost separator of the rest of the text is from .. to - 1.  Where *)
(* one match ends and an adjacent one begins is left to the expression.     *)
Separator(from, to) ==
  /\ \A p \in start .. from - 1 : ~Begins(p)
  /\ Begins(from)
  /\ \A p \in from .. to - 1 : text[p] \in {"sep", "gap"}

SearchesAll(n) == n

(* The hard break: a piece that is too long is cut. *)
Cut(n) == Smaller(n, Limit)

Match ==
  /\ at = "match" /\ Valid
  /\ \E from \in start .. size - 1 : \E to \in from + 1 .. size :
       /\ Separator(from, to)
       /\ len' = Cut(from - start) /\ skip' = to - from
  /\ found' = TRUE
  /\ at' = "words"
  /\ UNCHANGED << size, text, start, i, out >>

NoMatch ==
  /\ at = "match" /\ Valid
  /\ \A p \in start .. size - 1 : ~Begins(p)
  /\ len' = Cut(size - start) /\ skip' = 0
  /\ found' = FALSE
  /\ at' = "words"
  /\ UNCHANGED << size, text, start, i, out >>

Error ==
  /\ at = "match" /\ ~Valid
  /\ at' = "error"
  /\ UNCHANGED << size, text, start, len, skip, found, i, out >>

(* The next word the search found in the piece. *)
Word ==
  /\ at = "words" /\ i < len
  /\ \E n \in 1 .. len - i :
       /\ out' = Append(out, Copy(start + i, n, "word"))
       /\ i' = i + n
  /\ UNCHANGED << size, text, start, len, skip, found, at >>

CopiesPiece == Append(out, Copy(start, skip, "separator"))

(* The separator is copied from the end of the piece, cut or not. *)
WithSeparator ==
  IF skip > 0 THEN Append(out, Copy(start + len, skip, "separator")) ELSE out

LoopsOn == at' = "match"

(* while (rc > 0) *)
Continue == at' = IF found THEN "match" ELSE "done"

Advance ==
  /\ at = "words" /\ i = len
  /\ out' = WithSeparator
  /\ start' = start + len + skip
  /\ i' = 0
  /\ Continue
  /\ UNCHANGED << size, text, len, skip, found >>

Next == Match \/ NoMatch \/ Error \/ Word \/ Advance

Spec == Init /\ [][Next]_vars
FairSpec == Spec /\ WF_vars(Next)

-----------------------------------------------------------------------------
TypeOK ==
  /\ size \in Nat
  /\ text \in [0 .. size - 1 -> Kinds]
  /\ start \in 0 .. size /\ len \in 0 .. Limit /\ skip \in 0 .. size
  /\ found \in BOOLEAN
  /\ i \in 0 .. len
  /\ out \in Seq(Entry)
  /\ at \in {"match", "words", "done", "error"}

End(e) == e.from + e.len

(* The entries of list copy adjacent parts of the text, which end at n. *)
Adjacent(list, n) ==
  /\ \A k \in 1 .. Len(list) :
       list[k].from = IF k = 1 THEN 0 ELSE End(list[k - 1])
  /\ n = IF list = << >> THEN 0 ELSE End(list[Len(list)])

(* The entries returned are copies of adjacent parts of the text, from its  *)
(* first character to where the loop has got, cut pieces included.          *)
Contiguous == Adjacent(out, start + i)

(* Is there a run of more than Limit characters without a separator? *)
Overlong ==
  \E a \in 0 .. size : \E b \in 0 .. size :
    b - a > Limit /\ \A p \in a .. b - 1 : text[p] # "sep"

(* An entry is what it is called. *)
Truthful(e, txt) ==
  \A p \in e.from .. End(e) - 1 :
    txt[p] \in {"gap", IF e.kind = "word" THEN "char" ELSE "sep"}

(* In a text without over-long runs what is returned as a separator is one, *)
(* and no word contains one.                                                *)
Separated == ~Overlong => \A k \in 1 .. Len(out) : Truthful(out[k], text)

(* A text without over-long runs is returned whole. *)
Complete == at = "done" /\ ~Overlong => start = size

(* An error of the expression in a later turn would return a list without   *)
(* the rest of the text; it only occurs in the first turn, and returns none.*)
ErrorEmpty == at = "error" => out = << >>

(* What a caller gets are adjacent copies of the text, called what they    *)
(* are and reaching to its end, or nothing after an error.                 *)
OutputExact == Contiguous /\ Separated /\ Complete /\ ErrorEmpty

(* The loop ends, whatever the text. *)
Ends == <>(at \in {"done", "error"})
=============================================================================
