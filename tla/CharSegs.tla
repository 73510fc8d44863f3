------------------------------ MODULE CharSegs ------------------------------
(***************************************************************************)
(* The segmenter for UTF-8 texts: get_segs_ex and get_segs of              *)
(* NGramDictManage for char (src/src/segmenter/relrank_dict.cpp) with the  *)
(* conversions to and from 16 bit characters that they call                *)
(* (src/src/segmenter/largetrie/transcode.cpp).  The search itself is      *)
(* SegmentSearch, of which only that its words tile the text is used.      *)
(***************************************************************************)
EXTENDS Integers, Sequences, SequencesExt

CONSTANT Texts  (* the texts; a 0 follows each of them                      *)

ASSUME TextsAssumption == Texts \subseteq Seq(0 .. 255)

VARIABLES
  call,   (* "none", "get_segs_ex" or "get_segs"                           *)
  buf,    (* the text                                                      *)
  pos,    (* how far it is converted                                       *)
  wbuf,   (* the characters                                                *)
  from,   (* how far they are cut into words                               *)
  segs,   (* psegbuf, the words, or the one string segbuf                  *)
  at      (* the part of the call to do next                               *)

charVars == << call, buf, pos, wbuf, from, segs, at >>

DEFAULT_CHAR == 61166

(* One byte of the text; its closing 0 is read, nothing behind it. *)
Byte(k) == IF k < Len(buf) THEN buf[k + 1] ELSE 0
Trailing(b) == b \div 64 = 2

(* The bits of two and of three bytes. *)
Two(b0, b1) == (b0 % 32) * 64 + (b1 % 64)
Three(b0, b1, b2) == (b0 % 16) * 4096 + (b1 % 64) * 64 + (b2 % 64)

(* utf8ToUtf16 of one character: its code and its length, 0 if the lead    *)
(* byte is none of the three that are known.                               *)
Decode(k) ==
  LET b0 == Byte(k)
      b1 == Byte(k + 1)
      b2 == Byte(k + 2)
  IN  IF b0 \div 16 = 14
        THEN [code |-> IF Trailing(b1) /\ Trailing(b2)
                         THEN Three(b0, b1, b2)
                         ELSE DEFAULT_CHAR,
              n |-> 3]
      ELSE IF b0 \div 32 = 6
        THEN [code |-> IF Trailing(b1) THEN Two(b0, b1) ELSE DEFAULT_CHAR,
              n |-> 2]
      ELSE [code |-> b0, n |-> IF b0 < 128 THEN 1 ELSE 0]

(* utf16ToUtf8 of one character. *)
Encode(c) ==
  IF c <= 127 THEN << c >>
  ELSE IF c <= 2047 THEN << 192 + (c \div 64), 128 + (c % 64) >>
  ELSE << 224 + (c \div 4096), 128 + ((c \div 64) % 64), 128 + (c % 64) >>

(* utf16ToUtf8 of a word: characters are added while more than three bytes *)
(* of room are left, so many of its olen bytes.                            *)
FromUcs2(cs, olen) ==
  LET out[j \in 0 .. Len(cs)] ==
        IF j = 0 THEN <<>>
        ELSE IF Len(out[j - 1]) < olen - 3 THEN out[j - 1] \o Encode(cs[j])
        ELSE out[j - 1]
  IN  out[Len(cs)]

-----------------------------------------------------------------------------
CharInit ==
  /\ call = "none" /\ buf = <<>> /\ pos = 0 /\ wbuf = <<>>
  /\ from = 0 /\ segs = <<>> /\ at = "idle"

CallSegs ==
  /\ at = "idle"
  /\ call' \in {"get_segs_ex", "get_segs"}
  /\ buf' \in Texts
  /\ pos' = 0 /\ wbuf' = <<>> /\ from' = 0 /\ segs' = <<>>
  /\ at' = "convert"

(* One turn of the loop of utf8ToUtf16; there is room for 2 * sz codes.    *)
Convert ==
  /\ at = "convert" /\ pos < Len(buf) /\ Decode(pos).n > 0
  /\ wbuf' = Append(wbuf, Decode(pos).code)
  /\ pos' = pos + Decode(pos).n
  /\ UNCHANGED << call, buf, from, segs, at >>

(* A byte that begins no character ends the conversion. *)
Converted ==
  /\ at = "convert" /\ (pos >= Len(buf) \/ Decode(pos).n = 0)
  /\ at' = "words"
  /\ UNCHANGED << call, buf, pos, wbuf, from, segs >>

RoomTooSmall(n) == 3 * n

(* What get_segs_ex allocates for a word of n characters. *)
RoomOf(n) == 3 * n + 1

(* The next word: an entry of its own, or appended after a 1.  get_segs    *)
(* does not subtract what it has written from the room; its buffer here is *)
(* eight times the text, as in dict_test.cpp.                              *)
CharWord ==
  /\ at = "words" /\ from < Len(wbuf)
  /\ \E n \in 1 .. Len(wbuf) - from :
       LET cs == SubSeq(wbuf, from + 1, from + n)
       IN  /\ segs' = IF call = "get_segs_ex"
                        THEN Append(segs, FromUcs2(cs, RoomOf(n)))
                      ELSE (IF segs = <<>> THEN <<>> ELSE Append(segs, 1))
                             \o FromUcs2(cs, 8 * Len(buf))
           /\ from' = from + n
  /\ UNCHANGED << call, buf, pos, wbuf, at >>

Answered ==
  /\ at = "words" /\ from = Len(wbuf)
  /\ at' = "answered"
  /\ UNCHANGED << call, buf, pos, wbuf, from, segs >>

(* The caller has used the answer and freed it. *)
Consumed ==
  /\ at = "answered"
  /\ call' = "none" /\ buf' = <<>> /\ pos' = 0 /\ wbuf' = <<>>
  /\ from' = 0 /\ segs' = <<>> /\ at' = "idle"

CharStep == Convert \/ Converted \/ CharWord \/ Answered \/ Consumed

-----------------------------------------------------------------------------
(* What is left of bytes in the answer of get_segs, whose separator is 1.   *)
Kept(s) == FlattenSeq([k \in 1 .. Len(s) |-> IF s[k] = 1 THEN <<>> ELSE << s[k] >>])

AsAnswered(s) == IF call = "get_segs_ex" THEN s ELSE Kept(s)

(* The words, put together. *)
Joined == AsAnswered(IF call = "get_segs_ex" THEN FlattenSeq(segs) ELSE segs)

(* The bytes that are a character, or lead one of two or three bytes, in    *)
(* its shortest form.                                                      *)
Plain(b) == b < 128
LeadsTwo(b) == b \in 194 .. 223
LeadsThree(b) == b \in 224 .. 239
Shortest(b0, b1) == b0 = 224 => b1 >= 160

(* A character begins at k, or k belongs to one that began one or two bytes *)
(* before.                                                                 *)
Begins(s, k) ==
  \/ Plain(s[k])
  \/ LeadsTwo(s[k]) /\ k + 1 <= Len(s) /\ Trailing(s[k + 1])
  \/ /\ LeadsThree(s[k]) /\ k + 2 <= Len(s)
     /\ Trailing(s[k + 1]) /\ Trailing(s[k + 2]) /\ Shortest(s[k], s[k + 1])

Continues(s, k) ==
  /\ Trailing(s[k])
  /\ \/ k > 1 /\ (LeadsTwo(s[k - 1]) \/ LeadsThree(s[k - 1]))
     \/ k > 2 /\ LeadsThree(s[k - 2])

WellFormed(s) == \A k \in 1 .. Len(s) : Begins(s, k) \/ Continues(s, k)

(* A byte that begins no character, or one of four bytes. *)
Stops(b) == Trailing(b) \/ b >= 240

(* The words together are the text: every well formed beginning of it comes *)
(* back, none of its characters is torn between two words, and a byte that  *)
(* begins no character of up to three bytes is where the answer ends.  In   *)
(* the answer of get_segs a 1 of the text cannot be told from a separator;  *)
(* the position in segbuf stays below its size, as get_segs asserts.        *)
TextKept ==
  at = "answered" =>
    /\ \A k \in 0 .. Len(buf) :
         LET s == SubSeq(buf, 1, k)
         IN  WellFormed(s) =>
               /\ IsPrefix(AsAnswered(s), Joined)
               /\ k < Len(buf) /\ Stops(buf[k + 1]) => Joined = AsAnswered(s)
    /\ call = "get_segs_ex" => \A k \in DOMAIN segs : WellFormed(segs[k])
    /\ call = "get_segs" /\ buf # <<>> => Len(segs) < 8 * Len(buf)
=============================================================================
