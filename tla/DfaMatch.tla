------------------------------ MODULE DfaMatch ------------------------------
(* The matching functions of src/segmenter/dfa.cpp. Each scans a text with *)
(* an automaton; they are written out one by one in the code, for nodes_   *)
(* and for the mapped tables, and differ in what they report: the longest  *)
(* match of each position, also the match before each change of type, the  *)
(* same into a buffer with an end, the matches at the beginning of the     *)
(* text with their scores, or all matches.                                 *)
(*                                                                         *)
(* One step is one round of a loop. Positions are those of the code, from  *)
(* 0: the character at position p is text[p + 1].                          *)
EXTENDS Integers, Sequences

CONSTANTS
  Wide,              \* how many values two bytes have: 65536 in the code
  Machines,          \* the automata that may be searched
  Calls              \* the calls: function, text and size of the buffer

ASSUME WideAssumption == Wide \in Nat \ {0}

VARIABLES
  machine,           \* the automaton as the functions see it
  mmap_pattern_,     \* whether it is mapped
  op, text, cap,     \* the call
  phase,             \* where the function is
  i, j, state,       \* beginning, position and state of the scan
  pre_match_pos, pre_match_type,   \* the last accepting state on the way
  result,            \* the matches reported
  start_positions    \* AnyMatch: where to begin again

scanVars == <<machine, mmap_pattern_, op, text, cap, phase, i, j, state,
              pre_match_pos, pre_match_type, result, start_positions>>

Ops == {"greedy", "longest", "longest_buffer", "prefix_wide", "prefix", "any"}

IsMachine(m) ==
  /\ m.count \in Nat
  /\ m.type \in [0 .. m.count - 1 -> Int]
  /\ m.next \in [0 .. m.count - 1 -> [0 .. Wide - 1 -> -1 .. m.count - 1]]

(* Only the text of a wide function has characters beyond two bytes.       *)
IsCall(c) ==
  /\ c.op \in Ops /\ c.cap \in Nat
  /\ c.text \in Seq(Nat)
  /\ c.op # "prefix_wide" => \A p \in 1 .. Len(c.text) : c.text[p] < Wide

-----------------------------------------------------------------------------
(* GetScore in tenths: a fixed score for the types that stand for          *)
(* themselves, else one that falls with the length.                        *)
HasType(type, flag) == (type \div flag) % 2 = 1
FixedTypes == {2, 16, 32, 64, 128, 256, 512, 1024, 2048, 4096, 8192}
GetScore(type, len) ==
  IF \E flag \in FixedTypes : HasType(type, flag) THEN 230
  ELSE IF HasType(type, 4) THEN 300 - 20 * len
  ELSE 100 - 33 * len

Match  == [begin |-> i, end |-> pre_match_pos, type |-> pre_match_type]
Scored == [begin |-> 0, end |-> pre_match_pos, type |-> pre_match_type,
           score |-> GetScore(pre_match_type, pre_match_pos)]

Hit     == machine.type[state] > 0
Changed == Hit /\ pre_match_type > 0 /\ pre_match_type # machine.type[state]
Room    == Len(result) < cap
Report(when, what) == IF when THEN Append(result, what) ELSE result

(* The low two bytes of the next character are looked up.                  *)
Target == IF j < Len(text) THEN machine.next[state][text[j + 1] % Wide] ELSE -1

-----------------------------------------------------------------------------
ScanInit ==
  /\ op = "none" /\ text = <<>> /\ cap = 0
  /\ phase = "idle"
  /\ i = 0 /\ j = 0 /\ state = 0
  /\ pre_match_pos = -1 /\ pre_match_type = -1
  /\ result = <<>> /\ start_positions = <<>>

(* A call, and the tests at the head of each function: an empty automaton  *)
(* and one that accepts the empty text are refused; AnyMatch of nodes_ has *)
(* no body. The prefix functions look at the tables whatever the pattern.  *)
Refused(o) ==
  \/ machine.count = 0 \/ machine.type[0] > 0
  \/ o \in {"prefix_wide", "prefix"} /\ ~mmap_pattern_

Call(c) ==
  /\ phase = "idle" /\ IsCall(c)
  /\ op' = c.op /\ text' = c.text /\ cap' = c.cap
  /\ result' = <<>>
  /\ start_positions' = IF c.op = "any" THEN [n \in 1 .. 17 |-> 0] ELSE <<>>
  /\ phase' = IF c.op = "any" /\ ~mmap_pattern_ THEN "returned"
              ELSE IF Refused(c.op) THEN "thrown"
              ELSE CASE c.op \in {"prefix_wide", "prefix"} -> "scan"
                     [] c.op = "any" -> "restart"
                     [] OTHER -> "begin"
  /\ UNCHANGED <<machine, mmap_pattern_, i, j, state, pre_match_pos, pre_match_type>>

Same == UNCHANGED <<machine, mmap_pattern_, op, text, cap>>

(* The loop over the positions: the scan begins at i, or the call ends.    *)
Begin(room, pos, end) ==
  /\ phase = "begin"
  /\ IF i < Len(text) /\ room
     THEN /\ state' = 0 /\ j' = i
          /\ pre_match_pos' = pos /\ pre_match_type' = -1
          /\ phase' = "scan"
     ELSE /\ phase' = end
          /\ UNCHANGED <<state, j, pre_match_pos, pre_match_type>>
  /\ UNCHANGED <<i, result, start_positions>> /\ Same

(* One round of the inner loop: the match before is reported if a new type *)
(* cuts it off, an accepting state becomes the last match, and the next    *)
(* character leads on, unless there is none or no edge (or no room).       *)
Advance(leave) ==
  IF Target = -1
  THEN phase' = "finish" /\ UNCHANGED <<state, j>>
  ELSE /\ state' = Target /\ j' = j + 1
       /\ phase' = IF leave THEN "finish" ELSE "scan"

Scan(when, what, leave) ==
  /\ phase = "scan"
  /\ result' = Report(when, what)
  /\ pre_match_pos' = IF Hit THEN j ELSE pre_match_pos
  /\ pre_match_type' = IF Hit THEN machine.type[state] ELSE pre_match_type
  /\ Advance(leave)
  /\ UNCHANGED i /\ Same

(* After the inner loop: the last match is reported and the scan goes on   *)
(* behind it, else with the next position.                                 *)
\* on with the place where the scan stopped
FinishAtScan(room) ==
  /\ phase = "finish"
  /\ result' = Report(pre_match_type > 0 /\ room, Match)
  /\ i' = IF pre_match_type > 0 /\ room THEN j ELSE i + 1
  /\ phase' = "begin"
  /\ UNCHANGED <<j, state, pre_match_pos, pre_match_type, start_positions>> /\ Same

\* without the step to the next position
FinishStays(room) ==
  /\ phase = "finish"
  /\ result' = Report(pre_match_type > 0 /\ room, Match)
  /\ i' = IF pre_match_type > 0 /\ room THEN pre_match_pos ELSE i
  /\ phase' = "begin"
  /\ UNCHANGED <<j, state, pre_match_pos, pre_match_type, start_positions>> /\ Same

Finish(room) ==
  /\ phase = "finish"
  /\ result' = Report(pre_match_type > 0 /\ room, Match)
  /\ i' = IF pre_match_type > 0 /\ room THEN pre_match_pos ELSE i + 1
  /\ phase' = "begin"
  /\ UNCHANGED <<j, state, pre_match_pos, pre_match_type, start_positions>> /\ Same

FinishPrefix ==
  /\ phase = "finish"
  /\ result' = Report(pre_match_type > 0 /\ Room, Scored)
  /\ phase' = "returned"
  /\ UNCHANGED <<i, j, state, pre_match_pos, pre_match_type, start_positions>> /\ Same

-----------------------------------------------------------------------------
Running(o, mapped) == op = o /\ mmap_pattern_ = mapped
Keep == UNCHANGED start_positions

GreedyMatchInStdPattern ==
  /\ Running("greedy", FALSE)
  /\ \/ Begin(TRUE, -1, "returned")
     \/ Scan(FALSE, Match, FALSE) /\ Keep
     \/ Finish(TRUE)

GreedyMatchInMmapPattern ==
  /\ Running("greedy", TRUE)
  /\ \/ Begin(TRUE, -1, "returned")
     \/ Scan(FALSE, Match, FALSE) /\ Keep
     \/ Finish(TRUE)

LongestAnyMatchInStdPattern ==
  /\ Running("longest", FALSE)
  /\ \/ Begin(TRUE, -1, "returned")
     \/ Scan(Changed, Match, FALSE) /\ Keep
     \/ Finish(TRUE)

LongestAnyMatchInMmapPattern ==
  /\ Running("longest", TRUE)
  /\ \/ Begin(TRUE, -1, "returned")
     \/ Scan(Changed, Match, FALSE) /\ Keep
     \/ Finish(TRUE)

(* Into a buffer: the one for nodes_ scans on when the buffer is full, the *)
(* one for the tables leaves the inner loop.                               *)
LongestAnyMatchInStdBuffer ==
  /\ Running("longest_buffer", FALSE)
  /\ \/ Begin(Room, -1, "returned")
     \/ Scan(Changed /\ Room, Match, FALSE) /\ Keep
     \/ Finish(Room)

\* without the test of the room in the inner loop
MmapBufferRunsOn ==
  /\ Running("longest_buffer", TRUE)
  /\ \/ Begin(Room, -1, "returned")
     \/ Scan(Changed, Match, FALSE) /\ Keep
     \/ Finish(Room)

LongestAnyMatchInMmapBuffer ==
  /\ Running("longest_buffer", TRUE)
  /\ \/ Begin(Room, -1, "returned")
     \/ Scan(Changed, Match, Changed /\ Len(result) + 1 >= cap) /\ Keep
     \/ Finish(Room)

(* The matches of the beginning of the text, for the search of words.      *)
MatchInMmapPatternWide ==
  /\ Running("prefix_wide", TRUE)
  /\ \/ Scan(Changed /\ Room, Scored, FALSE) /\ Keep
     \/ FinishPrefix

(* The UINT16 one asks for room only when it has written, and stops as     *)
(* soon as the buffer is full: where there is none, behind the first.      *)
Full == Changed /\ Len(result) + 1 >= cap
StopFull ==
  /\ phase = "scan" /\ Full
  /\ result' = Append(result, Scored)
  /\ phase' = "finish"
  /\ UNCHANGED <<i, j, state, pre_match_pos, pre_match_type, start_positions>> /\ Same

MatchInMmapPattern ==
  /\ Running("prefix", TRUE)
  /\ \/ StopFull
     \/ ~Full /\ Scan(Changed, Scored, FALSE) /\ Keep
     \/ FinishPrefix

(* All matches: the scan of the text is repeated from the end of each      *)
(* match that was cut off; the queue of beginnings starts with 17 zeros,   *)
(* the 16 elements it is constructed with and the one pushed.              *)
Restart ==
  /\ phase = "restart"
  /\ IF start_positions = <<>>
     THEN phase' = "returned" /\ UNCHANGED <<i, start_positions>>
     ELSE /\ i' = Head(start_positions)
          /\ start_positions' = Tail(start_positions)
          /\ phase' = "begin"
  /\ UNCHANGED <<j, state, pre_match_pos, pre_match_type, result>> /\ Same

AnyMatchInMmapPattern ==
  /\ Running("any", TRUE)
  /\ \/ Restart
     \/ Begin(TRUE, i - 1, "restart")
     \/ /\ Scan(Changed, Match, FALSE)
        /\ start_positions' = IF Changed THEN Append(start_positions, pre_match_pos)
                              ELSE start_positions
     \/ Finish(TRUE)

Matching ==
  \/ GreedyMatchInStdPattern \/ GreedyMatchInMmapPattern
  \/ LongestAnyMatchInStdPattern \/ LongestAnyMatchInMmapPattern
  \/ LongestAnyMatchInStdBuffer \/ LongestAnyMatchInMmapBuffer
  \/ MatchInMmapPatternWide \/ MatchInMmapPattern \/ AnyMatchInMmapPattern

MatchInit ==
  /\ machine \in { m \in Machines : IsMachine(m) } /\ mmap_pattern_ \in BOOLEAN
  /\ ScanInit

MatchNext == (\E c \in Calls : Call(c)) \/ Matching

MatchSpec == MatchInit /\ [][MatchNext]_scanVars

-----------------------------------------------------------------------------
Phases == {"idle", "restart", "begin", "scan", "finish", "returned", "thrown"}
Reported == { result[k] : k \in 1 .. Len(result) }

MatchTypeOK ==
  /\ IsMachine(machine) /\ mmap_pattern_ \in BOOLEAN
  /\ op \in Ops \cup {"none"} /\ text \in Seq(Nat) /\ cap \in Nat
  /\ phase \in Phases
  /\ i \in Nat /\ j \in Nat /\ state \in Nat
  /\ pre_match_pos \in Int /\ pre_match_type \in Int
  /\ \A m \in Reported : m.begin \in Nat /\ m.end \in Nat /\ m.type \in Int
  /\ start_positions \in Seq(Nat)

(* What a matching function reports lies in the text and is not empty, in  *)
(* a buffer there is room for it, but for the one match that the UINT16    *)
(* prefix function may write into a buffer without room, and it comes in   *)
(* the order of the text: a match begins where the one before did, and is  *)
(* longer, or behind its end (only AnyMatch begins again).                 *)
ReportsFit ==
  /\ \A m \in Reported : /\ m.begin < m.end /\ m.end <= Len(text)
                         /\ m.type > 0
  /\ op \in {"longest_buffer", "prefix_wide", "prefix"} =>
       Len(result) <= cap \/ (op = "prefix" /\ cap = 0 /\ Len(result) = 1)
  /\ op # "any" =>
       \A k \in 1 .. Len(result) - 1 :
         \/ /\ result[k + 1].begin = result[k].begin
            /\ result[k + 1].end > result[k].end
         \/ result[k + 1].begin >= result[k].end
=============================================================================
