--------------------------- MODULE DigestService ---------------------------
(***************************************************************************)
(* What the digest plugin promises when the messages of a connection are   *)
(* handled one at a time: every message takes effect at once and in the    *)
(* order of arrival.  A unit is kept; an end is answered with the units of *)
(* its article and forgets them.  There are no workers, copies or locks.   *)
(***************************************************************************)
EXTENDS Sequences, Naturals

CONSTANTS Sockets, Articles, Ids

VARIABLES
  queue,    (* messages that have arrived and had no effect yet *)
  pending,  (* units of an article since its last end           *)
  answers   (* answers given, oldest first                      *)

Message == [kind : {"unit", "end"}, article : Articles, id : Ids]

Init ==
  /\ queue = [s \in Sockets |-> <<>>]
  /\ pending = [s \in Sockets |-> [a \in Articles |-> <<>>]]
  /\ answers = [s \in Sockets |-> <<>>]

Arrive(s) ==
  /\ queue' # queue
  /\ \E m \in Message : queue' = [queue EXCEPT ![s] = Append(@, m)]
  /\ UNCHANGED << pending, answers >>

(* A lost connection takes the messages with it that nobody works on. *)
Lose(s) ==
  /\ \E k \in 0 .. Len(queue[s]) :
       queue' = [queue EXCEPT ![s] = SubSeq(@, 1, k)]
  /\ UNCHANGED << pending, answers >>

Keep(s) ==
  /\ queue[s] # <<>>
  /\ LET m == Head(queue[s])
     IN  /\ m.kind = "unit"
         /\ pending' = [pending EXCEPT ![s][m.article] = Append(@, m.id)]
  /\ queue' = [queue EXCEPT ![s] = Tail(@)]
  /\ UNCHANGED answers

Answer(s) ==
  /\ queue[s] # <<>>
  /\ LET m == Head(queue[s])
         units == pending[s][m.article]
     IN  /\ m.kind = "end"
         /\ \E made \in BOOLEAN :
              /\ units = <<>> => ~made
              /\ answers' = [answers EXCEPT ![s] = Append(@,
                   [article |-> m.article, units |-> units, made |-> made])]
         /\ pending' = [pending EXCEPT ![s][m.article] = <<>>]
  /\ queue' = [queue EXCEPT ![s] = Tail(@)]

Next == \E s \in Sockets : Arrive(s) \/ Lose(s) \/ Keep(s) \/ Answer(s)

Spec == Init /\ [][Next]_<<queue, pending, answers>>
=============================================================================
