----------------------------- MODULE SendStream -----------------------------
(***************************************************************************)
(* The answers of the segmenter plugin on one connection: OnSegmentWord    *)
(* sends the words of a request in batches                                 *)
(* (src/build/mpl/segmenter/segmenter_logic.cc), SendFull the bytes of a   *)
(* batch in as many pieces as the socket takes                             *)
(* (src/build/mpl/pub/send_comm.cc).                                       *)
(*                                                                         *)
(* send() with a full socket buffer fails with EAGAIN and SendFull tries   *)
(* again, which changes nothing and is no action.                          *)
(***************************************************************************)
EXTENDS Integers, Sequences, FiniteSets

CONSTANTS
  Requests,   (* requests of the client of this connection                 *)
  Words(_),   (* how many words the text of a request has                  *)
  Batch,      (* base_num, 40 in the code                                  *)
  HeadSize,   (* bytes of a packet before its words; a word is one byte    *)
  Capacity,   (* bytes the socket buffer holds                             *)
  Threads     (* worker threads                                            *)

ASSUME SendAssumption ==
  /\ \A r \in Requests : Words(r) \in Nat
  /\ Batch \in Nat \ {0} /\ HeadSize \in Nat \ {0} /\ Capacity \in Nat \ {0}

VARIABLES
  todo,     (* requests that have not been taken up                        *)
  worker,   (* where each worker is                                        *)
  open,     (* is the connection open?                                     *)
  sent,     (* history: the bytes the socket took, in order                *)
  buffered, (* how many of them the client has not read                    *)
  failed,   (* history: requests that met an error                         *)
  mixed     (* history: were two workers at work at once, or did send()    *)
            (* fail on an open connection?                                 *)

vars == << todo, worker, open, sent, buffered, failed, mixed >>

Smaller(m, n) == IF m < n THEN m ELSE n

(* A WORD_RESULT packet with the words first .. last of a request. *)
Packet == [req : Requests, first : Nat \ {0}, last : Nat \ {0}]
Pack(r, f, l) == [req |-> r, first |-> f, last |-> l]
Size(p) == HeadSize + p.last - p.first + 1
Byte == [packet : Packet, n : Nat \ {0}]
Bytes(p, from, k) == [j \in 1 .. k |-> [packet |-> p, n |-> from + j]]

(* A worker fills the list from word next on, or sends a packet of which    *)
(* done bytes are gone.                                                     *)
Idle == [at |-> "idle"]
Fill(r, n) == [at |-> "fill", req |-> r, next |-> n]
Sending(p, d) == [at |-> "send", packet |-> p, done |-> d]
Worker == {Idle} \cup [at : {"fill"}, req : Requests, next : Nat \ {0}]
          \cup [at : {"send"}, packet : Packet, done : Nat]

-----------------------------------------------------------------------------
Init ==
  /\ todo = Requests
  /\ worker = [t \in Threads |-> Idle]
  /\ open = TRUE
  /\ sent = << >> /\ buffered = 0
  /\ failed = {} /\ mixed = FALSE

(* OnSegmenterMessage hands a request to OnSegmentWord, perhaps while       *)
(* another worker answers one.                                              *)
TakeUp(t, r) ==
  /\ r \in todo /\ worker[t] = Idle
  /\ mixed' = (mixed \/ \E o \in Threads : worker[o] # Idle)
  /\ todo' = todo \ {r}
  /\ worker' = [worker EXCEPT ![t] = Fill(r, 1)]
  /\ UNCHANGED << open, sent, buffered, failed >>

LastByOne(w) == Smaller(w.next + Batch, Words(w.req))

(* The list is sent when it has base_num words, and at the end. *)
LastOf(w) == Smaller(w.next + Batch - 1, Words(w.req))

FillList(t) ==
  /\ worker[t].at = "fill" /\ worker[t].next <= Words(worker[t].req)
  /\ worker' = [worker EXCEPT ![t] = Sending(Pack(@.req, @.next, LastOf(@)), 0)]
  /\ UNCHANGED << todo, open, sent, buffered, failed, mixed >>

Finish(t) ==
  /\ worker[t].at = "fill" /\ worker[t].next > Words(worker[t].req)
  /\ worker' = [worker EXCEPT ![t] = Idle]
  /\ UNCHANGED << todo, open, sent, buffered, failed, mixed >>

RepeatsLast(w) == Fill(w.packet.req, w.packet.last)

(* ClearWordList, then on with the words after the list, whether the packet *)
(* was sent or not.                                                         *)
Cleared(w) == Fill(w.packet.req, w.packet.last + 1)

SendFromStart(t, k) ==
  /\ worker[t].at = "send" /\ open
  /\ k <= Capacity - buffered
  /\ LET w == worker[t] IN
       /\ k <= Size(w.packet) - w.done
       /\ sent' = sent \o Bytes(w.packet, 0, k)
       /\ worker' = [worker EXCEPT ![t] =
            IF w.done + k = Size(w.packet) THEN Cleared(w) ELSE Sending(w.packet, w.done + k)]
  /\ buffered' = buffered + k
  /\ UNCHANGED << todo, open, failed, mixed >>

(* send() takes k of the bytes that are left. *)
Send(t, k) ==
  /\ worker[t].at = "send" /\ open
  /\ k <= Capacity - buffered
  /\ LET w == worker[t] IN
       /\ k <= Size(w.packet) - w.done
       /\ sent' = sent \o Bytes(w.packet, w.done, k)
       /\ worker' = [worker EXCEPT ![t] =
            IF w.done + k = Size(w.packet) THEN Cleared(w) ELSE Sending(w.packet, w.done + k)]
  /\ buffered' = buffered + k
  /\ UNCHANGED << todo, open, failed, mixed >>

RetriesAll(w) == w

(* An error other than EAGAIN, of a closed connection or a passing one, ends *)
(* SendFull; OnSegmentWord does not look at what it returns.                 *)
GivesUp(w) == Cleared(w)

SendError(t) ==
  /\ worker[t].at = "send"
  /\ worker' = [worker EXCEPT ![t] = GivesUp(@)]
  /\ failed' = failed \cup {worker[t].packet.req}
  /\ mixed' = (mixed \/ open)
  /\ UNCHANGED << todo, open, sent, buffered >>

Answer(t) == \/ \E r \in Requests : TakeUp(t, r)
             \/ FillList(t) \/ Finish(t) \/ SendError(t)
             \/ \E k \in 1 .. Capacity : Send(t, k)

(* The client reads, or goes away. *)
Read(k) ==
  /\ k <= buffered
  /\ buffered' = buffered - k
  /\ UNCHANGED << todo, worker, open, sent, failed, mixed >>

Close ==
  /\ open
  /\ open' = FALSE
  /\ UNCHANGED << todo, worker, sent, buffered, failed, mixed >>

Next == \/ \E t \in Threads : Answer(t)
        \/ \E k \in 1 .. Capacity : Read(k)
        \/ Close

Spec == Init /\ [][Next]_vars
(* A worker goes on with its request: of the errors, only that of a closed   *)
(* connection is bound to come.                                              *)
Work(t) == \/ FillList(t) \/ Finish(t)
           \/ \E k \in 1 .. Capacity : Send(t, k)
           \/ ~open /\ SendError(t)

FairSpec == Spec /\ \A t \in Threads : WF_vars(Work(t))

-----------------------------------------------------------------------------
TypeOK ==
  /\ todo \subseteq Requests
  /\ worker \in [Threads -> Worker]
  /\ \A t \in Threads : worker[t].at = "send" =>
       LET p == worker[t].packet IN
         /\ p.first <= p.last /\ p.last < p.first + Batch
         /\ worker[t].done < Size(p)
  /\ open \in BOOLEAN
  /\ sent \in Seq(Byte)
  /\ buffered \in 0 .. Capacity
  /\ failed \subseteq Requests
  /\ mixed \in BOOLEAN

(* A packet begins where another one has ended, and its bytes follow one    *)
(* another: the client, which knows packets only by the length at their     *)
(* beginning, never loses its place, as long as the workers take turns and  *)
(* errors are for good.                                                     *)
Follows(b, a) ==
  \/ (b.packet = a.packet /\ b.n = a.n + 1)
  \/ (b.n = 1 /\ a.n = Size(a.packet))

FramedUpTo(s) ==
  \A j \in 1 .. Len(s) : IF j = 1 THEN s[j].n = 1 ELSE Follows(s[j], s[j - 1])

Framed == ~mixed => FramedUpTo(sent)

(* What a worker is at work for. *)
Of(w) == IF w.at = "fill" THEN w.req ELSE w.packet.req
Works(w, r) == w # Idle /\ Of(w) = r

(* After an error the answer has holes, but what there is of it comes in    *)
(* order and nothing comes twice, whoever else sends in between.            *)
Before(a, b) == \/ a.packet.last < b.packet.first
                \/ (a.packet = b.packet /\ a.n < b.n)
InOrder ==
  \A j, k \in 1 .. Len(sent) :
    j < k /\ sent[j].packet.req = sent[k].packet.req => Before(sent[j], sent[k])

(* The answer a request should get, stated without the loops that make it:  *)
(* its words in batches from the first on, all full but the last.           *)
Firsts(r) == {q * Batch + 1 : q \in 0 .. Words(r)} \cap 1 .. Words(r)
PacketsOf(r) == {Pack(r, f, Smaller(f + Batch - 1, Words(r))) : f \in Firsts(r)}
Expected(r) == UNION {{[packet |-> p, n |-> i] : i \in 1 .. Size(p)} : p \in PacketsOf(r)}

SentOf(r) == {sent[j] : j \in {i \in 1 .. Len(sent) : sent[i].packet.req = r}}

(* What was sent for a request that met no error is, with InOrder, the      *)
(* beginning of its answer, and all of it when the worker is done.          *)
AnswerExact ==
  \A r \in Requests \ failed :
    /\ SentOf(r) \subseteq Expected(r)
    /\ \A b \in SentOf(r), a \in Expected(r) : Before(a, b) => a \in SentOf(r)
    /\ r \notin todo /\ (\A t \in Threads : ~Works(worker[t], r)) => SentOf(r) = Expected(r)

(* As long as the client keeps reading, every worker comes back from every  *)
(* request, errors or not.                                                  *)
WorkersComeBack ==
  []<>(buffered = 0 \/ ~open) =>
    \A t \in Threads : worker[t] # Idle ~> worker[t] = Idle
=============================================================================
