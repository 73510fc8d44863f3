-------------------------- MODULE SendStreamProofs --------------------------
(***************************************************************************)
(* With one worker at a time and errors that last, what the client gets is *)
(* a sequence of whole packets and the beginning of one, for any number of *)
(* requests and words and whatever pieces the socket takes.  However many  *)
(* workers there are, what it gets for one request is in order, and whole  *)
(* unless there was an error.                                              *)
(***************************************************************************)
EXTENDS SendStream, SequenceTheorems, TLAPS

Last(s) == s[Len(s)]
Boundary(s) == s = << >> \/ Last(s).n = Size(Last(s).packet)

(* The worker t is between two send() calls for one packet. *)
Midway(t) == worker[t].at = "send" /\ worker[t].done > 0

(* Nobody but the one worker that is busy can have left a packet half sent, *)
(* and it knows how much of it.                                             *)
OneBusy == \A t, o \in Threads : worker[t] # Idle /\ worker[o] # Idle => t = o

Place ==
  open =>
    /\ \A t \in Threads :
         Midway(t) => /\ sent # << >>
                      /\ Last(sent).packet = worker[t].packet
                      /\ Last(sent).n = worker[t].done
    /\ (\A t \in Threads : ~Midway(t)) => Boundary(sent)

Inv == TypeOK /\ (~mixed => FramedUpTo(sent) /\ OneBusy /\ Place)

-----------------------------------------------------------------------------
(* What send() takes are bytes of the packet, the next one first. *)
LEMMA BytesType ==
  ASSUME NEW p \in Packet, NEW d \in Nat, NEW k \in Nat
  PROVE  /\ Bytes(p, d, k) \in Seq(Byte)
         /\ Len(Bytes(p, d, k)) = k
         /\ \A j \in 1 .. k : Bytes(p, d, k)[j].packet = p /\ Bytes(p, d, k)[j].n = d + j
<1>1. \A j \in 1 .. k : [packet |-> p, n |-> d + j] \in Byte
  BY DEF Byte
<1>2. Bytes(p, d, k) \in [1 .. k -> Byte]
  BY <1>1 DEF Bytes
<1>3. Bytes(p, d, k) \in Seq(Byte) /\ Len(Bytes(p, d, k)) = k
  BY <1>2
<1>4. \A j \in 1 .. k : Bytes(p, d, k)[j] = [packet |-> p, n |-> d + j]
  BY DEF Bytes
<1> QED
  BY <1>3, <1>4

(* now is s, then b; it is s, then k bytes of p behind the first d. *)
Joins(now, s, b) ==
  /\ now \in Seq(Byte) /\ Len(now) = Len(s) + Len(b)
  /\ \A j \in 1 .. Len(s) + Len(b) : now[j] = IF j <= Len(s) THEN s[j] ELSE b[j - Len(s)]

Continues(now, s, p, d, k) ==
  /\ Len(now) = Len(s) + k /\ Len(s) \in Nat
  /\ \A j \in 1 .. Len(s) : now[j] = s[j] /\ s[j] \in Byte
  /\ \A i \in 1 .. k : now[Len(s) + i] = [packet |-> p, n |-> d + i]
  /\ \A j \in Len(s) + 1 .. Len(s) + k :
       now[j] \in Byte /\ now[j].packet = p /\ now[j].n = d + (j - Len(s))

(* What sent becomes when k bytes of a packet follow it. *)
LEMMA BytesFollow ==
  ASSUME NEW s \in Seq(Byte), NEW p \in Packet, NEW d \in Nat, NEW k \in Nat,
         NEW b \in Seq(Byte), b = Bytes(p, d, k), NEW now, Joins(now, s, b)
  PROVE  Continues(now, s, p, d, k)
<1>1. /\ now \in Seq(Byte) /\ Len(now) = Len(s) + Len(b)
      /\ \A j \in 1 .. Len(s) + Len(b) : now[j] = IF j <= Len(s) THEN s[j] ELSE b[j - Len(s)]
  BY DEF Joins
<1>2. Len(b) = k
  BY BytesType
<1>3. \A i \in 1 .. k : b[i] = [packet |-> p, n |-> d + i] /\ b[i].packet = p /\ b[i].n = d + i
  BY DEF Bytes
<1>4. PICK n \in Nat : n = Len(s)
  OBVIOUS
<1>8. Len(now) = n + k /\ \A j \in 1 .. n + k : now[j] = IF j <= n THEN s[j] ELSE b[j - n]
  BY <1>1, <1>2, <1>4
<1>9. \A j \in 1 .. n : now[j] = s[j] /\ s[j] \in Byte
  <2>1. \A j \in 1 .. n : j \in 1 .. n + k /\ j <= n
    OBVIOUS
  <2>2. \A j \in 1 .. n : s[j] \in Byte
    BY <1>4
  <2> QED
    BY <1>8, <2>1, <2>2
<1>10. \A j \in n + 1 .. n + k : now[j] = b[j - n] /\ j - n \in 1 .. k /\ j \in 1 .. Len(now)
  <2>1. \A j \in n + 1 .. n + k : j \in 1 .. n + k /\ ~(j <= n) /\ j - n \in 1 .. k
    OBVIOUS
  <2> QED
    BY <1>8, <2>1
<1>11. \A i \in 1 .. k : now[n + i] = b[i]
  <2>1. \A i \in 1 .. k : n + i \in n + 1 .. n + k /\ (n + i) - n = i
    OBVIOUS
  <2> QED
    BY <1>10, <2>1
<1>12. \A j \in 1 .. Len(now) : now[j] \in Byte
  BY <1>1
<1>13. \A j \in n + 1 .. n + k :
         now[j] \in Byte /\ now[j].packet = p /\ now[j].n = d + (j - n)
  BY <1>3, <1>10, <1>12
<1>14. \A i \in 1 .. k : now[n + i] = [packet |-> p, n |-> d + i]
  BY <1>3, <1>11
<1> QED
  BY <1>4, <1>8, <1>9, <1>13, <1>14 DEF Continues

(* Bytes that go on where the stream is keep it framed. *)
LEMMA AppendFramed ==
  ASSUME NEW s \in Seq(Byte), NEW p \in Packet, NEW d \in Nat, NEW k \in Nat \ {0},
         FramedUpTo(s),
         d > 0 => s # << >> /\ Last(s).packet = p /\ Last(s).n = d,
         d = 0 => Boundary(s)
  PROVE  LET r == s \o Bytes(p, d, k)
         IN  /\ r \in Seq(Byte) /\ FramedUpTo(r)
             /\ r # << >> /\ Last(r).packet = p /\ Last(r).n = d + k
<1> DEFINE b == Bytes(p, d, k)
           r == s \o b
<1>1. /\ b \in Seq(Byte) /\ Len(b) = k
      /\ \A j \in 1 .. k : b[j].packet = p /\ b[j].n = d + j
  BY BytesType
<1> HIDE DEF b
<1>2. /\ r \in Seq(Byte) /\ Len(r) = Len(s) + k /\ Len(s) \in Nat
      /\ \A j \in 1 .. Len(s) : r[j] = s[j]
      /\ \A j \in Len(s) + 1 .. Len(s) + k : r[j] = b[j - Len(s)]
  BY <1>1
<1>3. s = << >> <=> Len(s) = 0
  OBVIOUS
<1> HIDE DEF r
<1>4. Last(r).packet = p /\ Last(r).n = d + k /\ r # << >>
  <2>1. r[Len(r)] = b[k]
    BY <1>2
  <2> QED
    BY <1>1, <1>2, <2>1 DEF Last
<1>5. ASSUME NEW j \in 1 .. Len(r)
      PROVE  IF j = 1 THEN r[j].n = 1 ELSE Follows(r[j], r[j - 1])
  <2>1. CASE j \in 1 .. Len(s)
    <3>1. IF j = 1 THEN s[j].n = 1 ELSE Follows(s[j], s[j - 1])
      BY <2>1 DEF FramedUpTo
    <3>2. r[j] = s[j] /\ (j # 1 => r[j - 1] = s[j - 1])
      BY <1>2, <2>1
    <3> QED
      BY <3>1, <3>2
  <2>2. CASE j = Len(s) + 1
    <3>0. 1 \in 1 .. k /\ j - Len(s) = 1 /\ j \in Len(s) + 1 .. Len(s) + k
      BY <1>2, <2>2
    <3>1. r[j].packet = p /\ r[j].n = d + 1
      <4>1. r[j] = b[1]
        BY <1>2, <3>0
      <4> QED
        BY <1>1, <3>0, <4>1
    <3>2. CASE j = 1
      <4>1. d = 0
        BY <1>3, <2>2, <3>2
      <4> QED
        BY <3>1, <3>2, <4>1
    <3>3. CASE j # 1
      <4>1. r[j - 1] = Last(s) /\ s # << >>
        BY <1>2, <1>3, <2>2, <3>3 DEF Last
      <4>2. CASE d = 0
        BY <3>1, <3>3, <4>1, <4>2 DEF Boundary, Follows
      <4>3. CASE d > 0
        BY <3>1, <3>3, <4>1, <4>3 DEF Follows
      <4> QED
        BY <4>2, <4>3
    <3> QED
      BY <3>2, <3>3
  <2>3. CASE j \in Len(s) + 2 .. Len(s) + k
    <3>1. /\ r[j].packet = p /\ r[j].n = d + (j - Len(s))
          /\ r[j - 1].packet = p /\ r[j - 1].n = d + (j - 1 - Len(s))
      <4>1. /\ j - Len(s) \in 1 .. k /\ j - 1 - Len(s) \in 1 .. k
            /\ j \in Len(s) + 1 .. Len(s) + k /\ j - 1 \in Len(s) + 1 .. Len(s) + k
        BY <1>2, <2>3
      <4>2. r[j] = b[j - Len(s)] /\ r[j - 1] = b[j - 1 - Len(s)]
        BY <1>2, <4>1
      <4> QED
        BY <1>1, <4>1, <4>2
    <3> QED
      BY <1>2, <2>3, <3>1 DEF Follows
  <2> QED
    BY <1>2, <2>1, <2>2, <2>3
<1> QED
  BY <1>2, <1>4, <1>5 DEF FramedUpTo, r, b

(* A worker that moves on is still a worker, and the others stay. *)
LEMMA Moved ==
  ASSUME TypeOK, NEW t \in Threads, NEW w, worker' = [worker EXCEPT ![t] = w]
  PROVE  worker'[t] = w /\ \A o \in Threads : o # t => worker'[o] = worker[o]
BY DEF TypeOK

(* The types of a step that gives a worker its next place. *)
LEMMA WorkerType ==
  ASSUME TypeOK, NEW t \in Threads, NEW w \in Worker, worker' = [worker EXCEPT ![t] = w],
         w.at = "send" => /\ w.packet.first <= w.packet.last
                          /\ w.packet.last < w.packet.first + Batch
                          /\ w.done < Size(w.packet)
  PROVE  /\ worker' \in [Threads -> Worker]
         /\ \A o \in Threads : worker'[o].at = "send" =>
              LET p == worker'[o].packet IN
                /\ p.first <= p.last /\ p.last < p.first + Batch
                /\ worker'[o].done < Size(p)
<1>1. worker' \in [Threads -> Worker]
  BY DEF TypeOK
<1>2. worker'[t] = w /\ \A o \in Threads : o # t => worker'[o] = worker[o]
  BY Moved
<1> QED
  BY <1>1, <1>2 DEF TypeOK

(* What a worker's place says of itself. *)
LEMMA Places ==
  /\ Idle \in Worker /\ Idle.at = "idle"
  /\ \A r \in Requests, n \in Nat \ {0} :
       /\ Fill(r, n) \in Worker /\ Fill(r, n).at = "fill" /\ Fill(r, n) # Idle
       /\ Fill(r, n).req = r /\ Fill(r, n).next = n
  /\ \A p \in Packet, d \in Nat :
       /\ Sending(p, d) \in Worker /\ Sending(p, d).at = "send" /\ Sending(p, d) # Idle
       /\ Sending(p, d).packet = p /\ Sending(p, d).done = d
<1>1. Idle \in Worker /\ Idle.at = "idle"
  BY DEF Worker, Idle
<1>2. \A r \in Requests, n \in Nat \ {0} :
        /\ Fill(r, n) \in Worker /\ Fill(r, n).at = "fill" /\ Fill(r, n) # Idle
        /\ Fill(r, n).req = r /\ Fill(r, n).next = n
  BY DEF Worker, Fill, Idle
<1>3. \A p \in Packet, d \in Nat :
        /\ Sending(p, d) \in Worker /\ Sending(p, d).at = "send" /\ Sending(p, d) # Idle
        /\ Sending(p, d).packet = p /\ Sending(p, d).done = d
  BY DEF Worker, Sending, Idle
<1> QED
  BY <1>1, <1>2, <1>3

(* What the place of a worker of the set of workers looks like. *)
LEMMA Shapes ==
  ASSUME NEW w \in Worker
  PROVE  /\ w.at = "fill" => w.req \in Requests /\ w.next \in Nat \ {0} /\ w # Idle
         /\ w.at = "send" => w.packet \in Packet /\ w.done \in Nat /\ w # Idle
BY DEF Worker, Idle

-----------------------------------------------------------------------------
(* At first nothing was sent and nobody is busy. *)
LEMMA InitInv == Init => Inv
<1> SUFFICES ASSUME Init PROVE Inv
  OBVIOUS
<1>1. \A t \in Threads : worker[t] = Idle /\ worker[t].at = "idle"
  BY Places DEF Init
<1>2. TypeOK
  <2>1. mixed \in BOOLEAN
    BY DEF Init
  <2> QED
    BY <1>1, <2>1, Places, SendAssumption DEF Init, TypeOK
<1>3. FramedUpTo(sent) /\ OneBusy /\ Place
  BY <1>1 DEF Init, FramedUpTo, OneBusy, Place, Midway, Boundary
<1> QED
  BY <1>2, <1>3 DEF Inv

(* A step that sends nothing, and leaves no packet half sent that was not    *)
(* half sent before, keeps the place in the stream.                          *)
LEMMA SameStream ==
  ASSUME TypeOK, Place, NEW t \in Threads, NEW w, worker' = [worker EXCEPT ![t] = w],
         open' = open, sent' = sent,
         open => ~Midway(t),
         ~(w.at = "send" /\ w.done > 0)
  PROVE  Place'
<1>1. worker'[t] = w /\ \A o \in Threads : o # t => worker'[o] = worker[o]
  BY Moved
<1> QED
  BY <1>1 DEF Place, Midway

(* A worker takes up a request when, unless they may be parallel, all are idle. *)
LEMMA TakeUpInv == Inv /\ (\E t \in Threads : \E r \in Requests : TakeUp(t, r)) => Inv'
<1> SUFFICES ASSUME Inv, NEW t \in Threads, NEW r \in Requests, TakeUp(t, r)
             PROVE  Inv'
  OBVIOUS
<1> DEFINE w == Fill(r, 1)
<1>1. /\ worker[t] = Idle /\ worker' = [worker EXCEPT ![t] = w]
      /\ todo' = todo \ {r}
      /\ UNCHANGED << open, sent, buffered, failed >>
      /\ mixed' = (mixed \/ \E o \in Threads : worker[o] # Idle)
  BY DEF TakeUp
<1>2. w \in Worker /\ w.at = "fill" /\ worker[t].at = "idle"
  BY <1>1, Places
<1> HIDE DEF w
<1>3. TypeOK
  BY DEF Inv
<1>4. TypeOK'
  BY <1>1, <1>2, <1>3, WorkerType DEF TypeOK
<1>5. ASSUME ~mixed'
      PROVE  FramedUpTo(sent)' /\ OneBusy' /\ Place'
  <2>1. FramedUpTo(sent) /\ OneBusy /\ Place
    BY <1>1, <1>5 DEF Inv
  <2>2. OneBusy'
    <3>1. \A o \in Threads : o # t => worker'[o] = Idle
      BY <1>1, <1>3, <1>5, Moved
    <3> QED
      BY <3>1 DEF OneBusy
  <2>3. Place'
    BY <1>1, <1>2, <1>3, <2>1, SameStream DEF Midway
  <2> QED
    BY <1>1, <2>1, <2>2, <2>3
<1> QED
  BY <1>4, <1>5 DEF Inv

(* A step of a busy worker leaves it the only busy one. *)
LEMMA StillOne ==
  ASSUME TypeOK, OneBusy, NEW t \in Threads, NEW w, worker' = [worker EXCEPT ![t] = w],
         worker[t] # Idle
  PROVE  OneBusy'
<1>1. worker'[t] = w /\ \A o \in Threads : o # t => worker'[o] = worker[o]
  BY Moved
<1> QED
  BY <1>1 DEF OneBusy

(* A list that is full, or the last one, becomes a packet of which nothing   *)
(* was sent.                                                                 *)
LEMMA FillListInv == Inv /\ (\E t \in Threads : FillList(t)) => Inv'
<1> SUFFICES ASSUME Inv, NEW t \in Threads, FillList(t)
             PROVE  Inv'
  OBVIOUS
<1> DEFINE l == LastOf(worker[t])
           p == Pack(worker[t].req, worker[t].next, l)
           w == Sending(p, 0)
<1>1. /\ worker[t].at = "fill" /\ worker[t].next <= Words(worker[t].req)
      /\ worker' = [worker EXCEPT ![t] = w]
      /\ UNCHANGED << todo, open, sent, buffered, failed, mixed >>
  BY DEF FillList
<1>2. TypeOK /\ worker[t] \in Worker
  BY DEF Inv, TypeOK
<1>3. /\ worker[t].req \in Requests /\ worker[t].next \in Nat \ {0}
      /\ worker[t] # Idle /\ Words(worker[t].req) \in Nat
  BY <1>1, <1>2, Shapes, SendAssumption
<1>4. l \in Nat \ {0} /\ worker[t].next <= l /\ l < worker[t].next + Batch
  BY <1>1, <1>3, SendAssumption DEF LastOf, Smaller
<1> HIDE DEF l
<1>5. p \in Packet /\ p.first = worker[t].next /\ p.last = l
  BY <1>3, <1>4 DEF Packet, Pack
<1> HIDE DEF p
<1>6. w \in Worker /\ w.at = "send" /\ w.packet = p /\ w.done = 0
  BY <1>5, Places
<1> HIDE DEF w
<1>7. 0 < Size(p)
  BY <1>3, <1>4, <1>5, SendAssumption DEF Size
<1>8. TypeOK'
  BY <1>1, <1>2, <1>3, <1>4, <1>5, <1>6, <1>7, WorkerType DEF TypeOK
<1>9. ASSUME ~mixed'
      PROVE  FramedUpTo(sent)' /\ OneBusy' /\ Place'
  <2>1. FramedUpTo(sent) /\ OneBusy /\ Place
    BY <1>1, <1>9 DEF Inv
  <2>2. OneBusy'
    BY <1>1, <1>2, <1>3, <2>1, StillOne
  <2>3. Place'
    <3>1. ~Midway(t) /\ ~(w.at = "send" /\ w.done > 0)
      BY <1>1, <1>6 DEF Midway
    <3> QED
      BY <1>1, <1>2, <2>1, <3>1, SameStream
  <2> QED
    BY <1>1, <2>1, <2>2, <2>3
<1> QED
  BY <1>8, <1>9 DEF Inv

(* A request is finished between two packets. *)
LEMMA FinishInv == Inv /\ (\E t \in Threads : Finish(t)) => Inv'
<1> SUFFICES ASSUME Inv, NEW t \in Threads, Finish(t)
             PROVE  Inv'
  OBVIOUS
<1>1. /\ worker[t].at = "fill" /\ worker' = [worker EXCEPT ![t] = Idle]
      /\ UNCHANGED << todo, open, sent, buffered, failed, mixed >>
  BY DEF Finish
<1>2. TypeOK /\ worker[t] \in Worker /\ worker[t] # Idle
  BY <1>1, Shapes DEF Inv, TypeOK
<1>3. TypeOK'
  BY <1>1, <1>2, Places, WorkerType DEF TypeOK
<1>4. ASSUME ~mixed'
      PROVE  FramedUpTo(sent)' /\ OneBusy' /\ Place'
  <2>1. FramedUpTo(sent) /\ OneBusy /\ Place
    BY <1>1, <1>4 DEF Inv
  <2>2. OneBusy'
    BY <1>1, <1>2, <2>1, StillOne
  <2>3. Place'
    BY <1>1, <1>2, <2>1, Places, SameStream DEF Midway
  <2> QED
    BY <1>1, <2>1, <2>2, <2>3
<1> QED
  BY <1>3, <1>4 DEF Inv

(* The list is cleared. *)
LEMMA ClearedPlace ==
  ASSUME TypeOK, NEW t \in Threads, worker[t].at = "send"
  PROVE  Cleared(worker[t]) \in Worker /\ Cleared(worker[t]).at = "fill"
<1>1. worker[t] \in Worker
  BY DEF TypeOK
<1>2. worker[t].packet \in Packet
  BY <1>1, Shapes
<1>3. worker[t].packet.req \in Requests /\ worker[t].packet.last + 1 \in Nat \ {0}
  BY <1>2 DEF Packet
<1> QED
  BY <1>3, Places DEF Cleared

(* Without passing errors a worker gives up only when all is lost. *)
LEMMA SendErrorInv == Inv /\ (\E t \in Threads : SendError(t)) => Inv'
<1> SUFFICES ASSUME Inv, NEW t \in Threads, SendError(t)
             PROVE  Inv'
  OBVIOUS
<1> DEFINE w == Cleared(worker[t])
<1>1. /\ worker[t].at = "send" /\ mixed' = (mixed \/ open)
      /\ worker' = [worker EXCEPT ![t] = w]
      /\ failed' = failed \cup {worker[t].packet.req}
      /\ UNCHANGED << todo, open, sent, buffered >>
  BY DEF SendError, GivesUp
<1>2. TypeOK /\ worker[t] \in Worker
  BY DEF Inv, TypeOK
<1>3. worker[t].packet \in Packet /\ worker[t] # Idle
  BY <1>1, <1>2, Shapes
<1>4. w \in Worker /\ w.at = "fill" /\ worker[t].packet.req \in Requests
  BY <1>1, <1>2, <1>3, ClearedPlace DEF Packet
<1> HIDE DEF w
<1>5. TypeOK'
  BY <1>1, <1>2, <1>4, WorkerType DEF TypeOK
<1>6. ASSUME ~mixed'
      PROVE  FramedUpTo(sent)' /\ OneBusy' /\ Place'
  <2>1. FramedUpTo(sent) /\ OneBusy /\ Place
    BY <1>1, <1>6 DEF Inv
  <2>2. OneBusy'
    BY <1>1, <1>2, <1>3, <2>1, StillOne
  <2>3. Place'
    BY <1>1, <1>6 DEF Place
  <2> QED
    BY <1>1, <2>1, <2>2, <2>3
<1> QED
  BY <1>5, <1>6 DEF Inv

(* What send() takes follows what it took before. *)
LEMMA SendInv == Inv /\ (\E t \in Threads : \E k \in 1 .. Capacity : Send(t, k)) => Inv'
<1> SUFFICES ASSUME Inv, NEW t \in Threads, NEW k \in 1 .. Capacity, Send(t, k)
             PROVE  Inv'
  OBVIOUS
<1> DEFINE p == worker[t].packet
           d == worker[t].done
           w == IF d + k = Size(p) THEN Cleared(worker[t]) ELSE Sending(p, d + k)
<1>1. /\ worker[t].at = "send" /\ open /\ k <= Capacity - buffered
      /\ k <= Size(p) - d
      /\ sent' = sent \o Bytes(p, d, k)
      /\ worker' = [worker EXCEPT ![t] = w]
      /\ buffered' = buffered + k
      /\ UNCHANGED << todo, open, failed, mixed >>
  BY DEF Send
<1>2. TypeOK /\ worker[t] \in Worker
  BY DEF Inv, TypeOK
<1>3. p \in Packet /\ d \in Nat /\ worker[t] # Idle /\ k \in Nat \ {0}
  BY <1>1, <1>2, Shapes, SendAssumption
<1>4. p.first <= p.last /\ p.last < p.first + Batch /\ d < Size(p) /\ Size(p) \in Nat
  BY <1>1, <1>2, <1>3, SendAssumption DEF TypeOK, Packet, Size
<1>5. Cleared(worker[t]) \in Worker /\ Cleared(worker[t]).at = "fill"
  BY <1>1, <1>2, ClearedPlace
<1> HIDE DEF p, d
<1>6. /\ Sending(p, d + k) \in Worker /\ Sending(p, d + k).at = "send"
      /\ Sending(p, d + k).packet = p /\ Sending(p, d + k).done = d + k
  BY <1>3, Places
<1>7. /\ w \in Worker
      /\ IF d + k = Size(p) THEN w.at = "fill"
         ELSE w.at = "send" /\ w.packet = p /\ w.done = d + k /\ d + k < Size(p)
  <2>1. CASE d + k = Size(p)
    BY <1>5, <2>1
  <2>2. CASE d + k # Size(p)
    <3>0. k <= Size(p) - d
      BY <1>1
    <3>1. d + k < Size(p)
      BY <1>3, <1>4, <2>2, <3>0
    <3> QED
      BY <1>6, <2>2, <3>1
  <2> QED
    BY <2>1, <2>2
<1> HIDE DEF w
<1>8. Bytes(p, d, k) \in Seq(Byte)
  BY <1>3, BytesType
<1>9. TypeOK'
  <2>1. sent' \in Seq(Byte) /\ buffered' \in 0 .. Capacity
    BY <1>1, <1>2, <1>3, <1>8, SendAssumption DEF TypeOK
  <2>2. /\ worker' \in [Threads -> Worker]
        /\ \A o \in Threads : worker'[o].at = "send" =>
             LET q == worker'[o].packet IN
               /\ q.first <= q.last /\ q.last < q.first + Batch
               /\ worker'[o].done < Size(q)
    BY <1>1, <1>2, <1>4, <1>7, WorkerType
  <2> QED
    BY <1>1, <1>2, <2>1, <2>2 DEF TypeOK
<1>10. ASSUME ~mixed'
       PROVE  FramedUpTo(sent)' /\ OneBusy' /\ Place'
  <2>1. FramedUpTo(sent) /\ OneBusy /\ Place
    BY <1>1, <1>10 DEF Inv
  <2>2. OneBusy'
    BY <1>1, <1>2, <1>3, <2>1, StillOne
  <2>3. worker'[t] = w /\ \A o \in Threads : o # t => worker'[o] = worker[o]
    BY <1>1, <1>2, Moved
  <2>4. \A o \in Threads : o # t => ~Midway(o)
    BY <1>3, <2>1, Places DEF OneBusy, Midway
  <2>5. /\ d > 0 => sent # << >> /\ Last(sent).packet = p /\ Last(sent).n = d
        /\ d = 0 => Boundary(sent)
    BY <1>1, <1>3, <2>1, <2>4 DEF Place, Midway, p, d
  <2>6. /\ FramedUpTo(sent') /\ sent' # << >>
        /\ Last(sent').packet = p /\ Last(sent').n = d + k
    <3>1. sent \in Seq(Byte)
      BY <1>2 DEF TypeOK
    <3> QED
      BY <1>1, <1>3, <2>1, <2>5, <3>1, AppendFramed
  <2>7. Place'
    <3>1. \A o \in Threads : o # t => ~(worker'[o].at = "send" /\ worker'[o].done > 0)
      BY <2>3, <2>4 DEF Midway
    <3>2. CASE d + k = Size(p)
      <4>1. Boundary(sent')
        BY <2>6, <3>2 DEF Boundary
      <4>2. \A o \in Threads : ~Midway(o)'
        BY <1>7, <2>3, <3>1, <3>2 DEF Midway
      <4> QED
        BY <4>1, <4>2 DEF Place
    <3>3. CASE d + k # Size(p)
      <4>1. /\ Midway(t)' /\ worker'[t].packet = p /\ worker'[t].done = d + k
            /\ \A o \in Threads : Midway(o)' => o = t
        BY <1>3, <1>7, <2>3, <3>1, <3>3 DEF Midway
      <4> QED
        BY <2>6, <4>1 DEF Place
    <3> QED
      BY <3>2, <3>3
  <2> QED
    BY <2>2, <2>6, <2>7
<1> QED
  BY <1>9, <1>10 DEF Inv

(* Every step keeps the invariant. *)
LEMMA StepInv == Inv /\ [Next]_vars => Inv'
<1> SUFFICES ASSUME Inv, [Next]_vars PROVE Inv'
  OBVIOUS
<1>1. CASE UNCHANGED vars
  BY <1>1 DEF vars, Inv, TypeOK, FramedUpTo, OneBusy, Place, Midway
<1>2. CASE \E t \in Threads : Answer(t)
  BY <1>2, TakeUpInv, FillListInv, FinishInv, SendErrorInv, SendInv DEF Answer
<1>3. CASE \E k \in 1 .. Capacity : Read(k)
  <2>1. TypeOK'
    BY <1>3, SendAssumption DEF Inv, TypeOK, Read
  <2>2. UNCHANGED << worker, open, sent, mixed >>
    BY <1>3 DEF Read
  <2> QED
    BY <2>1, <2>2 DEF Inv, OneBusy, Place, Midway
<1>4. CASE Close
  <2>1. TypeOK'
    BY <1>4 DEF Close, Inv, TypeOK
  <2>2. UNCHANGED << worker, sent, mixed >> /\ ~open'
    BY <1>4 DEF Close
  <2> QED
    BY <2>1, <2>2 DEF Inv, OneBusy, Place
<1> QED
  BY <1>1, <1>2, <1>3, <1>4 DEF Next

(* The invariant holds of every behaviour. *)
THEOREM InvHolds == Spec => []Inv
BY InitInv, StepInv, PTL DEF Spec

(* Packets have 1 to Batch words, and a worker that sends one has not sent   *)
(* all of it, for any number of workers, parallel or not.                    *)
THEOREM TypeCorrect == Spec => []TypeOK
<1>1. Inv => TypeOK
  BY DEF Inv
<1> QED
  BY <1>1, InvHolds, PTL

(* The client never loses its place in the stream, as long as workers take   *)
(* turns and errors last.                                                    *)
THEOREM PacketsWhole == Spec => []Framed
<1>1. Inv => Framed
  BY DEF Inv, Framed
<1> QED
  BY <1>1, InvHolds, PTL

-----------------------------------------------------------------------------
(* Each request has one worker, before which nothing of it was sent; what  *)
(* was sent of it is behind the place of its worker.                       *)
Passed(w, b) ==
  \/ w.at = "fill" /\ b.packet.last < w.next
  \/ w.at = "send" /\ (b.packet.last < w.packet.first \/ (b.packet = w.packet /\ b.n <= w.done))

Turns ==
  /\ \A t \in Threads, r \in Requests : Works(worker[t], r) => r \notin todo
  /\ \A t, o \in Threads, r \in Requests : Works(worker[t], r) /\ Works(worker[o], r) => t = o
  /\ \A j \in 1 .. Len(sent) : sent[j].packet.req \notin todo
  /\ \A t \in Threads, j \in 1 .. Len(sent) :
       Works(worker[t], sent[j].packet.req) => Passed(worker[t], sent[j])

OrderInv == TypeOK /\ Turns /\ InOrder

(* What a worker is at work for. *)
LEMMA PlacesOf ==
  /\ \A r \in Requests, n \in Nat \ {0} : Of(Fill(r, n)) = r
  /\ \A p \in Packet, d \in Nat : Of(Sending(p, d)) = p.req
  /\ \A w \in Worker : w # Idle => Of(w) \in Requests /\ w.at \in {"fill", "send"}
<1>1. \A r \in Requests, n \in Nat \ {0} : Of(Fill(r, n)) = r
  BY Places DEF Of
<1>2. \A p \in Packet, d \in Nat : Of(Sending(p, d)) = p.req
  BY Places DEF Of
<1>3. ASSUME NEW w \in Worker, w # Idle
      PROVE  Of(w) \in Requests /\ w.at \in {"fill", "send"}
  <2>1. CASE w.at = "fill"
    BY <2>1, Shapes DEF Of
  <2>2. CASE w.at = "send"
    <3>1. w.packet.req \in Requests
      BY <2>2, Shapes DEF Packet
    <3> QED
      BY <2>2, <3>1 DEF Of
  <2> QED
    BY <1>3, <2>1, <2>2 DEF Worker, Idle
<1> QED
  BY <1>1, <1>2, <1>3

(* Nothing was sent of a request that was not taken up. *)
LEMMA OrderInit == Init => Turns /\ InOrder
<1> SUFFICES ASSUME Init PROVE Turns /\ InOrder
  OBVIOUS
<1>1. sent = << >> /\ \A t \in Threads : worker[t] = Idle
  BY DEF Init
<1> QED
  BY <1>1 DEF Turns, InOrder, Works

(* A busy worker that moves on without sending, or finishes. *)
LEMMA MovesOn ==
  ASSUME TypeOK, Turns, InOrder, NEW t \in Threads, NEW w,
         worker' = [worker EXCEPT ![t] = w], todo' = todo, sent' = sent,
         worker[t] # Idle, w # Idle => Of(w) = Of(worker[t]),
         w # Idle => \A j \in 1 .. Len(sent) : Passed(worker[t], sent[j]) => Passed(w, sent[j])
  PROVE  Turns' /\ InOrder'
<1>1. worker'[t] = w /\ \A o \in Threads : o # t => worker'[o] = worker[o]
  BY Moved
<1>2. \A o \in Threads : \A r : Works(worker'[o], r) => Works(worker[o], r)
  BY <1>1 DEF Works
<1>3. ASSUME NEW o \in Threads, NEW j \in 1 .. Len(sent), Works(worker'[o], sent[j].packet.req)
      PROVE  Passed(worker'[o], sent[j])
  <2>1. Works(worker[o], sent[j].packet.req)
    BY <1>2, <1>3
  <2>2. Passed(worker[o], sent[j])
    BY <2>1 DEF Turns
  <2>3. CASE o # t
    BY <1>1, <2>2, <2>3
  <2>4. CASE o = t
    <3>1. w # Idle
      BY <1>1, <1>3, <2>4 DEF Works
    <3> QED
      BY <1>1, <2>2, <2>4, <3>1
  <2> QED
    BY <2>3, <2>4
<1>4. \A o \in Threads, j \in 1 .. Len(sent') :
        Works(worker'[o], sent'[j].packet.req) => Passed(worker'[o], sent'[j])
  BY <1>3
<1>5. /\ \A o \in Threads, r \in Requests : Works(worker'[o], r) => r \notin todo'
      /\ \A u, o \in Threads, r \in Requests : Works(worker'[u], r) /\ Works(worker'[o], r) => u = o
      /\ \A j \in 1 .. Len(sent') : sent'[j].packet.req \notin todo'
  BY <1>2 DEF Turns
<1>6. InOrder'
  BY DEF InOrder
<1> QED
  BY <1>4, <1>5, <1>6 DEF Turns

(* The request taken up was nobody's. *)
LEMMA TakeUpTurns ==
  ASSUME TypeOK, Turns, InOrder, NEW t \in Threads, NEW r \in Requests, TakeUp(t, r)
  PROVE  Turns' /\ InOrder'
<1>1. /\ r \in todo /\ worker[t] = Idle /\ worker' = [worker EXCEPT ![t] = Fill(r, 1)]
      /\ todo' = todo \ {r} /\ sent' = sent
  BY DEF TakeUp
<1>2. Of(Fill(r, 1)) = r /\ Fill(r, 1) # Idle
  BY Places, PlacesOf
<1>3. worker'[t] = Fill(r, 1) /\ \A o \in Threads : o # t => worker'[o] = worker[o]
  BY <1>1, Moved
<1>4. /\ \A q : Works(worker'[t], q) <=> q = r
      /\ \A o \in Threads : o # t => worker'[o] = worker[o]
  BY <1>2, <1>3 DEF Works
<1>5. \A o \in Threads, q \in Requests : Works(worker'[o], q) => q \notin todo'
  BY <1>1, <1>4 DEF Turns
<1>6. \A u, o \in Threads, q \in Requests : Works(worker'[u], q) /\ Works(worker'[o], q) => u = o
  BY <1>1, <1>4 DEF Turns
<1>7. \A j \in 1 .. Len(sent) : sent[j].packet.req \notin todo' /\ sent[j].packet.req # r
  BY <1>1 DEF Turns
<1>8. \A o \in Threads, j \in 1 .. Len(sent) :
        Works(worker'[o], sent[j].packet.req) => Passed(worker'[o], sent[j])
  BY <1>3, <1>4, <1>7 DEF Turns
<1>9. InOrder'
  BY <1>1 DEF InOrder
<1> QED
  BY <1>1, <1>5, <1>6, <1>7, <1>8, <1>9 DEF Turns

(* The packet begins after the words that were sent. *)
LEMMA FillListTurns ==
  ASSUME TypeOK, Turns, InOrder, NEW t \in Threads, FillList(t)
  PROVE  Turns' /\ InOrder'
<1> DEFINE p == Pack(worker[t].req, worker[t].next, LastOf(worker[t]))
           w == Sending(p, 0)
<1>1. /\ worker[t].at = "fill" /\ worker[t].next <= Words(worker[t].req)
      /\ worker' = [worker EXCEPT ![t] = w]
      /\ todo' = todo /\ sent' = sent /\ worker[t] \in Worker
  BY DEF FillList, TypeOK
<1>2. /\ worker[t].req \in Requests /\ worker[t].next \in Nat \ {0}
      /\ worker[t] # Idle /\ Words(worker[t].req) \in Nat
  BY <1>1, Shapes, SendAssumption
<1>3. LastOf(worker[t]) \in Nat \ {0}
  BY <1>1, <1>2, SendAssumption DEF LastOf, Smaller
<1>4. p \in Packet /\ p.first = worker[t].next /\ p.req = worker[t].req
  BY <1>2, <1>3 DEF Packet, Pack
<1> HIDE DEF p
<1>5. w # Idle /\ Of(w) = Of(worker[t]) /\ w.at = "send" /\ w.packet.first = worker[t].next
  BY <1>1, <1>4, Places, PlacesOf DEF Of
<1> HIDE DEF w
<1>6. \A b : Passed(worker[t], b) => Passed(w, b)
  BY <1>1, <1>5 DEF Passed
<1> QED
  BY <1>1, <1>2, <1>5, <1>6, MovesOn

(* Where the list is cleared, whatever was sent of it is behind. *)
LEMMA ClearedPassed ==
  ASSUME TypeOK, NEW t \in Threads, worker[t].at = "send"
  PROVE  /\ Cleared(worker[t]) # Idle /\ Of(Cleared(worker[t])) = Of(worker[t])
         /\ \A b \in Byte : (b.packet.last < worker[t].packet.first \/ b.packet = worker[t].packet)
                              => Passed(Cleared(worker[t]), b)
         /\ \A b \in Byte : Passed(Cleared(worker[t]), b) <=> b.packet.last <= worker[t].packet.last
<1>1. worker[t] \in Worker /\ worker[t].packet.first <= worker[t].packet.last
  BY DEF TypeOK
<1>2. PICK p : p = worker[t].packet
  OBVIOUS
<1>3. p \in Packet
  BY <1>1, <1>2, Shapes
<1>4. p.req \in Requests /\ p.first \in Nat /\ p.last \in Nat /\ p.last + 1 \in Nat \ {0} /\ p.first <= p.last
  BY <1>1, <1>2, <1>3 DEF Packet
<1>5. PICK w : w = Cleared(worker[t])
  OBVIOUS
<1>6. w # Idle /\ w.at = "fill" /\ w.next = p.last + 1 /\ w.req = p.req
  BY <1>2, <1>4, <1>5, Places DEF Cleared
<1>7. \A b \in Byte : b.packet.last \in Nat
  BY DEF Byte, Packet
<1>8. ASSUME NEW b \in Byte
      PROVE  Passed(w, b) <=> b.packet.last <= p.last
  BY <1>4, <1>6, <1>7 DEF Passed
<1>9. Of(w) = Of(worker[t])
  BY <1>2, <1>6 DEF Of
<1>10. \A b \in Byte : (b.packet.last < p.first \/ b.packet = p) => b.packet.last <= p.last
  BY <1>4, <1>7
<1> QED
  BY <1>2, <1>5, <1>6, <1>8, <1>9, <1>10

(* What send() takes comes after all that was sent of the request. *)
LEMMA SendTurns ==
  ASSUME TypeOK, Turns, InOrder, NEW t \in Threads, NEW k \in 1 .. Capacity, Send(t, k)
  PROVE  Turns' /\ InOrder'
<1>0. PICK p, d, w :
        /\ p = worker[t].packet /\ d = worker[t].done
        /\ w = IF d + k = Size(p) THEN Cleared(worker[t]) ELSE Sending(p, d + k)
  OBVIOUS
<1>1. /\ worker[t].at = "send"
      /\ sent' = sent \o Bytes(p, d, k)
      /\ worker' = [worker EXCEPT ![t] = w]
      /\ todo' = todo /\ worker[t] \in Worker /\ sent \in Seq(Byte)
  BY <1>0 DEF Send, TypeOK
<1>2. p \in Packet /\ d \in Nat /\ worker[t] # Idle /\ k \in Nat \ {0} /\ p.req \in Requests
      /\ Of(worker[t]) = p.req
  <2>1. p \in Packet /\ d \in Nat /\ worker[t] # Idle /\ k \in Nat \ {0}
    BY <1>0, <1>1, Shapes, SendAssumption
  <2> QED
    BY <1>0, <1>1, <2>1 DEF Packet, Of
<1>3. /\ w # Idle /\ Of(w) = p.req
      /\ \A b \in Byte : b.packet.last < p.first \/ (b.packet = p /\ b.n <= d + k) => Passed(w, b)
  <2>1. CASE d + k = Size(p)
    BY <1>0, <1>1, <1>2, <2>1, ClearedPassed
  <2>2. CASE d + k # Size(p)
    <3>1. w = Sending(p, d + k) /\ d + k \in Nat
      BY <1>0, <1>2, <2>2
    <3>2. w # Idle /\ Of(w) = p.req /\ w.at = "send" /\ w.packet = p /\ w.done = d + k
      BY <1>2, <3>1, Places, PlacesOf
    <3> QED
      BY <3>2 DEF Passed
  <2> QED
    BY <2>1, <2>2
<1>4. /\ sent' \in Seq(Byte) /\ Len(sent') = Len(sent) + k /\ Len(sent) \in Nat
      /\ \A j \in 1 .. Len(sent) : sent'[j] = sent[j] /\ sent[j] \in Byte
      /\ \A j \in Len(sent) + 1 .. Len(sent) + k :
           sent'[j] \in Byte /\ sent'[j].packet = p /\ sent'[j].n = d + (j - Len(sent))
  <2>1. PICK now : now = sent'
    OBVIOUS
  <2>2. PICK old \in Seq(Byte) : old = sent
    BY <1>1
  <2>3. PICK b : b = Bytes(p, d, k)
    OBVIOUS
  <2>4. now = old \o b
    BY <1>1, <1>2, <2>1, <2>2, <2>3
  <2>5. b \in Seq(Byte)
    BY <1>2, <2>3, <2>4, BytesType
  <2>6. now \in Seq(Byte) /\ Len(now) = Len(old) + Len(b)
    BY <2>4, <2>5, ConcatProperties
  <2>7. Joins(now, old, b)
    <3>1. \A j \in 1 .. Len(old) + Len(b) :
            now[j] = IF j <= Len(old) THEN old[j] ELSE b[j - Len(old)]
      BY <2>4, <2>5, ConcatProperties
    <3> QED
      BY <2>6, <3>1 DEF Joins
  <2>8. k \in Nat /\ p \in Packet /\ d \in Nat
    BY <1>2
  <2>9. Continues(now, old, p, d, k)
    BY <2>3, <2>5, <2>7, <2>8, BytesFollow
  <2> QED
    BY <2>1, <2>2, <2>6, <2>9 DEF Continues
<1>5. \A j \in 1 .. Len(sent') : j \in 1 .. Len(sent) \/ j \in Len(sent) + 1 .. Len(sent) + k
  BY <1>2, <1>4
<1>6. worker'[t] = w /\ \A o \in Threads : o # t => worker'[o] = worker[o]
  BY <1>1, Moved
<1>7. \A o \in Threads : \A q : Works(worker'[o], q) <=> Works(worker[o], q)
  BY <1>2, <1>3, <1>6 DEF Works
<1>8. Works(worker[t], p.req)
  BY <1>2 DEF Works
<1>9. \A o \in Threads, r \in Requests : Works(worker'[o], r) => r \notin todo'
  BY <1>1, <1>7 DEF Turns
<1>10. \A u, o \in Threads, r \in Requests : Works(worker'[u], r) /\ Works(worker'[o], r) => u = o
  BY <1>7 DEF Turns
<1>11. \A j \in 1 .. Len(sent') : sent'[j].packet.req \notin todo'
  <2>1. p.req \notin todo
    BY <1>2, <1>8 DEF Turns
  <2> QED
    BY <1>1, <1>4, <1>5, <2>1 DEF Turns
<1>12. \A j \in 1 .. Len(sent) : sent[j].packet.req = p.req =>
         sent[j].packet.last < p.first \/ (sent[j].packet = p /\ sent[j].n <= d)
  BY <1>0, <1>1, <1>8 DEF Turns, Passed
<1>13. \A b \in Byte : b.n \in Nat
  BY DEF Byte
<1>14. ASSUME NEW o \in Threads, NEW j \in 1 .. Len(sent'), Works(worker'[o], sent'[j].packet.req)
       PROVE  Passed(worker'[o], sent'[j])
  <2>1. CASE o # t
    <3>1. sent'[j].packet.req # p.req
      BY <1>2, <1>7, <1>8, <1>14, <2>1 DEF Turns
    <3>2. j \in 1 .. Len(sent)
      BY <1>4, <1>5, <3>1
    <3> QED
      BY <1>4, <1>6, <1>7, <1>14, <2>1, <3>2 DEF Turns
  <2>2. CASE o = t
    <3>1. sent'[j].packet.req = p.req
      BY <1>3, <1>6, <1>14, <2>2 DEF Works
    <3>2. sent'[j] \in Byte
      BY <1>4, <1>5
    <3>3. CASE j \in 1 .. Len(sent)
      <4>1. sent[j].n <= d => sent[j].n <= d + k
        BY <1>2, <1>4, <1>13, <3>3
      <4> QED
        BY <1>3, <1>4, <1>6, <1>12, <2>2, <3>1, <3>2, <3>3, <4>1
    <3>4. CASE j \in Len(sent) + 1 .. Len(sent) + k
      <4>1. sent'[j].packet = p /\ sent'[j].n <= d + k
        BY <1>2, <1>4, <3>4
      <4> QED
        BY <1>3, <1>6, <2>2, <3>2, <4>1
    <3> QED
      BY <1>5, <3>3, <3>4
  <2> QED
    BY <2>1, <2>2
<1>15. ASSUME NEW i \in 1 .. Len(sent'), NEW j \in 1 .. Len(sent'), i < j,
              sent'[i].packet.req = sent'[j].packet.req
       PROVE  Before(sent'[i], sent'[j])
  <2>1. CASE j \in 1 .. Len(sent)
    <3>1. i \in 1 .. Len(sent)
      BY <1>4, <1>15, <2>1
    <3> QED
      BY <1>4, <1>15, <2>1, <3>1 DEF InOrder
  <2>2. CASE i \in 1 .. Len(sent) /\ j \in Len(sent) + 1 .. Len(sent) + k
    <3>1. sent'[i] = sent[i] /\ sent[i].packet.req = p.req /\ sent[i].n \in Nat
      BY <1>4, <1>13, <1>15, <2>2
    <3>2. sent'[j].packet = p /\ sent'[j].n > d
      BY <1>2, <1>4, <2>2
    <3>3. sent'[j].n \in Nat
      BY <1>4, <1>13, <2>2
    <3> QED
      BY <1>2, <1>12, <2>2, <3>1, <3>2, <3>3 DEF Before
  <2>3. CASE i \in Len(sent) + 1 .. Len(sent) + k /\ j \in Len(sent) + 1 .. Len(sent) + k
    <3>1. sent'[i].packet = p /\ sent'[j].packet = p /\ sent'[i].n < sent'[j].n
      BY <1>2, <1>4, <1>15, <2>3
    <3> QED
      BY <3>1 DEF Before
  <2> QED
    BY <1>4, <1>5, <1>15, <2>1, <2>2, <2>3
<1>16. InOrder'
  BY <1>15 DEF InOrder
<1> QED
  BY <1>9, <1>10, <1>11, <1>14, <1>16 DEF Turns

LEMMA OrderStep == OrderInv /\ [Next]_vars /\ TypeOK' => OrderInv'
<1> SUFFICES ASSUME TypeOK, Turns, InOrder, [Next]_vars
             PROVE  Turns' /\ InOrder'
  BY DEF OrderInv
<1>1. ASSUME NEW t \in Threads, Answer(t)
      PROVE  Turns' /\ InOrder'
  <2>1. CASE \E r \in Requests : TakeUp(t, r)
    BY <2>1, TakeUpTurns
  <2>2. CASE FillList(t)
    BY <2>2, FillListTurns
  <2>3. CASE Finish(t)
    <3>1. worker' = [worker EXCEPT ![t] = Idle] /\ todo' = todo /\ sent' = sent /\ worker[t].at = "fill"
      BY <2>3 DEF Finish
    <3>2. worker[t] # Idle
      BY <3>1, Places
    <3> QED
      BY <3>1, <3>2, MovesOn
  <2>4. CASE SendError(t)
    <3>1. PICK w : w = Cleared(worker[t])
      OBVIOUS
    <3>2. worker' = [worker EXCEPT ![t] = w] /\ todo' = todo /\ sent' = sent /\ worker[t].at = "send"
      BY <2>4, <3>1 DEF SendError, GivesUp
    <3>3. worker[t] # Idle
      BY <3>2, Places
    <3>4. Of(w) = Of(worker[t]) /\ \A b \in Byte : Passed(worker[t], b) => Passed(w, b)
      BY <3>1, <3>2, ClearedPassed DEF Passed
    <3>5. \A j \in 1 .. Len(sent) : sent[j] \in Byte
      BY DEF TypeOK
    <3> QED
      BY <3>2, <3>3, <3>4, <3>5, MovesOn
  <2>5. CASE \E k \in 1 .. Capacity : Send(t, k)
    BY <2>5, SendTurns
  <2> QED
    BY <1>1, <2>1, <2>2, <2>3, <2>4, <2>5 DEF Answer
<1>2. CASE UNCHANGED << worker, todo, sent >>
  BY <1>2 DEF Turns, InOrder, Works
<1> QED
  BY <1>1, <1>2 DEF Next, Read, Close, vars

(* Whatever errors hit which sends, and whoever else sends in between: what *)
(* the client gets of a request comes in order and nothing comes twice.     *)
THEOREM AnswersInOrder == Spec => []InOrder
<1>1. Init => Turns /\ InOrder
  BY OrderInit
<1>2. Inv => TypeOK
  BY DEF Inv
<1>3. OrderInv => InOrder
  BY DEF OrderInv
<1>4. OrderInv <=> TypeOK /\ Turns /\ InOrder
  BY DEF OrderInv
<1> QED
  BY <1>1, <1>2, <1>3, <1>4, InvHolds, OrderStep, PTL DEF Spec

-----------------------------------------------------------------------------
(* The multiples of a positive number lie apart. *)
LEMMA Multiples ==
  ASSUME NEW B \in Nat \ {0}, NEW i \in Nat, NEW j \in Nat
  PROVE  /\ i * B \in Nat /\ i <= i * B
         /\ (i + 1) * B = i * B + B
         /\ i < j => i * B + B <= j * B
<1>1. i * B \in Nat /\ (i + 1) * B = i * B + B /\ j * B \in Nat
  OBVIOUS
<1>2. i <= i * B
  <2>1. PICK c \in Nat : B = 1 + c
    <3>1. B - 1 \in Nat /\ B = 1 + (B - 1)
      OBVIOUS
    <3> QED
      BY <3>1
  <2>2. i * B = i + i * c /\ i * c \in Nat
    BY <2>1
  <2> QED
    BY <2>2
<1>3. ASSUME i < j
      PROVE  i * B + B <= j * B
  <2>1. PICK c \in Nat : j = (i + 1) + c
    <3>1. j - (i + 1) \in Nat /\ j = (i + 1) + (j - (i + 1))
      BY <1>3
    <3> QED
      BY <3>1
  <2>2. j * B = (i + 1) * B + c * B /\ c * B \in Nat
    BY <2>1
  <2> QED
    BY <1>1, <2>2
<1> QED
  BY <1>1, <1>2, <1>3

(* After a batch comes the first word of another one, or none. *)
LEMMA FirstsNext ==
  ASSUME NEW r \in Requests, NEW f \in Firsts(r)
  PROVE  LET l == Smaller(f + Batch - 1, Words(r))
         IN  /\ f \in Nat \ {0} /\ l \in Nat \ {0} /\ f <= l /\ l <= Words(r)
             /\ l < f + Batch
             /\ l + 1 \in Firsts(r) \/ l = Words(r)
<1>1. Words(r) \in Nat /\ Batch \in Nat \ {0}
  BY SendAssumption
<1>2. PICK q \in 0 .. Words(r) : f = q * Batch + 1
  BY DEF Firsts
<1>3. f \in 1 .. Words(r)
  BY DEF Firsts
<1>4. CASE f + Batch - 1 < Words(r)
  <2>1. f + Batch = (q + 1) * Batch + 1
    BY <1>1, <1>2, Multiples
  <2>2. q + 1 <= (q + 1) * Batch
    BY <1>1, <1>2, Multiples
  <2>3. q + 1 \in 0 .. Words(r) /\ f + Batch \in 1 .. Words(r)
    BY <1>1, <1>2, <1>3, <1>4, <2>1, <2>2
  <2>4. f + Batch \in Firsts(r)
    BY <2>1, <2>3 DEF Firsts
  <2> QED
    BY <1>1, <1>3, <1>4, <2>4 DEF Smaller
<1>5. CASE ~(f + Batch - 1 < Words(r))
  BY <1>1, <1>3, <1>5 DEF Smaller
<1> QED
  BY <1>4, <1>5

(* Two batches begin a batch apart. *)
LEMMA FirstsApart ==
  ASSUME NEW r \in Requests, NEW f \in Firsts(r), NEW g \in Firsts(r), f < g
  PROVE  f + Batch <= g
<1>1. Words(r) \in Nat /\ Batch \in Nat \ {0}
  BY SendAssumption
<1>2. PICK i \in 0 .. Words(r), j \in 0 .. Words(r) : f = i * Batch + 1 /\ g = j * Batch + 1
  BY DEF Firsts
<1>3. i \in Nat /\ j \in Nat /\ i * Batch \in Nat /\ j * Batch \in Nat
  BY <1>1, <1>2
<1>4. CASE i < j
  <2>1. i * Batch + Batch <= j * Batch
    BY <1>1, <1>3, <1>4, Multiples
  <2> QED
    BY <1>1, <1>2, <1>3, <2>1
<1>5. CASE j < i
  <2>1. j * Batch + Batch <= i * Batch
    BY <1>1, <1>3, <1>5, Multiples
  <2> QED
    BY <1>1, <1>2, <1>3, <2>1
<1>6. CASE i = j
  BY <1>2, <1>3, <1>6
<1> QED
  BY <1>3, <1>4, <1>5, <1>6

(* The packets of an answer: what they hold, and that they do not overlap. *)
LEMMA PacketsType ==
  ASSUME NEW r \in Requests, NEW p \in PacketsOf(r)
  PROVE  /\ p \in Packet /\ p.req = r /\ p.first \in Firsts(r)
         /\ p.first \in Nat /\ p.last \in Nat /\ 1 <= p.first
         /\ p.first <= p.last /\ p.last <= Words(r) /\ p.last < p.first + Batch
         /\ p.last = Smaller(p.first + Batch - 1, Words(r))
         /\ p.last + 1 \in Firsts(r) \/ p.last = Words(r)
<1>1. PICK f \in Firsts(r) : p = Pack(r, f, Smaller(f + Batch - 1, Words(r)))
  BY DEF PacketsOf
<1>2. PICK l : l = Smaller(f + Batch - 1, Words(r))
  OBVIOUS
<1>3. p.req = r /\ p.first = f /\ p.last = l /\ p = Pack(r, f, l)
  BY <1>1, <1>2 DEF Pack
<1>4. /\ f \in Nat \ {0} /\ l \in Nat \ {0} /\ f <= l /\ l <= Words(r) /\ l < f + Batch
      /\ l + 1 \in Firsts(r) \/ l = Words(r)
  BY <1>2, FirstsNext
<1>5. p \in Packet
  BY <1>3, <1>4 DEF Packet, Pack
<1> QED
  BY <1>2, <1>3, <1>4, <1>5

LEMMA PacketsApart ==
  ASSUME NEW r \in Requests, NEW p \in PacketsOf(r), NEW q \in PacketsOf(r)
  PROVE  q.last <= p.last <=> q.last < p.first \/ q = p
<1>1. /\ p.first \in Firsts(r) /\ p.first \in Nat /\ p.last \in Nat /\ p.first <= p.last /\ p.last < p.first + Batch
      /\ q.first \in Firsts(r) /\ q.first \in Nat /\ q.last \in Nat /\ q.first <= q.last /\ q.last < q.first + Batch
  BY PacketsType
<1>2. Batch \in Nat
  BY SendAssumption
<1>3. CASE q.first < p.first
  <2>1. q.first + Batch <= p.first
    BY <1>1, <1>3, FirstsApart
  <2> QED
    BY <1>1, <1>2, <2>1
<1>4. CASE p.first < q.first
  <2>1. p.first + Batch <= q.first
    BY <1>1, <1>4, FirstsApart
  <2> QED
    BY <1>1, <1>2, <2>1
<1>5. CASE p.first = q.first
  <2>1. p = q
    BY <1>5 DEF PacketsOf, Pack
  <2> QED
    BY <1>1, <2>1
<1> QED
  BY <1>1, <1>3, <1>4, <1>5

(* A byte of an answer is a byte of one of its packets. *)
LEMMA ExpectedType ==
  ASSUME NEW r \in Requests, NEW b
  PROVE  b \in Expected(r) <=> /\ b \in Byte /\ b.packet \in PacketsOf(r)
                               /\ b.n \in 1 .. Size(b.packet)
<1>1. ASSUME b \in Expected(r)
      PROVE  b \in Byte /\ b.packet \in PacketsOf(r) /\ b.n \in 1 .. Size(b.packet)
  <2>0. PICK p \in PacketsOf(r) : \E i \in 1 .. Size(p) : b = [packet |-> p, n |-> i]
    BY <1>1 DEF Expected
  <2>1. PICK i \in 1 .. Size(p) : b = [packet |-> p, n |-> i]
    BY <2>0
  <2>2. p \in Packet
    BY PacketsType
  <2>3. i \in Nat \ {0}
    BY <2>1
  <2> QED
    BY <2>1, <2>2, <2>3 DEF Byte
<1>2. ASSUME b \in Byte, b.packet \in PacketsOf(r), b.n \in 1 .. Size(b.packet)
      PROVE  b \in Expected(r)
  <2>1. b = [packet |-> b.packet, n |-> b.n]
    BY <1>2 DEF Byte
  <2> QED
    BY <1>2, <2>1 DEF Expected
<1> QED
  BY <1>1, <1>2

-----------------------------------------------------------------------------
(* A worker fills at the first word of a batch or at the end, and sends    *)
(* packets of the answer.  Without an error what was sent of the answer is *)
(* just what is behind the worker, and all of it when there is none.       *)
AtABatch(w) ==
  /\ w.at = "fill" => w.next \in Firsts(w.req) \/ w.next = Words(w.req) + 1
  /\ w.at = "send" => w.packet \in PacketsOf(w.packet.req)

Behind(w, r) == {b \in Expected(r) : Passed(w, b)}

Exact ==
  /\ \A t \in Threads : AtABatch(worker[t])
  /\ \A r \in Requests \ failed :
       /\ \A t \in Threads : Works(worker[t], r) => SentOf(r) = Behind(worker[t], r)
       /\ r \notin todo /\ (\A t \in Threads : ~Works(worker[t], r)) => SentOf(r) = Expected(r)

ExactInv == OrderInv /\ Exact

(* At first nobody has begun, and nothing was taken up. *)
LEMMA ExactInit == Init => Exact
<1> SUFFICES ASSUME Init PROVE Exact
  OBVIOUS
<1>1. todo = Requests /\ \A t \in Threads : worker[t] = Idle /\ worker[t].at = "idle"
  BY Places DEF Init
<1> QED
  BY <1>1 DEF Exact, AtABatch, Works

(* What is behind a place comes before what is not. *)
LEMMA BehindFirst ==
  ASSUME NEW r \in Requests, NEW w \in Worker, NEW a \in Expected(r), NEW b \in Behind(w, r), Before(a, b)
  PROVE  a \in Behind(w, r)
<1>1. /\ a.packet \in PacketsOf(r) /\ b.packet \in PacketsOf(r)
      /\ a \in Byte /\ b \in Byte /\ Passed(w, b)
  BY ExpectedType DEF Behind
<1>2. /\ a.packet.last \in Nat /\ b.packet.first \in Nat /\ b.packet.last \in Nat
      /\ b.packet.first <= b.packet.last
  BY <1>1, PacketsType
<1>3. a.n \in Nat /\ b.n \in Nat
  BY <1>1 DEF Byte
<1>4. a.packet.last <= b.packet.last /\ (a.packet # b.packet => a.packet.last < b.packet.first)
  BY <1>2 DEF Before
<1>5. CASE w.at = "fill"
  <2>1. b.packet.last < w.next /\ w.next \in Nat
    BY <1>1, <1>5, Shapes DEF Passed
  <2> QED
    BY <1>2, <1>4, <1>5, <2>1 DEF Passed, Behind
<1>6. CASE w.at = "send"
  <2>1. w.packet.first \in Nat /\ w.done \in Nat
    BY <1>6, Shapes DEF Packet
  <2>2. CASE b.packet.last < w.packet.first
    BY <1>2, <1>4, <1>6, <2>1, <2>2 DEF Passed, Behind
  <2>3. CASE b.packet = w.packet /\ b.n <= w.done
    <3>1. CASE a.packet = b.packet
      <4>1. a.n <= w.done
        BY <1>2, <1>3, <2>1, <2>3, <3>1 DEF Before
      <4> QED
        BY <1>6, <2>3, <3>1, <4>1 DEF Passed, Behind
    <3>2. CASE a.packet # b.packet
      BY <1>4, <1>6, <2>3, <3>2 DEF Passed, Behind
    <3> QED
      BY <3>1, <3>2
  <2> QED
    BY <1>1, <1>6, <2>2, <2>3 DEF Passed
<1> QED
  BY <1>1, <1>5, <1>6 DEF Passed

(* So the invariant says what the client may rely on. *)
LEMMA ExactAnswer == ExactInv => AnswerExact
<1> SUFFICES ASSUME TypeOK, Turns, Exact, NEW r \in Requests, r \notin failed
             PROVE  /\ SentOf(r) \subseteq Expected(r)
                    /\ \A b \in SentOf(r), a \in Expected(r) : Before(a, b) => a \in SentOf(r)
                    /\ r \notin todo /\ (\A t \in Threads : ~Works(worker[t], r))
                         => SentOf(r) = Expected(r)
  BY DEF ExactInv, OrderInv, AnswerExact
<1>1. CASE \E t \in Threads : Works(worker[t], r)
  <2>1. PICK t \in Threads : Works(worker[t], r)
    BY <1>1
  <2>2. SentOf(r) = Behind(worker[t], r) /\ worker[t] \in Worker
    BY <2>1 DEF Exact, TypeOK
  <2>3. Behind(worker[t], r) \subseteq Expected(r)
    BY DEF Behind
  <2> QED
    BY <2>1, <2>2, <2>3, BehindFirst
<1>2. CASE r \in todo
  <2>1. SentOf(r) = {}
    BY <1>2 DEF SentOf, Turns
  <2> QED
    BY <1>2, <2>1
<1>3. CASE r \notin todo /\ \A t \in Threads : ~Works(worker[t], r)
  BY <1>3 DEF Exact
<1> QED
  BY <1>1, <1>2, <1>3

(* A busy worker that moves on without sending, or finishes. *)
LEMMA ExactMoves ==
  ASSUME TypeOK, Turns, Exact, NEW t \in Threads, NEW w,
         worker' = [worker EXCEPT ![t] = w], todo' = todo, sent' = sent, failed \subseteq failed',
         worker[t] # Idle, w # Idle => Of(w) = Of(worker[t]), AtABatch(w),
         Of(worker[t]) \notin failed' =>
           IF w = Idle THEN Behind(worker[t], Of(worker[t])) = Expected(Of(worker[t]))
           ELSE Behind(w, Of(worker[t])) = Behind(worker[t], Of(worker[t]))
  PROVE  Exact'
<1>1. worker'[t] = w /\ \A o \in Threads : o # t => worker'[o] = worker[o]
  BY Moved
<1>2. \A o \in Threads : AtABatch(worker'[o])
  BY <1>1 DEF Exact
<1>3. \A r : SentOf(r)' = SentOf(r)
  BY DEF SentOf
<1>4. ASSUME NEW r \in Requests, r \notin failed'
      PROVE  /\ \A o \in Threads : Works(worker'[o], r) => SentOf(r) = Behind(worker'[o], r)
             /\ r \notin todo /\ (\A o \in Threads : ~Works(worker'[o], r)) => SentOf(r) = Expected(r)
  <2>1. r \notin failed
    BY <1>4
  <2>2. \A o \in Threads : Works(worker'[o], r) => Works(worker[o], r)
    BY <1>1 DEF Works
  <2>3. CASE r # Of(worker[t])
    <3>1. \A o \in Threads : Works(worker[o], r) => o # t
      BY <2>3 DEF Works
    <3>2. \A o \in Threads : Works(worker'[o], r) => worker'[o] = worker[o]
      BY <1>1, <2>2, <3>1
    <3>3. \A o \in Threads : Works(worker[o], r) => Works(worker'[o], r)
      BY <1>1, <3>1
    <3> QED
      BY <2>1, <2>2, <3>2, <3>3 DEF Exact
  <2>4. CASE r = Of(worker[t])
    <3>1. Works(worker[t], r) /\ SentOf(r) = Behind(worker[t], r)
      BY <2>1, <2>4 DEF Works, Exact
    <3>2. \A o \in Threads : Works(worker'[o], r) => o = t
      BY <2>2, <3>1 DEF Turns
    <3>3. CASE w = Idle
      BY <1>1, <1>4, <2>4, <3>1, <3>2, <3>3 DEF Works
    <3>4. CASE w # Idle
      <4>1. Works(worker'[t], r)
        BY <1>1, <2>4, <3>4 DEF Works
      <4> QED
        BY <1>1, <1>4, <2>4, <3>1, <3>2, <3>4, <4>1
    <3> QED
      BY <3>3, <3>4
  <2> QED
    BY <2>3, <2>4
<1> QED
  BY <1>2, <1>3, <1>4 DEF Exact

(* Nothing is behind the first word. *)
LEMMA TakeUpExact ==
  ASSUME TypeOK, Turns, Exact, NEW t \in Threads, NEW r \in Requests, TakeUp(t, r)
  PROVE  Exact'
<1>1. PICK w : w = Fill(r, 1)
  OBVIOUS
<1>2. /\ r \in todo /\ worker[t] = Idle /\ worker' = [worker EXCEPT ![t] = w]
      /\ todo' = todo \ {r} /\ sent' = sent /\ failed' = failed
  BY <1>1 DEF TakeUp
<1>3. w # Idle /\ w.at = "fill" /\ w.req = r /\ w.next = 1 /\ Of(w) = r
  BY <1>1, Places, PlacesOf
<1>4. worker'[t] = w /\ \A o \in Threads : o # t => worker'[o] = worker[o]
  BY <1>2, Moved
<1>5. AtABatch(w)
  <2>1. Words(r) \in Nat /\ Batch \in Nat
    BY SendAssumption
  <2>2. CASE Words(r) = 0
    BY <1>3, <2>1, <2>2 DEF AtABatch
  <2>3. CASE Words(r) # 0
    <3>1. 0 \in 0 .. Words(r) /\ 1 \in 1 .. Words(r) /\ 0 * Batch + 1 = 1
      BY <2>1, <2>3
    <3>2. 1 \in Firsts(r)
      BY <3>1 DEF Firsts
    <3> QED
      BY <1>3, <3>2 DEF AtABatch
  <2> QED
    BY <2>2, <2>3
<1>6. \A o \in Threads : AtABatch(worker'[o])
  BY <1>4, <1>5 DEF Exact
<1>7. \A q : SentOf(q)' = SentOf(q)
  BY <1>2 DEF SentOf
<1>8. SentOf(r) = {} /\ Behind(w, r) = {}
  <2>1. SentOf(r) = {}
    BY <1>2 DEF SentOf, Turns
  <2>2. ASSUME NEW b \in Expected(r)
        PROVE  ~Passed(w, b)
    <3>1. b.packet.last \in Nat /\ 1 <= b.packet.last
      <4>1. b.packet \in PacketsOf(r)
        BY ExpectedType
      <4> QED
        BY <4>1, PacketsType
    <3> QED
      BY <1>3, <3>1 DEF Passed
  <2> QED
    BY <2>1, <2>2 DEF Behind
<1>9. ASSUME NEW q \in Requests, q \notin failed
      PROVE  /\ \A o \in Threads : Works(worker'[o], q) => SentOf(q) = Behind(worker'[o], q)
             /\ q \notin todo' /\ (\A o \in Threads : ~Works(worker'[o], q)) => SentOf(q) = Expected(q)
  <2>1. CASE q = r
    <3>1. Works(worker'[t], q) /\ \A o \in Threads : o # t => ~Works(worker'[o], q)
      BY <1>2, <1>3, <1>4, <2>1 DEF Works, Turns
    <3> QED
      BY <1>4, <1>8, <2>1, <3>1
  <2>2. CASE q # r
    <3>1. ~Works(worker'[t], q) /\ ~Works(worker[t], q)
      BY <1>2, <1>3, <1>4, <2>2 DEF Works
    <3>2. \A o \in Threads : Works(worker'[o], q) => worker'[o] = worker[o]
      BY <1>4, <3>1
    <3>3. \A o \in Threads : Works(worker[o], q) => Works(worker'[o], q)
      BY <1>4, <3>1
    <3>4. q \notin todo' => q \notin todo
      BY <1>2, <2>2
    <3> QED
      BY <1>9, <3>2, <3>3, <3>4 DEF Exact
  <2> QED
    BY <2>1, <2>2
<1> QED
  BY <1>2, <1>6, <1>7, <1>9 DEF Exact

(* A list that is full, or the last one, is a packet of the answer. *)
LEMMA FillListExact ==
  ASSUME TypeOK, Turns, Exact, NEW t \in Threads, FillList(t)
  PROVE  Exact'
<1>1. PICK u, r, p, w : /\ u = worker[t] /\ r = u.req /\ p = Pack(r, u.next, LastOf(u))
                        /\ w = Sending(p, 0)
  OBVIOUS
<1>2. /\ u.at = "fill" /\ u.next <= Words(r)
      /\ worker' = [worker EXCEPT ![t] = w]
      /\ todo' = todo /\ sent' = sent /\ failed' = failed /\ u \in Worker
  BY <1>1 DEF FillList, TypeOK
<1>3. r \in Requests /\ u.next \in Nat /\ u # Idle /\ Words(r) \in Nat /\ Of(u) = r
  BY <1>1, <1>2, Shapes, SendAssumption DEF Of
<1>4. u.next \in Firsts(r)
  <2>1. u.next # Words(r) + 1
    BY <1>2, <1>3
  <2> QED
    BY <1>1, <1>2, <2>1 DEF Exact, AtABatch
<1>5. p \in PacketsOf(r) /\ p.first = u.next
  BY <1>1, <1>4 DEF PacketsOf, LastOf, Pack
<1>6. p \in Packet /\ p.req = r
  BY <1>3, <1>5, PacketsType
<1>7. w # Idle /\ w.at = "send" /\ w.packet = p /\ w.done = 0 /\ Of(w) = r
  BY <1>1, <1>6, Places, PlacesOf
<1>8. AtABatch(w)
  BY <1>5, <1>6, <1>7 DEF AtABatch
<1>9. Behind(w, r) = Behind(u, r)
  <2>1. ASSUME NEW b \in Expected(r)
        PROVE  Passed(w, b) <=> Passed(u, b)
    <3>1. ~(b.n <= 0)
      <4>1. b \in Byte
        BY <1>3, ExpectedType
      <4> QED
        BY <4>1 DEF Byte
    <3> QED
      BY <1>2, <1>5, <1>7, <3>1 DEF Passed
  <2> QED
    BY <2>1 DEF Behind
<1> QED
  BY <1>1, <1>2, <1>3, <1>7, <1>8, <1>9, ExactMoves

(* Everything is behind the end. *)
LEMMA FinishExact ==
  ASSUME TypeOK, Turns, Exact, NEW t \in Threads, Finish(t)
  PROVE  Exact'
<1>1. PICK u, r : u = worker[t] /\ r = u.req
  OBVIOUS
<1>2. /\ u.at = "fill" /\ u.next > Words(r)
      /\ worker' = [worker EXCEPT ![t] = Idle]
      /\ todo' = todo /\ sent' = sent /\ failed' = failed /\ u \in Worker
  BY <1>1 DEF Finish, TypeOK
<1>3. r \in Requests /\ u.next \in Nat /\ u # Idle /\ Words(r) \in Nat /\ Of(u) = r
  BY <1>1, <1>2, Shapes, SendAssumption DEF Of
<1>4. Behind(u, r) = Expected(r)
  <2>1. ASSUME NEW b \in Expected(r)
        PROVE  Passed(u, b)
    <3>1. b.packet \in PacketsOf(r)
      BY <1>3, ExpectedType
    <3>2. b.packet.last \in Nat /\ b.packet.last <= Words(r)
      BY <1>3, <3>1, PacketsType
    <3> QED
      BY <1>2, <1>3, <3>2 DEF Passed
  <2> QED
    BY <2>1 DEF Behind
<1>5. AtABatch(Idle)
  BY Places DEF AtABatch
<1> QED
  BY <1>1, <1>2, <1>3, <1>4, <1>5, ExactMoves

(* The list after this one begins a batch, or there is none. *)
LEMMA ClearedBatch ==
  ASSUME TypeOK, Exact, NEW t \in Threads, worker[t].at = "send"
  PROVE  /\ AtABatch(Cleared(worker[t])) /\ Cleared(worker[t]) # Idle
         /\ Of(Cleared(worker[t])) = worker[t].packet.req
<1>1. PICK p, w : p = worker[t].packet /\ w = Cleared(worker[t])
  OBVIOUS
<1>2. worker[t] \in Worker
  BY DEF TypeOK
<1>3. p \in Packet /\ p.req \in Requests /\ p \in PacketsOf(p.req)
  <2>1. p \in Packet
    BY <1>1, <1>2, Shapes
  <2> QED
    BY <1>1, <2>1 DEF Exact, AtABatch, Packet
<1>4. p.last \in Nat /\ (p.last + 1 \in Firsts(p.req) \/ p.last = Words(p.req))
  BY <1>3, PacketsType
<1>5. p.last + 1 \in Nat \ {0}
  BY <1>4
<1>6. w # Idle /\ w.at = "fill" /\ w.next = p.last + 1 /\ w.req = p.req /\ Of(w) = p.req
  BY <1>1, <1>3, <1>5, Places, PlacesOf DEF Cleared
<1>7. AtABatch(w)
  BY <1>4, <1>6 DEF AtABatch
<1> QED
  BY <1>1, <1>6, <1>7

(* A request that meets an error may stay without a part of its answer. *)
LEMMA SendErrorExact ==
  ASSUME TypeOK, Turns, Exact, NEW t \in Threads, SendError(t)
  PROVE  Exact'
<1>1. PICK u, w : u = worker[t] /\ w = Cleared(u)
  OBVIOUS
<1>2. /\ u.at = "send" /\ worker' = [worker EXCEPT ![t] = w]
      /\ todo' = todo /\ sent' = sent /\ failed' = failed \cup {u.packet.req}
  BY <1>1 DEF SendError, GivesUp
<1>3. u # Idle /\ Of(u) = u.packet.req
  BY <1>2, Places DEF Of
<1>4. AtABatch(w) /\ w # Idle /\ Of(w) = u.packet.req
  BY <1>1, <1>2, ClearedBatch
<1>5. failed \subseteq failed' /\ Of(u) \in failed'
  BY <1>2, <1>3
<1> QED
  BY <1>1, <1>2, <1>3, <1>4, <1>5, ExactMoves

(* The bytes that are sent are the next ones of the answer. *)
LEMMA SendExact ==
  ASSUME TypeOK, Turns, Exact, NEW t \in Threads, NEW k \in 1 .. Capacity, Send(t, k)
  PROVE  Exact'
<1>0. PICK u, p, d, w, r :
        /\ u = worker[t] /\ p = u.packet /\ d = u.done /\ r = p.req
        /\ w = IF d + k = Size(p) THEN Cleared(u) ELSE Sending(p, d + k)
  OBVIOUS
<1>1. /\ u.at = "send" /\ u \in Worker /\ k <= Size(p) - d
      /\ sent' = sent \o Bytes(p, d, k) /\ sent \in Seq(Byte)
      /\ worker' = [worker EXCEPT ![t] = w]
      /\ todo' = todo /\ failed' = failed
  BY <1>0 DEF Send, TypeOK
<1>2. p \in Packet /\ d \in Nat /\ u # Idle /\ k \in Nat \ {0} /\ r \in Requests /\ Of(u) = r
      /\ p \in PacketsOf(r)
  <2>1. p \in Packet /\ d \in Nat /\ u # Idle /\ k \in Nat \ {0}
    BY <1>0, <1>1, Shapes, SendAssumption
  <2> QED
    BY <1>0, <1>1, <2>1 DEF Packet, Of, Exact, AtABatch
<1>3. Size(p) \in Nat /\ d + k \in Nat /\ d + k <= Size(p)
  <2>1. Size(p) \in Int
    BY <1>2, SendAssumption DEF Size, Packet
  <2> QED
    BY <1>1, <1>2, <2>1
<1>4. w # Idle /\ Of(w) = r /\ AtABatch(w)
  <2>1. CASE d + k = Size(p)
    BY <1>0, <1>1, <2>1, ClearedBatch
  <2>2. CASE d + k # Size(p)
    <3>1. w # Idle /\ Of(w) = r /\ w.at = "send" /\ w.packet = p
      BY <1>0, <1>2, <1>3, <2>2, Places, PlacesOf
    <3> QED
      BY <1>0, <1>2, <3>1 DEF AtABatch
  <2> QED
    BY <2>1, <2>2
<1>5. worker'[t] = w /\ \A o \in Threads : o # t => worker'[o] = worker[o]
  BY <1>1, Moved
<1>6. \A o \in Threads : AtABatch(worker'[o])
  BY <1>4, <1>5 DEF Exact
<1> DEFINE New == {[packet |-> p, n |-> d + j] : j \in 1 .. k}
<1>7. /\ Len(sent) \in Nat /\ Len(sent') = Len(sent) + k
      /\ \A j \in 1 .. Len(sent) : sent'[j] = sent[j]
      /\ \A j \in 1 .. k : sent'[Len(sent) + j] = [packet |-> p, n |-> d + j]
  <2>1. PICK now : now = sent'
    OBVIOUS
  <2>2. PICK old \in Seq(Byte) : old = sent
    BY <1>1
  <2>3. PICK b : b = Bytes(p, d, k)
    OBVIOUS
  <2>4. now = old \o b
    BY <1>1, <1>2, <2>1, <2>2, <2>3
  <2>5. b \in Seq(Byte)
    BY <1>2, <2>3, <2>4, BytesType
  <2>6. now \in Seq(Byte) /\ Len(now) = Len(old) + Len(b)
    BY <2>4, <2>5, ConcatProperties
  <2>7. Joins(now, old, b)
    <3>1. \A j \in 1 .. Len(old) + Len(b) :
            now[j] = IF j <= Len(old) THEN old[j] ELSE b[j - Len(old)]
      BY <2>4, <2>5, ConcatProperties
    <3> QED
      BY <2>6, <3>1 DEF Joins
  <2>8. k \in Nat /\ p \in Packet /\ d \in Nat
    BY <1>2
  <2>9. Continues(now, old, p, d, k)
    BY <2>3, <2>5, <2>7, <2>8, BytesFollow
  <2> QED
    BY <2>1, <2>2, <2>6, <2>9 DEF Continues
<1>8. \A j \in 1 .. Len(sent') : j \in 1 .. Len(sent) \/ \E i \in 1 .. k : j = Len(sent) + i
  <2> SUFFICES ASSUME NEW j \in 1 .. Len(sent'), j \notin 1 .. Len(sent)
               PROVE  \E i \in 1 .. k : j = Len(sent) + i
    OBVIOUS
  <2>1. j - Len(sent) \in 1 .. k /\ j = Len(sent) + (j - Len(sent))
    BY <1>2, <1>7
  <2> QED
    BY <2>1
<1>8a. \A j \in 1 .. k : /\ sent'[Len(sent) + j].packet.req = r
                         /\ Len(sent) + j \in 1 .. Len(sent')
  <2> SUFFICES ASSUME NEW j \in 1 .. k
               PROVE  sent'[Len(sent) + j].packet.req = r /\ Len(sent) + j \in 1 .. Len(sent')
    OBVIOUS
  <2>1. sent'[Len(sent) + j] = [packet |-> p, n |-> d + j]
    BY <1>7
  <2>2. sent'[Len(sent) + j].packet = p
    BY <2>1
  <2> QED
    BY <1>0, <1>2, <1>7, <2>2
<1>9. ASSUME NEW q \in Requests, q # r
      PROVE  SentOf(q)' = SentOf(q)
  <2>1. {i \in 1 .. Len(sent') : sent'[i].packet.req = q} = {i \in 1 .. Len(sent) : sent[i].packet.req = q}
    <3>1. \A i \in 1 .. k : sent'[Len(sent) + i].packet.req # q
      BY <1>9, <1>8a
    <3>2. \A i \in 1 .. Len(sent) : i \in 1 .. Len(sent') /\ sent'[i] = sent[i]
      BY <1>2, <1>7
    <3> QED
      BY <1>8, <3>1, <3>2
  <2> QED
    BY <1>7, <2>1 DEF SentOf
<1>10. SentOf(r)' = SentOf(r) \cup New
  <2>1. \A i \in 1 .. k : Len(sent) + i \in 1 .. Len(sent') /\ sent'[Len(sent) + i].packet.req = r
    BY <1>8a
  <2>2. \A i \in 1 .. Len(sent) : i \in 1 .. Len(sent') /\ sent'[i] = sent[i]
    BY <1>2, <1>7
  <2>3. ASSUME NEW b \in SentOf(r)'
        PROVE  b \in SentOf(r) \cup New
    <3>1. PICK j \in 1 .. Len(sent') : sent'[j].packet.req = r /\ b = sent'[j]
      BY <2>3 DEF SentOf
    <3> QED
      BY <1>7, <1>8, <3>1 DEF SentOf
  <2>4. ASSUME NEW b \in SentOf(r)
        PROVE  b \in SentOf(r)'
    <3>1. PICK j \in 1 .. Len(sent) : sent[j].packet.req = r /\ b = sent[j]
      BY <2>4 DEF SentOf
    <3> QED
      BY <2>2, <3>1 DEF SentOf
  <2>5. ASSUME NEW b \in New
        PROVE  b \in SentOf(r)'
    <3>1. PICK j \in 1 .. k : b = [packet |-> p, n |-> d + j]
      BY <2>5
    <3> QED
      BY <1>7, <2>1, <3>1 DEF SentOf
  <2> QED
    BY <2>3, <2>4, <2>5
<1>11. Behind(w, r) = Behind(u, r) \cup New
  <2>1. New \subseteq Expected(r)
    <3> SUFFICES ASSUME NEW j \in 1 .. k
                 PROVE  [packet |-> p, n |-> d + j] \in Expected(r)
      OBVIOUS
    <3>1. d + j \in 1 .. Size(p)
      BY <1>2, <1>3
    <3> QED
      BY <1>2, <3>1 DEF Expected
  <2>2. ASSUME NEW b \in Expected(r)
        PROVE  b \in New <=> b.packet = p /\ b.n > d /\ b.n <= d + k
    <3>1. b \in Byte /\ b = [packet |-> b.packet, n |-> b.n] /\ b.n \in Nat
      BY <1>2, ExpectedType DEF Byte
    <3>2. ASSUME b.packet = p, b.n > d, b.n <= d + k
          PROVE  b \in New
      <4>1. b.n - d \in 1 .. k /\ d + (b.n - d) = b.n
        BY <1>2, <3>1, <3>2
      <4> QED
        BY <3>1, <3>2, <4>1
    <3>3. ASSUME b \in New
          PROVE  b.packet = p /\ b.n > d /\ b.n <= d + k
      <4>1. PICK j \in 1 .. k : b = [packet |-> p, n |-> d + j]
        BY <3>3
      <4> QED
        BY <1>2, <4>1
    <3> QED
      BY <3>2, <3>3
  <2>3. ASSUME NEW b \in Expected(r)
        PROVE  Passed(w, b) <=> Passed(u, b) \/ b \in New
    <3>1. b \in Byte /\ b.packet \in PacketsOf(r) /\ b.n \in 1 .. Size(b.packet) /\ b.n \in Nat
      BY <1>2, ExpectedType DEF Byte
    <3>2. Passed(u, b) <=> b.packet.last < p.first \/ (b.packet = p /\ b.n <= d)
      BY <1>0, <1>1 DEF Passed
    <3>3. CASE d + k = Size(p)
      <4>1. Passed(w, b) <=> b.packet.last <= p.last
        BY <1>0, <1>1, <3>1, <3>3, ClearedPassed
      <4>2. b.packet.last <= p.last <=> b.packet.last < p.first \/ b.packet = p
        BY <1>2, <3>1, PacketsApart
      <4>3. b.packet = p => b.n <= d + k /\ (b.n <= d \/ b.n > d)
        BY <1>2, <1>3, <3>1, <3>3
      <4> QED
        BY <2>2, <3>2, <4>1, <4>2, <4>3
    <3>4. CASE d + k # Size(p)
      <4>1. w.at = "send" /\ w.packet = p /\ w.done = d + k
        BY <1>0, <1>2, <1>3, <3>4, Places
      <4>2. Passed(w, b) <=> b.packet.last < p.first \/ (b.packet = p /\ b.n <= d + k)
        BY <4>1 DEF Passed
      <4>3. b.n <= d + k <=> b.n <= d \/ (b.n > d /\ b.n <= d + k)
        BY <1>2, <3>1
      <4> QED
        BY <2>2, <3>2, <4>2, <4>3
    <3> QED
      BY <3>3, <3>4
  <2> QED
    BY <2>1, <2>3 DEF Behind
<1>12. Works(u, r)
  BY <1>2 DEF Works
<1>13. ASSUME NEW q \in Requests, q \notin failed
       PROVE  /\ \A o \in Threads : Works(worker'[o], q) => SentOf(q)' = Behind(worker'[o], q)
              /\ q \notin todo /\ (\A o \in Threads : ~Works(worker'[o], q)) => SentOf(q)' = Expected(q)
  <2>1. \A o \in Threads : Works(worker'[o], q) <=> Works(worker[o], q)
    BY <1>0, <1>2, <1>4, <1>5 DEF Works
  <2>2. CASE q = r
    <3>1. Works(worker'[t], q) /\ \A o \in Threads : Works(worker'[o], q) => o = t
      BY <1>0, <1>12, <2>1, <2>2 DEF Turns
    <3>2. SentOf(r) = Behind(u, r)
      BY <1>0, <1>12, <1>13, <2>2 DEF Exact
    <3> QED
      BY <1>5, <1>10, <1>11, <2>2, <3>1, <3>2
  <2>3. CASE q # r
    <3>1. \A o \in Threads : Works(worker[o], q) => worker'[o] = worker[o]
      BY <1>0, <1>2, <1>5, <2>3 DEF Works
    <3>2. SentOf(q)' = SentOf(q)
      BY <1>9, <2>3
    <3> QED
      BY <1>13, <2>1, <3>1, <3>2 DEF Exact
  <2> QED
    BY <2>2, <2>3
<1> QED
  BY <1>1, <1>6, <1>13 DEF Exact

LEMMA ExactStep == ExactInv /\ [Next]_vars => Exact'
<1> SUFFICES ASSUME TypeOK, Turns, Exact, [Next]_vars
             PROVE  Exact'
  BY DEF ExactInv, OrderInv
<1>1. ASSUME NEW t \in Threads, Answer(t)
      PROVE  Exact'
  <2>1. CASE \E r \in Requests : TakeUp(t, r)
    BY <2>1, TakeUpExact
  <2>2. CASE FillList(t) \/ Finish(t) \/ SendError(t)
    BY <2>2, FillListExact, FinishExact, SendErrorExact
  <2>3. CASE \E k \in 1 .. Capacity : Send(t, k)
    BY <2>3, SendExact
  <2> QED
    BY <1>1, <2>1, <2>2, <2>3 DEF Answer
<1>2. CASE UNCHANGED << worker, todo, sent, failed >>
  <2>1. \A r : SentOf(r)' = SentOf(r)
    BY <1>2 DEF SentOf
  <2> QED
    BY <1>2, <2>1 DEF Exact
<1> QED
  BY <1>1, <1>2 DEF Next, Read, Close, vars

(* A request whose packets met no error is answered with all its words in   *)
(* full batches but for the last, and until its worker is done with the     *)
(* beginning of this, for any number of workers that send in between.       *)
THEOREM AnswersExact == Spec => []AnswerExact
<1>1. Init => Turns /\ InOrder /\ Exact
  BY OrderInit, ExactInit
<1>2. Inv => TypeOK
  BY DEF Inv
<1>3. ExactInv <=> OrderInv /\ Exact
  BY DEF ExactInv
<1>4. OrderInv <=> TypeOK /\ Turns /\ InOrder
  BY DEF OrderInv
<1> QED
  BY <1>1, <1>2, <1>3, <1>4, InvHolds, OrderStep, ExactStep, ExactAnswer, PTL DEF Spec
=============================================================================
