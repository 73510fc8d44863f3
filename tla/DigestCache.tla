---------------------------- MODULE DigestCache ----------------------------
(***************************************************************************)
(* The digest plugin: clients send an article in units and then its end,   *)
(* worker threads handle the messages, and DigestCacheManager keeps the    *)
(* units per file descriptor and article until the end asks for a digest   *)
(* (src/build/mpl/digest).                                                 *)
(*                                                                         *)
(* The cache is a map of maps of DigestInfo handles.  Copying a map copies *)
(* the handles, not the unit lists behind them: known[fd] is what the map  *)
(* reaches, list[fd][a] the shared list a handle points to.                *)
(***************************************************************************)
EXTENDS Integers, Sequences, FiniteSets

CONSTANTS
  Sockets,      (* file descriptors                                        *)
  Articles,     (* article_identifies of the clients                       *)
  Threads,      (* worker threads of the server framework                  *)
  MaxMessages,  (* bound: messages one connection sends                    *)
  MaxConns,     (* bound: connections a file descriptor is given to        *)
  Parallel      (* may two threads handle messages of one connection?      *)

ASSUME BoundsAssumption == MaxMessages \in Nat /\ MaxConns \in Nat \ {0}
ASSUME ParallelAssumption == Parallel \in BOOLEAN
ASSUME ThreadsAssumption == IsFiniteSet(Threads)

VARIABLES
  conn,     (* the number of the connection a descriptor belongs to        *)
  sent,     (* messages sent in that connection                            *)
  inbox,    (* messages the framework has read and not dispatched          *)
  thread,   (* what each worker is doing                                   *)
  lock,     (* lock_ of the cache: {} or the set of its one holder         *)
  known,    (* the articles the map of a descriptor has an entry for       *)
  list,     (* list_ of the DigestInfo of a descriptor and an article      *)
  replies,  (* the digests sent on a descriptor, oldest first              *)
  log       (* history: messages in the order their handlers had the lock  *)

vars == << conn, sent, inbox, thread, lock, known, list, replies, log >>

Unit    == [conn : 1 .. MaxConns, n : 1 .. MaxMessages]
Message == [kind : {"unit", "end"}, article : Articles, id : Unit]
Reply   == [article : Articles, units : Seq(Unit), made : BOOLEAN]

(* A worker waits for a message, then for the lock, holds it with its copy *)
(* info_map, and, when it has made a digest, replies.                      *)
Worker ==
  [at : {"idle"}]
  \cup [at : {"lock"}, fd : Sockets, msg : Message]
  \cup [at : {"hold"}, fd : Sockets, msg : Message, info_map : SUBSET Articles]
  \cup [at : {"reply"}, fd : Sockets, reply : Reply]

TypeOK ==
  /\ conn \in [Sockets -> 1 .. MaxConns]
  /\ sent \in [Sockets -> 0 .. MaxMessages]
  /\ inbox \in [Sockets -> Seq(Message)]
  /\ thread \in [Threads -> Worker]
  /\ lock \in {{}} \cup {{t} : t \in Threads}
  /\ known \in [Sockets -> SUBSET Articles]
  /\ list \in [Sockets -> [Articles -> Seq(Unit)]]
  /\ replies \in [Sockets -> Seq(Reply)]
  /\ log \in [Sockets -> Seq(Message)]

-----------------------------------------------------------------------------
Idle == [at |-> "idle"]

Init ==
  /\ conn = [s \in Sockets |-> 1]
  /\ sent = [s \in Sockets |-> 0]
  /\ inbox = [s \in Sockets |-> <<>>]
  /\ thread = [t \in Threads |-> Idle]
  /\ lock = {}
  /\ known = [s \in Sockets |-> {}]
  /\ list = [s \in Sockets |-> [a \in Articles |-> <<>>]]
  /\ replies = [s \in Sockets |-> <<>>]
  /\ log = [s \in Sockets |-> <<>>]

(* A client sends a unit of an article or the end of an article. *)
Send(s) ==
  /\ sent[s] < MaxMessages
  /\ \E k \in {"unit", "end"}, a \in Articles :
       inbox' = [inbox EXCEPT ![s] = Append(@,
                   [kind |-> k, article |-> a,
                    id |-> [conn |-> conn[s], n |-> sent[s] + 1]])]
  /\ sent' = [sent EXCEPT ![s] = @ + 1]
  /\ UNCHANGED << conn, thread, lock, known, list, replies, log >>

(* The client closes and the descriptor goes to another one.  What was not
   dispatched is gone; OnDigestClose leaves the cache as it is. *)
Reconnect(s) ==
  /\ conn[s] < MaxConns
  /\ conn' = [conn EXCEPT ![s] = @ + 1]
  /\ sent' = [sent EXCEPT ![s] = 0]
  /\ inbox' = [inbox EXCEPT ![s] = <<>>]
  /\ UNCHANGED << thread, lock, known, list, replies, log >>

Busy(s) == \E t \in Threads : thread[t].at # "idle" /\ thread[t].fd = s

(* OnDigestMessage: a worker is given the next message and goes for the lock. *)
Dispatch(t, s) ==
  /\ thread[t] = Idle
  /\ inbox[s] # <<>>
  /\ Parallel \/ ~Busy(s)
  /\ thread' = [thread EXCEPT ![t] =
                  [at |-> "lock", fd |-> s, msg |-> Head(inbox[s])]]
  /\ inbox' = [inbox EXCEPT ![s] = Tail(@)]
  /\ UNCHANGED << conn, sent, lock, known, list, replies, log >>

(* SetDigestInfo and CreateDigest take the lock and copy the map. *)
CopyBeforeLock(t) ==
  /\ thread[t].at = "lock"
  /\ thread' = [thread EXCEPT ![t] =
       [at |-> "hold", fd |-> @.fd, msg |-> @.msg,
        info_map |-> known[@.fd]]]
  /\ UNCHANGED << conn, sent, inbox, lock, known, list, replies, log >>

Acquire(t) ==
  /\ thread[t].at = "lock"
  /\ lock = {}
  /\ lock' = {t}
  /\ thread' = [thread EXCEPT ![t] =
       [at |-> "hold", fd |-> @.fd, msg |-> @.msg,
        info_map |-> known[@.fd]]]
  /\ UNCHANGED << conn, sent, inbox, known, list, replies, log >>

(* The rest of SetDigestInfo: the unit goes to the shared list, the copy,
   with the article in it, replaces the map. *)
SetDigestInfo(t) ==
  /\ thread[t].at = "hold"
  /\ thread[t].msg.kind = "unit"
  /\ LET s == thread[t].fd
         u == thread[t].msg
     IN  /\ list' = [list EXCEPT ![s][u.article] = Append(@, u.id)]
         /\ known' = [known EXCEPT ![s] = thread[t].info_map \cup {u.article}]
         /\ log' = [log EXCEPT ![s] = Append(@, u)]
  /\ thread' = [thread EXCEPT ![t] = Idle]
  /\ lock' = {}
  /\ UNCHANGED << conn, sent, inbox, replies >>

(* Analyzer: no digest of an empty text, and it may fail on any other. *)
Analyzer(units) == IF units = <<>> THEN {FALSE} ELSE BOOLEAN

(* CreatFullText empties the shared list. *)
DrainsDescriptor(l, s, a) == [l EXCEPT ![s] = <<>>]
KeepsUnits(l, s, a) == l
Drained(l, s, a) == [l EXCEPT ![s][a] = <<>>]

(* The rest of CreateDigest: the entry is erased from the copy only, and the
   text is taken out of the shared list. *)
CreateDigest(t) ==
  /\ thread[t].at = "hold"
  /\ thread[t].msg.kind = "end"
  /\ LET s     == thread[t].fd
         a     == thread[t].msg.article
         found == a \in thread[t].info_map
         units == IF found THEN list[s][a] ELSE <<>>
     IN  /\ list' = IF found THEN Drained(list, s, a) ELSE list
         /\ \E made \in IF found THEN Analyzer(units) ELSE {FALSE} :
              thread' = [thread EXCEPT ![t] =
                [at |-> "reply", fd |-> s,
                 reply |-> [article |-> a, units |-> units, made |-> made]]]
         /\ log' = [log EXCEPT ![s] = Append(@, thread[t].msg)]
  /\ lock' = {}
  /\ UNCHANGED << conn, sent, inbox, known, replies >>

(* The rest of SendDigest, outside the lock: the digest, or the text that  *)
(* stands for none, goes to whoever has the descriptor now.                *)
ReplyOnlyIfMade(t) ==
  /\ thread[t].at = "reply"
  /\ thread[t].reply.made
  /\ replies' = [replies EXCEPT ![thread[t].fd] = Append(@, thread[t].reply)]
  /\ thread' = [thread EXCEPT ![t] = Idle]
  /\ UNCHANGED << conn, sent, inbox, lock, known, list, log >>

SendDigest(t) ==
  /\ thread[t].at = "reply"
  /\ replies' = [replies EXCEPT ![thread[t].fd] = Append(@, thread[t].reply)]
  /\ thread' = [thread EXCEPT ![t] = Idle]
  /\ UNCHANGED << conn, sent, inbox, lock, known, list, log >>

Client(s) == Send(s) \/ Reconnect(s)
Handle(t) == Acquire(t) \/ SetDigestInfo(t) \/ CreateDigest(t) \/ SendDigest(t)
Work(t)   == Handle(t) \/ \E s \in Sockets : Dispatch(t, s)

Next == (\E s \in Sockets : Client(s)) \/ (\E t \in Threads : Work(t))

(* A worker that has been given a message goes on with it; the clients and
   the framework's dispatching are under no obligation. *)
Spec == Init /\ [][Next]_vars /\ \A t \in Threads : WF_vars(Handle(t))

-----------------------------------------------------------------------------
IsEnd(m, a)  == m.kind = "end" /\ m.article = a
IsUnit(m, a) == m.kind = "unit" /\ m.article = a

(* The units of a among the messages l before the k-th one and after the   *)
(* last end of a before it: their positions, and their ids in this order.  *)
Since(l, a, k) ==
  {j \in 1 .. k - 1 : /\ IsUnit(l[j], a)
                      /\ \A i \in j + 1 .. k - 1 : ~IsEnd(l[i], a)}

Rank(S, j) == Cardinality({i \in S : i <= j})
Nth(S, n)  == CHOOSE j \in S : Rank(S, j) = n

UnitsOf(l, a, k) ==
  [n \in 1 .. Cardinality(Since(l, a, k)) |-> l[Nth(Since(l, a, k), n)].id]

UnitsBefore(s, a, k) == UnitsOf(log[s], a, k)

Ends(s, a) == {k \in 1 .. Len(log[s]) : IsEnd(log[s][k], a)}

(* The replies for a on s, sent or about to be. *)
Answers(s, a, units) ==
    Cardinality({i \in 1 .. Len(replies[s]) :
       /\ replies[s][i].article = a
       /\ replies[s][i].units = units})
  + Cardinality({t \in Threads :
       /\ thread[t].at = "reply" /\ thread[t].fd = s
       /\ thread[t].reply.article = a
       /\ thread[t].reply.units = units})

(* Each end of an article is answered once, from exactly the units of that *)
(* article handled on that descriptor since its last end, in their order:  *)
(* although maps are copied and written back and the list is shared by the *)
(* copies, no unit is lost, digested twice or digested with another        *)
(* article, however many workers there are.                                *)
RepliesExact ==
  \A s \in Sockets, a \in Articles :
    LET units == [k \in Ends(s, a) |-> UnitsBefore(s, a, k)]
    IN  \A k \in Ends(s, a) :
          Answers(s, a, units[k]) = Cardinality({j \in Ends(s, a) : units[j] = units[k]})

(* Between two ends the cache holds exactly the units handled since the    *)
(* first, in their order.                                                  *)
CacheExact ==
  \A s \in Sockets, a \in Articles :
    list[s][a] = UnitsBefore(s, a, Len(log[s]) + 1)

(* No unit waits in a list the map of its descriptor does not lead to, so  *)
(* the end of its article will find it, whatever was written back since.   *)
UnitsReachable ==
  \A s \in Sockets, a \in Articles : list[s][a] # <<>> => a \in known[s]

(* The copy of the map a worker is about to write back is the map itself:  *)
(* nobody changed it since the copy was taken.                             *)
CopyFresh ==
  \A t \in Threads :
    thread[t].at = "hold" =>
      /\ lock = {t}
      /\ thread[t].info_map = known[thread[t].fd]

(* A worker that was given a message, whatever happens to the connection,  *)
(* to the analyzer and to the lock, finishes with it.                      *)
WorkersComeBack ==
  \A t \in Threads : thread[t].at # "idle" ~> thread[t].at = "idle"

(* "删除节点值" (delete the node), says CreateDigest: once the end of an    *)
(* article is handled, the cache has no entry for it.                      *)
EndForgets ==
  [][ \A s \in Sockets, a \in Articles :
        Ends(s, a)' # Ends(s, a) => a \notin known'[s] ]_vars

-----------------------------------------------------------------------------
(* Of the workers th, those in one of the places at on a descriptor: what  *)
(* the one busy with it has to do yet, and what it has to send.            *)
WorkersAt(th, at, s) == {t \in Threads : th[t].at \in at /\ th[t].fd = s}

UnderWay(th, s) ==
  LET busy == WorkersAt(th, {"lock", "hold"}, s)
  IN  IF busy = {} THEN <<>> ELSE << th[CHOOSE t \in busy : TRUE].msg >>

Unsent(th, s) ==
  LET busy == WorkersAt(th, {"reply"}, s)
  IN  IF busy = {} THEN <<>> ELSE << th[CHOOSE t \in busy : TRUE].reply >>

Promise == INSTANCE DigestService WITH
             Ids     <- Unit,
             queue   <- [s \in Sockets |-> UnderWay(thread, s) \o inbox[s]],
             pending <- list,
             answers <- [s \in Sockets |-> replies[s] \o Unsent(thread, s)]

(* Where the messages of a connection are handled one at a time, workers,  *)
(* copies and the lock are not to be seen: each message takes effect at    *)
(* once, and in the order of arrival.                                      *)
ImplementsService == Promise!Spec
=============================================================================
