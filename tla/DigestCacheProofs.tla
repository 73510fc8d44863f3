------------------------- MODULE DigestCacheProofs -------------------------
(***************************************************************************)
(* Copying the map of a descriptor and writing it back is safe under the   *)
(* lock of DigestCacheManager, for any number of workers, descriptors and  *)
(* articles and whether or not one connection is handled by several        *)
(* workers at once: nothing is lost, and every end has its reply.  Where   *)
(* it is not, the plugin implements DigestService.                         *)
(***************************************************************************)
EXTENDS DigestCache, SequenceTheorems, FiniteSetTheorems, TLAPS

(* A worker that holds the lock has the only copy, and the copy is the map; *)
(* so writing it back can only add the article of the unit.                 *)
Inv == TypeOK /\ CopyFresh /\ UnitsReachable

-----------------------------------------------------------------------------
(* The empty cache, with every worker idle, satisfies the invariant. *)
LEMMA InitInv == Init => Inv
<1> SUFFICES ASSUME Init PROVE Inv
  OBVIOUS
<1>1. TypeOK
  BY BoundsAssumption, EmptySeq DEF Init, TypeOK, Idle, Worker
<1>2. CopyFresh /\ UnitsReachable
  BY DEF Init, CopyFresh, UnitsReachable, Idle
<1> QED
  BY <1>1, <1>2 DEF Inv

(* Clients that send, close and reconnect do not touch cache, lock or copies. *)
LEMMA ClientInv ==
  ASSUME Inv, NEW s \in Sockets, Client(s)
  PROVE  Inv'
<1>1. TypeOK'
  <2>1. CASE Send(s)
    <3>1. PICK k \in {"unit", "end"}, a \in Articles :
            inbox' = [inbox EXCEPT ![s] = Append(@,
                        [kind |-> k, article |-> a,
                         id |-> [conn |-> conn[s], n |-> sent[s] + 1]])]
      BY <2>1 DEF Send
    <3>2. /\ sent[s] + 1 \in 0 .. MaxMessages /\ sent[s] + 1 \in 1 .. MaxMessages
          /\ conn[s] \in 1 .. MaxConns
      BY <2>1, BoundsAssumption DEF Send, Inv, TypeOK
    <3>3. [kind |-> k, article |-> a,
           id |-> [conn |-> conn[s], n |-> sent[s] + 1]] \in Message
      BY <3>2 DEF Message, Unit
    <3>4. inbox' \in [Sockets -> Seq(Message)]
      BY <3>1, <3>3, AppendProperties DEF Inv, TypeOK
    <3>5. sent' \in [Sockets -> 0 .. MaxMessages]
      BY <2>1, <3>2 DEF Send, Inv, TypeOK
    <3> QED
      BY <2>1, <3>4, <3>5 DEF Send, Inv, TypeOK
  <2>2. CASE Reconnect(s)
    <3>1. conn[s] + 1 \in 1 .. MaxConns
      BY <2>2, BoundsAssumption DEF Reconnect, Inv, TypeOK
    <3>2. /\ conn' \in [Sockets -> 1 .. MaxConns]
          /\ sent' \in [Sockets -> 0 .. MaxMessages]
          /\ inbox' \in [Sockets -> Seq(Message)]
      BY <2>2, <3>1, BoundsAssumption, EmptySeq DEF Reconnect, Inv, TypeOK
    <3> QED
      BY <2>2, <3>2 DEF Reconnect, Inv, TypeOK
  <2> QED
    BY <2>1, <2>2 DEF Client
<1>2. CopyFresh' /\ UnitsReachable'
  BY DEF Client, Send, Reconnect, Inv, CopyFresh, UnitsReachable
<1> QED
  BY <1>1, <1>2 DEF Inv

(* OnDigestMessage gives an idle worker a message; it has no copy yet. *)
LEMMA DispatchInv ==
  ASSUME Inv, NEW t \in Threads, NEW s \in Sockets, Dispatch(t, s)
  PROVE  Inv'
<1>1. Head(inbox[s]) \in Message /\ Tail(inbox[s]) \in Seq(Message)
  BY HeadTailProperties DEF Dispatch, Inv, TypeOK
<1>2. [at |-> "lock", fd |-> s, msg |-> Head(inbox[s])] \in Worker
  BY <1>1 DEF Worker
<1>3. TypeOK'
  <2>1. thread' \in [Threads -> Worker] /\ inbox' \in [Sockets -> Seq(Message)]
    BY <1>1, <1>2 DEF Dispatch, Inv, TypeOK
  <2> QED
    BY <2>1 DEF Dispatch, Inv, TypeOK
<1>4. CopyFresh'
  BY DEF Dispatch, Inv, TypeOK, CopyFresh
<1>5. UnitsReachable'
  BY DEF Dispatch, Inv, UnitsReachable
<1> QED
  BY <1>3, <1>4, <1>5 DEF Inv

(* The copy is taken with the lock, so it is the map and the only copy. *)
LEMMA AcquireInv ==
  ASSUME Inv, NEW t \in Threads, Acquire(t)
  PROVE  Inv'
<1>1. PICK w : w = thread[t]
  OBVIOUS
<1>2. /\ w \in Worker /\ w.at = "lock" /\ lock = {} /\ lock' = {t}
      /\ thread' = [thread EXCEPT ![t] =
           [at |-> "hold", fd |-> w.fd, msg |-> w.msg,
            info_map |-> known[w.fd]]]
      /\ thread \in [Threads -> Worker]
  BY <1>1 DEF Acquire, Inv, TypeOK
<1>3. w.fd \in Sockets /\ w.msg \in Message
  BY <1>2 DEF Worker
<1>4. known[w.fd] \in SUBSET Articles
  BY <1>3 DEF Inv, TypeOK
<1>5. thread' \in [Threads -> Worker]
  BY <1>2, <1>3, <1>4 DEF Worker
<1>6. TypeOK'
  BY <1>2, <1>5 DEF Acquire, Inv, TypeOK
<1>7. CopyFresh'
  <2>1. \A u \in Threads : thread[u].at # "hold"
    BY <1>2 DEF Inv, CopyFresh
  <2> QED
    BY <1>2, <2>1 DEF Acquire, CopyFresh
<1>8. UnitsReachable'
  BY DEF Acquire, Inv, UnitsReachable
<1> QED
  BY <1>6, <1>7, <1>8 DEF Inv

(* Writing the copy back adds one article and loses none: the copy is the map. *)
LEMMA SetDigestInfoInv ==
  ASSUME Inv, NEW t \in Threads, SetDigestInfo(t)
  PROVE  Inv'
<1>1. PICK w, s, u, a : w = thread[t] /\ s = w.fd /\ u = w.msg /\ a = u.article
  OBVIOUS
<1>2. /\ w.at = "hold"
      /\ list' = [list EXCEPT ![s][a] = Append(@, u.id)]
      /\ known' = [known EXCEPT ![s] = w.info_map \cup {a}]
      /\ log' = [log EXCEPT ![s] = Append(@, u)]
      /\ thread' = [thread EXCEPT ![t] = Idle]
      /\ lock' = {}
      /\ conn' = conn /\ sent' = sent /\ inbox' = inbox /\ replies' = replies
  BY <1>1 DEF SetDigestInfo
<1>3. s \in Sockets /\ u \in Message /\ a \in Articles /\ u.id \in Unit
  <2>1. w \in Worker
    BY <1>1 DEF Inv, TypeOK
  <2>2. s \in Sockets /\ u \in Message
    BY <1>1, <1>2, <2>1 DEF Worker
  <2> QED
    BY <1>1, <2>2 DEF Message
<1>4. w.info_map = known[s] /\ \A v \in Threads : thread[v].at = "hold" => v = t
  BY <1>1, <1>2 DEF Inv, CopyFresh
<1>5. TypeOK'
  <2>1. Append(list[s][a], u.id) \in Seq(Unit) /\ Append(log[s], u) \in Seq(Message)
    BY <1>3, AppendProperties DEF Inv, TypeOK
  <2>2. list' \in [Sockets -> [Articles -> Seq(Unit)]]
    BY <1>2, <1>3, <2>1 DEF Inv, TypeOK
  <2>3. log' \in [Sockets -> Seq(Message)]
    BY <1>2, <1>3, <2>1 DEF Inv, TypeOK
  <2>4. known' \in [Sockets -> SUBSET Articles]
    BY <1>2, <1>3, <1>4 DEF Inv, TypeOK
  <2>5. thread' \in [Threads -> Worker]
    BY <1>2 DEF Inv, TypeOK, Worker, Idle
  <2> QED
    BY <1>2, <2>2, <2>3, <2>4, <2>5 DEF Inv, TypeOK
<1>6. CopyFresh'
  BY <1>2, <1>4 DEF Inv, TypeOK, CopyFresh, Idle
<1>7. UnitsReachable'
  BY <1>2, <1>3, <1>4 DEF Inv, TypeOK, UnitsReachable
<1> QED
  BY <1>5, <1>6, <1>7 DEF Inv

(* Emptying a list leaves the map, and the lists of other articles, alone. *)
LEMMA CreateDigestInv ==
  ASSUME Inv, NEW t \in Threads, CreateDigest(t)
  PROVE  Inv'
<1>0. PICK w, s, a, units, m :
        /\ w = thread[t] /\ s = w.fd /\ m = w.msg /\ a = m.article
        /\ units = IF a \in w.info_map THEN list[s][a] ELSE <<>>
  OBVIOUS
<1>1. PICK made \in BOOLEAN :
        thread' = [thread EXCEPT ![t] =
          [at |-> "reply", fd |-> s,
           reply |-> [article |-> a, units |-> units, made |-> made]]]
  <2>1. Analyzer(units) \subseteq BOOLEAN
    BY DEF Analyzer
  <2> QED
    BY <1>0, <2>1 DEF CreateDigest
<1>2. /\ w.at = "hold"
      /\ list' = list \/ list' = [list EXCEPT ![s][a] = <<>>]
      /\ log' = [log EXCEPT ![s] = Append(@, m)]
      /\ lock' = {} /\ known' = known
      /\ conn' = conn /\ sent' = sent /\ inbox' = inbox /\ replies' = replies
  BY <1>0 DEF CreateDigest, Drained
<1>3. s \in Sockets /\ m \in Message /\ a \in Articles
  <2>1. w \in Worker
    BY <1>0 DEF Inv, TypeOK
  <2>2. s \in Sockets /\ m \in Message
    BY <1>0, <1>2, <2>1 DEF Worker
  <2> QED
    BY <1>0, <2>2 DEF Message
<1>4. \A v \in Threads : thread[v].at = "hold" => v = t
  BY <1>0, <1>2 DEF Inv, CopyFresh
<1>5. TypeOK'
  <2>1. Append(log[s], m) \in Seq(Message)
    BY <1>3, AppendProperties DEF Inv, TypeOK
  <2>2. list' \in [Sockets -> [Articles -> Seq(Unit)]]
    <3>1. list \in [Sockets -> [Articles -> Seq(Unit)]]
      BY DEF Inv, TypeOK
    <3>2. <<>> \in Seq(Unit)
      BY EmptySeq
    <3>3. [list[s] EXCEPT ![a] = <<>>] \in [Articles -> Seq(Unit)]
      BY <1>3, <3>1, <3>2
    <3> QED
      BY <1>2, <1>3, <3>1, <3>3
  <2>3. log' \in [Sockets -> Seq(Message)]
    BY <1>2, <1>3, <2>1 DEF Inv, TypeOK
  <2>4. units \in Seq(Unit)
    BY <1>0, <1>3, EmptySeq DEF Inv, TypeOK
  <2>5. [article |-> a, units |-> units, made |-> made] \in Reply
    BY <1>1, <1>3, <2>4 DEF Reply
  <2>6. thread' \in [Threads -> Worker]
    BY <1>1, <1>3, <2>5 DEF Inv, TypeOK, Worker
  <2> QED
    BY <1>2, <2>2, <2>3, <2>6 DEF Inv, TypeOK
<1>6. CopyFresh'
  BY <1>1, <1>2, <1>4 DEF Inv, TypeOK, CopyFresh
<1>7. UnitsReachable'
  <2>1. list \in [Sockets -> [Articles -> Seq(Unit)]]
    BY DEF Inv, TypeOK
  <2>2. \A q \in Sockets, b \in Articles :
          list'[q][b] = list[q][b] \/ list'[q][b] = <<>>
    BY <1>2, <1>3, <2>1
  <2> QED
    BY <1>2, <2>2 DEF Inv, UnitsReachable
<1> QED
  BY <1>5, <1>6, <1>7 DEF Inv

(* Sending the digest happens outside the lock and leaves the cache alone. *)
LEMMA SendDigestInv ==
  ASSUME Inv, NEW t \in Threads, SendDigest(t)
  PROVE  Inv'
<1>1. PICK w : w = thread[t]
  OBVIOUS
<1>2. w.fd \in Sockets /\ w.reply \in Reply
  <2>1. w \in Worker /\ w.at = "reply"
    BY <1>1 DEF SendDigest, Inv, TypeOK
  <2> QED
    BY <2>1 DEF Worker
<1>3. TypeOK'
  <2>1. replies' \in [Sockets -> Seq(Reply)]
    BY <1>1, <1>2, AppendProperties DEF SendDigest, Inv, TypeOK
  <2>2. thread' \in [Threads -> Worker]
    BY DEF SendDigest, Inv, TypeOK, Worker, Idle
  <2> QED
    BY <2>1, <2>2 DEF SendDigest, Inv, TypeOK
<1>4. CopyFresh' /\ UnitsReachable'
  BY DEF SendDigest, Inv, TypeOK, CopyFresh, UnitsReachable, Idle
<1> QED
  BY <1>3, <1>4 DEF Inv

-----------------------------------------------------------------------------
(* Every step of clients and workers keeps the invariant. *)
LEMMA StepInv == Inv /\ [Next]_vars => Inv'
<1> SUFFICES ASSUME Inv, [Next]_vars
             PROVE  Inv'
  OBVIOUS
<1>1. CASE \E s \in Sockets : Client(s)
  BY <1>1, ClientInv
<1>2. CASE \E t \in Threads : Work(t)
  BY <1>2, DispatchInv, AcquireInv, SetDigestInfoInv, CreateDigestInv, SendDigestInv
     DEF Work, Handle
<1>3. CASE UNCHANGED vars
  BY <1>3 DEF vars, Inv, TypeOK, CopyFresh, UnitsReachable
<1> QED
  BY <1>1, <1>2, <1>3 DEF Next

(* Every state of the plugin satisfies Inv. *)
THEOREM InvHolds == Spec => []Inv
<1> QED
  BY InitInv, StepInv, PTL DEF Spec

(* The plugin keeps every variable in its type: the lock has at most one   *)
(* holder, and a worker with a digest knows the descriptor it is for.      *)
THEOREM TypeCorrect == Spec => []TypeOK
<1>1. Inv => TypeOK
  BY DEF Inv
<1> QED
  BY <1>1, InvHolds, PTL

(* SetDigestInfo never writes back a stale copy of the map. *)
THEOREM NoStaleWriteBack == Spec => []CopyFresh
<1>1. Inv => CopyFresh
  BY DEF Inv
<1> QED
  BY <1>1, InvHolds, PTL

(* A unit that was kept can be found by the end of its article. *)
THEOREM NoOrphanUnits == Spec => []UnitsReachable
<1>1. Inv => UnitsReachable
  BY DEF Inv
<1> QED
  BY <1>1, InvHolds, PTL

-----------------------------------------------------------------------------
(* The ranks in a finite set of numbers: each from 1 on belongs to one.    *)
LEMMA Ranks ==
  ASSUME NEW S \in SUBSET Nat, IsFiniteSet(S)
  PROVE  /\ Cardinality(S) \in Nat
         /\ \A j \in S : Rank(S, j) \in 1 .. Cardinality(S) /\ Nth(S, Rank(S, j)) = j
         /\ \A n \in 1 .. Cardinality(S) : Nth(S, n) \in S /\ Rank(S, Nth(S, n)) = n
<1> DEFINE Low(j) == {i \in S : i <= j}
<1>1. Cardinality(S) \in Nat
  BY FS_CardinalityType
<1>2. \A j \in S : /\ Low(j) \subseteq S /\ IsFiniteSet(Low(j)) /\ j \in Low(j)
                   /\ Cardinality(Low(j)) \in Nat /\ Cardinality(Low(j)) <= Cardinality(S)
  <2> SUFFICES ASSUME NEW j \in S
               PROVE  /\ Low(j) \subseteq S /\ IsFiniteSet(Low(j)) /\ j \in Low(j)
                      /\ Cardinality(Low(j)) \in Nat /\ Cardinality(Low(j)) <= Cardinality(S)
    OBVIOUS
  <2>1. Low(j) \in SUBSET S /\ j \in Low(j)
    OBVIOUS
  <2> HIDE DEF Low
  <2> QED
    BY <2>1, FS_Subset, FS_CardinalityType
<1>3. \A j \in S : Rank(S, j) = Cardinality(Low(j))
  BY DEF Rank
<1>4. \A j \in S : Rank(S, j) \in 1 .. Cardinality(S)
  <2> SUFFICES ASSUME NEW j \in S PROVE Rank(S, j) \in 1 .. Cardinality(S)
    OBVIOUS
  <2> HIDE DEF Low
  <2>1. Cardinality(Low(j)) # 0
    BY <1>2, FS_EmptySet
  <2> QED
    BY <1>1, <1>2, <1>3, <2>1
<1>5. ASSUME NEW i \in S, NEW j \in S, i < j
      PROVE  Rank(S, i) # Rank(S, j)
  <2>1. Low(i) \in SUBSET Low(j) /\ j \in Low(j) /\ j \notin Low(i)
    <3>1. i \in Nat /\ j \in Nat /\ i < j
      BY <1>5
    <3>2. \A k \in S : k \in Nat /\ (k <= i => k <= j)
      BY <3>1
    <3>3. \A k \in Low(i) : k \in Low(j)
      BY <3>2
    <3>4. j \in Low(j) /\ ~(j <= i)
      BY <3>1
    <3>5. j \notin Low(i)
      BY <3>4
    <3> QED
      BY <3>3, <3>4, <3>5
  <2> HIDE DEF Low
  <2>2. Cardinality(Low(i)) = Cardinality(Low(j)) => Low(i) = Low(j)
    BY <1>2, <2>1, FS_Subset
  <2> QED
    BY <1>3, <2>1, <2>2
<1>6. \A i, j \in S : Rank(S, i) = Rank(S, j) => i = j
  <2> SUFFICES ASSUME NEW i \in S, NEW j \in S, i # j
               PROVE  Rank(S, i) # Rank(S, j)
    OBVIOUS
  <2>1. i \in Nat /\ j \in Nat
    OBVIOUS
  <2>2. i < j \/ j < i
    BY <2>1
  <2> QED
    BY <1>5, <2>2
<1>7. \A n \in 1 .. Cardinality(S) : \E j \in S : Rank(S, j) = n
  <2> DEFINE T == 1 .. Cardinality(S)
             f == [j \in S |-> Rank(S, j)]
  <2>1. f \in Injection(S, T)
    BY <1>4, <1>6 DEF Injection, IsInjective
  <2>2. IsFiniteSet(T) /\ Cardinality(T) = Cardinality(S)
    BY <1>1, FS_Interval
  <2>3. f \in Surjection(S, T)
    <3> HIDE DEF f, T
    <3> QED
      BY <2>1, <2>2, FS_Injection
  <2>4. \A n \in T : \E j \in S : f[j] = n
    BY <2>3 DEF Surjection
  <2> QED
    BY <2>4
<1>8. \A n \in 1 .. Cardinality(S) : Nth(S, n) \in S /\ Rank(S, Nth(S, n)) = n
  BY <1>7 DEF Nth
<1>9. \A j \in S : Nth(S, Rank(S, j)) = j
  BY <1>4, <1>6, <1>8
<1> QED
  BY <1>1, <1>4, <1>8, <1>9

(* A number above all others comes last and leaves their ranks alone.      *)
LEMMA LastRank ==
  ASSUME NEW S \in SUBSET Nat, IsFiniteSet(S), NEW m \in Nat, \A i \in S : i < m
  PROVE  /\ S \cup {m} \in SUBSET Nat /\ IsFiniteSet(S \cup {m})
         /\ Cardinality(S \cup {m}) = Cardinality(S) + 1
         /\ Nth(S \cup {m}, Cardinality(S) + 1) = m
         /\ \A n \in 1 .. Cardinality(S) : Nth(S \cup {m}, n) = Nth(S, n)
<1> DEFINE R == S \cup {m}
<1>1. R \in SUBSET Nat /\ IsFiniteSet(R) /\ Cardinality(R) = Cardinality(S) + 1
  BY FS_AddElement
<1>2. Rank(R, m) = Cardinality(R)
  <2>1. \A i \in R : i <= m
    OBVIOUS
  <2>2. {i \in R : i <= m} = R
    BY <2>1
  <2> QED
    BY <2>2 DEF Rank
<1>3. \A j \in S : Rank(R, j) = Rank(S, j)
  <2> SUFFICES ASSUME NEW j \in S PROVE Rank(R, j) = Rank(S, j)
    OBVIOUS
  <2>1. j \in Nat /\ j < m
    OBVIOUS
  <2>2. {i \in R : i <= j} = {i \in S : i <= j}
    BY <2>1
  <2> QED
    BY <2>2 DEF Rank
<1>4. m \in R /\ S \subseteq R
  OBVIOUS
<1> HIDE DEF R
<1>5. Nth(R, Cardinality(R)) = m
  BY <1>1, <1>2, <1>4, Ranks
<1>6. ASSUME NEW n \in 1 .. Cardinality(S)
      PROVE  Nth(R, n) = Nth(S, n)
  <2>1. Nth(S, n) \in S /\ Rank(S, Nth(S, n)) = n
    BY Ranks
  <2>2. Nth(S, n) \in R /\ Rank(R, Nth(S, n)) = n
    BY <1>3, <1>4, <2>1
  <2>3. \A j \in R : Nth(R, Rank(R, j)) = j
    BY <1>1, Ranks
  <2> QED
    BY <2>2, <2>3
<1> QED
  BY <1>1, <1>5, <1>6 DEF R

(* The units of an article lie among the messages. *)
LEMMA SinceType ==
  ASSUME NEW l \in Seq(Message), NEW a, NEW k \in Nat, k <= Len(l) + 1
  PROVE  /\ Since(l, a, k) \in SUBSET Nat /\ IsFiniteSet(Since(l, a, k))
         /\ \A j \in Since(l, a, k) : j \in 1 .. Len(l) /\ j < k
<1>1. k - 1 \in Int /\ IsFiniteSet(1 .. k - 1)
  BY FS_Interval
<1>2. Len(l) \in Nat
  OBVIOUS
<1>3. Since(l, a, k) \subseteq 1 .. k - 1
  BY DEF Since
<1>4. IsFiniteSet(Since(l, a, k))
  BY <1>1, <1>3, FS_Subset
<1>5. \A j \in 1 .. k - 1 : j \in Nat /\ j \in 1 .. Len(l) /\ j < k
  BY <1>2
<1> QED
  BY <1>3, <1>4, <1>5

(* A message at the end changes nothing about those before. *)
LEMMA UnitsOld ==
  ASSUME NEW l \in Seq(Message), NEW m \in Message, NEW a, NEW k \in 1 .. Len(l) + 1
  PROVE  UnitsOf(Append(l, m), a, k) = UnitsOf(l, a, k)
<1> DEFINE r == Append(l, m)
           S == Since(l, a, k)
<1>1. r \in Seq(Message) /\ Len(r) = Len(l) + 1 /\ Len(l) \in Nat
      /\ \A j \in 1 .. Len(l) : r[j] = l[j]
  BY AppendProperties
<1> HIDE DEF r
<1>2. \A j \in 1 .. k - 1 : r[j] = l[j]
  BY <1>1
<1>3. Since(r, a, k) = S
  BY <1>2 DEF Since
<1>4. \A n \in 1 .. Cardinality(S) : r[Nth(S, n)] = l[Nth(S, n)]
  <2>1. S \in SUBSET Nat /\ IsFiniteSet(S) /\ \A j \in S : j \in 1 .. Len(l)
    BY SinceType
  <2> HIDE DEF S
  <2> QED
    BY <1>1, <2>1, Ranks
<1> HIDE DEF S
<1>5. UnitsOf(r, a, k) = [n \in 1 .. Cardinality(S) |-> r[Nth(S, n)].id]
      /\ UnitsOf(l, a, k) = [n \in 1 .. Cardinality(S) |-> l[Nth(S, n)].id]
  BY <1>3 DEF UnitsOf, S
<1> QED
  BY <1>4, <1>5 DEF r

(* A unit of the article comes last, other messages do not matter, and     *)
(* nothing is left after an end.                                           *)
LEMMA UnitsNew ==
  ASSUME NEW l \in Seq(Message), NEW m \in Message, NEW a
  PROVE  /\ UnitsOf(Append(l, m), a, Len(l) + 2) =
              IF IsEnd(m, a) THEN <<>>
              ELSE IF IsUnit(m, a) THEN Append(UnitsOf(l, a, Len(l) + 1), m.id)
              ELSE UnitsOf(l, a, Len(l) + 1)
         /\ UnitsOf(l, a, Len(l) + 1) \in Seq(Unit)
<1> DEFINE r == Append(l, m)
           k == Len(l) + 1
           S == Since(l, a, k)
           T == Since(r, a, k + 1)
           u == UnitsOf(l, a, k)
<1>1. /\ r \in Seq(Message) /\ Len(r) = k /\ Len(l) \in Nat /\ r[k] = m
      /\ \A j \in 1 .. Len(l) : r[j] = l[j]
  BY AppendProperties
<1> HIDE DEF r
<1>2. S \in SUBSET Nat /\ IsFiniteSet(S) /\ \A j \in S : j \in 1 .. Len(l) /\ j < k
  BY SinceType, <1>1
<1>3. Cardinality(S) \in Nat /\ \A n \in 1 .. Cardinality(S) : Nth(S, n) \in 1 .. Len(l)
  <2> HIDE DEF S, k
  <2> QED
    BY <1>2, Ranks
<1>4. u = [n \in 1 .. Cardinality(S) |-> l[Nth(S, n)].id]
  BY DEF UnitsOf
<1>5. u \in Seq(Unit) /\ Len(u) = Cardinality(S)
  <2>1. \A n \in 1 .. Cardinality(S) : l[Nth(S, n)].id \in Unit
    <3> SUFFICES ASSUME NEW n \in 1 .. Cardinality(S) PROVE l[Nth(S, n)].id \in Unit
      OBVIOUS
    <3>1. l[Nth(S, n)] \in Message
      BY <1>3, ElementOfSeq
    <3> QED
      BY <3>1 DEF Message
  <2> HIDE DEF u, S
  <2> QED
    BY <1>3, <1>4, <2>1
<1>6. k \in Nat /\ k + 1 = Len(l) + 2 /\ (k + 1) - 1 = k /\ k - 1 = Len(l)
  BY <1>1
<1>7. UnitsOf(r, a, k + 1) = [n \in 1 .. Cardinality(T) |-> r[Nth(T, n)].id]
  BY DEF UnitsOf
<1>8. CASE IsEnd(m, a)
  <2>1. T = {}
    <3> SUFFICES ASSUME NEW j \in 1 .. k, IsUnit(r[j], a), \A i \in j + 1 .. k : ~IsEnd(r[i], a)
                 PROVE  FALSE
      BY <1>6 DEF Since
    <3>1. CASE j = k
      BY <1>1, <1>8, <3>1 DEF IsEnd, IsUnit
    <3>2. CASE j # k
      <4>1. k \in j + 1 .. k
        BY <1>6, <3>2
      <4> QED
        BY <1>1, <1>8, <4>1
    <3> QED
      BY <3>1, <3>2
  <2>2. Cardinality(T) = 0
    BY <2>1, FS_EmptySet
  <2> HIDE DEF T
  <2>3. UnitsOf(r, a, k + 1) = <<>>
    BY <1>7, <2>2
  <2> QED
    BY <1>5, <1>6, <1>8, <2>3 DEF r
<1>9. CASE ~IsEnd(m, a) /\ IsUnit(m, a)
  <2>1. T = S \cup {k}
    <3>1. ASSUME NEW j \in 1 .. k
          PROVE  j \in T <=> j \in S \/ j = k
      <4>1. CASE j = k
        BY <1>1, <1>6, <1>9, <4>1 DEF Since
      <4>2. CASE j # k
        <5>1. j \in 1 .. Len(l) /\ r[j] = l[j] /\ j \in 1 .. k - 1
          BY <1>1, <4>2
        <5>2. (\A i \in j + 1 .. k : ~IsEnd(r[i], a)) <=> (\A i \in j + 1 .. k - 1 : ~IsEnd(l[i], a))
          <6>1. \A i \in j + 1 .. k - 1 : i \in j + 1 .. k /\ r[i] = l[i]
            BY <1>1, <5>1
          <6>2. \A i \in j + 1 .. k : i \in j + 1 .. k - 1 \/ i = k
            BY <1>1
          <6> QED
            BY <1>1, <1>9, <6>1, <6>2
        <5> QED
          BY <1>6, <4>2, <5>1, <5>2 DEF Since
      <4> QED
        BY <4>1, <4>2
    <3>2. T \subseteq 1 .. k /\ S \subseteq 1 .. k /\ k \in 1 .. k
      BY <1>1, <1>6 DEF Since
    <3> QED
      BY <3>1, <3>2
  <2>2. /\ Cardinality(T) = Cardinality(S) + 1 /\ Nth(T, Cardinality(S) + 1) = k
        /\ \A n \in 1 .. Cardinality(S) : Nth(T, n) = Nth(S, n)
    <3> HIDE DEF S, T, k
    <3> QED
      BY <1>2, <1>6, <2>1, LastRank
  <2> HIDE DEF S, T, u
  <2>3. \A n \in 1 .. Cardinality(S) : r[Nth(T, n)].id = u[n]
    BY <1>1, <1>3, <1>4, <2>2
  <2>4. r[Nth(T, Cardinality(S) + 1)].id = m.id
    BY <1>1, <2>2
  <2>5. UnitsOf(r, a, k + 1) = [n \in 1 .. Cardinality(S) + 1 |->
                                  IF n = Cardinality(S) + 1 THEN m.id ELSE u[n]]
    <3>1. \A n \in 1 .. Cardinality(S) + 1 :
            r[Nth(T, n)].id = IF n = Cardinality(S) + 1 THEN m.id ELSE u[n]
      <4> SUFFICES ASSUME NEW n \in 1 .. Cardinality(S) + 1, n # Cardinality(S) + 1
                   PROVE  r[Nth(T, n)].id = u[n]
        BY <2>4
      <4>1. n \in 1 .. Cardinality(S)
        BY <1>3
      <4> QED
        BY <2>3, <4>1
    <3> QED
      BY <1>7, <2>2, <3>1
  <2>6. m.id \in Unit
    BY DEF Message
  <2>7. Append(u, m.id) = [n \in 1 .. Cardinality(S) + 1 |->
                             IF n = Cardinality(S) + 1 THEN m.id ELSE u[n]]
    BY <1>3, <1>5, <2>6
  <2> QED
    BY <1>5, <1>6, <1>9, <2>5, <2>7 DEF r, u
<1>10. CASE ~IsEnd(m, a) /\ ~IsUnit(m, a)
  <2>1. T = S
    <3>1. ASSUME NEW j \in 1 .. k
          PROVE  j \in T <=> j \in S
      <4>1. CASE j = k
        BY <1>1, <1>6, <1>10, <4>1 DEF Since
      <4>2. CASE j # k
        <5>1. j \in 1 .. Len(l) /\ r[j] = l[j] /\ j \in 1 .. k - 1
          BY <1>1, <4>2
        <5>2. (\A i \in j + 1 .. k : ~IsEnd(r[i], a)) <=> (\A i \in j + 1 .. k - 1 : ~IsEnd(l[i], a))
          <6>1. \A i \in j + 1 .. k - 1 : i \in j + 1 .. k /\ r[i] = l[i]
            BY <1>1, <5>1
          <6>2. \A i \in j + 1 .. k : i \in j + 1 .. k - 1 \/ i = k
            BY <1>1
          <6> QED
            BY <1>1, <1>10, <6>1, <6>2
        <5> QED
          BY <1>6, <4>2, <5>1, <5>2 DEF Since
      <4> QED
        BY <4>1, <4>2
    <3>2. T \subseteq 1 .. k /\ S \subseteq 1 .. k
      BY <1>1, <1>6 DEF Since
    <3> QED
      BY <3>1, <3>2
  <2> HIDE DEF S, T
  <2>2. \A n \in 1 .. Cardinality(S) : r[Nth(T, n)] = l[Nth(S, n)]
    BY <1>1, <1>3, <2>1
  <2>3. UnitsOf(r, a, k + 1) = u
    BY <1>4, <1>7, <2>1, <2>2
  <2> QED
    BY <1>5, <1>6, <1>10, <2>3 DEF r
<1> QED
  BY <1>8, <1>9, <1>10

-----------------------------------------------------------------------------
(* Only a worker with the lock changes a list or the order of messages. *)
LEMMA CacheSame == CacheExact /\ list' = list /\ log' = log => CacheExact'
  BY DEF CacheExact, UnitsBefore

(* The empty cache holds the units of no message. *)
LEMMA CacheInit == Init => CacheExact
<1> SUFFICES ASSUME Init, NEW s \in Sockets, NEW a \in Articles
             PROVE  list[s][a] = UnitsBefore(s, a, Len(log[s]) + 1)
  BY DEF CacheExact
<1>1. list[s][a] = <<>> /\ log[s] = <<>> /\ Len(log[s]) + 1 = 1
  BY DEF Init
<1>2. Since(<<>>, a, 1) = {}
  BY DEF Since
<1>3. UnitsOf(<<>>, a, 1) = <<>>
  BY <1>2, FS_EmptySet DEF UnitsOf
<1> QED
  BY <1>1, <1>3 DEF UnitsBefore

(* SetDigestInfo adds the unit that is handled to the list of its article. *)
LEMMA CacheKeeps ==
  ASSUME Inv, CacheExact, NEW t \in Threads, SetDigestInfo(t)
  PROVE  CacheExact'
<1>1. PICK s, u, b : s = thread[t].fd /\ u = thread[t].msg /\ b = u.article
  OBVIOUS
<1>2. /\ list' = [list EXCEPT ![s][b] = Append(@, u.id)]
      /\ log' = [log EXCEPT ![s] = Append(@, u)]
      /\ u.kind = "unit"
  BY <1>1 DEF SetDigestInfo
<1>3. s \in Sockets /\ u \in Message /\ b \in Articles
  <2>1. thread[t] \in Worker /\ thread[t].at = "hold"
    BY DEF SetDigestInfo, Inv, TypeOK
  <2>2. s \in Sockets /\ u \in Message
    BY <1>1, <2>1 DEF Worker
  <2> QED
    BY <1>1, <2>2 DEF Message
<1> SUFFICES ASSUME NEW q \in Sockets, NEW a \in Articles
             PROVE  list'[q][a] = UnitsOf(log'[q], a, Len(log'[q]) + 1)
  BY DEF CacheExact, UnitsBefore
<1>4. /\ list \in [Sockets -> [Articles -> Seq(Unit)]] /\ log \in [Sockets -> Seq(Message)]
      /\ list[q][a] = UnitsOf(log[q], a, Len(log[q]) + 1)
  BY DEF Inv, TypeOK, CacheExact, UnitsBefore
<1>5. CASE q # s
  BY <1>2, <1>3, <1>4, <1>5
<1>6. CASE q = s
  <2>1. log'[q] = Append(log[q], u) /\ Len(log'[q]) + 1 = Len(log[q]) + 2
    BY <1>2, <1>4, <1>6
  <2>2. ~IsEnd(u, a) /\ (IsUnit(u, a) <=> a = b)
    BY <1>1, <1>2 DEF IsEnd, IsUnit
  <2>3. UnitsOf(Append(log[q], u), a, Len(log[q]) + 2)
          = IF a = b THEN Append(list[q][a], u.id) ELSE list[q][a]
    BY <1>3, <1>4, <2>2, UnitsNew
  <2>4. list'[q][a] = IF a = b THEN Append(list[q][a], u.id) ELSE list[q][a]
    BY <1>2, <1>3, <1>4, <1>6
  <2> QED
    BY <2>1, <2>3, <2>4
<1> QED
  BY <1>5, <1>6

(* What CreateDigest takes is the list of the article, whether its copy    *)
(* leads there or not, and it leaves this list empty.                      *)
LEMMA Takes ==
  ASSUME Inv, NEW t \in Threads, CreateDigest(t)
  PROVE  \E s \in Sockets, m \in Message, made \in BOOLEAN :
           /\ thread[t].at = "hold" /\ thread[t].fd = s /\ thread[t].msg = m
           /\ m.kind = "end" /\ m.article \in Articles
           /\ list[s][m.article] = <<>> => ~made
           /\ thread' = [thread EXCEPT ![t] =
                [at |-> "reply", fd |-> s,
                 reply |-> [article |-> m.article, units |-> list[s][m.article], made |-> made]]]
           /\ list' = [list EXCEPT ![s][m.article] = <<>>]
           /\ log' = [log EXCEPT ![s] = Append(@, m)]
           /\ inbox' = inbox /\ replies' = replies
<1>1. PICK w, s, m, a, units :
        /\ w = thread[t] /\ s = w.fd /\ m = w.msg /\ a = m.article
        /\ units = IF a \in w.info_map THEN list[s][a] ELSE <<>>
  OBVIOUS
<1>2. PICK made \in IF a \in w.info_map THEN Analyzer(units) ELSE {FALSE} :
        thread' = [thread EXCEPT ![t] =
          [at |-> "reply", fd |-> s,
           reply |-> [article |-> a, units |-> units, made |-> made]]]
  BY <1>1 DEF CreateDigest
<1>3. /\ w.at = "hold" /\ m.kind = "end"
      /\ list' = IF a \in w.info_map THEN [list EXCEPT ![s][a] = <<>>] ELSE list
      /\ log' = [log EXCEPT ![s] = Append(@, m)]
      /\ inbox' = inbox /\ replies' = replies
  BY <1>1 DEF CreateDigest, Drained
<1>4. s \in Sockets /\ m \in Message /\ a \in Articles
  <2>1. w \in Worker
    BY <1>1 DEF Inv, TypeOK
  <2>2. s \in Sockets /\ m \in Message
    BY <1>1, <1>3, <2>1 DEF Worker
  <2> QED
    BY <1>1, <2>2 DEF Message
<1>5. list \in [Sockets -> [Articles -> Seq(Unit)]]
  BY DEF Inv, TypeOK
<1>6. a \notin w.info_map => list[s][a] = <<>>
  BY <1>1, <1>3, <1>4 DEF Inv, CopyFresh, UnitsReachable
<1>7. units = list[s][a]
  BY <1>1, <1>6
<1>8. list' = [list EXCEPT ![s][a] = <<>>]
  <2>1. CASE a \in w.info_map
    BY <1>3, <2>1
  <2>2. CASE a \notin w.info_map
    <3>1. list[s] \in [Articles -> Seq(Unit)] /\ [list[s] EXCEPT ![a] = <<>>] = list[s]
      BY <1>4, <1>5, <1>6, <2>2
    <3> QED
      BY <1>3, <1>4, <1>5, <2>2, <3>1
  <2> QED
    BY <2>1, <2>2
<1>9. made \in BOOLEAN /\ (list[s][a] = <<>> => ~made)
  BY <1>1, <1>2, <1>7 DEF Analyzer
<1> QED
  BY <1>1, <1>2, <1>3, <1>4, <1>7, <1>8, <1>9

(* The end of an article leaves none of its units and all of the others'. *)
LEMMA CacheDrains ==
  ASSUME Inv, CacheExact, NEW t \in Threads, CreateDigest(t)
  PROVE  CacheExact'
<1>1. PICK s \in Sockets, m \in Message :
        /\ m.kind = "end" /\ m.article \in Articles
        /\ list' = [list EXCEPT ![s][m.article] = <<>>]
        /\ log' = [log EXCEPT ![s] = Append(@, m)]
  BY Takes
<1> SUFFICES ASSUME NEW q \in Sockets, NEW a \in Articles
             PROVE  list'[q][a] = UnitsOf(log'[q], a, Len(log'[q]) + 1)
  BY DEF CacheExact, UnitsBefore
<1>2. /\ list \in [Sockets -> [Articles -> Seq(Unit)]] /\ log \in [Sockets -> Seq(Message)]
      /\ list[q][a] = UnitsOf(log[q], a, Len(log[q]) + 1)
  BY DEF Inv, TypeOK, CacheExact, UnitsBefore
<1>3. CASE q # s
  BY <1>1, <1>2, <1>3
<1>4. CASE q = s
  <2>1. log'[q] = Append(log[q], m) /\ Len(log'[q]) + 1 = Len(log[q]) + 2
    BY <1>1, <1>2, <1>4
  <2>2. ~IsUnit(m, a) /\ (IsEnd(m, a) <=> a = m.article)
    BY <1>1 DEF IsEnd, IsUnit
  <2>3. UnitsOf(Append(log[q], m), a, Len(log[q]) + 2)
          = IF a = m.article THEN <<>> ELSE list[q][a]
    BY <1>2, <2>2, UnitsNew
  <2>4. list'[q][a] = IF a = m.article THEN <<>> ELSE list[q][a]
    BY <1>1, <1>2, <1>4
  <2> QED
    BY <2>1, <2>3, <2>4
<1> QED
  BY <1>3, <1>4

LEMMA CacheStep == Inv /\ CacheExact /\ [Next]_vars => CacheExact'
<1> SUFFICES ASSUME Inv, CacheExact, [Next]_vars
             PROVE  CacheExact'
  OBVIOUS
<1>1. CASE \E s \in Sockets : Client(s)
  BY <1>1, CacheSame DEF Client, Send, Reconnect
<1>2. ASSUME NEW t \in Threads, Work(t)
      PROVE  CacheExact'
  <2>1. CASE SetDigestInfo(t)
    BY <2>1, CacheKeeps
  <2>2. CASE CreateDigest(t)
    BY <2>2, CacheDrains
  <2>3. CASE Acquire(t) \/ SendDigest(t) \/ \E s \in Sockets : Dispatch(t, s)
    BY <2>3, CacheSame DEF Acquire, SendDigest, Dispatch
  <2> QED
    BY <1>2, <2>1, <2>2, <2>3 DEF Work, Handle
<1>3. CASE UNCHANGED vars
  BY <1>3, CacheSame DEF vars
<1> QED
  BY <1>1, <1>2, <1>3 DEF Next

(* Between two ends the cache holds exactly the units handled since the    *)
(* first, in their order: copying and writing back loses and repeats none, *)
(* however many workers handle the messages of a connection.               *)
THEOREM CacheKept == Spec => []CacheExact
<1> QED
  BY InvHolds, CacheInit, CacheStep, PTL DEF Spec

-----------------------------------------------------------------------------
(* Counting: the ends of an article that ask for these units, the replies  *)
(* sent with them and the workers that owe one.                            *)
AskedFor(l, a, units) ==
  {k \in 1 .. Len(l) : IsEnd(l[k], a) /\ UnitsOf(l, a, k) = units}

Given(rs, a, units) ==
  {i \in 1 .. Len(rs) : rs[i].article = a /\ rs[i].units = units}

Owes(w, s, a, units) ==
  /\ w.at = "reply" /\ w.fd = s
  /\ w.reply.article = a
  /\ w.reply.units = units

Due(th, s, a, units) == {t \in Threads : Owes(th[t], s, a, units)}

(* For any units at all, what was answered or is owed is what was asked.   *)
Accounts ==
  \A s \in Sockets, a \in Articles : \A units :
    Cardinality(Given(replies[s], a, units)) + Cardinality(Due(thread, s, a, units))
      = Cardinality(AskedFor(log[s], a, units))

LEMMA AskedNew ==
  ASSUME NEW l \in Seq(Message), NEW m \in Message, NEW a, NEW units
  PROVE  /\ Cardinality(AskedFor(l, a, units)) \in Nat
         /\ IsEnd(m, a) /\ UnitsOf(l, a, Len(l) + 1) = units =>
              Cardinality(AskedFor(Append(l, m), a, units)) = Cardinality(AskedFor(l, a, units)) + 1
         /\ ~(IsEnd(m, a) /\ UnitsOf(l, a, Len(l) + 1) = units) =>
              Cardinality(AskedFor(Append(l, m), a, units)) = Cardinality(AskedFor(l, a, units))
<1> DEFINE r == Append(l, m)
           k == Len(l) + 1
           A == AskedFor(l, a, units)
           B == AskedFor(r, a, units)
<1>1. /\ Len(r) = k /\ Len(l) \in Nat /\ k \in Nat /\ r[k] = m /\ k \in 1 .. Len(l) + 1
      /\ \A j \in 1 .. Len(l) : r[j] = l[j] /\ j \in 1 .. Len(l) + 1
  BY AppendProperties
<1>2. \A j \in 1 .. k : UnitsOf(r, a, j) = UnitsOf(l, a, j)
  BY UnitsOld
<1> HIDE DEF r
<1>3. IsFiniteSet(A) /\ k \notin A
  <2>1. A \subseteq 1 .. Len(l)
    BY DEF AskedFor
  <2>2. IsFiniteSet(1 .. Len(l)) /\ k \notin 1 .. Len(l)
    BY <1>1, FS_Interval
  <2> HIDE DEF A, k
  <2> QED
    BY <2>1, <2>2, FS_Subset
<1>4. Cardinality(A) \in Nat
  BY <1>3, FS_CardinalityType
<1>5. \A j \in 1 .. Len(l) : j \in B <=> j \in A
  BY <1>1, <1>2 DEF AskedFor
<1>6. k \in B <=> IsEnd(m, a) /\ UnitsOf(l, a, k) = units
  BY <1>1, <1>2 DEF AskedFor
<1>7. B \subseteq 1 .. k /\ A \subseteq 1 .. Len(l) /\ \A j \in 1 .. k : j \in 1 .. Len(l) \/ j = k
  BY <1>1 DEF AskedFor
<1>8. CASE IsEnd(m, a) /\ UnitsOf(l, a, k) = units
  <2>1. B = A \cup {k}
    BY <1>5, <1>6, <1>7, <1>8
  <2> HIDE DEF A, B, k
  <2>2. Cardinality(B) = Cardinality(A) + 1
    BY <1>3, <2>1, FS_AddElement
  <2> QED
    BY <1>4, <1>8, <2>2 DEF A, B, k, r
<1>9. CASE ~(IsEnd(m, a) /\ UnitsOf(l, a, k) = units)
  <2>1. B = A
    BY <1>5, <1>6, <1>7, <1>9
  <2> QED
    BY <1>4, <1>9, <2>1 DEF r
<1> QED
  BY <1>8, <1>9

LEMMA GivenNew ==
  ASSUME NEW rs \in Seq(Reply), NEW reply \in Reply, NEW a, NEW units
  PROVE  /\ Cardinality(Given(rs, a, units)) \in Nat
         /\ reply.article = a /\ reply.units = units =>
              Cardinality(Given(Append(rs, reply), a, units)) = Cardinality(Given(rs, a, units)) + 1
         /\ ~(reply.article = a /\ reply.units = units) =>
              Cardinality(Given(Append(rs, reply), a, units)) = Cardinality(Given(rs, a, units))
<1> DEFINE r == Append(rs, reply)
           k == Len(rs) + 1
           A == Given(rs, a, units)
           B == Given(r, a, units)
<1>1. /\ Len(r) = k /\ Len(rs) \in Nat /\ k \in Nat /\ r[k] = reply
      /\ \A j \in 1 .. Len(rs) : r[j] = rs[j]
  BY AppendProperties
<1> HIDE DEF r
<1>3. IsFiniteSet(A) /\ k \notin A
  <2>1. A \subseteq 1 .. Len(rs)
    BY DEF Given
  <2>2. IsFiniteSet(1 .. Len(rs)) /\ k \notin 1 .. Len(rs)
    BY <1>1, FS_Interval
  <2> HIDE DEF A, k
  <2> QED
    BY <2>1, <2>2, FS_Subset
<1>4. Cardinality(A) \in Nat
  BY <1>3, FS_CardinalityType
<1>5. \A j \in 1 .. Len(rs) : j \in B <=> j \in A
  BY <1>1 DEF Given
<1>6. k \in B <=> reply.article = a /\ reply.units = units
  BY <1>1 DEF Given
<1>7. B \subseteq 1 .. k /\ A \subseteq 1 .. Len(rs) /\ \A j \in 1 .. k : j \in 1 .. Len(rs) \/ j = k
  BY <1>1 DEF Given
<1>8. CASE reply.article = a /\ reply.units = units
  <2>1. B = A \cup {k}
    BY <1>5, <1>6, <1>7, <1>8
  <2> HIDE DEF A, B, k
  <2>2. Cardinality(B) = Cardinality(A) + 1
    BY <1>3, <2>1, FS_AddElement
  <2> QED
    BY <1>4, <1>8, <2>2 DEF A, B, k, r
<1>9. CASE ~(reply.article = a /\ reply.units = units)
  <2>1. B = A
    BY <1>5, <1>6, <1>7, <1>9
  <2> QED
    BY <1>4, <1>9, <2>1 DEF r
<1> QED
  BY <1>8, <1>9

LEMMA DueNew ==
  ASSUME NEW th, NEW now, NEW t \in Threads,
         \A v \in Threads : v # t => now[v] = th[v],
         NEW s, NEW a, NEW units
  PROVE  /\ Cardinality(Due(th, s, a, units)) \in Nat
         /\ Cardinality(Due(now, s, a, units)) \in Nat
         /\ t \notin Due(th, s, a, units) /\ t \notin Due(now, s, a, units) =>
              Cardinality(Due(now, s, a, units)) = Cardinality(Due(th, s, a, units))
         /\ t \notin Due(th, s, a, units) /\ t \in Due(now, s, a, units) =>
              Cardinality(Due(now, s, a, units)) = Cardinality(Due(th, s, a, units)) + 1
         /\ t \in Due(th, s, a, units) /\ t \notin Due(now, s, a, units) =>
              Cardinality(Due(th, s, a, units)) = Cardinality(Due(now, s, a, units)) + 1
<1> DEFINE A == Due(th, s, a, units)
           B == Due(now, s, a, units)
<1>1. A \subseteq Threads /\ B \subseteq Threads /\ A \ {t} = B \ {t}
  BY DEF Due
<1> HIDE DEF A, B
<1>3. IsFiniteSet(A) /\ IsFiniteSet(B)
  BY <1>1, ThreadsAssumption, FS_Subset
<1>4. Cardinality(A) \in Nat /\ Cardinality(B) \in Nat
  BY <1>3, FS_CardinalityType
<1>5. t \in A /\ t \notin B => A = B \cup {t}
  BY <1>1
<1>6. t \in A /\ t \notin B => Cardinality(A) = Cardinality(B) + 1
  BY <1>3, <1>5, FS_AddElement
<1>7. t \notin A /\ t \in B => B = A \cup {t}
  BY <1>1
<1>8. t \notin A /\ t \in B => Cardinality(B) = Cardinality(A) + 1
  BY <1>3, <1>7, FS_AddElement
<1>9. t \notin A /\ t \notin B => A = B
  BY <1>1
<1> QED
  BY <1>4, <1>6, <1>8, <1>9 DEF A, B

(* A worker that owes nothing and goes on to owe nothing; the messages     *)
(* handled change by no end.                                               *)
LEMMA AccountsSame ==
  ASSUME Inv, Accounts, replies' = replies,
         \A s \in Sockets, a \in Articles : \A units :
           /\ Cardinality(Due(thread', s, a, units)) = Cardinality(Due(thread, s, a, units))
           /\ Cardinality(AskedFor(log'[s], a, units)) = Cardinality(AskedFor(log[s], a, units))
  PROVE  Accounts'
BY DEF Accounts

LEMMA NothingDue ==
  ASSUME NEW th, NEW now, NEW t \in Threads,
         \A v \in Threads : v # t => now[v] = th[v],
         th[t].at # "reply", now[t].at # "reply", NEW s, NEW a, NEW units
  PROVE  Cardinality(Due(now, s, a, units)) = Cardinality(Due(th, s, a, units))
<1>1. t \notin Due(th, s, a, units) /\ t \notin Due(now, s, a, units)
  BY DEF Due, Owes
<1> QED
  BY <1>1, DueNew

(* Nothing is asked and nothing owed at first. *)
LEMMA AccountsInit == Init => Accounts
<1> SUFFICES ASSUME Init, NEW s \in Sockets, NEW a \in Articles, NEW units
             PROVE  Cardinality(Given(replies[s], a, units)) + Cardinality(Due(thread, s, a, units))
                      = Cardinality(AskedFor(log[s], a, units))
  BY DEF Accounts
<1>1. replies[s] = <<>> /\ log[s] = <<>> /\ \A t \in Threads : thread[t].at = "idle"
  BY DEF Init, Idle
<1>2. Given(replies[s], a, units) = {} /\ AskedFor(log[s], a, units) = {}
  BY <1>1 DEF Given, AskedFor
<1>3. Due(thread, s, a, units) = {}
  BY <1>1 DEF Due, Owes
<1> QED
  BY <1>2, <1>3, FS_EmptySet

(* A unit that is handled asks for nothing. *)
LEMMA AccountsKeep ==
  ASSUME Inv, Accounts, NEW t \in Threads, SetDigestInfo(t)
  PROVE  Accounts'
<1>1. PICK s, u : s = thread[t].fd /\ u = thread[t].msg
  OBVIOUS
<1>2. /\ log' = [log EXCEPT ![s] = Append(@, u)] /\ replies' = replies
      /\ thread' = [thread EXCEPT ![t] = Idle]
      /\ u.kind = "unit" /\ thread[t].at = "hold"
      /\ thread \in [Threads -> Worker] /\ log \in [Sockets -> Seq(Message)]
  BY <1>1 DEF SetDigestInfo, Inv, TypeOK
<1>3. u \in Message
  BY <1>1, <1>2 DEF Worker
<1>4. ASSUME NEW q \in Sockets, NEW a \in Articles, NEW units
      PROVE  /\ Cardinality(Due(thread', q, a, units)) = Cardinality(Due(thread, q, a, units))
             /\ Cardinality(AskedFor(log'[q], a, units)) = Cardinality(AskedFor(log[q], a, units))
  <2>1. Cardinality(Due(thread', q, a, units)) = Cardinality(Due(thread, q, a, units))
    <3>1. thread'[t].at # "reply" /\ thread[t].at # "reply"
          /\ \A v \in Threads : v # t => thread'[v] = thread[v]
      BY <1>2 DEF Idle
    <3> QED
      BY <3>1, NothingDue
  <2>2. CASE q # s
    BY <1>2, <2>1, <2>2
  <2>3. CASE q = s
    <3>1. log'[q] = Append(log[q], u) /\ log[q] \in Seq(Message) /\ ~IsEnd(u, a)
      BY <1>2, <2>3 DEF IsEnd
    <3>2. Cardinality(AskedFor(Append(log[q], u), a, units)) = Cardinality(AskedFor(log[q], a, units))
      BY <1>3, <3>1, AskedNew
    <3> QED
      BY <2>1, <3>1, <3>2
  <2> QED
    BY <2>2, <2>3
<1> QED
  BY <1>2, <1>4, AccountsSame

(* An end asks for the units in the list, and its worker owes just those.  *)
LEMMA AccountsAsk ==
  ASSUME Inv, CacheExact, Accounts, NEW t \in Threads, CreateDigest(t)
  PROVE  Accounts'
<1>1. PICK s \in Sockets, m \in Message, made \in BOOLEAN :
        /\ thread[t].at = "hold" /\ m.kind = "end" /\ m.article \in Articles
        /\ thread' = [thread EXCEPT ![t] =
             [at |-> "reply", fd |-> s,
              reply |-> [article |-> m.article, units |-> list[s][m.article], made |-> made]]]
        /\ log' = [log EXCEPT ![s] = Append(@, m)]
        /\ replies' = replies
  BY Takes
<1>2. PICK w : w = [at |-> "reply", fd |-> s,
                    reply |-> [article |-> m.article, units |-> list[s][m.article], made |-> made]]
  OBVIOUS
<1>3. thread \in [Threads -> Worker] /\ log \in [Sockets -> Seq(Message)]
      /\ replies \in [Sockets -> Seq(Reply)]
  BY DEF Inv, TypeOK
<1> SUFFICES ASSUME NEW q \in Sockets, NEW a \in Articles, NEW units
             PROVE  Cardinality(Given(replies'[q], a, units)) + Cardinality(Due(thread', q, a, units))
                      = Cardinality(AskedFor(log'[q], a, units))
  BY DEF Accounts
<1>4. Cardinality(Given(replies[q], a, units)) + Cardinality(Due(thread, q, a, units))
        = Cardinality(AskedFor(log[q], a, units))
  BY DEF Accounts
<1>5. ~Owes(thread[t], q, a, units)
      /\ (Owes(w, q, a, units) <=> q = s /\ a = m.article /\ units = list[s][a])
  BY <1>1, <1>2 DEF Owes
<1>6. /\ Cardinality(Due(thread, q, a, units)) \in Nat
      /\ Owes(w, q, a, units) =>
           Cardinality(Due(thread', q, a, units)) = Cardinality(Due(thread, q, a, units)) + 1
      /\ ~Owes(w, q, a, units) =>
           Cardinality(Due(thread', q, a, units)) = Cardinality(Due(thread, q, a, units))
  <2>1. thread'[t] = w /\ \A v \in Threads : v # t => thread'[v] = thread[v]
    BY <1>1, <1>2, <1>3
  <2>2. t \notin Due(thread, q, a, units) /\ (t \in Due(thread', q, a, units) <=> Owes(w, q, a, units))
    BY <1>5, <2>1 DEF Due
  <2> QED
    BY <2>1, <2>2, DueNew
<1>7. /\ Cardinality(AskedFor(log[q], a, units)) \in Nat
      /\ Owes(w, q, a, units) =>
           Cardinality(AskedFor(log'[q], a, units)) = Cardinality(AskedFor(log[q], a, units)) + 1
      /\ ~Owes(w, q, a, units) =>
           Cardinality(AskedFor(log'[q], a, units)) = Cardinality(AskedFor(log[q], a, units))
  <2>1. Cardinality(AskedFor(log[q], a, units)) \in Nat
    <3>1. log[q] \in Seq(Message)
      BY <1>3
    <3> QED
      BY <3>1, AskedNew
  <2>2. CASE q # s
    <3>1. log'[q] = log[q] /\ ~Owes(w, q, a, units)
      BY <1>1, <1>3, <1>5, <2>2
    <3> QED
      BY <2>1, <3>1
  <2>3. CASE q = s
    <3>1. log'[q] = Append(log[q], m) /\ log[q] \in Seq(Message)
      BY <1>1, <1>3, <2>3
    <3>2. IsEnd(m, a) <=> a = m.article
      BY <1>1 DEF IsEnd
    <3>3. UnitsOf(log[q], a, Len(log[q]) + 1) = list[s][a]
      BY <2>3 DEF CacheExact, UnitsBefore
    <3>4. IsEnd(m, a) /\ UnitsOf(log[q], a, Len(log[q]) + 1) = units <=> Owes(w, q, a, units)
      BY <1>5, <2>3, <3>2, <3>3
    <3> QED
      BY <2>1, <3>1, <3>4, AskedNew
  <2> QED
    BY <2>2, <2>3
<1>8. Cardinality(Given(replies[q], a, units)) \in Nat /\ replies'[q] = replies[q]
  <2>1. IsFiniteSet(1 .. Len(replies[q]))
    BY <1>3, FS_Interval
  <2>2. Given(replies[q], a, units) \subseteq 1 .. Len(replies[q])
    BY DEF Given
  <2> QED
    BY <1>1, <2>1, <2>2, FS_Subset, FS_CardinalityType
<1> QED
  BY <1>4, <1>6, <1>7, <1>8

(* What a worker sends is what it owed. *)
LEMMA AccountsGive ==
  ASSUME Inv, Accounts, NEW t \in Threads, SendDigest(t)
  PROVE  Accounts'
<1>1. PICK w, s, reply : w = thread[t] /\ s = w.fd /\ reply = w.reply
  OBVIOUS
<1>2. /\ w.at = "reply"
      /\ replies' = [replies EXCEPT ![s] = Append(@, reply)]
      /\ thread' = [thread EXCEPT ![t] = Idle]
      /\ log' = log
  BY <1>1 DEF SendDigest
<1>3. thread \in [Threads -> Worker] /\ log \in [Sockets -> Seq(Message)]
      /\ replies \in [Sockets -> Seq(Reply)]
  BY DEF Inv, TypeOK
<1>4. s \in Sockets /\ reply \in Reply
  <2>1. w \in Worker
    BY <1>1, <1>3
  <2> QED
    BY <1>1, <1>2, <2>1 DEF Worker
<1> SUFFICES ASSUME NEW q \in Sockets, NEW a \in Articles, NEW units
             PROVE  Cardinality(Given(replies'[q], a, units)) + Cardinality(Due(thread', q, a, units))
                      = Cardinality(AskedFor(log'[q], a, units))
  BY DEF Accounts
<1>5. Cardinality(Given(replies[q], a, units)) + Cardinality(Due(thread, q, a, units))
        = Cardinality(AskedFor(log[q], a, units))
  BY DEF Accounts
<1>6. ~Owes(Idle, q, a, units)
      /\ (Owes(w, q, a, units) <=> q = s /\ reply.article = a /\ reply.units = units)
  BY <1>1, <1>2 DEF Owes, Idle
<1>7. /\ Cardinality(Due(thread', q, a, units)) \in Nat
      /\ Owes(w, q, a, units) =>
           Cardinality(Due(thread, q, a, units)) = Cardinality(Due(thread', q, a, units)) + 1
      /\ ~Owes(w, q, a, units) =>
           Cardinality(Due(thread, q, a, units)) = Cardinality(Due(thread', q, a, units))
  <2>1. thread'[t] = Idle /\ \A v \in Threads : v # t => thread'[v] = thread[v]
    BY <1>2, <1>3
  <2>2. t \notin Due(thread', q, a, units) /\ (t \in Due(thread, q, a, units) <=> Owes(w, q, a, units))
    BY <1>1, <1>6, <2>1 DEF Due
  <2> QED
    BY <2>1, <2>2, DueNew
<1>8. /\ Cardinality(Given(replies[q], a, units)) \in Nat
      /\ Owes(w, q, a, units) =>
           Cardinality(Given(replies'[q], a, units)) = Cardinality(Given(replies[q], a, units)) + 1
      /\ ~Owes(w, q, a, units) =>
           Cardinality(Given(replies'[q], a, units)) = Cardinality(Given(replies[q], a, units))
  <2>1. Cardinality(Given(replies[q], a, units)) \in Nat
    BY <1>3, <1>4, GivenNew
  <2>2. CASE q # s
    BY <1>2, <1>3, <1>6, <2>1, <2>2
  <2>3. CASE q = s
    <3>1. replies'[q] = Append(replies[q], reply) /\ replies[q] \in Seq(Reply)
      BY <1>2, <1>3, <2>3
    <3>2. (reply.article = a /\ reply.units = units) <=> Owes(w, q, a, units)
      BY <1>6, <2>3
    <3> QED
      BY <1>4, <2>1, <3>1, <3>2, GivenNew
  <2> QED
    BY <2>2, <2>3
<1> QED
  BY <1>2, <1>5, <1>7, <1>8

LEMMA AccountsStep == Inv /\ CacheExact /\ Accounts /\ [Next]_vars => Accounts'
<1> SUFFICES ASSUME Inv, CacheExact, Accounts, [Next]_vars
             PROVE  Accounts'
  OBVIOUS
<1>1. CASE \E s \in Sockets : Client(s)
  BY <1>1 DEF Client, Send, Reconnect, Accounts
<1>2. ASSUME NEW t \in Threads, Work(t)
      PROVE  Accounts'
  <2>1. CASE SetDigestInfo(t)
    BY <2>1, AccountsKeep
  <2>2. CASE CreateDigest(t)
    BY <2>2, AccountsAsk
  <2>3. CASE SendDigest(t)
    BY <2>3, AccountsGive
  <2>4. CASE Acquire(t) \/ \E s \in Sockets : Dispatch(t, s)
    <3>1. PICK w : w.at # "reply" /\ thread' = [thread EXCEPT ![t] = w]
      BY <2>4 DEF Acquire, Dispatch
    <3>2. thread[t].at # "reply" /\ replies' = replies /\ log' = log /\ thread \in [Threads -> Worker]
      BY <2>4 DEF Acquire, Dispatch, Idle, Inv, TypeOK
    <3>3. \A q \in Sockets, a \in Articles : \A units :
            Cardinality(Due(thread', q, a, units)) = Cardinality(Due(thread, q, a, units))
      <4>1. thread'[t].at # "reply" /\ thread[t].at # "reply"
            /\ \A v \in Threads : v # t => thread'[v] = thread[v]
        BY <3>1, <3>2
      <4> QED
        BY <4>1, NothingDue
    <3> QED
      BY <3>2, <3>3, AccountsSame
  <2> QED
    BY <1>2, <2>1, <2>2, <2>3, <2>4 DEF Work, Handle
<1>3. CASE UNCHANGED vars
  BY <1>3 DEF vars, Accounts
<1> QED
  BY <1>1, <1>2, <1>3 DEF Next

(* What is counted for any units is counted for those an end asks for. *)
LEMMA AccountsExact == Accounts => RepliesExact
<1> SUFFICES ASSUME Accounts, NEW s \in Sockets, NEW a \in Articles
             PROVE  LET units == [k \in Ends(s, a) |-> UnitsBefore(s, a, k)]
                    IN  \A k \in Ends(s, a) :
                          Answers(s, a, units[k]) = Cardinality({j \in Ends(s, a) : units[j] = units[k]})
  BY DEF RepliesExact
<1> DEFINE units == [k \in Ends(s, a) |-> UnitsBefore(s, a, k)]
<1> SUFFICES ASSUME NEW k \in Ends(s, a)
             PROVE  Answers(s, a, units[k]) = Cardinality({j \in Ends(s, a) : units[j] = units[k]})
  OBVIOUS
<1>1. PICK u : u = units[k]
  OBVIOUS
<1>2. {j \in Ends(s, a) : units[j] = u} = AskedFor(log[s], a, u)
  BY DEF AskedFor, Ends, UnitsBefore
<1>3. Answers(s, a, u) = Cardinality(Given(replies[s], a, u)) + Cardinality(Due(thread, s, a, u))
  BY DEF Answers, Given, Due, Owes
<1>4. Cardinality(Given(replies[s], a, u)) + Cardinality(Due(thread, s, a, u))
        = Cardinality(AskedFor(log[s], a, u))
  BY DEF Accounts
<1> HIDE DEF units
<1> QED
  BY <1>1, <1>2, <1>3, <1>4

(* Each end of an article is answered once, from exactly the units of that *)
(* article handled on that descriptor since its last end, in their order,  *)
(* by however many workers and in whatever order they reply.               *)
THEOREM RepliesKept == Spec => []RepliesExact
<1> QED
  BY InvHolds, CacheInit, CacheStep, AccountsInit, AccountsStep, AccountsExact, PTL DEF Spec

-----------------------------------------------------------------------------
(* Where a connection has one worker at a time, the plugin implements      *)
(* DigestService.  On works: the worker is busy with the descriptor.       *)
On(w, s) == w.at # "idle" /\ w.fd = s

OneBusy ==
  \A t, v \in Threads : \A s \in Sockets : On(thread[t], s) /\ On(thread[v], s) => t = v

LEMMA OneBusyInit == Init => OneBusy
  BY DEF Init, OneBusy, On, Idle

(* Only Dispatch gives a worker a descriptor, and ~Busy(s) is its guard. *)
LEMMA OneBusyStep ==
  ASSUME ~Parallel, Inv, OneBusy, [Next]_vars
  PROVE  OneBusy'
<1>1. thread \in [Threads -> Worker]
  BY DEF Inv, TypeOK
<1>2. ASSUME thread' = thread
      PROVE  OneBusy'
  BY <1>2 DEF OneBusy
<1>3. ASSUME NEW t \in Threads, NEW w, thread' = [thread EXCEPT ![t] = w],
             \A s \in Sockets : On(w, s) => On(thread[t], s)
      PROVE  OneBusy'
  <2> SUFFICES ASSUME NEW u \in Threads, NEW v \in Threads, NEW s \in Sockets,
                      On(thread'[u], s), On(thread'[v], s)
               PROVE  u = v
    BY DEF OneBusy
  <2>1. On(thread[u], s) /\ On(thread[v], s)
    BY <1>1, <1>3
  <2> QED
    BY <2>1 DEF OneBusy
<1>4. CASE \E s \in Sockets : Client(s)
  BY <1>2, <1>4 DEF Client, Send, Reconnect
<1>5. ASSUME NEW t \in Threads, NEW s \in Sockets, Dispatch(t, s)
      PROVE  OneBusy'
  <2>1. \A v \in Threads : ~On(thread[v], s)
    BY <1>5 DEF Dispatch, Busy, On
  <2>2. PICK w : w.fd = s /\ thread' = [thread EXCEPT ![t] = w]
    BY <1>5 DEF Dispatch
  <2> SUFFICES ASSUME NEW u \in Threads, NEW v \in Threads, NEW q \in Sockets,
                      On(thread'[u], q), On(thread'[v], q)
               PROVE  u = v
    BY DEF OneBusy
  <2>3. \A x \in Threads : thread'[x] = IF x = t THEN w ELSE thread[x]
    BY <1>1, <2>2
  <2>4. q # s => u # t /\ v # t
    BY <2>2, <2>3 DEF On
  <2>5. q = s => u = t /\ v = t
    BY <2>1, <2>3
  <2> QED
    BY <2>3, <2>4, <2>5 DEF OneBusy
<1>6. ASSUME NEW t \in Threads, Handle(t)
      PROVE  OneBusy'
  <2>1. CASE Acquire(t)
    <3>1. PICK w : w.fd = thread[t].fd /\ thread' = [thread EXCEPT ![t] = w]
      BY <2>1 DEF Acquire
    <3>2. \A s \in Sockets : On(w, s) => On(thread[t], s)
      BY <2>1, <3>1 DEF Acquire, On
    <3> QED
      BY <1>3, <3>1, <3>2
  <2>2. CASE SetDigestInfo(t) \/ SendDigest(t)
    <3>1. thread' = [thread EXCEPT ![t] = Idle] /\ \A s \in Sockets : ~On(Idle, s)
      BY <2>2 DEF SetDigestInfo, SendDigest, On, Idle
    <3> QED
      BY <1>3, <3>1
  <2>3. CASE CreateDigest(t)
    <3>1. PICK w : w.fd = thread[t].fd /\ thread' = [thread EXCEPT ![t] = w] /\ thread[t].at = "hold"
      BY <2>3, Takes
    <3>2. \A s \in Sockets : On(w, s) => On(thread[t], s)
      BY <3>1 DEF On
    <3> QED
      BY <1>3, <3>1, <3>2
  <2> QED
    BY <1>6, <2>1, <2>2, <2>3 DEF Handle
<1>7. CASE UNCHANGED vars
  BY <1>2, <1>7 DEF vars
<1> QED
  BY <1>4, <1>5, <1>6, <1>7 DEF Next, Work

(* What is under way on a descriptor with no worker, with one that handles *)
(* a message and with one that replies, and where nothing changes.         *)
LEMMA Nobody ==
  ASSUME NEW th, NEW s, \A v \in Threads : ~On(th[v], s)
  PROVE  UnderWay(th, s) = <<>> /\ Unsent(th, s) = <<>>
<1>1. WorkersAt(th, {"lock", "hold"}, s) = {} /\ WorkersAt(th, {"reply"}, s) = {}
  BY DEF WorkersAt, On
<1> QED
  BY <1>1 DEF UnderWay, Unsent

LEMMA OneHandles ==
  ASSUME NEW th, NEW s, NEW t \in Threads, th[t].at \in {"lock", "hold"}, th[t].fd = s,
         \A v \in Threads : On(th[v], s) => v = t
  PROVE  UnderWay(th, s) = << th[t].msg >> /\ Unsent(th, s) = <<>>
<1>1. WorkersAt(th, {"lock", "hold"}, s) = {t} /\ WorkersAt(th, {"reply"}, s) = {}
  BY DEF WorkersAt, On
<1>2. (CHOOSE v \in {t} : TRUE) = t
  OBVIOUS
<1> QED
  BY <1>1, <1>2 DEF UnderWay, Unsent

LEMMA OneReplies ==
  ASSUME NEW th, NEW s, NEW t \in Threads, th[t].at = "reply", th[t].fd = s,
         \A v \in Threads : On(th[v], s) => v = t
  PROVE  UnderWay(th, s) = <<>> /\ Unsent(th, s) = << th[t].reply >>
<1>1. WorkersAt(th, {"lock", "hold"}, s) = {} /\ WorkersAt(th, {"reply"}, s) = {t}
  BY DEF WorkersAt, On
<1>2. (CHOOSE v \in {t} : TRUE) = t
  OBVIOUS
<1> QED
  BY <1>1, <1>2 DEF UnderWay, Unsent

LEMMA OthersSame ==
  ASSUME NEW th, NEW now, NEW t \in Threads, NEW s,
         \A v \in Threads : v # t => now[v] = th[v],
         ~On(th[t], s), ~On(now[t], s)
  PROVE  UnderWay(now, s) = UnderWay(th, s) /\ Unsent(now, s) = Unsent(th, s)
<1>1. ASSUME NEW at, "idle" \notin at
      PROVE  /\ WorkersAt(now, at, s) = WorkersAt(th, at, s)
             /\ \A v \in WorkersAt(th, at, s) : now[v] = th[v]
  BY <1>1 DEF WorkersAt, On
<1>2. ASSUME NEW at, "idle" \notin at, WorkersAt(th, at, s) # {}
      PROVE  now[CHOOSE v \in WorkersAt(th, at, s) : TRUE] = th[CHOOSE v \in WorkersAt(th, at, s) : TRUE]
  <2>1. (CHOOSE v \in WorkersAt(th, at, s) : TRUE) \in WorkersAt(th, at, s)
    BY <1>2
  <2> QED
    BY <1>1, <1>2, <2>1
<1>3. "idle" \notin {"lock", "hold"} /\ "idle" \notin {"reply"}
  OBVIOUS
<1>4. UnderWay(now, s) = UnderWay(th, s)
  <2>1. PICK W : W = WorkersAt(th, {"lock", "hold"}, s)
    OBVIOUS
  <2>2. W = WorkersAt(now, {"lock", "hold"}, s)
    BY <1>1, <1>3, <2>1
  <2>5. W # {} => now[CHOOSE v \in W : TRUE] = th[CHOOSE v \in W : TRUE]
    BY <1>2, <1>3, <2>1
  <2>3. UnderWay(th, s) = IF W = {} THEN <<>> ELSE << th[CHOOSE v \in W : TRUE].msg >>
    BY <2>1 DEF UnderWay
  <2>4. UnderWay(now, s) = IF W = {} THEN <<>> ELSE << now[CHOOSE v \in W : TRUE].msg >>
    BY <2>2 DEF UnderWay
  <2> QED
    BY <2>3, <2>4, <2>5
<1>5. Unsent(now, s) = Unsent(th, s)
  <2>1. PICK W : W = WorkersAt(th, {"reply"}, s)
    OBVIOUS
  <2>2. W = WorkersAt(now, {"reply"}, s)
    BY <1>1, <1>3, <2>1
  <2>5. W # {} => now[CHOOSE v \in W : TRUE] = th[CHOOSE v \in W : TRUE]
    BY <1>2, <1>3, <2>1
  <2>3. Unsent(th, s) = IF W = {} THEN <<>> ELSE << th[CHOOSE v \in W : TRUE].reply >>
    BY <2>1 DEF Unsent
  <2>4. Unsent(now, s) = IF W = {} THEN <<>> ELSE << now[CHOOSE v \in W : TRUE].reply >>
    BY <2>2 DEF Unsent
  <2> QED
    BY <2>3, <2>4, <2>5
<1> QED
  BY <1>4, <1>5

(* At most one message, and at most one reply. *)
LEMMA UnderWayType ==
  ASSUME NEW th \in [Threads -> Worker], NEW s
  PROVE  UnderWay(th, s) \in Seq(Message) /\ Unsent(th, s) \in Seq(Reply)
<1>1. \A v \in WorkersAt(th, {"lock", "hold"}, s) : th[v].msg \in Message
  BY DEF WorkersAt, Worker
<1>2. \A v \in WorkersAt(th, {"reply"}, s) : th[v].reply \in Reply
  BY DEF WorkersAt, Worker
<1>3. UnderWay(th, s) \in Seq(Message)
  BY <1>1 DEF UnderWay
<1>4. Unsent(th, s) \in Seq(Reply)
  BY <1>2 DEF Unsent
<1> QED
  BY <1>3, <1>4

-----------------------------------------------------------------------------
(* The state of the service.                                               *)
Queue   == [s \in Sockets |-> UnderWay(thread, s) \o inbox[s]]
Replied == [s \in Sockets |-> replies[s] \o Unsent(thread, s)]

(* One message before others is the first of them. *)
LEMMA OneMore ==
  ASSUME NEW q \in Seq(Message), NEW m \in Message
  PROVE  << m >> \o q # <<>> /\ Head(<< m >> \o q) = m /\ Tail(<< m >> \o q) = q
<1> DEFINE r == << m >> \o q
<1>1. << m >> \in Seq(Message) /\ Len(<< m >>) = 1 /\ << m >>[1] = m /\ Len(q) \in Nat
  OBVIOUS
<1>2. r \in Seq(Message) /\ Len(r) = 1 + Len(q)
      /\ \A i \in 1 .. 1 + Len(q) : r[i] = IF i <= 1 THEN m ELSE q[i - 1]
  BY <1>1, ConcatProperties
<1> HIDE DEF r
<1>3. r # <<>> /\ Head(r) = m
  BY <1>1, <1>2, EmptySeq
<1>4. Tail(r) \in Seq(Message) /\ Len(Tail(r)) = Len(q)
      /\ \A i \in 1 .. Len(q) : Tail(r)[i] = r[i + 1]
  BY <1>1, <1>2, <1>3, HeadTailProperties
<1>5. \A i \in 1 .. Len(q) : Tail(r)[i] = q[i]
  BY <1>1, <1>2, <1>4
<1>6. Tail(r) = q
  BY <1>4, <1>5, SeqEqual
<1> QED
  BY <1>3, <1>6 DEF r

(* A message that is sent comes last in the queue of its descriptor. *)
LEMMA SendArrives ==
  ASSUME Inv, NEW s \in Sockets, Send(s)
  PROVE  Promise!Arrive(s)
<1>1. PICK k \in {"unit", "end"}, a \in Articles :
        inbox' = [inbox EXCEPT ![s] = Append(@,
                    [kind |-> k, article |-> a,
                     id |-> [conn |-> conn[s], n |-> sent[s] + 1]])]
  BY DEF Send
<1>2. PICK m : m = [kind |-> k, article |-> a,
                    id |-> [conn |-> conn[s], n |-> sent[s] + 1]]
  OBVIOUS
<1>3. m \in Message
  <2>1. sent[s] + 1 \in 1 .. MaxMessages /\ conn[s] \in 1 .. MaxConns
    BY BoundsAssumption DEF Send, Inv, TypeOK
  <2> QED
    BY <1>2, <2>1 DEF Message, Unit
<1>4. inbox' = [inbox EXCEPT ![s] = Append(@, m)] /\ inbox \in [Sockets -> Seq(Message)]
      /\ thread \in [Threads -> Worker] /\ thread' = thread /\ list' = list /\ replies' = replies
  BY <1>1, <1>2 DEF Send, Inv, TypeOK
<1>5. PICK W : W = UnderWay(thread, s) /\ W \in Seq(Message)
  BY <1>4, UnderWayType
<1>6. inbox[s] \in Seq(Message)
  BY <1>4
<1>7. W \o Append(inbox[s], m) = Append(W \o inbox[s], m)
  <2>1. <<m>> \in Seq(Message) /\ W \o inbox[s] \in Seq(Message)
    BY <1>3, <1>5, <1>6, ConcatProperties
  <2> QED
    BY <1>3, <1>5, <1>6, <2>1, AppendIsConcat, ConcatAssociative
<1>8. Queue' = [Queue EXCEPT ![s] = Append(@, m)]
  <2>1. \A q \in Sockets : Queue'[q] = [Queue EXCEPT ![s] = Append(@, m)][q]
    <3> SUFFICES ASSUME NEW q \in Sockets
                 PROVE  UnderWay(thread, q) \o inbox'[q]
                          = IF q = s THEN Append(UnderWay(thread, q) \o inbox[q], m)
                            ELSE UnderWay(thread, q) \o inbox[q]
      BY <1>4 DEF Queue
    <3>1. inbox'[q] = IF q = s THEN Append(inbox[s], m) ELSE inbox[q]
      BY <1>4
    <3> QED
      BY <1>5, <1>7, <3>1
  <2> QED
    BY <2>1 DEF Queue
<1>9. Queue' # Queue
  <2>1. Queue[s] \in Seq(Message)
    BY <1>5, <1>6, ConcatProperties DEF Queue
  <2>2. Queue'[s] = Append(Queue[s], m)
    BY <1>8 DEF Queue
  <2>3. Len(Queue'[s]) = Len(Queue[s]) + 1 /\ Len(Queue[s]) \in Nat
    BY <1>3, <2>1, <2>2, AppendProperties
  <2> QED
    BY <2>3
<1>10. Replied' = Replied
  BY <1>4 DEF Replied
<1> QED
  BY <1>3, <1>4, <1>8, <1>9, <1>10
     DEF Promise!Arrive, Promise!Message, Message, Queue, Replied

(* A lost connection leaves what a worker has begun. *)
LEMMA ReconnectLoses ==
  ASSUME Inv, NEW s \in Sockets, Reconnect(s)
  PROVE  Promise!Lose(s)
<1>1. inbox' = [inbox EXCEPT ![s] = <<>>] /\ inbox \in [Sockets -> Seq(Message)]
      /\ thread \in [Threads -> Worker] /\ thread' = thread /\ list' = list /\ replies' = replies
  BY DEF Reconnect, Inv, TypeOK
<1>2. PICK W : W = UnderWay(thread, s) /\ W \in Seq(Message)
  BY <1>1, UnderWayType
<1>3. inbox[s] \in Seq(Message) /\ <<>> \in Seq(Message)
  BY <1>1, EmptySeq
<1>4. Len(W) \in Nat /\ Len(inbox[s]) \in Nat /\ Len(W \o inbox[s]) = Len(W) + Len(inbox[s])
  BY <1>2, <1>3, ConcatProperties
<1>5. W \o <<>> = SubSeq(W \o inbox[s], 1, Len(W))
  <2>1. W \o <<>> = W
    BY <1>2, ConcatEmptySeq
  <2>2. CASE Len(W) = 0
    BY <1>2, <2>1, <2>2, SubSeqEmpty, EmptySeq
  <2>3. CASE Len(W) # 0
    <3>1. SubSeq(W \o inbox[s], 1, Len(W)) = SubSeq(W, 1, Len(W))
      BY <1>2, <1>3, <1>4, <2>3, SubSeqOfConcat1
    <3>2. SubSeq(W, 1, Len(W)) = W
      BY <1>2, SubSeqFull
    <3> QED
      BY <2>1, <3>1, <3>2
  <2> QED
    BY <2>2, <2>3
<1>6. Len(W) \in 0 .. Len(Queue[s])
  BY <1>2, <1>4 DEF Queue
<1>7. Queue' = [Queue EXCEPT ![s] = SubSeq(@, 1, Len(W))]
  <2>1. \A q \in Sockets : Queue'[q] = [Queue EXCEPT ![s] = SubSeq(@, 1, Len(W))][q]
    <3> SUFFICES ASSUME NEW q \in Sockets
                 PROVE  UnderWay(thread, q) \o inbox'[q]
                          = IF q = s THEN SubSeq(UnderWay(thread, q) \o inbox[q], 1, Len(W))
                            ELSE UnderWay(thread, q) \o inbox[q]
      BY <1>1 DEF Queue
    <3>1. inbox'[q] = IF q = s THEN <<>> ELSE inbox[q]
      BY <1>1
    <3> QED
      BY <1>2, <1>5, <3>1
  <2> QED
    BY <2>1 DEF Queue
<1>8. Replied' = Replied
  BY <1>1 DEF Replied
<1> QED
  BY <1>1, <1>6, <1>7, <1>8 DEF Promise!Lose, Queue, Replied

(* A worker that is given the first message has it under way. *)
LEMMA DispatchStutters ==
  ASSUME Inv, OneBusy', ~Parallel, NEW t \in Threads, NEW s \in Sockets, Dispatch(t, s)
  PROVE  Queue' = Queue /\ Replied' = Replied
<1>1. PICK m, w : /\ m = Head(inbox[s]) /\ w = [at |-> "lock", fd |-> s, msg |-> m]
                  /\ thread' = [thread EXCEPT ![t] = w]
  BY DEF Dispatch
<1>2. /\ inbox' = [inbox EXCEPT ![s] = Tail(@)] /\ inbox \in [Sockets -> Seq(Message)]
      /\ inbox[s] # <<>> /\ thread \in [Threads -> Worker] /\ replies' = replies
      /\ \A v \in Threads : ~On(thread[v], s)
      /\ thread[t].at = "idle"
  BY DEF Dispatch, Busy, On, Idle, Inv, TypeOK
<1>3. thread'[t] = w /\ \A v \in Threads : v # t => thread'[v] = thread[v]
  BY <1>1, <1>2
<1>4. UnderWay(thread, s) = <<>> /\ Unsent(thread, s) = <<>>
  BY <1>2, Nobody
<1>5. UnderWay(thread', s) = << m >> /\ Unsent(thread', s) = <<>>
  <2>1. On(thread'[t], s) /\ thread'[t].at \in {"lock", "hold"} /\ thread'[t].fd = s /\ thread'[t].msg = m
    BY <1>1, <1>3 DEF On
  <2>2. \A v \in Threads : On(thread'[v], s) => v = t
    BY <2>1 DEF OneBusy
  <2> QED
    BY <2>1, <2>2, OneHandles
<1>6. ASSUME NEW q \in Sockets, q # s
      PROVE  UnderWay(thread', q) = UnderWay(thread, q) /\ Unsent(thread', q) = Unsent(thread, q)
  <2>1. ~On(thread[t], q) /\ ~On(thread'[t], q)
    BY <1>1, <1>2, <1>3, <1>6 DEF On
  <2> QED
    BY <1>3, <2>1, OthersSame
<1>7. << m >> \o Tail(inbox[s]) = <<>> \o inbox[s]
  <2>1. inbox[s] \in Seq(Message) /\ inbox[s] # <<>>
    BY <1>2
  <2>2. Len(inbox[s]) \in Nat \ {0}
    BY <2>1, EmptySeq
  <2>3. SubSeq(inbox[s], 1, Len(inbox[s])) = << inbox[s][1] >> \o SubSeq(inbox[s], 2, Len(inbox[s]))
    BY <2>1, <2>2, SubSeqRecursiveFirst
  <2>4. m = inbox[s][1]
    BY <1>1, <2>1, <2>2
  <2> QED
    BY <2>1, <2>3, <2>4, SubSeqFull, TailIsSubSeq, ConcatEmptySeq
<1>8. \A q \in Sockets : UnderWay(thread', q) \o inbox'[q] = UnderWay(thread, q) \o inbox[q]
  BY <1>2, <1>4, <1>5, <1>6, <1>7
<1>9. \A q \in Sockets : Unsent(thread', q) = Unsent(thread, q)
  BY <1>4, <1>5, <1>6
<1> QED
  BY <1>2, <1>8, <1>9 DEF Queue, Replied

(* The lock is nothing a client could see. *)
LEMMA AcquireStutters ==
  ASSUME Inv, OneBusy, OneBusy', NEW t \in Threads, Acquire(t)
  PROVE  Queue' = Queue /\ Replied' = Replied
<1>1. PICK s, m, w : /\ s = thread[t].fd /\ m = thread[t].msg
                     /\ w = [at |-> "hold", fd |-> s, msg |-> m, info_map |-> known[s]]
                     /\ thread' = [thread EXCEPT ![t] = w]
  BY DEF Acquire
<1>2. /\ inbox' = inbox /\ replies' = replies /\ thread \in [Threads -> Worker]
      /\ thread[t].at = "lock"
  BY DEF Acquire, Inv, TypeOK
<1>3. thread'[t] = w /\ \A v \in Threads : v # t => thread'[v] = thread[v]
  BY <1>1, <1>2
<1>4. s \in Sockets
  BY <1>1, <1>2 DEF Worker
<1>5. UnderWay(thread, s) = << m >> /\ Unsent(thread, s) = <<>>
  <2>1. \A v \in Threads : On(thread[v], s) => v = t
    BY <1>1, <1>2, <1>4 DEF OneBusy, On
  <2> QED
    BY <1>1, <1>2, <2>1, OneHandles
<1>6. UnderWay(thread', s) = << m >> /\ Unsent(thread', s) = <<>>
  <2>1. On(thread'[t], s) /\ thread'[t].at \in {"lock", "hold"} /\ thread'[t].fd = s /\ thread'[t].msg = m
    BY <1>1, <1>3 DEF On
  <2>2. \A v \in Threads : On(thread'[v], s) => v = t
    BY <1>4, <2>1 DEF OneBusy
  <2> QED
    BY <2>1, <2>2, OneHandles
<1>7. ASSUME NEW q \in Sockets, q # s
      PROVE  UnderWay(thread', q) = UnderWay(thread, q) /\ Unsent(thread', q) = Unsent(thread, q)
  <2>1. ~On(thread[t], q) /\ ~On(thread'[t], q)
    BY <1>1, <1>2, <1>3, <1>7 DEF On
  <2> QED
    BY <1>3, <2>1, OthersSame
<1>8. \A q \in Sockets : UnderWay(thread', q) = UnderWay(thread, q) /\ Unsent(thread', q) = Unsent(thread, q)
  BY <1>5, <1>6, <1>7
<1> QED
  BY <1>2, <1>8 DEF Queue, Replied

(* A unit is kept when SetDigestInfo lets the lock go. *)
LEMMA SetDigestInfoKeeps ==
  ASSUME Inv, OneBusy, NEW t \in Threads, SetDigestInfo(t)
  PROVE  \E s \in Sockets : Promise!Keep(s)
<1>1. PICK s, u : /\ s = thread[t].fd /\ u = thread[t].msg
                  /\ list' = [list EXCEPT ![s][u.article] = Append(@, u.id)]
                  /\ u.kind = "unit"
  BY DEF SetDigestInfo
<1>2. /\ inbox' = inbox /\ replies' = replies /\ thread \in [Threads -> Worker]
      /\ thread' = [thread EXCEPT ![t] = Idle] /\ thread[t].at = "hold"
      /\ inbox \in [Sockets -> Seq(Message)]
  BY DEF SetDigestInfo, Inv, TypeOK
<1>3. thread'[t] = Idle /\ \A v \in Threads : v # t => thread'[v] = thread[v]
  BY <1>2
<1>4. s \in Sockets /\ u \in Message
  BY <1>1, <1>2 DEF Worker
<1>5. \A v \in Threads : On(thread[v], s) => v = t
  BY <1>1, <1>2, <1>4 DEF OneBusy, On
<1>6. UnderWay(thread, s) = << u >> /\ Unsent(thread, s) = <<>>
  BY <1>1, <1>2, <1>5, OneHandles
<1>7. UnderWay(thread', s) = <<>> /\ Unsent(thread', s) = <<>>
  <2>1. \A v \in Threads : ~On(thread'[v], s)
    BY <1>3, <1>5 DEF On, Idle
  <2> QED
    BY <2>1, Nobody
<1>8. ASSUME NEW q \in Sockets, q # s
      PROVE  UnderWay(thread', q) = UnderWay(thread, q) /\ Unsent(thread', q) = Unsent(thread, q)
  <2>1. ~On(thread[t], q) /\ ~On(thread'[t], q)
    BY <1>1, <1>3, <1>8 DEF On, Idle
  <2> QED
    BY <1>3, <2>1, OthersSame
<1>9. Queue[s] = << u >> \o inbox[s] /\ Queue' = [Queue EXCEPT ![s] = inbox[s]]
  <2>1. Queue[s] = << u >> \o inbox[s]
    BY <1>4, <1>6 DEF Queue
  <2>2. <<>> \o inbox[s] = inbox[s]
    BY <1>2, <1>4, ConcatEmptySeq
  <2>3. \A q \in Sockets : UnderWay(thread', q) \o inbox'[q]
                             = IF q = s THEN inbox[s] ELSE UnderWay(thread, q) \o inbox[q]
    BY <1>2, <1>7, <1>8, <2>2
  <2> QED
    BY <2>1, <2>3 DEF Queue
<1>10. Queue[s] # <<>> /\ Head(Queue[s]) = u /\ Tail(Queue[s]) = inbox[s]
  BY <1>2, <1>4, <1>9, OneMore
<1>11. Replied' = Replied
  <2>1. \A q \in Sockets : replies'[q] \o Unsent(thread', q) = replies[q] \o Unsent(thread, q)
    BY <1>2, <1>6, <1>7, <1>8
  <2> QED
    BY <2>1 DEF Replied
<1>12. Queue' = [Queue EXCEPT ![s] = Tail(@)]
  BY <1>9, <1>10
<1>13. Promise!Keep(s)
  BY <1>1, <1>10, <1>11, <1>12 DEF Promise!Keep, Queue, Replied
<1> QED
  BY <1>4, <1>13

(* An end is answered when CreateDigest lets the lock go, made or not. *)
LEMMA CreateDigestAnswers ==
  ASSUME Inv, OneBusy, OneBusy', NEW t \in Threads, CreateDigest(t)
  PROVE  \E s \in Sockets : Promise!Answer(s)
<1>1. PICK s \in Sockets, m \in Message, made \in BOOLEAN :
        /\ thread[t].at = "hold" /\ thread[t].fd = s /\ thread[t].msg = m
        /\ m.kind = "end" /\ m.article \in Articles
        /\ list[s][m.article] = <<>> => ~made
        /\ thread' = [thread EXCEPT ![t] =
             [at |-> "reply", fd |-> s,
              reply |-> [article |-> m.article, units |-> list[s][m.article], made |-> made]]]
        /\ list' = [list EXCEPT ![s][m.article] = <<>>]
        /\ inbox' = inbox /\ replies' = replies
  BY Takes
<1>2. PICK answer : answer = [article |-> m.article, units |-> list[s][m.article], made |-> made]
  OBVIOUS
<1>3. /\ thread \in [Threads -> Worker] /\ inbox \in [Sockets -> Seq(Message)]
      /\ replies \in [Sockets -> Seq(Reply)] /\ list \in [Sockets -> [Articles -> Seq(Unit)]]
  BY DEF Inv, TypeOK
<1>4. thread'[t] = [at |-> "reply", fd |-> s, reply |-> answer]
      /\ \A v \in Threads : v # t => thread'[v] = thread[v]
  BY <1>1, <1>2, <1>3
<1>5. answer \in Reply
  BY <1>1, <1>2, <1>3 DEF Reply
<1>6. UnderWay(thread, s) = << m >> /\ Unsent(thread, s) = <<>>
  <2>1. \A v \in Threads : On(thread[v], s) => v = t
    BY <1>1 DEF OneBusy, On
  <2> QED
    BY <1>1, <2>1, OneHandles
<1>7. UnderWay(thread', s) = <<>> /\ Unsent(thread', s) = << answer >>
  <2>1. On(thread'[t], s) /\ thread'[t].at = "reply" /\ thread'[t].fd = s /\ thread'[t].reply = answer
    BY <1>4 DEF On
  <2>2. \A v \in Threads : On(thread'[v], s) => v = t
    BY <2>1 DEF OneBusy
  <2> QED
    BY <2>1, <2>2, OneReplies
<1>8. ASSUME NEW q \in Sockets, q # s
      PROVE  UnderWay(thread', q) = UnderWay(thread, q) /\ Unsent(thread', q) = Unsent(thread, q)
  <2>1. ~On(thread[t], q) /\ ~On(thread'[t], q)
    BY <1>1, <1>4, <1>8 DEF On
  <2> QED
    BY <1>4, <2>1, OthersSame
<1>9. Queue[s] = << m >> \o inbox[s] /\ Queue' = [Queue EXCEPT ![s] = inbox[s]]
  <2>1. Queue[s] = << m >> \o inbox[s]
    BY <1>6 DEF Queue
  <2>2. <<>> \o inbox[s] = inbox[s]
    BY <1>3, ConcatEmptySeq
  <2>3. \A q \in Sockets : UnderWay(thread', q) \o inbox'[q]
                             = IF q = s THEN inbox[s] ELSE UnderWay(thread, q) \o inbox[q]
    BY <1>1, <1>7, <1>8, <2>2
  <2> QED
    BY <2>1, <2>3 DEF Queue
<1>10. Queue[s] # <<>> /\ Head(Queue[s]) = m /\ Tail(Queue[s]) = inbox[s]
  BY <1>3, <1>9, OneMore
<1>11. Replied' = [Replied EXCEPT ![s] = Append(@, answer)]
  <2>1. replies[s] \o <<>> = replies[s] /\ replies[s] \o << answer >> = Append(replies[s], answer)
    BY <1>3, <1>5, ConcatEmptySeq, AppendIsConcat
  <2>2. \A q \in Sockets : replies'[q] \o Unsent(thread', q)
                             = IF q = s THEN Append(replies[q] \o Unsent(thread, q), answer)
                               ELSE replies[q] \o Unsent(thread, q)
    BY <1>1, <1>6, <1>7, <1>8, <2>1
  <2> QED
    BY <2>2 DEF Replied
<1>12. Queue' = [Queue EXCEPT ![s] = Tail(@)]
  BY <1>9, <1>10
<1>13. Promise!Answer(s)
  BY <1>1, <1>2, <1>10, <1>11, <1>12 DEF Promise!Answer, Queue, Replied
<1> QED
  BY <1>13

(* What is sent was the last answer already. *)
LEMMA SendDigestStutters ==
  ASSUME Inv, OneBusy, NEW t \in Threads, SendDigest(t)
  PROVE  Queue' = Queue /\ Replied' = Replied
<1>1. PICK s, answer : /\ s = thread[t].fd /\ answer = thread[t].reply
                       /\ replies' = [replies EXCEPT ![s] = Append(@, answer)]
  BY DEF SendDigest
<1>2. /\ inbox' = inbox /\ thread \in [Threads -> Worker] /\ replies \in [Sockets -> Seq(Reply)]
      /\ thread' = [thread EXCEPT ![t] = Idle] /\ thread[t].at = "reply"
  BY DEF SendDigest, Inv, TypeOK
<1>3. thread'[t] = Idle /\ \A v \in Threads : v # t => thread'[v] = thread[v]
  BY <1>2
<1>4. s \in Sockets /\ answer \in Reply
  BY <1>1, <1>2 DEF Worker
<1>5. \A v \in Threads : On(thread[v], s) => v = t
  BY <1>1, <1>2, <1>4 DEF OneBusy, On
<1>6. UnderWay(thread, s) = <<>> /\ Unsent(thread, s) = << answer >>
  BY <1>1, <1>2, <1>5, OneReplies
<1>7. UnderWay(thread', s) = <<>> /\ Unsent(thread', s) = <<>>
  <2>1. \A v \in Threads : ~On(thread'[v], s)
    BY <1>3, <1>5 DEF On, Idle
  <2> QED
    BY <2>1, Nobody
<1>8. ASSUME NEW q \in Sockets, q # s
      PROVE  UnderWay(thread', q) = UnderWay(thread, q) /\ Unsent(thread', q) = Unsent(thread, q)
  <2>1. ~On(thread[t], q) /\ ~On(thread'[t], q)
    BY <1>1, <1>3, <1>8 DEF On, Idle
  <2> QED
    BY <1>3, <2>1, OthersSame
<1>9. Append(replies[s], answer) \o <<>> = replies[s] \o << answer >>
  <2>1. replies[s] \in Seq(Reply) /\ Append(replies[s], answer) \in Seq(Reply)
    BY <1>2, <1>4, AppendProperties
  <2> QED
    BY <1>4, <2>1, ConcatEmptySeq, AppendIsConcat
<1>10. \A q \in Sockets : /\ UnderWay(thread', q) = UnderWay(thread, q)
                          /\ replies'[q] \o Unsent(thread', q) = replies[q] \o Unsent(thread, q)
  BY <1>1, <1>2, <1>4, <1>6, <1>7, <1>8, <1>9
<1> QED
  BY <1>2, <1>10 DEF Queue, Replied

(* Every step of the plugin is a step of the service or none. *)
LEMMA StepImplements ==
  ASSUME ~Parallel, Inv, OneBusy, OneBusy', [Next]_vars
  PROVE  [Promise!Next]_<<Queue, list, Replied>>
<1>1. CASE \E s \in Sockets : Client(s)
  <2>1. PICK s \in Sockets : Send(s) \/ Reconnect(s)
    BY <1>1 DEF Client
  <2>2. Promise!Arrive(s) \/ Promise!Lose(s)
    BY <2>1, SendArrives, ReconnectLoses
  <2>3. Promise!Next
    BY <2>2 DEF Promise!Next
  <2> QED
    BY <2>3
<1>2. ASSUME NEW t \in Threads, Acquire(t) \/ SendDigest(t) \/ \E s \in Sockets : Dispatch(t, s)
      PROVE  UNCHANGED <<Queue, list, Replied>>
  <2>1. list' = list
    BY <1>2 DEF Acquire, SendDigest, Dispatch
  <2>2. Queue' = Queue /\ Replied' = Replied
    BY <1>2, AcquireStutters, SendDigestStutters, DispatchStutters
  <2> QED
    BY <2>1, <2>2
<1>3. ASSUME NEW t \in Threads, SetDigestInfo(t) \/ CreateDigest(t)
      PROVE  Promise!Next
  <2>1. \E s \in Sockets : Promise!Keep(s) \/ Promise!Answer(s)
    BY <1>3, SetDigestInfoKeeps, CreateDigestAnswers
  <2> QED
    BY <2>1 DEF Promise!Next
<1>4. CASE UNCHANGED vars
  BY <1>4 DEF vars, Queue, Replied
<1>5. CASE \E t \in Threads : Work(t)
  BY <1>2, <1>3, <1>5 DEF Work, Handle
<1> QED
  BY <1>1, <1>4, <1>5 DEF Next

(* The empty plugin is the service with nothing to do. *)
LEMMA InitImplements == Init => Promise!Init
<1> SUFFICES ASSUME Init PROVE Promise!Init
  OBVIOUS
<1>1. inbox = [s \in Sockets |-> <<>>] /\ replies = [s \in Sockets |-> <<>>]
      /\ list = [s \in Sockets |-> [a \in Articles |-> <<>>]]
  BY DEF Init
<1>2. \A s \in Sockets : UnderWay(thread, s) = <<>> /\ Unsent(thread, s) = <<>>
  <2>1. \A s \in Sockets, v \in Threads : ~On(thread[v], s)
    BY DEF Init, On, Idle
  <2> QED
    BY <2>1, Nobody
<1>3. <<>> \o <<>> = <<>>
  BY EmptySeq, ConcatEmptySeq
<1>4. /\ [s \in Sockets |-> UnderWay(thread, s) \o inbox[s]] = [s \in Sockets |-> <<>>]
      /\ [s \in Sockets |-> replies[s] \o Unsent(thread, s)] = [s \in Sockets |-> <<>>]
  BY <1>1, <1>2, <1>3
<1> QED
  BY <1>1, <1>4 DEF Promise!Init

(* Where the messages of a connection are handled one at a time, workers,  *)
(* copies of the map and the lock are not to be seen: every message takes  *)
(* effect at once and in the order of arrival.                             *)
THEOREM Implements ==
  ASSUME ~Parallel
  PROVE  Spec => ImplementsService
<1>1. Inv /\ OneBusy /\ [Next]_vars => OneBusy'
  BY OneBusyStep
<1>2. Inv /\ OneBusy /\ OneBusy' /\ [Next]_vars => [Promise!Next]_<<Queue, list, Replied>>
  BY StepImplements
<1> QED
  BY <1>1, <1>2, InvHolds, OneBusyInit, InitImplements, PTL
     DEF Spec, ImplementsService, Promise!Spec, Queue, Replied
=============================================================================
