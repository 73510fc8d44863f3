------------------------- MODULE UnitHandlesProofs -------------------------
(***************************************************************************)
(* The counter of a unit says how many handles there are, so a unit in use *)
(* is never deleted and one that is not in use is, for any number of       *)
(* connections, units and workers.  On a connection with one worker at a   *)
(* time no unit is deleted twice.                                          *)
(***************************************************************************)
EXTENDS UnitHandles, FiniteSetTheorems, TLAPS

(* Handles are of units that were made, and only those can be deleted. *)
MadeFirst ==
  /\ \A t \in Threads : worker[t].at \in Held \cup Checking => worker[t].unit \in made
  /\ stored \subseteq made
  /\ \A u \in Units : u \notin made => freed[u] = 0

(* CreatFullText runs under the lock, and what it pops is in the list. *)
Section ==
  \A t \in Threads :
    /\ worker[t].at \in {"loop", "pop", "popped", "text", "texted"} => lock = {t}
    /\ worker[t].at = "pop" => worker[t].unit \in stored

(* Until it is stored, only the worker that made a unit has a handle of it. *)
FreshOwned ==
  \A t \in Threads :
    worker[t].at = "store" =>
      /\ worker[t].unit \notin stored
      /\ \A o \in Threads : Has(worker[o], worker[t].unit) => o = t

Inv == TypeOK /\ CountExact /\ HeldAlive /\ MadeFirst /\ Section /\ FreshOwned

-----------------------------------------------------------------------------
One(b) == IF b THEN 1 ELSE 0

(* When one worker moves on, the number of workers with a handle of a unit *)
(* changes by that worker's handle only.                                   *)
LEMMA Recount ==
  ASSUME NEW wk, wk \in [Threads -> Worker], NEW t \in Threads, NEW w, NEW u
  PROVE  /\ Cardinality({o \in Threads : Has(wk[o], u)}) \in Nat
         /\ Cardinality({o \in Threads : Has([wk EXCEPT ![t] = w][o], u)})
              = Cardinality({o \in Threads : Has(wk[o], u)})
                - One(Has(wk[t], u)) + One(Has(w, u))
<1> DEFINE S == {o \in Threads : Has(wk[o], u)}
           T == {o \in Threads : Has([wk EXCEPT ![t] = w][o], u)}
           R == S \ {t}
<1>1. IsFiniteSet(S)
  BY BoundsAssumption, FS_Subset
<1>2. /\ [wk EXCEPT ![t] = w][t] = w
      /\ \A o \in Threads : o # t => [wk EXCEPT ![t] = w][o] = wk[o]
  OBVIOUS
<1>3. T = IF Has(w, u) THEN R \cup {t} ELSE R
  BY <1>2
<1>4. t \in S <=> Has(wk[t], u)
  OBVIOUS
<1> HIDE DEF S, T, R
<1>5. Cardinality(S) \in Nat
  BY <1>1, FS_CardinalityType
<1>6. IsFiniteSet(R) /\ Cardinality(R) = IF t \in S THEN Cardinality(S) - 1 ELSE Cardinality(S)
  BY <1>1, FS_RemoveElement DEF R
<1>7. t \notin R
  BY DEF R
<1>8. Cardinality(R \cup {t}) = Cardinality(R) + 1
  BY <1>6, <1>7, FS_AddElement
<1>9. Cardinality(T) = Cardinality(S) - One(Has(wk[t], u)) + One(Has(w, u))
  <2>1. CASE Has(w, u)
    BY <1>3, <1>4, <1>5, <1>6, <1>8, <2>1 DEF One
  <2>2. CASE ~Has(w, u)
    BY <1>3, <1>4, <1>5, <1>6, <2>2 DEF One
  <2> QED
    BY <2>1, <2>2
<1> QED
  BY <1>5, <1>9 DEF S, T

(* A step that changes the counters by the handles it makes and drops keeps *)
(* them exact.                                                              *)
LEMMA CountStep ==
  ASSUME TypeOK, CountExact, NEW t \in Threads, NEW w,
         worker' = [worker EXCEPT ![t] = w],
         \A u \in Units : count'[u] = count[u] - One(Has(worker[t], u)) + One(Has(w, u))
                                              - One(u \in stored) + One(u \in stored')
  PROVE  CountExact'
<1> SUFFICES ASSUME NEW u \in Units
             PROVE  count'[u] = Cardinality({o \in Threads : Has(worker'[o], u)})
                                + (IF u \in stored' THEN 1 ELSE 0)
  BY DEF CountExact, Owners, InList
<1> DEFINE a == Cardinality({o \in Threads : Has(worker[o], u)})
           b == Cardinality({o \in Threads : Has(worker'[o], u)})
<1>1. a \in Nat /\ b = a - One(Has(worker[t], u)) + One(Has(w, u))
  BY Recount DEF TypeOK
<1>2. count[u] = a + One(u \in stored)
  BY DEF CountExact, Owners, InList, One
<1>3. count'[u] = count[u] - One(Has(worker[t], u)) + One(Has(w, u))
                  - One(u \in stored) + One(u \in stored')
  OBVIOUS
<1> HIDE DEF a, b
<1>4. count'[u] = b + One(u \in stored')
  BY <1>1, <1>2, <1>3 DEF One
<1> QED
  BY <1>4 DEF b, One

(* A step that makes no handle of a unit not in use and deletes nothing     *)
(* leaves no dangling handle.                                               *)
LEMMA AliveStep ==
  ASSUME TypeOK, HeldAlive, NEW t \in Threads, NEW w,
         worker' = [worker EXCEPT ![t] = w],
         \A u \in Units : u \in stored' \/ Has(w, u) => InUse(u),
         UNCHANGED << made, freed >>
  PROVE  HeldAlive'
<1>1. worker'[t] = w /\ \A o \in Threads : o # t => worker'[o] = worker[o]
  BY DEF TypeOK
<1> QED
  BY <1>1 DEF HeldAlive, InUse

(* Nobody has a handle of a unit in the empty cache. *)
LEMMA InitInv == Init => Inv
<1> SUFFICES ASSUME Init PROVE Inv
  OBVIOUS
<1>1. TypeOK
  BY DEF Init, TypeOK, Idle, Worker
<1>2. \A u \in Units : ~InUse(u) /\ Owners(u) = {} /\ InList(u) = 0
  BY DEF Init, Owners, InUse, InList, Idle, Held, Has
<1>3. Cardinality({}) = 0
  BY FS_EmptySet
<1>4. HeldAlive
  BY <1>2 DEF HeldAlive
<1>5. CountExact
  <2> SUFFICES ASSUME NEW u \in Units PROVE count[u] = Cardinality(Owners(u)) + InList(u)
    BY DEF CountExact
  <2>1. Owners(u) = {} /\ InList(u) = 0 /\ count[u] = 0
    BY <1>2 DEF Init
  <2> QED
    BY <1>3, <2>1
<1> QED
  BY <1>1, <1>4, <1>5 DEF Init, Inv, MadeFirst, Section, FreshOwned, Idle, Held, Checking

(* A new unit has one handle, its maker's. *)
LEMMA ReceiveInv ==
  ASSUME Inv, NEW t \in Threads, NEW v \in Units, Receive(t, v)
  PROVE  Inv'
<1> DEFINE w == At("store", v)
<1>1. /\ worker[t] = Idle /\ v \notin made
      /\ made' = made \cup {v}
      /\ count' = [count EXCEPT ![v] = 1]
      /\ worker' = [worker EXCEPT ![t] = w]
      /\ UNCHANGED << lock, stored, freed >>
      /\ shared' \subseteq Sockets
  BY DEF Receive, Dispatched, Units, Inv, TypeOK
<1>2. TypeOK /\ w \in Worker
  BY <1>1 DEF Inv, TypeOK, Worker, At, Idle, Loop, Held, Checking, After
<1>3. TypeOK'
  BY <1>1, <1>2 DEF TypeOK
<1>4. /\ worker'[t] = w
      /\ \A o \in Threads : o # t => worker'[o] = worker[o]
  BY <1>1, <1>2 DEF TypeOK
<1>5. CountExact'
  <2>1. count[v] = 0
    <3>1. ~InUse(v)
      BY <1>1 DEF Inv, HeldAlive
    <3>2. Owners(v) = {} /\ InList(v) = 0
      BY <3>1 DEF InUse, Owners, InList
    <3> QED
      BY <3>2, FS_EmptySet DEF Inv, CountExact
  <2>2. \A u \in Units : count'[u] = count[u] - One(Has(worker[t], u)) + One(Has(w, u))
                                     - One(u \in stored) + One(u \in stored')
    BY <1>1, <1>2, <2>1 DEF Inv, TypeOK, Has, At, Idle, Held, One
  <2> QED
    BY <1>1, <1>2, <2>2, CountStep DEF Inv
<1>6. HeldAlive'
  <2>1. freed[v] = 0
    BY <1>1 DEF Inv, MadeFirst
  <2>2. \A u \in Units \ {v} : ~Has(w, u)
    BY DEF Has, At
  <2> QED
    BY <1>1, <1>4, <2>1, <2>2 DEF Inv, HeldAlive, InUse
<1>7. MadeFirst'
  BY <1>1, <1>2, <1>4 DEF Inv, TypeOK, MadeFirst, Worker, At, Loop, Idle, Held, Checking
<1>8. Section'
  BY <1>1, <1>2, <1>4 DEF Inv, TypeOK, Section, At, Loop, Idle, Worker, Held, Checking
<1>9. FreshOwned'
  <2>1. v \notin stored /\ \A o \in Threads : ~Has(worker[o], v)
    BY <1>1 DEF Inv, HeldAlive, InUse
  <2>2. ASSUME NEW o \in Threads, o # t, worker[o].at = "store"
        PROVE  worker[o].unit # v
    BY <2>1, <2>2 DEF Has, Held
  <2> QED
    BY <1>1, <1>2, <1>4, <2>1, <2>2 DEF Inv, FreshOwned, At, Has
<1> QED
  BY <1>3, <1>5, <1>6, <1>7, <1>8, <1>9 DEF Inv

(* The list gets a handle of its own. *)
LEMMA StoreInv ==
  ASSUME Inv, NEW t \in Threads, Store(t)
  PROVE  Inv'
<1> DEFINE w == At("drop", worker[t].unit)
<1>1. /\ worker[t].at = "store" /\ worker[t].unit \in Units
      /\ stored' = stored \cup {worker[t].unit}
      /\ count' = [count EXCEPT ![worker[t].unit] = @ + 1]
      /\ worker' = [worker EXCEPT ![t] = w]
      /\ UNCHANGED << lock, made, freed, shared >>
  BY DEF Store, Inv, TypeOK, Worker, Held, Checking
<1>2. TypeOK /\ w \in Worker
  BY <1>1 DEF Inv, TypeOK, Worker, At, Idle, Loop, Held, Checking, After
<1>3. TypeOK'
  BY <1>1, <1>2 DEF TypeOK
<1>4. /\ worker'[t] = w
      /\ \A o \in Threads : o # t => worker'[o] = worker[o]
  BY <1>1, <1>2 DEF TypeOK
<1>5. CountExact'
  <2>1. \A u \in Units : count'[u] = count[u] - One(Has(worker[t], u)) + One(Has(w, u))
                                     - One(u \in stored) + One(u \in stored')
    BY <1>1, <1>2 DEF Inv, TypeOK, Has, At, Loop, Idle, Held, Checking, One, Section, FreshOwned
  <2> QED
    BY <1>1, <1>2, <2>1, CountStep DEF Inv
<1>6. HeldAlive'
  BY <1>1, <1>2, <1>4, AliveStep DEF Inv, InUse, Has, At, Loop, Idle, Held, Checking, After
<1>7. MadeFirst'
  BY <1>1, <1>2, <1>4 DEF Inv, TypeOK, MadeFirst, Worker, At, Loop, Idle, Held, Checking
<1>8. Section'
  BY <1>1, <1>2, <1>4 DEF Inv, TypeOK, Section, At, Loop, Idle, Worker, Held, Checking
<1>9. FreshOwned'
  BY <1>1, <1>2, <1>4 DEF Inv, TypeOK, FreshOwned, At, Loop, Idle, Worker, Has, Held, Checking
<1> QED
  BY <1>3, <1>5, <1>6, <1>7, <1>8, <1>9 DEF Inv

(* A worker that lets go of its handle takes it off the counter. *)
LEMMA DecrementInv ==
  ASSUME Inv, NEW t \in Threads, Decrement(t)
  PROVE  Inv'
<1>0. PICK a \in {"dropped", "texted"} :
         /\ worker' = [worker EXCEPT ![t] = At(a, worker[t].unit)]
         /\ worker[t].at = IF a = "dropped" THEN "drop" ELSE "text"
  BY DEF Decrement
<1> DEFINE w == At(a, worker[t].unit)
<1>1. /\ worker[t].at = (IF a = "dropped" THEN "drop" ELSE "text") /\ worker[t].unit \in Units
      /\ count' = [count EXCEPT ![worker[t].unit] = @ - 1]
      /\ worker' = [worker EXCEPT ![t] = w]
      /\ UNCHANGED << lock, stored, made, freed, shared >>
  BY <1>0 DEF Decrement, Inv, TypeOK, Worker, Held, Checking
<1>2. TypeOK /\ w \in Worker
  BY <1>1 DEF Inv, TypeOK, Worker, At, Idle, Loop, Held, Checking, After
<1>3. TypeOK'
  BY <1>1, <1>2 DEF TypeOK
<1>4. /\ worker'[t] = w
      /\ \A o \in Threads : o # t => worker'[o] = worker[o]
  BY <1>1, <1>2 DEF TypeOK
<1>5. CountExact'
  <2>1. \A u \in Units : count'[u] = count[u] - One(Has(worker[t], u)) + One(Has(w, u))
                                     - One(u \in stored) + One(u \in stored')
    BY <1>1, <1>2 DEF Inv, TypeOK, Has, At, Loop, Idle, Held, Checking, One, Section, FreshOwned
  <2> QED
    BY <1>1, <1>2, <2>1, CountStep DEF Inv
<1>6. HeldAlive'
  <2>1. \A u \in Units : ~Has(w, u)
    BY DEF Has, At, Held
  <2> QED
    BY <1>1, <1>2, <1>4, <2>1 DEF Inv, HeldAlive, InUse
<1>7. MadeFirst'
  BY <1>1, <1>2, <1>4 DEF Inv, TypeOK, MadeFirst, Worker, At, Loop, Idle, Held, Checking
<1>8. Section'
  BY <1>1, <1>2, <1>4 DEF Inv, TypeOK, Section, At, Loop, Idle, Worker, Held, Checking
<1>9. FreshOwned'
  BY <1>1, <1>2, <1>4 DEF Inv, TypeOK, FreshOwned, At, Loop, Idle, Worker, Has, Held, Checking
<1> QED
  BY <1>3, <1>5, <1>6, <1>7, <1>8, <1>9 DEF Inv

(* A unit is deleted only if nobody has a handle of it. *)
LEMMA DeleteInv ==
  ASSUME Inv, NEW t \in Threads, Delete(t)
  PROVE  Inv'
<1> DEFINE w == After(worker[t])
<1>1. /\ worker[t].at \in Checking /\ worker[t].unit \in Units
      /\ worker' = [worker EXCEPT ![t] = w]
      /\ UNCHANGED << lock, stored, made, count, shared >>
  BY DEF Delete, Inv, TypeOK, Worker, Held, Checking
<1> DEFINE v == worker[t].unit
<1>0. \/ freed' = freed
      \/ ~InUse(v) /\ freed' = [freed EXCEPT ![v] = @ + 1]
  <2>1. CASE freed[v] > 0
    <3>1. ~InUse(v)
      BY <1>1, <2>1 DEF Inv, HeldAlive
    <3> QED
      BY <3>1 DEF Delete
  <2>2. CASE ~(freed[v] > 0)
    <3>1. ASSUME count[v] = 0 PROVE ~InUse(v)
      <4>1. Cardinality(Owners(v)) + InList(v) = 0
        BY <1>1, <3>1 DEF Inv, CountExact
      <4>2. IsFiniteSet(Owners(v))
        BY BoundsAssumption, FS_Subset DEF Owners
      <4>3. Cardinality(Owners(v)) = 0 /\ InList(v) = 0
        BY <4>1, <4>2, FS_CardinalityType DEF InList
      <4>4. Owners(v) = {}
        BY <4>2, <4>3, FS_EmptySet
      <4> QED
        BY <4>3, <4>4 DEF InUse, Owners, InList
    <3>2. freed' = IF count[v] = 0 THEN [freed EXCEPT ![v] = @ + 1] ELSE freed
      BY <2>2 DEF Delete, ReadsZero
    <3> QED
      BY <3>1, <3>2
  <2> QED
    BY <2>1, <2>2
<1>2. TypeOK /\ w \in Worker
  <2>1. v.fd \in Sockets
    BY <1>1 DEF Units
  <2>2. CASE worker[t].at = "popped"
    BY <1>1, <2>2 DEF Inv, Worker, At, Held, After
  <2>3. CASE worker[t].at # "popped"
    BY <1>1, <2>1, <2>3 DEF Inv, Worker, Idle, Loop, After
  <2> QED
    BY <2>2, <2>3
<1>3. TypeOK'
  BY <1>1, <1>2, <1>0 DEF TypeOK
<1>4. /\ worker'[t] = w
      /\ \A o \in Threads : o # t => worker'[o] = worker[o]
  BY <1>1, <1>2 DEF TypeOK
<1>5. CountExact'
  <2>1. \A u \in Units : Has(w, u) = Has(worker[t], u)
    BY <1>1 DEF Has, After, At, Idle, Loop, Held, Checking
  <2>2. \A u \in Units : count'[u] = count[u] - One(Has(worker[t], u)) + One(Has(w, u))
                                     - One(u \in stored) + One(u \in stored')
    BY <1>1, <2>1 DEF Inv, TypeOK, One
  <2> QED
    BY <1>1, <1>2, <2>2, CountStep DEF Inv
<1>6. HeldAlive'
  <2>1. \A u \in Units : InUse(u)' => InUse(u)
    BY <1>1, <1>4 DEF InUse, Has, After, At, Idle, Loop, Held, Checking
  <2> QED
    BY <1>0, <1>1, <2>1 DEF Inv, HeldAlive, TypeOK
<1>7. MadeFirst'
  <2>1. v \in made
    BY <1>1 DEF Inv, MadeFirst
  <2>2. \A u \in Units : u \notin made' => freed'[u] = 0
    BY <1>0, <1>1, <2>1 DEF Inv, MadeFirst, TypeOK
  <2> QED
    BY <1>1, <1>4, <2>1, <2>2 DEF Inv, MadeFirst, After, At, Idle, Loop, Held, Checking
<1>8. Section'
  BY <1>1, <1>4 DEF Inv, Section, After, At, Idle, Loop, Held, Checking
<1>9. FreshOwned'
  BY <1>1, <1>4 DEF Inv, FreshOwned, Has, After, At, Idle, Loop, Held, Checking
<1> QED
  BY <1>3, <1>5, <1>6, <1>7, <1>8, <1>9 DEF Inv

(* Taking the lock makes no handle. *)
LEMMA BeginInv ==
  ASSUME Inv, NEW t \in Threads, NEW s \in Sockets, Begin(t, s)
  PROVE  Inv'
<1> DEFINE w == Loop(s)
<1>1. /\ worker[t] = Idle /\ lock = {} /\ lock' = {t}
      /\ worker' = [worker EXCEPT ![t] = w]
      /\ UNCHANGED << stored, made, count, freed >>
      /\ shared' \subseteq Sockets
  BY DEF Begin, Dispatched, Inv, TypeOK
<1>2. TypeOK /\ w \in Worker
  BY <1>1 DEF Inv, TypeOK, Worker, At, Idle, Loop, Held, Checking, After
<1>3. TypeOK'
  BY <1>1, <1>2 DEF TypeOK
<1>4. /\ worker'[t] = w
      /\ \A o \in Threads : o # t => worker'[o] = worker[o]
  BY <1>1, <1>2 DEF TypeOK
<1>5. CountExact'
  <2>1. \A u \in Units : count'[u] = count[u] - One(Has(worker[t], u)) + One(Has(w, u))
                                     - One(u \in stored) + One(u \in stored')
    BY <1>1, <1>2 DEF Inv, TypeOK, Has, At, Loop, Idle, Held, Checking, One, Section, FreshOwned
  <2> QED
    BY <1>1, <1>2, <2>1, CountStep DEF Inv
<1>6. HeldAlive'
  BY <1>1, <1>2, <1>4, AliveStep DEF Inv, InUse, Has, At, Loop, Idle, Held, Checking, After
<1>7. MadeFirst'
  BY <1>1, <1>2, <1>4 DEF Inv, TypeOK, MadeFirst, Worker, At, Loop, Idle, Held, Checking
<1>8. Section'
  BY <1>1, <1>2, <1>4 DEF Inv, TypeOK, Section, At, Loop, Idle, Worker, Held, Checking
<1>9. FreshOwned'
  BY <1>1, <1>2, <1>4 DEF Inv, TypeOK, FreshOwned, At, Loop, Idle, Worker, Has, Held, Checking
<1> QED
  BY <1>3, <1>5, <1>6, <1>7, <1>8, <1>9 DEF Inv

(* The handle of the first unit is copied from the list. *)
LEMMA FrontInv ==
  ASSUME Inv, NEW t \in Threads, NEW v \in stored, Front(t),
         count' = [count EXCEPT ![v] = @ + 1], worker' = [worker EXCEPT ![t] = At("pop", v)]
  PROVE  Inv'
<1> DEFINE w == At("pop", v)
<1>1. /\ worker[t].at = "loop" /\ v \in Units
      /\ count' = [count EXCEPT ![v] = @ + 1]
      /\ worker' = [worker EXCEPT ![t] = w]
      /\ UNCHANGED << lock, stored, made, freed, shared >>
  BY DEF Front, Inv, TypeOK
<1>2. TypeOK /\ w \in Worker
  BY <1>1 DEF Inv, TypeOK, Worker, At, Idle, Loop, Held, Checking, After
<1>3. TypeOK'
  BY <1>1, <1>2 DEF TypeOK
<1>4. /\ worker'[t] = w
      /\ \A o \in Threads : o # t => worker'[o] = worker[o]
  BY <1>1, <1>2 DEF TypeOK
<1>5. CountExact'
  <2>1. \A u \in Units : count'[u] = count[u] - One(Has(worker[t], u)) + One(Has(w, u))
                                     - One(u \in stored) + One(u \in stored')
    BY <1>1, <1>2 DEF Inv, TypeOK, Has, At, Loop, Idle, Held, Checking, One, Section, FreshOwned
  <2> QED
    BY <1>1, <1>2, <2>1, CountStep DEF Inv
<1>6. HeldAlive'
  BY <1>1, <1>2, <1>4, AliveStep DEF Inv, InUse, Has, At, Loop, Idle, Held, Checking, After
<1>7. MadeFirst'
  BY <1>1, <1>2, <1>4 DEF Inv, TypeOK, MadeFirst, Worker, At, Loop, Idle, Held, Checking
<1>8. Section'
  BY <1>1, <1>2, <1>4 DEF Inv, TypeOK, Section, At, Loop, Idle, Worker, Held, Checking
<1>9. FreshOwned'
  BY <1>1, <1>2, <1>4 DEF Inv, TypeOK, FreshOwned, At, Loop, Idle, Worker, Has, Held, Checking
<1> QED
  BY <1>3, <1>5, <1>6, <1>7, <1>8, <1>9 DEF Inv

(* The list drops a handle it had. *)
LEMMA PopInv ==
  ASSUME Inv, NEW t \in Threads, Pop(t)
  PROVE  Inv'
<1> DEFINE w == At("popped", worker[t].unit)
<1>1. /\ worker[t].at = "pop" /\ worker[t].unit \in Units /\ worker[t].unit \in stored
      /\ stored' = stored \ {worker[t].unit}
      /\ count' = [count EXCEPT ![worker[t].unit] = @ - 1]
      /\ worker' = [worker EXCEPT ![t] = w]
      /\ UNCHANGED << lock, made, freed, shared >>
  BY DEF Pop, Inv, TypeOK, Worker, Held, Checking, Section
<1>2. TypeOK /\ w \in Worker
  BY <1>1 DEF Inv, TypeOK, Worker, At, Idle, Loop, Held, Checking, After
<1>3. TypeOK'
  BY <1>1, <1>2 DEF TypeOK
<1>4. /\ worker'[t] = w
      /\ \A o \in Threads : o # t => worker'[o] = worker[o]
  BY <1>1, <1>2 DEF TypeOK
<1>5. CountExact'
  <2>1. \A u \in Units : count'[u] = count[u] - One(Has(worker[t], u)) + One(Has(w, u))
                                     - One(u \in stored) + One(u \in stored')
    BY <1>1, <1>2 DEF Inv, TypeOK, Has, At, Loop, Idle, Held, Checking, One, Section, FreshOwned
  <2> QED
    BY <1>1, <1>2, <2>1, CountStep DEF Inv
<1>6. HeldAlive'
  BY <1>1, <1>2, <1>4, AliveStep DEF Inv, InUse, Has, At, Loop, Idle, Held, Checking, After
<1>7. MadeFirst'
  BY <1>1, <1>2, <1>4 DEF Inv, TypeOK, MadeFirst, Worker, At, Loop, Idle, Held, Checking
<1>8. Section'
  BY <1>1, <1>2, <1>4 DEF Inv, TypeOK, Section, At, Loop, Idle, Worker, Held, Checking
<1>9. FreshOwned'
  BY <1>1, <1>2, <1>4 DEF Inv, TypeOK, FreshOwned, At, Loop, Idle, Worker, Has, Held, Checking
<1> QED
  BY <1>3, <1>5, <1>6, <1>7, <1>8, <1>9 DEF Inv

(* Releasing the lock drops no handle. *)
LEMMA EndInv ==
  ASSUME Inv, NEW t \in Threads, End(t)
  PROVE  Inv'
<1> DEFINE w == Idle
<1>1. /\ worker[t].at = "loop" /\ lock' = {}
      /\ worker' = [worker EXCEPT ![t] = w]
      /\ UNCHANGED << stored, made, count, freed, shared >>
  BY DEF End
<1>2. TypeOK /\ w \in Worker
  BY <1>1 DEF Inv, TypeOK, Worker, At, Idle, Loop, Held, Checking, After
<1>3. TypeOK'
  BY <1>1, <1>2 DEF TypeOK
<1>4. /\ worker'[t] = w
      /\ \A o \in Threads : o # t => worker'[o] = worker[o]
  BY <1>1, <1>2 DEF TypeOK
<1>5. CountExact'
  <2>1. \A u \in Units : count'[u] = count[u] - One(Has(worker[t], u)) + One(Has(w, u))
                                     - One(u \in stored) + One(u \in stored')
    BY <1>1, <1>2 DEF Inv, TypeOK, Has, At, Loop, Idle, Held, Checking, One, Section, FreshOwned
  <2> QED
    BY <1>1, <1>2, <2>1, CountStep DEF Inv
<1>6. HeldAlive'
  BY <1>1, <1>2, <1>4, AliveStep DEF Inv, InUse, Has, At, Loop, Idle, Held, Checking, After
<1>7. MadeFirst'
  BY <1>1, <1>2, <1>4 DEF Inv, TypeOK, MadeFirst, Worker, At, Loop, Idle, Held, Checking
<1>8. Section'
  BY <1>1, <1>2, <1>4 DEF Inv, TypeOK, Section, At, Loop, Idle, Worker, Held, Checking
<1>9. FreshOwned'
  BY <1>1, <1>2, <1>4 DEF Inv, TypeOK, FreshOwned, At, Loop, Idle, Worker, Has, Held, Checking
<1> QED
  BY <1>3, <1>5, <1>6, <1>7, <1>8, <1>9 DEF Inv

(* Every step of a worker keeps the invariant. *)
LEMMA StepInv == Inv /\ [Next]_vars => Inv'
<1> SUFFICES ASSUME Inv, [Next]_vars PROVE Inv'
  OBVIOUS
<1>1. CASE UNCHANGED vars
  BY <1>1 DEF vars, Inv, TypeOK, CountExact, HeldAlive, MadeFirst, Section, FreshOwned,
              Owners, InList, InUse
<1>2. CASE Next
  <2>1. PICK t \in Threads : Step(t)
    BY <1>2 DEF Next
  <2>2. CASE Front(t)
    <3>1. PICK v \in stored : /\ count' = [count EXCEPT ![v] = @ + 1]
                              /\ worker' = [worker EXCEPT ![t] = At("pop", v)]
      BY <2>2 DEF Front
    <3> QED
      BY <2>2, <3>1, FrontInv
  <2>3. CASE \E u \in Units : Receive(t, u)
    BY <2>3, ReceiveInv
  <2>4. CASE \E s \in Sockets : Begin(t, s)
    BY <2>4, BeginInv
  <2>5. CASE Store(t) \/ Decrement(t) \/ Delete(t) \/ Pop(t) \/ End(t)
    BY <2>5, StoreInv, DecrementInv, DeleteInv, PopInv, EndInv
  <2> QED
    BY <2>1, <2>2, <2>3, <2>4, <2>5 DEF Step
<1> QED
  BY <1>1, <1>2

(* The inductive invariant holds in every reachable state. *)
THEOREM InvHolds == Spec => []Inv
BY InitInv, StepInv, PTL DEF Spec

(* Workers, lock, list and counters keep their types. *)
THEOREM TypeCorrect == Spec => []TypeOK
BY InvHolds, PTL DEF Inv

(* refcount_ is the number of handles, however workers interleave. *)
THEOREM CounterExact == Spec => []CountExact
BY InvHolds, PTL DEF Inv

(* A unit somebody can still reach has not been deleted. *)
THEOREM NoUseAfterDelete == Spec => []HeldAlive
BY InvHolds, PTL DEF Inv

-----------------------------------------------------------------------------
(* What is last let go of is deleted.  A worker leaves the check of a unit  *)
(* without deleting it only if the counter says that somebody else has it.  *)
THEOREM NothingLeaks == Spec => []NoLeak
<1>1. Init => NoLeak
  BY DEF Init, NoLeak
<1>2. Inv /\ NoLeak /\ [Next]_vars => NoLeak'
  <2> SUFFICES ASSUME Inv, NoLeak, [Next]_vars PROVE NoLeak'
    OBVIOUS
  <2>0. TypeOK
    BY DEF Inv
  <2>1. CASE UNCHANGED vars
    BY <2>1 DEF vars, NoLeak, InUse
  <2>2. CASE Next
    <3>1. PICK t \in Threads : Step(t)
      BY <2>2 DEF Next
    <3>2. \A o \in Threads : o # t => worker'[o] = worker[o]
      BY <2>0, <3>1 DEF TypeOK, Step, Receive, Store, Decrement, Delete, Begin, Front, Pop, End
    <3> SUFFICES ASSUME NEW u \in made'
                 PROVE  \/ u \in stored' \/ \E o \in Threads : Has(worker'[o], u)
                        \/ \E o \in Threads : worker'[o].at \in Checking /\ worker'[o].unit = u
                        \/ freed'[u] > 0
      BY DEF NoLeak, InUse
    <3>3. CASE \E v \in Units : Receive(t, v)
      BY <2>0, <3>2, <3>3 DEF TypeOK, Receive, Dispatched, NoLeak, InUse, Has, At, Idle, Held, Checking
    <3>4. CASE Store(t)
      BY <2>0, <3>2, <3>4 DEF TypeOK, Store, NoLeak, InUse, Has, At, Held, Checking
    <3>5. CASE Decrement(t)
      BY <2>0, <3>2, <3>5 DEF TypeOK, Decrement, NoLeak, InUse, Has, At, Held, Checking
    <3>6. CASE Delete(t)
      <4> DEFINE v == worker[t].unit
      <4>1. /\ worker[t].at \in Checking /\ v \in Units
            /\ worker'[t] = After(worker[t])
            /\ UNCHANGED << stored, made, count >>
        BY <2>0, <3>6 DEF Delete, TypeOK, Worker, Held, Checking
      <4>2. freed[u] > 0 => freed'[u] > 0
        BY <2>0, <3>6, <4>1 DEF Delete, TypeOK, Inv, MadeFirst
      <4>3. InUse(u) => u \in stored' \/ \E o \in Threads : Has(worker'[o], u)
        BY <3>2, <4>1 DEF InUse, Has, After, At, Idle, Loop, Held, Checking
      <4>4. CASE u # v
        BY <3>2, <4>1, <4>2, <4>3, <4>4 DEF NoLeak
      <4>5. CASE u = v /\ freed[v] = 0 /\ count[v] = 0
        <5>1. ~(freed[v] > 0)
          BY <4>5
        <5>2. freed' = IF count[v] = 0 THEN [freed EXCEPT ![v] = @ + 1] ELSE freed
          BY <3>6, <5>1 DEF Delete, ReadsZero
        <5> QED
          BY <2>0, <4>1, <4>5, <5>2 DEF TypeOK
      <4>6. CASE u = v /\ freed[v] = 0 /\ count[v] # 0
        <5>1. ASSUME Owners(v) = {}, v \notin stored PROVE FALSE
          <6>1. Cardinality(Owners(v)) = 0
            BY <5>1, FS_EmptySet
          <6>2. count[v] = Cardinality(Owners(v)) + InList(v)
            BY <4>1 DEF Inv, CountExact
          <6> QED
            BY <4>6, <5>1, <6>1, <6>2 DEF InList
        <5>2. InUse(v)
          BY <5>1 DEF Owners, InUse
        <5> QED
          BY <4>3, <4>6, <5>2
      <4>7. freed[v] > 0 \/ freed[v] = 0
        BY <2>0, <4>1 DEF TypeOK
      <4> QED
        BY <4>2, <4>4, <4>5, <4>6, <4>7
    <3>7. CASE \E s \in Sockets : Begin(t, s)
      BY <2>0, <3>2, <3>7 DEF TypeOK, Begin, Dispatched, NoLeak, InUse, Has, Idle, Loop, Held, Checking
    <3>8. CASE Front(t)
      BY <2>0, <3>2, <3>8 DEF TypeOK, Front, NoLeak, InUse, Has, At, Held, Checking
    <3>9. CASE Pop(t)
      BY <2>0, <3>2, <3>9 DEF TypeOK, Pop, NoLeak, InUse, Has, At, Held, Checking
    <3>10. CASE End(t)
      BY <2>0, <3>2, <3>10 DEF TypeOK, End, NoLeak, InUse, Has, Idle, Held, Checking
    <3> QED
      BY <3>1, <3>3, <3>4, <3>5, <3>6, <3>7, <3>8, <3>9, <3>10 DEF Step
  <2> QED
    BY <2>1, <2>2
<1> QED
  BY <1>1, <1>2, InvHolds, PTL DEF Spec

-----------------------------------------------------------------------------
(* On a connection that was never shared: no two workers deal with its      *)
(* units, and nobody deals with a unit that was deleted.                     *)
Serial ==
  /\ \A t, o \in Threads :
       /\ worker[t] # Idle /\ worker[o] # Idle
       /\ Fd(worker[t]) = Fd(worker[o]) /\ Fd(worker[t]) \notin shared
       => t = o
  /\ \A t \in Threads :
       worker[t].at \in Held \cup Checking /\ worker[t].unit.fd \notin shared =>
         freed[worker[t].unit] = 0
  /\ \A u \in Units : u.fd \notin shared => freed[u] <= 1

(* With one worker per connection at a time no unit is deleted twice: when  *)
(* the counter reads 0 nobody else has seen, or will see, that unit.        *)
THEOREM NoDoubleDelete == Spec => []DeletedOnce
<1>1. Init => Serial
  BY DEF Init, Serial, Idle, Held, Checking
<1>2. Inv /\ Serial /\ [Next]_vars => Serial'
  <2> SUFFICES ASSUME Inv, Serial, [Next]_vars PROVE Serial'
    OBVIOUS
  <2>0. TypeOK
    BY DEF Inv
  <2>1. CASE UNCHANGED vars
    BY <2>1 DEF vars, Serial
  <2>2. CASE Next
    <3>1. PICK t \in Threads : Step(t)
      BY <2>2 DEF Next
    <3>2. \A o \in Threads : o # t => worker'[o] = worker[o]
      BY <2>0, <3>1 DEF TypeOK, Step, Receive, Store, Decrement, Delete, Begin, Front, Pop, End
    <3>9. shared \subseteq shared'
      BY <3>1 DEF Step, Receive, Store, Decrement, Delete, Begin, Front, Pop, End, Dispatched
    <3>3. CASE \E u \in Units : Receive(t, u)
      <4>1. PICK u \in Units : Receive(t, u)
        BY <3>3
      <4>2. /\ worker'[t] = At("store", u) /\ freed' = freed
            /\ u.fd \notin shared' => \A o \in Threads : worker[o] # Idle => Fd(worker[o]) # u.fd
        BY <2>0, <4>1 DEF TypeOK, Receive, Dispatched, Busy
      <4>3. freed[u] = 0
        BY <4>1 DEF Receive, Inv, MadeFirst
      <4>4. Fd(worker'[t]) = u.fd /\ worker'[t].unit = u
        BY <4>2 DEF Fd, At
      <4> QED
        BY <2>0, <3>2, <3>9, <4>2, <4>3, <4>4 DEF Serial, TypeOK
    <3>4. CASE \E s \in Sockets : Begin(t, s)
      <4>1. PICK s \in Sockets : Begin(t, s)
        BY <3>4
      <4>2. /\ worker'[t] = Loop(s) /\ freed' = freed
            /\ s \notin shared' => \A o \in Threads : worker[o] # Idle => Fd(worker[o]) # s
        BY <2>0, <4>1 DEF TypeOK, Begin, Dispatched, Busy
      <4>3. Fd(worker'[t]) = s /\ worker'[t].at \notin Held \cup Checking
        BY <4>2 DEF Fd, Loop, Held, Checking
      <4> QED
        BY <2>0, <3>2, <3>9, <4>2, <4>3 DEF Serial, TypeOK
    <3>5. CASE Store(t) \/ Decrement(t) \/ Front(t) \/ Pop(t)
      <4>1. /\ worker[t] # Idle /\ worker'[t] # Idle /\ freed' = freed /\ shared' = shared
            /\ Fd(worker'[t]) = Fd(worker[t])
        BY <2>0, <3>5 DEF TypeOK, Worker, Store, Decrement, Front, Pop, Fd, At, Idle, Held, Checking
      <4>2. worker'[t].unit.fd \notin shared => freed[worker'[t].unit] = 0
        BY <2>0, <3>5 DEF TypeOK, Store, Decrement, Front, Pop, At, Serial, Held, Checking,
                         Inv, HeldAlive, InUse
      <4> QED
        BY <2>0, <3>2, <4>1, <4>2 DEF Serial, TypeOK
    <3>6. CASE End(t)
      <4>1. /\ worker'[t] = Idle /\ freed' = freed /\ shared' = shared
            /\ Idle.at \notin Held \cup Checking
        BY <2>0, <3>6 DEF TypeOK, End, Idle, Held, Checking
      <4> QED
        BY <2>0, <3>2, <4>1 DEF Serial, TypeOK
    <3>7. CASE Delete(t)
      <4> DEFINE v == worker[t].unit
      <4>1. /\ worker[t].at \in Checking /\ v \in Units /\ worker[t] # Idle
            /\ worker'[t] = After(worker[t]) /\ Fd(worker[t]) = v.fd /\ shared' = shared
            /\ v.fd \notin shared => freed[v] = 0
        BY <2>0, <3>7 DEF Delete, TypeOK, Worker, Held, Checking, Idle, Fd, Serial
      <4>2. /\ worker'[t] # Idle => Fd(worker'[t]) = v.fd
            /\ worker'[t].at \in Held \cup Checking =>
                 worker[t].at = "popped" /\ worker'[t].unit = v
        BY <4>1 DEF After, At, Idle, Loop, Fd, Held, Checking
      <4>3. v.fd \notin shared =>
              freed' = IF count[v] = 0 THEN [freed EXCEPT ![v] = @ + 1] ELSE freed
        <5> SUFFICES ASSUME v.fd \notin shared
                     PROVE  freed' = IF count[v] = 0 THEN [freed EXCEPT ![v] = @ + 1] ELSE freed
          OBVIOUS
        <5>1. ~(freed[v] > 0)
          BY <4>1
        <5> QED
          BY <3>7, <5>1 DEF Delete, ReadsZero
      <4>10. freed' = freed \/ freed' = [freed EXCEPT ![v] = @ + 1]
        BY <3>7 DEF Delete
      <4>4. ASSUME worker[t].at = "popped" PROVE count[v] # 0
        <5>1. t \in Owners(v)
          BY <4>4 DEF Owners, Has, Held
        <5>2. IsFiniteSet(Owners(v))
          BY BoundsAssumption, FS_Subset DEF Owners
        <5>3. Cardinality(Owners(v)) \in Nat /\ Cardinality(Owners(v)) # 0
          BY <5>1, <5>2, FS_CardinalityType, FS_EmptySet
        <5>4. count[v] = Cardinality(Owners(v)) + InList(v)
          BY <4>1 DEF Inv, CountExact
        <5> QED
          BY <5>3, <5>4 DEF InList
      <4>5. \A o \in Threads :
              /\ o # t /\ worker[o].at \in Held \cup Checking
              /\ worker[o].unit.fd \notin shared
              => worker[o].unit # v
        BY <2>0, <4>1 DEF Serial, Fd, Idle, Held, Checking
      <4>6. \A u \in Units : /\ u.fd \notin shared' => freed'[u] <= 1
                             /\ u # v => freed'[u] = freed[u]
        <5> SUFFICES ASSUME NEW u \in Units
                     PROVE  /\ u.fd \notin shared' => freed'[u] <= 1
                            /\ u # v => freed'[u] = freed[u]
          OBVIOUS
        <5>1. u # v => freed'[u] = freed[u]
          BY <2>0, <4>1, <4>10 DEF TypeOK
        <5>2. CASE u = v
          BY <2>0, <4>1, <4>10, <5>1, <5>2 DEF TypeOK
        <5>3. CASE u # v
          BY <4>1, <5>1, <5>3 DEF Serial
        <5> QED
          BY <5>1, <5>2, <5>3
      <4>7. \A o \in Threads :
              worker'[o].at \in Held \cup Checking /\ worker'[o].unit.fd \notin shared' =>
                freed'[worker'[o].unit] = 0
        <5> SUFFICES ASSUME NEW o \in Threads, worker'[o].at \in Held \cup Checking,
                            worker'[o].unit.fd \notin shared'
                     PROVE  freed'[worker'[o].unit] = 0
          OBVIOUS
        <5>1. CASE o = t
          BY <4>1, <4>2, <4>3, <4>4, <5>1
        <5>2. CASE o # t
          <6>1. worker'[o] = worker[o] /\ worker[o].at \in Held \cup Checking
            BY <3>2, <5>2
          <6>2. worker[o].unit \in Units
            BY <2>0, <6>1 DEF TypeOK, Worker, Held, Checking
          <6>3. worker[o].unit.fd \notin shared
            BY <4>1, <6>1
          <6>4. worker[o].unit # v /\ freed[worker[o].unit] = 0
            BY <4>5, <5>2, <6>1, <6>3 DEF Serial
          <6>5. freed'[worker[o].unit] = freed[worker[o].unit]
            BY <4>6, <6>2, <6>4
          <6> QED
            BY <6>1, <6>4, <6>5
        <5> QED
          BY <5>1, <5>2
      <4>8. \A p, o \in Threads :
              /\ worker'[p] # Idle /\ worker'[o] # Idle
              /\ Fd(worker'[p]) = Fd(worker'[o]) /\ Fd(worker'[p]) \notin shared'
              => p = o
        <5>1. \A o \in Threads : worker'[o] # Idle =>
                worker[o] # Idle /\ Fd(worker'[o]) = Fd(worker[o])
          BY <3>2, <4>1, <4>2
        <5>2. shared' = shared
          BY <4>1
        <5> QED
          BY <5>1, <5>2 DEF Serial
      <4>9. \A u \in Units : u.fd \notin shared' => freed'[u] <= 1
        BY <4>6
      <4> QED
        BY <4>7, <4>8, <4>9 DEF Serial
    <3> QED
      BY <3>1, <3>3, <3>4, <3>5, <3>6, <3>7 DEF Step
  <2> QED
    BY <2>1, <2>2
<1>3. Serial => DeletedOnce
  BY DEF Serial, DeletedOnce
<1> QED
  BY <1>1, <1>2, <1>3, InvHolds, PTL DEF Spec

(* Units are neither left over nor, on connections handled by one worker   *)
(* at a time, deleted twice.                                               *)
THEOREM DeletionExact == Spec => []DeletesExact
  BY NothingLeaks, NoDoubleDelete, PTL DEF DeletesExact
=============================================================================
