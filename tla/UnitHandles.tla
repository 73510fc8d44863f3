---------------------------- MODULE UnitHandles ----------------------------
(***************************************************************************)
(* The handles of ArticleUnit: who holds one, what the counter behind it   *)
(* says and when the unit is deleted                                       *)
(* (src/build/mpl/digest/digest_basic_info.h).                             *)
(*                                                                         *)
(* DigestCache takes a unit to be a value; here it is an object that a     *)
(* worker makes, puts into the shared list under the lock and lets go of   *)
(* outside the lock, while another worker may already take it out again.   *)
(* AddRef is one step; Release decrements the counter in one step and reads*)
(* it again in the next to see whether to delete.                          *)
(***************************************************************************)
EXTENDS Integers, FiniteSets

CONSTANTS
  Sockets,   (* file descriptors of the clients, each with one article     *)
  MaxUnits,  (* bound: units one client sends                              *)
  Threads    (* worker threads                                             *)

ASSUME BoundsAssumption == IsFiniteSet(Threads) /\ MaxUnits \in Nat

VARIABLES
  worker,  (* where each worker is, and the unit it has a local handle of  *)
  lock,    (* lock_ of the cache: {} or the set of its one holder          *)
  stored,  (* units in the list_ of their article                          *)
  made,    (* units that were constructed                                  *)
  count,   (* refcount_ of a unit                                          *)
  freed,   (* how often a unit was deleted                                 *)
  shared   (* history: connections that two workers handled at once        *)

vars == << worker, lock, stored, made, count, freed, shared >>

Units == [fd : Sockets, n : 1 .. MaxUnits]

(* A worker is in OnArticleDigestUnit (store, drop, dropped) or in         *)
(* CreatFullText (loop, pop, popped, text, texted).                        *)
Held     == {"store", "drop", "pop", "popped", "text"}  (* has its own handle *)
Checking == {"dropped", "popped", "texted"}             (* between the halves of Release *)

Worker == [at : {"idle"}] \cup [at : {"loop"}, fd : Sockets]
          \cup [at : Held \cup Checking, unit : Units]

Has(w, u) == w.at \in Held /\ w.unit = u
Owners(u) == {t \in Threads : Has(worker[t], u)}
InList(u) == IF u \in stored THEN 1 ELSE 0

Idle     == [at |-> "idle"]
Loop(s)  == [at |-> "loop", fd |-> s]
At(a, u) == [at |-> a, unit |-> u]

-----------------------------------------------------------------------------
Init ==
  /\ worker = [t \in Threads |-> Idle]
  /\ lock = {}
  /\ stored = {} /\ made = {}
  /\ count = [u \in Units |-> 0]
  /\ freed = [u \in Units |-> 0]
  /\ shared = {}

Fd(w) == IF w.at = "loop" THEN w.fd ELSE w.unit.fd

(* The framework gives an idle worker a message of s, perhaps while others *)
(* are at work on s.                                                       *)
Busy(s) == \E o \in Threads : worker[o] # Idle /\ Fd(worker[o]) = s
Dispatched(t, s) ==
  /\ worker[t] = Idle
  /\ shared' = IF Busy(s) THEN shared \cup {s} ELSE shared

(* OnArticleDigestUnit constructs a unit. *)
Receive(t, u) ==
  /\ Dispatched(t, u.fd) /\ u \notin made
  /\ made' = made \cup {u}
  /\ count' = [count EXCEPT ![u] = 1]
  /\ worker' = [worker EXCEPT ![t] = At("store", u)]
  /\ UNCHANGED << lock, stored, freed >>

StoreWithoutAddRef(t) ==
  /\ worker[t].at = "store" /\ lock = {}
  /\ stored' = stored \cup {worker[t].unit}
  /\ worker' = [worker EXCEPT ![t] = At("drop", @.unit)]
  /\ UNCHANGED << lock, made, count, freed, shared >>

(* SetDigestInfo, under the lock: a copy of the handle goes to the list. *)
Store(t) ==
  /\ worker[t].at = "store" /\ lock = {}
  /\ stored' = stored \cup {worker[t].unit}
  /\ count' = [count EXCEPT ![worker[t].unit] = @ + 1]
  /\ worker' = [worker EXCEPT ![t] = At("drop", @.unit)]
  /\ UNCHANGED << lock, made, freed, shared >>

(* The first half of the Release of a worker's handle: of the argument of  *)
(* SetDigestInfo, after the lock, or of unit in CreatFullText.             *)
Decrement(t) ==
  /\ worker[t].at \in {"drop", "text"}
  /\ count' = [count EXCEPT ![worker[t].unit] = @ - 1]
  /\ worker' = [worker EXCEPT ![t] =
                  At(IF @.at = "drop" THEN "dropped" ELSE "texted", @.unit)]
  /\ UNCHANGED << lock, stored, made, freed, shared >>

(* The second half: delete when the counter reads 0.  What the memory of a *)
(* deleted unit reads is anything.                                         *)
ReadsZero(u) == IF freed[u] > 0 THEN BOOLEAN ELSE {count[u] = 0}

After(w) ==
  IF w.at = "dropped" THEN Idle
  ELSE IF w.at = "popped" THEN At("text", w.unit) ELSE Loop(w.unit.fd)

ForgetsToDelete(t) ==
  /\ worker[t].at \in Checking
  /\ worker' = [worker EXCEPT ![t] = After(@)]
  /\ UNCHANGED << lock, stored, made, count, freed, shared >>

Delete(t) ==
  /\ worker[t].at \in Checking
  /\ \E zero \in ReadsZero(worker[t].unit) :
       freed' = IF zero THEN [freed EXCEPT ![worker[t].unit] = @ + 1] ELSE freed
  /\ worker' = [worker EXCEPT ![t] = After(@)]
  /\ UNCHANGED << lock, stored, made, count, shared >>

BeginAtOnce(t, s) ==
  /\ Dispatched(t, s)
  /\ lock' = lock \cup {t}
  /\ worker' = [worker EXCEPT ![t] = Loop(s)]
  /\ UNCHANGED << stored, made, count, freed >>

(* CreateDigest takes the lock and calls CreatFullText. *)
Begin(t, s) ==
  /\ Dispatched(t, s) /\ lock = {}
  /\ lock' = {t}
  /\ worker' = [worker EXCEPT ![t] = Loop(s)]
  /\ UNCHANGED << stored, made, count, freed >>

(* unit = list_.front().  The order of the list is the subject of           *)
(* DigestCache: any of the stored units will do.                            *)
Front(t) ==
  /\ worker[t].at = "loop"
  /\ \E u \in stored :
       /\ u.fd = worker[t].fd
       /\ count' = [count EXCEPT ![u] = @ + 1]
       /\ worker' = [worker EXCEPT ![t] = At("pop", u)]
  /\ UNCHANGED << lock, stored, made, freed, shared >>

(* list_.pop_front() destroys the handle of the list: the first half. *)
Pop(t) ==
  /\ worker[t].at = "pop"
  /\ stored' = stored \ {worker[t].unit}
  /\ count' = [count EXCEPT ![worker[t].unit] = @ - 1]
  /\ worker' = [worker EXCEPT ![t] = At("popped", @.unit)]
  /\ UNCHANGED << lock, made, freed, shared >>

(* The list is empty: the text is complete. *)
End(t) ==
  /\ worker[t].at = "loop"
  /\ \A u \in stored : u.fd # worker[t].fd
  /\ lock' = {}
  /\ worker' = [worker EXCEPT ![t] = Idle]
  /\ UNCHANGED << stored, made, count, freed, shared >>

Step(t) == \/ \E u \in Units : Receive(t, u)
           \/ Store(t) \/ Decrement(t) \/ Delete(t)
           \/ \E s \in Sockets : Begin(t, s)
           \/ Front(t) \/ Pop(t) \/ End(t)

Next == \E t \in Threads : Step(t)

Spec == Init /\ [][Next]_vars

-----------------------------------------------------------------------------
TypeOK ==
  /\ worker \in [Threads -> Worker]
  /\ lock \in {{}} \cup {{t} : t \in Threads}
  /\ stored \subseteq Units /\ made \subseteq Units
  /\ count \in [Units -> Int]
  /\ freed \in [Units -> Nat]
  /\ shared \subseteq Sockets

(* The counter says how many handles there are: one in each worker that    *)
(* still needs the unit, one in the list.                                   *)
CountExact ==
  \A u \in Units : count[u] = Cardinality(Owners(u)) + InList(u)

InUse(u) == u \in stored \/ \E t \in Threads : Has(worker[t], u)

(* A unit in the list or in the hands of a worker is not deleted, although  *)
(* the worker that made it lets go of it while another one may be taking it *)
(* out of the list.                                                         *)
HeldAlive == \A u \in Units : InUse(u) => u \in made /\ freed[u] = 0

(* A unit nobody holds and nobody is about to check was deleted: whichever  *)
(* Release comes last sees the 0, since the counter only falls towards it.  *)
NoLeak ==
  \A u \in made :
    \/ InUse(u)
    \/ \E t \in Threads : worker[t].at \in Checking /\ worker[t].unit = u
    \/ freed[u] > 0

(* As long as a connection is handled by one worker at a time none of its   *)
(* units is deleted twice, whatever goes on on the other connections.       *)
DeletedOnce == \A u \in Units : u.fd \notin shared => freed[u] <= 1

(* Every unit that was let go of is deleted, or about to be, and none of a *)
(* connection handled by one worker at a time twice.                       *)
DeletesExact == NoLeak /\ DeletedOnce
=============================================================================
