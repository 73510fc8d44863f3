--------------------------- MODULE PatternsProofs ---------------------------
(* What is proved of pattern automata, for every Nfa, automaton and text:  *)
(* the construction, the matching functions, the two files, and the whole. *)
EXTENDS Patterns, FiniteSetTheorems, SequenceTheorems, WellFoundedInduction, TLAPS

-----------------------------------------------------------------------------
(* InitFromNfa builds the subset automaton: the invariant says what the    *)
(* set under construction is the closure of (Closing), and where the node  *)
(* being expanded stands in the queue and how many of its edges are there  *)
(* (Loops).                                                                *)
NodeOf(C) == [type : Int, next : [C -> {NoNode} \cup Nat]]
Node == NodeOf(SymbolsOf(nfa))
Ids  == 0 .. Len(nodes) - 1
Busy == pc = "move" \/ (pc = "close" /\ sym > 0)

BuildTyped ==
  /\ IsNfa(nfa)
  /\ pc \in {"start", "close", "take", "move", "built"}
  /\ nfa_set \subseteq nfa.ids /\ queue \subseteq nfa_set
  /\ nodes \in Seq(Node) /\ id_map \in Seq(SUBSET nfa.ids)
  /\ Len(nodes) = Len(id_map)
  /\ accept_types \subseteq Int
  /\ dfa_queue \in Seq(Nat) /\ \A q \in 1 .. Len(dfa_queue) : dfa_queue[q] \in Ids
  /\ dfa_mark \subseteq Ids
  /\ sym \in Nat

(* There is a node once the start has been closed; the one being expanded  *)
(* is the first of the queue; a node that was not expanded is in it.       *)
Loops ==
  /\ pc = "start" => sym = 0
  /\ pc \in {"start", "close"} /\ sym = 0 =>
       /\ nodes = <<>> /\ id_map = <<>> /\ accept_types = {}
       /\ dfa_queue = <<>> /\ dfa_mark = {}
  /\ pc \in {"take", "move", "built"} \/ sym > 0 => nodes # <<>>
  /\ Busy => /\ dfa_queue # <<>> /\ Taken \in dfa_mark
             /\ sym \in 1 .. Len(nfa.symbols) + 1
             /\ pc = "close" => sym <= Len(nfa.symbols)
  /\ pc = "move" => sym > 0
  /\ pc = "built" => dfa_queue = <<>>
  /\ \A k \in Ids : k \in dfa_mark \/ \E q \in 1 .. Len(dfa_queue) : dfa_queue[q] = k

(* The closure under way: it contains the set it is the closure of, lies   *)
(* in every closed set that does, and only the queue may miss successors.  *)
Base == IF sym = 0 THEN {nfa.start} ELSE Move(nfa, id_map[Taken + 1], Symbol)

Grows(a, set, rest, of) ==
  /\ of \subseteq set
  /\ \A m \in set \ rest : \A n \in a.succ[m] : a.symbol[n] = Epsilon => n \in set
  /\ \A c \in SUBSET a.ids : of \subseteq c /\ Closed(a, c) => set \subseteq c

Closing == pc = "close" => Grows(nfa, nfa_set, queue, Base)

TypesOf(ns) == { ns[k].type : k \in 1 .. Len(ns) } \ {-1}
Distinct(im) == \A k, l \in 1 .. Len(im) : im[k] = im[l] => k = l
Typed(a, ns, im) == \A k \in 1 .. Len(ns) : ns[k].type = TypeOf(a, im[k])

Subsets ==
  /\ Distinct(id_map) /\ Typed(nfa, nodes, id_map)
  /\ accept_types = TypesOf(nodes)
  /\ nodes # <<>> => IsClosure(nfa, id_map[1], {nfa.start})

(* EdgeExact of any nodes and sets.                                        *)
Exact(a, ns, im, k, c) ==
  IF ns[k + 1].next[c] = NoNode THEN Move(a, im[k + 1], c) = {}
  ELSE /\ ns[k + 1].next[c] + 1 \in 1 .. Len(im)
       /\ IsClosure(a, im[ns[k + 1].next[c] + 1], Move(a, im[k + 1], c))

EdgesOK ==
  /\ \A k \in dfa_mark \ Expanding : \A c \in SymbolsOf(nfa) :
       Exact(nfa, nodes, id_map, k, c)
  /\ \A k \in Ids \ dfa_mark : \A c \in SymbolsOf(nfa) : nodes[k + 1].next[c] = NoNode
  /\ Busy => \A p \in 1 .. Len(nfa.symbols) :
       IF p < sym THEN Exact(nfa, nodes, id_map, Taken, nfa.symbols[p])
       ELSE nodes[Taken + 1].next[nfa.symbols[p]] = NoNode

BuildInv == BuildTyped /\ Loops /\ Closing /\ Subsets /\ EdgesOK

-----------------------------------------------------------------------------
(* A finite set of numbers that is not empty has a greatest one.           *)
LEMMA Greatest ==
  ASSUME NEW S \in SUBSET Nat, IsFiniteSet(S), S # {}
  PROVE  \E n \in S : \A m \in S : m <= n
<1> DEFINE Above(n) == { m \in S : m > n }
           T == { Above(n) : n \in S }
<1>1. IsWellFoundedOn(StrictSubsetOrdering(S), FiniteSubsetsOf(S))
  BY FS_StrictSubsetOrderingWellFounded
<1>2. FiniteSubsetsOf(S) = SUBSET S
  BY FS_FiniteSubsetsOfFinite
<1>3. T \subseteq SUBSET S /\ T # {}
  OBVIOUS
<1>4. \E x \in T : \A y \in T : ~(<<y, x>> \in StrictSubsetOrdering(S))
  <2>1. IsWellFoundedOn(StrictSubsetOrdering(S), SUBSET S)
    BY <1>1, <1>2
  <2> HIDE DEF T
  <2> QED
    BY <1>3, <2>1, WFMin
<1>5. PICK n \in S : \A y \in T : ~(<<y, Above(n)>> \in StrictSubsetOrdering(S))
  BY <1>4
<1>6. ASSUME NEW m \in S, m > n
      PROVE  FALSE
  <2>1. Above(m) \in T
    OBVIOUS
  <2>2. Above(m) \subseteq Above(n)
    <3>1. ASSUME NEW k \in S, k > m PROVE k > n
      <4>1. k \in Nat /\ m \in Nat /\ n \in Nat
        OBVIOUS
      <4> QED
        BY <1>6, <3>1, <4>1
    <3> QED
      BY <3>1
  <2>3. m \in Above(n) /\ m \notin Above(m)
    <3>1. m \in Nat
      OBVIOUS
    <3> QED
      BY <1>6, <3>1
  <2>4. <<Above(m), Above(n)>> \in StrictSubsetOrdering(S)
    <3>1. Above(m) \in SUBSET S /\ Above(n) \in SUBSET S /\ Above(m) # Above(n)
      BY <2>3
    <3> HIDE DEF Above
    <3> QED
      BY <2>2, <3>1 DEF StrictSubsetOrdering
  <2> QED
    BY <1>5, <2>1, <2>4
<1> QED
  BY <1>6

(* The type of a set is -1 or an accepting one.                            *)
LEMMA TypeOfSet ==
  ASSUME NEW a, IsNfa(a), NEW set \in SUBSET a.ids
  PROVE  TypeOf(a, set) \in Int /\ (TypeOf(a, set) = -1 \/ TypeOf(a, set) > 0)
<1> DEFINE final == { n \in set : a.type[n] > 0 }
<1>1. CASE final = {}
  BY <1>1 DEF TypeOf
<1>2. CASE final # {}
  <2>1. final \in SUBSET Nat /\ IsFiniteSet(final)
    BY FS_Subset DEF IsNfa
  <2>2. \E n \in final : \A m \in final : m <= n
    BY <1>2, <2>1, Greatest
  <2> DEFINE last == CHOOSE n \in final : \A m \in final : m <= n
  <2>3. last \in final
    BY <2>2
  <2>4. TypeOf(a, set) = a.type[last]
    BY <1>2 DEF TypeOf
  <2>5. a.type[last] > 0 /\ last \in a.ids
    BY <2>3
  <2> HIDE DEF last
  <2> QED
    BY <2>4, <2>5 DEF IsNfa
<1> QED
  BY <1>1, <1>2

(* A closure with an empty queue is complete.                              *)
LEMMA GrownClosure ==
  ASSUME NEW a, NEW set, NEW of, Grows(a, set, {}, of) PROVE IsClosure(a, set, of)
BY DEF Grows, IsClosure, Closed

(* One round of a closure.                                                 *)
LEMMA GrowsOn ==
  ASSUME NEW a, IsNfa(a), NEW set \in SUBSET a.ids, NEW rest \in SUBSET set, NEW of,
         Grows(a, set, rest, of), NEW n \in rest,
         NEW new, new = { m \in a.succ[n] : a.symbol[m] = Epsilon } \ set
  PROVE  Grows(a, set \cup new, (rest \ {n}) \cup new, of)
<1>1. of \subseteq set \cup new
  BY DEF Grows
<1>2. ASSUME NEW m \in (set \cup new) \ ((rest \ {n}) \cup new),
             NEW k \in a.succ[m], a.symbol[k] = Epsilon
      PROVE  k \in set \cup new
  BY <1>2 DEF Grows
<1>3. ASSUME NEW c \in SUBSET a.ids, of \subseteq c, Closed(a, c)
      PROVE  set \cup new \subseteq c
  BY <1>3 DEF Grows, Closed
<1> QED
  BY <1>1, <1>2, <1>3 DEF Grows

(* An exact edge stays exact when nodes are added.                         *)
LEMMA ExactStays ==
  ASSUME NEW a, NEW ns, NEW im, NEW ns2, NEW im2, NEW k \in Nat, NEW c,
         Len(im) \in Nat, Len(im2) \in Nat, Len(im) <= Len(im2),
         k + 1 \in 1 .. Len(im), \A n \in 1 .. Len(im) : im2[n] = im[n],
         ns2[k + 1].next[c] = ns[k + 1].next[c], Exact(a, ns, im, k, c)
  PROVE  Exact(a, ns2, im2, k, c)
<1> DEFINE to == ns[k + 1].next[c]
<1>1. CASE to = NoNode
  BY <1>1 DEF Exact
<1>2. CASE to # NoNode
  <2>1. to + 1 \in 1 .. Len(im) /\ im2[k + 1] = im[k + 1]
    BY <1>2 DEF Exact
  <2>2. to + 1 \in 1 .. Len(im2) /\ im2[to + 1] = im[to + 1]
    BY <2>1
  <2> QED
    BY <1>2, <2>1, <2>2 DEF Exact
<1> QED
  BY <1>1, <1>2

(* A queue with one more element.                                          *)
LEMMA Queued ==
  ASSUME NEW s \in Seq(Nat), s # <<>>, NEW e \in Nat, NEW t, t = Append(s, e)
  PROVE  /\ t \in Seq(Nat) /\ t # <<>> /\ Head(t) = Head(s) /\ Len(t) = Len(s) + 1
         /\ t[Len(s) + 1] = e /\ \A q \in 1 .. Len(s) : t[q] = s[q]
<1>1. t \in Seq(Nat) /\ Len(t) = Len(s) + 1 /\ t[Len(s) + 1] = e
      /\ \A q \in 1 .. Len(s) : t[q] = s[q]
  OBVIOUS
<1>2. Len(s) \in Nat /\ Len(s) > 0 /\ 1 \in 1 .. Len(s)
  OBVIOUS
<1>3. t # <<>> /\ Head(t) = t[1] /\ Head(s) = s[1]
  BY <1>1, <1>2
<1> QED
  BY <1>1, <1>2, <1>3

(* A sequence of nodes in which one edge of one node is set.               *)
LEMMA EdgeSet ==
  ASSUME NEW C, NEW s \in Seq(NodeOf(C)),
         NEW x \in 1 .. Len(s), NEW c \in C, NEW to \in Nat,
         NEW t, t = [s EXCEPT ![x].next[c] = to]
  PROVE  /\ t \in Seq(NodeOf(C)) /\ Len(t) = Len(s)
         /\ \A n \in 1 .. Len(s) : t[n].type = s[n].type /\ (n # x => t[n] = s[n])
         /\ t[x].next[c] = to /\ \A d \in C : d # c => t[x].next[d] = s[x].next[d]
<1> DEFINE f == [s[x].next EXCEPT ![c] = to]
           w == [s[x] EXCEPT !.next = f]
<1>1. s[x] \in NodeOf(C)
  BY ElementOfSeq
<1>2. s[x].next \in [C -> {NoNode} \cup Nat] /\ s[x].type \in Int
  BY <1>1 DEF NodeOf
<1>3. f \in [C -> {NoNode} \cup Nat] /\ f[c] = to /\ \A d \in C : d # c => f[d] = s[x].next[d]
  BY <1>2
<1> HIDE DEF f
<1>4. w \in NodeOf(C) /\ w.next = f /\ w.type = s[x].type
  BY <1>1, <1>3 DEF NodeOf
<1>5. t = [s EXCEPT ![x] = w]
  BY DEF f
<1> HIDE DEF w
<1>7. t \in Seq(NodeOf(C)) /\ Len(t) = Len(s) /\ t[x] = w
      /\ \A n \in 1 .. Len(s) : n # x => t[n] = s[n]
  <2>1. w \in NodeOf(C) /\ x \in 1 .. Len(s)
    BY <1>4
  <2> DEFINE u == [s EXCEPT ![x] = w]
  <2>2. /\ u \in Seq(NodeOf(C)) /\ Len(u) = Len(s)
        /\ \A z \in 1 .. Len(s) : u[z] = IF z = x THEN w ELSE s[z]
    BY <2>1, ExceptSeq
  <2>3. t = u
    BY <1>5
  <2> HIDE DEF u
  <2> QED
    BY <2>1, <2>2, <2>3
<1>8. \A n \in 1 .. Len(s) : t[n].type = s[n].type
  BY <1>4, <1>7
<1> QED
  BY <1>3, <1>4, <1>7, <1>8

-----------------------------------------------------------------------------
(* The initial states satisfy the invariant.                               *)
LEMMA BuildInitInv == BuildInit => BuildInv
<1> SUFFICES ASSUME BuildInit PROVE BuildInv
  OBVIOUS
<1>1. /\ IsNfa(nfa) /\ pc = "start" /\ nfa_set = {} /\ queue = {} /\ nodes = <<>>
      /\ id_map = <<>> /\ accept_types = {} /\ dfa_queue = <<>> /\ dfa_mark = {}
      /\ sym = 0 /\ Len(nodes) = 0 /\ Len(id_map) = 0 /\ Len(dfa_queue) = 0
  BY DEF BuildInit
<1>2. nodes \in Seq(Node) /\ id_map \in Seq(SUBSET nfa.ids) /\ dfa_queue \in Seq(Nat)
  BY <1>1
<1>3. BuildTyped
  BY <1>1, <1>2 DEF BuildTyped
<1>4. Loops /\ Closing
  BY <1>1 DEF Loops, Closing, Busy, Ids
<1>5. Subsets /\ EdgesOK
  BY <1>1 DEF Subsets, Distinct, Typed, TypesOf, EdgesOK, Ids, Busy
<1> QED
  BY <1>3, <1>4, <1>5 DEF BuildInv

(* What the steps leave alone that add neither nodes nor edges.            *)
Still == UNCHANGED <<nfa, nodes, id_map, accept_types>>

LEMMA StillSubsets == ASSUME Subsets, Still PROVE Subsets'
BY DEF Still, Subsets, Distinct, Typed, TypesOf

(* The closure of the start begins.                                        *)
LEMMA StartInv == ASSUME BuildInv, StartNode PROVE BuildInv'
<1>1. /\ pc = "start" /\ pc' = "close" /\ nfa_set' = {nfa.start} /\ queue' = {nfa.start}
      /\ Still /\ UNCHANGED <<dfa_queue, dfa_mark, sym>> /\ sym = 0 /\ ~Busy /\ ~Busy'
  BY DEF StartNode, Close, Still, BuildInv, Loops, Busy, BuildTyped
<1>2. BuildTyped'
  BY <1>1 DEF BuildInv, BuildTyped, Still, Node, SymbolsOf, Ids, IsNfa
<1>3. Loops'
  BY <1>1 DEF BuildInv, Loops, Still, Ids
<1>4. Closing'
  BY <1>1 DEF Closing, Grows, Base, Still
<1>5. EdgesOK'
  BY <1>1 DEF BuildInv, Loops, EdgesOK, Still, Ids, SymbolsOf
<1> QED
  BY <1>1, <1>2, <1>3, <1>4, <1>5, StillSubsets DEF BuildInv

(* A round of the closure.                                                 *)
LEMMA ClosureInv == ASSUME BuildInv, EpsilonClosure PROVE BuildInv'
<1>1. pc = "close" /\ Still /\ UNCHANGED <<pc, dfa_queue, dfa_mark, sym>>
  BY DEF EpsilonClosure, Still
<1>2. PICK n \in queue :
        /\ nfa_set' = nfa_set \cup ({ m \in nfa.succ[n] : nfa.symbol[m] = Epsilon } \ nfa_set)
        /\ queue' = (queue \ {n}) \cup
                    ({ m \in nfa.succ[n] : nfa.symbol[m] = Epsilon } \ nfa_set)
  BY DEF EpsilonClosure
<1> DEFINE new == { m \in nfa.succ[n] : nfa.symbol[m] = Epsilon } \ nfa_set
<1>3. IsNfa(nfa) /\ nfa_set \in SUBSET nfa.ids /\ queue \in SUBSET nfa_set
  BY DEF BuildInv, BuildTyped
<1>4. new \subseteq nfa.ids
  BY <1>3 DEF IsNfa
<1>5. Grows(nfa, nfa_set, queue, Base)
  BY <1>1 DEF BuildInv, Closing
<1>6. Grows(nfa, nfa_set', queue', Base)
  <2>1. Grows(nfa, nfa_set \cup new, (queue \ {n}) \cup new, Base)
    BY <1>3, <1>5, GrowsOn
  <2> QED
    BY <1>2, <2>1
<1>7. Base' = Base
  BY <1>1 DEF Base, Still, Taken, Symbol
<1>8. Closing'
  BY <1>1, <1>6, <1>7 DEF Closing, Still
<1>9. BuildTyped'
  <2>1. nfa_set' \subseteq nfa.ids /\ queue' \subseteq nfa_set'
    BY <1>2, <1>3, <1>4
  <2> QED
    BY <1>1, <2>1 DEF BuildInv, BuildTyped, Still, Node, SymbolsOf, Ids
<1>10. Loops'
  BY <1>1 DEF BuildInv, Loops, Busy, Taken, Still, Ids
<1>11. EdgesOK'
  BY <1>1 DEF BuildInv, EdgesOK, Busy, Taken, Still, Ids, SymbolsOf, Expanding
<1> QED
  BY <1>1, <1>8, <1>9, <1>10, <1>11, StillSubsets DEF BuildInv

-----------------------------------------------------------------------------
(* CreateDfaNode: nodes and sets afterwards.                               *)
LEMMA Created ==
  ASSUME BuildInv, CreateDfaNode
  PROVE  /\ id_map' \in Seq(SUBSET nfa.ids) /\ WithNode \in Seq(Node)
         /\ Len(WithNode) = Len(id_map') /\ Len(id_map) <= Len(id_map')
         /\ \A n \in 1 .. Len(id_map) : id_map'[n] = id_map[n] /\ WithNode[n] = nodes[n]
         /\ NodeId \in 0 .. Len(id_map') - 1 /\ id_map'[NodeId + 1] = nfa_set
         /\ \A k \in Len(nodes) .. Len(WithNode) - 1 :
              /\ k = NodeId
              /\ \A c \in SymbolsOf(nfa) : WithNode[k + 1].next[c] = NoNode
         /\ Distinct(id_map') /\ Typed(nfa, WithNode, id_map')
         /\ accept_types' = TypesOf(WithNode) /\ accept_types' \subseteq Int
<1>1. /\ nodes \in Seq(Node) /\ id_map \in Seq(SUBSET nfa.ids) /\ nfa_set \in SUBSET nfa.ids
      /\ Len(nodes) = Len(id_map) /\ Len(nodes) \in Nat /\ IsNfa(nfa)
      /\ accept_types \subseteq Int /\ accept_types = TypesOf(nodes)
      /\ Distinct(id_map) /\ Typed(nfa, nodes, id_map)
  BY DEF BuildInv, BuildTyped, Subsets
<1>2. CASE Known # {}
  <2>1. id_map' = id_map /\ WithNode = nodes /\ accept_types' = accept_types
    BY <1>2 DEF CreateDfaNode, WithNode
  <2>2. PICK k \in Known : NodeId = k - 1
    BY <1>2 DEF NodeId
  <2>3. k \in 1 .. Len(id_map) /\ id_map[k] = nfa_set
    BY <2>2 DEF Known
  <2>4. NodeId \in 0 .. Len(id_map') - 1 /\ id_map'[NodeId + 1] = nfa_set
    BY <1>1, <2>1, <2>2, <2>3
  <2> QED
    BY <1>1, <2>1, <2>4
<1>3. CASE Known = {}
  <2>1. id_map' = Append(id_map, nfa_set) /\ WithNode = Append(nodes, NewNode)
        /\ NodeId = Len(nodes)
    BY <1>3 DEF CreateDfaNode, WithNode, NodeId
  <2>2. NewNode \in Node /\ NewNode.type = TypeOf(nfa, nfa_set)
        /\ \A c \in SymbolsOf(nfa) : NewNode.next[c] = NoNode
    BY <1>1, TypeOfSet DEF NewNode, Node, NodeOf
  <2> DEFINE im == Append(id_map, nfa_set)
             ns == Append(nodes, NewNode)
  <2>3. /\ im \in Seq(SUBSET nfa.ids) /\ Len(im) = Len(id_map) + 1
        /\ im[Len(id_map) + 1] = nfa_set /\ \A n \in 1 .. Len(id_map) : im[n] = id_map[n]
    BY <1>1
  <2>4. /\ ns \in Seq(Node) /\ Len(ns) = Len(nodes) + 1
        /\ ns[Len(nodes) + 1] = NewNode /\ \A n \in 1 .. Len(nodes) : ns[n] = nodes[n]
    BY <1>1, <2>2
  <2> HIDE DEF im, ns
  <2>5. \A n \in 1 .. Len(id_map) : id_map[n] # nfa_set
    BY <1>3 DEF Known
  <2>6. Distinct(im)
    <3> SUFFICES ASSUME NEW k \in 1 .. Len(im), NEW l \in 1 .. Len(im), im[k] = im[l]
                 PROVE  k = l
      BY DEF Distinct
    <3>1. CASE k <= Len(id_map) /\ l <= Len(id_map)
      BY <1>1, <2>3, <3>1 DEF Distinct
    <3>2. CASE k = Len(id_map) + 1 \/ l = Len(id_map) + 1
      BY <1>1, <2>3, <2>5, <3>2
    <3> QED
      BY <1>1, <2>3, <3>1, <3>2
  <2>7. Typed(nfa, ns, im)
    <3> SUFFICES ASSUME NEW k \in 1 .. Len(ns) PROVE ns[k].type = TypeOf(nfa, im[k])
      BY DEF Typed
    <3>1. CASE k <= Len(nodes)
      BY <1>1, <2>3, <2>4, <3>1 DEF Typed
    <3>2. CASE k = Len(nodes) + 1
      BY <1>1, <2>2, <2>3, <2>4, <3>2
    <3> QED
      BY <1>1, <2>4, <3>1, <3>2
  <2>8. accept_types' = TypesOf(ns)
    <3>1. NewNode.type \in Int /\ (NewNode.type = -1 \/ NewNode.type > 0)
      BY <1>1, <2>2, TypeOfSet
    <3>2. accept_types' = accept_types \cup ({NewNode.type} \ {-1})
      BY <1>3, <3>1 DEF CreateDfaNode
    <3>3. { ns[k].type : k \in 1 .. Len(ns) }
            = { nodes[k].type : k \in 1 .. Len(nodes) } \cup {NewNode.type}
      <4>1. 1 .. Len(ns) = (1 .. Len(nodes)) \cup {Len(nodes) + 1}
        BY <1>1, <2>4
      <4> QED
        BY <2>4, <4>1
    <3> QED
      BY <1>1, <3>2, <3>3 DEF TypesOf
  <2>9. accept_types' \subseteq Int
    <3>1. NewNode.type \in Int
      BY <1>1, <2>2, TypeOfSet
    <3> QED
      BY <1>1, <3>1 DEF CreateDfaNode
  <2>10. \A k \in Len(nodes) .. Len(ns) - 1 : k = Len(nodes)
    BY <1>1, <2>4
  <2>11. id_map' = im /\ WithNode = ns
    BY <2>1 DEF im, ns
  <2> QED
    BY <1>1, <2>1, <2>2, <2>3, <2>4, <2>6, <2>7, <2>8, <2>9, <2>10, <2>11
<1> QED
  BY <1>2, <1>3

(* The node of the start: the first one.                                   *)
LEMMA FirstInv == ASSUME BuildInv, FirstNode PROVE BuildInv'
<1>1. /\ sym = 0 /\ CreateDfaNode /\ nodes' = WithNode /\ pc' = "take" /\ pc = "close"
      /\ dfa_queue' = Append(dfa_queue, NodeId) /\ queue = {}
      /\ UNCHANGED <<nfa, nfa_set, queue, dfa_mark, sym>>
  BY DEF FirstNode, CreateDfaNode
<1>2. /\ nodes = <<>> /\ id_map = <<>> /\ dfa_queue = <<>> /\ dfa_mark = {}
      /\ Len(nodes) = 0 /\ Len(id_map) = 0
  BY <1>1 DEF BuildInv, Loops
<1>3. NodeId = 0 /\ Len(nodes') = 1 /\ Len(id_map') = 1 /\ id_map'[1] = nfa_set
  <2>1. Known = {}
    BY <1>2 DEF Known
  <2>2. id_map' = Append(id_map, nfa_set) /\ WithNode = Append(nodes, NewNode)
    BY <1>1, <2>1 DEF CreateDfaNode, WithNode
  <2> QED
    BY <1>1, <1>2, <2>1, <2>2 DEF NodeId
<1>4. dfa_queue' = <<0>> /\ Len(dfa_queue') = 1 /\ dfa_queue'[1] = 0 /\ Ids' = {0}
  BY <1>1, <1>2, <1>3 DEF Ids
<1>5. BuildTyped'
  <2>1. nodes' \in Seq(Node') /\ id_map' \in Seq(SUBSET nfa.ids) /\ accept_types' \subseteq Int
    BY <1>1, Created DEF Node, SymbolsOf
  <2>2. dfa_queue' \in Seq(Nat)
    BY <1>4
  <2> QED
    BY <1>1, <1>2, <1>3, <1>4, <2>1, <2>2 DEF BuildInv, BuildTyped
<1>6. Loops'
  <2>1. nodes' # <<>>
    BY <1>3
  <2> QED
    BY <1>1, <1>4, <2>1 DEF Loops, Busy
<1>7. Subsets'
  <2>1. IsClosure(nfa, nfa_set, {nfa.start})
    BY <1>1, GrownClosure DEF BuildInv, Closing, Base
  <2> QED
    BY <1>1, <1>3, <2>1, Created DEF Subsets
<1>8. EdgesOK'
  <2>1. \A c \in SymbolsOf(nfa) : nodes'[1].next[c] = NoNode
    BY <1>1, <1>2, <1>3, Created
  <2> QED
    BY <1>1, <1>2, <1>4, <2>1 DEF EdgesOK, Busy, Expanding
<1> QED
  BY <1>1, <1>5, <1>6, <1>7, <1>8 DEF BuildInv, Closing

(* An edge of the node being expanded, and the node it leads to.           *)
LEMMA EdgeInv == ASSUME BuildInv, AddEdge PROVE BuildInv'
<1>1. /\ sym > 0 /\ CreateDfaNode /\ pc = "close" /\ pc' = "move" /\ queue = {} /\ Busy /\ Busy'
      /\ nodes' = [WithNode EXCEPT ![Taken + 1].next[Symbol] = NodeId]
      /\ dfa_queue' = (IF NodeId \in dfa_mark THEN dfa_queue ELSE Append(dfa_queue, NodeId))
      /\ sym' = sym + 1 /\ UNCHANGED <<nfa, nfa_set, queue, dfa_mark>>
  BY DEF AddEdge, CreateDfaNode, Busy
<1>2. /\ dfa_queue \in Seq(Nat) /\ dfa_queue # <<>> /\ Taken \in dfa_mark /\ Taken \in Ids
      /\ sym \in 1 .. Len(nfa.symbols) /\ Len(nfa.symbols) \in Nat
      /\ Len(nodes) \in Nat /\ Len(nodes) = Len(id_map) /\ Len(dfa_queue) \in Nat
      /\ dfa_mark \subseteq Ids /\ IsNfa(nfa)
  <2>1. /\ dfa_queue \in Seq(Nat) /\ dfa_queue # <<>> /\ Taken \in dfa_mark
        /\ sym \in 1 .. Len(nfa.symbols) + 1 /\ sym <= Len(nfa.symbols)
    BY <1>1 DEF BuildInv, BuildTyped, Loops
  <2>2. /\ nodes \in Seq(Node) /\ Len(nodes) = Len(id_map)
        /\ dfa_mark \subseteq Ids /\ IsNfa(nfa)
    BY DEF BuildInv, BuildTyped
  <2>3. Len(nfa.symbols) \in Nat
    BY <2>2 DEF IsNfa
  <2> QED
    BY <2>1, <2>2, <2>3
<1>3. Symbol \in SymbolsOf(nfa)
  BY <1>2 DEF Symbol, SymbolsOf
<1>4. /\ WithNode \in Seq(Node) /\ Len(WithNode) \in Nat /\ Len(WithNode) = Len(id_map')
      /\ Len(id_map) <= Len(id_map') /\ Len(id_map') \in Nat
      /\ NodeId \in 0 .. Len(WithNode) - 1 /\ NodeId \in Nat /\ Taken + 1 \in 1 .. Len(WithNode)
      /\ Taken + 1 \in 1 .. Len(nodes)
      /\ \A n \in 1 .. Len(id_map) : id_map'[n] = id_map[n] /\ WithNode[n] = nodes[n]
      /\ id_map'[NodeId + 1] = nfa_set
  BY <1>1, <1>2, Created DEF Ids
<1>5. /\ nodes' \in Seq(Node) /\ Len(nodes') = Len(WithNode)
      /\ \A n \in 1 .. Len(WithNode) : nodes'[n].type = WithNode[n].type
      /\ \A n \in 1 .. Len(WithNode) : n # Taken + 1 => nodes'[n] = WithNode[n]
      /\ nodes'[Taken + 1].next[Symbol] = NodeId
      /\ \A c \in SymbolsOf(nfa) : c # Symbol =>
           nodes'[Taken + 1].next[c] = WithNode[Taken + 1].next[c]
  <2>1. WithNode \in Seq(NodeOf(SymbolsOf(nfa)))
    BY <1>4 DEF Node
  <2> QED
    BY <1>1, <1>3, <1>4, <2>1, EdgeSet DEF Node
<1>6. \A c \in SymbolsOf(nfa) : c # Symbol =>
        nodes'[Taken + 1].next[c] = nodes[Taken + 1].next[c]
  BY <1>2, <1>4, <1>5
<1>8. /\ \A n \in 1 .. Len(nodes') : nodes'[n].type = WithNode[n].type
      /\ Len(nodes') = Len(id_map') /\ Len(nodes) <= Len(nodes') /\ Len(nodes') \in Nat
  <2>1. Len(nodes') = Len(WithNode)
    BY <1>5
  <2>2. \A n \in 1 .. Len(WithNode) : nodes'[n].type = WithNode[n].type
    BY <1>5
  <2> QED
    BY <1>2, <1>4, <2>1, <2>2
<1>9. /\ Head(dfa_queue') = Taken /\ dfa_queue' # <<>> /\ dfa_queue' \in Seq(Nat)
      /\ Len(dfa_queue') \in Nat
      /\ \A q \in 1 .. Len(dfa_queue) : q \in 1 .. Len(dfa_queue') /\ dfa_queue'[q] = dfa_queue[q]
      /\ \A q \in 1 .. Len(dfa_queue') : q \in 1 .. Len(dfa_queue) \/ dfa_queue'[q] = NodeId
      /\ NodeId \in dfa_mark \/ \E q \in 1 .. Len(dfa_queue') : dfa_queue'[q] = NodeId
  <2>1. CASE NodeId \in dfa_mark
    BY <1>1, <1>2, <2>1 DEF Taken
  <2>2. CASE NodeId \notin dfa_mark
    <3>1. dfa_queue' = Append(dfa_queue, NodeId)
      BY <1>1, <2>2
    <3>2. /\ dfa_queue' \in Seq(Nat) /\ dfa_queue' # <<>> /\ Head(dfa_queue') = Head(dfa_queue)
          /\ Len(dfa_queue') = Len(dfa_queue) + 1 /\ dfa_queue'[Len(dfa_queue) + 1] = NodeId
          /\ \A q \in 1 .. Len(dfa_queue) : dfa_queue'[q] = dfa_queue[q]
      BY <1>2, <1>4, <3>1, Queued
    <3>3. Len(dfa_queue) + 1 \in 1 .. Len(dfa_queue')
      BY <1>2, <3>2
    <3>4. \A q \in 1 .. Len(dfa_queue') : q \in 1 .. Len(dfa_queue) \/ dfa_queue'[q] = NodeId
      <4> SUFFICES ASSUME NEW q \in 1 .. Len(dfa_queue'), q \notin 1 .. Len(dfa_queue)
                   PROVE  dfa_queue'[q] = NodeId
        OBVIOUS
      <4>1. q = Len(dfa_queue) + 1
        BY <1>2, <3>2
      <4> QED
        BY <3>2, <4>1
    <3>5. \A q \in 1 .. Len(dfa_queue) : q \in 1 .. Len(dfa_queue')
      BY <1>2, <3>2
    <3>6. Len(dfa_queue') \in Nat
      BY <1>2, <3>2
    <3> QED
      BY <3>2, <3>3, <3>4, <3>5, <3>6 DEF Taken
  <2> QED
    BY <2>1, <2>2
<1>10. Taken' = Taken
  BY <1>9 DEF Taken
<1>11. BuildTyped'
  <2>1. nodes' \in Seq(Node') /\ id_map' \in Seq(SUBSET nfa.ids) /\ accept_types' \subseteq Int
    BY <1>1, <1>5, Created DEF Node, SymbolsOf
  <2>2. Ids \subseteq Ids' /\ NodeId \in Ids'
    BY <1>2, <1>4, <1>5, <1>8 DEF Ids
  <2>3. \A q \in 1 .. Len(dfa_queue') : dfa_queue'[q] \in Ids'
    BY <1>9, <2>2 DEF BuildInv, BuildTyped
  <2> QED
    BY <1>1, <1>2, <1>8, <1>9, <2>1, <2>2, <2>3 DEF BuildInv, BuildTyped
<1>12. Loops'
  <2>1. nodes' # <<>>
    BY <1>2, <1>4, <1>5
  <2>2. ASSUME NEW k \in Ids'
        PROVE  k \in dfa_mark \/ \E q \in 1 .. Len(dfa_queue') : dfa_queue'[q] = k
    <3>1. CASE k \in Ids
      BY <1>9, <3>1 DEF BuildInv, Loops
    <3>2. CASE k \notin Ids
      <4>1. k \in Len(nodes) .. Len(WithNode) - 1
        BY <1>2, <1>4, <1>5, <3>2 DEF Ids
      <4>2. k = NodeId
        BY <1>1, <4>1, Created
      <4> QED
        BY <1>9, <4>2
    <3> QED
      BY <3>1, <3>2
  <2>3. sym' \in 1 .. Len(nfa'.symbols) + 1 /\ sym' > 0
    BY <1>1, <1>2
  <2> QED
    BY <1>1, <1>2, <1>9, <1>10, <2>1, <2>2, <2>3 DEF Loops
<1>13. Subsets'
  <2>1. Distinct(id_map') /\ Typed(nfa, WithNode, id_map') /\ accept_types' = TypesOf(WithNode)
    BY <1>1, Created
  <2>2. Typed(nfa, nodes', id_map')
    BY <1>5, <1>8, <2>1 DEF Typed
  <2>3. TypesOf(nodes') = TypesOf(WithNode)
    BY <1>5, <1>8 DEF TypesOf
  <2>4. IsClosure(nfa, id_map'[1], {nfa.start})
    <3>1. 1 \in 1 .. Len(id_map) /\ nodes # <<>>
      BY <1>2 DEF Ids
    <3> QED
      BY <1>4, <3>1 DEF BuildInv, Subsets
  <2> QED
    BY <1>1, <2>1, <2>2, <2>3, <2>4 DEF Subsets
<1>14. \A k \in Ids, c \in SymbolsOf(nfa) :
         k # Taken \/ c # Symbol => nodes'[k + 1].next[c] = nodes[k + 1].next[c]
  <2> SUFFICES ASSUME NEW k \in Ids, NEW c \in SymbolsOf(nfa), k # Taken \/ c # Symbol
               PROVE  nodes'[k + 1].next[c] = nodes[k + 1].next[c]
    OBVIOUS
  <2>1. k + 1 \in 1 .. Len(id_map) /\ k + 1 \in 1 .. Len(WithNode) /\ Taken \in Int /\ k \in Int
    BY <1>2, <1>4 DEF Ids
  <2>2. CASE k = Taken
    BY <1>6, <2>2
  <2>3. CASE k # Taken
    <3>1. nodes'[k + 1] = WithNode[k + 1] /\ WithNode[k + 1] = nodes[k + 1]
      <4>1. k + 1 # Taken + 1
        BY <2>1, <2>3
      <4>2. nodes'[k + 1] = WithNode[k + 1]
        BY <1>5, <2>1, <4>1
      <4> QED
        BY <1>4, <2>1, <4>2
    <3> QED
      BY <3>1
  <2> QED
    BY <2>2, <2>3
<1>15. \A k \in Ids, c \in SymbolsOf(nfa) :
         (k # Taken \/ c # Symbol) /\ Exact(nfa, nodes, id_map, k, c)
           => Exact(nfa, nodes', id_map', k, c)
  <2> SUFFICES ASSUME NEW k \in Ids, NEW c \in SymbolsOf(nfa), k # Taken \/ c # Symbol,
                      Exact(nfa, nodes, id_map, k, c)
               PROVE  Exact(nfa, nodes', id_map', k, c)
    OBVIOUS
  <2>1. k \in Nat /\ k + 1 \in 1 .. Len(id_map) /\ Len(id_map) \in Nat
    BY <1>2 DEF Ids
  <2>2. nodes'[k + 1].next[c] = nodes[k + 1].next[c]
    BY <1>14
  <2> QED
    BY <1>4, <2>1, <2>2, ExactStays
<1>16. Exact(nfa, nodes', id_map', Taken, Symbol)
  <2>1. IsClosure(nfa, nfa_set, Move(nfa, id_map[Taken + 1], Symbol))
    <3>1. Base = Move(nfa, id_map[Taken + 1], Symbol)
      BY <1>1 DEF Base
    <3> QED
      BY <1>1, <3>1, GrownClosure DEF BuildInv, Closing
  <2>2. id_map'[Taken + 1] = id_map[Taken + 1] /\ NodeId + 1 \in 1 .. Len(id_map')
    BY <1>2, <1>4
  <2>3. NodeId # NoNode
    BY <1>4 DEF NoNode
  <2> QED
    BY <1>5, <2>1, <2>2, <2>3, <1>4 DEF Exact
<1>17. EdgesOK'
  <2>1. Expanding = {Taken} /\ Expanding' = {Taken}
    BY <1>1, <1>2, <1>9, <1>10 DEF Expanding
  <2>2. ASSUME NEW k \in dfa_mark \ {Taken}, NEW c \in SymbolsOf(nfa)
        PROVE  Exact(nfa, nodes', id_map', k, c)
    BY <1>2, <1>15, <2>1 DEF BuildInv, EdgesOK
  <2>3. ASSUME NEW k \in Ids' \ dfa_mark, NEW c \in SymbolsOf(nfa)
        PROVE  nodes'[k + 1].next[c] = NoNode
    <3>1. CASE k \in Ids
      BY <1>2, <1>14, <3>1 DEF BuildInv, EdgesOK
    <3>2. CASE k \notin Ids
      <4>1. k \in Len(nodes) .. Len(WithNode) - 1 /\ k + 1 \in 1 .. Len(WithNode)
        BY <1>2, <1>4, <1>5, <3>2 DEF Ids
      <4>2. WithNode[k + 1].next[c] = NoNode
        BY <1>1, <4>1, Created
      <4>3. k # Taken
        BY <1>2
      <4> QED
        <5>1. k + 1 # Taken + 1
          BY <1>2, <4>3 DEF Ids
        <5>2. nodes'[k + 1] = WithNode[k + 1]
          BY <1>5, <4>1, <5>1
        <5> QED
          BY <4>2, <5>2
    <3> QED
      BY <3>1, <3>2
  <2>4. ASSUME NEW p \in 1 .. Len(nfa.symbols)
        PROVE  IF p < sym + 1 THEN Exact(nfa, nodes', id_map', Taken, nfa.symbols[p])
               ELSE nodes'[Taken + 1].next[nfa.symbols[p]] = NoNode
    <3>1. nfa.symbols[p] \in SymbolsOf(nfa)
      BY DEF SymbolsOf
    <3>2. IF p < sym THEN Exact(nfa, nodes, id_map, Taken, nfa.symbols[p])
          ELSE nodes[Taken + 1].next[nfa.symbols[p]] = NoNode
      BY <1>1 DEF BuildInv, EdgesOK
    <3>3. CASE p = sym
      BY <1>2, <1>16, <3>3 DEF Symbol
    <3>4. CASE p # sym
      <4>1. nfa.symbols[p] # Symbol
        <5>1. nfa.symbols[p] \in Nat /\ Symbol \in Nat
          BY <1>2 DEF Symbol, IsNfa
        <5>2. nfa.symbols[p] < Symbol \/ Symbol < nfa.symbols[p]
          <6>1. \A q, r \in 1 .. Len(nfa.symbols) :
                  q < r => nfa.symbols[q] < nfa.symbols[r]
            BY <1>2 DEF IsNfa
          <6>2. sym \in 1 .. Len(nfa.symbols) /\ (p < sym \/ sym < p)
            BY <1>2, <3>4
          <6> QED
            BY <6>1, <6>2 DEF Symbol
        <5> QED
          BY <5>1, <5>2
      <4>2. CASE p < sym
        BY <1>2, <1>15, <3>1, <3>2, <4>1, <4>2
      <4>3. CASE p > sym
        BY <1>2, <1>14, <3>1, <3>2, <4>1, <4>3
      <4> QED
        BY <1>2, <3>4, <4>2, <4>3
    <3> QED
      BY <3>3, <3>4
  <2> QED
    BY <1>1, <1>10, <2>1, <2>2, <2>3, <2>4 DEF EdgesOK
<1> QED
  BY <1>1, <1>11, <1>12, <1>13, <1>17 DEF BuildInv, Closing

-----------------------------------------------------------------------------
(* A queue without its head.                                               *)
LEMMA Dequeued ==
  ASSUME NEW s \in Seq(Nat), s # <<>>, NEW t, t = Tail(s)
  PROVE  /\ t \in Seq(Nat)
         /\ \A q \in 1 .. Len(t) : q + 1 \in 1 .. Len(s) /\ t[q] = s[q + 1]
         /\ \A q \in 1 .. Len(s) : s[q] # Head(s) => q - 1 \in 1 .. Len(t) /\ t[q - 1] = s[q]
<1>1. /\ t \in Seq(Nat) /\ Len(t) = Len(s) - 1 /\ Len(s) \in Nat
      /\ \A q \in 1 .. Len(t) : t[q] = s[q + 1]
  BY HeadTailProperties
<1>2. Head(s) = s[1]
  OBVIOUS
<1>3. ASSUME NEW q \in 1 .. Len(s), s[q] # Head(s)
      PROVE  q - 1 \in 1 .. Len(t) /\ t[q - 1] = s[q]
  <2>1. q - 1 \in 1 .. Len(t) /\ (q - 1) + 1 = q
    BY <1>1, <1>2, <1>3
  <2> QED
    BY <1>1, <2>1
<1>4. \A q \in 1 .. Len(t) : q + 1 \in 1 .. Len(s)
  BY <1>1
<1> QED
  BY <1>1, <1>3, <1>4

(* A node that has been expanded leaves the queue.                         *)
LEMMA Dropped ==
  ASSUME BuildInv, dfa_queue # <<>>, Taken \in dfa_mark, dfa_queue' = Tail(dfa_queue)
  PROVE  /\ dfa_queue' \in Seq(Nat)
         /\ \A q \in 1 .. Len(dfa_queue') : dfa_queue'[q] \in Ids
         /\ \A k \in Ids : k \in dfa_mark \/ \E q \in 1 .. Len(dfa_queue') : dfa_queue'[q] = k
<1>1. /\ dfa_queue \in Seq(Nat) /\ \A q \in 1 .. Len(dfa_queue) : dfa_queue[q] \in Ids
      /\ \A k \in Ids : k \in dfa_mark \/ \E q \in 1 .. Len(dfa_queue) : dfa_queue[q] = k
  BY DEF BuildInv, BuildTyped, Loops
<1>2. /\ dfa_queue' \in Seq(Nat)
      /\ \A q \in 1 .. Len(dfa_queue') :
           q + 1 \in 1 .. Len(dfa_queue) /\ dfa_queue'[q] = dfa_queue[q + 1]
      /\ \A q \in 1 .. Len(dfa_queue) : dfa_queue[q] # Head(dfa_queue) =>
           q - 1 \in 1 .. Len(dfa_queue') /\ dfa_queue'[q - 1] = dfa_queue[q]
  BY <1>1, Dequeued
<1>3. \A q \in 1 .. Len(dfa_queue') : dfa_queue'[q] \in Ids
  BY <1>1, <1>2
<1>4. ASSUME NEW k \in Ids, k \notin dfa_mark
      PROVE  \E q \in 1 .. Len(dfa_queue') : dfa_queue'[q] = k
  <2>1. PICK q \in 1 .. Len(dfa_queue) : dfa_queue[q] = k
    BY <1>1, <1>4
  <2>2. q - 1 \in 1 .. Len(dfa_queue') /\ dfa_queue'[q - 1] = k
    BY <1>2, <1>4, <2>1 DEF Taken
  <2> QED
    BY <2>2
<1> QED
  BY <1>2, <1>3, <1>4

(* The front of the queue: dropped, or its expansion begins.               *)
LEMMA TakeInv == ASSUME BuildInv, TakeNode PROVE BuildInv'
<1>1. /\ pc = "take" /\ dfa_queue # <<>> /\ Still /\ UNCHANGED <<nfa_set, queue>> /\ ~Busy
      /\ Expanding = {}
  BY DEF TakeNode, Still, Busy, Expanding
<1>2. /\ nodes # <<>> /\ dfa_queue \in Seq(Nat) /\ Taken \in Ids /\ nfa' = nfa
      /\ Len(nfa.symbols) \in Nat
  <2>1. dfa_queue \in Seq(Nat) /\ nodes # <<>> /\ IsNfa(nfa)
    BY <1>1 DEF BuildInv, BuildTyped, Loops
  <2>2. Len(dfa_queue) > 0 /\ Taken = dfa_queue[1] /\ 1 \in 1 .. Len(dfa_queue)
    BY <1>1, <2>1 DEF Taken
  <2> QED
    BY <1>1, <2>1, <2>2 DEF BuildInv, BuildTyped, Still, IsNfa
<1>3. CASE Taken \in dfa_mark
  <2>1. dfa_queue' = Tail(dfa_queue) /\ UNCHANGED <<pc, dfa_mark, sym>> /\ ~Busy' /\ Expanding' = {}
    BY <1>1, <1>3 DEF TakeNode, Busy, Expanding
  <2>2. BuildTyped'
    <3>1. dfa_queue' \in Seq(Nat) /\ \A q \in 1 .. Len(dfa_queue') : dfa_queue'[q] \in Ids
      BY <1>1, <1>3, <2>1, Dropped
    <3> QED
      BY <1>1, <2>1, <3>1 DEF BuildInv, BuildTyped, Still, Node, SymbolsOf, Ids
  <2>3. Loops'
    <3>1. \A k \in Ids : k \in dfa_mark \/ \E q \in 1 .. Len(dfa_queue') : dfa_queue'[q] = k
      BY <1>1, <1>3, <2>1, Dropped
    <3> QED
      BY <1>1, <1>2, <2>1, <3>1 DEF Loops, Still, Ids
  <2>4. EdgesOK'
    BY <1>1, <2>1 DEF BuildInv, EdgesOK, Still, Ids, SymbolsOf
  <2> QED
    BY <1>1, <2>1, <2>2, <2>3, <2>4, StillSubsets DEF BuildInv, Closing
<1>4. CASE Taken \notin dfa_mark
  <2>1. /\ dfa_mark' = dfa_mark \cup {Taken} /\ sym' = 1 /\ pc' = "move"
        /\ dfa_queue' = dfa_queue /\ Busy' /\ Expanding' = {Taken} /\ Taken' = Taken
    BY <1>1, <1>4 DEF TakeNode, Busy, Expanding, Taken
  <2>2. BuildTyped'
    BY <1>1, <1>2, <2>1 DEF BuildInv, BuildTyped, Still, Node, SymbolsOf, Ids
  <2>3. Loops'
    BY <1>1, <1>2, <2>1 DEF BuildInv, Loops, Still, Ids
  <2>4. \A c \in SymbolsOf(nfa) : nodes[Taken + 1].next[c] = NoNode
    BY <1>2, <1>4 DEF BuildInv, EdgesOK
  <2>5. EdgesOK'
    <3>1. \A k \in (dfa_mark \cup {Taken}) \ {Taken} : \A c \in SymbolsOf(nfa) :
            Exact(nfa, nodes, id_map, k, c)
      BY <1>1 DEF BuildInv, EdgesOK
    <3>2. \A k \in Ids \ (dfa_mark \cup {Taken}) : \A c \in SymbolsOf(nfa) :
            nodes[k + 1].next[c] = NoNode
      BY DEF BuildInv, EdgesOK
    <3>3. ASSUME NEW p \in 1 .. Len(nfa.symbols)
          PROVE  ~(p < 1) /\ nodes[Taken + 1].next[nfa.symbols[p]] = NoNode
      BY <1>2, <2>4 DEF SymbolsOf
    <3> QED
      BY <1>1, <2>1, <3>1, <3>2, <3>3 DEF EdgesOK, Still, Ids, SymbolsOf
  <2> QED
    BY <1>1, <2>1, <2>2, <2>3, <2>5, StillSubsets DEF BuildInv, Closing
<1> QED
  BY <1>3, <1>4

(* A symbol: nothing is reached, or the closure of the move begins.        *)
LEMMA MoveInv == ASSUME BuildInv, TryMove PROVE BuildInv'
<1> DEFINE set == Move(nfa, id_map[Taken + 1], Symbol)
<1>1. /\ pc = "move" /\ sym <= Len(nfa.symbols) /\ Still /\ UNCHANGED <<dfa_queue, dfa_mark>>
      /\ Busy /\ Taken' = Taken /\ nfa' = nfa
      /\ IF set = {} THEN sym' = sym + 1 /\ UNCHANGED <<pc, nfa_set, queue>>
         ELSE Close(set) /\ UNCHANGED sym
  BY DEF TryMove, Still, Busy, Taken
<1>2. /\ dfa_queue # <<>> /\ sym \in 1 .. Len(nfa.symbols) /\ Len(nfa.symbols) \in Nat
      /\ Taken \in dfa_mark /\ nodes # <<>> /\ sym \in Nat
  <2>1. IsNfa(nfa) /\ sym \in Nat
    BY DEF BuildInv, BuildTyped
  <2>2. Len(nfa.symbols) \in Nat
    BY <2>1 DEF IsNfa
  <2> QED
    BY <1>1, <2>1, <2>2 DEF BuildInv, Loops
<1>3. CASE set = {}
  <2>1. /\ sym' = sym + 1 /\ UNCHANGED <<pc, nfa_set, queue>> /\ Busy'
        /\ Expanding = {Taken} /\ Expanding' = {Taken}
    BY <1>1, <1>2, <1>3 DEF Busy, Expanding
  <2>2. BuildTyped'
    BY <1>1, <1>2, <2>1 DEF BuildInv, BuildTyped, Still, Node, SymbolsOf, Ids
  <2>3. Loops'
    BY <1>1, <1>2, <2>1 DEF BuildInv, Loops, Still, Ids
  <2>4. ASSUME NEW p \in 1 .. Len(nfa.symbols)
        PROVE  IF p < sym + 1 THEN Exact(nfa, nodes, id_map, Taken, nfa.symbols[p])
               ELSE nodes[Taken + 1].next[nfa.symbols[p]] = NoNode
    <3>1. IF p < sym THEN Exact(nfa, nodes, id_map, Taken, nfa.symbols[p])
          ELSE nodes[Taken + 1].next[nfa.symbols[p]] = NoNode
      BY <1>1 DEF BuildInv, EdgesOK
    <3>2. CASE p = sym
      <4>1. nodes[Taken + 1].next[nfa.symbols[p]] = NoNode
        BY <1>2, <3>1, <3>2
      <4>2. Exact(nfa, nodes, id_map, Taken, nfa.symbols[p])
        BY <1>3, <3>2, <4>1 DEF Exact, Symbol
      <4> QED
        BY <1>2, <3>2, <4>2
    <3>3. CASE p # sym
      BY <1>2, <3>1, <3>3
    <3> QED
      BY <3>2, <3>3
  <2>5. EdgesOK'
    BY <1>1, <2>1, <2>4 DEF BuildInv, EdgesOK, Still, Ids, SymbolsOf
  <2> QED
    BY <1>1, <2>1, <2>2, <2>3, <2>5, StillSubsets DEF BuildInv, Closing
<1>4. CASE set # {}
  <2>1. /\ pc' = "close" /\ nfa_set' = set /\ queue' = set /\ sym' = sym /\ Busy'
        /\ Expanding = {Taken} /\ Expanding' = {Taken}
    BY <1>1, <1>2, <1>4 DEF Close, Busy, Expanding
  <2>2. set \subseteq nfa.ids
    BY DEF Move
  <2>3. BuildTyped'
    BY <1>1, <2>1, <2>2 DEF BuildInv, BuildTyped, Still, Node, SymbolsOf, Ids
  <2>4. Loops'
    BY <1>1, <1>2, <2>1 DEF BuildInv, Loops, Still, Ids
  <2>5. Closing'
    <3>1. Base' = set
      BY <1>1, <1>2, <2>1 DEF Base, Still, Symbol
    <3>2. Grows(nfa, set, set, set)
      BY DEF Grows
    <3> QED
      BY <1>1, <2>1, <3>1, <3>2 DEF Closing
  <2>6. EdgesOK'
    BY <1>1, <2>1 DEF BuildInv, EdgesOK, Still, Ids, SymbolsOf
  <2> QED
    BY <1>1, <2>3, <2>4, <2>5, <2>6, StillSubsets DEF BuildInv
<1> QED
  BY <1>3, <1>4

(* The last symbol has been tried: every edge of the node is exact.        *)
LEMMA DoneInv == ASSUME BuildInv, NodeDone PROVE BuildInv'
<1>1. /\ pc = "move" /\ sym > Len(nfa.symbols) /\ pc' = "take" /\ dfa_queue' = Tail(dfa_queue)
      /\ Still /\ UNCHANGED <<nfa_set, queue, dfa_mark, sym>> /\ Busy /\ ~Busy' /\ nfa' = nfa
      /\ Expanding' = {}
  BY DEF NodeDone, Still, Busy, Expanding
<1>2. dfa_queue # <<>> /\ Taken \in dfa_mark /\ nodes # <<>> /\ sym \in Nat
  BY <1>1 DEF BuildInv, Loops, BuildTyped
<1>3. /\ dfa_queue' \in Seq(Nat) /\ \A q \in 1 .. Len(dfa_queue') : dfa_queue'[q] \in Ids
      /\ \A k \in Ids : k \in dfa_mark \/ \E q \in 1 .. Len(dfa_queue') : dfa_queue'[q] = k
  BY <1>1, <1>2, Dropped
<1>4. BuildTyped'
  BY <1>1, <1>3 DEF BuildInv, BuildTyped, Still, Node, SymbolsOf, Ids
<1>5. Loops'
  BY <1>1, <1>2, <1>3 DEF Loops, Still, Ids
<1>6. EdgesOK'
  <2>1. Expanding = {Taken}
    BY <1>1, <1>2 DEF Expanding
  <2>2. ASSUME NEW k \in dfa_mark, NEW c \in SymbolsOf(nfa)
        PROVE  Exact(nfa, nodes, id_map, k, c)
    <3>1. CASE k # Taken
      BY <2>1, <3>1 DEF BuildInv, EdgesOK
    <3>2. CASE k = Taken
      <4>1. PICK p \in 1 .. Len(nfa.symbols) : c = nfa.symbols[p]
        BY DEF SymbolsOf
      <4>2. p < sym
        <5>1. IsNfa(nfa)
          BY DEF BuildInv, BuildTyped
        <5>2. Len(nfa.symbols) \in Nat
          BY <5>1 DEF IsNfa
        <5> QED
          BY <1>1, <1>2, <5>2
      <4> QED
        BY <1>1, <3>2, <4>1, <4>2 DEF BuildInv, EdgesOK
    <3> QED
      BY <3>1, <3>2
  <2> QED
    BY <1>1, <2>2 DEF BuildInv, EdgesOK, Still, Ids, SymbolsOf
<1> QED
  BY <1>1, <1>4, <1>5, <1>6, StillSubsets DEF BuildInv, Closing

(* The queue is empty.                                                     *)
LEMMA EndInv == ASSUME BuildInv, BuildEnd PROVE BuildInv'
<1>1. /\ pc = "take" /\ dfa_queue = <<>> /\ pc' = "built" /\ Still
      /\ UNCHANGED <<nfa_set, queue, dfa_queue, dfa_mark, sym>> /\ ~Busy /\ ~Busy' /\ nfa' = nfa
      /\ Expanding = {} /\ Expanding' = {}
  BY DEF BuildEnd, Still, Busy, Expanding
<1>2. BuildTyped'
  BY <1>1 DEF BuildInv, BuildTyped, Still, Node, SymbolsOf, Ids
<1>3. Loops'
  BY <1>1 DEF BuildInv, Loops, Still, Ids
<1>4. EdgesOK'
  BY <1>1 DEF BuildInv, EdgesOK, Still, Ids, SymbolsOf
<1> QED
  BY <1>1, <1>2, <1>3, <1>4, StillSubsets DEF BuildInv, Closing

-----------------------------------------------------------------------------
(* Every step keeps the invariant.                                         *)
LEMMA BuildStepInv == ASSUME BuildInv, [InitFromNfa]_buildVars PROVE BuildInv'
<1>1. CASE StartNode
  BY <1>1, StartInv
<1>2. CASE EpsilonClosure
  BY <1>2, ClosureInv
<1>3. CASE FirstNode
  BY <1>3, FirstInv
<1>4. CASE AddEdge
  BY <1>4, EdgeInv
<1>5. CASE TakeNode
  BY <1>5, TakeInv
<1>6. CASE TryMove
  BY <1>6, MoveInv
<1>7. CASE NodeDone
  BY <1>7, DoneInv
<1>8. CASE BuildEnd
  BY <1>8, EndInv
<1>9. CASE UNCHANGED buildVars
  <2>1. Still /\ UNCHANGED <<pc, nfa_set, queue, dfa_queue, dfa_mark, sym>> /\ (Busy' <=> Busy)
        /\ Expanding' = Expanding /\ Taken' = Taken /\ nfa' = nfa /\ Base' = Base
    BY <1>9 DEF buildVars, Still, Busy, Expanding, Taken, Base, Symbol
  <2>2. BuildTyped'
    BY <2>1 DEF BuildInv, BuildTyped, Still, Node, SymbolsOf, Ids
  <2>3. Loops'
    BY <2>1 DEF BuildInv, Loops, Still, Ids
  <2>4. EdgesOK'
    BY <2>1 DEF BuildInv, EdgesOK, Still, Ids, SymbolsOf
  <2>5. Closing'
    BY <2>1 DEF BuildInv, Closing
  <2> QED
    BY <2>1, <2>2, <2>3, <2>4, <2>5, StillSubsets DEF BuildInv
<1> QED
  BY <1>1, <1>2, <1>3, <1>4, <1>5, <1>6, <1>7, <1>8, <1>9 DEF InitFromNfa

(* The invariant of InitFromNfa.                                           *)
THEOREM BuildInvariant == BuildSpec => []BuildInv
<1>1. BuildInv /\ [InitFromNfa]_buildVars => BuildInv'
  BY BuildStepInv
<1> QED
  BY <1>1, BuildInitInv, PTL DEF BuildSpec

LEMMA BuildInvTypes == ASSUME BuildInv PROVE BuildTypeOK
<1>1. BuildTyped
  BY DEF BuildInv
<1>2. dfa_mark \subseteq Nat
  <2>1. \A k \in Ids : k \in Nat
    <3>1. Len(nodes) \in Nat
      BY <1>1 DEF BuildTyped
    <3> QED
      BY <3>1 DEF Ids
  <2> QED
    BY <1>1, <2>1 DEF BuildTyped
<1> QED
  BY <1>1, <1>2 DEF BuildTyped, BuildTypeOK, Node, NodeOf

(* The variables of InitFromNfa keep their types: what a closure and a     *)
(* move collect are nodes of the Nfa, and an edge is NoNode or an id.      *)
THEOREM BuildTypes == BuildSpec => []BuildTypeOK
<1>1. BuildInv => BuildTypeOK
  BY BuildInvTypes
<1> QED
  BY <1>1, BuildInvariant, PTL

LEMMA BuildInvExact == ASSUME BuildInv PROVE SubsetExact
<1>1. Len(nodes) = Len(id_map) /\ Len(nodes) \in Nat /\ dfa_mark \subseteq Ids
  BY DEF BuildInv, BuildTyped
<1>2. \A k, l \in 1 .. Len(id_map) : id_map[k] = id_map[l] => k = l
  BY DEF BuildInv, Subsets, Distinct
<1>3. /\ \A k \in 1 .. Len(nodes) : nodes[k].type = TypeOf(nfa, id_map[k])
      /\ accept_types = { nodes[k].type : k \in 1 .. Len(nodes) } \ {-1}
      /\ nodes # <<>> => IsClosure(nfa, id_map[1], {nfa.start})
  BY DEF BuildInv, Subsets, Typed, TypesOf
<1>4. ASSUME NEW k \in dfa_mark \ Expanding, NEW c \in SymbolsOf(nfa)
      PROVE  EdgeExact(k, c)
  <2>1. Exact(nfa, nodes, id_map, k, c)
    BY DEF BuildInv, EdgesOK
  <2> QED
    BY <2>1 DEF Exact, EdgeExact
<1>5. ASSUME pc = "built" PROVE nodes # <<>> /\ dfa_mark = 0 .. Len(nodes) - 1
  <2>1. nodes # <<>> /\ dfa_queue = <<>>
    BY <1>5 DEF BuildInv, Loops
  <2>2. Ids \subseteq dfa_mark
    BY <2>1 DEF BuildInv, Loops
  <2> QED
    BY <1>1, <2>1, <2>2 DEF Ids
<1> QED
  BY <1>1, <1>2, <1>3, <1>4, <1>5 DEF SubsetExact

(* InitFromNfa builds the subset automaton: whatever the Nfa, and in       *)
(* whatever order a closure meets the nodes, no set has two nodes, types   *)
(* are those of the sets and every edge of an expanded node leads to the   *)
(* closure of the move.                                                    *)
THEOREM BuildExact == BuildSpec => []SubsetExact
<1>1. BuildInv => SubsetExact
  BY BuildInvExact
<1> QED
  BY <1>1, BuildInvariant, PTL

-----------------------------------------------------------------------------
(* What the matching functions report.  The invariant says where the scan  *)
(* is and where the last accepting state was (Where), and how the last     *)
(* match reported lies to the one that will be reported next (Reports).    *)
Record == [begin : Nat, end : Nat, type : Int]
          \cup [begin : Nat, end : Nat, type : Int, score : Int]

ScanTyped ==
  /\ IsMachine(machine) /\ mmap_pattern_ \in BOOLEAN
  /\ op \in Ops \cup {"none"} /\ text \in Seq(Nat) /\ cap \in Nat
  /\ phase \in Phases
  /\ i \in Nat /\ j \in Nat /\ state \in Nat
  /\ pre_match_pos \in Int /\ pre_match_type \in Int
  /\ start_positions \in Seq(Nat)

Prefix == op \in {"prefix_wide", "prefix"}
Going == phase \in {"restart", "begin", "scan", "finish"}

(* Nothing is scanned before a call, and only with an automaton that does  *)
(* not accept the empty text.                                              *)
CallOK ==
  /\ phase = "idle" =>
       i = 0 /\ j = 0 /\ state = 0 /\ pre_match_pos = -1 /\ pre_match_type = -1
  /\ Going => machine.count > 0 /\ machine.type[0] <= 0
  /\ Prefix /\ Going => i = 0

(* The scan is at most at the end of the text; a character behind its      *)
(* beginning it may be in any state.                                       *)
ScanOK ==
  phase = "scan" =>
    /\ state < machine.count
    /\ i <= j /\ j <= Len(text)
    /\ j = i => state = 0

(* The last accepting state lies between the beginning and the scan.       *)
LastOK ==
  phase \in {"scan", "finish"} /\ pre_match_type > 0 =>
    /\ i < pre_match_pos /\ pre_match_pos <= Len(text)
    /\ phase = "scan" => pre_match_pos < j

Where == ScanTyped /\ CallOK /\ ScanOK /\ LastOK

(* A match is not empty and lies in a text of n characters.                *)
FitsIn(m, n) == m.begin < m.end /\ m.end <= n /\ m.type > 0

Follows(m, l) == (l.begin = m.begin /\ l.end > m.end) \/ l.begin >= m.end

Ordered(s) == \A k \in 1 .. Len(s) - 1 : Follows(s[k], s[k + 1])

Fits(s, n) == \A k \in 1 .. Len(s) : FitsIn(s[k], n)

Buffered == op \in {"longest_buffer", "prefix_wide", "prefix"}

(* The functions that leave the scan when the buffer is full.              *)
Leaves == op = "prefix" \/ (op = "longest_buffer" /\ mmap_pattern_)

(* How many matches a function may come to report: without room the UINT16 *)
(* prefix function may report one.                                         *)
Short == op = "prefix" /\ cap = 0
Hold == IF Short THEN 1 ELSE cap

RoomOK ==
  Buffered => /\ Len(result) <= Hold
              /\ Leaves /\ phase = "scan" => Len(result) < Hold

(* The last match ends before the scan begins, or is an earlier one of the *)
(* same beginning; behind it there may be no room for another one.         *)
NextOK ==
  op # "any" /\ result # <<>> =>
    LET last == result[Len(result)]
    IN  /\ phase \in {"scan", "finish"} =>
             \/ last.end <= i
             \/ /\ last.begin = i /\ pre_match_type > 0
                /\ \/ last.end < pre_match_pos
                   \/ op = "prefix" /\ phase = "finish" /\ Len(result) >= cap
        /\ phase = "begin" =>
             last.end <= i \/ (op = "longest_buffer" /\ Len(result) >= cap)

Reports ==
  /\ result \in Seq(Record) /\ Fits(result, Len(text))
  /\ op # "any" => Ordered(result)
  /\ RoomOK /\ NextOK

ScanInv == Where /\ Reports

-----------------------------------------------------------------------------
(* A match that fits and follows the last one may be appended.             *)
LEMMA AppendReport ==
  ASSUME NEW s \in Seq(Record), NEW m \in Record, NEW n \in Nat,
         Fits(s, n), FitsIn(m, n)
  PROVE  /\ Append(s, m) \in Seq(Record)
         /\ Append(s, m) # <<>>
         /\ Len(Append(s, m)) = Len(s) + 1
         /\ Append(s, m)[Len(s) + 1] = m
         /\ Fits(Append(s, m), n)
         /\ Ordered(s) /\ (s # <<>> => Follows(s[Len(s)], m)) => Ordered(Append(s, m))
<1> DEFINE r == Append(s, m)
<1>1. /\ r \in Seq(Record) /\ Len(r) = Len(s) + 1 /\ r[Len(s) + 1] = m /\ r # <<>>
      /\ \A k \in 1 .. Len(s) : r[k] = s[k]
  OBVIOUS
<1>2. Len(s) \in Nat /\ (Len(s) > 0 => s # <<>>)
  OBVIOUS
<1> HIDE DEF r
<1>3. Fits(r, n)
  BY <1>1, <1>2 DEF Fits
<1>4. ASSUME Ordered(s), s # <<>> => Follows(s[Len(s)], m)
      PROVE  Ordered(r)
  <2>1. ASSUME NEW k \in 1 .. Len(r) - 1
        PROVE  Follows(r[k], r[k + 1])
    <3>1. CASE k < Len(s)
      BY <1>1, <1>2, <1>4, <3>1 DEF Ordered
    <3>2. CASE k = Len(s)
      BY <1>1, <1>2, <1>4, <3>2
    <3> QED
      BY <1>1, <1>2, <3>1, <3>2
  <2> QED
    BY <2>1 DEF Ordered
<1> QED
  BY <1>1, <1>3, <1>4 DEF r

(* Scores are numbers, whatever the type and the length.                   *)
LEMMA ScoreInt == ASSUME NEW t, NEW n \in Int PROVE GetScore(t, n) \in Int
BY DEF GetScore

(* Before a call nothing is scanned, whatever automaton there is.          *)
LEMMA ScanBegins ==
  ASSUME ScanInit, IsMachine(machine), mmap_pattern_ \in BOOLEAN
  PROVE  ScanInv
<1>1. Where
  BY DEF ScanInit, Where, ScanTyped, CallOK, ScanOK, LastOK, Phases, Going, Prefix
<1>2. result = <<>> /\ Len(result) = 0 /\ result \in Seq(Record)
  BY DEF ScanInit
<1>3. Reports
  BY <1>2 DEF ScanInit, Reports, Fits, Ordered, RoomOK, NextOK, Buffered, Hold, Short
<1> QED
  BY <1>1, <1>3 DEF ScanInv

LEMMA ScanInitInv == MatchInit => ScanInv
BY ScanBegins DEF MatchInit

-----------------------------------------------------------------------------
(* The geometry of the scan, which does not depend on what is reported.    *)
(* A round of the inner loop, whatever it reports.                         *)
ScanMove ==
  /\ phase = "scan"
  /\ pre_match_pos' = IF Hit THEN j ELSE pre_match_pos
  /\ pre_match_type' = IF Hit THEN machine.type[state] ELSE pre_match_type
  /\ \/ phase' = "finish" /\ UNCHANGED <<state, j>>
     \/ /\ Target # -1 /\ state' = Target /\ j' = j + 1
        /\ phase' \in {"scan", "finish"}
  /\ i' = i /\ start_positions' \in Seq(Nat)
  /\ Same

(* What the tables hold for a state of the automaton.                      *)
LEMMA TableFacts ==
  ASSUME NEW m, IsMachine(m)
  PROVE  /\ m.count \in Nat
         /\ \A s \in Nat : s < m.count =>
              /\ m.type[s] \in Int
              /\ \A b \in 0 .. Wide - 1 : m.next[s][b] \in -1 .. m.count - 1
<1>1. ASSUME NEW s \in Nat, s < m.count
      PROVE  s \in 0 .. m.count - 1
  BY <1>1 DEF IsMachine
<1> QED
  BY <1>1 DEF IsMachine

(* A call begins in the first state, with an automaton that has one.       *)
LEMMA CallWhere == ASSUME Where, NEW c \in Calls, Call(c) PROVE Where'
<1>1. ScanTyped'
  BY DEF Where, ScanTyped, Call, IsCall, Phases, Ops
<1>2. \/ machine.count > 0 /\ machine.type[0] <= 0
      \/ phase' \in {"returned", "thrown"}
  <2>1. CASE machine.count = 0 \/ machine.type[0] > 0
    BY <2>1 DEF Call, Refused
  <2>2. CASE ~(machine.count = 0 \/ machine.type[0] > 0)
    BY <2>2, TableFacts DEF Where, ScanTyped
  <2> QED
    BY <2>1, <2>2
<1>3. ~Going /\ phase = "idle" /\ phase' # "idle" /\ phase' # "finish"
  BY DEF Call, Going
<1>4. UNCHANGED <<machine, i, j, state, pre_match_pos, pre_match_type>>
  BY DEF Call
<1>5. i = 0 /\ j = 0 /\ state = 0 /\ pre_match_type = -1
  BY <1>3 DEF Where, CallOK
<1>6. CallOK'
  BY <1>2, <1>3, <1>4, <1>5 DEF CallOK, Going
<1>7. ScanOK' /\ LastOK'
  BY <1>1, <1>2, <1>3, <1>4, <1>5 DEF ScanOK, LastOK, ScanTyped
<1> QED
  BY <1>1, <1>6, <1>7 DEF Where

(* A round keeps the last accepting state between beginning and scan: the  *)
(* first state is not accepting, so a hit is behind the beginning.         *)
LEMMA ScanWhere == ASSUME Where, ScanMove PROVE Where'
<1>1. /\ machine.count > 0 /\ machine.type[0] <= 0 /\ state < machine.count
      /\ i <= j /\ j <= Len(text) /\ (j = i => state = 0)
      /\ machine.type[state] \in Int /\ Len(text) \in Nat
  <2>1. machine.count > 0 /\ machine.type[0] <= 0
    BY DEF Where, ScanMove, CallOK, Going
  <2>2. state < machine.count /\ i <= j /\ j <= Len(text) /\ (j = i => state = 0)
    BY DEF Where, ScanMove, ScanOK
  <2>3. machine.type[state] \in Int /\ Len(text) \in Nat
    BY <2>2, TableFacts DEF Where, ScanTyped
  <2> QED
    BY <2>1, <2>2, <2>3
<1>2. Hit => i < j
  BY <1>1 DEF Hit, Where, ScanTyped
<1>3. Target # -1 => j < Len(text) /\ Target \in 0 .. machine.count - 1
  <2>1. ASSUME j < Len(text)
        PROVE  machine.next[state][text[j + 1] % Wide] \in -1 .. machine.count - 1
    <3>1. text[j + 1] \in Nat /\ state \in 0 .. machine.count - 1
      BY <1>1, <2>1 DEF Where, ScanTyped, IsMachine
    <3>2. text[j + 1] % Wide \in 0 .. Wide - 1
      BY <3>1, WideAssumption
    <3> QED
      BY <3>1, <3>2 DEF Where, ScanTyped, IsMachine
  <2> QED
    BY <1>1, <2>1 DEF Target, Where, ScanTyped, IsMachine
<1>4. state' \in Nat /\ j' \in Nat /\ phase' \in Phases /\ Going'
  BY <1>3 DEF ScanMove, Where, ScanTyped, Phases, Going, IsMachine
<1>5. ScanTyped'
  BY <1>1, <1>4 DEF ScanMove, Same, Where, ScanTyped
<1>6. CallOK'
  BY <1>1, <1>4 DEF ScanMove, Same, Where, CallOK, Going, Prefix
<1>7. ScanOK'
  <2>1. CASE phase' = "finish"
    BY <2>1 DEF ScanOK
  <2>2. CASE phase' = "scan"
    <3>1. Target # -1 /\ state' = Target /\ j' = j + 1
      BY <2>2 DEF ScanMove
    <3> QED
      BY <1>1, <1>3, <3>1 DEF ScanOK, ScanMove, Same, Where, ScanTyped, IsMachine
  <2> QED
    BY <2>1, <2>2 DEF ScanMove
<1>8. LastOK'
  <2>1. j' >= j /\ (phase' = "scan" => j' = j + 1) /\ i' = i /\ text' = text
    BY DEF ScanMove, Same, Where, ScanTyped
  <2>2. CASE Hit
    BY <1>1, <1>2, <2>1, <2>2 DEF LastOK, ScanMove, Where, ScanTyped
  <2>3. CASE ~Hit
    BY <1>1, <2>1, <2>3 DEF LastOK, ScanMove, Where, ScanTyped
  <2> QED
    BY <2>2, <2>3
<1> QED
  BY <1>5, <1>6, <1>7, <1>8 DEF Where

(* The loop over the positions begins a scan in the first state, or ends.  *)
LEMMA BeginWhere ==
  ASSUME Where, ~Prefix, Same, phase = "begin", i' = i,
         start_positions' = start_positions,
         \/ /\ phase' = "scan" /\ i < Len(text)
            /\ state' = 0 /\ j' = i /\ pre_match_pos' \in Int /\ pre_match_type' = -1
         \/ /\ phase' \in {"returned", "restart"}
            /\ UNCHANGED <<state, j, pre_match_pos, pre_match_type>>
  PROVE  Where'
<1>1. ScanTyped'
  BY DEF Where, ScanTyped, Same, Phases
<1>2. CallOK'
  BY DEF Where, CallOK, Same, Going, Prefix
<1>3. ScanOK' /\ LastOK'
  BY DEF Where, ScanTyped, CallOK, ScanOK, LastOK, Same, Going
<1> QED
  BY <1>1, <1>2, <1>3 DEF Where

(* After a scan the position moves on or the call ends; AnyMatch takes the *)
(* next beginning.                                                         *)
LEMMA MoveWhere ==
  ASSUME Where, Same, phase \in {"finish", "restart"},
         phase' \in {"begin", "returned"}, i' \in Nat, Prefix => i' = i,
         UNCHANGED <<j, state, pre_match_pos, pre_match_type>>,
         start_positions' \in Seq(Nat)
  PROVE  Where'
<1>1. ScanTyped'
  BY DEF Where, ScanTyped, Same, Phases
<1>2. CallOK'
  BY DEF Where, CallOK, Same, Going, Prefix
<1>3. ScanOK' /\ LastOK'
  BY DEF ScanOK, LastOK
<1> QED
  BY <1>1, <1>2, <1>3 DEF Where

-----------------------------------------------------------------------------
(* What is reported.                                                       *)
IsLast(m) == m.begin = i /\ m.end = pre_match_pos /\ m.type = pre_match_type

(* The last match may be reported: it fits and follows the one before.     *)
LEMMA LastFits ==
  ASSUME ScanInv, phase \in {"scan", "finish"}, pre_match_type > 0,
         NEW m \in Record, IsLast(m)
  PROVE  /\ FitsIn(m, Len(text)) /\ m.begin < m.end
         /\ op # "any" /\ result # <<>>
              /\ (op = "prefix" /\ phase = "finish" => Len(result) < cap)
            => Follows(result[Len(result)], m)
<1>1. i < pre_match_pos /\ pre_match_pos <= Len(text)
  BY DEF ScanInv, Where, LastOK
<1>2. FitsIn(m, Len(text)) /\ m.begin < m.end
  BY <1>1 DEF FitsIn, IsLast
<1>3. ASSUME op # "any", result # <<>>,
             op = "prefix" /\ phase = "finish" => Len(result) < cap
      PROVE  Follows(result[Len(result)], m)
  <2> DEFINE last == result[Len(result)]
  <2>1. Len(result) \in Nat /\ cap \in Nat
    BY DEF ScanInv, Reports, Where, ScanTyped
  <2>2. \/ last.end <= i
        \/ last.begin = i /\ last.end < pre_match_pos
    BY <1>3, <2>1 DEF ScanInv, Reports, NextOK
  <2> QED
    BY <2>2 DEF Follows, IsLast
<1> QED
  BY <1>2, <1>3

(* What the last match is, with and without its score.                     *)
LEMMA MatchRecord ==
  ASSUME Where, phase \in {"scan", "finish"}, pre_match_type > 0
  PROVE  /\ Match \in Record /\ IsLast(Match)
         /\ i = 0 => Scored \in Record /\ IsLast(Scored)
<1>1. i \in Nat /\ pre_match_pos \in Nat /\ pre_match_type \in Int
  BY DEF Where, ScanTyped, LastOK
<1>2. GetScore(pre_match_type, pre_match_pos) \in Int
  BY <1>1, ScoreInt
<1> QED
  BY <1>1, <1>2 DEF Match, Scored, Record, IsLast

(* The matches after the last one was reported.                            *)
LEMMA Appended ==
  ASSUME ScanInv, phase \in {"scan", "finish"}, pre_match_type > 0,
         op = "prefix" /\ phase = "finish" => Len(result) < cap,
         NEW m \in Record, IsLast(m)
  PROVE  /\ Append(result, m) \in Seq(Record)
         /\ Append(result, m) # <<>>
         /\ Len(Append(result, m)) = Len(result) + 1
         /\ Append(result, m)[Len(result) + 1] = m
         /\ Fits(Append(result, m), Len(text))
         /\ op # "any" => Ordered(Append(result, m))
<1>1. Len(text) \in Nat /\ result \in Seq(Record) /\ Fits(result, Len(text))
  BY DEF ScanInv, Where, ScanTyped, Reports
<1>2. FitsIn(m, Len(text))
  BY LastFits
<1>3. op # "any" => Ordered(result) /\ (result # <<>> => Follows(result[Len(result)], m))
  BY LastFits DEF ScanInv, Reports
<1> QED
  BY <1>1, <1>2, <1>3, AppendReport

(* A round reports nothing, or the last match when its type changes.       *)
Cut(m) == Changed /\ IsLast(m) /\ result' = Append(result, m)

LEMMA ScanReports ==
  ASSUME ScanInv, ScanMove, RoomOK',
         result' = result \/ \E m \in Record : Cut(m)
  PROVE  Reports'
<1>1. text' = text /\ op' = op /\ i' = i /\ cap' = cap
  BY DEF ScanMove, Same
<1>2. pre_match_type > 0 => i < pre_match_pos /\ pre_match_pos < j
  BY DEF ScanInv, Where, LastOK, ScanMove
<1>3. pre_match_type > 0 => pre_match_type' > 0 /\ pre_match_pos' >= pre_match_pos
  BY <1>2 DEF ScanMove, Hit, ScanInv, Where, ScanTyped
<1>4. CASE result' = result
  <2>1. NextOK'
    <3> SUFFICES ASSUME op # "any", result # <<>>
                 PROVE  \/ result[Len(result)].end <= i
                        \/ /\ result[Len(result)].begin = i /\ pre_match_type' > 0
                           /\ result[Len(result)].end < pre_match_pos'
      BY <1>1, <1>4 DEF NextOK, ScanMove
    <3> DEFINE last == result[Len(result)]
    <3>1. \/ last.end <= i
          \/ last.begin = i /\ pre_match_type > 0 /\ last.end < pre_match_pos
      BY DEF ScanInv, Reports, NextOK, ScanMove
    <3>2. last \in Record
      BY DEF ScanInv, Reports
    <3>3. last.end \in Nat
      BY <3>2 DEF Record
    <3> HIDE DEF last
    <3>4. pre_match_pos \in Int /\ pre_match_pos' \in Int
      BY DEF ScanInv, Where, ScanTyped, ScanMove
    <3>5. last.end <= i \/ (last.begin = i /\ pre_match_type' > 0 /\ last.end < pre_match_pos')
      BY <1>3, <3>1, <3>3, <3>4
    <3> QED
      BY <3>5 DEF last
  <2> QED
    BY <1>1, <1>4, <2>1 DEF ScanInv, Reports
<1>5. CASE \E m \in Record : Cut(m)
  <2>1. PICK m \in Record : Cut(m)
    BY <1>5
  <2>2. Hit /\ pre_match_type > 0 /\ IsLast(m) /\ phase = "scan"
    BY <2>1 DEF Cut, Changed, ScanMove
  <2>3. /\ result' \in Seq(Record) /\ result' # <<>>
        /\ Len(result') = Len(result) + 1 /\ result'[Len(result) + 1] = m
        /\ Fits(result', Len(text)) /\ (op # "any" => Ordered(result'))
    BY <2>1, <2>2, Appended DEF Cut
  <2>4. m.begin = i /\ m.end < pre_match_pos' /\ pre_match_type' > 0
    BY <1>2, <2>2 DEF IsLast, ScanMove, Hit
  <2>5. NextOK'
    BY <1>1, <2>3, <2>4 DEF NextOK, ScanMove
  <2> QED
    BY <1>1, <2>3, <2>5 DEF Reports
<1> QED
  BY <1>4, <1>5

-----------------------------------------------------------------------------
(* The other steps, one lemma each.                                        *)
LEMMA CallInv == ASSUME ScanInv, NEW c \in Calls, Call(c) PROVE ScanInv'
<1>1. Where'
  BY CallWhere DEF ScanInv
<1>2. result' = <<>> /\ Len(result') = 0 /\ cap' \in Nat
  BY <1>1 DEF Call, Where, ScanTyped
<1>3. /\ Len(result') <= Hold'
      /\ phase' = "scan" /\ Leaves' => Len(result') < Hold'
  BY <1>2 DEF Call, Leaves, Hold, Short
<1>4. Reports'
  <2>1. result' \in Seq(Record) /\ Fits(result', Len(text')) /\ Ordered(result')
    BY <1>2 DEF Fits, Ordered
  <2> QED
    BY <1>2, <1>3, <2>1 DEF Reports, RoomOK, NextOK
<1> QED
  BY <1>1, <1>4 DEF ScanInv

(* Nothing is reported, and there is room where the scan begins.           *)
LEMMA BeginInv ==
  ASSUME ScanInv, ~Prefix, Same, phase = "begin",
         UNCHANGED <<i, result, start_positions>>,
         \/ /\ phase' = "scan" /\ i < Len(text) /\ (Buffered => Room)
            /\ state' = 0 /\ j' = i /\ pre_match_pos' \in Int /\ pre_match_type' = -1
         \/ /\ phase' \in {"returned", "restart"}
            /\ UNCHANGED <<state, j, pre_match_pos, pre_match_type>>
  PROVE  ScanInv'
<1>1. Where'
  BY BeginWhere DEF ScanInv
<1>2. result' = result /\ op' = op /\ cap' = cap /\ i' = i /\ text' = text
      /\ mmap_pattern_' = mmap_pattern_
  BY DEF Same
<1>3. Len(result) \in Nat /\ cap \in Nat
  BY DEF ScanInv, Reports, Where, ScanTyped
<1>4. phase' = "scan" => (Buffered => Len(result) < cap)
  BY DEF Room
<1>5. RoomOK'
  BY <1>2, <1>4 DEF RoomOK, ScanInv, Reports, Buffered, Leaves, Prefix, Hold, Short
<1>6. NextOK'
  <2> SUFFICES ASSUME op # "any", result # <<>>, phase' = "scan"
               PROVE  result[Len(result)].end <= i
    BY <1>2 DEF NextOK
  <2>1. \/ result[Len(result)].end <= i
        \/ op = "longest_buffer" /\ Len(result) >= cap
    BY <1>2 DEF ScanInv, Reports, NextOK
  <2> QED
    BY <1>3, <1>4, <2>1 DEF Buffered
<1> QED
  BY <1>1, <1>2, <1>5, <1>6 DEF ScanInv, Reports

FinishMove(room) ==
  /\ Same /\ phase = "finish" /\ phase' = "begin"
  /\ UNCHANGED <<j, state, pre_match_pos, pre_match_type, start_positions>>
  /\ pre_match_type > 0 /\ room => result' = Append(result, Match) /\ i' = pre_match_pos
  /\ ~(pre_match_type > 0 /\ room) => result' = result /\ i' = i + 1

(* The last match is reported if there is room.                            *)
LEMMA FinishInv ==
  ASSUME ScanInv, ~Prefix,
         NEW room \in BOOLEAN, FinishMove(room),
         room => (Buffered => Room),
         ~room => op = "longest_buffer" /\ ~Room
  PROVE  ScanInv'
<1>0. /\ Same /\ phase = "finish" /\ phase' = "begin"
      /\ UNCHANGED <<j, state, pre_match_pos, pre_match_type, start_positions>>
      /\ pre_match_type > 0 /\ room =>
           result' = Append(result, Match) /\ i' = pre_match_pos
      /\ ~(pre_match_type > 0 /\ room) => result' = result /\ i' = i + 1
      /\ ~room => op = "longest_buffer" /\ ~(Len(result) < cap)
      /\ room => (Buffered => Len(result) < cap)
  BY DEF FinishMove, Room
<1>1. Same /\ phase = "finish" /\ phase' = "begin"
  BY <1>0
<1>2. i \in Nat /\ Len(result) \in Nat /\ cap \in Nat /\ text' = text /\ op' = op
      /\ cap' = cap
  BY <1>1 DEF ScanInv, Where, ScanTyped, Reports, Same
<1>3. pre_match_type > 0 => i < pre_match_pos /\ pre_match_pos \in Nat
  BY <1>1, <1>2 DEF ScanInv, Where, ScanTyped, LastOK
<1>4. i' \in Nat
  BY <1>0, <1>2, <1>3
<1>5. Where'
  BY <1>0, <1>4, MoveWhere DEF ScanInv, Where, ScanTyped
<1>6. CASE pre_match_type > 0 /\ room
  <2>1. result' = Append(result, Match) /\ i' = pre_match_pos
    BY <1>0, <1>6
  <2>2. Match \in Record /\ IsLast(Match)
    BY <1>1, <1>6, MatchRecord DEF ScanInv
  <2>3. /\ result' \in Seq(Record) /\ result' # <<>>
        /\ Len(result') = Len(result) + 1 /\ result'[Len(result) + 1] = Match
        /\ Fits(result', Len(text)) /\ (op # "any" => Ordered(result'))
    BY <1>1, <1>6, <2>1, <2>2, Appended DEF Prefix
  <2>4. result'[Len(result')].end <= i'
    BY <1>3, <1>6, <2>1, <2>3 DEF Match
  <2>5. RoomOK'
    BY <1>0, <1>1, <1>2, <1>6, <2>3 DEF RoomOK, Buffered, Prefix, Hold, Short
  <2> QED
    BY <1>1, <1>2, <1>5, <2>3, <2>4, <2>5 DEF ScanInv, Reports, NextOK
<1>7. CASE ~(pre_match_type > 0 /\ room)
  <2>1. result' = result /\ i' = i + 1
    BY <1>0, <1>7
  <2>2. ASSUME op # "any", result # <<>>
        PROVE  \/ result[Len(result)].end <= i + 1
               \/ op = "longest_buffer" /\ Len(result) >= cap
    <3> DEFINE last == result[Len(result)]
    <3>1. CASE pre_match_type > 0
      BY <1>0, <1>2, <1>7, <3>1
    <3>2. CASE ~(pre_match_type > 0)
      <4>1. last.end <= i
        BY <1>1, <2>2, <3>2 DEF ScanInv, Reports, NextOK
      <4>2. last \in Record
        BY <1>2, <2>2 DEF ScanInv, Reports
      <4>3. last.end \in Nat
        BY <4>2 DEF Record
      <4> HIDE DEF last
      <4>4. last.end <= i + 1
        BY <1>2, <4>1, <4>3
      <4> QED
        BY <4>4 DEF last
    <3> QED
      BY <3>1, <3>2
  <2>3. NextOK' /\ RoomOK'
    BY <1>1, <1>2, <2>1, <2>2 DEF NextOK, RoomOK, Buffered, ScanInv, Reports, Hold, Short
  <2> QED
    BY <1>2, <1>5, <2>1, <2>3 DEF ScanInv, Reports
<1> QED
  BY <1>6, <1>7

(* The prefix functions report the last match with its score, and end.     *)
LEMMA FinishPrefixInv == ASSUME ScanInv, Prefix, FinishPrefix PROVE ScanInv'
<1>1. Same /\ phase = "finish" /\ phase' = "returned" /\ i' = i
  BY DEF FinishPrefix
<1>2. i = 0 /\ Len(result) \in Nat /\ cap \in Nat /\ text' = text /\ op' = op
      /\ cap' = cap
  BY <1>1 DEF ScanInv, Where, ScanTyped, Reports, Same, CallOK, Going
<1>3. Where'
  BY <1>1, MoveWhere DEF FinishPrefix, ScanInv, Where, ScanTyped
<1>4. NextOK'
  BY <1>1 DEF NextOK
<1>5. CASE pre_match_type > 0 /\ Room
  <2>1. result' = Append(result, Scored) /\ Len(result) < cap
    BY <1>5 DEF FinishPrefix, Report, Room
  <2>2. Scored \in Record /\ IsLast(Scored)
    BY <1>1, <1>2, <1>5, MatchRecord DEF ScanInv
  <2>3. /\ result' \in Seq(Record) /\ Len(result') = Len(result) + 1
        /\ Fits(result', Len(text)) /\ (op # "any" => Ordered(result'))
    BY <1>1, <1>5, <2>1, <2>2, Appended
  <2>4. RoomOK'
    BY <1>1, <1>2, <2>1, <2>3 DEF RoomOK, Buffered, Hold, Short
  <2> QED
    BY <1>2, <1>3, <1>4, <2>3, <2>4 DEF ScanInv, Reports
<1>6. CASE ~(pre_match_type > 0 /\ Room)
  <2>1. result' = result
    BY <1>6 DEF FinishPrefix, Report
  <2> QED
    BY <1>1, <1>2, <1>3, <1>4, <2>1 DEF ScanInv, Reports, RoomOK, Buffered, Hold, Short
<1> QED
  BY <1>5, <1>6

(* The UINT16 prefix function leaves the scan with the match that fills    *)
(* the buffer.                                                             *)
LEMMA StopFullInv == ASSUME ScanInv, op = "prefix", StopFull PROVE ScanInv'
<1>1. /\ Same /\ phase = "scan" /\ phase' = "finish" /\ pre_match_type > 0
      /\ Len(result) + 1 >= cap /\ result' = Append(result, Scored)
      /\ UNCHANGED <<i, j, state, pre_match_pos, pre_match_type, start_positions>>
  BY DEF StopFull, Full, Changed
<1>2. i = 0 /\ Len(result) \in Nat /\ cap \in Nat /\ text' = text /\ op' = op
      /\ cap' = cap /\ Len(result) < Hold
  BY <1>1 DEF ScanInv, Where, ScanTyped, Reports, Same, CallOK, Going, Prefix, RoomOK,
              Buffered, Leaves
<1>3. Where'
  BY <1>1 DEF ScanInv, Where, ScanTyped, CallOK, ScanOK, LastOK, Same, Phases, Going, Prefix
<1>4. Scored \in Record /\ IsLast(Scored)
  BY <1>1, <1>2, MatchRecord DEF ScanInv
<1>5. /\ result' \in Seq(Record) /\ Len(result') = Len(result) + 1
      /\ result'[Len(result) + 1] = Scored
      /\ Fits(result', Len(text)) /\ (op # "any" => Ordered(result'))
  BY <1>1, <1>4, Appended
<1>6. RoomOK'
  BY <1>1, <1>2, <1>5 DEF RoomOK, Buffered, Hold, Short
<1>7. NextOK'
  BY <1>1, <1>2, <1>4, <1>5 DEF NextOK, IsLast
<1> QED
  BY <1>2, <1>3, <1>5, <1>6, <1>7 DEF ScanInv, Reports

(* AnyMatch goes back to the next beginning.                               *)
LEMMA RestartInv == ASSUME ScanInv, op = "any", Restart PROVE ScanInv'
<1>1. /\ Same /\ phase = "restart" /\ phase' \in {"begin", "returned"}
      /\ result' = result /\ UNCHANGED <<j, state, pre_match_pos, pre_match_type>>
  BY DEF Restart
<1>2. i' \in Nat /\ start_positions' \in Seq(Nat)
  <2>1. start_positions \in Seq(Nat) /\ i \in Nat
    BY DEF ScanInv, Where, ScanTyped
  <2>2. start_positions # <<>> =>
          Head(start_positions) \in Nat /\ Tail(start_positions) \in Seq(Nat)
    BY <2>1
  <2> QED
    BY <2>1, <2>2 DEF Restart
<1>3. Where'
  BY <1>1, <1>2, MoveWhere DEF ScanInv, Prefix
<1>4. Reports'
  BY <1>1 DEF ScanInv, Reports, RoomOK, NextOK, Buffered, Leaves, Same, Hold, Short
<1> QED
  BY <1>3, <1>4 DEF ScanInv

-----------------------------------------------------------------------------
(* The functions that report whenever the type changes.                    *)
LEMMA ChangedInv ==
  ASSUME ScanInv, ScanMove, RoomOK',
         \/ result' = result
         \/ Changed /\ result' = Append(result, Match)
         \/ Changed /\ result' = Append(result, Scored) /\ Prefix
  PROVE  ScanInv'
<1>1. Where'
  BY ScanWhere DEF ScanInv
<1>2. ASSUME Changed
      PROVE  /\ Match \in Record /\ IsLast(Match)
             /\ Prefix => Scored \in Record /\ IsLast(Scored)
  BY <1>2, MatchRecord DEF ScanInv, Changed, ScanMove, Where, CallOK, Going
<1>3. result' = result \/ \E m \in Record : Cut(m)
  BY <1>2 DEF Cut
<1> QED
  BY <1>1, <1>3, ScanReports DEF ScanInv

(* Without a buffer any number of matches may be reported.                 *)
LEMMA UnbufferedInv ==
  ASSUME ScanInv, ~Buffered, ScanMove,
         result' = Report(FALSE, Match) \/ result' = Report(Changed, Match)
  PROVE  ScanInv'
<1>1. RoomOK'
  BY DEF RoomOK, Buffered, ScanMove, Same
<1> QED
  BY <1>1, ChangedInv DEF Report

(* Into a buffer a match is reported only if there is room, and a function *)
(* that does not ask has left the scan when the buffer was full.           *)
LEMMA BufferedInv ==
  ASSUME ScanInv, Buffered, ScanMove,
         \/ result' = result
         \/ /\ Changed /\ Room
            /\ \/ result' = Append(result, Match)
               \/ result' = Append(result, Scored) /\ Prefix
            /\ Leaves /\ phase' = "scan" => Len(result) + 1 < cap
  PROVE  ScanInv'
<1>1. /\ Len(result) \in Nat /\ cap \in Nat /\ cap' = cap /\ op' = op
      /\ mmap_pattern_' = mmap_pattern_ /\ result \in Seq(Record)
  BY DEF ScanInv, Where, ScanTyped, Reports, ScanMove, Same
<1>2. Len(result) <= Hold /\ (Leaves => Len(result) < Hold)
  BY DEF ScanInv, Reports, RoomOK, ScanMove
<1>3. RoomOK'
  <2>1. CASE result' = result
    BY <1>1, <1>2, <2>1 DEF RoomOK, Buffered, Leaves, Hold, Short
  <2>2. CASE result' # result
    <3>1. Match \in Record /\ (Prefix => Scored \in Record)
      BY <2>2, MatchRecord DEF ScanInv, Changed, ScanMove, Where, CallOK, Going
    <3>2. Len(result') = Len(result) + 1
      BY <1>1, <2>2, <3>1
    <3> QED
      BY <1>1, <2>2, <3>2 DEF RoomOK, Buffered, Leaves, Room, Hold, Short
  <2> QED
    BY <2>1, <2>2
<1> QED
  BY <1>3, ChangedInv

-----------------------------------------------------------------------------
(* One step of each function.                                              *)
LEMMA GreedyInv ==
  ASSUME ScanInv, GreedyMatchInStdPattern \/ GreedyMatchInMmapPattern
  PROVE  ScanInv'
<1>1. op = "greedy" /\ ~Prefix /\ ~Buffered
  BY DEF GreedyMatchInStdPattern, GreedyMatchInMmapPattern, Running, Prefix, Buffered
<1>2. CASE Begin(TRUE, -1, "returned")
  BY <1>1, <1>2, BeginInv DEF Begin
<1>3. CASE Scan(FALSE, Match, FALSE) /\ Keep
  <2>1. ScanMove /\ result' = Report(FALSE, Match)
    BY <1>3 DEF Scan, Advance, ScanMove, Keep, ScanInv, Where, ScanTyped
  <2> QED
    BY <1>1, <2>1, UnbufferedInv
<1>4. CASE Finish(TRUE)
  <2>1. FinishMove(TRUE)
    BY <1>4 DEF Finish, FinishMove, Report
  <2> QED
    BY <1>1, <2>1, FinishInv
<1> QED
  BY <1>2, <1>3, <1>4 DEF GreedyMatchInStdPattern, GreedyMatchInMmapPattern

LEMMA LongestInv ==
  ASSUME ScanInv, LongestAnyMatchInStdPattern \/ LongestAnyMatchInMmapPattern
  PROVE  ScanInv'
<1>1. op = "longest" /\ ~Prefix /\ ~Buffered
  BY DEF LongestAnyMatchInStdPattern, LongestAnyMatchInMmapPattern, Running, Prefix, Buffered
<1>2. CASE Begin(TRUE, -1, "returned")
  BY <1>1, <1>2, BeginInv DEF Begin
<1>3. CASE Scan(Changed, Match, FALSE) /\ Keep
  <2>1. ScanMove /\ result' = Report(Changed, Match)
    BY <1>3 DEF Scan, Advance, ScanMove, Keep, ScanInv, Where, ScanTyped
  <2> QED
    BY <1>1, <2>1, UnbufferedInv
<1>4. CASE Finish(TRUE)
  <2>1. FinishMove(TRUE)
    BY <1>4 DEF Finish, FinishMove, Report
  <2> QED
    BY <1>1, <2>1, FinishInv
<1> QED
  BY <1>2, <1>3, <1>4 DEF LongestAnyMatchInStdPattern, LongestAnyMatchInMmapPattern

LEMMA AnyInv == ASSUME ScanInv, AnyMatchInMmapPattern PROVE ScanInv'
<1>1. op = "any" /\ ~Prefix /\ ~Buffered
  BY DEF AnyMatchInMmapPattern, Running, Prefix, Buffered
<1>2. CASE Restart
  BY <1>1, <1>2, RestartInv
<1>3. CASE Begin(TRUE, i - 1, "restart")
  <2>1. i - 1 \in Int
    BY DEF ScanInv, Where, ScanTyped
  <2> QED
    BY <1>1, <1>3, <2>1, BeginInv DEF Begin
<1>4. CASE Scan(Changed, Match, FALSE)
           /\ start_positions' = IF Changed THEN Append(start_positions, pre_match_pos)
                                 ELSE start_positions
  <2>1. Changed => pre_match_pos \in Nat
    BY <1>4 DEF Changed, Scan, ScanInv, Where, ScanTyped, LastOK
  <2>2. start_positions' \in Seq(Nat)
    BY <1>4, <2>1 DEF ScanInv, Where, ScanTyped
  <2>3. ScanMove /\ result' = Report(Changed, Match)
    BY <1>4, <2>2 DEF Scan, Advance, ScanMove
  <2> QED
    BY <1>1, <2>3, UnbufferedInv
<1>5. CASE Finish(TRUE)
  <2>1. FinishMove(TRUE)
    BY <1>5 DEF Finish, FinishMove, Report
  <2> QED
    BY <1>1, <2>1, FinishInv
<1> QED
  BY <1>2, <1>3, <1>4, <1>5 DEF AnyMatchInMmapPattern

LEMMA BufferInv ==
  ASSUME ScanInv, LongestAnyMatchInStdBuffer \/ LongestAnyMatchInMmapBuffer
  PROVE  ScanInv'
<1>1. op = "longest_buffer" /\ ~Prefix /\ Buffered
  BY DEF LongestAnyMatchInStdBuffer, LongestAnyMatchInMmapBuffer, Running, Prefix, Buffered
<1>2. Len(result) \in Nat /\ cap \in Nat /\ Room \in BOOLEAN /\ Changed \in BOOLEAN
  BY DEF ScanInv, Where, ScanTyped, Reports, Room, Changed, Hit
<1>3. CASE Begin(Room, -1, "returned")
  BY <1>3, <1>1, BeginInv DEF Begin
<1>4. CASE Finish(Room)
  <2>1. CASE Room
    <3>1. FinishMove(TRUE)
      BY <1>4, <2>1 DEF Finish, FinishMove, Report
    <3> QED
      BY <1>1, <2>1, <3>1, FinishInv
  <2>2. CASE ~Room
    <3>1. FinishMove(FALSE)
      BY <1>4, <2>2 DEF Finish, FinishMove, Report
    <3> QED
      BY <1>1, <2>2, <3>1, FinishInv
  <2> QED
    BY <2>1, <2>2
<1>5. CASE /\ ~mmap_pattern_
           /\ Scan(Changed /\ Room, Match, FALSE) /\ Keep
  <2>1. ScanMove /\ result' = Report(Changed /\ Room, Match)
    BY <1>5 DEF Scan, Advance, ScanMove, Keep, ScanInv, Where, ScanTyped
  <2> QED
    BY <1>1, <1>5, <2>1, BufferedInv DEF Report, Leaves
<1>6. CASE /\ mmap_pattern_
           /\ Scan(Changed, Match, Changed /\ Len(result) + 1 >= cap) /\ Keep
  <2>1. Len(result) < cap
    BY <1>1, <1>6 DEF ScanInv, Reports, RoomOK, Leaves, Scan, Hold, Short
  <2>2. ScanMove /\ result' = Report(Changed, Match)
    BY <1>6 DEF Scan, Advance, ScanMove, Keep, ScanInv, Where, ScanTyped
  <2>3. phase' = "scan" => ~(Changed /\ Len(result) + 1 >= cap)
    BY <1>6 DEF Scan, Advance
  <2> QED
    BY <1>1, <1>2, <2>1, <2>2, <2>3, BufferedInv DEF Report, Room
<1> QED
  BY <1>3, <1>4, <1>5, <1>6 DEF LongestAnyMatchInStdBuffer, LongestAnyMatchInMmapBuffer, Running

LEMMA PrefixInv ==
  ASSUME ScanInv, MatchInMmapPatternWide \/ MatchInMmapPattern PROVE ScanInv'
<1>1. Prefix /\ Buffered
  BY DEF MatchInMmapPatternWide, MatchInMmapPattern, Running, Prefix, Buffered
<1>2. Len(result) \in Nat /\ cap \in Nat /\ Room \in BOOLEAN /\ Changed \in BOOLEAN
  BY DEF ScanInv, Where, ScanTyped, Reports, Room, Changed, Hit
<1>3. CASE FinishPrefix
  BY <1>1, <1>3, FinishPrefixInv
<1>4. CASE op = "prefix" /\ StopFull
  BY <1>4, StopFullInv
<1>5. CASE /\ op = "prefix_wide"
           /\ Scan(Changed /\ Room, Scored, FALSE) /\ Keep
  <2>1. ScanMove /\ result' = Report(Changed /\ Room, Scored)
    BY <1>5 DEF Scan, Advance, ScanMove, Keep, ScanInv, Where, ScanTyped
  <2> QED
    BY <1>1, <1>5, <2>1, BufferedInv DEF Report, Leaves
<1>6. CASE /\ op = "prefix" /\ ~Full
           /\ Scan(Changed, Scored, FALSE) /\ Keep
  <2>1. Changed => Len(result) < cap /\ Len(result) + 1 < cap
    BY <1>2, <1>6 DEF Full
  <2>2. ScanMove /\ result' = Report(Changed, Scored)
    BY <1>6 DEF Scan, Advance, ScanMove, Keep, ScanInv, Where, ScanTyped
  <2> QED
    BY <1>1, <2>1, <2>2, BufferedInv DEF Report, Room
<1> QED
  BY <1>3, <1>4, <1>5, <1>6 DEF MatchInMmapPatternWide, MatchInMmapPattern, Running

(* Every step keeps the invariant.                                         *)
LEMMA ScanStepInv == ScanInv /\ [MatchNext]_scanVars => ScanInv'
<1> SUFFICES ASSUME ScanInv, [MatchNext]_scanVars PROVE ScanInv'
  OBVIOUS
<1>1. ASSUME NEW c \in Calls, Call(c) PROVE ScanInv'
  BY <1>1, CallInv
<1>2. CASE Matching
  BY <1>2, GreedyInv, LongestInv, BufferInv, PrefixInv, AnyInv DEF Matching
<1>3. CASE UNCHANGED scanVars
  <2>1. Where'
    BY <1>3 DEF scanVars, ScanInv, Where, ScanTyped, CallOK, ScanOK, LastOK, Going, Prefix
  <2>2. Reports'
    BY <1>3 DEF scanVars, ScanInv, Reports, RoomOK, NextOK, Buffered, Leaves, Hold, Short
  <2> QED
    BY <2>1, <2>2 DEF ScanInv
<1> QED
  BY <1>1, <1>2, <1>3 DEF MatchNext

THEOREM MatchInvariant == MatchSpec => []ScanInv
BY ScanInitInv, ScanStepInv, PTL DEF MatchSpec

LEMMA ScanInvTypes == ASSUME ScanInv PROVE MatchTypeOK
<1>1. ASSUME NEW m \in Reported
      PROVE  m.begin \in Nat /\ m.end \in Nat /\ m.type \in Int
  <2>1. m \in Record
    BY DEF ScanInv, Reports, Reported
  <2> QED
    BY <2>1 DEF Record
<1> QED
  BY <1>1 DEF ScanInv, Where, ScanTyped, MatchTypeOK

(* The variables keep their types.                                         *)
THEOREM MatchTypes == MatchSpec => []MatchTypeOK
<1>1. ScanInv => MatchTypeOK
  BY ScanInvTypes
<1> QED
  BY <1>1, MatchInvariant, PTL

LEMMA ScanInvFits == ASSUME ScanInv PROVE ReportsFit
<1>1. \A m \in Reported : m.begin < m.end /\ m.end <= Len(text) /\ m.type > 0
  BY DEF ScanInv, Reports, Fits, FitsIn, Reported
<1>2. Buffered => Len(result) <= cap \/ (op = "prefix" /\ cap = 0 /\ Len(result) = 1)
  <2>1. Len(result) \in Nat /\ cap \in Nat
    BY DEF ScanInv, Reports, Where, ScanTyped
  <2>2. Buffered => Len(result) <= Hold
    BY DEF ScanInv, Reports, RoomOK
  <2>3. CASE Short
    <3>1. Hold = 1
      BY <2>3 DEF Hold
    <3>2. op = "prefix" /\ cap = 0
      BY <2>3 DEF Short
    <3>3. Len(result) <= 1 => Len(result) <= cap \/ Len(result) = 1
      BY <2>1, <3>2
    <3> QED
      BY <2>2, <3>1, <3>2, <3>3
  <2>4. CASE ~Short
    BY <2>1, <2>2, <2>4 DEF Hold
  <2> QED
    BY <2>3, <2>4
<1>3. ASSUME op # "any", NEW k \in 1 .. Len(result) - 1
      PROVE  \/ /\ result[k + 1].begin = result[k].begin
                /\ result[k + 1].end > result[k].end
             \/ result[k + 1].begin >= result[k].end
  BY <1>3 DEF ScanInv, Reports, Ordered, Follows
<1> QED
  BY <1>1, <1>2, <1>3 DEF ReportsFit, Buffered

(* What is reported lies in the text, is not empty, has a type, and comes  *)
(* in the order of the text: for every automaton, every text and each of   *)
(* the nine functions. It fits into the buffer, of whatever size, but for  *)
(* one match: that of the UINT16 prefix function where there is no room.   *)
THEOREM ReportsFitProved == MatchSpec => []ReportsFit
<1>1. ScanInv => ReportsFit
  BY ScanInvFits
<1> QED
  BY <1>1, MatchInvariant, PTL
-----------------------------------------------------------------------------
(* The two files.  A set of numbers in ascending order: the place of a     *)
(* number is the number of smaller ones.                                   *)
Below(set, x) == { y \in set : y < x }

LEMMA RankGrows ==
  ASSUME NEW S, S \subseteq Int, IsFiniteSet(S), NEW x \in S
  PROVE  /\ Rank(S, x) \in 0 .. Cardinality(S) - 1 /\ Rank(S, x) \in Nat
         /\ \A y \in S : x < y => Rank(S, x) < Rank(S, y)
<1>1. ASSUME NEW T, IsFiniteSet(T), Below(S, x) \cup {x} \subseteq T, T \subseteq S
      PROVE  Rank(S, x) \in Nat /\ Rank(S, x) < Cardinality(T)
  <2>1. Below(S, x) \subseteq S /\ x \notin Below(S, x)
    BY DEF Below
  <2>2. IsFiniteSet(Below(S, x)) /\ Cardinality(Below(S, x)) \in Nat
    BY <2>1, FS_Subset, FS_CardinalityType
  <2>3. Cardinality(Below(S, x) \cup {x}) = Cardinality(Below(S, x)) + 1
    BY <2>1, <2>2, FS_AddElement
  <2>4. Cardinality(Below(S, x) \cup {x}) <= Cardinality(T) /\ Cardinality(T) \in Nat
    BY <1>1, FS_Subset, FS_CardinalityType
  <2>5. Rank(S, x) = Cardinality(Below(S, x))
    BY DEF Rank, Below
  <2> QED
    BY <2>2, <2>3, <2>4, <2>5
<1>2. Below(S, x) \cup {x} \subseteq S /\ Cardinality(S) \in Nat
  BY FS_CardinalityType DEF Below
<1>3. ASSUME NEW y \in S, x < y
      PROVE  Rank(S, x) < Rank(S, y)
  <2>1. Below(S, x) \cup {x} \subseteq Below(S, y) /\ Below(S, y) \subseteq S
    <3>1. x \in Int /\ y \in Int /\ \A z \in S : z \in Int /\ (z < x => z < y)
      BY <1>3
    <3> QED
      BY <1>3, <3>1 DEF Below
  <2>2. IsFiniteSet(Below(S, y))
    BY <2>1, FS_Subset
  <2>3. Rank(S, y) = Cardinality(Below(S, y))
    BY DEF Rank, Below
  <2> QED
    BY <1>1, <2>1, <2>2, <2>3
<1>4. Rank(S, x) \in Nat /\ Rank(S, x) < Cardinality(S)
  BY <1>1, <1>2
<1> QED
  BY <1>2, <1>3, <1>4

(* Every member of the set has its place, and every place its member. *)
LEMMA InOrderOfRank ==
  ASSUME NEW S, S \subseteq Int, IsFiniteSet(S)
  PROVE  /\ Len(Ascending(S)) = Cardinality(S) /\ Cardinality(S) \in Nat
         /\ Ascending(S) \in Seq(S)
         /\ \A x \in S : Rank(S, x) + 1 \in 1 .. Cardinality(S)
                         /\ Ascending(S)[Rank(S, x) + 1] = x
         /\ \A k, l \in 1 .. Cardinality(S) : Ascending(S)[k] = Ascending(S)[l] => k = l
<1> DEFINE n == Cardinality(S)
           f == [x \in S |-> Rank(S, x)]
<1>1. n \in Nat
  BY FS_CardinalityType
<1>2. \A x, y \in S : Rank(S, x) = Rank(S, y) => x = y
  <2> SUFFICES ASSUME NEW x \in S, NEW y \in S, x # y
               PROVE  Rank(S, x) # Rank(S, y)
    OBVIOUS
  <2>1. Rank(S, x) \in Nat /\ Rank(S, y) \in Nat
    BY RankGrows
  <2>2. x < y \/ y < x
    <3>1. x \in Int /\ y \in Int
      OBVIOUS
    <3> QED
      BY <3>1
  <2>3. /\ x < y => Rank(S, x) < Rank(S, y)
        /\ y < x => Rank(S, y) < Rank(S, x)
    BY RankGrows
  <2> QED
    BY <2>1, <2>2, <2>3
<1>3. f \in [S -> 0 .. n - 1]
  BY RankGrows
<1>4. f \in Injection(S, 0 .. n - 1)
  BY <1>2, <1>3 DEF Injection, IsInjective
<1>5. IsFiniteSet(0 .. n - 1) /\ Cardinality(0 .. n - 1) = n
  <2>1. 0 \in Int /\ n - 1 \in Int /\ (0 > n - 1 => n = 0) /\ n - 1 - 0 + 1 = n
    BY <1>1
  <2> HIDE DEF n
  <2> QED
    BY <2>1, FS_Interval
<1>6. f \in Surjection(S, 0 .. n - 1)
  BY <1>4, <1>5, FS_Injection
<1>7. \A k \in 0 .. n - 1 : \E x \in S : Rank(S, x) = k
  BY <1>6 DEF Surjection
<1>8. ASSUME NEW k \in 1 .. n
      PROVE  Ascending(S)[k] \in S /\ Rank(S, Ascending(S)[k]) = k - 1
  <2>1. PICK x \in S : Rank(S, x) = k - 1
    BY <1>1, <1>7
  <2>2. Ascending(S)[k] = CHOOSE y \in S : Rank(S, y) = k - 1
    BY DEF Ascending
  <2> QED
    BY <2>1, <2>2
<1>9. Ascending(S) \in Seq(S) /\ Len(Ascending(S)) = n
  <2>1. Ascending(S) = [k \in 1 .. n |-> Ascending(S)[k]]
    BY DEF Ascending
  <2>2. \A k \in 1 .. n : Ascending(S)[k] \in S
    BY <1>8
  <2> QED
    BY <1>1, <2>1, <2>2
<1>10. ASSUME NEW x \in S
       PROVE  Rank(S, x) + 1 \in 1 .. n /\ Ascending(S)[Rank(S, x) + 1] = x
  <2>1. Rank(S, x) \in 0 .. n - 1
    BY RankGrows
  <2>2. Rank(S, x) + 1 \in 1 .. n /\ Rank(S, x) + 1 - 1 = Rank(S, x)
    BY <1>1, <2>1
  <2> DEFINE k == Rank(S, x) + 1
  <2>3. k \in 1 .. n
    BY <2>2
  <2> HIDE DEF k, n
  <2>4. Ascending(S)[k] \in S /\ Rank(S, Ascending(S)[k]) = k - 1
    BY <1>8, <2>3
  <2>5. k - 1 = Rank(S, x)
    BY <2>1, <2>2 DEF k
  <2>6. Ascending(S)[k] = x
    BY <1>2, <2>4, <2>5
  <2> QED
    BY <2>3, <2>6 DEF k
<1>11. ASSUME NEW k \in 1 .. n, NEW l \in 1 .. n, Ascending(S)[k] = Ascending(S)[l]
       PROVE  k = l
  <2>1. k - 1 = l - 1 /\ k \in Int /\ l \in Int
    BY <1>8, <1>11
  <2> QED
    BY <2>1
<1> QED
  BY <1>1, <1>9, <1>10, <1>11

(* Numbers written with two digits. *)
LEMMA Times ==
  ASSUME NEW b \in Nat, NEW p \in Int, NEW q \in Int, p <= q
  PROVE  b * p <= b * q /\ b * p \in Int /\ b * (p + 1) = b * p + b
OBVIOUS

LEMMA Digits ==
  ASSUME NEW b \in Nat \ {0}, NEW n \in Nat
  PROVE  /\ n \div b \in Nat /\ n % b \in 0 .. b - 1
         /\ b * (n \div b) + (n % b) = n
OBVIOUS

LEMMA OneWay ==
  ASSUME NEW b \in Nat \ {0}, NEW q \in Nat, NEW r \in 0 .. b - 1
  PROVE  /\ b * q + r \in Nat
         /\ (b * q + r) \div b = q /\ (b * q + r) % b = r
<1> DEFINE n == b * q + r
           d == n \div b
           m == n % b
<1>1. n \in Nat
  <2>1. b * q \in Nat
    OBVIOUS
  <2> QED
    BY <2>1
<1>2. d \in Nat /\ m \in 0 .. b - 1 /\ b * d + m = n
  BY <1>1, Digits
<1>3. b * d + m = b * q + r /\ b * d \in Int /\ b * q \in Int
  BY <1>2
<1> HIDE DEF d, m, n
<1>4. d <= q
  <2> SUFFICES ASSUME q + 1 <= d PROVE FALSE
    BY <1>2
  <2>1. b * (q + 1) <= b * d /\ b * (q + 1) = b * q + b
    BY <1>2, Times
  <2> QED
    BY <1>2, <1>3, <2>1
<1>5. q <= d
  <2> SUFFICES ASSUME d + 1 <= q PROVE FALSE
    BY <1>2
  <2>1. b * (d + 1) <= b * q /\ b * (d + 1) = b * d + b
    BY <1>2, Times
  <2> QED
    BY <1>2, <1>3, <2>1
<1>6. d = q
  BY <1>2, <1>4, <1>5
<1>7. m = r
  BY <1>2, <1>3, <1>6
<1> QED
  BY <1>1, <1>6, <1>7 DEF d, m, n

(* r is s and then t. *)
Both(r, s, t) ==
  /\ Len(r) = Len(s) + Len(t) /\ Len(s) \in Nat /\ Len(t) \in Nat
  /\ \A x \in 1 .. Len(s) : r[x] = s[x]
  /\ \A x \in 1 .. Len(t) : r[Len(s) + x] = t[x]

LEMMA Joined ==
  ASSUME NEW T, NEW s \in Seq(T), NEW t \in Seq(T), NEW r, r = s \o t
  PROVE  r \in Seq(T) /\ Both(r, s, t)
<1>1. r \in Seq(T) /\ Len(r) = Len(s) + Len(t) /\ Len(s) \in Nat /\ Len(t) \in Nat
  OBVIOUS
<1>2. \A x \in 1 .. Len(s) + Len(t) : r[x] = IF x <= Len(s) THEN s[x] ELSE t[x - Len(s)]
  OBVIOUS
<1>3. ASSUME NEW x \in 1 .. Len(t)
      PROVE  r[Len(s) + x] = t[x]
  <2>1. Len(s) + x \in 1 .. Len(s) + Len(t) /\ ~(Len(s) + x <= Len(s))
        /\ Len(s) + x - Len(s) = x
    BY <1>1
  <2> QED
    BY <1>2, <2>1
<1>4. \A x \in 1 .. Len(s) : r[x] = s[x]
  BY <1>1, <1>2
<1> QED
  BY <1>1, <1>3, <1>4 DEF Both

(* The sections of a file of tables, as Read finds them. *)
Found(map, n, s, t, u) ==
  /\ map[1] = n
  /\ \A x \in 1 .. Len(s) : Read(map, x) = s[x]
  /\ \A x \in 1 .. Len(t) : Read(map, Len(s) + x) = t[x]
  /\ \A x \in 1 .. Len(u) : Read(map, Len(s) + Len(t) + x) = u[x]

LEMMA Sections ==
  ASSUME NEW n \in Int, NEW s \in Seq(Int), NEW t \in Seq(Int), NEW u \in Seq(Int),
         NEW map, map = << n >> \o s \o t \o u
  PROVE  Found(map, n, s, t, u)
<1>1. PICK h : h = << n >>
  OBVIOUS
<1>2. h \in Seq(Int) /\ Len(h) = 1 /\ h[1] = n
  BY <1>1
<1>3. PICK v : v = h \o s
  OBVIOUS
<1>4. PICK w : w = v \o t
  OBVIOUS
<1>5. map = w \o u
  BY <1>1, <1>3, <1>4
<1>6. v \in Seq(Int) /\ Both(v, h, s)
  BY <1>2, <1>3, Joined
<1>7. w \in Seq(Int) /\ Both(w, v, t)
  BY <1>4, <1>6, Joined
<1>8. map \in Seq(Int) /\ Both(map, w, u)
  BY <1>5, <1>7, Joined
<1>9. Len(v) = 1 + Len(s) /\ v[1] = n /\ \A x \in 1 .. Len(s) : v[1 + x] = s[x]
  BY <1>2, <1>6 DEF Both
<1>10. /\ Len(w) = Len(v) + Len(t)
       /\ \A x \in 1 .. Len(v) : w[x] = v[x]
       /\ \A x \in 1 .. Len(t) : w[Len(v) + x] = t[x]
  BY <1>7 DEF Both
<1>11. /\ Len(map) = Len(w) + Len(u)
       /\ \A x \in 1 .. Len(w) : map[x] = w[x]
       /\ \A x \in 1 .. Len(u) : map[Len(w) + x] = u[x]
  BY <1>8 DEF Both
<1>12. Len(s) \in Nat /\ Len(t) \in Nat /\ Len(u) \in Nat
  OBVIOUS
<1>13. Len(map) = 1 + Len(s) + Len(t) + Len(u) /\ map[1] = n
  BY <1>9, <1>10, <1>11, <1>12
<1>14. ASSUME NEW x \in 1 .. Len(s)
      PROVE  Read(map, x) = s[x]
  <2>1. x < Len(map) /\ x + 1 = 1 + x /\ 1 + x \in 1 .. Len(v) /\ 1 + x \in 1 .. Len(w)
    BY <1>9, <1>10, <1>12, <1>13
  <2>2. Read(map, x) = map[1 + x]
    BY <2>1 DEF Read
  <2> QED
    BY <1>9, <1>10, <1>11, <2>1, <2>2
<1>15. ASSUME NEW x \in 1 .. Len(t)
      PROVE  Read(map, Len(s) + x) = t[x]
  <2>1. Len(s) + x < Len(map) /\ Len(s) + x + 1 = Len(v) + x /\ Len(v) + x \in 1 .. Len(w)
    BY <1>9, <1>10, <1>12, <1>13
  <2> QED
    BY <1>10, <1>11, <2>1 DEF Read
<1>16. ASSUME NEW x \in 1 .. Len(u)
      PROVE  Read(map, Len(s) + Len(t) + x) = u[x]
  <2>1. Len(s) + Len(t) + x < Len(map) /\ Len(s) + Len(t) + x + 1 = Len(w) + x
    BY <1>9, <1>10, <1>12, <1>13
  <2> QED
    BY <1>11, <2>1 DEF Read
<1> QED
  BY <1>13, <1>14, <1>15, <1>16 DEF Found

-----------------------------------------------------------------------------
(* The nodes of an automaton: an edge leads to one of them. *)
Targets(n) == NoState .. n - 1
NodesOver(C, n) == [type : Int, next : [C -> Targets(n)]]
Automaton(ns) == \E C \in SUBSET Codes : ns \in Seq(NodesOver(C, Len(ns)))

LEMMA TwoBytes ==
  ASSUME NEW c \in Codes
  PROVE  /\ High(c) \in 0 .. Bytes - 1 /\ Low(c) \in 0 .. Bytes - 1
         /\ Bytes * High(c) + Low(c) = c
<1>1. Bytes \in Nat \ {0} /\ c \in Nat /\ c < Bytes * Bytes
  <2>1. Bytes * Bytes \in Nat
    BY PatternsAssumption
  <2> QED
    BY <2>1, PatternsAssumption DEF Codes
<1>2. High(c) \in Nat /\ Low(c) \in 0 .. Bytes - 1 /\ Bytes * High(c) + Low(c) = c
  BY <1>1, Digits DEF High, Low
<1>3. High(c) < Bytes
  <2> SUFFICES ASSUME Bytes <= High(c) PROVE FALSE
    BY <1>1, <1>2
  <2>1. Bytes * Bytes <= Bytes * High(c) /\ Bytes * High(c) \in Int
    BY <1>1, <1>2, Times
  <2>2. Bytes * Bytes \in Int /\ Low(c) >= 0 /\ Low(c) \in Int /\ c \in Int
    BY <1>1, <1>2
  <2> QED
    BY <1>1, <1>2, <2>1, <2>2
<1> QED
  BY <1>1, <1>2, <1>3

LEMMA EdgesAre ==
  ASSUME NEW n \in Nat, NEW C \in SUBSET Codes, NEW node \in NodesOver(C, n)
  PROVE  /\ Edges(node) \subseteq C /\ Edges(node) \subseteq Codes
         /\ \A c \in Edges(node) : node.next[c] \in 0 .. n - 1
         /\ \A c : EdgeOf(node, c) \in Targets(n)
         /\ node.type \in Int
<1>1. node.next \in [C -> Targets(n)] /\ node.type \in Int
  BY DEF NodesOver
<1>2. \A c \in Edges(node) : c \in C /\ node.next[c] \in 0 .. n - 1
  BY <1>1 DEF Edges, Targets, NoState
<1>3. \A c : EdgeOf(node, c) \in Targets(n)
  BY <1>2 DEF EdgeOf, Targets, NoState
<1> QED
  BY <1>1, <1>2, <1>3

(* A row of the first level: which node and which high byte it is of. *)
LEMMA RowIs ==
  ASSUME NEW n \in Nat, NEW k \in 0 .. n - 1, NEW c \in Codes
  PROVE  /\ Row(k, c) \in 0 .. Bytes * n - 1
         /\ Row(k, c) \div Bytes = k /\ Row(k, c) % Bytes = High(c)
<1>1. Bytes \in Nat \ {0} /\ High(c) \in 0 .. Bytes - 1 /\ k \in Nat /\ k + 1 <= n /\ k \in Int
  BY PatternsAssumption, TwoBytes
<1>2. Row(k, c) \in Nat /\ Row(k, c) \div Bytes = k /\ Row(k, c) % Bytes = High(c)
  BY <1>1, OneWay DEF Row
<1>3. Bytes * (k + 1) <= Bytes * n /\ Bytes * (k + 1) = Bytes * k + Bytes
      /\ Bytes * k \in Int /\ Bytes * n \in Int
  <2>1. k + 1 \in Int /\ n \in Int /\ k <= k
    BY <1>1
  <2>2. Bytes * (k + 1) <= Bytes * n
    BY <1>1, <2>1, Times
  <2>3. Bytes * (k + 1) = Bytes * k + Bytes /\ Bytes * k \in Int
    BY <1>1, <2>1, Times
  <2>4. Bytes * n \in Int
    BY <1>1, <2>1
  <2> QED
    BY <2>2, <2>3, <2>4
<1>4. Row(k, c) < Bytes * n
  BY <1>1, <1>3 DEF Row
<1> QED
  BY <1>2, <1>3, <1>4

(* The blocks: every used row has one. *)
LEMMA UsedAre ==
  ASSUME NEW ns, Automaton(ns)
  PROVE  /\ UsedRows(ns) \subseteq 0 .. Bytes * Len(ns) - 1
         /\ Bytes * Len(ns) \in Nat /\ Len(ns) \in Nat
         /\ IsFiniteSet(UsedRows(ns)) /\ UsedRows(ns) \subseteq Int
         /\ \A k \in 0 .. Len(ns) - 1 : \A c \in Edges(ns[k + 1]) : Row(k, c) \in UsedRows(ns)
         /\ \A k \in 0 .. Len(ns) - 1 : Edges(ns[k + 1]) \subseteq Codes
         /\ \A k \in 1 .. Len(ns) : ns[k].type \in Int
<1>1. PICK C \in SUBSET Codes : ns \in Seq(NodesOver(C, Len(ns)))
  BY DEF Automaton
<1>2. Len(ns) \in Nat /\ \A k \in 1 .. Len(ns) : ns[k] \in NodesOver(C, Len(ns))
  BY <1>1, ElementOfSeq
<1>3. Bytes * Len(ns) \in Nat
  BY <1>2, PatternsAssumption
<1>4. ASSUME NEW k \in 1 .. Len(ns)
      PROVE  Edges(ns[k]) \subseteq Codes /\ ns[k].type \in Int
  BY <1>2, EdgesAre
<1>5. ASSUME NEW k \in 1 .. Len(ns), NEW c \in Edges(ns[k])
      PROVE  Row(k - 1, c) \in 0 .. Bytes * Len(ns) - 1
  <2>1. k - 1 \in 0 .. Len(ns) - 1 /\ c \in Codes
    BY <1>2, <1>4
  <2> QED
    BY <1>2, <2>1, RowIs
<1>6. UsedRows(ns) \subseteq 0 .. Bytes * Len(ns) - 1
  BY <1>5 DEF UsedRows
<1>7. IsFiniteSet(0 .. Bytes * Len(ns) - 1)
  <2>1. 0 \in Int /\ Bytes * Len(ns) - 1 \in Int
    BY <1>3
  <2> QED
    BY <2>1, FS_Interval
<1>8. IsFiniteSet(UsedRows(ns))
  BY <1>6, <1>7, FS_Subset
<1>9. ASSUME NEW k \in 0 .. Len(ns) - 1
      PROVE  /\ Edges(ns[k + 1]) \subseteq Codes
             /\ \A c \in Edges(ns[k + 1]) : Row(k, c) \in UsedRows(ns)
  <2>1. PICK l \in 1 .. Len(ns) : l = k + 1 /\ l - 1 = k
    BY <1>2
  <2>2. \A c \in Edges(ns[l]) : Row(l - 1, c) \in UsedRows(ns)
    BY DEF UsedRows
  <2> QED
    BY <1>4, <2>1, <2>2
<1>10. UsedRows(ns) \subseteq Int
  BY <1>3, <1>6
<1> QED
  BY <1>2, <1>3, <1>4, <1>6, <1>8, <1>9, <1>10

(* What a lookup in the second level finds: the edge of the row's node.    *)
LEMMA BlockOf ==
  ASSUME NEW ns, Automaton(ns), NEW k \in 0 .. Len(ns) - 1, NEW c \in Codes,
         NEW row, row = Row(k, c), row \in UsedRows(ns),
         NEW x, x = Bytes * Rank(UsedRows(ns), row) + Low(c) + 1
  PROVE  x \in 1 .. Len(Level2Section(ns)) /\ Level2Section(ns)[x] = EdgeOf(ns[k + 1], c)
<1> DEFINE used == UsedRows(ns)
           rows == Ascending(used)
           b == Rank(used, row)
<1>1. /\ Bytes \in Nat \ {0} /\ Len(ns) \in Nat /\ Low(c) \in 0 .. Bytes - 1
      /\ Bytes * High(c) + Low(c) = c
  BY PatternsAssumption, UsedAre, TwoBytes
<1>2. IsFiniteSet(used) /\ used \subseteq Int
  BY UsedAre
<1>3. b \in Nat
  BY <1>2, RankGrows
<1>4. /\ Len(rows) = Cardinality(used) /\ Cardinality(used) \in Nat
      /\ b + 1 \in 1 .. Cardinality(used) /\ rows[b + 1] = row
  BY <1>2, InOrderOfRank
<1>5. row \div Bytes = k /\ row % Bytes = High(c)
  BY <1>1, RowIs
<1> HIDE DEF used, rows, b
<1>6. x - 1 = Bytes * b + Low(c) /\ x - 1 \in Nat
      /\ (x - 1) \div Bytes = b /\ (x - 1) % Bytes = Low(c)
  <2>1. x - 1 = Bytes * b + Low(c)
    <3>1. Bytes * b \in Int /\ Low(c) \in Int
      BY <1>1, <1>3
    <3> QED
      BY <3>1 DEF b, used
  <2>2. /\ Bytes * b + Low(c) \in Nat /\ (Bytes * b + Low(c)) \div Bytes = b
        /\ (Bytes * b + Low(c)) % Bytes = Low(c)
    BY <1>1, <1>3, OneWay
  <2> QED
    BY <2>1, <2>2
<1>7. x \in Int /\ 1 <= x /\ x <= Bytes * Len(rows) /\ Bytes * Len(rows) \in Nat
  <2>1. b + 1 <= Len(rows) /\ b + 1 \in Int /\ Len(rows) \in Int /\ b \in Int /\ b <= b
    BY <1>3, <1>4
  <2>2. Bytes * (b + 1) <= Bytes * Len(rows)
    BY <1>1, <2>1, Times
  <2>3. Bytes * (b + 1) = Bytes * b + Bytes /\ Bytes * b \in Int
    BY <1>1, <2>1, Times
  <2>4. Bytes * Len(rows) \in Nat
    BY <1>1, <1>4
  <2>5. x = Bytes * b + Low(c) + 1
    BY DEF b, used
  <2>6. x <= Bytes * b + Bytes /\ Bytes * b + Bytes \in Int /\ x \in Int
    BY <1>1, <2>3, <2>5
  <2>7. x <= Bytes * Len(rows)
    BY <2>2, <2>3, <2>4, <2>6
  <2> QED
    BY <1>6, <2>4, <2>6, <2>7
<1>8. Level2Section(ns) =
        [z \in 1 .. Bytes * Len(rows) |->
           EdgeOf(ns[1 + (rows[1 + (z - 1) \div Bytes]) \div Bytes],
                  Bytes * ((rows[1 + (z - 1) \div Bytes]) % Bytes) + ((z - 1) % Bytes))]
  BY DEF Level2Section, rows, used
<1>9. x \in 1 .. Bytes * Len(rows)
  BY <1>7
<1>10. Len(Level2Section(ns)) = Bytes * Len(rows)
  BY <1>7, <1>8
<1>11. Level2Section(ns)[x] =
        EdgeOf(ns[1 + (rows[1 + (x - 1) \div Bytes]) \div Bytes],
               Bytes * ((rows[1 + (x - 1) \div Bytes]) % Bytes) + ((x - 1) % Bytes))
  BY <1>8, <1>9
<1>12. rows[1 + (x - 1) \div Bytes] = row
  <2>1. 1 + (x - 1) \div Bytes = b + 1
    BY <1>3, <1>6
  <2> QED
    BY <1>4, <2>1
<1>13. 1 + row \div Bytes = k + 1 /\ Bytes * (row % Bytes) + ((x - 1) % Bytes) = c
  BY <1>1, <1>5, <1>6
<1> QED
  BY <1>9, <1>10, <1>11, <1>12, <1>13

LEMMA SectionsTyped ==
  ASSUME NEW ns, Automaton(ns)
  PROVE  /\ TypeSection(ns) \in Seq(Int) /\ Len(TypeSection(ns)) = Len(ns)
         /\ Level1Section(ns) \in Seq(Int) /\ Len(Level1Section(ns)) = Bytes * Len(ns)
         /\ Level2Section(ns) \in Seq(Int)
<1> DEFINE used == UsedRows(ns)
           rows == Ascending(used)
<1>1. /\ Bytes \in Nat \ {0} /\ Len(ns) \in Nat /\ Bytes * Len(ns) \in Nat
      /\ IsFiniteSet(used) /\ used \subseteq Int
  BY PatternsAssumption, UsedAre
<1>2. TypeSection(ns) \in Seq(Int) /\ Len(TypeSection(ns)) = Len(ns)
  BY <1>1, UsedAre DEF TypeSection
<1>3. Level1Section(ns) \in Seq(Int) /\ Len(Level1Section(ns)) = Bytes * Len(ns)
  <2>1. \A z : z \in used => Rank(used, z) \in Int
    BY <1>1, RankGrows
  <2> HIDE DEF used
  <2>2. Level1Section(ns) = [x \in 1 .. Bytes * Len(ns) |->
                               IF x - 1 \in used THEN Rank(used, x - 1) ELSE -1]
    BY DEF Level1Section, used
  <2> QED
    BY <1>1, <2>1, <2>2
<1>4. rows \in Seq(used) /\ Len(rows) \in Nat
  BY <1>1, InOrderOfRank
<1>5. ASSUME NEW row \in used, NEW c
      PROVE  EdgeOf(ns[1 + row \div Bytes], c) \in Int
  <2>1. PICK C \in SUBSET Codes : ns \in Seq(NodesOver(C, Len(ns)))
    BY DEF Automaton
  <2>2. PICK k \in 1 .. Len(ns) : \E d \in Edges(ns[k]) : row = Row(k - 1, d)
    BY DEF UsedRows
  <2>3. ns[k] \in NodesOver(C, Len(ns))
    BY <2>1, ElementOfSeq
  <2>4. k - 1 \in 0 .. Len(ns) - 1 /\ 1 + (k - 1) = k
    BY <1>1
  <2>5. row \div Bytes = k - 1
    <3>1. PICK d \in Edges(ns[k]) : row = Row(k - 1, d)
      BY <2>2
    <3>2. d \in Codes
      BY <1>1, <2>3, EdgesAre
    <3> QED
      BY <1>1, <2>4, <3>1, <3>2, RowIs
  <2>6. EdgeOf(ns[k], c) \in Targets(Len(ns))
    BY <1>1, <2>3, EdgesAre
  <2>7. Targets(Len(ns)) \subseteq Int
    BY <1>1 DEF Targets, NoState
  <2> QED
    BY <2>4, <2>5, <2>6, <2>7
<1>6. ASSUME NEW x \in 1 .. Bytes * Len(rows)
      PROVE  1 + (x - 1) \div Bytes \in 1 .. Len(rows)
  <2> DEFINE q == (x - 1) \div Bytes
  <2>1. Bytes * Len(rows) \in Nat /\ x - 1 \in Nat /\ x - 1 < Bytes * Len(rows)
    BY <1>1, <1>4
  <2>2. q \in Nat /\ (x - 1) % Bytes \in 0 .. Bytes - 1 /\ Bytes * q + ((x - 1) % Bytes) = x - 1
    BY <1>1, <2>1, Digits
  <2> HIDE DEF q
  <2>3. q < Len(rows)
    <3> HIDE DEF rows
    <3> SUFFICES ASSUME Len(rows) <= q PROVE FALSE
      BY <1>4, <2>2
    <3>1. Len(rows) \in Int /\ q \in Int /\ Bytes \in Nat
      BY <1>1, <1>4, <2>2
    <3>2. Bytes * Len(rows) <= Bytes * q /\ Bytes * q \in Int
      BY <3>1, Times
    <3> QED
      BY <1>1, <2>1, <2>2, <3>2
  <2>4. 1 + q \in 1 .. Len(rows)
    BY <1>4, <2>2, <2>3
  <2> QED
    BY <2>4 DEF q
<1>7. \A x \in 1 .. Bytes * Len(rows) : rows[1 + (x - 1) \div Bytes] \in used
  BY <1>4, <1>6, ElementOfSeq
<1>8. Bytes * Len(rows) \in Nat
  BY <1>1, <1>4
<1> HIDE DEF rows, used
<1>9. Level2Section(ns) =
        [z \in 1 .. Bytes * Len(rows) |->
           EdgeOf(ns[1 + (rows[1 + (z - 1) \div Bytes]) \div Bytes],
                  Bytes * ((rows[1 + (z - 1) \div Bytes]) % Bytes) + ((z - 1) % Bytes))]
  BY DEF Level2Section, rows, used
<1>10. \A z \in 1 .. Bytes * Len(rows) :
          EdgeOf(ns[1 + (rows[1 + (z - 1) \div Bytes]) \div Bytes],
                 Bytes * ((rows[1 + (z - 1) \div Bytes]) % Bytes) + ((z - 1) % Bytes)) \in Int
  BY <1>5, <1>7
<1>11. Level2Section(ns) \in Seq(Int)
  BY <1>8, <1>9, <1>10
<1> QED
  BY <1>2, <1>3, <1>11

(* What was stored is what the mapped tables say: StoreToMmap and the      *)
(* lookups of the functions on the tables agree about every automaton,     *)
(* node and symbol, whatever blocks the edges need.                        *)
THEOREM MapKept ==
  ASSUME NEW ns, Automaton(ns)
  PROVE  MmapMachine(StoreNodes(ns)) = StdMachine(ns)
<1> DEFINE n == Len(ns)
           used == UsedRows(ns)
           map == StoreNodes(ns)
           one == TypeSection(ns)
           two == Level1Section(ns)
           three == Level2Section(ns)
           Lookup(k, c) ==
             LET block == Read(map, 1 + n + Row(k, c))
             IN  IF block >= 0 THEN Read(map, 1 + n + Bytes * n + Bytes * block + Low(c))
                 ELSE NoState
<1>1. /\ Bytes \in Nat \ {0} /\ n \in Nat /\ n \in Int /\ Bytes * n \in Nat
      /\ IsFiniteSet(used) /\ used \subseteq Int
  BY PatternsAssumption, UsedAre
<1>2. /\ one \in Seq(Int) /\ Len(one) = n /\ two \in Seq(Int) /\ Len(two) = Bytes * n
      /\ three \in Seq(Int)
  BY SectionsTyped
<1>3. map = << n >> \o one \o two \o three
  BY DEF StoreNodes
<1>4. /\ map[1] = n
      /\ \A x \in 1 .. n : Read(map, x) = one[x]
      /\ \A x \in 1 .. Bytes * n : Read(map, n + x) = two[x]
      /\ \A x \in 1 .. Len(three) : Read(map, n + Bytes * n + x) = three[x]
  <2> HIDE DEF n, one, two, three, map
  <2>1. Found(map, n, one, two, three)
    BY <1>1, <1>2, <1>3, Sections
  <2> QED
    BY <1>2, <2>1 DEF Found
<1>5. ASSUME NEW k \in 0 .. n - 1
      PROVE  Read(map, 1 + k) = ns[k + 1].type
  <2>1. 1 + k \in 1 .. n /\ 1 + k = k + 1
    BY <1>1
  <2>2. one[k + 1] = ns[k + 1].type
    BY <2>1 DEF TypeSection
  <2> QED
    BY <1>4, <2>1, <2>2
<1>6. ASSUME NEW k \in 0 .. n - 1, NEW c \in Codes
      PROVE  Lookup(k, c) = EdgeOf(ns[k + 1], c)
  <2> DEFINE row == Row(k, c)
             block == Read(map, 1 + n + row)
  <2>1. row \in 0 .. Bytes * n - 1 /\ row \in Nat
    <3>1. row \in 0 .. Bytes * n - 1
      BY <1>1, RowIs
    <3> HIDE DEF row, n
    <3>2. Bytes * n - 1 \in Int
      BY <1>1
    <3> QED
      BY <3>1, <3>2
  <2>2. row + 1 \in 1 .. Bytes * n /\ 1 + n + row = n + (row + 1) /\ row + 1 - 1 = row
    BY <1>1, <2>1
  <2>3. block = two[row + 1]
    BY <1>4, <2>2
  <2>4. two[row + 1] = IF row \in used THEN Rank(used, row) ELSE -1
    <3>1. two = [x \in 1 .. Bytes * n |-> IF x - 1 \in used THEN Rank(used, x - 1) ELSE -1]
      BY DEF Level1Section
    <3> HIDE DEF two, used, n, row
    <3>2. PICK x \in 1 .. Bytes * n : x = row + 1 /\ x - 1 = row
      BY <2>1, <2>2
    <3>3. two[x] = IF x - 1 \in used THEN Rank(used, x - 1) ELSE -1
      BY <3>1
    <3> QED
      BY <3>2, <3>3
  <2>5. CASE row \in used
    <3> DEFINE x == Bytes * Rank(used, row) + Low(c) + 1
    <3>1. block = Rank(used, row) /\ block \in Nat
      BY <1>1, <2>3, <2>4, <2>5, RankGrows
    <3>2. x \in 1 .. Len(three) /\ three[x] = EdgeOf(ns[k + 1], c)
      BY <2>5, BlockOf
    <3>3. 1 + n + Bytes * n + Bytes * block + Low(c) = n + Bytes * n + x
      <4>1. Bytes * block \in Int /\ Low(c) \in Int
        BY <1>1, <3>1, TwoBytes
      <4> QED
        BY <1>1, <3>1, <4>1
    <3>4. Read(map, n + Bytes * n + x) = three[x]
      BY <1>4, <3>2
    <3>5. Lookup(k, c) = Read(map, 1 + n + Bytes * n + Bytes * block + Low(c))
      BY <3>1
    <3> QED
      BY <3>2, <3>3, <3>4, <3>5
  <2>6. CASE row \notin used
    <3>1. c \notin Edges(ns[k + 1])
      BY <2>6, UsedAre
    <3>2. Lookup(k, c) = NoState
      BY <2>3, <2>4, <2>6
    <3> QED
      BY <3>1, <3>2 DEF EdgeOf
  <2> QED
    BY <2>5, <2>6
<1>7. MmapMachine(map) =
        [count |-> n,
         type  |-> [k \in 0 .. n - 1 |-> Read(map, 1 + k)],
         next  |-> [k \in 0 .. n - 1 |-> [c \in Codes |-> Lookup(k, c)]]]
  BY <1>4 DEF MmapMachine
<1>8. [k \in 0 .. n - 1 |-> Read(map, 1 + k)] = [k \in 0 .. n - 1 |-> ns[k + 1].type]
  BY <1>5
<1>9. [k \in 0 .. n - 1 |-> [c \in Codes |-> Lookup(k, c)]]
       = [k \in 0 .. n - 1 |-> [c \in Codes |-> EdgeOf(ns[k + 1], c)]]
  BY <1>6
<1> QED
  BY <1>7, <1>8, <1>9 DEF StdMachine

-----------------------------------------------------------------------------
(* The first n sequences of s, one behind the other: f[k] ends with the    *)
(* k-th, and in r the k-th begins behind the first off[k] elements.        *)
Chained(f, T, s, n) ==
  /\ f \in [1 .. n -> Seq(T)]
  /\ \A k \in 1 .. n : f[k] = IF k = 1 THEN s[k] ELSE f[k - 1] \o s[k]

Placed(r, T, s, off, n) ==
  /\ r \in Seq(T) /\ off \in [1 .. n + 1 -> Nat]
  /\ off[1] = 0 /\ off[n + 1] = Len(r)
  /\ \A k \in 1 .. n :
       /\ off[k + 1] = off[k] + Len(s[k])
       /\ \A e \in 1 .. Len(s[k]) : off[k] + e \in 1 .. Len(r) /\ r[off[k] + e] = s[k][e]

Longer(to, off, n, len) ==
  to = [k \in 1 .. n + 2 |-> IF k <= n + 1 THEN off[k] ELSE len]

LEMMA PlacedNext ==
  ASSUME NEW T, NEW s, NEW n \in Nat, NEW x \in Seq(T), s[n + 1] = x,
         NEW r, NEW off, Placed(r, T, s, off, n),
         NEW q, q = r \o x,
         NEW to, Longer(to, off, n, Len(r) + Len(x))
  PROVE  Placed(q, T, s, to, n + 1)
<1>1. r \in Seq(T) /\ off \in [1 .. n + 1 -> Nat] /\ off[1] = 0 /\ off[n + 1] = Len(r)
  BY DEF Placed
<1>2. q \in Seq(T) /\ Both(q, r, x)
  BY <1>1, Joined
<1>3. /\ Len(q) = Len(r) + Len(x) /\ Len(r) \in Nat /\ Len(x) \in Nat
      /\ \A z \in 1 .. Len(r) : q[z] = r[z]
      /\ \A z \in 1 .. Len(x) : q[Len(r) + z] = x[z]
  BY <1>2 DEF Both
<1>4. /\ to \in [1 .. n + 1 + 1 -> Nat] /\ to[n + 1 + 1] = Len(q)
      /\ \A k \in 1 .. n + 1 : to[k] = off[k]
  <2>1. n + 2 = n + 1 + 1 /\ n + 2 \in 1 .. n + 2 /\ ~(n + 2 <= n + 1)
    OBVIOUS
  <2>2. \A k \in 1 .. n + 1 : k \in 1 .. n + 2 /\ k <= n + 1
    OBVIOUS
  <2>3. \A k \in 1 .. n + 2 : k <= n + 1 => k \in 1 .. n + 1
    OBVIOUS
  <2>4. to[n + 2] = Len(r) + Len(x)
    BY <2>1 DEF Longer
  <2>5. \A k \in 1 .. n + 1 : to[k] = off[k]
    BY <2>2 DEF Longer
  <2>6. to \in [1 .. n + 2 -> Nat]
    BY <1>1, <1>3, <2>3 DEF Longer
  <2> QED
    BY <1>3, <2>1, <2>4, <2>5, <2>6
<1>5. to[1] = 0
  BY <1>1, <1>4
<1>6. ASSUME NEW k \in 1 .. n
      PROVE  /\ to[k + 1] = to[k] + Len(s[k])
             /\ \A e \in 1 .. Len(s[k]) : to[k] + e \in 1 .. Len(q) /\ q[to[k] + e] = s[k][e]
  <2>1. k \in 1 .. n + 1 /\ k + 1 \in 1 .. n + 1
    OBVIOUS
  <2>2. to[k] = off[k] /\ to[k + 1] = off[k + 1]
    BY <1>4, <2>1
  <2>3. off[k + 1] = off[k] + Len(s[k])
    BY DEF Placed
  <2>4. ASSUME NEW e \in 1 .. Len(s[k])
        PROVE  off[k] + e \in 1 .. Len(q) /\ q[off[k] + e] = s[k][e]
    <3>1. off[k] + e \in 1 .. Len(r) /\ r[off[k] + e] = s[k][e]
      BY DEF Placed
    <3> QED
      BY <1>3, <3>1
  <2> QED
    BY <2>2, <2>3, <2>4
<1>7. /\ to[n + 1 + 1] = to[n + 1] + Len(s[n + 1])
      /\ \A e \in 1 .. Len(s[n + 1]) :
           to[n + 1] + e \in 1 .. Len(q) /\ q[to[n + 1] + e] = s[n + 1][e]
  <2>1. n + 1 \in 1 .. n + 1 /\ to[n + 1] = Len(r)
    BY <1>1, <1>4
  <2>2. to[n + 1 + 1] = to[n + 1] + Len(s[n + 1])
    BY <1>3, <1>4, <2>1
  <2>3. ASSUME NEW e \in 1 .. Len(x)
        PROVE  Len(r) + e \in 1 .. Len(q) /\ q[Len(r) + e] = x[e]
    BY <1>3
  <2> QED
    BY <2>1, <2>2, <2>3
<1>8. ASSUME NEW k \in 1 .. n + 1
      PROVE  /\ to[k + 1] = to[k] + Len(s[k])
             /\ \A e \in 1 .. Len(s[k]) : to[k] + e \in 1 .. Len(q) /\ q[to[k] + e] = s[k][e]
  <2>1. CASE k \in 1 .. n
    BY <1>6, <2>1
  <2>2. CASE k = n + 1
    BY <1>7, <2>2
  <2>3. k \in 1 .. n \/ k = n + 1
    OBVIOUS
  <2> QED
    BY <2>1, <2>2, <2>3
<1> QED
  BY <1>2, <1>4, <1>5, <1>8 DEF Placed

(* Such sequences exist: by induction on their number. *)
LEMMA Chain ==
  ASSUME NEW T, NEW s \in Seq(Seq(T)), NEW n \in 0 .. Len(s)
  PROVE  \E f, off : /\ Chained(f, T, s, n)
                     /\ n = 0 => Placed(<< >>, T, s, off, n)
                     /\ n > 0 => Placed(f[n], T, s, off, n)
<1> DEFINE Ok(m) == \E f, off : /\ Chained(f, T, s, m)
                                /\ m = 0 => Placed(<< >>, T, s, off, m)
                                /\ m > 0 => Placed(f[m], T, s, off, m)
           Bad == { m \in 0 .. Len(s) : ~Ok(m) }
<1>1. Len(s) \in Nat /\ \A k \in 1 .. Len(s) : s[k] \in Seq(T)
  BY ElementOfSeq
<1>2. Ok(0)
  <2> DEFINE f == [k \in 1 .. 0 |-> << >>]
             off == [k \in 1 .. 0 + 1 |-> 0]
  <2>1. Chained(f, T, s, 0)
    BY DEF Chained
  <2>2. << >> \in Seq(T) /\ Len(<< >>) = 0
    OBVIOUS
  <2>3. off \in [1 .. 0 + 1 -> Nat] /\ off[1] = 0 /\ off[0 + 1] = 0
    OBVIOUS
  <2>4. Placed(<< >>, T, s, off, 0)
    BY <2>2, <2>3 DEF Placed
  <2> QED
    BY <2>1, <2>4
<1>3. ASSUME NEW m \in 0 .. Len(s) - 1, Ok(m)
      PROVE  Ok(m + 1)
  <2>1. PICK f, off : /\ Chained(f, T, s, m)
                      /\ m = 0 => Placed(<< >>, T, s, off, m)
                      /\ m > 0 => Placed(f[m], T, s, off, m)
    BY <1>3
  <2>2. m \in Nat /\ m + 1 \in 1 .. Len(s)
    BY <1>1
  <2>3. PICK x : s[m + 1] = x /\ x \in Seq(T)
    BY <1>1, <2>2
  <2>4. PICK r : Placed(r, T, s, off, m) /\ (m = 0 => r = << >>) /\ (m > 0 => r = f[m])
    BY <2>1, <2>2
  <2>5. r \in Seq(T)
    BY <2>4 DEF Placed
  <2>6. PICK q : q = r \o x
    OBVIOUS
  <2>7. q \in Seq(T)
    BY <2>3, <2>5, <2>6
  <2>8. PICK to : Longer(to, off, m, Len(r) + Len(x))
    BY DEF Longer
  <2>9. Placed(q, T, s, to, m + 1)
    BY <2>2, <2>3, <2>4, <2>6, <2>8, PlacedNext
  <2>10. PICK g : g = [k \in 1 .. m + 1 |-> IF k <= m THEN f[k] ELSE q]
    OBVIOUS
  <2>11. /\ g \in [1 .. m + 1 -> Seq(T)] /\ g[m + 1] = q
         /\ \A k \in 1 .. m : g[k] = f[k]
    <3>1. f \in [1 .. m -> Seq(T)]
      BY <2>1 DEF Chained
    <3>2. /\ m + 1 \in 1 .. m + 1 /\ ~(m + 1 <= m)
          /\ \A k \in 1 .. m : k \in 1 .. m + 1 /\ k <= m
          /\ \A k \in 1 .. m + 1 : k <= m => k \in 1 .. m
      BY <2>2
    <3> QED
      BY <2>7, <2>10, <3>1, <3>2
  <2>12. ASSUME NEW k \in 1 .. m + 1
         PROVE  g[k] = IF k = 1 THEN s[k] ELSE g[k - 1] \o s[k]
    <3>1. CASE k <= m
      <4>1. k \in 1 .. m /\ (k # 1 => k - 1 \in 1 .. m)
        BY <2>2, <3>1
      <4>2. f[k] = IF k = 1 THEN s[k] ELSE f[k - 1] \o s[k]
        BY <2>1, <4>1 DEF Chained
      <4> QED
        BY <2>11, <4>1, <4>2
    <3>2. CASE k = m + 1 /\ m = 0
      <4>1. r = << >> /\ q = x
        BY <2>3, <2>4, <2>6, <3>2
      <4> QED
        BY <2>3, <2>11, <3>2, <4>1
    <3>3. CASE k = m + 1 /\ m > 0
      <4>1. r = f[m] /\ m \in 1 .. m /\ k # 1 /\ k - 1 = m
        BY <2>2, <2>4, <3>3
      <4> QED
        BY <2>3, <2>6, <2>11, <3>3, <4>1
    <3> QED
      BY <2>2, <3>1, <3>2, <3>3
  <2>13. Chained(g, T, s, m + 1)
    BY <2>11, <2>12 DEF Chained
  <2>14. m + 1 # 0 /\ m + 1 > 0
    BY <2>2
  <2> QED
    BY <2>9, <2>11, <2>13, <2>14
<1> HIDE DEF Ok
<1>4. Bad = {}
  <2> SUFFICES ASSUME Bad # {} PROVE FALSE
    OBVIOUS
  <2>1. Bad \subseteq Nat
    OBVIOUS
  <2>2. PICK m \in Bad : \A z \in Bad : << z, m >> \notin OpToRel(<, Nat)
    BY <2>1, NatLessThanWellFounded, WFMin
  <2>3. m \in Nat /\ m # 0 /\ m - 1 \in 0 .. Len(s) - 1 /\ m - 1 + 1 = m /\ m - 1 \in 0 .. Len(s)
        /\ m - 1 \in Nat /\ m - 1 < m
    BY <1>1, <1>2
  <2>4. m - 1 \notin Bad
    BY <2>2, <2>3 DEF OpToRel
  <2>5. Ok(m - 1)
    BY <2>3, <2>4
  <2> QED
    BY <1>3, <2>2, <2>3, <2>5
<1>5. Ok(n)
  BY <1>4
<1> QED
  BY <1>5 DEF Ok

(* Two functions with the same recursion are the same. *)
Repeats(g, s, n) == g = [k \in 1 .. n |-> IF k = 1 THEN s[k] ELSE g[k - 1] \o s[k]]

LEMMA OneChain ==
  ASSUME NEW T, NEW s, NEW n \in Nat, NEW f, Chained(f, T, s, n),
         NEW g, Repeats(g, s, n),
         NEW l \in 1 .. n
  PROVE  g[l] = f[l]
<1> DEFINE Bad == { k \in 1 .. n : g[k] # f[k] }
<1>1. \A k \in 1 .. n : g[k] = IF k = 1 THEN s[k] ELSE g[k - 1] \o s[k]
  BY DEF Repeats
<1>2. \A k \in 1 .. n : f[k] = IF k = 1 THEN s[k] ELSE f[k - 1] \o s[k]
  BY DEF Chained
<1>3. Bad = {}
  <2> SUFFICES ASSUME Bad # {} PROVE FALSE
    OBVIOUS
  <2>1. Bad \subseteq Nat
    OBVIOUS
  <2>2. PICK m \in Bad : \A z \in Bad : << z, m >> \notin OpToRel(<, Nat)
    BY <2>1, NatLessThanWellFounded, WFMin
  <2>3. m \in 1 .. n /\ g[m] # f[m] /\ m # 1
    BY <1>1, <1>2
  <2>4. m - 1 \in 1 .. n /\ m - 1 \in Nat /\ m \in Nat /\ m - 1 < m
    BY <2>3
  <2>5. m - 1 \notin Bad
    BY <2>2, <2>4 DEF OpToRel
  <2>6. g[m - 1] = f[m - 1]
    BY <2>4, <2>5
  <2> QED
    BY <1>1, <1>2, <2>3, <2>6
<1> QED
  BY <1>3

LEMMA Flattened ==
  ASSUME NEW T, NEW s \in Seq(Seq(T)), NEW r, r = FlattenSeq(s)
  PROVE  \E off : Placed(r, T, s, off, Len(s))
<1> DEFINE n == Len(s)
<1>1. n \in Nat /\ n \in 0 .. Len(s)
  OBVIOUS
<1>2. PICK f, off : /\ Chained(f, T, s, n)
                    /\ n = 0 => Placed(<< >>, T, s, off, n)
                    /\ n > 0 => Placed(f[n], T, s, off, n)
  BY <1>1, Chain
<1>3. CASE n = 0
  <2>1. s = << >> /\ r = << >>
    BY <1>3 DEF FlattenSeq
  <2> QED
    BY <1>2, <1>3, <2>1
<1>4. CASE n > 0
  <2>1. PICK g : g = CHOOSE h : Repeats(h, s, n)
    OBVIOUS
  <2>2. r = g[n]
    <3>1. ~(Len(s) = 0)
      BY <1>4
    <3> QED
      BY <2>1, <3>1 DEF FlattenSeq, Repeats
  <2>3. Repeats(f, s, n)
    BY <1>2 DEF Chained, Repeats
  <2>4. Repeats(g, s, n)
    BY <2>1, <2>3
  <2>5. n \in 1 .. n /\ n \in Nat /\ Chained(f, T, s, n)
    BY <1>1, <1>2, <1>4
  <2>6. g[n] = f[n]
    <3> HIDE DEF n
    <3> QED
      BY <2>4, <2>5, OneChain
  <2> QED
    BY <1>2, <1>4, <2>2, <2>6
<1> QED
  BY <1>1, <1>3, <1>4

-----------------------------------------------------------------------------
(* A node as Serialization writes it: two numbers for each edge.           *)
PairsOf(s, keys, next, m) ==
  /\ s = [e \in 1 .. m |-> << keys[e], next[keys[e]] >>]
  /\ \A e \in 1 .. m : keys[e] \in Int /\ next[keys[e]] \in Int

InPairs(r, keys, next, m) ==
  /\ r \in Seq(Int) /\ Len(r) = 2 * m
  /\ \A e \in 1 .. m : r[2 * e - 1] = keys[e] /\ r[2 * e] = next[keys[e]]

LEMMA PairsFlat ==
  ASSUME NEW keys, NEW m \in Nat, NEW next, NEW s, PairsOf(s, keys, next, m),
         NEW r, r = FlattenSeq(s)
  PROVE  InPairs(r, keys, next, m)
<1>1. \A e \in 1 .. m : /\ s[e] \in Seq(Int) /\ Len(s[e]) = 2
                        /\ s[e][1] = keys[e] /\ s[e][2] = next[keys[e]]
  BY DEF PairsOf
<1>2. s \in Seq(Seq(Int)) /\ Len(s) = m
  BY <1>1 DEF PairsOf
<1>3. PICK off : Placed(r, Int, s, off, m)
  BY <1>2, Flattened
<1>4. /\ r \in Seq(Int) /\ off \in [1 .. m + 1 -> Nat] /\ off[1] = 0 /\ off[m + 1] = Len(r)
      /\ \A e \in 1 .. m : /\ off[e + 1] = off[e] + 2
                            /\ r[off[e] + 1] = keys[e] /\ r[off[e] + 2] = next[keys[e]]
  <2>1. ASSUME NEW e \in 1 .. m
        PROVE  /\ off[e + 1] = off[e] + 2
               /\ r[off[e] + 1] = keys[e] /\ r[off[e] + 2] = next[keys[e]]
    <3>1. /\ off[e + 1] = off[e] + Len(s[e])
          /\ \A d \in 1 .. Len(s[e]) : r[off[e] + d] = s[e][d]
      BY <1>3 DEF Placed
    <3>2. 1 \in 1 .. Len(s[e]) /\ 2 \in 1 .. Len(s[e]) /\ Len(s[e]) = 2
      BY <1>1
    <3> QED
      BY <1>1, <3>1, <3>2
  <2> QED
    BY <1>3, <2>1 DEF Placed
<1>5. \A e \in 1 .. m + 1 : off[e] = 2 * e - 2
  <2> DEFINE Bad == { e \in 1 .. m + 1 : off[e] # 2 * e - 2 }
  <2> SUFFICES ASSUME Bad # {} PROVE FALSE
    OBVIOUS
  <2>1. Bad \subseteq Nat
    OBVIOUS
  <2>2. PICK e \in Bad : \A z \in Bad : << z, e >> \notin OpToRel(<, Nat)
    BY <2>1, NatLessThanWellFounded, WFMin
  <2>3. e \in 1 .. m + 1 /\ off[e] # 2 * e - 2 /\ e # 1
    BY <1>4
  <2>4. PICK d \in 1 .. m : e = d + 1 /\ d \in Nat /\ e \in Nat /\ d < e /\ d \in 1 .. m + 1
    BY <2>3
  <2>5. d \notin Bad
    BY <2>2, <2>4 DEF OpToRel
  <2>6. off[d] = 2 * d - 2
    BY <2>4, <2>5
  <2>7. off[e] = off[d] + 2
    BY <1>4, <2>4
  <2> QED
    BY <2>3, <2>4, <2>6, <2>7
<1>6. Len(r) = 2 * m
  BY <1>4, <1>5
<1>7. ASSUME NEW e \in 1 .. m
      PROVE  r[2 * e - 1] = keys[e] /\ r[2 * e] = next[keys[e]]
  <2>1. off[e] = 2 * e - 2
    BY <1>5
  <2>2. off[e] + 1 = 2 * e - 1 /\ off[e] + 2 = 2 * e
    BY <2>1
  <2> QED
    BY <1>4, <2>2
<1> QED
  BY <1>4, <1>6, <1>7 DEF InPairs

Keys(node) == Ascending(Edges(node))
Degree(node) == Cardinality(Edges(node))

WrittenAs(w, node) ==
  /\ w \in Seq(Int) /\ Degree(node) \in Nat /\ Len(w) = 2 + 2 * Degree(node)
  /\ w[1] = node.type /\ w[2] = Degree(node)
  /\ \A e \in 1 .. Degree(node) :
       w[2 * e + 1] = Keys(node)[e] /\ w[2 * e + 2] = node.next[Keys(node)[e]]

LEMMA NodeWritten ==
  ASSUME NEW n \in Nat, NEW C \in SUBSET Codes, NEW node \in NodesOver(C, n),
         NEW w, w = Written(node)
  PROVE  WrittenAs(w, node)
<1> DEFINE keys == Keys(node)
           m == Degree(node)
<1>1. Edges(node) \subseteq Int /\ IsFiniteSet(Edges(node))
      /\ \A c \in Edges(node) : node.next[c] \in Int
  <2>1. Codes \subseteq Int /\ IsFiniteSet(Codes)
    <3>1. 0 \in Int /\ Bytes * Bytes - 1 \in Int
      BY PatternsAssumption
    <3> QED
      BY <3>1, FS_Interval DEF Codes
  <2>2. Edges(node) \subseteq Codes /\ \A c \in Edges(node) : node.next[c] \in 0 .. n - 1
    BY EdgesAre
  <2>3. Edges(node) \in SUBSET Codes /\ IsFiniteSet(Edges(node))
    BY <2>1, <2>2, FS_Subset
  <2>4. Edges(node) \subseteq Int
    BY <2>1, <2>2
  <2>5. \A z \in 0 .. n - 1 : z \in Int
    OBVIOUS
  <2>6. \A c \in Edges(node) : node.next[c] \in Int
    BY <2>2, <2>5
  <2> QED
    BY <2>3, <2>4, <2>6
<1>2. /\ m \in Nat /\ Len(keys) = m /\ keys \in Seq(Edges(node))
      /\ \A e \in 1 .. m : keys[e] \in Edges(node)
  BY <1>1, InOrderOfRank DEF Keys, Degree
<1>3. PICK r : r = FlattenSeq(Pairs(node))
  OBVIOUS
<1> HIDE DEF keys, m
<1>4. Pairs(node) = [e \in 1 .. m |-> << keys[e], node.next[keys[e]] >>]
  <2>1. Pairs(node) = [e \in 1 .. Len(keys) |-> << keys[e], node.next[keys[e]] >>]
    BY DEF Pairs, keys, Keys
  <2> QED
    BY <1>2, <2>1
<1>5. \A e \in 1 .. m : keys[e] \in Int /\ node.next[keys[e]] \in Int
  BY <1>1, <1>2
<1>6. /\ r \in Seq(Int) /\ Len(r) = 2 * m
      /\ \A e \in 1 .. m : r[2 * e - 1] = keys[e] /\ r[2 * e] = node.next[keys[e]]
  <2>1. PairsOf(Pairs(node), keys, node.next, m)
    BY <1>4, <1>5 DEF PairsOf
  <2>2. InPairs(r, keys, node.next, m)
    BY <1>2, <1>3, <2>1, PairsFlat
  <2> QED
    BY <2>2 DEF InPairs
<1>7. PICK h : h = << node.type, m >>
  OBVIOUS
<1>8. h \in Seq(Int) /\ Len(h) = 2 /\ h[1] = node.type /\ h[2] = m
  <2>1. node.type \in Int
    BY EdgesAre
  <2> QED
    BY <1>2, <1>7, <2>1
<1>9. w = h \o r
  BY <1>3, <1>7 DEF Written, m, Degree
<1>10. w \in Seq(Int) /\ Both(w, h, r)
  BY <1>6, <1>8, <1>9, Joined
<1>11. Len(w) = 2 + 2 * m /\ w[1] = node.type /\ w[2] = m
  BY <1>6, <1>8, <1>10 DEF Both
<1>12. ASSUME NEW e \in 1 .. m
       PROVE  w[2 * e + 1] = keys[e] /\ w[2 * e + 2] = node.next[keys[e]]
  <2>1. PICK x, y : x = 2 * e - 1 /\ y = 2 * e
    OBVIOUS
  <2>2. x \in 1 .. Len(r) /\ y \in 1 .. Len(r) /\ 2 + x = 2 * e + 1 /\ 2 + y = 2 * e + 2
    BY <1>2, <1>6, <2>1
  <2>3. w[2 + x] = r[x] /\ w[2 + y] = r[y]
    BY <1>8, <1>10, <2>2 DEF Both
  <2>4. r[x] = keys[e] /\ r[y] = node.next[keys[e]]
    BY <1>6, <2>1
  <2> QED
    BY <2>2, <2>3, <2>4
<1> QED
  BY <1>2, <1>10, <1>11, <1>12 DEF keys, m, WrittenAs

(* A node that is read again has its type and the edges it has. *)
Bare(node) == [type |-> node.type, next |-> [c \in Edges(node) |-> node.next[c]]]

LEMMA BareEdges ==
  ASSUME NEW node, NEW c
  PROVE  EdgeOf(Bare(node), c) = EdgeOf(node, c) /\ Bare(node).type = node.type
<1>1. Edges(Bare(node)) = Edges(node)
  BY DEF Bare, Edges
<1> QED
  BY <1>1 DEF Bare, EdgeOf

(* In the file the sequence w begins at the place at. *)
Holds(file, at, w) == \A x \in 1 .. Len(w) : file[at - 1 + x] = w[x]

LEMMA NodeRead ==
  ASSUME NEW n \in Nat, NEW C \in SUBSET Codes, NEW node \in NodesOver(C, n),
         NEW w, w = Written(node), NEW file, NEW at \in Nat, Holds(file, at, w)
  PROVE  ReadNode(file, at) = Bare(node) /\ file[at + 1] = Degree(node)
<1> DEFINE keys == Keys(node)
           m == Degree(node)
<1>1. /\ w \in Seq(Int) /\ m \in Nat /\ Len(w) = 2 + 2 * m
      /\ w[1] = node.type /\ w[2] = m
      /\ \A e \in 1 .. m : w[2 * e + 1] = keys[e] /\ w[2 * e + 2] = node.next[keys[e]]
  <2>1. WrittenAs(w, node)
    BY NodeWritten
  <2> QED
    BY <2>1 DEF WrittenAs
<1>2. Edges(node) \subseteq Int /\ IsFiniteSet(Edges(node))
  <2>1. Codes \subseteq Int /\ IsFiniteSet(Codes)
    <3>1. 0 \in Int /\ Bytes * Bytes - 1 \in Int
      BY PatternsAssumption
    <3> QED
      BY <3>1, FS_Interval DEF Codes
  <2>2. Edges(node) \in SUBSET Codes
    BY EdgesAre
  <2> QED
    BY <2>1, <2>2, FS_Subset
<1>3. /\ keys \in Seq(Edges(node)) /\ Len(keys) = m
      /\ \A c \in Edges(node) : Rank(Edges(node), c) + 1 \in 1 .. m
                               /\ keys[Rank(Edges(node), c) + 1] = c
      /\ \A d, e \in 1 .. m : keys[d] = keys[e] => d = e
  BY <1>2, InOrderOfRank DEF Keys, Degree
<1>4. \A e \in 1 .. m : keys[e] \in Edges(node)
  BY <1>1, <1>3, ElementOfSeq
<1> HIDE DEF keys, m
<1>5. file[at] = node.type /\ file[at + 1] = m
  <2>1. 1 \in 1 .. Len(w) /\ 2 \in 1 .. Len(w) /\ at - 1 + 1 = at /\ at - 1 + 2 = at + 1
    BY <1>1
  <2> QED
    BY <1>1, <2>1 DEF Holds
<1>6. ASSUME NEW e \in 1 .. m
      PROVE  file[at + 2 * e] = keys[e] /\ file[at + 2 * e + 1] = node.next[keys[e]]
  <2>1. PICK x, y : x = 2 * e + 1 /\ y = 2 * e + 2
    OBVIOUS
  <2>2. e \in Int /\ 1 <= e /\ e <= m
    BY <1>1
  <2>3. x \in 1 .. Len(w) /\ y \in 1 .. Len(w)
        /\ at - 1 + x = at + 2 * e /\ at - 1 + y = at + 2 * e + 1
    BY <1>1, <2>2, <2>1
  <2>4. file[at - 1 + x] = w[x] /\ file[at - 1 + y] = w[y]
    BY <2>3 DEF Holds
  <2>5. w[x] = keys[e] /\ w[y] = node.next[keys[e]]
    BY <1>1, <2>1
  <2> QED
    BY <2>3, <2>4, <2>5
<1> DEFINE over == { file[at + 2 * e] : e \in 1 .. m }
           edge(c) == CHOOSE e \in 1 .. m : file[at + 2 * e] = c
<1>7. over = Edges(node)
  <2>1. \A e \in 1 .. m : file[at + 2 * e] \in Edges(node)
    BY <1>4, <1>6
  <2>2. ASSUME NEW c \in Edges(node)
        PROVE  \E e \in 1 .. m : c = file[at + 2 * e]
    <3>1. PICK e \in 1 .. m : keys[e] = c
      BY <1>3
    <3> QED
      BY <1>6, <3>1
  <2> QED
    BY <2>1, <2>2
<1>8. ASSUME NEW c \in Edges(node)
      PROVE  file[at + 2 * edge(c) + 1] = node.next[c]
  <2>1. PICK d \in 1 .. m : file[at + 2 * d] = c
    BY <1>7
  <2>2. edge(c) \in 1 .. m /\ file[at + 2 * edge(c)] = c
    BY <2>1
  <2> HIDE DEF edge
  <2>3. keys[edge(c)] = c
    BY <1>6, <2>2
  <2> QED
    BY <1>6, <2>2, <2>3
<1>9. ReadNode(file, at) =
        [type |-> file[at], next |-> [c \in over |-> file[at + 2 * edge(c) + 1]]]
  BY <1>5 DEF ReadNode
<1> HIDE DEF over, edge
<1> QED
  BY <1>5, <1>7, <1>8, <1>9 DEF Bare, m

-----------------------------------------------------------------------------
(* The walk of InitFromFile over the records, and that there is only one.  *)
Walks(at, file, n) ==
  at = [k \in 1 .. n + 1 |-> IF k = 1 THEN 3 + file[1]
                             ELSE at[k - 1] + 2 + 2 * file[at[k - 1] + 1]]

LEMMA OneWalk ==
  ASSUME NEW file, NEW n \in Nat, NEW f, Walks(f, file, n), NEW g, Walks(g, file, n),
         NEW l \in 1 .. n + 1
  PROVE  g[l] = f[l]
<1> DEFINE Bad == { k \in 1 .. n + 1 : g[k] # f[k] }
<1>1. \A k \in 1 .. n + 1 :
        g[k] = IF k = 1 THEN 3 + file[1] ELSE g[k - 1] + 2 + 2 * file[g[k - 1] + 1]
  BY DEF Walks
<1>2. \A k \in 1 .. n + 1 :
        f[k] = IF k = 1 THEN 3 + file[1] ELSE f[k - 1] + 2 + 2 * file[f[k - 1] + 1]
  BY DEF Walks
<1>3. Bad = {}
  <2> SUFFICES ASSUME Bad # {} PROVE FALSE
    OBVIOUS
  <2>1. Bad \subseteq Nat
    OBVIOUS
  <2>2. PICK m \in Bad : \A z \in Bad : << z, m >> \notin OpToRel(<, Nat)
    BY <2>1, NatLessThanWellFounded, WFMin
  <2>3. m \in 1 .. n + 1 /\ g[m] # f[m] /\ m # 1
    BY <1>1, <1>2
  <2>4. m - 1 \in 1 .. n + 1 /\ m - 1 \in Nat /\ m \in Nat /\ m - 1 < m
    BY <2>3
  <2>5. m - 1 \notin Bad
    BY <2>2, <2>4 DEF OpToRel
  <2>6. g[m - 1] = f[m - 1]
    BY <2>4, <2>5
  <2> QED
    BY <1>1, <1>2, <2>3, <2>6
<1> QED
  BY <1>3

LEMMA Walked ==
  ASSUME NEW file, NEW n \in Nat, file[2 + file[1]] = n, NEW f, Walks(f, file, n),
         NEW l \in 1 .. n + 1
  PROVE  RecordsAt(file)[l] = f[l]
<1>1. PICK g : g = CHOOSE at : Walks(at, file, n)
  OBVIOUS
<1>2. RecordsAt(file) = g
  BY <1>1 DEF RecordsAt, Walks
<1>3. Walks(g, file, n)
  BY <1>1
<1> QED
  BY <1>2, <1>3, OneWalk

(* The four sections of the file. *)
InFile(file, a, s, n, r) ==
  /\ file[1] = a /\ file[2 + a] = n
  /\ \A x \in 1 .. a : file[1 + x] = s[x]
  /\ \A x \in 1 .. Len(r) : file[2 + a + x] = r[x]

LEMMA FileSections ==
  ASSUME NEW a \in Int, NEW n \in Int, NEW s \in Seq(Int), Len(s) = a, NEW r \in Seq(Int),
         NEW file, file = << a >> \o s \o << n >> \o r
  PROVE  InFile(file, a, s, n, r)
<1>1. PICK h, t : h = << a >> /\ t = << n >>
  OBVIOUS
<1>2. /\ h \in Seq(Int) /\ Len(h) = 1 /\ h[1] = a
      /\ t \in Seq(Int) /\ Len(t) = 1 /\ t[1] = n
  BY <1>1
<1>3. PICK v : v = h \o s
  OBVIOUS
<1>4. PICK w : w = v \o t
  OBVIOUS
<1>5. file = w \o r
  BY <1>1, <1>3, <1>4
<1>6. v \in Seq(Int) /\ Both(v, h, s)
  BY <1>2, <1>3, Joined
<1>7. w \in Seq(Int) /\ Both(w, v, t)
  BY <1>2, <1>4, <1>6, Joined
<1>8. file \in Seq(Int) /\ Both(file, w, r)
  BY <1>5, <1>7, Joined
<1>9. Len(v) = 1 + a /\ v[1] = a /\ (\A x \in 1 .. a : v[1 + x] = s[x]) /\ a \in Nat
  BY <1>2, <1>6 DEF Both
<1>10. /\ Len(w) = 2 + a /\ w[2 + a] = n
       /\ \A x \in 1 .. 1 + a : w[x] = v[x]
  <2>1. Len(w) = Len(v) + 1 /\ \A x \in 1 .. Len(v) : w[x] = v[x]
    BY <1>2, <1>7 DEF Both
  <2>2. w[Len(v) + 1] = n
    BY <1>2, <1>7 DEF Both
  <2>3. Len(v) + 1 = 2 + a
    BY <1>9
  <2> QED
    BY <1>9, <2>1, <2>2, <2>3
<1>11. /\ \A x \in 1 .. 2 + a : file[x] = w[x]
       /\ \A x \in 1 .. Len(r) : file[2 + a + x] = r[x]
  BY <1>8, <1>10 DEF Both
<1>12. file[1] = a /\ file[2 + a] = n
  <2>1. 1 \in 1 .. 2 + a /\ 1 \in 1 .. 1 + a /\ 2 + a \in 1 .. 2 + a
    BY <1>9
  <2> QED
    BY <1>9, <1>10, <1>11, <2>1
<1>13. ASSUME NEW x \in 1 .. a
       PROVE  file[1 + x] = s[x]
  <2>1. 1 + x \in 1 .. 2 + a /\ 1 + x \in 1 .. 1 + a
    BY <1>9
  <2> QED
    BY <1>9, <1>10, <1>11, <2>1
<1> QED
  BY <1>11, <1>12, <1>13 DEF InFile

(* What Serialization writes InitFromFile reads: the accepted types, and   *)
(* nodes with the same types and edges, however many edges each has.       *)
THEOREM FileKept ==
  ASSUME NEW ns, Automaton(ns), NEW types, types \subseteq Int, IsFiniteSet(types)
  PROVE  /\ InitFromFile(Serialization(types, ns)).accept_types = types
         /\ StdMachine(InitFromFile(Serialization(types, ns)).nodes) = StdMachine(ns)
<1>1. PICK C \in SUBSET Codes : ns \in Seq(NodesOver(C, Len(ns)))
  BY DEF Automaton
<1>2. PICK n : n = Len(ns)
  OBVIOUS
<1>3. n \in Nat /\ \A k \in 1 .. n : ns[k] \in NodesOver(C, n)
  BY <1>1, <1>2, ElementOfSeq
<1>4. PICK a, s : a = Cardinality(types) /\ s = Ascending(types)
  OBVIOUS
<1>5. /\ a \in Nat /\ Len(s) = a /\ s \in Seq(types) /\ s \in Seq(Int)
      /\ (\A x \in 1 .. a : s[x] \in types)
      /\ \A t \in types : \E x \in 1 .. a : s[x] = t
  <2>1. a \in Nat /\ Len(s) = a /\ s \in Seq(types)
    BY <1>4, InOrderOfRank
  <2>2. \A x \in 1 .. a : s[x] \in types
    BY <2>1, ElementOfSeq
  <2>3. s \in Seq(Int)
    <3>1. s \in [1 .. a -> types]
      BY <2>1
    <3>2. s \in [1 .. a -> Int]
      BY <3>1
    <3> QED
      BY <2>1, <3>2
  <2>4. ASSUME NEW t \in types
        PROVE  \E x \in 1 .. a : s[x] = t
    BY <1>4, InOrderOfRank
  <2> QED
    BY <2>1, <2>2, <2>3, <2>4
<1>6. PICK recs : recs = [k \in 1 .. n |-> Written(ns[k])]
  OBVIOUS
<1>7. \A k \in 1 .. n : recs[k] = Written(ns[k]) /\ WrittenAs(recs[k], ns[k])
  BY <1>3, <1>6, NodeWritten
<1>8. recs \in Seq(Seq(Int)) /\ Len(recs) = n
  <2>1. \A k \in 1 .. n : recs[k] \in Seq(Int)
    BY <1>7 DEF WrittenAs
  <2> QED
    BY <1>3, <1>6, <2>1
<1>9. PICK r : r = FlattenSeq(recs)
  OBVIOUS
<1>10. PICK off : Placed(r, Int, recs, off, n)
  BY <1>8, <1>9, Flattened
<1>11. r \in Seq(Int) /\ off \in [1 .. n + 1 -> Nat] /\ off[1] = 0
  BY <1>10 DEF Placed
<1>12. PICK file : file = Serialization(types, ns)
  OBVIOUS
<1>13. file = << a >> \o s \o << n >> \o r
  BY <1>2, <1>4, <1>6, <1>9, <1>12 DEF Serialization
<1>14. InFile(file, a, s, n, r)
  <2>1. a \in Int /\ n \in Int /\ s \in Seq(Int) /\ Len(s) = a /\ r \in Seq(Int)
    BY <1>3, <1>5, <1>11
  <2> QED
    BY <1>13, <2>1, FileSections
<1>15. PICK at : at = [k \in 1 .. n + 1 |-> 3 + a + off[k]]
  OBVIOUS
<1>16. \A k \in 1 .. n + 1 : at[k] = 3 + a + off[k] /\ at[k] \in Nat /\ off[k] \in Nat
  BY <1>5, <1>11, <1>15
<1>17. ASSUME NEW k \in 1 .. n
       PROVE  Holds(file, at[k], recs[k])
  <2> SUFFICES ASSUME NEW x \in 1 .. Len(recs[k])
               PROVE  file[at[k] - 1 + x] = recs[k][x]
    BY DEF Holds
  <2>1. off[k] + x \in 1 .. Len(r) /\ r[off[k] + x] = recs[k][x]
    BY <1>10 DEF Placed
  <2>2. k \in 1 .. n + 1
    BY <1>3
  <2>3. at[k] = 3 + a + off[k] /\ at[k] \in Nat /\ off[k] \in Nat
    BY <1>16, <2>2
  <2>4. a \in Nat /\ x \in Int
    BY <1>5
  <2>5. PICK p, q : p = at[k] /\ q = off[k]
    OBVIOUS
  <2>6. p = 3 + a + q /\ p \in Int /\ q \in Int
    BY <2>3, <2>5
  <2>7. p - 1 + x = 2 + a + (q + x)
    BY <2>4, <2>6
  <2> QED
    BY <1>14, <2>1, <2>5, <2>7 DEF InFile
<1>18. ASSUME NEW k \in 1 .. n
       PROVE  ReadNode(file, at[k]) = Bare(ns[k]) /\ file[at[k] + 1] = Degree(ns[k])
  <2>1. k \in 1 .. n + 1 /\ at[k] \in Nat
    BY <1>3, <1>16
  <2> QED
    BY <1>3, <1>7, <1>17, <2>1, NodeRead
<1>19. ASSUME NEW k \in 1 .. n
       PROVE  at[k + 1] = at[k] + 2 + 2 * file[at[k] + 1]
  <2>1. off[k + 1] = off[k] + Len(recs[k])
    BY <1>10 DEF Placed
  <2>2. Len(recs[k]) = 2 + 2 * Degree(ns[k]) /\ Degree(ns[k]) \in Nat
    BY <1>7 DEF WrittenAs
  <2>3. k \in 1 .. n + 1 /\ k + 1 \in 1 .. n + 1
    BY <1>3
  <2>4. at[k] = 3 + a + off[k] /\ at[k] \in Nat /\ off[k] \in Nat
    BY <1>16, <2>3
  <2>5. at[k + 1] = 3 + a + off[k + 1] /\ off[k + 1] \in Nat
    BY <1>16, <2>3
  <2>6. file[at[k] + 1] = Degree(ns[k])
    BY <1>18
  <2>7. at[k + 1] = at[k] + 2 + 2 * Degree(ns[k])
    BY <1>5, <2>1, <2>2, <2>4, <2>5
  <2> QED
    BY <2>6, <2>7
<1>20. Walks(at, file, n)
  <2>1. ASSUME NEW k \in 1 .. n + 1
        PROVE  at[k] = IF k = 1 THEN 3 + file[1] ELSE at[k - 1] + 2 + 2 * file[at[k - 1] + 1]
    <3>1. CASE k = 1
      BY <1>5, <1>11, <1>14, <1>16, <3>1 DEF InFile
    <3>2. CASE k # 1
      <4>1. PICK l \in 1 .. n : k = l + 1 /\ k - 1 = l
        BY <1>3, <3>2
      <4> QED
        BY <1>19, <3>2, <4>1
    <3> QED
      BY <3>1, <3>2
  <2>2. at = [k \in 1 .. n + 1 |-> at[k]]
    BY <1>15
  <2> QED
    BY <2>1, <2>2 DEF Walks
<1>21. \A k \in 1 .. n : RecordsAt(file)[k] = at[k]
  <2> SUFFICES ASSUME NEW k \in 1 .. n
               PROVE  RecordsAt(file)[k] = at[k]
    OBVIOUS
  <2>1. k \in 1 .. n + 1 /\ file[2 + file[1]] = n
    BY <1>3, <1>14 DEF InFile
  <2> QED
    BY <1>3, <1>20, <2>1, Walked
<1>22. PICK read : read = InitFromFile(file)
  OBVIOUS
<1>23. read.accept_types = types
  <2>1. read.accept_types = { file[1 + x] : x \in 1 .. a }
    BY <1>14, <1>22 DEF InitFromFile, InFile
  <2>2. \A x \in 1 .. a : file[1 + x] = s[x]
    BY <1>14 DEF InFile
  <2>3. read.accept_types \subseteq types
    <3>1. \A x \in 1 .. a : file[1 + x] \in types
      BY <1>5, <2>2
    <3> QED
      BY <2>1, <3>1
  <2>4. ASSUME NEW t \in types
        PROVE  t \in read.accept_types
    <3>1. PICK x \in 1 .. a : s[x] = t
      BY <1>5
    <3> QED
      BY <2>1, <2>2, <3>1
  <2> QED
    BY <2>3, <2>4
<1>24. read.nodes = [k \in 1 .. n |-> Bare(ns[k])]
  <2>1. read.nodes = [k \in 1 .. n |-> ReadNode(file, RecordsAt(file)[k])]
    BY <1>14, <1>22 DEF InitFromFile, InFile
  <2> QED
    BY <1>18, <1>21, <2>1
<1>25. StdMachine(read.nodes) = StdMachine(ns)
  <2>1. Len(read.nodes) = n
    BY <1>3, <1>24
  <2>2. ASSUME NEW k \in 0 .. n - 1
        PROVE  /\ read.nodes[k + 1].type = ns[k + 1].type
               /\ \A c \in Codes : EdgeOf(read.nodes[k + 1], c) = EdgeOf(ns[k + 1], c)
    <3>1. k + 1 \in 1 .. n
      BY <1>3
    <3>2. read.nodes[k + 1] = Bare(ns[k + 1])
      BY <1>24, <3>1
    <3> QED
      BY <3>2, BareEdges
  <2> DEFINE type(b) == [k \in 0 .. n - 1 |-> b[k + 1].type]
             next(b) == [k \in 0 .. n - 1 |-> [c \in Codes |-> EdgeOf(b[k + 1], c)]]
  <2>3. type(read.nodes) = type(ns) /\ next(read.nodes) = next(ns)
    BY <2>2
  <2>4. StdMachine(read.nodes) = [count |-> n, type |-> type(read.nodes), next |-> next(read.nodes)]
    BY <2>1 DEF StdMachine
  <2>5. StdMachine(ns) = [count |-> n, type |-> type(ns), next |-> next(ns)]
    BY <1>2 DEF StdMachine
  <2> QED
    BY <2>3, <2>4, <2>5
<1> QED
  BY <1>12, <1>22, <1>23, <1>25
-----------------------------------------------------------------------------
(* The whole: built, adopted as it is or from one of the files, searched.  *)
(* An automaton of nodes is one the matching functions can search.         *)
LEMMA Searchable ==
  ASSUME NEW ns, Automaton(ns)
  PROVE  IsMachine(StdMachine(ns))
<1>1. PICK C \in SUBSET Codes : ns \in Seq(NodesOver(C, Len(ns)))
  BY DEF Automaton
<1>2. PICK n : n = Len(ns)
  OBVIOUS
<1>3. n \in Nat /\ \A k \in 1 .. n : ns[k] \in NodesOver(C, n)
  BY <1>1, <1>2, ElementOfSeq
<1>4. Codes = 0 .. Wide - 1
  BY PatternsAssumption DEF Codes
<1>5. ASSUME NEW k \in 0 .. n - 1
      PROVE  /\ ns[k + 1].type \in Int
             /\ [c \in Codes |-> EdgeOf(ns[k + 1], c)] \in [0 .. Wide - 1 -> -1 .. n - 1]
  <2>1. ns[k + 1] \in NodesOver(C, n)
    <3>1. k + 1 \in 1 .. n
      BY <1>3
    <3> QED
      BY <1>3, <3>1
  <2>2. ns[k + 1].type \in Int /\ \A c : EdgeOf(ns[k + 1], c) \in -1 .. n - 1
    BY <1>3, <2>1, EdgesAre DEF Targets, NoState
  <2> QED
    BY <1>4, <2>2
<1> DEFINE type == [k \in 0 .. n - 1 |-> ns[k + 1].type]
           next == [k \in 0 .. n - 1 |-> [c \in Codes |-> EdgeOf(ns[k + 1], c)]]
<1>6. /\ type \in [0 .. n - 1 -> Int]
      /\ next \in [0 .. n - 1 -> [0 .. Wide - 1 -> -1 .. n - 1]]
  BY <1>5
<1>7. StdMachine(ns) = [count |-> n, type |-> type, next |-> next]
  BY <1>2 DEF StdMachine
<1> HIDE DEF type, next
<1> QED
  BY <1>3, <1>6, <1>7 DEF IsMachine

(* What the construction ends with can be written to either file. *)
LEMMA Built ==
  ASSUME BuildInv, SymbolsOf(nfa) \subseteq Codes, pc = "built"
  PROVE  Automaton(nodes) /\ accept_types \subseteq Int /\ IsFiniteSet(accept_types)
<1>1. /\ nodes \in Seq(Node) /\ Len(nodes) = Len(id_map) /\ Len(nodes) \in Nat
      /\ accept_types \subseteq Int
  BY DEF BuildInv, BuildTyped
<1>2. PICK n : n = Len(nodes)
  OBVIOUS
<1>3. n \in Nat /\ \A k \in 1 .. n : nodes[k] \in Node
  BY <1>1, <1>2, ElementOfSeq
<1>4. \A k \in Ids : k \in dfa_mark \ Expanding
  <2>1. dfa_queue = <<>> /\ Expanding = {}
    BY DEF BuildInv, Loops, Expanding
  <2> QED
    BY <2>1 DEF BuildInv, Loops
<1>5. ASSUME NEW k \in 1 .. n
      PROVE  nodes[k] \in NodesOver(SymbolsOf(nfa), n)
  <2>1. nodes[k] \in [type : Int, next : [SymbolsOf(nfa) -> {NoNode} \cup Nat]]
    BY <1>3 DEF Node, NodeOf
  <2>2. k - 1 \in Ids /\ k - 1 + 1 = k
    BY <1>2, <1>3 DEF Ids
  <2>3. ASSUME NEW c \in SymbolsOf(nfa)
        PROVE  nodes[k].next[c] \in Targets(n)
    <3>1. Exact(nfa, nodes, id_map, k - 1, c)
      BY <1>4, <2>2 DEF BuildInv, EdgesOK
    <3>2. nodes[k].next[c] = NoNode \/ nodes[k].next[c] + 1 \in 1 .. n
      BY <1>1, <1>2, <2>2, <3>1 DEF Exact
    <3>3. nodes[k].next[c] \in {NoNode} \cup Nat
      BY <2>1
    <3> QED
      BY <1>3, <3>2, <3>3 DEF Targets, NoState, NoNode
  <2> QED
    BY <2>1, <2>3 DEF NodesOver
<1>6. Automaton(nodes)
  <2>1. nodes \in Seq(NodesOver(SymbolsOf(nfa), n))
    <3>1. nodes = [k \in 1 .. n |-> nodes[k]]
      BY <1>1, <1>2
    <3> QED
      BY <1>3, <1>5, <3>1
  <2> QED
    BY <1>2, <2>1 DEF Automaton
<1>7. IsFiniteSet(accept_types)
  <2> DEFINE all == { nodes[k].type : k \in 1 .. n }
             types == [k \in 1 .. n |-> nodes[k].type]
  <2>1. types \in Seq(all) /\ Len(types) = n
    BY <1>3
  <2>2. \A t \in all : \E k \in 1 .. n : types[k] = t
    OBVIOUS
  <2>3. IsFiniteSet(all)
    <3> HIDE DEF all, types
    <3> QED
      BY <2>1, <2>2 DEF IsFiniteSet
  <2>4. accept_types \subseteq all
    BY <1>2 DEF BuildInv, Subsets, TypesOf
  <2> QED
    BY <2>3, <2>4, FS_Subset
<1> QED
  BY <1>1, <1>6, <1>7

(* The construction is exact, and stays so when its nodes are searched;    *)
(* what is searched is an automaton.                                       *)
WholeInv ==
  /\ IsNfa(nfa) /\ SymbolsOf(nfa) \subseteq Codes
  /\ pc # "ready" => BuildInv
  /\ SubsetExact
  /\ ScanInv

LEMMA WholeInit == Init => WholeInv
<1> SUFFICES ASSUME Init PROVE WholeInv
  OBVIOUS
<1>1. BuildInit /\ ScanInit /\ machine = Empty /\ mmap_pattern_ = FALSE
  BY DEF Init
<1>2. BuildInv /\ SubsetExact
  BY <1>1, BuildInitInv, BuildInvExact
<1>3. IsNfa(nfa) /\ SymbolsOf(nfa) \subseteq Codes
  BY <1>1, PatternsAssumption DEF BuildInit
<1>4. IsMachine(Empty)
  BY DEF IsMachine, Empty
<1>5. ScanInv
  BY <1>1, <1>4, ScanBegins
<1> QED
  BY <1>2, <1>3, <1>5 DEF WholeInv

LEMMA WholeBuild == ASSUME WholeInv, Build PROVE WholeInv'
<1>1. BuildInv
  BY DEF WholeInv, Build, InitFromNfa, StartNode, EpsilonClosure, FirstNode, AddEdge,
         CreateDfaNode, TakeNode, TryMove, NodeDone, BuildEnd
<1>2. BuildInv'
  BY <1>1, BuildStepInv DEF Build
<1>3. SubsetExact'
  BY <1>2, BuildInvExact, PTL
<1>4. nfa' = nfa
  BY DEF Build, InitFromNfa, StartNode, EpsilonClosure, FirstNode, AddEdge,
         TakeNode, TryMove, NodeDone, BuildEnd
<1>5. ScanInv'
  BY ScanStepInv DEF WholeInv, Build
<1> QED
  BY <1>2, <1>3, <1>4, <1>5 DEF WholeInv

(* Nothing in it changes but where InitFromNfa is. *)
LEMMA SubsetStays ==
  ASSUME SubsetExact, UNCHANGED <<nfa, nodes, id_map, accept_types, dfa_mark>>,
         Expanding' = Expanding, pc' = "built" => pc = "built"
  PROVE  SubsetExact'
<1>1. /\ Len(nodes') = Len(id_map')
      /\ \A k, l \in 1 .. Len(id_map') : id_map'[k] = id_map'[l] => k = l
      /\ \A k \in 1 .. Len(nodes') : nodes'[k].type = TypeOf(nfa', id_map'[k])
      /\ accept_types' = { nodes'[k].type : k \in 1 .. Len(nodes') } \ {-1}
      /\ nodes' # <<>> => IsClosure(nfa', id_map'[1], {nfa'.start})
  BY DEF SubsetExact
<1>2. pc' = "built" => nodes' # <<>> /\ dfa_mark' = 0 .. Len(nodes') - 1
  BY DEF SubsetExact
<1>3. \A k \in (dfa_mark \ Expanding)' : \A c \in SymbolsOf(nfa)' : EdgeExact(k, c)'
  <2>1. SymbolsOf(nfa)' = SymbolsOf(nfa) /\ (dfa_mark \ Expanding)' = dfa_mark \ Expanding
    OBVIOUS
  <2>2. ASSUME NEW k \in dfa_mark \ Expanding, NEW c \in SymbolsOf(nfa)
        PROVE  EdgeExact(k, c)'
    <3>1. EdgeExact(k, c)
      BY DEF SubsetExact
    <3> QED
      BY <3>1 DEF EdgeExact
  <2> QED
    BY <2>1, <2>2
<1> QED
  BY <1>1, <1>2, <1>3 DEF SubsetExact

LEMMA WholeAdopt ==
  ASSUME WholeInv, pc = "built", NEW mapped \in BOOLEAN, Adopt(StdMachine(nodes), mapped)
  PROVE  WholeInv'
<1>1. IsMachine(machine')
  BY Built, Searchable DEF WholeInv, Adopt
<1>2. /\ pc' = "ready" /\ phase = "idle" /\ mmap_pattern_' \in BOOLEAN
      /\ UNCHANGED <<nfa, nfa_set, queue, nodes, id_map, accept_types, dfa_queue,
                     dfa_mark, sym, op, text, cap, phase, i, j, state,
                     pre_match_pos, pre_match_type, result, start_positions>>
  BY DEF Adopt
<1>3. SubsetExact'
  <2>1. Expanding' = Expanding
    BY <1>2 DEF Expanding
  <2> QED
    BY <1>2, <2>1, SubsetStays DEF WholeInv
<1>4. Where'
  BY <1>1, <1>2 DEF WholeInv, ScanInv, Where, ScanTyped, CallOK, ScanOK, LastOK, Going, Prefix
<1>5. Reports'
  <2>1. phase' = "idle"
    BY <1>2
  <2> QED
    BY <1>2, <2>1 DEF WholeInv, ScanInv, Reports, RoomOK, NextOK, Buffered, Leaves, Hold, Short
<1> QED
  BY <1>2, <1>3, <1>4, <1>5 DEF WholeInv, ScanInv

LEMMA WholeSearch ==
  ASSUME WholeInv, UNCHANGED buildVars, [MatchNext]_scanVars
  PROVE  WholeInv'
<1>1. ScanInv'
  BY ScanStepInv DEF WholeInv
<1>2. pc # "ready" => BuildInv'
  BY BuildStepInv DEF WholeInv
<1>3. pc' = pc /\ nfa' = nfa
  BY DEF buildVars
<1>4. SubsetExact'
  <2>1. Expanding' = Expanding
    BY DEF Expanding, buildVars, Taken
  <2> QED
    BY <1>3, <2>1, SubsetStays DEF WholeInv, buildVars
<1> QED
  BY <1>1, <1>2, <1>3, <1>4 DEF WholeInv

LEMMA WholeStep == WholeInv /\ [Next]_vars => WholeInv'
<1> SUFFICES ASSUME WholeInv, [Next]_vars PROVE WholeInv'
  OBVIOUS
<1>1. CASE Build
  BY <1>1, WholeBuild
<1>2. CASE UseNodes
  BY <1>2, WholeAdopt DEF UseNodes
<1>3. CASE UseFile
  <2>1. Automaton(nodes) /\ accept_types \subseteq Int /\ IsFiniteSet(accept_types)
    BY <1>3, Built DEF UseFile, WholeInv
  <2>2. Adopt(StdMachine(nodes), FALSE)
    BY <1>3, <2>1, FileKept DEF UseFile
  <2> QED
    BY <1>3, <2>2, WholeAdopt DEF UseFile
<1>4. CASE UseMap
  <2>1. Automaton(nodes)
    BY <1>4, Built DEF UseMap, WholeInv
  <2>2. Adopt(StdMachine(nodes), TRUE)
    BY <1>4, <2>1, MapKept DEF UseMap
  <2> QED
    BY <1>4, <2>2, WholeAdopt DEF UseMap
<1>5. CASE Search
  BY <1>5, WholeSearch DEF Search, MatchNext
<1>6. CASE UNCHANGED vars
  BY <1>6, WholeSearch DEF vars
<1> QED
  BY <1>1, <1>2, <1>3, <1>4, <1>5, <1>6 DEF Next

THEOREM WholeInvariant == Spec => []WholeInv
BY WholeInit, WholeStep, PTL DEF Spec

(* The variables of the whole keep their types: an automaton read from     *)
(* either file is one the matching functions can search.                   *)
THEOREM PatternTypes == Spec => []TypeOK
<1>1. WholeInv => TypeOK
  BY BuildInvTypes, ScanInvTypes DEF WholeInv, TypeOK
<1> QED
  BY <1>1, WholeInvariant, PTL

(* The nodes are the subset automaton of the Nfa all the time they are     *)
(* searched.                                                               *)
THEOREM PatternSubsets == Spec => []SubsetExact
<1>1. WholeInv => SubsetExact
  BY DEF WholeInv
<1> QED
  BY <1>1, WholeInvariant, PTL

(* With a machine from nodes, a file or the tables, each function reports  *)
(* matches that lie in the text and come in order. They fit into the       *)
(* buffer, but for the one of the UINT16 prefix function without room.     *)
THEOREM PatternReports == Spec => []ReportsFit
<1>1. WholeInv => ReportsFit
  BY ScanInvFits DEF WholeInv
<1> QED
  BY <1>1, WholeInvariant, PTL

-----------------------------------------------------------------------------
(* A search answers with what the paths of the Nfa spell.                  *)
(* First the reference: closures exist, and the nodes met on the way       *)
(* through a text are those its characters lead to (Steps); the types met  *)
(* give the matches of a position (Line, Sure, Latest), and the text is    *)
(* cut into those, position by position (MunchIs).                         *)
(* Every set of nodes has a closure, and one only. *)
LEMMA ClosureIs ==
  ASSUME NEW a, IsNfa(a), NEW set \in SUBSET a.ids
  PROVE  /\ Closure(a, set) \in SUBSET a.ids /\ IsClosure(a, Closure(a, set), set)
         /\ \A c \in SUBSET a.ids : IsClosure(a, c, set) => c = Closure(a, set)
<1> DEFINE least == { n \in a.ids : \A c \in SUBSET a.ids :
                        set \subseteq c /\ Closed(a, c) => n \in c }
<1>1. a.succ \in [a.ids -> SUBSET a.ids]
  BY DEF IsNfa
<1>2. set \subseteq least /\ least \in SUBSET a.ids
  OBVIOUS
<1>3. Closed(a, least)
  BY <1>1 DEF Closed
<1>4. IsClosure(a, least, set)
  BY <1>2, <1>3 DEF IsClosure
<1> HIDE DEF least
<1>5. Closure(a, set) \in SUBSET a.ids /\ IsClosure(a, Closure(a, set), set)
  BY <1>2, <1>4 DEF Closure
<1>6. ASSUME NEW c \in SUBSET a.ids, NEW d \in SUBSET a.ids,
             IsClosure(a, c, set), IsClosure(a, d, set)
      PROVE  c = d
  BY <1>6 DEF IsClosure
<1> QED
  BY <1>5, <1>6

LEMMA ClosureOfNone == ASSUME NEW a, IsNfa(a) PROVE Closure(a, {}) = {}
<1>1. IsClosure(a, {}, {}) /\ {} \in SUBSET a.ids
  BY DEF IsClosure, Closed
<1> QED
  BY <1>1, ClosureIs

(* A symbol of the Nfa is read as Move reads it, another character not at  *)
(* all.                                                                    *)
LEMMA ReadingIs ==
  ASSUME NEW a, IsNfa(a), NEW set, NEW c
  PROVE  /\ Reading(a, set, c) \in SUBSET a.ids
         /\ c \in SymbolsOf(a) => Reading(a, set, c) = Move(a, set, c)
         /\ c \notin SymbolsOf(a) => Reading(a, set, c) = {}
         /\ Reading(a, {}, c) = {}
<1>1. Epsilon \notin SymbolsOf(a)
  BY DEF IsNfa, SymbolsOf
<1>2. \A n \in a.ids : a.symbol[n] \in {Epsilon} \cup SymbolsOf(a)
  BY DEF IsNfa
<1> QED
  BY <1>1, <1>2 DEF Reading, Move

-----------------------------------------------------------------------------
(* The sets met: one for each position, each made from the one before.     *)
Steps(f, a, t, b, n) ==
  /\ f \in [b .. n -> SUBSET a.ids]
  /\ f[b] = Closure(a, {a.start})
  /\ \A e \in b + 1 .. n : f[e] = Closure(a, Reading(a, f[e - 1], t[e] % Wide))

LEMMA StepsOn ==
  ASSUME NEW a, IsNfa(a), NEW t, NEW b \in Nat, NEW n \in Nat, b <= n,
         NEW f, Steps(f, a, t, b, n)
  PROVE  \E g : Steps(g, a, t, b, n + 1)
<1> PICK x : x = Closure(a, Reading(a, f[n], t[n + 1] % Wide))
  OBVIOUS
<1> PICK g : g = [e \in b .. n + 1 |-> IF e <= n THEN f[e] ELSE x]
  OBVIOUS
<1>1. x \in SUBSET a.ids
  BY ClosureIs, ReadingIs
<1>2. /\ \A e \in b .. n : e \in b .. n + 1 /\ e <= n
      /\ \A e \in b .. n + 1 : e <= n => e \in b .. n
      /\ n + 1 \in b .. n + 1 /\ ~(n + 1 <= n) /\ b \in b .. n
  OBVIOUS
<1>3. (\A e \in b .. n : g[e] = f[e]) /\ g[n + 1] = x
  BY <1>2
<1>4. g \in [b .. n + 1 -> SUBSET a.ids]
  BY <1>1, <1>2 DEF Steps
<1>5. ASSUME NEW e \in b + 1 .. n + 1
      PROVE  g[e] = Closure(a, Reading(a, g[e - 1], t[e] % Wide))
  <2>1. CASE e <= n
    <3>1. e \in b .. n /\ e - 1 \in b .. n /\ e \in b + 1 .. n
      BY <2>1
    <3> QED
      BY <1>3, <3>1 DEF Steps
  <2>2. CASE e = n + 1
    <3>1. n \in b .. n /\ e - 1 = n
      BY <2>2
    <3>2. g[e - 1] = f[n]
      BY <1>3, <3>1
    <3> QED
      BY <1>3, <2>2, <3>2
  <2> QED
    BY <2>1, <2>2
<1>6. g[b] = Closure(a, {a.start})
  BY <1>2, <1>3 DEF Steps
<1>7. Steps(g, a, t, b, n + 1)
  BY <1>4, <1>5, <1>6 DEF Steps
<1> QED
  BY <1>7

LEMMA StepsExist ==
  ASSUME NEW a, IsNfa(a), NEW t, NEW b \in Nat, NEW n \in Nat, b <= n
  PROVE  \E f : Steps(f, a, t, b, n)
<1> DEFINE Ok(m) == \E f : Steps(f, a, t, b, m)
           Bad == { m \in Nat : b <= m /\ ~Ok(m) }
<1>1. Ok(b)
  <2> DEFINE f == [e \in b .. b |-> Closure(a, {a.start})]
  <2>1. a.start \in a.ids /\ Closure(a, {a.start}) \in SUBSET a.ids
    BY ClosureIs DEF IsNfa
  <2>2. b \in b .. b /\ \A e \in b + 1 .. b : FALSE
    OBVIOUS
  <2>3. Steps(f, a, t, b, b)
    BY <2>1, <2>2 DEF Steps
  <2> QED
    BY <2>3
<1>2. ASSUME NEW m \in Nat, b <= m, Ok(m)
      PROVE  Ok(m + 1)
  BY <1>2, StepsOn
<1> HIDE DEF Ok
<1>3. Bad = {}
  <2> SUFFICES ASSUME Bad # {} PROVE FALSE
    OBVIOUS
  <2>1. PICK m \in Bad : \A z \in Bad : << z, m >> \notin OpToRel(<, Nat)
    BY NatLessThanWellFounded, WFMin
  <2>2. m \in Nat /\ m # b /\ b <= m
    BY <1>1, <2>1
  <2>3. m - 1 \in Nat /\ b <= m - 1 /\ m - 1 < m /\ m - 1 + 1 = m
    BY <2>2
  <2>4. m - 1 \notin Bad
    BY <2>1, <2>2, <2>3 DEF OpToRel
  <2> QED
    BY <1>2, <2>1, <2>3, <2>4
<1> QED
  BY <1>3 DEF Ok

LEMMA MetIs ==
  ASSUME NEW a, IsNfa(a), NEW t, Len(t) \in Nat, NEW b \in 0 .. Len(t)
  PROVE  Steps(Met(a, t, b), a, t, b, Len(t))
<1> DEFINE Rule(f) == f = [e \in b .. Len(t) |->
             Closure(a, IF e = b THEN {a.start} ELSE Reading(a, f[e - 1], t[e] % Wide))]
<1>1. b \in Nat /\ b <= Len(t)
  OBVIOUS
<1>2. PICK f : Steps(f, a, t, b, Len(t))
  BY <1>1, StepsExist
<1>4. Rule(f)
  <2>1. f = [e \in b .. Len(t) |-> f[e]]
    BY <1>2 DEF Steps
  <2>2. ASSUME NEW e \in b .. Len(t)
        PROVE  f[e] = Closure(a, IF e = b THEN {a.start} ELSE Reading(a, f[e - 1], t[e] % Wide))
    <3>1. CASE e = b
      BY <1>2, <3>1 DEF Steps
    <3>2. CASE e # b
      <4>1. e \in b + 1 .. Len(t)
        BY <3>2
      <4> QED
        BY <1>2, <3>2, <4>1 DEF Steps
    <3> QED
      BY <3>1, <3>2
  <2> QED
    BY <2>1, <2>2
<1>5. Rule(Met(a, t, b))
  <2>1. Met(a, t, b) = CHOOSE g : Rule(g)
    BY DEF Met
  <2> HIDE DEF Rule
  <2> QED
    BY <1>4, <2>1
<1>6. ASSUME NEW g, Rule(g)
      PROVE  Steps(g, a, t, b, Len(t))
  <2>1. \A e \in b .. Len(t) :
          g[e] = Closure(a, IF e = b THEN {a.start} ELSE Reading(a, g[e - 1], t[e] % Wide))
    BY <1>6
  <2>2. a.start \in a.ids
    BY DEF IsNfa
  <2>3. \A e \in b .. Len(t) : g[e] \in SUBSET a.ids
    BY <2>1, <2>2, ClosureIs, ReadingIs
  <2>4. g = [e \in b .. Len(t) |-> g[e]]
    BY <1>6
  <2>5. b \in b .. Len(t) /\ \A e \in b + 1 .. Len(t) : e \in b .. Len(t) /\ e # b
    BY <1>1
  <2> HIDE DEF Rule
  <2>6. g \in [b .. Len(t) -> SUBSET a.ids]
    BY <2>3, <2>4
  <2>7. g[b] = Closure(a, {a.start})
    BY <2>1, <2>5
  <2>8. \A e \in b + 1 .. Len(t) : g[e] = Closure(a, Reading(a, g[e - 1], t[e] % Wide))
    BY <2>1, <2>5
  <2> QED
    BY <2>6, <2>7, <2>8 DEF Steps
<1> QED
  BY <1>5, <1>6

(* The types the text is accepted with from a position on: none behind a   *)
(* position where no node is met.                                          *)
Typing(a, met, ty, b, n) ==
  /\ ty \in [b .. n -> Int]
  /\ \A e \in b .. n : ty[e] = TypeOf(a, met[e]) /\ (ty[e] = -1 \/ ty[e] > 0)
  /\ \A e, f \in b .. n : met[e] = {} /\ e <= f => ty[f] = -1

LEMMA AcceptsIs ==
  ASSUME NEW a, IsNfa(a), NEW t, Len(t) \in Nat, NEW b \in 0 .. Len(t)
  PROVE  /\ Typing(a, Met(a, t, b), Accepts(a, t, b), b, Len(t))
         /\ Accepts(a, t, b)[b] = TypeOf(a, Closure(a, {a.start}))
<1> PICK met : met = Met(a, t, b)
  OBVIOUS
<1>1. Steps(met, a, t, b, Len(t))
  BY MetIs
<1>2. /\ met \in [b .. Len(t) -> SUBSET a.ids] /\ met[b] = Closure(a, {a.start})
      /\ \A e \in b + 1 .. Len(t) :
           met[e] = Closure(a, Reading(a, met[e - 1], t[e] % Wide))
  BY <1>1 DEF Steps
<1>3. \A e \in b .. Len(t) : met[e] \in SUBSET a.ids
  BY <1>2
<1>4. \A e \in b .. Len(t) : /\ TypeOf(a, met[e]) \in Int
                             /\ TypeOf(a, met[e]) = -1 \/ TypeOf(a, met[e]) > 0
  BY <1>3, TypeOfSet
<1>5. Accepts(a, t, b) = [e \in b .. Len(t) |-> TypeOf(a, met[e])]
  BY DEF Accepts
<1>6. b \in b .. Len(t)
  OBVIOUS
<1>7. ASSUME NEW e \in b .. Len(t), NEW f \in b .. Len(t), met[e] = {}, e <= f
      PROVE  met[f] = {}
  <2> DEFINE Bad == { m \in e .. Len(t) : met[m] # {} }
  <2> SUFFICES ASSUME Bad # {} PROVE FALSE
    BY <1>7
  <2>1. PICK m \in Bad : \A z \in Bad : << z, m >> \notin OpToRel(<, Nat)
    <3>1. Bad \subseteq Nat
      OBVIOUS
    <3> QED
      BY <3>1, NatLessThanWellFounded, WFMin
  <2>2. m \in e .. Len(t) /\ met[m] # {} /\ m # e
    BY <1>7
  <2>3. m - 1 \in e .. Len(t) /\ m - 1 \in Nat /\ m \in Nat /\ m - 1 < m /\ m \in b + 1 .. Len(t)
    BY <2>2
  <2>4. met[m - 1] = {}
    BY <2>1, <2>3 DEF OpToRel
  <2>5. met[m] = Closure(a, {})
    BY <1>2, <2>3, <2>4, ReadingIs
  <2> QED
    BY <2>2, <2>5, ClosureOfNone
<1>8. TypeOf(a, {}) = -1
  BY DEF TypeOf
<1> DEFINE ty == [e \in b .. Len(t) |-> TypeOf(a, met[e])]
<1>9. ty \in [b .. Len(t) -> Int] /\ \A e \in b .. Len(t) : ty[e] = TypeOf(a, met[e])
  BY <1>4
<1> HIDE DEF ty
<1>10. Typing(a, met, ty, b, Len(t))
  BY <1>4, <1>7, <1>8, <1>9 DEF Typing
<1> QED
  BY <1>2, <1>5, <1>6, <1>9, <1>10 DEF ty

-----------------------------------------------------------------------------
(* The positions up to n at which a text is accepted from b on; those whose *)
(* match is cut off by the next one; the last one.                         *)
Hits(ty, b, n) == { e \in b .. n - 1 : ty[e] > 0 }

Sure(ty, b, n) ==
  { e \in Hits(ty, b, n) :
      \E f \in Hits(ty, b, n) : /\ e < f /\ ty[f] # ty[e]
                                /\ \A g \in Hits(ty, b, n) : e < g => f <= g }

Latest(ty, b, n, pos, type) ==
  IF Hits(ty, b, n) = {} THEN ~(type > 0)
  ELSE /\ pos \in Hits(ty, b, n) /\ type = ty[pos]
       /\ \A e \in Hits(ty, b, n) : e <= pos

LEMMA SureNext ==
  ASSUME NEW b \in Nat, NEW n \in Nat, b <= n, NEW ty, \A e \in b .. n : ty[e] \in Int,
         NEW pos, NEW type, Latest(ty, b, n, pos, type)
  PROVE  /\ Latest(ty, b, n + 1, IF ty[n] > 0 THEN n ELSE pos,
                                 IF ty[n] > 0 THEN ty[n] ELSE type)
         /\ Sure(ty, b, n + 1) = IF ty[n] > 0 /\ type > 0 /\ type # ty[n]
                                 THEN Sure(ty, b, n) \cup {pos} ELSE Sure(ty, b, n)
         /\ type > 0 => pos \in b .. n - 1 /\ \A e \in Sure(ty, b, n) : e < pos
         /\ Sure(ty, b, n) \subseteq b .. n - 1
<1> PICK H : H = Hits(ty, b, n)
  OBVIOUS
<1> PICK G : G = Hits(ty, b, n + 1)
  OBVIOUS
<1>1. \A e : e \in G <=> e \in H \/ (e = n /\ ty[n] > 0)
  BY DEF Hits
<1>2. H \subseteq b .. n - 1 /\ \A e \in H : e \in Nat /\ e < n /\ ty[e] > 0 /\ ty[e] \in Int
  BY DEF Hits
<1>3. ty[n] \in Int
  OBVIOUS
<1>4. /\ H = {} => ~(type > 0)
      /\ H # {} => pos \in H /\ type = ty[pos] /\ type > 0 /\ \A e \in H : e <= pos
  <2>1. CASE H = {}
    BY <2>1 DEF Latest
  <2>2. CASE H # {}
    <3>1. pos \in H /\ type = ty[pos] /\ \A e \in H : e <= pos
      BY <2>2 DEF Latest
    <3> QED
      BY <1>2, <2>2, <3>1
  <2> QED
    BY <2>1, <2>2
<1>5. Latest(ty, b, n + 1, IF ty[n] > 0 THEN n ELSE pos, IF ty[n] > 0 THEN ty[n] ELSE type)
  <2>1. CASE ty[n] > 0
    <3>1. n \in G /\ G # {} /\ \A e \in G : e <= n
      BY <1>1, <1>2, <2>1
    <3> QED
      BY <2>1, <3>1 DEF Latest
  <2>2. CASE ~(ty[n] > 0)
    <3>1. G = H
      BY <1>1, <2>2
    <3> QED
      BY <2>2, <3>1 DEF Latest
  <2> QED
    BY <2>1, <2>2
<1>6. \A e : e \in Sure(ty, b, n) <=>
        e \in H /\ \E f \in H : e < f /\ ty[f] # ty[e] /\ \A g \in H : e < g => f <= g
  BY DEF Sure
<1>7. \A e : e \in Sure(ty, b, n + 1) <=>
        e \in G /\ \E f \in G : e < f /\ ty[f] # ty[e] /\ \A g \in G : e < g => f <= g
  BY DEF Sure
<1>8. CASE ~(ty[n] > 0)
  <2>1. G = H
    BY <1>1, <1>8
  <2>2. Sure(ty, b, n + 1) = Sure(ty, b, n)
    BY <2>1 DEF Sure
  <2> QED
    BY <1>2, <1>4, <1>5, <1>6, <1>8, <2>2
<1>9. CASE ty[n] > 0
  <2>1. n \in G /\ n \notin H /\ H \subseteq G
    BY <1>1, <1>2, <1>9
  <2>2. ASSUME NEW e \in Sure(ty, b, n)
        PROVE  e \in Sure(ty, b, n + 1)
    <3>1. PICK f \in H : e < f /\ ty[f] # ty[e] /\ \A g \in H : e < g => f <= g
      BY <1>6
    <3>2. e \in H /\ \A g \in G : e < g => f <= g
      BY <1>1, <1>2, <1>6, <3>1
    <3> QED
      BY <1>7, <2>1, <3>1, <3>2
  <2>3. ASSUME NEW e \in Sure(ty, b, n + 1), e \notin Sure(ty, b, n)
        PROVE  type > 0 /\ type # ty[n] /\ e = pos
    <3>1. PICK f \in G : e \in G /\ e < f /\ ty[f] # ty[e] /\ \A g \in G : e < g => f <= g
      BY <1>7
    <3>2. e \in H
      BY <1>1, <1>2, <3>1
    <3>3. f = n
      BY <1>1, <1>6, <2>1, <2>3, <3>1, <3>2
    <3>4. H # {} /\ pos \in H /\ pos \in G /\ type = ty[pos] /\ type > 0 /\ e <= pos
      BY <1>4, <2>1, <3>2
    <3>5. e \in Nat /\ pos \in Nat /\ pos < n
      BY <1>2, <3>2, <3>4
    <3>6. e = pos
      BY <3>1, <3>3, <3>4, <3>5
    <3> QED
      BY <3>1, <3>3, <3>4, <3>6
  <2>4. ASSUME type > 0, type # ty[n]
        PROVE  pos \in Sure(ty, b, n + 1)
    <3>1. pos \in H /\ type = ty[pos] /\ \A e \in H : e <= pos
      BY <1>4, <2>4
    <3>2. pos \in G /\ pos < n /\ pos \in Nat
      BY <1>2, <2>1, <3>1
    <3>3. \A g \in G : pos < g => n <= g
      BY <1>1, <1>2, <3>1
    <3> QED
      BY <1>7, <2>1, <2>4, <3>1, <3>2, <3>3
  <2>5. Sure(ty, b, n + 1) = IF type > 0 /\ type # ty[n]
                             THEN Sure(ty, b, n) \cup {pos} ELSE Sure(ty, b, n)
    BY <2>2, <2>3, <2>4
  <2>6. ASSUME type > 0, NEW e \in Sure(ty, b, n)
        PROVE  e < pos
    <3>1. PICK f \in H : e \in H /\ e < f
      BY <1>6
    <3>2. f <= pos /\ pos \in H
      BY <1>4, <3>1
    <3> QED
      BY <1>2, <3>1, <3>2
  <2> QED
    BY <1>2, <1>4, <1>5, <1>6, <1>9, <2>5, <2>6
<1> QED
  BY <1>8, <1>9

-----------------------------------------------------------------------------
(* Matches in the order of their ends.                                     *)
Mat(ty, b, e) == [begin |-> b, end |-> e, type |-> ty[e]]
Line(ty, b, S) == [k \in 1 .. Cardinality(S) |-> Mat(ty, b, Ascending(S)[k])]

LEMMA LineAppend ==
  ASSUME NEW S, S \subseteq Int, IsFiniteSet(S), NEW x \in Int, \A y \in S : y < x,
         NEW ty, NEW b
  PROVE  /\ Line(ty, b, S \cup {x}) = Append(Line(ty, b, S), Mat(ty, b, x))
         /\ Cardinality(S \cup {x}) = Cardinality(S) + 1
<1> PICK U : U = S \cup {x}
  OBVIOUS
<1> PICK n : n = Cardinality(S)
  OBVIOUS
<1>1. x \notin S
  <2>1. ~(x < x)
    OBVIOUS
  <2> QED
    BY <2>1
<1>2. /\ IsFiniteSet(U) /\ U \subseteq Int /\ n \in Nat /\ Cardinality(U) = n + 1
      /\ x \in U /\ S \subseteq U
  BY <1>1, FS_AddElement, FS_CardinalityType
<1>3. ASSUME NEW y \in S PROVE Rank(U, y) = Rank(S, y)
  <2>1. y \in Int /\ y < x /\ ~(x < y)
    OBVIOUS
  <2>2. { z \in U : z < y } = { z \in S : z < y }
    BY <2>1
  <2> QED
    BY <2>2 DEF Rank
<1>4. Rank(U, x) = n
  <2>1. ~(x < x)
    OBVIOUS
  <2>2. { z \in U : z < x } = S
    BY <2>1
  <2> QED
    BY <2>2 DEF Rank
<1>5. Ascending(U)[n + 1] = x
  BY <1>2, <1>4, InOrderOfRank
<1>6. ASSUME NEW k \in 1 .. n PROVE Ascending(U)[k] = Ascending(S)[k]
  <2>1. Ascending(S) \in Seq(S) /\ Len(Ascending(S)) = n
    BY InOrderOfRank
  <2>2. PICK y \in S : y = Ascending(S)[k]
    BY <2>1, ElementOfSeq
  <2>3. Rank(S, y) + 1 \in 1 .. n /\ Ascending(S)[Rank(S, y) + 1] = y
    BY InOrderOfRank
  <2>4. Rank(S, y) + 1 = k
    BY <2>2, <2>3, InOrderOfRank
  <2>5. Ascending(U)[Rank(U, y) + 1] = y
    BY <1>2, InOrderOfRank
  <2> QED
    BY <1>3, <2>2, <2>4, <2>5
<1>7. Line(ty, b, S) = [k \in 1 .. n |-> Mat(ty, b, Ascending(S)[k])]
  BY DEF Line
<1>8. Line(ty, b, U) = [k \in 1 .. n + 1 |-> Mat(ty, b, Ascending(U)[k])]
  BY <1>2 DEF Line
<1>9. ASSUME NEW s, s = [k \in 1 .. n |-> Mat(ty, b, Ascending(S)[k])],
             NEW u, u = [k \in 1 .. n + 1 |-> Mat(ty, b, Ascending(U)[k])]
      PROVE  u = Append(s, Mat(ty, b, x))
  <2> PICK m : m = Mat(ty, b, x)
    OBVIOUS
  <2> DEFINE R == { u[k] : k \in 1 .. n + 1 }
  <2>1. ASSUME NEW k \in 1 .. n PROVE u[k] = s[k]
    <3>1. k \in 1 .. n + 1
      BY <1>2
    <3>2. u[k] = Mat(ty, b, Ascending(U)[k]) /\ s[k] = Mat(ty, b, Ascending(S)[k])
      BY <1>9, <3>1
    <3> QED
      BY <1>6, <3>2
  <2>2. u[n + 1] = m
    <3>1. n + 1 \in 1 .. n + 1
      BY <1>2
    <3>2. u[n + 1] = Mat(ty, b, Ascending(U)[n + 1])
      BY <1>9, <3>1
    <3> QED
      BY <1>5, <3>2
  <2>3. u = [k \in 1 .. n + 1 |-> u[k]] /\ s = [k \in 1 .. n |-> s[k]]
    BY <1>9
  <2>4. \A k \in 1 .. n : s[k] \in R
    BY <1>2, <2>1
  <2>5. m \in R
    BY <1>2, <2>2
  <2>6. u \in Seq(R) /\ Len(u) = n + 1
    BY <1>2, <2>3
  <2> HIDE DEF R
  <2>7. s \in Seq(R) /\ Len(s) = n
    BY <1>2, <2>3, <2>4
  <2>8. /\ Append(s, m) \in Seq(R) /\ Len(Append(s, m)) = n + 1
        /\ (\A k \in 1 .. n : Append(s, m)[k] = s[k]) /\ Append(s, m)[n + 1] = m
    BY <2>5, <2>7, AppendProperties
  <2>9. \A k \in 1 .. n + 1 : u[k] = Append(s, m)[k]
    BY <1>2, <2>1, <2>2, <2>8
  <2> QED
    BY <2>6, <2>8, <2>9, SeqEqual
<1> QED
  BY <1>2, <1>7, <1>8, <1>9

PlainRecord == [begin : Nat, end : Nat, type : Int]

LEMMA LineIs ==
  ASSUME NEW b \in Nat, NEW S, S \subseteq Nat, IsFiniteSet(S), NEW ty,
         \A e \in S : ty[e] \in Int
  PROVE  /\ Line(ty, b, S) \in Seq(PlainRecord)
         /\ Len(Line(ty, b, S)) = Cardinality(S) /\ Cardinality(S) \in Nat
         /\ \A k \in 1 .. Cardinality(S) : \E e \in S : Line(ty, b, S)[k] = Mat(ty, b, e)
<1> PICK n : n = Cardinality(S)
  OBVIOUS
<1> PICK s : s = Ascending(S)
  OBVIOUS
<1>1. S \subseteq Int /\ n \in Nat
  BY FS_CardinalityType
<1>2. s \in Seq(S) /\ Len(s) = n
  BY <1>1, InOrderOfRank
<1>3. \A k \in 1 .. n : s[k] \in S
  BY <1>2, ElementOfSeq
<1>4. \A k \in 1 .. n : Mat(ty, b, s[k]) \in PlainRecord
  BY <1>3 DEF Mat, PlainRecord
<1>5. Line(ty, b, S) = [k \in 1 .. n |-> Mat(ty, b, s[k])]
  BY DEF Line
<1>6. [k \in 1 .. n |-> Mat(ty, b, s[k])] \in Seq(PlainRecord)
  BY <1>1, <1>4
<1>7. ASSUME NEW l, l = [k \in 1 .. n |-> Mat(ty, b, s[k])], l \in Seq(PlainRecord)
      PROVE  Len(l) = n /\ \A k \in 1 .. n : \E e \in S : l[k] = Mat(ty, b, e)
  <2>1. \A k \in 1 .. n : l[k] = Mat(ty, b, s[k])
    BY <1>7
  <2>2. Len(l) = n
    BY <1>1, <1>7
  <2>3. \A k \in 1 .. n : \E e \in S : l[k] = Mat(ty, b, e)
    BY <1>3, <2>1
  <2> QED
    BY <2>2, <2>3
<1> QED
  BY <1>1, <1>5, <1>6, <1>7

(* The cuts, once the text has been scanned from b to its end.             *)
LEMMA CutsAre ==
  ASSUME NEW a, IsNfa(a), NEW t, Len(t) \in Nat, NEW b \in 0 .. Len(t),
         NEW ty, ty = Accepts(a, t, b), NEW pos, NEW type,
         Latest(ty, b, Len(t) + 1, pos, type)
  PROVE  /\ ~(type > 0) => Cuts(a, t, b) = <<>>
         /\ type > 0 => Cuts(a, t, b) = Append(Line(ty, b, Sure(ty, b, Len(t) + 1)),
                                              Mat(ty, b, pos))
<1> PICK n : n = Len(t) + 1
  OBVIOUS
<1> PICK H : H = Hits(ty, b, n)
  OBVIOUS
<1> DEFINE more(e) == { f \in H : f > e }
           cuts == { e \in H : more(e) = {} \/ ty[Min(more(e))] # ty[e] }
<1>1. H = { e \in b .. Len(t) : ty[e] > 0 }
  <2>1. n - 1 = Len(t)
    OBVIOUS
  <2> QED
    BY <2>1 DEF Hits
<1>2. Cuts(a, t, b) = Line(ty, b, cuts)
  BY <1>1 DEF Cuts, Line, Mat
<1>3. H \subseteq Nat /\ IsFiniteSet(H)
  <2>1. b \in Int /\ Len(t) \in Int /\ b .. Len(t) \subseteq Nat /\ H \subseteq b .. Len(t)
    BY <1>1
  <2>2. IsFiniteSet(b .. Len(t))
    BY <2>1, FS_Interval
  <2> QED
    BY <2>1, <2>2, FS_Subset
<1>4. ASSUME NEW e \in H, more(e) # {}
      PROVE  /\ Min(more(e)) \in H /\ e < Min(more(e))
             /\ \A g \in H : e < g => Min(more(e)) <= g
             /\ \A f \in H : e < f /\ (\A g \in H : e < g => f <= g) => f = Min(more(e))
  <2>1. more(e) \subseteq Nat
    BY <1>3
  <2>2. PICK m \in more(e) : \A z \in more(e) : << z, m >> \notin OpToRel(<, Nat)
    BY <1>4, <2>1, NatLessThanWellFounded, WFMin
  <2>3. \A z \in more(e) : m <= z
    <3> SUFFICES ASSUME NEW z \in more(e), ~(m <= z) PROVE FALSE
      OBVIOUS
    <3>1. z \in Nat /\ m \in Nat /\ z < m
      BY <2>1
    <3> QED
      BY <2>2, <3>1 DEF OpToRel
  <2> DEFINE c == Min(more(e))
  <2>4. c \in more(e) /\ \A z \in more(e) : c <= z
    <3> HIDE DEF more
    <3> QED
      BY <2>2, <2>3 DEF Min
  <2> HIDE DEF c
  <2>5. c \in H /\ e < c /\ (\A g \in H : e < g => c <= g) /\ c \in Nat /\ e \in Nat
    BY <1>3, <2>1, <2>4
  <2>6. ASSUME NEW f \in H, e < f, \A g \in H : e < g => f <= g
        PROVE  f = c
    <3>1. f <= c /\ c <= f /\ f \in Nat
      BY <1>3, <2>5, <2>6
    <3> QED
      BY <2>5, <3>1
  <2> QED
    BY <2>5, <2>6 DEF c
<1>5. CASE H = {}
  <2>1. cuts = {}
    BY <1>5
  <2>2. Cardinality({}) = 0
    BY FS_EmptySet
  <2>3. Cuts(a, t, b) = <<>>
    <3>1. Line(ty, b, {}) = <<>>
      BY <2>2 DEF Line
    <3> QED
      BY <1>2, <2>1, <3>1
  <2>4. ~(type > 0)
    BY <1>5 DEF Latest
  <2> QED
    BY <2>3, <2>4
<1>6. CASE H # {}
  <2>1. pos \in H /\ type = ty[pos] /\ (\A e \in H : e <= pos) /\ type > 0
    <3>1. pos \in H /\ type = ty[pos] /\ \A e \in H : e <= pos
      BY <1>6 DEF Latest
    <3> QED
      BY <1>1, <3>1
  <2>2. ASSUME NEW e \in H, e # pos
        PROVE  e < pos /\ more(e) # {}
               /\ (e \in cuts <=> e \in Sure(ty, b, n))
    <3>1. e \in Nat /\ pos \in Nat /\ e <= pos
      BY <1>3, <2>1
    <3>2. e < pos /\ pos \in more(e)
      BY <2>1, <2>2, <3>1
    <3>3. e \in cuts <=> ty[Min(more(e))] # ty[e]
      BY <3>2
    <3>4. e \in Sure(ty, b, n) <=>
            \E f \in H : e < f /\ ty[f] # ty[e] /\ \A g \in H : e < g => f <= g
      BY DEF Sure
    <3>5. /\ Min(more(e)) \in H /\ e < Min(more(e))
          /\ \A g \in H : e < g => Min(more(e)) <= g
          /\ \A f \in H : e < f /\ (\A g \in H : e < g => f <= g) => f = Min(more(e))
      BY <1>4, <3>2
    <3> HIDE DEF more, cuts
    <3> QED
      BY <3>2, <3>3, <3>4, <3>5
  <2>3. pos \in cuts /\ pos \notin Sure(ty, b, n)
    <3>1. \A e \in H : e \in Nat /\ pos \in Nat /\ ~(e > pos)
      BY <1>3, <2>1
    <3>2. more(pos) = {}
      BY <3>1
    <3>3. \A f \in H : ~(pos < f)
      BY <3>1
    <3> QED
      BY <2>1, <3>2, <3>3 DEF Sure
  <2>4. cuts \subseteq H /\ Sure(ty, b, n) \subseteq H
    BY DEF Sure
  <2>5. cuts = Sure(ty, b, n) \cup {pos}
    <3> HIDE DEF cuts, more
    <3> QED
      BY <2>2, <2>3, <2>4
  <2>6. \A e \in Sure(ty, b, n) : e < pos
    BY <2>2, <2>3, <2>4
  <2>7. /\ IsFiniteSet(Sure(ty, b, n)) /\ Sure(ty, b, n) \subseteq Int /\ pos \in Int
    <3>1. IsFiniteSet(Sure(ty, b, n))
      BY <1>3, <2>4, FS_Subset
    <3> QED
      BY <1>3, <2>1, <2>4, <3>1
  <2>8. Line(ty, b, Sure(ty, b, n) \cup {pos}) = Append(Line(ty, b, Sure(ty, b, n)), Mat(ty, b, pos))
    <3> PICK S : S = Sure(ty, b, n)
      OBVIOUS
    <3>1. IsFiniteSet(S) /\ S \subseteq Int /\ \A e \in S : e < pos
      BY <2>6, <2>7
    <3> HIDE DEF cuts, more
    <3>2. \A U, x : U \subseteq Int /\ IsFiniteSet(U) /\ x \in Int /\ (\A y \in U : y < x) =>
            Line(ty, b, U \cup {x}) = Append(Line(ty, b, U), Mat(ty, b, x))
      BY LineAppend
    <3>3. pos \in Int
      BY <2>7
    <3> QED
      BY <3>1, <3>2, <3>3
  <2> QED
    BY <1>2, <2>1, <2>5, <2>8
<1> QED
  BY <1>5, <1>6

(* An Nfa and a text that may be searched: the empty text is not accepted. *)
Plain(a, t) ==
  IsNfa(a) /\ Len(t) \in Nat /\ ~(TypeOf(a, Closure(a, {a.start})) > 0)

(* The cuts of a position are not empty and lie in the text.               *)
LEMMA CutsFit ==
  ASSUME NEW a, NEW t, Plain(a, t), NEW b \in 0 .. Len(t), NEW c, c = Cuts(a, t, b)
  PROVE  /\ c \in Seq(PlainRecord) /\ Len(c) \in Nat
         /\ c # <<>> => c[Len(c)].end \in b + 1 .. Len(t) /\ Len(c) > 0
         /\ b = Len(t) => c = <<>>
         /\ \A k \in 1 .. Len(c) : c[k].begin = b
<1>1. IsNfa(a) /\ Len(t) \in Nat
  BY DEF Plain
<1> PICK ty : ty = Accepts(a, t, b)
  OBVIOUS
<1>2. ty \in [b .. Len(t) -> Int] /\ ~(ty[b] > 0)
  BY <1>1, AcceptsIs DEF Plain, Typing
<1> PICK n : n = Len(t) + 1
  OBVIOUS
<1>3. Hits(ty, b, n) \subseteq b + 1 .. Len(t)
  <2>1. ASSUME NEW e \in Hits(ty, b, n)
        PROVE  e \in b + 1 .. Len(t)
    <3>1. e \in b .. n - 1 /\ ty[e] > 0
      BY DEF Hits
    <3> QED
      BY <1>1, <1>2, <3>1
  <2> QED
    BY <2>1
<1>4. Hits(ty, b, n) \subseteq Nat /\ IsFiniteSet(Hits(ty, b, n))
  <2>1. b + 1 \in Int /\ Len(t) \in Int /\ b + 1 .. Len(t) \subseteq Nat
    BY <1>1
  <2>2. IsFiniteSet(b + 1 .. Len(t))
    BY <2>1, FS_Interval
  <2> QED
    BY <1>3, <2>1, <2>2, FS_Subset
<1>5. CASE Hits(ty, b, n) = {}
  <2>1. ~(-1 > 0)
    OBVIOUS
  <2>2. Latest(ty, b, n, 0, -1)
    BY <1>5, <2>1 DEF Latest
  <2>3. Cuts(a, t, b) = <<>>
    BY <1>1, <2>1, <2>2, CutsAre
  <2> QED
    BY <2>3
<1>6. CASE Hits(ty, b, n) # {}
  <2>1. PICK pos \in Hits(ty, b, n) : \A e \in Hits(ty, b, n) : e <= pos
    BY <1>4, <1>6, Greatest
  <2>2. Latest(ty, b, n, pos, ty[pos])
    BY <1>6, <2>1 DEF Latest
  <2>3. ty[pos] > 0 /\ pos \in b + 1 .. Len(t)
    BY <1>3 DEF Hits
  <2> PICK S : S = Sure(ty, b, n)
    OBVIOUS
  <2>4. c = Append(Line(ty, b, S), Mat(ty, b, pos))
    BY <1>1, <2>2, <2>3, CutsAre
  <2>5. S \subseteq Nat /\ IsFiniteSet(S) /\ S \subseteq Hits(ty, b, n)
    <3>1. S \subseteq Hits(ty, b, n)
      BY DEF Sure
    <3> QED
      BY <1>4, <3>1, FS_Subset
  <2>6. \A e \in S : ty[e] \in Int
    BY <1>1, <1>2, <1>3, <2>5
  <2>7. b \in Nat /\ pos \in Nat
    BY <1>1, <2>3
  <2>8. /\ Line(ty, b, S) \in Seq(PlainRecord) /\ Len(Line(ty, b, S)) \in Nat
        /\ \A k \in 1 .. Len(Line(ty, b, S)) : \E e \in S : Line(ty, b, S)[k] = Mat(ty, b, e)
    BY <2>5, <2>6, <2>7, LineIs
  <2> PICK l : l = Line(ty, b, S)
    OBVIOUS
  <2> PICK m : m = Mat(ty, b, pos)
    OBVIOUS
  <2>9. m \in PlainRecord /\ m.end = pos /\ m.begin = b
    BY <1>2, <2>3, <2>7 DEF Mat, PlainRecord
  <2>10. ASSUME NEW k \in 1 .. Len(l)
         PROVE  l[k].begin = b
    <3>1. PICK e \in S : l[k] = Mat(ty, b, e)
      BY <2>8
    <3> QED
      BY <3>1 DEF Mat
  <2>11. /\ c \in Seq(PlainRecord) /\ c # <<>> /\ Len(c) = Len(l) + 1 /\ c[Len(l) + 1] = m
         /\ \A k \in 1 .. Len(l) : c[k] = l[k]
    BY <2>4, <2>8, <2>9, AppendProperties
  <2>12. \A k \in 1 .. Len(c) : c[k].begin = b
    BY <2>8, <2>9, <2>10, <2>11
  <2>13. b # Len(t)
    BY <1>1, <2>3
  <2> QED
    BY <2>3, <2>8, <2>9, <2>11, <2>12, <2>13
<1> QED
  BY <1>5, <1>6

-----------------------------------------------------------------------------
(* A list put together from parts, each followed by the list of a later    *)
(* position.                                                               *)
Chops(f, R, part, next, n, m) ==
  /\ f \in [n .. m -> Seq(R)] /\ f[m] = <<>>
  /\ \A b \in n .. m - 1 : f[b] = part[b] \o f[next[b]]

LEMMA ChopsOn ==
  ASSUME NEW R, NEW m \in Nat, NEW n \in Nat, n < m, NEW part, NEW next,
         part[n] \in Seq(R), next[n] \in n + 1 .. m,
         \A b \in n + 1 .. m - 1 : next[b] \in b + 1 .. m,
         NEW f, Chops(f, R, part, next, n + 1, m)
  PROVE  \E g : Chops(g, R, part, next, n, m)
<1> PICK x : x = part[n] \o f[next[n]]
  OBVIOUS
<1> PICK g : g = [b \in n .. m |-> IF b = n THEN x ELSE f[b]]
  OBVIOUS
<1>1. x \in Seq(R)
  <2>1. f[next[n]] \in Seq(R)
    BY DEF Chops
  <2> QED
    BY <2>1, ConcatProperties
<1>2. /\ \A b \in n + 1 .. m : b \in n .. m /\ b # n
      /\ \A b \in n .. m : b # n => b \in n + 1 .. m
      /\ n \in n .. m /\ m \in n + 1 .. m
  OBVIOUS
<1>3. (\A b \in n + 1 .. m : g[b] = f[b]) /\ g[n] = x
  BY <1>2
<1>4. g \in [n .. m -> Seq(R)]
  BY <1>1, <1>2 DEF Chops
<1>5. g[m] = <<>>
  BY <1>2, <1>3 DEF Chops
<1>6. ASSUME NEW b \in n .. m - 1
      PROVE  g[b] = part[b] \o g[next[b]]
  <2>1. CASE b = n
    BY <1>3, <2>1
  <2>2. CASE b # n
    <3>1. b \in n + 1 .. m - 1 /\ b \in n + 1 .. m
      BY <2>2
    <3>2. next[b] \in n + 1 .. m
      BY <3>1
    <3> QED
      BY <1>3, <3>1, <3>2 DEF Chops
  <2> QED
    BY <2>1, <2>2
<1>7. Chops(g, R, part, next, n, m)
  BY <1>4, <1>5, <1>6 DEF Chops
<1> QED
  BY <1>7

LEMMA ChopsExist ==
  ASSUME NEW R, NEW m \in Nat, NEW part, NEW next,
         \A b \in 0 .. m - 1 : part[b] \in Seq(R) /\ next[b] \in b + 1 .. m
  PROVE  \E f : Chops(f, R, part, next, 0, m)
<1> DEFINE Ok(k) == \E f : Chops(f, R, part, next, m - k, m)
           Bad == { k \in 0 .. m : ~Ok(k) }
<1>1. Ok(0)
  <2> DEFINE f == [b \in m .. m |-> <<>>]
  <2>1. Chops(f, R, part, next, m, m)
    <3>1. m \in m .. m /\ \A b \in m .. m - 1 : FALSE
      OBVIOUS
    <3>2. <<>> \in Seq(R)
      OBVIOUS
    <3>3. f \in [m .. m -> Seq(R)] /\ f[m] = <<>>
      BY <3>1, <3>2
    <3> HIDE DEF f
    <3> QED
      BY <3>1, <3>3 DEF Chops
  <2>2. m - 0 = m
    OBVIOUS
  <2> QED
    BY <2>1, <2>2
<1>2. ASSUME NEW k \in 0 .. m - 1, Ok(k)
      PROVE  Ok(k + 1)
  <2>1. PICK n : n = m - (k + 1)
    OBVIOUS
  <2>2. n \in Nat /\ n < m /\ n + 1 = m - k /\ n \in 0 .. m - 1
    BY <2>1
  <2>3. PICK f : Chops(f, R, part, next, n + 1, m)
    BY <1>2, <2>2
  <2>4. /\ part[n] \in Seq(R) /\ next[n] \in n + 1 .. m
        /\ \A b \in n + 1 .. m - 1 : next[b] \in b + 1 .. m
    BY <2>2
  <2> QED
    BY <2>1, <2>2, <2>3, <2>4, ChopsOn
<1> HIDE DEF Ok
<1>3. Bad = {}
  <2> SUFFICES ASSUME Bad # {} PROVE FALSE
    OBVIOUS
  <2>1. PICK k \in Bad : \A z \in Bad : << z, k >> \notin OpToRel(<, Nat)
    <3>1. Bad \subseteq Nat
      OBVIOUS
    <3> QED
      BY <3>1, NatLessThanWellFounded, WFMin
  <2>2. k \in 0 .. m /\ k # 0 /\ ~Ok(k)
    BY <1>1
  <2>3. k - 1 \in 0 .. m - 1 /\ k - 1 \in 0 .. m /\ k - 1 \in Nat /\ k - 1 < k /\ k - 1 + 1 = k
        /\ k \in Nat
    BY <2>2
  <2>4. Ok(k - 1)
    BY <2>1, <2>3 DEF OpToRel
  <2> QED
    BY <1>2, <2>2, <2>3, <2>4
<1>4. Ok(m)
  BY <1>3
<1>5. m - m = 0
  OBVIOUS
<1> QED
  BY <1>4, <1>5 DEF Ok

(* What is cut off at a position, and where the text goes on.              *)
Part(a, t, b, longest) ==
  LET cuts == Cuts(a, t, b)
  IN  IF cuts = <<>> THEN <<>> ELSE IF longest THEN <<Last(cuts)>> ELSE cuts
Behind(a, t, b) ==
  LET cuts == Cuts(a, t, b) IN IF cuts = <<>> THEN b + 1 ELSE Last(cuts).end

LEMMA MunchIs ==
  ASSUME NEW a, NEW t, Plain(a, t), NEW g
  PROVE  /\ Munch(a, t, Len(t), g) = <<>>
         /\ \A b \in 0 .. Len(t) - 1 :
              /\ Munch(a, t, b, g) = Part(a, t, b, g) \o Munch(a, t, Behind(a, t, b), g)
              /\ Behind(a, t, b) \in b + 1 .. Len(t)
              /\ Part(a, t, b, g) \in Seq(PlainRecord)
         /\ \A b \in 0 .. Len(t) : Munch(a, t, b, g) \in Seq(PlainRecord)
<1> PICK m : m = Len(t)
  OBVIOUS
<1> DEFINE part == [b \in 0 .. m - 1 |-> Part(a, t, b, g)]
           next == [b \in 0 .. m - 1 |-> Behind(a, t, b)]
           Rule(f, b) == IF b = m THEN <<>>
                         ELSE IF Cuts(a, t, b) = <<>> THEN f[b + 1]
                              ELSE (IF g THEN <<Last(Cuts(a, t, b))>> ELSE Cuts(a, t, b))
                                   \o f[Last(Cuts(a, t, b)).end]
<1>1. m \in Nat
  BY DEF Plain
<1>2. ASSUME NEW b \in 0 .. m - 1
      PROVE  /\ Part(a, t, b, g) \in Seq(PlainRecord) /\ Behind(a, t, b) \in b + 1 .. m
             /\ Cuts(a, t, b) = <<>> => Part(a, t, b, g) = <<>> /\ Behind(a, t, b) = b + 1
             /\ Cuts(a, t, b) # <<>> =>
                  /\ Part(a, t, b, g) = IF g THEN <<Last(Cuts(a, t, b))>> ELSE Cuts(a, t, b)
                  /\ Behind(a, t, b) = Last(Cuts(a, t, b)).end
  <2> PICK c : c = Cuts(a, t, b)
    OBVIOUS
  <2>1. b \in 0 .. Len(t)
    BY <1>1
  <2>2. /\ c \in Seq(PlainRecord) /\ Len(c) \in Nat
        /\ c # <<>> => c[Len(c)].end \in b + 1 .. Len(t) /\ Len(c) > 0
    BY <2>1, CutsFit
  <2>3. /\ c = <<>> => Part(a, t, b, g) = <<>> /\ Behind(a, t, b) = b + 1
        /\ c # <<>> => /\ Part(a, t, b, g) = IF g THEN <<Last(c)>> ELSE c
                       /\ Behind(a, t, b) = Last(c).end
    BY DEF Part, Behind
  <2>4. Last(c) = c[Len(c)]
    BY DEF Last
  <2>5. CASE c = <<>>
    BY <1>1, <2>3, <2>5
  <2>6. CASE c # <<>>
    <3>1. Last(c) \in PlainRecord
      BY <2>2, <2>4, <2>6
    <3>2. <<Last(c)>> \in Seq(PlainRecord)
      BY <3>1
    <3> QED
      BY <2>2, <2>3, <2>4, <2>6, <3>2
  <2> QED
    BY <2>5, <2>6
<1>3. \A b \in 0 .. m - 1 : part[b] \in Seq(PlainRecord) /\ next[b] \in b + 1 .. m
  BY <1>2
<1>4. PICK f : Chops(f, PlainRecord, part, next, 0, m)
  <2> HIDE DEF part, next
  <2> QED
    BY <1>1, <1>3, ChopsExist
<1>5. ASSUME NEW h, NEW b \in 0 .. m,
             \A e \in 0 .. m : b < e => h[e] \in Seq(PlainRecord)
      PROVE  Rule(h, b) = IF b = m THEN <<>> ELSE part[b] \o h[next[b]]
  <2>1. CASE b = m
    BY <2>1
  <2>2. CASE b # m
    <3>1. b \in 0 .. m - 1 /\ b + 1 \in 0 .. m /\ b < b + 1
      BY <1>1, <2>2
    <3>2. part[b] = Part(a, t, b, g) /\ next[b] = Behind(a, t, b)
      BY <3>1
    <3>3. CASE Cuts(a, t, b) = <<>>
      <4>1. part[b] = <<>> /\ next[b] = b + 1
        BY <1>2, <3>1, <3>2, <3>3
      <4>2. h[b + 1] \in Seq(PlainRecord)
        BY <1>5, <3>1
      <4> HIDE DEF part, next
      <4>3. part[b] \o h[next[b]] = h[b + 1]
        BY <4>1, <4>2, ConcatEmptySeq
      <4> QED
        BY <2>2, <3>3, <4>3
    <3>4. CASE Cuts(a, t, b) # <<>>
      BY <1>2, <2>2, <3>1, <3>2, <3>4
    <3> QED
      BY <3>3, <3>4
  <2> QED
    BY <2>1, <2>2
<1> DEFINE Whole(h) == h = [b \in 0 .. m |-> Rule(h, b)]
<1>6. Whole(f)
  <2>1. /\ f = [b \in 0 .. m |-> f[b]] /\ f[m] = <<>>
        /\ \A b \in 0 .. m : f[b] \in Seq(PlainRecord)
        /\ \A b \in 0 .. m - 1 : f[b] = part[b] \o f[next[b]]
    BY <1>4 DEF Chops
  <2> HIDE DEF Rule, part, next
  <2>2. ASSUME NEW b \in 0 .. m
        PROVE  f[b] = Rule(f, b)
    <3>1. Rule(f, b) = IF b = m THEN <<>> ELSE part[b] \o f[next[b]]
      BY <1>5, <2>1
    <3>2. b = m \/ b \in 0 .. m - 1
      BY <1>1
    <3> QED
      BY <2>1, <3>1, <3>2
  <2> QED
    BY <2>1, <2>2
<1>7. PICK at : /\ Whole(at)
                /\ \A b \in 0 .. m : Munch(a, t, b, g) = at[b]
  <2> DEFINE all == CHOOSE h : Whole(h)
  <2>1. \A b : Munch(a, t, b, g) = all[b]
    BY DEF Munch
  <2>2. Whole(all)
    <3> HIDE DEF Whole
    <3> QED
      BY <1>6
  <2> HIDE DEF Whole, all
  <2> QED
    BY <2>1, <2>2
<1>8. \A b \in 0 .. m : at[b] = Rule(at, b)
  <2> HIDE DEF Rule
  <2> QED
    BY <1>7
<1>9. \A b \in 0 .. m : at[b] \in Seq(PlainRecord)
  <2> DEFINE Bad == { k \in 0 .. m : at[m - k] \notin Seq(PlainRecord) }
  <2> HIDE DEF Rule, part, next, Whole
  <2>1. Bad = {}
    <3> SUFFICES ASSUME Bad # {} PROVE FALSE
      OBVIOUS
    <3>1. PICK k \in Bad : \A z \in Bad : << z, k >> \notin OpToRel(<, Nat)
      <4>1. Bad \subseteq Nat
        OBVIOUS
      <4> QED
        BY <4>1, NatLessThanWellFounded, WFMin
    <3> PICK b : b = m - k
      OBVIOUS
    <3>2. k \in 0 .. m /\ b \in 0 .. m /\ at[b] \notin Seq(PlainRecord) /\ k \in Nat
      BY <1>1
    <3>3. ASSUME NEW e \in 0 .. m, b < e
          PROVE  at[e] \in Seq(PlainRecord)
      <4>1. m - e \in 0 .. m /\ m - e \in Nat /\ m - e < k /\ m - (m - e) = e
        BY <1>1, <3>2, <3>3
      <4>2. m - e \notin Bad
        BY <3>1, <3>2, <4>1 DEF OpToRel
      <4> QED
        BY <4>1, <4>2
    <3>4. at[b] = IF b = m THEN <<>> ELSE part[b] \o at[next[b]]
      BY <1>5, <1>8, <3>2, <3>3
    <3>5. b # m => b \in 0 .. m - 1
      BY <1>1, <3>2
    <3>6. b # m => part[b] \in Seq(PlainRecord) /\ at[next[b]] \in Seq(PlainRecord)
      <4>1. b # m => part[b] \in Seq(PlainRecord) /\ next[b] \in b + 1 .. m
        BY <1>3, <3>5
      <4>2. \A e \in b + 1 .. m : e \in 0 .. m /\ b < e
        BY <1>1, <3>2
      <4> QED
        BY <3>3, <4>1, <4>2
    <3>7. at[b] \in Seq(PlainRecord)
      <4>1. b # m => part[b] \o at[next[b]] \in Seq(PlainRecord)
        BY <3>6, ConcatProperties
      <4>2. <<>> \in Seq(PlainRecord)
        OBVIOUS
      <4> QED
        BY <3>4, <4>1, <4>2
    <3> QED
      BY <3>2, <3>7
  <2>2. ASSUME NEW b \in 0 .. m
        PROVE  at[b] \in Seq(PlainRecord)
    <3>1. m - b \in 0 .. m /\ m - (m - b) = b
      BY <1>1
    <3> QED
      BY <2>1, <3>1
  <2> QED
    BY <2>2
<1>10. \A b \in 0 .. m : at[b] = IF b = m THEN <<>> ELSE part[b] \o at[next[b]]
  <2> HIDE DEF Rule, part, next, Whole
  <2> QED
    BY <1>5, <1>8, <1>9
<1>11. \A b \in 0 .. m - 1 : b \in 0 .. m /\ b # m /\ next[b] \in 0 .. m
  <2>1. \A b \in 0 .. m - 1 : next[b] \in b + 1 .. m
    BY <1>3
  <2> HIDE DEF next
  <2>2. ASSUME NEW b \in 0 .. m - 1
        PROVE  b \in 0 .. m /\ b # m /\ next[b] \in 0 .. m
    BY <1>1, <2>1
  <2> QED
    BY <2>2
<1>12. m \in 0 .. m
  BY <1>1
<1>13. \A b \in 0 .. m - 1 : at[b] = part[b] \o at[next[b]]
  <2> HIDE DEF part, next
  <2> QED
    BY <1>10, <1>11
<1>14. \A b \in 0 .. m - 1 : part[b] = Part(a, t, b, g) /\ next[b] = Behind(a, t, b)
  OBVIOUS
<1> HIDE DEF part, next, Rule, Whole
<1>15. \A b \in 0 .. m - 1 : Munch(a, t, b, g) = Part(a, t, b, g) \o Munch(a, t, Behind(a, t, b), g)
  BY <1>7, <1>11, <1>13, <1>14
<1>16. Munch(a, t, m, g) = <<>>
  BY <1>7, <1>10, <1>12
<1> QED
  BY <1>2, <1>7, <1>9, <1>15, <1>16

-----------------------------------------------------------------------------
(* Then the automaton: its states stand for the sets of nodes they were    *)
(* created from, so that a scan meets what the text leads to.              *)
(* The states of a machine stand for sets of nodes of the Nfa: a state     *)
(* accepts with the type of its set, and a character leads to what its set *)
(* reads it into.                                                          *)
Simulates(a, m, set) ==
  /\ IsNfa(a) /\ m.count > 0
  /\ set[0] = Closure(a, {a.start})
  /\ \A k \in 0 .. m.count - 1 :
       /\ m.type[k] = TypeOf(a, set[k])
       /\ \A c \in 0 .. Wide - 1 :
            Closure(a, Reading(a, set[k], c)) =
              IF m.next[k][c] = -1 THEN {} ELSE set[m.next[k][c]]

Sets == [k \in 0 .. Len(id_map) - 1 |-> id_map[k + 1]]

LEMMA BuiltSimulates ==
  ASSUME BuildInv, SymbolsOf(nfa) \subseteq Codes, pc = "built"
  PROVE  Simulates(nfa, StdMachine(nodes), Sets)
<1>1. /\ IsNfa(nfa) /\ nodes \in Seq(Node) /\ id_map \in Seq(SUBSET nfa.ids)
      /\ Len(nodes) = Len(id_map) /\ nodes # <<>> /\ dfa_queue = <<>>
  BY DEF BuildInv, BuildTyped, Loops
<1>2. PICK n : n = Len(nodes)
  OBVIOUS
<1>3. n \in Nat /\ n > 0 /\ \A k \in 1 .. n : nodes[k] \in Node /\ id_map[k] \in SUBSET nfa.ids
  BY <1>1, <1>2, ElementOfSeq
<1>4. ASSUME NEW k \in 0 .. n - 1
      PROVE  k \in dfa_mark \ Expanding
  <2>1. Expanding = {}
    BY <1>1 DEF Expanding
  <2> QED
    BY <1>1, <1>2, <2>1 DEF BuildInv, Loops, Ids
<1>5. \A k \in 0 .. n - 1 : Sets[k] = id_map[k + 1]
  BY <1>1, <1>2 DEF Sets
<1>6. IsClosure(nfa, id_map[1], {nfa.start}) /\ \A k \in 1 .. n : nodes[k].type = TypeOf(nfa, id_map[k])
  BY <1>1, <1>2 DEF BuildInv, Subsets, Typed
<1>7. Sets[0] = Closure(nfa, {nfa.start})
  <2>1. id_map[1] \in SUBSET nfa.ids /\ Sets[0] = id_map[1]
    BY <1>3, <1>5
  <2>2. {nfa.start} \in SUBSET nfa.ids
    BY <1>1 DEF IsNfa
  <2> QED
    BY <1>1, <1>6, <2>1, <2>2, ClosureIs
<1>8. ASSUME NEW k \in 0 .. n - 1, NEW c
      PROVE  Closure(nfa, Reading(nfa, Sets[k], c)) =
               IF EdgeOf(nodes[k + 1], c) = -1 THEN {} ELSE Sets[EdgeOf(nodes[k + 1], c)]
  <2>1. k + 1 \in 1 .. n
    BY <1>3
  <2>2. nodes[k + 1].next \in [SymbolsOf(nfa) -> {NoNode} \cup Nat]
    BY <1>3, <2>1 DEF Node, NodeOf
  <2>3. Sets[k] = id_map[k + 1] /\ id_map[k + 1] \in SUBSET nfa.ids
    BY <1>3, <1>5, <2>1
  <2> PICK to : to = EdgeOf(nodes[k + 1], c)
    OBVIOUS
  <2>4. CASE c \notin SymbolsOf(nfa)
    <3>1. to = -1
      BY <2>2, <2>4 DEF EdgeOf, Edges, NoState
    <3>2. Reading(nfa, Sets[k], c) = {}
      BY <1>1, <2>4, ReadingIs
    <3> QED
      BY <1>1, <3>1, <3>2, ClosureOfNone
  <2>5. CASE c \in SymbolsOf(nfa)
    <3>1. to = nodes[k + 1].next[c] /\ to \in {NoNode} \cup Nat
      BY <2>2, <2>5 DEF EdgeOf, Edges, NoState, NoNode
    <3>2. Exact(nfa, nodes, id_map, k, c)
      BY <1>4, <2>5 DEF BuildInv, EdgesOK
    <3> PICK read : read = Reading(nfa, Sets[k], c)
      OBVIOUS
    <3>3. read = Move(nfa, id_map[k + 1], c) /\ read \in SUBSET nfa.ids
      BY <1>1, <2>3, <2>5, ReadingIs
    <3>4. CASE to = NoNode
      <4>1. read = {}
        BY <3>1, <3>2, <3>3, <3>4 DEF Exact
      <4> QED
        BY <1>1, <3>4, <4>1, ClosureOfNone DEF NoNode
    <3>5. CASE to # NoNode
      <4>1. to + 1 \in 1 .. n /\ IsClosure(nfa, id_map[to + 1], read)
        BY <1>1, <1>2, <3>1, <3>2, <3>3, <3>5 DEF Exact
      <4>2. to \in 0 .. n - 1 /\ to # -1
        BY <1>3, <3>1, <3>5, <4>1 DEF NoNode
      <4>3. id_map[to + 1] \in SUBSET nfa.ids /\ Sets[to] = id_map[to + 1]
        BY <1>3, <1>5, <4>1, <4>2
      <4>4. Closure(nfa, read) = Sets[to]
        BY <1>1, <3>3, <4>1, <4>3, ClosureIs
      <4> QED
        BY <4>2, <4>4
    <3> QED
      BY <3>4, <3>5
  <2> QED
    BY <2>4, <2>5
<1> PICK ns : ns = nodes
  OBVIOUS
<1> DEFINE type == [k \in 0 .. n - 1 |-> ns[k + 1].type]
           next == [k \in 0 .. n - 1 |-> [c \in Codes |-> EdgeOf(ns[k + 1], c)]]
<1>9. StdMachine(ns) = [count |-> n, type |-> type, next |-> next]
  BY <1>2 DEF StdMachine
<1>10. \A k \in 0 .. n - 1 : type[k] = TypeOf(nfa, Sets[k])
  BY <1>3, <1>5, <1>6
<1>11. \A k \in 0 .. n - 1 : \A c \in 0 .. Wide - 1 : next[k][c] = EdgeOf(nodes[k + 1], c)
  BY PatternsAssumption DEF Codes
<1> HIDE DEF type, next
<1>12. PICK m : m = StdMachine(nodes)
  OBVIOUS
<1>13. m.count = n /\ m.type = type /\ m.next = next
  BY <1>9, <1>12
<1>14. \A k \in 0 .. m.count - 1 : \A c \in 0 .. Wide - 1 :
         Closure(nfa, Reading(nfa, Sets[k], c)) = IF m.next[k][c] = -1 THEN {} ELSE Sets[m.next[k][c]]
  BY <1>8, <1>11, <1>13
<1> QED
  BY <1>1, <1>3, <1>7, <1>10, <1>12, <1>13, <1>14 DEF Simulates

-----------------------------------------------------------------------------
(* One round of a scan from b, at position n in state s: the state stands  *)
(* for the nodes met, and is accepting as the text is.                     *)
LEMMA RoundIs ==
  ASSUME NEW a, NEW m, NEW set, Simulates(a, m, set), IsMachine(m),
         NEW t, t \in Seq(Nat), NEW b \in 0 .. Len(t), NEW n \in b .. Len(t),
         NEW s \in 0 .. m.count - 1, set[s] = Met(a, t, b)[n]
  PROVE  /\ m.type[s] = Accepts(a, t, b)[n] /\ m.type[s] \in Int
         /\ n < Len(t) =>
              LET to == m.next[s][t[n + 1] % Wide]
              IN  /\ to = -1 \/ to \in 0 .. m.count - 1
                  /\ to # -1 => set[to] = Met(a, t, b)[n + 1]
                  /\ to = -1 => \A e \in n + 1 .. Len(t) : Accepts(a, t, b)[e] = -1
<1>1. IsNfa(a) /\ Len(t) \in Nat /\ b \in Nat /\ n \in Nat
  BY DEF Simulates
<1> PICK met : met = Met(a, t, b)
  OBVIOUS
<1> PICK ty : ty = Accepts(a, t, b)
  OBVIOUS
<1>2. Steps(met, a, t, b, Len(t))
  BY <1>1, MetIs
<1>3. /\ ty[n] = TypeOf(a, met[n]) /\ ty \in [b .. Len(t) -> Int]
      /\ \A e, f \in b .. Len(t) : met[e] = {} /\ e <= f => ty[f] = -1
  <2>1. Typing(a, met, ty, b, Len(t))
    BY <1>1, AcceptsIs
  <2> QED
    BY <2>1 DEF Typing
<1>4. m.type[s] = ty[n] /\ ty[n] \in Int
  BY <1>3 DEF Simulates
<1>5. ASSUME n < Len(t), NEW to, to = m.next[s][t[n + 1] % Wide]
      PROVE  /\ to = -1 \/ to \in 0 .. m.count - 1
             /\ to # -1 => set[to] = met[n + 1]
             /\ to = -1 => \A e \in n + 1 .. Len(t) : ty[e] = -1
  <2>1. n + 1 \in 1 .. Len(t) /\ n + 1 \in b .. Len(t) /\ n + 1 \in b + 1 .. Len(t)
    BY <1>1, <1>5
  <2>2. PICK c \in 0 .. Wide - 1 : c = t[n + 1] % Wide
    <3>1. t[n + 1] \in Nat /\ Wide \in Nat \ {0}
      BY <2>1, WideAssumption, ElementOfSeq
    <3> QED
      BY <3>1
  <2>3. met[n + 1] = Closure(a, Reading(a, met[n], c))
    <3>1. n + 1 - 1 = n
      BY <1>1
    <3> QED
      BY <1>2, <2>1, <2>2, <3>1 DEF Steps
  <2>4. met[n + 1] = IF to = -1 THEN {} ELSE set[to]
    BY <1>5, <2>2, <2>3 DEF Simulates
  <2>5. to \in -1 .. m.count - 1 /\ m.count \in Nat
    BY <1>5, <2>2 DEF IsMachine
  <2>6. to = -1 => \A e \in n + 1 .. Len(t) : ty[e] = -1
    <3>1. \A e \in n + 1 .. Len(t) : e \in b .. Len(t) /\ n + 1 <= e
      BY <2>1
    <3> QED
      BY <1>3, <2>1, <2>4, <3>1
  <2> QED
    BY <2>4, <2>5, <2>6
<1> QED
  BY <1>4, <1>5

LEMMA LatestExists ==
  ASSUME NEW ty, NEW b \in Nat, NEW n \in Nat
  PROVE  \E pos, type : Latest(ty, b, n, pos, type)
<1> PICK H : H = Hits(ty, b, n)
  OBVIOUS
<1>1. H \in SUBSET Nat /\ IsFiniteSet(H)
  <2>1. b \in Int /\ n - 1 \in Int /\ b .. n - 1 \subseteq Nat /\ H \subseteq b .. n - 1
    BY DEF Hits
  <2>2. IsFiniteSet(b .. n - 1)
    BY <2>1, FS_Interval
  <2> QED
    BY <2>1, <2>2, FS_Subset
<1>2. CASE H = {}
  <2>1. ~(0 > 0)
    OBVIOUS
  <2>2. Latest(ty, b, n, 0, 0)
    BY <1>2, <2>1 DEF Latest
  <2> QED
    BY <2>2
<1>3. CASE H # {}
  <2>1. PICK pos \in H : \A e \in H : e <= pos
    BY <1>1, <1>3, Greatest
  <2>2. Latest(ty, b, n, pos, ty[pos])
    BY <1>3, <2>1 DEF Latest
  <2> QED
    BY <2>2
<1> QED
  BY <1>2, <1>3

(* The sets of a scan are of positions of the text. *)
LEMMA SureFits ==
  ASSUME NEW a, NEW t, Plain(a, t), NEW b \in 0 .. Len(t), NEW n \in b .. Len(t) + 1,
         NEW ty, ty = Accepts(a, t, b)
  PROVE  /\ b \in Nat /\ n \in Nat
         /\ \A e \in b .. Len(t) : ty[e] \in Int
         /\ Sure(ty, b, n) \subseteq b .. Len(t) /\ IsFiniteSet(Sure(ty, b, n))
         /\ Line(ty, b, Sure(ty, b, n)) \in Seq(PlainRecord)
<1>1. IsNfa(a) /\ Len(t) \in Nat
  BY DEF Plain
<1>2. ty \in [b .. Len(t) -> Int]
  BY <1>1, AcceptsIs DEF Typing
<1> PICK S : S = Sure(ty, b, n)
  OBVIOUS
<1>3. S \subseteq b .. Len(t)
  <2>1. ASSUME NEW e \in S PROVE e \in b .. Len(t)
    <3>1. e \in b .. n - 1
      BY DEF Sure, Hits
    <3> QED
      BY <1>1, <3>1
  <2> QED
    BY <2>1
<1>4. IsFiniteSet(S) /\ S \subseteq Nat
  <2>1. b \in Int /\ Len(t) \in Int /\ b .. Len(t) \subseteq Nat
    BY <1>1
  <2>2. IsFiniteSet(b .. Len(t))
    BY <2>1, FS_Interval
  <2> QED
    BY <1>3, <2>1, <2>2, FS_Subset
<1>5. \A e \in S : ty[e] \in Int
  BY <1>2, <1>3
<1>6. b \in Nat
  BY <1>1
<1>7. Line(ty, b, S) \in Seq(PlainRecord)
  BY <1>4, <1>5, <1>6, LineIs
<1> QED
  BY <1>1, <1>2, <1>3, <1>4, <1>6, <1>7

(* A list that begins another one.                                         *)
Leads(s, r) == \E Q \in Seq(PlainRecord) : r = s \o Q

(* What is sure is the beginning of the cuts, and the last of them ends    *)
(* at or behind every position at which the text is accepted.              *)
LEMMA CutsPrefix ==
  ASSUME NEW a, NEW t, Plain(a, t), NEW b \in 0 .. Len(t), NEW n \in b .. Len(t) + 1,
         NEW ty, ty = Accepts(a, t, b)
  PROVE  Leads(Line(ty, b, Sure(ty, b, n)), Cuts(a, t, b))
<1> PICK m : m = Len(t) + 1
  OBVIOUS
<1> PICK cuts : cuts = Cuts(a, t, b)
  OBVIOUS
<1> DEFINE line(k) == Line(ty, b, Sure(ty, b, k))
           Ok(k) == \E Q \in Seq(PlainRecord) : cuts = line(k) \o Q
           Bad == { k \in 0 .. m - b : ~Ok(m - k) }
<1>1. IsNfa(a) /\ Len(t) \in Nat /\ m \in Nat /\ b \in Nat /\ b <= m /\ cuts \in Seq(PlainRecord)
  BY CutsFit DEF Plain
<1>2. \A k \in b .. m : line(k) \in Seq(PlainRecord)
  BY SureFits
<1>3. Ok(m)
  <2>1. PICK pos, type : Latest(ty, b, m, pos, type)
    BY <1>1, LatestExists
  <2> PICK l : l = line(m)
    OBVIOUS
  <2>2. l \in Seq(PlainRecord)
    BY <1>1, <1>2
  <2>3. CASE type > 0
    <3>1. cuts = Append(l, Mat(ty, b, pos))
      BY <1>1, <2>1, <2>3, CutsAre
    <3>2. pos \in b .. Len(t) /\ ty[pos] \in Int
      <4>1. pos \in Hits(ty, b, m)
        BY <2>1, <2>3 DEF Latest
      <4>2. pos \in b .. Len(t)
        BY <1>1, <4>1 DEF Hits
      <4>3. m \in b .. Len(t) + 1
        BY <1>1
      <4> QED
        BY <4>2, <4>3, SureFits
    <3>3. Mat(ty, b, pos) \in PlainRecord
      BY <1>1, <3>2 DEF Mat, PlainRecord
    <3>4. cuts = l \o <<Mat(ty, b, pos)>>
      BY <2>2, <3>1, <3>3, AppendIsConcat
    <3>5. <<Mat(ty, b, pos)>> \in Seq(PlainRecord)
      BY <3>3
    <3> QED
      BY <3>4, <3>5
  <2>4. CASE ~(type > 0)
    <3>1. cuts = <<>>
      BY <1>1, <2>1, <2>4, CutsAre
    <3>2. Hits(ty, b, m) = {}
      <4> SUFFICES ASSUME Hits(ty, b, m) # {} PROVE FALSE
        OBVIOUS
      <4>1. type = ty[pos] /\ pos \in Hits(ty, b, m)
        BY <2>1 DEF Latest
      <4> QED
        BY <2>4, <4>1 DEF Hits
    <3>3. Sure(ty, b, m) = {}
      BY <3>2 DEF Sure
    <3>4. l = <<>>
      <4>1. Cardinality({}) = 0
        BY FS_EmptySet
      <4>2. Line(ty, b, {}) = <<>>
        BY <4>1 DEF Line
      <4> QED
        BY <3>3, <4>2
    <3>5. <<>> \in Seq(PlainRecord) /\ <<>> \o <<>> = <<>>
      OBVIOUS
    <3> QED
      BY <3>1, <3>4, <3>5
  <2> QED
    BY <2>3, <2>4
<1>4. ASSUME NEW k \in b .. m - 1, Ok(k + 1)
      PROVE  Ok(k)
  <2>1. k \in Nat /\ b <= k /\ k \in b .. m /\ k + 1 \in b .. m /\ k \in b .. Len(t)
    BY <1>1
  <2>2. PICK pos, type : Latest(ty, b, k, pos, type)
    BY <1>1, <2>1, LatestExists
  <2>3. \A e \in b .. k : ty[e] \in Int
    <3>1. \A e \in b .. Len(t) : ty[e] \in Int
      BY <1>1, <2>1, SureFits
    <3> QED
      BY <1>1, <2>1, <3>1
  <2> PICK S : S = Sure(ty, b, k)
    OBVIOUS
  <2>4. /\ Sure(ty, b, k + 1) = IF ty[k] > 0 /\ type > 0 /\ type # ty[k] THEN S \cup {pos} ELSE S
        /\ type > 0 => pos \in b .. k - 1 /\ \A e \in S : e < pos
    <3>1. /\ Sure(ty, b, k + 1) = IF ty[k] > 0 /\ type > 0 /\ type # ty[k]
                                  THEN Sure(ty, b, k) \cup {pos} ELSE Sure(ty, b, k)
          /\ type > 0 => pos \in b .. k - 1 /\ \A e \in Sure(ty, b, k) : e < pos
      <4>1. b \in Nat /\ k \in Nat /\ b <= k
        BY <1>1, <2>1
      <4> HIDE DEF line, Ok, Bad
      <4> QED
        BY <2>2, <2>3, <4>1, SureNext
    <3> QED
      BY <3>1
  <2>5. PICK Q \in Seq(PlainRecord) : cuts = line(k + 1) \o Q
    BY <1>4
  <2>6. CASE ~(ty[k] > 0 /\ type > 0 /\ type # ty[k])
    BY <2>4, <2>5, <2>6
  <2>7. CASE ty[k] > 0 /\ type > 0 /\ type # ty[k]
    <3>1. pos \in b .. k - 1 /\ (\A e \in S : e < pos) /\ Sure(ty, b, k + 1) = S \cup {pos}
      BY <2>4, <2>7
    <3>2. pos \in Int /\ S \subseteq Int /\ IsFiniteSet(S)
      <4>1. S \subseteq b .. Len(t) /\ IsFiniteSet(S)
        BY <1>1, <2>1, SureFits
      <4> QED
        BY <1>1, <3>1, <4>1
    <3> PICK x : x = Mat(ty, b, pos)
      OBVIOUS
    <3> PICK l : l = line(k)
      OBVIOUS
    <3>3. Line(ty, b, S \cup {pos}) = Append(Line(ty, b, S), Mat(ty, b, pos))
      <4>1. \A U, y : U \subseteq Int /\ IsFiniteSet(U) /\ y \in Int /\ (\A z \in U : z < y) =>
              Line(ty, b, U \cup {y}) = Append(Line(ty, b, U), Mat(ty, b, y))
        BY LineAppend
      <4> QED
        BY <3>1, <3>2, <4>1
    <3>4. x \in PlainRecord
      <4>1. pos \in b .. k /\ pos \in Nat
        BY <1>1, <2>1, <3>1
      <4>2. ty[pos] \in Int
        BY <2>3, <4>1
      <4> QED
        BY <1>1, <4>1, <4>2 DEF Mat, PlainRecord
    <3>5. l \in Seq(PlainRecord) /\ <<x>> \in Seq(PlainRecord)
      BY <1>2, <2>1, <3>4
    <3>6. line(k + 1) = Append(l, x)
      BY <3>1, <3>3
    <3> HIDE DEF line
    <3>7. line(k + 1) = l \o <<x>>
      BY <3>4, <3>5, <3>6, AppendIsConcat
    <3>8. cuts = l \o (<<x>> \o Q)
      <4>1. cuts = (l \o <<x>>) \o Q
        BY <2>5, <3>7
      <4>2. (l \o <<x>>) \o Q = l \o (<<x>> \o Q)
        BY <3>5, ConcatAssociative
      <4> QED
        BY <4>1, <4>2
    <3>9. <<x>> \o Q \in Seq(PlainRecord)
      BY <3>5, ConcatProperties
    <3> QED
      BY <3>8, <3>9
  <2> QED
    BY <2>6, <2>7
<1> HIDE DEF Ok
<1>5. Bad = {}
  <2> SUFFICES ASSUME Bad # {} PROVE FALSE
    OBVIOUS
  <2>1. PICK k \in Bad : \A z \in Bad : << z, k >> \notin OpToRel(<, Nat)
    <3>1. Bad \subseteq Nat
      OBVIOUS
    <3> QED
      BY <3>1, NatLessThanWellFounded, WFMin
  <2>2. m - 0 = m
    BY <1>1
  <2>3. k \in 0 .. m - b /\ k # 0 /\ ~Ok(m - k)
    BY <1>3, <2>2
  <2>4. /\ k - 1 \in 0 .. m - b /\ k - 1 \in Nat /\ k - 1 < k /\ k \in Nat
        /\ m - k \in b .. m - 1 /\ m - (k - 1) = m - k + 1
    BY <1>1, <2>3
  <2>5. Ok(m - k + 1)
    BY <2>1, <2>4 DEF OpToRel
  <2> QED
    BY <1>4, <2>3, <2>4, <2>5
<1>6. Ok(n)
  <2>1. m - n \in 0 .. m - b /\ m - (m - n) = n
    BY <1>1
  <2> QED
    BY <1>5, <2>1
<1> QED
  BY <1>6 DEF Ok, Leads

LEMMA LastBeyond ==
  ASSUME NEW a, NEW t, Plain(a, t), NEW b \in 0 .. Len(t),
         NEW ty, ty = Accepts(a, t, b), NEW e \in b .. Len(t), ty[e] > 0
  PROVE  Cuts(a, t, b) # <<>> /\ e <= Last(Cuts(a, t, b)).end
<1> PICK m : m = Len(t) + 1
  OBVIOUS
<1> PICK cuts : cuts = Cuts(a, t, b)
  OBVIOUS
<1>1. IsNfa(a) /\ Len(t) \in Nat /\ m \in Nat /\ b \in Nat /\ m \in b .. Len(t) + 1
  BY DEF Plain
<1>2. PICK pos, type : Latest(ty, b, m, pos, type)
  BY <1>1, LatestExists
<1>3. e \in Hits(ty, b, m)
  BY <1>1 DEF Hits
<1>4. pos \in Hits(ty, b, m) /\ type = ty[pos] /\ e <= pos
  BY <1>2, <1>3 DEF Latest
<1>5. type > 0 /\ pos \in b .. Len(t)
  BY <1>1, <1>4 DEF Hits
<1> PICK l : l = Line(ty, b, Sure(ty, b, m))
  OBVIOUS
<1>6. l \in Seq(PlainRecord) /\ ty[pos] \in Int
  BY <1>1, <1>5, SureFits
<1> PICK x : x = Mat(ty, b, pos)
  OBVIOUS
<1>7. cuts = Append(l, x)
  BY <1>1, <1>2, <1>5, CutsAre
<1>8. x \in PlainRecord /\ x.end = pos
  BY <1>1, <1>5, <1>6 DEF Mat, PlainRecord
<1>9. cuts # <<>> /\ Len(cuts) = Len(l) + 1 /\ cuts[Len(l) + 1] = x
  BY <1>6, <1>7, <1>8, AppendProperties
<1>10. Last(cuts) = x
  BY <1>9 DEF Last
<1> QED
  BY <1>4, <1>8, <1>9, <1>10

-----------------------------------------------------------------------------
(* The scan of one position (Track), round by round.                       *)
Ready == machine.count > 0 => Simulates(nfa, machine, Sets)

Filled == Buffered /\ Len(result) >= Hold

Accepted == Accepts(nfa, text, i)
LineTo(n) == Line(Accepted, i, Sure(Accepted, i, n))
End == Len(text) + 1

(* The scan meets the nodes the text leads to, and the last accepting      *)
(* state is the last position at which the text was accepted; a scan that  *)
(* was left early has filled the buffer.                                   *)
Track ==
  /\ phase = "scan" => /\ Sets[state] = Met(nfa, text, i)[j]
                       /\ Latest(Accepted, i, j, pre_match_pos, pre_match_type)
  /\ phase = "finish" => \/ Filled
                         \/ Latest(Accepted, i, End, pre_match_pos, pre_match_type)
  /\ phase \in {"begin", "scan", "finish"} => i <= Len(text)
  /\ phase \in {"scan", "finish"} /\ ~Prefix => i < Len(text)

LEMMA Searching ==
  ASSUME Where, Ready, Going
  PROVE  /\ Simulates(nfa, machine, Sets) /\ Plain(nfa, text) /\ IsMachine(machine)
         /\ text \in Seq(Nat) /\ Len(text) \in Nat /\ i \in Nat /\ j \in Nat /\ state \in Nat
         /\ End \in Nat /\ End = Len(text) + 1
<1>1. /\ machine.count > 0 /\ machine.type[0] <= 0 /\ IsMachine(machine)
      /\ text \in Seq(Nat) /\ i \in Nat /\ j \in Nat /\ state \in Nat
  BY DEF Where, CallOK, ScanTyped
<1>2. Len(text) \in Nat
  BY <1>1
<1>3. Simulates(nfa, machine, Sets)
  BY <1>1 DEF Ready
<1>4. 0 \in 0 .. machine.count - 1
  BY <1>1 DEF IsMachine
<1>5. machine.type[0] = TypeOf(nfa, Closure(nfa, {nfa.start}))
  BY <1>3, <1>4 DEF Simulates
<1>6. machine.type[0] \in Int
  BY <1>1, <1>4 DEF IsMachine
<1>7. ~(machine.type[0] > 0)
  BY <1>1, <1>6
<1>8. Plain(nfa, text)
  BY <1>2, <1>3, <1>5, <1>7 DEF Plain, Simulates
<1> QED
  BY <1>1, <1>2, <1>3, <1>8 DEF End

(* One round of the inner loop, before anything is reported.               *)
Pos  == IF Hit THEN j ELSE pre_match_pos
Type == IF Hit THEN machine.type[state] ELSE pre_match_type

LEMMA ScanFacts ==
  ASSUME Where, Ready, Track, phase = "scan"
  PROVE  /\ i \in 0 .. Len(text) /\ j \in i .. Len(text) /\ j + 1 \in i .. End
         /\ j \in i .. End
         /\ Latest(Accepted, i, j + 1, Pos, Type)
         /\ LineTo(j + 1) = IF Changed THEN Append(LineTo(j), Match) ELSE LineTo(j)
         /\ Changed => /\ pre_match_pos \in i .. j - 1 /\ Match \in PlainRecord
                       /\ Accepted[j] > 0
         /\ Target = -1 => /\ Latest(Accepted, i, End, Pos, Type)
                           /\ LineTo(End) = LineTo(j + 1)
         /\ Target # -1 => /\ j < Len(text)
                           /\ Sets[Target] = Met(nfa, text, i)[j + 1]
<1>1. /\ Simulates(nfa, machine, Sets) /\ Plain(nfa, text) /\ IsMachine(machine)
      /\ text \in Seq(Nat) /\ Len(text) \in Nat /\ i \in Nat /\ j \in Nat /\ state \in Nat
      /\ End = Len(text) + 1
  BY Searching DEF Going
<1>2. i <= j /\ j <= Len(text) /\ state < machine.count /\ machine.count \in Nat
  BY <1>1 DEF Where, ScanOK, IsMachine
<1>3. /\ i \in 0 .. Len(text) /\ j \in i .. Len(text) /\ j + 1 \in i .. End /\ j \in i .. End
      /\ state \in 0 .. machine.count - 1
  BY <1>1, <1>2
<1> PICK ty : ty = Accepted
  OBVIOUS
<1> PICK met : met = Met(nfa, text, i)
  OBVIOUS
<1>4. Sets[state] = met[j] /\ Latest(ty, i, j, pre_match_pos, pre_match_type)
  BY DEF Track
<1>5. /\ machine.type[state] = ty[j] /\ machine.type[state] \in Int
      /\ j < Len(text) =>
           LET to == machine.next[state][text[j + 1] % Wide]
           IN  /\ to = -1 \/ to \in 0 .. machine.count - 1
               /\ to # -1 => Sets[to] = met[j + 1]
               /\ to = -1 => \A e \in j + 1 .. Len(text) : ty[e] = -1
  BY <1>1, <1>3, <1>4, RoundIs DEF Accepted
<1>6. \A e \in i .. Len(text) : ty[e] \in Int
  BY <1>1, <1>3, SureFits DEF Accepted
<1>7. (Hit <=> ty[j] > 0) /\ Pos = (IF ty[j] > 0 THEN j ELSE pre_match_pos)
      /\ Type = IF ty[j] > 0 THEN ty[j] ELSE pre_match_type
  BY <1>5 DEF Hit, Pos, Type
<1>8. Changed <=> ty[j] > 0 /\ pre_match_type > 0 /\ pre_match_type # ty[j]
  BY <1>5, <1>7 DEF Changed
<1>9. /\ Latest(ty, i, j + 1, Pos, Type)
      /\ Sure(ty, i, j + 1) = IF Changed THEN Sure(ty, i, j) \cup {pre_match_pos}
                                         ELSE Sure(ty, i, j)
      /\ pre_match_type > 0 => /\ pre_match_pos \in i .. j - 1
                               /\ \A e \in Sure(ty, i, j) : e < pre_match_pos
  <2>1. \A e \in i .. j : ty[e] \in Int
    <3>1. \A e \in i .. j : e \in i .. Len(text)
      BY <1>1, <1>2
    <3> QED
      BY <1>6, <3>1
  <2>2. /\ Latest(ty, i, j + 1, IF ty[j] > 0 THEN j ELSE pre_match_pos,
                                IF ty[j] > 0 THEN ty[j] ELSE pre_match_type)
        /\ Sure(ty, i, j + 1) = IF ty[j] > 0 /\ pre_match_type > 0 /\ pre_match_type # ty[j]
                                THEN Sure(ty, i, j) \cup {pre_match_pos} ELSE Sure(ty, i, j)
        /\ pre_match_type > 0 => /\ pre_match_pos \in i .. j - 1
                                 /\ \A e \in Sure(ty, i, j) : e < pre_match_pos
    <3>1. i \in Nat /\ j \in Nat /\ i <= j
      BY <1>1, <1>2
    <3>2. Latest(ty, i, j, pre_match_pos, pre_match_type)
      BY <1>4
    <3> QED
      BY ONLY <2>1, <3>1, <3>2, SureNext
  <2> QED
    BY <1>7, <1>8, <2>2
<1>10. Changed => /\ pre_match_pos \in i .. j - 1 /\ Match \in PlainRecord
                  /\ Match = Mat(ty, i, pre_match_pos) /\ ty[j] > 0
  <2> SUFFICES ASSUME Changed
               PROVE  /\ pre_match_pos \in i .. j - 1 /\ Match \in PlainRecord
                      /\ Match = Mat(ty, i, pre_match_pos)
    BY <1>8
  <2>1. pre_match_pos \in i .. j - 1
    BY <1>8, <1>9
  <2>2. pre_match_type = ty[pre_match_pos]
    <3>1. Hits(ty, i, j) # {}
      BY <1>4, <1>8 DEF Latest
    <3> QED
      BY <1>4, <3>1 DEF Latest
  <2>3. pre_match_pos \in Nat /\ ty[pre_match_pos] \in Int
    <3>1. pre_match_pos \in i .. Len(text)
      BY <1>1, <1>2, <2>1
    <3> QED
      BY <1>1, <1>6, <3>1
  <2> QED
    BY <1>1, <2>1, <2>2, <2>3 DEF Match, Mat, PlainRecord
<1>11. LineTo(j + 1) = IF Changed THEN Append(LineTo(j), Match) ELSE LineTo(j)
  <2>1. CASE ~Changed
    BY <1>9, <2>1 DEF LineTo
  <2>2. CASE Changed
    <3> PICK S : S = Sure(ty, i, j)
      OBVIOUS
    <3>1. S \subseteq Int /\ IsFiniteSet(S)
      <4>1. S \subseteq i .. Len(text) /\ IsFiniteSet(S)
        BY <1>1, <1>3, SureFits DEF Accepted
      <4> QED
        BY <1>1, <4>1
    <3>2. pre_match_pos \in Int /\ \A e \in S : e < pre_match_pos
      BY <1>1, <1>8, <1>9, <1>10, <2>2
    <3>3. \A U, y : U \subseteq Int /\ IsFiniteSet(U) /\ y \in Int /\ (\A z \in U : z < y) =>
            Line(ty, i, U \cup {y}) = Append(Line(ty, i, U), Mat(ty, i, y))
      BY LineAppend
    <3>4. Line(ty, i, S \cup {pre_match_pos}) = Append(Line(ty, i, S), Match)
      BY <1>10, <2>2, <3>1, <3>2, <3>3
    <3> QED
      BY <1>9, <2>2, <3>4 DEF LineTo
  <2> QED
    BY <2>1, <2>2
<1>12. ASSUME Target = -1
       PROVE  Latest(ty, i, End, Pos, Type) /\ LineTo(End) = LineTo(j + 1)
  <2>1. \A e \in j + 1 .. Len(text) : ty[e] = -1
    BY <1>1, <1>2, <1>5, <1>12 DEF Target
  <2>2. Hits(ty, i, End) = Hits(ty, i, j + 1)
    <3>1. ASSUME NEW e \in Hits(ty, i, End) PROVE e \in Hits(ty, i, j + 1)
      <4>1. e \in i .. Len(text) /\ ty[e] > 0
        BY <1>1 DEF Hits
      <4>2. ~(e \in j + 1 .. Len(text))
        BY <2>1, <4>1
      <4>3. e \in i .. j + 1 - 1
        BY <1>1, <4>1, <4>2
      <4> QED
        BY <1>1, <4>1, <4>3 DEF Hits
    <3>2. ASSUME NEW e \in Hits(ty, i, j + 1) PROVE e \in Hits(ty, i, End)
      <4>1. e \in i .. j + 1 - 1 /\ ty[e] > 0
        BY <1>1 DEF Hits
      <4>2. e \in i .. End - 1
        BY <1>1, <1>2, <4>1
      <4> QED
        BY <4>1, <4>2 DEF Hits
    <3> QED
      BY <3>1, <3>2
  <2>3. Latest(ty, i, End, Pos, Type)
    BY <1>9, <2>2 DEF Latest
  <2>4. Sure(ty, i, End) = Sure(ty, i, j + 1)
    BY <2>2 DEF Sure
  <2> QED
    BY <2>3, <2>4 DEF LineTo
<1>13. ASSUME Target # -1
       PROVE  j < Len(text) /\ Sets[Target] = met[j + 1]
  <2>1. j < Len(text)
    BY <1>13 DEF Target
  <2>2. Target = machine.next[state][text[j + 1] % Wide]
    BY <2>1 DEF Target
  <2> QED
    BY <1>5, <1>13, <2>1, <2>2
<1> QED
  BY <1>3, <1>9, <1>10, <1>11, <1>12, <1>13

(* The round after the inner loop: what is to be reported is the last cut. *)
LEMMA FinishFacts ==
  ASSUME Where, Ready, Track, phase = "finish", ~Filled
  PROVE  /\ i \in 0 .. Len(text) /\ End \in i .. End
         /\ pre_match_type > 0 =>
              /\ Cuts(nfa, text, i) = Append(LineTo(End), Match)
              /\ Match \in PlainRecord /\ pre_match_pos \in i + 1 .. Len(text)
         /\ ~(pre_match_type > 0) => Cuts(nfa, text, i) = <<>> /\ LineTo(End) = <<>>
<1>1. /\ Plain(nfa, text) /\ IsNfa(nfa) /\ Len(text) \in Nat /\ i \in Nat
      /\ End = Len(text) + 1
  BY Searching DEF Going, Plain
<1>2. i <= Len(text) /\ Latest(Accepted, i, End, pre_match_pos, pre_match_type)
  BY DEF Track
<1>3. i \in 0 .. Len(text) /\ End \in i .. End
  BY <1>1, <1>2
<1> PICK ty : ty = Accepted
  OBVIOUS
<1>4. /\ ~(pre_match_type > 0) => Cuts(nfa, text, i) = <<>>
      /\ pre_match_type > 0 =>
           Cuts(nfa, text, i) = Append(LineTo(End), Mat(ty, i, pre_match_pos))
  BY <1>1, <1>2, <1>3, CutsAre DEF Accepted, LineTo
<1>5. ASSUME pre_match_type > 0
      PROVE  /\ Match = Mat(ty, i, pre_match_pos) /\ Match \in PlainRecord
             /\ pre_match_pos \in i + 1 .. Len(text)
  <2>1. pre_match_pos \in Hits(ty, i, End) /\ pre_match_type = ty[pre_match_pos]
    BY <1>2, <1>5 DEF Latest
  <2>2. pre_match_pos \in i .. Len(text) /\ ty[pre_match_pos] > 0
    BY <1>1, <2>1 DEF Hits
  <2>3. ty[pre_match_pos] \in Int
    <3>1. \A e \in i .. Len(text) : ty[e] \in Int
      BY <1>1, <1>3, SureFits DEF Accepted
    <3> QED
      BY <2>2, <3>1
  <2>4. i < pre_match_pos
    BY <1>5 DEF Where, LastOK
  <2> QED
    BY <1>1, <2>1, <2>2, <2>3, <2>4 DEF Match, Mat, PlainRecord
<1>6. ASSUME ~(pre_match_type > 0)
      PROVE  LineTo(End) = <<>>
  <2>1. PICK Q \in Seq(PlainRecord) : Cuts(nfa, text, i) = LineTo(End) \o Q
    <3>1. End \in i .. Len(text) + 1
      BY <1>1, <1>3
    <3>2. Leads(Line(ty, i, Sure(ty, i, End)), Cuts(nfa, text, i))
      BY <1>1, <1>3, <3>1, CutsPrefix DEF Accepted
    <3> QED
      BY <3>2 DEF LineTo, Leads
  <2>2. LineTo(End) \in Seq(PlainRecord)
    BY <1>1, <1>3, SureFits DEF Accepted, LineTo
  <2>3. LineTo(End) \o Q = <<>>
    BY <1>4, <1>6, <2>1
  <2> QED
    BY <2>1, <2>2, <2>3, ConcatSimplifications
<1> QED
  BY <1>3, <1>4, <1>5, <1>6

(* As much of a list as fits: all of it, or what fills the buffer.         *)
LEMMA FitIs ==
  ASSUME NEW S, NEW s \in Seq(S), NEW n \in Nat
  PROVE  /\ Len(s) <= n => Fit(s, n) = s
         /\ \A r, q \in Seq(S) : s = r \o q /\ Len(r) = n => Fit(s, n) = r
<1> DEFINE m == Min({Len(s), n})
<1>1. Len(s) \in Nat /\ m \in Nat /\ (Len(s) <= n => m = Len(s)) /\ (n <= Len(s) => m = n)
  <2>1. PICK l \in Nat : l = Len(s)
    OBVIOUS
  <2>2. CASE l <= n
    <3>1. \A y \in {l, n} : l <= y
      BY <2>2
    <3>2. Min({l, n}) \in {l, n} /\ \A y \in {l, n} : Min({l, n}) <= y
      BY <3>1 DEF Min
    <3>3. Min({l, n}) = l
      BY <2>2, <3>2
    <3> QED
      BY <2>1, <2>2, <3>3
  <2>3. CASE n <= l
    <3>1. \A y \in {l, n} : n <= y
      BY <2>3
    <3>2. Min({l, n}) \in {l, n} /\ \A y \in {l, n} : Min({l, n}) <= y
      BY <3>1 DEF Min
    <3>3. Min({l, n}) = n
      BY <2>3, <3>2
    <3> QED
      BY <2>1, <2>3, <3>3
  <2> QED
    BY <2>1, <2>2, <2>3
<1> HIDE DEF m
<1>2. Fit(s, n) = SubSeq(s, 1, m)
  BY DEF Fit, m
<1>3. ASSUME Len(s) <= n PROVE Fit(s, n) = s
  BY <1>1, <1>2, <1>3, SubSeqFull
<1>4. ASSUME NEW r \in Seq(S), NEW q \in Seq(S), s = r \o q, Len(r) = n
      PROVE  Fit(s, n) = r
  <2>1. /\ Len(s) = Len(r) + Len(q) /\ Len(q) \in Nat
        /\ \A k \in 1 .. Len(r) + Len(q) : s[k] = IF k <= Len(r) THEN r[k] ELSE q[k - Len(r)]
    BY <1>4, ConcatProperties
  <2>2. m = n /\ n <= Len(s)
    BY <1>1, <1>4, <2>1
  <2>3. Fit(s, n) = [k \in 1 .. n |-> s[k]]
    BY <1>2, <2>2
  <2>4. r = [k \in 1 .. n |-> r[k]]
    BY <1>4
  <2>5. \A k \in 1 .. n : s[k] = r[k]
    BY <1>4, <2>1
  <2> QED
    BY <2>3, <2>4, <2>5
<1> QED
  BY <1>3, <1>4

(* A scan from the first state. *)
LEMMA ScanStarts ==
  ASSUME NEW a, NEW t, Plain(a, t), NEW m, NEW set, Simulates(a, m, set),
         NEW b \in 0 .. Len(t), NEW ty, NEW pos
  PROVE  /\ set[0] = Met(a, t, b)[b]
         /\ Latest(ty, b, b, pos, -1)
         /\ Line(ty, b, Sure(ty, b, b)) = <<>>
<1>1. IsNfa(a) /\ Len(t) \in Nat /\ b \in Nat
  BY DEF Plain
<1>2. set[0] = Met(a, t, b)[b]
  BY <1>1, MetIs DEF Steps, Simulates
<1>3. Hits(ty, b, b) = {}
  <2>1. \A e \in b .. b - 1 : FALSE
    BY <1>1
  <2> QED
    BY <2>1 DEF Hits
<1>4. ~(-1 > 0)
  OBVIOUS
<1>5. Sure(ty, b, b) = {}
  BY <1>3 DEF Sure
<1>6. Cardinality({}) = 0
  BY FS_EmptySet
<1>7. Line(ty, b, {}) = <<>>
  BY <1>6 DEF Line
<1> QED
  BY <1>2, <1>3, <1>4, <1>5, <1>7 DEF Latest

-----------------------------------------------------------------------------
(* The automaton and the call stay what they are in a step of a search.    *)
Searches ==
  /\ Where /\ Ready /\ Track /\ Going
  /\ UNCHANGED <<nfa, id_map>> /\ Same

LEMMA ReadyStays ==
  ASSUME Ready, UNCHANGED <<nfa, id_map, machine>> PROVE Ready'
<1>1. Sets' = Sets
  BY DEF Sets
<1> QED
  BY <1>1 DEF Ready

LEMMA TrackBegin ==
  ASSUME Searches, ~Prefix, NEW room, NEW pos, NEW end \in {"returned", "restart"},
         Begin(room, pos, end)
  PROVE  /\ Track' /\ UNCHANGED <<i, result, start_positions>> /\ phase = "begin"
         /\ i \in 0 .. Len(text)
         /\ \/ phase' = "scan" /\ i < Len(text) /\ room /\ LineTo(j)' = <<>>
            \/ phase' = end /\ (i = Len(text) \/ ~room)
<1>1. /\ Simulates(nfa, machine, Sets) /\ Plain(nfa, text) /\ Len(text) \in Nat /\ i \in Nat
      /\ phase = "begin" /\ i <= Len(text)
  BY Searching DEF Searches, Track, Begin
<1>2. /\ UNCHANGED <<nfa, id_map, machine, text, op, cap, i, result, start_positions>>
      /\ Sets' = Sets /\ Prefix' = Prefix
  BY DEF Searches, Begin, Same, Sets, Prefix
<1>3. CASE i < Len(text) /\ room
  <2>1. /\ state' = 0 /\ j' = i /\ pre_match_pos' = pos /\ pre_match_type' = -1
        /\ phase' = "scan"
    BY <1>3 DEF Begin
  <2>2. i \in 0 .. Len(text)
    BY <1>1
  <2>3. /\ Sets[0] = Met(nfa, text, i)[i] /\ Latest(Accepted, i, i, pos, -1)
        /\ Line(Accepted, i, Sure(Accepted, i, i)) = <<>>
    BY <1>1, <2>2, ScanStarts
  <2>4. Accepted' = Accepted
    BY <1>2 DEF Accepted
  <2>5. Track'
    BY <1>1, <1>2, <1>3, <2>1, <2>3, <2>4 DEF Track
  <2>6. LineTo(j)' = <<>>
    BY <1>2, <2>1, <2>3, <2>4 DEF LineTo
  <2> QED
    BY <1>1, <1>2, <1>3, <2>1, <2>2, <2>5, <2>6
<1>4. CASE ~(i < Len(text) /\ room)
  <2>1. phase' = end
    BY <1>4 DEF Begin
  <2>2. Track'
    BY <2>1 DEF Track
  <2> QED
    BY <1>1, <1>2, <1>4, <2>1, <2>2
<1> QED
  BY <1>3, <1>4

LEMMA TrackScan ==
  ASSUME Searches, NEW when, NEW what, NEW leave, Scan(when, what, leave),
         leave => Filled'
  PROVE  /\ Track' /\ UNCHANGED i /\ phase = "scan" /\ phase' \in {"scan", "finish"}
         /\ i \in 0 .. Len(text) /\ j + 1 \in i .. End
         /\ phase' = "scan" => LineTo(j)' = LineTo(j + 1)
         /\ phase' = "finish" => Filled' \/ LineTo(End)' = LineTo(j + 1)
<1>1. /\ Simulates(nfa, machine, Sets) /\ Plain(nfa, text) /\ Len(text) \in Nat /\ i \in Nat
      /\ phase = "scan" /\ j \in Nat
  BY Searching DEF Searches, Scan
<1>2. /\ i \in 0 .. Len(text) /\ j + 1 \in i .. End
      /\ Latest(Accepted, i, j + 1, Pos, Type)
      /\ Target = -1 => Latest(Accepted, i, End, Pos, Type) /\ LineTo(End) = LineTo(j + 1)
      /\ Target # -1 => j < Len(text) /\ Sets[Target] = Met(nfa, text, i)[j + 1]
  BY <1>1, ScanFacts DEF Searches
<1>3. /\ UNCHANGED <<nfa, id_map, machine, text, op, cap, i>>
      /\ pre_match_pos' = Pos /\ pre_match_type' = Type
      /\ Sets' = Sets /\ Prefix' = Prefix /\ End' = End
  BY DEF Searches, Scan, Same, Sets, Prefix, End, Pos, Type
<1>4. Accepted' = Accepted /\ \A n : LineTo(n)' = LineTo(n)
  BY <1>3 DEF Accepted, LineTo
<1>5. i <= Len(text) /\ (~Prefix => i < Len(text))
  BY <1>1, <1>2 DEF Searches, Track
<1>6. CASE Target = -1
  <2>1. phase' = "finish"
    BY <1>6 DEF Scan, Advance
  <2>2. Track'
    BY <1>1, <1>2, <1>3, <1>4, <1>5, <1>6, <2>1 DEF Track
  <2>3. LineTo(End)' = LineTo(j + 1)
    <3>1. Accepted' = Accepted /\ i' = i /\ End' = End
      BY <1>3, <1>4
    <3>2. LineTo(End)' = LineTo(End)
      BY <3>1 DEF LineTo
    <3> QED
      BY <1>2, <1>6, <3>2
  <2> QED
    BY <1>1, <1>2, <1>3, <2>1, <2>2, <2>3
<1>7. CASE Target # -1
  <2>1. state' = Target /\ j' = j + 1 /\ phase' = IF leave THEN "finish" ELSE "scan"
    BY <1>7 DEF Scan, Advance
  <2>2. LineTo(j)' = LineTo(j + 1)
    <3>1. Accepted' = Accepted /\ i' = i
      BY <1>3, <1>4
    <3> QED
      BY <2>1, <3>1 DEF LineTo
  <2>3. Track'
    BY <1>1, <1>2, <1>3, <1>4, <1>5, <1>7, <2>1 DEF Track
  <2> QED
    BY <1>1, <1>2, <1>3, <2>1, <2>2, <2>3
<1> QED
  BY <1>6, <1>7

LEMMA TrackFinish ==
  ASSUME Searches, ~Prefix, NEW room, Finish(room)
  PROVE  Track' /\ phase = "finish" /\ phase' = "begin"
<1>1. /\ Len(text) \in Nat /\ i \in Nat /\ phase = "finish" /\ i < Len(text)
      /\ phase' = "begin" /\ text' = text
  BY Searching DEF Searches, Track, Finish, Same
<1>2. i' <= Len(text)
  <2>1. pre_match_type > 0 => pre_match_pos <= Len(text)
    BY <1>1 DEF Searches, Where, LastOK
  <2> QED
    BY <1>1, <2>1 DEF Finish
<1> QED
  BY <1>1, <1>2 DEF Track

-----------------------------------------------------------------------------
(* What a matching function has reported and the rest of the text cut are  *)
(* the text cut: one invariant for each kind of function.                  *)
LEMMA SetOf ==
  ASSUME NEW S, NEW r \in Seq(S), NEW q \in Seq(S), NEW x \in S
  PROVE  /\ ToSet(r \o q) = ToSet(r) \cup ToSet(q)
         /\ ToSet(Append(r, x)) = ToSet(r) \cup {x}
<1>1. ASSUME NEW v \in Seq(S) PROVE ToSet(r \o v) = ToSet(r) \cup ToSet(v)
  <2>1. /\ Len(r \o v) = Len(r) + Len(v) /\ Len(r) \in Nat /\ Len(v) \in Nat
        /\ r \o v \in Seq(S)
        /\ \A k \in 1 .. Len(r) + Len(v) :
             (r \o v)[k] = IF k <= Len(r) THEN r[k] ELSE v[k - Len(r)]
    BY ConcatProperties
  <2>2. /\ DOMAIN (r \o v) = 1 .. Len(r) + Len(v)
        /\ DOMAIN r = 1 .. Len(r) /\ DOMAIN v = 1 .. Len(v)
    BY <2>1
  <2>3. ASSUME NEW y \in ToSet(r \o v) PROVE y \in ToSet(r) \cup ToSet(v)
    <3>1. PICK k \in 1 .. Len(r) + Len(v) : y = (r \o v)[k]
      BY <2>2, <2>3 DEF ToSet
    <3>2. CASE k <= Len(r)
      <4>1. k \in DOMAIN r /\ y = r[k]
        BY <2>1, <2>2, <3>1, <3>2
      <4> QED
        BY <4>1 DEF ToSet
    <3>3. CASE ~(k <= Len(r))
      <4>1. k - Len(r) \in DOMAIN v /\ y = v[k - Len(r)]
        BY <2>1, <2>2, <3>1, <3>3
      <4> QED
        BY <4>1 DEF ToSet
    <3> QED
      BY <3>2, <3>3
  <2>4. ASSUME NEW y \in ToSet(r) PROVE y \in ToSet(r \o v)
    <3>1. PICK k \in 1 .. Len(r) : y = r[k]
      BY <2>2, <2>4 DEF ToSet
    <3>2. k \in DOMAIN (r \o v) /\ y = (r \o v)[k]
      BY <2>1, <2>2, <3>1
    <3> QED
      BY <3>2 DEF ToSet
  <2>5. ASSUME NEW y \in ToSet(v) PROVE y \in ToSet(r \o v)
    <3>1. PICK k \in 1 .. Len(v) : y = v[k]
      BY <2>2, <2>5 DEF ToSet
    <3>2. PICK l \in 1 .. Len(r) + Len(v) : l = k + Len(r)
      BY <2>1
    <3>3. ~(l <= Len(r)) /\ l - Len(r) = k
      BY <2>1, <3>2
    <3>4. l \in DOMAIN (r \o v) /\ y = (r \o v)[l]
      BY <2>1, <2>2, <3>1, <3>3
    <3> QED
      BY <3>4 DEF ToSet
  <2> QED
    BY <2>3, <2>4, <2>5
<1>2. ToSet(<<x>>) = {x}
  <2>1. DOMAIN <<x>> = {1} /\ <<x>>[1] = x
    OBVIOUS
  <2> QED
    BY <2>1 DEF ToSet
<1>3. <<x>> \in Seq(S) /\ Append(r, x) = r \o <<x>>
  BY AppendIsConcat
<1> QED
  BY <1>1, <1>2, <1>3

LEMMA SetOfNone == ToSet(<<>>) = {}
BY DEF ToSet

LEMMA SetOfHead ==
  ASSUME NEW S, NEW r \in Seq(S), r # <<>>
  PROVE  /\ Head(r) \in S /\ Tail(r) \in Seq(S)
         /\ ToSet(r) = {Head(r)} \cup ToSet(Tail(r))
<1>1. Head(r) \in S /\ Tail(r) \in Seq(S) /\ r = <<Head(r)>> \o Tail(r)
  BY HeadTailProperties
<1>2. <<Head(r)>> \in Seq(S)
  BY <1>1
<1>3. ToSet(<<Head(r)>>) = {Head(r)}
  <2>1. DOMAIN <<Head(r)>> = {1} /\ <<Head(r)>>[1] = Head(r)
    OBVIOUS
  <2> QED
    BY <2>1 DEF ToSet
<1>4. PICK h \in Seq(S) : h = <<Head(r)>>
  BY <1>2
<1>5. PICK u \in Seq(S) : u = Tail(r)
  BY <1>1
<1>6. ToSet(h \o u) = ToSet(h) \cup ToSet(u)
  BY <1>1, SetOf
<1> QED
  BY <1>1, <1>3, <1>4, <1>5, <1>6

(* What a list leads: what it continues, and a part of what it leads.      *)
LEMMA LeadsOn ==
  ASSUME NEW r \in Seq(PlainRecord), NEW s \in Seq(PlainRecord), NEW t \in Seq(PlainRecord)
  PROVE  /\ Leads(s, s) /\ Leads(s, s \o t)
         /\ Leads(s, t) => Leads(r \o s, r \o t)
         /\ Leads(r, s) => Leads(r, s \o t)
         /\ Leads(s, t) => ToSet(s) \subseteq ToSet(t)
<1>1. Leads(s, s \o t)
  BY DEF Leads
<1>2. Leads(s, s)
  <2>1. <<>> \in Seq(PlainRecord) /\ s = s \o <<>>
    BY ConcatSimplifications
  <2> QED
    BY <2>1 DEF Leads
<1>3. ASSUME Leads(s, t) PROVE Leads(r \o s, r \o t) /\ ToSet(s) \subseteq ToSet(t)
  <2>1. PICK Q \in Seq(PlainRecord) : t = s \o Q
    BY <1>3 DEF Leads
  <2>2. r \o t = (r \o s) \o Q
    <3>1. (r \o s) \o Q = r \o (s \o Q)
      BY ConcatAssociative
    <3> QED
      BY <2>1, <3>1
  <2>3. ToSet(s \o Q) = ToSet(s) \cup ToSet(Q)
    <3>1. CASE PlainRecord = {}
      <4>1. s = <<>>
        BY <3>1
      <4> QED
        BY <4>1, SetOfNone, ConcatSimplifications
    <3>2. CASE PlainRecord # {}
      BY <3>2, SetOf
    <3> QED
      BY <3>1, <3>2
  <2> QED
    BY <2>1, <2>2, <2>3 DEF Leads
<1>4. ASSUME Leads(r, s) PROVE Leads(r, s \o t)
  <2>1. PICK Q \in Seq(PlainRecord) : s = r \o Q
    BY <1>4 DEF Leads
  <2>2. s \o t = r \o (Q \o t) /\ Q \o t \in Seq(PlainRecord)
    BY <2>1, ConcatAssociative
  <2> QED
    BY <2>2 DEF Leads
<1> QED
  BY <1>1, <1>2, <1>3, <1>4

(* The text cut from a position on: the cuts of the position, and what     *)
(* follows them. What is sure at a position leads the whole.               *)
LEMMA CutFrom ==
  ASSUME NEW a, NEW t, Plain(a, t), NEW b \in 0 .. Len(t) - 1
  PROVE  /\ b \in 0 .. Len(t) /\ b + 1 \in 0 .. Len(t)
         /\ Cuts(a, t, b) \in Seq(PlainRecord)
         /\ Munch(a, t, b, FALSE) \in Seq(PlainRecord)
         /\ Cuts(a, t, b) = <<>> =>
              \A g \in BOOLEAN : Munch(a, t, b, g) = Munch(a, t, b + 1, g)
         /\ Cuts(a, t, b) # <<>> =>
              LET last == Last(Cuts(a, t, b))
              IN  /\ last.end \in b + 1 .. Len(t)
                  /\ Munch(a, t, b, FALSE) = Cuts(a, t, b) \o Munch(a, t, last.end, FALSE)
                  /\ Munch(a, t, b, TRUE) = <<last>> \o Munch(a, t, last.end, TRUE)
         /\ \A n \in b .. Len(t) + 1 :
              Leads(Line(Accepts(a, t, b), b, Sure(Accepts(a, t, b), b, n)),
                    Munch(a, t, b, FALSE))
<1>1. Len(t) \in Nat
  BY DEF Plain
<1>2. b \in 0 .. Len(t) /\ b + 1 \in 0 .. Len(t)
  BY <1>1
<1> PICK c : c = Cuts(a, t, b)
  OBVIOUS
<1>3. c \in Seq(PlainRecord)
  BY <1>2, CutsFit
<1>4. ASSUME NEW g
      PROVE  /\ Munch(a, t, b, g) = Part(a, t, b, g) \o Munch(a, t, Behind(a, t, b), g)
             /\ Behind(a, t, b) \in b + 1 .. Len(t)
             /\ Munch(a, t, b, g) \in Seq(PlainRecord)
             /\ Munch(a, t, Behind(a, t, b), g) \in Seq(PlainRecord)
  <2>1. /\ Munch(a, t, b, g) = Part(a, t, b, g) \o Munch(a, t, Behind(a, t, b), g)
        /\ Behind(a, t, b) \in b + 1 .. Len(t)
        /\ \A k \in 0 .. Len(t) : Munch(a, t, k, g) \in Seq(PlainRecord)
    BY MunchIs
  <2>2. Behind(a, t, b) \in 0 .. Len(t)
    BY <1>1, <2>1
  <2> QED
    BY <1>2, <2>1, <2>2
<1>5. Part(a, t, b, FALSE) = c /\ (c # <<>> => Part(a, t, b, TRUE) = <<Last(c)>>)
      /\ (c = <<>> => Part(a, t, b, TRUE) = <<>>)
      /\ Behind(a, t, b) = IF c = <<>> THEN b + 1 ELSE Last(c).end
  BY DEF Part, Behind
<1>6. ASSUME NEW n \in b .. Len(t) + 1
      PROVE  Leads(Line(Accepts(a, t, b), b, Sure(Accepts(a, t, b), b, n)),
                   Munch(a, t, b, FALSE))
  <2> PICK line : line = Line(Accepts(a, t, b), b, Sure(Accepts(a, t, b), b, n))
    OBVIOUS
  <2>1. Leads(line, c) /\ line \in Seq(PlainRecord)
    BY <1>2, CutsPrefix, SureFits
  <2> PICK u : u = Munch(a, t, Behind(a, t, b), FALSE)
    OBVIOUS
  <2>2. Munch(a, t, b, FALSE) = c \o u /\ u \in Seq(PlainRecord)
    BY <1>4, <1>5
  <2> QED
    BY <1>3, <2>1, <2>2, LeadsOn
<1>7. ASSUME c = <<>>, NEW g \in BOOLEAN
      PROVE  Munch(a, t, b, g) = Munch(a, t, b + 1, g)
  <2>1. Part(a, t, b, g) = <<>> /\ Behind(a, t, b) = b + 1
    BY <1>5, <1>7
  <2>2. Munch(a, t, b + 1, g) \in Seq(PlainRecord)
        /\ Munch(a, t, b, g) = <<>> \o Munch(a, t, b + 1, g)
    BY <1>4, <2>1
  <2> QED
    BY <2>2, ConcatSimplifications
<1>8. ASSUME c # <<>>
      PROVE  /\ Last(c).end \in b + 1 .. Len(t)
             /\ Munch(a, t, b, FALSE) = c \o Munch(a, t, Last(c).end, FALSE)
             /\ Munch(a, t, b, TRUE) = <<Last(c)>> \o Munch(a, t, Last(c).end, TRUE)
  BY <1>4, <1>5, <1>8
<1> QED
  BY <1>2, <1>3, <1>4, <1>6, <1>7, <1>8

Active == Going \/ phase = "returned"

(* The scan of a position is over: what it leaves of the text.             *)
LEMMA FinishCuts ==
  ASSUME Searches, ~Prefix, phase = "finish", ~Filled
  PROVE  /\ i \in 0 .. Len(text) - 1 /\ i \in Nat /\ Len(text) \in Nat
         /\ LineTo(End) \in Seq(PlainRecord)
         /\ pre_match_type > 0 =>
              /\ Match \in PlainRecord /\ pre_match_pos \in 0 .. Len(text)
              /\ Cuts(nfa, text, i) = Append(LineTo(End), Match)
              /\ Last(Cuts(nfa, text, i)) = Match
              /\ Munch(nfa, text, i, FALSE) =
                   Append(LineTo(End), Match) \o Munch(nfa, text, pre_match_pos, FALSE)
              /\ Munch(nfa, text, i, TRUE) = <<Match>> \o Munch(nfa, text, pre_match_pos, TRUE)
         /\ ~(pre_match_type > 0) =>
              /\ LineTo(End) = <<>> /\ i + 1 \in 0 .. Len(text)
              /\ \A g \in BOOLEAN : Munch(nfa, text, i, g) = Munch(nfa, text, i + 1, g)
         /\ \A k \in 0 .. Len(text), g \in BOOLEAN : Munch(nfa, text, k, g) \in Seq(PlainRecord)
<1>1. /\ Plain(nfa, text) /\ Len(text) \in Nat /\ i \in Nat
  BY Searching DEF Searches
<1>2. /\ i < Len(text) /\ i \in 0 .. Len(text) /\ i \in 0 .. Len(text) - 1
  BY <1>1 DEF Searches, Track
<1>3. /\ End \in i .. End
      /\ pre_match_type > 0 =>
              /\ Cuts(nfa, text, i) = Append(LineTo(End), Match)
              /\ Match \in PlainRecord /\ pre_match_pos \in i + 1 .. Len(text)
      /\ ~(pre_match_type > 0) => Cuts(nfa, text, i) = <<>> /\ LineTo(End) = <<>>
  BY FinishFacts DEF Searches
<1>4. LineTo(End) \in Seq(PlainRecord)
  <2>1. End \in i .. Len(text) + 1
    BY <1>1, <1>3 DEF End
  <2> QED
    BY <1>1, <1>2, <2>1, SureFits DEF Accepted, LineTo
<1>5. ASSUME pre_match_type > 0
      PROVE  /\ Last(Cuts(nfa, text, i)) = Match /\ pre_match_pos \in 0 .. Len(text)
             /\ Munch(nfa, text, i, FALSE) =
                   Append(LineTo(End), Match) \o Munch(nfa, text, pre_match_pos, FALSE)
             /\ Munch(nfa, text, i, TRUE) = <<Match>> \o Munch(nfa, text, pre_match_pos, TRUE)
  <2>1. PICK line \in Seq(PlainRecord) : line = LineTo(End)
    BY <1>4
  <2>2. PICK m \in PlainRecord : m = Match
    BY <1>3, <1>5
  <2>3. /\ Len(Append(line, m)) = Len(line) + 1 /\ Append(line, m)[Len(line) + 1] = m
        /\ Append(line, m) # <<>> /\ Len(line) \in Nat
    OBVIOUS
  <2>4. Cuts(nfa, text, i) = Append(line, m)
    BY <1>3, <1>5, <2>1, <2>2
  <2>5. Last(Cuts(nfa, text, i)) = m /\ Cuts(nfa, text, i) # <<>>
    BY <2>3, <2>4 DEF Last
  <2>6. Last(Cuts(nfa, text, i)).end = pre_match_pos
    BY <2>2, <2>5 DEF Match
  <2>7. /\ Munch(nfa, text, i, FALSE) = Cuts(nfa, text, i) \o Munch(nfa, text, pre_match_pos, FALSE)
        /\ Munch(nfa, text, i, TRUE) = <<m>> \o Munch(nfa, text, pre_match_pos, TRUE)
    BY <1>1, <1>2, <2>5, <2>6, CutFrom
  <2>8. pre_match_pos \in 0 .. Len(text)
    BY <1>1, <1>3, <1>5
  <2>9. Munch(nfa, text, i, FALSE) =
          Append(LineTo(End), Match) \o Munch(nfa, text, pre_match_pos, FALSE)
    BY <1>3, <1>5, <2>7
  <2> QED
    BY <2>2, <2>5, <2>7, <2>8, <2>9
<1>6. ASSUME ~(pre_match_type > 0)
      PROVE  /\ i + 1 \in 0 .. Len(text)
             /\ \A g \in BOOLEAN : Munch(nfa, text, i, g) = Munch(nfa, text, i + 1, g)
  BY <1>1, <1>2, <1>3, <1>6, CutFrom
<1>7. \A k \in 0 .. Len(text), g \in BOOLEAN : Munch(nfa, text, k, g) \in Seq(PlainRecord)
  BY <1>1, MunchIs
<1> QED
  BY <1>1, <1>2, <1>3, <1>4, <1>5, <1>6, <1>7

-----------------------------------------------------------------------------
(* The longest match of each position: what is reported, and the rest of   *)
(* the text cut, are the text cut.                                         *)
GreedyCut ==
  op = "greedy" /\ Active =>
    /\ result \in Seq(PlainRecord)
    /\ phase = "returned" => result = Munch(nfa, text, 0, TRUE)
    /\ phase # "returned" => result \o Munch(nfa, text, i, TRUE) = Munch(nfa, text, 0, TRUE)

LEMMA GreedyKept ==
  ASSUME Searches, GreedyCut, op = "greedy",
         Begin(TRUE, -1, "returned") \/ Scan(FALSE, Match, FALSE) \/ Finish(TRUE)
  PROVE  Track' /\ GreedyCut'
<1>1. /\ Plain(nfa, text) /\ ~Prefix /\ ~Filled /\ op' = "greedy" /\ UNCHANGED <<nfa, text>>
      /\ Len(text) \in Nat
  BY Searching DEF Searches, Same, Prefix, Filled, Buffered
<1>2. /\ result \in Seq(PlainRecord)
      /\ Going => result \o Munch(nfa, text, i, TRUE) = Munch(nfa, text, 0, TRUE)
  BY DEF GreedyCut, Active, Searches, Going
<1>3. CASE Begin(TRUE, -1, "returned")
  <2>1. /\ Track' /\ UNCHANGED <<i, result>> /\ phase = "begin"
        /\ phase' = "scan" \/ (phase' = "returned" /\ i = Len(text))
    BY <1>1, <1>3, TrackBegin
  <2>2. phase' = "returned" => result = Munch(nfa, text, 0, TRUE)
    <3>1. ASSUME i = Len(text) PROVE Munch(nfa, text, i, TRUE) = <<>>
      BY <1>1, <3>1, MunchIs
    <3>2. result \o <<>> = result
      BY <1>2, ConcatSimplifications
    <3> QED
      BY <1>2, <2>1, <3>1, <3>2 DEF Going
  <2> QED
    BY <1>1, <1>2, <2>1, <2>2 DEF GreedyCut, Going
<1>4. CASE Scan(FALSE, Match, FALSE)
  <2>1. Track' /\ UNCHANGED i /\ phase = "scan" /\ phase' \in {"scan", "finish"}
    BY <1>4, TrackScan
  <2>2. result' = result
    BY <1>4 DEF Scan, Report
  <2> QED
    BY <1>1, <1>2, <2>1, <2>2 DEF GreedyCut, Going
<1>5. CASE Finish(TRUE)
  <2>1. Track' /\ phase = "finish" /\ phase' = "begin"
    BY <1>1, <1>5, TrackFinish
  <2>2. result \o Munch(nfa, text, i, TRUE) = Munch(nfa, text, 0, TRUE)
    BY <1>2, <2>1 DEF Going
  <2>3. CASE pre_match_type > 0
    <3>1. result' = Append(result, Match) /\ i' = pre_match_pos
      BY <1>5, <2>3 DEF Finish, Report
    <3>2. /\ Match \in PlainRecord
          /\ Munch(nfa, text, i, TRUE) = <<Match>> \o Munch(nfa, text, pre_match_pos, TRUE)
          /\ Munch(nfa, text, pre_match_pos, TRUE) \in Seq(PlainRecord)
      BY <1>1, <2>1, <2>3, FinishCuts
    <3>3. PICK u \in Seq(PlainRecord) : u = Munch(nfa, text, pre_match_pos, TRUE)
      BY <3>2
    <3>4. PICK m \in PlainRecord : m = Match
      BY <3>2
    <3>5. Append(result, m) = result \o <<m>> /\ <<m>> \in Seq(PlainRecord)
      BY <1>2, AppendIsConcat
    <3>6. (result \o <<m>>) \o u = result \o (<<m>> \o u)
      BY <1>2, <3>5, ConcatAssociative
    <3>7. Append(result, m) \in Seq(PlainRecord)
      BY <1>2
    <3> QED
      BY <1>1, <2>1, <2>2, <3>1, <3>2, <3>3, <3>4, <3>5, <3>6, <3>7 DEF GreedyCut
  <2>4. CASE ~(pre_match_type > 0)
    <3>1. result' = result /\ i' = i + 1
      BY <1>5, <2>4 DEF Finish, Report
    <3>2. Munch(nfa, text, i, TRUE) = Munch(nfa, text, i + 1, TRUE)
      BY <1>1, <2>1, <2>4, FinishCuts
    <3> QED
      BY <1>1, <1>2, <2>1, <2>2, <3>1, <3>2 DEF GreedyCut
  <2> QED
    BY <2>3, <2>4
<1> QED
  BY <1>3, <1>4, <1>5

LEMMA AppendRecord ==
  \A p, q \in Seq(PlainRecord), x \in PlainRecord : Append(p \o q, x) = p \o Append(q, x)
<1> SUFFICES ASSUME NEW p \in Seq(PlainRecord), NEW q \in Seq(PlainRecord),
                    NEW x \in PlainRecord
             PROVE  Append(p \o q, x) = p \o Append(q, x)
  OBVIOUS
<1>1. <<x>> \in Seq(PlainRecord) /\ p \o q \in Seq(PlainRecord)
  OBVIOUS
<1>2. Append(p \o q, x) = (p \o q) \o <<x>> /\ Append(q, x) = q \o <<x>>
  BY <1>1, AppendIsConcat
<1>3. (p \o q) \o <<x>> = p \o (q \o <<x>>)
  BY <1>1, ConcatAssociative
<1> QED
  BY <1>2, <1>3

(* What one round of the inner loop makes of the list of sure matches.     *)
LEMMA ScanCuts ==
  ASSUME Searches, phase = "scan"
  PROVE  /\ i \in 0 .. Len(text) /\ i \in Nat /\ Len(text) \in Nat
         /\ LineTo(j) \in Seq(PlainRecord) /\ LineTo(j + 1) \in Seq(PlainRecord)
         /\ Changed => /\ Match \in PlainRecord
                       /\ LineTo(j + 1) = Append(LineTo(j), Match)
         /\ ~Changed => LineTo(j + 1) = LineTo(j)
         /\ Leads(LineTo(j + 1), Cuts(nfa, text, i))
         /\ ~Prefix => /\ Leads(LineTo(j + 1), Munch(nfa, text, i, FALSE))
                       /\ Munch(nfa, text, i, FALSE) \in Seq(PlainRecord)
<1>1. /\ Plain(nfa, text) /\ Len(text) \in Nat /\ i \in Nat /\ j \in Nat
  BY Searching DEF Searches
<1>2. /\ i \in 0 .. Len(text) /\ j \in i .. End /\ j + 1 \in i .. End
      /\ LineTo(j + 1) = IF Changed THEN Append(LineTo(j), Match) ELSE LineTo(j)
      /\ Changed => Match \in PlainRecord
  BY ScanFacts DEF Searches
<1>3. \A n \in i .. End : LineTo(n) \in Seq(PlainRecord)
  BY <1>1, <1>2, SureFits DEF Accepted, LineTo, End
<1>4. Leads(LineTo(j + 1), Cuts(nfa, text, i))
  <2>1. j + 1 \in i .. Len(text) + 1
    BY <1>2 DEF End
  <2> QED
    BY <1>1, <1>2, <2>1, CutsPrefix DEF Accepted, LineTo
<1>5. ASSUME ~Prefix
      PROVE  /\ Leads(LineTo(j + 1), Munch(nfa, text, i, FALSE))
             /\ Munch(nfa, text, i, FALSE) \in Seq(PlainRecord)
  <2>1. i \in 0 .. Len(text) - 1
    BY <1>1, <1>5 DEF Searches, Track
  <2>2. j + 1 \in i .. Len(text) + 1
    BY <1>2 DEF End
  <2> QED
    BY <1>1, <2>1, <2>2, CutFrom DEF Accepted, LineTo
<1> QED
  BY <1>1, <1>2, <1>3, <1>4, <1>5

-----------------------------------------------------------------------------
(* Also the matches before a change of type: what is reported leads the    *)
(* text cut, and is all that is sure of it while there is room.            *)
Parsed(line) ==
  \E R \in Seq(PlainRecord) :
    /\ result = R \o line
    /\ R \o Munch(nfa, text, i, FALSE) = Munch(nfa, text, 0, FALSE)

Cutting ==
  /\ phase = "returned" => result = Munch(nfa, text, 0, FALSE)
  /\ phase = "begin"    => Parsed(<<>>)
  /\ phase = "scan"     => Parsed(LineTo(j))
  /\ phase = "finish"   => Parsed(LineTo(End))

LongestCut ==
  op \in {"longest", "longest_buffer"} /\ Active =>
    /\ result \in Seq(PlainRecord) /\ Leads(result, Munch(nfa, text, 0, FALSE))
    /\ ~Filled => Cutting

LEMMA LongestKept ==
  ASSUME Searches, LongestCut, op \in {"longest", "longest_buffer"},
         NEW room, room <=> ~Filled, NEW when, NEW leave,
         \/ Begin(room, -1, "returned")
         \/ /\ Scan(when, Match, leave)
            /\ when <=> Changed /\ ~Filled
            /\ leave => Filled'
         \/ Finish(room)
  PROVE  Track' /\ LongestCut'
<1>1. /\ Plain(nfa, text) /\ ~Prefix /\ op' = op /\ UNCHANGED <<nfa, text, cap>>
      /\ Len(text) \in Nat /\ Going /\ Active
  BY Searching DEF Searches, Same, Prefix, Active
<1>2. /\ result \in Seq(PlainRecord) /\ Leads(result, Munch(nfa, text, 0, FALSE))
      /\ ~Filled => Cutting
  BY <1>1 DEF LongestCut
<1>3. result' = result => Filled' = Filled
  BY <1>1 DEF Filled, Buffered, Hold, Short
<1>4. CASE Begin(room, -1, "returned")
  <2>1. /\ Track' /\ UNCHANGED <<i, result>> /\ phase = "begin"
        /\ \/ phase' = "scan" /\ room /\ LineTo(j)' = <<>>
           \/ phase' = "returned" /\ (i = Len(text) \/ ~room)
    BY <1>1, <1>4, TrackBegin
  <2>2. ASSUME ~Filled' PROVE Cutting'
    <3>1. ~Filled /\ room
      BY <1>3, <2>1, <2>2
    <3>2. PICK R \in Seq(PlainRecord) :
            /\ result = R \o <<>>
            /\ R \o Munch(nfa, text, i, FALSE) = Munch(nfa, text, 0, FALSE)
      BY <1>2, <2>1, <3>1 DEF Cutting, Parsed
    <3>3. CASE phase' = "scan"
      BY <1>1, <2>1, <3>2, <3>3 DEF Cutting, Parsed
    <3>4. CASE phase' = "returned"
      <4>1. Munch(nfa, text, i, FALSE) = <<>>
        <5>1. i = Len(text)
          BY <2>1, <3>1, <3>4
        <5> QED
          BY <1>1, <5>1, MunchIs
      <4> QED
        BY <1>1, <2>1, <3>2, <3>4, <4>1 DEF Cutting
    <3> QED
      BY <2>1, <3>3, <3>4
  <2> QED
    BY <1>1, <1>2, <2>1, <2>2 DEF LongestCut
<1>5. ASSUME Scan(when, Match, leave), when <=> Changed /\ ~Filled, leave => Filled'
      PROVE  Track' /\ LongestCut'
  <2>1. /\ Track' /\ UNCHANGED i /\ phase = "scan" /\ phase' \in {"scan", "finish"}
        /\ phase' = "scan" => LineTo(j)' = LineTo(j + 1)
        /\ phase' = "finish" => Filled' \/ LineTo(End)' = LineTo(j + 1)
    BY <1>5, TrackScan
  <2>2. CASE Filled
    <3>1. result' = result
      BY <1>5, <2>2 DEF Scan, Report
    <3> QED
      BY <1>1, <1>2, <1>3, <2>1, <2>2, <3>1 DEF LongestCut
  <2>3. CASE ~Filled
    <3>1. PICK R \in Seq(PlainRecord) :
            /\ result = R \o LineTo(j)
            /\ R \o Munch(nfa, text, i, FALSE) = Munch(nfa, text, 0, FALSE)
      BY <1>2, <2>1, <2>3 DEF Cutting, Parsed
    <3>2. /\ LineTo(j) \in Seq(PlainRecord) /\ LineTo(j + 1) \in Seq(PlainRecord)
          /\ Changed => /\ Match \in PlainRecord
                        /\ LineTo(j + 1) = Append(LineTo(j), Match)
          /\ ~Changed => LineTo(j + 1) = LineTo(j)
          /\ Leads(LineTo(j + 1), Munch(nfa, text, i, FALSE))
          /\ Munch(nfa, text, i, FALSE) \in Seq(PlainRecord)
      BY <1>1, <2>1, ScanCuts
    <3>3. result' = IF Changed THEN Append(result, Match) ELSE result
      BY <1>5, <2>3 DEF Scan, Report
    <3>4. result' = R \o LineTo(j + 1)
      <4>1. CASE Changed
        <5>1. Append(R \o LineTo(j), Match) = R \o Append(LineTo(j), Match)
          <6>1. PICK l \in Seq(PlainRecord) : l = LineTo(j)
            BY <3>2
          <6>2. PICK m \in PlainRecord : m = Match
            BY <3>2, <4>1
          <6>3. Append(R \o l, m) = R \o Append(l, m)
            BY <6>1, <6>2, AppendRecord
          <6> QED
            BY <6>1, <6>2, <6>3
        <5> QED
          BY <3>1, <3>2, <3>3, <4>1, <5>1
      <4>2. CASE ~Changed
        BY <3>1, <3>2, <3>3, <4>2
      <4> QED
        BY <4>1, <4>2
    <3>5. Leads(result', Munch(nfa, text, 0, FALSE)) /\ result' \in Seq(PlainRecord)
      <4>1. Leads(R \o LineTo(j + 1), R \o Munch(nfa, text, i, FALSE))
        <5>1. PICK l \in Seq(PlainRecord) : l = LineTo(j + 1)
          BY <3>2
        <5>2. PICK u \in Seq(PlainRecord) : u = Munch(nfa, text, i, FALSE)
          BY <3>2
        <5>3. Leads(l, u)
          BY <3>2, <5>1, <5>2
        <5>4. Leads(R \o l, R \o u)
          BY <5>3, LeadsOn
        <5> QED
          BY <5>1, <5>2, <5>4
      <4>2. R \o LineTo(j + 1) \in Seq(PlainRecord)
        BY <3>2
      <4>3. Leads(R \o LineTo(j + 1), Munch(nfa, text, 0, FALSE))
        BY <3>1, <4>1
      <4> QED
        BY <3>4, <4>2, <4>3
    <3>6. ~Filled' => Cutting'
      BY <1>1, <2>1, <3>1, <3>4 DEF Cutting, Parsed
    <3> QED
      BY <1>1, <3>5, <3>6, <2>1 DEF LongestCut
  <2> QED
    BY <2>2, <2>3
<1>6. CASE Finish(room)
  <2>1. Track' /\ phase = "finish" /\ phase' = "begin"
    BY <1>1, <1>6, TrackFinish
  <2>2. CASE Filled
    <3>1. result' = result
      BY <1>6, <2>2 DEF Finish, Report
    <3> QED
      BY <1>1, <1>2, <1>3, <2>1, <2>2, <3>1 DEF LongestCut
  <2>3. CASE ~Filled
    <3>1. PICK R \in Seq(PlainRecord) :
            /\ result = R \o LineTo(End)
            /\ R \o Munch(nfa, text, i, FALSE) = Munch(nfa, text, 0, FALSE)
      BY <1>2, <2>1, <2>3 DEF Cutting, Parsed
    <3>2. LineTo(End) \in Seq(PlainRecord)
      BY <1>1, <2>1, <2>3, FinishCuts
    <3>3. CASE pre_match_type > 0
      <4>1. result' = Append(result, Match) /\ i' = pre_match_pos
        BY <1>6, <2>3, <3>3 DEF Finish, Report
      <4>2. /\ Match \in PlainRecord
            /\ Munch(nfa, text, i, FALSE) =
                 Append(LineTo(End), Match) \o Munch(nfa, text, pre_match_pos, FALSE)
            /\ Munch(nfa, text, pre_match_pos, FALSE) \in Seq(PlainRecord)
        BY <1>1, <2>1, <2>3, <3>3, FinishCuts
      <4>3. PICK u \in Seq(PlainRecord) : u = Munch(nfa, text, pre_match_pos, FALSE)
        BY <4>2
      <4>4. PICK c \in Seq(PlainRecord) : c = Append(LineTo(End), Match)
        <5>1. PICK l \in Seq(PlainRecord) : l = LineTo(End)
          BY <3>2
        <5>2. PICK m \in PlainRecord : m = Match
          BY <4>2
        <5>3. Append(l, m) \in Seq(PlainRecord)
          OBVIOUS
        <5> QED
          BY <5>1, <5>2, <5>3
      <4>5. result' = R \o c /\ R \o c \in Seq(PlainRecord)
        <5>1. Append(R \o LineTo(End), Match) = R \o Append(LineTo(End), Match)
          <6>1. PICK l \in Seq(PlainRecord) : l = LineTo(End)
            BY <3>2
          <6>2. PICK m \in PlainRecord : m = Match
            BY <4>2
          <6>3. Append(R \o l, m) = R \o Append(l, m)
            BY <6>1, <6>2, AppendRecord
          <6> QED
            BY <6>1, <6>2, <6>3
        <5> QED
          BY <3>1, <4>1, <4>4, <5>1
      <4>6. (R \o c) \o u = R \o (c \o u)
        BY ConcatAssociative
      <4>7. (R \o c) \o u = Munch(nfa, text, 0, FALSE)
        BY <3>1, <4>2, <4>3, <4>4, <4>6
      <4>8. R \o c = (R \o c) \o <<>>
        BY <4>5, ConcatSimplifications
      <4>9. Leads(R \o c, Munch(nfa, text, 0, FALSE))
        BY <4>7 DEF Leads
      <4>10. Parsed(<<>>)'
        <5> PICK v \in Seq(PlainRecord) : v = R \o c
          BY <4>5
        <5>1. result' = v \o <<>> /\ v \o u = Munch(nfa, text, 0, FALSE)
          BY <4>5, <4>7, <4>8
        <5> QED
          BY <1>1, <4>1, <4>3, <5>1 DEF Parsed
      <4> QED
        BY <1>1, <2>1, <4>5, <4>9, <4>10 DEF LongestCut, Cutting
    <3>4. CASE ~(pre_match_type > 0)
      <4>1. result' = result /\ i' = i + 1
        BY <1>6, <3>4 DEF Finish, Report
      <4>2. LineTo(End) = <<>> /\ Munch(nfa, text, i, FALSE) = Munch(nfa, text, i + 1, FALSE)
        BY <1>1, <2>1, <2>3, <3>4, FinishCuts
      <4>3. Parsed(<<>>)'
        BY <1>1, <3>1, <4>1, <4>2 DEF Parsed
      <4> QED
        BY <1>1, <1>2, <2>1, <4>1, <4>3 DEF LongestCut, Cutting
    <3> QED
      BY <3>3, <3>4
  <2> QED
    BY <2>2, <2>3
<1> QED
  BY <1>4, <1>5, <1>6

ScoreOf(m) ==
  [begin |-> 0, end |-> m.end, type |-> m.type, score |-> GetScore(m.type, m.end)]
Sc(s) == [k \in 1 .. Len(s) |-> ScoreOf(s[k])]
ScoredRecord == [begin : Nat, end : Nat, type : Int, score : Int]

LEMMA ScoredIs ==
  ASSUME NEW u \in Seq(PlainRecord)
  PROVE  /\ Sc(u) \in Seq(ScoredRecord) /\ Len(Sc(u)) = Len(u) /\ Len(u) \in Nat
         /\ \A k \in 1 .. Len(u) : Sc(u)[k] = ScoreOf(u[k]) /\ ScoreOf(u[k]) \in ScoredRecord
<1>1. ASSUME NEW m \in PlainRecord PROVE ScoreOf(m) \in ScoredRecord
  <2>1. m.end \in Nat /\ m.type \in Int /\ m.end \in Int
    BY DEF PlainRecord
  <2>2. GetScore(m.type, m.end) \in Int
    BY <2>1, ScoreInt
  <2> QED
    BY <2>1, <2>2 DEF ScoreOf, ScoredRecord
<1>2. PICK n \in Nat : n = Len(u)
  OBVIOUS
<1>3. \A k \in 1 .. n : u[k] \in PlainRecord
  BY <1>2
<1>4. \A k \in 1 .. n : ScoreOf(u[k]) \in ScoredRecord
  BY <1>1, <1>3
<1>5. PICK v : v = [k \in 1 .. n |-> ScoreOf(u[k])]
  OBVIOUS
<1>6. v \in Seq(ScoredRecord) /\ Len(v) = n /\ \A k \in 1 .. n : v[k] = ScoreOf(u[k])
  BY <1>4, <1>5
<1>7. Sc(u) = v
  BY <1>2, <1>5 DEF Sc
<1> QED
  BY <1>2, <1>4, <1>6, <1>7

LEMMA ScoredConcat ==
  ASSUME NEW u \in Seq(PlainRecord), NEW v \in Seq(PlainRecord)
  PROVE  Sc(u \o v) = Sc(u) \o Sc(v)
<1>1. /\ Len(u \o v) = Len(u) + Len(v) /\ Len(u) \in Nat /\ Len(v) \in Nat
      /\ u \o v \in Seq(PlainRecord)
      /\ \A k \in 1 .. Len(u) + Len(v) :
           (u \o v)[k] = IF k <= Len(u) THEN u[k] ELSE v[k - Len(u)]
  BY ConcatProperties
<1>2. PICK p \in Seq(ScoredRecord) : p = Sc(u)
  BY ScoredIs
<1>3. PICK r \in Seq(ScoredRecord) : r = Sc(v)
  BY ScoredIs
<1>4. PICK w \in Seq(ScoredRecord) : w = Sc(u \o v)
  BY <1>1, ScoredIs
<1>5. /\ Len(p) = Len(u) /\ \A k \in 1 .. Len(u) : p[k] = ScoreOf(u[k])
      /\ Len(r) = Len(v) /\ \A k \in 1 .. Len(v) : r[k] = ScoreOf(v[k])
  BY <1>2, <1>3, ScoredIs
<1>6. /\ Len(w) = Len(u) + Len(v)
      /\ \A k \in 1 .. Len(u) + Len(v) : w[k] = ScoreOf((u \o v)[k])
  BY <1>1, <1>4, ScoredIs
<1>7. /\ Len(p \o r) = Len(p) + Len(r) /\ p \o r \in Seq(ScoredRecord)
      /\ \A k \in 1 .. Len(p) + Len(r) :
           (p \o r)[k] = IF k <= Len(p) THEN p[k] ELSE r[k - Len(p)]
  BY ConcatProperties
<1>8. ASSUME NEW k \in 1 .. Len(u) + Len(v)
      PROVE  w[k] = (p \o r)[k]
  <2>1. CASE k <= Len(u)
    <3>1. k \in 1 .. Len(u)
      BY <1>1, <2>1
    <3> QED
      BY <1>1, <1>5, <1>6, <1>7, <2>1, <3>1
  <2>2. CASE ~(k <= Len(u))
    <3>1. k - Len(u) \in 1 .. Len(v)
      BY <1>1, <2>2
    <3> QED
      BY <1>1, <1>5, <1>6, <1>7, <2>2, <3>1
  <2> QED
    BY <2>1, <2>2
<1>9. w = p \o r
  <2>1. Len(w) = Len(p \o r) /\ \A k \in 1 .. Len(w) : w[k] = (p \o r)[k]
    BY <1>5, <1>6, <1>7, <1>8
  <2> QED
    BY <1>7, <2>1, SeqEqual
<1> QED
  BY <1>2, <1>3, <1>4, <1>9

LEMMA ScoredAppend ==
  ASSUME NEW s \in Seq(PlainRecord), NEW x \in PlainRecord
  PROVE  /\ Sc(Append(s, x)) = Append(Sc(s), ScoreOf(x))
         /\ ScoreOf(x) \in ScoredRecord
<1>1. <<x>> \in Seq(PlainRecord) /\ Append(s, x) = s \o <<x>>
  BY AppendIsConcat
<1>2. Len(<<x>>) = 1 /\ <<x>>[1] = x
  OBVIOUS
<1>3. PICK z \in Seq(ScoredRecord) : z = Sc(<<x>>)
  BY <1>1, ScoredIs
<1>4. 1 \in 1 .. Len(<<x>>)
  BY <1>2
<1>5. /\ Len(Sc(<<x>>)) = Len(<<x>>) /\ Sc(<<x>>)[1] = ScoreOf(<<x>>[1])
      /\ ScoreOf(<<x>>[1]) \in ScoredRecord
  BY <1>1, <1>4, ScoredIs
<1>6. PICK y \in ScoredRecord : y = ScoreOf(x)
  BY <1>2, <1>5
<1>7. Len(z) = 1 /\ z[1] = y
  BY <1>2, <1>3, <1>5, <1>6
<1>8. <<y>> \in Seq(ScoredRecord) /\ Len(<<y>>) = 1 /\ <<y>>[1] = y
  OBVIOUS
<1>9. z = <<y>>
  <2>1. Len(z) = Len(<<y>>) /\ \A k \in 1 .. Len(z) : z[k] = <<y>>[k]
    BY <1>7, <1>8
  <2> QED
    BY <1>8, <2>1, SeqEqual
<1>10. Sc(s \o <<x>>) = Sc(s) \o Sc(<<x>>)
  BY <1>1, ScoredConcat
<1>11. PICK p \in Seq(ScoredRecord) : p = Sc(s)
  BY ScoredIs
<1>12. Append(p, y) = p \o <<y>>
  BY AppendIsConcat
<1> QED
  BY <1>1, <1>3, <1>6, <1>9, <1>10, <1>11, <1>12

LEMMA ScoresAre == \A a, t : Scores(a, t) = Sc(Cuts(a, t, 0))
BY DEF Scores, Sc, ScoreOf

-----------------------------------------------------------------------------
(* The matches of the beginning, with their scores.                        *)
ScoredLead ==
  \E L \in Seq(PlainRecord) : result = Sc(L) /\ Leads(L, Cuts(nfa, text, 0))

PrefixCut ==
  Prefix /\ Active =>
    /\ ScoredLead
    /\ Short /\ Filled => Len(Cuts(nfa, text, 0)) > 1
    /\ ~Filled => /\ phase = "returned" => IF Short THEN Len(Cuts(nfa, text, 0)) <= 1
                                            ELSE result = Scores(nfa, text)
                  /\ phase = "scan"     => result = Sc(LineTo(j))
                  /\ phase = "finish"   => result = Sc(LineTo(End))

(* Where the type changes, a match is cut off and another one comes.       *)
LEMMA AnotherComes ==
  ASSUME Searches, phase = "scan", Changed
  PROVE  Len(Cuts(nfa, text, i)) > 1
<1>1. /\ Plain(nfa, text) /\ Len(text) \in Nat /\ i \in Nat /\ j \in Nat
  BY Searching DEF Searches
<1>2. /\ i \in 0 .. Len(text) /\ j \in i .. Len(text)
      /\ pre_match_pos \in i .. j - 1 /\ Match \in PlainRecord /\ Accepted[j] > 0
  BY ScanFacts DEF Searches
<1>3. j <= Last(Cuts(nfa, text, i)).end
  BY <1>1, <1>2, LastBeyond DEF Accepted
<1>4. Match.end = pre_match_pos
  BY DEF Match
<1>5. PICK l, k, Q \in Seq(PlainRecord) :
        /\ k = Append(l, Match) /\ Cuts(nfa, text, i) = k \o Q
  <2>1. /\ LineTo(j) \in Seq(PlainRecord) /\ LineTo(j + 1) \in Seq(PlainRecord)
        /\ LineTo(j + 1) = Append(LineTo(j), Match)
        /\ Leads(LineTo(j + 1), Cuts(nfa, text, i))
    BY ScanCuts
  <2> QED
    BY <2>1 DEF Leads
<1>6. Len(k) = Len(l) + 1 /\ Len(l) \in Nat /\ k[Len(k)] = Match
  BY <1>2, <1>5
<1>7. Len(Q) # 0
  <2> SUFFICES ASSUME Len(Q) = 0 PROVE FALSE
    OBVIOUS
  <2>1. Cuts(nfa, text, i) = k
    BY <1>5
  <2>2. Last(Cuts(nfa, text, i)) = Match
    BY <1>6, <2>1 DEF Last
  <2> QED
    BY <1>1, <1>2, <1>3, <1>4, <2>2
<1>8. Len(Cuts(nfa, text, i)) = Len(k) + Len(Q) /\ Len(Q) \in Nat
  BY <1>5
<1> QED
  BY <1>6, <1>7, <1>8

LEMMA OneFits == ASSUME NEW x, NEW y, x = y + 1, y = 0 PROVE x <= 1
OBVIOUS

LEMMA PrefixKept ==
  ASSUME Searches, PrefixCut, Prefix, NEW when,
         \/ Scan(when, Scored, FALSE) /\ (when <=> Changed /\ ~Filled)
         \/ StopFull /\ ~Filled
         \/ FinishPrefix
  PROVE  Track' /\ PrefixCut'
<1>1. /\ Plain(nfa, text) /\ Prefix' /\ op' = op /\ UNCHANGED <<nfa, text, cap, id_map>>
      /\ Len(text) \in Nat /\ Going /\ Active /\ i = 0 /\ cap \in Nat /\ Buffered
  BY Searching DEF Searches, Same, Prefix, Active, Where, CallOK, ScanTyped, Buffered
<1>2. PICK L \in Seq(PlainRecord) : result = Sc(L) /\ Leads(L, Cuts(nfa, text, 0))
  BY <1>1 DEF PrefixCut, ScoredLead
<1>3. /\ result \in Seq(ScoredRecord) /\ Len(result) \in Nat
  BY <1>2, ScoredIs
<1>4. /\ IF Short THEN ~Room /\ (~Filled => Len(result) = 0) ELSE Filled <=> ~Room
      /\ result' = result => Filled' = Filled
      /\ Short' = Short
  BY <1>1, <1>3 DEF Filled, Room, Buffered, Hold, Short
<1>5. /\ ~Filled /\ phase = "scan" => result = Sc(LineTo(j))
      /\ ~Filled /\ phase = "finish" => result = Sc(LineTo(End))
  BY <1>1 DEF PrefixCut
<1>6. Scored = ScoreOf(Match)
  BY <1>1 DEF Scored, ScoreOf, Match
<1>7. ASSUME phase = "scan", ~Filled
      PROVE  /\ LineTo(j + 1) \in Seq(PlainRecord)
             /\ Leads(LineTo(j + 1), Cuts(nfa, text, 0))
             /\ (IF Changed THEN Append(result, Scored) ELSE result) = Sc(LineTo(j + 1))
  <2>1. /\ LineTo(j) \in Seq(PlainRecord) /\ LineTo(j + 1) \in Seq(PlainRecord)
        /\ Changed => /\ Match \in PlainRecord
                      /\ LineTo(j + 1) = Append(LineTo(j), Match)
        /\ ~Changed => LineTo(j + 1) = LineTo(j)
        /\ Leads(LineTo(j + 1), Cuts(nfa, text, i))
    BY <1>1, <1>7, ScanCuts
  <2>2. CASE Changed
    <3>1. Sc(Append(LineTo(j), Match)) = Append(Sc(LineTo(j)), ScoreOf(Match))
      BY <2>1, <2>2, ScoredAppend
    <3> QED
      BY <1>1, <1>5, <1>6, <1>7, <2>1, <2>2, <3>1
  <2>3. CASE ~Changed
    BY <1>1, <1>5, <1>7, <2>1, <2>3
  <2> QED
    BY <2>2, <2>3
<1>8. ASSUME Scan(when, Scored, FALSE), when <=> Changed /\ ~Filled
      PROVE  Track' /\ PrefixCut'
  <2>1. /\ Track' /\ phase = "scan" /\ phase' \in {"scan", "finish"}
        /\ phase' = "scan" => LineTo(j)' = LineTo(j + 1)
        /\ phase' = "finish" => Filled' \/ LineTo(End)' = LineTo(j + 1)
    BY <1>8, TrackScan
  <2>2. CASE Filled
    <3>1. result' = result
      BY <1>8, <2>2 DEF Scan, Report
    <3> QED
      BY <1>1, <1>2, <1>4, <2>1, <2>2, <3>1 DEF PrefixCut, ScoredLead
  <2>3. CASE ~Filled
    <3>1. result' = IF Changed THEN Append(result, Scored) ELSE result
      BY <1>8, <2>3 DEF Scan, Report
    <3>2. /\ LineTo(j + 1) \in Seq(PlainRecord)
          /\ Leads(LineTo(j + 1), Cuts(nfa, text, 0))
          /\ result' = Sc(LineTo(j + 1))
      BY <1>7, <2>1, <2>3, <3>1
    <3>3. ScoredLead'
      <4>1. PICK l \in Seq(PlainRecord) : l = LineTo(j + 1)
        BY <3>2
      <4>2. result' = Sc(l) /\ Leads(l, Cuts(nfa, text, 0))
        BY <3>2, <4>1
      <4> QED
        BY <1>1, <4>2 DEF ScoredLead
    <3>4. Filled' => Len(Cuts(nfa, text, 0)) > 1
      <4>1. CASE Changed
        BY <1>1, <2>1, <4>1, AnotherComes
      <4>2. CASE ~Changed
        BY <1>4, <2>3, <3>1, <4>2
      <4> QED
        BY <4>1, <4>2
    <3> QED
      BY <1>1, <2>1, <3>2, <3>3, <3>4 DEF PrefixCut
  <2> QED
    BY <2>2, <2>3
<1>9. ASSUME StopFull, ~Filled PROVE Track' /\ PrefixCut'
  <2>1. /\ phase = "scan" /\ phase' = "finish" /\ Changed
        /\ result' = Append(result, Scored) /\ Len(result) + 1 >= cap
        /\ i' = i
    BY <1>9 DEF StopFull, Full
  <2>2. /\ LineTo(j + 1) \in Seq(PlainRecord)
        /\ Leads(LineTo(j + 1), Cuts(nfa, text, 0))
        /\ result' = Sc(LineTo(j + 1))
    BY <1>7, <1>9, <2>1
  <2>3. ScoredLead'
    <3>1. PICK l \in Seq(PlainRecord) : l = LineTo(j + 1)
      BY <2>2
    <3>2. result' = Sc(l) /\ Leads(l, Cuts(nfa, text, 0))
      BY <2>2, <3>1
    <3> QED
      BY <1>1, <3>2 DEF ScoredLead
  <2>4. Filled'
    <3>1. /\ result' = Append(Sc(LineTo(j)), ScoreOf(Match)) /\ Match \in PlainRecord
          /\ LineTo(j) \in Seq(PlainRecord)
      BY <1>1, <1>5, <1>6, <1>9, <2>1, ScanCuts
    <3>2. Len(result') = Len(LineTo(j + 1)) /\ Len(result) = Len(LineTo(j))
      BY <1>5, <1>9, <2>1, <2>2, <3>1, ScoredIs
    <3>3. LineTo(j + 1) = Append(LineTo(j), Match)
      BY <2>1, ScanCuts
    <3>4. Len(result') = Len(result) + 1
      BY <3>1, <3>2, <3>3
    <3> QED
      BY <1>1, <1>3, <2>1, <3>4 DEF Filled, Buffered, Hold, Short
  <2>5. Track'
    BY <1>1, <2>1, <2>4 DEF Track
  <2>6. Len(Cuts(nfa, text, 0)) > 1
    BY <1>1, <2>1, AnotherComes
  <2> QED
    BY <1>1, <2>1, <2>3, <2>4, <2>5, <2>6 DEF PrefixCut
<1>10. ASSUME FinishPrefix PROVE Track' /\ PrefixCut'
  <2>1. /\ phase = "finish" /\ phase' = "returned"
        /\ result' = IF pre_match_type > 0 /\ ~Filled /\ ~Short THEN Append(result, Scored)
                     ELSE result
    BY <1>4, <1>10 DEF FinishPrefix, Report
  <2>2. Track'
    BY <2>1 DEF Track
  <2>3. CASE Filled
    BY <1>1, <1>2, <1>4, <2>1, <2>2, <2>3 DEF PrefixCut, ScoredLead
  <2>4. CASE ~Filled /\ ~Short
    <3>1. /\ pre_match_type > 0 =>
               /\ Cuts(nfa, text, i) = Append(LineTo(End), Match)
               /\ Match \in PlainRecord
          /\ ~(pre_match_type > 0) => Cuts(nfa, text, i) = <<>> /\ LineTo(End) = <<>>
          /\ End \in i .. End /\ i \in 0 .. Len(text)
      BY <2>1, <2>4, FinishFacts DEF Searches
    <3>2. LineTo(End) \in Seq(PlainRecord)
      <4>1. End \in i .. Len(text) + 1
        BY <1>1, <3>1 DEF End
      <4> QED
        BY <1>1, <3>1, <4>1, SureFits DEF Accepted, LineTo
    <3>3. result = Sc(LineTo(End))
      BY <1>5, <2>1, <2>4
    <3>4. result' = Sc(Cuts(nfa, text, 0)) /\ Cuts(nfa, text, 0) \in Seq(PlainRecord)
      <4>1. CASE pre_match_type > 0
        <5>1. Sc(Append(LineTo(End), Match)) = Append(Sc(LineTo(End)), ScoreOf(Match))
          BY <3>1, <3>2, <4>1, ScoredAppend
        <5>2. result' = Append(Sc(LineTo(End)), ScoreOf(Match))
          BY <1>6, <2>1, <2>4, <3>3, <4>1
        <5>3. Cuts(nfa, text, 0) = Append(LineTo(End), Match)
          BY <1>1, <3>1, <4>1
        <5>4. Append(LineTo(End), Match) \in Seq(PlainRecord)
          BY <3>1, <3>2, <4>1
        <5> QED
          BY <5>1, <5>2, <5>3, <5>4
      <4>2. CASE ~(pre_match_type > 0)
        BY <1>1, <2>1, <3>1, <3>2, <3>3, <4>2
      <4> QED
        BY <4>1, <4>2
    <3>5. ScoredLead'
      <4>1. PICK l \in Seq(PlainRecord) : l = Cuts(nfa, text, 0)
        BY <3>4
      <4>2. result' = Sc(l) /\ Leads(l, Cuts(nfa, text, 0))
        BY <3>4, <4>1, LeadsOn
      <4> QED
        BY <1>1, <4>2 DEF ScoredLead
    <3>6. result' = Scores(nfa, text)'
      BY <1>1, <3>4, ScoresAre
    <3> QED
      BY <1>4, <2>1, <2>2, <2>4, <3>5, <3>6 DEF PrefixCut
  <2>5. CASE ~Filled /\ Short
    <3>1. /\ pre_match_type > 0 =>
               /\ Cuts(nfa, text, i) = Append(LineTo(End), Match)
               /\ Match \in PlainRecord
          /\ ~(pre_match_type > 0) => Cuts(nfa, text, i) = <<>>
          /\ End \in i .. End /\ i \in 0 .. Len(text)
      BY <2>1, <2>5, FinishFacts DEF Searches
    <3>2. PICK l \in Seq(PlainRecord) : l = LineTo(End)
      <4>1. End \in i .. Len(text) + 1
        BY <1>1, <3>1 DEF End
      <4> QED
        BY <1>1, <3>1, <4>1, SureFits DEF Accepted, LineTo
    <3>3. Len(l) = 0
      BY <1>4, <1>5, <2>1, <2>5, <3>2, ScoredIs
    <3>4. Len(Cuts(nfa, text, 0)) <= 1
      <4>1. CASE pre_match_type > 0
        <5>1. Cuts(nfa, text, 0) = Append(l, Match) /\ Match \in PlainRecord
          BY <1>1, <3>1, <3>2, <4>1
        <5>2. Len(Append(l, Match)) = Len(l) + 1
          BY <3>2, <5>1
        <5>3. Len(Cuts(nfa, text, 0)) = Len(l) + 1
          BY <5>1, <5>2
        <5> QED
          BY <3>3, <5>3, OneFits
      <4>2. CASE ~(pre_match_type > 0)
        BY <1>1, <3>1, <4>2
      <4> QED
        BY <4>1, <4>2
    <3>5. result' = result /\ ScoredLead' /\ ~Filled'
      BY <1>1, <1>2, <1>4, <2>1, <2>5 DEF ScoredLead
    <3> QED
      BY <1>1, <1>4, <2>1, <2>2, <2>5, <3>4, <3>5 DEF PrefixCut
  <2> QED
    BY <2>3, <2>4, <2>5
<1> QED
  BY <1>8, <1>9, <1>10

LEMMA BeginsAre ==
  ASSUME NEW a, NEW t, Len(t) \in Nat
  PROVE  /\ Begins(a, t) \subseteq 0 .. Len(t) /\ 0 \in Begins(a, t)
         /\ \A s \in Begins(a, t), e \in 0 .. Len(t) :
              e \in CutOff(a, t, s) => e \in Begins(a, t)
         /\ \A D \in SUBSET Begins(a, t) :
              0 \in D /\ (\A d \in D : CutOff(a, t, d) \subseteq D) => D = Begins(a, t)
<1> DEFINE next == [s \in 0 .. Len(t) |-> CutOff(a, t, s)]
           Complete(set) == 0 \in set /\ \A s \in set : next[s] \subseteq set
<1>1. Begins(a, t) = { s \in 0 .. Len(t) :
                         \A set \in SUBSET (0 .. Len(t)) : Complete(set) => s \in set }
  BY DEF Begins
<1>2. \A s \in 0 .. Len(t) : next[s] = CutOff(a, t, s)
  OBVIOUS
<1> HIDE DEF next
<1>3. Begins(a, t) \subseteq 0 .. Len(t) /\ 0 \in Begins(a, t)
  BY <1>1
<1>4. ASSUME NEW s \in Begins(a, t), NEW e \in 0 .. Len(t), e \in CutOff(a, t, s)
      PROVE  e \in Begins(a, t)
  <2>1. ASSUME NEW set \in SUBSET (0 .. Len(t)), Complete(set) PROVE e \in set
    <3>1. s \in set
      BY <1>1, <2>1
    <3> QED
      BY <1>2, <1>4, <2>1, <3>1
  <2> QED
    BY <1>1, <2>1
<1>5. ASSUME NEW D \in SUBSET Begins(a, t), 0 \in D, \A d \in D : CutOff(a, t, d) \subseteq D
      PROVE  D = Begins(a, t)
  <2>1. D \in SUBSET (0 .. Len(t))
    BY <1>3
  <2>2. Complete(D)
    BY <1>2, <1>5, <2>1
  <2>3. \A s \in Begins(a, t) : s \in D
    BY <1>1, <2>1, <2>2
  <2> QED
    BY <2>3
<1> QED
  BY <1>3, <1>4, <1>5

(* All matches: those from each beginning that is done, and of the one the *)
(* scan is at what is sure by now. Where a match was cut off the text is   *)
(* begun again, or has been, or is being.                                  *)
Waiting == ToSet(start_positions)
Reached(a, t, D) == UNION { ToSet(Munch(a, t, s, FALSE)) : s \in D }
Settled(a, t, r, set) == \A m \in ToSet(r) : m = Last(Cuts(a, t, m.begin)) \/ m.end \in set
Covered(a, t, D, set) == 0 \in set /\ \A d \in D : CutOff(a, t, d) \subseteq set

Between ==
  \E D \in SUBSET Begins(nfa, text) :
    Covered(nfa, text, D, D \cup Waiting) /\ ToSet(result) = Reached(nfa, text, D)

Round(line) ==
  \E D \in SUBSET Begins(nfa, text), s \in Begins(nfa, text), R \in Seq(PlainRecord) :
    /\ Covered(nfa, text, D, D \cup Waiting \cup {s})
    /\ R \o Munch(nfa, text, i, FALSE) = Munch(nfa, text, s, FALSE)
    /\ ToSet(result) = Reached(nfa, text, D) \cup ToSet(R \o line)
    /\ Settled(nfa, text, R \o line, D \cup Waiting \cup {s})

AnyCut ==
  op = "any" /\ mmap_pattern_ /\ Active =>
    /\ result \in Seq(PlainRecord) /\ Waiting \subseteq Begins(nfa, text)
    /\ phase = "restart"  => Between
    /\ phase = "begin"    => Round(<<>>)
    /\ phase = "scan"     => Round(LineTo(j))
    /\ phase = "finish"   => Round(LineTo(End))
    /\ phase = "returned" => ToSet(result) = AllMatches(nfa, text)

AnySearch == Searches /\ AnyCut /\ op = "any" /\ mmap_pattern_

LEMMA AnyFacts ==
  ASSUME AnySearch
  PROVE  /\ Plain(nfa, text) /\ ~Prefix /\ ~Filled /\ Active /\ Going
         /\ op' = "any" /\ mmap_pattern_' = mmap_pattern_ /\ UNCHANGED <<nfa, text>>
         /\ Len(text) \in Nat /\ start_positions \in Seq(Nat)
         /\ result \in Seq(PlainRecord) /\ Waiting \subseteq Begins(nfa, text)
         /\ Begins(nfa, text) \subseteq 0 .. Len(text)
         /\ \A s \in Begins(nfa, text) : Munch(nfa, text, s, FALSE) \in Seq(PlainRecord)
<1>1. /\ Plain(nfa, text) /\ ~Prefix /\ ~Filled /\ Active /\ Going
      /\ op' = "any" /\ mmap_pattern_' = mmap_pattern_ /\ UNCHANGED <<nfa, text>>
      /\ Len(text) \in Nat /\ start_positions \in Seq(Nat)
  BY Searching DEF AnySearch, Searches, Same, Prefix, Filled, Buffered, Active, Where, ScanTyped
<1>2. result \in Seq(PlainRecord) /\ Waiting \subseteq Begins(nfa, text)
  BY <1>1 DEF AnyCut, AnySearch
<1>3. Begins(nfa, text) \subseteq 0 .. Len(text)
  BY <1>1, BeginsAre
<1>4. \A s \in 0 .. Len(text) : Munch(nfa, text, s, FALSE) \in Seq(PlainRecord)
  BY <1>1, MunchIs
<1> QED
  BY <1>1, <1>2, <1>3, <1>4

LEMMA AnyRestart ==
  ASSUME AnySearch, Restart
  PROVE  Track' /\ AnyCut'
<1>1. /\ Plain(nfa, text) /\ op' = "any" /\ mmap_pattern_' /\ UNCHANGED <<nfa, text, result>>
      /\ Len(text) \in Nat /\ start_positions \in Seq(Nat)
      /\ result \in Seq(PlainRecord) /\ Waiting \subseteq Begins(nfa, text)
      /\ Begins(nfa, text) \subseteq 0 .. Len(text)
      /\ \A s \in Begins(nfa, text) : Munch(nfa, text, s, FALSE) \in Seq(PlainRecord)
      /\ phase = "restart" /\ Active
  BY AnyFacts DEF AnySearch, Restart
<1>2. PICK D \in SUBSET Begins(nfa, text) :
        Covered(nfa, text, D, D \cup Waiting) /\ ToSet(result) = Reached(nfa, text, D)
  BY <1>1 DEF AnySearch, AnyCut, Between
<1>3. CASE start_positions = <<>>
  <2>1. phase' = "returned" /\ start_positions' = <<>>
    BY <1>3 DEF Restart
  <2>2. Waiting = {} /\ Waiting' = {}
    BY <1>3, <2>1, SetOfNone DEF Waiting
  <2>3. D = Begins(nfa, text)
    <3>1. 0 \in D /\ \A d \in D : CutOff(nfa, text, d) \subseteq D
      BY <1>2, <2>2 DEF Covered
    <3> QED
      BY <1>1, <3>1, BeginsAre
  <2>4. ToSet(result) = AllMatches(nfa, text)
    BY <1>2, <2>3 DEF Reached, AllMatches
  <2>5. Track'
    BY <2>1 DEF Track
  <2> QED
    BY <1>1, <2>1, <2>2, <2>4, <2>5 DEF AnyCut
<1>4. CASE start_positions # <<>>
  <2>1. /\ i' = Head(start_positions) /\ start_positions' = Tail(start_positions)
        /\ phase' = "begin"
    BY <1>4 DEF Restart
  <2>2. /\ Head(start_positions) \in Nat
        /\ Waiting = {Head(start_positions)} \cup ToSet(Tail(start_positions))
    BY <1>1, <1>4, SetOfHead DEF Waiting
  <2>3. Waiting = {i'} \cup Waiting' /\ i' \in Begins(nfa, text)
    BY <1>1, <2>1, <2>2 DEF Waiting
  <2>4. Track'
    <3>1. i' \in 0 .. Len(text)
      BY <1>1, <2>3
    <3> QED
      BY <1>1, <2>1, <3>1 DEF Track
  <2>5. Round(<<>>)'
    <3>1. PICK s \in Begins(nfa, text) : s = i'
      BY <2>3
    <3>2. D \cup Waiting = D \cup Waiting' \cup {s}
      BY <2>3, <3>1
    <3>3. Covered(nfa, text, D, D \cup Waiting' \cup {s})
      BY <1>2, <3>2
    <3>4. <<>> \in Seq(PlainRecord) /\ <<>> \o <<>> = <<>>
      BY ConcatSimplifications
    <3>5. <<>> \o Munch(nfa, text, i', FALSE) = Munch(nfa, text, s, FALSE)
      BY <1>1, <3>1, ConcatSimplifications
    <3>6. ToSet(result) = Reached(nfa, text, D) \cup ToSet(<<>> \o <<>>)
      BY <1>2, <3>4, SetOfNone
    <3>7. Settled(nfa, text, <<>> \o <<>>, D \cup Waiting' \cup {s})
      BY <3>4, SetOfNone DEF Settled
    <3> QED
      BY <1>1, <3>3, <3>4, <3>5, <3>6, <3>7 DEF Round
  <2>6. Waiting' \subseteq Begins(nfa, text)
    BY <1>1, <2>3
  <2> QED
    BY <1>1, <2>1, <2>4, <2>5, <2>6 DEF AnyCut
<1> QED
  BY <1>3, <1>4

LEMMA AnyBegin ==
  ASSUME AnySearch, Begin(TRUE, i - 1, "restart")
  PROVE  Track' /\ AnyCut'
<1>1. /\ Plain(nfa, text) /\ ~Prefix /\ Active /\ Searches
      /\ op' = "any" /\ mmap_pattern_' /\ UNCHANGED <<nfa, text>>
      /\ result \in Seq(PlainRecord) /\ Waiting \subseteq Begins(nfa, text)
      /\ \A s \in Begins(nfa, text) : Munch(nfa, text, s, FALSE) \in Seq(PlainRecord)
  BY AnyFacts DEF AnySearch
<1>2. /\ Track' /\ UNCHANGED <<i, result, start_positions>> /\ phase = "begin"
      /\ \/ phase' = "scan" /\ LineTo(j)' = <<>>
         \/ phase' = "restart" /\ i = Len(text)
  BY <1>1, TrackBegin
<1>3. Waiting' = Waiting
  BY <1>2 DEF Waiting
<1>4. PICK D \in SUBSET Begins(nfa, text), s \in Begins(nfa, text), R \in Seq(PlainRecord) :
        /\ Covered(nfa, text, D, D \cup Waiting \cup {s})
        /\ R \o Munch(nfa, text, i, FALSE) = Munch(nfa, text, s, FALSE)
        /\ ToSet(result) = Reached(nfa, text, D) \cup ToSet(R \o <<>>)
        /\ Settled(nfa, text, R \o <<>>, D \cup Waiting \cup {s})
  BY <1>1, <1>2 DEF AnySearch, AnyCut, Round
<1>5. CASE phase' = "scan"
  <2>1. Round(LineTo(j))'
    BY <1>1, <1>2, <1>3, <1>4, <1>5 DEF Round
  <2> QED
    BY <1>1, <1>2, <1>3, <1>5, <2>1 DEF AnyCut
<1>6. CASE phase' = "restart"
  <2>1. R \o <<>> = R /\ Munch(nfa, text, s, FALSE) = R
    <3>1. i = Len(text)
      BY <1>2, <1>6
    <3>2. Munch(nfa, text, i, FALSE) = <<>>
      BY <1>1, <3>1, MunchIs
    <3>3. R \o <<>> = R
      BY ConcatSimplifications
    <3> QED
      BY <1>4, <3>2, <3>3
  <2>2. PICK E \in SUBSET Begins(nfa, text) : E = D \cup {s}
    OBVIOUS
  <2>3. D \cup Waiting \cup {s} = E \cup Waiting
    BY <2>2
  <2>4. Covered(nfa, text, E, E \cup Waiting)
    <3>1. 0 \in E \cup Waiting /\ \A d \in D : CutOff(nfa, text, d) \subseteq E \cup Waiting
      BY <1>4, <2>3 DEF Covered
    <3>2. ASSUME NEW e \in CutOff(nfa, text, s) PROVE e \in E \cup Waiting
      <4>1. PICK m \in ToSet(Munch(nfa, text, s, FALSE)) :
              m # Last(Cuts(nfa, text, m.begin)) /\ e = m.end
        BY <3>2 DEF CutOff
      <4>2. m \in ToSet(R)
        BY <2>1, <4>1
      <4> QED
        BY <1>4, <2>1, <2>3, <4>1, <4>2 DEF Settled
    <3> QED
      BY <2>2, <3>1, <3>2 DEF Covered
  <2>5. ToSet(result) = Reached(nfa, text, E)
    BY <1>4, <2>1, <2>2 DEF Reached
  <2>6. Between'
    BY <1>1, <1>2, <1>3, <2>4, <2>5 DEF Between
  <2> QED
    BY <1>1, <1>2, <1>3, <1>6, <2>6 DEF AnyCut
<1> QED
  BY <1>2, <1>5, <1>6

(* A match that is cut off by a change of type is not the last of its      *)
(* position.                                                               *)
LEMMA CutOffHere ==
  ASSUME AnySearch, phase = "scan", Changed
  PROVE  /\ Match \in PlainRecord /\ Match.begin = i /\ Match.end = pre_match_pos
         /\ pre_match_pos \in 0 .. Len(text)
         /\ Match # Last(Cuts(nfa, text, i))
         /\ Match \in ToSet(Munch(nfa, text, i, FALSE))
<1>1. /\ Plain(nfa, text) /\ Len(text) \in Nat /\ i \in Nat /\ j \in Nat
      /\ Searches /\ ~Prefix
  BY Searching, AnyFacts DEF AnySearch, Searches
<1>2. /\ i \in 0 .. Len(text) /\ j \in i .. Len(text)
      /\ pre_match_pos \in i .. j - 1 /\ Match \in PlainRecord /\ Accepted[j] > 0
  BY <1>1, ScanFacts DEF Searches
<1>3. j <= Last(Cuts(nfa, text, i)).end
  BY <1>1, <1>2, LastBeyond DEF Accepted
<1>4. Match.begin = i /\ Match.end = pre_match_pos
  BY DEF Match
<1>5. Match # Last(Cuts(nfa, text, i))
  BY <1>1, <1>2, <1>3, <1>4
<1>6. Match \in ToSet(Munch(nfa, text, i, FALSE))
  <2>1. /\ LineTo(j) \in Seq(PlainRecord) /\ LineTo(j + 1) \in Seq(PlainRecord)
        /\ LineTo(j + 1) = Append(LineTo(j), Match)
        /\ Leads(LineTo(j + 1), Munch(nfa, text, i, FALSE))
        /\ Munch(nfa, text, i, FALSE) \in Seq(PlainRecord)
    BY <1>1, ScanCuts
  <2>2. PICK l \in Seq(PlainRecord) : l = LineTo(j)
    BY <2>1
  <2>3. PICK m \in PlainRecord : m = Match
    BY <1>2
  <2>4. m \in ToSet(Append(l, m))
    BY SetOf
  <2>5. PICK k \in Seq(PlainRecord) : k = LineTo(j + 1)
    BY <2>1
  <2>6. PICK u \in Seq(PlainRecord) : u = Munch(nfa, text, i, FALSE)
    BY <2>1
  <2>7. ToSet(k) \subseteq ToSet(u)
    <3>1. Leads(k, u)
      BY <2>1, <2>5, <2>6
    <3> QED
      BY <3>1, LeadsOn
  <2> QED
    BY <2>1, <2>2, <2>3, <2>4, <2>5, <2>6, <2>7
<1>7. pre_match_pos \in 0 .. Len(text)
  BY <1>1, <1>2
<1> QED
  BY <1>2, <1>4, <1>5, <1>6, <1>7

LEMMA AnyScan ==
  ASSUME AnySearch, Scan(Changed, Match, FALSE),
         start_positions' = IF Changed THEN Append(start_positions, pre_match_pos)
                            ELSE start_positions
  PROVE  Track' /\ AnyCut'
<1>1. /\ Plain(nfa, text) /\ ~Prefix /\ Active /\ Searches
      /\ op' = "any" /\ mmap_pattern_' /\ UNCHANGED <<nfa, text>> /\ Len(text) \in Nat
      /\ result \in Seq(PlainRecord) /\ Waiting \subseteq Begins(nfa, text)
      /\ start_positions \in Seq(Nat)
      /\ Begins(nfa, text) \subseteq 0 .. Len(text)
      /\ \A s \in Begins(nfa, text) : Munch(nfa, text, s, FALSE) \in Seq(PlainRecord)
  BY AnyFacts DEF AnySearch
<1>2. /\ Track' /\ UNCHANGED i /\ phase = "scan" /\ phase' \in {"scan", "finish"}
      /\ phase' = "scan" => LineTo(j)' = LineTo(j + 1)
      /\ phase' = "finish" => LineTo(End)' = LineTo(j + 1)
  <2>1. ~Filled'
    BY <1>1 DEF Filled, Buffered
  <2> QED
    BY <1>1, <2>1, TrackScan
<1>3. PICK D \in SUBSET Begins(nfa, text), s \in Begins(nfa, text), R \in Seq(PlainRecord) :
        /\ Covered(nfa, text, D, D \cup Waiting \cup {s})
        /\ R \o Munch(nfa, text, i, FALSE) = Munch(nfa, text, s, FALSE)
        /\ ToSet(result) = Reached(nfa, text, D) \cup ToSet(R \o LineTo(j))
        /\ Settled(nfa, text, R \o LineTo(j), D \cup Waiting \cup {s})
  BY <1>1, <1>2 DEF AnySearch, AnyCut, Round
<1>4. result' = IF Changed THEN Append(result, Match) ELSE result
  BY DEF Scan, Report
<1>5. /\ LineTo(j) \in Seq(PlainRecord)
      /\ Changed => LineTo(j + 1) = Append(LineTo(j), Match)
      /\ ~Changed => LineTo(j + 1) = LineTo(j)
      /\ Munch(nfa, text, i, FALSE) \in Seq(PlainRecord)
  BY <1>1, <1>2, ScanCuts
<1> PICK E : E = D \cup Waiting' \cup {s}
  OBVIOUS
<1>6. /\ result' \in Seq(PlainRecord) /\ Waiting' \subseteq Begins(nfa, text)
      /\ Covered(nfa, text, D, E)
      /\ ToSet(result') = Reached(nfa, text, D) \cup ToSet(R \o LineTo(j + 1))
      /\ Settled(nfa, text, R \o LineTo(j + 1), E)
  <2>1. CASE Changed
    <3>1. /\ Match \in PlainRecord /\ Match.begin = i /\ Match.end = pre_match_pos
          /\ pre_match_pos \in 0 .. Len(text)
          /\ Match # Last(Cuts(nfa, text, i))
          /\ Match \in ToSet(Munch(nfa, text, i, FALSE))
      BY <1>2, <2>1, CutOffHere
    <3>2. PICK m \in PlainRecord : m = Match
      BY <3>1
    <3>3. PICK l \in Seq(PlainRecord) : l = LineTo(j)
      BY <1>5
    <3>4. pre_match_pos \in Nat /\ Waiting' = Waiting \cup {pre_match_pos}
      <4>1. pre_match_pos \in Nat
        BY <1>1, <3>1
      <4>2. ToSet(Append(start_positions, pre_match_pos)) =
              ToSet(start_positions) \cup {pre_match_pos}
        BY <1>1, <4>1, SetOf
      <4> QED
        BY <2>1, <4>1, <4>2 DEF Waiting
    <3>5. pre_match_pos \in Begins(nfa, text)
      <4>1. m \in ToSet(Munch(nfa, text, s, FALSE))
        <5>1. PICK u \in Seq(PlainRecord) : u = Munch(nfa, text, i, FALSE)
          BY <1>5
        <5>2. ToSet(R \o u) = ToSet(R) \cup ToSet(u)
          BY SetOf, <3>2
        <5> QED
          BY <1>3, <3>1, <3>2, <5>1, <5>2
      <4>2. m # Last(Cuts(nfa, text, m.begin)) /\ m.end = pre_match_pos
        BY <3>1, <3>2
      <4>3. pre_match_pos \in CutOff(nfa, text, s)
        BY <4>1, <4>2 DEF CutOff
      <4> QED
        BY <1>1, <3>1, <4>3, BeginsAre
    <3>6. E = (D \cup Waiting \cup {s}) \cup {pre_match_pos}
      BY <3>4
    <3>7. /\ R \o LineTo(j + 1) = Append(R \o l, m)
          /\ ToSet(Append(R \o l, m)) = ToSet(R \o l) \cup {m}
      <4>1. R \o Append(l, m) = Append(R \o l, m)
        BY AppendRecord
      <4>2. PICK r \in Seq(PlainRecord) : r = R \o l
        <5>1. R \o l \in Seq(PlainRecord)
          OBVIOUS
        <5> QED
          BY <5>1
      <4>3. ToSet(Append(r, m)) = ToSet(r) \cup {m}
        BY SetOf
      <4> QED
        BY <1>5, <2>1, <3>2, <3>3, <4>1, <4>2, <4>3
    <3>8. ToSet(result') = ToSet(result) \cup {m} /\ result' \in Seq(PlainRecord)
      <4>1. result' = Append(result, m)
        BY <1>4, <2>1, <3>2
      <4>2. ToSet(Append(result, m)) = ToSet(result) \cup {m}
        BY <1>1, SetOf
      <4> QED
        BY <1>1, <4>1, <4>2
    <3>9. Covered(nfa, text, D, E)
      BY <1>3, <3>6 DEF Covered
    <3>10. Settled(nfa, text, R \o LineTo(j + 1), E)
      BY <1>3, <3>1, <3>2, <3>3, <3>6, <3>7 DEF Settled
    <3> QED
      BY <1>1, <1>3, <3>3, <3>4, <3>5, <3>7, <3>8, <3>9, <3>10
  <2>2. CASE ~Changed
    <3>1. Waiting' = Waiting
      BY <2>2 DEF Waiting
    <3> QED
      BY <1>1, <1>3, <1>4, <1>5, <2>2, <3>1
  <2> QED
    BY <2>1, <2>2
<1>8. CASE phase' = "scan"
  <2>1. Round(LineTo(j))'
    BY <1>1, <1>2, <1>3, <1>6, <1>8 DEF Round
  <2> QED
    BY <1>1, <1>2, <1>6, <1>8, <2>1 DEF AnyCut
<1>9. CASE phase' = "finish"
  <2>1. Round(LineTo(End))'
    BY <1>1, <1>2, <1>3, <1>6, <1>9 DEF Round
  <2> QED
    BY <1>1, <1>2, <1>6, <1>9, <2>1 DEF AnyCut
<1> QED
  BY <1>2, <1>8, <1>9

LEMMA AnyFinish ==
  ASSUME AnySearch, Finish(TRUE)
  PROVE  Track' /\ AnyCut'
<1>1. /\ Plain(nfa, text) /\ ~Prefix /\ Active /\ Searches /\ ~Filled
      /\ op' = "any" /\ mmap_pattern_' /\ UNCHANGED <<nfa, text>> /\ Len(text) \in Nat
      /\ result \in Seq(PlainRecord) /\ Waiting \subseteq Begins(nfa, text)
  BY AnyFacts DEF AnySearch
<1>2. Track' /\ phase = "finish" /\ phase' = "begin" /\ start_positions' = start_positions
  BY <1>1, TrackFinish DEF Finish
<1>3. Waiting' = Waiting
  BY <1>2 DEF Waiting
<1>4. PICK D \in SUBSET Begins(nfa, text), s \in Begins(nfa, text), R \in Seq(PlainRecord) :
        /\ Covered(nfa, text, D, D \cup Waiting \cup {s})
        /\ R \o Munch(nfa, text, i, FALSE) = Munch(nfa, text, s, FALSE)
        /\ ToSet(result) = Reached(nfa, text, D) \cup ToSet(R \o LineTo(End))
        /\ Settled(nfa, text, R \o LineTo(End), D \cup Waiting \cup {s})
  BY <1>1, <1>2 DEF AnySearch, AnyCut, Round
<1>5. LineTo(End) \in Seq(PlainRecord)
  BY <1>1, <1>2, FinishCuts
<1>6. CASE pre_match_type > 0
  <2>1. result' = Append(result, Match) /\ i' = pre_match_pos
    BY <1>6 DEF Finish, Report
  <2>2. /\ Match \in PlainRecord
        /\ Last(Cuts(nfa, text, i)) = Match
        /\ Munch(nfa, text, i, FALSE) =
             Append(LineTo(End), Match) \o Munch(nfa, text, pre_match_pos, FALSE)
        /\ pre_match_pos \in 0 .. Len(text)
        /\ Munch(nfa, text, pre_match_pos, FALSE) \in Seq(PlainRecord)
    BY <1>1, <1>2, <1>6, FinishCuts
  <2>3. PICK m \in PlainRecord : m = Match
    BY <2>2
  <2>4. PICK l \in Seq(PlainRecord) : l = LineTo(End)
    BY <1>5
  <2>5. PICK u \in Seq(PlainRecord) : u = Munch(nfa, text, pre_match_pos, FALSE)
    BY <2>2
  <2>6. PICK r \in Seq(PlainRecord) : r = R \o l
    <3>1. R \o l \in Seq(PlainRecord)
      OBVIOUS
    <3> QED
      BY <3>1
  <2>7. PICK v \in Seq(PlainRecord) : v = Append(r, m)
    <3>1. Append(r, m) \in Seq(PlainRecord)
      OBVIOUS
    <3> QED
      BY <3>1
  <2>8. v \o u = Munch(nfa, text, s, FALSE)
    <3>1. v = R \o Append(l, m)
      BY <2>6, <2>7, AppendRecord
    <3>2. PICK c \in Seq(PlainRecord) : c = Append(l, m)
      <4>1. Append(l, m) \in Seq(PlainRecord)
        OBVIOUS
      <4> QED
        BY <4>1
    <3>3. (R \o c) \o u = R \o (c \o u)
      BY ConcatAssociative
    <3>4. Munch(nfa, text, i, FALSE) = c \o u
      BY <2>2, <2>3, <2>4, <2>5, <3>2
    <3> QED
      BY <1>4, <3>1, <3>2, <3>3, <3>4
  <2>9. /\ ToSet(v) = ToSet(r) \cup {m} /\ v \o <<>> = v
        /\ ToSet(Append(result, m)) = ToSet(result) \cup {m}
        /\ Append(result, m) \in Seq(PlainRecord)
    BY <1>1, <2>7, SetOf, ConcatSimplifications
  <2>10. ToSet(result') = Reached(nfa, text, D) \cup ToSet(v \o <<>>)
    BY <1>4, <2>1, <2>3, <2>4, <2>6, <2>9
  <2>11. Settled(nfa, text, v \o <<>>, D \cup Waiting \cup {s})
    <3>1. m.begin = i
      BY <2>3 DEF Match
    <3>2. m = Last(Cuts(nfa, text, m.begin))
      BY <2>2, <2>3, <3>1
    <3> QED
      BY <1>4, <2>4, <2>6, <2>9, <3>2 DEF Settled
  <2>12. Round(<<>>)'
    BY <1>1, <1>3, <1>4, <2>1, <2>5, <2>8, <2>10, <2>11 DEF Round
  <2> QED
    BY <1>1, <1>2, <1>3, <2>1, <2>3, <2>9, <2>12 DEF AnyCut
<1>7. CASE ~(pre_match_type > 0)
  <2>1. result' = result /\ i' = i + 1
    BY <1>7 DEF Finish, Report
  <2>2. LineTo(End) = <<>> /\ Munch(nfa, text, i, FALSE) = Munch(nfa, text, i + 1, FALSE)
    BY <1>1, <1>2, <1>7, FinishCuts
  <2>3. Round(<<>>)'
    BY <1>1, <1>3, <1>4, <2>1, <2>2 DEF Round
  <2> QED
    BY <1>1, <1>2, <1>3, <2>1, <2>3 DEF AnyCut
<1> QED
  BY <1>6, <1>7

-----------------------------------------------------------------------------
(* The whole: from the Nfa to the answer.                                  *)
(* What is searched is the automaton of the Nfa, or none.                  *)
Adopted == IF pc = "ready" THEN Simulates(nfa, machine, Sets) ELSE machine = Empty

NoBody == op = "any" /\ ~mmap_pattern_
Fitting == machine.count > 0 /\ machine.type[0] <= 0 /\ (Prefix => mmap_pattern_)

Served ==
  /\ phase = "thrown" => Unfit
  /\ phase = "returned" /\ NoBody => result = <<>>
  /\ Active => op \in Ops /\ (Fitting \/ (phase = "returned" /\ NoBody))

CutInv ==
  /\ Adopted /\ Track /\ Served
  /\ GreedyCut /\ LongestCut /\ PrefixCut /\ AnyCut

LEMMA AdoptedReady ==
  ASSUME Adopted
  PROVE  /\ Ready
         /\ machine.count > 0 => pc = "ready" /\ machine # Empty
         /\ ~(machine.count > 0) => machine = Empty
<1>1. Empty.count = 0 /\ ~(0 > 0)
  BY DEF Empty
<1> QED
  BY <1>1 DEF Adopted, Ready, Simulates

(* Outside of a search nothing is claimed of the matches.                  *)
Idle == phase = "idle"

LEMMA CutIdle == Adopted /\ Idle => CutInv
<1> SUFFICES ASSUME Adopted, phase = "idle" PROVE CutInv
  BY DEF Idle
<1>1. ~Active /\ phase \notin {"thrown", "returned", "scan", "finish", "begin"}
  BY DEF Active, Going
<1> QED
  BY <1>1 DEF CutInv, Track, Served, GreedyCut, LongestCut, PrefixCut, AnyCut

LEMMA CutInit == Init => CutInv
<1> SUFFICES ASSUME Init PROVE CutInv
  OBVIOUS
<1>1. phase = "idle" /\ pc = "start" /\ machine = Empty
  BY DEF Init, BuildInit, ScanInit
<1> QED
  BY <1>1, CutIdle DEF Adopted, Idle

LEMMA CutBuild == ASSUME CutInv, Build PROVE CutInv'
<1>1. phase' = "idle" /\ machine' = machine /\ pc # "ready" /\ pc' # "ready"
  BY DEF Build, scanVars, InitFromNfa, StartNode, Close, EpsilonClosure, FirstNode, AddEdge,
         CreateDfaNode, TakeNode, TryMove, NodeDone, BuildEnd
<1>2. Adopted'
  BY <1>1 DEF CutInv, Adopted, Empty
<1>3. Idle'
  BY <1>1 DEF Idle
<1> QED
  BY <1>2, <1>3, CutIdle, PTL

LEMMA CutAdopt ==
  ASSUME WholeInv, CutInv, pc = "built", NEW mapped, Adopt(StdMachine(nodes), mapped)
  PROVE  CutInv'
<1>1. /\ phase' = "idle" /\ machine' = StdMachine(nodes) /\ pc' = "ready"
      /\ UNCHANGED <<nfa, id_map, nodes>>
  BY DEF Adopt
<1>2. Simulates(nfa, StdMachine(nodes), Sets)
  BY BuiltSimulates DEF WholeInv
<1>3. Sets' = Sets
  BY <1>1 DEF Sets
<1>4. Adopted'
  BY <1>1, <1>2, <1>3 DEF Adopted
<1>5. Idle'
  BY <1>1 DEF Idle
<1> QED
  BY <1>4, <1>5, CutIdle, PTL

LEMMA FirstType ==
  ASSUME NEW a, NEW m, IsMachine(m), NEW set, Simulates(a, m, set),
         NEW t, Len(t) \in Nat
  PROVE  Accepts(a, t, 0)[0] = m.type[0]
<1>1. IsNfa(a) /\ 0 \in 0 .. Len(t)
  BY DEF Simulates
<1>2. Accepts(a, t, 0)[0] = TypeOf(a, Closure(a, {a.start}))
  BY <1>1, AcceptsIs
<1>3. 0 \in 0 .. m.count - 1
  BY DEF IsMachine, Simulates
<1> QED
  BY <1>2, <1>3 DEF Simulates

(* A call is refused exactly when the automaton is unfit; else the scan    *)
(* begins at the beginning.                                                *)
LEMMA CutCall ==
  ASSUME WholeInv, CutInv, UNCHANGED buildVars, NEW c \in Calls, Call(c)
  PROVE  CutInv'
<1>1. /\ i = 0 /\ j = 0 /\ state = 0 /\ pre_match_pos = -1 /\ pre_match_type = -1
      /\ IsMachine(machine)
  BY DEF WholeInv, ScanInv, Where, CallOK, ScanTyped, Call
<1>2. /\ UNCHANGED <<machine, mmap_pattern_, i, j, state, pre_match_pos, pre_match_type>>
      /\ UNCHANGED <<nfa, id_map, pc>>
      /\ op' = c.op /\ text' = c.text /\ cap' = c.cap /\ result' = <<>>
      /\ start_positions' = IF c.op = "any" THEN [n \in 1 .. 17 |-> 0] ELSE <<>>
      /\ c.op \in Ops /\ c.text \in Seq(Nat)
  BY DEF Call, IsCall, buildVars
<1>3. Sets' = Sets /\ Adopted'
  BY <1>2 DEF CutInv, Adopted, Sets, Empty
<1>4. PICK t \in Seq(Nat) : t = text'
  BY <1>2
<1>5. Len(t) \in Nat /\ 0 \in 0 .. Len(t)
  BY <1>4
<1>6. CASE c.op = "any" /\ ~mmap_pattern_
  <2>1. phase' = "returned"
    BY <1>6 DEF Call
  <2>2. Track'
    BY <2>1 DEF Track
  <2>3. Served'
    BY <1>2, <1>6, <2>1 DEF Served, NoBody
  <2>4. GreedyCut' /\ LongestCut' /\ PrefixCut' /\ AnyCut'
    BY <1>2, <1>6 DEF GreedyCut, LongestCut, PrefixCut, AnyCut, Prefix
  <2> QED
    BY <1>3, <2>2, <2>3, <2>4 DEF CutInv
<1>7. CASE ~(c.op = "any" /\ ~mmap_pattern_) /\ Refused(c.op)
  <2>1. phase' = "thrown"
    BY <1>7 DEF Call
  <2>2. Unfit'
    <3>1. CASE ~(machine.count > 0)
      <4>1. machine = Empty
        BY <3>1, AdoptedReady DEF CutInv
      <4> QED
        BY <1>2, <4>1 DEF Unfit, Empty
    <3>2. CASE machine.count > 0 /\ machine.type[0] > 0
      <4>1. Simulates(nfa, machine, Sets)
        BY <3>2, AdoptedReady DEF CutInv, Adopted
      <4>2. Accepts(nfa, t, 0)[0] > 0
        BY <1>1, <1>5, <3>2, <4>1, FirstType
      <4> QED
        BY <1>2, <1>4, <4>2 DEF Unfit
    <3>3. CASE c.op \in {"prefix_wide", "prefix"} /\ ~mmap_pattern_
      BY <1>2, <3>3 DEF Unfit
    <3>4. machine.count = 0 => ~(machine.count > 0)
      OBVIOUS
    <3> QED
      BY <1>7, <3>1, <3>2, <3>3, <3>4 DEF Refused
  <2>3. ~Active' /\ Track'
    BY <2>1 DEF Active, Going, Track
  <2>4. Served'
    BY <2>1, <2>2, <2>3 DEF Served
  <2>5. GreedyCut' /\ LongestCut' /\ PrefixCut' /\ AnyCut'
    BY <2>3 DEF GreedyCut, LongestCut, PrefixCut, AnyCut
  <2> QED
    BY <1>3, <2>3, <2>4, <2>5 DEF CutInv
<1>8. CASE ~(c.op = "any" /\ ~mmap_pattern_) /\ ~Refused(c.op)
  <2>1. /\ phase' = (IF c.op \in {"prefix_wide", "prefix"} THEN "scan"
                     ELSE IF c.op = "any" THEN "restart" ELSE "begin")
    BY <1>8 DEF Call
  <2>2. /\ machine.count > 0 /\ machine.type[0] <= 0
        /\ c.op \in {"prefix_wide", "prefix"} => mmap_pattern_
    <3>1. machine.count \in Nat /\ machine.count # 0 /\ ~(machine.type[0] > 0)
      BY <1>1, <1>8 DEF Refused, IsMachine
    <3>2. 0 \in 0 .. machine.count - 1
      BY <3>1
    <3>3. machine.type[0] \in Int
      BY <1>1, <3>2 DEF IsMachine
    <3> QED
      BY <1>8, <3>1, <3>3 DEF Refused
  <2>3. Simulates(nfa, machine, Sets)
    BY <2>2, AdoptedReady DEF CutInv, Adopted
  <2>4. Plain(nfa, t)
    <3>1. Accepts(nfa, t, 0)[0] = machine.type[0] /\ IsNfa(nfa)
      BY <1>1, <1>5, <2>3, FirstType DEF Simulates
    <3>2. Accepts(nfa, t, 0)[0] = TypeOf(nfa, Closure(nfa, {nfa.start}))
      BY <1>5, <3>1, AcceptsIs
    <3>3. ~(machine.type[0] > 0)
      BY <1>8 DEF Refused
    <3> QED
      BY <1>5, <3>1, <3>2, <3>3 DEF Plain
  <2>5. Served'
    BY <1>2, <2>1, <2>2 DEF Served, Fitting, Prefix
  <2>6. /\ Sets[0] = Met(nfa, t, 0)[0]
        /\ Latest(Accepts(nfa, t, 0), 0, 0, -1, -1)
        /\ Line(Accepts(nfa, t, 0), 0, Sure(Accepts(nfa, t, 0), 0, 0)) = <<>>
    BY <1>5, <2>3, <2>4, ScanStarts
  <2>7. Track'
    <3>1. CASE c.op \in {"prefix_wide", "prefix"}
      BY <1>1, <1>2, <1>3, <1>4, <1>5, <2>1, <2>6, <3>1 DEF Track, Accepted, Prefix
    <3>2. CASE c.op \notin {"prefix_wide", "prefix"}
      <4>1. phase' \in {"restart", "begin"} /\ 0 <= Len(text')
        BY <1>4, <1>5, <2>1, <3>2
      <4> QED
        BY <1>1, <1>2, <4>1 DEF Track
    <3> QED
      BY <3>1, <3>2
  <2>8. /\ Munch(nfa, t, 0, TRUE) \in Seq(PlainRecord)
        /\ Munch(nfa, t, 0, FALSE) \in Seq(PlainRecord)
        /\ Cuts(nfa, t, 0) \in Seq(PlainRecord) /\ <<>> \in Seq(PlainRecord)
    <3>1. \A g \in BOOLEAN : Munch(nfa, t, 0, g) \in Seq(PlainRecord)
      BY <1>5, <2>4, MunchIs
    <3>2. Cuts(nfa, t, 0) \in Seq(PlainRecord)
      BY <1>5, <2>4, CutsFit
    <3>3. <<>> \in Seq(PlainRecord)
      OBVIOUS
    <3>4. Munch(nfa, t, 0, TRUE) \in Seq(PlainRecord)
      BY <3>1
    <3>5. Munch(nfa, t, 0, FALSE) \in Seq(PlainRecord)
      BY <3>1
    <3> QED
      BY <3>2, <3>3, <3>4, <3>5
  <2>9. GreedyCut'
    <3>1. <<>> \o Munch(nfa, t, 0, TRUE) = Munch(nfa, t, 0, TRUE)
      BY <2>8, ConcatSimplifications
    <3> QED
      BY <1>1, <1>2, <1>4, <2>1, <2>8, <3>1 DEF GreedyCut
  <2>10. /\ \A s \in Seq(PlainRecord) : Leads(<<>>, s)
         /\ \A s \in Seq(PlainRecord) : <<>> \o s = s
    <3>1. \A s \in Seq(PlainRecord) : <<>> \o s = s
      BY ConcatSimplifications
    <3> QED
      BY <3>1 DEF Leads
  <2>11. LongestCut'
    <3>1. <<>> = <<>> \o <<>>
      BY <2>8, <2>10
    <3>2. <<>> \o Munch(nfa, t, 0, FALSE) = Munch(nfa, t, 0, FALSE)
      BY <2>8, <2>10
    <3>3. Parsed(<<>>)'
      BY <1>1, <1>2, <1>4, <2>8, <3>1, <3>2 DEF Parsed
    <3>4. Leads(<<>>, Munch(nfa, t, 0, FALSE))
      BY <2>8, <2>10
    <3> QED
      BY <1>2, <1>4, <2>1, <2>8, <3>3, <3>4 DEF LongestCut, Cutting
  <2>12. PrefixCut'
    <3>1. Sc(<<>>) = <<>>
      <4>1. Len(<<>>) = 0
        OBVIOUS
      <4> QED
        BY <4>1 DEF Sc
    <3>2. ScoredLead'
      <4>1. Leads(<<>>, Cuts(nfa, t, 0))
        BY <2>8, <2>10
      <4> QED
        BY <1>2, <1>4, <2>8, <3>1, <4>1 DEF ScoredLead
    <3>3. LineTo(j)' = <<>>
      BY <1>1, <1>2, <1>4, <2>6 DEF LineTo, Accepted
    <3>4. ~(Short' /\ Filled')
      <4>1. result' = <<>> /\ Len(<<>>) = 0
        BY <1>2, <1>4
      <4>2. Short' => Hold' = 1
        BY DEF Hold
      <4> QED
        BY <4>1, <4>2 DEF Filled
    <3> QED
      BY <1>2, <2>1, <3>1, <3>2, <3>3, <3>4 DEF PrefixCut, Prefix
  <2>13. AnyCut'
    <3>1. ASSUME c.op = "any"
          PROVE  Waiting' = {0} /\ phase' = "restart"
      <4>1. start_positions' = [n \in 1 .. 17 |-> 0]
        BY <1>2, <3>1
      <4>2. DOMAIN start_positions' = 1 .. 17 /\ 1 \in 1 .. 17
            /\ \A n \in 1 .. 17 : start_positions'[n] = 0
        BY <4>1
      <4>3. Waiting' = { start_positions'[n] : n \in 1 .. 17 }
        BY <4>2 DEF Waiting, ToSet
      <4> QED
        BY <2>1, <3>1, <4>2, <4>3
    <3>2. 0 \in Begins(nfa, t)
      BY <1>5, BeginsAre
    <3>3. Covered(nfa, t, {}, {} \cup {0})
      BY DEF Covered
    <3>4. ToSet(<<>>) = Reached(nfa, t, {})
      BY SetOfNone DEF Reached
    <3>5. ASSUME c.op = "any" PROVE Between'
      BY <1>2, <1>4, <3>1, <3>3, <3>4, <3>5 DEF Between
    <3> QED
      BY <1>2, <1>4, <2>1, <2>8, <3>1, <3>2, <3>5 DEF AnyCut
  <2> QED
    BY <1>3, <2>5, <2>7, <2>9, <2>11, <2>12, <2>13 DEF CutInv
<1> QED
  BY <1>6, <1>7, <1>8

(* A step of a search: it keeps the automaton and the call.                *)
Stepping == WholeInv /\ CutInv /\ UNCHANGED buildVars

LEMMA StepFacts ==
  ASSUME Stepping, Going
  PROVE  /\ Where /\ Ready /\ Track /\ Adopted /\ Fitting /\ op \in Ops /\ Reports
         /\ GreedyCut /\ LongestCut /\ PrefixCut /\ AnyCut
         /\ result \in Seq(Record) /\ Len(result) \in Nat /\ cap \in Nat
         /\ ~Short => (Filled <=> Buffered /\ ~Room)
         /\ Same => Searches
<1>1. /\ Where /\ Ready /\ Track /\ Adopted /\ Reports
      /\ GreedyCut /\ LongestCut /\ PrefixCut /\ AnyCut
  BY AdoptedReady DEF Stepping, WholeInv, ScanInv, CutInv
<1>2. Fitting /\ op \in Ops
  BY DEF Stepping, CutInv, Served, Active, Going
<1>3. result \in Seq(Record) /\ cap \in Nat
  BY <1>1 DEF Reports, Where, ScanTyped
<1>4. Len(result) \in Nat
  BY <1>3
<1>5. ~Short => (Filled <=> Buffered /\ ~Room)
  BY <1>3, <1>4 DEF Filled, Room, Hold
<1>6. Same => Searches
  BY <1>1 DEF Searches, Stepping, buildVars
<1> QED
  BY <1>1, <1>2, <1>3, <1>4, <1>5, <1>6

(* What is left to show of a step of the search with one function.         *)
LEMMA CutStays ==
  ASSUME Stepping, Going, Same, Track', phase' \in {"restart", "begin", "scan", "finish", "returned"},
         op = "greedy" => GreedyCut',
         op \in {"longest", "longest_buffer"} => LongestCut',
         Prefix => PrefixCut',
         op = "any" => mmap_pattern_ /\ AnyCut'
  PROVE  CutInv'
<1>1. /\ UNCHANGED <<nfa, id_map, pc, machine, mmap_pattern_, op, text, cap>>
      /\ Adopted /\ Fitting /\ op \in Ops
  BY StepFacts DEF Stepping, buildVars, Same
<1>2. Adopted'
  <2>1. Sets' = Sets
    BY <1>1 DEF Sets
  <2> QED
    BY <1>1, <2>1 DEF Adopted, Empty
<1>3. Served'
  <2>1. Fitting' /\ op' \in Ops
    BY <1>1 DEF Fitting, Prefix
  <2>2. ~NoBody'
    BY <1>1 DEF NoBody
  <2> QED
    BY <2>1, <2>2 DEF Served
<1>4. GreedyCut' /\ LongestCut' /\ PrefixCut' /\ AnyCut'
  BY <1>1 DEF GreedyCut, LongestCut, PrefixCut, AnyCut, Prefix
<1> QED
  BY <1>2, <1>3, <1>4 DEF CutInv

LEMMA BeginMoves ==
  ASSUME NEW room, NEW pos, NEW end \in {"returned", "restart"}, Begin(room, pos, end)
  PROVE  Going /\ Same /\ phase' \in {"restart", "begin", "scan", "finish", "returned"}
BY DEF Begin, Going

LEMMA ScanMoves ==
  ASSUME NEW when, NEW what, NEW leave, Scan(when, what, leave)
  PROVE  Going /\ Same /\ phase' \in {"restart", "begin", "scan", "finish", "returned"}
BY DEF Scan, Advance, Going

LEMMA FinishMoves ==
  ASSUME NEW room, Finish(room)
  PROVE  Going /\ Same /\ phase' \in {"restart", "begin", "scan", "finish", "returned"}
BY DEF Finish, Going

LEMMA CutGreedy ==
  ASSUME Stepping, GreedyMatchInStdPattern \/ GreedyMatchInMmapPattern PROVE CutInv'
<1>1. /\ op = "greedy"
      /\ Begin(TRUE, -1, "returned") \/ Scan(FALSE, Match, FALSE) \/ Finish(TRUE)
  BY DEF GreedyMatchInStdPattern, GreedyMatchInMmapPattern, Running
<1>2. Going /\ Same /\ phase' \in {"restart", "begin", "scan", "finish", "returned"}
  BY <1>1, BeginMoves, ScanMoves, FinishMoves
<1>3. Searches /\ GreedyCut
  BY <1>2, StepFacts
<1>4. Track' /\ GreedyCut'
  BY <1>1, <1>3, GreedyKept
<1> QED
  BY <1>1, <1>2, <1>4, CutStays DEF Prefix

LEMMA CutLongest ==
  ASSUME Stepping, LongestAnyMatchInStdPattern \/ LongestAnyMatchInMmapPattern PROVE CutInv'
<1>1. /\ op = "longest"
      /\ Begin(TRUE, -1, "returned") \/ Scan(Changed, Match, FALSE) \/ Finish(TRUE)
  BY DEF LongestAnyMatchInStdPattern, LongestAnyMatchInMmapPattern, Running
<1>2. Going /\ Same /\ phase' \in {"restart", "begin", "scan", "finish", "returned"}
  BY <1>1, BeginMoves, ScanMoves, FinishMoves
<1>3. Searches /\ LongestCut
  BY <1>2, StepFacts
<1>4. ~Filled
  BY <1>1 DEF Filled, Buffered
<1>5. Track' /\ LongestCut'
  <2>1. op \in {"longest", "longest_buffer"} /\ (TRUE <=> ~Filled) /\ (FALSE => Filled')
        /\ (Changed <=> Changed /\ ~Filled)
    BY <1>1, <1>4
  <2> QED
    BY <1>1, <1>3, <2>1, LongestKept
<1> QED
  BY <1>1, <1>2, <1>5, CutStays DEF Prefix

LEMMA CutBuffer ==
  ASSUME Stepping, LongestAnyMatchInStdBuffer \/ LongestAnyMatchInMmapBuffer PROVE CutInv'
<1> DEFINE leave == Changed /\ Len(result) + 1 >= cap
<1>1. /\ op = "longest_buffer"
      /\ \/ Begin(Room, -1, "returned")
         \/ Scan(Changed /\ Room, Match, FALSE)
         \/ mmap_pattern_ /\ Scan(Changed, Match, leave)
         \/ Finish(Room)
  BY DEF LongestAnyMatchInStdBuffer, LongestAnyMatchInMmapBuffer, Running
<1>2. Going /\ Same /\ phase' \in {"restart", "begin", "scan", "finish", "returned"}
  <2> HIDE DEF leave
  <2> QED
    BY <1>1, BeginMoves, ScanMoves, FinishMoves
<1>3. /\ Searches /\ LongestCut /\ Reports /\ Len(result) \in Nat /\ cap \in Nat
      /\ result \in Seq(Record) /\ ~Short
      /\ Filled <=> Buffered /\ ~Room
  BY <1>1, <1>2, StepFacts DEF Short
<1>4. (Room <=> ~Filled) /\ op \in {"longest", "longest_buffer"}
  BY <1>1, <1>3 DEF Buffered
<1>5. CASE Begin(Room, -1, "returned")
  <2>1. Track' /\ LongestCut'
    BY <1>3, <1>4, <1>5, LongestKept
  <2> QED
    BY <1>1, <1>2, <2>1, CutStays DEF Prefix
<1>6. CASE Scan(Changed /\ Room, Match, FALSE)
  <2>1. Changed /\ Room <=> Changed /\ ~Filled
    BY <1>4
  <2>2. Track' /\ LongestCut'
    BY <1>3, <1>4, <1>6, <2>1, LongestKept
  <2> QED
    BY <1>1, <1>2, <2>2, CutStays DEF Prefix
<1>7. CASE mmap_pattern_ /\ Scan(Changed, Match, leave)
  <2>1. Len(result) < cap
    BY <1>1, <1>3, <1>7 DEF Reports, RoomOK, Buffered, Leaves, Scan, Hold
  <2>2. Changed <=> Changed /\ ~Filled
    BY <1>3, <2>1 DEF Room
  <2>3. leave => Filled'
    <3>1. SUFFICES ASSUME leave PROVE Filled'
      OBVIOUS
    <3>2. result' = Append(result, Match) /\ cap' = cap /\ op' = op
      BY <1>7, <3>1 DEF Scan, Report, Same
    <3>3. Len(Append(result, Match)) = Len(result) + 1
      BY <1>3
    <3> QED
      BY <1>1, <3>1, <3>2, <3>3 DEF Filled, Buffered, Hold, Short
  <2>4. Track' /\ LongestCut'
    <3> HIDE DEF leave
    <3> QED
      BY <1>3, <1>4, <1>7, <2>2, <2>3, LongestKept
  <2> QED
    BY <1>1, <1>2, <2>4, CutStays DEF Prefix
<1>8. CASE Finish(Room)
  <2>1. Track' /\ LongestCut'
    BY <1>3, <1>4, <1>8, LongestKept
  <2> QED
    BY <1>1, <1>2, <2>1, CutStays DEF Prefix
<1> HIDE DEF leave
<1> QED
  BY <1>1, <1>5, <1>6, <1>7, <1>8

LEMMA CutPrefix ==
  ASSUME Stepping, MatchInMmapPatternWide \/ MatchInMmapPattern PROVE CutInv'
<1>1. /\ Prefix /\ Buffered
      /\ \/ op = "prefix_wide" /\ Scan(Changed /\ Room, Scored, FALSE)
         \/ op = "prefix" /\ StopFull
         \/ ~Full /\ Scan(Changed, Scored, FALSE)
         \/ FinishPrefix
  BY DEF MatchInMmapPatternWide, MatchInMmapPattern, Running, Prefix, Buffered
<1>2. Going /\ Same /\ phase' \in {"restart", "begin", "scan", "finish", "returned"}
  BY <1>1, ScanMoves DEF StopFull, FinishPrefix, Going
<1>3. /\ Searches /\ PrefixCut /\ Reports /\ Len(result) \in Nat /\ cap \in Nat
      /\ ~Short => (Filled <=> Buffered /\ ~Room)
  BY <1>2, StepFacts
<1>4. ~Short => (Filled <=> ~Room)
  BY <1>1, <1>3
<1>5. Track' /\ PrefixCut'
  <2>1. CASE op = "prefix_wide" /\ Scan(Changed /\ Room, Scored, FALSE)
    <3>1. Changed /\ Room <=> Changed /\ ~Filled
      BY <1>4, <2>1 DEF Short
    <3> QED
      BY <1>1, <1>3, <2>1, <3>1, PrefixKept
  <2>2. CASE op = "prefix" /\ StopFull
    <3>1. ~Filled
      <4>1. Len(result) < Hold
        BY <1>1, <1>3, <2>2 DEF Reports, RoomOK, Leaves, StopFull
      <4> QED
        BY <1>3, <4>1 DEF Filled, Hold
    <3> QED
      BY <1>1, <1>3, <2>2, <3>1, PrefixKept
  <2>3. CASE ~Full /\ Scan(Changed, Scored, FALSE)
    <3>1. Changed => Room /\ ~Short
      BY <1>3, <2>3 DEF Full, Room, Short
    <3>2. Report(Changed, Scored) = Report(Changed /\ Room, Scored)
      BY <3>1 DEF Report
    <3>3. Scan(Changed /\ Room, Scored, FALSE)
      BY <2>3, <3>2 DEF Scan
    <3>4. Changed /\ Room <=> Changed /\ ~Filled
      BY <1>4, <3>1
    <3> QED
      BY <1>1, <1>3, <3>3, <3>4, PrefixKept
  <2>4. CASE FinishPrefix
    BY <1>1, <1>3, <2>4, PrefixKept
  <2> QED
    BY <1>1, <2>1, <2>2, <2>3, <2>4
<1> QED
  BY <1>1, <1>2, <1>5, CutStays DEF Prefix

LEMMA CutAny == ASSUME Stepping, AnyMatchInMmapPattern PROVE CutInv'
<1>1. /\ op = "any" /\ mmap_pattern_
      /\ \/ Restart
         \/ Begin(TRUE, i - 1, "restart")
         \/ /\ Scan(Changed, Match, FALSE)
            /\ start_positions' = IF Changed THEN Append(start_positions, pre_match_pos)
                                  ELSE start_positions
         \/ Finish(TRUE)
  BY DEF AnyMatchInMmapPattern, Running
<1>2. Going /\ Same /\ phase' \in {"restart", "begin", "scan", "finish", "returned"}
  <2>1. CASE Restart
    BY <2>1 DEF Restart, Going
  <2> QED
    BY <1>1, <2>1, BeginMoves, ScanMoves, FinishMoves
<1>3. AnySearch
  BY <1>1, <1>2, StepFacts DEF AnySearch
<1>4. Track' /\ AnyCut'
  BY <1>1, <1>3, AnyRestart, AnyBegin, AnyScan, AnyFinish
<1> QED
  BY <1>1, <1>2, <1>4, CutStays DEF Prefix

LEMMA CutStep == WholeInv /\ CutInv /\ [Next]_vars => CutInv'
<1> SUFFICES ASSUME WholeInv, CutInv, [Next]_vars PROVE CutInv'
  OBVIOUS
<1>1. CASE Build
  BY <1>1, CutBuild
<1>2. CASE UseNodes
  BY <1>2, CutAdopt DEF UseNodes
<1>3. CASE UseFile
  <2>1. Automaton(nodes) /\ accept_types \subseteq Int /\ IsFiniteSet(accept_types)
    BY <1>3, Built DEF UseFile, WholeInv
  <2>2. pc = "built" /\ Adopt(StdMachine(nodes), FALSE)
    BY <1>3, <2>1, FileKept DEF UseFile
  <2> QED
    BY <2>2, CutAdopt
<1>4. CASE UseMap
  <2>1. Automaton(nodes)
    BY <1>4, Built DEF UseMap, WholeInv
  <2>2. pc = "built" /\ Adopt(StdMachine(nodes), TRUE)
    BY <1>4, <2>1, MapKept DEF UseMap
  <2> QED
    BY <2>2, CutAdopt
<1>5. CASE Search
  <2>1. Stepping
    BY <1>5 DEF Search, Stepping
  <2>2. ASSUME NEW c \in Calls, Call(c) PROVE CutInv'
    BY <2>1, <2>2, CutCall DEF Stepping
  <2>3. CASE Matching
    BY <2>1, <2>3, CutGreedy, CutLongest, CutBuffer, CutPrefix, CutAny DEF Matching
  <2> QED
    BY <1>5, <2>2, <2>3 DEF Search
<1>6. CASE UNCHANGED vars
  <2>1. /\ UNCHANGED <<nfa, id_map, pc, machine, mmap_pattern_, op, text, cap, phase, i, j,
                       state, pre_match_pos, pre_match_type, result, start_positions>>
        /\ Sets' = Sets /\ Active' = Active /\ Prefix' = Prefix /\ Filled' = Filled
        /\ Waiting' = Waiting /\ Short' = Short
    BY <1>6 DEF vars, buildVars, scanVars, Sets, Active, Going, Prefix, Filled, Buffered,
       Waiting, Hold, Short
  <2>2. Adopted'
    BY <2>1 DEF CutInv, Adopted, Empty
  <2>3. Accepted' = Accepted /\ End' = End
    BY <2>1 DEF Accepted, End
  <2>4. LineTo(j)' = LineTo(j) /\ LineTo(End)' = LineTo(End)
    BY <2>1, <2>3 DEF LineTo
  <2>5. Track'
    BY <2>1, <2>3 DEF CutInv, Track
  <2>6. Served'
    BY <2>1 DEF CutInv, Served, Unfit, Empty, NoBody, Fitting
  <2>7. GreedyCut'
    BY <2>1 DEF CutInv, GreedyCut
  <2>8. LongestCut'
    BY <2>1, <2>4 DEF CutInv, LongestCut, Cutting, Parsed
  <2>9. PrefixCut'
    BY <2>1, <2>4 DEF CutInv, PrefixCut, ScoredLead
  <2>10. AnyCut'
    BY <2>1, <2>4 DEF CutInv, AnyCut, Between, Round
  <2> QED
    BY <2>2, <2>5, <2>6, <2>7, <2>8, <2>9, <2>10 DEF CutInv
<1> QED
  BY <1>1, <1>2, <1>3, <1>4, <1>5, <1>6 DEF Next

LEMMA CutExact == ASSUME WholeInv, CutInv PROVE MatchExact
<1>1. phase = "thrown" => Unfit
  BY DEF CutInv, Served
<1>2. ASSUME phase = "returned", op = "any"
      PROVE  ToSet(result) = IF mmap_pattern_ THEN AllMatches(nfa, text) ELSE {}
  <2>1. CASE mmap_pattern_
    BY <1>2, <2>1 DEF CutInv, AnyCut, Active
  <2>2. CASE ~mmap_pattern_
    BY <1>2, <2>2, SetOfNone DEF CutInv, Served, NoBody
  <2> QED
    BY <2>1, <2>2
<1>3. ASSUME phase = "returned", op # "any"
      PROVE  ~Unfit /\ result = Expected
  <2>1. /\ Active /\ Fitting /\ op \in Ops /\ Adopted /\ machine # Empty /\ pc = "ready"
        /\ IsMachine(machine) /\ text \in Seq(Nat) /\ Reports /\ cap \in Nat
    BY <1>3, AdoptedReady
       DEF CutInv, Served, Active, NoBody, WholeInv, ScanInv, Where, ScanTyped, Fitting
  <2>2. Simulates(nfa, machine, Sets) /\ Len(text) \in Nat
    BY <2>1 DEF Adopted
  <2>3. Accepts(nfa, text, 0)[0] = machine.type[0] /\ 0 \in 0 .. Len(text)
    BY <2>1, <2>2, FirstType
  <2>4. ~(machine.type[0] > 0)
    <3>1. 0 \in 0 .. machine.count - 1
      BY <2>1 DEF IsMachine, Fitting
    <3>2. machine.type[0] \in Int
      BY <2>1, <3>1 DEF IsMachine
    <3> QED
      BY <2>1, <3>2 DEF Fitting
  <2>5. ~Unfit
    BY <2>1, <2>3, <2>4 DEF Unfit, Fitting, Prefix
  <2>6. Plain(nfa, text)
    <3>1. IsNfa(nfa)
      BY <2>2 DEF Simulates
    <3>2. Accepts(nfa, text, 0)[0] = TypeOf(nfa, Closure(nfa, {nfa.start}))
      BY <2>2, <2>3, <3>1, AcceptsIs
    <3> QED
      BY <2>2, <2>3, <2>4, <3>1, <3>2 DEF Plain
  <2>7. PICK all \in Seq(PlainRecord) : all = Munch(nfa, text, 0, FALSE)
    <3>1. \A g \in BOOLEAN : Munch(nfa, text, 0, g) \in Seq(PlainRecord)
      BY <2>3, <2>6, MunchIs
    <3> QED
      BY <3>1
  <2>8. PICK cuts \in Seq(PlainRecord) : cuts = Cuts(nfa, text, 0)
    BY <2>3, <2>6, CutsFit
  <2>9. Buffered => Len(result) <= Hold
    BY <2>1 DEF Reports, RoomOK
  <2>10. CASE op = "greedy"
    BY <1>3, <2>1, <2>5, <2>10 DEF CutInv, GreedyCut, Expected
  <2>11. CASE op = "longest"
    <3>1. ~Filled
      BY <2>11 DEF Filled, Buffered
    <3> QED
      BY <1>3, <2>1, <2>5, <2>11, <3>1 DEF CutInv, LongestCut, Cutting, Expected
  <2>12. CASE op = "longest_buffer"
    <3>1. /\ result \in Seq(PlainRecord) /\ Leads(result, all)
          /\ ~Filled => result = all
          /\ Len(result) <= cap /\ Len(result) \in Nat
      <4>1. /\ result \in Seq(PlainRecord) /\ Leads(result, all)
            /\ ~Filled => result = all
        BY <1>3, <2>1, <2>7, <2>12 DEF CutInv, LongestCut, Cutting
      <4>2. Len(result) <= cap
        BY <2>9, <2>12 DEF Buffered, Hold, Short
      <4>3. Len(result) \in Nat
        BY <4>1
      <4> QED
        BY <4>1, <4>2, <4>3
    <3>2. result = Fit(all, cap)
      <4>1. CASE Filled
        <5>1. Len(result) = cap
          BY <2>1, <2>12, <3>1, <4>1 DEF Filled, Hold, Short
        <5>2. PICK q \in Seq(PlainRecord) : all = result \o q
          BY <3>1 DEF Leads
        <5> QED
          BY <2>1, <3>1, <5>1, <5>2, FitIs
      <4>2. CASE ~Filled
        BY <2>1, <3>1, <4>2, FitIs
      <4> QED
        BY <4>1, <4>2
    <3> QED
      BY <2>5, <2>7, <2>12, <3>2 DEF Expected
  <2>13. CASE Prefix
    <3>1. PICK L \in Seq(PlainRecord) : result = Sc(L) /\ Leads(L, cuts)
      BY <2>1, <2>8, <2>13 DEF CutInv, PrefixCut, ScoredLead
    <3>2. /\ ~Filled /\ ~Short => result = Sc(cuts)
          /\ ~Filled /\ Short => Len(cuts) <= 1
          /\ Filled /\ Short => Len(cuts) > 1
      BY <1>3, <2>1, <2>8, <2>13, ScoresAre DEF CutInv, PrefixCut
    <3>3. /\ result \in Seq(ScoredRecord) /\ Len(result) \in Nat
      BY <3>1, ScoredIs
    <3>4. Len(result) <= Hold
      BY <2>9, <2>13 DEF Prefix, Buffered
    <3>5. PICK all2 \in Seq(ScoredRecord) : all2 = Sc(cuts) /\ Len(all2) = Len(cuts)
      BY ScoredIs
    <3>6. CASE Filled
      <4>1. Len(result) = Hold /\ Hold \in Nat
        <5>1. Hold \in Nat
          BY <2>1 DEF Hold
        <5>2. Len(result) >= Hold
          BY <3>6 DEF Filled
        <5> QED
          BY <3>3, <3>4, <5>1, <5>2
      <4>2. PICK q \in Seq(PlainRecord) : cuts = L \o q
        BY <3>1 DEF Leads
      <4>3. Sc(L \o q) = Sc(L) \o Sc(q)
        BY ScoredConcat
      <4>4. PICK r \in Seq(ScoredRecord) : r = Sc(q)
        BY ScoredIs
      <4>5. all2 = result \o r
        BY <3>1, <3>5, <4>2, <4>3, <4>4
      <4>6. result = Fit(all2, Hold)
        BY <3>3, <4>1, <4>5, FitIs
      <4>7. Expected = Fit(all2, Hold)
        <5>1. CASE Short
          BY <2>8, <3>2, <3>5, <3>6, <5>1, ScoresAre DEF Expected, FitUINT16, Hold, Short
        <5>2. CASE ~Short
          BY <2>8, <2>13, <3>5, <5>2, ScoresAre DEF Expected, Prefix, FitUINT16, Hold, Short
        <5> QED
          BY <5>1, <5>2
      <4> QED
        BY <2>5, <4>6, <4>7
    <3>7. CASE ~Filled /\ ~Short
      <4>1. result = all2
        BY <3>2, <3>5, <3>7
      <4>2. Len(all2) <= cap
        BY <3>4, <3>7, <4>1 DEF Hold
      <4>3. Expected = Fit(all2, cap)
        BY <2>8, <2>13, <3>5, <3>7, ScoresAre DEF Expected, Prefix, FitUINT16, Short
      <4> QED
        BY <2>1, <2>5, <4>1, <4>2, <4>3, FitIs
    <3>8. CASE ~Filled /\ Short
      <4>1. Len(result) = 0
        BY <2>13, <3>3, <3>8 DEF Filled, Hold, Prefix, Buffered
      <4>2. result = <<>>
        BY <3>3, <4>1
      <4>3. all2 = <<>> \o all2 /\ <<>> \in Seq(ScoredRecord) /\ Len(<<>>) = 0
        BY ConcatSimplifications
      <4>4. Fit(all2, 0) = <<>>
        BY <4>3, FitIs
      <4>5. Expected = Fit(all2, 0)
        <5>1. ~(Len(all2) > 1)
          BY <3>2, <3>5, <3>8
        <5> QED
          BY <2>8, <3>5, <3>8, <5>1, ScoresAre DEF Expected, FitUINT16, Short
      <4> QED
        BY <2>5, <4>2, <4>4, <4>5
    <3> QED
      BY <3>6, <3>7, <3>8
  <2> QED
    BY <1>3, <2>1, <2>10, <2>11, <2>12, <2>13 DEF Ops, Prefix
<1> QED
  BY <1>1, <1>2, <1>3 DEF MatchExact

(* Whatever the Nfa, the text, the function and the form the automaton is  *)
(* searched in, a search answers with what the paths of the Nfa spell, and *)
(* is refused exactly when there is nothing to search with.                *)
THEOREM PatternMatches == Spec => []MatchExact
<1>1. Spec => []CutInv
  BY CutInit, CutStep, WholeInvariant, PTL DEF Spec
<1>2. WholeInv /\ CutInv => MatchExact
  BY CutExact
<1> QED
  BY <1>1, <1>2, WholeInvariant, PTL
=============================================================================
