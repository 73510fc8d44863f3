------------------------------ MODULE DfaBuild ------------------------------
(* The construction of a pattern automaton: Dfa::InitFromNfa of            *)
(* src/segmenter/dfa.cpp with EpsilonClosure, Move and CreateDfaNode. The  *)
(* automaton is built node by node from a queue of nodes that still have   *)
(* to be expanded; each node stands for a set of nodes of the Nfa.         *)
(*                                                                         *)
(* Ids are those of the code, from 0: the node with id k is nodes[k + 1].  *)
(* In the Nfa the symbol of an edge is kept at the node the edge leads to, *)
(* and the symbol 0 marks an edge that reads nothing.                      *)
EXTENDS Integers, Sequences, FiniteSets

CONSTANT Nfas        \* the automata that may be given to InitFromNfa

VARIABLES
  nfa,               \* the argument
  pc,                \* where InitFromNfa is
  nfa_set, queue,    \* nfa_start_set or nfa_move_set; the queue of its closure
  nodes,             \* nodes_, each with its type and its edges
  id_map,            \* id_map_: freed at the end in the code, kept here
  accept_types,      \* accept_types_
  dfa_queue,         \* the nodes to expand
  dfa_mark,          \* the nodes that have been taken from the queue
  sym                \* the symbol being tried; 0 while the start is built

buildVars == <<nfa, pc, nfa_set, queue, nodes, id_map, accept_types,
               dfa_queue, dfa_mark, sym>>

Epsilon == 0
NoNode  == -1

(* The Nfa as InitFromNfa uses it: its nodes, the start at the head of the *)
(* table on top of its stack, and symbols_ in ascending order, which has   *)
(* the symbols that appear in it.                                          *)
SymbolsOf(a) == { a.symbols[k] : k \in 1 .. Len(a.symbols) }

IsNfa(a) ==
  /\ a.ids \subseteq Nat
  /\ IsFiniteSet(a.ids)
  /\ a.start \in a.ids
  /\ a.symbol \in [a.ids -> {Epsilon} \cup SymbolsOf(a)]
  /\ a.type \in [a.ids -> Int]
  /\ a.succ \in [a.ids -> SUBSET a.ids]
  /\ a.symbols \in Seq(Nat \ {Epsilon})
  /\ \A p, q \in 1 .. Len(a.symbols) : p < q => a.symbols[p] < a.symbols[q]

-----------------------------------------------------------------------------
(* Move: the nodes reached from a set over edges that read the symbol.     *)
Move(a, from, symbol) ==
  { n \in a.ids : a.symbol[n] = symbol /\ \E m \in from : n \in a.succ[m] }

(* The type of a node: that of the last accepting member of its set.       *)
TypeOf(a, set) ==
  LET final == { n \in set : a.type[n] > 0 }
  IN  IF final = {} THEN -1
      ELSE a.type[CHOOSE n \in final : \A m \in final : m <= n]

Taken  == Head(dfa_queue)
Symbol == nfa.symbols[sym]

-----------------------------------------------------------------------------
BuildInit ==
  /\ nfa \in { a \in Nfas : IsNfa(a) }
  /\ pc = "start"
  /\ nfa_set = {} /\ queue = {}
  /\ nodes = <<>> /\ id_map = <<>> /\ accept_types = {}
  /\ dfa_queue = <<>> /\ dfa_mark = {}
  /\ sym = 0

(* The set whose closure is wanted enters the queue of EpsilonClosure.     *)
Close(set) ==
  /\ nfa_set' = set
  /\ queue' = set
  /\ pc' = "close"

StartNode ==
  /\ pc = "start"
  /\ Close({nfa.start})
  /\ UNCHANGED <<nfa, nodes, id_map, accept_types, dfa_queue, dfa_mark, sym>>

(* A closure that adds no node to the set, and one that looks only at the  *)
(* edges of the set it was given.                                          *)
ClosureForgets ==
  /\ pc = "close"
  /\ \E n \in queue :
       queue' = (queue \ {n}) \cup
                ({ m \in nfa.succ[n] : nfa.symbol[m] = Epsilon } \ nfa_set)
  /\ UNCHANGED <<nfa, pc, nfa_set, nodes, id_map, accept_types, dfa_queue,
                 dfa_mark, sym>>
ClosureOneRound ==
  /\ pc = "close"
  /\ \E n \in queue :
       LET new == { m \in nfa.succ[n] : nfa.symbol[m] = Epsilon } \ nfa_set
       IN  /\ nfa_set' = nfa_set \cup new
           /\ queue' = queue \ {n}
  /\ UNCHANGED <<nfa, pc, nodes, id_map, accept_types, dfa_queue, dfa_mark, sym>>

(* One node leaves the queue and those it reaches by reading nothing, and  *)
(* that are new, enter the set and the queue. The order of the queue has   *)
(* no effect on the set: any node of it may be next.                       *)
EpsilonClosure ==
  /\ pc = "close"
  /\ \E n \in queue :
       LET new == { m \in nfa.succ[n] : nfa.symbol[m] = Epsilon } \ nfa_set
       IN  /\ nfa_set' = nfa_set \cup new
           /\ queue' = (queue \ {n}) \cup new
  /\ UNCHANGED <<nfa, pc, nodes, id_map, accept_types, dfa_queue, dfa_mark, sym>>

Known == { k \in 1 .. Len(id_map) : id_map[k] = nfa_set }

(* CreateDfaNode: the id of the node of the set, and the nodes after it.   *)
NodeId == IF Known = {} THEN Len(nodes) ELSE (CHOOSE k \in Known : TRUE) - 1
NewNode == [type |-> TypeOf(nfa, nfa_set),
            next |-> [c \in SymbolsOf(nfa) |-> NoNode]]
WithNode == IF Known = {} THEN Append(nodes, NewNode) ELSE nodes

CreateDfaNode ==
  /\ pc = "close" /\ queue = {}
  /\ id_map' = IF Known = {} THEN Append(id_map, nfa_set) ELSE id_map
  /\ accept_types' = IF Known = {} /\ NewNode.type > 0
                     THEN accept_types \cup {NewNode.type} ELSE accept_types

FirstNode ==
  /\ sym = 0
  /\ CreateDfaNode
  /\ nodes' = WithNode
  /\ dfa_queue' = Append(dfa_queue, NodeId)
  /\ pc' = "take"
  /\ UNCHANGED <<nfa, nfa_set, queue, dfa_mark, sym>>

(* The set reached over a symbol becomes a node, the edge to it is added,  *)
(* and the node is queued unless it has been expanded.                     *)
AddEdge ==
  /\ sym > 0
  /\ CreateDfaNode
  /\ nodes' = [WithNode EXCEPT ![Taken + 1].next[Symbol] = NodeId]
  /\ dfa_queue' = IF NodeId \in dfa_mark THEN dfa_queue
                  ELSE Append(dfa_queue, NodeId)
  /\ sym' = sym + 1
  /\ pc' = "move"
  /\ UNCHANGED <<nfa, nfa_set, queue, dfa_mark>>

(* The node at the front of the queue: one met before is dropped.          *)
TakeNode ==
  /\ pc = "take" /\ dfa_queue # <<>>
  /\ IF Taken \in dfa_mark
     THEN dfa_queue' = Tail(dfa_queue) /\ UNCHANGED <<pc, dfa_mark, sym>>
     ELSE /\ dfa_mark' = dfa_mark \cup {Taken}
          /\ sym' = 1
          /\ pc' = "move"
          /\ UNCHANGED dfa_queue
  /\ UNCHANGED <<nfa, nfa_set, queue, nodes, id_map, accept_types>>

TryMove ==
  /\ pc = "move" /\ sym <= Len(nfa.symbols)
  /\ LET set == Move(nfa, id_map[Taken + 1], Symbol)
     IN  IF set = {}
         THEN sym' = sym + 1 /\ UNCHANGED <<pc, nfa_set, queue>>
         ELSE Close(set) /\ UNCHANGED sym
  /\ UNCHANGED <<nfa, nodes, id_map, accept_types, dfa_queue, dfa_mark>>

NodeDone ==
  /\ pc = "move" /\ sym > Len(nfa.symbols)
  /\ dfa_queue' = Tail(dfa_queue)
  /\ pc' = "take"
  /\ UNCHANGED <<nfa, nfa_set, queue, nodes, id_map, accept_types, dfa_mark, sym>>

BuildEnd ==
  /\ pc = "take" /\ dfa_queue = <<>>
  /\ pc' = "built"
  /\ UNCHANGED <<nfa, nfa_set, queue, nodes, id_map, accept_types, dfa_queue,
                 dfa_mark, sym>>

InitFromNfa ==
  \/ StartNode \/ EpsilonClosure \/ FirstNode \/ AddEdge
  \/ TakeNode \/ TryMove \/ NodeDone \/ BuildEnd

BuildSpec == BuildInit /\ [][InitFromNfa]_buildVars

-----------------------------------------------------------------------------
BuildTypeOK ==
  /\ IsNfa(nfa)
  /\ pc \in {"start", "close", "take", "move", "built"}
  /\ nfa_set \subseteq nfa.ids /\ queue \subseteq nfa_set
  /\ nodes \in Seq([type : Int,
                    next : [SymbolsOf(nfa) -> {NoNode} \cup Nat]])
  /\ id_map \in Seq(SUBSET nfa.ids)
  /\ accept_types \subseteq Int
  /\ dfa_queue \in Seq(Nat)
  /\ dfa_mark \subseteq Nat
  /\ sym \in Nat

(* A set with no edge that reads nothing leading out of it.                *)
Closed(a, set) ==
  \A m \in set : \A n \in a.succ[m] : a.symbol[n] = Epsilon => n \in set

(* The closure of a set is the least closed set that contains it.          *)
IsClosure(a, set, of) ==
  /\ of \subseteq set
  /\ Closed(a, set)
  /\ \A c \in SUBSET a.ids : of \subseteq c /\ Closed(a, c) => set \subseteq c

(* The edge of a node over a symbol leads to the closure of the move, or   *)
(* is missing when nothing is reached.                                     *)
EdgeExact(k, c) ==
  LET set == Move(nfa, id_map[k + 1], c)
      to  == nodes[k + 1].next[c]
  IN  IF to = NoNode THEN set = {}
      ELSE to + 1 \in 1 .. Len(id_map) /\ IsClosure(nfa, id_map[to + 1], set)

(* The node whose edges are being added.                                   *)
Expanding == IF pc \in {"close", "move"} /\ dfa_queue # <<>> THEN {Taken} ELSE {}

(* The automaton is the subset automaton of the Nfa (InitFromNfa): no two  *)
(* nodes stand for the same set, the type of a node is that of its set,    *)
(* accept_types_ is the set of the types of the nodes, the first node is   *)
(* the closure of the start and, once a node has been expanded, each of    *)
(* its edges is exact; at the end every node has been expanded.            *)
SubsetExact ==
  /\ Len(nodes) = Len(id_map)
  /\ \A k, l \in 1 .. Len(id_map) : id_map[k] = id_map[l] => k = l
  /\ \A k \in 1 .. Len(nodes) : nodes[k].type = TypeOf(nfa, id_map[k])
  /\ accept_types = { nodes[k].type : k \in 1 .. Len(nodes) } \ {-1}
  /\ nodes # <<>> => IsClosure(nfa, id_map[1], {nfa.start})
  /\ \A k \in dfa_mark \ Expanding : \A c \in SymbolsOf(nfa) : EdgeExact(k, c)
  /\ pc = "built" => nodes # <<>> /\ dfa_mark = 0 .. Len(nodes) - 1
=============================================================================
