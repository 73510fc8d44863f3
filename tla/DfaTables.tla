----------------------------- MODULE DfaTables -----------------------------
(* The two files of a pattern automaton (src/segmenter/dfa.cpp): the       *)
(* serialization that InitFromFile reads back into nodes, and the tables   *)
(* that InitFromMmapFile maps and the matching functions look into.        *)
(*                                                                         *)
(* A file is the sequence of the numbers in it. A node is a record of its  *)
(* type and its edges, as DfaBuild makes it; a machine is what a matching  *)
(* function sees of an automaton: the type of each state and the state a   *)
(* symbol leads to.                                                        *)
EXTENDS Integers, Sequences, SequencesExt, FiniteSetsExt

CONSTANT Bytes       \* how many values a byte has: 256 in the code

NoState == -1        \* no edge over the symbol

Codes == 0 .. Bytes * Bytes - 1
High(c) == c \div Bytes
Low(c)  == c % Bytes

Rank(set, x) == Cardinality({ y \in set : y < x })
Ascending(set) ==
  [k \in 1 .. Cardinality(set) |-> CHOOSE x \in set : Rank(set, x) = k - 1]

(* The edges of a node, a std::map: the symbols that have one.             *)
Edges(node) == { c \in DOMAIN node.next : node.next[c] # NoState }

-----------------------------------------------------------------------------
(* Serialization: the accepted types, then each node with its edges.       *)
Pairs(node) ==
  LET keys == Ascending(Edges(node))
  IN  [e \in 1 .. Len(keys) |-> <<keys[e], node.next[keys[e]]>>]

Written(node) ==
  <<node.type, Cardinality(Edges(node))>> \o FlattenSeq(Pairs(node))

Serialization(accept_types, nodes) ==
  <<Cardinality(accept_types)>> \o Ascending(accept_types)
  \o <<Len(nodes)>> \o FlattenSeq([k \in 1 .. Len(nodes) |-> Written(nodes[k])])

(* InitFromFile: where the record of each node begins, what it says, and   *)
(* the nodes and types read.                                               *)
RecordsAt(file) ==
  LET first == 3 + file[1]
      at[k \in 1 .. file[2 + file[1]] + 1] ==
        IF k = 1 THEN first ELSE at[k - 1] + 2 + 2 * file[at[k - 1] + 1]
  IN  at

ReadNode(file, at) ==
  LET n == file[at + 1]
      edge(c) == CHOOSE e \in 1 .. n : file[at + 2 * e] = c
  IN  [type |-> file[at],
       next |-> [c \in { file[at + 2 * e] : e \in 1 .. n } |->
                   file[at + 2 * edge(c) + 1]]]

InitFromFile(file) ==
  [accept_types |-> { file[1 + n] : n \in 1 .. file[1] },
   nodes |-> LET at == RecordsAt(file)
             IN  [k \in 1 .. file[2 + file[1]] |-> ReadNode(file, at[k])]]

-----------------------------------------------------------------------------
(* StoreToMmap of an automaton of nodes: the types; for every node and     *)
(* every high byte the number of a block, or -1; the blocks, one target or *)
(* -1 per low byte, numbered in the order in which they are first needed.  *)
Row(k, c) == Bytes * k + High(c)
UsedRows(nodes) ==
  UNION { { Row(k - 1, c) : c \in Edges(nodes[k]) } : k \in 1 .. Len(nodes) }

EdgeOf(node, c) == IF c \in Edges(node) THEN node.next[c] ELSE NoState

TypeSection(nodes) == [k \in 1 .. Len(nodes) |-> nodes[k].type]
Level1Section(nodes) ==
  LET used == UsedRows(nodes)
  IN  [x \in 1 .. Bytes * Len(nodes) |->
         IF x - 1 \in used THEN Rank(used, x - 1) ELSE -1]
Level2Section(nodes) ==
  LET rows == Ascending(UsedRows(nodes))
  IN  [x \in 1 .. Bytes * Len(rows) |->
         LET row == rows[1 + (x - 1) \div Bytes]
         IN  EdgeOf(nodes[1 + row \div Bytes],
                    Bytes * (row % Bytes) + ((x - 1) % Bytes))]

StoreNodes(nodes) ==
  <<Len(nodes)>> \o TypeSection(nodes) \o Level1Section(nodes) \o Level2Section(nodes)

-----------------------------------------------------------------------------
(* What the functions for nodes_ see: an edge, or the end of the map.      *)
StdMachine(nodes) ==
  [count |-> Len(nodes),
   type  |-> [k \in 0 .. Len(nodes) - 1 |-> nodes[k + 1].type],
   next  |-> [k \in 0 .. Len(nodes) - 1 |->
                [c \in Codes |-> EdgeOf(nodes[k + 1], c)]]]

(* InitFromMmapFile: the sections are found from the count in front; past  *)
(* the end of the file the rest of the page reads as zero.                 *)
Read(map, x) == IF x < Len(map) THEN map[x + 1] ELSE 0

MmapMachine(map) ==
  LET count == map[1]
      node_type_ == 1
      level1_ == node_type_ + count
      level2_ == level1_ + Bytes * count
      Lookup(k, c) == LET block == Read(map, level1_ + Row(k, c))
                      IN  IF block >= 0 THEN Read(map, level2_ + Bytes * block + Low(c))
                          ELSE NoState
  IN  [count |-> count,
       type  |-> [k \in 0 .. count - 1 |-> Read(map, node_type_ + k)],
       next  |-> [k \in 0 .. count - 1 |-> [c \in Codes |-> Lookup(k, c)]]]
=============================================================================
