-------------------------- MODULE DictionaryProofs --------------------------
(***************************************************************************)
(* In whatever order a manager or an automaton is loaded, cleared and      *)
(* destroyed, whatever files are missing, empty or refused and whoever else *)
(* opens descriptors: what is used is mapped, nothing else is but a rest of *)
(* a ragged file, and a destroyed object leaves no more behind.  And of the segmenter for UTF-8 texts      *)
(* (CharSegs): the words that are answered are the text, unharmed.  For     *)
(* that the recursion of FlattenSeq is unfolded, then the bits of a         *)
(* character of each length are followed through utf8ToUtf16 and back.      *)
(***************************************************************************)
EXTENDS
  Dictionary, FiniteSetTheorems, SequenceTheorems, WellFoundedInduction, TLAPS

NoMaps == [a \in {} |-> 0]

Dfas ==
  [mmap_pattern : BOOLEAN, fd_map : Descriptors \cup {-1},
   map : Addresses \cup {Null, Failed}, map_size : Nat, nodes : BOOLEAN,
   refused : BOOLEAN]

Regions == [file : Nat, length : Nat]

Cores == [kind : {"empty", "own", "mapped", "null"}, at : Addresses \cup {Null}]

Types ==
  /\ owner \in {"manager", "class"} /\ alive \in BOOLEAN /\ loaded \in BOOLEAN
  /\ core \in Cores /\ dfa \in Dfas
  /\ open \subseteq Descriptors /\ others \subseteq Descriptors

(* An automaton whose tables are mapped knows where and how much, and its  *)
(* descriptor is open; any other is ready to map a file of whatever size,  *)
(* or keeps the size of one that was refused.                              *)
Tables(d, m) ==
  /\ d.mmap_pattern =>
       /\ d.map \in Addresses /\ d.fd_map \in Descriptors
       /\ m[d.map].length \div 4 = d.map_size
       /\ IF d.refused THEN m[d.map].length = 4 * d.map_size
                       ELSE m[d.map].length = m[d.map].file
  /\ ~d.mmap_pattern =>
       /\ d.map \in {Null, Failed}
       /\ d.map = Null => d.map_size = 0
       /\ d.refused <=> d.map_size # 0

(* The mappings m are those of the automaton d and of the array c, and     *)
(* rests of ragged files.                                                  *)
Owned(d, m, c) ==
  /\ DOMAIN m \subseteq Addresses /\ \A a \in DOMAIN m : m[a] \in Regions
  /\ OfDfa(d) \cup OfCore(c) \subseteq DOMAIN m
  /\ OfDfa(d) \cap OfCore(c) = {}
  /\ Tables(d, m)
  /\ \A a \in OfCore(c) : m[a].length = m[a].file
  /\ \A a \in DOMAIN m \ (OfDfa(d) \cup OfCore(c)) : Ragged(m[a])

(* Open descriptors are somebody else's or the automaton's. *)
Accounted(d, fds, elsewhere) ==
  fds \subseteq elsewhere \cup (IF d.mmap_pattern THEN {d.fd_map} ELSE {})

(* A manager maps nothing before load_char_core, and that maps both. *)
Stages ==
  /\ owner = "class" => core.kind # "mapped"
  /\ owner = "manager" /\ ~loaded => ~dfa.mmap_pattern /\ core.kind # "mapped"
  /\ alive /\ owner = "manager" /\ loaded =>
       core.kind = "null" \/ (core.kind = "mapped" /\ dfa.mmap_pattern)
  /\ owner = "manager" => ~dfa.refused
  /\ ~alive => ~dfa.mmap_pattern /\ core.kind # "mapped"

Said ==
  /\ last.call = "InitFromMmapFile" => (last.result <=> dfa.mmap_pattern)
  /\ last.call = "Clear" => [dfa EXCEPT !.fd_map = -1] = NewDfa

Inv ==
  Types /\ Owned(dfa, maps, core) /\ Accounted(dfa, open, others) /\ Stages /\ Said

-----------------------------------------------------------------------------
(* The lowest free descriptor, and a free place, are what they say. *)
LEMMA LowestIn ==
  ASSUME NEW S, S \subseteq Nat, S # {}
  PROVE  Lowest(S) \in S
<1>1. PICK x \in S : \A y \in S : << y, x >> \notin OpToRel(<, Nat)
  BY NatLessThanWellFounded, WFMin
<1>2. ASSUME NEW y \in S
      PROVE  x <= y
  <2>1. ~(y < x)
    BY <1>1, <1>2 DEF OpToRel
  <2> QED
    BY <1>2, <2>1
<1> QED
  BY <1>2 DEF Lowest

LEMMA Constants ==
  /\ -1 \notin Descriptors /\ Null \notin Addresses /\ Failed \notin Addresses
  /\ \A fd \in Descriptors : fd >= 0
BY DictionaryAssumption DEF Null, Failed

LEMMA PlaceLeft ==
  ASSUME NEW m, ~(Addresses \subseteq DOMAIN m)
  PROVE  FreeAt(m) \in Addresses \ DOMAIN m
<1>1. Addresses \ DOMAIN m # {} /\ Addresses \ DOMAIN m \subseteq Nat
  BY DictionaryAssumption
<1> QED
  BY <1>1, LowestIn DEF FreeAt

LEMMA NewIsType ==
  /\ NewDfa \in Dfas /\ ~NewDfa.mmap_pattern /\ NewDfa.map = Null
  /\ NewDfa.map_size = 0 /\ ~NewDfa.refused
BY DEF NewDfa, Dfas

(* munmap takes the mapping away or leaves all as it is. *)
LEMMA UnmapTakes ==
  ASSUME NEW m, NEW a, NEW bytes, NEW u, u = Unmapped(m, a, bytes)
  PROVE  /\ \A x \in DOMAIN u : x \in DOMAIN m /\ u[x] = m[x]
         /\ DOMAIN m \ {a} \subseteq DOMAIN u
         /\ a \in DOMAIN u => u = m /\ PagesLeft(bytes, m[a].length) # {}
         /\ a \notin DOMAIN m => u = m
<1>1. CASE a \in DOMAIN m /\ PagesLeft(bytes, m[a].length) = {}
  <2>1. u = [x \in DOMAIN m \ {a} |-> m[x]]
    BY <1>1 DEF Unmapped
  <2> QED
    BY <1>1, <2>1
<1>2. CASE ~(a \in DOMAIN m /\ PagesLeft(bytes, m[a].length) = {})
  <2>1. u = m
    BY <1>2 DEF Unmapped
  <2> QED
    BY <1>2, <2>1
<1> QED
  BY <1>1, <1>2

(* All of a mapping goes when munmap is told all of its bytes. *)
LEMMA AllTaken ==
  ASSUME NEW n \in Nat
  PROVE  PagesLeft(n, n) = {}
<1> SUFFICES ASSUME NEW q \in PagesLeft(n, n) PROVE FALSE
  OBVIOUS
<1>1. q \in Nat /\ n <= q * PageSize /\ q * PageSize < n
  BY DEF PagesLeft
<1>2. q * PageSize \in Int
  BY <1>1, DictionaryAssumption
<1> QED
  BY <1>1, <1>2

(* A page behind the last whole INT32 of a file: the file is ragged. *)
LEMMA RestIsRagged ==
  ASSUME NEW r \in Regions, NEW k \in Nat, r.length \div 4 = k, r.length = r.file,
         PagesLeft(4 * k, r.length) # {}
  PROVE  Ragged(r)
<1>1. PICK q \in 0 .. r.length : 4 * k <= q * PageSize /\ q * PageSize < r.length
  BY DEF PagesLeft
<1>2. r.length \in Nat /\ q \in 0 .. r.file
  BY DEF Regions
<1>3. PICK z \in Int : z = q * PageSize
  BY <1>1, <1>2, DictionaryAssumption
<1>4. r.length < 4 * k + 4
  BY <1>2
<1>5. 4 * k <= z /\ z < r.length
  BY <1>1, <1>3
<1>6. r.file - z \in 1 .. 3
  BY <1>2, <1>4, <1>5
<1> QED
  BY <1>2, <1>3, <1>6 DEF Ragged

(* ClearMmap gives back what the automaton holds, but for a ragged rest,   *)
(* and touches no mapping of the array; descriptors that are not the       *)
(* automaton's may go, never come.                                         *)
LEMMA Unmapping ==
  ASSUME NEW d \in Dfas, NEW m, NEW c, NEW fds \in SUBSET Descriptors, NEW elsewhere,
         Owned(d, m, c), Accounted(d, fds, elsewhere),
         NEW w, w = ClearMmap(d, m, fds)
  PROVE  /\ w.d \in Dfas /\ ~w.d.mmap_pattern /\ w.d.map = Null /\ w.d.map_size = 0
         /\ ~w.d.refused /\ w.d.nodes = d.nodes /\ w.d.fd_map = d.fd_map
         /\ Owned(w.d, w.maps, c)
         /\ w.open \subseteq fds /\ w.open \subseteq elsewhere
<1>1. /\ w.d = [d EXCEPT !.mmap_pattern = FALSE, !.map = Null,
                          !.map_size = IF d.map = Null THEN @ ELSE 0, !.refused = FALSE]
      /\ w.maps = Unmapped(m, d.map, 4 * d.map_size)
      /\ w.open = IF d.fd_map >= 0 THEN fds \ {d.fd_map} ELSE fds
  BY DEF ClearMmap
<1>2. d.mmap_pattern => d.map # Null
  BY Constants DEF Owned, Tables
<1>3. ~d.mmap_pattern /\ d.map = Null => d.map_size = 0
  BY DEF Owned, Tables
<1>4. /\ w.d \in Dfas /\ w.d.mmap_pattern = FALSE /\ w.d.map = Null /\ w.d.map_size = 0
      /\ w.d.refused = FALSE /\ w.d.nodes = d.nodes /\ w.d.fd_map = d.fd_map
  <2>1. (IF d.map = Null THEN d.map_size ELSE 0) = 0
    BY <1>2, <1>3
  <2>2. w.d = [d EXCEPT !.mmap_pattern = FALSE, !.map = Null, !.map_size = 0, !.refused = FALSE]
    BY <1>1, <2>1
  <2>3. w.d = [mmap_pattern |-> FALSE, fd_map |-> d.fd_map, map |-> Null, map_size |-> 0,
               nodes |-> d.nodes, refused |-> FALSE]
    BY <2>2 DEF Dfas
  <2>4. d.fd_map \in Descriptors \cup {-1} /\ d.nodes \in BOOLEAN
    BY DEF Dfas
  <2> QED
    BY <2>3, <2>4 DEF Dfas
<1>5. /\ \A x \in DOMAIN w.maps : x \in DOMAIN m /\ w.maps[x] = m[x]
      /\ DOMAIN m \ {d.map} \subseteq DOMAIN w.maps
      /\ d.map \in DOMAIN w.maps =>
           w.maps = m /\ PagesLeft(4 * d.map_size, m[d.map].length) # {}
  BY <1>1, UnmapTakes
<1>6. d.map \notin OfCore(c)
  BY Constants DEF Owned, Tables, OfDfa
<1>7. \A a \in DOMAIN w.maps \ OfCore(c) : Ragged(w.maps[a])
  <2> SUFFICES ASSUME NEW a \in DOMAIN w.maps \ OfCore(c) PROVE Ragged(w.maps[a])
    OBVIOUS
  <2>1. a \in DOMAIN m /\ w.maps[a] = m[a] /\ m[a] \in Regions
    BY <1>5 DEF Owned
  <2>2. CASE a \notin OfDfa(d)
    BY <2>1, <2>2 DEF Owned
  <2>3. CASE a \in OfDfa(d)
    <3>1. d.mmap_pattern /\ a = d.map
      BY <2>3 DEF OfDfa
    <3>2. PagesLeft(4 * d.map_size, m[a].length) # {} /\ d.map_size \in Nat
      BY <1>5, <3>1 DEF Dfas
    <3>3. m[a].length \div 4 = d.map_size
      BY <3>1 DEF Owned, Tables
    <3>4. ~d.refused
      <4> SUFFICES ASSUME d.refused PROVE FALSE
        OBVIOUS
      <4>1. m[a].length = 4 * d.map_size /\ m[a].length \in Nat
        BY <2>1, <3>1 DEF Owned, Tables, Regions
      <4> QED
        BY <3>2, <4>1, AllTaken
    <3>5. m[a].length = m[a].file
      BY <3>1, <3>4 DEF Owned, Tables
    <3> QED
      BY <2>1, <3>2, <3>3, <3>5, RestIsRagged
  <2> QED
    BY <2>2, <2>3
<1>8. OfCore(c) \subseteq DOMAIN w.maps
  BY <1>5, <1>6 DEF Owned
<1>9. Owned(w.d, w.maps, c)
  <2>1. Tables(w.d, w.maps) /\ OfDfa(w.d) = {}
    BY <1>4 DEF Tables, OfDfa
  <2>2. DOMAIN w.maps \subseteq Addresses /\ \A a \in DOMAIN w.maps : w.maps[a] \in Regions
    BY <1>5 DEF Owned
  <2>3. \A a \in OfCore(c) : w.maps[a].length = w.maps[a].file
    BY <1>5, <1>8 DEF Owned
  <2> QED
    BY <1>7, <1>8, <2>1, <2>2, <2>3 DEF Owned
<1>10. w.open \subseteq fds
  BY <1>1
<1>11. w.open \subseteq elsewhere
  <2>1. CASE d.mmap_pattern
    <3>1. d.fd_map \in Descriptors
      BY <2>1 DEF Owned, Tables
    <3>2. w.open = fds \ {d.fd_map}
      BY <1>1, <3>1, Constants
    <3> QED
      BY <2>1, <3>2 DEF Accounted
  <2>2. CASE ~d.mmap_pattern
    BY <1>10, <2>2 DEF Accounted
  <2> QED
    BY <2>1, <2>2
<1> QED
  BY <1>4, <1>9, <1>10, <1>11

(* Dfa::Clear of whatever state: a new object, but for fd_map_. *)
LEMMA Clearing ==
  ASSUME NEW d \in Dfas, NEW m, NEW c, NEW fds \in SUBSET Descriptors, NEW elsewhere,
         Owned(d, m, c), Accounted(d, fds, elsewhere),
         NEW w, w = Clear(d, m, fds)
  PROVE  /\ w.d \in Dfas /\ ~w.d.mmap_pattern /\ ~w.d.refused /\ [w.d EXCEPT !.fd_map = -1] = NewDfa
         /\ Owned(w.d, w.maps, c)
         /\ w.open \subseteq fds /\ w.open \subseteq elsewhere
         /\ \A good \in BOOLEAN :
              /\ [w.d EXCEPT !.nodes = good] \in Dfas
              /\ ~[w.d EXCEPT !.nodes = good].mmap_pattern
              /\ ~[w.d EXCEPT !.nodes = good].refused
              /\ Owned([w.d EXCEPT !.nodes = good], w.maps, c)
<1>1. PICK e : e = [d EXCEPT !.nodes = FALSE]
  OBVIOUS
<1>2. /\ e \in Dfas /\ e.mmap_pattern = d.mmap_pattern /\ e.fd_map = d.fd_map
      /\ e.map = d.map /\ e.map_size = d.map_size /\ e.nodes = FALSE /\ e.refused = d.refused
  BY <1>1 DEF Dfas
<1>3. Owned(e, m, c) /\ Accounted(e, fds, elsewhere)
  BY <1>2 DEF Owned, Accounted, Tables, OfDfa
<1>4. w = ClearMmap(e, m, fds)
  BY <1>1 DEF Clear
<1>5. /\ w.d \in Dfas /\ ~w.d.mmap_pattern /\ w.d.map = Null /\ w.d.map_size = 0
      /\ w.d.nodes = FALSE /\ ~w.d.refused
      /\ Owned(w.d, w.maps, c)
      /\ w.open \subseteq fds /\ w.open \subseteq elsewhere
  BY <1>2, <1>3, <1>4, Unmapping
<1>6. PICK f : f = w.d
  OBVIOUS
<1>7. PICK h \in Descriptors \cup {-1} :
        f = [mmap_pattern |-> FALSE, fd_map |-> h, map |-> Null, map_size |-> 0,
             nodes |-> FALSE, refused |-> FALSE]
  <2>1. f \in Dfas /\ f.mmap_pattern = FALSE /\ f.map = Null /\ f.map_size = 0 /\ f.nodes = FALSE
        /\ f.refused = FALSE
    BY <1>5, <1>6
  <2> QED
    BY <2>1 DEF Dfas
<1>8. [f EXCEPT !.fd_map = -1] = NewDfa
  <2>1. PICK g : g = [f EXCEPT !.fd_map = -1]
    OBVIOUS
  <2>2. g = [mmap_pattern |-> FALSE, fd_map |-> -1, map |-> Null, map_size |-> 0,
             nodes |-> FALSE, refused |-> FALSE]
    BY <1>7, <2>1
  <2> QED
    BY <2>1, <2>2 DEF NewDfa
<1>9. ASSUME NEW good \in BOOLEAN
      PROVE  /\ [f EXCEPT !.nodes = good] \in Dfas
             /\ ~[f EXCEPT !.nodes = good].mmap_pattern
             /\ ~[f EXCEPT !.nodes = good].refused
             /\ Owned([f EXCEPT !.nodes = good], w.maps, c)
  <2>1. PICK g : g = [f EXCEPT !.nodes = good]
    OBVIOUS
  <2>2. g \in Dfas /\ g.mmap_pattern = FALSE /\ g.map = Null /\ g.map_size = 0
        /\ g.refused = FALSE
    BY <1>7, <2>1 DEF Dfas
  <2>3. Owned(g, w.maps, c)
    BY <1>5, <2>2 DEF Owned, Tables, OfDfa
  <2> QED
    BY <2>1, <2>2, <2>3
<1> QED
  BY <1>5, <1>6, <1>8, <1>9

(* InitFromMmapFile returns TRUE just when the tables are mapped, beside   *)
(* the array's, all of the file unless one was refused before, and with    *)
(* the descriptor open.                                                    *)
LEMMA Mapping ==
  ASSUME NEW d \in Dfas, NEW m, NEW c, NEW fds \in SUBSET Descriptors, NEW elsewhere,
         NEW result \in BOOLEAN, Owned(d, m, c), Accounted(d, fds, elsewhere),
         fds # Descriptors, InitFromMmapFile(d, m, fds, result)
  PROVE  /\ dfa' \in Dfas /\ open' \subseteq Descriptors
         /\ Owned(dfa', maps', c) /\ Accounted(dfa', open', elsewhere)
         /\ dfa'.mmap_pattern <=> result
         /\ result /\ ~d.refused => ~dfa'.refused
<1> DEFINE was == IF d.mmap_pattern THEN ClearMmap(d, m, fds)
                  ELSE [d |-> d, maps |-> m, open |-> fds]
           fd == Lowest(Descriptors \ was.open)
           a == FreeAt(was.maps)
           Size(n) == IF was.d.map_size = 0 THEN n \div 4 ELSE was.d.map_size
           Bytes(n) == IF was.d.map_size = 0 THEN n ELSE 4 * was.d.map_size
<1>1. was = IF d.mmap_pattern THEN ClearMmap(d, m, fds)
            ELSE [d |-> d, maps |-> m, open |-> fds]
  OBVIOUS
<1>3. PICK d2, m2, o2 : d2 = dfa' /\ m2 = maps' /\ o2 = open'
  OBVIOUS
<1>4. \/ /\ ~result
         /\ Becomes([was EXCEPT !.d.fd_map = -1])
      \/ \E n \in FileSizes :
           \/ /\ ~result
              /\ Becomes([was EXCEPT !.d.fd_map = fd, !.d.map = Failed,
                             !.d.map_size = Size(n), !.d.refused = (Size(n) # 0)])
           \/ /\ result /\ n > 0 /\ ~(Addresses \subseteq DOMAIN was.maps)
              /\ Becomes([d    |-> [was.d EXCEPT !.fd_map = fd, !.map = a,
                                      !.map_size = Size(n), !.mmap_pattern = TRUE],
                          maps |-> Mapped(was.maps, a, Region(n, Bytes(n))),
                          open |-> was.open \cup {fd}])
  BY DEF InitFromMmapFile
<1> HIDE DEF was
<1>2. fd = Lowest(Descriptors \ was.open) /\ a = FreeAt(was.maps)
  OBVIOUS
<1> HIDE DEF fd, a
<1>5. /\ was.d \in Dfas /\ ~was.d.mmap_pattern
      /\ ~d.refused => ~was.d.refused
      /\ Owned(was.d, was.maps, c)
      /\ was.open \subseteq fds /\ was.open \subseteq elsewhere
      /\ was = [d |-> was.d, maps |-> was.maps, open |-> was.open]
  <2>1. CASE d.mmap_pattern
    <3>1. was = ClearMmap(d, m, fds)
      BY <1>1, <2>1
    <3>2. was = [d |-> was.d, maps |-> was.maps, open |-> was.open]
      BY <3>1 DEF ClearMmap
    <3> QED
      BY <3>1, <3>2, Unmapping
  <2>2. CASE ~d.mmap_pattern
    <3>1. was = [d |-> d, maps |-> m, open |-> fds]
      BY <1>1, <2>2
    <3>2. was.d = d /\ was.maps = m /\ was.open = fds
      BY <3>1
    <3>3. fds \subseteq elsewhere
      BY <2>2 DEF Accounted
    <3> QED
      BY <2>2, <3>1, <3>2, <3>3
  <2> QED
    BY <2>1, <2>2
<1>6. PICK e, n0, o : e = was.d /\ n0 = was.maps /\ o = was.open
  OBVIOUS
<1>7. /\ e \in Dfas /\ ~e.mmap_pattern /\ Owned(e, n0, c)
      /\ ~d.refused => ~e.refused
      /\ o \subseteq fds /\ o \subseteq elsewhere
      /\ was = [d |-> e, maps |-> n0, open |-> o]
  BY <1>5, <1>6
<1>8. fd \in Descriptors \ o
  <2>1. Descriptors \ o # {} /\ Descriptors \ o \subseteq Nat
    BY <1>7, DictionaryAssumption
  <2> QED
    BY <1>2, <1>6, <2>1, LowestIn
<1>9. /\ e.map \in {Null, Failed} /\ (e.map = Null => e.map_size = 0)
      /\ e.refused <=> e.map_size # 0
      /\ OfDfa(e) = {} /\ OfCore(c) \subseteq DOMAIN n0
  BY <1>7 DEF Owned, Tables, OfDfa
<1>10. \A n \in FileSizes : /\ Size(n) = IF e.map_size = 0 THEN n \div 4 ELSE e.map_size
                            /\ Bytes(n) = IF e.map_size = 0 THEN n ELSE 4 * e.map_size
  BY <1>6
<1>11. e.map_size \in Nat /\ \A n \in FileSizes : n \in Nat /\ Size(n) \in Nat /\ Bytes(n) \in Nat
  <2>1. e.map_size \in Nat
    BY <1>7 DEF Dfas
  <2> QED
    BY <1>10, <2>1, DictionaryAssumption
<1> HIDE DEF Size, Bytes
<1>12. ASSUME NEW f \in Dfas, ~f.mmap_pattern, f.map \in {Null, Failed},
              f.map = Null => f.map_size = 0, f.refused <=> f.map_size # 0
       PROVE  Owned(f, n0, c) /\ Accounted(f, o, elsewhere)
  BY <1>7, <1>9, <1>12 DEF Owned, Accounted, Tables, OfDfa
<1>13. CASE ~result /\ Becomes([was EXCEPT !.d.fd_map = -1])
  <2>1. d2 = [e EXCEPT !.fd_map = -1] /\ m2 = n0 /\ o2 = o
    BY <1>3, <1>7, <1>13 DEF Becomes
  <2>2. d2 \in Dfas /\ ~d2.mmap_pattern /\ d2.map_size = e.map_size /\ d2.map = e.map
        /\ d2.refused = e.refused
    BY <1>7, <2>1 DEF Dfas
  <2>3. Owned(d2, m2, c) /\ Accounted(d2, o2, elsewhere)
    BY <1>9, <1>12, <2>1, <2>2
  <2> QED
    BY <1>3, <1>7, <1>13, <2>1, <2>2, <2>3
<1>14. ASSUME NEW n \in FileSizes, ~result,
              Becomes([was EXCEPT !.d.fd_map = fd, !.d.map = Failed,
                         !.d.map_size = Size(n), !.d.refused = (Size(n) # 0)])
       PROVE  /\ d2 \in Dfas /\ o2 \subseteq Descriptors
              /\ Owned(d2, m2, c) /\ Accounted(d2, o2, elsewhere) /\ ~d2.mmap_pattern
  <2>1. /\ d2 = [e EXCEPT !.fd_map = fd, !.map = Failed, !.map_size = Size(n),
                          !.refused = (Size(n) # 0)]
        /\ m2 = n0 /\ o2 = o
    BY <1>3, <1>7, <1>14 DEF Becomes
  <2>2. Size(n) \in Nat /\ (Size(n) # 0) \in BOOLEAN
    BY <1>11
  <2>3. d2 \in Dfas /\ ~d2.mmap_pattern /\ d2.map_size = Size(n) /\ d2.map = Failed
        /\ d2.refused = (Size(n) # 0)
    BY <1>7, <1>8, <2>1, <2>2 DEF Dfas
  <2>4. Failed # Null
    BY DEF Null, Failed
  <2>5. d2.refused <=> d2.map_size # 0
    BY <2>3
  <2>6. Owned(d2, m2, c) /\ Accounted(d2, o2, elsewhere)
    BY <1>12, <2>1, <2>3, <2>4, <2>5
  <2> QED
    BY <1>7, <2>1, <2>3, <2>6
<1>15. ASSUME NEW n \in FileSizes, result, n > 0, ~(Addresses \subseteq DOMAIN was.maps),
              Becomes([d    |-> [was.d EXCEPT !.fd_map = fd, !.map = a,
                                   !.map_size = Size(n), !.mmap_pattern = TRUE],
                       maps |-> Mapped(was.maps, a, Region(n, Bytes(n))),
                       open |-> was.open \cup {fd}])
       PROVE  /\ d2 \in Dfas /\ o2 \subseteq Descriptors
              /\ Owned(d2, m2, c) /\ Accounted(d2, o2, elsewhere) /\ d2.mmap_pattern
              /\ d2.refused = e.refused
  <2>1. /\ d2 = [e EXCEPT !.fd_map = fd, !.map = a, !.map_size = Size(n), !.mmap_pattern = TRUE]
        /\ m2 = Mapped(n0, a, Region(n, Bytes(n))) /\ o2 = o \cup {fd}
    BY <1>3, <1>6, <1>15 DEF Becomes
  <2>2. a \in Addresses \ DOMAIN n0
    BY <1>2, <1>6, <1>15, PlaceLeft
  <2>3. d2 \in Dfas /\ d2.mmap_pattern = TRUE /\ d2.map = a /\ d2.map_size = Size(n)
        /\ d2.fd_map = fd /\ d2.refused = e.refused
    BY <1>7, <1>8, <1>11, <2>1, <2>2 DEF Dfas
  <2>4. PICK r : r = Region(n, Bytes(n))
    OBVIOUS
  <2>5. /\ DOMAIN m2 = DOMAIN n0 \cup {a} /\ m2[a] = r
        /\ \A x \in DOMAIN n0 : m2[x] = n0[x]
    BY <2>1, <2>2, <2>4 DEF Mapped
  <2>6. r \in Regions /\ r.file = n /\ r.length = Bytes(n)
    BY <1>11, <2>4 DEF Region, Regions
  <2>7. /\ Bytes(n) \div 4 = Size(n)
        /\ IF e.refused THEN Bytes(n) = 4 * Size(n) ELSE Bytes(n) = n
    <3>1. CASE e.map_size = 0
      BY <1>9, <1>10, <3>1
    <3>2. CASE e.map_size # 0
      <4>1. Size(n) = e.map_size /\ Bytes(n) = 4 * e.map_size
        BY <1>10, <3>2
      <4>2. (4 * e.map_size) \div 4 = e.map_size
        BY <1>11
      <4> QED
        BY <1>9, <3>2, <4>1, <4>2
    <3> QED
      BY <3>1, <3>2
  <2>8. Tables(d2, m2)
    BY <1>8, <2>2, <2>3, <2>5, <2>6, <2>7 DEF Tables
  <2>9. OfDfa(d2) = {a} /\ a \notin OfCore(c)
    BY <1>9, <2>2, <2>3 DEF OfDfa
  <2>10. Owned(d2, m2, c)
    <3>1. DOMAIN m2 \subseteq Addresses /\ \A x \in DOMAIN m2 : m2[x] \in Regions
      BY <1>7, <2>2, <2>5, <2>6 DEF Owned
    <3>2. \A x \in OfCore(c) : m2[x].length = m2[x].file
      BY <1>7, <1>9, <2>5 DEF Owned
    <3>3. \A x \in DOMAIN m2 \ (OfDfa(d2) \cup OfCore(c)) : Ragged(m2[x])
      BY <1>7, <1>9, <2>5, <2>9 DEF Owned
    <3> QED
      BY <1>9, <2>5, <2>8, <2>9, <3>1, <3>2, <3>3 DEF Owned
  <2>11. Accounted(d2, o2, elsewhere)
    BY <1>7, <2>1, <2>3 DEF Accounted
  <2> QED
    BY <1>7, <1>8, <2>1, <2>3, <2>10, <2>11
<1> QED
  BY <1>3, <1>4, <1>7, <1>13, <1>14, <1>15

-----------------------------------------------------------------------------
LEMMA InitInv ==
  ASSUME Init
  PROVE  Inv
<1>1. owner \in {"manager", "class"} /\ alive = TRUE /\ loaded = FALSE
      /\ core = [kind |-> "empty", at |-> Null]
      /\ dfa = NewDfa /\ maps = NoMaps /\ open = {} /\ others = {}
      /\ last.call = "constructor"
  BY DEF Init, NoMaps, Core, Returned
<1>2. Types
  BY <1>1, NewIsType DEF Types, Cores
<1>3. DOMAIN maps = {}
  BY <1>1 DEF NoMaps
<1>4. Owned(dfa, maps, core)
  BY <1>1, <1>3, NewIsType DEF Owned, Tables, OfDfa, OfCore
<1> QED
  BY <1>1, <1>2, <1>4, NewIsType DEF Inv, Accounted, Stages, Said

(* The methods of the Dfa, called by its owner. *)
LEMMA InitKeeps ==
  ASSUME Inv, ByClass, NEW c \in {"InitFromFile", "InitFromNfa"}, CallInit(c)
  PROVE  Inv'
<1>1. PICK w : w = Clear(dfa, maps, open)
  OBVIOUS
<1>2. PICK good \in BOOLEAN : Becomes([w EXCEPT !.d.nodes = good]) /\ last' = Returned(c, good)
  BY <1>1 DEF CallInit
<1>3. w = [d |-> w.d, maps |-> w.maps, open |-> w.open]
  BY <1>1 DEF Clear, ClearMmap
<1>4. dfa' = [w.d EXCEPT !.nodes = good] /\ maps' = w.maps /\ open' = w.open
  BY <1>2, <1>3 DEF Becomes
<1>5. /\ dfa \in Dfas /\ open \in SUBSET Descriptors
      /\ Owned(dfa, maps, core) /\ Accounted(dfa, open, others)
  BY DEF Inv, Types
<1>6. /\ dfa' \in Dfas /\ ~dfa'.mmap_pattern /\ Owned(dfa', maps', core)
      /\ open' \subseteq Descriptors /\ open' \subseteq others
  BY <1>1, <1>4, <1>5, Clearing
<1>7. /\ owner' = owner /\ alive' = alive /\ loaded' = loaded /\ core' = core /\ others' = others
      /\ owner = "class" /\ alive
  BY DEF CallInit, ByClass, Idle
<1>8. last'.call # "InitFromMmapFile" /\ last'.call # "Clear"
  BY <1>2 DEF Returned
<1> QED
  BY <1>6, <1>7, <1>8 DEF Inv, Types, Accounted, Stages, Said

LEMMA ClearKeeps ==
  ASSUME Inv, CallClear
  PROVE  Inv'
<1>1. PICK w : w = Clear(dfa, maps, open)
  OBVIOUS
<1>2. dfa' = w.d /\ maps' = w.maps /\ open' = w.open /\ last'.call = "Clear"
  BY <1>1 DEF CallClear, Becomes, Returned
<1>3. /\ dfa \in Dfas /\ open \in SUBSET Descriptors
      /\ Owned(dfa, maps, core) /\ Accounted(dfa, open, others)
  BY DEF Inv, Types
<1>4. /\ dfa' \in Dfas /\ ~dfa'.mmap_pattern /\ [dfa' EXCEPT !.fd_map = -1] = NewDfa
      /\ Owned(dfa', maps', core)
      /\ open' \subseteq Descriptors /\ open' \subseteq others
  BY <1>1, <1>2, <1>3, Clearing
<1>5. /\ owner' = owner /\ alive' = alive /\ loaded' = loaded /\ core' = core /\ others' = others
      /\ owner = "class" /\ alive
  BY DEF CallClear, ByClass, Idle
<1> QED
  BY <1>2, <1>4, <1>5 DEF Inv, Types, Accounted, Stages, Said

(* Where the object and its mappings stay as they are. *)
LEMMA RestKeeps ==
  ASSUME Inv, dfa' = dfa, maps' = maps, owner' = owner, alive' = alive, loaded' = loaded,
         core' \in Cores,
         core' = core \/ (~loaded /\ core.kind # "mapped" /\ core'.kind = "own"),
         open' \subseteq Descriptors, others' \subseteq Descriptors,
         Accounted(dfa, open', others'),
         last' = last \/ last'.call \notin {"InitFromMmapFile", "Clear"}
  PROVE  Inv'
<1>1. Owned(dfa', maps', core')
  BY DEF Inv, Owned, OfCore
<1>2. Stages'
  BY DEF Inv, Stages
<1> QED
  BY <1>1, <1>2 DEF Inv, Types, Said

LEMMA BuildKeeps ==
  ASSUME Inv, BuildCore
  PROVE  Inv'
<1>1. PICK there \in BOOLEAN :
        /\ core' = IF there THEN Core("own", Null) ELSE core
        /\ last' = Returned("build_core", there)
  BY DEF BuildCore
<1>2. core \in Cores /\ core.kind # "mapped" /\ Accounted(dfa, open, others)
      /\ open \subseteq Descriptors /\ others \subseteq Descriptors
  BY DEF Inv, Types, Stages, BuildCore, ByManager
<1>3. core' = core \/ (core' \in Cores /\ core'.kind = "own")
  BY <1>1 DEF Core, Cores
<1>4. /\ owner' = owner /\ alive' = alive /\ loaded' = loaded /\ others' = others
      /\ dfa' = dfa /\ maps' = maps /\ open' = open /\ ~loaded
  BY DEF BuildCore
<1>5. last'.call = "build_core"
  BY <1>1 DEF Returned
<1> QED
  BY <1>2, <1>3, <1>4, <1>5, RestKeeps

LEMMA OthersKeep ==
  ASSUME Inv, OtherOpens \/ OtherCloses
  PROVE  Inv'
<1>1. /\ core \in Cores /\ Accounted(dfa, open, others)
      /\ open \subseteq Descriptors /\ others \subseteq Descriptors
  BY DEF Inv, Types
<1>2. /\ owner' = owner /\ alive' = alive /\ loaded' = loaded /\ core' = core
      /\ dfa' = dfa /\ maps' = maps /\ last' = last
  BY DEF OtherOpens, OtherCloses
<1>3. /\ open' \subseteq Descriptors /\ others' \subseteq Descriptors
      /\ Accounted(dfa, open', others')
  <2>1. CASE OtherOpens
    <3>1. PICK fd : fd = Lowest(Descriptors \ open)
      OBVIOUS
    <3>2. open' = open \cup {fd} /\ others' = others \cup {fd} /\ Descriptors # open
      BY <2>1, <3>1 DEF OtherOpens
    <3>3. Descriptors \ open # {} /\ Descriptors \ open \subseteq Nat
      BY <1>1, <3>2, DictionaryAssumption
    <3>4. fd \in Descriptors
      BY <3>1, <3>3, LowestIn
    <3> QED
      BY <1>1, <3>2, <3>4 DEF Accounted
  <2>2. CASE OtherCloses
    <3>1. PICK fd \in others : open' = open \ {fd} /\ others' = others \ {fd}
      BY <2>2 DEF OtherCloses
    <3> QED
      BY <1>1, <3>1 DEF Accounted
  <2> QED
    BY <2>1, <2>2
<1> QED
  BY <1>1, <1>2, <1>3, RestKeeps

LEMMA EndKeeps ==
  ASSUME Inv, NEW c \in {"load_char_core", "get_segs_ex", "InitFromMmapFile"},
         Terminated(c), others' = {},
         owner' = owner, loaded' \in BOOLEAN
  PROVE  Inv'
<1>1. /\ alive' = FALSE /\ core' = [kind |-> "null", at |-> Null] /\ dfa' = NewDfa
      /\ maps' = NoMaps /\ open' = {} /\ last'.call = c /\ last'.result = FALSE
  BY DEF Terminated, Core, NoMaps, Returned
<1>2. DOMAIN maps' = {}
  BY <1>1 DEF NoMaps
<1>3. Owned(dfa', maps', core')
  BY <1>1, <1>2, NewIsType DEF Owned, Tables, OfDfa, OfCore
<1>4. Types'
  BY <1>1, NewIsType DEF Inv, Types, Cores
<1> QED
  BY <1>1, <1>3, <1>4, NewIsType DEF Inv, Accounted, Stages, Said

LEMMA MmapKeeps ==
  ASSUME Inv, CallInitFromMmapFile
  PROVE  Inv'
<1>1. CASE ReadsNothing(dfa) /\ Terminated("InitFromMmapFile") /\ others' = {}
  <2>1. owner' = owner /\ loaded' \in BOOLEAN
    BY DEF CallInitFromMmapFile, Inv, Types
  <2> QED
    BY <1>1, <2>1, EndKeeps
<1>2. CASE /\ \E result \in BOOLEAN :
                /\ InitFromMmapFile(dfa, maps, open, result)
                /\ last' = Returned("InitFromMmapFile", result)
           /\ UNCHANGED << alive, core, others >>
  <2>1. PICK result \in BOOLEAN :
          InitFromMmapFile(dfa, maps, open, result) /\ last' = Returned("InitFromMmapFile", result)
    BY <1>2
  <2>2. /\ dfa \in Dfas /\ open \in SUBSET Descriptors /\ open # Descriptors
        /\ Owned(dfa, maps, core) /\ Accounted(dfa, open, others)
    BY DEF Inv, Types, CallInitFromMmapFile
  <2>3. /\ dfa' \in Dfas /\ open' \subseteq Descriptors
        /\ Owned(dfa', maps', core) /\ Accounted(dfa', open', others)
        /\ dfa'.mmap_pattern <=> result
    BY <2>1, <2>2, Mapping
  <2>4. /\ owner' = owner /\ alive' = alive /\ loaded' = loaded /\ core' = core
        /\ others' = others /\ owner = "class" /\ alive
    BY <1>2 DEF CallInitFromMmapFile, ByClass, Idle
  <2>5. last'.call = "InitFromMmapFile" /\ last'.result = result
    BY <2>1 DEF Returned
  <2> QED
    BY <2>3, <2>4, <2>5 DEF Inv, Types, Stages, Said
<1> QED
  BY <1>1, <1>2 DEF CallInitFromMmapFile

(* The first load_char_core, when the array and the tables are mapped. *)
LEMMA LoadWorksKeeps ==
  ASSUME Inv, ByManager, ~loaded, LoadWorks, Descriptors # open,
         owner' = owner, loaded' = TRUE, others' = others
  PROVE  Inv'
<1>1. core.kind # "mapped" /\ ~dfa.mmap_pattern /\ ~dfa.refused /\ owner = "manager"
  BY DEF Inv, Stages, ByManager
<1>2. Deleted(core, maps) = maps
  BY <1>1 DEF Deleted
<1>n. PICK n \in FileSizes \ {0} :
        /\ ~(Addresses \subseteq DOMAIN maps)
        /\ core' = Core("mapped", FreeAt(maps))
        /\ InitFromMmapFile(dfa, Mapped(maps, FreeAt(maps), Region(n, n)), open, TRUE)
  BY <1>2 DEF LoadWorks
<1>a. PICK a, m1 : a = FreeAt(maps) /\ m1 = Mapped(maps, a, Region(n, n))
  OBVIOUS
<1>3. /\ a = FreeAt(maps) /\ m1 = Mapped(maps, a, Region(n, n))
      /\ ~(Addresses \subseteq DOMAIN maps)
      /\ core' = Core("mapped", a)
      /\ InitFromMmapFile(dfa, m1, open, TRUE)
  BY <1>n, <1>a
<1>4. PICK c : c = core'
  OBVIOUS
<1>5. dfa \in Dfas /\ open \in SUBSET Descriptors /\ open # Descriptors
      /\ Owned(dfa, maps, core) /\ Accounted(dfa, open, others) /\ core \in Cores
  BY DEF Inv, Types
<1>6. OfCore(core) = {} /\ OfDfa(dfa) = {}
  BY <1>1 DEF OfCore, OfDfa
<1>7. a \in Addresses \ DOMAIN maps
  BY <1>3, PlaceLeft
<1>8. c = [kind |-> "mapped", at |-> a] /\ c \in Cores /\ OfCore(c) = {a}
  BY <1>3, <1>4, <1>7 DEF Core, Cores, OfCore
<1>9. Owned(dfa, m1, c)
  <2>1. PICK r : r = Region(n, n)
    OBVIOUS
  <2>2. r \in Regions /\ r.length = r.file
    BY <2>1, DictionaryAssumption DEF Region, Regions
  <2>3. /\ DOMAIN m1 = DOMAIN maps \cup {a} /\ m1[a] = r
        /\ \A x \in DOMAIN maps : m1[x] = maps[x]
    BY <1>3, <1>7, <2>1 DEF Mapped
  <2>4. Tables(dfa, m1)
    BY <1>1, <1>5 DEF Owned, Tables
  <2> QED
    BY <1>5, <1>6, <1>7, <1>8, <2>2, <2>3, <2>4 DEF Owned
<1>10. /\ dfa' \in Dfas /\ open' \subseteq Descriptors
       /\ Owned(dfa', maps', c) /\ Accounted(dfa', open', others) /\ dfa'.mmap_pattern
       /\ ~dfa'.refused
  BY <1>1, <1>3, <1>5, <1>9, Mapping
<1>11. Owned(dfa', maps', core')
  BY <1>4, <1>10
<1>12. alive' = alive /\ alive = TRUE /\ last'.call = "load_char_core"
  BY DEF LoadWorks, ByManager, Idle, Returned, Inv, Types
<1>13. Types'
  BY <1>4, <1>8, <1>10, <1>12 DEF Inv, Types
<1>14. core'.kind = "mapped"
  BY <1>4, <1>8
<1>15. Stages'
  BY <1>1, <1>10, <1>12, <1>14 DEF Stages
<1>16. Said'
  BY <1>12 DEF Said
<1>17. Accounted(dfa', open', others')
  BY <1>10
<1> QED
  BY <1>11, <1>13, <1>15, <1>16, <1>17 DEF Inv

(* When the array is not, nothing is; later calls do nothing. *)
LEMMA LoadKeeps ==
  ASSUME Inv, LoadCharCore
  PROVE  Inv'
<1>1. /\ ByManager /\ Descriptors # open /\ loaded' = TRUE /\ owner' = owner
      /\ others' = IF alive' THEN others ELSE {}
  BY DEF LoadCharCore
<1>2. alive = TRUE
  BY <1>1 DEF ByManager, Idle, Inv, Types
<1>3. CASE loaded
  <2>1. /\ alive' = alive /\ core' = core /\ dfa' = dfa /\ maps' = maps /\ open' = open
        /\ others' = others /\ loaded' = loaded
    BY <1>1, <1>2, <1>3 DEF LoadCharCore, Inv, Types
  <2>2. last'.call = "load_char_core"
    BY <1>3 DEF LoadCharCore, Returned
  <2>3. /\ core \in Cores /\ Accounted(dfa, open, others)
        /\ open \subseteq Descriptors /\ others \subseteq Descriptors
    BY DEF Inv, Types
  <2> QED
    BY <1>1, <2>1, <2>2, <2>3, RestKeeps
<1>4. CASE ~loaded /\ LoadFails
  <2>1. core.kind # "mapped" /\ ~dfa.mmap_pattern
    BY <1>1, <1>4 DEF Inv, Stages, ByManager
  <2>2. /\ alive' = alive /\ dfa' = dfa /\ open' = open /\ maps' = maps /\ others' = others
        /\ core' = [kind |-> "null", at |-> Null] /\ last'.call = "load_char_core"
    BY <1>1, <1>2, <1>4, <2>1 DEF LoadFails, Deleted, Core, Returned
  <2>3. Owned(dfa', maps', core')
    BY <2>1, <2>2 DEF Inv, Owned, OfCore
  <2> QED
    BY <1>1, <1>2, <2>1, <2>2, <2>3 DEF Inv, Types, Cores, Stages, Said
<1>5. CASE ~loaded /\ LoadWorks
  <2>1. others' = others
    BY <1>1, <1>2, <1>5 DEF LoadWorks
  <2> QED
    BY <1>1, <1>5, <2>1, LoadWorksKeeps
<1>6. CASE ~loaded /\ Terminated("load_char_core")
  <2>1. others' = {}
    BY <1>1, <1>6 DEF Terminated
  <2> QED
    BY <1>1, <1>6, <2>1, EndKeeps
<1> QED
  BY <1>3, <1>4, <1>5, <1>6 DEF LoadCharCore

LEMMA DestroyKeeps ==
  ASSUME Inv, Destroy
  PROVE  Inv'
<1>1. PICK m, w, c : /\ m = Deleted(core, maps) /\ w = Clear(dfa, m, open)
                     /\ c = [kind |-> "null", at |-> Null]
  OBVIOUS
<1>2. /\ dfa' = w.d /\ maps' = w.maps /\ open' = w.open /\ core' = c /\ alive' = FALSE
      /\ last'.call = "destructor" /\ owner' = owner /\ loaded' = loaded /\ others' = others
  BY <1>1 DEF Destroy, Becomes, Core, Returned
<1>3. /\ dfa \in Dfas /\ open \in SUBSET Descriptors /\ core \in Cores
      /\ Owned(dfa, maps, core) /\ Accounted(dfa, open, others)
  BY DEF Inv, Types
<1>4. OfCore(c) = {} /\ c \in Cores /\ c.kind = "null"
  BY <1>1 DEF OfCore, Cores
<1>5. DOMAIN m = DOMAIN maps \ OfCore(core) /\ \A x \in DOMAIN m : m[x] = maps[x]
  <2>1. CASE core.kind = "mapped"
    <3>1. m = Unmapped(maps, core.at, maps[core.at].length) /\ OfCore(core) = {core.at}
      BY <1>1, <2>1 DEF Deleted, OfCore
    <3>2. core.at \in DOMAIN maps /\ maps[core.at].length \in Nat
      BY <1>3, <3>1 DEF Owned, Regions
    <3>3. PagesLeft(maps[core.at].length, maps[core.at].length) = {}
      BY <3>2, AllTaken
    <3> QED
      BY <3>1, <3>2, <3>3 DEF Unmapped
  <2>2. CASE core.kind # "mapped"
    BY <1>1, <2>2 DEF Deleted, OfCore
  <2> QED
    BY <2>1, <2>2
<1>6. Owned(dfa, m, c)
  <2>1. OfDfa(dfa) \subseteq DOMAIN m
    BY <1>3, <1>5 DEF Owned
  <2>2. dfa.mmap_pattern => m[dfa.map] = maps[dfa.map]
    BY <1>5, <2>1 DEF OfDfa
  <2>3. Tables(dfa, m)
    BY <1>3, <2>2 DEF Owned, Tables
  <2>4. DOMAIN m \subseteq Addresses /\ \A x \in DOMAIN m : m[x] \in Regions
    BY <1>3, <1>5 DEF Owned
  <2>5. \A x \in DOMAIN m \ OfDfa(dfa) : Ragged(m[x])
    BY <1>3, <1>5 DEF Owned
  <2> QED
    BY <1>4, <2>1, <2>3, <2>4, <2>5 DEF Owned
<1>7. /\ dfa' \in Dfas /\ ~dfa'.mmap_pattern /\ ~dfa'.refused /\ Owned(dfa', maps', c)
      /\ open' \subseteq Descriptors /\ open' \subseteq others
  BY <1>1, <1>2, <1>3, <1>6, Clearing
<1>11. Types'
  BY <1>2, <1>4, <1>7 DEF Inv, Types
<1>12. Stages'
  BY <1>2, <1>4, <1>7 DEF Stages
<1>13. Owned(dfa', maps', core') /\ Accounted(dfa', open', others') /\ Said'
  BY <1>2, <1>7 DEF Accounted, Said
<1> QED
  BY <1>11, <1>12, <1>13 DEF Inv

-----------------------------------------------------------------------------
LEMMA NextKeeps ==
  ASSUME Inv, [Next]_vars
  PROVE  Inv'
<1>1. ASSUME UNCHANGED dictVars
      PROVE  Inv'
  BY <1>1 DEF Inv, Types, Owned, Tables, OfDfa, OfCore, Accounted, Stages, Said, dictVars
<1>2. CASE CallInitFromFile
  BY <1>2, InitKeeps DEF CallInitFromFile
<1>3. CASE CallInitFromNfa
  <2>1. CASE ByClass /\ CallInit("InitFromNfa")
    BY <2>1, InitKeeps
  <2>2. CASE /\ last' = Returned("InitFromNfa", FALSE)
             /\ UNCHANGED << owner, alive, loaded, core, dfa, maps, open, others, charVars >>
    <3>1. last'.call = "InitFromNfa"
      BY <2>2 DEF Returned
    <3>2. /\ core \in Cores /\ Accounted(dfa, open, others)
          /\ open \subseteq Descriptors /\ others \subseteq Descriptors
      BY DEF Inv, Types
    <3> QED
      BY <2>2, <3>1, <3>2, RestKeeps
  <2> QED
    BY <1>3, <2>1, <2>2 DEF CallInitFromNfa
<1>4. CASE DumpCore
  <2>1. last'.call = "dump_core"
    BY <1>4 DEF DumpCore, Returned
  <2>2. /\ core \in Cores /\ Accounted(dfa, open, others)
        /\ open \subseteq Descriptors /\ others \subseteq Descriptors
    BY DEF Inv, Types
  <2> QED
    BY <1>4, <2>1, <2>2, RestKeeps DEF DumpCore
<1>5. CASE SegmentWithout
  <2>1. Terminated("get_segs_ex") /\ others' = {} /\ owner' = owner /\ loaded' \in BOOLEAN
    BY <1>5 DEF SegmentWithout, Inv, Types
  <2> QED
    BY <2>1, EndKeeps
<1>6. CASE Segment \/ (CharStep /\ UNCHANGED dictVars) \/ UNCHANGED vars
  BY <1>1, <1>6 DEF Segment, vars
<1> QED
  BY <1>2, <1>3, <1>4, <1>5, <1>6, MmapKeeps, ClearKeeps, BuildKeeps, LoadKeeps, DestroyKeeps,
     OthersKeep DEF Next

(* What is used is mapped, and what is mapped is used: the invariant. *)
LEMMA Live ==
  ASSUME Inv
  PROVE  MapLive
<1>1. Owned(dfa, maps, core)
  BY DEF Inv
<1>2. ASSUME NEW a \in OfDfa(dfa)
      PROVE  /\ maps[a].length \div 4 = dfa.map_size
             /\ maps[a].length = maps[a].file \/ dfa.refused
  <2>1. dfa.mmap_pattern /\ a = dfa.map
    BY <1>2 DEF OfDfa
  <2> QED
    BY <1>1, <2>1 DEF Owned, Tables
<1>3. owner = "manager" => ~dfa.refused
  BY DEF Inv, Stages
<1>4. alive /\ owner = "manager" /\ loaded =>
        core.kind = "null" \/ (core.kind = "mapped" /\ dfa.mmap_pattern)
  BY DEF Inv, Stages
<1> QED
  BY <1>1, <1>2, <1>3, <1>4 DEF MapLive, Inv, Said, Owned

LEMMA Left ==
  ASSUME Inv
  PROVE  NothingLeft
<1> SUFFICES ASSUME ~alive
             PROVE  (\A a \in DOMAIN maps : Ragged(maps[a])) /\ open \subseteq others
  BY DEF NothingLeft
<1>1. OfDfa(dfa) = {} /\ OfCore(core) = {}
  BY DEF Inv, Stages, OfDfa, OfCore
<1>2. open \subseteq others
  BY DEF Inv, Stages, Accounted
<1> QED
  BY <1>1, <1>2 DEF Inv, Owned

(* In whatever order the methods are called and whichever files are missing, *)
(* empty or refused, tables and arrays that are used are live mappings of    *)
(* their own as long as map_size_ says, of the whole file unless a refusal   *)
(* left a size; nothing else stays mapped but rests of ragged files;         *)
(* load_char_core leaves a whole dictionary, InitFromMmapFile returns TRUE   *)
(* just when the tables are mapped, and Clear makes the automaton new.       *)
THEOREM MappingsLive == Spec => []MapLive
<1>1. Init => Inv
  BY InitInv
<1>2. Inv /\ [Next]_vars => Inv'
  BY NextKeeps
<1>3. Inv => MapLive
  BY Live
<1> QED
  BY <1>1, <1>2, <1>3, PTL DEF Spec

(* A destroyed object leaves no mapping but rests of ragged files, and no   *)
(* descriptor of its own.                                                   *)
THEOREM DestroyedLeavesNothing == Spec => []NothingLeft
<1>1. Init => Inv
  BY InitInv
<1>2. Inv /\ [Next]_vars => Inv'
  BY NextKeeps
<1>3. Inv => NothingLeft
  BY Left
<1> QED
  BY <1>1, <1>2, <1>3, PTL DEF Spec

-----------------------------------------------------------------------------
(* FlattenSeq, by its recursion. *)
IsPieces(g, ss) ==
  g = [i \in 1 .. Len(ss) |-> IF i = 1 THEN ss[i] ELSE g[i - 1] \o ss[i]]

(* The recursion of FlattenSeq has a solution. *)
LEMMA PiecesExist ==
  ASSUME NEW S, NEW ss \in Seq(Seq(S)), Len(ss) > 0
  PROVE  \E g : IsPieces(g, ss)
<1> DEFINE Upto(g, n) ==
             g = [i \in 1 .. n |-> IF i = 1 THEN ss[i] ELSE g[i - 1] \o ss[i]]
           Bad == {n \in Nat : n \in 1 .. Len(ss) /\ ~ \E g : Upto(g, n)}
<1>0. Len(ss) \in Nat
  OBVIOUS
<1>1. Bad = {}
  <2> SUFFICES ASSUME Bad # {} PROVE FALSE
    OBVIOUS
  <2>1. Bad \subseteq Nat
    OBVIOUS
  <2>2. PICK n \in Bad : \A m \in Nat : m < n => m \notin Bad
    <3> HIDE DEF Bad
    <3>1. PICK n \in Bad : \A m \in Bad : ~(<<m, n>> \in OpToRel(<, Nat))
      BY <2>1, WFMin, NatLessThanWellFounded
    <3> QED BY <3>1, <2>1 DEF OpToRel
  <2>3. n \in 1 .. Len(ss) /\ ~ \E g : Upto(g, n)
    BY <2>2
  <2>4. CASE n = 1
    <3>1. Upto([i \in 1 .. 1 |-> ss[i]], 1)
      OBVIOUS
    <3> QED BY <3>1, <2>3, <2>4
  <2>5. CASE n > 1
    <3>1. n - 1 \in Nat /\ n - 1 < n /\ n - 1 \in 1 .. Len(ss)
      BY <2>3, <2>5, <1>0
    <3>2. PICK g : Upto(g, n - 1)
      BY <2>2, <3>1
    <3> DEFINE h == [i \in 1 .. n |-> IF i = n THEN g[n - 1] \o ss[n] ELSE g[i]]
    <3>3. DOMAIN h = 1 .. n
      OBVIOUS
    <3>4. \A i \in 1 .. n - 1 : h[i] = g[i]
      BY <2>3
    <3>5. n # 1 /\ h[n] = h[n - 1] \o ss[n]
      <4>1. n \in 1 .. n /\ n - 1 \in 1 .. n - 1 /\ n # 1
        BY <2>3, <3>1, <2>5
      <4>2. h[n] = g[n - 1] \o ss[n]
        BY <4>1
      <4>3. h[n - 1] = g[n - 1]
        BY <4>1, <3>4
      <4> HIDE DEF h
      <4> QED BY <4>1, <4>2, <4>3
    <3>6. \A i \in 1 .. n - 1 : g[i] = IF i = 1 THEN ss[i] ELSE g[i - 1] \o ss[i]
      BY <3>2
    <3>7. \A i \in 1 .. n : h[i] = IF i = 1 THEN ss[i] ELSE h[i - 1] \o ss[i]
      <4> SUFFICES ASSUME NEW i \in 1 .. n
                   PROVE  h[i] = IF i = 1 THEN ss[i] ELSE h[i - 1] \o ss[i]
        OBVIOUS
      <4> HIDE DEF h
      <4>1. CASE i = n
        BY <4>1, <3>5, Zenon
      <4>2. CASE i # n
        <5>1. i \in 1 .. n - 1 /\ (i # 1 => i - 1 \in 1 .. n - 1)
          BY <4>2, <2>3
        <5> QED BY <5>1, <3>4, <3>6
      <4> QED BY <4>1, <4>2
    <3>8. Upto(h, n)
      <4>1. h = [i \in 1 .. n |-> h[i]]
        BY <3>3
      <4> HIDE DEF h
      <4> QED BY <4>1, <3>7
    <3> QED BY <3>8, <2>3
  <2> QED BY <2>3, <2>4, <2>5
<1>2. Len(ss) \in 1 .. Len(ss) /\ Len(ss) \in Nat
  BY <1>0
<1> QED BY <1>1, <1>2 DEF IsPieces

(* FlattenSeq is a solution's last value, and solutions are sequences. *)
LEMMA FlattenIs ==
  ASSUME NEW S, NEW ss \in Seq(Seq(S)), Len(ss) > 0
  PROVE  \E g : IsPieces(g, ss) /\ FlattenSeq(ss) = g[Len(ss)]
<1> DEFINE G == CHOOSE g : g = [i \in 1 .. Len(ss) |->
                                  IF i = 1 THEN ss[i] ELSE g[i - 1] \o ss[i]]
<1>1. \E g : g = [i \in 1 .. Len(ss) |-> IF i = 1 THEN ss[i] ELSE g[i - 1] \o ss[i]]
  BY PiecesExist DEF IsPieces
<1>2. IsPieces(G, ss)
  BY <1>1, Zenon DEF IsPieces
<1>3. FlattenSeq(ss) = G[Len(ss)]
  <2>1. Len(ss) # 0
    OBVIOUS
  <2> QED BY <2>1, Zenon DEF FlattenSeq
<1> HIDE DEF G
<1> QED BY <1>2, <1>3

(* No sequences, put together. *)
LEMMA FlattenEmpty == FlattenSeq(<<>>) = <<>>
BY DEF FlattenSeq

(* One step of that recursion. *)
LEMMA PiecesStep ==
  ASSUME NEW ss, Len(ss) \in Nat, NEW g, IsPieces(g, ss), NEW i \in 1 .. Len(ss)
  PROVE  g[i] = IF i = 1 THEN ss[i] ELSE g[i - 1] \o ss[i]
BY DEF IsPieces

(* One sequence more does not change what the others are put together. *)
LEMMA PiecesAgree ==
  ASSUME NEW S, NEW ss \in Seq(Seq(S)), NEW s \in Seq(S),
         NEW g, IsPieces(g, ss), NEW h, IsPieces(h, Append(ss, s))
  PROVE  \A n \in 1 .. Len(ss) : g[n] = h[n] /\ g[n] \in Seq(S)
<1> DEFINE tt == Append(ss, s)
           Bad == {n \in Nat : n \in 1 .. Len(ss) /\ ~(g[n] = h[n] /\ g[n] \in Seq(S))}
<1>0. Len(ss) \in Nat /\ Len(tt) = Len(ss) + 1 /\ \A i \in 1 .. Len(ss) : tt[i] = ss[i]
  OBVIOUS
<1>1. Bad = {}
  <2> SUFFICES ASSUME Bad # {} PROVE FALSE
    OBVIOUS
  <2>1. Bad \subseteq Nat
    OBVIOUS
  <2>2. PICK n \in Bad : \A m \in Nat : m < n => m \notin Bad
    <3> HIDE DEF Bad
    <3>1. PICK n \in Bad : \A m \in Bad : ~(<<m, n>> \in OpToRel(<, Nat))
      BY <2>1, WFMin, NatLessThanWellFounded
    <3> QED BY <3>1, <2>1 DEF OpToRel
  <2>3. n \in 1 .. Len(ss) /\ ~(g[n] = h[n] /\ g[n] \in Seq(S))
    BY <2>2
  <2>4. g[n] = IF n = 1 THEN ss[n] ELSE g[n - 1] \o ss[n]
    BY <2>3, <1>0, PiecesStep
  <2>5. h[n] = IF n = 1 THEN ss[n] ELSE h[n - 1] \o ss[n]
    <3> HIDE DEF tt
    <3>1. Len(tt) \in Nat /\ n \in 1 .. Len(tt) /\ tt[n] = ss[n]
      BY <2>3, <1>0
    <3>2. IsPieces(h, tt)
      BY DEF tt
    <3> QED BY <3>1, <3>2, PiecesStep
  <2>6. ss[n] \in Seq(S)
    BY <2>3
  <2>7. CASE n = 1
    BY <2>3, <2>4, <2>5, <2>6, <2>7
  <2>8. CASE n > 1
    <3>1. n - 1 \in Nat /\ n - 1 < n /\ n - 1 \in 1 .. Len(ss)
      BY <2>3, <2>8, <1>0
    <3>2. g[n - 1] = h[n - 1] /\ g[n - 1] \in Seq(S)
      BY <3>1, <2>2
    <3> HIDE DEF Bad
    <3>3. g[n] = g[n - 1] \o ss[n] /\ h[n] = h[n - 1] \o ss[n]
      <4>1. n # 1
        BY <2>8, <2>3
      <4> QED BY <4>1, <2>4, <2>5, Zenon
    <3>4. g[n - 1] \o ss[n] \in Seq(S)
      BY <3>2, <2>6
    <3>5. g[n] = h[n]
      BY <3>2, <3>3, Zenon
    <3>6. g[n] \in Seq(S)
      BY <3>3, <3>4, Zenon
    <3> QED BY <3>5, <3>6, <2>3, Zenon
  <2> QED BY <2>3, <2>7, <2>8
<1> SUFFICES ASSUME NEW n \in 1 .. Len(ss)
             PROVE  g[n] = h[n] /\ g[n] \in Seq(S)
  OBVIOUS
<1>2. n \in Nat
  BY <1>0
<1> QED BY <1>1, <1>2, Zenon

(* One sequence more is joined at the end. *)
LEMMA FlattenAdds ==
  ASSUME NEW S, NEW ss \in Seq(Seq(S)), NEW s \in Seq(S)
  PROVE  /\ FlattenSeq(ss) \in Seq(S)
         /\ FlattenSeq(Append(ss, s)) = FlattenSeq(ss) \o s
<1> DEFINE tt == Append(ss, s)
           L == Len(ss)
<1>0. L \in Nat /\ tt \in Seq(Seq(S)) /\ Len(tt) = L + 1 /\ tt[L + 1] = s
  OBVIOUS
<1>1. Len(tt) > 0
  BY <1>0
<1>2. PICK h : IsPieces(h, tt) /\ FlattenSeq(tt) = h[Len(tt)]
  <2> HIDE DEF tt
  <2> QED BY <1>0, <1>1, FlattenIs
<1>3. h[L + 1] = IF L + 1 = 1 THEN s ELSE h[L] \o s
  <2> HIDE DEF tt, L
  <2>1. h[L + 1] = IF L + 1 = 1 THEN tt[L + 1] ELSE h[L] \o tt[L + 1]
    <3>1. PICK k : k = L + 1
      OBVIOUS
    <3>2. k \in 1 .. Len(tt) /\ Len(tt) \in Nat
      BY <1>0, <3>1
    <3>3. h[k] = IF k = 1 THEN tt[k] ELSE h[k - 1] \o tt[k]
      BY <3>2, <1>2, PiecesStep, Zenon
    <3>4. k - 1 = L
      BY <3>1, <1>0
    <3> QED BY <3>1, <3>3, <3>4, Zenon
  <2> QED BY <2>1, <1>0
<1>4. CASE L = 0
  <2>1. ss = <<>>
    BY <1>4
  <2>2. FlattenSeq(ss) = <<>>
    BY <2>1, FlattenEmpty
  <2>3. FlattenSeq(tt) = s
    BY <1>0, <1>2, <1>3, <1>4
  <2>4. <<>> \o s = s /\ <<>> \in Seq(S)
    OBVIOUS
  <2> QED BY <2>2, <2>3, <2>4
<1>5. CASE L > 0
  <2>1. PICK g : IsPieces(g, ss) /\ FlattenSeq(ss) = g[L]
    BY <1>5, FlattenIs
  <2>2. \A n \in 1 .. L : g[n] = h[n] /\ g[n] \in Seq(S)
    BY <1>2, <2>1, PiecesAgree
  <2>3. g[L] = h[L] /\ g[L] \in Seq(S)
    <3> HIDE DEF L
    <3> QED BY <2>2, <1>5, <1>0
  <2>4. FlattenSeq(tt) = h[L] \o s
    <3> HIDE DEF L, tt
    <3> QED BY <1>0, <1>2, <1>3, <1>5
  <2> QED BY <2>1, <2>3, <2>4
<1> QED BY <1>0, <1>4, <1>5

(* What is joined in two parts is joined. *)
LEMMA FlattenJoins ==
  ASSUME NEW S, NEW ss \in Seq(Seq(S)), NEW tt \in Seq(Seq(S))
  PROVE  FlattenSeq(ss \o tt) = FlattenSeq(ss) \o FlattenSeq(tt)
<1> DEFINE Part(n) == SubSeq(tt, 1, n)
           Good(n) == FlattenSeq(ss \o Part(n)) = FlattenSeq(ss) \o FlattenSeq(Part(n))
           Bad == {n \in Nat : n \in 0 .. Len(tt) /\ ~Good(n)}
<1>0. Len(tt) \in Nat /\ Part(Len(tt)) = tt /\ Part(0) = <<>>
  OBVIOUS
<1>1. Bad = {}
  <2> SUFFICES ASSUME Bad # {} PROVE FALSE
    OBVIOUS
  <2>1. Bad \subseteq Nat
    OBVIOUS
  <2>2. PICK n \in Bad : \A m \in Nat : m < n => m \notin Bad
    <3> HIDE DEF Bad
    <3>1. PICK n \in Bad : \A m \in Bad : ~(<<m, n>> \in OpToRel(<, Nat))
      BY <2>1, WFMin, NatLessThanWellFounded
    <3> QED BY <3>1, <2>1 DEF OpToRel
  <2>3. n \in 0 .. Len(tt) /\ ~Good(n)
    BY <2>2
  <2>a. FlattenSeq(ss) \in Seq(S)
    BY FlattenAdds, <<>> \in Seq(S)
  <2>4. CASE n = 0
    <3>1. ss \o Part(0) = ss
      BY <1>0
    <3>2. FlattenSeq(Part(0)) = <<>>
      BY <1>0, FlattenEmpty
    <3>3. FlattenSeq(ss) \o <<>> = FlattenSeq(ss)
      BY <2>a
    <3>4. Good(0)
      <4> HIDE DEF Part
      <4> QED BY <3>1, <3>2, <3>3
    <3> QED BY <3>4, <2>3, <2>4
  <2>5. CASE n > 0
    <3>1. n - 1 \in Nat /\ n - 1 < n /\ n - 1 \in 0 .. Len(tt) /\ n \in 1 .. Len(tt)
      BY <2>3, <2>5, <1>0
    <3>2. Good(n - 1)
      BY <3>1, <2>2
    <3> DEFINE p == Part(n - 1)
               s == tt[n]
    <3>3. p \in Seq(Seq(S)) /\ s \in Seq(S)
      BY <3>1
    <3>4. Part(n) = Append(p, s)
      BY <3>1
    <3>5. FlattenSeq(ss \o p) = FlattenSeq(ss) \o FlattenSeq(p)
      BY <3>2
    <3> HIDE DEF p, s, Part, Bad
    <3>6. ss \o Append(p, s) = Append(ss \o p, s) /\ ss \o p \in Seq(Seq(S))
      BY <3>3
    <3>7. FlattenSeq(Append(ss \o p, s)) = FlattenSeq(ss \o p) \o s
      BY <3>3, <3>6, FlattenAdds
    <3>8. FlattenSeq(Append(p, s)) = FlattenSeq(p) \o s /\ FlattenSeq(p) \in Seq(S)
      BY <3>3, FlattenAdds
    <3>9. (FlattenSeq(ss) \o FlattenSeq(p)) \o s = FlattenSeq(ss) \o (FlattenSeq(p) \o s)
      BY <3>3, <3>8, <2>a
    <3>10. Good(n)
      BY <3>4, <3>5, <3>6, <3>7, <3>8, <3>9
    <3> QED BY <3>10, <2>3
  <2> QED BY <2>3, <2>4, <2>5
<1>2. Good(Len(tt))
  <2>1. Len(tt) \in 0 .. Len(tt)
    BY <1>0
  <2> HIDE DEF Good
  <2> QED BY <1>1, <1>0, <2>1
<1> QED BY <1>2, <1>0

-----------------------------------------------------------------------------
Bytes == 0 .. 255
Codes == {c \in Nat : c <= 65535}

(* Six bits below a number, taken apart again. *)
LEMMA Sixes ==
  ASSUME NEW q \in Nat, NEW r \in 0 .. 63
  PROVE  (q * 64 + r) \div 64 = q /\ (q * 64 + r) % 64 = r
OBVIOUS

(* The bits of the bytes of a character. *)
LEMMA LeadBits ==
  ASSUME NEW b \in Bytes
  PROVE  /\ Trailing(b) <=> b \in 128 .. 191
         /\ Trailing(b) => b % 64 = b - 128
         /\ b \div 16 = 14 <=> b \in 224 .. 239
         /\ b \div 32 = 6 <=> b \in 192 .. 223
         /\ b \in 224 .. 239 => b % 16 = b - 224
         /\ b \in 192 .. 223 => b % 32 = b - 192
         /\ b % 64 \in 0 .. 63 /\ b % 16 \in 0 .. 15 /\ b % 32 \in 0 .. 31
BY DEF Trailing, Bytes

Joint(x, y, z) == x * 4096 + y * 64 + z

Digits(c, x, y, z) == c \div 4096 = x /\ (c \div 64) % 64 = y /\ c % 64 = z

(* The same for three groups of bits. *)
LEMMA Thousands ==
  ASSUME NEW x \in Nat, NEW y \in 0 .. 63, NEW z \in 0 .. 63
  PROVE  Digits(Joint(x, y, z), x, y, z)
<1>1. PICK q \in Nat : q = x * 64 + y
  OBVIOUS
<1>2. Joint(x, y, z) = q * 64 + z
  BY <1>1 DEF Joint
<1>3. Joint(x, y, z) \div 64 = q /\ Joint(x, y, z) % 64 = z
  <2>1. (q * 64 + z) \div 64 = q /\ (q * 64 + z) % 64 = z
    BY Sixes
  <2> QED BY <1>2, <2>1
<1>4. q % 64 = y
  <2>1. (x * 64 + y) % 64 = y
    BY Sixes
  <2> QED BY <1>1, <2>1
<1>5. Joint(x, y, z) \div 4096 = x
  BY DEF Joint
<1> QED BY <1>3, <1>4, <1>5 DEF Digits

(* A code becomes one well formed character. *)
LEMMA EncodeFacts ==
  ASSUME NEW c \in Codes
  PROVE  /\ Encode(c) \in Seq(Bytes) /\ Len(Encode(c)) \in 1 .. 3
         /\ WellFormed(Encode(c))
<1>0. c \in Nat /\ c <= 65535
  BY DEF Codes
<1>1. CASE c <= 127
  <2>1. Encode(c) = << c >>
    BY <1>1 DEF Encode
  <2>2. << c >> \in Seq(Bytes) /\ Len(<< c >>) = 1 /\ << c >>[1] = c
    BY <1>0, <1>1 DEF Bytes
  <2>3. WellFormed(<< c >>)
    BY <1>0, <1>1, <2>2 DEF WellFormed, Begins, Plain
  <2> QED BY <2>1, <2>2, <2>3
<1>2. CASE c > 127 /\ c <= 2047
  <2> DEFINE a == 192 + (c \div 64)
             b == 128 + (c % 64)
             s == << a, b >>
  <2>1. Encode(c) = s
    BY <1>0, <1>2 DEF Encode
  <2>2. a \in 194 .. 223 /\ b \in 128 .. 191 /\ a \in Bytes /\ b \in Bytes
    BY <1>0, <1>2 DEF Bytes
  <2> HIDE DEF a, b
  <2>3. s \in Seq(Bytes) /\ Len(s) = 2 /\ s[1] = a /\ s[2] = b
    BY <2>2
  <2>4. Trailing(b)
    BY <2>2, LeadBits
  <2>5. Begins(s, 1) /\ Continues(s, 2)
    <3> HIDE DEF s
    <3>1. LeadsTwo(s[1]) /\ s[1 + 1] = b /\ 1 + 1 <= Len(s)
      BY <2>2, <2>3 DEF LeadsTwo
    <3>2. s[2 - 1] = s[1] /\ 2 > 1
      OBVIOUS
    <3>3. Begins(s, 1)
      BY <2>4, <3>1, Zenon DEF Begins
    <3>4. Continues(s, 2)
      BY <2>3, <2>4, <3>1, <3>2, Zenon DEF Continues
    <3> QED BY <3>3, <3>4
  <2>6. WellFormed(s)
    <3> HIDE DEF s
    <3>1. 1 .. Len(s) = {1, 2}
      BY <2>3
    <3> QED BY <3>1, <2>5 DEF WellFormed
  <2> QED BY <2>1, <2>3, <2>6
<1>3. CASE c > 2047
  <2> DEFINE a == 224 + (c \div 4096)
             b == 128 + ((c \div 64) % 64)
             d == 128 + (c % 64)
             s == << a, b, d >>
  <2>1. Encode(c) = s
    BY <1>0, <1>3 DEF Encode
  <2>2. a \in 224 .. 239 /\ b \in 128 .. 191 /\ d \in 128 .. 191
    BY <1>0, <1>3
  <2>3. a = 224 => b >= 160
    BY <1>0, <1>3
  <2> HIDE DEF a, b, d
  <2>4. s \in Seq(Bytes) /\ Len(s) = 3 /\ s[1] = a /\ s[2] = b /\ s[3] = d
    BY <2>2 DEF Bytes
  <2>5. Trailing(b) /\ Trailing(d)
    BY <2>2, LeadBits DEF Bytes
  <2>6. Begins(s, 1) /\ Continues(s, 2) /\ Continues(s, 3)
    <3> HIDE DEF s
    <3>1. LeadsThree(s[1]) /\ s[1 + 1] = b /\ s[1 + 2] = d /\ 1 + 2 <= Len(s)
      BY <2>2, <2>4 DEF LeadsThree
    <3>2. s[2 - 1] = s[1] /\ s[3 - 2] = s[1] /\ 2 > 1 /\ 3 > 2
      OBVIOUS
    <3>3. Shortest(s[1], s[1 + 1])
      BY <2>3, <2>4, <3>1 DEF Shortest
    <3>4. Begins(s, 1)
      BY <2>5, <3>1, <3>3, Zenon DEF Begins
    <3>5. Continues(s, 2) /\ Continues(s, 3)
      BY <2>4, <2>5, <3>1, <3>2, Zenon DEF Continues
    <3> QED BY <3>4, <3>5
  <2>7. WellFormed(s)
    <3> HIDE DEF s
    <3>1. 1 .. Len(s) = {1, 2, 3}
      BY <2>4
    <3> QED BY <3>1, <2>6 DEF WellFormed
  <2> QED BY <2>1, <2>4, <2>7
<1> QED BY <1>0, <1>1, <1>2, <1>3

(* A byte that continues a character does so where the sequence is longer. *)
LEMMA AlsoContinues ==
  ASSUME NEW s, NEW k \in Nat, NEW u, NEW m \in Nat, m >= k, u[m] = s[k],
         k > 1 => u[m - 1] = s[k - 1], k > 2 => u[m - 2] = s[k - 2],
         Continues(s, k)
  PROVE  Continues(u, m)
<1>1. Trailing(u[m])
  BY DEF Continues
<1>2. CASE k > 1 /\ (LeadsTwo(s[k - 1]) \/ LeadsThree(s[k - 1]))
  <2>1. m > 1 /\ (LeadsTwo(u[m - 1]) \/ LeadsThree(u[m - 1]))
    BY <1>2
  <2> QED BY <1>1, <2>1 DEF Continues
<1>3. CASE k > 2 /\ LeadsThree(s[k - 2])
  <2>1. m > 2 /\ LeadsThree(u[m - 2])
    BY <1>3
  <2> QED BY <1>1, <2>1 DEF Continues
<1> QED BY <1>2, <1>3 DEF Continues

(* Well formed texts put together are one. *)
LEMMA WellJoined ==
  ASSUME NEW s \in Seq(Bytes), NEW t \in Seq(Bytes), WellFormed(s), WellFormed(t)
  PROVE  WellFormed(s \o t)
<1> DEFINE u == s \o t
<1>0. /\ Len(s) \in Nat /\ Len(t) \in Nat /\ Len(u) = Len(s) + Len(t)
      /\ \A k \in 1 .. Len(s) : u[k] = s[k]
      /\ \A k \in 1 .. Len(t) : u[Len(s) + k] = t[k]
  OBVIOUS
<1> HIDE DEF u
<1>1. ASSUME NEW k \in 1 .. Len(s)
      PROVE  Begins(u, k) \/ Continues(u, k)
  <2>1. Begins(s, k) \/ Continues(s, k)
    BY DEF WellFormed
  <2>2. u[k] = s[k] /\ k \in Nat
    BY <1>0
  <2>3. ASSUME Begins(s, k) PROVE Begins(u, k)
    <3>1. k + 1 <= Len(s) => u[k + 1] = s[k + 1] /\ k + 1 <= Len(u)
      BY <1>0
    <3>2. k + 2 <= Len(s) => u[k + 1] = s[k + 1] /\ u[k + 2] = s[k + 2] /\ k + 2 <= Len(u)
      BY <1>0
    <3> QED BY <2>2, <2>3, <3>1, <3>2 DEF Begins
  <2>4. ASSUME Continues(s, k) PROVE Continues(u, k)
    <3>1. k > 1 => u[k - 1] = s[k - 1]
      BY <1>0
    <3>2. k > 2 => u[k - 2] = s[k - 2]
      BY <1>0
    <3> QED BY <2>2, <2>4, <3>1, <3>2, AlsoContinues
  <2> QED BY <2>1, <2>3, <2>4
<1>2. ASSUME NEW k \in 1 .. Len(t)
      PROVE  Begins(u, Len(s) + k) \/ Continues(u, Len(s) + k)
  <2> DEFINE m == Len(s) + k
  <2>1. Begins(t, k) \/ Continues(t, k)
    BY DEF WellFormed
  <2>2. u[m] = t[k] /\ k \in Nat /\ m \in Nat /\ m >= k
    BY <1>0
  <2>3. ASSUME Begins(t, k) PROVE Begins(u, m)
    <3>1. k + 1 <= Len(t) => u[m + 1] = t[k + 1] /\ m + 1 <= Len(u)
      BY <1>0
    <3>2. k + 2 <= Len(t) => u[m + 1] = t[k + 1] /\ u[m + 2] = t[k + 2] /\ m + 2 <= Len(u)
      BY <1>0
    <3> HIDE DEF m
    <3> QED BY <2>2, <2>3, <3>1, <3>2, Zenon DEF Begins
  <2>4. ASSUME Continues(t, k) PROVE Continues(u, m)
    <3>1. k > 1 => u[m - 1] = t[k - 1]
      <4>1. k > 1 => k - 1 \in 1 .. Len(t) /\ Len(s) + (k - 1) = m - 1
        BY <1>0
      <4> HIDE DEF m
      <4> QED BY <4>1, <1>0
    <3>2. k > 2 => u[m - 2] = t[k - 2]
      <4>1. k > 2 => k - 2 \in 1 .. Len(t) /\ Len(s) + (k - 2) = m - 2
        BY <1>0
      <4> HIDE DEF m
      <4> QED BY <4>1, <1>0
    <3> HIDE DEF m
    <3> QED BY <2>2, <2>4, <3>1, <3>2, AlsoContinues
  <2> QED BY <2>1, <2>3, <2>4
<1>3. ASSUME NEW k \in 1 .. Len(u)
      PROVE  Begins(u, k) \/ Continues(u, k)
  <2>1. CASE k <= Len(s)
    <3>1. k \in 1 .. Len(s)
      BY <2>1, <1>0
    <3> QED BY <3>1, <1>1
  <2>2. CASE k > Len(s)
    <3>1. k - Len(s) \in 1 .. Len(t) /\ k = Len(s) + (k - Len(s))
      BY <2>2, <1>0
    <3> QED BY <3>1, <1>2
  <2> QED BY <1>0, <2>1, <2>2
<1>4. WellFormed(u)
  BY <1>3 DEF WellFormed
<1> QED BY <1>4 DEF u

-----------------------------------------------------------------------------
(* The encodings of the first n characters of cs, put together. *)
Encoded(cs, n) == FlattenSeq([i \in 1 .. n |-> Encode(cs[i])])

(* One character after the other. *)
LEMMA EncodedStep ==
  ASSUME NEW cs \in Seq(Codes)
  PROVE  /\ Encoded(cs, 0) = <<>>
         /\ \A n \in 0 .. Len(cs) - 1 :
              Encoded(cs, n + 1) = Encoded(cs, n) \o Encode(cs[n + 1])
<1>1. Encoded(cs, 0) = <<>>
  <2>1. [i \in 1 .. 0 |-> Encode(cs[i])] = <<>>
    OBVIOUS
  <2> QED BY <2>1, FlattenEmpty DEF Encoded
<1>2. ASSUME NEW n \in 0 .. Len(cs) - 1
      PROVE  Encoded(cs, n + 1) = Encoded(cs, n) \o Encode(cs[n + 1])
  <2> DEFINE ss == [i \in 1 .. n |-> Encode(cs[i])]
             tt == [i \in 1 .. n + 1 |-> Encode(cs[i])]
             s == Encode(cs[n + 1])
  <2>0. n \in Nat /\ n + 1 \in 1 .. Len(cs)
    OBVIOUS
  <2>1. \A i \in 1 .. Len(cs) : Encode(cs[i]) \in Seq(Bytes)
    BY EncodeFacts
  <2>2. ss \in Seq(Seq(Bytes)) /\ s \in Seq(Bytes) /\ Len(ss) = n
    BY <2>0, <2>1
  <2>3. tt = Append(ss, s)
    <3>1. Append(ss, s) = [i \in 1 .. n + 1 |-> IF i = n + 1 THEN s ELSE ss[i]]
      BY <2>0, <2>2
    <3>2. \A i \in 1 .. n + 1 : tt[i] = IF i = n + 1 THEN s ELSE ss[i]
      BY <2>0
    <3> QED BY <3>1, <3>2
  <2>4. FlattenSeq(tt) = FlattenSeq(ss) \o s
    <3> HIDE DEF ss, s, tt
    <3> QED BY <2>2, <2>3, FlattenAdds
  <2> QED BY <2>4, Zenon DEF Encoded
<1> QED BY <1>1, <1>2

(* They are bytes, well formed, and three for a character at the most. *)
LEMMA EncodedFacts ==
  ASSUME NEW cs \in Seq(Codes), NEW n \in 0 .. Len(cs)
  PROVE  /\ Encoded(cs, n) \in Seq(Bytes) /\ Len(Encoded(cs, n)) <= 3 * n
         /\ WellFormed(Encoded(cs, n))
<1> DEFINE Good(m) == /\ Encoded(cs, m) \in Seq(Bytes) /\ Len(Encoded(cs, m)) <= 3 * m
                      /\ WellFormed(Encoded(cs, m))
           Bad == {m \in Nat : m \in 0 .. Len(cs) /\ ~Good(m)}
<1>0. Len(cs) \in Nat /\ n \in Nat
  OBVIOUS
<1>1. Good(0)
  <2>1. <<>> \in Seq(Bytes) /\ Len(<<>>) = 0 /\ WellFormed(<<>>)
    BY DEF WellFormed
  <2>2. Encoded(cs, 0) = <<>>
    BY EncodedStep
  <2>3. 0 <= 3 * 0
    OBVIOUS
  <2> QED BY <2>1, <2>2, <2>3, Zenon
<1>2. ASSUME NEW m \in 0 .. Len(cs) - 1, Good(m)
      PROVE  Good(m + 1)
  <2> DEFINE s == Encoded(cs, m)
             t == Encode(cs[m + 1])
  <2>1. cs[m + 1] \in Codes
    BY <1>0
  <2>2. t \in Seq(Bytes) /\ Len(t) \in 1 .. 3 /\ WellFormed(t)
    BY <2>1, EncodeFacts
  <2>3. s \in Seq(Bytes) /\ Len(s) <= 3 * m /\ WellFormed(s)
    BY <1>2
  <2>4. Encoded(cs, m + 1) = s \o t
    BY EncodedStep
  <2> HIDE DEF s, t
  <2>5. s \o t \in Seq(Bytes) /\ Len(s \o t) = Len(s) + Len(t)
    BY <2>2, <2>3
  <2>6. WellFormed(s \o t)
    BY <2>2, <2>3, WellJoined
  <2>7. Len(s) + Len(t) <= 3 * (m + 1)
    <3>1. Len(s) \in Nat /\ Len(t) \in Nat /\ m \in Nat
      BY <1>0, <2>2, <2>3
    <3>2. PICK x \in Nat, y \in 1 .. 3 : x = Len(s) /\ y = Len(t)
      BY <3>1, <2>2
    <3>3. x <= 3 * m
      BY <3>2, <2>3
    <3>4. x + y <= 3 * (m + 1)
      BY <3>1, <3>3
    <3> QED BY <3>2, <3>4
  <2> QED BY <2>4, <2>5, <2>6, <2>7
<1> HIDE DEF Good
<1>3. Bad = {}
  <2> SUFFICES ASSUME Bad # {} PROVE FALSE
    OBVIOUS
  <2>1. Bad \subseteq Nat
    OBVIOUS
  <2>2. PICK m \in Bad : \A k \in Nat : k < m => k \notin Bad
    <3> HIDE DEF Bad
    <3>1. PICK m \in Bad : \A k \in Bad : ~(<<k, m>> \in OpToRel(<, Nat))
      BY <2>1, WFMin, NatLessThanWellFounded
    <3> QED BY <3>1, <2>1 DEF OpToRel
  <2>3. m \in 0 .. Len(cs) /\ ~Good(m)
    BY <2>2
  <2>4. m # 0
    BY <2>3, <1>1
  <2>5. PICK k \in Nat : k = m - 1
    BY <2>3, <2>4, <1>0
  <2>6. k < m /\ k \in 0 .. Len(cs) - 1 /\ k \in 0 .. Len(cs) /\ k + 1 = m
    BY <2>3, <2>5, <1>0
  <2>7. Good(k)
    BY <2>2, <2>6
  <2> HIDE DEF Bad
  <2> QED BY <1>2, <2>3, <2>6, <2>7
<1>4. Good(n)
  BY <1>0, <1>3
<1> QED BY <1>4 DEF Good

(* A character more changes nothing of those before. *)
LEMMA EncodedBefore ==
  ASSUME NEW cs \in Seq(Codes), NEW c \in Codes, NEW n \in 0 .. Len(cs)
  PROVE  Encoded(Append(cs, c), n) = Encoded(cs, n)
<1>1. [i \in 1 .. n |-> Encode(Append(cs, c)[i])] = [i \in 1 .. n |-> Encode(cs[i])]
  <2>1. \A i \in 1 .. n : Append(cs, c)[i] = cs[i]
    OBVIOUS
  <2> QED BY <2>1
<1> QED BY <1>1 DEF Encoded

(* Two parts of the characters are encoded one by one. *)
LEMMA EncodedParts ==
  ASSUME NEW cs \in Seq(Codes), NEW a \in Nat, NEW n \in Nat, a + n <= Len(cs)
  PROVE  Encoded(cs, a + n)
           = Encoded(cs, a) \o Encoded(SubSeq(cs, a + 1, a + n), n)
<1> DEFINE w == SubSeq(cs, a + 1, a + n)
           ss == [i \in 1 .. a |-> Encode(cs[i])]
           tt == [i \in 1 .. n |-> Encode(w[i])]
           uu == [i \in 1 .. a + n |-> Encode(cs[i])]
<1>0. /\ Len(cs) \in Nat /\ w \in Seq(Codes) /\ Len(w) = n
      /\ \A i \in 1 .. n : w[i] = cs[a + i]
  OBVIOUS
<1>1. \A i \in 1 .. Len(cs) : Encode(cs[i]) \in Seq(Bytes)
  BY EncodeFacts
<1>2. \A i \in 1 .. n : Encode(w[i]) \in Seq(Bytes)
  BY <1>0, EncodeFacts
<1> HIDE DEF w
<1>3. ss \in Seq(Seq(Bytes)) /\ tt \in Seq(Seq(Bytes)) /\ Len(ss) = a /\ Len(tt) = n
  BY <1>0, <1>1, <1>2
<1>4. uu = ss \o tt
  <2>1. /\ ss \o tt \in Seq(Seq(Bytes)) /\ Len(ss \o tt) = a + n
        /\ \A i \in 1 .. a + n : (ss \o tt)[i] = IF i <= a THEN ss[i] ELSE tt[i - a]
    <3> HIDE DEF ss, tt
    <3>1. ss \o tt \in Seq(Seq(Bytes)) /\ Len(ss \o tt) = a + n
      BY <1>3, ConcatProperties
    <3>2. \A i \in 1 .. Len(ss) + Len(tt) :
            (ss \o tt)[i] = IF i <= Len(ss) THEN ss[i] ELSE tt[i - Len(ss)]
      BY <1>3, ConcatProperties
    <3> QED BY <1>3, <3>1, <3>2
  <2>2. \A i \in 1 .. a + n : uu[i] = IF i <= a THEN ss[i] ELSE tt[i - a]
    <3> SUFFICES ASSUME NEW i \in 1 .. a + n
                 PROVE  uu[i] = IF i <= a THEN ss[i] ELSE tt[i - a]
      OBVIOUS
    <3>1. CASE i <= a
      BY <3>1
    <3>2. CASE i > a
      <4>1. PICK j \in 1 .. n : j = i - a
        BY <3>2
      <4>2. w[j] = cs[i] /\ tt[j] = Encode(w[j]) /\ uu[i] = Encode(cs[i])
        BY <4>1, <1>0, <3>2
      <4> HIDE DEF tt, uu
      <4> QED BY <4>1, <4>2, <3>2
    <3> QED BY <3>1, <3>2
  <2>3. uu \in Seq(Seq(Bytes)) /\ Len(uu) = a + n
    <3>1. PICK m \in Nat : m = a + n
      OBVIOUS
    <3>2. m <= Len(cs)
      BY <3>1
    <3>3. \A i \in 1 .. m : Encode(cs[i]) \in Seq(Bytes)
      BY <1>0, <1>1, <3>2
    <3>4. [i \in 1 .. m |-> Encode(cs[i])] \in Seq(Seq(Bytes))
      BY <3>3
    <3>5. Len([i \in 1 .. m |-> Encode(cs[i])]) = m
      OBVIOUS
    <3> QED BY <3>1, <3>4, <3>5, Zenon
  <2> HIDE DEF uu, ss, tt
  <2>4. \A i \in 1 .. a + n : uu[i] = (ss \o tt)[i]
    BY <2>1, <2>2, Zenon
  <2> QED BY <2>1, <2>3, <2>4, SeqEqual
<1>5. FlattenSeq(uu) = FlattenSeq(ss) \o FlattenSeq(tt)
  <2> HIDE DEF ss, tt, uu
  <2> QED BY <1>3, <1>4, FlattenJoins
<1> QED BY <1>5, Zenon DEF Encoded, w

(* utf16ToUtf8 of a word, with room for three bytes a character and one     *)
(* more: every character is there.                                         *)
LEMMA AllEncoded ==
  ASSUME NEW cs \in Seq(Codes), NEW olen \in Nat, olen > 3 * Len(cs)
  PROVE  FromUcs2(cs, olen) = Encoded(cs, Len(cs))
<1> DEFINE Body(f, j) == IF j = 0 THEN <<>>
                         ELSE IF Len(f[j - 1]) < olen - 3 THEN f[j - 1] \o Encode(cs[j])
                         ELSE f[j - 1]
           IsOut(f) == f = [j \in 0 .. Len(cs) |-> Body(f, j)]
           g == [j \in 0 .. Len(cs) |-> Encoded(cs, j)]
           out == CHOOSE f : IsOut(f)
<1>0. Len(cs) \in Nat
  OBVIOUS
<1>1. ASSUME NEW j \in 1 .. Len(cs)
      PROVE  /\ Len(Encoded(cs, j - 1)) < olen - 3
             /\ Encoded(cs, j) = Encoded(cs, j - 1) \o Encode(cs[j])
  <2>1. PICK i \in 0 .. Len(cs) - 1 : i = j - 1 /\ i + 1 = j
    BY <1>0
  <2>2. i \in 0 .. Len(cs)
    BY <1>0, <2>1
  <2>3. Encoded(cs, i) \in Seq(Bytes) /\ Len(Encoded(cs, i)) <= 3 * i
    BY <2>2, EncodedFacts
  <2>4. PICK x \in Nat : x = Len(Encoded(cs, i))
    BY <2>3
  <2>5. x < olen - 3
    <3>1. x <= 3 * i /\ i <= Len(cs) - 1
      BY <2>1, <2>3, <2>4
    <3> QED BY <3>1, <1>0, <2>1, <2>4
  <2>6. Encoded(cs, i + 1) = Encoded(cs, i) \o Encode(cs[i + 1])
    BY <2>1, EncodedStep
  <2> QED BY <2>1, <2>4, <2>5, <2>6
<1>2. IsOut(g)
  <2>1. ASSUME NEW j \in 0 .. Len(cs) PROVE g[j] = Body(g, j)
    <3>1. CASE j = 0
      BY <3>1, EncodedStep, <1>0
    <3>2. CASE j # 0
      <4>1. j \in 1 .. Len(cs) /\ j - 1 \in 0 .. Len(cs)
        BY <3>2, <1>0
      <4>2. g[j] = Encoded(cs, j) /\ g[j - 1] = Encoded(cs, j - 1)
        BY <4>1
      <4> HIDE DEF g
      <4> QED BY <4>1, <4>2, <3>2, <1>1, Zenon
    <3> QED BY <3>1, <3>2
  <2>2. g = [j \in 0 .. Len(cs) |-> g[j]]
    OBVIOUS
  <2> HIDE DEF g, Body
  <2> QED BY <2>1, <2>2
<1>3. IsOut(out)
  <2> HIDE DEF g
  <2> QED BY <1>2, Zenon
<1>4. FromUcs2(cs, olen) = out[Len(cs)]
  BY Zenon DEF FromUcs2
<1> HIDE DEF out, g
<1>5. ASSUME NEW j \in 0 .. Len(cs) PROVE out[j] = Body(out, j)
  BY <1>3
<1> DEFINE Bad == {j \in Nat : j \in 0 .. Len(cs) /\ out[j] # Encoded(cs, j)}
<1>6. Bad = {}
  <2> SUFFICES ASSUME Bad # {} PROVE FALSE
    OBVIOUS
  <2>1. Bad \subseteq Nat
    OBVIOUS
  <2>2. PICK m \in Bad : \A k \in Nat : k < m => k \notin Bad
    <3> HIDE DEF Bad
    <3>1. PICK m \in Bad : \A k \in Bad : ~(<<k, m>> \in OpToRel(<, Nat))
      BY <2>1, WFMin, NatLessThanWellFounded
    <3> QED BY <3>1, <2>1 DEF OpToRel
  <2>3. m \in 0 .. Len(cs) /\ out[m] # Encoded(cs, m)
    BY <2>2
  <2>4. m # 0
    <3>1. out[0] = <<>>
      <4>1. 0 \in 0 .. Len(cs)
        BY <1>0
      <4> QED BY <4>1, <1>5, Zenon
    <3> QED BY <2>3, <3>1, EncodedStep, Zenon
  <2>5. m \in 1 .. Len(cs) /\ m - 1 \in Nat /\ m - 1 < m /\ m - 1 \in 0 .. Len(cs)
    BY <2>3, <2>4, <1>0
  <2>6. out[m - 1] = Encoded(cs, m - 1)
    BY <2>2, <2>5
  <2> HIDE DEF Bad
  <2>7. out[m] = out[m - 1] \o Encode(cs[m])
    BY <1>1, <1>5, <2>3, <2>4, <2>5, <2>6, Zenon
  <2> QED BY <1>1, <2>3, <2>5, <2>6, <2>7, Zenon
<1>7. out[Len(cs)] = Encoded(cs, Len(cs))
  BY <1>0, <1>6
<1> QED BY <1>4, <1>7

-----------------------------------------------------------------------------
(* What get_segs' caller keeps of two parts of an answer. *)
Single(b) == IF b = 1 THEN <<>> ELSE << b >>

(* Dropping separators and putting together commute. *)
LEMMA KeptJoined ==
  ASSUME NEW s \in Seq(Bytes), NEW t \in Seq(Bytes)
  PROVE  Kept(s \o t) = Kept(s) \o Kept(t) /\ Kept(s) \in Seq(Bytes)
<1> DEFINE Singles(u) == [k \in 1 .. Len(u) |-> Single(u[k])]
<1>1. \A b \in Bytes : Single(b) \in Seq(Bytes)
  BY DEF Single
<1>2. ASSUME NEW u \in Seq(Bytes)
      PROVE  Singles(u) \in Seq(Seq(Bytes)) /\ Len(Singles(u)) = Len(u)
             /\ Kept(u) = FlattenSeq(Singles(u))
  <2>1. \A k \in 1 .. Len(u) : u[k] \in Bytes
    OBVIOUS
  <2>2. \A k \in 1 .. Len(u) : Single(u[k]) \in Seq(Bytes)
    BY <1>1, <2>1
  <2>3. Kept(u) = FlattenSeq(Singles(u))
    BY Zenon DEF Kept, Single
  <2> QED BY <2>2, <2>3
<1> DEFINE ss == Singles(s)
           tt == Singles(t)
           uu == Singles(s \o t)
<1>3. Singles(s \o t) = Singles(s) \o Singles(t)
  <2>0. s \o t \in Seq(Bytes) /\ Len(s \o t) = Len(s) + Len(t)
        /\ Len(s) \in Nat /\ Len(t) \in Nat
    OBVIOUS
  <2>1. /\ ss \in Seq(Seq(Bytes)) /\ Len(ss) = Len(s)
        /\ tt \in Seq(Seq(Bytes)) /\ Len(tt) = Len(t)
        /\ uu \in Seq(Seq(Bytes)) /\ Len(uu) = Len(s \o t)
    BY <1>2, <2>0
  <2>2. /\ \A k \in 1 .. Len(s) : ss[k] = Single(s[k])
        /\ \A k \in 1 .. Len(t) : tt[k] = Single(t[k])
        /\ \A k \in 1 .. Len(s \o t) : uu[k] = Single((s \o t)[k])
    OBVIOUS
  <2> HIDE DEF ss, tt, uu, Singles
  <2>3. /\ ss \o tt \in Seq(Seq(Bytes)) /\ Len(ss \o tt) = Len(ss) + Len(tt)
        /\ \A i \in 1 .. Len(ss) + Len(tt) :
             (ss \o tt)[i] = IF i <= Len(ss) THEN ss[i] ELSE tt[i - Len(ss)]
    BY <2>1, ConcatProperties
  <2>4. \A i \in 1 .. Len(s) + Len(t) :
          (s \o t)[i] = IF i <= Len(s) THEN s[i] ELSE t[i - Len(s)]
    BY ConcatProperties
  <2>5. ASSUME NEW i \in 1 .. Len(uu) PROVE uu[i] = (ss \o tt)[i]
    <3>1. CASE i <= Len(s)
      <4>1. i \in 1 .. Len(s) /\ i \in 1 .. Len(s) + Len(t)
        BY <2>0, <2>1, <3>1
      <4>2. (s \o t)[i] = s[i]
        BY <4>1, <2>4, <3>1
      <4>3. (ss \o tt)[i] = ss[i]
        BY <4>1, <2>1, <2>3, <3>1
      <4>4. uu[i] = Single((s \o t)[i])
        BY <4>1, <2>0, <2>2
      <4>5. ss[i] = Single(s[i])
        BY <4>1, <2>2
      <4> QED BY <4>2, <4>3, <4>4, <4>5, Zenon
    <3>2. CASE i > Len(s)
      <4>0. Len(uu) = Len(s) + Len(t) /\ Len(s) \in Nat /\ Len(t) \in Nat
        BY <2>0, <2>1
      <4>1. PICK j \in 1 .. Len(t) : j = i - Len(s)
        <5>1. i - Len(s) \in 1 .. Len(t)
          BY <4>0, <3>2
        <5> QED BY <5>1
      <4>2. i \in 1 .. Len(s) + Len(t) /\ ~(i <= Len(s))
        BY <2>0, <2>1, <3>2
      <4>3. (s \o t)[i] = t[j]
        BY <4>1, <4>2, <2>4
      <4>4. (ss \o tt)[i] = tt[j]
        BY <4>1, <4>2, <2>1, <2>3
      <4>5. uu[i] = Single((s \o t)[i])
        BY <4>2, <2>0, <2>2
      <4> QED BY <4>1, <4>3, <4>4, <4>5, <2>2, Zenon
    <3> QED BY <2>0, <2>1, <3>1, <3>2
  <2>6. Len(uu) = Len(ss \o tt)
    BY <2>0, <2>1, <2>3
  <2>7. uu = ss \o tt
    BY <2>1, <2>3, <2>5, <2>6, SeqEqual
  <2> QED BY <2>7 DEF ss, tt, uu
<1>4. FlattenSeq(ss \o tt) = FlattenSeq(ss) \o FlattenSeq(tt)
  <2>1. ss \in Seq(Seq(Bytes)) /\ tt \in Seq(Seq(Bytes))
    BY <1>2
  <2> HIDE DEF ss, tt
  <2> QED BY <2>1, FlattenJoins
<1>5. FlattenSeq(ss) \in Seq(Bytes)
  <2>1. ss \in Seq(Seq(Bytes))
    BY <1>2
  <2> HIDE DEF ss
  <2>2. <<>> \in Seq(Bytes)
    OBVIOUS
  <2> QED BY <2>1, <2>2, FlattenAdds
<1>6. s \o t \in Seq(Bytes)
  OBVIOUS
<1>7. Kept(s \o t) = FlattenSeq(uu) /\ Kept(s) = FlattenSeq(ss) /\ Kept(t) = FlattenSeq(tt)
  BY <1>2, <1>6
<1> HIDE DEF Singles
<1> QED BY <1>3, <1>4, <1>5, <1>7, Zenon

(* A separator leaves nothing. *)
LEMMA KeptSeparator ==
  ASSUME NEW s \in Seq(Bytes)
  PROVE  /\ Kept(Append(s, 1)) = Kept(s) /\ Append(s, 1) \in Seq(Bytes)
         /\ Len(Append(s, 1)) = Len(s) + 1
<1> DEFINE e == << >>
           one == [k \in 1 .. 1 |-> Single(<< 1 >>[k])]
<1>1. << 1 >> \in Seq(Bytes) /\ Append(s, 1) = s \o << 1 >> /\ Append(s, 1) \in Seq(Bytes)
      /\ Len(Append(s, 1)) = Len(s) + 1
  BY DEF Bytes
<1>2. Kept(<< 1 >>) = <<>>
  <2>1. Kept(<< 1 >>) = FlattenSeq(one)
    <3>1. Len(<< 1 >>) = 1
      OBVIOUS
    <3>2. Kept(<< 1 >>) = FlattenSeq([k \in 1 .. Len(<< 1 >>) |-> Single(<< 1 >>[k])])
      BY Zenon DEF Kept, Single
    <3> QED BY <3>1, <3>2
  <2>2. one = Append(<<>>, e)
    BY DEF Single
  <2>3. e \in Seq(Bytes) /\ <<>> \in Seq(Seq(Bytes))
    OBVIOUS
  <2>4. FlattenSeq(Append(<<>>, e)) = FlattenSeq(<<>>) \o e
    <3> HIDE DEF e
    <3> QED BY <2>3, FlattenAdds
  <2>5. <<>> \o e = <<>>
    OBVIOUS
  <2> QED BY <2>1, <2>2, <2>4, <2>5, FlattenEmpty
<1>3. Kept(s \o << 1 >>) = Kept(s) \o Kept(<< 1 >>) /\ Kept(s) \in Seq(Bytes)
  BY <1>1, KeptJoined
<1>4. Kept(s) \o <<>> = Kept(s)
  BY <1>3
<1> QED BY <1>1, <1>2, <1>3, <1>4

-----------------------------------------------------------------------------
(* A byte that begins no character is no lead byte to utf8ToUtf16 either. *)
LEMMA StopBits ==
  ASSUME NEW b \in Bytes, Stops(b)
  PROVE  b \div 16 # 14 /\ b \div 32 # 6 /\ ~(b < 128)
<1>1. b \in 0 .. 255
  BY DEF Bytes
<1>2. b \in 128 .. 191 \/ b \in 240 .. 255
  BY <1>1, LeadBits DEF Stops
<1> QED BY <1>1, <1>2

(* Every combination of bytes gives a code of 16 bits. *)
LEMMA CodesAre ==
  ASSUME NEW a \in Bytes, NEW b \in Bytes, NEW c \in Bytes
  PROVE  Two(a, b) \in Codes /\ Three(a, b, c) \in Codes
<1>1. a % 32 \in 0 .. 31 /\ a % 16 \in 0 .. 15 /\ b % 64 \in 0 .. 63 /\ c % 64 \in 0 .. 63
  BY LeadBits
<1>2. PICK x \in Nat : x = a % 16 /\ x <= 15
  BY <1>1
<1>3. PICK y \in Nat : y = b % 64 /\ y <= 63
  BY <1>1
<1>4. PICK z \in Nat : z = c % 64 /\ z <= 63
  BY <1>1
<1>5. PICK w \in Nat : w = a % 32 /\ w <= 31
  BY <1>1
<1>6. PICK u \in Nat : u = x * 4096 /\ u <= 61440
  BY <1>2
<1>7. PICK v \in Nat : v = y * 64 /\ v <= 4032
  BY <1>3
<1>8. PICK t \in Nat : t = w * 64 /\ t <= 1984
  BY <1>5
<1>9. u + v + z \in Nat /\ u + v + z <= 65535
  BY <1>4, <1>6, <1>7
<1>10. t + y \in Nat /\ t + y <= 65535
  BY <1>3, <1>8
<1>11. Three(a, b, c) = u + v + z
  BY <1>2, <1>3, <1>4, <1>6, <1>7 DEF Three
<1>12. Two(a, b) = t + y
  BY <1>3, <1>5, <1>8 DEF Two
<1> QED BY <1>9, <1>10, <1>11, <1>12 DEF Codes

Prefix(k) == SubSeq(buf, 1, k)

(* What is read of the text, its closing 0 included, is a byte. *)
LEMMA ByteIs ==
  ASSUME buf \in Seq(Bytes), NEW p \in Nat
  PROVE  Byte(p) \in Bytes /\ (p < Len(buf) => Byte(p) = buf[p + 1])
<1>1. CASE p < Len(buf)
  <2>1. p + 1 \in 1 .. Len(buf)
    BY <1>1
  <2> QED BY <1>1, <2>1, ElementOfSeq DEF Byte
<1>2. CASE ~(p < Len(buf))
  BY <1>2 DEF Byte, Bytes
<1> QED BY <1>1, <1>2

(* Whatever is read is a code, of a length that is known or 0. *)
LEMMA DecodeFacts ==
  ASSUME buf \in Seq(Bytes), NEW p \in Nat
  PROVE  /\ Decode(p).n \in 0 .. 3
         /\ Decode(p).n > 0 => Decode(p).code \in Codes
<1> DEFINE b0 == Byte(p)
           b1 == Byte(p + 1)
           b2 == Byte(p + 2)
<1>1. b0 \in Bytes /\ b1 \in Bytes /\ b2 \in Bytes
  BY ByteIs
<1>2. Decode(p) =
        IF b0 \div 16 = 14
          THEN [code |-> IF Trailing(b1) /\ Trailing(b2) THEN Three(b0, b1, b2)
                         ELSE DEFAULT_CHAR,
                n |-> 3]
        ELSE IF b0 \div 32 = 6
          THEN [code |-> IF Trailing(b1) THEN Two(b0, b1) ELSE DEFAULT_CHAR, n |-> 2]
        ELSE [code |-> b0, n |-> IF b0 < 128 THEN 1 ELSE 0]
  BY Zenon DEF Decode
<1> HIDE DEF b0, b1, b2
<1>3. Two(b0, b1) \in Codes /\ Three(b0, b1, b2) \in Codes
  BY <1>1, CodesAre
<1>4. DEFAULT_CHAR \in Codes
  BY DEF Codes, DEFAULT_CHAR
<1>5. b0 \in Codes
  BY <1>1 DEF Codes, Bytes
<1>6. CASE b0 \div 16 = 14
  BY <1>2, <1>3, <1>4, <1>6
<1>7. CASE b0 \div 16 # 14 /\ b0 \div 32 = 6
  BY <1>2, <1>3, <1>4, <1>7
<1>8. CASE b0 \div 16 # 14 /\ b0 \div 32 # 6
  BY <1>2, <1>5, <1>8
<1> QED BY <1>6, <1>7, <1>8

(* A byte that begins no character of up to three bytes is not decoded. *)
LEMMA StopsThere ==
  ASSUME buf \in Seq(Bytes), NEW p \in Nat, p < Len(buf), Stops(buf[p + 1])
  PROVE  Decode(p).n = 0
<1> DEFINE b == Byte(p)
<1>1. b \in Bytes /\ b = buf[p + 1]
  BY ByteIs
<1>2. b \div 16 # 14 /\ b \div 32 # 6 /\ ~(b < 128) => Decode(p).n = 0
  <2>1. SUFFICES ASSUME b \div 16 # 14, b \div 32 # 6, ~(b < 128)
                 PROVE  Decode(p).n = 0
    BY Zenon
  <2>2. Decode(p) = [code |-> b, n |-> 0]
    BY <2>1, Zenon DEF Decode
  <2> QED BY <2>2
<1> HIDE DEF b
<1>4. b \div 16 # 14 /\ b \div 32 # 6 /\ ~(b < 128)
  BY <1>1, StopBits, Zenon
<1> QED BY <1>2, <1>4

(* The code of a character is encoded as that character. *)
LEMMA CodeOfOne ==
  ASSUME NEW a \in Bytes, a < 128
  PROVE  Encode(a) = << a >>
<1>1. a <= 127
  BY DEF Bytes
<1> QED BY <1>1 DEF Encode

(* Two bytes come back from utf16ToUtf8. *)
LEMMA CodeOfTwo ==
  ASSUME NEW a \in 194 .. 223, NEW b \in 128 .. 191
  PROVE  Encode(Two(a, b)) = << a, b >>
<1>1. a % 32 = a - 192 /\ b % 64 = b - 128
  OBVIOUS
<1>2. PICK q \in Nat : q = a - 192 /\ 2 <= q /\ q <= 31
  OBVIOUS
<1>3. PICK r \in 0 .. 63 : r = b - 128
  <2>1. b - 128 \in 0 .. 63
    OBVIOUS
  <2> QED BY <2>1
<1>4. PICK c \in Nat : c = q * 64 + r
  BY <1>2, <1>3
<1>5. Two(a, b) = c
  BY <1>1, <1>2, <1>3, <1>4 DEF Two
<1>6. c \div 64 = q /\ c % 64 = r
  <2>1. (q * 64 + r) \div 64 = q /\ (q * 64 + r) % 64 = r
    BY Sixes
  <2> QED BY <2>1, <1>4
<1>7. ~(c <= 127) /\ c <= 2047
  BY <1>2, <1>3, <1>4
<1>8. Encode(c) = << 192 + (c \div 64), 128 + (c % 64) >>
  BY <1>7 DEF Encode
<1>9. 192 + q = a /\ 128 + r = b
  BY <1>2, <1>3
<1> QED BY <1>5, <1>6, <1>8, <1>9

(* Three bytes come back, unless a shorter form was possible. *)
LEMMA CodeOfThree ==
  ASSUME NEW a \in 224 .. 239, NEW b \in 128 .. 191, NEW d \in 128 .. 191,
         Shortest(a, b)
  PROVE  Encode(Three(a, b, d)) = << a, b, d >>
<1>1. a % 16 = a - 224 /\ b % 64 = b - 128 /\ d % 64 = d - 128
  OBVIOUS
<1>2. PICK x \in Nat : x = a - 224 /\ x <= 15
  OBVIOUS
<1>3. PICK y \in 0 .. 63 : y = b - 128
  <2>1. b - 128 \in 0 .. 63
    OBVIOUS
  <2> QED BY <2>1
<1>4. PICK z \in 0 .. 63 : z = d - 128
  <2>1. d - 128 \in 0 .. 63
    OBVIOUS
  <2> QED BY <2>1
<1>5. PICK c \in Nat : c = Joint(x, y, z)
  BY <1>2, <1>3, <1>4 DEF Joint
<1>6. Three(a, b, d) = c
  BY <1>1, <1>2, <1>3, <1>4, <1>5 DEF Three, Joint
<1>7. c \div 4096 = x /\ (c \div 64) % 64 = y /\ c % 64 = z
  <2>1. x \in Nat /\ y \in 0 .. 63 /\ z \in 0 .. 63
    BY <1>2
  <2>2. Digits(Joint(x, y, z), x, y, z)
    BY <2>1, Thousands, Zenon
  <2> QED BY <1>5, <2>2 DEF Digits
<1>8. ~(c <= 127) /\ ~(c <= 2047)
  <2>1. CASE x = 0
    <3>1. y >= 32
      BY <2>1, <1>2, <1>3 DEF Shortest
    <3> QED BY <2>1, <3>1, <1>3, <1>4, <1>5 DEF Joint
  <2>2. CASE x >= 1
    BY <2>2, <1>2, <1>3, <1>4, <1>5 DEF Joint
  <2> QED BY <2>1, <2>2, <1>2
<1>9. Encode(c) = << 224 + (c \div 4096), 128 + ((c \div 64) % 64), 128 + (c % 64) >>
  BY <1>8 DEF Encode
<1>10. 224 + x = a /\ 128 + y = b /\ 128 + z = d
  BY <1>2, <1>3, <1>4
<1> QED BY <1>6, <1>7, <1>9, <1>10

(* The kinds of bytes exclude each other. *)
LEMMA Kinds ==
  ASSUME NEW a \in Bytes
  PROVE  /\ Plain(a) => ~LeadsTwo(a) /\ ~LeadsThree(a) /\ ~Trailing(a)
         /\ LeadsTwo(a) => ~LeadsThree(a) /\ ~Trailing(a)
         /\ LeadsThree(a) => ~Trailing(a)
         /\ Trailing(a) <=> a \in 128 .. 191
<1>1. a \in 0 .. 255
  BY DEF Bytes
<1>2. Trailing(a) <=> a \in 128 .. 191
  BY LeadBits
<1>3. Plain(a) => ~LeadsTwo(a) /\ ~LeadsThree(a) /\ a \notin 128 .. 191
  BY <1>1 DEF Plain, LeadsTwo, LeadsThree
<1>4. LeadsTwo(a) => ~LeadsThree(a) /\ a \notin 128 .. 191
  BY <1>1 DEF LeadsTwo, LeadsThree
<1>5. LeadsThree(a) => a \notin 128 .. 191
  BY <1>1 DEF LeadsThree
<1> QED BY <1>2, <1>3, <1>4, <1>5

(* The kinds of bytes, as utf8ToUtf16 tells them apart. *)
LEMMA KindBits ==
  ASSUME NEW a \in Bytes
  PROVE  /\ Plain(a) => a \div 16 # 14 /\ a \div 32 # 6
         /\ LeadsTwo(a) => a \div 16 # 14 /\ a \div 32 = 6
         /\ LeadsThree(a) => a \div 16 = 14
<1>1. a \in 0 .. 255
  BY DEF Bytes
<1>2. (a \div 16 = 14 <=> a \in 224 .. 239) /\ (a \div 32 = 6 <=> a \in 192 .. 223)
  BY LeadBits
<1>3. Plain(a) => a \notin 224 .. 239 /\ a \notin 192 .. 223
  BY <1>1 DEF Plain
<1>4. LeadsTwo(a) => a \notin 224 .. 239 /\ a \in 192 .. 223
  BY <1>1 DEF LeadsTwo
<1> QED BY <1>2, <1>3, <1>4 DEF LeadsThree

(* What Decode makes of a well formed character. *)
LEMMA DecodeOne ==
  ASSUME NEW p, NEW a \in Bytes, Byte(p) = a, Plain(a)
  PROVE  Decode(p) = [code |-> a, n |-> 1]
<1>1. a \div 16 # 14 /\ a \div 32 # 6
  BY KindBits
<1> QED BY <1>1, Zenon DEF Decode, Plain

(* A character of two bytes is decoded and encoded again. *)
LEMMA DecodeTwo ==
  ASSUME NEW p, NEW a \in Bytes, NEW b \in Bytes, Byte(p) = a, Byte(p + 1) = b,
         LeadsTwo(a), Trailing(b)
  PROVE  /\ Decode(p) = [code |-> Two(a, b), n |-> 2]
         /\ Encode(Two(a, b)) = << a, b >>
<1>1. a \div 16 # 14 /\ a \div 32 = 6
  BY KindBits
<1>2. a \in 194 .. 223 /\ b \in 128 .. 191
  BY Kinds DEF LeadsTwo
<1>3. Decode(p) = [code |-> Two(a, b), n |-> 2]
  BY <1>1, Zenon DEF Decode
<1>4. Encode(Two(a, b)) = << a, b >>
  BY <1>2, CodeOfTwo
<1> QED BY <1>3, <1>4

(* A character of three bytes is decoded and encoded again. *)
LEMMA DecodeThree ==
  ASSUME NEW p, NEW a \in Bytes, NEW b \in Bytes, NEW d \in Bytes,
         Byte(p) = a, Byte(p + 1) = b, Byte(p + 2) = d,
         LeadsThree(a), Trailing(b), Trailing(d), Shortest(a, b)
  PROVE  /\ Decode(p) = [code |-> Three(a, b, d), n |-> 3]
         /\ Encode(Three(a, b, d)) = << a, b, d >>
<1>1. a \div 16 = 14
  BY KindBits
<1>2. a \in 224 .. 239 /\ b \in 128 .. 191 /\ d \in 128 .. 191
  BY Kinds DEF LeadsThree
<1>3. Decode(p) = [code |-> Three(a, b, d), n |-> 3]
  BY <1>1, Zenon DEF Decode
<1>4. Encode(Three(a, b, d)) = << a, b, d >>
  BY <1>2, CodeOfThree
<1> QED BY <1>3, <1>4

(* A trailing byte of a well formed text is led by one of the two before.  *)
LEMMA Led ==
  ASSUME NEW s \in Seq(Bytes), WellFormed(s), NEW i \in 1 .. Len(s), Trailing(s[i])
  PROVE  \/ i > 1 /\ (LeadsTwo(s[i - 1]) \/ LeadsThree(s[i - 1]))
         \/ i > 2 /\ LeadsThree(s[i - 2])
<1>1. Begins(s, i) \/ Continues(s, i)
  BY DEF WellFormed
<1>2. s[i] \in Bytes
  OBVIOUS
<1>3. ~Plain(s[i]) /\ ~LeadsTwo(s[i]) /\ ~LeadsThree(s[i])
  BY <1>2, Kinds, Zenon
<1>4. Continues(s, i)
  BY <1>1, <1>3, Zenon DEF Begins
<1> QED BY <1>4, Zenon DEF Continues

(* Where a character of a well formed text begins, it is there, and the     *)
(* byte behind it trails nothing.                                          *)
LEMMA Whole ==
  ASSUME NEW s \in Seq(Bytes), WellFormed(s), NEW q \in 1 .. Len(s), ~Trailing(s[q])
  PROVE  \/ /\ Plain(s[q])
            /\ q + 1 <= Len(s) => ~Trailing(s[q + 1])
         \/ /\ LeadsTwo(s[q]) /\ q + 1 <= Len(s) /\ Trailing(s[q + 1])
            /\ q + 2 <= Len(s) => ~Trailing(s[q + 2])
         \/ /\ LeadsThree(s[q]) /\ q + 2 <= Len(s)
            /\ Trailing(s[q + 1]) /\ Trailing(s[q + 2])
            /\ Shortest(s[q], s[q + 1])
            /\ q + 3 <= Len(s) => ~Trailing(s[q + 3])
<1>0. Len(s) \in Nat /\ q \in Nat /\ s[q] \in Bytes
  OBVIOUS
<1>1. Begins(s, q)
  <2>1. Begins(s, q) \/ Continues(s, q)
    BY DEF WellFormed
  <2> QED BY <2>1, Zenon DEF Continues
<1>2. CASE Plain(s[q])
  <2>1. ASSUME q + 1 <= Len(s), Trailing(s[q + 1]) PROVE FALSE
    <3>1. PICK i \in 1 .. Len(s) : i = q + 1
      BY <1>0, <2>1
    <3>2. i - 1 = q /\ i - 2 = q - 1
      BY <1>0, <3>1
    <3>0. ~LeadsTwo(s[q]) /\ ~LeadsThree(s[q])
      BY <1>0, <1>2, Kinds, Zenon
    <3>3. q > 1 /\ LeadsThree(s[q - 1])
      <4>1. \/ i > 1 /\ (LeadsTwo(s[i - 1]) \/ LeadsThree(s[i - 1]))
            \/ i > 2 /\ LeadsThree(s[i - 2])
        BY <2>1, <3>1, Led, Zenon
      <4>2. i > 2 => q > 1
        BY <1>0, <3>1
      <4> QED BY <4>1, <4>2, <3>0, <3>2, Zenon
    <3>4. PICK j \in 1 .. Len(s) : j = q - 1 /\ j + 1 = q
      BY <1>0, <3>3
    <3>5. s[j] \in Bytes /\ LeadsThree(s[j])
      BY <3>3, <3>4
    <3>6. ~Trailing(s[j]) /\ ~Plain(s[j]) /\ ~LeadsTwo(s[j])
      BY <3>5, Kinds, Zenon
    <3>7. Begins(s, j) \/ Continues(s, j)
      BY DEF WellFormed
    <3>8. Trailing(s[j + 1])
      BY <3>6, <3>7, Zenon DEF Begins, Continues
    <3> QED BY <3>4, <3>8
  <2> QED BY <1>2, <2>1
<1>3. CASE LeadsTwo(s[q]) /\ q + 1 <= Len(s) /\ Trailing(s[q + 1])
  <2>1. ASSUME q + 2 <= Len(s), Trailing(s[q + 2]) PROVE FALSE
    <3>1. PICK i \in 1 .. Len(s), j \in 1 .. Len(s) : i = q + 2 /\ j = q + 1
      BY <1>0, <2>1
    <3>2. i - 1 = j /\ i - 2 = q
      BY <1>0, <3>1
    <3>0. ~LeadsThree(s[q])
      BY <1>0, <1>3, Kinds, Zenon
    <3>3. s[j] \in Bytes /\ Trailing(s[j])
      BY <1>3, <3>1
    <3>4. ~LeadsTwo(s[j]) /\ ~LeadsThree(s[j])
      BY <3>3, Kinds, Zenon
    <3>5. \/ i > 1 /\ (LeadsTwo(s[i - 1]) \/ LeadsThree(s[i - 1]))
          \/ i > 2 /\ LeadsThree(s[i - 2])
      BY <2>1, <3>1, Led, Zenon
    <3> QED BY <3>0, <3>2, <3>4, <3>5, Zenon
  <2> QED BY <1>3, <2>1
<1>4. CASE /\ LeadsThree(s[q]) /\ q + 2 <= Len(s)
           /\ Trailing(s[q + 1]) /\ Trailing(s[q + 2])
           /\ Shortest(s[q], s[q + 1])
  <2>1. ASSUME q + 3 <= Len(s), Trailing(s[q + 3]) PROVE FALSE
    <3>1. PICK i \in 1 .. Len(s), j \in 1 .. Len(s), h \in 1 .. Len(s) :
            i = q + 3 /\ j = q + 2 /\ h = q + 1
      BY <1>0, <2>1
    <3>2. i - 1 = j /\ i - 2 = h
      BY <1>0, <3>1
    <3>3. s[j] \in Bytes /\ s[h] \in Bytes /\ Trailing(s[j]) /\ Trailing(s[h])
      BY <1>4, <3>1
    <3>4. ~LeadsTwo(s[j]) /\ ~LeadsThree(s[j]) /\ ~LeadsThree(s[h])
      BY <3>3, Kinds, Zenon
    <3>5. \/ i > 1 /\ (LeadsTwo(s[i - 1]) \/ LeadsThree(s[i - 1]))
          \/ i > 2 /\ LeadsThree(s[i - 2])
      BY <2>1, <3>1, Led, Zenon
    <3> QED BY <3>2, <3>4, <3>5, Zenon
  <2> QED BY <1>4, <2>1
<1> QED BY <1>1, <1>2, <1>3, <1>4, Zenon DEF Begins

(* The character at p is read, up to k at the most, and encodes as itself.  *)
Reads(p, k) ==
  /\ Decode(p).n \in 1 .. 3 /\ p + Decode(p).n <= k
  /\ Encode(Decode(p).code) = SubSeq(buf, p + 1, p + Decode(p).n)
  /\ p + Decode(p).n < k => ~Trailing(buf[p + Decode(p).n + 1])

(* What it takes to read a character. *)
LEMMA ReadsIs ==
  ASSUME NEW p \in Nat, NEW k \in Nat, NEW n \in 1 .. 3, NEW code,
         Decode(p) = [code |-> code, n |-> n], p + n <= k,
         Encode(code) = SubSeq(buf, p + 1, p + n),
         p + n < k => ~Trailing(buf[p + n + 1])
  PROVE  Reads(p, k)
<1>1. Decode(p).n = n /\ Decode(p).code = code
  OBVIOUS
<1> QED BY <1>1, Zenon DEF Reads

(* A part of a sequence, byte by byte. *)
LEMMA Slice ==
  ASSUME NEW t \in Seq(Bytes), NEW p \in Nat, NEW n \in Nat, p + n <= Len(t),
         NEW w \in Seq(Bytes), Len(w) = n, \A i \in 1 .. n : w[i] = t[p + i]
  PROVE  SubSeq(t, p + 1, p + n) = w
<1>1. /\ SubSeq(t, p + 1, p + n) \in Seq(Bytes) /\ Len(SubSeq(t, p + 1, p + n)) = n
      /\ \A i \in 1 .. n : SubSeq(t, p + 1, p + n)[i] = t[p + i]
  OBVIOUS
<1> QED BY <1>1, SeqEqual

(* The bytes of a beginning of the text. *)
LEMMA PrefixFacts ==
  ASSUME buf \in Seq(Bytes), NEW k \in 0 .. Len(buf)
  PROVE  /\ Prefix(k) \in Seq(Bytes) /\ Len(Prefix(k)) = k
         /\ \A i \in 1 .. k : Prefix(k)[i] = buf[i] /\ buf[i] \in Bytes
BY DEF Prefix

(* Where a character begins in a well formed part of the text, it is       *)
(* decoded to what is encoded as it, and the next one follows it.          *)
LEMMA RoundTrip ==
  ASSUME buf \in Seq(Bytes), NEW k \in 0 .. Len(buf), WellFormed(Prefix(k)),
         NEW p \in Nat, p < k, ~Trailing(buf[p + 1])
  PROVE  Reads(p, k)
<1> DEFINE s == Prefix(k)
<1>0. /\ Len(buf) \in Nat /\ k \in Nat /\ k <= Len(buf)
      /\ s \in Seq(Bytes) /\ Len(s) = k
      /\ \A i \in 1 .. k : s[i] = buf[i] /\ buf[i] \in Bytes
  BY PrefixFacts
<1> HIDE DEF s
<1>1. PICK q \in 1 .. Len(s) : q = p + 1
  BY <1>0
<1>2. s[q] = buf[p + 1] /\ buf[p + 1] \in Bytes /\ Byte(p) = buf[p + 1]
  <2>1. p < Len(buf) /\ q \in 1 .. k
    BY <1>0, <1>1
  <2> QED BY <2>1, <1>0, <1>1, ByteIs
<1>3. \/ /\ Plain(s[q])
         /\ q + 1 <= Len(s) => ~Trailing(s[q + 1])
      \/ /\ LeadsTwo(s[q]) /\ q + 1 <= Len(s) /\ Trailing(s[q + 1])
         /\ q + 2 <= Len(s) => ~Trailing(s[q + 2])
      \/ /\ LeadsThree(s[q]) /\ q + 2 <= Len(s)
         /\ Trailing(s[q + 1]) /\ Trailing(s[q + 2]) /\ Shortest(s[q], s[q + 1])
         /\ q + 3 <= Len(s) => ~Trailing(s[q + 3])
  <2>1. WellFormed(s)
    BY DEF s
  <2>2. ~Trailing(s[q])
    BY <1>2
  <2> QED BY <1>0, <2>1, <2>2, Whole, Zenon
<1>4. /\ p + 2 <= k => /\ s[q + 1] = buf[p + 2] /\ buf[p + 2] \in Bytes
                       /\ Byte(p + 1) = buf[p + 2]
      /\ p + 3 <= k => /\ s[q + 2] = buf[p + 3] /\ buf[p + 3] \in Bytes
                       /\ Byte(p + 2) = buf[p + 3]
      /\ p + 4 <= k => s[q + 3] = buf[p + 4]
  <2>1. ASSUME NEW i \in 1 .. 2, p + 1 + i <= k
        PROVE  /\ s[q + i] = buf[p + 1 + i] /\ buf[p + 1 + i] \in Bytes
               /\ Byte(p + i) = buf[p + 1 + i]
    <3>1. PICK j \in 1 .. k : j = p + 1 + i
      BY <1>0, <2>1
    <3>2. q + i = j /\ p + i \in Nat /\ p + i < Len(buf) /\ p + i + 1 = j
      BY <1>0, <1>1, <3>1
    <3> QED BY <1>0, <3>1, <3>2, ByteIs
  <2>2. p + 2 = p + 1 + 1 /\ p + 3 = p + 1 + 2
    OBVIOUS
  <2>3. p + 4 <= k => s[q + 3] = buf[p + 4]
    <3>1. p + 4 <= k => p + 4 \in 1 .. k /\ q + 3 = p + 4
      BY <1>0, <1>1
    <3> QED BY <3>1, <1>0
  <2> QED BY <2>1, <2>2, <2>3
<1>5. /\ q + 1 = p + 2 /\ q + 2 = p + 3 /\ q + 3 = p + 4
      /\ p + 1 < k <=> p + 2 <= k
      /\ p + 2 < k <=> p + 3 <= k
      /\ p + 3 < k <=> p + 4 <= k
      /\ p + 1 <= k /\ p + 1 + 1 = p + 2 /\ p + 2 + 1 = p + 3 /\ p + 3 + 1 = p + 4
  BY <1>0, <1>1
<1>6. CASE Plain(s[q]) /\ (q + 1 <= Len(s) => ~Trailing(s[q + 1]))
  <2>1. PICK a \in Bytes : a = buf[p + 1]
    BY <1>2
  <2>2. Decode(p) = [code |-> a, n |-> 1]
    BY <1>2, <1>6, <2>1, DecodeOne
  <2>3. Encode(a) = << a >>
    BY <1>2, <1>6, <2>1, CodeOfOne DEF Plain
  <2>4. SubSeq(buf, p + 1, p + 1) = << a >>
    <3>1. p + 1 <= Len(buf) /\ 1 \in Nat
      BY <1>0, <1>5
    <3>2. << a >> \in Seq(Bytes) /\ Len(<< a >>) = 1
      OBVIOUS
    <3>3. \A i \in 1 .. 1 : << a >>[i] = buf[p + i]
      BY <2>1
    <3> QED BY <3>1, <3>2, <3>3, Slice
  <2>5. p + 1 < k => ~Trailing(buf[p + 1 + 1])
    BY <1>0, <1>4, <1>5, <1>6
  <2>6. 1 \in 1 .. 3
    OBVIOUS
  <2>7. Encode(a) = SubSeq(buf, p + 1, p + 1)
    BY <2>3, <2>4
  <2> QED BY <1>0, <1>5, <2>2, <2>5, <2>6, <2>7, ReadsIs, Zenon
<1>7. CASE /\ LeadsTwo(s[q]) /\ q + 1 <= Len(s) /\ Trailing(s[q + 1])
           /\ q + 2 <= Len(s) => ~Trailing(s[q + 2])
  <2>0. p + 2 <= k
    BY <1>0, <1>5, <1>7
  <2>1. PICK a \in Bytes, b \in Bytes : a = buf[p + 1] /\ b = buf[p + 2]
    BY <1>2, <1>4, <2>0
  <2>2. Decode(p) = [code |-> Two(a, b), n |-> 2] /\ Encode(Two(a, b)) = << a, b >>
    <3>1. Byte(p) = a /\ Byte(p + 1) = b /\ LeadsTwo(a) /\ Trailing(b)
      BY <1>2, <1>4, <1>7, <2>0, <2>1
    <3> QED BY <3>1, DecodeTwo
  <2>3. SubSeq(buf, p + 1, p + 2) = << a, b >>
    <3>1. p + 2 <= Len(buf) /\ 2 \in Nat
      BY <1>0, <2>0
    <3>2. << a, b >> \in Seq(Bytes) /\ Len(<< a, b >>) = 2
      OBVIOUS
    <3>3. \A i \in 1 .. 2 : << a, b >>[i] = buf[p + i]
      BY <2>1
    <3> QED BY <3>1, <3>2, <3>3, Slice
  <2>4. p + 2 < k => ~Trailing(buf[p + 2 + 1])
    BY <1>0, <1>4, <1>5, <1>7
  <2>5. 2 \in 1 .. 3
    OBVIOUS
  <2>6. Encode(Two(a, b)) = SubSeq(buf, p + 1, p + 2)
    BY <2>2, <2>3
  <2> QED BY <1>0, <2>0, <2>2, <2>4, <2>5, <2>6, ReadsIs, Zenon
<1>8. CASE /\ LeadsThree(s[q]) /\ q + 2 <= Len(s)
           /\ Trailing(s[q + 1]) /\ Trailing(s[q + 2]) /\ Shortest(s[q], s[q + 1])
           /\ q + 3 <= Len(s) => ~Trailing(s[q + 3])
  <2>0. p + 3 <= k /\ p + 2 <= k
    BY <1>0, <1>5, <1>8
  <2>1. PICK a \in Bytes, b \in Bytes, d \in Bytes :
          a = buf[p + 1] /\ b = buf[p + 2] /\ d = buf[p + 3]
    BY <1>2, <1>4, <2>0
  <2>2. /\ Decode(p) = [code |-> Three(a, b, d), n |-> 3]
        /\ Encode(Three(a, b, d)) = << a, b, d >>
    <3>1. /\ Byte(p) = a /\ Byte(p + 1) = b /\ Byte(p + 2) = d
          /\ LeadsThree(a) /\ Trailing(b) /\ Trailing(d) /\ Shortest(a, b)
      BY <1>2, <1>4, <1>8, <2>0, <2>1
    <3> QED BY <3>1, DecodeThree
  <2>3. SubSeq(buf, p + 1, p + 3) = << a, b, d >>
    <3>1. p + 3 <= Len(buf) /\ 3 \in Nat
      BY <1>0, <2>0
    <3>2. << a, b, d >> \in Seq(Bytes) /\ Len(<< a, b, d >>) = 3
      OBVIOUS
    <3>3. \A i \in 1 .. 3 : << a, b, d >>[i] = buf[p + i]
      BY <2>1
    <3> QED BY <3>1, <3>2, <3>3, Slice
  <2>4. p + 3 < k => ~Trailing(buf[p + 3 + 1])
    BY <1>0, <1>4, <1>5, <1>8
  <2>5. 3 \in 1 .. 3
    OBVIOUS
  <2>6. Encode(Three(a, b, d)) = SubSeq(buf, p + 1, p + 3)
    BY <2>2, <2>3
  <2> QED BY <1>0, <2>0, <2>2, <2>4, <2>5, <2>6, ReadsIs, Zenon
<1> QED BY <1>3, <1>6, <1>7, <1>8, Zenon

-----------------------------------------------------------------------------
(* The first k bytes of the text b are the first characters of w; all of    *)
(* them, and where the conversion is, if nothing can follow.               *)
Found(b, w, p, k) ==
  \E m \in 0 .. Len(w) :
    /\ Encoded(w, m) = SubSeq(b, 1, k)
    /\ k < Len(b) /\ Stops(b[k + 1]) => m = Len(w) /\ p = k

(* The characters w are the first p bytes, and another begins behind them,  *)
(* not behind k.                                                           *)
Ahead(b, w, p, k) ==
  p < k /\ ~Trailing(b[p + 1]) /\ Encoded(w, Len(w)) = SubSeq(b, 1, p)

Taken(b, w, p, k) ==
  WellFormed(SubSeq(b, 1, k)) => Found(b, w, p, k) \/ Ahead(b, w, p, k)

AllFound(b, w, p) ==
  \A k \in 0 .. Len(b) : WellFormed(SubSeq(b, 1, k)) => Found(b, w, p, k)

(* The answer s of the call c so far: the first f characters of w. *)
Answer(c, s, w, f) ==
  /\ c = "get_segs_ex" =>
       /\ s \in Seq(Seq(Bytes)) /\ FlattenSeq(s) = Encoded(w, f)
       /\ \A i \in 1 .. Len(s) : WellFormed(s[i])
  /\ c = "get_segs" =>
       s \in Seq(Bytes) /\ Kept(s) = Kept(Encoded(w, f)) /\ Len(s) <= 4 * f

CharTypes ==
  /\ at \in {"idle", "convert", "words", "answered"}
  /\ at # "idle" => call \in {"get_segs_ex", "get_segs"}
  /\ buf \in Seq(Bytes) /\ wbuf \in Seq(Codes)
  /\ pos \in Nat /\ from \in 0 .. Len(wbuf)
  /\ Len(wbuf) <= pos /\ Len(wbuf) <= Len(buf)

CharInv ==
  /\ CharTypes
  /\ at = "convert" =>
       from = 0 /\ segs = <<>> /\ \A k \in 0 .. Len(buf) : Taken(buf, wbuf, pos, k)
  /\ at \in {"words", "answered"} =>
       AllFound(buf, wbuf, pos) /\ Answer(call, segs, wbuf, from)
  /\ at = "answered" => from = Len(wbuf)

(* At first no text is being segmented. *)
LEMMA CharInitInv == CharInit => CharInv
BY DEF CharInit, CharInv, CharTypes

(* Nothing is converted: a well formed text is ahead. *)
LEMMA NothingTaken ==
  ASSUME NEW b \in Seq(Bytes), NEW k \in 0 .. Len(b)
  PROVE  Taken(b, <<>>, 0, k)
<1>0. Encoded(<<>>, 0) = <<>> /\ SubSeq(b, 1, 0) = <<>> /\ Len(<<>>) = 0
  <2>1. <<>> \in Seq(Codes)
    OBVIOUS
  <2>2. Encoded(<<>>, 0) = <<>>
    BY <2>1, EncodedStep
  <2> QED BY <2>2
<1>1. CASE k = 0
  <2>1. Found(b, <<>>, 0, 0)
    <3>1. 0 \in 0 .. Len(<<>>)
      OBVIOUS
    <3> QED BY <1>0, <3>1, Zenon DEF Found
  <2> QED BY <1>1, <2>1 DEF Taken
<1>2. CASE k # 0 /\ WellFormed(SubSeq(b, 1, k))
  <2> DEFINE s == SubSeq(b, 1, k)
  <2>1. s \in Seq(Bytes) /\ 1 \in 1 .. Len(s) /\ s[1] = b[0 + 1] /\ 0 < k
    BY <1>2
  <2>2. ~Trailing(s[1])
    <3> SUFFICES ASSUME Trailing(s[1]) PROVE FALSE
      OBVIOUS
    <3>1. (1 > 1) \/ (1 > 2)
      <4> HIDE DEF s
      <4>1. WellFormed(s)
        BY <1>2 DEF s
      <4> QED BY <2>1, <4>1, Led, Zenon
    <3> QED BY <3>1
  <2>3. Ahead(b, <<>>, 0, k)
    <3> HIDE DEF s
    <3> QED BY <1>0, <2>1, <2>2, Zenon DEF Ahead
  <2> QED BY <2>3 DEF Taken
<1> QED BY <1>1, <1>2 DEF Taken

(* What follows a prefix makes a longer one. *)
LEMMA PrefixGrows ==
  ASSUME NEW b \in Seq(Bytes), NEW p \in Nat, NEW n \in Nat, p + n <= Len(b)
  PROVE  SubSeq(b, 1, p) \o SubSeq(b, p + 1, p + n) = SubSeq(b, 1, p + n)
<1> DEFINE x == SubSeq(b, 1, p)
           y == SubSeq(b, p + 1, p + n)
           z == SubSeq(b, 1, p + n)
<1>1. x \in Seq(Bytes) /\ Len(x) = p /\ \A i \in 1 .. p : x[i] = b[i]
  OBVIOUS
<1>2. y \in Seq(Bytes) /\ Len(y) = n /\ \A i \in 1 .. n : y[i] = b[p + i]
  OBVIOUS
<1>3. z \in Seq(Bytes) /\ Len(z) = p + n /\ \A i \in 1 .. p + n : z[i] = b[i]
  OBVIOUS
<1> HIDE DEF x, y, z
<1>4. x \o y \in Seq(Bytes) /\ Len(x \o y) = p + n
  <2>1. x \o y \in Seq(Bytes) /\ Len(x \o y) = Len(x) + Len(y)
    BY <1>1, <1>2, ConcatProperties, Zenon
  <2> QED BY <1>1, <1>2, <2>1, Zenon
<1>5. ASSUME NEW i \in 1 .. p + n
      PROVE  (x \o y)[i] = z[i]
  <2>1. CASE i <= p
    <3>1. (x \o y)[i] = x[i]
      BY <1>1, <1>2, <2>1
    <3> QED BY <1>1, <1>3, <2>1, <3>1
  <2>2. CASE i > p
    <3>1. (x \o y)[i] = y[i - p]
      BY <1>1, <1>2, <2>2
    <3>2. i - p \in 1 .. n /\ p + (i - p) = i
      BY <2>2
    <3>3. y[i - p] = b[p + (i - p)]
      BY <1>2, <3>2
    <3>4. y[i - p] = b[i]
      BY <3>2, <3>3, Zenon
    <3> QED BY <1>3, <3>1, <3>4, Zenon
  <2>3. i <= p \/ i > p
    OBVIOUS
  <2> QED BY <2>1, <2>2, <2>3, Zenon
<1>6. x \o y = z
  BY <1>3, <1>4, <1>5, SeqEqual
<1> QED BY <1>6 DEF x, y, z

(* One character more is converted. *)
LEMMA ConvertTakes ==
  ASSUME buf \in Seq(Bytes), wbuf \in Seq(Codes), pos \in Nat, pos < Len(buf),
         Decode(pos).n > 0, NEW k \in 0 .. Len(buf), Taken(buf, wbuf, pos, k)
  PROVE  Taken(buf, Append(wbuf, Decode(pos).code), pos + Decode(pos).n, k)
<1>1. PICK c \in Codes, n \in 1 .. 3 : c = Decode(pos).code /\ n = Decode(pos).n
  <2>1. Decode(pos).n \in 0 .. 3 /\ Decode(pos).code \in Codes
    BY DecodeFacts
  <2>2. Decode(pos).n \in 1 .. 3
    BY <2>1
  <2> QED BY <2>1, <2>2
<1> DEFINE w == Append(wbuf, c)
           L == Len(wbuf)
<1>0. /\ Len(buf) \in Nat /\ k \in Nat /\ L \in Nat /\ w \in Seq(Codes)
      /\ Len(w) = L + 1 /\ w[L + 1] = c
  OBVIOUS
<1>2. \A m \in 0 .. L : Encoded(w, m) = Encoded(wbuf, m)
  BY EncodedBefore
<1> SUFFICES ASSUME WellFormed(Prefix(k))
             PROVE  Found(buf, w, pos + n, k) \/ Ahead(buf, w, pos + n, k)
  BY <1>1, Zenon DEF Taken, Prefix
<1>3. CASE Found(buf, wbuf, pos, k)
  <2>1. PICK m \in 0 .. L :
          /\ Encoded(wbuf, m) = SubSeq(buf, 1, k)
          /\ k < Len(buf) /\ Stops(buf[k + 1]) => m = L /\ pos = k
    BY <1>3 DEF Found
  <2>2. ~(k < Len(buf) /\ Stops(buf[k + 1]))
    <3> SUFFICES ASSUME k < Len(buf), Stops(buf[k + 1]) PROVE FALSE
      OBVIOUS
    <3>1. Decode(pos).n = 0
      BY <2>1, StopsThere
    <3> QED BY <3>1
  <2>3. m \in 0 .. Len(w) /\ Encoded(w, m) = SubSeq(buf, 1, k)
    BY <1>0, <1>2, <2>1
  <2> QED BY <2>2, <2>3, Zenon DEF Found
<1>4. CASE Ahead(buf, wbuf, pos, k)
  <2>1. pos < k /\ ~Trailing(buf[pos + 1]) /\ Encoded(wbuf, L) = Prefix(pos)
    BY <1>4 DEF Ahead, Prefix
  <2>2. Reads(pos, k)
    BY <2>1, RoundTrip
  <2>3. /\ pos + n <= k /\ Encode(c) = SubSeq(buf, pos + 1, pos + n)
        /\ pos + n < k => ~Trailing(buf[pos + n + 1])
    BY <1>1, <2>2, Zenon DEF Reads
  <2>4. Encoded(w, L + 1) = Prefix(pos + n)
    <3>1. Encoded(w, L + 1) = Encoded(w, L) \o Encode(w[L + 1])
      <4>1. L \in 0 .. Len(w) - 1
        BY <1>0
      <4> QED BY <1>0, <4>1, EncodedStep
    <3>2. Encoded(w, L) = Prefix(pos)
      <4>1. L \in 0 .. L
        BY <1>0
      <4> QED BY <1>2, <2>1, <4>1, Zenon
    <3>3. Prefix(pos) \o SubSeq(buf, pos + 1, pos + n) = Prefix(pos + n)
      <4>1. n \in Nat /\ pos + n \in Nat
        OBVIOUS
      <4>2. pos + n <= Len(buf)
        <5>1. pos + n <= k
          BY <2>3, Zenon
        <5> QED BY <1>0, <4>1, <5>1
      <4> QED BY <4>1, <4>2, PrefixGrows, Zenon DEF Prefix
    <3> HIDE DEF w
    <3> QED BY <1>0, <2>3, <3>1, <3>2, <3>3, Zenon
  <2>5. CASE pos + n = k
    <3>1. L + 1 \in 0 .. Len(w) /\ L + 1 = Len(w)
      BY <1>0
    <3>2. Encoded(w, L + 1) = SubSeq(buf, 1, k)
      BY <2>4, <2>5, Zenon DEF Prefix
    <3> HIDE DEF w, L
    <3> QED BY <2>5, <3>1, <3>2, Zenon DEF Found
  <2>6. CASE pos + n < k
    <3>1. Encoded(w, Len(w)) = SubSeq(buf, 1, pos + n)
      BY <1>0, <2>4, Zenon DEF Prefix
    <3> QED BY <2>3, <2>6, <3>1, Zenon DEF Ahead
  <2>7. pos + n = k \/ pos + n < k
    BY <1>0, <1>1, <2>3
  <2> QED BY <2>5, <2>6, <2>7
<1> QED BY <1>3, <1>4, Zenon DEF Taken, Prefix

(* Where the conversion ends nothing is ahead. *)
LEMMA ConvertedFinds ==
  ASSUME buf \in Seq(Bytes), pos \in Nat, pos >= Len(buf) \/ Decode(pos).n = 0,
         \A k \in 0 .. Len(buf) : Taken(buf, wbuf, pos, k)
  PROVE  AllFound(buf, wbuf, pos)
<1> SUFFICES ASSUME NEW k \in 0 .. Len(buf), WellFormed(Prefix(k)),
                    Ahead(buf, wbuf, pos, k)
             PROVE  FALSE
  BY Zenon DEF AllFound, Taken, Prefix
<1>1. pos < k /\ ~Trailing(buf[pos + 1])
  BY DEF Ahead
<1>2. Reads(pos, k)
  BY <1>1, RoundTrip
<1>3. Decode(pos).n \in 1 .. 3
  BY <1>2 DEF Reads
<1>4. pos < Len(buf)
  BY <1>1
<1> QED BY <1>3, <1>4

(* One word more is answered. *)
LEMMA WordAnswers ==
  ASSUME NEW w \in Seq(Codes), NEW f \in Nat, NEW n \in Nat, n > 0, f + n <= Len(w),
         NEW c \in {"get_segs_ex", "get_segs"}, NEW s, Answer(c, s, w, f),
         NEW olen \in Nat, olen > 3 * n,
         NEW t, t = FromUcs2(SubSeq(w, f + 1, f + n), olen)
  PROVE  Answer(c, IF c = "get_segs_ex" THEN Append(s, t)
                   ELSE (IF s = <<>> THEN <<>> ELSE Append(s, 1)) \o t, w, f + n)
<1> DEFINE cs == SubSeq(w, f + 1, f + n)
<1>1. cs \in Seq(Codes) /\ Len(cs) = n /\ n \in 0 .. Len(cs)
  OBVIOUS
<1>2. t = Encoded(cs, n)
  <2> HIDE DEF cs
  <2> QED BY <1>1, AllEncoded DEF cs
<1>3. t \in Seq(Bytes) /\ Len(t) <= 3 * n /\ WellFormed(t)
  <2> HIDE DEF cs
  <2> QED BY <1>1, <1>2, EncodedFacts
<1>4. Encoded(w, f + n) = Encoded(w, f) \o t
  BY <1>2, EncodedParts
<1>5. Encoded(w, f) \in Seq(Bytes)
  <2>1. f \in 0 .. Len(w)
    OBVIOUS
  <2> QED BY <2>1, EncodedFacts
<1> HIDE DEF cs
<1>6. CASE c = "get_segs_ex"
  <2>1. /\ s \in Seq(Seq(Bytes)) /\ FlattenSeq(s) = Encoded(w, f)
        /\ \A i \in 1 .. Len(s) : WellFormed(s[i])
    BY <1>6 DEF Answer
  <2>2. /\ Append(s, t) \in Seq(Seq(Bytes)) /\ Len(Append(s, t)) = Len(s) + 1
        /\ Len(s) \in Nat /\ Append(s, t)[Len(s) + 1] = t
        /\ \A i \in 1 .. Len(s) : Append(s, t)[i] = s[i]
    BY <1>3, <2>1
  <2>3. FlattenSeq(Append(s, t)) = Encoded(w, f + n)
    BY <1>3, <1>4, <2>1, FlattenAdds
  <2>4. \A i \in 1 .. Len(Append(s, t)) : WellFormed(Append(s, t)[i])
    <3> SUFFICES ASSUME NEW i \in 1 .. Len(Append(s, t))
                 PROVE  WellFormed(Append(s, t)[i])
      OBVIOUS
    <3>1. i \in 1 .. Len(s) \/ i = Len(s) + 1
      BY <2>2
    <3>2. CASE i \in 1 .. Len(s)
      BY <2>1, <2>2, <3>2, Zenon
    <3>3. CASE i = Len(s) + 1
      <4>1. Append(s, t)[Len(s) + 1] = t
        BY <2>2, Zenon
      <4>2. Append(s, t)[i] = Append(s, t)[Len(s) + 1]
        BY <3>3, Zenon
      <4> QED BY <1>3, <4>1, <4>2, Zenon
    <3> QED BY <3>1, <3>2, <3>3, Zenon
  <2> QED BY <1>6, <2>2, <2>3, <2>4, Zenon DEF Answer
<1>7. CASE c = "get_segs"
  <2> DEFINE r == IF s = <<>> THEN <<>> ELSE Append(s, 1)
  <2>1. s \in Seq(Bytes) /\ Kept(s) = Kept(Encoded(w, f)) /\ Len(s) <= 4 * f
    BY <1>7 DEF Answer
  <2>2. r \in Seq(Bytes) /\ Kept(r) = Kept(s) /\ Len(r) <= Len(s) + 1
    <3>1. CASE s = <<>>
      BY <2>1, <3>1
    <3>2. CASE s # <<>>
      <4>1. Kept(Append(s, 1)) = Kept(s) /\ Append(s, 1) \in Seq(Bytes)
            /\ Len(Append(s, 1)) = Len(s) + 1
        BY <2>1, KeptSeparator
      <4>2. r = Append(s, 1)
        BY <3>2
      <4>3. Len(s) + 1 <= Len(s) + 1
        BY <2>1
      <4> HIDE DEF r
      <4> QED BY <4>1, <4>2, <4>3, Zenon
    <3> QED BY <3>1, <3>2
  <2> HIDE DEF r
  <2>3. Kept(r \o t) = Kept(Encoded(w, f + n))
    <3>1. Kept(r \o t) = Kept(r) \o Kept(t)
      BY <1>3, <2>2, KeptJoined
    <3>2. Kept(Encoded(w, f) \o t) = Kept(Encoded(w, f)) \o Kept(t)
      BY <1>3, <1>5, KeptJoined
    <3> QED BY <1>4, <2>1, <2>2, <3>1, <3>2, Zenon
  <2>4. r \o t \in Seq(Bytes) /\ Len(r \o t) = Len(r) + Len(t)
    BY <1>3, <2>2
  <2>5. Len(r \o t) <= 4 * (f + n)
    <3>1. PICK x \in Nat, y \in Nat, z \in Nat : x = Len(r) /\ y = Len(t) /\ z = Len(s)
      BY <1>3, <2>1, <2>2
    <3>2. x <= z + 1 /\ y <= 3 * n /\ z <= 4 * f
      BY <1>3, <2>1, <2>2, <3>1
    <3>3. x + y <= 4 * (f + n)
      BY <3>2
    <3> QED BY <2>4, <3>1, <3>3
  <2>6. c # "get_segs_ex"
    BY <1>7
  <2> QED BY <1>7, <2>3, <2>4, <2>5, <2>6, Zenon DEF Answer, r
<1> QED BY <1>6, <1>7


-----------------------------------------------------------------------------
(* The calls and the steps keep the invariant. *)
LEMMA CallKeeps ==
  ASSUME CharInv, CallSegs
  PROVE  CharInv'
<1>1. /\ call' \in {"get_segs_ex", "get_segs"} /\ buf' \in Seq(Bytes)
      /\ pos' = 0 /\ wbuf' = <<>> /\ from' = 0 /\ segs' = <<>> /\ at' = "convert"
  BY TextsAssumption DEF CallSegs, Bytes
<1>2. CharTypes'
  <2>1. <<>> \in Seq(Codes) /\ Len(<<>>) = 0 /\ Len(buf') \in Nat
    BY <1>1
  <2> QED BY <1>1, <2>1 DEF CharTypes
<1>3. \A k \in 0 .. Len(buf') : Taken(buf', wbuf', pos', k)
  <2> SUFFICES ASSUME NEW k \in 0 .. Len(buf') PROVE Taken(buf', wbuf', pos', k)
    OBVIOUS
  <2>1. PICK b \in Seq(Bytes) : b = buf'
    BY <1>1
  <2>2. Taken(b, <<>>, 0, k)
    BY <2>1, NothingTaken
  <2> QED BY <1>1, <2>1, <2>2, Zenon
<1> QED BY <1>1, <1>2, <1>3 DEF CharInv

(* Convert: one character more is taken. *)
LEMMA ConvertKeeps ==
  ASSUME CharInv, Convert
  PROVE  CharInv'
<1>1. /\ at = "convert" /\ pos < Len(buf) /\ Decode(pos).n > 0
      /\ wbuf' = Append(wbuf, Decode(pos).code)
      /\ pos' = pos + Decode(pos).n
      /\ call' = call /\ buf' = buf /\ from' = from /\ segs' = segs /\ at' = at
  BY DEF Convert
<1>2. /\ CharTypes /\ from = 0 /\ segs = <<>>
      /\ \A k \in 0 .. Len(buf) : Taken(buf, wbuf, pos, k)
  BY <1>1 DEF CharInv
<1>3. buf \in Seq(Bytes) /\ wbuf \in Seq(Codes) /\ pos \in Nat /\ Len(wbuf) <= pos
  BY <1>2 DEF CharTypes
<1>4. Decode(pos).n \in 1 .. 3 /\ Decode(pos).code \in Codes
  <2>1. Decode(pos).n \in 0 .. 3 /\ Decode(pos).code \in Codes
    BY <1>1, <1>3, DecodeFacts
  <2> QED BY <1>1, <2>1
<1>5. \A k \in 0 .. Len(buf') : Taken(buf', wbuf', pos', k)
  <2> SUFFICES ASSUME NEW k \in 0 .. Len(buf) PROVE Taken(buf, wbuf', pos', k)
    BY <1>1
  <2>1. Taken(buf, wbuf, pos, k)
    BY <1>2
  <2>2. Taken(buf, Append(wbuf, Decode(pos).code), pos + Decode(pos).n, k)
    BY <1>1, <1>3, <2>1, ConvertTakes
  <2> QED BY <1>1, <2>2, Zenon
<1>6. CharTypes'
  <2>1. PICK n \in 1 .. 3, c \in Codes : n = Decode(pos).n /\ c = Decode(pos).code
    BY <1>4
  <2>2. Append(wbuf, c) \in Seq(Codes) /\ Len(Append(wbuf, c)) = Len(wbuf) + 1
        /\ Len(wbuf) \in Nat /\ Len(buf) \in Nat
    BY <1>3
  <2>3. wbuf' = Append(wbuf, c) /\ pos' = pos + n
    BY <1>1, <2>1, Zenon
  <2>4. pos' \in Nat /\ Len(wbuf') <= pos' /\ Len(wbuf') <= Len(buf)
    BY <1>1, <1>3, <2>2, <2>3
  <2>5. from \in 0 .. Len(wbuf')
    BY <1>2, <2>2, <2>3
  <2> QED BY <1>1, <1>2, <2>2, <2>3, <2>4, <2>5, Zenon DEF CharTypes
<1> QED BY <1>1, <1>2, <1>5, <1>6 DEF CharInv

(* Converted: whatever is well formed was found. *)
LEMMA ConvertedKeeps ==
  ASSUME CharInv, Converted
  PROVE  CharInv'
<1>1. /\ at = "convert" /\ (pos >= Len(buf) \/ Decode(pos).n = 0) /\ at' = "words"
      /\ call' = call /\ buf' = buf /\ pos' = pos /\ wbuf' = wbuf
      /\ from' = from /\ segs' = segs
  BY DEF Converted
<1>2. /\ CharTypes /\ from = 0 /\ segs = <<>>
      /\ \A k \in 0 .. Len(buf) : Taken(buf, wbuf, pos, k)
  BY <1>1 DEF CharInv
<1>3. buf \in Seq(Bytes) /\ wbuf \in Seq(Codes) /\ pos \in Nat
  BY <1>2 DEF CharTypes
<1>4. AllFound(buf, wbuf, pos)
  BY <1>1, <1>2, <1>3, ConvertedFinds
<1>5. Answer(call, <<>>, wbuf, 0)
  <2>1. Encoded(wbuf, 0) = <<>>
    BY <1>3, EncodedStep
  <2>2. <<>> \in Seq(Seq(Bytes)) /\ <<>> \in Seq(Bytes) /\ Len(<<>>) = 0
    OBVIOUS
  <2>3. \A i \in 1 .. Len(<<>>) : WellFormed(<<>>[i])
    BY <2>2
  <2>4. 0 <= 4 * 0
    OBVIOUS
  <2> QED BY <2>1, <2>2, <2>3, <2>4, FlattenEmpty, Zenon DEF Answer
<1>6. CharTypes'
  <2>1. "words" \in {"idle", "convert", "words", "answered"}
    OBVIOUS
  <2>2. at # "idle"
    BY <1>1
  <2> QED BY <1>1, <1>2, <2>1, <2>2, Zenon DEF CharTypes
<1>7. "words" # "convert" /\ "words" # "answered"
  OBVIOUS
<1>8. Answer(call, segs, wbuf, from)
  BY <1>2, <1>5, Zenon
<1>9. at' # "convert" /\ at' # "answered"
  BY <1>1, <1>7
<1>10. AllFound(buf', wbuf', pos') /\ Answer(call', segs', wbuf', from')
  BY <1>1, <1>4, <1>8, Zenon
<1> QED BY <1>6, <1>9, <1>10, Zenon DEF CharInv

(* CharWord: its room is enough for the word, which is appended whole. *)
LEMMA WordKeeps ==
  ASSUME CharInv, CharWord
  PROVE  CharInv'
<1>1. /\ at = "words" /\ from < Len(wbuf)
      /\ call' = call /\ buf' = buf /\ pos' = pos /\ wbuf' = wbuf /\ at' = at
  BY DEF CharWord
<1>2. PICK n \in 1 .. Len(wbuf) - from :
        /\ segs' = IF call = "get_segs_ex"
                     THEN Append(segs, FromUcs2(SubSeq(wbuf, from + 1, from + n), RoomOf(n)))
                   ELSE (IF segs = <<>> THEN <<>> ELSE Append(segs, 1))
                          \o FromUcs2(SubSeq(wbuf, from + 1, from + n), 8 * Len(buf))
        /\ from' = from + n
  BY Zenon DEF CharWord
<1>3. /\ CharTypes /\ AllFound(buf, wbuf, pos) /\ Answer(call, segs, wbuf, from)
  BY <1>1 DEF CharInv
<1>4. /\ buf \in Seq(Bytes) /\ wbuf \in Seq(Codes) /\ from \in Nat
      /\ call \in {"get_segs_ex", "get_segs"} /\ Len(wbuf) <= Len(buf)
  BY <1>1, <1>3 DEF CharTypes
<1>5. /\ n \in Nat /\ n > 0 /\ from + n <= Len(wbuf)
      /\ RoomOf(n) \in Nat /\ RoomOf(n) > 3 * n
      /\ 8 * Len(buf) \in Nat /\ 8 * Len(buf) > 3 * n
  <2>1. PICK x \in Nat, y \in Nat : x = Len(wbuf) /\ y = Len(buf)
    BY <1>4
  <2>2. n \in Nat /\ n > 0 /\ from + n <= x /\ x <= y
    BY <1>2, <1>4, <2>1
  <2>3. RoomOf(n) \in Nat /\ RoomOf(n) > 3 * n
    BY <2>2 DEF RoomOf
  <2>4. 8 * y \in Nat /\ 8 * y > 3 * n
    BY <1>4, <2>2
  <2> QED BY <2>1, <2>2, <2>3, <2>4, Zenon
<1> DEFINE cs == SubSeq(wbuf, from + 1, from + n)
           Longer(t) == IF call = "get_segs_ex" THEN Append(segs, t)
                        ELSE (IF segs = <<>> THEN <<>> ELSE Append(segs, 1)) \o t
<1>6. /\ Answer(call, Longer(FromUcs2(cs, RoomOf(n))), wbuf, from + n)
      /\ Answer(call, Longer(FromUcs2(cs, 8 * Len(buf))), wbuf, from + n)
  <2>1. ASSUME NEW olen \in Nat, olen > 3 * n
        PROVE  Answer(call, Longer(FromUcs2(cs, olen)), wbuf, from + n)
    BY <1>3, <1>4, <1>5, <2>1, WordAnswers
  <2> HIDE DEF Longer, cs
  <2> QED BY <1>5, <2>1
<1>7. \/ segs' = Longer(FromUcs2(cs, RoomOf(n)))
      \/ segs' = Longer(FromUcs2(cs, 8 * Len(buf)))
  BY <1>2, Zenon
<1> HIDE DEF Longer, cs
<1>8. Answer(call, segs', wbuf, from + n)
  BY <1>6, <1>7, Zenon
<1>9. CharTypes'
  <2>1. from' \in 0 .. Len(wbuf)
    <3>1. PICK x \in Nat : x = Len(wbuf)
      BY <1>4
    <3>2. from + n \in 0 .. x
      BY <1>4, <1>5, <3>1
    <3> QED BY <1>2, <3>1, <3>2, Zenon
  <2> QED BY <1>1, <1>3, <2>1, Zenon DEF CharTypes
<1>10. Answer(call', segs', wbuf', from') /\ AllFound(buf', wbuf', pos')
  BY <1>1, <1>2, <1>3, <1>8, Zenon
<1>11. at' # "convert" /\ at' # "answered"
  BY <1>1
<1> QED BY <1>9, <1>10, <1>11, Zenon DEF CharInv

(* Answered: all characters are in words. *)
LEMMA AnsweredKeeps ==
  ASSUME CharInv, Answered
  PROVE  CharInv'
<1>1. /\ at = "words" /\ from = Len(wbuf) /\ at' = "answered"
      /\ call' = call /\ buf' = buf /\ pos' = pos /\ wbuf' = wbuf
      /\ from' = from /\ segs' = segs
  BY DEF Answered
<1>2. /\ CharTypes /\ AllFound(buf, wbuf, pos) /\ Answer(call, segs, wbuf, from)
  BY <1>1 DEF CharInv
<1>3. CharTypes'
  <2>1. "answered" \in {"idle", "convert", "words", "answered"} /\ at # "idle"
    BY <1>1
  <2> QED BY <1>1, <1>2, <2>1, Zenon DEF CharTypes
<1>4. at' # "convert"
  BY <1>1
<1>5. /\ AllFound(buf', wbuf', pos') /\ Answer(call', segs', wbuf', from')
      /\ from' = Len(wbuf')
  BY <1>1, <1>2, Zenon
<1> QED BY <1>3, <1>4, <1>5, Zenon DEF CharInv

(* Consumed: nothing is left of the call. *)
LEMMA ConsumedKeeps ==
  ASSUME CharInv, Consumed
  PROVE  CharInv'
<1>1. /\ at' = "idle" /\ buf' = <<>> /\ pos' = 0 /\ wbuf' = <<>> /\ from' = 0
  BY DEF Consumed
<1> QED BY <1>1 DEF CharInv, CharTypes

(* All steps of a call. *)
LEMMA CharKeeps ==
  ASSUME CharInv, CallSegs \/ CharStep \/ UNCHANGED charVars
  PROVE  CharInv'
<1>1. CASE UNCHANGED charVars
  <2>1. /\ call' = call /\ buf' = buf /\ pos' = pos /\ wbuf' = wbuf
        /\ from' = from /\ segs' = segs /\ at' = at
    BY <1>1 DEF charVars
  <2> QED BY <2>1, Zenon DEF CharInv, CharTypes
<1>2. CASE CharStep
  BY <1>2, ConvertKeeps, ConvertedKeeps, WordKeeps, AnsweredKeeps, ConsumedKeeps, Zenon
    DEF CharStep
<1> QED BY <1>1, <1>2, CallKeeps, Zenon

-----------------------------------------------------------------------------
(* The answer starts with what was found of the text. *)
LEMMA BeginningKept ==
  ASSUME NEW w \in Seq(Codes), NEW m \in 0 .. Len(w), NEW s, s = Encoded(w, m)
  PROVE  /\ IsPrefix(s, Encoded(w, Len(w)))
         /\ IsPrefix(Kept(s), Kept(Encoded(w, Len(w))))
<1> DEFINE n == Len(w) - m
           t == Encoded(SubSeq(w, m + 1, m + n), n)
<1>1. m \in Nat /\ n \in Nat /\ m + n = Len(w)
  OBVIOUS
<1>2. Encoded(w, Len(w)) = s \o t
  <2>1. Encoded(w, m + n) = Encoded(w, m) \o t
    <3> HIDE DEF n
    <3>1. m + n <= Len(w)
      <4>1. Len(w) \in Nat
        OBVIOUS
      <4> QED BY <1>1, <4>1
    <3> QED BY <1>1, <3>1, EncodedParts, Zenon
  <2> QED BY <1>1, <2>1, Zenon
<1>3. s \in Seq(Bytes) /\ t \in Seq(Bytes)
  <2>1. s \in Seq(Bytes)
    BY EncodedFacts
  <2>2. SubSeq(w, m + 1, m + n) \in Seq(Codes) /\ n \in 0 .. Len(SubSeq(w, m + 1, m + n))
    <3> HIDE DEF n
    <3> QED BY <1>1
  <2>3. t \in Seq(Bytes)
    <3> HIDE DEF n
    <3> QED BY <2>2, EncodedFacts
  <2> QED BY <2>1, <2>3
<1> HIDE DEF n, t
<1>4. Kept(s \o t) = Kept(s) \o Kept(t) /\ Kept(s) \in Seq(Bytes) /\ Kept(t) \in Seq(Bytes)
  BY <1>3, KeptJoined
<1>5. ASSUME NEW x \in Seq(Bytes), NEW y \in Seq(Bytes)
      PROVE  IsPrefix(x, x \o y)
  <2>1. x \o y \in Seq(Bytes) /\ Len(x \o y) = Len(x) + Len(y)
    BY ConcatProperties, Zenon
  <2>2. Len(x) <= Len(x \o y) /\ Len(x) \in Nat
    BY <2>1
  <2>3. \A i \in 1 .. Len(x) : (x \o y)[i] = x[i]
    OBVIOUS
  <2>4. SubSeq(x \o y, 1, Len(x)) = x
    <3>1. SubSeq(x \o y, 1, Len(x)) \in Seq(Bytes) /\ Len(SubSeq(x \o y, 1, Len(x))) = Len(x)
          /\ \A i \in 1 .. Len(x) : SubSeq(x \o y, 1, Len(x))[i] = (x \o y)[i]
      BY <2>1, <2>2
    <3> QED BY <2>3, <3>1, SeqEqual
  <2> QED BY <2>2, <2>4 DEF IsPrefix
<1> QED BY <1>2, <1>3, <1>4, <1>5, Zenon

(* The invariant says of the answer what it should. *)
LEMMA Answers ==
  ASSUME CharInv
  PROVE  TextKept
<1> SUFFICES ASSUME at = "answered"
             PROVE  TextKept!2
  BY Zenon DEF TextKept
<1>1. /\ CharTypes /\ AllFound(buf, wbuf, pos) /\ Answer(call, segs, wbuf, Len(wbuf))
  BY DEF CharInv
<1>2. /\ buf \in Seq(Bytes) /\ wbuf \in Seq(Codes) /\ Len(wbuf) <= Len(buf)
      /\ call \in {"get_segs_ex", "get_segs"}
  BY <1>1 DEF CharTypes
<1>3. Joined = AsAnswered(Encoded(wbuf, Len(wbuf)))
  <2>1. CASE call = "get_segs_ex"
    BY <1>1, <2>1, Zenon DEF Joined, AsAnswered, Answer
  <2>2. CASE call = "get_segs"
    <3>1. call # "get_segs_ex"
      BY <2>2
    <3> QED BY <1>1, <2>2, <3>1, Zenon DEF Joined, AsAnswered, Answer
  <2> QED BY <1>2, <2>1, <2>2
<1>4. ASSUME NEW k \in 0 .. Len(buf), WellFormed(Prefix(k))
      PROVE  /\ IsPrefix(AsAnswered(Prefix(k)), Joined)
             /\ k < Len(buf) /\ Stops(buf[k + 1]) => Joined = AsAnswered(Prefix(k))
  <2>1. PICK m \in 0 .. Len(wbuf) :
          /\ Encoded(wbuf, m) = Prefix(k)
          /\ k < Len(buf) /\ Stops(buf[k + 1]) => m = Len(wbuf)
    BY <1>1, <1>4, Zenon DEF AllFound, Found, Prefix
  <2>2. /\ IsPrefix(Prefix(k), Encoded(wbuf, Len(wbuf)))
        /\ IsPrefix(Kept(Prefix(k)), Kept(Encoded(wbuf, Len(wbuf))))
    BY <1>2, <2>1, BeginningKept
  <2> QED BY <1>3, <2>1, <2>2, Zenon DEF AsAnswered
<1>5. call = "get_segs_ex" => \A k \in DOMAIN segs : WellFormed(segs[k])
  BY <1>1 DEF Answer
<1>6. call = "get_segs" /\ buf # <<>> => Len(segs) < 8 * Len(buf)
  <2> SUFFICES ASSUME call = "get_segs", buf # <<>> PROVE Len(segs) < 8 * Len(buf)
    OBVIOUS
  <2>1. segs \in Seq(Bytes) /\ Len(segs) <= 4 * Len(wbuf)
    BY <1>1 DEF Answer
  <2>2. PICK x \in Nat, y \in Nat, z \in Nat :
          x = Len(segs) /\ y = Len(wbuf) /\ z = Len(buf)
    BY <1>2, <2>1
  <2>3. z > 0
    BY <1>2, <2>2
  <2>4. x <= 4 * y /\ y <= z
    BY <1>2, <2>1, <2>2, Zenon
  <2>5. x < 8 * z
    BY <2>3, <2>4
  <2> QED BY <2>2, <2>5, Zenon
<1> QED BY <1>4, <1>5, <1>6, Zenon DEF Prefix

(* The words that get_segs_ex and get_segs answer are, put together, the     *)
(* text: every well formed beginning of it comes back byte for byte, no      *)
(* character is torn between two words, the answer ends at the byte that     *)
(* begins no character, and segbuf never fills.                              *)
THEOREM TextIsKept == Spec => []TextKept
<1>1. Init => CharInv
  BY CharInitInv DEF Init
<1>2. CharInv /\ [Next]_vars => CharInv'
  <2> SUFFICES ASSUME CharInv, [Next]_vars PROVE CharInv'
    OBVIOUS
  <2>1. CASE CharStep \/ CallSegs \/ UNCHANGED charVars
    BY <2>1, CharKeeps, Zenon
  <2>2. Next => CharStep \/ CallSegs \/ UNCHANGED charVars
    BY DEF Next, CallInitFromFile, CallInitFromNfa, CallInitFromMmapFile, CallClear,
           CallInit, BuildCore, DumpCore, LoadCharCore, Segment, SegmentWithout, Destroy,
           OtherOpens, OtherCloses
  <2>3. UNCHANGED vars => UNCHANGED charVars
    BY DEF vars
  <2> QED BY <2>1, <2>2, <2>3, Zenon
<1>3. CharInv => TextKept
  BY Answers
<1> QED
  BY <1>1, <1>2, <1>3, PTL DEF Spec
=============================================================================
