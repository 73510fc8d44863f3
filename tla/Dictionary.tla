----------------------------- MODULE Dictionary -----------------------------
(***************************************************************************)
(* What an NGramDictManage owns, and when: the array of the dictionary,    *)
(* its own or mapped from a file, and the automaton, whose tables are a    *)
(* mapping too (relrank_dict.cpp, ngram_dict.h, trie_utility.h, dfa.cpp).  *)
(* The life of one manager, as the programs use it, and of one Dfa object, *)
(* whose methods may be called in any order, in a process that opens other *)
(* descriptors; with a dictionary loaded texts are segmented (CharSegs).   *)
(***************************************************************************)
EXTENDS CharSegs, FiniteSets

CONSTANTS
  Descriptors,  (* bound: file descriptors, naturals                       *)
  Addresses,    (* bound: places for mappings, naturals above 0            *)
  FileSizes,    (* of automaton files and dictionaries, in bytes           *)
  PageSize      (* of the memory, in bytes                                 *)

ASSUME DictionaryAssumption ==
  /\ Descriptors \subseteq Nat
  /\ Addresses \subseteq Nat \ {0}
  /\ FileSizes \subseteq Nat
  /\ PageSize \in Nat \ {0}

VARIABLES
  owner,    (* "manager" or "class": who calls the methods of the Dfa       *)
  alive,    (* is the object there?                                        *)
  loaded,   (* _loaded                                                     *)
  core,     (* _dict: empty, with rows of its own, mapped, or NULL         *)
  dfa,      (* the members of Dfa that this is about                       *)
  maps,     (* the mappings: of a file of how many bytes, how many of them *)
  open,     (* its open descriptors                                        *)
  others,   (* those somebody else has opened and not closed               *)
  last      (* the call that returned last: TRUE, or FALSE or an exception  *)

dictVars == << owner, alive, loaded, core, dfa, maps, open, others, last >>
vars == << dictVars, charVars >>

Null == 0
Failed == -1

(* refused is history: since the last ClearMmap, mmap refused a file whose  *)
(* size map_size_ keeps.                                                    *)
NewDfa == [mmap_pattern |-> FALSE, fd_map |-> -1, map |-> Null, map_size |-> 0,
           nodes |-> FALSE, refused |-> FALSE]

Core(kind, a) == [kind |-> kind, at |-> a]
Returned(c, result) == [call |-> c, result |-> result]

(* open gives the lowest descriptor, mmap some free place. *)
Lowest(S) == CHOOSE x \in S : \A y \in S : x <= y
FreeAt(m) == Lowest(Addresses \ DOMAIN m)

(* mmap of the first length bytes of a file of size bytes. *)
Region(size, length) == [file |-> size, length |-> length]
Mapped(m, a, r) == [x \in DOMAIN m \cup {a} |-> IF x = a THEN r ELSE m[x]]

(* munmap of bytes at a, where length bytes are mapped, leaves the pages    *)
(* that begin behind them; of no bytes, or at no mapping, it fails.         *)
PagesLeft(bytes, length) ==
  {q \in 0 .. length : bytes <= q * PageSize /\ q * PageSize < length}

Unmapped(m, a, bytes) ==
  IF a \in DOMAIN m /\ PagesLeft(bytes, m[a].length) = {}
    THEN [x \in DOMAIN m \ {a} |-> m[x]]
    ELSE m

Init ==
  /\ CharInit
  /\ owner \in {"manager", "class"}
  /\ alive = TRUE /\ loaded = FALSE /\ core = Core("empty", Null)
  /\ dfa = NewDfa
  /\ maps = [a \in {} |-> 0] /\ open = {} /\ others = {}
  /\ last = Returned("constructor", TRUE)

-----------------------------------------------------------------------------
KeepsMapping(d, m, fds) ==
  [d    |-> [d EXCEPT !.mmap_pattern = FALSE],
   maps |-> m,
   open |-> IF d.fd_map >= 0 THEN fds \ {d.fd_map} ELSE fds]

(* Dfa::ClearMmap of the automaton d: what becomes of the object, of the   *)
(* mappings and of the descriptors.  fd_map_ keeps its value.              *)
ClearMmap(d, m, fds) ==
  [d    |-> [d EXCEPT !.mmap_pattern = FALSE, !.map = Null,
                      !.map_size = IF d.map = Null THEN @ ELSE 0, !.refused = FALSE],
   maps |-> Unmapped(m, d.map, 4 * d.map_size),
   open |-> IF d.fd_map >= 0 THEN fds \ {d.fd_map} ELSE fds]

(* Dfa::Clear: the nodes and the mapping. *)
Clear(d, m, fds) == ClearMmap([d EXCEPT !.nodes = FALSE], m, fds)

Becomes(w) == dfa' = w.d /\ maps' = w.maps /\ open' = w.open

(* Dfa::InitFromMmapFile: a file that is not there, one that mmap refuses,  *)
(* empty or not, and one that is mapped.  The size is that of the file, in  *)
(* whole INT32, unless an earlier refusal has left one.                     *)
InitFromMmapFile(d, m, fds, result) ==
  LET was == IF d.mmap_pattern THEN ClearMmap(d, m, fds)
             ELSE [d |-> d, maps |-> m, open |-> fds]
      fd  == Lowest(Descriptors \ was.open)
      a   == FreeAt(was.maps)
      new == was.d.map_size = 0
      Size(n) == IF new THEN n \div 4 ELSE was.d.map_size
      Bytes(n) == IF new THEN n ELSE 4 * was.d.map_size
  IN  \/ /\ ~result
         /\ Becomes([was EXCEPT !.d.fd_map = -1])
      \/ \E n \in FileSizes :
           \/ /\ ~result
              /\ Becomes([was EXCEPT !.d.fd_map = fd, !.d.map = Failed,
                             !.d.map_size = Size(n), !.d.refused = (Size(n) # 0)])
           \/ /\ result /\ n > 0 /\ ~(Addresses \subseteq DOMAIN was.maps)
              /\ Becomes([d    |-> [was.d EXCEPT !.fd_map = fd, !.map = a,
                                      !.map_size = Size(n), !.mmap_pattern = TRUE],
                          maps |-> Mapped(was.maps, a, Region(n, Bytes(n))),
                          open |-> was.open \cup {fd}])

(* With a size left an empty file is mapped too, and to read its first      *)
(* INT32 ends the process.                                                  *)
ReadsNothing(d) == ~d.mmap_pattern /\ d.map_size # 0 /\ 0 \in FileSizes

Terminated(c) ==
  /\ alive' = FALSE /\ core' = Core("null", Null) /\ dfa' = NewDfa
  /\ maps' = [a \in {} |-> 0] /\ open' = {}
  /\ last' = Returned(c, FALSE)

(* InitFromFile and InitFromNfa clear the object first; the nodes are read *)
(* or made, or an exception comes first.                                   *)
CallInit(c) ==
  /\ \E good \in BOOLEAN :
       LET was == Clear(dfa, maps, open)
       IN  /\ Becomes([was EXCEPT !.d.nodes = good])
           /\ last' = Returned(c, good)
  /\ UNCHANGED << owner, alive, loaded, core, others, charVars >>

Idle == alive /\ at = "idle"
ByClass == Idle /\ owner = "class"
ByManager == Idle /\ owner = "manager"

CallInitFromFile == ByClass /\ CallInit("InitFromFile")

CallInitFromNfa ==
  \/ /\ ByClass /\ last' = Returned("InitFromNfa", FALSE)
     /\ UNCHANGED << owner, alive, loaded, core, dfa, maps, open, others, charVars >>
  \/ ByClass /\ CallInit("InitFromNfa")

CallInitFromMmapFile ==
  /\ ByClass /\ Descriptors # open
  /\ \/ /\ \E result \in BOOLEAN :
             /\ InitFromMmapFile(dfa, maps, open, result)
             /\ last' = Returned("InitFromMmapFile", result)
        /\ UNCHANGED << alive, core, others >>
     \/ ReadsNothing(dfa) /\ Terminated("InitFromMmapFile") /\ others' = {}
  /\ UNCHANGED << owner, loaded, charVars >>

CallClear ==
  /\ ByClass /\ Becomes(Clear(dfa, maps, open))
  /\ last' = Returned("Clear", TRUE)
  /\ UNCHANGED << owner, alive, loaded, core, others, charVars >>

-----------------------------------------------------------------------------
(* build_core: the rows of a file are inserted; dump_core reports TRUE     *)
(* whatever save says.                                                     *)
BuildCore ==
  /\ ByManager /\ ~loaded
  /\ \E there \in BOOLEAN :
       /\ core' = IF there THEN Core("own", Null) ELSE core
       /\ last' = Returned("build_core", there)
  /\ UNCHANGED << owner, alive, loaded, dfa, maps, open, others, charVars >>

DumpCore ==
  /\ ByManager /\ ~loaded
  /\ last' = Returned("dump_core", TRUE)
  /\ UNCHANGED << owner, alive, loaded, core, dfa, maps, open, others, charVars >>

Forgotten(c, m) == m

(* TrieUtility::dynamic_load and NGramDict::load_core: the old array is     *)
(* deleted, then the file mapped; it may be missing or no dictionary.       *)
(* Then the automaton is initialised; what it throws, nobody catches.       *)
Deleted(c, m) ==
  IF c.kind = "mapped" THEN Unmapped(m, c.at, m[c.at].length) ELSE m

LoadFails ==
  /\ core' = Core("null", Null) /\ maps' = Deleted(core, maps)
  /\ last' = Returned("load_char_core", FALSE)
  /\ UNCHANGED << alive, dfa, open >>

LoadWorks ==
  /\ \E n \in FileSizes \ {0} :
       LET m == Deleted(core, maps)
           a == FreeAt(m)
       IN  /\ ~(Addresses \subseteq DOMAIN m)
           /\ core' = Core("mapped", a)
           /\ InitFromMmapFile(dfa, Mapped(m, a, Region(n, n)), open, TRUE)
  /\ last' = Returned("load_char_core", TRUE)
  /\ UNCHANGED alive

(* load_char_core: only the first call does anything. *)
LoadCharCore ==
  /\ ByManager /\ Descriptors # open
  /\ loaded' = TRUE
  /\ IF loaded
       THEN /\ last' = Returned("load_char_core", TRUE)
            /\ UNCHANGED << alive, core, dfa, maps, open >>
       ELSE LoadFails \/ LoadWorks \/ Terminated("load_char_core")
  /\ others' = (IF alive' THEN others ELSE {})
  /\ UNCHANGED << owner, charVars >>

(* A text is segmented: by a manager that has its dictionary; without one  *)
(* the process ends at the null pointer.                                   *)
Segment ==
  /\ ByManager /\ core.kind = "mapped" /\ CallSegs
  /\ UNCHANGED dictVars

SegmentWithout ==
  /\ ByManager /\ core.kind = "null"
  /\ Terminated("get_segs_ex") /\ others' = {}
  /\ UNCHANGED << owner, loaded, charVars >>

(* ~NGramDictManage or ~Dfa. *)
Destroy ==
  /\ Idle
  /\ Becomes(Clear(dfa, Deleted(core, maps), open))
  /\ core' = Core("null", Null)
  /\ alive' = FALSE
  /\ last' = Returned("destructor", TRUE)
  /\ UNCHANGED << owner, loaded, others, charVars >>

OtherOpens ==
  /\ Idle /\ Descriptors # open
  /\ LET fd == Lowest(Descriptors \ open)
     IN  open' = open \cup {fd} /\ others' = others \cup {fd}
  /\ UNCHANGED << owner, alive, loaded, core, dfa, maps, last, charVars >>

OtherCloses ==
  /\ Idle
  /\ \E fd \in others : open' = open \ {fd} /\ others' = others \ {fd}
  /\ UNCHANGED << owner, alive, loaded, core, dfa, maps, last, charVars >>

Next ==
  \/ CallInitFromFile \/ CallInitFromNfa \/ CallInitFromMmapFile \/ CallClear
  \/ BuildCore \/ DumpCore \/ LoadCharCore
  \/ Segment \/ SegmentWithout \/ (CharStep /\ UNCHANGED dictVars)
  \/ Destroy \/ OtherOpens \/ OtherCloses

Spec == Init /\ [][Next]_vars

-----------------------------------------------------------------------------
(* A file of one to three bytes more than whole pages: StoreToMmap, which    *)
(* puts INT32 out, writes none.  Its last page lies behind 4 * map_size_.   *)
Ragged(r) == \E q \in 0 .. r.file : r.file - q * PageSize \in 1 .. 3

OfDfa(d) == IF d.mmap_pattern THEN {d.map} ELSE {}
OfCore(c) == IF c.kind = "mapped" THEN {c.at} ELSE {}

(* In whatever order the methods are called and whichever files are missing, *)
(* empty or refused: tables that are used (mmap_pattern_, a mapped           *)
(* dictionary) are live mappings of their own, as long as map_size_ says;    *)
(* the whole of their file is mapped unless a refusal left a size, which to  *)
(* a manager never happens; and no other mapping is left but of a ragged     *)
(* file.  Once load_char_core was called and the process goes on, the        *)
(* dictionary is whole, later calls included, unless the first call returned *)
(* FALSE.  InitFromMmapFile returns TRUE just when the tables are mapped, and *)
(* Clear makes the object new again, but for fd_map_.                        *)
MapLive ==
  /\ OfDfa(dfa) \cup OfCore(core) \subseteq DOMAIN maps
  /\ OfDfa(dfa) \cap OfCore(core) = {}
  /\ \A a \in OfDfa(dfa) :
       /\ maps[a].length \div 4 = dfa.map_size
       /\ maps[a].length = maps[a].file \/ dfa.refused
  /\ \A a \in OfCore(core) : maps[a].length = maps[a].file
  /\ \A a \in DOMAIN maps \ (OfDfa(dfa) \cup OfCore(core)) : Ragged(maps[a])
  /\ owner = "manager" => ~dfa.refused
  /\ alive /\ owner = "manager" /\ loaded =>
       core.kind = "null" \/ (core.kind = "mapped" /\ dfa.mmap_pattern)
  /\ last.call = "InitFromMmapFile" => (last.result <=> dfa.mmap_pattern)
  /\ last.call = "Clear" => [dfa EXCEPT !.fd_map = -1] = NewDfa

(* A destroyed object leaves no mapping, but of a ragged file, and no       *)
(* descriptor of its own.                                                   *)
NothingLeft ==
  ~alive => (\A a \in DOMAIN maps : Ragged(maps[a])) /\ open \subseteq others
=============================================================================
