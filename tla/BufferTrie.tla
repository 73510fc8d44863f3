----------------------------- MODULE BufferTrie -----------------------------
(***************************************************************************)
(* The dictionary as one array, Relrank::BufferTrie: how the rows of a     *)
(* dictionary file or the nodes of a Trie are laid out in it, how it is    *)
(* saved and loaded, and how it is searched                                *)
(* (src/src/segmenter/largetrie/bufferTrie.h).                             *)
(*                                                                         *)
(* An element has a key, a size and one word that is either the offset of  *)
(* its children or, if it has none, its value.  A word that is also a      *)
(* prefix of others keeps its value in a first child of key 0.             *)
(***************************************************************************)
EXTENDS Integers, Sequences, SequencesExt

CONSTANTS
  Dicts,  (* the dictionaries: functions from words to their values        *)
  Texts,  (* the texts looked up                                           *)
  Width,  (* keys are characters modulo Width (65536)                      *)
  Block   (* the array grows to 3/2 of a multiple of Block (512)           *)

ASSUME BlockAssumption == Block \in Nat \ {0} /\ Block % 2 = 0

(* A dictionary has a word; a word has no 0 in it, which closes it.        *)
ASSUME DictsAssumption ==
  \A d \in Dicts :
    /\ IsFiniteSet(DOMAIN d) /\ DOMAIN d # {} /\ DOMAIN d \subseteq Seq(Nat \ {0})
    /\ \A w \in DOMAIN d : d[w] \in Nat

(* A text has no 0 either, and two byte characters.                        *)
ASSUME TextsAssumption == Width \in Nat \ {0} /\ Texts \subseteq Seq(1 .. Width - 1)

VARIABLES
  dict,    (* the dictionary being laid out                                *)
  trie,    (* _M_trie: a function from its nodes to their ids              *)
  format,  (* "compact" or "terminated" rows of a file, or a "trie"        *)
  todo,    (* rows still to be read, or the queue of build                 *)
  elm,     (* _M_p_elm: a function on 0 .. _M_n_elm - 1                    *)
  size,    (* _M_size, the number of leaves                                *)
  offset,  (* _offset: where the next block of children goes               *)
  cur,     (* _cur: where the next row goes                                *)
  phase,   (* "fill", "build", "ready", "save", "saved", then "loaded"     *)
  file     (* what save has written: the head and the elements so far      *)

array == << elm, size, offset, cur >>
vars == << dict, trie, format, todo, array, phase, file >>

-----------------------------------------------------------------------------
(* Trie::add: a node for every prefix of the word and its closing 0, which *)
(* takes the id.                                                           *)
AddWithoutEnd(t, w, id) ==
  [p \in DOMAIN t \cup Prefixes(w) |->
     IF p = w THEN id ELSE IF p \in DOMAIN t THEN t[p] ELSE -1]

Add(t, w, id) ==
  LET new == Append(w, 0)
  IN  [p \in DOMAIN t \cup Prefixes(new) |->
         IF p = new THEN id ELSE IF p \in DOMAIN t THEN t[p] ELSE -1]

(* Trie::find: the id of the last node on the way of the word and its 0.   *)
Find(t, w) ==
  LET way == Prefixes(Append(w, 0)) \cap DOMAIN t
  IN  t[CHOOSE p \in way : \A q \in way : Len(q) <= Len(p)]

(* The paths of a dictionary file; its rows may give a closing 0 to every  *)
(* word or only to the words that go on.                                   *)
Paths(d) == UNION {Prefixes(w) : w \in DOMAIN d}

FileNodes(d, f) ==
  Paths(d) \cup {Append(w, 0) : w \in {v \in DOMAIN d :
     f # "compact" \/ \E p \in Paths(d) : Len(p) > Len(v) /\ IsPrefix(v, p)}}

Nodes == IF format = "trie" THEN DOMAIN trie ELSE FileNodes(dict, format)

Kids(p) == {n \in Nodes : Len(n) = Len(p) + 1 /\ IsPrefix(p, n)}

LastChar(p) == IF p = <<>> THEN 0 ELSE Last(p)

(* A set in the order of lt: each element after those before it. *)
Sorted(S, lt(_, _)) ==
  [k \in 1 .. Cardinality(S) |->
     CHOOSE x \in S : Cardinality({y \in S : lt(y, x)}) = k - 1]

Ascending(S) == Sorted(S, LAMBDA a, b : a < b)

SortedKids(p) == Sorted(Kids(p), LAMBDA a, b : LastChar(a) < LastChar(b))

(* Breadth first, siblings by their last characters: the order of the rows. *)
Before(a, b) ==
  \/ Len(a) < Len(b)
  \/ /\ Len(a) = Len(b)
     /\ \E k \in 1 .. Len(a) : /\ a[k] < b[k]
                               /\ \A j \in 1 .. k - 1 : a[j] = b[j]

Rows(d, f) == Sorted(FileNodes(d, f), Before)

-----------------------------------------------------------------------------
Elm(key, word, sz) == [key |-> key, word |-> word, size |-> sz]
Free == Elm(0, 0, 0)
NoFile == [head |-> FALSE, count |-> 0, elms |-> << >>, failed |-> FALSE]

(* __resizeElm: room for index i; the second size is taken when realloc    *)
(* refuses the first.  New elements are zero.                              *)
GrownExactly(e, i) ==
  LET n == Cardinality(DOMAIN e)
  IN  IF i <= n THEN {e}
      ELSE {[k \in 0 .. m - 1 |-> IF k < n THEN e[k] ELSE Free]
            : m \in {((i + Block - 1) \div Block) * Block}}

GrownUncleared(e, i) ==
  LET n == Cardinality(DOMAIN e)
      m == (((i + Block - 1) \div Block) * Block * 3) \div 2
  IN  IF i < n THEN {e}
      ELSE {[k \in 0 .. m - 1 |-> IF k < n THEN e[k] ELSE Elm(0, -1, 0)]}

Grown(e, i) ==
  LET n == Cardinality(DOMAIN e)
  IN  IF i < n THEN {e}
      ELSE {[k \in 0 .. m - 1 |-> IF k < n THEN e[k] ELSE Free]
            : m \in {(((i + Block - 1) \div Block) * Block * 3) \div 2,
                     ((i + 2 * Block - 1) \div Block) * Block}}

Init ==
  /\ dict \in Dicts
  /\ format \in {"compact", "terminated", "trie"}
  /\ todo = IF format = "trie" THEN << [node |-> <<>>, slot |-> 0] >>
            ELSE Rows(dict, format)
  /\ trie = [p \in {<<>>} |-> -1]
  /\ elm = << >>
  /\ size = 0 /\ offset = 1 /\ cur = 0
  /\ phase = (IF format = "trie" THEN "fill" ELSE "build")
  /\ file = NoFile

(* insert: the words of a Trie come in any order. *)
InsertKey ==
  /\ phase = "fill"
  /\ \E w \in DOMAIN dict :
       /\ Append(w, 0) \notin DOMAIN trie
       /\ trie' = Add(trie, w, dict[w])
  /\ UNCHANGED << dict, format, todo, array, phase, file >>

Build ==
  /\ phase = "fill" /\ \A w \in DOMAIN dict : Append(w, 0) \in DOMAIN trie
  /\ phase' = "build"
  /\ UNCHANGED << dict, trie, format, todo, array, file >>

ChildSize(p) == Cardinality(Kids(p))

Row == Head(todo)
Reading == phase = "build" /\ format # "trie" /\ todo # <<>>

(* insert_sorted of a word: the row is 'p'. *)
InsertWord ==
  /\ Reading /\ Row \in DOMAIN dict
  /\ \E e \in Grown(elm, cur + 1) :
       IF ChildSize(Row) > 0
         THEN \E f \in Grown(e, offset + 1) :
                /\ elm' = [f EXCEPT ![cur] = Elm(LastChar(Row), offset, ChildSize(Row)),
                                    ![offset] = Elm(0, dict[Row], 0)]
                /\ offset' = offset + ChildSize(Row)
                /\ size' = size
         ELSE /\ elm' = [e EXCEPT ![cur] = Elm(LastChar(Row), dict[Row], 0)]
              /\ offset' = offset
              /\ size' = size + 1
  /\ cur' = cur + 1
  /\ todo' = Tail(todo)
  /\ UNCHANGED << dict, trie, format, phase, file >>

(* insert_sorted of a prefix: the row is 'c'. *)
InsertPrefix ==
  /\ Reading /\ Row \notin DOMAIN dict /\ ChildSize(Row) > 0
  /\ \E e \in Grown(elm, cur + 1) :
       elm' = [e EXCEPT ![cur] = Elm(LastChar(Row), offset, ChildSize(Row))]
  /\ offset' = offset + ChildSize(Row)
  /\ cur' = cur + 1
  /\ todo' = Tail(todo)
  /\ UNCHANGED << dict, trie, format, size, phase, file >>

PassTerminatorInPlace ==
  /\ Reading /\ Row \notin DOMAIN dict /\ ChildSize(Row) = 0
  /\ size' = size + 1
  /\ todo' = Tail(todo)
  /\ UNCHANGED << dict, trie, format, elm, offset, cur, phase, file >>

(* insert_sorted of a 0: the row is 'd'; its element is written already. *)
PassTerminator ==
  /\ Reading /\ Row \notin DOMAIN dict /\ ChildSize(Row) = 0
  /\ cur' = cur + 1
  /\ size' = size + 1
  /\ todo' = Tail(todo)
  /\ UNCHANGED << dict, trie, format, elm, offset, phase, file >>

(* One turn of the loop of build(Trie). *)
BuildNode ==
  /\ phase = "build" /\ format = "trie" /\ todo # <<>>
  /\ LET top  == Head(todo)
         p    == top.node
         kids == SortedKids(p)
     IN  /\ \E e \in Grown(elm, top.slot + 1) :
              elm' = [e EXCEPT ![top.slot] =
                        IF kids = <<>> THEN Elm(LastChar(p), dict[Front(p)], 0)
                        ELSE Elm(LastChar(p), offset, Len(kids))]
         /\ todo' = Tail(todo) \o
              [k \in 1 .. Len(kids) |-> [node |-> kids[k], slot |-> offset + k - 1]]
         /\ offset' = offset + Len(kids)
         /\ size' = IF kids = <<>> THEN size + 1 ELSE size
  /\ UNCHANGED << dict, trie, format, cur, phase, file >>

Finish ==
  /\ phase = "build" /\ todo = <<>>
  /\ phase' = "ready"
  /\ UNCHANGED << dict, trie, format, todo, array, file >>

-----------------------------------------------------------------------------
(* The largest index whose element looks free: save keeps the array up to it. *)
LooksFree(x) == x.key = 0 /\ x.word = 0

LastFree(e) == Max({i \in DOMAIN e : LooksFree(e[i])})

(* save writes the head.  An empty array is not saved; the write may fail, *)
(* which save only prints.                                                 *)
SaveHead ==
  /\ phase = "ready" /\ size # 0
  /\ \E i \in DOMAIN elm : LooksFree(elm[i])
  /\ \E written \in BOOLEAN :
       file' = [head |-> written, count |-> LastFree(elm) + 1,
                elms |-> << >>, failed |-> ~written]
  /\ phase' = "save"
  /\ UNCHANGED << dict, trie, format, todo, array >>

(* One write of its loop takes some of the elements that are left. *)
WrittenAgain(n) == [k \in 1 .. n |-> elm[k - 1]]

Written(n) == [k \in 1 .. n |-> elm[Len(file.elms) + k - 1]]

WriteSome ==
  /\ phase = "save"
  /\ \E n \in 1 .. file.count - Len(file.elms) :
       /\ file' = [file EXCEPT !.elms = @ \o Written(n)]
       /\ phase' = IF Len(file.elms) + n = file.count THEN "saved" ELSE "save"
  /\ UNCHANGED << dict, trie, format, todo, array >>

(* A write that fails ends the loop; save returns true all the same. *)
WriteFails ==
  /\ phase = "save"
  /\ file' = [file EXCEPT !.failed = TRUE]
  /\ phase' = "saved"
  /\ UNCHANGED << dict, trie, format, todo, array >>

(* TrieUtility::dynamic_load: a new BufferTrie on the file, of which load  *)
(* looks at the head only.                                                 *)
Load ==
  /\ phase = "saved" /\ file.head
  /\ elm' = [k \in 0 .. Len(file.elms) - 1 |-> file.elms[k + 1]]
  /\ offset' = 1 /\ cur' = 0
  /\ phase' = "loaded"
  /\ UNCHANGED << dict, trie, format, todo, size, file >>

Next == InsertKey \/ Build \/ InsertWord \/ InsertPrefix \/ PassTerminator
        \/ BuildNode \/ Finish \/ SaveHead \/ WriteSome \/ WriteFails \/ Load

Spec == Init /\ [][Next]_vars

-----------------------------------------------------------------------------
Spans == {s \in (DOMAIN elm) \X (DOMAIN elm) : s[1] <= s[2]}
Middle(s) == (s[1] + s[2]) \div 2

BinarySearchUnchecked(lo, hi, key) ==
  LET find[s \in Spans] ==
        IF s[1] = s[2] THEN s[1]
        ELSE IF elm[Middle(s)].key = key THEN Middle(s)
        ELSE IF elm[Middle(s)].key > key THEN find[<< s[1], Middle(s) >>]
        ELSE find[<< Middle(s) + 1, s[2] >>]
  IN  find[<< lo, hi >>]

(* __binary_search in elm[lo .. hi] for a key; -1 if it is not there. *)
BinarySearch(lo, hi, key) ==
  LET find[s \in Spans] ==
        IF s[1] = s[2] THEN (IF elm[s[1]].key = key THEN s[1] ELSE -1)
        ELSE IF elm[Middle(s)].key = key THEN Middle(s)
        ELSE IF elm[Middle(s)].key > key THEN find[<< s[1], Middle(s) >>]
        ELSE find[<< Middle(s) + 1, s[2] >>]
  IN  find[<< lo, hi >>]

(* From an element to its child of a key, -1 if it has none. *)
Child(i, key) ==
  IF i = -1 \/ elm[i].size = 0 THEN -1
  ELSE BinarySearch(elm[i].word, elm[i].word + elm[i].size - 1, key)

(* The element reached after k characters of the text. *)
Reached(text) ==
  LET at[k \in 0 .. Len(text)] == IF k = 0 THEN 0 ELSE Child(at[k - 1], text[k])
  IN  at

Leaf(i) == elm[i].size = 0

(* Where the value of an element is: in itself or in its first child. *)
ValueAt(i) == IF Leaf(i) THEN i ELSE elm[i].word
HasValue(i) == i # -1 /\ Leaf(ValueAt(i))

(* The value of a key that ends in 0 is in a first child of key 0. *)
Closed(i) == i # -1 /\ elm[elm[i].word].key = 0 /\ Leaf(elm[i].word)

Taken(text, accepts(_), room) ==
  LET at   == Reached(text)
      hits == Ascending({k \in 1 .. Len(text) : accepts(at[k])})
  IN  [i \in 1 .. (IF Len(hits) < room THEN Len(hits) ELSE room) |->
         [len |-> hits[i], val |-> elm[ValueAt(at[hits[i]])].word]]

(* multi_nmatch: lengths and values of the keys the text begins with.  It  *)
(* comes three times: for values, for ids, and for wide characters, of     *)
(* which only the lower half makes the key.                                *)
MultiNMatch(text, room) == Taken(text, HasValue, room)

MultiNMatchIds(text, room) == Taken(text, HasValue, room)

MultiNMatchWide(text, room) ==
  Taken([k \in DOMAIN text |-> text[k] % Width], HasValue, room)

(* nget and nfind: the value or the id of a key, -1 if it is not one. *)
NGet(key) ==
  LET i == Reached(key)[Len(key)] IN IF HasValue(i) THEN elm[ValueAt(i)].word ELSE -1

NFind(key) ==
  LET i == Reached(key)[Len(key)] IN IF HasValue(i) THEN elm[ValueAt(i)].word ELSE -1

(* verify_core: the words of the file whose value is not found. *)
Faulty == {w \in DOMAIN dict : NGet(w) # dict[w]}

(* max_nmatch of an array of closed keys: the longest key the text begins  *)
(* with.                                                                   *)
MaxNMatch(text) ==
  LET hits == Taken(text, Closed, Len(text))
  IN  IF hits = <<>> THEN <<>> ELSE << Last(hits) >>

(* The same for a text that ends with a 0. *)
UpToZero(text) ==
  SubSeq(text, 1, Min({k \in 1 .. Len(text) : text[k] = 0}) - 1)

FindZ(text) ==
  LET key == UpToZero(text)
      i   == Reached(key)[Len(key)]
  IN  IF Closed(i) THEN elm[elm[i].word].word ELSE -1

MaxMatch(text) == MaxNMatch(UpToZero(text))

MultiMatch(text, room) == Taken(UpToZero(text), Closed, room)

(* pairwise_nmatch: the two character keys with a first character out of   *)
(* one column and a second one out of another, as values and positions.    *)
UpTo(s, room) == SubSeq(s, 1, IF Len(s) < room THEN Len(s) ELSE room)

RowByRow(x, y) == x[1] < y[1] \/ (x[1] = y[1] /\ x[2] < y[2])

PairwiseNMatch(first, second, room) ==
  LET one == UpTo(Ascending({m \in DOMAIN first : Child(0, first[m]) > 0}), room)
      Pair(x) == Child(Child(0, first[x[1]]), second[x[2]])
      two == UpTo(Sorted({x \in ToSet(one) \X (DOMAIN second) : Pair(x) > 0}, RowByRow), room)
      hit == Sorted({x \in ToSet(two) : HasValue(Pair(x))}, RowByRow)
  IN  [k \in DOMAIN hit |-> [idx |-> hit[k], val |-> elm[ValueAt(Pair(hit[k]))].word]]

-----------------------------------------------------------------------------
(* The head fields are naturals, the array is one piece and has no element  *)
(* that realloc gave and nobody set.                                       *)
TypeOK ==
  /\ dict \in Dicts /\ format \in {"compact", "terminated", "trie"}
  /\ DOMAIN elm = 0 .. Cardinality(DOMAIN elm) - 1
  /\ \A i \in DOMAIN elm : elm[i] \in [key : Nat, word : Nat, size : Nat]
  /\ size \in Nat /\ offset \in Nat /\ cur \in Nat
  /\ phase \in {"fill", "build", "ready", "save", "saved", "loaded"}
  /\ \A p \in DOMAIN trie : trie[p] \in Nat \cup {-1}
  /\ Len(file.elms) <= file.count

(* The array is grown so early that its last element is always free: save  *)
(* scans for a free element from the end with an unsigned index that would *)
(* never become negative.                                                  *)
LastSlotFree ==
  phase # "loaded" /\ elm # << >> => LooksFree(elm[Max(DOMAIN elm)])

(* Rows and nodes come in the order in which their elements were reserved: *)
(* what a row has written, its own element or the value of a word that     *)
(* goes on, no later row writes over.                                      *)
KeepsWritten ==
  [][ phase = "build" =>
        \A i \in DOMAIN elm : elm[i] # Free => elm'[i] = elm[i] ]_vars

(* The keys the text begins with, and what else multi_nmatch reports: a    *)
(* path that is no word, but whose first child is a leaf, for that leaf.   *)
FirstChild(p) == SortedKids(p)[1]
ChildIsLeaf(p) == Kids(p) # {} /\ Kids(FirstChild(p)) = {}

ValueOf(p) ==
  IF p \in DOMAIN dict THEN dict[p]
  ELSE IF p \in Paths(dict) /\ ChildIsLeaf(p) THEN dict[FirstChild(p)]
  ELSE -1

Begins(text, has(_)) ==
  LET hits == Ascending({k \in 1 .. Len(text) : has(SubSeq(text, 1, k))})
  IN  [i \in 1 .. Len(hits) |-> [len |-> hits[i], val |-> ValueOf(SubSeq(text, 1, hits[i]))]]

(* The pairs of a character of a and one of b that ValueOf knows.           *)
Pairs(a, b) ==
  LET val(x) == ValueOf(<< a[x[1]], b[x[2]] >>)
      hit == Sorted({x \in (DOMAIN a) \X (DOMAIN b) : val(x) # -1}, RowByRow)
  IN  [k \in DOMAIN hit |-> [idx |-> hit[k], val |-> val(hit[k])]]

(* The array as it was laid out, or as it was loaded from a file whose     *)
(* writes did not fail.                                                    *)
Whole == phase = "ready" \/ (phase = "loaded" /\ ~file.failed)

(* Whatever the file or Trie held, wherever the array was moved to, and    *)
(* again after saving and loading it, multi_nmatch reports every key the   *)
(* text begins with, shortest first and with its value, as many as there   *)
(* is room for; nget and nfind find every key and pairwise_nmatch every    *)
(* key of two characters.  Besides the keys they know only the first       *)
(* leaves of ValueOf.  In an array built from a Trie, every key of which   *)
(* ends in 0, find, max_match and multi_match know the keys and no others. *)
ArrayExact ==
  Whole =>
    \A text \in Texts :
      LET all  == Begins(text, LAMBDA p : ValueOf(p) # -1)
          keys == Begins(text, LAMBDA p : p \in DOMAIN dict)
          last == IF keys = <<>> THEN <<>> ELSE << Last(keys) >>
          z    == text \o << 0, 1 >>
      IN  /\ \A room \in {1, Len(text)} :
               /\ MultiNMatch(text, room) = UpTo(all, room)
               /\ MultiNMatchIds(text, room) = UpTo(all, room)
               /\ MultiNMatchWide([k \in DOMAIN text |-> text[k] + Width], room)
                    = UpTo(all, room)
          /\ NGet(text) = ValueOf(text) /\ NFind(text) = ValueOf(text)
          /\ Faulty = {}
          /\ \A k \in 0 .. Len(text) :
               LET a == SubSeq(text, 1, k)
                   b == SubSeq(text, k + 1, Len(text))
               IN  PairwiseNMatch(a, b, Len(text) * Len(text)) = Pairs(a, b)
          /\ format = "trie" =>
               /\ MaxNMatch(text) = last /\ MaxMatch(z) = last
               /\ MultiMatch(z, 1) = UpTo(keys, 1) /\ MultiMatch(z, Len(z)) = keys
               /\ FindZ(z) = (IF text \in DOMAIN dict THEN dict[text] ELSE -1)

(* While words are added to a Trie, in any order, find knows the ids of    *)
(* those that are there and -1 for every other text, the beginnings and    *)
(* the continuations of words too.                                         *)
TrieExact ==
  phase = "fill" =>
    \A text \in Texts :
      Find(trie, text) = IF Append(text, 0) \in DOMAIN trie THEN dict[text] ELSE -1

(* Every lookup answers what the dictionary says: in a Trie that is being  *)
(* filled, in the array laid out from it or from the rows of a file, and   *)
(* in the array loaded from what save has written.                         *)
LookupsExact == ArrayExact /\ TrieExact

(* However the writes of save are cut, the elements on the file are those  *)
(* of the array, in place; if no write failed, every element that was laid *)
(* out is there, the values that look like free elements (the log-count 0  *)
(* of a word that occurs once) too.                                        *)
SavedComplete ==
  phase \in {"save", "saved"} =>
    /\ \A k \in 1 .. Len(file.elms) : file.elms[k] = elm[k - 1]
    /\ phase = "saved" /\ ~file.failed => Len(file.elms) >= Cardinality(Nodes)

=============================================================================
