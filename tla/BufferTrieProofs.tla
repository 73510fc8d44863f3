-------------------------- MODULE BufferTrieProofs --------------------------
(***************************************************************************)
(* Whichever dictionary is laid out, from the rows of a file or from a     *)
(* Trie filled in any order, and however realloc grows the array: every    *)
(* node comes to an element of its own, nothing is written over, the last  *)
(* element stays free, and a file that was saved without an error holds    *)
(* an element for every node.  From there on: which element a node comes   *)
(* to and what is in it (Image), that every step keeps this (Contents),    *)
(* and that every lookup therefore answers what the dictionary says.       *)
(***************************************************************************)
EXTENDS BufferTrie, FiniteSetTheorems, SequenceTheorems, WellFoundedInduction, TLAPS

-----------------------------------------------------------------------------
(* A finite set in the order of a relation, given as a set of pairs.       *)
Orders(R, S) ==
  /\ \A x \in S : << x, x >> \notin R
  /\ \A x, y \in S : x # y => << x, y >> \in R \/ << y, x >> \in R
  /\ \A x, y, z \in S : << x, y >> \in R /\ << y, z >> \in R => << x, z >> \in R

Lower(S, R, x) == {y \in S : << y, x >> \in R}
Place(S, R, x) == Cardinality(Lower(S, R, x))

(* The members of the set by their places. *)
Lists(s, S, R) ==
  /\ s \in Seq(S) /\ Len(s) = Cardinality(S) /\ Cardinality(S) \in Nat
  /\ \A k \in 1 .. Len(s) : s[k] \in S /\ Place(S, R, s[k]) = k - 1
  /\ \A x \in S : Place(S, R, x) + 1 \in 1 .. Len(s) /\ s[Place(S, R, x) + 1] = x

LEMMA PlaceGrows ==
  ASSUME NEW S, NEW R, Orders(R, S), IsFiniteSet(S), NEW x \in S
  PROVE  /\ Place(S, R, x) \in Nat /\ Place(S, R, x) < Cardinality(S) /\ Cardinality(S) \in Nat
         /\ \A y \in S : << x, y >> \in R => Place(S, R, x) < Place(S, R, y)
<1>1. ASSUME NEW T, IsFiniteSet(T), Lower(S, R, x) \cup {x} \subseteq T, T \subseteq S
      PROVE  Place(S, R, x) \in Nat /\ Place(S, R, x) < Cardinality(T)
  <2>1. Lower(S, R, x) \subseteq S /\ x \notin Lower(S, R, x)
    BY DEF Lower, Orders
  <2>2. IsFiniteSet(Lower(S, R, x)) /\ Cardinality(Lower(S, R, x)) \in Nat
    BY <2>1, FS_Subset, FS_CardinalityType
  <2>3. Cardinality(Lower(S, R, x) \cup {x}) = Cardinality(Lower(S, R, x)) + 1
    BY <2>1, <2>2, FS_AddElement
  <2>4. Cardinality(Lower(S, R, x) \cup {x}) <= Cardinality(T) /\ Cardinality(T) \in Nat
    BY <1>1, FS_Subset, FS_CardinalityType
  <2> QED
    BY <2>2, <2>3, <2>4 DEF Place
<1>2. Lower(S, R, x) \cup {x} \subseteq S /\ Cardinality(S) \in Nat
  BY FS_CardinalityType DEF Lower
<1>3. ASSUME NEW y \in S, << x, y >> \in R
      PROVE  Place(S, R, x) < Place(S, R, y)
  <2>1. Lower(S, R, x) \cup {x} \subseteq Lower(S, R, y) /\ Lower(S, R, y) \subseteq S
    BY <1>3 DEF Lower, Orders
  <2>2. IsFiniteSet(Lower(S, R, y))
    BY <2>1, FS_Subset
  <2> QED
    BY <1>1, <2>1, <2>2 DEF Place
<1>4. Place(S, R, x) \in Nat /\ Place(S, R, x) < Cardinality(S)
  BY <1>1, <1>2
<1> QED
  BY <1>2, <1>3, <1>4

LEMMA FunctionSeq ==
  ASSUME NEW S, NEW n \in Nat, NEW s \in [1 .. n -> S]
  PROVE  s \in Seq(S) /\ Len(s) = n
OBVIOUS

(* Every member has its place, and every place its member. *)
LEMMA Listing ==
  ASSUME NEW S, NEW R, Orders(R, S), IsFiniteSet(S),
         NEW s, s = [k \in 1 .. Cardinality(S) |->
                       CHOOSE x \in S : Place(S, R, x) = k - 1]
  PROVE  Lists(s, S, R)
<1> DEFINE at == [x \in S |-> Place(S, R, x)]
<1>1. PICK n : n = Cardinality(S)
  OBVIOUS
<1>2. n \in Nat /\ \A x \in S : Place(S, R, x) \in 0 .. n - 1
  <2>1. n \in Nat
    BY <1>1, FS_CardinalityType
  <2>2. ASSUME NEW x \in S
        PROVE  Place(S, R, x) \in Nat /\ Place(S, R, x) < n
    BY <1>1, PlaceGrows
  <2> QED
    BY <2>1, <2>2
<1>3. ASSUME NEW x \in S, NEW y \in S, Place(S, R, x) = Place(S, R, y)
      PROVE  x = y
  <2> SUFFICES ASSUME x # y PROVE FALSE
    OBVIOUS
  <2>1. << x, y >> \in R \/ << y, x >> \in R
    BY DEF Orders
  <2>2. /\ << x, y >> \in R => Place(S, R, x) < Place(S, R, y)
        /\ << y, x >> \in R => Place(S, R, y) < Place(S, R, x)
    BY PlaceGrows
  <2>3. Place(S, R, x) \in Int /\ Place(S, R, y) \in Int
    BY <1>2
  <2> QED
    BY <1>3, <2>1, <2>2, <2>3
<1>4. at \in Injection(S, 0 .. n - 1)
  BY <1>2, <1>3 DEF Injection, IsInjective
<1>5. IsFiniteSet(0 .. n - 1) /\ Cardinality(0 .. n - 1) = n
  <2>1. 0 \in Int /\ n - 1 \in Int /\ (0 > n - 1 => n = 0) /\ n - 1 - 0 + 1 = n
    BY <1>2
  <2> QED
    BY <2>1, FS_Interval
<1>6. at \in Surjection(S, 0 .. n - 1)
  BY <1>1, <1>4, <1>5, FS_Injection
<1>7. \A k \in 0 .. n - 1 : \E x \in S : Place(S, R, x) = k
  BY <1>6 DEF Surjection
<1>8. s = [k \in 1 .. n |-> s[k]]
  BY <1>1
<1>9. ASSUME NEW k \in 1 .. n
      PROVE  s[k] \in S /\ Place(S, R, s[k]) = k - 1
  <2>1. PICK x \in S : Place(S, R, x) = k - 1
    BY <1>2, <1>7
  <2>2. s[k] = CHOOSE y \in S : Place(S, R, y) = k - 1
    BY <1>1
  <2> QED
    BY <2>1, <2>2
<1>10. s \in Seq(S) /\ Len(s) = n
  <2>1. \A k \in 1 .. n : s[k] \in S
    BY <1>9
  <2>2. s \in [1 .. n -> S]
    BY <1>8, <2>1
  <2> QED
    BY <1>2, <2>2, FunctionSeq
<1>11. ASSUME NEW x \in S
       PROVE  Place(S, R, x) + 1 \in 1 .. n /\ s[Place(S, R, x) + 1] = x
  <2>1. PICK k : k = Place(S, R, x) + 1
    OBVIOUS
  <2>2. k \in 1 .. n /\ k - 1 = Place(S, R, x)
    BY <1>2, <2>1
  <2>3. s[k] \in S /\ Place(S, R, s[k]) = k - 1
    BY <1>9, <2>2
  <2> QED
    BY <1>3, <2>1, <2>2, <2>3
<1> QED
  BY <1>1, <1>2, <1>9, <1>10, <1>11 DEF Lists

-----------------------------------------------------------------------------
(* Words and paths: sequences of characters. *)
LEMMA FrontIs ==
  ASSUME NEW s \in Seq(Nat), s # <<>>
  PROVE  /\ Front(s) \in Seq(Nat) /\ Len(s) \in Nat \ {0} /\ Len(Front(s)) = Len(s) - 1
         /\ \A k \in 1 .. Len(s) - 1 : Front(s)[k] = s[k]
         /\ Last(s) \in Nat /\ Last(s) = s[Len(s)]
<1>1. Len(s) \in Nat \ {0}
  BY EmptySeq
<1>2. PICK n : n = Len(s) - 1
  OBVIOUS
<1>3. n \in Nat /\ 1 <= n + 1 /\ \A k \in 1 .. n : s[k] \in Nat
  <2>1. n \in Nat /\ n + 1 = Len(s)
    BY <1>1, <1>2
  <2>2. \A k \in 1 .. n : k \in 1 .. Len(s)
    BY <2>1
  <2> QED
    BY <2>1, <2>2, ElementOfSeq
<1>4. /\ SubSeq(s, 1, n) \in Seq(Nat)
      /\ Len(SubSeq(s, 1, n)) = IF 1 <= n THEN n - 1 + 1 ELSE 0
      /\ \A k \in 1 .. n - 1 + 1 : SubSeq(s, 1, n)[k] = s[1 + k - 1]
  BY <1>3, SubSeqProperties
<1>5. Front(s) = SubSeq(s, 1, n)
  BY <1>2 DEF Front
<1>6. Len(Front(s)) = n /\ \A k \in 1 .. n : Front(s)[k] = s[k]
  BY <1>3, <1>4, <1>5
<1>7. Last(s) \in Nat /\ Last(s) = s[Len(s)]
  BY <1>1, ElementOfSeq DEF Last
<1> QED
  BY <1>1, <1>2, <1>4, <1>5, <1>6, <1>7

LEMMA AppendIs ==
  ASSUME NEW s \in Seq(Nat), NEW c \in Nat
  PROVE  /\ Append(s, c) \in Seq(Nat) /\ Len(Append(s, c)) = Len(s) + 1 /\ Len(s) \in Nat
         /\ \A k \in 1 .. Len(s) : Append(s, c)[k] = s[k]
         /\ Append(s, c)[Len(s) + 1] = c
         /\ Append(s, c) # <<>> /\ Front(Append(s, c)) = s /\ Last(Append(s, c)) = c
BY DEF Front, Last

LEMMA PrefixIs ==
  ASSUME NEW s \in Seq(Nat), NEW t \in Seq(Nat)
  PROVE  /\ IsPrefix(s, t) <=> Len(s) <= Len(t) /\ \A k \in 1 .. Len(s) : s[k] = t[k]
         /\ Len(s) \in Nat /\ Len(t) \in Nat
<1>1. Len(s) \in Nat /\ Len(t) \in Nat
  OBVIOUS
<1>2. ASSUME Len(s) <= Len(t)
      PROVE  SubSeq(s, 1, Len(s)) = SubSeq(t, 1, Len(s))
             <=> \A k \in 1 .. Len(s) : s[k] = t[k]
  <2>1. SubSeq(s, 1, Len(s)) = s
    BY SubSeqFull
  <2>2. PICK u, n : u = SubSeq(t, 1, n) /\ n = Len(s)
    OBVIOUS
  <2>3. \A k \in 1 .. n : t[k] \in Nat
    <3>1. \A k \in 1 .. n : k \in 1 .. Len(t)
      BY <1>1, <1>2, <2>2
    <3> QED
      BY <3>1, ElementOfSeq
  <2>4. u \in Seq(Nat) /\ Len(u) = n /\ \A k \in 1 .. n : u[k] = t[k]
    <3>1. /\ u \in Seq(Nat) /\ Len(u) = IF 1 <= n THEN n - 1 + 1 ELSE 0
          /\ \A k \in 1 .. n - 1 + 1 : u[k] = t[1 + k - 1]
      <4>1. 1 \in Int /\ n \in Int
        BY <1>1, <2>2
      <4> QED
        BY <2>2, <2>3, <4>1, SubSeqProperties
    <3> QED
      BY <1>1, <2>2, <3>1
  <2>5. s = u <=> \A k \in 1 .. n : s[k] = u[k]
    BY <2>2, <2>4, SeqEqual
  <2> QED
    BY <2>1, <2>2, <2>4, <2>5
<1> QED
  BY <1>1, <1>2 DEF IsPrefix

LEMMA PrefixesAre ==
  ASSUME NEW t \in Seq(Nat)
  PROVE  /\ Prefixes(t) \subseteq Seq(Nat) /\ <<>> \in Prefixes(t) /\ t \in Prefixes(t)
         /\ \A s \in Seq(Nat) : s \in Prefixes(t) <=> IsPrefix(s, t)
BY DEF Prefixes, IsPrefix

(* Two sequences that are not the same differ somewhere first. *)
LEMMA Differ ==
  ASSUME NEW a \in Seq(Nat), NEW b \in Seq(Nat), Len(a) = Len(b), a # b
  PROVE  \E k \in 1 .. Len(a) : a[k] # b[k] /\ \A j \in 1 .. k - 1 : a[j] = b[j]
<1>1. PICK l \in 1 .. Len(a) : a[l] # b[l]
  BY SeqEqual
<1> DEFINE off == {k \in Nat : k \in 1 .. Len(a) /\ a[k] # b[k]}
<1>2. off \subseteq Nat /\ off # {}
  BY <1>1
<1>3. PICK k \in off : \A j \in off : ~(<< j, k >> \in OpToRel(<, Nat))
  BY <1>2, NatLessThanWellFounded, WFMin
<1>4. ASSUME NEW j \in 1 .. k - 1
      PROVE  a[j] = b[j]
  <2>1. j \in Nat /\ j < k /\ j \in 1 .. Len(a)
    OBVIOUS
  <2>2. j \notin off
    BY <1>3, <2>1 DEF OpToRel
  <2> QED
    BY <2>1, <2>2
<1> QED
  BY <1>3, <1>4

(* Breadth first is an order. *)
LEMMA BeforeTotal ==
  ASSUME NEW a \in Seq(Nat), NEW b \in Seq(Nat), a # b
  PROVE  Before(a, b) \/ Before(b, a)
<1>1. Len(a) \in Nat /\ Len(b) \in Nat
  OBVIOUS
<1>2. CASE Len(a) = Len(b)
  <2>1. PICK k \in 1 .. Len(a) : a[k] # b[k] /\ \A j \in 1 .. k - 1 : a[j] = b[j]
    BY <1>2, Differ
  <2>2. a[k] \in Nat /\ b[k] \in Nat
    BY <1>2
  <2>3. a[k] < b[k] \/ b[k] < a[k]
    BY <2>1, <2>2
  <2> QED
    BY <1>2, <2>1, <2>3 DEF Before
<1> QED
  BY <1>1, <1>2 DEF Before

LEMMA BeforeStrict == ASSUME NEW a \in Seq(Nat) PROVE ~Before(a, a)
<1>1. Len(a) \in Nat /\ \A k \in 1 .. Len(a) : a[k] \in Nat
  OBVIOUS
<1> QED
  BY <1>1 DEF Before

LEMMA BeforeTransitive ==
  ASSUME NEW a \in Seq(Nat), NEW b \in Seq(Nat), NEW c \in Seq(Nat), Before(a, b), Before(b, c)
  PROVE  Before(a, c)
<1>1. Len(a) \in Nat /\ Len(b) \in Nat /\ Len(c) \in Nat
  OBVIOUS
<1>2. CASE Len(a) < Len(b) \/ Len(b) < Len(c)
  BY <1>1, <1>2 DEF Before
<1>3. CASE ~(Len(a) < Len(b)) /\ ~(Len(b) < Len(c))
  <2>1. Len(a) = Len(b) /\ Len(b) = Len(c)
    BY <1>3 DEF Before
  <2>2. PICK k \in 1 .. Len(a) : a[k] < b[k] /\ \A j \in 1 .. k - 1 : a[j] = b[j]
    BY <1>3 DEF Before
  <2>3. PICK l \in 1 .. Len(b) : b[l] < c[l] /\ \A j \in 1 .. l - 1 : b[j] = c[j]
    BY <1>3 DEF Before
  <2>4. \A j \in 1 .. Len(a) : a[j] \in Nat /\ b[j] \in Nat /\ c[j] \in Nat
    <3>1. \A j \in 1 .. Len(a) : j \in 1 .. Len(b) /\ j \in 1 .. Len(c)
      BY <2>1
    <3> QED
      BY <3>1, ElementOfSeq
  <2>5. CASE k < l
    <3>1. k \in 1 .. l - 1 /\ \A j \in 1 .. k - 1 : j \in 1 .. l - 1
      BY <2>5
    <3>2. a[k] < c[k] /\ \A j \in 1 .. k - 1 : a[j] = c[j]
      BY <2>2, <2>3, <3>1
    <3> QED
      BY <2>1, <3>2 DEF Before
  <2>6. CASE l < k
    <3>1. l \in 1 .. k - 1 /\ l \in 1 .. Len(a) /\ \A j \in 1 .. l - 1 : j \in 1 .. k - 1
      BY <2>6
    <3>2. a[l] < c[l] /\ \A j \in 1 .. l - 1 : a[j] = c[j]
      BY <2>2, <2>3, <3>1
    <3> QED
      BY <2>1, <3>1, <3>2 DEF Before
  <2>7. CASE k = l
    <3>1. a[k] < b[k] /\ b[k] < c[k]
      <4>1. a[k] < b[k]
        BY <2>2
      <4>2. b[l] < c[l]
        BY <2>3
      <4> QED
        BY <2>7, <4>1, <4>2
    <3>2. a[k] \in Nat /\ b[k] \in Nat /\ c[k] \in Nat
      <4>1. k \in 1 .. Len(a)
        BY <2>2
      <4> QED
        BY <2>4, <4>1, Zenon
    <3>3. a[k] < c[k]
      BY <3>1, <3>2
    <3>4. \A j \in 1 .. k - 1 : a[j] = c[j]
      BY <2>2, <2>3, <2>7
    <3> QED
      BY <2>1, <2>2, <3>3, <3>4 DEF Before
  <2> QED
    BY <1>1, <2>1, <2>5, <2>6, <2>7
<1> QED
  BY <1>2, <1>3

(* What comes before the closing 0 of a word: the root, and the children   *)
(* of what comes before the word.                                          *)
LEMMA BeforeEnd ==
  ASSUME NEW w \in Seq(Nat), NEW n \in Seq(Nat)
  PROVE  Before(n, Append(w, 0)) <=> n = <<>> \/ Before(Front(n), w)
<1>1. /\ Len(Append(w, 0)) = Len(w) + 1 /\ Len(w) \in Nat /\ Len(n) \in Nat
      /\ \A k \in 1 .. Len(w) : Append(w, 0)[k] = w[k]
      /\ Append(w, 0)[Len(w) + 1] = 0
  BY AppendIs
<1>2. CASE n = <<>>
  BY <1>1, <1>2 DEF Before
<1>3. CASE n # <<>>
  <2>1. PICK f, e : f = Front(n) /\ e = Append(w, 0)
    OBVIOUS
  <2>2. /\ Len(f) = Len(n) - 1 /\ Len(e) = Len(w) + 1
        /\ \A k \in 1 .. Len(n) - 1 : f[k] = n[k]
        /\ \A k \in 1 .. Len(w) : e[k] = w[k]
        /\ e[Len(w) + 1] = 0
    BY <1>1, <1>3, <2>1, FrontIs
  <2>3. CASE Len(n) = Len(e)
    <3>1. ASSUME NEW k \in 1 .. Len(n), n[k] < e[k], \A j \in 1 .. k - 1 : n[j] = e[j]
          PROVE  Before(f, w)
      <4>1. k # Len(w) + 1
        <5>1. n[k] \in Nat
          OBVIOUS
        <5> QED
          BY <2>2, <3>1, <5>1
      <4>2. k \in 1 .. Len(f) /\ k \in 1 .. Len(w) /\ k \in 1 .. Len(n) - 1
        BY <1>1, <2>2, <2>3, <4>1
      <4>3. f[k] < w[k]
        BY <2>2, <3>1, <4>2
      <4>4. \A j \in 1 .. k - 1 : f[j] = w[j]
        <5>1. \A j \in 1 .. k - 1 : j \in 1 .. Len(w) /\ j \in 1 .. Len(n) - 1
          BY <1>1, <4>2
        <5> QED
          BY <2>2, <3>1, <5>1
      <4>5. Len(f) = Len(w)
        BY <1>1, <2>2, <2>3
      <4> QED
        BY <4>2, <4>3, <4>4, <4>5 DEF Before
    <3>2. ASSUME NEW k \in 1 .. Len(f), f[k] < w[k], \A j \in 1 .. k - 1 : f[j] = w[j]
          PROVE  Before(n, e)
      <4>1. k \in 1 .. Len(n) /\ k \in 1 .. Len(w) /\ k \in 1 .. Len(n) - 1
        BY <1>1, <2>2, <2>3
      <4>2. n[k] < e[k]
        BY <2>2, <3>2, <4>1
      <4>3. \A j \in 1 .. k - 1 : n[j] = e[j]
        <5>1. \A j \in 1 .. k - 1 : j \in 1 .. Len(w) /\ j \in 1 .. Len(n) - 1
          BY <1>1, <4>1
        <5> QED
          BY <2>2, <3>2, <5>1
      <4> QED
        BY <2>3, <4>1, <4>2, <4>3 DEF Before
    <3>3. Len(f) = Len(w) /\ ~(Len(f) < Len(w)) /\ ~(Len(n) < Len(e))
      BY <1>1, <2>2, <2>3
    <3>4. Before(n, e) <=> Before(f, w)
      BY <3>1, <3>2, <3>3 DEF Before
    <3> QED
      BY <1>3, <2>1, <3>4
  <2>4. CASE Len(n) # Len(e)
    <3>1. Len(n) < Len(e) <=> Len(f) < Len(w)
      BY <1>1, <2>2
    <3>2. Len(f) # Len(w)
      BY <1>1, <2>2, <2>4
    <3> QED
      BY <1>3, <2>1, <2>4, <3>1, <3>2 DEF Before
  <2> QED
    BY <2>3, <2>4
<1> QED
  BY <1>2, <1>3

-----------------------------------------------------------------------------
(* The nodes of a dictionary are a tree; a child is one character longer.  *)
KidsOf(N, p) == {n \in N : Len(n) = Len(p) + 1 /\ IsPrefix(p, n)}

Tree(N) ==
  /\ N \subseteq Seq(Nat) /\ IsFiniteSet(N) /\ <<>> \in N
  /\ \A n \in N : n # <<>> => Front(n) \in N

LEMMA KidIs ==
  ASSUME NEW N, N \subseteq Seq(Nat), NEW p \in Seq(Nat), NEW n \in N
  PROVE  n \in KidsOf(N, p) <=> n # <<>> /\ Front(n) = p
<1>1. n \in Seq(Nat) /\ Len(n) \in Nat /\ Len(p) \in Nat
  OBVIOUS
<1>2. ASSUME n \in KidsOf(N, p)
      PROVE  n # <<>> /\ Front(n) = p
  <2>1. Len(n) = Len(p) + 1 /\ \A k \in 1 .. Len(p) : p[k] = n[k]
    BY <1>1, <1>2, PrefixIs DEF KidsOf
  <2>2. n # <<>>
    BY <1>1, <2>1
  <2>3. /\ Front(n) \in Seq(Nat) /\ Len(Front(n)) = Len(n) - 1
        /\ \A k \in 1 .. Len(n) - 1 : Front(n)[k] = n[k]
    BY <1>1, <2>2, FrontIs
  <2>4. Len(n) - 1 = Len(p)
    BY <1>1, <2>1
  <2>5. Len(Front(n)) = Len(p) /\ \A k \in 1 .. Len(p) : Front(n)[k] = p[k]
    BY <2>1, <2>3, <2>4
  <2> QED
    BY <2>2, <2>3, <2>5, SeqEqual
<1>3. ASSUME n # <<>>, Front(n) = p
      PROVE  n \in KidsOf(N, p)
  <2>1. /\ Len(p) = Len(n) - 1 /\ Len(n) \in Nat \ {0}
        /\ \A k \in 1 .. Len(n) - 1 : p[k] = n[k]
    BY <1>3, FrontIs
  <2>2. Len(n) = Len(p) + 1 /\ \A k \in 1 .. Len(p) : p[k] = n[k]
    BY <2>1
  <2>3. IsPrefix(p, n)
    BY <1>1, <2>2, PrefixIs
  <2> QED
    BY <2>2, <2>3 DEF KidsOf
<1> QED
  BY <1>2, <1>3

LEMMA KidsFinite ==
  ASSUME NEW N, IsFiniteSet(N), NEW p
  PROVE  /\ IsFiniteSet(KidsOf(N, p)) /\ KidsOf(N, p) \subseteq N
         /\ Cardinality(KidsOf(N, p)) \in Nat
         /\ Cardinality(KidsOf(N, p)) = 0 <=> KidsOf(N, p) = {}
<1>1. KidsOf(N, p) \subseteq N
  BY DEF KidsOf
<1>2. IsFiniteSet(KidsOf(N, p))
  BY <1>1, FS_Subset
<1> QED
  BY <1>1, <1>2, FS_CardinalityType, FS_EmptySet

(* The order of the rows. *)
BeforeIn(N) == {q \in N \X N : Before(q[1], q[2])}

LEMMA BeforeOrders ==
  ASSUME NEW N, N \subseteq Seq(Nat)
  PROVE  Orders(BeforeIn(N), N)
<1>1. \A x, y \in N : << x, y >> \in BeforeIn(N) <=> Before(x, y)
  BY DEF BeforeIn
<1>2. \A x \in N : ~Before(x, x)
  BY BeforeStrict
<1>3. \A x, y \in N : x # y => Before(x, y) \/ Before(y, x)
  BY BeforeTotal
<1>4. \A x, y, z \in N : Before(x, y) /\ Before(y, z) => Before(x, z)
  BY BeforeTransitive
<1> QED
  BY <1>1, <1>2, <1>3, <1>4 DEF Orders

(* The rows of a file: every node at its place. *)
InOrder(rows, N) == Lists(rows, N, BeforeIn(N))

LEMMA RowsListed ==
  ASSUME NEW d, NEW f, Tree(FileNodes(d, f))
  PROVE  InOrder(Rows(d, f), FileNodes(d, f))
<1>1. PICK N : N = FileNodes(d, f)
  OBVIOUS
<1>2. N \subseteq Seq(Nat) /\ IsFiniteSet(N)
  BY <1>1 DEF Tree
<1>3. \A x \in N : {y \in N : Before(y, x)} = Lower(N, BeforeIn(N), x)
  BY DEF Lower, BeforeIn
<1>4. Rows(d, f) = [k \in 1 .. Cardinality(N) |->
                      CHOOSE x \in N : Cardinality({y \in N : Before(y, x)}) = k - 1]
  BY <1>1 DEF Rows, Sorted
<1>5. \A k \in 1 .. Cardinality(N) :
        (CHOOSE x \in N : Cardinality({y \in N : Before(y, x)}) = k - 1)
          = CHOOSE x \in N : Place(N, BeforeIn(N), x) = k - 1
  BY <1>3 DEF Place
<1>6. Rows(d, f) = [k \in 1 .. Cardinality(N) |->
                      CHOOSE x \in N : Place(N, BeforeIn(N), x) = k - 1]
  BY <1>4, <1>5
<1> QED
  BY <1>1, <1>2, <1>6, BeforeOrders, Listing DEF InOrder

LEMMA RowsPlaced ==
  ASSUME NEW N, Tree(N), NEW rows, InOrder(rows, N)
  PROVE  /\ rows \in Seq(N) /\ Len(rows) = Cardinality(N) /\ Len(rows) \in Nat
         /\ \A k \in 1 .. Len(rows) : rows[k] \in N
         /\ \A k, l \in 1 .. Len(rows) : rows[k] = rows[l] => k = l
         /\ \A n \in N : \E k \in 1 .. Len(rows) : rows[k] = n
         /\ \A k, l \in 1 .. Len(rows) : Before(rows[k], rows[l]) <=> k < l
<1> DEFINE P(x) == Place(N, BeforeIn(N), x)
<1>1. /\ rows \in Seq(N) /\ Len(rows) = Cardinality(N) /\ Len(rows) \in Nat
      /\ \A k \in 1 .. Len(rows) : rows[k] \in N /\ P(rows[k]) = k - 1
      /\ \A n \in N : P(n) + 1 \in 1 .. Len(rows) /\ rows[P(n) + 1] = n
  BY DEF InOrder, Lists
<1>2. \A k, l \in 1 .. Len(rows) : rows[k] = rows[l] => k = l
  <2> SUFFICES ASSUME NEW k \in 1 .. Len(rows), NEW l \in 1 .. Len(rows), rows[k] = rows[l]
               PROVE  k = l
    OBVIOUS
  <2>1. k - 1 = l - 1
    BY <1>1
  <2> QED
    BY <2>1
<1>3. ASSUME NEW k \in 1 .. Len(rows), NEW l \in 1 .. Len(rows), Before(rows[k], rows[l])
      PROVE  k < l
  <2>1. << rows[k], rows[l] >> \in BeforeIn(N)
    BY <1>1, <1>3 DEF BeforeIn
  <2>2. Orders(BeforeIn(N), N) /\ IsFiniteSet(N)
    BY BeforeOrders DEF Tree
  <2>3. P(rows[k]) < P(rows[l])
    BY <1>1, <2>1, <2>2, PlaceGrows
  <2>4. P(rows[k]) = k - 1 /\ P(rows[l]) = l - 1
    BY <1>1
  <2> QED
    BY <2>3, <2>4
<1>4. ASSUME NEW k \in 1 .. Len(rows), NEW l \in 1 .. Len(rows), k < l
      PROVE  Before(rows[k], rows[l])
  <2>1. rows[k] # rows[l] /\ ~Before(rows[l], rows[k])
    BY <1>2, <1>3, <1>4
  <2>2. rows[k] \in Seq(Nat) /\ rows[l] \in Seq(Nat)
    BY <1>1 DEF Tree
  <2> QED
    BY <2>1, <2>2, BeforeTotal
<1>5. \A n \in N : \E k \in 1 .. Len(rows) : rows[k] = n
  BY <1>1
<1> QED
  BY <1>1, <1>2, <1>3, <1>4, <1>5

(* The children of the first c rows.  The row that closes row c + 1 comes  *)
(* right behind the root and them: this is where its value was written.    *)
Behind(N, rows, c) == {n \in N : n # <<>> /\ \E k \in 1 .. c : rows[k] = Front(n)}

LEMMA BehindNext ==
  ASSUME NEW N, Tree(N), NEW rows, InOrder(rows, N), NEW c \in Nat, c < Len(rows)
  PROVE  /\ Cardinality(Behind(N, rows, c)) \in Nat
         /\ Cardinality(Behind(N, rows, c + 1))
              = Cardinality(Behind(N, rows, c)) + Cardinality(KidsOf(N, rows[c + 1]))
<1>1. N \subseteq Seq(Nat) /\ IsFiniteSet(N)
  BY DEF Tree
<1>2. Len(rows) \in Nat /\ c + 1 \in 1 .. Len(rows) /\ rows[c + 1] \in N
  <2>1. Len(rows) \in Nat /\ \A k \in 1 .. Len(rows) : rows[k] \in N
    BY RowsPlaced
  <2>2. c + 1 \in 1 .. Len(rows)
    BY <2>1
  <2> QED
    BY <2>1, <2>2
<1> DEFINE old == Behind(N, rows, c)
           kids == KidsOf(N, rows[c + 1])
<1>3. \A n \in N : n \in kids <=> n # <<>> /\ Front(n) = rows[c + 1]
  BY <1>1, <1>2, KidIs
<1>4. Behind(N, rows, c + 1) = old \cup kids
  <2>1. \A k : k \in 1 .. c + 1 <=> k \in 1 .. c \/ k = c + 1
    BY <1>2
  <2>2. kids \subseteq N
    BY DEF KidsOf
  <2> HIDE DEF kids
  <2> QED
    BY <1>3, <2>1, <2>2 DEF Behind
<1>5. old \cap kids = {}
  <2> SUFFICES ASSUME NEW n \in old, n \in kids PROVE FALSE
    OBVIOUS
  <2>1. PICK k \in 1 .. c : rows[k] = Front(n)
    BY DEF Behind
  <2>2. Front(n) = rows[c + 1] /\ k \in 1 .. Len(rows) /\ k # c + 1
    BY <1>2, <1>3 DEF Behind
  <2> QED
    BY <1>2, <2>1, <2>2, RowsPlaced
<1>6. IsFiniteSet(old) /\ IsFiniteSet(kids)
  <2>1. old \subseteq N
    BY DEF Behind
  <2> QED
    BY <1>1, <2>1, FS_Subset, KidsFinite
<1>7. Cardinality(old) \in Nat /\ Cardinality(kids) \in Nat /\ Cardinality(old \cap kids) = 0
  BY <1>5, <1>6, FS_CardinalityType, FS_EmptySet
<1>8. Cardinality(old \cup kids) = Cardinality(old) + Cardinality(kids) - Cardinality(old \cap kids)
  BY <1>6, FS_Union
<1> HIDE DEF old, kids
<1>9. Cardinality(old \cup kids) = Cardinality(old) + Cardinality(kids)
  BY <1>7, <1>8
<1> QED
  BY <1>4, <1>7, <1>9 DEF old, kids

LEMMA EndPlace ==
  ASSUME NEW N, Tree(N), NEW rows, InOrder(rows, N), NEW c \in Nat, c < Len(rows),
         NEW l \in 1 .. Len(rows), rows[l] = Append(rows[c + 1], 0)
  PROVE  l = 2 + Cardinality(Behind(N, rows, c)) /\ c + 1 < l
<1>1. N \subseteq Seq(Nat) /\ IsFiniteSet(N) /\ <<>> \in N
  BY DEF Tree
<1>2. Len(rows) \in Nat /\ c + 1 \in 1 .. Len(rows) /\ rows[c + 1] \in Seq(Nat)
  <2>1. Len(rows) \in Nat /\ \A k \in 1 .. Len(rows) : rows[k] \in N
    BY RowsPlaced
  <2>2. c + 1 \in 1 .. Len(rows)
    BY <2>1
  <2> QED
    BY <1>1, <2>1, <2>2
<1>3. PICK w, e : w = rows[c + 1] /\ e = Append(w, 0)
  OBVIOUS
<1>4. w \in Seq(Nat) /\ e \in N /\ rows[l] = e
  <2>1. \A k \in 1 .. Len(rows) : rows[k] \in N
    BY RowsPlaced
  <2> QED
    BY <1>2, <1>3, <2>1
<1>5. ASSUME NEW n \in N, n # <<>>
      PROVE  Before(n, e) <=> n \in Behind(N, rows, c)
  <2>1. Front(n) \in N
    BY <1>5 DEF Tree
  <2>2. PICK k \in 1 .. Len(rows) : rows[k] = Front(n)
    BY <2>1, RowsPlaced
  <2>3. Before(n, e) <=> Before(Front(n), w)
    BY <1>1, <1>3, <1>4, <1>5, BeforeEnd
  <2>4. Before(rows[k], rows[c + 1]) <=> k < c + 1
    BY <1>2, RowsPlaced
  <2>5. k < c + 1 <=> \E m \in 1 .. c : rows[m] = Front(n)
    <3>1. k < c + 1 <=> k \in 1 .. c
      BY <1>2
    <3>2. ASSUME NEW m \in 1 .. c, rows[m] = Front(n)
          PROVE  m = k
      <4>1. m \in 1 .. Len(rows) /\ k \in 1 .. Len(rows) /\ rows[m] = rows[k]
        BY <1>2, <2>2, <3>2
      <4>2. \A i, j \in 1 .. Len(rows) : rows[i] = rows[j] => i = j
        BY RowsPlaced
      <4> QED
        BY <4>1, <4>2
    <3> QED
      BY <2>2, <3>1, <3>2
  <2> QED
    BY <1>3, <1>5, <2>2, <2>3, <2>4, <2>5 DEF Behind
<1>6. Before(<<>>, e)
  BY <1>1, <1>3, <1>4, BeforeEnd
<1>7. Lower(N, BeforeIn(N), e) = Behind(N, rows, c) \cup {<<>>}
  <2>1. \A n \in N : << n, e >> \in BeforeIn(N) <=> Before(n, e)
    BY <1>4 DEF BeforeIn
  <2>2. Behind(N, rows, c) \subseteq N
    BY DEF Behind
  <2> QED
    BY <1>1, <1>5, <1>6, <2>1, <2>2 DEF Lower
<1>8. IsFiniteSet(Behind(N, rows, c)) /\ <<>> \notin Behind(N, rows, c)
      /\ Cardinality(Behind(N, rows, c)) \in Nat
  <2>1. Behind(N, rows, c) \subseteq N /\ <<>> \notin Behind(N, rows, c)
    BY DEF Behind
  <2> QED
    BY <1>1, <2>1, FS_Subset, FS_CardinalityType
<1>9. Place(N, BeforeIn(N), e) = Cardinality(Behind(N, rows, c)) + 1
  BY <1>7, <1>8, FS_AddElement DEF Place
<1>10. Place(N, BeforeIn(N), e) = l - 1
  BY <1>4 DEF InOrder, Lists
<1>11. c + 1 < l
  <2>1. Len(w) \in Nat /\ Len(e) = Len(w) + 1
    BY <1>3, <1>4, AppendIs
  <2>2. Before(w, e)
    BY <2>1 DEF Before
  <2> QED
    BY <1>2, <1>3, <1>4, <2>2, RowsPlaced
<1> QED
  BY <1>8, <1>9, <1>10, <1>11

-----------------------------------------------------------------------------
(* The nodes of a file and of a Trie with all words in it. *)
Word(d, w) == w \in DOMAIN d /\ w \in Seq(Nat) /\ \A k \in 1 .. Len(w) : w[k] # 0

LEMMA WordIs == ASSUME NEW d \in Dicts PROVE \A w \in DOMAIN d : Word(d, w) /\ d[w] \in Nat
<1> SUFFICES ASSUME NEW w \in DOMAIN d PROVE Word(d, w) /\ d[w] \in Nat
  OBVIOUS
<1>1. w \in Seq(Nat \ {0}) /\ d[w] \in Nat
  BY DictsAssumption
<1>2. w \in Seq(Nat)
  BY <1>1, SeqMonotonic
<1>3. \A k \in 1 .. Len(w) : w[k] \in Nat \ {0}
  BY <1>1, ElementOfSeq
<1> QED
  BY <1>1, <1>2, <1>3 DEF Word

InFile(d, f, n) ==
  \/ \E w \in DOMAIN d : n \in Seq(Nat) /\ IsPrefix(n, w)
  \/ \E w \in DOMAIN d :
       /\ n = Append(w, 0)
       /\ f # "compact"
          \/ \E v \in DOMAIN d, p \in Seq(Nat) : Len(p) > Len(w) /\ IsPrefix(w, p) /\ IsPrefix(p, v)

LEMMA FileNodesAre ==
  ASSUME NEW d \in Dicts, NEW f, NEW n
  PROVE  n \in FileNodes(d, f) <=> InFile(d, f, n)
<1>1. ASSUME NEW p
      PROVE  p \in Paths(d) <=> \E w \in DOMAIN d : p \in Seq(Nat) /\ IsPrefix(p, w)
  <2>1. ASSUME NEW w \in DOMAIN d
        PROVE  p \in Prefixes(w) <=> p \in Seq(Nat) /\ IsPrefix(p, w)
    <3>1. w \in Seq(Nat)
      BY WordIs DEF Word
    <3> QED
      BY <3>1, PrefixesAre
  <2> QED
    BY <2>1 DEF Paths
<1>2. n \in FileNodes(d, f)
      <=> \/ n \in Paths(d)
          \/ \E w \in DOMAIN d :
               /\ n = Append(w, 0)
               /\ f # "compact" \/ \E p \in Paths(d) : Len(p) > Len(w) /\ IsPrefix(w, p)
  BY DEF FileNodes
<1>3. ASSUME NEW w
      PROVE  (\E p \in Paths(d) : Len(p) > Len(w) /\ IsPrefix(w, p))
             <=> \E v \in DOMAIN d, p \in Seq(Nat) :
                   Len(p) > Len(w) /\ IsPrefix(w, p) /\ IsPrefix(p, v)
  BY <1>1
<1> QED
  BY <1>1, <1>2, <1>3 DEF InFile

LEMMA PathsFinite == ASSUME NEW d \in Dicts PROVE IsFiniteSet(Paths(d))
<1> DEFINE pre == [w \in DOMAIN d |-> Prefixes(w)]
           all == {Prefixes(w) : w \in DOMAIN d}
<1>1. pre \in Surjection(DOMAIN d, all)
  BY DEF Surjection
<1>2. IsFiniteSet(all)
  BY <1>1, DictsAssumption, FS_Surjection
<1>3. ASSUME NEW w \in DOMAIN d
      PROVE  IsFiniteSet(Prefixes(w))
  <2> DEFINE cut == [l \in 0 .. Len(w) |-> SubSeq(w, 1, l)]
  <2>1. cut \in Surjection(0 .. Len(w), Prefixes(w))
    BY DEF Surjection, Prefixes
  <2>2. Len(w) \in Int /\ 0 \in Int
    BY WordIs DEF Word
  <2>3. IsFiniteSet(0 .. Len(w))
    BY <2>2, FS_Interval
  <2> HIDE DEF cut
  <2> QED
    BY <2>1, <2>3, FS_Surjection
<1>4. \A T \in all : IsFiniteSet(T)
  BY <1>3
<1> QED
  BY <1>2, <1>4, FS_UNION DEF Paths

(* The closing 0 of a word is in no word and goes on nowhere. *)
LEMMA EndIs ==
  ASSUME NEW d \in Dicts, NEW w \in DOMAIN d, NEW v \in DOMAIN d
  PROVE  ~IsPrefix(Append(w, 0), v) /\ Append(w, 0) # v
<1>1. w \in Seq(Nat) /\ v \in Seq(Nat) /\ Len(v) \in Nat /\ \A k \in 1 .. Len(v) : v[k] # 0
  BY WordIs DEF Word
<1>2. PICK e : e = Append(w, 0)
  OBVIOUS
<1>3. e \in Seq(Nat) /\ Len(e) = Len(w) + 1 /\ Len(w) \in Nat /\ e[Len(w) + 1] = 0
  BY <1>1, <1>2, AppendIs
<1>4. ASSUME IsPrefix(e, v)
      PROVE  FALSE
  <2>1. Len(e) <= Len(v) /\ \A k \in 1 .. Len(e) : e[k] = v[k]
    BY <1>1, <1>3, <1>4, PrefixIs
  <2>2. Len(w) + 1 \in 1 .. Len(e) /\ Len(w) + 1 \in 1 .. Len(v)
    BY <1>1, <1>3, <2>1
  <2> QED
    BY <1>1, <1>3, <2>1, <2>2
<1>5. IsPrefix(v, v)
  BY <1>1, PrefixIs
<1> QED
  BY <1>2, <1>4, <1>5

LEMMA FrontPrefix ==
  ASSUME NEW s \in Seq(Nat), s # <<>>, NEW t \in Seq(Nat), IsPrefix(s, t)
  PROVE  IsPrefix(Front(s), t)
<1>1. Len(s) <= Len(t) /\ Len(s) \in Nat /\ Len(t) \in Nat /\ \A k \in 1 .. Len(s) : s[k] = t[k]
  BY PrefixIs
<1>2. PICK f : f = Front(s)
  OBVIOUS
<1>3. /\ f \in Seq(Nat) /\ Len(s) \in Nat \ {0} /\ Len(f) = Len(s) - 1
      /\ \A k \in 1 .. Len(s) - 1 : f[k] = s[k]
  BY <1>2, FrontIs
<1>4. Len(f) <= Len(t) /\ \A k \in 1 .. Len(f) : k \in 1 .. Len(s) /\ k \in 1 .. Len(s) - 1
  BY <1>1, <1>3
<1>5. \A k \in 1 .. Len(f) : f[k] = t[k]
  BY <1>1, <1>3, <1>4
<1> QED
  BY <1>2, <1>3, <1>4, <1>5, PrefixIs

LEMMA FileTree ==
  ASSUME NEW d \in Dicts, NEW f
  PROVE  Tree(FileNodes(d, f))
<1>1. PICK N : N = FileNodes(d, f)
  OBVIOUS
<1>2. \A n : n \in N <=> InFile(d, f, n)
  BY <1>1, FileNodesAre
<1>3. \A w \in DOMAIN d : w \in Seq(Nat) /\ Append(w, 0) \in Seq(Nat) /\ Append(w, 0) # <<>>
                          /\ Front(Append(w, 0)) = w /\ IsPrefix(w, w) /\ IsPrefix(<<>>, w)
  <2> SUFFICES ASSUME NEW w \in DOMAIN d
               PROVE  w \in Seq(Nat) /\ Append(w, 0) \in Seq(Nat) /\ Append(w, 0) # <<>>
                      /\ Front(Append(w, 0)) = w /\ IsPrefix(w, w) /\ IsPrefix(<<>>, w)
    OBVIOUS
  <2>1. w \in Seq(Nat)
    BY WordIs DEF Word
  <2>2. /\ Append(w, 0) \in Seq(Nat) /\ Append(w, 0) # <<>>
        /\ Front(Append(w, 0)) = w
    BY <2>1, AppendIs
  <2>3. w \in Prefixes(w) /\ <<>> \in Prefixes(w) /\ <<>> \in Seq(Nat)
    BY <2>1, PrefixesAre
  <2>4. IsPrefix(w, w)
    BY <2>1, <2>3, PrefixesAre
  <2>5. IsPrefix(<<>>, w)
    BY <2>1, <2>3, PrefixesAre
  <2> QED
    BY <2>1, <2>2, <2>4, <2>5
<1>4. N \subseteq Seq(Nat)
  <2> SUFFICES ASSUME NEW n \in N PROVE n \in Seq(Nat)
    OBVIOUS
  <2>1. InFile(d, f, n)
    BY <1>2
  <2>2. n \in Seq(Nat) \/ \E w \in DOMAIN d : n = Append(w, 0)
    BY <2>1 DEF InFile
  <2>3. \A w \in DOMAIN d : Append(w, 0) \in Seq(Nat)
    BY <1>3
  <2> QED
    BY <2>2, <2>3
<1>5. <<>> \in N
  <2>1. PICK w : w \in DOMAIN d
    BY DictsAssumption
  <2>2. <<>> \in Seq(Nat)
    OBVIOUS
  <2> QED
    BY <1>2, <1>3, <2>1, <2>2 DEF InFile
<1>6. ASSUME NEW n \in N, n # <<>>
      PROVE  Front(n) \in N
  <2>1. n \in Seq(Nat) /\ Front(n) \in Seq(Nat)
    BY <1>4, <1>6, FrontIs
  <2>2. CASE \E w \in DOMAIN d : IsPrefix(n, w)
    BY <1>2, <1>3, <1>6, <2>1, <2>2, FrontPrefix DEF InFile
  <2>3. CASE \E w \in DOMAIN d : n = Append(w, 0)
    BY <1>2, <1>3, <2>1, <2>3 DEF InFile
  <2> QED
    BY <1>2, <2>2, <2>3 DEF InFile
<1>7. IsFiniteSet(N)
  <2> DEFINE V == {v \in DOMAIN d : f # "compact" \/ \E p \in Paths(d) : Len(p) > Len(v) /\ IsPrefix(v, p)}
             E == {Append(w, 0) : w \in V}
             end == [w \in V |-> Append(w, 0)]
  <2>1. end \in Surjection(V, E)
    BY DEF Surjection
  <2>2. V \subseteq DOMAIN d /\ IsFiniteSet(DOMAIN d)
    BY DictsAssumption
  <2>3. IsFiniteSet(V)
    BY <2>2, FS_Subset
  <2>4. N = Paths(d) \cup E
    BY <1>1 DEF FileNodes
  <2> HIDE DEF V, E, end
  <2>5. IsFiniteSet(E)
    BY <2>1, <2>3, FS_Surjection
  <2> QED
    BY <2>4, <2>5, PathsFinite, FS_Union
<1> QED
  BY <1>1, <1>4, <1>5, <1>6, <1>7 DEF Tree

(* What is not a word and does not go on is the closing 0 of a word, and a *)
(* word that goes on has one.                                              *)
Ends(d, N) ==
  /\ \A w \in DOMAIN d : w \in N /\ w \in Seq(Nat)
  /\ \A w \in DOMAIN d : KidsOf(N, w) # {} => Append(w, 0) \in N
  /\ \A w \in DOMAIN d : KidsOf(N, Append(w, 0)) = {} /\ Append(w, 0) \notin DOMAIN d
  /\ \A n \in N : n \notin DOMAIN d /\ KidsOf(N, n) = {}
                    => \E w \in DOMAIN d : n = Append(w, 0)

LEMMA FileEnds ==
  ASSUME NEW d \in Dicts, NEW f
  PROVE  Ends(d, FileNodes(d, f))
<1>1. PICK N : N = FileNodes(d, f)
  OBVIOUS
<1>2. \A n : n \in N <=> InFile(d, f, n)
  BY <1>1, FileNodesAre
<1>3. N \subseteq Seq(Nat)
  BY <1>1, FileTree DEF Tree
<1>4. ASSUME NEW w \in DOMAIN d
      PROVE  w \in N /\ w \in Seq(Nat) /\ Append(w, 0) \in Seq(Nat)
             /\ Append(w, 0) # <<>> /\ Front(Append(w, 0)) = w
  <2>1. w \in Seq(Nat)
    BY WordIs DEF Word
  <2>2. IsPrefix(w, w)
    BY <2>1, PrefixIs
  <2>3. w \in N
    BY <1>2, <2>1, <2>2 DEF InFile
  <2> QED
    BY <2>1, <2>3, AppendIs
<1>5. ASSUME NEW w \in DOMAIN d, KidsOf(N, w) # {}
      PROVE  Append(w, 0) \in N
  <2>1. PICK n \in N : Len(n) = Len(w) + 1 /\ IsPrefix(w, n)
    BY <1>5 DEF KidsOf
  <2>2. n # <<>> /\ Front(n) = w /\ n \in Seq(Nat) /\ Len(w) \in Nat
    BY <1>3, <1>4, <2>1, KidIs DEF KidsOf
  <2>3. CASE \E v \in DOMAIN d : IsPrefix(n, v)
    <3>1. Len(n) > Len(w)
      BY <2>1, <2>2
    <3> QED
      BY <1>2, <2>1, <2>2, <2>3, <3>1 DEF InFile
  <2>4. CASE \E v \in DOMAIN d : n = Append(v, 0)
    BY <1>4, <2>2, <2>4
  <2> QED
    BY <1>2, <2>3, <2>4 DEF InFile
<1>6. ASSUME NEW w \in DOMAIN d
      PROVE  KidsOf(N, Append(w, 0)) = {} /\ Append(w, 0) \notin DOMAIN d
  <2>1. \A v \in DOMAIN d : ~IsPrefix(Append(w, 0), v) /\ Append(w, 0) # v
    BY EndIs
  <2>2. ASSUME NEW n \in N, n \in KidsOf(N, Append(w, 0))
        PROVE  FALSE
    <3>1. Append(w, 0) \in Seq(Nat)
      BY <1>4
    <3>2. n \in Seq(Nat) /\ n # <<>> /\ Front(n) = Append(w, 0)
      BY <1>3, <2>2, <3>1, KidIs
    <3>3. CASE \E v \in DOMAIN d : IsPrefix(n, v)
      BY <1>4, <2>1, <3>2, <3>3, FrontPrefix
    <3>4. CASE \E v \in DOMAIN d : n = Append(v, 0)
      BY <1>4, <2>1, <3>2, <3>4
    <3> QED
      BY <1>2, <3>3, <3>4 DEF InFile
  <2> QED
    BY <2>1, <2>2 DEF KidsOf
<1>7. ASSUME NEW n \in N, n \notin DOMAIN d, KidsOf(N, n) = {}
      PROVE  \E w \in DOMAIN d : n = Append(w, 0)
  <2>1. ASSUME NEW w \in DOMAIN d, IsPrefix(n, w)
        PROVE  FALSE
    <3>1. n \in Seq(Nat) /\ w \in Seq(Nat) /\ n # w
      BY <1>3, <1>4, <1>7
    <3>2. /\ Len(n) \in Nat /\ Len(w) \in Nat /\ Len(n) <= Len(w)
          /\ \A k \in 1 .. Len(n) : n[k] = w[k]
      BY <2>1, <3>1, PrefixIs
    <3>3. Len(n) # Len(w)
      BY <3>1, <3>2, SeqEqual
    <3>4. PICK l, c : l = Len(n) + 1 /\ c = SubSeq(w, 1, l)
      OBVIOUS
    <3>5. l \in Nat /\ l \in 0 .. Len(w) /\ 1 <= l /\ \A k \in 1 .. l : k \in 1 .. Len(w)
      BY <3>2, <3>3, <3>4
    <3>6. \A k \in 1 .. l : w[k] \in Nat
      BY <3>1, <3>5, ElementOfSeq
    <3>7. /\ c \in Seq(Nat) /\ Len(c) = IF 1 <= l THEN l - 1 + 1 ELSE 0
          /\ \A k \in 1 .. l - 1 + 1 : c[k] = w[1 + k - 1]
      <4>1. 1 \in Int /\ l \in Int
        BY <3>5
      <4> QED
        BY <3>4, <3>6, <4>1, SubSeqProperties
    <3>8. Len(c) = l /\ \A k \in 1 .. l : c[k] = w[k]
      BY <3>5, <3>7
    <3>9. c \in Prefixes(w)
      BY <3>4, <3>5 DEF Prefixes
    <3>10. IsPrefix(c, w)
      BY <3>1, <3>7, <3>9, PrefixesAre
    <3>11. c \in N
      BY <1>2, <3>7, <3>10 DEF InFile
    <3>12. Len(n) <= Len(c) /\ \A k \in 1 .. Len(n) : k \in 1 .. l
      BY <3>2, <3>4, <3>8
    <3>13. \A k \in 1 .. Len(n) : n[k] = c[k]
      BY <3>2, <3>8, <3>12
    <3>14. IsPrefix(n, c)
      BY <3>1, <3>7, <3>12, <3>13, PrefixIs
    <3> QED
      BY <1>7, <3>4, <3>8, <3>11, <3>14 DEF KidsOf
  <2> QED
    BY <1>2, <2>1 DEF InFile
<1> QED
  BY <1>1, <1>4, <1>5, <1>6, <1>7 DEF Ends

(* In a Trie every word has its closing 0, so that only these have none    *)
(* behind them.                                                            *)
LEMMA TrieEnds ==
  ASSUME NEW d \in Dicts, NEW n \in FileNodes(d, "trie"), KidsOf(FileNodes(d, "trie"), n) = {}
  PROVE  \E w \in DOMAIN d : n = Append(w, 0)
<1>1. PICK N : N = FileNodes(d, "trie")
  OBVIOUS
<1>2. Ends(d, N) /\ Tree(N)
  BY <1>1, FileTree, FileEnds
<1>3. ASSUME n \in DOMAIN d
      PROVE  FALSE
  <2>1. Append(n, 0) \in N
    BY <1>1, <1>3, FileNodesAre DEF InFile
  <2>2. n \in Seq(Nat) /\ Append(n, 0) # <<>> /\ Front(Append(n, 0)) = n
    BY <1>2, <1>3, AppendIs DEF Ends
  <2>3. Append(n, 0) \in KidsOf(N, n)
    BY <1>2, <2>1, <2>2, KidIs DEF Tree
  <2> QED
    BY <1>1, <2>3
<1> QED
  BY <1>1, <1>2, <1>3 DEF Ends

-----------------------------------------------------------------------------
(* The children of a node in the order of their last characters: each of   *)
(* them once.                                                              *)
ByLast(S) == {q \in S \X S : LastChar(q[1]) < LastChar(q[2])}

LEMMA LastOrders ==
  ASSUME NEW N, N \subseteq Seq(Nat), NEW p \in Seq(Nat)
  PROVE  Orders(ByLast(KidsOf(N, p)), KidsOf(N, p))
<1>1. PICK S : S = KidsOf(N, p)
  OBVIOUS
<1>2. \A x \in S : x \in Seq(Nat) /\ x # <<>> /\ Front(x) = p /\ LastChar(x) \in Nat
  <2> SUFFICES ASSUME NEW x \in S
               PROVE  x \in Seq(Nat) /\ x # <<>> /\ Front(x) = p /\ LastChar(x) \in Nat
    OBVIOUS
  <2>1. x \in N /\ x \in KidsOf(N, p)
    BY <1>1 DEF KidsOf
  <2>2. x \in Seq(Nat) /\ x # <<>> /\ Front(x) = p
    BY <2>1, KidIs
  <2>3. Last(x) \in Nat
    BY <2>2, FrontIs
  <2> QED
    BY <2>2, <2>3 DEF LastChar
<1>3. ASSUME NEW x \in S, NEW y \in S, LastChar(x) = LastChar(y)
      PROVE  x = y
  <2>1. /\ Len(x) \in Nat \ {0} /\ Len(p) = Len(x) - 1
        /\ \A k \in 1 .. Len(x) - 1 : p[k] = x[k]
        /\ Last(x) = x[Len(x)]
    BY <1>2, FrontIs
  <2>2. /\ Len(y) \in Nat \ {0} /\ Len(p) = Len(y) - 1
        /\ \A k \in 1 .. Len(y) - 1 : p[k] = y[k]
        /\ Last(y) = y[Len(y)]
    BY <1>2, FrontIs
  <2>3. Last(x) = Last(y)
    BY <1>2, <1>3 DEF LastChar
  <2>4. Len(x) = Len(y)
    BY <2>1, <2>2
  <2>5. \A k \in 1 .. Len(x) : k \in 1 .. Len(x) - 1 \/ k = Len(x)
    BY <2>1
  <2>6. \A k \in 1 .. Len(x) : x[k] = y[k]
    BY <2>1, <2>2, <2>3, <2>4, <2>5
  <2> QED
    BY <1>2, <2>4, <2>6, SeqEqual
<1>4. \A x, y \in S : << x, y >> \in ByLast(S) <=> LastChar(x) < LastChar(y)
  BY DEF ByLast
<1>5. ASSUME NEW x \in S, NEW y \in S
      PROVE  x = y \/ LastChar(x) < LastChar(y) \/ LastChar(y) < LastChar(x)
  <2>1. LastChar(x) \in Nat /\ LastChar(y) \in Nat
    BY <1>2
  <2> QED
    BY <1>3, <2>1
<1>6. \A x \in S : ~(LastChar(x) < LastChar(x))
  BY <1>2
<1>7. ASSUME NEW x \in S, NEW y \in S, NEW z \in S,
             LastChar(x) < LastChar(y), LastChar(y) < LastChar(z)
      PROVE  LastChar(x) < LastChar(z)
  <2>1. LastChar(x) \in Nat /\ LastChar(y) \in Nat /\ LastChar(z) \in Nat
    BY <1>2
  <2> QED
    BY <1>7, <2>1
<1> QED
  BY <1>1, <1>4, <1>5, <1>6, <1>7 DEF Orders

AllKids(s, N, p) ==
  /\ s \in Seq(N) /\ Len(s) = Cardinality(KidsOf(N, p)) /\ Len(s) \in Nat
  /\ \A k \in 1 .. Len(s) : s[k] \in KidsOf(N, p)
  /\ \A k, l \in 1 .. Len(s) : s[k] = s[l] => k = l
  /\ \A n \in KidsOf(N, p) : \E k \in 1 .. Len(s) : s[k] = n

LEMMA KidsSorted ==
  ASSUME NEW N, Tree(N), NEW p \in N, Nodes = N
  PROVE  AllKids(SortedKids(p), N, p)
<1>1. PICK S : S = KidsOf(N, p)
  OBVIOUS
<1>2. Kids(p) = S
  BY <1>1 DEF Kids, KidsOf
<1>3. N \subseteq Seq(Nat) /\ p \in Seq(Nat) /\ IsFiniteSet(S) /\ S \subseteq N
  BY <1>1, KidsFinite DEF Tree
<1>4. \A x \in S : {y \in S : LastChar(y) < LastChar(x)} = Lower(S, ByLast(S), x)
  BY DEF Lower, ByLast
<1>5. PICK s : s = SortedKids(p)
  OBVIOUS
<1> DEFINE lower(x) == {y \in S : LastChar(y) < LastChar(x)}
<1>6. s = [k \in 1 .. Cardinality(S) |->
             CHOOSE x \in S : Cardinality(lower(x)) = k - 1]
  BY <1>2, <1>5 DEF SortedKids, Sorted
<1>7. \A x \in S : Cardinality(lower(x)) = Place(S, ByLast(S), x)
  BY <1>4 DEF Place
<1> HIDE DEF lower
<1>8. s = [k \in 1 .. Cardinality(S) |->
             CHOOSE x \in S : Place(S, ByLast(S), x) = k - 1]
  BY <1>6, <1>7
<1>9. Lists(s, S, ByLast(S))
  BY <1>1, <1>3, <1>8, LastOrders, Listing
<1>10. /\ s \in Seq(S) /\ Len(s) = Cardinality(S) /\ Len(s) \in Nat
       /\ \A k \in 1 .. Len(s) : s[k] \in S /\ Place(S, ByLast(S), s[k]) = k - 1
       /\ \A n \in S : \E k \in 1 .. Len(s) : s[k] = n
  BY <1>9 DEF Lists
<1>11. ASSUME NEW k \in 1 .. Len(s), NEW l \in 1 .. Len(s), s[k] = s[l]
       PROVE  k = l
  <2>1. k - 1 = l - 1
    BY <1>10, <1>11
  <2> QED
    BY <2>1
<1>12. s \in Seq(N)
  BY <1>3, <1>10, SeqMonotonic
<1> QED
  BY <1>1, <1>5, <1>10, <1>11, <1>12 DEF AllKids

-----------------------------------------------------------------------------
(* The array: its n elements, the last of which is free. *)
ElmType == [key : Nat, word : Nat, size : Nat]

Cells(e, n) == n \in Nat /\ e \in [0 .. n - 1 -> ElmType] /\ Cardinality(DOMAIN e) = n

Spare(e, n) == n # 0 => e[n - 1] = Free

(* From e to g nothing is written but the elements in W, and behind them   *)
(* one is left.                                                            *)
Lays(e, n, g, m, W) ==
  /\ Cells(g, m) /\ Spare(g, m) /\ n <= m
  /\ \A i \in W : i + 1 < m
  /\ \A i \in 0 .. m - 1 : i \notin W => g[i] = IF i < n THEN e[i] ELSE Free

LEMMA CountIs ==
  ASSUME NEW n \in Nat
  PROVE  Cardinality(0 .. n - 1) = n
<1>1. 0 \in Int /\ n - 1 \in Int /\ (0 > n - 1 => n = 0) /\ n - 1 - 0 + 1 = n
  OBVIOUS
<1> QED
  BY <1>1, FS_Interval

LEMMA FreeIs == Free \in ElmType /\ LooksFree(Free)
BY DEF Free, Elm, ElmType, LooksFree

(* Both sizes __resizeElm asks for go beyond the index. *)
LEMMA Sizes ==
  ASSUME NEW i \in Nat
  PROVE  /\ (((i + Block - 1) \div Block) * Block * 3) \div 2 \in Nat
         /\ ((i + 2 * Block - 1) \div Block) * Block \in Nat
         /\ i # 0 => (((i + Block - 1) \div Block) * Block * 3) \div 2 > i
         /\ ((i + 2 * Block - 1) \div Block) * Block > i
<1>1. PICK b : b = Block
  OBVIOUS
<1>2. b \in Nat /\ b > 0
  BY <1>1, BlockAssumption
<1>3. PICK q : q = (i + b - 1) \div b
  OBVIOUS
<1>4. q \in Nat /\ i + b - 1 = b * q + ((i + b - 1) % b) /\ (i + b - 1) % b \in 0 .. b - 1
  BY <1>2, <1>3
<1>5. b * q >= i
  <2>1. PICK r : r = (i + b - 1) % b
    OBVIOUS
  <2>2. PICK x : x = b * q
    OBVIOUS
  <2>3. x \in Int
    BY <1>2, <1>4, <2>2
  <2> QED
    BY <1>2, <1>4, <2>1, <2>2, <2>3
<1>6. q * b = b * q /\ b * q \in Nat
  BY <1>2, <1>4
<1>7. PICK x : x = b * q
  OBVIOUS
<1>8. x \in Nat /\ x >= i /\ (x * 3) \div 2 \in Nat /\ (i # 0 => (x * 3) \div 2 > i)
  <2>1. x \in Nat /\ x >= i
    BY <1>5, <1>6, <1>7
  <2>2. b >= 2
    BY <1>1, BlockAssumption
  <2>3. i # 0 => q >= 1
    <3>1. q = 0 => x = 0
      BY <1>2, <1>7
    <3> QED
      BY <1>4, <2>1, <3>1
  <2>4. q >= 1 => x >= 2
    BY <1>2, <1>4, <1>7, <2>2
  <2> QED
    BY <2>1, <2>3, <2>4
<1>9. (i + 2 * b - 1) \div b = q + 1
  <2>1. PICK r : r = (i + b - 1) % b
    OBVIOUS
  <2>2. PICK t : t = i + b - 1
    OBVIOUS
  <2>3. t \in Nat /\ i + 2 * b - 1 = t + b
    BY <1>2, <2>2
  <2>4. t = b * q + r /\ r \in 0 .. b - 1
    BY <1>4, <2>1, <2>2
  <2>5. t + b = b * (q + 1) + r
    BY <1>2, <1>4, <2>4
  <2>6. (t + b) \div b = q + 1
    BY <1>2, <1>4, <2>3, <2>4, <2>5
  <2> QED
    BY <2>3, <2>6
<1>10. (q + 1) * b = x + b
  BY <1>2, <1>4, <1>7
<1>11. x + b \in Nat /\ x + b > i
  BY <1>2, <1>8
<1> QED
  BY <1>1, <1>3, <1>6, <1>7, <1>8, <1>9, <1>10, <1>11

LEMMA GrownIs ==
  ASSUME NEW e, NEW n, Cells(e, n), Spare(e, n), NEW i \in Nat \ {0}, NEW g \in Grown(e, i)
  PROVE  \E m : Lays(e, n, g, m, {}) /\ i < m
<1>1. n \in Nat /\ Cardinality(DOMAIN e) = n /\ \A j \in 0 .. n - 1 : e[j] \in ElmType
  BY DEF Cells
<1>2. CASE i < n
  <2>1. g = e
    BY <1>1, <1>2 DEF Grown
  <2>2. Lays(e, n, g, n, {})
    BY <1>1, <2>1 DEF Lays
  <2> QED
    BY <1>2, <2>2
<1>3. CASE ~(i < n)
  <2>1. PICK m \in {(((i + Block - 1) \div Block) * Block * 3) \div 2,
                    ((i + 2 * Block - 1) \div Block) * Block} :
          g = [k \in 0 .. m - 1 |-> IF k < n THEN e[k] ELSE Free]
    BY <1>1, <1>3 DEF Grown
  <2>2. m \in Nat /\ m > i
    BY <2>1, Sizes
  <2> HIDE <2>1
  <2>3. DOMAIN g = 0 .. m - 1 /\ \A k \in 0 .. m - 1 : g[k] = IF k < n THEN e[k] ELSE Free
    BY <2>1
  <2>4. n <= m /\ n <= m - 1 /\ m - 1 \in 0 .. m - 1 /\ ~(m - 1 < n)
    BY <1>1, <1>3, <2>2
  <2>5. g[m - 1] = Free
    BY <2>3, <2>4
  <2>6. ASSUME NEW k \in 0 .. m - 1
        PROVE  g[k] \in ElmType
    <3>1. k < n => k \in 0 .. n - 1
      BY <1>1
    <3> QED
      BY <1>1, <2>3, <3>1, FreeIs
  <2>7. Cardinality(DOMAIN g) = m
    BY <2>2, <2>3, CountIs
  <2>8. g \in [0 .. m - 1 -> ElmType]
    <3>1. g = [k \in 0 .. m - 1 |-> g[k]]
      BY <2>1
    <3> QED
      BY <2>6, <3>1
  <2> QED
    BY <2>2, <2>3, <2>4, <2>5, <2>7, <2>8 DEF Lays, Cells, Spare
<1> QED
  BY <1>2, <1>3

LEMMA LaysBoth ==
  ASSUME NEW e, NEW n, Cells(e, n), NEW g, NEW m, NEW W, Lays(e, n, g, m, W),
         NEW h, NEW l, NEW V, Lays(g, m, h, l, V), W \subseteq Nat
  PROVE  Lays(e, n, h, l, W \cup V)
<1>1. n \in Nat /\ m \in Nat /\ l \in Nat /\ n <= m /\ m <= l
  BY DEF Lays, Cells
<1>2. ASSUME NEW i \in W \cup V
      PROVE  i + 1 < l
  BY <1>1 DEF Lays
<1>3. ASSUME NEW i \in 0 .. l - 1, i \notin W \cup V
      PROVE  h[i] = IF i < n THEN e[i] ELSE Free
  <2>1. h[i] = IF i < m THEN g[i] ELSE Free
    BY <1>3 DEF Lays
  <2>2. i < m => i \in 0 .. m - 1
    BY <1>1
  <2>3. i < m => g[i] = IF i < n THEN e[i] ELSE Free
    BY <1>3, <2>2 DEF Lays
  <2>4. i < n => i < m
    BY <1>1
  <2> QED
    BY <2>1, <2>3, <2>4
<1>4. Cells(h, l) /\ Spare(h, l) /\ n <= l
  BY <1>1 DEF Lays
<1> QED
  BY <1>2, <1>3, <1>4 DEF Lays

LEMMA OneWritten ==
  ASSUME NEW g, NEW m, Cells(g, m), Spare(g, m), NEW j \in Nat, j + 1 < m, NEW x \in ElmType
  PROVE  Lays(g, m, [g EXCEPT ![j] = x], m, {j})
<1>1. m \in Nat /\ j \in 0 .. m - 1 /\ m - 1 \in 0 .. m - 1 /\ j # m - 1 /\ DOMAIN g = 0 .. m - 1
  BY DEF Cells
<1>2. PICK h : h = [g EXCEPT ![j] = x]
  OBVIOUS
<1>3. DOMAIN h = DOMAIN g /\ h[j] = x /\ \A i \in 0 .. m - 1 : i # j => h[i] = g[i]
  BY <1>1, <1>2
<1>4. Cells(h, m) /\ Spare(h, m)
  <2>1. h \in [0 .. m - 1 -> ElmType]
    BY <1>2 DEF Cells
  <2> QED
    BY <1>1, <1>3, <2>1 DEF Cells, Spare
<1>5. \A i \in {j} : i + 1 < m
  OBVIOUS
<1>6. ASSUME NEW i \in 0 .. m - 1, i \notin {j}
      PROVE  h[i] = IF i < m THEN g[i] ELSE Free
  BY <1>1, <1>3, <1>6
<1> QED
  BY <1>1, <1>2, <1>4, <1>5, <1>6 DEF Lays

LEMMA TwoWritten ==
  ASSUME NEW g, NEW m, Cells(g, m), Spare(g, m), NEW j \in Nat, j + 1 < m, NEW x \in ElmType,
         NEW k \in Nat, k + 1 < m, NEW y \in ElmType
  PROVE  Lays(g, m, [g EXCEPT ![j] = x, ![k] = y], m, {j, k})
<1>1. PICK h : h = [g EXCEPT ![j] = x]
  OBVIOUS
<1>2. Lays(g, m, h, m, {j})
  BY <1>1, OneWritten
<1>3. Cells(h, m) /\ Spare(h, m)
  BY <1>2 DEF Lays
<1>4. Lays(h, m, [h EXCEPT ![k] = y], m, {k})
  BY <1>3, OneWritten
<1>5. Lays(g, m, [h EXCEPT ![k] = y], m, {j} \cup {k})
  BY <1>2, <1>4, LaysBoth
<1>6. {j} \cup {k} = {j, k}
  OBVIOUS
<1> QED
  BY <1>1, <1>5, <1>6

-----------------------------------------------------------------------------
(* A file that is read: c of its rows are behind, t are left, and o is     *)
(* where the next children go.                                             *)
File(d, N, rows) == d \in Dicts /\ Tree(N) /\ Ends(d, N) /\ InOrder(rows, N)

Upto(N, rows, t, o, c) ==
  /\ c \in Nat /\ c <= Len(rows) /\ t \in Seq(N) /\ Len(t) = Len(rows) - c
  /\ \A k \in 1 .. Len(t) : t[k] = rows[c + k]
  /\ o = 1 + Cardinality(Behind(N, rows, c))

(* Row l closes the word of row k. *)
EndOf(d, rows, k, l) == rows[k] \in DOMAIN d /\ rows[l] = Append(rows[k], 0)

EndsFit(d, rows, n, c) ==
  \A k \in 1 .. c, l \in 1 .. Len(rows) : EndOf(d, rows, k, l) => l < n

(* What may be written: the elements of the rows behind, and of the rows   *)
(* that close their words.                                                 *)
Laid(d, rows, c, i) ==
  i < c \/ (i + 1 \in 1 .. Len(rows) /\ \E k \in 1 .. c : EndOf(d, rows, k, i + 1))

OnlyLaid(d, rows, e, n, c) == \A i \in 0 .. n - 1 : e[i] # Free => Laid(d, rows, c, i)

RowsLaid(d, N, rows, t, e, n, o, c) ==
  /\ Upto(N, rows, t, o, c)
  /\ EndsFit(d, rows, n, c)
  /\ OnlyLaid(d, rows, e, n, c)
  /\ c = 0 \/ c < n

Kept(e, n, g) == \A i \in 0 .. n - 1 : e[i] # Free => g[i] = e[i]

LEMMA RowNext ==
  ASSUME NEW d, NEW N, NEW rows, File(d, N, rows),
         NEW t, NEW o, NEW c, Upto(N, rows, t, o, c), t # <<>>
  PROVE  /\ c \in Nat /\ o \in Nat /\ c + 1 \in 1 .. Len(rows) /\ c < Len(rows)
         /\ Head(t) = rows[c + 1] /\ Head(t) \in N /\ Len(rows) \in Nat
         /\ Upto(N, rows, Tail(t), o + Cardinality(KidsOf(N, Head(t))), c + 1)
<1>1. Len(rows) \in Nat /\ \A k \in 1 .. Len(rows) : rows[k] \in N
  BY RowsPlaced DEF File
<1>2. /\ Head(t) \in N /\ Tail(t) \in Seq(N) /\ Len(Tail(t)) = Len(t) - 1
      /\ \A k \in 1 .. Len(Tail(t)) : Tail(t)[k] = t[k + 1]
  BY HeadTailProperties DEF Upto
<1>3. c \in Nat /\ Len(t) = Len(rows) - c /\ \A k \in 1 .. Len(t) : t[k] = rows[c + k]
  BY DEF Upto
<1>4. Len(t) \in Nat \ {0}
  BY EmptySeq DEF Upto
<1>5. Head(t) = t[1]
  BY <1>4
<1>6. c + 1 \in 1 .. Len(rows) /\ c < Len(rows) /\ Head(t) = rows[c + 1]
  BY <1>1, <1>3, <1>4, <1>5
<1>7. /\ Cardinality(Behind(N, rows, c)) \in Nat
      /\ Cardinality(Behind(N, rows, c + 1))
           = Cardinality(Behind(N, rows, c)) + Cardinality(KidsOf(N, rows[c + 1]))
  BY <1>3, <1>6, BehindNext DEF File
<1>8. Cardinality(KidsOf(N, rows[c + 1])) \in Nat
  BY KidsFinite DEF File, Tree
<1>9. o = 1 + Cardinality(Behind(N, rows, c))
  BY DEF Upto
<1>10. o + Cardinality(KidsOf(N, Head(t))) = 1 + Cardinality(Behind(N, rows, c + 1)) /\ o \in Nat
  <2>1. PICK a, b, b1 : /\ a = Cardinality(KidsOf(N, rows[c + 1]))
                        /\ b = Cardinality(Behind(N, rows, c))
                        /\ b1 = Cardinality(Behind(N, rows, c + 1))
    OBVIOUS
  <2>2. a \in Nat /\ b \in Nat /\ b1 = b + a /\ o = 1 + b
    BY <1>7, <1>8, <1>9, <2>1
  <2> QED
    BY <1>6, <2>1, <2>2
<1>11. ASSUME NEW k \in 1 .. Len(Tail(t))
       PROVE  Tail(t)[k] = rows[c + 1 + k]
  <2>1. k + 1 \in 1 .. Len(t) /\ c + (k + 1) = c + 1 + k
    BY <1>2, <1>3, <1>4
  <2> QED
    BY <1>2, <1>3, <2>1
<1>12. c + 1 \in Nat /\ c + 1 <= Len(rows) /\ Len(Tail(t)) = Len(rows) - (c + 1)
  BY <1>1, <1>2, <1>3, <1>6
<1> QED
  BY <1>1, <1>2, <1>3, <1>6, <1>10, <1>11, <1>12 DEF Upto

(* Nothing is at the place of a row that writes its element. *)
LEMMA RowFree ==
  ASSUME NEW d, NEW N, NEW rows, File(d, N, rows), NEW t, NEW e, NEW n, NEW o, NEW c,
         RowsLaid(d, N, rows, t, e, n, o, c), t # <<>>,
         Head(t) \in DOMAIN d \/ KidsOf(N, Head(t)) # {}
  PROVE  c \in 0 .. n - 1 => e[c] = Free
<1>1. c \in Nat /\ c + 1 \in 1 .. Len(rows) /\ Head(t) = rows[c + 1]
  BY RowNext DEF RowsLaid
<1>2. SUFFICES ASSUME c \in 0 .. n - 1, e[c] # Free PROVE FALSE
  OBVIOUS
<1>3. Laid(d, rows, c, c)
  BY <1>2 DEF RowsLaid, OnlyLaid
<1>4. PICK k \in 1 .. c : EndOf(d, rows, k, c + 1)
  BY <1>1, <1>3 DEF Laid
<1> QED
  BY <1>1, <1>4 DEF EndOf, File, Ends

(* The row that closes a word comes where the word's children begin, and   *)
(* nothing is there yet.                                                   *)
LEMMA EndFree ==
  ASSUME NEW d, NEW N, NEW rows, File(d, N, rows), NEW t, NEW e, NEW n, NEW o, NEW c,
         RowsLaid(d, N, rows, t, e, n, o, c), t # <<>>,
         Head(t) \in DOMAIN d, KidsOf(N, Head(t)) # {}
  PROVE  /\ o \in Nat /\ c < o /\ o + 1 \in 1 .. Len(rows) /\ EndOf(d, rows, c + 1, o + 1)
         /\ o \in 0 .. n - 1 => e[o] = Free
<1>1. /\ c \in Nat /\ c + 1 \in 1 .. Len(rows) /\ Head(t) = rows[c + 1] /\ c < Len(rows)
      /\ Len(rows) \in Nat /\ o \in Nat
  BY RowNext DEF RowsLaid
<1>2. /\ \A k, l \in 1 .. Len(rows) : rows[k] = rows[l] => k = l
      /\ \A x \in N : \E k \in 1 .. Len(rows) : rows[k] = x
  BY RowsPlaced DEF File
<1>3. Append(rows[c + 1], 0) \in N
  BY <1>1 DEF File, Ends
<1>4. PICK l \in 1 .. Len(rows) : rows[l] = Append(rows[c + 1], 0)
  BY <1>2, <1>3
<1>5. l = 2 + Cardinality(Behind(N, rows, c)) /\ c + 1 < l
  BY <1>1, <1>4, EndPlace DEF File
<1>6. Cardinality(Behind(N, rows, c)) \in Nat /\ o = 1 + Cardinality(Behind(N, rows, c))
  BY <1>1, BehindNext DEF RowsLaid, Upto, File
<1>7. l = o + 1 /\ c < o
  BY <1>1, <1>5, <1>6
<1>8. EndOf(d, rows, c + 1, o + 1)
  BY <1>1, <1>4, <1>7 DEF EndOf
<1>9. ASSUME o \in 0 .. n - 1, e[o] # Free
      PROVE  FALSE
  <2>1. Laid(d, rows, c, o) /\ ~(o < c)
    BY <1>1, <1>7, <1>9 DEF RowsLaid, OnlyLaid
  <2>2. PICK k \in 1 .. c : EndOf(d, rows, k, o + 1)
    BY <2>1 DEF Laid
  <2>3. rows[k] \in DOMAIN d /\ Append(rows[k], 0) = Append(rows[c + 1], 0)
        /\ rows[c + 1] \in DOMAIN d
    BY <1>8, <2>2 DEF EndOf
  <2>4. rows[k] \in Seq(Nat) /\ rows[c + 1] \in Seq(Nat)
    BY <2>3 DEF File, Ends
  <2>5. Front(Append(rows[k], 0)) = rows[k] /\ Front(Append(rows[c + 1], 0)) = rows[c + 1]
    BY <2>4, AppendIs
  <2>6. k \in 1 .. Len(rows) /\ k # c + 1
    BY <1>1
  <2> QED
    BY <1>1, <1>2, <2>3, <2>5, <2>6
<1> QED
  BY <1>1, <1>4, <1>7, <1>8, <1>9

(* A row that writes the elements in W. *)
LEMMA RowWritten ==
  ASSUME NEW d, NEW N, NEW rows, File(d, N, rows), NEW t, NEW e, NEW n, NEW o, NEW c,
         RowsLaid(d, N, rows, t, e, n, o, c), t # <<>>, Cells(e, n),
         NEW g, NEW m, NEW W, Lays(e, n, g, m, W), c + 1 < m,
         \A i \in W : Laid(d, rows, c + 1, i) /\ (i \in 0 .. n - 1 => e[i] = Free),
         \A l \in 1 .. Len(rows) : EndOf(d, rows, c + 1, l) => l < m
  PROVE  /\ RowsLaid(d, N, rows, Tail(t), g, m, o + Cardinality(KidsOf(N, Head(t))), c + 1)
         /\ Kept(e, n, g) /\ Cells(g, m) /\ Spare(g, m)
<1>1. /\ c \in Nat /\ Len(rows) \in Nat
      /\ Upto(N, rows, Tail(t), o + Cardinality(KidsOf(N, Head(t))), c + 1)
  BY RowNext DEF RowsLaid
<1>2. n \in Nat /\ m \in Nat /\ n <= m /\ Cells(g, m) /\ Spare(g, m)
  BY DEF Lays, Cells
<1>3. ASSUME NEW k \in 1 .. c + 1, NEW l \in 1 .. Len(rows), EndOf(d, rows, k, l)
      PROVE  l < m
  <2>1. CASE k = c + 1
    BY <1>3, <2>1
  <2>2. CASE k # c + 1
    <3>1. k \in 1 .. c
      BY <1>1, <2>2
    <3>2. l < n
      BY <1>3, <3>1 DEF RowsLaid, EndsFit
    <3> QED
      BY <1>2, <3>2
  <2> QED
    BY <2>1, <2>2
<1>4. ASSUME NEW i \in 0 .. m - 1, g[i] # Free
      PROVE  Laid(d, rows, c + 1, i)
  <2>1. CASE i \in W
    BY <2>1
  <2>2. CASE i \notin W
    <3>1. i < n /\ e[i] # Free
      BY <1>4, <2>2 DEF Lays
    <3>2. i \in 0 .. n - 1
      BY <1>2, <3>1
    <3>3. Laid(d, rows, c, i)
      BY <3>1, <3>2 DEF RowsLaid, OnlyLaid
    <3>4. i < c => i < c + 1
      BY <1>1
    <3>5. \A k \in 1 .. c : k \in 1 .. c + 1
      BY <1>1
    <3> QED
      BY <3>3, <3>4, <3>5 DEF Laid
  <2> QED
    BY <2>1, <2>2
<1>5. ASSUME NEW i \in 0 .. n - 1, e[i] # Free
      PROVE  g[i] = e[i]
  <2>1. i \in 0 .. m - 1 /\ i \notin W /\ i < n
    BY <1>2, <1>5
  <2> QED
    BY <2>1 DEF Lays
<1>6. EndsFit(d, rows, m, c + 1)
  BY <1>3 DEF EndsFit
<1>7. OnlyLaid(d, rows, g, m, c + 1)
  BY <1>4 DEF OnlyLaid
<1> QED
  BY <1>1, <1>2, <1>5, <1>6, <1>7 DEF RowsLaid, Kept

(* What a step of the build keeps, whatever it writes. *)
RowDone(d, N, rows, t, e, n, g, o, c) ==
  \E m : /\ RowsLaid(d, N, rows, t, g, m, o, c)
         /\ Kept(e, n, g) /\ Cells(g, m) /\ Spare(g, m)

(* The row of a word that goes on. *)
LEMMA WordAndValue ==
  ASSUME NEW d, NEW N, NEW rows, File(d, N, rows), NEW t, NEW e, NEW n, NEW o, NEW c,
         RowsLaid(d, N, rows, t, e, n, o, c), t # <<>>, Cells(e, n), Spare(e, n),
         Head(t) \in DOMAIN d, KidsOf(N, Head(t)) # {},
         NEW x \in ElmType, NEW y \in ElmType,
         NEW e1 \in Grown(e, c + 1), NEW f \in Grown(e1, o + 1)
  PROVE  RowDone(d, N, rows, Tail(t), e, n, [f EXCEPT ![c] = x, ![o] = y],
                 o + Cardinality(KidsOf(N, Head(t))), c + 1)
<1>1. c \in Nat /\ o \in Nat /\ c + 1 \in Nat \ {0} /\ o + 1 \in Nat \ {0}
      /\ Head(t) = rows[c + 1] /\ c + 1 \in 1 .. Len(rows) /\ Len(rows) \in Nat
  BY RowNext DEF RowsLaid
<1>2. /\ c < o /\ o + 1 \in 1 .. Len(rows) /\ EndOf(d, rows, c + 1, o + 1)
      /\ o \in 0 .. n - 1 => e[o] = Free
      /\ c \in 0 .. n - 1 => e[c] = Free
  BY EndFree, RowFree
<1>3. PICK m1 : Lays(e, n, e1, m1, {}) /\ c + 1 < m1
  BY <1>1, GrownIs
<1>4. Cells(e1, m1) /\ Spare(e1, m1)
  BY <1>3 DEF Lays
<1>5. PICK m : Lays(e1, m1, f, m, {}) /\ o + 1 < m
  BY <1>1, <1>4, GrownIs
<1>6. Cells(f, m) /\ Spare(f, m) /\ m1 <= m /\ m \in Nat /\ m1 \in Nat
  BY <1>4, <1>5 DEF Lays, Cells
<1>7. c + 1 < m
  BY <1>1, <1>3, <1>6
<1>8. PICK g : g = [f EXCEPT ![c] = x, ![o] = y]
  OBVIOUS
<1>9. Lays(f, m, g, m, {c, o})
  BY <1>1, <1>5, <1>6, <1>7, <1>8, TwoWritten
<1>10. Lays(e, n, f, m, {} \cup {})
  BY <1>3, <1>4, <1>5, LaysBoth
<1>11. Lays(e, n, f, m, {})
  BY <1>10
<1>12. Lays(e, n, g, m, {} \cup {c, o})
  BY <1>9, <1>11, LaysBoth
<1>13. Lays(e, n, g, m, {c, o})
  BY <1>12
<1>14. ASSUME NEW i \in {c, o}
       PROVE  Laid(d, rows, c + 1, i) /\ (i \in 0 .. n - 1 => e[i] = Free)
  <2>1. Laid(d, rows, c + 1, c)
    BY <1>1 DEF Laid
  <2>2. Laid(d, rows, c + 1, o)
    BY <1>1, <1>2 DEF Laid
  <2> QED
    BY <1>2, <2>1, <2>2
<1>15. ASSUME NEW l \in 1 .. Len(rows), EndOf(d, rows, c + 1, l)
       PROVE  l < m
  <2>1. rows[l] = rows[o + 1]
    BY <1>2, <1>15 DEF EndOf
  <2>2. l = o + 1
    BY <1>2, <2>1, RowsPlaced DEF File
  <2> QED
    BY <1>5, <2>2
<1>16. RowsLaid(d, N, rows, Tail(t), g, m, o + Cardinality(KidsOf(N, Head(t))), c + 1)
       /\ Kept(e, n, g) /\ Cells(g, m) /\ Spare(g, m)
  BY <1>7, <1>13, <1>14, <1>15, RowWritten
<1> QED
  BY <1>8, <1>16 DEF RowDone

(* The row of any other word, or of a prefix that is none. *)
LEMMA RowAlone ==
  ASSUME NEW d, NEW N, NEW rows, File(d, N, rows), NEW t, NEW e, NEW n, NEW o, NEW c,
         RowsLaid(d, N, rows, t, e, n, o, c), t # <<>>, Cells(e, n), Spare(e, n),
         Head(t) \in DOMAIN d <=> KidsOf(N, Head(t)) = {},
         NEW x \in ElmType, NEW e1 \in Grown(e, c + 1)
  PROVE  RowDone(d, N, rows, Tail(t), e, n, [e1 EXCEPT ![c] = x],
                 o + Cardinality(KidsOf(N, Head(t))), c + 1)
<1>1. c \in Nat /\ c + 1 \in Nat \ {0} /\ Head(t) = rows[c + 1] /\ c + 1 \in 1 .. Len(rows)
      /\ Head(t) \in N
  BY RowNext DEF RowsLaid
<1>2. c \in 0 .. n - 1 => e[c] = Free
  BY RowFree
<1>3. PICK m : Lays(e, n, e1, m, {}) /\ c + 1 < m
  BY <1>1, GrownIs
<1>4. Cells(e1, m) /\ Spare(e1, m)
  BY <1>3 DEF Lays
<1>5. PICK g : g = [e1 EXCEPT ![c] = x]
  OBVIOUS
<1>6. Lays(e1, m, g, m, {c})
  BY <1>1, <1>3, <1>4, <1>5, OneWritten
<1>7. Lays(e, n, g, m, {} \cup {c})
  BY <1>3, <1>6, LaysBoth
<1>8. Lays(e, n, g, m, {c})
  BY <1>7
<1>9. Laid(d, rows, c + 1, c)
  BY <1>1 DEF Laid
<1>10. ASSUME NEW l \in 1 .. Len(rows), EndOf(d, rows, c + 1, l)
       PROVE  FALSE
  <2>1. Head(t) \in DOMAIN d /\ rows[l] = Append(Head(t), 0) /\ rows[l] \in N
    BY <1>1, <1>10, RowsPlaced DEF EndOf, File
  <2>2. Head(t) \in Seq(Nat) /\ N \subseteq Seq(Nat)
    BY <1>1 DEF File, Tree
  <2>3. rows[l] # <<>> /\ Front(rows[l]) = Head(t)
    <3>1. PICK h, r : h = Head(t) /\ r = Append(h, 0) /\ h \in Seq(Nat)
      BY <2>2
    <3>2. r # <<>> /\ Front(r) = h
      BY <3>1, AppendIs
    <3> QED
      BY <2>1, <3>1, <3>2
  <2>4. rows[l] \in KidsOf(N, Head(t))
    BY <2>1, <2>2, <2>3, KidIs
  <2> QED
    BY <2>1, <2>4
<1>11. RowsLaid(d, N, rows, Tail(t), g, m, o + Cardinality(KidsOf(N, Head(t))), c + 1)
       /\ Kept(e, n, g) /\ Cells(g, m) /\ Spare(g, m)
  BY <1>2, <1>3, <1>8, <1>9, <1>10, RowWritten
<1> QED
  BY <1>5, <1>11 DEF RowDone

(* The row that closes a word: its element is written and is not the last. *)
LEMMA EndPassed ==
  ASSUME NEW d, NEW N, NEW rows, File(d, N, rows), NEW t, NEW e, NEW n, NEW o, NEW c,
         RowsLaid(d, N, rows, t, e, n, o, c), t # <<>>, Cells(e, n), Spare(e, n),
         Head(t) \notin DOMAIN d, KidsOf(N, Head(t)) = {}
  PROVE  RowDone(d, N, rows, Tail(t), e, n, e, o, c + 1)
<1>1. /\ c \in Nat /\ o \in Nat /\ Head(t) = rows[c + 1] /\ c + 1 \in 1 .. Len(rows)
      /\ Head(t) \in N /\ Len(rows) \in Nat
  BY RowNext DEF RowsLaid
<1>2. PICK w \in DOMAIN d : rows[c + 1] = Append(w, 0)
  BY <1>1 DEF File, Ends
<1>3. w \in N /\ w \in Seq(Nat)
  BY DEF File, Ends
<1>4. PICK k \in 1 .. Len(rows) : rows[k] = w
  BY <1>3, RowsPlaced DEF File
<1>5. EndOf(d, rows, k, c + 1)
  BY <1>2, <1>4 DEF EndOf
<1>6. k \in 1 .. c
  <2>1. Len(Append(w, 0)) = Len(w) + 1 /\ Len(w) \in Nat
    BY <1>3, AppendIs
  <2>2. Before(rows[k], rows[c + 1])
    BY <1>2, <1>4, <2>1 DEF Before
  <2>3. \A i, j \in 1 .. Len(rows) : Before(rows[i], rows[j]) <=> i < j
    BY RowsPlaced DEF File
  <2>4. k < c + 1
    BY <1>1, <2>2, <2>3
  <2> QED
    BY <1>1, <2>4
<1>7. c + 1 < n
  BY <1>1, <1>5, <1>6 DEF RowsLaid, EndsFit
<1>8. n \in Nat
  BY DEF Cells
<1>9. Lays(e, n, e, n, {})
  BY <1>8 DEF Lays
<1>10. ASSUME NEW l \in 1 .. Len(rows), EndOf(d, rows, c + 1, l)
       PROVE  FALSE
  BY <1>1, <1>10 DEF EndOf
<1>11. RowsLaid(d, N, rows, Tail(t), e, n, o + Cardinality(KidsOf(N, Head(t))), c + 1)
       /\ Kept(e, n, e)
  BY <1>7, <1>9, <1>10, RowWritten
<1>12. o + Cardinality(KidsOf(N, Head(t))) = o
  <2>1. Cardinality(KidsOf(N, Head(t))) = 0
    BY FS_EmptySet
  <2> QED
    BY <1>1, <2>1
<1> QED
  BY <1>11, <1>12 DEF RowDone

(* When no row is left, every row has its element. *)
LEMMA AllRowsLaid ==
  ASSUME NEW d, NEW N, NEW rows, File(d, N, rows), NEW t, NEW e, NEW n, NEW o, NEW c,
         RowsLaid(d, N, rows, t, e, n, o, c), t = <<>>, Cells(e, n)
  PROVE  Cardinality(N) <= n
<1>1. Len(rows) \in Nat /\ Len(rows) = Cardinality(N)
  BY RowsPlaced DEF File
<1>2. c \in Nat /\ Len(t) = Len(rows) - c /\ Len(t) = 0 /\ n \in Nat /\ (c = 0 \/ c < n)
  BY DEF RowsLaid, Upto, Cells
<1> QED
  BY <1>1, <1>2

-----------------------------------------------------------------------------
(* A Trie that is laid out: t is the queue of its nodes, o is where the    *)
(* next children go.                                                       *)
Entry(N) == [node : N, slot : Nat]

Queued(N, t, o) ==
  /\ t \in Seq(Entry(N)) /\ o \in Nat /\ o - Len(t) \in Nat
  /\ \A k \in 1 .. Len(t) : t[k].slot = o - Len(t) + k - 1
  /\ \A k, l \in 1 .. Len(t) : t[k].node = t[l].node => k = l

InQueue(t, n) == \E k \in 1 .. Len(t) : t[k].node = n

(* The nodes in D are laid out; behind them are they and the queue.        *)
Walked(N, t, D) ==
  /\ D \subseteq N /\ \A k \in 1 .. Len(t) : t[k].node \notin D
  /\ \A n \in N : (n = <<>> \/ Front(n) \in D) <=> (n \in D \/ InQueue(t, n))

QueueLaid(N, t, e, n, o) ==
  /\ Queued(N, t, o)
  /\ \E D : Walked(N, t, D) /\ IsFiniteSet(D) /\ Cardinality(D) = o - Len(t)
  /\ o - Len(t) = 0 \/ o - Len(t) < n
  /\ \A i \in 0 .. n - 1 : e[i] # Free => i < o - Len(t)

Behind1(t, kids, o) ==
  Tail(t) \o [k \in 1 .. Len(kids) |-> [node |-> kids[k], slot |-> o + k - 1]]

LEMMA QueueNext ==
  ASSUME NEW N, NEW t, NEW o, Queued(N, t, o), t # <<>>,
         NEW kids, AllKids(kids, N, Head(t).node), NEW u, u = Behind1(t, kids, o)
  PROVE  /\ Head(t) = t[1] /\ Head(t).node \in N /\ Head(t).slot = o - Len(t)
         /\ Len(t) \in Nat \ {0} /\ Len(kids) \in Nat
         /\ u \in Seq(Entry(N)) /\ Len(u) = Len(t) - 1 + Len(kids)
         /\ \A k \in 1 .. Len(t) - 1 : u[k] = t[k + 1]
         /\ \A k \in 1 .. Len(kids) :
              u[Len(t) - 1 + k] = [node |-> kids[k], slot |-> o + k - 1]
<1>1. Len(t) \in Nat \ {0} /\ o \in Nat /\ t \in Seq(Entry(N))
  BY EmptySeq DEF Queued
<1>2. /\ Head(t) = t[1] /\ t[1] \in Entry(N) /\ Tail(t) \in Seq(Entry(N))
      /\ Len(Tail(t)) = Len(t) - 1
      /\ \A k \in 1 .. Len(t) - 1 : Tail(t)[k] = t[k + 1]
  BY <1>1, HeadTailProperties, ElementOfSeq
<1>3. Head(t).node \in N /\ Head(t).slot = o - Len(t)
  <2>1. Head(t).node \in N
    BY <1>2 DEF Entry
  <2>2. 1 \in 1 .. Len(t)
    BY <1>1
  <2>3. t[1].slot = o - Len(t) + 1 - 1
    BY <2>2 DEF Queued
  <2>4. o - Len(t) + 1 - 1 = o - Len(t)
    BY <1>1
  <2> QED
    BY <1>2, <2>1, <2>3, <2>4
<1>4. Len(kids) \in Nat /\ \A k \in 1 .. Len(kids) : kids[k] \in N
  BY DEF AllKids, KidsOf
<1>5. PICK q : q = [k \in 1 .. Len(kids) |-> [node |-> kids[k], slot |-> o + k - 1]]
  OBVIOUS
<1>6. u = Tail(t) \o q
  BY <1>5 DEF Behind1
<1>7. q \in Seq(Entry(N)) /\ Len(q) = Len(kids)
  <2>1. ASSUME NEW k \in 1 .. Len(kids)
        PROVE  [node |-> kids[k], slot |-> o + k - 1] \in Entry(N)
    <3>1. o + k - 1 \in Nat
      BY <1>1, <1>4
    <3> QED
      BY <1>4, <3>1 DEF Entry
  <2>2. q \in [1 .. Len(kids) -> Entry(N)]
    BY <1>5, <2>1
  <2> QED
    BY <1>4, <2>2, FunctionSeq
<1>8. /\ u \in Seq(Entry(N)) /\ Len(u) = Len(Tail(t)) + Len(q)
      /\ \A k \in 1 .. Len(Tail(t)) + Len(q) :
           u[k] = IF k <= Len(Tail(t)) THEN Tail(t)[k] ELSE q[k - Len(Tail(t))]
  <2>1. PICK S : S = Entry(N)
    OBVIOUS
  <2>2. PICK r : r = Tail(t)
    OBVIOUS
  <2>3. r \in Seq(S) /\ q \in Seq(S) /\ u = r \o q
    BY <1>2, <1>6, <1>7, <2>1, <2>2
  <2>4. /\ u \in Seq(S) /\ Len(u) = Len(r) + Len(q)
        /\ \A k \in 1 .. Len(r) + Len(q) : u[k] = IF k <= Len(r) THEN r[k] ELSE q[k - Len(r)]
    <3> HIDE <2>1, <2>2
    <3>1. /\ r \o q \in Seq(S) /\ Len(r \o q) = Len(r) + Len(q)
          /\ \A k \in 1 .. Len(r) + Len(q) : (r \o q)[k] = IF k <= Len(r) THEN r[k] ELSE q[k - Len(r)]
      BY <2>3, ConcatProperties, Zenon
    <3> QED
      BY <2>3, <3>1, Zenon
  <2> QED
    BY <2>1, <2>2, <2>4
<1>9. ASSUME NEW k \in 1 .. Len(t) - 1
      PROVE  u[k] = t[k + 1]
  <2>1. k \in 1 .. Len(Tail(t)) + Len(q) /\ k <= Len(Tail(t))
    BY <1>1, <1>2, <1>4, <1>7
  <2> QED
    BY <1>2, <1>8, <2>1
<1>10. ASSUME NEW k \in 1 .. Len(kids)
       PROVE  u[Len(t) - 1 + k] = [node |-> kids[k], slot |-> o + k - 1]
  <2>1. PICK i : i = Len(t) - 1 + k
    OBVIOUS
  <2>2. i \in 1 .. Len(Tail(t)) + Len(q) /\ ~(i <= Len(Tail(t))) /\ i - Len(Tail(t)) = k
    BY <1>1, <1>2, <1>4, <1>7, <2>1
  <2>3. u[i] = q[k]
    BY <1>8, <2>2
  <2> QED
    BY <1>5, <2>1, <2>3
<1>11. Len(u) = Len(t) - 1 + Len(kids)
  BY <1>2, <1>7, <1>8
<1> QED
  BY <1>1, <1>2, <1>3, <1>4, <1>8, <1>9, <1>10, <1>11

(* The node at the head is laid out, its children are queued. *)
LEMMA NodeWalked ==
  ASSUME NEW N, Tree(N), NEW t, NEW o, Queued(N, t, o), t # <<>>,
         NEW D, Walked(N, t, D), NEW kids, AllKids(kids, N, Head(t).node)
  PROVE  /\ Queued(N, Behind1(t, kids, o), o + Len(kids))
         /\ Walked(N, Behind1(t, kids, o), D \cup {Head(t).node})
         /\ Head(t).node \notin D
<1>1. PICK u, p, L, K : u = Behind1(t, kids, o) /\ p = Head(t).node /\ L = Len(t) /\ K = Len(kids)
  OBVIOUS
<1>2. /\ Head(t) = t[1] /\ p \in N /\ L \in Nat \ {0} /\ K \in Nat
      /\ u \in Seq(Entry(N)) /\ Len(u) = L - 1 + K
      /\ \A k \in 1 .. L - 1 : u[k] = t[k + 1]
      /\ \A k \in 1 .. K : u[L - 1 + k] = [node |-> kids[k], slot |-> o + k - 1]
  <2>1. /\ Head(t) = t[1] /\ Head(t).node \in N /\ Len(t) \in Nat \ {0} /\ Len(kids) \in Nat
        /\ u \in Seq(Entry(N)) /\ Len(u) = Len(t) - 1 + Len(kids)
        /\ \A k \in 1 .. Len(t) - 1 : u[k] = t[k + 1]
        /\ \A k \in 1 .. Len(kids) :
             u[Len(t) - 1 + k] = [node |-> kids[k], slot |-> o + k - 1]
    BY <1>1, QueueNext
  <2> QED
    BY <1>1, <2>1, Zenon
<1>3. /\ o \in Nat /\ o - L \in Nat
      /\ \A k \in 1 .. L : t[k].slot = o - L + k - 1
      /\ \A k, l \in 1 .. L : t[k].node = t[l].node => k = l
      /\ 1 \in 1 .. L /\ t[1].node = p
  BY <1>1, <1>2 DEF Queued
<1>4. /\ \A k \in 1 .. K : kids[k] \in KidsOf(N, p)
      /\ \A k, l \in 1 .. K : kids[k] = kids[l] => k = l
      /\ \A n \in KidsOf(N, p) : \E k \in 1 .. K : kids[k] = n
  BY <1>1 DEF AllKids
<1>5. p \notin D /\ InQueue(t, p) /\ p \in Seq(Nat)
  <2>1. t[1].node \notin D
    BY <1>1, <1>3 DEF Walked
  <2>2. \E k \in 1 .. Len(t) : t[k].node = p
    BY <1>1, <1>3
  <2> QED
    BY <1>2, <1>3, <2>1, <2>2 DEF InQueue, Tree
<1>6. ASSUME NEW n \in N
      PROVE  n \in KidsOf(N, p) <=> n # <<>> /\ Front(n) = p
  BY <1>5, KidIs DEF Tree
<1>7. ASSUME NEW n \in KidsOf(N, p)
      PROVE  n \in N /\ n \notin D /\ ~InQueue(t, n) /\ n # p /\ n # <<>> /\ Front(n) = p
  <2>1. n \in N /\ n # <<>> /\ Front(n) = p /\ n \in Seq(Nat)
    BY <1>6 DEF KidsOf, Tree
  <2>2. n \notin D /\ ~InQueue(t, n)
    BY <1>5, <2>1 DEF Walked
  <2> QED
    BY <1>5, <2>1, <2>2
<1>8. ASSUME NEW k \in 1 .. Len(u)
      PROVE  \/ k \in 1 .. L - 1 /\ k + 1 \in 1 .. L /\ u[k] = t[k + 1]
             \/ \E j \in 1 .. K : k = L - 1 + j /\ u[k].node = kids[j] /\ u[k].slot = o + j - 1
  <2>1. CASE k \in 1 .. L - 1
    <3>1. k + 1 \in 1 .. L
      BY <1>2, <2>1
    <3> QED
      BY <1>2, <2>1, <3>1
  <2>2. CASE k \notin 1 .. L - 1
    <3>1. PICK j : j = k - (L - 1)
      OBVIOUS
    <3>2. j \in 1 .. K /\ k = L - 1 + j
      BY <1>2, <2>2, <3>1
    <3>3. u[L - 1 + j] = [node |-> kids[j], slot |-> o + j - 1]
      BY <1>2, <3>2
    <3> QED
      BY <3>2, <3>3
  <2> QED
    BY <2>1, <2>2
<1>9. PICK v, z : v = o + K /\ z = o - L + 1
  OBVIOUS
<1>10. ASSUME NEW k \in 1 .. Len(u)
       PROVE  u[k].slot = z + k - 1
  <2>1. CASE k \in 1 .. L - 1 /\ k + 1 \in 1 .. L /\ u[k] = t[k + 1]
    <3>1. u[k].slot = o - L + (k + 1) - 1
      BY <1>3, <2>1
    <3>2. z + k - 1 = o - L + (k + 1) - 1
      BY <1>2, <1>3, <1>9
    <3> QED
      BY <3>1, <3>2
  <2>2. ASSUME NEW j \in 1 .. K, k = L - 1 + j, u[k].slot = o + j - 1
        PROVE  u[k].slot = z + k - 1
    <3>1. z + k - 1 = o + j - 1
      BY <1>2, <1>3, <1>9, <2>2
    <3> QED
      BY <2>2, <3>1
  <2> QED
    BY <1>8, <2>1, <2>2
<1>11. ASSUME NEW k \in 1 .. Len(u)
       PROVE  u[k].node \notin D /\ u[k].node # p
  <2>1. CASE k \in 1 .. L - 1 /\ k + 1 \in 1 .. L /\ u[k] = t[k + 1]
    <3>1. t[k + 1].node \notin D
      BY <1>1, <2>1 DEF Walked
    <3>2. k + 1 # 1
      BY <1>2, <2>1
    <3>3. t[k + 1].node # p
      BY <1>3, <2>1, <3>2
    <3> QED
      BY <2>1, <3>1, <3>3
  <2>2. ASSUME NEW j \in 1 .. K, u[k].node = kids[j]
        PROVE  u[k].node \notin D /\ u[k].node # p
    BY <1>4, <1>7, <2>2
  <2> QED
    BY <1>8, <2>1, <2>2
<1>12. ASSUME NEW k \in 1 .. Len(u), NEW l \in 1 .. Len(u), u[k].node = u[l].node, k < l
       PROVE  FALSE
  <2>1. CASE l \in 1 .. L - 1 /\ l + 1 \in 1 .. L /\ u[l] = t[l + 1]
    <3>1. k \in 1 .. L - 1 /\ k + 1 \in 1 .. L
      BY <1>2, <1>12, <2>1
    <3>2. u[k] = t[k + 1]
      BY <1>2, <3>1
    <3>3. k + 1 = l + 1
      BY <1>3, <1>12, <2>1, <3>1, <3>2
    <3> QED
      BY <1>12, <3>3
  <2>2. ASSUME NEW j \in 1 .. K, l = L - 1 + j, u[l].node = kids[j]
        PROVE  FALSE
    <3>1. CASE k \in 1 .. L - 1 /\ k + 1 \in 1 .. L /\ u[k] = t[k + 1]
      <4>1. t[k + 1].node = kids[j]
        BY <1>12, <2>2, <3>1
      <4>2. InQueue(t, kids[j])
        BY <1>1, <3>1, <4>1 DEF InQueue
      <4> QED
        BY <1>4, <1>7, <4>2
    <3>2. ASSUME NEW i \in 1 .. K, k = L - 1 + i, u[k].node = kids[i]
          PROVE  FALSE
      <4>1. i = j
        BY <1>4, <1>12, <2>2, <3>2
      <4> QED
        BY <1>2, <1>12, <2>2, <3>2, <4>1
    <3> QED
      BY <1>8, <3>1, <3>2
  <2> QED
    BY <1>8, <2>1, <2>2
<1>13. \A k, l \in 1 .. Len(u) : u[k].node = u[l].node => k = l
  <2> SUFFICES ASSUME NEW k \in 1 .. Len(u), NEW l \in 1 .. Len(u), u[k].node = u[l].node
               PROVE  k = l
    OBVIOUS
  <2>1. ~(k < l) /\ ~(l < k)
    BY <1>12
  <2> QED
    BY <2>1
<1>14. Queued(N, u, v)
  <2>1. v \in Nat /\ z \in Nat /\ v - Len(u) = z
    <3>1. o \in Nat /\ K \in Nat /\ L \in Nat /\ o - L \in Nat
      BY <1>2, <1>3
    <3>2. Len(u) = L - 1 + K
      BY <1>2
    <3>3. v \in Nat /\ z \in Nat /\ v = o + K /\ z = o - L + 1
      BY <1>9, <3>1
    <3>4. v - (L - 1 + K) = z
      BY <3>1, <3>3
    <3> QED
      BY <3>2, <3>3, <3>4
  <2>2. \A k \in 1 .. Len(u) : u[k].slot = v - Len(u) + k - 1
    BY <1>10, <2>1
  <2>3. u \in Seq(Entry(N)) /\ v - Len(u) \in Nat
    BY <1>2, <2>1
  <2> QED
    BY <1>13, <2>1, <2>2, <2>3 DEF Queued
<1>15. ASSUME NEW n \in N
       PROVE  InQueue(u, n) <=> (InQueue(t, n) /\ n # p) \/ n \in KidsOf(N, p)
  <2>1. ASSUME InQueue(u, n)
        PROVE  (InQueue(t, n) /\ n # p) \/ n \in KidsOf(N, p)
    <3>1. PICK k \in 1 .. Len(u) : u[k].node = n
      BY <2>1 DEF InQueue
    <3>2. CASE k \in 1 .. L - 1 /\ k + 1 \in 1 .. L /\ u[k] = t[k + 1]
      <4>1. InQueue(t, n)
        BY <1>1, <3>1, <3>2 DEF InQueue
      <4> QED
        BY <1>11, <3>1, <4>1
    <3>3. ASSUME NEW j \in 1 .. K, u[k].node = kids[j]
          PROVE  n \in KidsOf(N, p)
      BY <1>4, <3>1, <3>3
    <3> QED
      BY <1>8, <3>2, <3>3
  <2>2. ASSUME InQueue(t, n), n # p
        PROVE  InQueue(u, n)
    <3>1. PICK k \in 1 .. L : t[k].node = n
      BY <1>1, <2>2 DEF InQueue
    <3>2. k # 1
      BY <1>3, <2>2, <3>1
    <3>3. PICK i : i = k - 1
      OBVIOUS
    <3>4. i \in 1 .. L - 1 /\ i \in 1 .. Len(u) /\ k = i + 1
      BY <1>2, <3>2, <3>3
    <3>5. u[i] = t[k]
      BY <1>2, <3>4
    <3> QED
      BY <3>1, <3>4, <3>5 DEF InQueue
  <2>3. ASSUME n \in KidsOf(N, p)
        PROVE  InQueue(u, n)
    <3>1. PICK j \in 1 .. K : kids[j] = n
      BY <1>4, <2>3
    <3>2. PICK k : k = L - 1 + j
      OBVIOUS
    <3>3. k \in 1 .. Len(u)
      BY <1>2, <3>2
    <3>4. u[k].node = kids[j]
      <4>1. u[L - 1 + j] = [node |-> kids[j], slot |-> o + j - 1]
        BY <1>2
      <4> QED
        BY <3>2, <4>1
    <3> QED
      BY <3>1, <3>3, <3>4 DEF InQueue
  <2> QED
    BY <2>1, <2>2, <2>3
<1>16. ASSUME NEW n \in N
       PROVE  (n = <<>> \/ Front(n) \in D \cup {p}) <=> (n \in D \cup {p} \/ InQueue(u, n))
  <2>1. (n = <<>> \/ Front(n) \in D) <=> (n \in D \/ InQueue(t, n))
    BY DEF Walked
  <2>2. n \in KidsOf(N, p) <=> n # <<>> /\ Front(n) = p
    BY <1>6
  <2>3. InQueue(u, n) <=> (InQueue(t, n) /\ n # p) \/ n \in KidsOf(N, p)
    BY <1>15
  <2> QED
    BY <1>5, <2>1, <2>2, <2>3
<1>17. D \cup {p} \subseteq N
  BY <1>2 DEF Walked
<1>18. Walked(N, u, D \cup {p})
  BY <1>11, <1>16, <1>17 DEF Walked
<1> QED
  BY <1>1, <1>5, <1>9, <1>14, <1>18

NodeDone(N, t, e, n, g, o) ==
  \E m : QueueLaid(N, t, g, m, o) /\ Kept(e, n, g) /\ Cells(g, m) /\ Spare(g, m)

LEMMA NodeLaid ==
  ASSUME NEW N, Tree(N), NEW t, NEW e, NEW n, NEW o, QueueLaid(N, t, e, n, o), t # <<>>,
         Cells(e, n), Spare(e, n), NEW kids, AllKids(kids, N, Head(t).node),
         NEW x \in ElmType, NEW e1 \in Grown(e, Head(t).slot + 1)
  PROVE  NodeDone(N, Behind1(t, kids, o), e, n, [e1 EXCEPT ![Head(t).slot] = x], o + Len(kids))
<1>1. PICK u, p, c, K : u = Behind1(t, kids, o) /\ p = Head(t).node /\ c = Head(t).slot /\ K = Len(kids)
  OBVIOUS
<1>2. Queued(N, t, o)
  BY DEF QueueLaid
<1>3. /\ c = o - Len(t) /\ c \in Nat /\ o \in Nat /\ Len(t) \in Nat \ {0} /\ K \in Nat
      /\ Len(u) = Len(t) - 1 + K
  <2>1. /\ c = o - Len(t) /\ Len(t) \in Nat \ {0} /\ K \in Nat
        /\ Len(u) = Len(t) - 1 + K
    <3>1. /\ Head(t).slot = o - Len(t) /\ Len(t) \in Nat \ {0} /\ Len(kids) \in Nat
          /\ Len(u) = Len(t) - 1 + Len(kids)
      BY <1>1, <1>2, QueueNext
    <3> QED
      BY <1>1, <3>1
  <2> QED
    BY <1>2, <2>1 DEF Queued
<1>4. PICK D : Walked(N, t, D) /\ IsFiniteSet(D) /\ Cardinality(D) = c
  BY <1>3 DEF QueueLaid
<1>5. Queued(N, u, o + K) /\ Walked(N, u, D \cup {p}) /\ p \notin D
  BY <1>1, <1>2, <1>4, NodeWalked
<1>6. o + K - Len(u) = c + 1
  BY <1>3
<1>7. IsFiniteSet(D \cup {p}) /\ Cardinality(D \cup {p}) = c + 1
  BY <1>4, <1>5, FS_AddElement
<1>8. PICK m : Lays(e, n, e1, m, {}) /\ c + 1 < m
  <2>1. c + 1 \in Nat \ {0}
    BY <1>3
  <2> QED
    BY <1>1, <2>1, GrownIs
<1>9. Cells(e1, m) /\ Spare(e1, m)
  BY <1>8 DEF Lays
<1>10. PICK g : g = [e1 EXCEPT ![c] = x]
  OBVIOUS
<1>11. Lays(e1, m, g, m, {c})
  BY <1>3, <1>8, <1>9, <1>10, OneWritten
<1>12. Lays(e, n, g, m, {} \cup {c})
  BY <1>8, <1>11, LaysBoth
<1>13. Lays(e, n, g, m, {c}) /\ n \in Nat /\ m \in Nat /\ n <= m
  BY <1>9, <1>12 DEF Cells, Lays
<1>14. \A i \in 0 .. n - 1 : e[i] # Free => i < c
  BY <1>3 DEF QueueLaid
<1>15. ASSUME NEW i \in 0 .. m - 1, g[i] # Free
       PROVE  i < c + 1
  <2>1. CASE i = c
    BY <1>3, <2>1
  <2>2. CASE i # c
    <3>1. i < n /\ e[i] # Free
      BY <1>13, <1>15, <2>2 DEF Lays
    <3>2. i \in 0 .. n - 1
      BY <1>13, <3>1
    <3>3. i < c
      BY <1>14, <3>1, <3>2
    <3> QED
      BY <1>3, <3>3
  <2> QED
    BY <2>1, <2>2
<1>16. ASSUME NEW i \in 0 .. n - 1, e[i] # Free
       PROVE  g[i] = e[i]
  <2>1. i < c
    BY <1>14, <1>16
  <2>2. i \in 0 .. m - 1 /\ i \notin {c} /\ i < n
    BY <1>3, <1>13, <2>1
  <2>3. \A j \in 0 .. m - 1 : j \notin {c} => g[j] = IF j < n THEN e[j] ELSE Free
    BY <1>13 DEF Lays
  <2> QED
    BY <2>2, <2>3
<1>17. QueueLaid(N, u, g, m, o + K)
  <2>1. PICK v, B : v = o + K /\ B = D \cup {p}
    OBVIOUS
  <2>2. v - Len(u) = c + 1
    BY <1>3, <2>1
  <2>3. Queued(N, u, v) /\ Walked(N, u, B) /\ IsFiniteSet(B) /\ Cardinality(B) = v - Len(u)
    BY <1>5, <1>7, <2>1, <2>2
  <2>4. v - Len(u) < m
    BY <1>8, <2>2
  <2>5. \A i \in 0 .. m - 1 : g[i] # Free => i < v - Len(u)
    BY <1>15, <2>2
  <2>6. QueueLaid(N, u, g, m, v)
    BY <2>3, <2>4, <2>5 DEF QueueLaid
  <2> QED
    BY <2>1, <2>6
<1>18. Cells(g, m) /\ Spare(g, m)
  BY <1>13 DEF Lays
<1> QED
  BY <1>1, <1>10, <1>16, <1>17, <1>18 DEF NodeDone, Kept

LEMMA QueueBegins ==
  ASSUME NEW N, Tree(N), NEW e
  PROVE  QueueLaid(N, << [node |-> <<>>, slot |-> 0] >>, e, 0, 1)
<1>1. PICK t : t = << [node |-> <<>>, slot |-> 0] >>
  OBVIOUS
<1>2. Len(t) = 1 /\ t[1].node = <<>> /\ t[1].slot = 0 /\ <<>> \in N
  BY <1>1 DEF Tree
<1>3. t \in Seq(Entry(N))
  <2>1. [node |-> <<>>, slot |-> 0] \in Entry(N)
    BY <1>2 DEF Entry
  <2> QED
    BY <1>1, <2>1
<1>4. Queued(N, t, 1)
  BY <1>2, <1>3 DEF Queued
<1>5. Walked(N, t, {})
  BY <1>2 DEF Walked, InQueue
<1>6. IsFiniteSet({}) /\ Cardinality({}) = 1 - Len(t)
  BY <1>2, FS_EmptySet
<1> QED
  BY <1>1, <1>2, <1>4, <1>5, <1>6 DEF QueueLaid

(* When the queue is empty, every node has its element. *)
LEMMA AllNodesLaid ==
  ASSUME NEW N, Tree(N), NEW t, NEW e, NEW n, NEW o, QueueLaid(N, t, e, n, o), t = <<>>,
         Cells(e, n)
  PROVE  Cardinality(N) <= n
<1>1. PICK D : Walked(N, t, D) /\ Cardinality(D) = o - Len(t)
  BY DEF QueueLaid
<1>2. D \subseteq N /\ \A x \in N : (x = <<>> \/ Front(x) \in D) <=> x \in D
  BY <1>1 DEF Walked, InQueue
<1> DEFINE out == {l \in Nat : \E x \in N \ D : Len(x) = l}
<1>3. ASSUME out # {}
      PROVE  FALSE
  <2>1. out \subseteq Nat
    OBVIOUS
  <2>2. PICK l \in out : \A j \in out : ~(<< j, l >> \in OpToRel(<, Nat))
    BY <1>3, <2>1, NatLessThanWellFounded, WFMin
  <2>3. PICK x \in N \ D : Len(x) = l
    OBVIOUS
  <2>4. x # <<>> /\ Front(x) \notin D /\ x \in Seq(Nat)
    BY <1>2 DEF Tree
  <2>5. Front(x) \in N /\ Len(x) \in Nat \ {0} /\ Len(Front(x)) = Len(x) - 1
    BY <2>4, FrontIs DEF Tree
  <2>6. Len(Front(x)) \in Nat /\ Len(Front(x)) < l /\ Len(Front(x)) \in out
    BY <2>3, <2>4, <2>5
  <2> QED
    BY <2>2, <2>6 DEF OpToRel
<1>4. N \subseteq D
  <2> SUFFICES ASSUME NEW x \in N, x \notin D PROVE FALSE
    OBVIOUS
  <2>1. Len(x) \in Nat
    BY DEF Tree
  <2>2. Len(x) \in out
    BY <2>1
  <2> QED
    BY <1>3, <2>2
<1>5. Cardinality(N) = o - Len(t)
  <2>1. N = D
    BY <1>2, <1>4
  <2> QED
    BY <1>1, <2>1
<1>6. o \in Nat /\ Len(t) = 0 /\ n \in Nat /\ (o - Len(t) = 0 \/ o - Len(t) < n)
  BY DEF QueueLaid, Queued, Cells
<1> QED
  BY <1>5, <1>6

-----------------------------------------------------------------------------
(* The invariant. *)
Layout == FileNodes(dict, format)
Count == Cardinality(DOMAIN elm)

Heads ==
  /\ dict \in Dicts /\ format \in {"compact", "terminated", "trie"}
  /\ size \in Nat /\ offset \in Nat /\ cur \in Nat
  /\ phase \in {"fill", "build", "ready", "save", "saved", "loaded"}
  /\ \A p \in DOMAIN trie : trie[p] \in Nat \cup {-1}

ArrayInv == Cells(elm, Count) /\ (phase # "loaded" => Spare(elm, Count))

(* A Trie that is filled has the nodes of the words that were added; then  *)
(* it has those of a file in which every word is closed.                   *)
NodesInv == phase # "fill" => Nodes = Layout

FillInv ==
  phase = "fill" =>
    /\ format = "trie" /\ todo = << [node |-> <<>>, slot |-> 0] >> /\ offset = 1 /\ Count = 0
    /\ DOMAIN trie \subseteq Layout /\ <<>> \in DOMAIN trie
    /\ \A w \in DOMAIN dict :
         Append(w, 0) \in DOMAIN trie => Prefixes(Append(w, 0)) \subseteq DOMAIN trie

RowsInv ==
  phase = "build" /\ format # "trie" =>
    RowsLaid(dict, Layout, Rows(dict, format), todo, elm, Count, offset, cur)

QueueInv ==
  phase = "build" /\ format = "trie" => QueueLaid(Layout, todo, elm, Count, offset)

(* A finished array has an element for every node. *)
DoneInv == phase \in {"ready", "save", "saved"} => Cardinality(Layout) <= Count

FileInv ==
  /\ file.count \in Nat /\ file.elms \in Seq(ElmType) /\ Len(file.elms) <= file.count
  /\ file = [head |-> file.head, count |-> file.count, elms |-> file.elms, failed |-> file.failed]
  /\ phase \in {"save", "saved"} =>
       /\ file.count = Count
       /\ \A k \in 1 .. Len(file.elms) : file.elms[k] = elm[k - 1]
  /\ phase = "saved" /\ ~file.failed => Len(file.elms) = file.count

IInv ==
  /\ Heads /\ ArrayInv /\ NodesInv /\ FillInv /\ RowsInv /\ QueueInv /\ DoneInv /\ FileInv

(* While the array is laid out, what is written stays. *)
KeptNow == phase = "build" => Kept(elm, Count, elm')

-----------------------------------------------------------------------------
LEMMA LayoutIs ==
  ASSUME NEW d \in Dicts, NEW f
  PROVE  File(d, FileNodes(d, f), Rows(d, f))
BY FileTree, FileEnds, RowsListed DEF File

LEMMA RowsBegin ==
  ASSUME NEW d \in Dicts, NEW f, NEW e
  PROVE  RowsLaid(d, FileNodes(d, f), Rows(d, f), Rows(d, f), e, 0, 1, 0)
<1>1. PICK N, rows : N = FileNodes(d, f) /\ rows = Rows(d, f)
  OBVIOUS
<1>2. Tree(N) /\ InOrder(rows, N)
  BY <1>1, LayoutIs DEF File
<1>3. rows \in Seq(N) /\ Len(rows) \in Nat
  BY <1>2, RowsPlaced
<1>4. Behind(N, rows, 0) = {}
  BY DEF Behind
<1>5. Cardinality(Behind(N, rows, 0)) = 0
  BY <1>4, FS_EmptySet
<1>6. Upto(N, rows, rows, 1, 0)
  BY <1>3, <1>5 DEF Upto
<1>7. RowsLaid(d, N, rows, rows, e, 0, 1, 0)
  BY <1>6 DEF RowsLaid, EndsFit, OnlyLaid
<1> QED
  BY <1>1, <1>7

LEMMA PrefixOfPrefix ==
  ASSUME NEW s \in Seq(Nat), NEW t \in Seq(Nat), NEW u \in Seq(Nat),
         IsPrefix(s, t), IsPrefix(t, u)
  PROVE  IsPrefix(s, u)
<1>1. /\ Len(s) \in Nat /\ Len(t) \in Nat /\ Len(u) \in Nat
      /\ Len(s) <= Len(t) /\ \A k \in 1 .. Len(s) : s[k] = t[k]
  BY PrefixIs
<1>2. Len(t) <= Len(u) /\ \A k \in 1 .. Len(t) : t[k] = u[k]
  BY PrefixIs
<1>3. Len(s) <= Len(u) /\ \A k \in 1 .. Len(s) : k \in 1 .. Len(t)
  BY <1>1, <1>2
<1>4. \A k \in 1 .. Len(s) : s[k] = u[k]
  BY <1>1, <1>2, <1>3
<1> QED
  BY <1>3, <1>4, PrefixIs

(* The nodes Trie::add makes are nodes of the dictionary, and all words    *)
(* together make all of them.                                              *)
LEMMA KeyNodes ==
  ASSUME NEW d \in Dicts, NEW w \in DOMAIN d
  PROVE  /\ Append(w, 0) \in Seq(Nat) /\ IsPrefix(w, Append(w, 0))
         /\ Prefixes(Append(w, 0)) \subseteq FileNodes(d, "trie")
<1>1. w \in Seq(Nat)
  BY WordIs DEF Word
<1>2. PICK e : e = Append(w, 0)
  OBVIOUS
<1>3. /\ e \in Seq(Nat) /\ Len(e) = Len(w) + 1 /\ Len(w) \in Nat
      /\ \A k \in 1 .. Len(w) : e[k] = w[k]
  BY <1>1, <1>2, AppendIs
<1>4. Len(w) <= Len(e)
  BY <1>3
<1>5. IsPrefix(w, e)
  BY <1>1, <1>3, <1>4, PrefixIs
<1>6. ASSUME NEW p \in Prefixes(e)
      PROVE  p \in FileNodes(d, "trie")
  <2>1. p \in Seq(Nat) /\ IsPrefix(p, e)
    BY <1>3, PrefixesAre
  <2>2. Len(p) \in Nat /\ Len(p) <= Len(e) /\ \A k \in 1 .. Len(p) : p[k] = e[k]
    BY <1>3, <2>1, PrefixIs
  <2>3. CASE Len(p) = Len(e)
    <3>1. p = e
      BY <1>3, <2>1, <2>2, <2>3, SeqEqual
    <3> QED
      BY <1>2, <3>1, FileNodesAre DEF InFile
  <2>4. CASE Len(p) # Len(e)
    <3>1. Len(p) <= Len(w) /\ \A k \in 1 .. Len(p) : k \in 1 .. Len(w)
      BY <1>3, <2>2, <2>4
    <3>2. \A k \in 1 .. Len(p) : p[k] = w[k]
      BY <1>3, <2>2, <3>1
    <3>3. IsPrefix(p, w)
      BY <1>1, <2>1, <3>1, <3>2, PrefixIs
    <3> QED
      BY <2>1, <3>3, FileNodesAre DEF InFile
  <2> QED
    BY <2>3, <2>4
<1> QED
  BY <1>2, <1>3, <1>5, <1>6

LEMMA KeysAll ==
  ASSUME NEW d \in Dicts, NEW T, \A w \in DOMAIN d : Prefixes(Append(w, 0)) \subseteq T
  PROVE  FileNodes(d, "trie") \subseteq T
<1> SUFFICES ASSUME NEW n \in FileNodes(d, "trie") PROVE n \in T
  OBVIOUS
<1>1. \A w \in DOMAIN d : w \in Seq(Nat)
  BY WordIs DEF Word
<1>2. \A w \in DOMAIN d : Append(w, 0) \in Seq(Nat) /\ IsPrefix(w, Append(w, 0))
  BY KeyNodes
<1>3. ASSUME NEW w \in DOMAIN d, n \in Seq(Nat), IsPrefix(n, w)
      PROVE  n \in T
  <2>1. IsPrefix(n, Append(w, 0))
    BY <1>1, <1>2, <1>3, PrefixOfPrefix
  <2>2. n \in Prefixes(Append(w, 0))
    BY <1>2, <1>3, <2>1, PrefixesAre
  <2> QED
    BY <2>2
<1>4. ASSUME NEW w \in DOMAIN d, n = Append(w, 0)
      PROVE  n \in T
  BY <1>2, <1>4, PrefixesAre
<1>5. InFile(d, "trie", n)
  BY FileNodesAre
<1> QED
  BY <1>3, <1>4, <1>5 DEF InFile

(* The last element that looks free is the last of all. *)
LEMMA LastFreeIs ==
  ASSUME NEW e, NEW n, Cells(e, n), Spare(e, n), n # 0
  PROVE  /\ LastFree(e) = n - 1 /\ Max(DOMAIN e) = n - 1
         /\ n - 1 \in DOMAIN e /\ LooksFree(e[n - 1])
<1>1. n \in Nat /\ DOMAIN e = 0 .. n - 1 /\ n - 1 \in 0 .. n - 1
  BY DEF Cells
<1>2. LooksFree(e[n - 1])
  BY FreeIs DEF Spare
<1>3. ASSUME NEW S, S \subseteq 0 .. n - 1, n - 1 \in S
      PROVE  Max(S) = n - 1
  <2>1. \A y \in S : n - 1 >= y
    BY <1>1, <1>3
  <2>2. \A x \in S : (\A y \in S : x >= y) => x = n - 1
    BY <1>1, <1>3
  <2> QED
    BY <1>3, <2>1, <2>2 DEF Max
<1>4. n - 1 \in {i \in DOMAIN e : LooksFree(e[i])} /\ {i \in DOMAIN e : LooksFree(e[i])} \subseteq 0 .. n - 1
  BY <1>1, <1>2
<1>5. LastFree(e) = n - 1
  BY <1>3, <1>4 DEF LastFree
<1>6. Max(DOMAIN e) = n - 1
  BY <1>1, <1>3
<1> QED
  BY <1>1, <1>2, <1>5, <1>6

LEMMA NoCells == Cells(<< >>, 0) /\ Spare(<< >>, 0)
<1>1. << >> \in [0 .. 0 - 1 -> ElmType]
  <2>1. 0 .. 0 - 1 = {} /\ 1 .. 0 = {}
    OBVIOUS
  <2>2. << >> \in [1 .. 0 -> ElmType]
    BY EmptySeq, LenProperties
  <2> QED
    BY <2>1, <2>2
<1>2. Cardinality(DOMAIN << >>) = 0
  BY FS_EmptySet
<1> QED
  BY <1>1, <1>2 DEF Cells, Spare

LEMMA EmptyCells ==
  ASSUME NEW e, Cells(e, 0)
  PROVE  e = << >>
<1>1. e \in [1 .. 0 -> ElmType]
  <2>1. 0 .. 0 - 1 = 1 .. 0
    OBVIOUS
  <2> QED
    BY <2>1 DEF Cells
<1>2. e \in Seq(ElmType) /\ Len(e) = 0
  BY <1>1, FunctionSeq
<1> QED
  BY <1>2, EmptySeq

LEMMA ElmIs ==
  ASSUME NEW k \in Nat, NEW w \in Nat, NEW s \in Nat
  PROVE  Elm(k, w, s) \in ElmType
BY DEF Elm, ElmType

LEMMA CharIs ==
  ASSUME NEW p \in Seq(Nat)
  PROVE  LastChar(p) \in Nat
BY FrontIs DEF LastChar

-----------------------------------------------------------------------------
(* Initially nothing is laid out. *)
LEMMA Begins0 == ASSUME Init PROVE IInv
<1>1. /\ dict \in Dicts /\ format \in {"compact", "terminated", "trie"} /\ elm = << >>
      /\ size = 0 /\ offset = 1 /\ cur = 0 /\ file = NoFile /\ trie = [p \in {<<>>} |-> -1]
      /\ phase = (IF format = "trie" THEN "fill" ELSE "build")
      /\ todo = IF format = "trie" THEN << [node |-> <<>>, slot |-> 0] >> ELSE Rows(dict, format)
  BY DEF Init
<1>2. Cells(elm, 0) /\ Spare(elm, 0) /\ Count = 0
  BY <1>1, NoCells DEF Cells, Count
<1>3. Heads
  BY <1>1 DEF Heads
<1>4. Tree(Layout) /\ File(dict, Layout, Rows(dict, format))
  BY <1>1, LayoutIs DEF File, Layout
<1>5. NodesInv
  BY <1>1 DEF NodesInv, Nodes, Layout
<1>6. FillInv
  <2>1. SUFFICES ASSUME format = "trie" PROVE FillInv
    BY <1>1 DEF FillInv
  <2>2. DOMAIN trie = {<<>>} /\ <<>> \in Layout
    BY <1>1, <1>4 DEF Tree
  <2>3. ASSUME NEW w \in DOMAIN dict
        PROVE  Append(w, 0) \notin DOMAIN trie
    <3>1. w \in Seq(Nat)
      BY <1>1, WordIs DEF Word
    <3> QED
      BY <2>2, <3>1, AppendIs
  <2> QED
    BY <1>1, <1>2, <2>1, <2>2, <2>3 DEF FillInv
<1>7. RowsInv
  BY <1>1, <1>2, RowsBegin DEF RowsInv, Layout
<1>8. QueueInv /\ DoneInv
  BY <1>1 DEF QueueInv, DoneInv
<1>9. FileInv
  <2>1. file.elms = << >> /\ file.count = 0
    BY <1>1 DEF NoFile
  <2>2. << >> \in Seq(ElmType) /\ Len(<< >>) = 0
    BY EmptySeq
  <2> QED
    BY <1>1, <2>1, <2>2 DEF FileInv, NoFile
<1> QED
  BY <1>2, <1>3, <1>5, <1>6, <1>7, <1>8, <1>9 DEF IInv, ArrayInv

(* A step of the build that lays out rows or nodes. *)
LEMMA BuildStep ==
  ASSUME IInv, phase = "build", UNCHANGED << dict, trie, format, phase, file >>,
         size' \in Nat, offset' \in Nat, cur' \in Nat,
         NEW m, Cells(elm', m), Spare(elm', m), Kept(elm, Count, elm'),
         format # "trie" =>
           RowsLaid(dict, Layout, Rows(dict, format), todo', elm', m, offset', cur'),
         format = "trie" => QueueLaid(Layout, todo', elm', m, offset')
  PROVE  IInv' /\ KeptNow
<1>1. Layout' = Layout /\ Nodes' = Nodes /\ Count' = m
  BY DEF Layout, Nodes, Count, Cells
<1>2. Heads'
  BY DEF IInv, Heads
<1>3. ArrayInv'
  BY <1>1 DEF ArrayInv
<1>4. NodesInv' /\ FillInv' /\ DoneInv'
  BY <1>1 DEF IInv, NodesInv, FillInv, DoneInv
<1>5. RowsInv' /\ QueueInv'
  BY <1>1 DEF RowsInv, QueueInv
<1>6. FileInv'
  BY DEF IInv, FileInv
<1> QED
  BY <1>2, <1>3, <1>4, <1>5, <1>6 DEF IInv, KeptNow

(* What a row that is read is. *)
LEMMA RowRead ==
  ASSUME IInv, Reading
  PROVE  /\ File(dict, Layout, Rows(dict, format)) /\ phase = "build" /\ format # "trie"
         /\ RowsLaid(dict, Layout, Rows(dict, format), todo, elm, Count, offset, cur)
         /\ todo # <<>> /\ Row = Head(todo) /\ Row \in Layout
         /\ Cells(elm, Count) /\ Spare(elm, Count)
         /\ ChildSize(Row) = Cardinality(KidsOf(Layout, Row)) /\ ChildSize(Row) \in Nat
         /\ ChildSize(Row) = 0 <=> KidsOf(Layout, Row) = {}
         /\ LastChar(Row) \in Nat
         /\ size \in Nat /\ offset \in Nat /\ cur \in Nat /\ dict \in Dicts
         /\ \A w \in DOMAIN dict : dict[w] \in Nat
<1>1. /\ phase = "build" /\ format # "trie" /\ todo # <<>> /\ Row = Head(todo)
      /\ dict \in Dicts /\ size \in Nat /\ offset \in Nat /\ cur \in Nat
      /\ Cells(elm, Count) /\ Spare(elm, Count) /\ Nodes = Layout
      /\ RowsLaid(dict, Layout, Rows(dict, format), todo, elm, Count, offset, cur)
  BY DEF IInv, Heads, ArrayInv, NodesInv, RowsInv, Reading, Row
<1>2. File(dict, Layout, Rows(dict, format))
  BY <1>1, LayoutIs DEF Layout
<1>3. Upto(Layout, Rows(dict, format), todo, offset, cur)
  BY <1>1 DEF RowsLaid
<1>4. Row \in Layout
  BY <1>1, <1>2, <1>3, RowNext
<1>5. Tree(Layout)
  BY <1>2 DEF File
<1>6. Row \in Seq(Nat) /\ IsFiniteSet(Layout)
  BY <1>4, <1>5 DEF Tree
<1>7. ChildSize(Row) = Cardinality(KidsOf(Layout, Row))
  BY <1>1 DEF ChildSize, Kids, KidsOf
<1>8. /\ Cardinality(KidsOf(Layout, Row)) \in Nat
      /\ Cardinality(KidsOf(Layout, Row)) = 0 <=> KidsOf(Layout, Row) = {}
  BY <1>6, KidsFinite
<1>9. LastChar(Row) \in Nat
  BY <1>6, CharIs
<1>10. \A w \in DOMAIN dict : dict[w] \in Nat
  BY <1>1, WordIs
<1> QED
  BY <1>1, <1>2, <1>4, <1>7, <1>8, <1>9, <1>10

LEMMA WordStep == ASSUME IInv, InsertWord PROVE IInv' /\ KeptNow
<1>1. Reading /\ Row \in DOMAIN dict /\ cur' = cur + 1 /\ todo' = Tail(todo)
      /\ UNCHANGED << dict, trie, format, phase, file >>
  BY DEF InsertWord
<1>2. PICK N, rows, n, r, K : /\ N = Layout /\ rows = Rows(dict, format) /\ n = Count
                              /\ r = Row /\ K = ChildSize(Row)
  OBVIOUS
<1>3. /\ File(dict, N, rows) /\ phase = "build" /\ format # "trie"
      /\ RowsLaid(dict, N, rows, todo, elm, n, offset, cur)
      /\ todo # <<>> /\ r = Head(todo) /\ r \in N /\ Cells(elm, n) /\ Spare(elm, n)
      /\ K = Cardinality(KidsOf(N, r)) /\ K \in Nat /\ (K = 0 <=> KidsOf(N, r) = {})
      /\ LastChar(r) \in Nat /\ size \in Nat /\ offset \in Nat /\ cur \in Nat
      /\ dict[r] \in Nat /\ r \in DOMAIN dict
  BY <1>1, <1>2, RowRead
<1>4. PICK e1 \in Grown(elm, cur + 1) :
        IF K > 0
          THEN \E f \in Grown(e1, offset + 1) :
                 /\ elm' = [f EXCEPT ![cur] = Elm(LastChar(r), offset, K),
                                     ![offset] = Elm(0, dict[r], 0)]
                 /\ offset' = offset + K
                 /\ size' = size
          ELSE /\ elm' = [e1 EXCEPT ![cur] = Elm(LastChar(r), dict[r], 0)]
               /\ offset' = offset
               /\ size' = size + 1
  BY <1>2 DEF InsertWord
<1>5. /\ RowDone(dict, N, rows, todo', elm, n, elm', offset', cur')
      /\ offset' \in Nat /\ size' \in Nat
  <2>1. CASE K > 0
    <3>1. PICK f \in Grown(e1, offset + 1) :
            /\ elm' = [f EXCEPT ![cur] = Elm(LastChar(r), offset, K),
                                ![offset] = Elm(0, dict[r], 0)]
            /\ offset' = offset + K
            /\ size' = size
      BY <1>4, <2>1
    <3>2. PICK x, y : x = Elm(LastChar(r), offset, K) /\ y = Elm(0, dict[r], 0)
      OBVIOUS
    <3>3. x \in ElmType /\ y \in ElmType
      BY <1>3, <3>2, ElmIs
    <3>4. KidsOf(N, Head(todo)) # {} /\ Head(todo) \in DOMAIN dict
      BY <1>3, <2>1
    <3>5. RowDone(dict, N, rows, Tail(todo), elm, n, [f EXCEPT ![cur] = x, ![offset] = y],
                  offset + Cardinality(KidsOf(N, Head(todo))), cur + 1)
      BY <1>3, <3>3, <3>4, WordAndValue
    <3>6. offset' \in Nat /\ size' \in Nat
      BY <1>3, <3>1
    <3> QED
      BY <1>1, <1>3, <3>1, <3>2, <3>5, <3>6
  <2>2. CASE ~(K > 0)
    <3>1. /\ elm' = [e1 EXCEPT ![cur] = Elm(LastChar(r), dict[r], 0)]
          /\ offset' = offset /\ size' = size + 1
      BY <1>4, <2>2
    <3>2. PICK x : x = Elm(LastChar(r), dict[r], 0)
      OBVIOUS
    <3>3. x \in ElmType
      BY <1>3, <3>2, ElmIs
    <3>4. K = 0
      BY <1>3, <2>2
    <3>5. Head(todo) \in DOMAIN dict <=> KidsOf(N, Head(todo)) = {}
      BY <1>3, <3>4
    <3>6. RowDone(dict, N, rows, Tail(todo), elm, n, [e1 EXCEPT ![cur] = x],
                  offset + Cardinality(KidsOf(N, Head(todo))), cur + 1)
      BY <1>3, <3>3, <3>5, RowAlone
    <3>7. offset + Cardinality(KidsOf(N, Head(todo))) = offset
      BY <1>3, <3>4
    <3>8. offset' \in Nat /\ size' \in Nat
      BY <1>3, <3>1
    <3> QED
      BY <1>1, <3>1, <3>2, <3>6, <3>7, <3>8
  <2> QED
    BY <2>1, <2>2
<1>6. PICK m : /\ RowsLaid(dict, N, rows, todo', elm', m, offset', cur')
               /\ Kept(elm, n, elm') /\ Cells(elm', m) /\ Spare(elm', m)
  BY <1>5 DEF RowDone
<1>7. cur' \in Nat
  BY <1>1, <1>3
<1> QED
  BY <1>1, <1>2, <1>3, <1>5, <1>6, <1>7, BuildStep

LEMMA PrefixStep == ASSUME IInv, InsertPrefix PROVE IInv' /\ KeptNow
<1>1. Reading /\ Row \notin DOMAIN dict /\ ChildSize(Row) > 0 /\ cur' = cur + 1
      /\ todo' = Tail(todo) /\ UNCHANGED << dict, trie, format, size, phase, file >>
      /\ offset' = offset + ChildSize(Row)
  BY DEF InsertPrefix
<1>2. PICK N, rows, n, r, K : /\ N = Layout /\ rows = Rows(dict, format) /\ n = Count
                              /\ r = Row /\ K = ChildSize(Row)
  OBVIOUS
<1>3. /\ File(dict, N, rows) /\ phase = "build" /\ format # "trie"
      /\ RowsLaid(dict, N, rows, todo, elm, n, offset, cur)
      /\ todo # <<>> /\ r = Head(todo) /\ r \in N /\ Cells(elm, n) /\ Spare(elm, n)
      /\ K = Cardinality(KidsOf(N, r)) /\ K \in Nat /\ (K = 0 <=> KidsOf(N, r) = {})
      /\ LastChar(r) \in Nat /\ size \in Nat /\ offset \in Nat /\ cur \in Nat
  BY <1>1, <1>2, RowRead
<1>4. PICK e1 \in Grown(elm, cur + 1) : elm' = [e1 EXCEPT ![cur] = Elm(LastChar(r), offset, K)]
  BY <1>2 DEF InsertPrefix
<1>5. PICK x : x = Elm(LastChar(r), offset, K)
  OBVIOUS
<1>6. x \in ElmType
  BY <1>3, <1>5, ElmIs
<1>7. K # 0 /\ (Head(todo) \in DOMAIN dict <=> KidsOf(N, Head(todo)) = {})
  BY <1>1, <1>2, <1>3
<1>8. RowDone(dict, N, rows, Tail(todo), elm, n, [e1 EXCEPT ![cur] = x],
              offset + Cardinality(KidsOf(N, Head(todo))), cur + 1)
  BY <1>3, <1>6, <1>7, RowAlone
<1>9. RowDone(dict, N, rows, todo', elm, n, elm', offset', cur')
  BY <1>1, <1>2, <1>3, <1>4, <1>5, <1>8
<1>10. PICK m : /\ RowsLaid(dict, N, rows, todo', elm', m, offset', cur')
                /\ Kept(elm, n, elm') /\ Cells(elm', m) /\ Spare(elm', m)
  BY <1>9 DEF RowDone
<1>11. cur' \in Nat /\ offset' \in Nat /\ size' \in Nat
  BY <1>1, <1>2, <1>3
<1> QED
  BY <1>1, <1>2, <1>3, <1>10, <1>11, BuildStep

LEMMA EndStep == ASSUME IInv, PassTerminator PROVE IInv' /\ KeptNow
<1>1. Reading /\ Row \notin DOMAIN dict /\ ChildSize(Row) = 0 /\ cur' = cur + 1
      /\ size' = size + 1
      /\ todo' = Tail(todo) /\ UNCHANGED << dict, trie, format, elm, offset, phase, file >>
  BY DEF PassTerminator
<1>2. PICK N, rows, n : N = Layout /\ rows = Rows(dict, format) /\ n = Count
  OBVIOUS
<1>3. /\ File(dict, N, rows) /\ phase = "build" /\ format # "trie"
      /\ RowsLaid(dict, N, rows, todo, elm, n, offset, cur)
      /\ todo # <<>> /\ Row = Head(todo) /\ Cells(elm, n) /\ Spare(elm, n)
      /\ KidsOf(N, Head(todo)) = {} /\ Head(todo) \notin DOMAIN dict
      /\ size \in Nat /\ offset \in Nat /\ cur \in Nat
  BY <1>1, <1>2, RowRead
<1>4. RowDone(dict, N, rows, Tail(todo), elm, n, elm, offset, cur + 1)
  BY <1>3, EndPassed
<1>5. RowDone(dict, N, rows, todo', elm, n, elm', offset', cur')
  BY <1>1, <1>4
<1>6. PICK m : /\ RowsLaid(dict, N, rows, todo', elm', m, offset', cur')
               /\ Kept(elm, n, elm') /\ Cells(elm', m) /\ Spare(elm', m)
  BY <1>5 DEF RowDone
<1>7. cur' \in Nat /\ offset' \in Nat /\ size' \in Nat
  BY <1>1, <1>3
<1> QED
  BY <1>1, <1>2, <1>3, <1>6, <1>7, BuildStep

LEMMA NodeStep == ASSUME IInv, BuildNode PROVE IInv' /\ KeptNow
<1>1. /\ phase = "build" /\ format = "trie" /\ todo # <<>>
      /\ UNCHANGED << dict, trie, format, cur, phase, file >>
  BY DEF BuildNode
<1>2. PICK N, n, p, c, kids : /\ N = Layout /\ n = Count /\ p = Head(todo).node
                              /\ c = Head(todo).slot /\ kids = SortedKids(p)
  OBVIOUS
<1>3. PICK e1 \in Grown(elm, c + 1) :
        elm' = [e1 EXCEPT ![c] = IF kids = <<>> THEN Elm(LastChar(p), dict[Front(p)], 0)
                                 ELSE Elm(LastChar(p), offset, Len(kids))]
  BY <1>2 DEF BuildNode
<1>4. /\ todo' = Behind1(todo, kids, offset) /\ offset' = offset + Len(kids)
      /\ size' = IF kids = <<>> THEN size + 1 ELSE size
  BY <1>2 DEF BuildNode, Behind1
<1>5. /\ dict \in Dicts /\ size \in Nat /\ offset \in Nat /\ cur \in Nat /\ Nodes = N
      /\ Cells(elm, n) /\ Spare(elm, n) /\ QueueLaid(N, todo, elm, n, offset)
      /\ N = FileNodes(dict, "trie")
  BY <1>1, <1>2 DEF IInv, Heads, ArrayInv, NodesInv, QueueInv, Layout
<1>6. Tree(N)
  BY <1>5, LayoutIs DEF File
<1>7. p \in N
  <2>1. todo \in Seq(Entry(N))
    BY <1>5 DEF QueueLaid, Queued
  <2>2. Head(todo) \in Entry(N)
    BY <1>1, <2>1, HeadTailProperties
  <2> QED
    BY <1>2, <2>2 DEF Entry
<1>8. AllKids(kids, N, p)
  BY <1>2, <1>5, <1>6, <1>7, KidsSorted
<1>9. p \in Seq(Nat) /\ LastChar(p) \in Nat /\ Len(kids) \in Nat
  BY <1>6, <1>7, <1>8, CharIs DEF Tree, AllKids
<1>10. PICK x : x = IF kids = <<>> THEN Elm(LastChar(p), dict[Front(p)], 0)
                    ELSE Elm(LastChar(p), offset, Len(kids))
  OBVIOUS
<1>11. x \in ElmType
  <2>1. CASE kids = <<>>
    <3>1. Len(kids) = 0
      BY <2>1
    <3>2. Cardinality(KidsOf(N, p)) = 0
      BY <1>8, <3>1 DEF AllKids
    <3>3. KidsOf(N, p) = {}
      BY <1>6, <3>2, KidsFinite DEF Tree
    <3>4. PICK w \in DOMAIN dict : p = Append(w, 0)
      BY <1>5, <1>7, <3>3, TrieEnds
    <3>5. w \in Seq(Nat) /\ dict[w] \in Nat
      BY <1>5, WordIs DEF Word
    <3>6. Front(p) = w
      BY <3>4, <3>5, AppendIs
    <3> QED
      BY <1>9, <1>10, <2>1, <3>5, <3>6, ElmIs
  <2>2. CASE kids # <<>>
    BY <1>5, <1>9, <1>10, <2>2, ElmIs
  <2> QED
    BY <2>1, <2>2
<1>12. NodeDone(N, Behind1(todo, kids, offset), elm, n, [e1 EXCEPT ![Head(todo).slot] = x],
                offset + Len(kids))
  BY <1>1, <1>2, <1>5, <1>6, <1>8, <1>11, NodeLaid
<1>13. NodeDone(N, todo', elm, n, elm', offset')
  BY <1>2, <1>3, <1>4, <1>10, <1>12
<1>14. PICK m : /\ QueueLaid(N, todo', elm', m, offset')
                /\ Kept(elm, n, elm') /\ Cells(elm', m) /\ Spare(elm', m)
  BY <1>13 DEF NodeDone
<1>15. cur' \in Nat /\ offset' \in Nat /\ size' \in Nat
  BY <1>1, <1>4, <1>5, <1>9
<1> QED
  BY <1>1, <1>2, <1>14, <1>15, BuildStep

(* A word is added to the Trie. *)
LEMMA KeyStep == ASSUME IInv, InsertKey PROVE IInv' /\ KeptNow
<1>1. phase = "fill" /\ UNCHANGED << dict, format, todo, elm, size, offset, cur, phase, file >>
  BY DEF InsertKey, array
<1>2. PICK w \in DOMAIN dict : trie' = Add(trie, w, dict[w])
  BY DEF InsertKey
<1>3. /\ dict \in Dicts /\ format = "trie" /\ Layout = FileNodes(dict, "trie")
      /\ todo = << [node |-> <<>>, slot |-> 0] >> /\ offset = 1 /\ Count = 0
      /\ DOMAIN trie \subseteq Layout /\ <<>> \in DOMAIN trie
      /\ \A v \in DOMAIN dict :
           Append(v, 0) \in DOMAIN trie => Prefixes(Append(v, 0)) \subseteq DOMAIN trie
      /\ \A p \in DOMAIN trie : trie[p] \in Nat \cup {-1}
  BY <1>1 DEF IInv, Heads, FillInv, Layout
<1>4. dict[w] \in Nat
  BY <1>3, WordIs
<1>5. PICK P : P = Prefixes(Append(w, 0))
  OBVIOUS
<1>6. /\ DOMAIN trie' = DOMAIN trie \cup P
      /\ \A p \in DOMAIN trie' : trie'[p] \in Nat \cup {-1}
  <2>1. trie' = [p \in DOMAIN trie \cup P |->
                   IF p = Append(w, 0) THEN dict[w] ELSE IF p \in DOMAIN trie THEN trie[p] ELSE -1]
    BY <1>2, <1>5 DEF Add
  <2>2. ASSUME NEW p \in DOMAIN trie \cup P
        PROVE  trie'[p] \in Nat \cup {-1}
    BY <1>3, <1>4, <2>1
  <2> QED
    BY <2>1, <2>2
<1>7. P \subseteq Layout /\ Append(w, 0) \in Seq(Nat)
  BY <1>3, <1>5, KeyNodes
<1>8. ASSUME NEW v \in DOMAIN dict, Append(v, 0) \in DOMAIN trie'
      PROVE  Prefixes(Append(v, 0)) \subseteq DOMAIN trie'
  <2>1. CASE Append(v, 0) \in DOMAIN trie
    BY <1>3, <1>6, <2>1
  <2>2. CASE Append(v, 0) \in P
    <3>1. PICK e, f : e = Append(v, 0) /\ f = Append(w, 0)
      OBVIOUS
    <3>2. e \in Seq(Nat) /\ f \in Seq(Nat) /\ e \in Prefixes(f)
      BY <1>3, <1>5, <1>7, <2>2, <3>1, KeyNodes
    <3>3. IsPrefix(e, f)
      BY <3>2, PrefixesAre
    <3>4. ASSUME NEW s \in Prefixes(e)
          PROVE  s \in Prefixes(f)
      <4>1. s \in Seq(Nat) /\ IsPrefix(s, e)
        BY <3>2, PrefixesAre
      <4>2. IsPrefix(s, f)
        BY <3>2, <3>3, <4>1, PrefixOfPrefix
      <4> QED
        BY <3>2, <4>1, <4>2, PrefixesAre
    <3> QED
      BY <1>5, <1>6, <3>1, <3>4
  <2> QED
    BY <1>6, <1>8, <2>1, <2>2
<1>9. Layout' = Layout /\ Count' = Count
  BY <1>1 DEF Layout, Count
<1>10. Heads' /\ ArrayInv' /\ NodesInv' /\ RowsInv' /\ QueueInv' /\ DoneInv' /\ FileInv'
  <2>1. Heads'
    BY <1>1, <1>6 DEF IInv, Heads
  <2>2. ArrayInv' /\ DoneInv' /\ FileInv'
    BY <1>1, <1>9 DEF IInv, ArrayInv, DoneInv, FileInv
  <2>3. NodesInv' /\ RowsInv' /\ QueueInv'
    BY <1>1 DEF NodesInv, RowsInv, QueueInv
  <2> QED
    BY <2>1, <2>2, <2>3
<1>11. FillInv'
  BY <1>1, <1>3, <1>6, <1>7, <1>8, <1>9 DEF FillInv
<1>12. KeptNow
  BY <1>1 DEF KeptNow
<1> QED
  BY <1>10, <1>11, <1>12 DEF IInv

(* All words are there: the Trie has the nodes of the dictionary. *)
LEMMA StartStep == ASSUME IInv, Build PROVE IInv' /\ KeptNow
<1>1. /\ phase = "fill" /\ phase' = "build" /\ \A w \in DOMAIN dict : Append(w, 0) \in DOMAIN trie
      /\ UNCHANGED << dict, trie, format, todo, elm, size, offset, cur, file >>
  BY DEF Build, array
<1>2. /\ dict \in Dicts /\ format = "trie" /\ Layout = FileNodes(dict, "trie")
      /\ todo = << [node |-> <<>>, slot |-> 0] >> /\ offset = 1 /\ Count = 0
      /\ DOMAIN trie \subseteq Layout
      /\ \A v \in DOMAIN dict :
           Append(v, 0) \in DOMAIN trie => Prefixes(Append(v, 0)) \subseteq DOMAIN trie
  BY <1>1 DEF IInv, Heads, FillInv, Layout
<1>3. Layout \subseteq DOMAIN trie
  BY <1>1, <1>2, KeysAll
<1>4. Layout' = Layout /\ Count' = Count
  BY <1>1 DEF Layout, Count
<1>5. NodesInv'
  BY <1>1, <1>2, <1>3, <1>4 DEF NodesInv, Nodes
<1>6. QueueInv'
  <2>1. Tree(Layout)
    BY <1>2, LayoutIs DEF File
  <2>2. QueueLaid(Layout, todo, elm, Count, offset)
    BY <1>2, <2>1, QueueBegins
  <2> QED
    BY <1>1, <1>4, <2>2 DEF QueueInv
<1>7. Heads' /\ ArrayInv' /\ FillInv' /\ RowsInv' /\ DoneInv' /\ FileInv'
  <2>1. Heads'
    BY <1>1 DEF IInv, Heads
  <2>2. ArrayInv' /\ FileInv'
    BY <1>1, <1>4 DEF IInv, ArrayInv, FileInv
  <2>3. FillInv' /\ RowsInv' /\ DoneInv'
    BY <1>1, <1>2 DEF FillInv, RowsInv, DoneInv
  <2> QED
    BY <2>1, <2>2, <2>3
<1>8. KeptNow
  BY <1>1 DEF KeptNow
<1> QED
  BY <1>5, <1>6, <1>7, <1>8 DEF IInv

(* Everything is laid out. *)
LEMMA FinishStep == ASSUME IInv, Finish PROVE IInv' /\ KeptNow
<1>1. /\ phase = "build" /\ todo = <<>> /\ phase' = "ready"
      /\ UNCHANGED << dict, trie, format, todo, elm, size, offset, cur, file >>
  BY DEF Finish, array
<1>2. PICK N, n : N = Layout /\ n = Count
  OBVIOUS
<1>3. Cells(elm, n) /\ dict \in Dicts /\ File(dict, N, Rows(dict, format))
  BY <1>2, LayoutIs DEF IInv, Heads, ArrayInv, Layout
<1>4. Tree(N)
  BY <1>3 DEF File
<1>5. Cardinality(N) <= n
  <2>1. CASE format = "trie"
    <3>1. QueueLaid(N, todo, elm, n, offset)
      BY <1>1, <1>2, <2>1 DEF IInv, QueueInv
    <3> QED
      BY <1>1, <1>3, <1>4, <3>1, AllNodesLaid
  <2>2. CASE format # "trie"
    <3>1. RowsLaid(dict, N, Rows(dict, format), todo, elm, n, offset, cur)
      BY <1>1, <1>2, <2>2 DEF IInv, RowsInv
    <3> QED
      BY <1>1, <1>3, <3>1, AllRowsLaid
  <2> QED
    BY <2>1, <2>2
<1>6. Layout' = Layout /\ Count' = Count /\ Nodes' = Nodes
  BY <1>1 DEF Layout, Count, Nodes
<1>7. Heads'
  BY <1>1 DEF IInv, Heads
<1>8. ArrayInv' /\ NodesInv' /\ FileInv'
  BY <1>1, <1>6 DEF IInv, ArrayInv, NodesInv, FileInv
<1>9. FillInv' /\ RowsInv' /\ QueueInv'
  BY <1>1 DEF FillInv, RowsInv, QueueInv
<1>10. DoneInv'
  BY <1>2, <1>5, <1>6 DEF DoneInv
<1>11. KeptNow
  BY <1>1 DEF KeptNow, Kept
<1> QED
  BY <1>7, <1>8, <1>9, <1>10, <1>11 DEF IInv

(* The file: what a step that leaves the array alone keeps. *)
LEMMA FileStep ==
  ASSUME IInv, phase \in {"ready", "save", "saved"}, phase' \in {"save", "saved"},
         UNCHANGED << dict, trie, format, todo, elm, size, offset, cur >>, FileInv'
  PROVE  IInv' /\ KeptNow
<1>1. Layout' = Layout /\ Count' = Count /\ Nodes' = Nodes
  BY DEF Layout, Count, Nodes
<1>2. Heads'
  BY DEF IInv, Heads
<1>3. ArrayInv' /\ NodesInv' /\ DoneInv'
  BY <1>1 DEF IInv, ArrayInv, NodesInv, DoneInv
<1>4. FillInv' /\ RowsInv' /\ QueueInv'
  BY DEF FillInv, RowsInv, QueueInv
<1>5. KeptNow
  BY DEF KeptNow
<1> QED
  BY <1>2, <1>3, <1>4, <1>5 DEF IInv

LEMMA HeadStep == ASSUME IInv, SaveHead PROVE IInv' /\ KeptNow
<1>1. /\ phase = "ready" /\ phase' = "save"
      /\ UNCHANGED << dict, trie, format, todo, elm, size, offset, cur >>
  BY DEF SaveHead, array
<1>2. PICK i \in DOMAIN elm : LooksFree(elm[i])
  BY DEF SaveHead
<1>3. PICK written \in BOOLEAN :
        file' = [head |-> written, count |-> LastFree(elm) + 1, elms |-> << >>, failed |-> ~written]
  BY DEF SaveHead
<1>4. PICK n : n = Count
  OBVIOUS
<1>5. Cells(elm, n) /\ Spare(elm, n)
  BY <1>1, <1>4 DEF IInv, ArrayInv
<1>6. n \in Nat /\ n # 0
  BY <1>2, <1>5 DEF Cells
<1>7. LastFree(elm) + 1 = n
  BY <1>5, <1>6, LastFreeIs
<1>8. Count' = n
  BY <1>1, <1>4 DEF Count
<1>9. FileInv'
  <2>1. /\ file'.count = n /\ file'.elms = << >>
        /\ file' = [head |-> file'.head, count |-> file'.count, elms |-> file'.elms, failed |-> file'.failed]
    BY <1>3, <1>7
  <2>2. << >> \in Seq(ElmType) /\ Len(<< >>) = 0
    BY EmptySeq
  <2> QED
    BY <1>1, <1>6, <1>8, <2>1, <2>2 DEF FileInv
<1> QED
  BY <1>1, <1>9, FileStep

LEMMA WriteStep == ASSUME IInv, WriteSome PROVE IInv' /\ KeptNow
<1>1. /\ phase = "save" /\ UNCHANGED << dict, trie, format, todo, elm, size, offset, cur >>
  BY DEF WriteSome, array
<1>2. PICK k \in 1 .. file.count - Len(file.elms) :
        /\ file' = [file EXCEPT !.elms = @ \o Written(k)]
        /\ phase' = IF Len(file.elms) + k = file.count THEN "saved" ELSE "save"
  BY DEF WriteSome
<1>3. PICK n, w, q : n = Count /\ w = file.elms /\ q = Written(k)
  OBVIOUS
<1>4. /\ Cells(elm, n) /\ file.count = n /\ w \in Seq(ElmType) /\ Len(w) \in Nat /\ Len(w) <= n
      /\ \A j \in 1 .. Len(w) : w[j] = elm[j - 1]
      /\ file = [head |-> file.head, count |-> file.count, elms |-> file.elms, failed |-> file.failed]
  BY <1>1, <1>3 DEF IInv, ArrayInv, FileInv
<1>5. n \in Nat /\ elm \in [0 .. n - 1 -> ElmType] /\ k \in Nat /\ Len(w) + k <= n
  BY <1>2, <1>3, <1>4 DEF Cells
<1>6. q = [j \in 1 .. k |-> elm[Len(w) + j - 1]]
  BY <1>3 DEF Written
<1>7. q \in Seq(ElmType) /\ Len(q) = k
  <2>1. \A j \in 1 .. k : Len(w) + j - 1 \in 0 .. n - 1
    BY <1>4, <1>5
  <2>2. q \in [1 .. k -> ElmType]
    BY <1>5, <1>6, <2>1
  <2> QED
    BY <1>5, <2>2, FunctionSeq
<1>8. PICK v : v = w \o q
  OBVIOUS
<1>9. /\ v \in Seq(ElmType) /\ Len(v) = Len(w) + Len(q)
      /\ \A j \in 1 .. Len(w) + Len(q) : v[j] = IF j <= Len(w) THEN w[j] ELSE q[j - Len(w)]
  <2>1. PICK S : S = ElmType
    OBVIOUS
  <2>2. w \in Seq(S) /\ q \in Seq(S)
    BY <1>4, <1>7, <2>1
  <2>3. /\ w \o q \in Seq(S) /\ Len(w \o q) = Len(w) + Len(q)
        /\ \A j \in 1 .. Len(w) + Len(q) : (w \o q)[j] = IF j <= Len(w) THEN w[j] ELSE q[j - Len(w)]
    BY <2>2, ConcatProperties, Zenon
  <2> QED
    BY <1>8, <2>1, <2>3, Zenon
<1>10. ASSUME NEW j \in 1 .. Len(v)
       PROVE  v[j] = elm[j - 1]
  <2>1. CASE j <= Len(w)
    <3>1. j \in 1 .. Len(w)
      BY <1>4, <2>1
    <3> QED
      BY <1>4, <1>9, <2>1, <3>1
  <2>2. CASE ~(j <= Len(w))
    <3>1. PICK i : i = j - Len(w)
      OBVIOUS
    <3>2. i \in 1 .. k /\ Len(w) + i - 1 = j - 1
      BY <1>4, <1>5, <1>7, <1>9, <2>2, <3>1
    <3>3. v[j] = q[i]
      BY <1>9, <2>2, <3>1
    <3> QED
      BY <1>6, <3>2, <3>3
  <2> QED
    BY <2>1, <2>2
<1>11. /\ file'.elms = v /\ file'.count = n /\ file'.failed = file.failed
       /\ file' = [head |-> file'.head, count |-> file'.count, elms |-> file'.elms, failed |-> file'.failed]
  BY <1>2, <1>3, <1>4, <1>8
<1>12. Count' = n
  BY <1>1, <1>3 DEF Count
<1>13. Len(v) \in Nat /\ Len(v) <= n /\ (phase' = "saved" => Len(v) = n) /\ phase' \in {"save", "saved"}
  BY <1>2, <1>3, <1>4, <1>5, <1>7, <1>9
<1>14. FileInv'
  BY <1>1, <1>5, <1>9, <1>10, <1>11, <1>12, <1>13 DEF FileInv
<1> QED
  BY <1>1, <1>13, <1>14, FileStep

LEMMA FailStep == ASSUME IInv, WriteFails PROVE IInv' /\ KeptNow
<1>1. /\ phase = "save" /\ phase' = "saved" /\ file' = [file EXCEPT !.failed = TRUE]
      /\ UNCHANGED << dict, trie, format, todo, elm, size, offset, cur >>
  BY DEF WriteFails, array
<1>2. Count' = Count
  BY <1>1 DEF Count
<1>3. FileInv
  BY DEF IInv
<1>4. /\ file'.elms = file.elms /\ file'.count = file.count /\ file'.failed = TRUE
      /\ file' = [head |-> file'.head, count |-> file'.count, elms |-> file'.elms, failed |-> file'.failed]
  BY <1>1, <1>3 DEF FileInv
<1>5. FileInv'
  BY <1>1, <1>2, <1>3, <1>4 DEF FileInv
<1> QED
  BY <1>1, <1>5, FileStep

LEMMA LoadStep == ASSUME IInv, Load PROVE IInv' /\ KeptNow
<1>1. /\ phase = "saved" /\ phase' = "loaded" /\ offset' = 1 /\ cur' = 0
      /\ elm' = [k \in 0 .. Len(file.elms) - 1 |-> file.elms[k + 1]]
      /\ UNCHANGED << dict, trie, format, todo, size, file >>
  BY DEF Load
<1>2. PICK n, w : n = Len(w) /\ w = file.elms
  OBVIOUS
<1>3. w \in Seq(ElmType) /\ n \in Nat
  BY <1>2 DEF IInv, FileInv
<1>4. elm' = [k \in 0 .. n - 1 |-> w[k + 1]]
  BY <1>1, <1>2
<1>5. Cells(elm', n)
  <2>1. ASSUME NEW k \in 0 .. n - 1
        PROVE  w[k + 1] \in ElmType
    <3>1. k + 1 \in 1 .. Len(w)
      BY <1>2, <1>3
    <3> QED
      BY <1>3, <3>1, ElementOfSeq
  <2>2. Cardinality(DOMAIN elm') = n
    BY <1>3, <1>4, CountIs
  <2> QED
    BY <1>3, <1>4, <2>1, <2>2 DEF Cells
<1>6. ArrayInv'
  <2>1. Count' = n
    BY <1>5 DEF Count, Cells
  <2> QED
    BY <1>1, <1>5, <2>1 DEF ArrayInv
<1>7. Heads'
  BY <1>1 DEF IInv, Heads
<1>8. Layout' = Layout /\ Nodes' = Nodes
  BY <1>1 DEF Layout, Nodes
<1>9. NodesInv'
  BY <1>1, <1>8 DEF IInv, NodesInv
<1>10. FillInv' /\ RowsInv' /\ QueueInv' /\ DoneInv'
  BY <1>1 DEF FillInv, RowsInv, QueueInv, DoneInv
<1>11. FileInv'
  BY <1>1 DEF IInv, FileInv
<1>12. KeptNow
  BY <1>1 DEF KeptNow
<1> QED
  BY <1>6, <1>7, <1>9, <1>10, <1>11, <1>12 DEF IInv

LEMMA Step == ASSUME IInv, Next PROVE IInv' /\ KeptNow
<1>1. CASE InsertKey
  BY <1>1, KeyStep
<1>2. CASE Build
  BY <1>2, StartStep
<1>3. CASE InsertWord
  BY <1>3, WordStep
<1>4. CASE InsertPrefix
  BY <1>4, PrefixStep
<1>5. CASE PassTerminator
  BY <1>5, EndStep
<1>6. CASE BuildNode
  BY <1>6, NodeStep
<1>7. CASE Finish
  BY <1>7, FinishStep
<1>8. CASE SaveHead
  BY <1>8, HeadStep
<1>9. CASE WriteSome
  BY <1>9, WriteStep
<1>10. CASE WriteFails
  BY <1>10, FailStep
<1>11. CASE Load
  BY <1>11, LoadStep
<1> QED
  BY <1>1, <1>2, <1>3, <1>4, <1>5, <1>6, <1>7, <1>8, <1>9, <1>10, <1>11 DEF Next

LEMMA Stutters == ASSUME IInv, UNCHANGED vars PROVE IInv' /\ KeptNow
<1>1. UNCHANGED << dict, trie, format, todo, elm, size, offset, cur, phase, file >>
  BY DEF vars, array
<1>2. Layout' = Layout /\ Count' = Count /\ Nodes' = Nodes
  BY <1>1 DEF Layout, Count, Nodes
<1>3. Heads' /\ ArrayInv'
  BY <1>1, <1>2 DEF IInv, Heads, ArrayInv
<1>4. NodesInv' /\ FillInv' /\ DoneInv'
  BY <1>1, <1>2 DEF IInv, NodesInv, FillInv, DoneInv
<1>5. RowsInv' /\ QueueInv'
  BY <1>1, <1>2 DEF IInv, RowsInv, QueueInv
<1>6. FileInv'
  BY <1>1, <1>2 DEF IInv, FileInv
<1>7. KeptNow
  BY <1>1 DEF KeptNow, Kept
<1> QED
  BY <1>3, <1>4, <1>5, <1>6, <1>7 DEF IInv

-----------------------------------------------------------------------------
(* The invariant holds in every state of the layout, the saving and the    *)
(* loading of every dictionary, for every size of the array's blocks.      *)
THEOREM LayoutInv == Spec => []IInv
<1>1. Init => IInv
  BY Begins0
<1>2. IInv /\ [Next]_vars => IInv'
  BY Step, Stutters
<1> QED
  BY <1>1, <1>2, PTL DEF Spec

(* The head fields of a BufferTrie are naturals, its array is one piece of *)
(* elements that all were set, and a file never holds more than its head   *)
(* says (TypeOK).                                                          *)
THEOREM ArrayTypes == Spec => []TypeOK
<1>1. IInv => TypeOK
  <2> SUFFICES ASSUME IInv PROVE TypeOK
    OBVIOUS
  <2>1. DOMAIN elm = 0 .. Cardinality(DOMAIN elm) - 1
    BY DEF IInv, ArrayInv, Count, Cells
  <2>2. ASSUME NEW i \in DOMAIN elm
        PROVE  elm[i] \in [key : Nat, word : Nat, size : Nat]
    BY DEF IInv, ArrayInv, Count, Cells, ElmType
  <2> QED
    BY <2>1, <2>2 DEF IInv, Heads, FileInv, TypeOK
<1> QED
  BY <1>1, LayoutInv, PTL

(* While it is laid out and saved, the last element of the array is free,  *)
(* so that the scan of save, from the end and with an unsigned index, ends *)
(* (LastSlotFree).                                                         *)
THEOREM ScanEnds == Spec => []LastSlotFree
<1>1. IInv => LastSlotFree
  <2> SUFFICES ASSUME IInv, phase # "loaded", elm # << >> PROVE LooksFree(elm[Max(DOMAIN elm)])
    BY DEF LastSlotFree
  <2>1. Cells(elm, Count) /\ Spare(elm, Count)
    BY DEF IInv, ArrayInv
  <2>2. Count # 0
    BY <2>1, EmptyCells
  <2> QED
    BY <2>1, <2>2, LastFreeIs
<1> QED
  BY <1>1, LayoutInv, PTL

(* No row and no node is laid out over what an earlier one has written,    *)
(* whether a file closes all its words or only those that go on, or a Trie *)
(* is laid out (KeepsWritten).                                             *)
THEOREM NothingOverwritten == Spec => KeepsWritten
<1>1. IInv /\ [Next]_vars =>
        [ phase = "build" => \A i \in DOMAIN elm : elm[i] # Free => elm'[i] = elm[i] ]_vars
  <2> SUFFICES ASSUME IInv, Next, phase = "build", NEW i \in DOMAIN elm, elm[i] # Free
               PROVE  elm'[i] = elm[i]
    OBVIOUS
  <2>1. Kept(elm, Count, elm')
    BY Step DEF KeptNow
  <2>2. i \in 0 .. Count - 1
    BY DEF IInv, ArrayInv, Count, Cells
  <2> QED
    BY <2>1, <2>2 DEF Kept
<1> QED
  BY <1>1, LayoutInv, PTL DEF Spec, KeepsWritten

(* The elements on a file are those of the array, in place; if no write    *)
(* failed, there is one for every node of the dictionary (SavedComplete).  *)
THEOREM FileComplete == Spec => []SavedComplete
<1>1. IInv => SavedComplete
  <2> SUFFICES ASSUME IInv, phase \in {"save", "saved"} PROVE SavedComplete
    BY DEF SavedComplete
  <2>1. /\ file.count = Count /\ \A k \in 1 .. Len(file.elms) : file.elms[k] = elm[k - 1]
        /\ phase = "saved" /\ ~file.failed => Len(file.elms) = file.count
    BY DEF IInv, FileInv
  <2>2. Cardinality(Nodes) <= Count
    BY DEF IInv, NodesInv, DoneInv
  <2>3. IsFiniteSet(Nodes) /\ Count \in Nat
    <3>1. Nodes = Layout /\ dict \in Dicts /\ Count \in Nat
      BY DEF IInv, NodesInv, Heads, ArrayInv, Cells
    <3>2. Tree(Layout)
      BY <3>1, LayoutIs DEF Layout, File
    <3> QED
      BY <3>1, <3>2 DEF Tree
  <2>4. Cardinality(Nodes) \in Nat
    BY <2>3, FS_CardinalityType
  <2> QED
    BY <2>1, <2>2, <2>3, <2>4 DEF SavedComplete
<1> QED
  BY <1>1, LayoutInv, PTL

-----------------------------------------------------------------------------
(* Two nodes are in the order of their parents, and siblings in that of    *)
(* their last characters.                                                  *)
LEMMA BeforeFronts ==
  ASSUME NEW a \in Seq(Nat), NEW b \in Seq(Nat), a # <<>>, b # <<>>
  PROVE  Before(a, b) <=> \/ Before(Front(a), Front(b))
                          \/ Front(a) = Front(b) /\ LastChar(a) < LastChar(b)
<1>1. PICK f, g, L, M : f = Front(a) /\ g = Front(b) /\ L = Len(a) - 1 /\ M = Len(b) - 1
  OBVIOUS
<1>2. /\ f \in Seq(Nat) /\ Len(f) = L /\ L \in Nat /\ Len(a) = L + 1
      /\ \A k \in 1 .. L : f[k] = a[k]
      /\ LastChar(a) = a[L + 1]
  <2>1. /\ Front(a) \in Seq(Nat) /\ Len(a) \in Nat \ {0} /\ Len(Front(a)) = Len(a) - 1
        /\ \A k \in 1 .. Len(a) - 1 : Front(a)[k] = a[k]
        /\ Last(a) = a[Len(a)]
    BY FrontIs
  <2>2. L \in Nat /\ Len(a) = L + 1
    BY <1>1, <2>1
  <2> QED
    BY <1>1, <2>1, <2>2 DEF LastChar
<1>3. /\ g \in Seq(Nat) /\ Len(g) = M /\ M \in Nat /\ Len(b) = M + 1
      /\ \A k \in 1 .. M : g[k] = b[k]
      /\ LastChar(b) = b[M + 1]
  <2>1. /\ Front(b) \in Seq(Nat) /\ Len(b) \in Nat \ {0} /\ Len(Front(b)) = Len(b) - 1
        /\ \A k \in 1 .. Len(b) - 1 : Front(b)[k] = b[k]
        /\ Last(b) = b[Len(b)]
    BY FrontIs
  <2>2. M \in Nat /\ Len(b) = M + 1
    BY <1>1, <2>1
  <2> QED
    BY <1>1, <2>1, <2>2 DEF LastChar
<1>4. CASE L # M
  <2>1. Before(a, b) <=> L < M
    BY <1>2, <1>3, <1>4 DEF Before
  <2>2. Before(f, g) <=> L < M
    BY <1>2, <1>3, <1>4 DEF Before
  <2>3. f # g
    BY <1>2, <1>3, <1>4
  <2> QED
    BY <1>1, <2>1, <2>2, <2>3
<1>5. CASE L = M
  <2>1. Before(a, b) <=> \E k \in 1 .. L + 1 : a[k] < b[k] /\ \A j \in 1 .. k - 1 : a[j] = b[j]
    BY <1>2, <1>3, <1>5 DEF Before
  <2>2. Before(f, g) <=> \E k \in 1 .. L : f[k] < g[k] /\ \A j \in 1 .. k - 1 : f[j] = g[j]
    BY <1>2, <1>3, <1>5 DEF Before
  <2>3. ASSUME NEW k \in 1 .. L
        PROVE  (f[k] < g[k] /\ \A j \in 1 .. k - 1 : f[j] = g[j])
               <=> (a[k] < b[k] /\ \A j \in 1 .. k - 1 : a[j] = b[j])
    <3>1. \A j \in 1 .. k - 1 : j \in 1 .. L /\ j \in 1 .. M
      BY <1>2, <1>5
    <3>2. \A j \in 1 .. k - 1 : f[j] = a[j] /\ g[j] = b[j]
      BY <1>2, <1>3, <3>1
    <3>3. f[k] = a[k] /\ g[k] = b[k]
      BY <1>2, <1>3, <1>5
    <3> QED
      BY <3>2, <3>3
  <2>4. f = g <=> \A j \in 1 .. L : a[j] = b[j]
    <3>1. f = g <=> \A j \in 1 .. L : f[j] = g[j]
      BY <1>2, <1>3, <1>5, SeqEqual
    <3>2. \A j \in 1 .. L : f[j] = a[j] /\ g[j] = b[j]
      BY <1>2, <1>3, <1>5
    <3> QED
      BY <3>1, <3>2
  <2>5. \A k : k \in 1 .. L + 1 <=> k \in 1 .. L \/ k = L + 1
    BY <1>2
  <2>6. \A j : j \in 1 .. (L + 1) - 1 <=> j \in 1 .. L
    BY <1>2
  <2>7. (\E k \in 1 .. L + 1 : a[k] < b[k] /\ \A j \in 1 .. k - 1 : a[j] = b[j])
        <=> \/ \E k \in 1 .. L : a[k] < b[k] /\ \A j \in 1 .. k - 1 : a[j] = b[j]
            \/ a[L + 1] < b[L + 1] /\ \A j \in 1 .. L : a[j] = b[j]
    <3>1. PICK T : T = 1 .. L + 1
      OBVIOUS
    <3>2. \A k : k \in T <=> k \in 1 .. L \/ k = L + 1
      BY <2>5, <3>1
    <3> DEFINE Q(k) == a[k] < b[k] /\ \A j \in 1 .. k - 1 : a[j] = b[j]
    <3>3. Q(L + 1) <=> a[L + 1] < b[L + 1] /\ \A j \in 1 .. L : a[j] = b[j]
      BY <2>6
    <3> HIDE DEF Q
    <3>4. (\E k \in T : Q(k)) <=> (\E k \in 1 .. L : Q(k)) \/ Q(L + 1)
      BY <3>2
    <3> QED
      BY <3>1, <3>3, <3>4 DEF Q
  <2>8. LastChar(a) < LastChar(b) <=> a[L + 1] < b[L + 1]
    BY <1>2, <1>3, <1>5
  <2> QED
    BY <1>1, <2>1, <2>2, <2>3, <2>4, <2>7, <2>8
<1> QED
  BY <1>4, <1>5

(* The place of a child among its siblings.                                *)
Rank(N, p, n) == Place(KidsOf(N, p), ByLast(KidsOf(N, p)), n)

(* The children of row c + 1 come behind the root and the children of the  *)
(* rows before it.                                                         *)
LEMMA KidRow ==
  ASSUME NEW N, Tree(N), NEW rows, InOrder(rows, N), NEW c \in Nat, c < Len(rows),
         NEW n \in KidsOf(N, rows[c + 1])
  PROVE  Place(N, BeforeIn(N), n)
           = 1 + Cardinality(Behind(N, rows, c)) + Rank(N, rows[c + 1], n)
<1>1. N \subseteq Seq(Nat) /\ IsFiniteSet(N) /\ <<>> \in N
  BY DEF Tree
<1>2. Len(rows) \in Nat /\ c + 1 \in 1 .. Len(rows) /\ rows[c + 1] \in Seq(Nat)
  <2>1. Len(rows) \in Nat /\ \A k \in 1 .. Len(rows) : rows[k] \in N
    BY RowsPlaced
  <2>2. c + 1 \in 1 .. Len(rows)
    BY <2>1
  <2> QED
    BY <1>1, <2>1, <2>2
<1>3. PICK p, S : p = rows[c + 1] /\ S = KidsOf(N, p)
  OBVIOUS
<1>4. n \in N /\ n # <<>> /\ Front(n) = p /\ S \subseteq N /\ p \in Seq(Nat) /\ n \in S
  <2>1. n \in N
    BY DEF KidsOf
  <2>2. n # <<>> /\ Front(n) = p
    BY <1>1, <1>2, <1>3, <2>1, KidIs
  <2> QED
    BY <1>1, <1>2, <1>3, <2>1, <2>2, KidsFinite
<1>5. \A m \in N : m \in S <=> m # <<>> /\ Front(m) = p
  BY <1>1, <1>3, <1>4, KidIs
<1>6. ASSUME NEW m \in N, m # <<>>
      PROVE  Before(m, n) <=> m \in Behind(N, rows, c) \/ (m \in S /\ LastChar(m) < LastChar(n))
  <2>1. Front(m) \in N
    BY <1>6 DEF Tree
  <2>2. PICK k \in 1 .. Len(rows) : rows[k] = Front(m)
    BY <2>1, RowsPlaced
  <2>3. Before(m, n) <=> \/ Before(Front(m), p)
                         \/ Front(m) = p /\ LastChar(m) < LastChar(n)
    BY <1>1, <1>4, <1>6, BeforeFronts
  <2>4. Before(rows[k], rows[c + 1]) <=> k < c + 1
    BY <1>2, RowsPlaced
  <2>5. k < c + 1 <=> \E l \in 1 .. c : rows[l] = Front(m)
    <3>1. k < c + 1 <=> k \in 1 .. c
      BY <1>2
    <3>2. ASSUME NEW l \in 1 .. c, rows[l] = Front(m)
          PROVE  l = k
      <4>1. l \in 1 .. Len(rows) /\ k \in 1 .. Len(rows) /\ rows[l] = rows[k]
        BY <1>2, <2>2, <3>2
      <4>2. \A i, j \in 1 .. Len(rows) : rows[i] = rows[j] => i = j
        BY RowsPlaced
      <4> QED
        BY <4>1, <4>2
    <3> QED
      BY <2>2, <3>1, <3>2
  <2>6. m \in Behind(N, rows, c) <=> Before(Front(m), p)
    BY <1>3, <1>6, <2>2, <2>4, <2>5 DEF Behind
  <2> QED
    BY <1>5, <1>6, <2>3, <2>6
<1>7. Before(<<>>, n)
  <2>1. Len(n) \in Nat \ {0}
    BY <1>1, <1>4, FrontIs
  <2> QED
    BY <2>1 DEF Before
<1>8. ~(<<>> \in S) /\ ~(<<>> \in Behind(N, rows, c))
  BY <1>1, <1>5 DEF Behind
<1> DEFINE old == Behind(N, rows, c)
           low == Lower(S, ByLast(S), n)
<1>9. \A m : m \in low <=> m \in S /\ LastChar(m) < LastChar(n)
  BY <1>4 DEF Lower, ByLast
<1>10. old \subseteq N /\ low \subseteq N
  BY <1>4, <1>9 DEF Behind
<1>11. Lower(N, BeforeIn(N), n) = (old \cup low) \cup {<<>>}
  <2>1. \A m \in N : << m, n >> \in BeforeIn(N) <=> Before(m, n)
    BY <1>4 DEF BeforeIn
  <2> HIDE DEF old, low
  <2>2. \A m \in N : m \in Lower(N, BeforeIn(N), n) <=> m \in old \/ m \in low \/ m = <<>>
    BY <1>6, <1>7, <1>9, <2>1 DEF Lower, old
  <2>3. Lower(N, BeforeIn(N), n) \subseteq N
    BY DEF Lower
  <2> QED
    BY <1>1, <1>10, <2>2, <2>3
<1>12. old \cap low = {}
  <2> SUFFICES ASSUME NEW m \in old, m \in low PROVE FALSE
    OBVIOUS
  <2>1. PICK k \in 1 .. c : rows[k] = Front(m)
    BY DEF Behind
  <2>2. Front(m) = rows[c + 1] /\ k \in 1 .. Len(rows) /\ k # c + 1
    BY <1>2, <1>3, <1>5, <1>9, <1>10
  <2> QED
    BY <1>2, <2>1, <2>2, RowsPlaced
<1>13. IsFiniteSet(old) /\ IsFiniteSet(low)
  BY <1>1, <1>10, FS_Subset
<1>14. Cardinality(old) \in Nat /\ Cardinality(low) \in Nat /\ Cardinality(old \cap low) = 0
  BY <1>12, <1>13, FS_CardinalityType, FS_EmptySet
<1>15. /\ Cardinality(old \cup low) = Cardinality(old) + Cardinality(low) - Cardinality(old \cap low)
       /\ IsFiniteSet(old \cup low)
  BY <1>13, FS_Union
<1>16. <<>> \notin old \cup low
  BY <1>8, <1>9
<1> HIDE DEF old, low
<1>17. Cardinality((old \cup low) \cup {<<>>}) = Cardinality(old \cup low) + 1
  BY <1>15, <1>16, FS_AddElement
<1>18. Place(N, BeforeIn(N), n) = 1 + Cardinality(old) + Cardinality(low)
  BY <1>11, <1>14, <1>15, <1>17 DEF Place
<1>19. Rank(N, rows[c + 1], n) = Cardinality(low)
  BY <1>3 DEF Rank, Place, low
<1> QED
  BY <1>18, <1>19 DEF old

-----------------------------------------------------------------------------
(* What the array holds.  The element of a leaf has its value; that of     *)
(* another node has its number of children, which follow each other in the *)
(* order of their last characters.                                         *)
LeafElm(d, p) == Elm(LastChar(p), IF p \in DOMAIN d THEN d[p] ELSE d[Front(p)], 0)

Holds(d, N, at, p, x) ==
  IF KidsOf(N, p) = {} THEN x = LeafElm(d, p)
  ELSE /\ x.key = LastChar(p) /\ x.size = Cardinality(KidsOf(N, p))
       /\ \A n \in KidsOf(N, p) : at[n] = x.word + Rank(N, p, n)

(* An array that has an element for every node, which is at its place.     *)
Image(d, N, e, n, at) ==
  \A p \in N : /\ at[p] \in Nat /\ at[p] < n /\ (at[p] = 0 <=> p = <<>>)
               /\ Holds(d, N, at, p, e[at[p]])

(* Of a file: the elements of the rows behind and the values of their      *)
(* words.                                                                  *)
RowElm(d, N, rows, k) ==
  IF KidsOf(N, rows[k]) = {} THEN LeafElm(d, rows[k])
  ELSE Elm(LastChar(rows[k]), 1 + Cardinality(Behind(N, rows, k - 1)),
           Cardinality(KidsOf(N, rows[k])))

Filled(d, N, rows, e, c) ==
  /\ \A k \in 1 .. c : rows[k] \in DOMAIN d \/ KidsOf(N, rows[k]) # {}
                         => e[k - 1] = RowElm(d, N, rows, k)
  /\ \A k \in 1 .. c, l \in 1 .. Len(rows) :
       EndOf(d, rows, k, l) => e[l - 1] = LeafElm(d, rows[l])

(* What was written before stays, a value that looks like a free element   *)
(* too: no two rows write to the same place.                               *)
LEMMA FilledKept ==
  ASSUME NEW d, NEW N, NEW rows, File(d, N, rows), NEW t, NEW e, NEW n, NEW o, NEW c,
         RowsLaid(d, N, rows, t, e, n, o, c), t # <<>>, Cells(e, n), Filled(d, N, rows, e, c),
         NEW g, NEW m, NEW W, Lays(e, n, g, m, W),
         \A i \in W : \/ i = c /\ (Head(t) \in DOMAIN d \/ KidsOf(N, Head(t)) # {})
                      \/ i + 1 \in 1 .. Len(rows) /\ EndOf(d, rows, c + 1, i + 1)
  PROVE  Filled(d, N, rows, g, c)
<1>1. /\ c \in Nat /\ c + 1 \in 1 .. Len(rows) /\ c < Len(rows) /\ Len(rows) \in Nat
      /\ Head(t) = rows[c + 1]
  BY RowNext DEF RowsLaid
<1>2. /\ \A k, l \in 1 .. Len(rows) : rows[k] = rows[l] => k = l
      /\ \A k \in 1 .. Len(rows) : rows[k] \in N
      /\ N \subseteq Seq(Nat) /\ d \in Dicts /\ Tree(N) /\ Ends(d, N) /\ InOrder(rows, N)
  BY RowsPlaced DEF File, Tree
<1>3. /\ n \in Nat /\ m \in Nat /\ n <= m /\ (c = 0 \/ c < n)
      /\ \A i \in 0 .. m - 1 : i \notin W => g[i] = IF i < n THEN e[i] ELSE Free
  BY DEF Lays, Cells, RowsLaid
<1>4. \A i \in 0 .. n - 1 : i \notin W => g[i] = e[i]
  BY <1>3
(* A row and the row that closes its word.                                 *)
<1>5. ASSUME NEW k \in 1 .. Len(rows), NEW l \in 1 .. Len(rows), EndOf(d, rows, k, l)
      PROVE  /\ k < l /\ Front(rows[l]) = rows[k]
             /\ rows[l] \notin DOMAIN d /\ KidsOf(N, rows[l]) = {}
  <2>1. rows[k] \in DOMAIN d /\ rows[k] \in Seq(Nat) /\ rows[l] = Append(rows[k], 0)
    BY <1>2, <1>5 DEF EndOf
  <2>2. rows[l] \notin DOMAIN d /\ KidsOf(N, rows[l]) = {}
    BY <1>2, <2>1 DEF Ends
  <2>3. Front(rows[l]) = rows[k]
    BY <2>1, AppendIs
  <2>4. k - 1 \in Nat /\ k - 1 < Len(rows) /\ (k - 1) + 1 = k
    BY <1>1
  <2>5. PICK j : j = k - 1
    OBVIOUS
  <2>6. j \in Nat /\ j < Len(rows) /\ rows[l] = Append(rows[j + 1], 0) /\ j + 1 = k
    BY <2>1, <2>4, <2>5
  <2>7. j + 1 < l
    BY <1>2, <2>6, EndPlace
  <2> QED
    BY <2>2, <2>3, <2>6, <2>7
<1>6. ASSUME NEW k \in 1 .. c, rows[k] \in DOMAIN d \/ KidsOf(N, rows[k]) # {}
      PROVE  g[k - 1] = e[k - 1]
  <2>1. k - 1 \in 0 .. n - 1 /\ k \in 1 .. Len(rows) /\ k - 1 # c /\ (k - 1) + 1 = k
    BY <1>1, <1>3
  <2>2. k - 1 \notin W
    <3>1. ASSUME EndOf(d, rows, c + 1, k)
          PROVE  FALSE
      BY <1>1, <1>5, <2>1, <3>1
    <3> QED
      BY <2>1, <3>1
  <2> QED
    BY <1>4, <2>1, <2>2
<1>7. ASSUME NEW k \in 1 .. c, NEW l \in 1 .. Len(rows), EndOf(d, rows, k, l)
      PROVE  g[l - 1] = e[l - 1]
  <2>1. k \in 1 .. Len(rows) /\ k # c + 1 /\ l - 1 + 1 = l
    BY <1>1
  <2>2. l < n
    BY <1>7 DEF RowsLaid, EndsFit
  <2>3. l - 1 \in 0 .. n - 1
    BY <1>3, <2>2
  <2>4. l - 1 # c \/ ~(Head(t) \in DOMAIN d \/ KidsOf(N, Head(t)) # {})
    <3>1. ASSUME l - 1 = c
          PROVE  l = c + 1
      BY <1>1, <3>1
    <3>2. rows[l] \notin DOMAIN d /\ KidsOf(N, rows[l]) = {}
      BY <1>5, <1>7, <2>1
    <3> QED
      BY <1>1, <3>1, <3>2
  <2>5. ~EndOf(d, rows, c + 1, l)
    <3>1. SUFFICES ASSUME EndOf(d, rows, c + 1, l) PROVE FALSE
      OBVIOUS
    <3>2. Front(rows[l]) = rows[c + 1] /\ Front(rows[l]) = rows[k]
      BY <1>1, <1>5, <1>7, <2>1, <3>1
    <3> QED
      BY <1>1, <1>2, <2>1, <3>2
  <2>6. l - 1 \notin W
    BY <2>1, <2>4, <2>5
  <2> QED
    BY <1>4, <2>3, <2>6
<1> QED
  BY <1>6, <1>7 DEF Filled

(* The next row is in place as well.                                       *)
LEMMA FilledNext ==
  ASSUME NEW d, NEW N, NEW rows, NEW c \in Nat, NEW g, Filled(d, N, rows, g, c),
         rows[c + 1] \in DOMAIN d \/ KidsOf(N, rows[c + 1]) # {}
           => g[c] = RowElm(d, N, rows, c + 1),
         \A l \in 1 .. Len(rows) :
           EndOf(d, rows, c + 1, l) => g[l - 1] = LeafElm(d, rows[l])
  PROVE  Filled(d, N, rows, g, c + 1)
<1>1. \A k : k \in 1 .. c + 1 <=> k \in 1 .. c \/ k = c + 1
  OBVIOUS
<1>2. (c + 1) - 1 = c
  OBVIOUS
<1>3. ASSUME NEW k \in 1 .. c + 1, rows[k] \in DOMAIN d \/ KidsOf(N, rows[k]) # {}
      PROVE  g[k - 1] = RowElm(d, N, rows, k)
  BY <1>1, <1>2, <1>3 DEF Filled
<1>4. ASSUME NEW k \in 1 .. c + 1, NEW l \in 1 .. Len(rows), EndOf(d, rows, k, l)
      PROVE  g[l - 1] = LeafElm(d, rows[l])
  BY <1>1, <1>4 DEF Filled
<1> QED
  BY <1>3, <1>4 DEF Filled

(* A word that goes on: its element says where its children are, and the   *)
(* first of these has its value.                                           *)
LEMMA FilledWord ==
  ASSUME NEW d, NEW N, NEW rows, File(d, N, rows), NEW t, NEW e, NEW n, NEW o, NEW c,
         RowsLaid(d, N, rows, t, e, n, o, c), t # <<>>, Cells(e, n), Spare(e, n),
         Filled(d, N, rows, e, c), Head(t) \in DOMAIN d, KidsOf(N, Head(t)) # {},
         NEW x, x = Elm(LastChar(Head(t)), o, Cardinality(KidsOf(N, Head(t)))), x \in ElmType,
         NEW y, y = Elm(0, d[Head(t)], 0), y \in ElmType,
         NEW e1 \in Grown(e, c + 1), NEW f \in Grown(e1, o + 1)
  PROVE  Filled(d, N, rows, [f EXCEPT ![c] = x, ![o] = y], c + 1)
<1>1. /\ c \in Nat /\ o \in Nat /\ c + 1 \in Nat \ {0} /\ o + 1 \in Nat \ {0}
      /\ Head(t) = rows[c + 1] /\ c + 1 \in 1 .. Len(rows) /\ Len(rows) \in Nat
  BY RowNext DEF RowsLaid
<1>2. c < o /\ o + 1 \in 1 .. Len(rows) /\ EndOf(d, rows, c + 1, o + 1)
  BY EndFree
<1>3. PICK m1 : Lays(e, n, e1, m1, {}) /\ c + 1 < m1
  BY <1>1, GrownIs
<1>4. Cells(e1, m1) /\ Spare(e1, m1)
  BY <1>3 DEF Lays
<1>5. PICK m : Lays(e1, m1, f, m, {}) /\ o + 1 < m
  BY <1>1, <1>4, GrownIs
<1>6. Cells(f, m) /\ Spare(f, m) /\ m1 <= m /\ m \in Nat /\ m1 \in Nat
  BY <1>4, <1>5 DEF Lays, Cells
<1>7. c + 1 < m
  BY <1>1, <1>3, <1>6
<1>8. PICK g : g = [f EXCEPT ![c] = x, ![o] = y]
  OBVIOUS
<1>9. Lays(f, m, g, m, {c, o})
  BY <1>1, <1>5, <1>6, <1>7, <1>8, TwoWritten
<1>10. Lays(e, n, f, m, {} \cup {})
  BY <1>3, <1>4, <1>5, LaysBoth
<1>11. Lays(e, n, f, m, {})
  BY <1>10
<1>12. Lays(e, n, g, m, {} \cup {c, o})
  BY <1>9, <1>11, LaysBoth
<1>13. Lays(e, n, g, m, {c, o})
  BY <1>12
<1>14. Filled(d, N, rows, g, c)
  BY <1>2, <1>13, FilledKept
<1>15. g[c] = x /\ g[o] = y
  <2>1. c \in DOMAIN f /\ o \in DOMAIN f /\ c # o
    BY <1>1, <1>2, <1>5, <1>6, <1>7 DEF Cells
  <2> QED
    BY <1>8, <2>1
<1>16. o = 1 + Cardinality(Behind(N, rows, c)) /\ (c + 1) - 1 = c
  BY <1>1 DEF RowsLaid, Upto
<1>17. g[c] = RowElm(d, N, rows, c + 1)
  BY <1>1, <1>15, <1>16 DEF RowElm
<1>18. ASSUME NEW l \in 1 .. Len(rows), EndOf(d, rows, c + 1, l)
       PROVE  g[l - 1] = LeafElm(d, rows[l])
  <2>1. rows[l] = rows[o + 1]
    BY <1>2, <1>18 DEF EndOf
  <2>2. l = o + 1
    BY <1>2, <2>1, RowsPlaced DEF File
  <2>3. rows[l] = Append(Head(t), 0) /\ Head(t) \in Seq(Nat) /\ rows[l] \notin DOMAIN d
    BY <1>1, <1>18 DEF EndOf, File, Ends
  <2>4. Front(rows[l]) = Head(t) /\ LastChar(rows[l]) = 0
    BY <2>3, AppendIs DEF LastChar
  <2>5. LeafElm(d, rows[l]) = y
    BY <2>3, <2>4 DEF LeafElm
  <2> QED
    BY <1>1, <1>15, <2>2, <2>5
<1> QED
  BY <1>1, <1>8, <1>14, <1>17, <1>18, FilledNext

(* Any other word, or a prefix that is none.                               *)
LEMMA FilledAlone ==
  ASSUME NEW d, NEW N, NEW rows, File(d, N, rows), NEW t, NEW e, NEW n, NEW o, NEW c,
         RowsLaid(d, N, rows, t, e, n, o, c), t # <<>>, Cells(e, n), Spare(e, n),
         Filled(d, N, rows, e, c), Head(t) \in DOMAIN d <=> KidsOf(N, Head(t)) = {},
         NEW x \in ElmType,
         x = IF KidsOf(N, Head(t)) = {} THEN Elm(LastChar(Head(t)), d[Head(t)], 0)
             ELSE Elm(LastChar(Head(t)), o, Cardinality(KidsOf(N, Head(t)))),
         NEW e1 \in Grown(e, c + 1)
  PROVE  Filled(d, N, rows, [e1 EXCEPT ![c] = x], c + 1)
<1>1. c \in Nat /\ c + 1 \in Nat \ {0} /\ Head(t) = rows[c + 1] /\ c + 1 \in 1 .. Len(rows)
      /\ Head(t) \in N
  BY RowNext DEF RowsLaid
<1>2. PICK m : Lays(e, n, e1, m, {}) /\ c + 1 < m
  BY <1>1, GrownIs
<1>3. Cells(e1, m) /\ Spare(e1, m)
  BY <1>2 DEF Lays
<1>4. PICK g : g = [e1 EXCEPT ![c] = x]
  OBVIOUS
<1>5. Lays(e1, m, g, m, {c})
  BY <1>1, <1>2, <1>3, <1>4, OneWritten
<1>6. Lays(e, n, g, m, {} \cup {c})
  BY <1>2, <1>5, LaysBoth
<1>7. Lays(e, n, g, m, {c})
  BY <1>6
<1>8. Filled(d, N, rows, g, c)
  BY <1>7, FilledKept
<1>9. g[c] = x
  <2>1. c \in DOMAIN e1
    BY <1>1, <1>2, <1>3 DEF Cells
  <2> QED
    BY <1>4, <2>1
<1>10. o = 1 + Cardinality(Behind(N, rows, c)) /\ (c + 1) - 1 = c
  BY <1>1 DEF RowsLaid, Upto
<1>11. g[c] = RowElm(d, N, rows, c + 1)
  BY <1>1, <1>9, <1>10 DEF RowElm, LeafElm
<1>12. ASSUME NEW l \in 1 .. Len(rows), EndOf(d, rows, c + 1, l)
       PROVE  FALSE
  <2>1. Head(t) \in DOMAIN d /\ rows[l] = Append(Head(t), 0) /\ rows[l] \in N
    BY <1>1, <1>12, RowsPlaced DEF EndOf, File
  <2>2. Head(t) \in Seq(Nat) /\ N \subseteq Seq(Nat)
    BY <1>1 DEF File, Tree
  <2>3. rows[l] # <<>> /\ Front(rows[l]) = Head(t)
    <3>1. PICK h, r : h = Head(t) /\ r = Append(h, 0) /\ h \in Seq(Nat)
      BY <2>2
    <3>2. r # <<>> /\ Front(r) = h
      BY <3>1, AppendIs
    <3> QED
      BY <2>1, <3>1, <3>2
  <2>4. rows[l] \in KidsOf(N, Head(t))
    BY <2>1, <2>2, <2>3, KidIs
  <2> QED
    BY <2>1, <2>4
<1> QED
  BY <1>1, <1>4, <1>8, <1>11, <1>12, FilledNext

(* The row that closes a word has its element already.                     *)
LEMMA FilledEnd ==
  ASSUME NEW d, NEW N, NEW rows, File(d, N, rows), NEW t, NEW e, NEW n, NEW o, NEW c,
         RowsLaid(d, N, rows, t, e, n, o, c), t # <<>>,
         Filled(d, N, rows, e, c), Head(t) \notin DOMAIN d, KidsOf(N, Head(t)) = {}
  PROVE  Filled(d, N, rows, e, c + 1)
<1>1. c \in Nat /\ Head(t) = rows[c + 1]
  BY RowNext DEF RowsLaid
<1> QED
  BY <1>1, FilledNext DEF EndOf

(* When all rows are read, every node has its element, in the order of the *)
(* rows.                                                                   *)
LEMMA FilledImage ==
  ASSUME NEW d, NEW N, NEW rows, File(d, N, rows), NEW t, NEW e, NEW n, NEW o, NEW c,
         RowsLaid(d, N, rows, t, e, n, o, c), t = <<>>, Cells(e, n), Filled(d, N, rows, e, c)
  PROVE  \E at : Image(d, N, e, n, at)
<1>1. /\ c = Len(rows) /\ Len(rows) \in Nat /\ (c = 0 \/ c < n) /\ n \in Nat
      /\ N \subseteq Seq(Nat) /\ Ends(d, N) /\ <<>> \in N
      /\ \A k \in 1 .. Len(rows) : rows[k] \in N
      /\ \A k, l \in 1 .. Len(rows) : rows[k] = rows[l] => k = l
      /\ \A x \in N : \E k \in 1 .. Len(rows) : rows[k] = x
  <2>1. Len(t) = 0
    BY DEF RowsLaid
  <2>2. c \in Nat /\ c <= Len(rows) /\ Len(t) = Len(rows) - c /\ (c = 0 \/ c < n) /\ n \in Nat
    BY DEF RowsLaid, Upto, Cells
  <2>3. N \subseteq Seq(Nat) /\ Ends(d, N) /\ <<>> \in N /\ Tree(N) /\ InOrder(rows, N)
    BY DEF File, Tree
  <2>4. /\ Len(rows) \in Nat
        /\ \A k \in 1 .. Len(rows) : rows[k] \in N
        /\ \A k, l \in 1 .. Len(rows) : rows[k] = rows[l] => k = l
        /\ \A x \in N : \E k \in 1 .. Len(rows) : rows[k] = x
    <3>1. Tree(N) /\ InOrder(rows, N)
      BY <2>3
    <3> QED
      BY <3>1, RowsPlaced
  <2>5. c = Len(rows)
    BY <2>1, <2>2, <2>4
  <2> QED
    BY <2>2, <2>3, <2>4, <2>5
<1> DEFINE at == [p \in N |-> Place(N, BeforeIn(N), p)]
<1>2. ASSUME NEW p \in N
      PROVE  at[p] \in Nat /\ at[p] + 1 \in 1 .. Len(rows) /\ rows[at[p] + 1] = p
  <2>1. Place(N, BeforeIn(N), p) + 1 \in 1 .. Len(rows) /\ rows[Place(N, BeforeIn(N), p) + 1] = p
    BY DEF File, InOrder, Lists
  <2>2. Place(N, BeforeIn(N), p) \in Nat
    BY PlaceGrows, BeforeOrders DEF File, Tree
  <2> QED
    BY <2>1, <2>2
<1>3. at[<<>>] = 0
  <2>1. Lower(N, BeforeIn(N), <<>>) = {}
    <3>1. ASSUME NEW y \in N
          PROVE  ~Before(y, <<>>)
      <4>1. Len(y) \in Nat /\ Len(<<>>) = 0
        BY <1>1
      <4> QED
        BY <4>1 DEF Before
    <3> QED
      BY <3>1 DEF Lower, BeforeIn
  <2> QED
    BY <1>1, <2>1, FS_EmptySet DEF Place
<1>4. ASSUME NEW p \in N, NEW q \in KidsOf(N, p)
      PROVE  at[q] = 1 + Cardinality(Behind(N, rows, at[p])) + Rank(N, p, q)
  <2>1. PICK j : j = at[p]
    OBVIOUS
  <2>2. j \in Nat /\ j < Len(rows) /\ rows[j + 1] = p /\ q \in KidsOf(N, rows[j + 1])
    BY <1>1, <1>2, <2>1
  <2>3. Place(N, BeforeIn(N), q) = 1 + Cardinality(Behind(N, rows, j)) + Rank(N, rows[j + 1], q)
    BY <2>2, KidRow DEF File
  <2>4. q \in N
    BY DEF KidsOf
  <2> QED
    BY <2>1, <2>2, <2>3, <2>4
<1> HIDE DEF at
<1>5. ASSUME NEW p \in N
      PROVE  Holds(d, N, at, p, e[at[p]])
  <2>1. PICK k : k = at[p] + 1
    OBVIOUS
  <2>2. k \in 1 .. c /\ rows[k] = p /\ k - 1 = at[p] /\ k \in 1 .. Len(rows)
    BY <1>1, <1>2, <2>1
  <2>3. CASE p \in DOMAIN d \/ KidsOf(N, p) # {}
    <3>1. e[at[p]] = RowElm(d, N, rows, k)
      BY <2>2, <2>3 DEF Filled
    <3>2. CASE KidsOf(N, p) = {}
      BY <2>2, <3>1, <3>2 DEF RowElm, Holds
    <3>3. CASE KidsOf(N, p) # {}
      <4>1. e[at[p]] = Elm(LastChar(p), 1 + Cardinality(Behind(N, rows, at[p])), Cardinality(KidsOf(N, p)))
        BY <2>2, <3>1, <3>3 DEF RowElm
      <4> QED
        BY <1>4, <3>3, <4>1 DEF Holds, Elm
    <3> QED
      BY <3>2, <3>3
  <2>4. CASE p \notin DOMAIN d /\ KidsOf(N, p) = {}
    <3>1. PICK w \in DOMAIN d : p = Append(w, 0)
      BY <1>1, <2>4 DEF Ends
    <3>2. PICK j \in 1 .. Len(rows) : rows[j] = w
      BY <1>1 DEF Ends
    <3>3. j \in 1 .. c /\ EndOf(d, rows, j, k)
      BY <1>1, <2>2, <3>1, <3>2 DEF EndOf
    <3>4. e[k - 1] = LeafElm(d, rows[k])
      BY <2>2, <3>3 DEF Filled
    <3> QED
      BY <2>2, <2>4, <3>4 DEF Holds
  <2> QED
    BY <2>3, <2>4
<1>6. ASSUME NEW p \in N
      PROVE  at[p] \in Nat /\ at[p] < n /\ (at[p] = 0 <=> p = <<>>)
  <2>1. at[p] \in Nat /\ at[p] + 1 \in 1 .. Len(rows) /\ rows[at[p] + 1] = p
    BY <1>2
  <2>2. at[p] < n
    BY <1>1, <2>1
  <2>3. rows[0 + 1] = <<>>
    BY <1>1, <1>2, <1>3
  <2> QED
    BY <1>3, <2>1, <2>2, <2>3
<1> QED
  BY <1>5, <1>6 DEF Image

-----------------------------------------------------------------------------
(* Of a Trie: the nodes in D have their elements, those in the queue their *)
(* slots.                                                                  *)
DrawnBy(d, N, t, e, o, D, at) ==
  /\ Walked(N, t, D)
  /\ \A p \in D : at[p] \in Nat /\ at[p] < o - Len(t) /\ Holds(d, N, at, p, e[at[p]])
  /\ \A k \in 1 .. Len(t) : at[t[k].node] = t[k].slot
  /\ \A p \in N : p \in D \/ InQueue(t, p) => (at[p] = 0 <=> p = <<>>)

Drawn(d, N, t, e, o) == \E D, at : DrawnBy(d, N, t, e, o, D, at)

LEMMA DrawnBegins ==
  ASSUME NEW d, NEW N, Tree(N), NEW e
  PROVE  Drawn(d, N, << [node |-> <<>>, slot |-> 0] >>, e, 1)
<1>1. PICK t : t = << [node |-> <<>>, slot |-> 0] >>
  OBVIOUS
<1>2. Len(t) = 1 /\ t[1].node = <<>> /\ t[1].slot = 0
  BY <1>1
<1>3. \A k \in 1 .. Len(t) : k = 1
  BY <1>2
<1>4. 1 \in 1 .. Len(t)
  BY <1>2
<1>5. \A p : InQueue(t, p) <=> p = <<>>
  BY <1>2, <1>3, <1>4 DEF InQueue
<1>6. Walked(N, t, {})
  BY <1>5 DEF Walked
<1>7. PICK at : at = [p \in N |-> 0]
  OBVIOUS
<1>8. \A p \in N : at[p] = 0
  BY <1>7
<1>9. <<>> \in N
  BY DEF Tree
<1>10. DrawnBy(d, N, t, e, 1, {}, at)
  BY <1>2, <1>3, <1>5, <1>6, <1>8, <1>9 DEF DrawnBy
<1> QED
  BY <1>1, <1>10 DEF Drawn

(* The ranks of the children are those of the list of them.                *)
LEMMA KidsListed ==
  ASSUME NEW N, Tree(N), NEW p \in N, Nodes = N
  PROVE  Lists(SortedKids(p), KidsOf(N, p), ByLast(KidsOf(N, p)))
<1>1. PICK S : S = KidsOf(N, p)
  OBVIOUS
<1>2. Kids(p) = S
  BY <1>1 DEF Kids, KidsOf
<1>3. N \subseteq Seq(Nat) /\ p \in Seq(Nat) /\ IsFiniteSet(S)
  BY <1>1, KidsFinite DEF Tree
<1>4. PICK s : s = SortedKids(p)
  OBVIOUS
<1> DEFINE lower(x) == {y \in S : LastChar(y) < LastChar(x)}
<1>5. s = [k \in 1 .. Cardinality(S) |->
             CHOOSE x \in S : Cardinality(lower(x)) = k - 1]
  BY <1>2, <1>4 DEF SortedKids, Sorted
<1>6. \A x \in S : lower(x) = Lower(S, ByLast(S), x)
  BY DEF Lower, ByLast
<1>7. \A x \in S : Cardinality(lower(x)) = Place(S, ByLast(S), x)
  BY <1>6 DEF Place
<1> HIDE DEF lower
<1>8. s = [k \in 1 .. Cardinality(S) |->
             CHOOSE x \in S : Place(S, ByLast(S), x) = k - 1]
  BY <1>5, <1>7
<1> QED
  BY <1>1, <1>3, <1>4, <1>8, LastOrders, Listing

(* The node at the head is laid out, and its children get their slots.     *)
LEMMA DrawnNext ==
  ASSUME NEW d, NEW N, Tree(N), NEW t, NEW e, NEW n, NEW o, QueueLaid(N, t, e, n, o), t # <<>>,
         Drawn(d, N, t, e, o), Cells(e, n), Spare(e, n),
         NEW kids, AllKids(kids, N, Head(t).node),
         Lists(kids, KidsOf(N, Head(t).node), ByLast(KidsOf(N, Head(t).node))),
         NEW x \in ElmType,
         x = IF KidsOf(N, Head(t).node) = {} THEN LeafElm(d, Head(t).node)
             ELSE Elm(LastChar(Head(t).node), o, Len(kids)),
         NEW e1 \in Grown(e, Head(t).slot + 1)
  PROVE  Drawn(d, N, Behind1(t, kids, o), [e1 EXCEPT ![Head(t).slot] = x], o + Len(kids))
<1>1. PICK u, p, c, K, S : /\ u = Behind1(t, kids, o) /\ p = Head(t).node /\ c = Head(t).slot
                           /\ K = Len(kids) /\ S = KidsOf(N, p)
  OBVIOUS
<1>2. Queued(N, t, o)
  BY DEF QueueLaid
<1>3. /\ c = o - Len(t) /\ c \in Nat /\ o \in Nat /\ Len(t) \in Nat \ {0} /\ K \in Nat
      /\ Len(u) = Len(t) - 1 + K /\ p \in N /\ Head(t) = t[1]
      /\ \A k \in 1 .. Len(t) - 1 : u[k] = t[k + 1]
      /\ \A k \in 1 .. K : u[Len(t) - 1 + k] = [node |-> kids[k], slot |-> o + k - 1]
  <2>1. /\ Head(t).slot = o - Len(t) /\ Len(t) \in Nat \ {0} /\ Len(kids) \in Nat
        /\ Len(u) = Len(t) - 1 + Len(kids) /\ Head(t).node \in N /\ Head(t) = t[1]
        /\ \A k \in 1 .. Len(t) - 1 : u[k] = t[k + 1]
        /\ \A k \in 1 .. Len(kids) :
             u[Len(t) - 1 + k] = [node |-> kids[k], slot |-> o + k - 1]
    BY <1>1, <1>2, QueueNext
  <2>2. o \in Nat /\ o - Len(t) \in Nat
    BY <1>2 DEF Queued
  <2> QED
    BY <1>1, <2>1, <2>2, Zenon
<1>4. PICK D, at : DrawnBy(d, N, t, e, o, D, at)
  BY DEF Drawn
<1>5. /\ Walked(N, t, D) /\ D \subseteq N /\ \A k \in 1 .. Len(t) : t[k].node \notin D
      /\ \A q \in N : (q = <<>> \/ Front(q) \in D) <=> (q \in D \/ InQueue(t, q))
  BY <1>4 DEF DrawnBy, Walked
<1>6. Walked(N, u, D \cup {p}) /\ p \notin D
  BY <1>1, <1>2, <1>5, NodeWalked
<1>7. o + K - Len(u) = c + 1
  BY <1>3
<1>8. PICK m : Lays(e, n, e1, m, {}) /\ c + 1 < m
  <2>1. c + 1 \in Nat \ {0}
    BY <1>3
  <2> QED
    BY <1>1, <2>1, GrownIs
<1>9. Cells(e1, m) /\ Spare(e1, m)
  BY <1>8 DEF Lays
<1>10. PICK g : g = [e1 EXCEPT ![c] = x]
  OBVIOUS
<1>11. g[c] = x /\ \A i \in 0 .. n - 1 : i # c => g[i] = e[i]
  <2>1. c \in DOMAIN e1 /\ n <= m /\ m \in Nat /\ n \in Nat /\ DOMAIN e1 = 0 .. m - 1
    BY <1>3, <1>8, <1>9 DEF Cells, Lays
  <2>2. \A i \in 0 .. n - 1 : i \in DOMAIN e1 /\ e1[i] = e[i]
    BY <1>8, <2>1 DEF Lays
  <2> QED
    BY <1>10, <2>1, <2>2
<1>12. S \subseteq N /\ N \subseteq Seq(Nat) /\ p \in Seq(Nat) /\ <<>> \in N
       /\ \A q \in N : q \in S <=> q # <<>> /\ Front(q) = p
  <2>1. N \subseteq Seq(Nat) /\ p \in Seq(Nat) /\ <<>> \in N
    BY <1>3 DEF Tree
  <2>2. S \subseteq N
    BY <1>1 DEF KidsOf
  <2>3. \A q \in N : q \in KidsOf(N, p) <=> q # <<>> /\ Front(q) = p
    BY <2>1, KidIs
  <2> QED
    BY <1>1, <2>1, <2>2, <2>3
<1>13. /\ \A k \in 1 .. K : kids[k] \in S /\ Rank(N, p, kids[k]) = k - 1
       /\ \A q \in S : Rank(N, p, q) + 1 \in 1 .. K /\ kids[Rank(N, p, q) + 1] = q
  BY <1>1 DEF Lists, Rank
<1>14. \A q \in S : Rank(N, p, q) \in Nat
  BY <1>1, <1>12, PlaceGrows, LastOrders, KidsFinite DEF Rank, Tree
<1>15. PICK to : to = [q \in N |-> IF q \in S THEN o + Rank(N, p, q) ELSE at[q]]
  OBVIOUS
<1>16. /\ \A q \in S : to[q] = o + Rank(N, p, q)
       /\ \A q \in N : q \notin S => to[q] = at[q]
  BY <1>12, <1>15
(* The children are new.                                                   *)
<1>17. ASSUME NEW q \in N, q \in D \/ InQueue(t, q)
       PROVE  to[q] = at[q] /\ q \notin S
  BY <1>5, <1>6, <1>12, <1>16, <1>17
<1>18. InQueue(t, p)
  <2>1. 1 \in 1 .. Len(t)
    BY <1>3
  <2> QED
    BY <1>1, <1>3, <2>1 DEF InQueue
<1>19. to[p] = c
  <2>1. 1 \in 1 .. Len(t)
    BY <1>3
  <2>2. at[p] = c
    BY <1>1, <1>3, <1>4, <2>1 DEF DrawnBy
  <2> QED
    BY <1>3, <1>17, <1>18, <2>2
<1>20. ASSUME NEW q \in D
       PROVE  to[q] \in Nat /\ to[q] < o + K - Len(u) /\ Holds(d, N, to, q, g[to[q]])
  <2>1. to[q] = at[q] /\ q \in N
    BY <1>5, <1>17
  <2>2. at[q] \in Nat /\ at[q] < c /\ Holds(d, N, at, q, e[at[q]])
    BY <1>3, <1>4 DEF DrawnBy
  <2>3. c = 0 \/ c < n
    BY <1>3 DEF QueueLaid
  <2>4. n \in Nat
    BY DEF Cells
  <2>5. at[q] \in 0 .. n - 1 /\ at[q] # c
    BY <1>3, <2>2, <2>3, <2>4
  <2>6. g[at[q]] = e[at[q]]
    BY <1>11, <2>5
  <2>7. ASSUME NEW r \in KidsOf(N, q)
        PROVE  to[r] = at[r]
    <3>1. r \in N
      BY DEF KidsOf
    <3>2. Front(r) = q
      BY <1>5, <1>12, <3>1, KidIs
    <3>3. r \notin S
      BY <1>6, <1>12, <3>1, <3>2
    <3> QED
      BY <1>16, <3>1, <3>3
  <2>8. Holds(d, N, to, q, e[at[q]])
    BY <2>2, <2>7 DEF Holds
  <2>9. at[q] < c + 1
    BY <1>3, <2>2
  <2> QED
    BY <1>7, <2>1, <2>2, <2>6, <2>8, <2>9
<1>21. Holds(d, N, to, p, x)
  <2>1. CASE S = {}
    BY <1>1, <2>1 DEF Holds
  <2>2. CASE S # {}
    <3>1. x = Elm(LastChar(p), o, Cardinality(S))
      BY <1>1, <2>2 DEF AllKids
    <3> QED
      BY <1>1, <1>16, <2>2, <3>1 DEF Holds, Elm
  <2> QED
    BY <2>1, <2>2
<1>22. ASSUME NEW q \in D \cup {p}
       PROVE  to[q] \in Nat /\ to[q] < o + K - Len(u) /\ Holds(d, N, to, q, g[to[q]])
  <2>1. CASE q = p
    <3>1. c < c + 1
      BY <1>3
    <3> QED
      BY <1>3, <1>7, <1>11, <1>19, <1>21, <2>1, <3>1
  <2> QED
    BY <1>20, <2>1
<1>23. ASSUME NEW k \in 1 .. Len(u)
       PROVE  to[u[k].node] = u[k].slot
  <2>1. CASE k \in 1 .. Len(t) - 1
    <3>1. u[k] = t[k + 1] /\ k + 1 \in 1 .. Len(t)
      BY <1>3, <2>1
    <3>2. InQueue(t, t[k + 1].node)
      BY <3>1 DEF InQueue
    <3>3. t[k + 1].node \in N
      <4>1. t \in Seq(Entry(N))
        BY <1>2 DEF Queued
      <4>2. t[k + 1] \in Entry(N)
        BY <3>1, <4>1, ElementOfSeq
      <4> QED
        BY <4>2 DEF Entry
    <3>4. at[t[k + 1].node] = t[k + 1].slot
      BY <1>4, <3>1 DEF DrawnBy
    <3> QED
      BY <1>17, <3>1, <3>2, <3>3, <3>4
  <2>2. CASE k \notin 1 .. Len(t) - 1
    <3>1. PICK j : j = k - (Len(t) - 1)
      OBVIOUS
    <3>2. j \in 1 .. K /\ k = Len(t) - 1 + j
      BY <1>3, <2>2, <3>1
    <3>3. u[k] = [node |-> kids[j], slot |-> o + j - 1]
      BY <1>3, <3>2
    <3>4. kids[j] \in S /\ to[kids[j]] = o + (j - 1)
      BY <1>13, <1>16, <3>2
    <3>5. o + (j - 1) = o + j - 1
      BY <1>3, <3>2
    <3> QED
      BY <3>3, <3>4, <3>5
  <2> QED
    BY <2>1, <2>2
<1>24. ASSUME NEW q \in N, q \in D \cup {p} \/ InQueue(u, q)
       PROVE  to[q] = 0 <=> q = <<>>
  <2>1. CASE q \in S
    <3>1. q # <<>> /\ to[q] = o + Rank(N, p, q) /\ Rank(N, p, q) \in Nat /\ o # 0
      BY <1>3, <1>12, <1>14, <1>16, <2>1
    <3> QED
      BY <1>3, <3>1
  <2>2. CASE q \notin S
    <3>1. q \in D \/ InQueue(t, q)
      <4>1. q = <<>> \/ Front(q) \in D \cup {p}
        BY <1>6, <1>24 DEF Walked
      <4> QED
        BY <1>5, <1>12, <2>2, <4>1
    <3>2. at[q] = 0 <=> q = <<>>
      BY <1>4, <3>1 DEF DrawnBy
    <3> QED
      BY <1>17, <3>1, <3>2
  <2> QED
    BY <2>1, <2>2
<1>25. DrawnBy(d, N, u, g, o + K, D \cup {p}, to)
  <2>1. PICK E, v : E = D \cup {p} /\ v = o + K
    OBVIOUS
  <2>2. \A q \in E : to[q] \in Nat /\ to[q] < v - Len(u) /\ Holds(d, N, to, q, g[to[q]])
    <3>1. SUFFICES ASSUME NEW q \in E
                   PROVE  to[q] \in Nat /\ to[q] < v - Len(u) /\ Holds(d, N, to, q, g[to[q]])
      OBVIOUS
    <3>2. q \in D \cup {p}
      BY <2>1
    <3>3. to[q] \in Nat /\ to[q] < o + K - Len(u) /\ Holds(d, N, to, q, g[to[q]])
      BY <1>22, <3>2, Zenon
    <3>4. v - Len(u) = o + K - Len(u)
      BY <1>3, <2>1
    <3> QED
      BY <3>3, <3>4, Zenon
  <2>3. \A k \in 1 .. Len(u) : to[u[k].node] = u[k].slot
    BY <1>23
  <2>4. \A q \in N : q \in E \/ InQueue(u, q) => (to[q] = 0 <=> q = <<>>)
    BY <1>24, <2>1
  <2>5. Walked(N, u, E)
    BY <1>6, <2>1
  <2>6. DrawnBy(d, N, u, g, v, E, to)
    BY <2>2, <2>3, <2>4, <2>5 DEF DrawnBy
  <2> QED
    BY <2>1, <2>6
<1> QED
  BY <1>1, <1>10, <1>25 DEF Drawn

(* When the queue is empty, every node has been laid out.                  *)
LEMMA AllWalked ==
  ASSUME NEW N, Tree(N), NEW t, t = <<>>, NEW D, Walked(N, t, D)
  PROVE  D = N
<1>1. D \subseteq N /\ \A x \in N : (x = <<>> \/ Front(x) \in D) <=> x \in D
  <2>1. \A k : ~(k \in 1 .. Len(t))
    OBVIOUS
  <2> QED
    BY <2>1 DEF Walked, InQueue
<1> DEFINE out == {l \in Nat : \E x \in N \ D : Len(x) = l}
<1>2. ASSUME out # {}
      PROVE  FALSE
  <2>1. out \subseteq Nat
    OBVIOUS
  <2>2. PICK l \in out : \A j \in out : ~(<< j, l >> \in OpToRel(<, Nat))
    BY <1>2, <2>1, NatLessThanWellFounded, WFMin
  <2>3. PICK x \in N \ D : Len(x) = l
    OBVIOUS
  <2>4. x # <<>> /\ Front(x) \notin D /\ x \in Seq(Nat)
    BY <1>1, <2>3 DEF Tree
  <2>5. Front(x) \in N /\ Len(x) \in Nat \ {0} /\ Len(Front(x)) = Len(x) - 1
    BY <2>3, <2>4, FrontIs DEF Tree
  <2>6. Len(Front(x)) \in Nat /\ Len(Front(x)) < l /\ Len(Front(x)) \in out
    BY <2>3, <2>4, <2>5
  <2> QED
    BY <2>2, <2>6 DEF OpToRel
<1>3. ASSUME NEW x \in N, x \notin D
      PROVE  FALSE
  <2>1. Len(x) \in Nat
    BY DEF Tree
  <2>2. Len(x) \in out
    BY <1>3, <2>1
  <2> QED
    BY <1>2, <2>2
<1> QED
  BY <1>1, <1>3

LEMMA DrawnImage ==
  ASSUME NEW d, NEW N, Tree(N), NEW t, NEW e, NEW n, NEW o, QueueLaid(N, t, e, n, o), t = <<>>,
         Drawn(d, N, t, e, o), Cells(e, n)
  PROVE  \E at : Image(d, N, e, n, at)
<1>1. PICK D, at : DrawnBy(d, N, t, e, o, D, at)
  BY DEF Drawn
<1>2. D = N
  BY <1>1, AllWalked DEF DrawnBy
<1>3. /\ o \in Nat /\ Len(t) = 0 /\ n \in Nat /\ (o - Len(t) = 0 \/ o - Len(t) < n)
  BY DEF QueueLaid, Queued, Cells
<1>4. ASSUME NEW p \in N
      PROVE  /\ at[p] \in Nat /\ at[p] < n /\ (at[p] = 0 <=> p = <<>>)
             /\ Holds(d, N, at, p, e[at[p]])
  <2>1. /\ at[p] \in Nat /\ at[p] < o - Len(t) /\ Holds(d, N, at, p, e[at[p]])
        /\ at[p] = 0 <=> p = <<>>
    BY <1>1, <1>2 DEF DrawnBy
  <2>2. at[p] < n
    BY <1>3, <2>1
  <2> QED
    BY <2>1, <2>2
<1> QED
  BY <1>4 DEF Image

-----------------------------------------------------------------------------
(* The contents of the array, while it is laid out and when it is done.    *)
RowsHold ==
  phase = "build" /\ format # "trie" => Filled(dict, Layout, Rows(dict, format), elm, cur)

NodesHold ==
  phase = "build" /\ format = "trie" => Drawn(dict, Layout, todo, elm, offset)

Done == phase \in {"ready", "save", "saved"} \/ (phase = "loaded" /\ ~file.failed)

ArrayHolds == Done => \E at : Image(dict, Layout, elm, Count, at)

(* The nodes that close a word have its id, the others none.               *)
IdsHold ==
  phase = "fill" =>
    \A p \in DOMAIN trie :
      trie[p] = IF \E w \in DOMAIN dict : p = Append(w, 0) THEN dict[Front(p)] ELSE -1

Contents == RowsHold /\ NodesHold /\ ArrayHolds /\ IdsHold

(* A row was read.                                                         *)
LEMMA RowContents ==
  ASSUME phase = "build", format # "trie", UNCHANGED << dict, trie, format, phase, file >>,
         Filled(dict, Layout, Rows(dict, format), elm', cur')
  PROVE  Contents'
<1>1. Layout' = Layout /\ Rows(dict, format)' = Rows(dict, format)
  BY DEF Layout
<1>2. RowsHold'
  BY <1>1 DEF RowsHold
<1>3. NodesHold' /\ ArrayHolds' /\ IdsHold'
  BY DEF NodesHold, ArrayHolds, IdsHold, Done
<1> QED
  BY <1>2, <1>3 DEF Contents

LEMMA WordContents == ASSUME IInv, Contents, InsertWord PROVE Contents'
<1>1. Reading /\ Row \in DOMAIN dict /\ cur' = cur + 1 /\ todo' = Tail(todo)
      /\ UNCHANGED << dict, trie, format, phase, file >>
  BY DEF InsertWord
<1>2. PICK N, rows, n, r, K : /\ N = Layout /\ rows = Rows(dict, format) /\ n = Count
                              /\ r = Row /\ K = ChildSize(Row)
  OBVIOUS
<1>3. /\ File(dict, N, rows) /\ phase = "build" /\ format # "trie"
      /\ RowsLaid(dict, N, rows, todo, elm, n, offset, cur)
      /\ todo # <<>> /\ r = Head(todo) /\ r \in N /\ Cells(elm, n) /\ Spare(elm, n)
      /\ K = Cardinality(KidsOf(N, r)) /\ K \in Nat /\ (K = 0 <=> KidsOf(N, r) = {})
      /\ LastChar(r) \in Nat /\ size \in Nat /\ offset \in Nat /\ cur \in Nat
      /\ dict[r] \in Nat /\ r \in DOMAIN dict
  BY <1>1, <1>2, RowRead
<1>4. Filled(dict, N, rows, elm, cur)
  BY <1>2, <1>3 DEF Contents, RowsHold
<1>5. PICK e1 \in Grown(elm, cur + 1) :
        IF K > 0
          THEN \E f \in Grown(e1, offset + 1) :
                 elm' = [f EXCEPT ![cur] = Elm(LastChar(r), offset, K),
                                  ![offset] = Elm(0, dict[r], 0)]
          ELSE elm' = [e1 EXCEPT ![cur] = Elm(LastChar(r), dict[r], 0)]
  BY <1>2 DEF InsertWord
<1>6. Filled(dict, N, rows, elm', cur + 1)
  <2>1. CASE K > 0
    <3>1. PICK f \in Grown(e1, offset + 1) :
            elm' = [f EXCEPT ![cur] = Elm(LastChar(r), offset, K),
                             ![offset] = Elm(0, dict[r], 0)]
      BY <1>5, <2>1
    <3>2. PICK x, y : x = Elm(LastChar(r), offset, K) /\ y = Elm(0, dict[r], 0)
      OBVIOUS
    <3>3. x \in ElmType /\ y \in ElmType
      BY <1>3, <3>2, ElmIs
    <3>4. KidsOf(N, Head(todo)) # {} /\ Head(todo) \in DOMAIN dict
      BY <1>3, <2>1
    <3>5. /\ x = Elm(LastChar(Head(todo)), offset, Cardinality(KidsOf(N, Head(todo))))
          /\ y = Elm(0, dict[Head(todo)], 0)
      BY <1>3, <3>2
    <3>6. Filled(dict, N, rows, [f EXCEPT ![cur] = x, ![offset] = y], cur + 1)
      BY <1>3, <1>4, <3>3, <3>4, <3>5, FilledWord
    <3> QED
      BY <3>1, <3>2, <3>6
  <2>2. CASE ~(K > 0)
    <3>1. elm' = [e1 EXCEPT ![cur] = Elm(LastChar(r), dict[r], 0)]
      BY <1>5, <2>2
    <3>2. PICK x : x = Elm(LastChar(r), dict[r], 0)
      OBVIOUS
    <3>3. x \in ElmType
      BY <1>3, <3>2, ElmIs
    <3>4. K = 0
      BY <1>3, <2>2
    <3>5. /\ Head(todo) \in DOMAIN dict <=> KidsOf(N, Head(todo)) = {}
          /\ x = IF KidsOf(N, Head(todo)) = {} THEN Elm(LastChar(Head(todo)), dict[Head(todo)], 0)
                 ELSE Elm(LastChar(Head(todo)), offset, Cardinality(KidsOf(N, Head(todo))))
      BY <1>3, <3>2, <3>4
    <3>6. Filled(dict, N, rows, [e1 EXCEPT ![cur] = x], cur + 1)
      BY <1>3, <1>4, <3>3, <3>5, FilledAlone
    <3> QED
      BY <3>1, <3>2, <3>6
  <2> QED
    BY <2>1, <2>2
<1> QED
  BY <1>1, <1>2, <1>3, <1>6, RowContents

LEMMA PrefixContents == ASSUME IInv, Contents, InsertPrefix PROVE Contents'
<1>1. Reading /\ Row \notin DOMAIN dict /\ ChildSize(Row) > 0 /\ cur' = cur + 1
      /\ UNCHANGED << dict, trie, format, phase, file >>
  BY DEF InsertPrefix
<1>2. PICK N, rows, n, r, K : /\ N = Layout /\ rows = Rows(dict, format) /\ n = Count
                              /\ r = Row /\ K = ChildSize(Row)
  OBVIOUS
<1>3. /\ File(dict, N, rows) /\ phase = "build" /\ format # "trie"
      /\ RowsLaid(dict, N, rows, todo, elm, n, offset, cur)
      /\ todo # <<>> /\ r = Head(todo) /\ r \in N /\ Cells(elm, n) /\ Spare(elm, n)
      /\ K = Cardinality(KidsOf(N, r)) /\ K \in Nat /\ (K = 0 <=> KidsOf(N, r) = {})
      /\ LastChar(r) \in Nat /\ offset \in Nat /\ cur \in Nat
      /\ r \notin DOMAIN dict /\ K > 0
  BY <1>1, <1>2, RowRead
<1>4. Filled(dict, N, rows, elm, cur)
  BY <1>2, <1>3 DEF Contents, RowsHold
<1>5. PICK e1 \in Grown(elm, cur + 1) :
        elm' = [e1 EXCEPT ![cur] = Elm(LastChar(r), offset, K)]
  BY <1>2 DEF InsertPrefix
<1>6. PICK x : x = Elm(LastChar(r), offset, K)
  OBVIOUS
<1>7. x \in ElmType
  BY <1>3, <1>6, ElmIs
<1>8. /\ Head(todo) \in DOMAIN dict <=> KidsOf(N, Head(todo)) = {}
      /\ x = IF KidsOf(N, Head(todo)) = {} THEN Elm(LastChar(Head(todo)), dict[Head(todo)], 0)
             ELSE Elm(LastChar(Head(todo)), offset, Cardinality(KidsOf(N, Head(todo))))
  BY <1>3, <1>6
<1>9. Filled(dict, N, rows, [e1 EXCEPT ![cur] = x], cur + 1)
  BY <1>3, <1>4, <1>7, <1>8, FilledAlone
<1> QED
  BY <1>1, <1>2, <1>3, <1>5, <1>6, <1>9, RowContents

LEMMA EndContents == ASSUME IInv, Contents, PassTerminator PROVE Contents'
<1>1. Reading /\ Row \notin DOMAIN dict /\ ChildSize(Row) = 0 /\ cur' = cur + 1
      /\ elm' = elm /\ UNCHANGED << dict, trie, format, phase, file >>
  BY DEF PassTerminator
<1>2. PICK N, rows, n : N = Layout /\ rows = Rows(dict, format) /\ n = Count
  OBVIOUS
<1>3. /\ File(dict, N, rows) /\ phase = "build" /\ format # "trie"
      /\ RowsLaid(dict, N, rows, todo, elm, n, offset, cur)
      /\ todo # <<>> /\ Head(todo) \notin DOMAIN dict /\ KidsOf(N, Head(todo)) = {}
  BY <1>1, <1>2, RowRead
<1>4. Filled(dict, N, rows, elm, cur)
  BY <1>2, <1>3 DEF Contents, RowsHold
<1>5. Filled(dict, N, rows, elm, cur + 1)
  BY <1>3, <1>4, FilledEnd
<1> QED
  BY <1>1, <1>2, <1>3, <1>5, RowContents

(* A node was laid out.                                                    *)
LEMMA NodeContents == ASSUME IInv, Contents, BuildNode PROVE Contents'
<1>1. /\ phase = "build" /\ format = "trie" /\ todo # <<>>
      /\ UNCHANGED << dict, trie, format, cur, phase, file >>
  BY DEF BuildNode
<1>2. PICK N, n, p, c, kids : /\ N = Layout /\ n = Count /\ p = Head(todo).node
                              /\ c = Head(todo).slot /\ kids = SortedKids(p)
  OBVIOUS
<1>3. PICK e1 \in Grown(elm, c + 1) :
        elm' = [e1 EXCEPT ![c] = IF kids = <<>> THEN Elm(LastChar(p), dict[Front(p)], 0)
                                 ELSE Elm(LastChar(p), offset, Len(kids))]
  BY <1>2 DEF BuildNode
<1>4. todo' = Behind1(todo, kids, offset) /\ offset' = offset + Len(kids)
  BY <1>2 DEF BuildNode, Behind1
<1>5. /\ dict \in Dicts /\ offset \in Nat /\ Nodes = N
      /\ Cells(elm, n) /\ Spare(elm, n) /\ QueueLaid(N, todo, elm, n, offset)
      /\ N = FileNodes(dict, "trie")
  BY <1>1, <1>2 DEF IInv, Heads, ArrayInv, NodesInv, QueueInv, Layout
<1>6. Tree(N) /\ Ends(dict, N)
  BY <1>5, LayoutIs DEF File
<1>7. p \in N
  <2>1. todo \in Seq(Entry(N))
    BY <1>5 DEF QueueLaid, Queued
  <2>2. Head(todo) \in Entry(N)
    BY <1>1, <2>1, HeadTailProperties
  <2> QED
    BY <1>2, <2>2 DEF Entry
<1>8. AllKids(kids, N, p) /\ Lists(kids, KidsOf(N, p), ByLast(KidsOf(N, p)))
  BY <1>2, <1>5, <1>6, <1>7, KidsSorted, KidsListed
<1>9. p \in Seq(Nat) /\ LastChar(p) \in Nat /\ Len(kids) \in Nat
      /\ (kids = <<>> <=> KidsOf(N, p) = {})
  <2>1. p \in Seq(Nat) /\ LastChar(p) \in Nat
    BY <1>6, <1>7, CharIs DEF Tree
  <2>2. kids \in Seq(N) /\ Len(kids) = Cardinality(KidsOf(N, p)) /\ Len(kids) \in Nat
    BY <1>8 DEF AllKids
  <2>3. kids = <<>> <=> Len(kids) = 0
    BY <2>2, EmptySeq
  <2>4. Cardinality(KidsOf(N, p)) = 0 <=> KidsOf(N, p) = {}
    BY <1>6, KidsFinite DEF Tree
  <2> QED
    BY <2>1, <2>2, <2>3, <2>4
<1>10. PICK x : x = IF kids = <<>> THEN Elm(LastChar(p), dict[Front(p)], 0)
                    ELSE Elm(LastChar(p), offset, Len(kids))
  OBVIOUS
<1>11. /\ x \in ElmType
       /\ x = IF KidsOf(N, p) = {} THEN LeafElm(dict, p)
              ELSE Elm(LastChar(p), offset, Len(kids))
  <2>1. CASE kids = <<>>
    <3>1. PICK w \in DOMAIN dict : p = Append(w, 0)
      BY <1>5, <1>7, <1>9, <2>1, TrieEnds
    <3>2. w \in Seq(Nat) /\ dict[w] \in Nat
      BY <1>5, WordIs DEF Word
    <3>3. Front(p) = w /\ p \notin DOMAIN dict
      BY <1>6, <3>1, <3>2, AppendIs DEF Ends
    <3> QED
      BY <1>9, <1>10, <2>1, <3>2, <3>3, ElmIs DEF LeafElm
  <2>2. CASE kids # <<>>
    BY <1>5, <1>9, <1>10, <2>2, ElmIs
  <2> QED
    BY <2>1, <2>2
<1>12. Drawn(dict, N, todo, elm, offset)
  BY <1>1, <1>2 DEF Contents, NodesHold
<1>13. Drawn(dict, N, Behind1(todo, kids, offset), [e1 EXCEPT ![Head(todo).slot] = x],
             offset + Len(kids))
  BY <1>1, <1>2, <1>5, <1>6, <1>8, <1>11, <1>12, DrawnNext
<1>14. Drawn(dict, N, todo', elm', offset')
  BY <1>2, <1>3, <1>4, <1>10, <1>13
<1>15. NodesHold'
  BY <1>1, <1>2, <1>14 DEF NodesHold, Layout
<1>16. RowsHold' /\ ArrayHolds' /\ IdsHold'
  BY <1>1 DEF RowsHold, ArrayHolds, IdsHold, Done
<1> QED
  BY <1>15, <1>16 DEF Contents

(* What begins the closed form of a word is that form or begins the word.  *)
LEMMA PrefixOfEnd ==
  ASSUME NEW w \in Seq(Nat), NEW p \in Prefixes(Append(w, 0)), p # Append(w, 0)
  PROVE  p \in Seq(Nat) /\ IsPrefix(p, w)
<1>1. PICK e : e = Append(w, 0)
  OBVIOUS
<1>2. /\ e \in Seq(Nat) /\ Len(e) = Len(w) + 1 /\ Len(w) \in Nat
      /\ \A k \in 1 .. Len(w) : e[k] = w[k]
  BY <1>1, AppendIs
<1>3. p \in Seq(Nat) /\ IsPrefix(p, e)
  BY <1>1, <1>2, PrefixesAre
<1>4. Len(p) \in Nat /\ Len(p) <= Len(e) /\ \A k \in 1 .. Len(p) : p[k] = e[k]
  BY <1>2, <1>3, PrefixIs
<1>5. Len(p) # Len(e)
  BY <1>1, <1>2, <1>3, <1>4, SeqEqual
<1>6. Len(p) <= Len(w) /\ \A k \in 1 .. Len(p) : k \in 1 .. Len(w)
  BY <1>2, <1>4, <1>5
<1>7. \A k \in 1 .. Len(p) : p[k] = w[k]
  BY <1>2, <1>4, <1>6
<1> QED
  BY <1>3, <1>6, <1>7, PrefixIs

(* A word was added to the Trie.                                           *)
LEMMA KeyContents == ASSUME IInv, Contents, InsertKey PROVE Contents'
<1>1. phase = "fill" /\ UNCHANGED << dict, format, todo, elm, size, offset, cur, phase, file >>
  BY DEF InsertKey, array
<1>2. PICK w \in DOMAIN dict : trie' = Add(trie, w, dict[w])
  BY DEF InsertKey
<1>3. dict \in Dicts
  BY DEF IInv, Heads
<1>4. PICK new : new = Append(w, 0)
  OBVIOUS
<1>5. w \in Seq(Nat) /\ Front(new) = w
  <2>1. w \in Seq(Nat)
    BY <1>3, WordIs DEF Word
  <2> QED
    BY <1>4, <2>1, AppendIs
<1>6. trie' = [p \in DOMAIN trie \cup Prefixes(new) |->
                 IF p = new THEN dict[w] ELSE IF p \in DOMAIN trie THEN trie[p] ELSE -1]
  BY <1>2, <1>4 DEF Add
<1>7. ASSUME NEW p \in DOMAIN trie'
      PROVE  trie'[p] = IF \E v \in DOMAIN dict : p = Append(v, 0) THEN dict[Front(p)] ELSE -1
  <2>1. p \in DOMAIN trie \cup Prefixes(new)
    BY <1>6
  <2>2. trie'[p] = IF p = new THEN dict[w] ELSE IF p \in DOMAIN trie THEN trie[p] ELSE -1
    BY <1>6, <2>1
  <2>3. CASE p = new
    BY <1>4, <1>5, <2>2, <2>3
  <2>4. CASE p # new /\ p \in DOMAIN trie
    BY <1>1, <2>2, <2>4 DEF Contents, IdsHold
  <2>5. CASE p # new /\ p \notin DOMAIN trie
    <3>1. p \in Seq(Nat) /\ IsPrefix(p, w)
      BY <1>4, <1>5, <2>1, <2>5, PrefixOfEnd
    <3>2. ~\E v \in DOMAIN dict : p = Append(v, 0)
      BY <1>3, <3>1, EndIs
    <3> QED
      BY <2>2, <2>5, <3>2
  <2> QED
    BY <2>3, <2>4, <2>5
<1>8. IdsHold'
  BY <1>1, <1>7 DEF IdsHold
<1>9. RowsHold' /\ NodesHold' /\ ArrayHolds'
  BY <1>1 DEF RowsHold, NodesHold, ArrayHolds, Done
<1> QED
  BY <1>8, <1>9 DEF Contents

(* The Trie is full: nothing is laid out yet.                              *)
LEMMA StartContents == ASSUME IInv, Build PROVE Contents'
<1>1. /\ phase = "fill" /\ phase' = "build"
      /\ UNCHANGED << dict, trie, format, todo, elm, size, offset, cur, file >>
  BY DEF Build, array
<1>2. /\ dict \in Dicts /\ format = "trie" /\ offset = 1
      /\ todo = << [node |-> <<>>, slot |-> 0] >>
  BY <1>1 DEF IInv, Heads, FillInv
<1>3. Tree(Layout)
  BY <1>2, LayoutIs DEF Layout, File
<1>4. Drawn(dict, Layout, todo, elm, offset)
  BY <1>2, <1>3, DrawnBegins
<1>5. NodesHold'
  BY <1>1, <1>4 DEF NodesHold, Layout
<1>6. RowsHold' /\ ArrayHolds' /\ IdsHold'
  BY <1>1, <1>2 DEF RowsHold, ArrayHolds, IdsHold, Done
<1> QED
  BY <1>5, <1>6 DEF Contents

(* All rows are read, or all nodes laid out.                               *)
LEMMA FinishContents == ASSUME IInv, Contents, Finish PROVE Contents'
<1>1. /\ phase = "build" /\ todo = <<>> /\ phase' = "ready"
      /\ UNCHANGED << dict, trie, format, todo, elm, size, offset, cur, file >>
  BY DEF Finish, array
<1>2. dict \in Dicts /\ Cells(elm, Count)
  BY DEF IInv, Heads, ArrayInv
<1>3. File(dict, Layout, Rows(dict, format)) /\ Tree(Layout)
  BY <1>2, LayoutIs DEF Layout, File
<1>4. \E at : Image(dict, Layout, elm, Count, at)
  <2>1. CASE format = "trie"
    <3>1. QueueLaid(Layout, todo, elm, Count, offset) /\ Drawn(dict, Layout, todo, elm, offset)
      BY <1>1, <2>1 DEF IInv, QueueInv, Contents, NodesHold
    <3> QED
      BY <1>1, <1>2, <1>3, <3>1, DrawnImage
  <2>2. CASE format # "trie"
    <3>1. /\ RowsLaid(dict, Layout, Rows(dict, format), todo, elm, Count, offset, cur)
          /\ Filled(dict, Layout, Rows(dict, format), elm, cur)
      BY <1>1, <2>2 DEF IInv, RowsInv, Contents, RowsHold
    <3> QED
      BY <1>1, <1>2, <1>3, <3>1, FilledImage
  <2> QED
    BY <2>1, <2>2
<1>5. ArrayHolds'
  BY <1>1, <1>4 DEF ArrayHolds, Layout, Count
<1>6. RowsHold' /\ NodesHold' /\ IdsHold'
  BY <1>1 DEF RowsHold, NodesHold, IdsHold
<1> QED
  BY <1>5, <1>6 DEF Contents

(* Saving does not touch the array.                                        *)
LEMMA SaveContents ==
  ASSUME IInv, Contents, phase \in {"ready", "save", "saved"}, phase' \in {"save", "saved"},
         UNCHANGED << dict, format, elm >>
  PROVE  Contents'
<1>1. ArrayHolds'
  BY DEF Contents, ArrayHolds, Layout, Count, Done
<1>2. RowsHold' /\ NodesHold' /\ IdsHold'
  BY DEF RowsHold, NodesHold, IdsHold
<1> QED
  BY <1>1, <1>2 DEF Contents

(* What was saved without an error is loaded again.                        *)
LEMMA LoadContents == ASSUME IInv, Contents, Load PROVE Contents'
<1>1. /\ phase = "saved" /\ phase' = "loaded"
      /\ elm' = [k \in 0 .. Len(file.elms) - 1 |-> file.elms[k + 1]]
      /\ UNCHANGED << dict, trie, format, todo, size, file >>
  BY DEF Load
<1>2. ASSUME ~file.failed
      PROVE  elm' = elm
  <2>1. /\ Len(file.elms) = Count
        /\ \A k \in 1 .. Len(file.elms) : file.elms[k] = elm[k - 1]
    BY <1>1, <1>2 DEF IInv, FileInv
  <2>2. Count \in Nat /\ elm \in [0 .. Count - 1 -> ElmType]
    BY DEF IInv, ArrayInv, Cells
  <2>3. elm' = [k \in 0 .. Count - 1 |-> file.elms[k + 1]]
    BY <1>1, <2>1
  <2>4. ASSUME NEW k \in 0 .. Count - 1
        PROVE  file.elms[k + 1] = elm[k]
    <3>1. k + 1 \in 1 .. Len(file.elms) /\ (k + 1) - 1 = k
      BY <2>1, <2>2
    <3> QED
      BY <2>1, <3>1
  <2> QED
    BY <2>2, <2>3, <2>4
<1>3. ArrayHolds'
  BY <1>1, <1>2 DEF Contents, ArrayHolds, Layout, Count, Done
<1>4. RowsHold' /\ NodesHold' /\ IdsHold'
  BY <1>1 DEF RowsHold, NodesHold, IdsHold
<1> QED
  BY <1>3, <1>4 DEF Contents

LEMMA ContentsStep == ASSUME IInv, Contents, Next PROVE Contents'
<1>1. CASE InsertKey
  BY <1>1, KeyContents
<1>2. CASE Build
  BY <1>2, StartContents
<1>3. CASE InsertWord
  BY <1>3, WordContents
<1>4. CASE InsertPrefix
  BY <1>4, PrefixContents
<1>5. CASE PassTerminator
  BY <1>5, EndContents
<1>6. CASE BuildNode
  BY <1>6, NodeContents
<1>7. CASE Finish
  BY <1>7, FinishContents
<1>8. CASE SaveHead \/ WriteSome \/ WriteFails
  <2>1. /\ phase \in {"ready", "save", "saved"} /\ phase' \in {"save", "saved"}
        /\ UNCHANGED << dict, format, elm >>
    BY <1>8 DEF SaveHead, WriteSome, WriteFails, array
  <2> QED
    BY <2>1, SaveContents
<1>9. CASE Load
  BY <1>9, LoadContents
<1> QED
  BY <1>1, <1>2, <1>3, <1>4, <1>5, <1>6, <1>7, <1>8, <1>9 DEF Next

(* Every element of the finished array, and of the array loaded again, says *)
(* what its node says: its last character, its value or its children.      *)
THEOREM ContentsInv == Spec => []Contents
<1>1. Init => Contents
  <2> SUFFICES ASSUME Init PROVE Contents
    OBVIOUS
  <2>1. /\ dict \in Dicts /\ phase = (IF format = "trie" THEN "fill" ELSE "build") /\ cur = 0
        /\ trie = [p \in {<<>>} |-> -1]
    BY DEF Init
  <2>2. Filled(dict, Layout, Rows(dict, format), elm, 0)
    BY DEF Filled
  <2>3. IdsHold
    <3>1. ASSUME NEW p \in DOMAIN trie
          PROVE  trie[p] = -1 /\ ~\E w \in DOMAIN dict : p = Append(w, 0)
      <4>1. p = <<>> /\ trie[p] = -1
        BY <2>1
      <4>2. ASSUME NEW w \in DOMAIN dict
            PROVE  Append(w, 0) # <<>>
        BY <2>1, WordIs, AppendIs DEF Word
      <4> QED
        BY <4>1, <4>2
    <3> QED
      BY <3>1 DEF IdsHold
  <2> QED
    BY <2>1, <2>2, <2>3 DEF Contents, RowsHold, NodesHold, ArrayHolds, Done
<1>2. IInv /\ Contents /\ [Next]_vars => Contents'
  <2>1. ASSUME IInv, Contents, UNCHANGED vars
        PROVE  Contents'
    <3>1. UNCHANGED << dict, trie, format, todo, elm, size, offset, cur, phase, file >>
      BY <2>1 DEF vars, array
    <3>2. Layout' = Layout /\ Count' = Count
      BY <3>1 DEF Layout, Count
    <3> QED
      BY <2>1, <3>1, <3>2 DEF Contents, RowsHold, NodesHold, ArrayHolds, IdsHold, Done
  <2> QED
    BY <2>1, ContentsStep
<1> QED
  BY <1>1, <1>2, LayoutInv, PTL DEF Spec

-----------------------------------------------------------------------------
(* The least of a set of naturals.                                         *)
LEMMA LeastOf ==
  ASSUME NEW S, S \subseteq Nat, S # {}
  PROVE  \E k \in S : \A j \in S : k <= j
<1>1. PICK k \in S : \A j \in S : ~(<< j, k >> \in OpToRel(<, Nat))
  BY NatLessThanWellFounded, WFMin
<1>2. \A j \in S : ~(j < k)
  BY <1>1 DEF OpToRel
<1> QED
  BY <1>2

(* The two halves of a span are spans, and shorter.                        *)
LEMMA Halves ==
  ASSUME Cells(elm, Count), NEW s \in Spans, s[1] # s[2]
  PROVE  /\ s[1] \in Nat /\ s[2] \in Nat /\ Middle(s) \in Nat
         /\ s[1] <= Middle(s) /\ Middle(s) < s[2]
         /\ << s[1], Middle(s) >> \in Spans /\ << Middle(s) + 1, s[2] >> \in Spans
<1>1. /\ Count \in Nat /\ DOMAIN elm = 0 .. Count - 1
      /\ s[1] \in DOMAIN elm /\ s[2] \in DOMAIN elm /\ s[1] <= s[2]
  BY DEF Cells, Spans
<1>2. PICK a, b, m : a = s[1] /\ b = s[2] /\ m = Middle(s)
  OBVIOUS
<1>3. a \in Nat /\ b \in Nat /\ a < b /\ b < Count
  BY <1>1, <1>2
<1>4. m = (a + b) \div 2
  BY <1>2 DEF Middle
<1>5. m \in Nat /\ a <= m /\ m < b
  BY <1>3, <1>4
<1>6. << a, m >> \in Spans /\ << m + 1, b >> \in Spans
  BY <1>1, <1>3, <1>5 DEF Spans
<1> QED
  BY <1>2, <1>3, <1>5, <1>6

(* Among ascending keys the search finds the one it is for, and -1 if it   *)
(* is not there.                                                           *)
LEMMA SearchFinds ==
  ASSUME Cells(elm, Count), NEW lo \in Nat, NEW hi \in Nat, lo <= hi, hi < Count,
         NEW key \in Nat, \A i, j \in lo .. hi : i < j => elm[i].key < elm[j].key
  PROVE  LET r == BinarySearch(lo, hi, key)
         IN  \/ r \in lo .. hi /\ elm[r].key = key
             \/ r = -1 /\ \A i \in lo .. hi : elm[i].key # key
<1> DEFINE Body(f, s) ==
             IF s[1] = s[2] THEN (IF elm[s[1]].key = key THEN s[1] ELSE -1)
             ELSE IF elm[Middle(s)].key = key THEN Middle(s)
             ELSE IF elm[Middle(s)].key > key THEN f[<< s[1], Middle(s) >>]
             ELSE f[<< Middle(s) + 1, s[2] >>]
           Short(k) == {s \in Spans : s[2] - s[1] < k}
           F == CHOOSE f : f = [s \in Spans |-> Body(f, s)]
<1>1. BinarySearch(lo, hi, key) = F[<< lo, hi >>]
  BY DEF BinarySearch
<1>2. \A s \in Spans : s[1] \in Nat /\ s[2] \in Nat /\ s[1] <= s[2] /\ s[2] - s[1] \in Nat
                       /\ s[1] < Count /\ s[2] < Count
  <2> SUFFICES ASSUME NEW s \in Spans
               PROVE  s[1] \in Nat /\ s[2] \in Nat /\ s[1] <= s[2] /\ s[2] - s[1] \in Nat
                      /\ s[1] < Count /\ s[2] < Count
    OBVIOUS
  <2>1. /\ Count \in Nat /\ DOMAIN elm = 0 .. Count - 1
        /\ s[1] \in DOMAIN elm /\ s[2] \in DOMAIN elm /\ s[1] <= s[2]
    BY DEF Cells, Spans
  <2> QED
    BY <2>1
<1>3. ASSUME NEW s \in Spans, NEW f, NEW g, NEW k \in Nat, s \in Short(k + 1),
             \A u \in Short(k) : f[u] = g[u]
      PROVE  Body(f, s) = Body(g, s)
  <2>1. CASE s[1] = s[2]
    BY <2>1
  <2>2. CASE s[1] # s[2]
    <3>1. /\ s[1] \in Nat /\ s[2] \in Nat /\ Middle(s) \in Nat
          /\ s[1] <= Middle(s) /\ Middle(s) < s[2]
          /\ << s[1], Middle(s) >> \in Spans /\ << Middle(s) + 1, s[2] >> \in Spans
      BY <2>2, Halves
    <3>2. s[2] - s[1] < k + 1
      BY <1>3
    <3>3. Middle(s) - s[1] < k /\ s[2] - (Middle(s) + 1) < k
      BY <1>3, <3>1, <3>2
    <3>4. << s[1], Middle(s) >> \in Short(k) /\ << Middle(s) + 1, s[2] >> \in Short(k)
      BY <3>1, <3>3
    <3>5. f[<< s[1], Middle(s) >>] = g[<< s[1], Middle(s) >>]
          /\ f[<< Middle(s) + 1, s[2] >>] = g[<< Middle(s) + 1, s[2] >>]
      BY <1>3, <3>4
    <3> QED
      BY <3>5
  <2> QED
    BY <2>1, <2>2
<1> HIDE DEF Body
<1> DEFINE Has(k) == \E f : f = [s \in Short(k) |-> Body(f, s)]
           Bad == {k \in Nat : ~Has(k)}
<1>4. \A k \in Nat : Has(k)
  <2> SUFFICES ASSUME Bad # {} PROVE FALSE
    OBVIOUS
  <2> HIDE DEF Has
  <2>1. PICK k \in Bad : \A j \in Bad : k <= j
    BY LeastOf
  <2> USE DEF Has
  <2>2. k # 0
    <3>1. Short(0) = {}
      BY <1>2
    <3>2. PICK f : f = [s \in {} |-> 0]
      OBVIOUS
    <3>3. f = [s \in Short(0) |-> Body(f, s)]
      BY <3>1, <3>2
    <3>4. Has(0)
      BY <3>3
    <3> HIDE DEF Has
    <3> QED
      BY <2>1, <3>4
  <2>3. PICK l \in Nat : k = l + 1
    BY <2>2
  <2>4. PICK g : g = [s \in Short(l) |-> Body(g, s)]
    <3>1. Has(l)
      <4> HIDE DEF Has
      <4>1. l \notin Bad
        BY <2>1, <2>3
      <4> QED
        BY <4>1
    <3> QED
      BY <3>1
  <2>5. PICK f : f = [s \in Short(k) |-> Body(g, s)]
    OBVIOUS
  <2>6. Short(l) \subseteq Short(k)
    BY <1>2, <2>3
  <2>7. \A s \in Short(l) : f[s] = g[s]
    BY <2>4, <2>5, <2>6
  <2>8. \A s \in Short(k) : Body(f, s) = Body(g, s)
    BY <1>3, <2>3, <2>7
  <2> HIDE DEF Short
  <2>9. f = [s \in Short(k) |-> Body(f, s)]
    BY <2>5, <2>8
  <2>10. Has(k)
    BY <2>9
  <2> HIDE DEF Has
  <2> QED
    BY <2>1, <2>10
<1>5. F = [s \in Spans |-> Body(F, s)]
  <2>1. Count \in Nat
    BY DEF Cells
  <2>2. Short(Count) = Spans
    BY <1>2, <2>1
  <2> HIDE DEF Short
  <2>3. \E f : f = [s \in Short(Count) |-> Body(f, s)]
    BY <1>4, <2>1
  <2>4. \E f : f = [s \in Spans |-> Body(f, s)]
    BY <2>2, <2>3
  <2> QED
    BY <2>4
<1> HIDE DEF F, Has
<1> DEFINE Right(s) == \/ F[s] \in s[1] .. s[2] /\ elm[F[s]].key = key
                       \/ F[s] = -1 /\ \A i \in s[1] .. s[2] : elm[i].key # key
           Wrong == {k \in Nat : \E s \in Spans : /\ lo <= s[1] /\ s[2] <= hi
                                                  /\ s[2] - s[1] = k /\ ~Right(s)}
<1>6. ASSUME NEW i \in lo .. hi
      PROVE  elm[i].key \in Nat
  BY DEF Cells, ElmType
<1>7. ASSUME NEW s \in Spans, lo <= s[1], s[2] <= hi,
             \A u \in Spans : lo <= u[1] /\ u[2] <= hi /\ u[2] - u[1] < s[2] - s[1] => Right(u)
      PROVE  Right(s)
  <2>1. F[s] = Body(F, s)
    BY <1>5
  <2>2. PICK a, b, m : a = s[1] /\ b = s[2] /\ m = Middle(s)
    OBVIOUS
  <2>3. a \in Nat /\ b \in Nat /\ a <= b /\ lo <= a /\ b <= hi
    BY <1>2, <1>7, <2>2
  <2>4. CASE a = b
    <3>1. F[s] = IF elm[a].key = key THEN a ELSE -1
      BY <2>1, <2>2, <2>4 DEF Body
    <3>2. \A i \in a .. b : i = a
      BY <2>3, <2>4
    <3>3. a \in a .. b
      BY <2>3
    <3> QED
      BY <2>2, <3>1, <3>2, <3>3
  <2>5. CASE a # b
    <3>1. /\ m \in Nat /\ a <= m /\ m < b
          /\ << a, m >> \in Spans /\ << m + 1, b >> \in Spans
      BY <2>2, <2>5, Halves
    <3>2. F[s] = IF elm[m].key = key THEN m
                 ELSE IF elm[m].key > key THEN F[<< a, m >>] ELSE F[<< m + 1, b >>]
      BY <2>1, <2>2, <2>5 DEF Body
    <3>3. m \in lo .. hi /\ elm[m].key \in Nat
      BY <1>6, <2>3, <3>1
    <3>4. CASE elm[m].key = key
      <4>1. F[s] = m /\ m \in a .. b
        BY <2>3, <3>1, <3>2, <3>4
      <4> QED
        BY <2>2, <3>4, <4>1
    <3>5. CASE elm[m].key > key
      <4>1. F[s] = F[<< a, m >>]
        BY <3>2, <3>3, <3>5
      <4>2. PICK u : u = << a, m >>
        OBVIOUS
      <4>3. u \in Spans /\ u[1] = a /\ u[2] = m
        BY <3>1, <4>2
      <4>4. lo <= u[1] /\ u[2] <= hi /\ u[2] - u[1] < s[2] - s[1]
        BY <2>2, <2>3, <3>1, <4>3
      <4>5. Right(u)
        BY <1>7, <4>3, <4>4
      <4>6. \A i \in a .. b : i \in a .. m \/ (i \in lo .. hi /\ m < i)
        BY <2>3, <3>1
      <4>7. \A i \in a .. b : i \in a .. m \/ elm[i].key > key
        <5> SUFFICES ASSUME NEW i \in lo .. hi, m < i PROVE elm[i].key > key
          BY <4>6
        <5>1. elm[m].key < elm[i].key /\ elm[i].key \in Nat
          BY <1>6, <3>3
        <5> QED
          BY <3>3, <3>5, <5>1
      <4>8. CASE F[u] \in a .. m /\ elm[F[u]].key = key
        <5>1. F[u] \in a .. b
          BY <2>3, <3>1, <4>8
        <5> QED
          BY <2>2, <4>1, <4>2, <4>8, <5>1
      <4>9. CASE F[u] = -1 /\ \A i \in a .. m : elm[i].key # key
        <5>1. \A i \in a .. b : elm[i].key # key
          <6> SUFFICES ASSUME NEW i \in a .. b, i \notin a .. m PROVE elm[i].key # key
            BY <4>9
          <6>1. elm[i].key > key /\ i \in lo .. hi
            BY <2>3, <4>7
          <6> QED
            BY <1>6, <6>1
        <5> QED
          BY <2>2, <4>1, <4>2, <4>9, <5>1
      <4> QED
        BY <4>3, <4>5, <4>8, <4>9
    <3>6. CASE elm[m].key < key
      <4>1. F[s] = F[<< m + 1, b >>]
        BY <3>2, <3>3, <3>6
      <4>2. PICK u : u = << m + 1, b >>
        OBVIOUS
      <4>3. u \in Spans /\ u[1] = m + 1 /\ u[2] = b
        BY <3>1, <4>2
      <4>4. lo <= u[1] /\ u[2] <= hi /\ u[2] - u[1] < s[2] - s[1]
        BY <2>2, <2>3, <3>1, <4>3
      <4>5. Right(u)
        BY <1>7, <4>3, <4>4
      <4>6. \A i \in a .. b : i \in m + 1 .. b \/ i = m \/ (i \in lo .. hi /\ i < m)
        BY <2>3, <3>1
      <4>7. \A i \in a .. b : i \in m + 1 .. b \/ elm[i].key # key
        <5> SUFFICES ASSUME NEW i \in a .. b, i = m \/ (i \in lo .. hi /\ i < m) PROVE elm[i].key # key
          BY <4>6
        <5>1. CASE i = m
          BY <3>3, <3>6, <5>1
        <5>2. CASE i \in lo .. hi /\ i < m
          <6>1. elm[i].key < elm[m].key /\ elm[i].key \in Nat
            BY <1>6, <3>3, <5>2
          <6> QED
            BY <3>3, <3>6, <6>1
        <5> QED
          BY <5>1, <5>2
      <4>8. CASE F[u] \in m + 1 .. b /\ elm[F[u]].key = key
        <5>1. F[u] \in a .. b
          BY <2>3, <3>1, <4>8
        <5> QED
          BY <2>2, <4>1, <4>2, <4>8, <5>1
      <4>9. CASE F[u] = -1 /\ \A i \in m + 1 .. b : elm[i].key # key
        <5>1. \A i \in a .. b : elm[i].key # key
          BY <4>7, <4>9
        <5> QED
          BY <2>2, <4>1, <4>2, <4>9, <5>1
      <4> QED
        BY <4>3, <4>5, <4>8, <4>9
    <3> QED
      BY <3>3, <3>4, <3>5, <3>6
  <2> QED
    BY <2>4, <2>5
<1> HIDE DEF Right
<1>8. Wrong = {}
  <2> SUFFICES ASSUME Wrong # {} PROVE FALSE
    OBVIOUS
  <2>1. PICK k \in Wrong : \A j \in Wrong : k <= j
    BY LeastOf
  <2>2. PICK s \in Spans : lo <= s[1] /\ s[2] <= hi /\ s[2] - s[1] = k /\ ~Right(s)
    BY <2>1
  <2>3. ASSUME NEW u \in Spans, lo <= u[1], u[2] <= hi, u[2] - u[1] < s[2] - s[1]
        PROVE  Right(u)
    <3>1. SUFFICES ASSUME ~Right(u) PROVE FALSE
      OBVIOUS
    <3>2. u[2] - u[1] \in Wrong
      BY <1>2, <2>3, <3>1
    <3>3. k <= u[2] - u[1] /\ k \in Nat /\ u[2] - u[1] \in Nat
      BY <1>2, <2>1, <3>2
    <3> QED
      BY <2>2, <2>3, <3>3
  <2> QED
    BY <1>7, <2>2, <2>3
<1>9. PICK w : w = << lo, hi >>
  OBVIOUS
<1>10. w \in Spans /\ w[1] = lo /\ w[2] = hi
  BY <1>9 DEF Spans, Cells
<1>11. Right(w)
  <2>1. PICK k : k = hi - lo
    OBVIOUS
  <2>2. k \in Nat /\ w[2] - w[1] = k /\ lo <= w[1] /\ w[2] <= hi
    BY <1>10, <2>1
  <2>3. k \notin Wrong
    BY <1>8
  <2> QED
    BY <1>10, <2>2, <2>3
<1> QED
  BY <1>1, <1>9, <1>10, <1>11 DEF Right

-----------------------------------------------------------------------------
(* A finished array: every node of the dictionary has its place in it.     *)
Indexed(N, at) ==
  /\ dict \in Dicts /\ Nodes = N /\ N = FileNodes(dict, format)
  /\ Tree(N) /\ Ends(dict, N) /\ Cells(elm, Count) /\ Image(dict, N, elm, Count, at)

LEMMA AppendFront ==
  ASSUME NEW q \in Seq(Nat), q # <<>>
  PROVE  q = Append(Front(q), LastChar(q)) /\ LastChar(q) \in Nat /\ Front(q) \in Seq(Nat)
<1>1. PICK f, c : f = Front(q) /\ c = LastChar(q)
  OBVIOUS
<1>2. /\ f \in Seq(Nat) /\ Len(q) \in Nat \ {0} /\ Len(f) = Len(q) - 1
      /\ \A k \in 1 .. Len(q) - 1 : f[k] = q[k]
      /\ c \in Nat /\ c = q[Len(q)]
  BY <1>1, FrontIs DEF LastChar
<1>3. PICK r : r = Append(f, c)
  OBVIOUS
<1>4. /\ r \in Seq(Nat) /\ Len(r) = Len(f) + 1
      /\ \A k \in 1 .. Len(f) : r[k] = f[k]
      /\ r[Len(f) + 1] = c
  BY <1>2, <1>3, AppendIs
<1>5. Len(r) = Len(q) /\ Len(f) + 1 = Len(q)
  BY <1>2, <1>4
<1>6. ASSUME NEW k \in 1 .. Len(r)
      PROVE  r[k] = q[k]
  <2>1. k \in 1 .. Len(f) \/ k = Len(f) + 1
    BY <1>2, <1>5
  <2>2. CASE k \in 1 .. Len(f)
    <3>1. k \in 1 .. Len(q) - 1
      BY <1>2, <2>2
    <3> QED
      BY <1>2, <1>4, <2>2, <3>1
  <2>3. CASE k = Len(f) + 1
    BY <1>2, <1>4, <1>5, <2>3
  <2> QED
    BY <2>1, <2>2, <2>3
<1>7. r = q
  BY <1>4, <1>5, <1>6, SeqEqual
<1> QED
  BY <1>1, <1>2, <1>3, <1>7

(* The children of a node follow each other, one for every rank, in the    *)
(* order of their last characters.                                         *)
LEMMA RanksAre ==
  ASSUME NEW N, Tree(N), NEW p \in N
  PROVE  LET S == KidsOf(N, p) IN
         /\ Cardinality(S) \in Nat
         /\ \A q \in S : Rank(N, p, q) \in Nat /\ Rank(N, p, q) < Cardinality(S)
         /\ \A k \in Nat : k < Cardinality(S) => \E q \in S : Rank(N, p, q) = k
         /\ \A q, r \in S : Rank(N, p, q) < Rank(N, p, r) => LastChar(q) < LastChar(r)
         /\ \A q, r \in S : LastChar(q) < LastChar(r) => Rank(N, p, q) < Rank(N, p, r)
<1>1. PICK S, R : S = KidsOf(N, p) /\ R = ByLast(S)
  OBVIOUS
<1>2. N \subseteq Seq(Nat) /\ p \in Seq(Nat) /\ IsFiniteSet(S)
  BY <1>1, KidsFinite DEF Tree
<1>3. Orders(R, S)
  BY <1>1, <1>2, LastOrders
<1>4. PICK s : s = [k \in 1 .. Cardinality(S) |-> CHOOSE x \in S : Place(S, R, x) = k - 1]
  OBVIOUS
<1>5. Lists(s, S, R)
  BY <1>2, <1>3, <1>4, Listing
<1>6. /\ Cardinality(S) \in Nat /\ Len(s) = Cardinality(S)
      /\ \A k \in 1 .. Len(s) : s[k] \in S /\ Place(S, R, s[k]) = k - 1
      /\ \A x \in S : s[Place(S, R, x) + 1] = x
  BY <1>5 DEF Lists
<1>7. \A x \in S : Rank(N, p, x) = Place(S, R, x)
  BY <1>1 DEF Rank
<1>8. ASSUME NEW q \in S
      PROVE  Place(S, R, q) \in Nat /\ Place(S, R, q) < Cardinality(S)
  BY <1>2, <1>3, PlaceGrows
<1>9. ASSUME NEW k \in Nat, k < Cardinality(S)
      PROVE  \E q \in S : Place(S, R, q) = k
  <2>1. k + 1 \in 1 .. Len(s) /\ (k + 1) - 1 = k
    BY <1>6, <1>9
  <2> QED
    BY <1>6, <2>1
<1>10. ASSUME NEW q \in S, NEW r \in S, LastChar(q) < LastChar(r)
       PROVE  Place(S, R, q) < Place(S, R, r)
  <2>1. << q, r >> \in R
    BY <1>1, <1>10 DEF ByLast
  <2> QED
    BY <1>2, <1>3, <2>1, PlaceGrows
<1>11. ASSUME NEW q \in S, NEW r \in S, Place(S, R, q) < Place(S, R, r)
       PROVE  LastChar(q) < LastChar(r)
  <2>1. Place(S, R, q) \in Nat /\ Place(S, R, r) \in Nat
    BY <1>8
  <2>2. q # r /\ ~(Place(S, R, r) < Place(S, R, q))
    BY <1>11, <2>1
  <2>3. << q, r >> \in R \/ << r, q >> \in R
    BY <1>3, <2>2 DEF Orders
  <2> QED
    BY <1>1, <1>10, <2>2, <2>3 DEF ByLast
<1> QED
  BY <1>1, <1>6, <1>7, <1>8, <1>9, <1>10, <1>11

(* What the element of a node says.                                        *)
LEMMA ElementIs ==
  ASSUME NEW N, NEW at, Indexed(N, at), NEW p \in N
  PROVE  /\ at[p] \in Nat /\ at[p] < Count /\ (at[p] = 0 <=> p = <<>>)
         /\ elm[at[p]].key = LastChar(p) /\ elm[at[p]].word \in Nat
         /\ Leaf(at[p]) <=> KidsOf(N, p) = {}
         /\ Leaf(at[p]) => elm[at[p]].word = IF p \in DOMAIN dict THEN dict[p] ELSE dict[Front(p)]
         /\ ~Leaf(at[p]) =>
              /\ elm[at[p]].size = Cardinality(KidsOf(N, p))
              /\ \A q \in KidsOf(N, p) : at[q] = elm[at[p]].word + Rank(N, p, q)
<1>1. PICK i, x, S : i = at[p] /\ x = elm[at[p]] /\ S = KidsOf(N, p)
  OBVIOUS
<1>2. i \in Nat /\ i < Count /\ (i = 0 <=> p = <<>>) /\ Holds(dict, N, at, p, x)
  BY <1>1 DEF Indexed, Image
<1>3. x \in ElmType
  BY <1>1, <1>2 DEF Indexed, Cells
<1>4. Cardinality(S) = 0 <=> S = {}
  BY <1>1, KidsFinite DEF Indexed, Tree
<1>5. CASE S = {}
  <2>1. x = Elm(LastChar(p), IF p \in DOMAIN dict THEN dict[p] ELSE dict[Front(p)], 0)
    BY <1>1, <1>2, <1>5 DEF Holds, LeafElm
  <2>2. x.key = LastChar(p) /\ x.size = 0
        /\ x.word = IF p \in DOMAIN dict THEN dict[p] ELSE dict[Front(p)]
    BY <2>1 DEF Elm
  <2> QED
    BY <1>1, <1>2, <1>3, <1>5, <2>2 DEF Leaf, ElmType
<1>6. CASE S # {}
  <2>1. /\ x.key = LastChar(p) /\ x.size = Cardinality(S)
        /\ \A q \in S : at[q] = x.word + Rank(N, p, q)
    BY <1>1, <1>2, <1>6 DEF Holds
  <2>2. x.size # 0
    BY <1>4, <1>6, <2>1
  <2> QED
    BY <1>1, <1>2, <1>3, <1>6, <2>1, <2>2 DEF Leaf, ElmType
<1> QED
  BY <1>5, <1>6

Loc(N, at, p) == IF p \in N THEN at[p] ELSE -1

(* From a node to its child of a character.                                *)
LEMMA ChildIs ==
  ASSUME NEW N, NEW at, Indexed(N, at), NEW p \in N, NEW key \in Nat
  PROVE  Child(at[p], key) = Loc(N, at, Append(p, key))
<1>1. PICK i, S, q : i = at[p] /\ S = KidsOf(N, p) /\ q = Append(p, key)
  OBVIOUS
<1>2. /\ i \in Nat /\ i < Count /\ elm[i].word \in Nat
      /\ Leaf(i) <=> S = {}
      /\ ~Leaf(i) => /\ elm[i].size = Cardinality(S)
                     /\ \A r \in S : at[r] = elm[i].word + Rank(N, p, r)
  BY <1>1, ElementIs
<1>3. /\ N \subseteq Seq(Nat) /\ p \in Seq(Nat) /\ Tree(N) /\ S \subseteq N
      /\ \A r \in N : r \in S <=> r # <<>> /\ Front(r) = p
  <2>1. N \subseteq Seq(Nat) /\ Tree(N)
    BY DEF Indexed, Tree
  <2>2. p \in Seq(Nat)
    BY <2>1
  <2>3. \A r \in N : r \in KidsOf(N, p) <=> r # <<>> /\ Front(r) = p
    BY <2>1, <2>2, KidIs
  <2> QED
    BY <1>1, <2>1, <2>2, <2>3 DEF KidsOf
<1>4. q \in Seq(Nat) /\ q # <<>> /\ Front(q) = p /\ LastChar(q) = key
  BY <1>1, <1>3, AppendIs DEF LastChar
<1>5. q \in N <=> q \in S
  BY <1>3, <1>4
<1>6. CASE S = {}
  <2>1. Child(i, key) = -1
    BY <1>2, <1>6 DEF Child, Leaf
  <2> QED
    BY <1>1, <1>5, <1>6, <2>1 DEF Loc
<1>7. CASE S # {}
  <2>1. PICK lo, K : lo = elm[i].word /\ K = Cardinality(S)
    OBVIOUS
  <2>2. /\ elm[i].size = K /\ elm[i].size # 0 /\ lo \in Nat
        /\ \A r \in S : at[r] = lo + Rank(N, p, r)
    BY <1>2, <1>7, <2>1 DEF Leaf
  <2>3. /\ K \in Nat
        /\ \A r \in S : Rank(N, p, r) \in Nat /\ Rank(N, p, r) < K
        /\ \A k \in Nat : k < K => \E r \in S : Rank(N, p, r) = k
        /\ \A r, u \in S : Rank(N, p, r) < Rank(N, p, u) => LastChar(r) < LastChar(u)
    BY <1>1, <1>3, <2>1, RanksAre
  <2>4. ASSUME NEW j \in lo .. lo + K - 1
        PROVE  \E r \in S : at[r] = j /\ Rank(N, p, r) = j - lo /\ elm[j].key = LastChar(r)
    <3>1. j - lo \in Nat /\ j - lo < K
      BY <2>2, <2>3
    <3>2. PICK k : k = j - lo
      OBVIOUS
    <3>3. PICK r \in S : Rank(N, p, r) = k
      BY <2>3, <3>1, <3>2
    <3>4. at[r] = j
      BY <2>2, <2>3, <3>2, <3>3
    <3>5. elm[at[r]].key = LastChar(r)
      BY <1>3, ElementIs
    <3> QED
      BY <3>2, <3>3, <3>4, <3>5
  <2>5. PICK hi : hi = lo + K - 1
    OBVIOUS
  <2>6. hi \in Nat /\ lo <= hi /\ hi < Count
    <3>1. hi \in lo .. lo + K - 1
      BY <2>2, <2>3, <2>5
    <3>2. PICK r \in S : at[r] = hi
      BY <2>4, <3>1
    <3>3. at[r] \in Nat /\ at[r] < Count
      BY <1>3, ElementIs
    <3> QED
      BY <2>2, <2>3, <2>5, <3>1, <3>2, <3>3
  <2>7. ASSUME NEW j \in lo .. hi, NEW l \in lo .. hi, j < l
        PROVE  elm[j].key < elm[l].key
    <3>1. PICK r \in S : Rank(N, p, r) = j - lo /\ elm[j].key = LastChar(r)
      BY <2>4, <2>5
    <3>2. PICK u \in S : Rank(N, p, u) = l - lo /\ elm[l].key = LastChar(u)
      BY <2>4, <2>5
    <3>3. j - lo < l - lo
      BY <2>2, <2>6, <2>7
    <3> QED
      BY <2>3, <3>1, <3>2, <3>3
  <2>8. PICK b : b = BinarySearch(lo, hi, key)
    OBVIOUS
  <2>9. \/ b \in lo .. hi /\ elm[b].key = key
        \/ b = -1 /\ \A j \in lo .. hi : elm[j].key # key
    <3>1. Cells(elm, Count)
      BY DEF Indexed
    <3> QED
      BY <2>2, <2>6, <2>7, <2>8, <3>1, SearchFinds
  <2>10. Child(i, key) = b
    <3>1. i # -1
      BY <1>2
    <3> QED
      BY <2>1, <2>2, <2>5, <2>8, <3>1 DEF Child
  <2>11. CASE b \in lo .. hi /\ elm[b].key = key
    <3>1. PICK r \in S : at[r] = b /\ LastChar(r) = key
      BY <2>4, <2>5, <2>11
    <3>2. r \in Seq(Nat) /\ r # <<>> /\ Front(r) = p
      BY <1>3
    <3>3. r = q
      BY <1>1, <3>1, <3>2, AppendFront
    <3> QED
      BY <1>1, <1>5, <2>10, <3>1, <3>3 DEF Loc
  <2>12. CASE b = -1 /\ \A j \in lo .. hi : elm[j].key # key
    <3>1. q \notin S
      <4>1. SUFFICES ASSUME q \in S PROVE FALSE
        OBVIOUS
      <4>2. at[q] = lo + Rank(N, p, q) /\ Rank(N, p, q) \in Nat /\ Rank(N, p, q) < K
        BY <2>2, <2>3, <4>1
      <4>3. at[q] \in lo .. hi
        BY <2>2, <2>3, <2>5, <4>2
      <4>4. elm[at[q]].key = key
        BY <1>3, <1>4, <4>1, ElementIs
      <4> QED
        BY <2>12, <4>3, <4>4
    <3> QED
      BY <1>1, <1>5, <2>10, <2>12, <3>1 DEF Loc
  <2> QED
    BY <2>9, <2>11, <2>12
<1> QED
  BY <1>6, <1>7

(* What is reached after k characters is their node, if they have one.     *)
LEMMA Beginning ==
  ASSUME NEW t \in Seq(Nat), NEW k \in 0 .. Len(t)
  PROVE  /\ SubSeq(t, 1, k) \in Seq(Nat) /\ Len(SubSeq(t, 1, k)) = k
         /\ \A j \in 1 .. k : SubSeq(t, 1, k)[j] = t[j]
         /\ k = 0 => SubSeq(t, 1, k) = <<>>
         /\ k > 0 => /\ SubSeq(t, 1, k) # <<>> /\ t[k] \in Nat
                     /\ SubSeq(t, 1, k) = Append(SubSeq(t, 1, k - 1), t[k])
<1>1. ASSUME NEW l \in 0 .. Len(t)
      PROVE  /\ SubSeq(t, 1, l) \in Seq(Nat) /\ Len(SubSeq(t, 1, l)) = l
             /\ \A j \in 1 .. l : SubSeq(t, 1, l)[j] = t[j]
  <2>1. l \in Nat /\ \A j \in 1 .. l : t[j] \in Nat
    <3>1. \A j \in 1 .. l : j \in 1 .. Len(t)
      OBVIOUS
    <3> QED
      BY <3>1, ElementOfSeq
  <2>2. /\ SubSeq(t, 1, l) \in Seq(Nat)
        /\ Len(SubSeq(t, 1, l)) = IF 1 <= l THEN l - 1 + 1 ELSE 0
        /\ \A j \in 1 .. l - 1 + 1 : SubSeq(t, 1, l)[j] = t[1 + j - 1]
    BY <2>1, SubSeqProperties
  <2> QED
    BY <2>1, <2>2
<1>2. k = 0 => SubSeq(t, 1, k) = <<>>
  BY <1>1, EmptySeq
<1>3. ASSUME k > 0
      PROVE  /\ SubSeq(t, 1, k) # <<>> /\ t[k] \in Nat
             /\ SubSeq(t, 1, k) = Append(SubSeq(t, 1, k - 1), t[k])
  <2>1. k - 1 \in 0 .. Len(t) /\ k \in 1 .. Len(t) /\ k - 1 \in Nat /\ t[k] \in Nat
    BY <1>3
  <2>2. PICK u, v : u = SubSeq(t, 1, k) /\ v = SubSeq(t, 1, k - 1)
    OBVIOUS
  <2>3. u \in Seq(Nat) /\ Len(u) = k /\ \A j \in 1 .. k : u[j] = t[j]
    BY <1>1, <2>2
  <2>4. v \in Seq(Nat) /\ Len(v) = k - 1 /\ \A j \in 1 .. k - 1 : v[j] = t[j]
    BY <1>1, <2>1, <2>2
  <2>5. PICK w : w = Append(v, t[k])
    OBVIOUS
  <2>6. /\ w \in Seq(Nat) /\ Len(w) = k
        /\ \A j \in 1 .. k - 1 : w[j] = v[j]
        /\ w[k] = t[k]
    <3>1. /\ w \in Seq(Nat) /\ Len(w) = Len(v) + 1
          /\ \A j \in 1 .. Len(v) : w[j] = v[j]
          /\ w[Len(v) + 1] = t[k]
      BY <2>1, <2>4, <2>5, AppendIs
    <3>2. Len(v) + 1 = k
      BY <2>4
    <3> QED
      BY <2>4, <3>1, <3>2
  <2>7. \A j \in 1 .. k : j \in 1 .. k - 1 \/ j = k
    OBVIOUS
  <2>8. u = w
    <3>1. \A j \in 1 .. k : u[j] = w[j]
      BY <2>3, <2>4, <2>6, <2>7
    <3> QED
      BY <2>3, <2>6, <3>1, SeqEqual
  <2>9. u # <<>>
    BY <1>3, <2>3
  <2> QED
    BY <2>1, <2>2, <2>5, <2>8, <2>9
<1> QED
  BY <1>1, <1>2, <1>3

LEMMA ReachedIs ==
  ASSUME NEW N, NEW at, Indexed(N, at), NEW text \in Seq(Nat), NEW m \in 0 .. Len(text)
  PROVE  Reached(text)[m] = Loc(N, at, SubSeq(text, 1, m))
<1> DEFINE P(k) == SubSeq(text, 1, k)
           n == Len(text)
           R == CHOOSE f : f = [k \in 0 .. n |-> IF k = 0 THEN 0 ELSE Child(f[k - 1], text[k])]
           L == [k \in 0 .. n |-> Loc(N, at, P(k))]
<1>1. n \in Nat
  OBVIOUS
<1>2. ASSUME NEW k \in 0 .. n
      PROVE  Loc(N, at, P(k)) = IF k = 0 THEN 0 ELSE Child(Loc(N, at, P(k - 1)), text[k])
  <2>1. CASE k = 0
    <3>1. P(k) = <<>> /\ <<>> \in N
      BY <2>1, Beginning DEF Indexed, Tree
    <3>2. at[<<>>] = 0
      BY <3>1, ElementIs
    <3> QED
      BY <2>1, <3>1, <3>2 DEF Loc
  <2>2. CASE k # 0
    <3>1. k - 1 \in 0 .. n /\ k > 0
      BY <2>2
    <3>2. PICK u, v : u = P(k) /\ v = P(k - 1)
      OBVIOUS
    <3>3. u = Append(v, text[k]) /\ text[k] \in Nat /\ v \in Seq(Nat)
      BY <3>1, <3>2, Beginning
    <3>4. CASE v \in N
      <4>1. Child(at[v], text[k]) = Loc(N, at, u)
        BY <3>3, <3>4, ChildIs
      <4> QED
        BY <2>2, <3>2, <3>4, <4>1 DEF Loc
    <3>5. CASE v \notin N
      <4>1. Front(u) = v /\ u # <<>>
        BY <3>3, AppendIs
      <4>2. u \notin N
        BY <3>5, <4>1 DEF Indexed, Tree
      <4>3. Child(-1, text[k]) = -1
        BY DEF Child
      <4> QED
        BY <2>2, <3>2, <3>5, <4>2, <4>3 DEF Loc
    <3> QED
      BY <3>4, <3>5
  <2> QED
    BY <2>1, <2>2
<1> HIDE DEF P
<1>3. L = [k \in 0 .. n |-> IF k = 0 THEN 0 ELSE Child(L[k - 1], text[k])]
  <2>1. ASSUME NEW k \in 0 .. n
        PROVE  L[k] = IF k = 0 THEN 0 ELSE Child(L[k - 1], text[k])
    <3>1. L[k] = Loc(N, at, P(k))
      OBVIOUS
    <3>2. k # 0 => L[k - 1] = Loc(N, at, P(k - 1))
      OBVIOUS
    <3> HIDE DEF L
    <3> QED
      BY <1>2, <3>1, <3>2
  <2>2. L = [k \in 0 .. n |-> L[k]]
    OBVIOUS
  <2> HIDE DEF L
  <2> QED
    BY <2>1, <2>2
<1> HIDE DEF L
<1>4. R = [k \in 0 .. n |-> IF k = 0 THEN 0 ELSE Child(R[k - 1], text[k])]
  <2>1. \E f : f = [k \in 0 .. n |-> IF k = 0 THEN 0 ELSE Child(f[k - 1], text[k])]
    BY <1>3
  <2> QED
    BY <2>1
<1>5. Reached(text) = R
  BY DEF Reached
<1> HIDE DEF R
<1> DEFINE Off == {k \in Nat : k \in 0 .. n /\ R[k] # L[k]}
<1>6. Off = {}
  <2> SUFFICES ASSUME Off # {} PROVE FALSE
    OBVIOUS
  <2>1. PICK k \in Off : \A j \in Off : k <= j
    BY LeastOf
  <2>2. k \in 0 .. n /\ R[k] # L[k]
    BY <2>1
  <2>3. k # 0
    <3>1. R[0] = 0 /\ L[0] = 0
      BY <1>1, <1>3, <1>4
    <3> QED
      BY <2>2, <3>1
  <2>4. k - 1 \in 0 .. n /\ k - 1 \notin Off
    BY <2>1, <2>2, <2>3
  <2>5. R[k - 1] = L[k - 1]
    BY <2>4
  <2>6. R[k] = Child(R[k - 1], text[k])
    BY <1>4, <2>2, <2>3
  <2>7. L[k] = Child(L[k - 1], text[k])
    BY <1>3, <2>2, <2>3
  <2> QED
    BY <2>2, <2>5, <2>6, <2>7
<1>7. m \in Nat
  OBVIOUS
<1>8. R[m] = L[m]
  BY <1>6, <1>7
<1> QED
  BY <1>5, <1>8 DEF L, P

-----------------------------------------------------------------------------
(* A text has no 0 in it.                                                  *)
Plain(p) == p \in Seq(Nat) /\ \A k \in 1 .. Len(p) : p[k] # 0

LEMMA PlainIs ==
  ASSUME NEW d \in Dicts, NEW f, NEW N, N = FileNodes(d, f), NEW p, Plain(p)
  PROVE  /\ p \in N <=> p \in Paths(d)
         /\ p \in DOMAIN d => p \in N
         /\ \A w \in DOMAIN d : p # Append(w, 0)
         /\ Append(p, 0) \in N => p \in DOMAIN d
<1>1. \A w \in DOMAIN d : w \in Seq(Nat)
  BY WordIs DEF Word
<1>2. ASSUME NEW w \in DOMAIN d
      PROVE  p # Append(w, 0)
  <2>1. PICK e : e = Append(w, 0)
    OBVIOUS
  <2>2. Len(e) = Len(w) + 1 /\ e[Len(w) + 1] = 0 /\ Len(w) \in Nat
    BY <1>1, <2>1, AppendIs
  <2>3. Len(w) + 1 \in 1 .. Len(e)
    BY <2>2
  <2> QED
    BY <2>1, <2>2, <2>3 DEF Plain
<1>3. p \in N <=> p \in Paths(d)
  BY <1>2 DEF FileNodes
<1>4. p \in DOMAIN d => p \in N
  BY FileEnds DEF Ends
<1>5. ASSUME Append(p, 0) \in N
      PROVE  p \in DOMAIN d
  <2>1. PICK e : e = Append(p, 0)
    OBVIOUS
  <2>2. /\ e \in Seq(Nat) /\ Len(e) = Len(p) + 1 /\ e[Len(p) + 1] = 0 /\ Len(p) \in Nat
        /\ Front(e) = p
    BY <2>1, AppendIs DEF Plain
  <2>3. InFile(d, f, e)
    BY <1>5, <2>1, FileNodesAre
  <2>4. ASSUME NEW w \in DOMAIN d, IsPrefix(e, w)
        PROVE  FALSE
    <3>1. Len(e) <= Len(w) /\ \A k \in 1 .. Len(e) : e[k] = w[k]
      BY <1>1, <2>2, <2>4, PrefixIs
    <3>2. Len(w) \in Nat /\ \A k \in 1 .. Len(w) : w[k] # 0
      BY WordIs DEF Word
    <3>3. Len(p) + 1 \in 1 .. Len(e) /\ Len(p) + 1 \in 1 .. Len(w)
      BY <2>2, <3>1, <3>2
    <3> QED
      BY <2>2, <3>1, <3>2, <3>3
  <2>5. PICK w \in DOMAIN d : e = Append(w, 0)
    BY <2>3, <2>4 DEF InFile
  <2>6. Front(e) = w
    BY <1>1, <2>5, AppendIs
  <2> QED
    BY <2>2, <2>5, <2>6
<1> QED
  BY <1>2, <1>3, <1>4, <1>5

(* The first child of a node that has one.                                 *)
LEMMA FirstChildIs ==
  ASSUME NEW N, NEW at, Indexed(N, at), NEW p \in N, KidsOf(N, p) # {}
  PROVE  /\ FirstChild(p) \in KidsOf(N, p) /\ FirstChild(p) \in N
         /\ FirstChild(p) # <<>> /\ Front(FirstChild(p)) = p
         /\ at[FirstChild(p)] = elm[at[p]].word
         /\ Append(p, 0) \in N => FirstChild(p) = Append(p, 0)
<1>1. PICK S, s, q : S = KidsOf(N, p) /\ s = SortedKids(p) /\ q = FirstChild(p)
  OBVIOUS
<1>2. /\ N \subseteq Seq(Nat) /\ p \in Seq(Nat) /\ Tree(N) /\ S \subseteq N
      /\ \A r \in N : r \in S <=> r # <<>> /\ Front(r) = p
  <2>1. N \subseteq Seq(Nat) /\ Tree(N)
    BY DEF Indexed, Tree
  <2>2. p \in Seq(Nat)
    BY <2>1
  <2>3. \A r \in N : r \in KidsOf(N, p) <=> r # <<>> /\ Front(r) = p
    BY <2>1, <2>2, KidIs
  <2> QED
    BY <1>1, <2>1, <2>2, <2>3 DEF KidsOf
<1>3. Lists(s, S, ByLast(S))
  BY <1>1, <1>2, KidsListed DEF Indexed
<1>4. Cardinality(S) \in Nat /\ Cardinality(S) # 0
  BY <1>1, <1>2, KidsFinite DEF Tree
<1>5. 1 \in 1 .. Len(s)
  BY <1>3, <1>4 DEF Lists
<1>6. q \in S /\ Place(S, ByLast(S), q) = 1 - 1
  BY <1>1, <1>3, <1>5 DEF Lists, FirstChild
<1>7. Rank(N, p, q) = 0
  BY <1>1, <1>6 DEF Rank
<1>8. at[q] = elm[at[p]].word
  <2>1. ~Leaf(at[p])
    BY ElementIs
  <2>2. at[q] = elm[at[p]].word + Rank(N, p, q) /\ elm[at[p]].word \in Nat
    BY <1>1, <1>6, <2>1, ElementIs
  <2> QED
    BY <1>7, <2>2
<1>9. ASSUME Append(p, 0) \in N
      PROVE  q = Append(p, 0)
  <2>1. PICK e : e = Append(p, 0)
    OBVIOUS
  <2>2. e \in S /\ LastChar(e) = 0
    BY <1>2, <1>9, <2>1, AppendIs DEF LastChar
  <2>3. LastChar(q) \in Nat
    BY <1>2, <1>6, AppendFront
  <2>4. ~(LastChar(q) < LastChar(e))
    BY <2>2, <2>3
  <2>5. Rank(N, p, e) \in Nat /\ ~(Rank(N, p, q) < Rank(N, p, e))
    BY <1>1, <1>2, <1>6, <2>2, <2>4, RanksAre
  <2>6. Rank(N, p, e) = 0
    BY <1>7, <2>5
  <2>7. Place(S, ByLast(S), e) = 0 /\ s[Place(S, ByLast(S), e) + 1] = e
    BY <1>1, <1>3, <2>2, <2>6 DEF Rank, Lists
  <2> QED
    BY <1>1, <2>1, <2>7 DEF FirstChild
<1> QED
  BY <1>1, <1>2, <1>6, <1>8, <1>9

(* A text has a value in the array exactly if ValueOf knows one.           *)
LEMMA ValueIs ==
  ASSUME NEW N, NEW at, Indexed(N, at), NEW p, Plain(p), NEW i, i = Loc(N, at, p)
  PROVE  /\ HasValue(i) <=> ValueOf(p) # -1
         /\ HasValue(i) => elm[ValueAt(i)].word = ValueOf(p)
         /\ p \in DOMAIN dict => ValueOf(p) = dict[p] /\ HasValue(i)
<1>1. /\ dict \in Dicts /\ Nodes = N /\ N = FileNodes(dict, format)
      /\ Tree(N) /\ Ends(dict, N) /\ p \in Seq(Nat)
  BY DEF Indexed, Plain
<1>2. /\ p \in N <=> p \in Paths(dict)
      /\ p \in DOMAIN dict => p \in N
      /\ \A w \in DOMAIN dict : p # Append(w, 0)
  BY <1>1, PlainIs
<1>3. \A q : Kids(q) = KidsOf(N, q)
  BY <1>1 DEF Kids, KidsOf
<1>4. \A w \in DOMAIN dict : dict[w] \in Nat /\ w \in Seq(Nat)
  BY <1>1, WordIs DEF Word
<1>5. CASE p \notin N
  <2>1. i = -1 /\ ValueOf(p) = -1
    BY <1>2, <1>5 DEF Loc, ValueOf
  <2> QED
    BY <1>2, <1>5, <2>1 DEF HasValue
<1>6. CASE p \in N /\ KidsOf(N, p) = {}
  <2>1. i = at[p] /\ i \in Nat /\ Leaf(i)
        /\ elm[i].word = IF p \in DOMAIN dict THEN dict[p] ELSE dict[Front(p)]
    BY <1>6, ElementIs DEF Loc
  <2>2. p \in DOMAIN dict
    BY <1>1, <1>2, <1>6 DEF Ends
  <2>3. i # -1 /\ ValueAt(i) = i
    BY <2>1 DEF ValueAt
  <2>4. HasValue(i) /\ ValueOf(p) = dict[p] /\ elm[ValueAt(i)].word = dict[p]
    BY <2>1, <2>2, <2>3 DEF HasValue, ValueOf
  <2>5. dict[p] # -1
    BY <1>4, <2>2
  <2> QED
    BY <2>4, <2>5
<1>7. CASE p \in N /\ KidsOf(N, p) # {}
  <2>1. i = at[p] /\ i \in Nat /\ ~Leaf(i)
    BY <1>7, ElementIs DEF Loc
  <2>2. PICK q : q = FirstChild(p)
    OBVIOUS
  <2>3. /\ q \in KidsOf(N, p) /\ q \in N /\ q # <<>> /\ Front(q) = p /\ at[q] = elm[i].word
        /\ Append(p, 0) \in N => q = Append(p, 0)
    BY <1>7, <2>1, <2>2, FirstChildIs
  <2>4. ValueAt(i) = at[q] /\ (HasValue(i) <=> Leaf(at[q]))
    BY <2>1, <2>3 DEF ValueAt, HasValue
  <2>5. /\ Leaf(at[q]) <=> KidsOf(N, q) = {}
        /\ Leaf(at[q]) => elm[at[q]].word = IF q \in DOMAIN dict THEN dict[q] ELSE dict[Front(q)]
    BY <2>3, ElementIs
  <2>6. CASE p \in DOMAIN dict
    <3>1. q = Append(p, 0) /\ KidsOf(N, q) = {} /\ q \notin DOMAIN dict
      BY <1>1, <1>7, <2>3, <2>6 DEF Ends
    <3>2. HasValue(i) /\ elm[ValueAt(i)].word = dict[p]
      BY <2>3, <2>4, <2>5, <3>1
    <3>3. ValueOf(p) = dict[p] /\ dict[p] # -1
      BY <1>4, <2>6 DEF ValueOf
    <3> QED
      BY <2>6, <3>2, <3>3
  <2>7. CASE p \notin DOMAIN dict
    <3>1. ChildIsLeaf(p) <=> KidsOf(N, q) = {}
      BY <1>3, <1>7, <2>2 DEF ChildIsLeaf
    <3>2. CASE KidsOf(N, q) = {}
      <4>1. q \in DOMAIN dict
        <5>1. SUFFICES ASSUME q \notin DOMAIN dict PROVE FALSE
          OBVIOUS
        <5>2. PICK w \in DOMAIN dict : q = Append(w, 0)
          BY <1>1, <2>3, <3>2, <5>1 DEF Ends
        <5>3. Front(q) = w
          BY <1>4, <5>2, AppendIs
        <5> QED
          BY <2>3, <2>7, <5>3
      <4>2. HasValue(i) /\ elm[ValueAt(i)].word = dict[q]
        BY <2>4, <2>5, <3>2, <4>1
      <4>3. ValueOf(p) = dict[q]
        BY <1>2, <1>7, <2>2, <2>7, <3>1, <3>2 DEF ValueOf
      <4>4. dict[q] # -1
        BY <1>4, <4>1
      <4> QED
        BY <2>7, <4>2, <4>3, <4>4
    <3>3. CASE KidsOf(N, q) # {}
      <4>1. ~HasValue(i)
        BY <2>4, <2>5, <3>3
      <4>2. ValueOf(p) = -1
        BY <2>7, <3>1, <3>3 DEF ValueOf
      <4> QED
        BY <2>7, <4>1, <4>2
    <3> QED
      BY <3>2, <3>3
  <2> QED
    BY <2>6, <2>7
<1> QED
  BY <1>5, <1>6, <1>7

(* In the array of a Trie the closing 0 is the first child of the words    *)
(* and of nothing else.                                                    *)
LEMMA ClosedIs ==
  ASSUME NEW N, NEW at, Indexed(N, at), format = "trie", NEW p, Plain(p),
         NEW i, i = Loc(N, at, p)
  PROVE  /\ Closed(i) <=> p \in DOMAIN dict
         /\ p \in DOMAIN dict => elm[elm[i].word].word = dict[p]
<1>1. /\ dict \in Dicts /\ Nodes = N /\ N = FileNodes(dict, "trie")
      /\ Tree(N) /\ Ends(dict, N) /\ p \in Seq(Nat)
  BY DEF Indexed, Plain
<1>2. /\ p \in DOMAIN dict => p \in N
      /\ \A w \in DOMAIN dict : p # Append(w, 0)
      /\ Append(p, 0) \in N => p \in DOMAIN dict
  BY <1>1, PlainIs
<1>3. CASE p \notin N
  BY <1>2, <1>3 DEF Loc, Closed
<1>4. CASE p \in N
  <2>1. KidsOf(N, p) # {}
    BY <1>1, <1>2, <1>4, TrieEnds
  <2>2. i = at[p] /\ i \in Nat /\ ~Leaf(i)
    BY <1>4, <2>1, ElementIs DEF Loc
  <2>3. PICK q : q = FirstChild(p)
    OBVIOUS
  <2>4. /\ q \in KidsOf(N, p) /\ q \in N /\ q # <<>> /\ Front(q) = p /\ at[q] = elm[i].word
        /\ Append(p, 0) \in N => q = Append(p, 0)
    BY <1>4, <2>1, <2>2, <2>3, FirstChildIs
  <2>5. /\ elm[at[q]].key = LastChar(q)
        /\ Leaf(at[q]) <=> KidsOf(N, q) = {}
        /\ Leaf(at[q]) => elm[at[q]].word = IF q \in DOMAIN dict THEN dict[q] ELSE dict[Front(q)]
    BY <2>4, ElementIs
  <2>6. CASE p \in DOMAIN dict
    <3>1. q = Append(p, 0) /\ KidsOf(N, q) = {} /\ q \notin DOMAIN dict
      BY <1>1, <2>1, <2>4, <2>6 DEF Ends
    <3>2. LastChar(q) = 0
      BY <1>1, <3>1, AppendIs DEF LastChar
    <3> QED
      BY <2>2, <2>4, <2>5, <2>6, <3>1, <3>2 DEF Closed
  <2>7. CASE p \notin DOMAIN dict
    <3>1. LastChar(q) # 0
      <4>1. SUFFICES ASSUME LastChar(q) = 0 PROVE FALSE
        OBVIOUS
      <4>2. q = Append(p, 0)
        <5>1. q \in Seq(Nat)
          BY <1>1, <2>4 DEF Tree
        <5> QED
          BY <2>4, <4>1, <5>1, AppendFront
      <4> QED
        BY <1>2, <2>4, <2>7, <4>2
    <3> QED
      BY <2>2, <2>4, <2>5, <2>7, <3>1 DEF Closed
  <2> QED
    BY <2>6, <2>7
<1> QED
  BY <1>3, <1>4

-----------------------------------------------------------------------------
(* Naturals in ascending order.                                            *)
LEMMA AscendingIs ==
  ASSUME NEW S, S \subseteq Nat, IsFiniteSet(S)
  PROVE  /\ Ascending(S) \in Seq(S) /\ Len(Ascending(S)) = Cardinality(S) /\ Cardinality(S) \in Nat
         /\ \A k \in 1 .. Len(Ascending(S)) : Ascending(S)[k] \in S
         /\ \A x \in S : \E k \in 1 .. Len(Ascending(S)) : Ascending(S)[k] = x
<1>1. PICK R, s : R = {q \in S \X S : q[1] < q[2]} /\ s = Ascending(S)
  OBVIOUS
<1>2. \A x, y \in S : << x, y >> \in R <=> x < y
  BY <1>1
<1>3. Orders(R, S)
  <2>1. \A x \in S : ~(x < x)
    OBVIOUS
  <2>2. \A x, y \in S : x # y => x < y \/ y < x
    OBVIOUS
  <2>3. \A x, y, z \in S : x < y /\ y < z => x < z
    OBVIOUS
  <2> QED
    BY <1>2, <2>1, <2>2, <2>3 DEF Orders
<1>4. \A x \in S : {y \in S : y < x} = Lower(S, R, x)
  BY <1>2 DEF Lower
<1> DEFINE lower(x) == {y \in S : y < x}
           low(k) == CHOOSE x \in S : Cardinality(lower(x)) = k - 1
           nth(k) == CHOOSE x \in S : Place(S, R, x) = k - 1
<1>5. s = [k \in 1 .. Cardinality(S) |-> low(k)]
  BY <1>1 DEF Ascending, Sorted
<1>6. \A x \in S : Cardinality(lower(x)) = Place(S, R, x)
  BY <1>4 DEF Place
<1> HIDE DEF lower
<1>7. s = [k \in 1 .. Cardinality(S) |-> nth(k)]
  <2>1. ASSUME NEW k
        PROVE  low(k) = nth(k)
    <3>1. \A x : (x \in S /\ Cardinality(lower(x)) = k - 1) <=> (x \in S /\ Place(S, R, x) = k - 1)
      BY <1>6
    <3> QED
      BY <3>1, Zenon
  <2> HIDE DEF low, nth
  <2> QED
    BY <1>5, <2>1
<1>8. Lists(s, S, R)
  BY <1>3, <1>7, Listing
<1> QED
  BY <1>1, <1>8 DEF Lists

(* The first of the beginnings of a text, as they are reported.            *)
Report(text, hits, n) ==
  [i \in 1 .. n |-> [len |-> hits[i], val |-> ValueOf(SubSeq(text, 1, hits[i]))]]

LEMMA ReportCut ==
  ASSUME NEW text, NEW hits, NEW n \in Nat, NEW room \in Nat
  PROVE  UpTo(Report(text, hits, n), room) = Report(text, hits, IF n < room THEN n ELSE room)
<1>1. PICK m : m = IF n < room THEN n ELSE room
  OBVIOUS
<1>2. m \in Nat /\ m <= n
  BY <1>1
<1> DEFINE el(i) == [len |-> hits[i], val |-> ValueOf(SubSeq(text, 1, hits[i]))]
           T == {el(i) : i \in 1 .. n}
<1>3. PICK s : s = Report(text, hits, n)
  OBVIOUS
<1>4. s = [i \in 1 .. n |-> el(i)]
  BY <1>3 DEF Report
<1> HIDE DEF el
<1>5. s \in [1 .. n -> T]
  BY <1>4
<1> HIDE DEF T
<1>6. s \in Seq(T) /\ Len(s) = n
  BY <1>5, FunctionSeq
<1>7. UpTo(s, room) = SubSeq(s, 1, m)
  BY <1>1, <1>6 DEF UpTo
<1>8. \A k \in 1 .. m : k \in 1 .. n
  BY <1>2
<1>9. \A k \in 1 .. m : s[k] \in T
  BY <1>5, <1>8
<1>10. PICK u : u = SubSeq(s, 1, m)
  OBVIOUS
<1>11. /\ u \in Seq(T) /\ Len(u) = IF 1 <= m THEN m - 1 + 1 ELSE 0
       /\ \A k \in 1 .. m - 1 + 1 : u[k] = s[1 + k - 1]
  BY <1>2, <1>9, <1>10, SubSeqProperties
<1>12. u \in Seq(T) /\ Len(u) = m /\ \A k \in 1 .. m : u[k] = s[k]
  BY <1>2, <1>11
<1>13. PICK v : v = [i \in 1 .. m |-> el(i)]
  OBVIOUS
<1>14. v \in [1 .. m -> T]
  <2>1. \A k \in 1 .. m : v[k] = s[k]
    BY <1>4, <1>8, <1>13
  <2> QED
    BY <1>9, <1>13, <2>1
<1>15. v \in Seq(T) /\ Len(v) = m
  BY <1>2, <1>14, FunctionSeq
<1>16. \A k \in 1 .. m : u[k] = v[k]
  BY <1>4, <1>8, <1>12, <1>13
<1>17. u = v
  BY <1>12, <1>15, <1>16, SeqEqual
<1> QED
  BY <1>1, <1>3, <1>7, <1>10, <1>13, <1>17 DEF Report, el

(* The beginnings of a text are plain, and the array knows where they are. *)
LEMMA Prefixed ==
  ASSUME NEW N, NEW at, Indexed(N, at), NEW text, Plain(text), NEW k \in 1 .. Len(text)
  PROVE  /\ Plain(SubSeq(text, 1, k))
         /\ Reached(text)[k] = Loc(N, at, SubSeq(text, 1, k))
<1>1. text \in Seq(Nat) /\ k \in 0 .. Len(text)
  BY DEF Plain
<1>2. Reached(text)[k] = Loc(N, at, SubSeq(text, 1, k))
  BY <1>1, ReachedIs
<1>3. PICK u : u = SubSeq(text, 1, k)
  OBVIOUS
<1>4. u \in Seq(Nat) /\ Len(u) = k /\ \A j \in 1 .. k : u[j] = text[j]
  BY <1>1, <1>3, Beginning
<1>5. \A j \in 1 .. k : j \in 1 .. Len(text)
  BY <1>1
<1>6. Plain(u)
  BY <1>4, <1>5 DEF Plain
<1> QED
  BY <1>2, <1>3, <1>6

LEMMA SomeOf ==
  ASSUME NEW n \in Nat, NEW S, S \subseteq 1 .. n
  PROVE  S \subseteq Nat /\ IsFiniteSet(S) /\ Cardinality(S) \in Nat /\ Cardinality(S) <= n
<1>1. IsFiniteSet(1 .. n) /\ Cardinality(1 .. n) = n
  <2>1. 1 \in Int /\ n \in Int /\ (1 > n => n = 0) /\ n - 1 + 1 = n
    OBVIOUS
  <2> QED
    BY <2>1, FS_Interval
<1>2. IsFiniteSet(S) /\ Cardinality(S) <= Cardinality(1 .. n)
  BY <1>1, FS_Subset
<1>3. Cardinality(S) \in Nat
  BY <1>2, FS_CardinalityType
<1>4. S \subseteq Nat
  OBVIOUS
<1> QED
  BY <1>1, <1>2, <1>3, <1>4

(* What multi_nmatch reports.                                              *)
LEMMA TakenValues ==
  ASSUME NEW N, NEW at, Indexed(N, at), NEW text, Plain(text), NEW room \in Nat
  PROVE  Taken(text, HasValue, room) = UpTo(Begins(text, LAMBDA p : ValueOf(p) # -1), room)
<1>1. PICK R, n : R = Reached(text) /\ n = Len(text)
  OBVIOUS
<1>2. PICK S : S = {k \in 1 .. n : HasValue(R[k])}
  OBVIOUS
<1>3. ASSUME NEW k \in 1 .. n
      PROVE  /\ HasValue(R[k]) <=> ValueOf(SubSeq(text, 1, k)) # -1
             /\ HasValue(R[k]) => elm[ValueAt(R[k])].word = ValueOf(SubSeq(text, 1, k))
  BY <1>1, Prefixed, ValueIs
<1>4. S = {k \in 1 .. n : ValueOf(SubSeq(text, 1, k)) # -1}
  BY <1>2, <1>3
<1>5. PICK hits, c : hits = Ascending(S) /\ c = Len(hits)
  OBVIOUS
<1>6. n \in Nat
  BY <1>1 DEF Plain
<1>7. c \in Nat /\ \A i \in 1 .. c : hits[i] \in S
  BY <1>2, <1>5, <1>6, SomeOf, AscendingIs
<1>8. PICK m : m = IF c < room THEN c ELSE room
  OBVIOUS
<1>9. Taken(text, HasValue, room)
        = [i \in 1 .. m |-> [len |-> hits[i], val |-> elm[ValueAt(R[hits[i]])].word]]
  BY <1>1, <1>2, <1>5, <1>8 DEF Taken
<1>10. Begins(text, LAMBDA p : ValueOf(p) # -1) = Report(text, hits, c)
  BY <1>1, <1>4, <1>5 DEF Begins, Report
<1>11. UpTo(Report(text, hits, c), room) = Report(text, hits, m)
  BY <1>7, <1>8, ReportCut
<1>12. ASSUME NEW i \in 1 .. m
       PROVE  elm[ValueAt(R[hits[i]])].word = ValueOf(SubSeq(text, 1, hits[i]))
  <2>1. i \in 1 .. c
    BY <1>7, <1>8
  <2>2. hits[i] \in 1 .. n /\ HasValue(R[hits[i]])
    BY <1>2, <1>7, <2>1
  <2> QED
    BY <1>3, <2>2
<1>13. Taken(text, HasValue, room) = Report(text, hits, m)
  BY <1>9, <1>12 DEF Report
<1> QED
  BY <1>10, <1>11, <1>13

(* What max_nmatch and multi_match report, and all of it if there is room. *)
LEMMA TakenKeys ==
  ASSUME NEW N, NEW at, Indexed(N, at), format = "trie", NEW text, Plain(text), NEW room \in Nat
  PROVE  /\ Taken(text, Closed, room) = UpTo(Begins(text, LAMBDA p : p \in DOMAIN dict), room)
         /\ Len(text) <= room => Taken(text, Closed, room) = Begins(text, LAMBDA p : p \in DOMAIN dict)
<1>1. PICK R, n : R = Reached(text) /\ n = Len(text)
  OBVIOUS
<1>2. PICK S : S = {k \in 1 .. n : Closed(R[k])}
  OBVIOUS
<1>3. ASSUME NEW k \in 1 .. n
      PROVE  /\ Closed(R[k]) <=> SubSeq(text, 1, k) \in DOMAIN dict
             /\ Closed(R[k]) => elm[ValueAt(R[k])].word = ValueOf(SubSeq(text, 1, k))
  <2>1. PICK i, p : i = R[k] /\ p = SubSeq(text, 1, k)
    OBVIOUS
  <2>2. Plain(p) /\ i = Loc(N, at, p)
    BY <1>1, <2>1, Prefixed
  <2>3. Closed(i) <=> p \in DOMAIN dict
    BY <2>2, ClosedIs
  <2>4. /\ HasValue(i) => elm[ValueAt(i)].word = ValueOf(p)
        /\ p \in DOMAIN dict => HasValue(i)
    BY <2>2, ValueIs
  <2> QED
    BY <2>1, <2>3, <2>4
<1>4. S = {k \in 1 .. n : SubSeq(text, 1, k) \in DOMAIN dict}
  BY <1>2, <1>3
<1>5. PICK hits, c : hits = Ascending(S) /\ c = Len(hits)
  OBVIOUS
<1>6. n \in Nat
  BY <1>1 DEF Plain
<1>7. c \in Nat /\ \A i \in 1 .. c : hits[i] \in S
  BY <1>2, <1>5, <1>6, SomeOf, AscendingIs
<1>8. PICK m : m = IF c < room THEN c ELSE room
  OBVIOUS
<1>9. Taken(text, Closed, room)
        = [i \in 1 .. m |-> [len |-> hits[i], val |-> elm[ValueAt(R[hits[i]])].word]]
  BY <1>1, <1>2, <1>5, <1>8 DEF Taken
<1>10. Begins(text, LAMBDA p : p \in DOMAIN dict) = Report(text, hits, c)
  BY <1>1, <1>4, <1>5 DEF Begins, Report
<1>11. UpTo(Report(text, hits, c), room) = Report(text, hits, m)
  BY <1>7, <1>8, ReportCut
<1>12. ASSUME NEW i \in 1 .. m
       PROVE  elm[ValueAt(R[hits[i]])].word = ValueOf(SubSeq(text, 1, hits[i]))
  <2>1. i \in 1 .. c
    BY <1>7, <1>8
  <2>2. hits[i] \in 1 .. n /\ Closed(R[hits[i]])
    BY <1>2, <1>7, <2>1
  <2> QED
    BY <1>3, <2>2
<1>13. Taken(text, Closed, room) = Report(text, hits, m)
  BY <1>9, <1>12 DEF Report
<1>14. ASSUME n <= room PROVE m = c
  <2>1. c = Cardinality(S)
    BY <1>2, <1>5, <1>6, SomeOf, AscendingIs
  <2>2. c <= n
    BY <1>2, <1>6, <2>1, SomeOf
  <2> QED
    BY <1>6, <1>7, <1>8, <1>14, <2>2
<1> QED
  BY <1>1, <1>10, <1>11, <1>13, <1>14

(* The lower half of a wide character is its key.                          *)
LEMMA WideIs ==
  ASSUME NEW text \in Seq(1 .. Width - 1),
         NEW wide, wide = [k \in DOMAIN text |-> text[k] + Width]
  PROVE  [k \in DOMAIN wide |-> wide[k] % Width] = text
<1>1. Width \in Nat \ {0}
  BY TextsAssumption
<1>2. DOMAIN wide = DOMAIN text /\ text = [k \in DOMAIN text |-> text[k]]
  OBVIOUS
<1>3. ASSUME NEW k \in DOMAIN text
      PROVE  wide[k] % Width = text[k]
  <2>1. PICK x, w : x = text[k] /\ w = Width
    OBVIOUS
  <2>2. x \in Nat /\ w \in Nat /\ x < w /\ wide[k] = x + w
    <3>1. PICK S : S = 1 .. Width - 1
      OBVIOUS
    <3>2. text \in Seq(S)
      BY <3>1
    <3>3. text[k] \in S
      BY <3>2
    <3> QED
      BY <1>1, <2>1, <3>1, <3>3
  <2>3. (x + w) % w = x
    BY <2>2
  <2> QED
    BY <2>1, <2>2, <2>3
<1> QED
  BY <1>2, <1>3

(* The element of a whole text.                                            *)
LEMMA WholeText ==
  ASSUME NEW N, NEW at, Indexed(N, at), NEW text, Plain(text)
  PROVE  Reached(text)[Len(text)] = Loc(N, at, text)
<1>1. text \in Seq(Nat) /\ Len(text) \in Nat /\ Len(text) \in 0 .. Len(text)
  BY DEF Plain
<1>2. PICK n : n = Len(text)
  OBVIOUS
<1>3. PICK u : u = SubSeq(text, 1, n)
  OBVIOUS
<1>4. u \in Seq(Nat) /\ Len(u) = n /\ \A j \in 1 .. n : u[j] = text[j]
  BY <1>1, <1>2, <1>3, Beginning
<1>5. u = text
  BY <1>1, <1>2, <1>4, SeqEqual
<1>6. Reached(text)[n] = Loc(N, at, SubSeq(text, 1, n))
  BY <1>1, <1>2, ReachedIs
<1> QED
  BY <1>2, <1>3, <1>5, <1>6

(* What nget and nfind answer.                                             *)
LEMMA GetsValue ==
  ASSUME NEW N, NEW at, Indexed(N, at), NEW text, Plain(text)
  PROVE  NGet(text) = ValueOf(text) /\ NFind(text) = ValueOf(text)
<1>1. PICK i : i = Reached(text)[Len(text)]
  OBVIOUS
<1>2. i = Loc(N, at, text)
  BY <1>1, WholeText
<1>3. /\ HasValue(i) <=> ValueOf(text) # -1
      /\ HasValue(i) => elm[ValueAt(i)].word = ValueOf(text)
  BY <1>2, ValueIs
<1> QED
  BY <1>1, <1>3 DEF NGet, NFind

(* The words of a dictionary have no 0 in them.                            *)
LEMMA WordPlain ==
  ASSUME NEW d \in Dicts, NEW w \in DOMAIN d
  PROVE  Plain(w) /\ d[w] \in Nat
<1>1. w \in Seq(Nat \ {0}) /\ d[w] \in Nat
  BY DictsAssumption
<1>2. \A k \in 1 .. Len(w) : w[k] \in Nat \ {0}
  BY <1>1
<1>3. w \in Seq(Nat)
  BY <1>1
<1> QED
  BY <1>1, <1>2, <1>3 DEF Plain

(* verify_core finds every word of the file.                               *)
LEMMA NoneFaulty ==
  ASSUME NEW N, NEW at, Indexed(N, at)
  PROVE  Faulty = {}
<1>1. ASSUME NEW w \in DOMAIN dict PROVE NGet(w) = dict[w]
  <2>1. Plain(w)
    BY WordPlain DEF Indexed
  <2>2. NGet(w) = ValueOf(w)
    BY <2>1, GetsValue
  <2> QED
    BY <2>2 DEF ValueOf
<1> QED
  BY <1>1 DEF Faulty

(* The texts looked up are plain.                                          *)
LEMMA TextPlain == ASSUME NEW text \in Texts PROVE Plain(text)
<1>1. PICK S : S = 1 .. Width - 1
  OBVIOUS
<1>2. Width \in Nat \ {0} /\ Texts \subseteq Seq(S)
  BY <1>1, TextsAssumption
<1>3. \A x \in S : x \in Nat /\ x # 0
  BY <1>1, <1>2
<1>4. text \in Seq(S)
  BY <1>2
<1>5. \A k \in 1 .. Len(text) : text[k] \in S
  BY <1>4
<1>6. text \in Seq(Nat)
  BY <1>3, <1>4, SeqMonotonic
<1>7. \A k \in 1 .. Len(text) : text[k] # 0
  BY <1>3, <1>5
<1> QED
  BY <1>6, <1>7 DEF Plain

(* The beginnings of a plain text are plain.                               *)
LEMMA PlainPrefix ==
  ASSUME NEW t, Plain(t), NEW p \in Seq(Nat), IsPrefix(p, t)
  PROVE  Plain(p)
<1>1. t \in Seq(Nat) /\ \A k \in 1 .. Len(t) : t[k] # 0
  BY DEF Plain
<1>2. Len(p) \in Nat /\ Len(t) \in Nat /\ Len(p) <= Len(t) /\ \A k \in 1 .. Len(p) : p[k] = t[k]
  BY <1>1, PrefixIs
<1>3. \A k \in 1 .. Len(p) : k \in 1 .. Len(t)
  BY <1>2
<1> QED
  BY <1>1, <1>2, <1>3 DEF Plain

(* The longest beginning of a sequence in a set that knows the empty one.  *)
LEMMA Longest ==
  ASSUME NEW t \in Seq(Nat), NEW D, <<>> \in D,
         NEW way, way = Prefixes(t) \cap D
  PROVE  /\ \E p \in way : \A r \in way : Len(r) <= Len(p)
         /\ \A p \in way : (\A r \in way : Len(r) <= Len(p)) /\ t \in D => p = t
<1>1. /\ way \subseteq Seq(Nat) /\ <<>> \in way
      /\ t \in D => t \in way
      /\ \A q \in way : IsPrefix(q, t)
  BY PrefixesAre
<1>2. \A q \in way : Len(q) \in Nat /\ Len(t) \in Nat /\ Len(q) <= Len(t)
  BY <1>1, PrefixIs
<1>3. PICK S : S = {Len(t) - Len(q) : q \in way}
  OBVIOUS
<1>4. S \subseteq Nat /\ S # {}
  <2>1. \A q \in way : Len(t) - Len(q) \in Nat
    BY <1>2
  <2> QED
    BY <1>1, <1>3, <2>1
<1>5. PICK k \in S : \A j \in S : k <= j
  BY <1>4, LeastOf
<1>6. PICK q \in way : k = Len(t) - Len(q)
  BY <1>3, <1>5
<1>7. \A r \in way : Len(r) <= Len(q)
  <2> SUFFICES ASSUME NEW r \in way PROVE Len(r) <= Len(q)
    OBVIOUS
  <2>1. k <= Len(t) - Len(r)
    BY <1>3, <1>5
  <2> QED
    BY <1>2, <1>6, <2>1
<1>8. \E p \in way : \A r \in way : Len(r) <= Len(p)
  BY <1>7
<1>9. ASSUME NEW p \in way, \A r \in way : Len(r) <= Len(p), t \in D
      PROVE  p = t
  <2>1. p \in Seq(Nat) /\ IsPrefix(p, t) /\ Len(t) <= Len(p)
    BY <1>1, <1>9
  <2>2. /\ Len(p) \in Nat /\ Len(t) \in Nat /\ Len(p) <= Len(t)
        /\ \A j \in 1 .. Len(p) : p[j] = t[j]
    BY <2>1, PrefixIs
  <2>3. Len(p) = Len(t)
    BY <2>1, <2>2
  <2> QED
    BY <2>1, <2>2, <2>3, SeqEqual
<1> QED
  BY <1>8, <1>9

(* What find knows of a Trie that is being filled.                         *)
LEMMA TrieAnswers == ASSUME IInv, Contents PROVE TrieExact
<1> SUFFICES ASSUME phase = "fill", NEW text \in Texts
             PROVE  Find(trie, text)
                      = IF Append(text, 0) \in DOMAIN trie THEN dict[text] ELSE -1
  BY DEF TrieExact
<1>1. /\ dict \in Dicts /\ format = "trie" /\ <<>> \in DOMAIN trie
      /\ DOMAIN trie \subseteq FileNodes(dict, format)
  BY DEF IInv, Heads, FillInv, Layout
<1>2. \A p \in DOMAIN trie :
        trie[p] = IF \E w \in DOMAIN dict : p = Append(w, 0) THEN dict[Front(p)] ELSE -1
  BY DEF Contents, IdsHold
<1>3. Plain(text)
  BY TextPlain
<1>4. PICK new, way : new = Append(text, 0) /\ way = Prefixes(new) \cap DOMAIN trie
  OBVIOUS
<1>5. text \in Seq(Nat) /\ new \in Seq(Nat) /\ Front(new) = text
  <2>1. text \in Seq(Nat)
    BY <1>3 DEF Plain
  <2> QED
    BY <1>4, <2>1, AppendIs
<1>6. PICK p : p = CHOOSE q \in way : \A r \in way : Len(r) <= Len(q)
  OBVIOUS
<1>7. Find(trie, text) = trie[p]
  BY <1>4, <1>6 DEF Find
<1>8. p \in way /\ p \in DOMAIN trie /\ (new \in DOMAIN trie => p = new)
  <2>1. PICK D : D = DOMAIN trie
    OBVIOUS
  <2>2. <<>> \in D /\ way = Prefixes(new) \cap D
    BY <1>1, <1>4, <2>1
  <2>3. /\ \E q \in way : \A r \in way : Len(r) <= Len(q)
        /\ \A q \in way : (\A r \in way : Len(r) <= Len(q)) /\ new \in D => q = new
    <3>1. \A E : <<>> \in E => \A W : W = Prefixes(new) \cap E =>
            /\ \E q \in W : \A r \in W : Len(r) <= Len(q)
            /\ \A q \in W : (\A r \in W : Len(r) <= Len(q)) /\ new \in E => q = new
      BY <1>5, Longest
    <3> QED
      BY <2>2, <3>1
  <2>4. p \in way /\ \A r \in way : Len(r) <= Len(p)
    BY <1>6, <2>3
  <2>5. new \in D => p = new
    BY <2>3, <2>4
  <2> QED
    BY <2>1, <2>2, <2>4, <2>5
<1>9. CASE new \in DOMAIN trie
  <2>1. p = new /\ new \in FileNodes(dict, format)
    BY <1>1, <1>8, <1>9
  <2>2. text \in DOMAIN dict
    BY <1>1, <1>3, <1>4, <2>1, PlainIs
  <2>3. trie[p] = dict[text]
    BY <1>2, <1>4, <1>5, <1>8, <2>1, <2>2
  <2> QED
    BY <1>4, <1>7, <1>9, <2>3
<1>10. CASE new \notin DOMAIN trie
  <2>1. p # new /\ p \in Prefixes(new)
    BY <1>4, <1>8, <1>10
  <2>2. p \in Seq(Nat) /\ IsPrefix(p, text)
    BY <1>4, <1>5, <2>1, PrefixOfEnd
  <2>3. Plain(p)
    BY <1>3, <2>2, PlainPrefix
  <2>4. \A w \in DOMAIN dict : p # Append(w, 0)
    BY <1>1, <2>3, PlainIs
  <2>5. trie[p] = -1
    BY <1>2, <1>8, <2>4
  <2> QED
    BY <1>4, <1>7, <1>10, <2>5
<1> QED
  BY <1>9, <1>10

(* A text up to the 0 that ends it.                                        *)
LEMMA UpToZeroIs ==
  ASSUME NEW text, Plain(text), NEW z, z = text \o << 0, 1 >>
  PROVE  UpToZero(z) = text /\ Len(z) \in Nat /\ Len(text) <= Len(z)
<1>1. PICK n : n = Len(text)
  OBVIOUS
<1>2. n \in Nat /\ text \in Seq(Nat) /\ \A k \in 1 .. n : text[k] # 0
  BY <1>1 DEF Plain
<1>3. /\ z \in Seq(Nat) /\ Len(z) = n + 2
      /\ \A k \in 1 .. n : z[k] = text[k]
      /\ z[n + 1] = 0 /\ z[n + 2] = 1
  <2>1. PICK e : e = << 0, 1 >>
    OBVIOUS
  <2>2. e \in Seq(Nat) /\ Len(e) = 2 /\ e[1] = 0 /\ e[2] = 1
    BY <2>1
  <2>3. z = text \o e
    BY <2>1
  <2>4. z \in Seq(Nat) /\ Len(z) = n + 2
    BY <1>1, <1>2, <2>2, <2>3
  <2>5. \A k \in 1 .. n + 2 : z[k] = IF k <= n THEN text[k] ELSE e[k - n]
    BY <1>1, <1>2, <2>2, <2>3
  <2>6. \A k \in 1 .. n : k \in 1 .. n + 2 /\ k <= n
    BY <1>2
  <2>7. n + 1 \in 1 .. n + 2 /\ ~(n + 1 <= n) /\ n + 1 - n = 1
    BY <1>2
  <2>8. n + 2 \in 1 .. n + 2 /\ ~(n + 2 <= n) /\ n + 2 - n = 2
    BY <1>2
  <2>9. z[n + 1] = e[n + 1 - n] /\ z[n + 2] = e[n + 2 - n]
    BY <1>2, <2>5, <2>7, <2>8
  <2>10. z[n + 1] = 0 /\ z[n + 2] = 1
    BY <2>2, <2>7, <2>8, <2>9
  <2>11. \A k \in 1 .. n : z[k] = text[k]
    BY <2>5, <2>6
  <2> QED
    BY <2>4, <2>10, <2>11
<1>4. PICK S : S = {k \in 1 .. Len(z) : z[k] = 0}
  OBVIOUS
<1>5. S = {n + 1}
  <2>1. n + 1 \in S
    BY <1>2, <1>3, <1>4
  <2>2. ASSUME NEW k \in S PROVE k = n + 1
    <3>1. k \in 1 .. n + 2 /\ z[k] = 0
      BY <1>3, <1>4
    <3>2. k \in 1 .. n \/ k = n + 1 \/ k = n + 2
      BY <1>2, <3>1
    <3> QED
      BY <1>2, <1>3, <3>1, <3>2
  <2> QED
    BY <2>1, <2>2
<1>6. Min(S) = n + 1
  BY <1>2, <1>5 DEF Min
<1>7. Min(S) - 1 = n
  BY <1>2, <1>6
<1>8. UpToZero(z) = SubSeq(z, 1, n)
  BY <1>4, <1>7 DEF UpToZero
<1>9. PICK u : u = SubSeq(z, 1, n)
  OBVIOUS
<1>10. u \in Seq(Nat) /\ Len(u) = n /\ \A j \in 1 .. n : u[j] = z[j]
  <2>1. n \in 0 .. Len(z)
    BY <1>2, <1>3
  <2> QED
    BY <1>3, <1>9, <2>1, Beginning
<1>11. \A j \in 1 .. n : u[j] = text[j]
  BY <1>3, <1>10
<1>12. u = text
  BY <1>1, <1>2, <1>10, <1>11, SeqEqual
<1>13. Len(z) \in Nat /\ n <= Len(z)
  BY <1>2, <1>3
<1> QED
  BY <1>1, <1>8, <1>9, <1>12, <1>13

(* What the array of a Trie answers.                                       *)
LEMMA KeysAnswered ==
  ASSUME NEW N, NEW at, Indexed(N, at), format = "trie", NEW text, Plain(text),
         NEW z, z = text \o << 0, 1 >>,
         NEW keys, keys = Begins(text, LAMBDA p : p \in DOMAIN dict),
         NEW last, last = IF keys = <<>> THEN <<>> ELSE << Last(keys) >>
  PROVE  /\ MaxNMatch(text) = last /\ MaxMatch(z) = last
         /\ MultiMatch(z, 1) = UpTo(keys, 1) /\ MultiMatch(z, Len(z)) = keys
         /\ FindZ(z) = (IF text \in DOMAIN dict THEN dict[text] ELSE -1)
<1>1. UpToZero(z) = text /\ Len(z) \in Nat /\ Len(text) <= Len(z)
  BY UpToZeroIs
<1>2. Len(text) \in Nat /\ Len(text) <= Len(text)
  BY DEF Plain
<1>3. Taken(text, Closed, Len(text)) = keys
  BY <1>2, TakenKeys
<1>4. MaxNMatch(text) = last
  BY <1>3 DEF MaxNMatch
<1>5. MaxMatch(z) = last
  BY <1>1, <1>4 DEF MaxMatch
<1>6. MultiMatch(z, 1) = UpTo(keys, 1)
  BY <1>1, TakenKeys DEF MultiMatch
<1>7. MultiMatch(z, Len(z)) = keys
  BY <1>1, TakenKeys DEF MultiMatch
<1>8. PICK i : i = Reached(text)[Len(text)]
  OBVIOUS
<1>9. i = Loc(N, at, text)
  BY <1>8, WholeText
<1>10. FindZ(z) = IF Closed(i) THEN elm[elm[i].word].word ELSE -1
  BY <1>1, <1>8 DEF FindZ
<1>11. FindZ(z) = IF text \in DOMAIN dict THEN dict[text] ELSE -1
  BY <1>9, <1>10, ClosedIs
<1> QED
  BY <1>4, <1>5, <1>6, <1>7, <1>11

(* Pairs of naturals row by row.                                           *)
LEMMA PairsListed ==
  ASSUME NEW S, S \subseteq Nat \X Nat, IsFiniteSet(S)
  PROVE  LET s == Sorted(S, RowByRow) IN
         /\ s \in Seq(S) /\ Len(s) = Cardinality(S) /\ Cardinality(S) \in Nat
         /\ \A k \in 1 .. Len(s) : s[k] \in S
         /\ \A x \in S : \E k \in 1 .. Len(s) : s[k] = x
<1>1. PICK R, s : R = {q \in S \X S : RowByRow(q[1], q[2])} /\ s = Sorted(S, RowByRow)
  OBVIOUS
<1>2. \A x, y \in S : << x, y >> \in R <=> RowByRow(x, y)
  BY <1>1
<1>3. Orders(R, S)
  <2>1. \A x \in S : x[1] \in Nat /\ x[2] \in Nat /\ x = << x[1], x[2] >>
    OBVIOUS
  <2>2. \A x \in S : ~RowByRow(x, x)
    BY <2>1 DEF RowByRow
  <2>3. ASSUME NEW x \in S, NEW y \in S, x # y
        PROVE  RowByRow(x, y) \/ RowByRow(y, x)
    <3>1. PICK a, b, c, d : a = x[1] /\ b = x[2] /\ c = y[1] /\ d = y[2]
      OBVIOUS
    <3>2. a \in Nat /\ b \in Nat /\ c \in Nat /\ d \in Nat /\ ~(a = c /\ b = d)
      BY <2>1, <2>3, <3>1
    <3>3. (a < c \/ (a = c /\ b < d)) \/ (c < a \/ (c = a /\ d < b))
      BY <3>2
    <3> QED
      BY <3>1, <3>3 DEF RowByRow
  <2>4. \A x, y, z \in S : RowByRow(x, y) /\ RowByRow(y, z) => RowByRow(x, z)
    BY <2>1 DEF RowByRow
  <2> QED
    BY <1>2, <2>2, <2>3, <2>4 DEF Orders
<1>4. \A x \in S : {y \in S : RowByRow(y, x)} = Lower(S, R, x)
  BY <1>2 DEF Lower
<1> DEFINE lower(x) == {y \in S : RowByRow(y, x)}
           low(k) == CHOOSE x \in S : Cardinality(lower(x)) = k - 1
           nth(k) == CHOOSE x \in S : Place(S, R, x) = k - 1
<1>5. s = [k \in 1 .. Cardinality(S) |-> low(k)]
  BY <1>1 DEF Sorted
<1>6. \A x \in S : Cardinality(lower(x)) = Place(S, R, x)
  BY <1>4 DEF Place
<1> HIDE DEF lower
<1>7. s = [k \in 1 .. Cardinality(S) |-> nth(k)]
  <2>1. ASSUME NEW k
        PROVE  low(k) = nth(k)
    <3>1. \A x : (x \in S /\ Cardinality(lower(x)) = k - 1) <=> (x \in S /\ Place(S, R, x) = k - 1)
      BY <1>6
    <3> QED
      BY <3>1, Zenon
  <2> HIDE DEF low, nth
  <2> QED
    BY <1>5, <2>1
<1>8. Lists(s, S, R)
  BY <1>3, <1>7, Listing
<1> QED
  BY <1>1, <1>8 DEF Lists

(* A list that fits is not cut.                                            *)
LEMMA NotCut ==
  ASSUME NEW S, NEW s \in Seq(S), NEW room \in Nat, Len(s) <= room
  PROVE  UpTo(s, room) = s
<1>1. PICK n : n = IF Len(s) < room THEN Len(s) ELSE room
  OBVIOUS
<1>2. n = Len(s)
  BY <1>1
<1>3. UpTo(s, room) = SubSeq(s, 1, n)
  BY <1>1 DEF UpTo
<1> QED
  BY <1>2, <1>3, SubSeqFull

(* The elements of one and of two characters.                              *)
LEMMA PairCells ==
  ASSUME NEW N, NEW at, Indexed(N, at), NEW c \in Nat \ {0}, NEW d \in Nat \ {0}
  PROVE  /\ Child(0, c) > 0 <=> << c >> \in N
         /\ Child(Child(0, c), d) = Loc(N, at, << c, d >>)
         /\ Child(Child(0, c), d) > 0 <=> << c, d >> \in N
         /\ << c, d >> \in N => << c >> \in N
         /\ Plain(<< c, d >>)
<1>1. PICK p, q : p = << c >> /\ q = << c, d >>
  OBVIOUS
<1>2. p \in Seq(Nat) /\ p # <<>> /\ p = Append(<<>>, c)
  BY <1>1
<1>3. q \in Seq(Nat) /\ q # <<>> /\ q = Append(p, d)
  BY <1>1
<1>4. Front(q) = p
  BY <1>2, <1>3, AppendIs
<1>5. <<>> \in N /\ (q \in N => p \in N)
  BY <1>3, <1>4 DEF Indexed, Tree
<1>6. at[<<>>] = 0
  BY <1>5, ElementIs
<1>7. Child(0, c) = Loc(N, at, p)
  BY <1>2, <1>5, <1>6, ChildIs
<1>8. ASSUME NEW r, r # <<>>
      PROVE  Loc(N, at, r) > 0 <=> r \in N
  <2>1. CASE r \in N
    <3>1. at[r] \in Nat /\ at[r] # 0
      BY <1>8, <2>1, ElementIs
    <3> QED
      BY <2>1, <3>1 DEF Loc
  <2>2. CASE r \notin N
    BY <2>2 DEF Loc
  <2> QED
    BY <2>1, <2>2
<1>9. Child(Child(0, c), d) = Loc(N, at, q)
  <2>1. CASE p \in N
    BY <1>3, <1>7, <2>1, ChildIs DEF Loc
  <2>2. CASE p \notin N
    BY <1>5, <1>7, <2>2 DEF Loc, Child
  <2> QED
    BY <2>1, <2>2
<1>10. Plain(q)
  <2>1. Len(q) = 2 /\ q[1] = c /\ q[2] = d
    BY <1>1
  <2>2. \A k \in 1 .. Len(q) : k = 1 \/ k = 2
    BY <2>1
  <2> QED
    BY <1>3, <2>1, <2>2 DEF Plain
<1> QED
  BY <1>1, <1>2, <1>3, <1>5, <1>7, <1>8, <1>9, <1>10

(* Room for every pair of a character of one part and one of the other.    *)
LEMMA RoomForPairs ==
  ASSUME NEW n \in Nat, NEW i \in 0 .. n
  PROVE  n * n \in Nat /\ i <= n * n /\ n - i \in Nat /\ i * (n - i) <= n * n /\ i * (n - i) \in Nat
<1>1. i \in Nat /\ n - i \in Nat /\ i <= n /\ n - i <= n
  OBVIOUS
<1>2. \A a, b, c \in Nat : a <= b => a * c <= b * c /\ c * a <= c * b /\ a * c \in Nat
  OBVIOUS
<1>3. i * (n - i) <= n * (n - i) /\ i * (n - i) \in Nat
  BY <1>1, <1>2
<1>4. n * (n - i) <= n * n /\ n * n \in Nat
  BY <1>1, <1>2
<1>5. i <= n * n
  <2>1. CASE n = 0
    BY <1>1, <1>4, <2>1
  <2>2. CASE n # 0
    <3>1. 1 * n <= n * n
      BY <1>2, <2>2
    <3> QED
      BY <1>1, <1>4, <3>1
  <2> QED
    BY <2>1, <2>2
<1>6. n * (n - i) \in Nat
  BY <1>1, <1>2
<1> QED
  BY <1>1, <1>3, <1>4, <1>5, <1>6

(* The positions of a text.                                                *)
LEMMA Positions ==
  ASSUME NEW a \in Seq(Nat)
  PROVE  /\ DOMAIN a = 1 .. Len(a) /\ Len(a) \in Nat /\ DOMAIN a \subseteq Nat
         /\ IsFiniteSet(DOMAIN a) /\ Cardinality(DOMAIN a) = Len(a)
<1>1. DOMAIN a = 1 .. Len(a) /\ Len(a) \in Nat
  OBVIOUS
<1>2. PICK n : n = Len(a)
  OBVIOUS
<1>3. 1 \in Int /\ n \in Int /\ (1 > n => n = 0) /\ n - 1 + 1 = n
  BY <1>1, <1>2
<1>4. IsFiniteSet(1 .. n) /\ Cardinality(1 .. n) = n
  BY <1>3, FS_Interval
<1> QED
  BY <1>1, <1>2, <1>4

(* Every pair of a character of a and one of b that the array knows.       *)
LEMMA PairsAnswered ==
  ASSUME NEW N, NEW at, Indexed(N, at), NEW a, Plain(a), NEW b, Plain(b),
         NEW room \in Nat, Len(a) <= room, Len(a) * Len(b) <= room, Len(a) * Len(b) \in Nat
  PROVE  PairwiseNMatch(a, b, room) = Pairs(a, b)
<1>1. a \in Seq(Nat) /\ b \in Seq(Nat)
  BY DEF Plain
<1>2. PICK A, B : A = DOMAIN a /\ B = DOMAIN b
  OBVIOUS
<1>3. /\ A \subseteq Nat /\ IsFiniteSet(A) /\ Cardinality(A) = Len(a)
      /\ B \subseteq Nat /\ IsFiniteSet(B) /\ Cardinality(B) = Len(b)
  BY <1>1, <1>2, Positions
<1>4. /\ \A m \in A : a[m] \in Nat \ {0}
      /\ \A m \in B : b[m] \in Nat \ {0}
  <2>1. /\ \A m \in 1 .. Len(a) : a[m] \in Nat /\ a[m] # 0
        /\ \A m \in 1 .. Len(b) : b[m] \in Nat /\ b[m] # 0
    BY <1>1, ElementOfSeq DEF Plain
  <2>2. A = 1 .. Len(a) /\ B = 1 .. Len(b)
    BY <1>1, <1>2, Positions
  <2> QED
    BY <2>1, <2>2
<1> DEFINE pair(x) == Child(Child(0, a[x[1]]), b[x[2]])
           word(x) == << a[x[1]], b[x[2]] >>
<1>5. PICK S : S = {m \in A : Child(0, a[m]) > 0}
  OBVIOUS
<1>6. PICK one : one = UpTo(Ascending(S), room)
  OBVIOUS
<1>7. ToSet(one) = S
  <2>1. S \subseteq A /\ S \subseteq Nat /\ IsFiniteSet(S) /\ Cardinality(S) <= Len(a)
    BY <1>3, <1>5, FS_Subset
  <2>2. PICK s : s = Ascending(S)
    OBVIOUS
  <2>3. /\ s \in Seq(S) /\ Len(s) = Cardinality(S) /\ Cardinality(S) \in Nat
        /\ \A k \in 1 .. Len(s) : s[k] \in S
        /\ \A x \in S : \E k \in 1 .. Len(s) : s[k] = x
    BY <2>1, <2>2, AscendingIs
  <2>4. Len(s) <= room
    <3>1. Len(a) \in Nat
      BY <1>1
    <3> QED
      BY <2>1, <2>3, <3>1
  <2>5. one = s
    BY <1>6, <2>2, <2>3, <2>4, NotCut
  <2>6. DOMAIN s = 1 .. Len(s)
    BY <2>3
  <2> QED
    BY <2>3, <2>5, <2>6 DEF ToSet
<1>8. PICK T : T = {x \in S \X B : pair(x) > 0}
  OBVIOUS
<1>9. T \subseteq A \X B /\ T \subseteq Nat \X Nat /\ IsFiniteSet(T) /\ Cardinality(T) <= room
  <2>1. T \subseteq A \X B
    BY <1>5, <1>8
  <2>2. IsFiniteSet(A \X B) /\ Cardinality(A \X B) = Len(a) * Len(b)
    <3>1. IsFiniteSet(A \X B) /\ Cardinality(A \X B) = Cardinality(A) * Cardinality(B)
      <4>1. IsFiniteSet(A) /\ IsFiniteSet(B)
        BY <1>3
      <4> QED
        BY <4>1, FS_Product
    <3> QED
      BY <1>3, <3>1
  <2>3. IsFiniteSet(T) /\ Cardinality(T) <= Cardinality(A \X B)
    BY <2>1, <2>2, FS_Subset
  <2>4. Cardinality(T) \in Nat
    BY <2>3, FS_CardinalityType
  <2>5. Cardinality(T) <= Len(a) * Len(b)
    BY <2>2, <2>3
  <2>6. PICK c, m : c = Cardinality(T) /\ m = Len(a) * Len(b)
    OBVIOUS
  <2>7. c <= room
    BY <2>4, <2>5, <2>6
  <2> QED
    BY <1>3, <2>1, <2>3, <2>6, <2>7
<1>10. PICK two : two = UpTo(Sorted(T, RowByRow), room)
  OBVIOUS
<1>11. ToSet(two) = T
  <2>1. PICK s : s = Sorted(T, RowByRow)
    OBVIOUS
  <2>2. /\ s \in Seq(T) /\ Len(s) = Cardinality(T) /\ Cardinality(T) \in Nat
        /\ \A k \in 1 .. Len(s) : s[k] \in T
        /\ \A x \in T : \E k \in 1 .. Len(s) : s[k] = x
    BY <1>9, <2>1, PairsListed
  <2>3. Len(s) <= room
    BY <1>9, <2>2
  <2>4. two = s
    BY <1>10, <2>1, <2>2, <2>3, NotCut
  <2>5. DOMAIN s = 1 .. Len(s)
    BY <2>2
  <2> QED
    BY <2>2, <2>4, <2>5 DEF ToSet
<1>12. ASSUME NEW x \in A \X B
       PROVE  /\ x \in T <=> word(x) \in N
              /\ HasValue(pair(x)) <=> ValueOf(word(x)) # -1
              /\ HasValue(pair(x)) => x \in T /\ elm[ValueAt(pair(x))].word = ValueOf(word(x))
  <2>1. PICK i, j : i = x[1] /\ j = x[2]
    OBVIOUS
  <2>2. x = << i, j >> /\ i \in A /\ j \in B
    BY <2>1
  <2>3. PICK c, d : c = a[i] /\ d = b[j]
    OBVIOUS
  <2>4. c \in Nat \ {0} /\ d \in Nat \ {0}
    BY <1>4, <2>2, <2>3
  <2>5. PICK e, w : e = Child(Child(0, c), d) /\ w = << c, d >>
    OBVIOUS
  <2>6. pair(x) = e /\ word(x) = w
    BY <2>1, <2>3, <2>5
  <2>7. /\ Child(0, c) > 0 <=> << c >> \in N
        /\ e = Loc(N, at, w)
        /\ e > 0 <=> w \in N
        /\ w \in N => << c >> \in N
        /\ Plain(w)
    BY <2>4, <2>5, PairCells
  <2>8. i \in S <=> << c >> \in N
    BY <1>5, <2>2, <2>3, <2>7
  <2>9. x \in T <=> w \in N
    <3>1. x \in T <=> i \in S /\ e > 0
      BY <1>8, <2>2, <2>6
    <3> QED
      BY <2>7, <2>8, <3>1
  <2>10. /\ HasValue(e) <=> ValueOf(w) # -1
         /\ HasValue(e) => elm[ValueAt(e)].word = ValueOf(w)
    BY <2>7, ValueIs
  <2>11. HasValue(e) => w \in N
    BY <2>7 DEF HasValue, Loc
  <2> QED
    BY <2>6, <2>9, <2>10, <2>11
<1>13. PICK H : H = {x \in T : HasValue(pair(x))}
  OBVIOUS
<1> HIDE DEF pair, word
<1>14. H = {x \in A \X B : ValueOf(word(x)) # -1}
  BY <1>9, <1>12, <1>13
<1>15. PICK hit : hit = Sorted(H, RowByRow)
  OBVIOUS
<1>16. \A k \in DOMAIN hit : hit[k] \in H
  <2>1. H \subseteq T
    BY <1>13
  <2>2. IsFiniteSet(H) /\ H \subseteq Nat \X Nat
    BY <1>9, <2>1, FS_Subset
  <2>3. hit \in Seq(H) /\ \A k \in 1 .. Len(hit) : hit[k] \in H
    BY <1>15, <2>2, PairsListed
  <2> QED
    BY <2>3
<1>17. PairwiseNMatch(a, b, room)
         = [k \in DOMAIN hit |-> [idx |-> hit[k], val |-> elm[ValueAt(pair(hit[k]))].word]]
  BY <1>2, <1>5, <1>6, <1>7, <1>8, <1>10, <1>11, <1>13, <1>15 DEF PairwiseNMatch, pair
<1>18. Pairs(a, b) = [k \in DOMAIN hit |-> [idx |-> hit[k], val |-> ValueOf(word(hit[k]))]]
  BY <1>2, <1>14, <1>15 DEF Pairs, word
<1>19. ASSUME NEW k \in DOMAIN hit
       PROVE  elm[ValueAt(pair(hit[k]))].word = ValueOf(word(hit[k]))
  <2>1. hit[k] \in T /\ HasValue(pair(hit[k])) /\ hit[k] \in A \X B
    BY <1>9, <1>13, <1>16
  <2> QED
    BY <1>12, <2>1
<1> QED
  BY <1>17, <1>18, <1>19

(* The two parts of a text are plain.                                      *)
LEMMA PartsPlain ==
  ASSUME NEW text, Plain(text), NEW i \in 0 .. Len(text),
         NEW a, a = SubSeq(text, 1, i), NEW b, b = SubSeq(text, i + 1, Len(text))
  PROVE  Plain(a) /\ Len(a) = i /\ Plain(b) /\ Len(b) = Len(text) - i
<1>1. PICK n : n = Len(text)
  OBVIOUS
<1>2. /\ n \in Nat /\ text \in Seq(Nat) /\ i \in Nat /\ i <= n
      /\ \A k \in 1 .. n : text[k] # 0 /\ text[k] \in Nat
  BY <1>1, ElementOfSeq DEF Plain
<1>3. Plain(a) /\ Len(a) = i
  <2>1. a \in Seq(Nat) /\ Len(a) = i /\ \A j \in 1 .. i : a[j] = text[j]
    BY <1>2, Beginning
  <2>2. \A j \in 1 .. i : j \in 1 .. n
    BY <1>2
  <2> QED
    BY <1>2, <2>1, <2>2 DEF Plain
<1>4. /\ b \in Seq(Nat) /\ Len(b) = IF i + 1 <= n THEN n - (i + 1) + 1 ELSE 0
      /\ \A k \in 1 .. n - (i + 1) + 1 : b[k] = text[i + 1 + k - 1]
  <2>1. PICK o : o = i + 1
    OBVIOUS
  <2>2. o \in Nat /\ 1 <= o
    BY <1>2, <2>1
  <2>3. \A k \in o .. n : k \in 1 .. n
    BY <1>2, <2>2
  <2>4. \A k \in o .. n : text[k] \in Nat
    BY <1>2, <2>3
  <2>5. b = SubSeq(text, o, n) /\ o \in Int /\ n \in Int
    BY <1>1, <1>2, <2>1, <2>2
  <2>6. /\ b \in Seq(Nat) /\ Len(b) = IF o <= n THEN n - o + 1 ELSE 0
        /\ \A k \in 1 .. n - o + 1 : b[k] = text[o + k - 1]
    <3>1. /\ SubSeq(text, o, n) \in Seq(Nat)
          /\ Len(SubSeq(text, o, n)) = IF o <= n THEN n - o + 1 ELSE 0
          /\ \A k \in 1 .. n - o + 1 : SubSeq(text, o, n)[k] = text[o + k - 1]
      BY <2>4, <2>5, SubSeqProperties
    <3> QED
      BY <2>5, <3>1
  <2> QED
    BY <2>1, <2>6
<1>5. Len(b) = n - i
  BY <1>2, <1>4
<1>6. ASSUME NEW k \in 1 .. n - i PROVE b[k] # 0
  <2>1. k \in 1 .. n - (i + 1) + 1 /\ i + 1 + k - 1 \in 1 .. n
    BY <1>2
  <2> QED
    BY <1>2, <1>4, <2>1
<1>7. Plain(b)
  BY <1>4, <1>5, <1>6 DEF Plain
<1> QED
  BY <1>1, <1>3, <1>5, <1>7

(* What ArrayExact says of one text.                                       *)
Answers(text) ==
  LET all  == Begins(text, LAMBDA p : ValueOf(p) # -1)
      keys == Begins(text, LAMBDA p : p \in DOMAIN dict)
      last == IF keys = <<>> THEN <<>> ELSE << Last(keys) >>
      z    == text \o << 0, 1 >>
  IN  /\ \A room \in {1, Len(text)} :
           /\ MultiNMatch(text, room) = UpTo(all, room)
           /\ MultiNMatchIds(text, room) = UpTo(all, room)
           /\ MultiNMatchWide([k \in DOMAIN text |-> text[k] + Width], room)
                = UpTo(all, room)
      /\ NGet(text) = ValueOf(text) /\ NFind(text) = ValueOf(text)
      /\ Faulty = {}
      /\ \A k \in 0 .. Len(text) :
           LET a == SubSeq(text, 1, k)
               b == SubSeq(text, k + 1, Len(text))
           IN  PairwiseNMatch(a, b, Len(text) * Len(text)) = Pairs(a, b)
      /\ format = "trie" =>
           /\ MaxNMatch(text) = last /\ MaxMatch(z) = last
           /\ MultiMatch(z, 1) = UpTo(keys, 1) /\ MultiMatch(z, Len(z)) = keys
           /\ FindZ(z) = (IF text \in DOMAIN dict THEN dict[text] ELSE -1)

LEMMA AllAnswered ==
  ASSUME NEW N, NEW at, Indexed(N, at), NEW text \in Texts
  PROVE  Answers(text)
<1>1. Plain(text)
  BY TextPlain
<1>2. text \in Seq(Nat) /\ Len(text) \in Nat /\ text \in Seq(1 .. Width - 1)
  <2>1. text \in Seq(Nat) /\ Len(text) \in Nat
    BY <1>1 DEF Plain
  <2>2. text \in Seq(1 .. Width - 1)
    BY TextsAssumption
  <2> QED
    BY <2>1, <2>2
<1>3. PICK all : all = Begins(text, LAMBDA p : ValueOf(p) # -1)
  OBVIOUS
<1>4. ASSUME NEW room \in {1, Len(text)}
      PROVE  /\ MultiNMatch(text, room) = UpTo(all, room)
             /\ MultiNMatchIds(text, room) = UpTo(all, room)
             /\ MultiNMatchWide([k \in DOMAIN text |-> text[k] + Width], room)
                  = UpTo(all, room)
  <2>1. Taken(text, HasValue, room) = UpTo(all, room)
    <3>1. room \in Nat
      BY <1>2
    <3> QED
      BY <1>1, <1>3, <3>1, TakenValues
  <2>2. PICK wide : wide = [k \in DOMAIN text |-> text[k] + Width]
    OBVIOUS
  <2>3. [k \in DOMAIN wide |-> wide[k] % Width] = text
    BY <1>2, <2>2, WideIs
  <2>4. MultiNMatchWide(wide, room) = Taken(text, HasValue, room)
    BY <2>3 DEF MultiNMatchWide
  <2> QED
    BY <2>1, <2>2, <2>4 DEF MultiNMatch, MultiNMatchIds
<1>5. NGet(text) = ValueOf(text) /\ NFind(text) = ValueOf(text)
  BY <1>1, GetsValue
<1>6. Faulty = {}
  BY NoneFaulty
<1>7. ASSUME NEW k \in 0 .. Len(text)
      PROVE  PairwiseNMatch(SubSeq(text, 1, k), SubSeq(text, k + 1, Len(text)),
                            Len(text) * Len(text))
               = Pairs(SubSeq(text, 1, k), SubSeq(text, k + 1, Len(text)))
  <2>1. PICK a, b, n, room : /\ a = SubSeq(text, 1, k) /\ b = SubSeq(text, k + 1, Len(text))
                             /\ n = Len(text) /\ room = n * n
    OBVIOUS
  <2>2. Plain(a) /\ Len(a) = k /\ Plain(b) /\ Len(b) = n - k
    <3>1. \A u, v : u = SubSeq(text, 1, k) /\ v = SubSeq(text, k + 1, Len(text))
                     => Plain(u) /\ Len(u) = k /\ Plain(v) /\ Len(v) = Len(text) - k
      BY <1>1, PartsPlain
    <3> QED
      BY <2>1, <3>1
  <2>3. room \in Nat /\ k <= room /\ k * (n - k) <= room /\ k * (n - k) \in Nat
    BY <1>2, <2>1, RoomForPairs
  <2>4. PairwiseNMatch(a, b, room) = Pairs(a, b)
    <3>1. Len(a) <= room /\ Len(a) * Len(b) <= room /\ Len(a) * Len(b) \in Nat
      BY <2>2, <2>3
    <3> QED
      BY <2>2, <2>3, <3>1, PairsAnswered
  <2> QED
    BY <2>1, <2>4
<1>8. PICK keys, z : keys = Begins(text, LAMBDA p : p \in DOMAIN dict) /\ z = text \o << 0, 1 >>
  OBVIOUS
<1>9. PICK last : last = IF keys = <<>> THEN <<>> ELSE << Last(keys) >>
  OBVIOUS
<1>10. ASSUME format = "trie"
       PROVE  /\ MaxNMatch(text) = last /\ MaxMatch(z) = last
              /\ MultiMatch(z, 1) = UpTo(keys, 1) /\ MultiMatch(z, Len(z)) = keys
              /\ FindZ(z) = (IF text \in DOMAIN dict THEN dict[text] ELSE -1)
  BY <1>1, <1>8, <1>9, <1>10, KeysAnswered
<1> QED
  BY <1>3, <1>4, <1>5, <1>6, <1>7, <1>8, <1>9, <1>10 DEF Answers

(* The array knows where every node is.                                    *)
LEMMA ArrayAnswers == ASSUME IInv, Contents PROVE ArrayExact
<1> SUFFICES ASSUME Whole PROVE \A text \in Texts : Answers(text)
  BY DEF ArrayExact, Answers
<1>1. PICK at : Image(dict, Layout, elm, Count, at)
  BY DEF Contents, ArrayHolds, Done, Whole
<1>2. PICK N : N = Layout
  OBVIOUS
<1>3. dict \in Dicts /\ Nodes = N /\ N = FileNodes(dict, format) /\ Cells(elm, Count)
  BY <1>2 DEF IInv, Heads, NodesInv, ArrayInv, Whole, Layout
<1>4. Tree(N) /\ Ends(dict, N)
  BY <1>3, FileTree, FileEnds
<1>5. Indexed(N, at)
  BY <1>1, <1>2, <1>3, <1>4 DEF Indexed
<1> QED
  BY <1>5, AllAnswered

(* Whatever the dictionary and however it comes, whichever room realloc    *)
(* gives and however the writes of save are cut: the array, laid out or    *)
(* loaded again, and the Trie while it is filled answer every lookup of    *)
(* every text with what the dictionary says (LookupsExact).                *)
THEOREM LookupsAnswer == Spec => []LookupsExact
<1>1. IInv /\ Contents => LookupsExact
  BY ArrayAnswers, TrieAnswers DEF LookupsExact
<1> QED
  BY <1>1, LayoutInv, ContentsInv, PTL

=============================================================================
