------------------------------ MODULE Patterns ------------------------------
(* A pattern automaton from its Nfa to its matches: it is built            *)
(* (DfaBuild), used as it is or written to a file and loaded (DfaTables),  *)
(* and then searched (DfaMatch). The reference is the Nfa itself: what its *)
(* paths spell.                                                            *)
EXTENDS DfaBuild, DfaTables, DfaMatch

(* Symbols are UINT16, of two bytes.                                       *)
ASSUME PatternsAssumption ==
  /\ Bytes \in Nat \ {0} /\ Wide = Bytes * Bytes
  /\ \A a \in Nfas : IsNfa(a) => SymbolsOf(a) \subseteq Codes

vars == <<buildVars, scanVars>>

Empty == [count |-> 0, type |-> <<>>, next |-> <<>>]

Init ==
  /\ BuildInit /\ ScanInit
  /\ machine = Empty /\ mmap_pattern_ = FALSE

Build ==
  /\ InitFromNfa /\ phase = "idle"
  /\ UNCHANGED scanVars

Adopt(m, mapped) ==
  /\ phase = "idle"
  /\ machine' = m /\ mmap_pattern_' = mapped
  /\ pc' = "ready"
  /\ UNCHANGED <<nfa, nfa_set, queue, nodes, id_map, accept_types, dfa_queue,
                 dfa_mark, sym, op, text, cap, phase, i, j, state,
                 pre_match_pos, pre_match_type, result, start_positions>>

UseNodes == pc = "built" /\ Adopt(StdMachine(nodes), FALSE)

UseFile ==
  /\ pc = "built"
  /\ Adopt(StdMachine(InitFromFile(Serialization(accept_types, nodes)).nodes), FALSE)

UseMap == pc = "built" /\ Adopt(MmapMachine(StoreNodes(nodes)), TRUE)

Search ==
  /\ pc \in {"start", "ready"}
  /\ (\E c \in Calls : Call(c)) \/ Matching
  /\ UNCHANGED buildVars

Next == Build \/ UseNodes \/ UseFile \/ UseMap \/ Search

(* The thread that builds, and the one that searches, go on.               *)
Spec == Init /\ [][Next]_vars
FairSpec == Spec /\ WF_vars(Build) /\ WF_vars(Matching /\ UNCHANGED buildVars)

-----------------------------------------------------------------------------
(* The closure of a set of nodes, and the nodes reached from a set over    *)
(* edges that read a character: no edge reads Epsilon.                     *)
Closure(a, set) == CHOOSE c \in SUBSET a.ids : IsClosure(a, c, set)
Reading(a, set, c) ==
  { n \in a.ids : c # Epsilon /\ a.symbol[n] = c /\ \E m \in set : n \in a.succ[m] }

(* The nodes of the Nfa met with the text t read from b up to each         *)
(* position, and the types they accept with.                               *)
Met(a, t, b) ==
  LET at[e \in b .. Len(t)] ==
        Closure(a, IF e = b THEN {a.start} ELSE Reading(a, at[e - 1], t[e] % Wide))
  IN  at

Accepts(a, t, b) ==
  LET met == Met(a, t, b)
  IN  [e \in b .. Len(t) |-> TypeOf(a, met[e])]

(* The matches that begin at b and are not followed by a longer one of the *)
(* same type, shortest first.                                              *)
Cuts(a, t, b) ==
  LET type == Accepts(a, t, b)
      ends == { e \in b .. Len(t) : type[e] > 0 }
      cuts == { e \in ends :
                  LET more == { f \in ends : f > e }
                  IN  more = {} \/ type[Min(more)] # type[e] }
  IN  [k \in 1 .. Cardinality(cuts) |->
         [begin |-> b, end |-> Ascending(cuts)[k], type |-> type[Ascending(cuts)[k]]]]

(* The text cut into matches from a position on.                           *)
Munch(a, t, from, longest) ==
  LET at[b \in 0 .. Len(t)] ==
        IF b = Len(t) THEN <<>>
        ELSE LET cuts == Cuts(a, t, b)
             IN  IF cuts = <<>> THEN at[b + 1]
                 ELSE (IF longest THEN <<Last(cuts)>> ELSE cuts)
                      \o at[Last(cuts).end]
  IN  at[from]

(* The positions that can be reached over matches that were cut off, and   *)
(* what AnyMatch reports, whatever how often: the matches from each.       *)
CutOff(a, t, s) ==
  { m.end : m \in { m \in ToSet(Munch(a, t, s, FALSE)) : m # Last(Cuts(a, t, m.begin)) } }

Begins(a, t) ==
  LET next == [s \in 0 .. Len(t) |-> CutOff(a, t, s)]
      Complete(set) == 0 \in set /\ \A s \in set : next[s] \subseteq set
  IN  { s \in 0 .. Len(t) : \A set \in SUBSET (0 .. Len(t)) : Complete(set) => s \in set }

AllMatches(a, t) == UNION { ToSet(Munch(a, t, s, FALSE)) : s \in Begins(a, t) }

(* The matches of the beginning with their scores; as much of a list as    *)
(* fits into a buffer.                                                     *)
Scores(a, t) ==
  LET cuts == Cuts(a, t, 0)
  IN  [k \in 1 .. Len(cuts) |->
         [begin |-> 0, end |-> cuts[k].end, type |-> cuts[k].type,
          score |-> GetScore(cuts[k].type, cuts[k].end)]]

Fit(s, n) == SubSeq(s, 1, Min({Len(s), n}))

(* Without room the UINT16 prefix function reports the first match when     *)
(* another one follows it, and none when it is the only one.                *)
FitUINT16(s, n) == IF n = 0 /\ Len(s) > 1 THEN Fit(s, 1) ELSE Fit(s, n)

Expected ==
  CASE op = "greedy"         -> Munch(nfa, text, 0, TRUE)
    [] op = "longest"        -> Munch(nfa, text, 0, FALSE)
    [] op = "longest_buffer" -> Fit(Munch(nfa, text, 0, FALSE), cap)
    [] op = "prefix"         -> FitUINT16(Scores(nfa, text), cap)
    [] OTHER                 -> Fit(Scores(nfa, text), cap)

Unfit ==
  \/ machine = Empty \/ Accepts(nfa, text, 0)[0] > 0
  \/ op \in {"prefix", "prefix_wide"} /\ ~mmap_pattern_

-----------------------------------------------------------------------------
TypeOK == (pc # "ready" => BuildTypeOK) /\ MatchTypeOK

(* A matching function answers with what the paths of the Nfa spell: the   *)
(* longest match of each position, the matches before a change of type, as *)
(* many of them as fit, with the scores of their types; AnyMatch of the    *)
(* tables reports exactly the matches that can be reached, AnyMatch of     *)
(* nodes_ none. It throws exactly when there is no automaton to search     *)
(* with. The same whether the automaton was used as built or loaded.       *)
MatchExact ==
  /\ phase = "thrown" => Unfit
  /\ phase = "returned" =>
       IF op = "any" THEN ToSet(result) = IF mmap_pattern_ THEN AllMatches(nfa, text) ELSE {}
       ELSE ~Unfit /\ result = Expected

(* Every construction and every search comes to its end, whatever loops    *)
(* the Nfa has and however often AnyMatch begins again.                    *)
Returns ==
  /\ (pc = "start") ~> (pc = "built" \/ phase \in {"returned", "thrown"})
  /\ (phase # "idle") ~> (phase \in {"returned", "thrown"})
=============================================================================
