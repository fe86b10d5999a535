---------------------------- MODULE PatternData ----------------------------
(***************************************************************************)
(* The local computations of the MPIPatternP2P constructor                 *)
(* (utils/MPIPatternP2P.t.cc): from the index ranges that all ranks own    *)
(* and the ghost indices of one rank, which ranks it needs data from and   *)
(* where in its ghost section the data of each belongs.                    *)
(*                                                                         *)
(* rs is d_allOwnedRanges, a record [first, second] for each rank, second  *)
(* excluded; G is the set of indices of d_ghostIndices, which is strictly  *)
(* increasing.  Global indices are unbounded: 64-bit counters do not wrap. *)
(***************************************************************************)
EXTENDS Integers, FiniteSets, FiniteSetsExt, Folds

CONSTANT NumProcs        \* d_nprocs

ASSUME NumProcsAssumption == NumProcs \in Nat \ {0}

Rank == 0 .. NumProcs - 1

IsEmpty(r) == r.first = r.second
Size(r) == r.second - r.first
Indices(r) == r.first .. r.second - 1

\* The elements of a finite set of integers in increasing order.
Ascending(S) ==
  [i \in 1 .. Cardinality(S) |->
     CHOOSE x \in S : Cardinality({y \in S : y < x}) = i - 1]

-----------------------------------------------------------------------------
\* getOverlappingRangeIds: a sweep over the ends of the non-empty ranges; at
\* equal ids a range's end comes before another's start.
Events(rs) ==
  UNION {{[Id |-> rs[k].first, rangeId |-> k, isRangeStart |-> TRUE],
          [Id |-> rs[k].second, rangeId |-> k, isRangeStart |-> FALSE]} :
         k \in {j \in Rank : ~IsEmpty(rs[j])}}

\* Fault: at equal ids the start of a range is sorted before the end.
StartsFirst(x, y) ==
  \/ x.Id < y.Id
  \/ x.Id = y.Id /\ x.isRangeStart /\ ~y.isRangeStart
  \/ x.Id = y.Id /\ x.isRangeStart = y.isRangeStart /\ x.rangeId < y.rangeId

\* The ids of two starts, or of two ends, may come in any order.
compareRangeMetaData(x, y) ==
  \/ x.Id < y.Id
  \/ x.Id = y.Id /\ ~x.isRangeStart /\ y.isRangeStart
  \/ x.Id = y.Id /\ x.isRangeStart = y.isRangeStart /\ x.rangeId < y.rangeId

LastEvent(E) == CHOOSE x \in E : \A y \in E \ {x} : compareRangeMetaData(y, x)

None == -1

\* Fault: a range that ends inside the open one is not reported.
SweepOnlyLonger(rs, e, s) ==
  CASE e.isRangeStart /\ s.open = None ->
         [s EXCEPT !.open = e.rangeId, !.added = FALSE]
    [] e.isRangeStart /\ s.open # None ->
         IF rs[e.rangeId].second > rs[s.open].second
         THEN [open |-> e.rangeId, added |-> TRUE, ids |-> s.ids \cup {e.rangeId, s.open}]
         ELSE s
    [] ~e.isRangeStart /\ e.rangeId = s.open ->
         [s EXCEPT !.open = None, !.added = FALSE]
    [] OTHER -> s

\* One turn of the sweep: s.open is currentOpen, s.ids is returnValue.
SweepStep(rs, e, s) ==
  CASE e.isRangeStart /\ s.open = None ->
         [s EXCEPT !.open = e.rangeId, !.added = FALSE]
    [] e.isRangeStart /\ s.open # None ->
         LET longer == rs[e.rangeId].second > rs[s.open].second
         IN  [open  |-> IF longer THEN e.rangeId ELSE s.open,
              added |-> TRUE,
              ids   |-> s.ids \cup {e.rangeId} \cup IF s.added THEN {} ELSE {s.open}]
    [] ~e.isRangeStart /\ e.rangeId = s.open ->
         [s EXCEPT !.open = None, !.added = FALSE]
    [] OTHER -> s

getOverlappingRangeIds(rs) ==
  MapThenFoldSet(LAMBDA e, s : SweepStep(rs, e, s),
                 [open |-> None, added |-> FALSE, ids |-> {}],
                 LAMBDA e : e, LastEvent, Events(rs)).ids

-----------------------------------------------------------------------------
nGlobalIndices(rs) == MapThenSumSet(LAMBDA k : Size(rs[k]), Rank)

\* locallyOwnedRangesEnd: an empty range is moved behind every index.
SearchEnd(rs, k) ==
  IF IsEmpty(rs[k]) THEN nGlobalIndices(rs) + 1 + k ELSE rs[k].second

\* upper_bound over the sorted ends.
EndsBeyond(rs, g) == {k \in Rank : SearchEnd(rs, k) > g}

procIdOf(rs, g) ==
  LET beyond == EndsBeyond(rs, g)
  IN  CHOOSE k \in beyond : \A j \in beyond : SearchEnd(rs, k) <= SearchEnd(rs, j)

\* Position of g in d_ghostIndices.
localGhostIndex(G, g) == Cardinality({h \in G : h < g})

\* ghostProcIdToLocalGhostIndices[k], as global indices.
GhostsOf(rs, G, k) == {g \in G : procIdOf(rs, g) = k}

d_ghostProcIds(rs, G) == {procIdOf(rs, g) : g \in G}

checkContiguity(v) == \A i \in v : i = Min(v) \/ i - 1 \in v

\* d_localGhostIndicesRanges of ghost processor k.
localGhostIndicesRange(rs, G, k) ==
  LET v == {localGhostIndex(G, g) : g \in GhostsOf(rs, G, k)}
  IN  [first |-> Min(v), second |-> Max(v) + 1]

\* What is sent to ghost processor k: k's local numbers of the wanted
\* indices, in increasing order.
localIndicesForGhostProc(rs, G, k) ==
  LET wanted == Ascending(GhostsOf(rs, G, k))
  IN  [i \in DOMAIN wanted |-> wanted[i] - rs[k].first]

-----------------------------------------------------------------------------
\* What the constructors give the ghost exchange, unless one throws: the ranges do
\* not overlap, and the rank found for a ghost index owns it.
IsPattern(rs, gs) ==
  /\ \A k \in Rank : rs[k].first \in Nat /\ rs[k].second \in Nat /\ rs[k].first <= rs[k].second
  /\ \A j, k \in Rank : j # k => Indices(rs[j]) \cap Indices(rs[k]) = {}
  /\ \A p \in Rank :
       /\ gs[p] \in SUBSET Nat /\ IsFiniteSet(gs[p])
       /\ \A g \in gs[p] : LET k == procIdOf(rs, g) IN k \in Rank /\ g \in Indices(rs[k])
=============================================================================
