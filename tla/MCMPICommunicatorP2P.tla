------------------------ MODULE MCMPICommunicatorP2P ------------------------
EXTENDS SequentialMeaning, TLC

CONSTANTS va, vb

OwnedRange(a, b) == [first |-> a, second |-> b]

\* va: ranks 0, 1 and 2 own {0}, {1} and {2, 3}; vb: {0, 1}, {2} and nothing.
RankOrdered ==
  (va :> (0 :> OwnedRange(0, 1) @@ 1 :> OwnedRange(1, 2) @@ 2 :> OwnedRange(2, 4)))
   @@ (vb :> (0 :> OwnedRange(0, 2) @@ 1 :> OwnedRange(2, 3) @@ 2 :> OwnedRange(3, 3)))

\* Rank 1 has ghosts of two ranks; index 1 of vb is a ghost of two ranks.
SomeGhosts ==
  (va :> (0 :> {} @@ 1 :> {0, 3} @@ 2 :> {}))
   @@ (vb :> (0 :> {} @@ 1 :> {1} @@ 2 :> {1, 2}))

\* The same ghosts where rank 2 owns the lowest index.
NotRankOrdered ==
  (va :> (0 :> OwnedRange(3, 4) @@ 1 :> OwnedRange(1, 3) @@ 2 :> OwnedRange(0, 1)))
   @@ (vb :> (0 :> OwnedRange(0, 2) @@ 1 :> OwnedRange(2, 3) @@ 2 :> OwnedRange(3, 3)))

ASSUME OrderAssumption == OwnedRanges = RankOrdered => RanksInOrder

\* Values that are different for every rank, entry and operation, and whose
\* sums tell the ranks apart.
SomeValue(p, n, g) == (n + 3 * g) * 100 ^ p

O(op, v) == [op |-> op, v |-> v]

\* Both vectors are updated at once, then both accumulated; the operations of
\* vb start and end before, between or after those of va.
Ops(v) == <<O("updateBegin", v), O("updateEnd", v), O("accumulateBegin", v), O("accumulateEnd", v)>>

Merges ==
  {[n \in 1 .. 8 |-> IF n \in S THEN Ops(va)[Cardinality({m \in S : m <= n})]
                     ELSE Ops(vb)[Cardinality({m \in (1 .. 8) \ S : m <= n})]] :
     S \in {T \in SUBSET (1 .. 8) : Cardinality(T) = 4}}

SomePrograms ==
  {<<O("compute", va), O("compute", vb)>> \o m : m \in Merges}

\* Updates that follow each other, with new values, and a cleared section.
Repeated ==
  {<<O("compute", va), O("updateBegin", va), O("updateEnd", va), O("compute", va),
     O("updateBegin", va), O("updateEnd", va), O("zeroOutGhosts", va),
     O("accumulateBegin", va), O("accumulateEnd", va)>>}

OneUpdate == {<<O("compute", va), O("updateBegin", va), O("updateEnd", va)>>}

AllPrograms == SomePrograms \cup Repeated
=============================================================================
