------------------------- MODULE MCChebyshevFilter -------------------------
EXTENDS ChebyshevFilter, TLC

OwnedRange(a, b) == [first |-> a, second |-> b]

ASSUME SettingAssumption == FilterSetting

AllVec == {"XArray1", "XArray2", "YArray1", "YArray2", "projectorKetTimesVector1",
           "projectorKetTimesVector2", "tempFloatArray"}
Projectors == {"projectorKetTimesVector1", "projectorKetTimesVector2"}

\* Three ranks that own two, two and one entries, and one projector on rank 0
\* that all of them need.
ThreeRanks ==
  [v \in AllVec |-> IF v \in Projectors
                    THEN 0 :> OwnedRange(0, 1) @@ 1 :> OwnedRange(1, 1) @@ 2 :> OwnedRange(1, 1)
                    ELSE 0 :> OwnedRange(0, 2) @@ 1 :> OwnedRange(2, 4) @@ 2 :> OwnedRange(4, 5)]

\* Entry 0 is constrained to entry 2, so rank 0 needs it; entry 3 is inside.
ThreeRankGhosts ==
  [v \in AllVec |-> IF v \in Projectors
                    THEN 0 :> {} @@ 1 :> {0} @@ 2 :> {0}
                    ELSE 0 :> {2} @@ 1 :> {1, 4} @@ 2 :> {2}]

SomeConstraints == 0 :> [master |-> 2, weight |-> 3]

\* A mass for every entry, and a contribution of every rank to every pair.
SomeMass == 1 :> 2 @@ 2 :> 5 @@ 3 :> 7 @@ 4 :> 3
SomeH == [p \in 0 .. 2 |-> [gh \in (0 .. 4) \X (0 .. 4) |->
            2 * p + 3 + gh[1] * gh[1] + 4 * gh[1] * gh[2] + gh[2] * gh[2]]]

\* Values that are different for every rank, operation and entry.
SomeValue(p, n, g) == (n + 3 * g) * 100 ^ p

\* Without overlap, with one overlapped degree, and with three of them, of which
\* the middle one begins and ends with a lagging block.
SomeFilters == [m : {1, 4, 6}, mixed : BOOLEAN]
=============================================================================
