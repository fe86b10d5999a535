-------------------------- MODULE MCMPIPatternP2P --------------------------
EXTENDS MPIPatternP2P

OwnedRange(a, b) == [first |-> a, second |-> b]

\* All non-empty ranges below 3, an empty one and a reversed one.
SomeRanges ==
  {r \in [first : 0 .. 3, second : 0 .. 3] : r.first < r.second}
    \cup {OwnedRange(2, 2), OwnedRange(2, 1)}

\* Three ranks that own one, one and two indices, in some order.
SomePartition == {OwnedRange(0, 1), OwnedRange(1, 2), OwnedRange(2, 4)}
=============================================================================
