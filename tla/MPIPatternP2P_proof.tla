------------------------- MODULE MPIPatternP2P_proof -------------------------
(****************************************************************************)
(* The construction of a communication pattern, for every number of ranks,  *)
(* all ranges and all ghost indices: no rank goes on when ranges overlap, a *)
(* legal construction never throws (if MPI_Isend copies its counts), a      *)
(* completed one leaves no ghost index without an owner, and the targets of *)
(* each rank are the ghosts of the others.                                  *)
(*                                                                          *)
(* The inductive invariant says what each rank has checked and what each    *)
(* message holds, in terms of the inputs alone: what is received then       *)
(* depends on the inputs alone, too, and PatternData_proof says what it is. *)
(****************************************************************************)
EXTENDS MPIPatternP2P, PatternData_proof

\* A rank that has passed the checks of its ghost indices.
Past == {"nbx", "counts", "indices", "done"}
\* A rank that may have sent something.
Sent == {"counts", "indices", "done", "threw"}

\* The ranks that p asks for its ghost indices, and what it asks each for.
Procs(p) == d_ghostProcIds(ranges, ghosts[p])
Lists(p) == [k \in Procs(p) |-> localIndicesForGhostProc(ranges, ghosts[p], k)]

\* The indices that p asks k for, in k's numbers, are numbers of k.
InOwnersRange(p) ==
  \A k \in Procs(p) : \A i \in DOMAIN Lists(p)[k] : Lists(p)[k][i] \in 0 .. Size(ranges[k]) - 1

-----------------------------------------------------------------------------
\* The inputs are inputs; what is sent and received is kept per rank.
Typed ==
  /\ ranges \in [Rank -> RangeInputs]
  /\ ghosts \in [Rank -> SUBSET (0 .. MaxIndex)]
  /\ pc \in [Rank -> PCs]
  /\ counts = [p \in Rank |-> counts[p]]
  /\ lists = [p \in Rank |-> lists[p]]
  /\ targets = [p \in Rank |-> targets[p]]

\* A rank that passed a check has ranges and ghost indices that pass it.
CheckedInv ==
  \A p \in Rank :
    /\ pc[p] \in Past \cup {"allgather"} => ranges[p].first <= ranges[p].second
    /\ pc[p] \in Past \/ counts[p] # NoData =>
         RangesOK(ranges) /\ GhostDataIsValid(ranges, ghosts[p])

\* What has been sent.  A count is one of the counts, the right one if MPI_Isend copies it.
CountsInv ==
  \A p \in Rank :
    counts[p] # NoData =>
      /\ pc[p] \in Sent /\ RequestersKnown
      /\ DOMAIN counts[p] = Procs(p)
      /\ \A k \in Procs(p) : \E j \in Procs(p) :
           counts[p][k] = NumGhosts(p, j) /\ (EagerSend => j = k)

\* What has been sent after the counts: the lists, all of whose entries passed the check.
ListsInv ==
  \A p \in Rank :
    lists[p] # NoData =>
      pc[p] \in Sent \ {"counts"} /\ counts[p] # NoData /\ lists[p] = Lists(p) /\ InOwnersRange(p)

\* A rank in one of these places has sent, unless it has nothing to send.
PlacesInv ==
  \A p \in Rank :
    /\ pc[p] \in {"counts", "indices", "done"} =>
         RequestersKnown /\ (Procs(p) # {} => counts[p] # NoData)
    /\ pc[p] \in {"indices", "done"} => (Procs(p) # {} => lists[p] # NoData)

\* A completed rank has what its requesters sent, another has nothing yet.
TargetsInv ==
  \A p \in Rank :
    IF pc[p] = "done"
    THEN /\ \A q \in d_targetProcIds(p) : p \in DOMAIN lists[q]
         /\ targets[p] = [q \in d_targetProcIds(p) |-> Received(lists[q][p], counts[q][p])]
    ELSE targets[p] = NoData

\* A legal construction that copies its counts goes on.
LegalInv == EagerSend /\ Legal => Running

\* The inductive invariant.
IInv ==
  /\ Typed
  /\ CheckedInv
  /\ CountsInv
  /\ ListsInv
  /\ PlacesInv
  /\ TargetsInv
  /\ LegalInv

-----------------------------------------------------------------------------
\* The ghost indices of a rank are finitely many, fewer than the indices if one is missing.
LEMMA SomeGhosts ==
  ASSUME NEW G \in SUBSET (0 .. MaxIndex)
  PROVE  /\ IsFiniteSet(G) /\ Cardinality(G) \in Nat
         /\ G # {} => Cardinality(G) >= 1
         /\ \A x \in (0 .. MaxIndex) \ G : Cardinality(G) <= MaxIndex
<1>1. IsFiniteSet(0 .. MaxIndex) /\ Cardinality(0 .. MaxIndex) = MaxIndex + 1
  <2>1. 0 \in Int /\ MaxIndex \in Int /\ MaxIndex \in Nat
    BY MaxIndexAssumption
  <2>2. IsFiniteSet(0 .. MaxIndex)
        /\ Cardinality(0 .. MaxIndex) = IF 0 > MaxIndex THEN 0 ELSE MaxIndex - 0 + 1
    BY <2>1, FS_Interval
  <2>3. QED
    BY <2>1, <2>2
<1>2. IsFiniteSet(G) /\ Cardinality(G) \in Nat /\ (Cardinality(G) = 0 <=> G = {})
  BY <1>1, FS_Subset, FS_CardinalityType, FS_EmptySet
<1>3. ASSUME NEW x \in (0 .. MaxIndex) \ G
      PROVE  Cardinality(G) <= MaxIndex
  <2>1. Cardinality(G) <= Cardinality(0 .. MaxIndex) /\ Cardinality(G) # Cardinality(0 .. MaxIndex)
    BY <1>1, <1>3, FS_Subset
  <2>2. QED
    BY <1>1, <1>2, <2>1, MaxIndexAssumption
<1>4. G # {} => Cardinality(G) >= 1
  <2> SUFFICES ASSUME G # {} PROVE Cardinality(G) >= 1
    OBVIOUS
  <2>1. Cardinality(G) # 0
    BY <1>2
  <2>2. Cardinality(G) \in Nat
    BY <1>2
  <2>3. QED
    BY <2>1, <2>2
<1>5. QED
  BY <1>2, <1>3, <1>4, Zenon

\* The ends of a range are indices or the bound.
LEMMA RangeBounds ==
  ASSUME NEW rs \in [Rank -> RangeInputs]
  PROVE  \A k \in Rank : rs[k].first \in 0 .. MaxIndex /\ rs[k].second \in 0 .. MaxIndex
BY RangeAssumption

\* A rank that passed the checks asks ranks only, each for at least one index, and for no
\* more than there are indices below the bound.
LEMMA ValidGhosts ==
  ASSUME NEW rs \in [Rank -> RangeInputs], RangesOK(rs),
         NEW G \in SUBSET (0 .. MaxIndex), GhostDataIsValid(rs, G)
  PROVE  /\ \A g \in G : g \in Nat /\ procIdOf(rs, g) \in EndsBeyond(rs, g)
         /\ d_ghostProcIds(rs, G) \subseteq Rank
         /\ \A k \in d_ghostProcIds(rs, G) :
              /\ GhostsOf(rs, G, k) \in SUBSET (0 .. MaxIndex)
              /\ Cardinality(GhostsOf(rs, G, k)) \in 1 .. MaxIndex
<1> DEFINE n == nGlobalIndices(rs)
<1>1. \A g \in G :
        /\ g \in Nat /\ g < n
        /\ procIdOf(rs, g) \in EndsBeyond(rs, g) /\ procIdOf(rs, g) \in Rank
        /\ \A j \in EndsBeyond(rs, g) : SearchEnd(rs, procIdOf(rs, g)) <= SearchEnd(rs, j)
  <2> SUFFICES ASSUME NEW g \in G
               PROVE  /\ g \in Nat /\ g < n
                      /\ procIdOf(rs, g) \in EndsBeyond(rs, g) /\ procIdOf(rs, g) \in Rank
                      /\ \A j \in EndsBeyond(rs, g) : SearchEnd(rs, procIdOf(rs, g)) <= SearchEnd(rs, j)
    OBVIOUS
  <2>1. g \in Nat /\ g < n /\ EndsBeyond(rs, g) # {}
    BY DEF GhostDataIsValid
  <2>2. QED
    BY <2>1, OwnerSearched
<1>2. n \in Int /\ MaxIndex \in Nat
  BY SearchEnds, MaxIndexAssumption
<1>3. ASSUME NEW k \in d_ghostProcIds(rs, G)
      PROVE  /\ GhostsOf(rs, G, k) \in SUBSET (0 .. MaxIndex)
             /\ Cardinality(GhostsOf(rs, G, k)) \in 1 .. MaxIndex
  <2> DEFINE W == GhostsOf(rs, G, k)
  <2>1. W \in SUBSET (0 .. MaxIndex) /\ W # {} /\ k \in Rank /\ k \in Nat
        /\ \A g \in W : g \in G /\ procIdOf(rs, g) = k
    BY <1>1, <1>3, RankFinite DEF GhostsOf, d_ghostProcIds
  <2>2. CASE ~IsEmpty(rs[k])
    <3>1. MaxIndex \notin W
      <4> SUFFICES ASSUME MaxIndex \in W PROVE FALSE
        OBVIOUS
      <4>1. rs[k].second > MaxIndex
        BY <1>1, <2>1, <2>2 DEF EndsBeyond, SearchEnd
      <4>2. QED
        BY <2>1, <4>1, RangeBounds, MaxIndexAssumption
    <3>2. QED
      BY <1>2, <2>1, <3>1, SomeGhosts
  <2>3. CASE IsEmpty(rs[k])
    <3>1. 0 \notin W \/ MaxIndex \notin W
      <4> SUFFICES ASSUME 0 \in W, MaxIndex \in W PROVE FALSE
        OBVIOUS
      <4>1. MaxIndex < n /\ SearchEnd(rs, k) = n + 1 + k
        BY <1>1, <2>1, <2>3 DEF SearchEnd
      <4>2. PICK j \in Rank : Size(rs[j]) # 0
        <5>1. \A j \in Rank : Size(rs[j]) \in Int
          BY DEF RangesOK, Size
        <5>2. QED
          BY <1>2, <4>1, <5>1, SumOfSizes
      <4>3. rs[j].first \in 0 .. MaxIndex /\ rs[j].second \in 0 .. MaxIndex
            /\ rs[j].first # rs[j].second /\ rs[j].first <= rs[j].second
        BY <4>2, RangeBounds DEF Size, RangesOK
      <4>4. SearchEnd(rs, j) = rs[j].second /\ rs[j].second > 0
        BY <1>2, <4>3 DEF SearchEnd, IsEmpty
      <4>5. j \in EndsBeyond(rs, 0)
        BY <4>4 DEF EndsBeyond
      <4>6. n + 1 + k <= rs[j].second
        BY <1>1, <2>1, <4>1, <4>4, <4>5
      <4>7. QED
        BY <1>2, <2>1, <4>1, <4>3, <4>6
    <3>2. 0 \in 0 .. MaxIndex /\ MaxIndex \in 0 .. MaxIndex
      BY <1>2
    <3>3. QED
      BY <1>2, <2>1, <3>1, <3>2, SomeGhosts
  <2>4. QED
    BY <2>2, <2>3
<1>4. QED
  BY <1>1, <1>3 DEF d_ghostProcIds

\* A set of ranks that is not empty has a greatest one.
LEMMA MaxOfRanks ==
  ASSUME NEW S \in SUBSET Rank, S # {}
  PROVE  Max(S) \in S
<1> DEFINE gaps == {NumProcs - 1 - k : k \in S}
<1>1. \A k \in S : k \in Nat /\ NumProcs - 1 - k \in Nat
  BY NumProcsAssumption DEF Rank
<1>2. gaps \in SUBSET Nat /\ gaps # {}
  BY <1>1
<1>3. PICK x \in gaps : \A y \in gaps : x <= y
  <2> HIDE DEF gaps
  <2>1. QED
    BY <1>2, LeastNumber
<1>4. PICK k \in S : x = NumProcs - 1 - k
  OBVIOUS
<1>5. \A j \in S : k >= j
  <2> SUFFICES ASSUME NEW j \in S PROVE k >= j
    OBVIOUS
  <2>1. NumProcs - 1 - k <= NumProcs - 1 - j
    BY <1>3, <1>4
  <2>2. k \in Nat /\ j \in Nat /\ NumProcs \in Nat
    BY <1>1, NumProcsAssumption
  <2>3. QED
    BY <2>1, <2>2
<1>6. QED
  BY <1>5 DEF Max

\* Legal ranges are a partition of the indices.
Partition(rs) ==
  /\ \A p \in Rank : rs[p].first <= rs[p].second
  /\ Disjoint(rs)
  /\ UNION {Indices(rs[p]) : p \in Rank} = 0 .. nGlobalIndices(rs) - 1

\* Ranges whose ends are in order pass the first check.
LEMMA TypedRangesOK ==
  ASSUME NEW rs \in [Rank -> RangeInputs], \A p \in Rank : rs[p].first <= rs[p].second
  PROVE  RangesOK(rs)
<1>1. \A x \in 0 .. MaxIndex : x \in Nat
  BY MaxIndexAssumption
<1>2. QED
  BY <1>1, RangeBounds DEF RangesOK

\* What a legal construction is given.
LEMMA LegalIsPartition ==
  ASSUME Legal
  PROVE  Partition(ranges) /\ \A p \in Rank : \A g \in ghosts[p] : g < nGlobalIndices(ranges)
BY DEF Legal, SomeRangesOverlap, Partition, Disjoint

\* Each index is owned by the rank that the search finds, and by no other.
FindsOwners(rs, G) ==
  /\ \A g \in G : \E k \in Rank : g \in Indices(rs[k])
  /\ \A g \in G, k \in Rank : procIdOf(rs, g) = k <=> g \in Indices(rs[k])

\* Ranges that are a partition, and ghost indices of it, pass all checks.
LEMMA PartitionIsValid ==
  ASSUME NEW rs \in [Rank -> RangeInputs], Partition(rs),
         NEW G \in SUBSET (0 .. MaxIndex), \A g \in G : g < nGlobalIndices(rs)
  PROVE  RangesOK(rs) /\ FindsOwners(rs, G) /\ GhostDataIsValid(rs, G)
<1> DEFINE n == nGlobalIndices(rs)
<1>1. RangesOK(rs) /\ Disjoint(rs)
  BY TypedRangesOK DEF Partition
<1>2. n \in Int
  BY <1>1, SearchEnds
<1>3. \A g \in G : g \in Nat /\ g < n
  BY MaxIndexAssumption
<1>4. ASSUME NEW k \in Rank, NEW g \in Indices(rs[k])
      PROVE  EndsBeyond(rs, g) # {} /\ procIdOf(rs, g) = k
  <2>1. rs[k].first \in Int /\ rs[k].second \in Int
    BY <1>1 DEF RangesOK
  <2>2. rs[k].second - 1 \in Indices(rs[k])
    BY <1>4, <2>1 DEF Indices
  <2>3. rs[k].second - 1 \in 0 .. n - 1
    BY <2>2 DEF Partition
  <2>4. rs[k].second <= n
    BY <1>2, <2>1, <2>3
  <2>5. QED
    BY <1>1, <1>4, <2>4, OwnerIsFound
<1>5. ASSUME NEW g \in G
      PROVE  \E k \in Rank : g \in Indices(rs[k])
  <2>1. g \in 0 .. n - 1
    BY <1>2, <1>3
  <2>2. QED
    BY <2>1 DEF Partition
<1>6. FindsOwners(rs, G)
  BY <1>4, <1>5 DEF FindsOwners
<1>7. GhostDataIsValid(rs, G)
  <2>1. getOverlappingRangeIds(rs) = {}
    BY <1>1, SweepFindsOverlap
  <2>2. \A g \in G : EndsBeyond(rs, g) # {}
    BY <1>4, <1>5
  <2>3. ASSUME NEW k \in d_ghostProcIds(rs, G)
        PROVE  checkContiguity({localGhostIndex(G, g) : g \in GhostsOf(rs, G, k)})
    <3>1. k \in Rank
      BY <1>4, <1>5 DEF d_ghostProcIds
    <3>2. G \in SUBSET Nat /\ IsFiniteSet(G)
      BY <1>3, SomeGhosts
    <3>3. \A g \in G : procIdOf(rs, g) = k <=> g \in Indices(rs[k])
      BY <1>6, <3>1 DEF FindsOwners
    <3>4. QED
      BY <1>1, <3>1, <3>2, <3>3, NumbersAreContiguous
  <2>4. QED
    BY <1>3, <2>1, <2>2, <2>3 DEF GhostDataIsValid
<1>8. QED
  BY <1>1, <1>6, <1>7

\* The indices that are asked for, in the numbers of their owner.
LEMMA ListsAre ==
  ASSUME NEW rs \in [Rank -> RangeInputs], RangesOK(rs),
         NEW G \in SUBSET (0 .. MaxIndex), NEW k
  PROVE  LET W == GhostsOf(rs, G, k)
             list == localIndicesForGhostProc(rs, G, k)
         IN  /\ Cardinality(W) \in Nat
             /\ DOMAIN list = 1 .. Cardinality(W) /\ Len(list) = Cardinality(W)
             /\ list = [i \in 1 .. Cardinality(W) |-> Ascending(W)[i] - rs[k].first]
             /\ \A i \in DOMAIN list : Ascending(W)[i] \in W
             /\ \A g \in W : \E i \in DOMAIN list : list[i] = g - rs[k].first
<1> DEFINE W == GhostsOf(rs, G, k)
           list == localIndicesForGhostProc(rs, G, k)
           m == Cardinality(W)
<1>1. W \in SUBSET Int /\ IsFiniteSet(W)
  <2>1. W \in SUBSET (0 .. MaxIndex)
    BY DEF GhostsOf
  <2>2. QED
    BY <2>1, SomeGhosts, MaxIndexAssumption
<1>2. /\ m \in Nat
      /\ Ascending(W) \in [1 .. m -> W]
      /\ \A x \in W : \E i \in 1 .. m : Ascending(W)[i] = x
  <2> HIDE DEF W
  <2>1. QED
    BY <1>1, AscendingLists
<1>3. list = [i \in 1 .. m |-> Ascending(W)[i] - rs[k].first]
  <2>1. DOMAIN Ascending(W) = 1 .. m
    BY <1>2
  <2>2. QED
    BY <2>1 DEF localIndicesForGhostProc
<1>4. DOMAIN list = 1 .. m /\ Len(list) = m
  <2> HIDE DEF list, W
  <2>1. QED
    BY <1>2, <1>3
<1>5. QED
  <2> HIDE DEF list, W
  <2>1. \A i \in DOMAIN list : Ascending(W)[i] \in W
    BY <1>2, <1>4
  <2>2. \A g \in W : \E i \in DOMAIN list : list[i] = g - rs[k].first
    BY <1>2, <1>3, <1>4
  <2>3. QED
    BY <1>2, <1>3, <1>4, <2>1, <2>2 DEF list, W

-----------------------------------------------------------------------------
\* The inductive invariant holds initially.
LEMMA InitHolds == Init => IInv
<1> SUFFICES ASSUME Init PROVE IInv
  OBVIOUS
<1>1. /\ \A p \in Rank : pc[p] = "start" /\ ghosts[p] = {}
      /\ \A p \in Rank : counts[p] = NoData /\ lists[p] = NoData /\ targets[p] = NoData
  BY DEF Init
<1>2. Typed
  BY DEF Init, Typed, PCs
<1>3. CheckedInv /\ CountsInv /\ ListsInv /\ PlacesInv /\ TargetsInv
  BY <1>1 DEF CheckedInv, CountsInv, ListsInv, PlacesInv, TargetsInv, Past
<1>4. LegalInv
  BY <1>1 DEF LegalInv, Running
<1>5. QED
  BY <1>2, <1>3, <1>4 DEF IInv

\* Nothing is sent before all ranks passed the allgather.
LEMMA NothingSent ==
  ASSUME IInv, NEW p \in Rank, pc[p] \in {"start", "allgather"}
  PROVE  \A q \in Rank :
           /\ counts[q] = NoData /\ lists[q] = NoData /\ targets[q] = NoData
           /\ pc[q] \notin {"counts", "indices", "done"}
<1>1. ~RequestersKnown
  BY DEF RequestersKnown
<1>2. \A q \in Rank : counts[q] = NoData /\ pc[q] \notin {"counts", "indices", "done"}
  BY <1>1 DEF IInv, CountsInv, PlacesInv
<1>3. QED
  BY <1>2 DEF IInv, ListsInv, TargetsInv

\* The check of the owned range keeps the invariant: nobody has sent anything.
LEMMA CheckOwnedRangeKeeps ==
  ASSUME IInv, NEW p \in Rank, CheckOwnedRange(p)
  PROVE  IInv'
<1>1. /\ pc[p] = "start" /\ Running
      /\ pc' = [pc EXCEPT ![p] = IF ranges[p].second >= ranges[p].first THEN "allgather" ELSE "threw"]
      /\ UNCHANGED <<ranges, ghosts, counts, lists, targets>>
  BY DEF CheckOwnedRange, goto
<1>2. \A q \in Rank : /\ counts[q] = NoData /\ lists[q] = NoData /\ targets[q] = NoData
                      /\ pc[q] \notin {"counts", "indices", "done"}
  BY <1>1, NothingSent
<1>3. Typed /\ pc' \in [Rank -> PCs] /\ \A q \in Rank : q # p => pc'[q] = pc[q]
  BY <1>1 DEF IInv, Typed, PCs
<1>4. pc'[p] = IF ranges[p].second >= ranges[p].first THEN "allgather" ELSE "threw"
  BY <1>1, <1>3 DEF Typed
<1>5. Typed'
  BY <1>1, <1>3 DEF Typed
<1>6. /\ \A q \in Rank : pc'[q] \notin {"counts", "indices", "done"}
      /\ \A q \in Rank : counts'[q] = NoData /\ lists'[q] = NoData /\ targets'[q] = NoData
      /\ ranges' = ranges /\ ghosts' = ghosts
  BY <1>1, <1>2, <1>3, <1>4
<1>7. CheckedInv'
  <2> SUFFICES ASSUME NEW q \in Rank
               PROVE  /\ pc'[q] \in Past \cup {"allgather"} => ranges[q].first <= ranges[q].second
                      /\ pc'[q] \in Past =>
                           RangesOK(ranges) /\ GhostDataIsValid(ranges, ghosts[q])
    BY <1>6 DEF CheckedInv
  <2>1. CASE q = p
    <3>1. ranges[p].first \in Int /\ ranges[p].second \in Int
      BY <1>3, RangeBounds DEF Typed
    <3>2. QED
      BY <1>4, <2>1, <3>1 DEF Past
  <2>2. CASE q # p
    BY <1>3, <2>2 DEF IInv, CheckedInv
  <2>3. QED
    BY <2>1, <2>2
<1>8. CountsInv' /\ ListsInv' /\ PlacesInv' /\ TargetsInv'
  BY <1>6 DEF CountsInv, ListsInv, PlacesInv, TargetsInv
<1>9. LegalInv'
  <2> SUFFICES ASSUME Legal' PROVE Running'
    BY DEF LegalInv
  <2>1. ranges[p].first <= ranges[p].second
    BY <1>6 DEF Legal
  <2>2. ranges[p].first \in Int /\ ranges[p].second \in Int
    BY <1>3, RangeBounds DEF Typed
  <2>3. pc'[p] # "threw"
    BY <1>4, <2>1, <2>2
  <2>4. QED
    BY <1>1, <1>3, <2>3 DEF Running
<1>10. QED
  BY <1>5, <1>7, <1>8, <1>9 DEF IInv

\* So does the evaluation of the ghost indices, which establishes what is checked there.
LEMMA EvaluateGhostDataKeeps ==
  ASSUME IInv, NEW p \in Rank, NEW G \in GhostChoices(p), EvaluateGhostData(p, G)
  PROVE  IInv'
<1>1. /\ pc[p] = "allgather" /\ Running /\ Gathered
      /\ ghosts' = [ghosts EXCEPT ![p] = G]
      /\ pc' = [pc EXCEPT ![p] = IF GhostDataIsValid(ranges, G) THEN "nbx" ELSE "threw"]
      /\ UNCHANGED <<ranges, counts, lists, targets>>
  BY DEF EvaluateGhostData, goto
<1>2. \A q \in Rank : /\ counts[q] = NoData /\ lists[q] = NoData /\ targets[q] = NoData
                      /\ pc[q] \notin {"counts", "indices", "done"}
  BY <1>1, NothingSent
<1>3. /\ Typed /\ pc' \in [Rank -> PCs] /\ G \in SUBSET (0 .. MaxIndex)
      /\ ghosts' \in [Rank -> SUBSET (0 .. MaxIndex)]
      /\ \A q \in Rank : q # p => pc'[q] = pc[q] /\ ghosts'[q] = ghosts[q]
  BY <1>1 DEF IInv, Typed, PCs, GhostChoices
<1>4. /\ pc'[p] = IF GhostDataIsValid(ranges, G) THEN "nbx" ELSE "threw"
      /\ ghosts'[p] = G
  BY <1>1, <1>3 DEF Typed
<1>5. Typed'
  BY <1>1, <1>3 DEF Typed
<1>6. /\ \A q \in Rank : pc'[q] \notin {"counts", "indices", "done"}
      /\ \A q \in Rank : counts'[q] = NoData /\ lists'[q] = NoData /\ targets'[q] = NoData
      /\ ranges' = ranges
  BY <1>1, <1>2, <1>3, <1>4
<1>7. \A q \in Rank : ranges[q].first <= ranges[q].second
  <2>1. \A q \in Rank : pc[q] \in Past \cup {"allgather"}
    BY <1>1, <1>3 DEF Gathered, Running, Typed, PCs, Past
  <2>2. QED
    BY <2>1 DEF IInv, CheckedInv
<1>8. RangesOK(ranges)
  BY <1>3, <1>7, TypedRangesOK DEF Typed
<1>9. CheckedInv'
  <2> SUFFICES ASSUME NEW q \in Rank, pc'[q] \in Past
               PROVE  GhostDataIsValid(ranges, ghosts'[q])
    BY <1>6, <1>7, <1>8 DEF CheckedInv
  <2>1. CASE q = p
    BY <1>4, <2>1 DEF Past
  <2>2. CASE q # p
    BY <1>3, <2>2 DEF IInv, CheckedInv
  <2>3. QED
    BY <2>1, <2>2
<1>10. CountsInv' /\ ListsInv' /\ PlacesInv' /\ TargetsInv'
  BY <1>6 DEF CountsInv, ListsInv, PlacesInv, TargetsInv
<1>11. LegalInv'
  <2> SUFFICES ASSUME Legal' PROVE Running'
    BY DEF LegalInv
  <2>1. Partition(ranges) /\ \A g \in G : g < nGlobalIndices(ranges)
    <3>1. Partition(ranges)' /\ (\A q \in Rank : \A g \in ghosts[q] : g < nGlobalIndices(ranges))'
      BY DEF Legal, SomeRangesOverlap, Partition, Disjoint
    <3>2. QED
      BY <1>4, <1>6, <3>1
  <2>2. GhostDataIsValid(ranges, G)
    BY <1>3, <2>1, PartitionIsValid DEF Typed
  <2>3. QED
    BY <1>1, <1>3, <1>4, <2>2 DEF Running
<1>12. QED
  BY <1>5, <1>9, <1>10, <1>11 DEF IInv

\* The ranks that a rank asks, and what it asks them for.
LEMMA PastFacts ==
  ASSUME IInv, NEW p \in Rank, pc[p] \in Past \/ counts[p] # NoData
  PROVE  /\ ranges \in [Rank -> RangeInputs] /\ RangesOK(ranges)
         /\ ghosts[p] \in SUBSET (0 .. MaxIndex)
         /\ GhostDataIsValid(ranges, ghosts[p])
         /\ Procs(p) \subseteq Rank
         /\ \A k \in Procs(p) : NumGhosts(p, k) \in 1 .. MaxIndex
<1>1. /\ ranges \in [Rank -> RangeInputs] /\ RangesOK(ranges)
      /\ ghosts[p] \in SUBSET (0 .. MaxIndex) /\ GhostDataIsValid(ranges, ghosts[p])
  BY DEF IInv, Typed, CheckedInv
<1>2. QED
  BY <1>1, ValidGhosts DEF Procs, NumGhosts

\* Steps that leave the inputs alone.
InputsKept == ranges' = ranges /\ ghosts' = ghosts

\* What depends on the inputs only is kept with them.
LEMMA KeptFacts ==
  ASSUME InputsKept
  PROVE  /\ \A p : Procs(p)' = Procs(p) /\ Lists(p)' = Lists(p)
         /\ \A p : d_targetProcIds(p)' = d_targetProcIds(p)
         /\ \A p, k : NumGhosts(p, k)' = NumGhosts(p, k)
         /\ \A p : InOwnersRange(p)' <=> InOwnersRange(p)
         /\ Legal' <=> Legal
BY DEF InputsKept, Procs, Lists, d_targetProcIds, NumGhosts, InOwnersRange, Legal, SomeRangesOverlap

\* Sending the counts keeps the invariant.
LEMMA SendCountsKeeps ==
  ASSUME IInv, NEW p \in Rank, NEW late \in SUBSET Rank, SendCounts(p, late)
  PROVE  IInv'
<1> DEFINE count == [k \in Procs(p) |-> NumGhosts(p, IF k \in late THEN Max(Procs(p)) ELSE k)]
<1>1. /\ pc[p] = "nbx" /\ Running /\ RequestersKnown
      /\ EagerSend => late = {}
      /\ late \subseteq Procs(p)
      /\ counts' = [counts EXCEPT ![p] = count]
      /\ pc' = [pc EXCEPT ![p] = "counts"]
      /\ InputsKept /\ UNCHANGED <<lists, targets>>
  BY DEF SendCounts, goto, Procs, InputsKept
<1>2. Typed /\ \A q \in Rank : q # p => pc'[q] = pc[q] /\ counts'[q] = counts[q]
  BY <1>1 DEF IInv, Typed
<1>3. pc'[p] = "counts" /\ counts'[p] = count
  BY <1>1, <1>2 DEF Typed
<1>4. Typed'
  <2>1. pc' \in [Rank -> PCs]
    BY <1>1, <1>2 DEF Typed, PCs
  <2>2. counts' = [q \in Rank |-> counts'[q]]
    BY <1>1, <1>2 DEF Typed
  <2>3. QED
    BY <1>1, <1>2, <2>1, <2>2 DEF Typed, InputsKept
<1>5. RequestersKnown'
  BY <1>1, <1>2, <1>3 DEF RequestersKnown
<1>6. Procs(p) \subseteq Rank /\ RangesOK(ranges) /\ GhostDataIsValid(ranges, ghosts[p])
  BY <1>1, PastFacts DEF Past
<1>7. CheckedInv'
  <2> SUFFICES ASSUME NEW q \in Rank
               PROVE  /\ pc'[q] \in Past \cup {"allgather"} => ranges[q].first <= ranges[q].second
                      /\ pc'[q] \in Past \/ counts'[q] # NoData =>
                           RangesOK(ranges) /\ GhostDataIsValid(ranges, ghosts[q])
    BY <1>1 DEF CheckedInv, InputsKept
  <2>1. CASE q = p
    BY <1>1, <1>6, <2>1 DEF IInv, CheckedInv, Past
  <2>2. CASE q # p
    BY <1>2, <2>2 DEF IInv, CheckedInv
  <2>3. QED
    BY <2>1, <2>2
<1>8. CountsInv'
  <2> SUFFICES ASSUME NEW q \in Rank, counts'[q] # NoData
               PROVE  /\ pc'[q] \in Sent
                      /\ DOMAIN counts'[q] = Procs(q)
                      /\ \A k \in Procs(q) : \E j \in Procs(q) :
                           counts'[q][k] = NumGhosts(q, j) /\ (EagerSend => j = k)
    BY <1>1, <1>5, KeptFacts DEF CountsInv
  <2>1. CASE q = p
    <3>1. ASSUME NEW k \in Procs(p)
          PROVE  \E j \in Procs(p) : count[k] = NumGhosts(p, j) /\ (EagerSend => j = k)
      <4>1. k \in late => Max(Procs(p)) \in Procs(p)
        BY <1>6, MaxOfRanks
      <4>2. QED
        BY <1>1, <4>1
    <3>2. QED
      BY <1>3, <2>1, <3>1 DEF Sent
  <2>2. CASE q # p
    BY <1>2, <2>2 DEF IInv, CountsInv
  <2>3. QED
    BY <2>1, <2>2
<1>9. lists[p] = NoData
  BY <1>1 DEF IInv, ListsInv, Sent
<1>10. ListsInv'
  <2> SUFFICES ASSUME NEW q \in Rank, lists[q] # NoData
               PROVE  /\ pc'[q] \in Sent \ {"counts"} /\ counts'[q] # NoData
                      /\ lists[q] = Lists(q) /\ InOwnersRange(q)
    BY <1>1, KeptFacts DEF ListsInv
  <2>1. QED
    BY <1>2, <1>9 DEF IInv, ListsInv
<1>11. PlacesInv'
  <2> SUFFICES ASSUME NEW q \in Rank
               PROVE  /\ pc'[q] \in {"counts", "indices", "done"} =>
                           (Procs(q) # {} => counts'[q] # NoData)
                      /\ pc'[q] \in {"indices", "done"} => (Procs(q) # {} => lists[q] # NoData)
    BY <1>1, <1>5, KeptFacts DEF PlacesInv
  <2>1. CASE q = p
    <3>1. DOMAIN count = Procs(p) /\ DOMAIN NoData = {}
      BY DEF NoData
    <3>2. QED
      BY <1>3, <2>1, <3>1
  <2>2. CASE q # p
    BY <1>2, <2>2 DEF IInv, PlacesInv
  <2>3. QED
    BY <2>1, <2>2
<1>12. TargetsInv'
  <2> SUFFICES ASSUME NEW q \in Rank
               PROVE  IF pc'[q] = "done"
                      THEN /\ \A s \in d_targetProcIds(q) : q \in DOMAIN lists[s]
                           /\ targets[q] = [s \in d_targetProcIds(q) |->
                                              Received(lists[s][q], counts'[s][q])]
                      ELSE targets[q] = NoData
    BY <1>1, KeptFacts DEF TargetsInv, Received
  <2>1. CASE pc'[q] = "done"
    <3>1. q # p /\ pc[q] = "done"
      BY <1>2, <1>3, <2>1
    <3>2. p \notin d_targetProcIds(q)
      BY <1>9, <3>1 DEF IInv, TargetsInv, NoData
    <3>3. \A s \in d_targetProcIds(q) : counts'[s] = counts[s]
      BY <1>2, <3>2 DEF d_targetProcIds
    <3>4. QED
      BY <2>1, <3>1, <3>3 DEF IInv, TargetsInv
  <2>2. CASE pc'[q] # "done"
    BY <1>1, <1>2, <2>2 DEF IInv, TargetsInv
  <2>3. QED
    BY <2>1, <2>2
<1>13. LegalInv'
  BY <1>1, <1>2, <1>3 DEF LegalInv, Running
<1>14. QED
  BY <1>4, <1>7, <1>8, <1>10, <1>11, <1>12, <1>13 DEF IInv

\* If the search finds the owners, what is asked for is in the owners' ranges.
LEMMA OwnersListed ==
  ASSUME IInv, NEW p \in Rank, pc[p] \in Past, FindsOwners(ranges, ghosts[p])
  PROVE  InOwnersRange(p)
<1> SUFFICES ASSUME NEW k \in Procs(p), NEW i \in DOMAIN Lists(p)[k]
             PROVE  Lists(p)[k][i] \in 0 .. Size(ranges[k]) - 1
  BY DEF InOwnersRange
<1> DEFINE W == GhostsOf(ranges, ghosts[p], k)
           g == Ascending(W)[i]
<1>1. k \in Rank /\ RangesOK(ranges)
      /\ ranges \in [Rank -> RangeInputs] /\ ghosts[p] \in SUBSET (0 .. MaxIndex)
  BY PastFacts
<1>2. Lists(p)[k] = localIndicesForGhostProc(ranges, ghosts[p], k)
  BY DEF Lists
<1>3. g \in W /\ Lists(p)[k][i] = g - ranges[k].first
  <2> DEFINE list == localIndicesForGhostProc(ranges, ghosts[p], k)
  <2>1. /\ DOMAIN list = 1 .. Cardinality(W)
        /\ list = [j \in 1 .. Cardinality(W) |-> Ascending(W)[j] - ranges[k].first]
        /\ \A j \in DOMAIN list : Ascending(W)[j] \in W
    BY <1>1, ListsAre
  <2>2. Lists(p)[k] = list /\ i \in DOMAIN list
    BY <1>2
  <2> HIDE DEF list, W
  <2>3. QED
    BY <2>1, <2>2
<1>4. g \in ghosts[p] /\ g \in Indices(ranges[k])
  BY <1>1, <1>3 DEF GhostsOf, FindsOwners
<1>5. ranges[k].first \in Nat /\ ranges[k].second \in Nat
  BY <1>1 DEF RangesOK
<1> HIDE DEF g
<1>6. QED
  BY <1>3, <1>4, <1>5 DEF Indices, Size

\* In a legal construction the search finds the owners.
LEMMA LegalFindsOwners ==
  ASSUME IInv, Legal, NEW p \in Rank
  PROVE  FindsOwners(ranges, ghosts[p])
BY LegalIsPartition, PartitionIsValid DEF IInv, Typed

\* Sending the lists keeps the invariant.
LEMMA SendLocalIndicesKeeps ==
  ASSUME IInv, NEW p \in Rank, SendLocalIndices(p)
  PROVE  IInv'
<1>1. /\ pc[p] = "counts" /\ Running
      /\ lists' = [lists EXCEPT ![p] = IF InOwnersRange(p) THEN Lists(p) ELSE NoData]
      /\ pc' = [pc EXCEPT ![p] = IF InOwnersRange(p) THEN "indices" ELSE "threw"]
      /\ InputsKept /\ UNCHANGED <<counts, targets>>
  <2> DEFINE procs == d_ghostProcIds(ranges, ghosts[p])
             list == [k \in procs |-> localIndicesForGhostProc(ranges, ghosts[p], k)]
             ok == \A k \in procs : \A i \in DOMAIN list[k] :
                     list[k][i] \in 0 .. Size(ranges[k]) - 1
  <2>1. list = Lists(p) /\ (ok <=> InOwnersRange(p))
    BY DEF Lists, InOwnersRange, Procs
  <2>2. /\ pc[p] = "counts" /\ Running
        /\ lists' = [lists EXCEPT ![p] = IF ok THEN list ELSE NoData]
        /\ pc' = [pc EXCEPT ![p] = IF ok THEN "indices" ELSE "threw"]
        /\ UNCHANGED <<ranges, ghosts, counts, targets>>
    BY DEF SendLocalIndices, goto
  <2> HIDE DEF list, ok
  <2>3. QED
    BY <2>1, <2>2 DEF InputsKept
<1>2. Typed /\ \A q \in Rank : q # p => pc'[q] = pc[q] /\ lists'[q] = lists[q]
  BY <1>1 DEF IInv, Typed
<1>3. /\ pc'[p] = IF InOwnersRange(p) THEN "indices" ELSE "threw"
      /\ lists'[p] = IF InOwnersRange(p) THEN Lists(p) ELSE NoData
  BY <1>1, <1>2 DEF Typed
<1>4. Typed'
  <2>1. pc' \in [Rank -> PCs]
    BY <1>1, <1>2 DEF Typed, PCs
  <2>2. lists' = [q \in Rank |-> lists'[q]]
    BY <1>1, <1>2 DEF Typed
  <2>3. QED
    BY <1>1, <1>2, <2>1, <2>2 DEF Typed, InputsKept
<1>5. RequestersKnown /\ RequestersKnown'
  <2>1. RequestersKnown
    BY <1>1 DEF IInv, PlacesInv
  <2>2. QED
    BY <1>2, <1>3, <2>1 DEF RequestersKnown
<1>6. Procs(p) \subseteq Rank /\ RangesOK(ranges) /\ GhostDataIsValid(ranges, ghosts[p])
  BY <1>1, PastFacts DEF Past
<1>7. CheckedInv'
  <2> SUFFICES ASSUME NEW q \in Rank
               PROVE  /\ pc'[q] \in Past \cup {"allgather"} => ranges[q].first <= ranges[q].second
                      /\ pc'[q] \in Past \/ counts[q] # NoData =>
                           RangesOK(ranges) /\ GhostDataIsValid(ranges, ghosts[q])
    BY <1>1 DEF CheckedInv, InputsKept
  <2>1. CASE q = p
    BY <1>1, <1>6, <2>1 DEF IInv, CheckedInv, Past
  <2>2. CASE q # p
    BY <1>2, <2>2 DEF IInv, CheckedInv
  <2>3. QED
    BY <2>1, <2>2
<1>8. CountsInv'
  <2> SUFFICES ASSUME NEW q \in Rank, counts[q] # NoData
               PROVE  /\ pc'[q] \in Sent
                      /\ DOMAIN counts[q] = Procs(q)
                      /\ \A k \in Procs(q) : \E j \in Procs(q) :
                           counts[q][k] = NumGhosts(q, j) /\ (EagerSend => j = k)
    BY <1>1, <1>5, KeptFacts DEF CountsInv
  <2>1. QED
    BY <1>2, <1>3 DEF IInv, CountsInv, Sent
<1>9. lists[p] = NoData
  BY <1>1 DEF IInv, ListsInv, Sent
<1>10. ListsInv'
  <2> SUFFICES ASSUME NEW q \in Rank, lists'[q] # NoData
               PROVE  /\ pc'[q] \in Sent \ {"counts"} /\ counts[q] # NoData
                      /\ lists'[q] = Lists(q) /\ InOwnersRange(q)
    BY <1>1, KeptFacts DEF ListsInv
  <2>1. CASE q = p
    <3>1. lists'[p] = Lists(p) /\ InOwnersRange(p) /\ pc'[p] = "indices"
      BY <1>3, <2>1
    <3>2. Procs(p) # {}
      <4> SUFFICES ASSUME Procs(p) = {} PROVE Lists(p) = NoData
        BY <2>1, <3>1
      <4>1. QED
        BY DEF Lists, NoData
    <3>3. counts[p] # NoData
      BY <1>1, <3>2 DEF IInv, PlacesInv
    <3>4. QED
      BY <2>1, <3>1, <3>3 DEF Sent
  <2>2. CASE q # p
    BY <1>2, <2>2 DEF IInv, ListsInv
  <2>3. QED
    BY <2>1, <2>2
<1>11. PlacesInv'
  <2> SUFFICES ASSUME NEW q \in Rank
               PROVE  /\ pc'[q] \in {"counts", "indices", "done"} =>
                           (Procs(q) # {} => counts[q] # NoData)
                      /\ pc'[q] \in {"indices", "done"} => (Procs(q) # {} => lists'[q] # NoData)
    BY <1>1, <1>5, KeptFacts DEF PlacesInv
  <2>1. CASE q = p
    <3>1. DOMAIN Lists(p) = Procs(p) /\ DOMAIN NoData = {}
      BY DEF NoData, Lists
    <3>2. Procs(p) # {} => counts[p] # NoData
      BY <1>1 DEF IInv, PlacesInv
    <3>3. QED
      BY <1>3, <2>1, <3>1, <3>2
  <2>2. CASE q # p
    BY <1>2, <2>2 DEF IInv, PlacesInv
  <2>3. QED
    BY <2>1, <2>2
<1>12. TargetsInv'
  <2> SUFFICES ASSUME NEW q \in Rank
               PROVE  IF pc'[q] = "done"
                      THEN /\ \A s \in d_targetProcIds(q) : q \in DOMAIN lists'[s]
                           /\ targets[q] = [s \in d_targetProcIds(q) |->
                                              Received(lists'[s][q], counts[s][q])]
                      ELSE targets[q] = NoData
    BY <1>1, KeptFacts DEF TargetsInv, Received
  <2>1. CASE pc'[q] = "done"
    <3>1. q # p /\ pc[q] = "done"
      BY <1>2, <1>3, <2>1
    <3>2. p \notin d_targetProcIds(q)
      BY <1>9, <3>1 DEF IInv, TargetsInv, NoData
    <3>3. \A s \in d_targetProcIds(q) : lists'[s] = lists[s]
      BY <1>2, <3>2 DEF d_targetProcIds
    <3>4. QED
      BY <2>1, <3>1, <3>3 DEF IInv, TargetsInv
  <2>2. CASE pc'[q] # "done"
    BY <1>1, <1>2, <2>2 DEF IInv, TargetsInv
  <2>3. QED
    BY <2>1, <2>2
<1>13. LegalInv'
  <2> SUFFICES ASSUME Legal PROVE Running'
    BY <1>1, KeptFacts DEF LegalInv
  <2>1. InOwnersRange(p)
    BY <1>1, LegalFindsOwners, OwnersListed DEF Past
  <2>2. QED
    BY <1>1, <1>2, <1>3, <2>1 DEF Running
<1>14. QED
  BY <1>4, <1>7, <1>8, <1>10, <1>11, <1>12, <1>13 DEF IInv

\* What a target has got, if the counts were copied: the list that was sent.
LEMMA ReceivedIsSent ==
  ASSUME IInv, EagerSend, NEW q \in Rank, NEW p \in Rank, p \in DOMAIN lists[q]
  PROVE  /\ p \in Procs(q) /\ InOwnersRange(q)
         /\ lists[q][p] = Lists(q)[p]
         /\ counts[q][p] = NumGhosts(q, p) /\ Len(lists[q][p]) = NumGhosts(q, p)
         /\ NumGhosts(q, p) \in Nat
         /\ Received(lists[q][p], counts[q][p]) = Lists(q)[p]
<1>1. lists[q] # NoData
  BY DEF NoData
<1>2. lists[q] = Lists(q) /\ InOwnersRange(q) /\ counts[q] # NoData
  BY <1>1 DEF IInv, ListsInv
<1>3. p \in Procs(q)
  BY <1>2 DEF Lists
<1>4. counts[q][p] = NumGhosts(q, p)
  BY <1>2, <1>3 DEF IInv, CountsInv
<1> DEFINE list == localIndicesForGhostProc(ranges, ghosts[q], p)
           W == GhostsOf(ranges, ghosts[q], p)
<1>5. Lists(q)[p] = list
  BY <1>3 DEF Lists
<1>6. /\ NumGhosts(q, p) \in Nat
      /\ DOMAIN list = 1 .. NumGhosts(q, p) /\ Len(list) = NumGhosts(q, p)
      /\ list = [i \in 1 .. NumGhosts(q, p) |-> Ascending(W)[i] - ranges[p].first]
  BY <1>2, PastFacts, ListsAre DEF NumGhosts
<1>7. Received(list, NumGhosts(q, p)) = list
  <2> HIDE DEF list
  <2>1. list = [i \in 1 .. NumGhosts(q, p) |-> list[i]]
    BY <1>6
  <2>2. QED
    BY <1>6, <2>1 DEF Received
<1>8. QED
  BY <1>2, <1>3, <1>4, <1>5, <1>6, <1>7

\* Receiving the lists keeps the invariant: no check there fails if MPI_Isend copies.
LEMMA RecvLocalIndicesKeeps ==
  ASSUME IInv, NEW p \in Rank, RecvLocalIndices(p)
  PROVE  IInv'
<1> DEFINE got == [q \in d_targetProcIds(p) |-> Received(lists[q][p], counts[q][p])]
           ok == \A q \in d_targetProcIds(p) :
                   /\ Len(lists[q][p]) <= counts[q][p]
                   /\ \A i \in DOMAIN got[q] : got[q][i] < Size(ranges[p])
<1>1. /\ pc[p] = "indices" /\ Running
      /\ \A q \in d_targetProcIds(p) : p \in DOMAIN lists[q]
      /\ targets' = [targets EXCEPT ![p] = IF ok THEN got ELSE NoData]
      /\ pc' = [pc EXCEPT ![p] = IF ok THEN "done" ELSE "threw"]
      /\ InputsKept /\ UNCHANGED <<counts, lists>>
  BY DEF RecvLocalIndices, ListsCame, goto, InputsKept
<1>2. EagerSend => ok
  <2> SUFFICES ASSUME EagerSend, NEW q \in d_targetProcIds(p)
               PROVE  /\ Len(lists[q][p]) <= counts[q][p]
                      /\ \A i \in DOMAIN got[q] : got[q][i] < Size(ranges[p])
    OBVIOUS
  <2>1. q \in Rank /\ p \in DOMAIN lists[q]
    BY <1>1 DEF d_targetProcIds
  <2>2. /\ p \in Procs(q) /\ InOwnersRange(q)
        /\ counts[q][p] = NumGhosts(q, p) /\ Len(lists[q][p]) = NumGhosts(q, p)
        /\ NumGhosts(q, p) \in Nat
        /\ got[q] = Lists(q)[p]
    BY <2>1, ReceivedIsSent
  <2>3. ranges[p].first \in Int /\ ranges[p].second \in Int
    BY RangeBounds DEF IInv, Typed
  <2>4. Size(ranges[p]) \in Int
    BY <2>3 DEF Size
  <2> HIDE DEF got
  <2>5. \A i \in DOMAIN got[q] : got[q][i] < Size(ranges[p])
    BY <2>2, <2>4 DEF InOwnersRange
  <2>6. QED
    BY <2>2, <2>5
<1> HIDE DEF ok
<1>3. Typed /\ \A q \in Rank : q # p => pc'[q] = pc[q] /\ targets'[q] = targets[q]
  BY <1>1 DEF IInv, Typed
<1>4. /\ pc'[p] = IF ok THEN "done" ELSE "threw"
      /\ targets'[p] = IF ok THEN got ELSE NoData
  BY <1>1, <1>3 DEF Typed
<1>5. Typed'
  <2>1. pc' \in [Rank -> PCs]
    BY <1>1, <1>3 DEF Typed, PCs
  <2>2. targets' = [q \in Rank |-> targets'[q]]
    BY <1>1, <1>3 DEF Typed
  <2>3. QED
    BY <1>1, <1>3, <2>1, <2>2 DEF Typed, InputsKept
<1>6. RequestersKnown /\ RequestersKnown'
  <2>1. RequestersKnown
    BY <1>1 DEF IInv, PlacesInv
  <2>2. QED
    BY <1>3, <1>4, <2>1 DEF RequestersKnown
<1>7. RangesOK(ranges) /\ GhostDataIsValid(ranges, ghosts[p])
  BY <1>1, PastFacts DEF Past
<1>8. CheckedInv'
  <2> SUFFICES ASSUME NEW q \in Rank
               PROVE  /\ pc'[q] \in Past \cup {"allgather"} => ranges[q].first <= ranges[q].second
                      /\ pc'[q] \in Past \/ counts[q] # NoData =>
                           RangesOK(ranges) /\ GhostDataIsValid(ranges, ghosts[q])
    BY <1>1 DEF CheckedInv, InputsKept
  <2>1. CASE q = p
    BY <1>1, <1>7, <2>1 DEF IInv, CheckedInv, Past
  <2>2. CASE q # p
    BY <1>3, <2>2 DEF IInv, CheckedInv
  <2>3. QED
    BY <2>1, <2>2
<1>9. \A q \in Rank : /\ pc[q] \in Sent => pc'[q] \in Sent
                      /\ pc[q] \in Sent \ {"counts"} => pc'[q] \in Sent \ {"counts"}
                      /\ pc'[q] \in {"counts", "indices", "done"} =>
                           pc[q] \in {"counts", "indices", "done"}
                      /\ pc'[q] \in {"indices", "done"} => pc[q] \in {"indices", "done"}
  BY <1>1, <1>3, <1>4 DEF Sent
<1>10. CountsInv' /\ ListsInv' /\ PlacesInv'
  <2>1. CountsInv'
    BY <1>1, <1>6, <1>9, KeptFacts DEF IInv, CountsInv
  <2>2. ListsInv'
    BY <1>1, <1>9, KeptFacts DEF IInv, ListsInv
  <2>3. PlacesInv'
    BY <1>1, <1>6, <1>9, KeptFacts DEF IInv, PlacesInv
  <2>4. QED
    BY <2>1, <2>2, <2>3
<1>11. TargetsInv'
  <2> SUFFICES ASSUME NEW q \in Rank
               PROVE  IF pc'[q] = "done"
                      THEN /\ \A s \in d_targetProcIds(q) : q \in DOMAIN lists[s]
                           /\ targets'[q] = [s \in d_targetProcIds(q) |->
                                               Received(lists[s][q], counts[s][q])]
                      ELSE targets'[q] = NoData
    BY <1>1, KeptFacts DEF TargetsInv, Received
  <2>1. CASE q = p
    BY <1>1, <1>4, <2>1
  <2>2. CASE q # p
    BY <1>3, <2>2 DEF IInv, TargetsInv
  <2>3. QED
    BY <2>1, <2>2
<1>12. LegalInv'
  BY <1>1, <1>2, <1>3, <1>4 DEF LegalInv, Running
<1>13. QED
  BY <1>5, <1>8, <1>10, <1>11, <1>12 DEF IInv

\* A step that changes nothing keeps the invariant.
LEMMA StutterKeeps == IInv /\ UNCHANGED vars => IInv'
<1> SUFFICES ASSUME IInv, UNCHANGED vars PROVE IInv'
  OBVIOUS
<1>1. ranges' = ranges /\ ghosts' = ghosts /\ pc' = pc
      /\ counts' = counts /\ lists' = lists /\ targets' = targets
  BY DEF vars
<1>2. InputsKept
  BY <1>1 DEF InputsKept
<1>3. Typed' /\ CheckedInv'
  BY <1>1 DEF IInv, Typed, CheckedInv
<1>4. CountsInv' /\ ListsInv' /\ PlacesInv'
  BY <1>1, <1>2, KeptFacts DEF IInv, CountsInv, ListsInv, PlacesInv, RequestersKnown
<1>5. TargetsInv'
  BY <1>1, <1>2, KeptFacts DEF IInv, TargetsInv
<1>6. LegalInv'
  BY <1>1, <1>2, KeptFacts DEF IInv, LegalInv, Running
<1>7. QED
  BY <1>3, <1>4, <1>5, <1>6 DEF IInv

\* Every step keeps the invariant.
LEMMA NextKeeps == IInv /\ [Next]_vars => IInv'
<1> SUFFICES ASSUME IInv, [Next]_vars PROVE IInv'
  OBVIOUS
<1>1. ASSUME NEW p \in Rank, Step(p)
      PROVE  IInv'
  BY <1>1, CheckOwnedRangeKeeps, EvaluateGhostDataKeeps, SendCountsKeeps,
     SendLocalIndicesKeeps, RecvLocalIndicesKeeps DEF Step
<1>2. CASE Terminated \/ UNCHANGED vars
  BY <1>2, StutterKeeps DEF Terminated
<1>3. QED
  BY <1>1, <1>2 DEF Next

-----------------------------------------------------------------------------
\* The inductive invariant holds in every state.
THEOREM Invariance == Spec => []IInv
<1>1. Init => IInv
  BY InitHolds
<1>2. IInv /\ [Next]_vars => IInv'
  BY NextKeeps
<1>3. QED
  BY <1>1, <1>2, PTL DEF Spec

\* A function on 1 .. n is a sequence.
LEMMA FunctionIsSeq ==
  ASSUME NEW T, NEW n \in Nat, NEW f \in [1 .. n -> T]
  PROVE  f \in Seq(T)
OBVIOUS

\* A rank asks ranks only; each count that is sent is between one and the number of indices,
\* and each number in a list is one that an owner may have, whatever ranges and ghost indices
\* the callers pass.
THEOREM TypeCorrect == Spec => []TypeOK
<1>1. IInv => TypeOK
  <2> SUFFICES ASSUME IInv PROVE TypeOK
    OBVIOUS
  <2>1. ranges \in [Rank -> RangeInputs] /\ ghosts \in [Rank -> SUBSET (0 .. MaxIndex)]
        /\ pc \in [Rank -> PCs]
    BY DEF IInv, Typed
  <2>2. ASSUME NEW p \in Rank, NEW q \in DOMAIN counts[p]
        PROVE  q \in Rank /\ counts[p][q] \in 1 .. MaxIndex
    <3>1. counts[p] # NoData
      BY <2>2 DEF NoData
    <3>2. q \in Procs(p) /\ \E j \in Procs(p) : counts[p][q] = NumGhosts(p, j)
      BY <2>2, <3>1 DEF IInv, CountsInv
    <3>3. QED
      BY <3>1, <3>2, PastFacts
  <2>3. ASSUME NEW p \in Rank, NEW q \in DOMAIN lists[p]
        PROVE  q \in Rank /\ lists[p][q] \in Seq(0 .. MaxIndex)
    <3>1. lists[p] # NoData
      BY <2>3 DEF NoData
    <3>2. lists[p] = Lists(p) /\ InOwnersRange(p) /\ counts[p] # NoData
      BY <3>1 DEF IInv, ListsInv
    <3>3. q \in Procs(p) /\ Lists(p)[q] = localIndicesForGhostProc(ranges, ghosts[p], q)
      BY <2>3, <3>2 DEF Lists
    <3>4. /\ ranges \in [Rank -> RangeInputs] /\ RangesOK(ranges)
          /\ ghosts[p] \in SUBSET (0 .. MaxIndex) /\ q \in Rank
      BY <3>2, <3>3, PastFacts
    <3> DEFINE list == Lists(p)[q]
               m == Cardinality(GhostsOf(ranges, ghosts[p], q))
               x == [i \in 1 .. m |-> Ascending(GhostsOf(ranges, ghosts[p], q))[i] - ranges[q].first]
    <3>5. m \in Nat /\ list = x
      <4>1. m \in Nat /\ localIndicesForGhostProc(ranges, ghosts[p], q) = x
        BY <3>4, ListsAre
      <4> HIDE DEF m, x
      <4>2. QED
        BY <3>3, <4>1
    <3>6. \A i \in 1 .. m : list[i] \in 0 .. MaxIndex
      <4>1. DOMAIN list = 1 .. m
        BY <3>5
      <4>2. \A i \in 1 .. m : list[i] \in 0 .. Size(ranges[q]) - 1
        <5> HIDE DEF list
        <5>1. QED
          BY <3>2, <3>3, <4>1 DEF InOwnersRange, list
      <4>3. ranges[q].first \in 0 .. MaxIndex /\ ranges[q].second \in 0 .. MaxIndex
        BY <3>4, RangeBounds
      <4> HIDE DEF list
      <4>4. QED
        BY <4>2, <4>3, MaxIndexAssumption DEF Size
    <3>7. list = [i \in 1 .. m |-> list[i]]
      BY <3>5
    <3> HIDE DEF list, m, x
    <3>8. list \in Seq(0 .. MaxIndex)
      <4>1. list \in [1 .. m -> 0 .. MaxIndex]
        BY <3>6, <3>7
      <4>2. m \in Nat
        BY <3>5
      <4>3. QED
        BY <4>1, <4>2, FunctionIsSeq
    <3>9. QED
      BY <3>2, <3>4, <3>8 DEF list
  <2>4. ASSUME NEW p \in Rank
        PROVE  DOMAIN targets[p] \subseteq Rank
    BY DEF IInv, TargetsInv, NoData, d_targetProcIds
  <2>5. QED
    BY <2>1, <2>2, <2>3, <2>4 DEF TypeOK
<1>2. QED
  BY <1>1, Invariance, PTL

\* No rank goes on from the checks when two ranges share an index: the sweep over the ends of
\* the ranges finds every overlap, for any number of ranks and any ranges.
THEOREM OverlapAlwaysCaught == Spec => []OverlapIsCaught
<1>1. IInv => OverlapIsCaught
  <2> SUFFICES ASSUME IInv, NEW p \in Rank, pc[p] \notin {"start", "allgather", "threw"}
               PROVE  ~SomeRangesOverlap
    BY DEF OverlapIsCaught
  <2>1. pc[p] \in Past
    BY DEF IInv, Typed, PCs, Past
  <2>2. RangesOK(ranges) /\ getOverlappingRangeIds(ranges) = {}
    BY <2>1, PastFacts DEF GhostDataIsValid
  <2>3. QED
    BY <2>2, SweepFindsOverlap DEF Disjoint, SomeRangesOverlap
<1>2. QED
  BY <1>1, Invariance, PTL

\* No check, receive or truncation ends a legal construction, if MPI_Isend copies the counts.
THEOREM LegalGoesOn == EagerSend => (Spec => []LegalNeverThrows)
<1> SUFFICES ASSUME EagerSend PROVE Spec => []LegalNeverThrows
  OBVIOUS
<1>1. IInv => LegalNeverThrows
  BY DEF IInv, LegalInv, LegalNeverThrows
<1>2. QED
  BY <1>1, Invariance, PTL

\* When all ranks are done, the search has found the owner of every ghost index.
LEMMA DoneFindsOwners ==
  ASSUME IInv, \A p \in Rank : pc[p] = "done", NEW q \in Rank
  PROVE  FindsOwners(ranges, ghosts[q])
<1>1. /\ RangesOK(ranges) /\ ranges \in [Rank -> RangeInputs]
      /\ ghosts[q] \in SUBSET (0 .. MaxIndex) /\ Procs(q) \subseteq Rank
      /\ GhostDataIsValid(ranges, ghosts[q])
  BY PastFacts DEF Past
<1>2. Disjoint(ranges)
  BY <1>1, SweepFindsOverlap DEF GhostDataIsValid
<1>3. ASSUME NEW g \in ghosts[q]
      PROVE  procIdOf(ranges, g) \in Rank /\ g \in Indices(ranges[procIdOf(ranges, g)])
  <2> DEFINE k == procIdOf(ranges, g)
             list == localIndicesForGhostProc(ranges, ghosts[q], k)
  <2>1. k \in Procs(q) /\ k \in Rank /\ g \in GhostsOf(ranges, ghosts[q], k)
    BY <1>1 DEF Procs, d_ghostProcIds, GhostsOf
  <2>2. InOwnersRange(q)
    BY <2>1 DEF IInv, PlacesInv, ListsInv
  <2>3. PICK i \in DOMAIN list : list[i] = g - ranges[k].first
    BY <1>1, <2>1, ListsAre
  <2>4. Lists(q)[k] = list
    BY <2>1 DEF Lists
  <2>5. g - ranges[k].first \in 0 .. Size(ranges[k]) - 1
    <3> HIDE DEF list
    <3>1. QED
      BY <2>1, <2>2, <2>3, <2>4 DEF InOwnersRange
  <2>6. ranges[k].first \in Int /\ ranges[k].second \in Int /\ g \in Int
    BY <1>1, <2>1, MaxIndexAssumption DEF RangesOK
  <2> HIDE DEF k
  <2>7. g \in Indices(ranges[k])
    BY <2>5, <2>6 DEF Indices, Size
  <2>8. QED
    BY <2>1, <2>7 DEF k
<1>4. QED
  BY <1>2, <1>3 DEF FindsOwners, Disjoint

\* A pattern that all ranks completed has no ghost index without an owner.
THEOREM NoGhostIsOrphan == Spec => []NoOrphanGhost
<1>1. IInv => NoOrphanGhost
  BY DoneFindsOwners DEF NoOrphanGhost, FindsOwners, OwnerOf
<1>2. QED
  BY <1>1, Invariance, PTL

\* Each rank keeps, for every rank that lists its indices as ghosts, exactly those indices in
\* its own numbers and in the other's order, if MPI_Isend copies the counts.
THEOREM TargetsAreDual == EagerSend => (Spec => []PatternIsDual)
<1> SUFFICES ASSUME EagerSend PROVE Spec => []PatternIsDual
  OBVIOUS
<1>1. IInv => PatternIsDual
  <2> DEFINE wanted(p, q) == ghosts[q] \cap Indices(ranges[p])
  <2> SUFFICES ASSUME IInv, NEW p \in Rank, pc[p] = "done",
                      Legal \/ \A q \in Rank : pc[q] = "done"
               PROVE  /\ DOMAIN targets[p] = {q \in Rank : \E g \in ghosts[q] : p \in OwnerOf(g)}
                      /\ \A q \in DOMAIN targets[p] :
                           targets[p][q] = [i \in 1 .. Cardinality(wanted(p, q)) |->
                                              Ascending(wanted(p, q))[i] - ranges[p].first]
    BY DEF PatternIsDual
  <2>1. \A q \in Rank : FindsOwners(ranges, ghosts[q])
    BY DoneFindsOwners, LegalFindsOwners
  <2>2. \A q \in Rank : GhostsOf(ranges, ghosts[q], p) = wanted(p, q)
    BY <2>1 DEF FindsOwners, GhostsOf
  <2>3. /\ \A q \in d_targetProcIds(p) : p \in DOMAIN lists[q]
        /\ targets[p] = [q \in d_targetProcIds(p) |-> Received(lists[q][p], counts[q][p])]
    BY DEF IInv, TargetsInv
  <2>4. d_targetProcIds(p) = {q \in Rank : \E g \in ghosts[q] : p \in OwnerOf(g)}
    BY <2>1 DEF d_targetProcIds, d_ghostProcIds, FindsOwners, OwnerOf
  <2>5. ASSUME NEW q \in d_targetProcIds(p)
        PROVE  targets[p][q] = [i \in 1 .. Cardinality(wanted(p, q)) |->
                                  Ascending(wanted(p, q))[i] - ranges[p].first]
    <3>1. q \in Rank /\ p \in DOMAIN lists[q]
      BY <2>3 DEF d_targetProcIds
    <3>2. targets[p][q] = Lists(q)[p] /\ p \in Procs(q)
      BY <2>3, <3>1, ReceivedIsSent
    <3>3. lists[q] # NoData
      BY <3>1 DEF NoData
    <3>4. counts[q] # NoData
      BY <3>1, <3>3 DEF IInv, ListsInv
    <3>5. ranges \in [Rank -> RangeInputs] /\ RangesOK(ranges)
          /\ ghosts[q] \in SUBSET (0 .. MaxIndex)
      BY <3>1, <3>4, PastFacts
    <3>6. Lists(q)[p] = localIndicesForGhostProc(ranges, ghosts[q], p)
      BY <3>2 DEF Lists
    <3>7. localIndicesForGhostProc(ranges, ghosts[q], p)
            = [i \in 1 .. Cardinality(GhostsOf(ranges, ghosts[q], p)) |->
                 Ascending(GhostsOf(ranges, ghosts[q], p))[i] - ranges[p].first]
      BY <3>5, ListsAre
    <3>8. QED
      BY <2>2, <3>1, <3>2, <3>6, <3>7
  <2>6. QED
    BY <2>3, <2>4, <2>5
<1>2. QED
  BY <1>1, Invariance, PTL

-----------------------------------------------------------------------------
\* A rank waits for a rank that has called less of the constructor: one that is not
\* behind has sent the message that it waits for, and posted the receive.
LEMMA WaitsBehind == IInv => WaitsOnlyForRanksBehind
<1> SUFFICES ASSUME IInv, Running, NEW p \in Rank, pc[p] # "done", ~GoesOn(p)
             PROVE  \E q \in Rank : Behind(q, p)
  BY DEF WaitsOnlyForRanksBehind
<1>1. \A q \in Rank : pc[q] \in PCs \ {"threw"}
  BY DEF IInv, Typed, Running
<1>2. CASE pc[p] = "allgather"
  BY <1>2 DEF GoesOn, Gathered, Behind
<1>3. CASE pc[p] = "nbx"
  BY <1>3 DEF GoesOn, RequestersKnown, Behind
<1>4. CASE pc[p] = "counts"
  <2>1. CASE ~CountsMatched(p)
    <3>1. PICK k \in Procs(p) : ~PostedCount(k, p)
      BY <2>1 DEF CountsMatched, Procs
    <3>2. k \in Rank /\ p \in d_targetProcIds(k)
      BY <1>4, <3>1, PastFacts DEF Past, d_targetProcIds, Procs
    <3>3. pc[k] \notin {"counts", "indices", "done"}
      BY <3>1, <3>2 DEF PostedCount
    <3>4. Behind(k, p)
      BY <1>1, <1>4, <3>2, <3>3 DEF Behind, PCs
    <3>5. QED
      BY <3>2, <3>4
  <2>2. CASE ~CountsCame(p)
    <3>1. PICK q \in d_targetProcIds(p) : p \notin DOMAIN counts[q]
      BY <2>2 DEF CountsCame
    <3>2. q \in Rank /\ p \in Procs(q)
      BY DEF d_targetProcIds, Procs
    <3>3. pc[q] \notin {"counts", "indices", "done"}
      BY <3>1, <3>2 DEF IInv, PlacesInv, CountsInv
    <3>4. Behind(q, p)
      BY <1>1, <1>4, <3>2, <3>3 DEF Behind, PCs
    <3>5. QED
      BY <3>2, <3>4
  <2>3. QED
    BY <1>4, <2>1, <2>2 DEF GoesOn
<1>5. CASE pc[p] = "indices"
  <2>1. CASE ~ListsMatched(p)
    <3>1. PICK k \in DOMAIN lists[p] : ~PostedList(k, p)
      BY <2>1 DEF ListsMatched
    <3>2. k \in Procs(p)
      <4>1. lists[p] # NoData
        BY <3>1 DEF NoData
      <4>2. QED
        BY <3>1, <4>1 DEF IInv, ListsInv, Lists
    <3>3. k \in Rank /\ p \in d_targetProcIds(k)
      BY <1>5, <3>2, PastFacts DEF Past, d_targetProcIds, Procs
    <3>4. pc[k] \notin {"indices", "done"}
      BY <3>1, <3>3 DEF PostedList
    <3>5. Behind(k, p)
      BY <1>1, <1>5, <3>3, <3>4 DEF Behind, PCs
    <3>6. QED
      BY <3>3, <3>5
  <2>2. CASE ~ListsCame(p)
    <3>1. PICK q \in d_targetProcIds(p) : p \notin DOMAIN lists[q]
      BY <2>2 DEF ListsCame
    <3>2. q \in Rank /\ p \in Procs(q)
      BY DEF d_targetProcIds, Procs
    <3>3. lists[q] # NoData => p \in DOMAIN lists[q]
      BY <3>2 DEF IInv, ListsInv, Lists
    <3>4. pc[q] \notin {"indices", "done"}
      BY <3>1, <3>2, <3>3 DEF IInv, PlacesInv
    <3>5. Behind(q, p)
      BY <1>1, <1>5, <3>2, <3>4 DEF Behind, PCs
    <3>6. QED
      BY <3>2, <3>5
  <2>3. QED
    BY <1>5, <2>1, <2>2 DEF GoesOn
<1>6. QED
  BY <1>1, <1>2, <1>3, <1>4, <1>5 DEF PCs, GoesOn

\* The collective calls and the two rounds of messages never leave the ranks waiting in a
\* circle, for all ranges and ghost indices, also if MPI_Isend copies no message (EagerLimit = 0)
\* and every send waits for its receiver.
THEOREM ConstructorsWaitForThoseBehind == Spec => []WaitsOnlyForRanksBehind
<1>1. QED
  BY Invariance, WaitsBehind, PTL

\* The receives of a completed construction hold the lists that were sent.
LEMMA TargetsAreLists ==
  ASSUME EagerSend, IInv, \A q \in Rank : pc[q] = "done", NEW p \in Rank
  PROVE  targets[p] = [q \in d_targetProcIds(p) |->
                         localIndicesForGhostProc(ranges, ghosts[q], p)]
<1>1. /\ \A q \in d_targetProcIds(p) : p \in DOMAIN lists[q]
      /\ targets[p] = [q \in d_targetProcIds(p) |-> Received(lists[q][p], counts[q][p])]
  BY DEF IInv, TargetsInv
<1>2. ASSUME NEW q \in d_targetProcIds(p)
      PROVE  Received(lists[q][p], counts[q][p]) = localIndicesForGhostProc(ranges, ghosts[q], p)
  <2>1. q \in Rank /\ p \in DOMAIN lists[q]
    BY <1>1 DEF d_targetProcIds
  <2>2. targets[p][q] = Lists(q)[p] /\ p \in Procs(q)
    BY <1>1, <2>1, ReceivedIsSent
  <2>3. QED
    BY <1>1, <2>2 DEF Lists
<1>3. QED
  BY <1>1, <1>2

\* What the ghost exchange assumes of a pattern is what the constructors of all ranks leave.
THEOREM ConstructorsMakePatterns == EagerSend => (Spec => []CompletedPatternIsUsable)
<1> SUFFICES ASSUME EagerSend PROVE Spec => []CompletedPatternIsUsable
  OBVIOUS
<1>1. IInv => CompletedPatternIsUsable
  <2> SUFFICES ASSUME IInv, \A p \in Rank : pc[p] = "done"
               PROVE  /\ IsPattern(ranges, ghosts)
                      /\ \A p \in Rank :
                           targets[p] = [q \in d_targetProcIds(p) |->
                                           localIndicesForGhostProc(ranges, ghosts[q], p)]
    BY DEF CompletedPatternIsUsable
  <2>1. \A p \in Rank : FindsOwners(ranges, ghosts[p])
    BY DoneFindsOwners
  <2>2. \A p \in Rank : RangesOK(ranges) /\ ghosts[p] \in SUBSET (0 .. MaxIndex)
    BY PastFacts DEF Past
  <2>3. \A p \in Rank : ghosts[p] \in SUBSET Nat /\ IsFiniteSet(ghosts[p])
    BY <2>2, SomeGhosts, MaxIndexAssumption
  <2>4. IsPattern(ranges, ghosts)
    <3>1. \A k \in Rank : /\ ranges[k].first \in Nat /\ ranges[k].second \in Nat
                          /\ ranges[k].first <= ranges[k].second
      BY <2>2 DEF RangesOK
    <3>2. Disjoint(ranges)
      <4>1. 0 \in Rank
        BY NumProcsAssumption DEF Rank
      <4>2. GhostDataIsValid(ranges, ghosts[0]) /\ RangesOK(ranges)
        BY <4>1, PastFacts DEF Past
      <4>3. QED
        BY <4>2, SweepFindsOverlap DEF GhostDataIsValid
    <3>3. \A p \in Rank : \A g \in ghosts[p] :
            procIdOf(ranges, g) \in Rank /\ g \in Indices(ranges[procIdOf(ranges, g)])
      <4> SUFFICES ASSUME NEW p \in Rank, NEW g \in ghosts[p]
                   PROVE  /\ procIdOf(ranges, g) \in Rank
                          /\ g \in Indices(ranges[procIdOf(ranges, g)])
        OBVIOUS
      <4>1. PICK k \in Rank : g \in Indices(ranges[k])
        BY <2>1 DEF FindsOwners
      <4>2. procIdOf(ranges, g) = k
        BY <2>1, <4>1 DEF FindsOwners
      <4>3. QED
        BY <4>1, <4>2
    <3>4. QED
      BY <2>3, <3>1, <3>2, <3>3 DEF IsPattern, Disjoint
  <2>5. QED
    BY <2>4, TargetsAreLists
<1>2. QED
  BY <1>1, Invariance, PTL
=============================================================================
