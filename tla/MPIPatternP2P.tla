--------------------------- MODULE MPIPatternP2P ---------------------------
(***************************************************************************)
(* The construction of a MPIPatternP2P on all ranks of a communicator      *)
(* (utils/MPIPatternP2P.t.cc): the allgather of the owned ranges, the      *)
(* checks, the discovery of the target ranks (MPIRequestersNBX), and the   *)
(* two rounds of point-to-point messages that tell every owner how many    *)
(* and which of its indices are ghosts elsewhere.                          *)
(*                                                                         *)
(* Model simplifications.  getRequestingRankIds is the exchange that       *)
(* MPIRequestersNBX implements: it returns the dual after every rank has   *)
(* called.  Messages of one pair of ranks and one tag are not overtaken    *)
(* (MPI): the two rounds use the same tag and never mix.  An exception on  *)
(* one rank ends the job.  The ghost indices are chosen when the           *)
(* constructor first uses them.                                            *)
(***************************************************************************)
EXTENDS PatternData, Sequences

CONSTANTS
  MaxIndex,     \* bound: global indices and range limits are at most this
  RangeInputs,  \* the ranges a caller may pass
  EagerLimit    \* MPI_Isend copies a message of at most this many numbers before
                \* it returns; a longer one waits for its receiver

ASSUME MaxIndexAssumption == MaxIndex \in Nat
ASSUME RangeAssumption == RangeInputs \subseteq [first : 0 .. MaxIndex, second : 0 .. MaxIndex]
ASSUME EagerAssumption == EagerLimit \in Nat

EagerSend == EagerLimit >= 1

VARIABLES
  ranges,   \* ranges[p]: locallyOwnedRange passed by p
  ghosts,   \* ghosts[p]: ghostIndices passed by p
  pc,       \* pc[p]: where p is in its constructor
  counts,   \* counts[p][q]: the count message p sent to q, if it sent one
  lists,    \* lists[p][q]: the local indices p sent to q, if it sent them
  targets   \* targets[p][q]: what p keeps for its target q

vars == <<ranges, ghosts, pc, counts, lists, targets>>

NoData == [q \in {} |-> 0]

Running == \A p \in Rank : pc[p] # "threw"

Init ==
  /\ ranges \in [Rank -> RangeInputs]
  /\ ghosts = [p \in Rank |-> {}]
  /\ pc = [p \in Rank |-> "start"]
  /\ counts = [p \in Rank |-> NoData]
  /\ lists = [p \in Rank |-> NoData]
  /\ targets = [p \in Rank |-> NoData]

goto(p, label) == pc' = [pc EXCEPT ![p] = label]

\* The range of this rank is checked, then gathered.
CheckOwnedRange(p) ==
  /\ Running
  /\ pc[p] = "start"
  /\ goto(p, IF ranges[p].second >= ranges[p].first THEN "allgather" ELSE "threw")
  /\ UNCHANGED <<ranges, ghosts, counts, lists, targets>>

Gathered == \A q \in Rank : pc[q] # "start"

\* The throwException calls between the allgather and the NBX exchange.
GhostDataIsValid(rs, G) ==
  /\ getOverlappingRangeIds(rs) = {}
  /\ \A g \in G : g < nGlobalIndices(rs)
  /\ \A g \in G : EndsBeyond(rs, g) # {}
  /\ \A k \in d_ghostProcIds(rs, G) :
       checkContiguity({localGhostIndex(G, g) : g \in GhostsOf(rs, G, k)})

EvaluateGhostData(p, G) ==
  /\ Running
  /\ pc[p] = "allgather"
  /\ Gathered
  /\ ghosts' = [ghosts EXCEPT ![p] = G]
  /\ goto(p, IF GhostDataIsValid(ranges, G) THEN "nbx" ELSE "threw")
  /\ UNCHANGED <<ranges, counts, lists, targets>>

NumGhosts(p, k) == Cardinality(GhostsOf(ranges, ghosts[p], k))

\* getRequestingRankIds returns; the counts are sent.  The send buffer is a
\* variable of one turn of the loop: a message that MPI has not copied by
\* then carries what the slot holds later, the count of the last turn.
RequestersKnown == \A q \in Rank : pc[q] \notin {"start", "allgather"}

\* Fault: every owner is sent the count of the last one.
SendLastCount(p, late) ==
  LET procs == d_ghostProcIds(ranges, ghosts[p])
  IN  /\ Running
      /\ pc[p] = "nbx"
      /\ RequestersKnown
      /\ late = {}
      /\ counts' = [counts EXCEPT ![p] = [k \in procs |-> NumGhosts(p, Max(procs))]]
      /\ goto(p, "counts")
      /\ UNCHANGED <<ranges, ghosts, lists, targets>>

SendCounts(p, late) ==
  LET procs == d_ghostProcIds(ranges, ghosts[p])
  IN  /\ Running
      /\ pc[p] = "nbx"
      /\ RequestersKnown
      /\ EagerSend => late = {}
      /\ late \subseteq procs
      /\ counts' = [counts EXCEPT ![p] =
                      [k \in procs |-> NumGhosts(p, IF k \in late THEN Max(procs) ELSE k)]]
      /\ goto(p, "counts")
      /\ UNCHANGED <<ranges, ghosts, lists, targets>>

\* Fault: the last rank is not found among those that ask p.
MissesLastRank(p) == {q \in Rank : q # NumProcs - 1 /\ p \in d_ghostProcIds(ranges, ghosts[q])}

d_targetProcIds(p) == {q \in Rank : p \in d_ghostProcIds(ranges, ghosts[q])}

\* k has posted its receives of the counts, or of the lists, and one is from p.
PostedCount(k, p) == pc[k] \in {"counts", "indices", "done"} /\ p \in d_targetProcIds(k)
PostedList(k, p) == pc[k] \in {"indices", "done"} /\ p \in d_targetProcIds(k)

\* MPI_Waitall on the sends returns: each has its receive, or was copied.
CountsMatched(p) == \A k \in d_ghostProcIds(ranges, ghosts[p]) : PostedCount(k, p)
ListsMatched(p) == \A k \in DOMAIN lists[p] : PostedList(k, p)
CountsTaken(p) == EagerSend \/ CountsMatched(p)
ListsTaken(p) == \A k \in DOMAIN lists[p] : Len(lists[p][k]) <= EagerLimit \/ PostedList(k, p)

\* MPI_Waitall on the receives returns: what p receives was sent.
CountsCame(p) == \A q \in d_targetProcIds(p) : p \in DOMAIN counts[q]
ListsCame(p) == \A q \in d_targetProcIds(p) : p \in DOMAIN lists[q]

\* Fault: the local index is not checked against the owner's range.
SendUncheckedIndices(p) ==
  LET procs == d_ghostProcIds(ranges, ghosts[p])
  IN  /\ Running
      /\ pc[p] = "counts"
      /\ CountsTaken(p)
      /\ CountsCame(p)
      /\ lists' = [lists EXCEPT ![p] =
                     [k \in procs |-> localIndicesForGhostProc(ranges, ghosts[p], k)]]
      /\ goto(p, "indices")
      /\ UNCHANGED <<ranges, ghosts, counts, targets>>

\* Both Waitalls of the counts are over; BUG2 is checked for every index
\* before it is sent (a difference that is negative wraps and is too large).
SendLocalIndices(p) ==
  LET procs == d_ghostProcIds(ranges, ghosts[p])
      list == [k \in procs |-> localIndicesForGhostProc(ranges, ghosts[p], k)]
      ok == \A k \in procs : \A i \in DOMAIN list[k] :
              list[k][i] \in 0 .. Size(ranges[k]) - 1
  IN  /\ Running
      /\ pc[p] = "counts"
      /\ CountsTaken(p)
      /\ CountsCame(p)
      /\ lists' = [lists EXCEPT ![p] = IF ok THEN list ELSE NoData]
      /\ goto(p, IF ok THEN "indices" ELSE "threw")
      /\ UNCHANGED <<ranges, ghosts, counts, targets>>

\* A receive of n entries takes a shorter message, leaving zeros behind it;
\* a longer message is a truncation error, which MPI makes fatal.
Received(list, n) == [i \in 1 .. n |-> IF i \in DOMAIN list THEN list[i] ELSE 0]

RecvLocalIndices(p) ==
  LET from == d_targetProcIds(p)
      got == [q \in from |-> Received(lists[q][p], counts[q][p])]
      ok == \A q \in from : /\ Len(lists[q][p]) <= counts[q][p]
                            /\ \A i \in DOMAIN got[q] : got[q][i] < Size(ranges[p])
  IN  /\ Running
      /\ pc[p] = "indices"
      /\ ListsTaken(p)
      /\ ListsCame(p)
      /\ targets' = [targets EXCEPT ![p] = IF ok THEN got ELSE NoData]
      /\ goto(p, IF ok THEN "done" ELSE "threw")
      /\ UNCHANGED <<ranges, ghosts, counts, lists>>

\* Every rank returned from the constructor, or the job ended.
Terminated ==
  /\ ~Running \/ \A p \in Rank : pc[p] = "done"
  /\ UNCHANGED vars

\* Callers never list an index they own.
GhostChoices(p) == SUBSET ((0 .. MaxIndex) \ Indices(ranges[p]))

Step(p) ==
  \/ CheckOwnedRange(p)
  \/ \E G \in GhostChoices(p) : EvaluateGhostData(p, G)
  \/ \E late \in SUBSET Rank : SendCounts(p, late)
  \/ SendLocalIndices(p)
  \/ RecvLocalIndices(p)

Next == (\E p \in Rank : Step(p)) \/ Terminated

Spec == Init /\ [][Next]_vars
-----------------------------------------------------------------------------
PCs == {"start", "allgather", "nbx", "counts", "indices", "done", "threw"}

\* Shapes of the constructor's data, on every rank.
TypeOK ==
  /\ ranges \in [Rank -> RangeInputs]
  /\ ghosts \in [Rank -> SUBSET (0 .. MaxIndex)]
  /\ pc \in [Rank -> PCs]
  /\ \A p \in Rank :
       /\ DOMAIN counts[p] \subseteq Rank
       /\ DOMAIN lists[p] \subseteq Rank
       /\ DOMAIN targets[p] \subseteq Rank
       /\ \A q \in DOMAIN counts[p] : counts[p][q] \in 1 .. MaxIndex
       /\ \A q \in DOMAIN lists[p] : lists[p][q] \in Seq(0 .. MaxIndex)

\* Who really owns an index.
OwnerOf(g) == {k \in Rank : g \in Indices(ranges[k])}

\* Two non-empty ranges share an index.
SomeRangesOverlap ==
  \E j, k \in Rank : j # k /\ Indices(ranges[j]) \cap Indices(ranges[k]) # {}

\* The documented precondition: the ranges are a partition of 0 .. N-1 in any
\* order of the ranks, and ghost indices are below N.
Legal ==
  /\ \A p \in Rank : ranges[p].first <= ranges[p].second
  /\ ~SomeRangesOverlap
  /\ UNION {Indices(ranges[p]) : p \in Rank} = 0 .. nGlobalIndices(ranges) - 1
  /\ \A p \in Rank : \A g \in ghosts[p] : g < nGlobalIndices(ranges)

\* The sweep finds an overlap whenever there is one: no rank goes on.
OverlapIsCaught ==
  (\E p \in Rank : pc[p] \notin {"start", "allgather", "threw"}) => ~SomeRangesOverlap

\* No check, receive or truncation stops a legal construction.
LegalNeverThrows == ~Running => ~Legal

\* What the constructors agree on: p keeps, for every rank q that lists
\* indices of p as ghosts, exactly those indices in p's numbering and in q's
\* order, and nothing for other ranks.  If the input is not legal this holds
\* when all ranks have returned (some rank may return before another throws).
PatternIsDual ==
  \A p \in Rank : pc[p] = "done" /\ (Legal \/ \A q \in Rank : pc[q] = "done") =>
    /\ DOMAIN targets[p] = {q \in Rank : \E g \in ghosts[q] : p \in OwnerOf(g)}
    /\ \A q \in DOMAIN targets[p] :
         targets[p][q] = [i \in 1 .. Cardinality(ghosts[q] \cap Indices(ranges[p])) |->
                            Ascending(ghosts[q] \cap Indices(ranges[p]))[i]
                              - ranges[p].first]

\* A pattern that all ranks completed has no ghost index without an owner.
NoOrphanGhost ==
  (\A p \in Rank : pc[p] = "done") =>
    \A p \in Rank : \A g \in ghosts[p] : OwnerOf(g) # {}

\* MPIPatternP2P.h on d_numOwnedIndicesForTargetProcs: "how many locally owned
\* indices" of this rank each target processor needs.  A count that is sent is
\* that number.
TargetCountsAreRight ==
  \A q \in Rank : \A p \in DOMAIN counts[q] :
    counts[q][p] = Cardinality(ghosts[q] \cap Indices(ranges[p]))

\* A rank whose next call of the constructor returns, also if MPI copies no message and
\* every send waits for its receiver.
GoesOn(p) ==
  \/ pc[p] = "start"
  \/ pc[p] = "allgather" /\ Gathered
  \/ pc[p] = "nbx" /\ RequestersKnown
  \/ pc[p] = "counts" /\ CountsMatched(p) /\ CountsCame(p)
  \/ pc[p] = "indices" /\ ListsMatched(p) /\ ListsCame(p)

\* q has not made as many of the constructor's calls as p.
Behind(q, p) ==
  \/ pc[q] = "start" /\ pc[p] # "start"
  \/ pc[q] = "allgather" /\ pc[p] \notin {"start", "allgather"}
  \/ pc[q] = "nbx" /\ pc[p] \in {"counts", "indices", "done"}
  \/ pc[q] = "counts" /\ pc[p] \in {"indices", "done"}

\* Every receive of the two rounds of messages has its send on a rank that is found
\* to be a requester, and every send that waits for its receiver has its receive: a
\* rank waits only for ranks that are behind it, so the rank that is furthest behind
\* goes on, unless an exception ends the job.
WaitsOnlyForRanksBehind ==
  Running => \A p \in Rank :
    pc[p] = "done" \/ GoesOn(p) \/ \E q \in Rank : Behind(q, p)

\* What the ghost exchange takes for granted of the pattern of a vector: ranges and
\* ghost indices that form a pattern, and for each target the entries that the
\* target expects, in its order.
CompletedPatternIsUsable ==
  (\A p \in Rank : pc[p] = "done") =>
    /\ IsPattern(ranges, ghosts)
    /\ \A p \in Rank :
         targets[p] = [q \in d_targetProcIds(p) |-> localIndicesForGhostProc(ranges, ghosts[q], p)]
=============================================================================
