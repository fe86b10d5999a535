------------------------- MODULE MPICommunicatorP2P -------------------------
(***************************************************************************)
(* The ghost exchange of distributed vectors (utils/MPICommunicatorP2P.cc, *)
(* src/linAlg/MultiVector.t.cc), on top of completed MPIPatternP2P's.      *)
(*                                                                         *)
(* Every vector has a communicator object of its own, with its own request *)
(* arrays and its own d_sendRecvBuffer, but all of them use the same MPI   *)
(* communicator and, on the default channel, the same two tags.  MPI pairs *)
(* the k-th send of a rank to another with the k-th receive posted there   *)
(* for that tag; nothing else tells the messages of two vectors apart.     *)
(*                                                                         *)
(* All ranks run the same program, a sequence of operations [op, v].  The  *)
(* end of an operation may be separated from its beginning, with work on   *)
(* other vectors in between.                                               *)
(*                                                                         *)
(* Model simplifications.  Host memory, block size 1, one channel.  The    *)
(* send buffer is kept as one segment for each target processor, which is  *)
(* how both its users cut it.  MPI reads the data of a send (Inject) once  *)
(* the receive is posted, or earlier if it copies the message, at any time *)
(* until the wait on it returns; it writes the data of a receive (Deliver) *)
(* at any time until the wait on that returns.                             *)
(***************************************************************************)
EXTENDS PatternData, Sequences

CONSTANTS
  Vec,          \* the distributed vectors
  OwnedRanges,  \* OwnedRanges[v]: d_allOwnedRanges of v's pattern
  GhostIndices, \* GhostIndices[v][p]: d_ghostIndices of v's pattern on p
  Programs,     \* the sequences of operations that callers run
  EagerLimit,   \* MPI may copy a message of at most this many entries before a
                \* receive is posted for it; a longer one waits for its receiver
  Computed(_, _, _)  \* Computed(p, n, g): what the caller on p writes into entry
                     \* g of a vector at the operation after the first n

ASSUME EagerAssumption == EagerLimit \in Nat

\* How often the first n operations of a program are op on v.
Count(prog, n, op, v) == Cardinality({m \in 1 .. n : prog[m] = [op |-> op, v |-> v]})

\* An update is ended after it was begun.
ASSUME ProgramAssumption ==
  \A prog \in Programs :
    /\ Len(prog) \in Nat
    /\ \A n \in 0 .. Len(prog) : \A v \in Vec :
         Count(prog, n, "updateEnd", v) <= Count(prog, n, "updateBegin", v)

\* The pattern of a vector was completed by the constructors of all ranks, which
\* MPIPatternP2P shows to leave this (CompletedPatternIsUsable).
ASSUME PatternAssumption == \A v \in Vec : IsPattern(OwnedRanges[v], GhostIndices[v])

ASSUME ComputedAssumption ==
  \A prog \in Programs : \A v \in Vec : \A p \in Rank : \A n \in 0 .. Len(prog) - 1 :
    \A g \in Indices(OwnedRanges[v][p]) \cup GhostIndices[v][p] : Computed(p, n, g) \in Int

Scatter == "MPI_P2P_COMMUNICATOR_SCATTER_TAG"
Gather == "MPI_P2P_COMMUNICATOR_GATHER_TAG"
Tag == {Scatter, Gather}

VARIABLES
  program,  \* what this job runs
  pos,      \* pos[p]: number of operations p has completed
  owned,    \* owned[p][v][i]: locally owned entry i of v on p
  ghost,    \* ghost[p][v][j]: entry j of the ghost section of v on p
  buffer,   \* buffer[p][v][q]: d_sendRecvBuffer of v, the segment of target q
  sends,    \* sends[p][q][t]: sends from p to q that are not received yet
  receives  \* receives[p][q][t]: receives posted by p that nothing matched yet

vars == <<program, pos, owned, ghost, buffer, sends, receives>>
heap == <<owned, ghost, buffer>>
mpi == <<sends, receives>>

-----------------------------------------------------------------------------
\* The getters of v's pattern on rank p.
getGhostProcIds(p, v) == d_ghostProcIds(OwnedRanges[v], GhostIndices[v][p])
getTargetProcIds(p, v) == {q \in Rank : p \in getGhostProcIds(q, v)}
NumGhosts(p, v, k) == Cardinality(GhostsOf(OwnedRanges[v], GhostIndices[v][p], k))
getOwnedLocalIndicesForTargetProcs(p, v, q) ==
  localIndicesForGhostProc(OwnedRanges[v], GhostIndices[v][q], p)

localOwned(p, v) == 0 .. Size(OwnedRanges[v][p]) - 1
localGhost(p, v) == 0 .. Cardinality(GhostIndices[v][p]) - 1

\* recvArrayStartPtr - and sendArrayStartPtr when accumulating - walk through
\* the ghost section, one ghost processor after the other.
GhostSegmentStart(p, v, k) ==
  MapThenSumSet(LAMBDA j : NumGhosts(p, v, j), {j \in getGhostProcIds(p, v) : j < k})

GhostSegment(p, v, k) ==
  LET start == GhostSegmentStart(p, v, k)
  IN  start .. start + NumGhosts(p, v, k) - 1

\* Fault: all locally owned entries are gathered for every target.
gatherAllEntries(p, v) ==
  [q \in getTargetProcIds(p, v) |->
     [i \in 1 .. Size(OwnedRanges[v][p]) |-> owned[p][v][i - 1]]]

gatherLocallyOwnedEntries(p, v) ==
  [q \in getTargetProcIds(p, v) |->
     LET idx == getOwnedLocalIndicesForTargetProcs(p, v, q)
     IN  [i \in DOMAIN idx |-> owned[p][v][idx[i]]]]

\* What the receive buffer adds to owned entry i.
Received(p, v, i) ==
  MapThenSumSet(
    LAMBDA q : LET idx == getOwnedLocalIndicesForTargetProcs(p, v, q)
               IN  MapThenSumSet(LAMBDA n : buffer[p][v][q][n],
                                 {n \in DOMAIN idx : idx[n] = i}),
    getTargetProcIds(p, v))

-----------------------------------------------------------------------------
Zero(S) == [i \in S |-> 0]

Init ==
  /\ program \in Programs
  /\ pos = [p \in Rank |-> 0]
  /\ owned = [p \in Rank |-> [v \in Vec |-> Zero(localOwned(p, v))]]
  /\ ghost = [p \in Rank |-> [v \in Vec |-> Zero(localGhost(p, v))]]
  /\ buffer = [p \in Rank |-> [v \in Vec |-> [q \in getTargetProcIds(p, v) |->
                 [i \in 1 .. NumGhosts(q, v, p) |-> 0]]]]
  /\ sends = [p \in Rank |-> [q \in Rank |-> [t \in Tag |-> <<>>]]]
  /\ receives = [p \in Rank |-> [q \in Rank |-> [t \in Tag |-> <<>>]]]

\* p is at operation op of vector v.
At(p, op, v) ==
  /\ pos[p] < Len(program)
  /\ program[pos[p] + 1] = [op |-> op, v |-> v]

Advance(p) == pos' = [pos EXCEPT ![p] = @ + 1] /\ UNCHANGED program

Isend(p, to, t, v) ==
  sends' = [a \in Rank |-> [b \in Rank |-> [u \in Tag |->
              IF a = p /\ b \in to /\ u = t
              THEN Append(sends[a][b][u], [v |-> v, data |-> <<>>])
              ELSE sends[a][b][u]]]]

Irecv(p, from, t, v) ==
  receives' = [a \in Rank |-> [b \in Rank |-> [u \in Tag |->
                 IF a = p /\ b \in from /\ u = t
                 THEN Append(receives[a][b][u], v)
                 ELSE receives[a][b][u]]]]

\* MPI_Waitall returns when both hold: a send of v with tag t that is still there has
\* been read, so its receive was posted or MPI made a copy; every receive of v with
\* tag t was delivered.
Sent(p, t, v) ==
  \A q \in Rank : \A i \in DOMAIN sends[p][q][t] :
    sends[p][q][t][i].v = v => sends[p][q][t][i].data # <<>>
Delivered(p, t, v) ==
  \A q \in Rank : \A i \in DOMAIN receives[p][q][t] : receives[p][q][t][i] # v

-----------------------------------------------------------------------------
\* The caller computes all local entries of v, the ghost section included.
Compute(p, v) ==
  /\ At(p, "compute", v)
  /\ owned' = [owned EXCEPT ![p][v] = [i \in localOwned(p, v) |->
                 Computed(p, pos[p], OwnedRanges[v][p].first + i)]]
  /\ ghost' = [ghost EXCEPT ![p][v] = [j \in localGhost(p, v) |->
                 Computed(p, pos[p], Ascending(GhostIndices[v][p])[j + 1])]]
  /\ Advance(p)
  /\ UNCHANGED <<buffer, mpi>>

zeroOutGhosts(p, v) ==
  /\ At(p, "zeroOutGhosts", v)
  /\ ghost' = [ghost EXCEPT ![p][v] = Zero(localGhost(p, v))]
  /\ Advance(p)
  /\ UNCHANGED <<owned, buffer, mpi>>

\* Fault: no receive is posted before the sends.
BeginWithoutReceives(p, v) ==
  /\ At(p, "updateBegin", v)
  /\ buffer' = [buffer EXCEPT ![p][v] = gatherLocallyOwnedEntries(p, v)]
  /\ Isend(p, getTargetProcIds(p, v), Scatter, v)
  /\ Advance(p)
  /\ UNCHANGED <<owned, ghost, receives>>

updateGhostValuesBegin(p, v) ==
  /\ At(p, "updateBegin", v)
  /\ Irecv(p, getGhostProcIds(p, v), Scatter, v)
  /\ buffer' = [buffer EXCEPT ![p][v] = gatherLocallyOwnedEntries(p, v)]
  /\ Isend(p, getTargetProcIds(p, v), Scatter, v)
  /\ Advance(p)
  /\ UNCHANGED <<owned, ghost>>

\* Fault: only the receives are waited for.
EndWithoutSends(p, v) ==
  /\ At(p, "updateEnd", v)
  /\ Delivered(p, Scatter, v)
  /\ Advance(p)
  /\ UNCHANGED <<heap, mpi>>

\* Fault: only the sends are waited for.
EndWithoutReceives(p, v) ==
  /\ At(p, "updateEnd", v)
  /\ Sent(p, Scatter, v)
  /\ Advance(p)
  /\ UNCHANGED <<heap, mpi>>

updateGhostValuesEnd(p, v) ==
  /\ At(p, "updateEnd", v)
  /\ Sent(p, Scatter, v)
  /\ Delivered(p, Scatter, v)
  /\ Advance(p)
  /\ UNCHANGED <<heap, mpi>>

\* Fault: the receives of an accumulation use the tag of the update.
AccumulateFromScatterTag(p, v) ==
  /\ At(p, "accumulateBegin", v)
  /\ Irecv(p, getTargetProcIds(p, v), Scatter, v)
  /\ Isend(p, getGhostProcIds(p, v), Gather, v)
  /\ Advance(p)
  /\ UNCHANGED heap

accumulateAddLocallyOwnedBegin(p, v) ==
  /\ At(p, "accumulateBegin", v)
  /\ Irecv(p, getTargetProcIds(p, v), Gather, v)
  /\ Isend(p, getGhostProcIds(p, v), Gather, v)
  /\ Advance(p)
  /\ UNCHANGED heap

accumulateAddLocallyOwnedEnd(p, v) ==
  /\ At(p, "accumulateEnd", v)
  /\ Sent(p, Gather, v)
  /\ Delivered(p, Gather, v)
  /\ owned' = [owned EXCEPT ![p][v] = [i \in localOwned(p, v) |-> @[i] + Received(p, v, i)]]
  /\ Advance(p)
  /\ UNCHANGED <<ghost, buffer, mpi>>

\* The data of a send of p to q.
SendData(p, q, t, v) ==
  IF t = Scatter
  THEN buffer[p][v][q]
  ELSE LET start == GhostSegmentStart(p, v, q)
       IN  [n \in 1 .. NumGhosts(p, v, q) |-> ghost[p][v][start + n - 1]]

\* The i-th send that is left is paired with the i-th receive.
Matched(p, q, t, i) == i \in DOMAIN receives[q][p][t]

\* MPI reads a send whose receive is posted; a short one it may also copy before, and
\* nobody can rely on that.
Inject(p, q, t, i) ==
  /\ i \in DOMAIN sends[p][q][t]
  /\ sends[p][q][t][i].data = <<>>
  /\ Matched(p, q, t, i) \/ Len(SendData(p, q, t, sends[p][q][t][i].v)) <= EagerLimit
  /\ sends' = [sends EXCEPT ![p][q][t][i].data = SendData(p, q, t, sends[p][q][t][i].v)]
  /\ UNCHANGED <<program, pos, heap, receives>>

\* The oldest send of p to q meets the oldest receive of q from p.
Deliver(p, q, t) ==
  /\ sends[p][q][t] # <<>>
  /\ receives[q][p][t] # <<>>
  /\ Head(sends[p][q][t]).data # <<>>
  /\ LET data == Head(sends[p][q][t]).data
         v == Head(receives[q][p][t])
         start == GhostSegmentStart(q, v, p)
         into == IF t = Scatter THEN GhostSegment(q, v, p) ELSE {}
     IN  /\ ghost' = [ghost EXCEPT ![q][v] = [j \in DOMAIN @ |->
                        IF j \in into /\ j - start + 1 \in DOMAIN data
                        THEN data[j - start + 1] ELSE @[j]]]
         /\ buffer' = IF t = Gather THEN [buffer EXCEPT ![q][v][p] = data] ELSE buffer
  /\ sends' = [sends EXCEPT ![p][q][t] = Tail(@)]
  /\ receives' = [receives EXCEPT ![q][p][t] = Tail(@)]
  /\ UNCHANGED <<program, pos, owned>>

Terminated ==
  /\ \A p \in Rank : pos[p] = Len(program)
  /\ UNCHANGED vars

RankStep(p) ==
  \E v \in Vec :
    \/ Compute(p, v)
    \/ zeroOutGhosts(p, v)
    \/ updateGhostValuesBegin(p, v)
    \/ updateGhostValuesEnd(p, v)
    \/ accumulateAddLocallyOwnedBegin(p, v)
    \/ accumulateAddLocallyOwnedEnd(p, v)

Progress ==
  \E p, q \in Rank, t \in Tag :
    \/ \E i \in DOMAIN sends[p][q][t] : Inject(p, q, t, i)
    \/ Deliver(p, q, t)

Next == (\E p \in Rank : RankStep(p)) \/ Progress \/ Terminated

Spec == Init /\ [][Next]_vars
-----------------------------------------------------------------------------
\* Indices of the global vector.
OwnerOf(v, g) == CHOOSE k \in Rank : g \in Indices(OwnedRanges[v][k])
Global(p, v, i) == OwnedRanges[v][p].first + i
GhostAt(p, v, j) == Ascending(GhostIndices[v][p])[j + 1]

Opened(p, v, begin, end) ==
  Count(program, pos[p], begin, v) > Count(program, pos[p], end, v)

InUpdate(p, v) == Opened(p, v, "updateBegin", "updateEnd")

\* Shapes of the vectors and of the messages.
TypeOK ==
  /\ program \in Programs
  /\ pos \in [Rank -> 0 .. Len(program)]
  /\ \A p \in Rank : \A v \in Vec :
       /\ owned[p][v] \in [localOwned(p, v) -> Int]
       /\ ghost[p][v] \in [localGhost(p, v) -> Int]
       /\ buffer[p][v] \in [getTargetProcIds(p, v) -> Seq(Int)]
       /\ \A q \in getTargetProcIds(p, v) : Len(buffer[p][v][q]) = NumGhosts(q, v, p)

\* Vectors with different patterns share tags: a receive is always paired
\* with a send of its own vector.
MessagesMatchTheirVector ==
  \A p, q \in Rank : \A t \in Tag :
    \A i \in DOMAIN sends[p][q][t] \cap DOMAIN receives[q][p][t] :
      sends[p][q][t][i].v = receives[q][p][t][i]

\* While no update of a vector is open, MPI neither reads its send buffer nor
\* writes its ghost section: the caller and an accumulation may use them.
NothingOutlivesItsOperation ==
  \A p \in Rank : \A v \in Vec : ~InUpdate(p, v) =>
    /\ Sent(p, Scatter, v)
    /\ Delivered(p, Scatter, v)

\* p is in an MPI_Waitall that does not return yet.
EndOp(t) == IF t = Scatter THEN "updateEnd" ELSE "accumulateEnd"
Waits(p) ==
  \E v \in Vec : \E t \in Tag :
    At(p, EndOp(t), v) /\ ~(Sent(p, t, v) /\ Delivered(p, t, v))

\* MPI has nothing left that it must do: no send is left that a receive is posted for.
\* Of the other sends, none need have been copied, however short.
MPIQuiet ==
  \A p, q \in Rank : \A t \in Tag : sends[p][q][t] = <<>> \/ receives[q][p][t] = <<>>

\* The exchanges are not collective calls: a rank waits for its neighbours only, for
\* their sends and, if MPI does not copy what it sends, for their receives too.
\* What it waits for when MPI has nothing left to do is a rank that has run less of
\* the program; so the rank that is furthest behind goes on, and no circle of
\* waiting ranks can close, however the exchanges of the vectors overlap.
WaitsOnlyForRanksBehind ==
  MPIQuiet => \A p \in Rank : Waits(p) => \E q \in Rank : pos[q] < pos[p]
=============================================================================
