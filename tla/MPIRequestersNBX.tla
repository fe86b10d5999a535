-------------------------- MODULE MPIRequestersNBX --------------------------
(***************************************************************************)
(* The nonblocking consensus of utils/MPIRequestersNBX.cc, run once by     *)
(* every MPIPatternP2P constructor: each rank sends a synchronous message  *)
(* (MPI_Issend) to its targets, receives what a probe finds, joins a       *)
(* nonblocking barrier when all its own sends were matched, and leaves     *)
(* when the barrier has completed.                                         *)
(*                                                                         *)
(* One round is one constructor call on every rank.  It begins with the    *)
(* MPI_Allgatherv of getAllOwnedRanges (the only thing that keeps two      *)
(* rounds with the same tag apart in a release build) and ends with the    *)
(* return of getRequestingRankIds.                                         *)
(*                                                                         *)
(* Model simplifications.  MPI delivers and matches in any order; a probe  *)
(* that finds nothing is a stuttering step.  A collective completes on a   *)
(* rank when all ranks have entered their collective of the same round.    *)
(* The sends of startLocalSend are posted in one step: a message still may *)
(* be found arbitrarily late, so no receiver can tell.  MPI calls succeed. *)
(***************************************************************************)
EXTENDS Naturals

CONSTANTS Rank,      \* the ranks of d_comm
          TargetSets, \* the target lists a caller may pass
          NoRank,    \* "d_recvRequests is empty"
          MaxRound   \* bound on the number of constructor calls

ASSUME RankAssumption == NoRank \notin Rank
ASSUME TargetAssumption == TargetSets \subseteq SUBSET Rank
ASSUME RoundAssumption == MaxRound \in Nat

VARIABLES
  ndebug,      \* is NDEBUG defined in this build (the same on every rank)
  round,       \* round[p]: the constructor call p is in, or was in last
  pc,          \* pc[p]: where p is in it
  targets,     \* targets[p]: d_targetIDs of the current object
  pending,     \* pending[p]: targets whose receive has not matched p's Issend
  requesters,  \* requesters[p]: d_requestingProcesses
  active,      \* active[p]: sources whose Irecv is posted and not complete
  lastRecv     \* lastRecv[p]: source of d_recvRequests.back()

vars == <<ndebug, round, pc, targets, pending, requesters, active, lastRecv>>

Before == {"idle", "allgather"}                      \* not yet sending
Signalled == {"barrier", "finish", "debugBarrier", "returned"}

\* Fault: the second loop tests the barrier without probing.
ProbingOnlyWhileSending == {"sending"}

Probing == {"sending", "barrier"}

Init ==
  /\ ndebug \in BOOLEAN
  /\ round = [p \in Rank |-> 0]
  /\ pc = [p \in Rank |-> "idle"]
  /\ targets = [p \in Rank |-> {}]
  /\ pending = [p \in Rank |-> {}]
  /\ requesters = [p \in Rank |-> {}]
  /\ active = [p \in Rank |-> {}]
  /\ lastRecv = [p \in Rank |-> NoRank]

\* The constructor of the next pattern enters the MPI_Allgatherv.
GetAllOwnedRanges(p) ==
  /\ pc[p] \in {"idle", "returned"}
  /\ round[p] < MaxRound
  /\ round' = [round EXCEPT ![p] = @ + 1]
  /\ pc' = [pc EXCEPT ![p] = "allgather"]
  /\ UNCHANGED <<ndebug, targets, pending, requesters, active, lastRecv>>

\* Fault: the rounds are not separated by a collective.
UnseparatedRounds(p) == TRUE

AllgatherComplete(p) == \A q \in Rank : round[q] >= round[p]

\* Fault: an object used twice keeps the requesters of its first use.
SendKeepingRequesters(p, T) ==
  /\ pc[p] = "allgather"
  /\ AllgatherComplete(p)
  /\ targets' = [targets EXCEPT ![p] = T]
  /\ pending' = [pending EXCEPT ![p] = T]
  /\ pc' = [pc EXCEPT ![p] = "sending"]
  /\ UNCHANGED <<ndebug, round, requesters, active, lastRecv>>

\* The gathered ranges give the ghost owners T; a new MPIRequestersNBX
\* object posts one Issend to each.
StartLocalSend(p, T) ==
  /\ pc[p] = "allgather"
  /\ AllgatherComplete(p)
  /\ targets' = [targets EXCEPT ![p] = T]
  /\ pending' = [pending EXCEPT ![p] = T]
  /\ requesters' = [requesters EXCEPT ![p] = {}]
  /\ active' = [active EXCEPT ![p] = {}]
  /\ lastRecv' = [lastRecv EXCEPT ![p] = NoRank]
  /\ pc' = [pc EXCEPT ![p] = "sending"]
  /\ UNCHANGED <<ndebug, round>>

\* MPI_Iprobe finds q's message.  If q already sent, the rank throws.
\* Otherwise the Irecv that is posted matches it, which completes q's Issend.
ProbeAndReceiveIncomingMsg(p, q) ==
  /\ pc[p] \in Probing
  /\ p \in pending[q]
  /\ IF q \in requesters[p]
     THEN /\ pc' = [pc EXCEPT ![p] = "threw"]
          /\ UNCHANGED <<pending, requesters, active, lastRecv>>
     ELSE /\ requesters' = [requesters EXCEPT ![p] = @ \cup {q}]
          /\ pending' = [pending EXCEPT ![q] = @ \ {p}]
          /\ active' = [active EXCEPT ![p] = @ \cup {q}]
          /\ lastRecv' = [lastRecv EXCEPT ![p] = q]
          /\ UNCHANGED pc
  /\ UNCHANGED <<ndebug, round, targets>>

\* Fault: MPI_Ibarrier is joined when one send is done (Testany for Testall).
SignalAfterFirstSend(p) ==
  /\ pc[p] = "sending"
  /\ pending[p] = {} \/ pending[p] # targets[p]
  /\ pc' = [pc EXCEPT ![p] = "barrier"]
  /\ UNCHANGED <<ndebug, round, targets, pending, requesters, active, lastRecv>>

\* haveAllLocalSendReceived is true: MPI_Ibarrier.
SignalLocalSendCompletion(p) ==
  /\ pc[p] = "sending"
  /\ pending[p] = {}
  /\ pc' = [pc EXCEPT ![p] = "barrier"]
  /\ UNCHANGED <<ndebug, round, targets, pending, requesters, active, lastRecv>>

IbarrierInvoked(q, r) == round[q] > r \/ (round[q] = r /\ pc[q] \in Signalled)

\* Fault: the flag returned by MPI_Test is not looked at.
LeaveWithoutBarrier(p) ==
  /\ pc[p] = "barrier"
  /\ pc' = [pc EXCEPT ![p] = "finish"]
  /\ UNCHANGED <<ndebug, round, targets, pending, requesters, active, lastRecv>>

HaveAllIncomingMsgsReceived(p) ==
  /\ pc[p] = "barrier"
  /\ \A q \in Rank : IbarrierInvoked(q, round[p])
  /\ pc' = [pc EXCEPT ![p] = "finish"]
  /\ UNCHANGED <<ndebug, round, targets, pending, requesters, active, lastRecv>>

\* MPI completes a posted receive (writes d_recvBuffers) at any time.
CompleteRecv(p, q) ==
  /\ q \in active[p]
  /\ active' = [active EXCEPT ![p] = @ \ {q}]
  /\ UNCHANGED <<ndebug, round, pc, targets, pending, requesters, lastRecv>>

\* finish(): every turn of its loop waits for d_recvRequests.back().
Finish(p) ==
  /\ pc[p] = "finish"
  /\ lastRecv[p] \notin active[p]
  /\ pc' = [pc EXCEPT ![p] = IF ndebug THEN "returned" ELSE "debugBarrier"]
  /\ UNCHANGED <<ndebug, round, targets, pending, requesters, active, lastRecv>>

DebugBarrierInvoked(q, r) ==
  round[q] > r \/ (round[q] = r /\ pc[q] \in {"debugBarrier", "returned"})

\* The MPI_Barrier under #ifndef NDEBUG.
LeaveDebugBarrier(p) ==
  /\ pc[p] = "debugBarrier"
  /\ \A q \in Rank : DebugBarrierInvoked(q, round[p])
  /\ pc' = [pc EXCEPT ![p] = "returned"]
  /\ UNCHANGED <<ndebug, round, targets, pending, requesters, active, lastRecv>>

Step(p) ==
  \/ GetAllOwnedRanges(p)
  \/ \E T \in TargetSets : StartLocalSend(p, T)
  \/ \E q \in Rank : ProbeAndReceiveIncomingMsg(p, q)
  \/ SignalLocalSendCompletion(p)
  \/ HaveAllIncomingMsgsReceived(p)
  \/ Finish(p)
  \/ LeaveDebugBarrier(p)

\* The bound on rounds is reached everywhere: the only state without a step.
Terminated ==
  /\ \A p \in Rank : pc[p] = "returned" /\ round[p] = MaxRound
  /\ UNCHANGED vars

Next ==
  \/ \E p \in Rank : Step(p)
  \/ \E p, q \in Rank : CompleteRecv(p, q)
  \/ Terminated

Spec == Init /\ [][Next]_vars

\* A rank that can go on does (both loops poll), and MPI makes progress.
Fairness ==
  /\ \A p \in Rank : WF_vars(Step(p))
  /\ \A p, q \in Rank : WF_vars(CompleteRecv(p, q))

FairSpec == Spec /\ Fairness
-----------------------------------------------------------------------------
PCs == Before \cup Signalled \cup {"sending", "threw"}

\* Types of the state of every rank's MPIRequestersNBX object.
TypeOK ==
  /\ ndebug \in BOOLEAN
  /\ round \in [Rank -> 0 .. MaxRound]
  /\ pc \in [Rank -> PCs]
  /\ targets \in [Rank -> SUBSET Rank]
  /\ pending \in [Rank -> SUBSET Rank]
  /\ requesters \in [Rank -> SUBSET Rank]
  /\ active \in [Rank -> SUBSET Rank]
  /\ lastRecv \in [Rank -> Rank \cup {NoRank}]

\* getRequestingRankIds returns the dual of the target lists of ITS round:
\* nothing is missed by leaving early, nothing leaks in from another round.
RequestersAreDual ==
  \A p \in Rank : pc[p] = "returned" =>
    requesters[p] = {q \in Rank : p \in targets[q]}

\* The exception of probeAndReceiveIncomingMsg ("is sending message to ...
\* second time") is never thrown, whichever rank runs ahead by how much.
NoSecondMessage == \A p \in Rank : pc[p] # "threw"

\* A rank stops probing only when no message of any rank is still unmatched
\* (a rank that left earlier would leave its requester's Testall false).
LeavesOnlyWhenDrained ==
  [][\A p \in Rank : pc[p] = "barrier" /\ pc'[p] = "finish" =>
        \A q \in Rank : pending[q] = {}]_vars

\* Header of finish(): "After all processors have received all the incoming
\* messages, the MPI data structures can be freed": no receive may still be
\* writing into d_recvBuffers of an object that has returned.
NoReceiveOutlivesItsBuffer ==
  \A p \in Rank : pc[p] = "returned" => active[p] = {}

\* A rank inside a constructor call, and one whose next test or wait succeeds.
InCall(p) == pc[p] \notin {"idle", "returned"}

GoesOn(p) ==
  \/ pc[p] = "allgather" /\ AllgatherComplete(p)
  \/ pc[p] \in Probing /\ \E q \in Rank : p \in pending[q]
  \/ pc[p] = "sending" /\ pending[p] = {}
  \/ pc[p] = "barrier" /\ \A q \in Rank : IbarrierInvoked(q, round[p])
  \/ pc[p] = "finish" /\ lastRecv[p] \notin active[p]
  \/ pc[p] = "debugBarrier" /\ \A q \in Rank : DebugBarrierInvoked(q, round[p])

\* The two polling loops, the barriers and the Allgatherv never leave the ranks
\* waiting in a circle: once every rank has made the calls the others are in
\* and MPI has delivered, some rank inside its call goes on, and it needs no
\* help from a rank that has returned (which may never construct again).
NoCallIsStuck ==
  /\ \E p \in Rank : InCall(p)
  /\ \A p, q \in Rank : ~InCall(p) => round[q] <= round[p]
  /\ \A p \in Rank : active[p] = {}
  => \E p \in Rank : InCall(p) /\ GoesOn(p)

\* Every constructor call gets its answer on every rank.
EveryRankReturns ==
  \A p \in Rank : pc[p] = "allgather" ~> pc[p] = "returned"

\* Strengthening.
\* One rank may be ahead of another by one round, and only in its Allgatherv.
RoundsAdvanceTogether ==
  \A p, q \in Rank : round[p] < round[q] =>
    /\ round[q] = round[p] + 1
    /\ pc[q] = "allgather"
    /\ pc[p] \in Signalled \cup {"idle"}

IdleInRoundZero == \A p \in Rank : pc[p] = "idle" <=> round[p] = 0

PendingIsOwnTargets ==
  \A p \in Rank : /\ pending[p] \subseteq targets[p]
                  /\ pc[p] # "sending" => pending[p] = {}

BarrierWasComplete ==
  \A p \in Rank : pc[p] \in {"finish", "debugBarrier", "returned"} =>
    \A q \in Rank : IbarrierInvoked(q, round[p])

\* q's Issends of round r are posted.
Posted(q, r) == round[q] > r \/ (round[q] = r /\ pc[q] \notin Before)

\* A rank in its exchange knows exactly the posted messages that matched.
ReceivedIsMatched ==
  \A p \in Rank : pc[p] \notin Before =>
    \A q \in Rank : q \in requesters[p] <=>
      Posted(q, round[p]) /\ p \in targets[q] /\ p \notin pending[q]

\* Nothing is taken from a rank's inbox before it starts probing.
UnreadUntilProbing ==
  \A p, q \in Rank :
    /\ pc[p] \in Before
    /\ round[q] = round[p]
    /\ pc[q] \notin Before
    /\ p \in targets[q]
    => p \in pending[q]

IInv ==
  /\ TypeOK
  /\ NoSecondMessage
  /\ RoundsAdvanceTogether
  /\ IdleInRoundZero
  /\ PendingIsOwnTargets
  /\ BarrierWasComplete
  /\ ReceivedIsMatched
  /\ UnreadUntilProbing

\* The exchange without messages that the object implements.
Dual == INSTANCE SparseDualExchange WITH
  round  <- [p \in Rank |-> IF pc[p] = "allgather" THEN round[p] - 1 ELSE round[p]],
  phase  <- [p \in Rank |->
               IF pc[p] \in {"idle", "allgather", "returned"} THEN "out" ELSE "in"],
  answer <- [p \in Rank |->
               IF pc[p] \in {"idle", "allgather", "returned"}
               THEN requesters[p] ELSE {}]

\* Every step is a call, a return, or invisible to the caller.
ImplementsDualExchange == Dual!SafeSpec
=============================================================================
