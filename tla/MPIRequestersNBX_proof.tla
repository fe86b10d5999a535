----------------------- MODULE MPIRequestersNBX_proof -----------------------
(***************************************************************************)
(* For every set of ranks, every family of target lists and every number   *)
(* of rounds: the invariant IInv of MPIRequestersNBX is inductive; from it *)
(* follow the correctness of the answer, the absence of the "second time"  *)
(* exception and the implementation of SparseDualExchange.                 *)
(***************************************************************************)
EXTENDS MPIRequestersNBX, TLAPS

\* The state of a rank's object keeps its types.
LEMMA TypeInit == Init => TypeOK
BY RoundAssumption DEF Init, TypeOK, PCs, Before

LEMMA TypeNext == TypeOK /\ [Next]_vars => TypeOK'
<1> SUFFICES ASSUME TypeOK, [Next]_vars
             PROVE  TypeOK'
  OBVIOUS
<1> USE RankAssumption, TargetAssumption, RoundAssumption
    DEF TypeOK, PCs, Before, Signalled, Probing
<1>1. CASE UNCHANGED vars
  BY <1>1 DEF vars
<1>2. ASSUME NEW p \in Rank, GetAllOwnedRanges(p) PROVE TypeOK'
  BY <1>2 DEF GetAllOwnedRanges
<1>3. ASSUME NEW p \in Rank, NEW T \in TargetSets, StartLocalSend(p, T) PROVE TypeOK'
  BY <1>3 DEF StartLocalSend
<1>4. ASSUME NEW p \in Rank, NEW q \in Rank, ProbeAndReceiveIncomingMsg(p, q) PROVE TypeOK'
  BY <1>4 DEF ProbeAndReceiveIncomingMsg
<1>5. ASSUME NEW p \in Rank, SignalLocalSendCompletion(p) PROVE TypeOK'
  BY <1>5 DEF SignalLocalSendCompletion
<1>6. ASSUME NEW p \in Rank, HaveAllIncomingMsgsReceived(p) PROVE TypeOK'
  BY <1>6 DEF HaveAllIncomingMsgsReceived
<1>7. ASSUME NEW p \in Rank, Finish(p) PROVE TypeOK'
  BY <1>7 DEF Finish
<1>8. ASSUME NEW p \in Rank, LeaveDebugBarrier(p) PROVE TypeOK'
  BY <1>8 DEF LeaveDebugBarrier
<1>9. ASSUME NEW p \in Rank, NEW q \in Rank, CompleteRecv(p, q) PROVE TypeOK'
  BY <1>9 DEF CompleteRecv
<1>10. QED
  BY <1>1, <1>2, <1>3, <1>4, <1>5, <1>6, <1>7, <1>8, <1>9 DEF Next, Step, Terminated

\* TypeOK holds of every behaviour, for all constants.
THEOREM TypeCorrect == Spec => []TypeOK
BY TypeInit, TypeNext, PTL DEF Spec

-----------------------------------------------------------------------------
LEMMA InvInit == Init => IInv
<1> SUFFICES ASSUME Init PROVE IInv
  OBVIOUS
<1>1. TypeOK
  BY TypeInit
<1>2. /\ NoSecondMessage
      /\ RoundsAdvanceTogether
      /\ IdleInRoundZero
      /\ PendingIsOwnTargets
      /\ BarrierWasComplete
      /\ ReceivedIsMatched
      /\ UnreadUntilProbing
  BY DEF Init, NoSecondMessage, RoundsAdvanceTogether, IdleInRoundZero,
         PendingIsOwnTargets, BarrierWasComplete, ReceivedIsMatched,
         UnreadUntilProbing, Before
<1>3. QED
  BY <1>1, <1>2 DEF IInv

\* Entering the next Allgatherv: only the order of the rounds is at stake.
LEMMA InvGetAllOwnedRanges ==
  ASSUME IInv, TypeOK', NEW p \in Rank, GetAllOwnedRanges(p)
  PROVE  IInv'
<1> USE DEF TypeOK, GetAllOwnedRanges, Before, Signalled, PCs
<1>1. NoSecondMessage'
  BY DEF IInv, NoSecondMessage
<1>2. RoundsAdvanceTogether'
  BY DEF IInv, RoundsAdvanceTogether, IdleInRoundZero, BarrierWasComplete, IbarrierInvoked
<1>3. IdleInRoundZero'
  BY DEF IInv, IdleInRoundZero
<1>4. PendingIsOwnTargets'
  BY DEF IInv, PendingIsOwnTargets
<1>5. BarrierWasComplete'
  BY DEF IInv, BarrierWasComplete, IbarrierInvoked
<1>6. ReceivedIsMatched'
  BY DEF IInv, ReceivedIsMatched, RoundsAdvanceTogether, IdleInRoundZero, Posted
<1>7. UnreadUntilProbing'
  BY DEF IInv, UnreadUntilProbing, RoundsAdvanceTogether
<1>8. QED
  BY <1>1, <1>2, <1>3, <1>4, <1>5, <1>6, <1>7 DEF IInv

\* Posting the sends of a new object: everything sent is unread.
LEMMA InvStartLocalSend ==
  ASSUME IInv, TypeOK', NEW p \in Rank, NEW T \in TargetSets, StartLocalSend(p, T)
  PROVE  IInv'
<1> USE TargetAssumption
    DEF TypeOK, StartLocalSend, AllgatherComplete, Before, Signalled, PCs
<1>1. NoSecondMessage'
  BY DEF IInv, NoSecondMessage
<1>2. RoundsAdvanceTogether'
  BY DEF IInv, RoundsAdvanceTogether
<1>3. IdleInRoundZero'
  BY DEF IInv, IdleInRoundZero
<1>4. PendingIsOwnTargets'
  BY DEF IInv, PendingIsOwnTargets
<1>5. BarrierWasComplete'
  BY DEF IInv, BarrierWasComplete, IbarrierInvoked
<1>6. ReceivedIsMatched'
  BY DEF IInv, ReceivedIsMatched, RoundsAdvanceTogether, UnreadUntilProbing,
         PendingIsOwnTargets, Posted
<1>7. UnreadUntilProbing'
  BY DEF IInv, UnreadUntilProbing, RoundsAdvanceTogether
<1>8. QED
  BY <1>1, <1>2, <1>3, <1>4, <1>5, <1>6, <1>7 DEF IInv

\* A matched message moves from its sender's pending sends to the receiver.
LEMMA InvProbeAndReceive ==
  ASSUME IInv, TypeOK', NEW p \in Rank, NEW q \in Rank, ProbeAndReceiveIncomingMsg(p, q)
  PROVE  IInv'
<1> USE DEF TypeOK, ProbeAndReceiveIncomingMsg, Probing, Before, Signalled, PCs
<1>1. q \notin requesters[p]
  BY DEF IInv, ReceivedIsMatched
<1>2. /\ round[q] = round[p]
      /\ pc[q] = "sending"
  BY DEF IInv, RoundsAdvanceTogether, PendingIsOwnTargets
<1>3. NoSecondMessage'
  BY <1>1 DEF IInv, NoSecondMessage
<1>4. RoundsAdvanceTogether'
  BY <1>1 DEF IInv, RoundsAdvanceTogether
<1>5. IdleInRoundZero'
  BY <1>1 DEF IInv, IdleInRoundZero
<1>6. PendingIsOwnTargets'
  BY <1>1 DEF IInv, PendingIsOwnTargets
<1>7. BarrierWasComplete'
  BY <1>1 DEF IInv, BarrierWasComplete, IbarrierInvoked
<1>8. ReceivedIsMatched'
  BY <1>1, <1>2 DEF IInv, ReceivedIsMatched, PendingIsOwnTargets, Posted
<1>9. UnreadUntilProbing'
  BY <1>1, <1>2 DEF IInv, UnreadUntilProbing
<1>10. QED
  BY <1>3, <1>4, <1>5, <1>6, <1>7, <1>8, <1>9 DEF IInv

\* The steps that only advance one rank's program counter past its sends.
LEMMA InvSignal ==
  ASSUME IInv, TypeOK', NEW p \in Rank, SignalLocalSendCompletion(p)
  PROVE  IInv'
<1> USE DEF TypeOK, SignalLocalSendCompletion, Before, Signalled, PCs
<1>1. NoSecondMessage' /\ IdleInRoundZero' /\ PendingIsOwnTargets'
  BY DEF IInv, NoSecondMessage, IdleInRoundZero, PendingIsOwnTargets
<1>2. RoundsAdvanceTogether'
  BY DEF IInv, RoundsAdvanceTogether
<1>3. BarrierWasComplete'
  BY DEF IInv, BarrierWasComplete, IbarrierInvoked
<1>4. ReceivedIsMatched' /\ UnreadUntilProbing'
  BY DEF IInv, ReceivedIsMatched, UnreadUntilProbing, Posted
<1>5. QED
  BY <1>1, <1>2, <1>3, <1>4 DEF IInv

LEMMA InvHaveAll ==
  ASSUME IInv, TypeOK', NEW p \in Rank, HaveAllIncomingMsgsReceived(p)
  PROVE  IInv'
<1> USE DEF TypeOK, HaveAllIncomingMsgsReceived, Before, Signalled, PCs
<1>1. NoSecondMessage' /\ IdleInRoundZero' /\ PendingIsOwnTargets'
  BY DEF IInv, NoSecondMessage, IdleInRoundZero, PendingIsOwnTargets
<1>2. RoundsAdvanceTogether'
  BY DEF IInv, RoundsAdvanceTogether
<1>3. BarrierWasComplete'
  BY DEF IInv, BarrierWasComplete, IbarrierInvoked
<1>4. ReceivedIsMatched' /\ UnreadUntilProbing'
  BY DEF IInv, ReceivedIsMatched, UnreadUntilProbing, Posted
<1>5. QED
  BY <1>1, <1>2, <1>3, <1>4 DEF IInv

LEMMA InvFinish ==
  ASSUME IInv, TypeOK', NEW p \in Rank, Finish(p) \/ LeaveDebugBarrier(p)
  PROVE  IInv'
<1> USE DEF TypeOK, Finish, LeaveDebugBarrier, Before, Signalled, PCs
<1>1. NoSecondMessage' /\ IdleInRoundZero' /\ PendingIsOwnTargets'
  BY DEF IInv, NoSecondMessage, IdleInRoundZero, PendingIsOwnTargets
<1>2. RoundsAdvanceTogether'
  BY DEF IInv, RoundsAdvanceTogether
<1>3. BarrierWasComplete'
  BY DEF IInv, BarrierWasComplete, IbarrierInvoked
<1>4. ReceivedIsMatched' /\ UnreadUntilProbing'
  BY DEF IInv, ReceivedIsMatched, UnreadUntilProbing, Posted
<1>5. QED
  BY <1>1, <1>2, <1>3, <1>4 DEF IInv

LEMMA InvUnchanged ==
  ASSUME IInv, TypeOK', UNCHANGED <<round, pc, targets, pending, requesters>>
  PROVE  IInv'
BY DEF IInv, NoSecondMessage, RoundsAdvanceTogether, IdleInRoundZero,
       PendingIsOwnTargets, BarrierWasComplete, IbarrierInvoked,
       ReceivedIsMatched, Posted, UnreadUntilProbing

LEMMA InvNext == IInv /\ [Next]_vars => IInv'
<1> SUFFICES ASSUME IInv, [Next]_vars
             PROVE  IInv'
  OBVIOUS
<1>1. TypeOK'
  BY TypeNext DEF IInv
<1>2. CASE UNCHANGED vars
  BY <1>1, <1>2, InvUnchanged DEF vars
<1>3. ASSUME NEW p \in Rank, Step(p) PROVE IInv'
  BY <1>1, <1>3, InvGetAllOwnedRanges, InvStartLocalSend, InvProbeAndReceive,
     InvSignal, InvHaveAll, InvFinish DEF Step
<1>4. ASSUME NEW p \in Rank, NEW q \in Rank, CompleteRecv(p, q) PROVE IInv'
  BY <1>1, <1>4, InvUnchanged DEF CompleteRecv
<1>5. QED
  BY <1>2, <1>3, <1>4 DEF Next, Terminated

\* IInv is an invariant of the consensus for any number of ranks and rounds.
THEOREM InvariantHolds == Spec => []IInv
BY InvInit, InvNext, PTL DEF Spec
-----------------------------------------------------------------------------
\* Past the barrier a rank knows all its requesters.
LEMMA DualWhenDrained ==
  ASSUME IInv, NEW p \in Rank, pc[p] \in {"finish", "debugBarrier", "returned"}
  PROVE  requesters[p] = {q \in Rank : p \in targets[q]}
<1> SUFFICES ASSUME NEW q \in Rank
             PROVE  q \in requesters[p] <=> p \in targets[q]
  BY DEF IInv, TypeOK
<1>1. IbarrierInvoked(q, round[p])
  BY DEF IInv, BarrierWasComplete
<1>2. Posted(q, round[p])
  BY <1>1 DEF IbarrierInvoked, Posted, Signalled, Before
<1>3. pending[q] = {}
  BY <1>1 DEF IInv, PendingIsOwnTargets, RoundsAdvanceTogether, TypeOK,
              IbarrierInvoked, Signalled
<1>4. QED
  BY <1>2, <1>3 DEF IInv, ReceivedIsMatched, Before

LEMMA DualFromInv == IInv => RequestersAreDual
BY DualWhenDrained DEF RequestersAreDual

\* getRequestingRankIds returns exactly the ranks that listed the caller.
THEOREM AnswerCorrect == Spec => []RequestersAreDual
BY InvariantHolds, DualFromInv, PTL
-----------------------------------------------------------------------------
\* No probe ever finds a second message of the same source.
LEMMA NoSecondFromInv == IInv => NoSecondMessage
BY DEF IInv

THEOREM NeverThrows == Spec => []NoSecondMessage
BY InvariantHolds, NoSecondFromInv, PTL

\* A rank that stops probing has seen every rank in the barrier, and a rank
\* in the barrier, or past it, has no unmatched send.
LEMMA DrainedStep ==
  IInv /\ IInv' /\ [Next]_vars =>
    \A p \in Rank : pc[p] = "barrier" /\ pc'[p] = "finish" =>
       \A q \in Rank : pending[q] = {}
<1> SUFFICES ASSUME IInv, IInv', [Next]_vars, NEW p \in Rank,
                    pc[p] = "barrier", pc'[p] = "finish", NEW q \in Rank
             PROVE  pending[q] = {}
  OBVIOUS
<1>1. HaveAllIncomingMsgsReceived(p)
  BY DEF Next, Step, Terminated, vars, GetAllOwnedRanges, StartLocalSend,
         ProbeAndReceiveIncomingMsg, SignalLocalSendCompletion,
         HaveAllIncomingMsgsReceived, Finish, LeaveDebugBarrier, CompleteRecv,
         IInv, TypeOK
<1>2. IbarrierInvoked(q, round[p])
  BY <1>1 DEF HaveAllIncomingMsgsReceived
<1>3. QED
  BY <1>2 DEF IInv, PendingIsOwnTargets, RoundsAdvanceTogether, TypeOK,
              IbarrierInvoked, Signalled

THEOREM DrainedWhenLeaving == Spec => LeavesOnlyWhenDrained
<1>1. IInv /\ IInv' /\ [Next]_vars =>
        [\A p \in Rank : pc[p] = "barrier" /\ pc'[p] = "finish" =>
           \A q \in Rank : pending[q] = {}]_vars
  BY DrainedStep
<1>2. QED
  BY <1>1, InvariantHolds, PTL DEF Spec, LeavesOnlyWhenDrained
-----------------------------------------------------------------------------
\* The steps of the exchange without messages: a call, a return, a stutter.
LEMMA DualInit == Init => Dual!Init
BY DEF Init, Dual!Init

\* Posting the sends is the call of getRequestingRankIds.
LEMMA DualCall ==
  ASSUME IInv, NEW p \in Rank, NEW T \in TargetSets, StartLocalSend(p, T)
  PROVE  Dual!Call(p, T)
<1> USE TargetAssumption DEF IInv, TypeOK, StartLocalSend, PCs, Before, Signalled
<1>1. ASSUME NEW q \in Rank, pc[q] \notin {"idle", "allgather", "returned"}
      PROVE  round[q] = round[p]
  BY <1>1, RoundAssumption DEF AllgatherComplete, RoundsAdvanceTogether
<1>2. ASSUME NEW q \in Rank, pc[q] \in {"idle", "returned"}
      PROVE  round[q] = round[p]
  BY <1>2, RoundAssumption DEF AllgatherComplete, RoundsAdvanceTogether
<1> DEFINE out == {"idle", "allgather", "returned"}
           rnd == [q \in Rank |-> IF pc[q] = "allgather" THEN round[q] - 1 ELSE round[q]]
           phs == [q \in Rank |-> IF pc[q] \in out THEN "out" ELSE "in"]
           ans == [q \in Rank |-> IF pc[q] \in out THEN requesters[q] ELSE {}]
<1>3. /\ phs[p] = "out"
      /\ rnd[p] < MaxRound
  BY RoundAssumption
<1>4. ASSUME NEW q \in Rank
      PROVE  \/ rnd[q] = rnd[p] + 1
             \/ rnd[q] = rnd[p] /\ phs[q] = "out"
  BY <1>1, <1>2, RoundAssumption DEF AllgatherComplete, RoundsAdvanceTogether
<1>5. rnd' = [rnd EXCEPT ![p] = @ + 1]
  <2>1. rnd[p] + 1 = round[p]
    BY RoundAssumption
  <2>2. rnd' = [q \in Rank |-> IF q = p THEN round[p] ELSE rnd[q]]
    OBVIOUS
  <2>3. QED
    BY <2>1, <2>2
<1>6. phs' = [phs EXCEPT ![p] = "in"]
  OBVIOUS
<1>7. ans' = [ans EXCEPT ![p] = {}]
  OBVIOUS
<1>8. targets' = [targets EXCEPT ![p] = T]
  OBVIOUS
<1>9. QED
  BY <1>3, <1>4, <1>5, <1>6, <1>7, <1>8 DEF Dual!Call

LEMMA DualReturn ==
  ASSUME IInv, NEW p \in Rank,
         pc[p] \in {"finish", "debugBarrier"},
         pc' = [pc EXCEPT ![p] = "returned"],
         UNCHANGED <<round, targets, requesters>>
  PROVE  Dual!Return(p)
<1> USE RoundAssumption DEF IInv, TypeOK, PCs, Before, Signalled
<1> DEFINE out == {"idle", "allgather", "returned"}
           rnd == [q \in Rank |-> IF pc[q] = "allgather" THEN round[q] - 1 ELSE round[q]]
           phs == [q \in Rank |-> IF pc[q] \in out THEN "out" ELSE "in"]
           ans == [q \in Rank |-> IF pc[q] \in out THEN requesters[q] ELSE {}]
<1>1. ASSUME NEW q \in Rank
      PROVE  rnd[q] = rnd[p]
  BY <1>1 DEF BarrierWasComplete, IbarrierInvoked, RoundsAdvanceTogether
<1>2. requesters[p] = {q \in Rank : p \in targets[q]}
  BY DualWhenDrained
<1>3. phs[p] = "in" /\ phs' = [phs EXCEPT ![p] = "out"]
  OBVIOUS
<1>4. ans' = [ans EXCEPT ![p] = {q \in Rank : p \in targets[q]}]
  BY <1>2
<1>5. rnd' = rnd /\ targets' = targets
  OBVIOUS
<1>6. QED
  BY <1>1, <1>3, <1>4, <1>5 DEF Dual!Return

\* Every other step of a rank leaves the caller's view as it was.
LEMMA DualHidden ==
  ASSUME IInv, NEW p \in Rank,
         \/ GetAllOwnedRanges(p)
         \/ \E q \in Rank : ProbeAndReceiveIncomingMsg(p, q)
         \/ SignalLocalSendCompletion(p)
         \/ HaveAllIncomingMsgsReceived(p)
         \/ Finish(p) /\ pc'[p] # "returned"
  PROVE  UNCHANGED Dual!vars
<1> USE RoundAssumption DEF IInv, TypeOK, PCs, Before, Signalled, Dual!vars
<1>1. CASE GetAllOwnedRanges(p)
  BY <1>1 DEF GetAllOwnedRanges
<1>2. ASSUME NEW q \in Rank, ProbeAndReceiveIncomingMsg(p, q)
      PROVE  UNCHANGED Dual!vars
  <2>1. q \notin requesters[p]
    BY <1>2 DEF ProbeAndReceiveIncomingMsg, Probing, ReceivedIsMatched
  <2>2. QED
    BY <1>2, <2>1 DEF ProbeAndReceiveIncomingMsg, Probing
<1>3. CASE SignalLocalSendCompletion(p)
  BY <1>3 DEF SignalLocalSendCompletion
<1>4. CASE HaveAllIncomingMsgsReceived(p)
  BY <1>4 DEF HaveAllIncomingMsgsReceived
<1>5. CASE Finish(p) /\ pc'[p] # "returned"
  BY <1>5 DEF Finish
<1>6. QED
  BY <1>1, <1>2, <1>3, <1>4, <1>5

LEMMA DualNext == IInv /\ [Next]_vars => [Dual!Next]_(Dual!vars)
<1> SUFFICES ASSUME IInv, [Next]_vars
             PROVE  Dual!Next \/ UNCHANGED Dual!vars
  OBVIOUS
<1>1. CASE UNCHANGED vars
  BY <1>1 DEF vars, Dual!vars
<1>2. ASSUME NEW p \in Rank, Step(p)
      PROVE  Dual!Next \/ UNCHANGED Dual!vars
  <2>1. ASSUME NEW T \in TargetSets, StartLocalSend(p, T) PROVE Dual!Next
    BY <2>1, DualCall DEF Dual!Next
  <2>2. ASSUME Finish(p) \/ LeaveDebugBarrier(p), pc'[p] = "returned" PROVE Dual!Next
    <3>1. Dual!Return(p)
      BY <2>2, DualReturn DEF Finish, LeaveDebugBarrier, IInv, TypeOK
    <3>2. QED
      BY <3>1 DEF Dual!Next
  <2>3. ASSUME LeaveDebugBarrier(p) PROVE pc'[p] = "returned"
    BY <2>3 DEF LeaveDebugBarrier, IInv, TypeOK
  <2>4. QED
    BY <1>2, <2>1, <2>2, <2>3, DualHidden DEF Step
<1>3. ASSUME NEW p \in Rank, NEW q \in Rank, CompleteRecv(p, q)
      PROVE  UNCHANGED Dual!vars
  BY <1>3 DEF CompleteRecv, Dual!vars
<1>4. QED
  BY <1>1, <1>2, <1>3 DEF Next, Terminated

\* The consensus implements the exchange without messages (safety part).
THEOREM Implements == Spec => ImplementsDualExchange
<1>1. Init => Dual!Init
  BY DualInit
<1>2. IInv /\ [Next]_vars => [Dual!Next]_(Dual!vars)
  BY DualNext
<1>3. QED
  BY <1>1, <1>2, InvariantHolds, PTL
     DEF Spec, ImplementsDualExchange, Dual!SafeSpec
-----------------------------------------------------------------------------
LEMMA RoundIsNat ==
  ASSUME TypeOK
  PROVE  \A p \in Rank : round[p] \in Nat
<1> TAKE p \in Rank
<1>1. round[p] \in 0 .. MaxRound
  BY DEF TypeOK
<1>2. QED
  BY <1>1, RoundAssumption

\* A rank that waits for its Allgatherv waits for ranks that are still in their
\* previous exchange, and one of those goes on.
LEMMA LaggardGoesOn ==
  ASSUME IInv, \A p, q \in Rank : ~InCall(p) => round[q] <= round[p],
         \A p \in Rank : active[p] = {},
         NEW p \in Rank, NEW q \in Rank, round[q] < round[p]
  PROVE  \E w \in Rank : InCall(w) /\ GoesOn(w)
<1> USE DEF IInv, TypeOK, PCs, Before, Signalled
<1>1. round[p] \in Nat /\ round[q] \in Nat
  BY RoundIsNat
<1>2. pc[q] \in {"barrier", "finish", "debugBarrier"}
  BY <1>1 DEF RoundsAdvanceTogether, InCall
<1>3. ASSUME NEW w \in Rank
      PROVE  /\ round[w] \in Nat
             /\ round[w] >= round[q]
             /\ round[w] = round[q] => pc[w] \in Signalled /\ pc[w] # "returned"
  <2>1. round[w] \in Nat
    BY <1>3, RoundIsNat
  <2>2. round[w] >= round[q]
    BY <1>1, <1>3, <2>1 DEF RoundsAdvanceTogether
  <2>3. ASSUME round[w] = round[q]
        PROVE  pc[w] \in Signalled /\ pc[w] # "returned"
    BY <1>1, <1>3, <2>1, <2>3 DEF RoundsAdvanceTogether, InCall
  <2>4. QED
    BY <2>1, <2>2, <2>3
<1>4. ASSUME NEW w \in Rank
      PROVE  IbarrierInvoked(w, round[q])
  <2>1. CASE round[w] = round[q]
    BY <1>3, <2>1 DEF IbarrierInvoked
  <2>2. CASE round[w] # round[q]
    BY <1>1, <1>3, <2>2 DEF IbarrierInvoked
  <2>3. QED
    BY <2>1, <2>2
<1>5. CASE pc[q] = "barrier"
  BY <1>4, <1>5 DEF InCall, GoesOn
<1>6. CASE pc[q] = "finish"
  BY <1>6 DEF InCall, GoesOn
<1>7. CASE pc[q] = "debugBarrier"
  <2>1. CASE \A w \in Rank : DebugBarrierInvoked(w, round[q])
    BY <1>7, <2>1 DEF InCall, GoesOn
  <2>2. ASSUME NEW w \in Rank, ~DebugBarrierInvoked(w, round[q])
        PROVE  InCall(w) /\ GoesOn(w)
    <3>1. round[w] = round[q] /\ pc[w] \in {"barrier", "finish"}
      BY <1>1, <1>3, <2>2 DEF DebugBarrierInvoked
    <3>2. QED
      BY <1>4, <3>1 DEF InCall, GoesOn
  <2>3. QED
    BY <2>1, <2>2
<1>8. QED
  BY <1>2, <1>5, <1>6, <1>7

\* In one common round, a rank whose messages are unmatched has a target that
\* still probes; without such a rank the barriers are complete.
LEMMA CommonRoundGoesOn ==
  ASSUME IInv, \A p \in Rank : active[p] = {},
         \A p, q \in Rank : round[q] = round[p],
         \A p \in Rank : pc[p] # "allgather",
         \E p \in Rank : InCall(p)
  PROVE  \E w \in Rank : InCall(w) /\ GoesOn(w)
<1> USE DEF IInv, TypeOK, PCs, Before, Signalled
<1>0. \A p \in Rank : round[p] \in Nat
  BY RoundIsNat
<1>1. \A p \in Rank : pc[p] \in Signalled \cup {"sending"}
  BY DEF IdleInRoundZero, NoSecondMessage, InCall
<1>2. ASSUME NEW p \in Rank, pc[p] = "sending"
      PROVE  \E w \in Rank : InCall(w) /\ GoesOn(w)
  <2>1. CASE pending[p] = {}
    BY <1>2, <2>1 DEF InCall, GoesOn
  <2>2. ASSUME NEW t \in pending[p]
        PROVE  InCall(t) /\ GoesOn(t)
    <3>1. t \in Rank
      OBVIOUS
    <3>2. ~IbarrierInvoked(p, round[t])
      BY <1>0, <1>2, <3>1 DEF IbarrierInvoked
    <3>3. pc[t] \in Probing
      BY <1>1, <1>2, <3>1, <3>2 DEF BarrierWasComplete, Probing
    <3>4. QED
      BY <1>2, <2>2, <3>1, <3>3 DEF InCall, GoesOn, Probing
  <2>3. QED
    BY <1>2, <2>1, <2>2
<1>3. ASSUME \A p \in Rank : pc[p] # "sending"
      PROVE  \E w \in Rank : InCall(w) /\ GoesOn(w)
  <2>1. \A p, q \in Rank : IbarrierInvoked(q, round[p])
    BY <1>1, <1>3 DEF IbarrierInvoked
  <2>2. ASSUME NEW p \in Rank, pc[p] \in {"barrier", "finish"}
        PROVE  InCall(p) /\ GoesOn(p)
    BY <2>1, <2>2 DEF InCall, GoesOn
  <2>3. ASSUME \A p \in Rank : pc[p] \notin {"barrier", "finish"}, NEW p \in Rank, InCall(p)
        PROVE  GoesOn(p)
    <3>1. \A q \in Rank : pc[q] \in {"debugBarrier", "returned"}
      BY <1>1, <1>3, <2>3
    <3>2. QED
      BY <2>3, <3>1 DEF InCall, GoesOn, DebugBarrierInvoked
  <2>4. QED
    BY <2>2, <2>3
<1>4. QED
  BY <1>2, <1>3

\* No rank of the communicator can be left waiting in a constructor call that
\* the others have joined, whichever of them run ahead.
THEOREM NoRankIsStuck == Spec => []NoCallIsStuck
<1>1. IInv => NoCallIsStuck
  <2> SUFFICES ASSUME IInv,
                      \E p \in Rank : InCall(p),
                      \A p, q \in Rank : ~InCall(p) => round[q] <= round[p],
                      \A p \in Rank : active[p] = {}
               PROVE  \E p \in Rank : InCall(p) /\ GoesOn(p)
    BY DEF NoCallIsStuck
  <2>0. \A p \in Rank : round[p] \in Nat
    BY RoundIsNat DEF IInv
  <2>1. CASE \E p, q \in Rank : round[q] < round[p]
    BY <2>1, LaggardGoesOn
  <2>2. ASSUME ~\E p, q \in Rank : round[q] < round[p]
        PROVE  \E p \in Rank : InCall(p) /\ GoesOn(p)
    <3>1. \A p, q \in Rank : round[q] = round[p]
      BY <2>0, <2>2
    <3>2. ASSUME NEW p \in Rank, pc[p] = "allgather" PROVE InCall(p) /\ GoesOn(p)
      BY <2>0, <3>1, <3>2 DEF InCall, GoesOn, AllgatherComplete
    <3>3. ASSUME \A p \in Rank : pc[p] # "allgather"
          PROVE  \E p \in Rank : InCall(p) /\ GoesOn(p)
      BY <3>1, <3>3, CommonRoundGoesOn
    <3>4. QED
      BY <3>2, <3>3
  <2>3. QED
    BY <2>1, <2>2
<1>2. QED
  BY <1>1, InvariantHolds, PTL
=============================================================================
