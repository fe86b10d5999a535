------------------------- MODULE SparseDualExchange -------------------------
(***************************************************************************)
(* What the callers of MPIRequestersNBX rely on, without messages: ranks   *)
(* exchange, round after round, one-way target lists for their dual.  A    *)
(* rank calls with the set of ranks it will ask for data and returns with  *)
(* the set of ranks that will ask it.  No rank starts a round before every *)
(* rank returned from the previous one, and no rank returns from a round   *)
(* before every rank has called.                                           *)
(***************************************************************************)
EXTENDS Naturals

CONSTANTS Rank,      \* the processes of the communicator
          TargetSets, \* the arguments a rank may call with
          MaxRound   \* bound on the number of exchanges

VARIABLES round,     \* round[p]: number of exchanges p has called
          phase,     \* phase[p]: "in" between call and return
          targets,   \* targets[p]: the argument of p's last call
          answer     \* answer[p]: the result of p's last return

vars == <<round, phase, targets, answer>>

Init ==
  /\ round = [p \in Rank |-> 0]
  /\ phase = [p \in Rank |-> "out"]
  /\ targets = [p \in Rank |-> {}]
  /\ answer = [p \in Rank |-> {}]

Call(p, T) ==
  /\ phase[p] = "out"
  /\ round[p] < MaxRound
  /\ \A q \in Rank : \/ round[q] = round[p] + 1
                     \/ round[q] = round[p] /\ phase[q] = "out"
  /\ round' = [round EXCEPT ![p] = @ + 1]
  /\ phase' = [phase EXCEPT ![p] = "in"]
  /\ targets' = [targets EXCEPT ![p] = T]
  /\ answer' = [answer EXCEPT ![p] = {}]

Return(p) ==
  /\ phase[p] = "in"
  /\ \A q \in Rank : round[q] = round[p]
  /\ phase' = [phase EXCEPT ![p] = "out"]
  /\ answer' = [answer EXCEPT ![p] = {q \in Rank : p \in targets[q]}]
  /\ UNCHANGED <<round, targets>>

Next == \E p \in Rank : Return(p) \/ \E T \in TargetSets : Call(p, T)

SafeSpec == Init /\ [][Next]_vars

Spec == SafeSpec /\ \A p \in Rank : WF_vars(Return(p))
=============================================================================
