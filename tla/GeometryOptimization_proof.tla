--------------------- MODULE GeometryOptimization_proof ---------------------
(***************************************************************************)
(* For every MaxCycles, MaxUpdates and Verbosity and any number of         *)
(* crashes: the invariant IInv of GeometryOptimization is inductive, and   *)
(* from it follow the types and that an optimization that ends as          *)
(* converged has relaxed what its mode asks for.  With the saves and their *)
(* files, OrderInv, FilesInv and UpdateInv are inductive on top of it:     *)
(* checkpoints advance, a restart loses at most the save in progress, and  *)
(* none if the job only went down in updates of the solver.                *)
(*                                                                         *)
(* The first result rests on a relaxation that returns without an update,  *)
(* standing for both of them.  Between the other relaxation and this one   *)
(* the job may be killed and restarted from a geometry on disk, hence the  *)
(* invariant says of each file what its content may be: the geometry of    *)
(* step 0 was saved where the other relaxation had converged.              *)
(***************************************************************************)
EXTENDS GeometryOptimization, SequenceTheorems, TLAPS

\* The relaxations that the mode asks for.
Kinds == IF mode = 2 THEN Relaxation ELSE {mode}

Flags == [Relaxation -> BOOLEAN]
Cycle == 0 .. MaxCycles - 1

\* What a relaxation of kind s in cycle c starts from when both are relaxed in
\* turn: a geometry at which the other one, run just before, has converged.
OtherRelaxed(c, s, r) ==
  mode = 2 => /\ s = 1 => r[0]
              /\ s = 0 /\ c # 0 => r[1]

AtStart(c, s, n, r) == n = 0 /\ ~solverFailed => OtherRelaxed(c, s, r)

\* x may be the content of file f.
Fits(f, x) ==
  x # Empty =>
    /\ f = cycleChk => \E c \in Cycle : x = <<c>>
    /\ \A c \in Cycle : f = statusChk(c) => \E s \in Kinds : x = <<s>>
    /\ \A c \in Cycle, s \in Relaxation : f = stepChk(c, s) => \E n \in Step : x = <<n>>
    /\ \A c \in Cycle, s \in Relaxation, n \in Step :
         f = geometry(c, s, n) => \E r \in Flags : x = <<r>> /\ AtStart(c, s, n, r)

\* Every file has a content that its name asks for, or was cut short.
DiskInv == \A f \in DOMAIN disk : Fits(f, disk[f])

\* The driver on its way to a relaxation, and the solver of a relaxation.
Starting == {"new", "cycle", "status", "solve", "cellStatus", "stress", "relax"}
Solving == {"begin", "maxForce", "geometry", "solver", "step", "check", "update"}

\* Where the cycle and the step are out of their ranges.
CycleInv ==
  \/ cycle \in Cycle
  \/ cycle = MaxCycles /\ pc \in {"cycle", "stopped", "down", "error"}
  \/ cycle = -1 /\ pc = "error"

StepInv ==
  /\ \/ step \in Step
     \/ step = -1 /\ pc \in {"look", "search", "down", "error"}
  /\ pc = "update" => step < MaxUpdates

\* A job that searches for files is a restarted one.
FlagsInv ==
  /\ relaxed \in Flags /\ relaxRestart \in BOOLEAN /\ solverFailed \in BOOLEAN
  /\ pc \in {"search", "look", "found"} => relaxRestart

\* runOpt returns once.
ResultInv ==
  /\ result \in {"none", "converged", "gaveUp"}
  /\ result # "none" => pc = "stopped"

KindInv == mode \in Modes /\ status \in Kinds

\* Until a relaxation has begun, a restarted job keeps the step it resumed at
\* in step.chk, and a job that was not restarted comes from the other relaxation.
StartInv ==
  pc \in Starting =>
    IF relaxRestart
    THEN /\ readable(stepChk(cycle, status)) => read(stepChk(cycle, status)) = step
         /\ AtStart(cycle, status, step, relaxed)
    ELSE AtStart(cycle, status, 0, relaxed)

\* Step 0 of a relaxation is the geometry it started from.
SolvingInv ==
  pc \in Solving => ~relaxRestart /\ AtStart(cycle, status, step, relaxed)

IInv ==
  /\ pc \in PCs
  /\ KindInv /\ CycleInv /\ StepInv /\ FlagsInv /\ ResultInv
  /\ DiskInv
  /\ StartInv
  /\ SolvingInv
  /\ ConvergedMeansRelaxed

-----------------------------------------------------------------------------
\* A file whose name is not that of a checkpoint the invariant speaks of has any
\* content; the others have what their names ask for.
LEMMA FitsOther ==
  ASSUME NEW x, NEW c, NEW s, NEW n
  PROVE  /\ Fits(optDat, x)
         /\ Fits(relaxDat(c, s), x)
         /\ Fits(maxForce(c, n), x)
         /\ Fits(solverChk(c, s, n), x)
BY DEF Fits, optDat, relaxDat, maxForce, solverChk, cycleChk, statusChk, stepChk, geometry

LEMMA FitsEmpty == \A f : Fits(f, Empty)
BY DEF Fits

LEMMA FitsCycle == \A c \in Cycle : Fits(cycleChk, <<c>>)
BY DEF Fits, cycleChk, statusChk, stepChk, geometry

LEMMA FitsStatus == \A c, s : s \in Kinds => Fits(statusChk(c), <<s>>)
BY DEF Fits, cycleChk, statusChk, stepChk, geometry

LEMMA FitsStep == \A c, s, n : n \in Step => Fits(stepChk(c, s), <<n>>)
BY DEF Fits, cycleChk, statusChk, stepChk, geometry

LEMMA FitsGeometry ==
  \A c, s, n, r : r \in Flags /\ AtStart(c, s, n, r) => Fits(geometry(c, s, n), <<r>>)
BY DEF Fits, cycleChk, statusChk, stepChk, geometry

\* What fits goes on to fit: mode stays, and a solver that failed has failed.
LEMMA FitsKept ==
  ASSUME mode' = mode, solverFailed => solverFailed'
  PROVE  \A f, x : Fits(f, x) => Fits(f, x)'
BY DEF Fits, AtStart, OtherRelaxed, Kinds, Cycle, Step, Flags

\* Files that are left alone, written or removed.
LEMMA DiskStep ==
  ASSUME mode' = mode, solverFailed => solverFailed',
         \A g \in DOMAIN disk' : Fits(g, disk'[g])
  PROVE  DiskInv'
<1> SUFFICES ASSUME NEW g \in DOMAIN disk' PROVE Fits(g, disk[g])'
  BY DEF DiskInv
<1> DEFINE x == disk'[g]
<1>1. Fits(g, x)
  OBVIOUS
<1>2. PICK y : y = x
  OBVIOUS
<1>3. Fits(g, y)'
  BY <1>1, <1>2, FitsKept
<1>4. QED
  BY <1>2, <1>3 DEF Fits

LEMMA DiskKept ==
  ASSUME DiskInv, mode' = mode, solverFailed => solverFailed', disk' = disk
  PROVE  DiskInv'
BY DiskStep DEF DiskInv

LEMMA DiskPut ==
  ASSUME DiskInv, mode' = mode, solverFailed => solverFailed',
         NEW f, NEW x, Fits(f, x), disk' = Put(f, x)
  PROVE  DiskInv'
<1>1. \A g \in DOMAIN disk' : Fits(g, disk'[g])
  BY DEF DiskInv, Put
<1>2. QED
  BY <1>1, DiskStep

LEMMA DiskRemove ==
  ASSUME DiskInv, mode' = mode, solverFailed => solverFailed', NEW f, disk' = Remove(f)
  PROVE  DiskInv'
<1>1. \A g \in DOMAIN disk' : Fits(g, disk'[g])
  BY DEF DiskInv, Remove
<1>2. QED
  BY <1>1, DiskStep

-----------------------------------------------------------------------------
\* A job starts in an empty folder.
LEMMA InitIInv == Init => IInv
<1> SUFFICES ASSUME Init PROVE IInv
  OBVIOUS
<1> USE DEF Init, Relaxation, Kinds
<1>1. pc \in PCs /\ KindInv /\ CycleInv /\ StepInv /\ FlagsInv /\ ResultInv
  BY ModesAssumption, BoundsAssumption DEF PCs, KindInv, CycleInv, StepInv, FlagsInv,
       ResultInv, Flags, Cycle, Step
<1>2. DiskInv
  BY DEF DiskInv
<1>3. StartInv /\ SolvingInv /\ ConvergedMeansRelaxed
  BY ModesAssumption DEF StartInv, SolvingInv, ConvergedMeansRelaxed, AtStart,
     OtherRelaxed,
       Starting, Solving
<1>4. QED
  BY <1>1, <1>2, <1>3 DEF IInv

\* The kinds of relaxation are relaxations.
LEMMA KindsAreRelaxations == mode \in Modes => Kinds \subseteq Relaxation
BY ModesAssumption DEF Kinds, Relaxation

\* step.chk has a name of its own.
LEMMA StepFileDiffers ==
  \A c, s, d : stepChk(c, s) \notin {optDat, cycleChk, statusChk(d)}
BY DEF stepChk, optDat, cycleChk, statusChk

\* Every operation keeps the invariant.
LEMMA StepIInv == IInv /\ [Next]_vars => IInv'
<1> SUFFICES ASSUME IInv, [Next]_vars PROVE IInv'
  OBVIOUS
<1> USE BoundsAssumption DEF driver, relaxation, physics, history, vars, goto
<1>a. /\ pc \in PCs /\ KindInv /\ status \in Relaxation
      /\ CycleInv /\ StepInv /\ FlagsInv /\ ResultInv
  BY KindsAreRelaxations DEF IInv, KindInv
<1>b. DiskInv /\ StartInv /\ SolvingInv /\ ConvergedMeansRelaxed
  BY DEF IInv
<1>1. CASE WriteOptData
  <2>1. mode' = mode /\ (solverFailed => solverFailed') /\ Kinds' = Kinds
    BY <1>1 DEF WriteOptData, Kinds
  <2>2. pc' \in PCs /\ KindInv'
    BY <1>1, <2>1, <1>a DEF WriteOptData, PCs, KindInv
  <2>3. CycleInv' /\ StepInv' /\ FlagsInv' /\ ResultInv'
    BY <1>1, <1>a DEF WriteOptData, CycleInv, StepInv, FlagsInv, ResultInv
  <2>4. DiskInv'
    BY <1>1, <2>1, <1>b, FitsOther, DiskPut DEF WriteOptData
  <2>5. StartInv'
    BY <1>1, <2>1, <1>b, StepFileDiffers DEF WriteOptData, StartInv, Starting, AtStart,
       OtherRelaxed, readable, exists, read, Put
  <2>6. SolvingInv'
    BY <1>1, <2>1, <1>b DEF WriteOptData, SolvingInv, Solving, AtStart, OtherRelaxed
  <2>7. ConvergedMeansRelaxed'
    BY <1>1, <1>a, <1>b DEF WriteOptData, ResultInv, ConvergedMeansRelaxed
  <2>8. QED
    BY <2>2, <2>3, <2>4, <2>5, <2>6, <2>7 DEF IInv
<1>2. CASE StartCycle
  <2>1. /\ pc = "cycle"
        /\ \/ cycle \in Cycle /\ disk' = Put(cycleChk, <<cycle>>) /\ pc' = "status" /\ result' = result
           \/ pc' = "stopped" /\ result' = "gaveUp" /\ disk' = disk
        /\ UNCHANGED <<mode, cycle, status, step, relaxRestart, relaxed, solverFailed>>
    <3>1. pc = "cycle"
      BY <1>2 DEF StartCycle
    <3>2. cycle \in Cycle \/ cycle = MaxCycles
      BY <1>a, <3>1 DEF CycleInv
    <3>3. CASE cycle < MaxCycles
      BY <1>2, <3>2, <3>3 DEF StartCycle
    <3>4. CASE ~ (cycle < MaxCycles)
      BY <1>2, <3>4 DEF StartCycle
    <3>5. QED
      BY <3>3, <3>4
  <2>2. mode' = mode /\ (solverFailed => solverFailed') /\ Kinds' = Kinds
    BY <2>1 DEF Kinds
  <2>3. pc' \in PCs /\ KindInv'
    BY <2>1, <2>2, <1>a DEF PCs, KindInv
  <2>4. CycleInv' /\ StepInv' /\ FlagsInv' /\ ResultInv'
    BY <2>1, <1>a DEF CycleInv, StepInv, FlagsInv, ResultInv
  <2>5. DiskInv'
    BY <2>1, <2>2, <1>b, FitsCycle, DiskPut, DiskKept
  <2>6. StartInv'
    BY <2>1, <2>2, <1>b, StepFileDiffers DEF StartInv, Starting, AtStart, OtherRelaxed,
       readable, exists, read, Put
  <2>7. SolvingInv'
    BY <2>1, <2>2, <1>b DEF SolvingInv, Solving, AtStart, OtherRelaxed
  <2>8. ConvergedMeansRelaxed'
    BY <2>1, <1>a, <1>b DEF ResultInv, ConvergedMeansRelaxed
  <2>9. QED
    BY <2>3, <2>4, <2>5, <2>6, <2>7, <2>8 DEF IInv
<1>3. CASE WriteStatus
  <2>1. /\ pc = "status" /\ pc' \in {"solve", "relax", "cellStatus"}
        /\ disk' = Put(statusChk(cycle), <<status>>)
        /\ UNCHANGED <<mode, cycle, status, step, relaxRestart, relaxed, solverFailed, result>>
    BY <1>3 DEF WriteStatus
  <2>2. mode' = mode /\ (solverFailed => solverFailed') /\ Kinds' = Kinds
    BY <2>1 DEF Kinds
  <2>3. pc' \in PCs /\ KindInv'
    BY <2>1, <2>2, <1>a DEF PCs, KindInv
  <2>4. CycleInv' /\ StepInv' /\ FlagsInv' /\ ResultInv'
    BY <2>1, <1>a DEF CycleInv, StepInv, FlagsInv, ResultInv
  <2>5. DiskInv'
    BY <2>1, <2>2, <1>a, <1>b, FitsStatus, DiskPut DEF KindInv
  <2>6. StartInv'
    BY <2>1, <2>2, <1>b, StepFileDiffers DEF StartInv, Starting, AtStart, OtherRelaxed,
       readable, exists, read, Put
  <2>7. SolvingInv'
    BY <2>1, <2>2, <1>b DEF SolvingInv, Solving, AtStart, OtherRelaxed
  <2>8. ConvergedMeansRelaxed'
    BY <2>1, <1>a, <1>b DEF ResultInv, ConvergedMeansRelaxed
  <2>9. QED
    BY <2>3, <2>4, <2>5, <2>6, <2>7, <2>8 DEF IInv
<1>4. CASE FirstSolve
  <2>1. mode' = mode /\ (solverFailed => solverFailed') /\ Kinds' = Kinds
    BY <1>4 DEF FirstSolve, Kinds
  <2>2. pc' \in PCs /\ KindInv'
    BY <1>4, <2>1, <1>a DEF FirstSolve, PCs, KindInv
  <2>3. CycleInv' /\ StepInv' /\ FlagsInv' /\ ResultInv'
    BY <1>4, <1>a DEF FirstSolve, CycleInv, StepInv, FlagsInv, ResultInv
  <2>4. DiskInv'
    BY <1>4, <2>1, <1>b, DiskKept DEF FirstSolve
  <2>5. StartInv'
    BY <1>4, <2>1, <1>b DEF FirstSolve, StartInv, Starting, AtStart, OtherRelaxed,
       readable, exists, read
  <2>6. SolvingInv'
    BY <1>4, <2>1, <1>b DEF FirstSolve, SolvingInv, Solving, AtStart, OtherRelaxed
  <2>7. ConvergedMeansRelaxed'
    BY <1>4, <1>a, <1>b DEF FirstSolve, ResultInv, ConvergedMeansRelaxed
  <2>8. QED
    BY <2>2, <2>3, <2>4, <2>5, <2>6, <2>7 DEF IInv
<1>5. CASE WriteCellStatus
  <2>1. /\ pc = "cellStatus" /\ pc' \in {"stress", "relax"}
        /\ disk' = Put(statusChk(cycle), <<status>>)
        /\ UNCHANGED <<mode, cycle, status, step, relaxRestart, relaxed, solverFailed, result>>
    BY <1>5 DEF WriteCellStatus
  <2>2. mode' = mode /\ (solverFailed => solverFailed') /\ Kinds' = Kinds
    BY <2>1 DEF Kinds
  <2>3. pc' \in PCs /\ KindInv'
    BY <2>1, <2>2, <1>a DEF PCs, KindInv
  <2>4. CycleInv' /\ StepInv' /\ FlagsInv' /\ ResultInv'
    BY <2>1, <1>a DEF CycleInv, StepInv, FlagsInv, ResultInv
  <2>5. DiskInv'
    BY <2>1, <2>2, <1>a, <1>b, FitsStatus, DiskPut DEF KindInv
  <2>6. StartInv'
    BY <2>1, <2>2, <1>b, StepFileDiffers DEF StartInv, Starting, AtStart, OtherRelaxed,
       readable, exists, read, Put
  <2>7. SolvingInv'
    BY <2>1, <2>2, <1>b DEF SolvingInv, Solving, AtStart, OtherRelaxed
  <2>8. ConvergedMeansRelaxed'
    BY <2>1, <1>a, <1>b DEF ResultInv, ConvergedMeansRelaxed
  <2>9. QED
    BY <2>3, <2>4, <2>5, <2>6, <2>7, <2>8 DEF IInv
<1>6. CASE trivialSolveForStress
  <2>1. mode' = mode /\ (solverFailed => solverFailed') /\ Kinds' = Kinds
    BY <1>6 DEF trivialSolveForStress, Kinds
  <2>2. pc' \in PCs /\ KindInv'
    BY <1>6, <2>1, <1>a DEF trivialSolveForStress, PCs, KindInv
  <2>3. CycleInv' /\ StepInv' /\ FlagsInv' /\ ResultInv'
    BY <1>6, <1>a DEF trivialSolveForStress, CycleInv, StepInv, FlagsInv, ResultInv
  <2>4. DiskInv'
    BY <1>6, <2>1, <1>b, DiskKept DEF trivialSolveForStress
  <2>5. StartInv'
    BY <1>6, <2>1, <1>b DEF trivialSolveForStress, StartInv, Starting, AtStart,
       OtherRelaxed, readable, exists, read
  <2>6. SolvingInv'
    BY <1>6, <2>1, <1>b DEF trivialSolveForStress, SolvingInv, Solving, AtStart,
       OtherRelaxed
  <2>7. ConvergedMeansRelaxed'
    BY <1>6, <1>a, <1>b DEF trivialSolveForStress, ResultInv, ConvergedMeansRelaxed
  <2>8. QED
    BY <2>2, <2>3, <2>4, <2>5, <2>6, <2>7 DEF IInv
<1>7. CASE InitRelaxation
  <2>1. mode' = mode /\ (solverFailed => solverFailed') /\ Kinds' = Kinds
    BY <1>7 DEF InitRelaxation, Kinds
  <2>2. pc' \in PCs /\ KindInv'
    BY <1>7, <2>1, <1>a DEF InitRelaxation, PCs, KindInv
  <2>3. CycleInv'
    BY <1>7, <1>a DEF InitRelaxation, CycleInv
  <2>4. StepInv'
    BY <1>7 DEF InitRelaxation, StepInv, Step
  <2>5. FlagsInv' /\ ResultInv'
    BY <1>7, <1>a DEF InitRelaxation, FlagsInv, ResultInv
  <2>6. DiskInv'
    BY <1>7, <2>1, <1>b, FitsOther, DiskPut DEF InitRelaxation
  <2>7. StartInv'
    BY <1>7, <2>1, <1>b, StepFileDiffers DEF InitRelaxation, StartInv, Starting, AtStart,
       OtherRelaxed, readable, exists, read, Put
  <2>8. SolvingInv'
    BY <1>7, <2>1, <1>b DEF InitRelaxation, StartInv, Starting, SolvingInv, Solving,
       AtStart, OtherRelaxed
  <2>9. ConvergedMeansRelaxed'
    BY <1>7, <1>a, <1>b DEF InitRelaxation, ResultInv, ConvergedMeansRelaxed
  <2>10. QED
    BY <2>2, <2>3, <2>4, <2>5, <2>6, <2>7, <2>8, <2>9 DEF IInv
<1>8. CASE (\E same \in BOOLEAN : RestartRelaxation(same))
  <2>1. /\ pc = "relax" /\ pc' \in {"begin", "error"} /\ relaxRestart /\ relaxRestart' = FALSE
        /\ UNCHANGED <<disk, mode, cycle, status, step, relaxed, solverFailed, result>>
    BY <1>8, <1>b DEF RestartRelaxation, StartInv, Starting
  <2>2. mode' = mode /\ (solverFailed => solverFailed') /\ Kinds' = Kinds
    BY <2>1 DEF Kinds
  <2>3. pc' \in PCs /\ KindInv'
    BY <2>1, <2>2, <1>a DEF PCs, KindInv
  <2>4. CycleInv' /\ StepInv' /\ FlagsInv' /\ ResultInv'
    BY <2>1, <1>a DEF CycleInv, StepInv, FlagsInv, ResultInv
  <2>5. DiskInv'
    BY <2>1, <2>2, <1>b, DiskKept
  <2>6. StartInv'
    BY <2>1, <2>2, <1>b DEF StartInv, Starting, AtStart, OtherRelaxed
  <2>7. SolvingInv'
    BY <2>1, <2>2, <1>b DEF StartInv, Starting, SolvingInv, Solving, AtStart, OtherRelaxed
  <2>8. ConvergedMeansRelaxed'
    BY <2>1, <1>a, <1>b DEF ResultInv, ConvergedMeansRelaxed
  <2>9. QED
    BY <2>3, <2>4, <2>5, <2>6, <2>7, <2>8 DEF IInv
<1>9. CASE BeginSolver
  <2>1. mode' = mode /\ (solverFailed => solverFailed') /\ Kinds' = Kinds
    BY <1>9 DEF BeginSolver, Kinds
  <2>2. pc' \in PCs /\ KindInv'
    BY <1>9, <2>1, <1>a DEF BeginSolver, PCs, KindInv
  <2>3. CycleInv' /\ StepInv' /\ FlagsInv' /\ ResultInv'
    BY <1>9, <1>a DEF BeginSolver, CycleInv, StepInv, FlagsInv, ResultInv
  <2>4. DiskInv'
    BY <1>9, <2>1, <1>b, DiskKept DEF BeginSolver
  <2>5. StartInv'
    BY <1>9, <2>1, <1>b DEF BeginSolver, StartInv, Starting, AtStart, OtherRelaxed
  <2>6. SolvingInv'
    BY <1>9, <2>1, <1>b DEF BeginSolver, SolvingInv, Solving, AtStart, OtherRelaxed
  <2>7. ConvergedMeansRelaxed'
    BY <1>9, <1>a, <1>b DEF BeginSolver, ResultInv, ConvergedMeansRelaxed
  <2>8. QED
    BY <2>2, <2>3, <2>4, <2>5, <2>6, <2>7 DEF IInv
<1>10. CASE SaveMaxForce
  <2>1. mode' = mode /\ (solverFailed => solverFailed') /\ Kinds' = Kinds
    BY <1>10 DEF SaveMaxForce, Kinds
  <2>2. pc' \in PCs /\ KindInv'
    BY <1>10, <2>1, <1>a DEF SaveMaxForce, PCs, KindInv
  <2>3. CycleInv' /\ StepInv' /\ FlagsInv' /\ ResultInv'
    BY <1>10, <1>a DEF SaveMaxForce, CycleInv, StepInv, FlagsInv, ResultInv
  <2>4. DiskInv'
    BY <1>10, <2>1, <1>b, FitsOther, DiskPut DEF SaveMaxForce
  <2>5. StartInv'
    BY <1>10, <2>1, <1>b DEF SaveMaxForce, StartInv, Starting, AtStart, OtherRelaxed
  <2>6. SolvingInv'
    BY <1>10, <2>1, <1>b DEF SaveMaxForce, SolvingInv, Solving, AtStart, OtherRelaxed
  <2>7. ConvergedMeansRelaxed'
    BY <1>10, <1>a, <1>b DEF SaveMaxForce, ResultInv, ConvergedMeansRelaxed
  <2>8. QED
    BY <2>2, <2>3, <2>4, <2>5, <2>6, <2>7 DEF IInv
<1>11. CASE SaveGeometry
  <2>1. mode' = mode /\ (solverFailed => solverFailed') /\ Kinds' = Kinds
    BY <1>11 DEF SaveGeometry, Kinds
  <2>2. pc' \in PCs /\ KindInv'
    BY <1>11, <2>1, <1>a DEF SaveGeometry, PCs, KindInv
  <2>3. CycleInv' /\ StepInv' /\ FlagsInv' /\ ResultInv'
    BY <1>11, <1>a DEF SaveGeometry, CycleInv, StepInv, FlagsInv, ResultInv
  <2>4. DiskInv'
    BY <1>11, <2>1, <1>a, <1>b, FitsGeometry, DiskPut DEF SaveGeometry, CycleInv,
       StepInv, FlagsInv, SolvingInv, Solving
  <2>5. StartInv'
    BY <1>11, <2>1, <1>b DEF SaveGeometry, StartInv, Starting, AtStart, OtherRelaxed
  <2>6. SolvingInv'
    BY <1>11, <2>1, <1>b DEF SaveGeometry, SolvingInv, Solving, AtStart, OtherRelaxed
  <2>7. ConvergedMeansRelaxed'
    BY <1>11, <1>a, <1>b DEF SaveGeometry, ResultInv, ConvergedMeansRelaxed
  <2>8. QED
    BY <2>2, <2>3, <2>4, <2>5, <2>6, <2>7 DEF IInv
<1>12. CASE SaveSolver
  <2>1. mode' = mode /\ (solverFailed => solverFailed') /\ Kinds' = Kinds
    BY <1>12 DEF SaveSolver, Kinds
  <2>2. pc' \in PCs /\ KindInv'
    BY <1>12, <2>1, <1>a DEF SaveSolver, PCs, KindInv
  <2>3. CycleInv' /\ StepInv' /\ FlagsInv' /\ ResultInv'
    BY <1>12, <1>a DEF SaveSolver, CycleInv, StepInv, FlagsInv, ResultInv
  <2>4. DiskInv'
    BY <1>12, <2>1, <1>b, FitsOther, DiskPut DEF SaveSolver
  <2>5. StartInv'
    BY <1>12, <2>1, <1>b DEF SaveSolver, StartInv, Starting, AtStart, OtherRelaxed
  <2>6. SolvingInv'
    BY <1>12, <2>1, <1>b DEF SaveSolver, SolvingInv, Solving, AtStart, OtherRelaxed
  <2>7. ConvergedMeansRelaxed'
    BY <1>12, <1>a, <1>b DEF SaveSolver, ResultInv, ConvergedMeansRelaxed
  <2>8. QED
    BY <2>2, <2>3, <2>4, <2>5, <2>6, <2>7 DEF IInv
<1>13. CASE SaveStep
  <2>1. mode' = mode /\ (solverFailed => solverFailed') /\ Kinds' = Kinds
    BY <1>13 DEF SaveStep, Kinds
  <2>2. pc' \in PCs /\ KindInv'
    BY <1>13, <2>1, <1>a DEF SaveStep, PCs, KindInv
  <2>3. CycleInv'
    BY <1>13, <1>a DEF SaveStep, CycleInv
  <2>4. StepInv'
    BY <1>13, <1>a DEF SaveStep, StepInv
  <2>5. FlagsInv' /\ ResultInv'
    BY <1>13, <1>a DEF SaveStep, FlagsInv, ResultInv
  <2>6. DiskInv'
    BY <1>13, <2>1, <1>a, <1>b, FitsStep, DiskPut DEF SaveStep, StepInv
  <2>7. StartInv'
    BY <1>13, <2>1, <1>b DEF SaveStep, StartInv, Starting, AtStart, OtherRelaxed
  <2>8. SolvingInv'
    BY <1>13, <2>1, <1>b DEF SaveStep, SolvingInv, Solving, AtStart, OtherRelaxed
  <2>9. ConvergedMeansRelaxed'
    BY <1>13, <1>a, <1>b DEF SaveStep, ResultInv, ConvergedMeansRelaxed
  <2>10. QED
    BY <2>2, <2>3, <2>4, <2>5, <2>6, <2>7, <2>8, <2>9 DEF IInv
<1>14. CASE SolverConverges
  <2>1. /\ pc = "check" /\ relaxed' \in Flags
        /\ \/ pc' = "stopped" /\ result' \in {"converged", "gaveUp"} /\ UNCHANGED <<cycle, status>>
           \/ pc' = "cellStatus" /\ mode = 2 /\ status = 0 /\ status' = 1 /\ UNCHANGED <<cycle, result>>
           \/ pc' = "cycle" /\ mode = 2 /\ status = 1 /\ status' = 0 /\ cycle' = cycle + 1 /\ result' = result
        /\ UNCHANGED <<disk, mode, step, relaxRestart>>
        /\ solverFailed' = solverFailed /\ relaxed' = [relaxed EXCEPT ![status] = TRUE]
    BY <1>14, <1>a DEF SolverConverges, HandleResult, Finish, FlagsInv, Flags
  <2>2. mode' = mode /\ (solverFailed => solverFailed') /\ Kinds' = Kinds
    BY <2>1 DEF Kinds
  <2>3. pc' \in PCs /\ KindInv'
    BY <2>1, <2>2, <1>a DEF PCs, KindInv, Kinds, Relaxation
  <2>4. CycleInv'
    <3>1. cycle \in Cycle
      BY <2>1, <1>a DEF CycleInv
    <3>2. cycle + 1 \in Cycle \/ cycle + 1 = MaxCycles
      BY <3>1 DEF Cycle
    <3>3. QED
      BY <2>1, <3>1, <3>2 DEF CycleInv
  <2>5. StepInv'
    BY <2>1, <1>a DEF StepInv
  <2>6. FlagsInv' /\ ResultInv'
    BY <2>1, <1>a DEF FlagsInv, ResultInv
  <2>7. DiskInv'
    BY <2>1, <2>2, <1>b, DiskKept
  <2>8. StartInv'
    <3>1. relaxRestart = FALSE /\ relaxed'[status] = TRUE
      BY <2>1, <1>a, <1>b DEF SolvingInv, Solving, FlagsInv, Flags
    <3>2. QED
      BY <2>1, <2>2, <3>1 DEF StartInv, Starting, AtStart, OtherRelaxed
  <2>9. SolvingInv'
    BY <2>1, <2>2, <1>b DEF SolvingInv, Solving, AtStart, OtherRelaxed
  <2>10. ConvergedMeansRelaxed'
    BY <1>14, <1>a, <1>b DEF SolverConverges, HandleResult, Finish, KindInv, Kinds,
       FlagsInv, Flags,
         Relaxation, ResultInv, SolvingInv, Solving, AtStart, OtherRelaxed,
         ConvergedMeansRelaxed
  <2>11. QED
    BY <2>3, <2>4, <2>5, <2>6, <2>7, <2>8, <2>9, <2>10 DEF IInv
<1>15. CASE (\E r \in {-1, -2, step} : SolverGivesUp(r))
  <2>1. /\ pc = "check" /\ relaxed' \in Flags
        /\ \/ pc' = "stopped" /\ result' \in {"converged", "gaveUp"} /\ UNCHANGED <<cycle, status>>
           \/ pc' = "cellStatus" /\ mode = 2 /\ status = 0 /\ status' = 1 /\ UNCHANGED <<cycle, result>>
           \/ pc' = "cycle" /\ mode = 2 /\ status = 1 /\ status' = 0 /\ cycle' = cycle + 1 /\ result' = result
        /\ UNCHANGED <<disk, mode, step, relaxRestart>>
        /\ solverFailed' = TRUE
    BY <1>15, <1>a DEF SolverGivesUp, HandleResult, Finish, FlagsInv, Flags
  <2>2. mode' = mode /\ (solverFailed => solverFailed') /\ Kinds' = Kinds
    BY <2>1 DEF Kinds
  <2>3. pc' \in PCs /\ KindInv'
    BY <2>1, <2>2, <1>a DEF PCs, KindInv, Kinds, Relaxation
  <2>4. CycleInv'
    <3>1. cycle \in Cycle
      BY <2>1, <1>a DEF CycleInv
    <3>2. cycle + 1 \in Cycle \/ cycle + 1 = MaxCycles
      BY <3>1 DEF Cycle
    <3>3. QED
      BY <2>1, <3>1, <3>2 DEF CycleInv
  <2>5. StepInv'
    BY <2>1, <1>a DEF StepInv
  <2>6. FlagsInv' /\ ResultInv'
    BY <2>1, <1>a DEF FlagsInv, ResultInv
  <2>7. DiskInv'
    BY <2>1, <2>2, <1>b, DiskKept
  <2>8. StartInv'
    BY <2>1, <2>2, <1>b DEF SolvingInv, Solving, StartInv, Starting, AtStart, OtherRelaxed
  <2>9. SolvingInv'
    BY <2>1, <2>2, <1>b DEF SolvingInv, Solving, AtStart, OtherRelaxed
  <2>10. ConvergedMeansRelaxed'
    BY <2>1, <1>a, <1>b DEF ResultInv, ConvergedMeansRelaxed
  <2>11. QED
    BY <2>3, <2>4, <2>5, <2>6, <2>7, <2>8, <2>9, <2>10 DEF IInv
<1>16. CASE SolverContinues
  <2>1. mode' = mode /\ (solverFailed => solverFailed') /\ Kinds' = Kinds
    BY <1>16 DEF SolverContinues, Kinds
  <2>2. pc' \in PCs /\ KindInv'
    BY <1>16, <2>1, <1>a DEF SolverContinues, PCs, KindInv
  <2>3. CycleInv' /\ StepInv' /\ FlagsInv' /\ ResultInv'
    BY <1>16, <1>a DEF SolverContinues, CycleInv, StepInv, FlagsInv, ResultInv
  <2>4. DiskInv'
    BY <1>16, <2>1, <1>b, DiskKept DEF SolverContinues
  <2>5. StartInv'
    BY <1>16, <2>1, <1>b DEF SolverContinues, StartInv, Starting, AtStart, OtherRelaxed
  <2>6. SolvingInv'
    BY <1>16, <2>1, <1>b DEF SolverContinues, SolvingInv, Solving, AtStart, OtherRelaxed
  <2>7. ConvergedMeansRelaxed'
    BY <1>16, <1>a, <1>b DEF SolverContinues, ResultInv, ConvergedMeansRelaxed
  <2>8. QED
    BY <2>2, <2>3, <2>4, <2>5, <2>6, <2>7 DEF IInv
<1>17. CASE update
  <2>1. /\ pc = "update" /\ pc' \in {"maxForce", "geometry"} /\ step' = step + 1 /\ relaxed' \in Flags
        /\ UNCHANGED <<disk, mode, cycle, status, relaxRestart, solverFailed, result>>
    BY <1>17 DEF update, Flags
  <2>2. mode' = mode /\ (solverFailed => solverFailed') /\ Kinds' = Kinds
    BY <2>1 DEF Kinds
  <2>3. pc' \in PCs /\ KindInv'
    BY <2>1, <2>2, <1>a DEF PCs, KindInv
  <2>4. CycleInv'
    BY <2>1, <1>a DEF CycleInv
  <2>5. StepInv'
    <3>1. step \in Step /\ step < MaxUpdates
      BY <2>1, <1>a DEF StepInv
    <3>2. step + 1 \in Step
      BY <3>1 DEF Step
    <3>3. QED
      BY <2>1, <3>2 DEF StepInv, Step
  <2>6. FlagsInv' /\ ResultInv'
    BY <2>1, <1>a DEF FlagsInv, ResultInv
  <2>7. DiskInv'
    BY <2>1, <2>2, <1>b, DiskKept
  <2>8. StartInv'
    BY <2>1, <2>2, <1>b DEF StartInv, Starting, AtStart, OtherRelaxed
  <2>9. SolvingInv'
    <3>1. step \in Step
      BY <2>1, <1>a DEF StepInv
    <3>2. step + 1 # 0
      BY <3>1 DEF Step
    <3>3. QED
      BY <2>1, <2>2, <3>2, <1>b DEF SolvingInv, Solving, AtStart
  <2>10. ConvergedMeansRelaxed'
    BY <2>1, <1>a, <1>b DEF ResultInv, ConvergedMeansRelaxed
  <2>11. QED
    BY <2>3, <2>4, <2>5, <2>6, <2>7, <2>8, <2>9, <2>10 DEF IInv
<1>18. CASE RestartJob
  <2>1. /\ pc = "down" /\ relaxRestart' = TRUE /\ relaxed' \in Flags
        /\ \/ pc' = "search" /\ cycle' \in Cycle /\ status' \in Kinds
           \/ pc' = "error" /\ cycle' = cycle /\ status' = status
        /\ UNCHANGED <<disk, mode, step, solverFailed, result>>
    BY <1>18, <1>b DEF RestartJob, Flags, DiskInv, Fits, readable, exists, read
  <2>2. mode' = mode /\ (solverFailed => solverFailed') /\ Kinds' = Kinds
    BY <2>1 DEF Kinds
  <2>3. pc' \in PCs /\ KindInv'
    BY <2>1, <2>2, <1>a DEF PCs, KindInv
  <2>4. CycleInv' /\ StepInv' /\ FlagsInv' /\ ResultInv'
    BY <2>1, <1>a DEF CycleInv, StepInv, FlagsInv, ResultInv
  <2>5. DiskInv'
    BY <2>1, <2>2, <1>b, DiskKept
  <2>6. StartInv'
    BY <2>1, <2>2, <1>b DEF StartInv, Starting, AtStart, OtherRelaxed
  <2>7. SolvingInv'
    BY <2>1, <2>2, <1>b DEF SolvingInv, Solving, AtStart, OtherRelaxed
  <2>8. ConvergedMeansRelaxed'
    BY <2>1, <1>a, <1>b DEF ResultInv, ConvergedMeansRelaxed
  <2>9. QED
    BY <2>3, <2>4, <2>5, <2>6, <2>7, <2>8 DEF IInv
<1>19. CASE ReadStep
  <2>1. /\ pc = "search"
        /\ \/ pc' = "look" /\ step' \in Step
           \/ pc' = "error" /\ step' = step
        /\ UNCHANGED <<disk, mode, cycle, status, relaxRestart, relaxed, solverFailed, result>>
    BY <1>19, <1>a, <1>b DEF ReadStep, CycleInv, DiskInv, Fits, readable, exists, read
  <2>2. mode' = mode /\ (solverFailed => solverFailed') /\ Kinds' = Kinds
    BY <2>1 DEF Kinds
  <2>3. pc' \in PCs /\ KindInv'
    BY <2>1, <2>2, <1>a DEF PCs, KindInv
  <2>4. CycleInv' /\ StepInv' /\ FlagsInv' /\ ResultInv'
    BY <2>1, <1>a DEF CycleInv, StepInv, FlagsInv, ResultInv
  <2>5. DiskInv'
    BY <2>1, <2>2, <1>b, DiskKept
  <2>6. StartInv'
    BY <2>1, <2>2, <1>b DEF StartInv, Starting, AtStart, OtherRelaxed
  <2>7. SolvingInv'
    BY <2>1, <2>2, <1>b DEF SolvingInv, Solving, AtStart, OtherRelaxed
  <2>8. ConvergedMeansRelaxed'
    BY <2>1, <1>a, <1>b DEF ResultInv, ConvergedMeansRelaxed
  <2>9. QED
    BY <2>3, <2>4, <2>5, <2>6, <2>7, <2>8 DEF IInv
<1>20. CASE FindGeometry
  <2>1. mode' = mode /\ (solverFailed => solverFailed') /\ Kinds' = Kinds
    BY <1>20 DEF FindGeometry, Kinds
  <2>2. pc' \in PCs /\ KindInv'
    BY <1>20, <2>1, <1>a DEF FindGeometry, PCs, KindInv
  <2>3. CycleInv'
    BY <1>20, <1>a DEF FindGeometry, CycleInv
  <2>4. StepInv'
    BY <1>20, <1>a DEF FindGeometry, StepInv
  <2>5. FlagsInv' /\ ResultInv'
    BY <1>20, <1>a DEF FindGeometry, FlagsInv, ResultInv
  <2>6. DiskInv'
    BY <1>20, <2>1, <1>b, DiskKept DEF FindGeometry
  <2>7. StartInv'
    BY <1>20, <2>1, <1>b DEF FindGeometry, StartInv, Starting, AtStart, OtherRelaxed
  <2>8. SolvingInv'
    BY <1>20, <2>1, <1>b DEF FindGeometry, SolvingInv, Solving, AtStart, OtherRelaxed
  <2>9. ConvergedMeansRelaxed'
    BY <1>20, <1>a, <1>b DEF FindGeometry, ResultInv, ConvergedMeansRelaxed
  <2>10. QED
    BY <2>2, <2>3, <2>4, <2>5, <2>6, <2>7, <2>8, <2>9 DEF IInv
<1>21. CASE TryOlderStep
  <2>1. mode' = mode /\ (solverFailed => solverFailed') /\ Kinds' = Kinds
    BY <1>21 DEF TryOlderStep, Kinds
  <2>2. pc' \in PCs /\ KindInv'
    BY <1>21, <2>1, <1>a DEF TryOlderStep, PCs, KindInv
  <2>3. CycleInv'
    BY <1>21, <1>a DEF TryOlderStep, CycleInv
  <2>4. StepInv'
    BY <1>21, <1>a DEF TryOlderStep, StepInv, Step
  <2>5. FlagsInv' /\ ResultInv'
    BY <1>21, <1>a DEF TryOlderStep, FlagsInv, ResultInv
  <2>6. DiskInv'
    BY <1>21, <2>1, <1>b, DiskKept DEF TryOlderStep
  <2>7. StartInv'
    BY <1>21, <2>1, <1>b DEF TryOlderStep, StartInv, Starting, AtStart, OtherRelaxed
  <2>8. SolvingInv'
    BY <1>21, <2>1, <1>b DEF TryOlderStep, SolvingInv, Solving, AtStart, OtherRelaxed
  <2>9. ConvergedMeansRelaxed'
    BY <1>21, <1>a, <1>b DEF TryOlderStep, ResultInv, ConvergedMeansRelaxed
  <2>10. QED
    BY <2>2, <2>3, <2>4, <2>5, <2>6, <2>7, <2>8, <2>9 DEF IInv
<1>22. CASE TryOtherRelaxation
  <2>1. /\ pc = "look" /\ status' \in Kinds
        /\ \/ pc' = "search" /\ cycle' \in Cycle
           \/ pc' = "error" /\ cycle' = -1
        /\ UNCHANGED <<disk, mode, step, relaxRestart, relaxed, solverFailed, result>>
    BY <1>22, <1>a DEF TryOtherRelaxation, KindInv, Kinds, Relaxation, CycleInv, Cycle
  <2>2. mode' = mode /\ (solverFailed => solverFailed') /\ Kinds' = Kinds
    BY <2>1 DEF Kinds
  <2>3. pc' \in PCs /\ KindInv'
    BY <2>1, <2>2, <1>a DEF PCs, KindInv
  <2>4. CycleInv' /\ StepInv' /\ FlagsInv' /\ ResultInv'
    BY <2>1, <1>a DEF CycleInv, StepInv, FlagsInv, ResultInv
  <2>5. DiskInv'
    BY <2>1, <2>2, <1>b, DiskKept
  <2>6. StartInv'
    BY <2>1, <2>2, <1>b DEF StartInv, Starting, AtStart, OtherRelaxed
  <2>7. SolvingInv'
    BY <2>1, <2>2, <1>b DEF SolvingInv, Solving, AtStart, OtherRelaxed
  <2>8. ConvergedMeansRelaxed'
    BY <2>1, <1>a, <1>b DEF ResultInv, ConvergedMeansRelaxed
  <2>9. QED
    BY <2>3, <2>4, <2>5, <2>6, <2>7, <2>8 DEF IInv
<1>23. CASE Resume
  <2>1. /\ pc = "found" /\ disk' = Put(stepChk(cycle, status), <<step>>)
        /\ \/ pc' = "cycle" /\ relaxed' \in Flags /\ AtStart(cycle, status, step, relaxed')
           \/ pc' = "error" /\ relaxed' = relaxed
        /\ UNCHANGED <<mode, cycle, status, step, relaxRestart, solverFailed, result>>
    BY <1>23, <1>a, <1>b DEF Resume, CycleInv, StepInv, DiskInv, Fits, readable, exists,
       read
  <2>2. mode' = mode /\ (solverFailed => solverFailed') /\ Kinds' = Kinds
    BY <2>1 DEF Kinds
  <2>3. pc' \in PCs /\ KindInv'
    BY <2>1, <2>2, <1>a DEF PCs, KindInv
  <2>4. CycleInv' /\ StepInv' /\ FlagsInv' /\ ResultInv'
    BY <2>1, <1>a DEF CycleInv, StepInv, FlagsInv, ResultInv
  <2>5. DiskInv'
    BY <2>1, <2>2, <1>a, <1>b, FitsStep, DiskPut DEF StepInv
  <2>6. StartInv'
    <3>1. disk'[stepChk(cycle, status)][1] = step
      BY <2>1 DEF Put
    <3>2. pc' = "cycle" => AtStart(cycle, status, step, relaxed)'
      BY <2>1, <2>2 DEF AtStart, OtherRelaxed
    <3>3. QED
      BY <2>1, <1>a, <3>1, <3>2 DEF StartInv, Starting, FlagsInv, read
  <2>7. SolvingInv'
    BY <2>1, <2>2, <1>b DEF SolvingInv, Solving, AtStart, OtherRelaxed
  <2>8. ConvergedMeansRelaxed'
    BY <2>1, <1>a, <1>b DEF ResultInv, ConvergedMeansRelaxed
  <2>9. QED
    BY <2>3, <2>4, <2>5, <2>6, <2>7, <2>8 DEF IInv
<1>24. CASE Crash
  <2>1. mode' = mode /\ (solverFailed => solverFailed') /\ Kinds' = Kinds
    BY <1>24 DEF Crash, Kinds
  <2>2. pc' \in PCs /\ KindInv'
    BY <1>24, <2>1, <1>a DEF Crash, PCs, KindInv
  <2>3. CycleInv' /\ StepInv' /\ FlagsInv' /\ ResultInv'
    BY <1>24, <1>a DEF Crash, CycleInv, StepInv, FlagsInv, ResultInv
  <2>4. DiskInv'
    BY <1>24, <2>1, <1>b, FitsEmpty, DiskPut, DiskRemove, DiskKept DEF Crash
  <2>5. StartInv'
    BY <1>24, <2>1, <1>b DEF Crash, StartInv, Starting, AtStart, OtherRelaxed
  <2>6. SolvingInv'
    BY <1>24, <2>1, <1>b DEF Crash, SolvingInv, Solving, AtStart, OtherRelaxed
  <2>7. ConvergedMeansRelaxed'
    BY <1>24, <1>a, <1>b DEF Crash, ResultInv, ConvergedMeansRelaxed
  <2>8. QED
    BY <2>2, <2>3, <2>4, <2>5, <2>6, <2>7 DEF IInv
<1>25. CASE Terminated
  <2>1. mode' = mode /\ (solverFailed => solverFailed') /\ Kinds' = Kinds
    BY <1>25 DEF Terminated, Kinds
  <2>2. pc' \in PCs /\ KindInv'
    BY <1>25, <2>1, <1>a DEF Terminated, PCs, KindInv
  <2>3. CycleInv' /\ StepInv' /\ FlagsInv' /\ ResultInv'
    BY <1>25, <1>a DEF Terminated, CycleInv, StepInv, FlagsInv, ResultInv
  <2>4. DiskInv'
    BY <1>25, <2>1, <1>b, DiskKept DEF Terminated
  <2>5. StartInv'
    BY <1>25, <2>1, <1>b DEF Terminated, StartInv, Starting, AtStart, OtherRelaxed
  <2>6. SolvingInv'
    BY <1>25, <2>1, <1>b DEF Terminated, SolvingInv, Solving, AtStart, OtherRelaxed
  <2>7. ConvergedMeansRelaxed'
    BY <1>25, <1>a, <1>b DEF Terminated, ResultInv, ConvergedMeansRelaxed
  <2>8. QED
    BY <2>2, <2>3, <2>4, <2>5, <2>6, <2>7 DEF IInv
<1>26. CASE UNCHANGED vars
  <2>1. mode' = mode /\ (solverFailed => solverFailed') /\ Kinds' = Kinds
    BY <1>26 DEF Kinds
  <2>2. pc' \in PCs /\ KindInv'
    BY <1>26, <2>1, <1>a DEF PCs, KindInv
  <2>3. CycleInv' /\ StepInv' /\ FlagsInv' /\ ResultInv'
    BY <1>26, <1>a DEF CycleInv, StepInv, FlagsInv, ResultInv
  <2>4. DiskInv'
    BY <1>26, <2>1, <1>b, DiskKept
  <2>5. StartInv'
    BY <1>26, <2>1, <1>b DEF StartInv, Starting, AtStart, OtherRelaxed, readable, exists,
       read
  <2>6. SolvingInv'
    BY <1>26, <2>1, <1>b DEF SolvingInv, Solving, AtStart, OtherRelaxed
  <2>7. ConvergedMeansRelaxed'
    BY <1>26, <1>a, <1>b DEF ResultInv, ConvergedMeansRelaxed
  <2>8. QED
    BY <2>2, <2>3, <2>4, <2>5, <2>6, <2>7 DEF IInv
<1>27. QED
  BY <1>1, <1>2, <1>3, <1>4, <1>5, <1>6, <1>7, <1>8, <1>9, <1>10, <1>11, <1>12, <1>13,
     <1>14, <1>15, <1>16, <1>17, <1>18, <1>19, <1>20, <1>21, <1>22, <1>23, <1>24, <1>25,
     <1>26 DEF Next, Work

\* The types, what the files may hold, and what a relaxation starts from.
THEOREM Invariant == Spec => []IInv
BY InitIInv, StepIInv, PTL DEF Spec

\* Whatever crashes and restarts, the driver's variables stay in their ranges and
\* cycle.chk and step.chk name a cycle and a step that there can be.
THEOREM TypeCorrect == Spec => []TypeOK
<1>1. IInv => TypeOK
  <2> SUFFICES ASSUME IInv PROVE TypeOK
    OBVIOUS
  <2>1. cycle \in -1 .. MaxCycles /\ step \in -1 .. MaxUpdates
    BY BoundsAssumption DEF IInv, CycleInv, StepInv, Cycle, Step
  <2>2. readable(cycleChk) => read(cycleChk) \in 0 .. MaxCycles - 1
    BY DEF IInv, DiskInv, Fits, readable, exists, read, Cycle
  <2>3. \A c \in 0 .. MaxCycles - 1 : \A s \in Relaxation :
          readable(stepChk(c, s)) => read(stepChk(c, s)) \in Step
    BY DEF IInv, DiskInv, Fits, readable, exists, read, Cycle
  <2>4. QED
    BY <2>1, <2>2, <2>3 DEF IInv, KindInv, Kinds, ResultInv, TypeOK
<1>2. QED
  BY <1>1, Invariant, PTL

\* However often the job is killed - in the middle of a save, before step.chk or
\* while it searches for files - and however many cycles and updates there are:
\* runOpt reports success only if what the mode asks for is relaxed at the
\* geometry it ends with, unless some solver gave up.
THEOREM ConvergedIsRelaxed == Spec => []ConvergedMeansRelaxed
<1>1. IInv => ConvergedMeansRelaxed
  BY DEF IInv
<1>2. QED
  BY <1>1, Invariant, PTL

-----------------------------------------------------------------------------
\* The search for files passes through the relaxations from the last one back to
\* the ions of cycle 0, and through the steps of each.
SearchPlace == 2 * cycle + status
SearchLeft == IF pc = "search" THEN MaxUpdates + 2 ELSE step + 1

SearchIsBounded ==
  Searching => SearchPlace \in 0 .. 2 * MaxCycles - 1 /\ SearchLeft \in 0 .. MaxUpdates + 2

SearchGoesBack ==
  Searching /\ Searching' /\ mode = 2 =>
    \/ SearchPlace' < SearchPlace
    \/ SearchPlace' = SearchPlace /\ SearchLeft' < SearchLeft

LEMMA SearchBounds == IInv => SearchIsBounded
<1> SUFFICES ASSUME IInv, Searching PROVE SearchIsBounded
  BY DEF SearchIsBounded
<1>1. MaxCycles \in Nat /\ MaxUpdates \in Nat /\ pc \in {"search", "look"}
  BY BoundsAssumption DEF Searching
<1>2. cycle \in 0 .. MaxCycles - 1 /\ status \in {0, 1} /\ step \in -1 .. MaxUpdates
  BY <1>1, KindsAreRelaxations DEF IInv, CycleInv, KindInv, StepInv, Cycle, Step, Relaxation
<1>3. SearchPlace \in 0 .. 2 * MaxCycles - 1
  BY <1>1, <1>2 DEF SearchPlace
<1>4. SearchLeft \in 0 .. MaxUpdates + 2
  BY <1>1, <1>2 DEF SearchLeft
<1>5. QED
  BY <1>3, <1>4 DEF SearchIsBounded

LEMMA OneLess ==
  ASSUME NEW a \in Int, NEW b \in Int, a <= b
  PROVE  a + 1 < b + 2
OBVIOUS

LEMMA SearchStep ==
  ASSUME Verbosity > 0, IInv, IInv', Next, Searching, Searching', mode = 2
  PROVE  SearchGoesBack
<1>1. /\ MaxUpdates \in Nat /\ cycle \in Int /\ status \in {0, 1} /\ step \in -1 .. MaxUpdates
      /\ MaxCycles \in Nat
  BY BoundsAssumption, KindsAreRelaxations
     DEF IInv, CycleInv, KindInv, StepInv, Cycle, Step, Relaxation
<1>2. step' \in Int /\ step' <= MaxUpdates
  <2>1. step' \in 0 .. MaxUpdates \/ step' = -1
    BY DEF IInv, StepInv, Step
  <2>2. QED
    BY <1>1, <2>1
<1>3. CASE ReadStep
  <2>1. /\ pc = "search" /\ pc' = "look" /\ cycle' = cycle /\ status' = status
    BY <1>3 DEF ReadStep, goto, Searching, driver
  <2>2. SearchPlace' = SearchPlace
    BY <2>1 DEF SearchPlace
  <2>3. SearchLeft = MaxUpdates + 2 /\ SearchLeft' = step' + 1
    BY <2>1 DEF SearchLeft
  <2>4. SearchLeft' < SearchLeft
    <3>1. MaxUpdates \in Int
      BY <1>1
    <3>2. step' + 1 < MaxUpdates + 2
      BY <1>2, <3>1, OneLess
    <3>3. QED
      BY <3>2, <2>3, Zenon
  <2>5. QED
    BY <2>2, <2>4 DEF SearchGoesBack
<1>4. CASE TryOlderStep
  <2>1. /\ pc = "look" /\ pc' = "look" /\ cycle' = cycle /\ status' = status /\ step' = step - 1
    BY <1>4 DEF TryOlderStep, driver
  <2>2. SearchPlace' = SearchPlace /\ SearchLeft' < SearchLeft
    BY <1>1, <2>1 DEF SearchPlace, SearchLeft
  <2>3. QED
    BY <2>2 DEF SearchGoesBack
<1>5. CASE TryOtherRelaxation
  <2>1. /\ cycle' = IF status = 0 THEN cycle - 1 ELSE cycle
        /\ status' = 1 - status
    BY <1>5 DEF TryOtherRelaxation
  <2>2. SearchPlace' < SearchPlace
    BY <1>1, <2>1 DEF SearchPlace
  <2>3. QED
    BY <2>2 DEF SearchGoesBack
<1>6. ASSUME ~ReadStep, ~TryOlderStep, ~TryOtherRelaxation PROVE FALSE
  BY <1>6
     DEF Next, Searching, Work, Crash, Terminated, goto,
         WriteOptData, StartCycle, WriteStatus, FirstSolve, WriteCellStatus,
         trivialSolveForStress, InitRelaxation, RestartRelaxation, BeginSolver,
         SaveMaxForce, SaveGeometry, SaveSolver, SaveStep, SolverConverges, SolverGivesUp,
         SolverContinues, update, RestartJob, FindGeometry, Resume
<1>7. QED
  BY <1>3, <1>4, <1>5, <1>6

\* Whatever the crashes left on disk, each turn of the search for restart files in a
\* combined optimization lowers a pair of numbers that are bounded by the cycles and
\* the updates, if messages are on: so the loop of geometryOptimizationClass::init can
\* neither go on for ever nor come to a file twice.
THEOREM SearchDescends ==
  Verbosity > 0 => (Spec => []SearchIsBounded /\ [][SearchGoesBack]_vars)
<1> SUFFICES ASSUME Verbosity > 0
             PROVE  Spec => []SearchIsBounded /\ [][SearchGoesBack]_vars
  OBVIOUS
<1>1. IInv /\ IInv' /\ [Next]_vars => [SearchGoesBack]_vars
  BY SearchStep DEF SearchGoesBack
<1>2. QED
  BY <1>1, SearchBounds, Invariant, PTL DEF Spec

-----------------------------------------------------------------------------
\* The history of saves.  Positions are compared as the optimization passes
\* through them; a driver that has used up its cycles is past all of them.
Places == Int \X Int \X Int
Positions == Cycle \X Relaxation \X Step
Saves == {saved[i] : i \in 1 .. Len(saved)}
Last == saved[Len(saved)]

\* Saves are in order, not only those next to each other.
Ordered == \A i, j \in 1 .. Len(saved) : i < j => Before(saved[i], saved[j])

\* What comes next is not before the last save, and after it unless the job
\* was restarted from it.
NextIsLater ==
  saved # <<>> =>
    /\ pc \in Starting => IF relaxRestart THEN ~Before(Position, Last)
                                          ELSE Before(Last, <<cycle, status, 0>>)
    /\ pc \in Solving => ~Before(Position, Last)

OrderInv == saved \in Seq(Positions) /\ Ordered /\ NextIsLater

\* Before is a total order on places.
LEMMA BeforeOrders ==
  ASSUME NEW x \in Places, NEW y \in Places, NEW z \in Places
  PROVE  /\ ~Before(x, x)
         /\ Before(x, y) /\ Before(y, z) => Before(x, z)
         /\ Before(x, y) => ~Before(y, x)
         /\ ~Before(x, y) /\ ~Before(y, x) => x = y
         /\ ~Before(y, x) /\ Before(y, z) => Before(x, z)
         /\ Before(x, y) /\ ~Before(z, y) => Before(x, z)
BY DEF Before, Places

LEMMA PositionsArePlaces == Positions \subseteq Places
BY BoundsAssumption DEF Positions, Places, Cycle, Relaxation, Step

\* Every save is the last one or before it, and the last one is a save.
LEMMA LastIsLatest ==
  ASSUME saved \in Seq(Positions), Ordered, NEW p \in Saves
  PROVE  saved # <<>> /\ Last \in Saves /\ Last \in Positions /\ p \in Positions
         /\ (p = Last \/ Before(p, Last))
<1>1. PICK i \in 1 .. Len(saved) : p = saved[i]
  BY DEF Saves
<1>2. Len(saved) \in 1 .. Len(saved) /\ saved # <<>>
  BY <1>1
<1>3. Last \in Saves /\ Last \in Positions /\ p \in Positions
  BY <1>1, <1>2 DEF Saves, Last
<1>4. i = Len(saved) \/ i < Len(saved)
  BY <1>1
<1>5. QED
  BY <1>1, <1>2, <1>3, <1>4 DEF Ordered, Last

LEMMA LastIsASave ==
  ASSUME saved \in Seq(Positions), saved # <<>>
  PROVE  Last \in Saves /\ Last \in Positions /\ Len(saved) \in 1 .. Len(saved)
BY DEF Saves, Last

\* A save that is appended to saves it is after.
LEMMA AppendOrders ==
  ASSUME saved \in Seq(Positions), Ordered, NEW q \in Positions,
         saved # <<>> => Before(Last, q), saved' = Append(saved, q)
  PROVE  saved' \in Seq(Positions) /\ Ordered' /\ Last' = q /\ saved' # <<>>
         /\ Saves' = Saves \cup {q}
<1>1. /\ saved' \in Seq(Positions)
      /\ Len(saved') = Len(saved) + 1
      /\ Len(saved) \in Nat
      /\ saved'[Len(saved) + 1] = q
      /\ \A i \in 1 .. Len(saved) : saved'[i] = saved[i]
  OBVIOUS
<1>2. Last' = q /\ saved' # <<>>
  BY <1>1 DEF Last
<1>3. Saves' = Saves \cup {q}
  <2>1. 1 .. Len(saved') = (1 .. Len(saved)) \cup {Len(saved) + 1}
    BY <1>1
  <2>2. QED
    BY <1>1, <2>1 DEF Saves
<1>4. Ordered'
  <2> SUFFICES ASSUME NEW i \in 1 .. Len(saved'), NEW j \in 1 .. Len(saved'), i < j
               PROVE  Before(saved'[i], saved'[j])
    BY DEF Ordered, Before
  <2>1. CASE j \in 1 .. Len(saved)
    <3>1. i \in 1 .. Len(saved)
      BY <1>1, <2>1
    <3>2. QED
      BY <1>1, <2>1, <3>1 DEF Ordered
  <2>2. CASE j \notin 1 .. Len(saved)
    <3>1. j = Len(saved) + 1 /\ i \in 1 .. Len(saved)
      BY <1>1, <2>2
    <3>2. saved'[i] \in Saves /\ saved'[i] = saved[i]
      BY <1>1, <3>1 DEF Saves
    <3>3. (saved[i] = Last \/ Before(saved[i], Last)) /\ Before(Last, q)
          /\ saved[i] \in Places /\ Last \in Places /\ q \in Places
      BY <3>2, LastIsLatest, PositionsArePlaces
    <3>4. Before(saved[i], q)
      BY <3>3, BeforeOrders
    <3>5. QED
      BY <1>1, <3>1, <3>2, <3>4
  <2>3. QED
    BY <2>1, <2>2
<1>5. QED
  BY <1>1, <1>2, <1>3, <1>4

\* The saves up to a position are a prefix, and those that are not after it.
LEMMA PrefixOrders ==
  ASSUME saved \in Seq(Positions), Ordered, NEW n \in 0 .. Len(saved), UpTo(n),
         Position \in Places, saved' = SubSeq(saved, 1, n)
  PROVE  /\ saved' \in Seq(Positions) /\ Ordered'
         /\ Saves' = {p \in Saves : ~Before(Position, p)}
         /\ saved' # <<>> => Last' \in Saves /\ ~Before(Position, Last')
<1>1. /\ saved' \in Seq(Positions)
      /\ Len(saved') = n
      /\ \A i \in 1 .. n : saved'[i] = saved[i]
      /\ Len(saved) \in Nat
  BY SubSeqProperties
<1>2. Ordered'
  <2> SUFFICES ASSUME NEW i \in 1 .. Len(saved'), NEW j \in 1 .. Len(saved'), i < j
               PROVE  Before(saved'[i], saved'[j])
    BY DEF Ordered, Before
  <2>1. i \in 1 .. Len(saved) /\ j \in 1 .. Len(saved)
    BY <1>1
  <2>2. QED
    BY <1>1, <2>1 DEF Ordered
<1>3. \A i \in 1 .. Len(saved) : i > n => Before(Position, saved[i])
  <2> SUFFICES ASSUME NEW i \in 1 .. Len(saved), i > n PROVE Before(Position, saved[i])
    OBVIOUS
  <2>1. n < Len(saved) /\ n + 1 \in 1 .. Len(saved) /\ (i = n + 1 \/ n + 1 < i)
    BY <1>1
  <2>2. Before(Position, saved[n + 1])
    BY <2>1 DEF UpTo
  <2>3. saved[n + 1] \in Places /\ saved[i] \in Places
    BY <2>1, PositionsArePlaces
  <2>4. i = n + 1 \/ Before(saved[n + 1], saved[i])
    BY <2>1 DEF Ordered
  <2>5. QED
    BY <2>2, <2>3, <2>4, BeforeOrders
<1>4. Saves' = {p \in Saves : ~Before(Position, p)}
  <2>1. \A p \in Saves' : p \in Saves /\ ~Before(Position, p)
    <3> SUFFICES ASSUME NEW i \in 1 .. n PROVE saved[i] \in Saves /\ ~Before(Position, saved[i])
      BY <1>1 DEF Saves
    <3>1. QED
      BY DEF Saves, UpTo
  <2>2. \A p \in Saves : ~Before(Position, p) => p \in Saves'
    <3> SUFFICES ASSUME NEW i \in 1 .. Len(saved), ~Before(Position, saved[i])
                 PROVE  saved[i] \in Saves'
      BY DEF Saves
    <3>1. i \in 1 .. n
      BY <1>1, <1>3
    <3>2. QED
      BY <1>1, <3>1 DEF Saves
  <2>3. QED
    BY <2>1, <2>2
<1>5. saved' # <<>> => Last' \in Saves'
  <2> SUFFICES ASSUME saved' # <<>> PROVE Last' \in Saves'
    OBVIOUS
  <2>1. Len(saved') \in 1 .. Len(saved')
    BY <1>1
  <2>2. QED
    BY <2>1 DEF Last, Saves
<1>6. QED
  BY <1>1, <1>2, <1>4, <1>5

-----------------------------------------------------------------------------
\* Steps that leave the saves alone: the driver or the solver goes on with the
\* same relaxation, or there is none.
LEMMA OrderKept ==
  ASSUME OrderInv, UNCHANGED <<saved, cycle, status, step, relaxRestart>>,
         pc' \in Starting => pc \in Starting, pc' \in Solving => pc \in Solving
  PROVE  OrderInv'
<1>1. Ordered' /\ saved' \in Seq(Positions)
  BY DEF OrderInv, Ordered, Before
<1>2. NextIsLater'
  BY DEF OrderInv, NextIsLater, Position, Last, Before
<1>3. QED
  BY <1>1, <1>2 DEF OrderInv

LEMMA OrderIdle ==
  ASSUME OrderInv, saved' = saved, pc' \notin Starting \cup Solving
  PROVE  OrderInv'
<1>1. Ordered' /\ saved' \in Seq(Positions)
  BY DEF OrderInv, Ordered, Before
<1>2. NextIsLater'
  BY DEF NextIsLater
<1>3. QED
  BY <1>1, <1>2 DEF OrderInv

\* Where the cycle, the step and the kind of the relaxation are known.
LEMMA InPlaces ==
  ASSUME IInv
  PROVE  /\ cycle \in Int /\ status \in Relaxation /\ step \in Int /\ Position \in Places
         /\ pc \in Solving \cup {"look", "found"} => cycle \in Cycle
         /\ pc \in Solving => Position \in Positions /\ step \in Step /\ ~relaxRestart
<1>1. cycle \in Int /\ step \in Int
  BY BoundsAssumption DEF IInv, CycleInv, StepInv, Cycle, Step
<1>2. status \in Relaxation
  BY KindsAreRelaxations DEF IInv, KindInv
<1>3. pc \in Solving \cup {"look", "found"} => cycle \in Cycle
  BY DEF IInv, CycleInv, Solving
<1>4. pc \in Solving => step \in Step /\ ~relaxRestart
  BY DEF IInv, StepInv, SolvingInv, Solving
<1>5. QED
  BY <1>1, <1>2, <1>3, <1>4 DEF Position, Places, Positions, Relaxation

\* The last save is not after the relaxation that runs: the next one is after it.
LEMMA LaterThanLast ==
  ASSUME IInv, OrderInv, pc \in Solving, NEW q \in Places, Before(Position, q)
  PROVE  saved # <<>> => Before(Last, q)
BY BeforeOrders, LastIsASave, PositionsArePlaces, InPlaces DEF OrderInv, NextIsLater

LEMMA InitOrderInv == Init => OrderInv
<1> SUFFICES ASSUME Init PROVE OrderInv
  OBVIOUS
<1>1. <<>> \in Seq(Positions)
  OBVIOUS
<1>2. QED
  BY <1>1 DEF Init, OrderInv, Ordered, NextIsLater

\* Every operation keeps the saves in order, and the driver not behind them.
LEMMA StepOrderInv == IInv /\ OrderInv /\ [Next]_vars => OrderInv'
<1> SUFFICES ASSUME IInv, OrderInv, [Next]_vars PROVE OrderInv'
  OBVIOUS
<1> USE DEF driver, relaxation, physics, history, vars, goto
<1>1. CASE WriteOptData
  BY <1>1, OrderKept DEF WriteOptData, Starting, Solving
<1>2. CASE StartCycle
  BY <1>2, OrderKept DEF StartCycle, Starting, Solving
<1>3. CASE WriteStatus
  BY <1>3, OrderKept DEF WriteStatus, Starting, Solving
<1>4. CASE FirstSolve
  BY <1>4, OrderKept DEF FirstSolve, Starting, Solving
<1>5. CASE WriteCellStatus
  BY <1>5, OrderKept DEF WriteCellStatus, Starting, Solving
<1>6. CASE trivialSolveForStress
  BY <1>6, OrderKept DEF trivialSolveForStress, Starting, Solving
<1>7. CASE InitRelaxation
  <2>1. /\ pc = "relax" /\ ~relaxRestart /\ pc' = "begin"
        /\ UNCHANGED <<saved, cycle, status>> /\ step' = 0
    BY <1>7 DEF InitRelaxation
  <2>2. Ordered' /\ saved' \in Seq(Positions)
    BY <2>1 DEF OrderInv, Ordered, Before
  <2>3. saved # <<>> => Before(Last, <<cycle, status, 0>>)
    BY <2>1 DEF OrderInv, NextIsLater, Starting
  <2>4. saved # <<>> => ~Before(<<cycle, status, 0>>, Last)
    <3>1. <<cycle, status, 0>> \in Places
      BY InPlaces DEF Places, Relaxation
    <3>2. QED
      BY <2>3, <3>1, BeforeOrders, LastIsASave, PositionsArePlaces DEF OrderInv
  <2>5. Last' = Last /\ Position' = <<cycle, status, 0>>
    BY <2>1 DEF Last, Position
  <2>6. NextIsLater'
    BY <2>1, <2>4, <2>5 DEF NextIsLater, Starting, Before
  <2>7. QED
    BY <2>2, <2>6 DEF OrderInv
<1>8. CASE (\E same \in BOOLEAN : RestartRelaxation(same))
  <2>1. /\ pc = "relax" /\ pc' \in {"begin", "error"} /\ relaxRestart
        /\ UNCHANGED <<saved, cycle, status, step>>
    BY <1>8 DEF RestartRelaxation, IInv, StartInv, Starting
  <2>2. Ordered' /\ saved' \in Seq(Positions)
    BY <2>1 DEF OrderInv, Ordered, Before
  <2>3. Last' = Last /\ Position' = Position
    BY <2>1 DEF Last, Position
  <2>4. NextIsLater'
    BY <2>1, <2>3 DEF OrderInv, NextIsLater, Starting, Before
  <2>5. QED
    BY <2>2, <2>4 DEF OrderInv
<1>9. CASE BeginSolver
  BY <1>9, OrderKept, OrderIdle DEF BeginSolver, Starting, Solving
<1>10. CASE SaveMaxForce
  BY <1>10, OrderKept DEF SaveMaxForce, Starting, Solving
<1>11. CASE SaveGeometry
  BY <1>11, OrderKept DEF SaveGeometry, Starting, Solving
<1>12. CASE SaveSolver
  BY <1>12, OrderKept DEF SaveSolver, Starting, Solving
<1>13. CASE SaveStep
  <2>1. /\ pc = "step" /\ pc' = "check" /\ UNCHANGED <<cycle, status, step, relaxRestart>>
        /\ \/ saved # <<>> /\ Last = Position /\ saved' = saved
           \/ ~(saved # <<>> /\ Last = Position) /\ saved' = Append(saved, Position)
    BY <1>13 DEF SaveStep, Last
  <2>2. Position \in Positions /\ Position' = Position
    BY <2>1, InPlaces DEF Solving, Position
  <2>3. CASE saved' = saved
    BY <2>1, <2>3, OrderKept DEF Starting, Solving
  <2>4. CASE ~(saved # <<>> /\ Last = Position) /\ saved' = Append(saved, Position)
    <3>1. saved # <<>> => Before(Last, Position)
      BY <2>1, <2>2, <2>4, BeforeOrders, LastIsASave, PositionsArePlaces
      DEF OrderInv, NextIsLater, Solving
    <3>2. saved' \in Seq(Positions) /\ Ordered' /\ Last' = Position
      BY <2>2, <2>4, <3>1, AppendOrders DEF OrderInv
    <3>3. NextIsLater'
      BY <2>1, <2>2, <3>2, BeforeOrders, PositionsArePlaces DEF NextIsLater, Starting, Before
    <3>4. QED
      BY <3>2, <3>3 DEF OrderInv
  <2>5. QED
    BY <2>1, <2>3, <2>4
<1>14. CASE SolverConverges \/ (\E r \in {-1, -2, step} : SolverGivesUp(r))
  <2>1. /\ pc = "check" /\ UNCHANGED <<saved, step, relaxRestart>>
        /\ \/ pc' = "stopped"
           \/ pc' = "cellStatus" /\ status = 0 /\ status' = 1 /\ cycle' = cycle
           \/ pc' = "cycle" /\ status = 1 /\ status' = 0 /\ cycle' = cycle + 1
    BY <1>14 DEF SolverConverges, SolverGivesUp, HandleResult, Finish
  <2>2. CASE pc' = "stopped"
    BY <2>1, <2>2, OrderIdle DEF Starting, Solving
  <2>3. CASE pc' # "stopped"
    <3> DEFINE q == <<cycle', status', 0>>
    <3>0. cycle \in Int /\ status \in Int /\ step \in Int
      BY InPlaces DEF Relaxation
    <3>a. saved' = saved
      BY <2>1
    <3>1. Position \in Places /\ ~relaxRestart
      BY <2>1, InPlaces DEF Solving
    <3>2. q \in Places /\ Before(Position, q)
      <4>1. CASE cycle' = cycle /\ status = 0 /\ status' = 1
        BY <3>0, <4>1 DEF Places, Position, Before
      <4>2. CASE cycle' = cycle + 1 /\ status' = 0
        BY <3>0, <4>2 DEF Places, Position, Before
      <4>3. QED
        BY <2>1, <2>3, <4>1, <4>2
    <3> HIDE DEF q
    <3>3. saved # <<>> => Before(Last, q)
      BY <2>1, <3>2, LaterThanLast DEF Solving
    <3>4. Ordered' /\ saved' \in Seq(Positions) /\ Last' = Last
      BY <3>a DEF OrderInv, Ordered, Before, Last
    <3>5. NextIsLater'
      BY <2>1, <2>3, <3>1, <3>3, <3>4 DEF NextIsLater, Starting, Solving, Before, q
    <3>6. QED
      BY <3>4, <3>5 DEF OrderInv
  <2>4. QED
    BY <2>2, <2>3
<1>16. CASE SolverContinues
  BY <1>16, OrderKept DEF SolverContinues, Starting, Solving
<1>17. CASE update
  <2>1. /\ pc = "update" /\ pc' \in {"maxForce", "geometry"}
        /\ UNCHANGED <<saved, cycle, status, relaxRestart>> /\ step' = step + 1
    BY <1>17 DEF update
  <2>2. Position \in Places /\ Position' \in Places /\ Before(Position, Position')
    <3>1. cycle \in Int /\ status \in Int /\ step \in Int /\ Position \in Places
      BY InPlaces DEF Relaxation
    <3>2. Position' = <<cycle, status, step + 1>>
      BY <2>1 DEF Position
    <3>3. QED
      BY <3>1, <3>2 DEF Places, Position, Before
  <2>3. saved # <<>> => Before(Last, Position')
    BY <2>1, <2>2, LaterThanLast DEF Solving
  <2>4. Ordered' /\ saved' \in Seq(Positions) /\ Last' = Last
    BY <2>1 DEF OrderInv, Ordered, Before, Last
  <2>5. saved # <<>> => ~Before(Position', Last)
    BY <2>2, <2>3, BeforeOrders, LastIsASave, PositionsArePlaces DEF OrderInv
  <2>6. NextIsLater'
    BY <2>1, <2>4, <2>5 DEF NextIsLater, Starting, Before
  <2>7. QED
    BY <2>4, <2>6 DEF OrderInv
<1>18. CASE RestartJob
  BY <1>18, OrderIdle DEF RestartJob, Starting, Solving
<1>19. CASE ReadStep
  BY <1>19, OrderIdle DEF ReadStep, Starting, Solving
<1>20. CASE FindGeometry
  BY <1>20, OrderIdle DEF FindGeometry, Starting, Solving
<1>21. CASE TryOlderStep
  BY <1>21, OrderIdle DEF TryOlderStep, Starting, Solving
<1>22. CASE TryOtherRelaxation
  BY <1>22, OrderIdle DEF TryOtherRelaxation, Starting, Solving
<1>23. CASE Resume
  <2>1. /\ pc = "found" /\ pc' \in {"cycle", "error"} /\ relaxRestart
        /\ UNCHANGED <<cycle, status, step, relaxRestart>>
    BY <1>23 DEF Resume, IInv, FlagsInv
  <2>2. PICK n \in 0 .. Len(saved) : UpTo(n) /\ saved' = SubSeq(saved, 1, n)
    BY <1>23 DEF Resume
  <2>3. /\ saved' \in Seq(Positions) /\ Ordered'
        /\ saved' # <<>> => ~Before(Position, Last')
    BY <2>2, PrefixOrders, InPlaces DEF OrderInv
  <2>4. Position' = Position
    BY <2>1 DEF Position
  <2>5. NextIsLater'
    BY <2>1, <2>3, <2>4 DEF NextIsLater, Starting, Solving, Before
  <2>6. QED
    BY <2>3, <2>5 DEF OrderInv
<1>24. CASE Crash
  BY <1>24, OrderIdle DEF Crash, Starting, Solving
<1>25. CASE Terminated
  BY <1>25, OrderKept DEF Terminated
<1>26. CASE UNCHANGED vars
  BY <1>26, OrderKept
<1>27. QED
  BY <1>1, <1>2, <1>3, <1>4, <1>5, <1>6, <1>7, <1>8, <1>9, <1>10, <1>11, <1>12, <1>13,
     <1>14, <1>16, <1>17, <1>18, <1>19, <1>20, <1>21, <1>22, <1>23, <1>24, <1>25,
     <1>26 DEF Next, Work

\* However often the job is killed and resumed from older files, its saves are
\* made in the order of cycles, of ions before the cell, and of steps.
THEOREM SavesAdvance == Spec => []CheckpointsAdvance
<1>1. OrderInv => CheckpointsAdvance
  BY DEF OrderInv, Ordered, CheckpointsAdvance
<1>2. QED
  BY <1>1, InitOrderInv, StepOrderInv, Invariant, PTL DEF Spec

-----------------------------------------------------------------------------
\* What the checkpoint files say about the saves that are complete.
Says(f, x) == readable(f) => read(f) = x
FileOf(p) == geometry(p[1], p[2], p[3])

\* The files that a restart goes by name nothing before p, and p itself.
NotOlder(p) ==
  /\ readable(cycleChk) => read(cycleChk) >= p[1]
  /\ readable(statusChk(p[1])) => read(statusChk(p[1])) >= p[2]
  /\ readable(stepChk(p[1], p[2])) => read(stepChk(p[1], p[2])) >= p[3]

Exactly(p) ==
  Says(cycleChk, p[1]) /\ Says(statusChk(p[1]), p[2]) /\ Says(stepChk(p[1], p[2]), p[3])

\* While a relaxation runs, they name it.
PointersInv ==
  /\ pc \in (Starting \cup Solving) \ {"new", "cycle"} => Says(cycleChk, cycle)
  /\ pc \in {"solve", "stress", "relax"} \cup Solving => Says(statusChk(cycle), status)
  /\ pc \in Solving /\ saved # <<>> /\ Last = Position => Says(stepChk(cycle, status), step)
  /\ pc \in {"solver", "step", "found"} => exists(geometry(cycle, status, step))

\* The geometry of a save is missing only after a crash in which it was being
\* written again: then the files name that save, and it is the last one.
SavedInv ==
  \A p \in Saves :
    /\ NotOlder(p)
    /\ ~exists(FileOf(p)) => p = Last /\ pc \notin Starting \cup Solving /\ Exactly(p)

\* The search comes from after the saves whose geometry exists and does not pass
\* them; it starts from the one whose geometry is missing.
SearchInv ==
  \A p \in Saves :
    /\ pc = "search" => IF exists(FileOf(p))
                        THEN ~Before(<<cycle, status, p[3]>>, p)
                        ELSE ~Before(p, <<cycle, status, p[3]>>)
    /\ pc \in {"look", "found"} => IF exists(FileOf(p))
                                   THEN ~Before(Position, p)
                                   ELSE ~Before(p, Position)

FilesInv == PointersInv /\ SavedInv /\ SearchInv

\* File names tell the kind of the file, the cycle, the relaxation and the step.
LEMMA FileNames ==
  ASSUME NEW c, NEW s, NEW n, NEW d, NEW t, NEW m
  PROVE  /\ statusChk(c) = statusChk(d) => c = d
         /\ stepChk(c, s) = stepChk(d, t) => c = d /\ s = t
         /\ geometry(c, s, n) = geometry(d, t, m) => c = d /\ s = t /\ n = m
         /\ cycleChk \notin {statusChk(c), stepChk(c, s), geometry(c, s, n)}
         /\ statusChk(d) \notin {stepChk(c, s), geometry(c, s, n)}
         /\ stepChk(d, t) # geometry(c, s, n)
BY DEF cycleChk, statusChk, stepChk, geometry

\* The files that no restart goes by to find its geometry.
LEMMA OtherNames ==
  ASSUME NEW c, NEW s, NEW n, NEW d, NEW t, NEW m
  PROVE  \A f \in {optDat, relaxDat(d, t), maxForce(d, m), solverChk(d, t, m)} :
           f \notin {cycleChk, statusChk(c), stepChk(c, s), geometry(c, s, n)}
<1> USE DEF cycleChk, statusChk, stepChk, geometry
<1>1. optDat \notin {cycleChk, statusChk(c), stepChk(c, s), geometry(c, s, n)}
  BY DEF optDat
<1>2. relaxDat(d, t) \notin {cycleChk, statusChk(c), stepChk(c, s), geometry(c, s, n)}
  BY DEF relaxDat
<1>3. maxForce(d, m) \notin {cycleChk, statusChk(c), stepChk(c, s), geometry(c, s, n)}
  BY DEF maxForce
<1>4. solverChk(d, t, m) \notin {cycleChk, statusChk(c), stepChk(c, s), geometry(c, s, n)}
  BY DEF solverChk
<1>5. QED
  BY <1>1, <1>2, <1>3, <1>4

\* What a write does to the files.
LEMMA PutFile ==
  ASSUME NEW f, NEW v, disk' = Put(f, <<v>>)
  PROVE  \A g : /\ exists(g)' <=> exists(g) \/ g = f
                /\ readable(g)' <=> readable(g) \/ g = f
                /\ g = f => read(g)' = v
                /\ g # f /\ readable(g) => read(g)' = read(g)
<1>1. \A g : exists(g)' <=> exists(g) \/ g = f
  BY DEF Put, exists
<1>2. disk'[f] = <<v>> /\ \A g : exists(g) /\ g # f => disk'[g] = disk[g]
  BY DEF Put, exists
<1>3. <<v>> # Empty /\ <<v>>[1] = v
  BY DEF Empty
<1>4. QED
  BY <1>1, <1>2, <1>3 DEF readable, read, exists

LEMMA SameFiles ==
  ASSUME disk' = disk
  PROVE  \A g : /\ exists(g)' <=> exists(g)
                /\ readable(g)' <=> readable(g)
                /\ read(g)' = read(g)
BY DEF exists, readable, read

\* What a crash leaves of them: no file appears or changes, and those that vanish
\* or end up empty were being written.
LEMMA CrashedFile ==
  ASSUME Crash
  PROVE  \A g : /\ readable(g)' => readable(g) /\ read(g)' = read(g)
                /\ exists(g) /\ ~exists(g)' => g \in Writing
                /\ exists(g)' => exists(g) \/ g \in Writing
<1>1. CASE disk' = disk
  BY <1>1 DEF exists, readable, read
<1>2. CASE \E f \in Writing : disk' = Remove(f)
  BY <1>2 DEF Remove, exists, readable, read
<1>3. CASE \E f \in Writing : disk' = Put(f, Empty)
  BY <1>3 DEF Put, exists, readable, read
<1>4. QED
  BY <1>1, <1>2, <1>3 DEF Crash

\* No save is ahead of the relaxation that runs.
LEMMA NotAhead ==
  ASSUME IInv, OrderInv, pc \in Starting \cup Solving, NEW p \in Saves
  PROVE  /\ p \in Positions
         /\ p[1] <= cycle
         /\ p[1] = cycle => p[2] <= status
         /\ pc \in Solving /\ p[1] = cycle /\ p[2] = status => p[3] <= step
<1>1. saved # <<>> /\ Last \in Places /\ p \in Places /\ p \in Positions
      /\ (p = Last \/ Before(p, Last))
  BY LastIsLatest, PositionsArePlaces DEF OrderInv
<1>2. cycle \in Int /\ status \in Int /\ step \in Int
  BY InPlaces DEF Relaxation
<1>3. CASE pc \in Starting /\ ~relaxRestart
  <2>1. Before(Last, <<cycle, status, 0>>) /\ pc \notin Solving
    BY <1>1, <1>3 DEF OrderInv, NextIsLater, Starting, Solving
  <2>2. QED
    BY <1>1, <1>2, <2>1 DEF Before, Places
<1>4. CASE pc \in Solving \/ (pc \in Starting /\ relaxRestart)
  <2>1. ~Before(Position, Last)
    BY <1>1, <1>4 DEF OrderInv, NextIsLater, Starting, Solving
  <2>2. QED
    BY <1>1, <1>2, <2>1 DEF Before, Places, Position
<1>5. QED
  BY <1>3, <1>4

\* A save is the current position, or it is before it.
LEMMA BackOrHere ==
  ASSUME OrderInv, NEW p \in Saves, cycle \in Int, status \in Int, step \in Int
  PROVE  /\ p = Position \/ Before(p, Position) \/ Before(Position, p)
         /\ p = Position <=> p[1] = cycle /\ p[2] = status /\ p[3] = step
         /\ p[1] \in Cycle /\ p[2] \in Relaxation /\ p[3] \in Step /\ p \in Places
<1>1. p \in Positions /\ p \in Places
  BY LastIsLatest, PositionsArePlaces DEF OrderInv
<1>2. QED
  BY <1>1 DEF Positions, Places, Position, Before

LEMMA BeforeParts ==
  ASSUME NEW c, NEW s, NEW n, NEW p
  PROVE  /\ Before(<<c, s, n>>, p) <=> \/ c < p[1]
                                       \/ c = p[1] /\ s < p[2]
                                       \/ c = p[1] /\ s = p[2] /\ n < p[3]
         /\ Before(p, <<c, s, n>>) <=> \/ p[1] < c
                                       \/ p[1] = c /\ p[2] < s
                                       \/ p[1] = c /\ p[2] = s /\ p[3] < n
BY DEF Before

-----------------------------------------------------------------------------
\* Steps that leave the files and the saves alone, or write a file that no
\* restart goes by.
Unnamed(f) == \A c, s, n : f \notin {cycleChk, statusChk(c), stepChk(c, s), geometry(c, s, n)}

LEMMA UnnamedFiles ==
  \A d, t, m : \A f \in {optDat, relaxDat(d, t), maxForce(d, m), solverChk(d, t, m)} : Unnamed(f)
BY OtherNames DEF Unnamed

SameNamed ==
  \A c, s, n : \A g \in {cycleChk, statusChk(c), stepChk(c, s), geometry(c, s, n)} :
    /\ exists(g)' <=> exists(g)
    /\ readable(g)' <=> readable(g)
    /\ readable(g) => read(g)' = read(g)

LEMMA NamedKept ==
  ASSUME \/ disk' = disk
         \/ \E f, v : disk' = Put(f, <<v>>) /\ Unnamed(f)
  PROVE  SameNamed
<1>1. CASE disk' = disk
  BY <1>1, SameFiles DEF SameNamed
<1>2. CASE \E f, v : disk' = Put(f, <<v>>) /\ Unnamed(f)
  <2>1. PICK f, v : disk' = Put(f, <<v>>) /\ Unnamed(f)
    BY <1>2
  <2>2. QED
    BY <2>1, PutFile DEF SameNamed, Unnamed
<1>3. QED
  BY <1>1, <1>2

LEMMA PointersKept ==
  ASSUME PointersInv, SameNamed, UNCHANGED <<cycle, status, step, saved>>,
         pc' \in (Starting \cup Solving) \ {"new", "cycle"} =>
           pc \in (Starting \cup Solving) \ {"new", "cycle"},
         pc' \in {"solve", "stress", "relax"} \cup Solving =>
           pc \in {"solve", "stress", "relax"} \cup Solving,
         pc' \in Solving => pc \in Solving,
         pc' \in {"solver", "step", "found"} => exists(geometry(cycle, status, step))
  PROVE  PointersInv'
<1>1. pc' \in (Starting \cup Solving) \ {"new", "cycle"} => Says(cycleChk, cycle)'
  BY DEF PointersInv, Says, SameNamed
<1>2. pc' \in {"solve", "stress", "relax"} \cup Solving => Says(statusChk(cycle), status)'
  BY DEF PointersInv, Says, SameNamed, readable, read, exists
<1>3. Last' = Last /\ Position' = Position
  BY DEF Last, Position
<1>4. pc' \in Solving /\ saved' # <<>> /\ Last' = Position' => Says(stepChk(cycle, status), step)'
  BY <1>3 DEF PointersInv, Says, SameNamed, readable, read, exists
<1>5. pc' \in {"solver", "step", "found"} => exists(geometry(cycle, status, step))'
  BY DEF SameNamed, exists
<1>6. QED
  BY <1>1, <1>2, <1>4, <1>5 DEF PointersInv

LEMMA PointersIdle ==
  ASSUME pc' \in {"new", "cycle", "down", "search", "look", "stopped", "error"}
  PROVE  PointersInv'
BY DEF PointersInv, Starting, Solving

\* The saves themselves and what is known of them stay.
LEMMA SavesKept == saved' = saved => Saves' = Saves /\ Last' = Last
BY DEF Saves, Last

LEMMA SavedKept ==
  ASSUME SavedInv, SameNamed, saved' = saved,
         pc' \in Starting \cup Solving => pc \in Starting \cup Solving
  PROVE  SavedInv'
<1> SUFFICES ASSUME NEW p \in Saves'
             PROVE  (/\ NotOlder(p)
                     /\ ~exists(FileOf(p)) => p = Last /\ pc \notin Starting \cup Solving /\ Exactly(p))'
  BY DEF SavedInv
<1>1. p \in Saves /\ Last' = Last
  BY SavesKept
<1>2. exists(FileOf(p))' <=> exists(FileOf(p))
  BY DEF SameNamed, FileOf
<1>3. NotOlder(p)' /\ (Exactly(p) => Exactly(p)')
  BY <1>1 DEF SavedInv, NotOlder, Exactly, Says, SameNamed
<1>4. QED
  BY <1>1, <1>2, <1>3 DEF SavedInv

\* A write by the driver or the solver of something that is not older.
LEMMA SavedWritten ==
  ASSUME SavedInv, pc \in Starting \cup Solving, saved' = saved,
         NEW f, NEW v, disk' = Put(f, <<v>>),
         \A p \in Saves : /\ f = cycleChk => v >= p[1]
                          /\ f = statusChk(p[1]) => v >= p[2]
                          /\ f = stepChk(p[1], p[2]) => v >= p[3]
  PROVE  SavedInv'
<1> SUFFICES ASSUME NEW p \in Saves'
             PROVE  NotOlder(p)' /\ exists(FileOf(p))'
  BY DEF SavedInv
<1>1. p \in Saves
  BY SavesKept
<1>2. NotOlder(p) /\ exists(FileOf(p))
  BY <1>1 DEF SavedInv
<1>3. NotOlder(p)'
  <2>1. readable(cycleChk)' => read(cycleChk)' >= p[1]
    <3>1. CASE f = cycleChk
      BY <1>1, <3>1, PutFile
    <3>2. CASE f # cycleChk
      BY <1>2, <3>2, PutFile DEF NotOlder
    <3>3. QED
      BY <3>1, <3>2
  <2>2. readable(statusChk(p[1]))' => read(statusChk(p[1]))' >= p[2]
    <3>1. CASE f = statusChk(p[1])
      BY <1>1, <3>1, PutFile
    <3>2. CASE f # statusChk(p[1])
      BY <1>2, <3>2, PutFile DEF NotOlder
    <3>3. QED
      BY <3>1, <3>2
  <2>3. readable(stepChk(p[1], p[2]))' => read(stepChk(p[1], p[2]))' >= p[3]
    <3>1. CASE f = stepChk(p[1], p[2])
      BY <1>1, <3>1, PutFile
    <3>2. CASE f # stepChk(p[1], p[2])
      BY <1>2, <3>2, PutFile DEF NotOlder
    <3>3. QED
      BY <3>1, <3>2
  <2>4. QED
    BY <2>1, <2>2, <2>3 DEF NotOlder
<1>4. exists(FileOf(p))'
  BY <1>2, PutFile DEF FileOf
<1>5. QED
  BY <1>3, <1>4

LEMMA SearchIdle == pc' \notin {"search", "look", "found"} => SearchInv'
BY DEF SearchInv

LEMMA InitFilesInv == Init => FilesInv
BY DEF Init, FilesInv, PointersInv, SavedInv, SearchInv, Saves, Starting, Solving

\* The files name the relaxation that runs.
LEMMA StepPointersInv == IInv /\ OrderInv /\ FilesInv /\ [Next]_vars => PointersInv'
<1> SUFFICES ASSUME IInv, OrderInv, FilesInv, [Next]_vars PROVE PointersInv'
  OBVIOUS
<1> USE DEF driver, relaxation, physics, history, vars, goto
<1>a. PointersInv
  BY DEF FilesInv
<1>1. CASE WriteOptData \/ RestartJob \/ ReadStep \/ TryOlderStep \/ TryOtherRelaxation \/ Resume \/ Crash
  BY <1>1, PointersIdle DEF WriteOptData, RestartJob, ReadStep, TryOlderStep, TryOtherRelaxation,
     Resume, Crash
<1>2. CASE StartCycle
  <2>1. \/ pc' = "status" /\ disk' = Put(cycleChk, <<cycle>>) /\ cycle' = cycle
        \/ pc' = "stopped"
    BY <1>2 DEF StartCycle
  <2>2. CASE pc' = "status"
    <3>1. Says(cycleChk, cycle)'
      BY <2>1, <2>2, PutFile DEF Says
    <3>2. QED
      BY <2>2, <3>1 DEF PointersInv, Solving
  <2>3. QED
    BY <2>1, <2>2, PointersIdle
<1>3. CASE WriteStatus \/ WriteCellStatus
  <2>1. /\ pc \in {"status", "cellStatus"} /\ pc' \in {"solve", "relax", "cellStatus", "stress"}
        /\ disk' = Put(statusChk(cycle), <<status>>) /\ UNCHANGED <<cycle, status>>
    BY <1>3 DEF WriteStatus, WriteCellStatus
  <2>2. \A g : (readable(g) /\ g # statusChk(cycle) => read(g)' = read(g))
                /\ (readable(g)' => readable(g) \/ g = statusChk(cycle))
                /\ (g = statusChk(cycle) => read(g)' = status)
    BY <2>1, PutFile
  <2>3. Says(cycleChk, cycle)
    BY <1>a, <2>1 DEF PointersInv, Starting
  <2>4. Says(cycleChk, cycle)'
    BY <2>1, <2>2, <2>3, FileNames DEF Says
  <2>5. Says(statusChk(cycle), status)'
    <3>1. statusChk(cycle)' = statusChk(cycle)
      BY <2>1 DEF statusChk
    <3>2. read(statusChk(cycle))' = status
      BY <2>1, PutFile, <2>2, <3>1 DEF read
    <3>3. QED
      BY <2>1, <3>2 DEF Says
  <2>6. QED
    BY <2>1, <2>4, <2>5 DEF PointersInv, Solving
<1>4. CASE FirstSolve \/ trivialSolveForStress
  BY <1>4, <1>a, NamedKept, PointersKept DEF FirstSolve, trivialSolveForStress, Starting, Solving
<1>7. CASE InitRelaxation
  <2>1. /\ pc = "relax" /\ ~relaxRestart /\ pc' = "begin" /\ step' = 0
        /\ disk' = Put(relaxDat(cycle, status), <<0>>) /\ UNCHANGED <<cycle, status, saved>>
    BY <1>7 DEF InitRelaxation
  <2>2. SameNamed
    BY <2>1, UnnamedFiles, NamedKept
  <2>3. Says(cycleChk, cycle) /\ Says(statusChk(cycle), status)
    BY <1>a, <2>1 DEF PointersInv, Starting
  <2>4. Says(cycleChk, cycle)'
    BY <2>1, <2>2, <2>3 DEF Says, SameNamed
  <2>5. Says(statusChk(cycle), status)'
    BY <2>1, <2>2, <2>3 DEF Says, SameNamed, readable, read, exists
  <2>6. saved' # <<>> => Last' # Position'
    <3> SUFFICES ASSUME saved # <<>> PROVE Last # <<cycle, status, 0>>
      BY <2>1 DEF Last, Position
    <3>1. Before(Last, <<cycle, status, 0>>)
      BY <2>1 DEF OrderInv, NextIsLater, Starting
    <3>2. Last \in Places
      BY LastIsASave, PositionsArePlaces DEF OrderInv
    <3>3. QED
      BY <3>1, <3>2, BeforeOrders
  <2>7. QED
    BY <2>1, <2>4, <2>5, <2>6 DEF PointersInv
<1>8. CASE (\E same \in BOOLEAN : RestartRelaxation(same))
  <2>1. /\ pc = "relax" /\ pc' \in {"begin", "error"} /\ relaxRestart
        /\ UNCHANGED <<disk, saved, cycle, status, step>>
        /\ readable(stepChk(cycle, status)) => read(stepChk(cycle, status)) = step
    BY <1>8 DEF RestartRelaxation, IInv, StartInv, Starting
  <2>2. Says(cycleChk, cycle) /\ Says(statusChk(cycle), status) /\ Says(stepChk(cycle, status), step)
    BY <1>a, <2>1 DEF PointersInv, Starting, Says
  <2>3. (Says(cycleChk, cycle) /\ Says(statusChk(cycle), status) /\ Says(stepChk(cycle, status), step))'
    BY <2>1, <2>2 DEF Says, readable, read, exists
  <2>4. QED
    BY <2>1, <2>3 DEF PointersInv
<1>9. CASE BeginSolver
  BY <1>9, <1>a, NamedKept, PointersKept DEF BeginSolver, Starting, Solving
<1>10. CASE SaveMaxForce
  <2>1. SameNamed
    BY <1>10, UnnamedFiles, NamedKept DEF SaveMaxForce
  <2>2. QED
    BY <1>10, <2>1, <1>a, PointersKept DEF SaveMaxForce, Starting, Solving
<1>11. CASE SaveGeometry
  <2> DEFINE f == geometry(cycle, status, step)
  <2>1. /\ pc = "geometry" /\ pc' = "solver" /\ disk' = Put(f, <<relaxed>>)
        /\ UNCHANGED <<cycle, status, step, saved>>
    BY <1>11 DEF SaveGeometry
  <2>2. f \notin {cycleChk, statusChk(cycle), stepChk(cycle, status)}
    BY FileNames
  <2> HIDE DEF f
  <2>3. \A g : /\ g # f => (readable(g)' <=> readable(g)) /\ (readable(g) => read(g)' = read(g))
               /\ g = f => exists(g)'
    BY <2>1, PutFile
  <2>4. Says(cycleChk, cycle) /\ Says(statusChk(cycle), status)
        /\ (saved # <<>> /\ Last = Position => Says(stepChk(cycle, status), step))
    BY <1>a, <2>1 DEF PointersInv, Solving
  <2>5. Last' = Last /\ Position' = Position
    BY <2>1 DEF Last, Position
  <2>6. Says(cycleChk, cycle)'
    BY <2>1, <2>2, <2>3, <2>4 DEF Says
  <2>7. Says(statusChk(cycle), status)'
    BY <2>1, <2>2, <2>3, <2>4 DEF Says, readable, read, exists
  <2>8. saved' # <<>> /\ Last' = Position' => Says(stepChk(cycle, status), step)'
    BY <2>1, <2>2, <2>3, <2>4, <2>5 DEF Says, readable, read, exists
  <2>9. exists(geometry(cycle, status, step))'
    BY <2>1, <2>3 DEF f, exists
  <2>10. QED
    BY <2>6, <2>7, <2>8, <2>9 DEF PointersInv
<1>12. CASE SaveSolver
  <2>1. SameNamed
    BY <1>12, UnnamedFiles, NamedKept DEF SaveSolver
  <2>2. QED
    BY <1>12, <2>1, <1>a, PointersKept DEF SaveSolver, Starting, Solving, PointersInv
<1>13. CASE SaveStep
  <2> DEFINE f == stepChk(cycle, status)
  <2>1. /\ pc = "step" /\ pc' = "check" /\ disk' = Put(f, <<step>>)
        /\ UNCHANGED <<cycle, status, step>>
    BY <1>13 DEF SaveStep
  <2>2. f \notin {cycleChk, statusChk(cycle)}
    BY FileNames
  <2> HIDE DEF f
  <2>3. \A g : /\ g # f => (readable(g)' <=> readable(g)) /\ (readable(g) => read(g)' = read(g))
               /\ g = f => read(g)' = step
    BY <2>1, PutFile
  <2>4. Says(cycleChk, cycle) /\ Says(statusChk(cycle), status)
    BY <1>a, <2>1 DEF PointersInv, Solving
  <2>5. Says(cycleChk, cycle)'
    BY <2>1, <2>2, <2>3, <2>4 DEF Says
  <2>6. Says(statusChk(cycle), status)'
    BY <2>1, <2>2, <2>3, <2>4 DEF Says, readable, read, exists
  <2>7. Says(stepChk(cycle, status), step)'
    BY <2>1, <2>3 DEF f, Says, readable, read, exists
  <2>8. QED
    BY <2>1, <2>5, <2>6, <2>7 DEF PointersInv
<1>14. CASE SolverConverges \/ (\E r \in {-1, -2, step} : SolverGivesUp(r))
  <2>1. /\ pc = "check" /\ disk' = disk
        /\ \/ pc' \in {"stopped", "cycle"}
           \/ pc' = "cellStatus" /\ cycle' = cycle
    BY <1>14 DEF SolverConverges, SolverGivesUp, HandleResult, Finish
  <2>2. Says(cycleChk, cycle)
    BY <1>a, <2>1 DEF PointersInv, Solving
  <2>3. pc' = "cellStatus" => Says(cycleChk, cycle)'
    BY <2>1, <2>2, SameFiles DEF Says
  <2>4. QED
    BY <2>1, <2>3, PointersIdle DEF PointersInv, Solving
<1>16. CASE SolverContinues
  BY <1>16, <1>a, NamedKept, PointersKept DEF SolverContinues, Starting, Solving
<1>17. CASE update
  <2>1. /\ pc = "update" /\ pc' \in {"maxForce", "geometry"} /\ step' = step + 1
        /\ UNCHANGED <<disk, saved, cycle, status>>
    BY <1>17 DEF update
  <2>2. Says(cycleChk, cycle) /\ Says(statusChk(cycle), status)
    BY <1>a, <2>1 DEF PointersInv, Solving
  <2>3. Says(cycleChk, cycle)' /\ Says(statusChk(cycle), status)'
    BY <2>1, <2>2 DEF Says, readable, read, exists
  <2>4. saved' # <<>> => Last' # Position'
    <3> SUFFICES ASSUME saved # <<>> PROVE Last # <<cycle, status, step + 1>>
      BY <2>1 DEF Last, Position
    <3>1. ~Before(Position, Last)
      BY <2>1 DEF OrderInv, NextIsLater, Solving
    <3>2. cycle \in Int /\ status \in Int /\ step \in Int
      BY InPlaces DEF Relaxation
    <3>3. QED
      BY <3>1, <3>2 DEF Before, Position
  <2>5. QED
    BY <2>1, <2>3, <2>4 DEF PointersInv
<1>20. CASE FindGeometry
  <2>1. pc' = "found" /\ UNCHANGED <<disk, cycle, status, step>> /\ exists(geometry(cycle, status, step))
    BY <1>20 DEF FindGeometry
  <2>2. exists(geometry(cycle, status, step))'
    BY <2>1 DEF exists
  <2>3. QED
    BY <2>1, <2>2 DEF PointersInv, Starting, Solving
<1>25. CASE Terminated \/ UNCHANGED vars
  BY <1>25, <1>a, NamedKept, PointersKept DEF Terminated, PointersInv
<1>27. QED
  BY <1>1, <1>2, <1>3, <1>4, <1>7, <1>8, <1>9, <1>10, <1>11, <1>12, <1>13, <1>14, <1>16,
     <1>17, <1>20, <1>25 DEF Next, Work

\* The saves keep their files, except for the one that is written again.
LEMMA StepSavedInv == IInv /\ OrderInv /\ FilesInv /\ [Next]_vars => SavedInv'
<1> SUFFICES ASSUME IInv, OrderInv, FilesInv, [Next]_vars PROVE SavedInv'
  OBVIOUS
<1> USE DEF driver, relaxation, physics, history, vars, goto
<1>a. PointersInv /\ SavedInv /\ SearchInv
  BY DEF FilesInv
<1>1. CASE WriteOptData \/ InitRelaxation
  <2>1. SameNamed
    BY <1>1, UnnamedFiles, NamedKept DEF WriteOptData, InitRelaxation
  <2>2. QED
    BY <1>1, <2>1, <1>a, SavedKept DEF WriteOptData, InitRelaxation, Starting
<1>2. CASE StartCycle
  <2>1. /\ pc = "cycle" /\ saved' = saved
        /\ \/ disk' = Put(cycleChk, <<cycle>>)
           \/ disk' = disk
    BY <1>2 DEF StartCycle
  <2>2. CASE disk' = Put(cycleChk, <<cycle>>)
    <3>1. \A p \in Saves : /\ cycle >= p[1]
                           /\ cycleChk # statusChk(p[1]) /\ cycleChk # stepChk(p[1], p[2])
      BY <2>1, NotAhead, FileNames, InPlaces DEF Starting, Positions, Cycle
    <3>2. QED
      BY <2>1, <2>2, <3>1, <1>a, SavedWritten DEF Starting
  <2>3. CASE disk' = disk
    BY <2>1, <2>3, <1>a, NamedKept, SavedKept DEF Starting
  <2>4. QED
    BY <2>1, <2>2, <2>3
<1>3. CASE WriteStatus \/ WriteCellStatus
  <2>1. /\ pc \in {"status", "cellStatus"} /\ saved' = saved
        /\ disk' = Put(statusChk(cycle), <<status>>)
    BY <1>3 DEF WriteStatus, WriteCellStatus
  <2>2. \A p \in Saves : /\ statusChk(cycle) = statusChk(p[1]) => status >= p[2]
                         /\ statusChk(cycle) # cycleChk /\ statusChk(cycle) # stepChk(p[1], p[2])
    <3> SUFFICES ASSUME NEW p \in Saves
                 PROVE  /\ statusChk(cycle) = statusChk(p[1]) => status >= p[2]
                        /\ statusChk(cycle) # cycleChk /\ statusChk(cycle) # stepChk(p[1], p[2])
      OBVIOUS
    <3>1. (p[1] = cycle => p[2] <= status) /\ p \in Positions
      BY <2>1, NotAhead DEF Starting
    <3>2. p[2] \in Int /\ status \in Int
      BY <3>1, InPlaces DEF Positions, Relaxation
    <3>3. QED
      BY <3>1, <3>2, FileNames
  <2>3. QED
    BY <2>1, <2>2, <1>a, SavedWritten DEF Starting
<1>4. CASE FirstSolve \/ trivialSolveForStress
  BY <1>4, <1>a, NamedKept, SavedKept DEF FirstSolve, trivialSolveForStress, Starting
<1>8. CASE (\E same \in BOOLEAN : RestartRelaxation(same))
  BY <1>8, <1>a, NamedKept, SavedKept DEF RestartRelaxation, Starting
<1>9. CASE BeginSolver \/ SolverContinues \/ update
  BY <1>9, <1>a, NamedKept, SavedKept DEF BeginSolver, SolverContinues, update, Solving
<1>10. CASE SaveMaxForce \/ SaveSolver
  <2>1. SameNamed
    BY <1>10, UnnamedFiles, NamedKept DEF SaveMaxForce, SaveSolver
  <2>2. QED
    BY <1>10, <2>1, <1>a, SavedKept DEF SaveMaxForce, SaveSolver, Solving
<1>11. CASE SaveGeometry
  <2>1. pc = "geometry" /\ disk' = Put(geometry(cycle, status, step), <<relaxed>>) /\ saved' = saved
    BY <1>11 DEF SaveGeometry
  <2>2. \A p \in Saves : geometry(cycle, status, step) \notin
                           {cycleChk, statusChk(p[1]), stepChk(p[1], p[2])}
    BY FileNames
  <2>3. QED
    BY <2>1, <2>2, <1>a, SavedWritten DEF Solving
<1>13. CASE SaveStep
  <2>1. /\ pc = "step" /\ disk' = Put(stepChk(cycle, status), <<step>>)
        /\ UNCHANGED <<cycle, status, step>>
        /\ \/ saved' = saved
           \/ ~(saved # <<>> /\ Last = Position) /\ saved' = Append(saved, Position)
    BY <1>13 DEF SaveStep, Last
  <2>2. Position \in Positions
    BY <2>1, InPlaces DEF Solving
  <2>3. Saves' \subseteq Saves \cup {Position}
    <3>1. CASE saved' = saved
      BY <3>1, SavesKept
    <3>2. CASE ~(saved # <<>> /\ Last = Position) /\ saved' = Append(saved, Position)
      <4>1. saved # <<>> => Before(Last, Position)
        BY <2>1, <2>2, <3>2, BeforeOrders, LastIsASave, PositionsArePlaces
        DEF OrderInv, NextIsLater, Solving
      <4>2. QED
        BY <2>2, <3>2, <4>1, AppendOrders DEF OrderInv
    <3>3. QED
      BY <2>1, <3>1, <3>2
  <2> SUFFICES ASSUME NEW p \in Saves \cup {Position}
               PROVE  NotOlder(p)' /\ exists(FileOf(p))'
    BY <2>3 DEF SavedInv
  <2> DEFINE f == stepChk(cycle, status)
  <2>4. f \notin {cycleChk, statusChk(p[1])} /\ (f = stepChk(p[1], p[2]) => p[1] = cycle /\ p[2] = status)
    BY FileNames
  <2>5. /\ p[1] \in Int /\ p[2] \in Int /\ p[3] \in Int
        /\ cycle \in Int /\ status \in Int /\ step \in Int
    <3>1. p \in Positions
      BY <2>1, <2>2, NotAhead DEF Solving
    <3>2. p \in Places /\ Position \in Places
      BY <2>2, <3>1, PositionsArePlaces
    <3>3. QED
      BY <3>2 DEF Places, Position
  <2>6. CASE p \in Saves
    <3>1. NotOlder(p) /\ exists(FileOf(p)) /\ (p[1] = cycle /\ p[2] = status => p[3] <= step)
      BY <2>1, <2>6, <1>a, NotAhead DEF SavedInv, Solving
    <3> HIDE DEF f
    <3>2. readable(cycleChk)' => read(cycleChk)' >= p[1]
      BY <2>1, <2>4, <3>1, PutFile DEF NotOlder, f
    <3>3. readable(statusChk(p[1]))' => read(statusChk(p[1]))' >= p[2]
      BY <2>1, <2>4, <3>1, PutFile DEF NotOlder, f
    <3>4. readable(stepChk(p[1], p[2]))' => read(stepChk(p[1], p[2]))' >= p[3]
      <4>1. CASE f = stepChk(p[1], p[2])
        BY <2>1, <2>4, <2>5, <3>1, <4>1, PutFile DEF f
      <4>2. CASE f # stepChk(p[1], p[2])
        BY <2>1, <3>1, <4>2, PutFile DEF NotOlder, f
      <4>3. QED
        BY <4>1, <4>2
    <3>5. exists(FileOf(p))'
      BY <2>1, <3>1, PutFile DEF FileOf
    <3>6. QED
      BY <3>2, <3>3, <3>4, <3>5 DEF NotOlder
  <2>7. CASE p = Position
    <3>1. /\ Says(cycleChk, cycle) /\ Says(statusChk(cycle), status)
          /\ exists(geometry(cycle, status, step))
      BY <2>1, <1>a DEF PointersInv, Solving
    <3>2. p[1] = cycle /\ p[2] = status /\ p[3] = step
      BY <2>7 DEF Position
    <3> HIDE DEF f
    <3>a. p[1] >= p[1] /\ p[2] >= p[2] /\ p[3] >= p[3]
      BY <2>5
    <3>3. readable(cycleChk)' => read(cycleChk)' >= p[1]
      <4>1. readable(cycleChk)' => read(cycleChk)' = p[1]
        BY <2>1, <2>4, <3>1, <3>2, PutFile DEF Says, f
      <4>2. QED
        BY <3>a, <4>1
    <3>4. readable(statusChk(p[1]))' => read(statusChk(p[1]))' >= p[2]
      <4>1. readable(statusChk(p[1]))' => read(statusChk(p[1]))' = p[2]
        BY <2>1, <2>4, <3>1, <3>2, PutFile DEF Says, f
      <4>2. QED
        BY <3>a, <4>1
    <3>5. readable(stepChk(p[1], p[2]))' => read(stepChk(p[1], p[2]))' >= p[3]
      <4>1. read(stepChk(p[1], p[2]))' = p[3]
        BY <2>1, <3>2, PutFile
      <4>2. QED
        BY <3>a, <4>1
    <3>6. exists(FileOf(p))'
      BY <2>1, <3>1, <3>2, PutFile DEF FileOf
    <3>7. QED
      BY <3>3, <3>4, <3>5, <3>6 DEF NotOlder
  <2>8. QED
    BY <2>6, <2>7
<1>14. CASE SolverConverges \/ (\E r \in {-1, -2, step} : SolverGivesUp(r))
  BY <1>14, <1>a, NamedKept, SavedKept DEF SolverConverges, SolverGivesUp, Solving
<1>18. CASE RestartJob \/ ReadStep \/ FindGeometry \/ TryOlderStep \/ TryOtherRelaxation
  BY <1>18, <1>a, NamedKept, SavedKept DEF RestartJob, ReadStep, FindGeometry, TryOlderStep,
     TryOtherRelaxation, Starting, Solving
<1>23. CASE Resume
  <2>1. /\ pc = "found" /\ disk' = Put(stepChk(cycle, status), <<step>>)
    BY <1>23 DEF Resume
  <2>2. PICK n \in 0 .. Len(saved) : UpTo(n) /\ saved' = SubSeq(saved, 1, n)
    BY <1>23 DEF Resume
  <2>3. Saves' = {p \in Saves : ~Before(Position, p)}
    BY <2>2, PrefixOrders, InPlaces DEF OrderInv
  <2> SUFFICES ASSUME NEW p \in Saves, ~Before(Position, p)
               PROVE  NotOlder(p)' /\ exists(FileOf(p))'
    BY <2>3 DEF SavedInv
  <2> DEFINE f == stepChk(cycle, status)
  <2>4. f \notin {cycleChk, statusChk(p[1])} /\ (f = stepChk(p[1], p[2]) => p[1] = cycle /\ p[2] = status)
    BY FileNames
  <2>5. cycle \in Int /\ status \in Int /\ step \in Int
    BY InPlaces DEF Relaxation
  <2>6. /\ p = Position \/ Before(p, Position) \/ Before(Position, p)
        /\ p \in Places /\ (p = Position => FileOf(p) = geometry(cycle, status, step))
    BY <2>5, BackOrHere DEF FileOf, Position
  <2>7. p[1] = cycle /\ p[2] = status => p[3] <= step
    BY <2>5, <2>6 DEF Before, Position, Places
  <2>8. exists(FileOf(p))
    <3>1. exists(geometry(cycle, status, step))
      BY <2>1, <1>a DEF PointersInv
    <3>2. ~exists(FileOf(p)) => ~Before(p, Position)
      BY <2>1, <1>a DEF SearchInv
    <3>3. QED
      BY <2>6, <3>1, <3>2
  <2>9. NotOlder(p)
    BY <1>a DEF SavedInv
  <2> HIDE DEF f
  <2>10. readable(cycleChk)' => read(cycleChk)' >= p[1]
    BY <2>1, <2>4, <2>9, PutFile DEF NotOlder, f
  <2>11. readable(statusChk(p[1]))' => read(statusChk(p[1]))' >= p[2]
    BY <2>1, <2>4, <2>9, PutFile DEF NotOlder, f
  <2>12. readable(stepChk(p[1], p[2]))' => read(stepChk(p[1], p[2]))' >= p[3]
    <3>1. CASE f = stepChk(p[1], p[2])
      BY <2>1, <2>4, <2>5, <2>6, <2>7, <3>1, PutFile DEF f, Places
    <3>2. CASE f # stepChk(p[1], p[2])
      BY <2>1, <2>9, <3>2, PutFile DEF NotOlder, f
    <3>3. QED
      BY <3>1, <3>2
  <2>13. exists(FileOf(p))'
    BY <2>1, <2>8, PutFile DEF FileOf
  <2>14. QED
    BY <2>10, <2>11, <2>12, <2>13 DEF NotOlder
<1>24. CASE Crash
  <2>1. pc' = "down" /\ saved' = saved
    BY <1>24 DEF Crash
  <2> SUFFICES ASSUME NEW p \in Saves
               PROVE  NotOlder(p)' /\ (~exists(FileOf(p))' => p = Last /\ Exactly(p)')
    BY <2>1, SavesKept DEF SavedInv, Starting, Solving, FileOf, exists
  <2>2. NotOlder(p) /\ (~exists(FileOf(p)) => p = Last /\ Exactly(p))
    BY <1>a DEF SavedInv
  <2>3. NotOlder(p)'
    BY <2>2, <1>24, CrashedFile DEF NotOlder
  <2>4. Exactly(p) => Exactly(p)'
    BY <1>24, CrashedFile DEF Exactly, Says
  <2>5. ASSUME exists(FileOf(p)), ~exists(FileOf(p))'
        PROVE  p = Last /\ Exactly(p)
    <3>1. FileOf(p) \in Writing
      BY <2>5, <1>24, CrashedFile DEF FileOf
    <3>2. pc = "geometry" /\ FileOf(p) = geometry(cycle, status, step)
      BY <3>1 DEF Writing, FileOf, optDat, cycleChk, statusChk, relaxDat, maxForce, solverChk,
         stepChk, geometry
    <3>3. p[1] = cycle /\ p[2] = status /\ p[3] = step
      BY <3>2, FileNames DEF FileOf
    <3>4. p = Position
      BY <3>3, InPlaces, BackOrHere DEF Relaxation
    <3>5. p = Last
      <4>1. /\ saved # <<>> /\ Last \in Places /\ p \in Places
            /\ (p = Last \/ Before(p, Last)) /\ ~Before(Position, Last)
        BY <3>2, LastIsLatest, PositionsArePlaces DEF OrderInv, NextIsLater, Solving
      <4>2. QED
        BY <3>4, <4>1
    <3>6. saved # <<>> /\ Last = Position
      BY <3>4, <3>5, LastIsLatest DEF OrderInv
    <3>7. /\ Says(cycleChk, cycle) /\ Says(statusChk(cycle), status)
          /\ Says(stepChk(cycle, status), step)
      BY <3>2, <3>6, <1>a DEF PointersInv, Solving
    <3>8. QED
      BY <3>3, <3>5, <3>7 DEF Exactly
  <2>6. QED
    BY <2>2, <2>3, <2>4, <2>5
<1>25. CASE Terminated \/ UNCHANGED vars
  BY <1>25, <1>a, NamedKept, SavedKept DEF Terminated
<1>27. QED
  BY <1>1, <1>2, <1>3, <1>4, <1>8, <1>9, <1>10, <1>11, <1>13, <1>14, <1>18, <1>23, <1>24,
     <1>25 DEF Next, Work

\* The search comes down to the saves and does not pass one that is whole.
LEMMA StepSearchInv == IInv /\ OrderInv /\ FilesInv /\ [Next]_vars => SearchInv'
<1> SUFFICES ASSUME IInv, OrderInv, FilesInv, [Next]_vars PROVE SearchInv'
  OBVIOUS
<1> USE DEF driver, relaxation, physics, history, vars, goto
<1>a. PointersInv /\ SavedInv /\ SearchInv
  BY DEF FilesInv
<1>b. cycle \in Int /\ status \in Relaxation /\ status \in Int /\ step \in Int
  BY InPlaces DEF Relaxation
<1>c. cycle' \in Int /\ status' \in Int /\ step' \in Int
  <2>1. IInv'
    BY StepIInv
  <2>2. cycle' \in Int /\ step' \in Int
    BY <2>1, BoundsAssumption DEF IInv, CycleInv, StepInv, Cycle, Step
  <2>3. status' \in Int
    BY <2>1, ModesAssumption DEF IInv, KindInv, Kinds, Relaxation
  <2>4. QED
    BY <2>2, <2>3
<1>1. CASE WriteOptData \/ StartCycle \/ WriteStatus \/ FirstSolve
             \/ WriteCellStatus \/ trivialSolveForStress
             \/ InitRelaxation \/ (\E same \in BOOLEAN : RestartRelaxation(same))
  BY <1>1, SearchIdle DEF WriteOptData, StartCycle, WriteStatus, FirstSolve, WriteCellStatus,
     trivialSolveForStress, InitRelaxation, RestartRelaxation
<1>2. CASE BeginSolver \/ SaveMaxForce \/ SaveGeometry \/ SaveSolver \/ SaveStep
             \/ SolverContinues \/ update \/ Resume \/ Crash
  BY <1>2, SearchIdle DEF BeginSolver, SaveMaxForce, SaveGeometry, SaveSolver, SaveStep,
     SolverContinues, update, Resume, Crash
<1>3. CASE SolverConverges \/ (\E r \in {-1, -2, step} : SolverGivesUp(r))
  <2>1. pc' \in {"stopped", "cellStatus", "cycle"}
    BY <1>3 DEF SolverConverges, SolverGivesUp, HandleResult, Finish
  <2>2. QED
    BY <2>1, SearchIdle
<1>4. CASE RestartJob
  <2>1. /\ disk' = disk /\ saved' = saved
        /\ \/ /\ readable(cycleChk) /\ readable(statusChk(read(cycleChk)))
              /\ cycle' = read(cycleChk) /\ status' = read(statusChk(read(cycleChk)))
              /\ pc' = "search"
           \/ pc' = "error"
    BY <1>4 DEF RestartJob
  <2>2. CASE pc' = "error"
    BY <2>2, SearchIdle
  <2>3. CASE pc' = "search"
    <3> SUFFICES ASSUME NEW p \in Saves
                 PROVE  IF exists(FileOf(p))
                        THEN ~Before(<<cycle', status', p[3]>>, p)
                        ELSE ~Before(p, <<cycle', status', p[3]>>)
      BY <2>1, <2>3, SavesKept DEF SearchInv, exists, FileOf, Before
    <3>1. p[1] \in Int /\ p[2] \in Int /\ p[3] \in Int
      BY <1>b, BackOrHere DEF Places
    <3>2. NotOlder(p) /\ (~exists(FileOf(p)) => Exactly(p))
      BY <1>a DEF SavedInv
    <3>3. readable(cycleChk) /\ readable(statusChk(cycle')) /\ cycle' = read(cycleChk)
          /\ status' = read(statusChk(cycle'))
      BY <2>1, <2>3
    <3>5. cycle' >= p[1] /\ (cycle' = p[1] => status' >= p[2])
          /\ (Exactly(p) => cycle' = p[1] /\ status' = p[2])
      BY <3>2, <3>3 DEF NotOlder, Exactly, Says
    <3>4. cycle' \in Int /\ status' \in Int
      BY <1>c
    <3>6. CASE exists(FileOf(p))
      BY <3>1, <3>4, <3>5, <3>6, BeforeParts
    <3>7. CASE ~exists(FileOf(p))
      BY <3>1, <3>2, <3>4, <3>5, <3>7, BeforeParts
    <3>8. QED
      BY <3>6, <3>7
  <2>4. QED
    BY <2>1, <2>2, <2>3
<1>5. CASE ReadStep
  <2>1. /\ pc = "search" /\ UNCHANGED <<disk, saved, cycle, status>>
        /\ \/ readable(stepChk(cycle, status)) /\ step' = read(stepChk(cycle, status)) /\ pc' = "look"
           \/ pc' = "error"
    BY <1>5 DEF ReadStep
  <2>2. CASE pc' = "error"
    BY <2>2, SearchIdle
  <2>3. CASE pc' = "look"
    <3> SUFFICES ASSUME NEW p \in Saves
                 PROVE  IF exists(FileOf(p))
                        THEN ~Before(<<cycle, status, step'>>, p)
                        ELSE ~Before(p, <<cycle, status, step'>>)
      BY <2>1, <2>3, SavesKept DEF SearchInv, exists, FileOf, Before, Position
    <3>1. p[1] \in Int /\ p[2] \in Int /\ p[3] \in Int
      BY <1>b, BackOrHere DEF Places
    <3>2. NotOlder(p) /\ (~exists(FileOf(p)) => Exactly(p))
          /\ IF exists(FileOf(p)) THEN ~Before(<<cycle, status, p[3]>>, p)
                                  ELSE ~Before(p, <<cycle, status, p[3]>>)
      BY <2>1, <1>a DEF SavedInv, SearchInv
    <3>3. p[1] = cycle /\ p[2] = status => step' >= p[3] /\ (Exactly(p) => step' = p[3])
      BY <2>1, <2>3, <3>2 DEF NotOlder, Exactly, Says
    <3>4. step' \in Int
      BY <1>c
    <3>5. CASE exists(FileOf(p))
      BY <1>b, <3>1, <3>2, <3>3, <3>4, <3>5, BeforeParts
    <3>6. CASE ~exists(FileOf(p))
      BY <1>b, <3>1, <3>2, <3>3, <3>4, <3>6, BeforeParts
    <3>7. QED
      BY <3>5, <3>6
  <2>4. QED
    BY <2>1, <2>2, <2>3
<1>6. CASE FindGeometry
  <2>1. pc = "look" /\ UNCHANGED <<disk, saved, cycle, status, step>>
    BY <1>6 DEF FindGeometry
  <2>2. QED
    BY <1>6, <2>1, <1>a, SavesKept DEF FindGeometry, SearchInv, exists, FileOf, Before, Position
<1>7. CASE TryOlderStep
  <2>1. /\ pc = "look" /\ pc' = "look" /\ UNCHANGED <<disk, saved, cycle, status>>
        /\ step' \in {step, step - 1} /\ ~exists(geometry(cycle, status, step))
    BY <1>7 DEF TryOlderStep
  <2> SUFFICES ASSUME NEW p \in Saves
               PROVE  IF exists(FileOf(p))
                      THEN ~Before(<<cycle, status, step'>>, p)
                      ELSE ~Before(p, <<cycle, status, step'>>)
    BY <2>1, SavesKept DEF SearchInv, exists, FileOf, Before, Position
  <2>2. p[1] \in Int /\ p[2] \in Int /\ p[3] \in Int
    BY <1>b, BackOrHere DEF Places
  <2>3. IF exists(FileOf(p)) THEN ~Before(Position, p) ELSE ~Before(p, Position)
    BY <2>1, <1>a DEF SearchInv
  <2>4. exists(FileOf(p)) => ~(p[1] = cycle /\ p[2] = status /\ p[3] = step)
    BY <2>1 DEF FileOf
  <2>5. CASE exists(FileOf(p))
    <3>1. Before(p, Position)
      BY <1>b, <2>2, <2>3, <2>4, <2>5, BeforeParts DEF Position
    <3>2. QED
      BY <1>b, <2>1, <2>2, <2>5, <3>1, BeforeParts DEF Position
  <2>6. CASE ~exists(FileOf(p))
    BY <1>b, <2>1, <2>2, <2>3, <2>6, BeforeParts DEF Position
  <2>7. QED
    BY <2>5, <2>6
<1>8. CASE TryOtherRelaxation
  <2>1. /\ pc = "look" /\ UNCHANGED <<disk, saved>> /\ step < 0
        /\ \/ cycle' = cycle /\ status' = status
           \/ status = 0 /\ cycle' = cycle - 1 /\ status' = 1
           \/ status = 1 /\ cycle' = cycle /\ status' = 0
        /\ pc' \in {"search", "error"}
    BY <1>8, <1>b DEF TryOtherRelaxation, Relaxation
  <2>2. CASE pc' = "error"
    BY <2>2, SearchIdle
  <2>3. CASE pc' = "search"
    <3> SUFFICES ASSUME NEW p \in Saves
                 PROVE  IF exists(FileOf(p))
                        THEN ~Before(<<cycle', status', p[3]>>, p)
                        ELSE ~Before(p, <<cycle', status', p[3]>>)
      BY <2>1, <2>3, SavesKept DEF SearchInv, exists, FileOf, Before, Position
    <3>1. p[1] \in Int /\ p[2] \in {0, 1} /\ p[3] \in Int /\ p[3] >= 0
      BY <1>b, BackOrHere DEF Places, Relaxation, Step
    <3>2. IF exists(FileOf(p)) THEN ~Before(Position, p) ELSE ~Before(p, Position)
      BY <2>1, <1>a DEF SearchInv
    <3>3. CASE exists(FileOf(p))
      <4>1. cycle > p[1] \/ (cycle = p[1] /\ status > p[2])
        BY <1>b, <2>1, <3>1, <3>2, <3>3, BeforeParts DEF Position
      <4>2. cycle' > p[1] \/ (cycle' = p[1] /\ status' >= p[2])
        BY <1>b, <2>1, <3>1, <4>1
      <4>3. QED
        BY <1>c, <3>1, <3>3, <4>2, BeforeParts
    <3>4. CASE ~exists(FileOf(p))
      <4>1. cycle < p[1] \/ (cycle = p[1] /\ status <= p[2])
        BY <1>b, <2>1, <3>1, <3>2, <3>4, BeforeParts DEF Position
      <4>2. cycle' < p[1] \/ (cycle' = p[1] /\ status' <= p[2])
        BY <1>b, <2>1, <3>1, <4>1
      <4>3. QED
        BY <1>c, <3>1, <3>4, <4>2, BeforeParts
    <3>5. QED
      BY <3>3, <3>4
  <2>4. QED
    BY <2>1, <2>2, <2>3
<1>9. CASE Terminated \/ UNCHANGED vars
  <2>1. UNCHANGED <<pc, disk, saved, cycle, status, step>>
    BY <1>9 DEF Terminated
  <2>2. QED
    BY <2>1, <1>a, SavesKept DEF SearchInv, exists, FileOf, Before, Position
<1>10. QED
  BY <1>1, <1>2, <1>3, <1>4, <1>5, <1>6, <1>7, <1>8, <1>9 DEF Next, Work

LEMMA FilesInvariant == Spec => [](IInv /\ OrderInv /\ FilesInv)
<1>1. Init => OrderInv /\ FilesInv
  BY InitOrderInv, InitFilesInv
<1>2. IInv /\ OrderInv /\ FilesInv /\ [Next]_vars => (OrderInv /\ FilesInv)'
  BY StepOrderInv, StepPointersInv, StepSavedInv, StepSearchInv DEF FilesInv
<1>3. QED
  BY <1>1, <1>2, Invariant, PTL DEF Spec

\* However often the job is killed, in the middle of whatever write, a restart
\* that finds files resumes at the last complete save or later, or at the one
\* before it if the last one was being written again.
THEOREM RestartLosesAtMostOneSave == Spec => []LosesAtMostOneSave
<1>1. IInv /\ OrderInv /\ FilesInv => LosesAtMostOneSave
  <2> SUFFICES ASSUME IInv, OrderInv, FilesInv, pc = "found", Len(saved) > 1
               PROVE  ~Before(Position, saved[Len(saved) - 1])
    BY DEF LosesAtMostOneSave
  <2> DEFINE p == saved[Len(saved) - 1]
  <2>1. saved \in Seq(Positions) /\ Len(saved) - 1 \in 1 .. Len(saved) /\ Len(saved) \in 1 .. Len(saved)
    BY DEF OrderInv
  <2>2. p \in Saves /\ p \in Places /\ Last \in Places
    BY <2>1, PositionsArePlaces DEF Saves, Last
  <2>3. Before(p, Last)
    BY <2>1 DEF OrderInv, Ordered, Last
  <2>4. p # Last
    BY <2>2, <2>3, BeforeOrders
  <2> HIDE DEF p
  <2>5. exists(FileOf(p))
    BY <2>2, <2>4 DEF FilesInv, SavedInv
  <2>6. ~Before(Position, p)
    BY <2>2, <2>5 DEF FilesInv, SearchInv
  <2>7. QED
    BY <2>6 DEF p
<1>2. QED
  BY <1>1, FilesInvariant, PTL

-----------------------------------------------------------------------------
\* A job that has only ever been killed while its solver was updating.
Reads(f, x) == readable(f) /\ read(f) = x

\* The last save is that of step n, and a restart finds all of its files.
Complete(c, s, n) ==
  /\ saved # <<>> /\ Last = <<c, s, n>>
  /\ readable(relaxDat(c, s))
  /\ Reads(stepChk(c, s), n)
  /\ s = 0 => readable(maxForce(c, n))
  /\ readable(geometry(c, s, n))
  /\ readable(solverChk(c, s, n))

\* A relaxation of ions starts after forces have been computed: by the first
\* solve, or by the relaxation of the cell before it.
ForcesKnown ==
  IF cycle = 0 /\ pc \in {"new", "cycle", "status"} THEN ~jobRestarted
  ELSE status = 0 /\ pc # "solve" => solved

\* Where a complete save is at hand, where the files name the relaxation that
\* runs, and what of a save is written already.
UpdateInv ==
  /\ pc # "error"
  /\ pc # "new" => readable(optDat)
  /\ pc \in ((Starting \cup Solving) \ {"new", "cycle"}) \cup {"down"} => Reads(cycleChk, cycle)
  /\ pc \in {"solve", "stress", "relax", "down"} \cup Solving => Reads(statusChk(cycle), status)
  /\ pc \in {"down", "search", "look", "found", "check", "update"} => Complete(cycle, status, step)
  /\ pc \in {"search", "look", "found"} => jobRestarted
  /\ pc \in Starting =>
       IF relaxRestart THEN jobRestarted /\ Complete(cycle, status, step) ELSE ForcesKnown
  /\ pc \in {"relax"} \cup Solving /\ mode = 2 /\ status = 1 => solved
  /\ pc \in Solving => readable(relaxDat(cycle, status))
  /\ pc = "begin" => IF solverRestart THEN Complete(cycle, status, step)
                                      ELSE status = 0 => solved
  /\ pc \in {"geometry", "solver", "step"} /\ status = 0 => readable(maxForce(cycle, step))
  /\ pc \in {"solver", "step"} => readable(geometry(cycle, status, step))
  /\ pc = "step" => readable(solverChk(cycle, status, step))


\* The files of the relaxation that runs.
RunningFilesKept ==
  /\ Reads(cycleChk, cycle) => Reads(cycleChk, cycle)'
  /\ Reads(statusChk(cycle), status) => Reads(statusChk(cycle), status)'
  /\ Complete(cycle, status, step) => Complete(cycle, status, step)'
  /\ readable(optDat) => readable(optDat)'
  /\ readable(relaxDat(cycle, status)) => readable(relaxDat(cycle, status))'
  /\ readable(maxForce(cycle, step)) => readable(maxForce(cycle, step))'
  /\ readable(geometry(cycle, status, step)) => readable(geometry(cycle, status, step))'
  /\ readable(solverChk(cycle, status, step)) => readable(solverChk(cycle, status, step))'

\* They stay when nothing is written, and when what is written names it.
LEMMA NothingWritten ==
  ASSUME UNCHANGED <<disk, saved, cycle, status, step>>
  PROVE  RunningFilesKept
BY DEF RunningFilesKept, Reads, Complete, Last, readable, exists, read

LEMMA HarmlessWrite ==
  ASSUME UNCHANGED <<saved, cycle, status, step>>, NEW f, NEW v, disk' = Put(f, <<v>>),
         f = cycleChk => v = cycle,
         f = statusChk(cycle) => v = status,
         f = stepChk(cycle, status) => v = step
  PROVE  RunningFilesKept
<1>1. \A g : readable(g) => readable(g)'
  BY PutFile
<1>2. /\ readable(optDat) => readable(optDat)'
      /\ readable(relaxDat(cycle, status)) => readable(relaxDat(cycle, status))'
      /\ readable(maxForce(cycle, step)) => readable(maxForce(cycle, step))'
      /\ readable(geometry(cycle, status, step)) => readable(geometry(cycle, status, step))'
      /\ readable(solverChk(cycle, status, step)) => readable(solverChk(cycle, status, step))'
  BY <1>1 DEF readable, exists
<1>3. Reads(stepChk(cycle, status), step) => Reads(stepChk(cycle, status), step)'
  <2> SUFFICES ASSUME Reads(stepChk(cycle, status), step) PROVE Reads(stepChk(cycle, status), step)'
    OBVIOUS
  <2>1. PICK g, x : g = stepChk(cycle, status) /\ x = step /\ readable(g) /\ read(g) = x
    BY DEF Reads
  <2>2. readable(g)' /\ read(g)' = x
    BY <2>1, PutFile
  <2>3. QED
    BY <2>1, <2>2 DEF Reads, readable, exists, read
<1>4. Reads(cycleChk, cycle) => Reads(cycleChk, cycle)'
  BY PutFile DEF Reads
<1>5. Reads(statusChk(cycle), status) => Reads(statusChk(cycle), status)'
  <2> SUFFICES ASSUME Reads(statusChk(cycle), status) PROVE Reads(statusChk(cycle), status)'
    OBVIOUS
  <2>1. PICK g, x : g = statusChk(cycle) /\ x = status /\ readable(g) /\ read(g) = x
    BY DEF Reads
  <2>2. readable(g)' /\ read(g)' = x
    BY <2>1, PutFile
  <2>3. QED
    BY <2>1, <2>2 DEF Reads, readable, exists, read
<1>6. Complete(cycle, status, step) => Complete(cycle, status, step)'
  <2>1. Last' = Last
    BY DEF Last
  <2>2. Complete(cycle, status, step) => Reads(stepChk(cycle, status), step)'
    BY <1>3 DEF Complete
  <2>3. QED
    BY <1>2, <2>1, <2>2 DEF Complete
<1>7. QED
  BY <1>2, <1>4, <1>5, <1>6 DEF RunningFilesKept

\* What status.chk and step.chk say once they are written.
LEMMA WrittenStatus ==
  ASSUME UNCHANGED <<cycle, status>>, disk' = Put(statusChk(cycle), <<status>>)
  PROVE  Reads(statusChk(cycle), status)'
<1>1. PICK g : g = statusChk(cycle)
  OBVIOUS
<1>2. readable(g)' /\ read(g)' = status
  BY <1>1, PutFile
<1>3. QED
  BY <1>1, <1>2 DEF Reads, readable, exists, read

LEMMA InitUpdateInv == Init => UpdateInv
BY DEF Init, UpdateInv, ForcesKnown, Starting, Solving

\* Killed in an update, the job goes on from the last save, with what it needs.
LEMMA StepUpdateInv ==
  IInv /\ OrderInv /\ (onlyUpdating => UpdateInv) /\ [Next]_vars => (onlyUpdating => UpdateInv)'
<1> SUFFICES ASSUME IInv, OrderInv, onlyUpdating => UpdateInv, [Next]_vars, onlyUpdating'
             PROVE  UpdateInv'
  OBVIOUS
<1> USE DEF driver, relaxation, physics, history, vars, goto
<1>a. UpdateInv
  BY DEF Next, Work, WriteOptData, StartCycle, WriteStatus, FirstSolve, WriteCellStatus,
     trivialSolveForStress, InitRelaxation, RestartRelaxation, BeginSolver, SaveMaxForce,
     SaveGeometry, SaveSolver, SaveStep, SolverConverges, SolverGivesUp, SolverContinues, update,
     RestartJob, ReadStep, FindGeometry, TryOlderStep, TryOtherRelaxation, Resume, Crash,
     Terminated
<1>b. status \in Relaxation /\ mode \in {0, 1, 2}
      /\ (mode # 2 => status = mode) /\ relaxRestart \in BOOLEAN
  BY InPlaces, ModesAssumption DEF IInv, KindInv, Kinds, FlagsInv
<1>1. CASE WriteOptData
  <2>1. readable(optDat)'
    BY <1>1, PutFile DEF WriteOptData
  <2>2. pc = "new" /\ pc' = "cycle" /\ UNCHANGED <<driver, relaxation, physics, saved>>
        /\ disk' = Put(optDat, <<mode>>)
    BY <1>1 DEF WriteOptData
  <2>3. RunningFilesKept
    BY <2>2, OtherNames, HarmlessWrite
  <2>4. QED
    BY <2>1, <2>2, <2>3, <1>a DEF UpdateInv, ForcesKnown, Starting, Solving, RunningFilesKept
<1>2. CASE StartCycle
  <2>1. /\ pc = "cycle" /\ UNCHANGED <<driver, relaxation, physics, saved>>
        /\ \/ pc' = "status" /\ disk' = Put(cycleChk, <<cycle>>)
           \/ pc' = "stopped" /\ disk' = disk
    BY <1>2 DEF StartCycle
  <2>2. RunningFilesKept
    <3>1. cycleChk # statusChk(cycle) /\ cycleChk # stepChk(cycle, status)
      BY FileNames
    <3>2. QED
      BY <2>1, <3>1, HarmlessWrite, NothingWritten
  <2>3. pc' = "status" => Reads(cycleChk, cycle)'
    BY <2>1, PutFile DEF Reads
  <2>4. QED
    BY <2>1, <2>2, <2>3, <1>a DEF UpdateInv, ForcesKnown, Starting, Solving, RunningFilesKept
<1>3. CASE WriteStatus
  <2>1. /\ pc = "status" /\ disk' = Put(statusChk(cycle), <<status>>)
        /\ pc' = (IF cycle = 0 /\ ~jobRestarted THEN "solve"
                  ELSE IF status = 0 THEN "relax" ELSE "cellStatus")
        /\ UNCHANGED <<driver, relaxation, physics, saved>>
    BY <1>3 DEF WriteStatus
  <2>2. RunningFilesKept
    <3>1. statusChk(cycle) # cycleChk /\ statusChk(cycle) # stepChk(cycle, status)
      BY FileNames
    <3>2. QED
      BY <2>1, <3>1, HarmlessWrite
  <2>3. Reads(statusChk(cycle), status)'
    BY <2>1, WrittenStatus
  <2>4. /\ readable(optDat) /\ Reads(cycleChk, cycle)
        /\ IF relaxRestart THEN jobRestarted /\ Complete(cycle, status, step)
           ELSE IF cycle = 0 THEN ~jobRestarted ELSE status = 0 => solved
    BY <2>1, <1>a DEF UpdateInv, Starting, ForcesKnown
  <2>5. readable(optDat)' /\ Reads(cycleChk, cycle)'
        /\ (relaxRestart => jobRestarted /\ Complete(cycle, status, step)')
    BY <2>2, <2>4 DEF RunningFilesKept
  <2>6. CASE cycle = 0 /\ ~jobRestarted
    BY <2>1, <2>3, <2>5, <2>6 DEF UpdateInv, ForcesKnown, Starting, Solving
  <2>7. CASE ~(cycle = 0 /\ ~jobRestarted) /\ status = 0
    BY <2>1, <2>3, <2>4, <2>5, <2>7 DEF UpdateInv, ForcesKnown, Starting, Solving
  <2>8. CASE ~(cycle = 0 /\ ~jobRestarted) /\ status # 0
    BY <2>1, <2>3, <2>4, <2>5, <2>8 DEF UpdateInv, ForcesKnown, Starting, Solving
  <2>9. QED
    BY <2>6, <2>7, <2>8
<1>4. CASE FirstSolve
  <2>1. /\ pc = "solve" /\ pc' \in {"relax", "cellStatus"} /\ solved' = TRUE
        /\ UNCHANGED <<disk, driver, relaxation, saved>>
    BY <1>4 DEF FirstSolve
  <2>2. RunningFilesKept
    BY <2>1, NothingWritten
  <2>3. QED
    BY <2>1, <2>2, <1>a DEF UpdateInv, ForcesKnown, Starting, Solving, RunningFilesKept
<1>5. CASE WriteCellStatus
  <2>1. /\ pc = "cellStatus" /\ disk' = Put(statusChk(cycle), <<status>>)
        /\ pc' = (IF mode = 2 THEN "stress" ELSE "relax")
        /\ UNCHANGED <<driver, relaxation, physics, saved>>
    BY <1>5 DEF WriteCellStatus
  <2>2. RunningFilesKept
    <3>1. statusChk(cycle) # cycleChk /\ statusChk(cycle) # stepChk(cycle, status)
      BY FileNames
    <3>2. QED
      BY <2>1, <3>1, HarmlessWrite
  <2>3. Reads(statusChk(cycle), status)'
    BY <2>1, WrittenStatus
  <2>4. QED
    BY <2>1, <2>2, <2>3, <1>a DEF UpdateInv, ForcesKnown, Starting, Solving, RunningFilesKept
<1>6. CASE trivialSolveForStress
  <2>1. /\ pc = "stress" /\ pc' = "relax" /\ solved' = TRUE
        /\ UNCHANGED <<disk, driver, relaxation, saved>>
    BY <1>6 DEF trivialSolveForStress
  <2>2. RunningFilesKept
    BY <2>1, NothingWritten
  <2>3. QED
    BY <2>1, <2>2, <1>a DEF UpdateInv, ForcesKnown, Starting, Solving, RunningFilesKept

<1>7. CASE InitRelaxation
  <2>1. /\ pc = "relax" /\ ~relaxRestart /\ pc' = "begin" /\ step' = 0 /\ solverRestart' = FALSE
        /\ disk' = Put(relaxDat(cycle, status), <<0>>)
        /\ UNCHANGED <<driver, relaxRestart, physics, saved>>
    BY <1>7 DEF InitRelaxation
  <2>2. PICK f : f = relaxDat(cycle, status) /\ f # cycleChk /\ f # statusChk(cycle)
    BY OtherNames
  <2>3. /\ readable(f)' /\ \A g : readable(g) => readable(g)'
        /\ \A g : readable(g) /\ g # f => read(g)' = read(g)
    BY <2>1, <2>2, PutFile
  <2>4. /\ readable(optDat) /\ Reads(cycleChk, cycle) /\ Reads(statusChk(cycle), status)
        /\ (mode = 2 /\ status = 1 => solved) /\ (status = 0 => solved)
    BY <2>1, <1>a DEF UpdateInv, Starting, ForcesKnown
  <2>5. readable(optDat)' /\ Reads(cycleChk, cycle)'
    BY <2>1, <2>2, <2>3, <2>4 DEF Reads
  <2>6. Reads(statusChk(cycle), status)' /\ readable(relaxDat(cycle, status))'
    BY <2>1, <2>2, <2>3, <2>4 DEF Reads, readable, exists, read
  <2>7. QED
    BY <2>1, <2>4, <2>5, <2>6 DEF UpdateInv, Starting, Solving
<1>8. CASE (\E same \in BOOLEAN : RestartRelaxation(same))
  <2>1. PICK same \in BOOLEAN : RestartRelaxation(same)
    BY <1>8
  <2>2. pc = "relax" /\ relaxRestart /\ UNCHANGED <<disk, driver, saved>>
    BY <2>1 DEF RestartRelaxation
  <2>3. /\ Complete(cycle, status, step) /\ readable(optDat) /\ Reads(cycleChk, cycle)
        /\ Reads(statusChk(cycle), status) /\ (mode = 2 /\ status = 1 => solved)
    BY <2>2, <1>a DEF UpdateInv, Starting
  <2>4. /\ readable(relaxDat(cycle, status)) /\ readable(stepChk(cycle, status))
        /\ read(stepChk(cycle, status)) = step
        /\ status = 0 => readable(maxForce(cycle, read(stepChk(cycle, status))))
    BY <2>3 DEF Complete, Reads
  <2>5. /\ pc' = "begin" /\ step' = step /\ relaxRestart' = FALSE /\ solverRestart' = same
        /\ solved' = (solved \/ ~same)
    BY <2>1, <2>4 DEF RestartRelaxation
  <2>6. RunningFilesKept
    BY <2>2, <2>5, NothingWritten
  <2>7. /\ Complete(cycle, status, step)' /\ readable(optDat)' /\ Reads(cycleChk, cycle)'
        /\ Reads(statusChk(cycle), status)' /\ readable(relaxDat(cycle, status))'
    BY <2>3, <2>4, <2>6 DEF RunningFilesKept
  <2>8. /\ mode' = 2 /\ status' = 1 => solved'
        /\ ~solverRestart' => solved'
    BY <2>2, <2>3, <2>5
  <2>9. QED
    BY <2>5, <2>7, <2>8 DEF UpdateInv, Starting, Solving
<1>9. CASE BeginSolver
  <2>1. /\ pc = "begin" /\ UNCHANGED <<disk, driver, relaxation, physics, saved>>
        /\ pc' = (IF solverRestart
                  THEN IF readable(solverChk(cycle, status, step)) THEN "check" ELSE "error"
                  ELSE IF status = 1 THEN "geometry"
                  ELSE IF solved THEN "maxForce" ELSE "error")
    BY <1>9 DEF BeginSolver
  <2>2. RunningFilesKept
    BY <2>1, NothingWritten
  <2>3. /\ readable(optDat) /\ Reads(cycleChk, cycle) /\ Reads(statusChk(cycle), status)
        /\ (mode = 2 /\ status = 1 => solved) /\ readable(relaxDat(cycle, status))
        /\ IF solverRestart THEN Complete(cycle, status, step) ELSE status = 0 => solved
    BY <2>1, <1>a DEF UpdateInv, Solving
  <2>4. /\ readable(optDat)' /\ Reads(cycleChk, cycle)' /\ Reads(statusChk(cycle), status)'
        /\ readable(relaxDat(cycle, status))'
    BY <2>2, <2>3 DEF RunningFilesKept
  <2>5. CASE solverRestart
    <3>1. pc' = "check" /\ Complete(cycle, status, step)'
      BY <2>1, <2>2, <2>3, <2>5 DEF Complete, RunningFilesKept
    <3>2. QED
      BY <2>1, <2>3, <2>4, <3>1 DEF UpdateInv, Starting, Solving
  <2>6. CASE ~solverRestart /\ status = 1
    BY <2>1, <2>3, <2>4, <2>6 DEF UpdateInv, Starting, Solving
  <2>7. CASE ~solverRestart /\ status = 0
    <3>1. pc' = "maxForce" /\ status' # 1
      BY <2>1, <2>3, <2>7
    <3>2. QED
      BY <2>4, <3>1 DEF UpdateInv, Starting, Solving
  <2>8. QED
    BY <2>5, <2>6, <2>7, <1>b DEF Relaxation
<1>10. CASE SaveMaxForce
  <2>1. /\ pc = "maxForce" /\ pc' = "geometry" /\ disk' = Put(maxForce(cycle, step), <<0>>)
        /\ UNCHANGED <<driver, relaxation, physics, saved>>
    BY <1>10 DEF SaveMaxForce
  <2>2. RunningFilesKept
    BY <2>1, OtherNames, HarmlessWrite
  <2>3. readable(maxForce(cycle, step))'
    <3>1. PICK g : g = maxForce(cycle, step)
      OBVIOUS
    <3>2. readable(g)'
      BY <2>1, <3>1, PutFile
    <3>3. QED
      BY <2>1, <3>1, <3>2 DEF readable, exists
  <2>4. QED
    BY <2>1, <2>2, <2>3, <1>a DEF UpdateInv, Starting, Solving, RunningFilesKept
<1>11. CASE SaveGeometry
  <2>1. /\ pc = "geometry" /\ pc' = "solver" /\ disk' = Put(geometry(cycle, status, step), <<relaxed>>)
        /\ UNCHANGED <<driver, relaxation, physics, saved>>
    BY <1>11 DEF SaveGeometry
  <2>2. RunningFilesKept
    <3>1. geometry(cycle, status, step) \notin {cycleChk, statusChk(cycle), stepChk(cycle, status)}
      BY FileNames
    <3>2. QED
      BY <2>1, <3>1, HarmlessWrite
  <2>3. readable(geometry(cycle, status, step))'
    <3>1. PICK g : g = geometry(cycle, status, step)
      OBVIOUS
    <3>2. readable(g)'
      BY <2>1, <3>1, PutFile
    <3>3. QED
      BY <2>1, <3>1, <3>2 DEF readable, exists
  <2>4. QED
    BY <2>1, <2>2, <2>3, <1>a DEF UpdateInv, Starting, Solving, RunningFilesKept
<1>12. CASE SaveSolver
  <2>1. /\ pc = "solver" /\ pc' = "step" /\ disk' = Put(solverChk(cycle, status, step), <<0>>)
        /\ UNCHANGED <<driver, relaxation, physics, saved>>
    BY <1>12 DEF SaveSolver
  <2>2. RunningFilesKept
    BY <2>1, OtherNames, HarmlessWrite
  <2>3. readable(solverChk(cycle, status, step))'
    <3>1. PICK g : g = solverChk(cycle, status, step)
      OBVIOUS
    <3>2. readable(g)'
      BY <2>1, <3>1, PutFile
    <3>3. QED
      BY <2>1, <3>1, <3>2 DEF readable, exists
  <2>4. QED
    BY <2>1, <2>2, <2>3, <1>a DEF UpdateInv, Starting, Solving, RunningFilesKept
<1>13. CASE SaveStep
  <2>1. /\ pc = "step" /\ pc' = "check" /\ disk' = Put(stepChk(cycle, status), <<step>>)
        /\ UNCHANGED <<driver, relaxation, physics>>
        /\ \/ saved # <<>> /\ Last = Position /\ saved' = saved
           \/ ~(saved # <<>> /\ Last = Position) /\ saved' = Append(saved, Position)
    BY <1>13 DEF SaveStep, Last
  <2>2. saved' # <<>> /\ Last' = Position
    <3>1. CASE saved' = saved
      BY <2>1, <3>1 DEF Last
    <3>2. CASE ~(saved # <<>> /\ Last = Position) /\ saved' = Append(saved, Position)
      BY <3>2 DEF OrderInv, Last
    <3>3. QED
      BY <2>1, <3>1, <3>2
  <2>3. PICK f : f = stepChk(cycle, status) /\ f # cycleChk /\ f # statusChk(cycle)
    BY FileNames
  <2>4. /\ readable(f)' /\ read(f)' = step /\ \A g : readable(g) => readable(g)'
        /\ \A g : readable(g) /\ g # f => read(g)' = read(g)
    BY <2>1, <2>3, PutFile
  <2>5. /\ readable(optDat) /\ Reads(cycleChk, cycle) /\ Reads(statusChk(cycle), status)
        /\ (mode = 2 /\ status = 1 => solved) /\ readable(relaxDat(cycle, status))
        /\ (status = 0 => readable(maxForce(cycle, step)))
        /\ readable(geometry(cycle, status, step)) /\ readable(solverChk(cycle, status, step))
    BY <2>1, <1>a DEF UpdateInv, Solving
  <2>6. readable(optDat)' /\ Reads(cycleChk, cycle)'
    BY <2>1, <2>3, <2>4, <2>5 DEF Reads
  <2>7. Reads(statusChk(cycle), status)' /\ Reads(stepChk(cycle, status), step)'
    BY <2>1, <2>3, <2>4, <2>5 DEF Reads, readable, exists, read
  <2>8. /\ readable(relaxDat(cycle, status))' /\ (status = 0 => readable(maxForce(cycle, step))')
        /\ readable(geometry(cycle, status, step))' /\ readable(solverChk(cycle, status, step))'
    BY <2>1, <2>4, <2>5 DEF readable, exists
  <2>9. Complete(cycle, status, step)'
    BY <2>1, <2>2, <2>7, <2>8 DEF Complete, Position
  <2>10. QED
    BY <2>1, <2>5, <2>6, <2>7, <2>8, <2>9 DEF UpdateInv, Starting, Solving
<1>14. CASE SolverConverges \/ (\E r \in {-1, -2, step} : SolverGivesUp(r))
  <2>1. /\ pc = "check" /\ UNCHANGED <<disk, mode, jobRestarted, relaxation, solved, saved>>
        /\ \/ pc' = "stopped" /\ UNCHANGED <<cycle, status>>
           \/ pc' = "cellStatus" /\ status' = 1 /\ cycle' = cycle
           \/ pc' = "cycle" /\ mode = 2 /\ status = 1 /\ status' = 0 /\ cycle' = cycle + 1
    BY <1>14 DEF SolverConverges, SolverGivesUp, HandleResult, Finish
  <2>2. /\ readable(optDat) /\ Reads(cycleChk, cycle) /\ (mode = 2 /\ status = 1 => solved)
    BY <2>1, <1>a DEF UpdateInv, Solving
  <2>3. readable(optDat)' /\ (cycle' = cycle => Reads(cycleChk, cycle)')
    BY <2>1, <2>2 DEF Reads, readable, exists, read
  <2>4. ~relaxRestart /\ cycle \in Cycle
    BY <2>1, InPlaces DEF Solving
  <2>5. cycle + 1 # 0
    BY <2>4 DEF Cycle
  <2>6. CASE pc' = "stopped"
    BY <2>3, <2>6 DEF UpdateInv, Starting, Solving
  <2>7. CASE pc' = "cellStatus" /\ status' = 1 /\ cycle' = cycle
    <3>1. ~relaxRestart' /\ status' # 0 /\ readable(optDat)' /\ Reads(cycleChk, cycle)'
      BY <2>1, <2>3, <2>4, <2>7
    <3>2. QED
      BY <2>7, <3>1 DEF UpdateInv, ForcesKnown, Starting, Solving
  <2>8. CASE pc' = "cycle" /\ mode = 2 /\ status = 1 /\ status' = 0 /\ cycle' = cycle + 1
    BY <2>1, <2>2, <2>3, <2>4, <2>5, <2>8 DEF UpdateInv, ForcesKnown, Starting, Solving
  <2>9. QED
    BY <2>1, <2>6, <2>7, <2>8
<1>16. CASE SolverContinues
  <2>1. pc = "check" /\ pc' = "update" /\ UNCHANGED <<disk, driver, relaxation, physics, saved>>
    BY <1>16 DEF SolverContinues
  <2>2. RunningFilesKept
    BY <2>1, NothingWritten
  <2>3. QED
    BY <2>1, <2>2, <1>a DEF UpdateInv, Starting, Solving, RunningFilesKept
<1>17. CASE update
  <2>1. /\ pc = "update" /\ solved' = TRUE
        /\ pc' = (IF status = 0 THEN "maxForce" ELSE "geometry")
        /\ UNCHANGED <<disk, driver, relaxRestart, solverRestart>>
    BY <1>17 DEF update
  <2>2. /\ readable(optDat) /\ Reads(cycleChk, cycle) /\ Reads(statusChk(cycle), status)
        /\ readable(relaxDat(cycle, status))
    BY <2>1, <1>a DEF UpdateInv, Solving
  <2>3. /\ readable(optDat)' /\ Reads(cycleChk, cycle)' /\ Reads(statusChk(cycle), status)'
        /\ readable(relaxDat(cycle, status))'
    BY <2>1, <2>2 DEF Reads, readable, exists, read
  <2>4. QED
    BY <2>1, <2>3 DEF UpdateInv, Starting, Solving
<1>18. CASE RestartJob
  <2>1. /\ pc = "down" /\ UNCHANGED <<disk, step, saved>>
    BY <1>18 DEF RestartJob
  <2>2. /\ readable(optDat) /\ Reads(cycleChk, cycle) /\ Reads(statusChk(cycle), status)
        /\ Complete(cycle, status, step)
    BY <2>1, <1>a DEF UpdateInv
  <2>3. pc' = "search" /\ cycle' = cycle /\ status' = status /\ jobRestarted' = TRUE
    BY <1>18, <2>2 DEF RestartJob, Reads
  <2>4. RunningFilesKept
    BY <2>1, <2>3, NothingWritten
  <2>5. QED
    BY <2>2, <2>3, <2>4 DEF UpdateInv, Starting, Solving, RunningFilesKept
<1>19. CASE ReadStep
  <2>1. pc = "search" /\ UNCHANGED <<disk, driver, saved>>
    BY <1>19 DEF ReadStep
  <2>2. readable(optDat) /\ Complete(cycle, status, step) /\ jobRestarted
    BY <2>1, <1>a DEF UpdateInv
  <2>3. pc' = "look" /\ step' = step
    BY <1>19, <2>2 DEF ReadStep, Complete, Reads
  <2>4. RunningFilesKept
    BY <2>1, <2>3, NothingWritten
  <2>5. QED
    BY <2>1, <2>2, <2>3, <2>4 DEF UpdateInv, Starting, Solving, RunningFilesKept
<1>20. CASE FindGeometry
  <2>1. pc = "look" /\ pc' = "found" /\ UNCHANGED <<disk, driver, relaxation, saved>>
    BY <1>20 DEF FindGeometry
  <2>2. RunningFilesKept
    BY <2>1, NothingWritten
  <2>3. QED
    BY <2>1, <2>2, <1>a DEF UpdateInv, Starting, Solving, RunningFilesKept
<1>21. CASE TryOlderStep
  <2>1. pc = "look" /\ ~exists(geometry(cycle, status, step))
    BY <1>21 DEF TryOlderStep
  <2>2. QED
    BY <2>1, <1>a DEF UpdateInv, Complete, readable
<1>22. CASE TryOtherRelaxation
  <2>1. pc = "look" /\ step < 0
    BY <1>22 DEF TryOtherRelaxation
  <2>2. saved # <<>> /\ Last = <<cycle, status, step>> /\ Last \in Positions
    BY <2>1, <1>a, LastIsASave DEF UpdateInv, Complete, OrderInv
  <2>3. step \in Step
    BY <2>2 DEF Positions
  <2>4. QED
    BY <2>1, <2>3 DEF Step
<1>23. CASE Resume
  <2>1. /\ pc = "found" /\ disk' = Put(stepChk(cycle, status), <<step>>)
        /\ UNCHANGED <<driver, relaxation, solved>>
    BY <1>23 DEF Resume
  <2>2. Complete(cycle, status, step) /\ readable(optDat) /\ jobRestarted /\ relaxRestart
    BY <2>1, <1>a DEF UpdateInv, IInv, FlagsInv
  <2>3. pc' = "cycle"
    BY <1>23, <2>2 DEF Resume, Complete
  <2>4. PICK n \in 0 .. Len(saved) : UpTo(n) /\ saved' = SubSeq(saved, 1, n)
    BY <1>23 DEF Resume
  <2>5. n = Len(saved)
    <3> SUFFICES ASSUME n < Len(saved) PROVE FALSE
      BY DEF OrderInv
    <3>1. n + 1 \in 1 .. Len(saved) /\ Before(Position, saved[n + 1])
      BY <2>4 DEF UpTo, OrderInv
    <3>2. saved[n + 1] \in Saves
      BY <3>1 DEF Saves
    <3>3. /\ saved[n + 1] \in Places /\ Last \in Places
          /\ (saved[n + 1] = Last \/ Before(saved[n + 1], Last))
      BY <3>2, LastIsLatest, PositionsArePlaces DEF OrderInv
    <3>4. Last = Position
      BY <2>2 DEF Complete, Position
    <3>5. QED
      BY <3>1, <3>3, <3>4, BeforeOrders
  <2>6. saved' = saved
    BY <2>4, <2>5 DEF OrderInv
  <2>7. RunningFilesKept
    <3>1. stepChk(cycle, status) # cycleChk /\ stepChk(cycle, status) # statusChk(cycle)
      BY FileNames
    <3>2. QED
      BY <2>1, <2>6, <3>1, HarmlessWrite
  <2>8. QED
    BY <2>1, <2>2, <2>3, <2>7 DEF UpdateInv, Starting, Solving, RunningFilesKept
<1>24. CASE Crash
  <2>1. /\ pc = "update" /\ pc' = "down" /\ UNCHANGED <<driver, relaxation, saved>>
    BY <1>24, <1>a DEF Crash
  <2>2. disk' = disk
    BY <1>24, <2>1 DEF Crash, Writing
  <2>3. RunningFilesKept
    BY <2>1, <2>2, NothingWritten
  <2>4. QED
    BY <2>1, <2>3, <1>a DEF UpdateInv, Starting, Solving, RunningFilesKept
<1>25. CASE Terminated \/ UNCHANGED vars
  <2>1. UNCHANGED <<pc, disk, driver, relaxation, physics, saved>>
    BY <1>25 DEF Terminated
  <2>2. RunningFilesKept
    BY <2>1, NothingWritten
  <2>3. QED
    BY <2>1, <2>2, <1>a DEF UpdateInv, ForcesKnown, Starting, Solving, RunningFilesKept
<1>27. QED
  BY <1>1, <1>2, <1>3, <1>4, <1>5, <1>6, <1>7, <1>8, <1>9, <1>10, <1>11, <1>12, <1>13,
     <1>14, <1>16, <1>17, <1>18, <1>19, <1>20, <1>21, <1>22, <1>23, <1>24, <1>25
  DEF Next, Work

\* However often the job is killed during updates, which take most of its time:
\* each restart finds its files and resumes at the last save.
THEOREM CrashesInUpdatesLoseNothing == Spec => []UpdateCrashesLoseNothing
<1>1. Init => (onlyUpdating => UpdateInv)
  BY InitUpdateInv
<1>2. (onlyUpdating => UpdateInv) => UpdateCrashesLoseNothing
  BY DEF UpdateInv, UpdateCrashesLoseNothing, Complete, Last, Position
<1>3. QED
  BY <1>1, <1>2, StepUpdateInv, FilesInvariant, PTL DEF Spec
=============================================================================
