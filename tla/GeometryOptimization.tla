------------------------ MODULE GeometryOptimization ------------------------
(***************************************************************************)
(* The driver of ion and cell relaxations and its checkpoints              *)
(* (src/geoOpt/geometryOptimizationClass.cc, geoOptIon.cc, geoOptCell.cc,  *)
(* writeDataIntoFile and readFile of utils/fileReaders.cc), with crashes   *)
(* of the job at any point and restarts from what is on disk.              *)
(*                                                                         *)
(* d_status tells which relaxation runs: 0 ions, 1 cell.  d_optMode is 0   *)
(* for ions only, 1 for the cell only, 2 for both in turn (a cycle).  Only *)
(* rank 0 reads and writes these files; the other ranks follow it.         *)
(*                                                                         *)
(* Model simplifications.  The non-linear solver is its interface: it      *)
(* saves first unless it is restarted, then checks and updates until it    *)
(* returns.  Whether forces or stress are below the tolerance is any       *)
(* outcome.  The solver or its options may be changed between two runs,    *)
(* OPTIMIZATION MODE is not, and REPRODUCIBLE OUTPUT is false.  A write    *)
(* moves the old file away first: a crash in it leaves no file, or an      *)
(* empty one.  The first run starts in an empty folder.                    *)
(***************************************************************************)
EXTENDS Integers, Sequences

CONSTANTS
  Modes,       \* the values of OPTIMIZATION MODE to consider
  Verbosity,   \* d_verbosity
  MaxCycles,   \* the number of cycles of runOpt (100)
  MaxUpdates,  \* bound: updates of one relaxation
  MaxCrashes   \* bound: crashes of the job

ASSUME ModesAssumption == Modes \subseteq 0 .. 2
ASSUME VerbosityAssumption == Verbosity \in Nat
ASSUME BoundsAssumption == MaxCycles \in Nat \ {0} /\ MaxUpdates \in Nat /\ MaxCrashes \in Nat

VARIABLES
  pc,            \* where the job is; "down" when there is no job
  disk,          \* the checkpoint files that exist, with their contents
  mode,          \* d_optMode
  cycle,         \* d_cycle
  status,        \* d_status
  jobRestarted,  \* d_isRestart of the driver
  relaxRestart,  \* d_isRestart of the relaxation that runs
  solverRestart, \* d_solverRestart of the relaxation that runs
  step,          \* d_totalUpdateCalls, or lastSavedStep during the search
  solved,        \* forces and stress of the current geometry are known
  relaxed,       \* relaxed[s]: the last check of s succeeded for this geometry;
                 \* the contents of a geometry file stand for its value
  result,        \* "converged" or "gaveUp" once runOpt has returned
  saved,         \* history: the saves that are complete, oldest first
  crashes,       \* history: number of crashes so far
  onlyUpdating,  \* history: all of them came while the solver was updating
  solverFailed   \* history: some solver returned without converging

driver == <<mode, cycle, status, jobRestarted>>
relaxation == <<relaxRestart, solverRestart, step>>
physics == <<solved, relaxed>>
history == <<saved, crashes, onlyUpdating, solverFailed>>
vars == <<pc, disk, driver, relaxation, physics, result, history>>

Relaxation == {0, 1}
Step == 0 .. MaxUpdates
Empty == <<>>          \* the content of a file whose write was cut short

optDat == <<"geometryOptimization.dat">>
cycleChk == <<"cycle.chk">>
statusChk(c) == <<"status.chk", c>>
relaxDat(c, s) == <<"relax.dat", c, s>>         \* ionOpt.dat or cellOpt.dat
stepChk(c, s) == <<"step.chk", c, s>>
maxForce(c, n) == <<"maxForce.chk", c, 0, n>>
geometry(c, s, n) == <<"domainAndAtoms.chk", c, s, n>>
solverChk(c, s, n) == <<"relaxSolver.chk", c, s, n>>

exists(f) == f \in DOMAIN disk
readable(f) == exists(f) /\ disk[f] # Empty

read(f) == disk[f][1]

Put(f, content) == [g \in DOMAIN disk \cup {f} |-> IF g = f THEN content ELSE disk[g]]
Remove(f) == [g \in DOMAIN disk \ {f} |-> disk[g]]

goto(label) == pc' = label

Init ==
  /\ pc = "new"
  /\ disk = [f \in {} |-> 0]
  /\ mode \in Modes
  /\ cycle = 0
  /\ status = IF mode = 1 THEN 1 ELSE 0
  /\ jobRestarted = FALSE
  /\ relaxRestart = FALSE
  /\ solverRestart = FALSE
  /\ step = 0
  /\ solved = FALSE
  /\ relaxed = [s \in Relaxation |-> FALSE]
  /\ result = "none"
  /\ saved = <<>>
  /\ crashes = 0
  /\ onlyUpdating = TRUE
  /\ solverFailed = FALSE

-----------------------------------------------------------------------------
\* The driver.

\* init, without restart.
WriteOptData ==
  /\ pc = "new"
  /\ disk' = Put(optDat, <<mode>>)
  /\ goto("cycle")
  /\ UNCHANGED <<driver, relaxation, physics, result, history>>

\* The head of the loop of runOpt.
StartCycle ==
  /\ pc = "cycle"
  /\ IF cycle < MaxCycles
     THEN disk' = Put(cycleChk, <<cycle>>) /\ goto("status") /\ UNCHANGED result
     ELSE goto("stopped") /\ result' = "gaveUp" /\ UNCHANGED disk
  /\ UNCHANGED <<driver, relaxation, physics, history>>

WriteStatus ==
  /\ pc = "status"
  /\ disk' = Put(statusChk(cycle), <<status>>)
  /\ goto(IF cycle = 0 /\ ~jobRestarted THEN "solve"
          ELSE IF status = 0 THEN "relax" ELSE "cellStatus")
  /\ UNCHANGED <<driver, relaxation, physics, result, history>>

FirstSolve ==
  /\ pc = "solve"
  /\ solved' = TRUE
  /\ goto(IF status = 0 THEN "relax" ELSE "cellStatus")
  /\ UNCHANGED <<disk, driver, relaxation, relaxed, result, history>>

\* Fault: the second write is left out.
KeepIonStatus ==
  /\ pc = "cellStatus"
  /\ goto(IF mode = 2 THEN "stress" ELSE "relax")
  /\ UNCHANGED <<disk, driver, relaxation, physics, result, history>>

\* status.chk is written again before a cell relaxation.
WriteCellStatus ==
  /\ pc = "cellStatus"
  /\ disk' = Put(statusChk(cycle), <<status>>)
  /\ goto(IF mode = 2 THEN "stress" ELSE "relax")
  /\ UNCHANGED <<driver, relaxation, physics, result, history>>

trivialSolveForStress ==
  /\ pc = "stress"
  /\ solved' = TRUE
  /\ goto("relax")
  /\ UNCHANGED <<disk, driver, relaxation, relaxed, result, history>>

\* What runOpt does with the value r that a relaxation returns.
Finish(isConverged) ==
  /\ result' = IF isConverged THEN "converged" ELSE "gaveUp"
  /\ goto("stopped")
  /\ UNCHANGED <<cycle, status>>

\* Fault: a relaxation that ends is taken for a converged one.
HandleAnyResult(r) ==
  \/ mode # 2 /\ Finish(r >= 0)
  \/ mode = 2 /\ status = 0 /\ IF cycle # 0
                               THEN Finish(TRUE)
                               ELSE status' = 1 /\ goto("cellStatus") /\ UNCHANGED <<cycle, result>>
  \/ mode = 2 /\ status = 1 /\ Finish(TRUE)

\* Fault: the cycles are not counted.
HandleWithoutCounting(r) ==
  \/ mode # 2 /\ Finish(r >= 0)
  \/ mode = 2 /\ status = 0 /\ status' = 1 /\ goto("cellStatus") /\ UNCHANGED <<cycle, result>>
  \/ mode = 2 /\ status = 1 /\ status' = 0 /\ goto("cycle") /\ UNCHANGED <<cycle, result>>

HandleResult(r) ==
  \/ mode # 2 /\ Finish(r >= 0)
  \/ mode = 2 /\ status = 0 /\ IF r = 0 /\ cycle # 0
                               THEN Finish(TRUE)
                               ELSE status' = 1 /\ goto("cellStatus") /\ UNCHANGED <<cycle, result>>
  \/ mode = 2 /\ status = 1 /\ IF r = 0
                               THEN Finish(TRUE)
                               ELSE /\ status' = 0
                                    /\ cycle' = cycle + 1
                                    /\ goto("cycle")
                                    /\ UNCHANGED result
-----------------------------------------------------------------------------
\* One relaxation: init, then the solver's solve, which calls save and update.
InitRelaxation ==
  /\ pc = "relax"
  /\ ~relaxRestart
  /\ disk' = Put(relaxDat(cycle, status), <<0>>)
  /\ step' = 0
  /\ solverRestart' = FALSE
  /\ goto("begin")
  /\ UNCHANGED <<driver, relaxRestart, physics, result, history>>

\* sameSolver: solver, its options and the relaxation flags are those of the
\* run that wrote the checkpoint; otherwise the solver starts from scratch.
RestartRelaxation(sameSolver) ==
  LET n == read(stepChk(cycle, status))
      ok == /\ readable(relaxDat(cycle, status))
            /\ readable(stepChk(cycle, status))
            /\ status = 0 => readable(maxForce(cycle, n))
  IN  /\ pc = "relax"
      /\ relaxRestart
      /\ relaxRestart' = FALSE
      /\ solverRestart' = sameSolver
      /\ step' = IF ok THEN n ELSE step
      /\ solved' = (solved \/ (ok /\ ~sameSolver))
      /\ goto(IF ok THEN "begin" ELSE "error")
      /\ UNCHANGED <<disk, driver, relaxed, result, history>>

\* The atoms' forces must have been computed before gradient is called.
BeginSolver ==
  /\ pc = "begin"
  /\ goto(IF solverRestart
          THEN IF readable(solverChk(cycle, status, step)) THEN "check" ELSE "error"
          ELSE IF status = 1 THEN "geometry"
          ELSE IF solved THEN "maxForce" ELSE "error")
  /\ UNCHANGED <<disk, driver, relaxation, physics, result, history>>

\* save: the files of the step, then step.chk.
SaveMaxForce ==
  /\ pc = "maxForce"
  /\ disk' = Put(maxForce(cycle, step), <<0>>)
  /\ goto("geometry")
  /\ UNCHANGED <<driver, relaxation, physics, result, history>>

SaveGeometry ==
  /\ pc = "geometry"
  /\ disk' = Put(geometry(cycle, status, step), <<relaxed>>)
  /\ goto("solver")
  /\ UNCHANGED <<driver, relaxation, physics, result, history>>

SaveSolver ==
  /\ pc = "solver"
  /\ disk' = Put(solverChk(cycle, status, step), <<0>>)
  /\ goto("step")
  /\ UNCHANGED <<driver, relaxation, physics, result, history>>

Position == <<cycle, status, step>>

\* The order in which an optimization passes through its positions.
Before(x, y) ==
  \/ x[1] < y[1]
  \/ x[1] = y[1] /\ x[2] < y[2]
  \/ x[1] = y[1] /\ x[2] = y[2] /\ x[3] < y[3]

SaveStep ==
  /\ pc = "step"
  /\ disk' = Put(stepChk(cycle, status), <<step>>)
  /\ saved' = IF saved # <<>> /\ saved[Len(saved)] = Position THEN saved
              ELSE Append(saved, Position)
  /\ goto("check")
  /\ UNCHANGED <<driver, relaxation, physics, result, crashes, onlyUpdating, solverFailed>>

SolverConverges ==
  /\ pc = "check"
  /\ solved
  /\ relaxed' = [relaxed EXCEPT ![status] = TRUE]
  /\ HandleResult(step)
  /\ UNCHANGED <<disk, mode, jobRestarted, relaxation, solved, history>>

\* FAILURE, MAX_ITER_REACHED, or LINESEARCH_FAILED, which run does not handle.
SolverGivesUp(r) ==
  /\ pc = "check"
  /\ relaxed' = [relaxed EXCEPT ![status] = FALSE]
  /\ solverFailed' = TRUE
  /\ HandleResult(r)
  /\ UNCHANGED <<disk, mode, jobRestarted, relaxation, solved, saved, crashes, onlyUpdating>>

SolverContinues ==
  /\ pc = "check"
  /\ step < MaxUpdates
  /\ goto("update")
  /\ UNCHANGED <<disk, driver, relaxation, physics, result, history>>

update ==
  /\ pc = "update"
  /\ step' = step + 1
  /\ solved' = TRUE
  /\ relaxed' = [s \in Relaxation |-> FALSE]
  /\ goto(IF status = 0 THEN "maxForce" ELSE "geometry")
  /\ UNCHANGED <<disk, driver, relaxRestart, solverRestart, result, history>>
-----------------------------------------------------------------------------
\* Crashes, and the restart path of init.
Writing ==
  CASE pc = "new" -> {optDat}
    [] pc = "cycle" -> {cycleChk}
    [] pc \in {"status", "cellStatus"} -> {statusChk(cycle)}
    [] pc = "relax" /\ ~relaxRestart -> {relaxDat(cycle, status)}
    [] pc = "maxForce" -> {maxForce(cycle, step)}
    [] pc = "geometry" -> {geometry(cycle, status, step)}
    [] pc = "solver" -> {solverChk(cycle, status, step)}
    [] pc \in {"step", "found"} -> {stepChk(cycle, status)}
    [] OTHER -> {}

Crash ==
  /\ pc \notin {"down", "stopped", "error"}
  /\ crashes < MaxCrashes
  /\ \/ UNCHANGED disk
     \/ \E f \in Writing : disk' \in {Remove(f), Put(f, Empty)}
  /\ crashes' = crashes + 1
  /\ onlyUpdating' = (onlyUpdating /\ pc = "update")
  /\ goto("down")
  /\ UNCHANGED <<driver, relaxation, physics, result, saved, solverFailed>>

RestartJob ==
  LET ok == readable(optDat) /\ readable(cycleChk) /\ readable(statusChk(read(cycleChk)))
  IN  /\ pc = "down"
      /\ jobRestarted' = TRUE
      /\ relaxRestart' = TRUE
      /\ solved' = FALSE
      /\ relaxed' = [s \in Relaxation |-> FALSE]
      /\ cycle' = IF ok THEN read(cycleChk) ELSE cycle
      /\ status' = IF ok THEN read(statusChk(read(cycleChk))) ELSE status
      /\ goto(IF ok THEN "search" ELSE "error")
      /\ UNCHANGED <<disk, mode, solverRestart, step, result, history>>

\* The search for the geometry files of the last step, and of older ones.
ReadStep ==
  LET f == stepChk(cycle, status)
  IN  /\ pc = "search"
      /\ step' = IF readable(f) THEN read(f) ELSE step
      /\ goto(IF readable(f) THEN "look" ELSE "error")
      /\ UNCHANGED <<disk, driver, relaxRestart, solverRestart, physics, result, history>>

FindGeometry ==
  /\ pc = "look"
  /\ step >= 0
  /\ exists(geometry(cycle, status, step))
  /\ goto("found")
  /\ UNCHANGED <<disk, driver, relaxation, physics, result, history>>

\* Fault: nothing decrements the step.
TrySameStep ==
  /\ pc = "look"
  /\ step >= 0
  /\ ~exists(geometry(cycle, status, step))
  /\ UNCHANGED vars

\* Fault: the step is decremented twice.
SkipOneStep ==
  /\ pc = "look"
  /\ step >= 0
  /\ ~exists(geometry(cycle, status, step))
  /\ step' = IF step > 0 THEN step - 2 ELSE -1
  /\ UNCHANGED <<pc, disk, driver, relaxRestart, solverRestart, physics, result, history>>

\* The step is decremented by the message that reports the missing files.
TryOlderStep ==
  /\ pc = "look"
  /\ step >= 0
  /\ ~exists(geometry(cycle, status, step))
  /\ step' = IF Verbosity > 0 THEN step - 1 ELSE step
  /\ UNCHANGED <<pc, disk, driver, relaxRestart, solverRestart, physics, result, history>>

TryOtherRelaxation ==
  /\ pc = "look"
  /\ step < 0
  /\ cycle' = IF mode = 2 /\ status = 0 THEN cycle - 1 ELSE cycle
  /\ status' = IF mode = 2 THEN 1 - status ELSE status
  /\ goto(IF cycle' >= 0 THEN "search" ELSE "error")
  /\ UNCHANGED <<disk, mode, jobRestarted, relaxation, physics, result, history>>

\* n is the number of saves up to the first one that is after Position.
UpTo(n) ==
  /\ \A i \in 1 .. n : ~Before(Position, saved[i])
  /\ n < Len(saved) => Before(Position, saved[n + 1])

\* The job is created from the geometry files, which must have content.  The
\* saves after the one it resumes at are given up.
Resume ==
  LET ok == readable(geometry(cycle, status, step))
  IN  /\ pc = "found"
      /\ disk' = Put(stepChk(cycle, status), <<step>>)
      /\ relaxed' = IF ok THEN read(geometry(cycle, status, step)) ELSE relaxed
      /\ \E n \in 0 .. Len(saved) : UpTo(n) /\ saved' = SubSeq(saved, 1, n)
      /\ goto(IF ok THEN "cycle" ELSE "error")
      /\ UNCHANGED <<driver, relaxation, solved, result, crashes, onlyUpdating, solverFailed>>

Terminated ==
  /\ pc \in {"stopped", "error"}
  /\ UNCHANGED vars

Work ==
  \/ WriteOptData \/ StartCycle \/ WriteStatus \/ FirstSolve
  \/ WriteCellStatus \/ trivialSolveForStress
  \/ InitRelaxation \/ (\E same \in BOOLEAN : RestartRelaxation(same))
  \/ BeginSolver
  \/ SaveMaxForce \/ SaveGeometry \/ SaveSolver \/ SaveStep
  \/ SolverConverges \/ (\E r \in {-1, -2, step} : SolverGivesUp(r))
  \/ SolverContinues \/ update
  \/ RestartJob \/ ReadStep \/ FindGeometry \/ TryOlderStep
  \/ TryOtherRelaxation \/ Resume

Next == Work \/ Crash \/ Terminated

Spec == Init /\ [][Next]_vars

\* A job that runs goes on; a job that went down is restarted.
FairSpec == Spec /\ WF_vars(Work)
-----------------------------------------------------------------------------
PCs == {"new", "cycle", "status", "solve", "cellStatus", "stress", "relax", "begin",
        "maxForce", "geometry", "solver", "step", "check", "update",
        "down", "search", "look", "found", "stopped", "error"}

\* Shapes of the driver's state and of the checkpoint files it relies on.
TypeOK ==
  /\ pc \in PCs
  /\ mode \in Modes
  /\ cycle \in -1 .. MaxCycles
  /\ status \in (IF mode = 2 THEN Relaxation ELSE {mode})
  /\ step \in -1 .. MaxUpdates
  /\ result \in {"none", "converged", "gaveUp"}
  /\ readable(cycleChk) => read(cycleChk) \in 0 .. MaxCycles - 1
  /\ \A c \in 0 .. MaxCycles - 1 : \A s \in Relaxation :
       readable(stepChk(c, s)) => read(stepChk(c, s)) \in Step

\* A restart goes back behind the last complete save by one save at most, which
\* happens when that save was being written again: the files that are found are
\* never those of an older position.
LosesAtMostOneSave ==
  pc = "found" /\ Len(saved) > 1 => ~Before(Position, saved[Len(saved) - 1])

\* The long part of the work is the updates.  If the job only ever crashes
\* there, every restart succeeds and continues from the last save.
UpdateCrashesLoseNothing ==
  onlyUpdating => /\ pc # "error"
                  /\ pc = "found" => saved[Len(saved)] = Position

\* Saves are made in the order of cycles, of ions before the cell, and of steps,
\* across all restarts.
CheckpointsAdvance ==
  \A i \in 1 .. Len(saved) - 1 : Before(saved[i], saved[i + 1])

\* If no solver gave up, an optimization that stops as converged has relaxed
\* what its mode asks for, both at the geometry it stops with.
ConvergedMeansRelaxed ==
  result = "converged" /\ ~solverFailed =>
    /\ mode # 1 => relaxed[0]
    /\ mode # 0 => relaxed[1]

Searching == pc \in {"search", "look"}

\* With messages on, the search of a restarted IONCELL optimization ends.
IonCellSearchEnds == (Searching /\ mode = 2) ~> ~Searching

\* geometryOptimizationClass.cc ends the search without result by an exception,
\* "DFT-FE Error: Unable to find restart files."
RestartSearchEnds == Searching ~> ~Searching
=============================================================================
