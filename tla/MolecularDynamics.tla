------------------------- MODULE MolecularDynamics -------------------------
(***************************************************************************)
(* Molecular dynamics and its restart files                                *)
(* (src/md/molecularDynamicsClass.cc, writeDataIntoFile and copyFile of    *)
(* utils/fileReaders.cc), with crashes of the job at any point, exits by   *)
(* wall time, and restarts from what is on disk.                           *)
(*                                                                         *)
(* The values that are computed stand for the trajectory that led to them: *)
(* the sequence of the jobs that computed its steps, oldest first.  So a   *)
(* value of step n has length n, and two values of one step differ when    *)
(* different jobs computed it.                                             *)
(*                                                                         *)
(* Model simplifications.  SAVE RHO DATA is on, REPRODUCIBLE OUTPUT off    *)
(* and the system is not spin-polarized.  A job keeps the thermostat of    *)
(* the job it restarts; RESCALE and CSVR are NO_CONTROL here, they have no *)
(* state of their own.  Files that are never read back (force.chk,         *)
(* InternalEnergy.chk, TotalEnergy.chk, the .old files) are left out.  A   *)
(* crash in a write leaves no file, or an empty one.  The first job starts *)
(* in an empty folder; ./mdRestart exists when it is in that folder.       *)
(***************************************************************************)
EXTENDS Integers, Sequences

CONSTANTS
  Thermostats,    \* the values of d_ThermostatType to consider
  RestartFolder,  \* d_restartFilesPath as given, RESTART FOLDER
  NumberOfSteps,  \* d_numberofSteps
  MaxJobs         \* bound: jobs, the first one included

ASSUME ThermostatsAssumption == Thermostats \subseteq {"NO_CONTROL", "NOSE_HOVER_CHAINS"}
ASSUME BoundsAssumption == NumberOfSteps \in Nat \ {0} /\ MaxJobs \in Nat \ {0}

VARIABLES
  pc,          \* where the job is; "down" when there is no job
  disk,        \* the restart files that exist, with their contents
  todo,        \* the writes that the current operation has left
  thermostat,  \* d_ThermostatType
  start,       \* d_startingTimeStep
  time,        \* d_TimeIndex
  state,       \* what the job has in memory of each part of the system
  densities,   \* d_extrapDensity_tmin2 and d_extrapDensity_tmin1
  scfRestart,  \* scfRestart, as checkRestart sets it
  job,         \* history: number of this job
  recorded,    \* history: the last step whose restart files were all written
  onlySolving, \* history: every crash came in a solve after a recorded step
  unnamed      \* history: some crash came when the density of a step had been
               \* saved, or its save begun, and time.chk did not name the step yet

run == <<thermostat, start, time>>
memory == <<state, densities, scfRestart>>
crashHistory == <<onlySolving, unnamed>>
history == <<job, recorded, crashHistory>>
vars == <<pc, disk, todo, run, memory, history>>

Part == {"positions", "unwrapped", "velocity", "displacement", "kinetic", "thermostat"}
Empty == <<>>         \* the content of a file whose write was cut short
NoDensity == <<0>>    \* the value of a density that was never set

mdDat == <<"moleculardynamics.dat">>
timeChk == <<"time.chk">>
rhoChk == <<"parallelUnmovedTriaSolData.chk">>
nhcChk == <<"./mdRestart/NHCThermostat.chk">>
stepFile(part, n) == <<part, n>>       \* the file of StepN that holds the part
domainChk(n) == <<"domainBoundingVectorsCurrent.chk", n>>
displacementChk(n) == <<"Displacement.chk", n>>
totalDisplacementChk(n) == <<"TotalDisplacement.chk", n>>

exists(f) == f \in DOMAIN disk
readable(f) == exists(f) /\ disk[f] # Empty
read(f) == disk[f][1]

Put(f, content) == [g \in DOMAIN disk \cup {f} |-> IF g = f THEN content ELSE disk[g]]
Remove(f) == [g \in DOMAIN disk \ {f} |-> disk[g]]

write(f, v) == [kind |-> "write", file |-> f, value |-> v]
copy(f, from) == [kind |-> "copy", file |-> f, value |-> from]
append(f, v) == [kind |-> "append", file |-> f, value |-> v]

\* The disk after one write.  cp leaves everything as it is when it has no source.
After(w) ==
  CASE w.kind = "write" -> Put(w.file, <<w.value>>)
    [] w.kind = "copy" -> IF exists(w.value) THEN Put(w.file, disk[w.value]) ELSE disk
    [] w.kind = "append" ->
         Put(w.file, <<Append(IF readable(w.file) THEN read(w.file) ELSE <<>>, w.value)>>)

\* The disks that a crash in a write can leave: writeDataIntoFile moves the old
\* file away before it opens the new one.
CutShort(w) ==
  IF w.kind = "append" /\ exists(w.file) THEN {disk}
  ELSE {disk, Put(w.file, Empty)} \cup (IF w.kind = "write" THEN {Remove(w.file)} ELSE {})

goto(label) == pc' = label

Init ==
  /\ pc = "new"
  /\ disk = [f \in {} |-> 0]
  /\ todo = <<>>
  /\ thermostat \in Thermostats
  /\ start = 0
  /\ time = 0
  /\ state = [p \in Part |-> <<>>]
  /\ densities = [tmin2 |-> NoDensity, tmin1 |-> NoDensity]
  /\ scfRestart = FALSE
  /\ job = 1
  /\ recorded = 0
  /\ onlySolving = TRUE
  /\ unnamed = FALSE

Step == state["positions"]      \* the trajectory up to the current step

-----------------------------------------------------------------------------
\* Writes go to the disk one at a time, in the order of the code.
Write ==
  /\ todo # <<>>
  /\ disk' = After(Head(todo))
  /\ todo' = Tail(todo)
  /\ UNCHANGED <<pc, run, memory, history>>

\* An operation whose writes are all done goes on.
Done(label) == pc = label /\ todo = <<>>

\* runMD without restart: the files of step 0.
WriteStep0 ==
  /\ Done("new")
  /\ todo' = <<write(displacementChk(0), <<>>), write(totalDisplacementChk(0), <<>>)>>
  /\ goto("firstSolve")
  /\ UNCHANGED <<disk, run, memory, history>>

\* solve: it ends with the save of the density.
FirstSolve ==
  /\ Done("firstSolve")
  /\ todo' = <<write(rhoChk, Step)>>
  /\ goto("firstDensity")
  /\ UNCHANGED <<disk, run, memory, history>>

\* DensityExtrapolation(0), in runMD or in InitialiseFromRestartFile.
FirstDensity ==
  /\ Done("firstDensity")
  /\ densities' = [densities EXCEPT !.tmin2 = Step]
  /\ goto(IF start > 0 /\ thermostat = "NOSE_HOVER_CHAINS" THEN "thermostat" ELSE "loop")
  /\ UNCHANGED <<disk, todo, run, state, scfRestart, history>>

\* InitialiseFromRestartNHCFile: the copy may have no source.
CopyThermostat ==
  /\ Done("thermostat")
  /\ todo' = <<copy(nhcChk, stepFile("thermostat", start))>>
  /\ goto("readThermostat")
  /\ UNCHANGED <<disk, run, memory, history>>

ReadThermostat ==
  /\ Done("readThermostat")
  /\ IF readable(nhcChk)
     THEN state' = [state EXCEPT !["thermostat"] = read(nhcChk)] /\ goto("loop")
     ELSE goto("failed") /\ UNCHANGED state
  /\ UNCHANGED <<disk, todo, run, densities, scfRestart, history>>

\* The head of the loops of mdNVE, mdNVTrescaleThermostat,
\* mdNVTnosehoverchainsThermostat and mdNVTsvrThermostat.
StartStep ==
  /\ Done("loop")
  /\ IF time + 1 < start + NumberOfSteps
     THEN time' = time + 1 /\ goto("solve")
     ELSE goto("finished") /\ UNCHANGED time
  /\ UNCHANGED <<disk, todo, thermostat, start, memory, history>>

\* velocityVerlet up to the end of its solve, with the thermostat around it.
velocityVerlet ==
  /\ Done("solve")
  /\ state' = [p \in Part |-> IF p = "thermostat" /\ thermostat = "NO_CONTROL" THEN <<>>
                              ELSE Append(Step, job)]
  /\ todo' = <<write(rhoChk, Append(Step, job))>>
  /\ goto("density")
  /\ UNCHANGED <<disk, run, densities, scfRestart, history>>

\* Fault: the densities are numbered from step 0 and not from the restart.
ExtrapolateFromStep0 ==
  /\ Done("density")
  /\ densities' = IF time = 1 THEN [densities EXCEPT !.tmin1 = Step]
                  ELSE [tmin2 |-> densities.tmin1, tmin1 |-> Step]
  /\ goto("restartFiles")
  /\ UNCHANGED <<disk, todo, run, state, scfRestart, history>>

\* DensityExtrapolation or DensitySplitExtrapolation (d_TimeIndex - d_startingTimeStep).
DensityExtrapolation ==
  /\ Done("density")
  /\ densities' = IF time - start = 1 THEN [densities EXCEPT !.tmin1 = Step]
                  ELSE [tmin2 |-> densities.tmin1, tmin1 |-> Step]
  /\ goto("restartFiles")
  /\ UNCHANGED <<disk, todo, run, state, scfRestart, history>>

RestartFile(p) == write(stepFile(p, time), state[p])

\* Fault: what is written from step 2 on is written from step 3 on.
WriteFromStep3 ==
  /\ Done("restartFiles")
  /\ todo' = <<write(mdDat, thermostat), write(timeChk, time), RestartFile("kinetic"),
               write(domainChk(time), 0), RestartFile("positions")>>
             \o (IF time > 2
                 THEN <<RestartFile("velocity"), RestartFile("displacement"),
                        RestartFile("unwrapped"), write(timeChk, time)>>
                 ELSE <<>>)
  /\ goto("thermostatFile")
  /\ UNCHANGED <<disk, run, memory, history>>

writeRestartFile ==
  /\ Done("restartFiles")
  /\ todo' = <<write(mdDat, thermostat), write(timeChk, time), RestartFile("kinetic"),
               write(domainChk(time), 0), RestartFile("positions")>>
             \o (IF time > 1
                 THEN <<RestartFile("velocity"), RestartFile("displacement"),
                        RestartFile("unwrapped"), write(timeChk, time)>>
                 ELSE <<>>)
  /\ goto("thermostatFile")
  /\ UNCHANGED <<disk, run, memory, history>>

\* The files go to ./mdRestart, whatever the restart folder is; where there is
\* no such folder, nothing is written and nothing is reported.
writeRestartNHCfile ==
  /\ Done("thermostatFile")
  /\ todo' = IF thermostat = "NOSE_HOVER_CHAINS" /\ RestartFolder = "."
             THEN <<write(nhcChk, state["thermostat"]), copy(stepFile("thermostat", time), nhcChk)>>
             ELSE <<>>
  /\ goto("recorded")
  /\ UNCHANGED <<disk, run, memory, history>>

\* Fault: the displacements are added to those of the step that was restarted.
AddToRestartedStep ==
  LET previous == displacementChk(IF start > 0 THEN start ELSE time - 1)
      sum == Append(read(previous), state["displacement"][time])
  IN  /\ Done("recorded")
      /\ recorded' = time
      /\ IF readable(previous)
         THEN /\ todo' = <<write(displacementChk(time), sum),
                           copy(totalDisplacementChk(time), totalDisplacementChk(time - 1)),
                           append(totalDisplacementChk(time), sum)>>
              /\ goto("stepDone")
         ELSE goto("failed") /\ UNCHANGED todo
      /\ UNCHANGED <<disk, run, memory, job, crashHistory>>

\* writeTotalDisplacementFile: the displacements of the step before, plus r.
writeTotalDisplacementFile ==
  LET previous == displacementChk(time - 1)
      sum == Append(read(previous), state["displacement"][time])
  IN  /\ Done("recorded")
      /\ recorded' = time
      /\ IF readable(previous)
         THEN /\ todo' = <<write(displacementChk(time), sum),
                           copy(totalDisplacementChk(time), totalDisplacementChk(time - 1)),
                           append(totalDisplacementChk(time), sum)>>
              /\ goto("stepDone")
         ELSE goto("failed") /\ UNCHANGED todo
      /\ UNCHANGED <<disk, run, memory, job, crashHistory>>

\* The wall time is over or not, as the machine has it.
EndStep ==
  /\ Done("stepDone")
  /\ pc' \in {"loop", "finished"}
  /\ UNCHANGED <<disk, todo, run, memory, history>>
-----------------------------------------------------------------------------
\* Crashes, and restarts.
Running == pc \notin {"down", "failed", "finished"}

\* time.chk does not name the step whose density was saved, or begun to be.
Unnamed(d) ==
  /\ pc \in {"density", "restartFiles", "thermostatFile"}
  /\ ~(timeChk \in DOMAIN d /\ d[timeChk] = <<time>>)

Crash ==
  /\ Running
  /\ job < MaxJobs
  /\ disk' \in (IF todo = <<>> THEN {disk} ELSE CutShort(Head(todo)))
  /\ todo' = <<>>
  /\ onlySolving' = (onlySolving /\ \/ Done("solve") /\ time > 2
                                    \/ Done("firstSolve") /\ start > 0)
  /\ unnamed' = (unnamed \/ Unnamed(disk'))
  /\ goto("down")
  /\ UNCHANGED <<run, memory, job, recorded>>

\* Fault: the thermostat's file is not looked for.
HasPositionsAndVelocity(t) == exists(stepFile("positions", t)) /\ exists(stepFile("velocity", t))

\* The files of a step that checkRestart looks for.
HasRestartFiles(t) ==
  /\ exists(stepFile("positions", t))
  /\ exists(stepFile("velocity", t))
  /\ read(mdDat) = "NOSE_HOVER_CHAINS" => exists(stepFile("thermostat", t))

\* Fault: the search starts one step too early.
checkRestartBefore(last) ==
  LET found == {t \in 2 .. last - 1 : HasRestartFiles(t)}
  IN  IF found = {} THEN 1 ELSE CHOOSE t \in found : \A u \in found : u <= t

\* checkRestart: the newest step with its files, counted down to 1 if there is none.
checkRestart(last) ==
  LET found == {t \in 2 .. last : HasRestartFiles(t)}
  IN  IF found = {} THEN 1 ELSE CHOOSE t \in found : \A u \in found : u <= t

\* Fault: the density is taken for that of any step.
AlwaysScfRestart(found, last) == TRUE

isScfRestart(found, last) == found = last

\* The constructor: step 1 has no coordinates file, so the job stops there.
RestartJob ==
  LET ok == readable(mdDat) /\ readable(timeChk)
      last == read(timeChk)
      found == checkRestart(last)
  IN  /\ pc \in {"down", "finished"}
      /\ job < MaxJobs \/ pc = "down"
      /\ job' = job + 1
      /\ IF ok /\ found > 1
         THEN /\ start' = found
              /\ time' = found
              /\ scfRestart' = isScfRestart(found, last)
              /\ goto("restart")
         ELSE goto("failed") /\ UNCHANGED <<start, time, scfRestart>>
      /\ state' = [p \in Part |-> <<>>]
      /\ densities' = [tmin2 |-> NoDensity, tmin1 |-> NoDensity]
      /\ UNCHANGED <<disk, todo, thermostat, recorded, crashHistory>>

\* The files that the wrapper and InitialiseFromRestartFile read.
Read == Part \ {"thermostat"}

InitialiseFromRestartFile ==
  /\ Done("restart")
  /\ IF readable(domainChk(start)) /\ \A p \in Read : readable(stepFile(p, start))
     THEN /\ state' = [p \in Part |-> IF p \in Read THEN read(stepFile(p, start)) ELSE <<>>]
          /\ goto("firstSolve")
     ELSE goto("failed") /\ UNCHANGED state
  /\ UNCHANGED <<disk, todo, run, densities, scfRestart, history>>

Terminated ==
  /\ \/ pc = "failed"
     \/ pc = "finished" /\ job = MaxJobs
  /\ UNCHANGED vars

Work ==
  \/ Write \/ WriteStep0 \/ FirstSolve \/ FirstDensity
  \/ CopyThermostat \/ ReadThermostat
  \/ StartStep \/ velocityVerlet \/ DensityExtrapolation
  \/ writeRestartFile \/ writeRestartNHCfile \/ writeTotalDisplacementFile \/ EndStep
  \/ RestartJob \/ InitialiseFromRestartFile

Next == Work \/ Crash \/ Terminated

Spec == Init /\ [][Next]_vars

\* A job that runs goes on; a job that went down is restarted.
FairSpec == Spec /\ WF_vars(Work)
-----------------------------------------------------------------------------
PCs == {"new", "firstSolve", "firstDensity", "thermostat", "readThermostat", "loop",
        "solve", "density", "restartFiles", "thermostatFile", "recorded", "stepDone",
        "down", "restart", "failed", "finished"}

MaxStep == MaxJobs * (NumberOfSteps - 1)

\* A file of a step holds a value of that step, and time.chk names a step.
TypeOK ==
  /\ pc \in PCs
  /\ job \in 1 .. MaxJobs
  /\ 0 <= start /\ start <= time /\ time <= MaxStep
  /\ \A p \in Part, n \in 0 .. MaxStep :
       readable(stepFile(p, n)) =>
         Len(read(stepFile(p, n))) = (IF p = "thermostat" /\ thermostat = "NO_CONTROL" THEN 0 ELSE n)
  /\ readable(timeChk) => read(timeChk) \in 1 .. MaxStep

\* What a restart reads of the parts of a system (positions, unwrapped
\* positions, velocity, displacement, energy, thermostat) belongs to one step and was
\* computed by one job, although each part has its own file, the files of a step may be
\* rewritten by later jobs, and checkRestart looks for three of them only.
ResumesOneState ==
  pc = "loop" =>
    \A p \in Part \ (IF thermostat = "NO_CONTROL" THEN {"thermostat"} ELSE {}) : state[p] = Step

\* A restart never goes back behind the last step whose restart files were all
\* written (writeRestartFile and writeRestartNHCfile returned).
LosesNoRecordedStep ==
  pc = "restart" => start >= recorded

\* Displacement.chk of a step is the sum over exactly the steps of the
\* trajectory that its restart files continue, also when several jobs wrote them.
DisplacementsFollowTrajectory ==
  \A n \in 2 .. MaxStep :
    readable(displacementChk(n)) /\ readable(stepFile("positions", n)) =>
      read(displacementChk(n)) = read(stepFile("positions", n))

\* The density that a restart is told to load belongs to the positions it
\* resumes from, unless a crash came after the density of a step was saved and
\* before time.chk named the step.
LoadedDensityIsOfTheStep ==
  pc = "firstSolve" /\ start > 0 /\ scfRestart /\ ~unnamed /\ todo = <<>> /\ readable(rhoChk) =>
    read(rhoChk) = Step

\* The density is extrapolated from those of the last three steps of the
\* trajectory, also in the first steps after a restart.
ExtrapolatesLastThreeSteps ==
  [][densities'.tmin2 # densities.tmin2 /\ pc = "density" =>
       /\ densities.tmin1 = SubSeq(Step, 1, time - 1)
       /\ densities.tmin2 = SubSeq(Step, 1, time - 2)]_vars

\* A job that went down, and only while it solved for a step when an earlier one
\* could be restarted, finishes in the end: each restart finds all that it needs.
SolvingCrashesFinish ==
  pc = "down" /\ onlySolving ~> pc = "finished" \/ ~onlySolving
=============================================================================
