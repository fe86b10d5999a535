---------------------- MODULE MolecularDynamics_proof ----------------------
(****************************************************************************)
(* What a crash of a molecular-dynamics job leaves on the disk can be       *)
(* restarted from, for every number of steps, of jobs and of crashes.       *)
(*                                                                          *)
(* time.chk is written before the files of the step it names, so the disk   *)
(* is safe for another reason: each step has one file, Key(n), that         *)
(* checkRestart looks for and that the job writes after the others it looks *)
(* for.  IInv says that a step with its key is whole (StepOK), that no step *)
(* after the one in work has its key (AheadInv), and where the writes of    *)
(* the operation in progress have got to (TodoInv).  Each action has a      *)
(* lemma; a write is either finished or cut short by a crash, which leaves  *)
(* no file or an empty one.  checkRestart takes the newest complete step:   *)
(* that there is a newest one, and that it has its key, needs the           *)
(* well-foundedness of the naturals.                                        *)
(*                                                                          *)
(* RhoInv adds the densities.  The saved one has one file for all steps,    *)
(* written before any file of its step: it may be loaded when time.chk      *)
(* names the step it belongs to (NamedInv), which fails only while the job  *)
(* is between the two.  Those in memory are the prefixes of the trajectory  *)
(* (DensitiesInv).                                                          *)
(****************************************************************************)
EXTENDS MolecularDynamics, SequenceTheorems, WellFoundedInduction, TLAPS

\* The thermostat, a choice of the input that no restart changes.
NHC == thermostat = "NOSE_HOVER_CHAINS"

\* Without the folder that the thermostat is written to, no step is ever found.
Restartable == NHC => RestartFolder = "."

\* The parts whose files make a step one that can be restarted.
Needed == Read \cup (IF NHC THEN {"thermostat"} ELSE {})

\* The file of a step that is written last of those checkRestart looks for.
Key(n) == stepFile(IF NHC THEN "thermostat" ELSE "velocity", n)

\* The steps, those that have restart files, and the last one that j jobs can reach.
StepNo == 0 .. MaxStep
Later == 2 .. MaxStep
Bound(j) == j * (NumberOfSteps - 1)

\* A value is the trajectory that led to it.
IsTrajectory(v, n) == v \in Seq(Nat) /\ Len(v) = n
Holds(f, v) == exists(f) /\ disk[f] = <<v>>

\* The control points of a job, by what it has done.
Resuming == {"firstSolve", "firstDensity", "thermostat", "readThermostat"}
InStep == {"solve", "density", "restartFiles", "thermostatFile", "recorded", "stepDone"}
Stopped == {"down", "failed", "finished"}

-----------------------------------------------------------------------------
\* The job's numbers.
TimeInv ==
  /\ pc \in PCs
  /\ thermostat \in {"NO_CONTROL", "NOSE_HOVER_CHAINS"}
  /\ job \in 1 .. MaxJobs
  /\ pc = "down" => job < MaxJobs
  /\ start \in Nat /\ time \in Nat /\ recorded \in Nat
  /\ start <= Bound(job - 1) /\ start <= time /\ time <= start + (NumberOfSteps - 1)
  /\ start = 0 \/ start >= 2

\* What the control point tells of them.
PlaceInv ==
  /\ pc = "new" => start = 0
  /\ pc \in {"thermostat", "readThermostat"} => NHC
  /\ pc \in {"thermostat", "readThermostat", "restart"} => start >= 2
  /\ pc \in Resuming \cup {"new", "restart"} => time = start
  /\ pc \in InStep => time > start
  /\ pc \notin Stopped => recorded <= time
  /\ pc \in InStep \ {"stepDone"} => recorded < time
  /\ pc = "stepDone" => recorded = time

\* The memory: all parts are of the current step.
MemoryInv ==
  pc \in Resuming \cup InStep \cup {"new", "loop"} =>
    /\ DOMAIN state = Part
    /\ IsTrajectory(Step, IF pc = "solve" THEN time - 1 ELSE time)
    /\ \A p \in Read : state[p] = Step
    /\ NHC /\ (pc \in Resuming => start = 0) => state["thermostat"] = Step

-----------------------------------------------------------------------------
\* The disk, with no job or any.  time.chk names a step that is not before the
\* last recorded one, and there are no complete steps after it.
NamesInv ==
  /\ readable(mdDat) => disk[mdDat] = <<thermostat>>
  /\ readable(timeChk) =>
       /\ disk[timeChk] = <<read(timeChk)>>
       /\ read(timeChk) \in 1 .. Bound(job)
       /\ read(timeChk) >= recorded
       /\ \A n \in Later : exists(Key(n)) => n <= read(timeChk)

\* What can be read from a file of a step is a value of that step.
ContentOK(p, n) ==
  readable(stepFile(p, n)) =>
    /\ disk[stepFile(p, n)] = <<read(stepFile(p, n))>>
    /\ IsTrajectory(read(stepFile(p, n)), IF p = "thermostat" /\ ~NHC THEN 0 ELSE n)

\* A step that has its last file is complete as far as it goes, and the files of
\* it that can be read are of one trajectory.
StepOK(n) ==
  /\ exists(Key(n)) =>
       /\ exists(stepFile("positions", n)) /\ exists(stepFile("velocity", n))
       /\ \A p, q \in Needed :
            readable(stepFile(p, n)) /\ readable(stepFile(q, n)) =>
              disk[stepFile(p, n)] = disk[stepFile(q, n)]
  /\ ~NHC /\ ~exists(Key(n)) =>
       ~exists(stepFile("displacement", n)) /\ ~exists(stepFile("unwrapped", n))
  /\ ~Restartable => ~exists(Key(n))

\* The displacements of a step are summed up when the step is complete.
DisplacementOK(n) ==
  exists(displacementChk(n)) =>
    /\ Restartable => exists(Key(n))
    /\ readable(displacementChk(n)) /\ readable(stepFile("positions", n)) =>
         disk[displacementChk(n)] = disk[stepFile("positions", n)]

\* The last step whose files were all written is still there.
RecordedInv == Restartable /\ recorded > 1 => recorded \in Later /\ exists(Key(recorded))

DiskInv ==
  /\ NamesInv
  /\ \A p \in Part, n \in StepNo : ContentOK(p, n)
  /\ \A n \in Later : StepOK(n)
  /\ \A n \in Later : DisplacementOK(n)
  /\ RecordedInv

-----------------------------------------------------------------------------
\* No step after the one in work is complete, and that one is not yet.
AheadInv ==
  /\ pc \notin {"down", "failed"} =>
       /\ \A n \in Later : n > time => ~exists(Key(n))
       /\ \A n \in StepNo : n > time => ~exists(displacementChk(n))
  /\ pc \in InStep \ {"stepDone"} => ~exists(displacementChk(time))
  /\ pc \in {"solve", "density", "restartFiles"} /\ time > 1 => ~exists(Key(time))

\* A restarted job has the positions of a complete step.
ResumedInv ==
  /\ pc \in Resuming \cup {"restart"} /\ start > 0 => exists(Key(start))
  /\ pc \in Resuming /\ start > 0 => Holds(stepFile("positions", start), Step)

\* The displacements of the step before the one that is computed.
PreviousInv ==
  /\ pc \in Resuming \cup {"new", "loop", "stepDone"} /\ readable(displacementChk(time)) =>
       disk[displacementChk(time)] = <<Step>>
  /\ pc = "solve" /\ readable(displacementChk(time - 1)) =>
       disk[displacementChk(time - 1)] = <<Step>>
  /\ pc \in {"density", "restartFiles", "thermostatFile", "recorded"}
     /\ readable(displacementChk(time - 1)) =>
         Append(read(displacementChk(time - 1)), state["displacement"][time]) = Step

-----------------------------------------------------------------------------
\* The writes of an operation, without the first k of them.
Rest(s, k) == [i \in 1 .. Len(s) - k |-> s[i + k]]

Step0Writes == <<write(displacementChk(0), <<>>), write(totalDisplacementChk(0), <<>>)>>

RestartWrites ==
  <<write(mdDat, thermostat), write(timeChk, time), RestartFile("kinetic"),
    write(domainChk(time), 0), RestartFile("positions")>>
  \o (IF time > 1
      THEN <<RestartFile("velocity"), RestartFile("displacement"),
             RestartFile("unwrapped"), write(timeChk, time)>>
      ELSE <<>>)

ThermostatWrites ==
  <<write(nhcChk, state["thermostat"]), copy(stepFile("thermostat", time), nhcChk)>>

DisplacementWrites ==
  <<write(displacementChk(time), Step),
    copy(totalDisplacementChk(time), totalDisplacementChk(time - 1)),
    append(totalDisplacementChk(time), Step)>>

\* What the first k writes of writeRestartFile have left, and what is still missing.
Written(k) ==
  /\ k >= 2 => Holds(timeChk, time)
  /\ k >= 3 => Holds(stepFile("kinetic", time), Step)
  /\ k >= 5 => Holds(stepFile("positions", time), Step)
  /\ time > 1 =>
       /\ k >= 6 => Holds(stepFile("velocity", time), Step)
       /\ k >= 7 => Holds(stepFile("displacement", time), Step)
       /\ k >= 8 => Holds(stepFile("unwrapped", time), Step)

Missing(k) ==
  time > 1 =>
    /\ k < 6 \/ NHC => ~exists(Key(time))
    /\ k < 7 /\ ~NHC => ~exists(stepFile("displacement", time))
    /\ k < 8 /\ ~NHC => ~exists(stepFile("unwrapped", time))

\* All but the first k writes of writeRestartNHCfile are left.
ThermostatLeft(k) ==
  /\ todo = Rest(ThermostatWrites, k)
  /\ k >= 1 => Holds(nhcChk, Step)
  /\ time > 1 /\ k <= 1 => ~exists(Key(time))
  /\ time > 1 /\ k = 2 => Holds(Key(time), Step)

\* What is left to write, at each point of a job.
TodoInv ==
  /\ pc \in {"new", "thermostat", "loop", "solve", "restartFiles", "restart"} \cup Stopped =>
       todo = <<>>
  /\ pc = "firstSolve" =>
       \/ todo = <<>>
       \/ \E k \in 0 .. 2 : todo = Rest(Step0Writes, k)
  /\ pc \in {"firstDensity", "density"} =>
       \/ todo = <<>>
       \/ todo = <<write(rhoChk, Step)>>
  /\ pc = "readThermostat" =>
       \/ todo = <<copy(nhcChk, stepFile("thermostat", start))>>
       \/ /\ todo = <<>>
          /\ exists(nhcChk) /\ disk[nhcChk] = disk[stepFile("thermostat", start)]
  /\ pc = "thermostatFile" =>
       \E k \in 0 .. Len(RestartWrites) :
         todo = Rest(RestartWrites, k) /\ Written(k) /\ Missing(k)
  /\ pc = "recorded" =>
       /\ Written(9)
       /\ IF NHC /\ Restartable
          THEN \E k \in 0 .. 2 : ThermostatLeft(k)
          ELSE todo = <<>> /\ (NHC /\ time > 1 => ~exists(Key(time)))
  /\ pc = "stepDone" =>
       /\ Holds(stepFile("positions", time), Step)
       /\ \E k \in 0 .. 3 : todo = Rest(DisplacementWrites, k)

\* The inductive invariant.
IInv ==
  /\ TimeInv
  /\ PlaceInv
  /\ MemoryInv
  /\ DiskInv
  /\ AheadInv
  /\ ResumedInv
  /\ PreviousInv
  /\ TodoInv

-----------------------------------------------------------------------------
\* Bounds of the steps that a job, and all jobs, can reach.
LEMMA BoundFacts ==
  ASSUME NEW j \in 1 .. MaxJobs
  PROVE  /\ Bound(j - 1) \in Nat /\ Bound(j) \in Nat /\ MaxStep \in Nat
         /\ Bound(j) = Bound(j - 1) + (NumberOfSteps - 1)
         /\ Bound(j) <= MaxStep
<1> DEFINE m == NumberOfSteps - 1
<1>1. m \in Nat /\ MaxJobs \in Nat /\ j \in Nat /\ j - 1 \in Nat /\ MaxJobs - j \in Nat
  BY BoundsAssumption
<1> HIDE DEF m
<1>2. \A a, b \in Nat : a * b \in Nat
  OBVIOUS
<1>3. Bound(j - 1) = (j - 1) * m /\ Bound(j) = j * m /\ MaxStep = MaxJobs * m
  BY DEF Bound, MaxStep, m
<1>4. j * m = (j - 1) * m + m
  BY <1>1
<1>5. MaxJobs * m = j * m + (MaxJobs - j) * m
  BY <1>1
<1>6. (MaxJobs - j) * m \in Nat /\ j * m \in Nat /\ MaxJobs * m \in Nat /\ (j - 1) * m \in Nat
  BY <1>1, <1>2
<1>7. QED
  BY <1>3, <1>4, <1>5, <1>6 DEF m

LEMMA TimeInSteps ==
  TimeInv => /\ time \in StepNo /\ start \in StepNo
             /\ time > 1 => time \in Later
             /\ start > 1 => start \in Later
             /\ time <= Bound(job) /\ Bound(job) <= MaxStep
<1> SUFFICES ASSUME TimeInv
             PROVE  /\ time \in StepNo /\ start \in StepNo
                    /\ time > 1 => time \in Later
                    /\ start > 1 => start \in Later
                    /\ time <= Bound(job) /\ Bound(job) <= MaxStep
  OBVIOUS
<1>1. job \in 1 .. MaxJobs /\ start \in Nat /\ time \in Nat
      /\ start <= Bound(job - 1) /\ start <= time /\ time <= start + (NumberOfSteps - 1)
  BY DEF TimeInv
<1>2. QED
  BY <1>1, BoundFacts, BoundsAssumption DEF StepNo, Later

LEMMA StepsAreNat == Later \subseteq StepNo /\ StepNo \subseteq Nat
<1>1. MaxStep \in Nat
  BY BoundFacts, BoundsAssumption
<1>2. QED
  BY <1>1 DEF Later, StepNo

LEMMA TwoIsPositive == \A n \in Nat : n >= 2 => n > 0 /\ n > 1 /\ n # 0
OBVIOUS

LEMMA ZeroIsNotPositive == ~(0 > 0)
OBVIOUS

LEMMA ZeroOrTwo == \A n \in Nat : n = 0 \/ n >= 2 => (n > 0 => n >= 2) /\ (~(n > 0) => n = 0)
OBVIOUS

LEMMA LessIsLessOrEqual == \A m, n \in Nat : m < n => m <= n
OBVIOUS

LEMMA AboveIsPositive == \A m, n \in Nat : m > n => m > 0
OBVIOUS

LEMMA NotMoreThanItself == \A n \in Nat : n <= n
OBVIOUS

LEMMA TwoIsAboveOne == \A n \in Nat : n > 1 => n >= 2
OBVIOUS

LEMMA AboveLater ==
  ASSUME MaxStep \in Nat, NEW m \in Nat, m > 1, NEW n \in StepNo, n > m
  PROVE  n \in Later
BY DEF StepNo, Later

LEMMA AtLeast == \A m, n \in Nat : m <= n => n >= m
OBVIOUS

LEMMA TimeNumbers ==
  ASSUME TimeInv
  PROVE  0 <= start /\ start <= time /\ time <= MaxStep
<1>1. start \in Nat /\ start <= time /\ time \in Nat /\ time <= Bound(job) /\ Bound(job) <= MaxStep
  BY TimeInSteps DEF TimeInv
<1>2. Bound(job) \in Nat /\ MaxStep \in Nat
  BY BoundFacts DEF TimeInv
<1>3. QED
  BY <1>1, <1>2

LEMMA LaterIsAbove1 == \A n \in Later : n > 1
BY StepsAreNat DEF Later

-----------------------------------------------------------------------------
\* A write changes one file.  g stands for any other one.
OnlyFile(f) ==
  \A g : g # f => /\ g \in DOMAIN disk' <=> g \in DOMAIN disk
                  /\ g \in DOMAIN disk => disk'[g] = disk[g]

Kept == UNCHANGED <<thermostat, job, recorded>>

LEMMA DiskSame ==
  ASSUME DiskInv, disk' = disk, Kept
  PROVE  DiskInv'
BY DEF DiskInv, Kept, NamesInv, ContentOK, StepOK, DisplacementOK, RecordedInv, exists, readable,
       read, Key, NHC, Restartable, Needed

LEMMA DiskOther ==
  ASSUME DiskInv, NEW f, OnlyFile(f), Kept,
         f \notin {mdDat, timeChk},
         \A p \in Part, n \in StepNo : f # stepFile(p, n),
         \A n \in Later : f # displacementChk(n)
  PROVE  DiskInv'
<1>1. Later \subseteq StepNo
  BY DEF Later, StepNo
<1>2. NHC' = NHC /\ Restartable' = Restartable /\ Needed' = Needed /\ \A n : Key(n)' = Key(n)
  BY DEF Kept, NHC, Restartable, Needed, Key
<1>3. QED
  BY <1>1, <1>2 DEF DiskInv, OnlyFile, Kept, NamesInv, ContentOK, StepOK, DisplacementOK, RecordedInv, exists, readable,
       read, Key, NHC, Restartable, Needed, Read, Part

LEMMA DiskMdDat ==
  ASSUME DiskInv, OnlyFile(mdDat), Kept, readable(mdDat)' => disk'[mdDat] = <<thermostat>>
  PROVE  DiskInv'
<1>1. /\ timeChk # mdDat
      /\ \A p, n : mdDat # stepFile(p, n)
      /\ \A n : mdDat # displacementChk(n)
  BY DEF mdDat, timeChk, stepFile, displacementChk
<1>2. NHC' = NHC /\ Restartable' = Restartable /\ Needed' = Needed /\ \A n : Key(n)' = Key(n)
  BY DEF Kept, NHC, Restartable, Needed, Key
<1>3. QED
  BY <1>1, <1>2 DEF DiskInv, OnlyFile, Kept, NamesInv, ContentOK, StepOK, DisplacementOK,
     RecordedInv, exists, readable, read, Key

LEMMA DiskTimeChk ==
  ASSUME DiskInv, OnlyFile(timeChk), Kept,
         readable(timeChk)' => /\ disk'[timeChk] = <<time>>
                               /\ time \in 1 .. Bound(job) /\ time >= recorded
                               /\ \A n \in Later : exists(Key(n)) => n <= time
  PROVE  DiskInv'
<1>1. /\ timeChk # mdDat
      /\ \A p, n : timeChk # stepFile(p, n)
      /\ \A n : timeChk # displacementChk(n)
  BY DEF mdDat, timeChk, stepFile, displacementChk
<1>2. NHC' = NHC /\ Restartable' = Restartable /\ Needed' = Needed /\ \A n : Key(n)' = Key(n)
  BY DEF Kept, NHC, Restartable, Needed, Key
<1>3. QED
  BY <1>1, <1>2 DEF DiskInv, OnlyFile, Kept, NamesInv, ContentOK, StepOK, DisplacementOK,
     RecordedInv, exists, readable, read, Key

LEMMA DiskStepFile ==
  ASSUME DiskInv, NEW p \in Part, NEW n \in StepNo, OnlyFile(stepFile(p, n)), Kept,
         ContentOK(p, n)', n > 1 => StepOK(n)' /\ DisplacementOK(n)',
         n > 1 /\ exists(Key(n))' => /\ readable(timeChk) => n <= read(timeChk),
         n # recorded
  PROVE  DiskInv'
<1>1. /\ \A q, m : q # p \/ m # n => stepFile(q, m) # stepFile(p, n)
      /\ mdDat # stepFile(p, n) /\ timeChk # stepFile(p, n)
      /\ \A m \in Nat : stepFile(p, n) # displacementChk(m)
  BY DEF mdDat, timeChk, stepFile, displacementChk, Part
<1>2. NHC' = NHC /\ Restartable' = Restartable /\ Needed' = Needed /\ \A m : Key(m)' = Key(m)
  BY DEF Kept, NHC, Restartable, Needed, Key
<1>3. NamesInv'
  BY <1>1, <1>2 DEF DiskInv, OnlyFile, Kept, NamesInv, exists, readable, read, Key, Later
<1>4. \A q \in Part, m \in StepNo : ContentOK(q, m)'
  BY <1>1, <1>2 DEF DiskInv, OnlyFile, Kept, ContentOK, exists, readable, read
<1>5. \A m \in Later : StepOK(m)'
  <2> SUFFICES ASSUME NEW m \in Later PROVE StepOK(m)'
    OBVIOUS
  <2>1. CASE m = n
    BY <2>1 DEF Later
  <2>2. CASE m # n
    BY <1>1, <1>2, <2>2 DEF DiskInv, OnlyFile, StepOK, exists, readable, read, Key
  <2>3. QED
    BY <2>1, <2>2
<1>6. \A m \in Later : DisplacementOK(m)'
  <2> SUFFICES ASSUME NEW m \in Later PROVE DisplacementOK(m)'
    OBVIOUS
  <2>1. CASE m = n
    BY <2>1 DEF Later
  <2>2. CASE m # n
    BY <1>1, <1>2, <2>2 DEF DiskInv, OnlyFile, DisplacementOK, exists, readable, read, Key, Later
  <2>3. QED
    BY <2>1, <2>2
<1>7. RecordedInv'
  BY <1>1, <1>2 DEF DiskInv, OnlyFile, Kept, RecordedInv, exists, Key
<1>8. QED
  BY <1>3, <1>4, <1>5, <1>6, <1>7 DEF DiskInv

LEMMA DiskDisplacement ==
  ASSUME DiskInv, NEW n \in StepNo, OnlyFile(displacementChk(n)), Kept,
         n > 1 => DisplacementOK(n)'
  PROVE  DiskInv'
<1>1. /\ \A q \in Part, m \in Nat : stepFile(q, m) # displacementChk(n)
      /\ mdDat # displacementChk(n) /\ timeChk # displacementChk(n)
      /\ \A m : m # n => displacementChk(m) # displacementChk(n)
  BY DEF mdDat, timeChk, stepFile, displacementChk, Part
<1>2. NHC' = NHC /\ Restartable' = Restartable /\ Needed' = Needed /\ \A m : Key(m)' = Key(m)
  BY DEF Kept, NHC, Restartable, Needed, Key
<1>3. NamesInv' /\ RecordedInv'
  BY <1>1, <1>2 DEF DiskInv, OnlyFile, Kept, NamesInv, RecordedInv, exists, readable, read, Key, Later, Part
<1>4. \A q \in Part, m \in StepNo : ContentOK(q, m)'
  BY <1>1, <1>2 DEF DiskInv, OnlyFile, Kept, ContentOK, exists, readable, read, StepNo
<1>5. \A m \in Later : StepOK(m)'
  BY <1>1, <1>2 DEF DiskInv, OnlyFile, StepOK, exists, readable, read, Key, Later, Needed, Part, Read
<1>6. \A m \in Later : DisplacementOK(m)'
  <2> SUFFICES ASSUME NEW m \in Later PROVE DisplacementOK(m)'
    OBVIOUS
  <2>1. CASE m = n
    BY <2>1 DEF Later
  <2>2. CASE m # n
    BY <1>1, <1>2, <2>2 DEF DiskInv, OnlyFile, DisplacementOK, exists, readable, read, Key, Later, Part
  <2>3. QED
    BY <2>1, <2>2
<1>7. QED
  BY <1>3, <1>4, <1>5, <1>6 DEF DiskInv

-----------------------------------------------------------------------------
\* What a write, finished or cut short, makes of its file.
LEMMA PutOnly ==
  ASSUME NEW f, NEW x, disk' = Put(f, x)
  PROVE  OnlyFile(f) /\ f \in DOMAIN disk' /\ disk'[f] = x
BY DEF Put, OnlyFile

LEMMA RemoveOnly ==
  ASSUME NEW f, disk' = Remove(f)
  PROVE  OnlyFile(f) /\ f \notin DOMAIN disk'
BY DEF Remove, OnlyFile

Outcome(w) == disk' \in {After(w)} \cup CutShort(w)

LEMMA WriteOutcome ==
  ASSUME NEW f, NEW v, Outcome(write(f, v))
  PROVE  \/ disk' = disk
         \/ OnlyFile(f) /\ (f \in DOMAIN disk' /\ disk'[f] # Empty => disk'[f] = <<v>>)
<1>1. After(write(f, v)) = Put(f, <<v>>)
  BY DEF After, write
<1>2. CutShort(write(f, v)) = {disk, Put(f, Empty), Remove(f)}
  BY DEF CutShort, write
<1>3. \/ disk' = disk \/ disk' = Put(f, <<v>>)
      \/ disk' = Put(f, Empty) \/ disk' = Remove(f)
  BY <1>1, <1>2 DEF Outcome
<1>4. QED
  BY <1>3, PutOnly, RemoveOnly

LEMMA CopyOutcome ==
  ASSUME NEW f, NEW g, Outcome(copy(f, g))
  PROVE  \/ disk' = disk
         \/ /\ OnlyFile(f) /\ f \in DOMAIN disk'
            /\ disk'[f] # Empty => exists(g) /\ disk'[f] = disk[g]
<1>1. After(copy(f, g)) = IF exists(g) THEN Put(f, disk[g]) ELSE disk
  BY DEF After, copy
<1>2. CutShort(copy(f, g)) = {disk, Put(f, Empty)}
  BY DEF CutShort, copy
<1>3. disk' = disk \/ (exists(g) /\ disk' = Put(f, disk[g])) \/ disk' = Put(f, Empty)
  BY <1>1, <1>2 DEF Outcome
<1>4. QED
  BY <1>3, PutOnly

LEMMA AppendOutcome ==
  ASSUME NEW f, NEW v, Outcome(append(f, v))
  PROVE  disk' = disk \/ OnlyFile(f)
<1>1. \E x : After(append(f, v)) = Put(f, x)
  BY DEF After, append
<1>2. CutShort(append(f, v)) \subseteq {disk, Put(f, Empty)}
  BY DEF CutShort, append
<1>3. disk' = disk \/ \E x : disk' = Put(f, x)
  BY <1>1, <1>2 DEF Outcome
<1>4. QED
  BY <1>3, PutOnly

\* Finished writes.
LEMMA WriteDone ==
  ASSUME NEW f, NEW v, disk' = After(write(f, v))
  PROVE  OnlyFile(f) /\ f \in DOMAIN disk' /\ disk'[f] = <<v>>
<1>1. After(write(f, v)) = Put(f, <<v>>)
  BY DEF After, write
<1>2. QED
  BY <1>1, PutOnly

LEMMA CopyDone ==
  ASSUME NEW f, NEW g, disk' = After(copy(f, g))
  PROVE  IF exists(g) THEN OnlyFile(f) /\ f \in DOMAIN disk' /\ disk'[f] = disk[g]
                      ELSE disk' = disk
<1>1. After(copy(f, g)) = IF exists(g) THEN Put(f, disk[g]) ELSE disk
  BY DEF After, copy
<1>2. QED
  BY <1>1, PutOnly

-----------------------------------------------------------------------------
\* The writes that are left of a sequence of writes.
LEMMA RestFacts ==
  ASSUME NEW s, NEW k \in 0 .. Len(s), Len(s) \in Nat
  PROVE  /\ k = Len(s) <=> Rest(s, k) = <<>>
         /\ k < Len(s) => /\ Head(Rest(s, k)) = s[k + 1]
                          /\ Tail(Rest(s, k)) = Rest(s, k + 1)
<1>1. Rest(s, k) = [i \in 1 .. Len(s) - k |-> s[i + k]] /\ Len(s) - k \in Nat
  BY DEF Rest
<1>2. Len(Rest(s, k)) = Len(s) - k
  BY <1>1
<1>3. CASE k = Len(s)
  BY <1>1, <1>2, <1>3
<1>4. CASE k < Len(s)
  <2>1. Rest(s, k) # <<>>
    BY <1>2, <1>4
  <2>2. Head(Rest(s, k)) = s[k + 1]
    BY <1>1, <1>4
  <2>3. Tail(Rest(s, k)) = Rest(s, k + 1)
    BY <1>1, <1>2, <1>4 DEF Rest
  <2>4. QED
    BY <1>4, <2>1, <2>2, <2>3
<1>5. QED
  BY <1>3, <1>4

\* The entries of the sequences that the operations write.
LEMMA RestartWritesAre ==
  ASSUME DOMAIN state = Part, \A p \in Read : state[p] = Step, time \in Nat
  PROVE  /\ Len(RestartWrites) = IF time > 1 THEN 9 ELSE 5
         /\ RestartWrites[1] = write(mdDat, thermostat) /\ RestartWrites[2] = write(timeChk, time)
         /\ RestartWrites[3] = write(stepFile("kinetic", time), Step)
         /\ RestartWrites[4] = write(domainChk(time), 0)
         /\ RestartWrites[5] = write(stepFile("positions", time), Step)
         /\ time > 1 => /\ RestartWrites[6] = write(stepFile("velocity", time), Step)
                        /\ RestartWrites[7] = write(stepFile("displacement", time), Step)
                        /\ RestartWrites[8] = write(stepFile("unwrapped", time), Step)
                        /\ RestartWrites[9] = write(timeChk, time)
         /\ Rest(RestartWrites, 0) = RestartWrites
<1>1. \A p \in Read : RestartFile(p) = write(stepFile(p, time), Step)
  BY DEF RestartFile
<1> DEFINE a == <<write(mdDat, thermostat), write(timeChk, time), write(stepFile("kinetic", time), Step),
                  write(domainChk(time), 0), write(stepFile("positions", time), Step)>>
           b == IF time > 1 THEN
                <<write(stepFile("velocity", time), Step), write(stepFile("displacement", time), Step),
                  write(stepFile("unwrapped", time), Step), write(timeChk, time)>> ELSE <<>>
<1>2. RestartWrites = a \o b
  BY <1>1 DEF RestartWrites, Read, Part
<1>3. Len(a) = 5 /\ Len(b) = IF time > 1 THEN 4 ELSE 0
  OBVIOUS
<1>4. \A i \in 1 .. Len(a) + Len(b) : (a \o b)[i] = IF i <= 5 THEN a[i] ELSE b[i - 5]
  OBVIOUS
<1>5. Len(a \o b) = Len(a) + Len(b)
  OBVIOUS
<1>6. QED
  BY <1>2, <1>3, <1>4, <1>5 DEF Rest

LEMMA Step0WritesAre ==
  /\ Len(Step0Writes) = 2
  /\ Step0Writes[1] = write(displacementChk(0), <<>>)
  /\ Step0Writes[2] = write(totalDisplacementChk(0), <<>>)
  /\ Rest(Step0Writes, 0) = Step0Writes
BY DEF Step0Writes, Rest

LEMMA ThermostatWritesAre ==
  /\ Len(ThermostatWrites) = 2
  /\ ThermostatWrites[1] = write(nhcChk, state["thermostat"])
  /\ ThermostatWrites[2] = copy(stepFile("thermostat", time), nhcChk)
  /\ Rest(ThermostatWrites, 0) = ThermostatWrites
BY DEF ThermostatWrites, Rest

LEMMA DisplacementWritesAre ==
  /\ Len(DisplacementWrites) = 3
  /\ DisplacementWrites[1] = write(displacementChk(time), Step)
  /\ DisplacementWrites[2] = copy(totalDisplacementChk(time), totalDisplacementChk(time - 1))
  /\ DisplacementWrites[3] = append(totalDisplacementChk(time), Step)
  /\ Rest(DisplacementWrites, 0) = DisplacementWrites
BY DEF DisplacementWrites, Rest

\* Files that DiskInv does not speak of.
LEMMA DiskUnnamed ==
  ASSUME DiskInv, Kept, NEW n \in Nat,
         NEW f \in {rhoChk, nhcChk, domainChk(n), totalDisplacementChk(n), displacementChk(0)},
         OnlyFile(f)
  PROVE  DiskInv'
<1>1. \A p \in Part, m \in StepNo : f # stepFile(p, m)
  BY DEF rhoChk, nhcChk, domainChk, totalDisplacementChk, displacementChk, stepFile, Part
<1>2. \A m \in Later : f # displacementChk(m)
  BY DEF rhoChk, nhcChk, domainChk, totalDisplacementChk, displacementChk, Later
<1>3. f \notin {mdDat, timeChk}
  BY DEF rhoChk, nhcChk, domainChk, totalDisplacementChk, displacementChk, mdDat, timeChk
<1>4. QED
  BY <1>1, <1>2, <1>3, DiskOther

\* A file of a step is written when the displacements of the step are not there yet.
LEMMA StepFileSafe ==
  ASSUME DiskInv, Kept, recorded \in Nat,
         NEW p \in Part, NEW n \in StepNo, NEW v,
         IsTrajectory(v, IF p = "thermostat" /\ ~NHC THEN 0 ELSE n),
         recorded < n, readable(timeChk) => n <= read(timeChk), ~exists(displacementChk(n)),
         n > 1 => StepOK(n)',
         OnlyFile(stepFile(p, n)),
         stepFile(p, n) \in DOMAIN disk' /\ disk'[stepFile(p, n)] # Empty =>
           disk'[stepFile(p, n)] = <<v>>
  PROVE  DiskInv'
<1>1. ContentOK(p, n)'
  <2>1. NHC' = NHC
    BY DEF Kept, NHC
  <2>2. <<v>>[1] = v
    OBVIOUS
  <2>3. QED
    BY <2>1, <2>2 DEF ContentOK, readable, exists, read
<1>2. displacementChk(n) # stepFile(p, n)
  BY DEF displacementChk, stepFile, Part
<1>3. DisplacementOK(n)'
  BY <1>2 DEF DisplacementOK, OnlyFile, exists
<1>4. n # recorded
  BY DEF StepNo
<1>5. QED
  BY <1>1, <1>3, <1>4, DiskStepFile

\* The step while its last file, and those that are written after it, are missing.
LEMMA IncompleteStep ==
  ASSUME Kept, NEW p \in Read, NEW n \in Later, OnlyFile(stepFile(p, n)),
         ~exists(Key(n)), ~exists(Key(n))',
         ~NHC => /\ ~exists(stepFile("displacement", n))'
                 /\ ~exists(stepFile("unwrapped", n))'
  PROVE  StepOK(n)'
BY DEF Kept, StepOK, NHC


\* A job that writes the restart files of its step.
WritingStep ==
  /\ DOMAIN state = Part /\ \A p \in Read : state[p] = Step
  /\ NHC => state["thermostat"] = Step
  /\ IsTrajectory(Step, time) /\ time \in Nat /\ recorded \in Nat
  /\ recorded < time /\ time \in 1 .. Bound(job)
  /\ time \in StepNo /\ (time > 1 => time \in Later)
  /\ \A n \in Later : exists(Key(n)) => n <= time
  /\ ~exists(displacementChk(time))

LEMMA NotAfter ==
  ASSUME time \in Nat, \A n \in Later : n > time => ~exists(Key(n))
  PROVE  \A n \in Later : exists(Key(n)) => n <= time
<1> SUFFICES ASSUME NEW n \in Later, exists(Key(n)) PROVE n <= time
  OBVIOUS
<1>1. ~(n > time) /\ n \in Nat
  BY StepsAreNat
<1>2. QED
  BY <1>1

LEMMA Positive ==
  ASSUME time \in Nat, recorded \in Nat, recorded < time, job \in 1 .. MaxJobs, time <= Bound(job)
  PROVE  time \in 1 .. Bound(job)
BY BoundFacts

LEMMA WritingStepFacts ==
  ASSUME TimeInv, PlaceInv, MemoryInv, AheadInv, pc \in {"restartFiles", "thermostatFile", "recorded"}
  PROVE  WritingStep
<1>1. /\ DOMAIN state = Part /\ \A p \in Read : state[p] = Step
      /\ IsTrajectory(Step, time) /\ recorded < time
  BY DEF MemoryInv, PlaceInv, InStep, Stopped
<1>2. NHC => state["thermostat"] = Step
  BY DEF MemoryInv, InStep, Resuming
<1>3. time \in Nat /\ recorded \in Nat /\ job \in 1 .. MaxJobs
  BY DEF TimeInv
<1>4. time \in StepNo /\ (time > 1 => time \in Later) /\ time <= Bound(job)
  BY TimeInSteps
<1>5. (\A n \in Later : n > time => ~exists(Key(n))) /\ ~exists(displacementChk(time))
  BY DEF AheadInv, InStep
<1>6. \A n \in Later : exists(Key(n)) => n <= time
  BY <1>3, <1>5, NotAfter
<1>7. time \in 1 .. Bound(job)
  BY <1>1, <1>3, <1>4, Positive
<1>8. QED
  BY <1>1, <1>2, <1>3, <1>4, <1>5, <1>6, <1>7 DEF WritingStep

\* While time.chk names the step, its files may be written, if the step is fine then.
LEMMA PartSafe ==
  ASSUME WritingStep, DiskInv, Kept, Holds(timeChk, time), NEW p \in Read,
         Outcome(write(stepFile(p, time), Step)),
         NEW n \in StepNo, n = time,
         OnlyFile(stepFile(p, n)) /\ n \in Later
           /\ (exists(stepFile(p, n))' => disk'[stepFile(p, n)] \in {Empty, <<Step>>}) => StepOK(n)'
  PROVE  DiskInv'
<1>1. \/ disk' = disk
      \/ /\ OnlyFile(stepFile(p, n))
         /\ stepFile(p, n) \in DOMAIN disk' /\ disk'[stepFile(p, n)] # Empty =>
              disk'[stepFile(p, n)] = <<Step>>
  BY WriteOutcome
<1>2. SUFFICES ASSUME OnlyFile(stepFile(p, n)),
                      stepFile(p, n) \in DOMAIN disk' /\ disk'[stepFile(p, n)] # Empty =>
                        disk'[stepFile(p, n)] = <<Step>>
               PROVE  DiskInv'
  BY <1>1, DiskSame
<1>3. readable(timeChk) => n <= read(timeChk)
  BY DEF WritingStep, Holds, read
<1>4. p \in Part /\ IsTrajectory(Step, IF p = "thermostat" /\ ~NHC THEN 0 ELSE n)
  BY DEF WritingStep, Read
<1>5. n > 1 => StepOK(n)'
  BY <1>2 DEF WritingStep, exists
<1>6. recorded \in Nat /\ recorded < n /\ ~exists(displacementChk(n))
  BY DEF WritingStep
<1>7. QED
  BY <1>2, <1>3, <1>4, <1>5, <1>6, StepFileSafe

\* The files of the step that writeRestartFile writes before the step has its last file.
LEMMA EarlyPart ==
  ASSUME NEW n \in Later, Kept, NEW p \in Read, OnlyFile(stepFile(p, n)), ~exists(Key(n)),
         p = "velocity" => NHC,
         ~NHC => ~exists(stepFile("displacement", n)) /\ ~exists(stepFile("unwrapped", n)),
         p \notin {"displacement", "unwrapped"} \/ NHC
  PROVE  StepOK(n)'
<1>1. p # "thermostat"
  BY DEF Read
<1>2. Key(n)' = Key(n) /\ NHC' = NHC
  BY DEF Key, NHC, Kept
<1>3. Key(n) # stepFile(p, n)
  BY <1>1 DEF Key, stepFile
<1>4. ~exists(Key(n))'
  BY <1>2, <1>3 DEF OnlyFile, exists
<1>5. ~NHC => ~exists(stepFile("displacement", n))' /\ ~exists(stepFile("unwrapped", n))'
  <2>1. SUFFICES ASSUME ~NHC PROVE ~exists(stepFile("displacement", n))' /\ ~exists(stepFile("unwrapped", n))'
    OBVIOUS
  <2>2. stepFile("displacement", n) # stepFile(p, n) /\ stepFile("unwrapped", n) # stepFile(p, n)
    BY <2>1 DEF stepFile
  <2>3. QED
    BY <2>1, <2>2 DEF OnlyFile, exists
<1>6. QED
  BY <1>4, <1>5, IncompleteStep

\* Without a thermostat, the velocity makes the step one that can be restarted.
LEMMA LatePart ==
  ASSUME NEW n \in Later, Kept, ~NHC, NEW p \in {"velocity", "displacement", "unwrapped"},
         OnlyFile(stepFile(p, n)),
         exists(stepFile(p, n))' => disk'[stepFile(p, n)] \in {Empty, <<Step>>},
         Holds(stepFile("positions", n), Step), Holds(stepFile("kinetic", n), Step),
         p # "velocity" => exists(stepFile("velocity", n)),
         \A q \in {"velocity", "displacement", "unwrapped"} \ {p} :
           ~exists(stepFile(q, n)) \/ Holds(stepFile(q, n), Step),
         p = "velocity" => /\ ~exists(stepFile("displacement", n))
                           /\ ~exists(stepFile("unwrapped", n))
  PROVE  StepOK(n)'
<1>1. ~NHC' /\ Needed' = Read /\ Read = {"positions", "unwrapped", "velocity", "displacement", "kinetic"}
  BY DEF Kept, NHC, Needed, Read, Part
<1>2. \A q \in Read : readable(stepFile(q, n))' => disk'[stepFile(q, n)] = <<Step>>
  <2> SUFFICES ASSUME NEW q \in Read, readable(stepFile(q, n))' PROVE disk'[stepFile(q, n)] = <<Step>>
    OBVIOUS
  <2>1. CASE q = p
    BY <2>1 DEF readable, exists
  <2>2. CASE q # p
    <3>1. stepFile(q, n) # stepFile(p, n)
      BY <2>2 DEF stepFile
    <3>2. ~exists(stepFile(q, n)) \/ Holds(stepFile(q, n), Step)
      BY <1>1, <2>2
    <3>3. QED
      BY <3>1, <3>2 DEF OnlyFile, readable, exists, Holds
  <2>3. QED
    BY <2>1, <2>2
<1>3. exists(stepFile("positions", n))'
  <2>1. stepFile("positions", n) # stepFile(p, n)
    BY DEF stepFile
  <2>2. QED
    BY <2>1 DEF OnlyFile, exists, Holds
<1>4. ~exists(stepFile("velocity", n))' =>
        ~exists(stepFile("displacement", n))' /\ ~exists(stepFile("unwrapped", n))'
  <2>1. CASE p = "velocity"
    <3>1. stepFile("displacement", n) # stepFile(p, n) /\ stepFile("unwrapped", n) # stepFile(p, n)
      BY <2>1 DEF stepFile
    <3>2. QED
      BY <2>1, <3>1 DEF OnlyFile, exists
  <2>2. CASE p # "velocity"
    <3>1. stepFile("velocity", n) # stepFile(p, n)
      BY <2>2 DEF stepFile
    <3>2. QED
      BY <2>2, <3>1 DEF OnlyFile, exists
  <2>3. QED
    BY <2>1, <2>2
<1>5. Key(n)' = stepFile("velocity", n) /\ Restartable'
  BY <1>1 DEF Key, NHC, Restartable
<1>6. QED
  BY <1>1, <1>2, <1>3, <1>4, <1>5 DEF StepOK

LEMMA MissingIs ==
  ASSUME NEW k, Missing(k), time > 1
  PROVE  /\ k \in 0 .. 5 \/ NHC => ~exists(Key(time))
         /\ k \in 0 .. 6 /\ ~NHC => ~exists(stepFile("displacement", time))
         /\ k \in 0 .. 7 /\ ~NHC => ~exists(stepFile("unwrapped", time))
<1>1. (k \in 0 .. 5 => k < 6) /\ (k \in 0 .. 6 => k < 7) /\ (k \in 0 .. 7 => k < 8)
  OBVIOUS
<1>2. /\ k < 6 \/ NHC => ~exists(Key(time))
      /\ k < 7 /\ ~NHC => ~exists(stepFile("displacement", time))
      /\ k < 8 /\ ~NHC => ~exists(stepFile("unwrapped", time))
  BY DEF Missing
<1>3. QED
  BY <1>1, <1>2

\* The writes of writeRestartFile, finished or cut short: while the last file of
\* the step is missing nothing is asked of the others, and then they are all there.
LEMMA RestartWriteSafe ==
  ASSUME WritingStep, DiskInv, Kept,
         NEW k \in 0 .. Len(RestartWrites) - 1, Written(k), Missing(k),
         Outcome(RestartWrites[k + 1])
  PROVE  DiskInv'
<1>1. DOMAIN state = Part /\ (\A p \in Read : state[p] = Step) /\ time \in Nat
  BY DEF WritingStep
<1>2. k \in 0 .. 4 \/ (time > 1 /\ k \in 5 .. 8)
  BY <1>1, RestartWritesAre
<1>3. CASE k = 0
  <2>1. RestartWrites[k + 1] = write(mdDat, thermostat)
    BY <1>1, <1>3, RestartWritesAre
  <2>2. QED
    BY <2>1, WriteOutcome, DiskSame, DiskMdDat DEF readable, exists
<1>4. CASE k = 1 \/ k = 8
  <2>1. RestartWrites[k + 1] = write(timeChk, time)
    BY <1>1, <1>2, <1>4, RestartWritesAre
  <2>2. /\ time \in 1 .. Bound(job) /\ time >= recorded
        /\ \A n \in Later : exists(Key(n)) => n <= time
    <3>1. recorded < time /\ recorded \in Nat /\ time \in Nat
      BY DEF WritingStep
    <3>2. time >= recorded
      BY <3>1
    <3>3. QED
      BY <3>2 DEF WritingStep
  <2>3. QED
    BY <2>1, <2>2, WriteOutcome, DiskSame, DiskTimeChk DEF readable, exists
<1>5. CASE k = 3
  <2>1. RestartWrites[k + 1] = write(domainChk(time), 0)
    BY <1>1, <1>5, RestartWritesAre
  <2>2. QED
    BY <1>1, <2>1, WriteOutcome, DiskSame, DiskUnnamed
<1>6. PICK n \in StepNo : n = time
  BY DEF WritingStep
<1>7. CASE k = 2 \/ k = 4
  <2>1. \E p \in {"kinetic", "positions"} : RestartWrites[k + 1] = write(stepFile(p, time), Step)
    BY <1>1, <1>7, RestartWritesAre
  <2>2. PICK p \in {"kinetic", "positions"} : RestartWrites[k + 1] = write(stepFile(p, time), Step)
    BY <2>1
  <2>3. Outcome(write(stepFile(p, time), Step)) /\ p \in Read /\ Holds(timeChk, time)
    BY <1>7, <2>2 DEF Written, Read, Part
  <2>4. n \in Later => ~exists(Key(n)) /\ (~NHC => ~exists(stepFile("displacement", n))
                                                   /\ ~exists(stepFile("unwrapped", n)))
    <3>1. SUFFICES ASSUME time > 1
                   PROVE  ~exists(Key(time)) /\ (~NHC => ~exists(stepFile("displacement", time))
                                                         /\ ~exists(stepFile("unwrapped", time)))
      BY <1>6, LaterIsAbove1
    <3>2. k \in 0 .. 5 /\ k \in 0 .. 6 /\ k \in 0 .. 7
      BY <1>7
    <3>3. QED
      BY <3>1, <3>2, MissingIs
  <2>5. QED
    BY <1>6, <2>3, <2>4, EarlyPart, PartSafe
<1>8. CASE k \in 5 .. 7
  <2>1. \E p \in {"velocity", "displacement", "unwrapped"} :
          /\ RestartWrites[k + 1] = write(stepFile(p, time), Step)
          /\ k = 5 <=> p = "velocity"
          /\ k = 6 <=> p = "displacement"
          /\ k = 7 <=> p = "unwrapped"
    BY <1>1, <1>2, <1>8, RestartWritesAre
  <2>2. PICK p \in {"velocity", "displacement", "unwrapped"} :
          /\ RestartWrites[k + 1] = write(stepFile(p, time), Step)
          /\ k = 5 <=> p = "velocity"
          /\ k = 6 <=> p = "displacement"
          /\ k = 7 <=> p = "unwrapped"
    BY <2>1
  <2>3. Outcome(write(stepFile(p, time), Step)) /\ p \in Read /\ Holds(timeChk, time)
    BY <1>8, <2>2 DEF Written, Read, Part
  <2>a. time > 1
    BY <1>2, <1>8
  <2>4. CASE NHC
    <3>1. ~exists(Key(n))
      BY <1>6, <2>4, <2>a DEF Missing
    <3>2. QED
      BY <1>6, <2>3, <2>4, <3>1, EarlyPart, PartSafe
  <2>5. CASE ~NHC
    <3>1. Holds(stepFile("positions", n), Step) /\ Holds(stepFile("kinetic", n), Step)
      BY <1>6, <1>8 DEF Written
    <3>2. p # "velocity" => Holds(stepFile("velocity", n), Step)
      BY <1>6, <1>8, <2>2, <2>a DEF Written
    <3>3. p = "unwrapped" => Holds(stepFile("displacement", n), Step)
      BY <1>6, <1>8, <2>2, <2>a DEF Written
    <3>4. p # "unwrapped" => ~exists(stepFile("unwrapped", n))
      <4>1. k # 7 => k \in 0 .. 7
        BY <1>8
      <4>2. QED
        BY <1>6, <2>2, <2>5, <2>a, <4>1, MissingIs
    <3>5. p = "velocity" => ~exists(stepFile("displacement", n))
      <4>1. k = 5 => k \in 0 .. 6
        BY <1>8
      <4>2. QED
        BY <1>6, <2>2, <2>5, <2>a, <4>1, MissingIs
    <3>a. p \in {"velocity", "displacement"} => p # "unwrapped"
      OBVIOUS
    <3>6. \A q \in {"velocity", "displacement", "unwrapped"} \ {p} :
            ~exists(stepFile(q, n)) \/ Holds(stepFile(q, n), Step)
      <4>1. CASE p = "velocity"
        BY <3>4, <3>5, <3>a, <4>1
      <4>2. CASE p = "displacement"
        BY <3>2, <3>4, <3>a, <4>2
      <4>3. CASE p = "unwrapped"
        BY <3>2, <3>3, <4>3
      <4>4. QED
        BY <2>2, <4>1, <4>2, <4>3
    <3>7. n \in Later /\ OnlyFile(stepFile(p, n))
             /\ (exists(stepFile(p, n))' => disk'[stepFile(p, n)] \in {Empty, <<Step>>}) => StepOK(n)'
      BY <2>5, <3>1, <3>2, <3>4, <3>5, <3>6, LatePart DEF Holds
    <3>8. QED
      BY <1>6, <2>3, <3>7, PartSafe
  <2>6. QED
    BY <2>4, <2>5
<1>9. QED
  BY <1>2, <1>3, <1>4, <1>5, <1>7, <1>8

-----------------------------------------------------------------------------
\* A set of steps that are bounded has a newest one.
LEMMA Newest ==
  ASSUME NEW last \in Nat, NEW S, S \subseteq 0 .. last, S # {}
  PROVE  \E t \in S : \A u \in S : u <= t
<1> DEFINE T == {i \in Nat : last - i \in S}
<1>1. \A u \in S : u \in Nat /\ u <= last
  OBVIOUS
<1>2. \A u \in S : last - u \in T
  <2> SUFFICES ASSUME NEW u \in S PROVE last - u \in T
    OBVIOUS
  <2>1. last - u \in Nat /\ last - (last - u) = u
    BY <1>1
  <2>2. QED
    BY <2>1
<1>3. T \subseteq Nat /\ T # {}
  BY <1>2
<1>4. PICK x \in T : \A y \in T : <<y, x>> \notin OpToRel(<, Nat)
  BY <1>3, WFMin, NatLessThanWellFounded
<1>5. \A y \in T : ~(y < x)
  BY <1>4 DEF OpToRel
<1>6. x \in Nat /\ last - x \in S
  OBVIOUS
<1> HIDE DEF T
<1>7. \A u \in S : u <= last - x
  <2> SUFFICES ASSUME NEW u \in S PROVE u <= last - x
    OBVIOUS
  <2>1. ~(last - u < x) /\ u \in Nat
    BY <1>1, <1>2, <1>5
  <2>2. QED
    BY <1>6, <2>1
<1>8. QED
  BY <1>6, <1>7

LEMMA CheckRestart ==
  ASSUME NEW last \in Nat
  PROVE  /\ checkRestart(last) > 1 =>
              /\ checkRestart(last) \in 2 .. last /\ HasRestartFiles(checkRestart(last))
              /\ \A u \in 2 .. last : HasRestartFiles(u) => u <= checkRestart(last)
         /\ ~(checkRestart(last) > 1) => \A u \in 2 .. last : ~HasRestartFiles(u)
<1> DEFINE found == {t \in 2 .. last : HasRestartFiles(t)}
<1>1. CASE found = {}
  BY <1>1 DEF checkRestart
<1>2. CASE found # {}
  <2>1. \E t \in found : \A u \in found : u <= t
    <3>1. found \subseteq 0 .. last
      OBVIOUS
    <3>2. QED
      BY <1>2, <3>1, Newest
  <2>2. checkRestart(last) = CHOOSE t \in found : \A u \in found : u <= t
    BY <1>2 DEF checkRestart
  <2>3. checkRestart(last) \in found /\ \A u \in found : u <= checkRestart(last)
    BY <2>1, <2>2
  <2>4. QED
    BY <2>3
<1>3. QED
  BY <1>1, <1>2

-----------------------------------------------------------------------------
\* The writes of the other operations.
LEMMA ThermostatWriteSafe ==
  ASSUME WritingStep, DiskInv, Kept, NHC, Restartable, Written(9),
         NEW k \in 0 .. 1, k = 1 => Holds(nhcChk, Step),
         Outcome(ThermostatWrites[k + 1])
  PROVE  DiskInv'
<1>1. CASE k = 0
  <2>1. ThermostatWrites[k + 1] = write(nhcChk, state["thermostat"])
    BY <1>1, ThermostatWritesAre
  <2>2. QED
    BY <2>1, WriteOutcome, DiskSame, DiskUnnamed
<1>2. CASE k = 1
  <2>1. ThermostatWrites[k + 1] = copy(stepFile("thermostat", time), nhcChk)
    BY <1>2, ThermostatWritesAre
  <2>2. PICK n \in StepNo : n = time
    BY DEF WritingStep
  <2>3. SUFFICES ASSUME OnlyFile(stepFile("thermostat", n)),
                        stepFile("thermostat", n) \in DOMAIN disk',
                        disk'[stepFile("thermostat", n)] # Empty =>
                          disk'[stepFile("thermostat", n)] = <<Step>>
                 PROVE  DiskInv'
    BY <1>2, <2>1, <2>2, CopyOutcome, DiskSame DEF Holds
  <2>4. /\ Holds(timeChk, n) /\ Holds(stepFile("positions", n), Step)
        /\ Holds(stepFile("kinetic", n), Step)
        /\ n \in Later => /\ Holds(stepFile("velocity", n), Step)
                          /\ Holds(stepFile("displacement", n), Step)
                          /\ Holds(stepFile("unwrapped", n), Step)
    BY <2>2, LaterIsAbove1 DEF Written
  <2>5. n \in Later => StepOK(n)'
    <3> SUFFICES ASSUME n \in Later PROVE StepOK(n)'
      OBVIOUS
    <3>1. NHC' /\ Needed' = Part /\ Restartable'
      BY DEF Kept, NHC, Needed, Read, Part, Restartable
    <3>2. \A p \in Read : Holds(stepFile(p, n), Step)
      BY <2>4 DEF Read, Part
    <3>3. \A p \in Read : exists(stepFile(p, n))' /\ disk'[stepFile(p, n)] = <<Step>>
      <4> SUFFICES ASSUME NEW p \in Read
                   PROVE  exists(stepFile(p, n))' /\ disk'[stepFile(p, n)] = <<Step>>
        OBVIOUS
      <4>1. stepFile(p, n) # stepFile("thermostat", n)
        BY DEF stepFile, Read
      <4>2. QED
        BY <2>3, <3>2, <4>1 DEF OnlyFile, Holds, exists
    <3>4. \A p \in Part : readable(stepFile(p, n))' => disk'[stepFile(p, n)] = <<Step>>
      BY <2>3, <3>3 DEF readable, exists, Read, Part
    <3>5. "positions" \in Read /\ "velocity" \in Read
      BY DEF Read, Part
    <3>6. QED
      BY <3>1, <3>3, <3>4, <3>5 DEF StepOK
  <2>6. n > 1 => n \in Later
    BY <2>2 DEF WritingStep
  <2>7. readable(timeChk) => n <= read(timeChk)
    BY <2>2, <2>4 DEF Holds, read, WritingStep
  <2>8. /\ recorded \in Nat /\ recorded < n /\ ~exists(displacementChk(n))
        /\ IsTrajectory(Step, IF "thermostat" = "thermostat" /\ ~NHC THEN 0 ELSE n)
        /\ "thermostat" \in Part
    BY <2>2 DEF WritingStep, Part
  <2>9. QED
    BY <2>3, <2>5, <2>6, <2>7, <2>8, StepFileSafe
<1>3. QED
  BY <1>1, <1>2

LEMMA DisplacementWriteSafe ==
  ASSUME DiskInv, Kept, time \in StepNo, time > 1 => time \in Later, recorded = time,
         Holds(stepFile("positions", time), Step),
         NEW k \in 0 .. 2, Outcome(DisplacementWrites[k + 1])
  PROVE  DiskInv'
<1>1. PICK n \in StepNo : n = time
  OBVIOUS
<1>2. CASE k = 0
  <2>1. DisplacementWrites[k + 1] = write(displacementChk(time), Step)
    BY <1>2, DisplacementWritesAre
  <2>2. SUFFICES ASSUME OnlyFile(displacementChk(n)),
                        displacementChk(n) \in DOMAIN disk' /\ disk'[displacementChk(n)] # Empty =>
                          disk'[displacementChk(n)] = <<Step>>
                 PROVE  DiskInv'
    BY <1>1, <2>1, WriteOutcome, DiskSame
  <2>3. n > 1 => DisplacementOK(n)'
    <3> SUFFICES ASSUME n > 1 PROVE DisplacementOK(n)'
      OBVIOUS
    <3>1. /\ stepFile("positions", n) # displacementChk(n)
          /\ Key(n) # displacementChk(n) /\ Key(n)' = Key(n) /\ Restartable' = Restartable
      BY DEF stepFile, displacementChk, Key, Kept, NHC, Restartable
    <3>2. Restartable => exists(Key(n))
      BY <1>1 DEF DiskInv, RecordedInv
    <3>3. Holds(stepFile("positions", n), Step)
      BY <1>1
    <3>4. QED
      BY <2>2, <3>1, <3>2, <3>3 DEF DisplacementOK, OnlyFile, exists, readable, Holds
  <2>4. QED
    BY <2>2, <2>3, DiskDisplacement
<1>3. CASE k = 1
  <2>1. DisplacementWrites[k + 1] = copy(totalDisplacementChk(time), totalDisplacementChk(time - 1))
    BY <1>3, DisplacementWritesAre
  <2>2. QED
    BY <2>1, StepsAreNat, CopyOutcome, DiskSame, DiskUnnamed
<1>4. CASE k = 2
  <2>1. DisplacementWrites[k + 1] = append(totalDisplacementChk(time), Step)
    BY <1>4, DisplacementWritesAre
  <2>2. QED
    BY <2>1, StepsAreNat, AppendOutcome, DiskSame, DiskUnnamed
<1>5. QED
  BY <1>2, <1>3, <1>4

LEMMA Step0WriteSafe ==
  ASSUME DiskInv, Kept, NEW k \in 0 .. 1, Outcome(Step0Writes[k + 1])
  PROVE  DiskInv'
<1>1. CASE k = 0
  <2>1. Step0Writes[k + 1] = write(displacementChk(0), <<>>)
    BY <1>1, Step0WritesAre
  <2>2. QED
    BY <2>1, WriteOutcome, DiskSame, DiskUnnamed
<1>2. CASE k = 1
  <2>1. Step0Writes[k + 1] = write(totalDisplacementChk(0), <<>>)
    BY <1>2, Step0WritesAre
  <2>2. QED
    BY <2>1, WriteOutcome, DiskSame, DiskUnnamed
<1>3. QED
  BY <1>1, <1>2

LEMMA OtherWriteSafe ==
  ASSUME DiskInv, Kept, NEW w,
         \/ w = write(rhoChk, Step)
         \/ w = copy(nhcChk, stepFile("thermostat", start)),
         Outcome(w)
  PROVE  DiskInv'
BY WriteOutcome, CopyOutcome, DiskSame, DiskUnnamed

-----------------------------------------------------------------------------
\* Any write, finished or cut short, keeps the disk as it should be.
LEMMA RestHead ==
  ASSUME NEW s, Len(s) \in Nat, NEW k \in 0 .. Len(s), todo = Rest(s, k), todo # <<>>
  PROVE  /\ k \in 0 .. Len(s) - 1
         /\ Head(todo) = s[k + 1] /\ Tail(todo) = Rest(s, k + 1)
BY RestFacts

LEMMA RestartWritesLen ==
  ASSUME WritingStep
  PROVE  Len(RestartWrites) \in Nat /\ Len(RestartWrites) <= 9
         /\ (time > 1 => Len(RestartWrites) = 9)
<1>1. DOMAIN state = Part /\ (\A p \in Read : state[p] = Step) /\ time \in Nat
  BY DEF WritingStep
<1>2. Len(RestartWrites) = IF time > 1 THEN 9 ELSE 5
  BY <1>1, RestartWritesAre
<1>3. QED
  BY <1>2

LEMMA OneWrite == ASSUME NEW w, todo = <<w>> PROVE Head(todo) = w /\ Tail(todo) = <<>>
OBVIOUS

LEMMA RestartOutcome ==
  ASSUME WritingStep, DiskInv, Kept, todo # <<>>, Outcome(Head(todo)),
         \E k \in 0 .. Len(RestartWrites) :
           todo = Rest(RestartWrites, k) /\ Written(k) /\ Missing(k)
  PROVE  DiskInv'
<1>1. PICK k \in 0 .. Len(RestartWrites) :
        todo = Rest(RestartWrites, k) /\ Written(k) /\ Missing(k)
  OBVIOUS
<1>2. k \in 0 .. Len(RestartWrites) - 1 /\ Head(todo) = RestartWrites[k + 1]
  BY <1>1, RestHead, RestartWritesLen
<1>3. QED
  BY <1>1, <1>2, RestartWriteSafe

LEMMA ThermostatOutcome ==
  ASSUME WritingStep, DiskInv, Kept, todo # <<>>, Outcome(Head(todo)),
         NHC, Restartable, Written(9),
         \E k \in 0 .. 2 : todo = Rest(ThermostatWrites, k) /\ (k >= 1 => Holds(nhcChk, Step))
  PROVE  DiskInv'
<1>1. PICK k \in 0 .. 2 : todo = Rest(ThermostatWrites, k) /\ (k >= 1 => Holds(nhcChk, Step))
  OBVIOUS
<1>2. k \in 0 .. 1 /\ Head(todo) = ThermostatWrites[k + 1]
  BY <1>1, RestHead, ThermostatWritesAre
<1>3. k = 1 => Holds(nhcChk, Step)
  BY <1>1
<1>4. QED
  BY <1>2, <1>3, ThermostatWriteSafe

LEMMA DisplacementOutcome ==
  ASSUME TimeInv, DiskInv, Kept, todo # <<>>, Outcome(Head(todo)), recorded = time,
         Holds(stepFile("positions", time), Step),
         \E k \in 0 .. 3 : todo = Rest(DisplacementWrites, k)
  PROVE  DiskInv'
<1>1. PICK k \in 0 .. 3 : todo = Rest(DisplacementWrites, k)
  OBVIOUS
<1>2. k \in 0 .. 2 /\ Head(todo) = DisplacementWrites[k + 1]
  BY <1>1, RestHead, DisplacementWritesAre
<1>3. QED
  BY <1>2, DisplacementWriteSafe, TimeInSteps

LEMMA Step0Outcome ==
  ASSUME DiskInv, Kept, todo # <<>>, Outcome(Head(todo)),
         \E k \in 0 .. 2 : todo = Rest(Step0Writes, k)
  PROVE  DiskInv'
<1>1. PICK k \in 0 .. 2 : todo = Rest(Step0Writes, k)
  OBVIOUS
<1>2. k \in 0 .. 1 /\ Head(todo) = Step0Writes[k + 1]
  BY <1>1, RestHead, Step0WritesAre
<1>3. QED
  BY <1>2, Step0WriteSafe

\* Where a job is when it has writes left.
Writing == {"firstSolve", "firstDensity", "density", "readThermostat", "thermostatFile",
            "recorded", "stepDone"}

LEMMA WritingWhere == ASSUME TimeInv, TodoInv, todo # <<>> PROVE pc \in Writing
BY DEF TimeInv, TodoInv, PCs, Writing, Stopped

LEMMA OutcomeSafe ==
  ASSUME IInv, Kept, todo # <<>>, Outcome(Head(todo))
  PROVE  DiskInv'
<1>1. TimeInv /\ PlaceInv /\ MemoryInv /\ DiskInv /\ AheadInv /\ TodoInv
  BY DEF IInv
<1>2. pc \in Writing
  BY <1>1, WritingWhere
<1>3. CASE pc = "firstSolve"
  <2>1. \E k \in 0 .. 2 : todo = Rest(Step0Writes, k)
    BY <1>1, <1>3 DEF TodoInv
  <2>2. QED
    BY <1>1, <2>1, Step0Outcome
<1>4. CASE pc \in {"firstDensity", "density", "readThermostat"}
  <2>1. Head(todo) = write(rhoChk, Step) \/ Head(todo) = copy(nhcChk, stepFile("thermostat", start))
    <3>1. todo = <<write(rhoChk, Step)>> \/ todo = <<copy(nhcChk, stepFile("thermostat", start))>>
      BY <1>1, <1>4 DEF TodoInv
    <3>2. QED
      BY <3>1, OneWrite
  <2>2. QED
    BY <1>1, <2>1, OtherWriteSafe
<1>5. CASE pc = "thermostatFile"
  <2>1. WritingStep
    BY <1>1, <1>5, WritingStepFacts
  <2>2. \E k \in 0 .. Len(RestartWrites) :
          todo = Rest(RestartWrites, k) /\ Written(k) /\ Missing(k)
    BY <1>1, <1>5 DEF TodoInv
  <2>3. QED
    BY <1>1, <2>1, <2>2, RestartOutcome
<1>6. CASE pc = "recorded"
  <2>1. WritingStep
    BY <1>1, <1>6, WritingStepFacts
  <2>2. /\ Written(9) /\ NHC /\ Restartable
        /\ \E k \in 0 .. 2 : todo = Rest(ThermostatWrites, k) /\ (k >= 1 => Holds(nhcChk, Step))
    BY <1>1, <1>6 DEF TodoInv, ThermostatLeft
  <2>3. QED
    BY <1>1, <2>1, <2>2, ThermostatOutcome
<1>7. CASE pc = "stepDone"
  <2>1. /\ Holds(stepFile("positions", time), Step) /\ recorded = time
        /\ \E k \in 0 .. 3 : todo = Rest(DisplacementWrites, k)
    BY <1>1, <1>7 DEF TodoInv, PlaceInv
  <2>2. QED
    BY <1>1, <2>1, DisplacementOutcome
<1>8. QED
  BY <1>2, <1>3, <1>4, <1>5, <1>6, <1>7 DEF Writing

-----------------------------------------------------------------------------
\* The file that a finished write changes.
PlainFiles == {mdDat, timeChk, rhoChk, nhcChk, domainChk(time),
               totalDisplacementChk(0), totalDisplacementChk(time)}

Target(f) ==
  \/ f \in PlainFiles
  \/ pc = "firstSolve" /\ f = displacementChk(0) /\ disk'[f] = << <<>> >>
  \/ pc \in {"thermostatFile", "recorded"} /\ \E p \in Part : f = stepFile(p, time)
  \/ pc = "stepDone" /\ f = displacementChk(time) /\ disk'[f] = <<Step>>

Wrote == disk' = disk \/ \E f : OnlyFile(f) /\ Target(f)

LEMMA PlainWrite ==
  ASSUME NEW w, disk' = After(w), NEW f \in PlainFiles,
         (\E v : w = write(f, v)) \/ (\E g : w = copy(f, g)) \/ (\E v : w = append(f, v))
  PROVE  Wrote
<1>1. Outcome(w)
  BY DEF Outcome
<1>2. disk' = disk \/ OnlyFile(f)
  BY <1>1, WriteOutcome, CopyOutcome, AppendOutcome
<1>3. QED
  BY <1>2 DEF Wrote, Target

LEMMA RestartTarget ==
  ASSUME WritingStep, todo # <<>>, disk' = After(Head(todo)),
         \E k \in 0 .. Len(RestartWrites) : todo = Rest(RestartWrites, k)
  PROVE  \E f : OnlyFile(f) /\ (f \in PlainFiles \/ \E p \in Part : f = stepFile(p, time))
<1>1. PICK k \in 0 .. Len(RestartWrites) : todo = Rest(RestartWrites, k)
  OBVIOUS
<1>2. k \in 0 .. Len(RestartWrites) - 1 /\ Head(todo) = RestartWrites[k + 1]
  BY <1>1, RestHead, RestartWritesLen
<1>3. DOMAIN state = Part /\ (\A p \in Read : state[p] = Step) /\ time \in Nat
  BY DEF WritingStep
<1>4. \/ Head(todo) = write(mdDat, thermostat) \/ Head(todo) = write(timeChk, time)
      \/ Head(todo) = write(domainChk(time), 0)
      \/ \E p \in {"kinetic", "positions", "velocity", "displacement", "unwrapped"} :
           Head(todo) = write(stepFile(p, time), Step)
  <2>1. k \in 0 .. 4 \/ (time > 1 /\ k \in 5 .. 8)
    BY <1>2, <1>3, RestartWritesAre
  <2>2. QED
    BY <1>2, <1>3, <2>1, RestartWritesAre
<1>5. CASE \E p \in {"kinetic", "positions", "velocity", "displacement", "unwrapped"} :
             Head(todo) = write(stepFile(p, time), Step)
  BY <1>5, WriteDone DEF Part
<1>6. CASE \E f \in PlainFiles : \E v : Head(todo) = write(f, v)
  BY <1>6, WriteDone
<1>7. QED
  BY <1>4, <1>5, <1>6 DEF PlainFiles

LEMMA Step0Target ==
  ASSUME todo # <<>>, disk' = After(Head(todo)), pc = "firstSolve",
         Head(todo) \in {write(displacementChk(0), <<>>), write(totalDisplacementChk(0), <<>>)}
  PROVE  Wrote
<1>1. CASE Head(todo) = write(displacementChk(0), <<>>)
  BY <1>1, WriteDone DEF Wrote, Target
<1>2. CASE Head(todo) = write(totalDisplacementChk(0), <<>>)
  BY <1>2, PlainWrite DEF PlainFiles
<1>3. QED
  BY <1>1, <1>2

LEMMA Step0Heads ==
  ASSUME todo # <<>>, \E k \in 0 .. 2 : todo = Rest(Step0Writes, k)
  PROVE  \E k \in 0 .. 1 : /\ Head(todo) = Step0Writes[k + 1] /\ Tail(todo) = Rest(Step0Writes, k + 1)
                           /\ Head(todo) = IF k = 0 THEN write(displacementChk(0), <<>>)
                                           ELSE write(totalDisplacementChk(0), <<>>)
<1>1. PICK k \in 0 .. 2 : todo = Rest(Step0Writes, k)
  OBVIOUS
<1>2. k \in 0 .. 1 /\ Head(todo) = Step0Writes[k + 1] /\ Tail(todo) = Rest(Step0Writes, k + 1)
  <2>1. Len(Step0Writes) = 2 /\ Len(Step0Writes) \in Nat /\ k \in 0 .. Len(Step0Writes)
    BY <1>1, Step0WritesAre
  <2>2. /\ k \in 0 .. Len(Step0Writes) - 1
        /\ Head(todo) = Step0Writes[k + 1] /\ Tail(todo) = Rest(Step0Writes, k + 1)
    BY <1>1, <2>1, RestHead, Zenon
  <2>3. QED
    BY <2>1, <2>2
<1>3. QED
  BY <1>2, Step0WritesAre

LEMMA ThermostatHeads ==
  ASSUME todo # <<>>, NEW k \in 0 .. 2, todo = Rest(ThermostatWrites, k)
  PROVE  /\ k \in 0 .. 1 /\ Tail(todo) = Rest(ThermostatWrites, k + 1)
         /\ k = 0 => Head(todo) = write(nhcChk, state["thermostat"])
         /\ k = 1 => Head(todo) = copy(stepFile("thermostat", time), nhcChk)
<1>1. k \in 0 .. 1 /\ Head(todo) = ThermostatWrites[k + 1] /\ Tail(todo) = Rest(ThermostatWrites, k + 1)
  <2>1. Len(ThermostatWrites) = 2 /\ Len(ThermostatWrites) \in Nat /\ k \in 0 .. Len(ThermostatWrites)
    BY ThermostatWritesAre
  <2>2. /\ k \in 0 .. Len(ThermostatWrites) - 1
        /\ Head(todo) = ThermostatWrites[k + 1] /\ Tail(todo) = Rest(ThermostatWrites, k + 1)
    BY <2>1, RestHead, Zenon
  <2>3. QED
    BY <2>1, <2>2
<1>2. QED
  BY <1>1, ThermostatWritesAre

LEMMA DisplacementHeads ==
  ASSUME todo # <<>>, NEW k \in 0 .. 3, todo = Rest(DisplacementWrites, k)
  PROVE  /\ k \in 0 .. 2 /\ Tail(todo) = Rest(DisplacementWrites, k + 1)
         /\ k = 0 => Head(todo) = write(displacementChk(time), Step)
         /\ k = 1 => Head(todo) = copy(totalDisplacementChk(time), totalDisplacementChk(time - 1))
         /\ k = 2 => Head(todo) = append(totalDisplacementChk(time), Step)
<1>1. k \in 0 .. 2 /\ Head(todo) = DisplacementWrites[k + 1]
      /\ Tail(todo) = Rest(DisplacementWrites, k + 1)
  <2>1. Len(DisplacementWrites) = 3 /\ Len(DisplacementWrites) \in Nat /\ k \in 0 .. Len(DisplacementWrites)
    BY DisplacementWritesAre
  <2>2. /\ k \in 0 .. Len(DisplacementWrites) - 1
        /\ Head(todo) = DisplacementWrites[k + 1] /\ Tail(todo) = Rest(DisplacementWrites, k + 1)
    BY <2>1, RestHead, Zenon
  <2>3. QED
    BY <2>1, <2>2
<1>2. QED
  BY <1>1, DisplacementWritesAre

LEMMA WriteTarget ==
  ASSUME IInv, todo # <<>>, disk' = After(Head(todo))
  PROVE  Wrote
<1>1. TimeInv /\ PlaceInv /\ MemoryInv /\ DiskInv /\ AheadInv /\ TodoInv
  BY DEF IInv
<1>2. pc \in Writing
  BY <1>1, WritingWhere
<1>3. CASE pc = "firstSolve"
  <2>1. \E k \in 0 .. 2 : todo = Rest(Step0Writes, k)
    BY <1>1, <1>3 DEF TodoInv
  <2>2. Head(todo) \in {write(displacementChk(0), <<>>), write(totalDisplacementChk(0), <<>>)}
    BY <2>1, Step0Heads
  <2>3. QED
    BY <1>3, <2>2, Step0Target
<1>4. CASE pc \in {"firstDensity", "density", "readThermostat"}
  <2>1. todo = <<write(rhoChk, Step)>> \/ todo = <<copy(nhcChk, stepFile("thermostat", start))>>
    BY <1>1, <1>4 DEF TodoInv
  <2>2. Head(todo) = write(rhoChk, Step) \/ Head(todo) = copy(nhcChk, stepFile("thermostat", start))
    BY <2>1, OneWrite
  <2>3. QED
    BY <2>2, PlainWrite DEF PlainFiles
<1>5. CASE pc = "thermostatFile"
  <2>1. WritingStep
    BY <1>1, <1>5, WritingStepFacts
  <2>2. \E k \in 0 .. Len(RestartWrites) : todo = Rest(RestartWrites, k)
    BY <1>1, <1>5 DEF TodoInv
  <2>3. QED
    BY <1>5, <2>1, <2>2, RestartTarget DEF Wrote, Target
<1>6. CASE pc = "recorded"
  <2>1. PICK k \in 0 .. 2 : todo = Rest(ThermostatWrites, k)
    BY <1>1, <1>6 DEF TodoInv, ThermostatLeft
  <2>2. Head(todo) = write(nhcChk, state["thermostat"])
        \/ Head(todo) = copy(stepFile("thermostat", time), nhcChk)
    BY <2>1, ThermostatHeads
  <2>3. CASE Head(todo) = write(nhcChk, state["thermostat"])
    BY <2>3, PlainWrite DEF PlainFiles
  <2>4. CASE Head(todo) = copy(stepFile("thermostat", time), nhcChk)
    BY <1>6, <2>4, CopyDone DEF Wrote, Target, Part
  <2>5. QED
    BY <2>2, <2>3, <2>4
<1>7. CASE pc = "stepDone"
  <2>1. PICK k \in 0 .. 3 : todo = Rest(DisplacementWrites, k)
    BY <1>1, <1>7 DEF TodoInv
  <2>2. \/ Head(todo) = write(displacementChk(time), Step)
        \/ Head(todo) = copy(totalDisplacementChk(time), totalDisplacementChk(time - 1))
        \/ Head(todo) = append(totalDisplacementChk(time), Step)
    BY <2>1, DisplacementHeads
  <2>3. CASE Head(todo) = write(displacementChk(time), Step)
    BY <1>7, <2>3, WriteDone DEF Wrote, Target
  <2>4. CASE Head(todo) # write(displacementChk(time), Step)
    BY <2>2, <2>4, PlainWrite DEF PlainFiles
  <2>5. QED
    BY <2>3, <2>4
<1>8. QED
  BY <1>2, <1>3, <1>4, <1>5, <1>6, <1>7 DEF Writing

\* Nothing but the disk and the writes that are left changes.
Still == UNCHANGED <<pc, run, memory, history>>

LEMMA StillFacts ==
  ASSUME Still
  PROVE  /\ pc' = pc /\ thermostat' = thermostat /\ start' = start /\ time' = time
         /\ state' = state /\ job' = job /\ recorded' = recorded
         /\ Kept /\ Step' = Step /\ NHC' = NHC /\ Restartable' = Restartable
         /\ \A n : Key(n)' = Key(n)
BY DEF Still, run, memory, history, Kept, Step, NHC, Restartable, Key

LEMMA PlainIsOther ==
  ASSUME NEW f \in PlainFiles, NEW n
  PROVE  f # displacementChk(n) /\ \A p \in Part : f # stepFile(p, n)
BY DEF PlainFiles, displacementChk, stepFile, Part, mdDat, timeChk, rhoChk, nhcChk, domainChk,
   totalDisplacementChk

LEMMA TargetFacts ==
  ASSUME NEW f, Target(f), NEW n
  PROVE  /\ n # time => \A p \in Part : f # stepFile(p, n)
         /\ n # 0 /\ n # time => f # displacementChk(n)
         /\ pc \notin {"firstSolve", "stepDone"} => f # displacementChk(n)
         /\ pc \notin {"thermostatFile", "recorded"} => \A p \in Part : f # stepFile(p, n)
<1>1. CASE f \in PlainFiles
  BY <1>1, PlainIsOther
<1>2. CASE f \notin PlainFiles
  <2>1. \/ pc = "firstSolve" /\ f = displacementChk(0)
        \/ pc \in {"thermostatFile", "recorded"} /\ \E p \in Part : f = stepFile(p, time)
        \/ pc = "stepDone" /\ f = displacementChk(time)
    BY <1>2 DEF Target
  <2>2. \A m : m # n => displacementChk(m) # displacementChk(n)
    BY DEF displacementChk
  <2>3. \A p, q \in Part : \A m : m # n => stepFile(p, m) # stepFile(q, n)
    BY DEF stepFile
  <2>4. \A p \in Part : \A m : displacementChk(m) # stepFile(p, n) /\ stepFile(p, m) # displacementChk(n)
    BY DEF displacementChk, stepFile, Part
  <2>5. QED
    BY <2>1, <2>2, <2>3, <2>4
<1>3. QED
  BY <1>1, <1>2

LEMMA KeyIs == \A n : \E p \in Part : Key(n) = stepFile(p, n)
BY DEF Key, Part

FileStays(f) ==
  /\ f \in DOMAIN disk' <=> f \in DOMAIN disk
  /\ f \in DOMAIN disk => disk'[f] = disk[f]

\* The files that a finished write leaves alone.
LEMMA WroteKeeps ==
  ASSUME Wrote, NEW n
  PROVE  /\ n # time \/ pc \notin {"thermostatFile", "recorded"} =>
              \A p \in Part : FileStays(stepFile(p, n))
         /\ (n # 0 /\ n # time) \/ pc \notin {"firstSolve", "stepDone"} =>
              FileStays(displacementChk(n))
<1>1. CASE disk' = disk
  BY <1>1 DEF FileStays
<1>2. ASSUME NEW f, OnlyFile(f), Target(f)
      PROVE  /\ n # time \/ pc \notin {"thermostatFile", "recorded"} =>
                  \A p \in Part : FileStays(stepFile(p, n))
             /\ (n # 0 /\ n # time) \/ pc \notin {"firstSolve", "stepDone"} =>
                  FileStays(displacementChk(n))
  BY <1>2, TargetFacts DEF FileStays, OnlyFile
<1>3. QED
  BY <1>1, <1>2 DEF Wrote

LEMMA KeyStays ==
  ASSUME Wrote, NEW n, n # time \/ pc \notin {"thermostatFile", "recorded"}
  PROVE  FileStays(Key(n))
BY WroteKeeps, KeyIs

LEMMA AfterIsOther == time \in Nat => \A n \in Later : n > time => n # time
BY StepsAreNat

LEMMA DisplacementFiles == \A m, n : displacementChk(m) = displacementChk(n) => m = n
BY DEF displacementChk

LEMMA EmptyTrajectory == \A v : IsTrajectory(v, 0) => v = <<>>
BY DEF IsTrajectory

LEMMA WriteAhead ==
  ASSUME TimeInv, PlaceInv, AheadInv, Still, Wrote
  PROVE  AheadInv'
<1>1. /\ pc' = pc /\ time' = time /\ \A n : Key(n)' = Key(n)
      /\ Later' = Later /\ StepNo' = StepNo
  BY StillFacts DEF Later, StepNo
<1>2. pc \notin {"down", "failed"} => \A n \in Later : n > time => ~exists(Key(n))'
  <2> SUFFICES ASSUME pc \notin {"down", "failed"}, NEW n \in Later, n > time
               PROVE  ~exists(Key(n))'
    OBVIOUS
  <2>1. ~exists(Key(n)) /\ n # time
    <3>1. ~exists(Key(n))
      BY DEF AheadInv
    <3>2. time \in Nat
      BY DEF TimeInv
    <3>3. QED
      BY <3>1, <3>2, AfterIsOther
  <2>2. QED
    BY <1>1, <2>1, KeyStays DEF FileStays, exists
<1>3. pc \notin {"down", "failed"} => \A n \in StepNo : n > time => ~exists(displacementChk(n))'
  <2> SUFFICES ASSUME pc \notin {"down", "failed"}, NEW n \in StepNo, n > time
               PROVE  ~exists(displacementChk(n))'
    OBVIOUS
  <2>1. ~exists(displacementChk(n))
    BY DEF AheadInv
  <2>2. n # time /\ n # 0
    BY DEF TimeInv
  <2>3. QED
    BY <1>1, <2>1, <2>2, WroteKeeps DEF FileStays, exists
<1>4. pc \in InStep \ {"stepDone"} => ~exists(displacementChk(time))'
  <2> SUFFICES ASSUME pc \in InStep \ {"stepDone"} PROVE ~exists(displacementChk(time))'
    OBVIOUS
  <2>1. ~exists(displacementChk(time)) /\ pc \notin {"firstSolve", "stepDone"}
    BY DEF AheadInv, InStep
  <2>2. QED
    BY <1>1, <2>1, WroteKeeps DEF FileStays, exists
<1>5. pc \in {"solve", "density", "restartFiles"} /\ time > 1 => ~exists(Key(time))'
  <2> SUFFICES ASSUME pc \in {"solve", "density", "restartFiles"}, time > 1
               PROVE  ~exists(Key(time))'
    OBVIOUS
  <2>1. ~exists(Key(time)) /\ pc \notin {"thermostatFile", "recorded"}
    BY DEF AheadInv
  <2>2. QED
    BY <1>1, <2>1, KeyStays, StillFacts DEF FileStays, exists
<1>6. QED
  BY <1>1, <1>2, <1>3, <1>4, <1>5 DEF AheadInv

LEMMA WriteResumed ==
  ASSUME ResumedInv, Still, Wrote
  PROVE  ResumedInv'
<1>1. pc' = pc /\ start' = start /\ Key(start)' = Key(start) /\ Step' = Step
  BY StillFacts
<1>2. CASE pc \in Resuming \cup {"restart"}
  <2>1. pc \notin {"thermostatFile", "recorded"}
    BY <1>2 DEF Resuming
  <2>2. FileStays(Key(start)) /\ FileStays(stepFile("positions", start))
    BY <2>1, KeyStays, WroteKeeps DEF Part
  <2>3. QED
    BY <1>1, <2>2 DEF ResumedInv, FileStays, exists, Holds
<1>3. QED
  BY <1>1, <1>2 DEF ResumedInv

LEMMA WritePrevious ==
  ASSUME TimeInv, PlaceInv, MemoryInv, PreviousInv, Still, Wrote
  PROVE  PreviousInv'
<1>1. pc' = pc /\ time' = time /\ Step' = Step /\ state' = state
  BY StillFacts
<1>2. pc \in Resuming \cup {"new", "loop", "stepDone"} /\ readable(displacementChk(time))' =>
        disk'[displacementChk(time)] = <<Step>>
  <2> SUFFICES ASSUME pc \in Resuming \cup {"new", "loop", "stepDone"}, readable(displacementChk(time))'
               PROVE  disk'[displacementChk(time)] = <<Step>>
    OBVIOUS
  <2>1. ASSUME FileStays(displacementChk(time)) PROVE disk'[displacementChk(time)] = <<Step>>
    <3>1. readable(displacementChk(time)) /\ exists(displacementChk(time))
      BY <1>1, <2>1 DEF FileStays, readable, exists
    <3>2. disk[displacementChk(time)] = <<Step>>
      BY <3>1 DEF PreviousInv
    <3>3. QED
      BY <2>1, <3>1, <3>2 DEF FileStays, exists
  <2>2. ASSUME ~FileStays(displacementChk(time)) PROVE disk'[displacementChk(time)] = <<Step>>
    <3>1. PICK f : OnlyFile(f) /\ Target(f)
      BY <2>2 DEF Wrote, FileStays
    <3>2. f = displacementChk(time)
      BY <2>2, <3>1 DEF OnlyFile, FileStays
    <3>3. CASE pc = "stepDone" /\ disk'[f] = <<Step>>
      BY <3>2, <3>3
    <3>4. CASE pc = "firstSolve" /\ f = displacementChk(0) /\ disk'[f] = << <<>> >>
      <4>1. time = 0
        BY <3>2, <3>4, DisplacementFiles
      <4>2. Step = <<>>
        <5>1. IsTrajectory(Step, time)
          BY <3>4 DEF MemoryInv, Resuming
        <5>2. QED
          BY <4>1, <5>1, EmptyTrajectory
      <4>3. QED
        BY <3>2, <3>4, <4>2
    <3>5. QED
      BY <3>1, <3>2, <3>3, <3>4, TargetFacts, PlainIsOther DEF Target, displacementChk, stepFile, Part
  <2>3. QED
    BY <2>1, <2>2
<1>3. pc \in InStep \ {"stepDone"} => FileStays(displacementChk(time - 1))
  BY WroteKeeps DEF InStep
<1>4. pc = "solve" /\ readable(displacementChk(time - 1))' => disk'[displacementChk(time - 1)] = <<Step>>
  BY <1>1, <1>3 DEF PreviousInv, FileStays, readable, exists, InStep
<1>5. pc \in {"density", "restartFiles", "thermostatFile", "recorded"}
        /\ readable(displacementChk(time - 1))' =>
          Append(disk'[displacementChk(time - 1)][1], state["displacement"][time]) = Step
  <2> SUFFICES ASSUME pc \in {"density", "restartFiles", "thermostatFile", "recorded"},
                      readable(displacementChk(time - 1))'
               PROVE  Append(disk'[displacementChk(time - 1)][1], state["displacement"][time]) = Step
    OBVIOUS
  <2>1. FileStays(displacementChk(time - 1))
    BY <1>3 DEF InStep
  <2>2. readable(displacementChk(time - 1))
        /\ disk'[displacementChk(time - 1)] = disk[displacementChk(time - 1)]
    BY <1>1, <2>1 DEF FileStays, readable, exists
  <2>3. QED
    BY <2>2 DEF PreviousInv, read
<1>6. QED
  BY <1>1, <1>2, <1>4, <1>5 DEF PreviousInv, read

-----------------------------------------------------------------------------
\* After a write, the next one of the operation has what it needs.
Holds2(f, v) == f \in DOMAIN disk' /\ disk'[f] = <<v>>

LEMMA HoldsNext ==
  ASSUME NEW g, NEW x, disk' = After(write(g, x))
  PROVE  /\ Holds2(g, x)
         /\ \A f, v : f # g /\ Holds(f, v) => Holds2(f, v)
         /\ \A f : f # g => (exists(f) <=> f \in DOMAIN disk')
BY WriteDone DEF Holds2, Holds, OnlyFile, exists

LEMMA FilesDiffer ==
  ASSUME NEW n
  PROVE  /\ \A p, q \in Part : p # q => stepFile(p, n) # stepFile(q, n)
         /\ \A p \in Part : stepFile(p, n) \notin {mdDat, timeChk, domainChk(n)}
         /\ mdDat # timeChk /\ domainChk(n) # timeChk
BY DEF stepFile, Part, mdDat, timeChk, domainChk

\* The same, of the part that the first k writes of writeRestartFile have written.
WrittenNext(k) ==
  /\ k >= 2 => Holds2(timeChk, time)
  /\ k >= 3 => Holds2(stepFile("kinetic", time), Step)
  /\ k >= 5 => Holds2(stepFile("positions", time), Step)
  /\ time > 1 =>
       /\ k >= 6 => Holds2(stepFile("velocity", time), Step)
       /\ k >= 7 => Holds2(stepFile("displacement", time), Step)
       /\ k >= 8 => Holds2(stepFile("unwrapped", time), Step)

LEMMA WrittenNextIs == ASSUME Still, NEW k, WrittenNext(k) PROVE Written(k)'
BY StillFacts DEF WrittenNext, Written, Holds, Holds2, exists

LEMMA WrittenTwo ==
  ASSUME NEW k, k \in {0, 1, 2}, Written(k), NEW f, NEW v, disk' = After(write(f, v)),
         k = 0 => f = mdDat,
         k = 1 => f = timeChk /\ v = time,
         k = 2 => f = stepFile("kinetic", time) /\ v = Step
  PROVE  WrittenNext(k + 1)
<1>1. CASE k = 0
  BY <1>1 DEF WrittenNext
<1>2. CASE k = 1
  <2>1. Holds2(timeChk, time)
    BY <1>2, HoldsNext
  <2>2. k + 1 = 2
    BY <1>2
  <2>3. QED
    BY <2>1, <2>2 DEF WrittenNext
<1>3. CASE k = 2
  <2>1. Holds2(stepFile("kinetic", time), Step)
    BY <1>3, HoldsNext
  <2>2. Holds(timeChk, time)
    BY <1>3 DEF Written
  <2>3. timeChk # f
    BY <1>3, FilesDiffer DEF Part
  <2>4. Holds2(timeChk, time)
    BY <2>2, <2>3, HoldsNext
  <2>5. k + 1 = 3
    BY <1>3
  <2>6. QED
    BY <2>1, <2>4, <2>5 DEF WrittenNext
<1>4. QED
  BY <1>1, <1>2, <1>3

LEMMA WrittenFive ==
  ASSUME NEW k, k \in {3, 4}, Written(k), NEW f, NEW v, disk' = After(write(f, v)),
         k = 3 => f = domainChk(time),
         k = 4 => f = stepFile("positions", time) /\ v = Step
  PROVE  WrittenNext(k + 1)
<1>1. Holds2(timeChk, time) /\ Holds2(stepFile("kinetic", time), Step)
  <2>1. Holds(timeChk, time) /\ Holds(stepFile("kinetic", time), Step)
    BY DEF Written
  <2>2. timeChk # f /\ stepFile("kinetic", time) # f
    BY FilesDiffer DEF Part
  <2>3. QED
    BY <2>1, <2>2, HoldsNext
<1>2. k = 4 => Holds2(stepFile("positions", time), Step)
  BY HoldsNext
<1>3. k = 3 => k + 1 = 4
  OBVIOUS
<1>4. k = 4 => k + 1 = 5
  OBVIOUS
<1>5. QED
  BY <1>1, <1>2, <1>3, <1>4 DEF WrittenNext

LEMMA WrittenNine ==
  ASSUME NEW k, k \in {5, 6, 7, 8}, time > 1, Written(k), NEW f, NEW v, disk' = After(write(f, v)),
         k = 5 => f = stepFile("velocity", time) /\ v = Step,
         k = 6 => f = stepFile("displacement", time) /\ v = Step,
         k = 7 => f = stepFile("unwrapped", time) /\ v = Step,
         k = 8 => f = timeChk /\ v = time
  PROVE  WrittenNext(k + 1)
<1>1. Holds2(timeChk, time)
  <2>1. Holds(timeChk, time)
    BY DEF Written
  <2>2. timeChk # f \/ v = time
    BY FilesDiffer DEF Part
  <2>3. QED
    BY <2>1, <2>2, HoldsNext
<1>2. Holds2(stepFile("kinetic", time), Step) /\ Holds2(stepFile("positions", time), Step)
  <2>1. Holds(stepFile("kinetic", time), Step) /\ Holds(stepFile("positions", time), Step)
    BY DEF Written
  <2>2. stepFile("positions", time) # f /\ stepFile("kinetic", time) # f
    BY FilesDiffer DEF Part
  <2>3. QED
    BY <2>1, <2>2, HoldsNext
<1>3. Holds2(stepFile("velocity", time), Step)
  <2>1. CASE k = 5
    BY <2>1, HoldsNext
  <2>2. CASE k # 5
    <3>1. Holds(stepFile("velocity", time), Step)
      BY <2>2 DEF Written
    <3>2. stepFile("velocity", time) # f
      BY <2>2, FilesDiffer DEF Part
    <3>3. QED
      BY <3>1, <3>2, HoldsNext
  <2>3. QED
    BY <2>1, <2>2
<1>4. k # 5 => Holds2(stepFile("displacement", time), Step)
  <2>1. CASE k = 6
    BY <2>1, HoldsNext
  <2>2. CASE k \in {7, 8}
    <3>1. Holds(stepFile("displacement", time), Step)
      BY <2>2 DEF Written
    <3>2. stepFile("displacement", time) # f
      BY <2>2, FilesDiffer DEF Part
    <3>3. QED
      BY <3>1, <3>2, HoldsNext
  <2>3. QED
    BY <2>1, <2>2
<1>5. k \in {7, 8} => Holds2(stepFile("unwrapped", time), Step)
  <2>1. CASE k = 7
    BY <2>1, HoldsNext
  <2>2. CASE k = 8
    <3>1. Holds(stepFile("unwrapped", time), Step)
      BY <2>2 DEF Written
    <3>2. stepFile("unwrapped", time) # f
      BY <2>2, FilesDiffer DEF Part
    <3>3. QED
      BY <3>1, <3>2, HoldsNext
  <2>3. QED
    BY <2>1, <2>2
<1>6. CASE k = 5
  <2>1. k + 1 = 6
    BY <1>6
  <2>2. QED
    BY <1>1, <1>2, <1>3, <2>1 DEF WrittenNext
<1>7. CASE k = 6
  <2>1. k + 1 = 7
    BY <1>7
  <2>2. QED
    BY <1>1, <1>2, <1>3, <1>4, <1>7, <2>1 DEF WrittenNext
<1>8. CASE k \in {7, 8}
  BY <1>1, <1>2, <1>3, <1>4, <1>5, <1>8 DEF WrittenNext
<1>9. QED
  BY <1>6, <1>7, <1>8

LEMMA MissingNext ==
  ASSUME Still, NEW k \in 0 .. 8, Missing(k), NEW f, NEW v, disk' = After(write(f, v)),
         \/ k \in 0 .. 4 /\ f \in {mdDat, timeChk, domainChk(time), stepFile("kinetic", time),
                                   stepFile("positions", time)}
         \/ k = 5 /\ f = stepFile("velocity", time)
         \/ k = 6 /\ f = stepFile("displacement", time)
         \/ k = 7 /\ f = stepFile("unwrapped", time)
         \/ k = 8 /\ f = timeChk
  PROVE  Missing(k + 1)'
<1>1. /\ time' = time /\ NHC' = NHC /\ Key(time)' = Key(time)
  BY StillFacts
<1>2. Key(time) = IF NHC THEN stepFile("thermostat", time) ELSE stepFile("velocity", time)
  BY DEF Key
<1>3. SUFFICES ASSUME time > 1
      PROVE  /\ k + 1 < 6 \/ NHC => ~exists(Key(time))'
             /\ k + 1 < 7 /\ ~NHC => ~exists(stepFile("displacement", time))'
             /\ k + 1 < 8 /\ ~NHC => ~exists(stepFile("unwrapped", time))'
  BY <1>1 DEF Missing
<1>4. /\ k \in 0 .. 5 \/ NHC => ~exists(Key(time))
      /\ k \in 0 .. 6 /\ ~NHC => ~exists(stepFile("displacement", time))
      /\ k \in 0 .. 7 /\ ~NHC => ~exists(stepFile("unwrapped", time))
  BY <1>3, MissingIs
<1>5. /\ k + 1 < 6 => k \in 0 .. 4 /\ k \in 0 .. 5
      /\ k + 1 < 7 => k \in 0 .. 5 /\ k \in 0 .. 6
      /\ k + 1 < 8 => k \in 0 .. 6 /\ k \in 0 .. 7
  OBVIOUS
<1>6. ASSUME (k \in 0 .. 4 /\ k \in 0 .. 5) \/ NHC PROVE ~exists(Key(time))'
  <2>1. Key(time) # f
    BY <1>2, <1>6, FilesDiffer DEF Part
  <2>2. ~exists(Key(time))
    BY <1>4, <1>6
  <2>3. QED
    BY <1>1, <2>1, <2>2, HoldsNext DEF exists
<1>7. ASSUME k \in 0 .. 5, k \in 0 .. 6, ~NHC PROVE ~exists(stepFile("displacement", time))'
  <2>1. stepFile("displacement", time) # f
    BY <1>7, FilesDiffer DEF Part
  <2>2. ~exists(stepFile("displacement", time))
    BY <1>4, <1>7
  <2>3. QED
    BY <1>1, <2>1, <2>2, HoldsNext DEF exists
<1>8. ASSUME k \in 0 .. 6, k \in 0 .. 7, ~NHC PROVE ~exists(stepFile("unwrapped", time))'
  <2>1. stepFile("unwrapped", time) # f
    BY <1>8, FilesDiffer DEF Part
  <2>2. ~exists(stepFile("unwrapped", time))
    BY <1>4, <1>8
  <2>3. QED
    BY <1>1, <2>1, <2>2, HoldsNext DEF exists
<1>9. QED
  BY <1>5, <1>6, <1>7, <1>8

LEMMA RestartHeads ==
  ASSUME WritingStep, NEW k \in 0 .. Len(RestartWrites) - 1
  PROVE  \/ k = 0 /\ RestartWrites[k + 1] = write(mdDat, thermostat)
         \/ k = 1 /\ RestartWrites[k + 1] = write(timeChk, time)
         \/ k = 2 /\ RestartWrites[k + 1] = write(stepFile("kinetic", time), Step)
         \/ k = 3 /\ RestartWrites[k + 1] = write(domainChk(time), 0)
         \/ k = 4 /\ RestartWrites[k + 1] = write(stepFile("positions", time), Step)
         \/ /\ time > 1
            /\ \/ k = 5 /\ RestartWrites[k + 1] = write(stepFile("velocity", time), Step)
               \/ k = 6 /\ RestartWrites[k + 1] = write(stepFile("displacement", time), Step)
               \/ k = 7 /\ RestartWrites[k + 1] = write(stepFile("unwrapped", time), Step)
               \/ k = 8 /\ RestartWrites[k + 1] = write(timeChk, time)
<1>1. DOMAIN state = Part /\ (\A p \in Read : state[p] = Step) /\ time \in Nat
  BY DEF WritingStep
<1>2. k \in {0, 1, 2, 3, 4} \/ (time > 1 /\ k \in {5, 6, 7, 8})
  <2>1. Len(RestartWrites) = IF time > 1 THEN 9 ELSE 5
    BY <1>1, RestartWritesAre
  <2>2. CASE time > 1
    BY <2>1, <2>2
  <2>3. CASE ~(time > 1)
    BY <2>1, <2>3
  <2>4. QED
    BY <2>2, <2>3
<1>3. CASE k \in {0, 1, 2, 3, 4}
  BY <1>1, <1>3, RestartWritesAre
<1>4. CASE time > 1 /\ k \in {5, 6, 7, 8}
  BY <1>1, <1>4, RestartWritesAre
<1>5. QED
  BY <1>2, <1>3, <1>4

\* One write of writeRestartFile.
LEMMA RestartStep ==
  ASSUME WritingStep, Still, NEW k \in 0 .. Len(RestartWrites) - 1, Written(k), Missing(k),
         disk' = After(RestartWrites[k + 1])
  PROVE  Written(k + 1)' /\ Missing(k + 1)'
<1>1. k \in 0 .. 8
  BY RestartHeads
<1>2. CASE k \in {0, 1, 2}
  <2>1. \E f, v : /\ RestartWrites[k + 1] = write(f, v)
                  /\ k = 0 => f = mdDat
                  /\ k = 1 => f = timeChk /\ v = time
                  /\ k = 2 => f = stepFile("kinetic", time) /\ v = Step
    BY <1>2, RestartHeads
  <2>2. PICK f, v : /\ RestartWrites[k + 1] = write(f, v)
                    /\ k = 0 => f = mdDat
                    /\ k = 1 => f = timeChk /\ v = time
                    /\ k = 2 => f = stepFile("kinetic", time) /\ v = Step
    BY <2>1
  <2>3. WrittenNext(k + 1)
    BY <1>2, <2>2, WrittenTwo
  <2>4. k \in 0 .. 4 /\ f \in {mdDat, timeChk, domainChk(time), stepFile("kinetic", time),
                               stepFile("positions", time)}
    BY <1>2, <2>2
  <2>5. QED
    BY <1>1, <2>2, <2>3, <2>4, WrittenNextIs, MissingNext
<1>3. CASE k \in {3, 4}
  <2>1. \E f, v : /\ RestartWrites[k + 1] = write(f, v)
                  /\ k = 3 => f = domainChk(time)
                  /\ k = 4 => f = stepFile("positions", time) /\ v = Step
    BY <1>3, RestartHeads
  <2>2. PICK f, v : /\ RestartWrites[k + 1] = write(f, v)
                    /\ k = 3 => f = domainChk(time)
                    /\ k = 4 => f = stepFile("positions", time) /\ v = Step
    BY <2>1
  <2>3. WrittenNext(k + 1)
    BY <1>3, <2>2, WrittenFive
  <2>4. k \in 0 .. 4 /\ f \in {mdDat, timeChk, domainChk(time), stepFile("kinetic", time),
                               stepFile("positions", time)}
    BY <1>3, <2>2
  <2>5. QED
    BY <1>1, <2>2, <2>3, <2>4, WrittenNextIs, MissingNext
<1>4. CASE k \in {5, 6, 7, 8}
  <2>1. /\ time > 1
        /\ \E f, v : /\ RestartWrites[k + 1] = write(f, v)
                     /\ k = 5 => f = stepFile("velocity", time) /\ v = Step
                     /\ k = 6 => f = stepFile("displacement", time) /\ v = Step
                     /\ k = 7 => f = stepFile("unwrapped", time) /\ v = Step
                     /\ k = 8 => f = timeChk /\ v = time
    BY <1>4, RestartHeads
  <2>2. PICK f, v : /\ RestartWrites[k + 1] = write(f, v)
                    /\ k = 5 => f = stepFile("velocity", time) /\ v = Step
                    /\ k = 6 => f = stepFile("displacement", time) /\ v = Step
                    /\ k = 7 => f = stepFile("unwrapped", time) /\ v = Step
                    /\ k = 8 => f = timeChk /\ v = time
    BY <2>1
  <2>3. WrittenNext(k + 1)
    BY <1>4, <2>1, <2>2, WrittenNine
  <2>4. QED
    BY <1>1, <1>4, <2>2, <2>3, WrittenNextIs, MissingNext
<1>5. QED
  BY <1>1, <1>2, <1>3, <1>4

LEMMA RestartTodo ==
  ASSUME WritingStep, Still, todo # <<>>, disk' = After(Head(todo)), todo' = Tail(todo),
         \E k \in 0 .. Len(RestartWrites) :
           todo = Rest(RestartWrites, k) /\ Written(k) /\ Missing(k)
  PROVE  (\E k \in 0 .. Len(RestartWrites) :
           todo = Rest(RestartWrites, k) /\ Written(k) /\ Missing(k))'
<1>1. PICK k \in 0 .. Len(RestartWrites) :
        todo = Rest(RestartWrites, k) /\ Written(k) /\ Missing(k)
  OBVIOUS
<1>2. Len(RestartWrites) \in Nat /\ Len(RestartWrites) <= 9 /\ (time > 1 => Len(RestartWrites) = 9)
  BY RestartWritesLen
<1>3. /\ k \in 0 .. Len(RestartWrites) - 1
      /\ Head(todo) = RestartWrites[k + 1] /\ Tail(todo) = Rest(RestartWrites, k + 1)
  BY <1>1, <1>2, RestHead, Zenon
<1>4. k \in 0 .. 8 /\ k + 1 \in 0 .. Len(RestartWrites)
  BY <1>2, <1>3
<1>5. RestartWrites' = RestartWrites
  <2>1. \A p : RestartFile(p)' = RestartFile(p)
    BY StillFacts DEF RestartFile
  <2>2. thermostat' = thermostat /\ time' = time
    BY StillFacts
  <2>3. QED
    BY <2>1, <2>2 DEF RestartWrites
<1>6. Rest(RestartWrites, k + 1)' = Rest(RestartWrites, k + 1)
  BY <1>5 DEF Rest
<1>7. Written(k + 1)' /\ Missing(k + 1)'
  BY <1>1, <1>3, RestartStep
<1>8. QED
  BY <1>3, <1>4, <1>5, <1>6, <1>7

\* One write of writeRestartNHCfile.
LEMMA ThermostatTodo ==
  ASSUME WritingStep, NHC, Still, todo # <<>>, disk' = After(Head(todo)), todo' = Tail(todo),
         Written(9), \E k \in 0 .. 2 : ThermostatLeft(k)
  PROVE  Written(9)' /\ (\E k \in 0 .. 2 : ThermostatLeft(k))'
<1>1. PICK k \in 0 .. 2 : ThermostatLeft(k)
  OBVIOUS
<1>2. /\ k \in 0 .. 1 /\ Tail(todo) = Rest(ThermostatWrites, k + 1)
      /\ k = 0 => Head(todo) = write(nhcChk, state["thermostat"])
      /\ k = 1 => Head(todo) = copy(stepFile("thermostat", time), nhcChk)
  <2>1. todo = Rest(ThermostatWrites, k)
    BY <1>1 DEF ThermostatLeft
  <2>2. QED
    BY <2>1, ThermostatHeads, Zenon
<1>3. state["thermostat"] = Step
  BY DEF WritingStep
<1>4. /\ time' = time /\ Step' = Step /\ NHC' = NHC /\ Key(time)' = Key(time)
      /\ ThermostatWrites' = ThermostatWrites
  BY StillFacts DEF ThermostatWrites
<1>5. Rest(ThermostatWrites, k + 1)' = Rest(ThermostatWrites, k + 1)
  BY <1>4 DEF Rest
<1>6. Key(time) = stepFile("thermostat", time)
  BY DEF Key
<1>7. PICK f : OnlyFile(f) /\ f \in {nhcChk, stepFile("thermostat", time)}
        /\ (k = 0 => f = nhcChk /\ Holds2(nhcChk, Step))
        /\ (k = 1 => f = stepFile("thermostat", time) /\ Holds2(stepFile("thermostat", time), Step))
  <2>1. CASE k = 0
    BY <1>2, <1>3, <2>1, WriteDone DEF Holds2
  <2>2. CASE k = 1
    <3>1. Holds(nhcChk, Step)
      BY <1>1, <2>2 DEF ThermostatLeft
    <3>2. disk' = After(copy(stepFile("thermostat", time), nhcChk))
      BY <1>2, <2>2
    <3>3. exists(nhcChk) /\ disk[nhcChk] = <<Step>>
      BY <3>1 DEF Holds
    <3>4. OnlyFile(stepFile("thermostat", time)) /\ Holds2(stepFile("thermostat", time), Step)
      BY <3>2, <3>3, CopyDone DEF Holds2
    <3>5. QED
      BY <2>2, <3>4
  <2>3. QED
    BY <1>2, <2>1, <2>2
<1>8. nhcChk \notin {timeChk} \cup {stepFile(p, time) : p \in Part}
  BY DEF nhcChk, timeChk, stepFile, Part
<1>9. Written(9)'
  <2>1. ASSUME NEW g, g = timeChk \/ \E p \in Read : g = stepFile(p, time), NEW v, Holds(g, v)
        PROVE  Holds2(g, v)
    <3>1. g # f
      BY <1>7, <1>8, <2>1, FilesDiffer DEF Read, Part
    <3>2. QED
      BY <1>7, <2>1, <3>1 DEF OnlyFile, Holds, Holds2, exists
  <2>2. /\ Holds2(timeChk, time)
        /\ Holds2(stepFile("kinetic", time), Step) /\ Holds2(stepFile("positions", time), Step)
        /\ time > 1 => /\ Holds2(stepFile("velocity", time), Step)
                       /\ Holds2(stepFile("displacement", time), Step)
                       /\ Holds2(stepFile("unwrapped", time), Step)
    BY <2>1 DEF Written, Read, Part
  <2>3. WrittenNext(9)
    BY <2>2 DEF WrittenNext
  <2>4. QED
    BY <2>3, WrittenNextIs
<1>10. CASE k = 0
  <2>1. Holds2(nhcChk, Step)
    BY <1>7, <1>10
  <2>2. time > 1 => ~exists(Key(time))
    <3>1. time > 1 /\ k <= 1 => ~exists(Key(time))
      BY <1>1 DEF ThermostatLeft
    <3>2. k <= 1
      BY <1>10
    <3>3. QED
      BY <3>1, <3>2
  <2>3. time > 1 => Key(time) \notin DOMAIN disk'
    BY <1>6, <1>7, <1>8, <1>10, <2>2 DEF OnlyFile, exists, Part
  <2>4. ThermostatLeft(1)'
    BY <1>2, <1>4, <1>5, <1>10, <2>1, <2>3 DEF ThermostatLeft, Holds, Holds2, exists
  <2>5. QED
    BY <1>9, <2>4
<1>11. CASE k = 1
  <2>1. Holds(nhcChk, Step)
    BY <1>1, <1>11 DEF ThermostatLeft
  <2>2. Holds2(nhcChk, Step) /\ Holds2(Key(time), Step)
    BY <1>6, <1>7, <1>8, <1>11, <2>1 DEF OnlyFile, Holds, Holds2, exists, Part
  <2>3. ThermostatLeft(2)'
    BY <1>2, <1>4, <1>5, <1>11, <2>2 DEF ThermostatLeft, Holds, Holds2, exists
  <2>4. QED
    BY <1>9, <2>3
<1>12. QED
  BY <1>2, <1>10, <1>11

LEMMA Step0Todo ==
  ASSUME todo # <<>>, todo' = Tail(todo), \E k \in 0 .. 2 : todo = Rest(Step0Writes, k)
  PROVE  \E k \in 0 .. 2 : todo' = Rest(Step0Writes, k)
<1>1. PICK k \in 0 .. 1 : Tail(todo) = Rest(Step0Writes, k + 1)
  BY Step0Heads
<1>2. k + 1 \in 0 .. 2
  OBVIOUS
<1>3. QED
  BY <1>1, <1>2

LEMMA DisplacementTodo ==
  ASSUME Still, TimeInv, todo # <<>>, todo' = Tail(todo), disk' = After(Head(todo)),
         Holds(stepFile("positions", time), Step),
         \E k \in 0 .. 3 : todo = Rest(DisplacementWrites, k)
  PROVE  /\ Holds2(stepFile("positions", time), Step)
         /\ (\E k \in 0 .. 3 : todo = Rest(DisplacementWrites, k))'
<1>1. PICK k \in 0 .. 3 : todo = Rest(DisplacementWrites, k)
  OBVIOUS
<1>2. /\ k \in 0 .. 2 /\ Tail(todo) = Rest(DisplacementWrites, k + 1)
      /\ k = 0 => Head(todo) = write(displacementChk(time), Step)
      /\ k = 1 => Head(todo) = copy(totalDisplacementChk(time), totalDisplacementChk(time - 1))
      /\ k = 2 => Head(todo) = append(totalDisplacementChk(time), Step)
  BY <1>1, DisplacementHeads, Zenon
<1>3. DisplacementWrites' = DisplacementWrites
  BY StillFacts DEF DisplacementWrites
<1>4. Rest(DisplacementWrites, k + 1)' = Rest(DisplacementWrites, k + 1)
  BY <1>3 DEF Rest
<1>5. k + 1 \in 0 .. 3
  BY <1>2
<1>6. (\E j \in 0 .. 3 : todo = Rest(DisplacementWrites, j))'
  BY <1>2, <1>4, <1>5
<1>7. disk' = disk \/ \E f \in {displacementChk(time), totalDisplacementChk(time)} : OnlyFile(f)
  <2>1. Outcome(Head(todo))
    BY DEF Outcome
  <2>2. CASE k = 0
    BY <1>2, <2>1, <2>2, WriteOutcome
  <2>3. CASE k = 1
    BY <1>2, <2>1, <2>3, CopyOutcome
  <2>4. CASE k = 2
    BY <1>2, <2>1, <2>4, AppendOutcome
  <2>5. QED
    BY <1>2, <2>2, <2>3, <2>4
<1>8. stepFile("positions", time) \notin {displacementChk(time), totalDisplacementChk(time)}
  BY DEF stepFile, displacementChk, totalDisplacementChk
<1>9. Holds2(stepFile("positions", time), Step)
  BY <1>7, <1>8 DEF OnlyFile, Holds, Holds2, exists
<1>10. QED
  BY <1>6, <1>9

LEMMA ReadTodo ==
  ASSUME Still, exists(stepFile("thermostat", start)),
         todo = <<copy(nhcChk, stepFile("thermostat", start))>>, disk' = After(Head(todo))
  PROVE  nhcChk \in DOMAIN disk' /\ disk'[nhcChk] = disk'[stepFile("thermostat", start)]
<1>1. disk' = After(copy(nhcChk, stepFile("thermostat", start)))
  BY OneWrite
<1>2. nhcChk # stepFile("thermostat", start)
  BY DEF nhcChk, stepFile
<1>3. QED
  BY <1>1, <1>2, CopyDone DEF OnlyFile, exists

LEMMA WriteTodo ==
  ASSUME IInv, Still, todo # <<>>, disk' = After(Head(todo)), todo' = Tail(todo)
  PROVE  TodoInv'
<1>1. TimeInv /\ PlaceInv /\ MemoryInv /\ DiskInv /\ AheadInv /\ ResumedInv /\ TodoInv
  BY DEF IInv
<1>2. /\ pc' = pc /\ start' = start /\ time' = time /\ Step' = Step /\ NHC' = NHC
      /\ Restartable' = Restartable
  BY StillFacts
<1>3. pc \in Writing
  BY <1>1, WritingWhere
<1>4. CASE pc = "firstSolve"
  <2>1. \E k \in 0 .. 2 : todo = Rest(Step0Writes, k)
    BY <1>1, <1>4 DEF TodoInv
  <2>2. \E k \in 0 .. 2 : todo' = Rest(Step0Writes, k)
    BY <2>1, Step0Todo
  <2>3. (\E k \in 0 .. 2 : todo = Rest(Step0Writes, k))'
    BY <2>2 DEF Step0Writes, Rest
  <2>4. QED
    BY <1>2, <1>4, <2>3 DEF TodoInv, Stopped
<1>5. CASE pc \in {"firstDensity", "density"}
  <2>1. todo = <<write(rhoChk, Step)>>
    BY <1>1, <1>5 DEF TodoInv
  <2>2. todo' = <<>>
    BY <2>1, OneWrite
  <2>3. QED
    BY <1>2, <1>5, <2>2 DEF TodoInv, Stopped
<1>6. CASE pc = "readThermostat"
  <2>1. todo = <<copy(nhcChk, stepFile("thermostat", start))>>
    BY <1>1, <1>6 DEF TodoInv
  <2>2. todo' = <<>>
    BY <2>1, OneWrite
  <2>3. exists(stepFile("thermostat", start))
    <3>1. NHC /\ start >= 2
      BY <1>1, <1>6 DEF PlaceInv
    <3>2. start \in Nat
      BY <1>1 DEF TimeInv
    <3>3. start > 0
      BY <3>1, <3>2, TwoIsPositive
    <3>4. exists(Key(start))
      BY <1>1, <1>6, <3>3 DEF ResumedInv, Resuming
    <3>5. QED
      BY <3>1, <3>4 DEF Key
  <2>4. nhcChk \in DOMAIN disk' /\ disk'[nhcChk] = disk'[stepFile("thermostat", start)]
    BY <2>1, <2>3, ReadTodo
  <2>5. QED
    BY <1>2, <1>6, <2>2, <2>4 DEF TodoInv, Stopped, exists
<1>7. CASE pc = "thermostatFile"
  <2>1. WritingStep
    BY <1>1, <1>7, WritingStepFacts
  <2>2. \E k \in 0 .. Len(RestartWrites) :
          todo = Rest(RestartWrites, k) /\ Written(k) /\ Missing(k)
    BY <1>1, <1>7 DEF TodoInv
  <2>3. (\E k \in 0 .. Len(RestartWrites) :
           todo = Rest(RestartWrites, k) /\ Written(k) /\ Missing(k))'
    BY <2>1, <2>2, RestartTodo
  <2>4. QED
    BY <1>2, <1>7, <2>3 DEF TodoInv, Stopped
<1>8. CASE pc = "recorded"
  <2>1. WritingStep
    BY <1>1, <1>8, WritingStepFacts
  <2>2. NHC /\ Restartable /\ Written(9) /\ \E k \in 0 .. 2 : ThermostatLeft(k)
    BY <1>1, <1>8 DEF TodoInv
  <2>3. Written(9)' /\ (\E k \in 0 .. 2 : ThermostatLeft(k))'
    BY <2>1, <2>2, ThermostatTodo
  <2>4. QED
    BY <1>2, <1>8, <2>2, <2>3 DEF TodoInv, Stopped
<1>9. CASE pc = "stepDone"
  <2>1. Holds(stepFile("positions", time), Step) /\ \E k \in 0 .. 3 : todo = Rest(DisplacementWrites, k)
    BY <1>1, <1>9 DEF TodoInv
  <2>2. /\ Holds2(stepFile("positions", time), Step)
        /\ (\E k \in 0 .. 3 : todo = Rest(DisplacementWrites, k))'
    BY <1>1, <2>1, DisplacementTodo
  <2>3. Holds(stepFile("positions", time), Step)'
    BY <1>2, <2>2 DEF Holds, Holds2, exists
  <2>4. QED
    BY <1>2, <1>9, <2>2, <2>3 DEF TodoInv, Stopped
<1>10. QED
  BY <1>3, <1>4, <1>5, <1>6, <1>7, <1>8, <1>9 DEF Writing

-----------------------------------------------------------------------------
\* The invariant and the actions.
LEMMA WriteKeeps == IInv /\ Write => IInv'
<1> SUFFICES ASSUME IInv, Write PROVE IInv'
  OBVIOUS
<1>1. Still /\ todo # <<>> /\ disk' = After(Head(todo)) /\ todo' = Tail(todo)
  BY DEF Write, Still
<1>2. TimeInv /\ PlaceInv /\ MemoryInv /\ DiskInv /\ AheadInv /\ ResumedInv /\ PreviousInv
  BY DEF IInv
<1>3. /\ pc' = pc /\ thermostat' = thermostat /\ start' = start /\ time' = time
      /\ state' = state /\ job' = job /\ recorded' = recorded /\ Kept
      /\ Step' = Step /\ NHC' = NHC
  BY <1>1, StillFacts
<1>4. TimeInv' /\ PlaceInv'
  BY <1>2, <1>3 DEF TimeInv, PlaceInv
<1>5. MemoryInv'
  BY <1>2, <1>3 DEF MemoryInv
<1>6. DiskInv'
  BY <1>1, <1>3, OutcomeSafe DEF Outcome
<1>7. Wrote
  BY <1>1, WriteTarget
<1>8. AheadInv' /\ ResumedInv' /\ PreviousInv'
  BY <1>1, <1>2, <1>7, WriteAhead, WriteResumed, WritePrevious
<1>9. TodoInv'
  BY <1>1, WriteTodo
<1>10. QED
  BY <1>4, <1>5, <1>6, <1>8, <1>9 DEF IInv

\* A job that stopped keeps the disk as it should be, and that is all.
LEMMA StoppedInv ==
  ASSUME TimeInv', DiskInv', pc' \in {"down", "failed"}, todo' = <<>>
  PROVE  IInv'
<1>1. PlaceInv'
  BY DEF PlaceInv, Resuming, InStep, Stopped
<1>2. MemoryInv'
  BY DEF MemoryInv, Resuming, InStep
<1>3. AheadInv'
  BY DEF AheadInv, InStep
<1>4. ResumedInv' /\ PreviousInv'
  BY DEF ResumedInv, PreviousInv, Resuming
<1>5. TodoInv'
  BY DEF TodoInv, Stopped
<1>6. QED
  BY <1>1, <1>2, <1>3, <1>4, <1>5 DEF IInv

LEMMA CrashKeeps == IInv /\ Crash => IInv'
<1> SUFFICES ASSUME IInv, Crash PROVE IInv'
  OBVIOUS
<1>1. /\ job < MaxJobs /\ todo' = <<>> /\ pc' = "down" /\ Kept
      /\ start' = start /\ time' = time /\ thermostat' = thermostat
      /\ job' = job /\ recorded' = recorded
      /\ \/ disk' = disk
         \/ todo # <<>> /\ disk' \in CutShort(Head(todo))
  BY DEF Crash, goto, run, memory, Kept
<1>2. TimeInv'
  BY <1>1 DEF IInv, TimeInv, PCs
<1>3. DiskInv'
  BY <1>1, OutcomeSafe, DiskSame DEF Outcome, IInv
<1>4. QED
  BY <1>1, <1>2, <1>3, StoppedInv

\* An action that leaves the disk alone.
Calm == disk' = disk /\ thermostat' = thermostat

LEMMA CalmFacts ==
  ASSUME Calm
  PROVE  /\ NHC' = NHC /\ Restartable' = Restartable /\ Needed' = Needed
         /\ \A n : Key(n)' = Key(n)
         /\ \A f : exists(f)' = exists(f) /\ readable(f)' = readable(f) /\ read(f)' = read(f)
         /\ \A f, v : Holds(f, v)' <=> (exists(f) /\ disk[f] = <<v>>)
BY DEF Calm, NHC, Restartable, Needed, Key, exists, readable, read, Holds

\* The disk of an action that records nothing and starts no job.
LEMMA CalmDisk ==
  ASSUME DiskInv, Calm, job' = job, recorded' = recorded
  PROVE  DiskInv'
BY DiskSame DEF Calm, Kept

LEMMA CalmAhead ==
  ASSUME AheadInv, Calm, time' = time, pc \notin {"down", "failed"},
         pc' \in InStep \ {"stepDone"} => pc \in InStep \ {"stepDone"},
         pc' \in {"solve", "density", "restartFiles"} => pc \in {"solve", "density", "restartFiles"}
  PROVE  AheadInv'
BY CalmFacts DEF AheadInv, Later, StepNo

LEMMA WriteStep0Keeps == IInv /\ WriteStep0 => IInv'
<1> SUFFICES ASSUME IInv, WriteStep0 PROVE IInv'
  OBVIOUS
<1>1. /\ pc = "new" /\ pc' = "firstSolve" /\ todo' = Step0Writes /\ Calm
      /\ start' = start /\ time' = time /\ thermostat' = thermostat /\ state' = state
      /\ job' = job /\ recorded' = recorded /\ Step' = Step
  BY DEF WriteStep0, Done, goto, run, memory, history, Calm, Step, Step0Writes
<1>2. TimeInv /\ PlaceInv /\ MemoryInv /\ DiskInv /\ AheadInv /\ ResumedInv /\ PreviousInv
  BY DEF IInv
<1>3. start = 0
  BY <1>1, <1>2 DEF PlaceInv
<1>4. TimeInv'
  BY <1>1, <1>2 DEF TimeInv, PCs
<1>5. PlaceInv'
  BY <1>1, <1>2 DEF PlaceInv, Resuming, InStep, Stopped
<1>6. MemoryInv'
  BY <1>1, <1>2, CalmFacts DEF MemoryInv, Resuming, InStep
<1>7. DiskInv' /\ AheadInv'
  BY <1>1, <1>2, CalmDisk, CalmAhead DEF InStep
<1>8. ResumedInv'
  <2>1. start' = 0
    BY <1>1, <1>3
  <2>2. ~(start' > 0)
    BY ZeroIsNotPositive, <2>1, Zenon
  <2>3. QED
    BY <2>2 DEF ResumedInv
<1>9. PreviousInv'
  BY <1>1, <1>2, CalmFacts DEF PreviousInv, Resuming, Calm
<1>10. TodoInv'
  <2>1. Rest(Step0Writes, 0)' = Rest(Step0Writes, 0) /\ 0 \in 0 .. 2
    BY DEF Step0Writes, Rest
  <2>2. todo' = Rest(Step0Writes, 0)'
    BY <1>1, <2>1, Step0WritesAre
  <2>3. (\E k \in 0 .. 2 : todo = Rest(Step0Writes, k))'
    BY <2>1, <2>2
  <2>4. QED
    BY <1>1, <2>3 DEF TodoInv, Stopped
<1>11. QED
  BY <1>4, <1>5, <1>6, <1>7, <1>8, <1>9, <1>10 DEF IInv

LEMMA FirstSolveKeeps == IInv /\ FirstSolve => IInv'
<1> SUFFICES ASSUME IInv, FirstSolve PROVE IInv'
  OBVIOUS
<1>1. /\ pc = "firstSolve" /\ pc' = "firstDensity" /\ todo' = <<write(rhoChk, Step)>> /\ Calm
      /\ start' = start /\ time' = time /\ thermostat' = thermostat /\ state' = state
      /\ job' = job /\ recorded' = recorded /\ Step' = Step
  BY DEF FirstSolve, Done, goto, run, memory, history, Calm, Step
<1>2. TimeInv /\ PlaceInv /\ MemoryInv /\ DiskInv /\ AheadInv /\ ResumedInv /\ PreviousInv
  BY DEF IInv
<1>3. TimeInv'
  BY <1>1, <1>2 DEF TimeInv, PCs
<1>4. PlaceInv'
  BY <1>1, <1>2 DEF PlaceInv, Resuming, InStep, Stopped
<1>5. MemoryInv'
  BY <1>1, <1>2, CalmFacts DEF MemoryInv, Resuming, InStep
<1>6. DiskInv' /\ AheadInv'
  BY <1>1, <1>2, CalmDisk, CalmAhead DEF InStep
<1>7. ResumedInv'
  BY <1>1, <1>2, CalmFacts DEF ResumedInv, Resuming, Holds
<1>8. PreviousInv'
  BY <1>1, <1>2, CalmFacts DEF PreviousInv, Resuming, Calm
<1>9. TodoInv'
  BY <1>1 DEF TodoInv, Stopped
<1>10. QED
  BY <1>3, <1>4, <1>5, <1>6, <1>7, <1>8, <1>9 DEF IInv

LEMMA FirstDensityKeeps == IInv /\ FirstDensity => IInv'
<1> SUFFICES ASSUME IInv, FirstDensity PROVE IInv'
  OBVIOUS
<1>1. /\ pc = "firstDensity" /\ todo' = <<>> /\ Calm
      /\ pc' = IF start > 0 /\ NHC THEN "thermostat" ELSE "loop"
      /\ start' = start /\ time' = time /\ thermostat' = thermostat /\ state' = state
      /\ job' = job /\ recorded' = recorded /\ Step' = Step
  BY DEF FirstDensity, Done, goto, run, history, Calm, Step, NHC
<1>2. TimeInv /\ PlaceInv /\ MemoryInv /\ DiskInv /\ AheadInv /\ ResumedInv /\ PreviousInv
  BY DEF IInv
<1>3. pc' \in {"thermostat", "loop"}
      /\ (pc' = "thermostat" => start > 0 /\ NHC) /\ (pc' = "loop" => ~(start > 0) \/ ~NHC)
  BY <1>1
<1>4. (start > 0 => start >= 2) /\ (~(start > 0) => start = 0)
  <2>1. start \in Nat /\ (start = 0 \/ start >= 2)
    BY <1>2 DEF TimeInv
  <2>2. QED
    BY <2>1, ZeroOrTwo
<1>5. TimeInv'
  BY <1>1, <1>2, <1>3 DEF TimeInv, PCs
<1>6. PlaceInv'
  <2>1. NHC' = NHC
    BY <1>1, CalmFacts
  <2>2. QED
    BY <1>1, <1>2, <1>3, <1>4, <2>1 DEF PlaceInv, Resuming, InStep, Stopped
<1>7. MemoryInv'
  <2>1. NHC' = NHC
    BY <1>1, CalmFacts
  <2>2. /\ DOMAIN state = Part /\ IsTrajectory(Step, time) /\ (\A p \in Read : state[p] = Step)
        /\ NHC /\ start = 0 => state["thermostat"] = Step
    BY <1>1, <1>2 DEF MemoryInv, Resuming
  <2>3. QED
    BY <1>1, <1>3, <1>4, <2>1, <2>2 DEF MemoryInv, Resuming, InStep
<1>8. DiskInv' /\ AheadInv'
  BY <1>1, <1>2, <1>3, CalmDisk, CalmAhead DEF InStep
<1>9. ResumedInv'
  BY <1>1, <1>2, <1>3, CalmFacts DEF ResumedInv, Resuming, Holds
<1>10. PreviousInv'
  BY <1>1, <1>2, <1>3, CalmFacts DEF PreviousInv, Resuming, Calm
<1>11. TodoInv'
  BY <1>1, <1>3 DEF TodoInv, Stopped
<1>12. QED
  BY <1>5, <1>6, <1>7, <1>8, <1>9, <1>10, <1>11 DEF IInv

LEMMA CopyThermostatKeeps == IInv /\ CopyThermostat => IInv'
<1> SUFFICES ASSUME IInv, CopyThermostat PROVE IInv'
  OBVIOUS
<1>1. /\ pc = "thermostat" /\ pc' = "readThermostat" /\ Calm
      /\ todo' = <<copy(nhcChk, stepFile("thermostat", start))>>
      /\ start' = start /\ time' = time /\ thermostat' = thermostat /\ state' = state
      /\ job' = job /\ recorded' = recorded /\ Step' = Step
  BY DEF CopyThermostat, Done, goto, run, memory, history, Calm, Step
<1>2. TimeInv /\ PlaceInv /\ MemoryInv /\ DiskInv /\ AheadInv /\ ResumedInv /\ PreviousInv
  BY DEF IInv
<1>3. TimeInv'
  BY <1>1, <1>2 DEF TimeInv, PCs
<1>4. PlaceInv'
  BY <1>1, <1>2, CalmFacts DEF PlaceInv, Resuming, InStep, Stopped
<1>5. MemoryInv'
  BY <1>1, <1>2, CalmFacts DEF MemoryInv, Resuming, InStep
<1>6. DiskInv' /\ AheadInv'
  BY <1>1, <1>2, CalmDisk, CalmAhead DEF InStep
<1>7. ResumedInv'
  BY <1>1, <1>2, CalmFacts DEF ResumedInv, Resuming, Holds
<1>8. PreviousInv'
  BY <1>1, <1>2, CalmFacts DEF PreviousInv, Resuming, Calm
<1>9. TodoInv'
  BY <1>1 DEF TodoInv, Stopped
<1>10. QED
  BY <1>3, <1>4, <1>5, <1>6, <1>7, <1>8, <1>9 DEF IInv

LEMMA ReadThermostatKeeps == IInv /\ ReadThermostat => IInv'
<1> SUFFICES ASSUME IInv, ReadThermostat PROVE IInv'
  OBVIOUS
<1>1. /\ pc = "readThermostat" /\ todo = <<>> /\ todo' = <<>> /\ Calm
      /\ \/ pc' = "failed"
         \/ /\ pc' = "loop" /\ readable(nhcChk)
            /\ state' = [state EXCEPT !["thermostat"] = read(nhcChk)]
      /\ start' = start /\ time' = time /\ thermostat' = thermostat
      /\ job' = job /\ recorded' = recorded
  BY DEF ReadThermostat, Done, goto, run, history, Calm
<1>2. TimeInv /\ PlaceInv /\ MemoryInv /\ DiskInv /\ AheadInv /\ ResumedInv /\ PreviousInv /\ TodoInv
  BY DEF IInv
<1>3. TimeInv'
  BY <1>1, <1>2 DEF TimeInv, PCs
<1>4. DiskInv'
  BY <1>1, <1>2, CalmDisk
<1>5. CASE pc' = "failed"
  BY <1>1, <1>3, <1>4, <1>5, StoppedInv
<1>6. CASE pc' = "loop"
  <2>1. /\ DOMAIN state = Part /\ IsTrajectory(Step, time) /\ \A p \in Read : state[p] = Step
    BY <1>1, <1>2 DEF MemoryInv, Resuming
  <2>2. /\ \A p \in Read : state'[p] = state[p]
        /\ DOMAIN state' = Part /\ state'["thermostat"] = read(nhcChk) /\ Step' = Step
    BY <1>1, <1>6, <2>1 DEF Read, Part, Step
  <2>3. NHC /\ start \in Later /\ start > 0 /\ start \in Nat
    <3>1. NHC /\ start >= 2 /\ start \in Nat
      BY <1>1, <1>2 DEF PlaceInv, TimeInv
    <3>2. start > 0 /\ start > 1
      BY <3>1, TwoIsPositive
    <3>3. QED
      BY <1>2, <3>1, <3>2, TimeInSteps
  <2>4. exists(Key(start)) /\ Holds(stepFile("positions", start), Step)
    BY <1>1, <1>2, <2>3 DEF ResumedInv, Resuming
  <2>5. disk[nhcChk] = disk[stepFile("thermostat", start)] /\ disk[nhcChk] # Empty
    BY <1>1, <1>2, <1>6 DEF TodoInv, readable
  <2>6. readable(stepFile("thermostat", start)) /\ readable(stepFile("positions", start))
    <3>1. <<Step>> # Empty
      BY DEF Empty
    <3>2. exists(stepFile("thermostat", start))
      BY <2>3, <2>4 DEF Key
    <3>3. QED
      BY <2>4, <2>5, <3>1, <3>2 DEF readable, Holds
  <2>7. disk[stepFile("thermostat", start)] = disk[stepFile("positions", start)]
    <3>1. StepOK(start) /\ {"thermostat", "positions"} \subseteq Needed
      BY <1>2, <2>3 DEF DiskInv, Needed, Read, Part
    <3>2. QED
      BY <2>4, <2>6, <3>1 DEF StepOK
  <2>8. read(nhcChk) = Step
    BY <2>4, <2>5, <2>7 DEF read, Holds
  <2>9. MemoryInv'
    BY <1>1, <2>1, <2>2, <2>8 DEF MemoryInv
  <2>10. PlaceInv'
    BY <1>1, <1>2, <1>6, CalmFacts DEF PlaceInv, Resuming, InStep, Stopped
  <2>11. AheadInv'
    BY <1>1, <1>2, <1>6, CalmAhead DEF InStep
  <2>12. ResumedInv'
    BY <1>6 DEF ResumedInv, Resuming
  <2>13. PreviousInv'
    BY <1>1, <1>2, <1>6, <2>2, CalmFacts DEF PreviousInv, Resuming, Calm
  <2>14. TodoInv'
    BY <1>1, <1>6 DEF TodoInv, Stopped
  <2>15. QED
    BY <1>3, <1>4, <2>9, <2>10, <2>11, <2>12, <2>13, <2>14 DEF IInv
<1>7. QED
  BY <1>1, <1>5, <1>6

\* The numbers of the step that starts.
LEMMA NextStepNumbers ==
  ASSUME TimeInv, recorded <= time, time' = time + 1, time + 1 < start + NumberOfSteps
  PROVE  /\ start <= time' /\ time' <= start + (NumberOfSteps - 1) /\ time' \in Nat
         /\ time' > start /\ recorded < time' /\ time' - 1 = time
         /\ time' \in StepNo /\ (time' > 1 => time' \in Later)
         /\ time' > time /\ \A n \in Nat : n > time' => n > time
<1>1. /\ start \in Nat /\ time \in Nat /\ recorded \in Nat /\ start <= time
      /\ job \in 1 .. MaxJobs /\ start <= Bound(job - 1)
  BY DEF TimeInv
<1>2. NumberOfSteps \in Nat
  BY BoundsAssumption
<1>3. /\ Bound(job - 1) \in Nat /\ Bound(job) \in Nat /\ MaxStep \in Nat
      /\ Bound(job) = Bound(job - 1) + (NumberOfSteps - 1) /\ Bound(job) <= MaxStep
  BY <1>1, BoundFacts
<1>4. time + 1 <= start + (NumberOfSteps - 1)
  BY <1>1, <1>2
<1>5. time + 1 <= MaxStep
  BY <1>1, <1>2, <1>3, <1>4
<1>6. QED
  BY <1>1, <1>2, <1>3, <1>4, <1>5 DEF StepNo, Later

LEMMA StartStepKeeps == IInv /\ StartStep => IInv'
<1> SUFFICES ASSUME IInv, StartStep PROVE IInv'
  OBVIOUS
<1>1. /\ pc = "loop" /\ todo' = <<>> /\ Calm
      /\ \/ time + 1 < start + NumberOfSteps /\ time' = time + 1 /\ pc' = "solve"
         \/ pc' = "finished" /\ time' = time
      /\ start' = start /\ thermostat' = thermostat /\ state' = state
      /\ job' = job /\ recorded' = recorded /\ Step' = Step
  BY DEF StartStep, Done, goto, memory, history, Calm, Step
<1>2. TimeInv /\ PlaceInv /\ MemoryInv /\ DiskInv /\ AheadInv /\ ResumedInv /\ PreviousInv /\ TodoInv
  BY DEF IInv
<1>3. DiskInv'
  BY <1>1, <1>2, CalmDisk
<1>4. recorded <= time
  BY <1>1, <1>2 DEF PlaceInv, Stopped
<1>5. CASE pc' = "finished" /\ time' = time
  <2>1. TimeInv'
    BY <1>1, <1>2, <1>5 DEF TimeInv, PCs
  <2>2. PlaceInv'
    BY <1>1, <1>5 DEF PlaceInv, Resuming, InStep, Stopped
  <2>3. MemoryInv'
    BY <1>5 DEF MemoryInv, Resuming, InStep
  <2>4. AheadInv'
    BY <1>1, <1>2, <1>5, CalmAhead DEF InStep
  <2>5. ResumedInv' /\ PreviousInv'
    BY <1>5 DEF ResumedInv, PreviousInv, Resuming
  <2>6. TodoInv'
    BY <1>1, <1>5 DEF TodoInv, Stopped
  <2>7. QED
    BY <1>3, <2>1, <2>2, <2>3, <2>4, <2>5, <2>6 DEF IInv
<1>6. CASE time + 1 < start + NumberOfSteps /\ time' = time + 1 /\ pc' = "solve"
  <2>1. /\ start <= time' /\ time' <= start + (NumberOfSteps - 1) /\ time' \in Nat
        /\ time' > start /\ recorded < time' /\ time' - 1 = time
        /\ time' \in StepNo /\ (time' > 1 => time' \in Later)
        /\ time' > time /\ \A n \in Nat : n > time' => n > time
    BY <1>2, <1>4, <1>6, NextStepNumbers
  <2>2. TimeInv'
    BY <1>1, <1>2, <1>6, <2>1 DEF TimeInv, PCs
  <2>3. recorded' <= time'
    BY <1>1, <2>1, LessIsLessOrEqual DEF TimeInv, IInv
  <2>4. PlaceInv'
    BY <1>1, <1>6, <2>1, <2>3 DEF PlaceInv, Resuming, InStep, Stopped
  <2>5. MemoryInv'
    <3>1. /\ DOMAIN state = Part /\ IsTrajectory(Step, time) /\ (\A p \in Read : state[p] = Step)
          /\ NHC => state["thermostat"] = Step
      BY <1>1, <1>2 DEF MemoryInv, Resuming
    <3>2. IsTrajectory(Step', time' - 1) /\ NHC' = NHC
      BY <1>1, <2>1, <3>1, CalmFacts
    <3>3. QED
      BY <1>1, <1>6, <3>1, <3>2 DEF MemoryInv
  <2>6. AheadInv'
    <3>1. /\ \A n \in Later : n > time => ~exists(Key(n))
          /\ \A n \in StepNo : n > time => ~exists(displacementChk(n))
      BY <1>1, <1>2 DEF AheadInv
    <3>2. /\ \A n \in Later : n > time' => ~exists(Key(n))
          /\ \A n \in StepNo : n > time' => ~exists(displacementChk(n))
          /\ ~exists(displacementChk(time')) /\ (time' > 1 => ~exists(Key(time')))
      BY <2>1, <3>1, StepsAreNat
    <3>3. /\ \A n \in Later : n > time' => ~exists(Key(n))'
          /\ \A n \in StepNo : n > time' => ~exists(displacementChk(n))'
          /\ ~exists(displacementChk(time))' /\ (time' > 1 => ~exists(Key(time))')
      BY <1>1, <3>2 DEF Calm, exists, Key, NHC
    <3>4. Later' = Later /\ StepNo' = StepNo
      BY DEF Later, StepNo
    <3>5. QED
      BY <1>6, <3>3, <3>4 DEF AheadInv
  <2>7. ResumedInv'
    BY <1>6 DEF ResumedInv, Resuming
  <2>8. PreviousInv'
    <3>1. readable(displacementChk(time)) => disk[displacementChk(time)] = <<Step>>
      BY <1>1, <1>2 DEF PreviousInv
    <3>2. displacementChk(time' - 1) = displacementChk(time)
      BY <2>1
    <3>3. readable(displacementChk(time - 1))' => disk'[displacementChk(time' - 1)] = <<Step'>>
      BY <1>1, <3>1, <3>2 DEF readable, exists, Calm
    <3>4. QED
      BY <1>6, <3>3 DEF PreviousInv, Resuming
  <2>9. TodoInv'
    BY <1>1, <1>6 DEF TodoInv, Stopped
  <2>10. QED
    BY <1>3, <2>2, <2>4, <2>5, <2>6, <2>7, <2>8, <2>9 DEF IInv
<1>7. QED
  BY <1>1, <1>5, <1>6

LEMMA AppendTrajectory ==
  ASSUME NEW s, NEW n \in Nat, n > 0, IsTrajectory(s, n - 1), NEW j \in Nat
  PROVE  /\ IsTrajectory(Append(s, j), n) /\ Append(s, j)[n] = j
BY DEF IsTrajectory

LEMMA velocityVerletKeeps == IInv /\ velocityVerlet => IInv'
<1> SUFFICES ASSUME IInv, velocityVerlet PROVE IInv'
  OBVIOUS
<1>1. /\ pc = "solve" /\ pc' = "density" /\ Calm
      /\ todo' = <<write(rhoChk, Append(Step, job))>>
      /\ state' = [p \in Part |-> IF p = "thermostat" /\ thermostat = "NO_CONTROL" THEN <<>>
                                  ELSE Append(Step, job)]
      /\ start' = start /\ time' = time /\ thermostat' = thermostat
      /\ job' = job /\ recorded' = recorded
  BY DEF velocityVerlet, Done, goto, run, history, Calm
<1>2. TimeInv /\ PlaceInv /\ MemoryInv /\ DiskInv /\ AheadInv /\ ResumedInv /\ PreviousInv /\ TodoInv
  BY DEF IInv
<1>3. /\ DOMAIN state' = Part /\ \A p \in Read : state'[p] = Append(Step, job)
      /\ Step' = Append(Step, job)
      /\ NHC => state'["thermostat"] = Append(Step, job)
      /\ state'["displacement"] = Append(Step, job)
  BY <1>1 DEF Read, Part, Step, NHC
<1>4. IsTrajectory(Append(Step, job), time) /\ Append(Step, job)[time] = job
  <2>1. IsTrajectory(Step, time - 1)
    BY <1>1, <1>2 DEF MemoryInv, InStep
  <2>2. time > start
    BY <1>1, <1>2 DEF PlaceInv, InStep
  <2>3. job \in 1 .. MaxJobs /\ time \in Nat /\ start \in Nat
    BY <1>2 DEF TimeInv
  <2>4. job \in Nat /\ time > 0
    BY <2>2, <2>3, AboveIsPositive
  <2>5. QED
    BY <2>1, <2>3, <2>4, AppendTrajectory
<1>5. TimeInv'
  BY <1>1, <1>2 DEF TimeInv, PCs
<1>6. PlaceInv'
  BY <1>1, <1>2 DEF PlaceInv, Resuming, InStep, Stopped
<1>7. MemoryInv'
  BY <1>1, <1>3, <1>4, CalmFacts DEF MemoryInv
<1>8. DiskInv' /\ AheadInv'
  BY <1>1, <1>2, CalmDisk, CalmAhead DEF InStep
<1>9. ResumedInv'
  BY <1>1 DEF ResumedInv, Resuming
<1>10. PreviousInv'
  <2>1. readable(displacementChk(time - 1)) => disk[displacementChk(time - 1)] = <<Step>>
    BY <1>1, <1>2 DEF PreviousInv
  <2>2. readable(displacementChk(time - 1)) => read(displacementChk(time - 1)) = Step
    BY <2>1 DEF read
  <2>3. Append(Step, state'["displacement"][time]) = Step'
    BY <1>3, <1>4
  <2>4. QED
    BY <1>1, <2>2, <2>3, CalmFacts DEF PreviousInv, Resuming
<1>11. TodoInv'
  BY <1>1, <1>3 DEF TodoInv, Stopped
<1>12. QED
  BY <1>5, <1>6, <1>7, <1>8, <1>9, <1>10, <1>11 DEF IInv

LEMMA DensityExtrapolationKeeps == IInv /\ DensityExtrapolation => IInv'
<1> SUFFICES ASSUME IInv, DensityExtrapolation PROVE IInv'
  OBVIOUS
<1>1. /\ pc = "density" /\ pc' = "restartFiles" /\ todo' = <<>> /\ Calm
      /\ start' = start /\ time' = time /\ thermostat' = thermostat /\ state' = state
      /\ job' = job /\ recorded' = recorded /\ Step' = Step
  BY DEF DensityExtrapolation, Done, goto, run, history, Calm, Step
<1>2. TimeInv /\ PlaceInv /\ MemoryInv /\ DiskInv /\ AheadInv /\ ResumedInv /\ PreviousInv
  BY DEF IInv
<1>3. TimeInv'
  BY <1>1, <1>2 DEF TimeInv, PCs
<1>4. PlaceInv'
  BY <1>1, <1>2 DEF PlaceInv, Resuming, InStep, Stopped
<1>5. MemoryInv'
  BY <1>1, <1>2, CalmFacts DEF MemoryInv, Resuming, InStep
<1>6. DiskInv' /\ AheadInv'
  BY <1>1, <1>2, CalmDisk, CalmAhead DEF InStep
<1>7. ResumedInv'
  BY <1>1 DEF ResumedInv, Resuming
<1>8. PreviousInv'
  BY <1>1, <1>2, CalmFacts DEF PreviousInv, Resuming, Calm
<1>9. TodoInv'
  BY <1>1 DEF TodoInv, Stopped
<1>10. QED
  BY <1>3, <1>4, <1>5, <1>6, <1>7, <1>8, <1>9 DEF IInv

LEMMA writeRestartFileKeeps == IInv /\ writeRestartFile => IInv'
<1> SUFFICES ASSUME IInv, writeRestartFile PROVE IInv'
  OBVIOUS
<1>1. /\ pc = "restartFiles" /\ pc' = "thermostatFile" /\ todo' = RestartWrites /\ Calm
      /\ start' = start /\ time' = time /\ thermostat' = thermostat /\ state' = state
      /\ job' = job /\ recorded' = recorded /\ Step' = Step
  BY DEF writeRestartFile, Done, goto, run, memory, history, Calm, Step, RestartWrites
<1>2. TimeInv /\ PlaceInv /\ MemoryInv /\ DiskInv /\ AheadInv /\ ResumedInv /\ PreviousInv
  BY DEF IInv
<1>3. TimeInv'
  BY <1>1, <1>2 DEF TimeInv, PCs
<1>4. PlaceInv'
  BY <1>1, <1>2 DEF PlaceInv, Resuming, InStep, Stopped
<1>5. MemoryInv'
  BY <1>1, <1>2, CalmFacts DEF MemoryInv, Resuming, InStep
<1>6. DiskInv' /\ AheadInv'
  BY <1>1, <1>2, CalmDisk, CalmAhead DEF InStep
<1>7. ResumedInv'
  BY <1>1 DEF ResumedInv, Resuming
<1>8. PreviousInv'
  BY <1>1, <1>2, CalmFacts DEF PreviousInv, Resuming, Calm
<1>9. TodoInv'
  <2>1. WritingStep
    BY <1>1, <1>2, WritingStepFacts
  <2>2. RestartWrites' = RestartWrites
    <3>1. \A p : RestartFile(p)' = RestartFile(p)
      BY <1>1 DEF RestartFile
    <3>2. QED
      BY <1>1, <3>1 DEF RestartWrites
  <2>3. Rest(RestartWrites, 0) = RestartWrites
    BY <2>1, RestartWritesAre DEF WritingStep
  <2>4. Rest(RestartWrites, 0)' = RestartWrites
    BY <2>2, <2>3 DEF Rest
  <2>5. Written(0)'
    BY DEF Written
  <2>6. time > 1 => /\ ~exists(Key(time))
                    /\ ~NHC => ~exists(stepFile("displacement", time))
                               /\ ~exists(stepFile("unwrapped", time))
    <3>1. time > 1 => ~exists(Key(time))
      BY <1>1, <1>2 DEF AheadInv
    <3>2. time > 1 => StepOK(time)
      BY <1>2, <2>1 DEF DiskInv, WritingStep
    <3>3. QED
      BY <3>1, <3>2 DEF StepOK
  <2>7. Missing(0)'
    BY <1>1, <2>6, CalmFacts DEF Missing
  <2>8. 0 \in 0 .. Len(RestartWrites)
    BY <2>1, RestartWritesLen
  <2>9. (\E k \in 0 .. Len(RestartWrites) :
           todo = Rest(RestartWrites, k) /\ Written(k) /\ Missing(k))'
    BY <1>1, <2>2, <2>4, <2>5, <2>7, <2>8
  <2>10. QED
    BY <1>1, <2>9 DEF TodoInv, Stopped
<1>10. QED
  BY <1>3, <1>4, <1>5, <1>6, <1>7, <1>8, <1>9 DEF IInv

\* All the writes of writeRestartFile are done.
LEMMA AllWritten ==
  ASSUME WritingStep, todo = <<>>,
         \E k \in 0 .. Len(RestartWrites) :
           todo = Rest(RestartWrites, k) /\ Written(k) /\ Missing(k)
  PROVE  Written(9) /\ (NHC /\ time > 1 => ~exists(Key(time)))
<1>1. PICK k \in 0 .. Len(RestartWrites) :
        todo = Rest(RestartWrites, k) /\ Written(k) /\ Missing(k)
  OBVIOUS
<1>2. DOMAIN state = Part /\ (\A p \in Read : state[p] = Step) /\ time \in Nat
  BY DEF WritingStep
<1>3. Len(RestartWrites) = IF time > 1 THEN 9 ELSE 5
  BY <1>2, RestartWritesAre
<1>4. k = Len(RestartWrites)
  <2>1. Len(RestartWrites) \in Nat
    BY <1>3
  <2>2. QED
    BY <1>1, <2>1, RestFacts, Zenon
<1>5. CASE time > 1
  <2>1. k = 9
    BY <1>3, <1>4, <1>5
  <2>2. QED
    BY <1>1, <2>1 DEF Missing
<1>6. CASE ~(time > 1)
  <2>1. k = 5
    BY <1>3, <1>4, <1>6
  <2>2. Written(5)
    BY <1>1, <2>1
  <2>3. Written(9)
    BY <1>6, <2>2 DEF Written
  <2>4. QED
    BY <1>6, <2>3
<1>7. QED
  BY <1>5, <1>6

LEMMA ThermostatStart ==
  ASSUME todo' = Rest(ThermostatWrites, 0)', (time > 1 => ~exists(Key(time)))'
  PROVE  ThermostatLeft(0)'
BY DEF ThermostatLeft

LEMMA writeRestartNHCfileKeeps == IInv /\ writeRestartNHCfile => IInv'
<1> SUFFICES ASSUME IInv, writeRestartNHCfile PROVE IInv'
  OBVIOUS
<1>1. /\ pc = "thermostatFile" /\ todo = <<>> /\ pc' = "recorded" /\ Calm
      /\ todo' = IF NHC /\ Restartable THEN ThermostatWrites ELSE <<>>
      /\ start' = start /\ time' = time /\ thermostat' = thermostat /\ state' = state
      /\ job' = job /\ recorded' = recorded /\ Step' = Step
  BY DEF writeRestartNHCfile, Done, goto, run, memory, history, Calm, Step, ThermostatWrites, NHC,
     Restartable
<1>2. TimeInv /\ PlaceInv /\ MemoryInv /\ DiskInv /\ AheadInv /\ ResumedInv /\ PreviousInv /\ TodoInv
  BY DEF IInv
<1>3. TimeInv'
  BY <1>1, <1>2 DEF TimeInv, PCs
<1>4. PlaceInv'
  BY <1>1, <1>2 DEF PlaceInv, Resuming, InStep, Stopped
<1>5. MemoryInv'
  BY <1>1, <1>2, CalmFacts DEF MemoryInv, Resuming, InStep
<1>6. DiskInv' /\ AheadInv'
  BY <1>1, <1>2, CalmDisk, CalmAhead DEF InStep
<1>7. ResumedInv'
  BY <1>1 DEF ResumedInv, Resuming
<1>8. PreviousInv'
  BY <1>1, <1>2, CalmFacts DEF PreviousInv, Resuming, Calm
<1>9. TodoInv'
  <2>1. WritingStep
    BY <1>1, <1>2, WritingStepFacts
  <2>2. \E k \in 0 .. Len(RestartWrites) :
          todo = Rest(RestartWrites, k) /\ Written(k) /\ Missing(k)
    BY <1>1, <1>2 DEF TodoInv
  <2>3. Written(9) /\ (NHC /\ time > 1 => ~exists(Key(time)))
    BY <1>1, <2>1, <2>2, AllWritten
  <2>4. Written(9)'
    BY <1>1, <2>3 DEF Written, Holds, exists, Calm
  <2>5. NHC /\ time > 1 => ~exists(Key(time))'
    BY <1>1, <2>3, CalmFacts
  <2>6. CASE NHC /\ Restartable
    <3>1. ThermostatWrites' = ThermostatWrites
      BY <1>1 DEF ThermostatWrites
    <3>2. Rest(ThermostatWrites, 0)' = ThermostatWrites
      BY <3>1, ThermostatWritesAre DEF Rest
    <3>3. ThermostatLeft(0)'
      <4>1. todo' = Rest(ThermostatWrites, 0)'
        BY <1>1, <2>6, <3>2
      <4>2. (time > 1 => ~exists(Key(time)))'
        BY <1>1, <2>5, <2>6
      <4>3. QED
        BY <4>1, <4>2, ThermostatStart
    <3>4. (\E k \in 0 .. 2 : ThermostatLeft(k))'
      BY <3>3
    <3>5. QED
      BY <1>1, <2>4, <2>6, <3>4, CalmFacts DEF TodoInv, Stopped
  <2>7. CASE ~(NHC /\ Restartable)
    <3>1. NHC' = NHC /\ Restartable' = Restartable
      BY <1>1, CalmFacts
    <3>2. (NHC /\ time > 1 => ~exists(Key(time)))'
      BY <1>1, <2>5, <3>1
    <3>3. todo' = <<>>
      BY <1>1, <2>7
    <3>4. QED
      BY <1>1, <2>4, <2>7, <3>1, <3>2, <3>3 DEF TodoInv, Stopped
  <2>8. QED
    BY <2>6, <2>7
<1>10. QED
  BY <1>3, <1>4, <1>5, <1>6, <1>7, <1>8, <1>9 DEF IInv

\* When writeRestartNHCfile has returned, the step can be restarted, if any can.
LEMMA RecordedHasKey ==
  ASSUME NHC /\ Restartable => \E k \in 0 .. 2 : ThermostatLeft(k),
         Written(9), todo = <<>>, Restartable, time > 1
  PROVE  exists(Key(time))
<1>1. CASE NHC
  <2>1. PICK k \in 0 .. 2 : ThermostatLeft(k)
    BY <1>1
  <2>2. k = 2
    <3>1. todo = Rest(ThermostatWrites, k)
      BY <2>1 DEF ThermostatLeft
    <3>2. Len(ThermostatWrites) = 2 /\ Len(ThermostatWrites) \in Nat /\ k \in 0 .. Len(ThermostatWrites)
      BY ThermostatWritesAre
    <3>3. k = Len(ThermostatWrites)
      BY <3>1, <3>2, RestFacts, Zenon
    <3>4. QED
      BY <3>2, <3>3
  <2>3. QED
    BY <2>1, <2>2 DEF ThermostatLeft, Holds
<1>2. CASE ~NHC
  <2>1. Holds(stepFile("velocity", time), Step)
    BY DEF Written
  <2>2. QED
    BY <1>2, <2>1 DEF Key, Holds
<1>3. QED
  BY <1>1, <1>2

LEMMA writeTotalDisplacementFileKeeps == IInv /\ writeTotalDisplacementFile => IInv'
<1> SUFFICES ASSUME IInv, writeTotalDisplacementFile PROVE IInv'
  OBVIOUS
<1>1. /\ pc = "recorded" /\ todo = <<>> /\ Calm
      /\ recorded' = time
      /\ \/ pc' = "failed" /\ todo' = todo
         \/ /\ pc' = "stepDone" /\ readable(displacementChk(time - 1))
            /\ LET sum == Append(read(displacementChk(time - 1)), state["displacement"][time])
               IN  todo' = <<write(displacementChk(time), sum),
                             copy(totalDisplacementChk(time), totalDisplacementChk(time - 1)),
                             append(totalDisplacementChk(time), sum)>>
      /\ start' = start /\ time' = time /\ thermostat' = thermostat /\ state' = state
      /\ job' = job /\ Step' = Step
  BY DEF writeTotalDisplacementFile, Done, goto, run, memory, crashHistory, Calm, Step
<1>2. TimeInv /\ PlaceInv /\ MemoryInv /\ DiskInv /\ AheadInv /\ ResumedInv /\ PreviousInv /\ TodoInv
  BY DEF IInv
<1>3. WritingStep
  BY <1>1, <1>2, WritingStepFacts
<1>4. /\ Written(9)
      /\ NHC /\ Restartable => \E k \in 0 .. 2 : ThermostatLeft(k)
  BY <1>1, <1>2 DEF TodoInv
<1>5. TimeInv'
  BY <1>1, <1>2, <1>3 DEF TimeInv, PCs, WritingStep
<1>6. DiskInv'
  <2>1. NamesInv'
    <3>1. Holds(timeChk, time) /\ time >= time /\ time \in 1 .. Bound(job)
      BY <1>3, <1>4 DEF Written, WritingStep
    <3>2. NamesInv /\ read(timeChk) = time
      BY <1>2, <3>1 DEF DiskInv, Holds, read
    <3>3. QED
      BY <1>1, <3>1, <3>2, CalmFacts DEF NamesInv, Calm, Later
  <2>2. RecordedInv'
    BY <1>1, <1>3, <1>4, RecordedHasKey, CalmFacts DEF RecordedInv, WritingStep, Later
  <2>3. \A p \in Part, n \in StepNo : ContentOK(p, n)'
    BY <1>1, <1>2 DEF DiskInv, ContentOK, Calm, exists, readable, read, NHC
  <2>4. \A n \in Later : StepOK(n)'
    BY <1>1, <1>2 DEF DiskInv, StepOK, Calm, exists, readable, Key, NHC, Restartable, Needed
  <2>5. \A n \in Later : DisplacementOK(n)'
    BY <1>1, <1>2 DEF DiskInv, DisplacementOK, Calm, exists, readable, Key, NHC, Restartable
  <2>6. StepNo' = StepNo /\ Later' = Later
    BY DEF StepNo, Later
  <2>7. QED
    BY <2>1, <2>2, <2>3, <2>4, <2>5, <2>6 DEF DiskInv
<1>7. CASE pc' = "failed" /\ todo' = todo
  BY <1>1, <1>5, <1>6, <1>7, StoppedInv
<1>8. CASE pc' = "stepDone"
  <2>1. readable(displacementChk(time - 1))
        /\ Append(read(displacementChk(time - 1)), state["displacement"][time]) = Step
    BY <1>1, <1>2, <1>8 DEF PreviousInv
  <2>2. todo' = DisplacementWrites
    BY <1>1, <1>8, <2>1 DEF DisplacementWrites
  <2>3. PlaceInv'
    <3>1. recorded' <= time'
      BY <1>1, <1>3, NotMoreThanItself DEF WritingStep
    <3>2. QED
      BY <1>1, <1>2, <1>8, <3>1 DEF PlaceInv, Resuming, InStep, Stopped
  <2>4. MemoryInv'
    BY <1>1, <1>2, <1>8, CalmFacts DEF MemoryInv, Resuming, InStep
  <2>5. AheadInv'
    BY <1>1, <1>2, <1>8, CalmAhead DEF InStep
  <2>6. ResumedInv'
    BY <1>8 DEF ResumedInv, Resuming
  <2>7. PreviousInv'
    <3>1. ~exists(displacementChk(time))
      BY <1>1, <1>2 DEF AheadInv, InStep
    <3>2. QED
      BY <1>1, <1>8, <3>1, CalmFacts DEF PreviousInv, readable
  <2>8. TodoInv'
    <3>1. DisplacementWrites' = DisplacementWrites
      BY <1>1 DEF DisplacementWrites
    <3>2. Rest(DisplacementWrites, 0)' = DisplacementWrites
      BY <3>1, DisplacementWritesAre DEF Rest
    <3>3. (\E k \in 0 .. 3 : todo = Rest(DisplacementWrites, k))'
      <4>1. 0 \in 0 .. 3
        OBVIOUS
      <4>2. QED
        BY <2>2, <3>2, <4>1
    <3>4. Holds(stepFile("positions", time), Step)
      BY <1>4 DEF Written
    <3>5. Holds(stepFile("positions", time), Step)'
      BY <1>1, <3>4 DEF Holds, exists, Calm
    <3>6. QED
      BY <1>8, <3>3, <3>5 DEF TodoInv, Stopped
  <2>9. QED
    BY <1>5, <1>6, <2>3, <2>4, <2>5, <2>6, <2>7, <2>8 DEF IInv
<1>9. QED
  BY <1>1, <1>7, <1>8

LEMMA EndStepKeeps == IInv /\ EndStep => IInv'
<1> SUFFICES ASSUME IInv, EndStep PROVE IInv'
  OBVIOUS
<1>1. /\ pc = "stepDone" /\ pc' \in {"loop", "finished"} /\ todo' = <<>> /\ Calm
      /\ start' = start /\ time' = time /\ thermostat' = thermostat /\ state' = state
      /\ job' = job /\ recorded' = recorded /\ Step' = Step
  BY DEF EndStep, Done, run, memory, history, Calm, Step
<1>2. TimeInv /\ PlaceInv /\ MemoryInv /\ DiskInv /\ AheadInv /\ ResumedInv /\ PreviousInv
  BY DEF IInv
<1>3. TimeInv'
  BY <1>1, <1>2 DEF TimeInv, PCs
<1>4. PlaceInv'
  BY <1>1, <1>2 DEF PlaceInv, Resuming, InStep, Stopped
<1>5. MemoryInv'
  BY <1>1, <1>2, CalmFacts DEF MemoryInv, Resuming, InStep
<1>6. DiskInv' /\ AheadInv'
  BY <1>1, <1>2, CalmDisk, CalmAhead DEF InStep
<1>7. ResumedInv'
  BY <1>1 DEF ResumedInv, Resuming
<1>8. PreviousInv'
  BY <1>1, <1>2, CalmFacts DEF PreviousInv, Resuming, Calm
<1>9. TodoInv'
  BY <1>1 DEF TodoInv, Stopped
<1>10. QED
  BY <1>3, <1>4, <1>5, <1>6, <1>7, <1>8, <1>9 DEF IInv

\* checkRestart finds the newest step that can be restarted.
LEMMA FoundIsNewest ==
  ASSUME DiskInv, readable(mdDat), readable(timeChk), MaxStep \in Nat,
         Bound(job) <= MaxStep, Bound(job) \in Nat, recorded \in Nat,
         NEW found, found = checkRestart(read(timeChk)), found > 1
  PROVE  /\ found \in Later /\ found <= Bound(job) /\ exists(Key(found)) /\ Restartable
         /\ recorded <= found
         /\ \A n \in Later : n > found => ~exists(Key(n))
<1> DEFINE last == read(timeChk)
<1>1. /\ read(mdDat) = thermostat
      /\ last \in 1 .. Bound(job) /\ last >= recorded
      /\ \A n \in Later : exists(Key(n)) => n <= last
  <2>1. NamesInv
    BY DEF DiskInv
  <2>2. read(mdDat) = thermostat
    BY <2>1 DEF NamesInv, read
  <2>3. QED
    BY <2>1, <2>2 DEF NamesInv
<1> HIDE DEF last
<1>2. /\ found \in 2 .. last /\ HasRestartFiles(found)
      /\ \A u \in 2 .. last : HasRestartFiles(u) => u <= found
  BY <1>1, CheckRestart DEF last
<1>3. found \in Later /\ found <= Bound(job) /\ found \in Nat /\ last \in Nat
  BY <1>1, <1>2 DEF Later
<1>4. exists(Key(found))
  BY <1>1, <1>2 DEF HasRestartFiles, Key, NHC
<1>5. Restartable
  BY <1>3, <1>4 DEF DiskInv, StepOK
<1>6. \A n \in Later : exists(Key(n)) => HasRestartFiles(n) /\ n <= last /\ n \in 2 .. last
  <2> SUFFICES ASSUME NEW n \in Later, exists(Key(n))
               PROVE  HasRestartFiles(n) /\ n <= last /\ n \in 2 .. last
    OBVIOUS
  <2>1. HasRestartFiles(n)
    BY <1>1 DEF DiskInv, StepOK, HasRestartFiles, Key, NHC
  <2>2. n <= last /\ n \in Nat /\ n > 1
    BY <1>1, StepsAreNat, LaterIsAbove1
  <2>a. n \in 2 .. last
    BY <1>3, <2>2
  <2>3. QED
    BY <2>1, <2>2, <2>a
<1>7. \A n \in Later : exists(Key(n)) => n <= found
  BY <1>2, <1>6
<1>8. \A n \in Later : n > found => ~exists(Key(n))
  <2> SUFFICES ASSUME NEW n \in Later, n > found, exists(Key(n)) PROVE FALSE
    OBVIOUS
  <2>1. n <= found /\ n \in Nat /\ found \in Nat
    BY <1>3, <1>7, StepsAreNat
  <2>2. QED
    BY <2>1
<1>9. recorded <= found
  <2>1. CASE recorded > 1
    BY <1>5, <1>7, <2>1 DEF DiskInv, RecordedInv
  <2>2. CASE ~(recorded > 1)
    BY <1>3, <2>2
  <2>3. QED
    BY <2>1, <2>2
<1>10. QED
  BY <1>3, <1>4, <1>5, <1>8, <1>9

\* The disk of the next job.
LEMMA NextJobDisk ==
  ASSUME DiskInv, job \in 1 .. MaxJobs, job + 1 \in 1 .. MaxJobs, Calm, recorded' = recorded,
         job' = job + 1
  PROVE  DiskInv'
<1>1. Bound(job) \in Nat /\ Bound(job') \in Nat /\ Bound(job) <= Bound(job')
  <2>1. /\ Bound(job) \in Nat /\ Bound(job + 1) \in Nat
        /\ Bound(job + 1) = Bound((job + 1) - 1) + (NumberOfSteps - 1)
    BY BoundFacts
  <2>2. (job + 1) - 1 = job
    OBVIOUS
  <2>3. NumberOfSteps - 1 \in Nat
    BY BoundsAssumption
  <2>4. QED
    BY <2>1, <2>2, <2>3
<1>2. NamesInv'
  <2>1. NamesInv
    BY DEF DiskInv
  <2>2. \A n : n \in 1 .. Bound(job) => n \in 1 .. Bound(job')
    BY <1>1
  <2>3. QED
    BY <2>1, <2>2, CalmFacts DEF NamesInv, Calm, Later
<1>3. RecordedInv' /\ StepNo' = StepNo /\ Later' = Later
  <2>1. StepNo' = StepNo /\ Later' = Later
    BY DEF Later, StepNo
  <2>2. RecordedInv
    BY DEF DiskInv
  <2>3. QED
    BY <2>1, <2>2 DEF RecordedInv, Calm, exists, Key, NHC, Restartable
<1>4. \A p \in Part, n \in StepNo : ContentOK(p, n)'
  BY DEF DiskInv, ContentOK, Calm, exists, readable, read, NHC
<1>5. \A n \in Later : StepOK(n)'
  BY DEF DiskInv, StepOK, Calm, exists, readable, Key, NHC, Restartable, Needed
<1>6. \A n \in Later : DisplacementOK(n)'
  BY DEF DiskInv, DisplacementOK, Calm, exists, readable, Key, NHC, Restartable
<1>7. QED
  BY <1>2, <1>3, <1>4, <1>5, <1>6 DEF DiskInv

LEMMA RestartNumbers ==
  ASSUME TimeInv, job < MaxJobs
  PROVE  /\ job \in 1 .. MaxJobs /\ job + 1 \in 1 .. MaxJobs /\ (job + 1) - 1 = job
         /\ Bound(job) \in Nat /\ Bound(job) <= MaxStep /\ MaxStep \in Nat
         /\ start <= Bound(job) /\ NumberOfSteps - 1 \in Nat
         /\ \A n \in Nat : n <= n + (NumberOfSteps - 1)
<1>1. job \in 1 .. MaxJobs /\ MaxJobs \in Nat /\ NumberOfSteps - 1 \in Nat
  BY BoundsAssumption DEF TimeInv
<1>2. /\ Bound(job - 1) \in Nat /\ Bound(job) \in Nat /\ MaxStep \in Nat
      /\ Bound(job) = Bound(job - 1) + (NumberOfSteps - 1) /\ Bound(job) <= MaxStep
  BY <1>1, BoundFacts
<1>3. start \in Nat /\ start <= Bound(job - 1)
  BY DEF TimeInv
<1>4. QED
  BY <1>1, <1>2, <1>3

LEMMA RestartJobKeeps == IInv /\ RestartJob => IInv'
<1> SUFFICES ASSUME IInv, RestartJob PROVE IInv'
  OBVIOUS
<1>1. /\ pc \in {"down", "finished"} /\ (job < MaxJobs \/ pc = "down")
      /\ job' = job + 1 /\ todo' = todo /\ Calm /\ recorded' = recorded /\ thermostat' = thermostat
      /\ \/ /\ readable(mdDat) /\ readable(timeChk) /\ checkRestart(read(timeChk)) > 1
            /\ start' = checkRestart(read(timeChk)) /\ time' = start'
            /\ pc' = "restart"
         \/ pc' = "failed" /\ start' = start /\ time' = time
  BY DEF RestartJob, goto, Calm
<1>2. TimeInv /\ PlaceInv /\ MemoryInv /\ DiskInv /\ AheadInv /\ ResumedInv /\ PreviousInv /\ TodoInv
  BY DEF IInv
<1>3. job < MaxJobs /\ todo' = <<>>
  BY <1>1, <1>2 DEF TimeInv, TodoInv, Stopped
<1>4. /\ job \in 1 .. MaxJobs /\ job + 1 \in 1 .. MaxJobs /\ (job + 1) - 1 = job
      /\ Bound(job) \in Nat /\ Bound(job) <= MaxStep /\ MaxStep \in Nat
      /\ start <= Bound(job) /\ NumberOfSteps - 1 \in Nat
      /\ \A n \in Nat : n <= n + (NumberOfSteps - 1)
  BY <1>2, <1>3, RestartNumbers
<1>5. DiskInv'
  BY <1>1, <1>2, <1>4, NextJobDisk
<1>6. CASE pc' = "failed" /\ start' = start /\ time' = time
  <2>1. TimeInv'
    BY <1>1, <1>2, <1>4, <1>6 DEF TimeInv, PCs
  <2>2. QED
    BY <1>3, <1>5, <1>6, <2>1, StoppedInv
<1>7. CASE /\ readable(mdDat) /\ readable(timeChk) /\ checkRestart(read(timeChk)) > 1
           /\ start' = checkRestart(read(timeChk)) /\ time' = start'
           /\ pc' = "restart"
  <2>1. recorded \in Nat
    BY <1>2 DEF TimeInv
  <2>2. /\ start' \in Later /\ start' <= Bound(job) /\ exists(Key(start')) /\ Restartable
        /\ recorded <= start'
        /\ \A n \in Later : n > start' => ~exists(Key(n))
    BY <1>2, <1>4, <1>7, <2>1, FoundIsNewest
  <2>3. start' \in Nat /\ start' > 1 /\ start' >= 2 /\ start' <= start'
    <3>1. start' \in Nat /\ start' > 1
      BY <2>2, StepsAreNat, LaterIsAbove1
    <3>2. QED
      BY <3>1, TwoIsAboveOne, NotMoreThanItself
  <2>4. TimeInv'
    BY <1>1, <1>2, <1>4, <1>7, <2>2, <2>3 DEF TimeInv, PCs
  <2>5. PlaceInv'
    BY <1>1, <1>7, <2>2, <2>3 DEF PlaceInv, Resuming, InStep, Stopped
  <2>6. MemoryInv' /\ PreviousInv'
    BY <1>7 DEF MemoryInv, PreviousInv, Resuming, InStep
  <2>7. AheadInv'
    <3>1. \A n \in StepNo : n > start' => ~exists(displacementChk(n))
      <4> SUFFICES ASSUME NEW n \in StepNo, n > start', exists(displacementChk(n)) PROVE FALSE
        OBVIOUS
      <4>1. n \in Later
        BY <1>4, <2>3, AboveLater
      <4>2. exists(Key(n))
        BY <1>2, <2>2, <4>1 DEF DiskInv, DisplacementOK
      <4>3. QED
        BY <2>2, <4>1, <4>2
    <3>2. /\ \A n \in Later : n > start' => ~exists(Key(n))'
          /\ \A n \in StepNo : n > start' => ~exists(displacementChk(n))'
      BY <1>1, <2>2, <3>1 DEF Calm, exists, Key, NHC
    <3>3. Later' = Later /\ StepNo' = StepNo
      BY DEF Later, StepNo
    <3>4. QED
      BY <1>7, <3>2, <3>3 DEF AheadInv, InStep
  <2>8. ResumedInv'
    BY <1>1, <1>7, <2>2 DEF ResumedInv, Resuming, Calm, exists, Key, NHC
  <2>9. TodoInv'
    BY <1>3, <1>7 DEF TodoInv, Stopped
  <2>10. QED
    BY <1>5, <2>4, <2>5, <2>6, <2>7, <2>8, <2>9 DEF IInv
<1>8. QED
  BY <1>1, <1>6, <1>7

LEMMA InitialiseFromRestartFileKeeps == IInv /\ InitialiseFromRestartFile => IInv'
<1> SUFFICES ASSUME IInv, InitialiseFromRestartFile PROVE IInv'
  OBVIOUS
<1>1. /\ pc = "restart" /\ todo' = <<>> /\ Calm
      /\ \/ pc' = "failed"
         \/ /\ pc' = "firstSolve" /\ \A p \in Read : readable(stepFile(p, start))
            /\ state' = [p \in Part |-> IF p \in Read THEN read(stepFile(p, start)) ELSE <<>>]
      /\ start' = start /\ time' = time /\ thermostat' = thermostat
      /\ job' = job /\ recorded' = recorded
  BY DEF InitialiseFromRestartFile, Done, goto, run, history, Calm
<1>2. TimeInv /\ PlaceInv /\ MemoryInv /\ DiskInv /\ AheadInv /\ ResumedInv /\ PreviousInv /\ TodoInv
  BY DEF IInv
<1>3. TimeInv'
  BY <1>1, <1>2 DEF TimeInv, PCs
<1>4. DiskInv'
  BY <1>1, <1>2, CalmDisk
<1>5. CASE pc' = "failed"
  BY <1>1, <1>3, <1>4, <1>5, StoppedInv
<1>6. CASE pc' = "firstSolve"
  <2>1. start \in Nat /\ start >= 2 /\ time = start
    BY <1>1, <1>2 DEF TimeInv, PlaceInv
  <2>2. start > 0 /\ start # 0 /\ start \in Later /\ start \in StepNo
    <3>1. start > 0 /\ start > 1 /\ start # 0
      BY <2>1, TwoIsPositive
    <3>2. QED
      BY <1>2, <3>1, TimeInSteps
  <2>3. exists(Key(start))
    BY <1>1, <1>2, <2>2 DEF ResumedInv
  <2> DEFINE now == read(stepFile("positions", start))
  <2>4. /\ disk[stepFile("positions", start)] = <<now>> /\ IsTrajectory(now, start)
        /\ exists(stepFile("positions", start))
    <3>1. readable(stepFile("positions", start)) /\ ContentOK("positions", start)
      BY <1>1, <1>2, <1>6, <2>2 DEF DiskInv, Read, Part
    <3>2. QED
      BY <3>1 DEF ContentOK, readable
  <2>5. \A p \in Read : read(stepFile(p, start)) = now
    <3> SUFFICES ASSUME NEW p \in Read PROVE read(stepFile(p, start)) = now
      OBVIOUS
    <3>1. readable(stepFile(p, start)) /\ readable(stepFile("positions", start))
      BY <1>1, <1>6 DEF Read, Part
    <3>2. StepOK(start) /\ p \in Needed /\ "positions" \in Needed
      BY <1>2, <2>2 DEF DiskInv, Needed, Read, Part
    <3>3. disk[stepFile(p, start)] = disk[stepFile("positions", start)]
      BY <2>3, <3>1, <3>2 DEF StepOK
    <3>4. QED
      BY <3>3 DEF read
  <2> HIDE DEF now
  <2>6. DOMAIN state' = Part /\ (\A p \in Read : state'[p] = now) /\ Step' = now
    <3>1. state' = [p \in Part |-> IF p \in Read THEN read(stepFile(p, start)) ELSE <<>>]
      BY <1>1, <1>6
    <3>2. Read \subseteq Part /\ "positions" \in Read
      BY DEF Read, Part
    <3>3. QED
      BY <2>5, <3>1, <3>2 DEF Step
  <2>7. MemoryInv'
    BY <1>1, <1>6, <2>1, <2>2, <2>4, <2>6 DEF MemoryInv, Resuming
  <2>8. PlaceInv'
    BY <1>1, <1>2, <1>6 DEF PlaceInv, Resuming, InStep, Stopped
  <2>9. AheadInv'
    BY <1>1, <1>2, <1>6, CalmAhead DEF InStep
  <2>10. ResumedInv'
    BY <1>1, <1>6, <2>3, <2>4, <2>6 DEF ResumedInv, Resuming, Calm, exists, Holds, Key, NHC
  <2>11. PreviousInv'
    <3>1. readable(displacementChk(start)) =>
            disk[displacementChk(start)] = disk[stepFile("positions", start)]
      <4>1. DisplacementOK(start) /\ readable(stepFile("positions", start))
        BY <1>1, <1>2, <1>6, <2>2 DEF DiskInv, Read, Part
      <4>2. QED
        BY <4>1 DEF DisplacementOK, readable
    <3>2. readable(displacementChk(time)) => disk[displacementChk(time)] = <<now>>
      BY <2>1, <2>4, <3>1
    <3>3. QED
      BY <1>1, <1>6, <2>6, <3>2 DEF PreviousInv, Resuming, Calm, exists, readable
  <2>12. TodoInv'
    BY <1>1, <1>6 DEF TodoInv, Stopped
  <2>13. QED
    BY <1>3, <1>4, <2>7, <2>8, <2>9, <2>10, <2>11, <2>12 DEF IInv
<1>7. QED
  BY <1>1, <1>5, <1>6

LEMMA StutterKeeps == IInv /\ UNCHANGED vars => IInv'
<1> SUFFICES ASSUME IInv, UNCHANGED vars PROVE IInv'
  OBVIOUS
<1>1. /\ Still /\ Calm /\ todo' = todo /\ disk' = disk
      /\ pc' = pc /\ thermostat' = thermostat /\ start' = start /\ time' = time
      /\ state' = state /\ job' = job /\ recorded' = recorded
      /\ Step' = Step /\ NHC' = NHC
  BY DEF vars, Still, Calm, run, memory, history, Step, NHC
<1>2. TimeInv' /\ PlaceInv'
  BY <1>1 DEF IInv, TimeInv, PlaceInv
<1>3. MemoryInv'
  BY <1>1 DEF IInv, MemoryInv
<1>4. DiskInv'
  BY <1>1, CalmDisk DEF IInv
<1>5. Wrote
  BY <1>1 DEF Wrote
<1>6. AheadInv' /\ ResumedInv' /\ PreviousInv'
  BY <1>1, <1>5, WriteAhead, WriteResumed, WritePrevious DEF IInv
<1>7. TodoInv'
  <2>1. \A p : RestartFile(p)' = RestartFile(p)
    BY <1>1 DEF RestartFile
  <2>2. /\ RestartWrites' = RestartWrites /\ ThermostatWrites' = ThermostatWrites
        /\ DisplacementWrites' = DisplacementWrites /\ Step0Writes' = Step0Writes
    BY <1>1, <2>1 DEF RestartWrites, ThermostatWrites, DisplacementWrites, Step0Writes
  <2>3. \A k : /\ Rest(RestartWrites, k)' = Rest(RestartWrites, k)
               /\ Rest(ThermostatWrites, k)' = Rest(ThermostatWrites, k)
               /\ Rest(DisplacementWrites, k)' = Rest(DisplacementWrites, k)
               /\ Rest(Step0Writes, k)' = Rest(Step0Writes, k)
    BY <2>2 DEF Rest
  <2>4. /\ \A f : exists(f)' = exists(f)
        /\ \A f, v : Holds(f, v)' = Holds(f, v)
        /\ \A n : Key(n)' = Key(n)
        /\ Restartable' = Restartable
    BY <1>1 DEF exists, Holds, Key, NHC, Restartable
  <2>5. \A k : Written(k)' <=> Written(k)
    BY <1>1 DEF Written, Holds, exists
  <2>6. \A k : Missing(k)' <=> Missing(k)
    BY <1>1 DEF Missing, Key, NHC, exists
  <2>7. \A k : ThermostatLeft(k)' <=> ThermostatLeft(k)
    BY <1>1, <2>3 DEF ThermostatLeft, Holds, exists, Key, NHC
  <2>8. TodoInv
    BY DEF IInv
  <2>9. QED
    BY <1>1, <2>2, <2>3, <2>4, <2>5, <2>6, <2>7, <2>8 DEF TodoInv, Holds, exists, Key, NHC, Calm
<1>8. QED
  BY <1>2, <1>3, <1>4, <1>6, <1>7 DEF IInv

LEMMA InitHolds == Init => IInv
<1> SUFFICES ASSUME Init PROVE IInv
  OBVIOUS
<1>1. /\ pc = "new" /\ todo = <<>> /\ start = 0 /\ time = 0 /\ recorded = 0 /\ job = 1
      /\ thermostat \in {"NO_CONTROL", "NOSE_HOVER_CHAINS"}
      /\ state = [p \in Part |-> <<>>]
      /\ \A f : ~exists(f) /\ ~readable(f)
  BY ThermostatsAssumption DEF Init, exists, readable
<1>2. Step = <<>> /\ DOMAIN state = Part /\ \A p \in Part : state[p] = <<>>
  BY <1>1 DEF Step, Part
<1>3. TimeInv
  <2>1. /\ 1 \in 1 .. MaxJobs /\ 0 \in Nat /\ 0 <= Bound(1 - 1) /\ 0 <= 0
        /\ 0 <= 0 + (NumberOfSteps - 1)
    BY BoundsAssumption, BoundFacts
  <2>2. QED
    BY <1>1, <2>1 DEF TimeInv, PCs
<1>4. PlaceInv
  BY <1>1, NotMoreThanItself DEF PlaceInv, Resuming, InStep, Stopped
<1>5. MemoryInv
  <2>1. IsTrajectory(<<>>, 0)
    BY DEF IsTrajectory
  <2>2. QED
    BY <1>1, <1>2, <2>1 DEF MemoryInv, Resuming, InStep, Read, Part
<1>6. DiskInv
  <2>1. NamesInv
    BY <1>1 DEF NamesInv
  <2>2. \A p \in Part, n \in StepNo : ContentOK(p, n)
    BY <1>1 DEF ContentOK
  <2>3. \A n \in Later : StepOK(n) /\ DisplacementOK(n)
    BY <1>1 DEF StepOK, DisplacementOK
  <2>4. RecordedInv
    BY <1>1 DEF RecordedInv
  <2>5. QED
    BY <2>1, <2>2, <2>3, <2>4 DEF DiskInv
<1>7. AheadInv
  BY <1>1 DEF AheadInv
<1>8. ResumedInv /\ PreviousInv
  BY <1>1 DEF ResumedInv, PreviousInv, Resuming
<1>9. TodoInv
  BY <1>1 DEF TodoInv
<1>10. QED
  BY <1>3, <1>4, <1>5, <1>6, <1>7, <1>8, <1>9 DEF IInv

\* Every step keeps the invariant.
LEMMA NextKeeps == IInv /\ [Next]_vars => IInv'
<1> SUFFICES ASSUME IInv, [Next]_vars PROVE IInv'
  OBVIOUS
<1>1. CASE Write
  BY <1>1, WriteKeeps
<1>2. CASE WriteStep0
  BY <1>2, WriteStep0Keeps
<1>3. CASE FirstSolve
  BY <1>3, FirstSolveKeeps
<1>4. CASE FirstDensity
  BY <1>4, FirstDensityKeeps
<1>5. CASE CopyThermostat
  BY <1>5, CopyThermostatKeeps
<1>6. CASE ReadThermostat
  BY <1>6, ReadThermostatKeeps
<1>7. CASE StartStep
  BY <1>7, StartStepKeeps
<1>8. CASE velocityVerlet
  BY <1>8, velocityVerletKeeps
<1>9. CASE DensityExtrapolation
  BY <1>9, DensityExtrapolationKeeps
<1>10. CASE writeRestartFile
  BY <1>10, writeRestartFileKeeps
<1>11. CASE writeRestartNHCfile
  BY <1>11, writeRestartNHCfileKeeps
<1>12. CASE writeTotalDisplacementFile
  BY <1>12, writeTotalDisplacementFileKeeps
<1>13. CASE EndStep
  BY <1>13, EndStepKeeps
<1>14. CASE RestartJob
  BY <1>14, RestartJobKeeps
<1>15. CASE InitialiseFromRestartFile
  BY <1>15, InitialiseFromRestartFileKeeps
<1>16. CASE Crash
  BY <1>16, CrashKeeps
<1>17. CASE Terminated \/ UNCHANGED vars
  BY <1>17, StutterKeeps DEF Terminated
<1>18. QED
  BY <1>1, <1>2, <1>3, <1>4, <1>5, <1>6, <1>7, <1>8, <1>9, <1>10, <1>11, <1>12, <1>13, <1>14,
     <1>15, <1>16, <1>17 DEF Next, Work

-----------------------------------------------------------------------------
\* The inductive invariant holds in every state.
THEOREM Invariance == Spec => []IInv
<1>1. Init => IInv
  BY InitHolds
<1>2. IInv /\ [Next]_vars => IInv'
  BY NextKeeps
<1>3. QED
  BY <1>1, <1>2, PTL DEF Spec

\* Every file of a step holds a value of that step, and time.chk names a step that the jobs
\* can reach, for any number of steps, of jobs and of crashes.
THEOREM TypeCorrect == Spec => []TypeOK
<1>1. IInv => TypeOK
  <2> SUFFICES ASSUME IInv PROVE TypeOK
    OBVIOUS
  <2>1. TimeInv /\ DiskInv
    BY DEF IInv
  <2>2. pc \in PCs /\ job \in 1 .. MaxJobs
    BY <2>1 DEF TimeInv
  <2>3. 0 <= start /\ start <= time /\ time <= MaxStep
    BY <2>1, TimeNumbers
  <2>4. \A p \in Part, n \in 0 .. MaxStep :
          readable(stepFile(p, n)) =>
            Len(read(stepFile(p, n))) =
              (IF p = "thermostat" /\ thermostat = "NO_CONTROL" THEN 0 ELSE n)
    <3> SUFFICES ASSUME NEW p \in Part, NEW n \in 0 .. MaxStep, readable(stepFile(p, n))
                 PROVE  Len(read(stepFile(p, n))) =
                          (IF p = "thermostat" /\ thermostat = "NO_CONTROL" THEN 0 ELSE n)
      OBVIOUS
    <3>1. ContentOK(p, n)
      BY <2>1 DEF DiskInv, StepNo
    <3>2. thermostat = "NO_CONTROL" <=> ~NHC
      BY <2>1 DEF TimeInv, NHC
    <3>3. QED
      BY <3>1, <3>2 DEF ContentOK, IsTrajectory
  <2>5. readable(timeChk) => read(timeChk) \in 1 .. MaxStep
    <3>1. readable(timeChk) => read(timeChk) \in 1 .. Bound(job)
      BY <2>1 DEF DiskInv, NamesInv
    <3>2. Bound(job) \in Nat /\ MaxStep \in Nat /\ Bound(job) <= MaxStep
      BY <2>2, BoundFacts
    <3>3. QED
      BY <3>1, <3>2
  <2>6. QED
    BY <2>2, <2>3, <2>4, <2>5 DEF TypeOK
<1>2. QED
  BY <1>1, Invariance, PTL

\* A restarted job goes on with parts of the system that belong to one step and to one
\* trajectory, wherever the jobs before it crashed.
THEOREM RestartsFromOneState == Spec => []ResumesOneState
<1>1. IInv => ResumesOneState
  <2> SUFFICES ASSUME IInv, pc = "loop"
               PROVE  \A p \in Part \ (IF thermostat = "NO_CONTROL" THEN {"thermostat"} ELSE {}) :
                        state[p] = Step
    BY DEF ResumesOneState
  <2>1. (\A p \in Read : state[p] = Step) /\ (NHC => state["thermostat"] = Step)
    BY DEF IInv, MemoryInv, Resuming
  <2>2. thermostat = "NO_CONTROL" \/ NHC
    BY DEF IInv, TimeInv, NHC
  <2>3. QED
    BY <2>1, <2>2 DEF Read
<1>2. QED
  BY <1>1, Invariance, PTL

\* No crash makes a restart go back behind a step whose restart files were all written,
\* although time.chk names the step before the other files of it exist.
THEOREM KeepsRecordedSteps == Spec => []LosesNoRecordedStep
<1>1. IInv => LosesNoRecordedStep
  <2> SUFFICES ASSUME IInv, pc = "restart" PROVE start >= recorded
    BY DEF LosesNoRecordedStep
  <2>1. recorded <= time /\ time = start
    BY DEF IInv, PlaceInv, Stopped
  <2>2. start \in Nat /\ recorded \in Nat
    BY DEF IInv, TimeInv
  <2>3. QED
    BY <2>1, <2>2, AtLeast
<1>2. QED
  BY <1>1, Invariance, PTL

\* The displacements that are summed up from step to step follow the trajectory of the
\* restart files, although the jobs that wrote them may be different ones.
THEOREM DisplacementsAreOfTheTrajectory == Spec => []DisplacementsFollowTrajectory
<1>1. IInv => DisplacementsFollowTrajectory
  BY DEF IInv, DiskInv, DisplacementOK, DisplacementsFollowTrajectory, Later, readable, read
<1>2. QED
  BY <1>1, Invariance, PTL

-----------------------------------------------------------------------------
\* The density on disk.  From the solve of a step until time.chk names the step,
\* the density is that of a step which no restart takes for the last one.
Between == {"density", "restartFiles", "thermostatFile"}

\* The density belongs to the positions of step n.
Agree(n) ==
  readable(rhoChk) /\ readable(stepFile("positions", n)) =>
    disk[rhoChk] = disk[stepFile("positions", n)]

\* time.chk names a complete step only if the density is that of the step, unless
\* a crash has come in between.
NamedInv ==
  ~unnamed /\ (pc \in Between => Holds(timeChk, time)) =>
    \A n \in Later : Holds(timeChk, n) /\ exists(Key(n)) => Agree(n)

\* The density of the current step has been saved before its files are written.
DensitySavedInv ==
  (pc = "density" /\ todo = <<>>) \/ pc \in {"restartFiles", "thermostatFile", "recorded"} =>
    Holds(rhoChk, Step)

\* A job loads the density only if it restarts from the step that time.chk names.
LoadsInv ==
  scfRestart => pc # "new" /\ (pc \in {"restart", "firstSolve"} => Holds(timeChk, start))

\* The densities in memory are those of the last two steps; of the last one only,
\* if the job has just begun.  A solve appends a step that they do not have yet.
OfLastTwo(n) ==
  IF n = start THEN densities.tmin2 = SubSeq(Step, 1, n)
  ELSE densities.tmin1 = SubSeq(Step, 1, n) /\ densities.tmin2 = SubSeq(Step, 1, n - 1)

DensitiesInv ==
  /\ DOMAIN densities = {"tmin2", "tmin1"}
  /\ pc \in {"thermostat", "readThermostat", "loop", "restartFiles", "thermostatFile", "recorded",
             "stepDone"} => OfLastTwo(time)
  /\ pc \in {"solve", "density"} => OfLastTwo(time - 1)

RhoInv == NamedInv /\ DensitySavedInv /\ LoadsInv /\ DensitiesInv

\* What NamedInv says, wherever the job is.
NamedIsSaved == \A n \in Later : Holds(timeChk, n) /\ exists(Key(n)) => Agree(n)

\* The files that NamedInv is about.
Watched(f) == f \in {timeChk, rhoChk} \/ \E p \in Part, n \in Later : f = stepFile(p, n)

LEMMA NamedKept ==
  ASSUME NamedIsSaved, Kept, \A f : Watched(f) => FileStays(f)
  PROVE  NamedIsSaved'
<1> SUFFICES ASSUME NEW n \in Later, (Holds(timeChk, n) /\ exists(Key(n)))', readable(rhoChk)',
                    readable(stepFile("positions", n))'
             PROVE  disk'[rhoChk] = disk'[stepFile("positions", n)]
  BY DEF NamedIsSaved, Agree, Later
<1>1. Key(n)' = Key(n)
  BY DEF Kept, Key, NHC
<1>2. FileStays(timeChk) /\ FileStays(rhoChk) /\ FileStays(Key(n))
      /\ FileStays(stepFile("positions", n))
  BY KeyIs DEF Watched, Part
<1>3. Holds(timeChk, n) /\ exists(Key(n)) /\ readable(rhoChk) /\ readable(stepFile("positions", n))
  BY <1>1, <1>2 DEF Holds, exists, readable, FileStays
<1>4. disk[rhoChk] = disk[stepFile("positions", n)]
  BY <1>3 DEF NamedIsSaved, Agree
<1>5. QED
  BY <1>2, <1>3, <1>4 DEF FileStays, readable, exists

LEMMA FileKinds ==
  /\ rhoChk # timeChk
  /\ \A f : Watched(f) => /\ f # nhcChk
                          /\ \A m : f # displacementChk(m) /\ f # totalDisplacementChk(m)
  /\ \A p, n : stepFile(p, n) # rhoChk /\ stepFile(p, n) # timeChk
  /\ \A p, n, q, m : stepFile(p, n) = stepFile(q, m) => p = q /\ n = m
BY DEF Watched, rhoChk, timeChk, nhcChk, displacementChk, totalDisplacementChk, stepFile, Part

\* Writes of files that no restart goes by.
LEMMA OtherKeeps ==
  ASSUME NamedIsSaved, Kept, NEW f, disk' = disk \/ OnlyFile(f), ~Watched(f)
  PROVE  NamedIsSaved'
<1>1. \A g : Watched(g) => FileStays(g)
  BY DEF OnlyFile, FileStays
<1>2. QED
  BY <1>1, NamedKept

\* Once time.chk names the step in work, the density must be that of this step.
LEMMA NamesOne ==
  ASSUME NEW t, Holds2(timeChk, t), t \in Later /\ (exists(Key(t)) /\ readable(rhoChk)
           /\ readable(stepFile("positions", t)))' => disk'[rhoChk] = disk'[stepFile("positions", t)]
  PROVE  NamedIsSaved'
<1> SUFFICES ASSUME NEW n \in Later, (Holds(timeChk, n) /\ exists(Key(n)))', readable(rhoChk)',
                    readable(stepFile("positions", n))'
             PROVE  disk'[rhoChk] = disk'[stepFile("positions", n)]
  BY DEF NamedIsSaved, Agree, Later
<1>1. n = t
  BY DEF Holds, Holds2
<1>2. QED
  BY <1>1

\* The density is being saved: at the start of a job it is that of the step it
\* restarts from, later that of a step that is not complete.
LEMMA DensityKeeps ==
  ASSUME IInv, pc \notin Between => NamedIsSaved, Kept, todo # <<>>, Outcome(Head(todo)),
         pc \in {"firstDensity", "density"}, pc \in Between => Holds2(timeChk, time)
  PROVE  NamedIsSaved'
<1>1. TimeInv /\ PlaceInv /\ AheadInv /\ ResumedInv /\ TodoInv
  BY DEF IInv
<1>2. Head(todo) = write(rhoChk, Step)
  BY <1>1, OneWrite DEF TodoInv
<1>3. \/ disk' = disk
      \/ OnlyFile(rhoChk) /\ (readable(rhoChk)' => disk'[rhoChk] = <<Step>>)
  BY <1>2, WriteOutcome DEF readable, exists
<1>4. \A n : exists(Key(n))' <=> exists(Key(n))
  <2> TAKE n
  <2>1. Key(n)' = Key(n) /\ Key(n) # rhoChk
    BY KeyIs, FileKinds DEF Kept, Key, NHC
  <2>2. QED
    BY <1>3, <2>1 DEF OnlyFile, exists
<1>5. CASE pc = "density"
  <2>1. time \in Later => ~exists(Key(time))
    BY <1>1, <1>5, LaterIsAbove1 DEF AheadInv
  <2>2. Holds2(timeChk, time)
    BY <1>5 DEF Between
  <2>3. QED
    BY <1>4, <2>1, <2>2, NamesOne
<1>6. CASE pc = "firstDensity" /\ disk' # disk
  <2> SUFFICES ASSUME NEW n \in Later, (Holds(timeChk, n) /\ exists(Key(n)))', readable(rhoChk)',
                      readable(stepFile("positions", n))'
               PROVE  disk'[rhoChk] = disk'[stepFile("positions", n)]
    BY DEF NamedIsSaved, Agree, Later
  <2>1. exists(Key(n)) /\ timeChk # rhoChk
    BY <1>4, FileKinds
  <2>2. Holds(timeChk, n)
    BY <1>3, <2>1 DEF OnlyFile, Holds, exists
  <2>3. /\ time = start /\ start \in Nat /\ (start = 0 \/ start >= 2)
        /\ n \in Nat /\ n > 1 /\ ~(n > time)
    BY <1>1, <1>6, <2>1, StepsAreNat, LaterIsAbove1 DEF TimeInv, PlaceInv, Resuming, AheadInv
  <2>4. start > 0
    BY <2>3
  <2>5. exists(Key(start)) /\ Holds(stepFile("positions", start), Step)
    BY <1>1, <1>6, <2>4 DEF ResumedInv, Resuming
  <2>6. start \in Later
    BY <1>1, <2>3, TimeInSteps
  <2>7. readable(timeChk) /\ read(timeChk) = n
    BY <2>2 DEF Holds, readable, read, Empty
  <2>8. start <= n
    BY <2>5, <2>6, <2>7 DEF IInv, DiskInv, NamesInv
  <2>9. n = start
    BY <2>3, <2>8
  <2>10. disk'[stepFile("positions", start)] = <<Step>>
    BY <1>3, <1>6, <2>5, FileKinds DEF OnlyFile, Holds, exists
  <2>11. QED
    BY <1>3, <1>6, <2>9, <2>10
<1>7. CASE pc = "firstDensity" /\ disk' = disk
  BY <1>7, NamedKept DEF FileStays, Between
<1>8. QED
  BY <1>5, <1>6, <1>7

\* The files of a step are being written: when its key is there, its positions and
\* the density are.
LEMMA RestartFilesKeep ==
  ASSUME IInv, DensitySavedInv, Kept, todo # <<>>, Outcome(Head(todo)), pc = "thermostatFile",
         Holds2(timeChk, time), time' = time
  PROVE  NamedIsSaved'
<1>1. WritingStep /\ TodoInv /\ DiskInv
  BY WritingStepFacts DEF IInv
<1>2. PICK k \in 0 .. Len(RestartWrites) :
        todo = Rest(RestartWrites, k) /\ Written(k) /\ Missing(k)
  BY <1>1 DEF TodoInv
<1>3. k \in 0 .. Len(RestartWrites) - 1 /\ Head(todo) = RestartWrites[k + 1]
  BY <1>1, <1>2, RestHead, RestartWritesLen
<1>4. Key(time)' = Key(time) /\ Holds(rhoChk, Step)
  BY DEF Kept, Key, NHC, DensitySavedInv
<1>5. SUFFICES ASSUME time \in Later, exists(Key(time))', readable(stepFile("positions", time))'
               PROVE  disk'[rhoChk] = disk'[stepFile("positions", time)]
  BY NamesOne
<1>6. k \in {0, 1, 2, 3, 4} \/ (time > 1 /\ k \in {5, 6, 7, 8})
  BY <1>1, <1>3, RestartHeads
<1>7. PICK f, v : Head(todo) = write(f, v) /\ f # rhoChk
                  /\ (f = Key(time) => k = 5 /\ ~NHC) /\ (f = stepFile("positions", time) => k = 4)
  <2>1. \/ k = 0 /\ Head(todo) = write(mdDat, thermostat)
        \/ k = 1 /\ Head(todo) = write(timeChk, time)
        \/ k = 2 /\ Head(todo) = write(stepFile("kinetic", time), Step)
        \/ k = 3 /\ Head(todo) = write(domainChk(time), 0)
        \/ k = 4 /\ Head(todo) = write(stepFile("positions", time), Step)
        \/ k = 5 /\ Head(todo) = write(stepFile("velocity", time), Step)
        \/ k = 6 /\ Head(todo) = write(stepFile("displacement", time), Step)
        \/ k = 7 /\ Head(todo) = write(stepFile("unwrapped", time), Step)
        \/ k = 8 /\ Head(todo) = write(timeChk, time)
    BY <1>1, <1>3, RestartHeads
  <2>2. \A p, q, n : stepFile(p, time) = stepFile(q, n) => p = q
    BY FileKinds
  <2>3. \A p : {mdDat, timeChk, domainChk(time), rhoChk} \cap {stepFile(p, time)} = {}
        /\ rhoChk \notin {mdDat, timeChk, domainChk(time)}
    BY DEF mdDat, timeChk, domainChk, stepFile, rhoChk
  <2>4. Key(time) \in {stepFile("velocity", time), stepFile("thermostat", time)}
        /\ (Key(time) = stepFile("velocity", time) => ~NHC)
    BY <2>2 DEF Key
  <2>5. QED
    BY <2>1, <2>2, <2>3, <2>4
<1>8. disk' = disk \/ OnlyFile(f)
  BY <1>7, WriteOutcome
<1>9. time > 1
  BY <1>5, LaterIsAbove1
<1>10. k >= 5 /\ k # 4
  <2>1. k < 6 \/ NHC => ~exists(Key(time))
    BY <1>2, <1>9 DEF Missing
  <2>2. exists(Key(time)) \/ f = Key(time)
    BY <1>4, <1>5, <1>8 DEF OnlyFile, exists
  <2>3. exists(Key(time)) \/ k = 5
    BY <1>7, <2>2
  <2>4. CASE k = 5
    BY <2>4
  <2>5. CASE k # 5
    <3>1. ~(k < 6)
      BY <2>1, <2>3, <2>5
    <3>2. QED
      BY <1>6, <3>1
  <2>6. QED
    BY <2>4, <2>5
<1>11. Holds(stepFile("positions", time), Step) /\ f # stepFile("positions", time)
  BY <1>2, <1>7, <1>10 DEF Written
<1>12. disk'[rhoChk] = <<Step>> /\ disk'[stepFile("positions", time)] = <<Step>>
  BY <1>4, <1>7, <1>8, <1>11 DEF OnlyFile, Holds, exists
<1>13. QED
  BY <1>12

LEMMA ThermostatFilesKeep ==
  ASSUME IInv, DensitySavedInv, Kept, todo # <<>>, Outcome(Head(todo)), pc = "recorded"
  PROVE  NamedIsSaved'
<1>1. WritingStep /\ TodoInv
  BY WritingStepFacts DEF IInv
<1>2. Holds(timeChk, time) /\ Holds(stepFile("positions", time), Step) /\ Holds(rhoChk, Step)
  BY <1>1 DEF TodoInv, Written, DensitySavedInv
<1>3. PICK k \in 0 .. 2 : todo = Rest(ThermostatWrites, k)
  BY <1>1 DEF TodoInv, ThermostatLeft
<1>4. Head(todo) = write(nhcChk, state["thermostat"])
      \/ Head(todo) = copy(stepFile("thermostat", time), nhcChk)
  BY <1>3, ThermostatHeads
<1>5. disk' = disk \/ \E f \in {nhcChk, stepFile("thermostat", time)} : OnlyFile(f)
  BY <1>4, WriteOutcome, CopyOutcome
<1>6. {timeChk, rhoChk, stepFile("positions", time)} \cap {nhcChk, stepFile("thermostat", time)} = {}
  BY DEF timeChk, rhoChk, stepFile, nhcChk
<1>7. Holds2(timeChk, time) /\ disk'[stepFile("positions", time)] = <<Step>> /\ disk'[rhoChk] = <<Step>>
  BY <1>2, <1>5, <1>6 DEF OnlyFile, Holds, Holds2, exists
<1>8. QED
  BY <1>7, NamesOne

\* Any write, finished or cut short.
LEMMA OutcomeNamed ==
  ASSUME IInv, NamedInv, DensitySavedInv, ~unnamed, Kept, todo # <<>>, Outcome(Head(todo)),
         pc \in Between => Holds2(timeChk, time), time' = time
  PROVE  NamedIsSaved'
<1>1. TimeInv /\ TodoInv
  BY DEF IInv
<1>2. pc \notin Between => NamedIsSaved
  BY DEF NamedInv, NamedIsSaved
<1>3. pc \in Writing
  BY <1>1, WritingWhere
<1>4. CASE pc = "firstSolve"
  <2>1. \E k \in 0 .. 2 : todo = Rest(Step0Writes, k)
    BY <1>1, <1>4 DEF TodoInv
  <2>2. Head(todo) = write(displacementChk(0), <<>>) \/ Head(todo) = write(totalDisplacementChk(0), <<>>)
    BY <2>1, Step0Heads
  <2>3. \E f \in {displacementChk(0), totalDisplacementChk(0)} : disk' = disk \/ OnlyFile(f)
    BY <2>2, WriteOutcome
  <2>4. QED
    BY <1>2, <1>4, <2>3, FileKinds, OtherKeeps DEF Between
<1>5. CASE pc = "readThermostat"
  <2>1. Head(todo) = copy(nhcChk, stepFile("thermostat", start))
    BY <1>1, <1>5, OneWrite DEF TodoInv
  <2>2. disk' = disk \/ OnlyFile(nhcChk)
    BY <2>1, CopyOutcome
  <2>3. QED
    BY <1>2, <1>5, <2>2, FileKinds, OtherKeeps DEF Between
<1>6. CASE pc = "stepDone"
  <2>1. PICK k \in 0 .. 3 : todo = Rest(DisplacementWrites, k)
    BY <1>1, <1>6 DEF TodoInv
  <2>2. \/ Head(todo) = write(displacementChk(time), Step)
        \/ Head(todo) = copy(totalDisplacementChk(time), totalDisplacementChk(time - 1))
        \/ Head(todo) = append(totalDisplacementChk(time), Step)
    BY <2>1, DisplacementHeads
  <2>3. \E f \in {displacementChk(time), totalDisplacementChk(time)} : disk' = disk \/ OnlyFile(f)
    BY <2>2, WriteOutcome, CopyOutcome, AppendOutcome
  <2>4. QED
    BY <1>2, <1>6, <2>3, FileKinds, OtherKeeps DEF Between
<1>7. CASE pc \in {"firstDensity", "density"}
  BY <1>2, <1>7, DensityKeeps
<1>8. CASE pc = "thermostatFile"
  BY <1>8, RestartFilesKeep DEF Between
<1>9. CASE pc = "recorded"
  BY <1>9, ThermostatFilesKeep
<1>10. QED
  BY <1>3, <1>4, <1>5, <1>6, <1>7, <1>8, <1>9 DEF Writing

-----------------------------------------------------------------------------
\* The parts of RhoInv, one after the other.  A step that leaves the disk alone
\* reaches the critical part of a step only in velocityVerlet, when the step has no
\* key, and leaves it only when time.chk names the step.
LEMMA CalmNamed ==
  ASSUME NamedInv, Calm, job' = job, recorded' = recorded, unnamed' = unnamed,
         pc \in Between => (pc' \in Between /\ time' = time) \/ Holds(timeChk, time)
  PROVE  NamedInv'
<1> SUFFICES ASSUME ~unnamed, (pc' \in Between => Holds(timeChk, time)')
             PROVE  NamedIsSaved'
  BY DEF NamedInv, NamedIsSaved
<1>1. pc \in Between => Holds(timeChk, time)
  BY DEF Calm, Holds, exists
<1>2. NamedIsSaved
  BY <1>1 DEF NamedInv, NamedIsSaved
<1>3. QED
  BY <1>2, NamedKept DEF Calm, Kept, FileStays

LEMMA StepNamed == IInv /\ NamedInv /\ DensitySavedInv /\ [Next]_vars => NamedInv'
<1> SUFFICES ASSUME IInv, NamedInv, DensitySavedInv, [Next]_vars PROVE NamedInv'
  OBVIOUS
<1> USE DEF vars, run, history, crashHistory, goto, Done
<1>1. CASE Write
  <2>1. todo # <<>> /\ Outcome(Head(todo)) /\ Kept /\ time' = time /\ unnamed' = unnamed /\ pc' = pc
    BY <1>1 DEF Write, Outcome, Kept
  <2>2. Holds(timeChk, time)' <=> Holds2(timeChk, time)
    BY <2>1 DEF Holds, Holds2, exists
  <2>3. ~unnamed /\ (pc \in Between => Holds2(timeChk, time)) => NamedIsSaved'
    BY <2>1, OutcomeNamed
  <2>4. QED
    BY <2>1, <2>2, <2>3 DEF NamedInv, NamedIsSaved
<1>2. CASE Crash
  <2>1. /\ Kept /\ time' = time /\ pc' = "down"
        /\ ~unnamed' => ~unnamed /\ (pc \in Between => Holds2(timeChk, time))
        /\ todo = <<>> => disk' = disk
        /\ todo # <<>> => Outcome(Head(todo))
    BY <1>2 DEF Crash, Outcome, Kept, Unnamed, Between, Holds2
  <2>2. CASE todo = <<>>
    <3>1. ~unnamed' => NamedIsSaved
      BY <2>1, <2>2 DEF NamedInv, NamedIsSaved, Holds2, Holds, exists
    <3>2. NamedIsSaved => NamedIsSaved'
      BY <2>1, <2>2, NamedKept DEF FileStays
    <3>3. QED
      BY <3>1, <3>2 DEF NamedInv, NamedIsSaved
  <2>3. CASE todo # <<>>
    <3>1. ~unnamed' => NamedIsSaved'
      BY <2>1, <2>3, OutcomeNamed
    <3>2. QED
      BY <3>1 DEF NamedInv, NamedIsSaved
  <2>4. QED
    BY <2>2, <2>3
<1>3. CASE velocityVerlet
  <2>1. /\ pc = "solve" /\ disk' = disk /\ thermostat' = thermostat /\ time' = time
    BY <1>3 DEF velocityVerlet
  <2>2. time \in Later => ~exists(Key(time))
    BY <2>1, LaterIsAbove1 DEF IInv, AheadInv
  <2>3. ASSUME Holds(timeChk, time)' PROVE NamedIsSaved'
    <3>1. Holds2(timeChk, time)
      BY <2>1, <2>3 DEF Holds, Holds2, exists
    <3>2. PICK t : t = time
      OBVIOUS
    <3>3. t \in Later => ~exists(Key(t))'
      BY <2>1, <2>2, <3>2 DEF exists, Key, NHC
    <3>4. QED
      BY <3>1, <3>2, <3>3, NamesOne
  <2>4. pc' \in Between
    BY <1>3 DEF velocityVerlet, Between
  <2>5. QED
    BY <2>3, <2>4 DEF NamedInv, NamedIsSaved
<1>4. CASE writeRestartNHCfile
  <2>1. pc = "thermostatFile" /\ todo = <<>> /\ Calm /\ job' = job /\ recorded' = recorded /\ unnamed' = unnamed
    BY <1>4 DEF writeRestartNHCfile, Calm
  <2>2. WritingStep
    BY <2>1, WritingStepFacts DEF IInv
  <2>3. Written(9)
    BY <2>1, <2>2, AllWritten DEF IInv, TodoInv
  <2>4. Holds(timeChk, time)
    BY <2>3 DEF Written
  <2>5. QED
    BY <2>1, <2>4, CalmNamed
<1>5. CASE WriteStep0 \/ FirstSolve \/ FirstDensity \/ CopyThermostat \/ ReadThermostat \/ StartStep
           \/ EndStep \/ InitialiseFromRestartFile
  <2>1. Calm /\ job' = job /\ recorded' = recorded /\ unnamed' = unnamed /\ pc \notin Between
    BY <1>5 DEF WriteStep0, FirstSolve, FirstDensity, CopyThermostat, ReadThermostat, StartStep,
       EndStep, InitialiseFromRestartFile, Calm, Between
  <2>2. QED
    BY <2>1, CalmNamed
<1>6. CASE DensityExtrapolation \/ writeRestartFile
  <2>1. Calm /\ job' = job /\ recorded' = recorded /\ unnamed' = unnamed /\ pc' \in Between /\ time' = time
    BY <1>6 DEF DensityExtrapolation, writeRestartFile, Calm, Between
  <2>2. QED
    BY <2>1, CalmNamed
<1>7. CASE writeTotalDisplacementFile \/ RestartJob
  <2>1. disk' = disk /\ thermostat' = thermostat /\ unnamed' = unnamed /\ pc \notin Between
    BY <1>7 DEF writeTotalDisplacementFile, RestartJob, Between
  <2>2. QED
    BY <2>1 DEF NamedInv, Agree, Holds, exists, readable, Key, NHC, Later
<1>8. CASE Terminated \/ UNCHANGED vars
  <2>1. Calm /\ job' = job /\ recorded' = recorded /\ unnamed' = unnamed /\ pc' = pc /\ time' = time
    BY <1>8 DEF Terminated, memory, Calm
  <2>2. QED
    BY <2>1, CalmNamed
<1>9. QED
  BY <1>1, <1>2, <1>3, <1>4, <1>5, <1>6, <1>7, <1>8 DEF Next, Work

\* No write of a job but the save of a density touches the density.
LEMMA DensityStays ==
  ASSUME IInv, todo # <<>>, disk' = After(Head(todo)),
         pc \in {"thermostatFile", "recorded"}, Holds(rhoChk, Step)
  PROVE  Holds2(rhoChk, Step)
<1>1. WritingStep /\ TodoInv
  BY WritingStepFacts DEF IInv
<1>2. \E f : f # rhoChk /\ (disk' = disk \/ OnlyFile(f))
  <2>1. CASE pc = "thermostatFile"
    <3>1. PICK k \in 0 .. Len(RestartWrites) : todo = Rest(RestartWrites, k)
      BY <1>1, <2>1 DEF TodoInv
    <3>2. k \in 0 .. Len(RestartWrites) - 1 /\ Head(todo) = RestartWrites[k + 1]
      BY <1>1, <3>1, RestHead, RestartWritesLen
    <3>3. \E f \in {mdDat, timeChk, domainChk(time)} \cup {stepFile(p, time) : p \in Part} :
            \E v : Head(todo) = write(f, v)
      BY <1>1, <3>2, RestartHeads DEF Part
    <3>4. rhoChk \notin {mdDat, timeChk, domainChk(time)} \cup {stepFile(p, time) : p \in Part}
      BY DEF rhoChk, mdDat, timeChk, domainChk, stepFile
    <3>5. QED
      BY <3>3, <3>4, WriteDone
  <2>2. CASE pc = "recorded"
    <3>1. PICK k \in 0 .. 2 : todo = Rest(ThermostatWrites, k)
      BY <1>1, <2>2 DEF TodoInv, ThermostatLeft
    <3>2. Head(todo) = write(nhcChk, state["thermostat"])
          \/ Head(todo) = copy(stepFile("thermostat", time), nhcChk)
      BY <3>1, ThermostatHeads
    <3>3. rhoChk \notin {nhcChk, stepFile("thermostat", time)}
      BY DEF rhoChk, nhcChk, stepFile
    <3>4. QED
      BY <3>2, <3>3, WriteDone, CopyDone
  <2>3. QED
    BY <2>1, <2>2
<1>3. QED
  BY <1>2 DEF OnlyFile, Holds, Holds2, exists

LEMMA StepDensitySaved == IInv /\ DensitySavedInv /\ [Next]_vars => DensitySavedInv'
<1> SUFFICES ASSUME IInv, DensitySavedInv, [Next]_vars PROVE DensitySavedInv'
  OBVIOUS
<1> USE DEF vars, run, history, crashHistory, memory, goto, Done
<1>1. CASE Write
  <2>1. /\ todo # <<>> /\ disk' = After(Head(todo)) /\ todo' = Tail(todo) /\ pc' = pc /\ Step' = Step
    BY <1>1 DEF Write, Step
  <2>2. CASE pc = "density"
    <3>1. Head(todo) = write(rhoChk, Step)
      BY <2>1, <2>2, OneWrite DEF IInv, TodoInv
    <3>2. QED
      BY <2>1, <2>2, <3>1, WriteDone DEF DensitySavedInv, Holds, exists
  <2>3. CASE pc = "restartFiles"
    BY <2>1, <2>3 DEF IInv, TodoInv
  <2>4. CASE pc \in {"thermostatFile", "recorded"}
    BY <2>1, <2>4, DensityStays DEF DensitySavedInv, Holds, Holds2, exists
  <2>5. QED
    BY <2>1, <2>2, <2>3, <2>4 DEF DensitySavedInv
<1>2. CASE WriteStep0 \/ FirstSolve \/ FirstDensity \/ CopyThermostat \/ ReadThermostat \/ StartStep
           \/ writeTotalDisplacementFile \/ EndStep \/ RestartJob \/ InitialiseFromRestartFile \/ Crash
  BY <1>2 DEF DensitySavedInv, WriteStep0, FirstSolve, FirstDensity, CopyThermostat, ReadThermostat,
     StartStep, writeTotalDisplacementFile, EndStep, RestartJob, InitialiseFromRestartFile, Crash
<1>3. CASE velocityVerlet
  BY <1>3 DEF DensitySavedInv, velocityVerlet
<1>4. CASE DensityExtrapolation \/ writeRestartFile \/ writeRestartNHCfile
  <2>1. disk' = disk /\ Step' = Step /\ Holds(rhoChk, Step)
    BY <1>4 DEF DensitySavedInv, DensityExtrapolation, writeRestartFile, writeRestartNHCfile, Step
  <2>2. QED
    BY <2>1 DEF DensitySavedInv, Holds, exists
<1>5. CASE Terminated \/ UNCHANGED vars
  BY <1>5 DEF DensitySavedInv, Terminated, Holds, exists, Step
<1>6. QED
  BY <1>1, <1>2, <1>3, <1>4, <1>5 DEF Next, Work

LEMMA StepLoads == IInv /\ LoadsInv /\ [Next]_vars => LoadsInv'
<1> SUFFICES ASSUME IInv, LoadsInv, [Next]_vars PROVE LoadsInv'
  OBVIOUS
<1> USE DEF vars, run, history, crashHistory, memory, goto, Done
<1>1. CASE Write
  <2>1. /\ todo # <<>> /\ disk' = After(Head(todo)) /\ pc' = pc /\ start' = start
        /\ scfRestart' = scfRestart
    BY <1>1 DEF Write
  <2>2. CASE pc = "firstSolve"
    <3>1. \E k \in 0 .. 2 : todo = Rest(Step0Writes, k)
      BY <2>1, <2>2 DEF IInv, TodoInv
    <3>2. \E f \in {displacementChk(0), totalDisplacementChk(0)} : \E v : Head(todo) = write(f, v)
      BY <2>1, <3>1, Step0Heads
    <3>3. \E f : f # timeChk /\ OnlyFile(f)
      BY <2>1, <3>2, FileKinds, WriteDone DEF Watched
    <3>4. QED
      BY <2>1, <3>3 DEF LoadsInv, OnlyFile, Holds, exists
  <2>3. CASE pc = "restart"
    BY <2>1, <2>3 DEF IInv, TodoInv
  <2>4. QED
    BY <2>1, <2>2, <2>3 DEF LoadsInv
<1>2. CASE WriteStep0
  <2>1. pc = "new" /\ start = 0 /\ disk' = disk /\ start' = start /\ scfRestart' = scfRestart
        /\ ~scfRestart
    BY <1>2 DEF WriteStep0, LoadsInv, IInv, PlaceInv
  <2>2. QED
    BY <2>1 DEF LoadsInv, Holds, exists
<1>3. CASE RestartJob
  <2>0. pc' # "new" /\ pc # "new"
    BY <1>3 DEF RestartJob
  <2>1. pc' = "restart" => /\ disk' = disk /\ start' = checkRestart(read(timeChk)) /\ readable(timeChk)
                           /\ (scfRestart' => start' = read(timeChk))
    BY <1>3 DEF RestartJob, isScfRestart
  <2>2. readable(timeChk) => disk[timeChk] = <<read(timeChk)>>
    BY DEF IInv, DiskInv, NamesInv
  <2>3. pc' # "firstSolve"
    BY <1>3 DEF RestartJob
  <2>4. QED
    BY <2>0, <2>1, <2>2, <2>3 DEF LoadsInv, Holds, readable, exists
<1>4. CASE InitialiseFromRestartFile \/ Terminated \/ UNCHANGED vars
  BY <1>4 DEF LoadsInv, InitialiseFromRestartFile, Terminated, Holds, exists
<1>5. CASE FirstSolve \/ FirstDensity \/ CopyThermostat \/ ReadThermostat \/ StartStep
           \/ velocityVerlet \/ DensityExtrapolation \/ writeRestartFile \/ writeRestartNHCfile
           \/ writeTotalDisplacementFile \/ EndStep \/ Crash
  BY <1>5 DEF LoadsInv, FirstSolve, FirstDensity, CopyThermostat, ReadThermostat, StartStep,
     velocityVerlet, DensityExtrapolation, writeRestartFile, writeRestartNHCfile,
     writeTotalDisplacementFile, EndStep, Crash
<1>6. QED
  BY <1>1, <1>2, <1>3, <1>4, <1>5 DEF Next, Work

\* Prefixes of a trajectory and of the one that is a step longer.
LEMMA Prefixes ==
  ASSUME NEW s, NEW n \in Nat, IsTrajectory(s, n), NEW j \in Nat
  PROVE  /\ SubSeq(s, 1, n) = s
         /\ \A m \in 0 .. n : SubSeq(Append(s, j), 1, m) = SubSeq(s, 1, m)
<1>1. s \in Seq(Nat) /\ Len(s) = n /\ Append(s, j) \in Seq(Nat) /\ Len(Append(s, j)) = n + 1
  BY DEF IsTrajectory
<1>2. SubSeq(s, 1, n) = s
  BY <1>1
<1>3. ASSUME NEW m \in 0 .. n PROVE SubSeq(Append(s, j), 1, m) = SubSeq(s, 1, m)
  <2>1. /\ Len(SubSeq(s, 1, m)) = m /\ SubSeq(s, 1, m) \in Seq(Nat)
        /\ \A i \in 1 .. m : SubSeq(s, 1, m)[i] = s[i]
    BY <1>1
  <2>2. /\ Len(SubSeq(Append(s, j), 1, m)) = m /\ SubSeq(Append(s, j), 1, m) \in Seq(Nat)
        /\ \A i \in 1 .. m : SubSeq(Append(s, j), 1, m)[i] = s[i]
    BY <1>1
  <2>3. /\ Len(SubSeq(Append(s, j), 1, m)) = Len(SubSeq(s, 1, m))
        /\ \A i \in 1 .. Len(SubSeq(Append(s, j), 1, m)) : SubSeq(Append(s, j), 1, m)[i] = SubSeq(s, 1, m)[i]
    BY <2>1, <2>2
  <2>4. QED
    BY <2>1, <2>2, <2>3, SeqEqual
<1>4. QED
  BY <1>2, <1>3

LEMMA StepDensities == IInv /\ DensitiesInv /\ [Next]_vars => DensitiesInv'
<1> SUFFICES ASSUME IInv, DensitiesInv, [Next]_vars PROVE DensitiesInv'
  OBVIOUS
<1> USE DEF vars, run, history, crashHistory, memory, goto, Done
<1>a. TimeInv /\ PlaceInv /\ MemoryInv
  BY DEF IInv
<1>1. CASE Write \/ CopyThermostat \/ writeRestartFile \/ writeRestartNHCfile
           \/ writeTotalDisplacementFile \/ EndStep \/ Terminated \/ UNCHANGED vars
  <2>1. /\ Step' = Step /\ densities' = densities /\ start' = start /\ time' = time
        /\ \/ pc' = pc
           \/ pc = "thermostat" /\ pc' = "readThermostat"
           \/ pc \in {"restartFiles", "thermostatFile", "recorded", "stepDone"}
                /\ pc' \in {"thermostatFile", "recorded", "stepDone", "failed", "loop", "finished"}
    BY <1>1 DEF Write, CopyThermostat, writeRestartFile, writeRestartNHCfile,
       writeTotalDisplacementFile, EndStep, Terminated, Step
  <2>2. QED
    BY <2>1 DEF DensitiesInv, OfLastTwo
<1>2. CASE WriteStep0 \/ FirstSolve \/ RestartJob \/ InitialiseFromRestartFile \/ Crash
  BY <1>2 DEF DensitiesInv, WriteStep0, FirstSolve, RestartJob, InitialiseFromRestartFile, Crash
<1>3. CASE FirstDensity
  <2>1. /\ pc = "firstDensity" /\ pc' \in {"thermostat", "loop"}
        /\ densities' = [densities EXCEPT !.tmin2 = Step]
        /\ Step' = Step /\ start' = start /\ time' = time /\ time = start
    BY <1>3, <1>a DEF FirstDensity, Step, PlaceInv, Resuming
  <2>2. DOMAIN densities = {"tmin2", "tmin1"}
    BY DEF DensitiesInv
  <2>3. IsTrajectory(Step, time) /\ time \in Nat
    BY <1>a, <2>1 DEF MemoryInv, Resuming, TimeInv
  <2>4. SubSeq(Step, 1, time) = Step
    BY <2>3, Prefixes
  <2>5. QED
    BY <2>1, <2>2, <2>4 DEF DensitiesInv, OfLastTwo
<1>4. CASE ReadThermostat
  <2>1. /\ pc = "readThermostat" /\ pc' \in {"failed", "loop"} /\ densities' = densities
        /\ start' = start /\ time' = time
        /\ state' = state \/ state' = [state EXCEPT !["thermostat"] = read(nhcChk)]
    BY <1>4 DEF ReadThermostat
  <2>2. DOMAIN state = Part
    BY <1>a, <2>1 DEF MemoryInv, Resuming
  <2>3. Step' = Step
    BY <2>1, <2>2 DEF Step, Part
  <2>4. QED
    BY <2>1, <2>3 DEF DensitiesInv, OfLastTwo
<1>5. CASE StartStep
  <2>1. /\ pc = "loop" /\ densities' = densities /\ Step' = Step /\ start' = start
        /\ \/ pc' = "solve" /\ time' = time + 1
           \/ pc' = "finished"
    BY <1>5 DEF StartStep, Step
  <2>2. time \in Nat /\ (time + 1) - 1 = time
    BY <1>a DEF TimeInv
  <2>3. QED
    BY <2>1, <2>2 DEF DensitiesInv, OfLastTwo
<1>6. CASE velocityVerlet
  <2>1. /\ pc = "solve" /\ pc' = "density" /\ densities' = densities /\ start' = start /\ time' = time
        /\ Step' = Append(Step, job)
    BY <1>6 DEF velocityVerlet, Step, Part
  <2>2. /\ IsTrajectory(Step, time - 1) /\ time - 1 \in Nat /\ job \in Nat /\ start \in Nat
        /\ time \in Nat /\ time > start
    BY <1>a, <2>1 DEF MemoryInv, InStep, TimeInv, PlaceInv
  <2>3. \A m \in 0 .. time - 1 : SubSeq(Append(Step, job), 1, m) = SubSeq(Step, 1, m)
    BY <2>2, Prefixes
  <2>4. time - 1 \in 0 .. time - 1 /\ (time - 1 # start => (time - 1) - 1 \in 0 .. time - 1)
    BY <2>2
  <2>5. OfLastTwo(time - 1)
    BY <2>1 DEF DensitiesInv
  <2>6. OfLastTwo(time - 1)'
    BY <2>1, <2>3, <2>4, <2>5 DEF OfLastTwo
  <2>7. QED
    BY <2>1, <2>6 DEF DensitiesInv
<1>7. CASE DensityExtrapolation
  <2>1. /\ pc = "density" /\ pc' = "restartFiles" /\ start' = start /\ time' = time /\ Step' = Step
        /\ densities' = IF time - start = 1 THEN [densities EXCEPT !.tmin1 = Step]
                        ELSE [tmin2 |-> densities.tmin1, tmin1 |-> Step]
    BY <1>7 DEF DensityExtrapolation, Step
  <2>2. IsTrajectory(Step, time) /\ time \in Nat /\ start \in Nat /\ time # start
    BY <1>a, <2>1 DEF MemoryInv, InStep, TimeInv, PlaceInv
  <2>3. SubSeq(Step, 1, time) = Step
    BY <2>2, Prefixes
  <2>4. OfLastTwo(time - 1)
    BY <2>1 DEF DensitiesInv
  <2>5. DOMAIN densities = {"tmin2", "tmin1"}
    BY DEF DensitiesInv
  <2>6. CASE time - start = 1
    <3>1. time - 1 = start /\ densities' = [densities EXCEPT !.tmin1 = Step]
      BY <2>1, <2>2, <2>6
    <3>2. densities'.tmin1 = Step /\ densities'.tmin2 = densities.tmin2
      BY <2>5, <3>1
    <3>3. QED
      BY <2>1, <2>2, <2>3, <2>4, <3>1, <3>2 DEF DensitiesInv, OfLastTwo
  <2>7. CASE time - start # 1
    <3>1. time - 1 # start /\ densities'.tmin2 = densities.tmin1 /\ densities'.tmin1 = Step
      BY <2>1, <2>2, <2>7
    <3>2. QED
      BY <2>1, <2>2, <2>3, <2>4, <3>1 DEF DensitiesInv, OfLastTwo
  <2>8. QED
    BY <2>6, <2>7
<1>8. QED
  BY <1>1, <1>2, <1>3, <1>4, <1>5, <1>6, <1>7 DEF Next, Work

LEMMA RhoInitially == Init => RhoInv
<1> SUFFICES ASSUME Init PROVE RhoInv
  OBVIOUS
<1>1. ~exists(timeChk)
  BY DEF Init, exists
<1>2. NamedInv
  BY <1>1 DEF NamedInv, Holds
<1>3. DensitySavedInv /\ LoadsInv /\ DensitiesInv
  BY DEF Init, DensitySavedInv, LoadsInv, DensitiesInv
<1>4. QED
  BY <1>2, <1>3 DEF RhoInv

\* The invariant of the densities, on disk and in memory, holds in every state.
THEOREM DensityInvariance == Spec => []RhoInv
<1>1. Init => RhoInv
  BY RhoInitially
<1>2. IInv /\ IInv' /\ RhoInv /\ [Next]_vars => RhoInv'
  BY StepNamed, StepDensitySaved, StepLoads, StepDensities DEF RhoInv
<1>3. QED
  BY <1>1, <1>2, Invariance, PTL DEF Spec

\* A job that is told to load the density from disk loads that of the positions it resumes
\* from, wherever the jobs before it crashed, except between the save of a density and the
\* time.chk that names its step.
THEOREM LoadsDensityOfTheStep == Spec => []LoadedDensityIsOfTheStep
<1>1. IInv /\ RhoInv => LoadedDensityIsOfTheStep
  <2> SUFFICES ASSUME IInv, RhoInv, pc = "firstSolve", start > 0, scfRestart, ~unnamed,
                      readable(rhoChk)
               PROVE  read(rhoChk) = Step
    BY DEF LoadedDensityIsOfTheStep
  <2>1. start > 1 /\ start \in Later
    <3>1. TimeInv /\ start \in Nat /\ (start = 0 \/ start >= 2)
      BY DEF IInv, TimeInv
    <3>2. start > 1
      BY <3>1
    <3>3. QED
      BY <3>1, <3>2, TimeInSteps
  <2>2. Holds(timeChk, start)
    BY DEF RhoInv, LoadsInv
  <2>3. exists(Key(start)) /\ Holds(stepFile("positions", start), Step)
    BY DEF IInv, ResumedInv, Resuming
  <2>4. Agree(start)
    BY <2>1, <2>2, <2>3 DEF RhoInv, NamedInv, Between
  <2>5. readable(stepFile("positions", start))
    <3>1. Len(<<Step>>) = 1 /\ Len(<<>>) = 0
      OBVIOUS
    <3>2. <<Step>> # <<>>
      BY <3>1
    <3>3. QED
      BY <2>3, <3>2 DEF Holds, readable, Empty
  <2>6. disk[rhoChk] = <<Step>>
    BY <2>3, <2>4, <2>5 DEF Agree, Holds
  <2>7. QED
    BY <2>6 DEF read
<1>2. QED
  BY <1>1, Invariance, DensityInvariance, PTL

\* Each extrapolation of the density takes the densities of the last three steps, in their
\* order, also in the first steps after a restart.
THEOREM ExtrapolatesTheTrajectory == Spec => ExtrapolatesLastThreeSteps
<1>1. IInv /\ RhoInv /\ [Next]_vars =>
        [densities'.tmin2 # densities.tmin2 /\ pc = "density" =>
           /\ densities.tmin1 = SubSeq(Step, 1, time - 1)
           /\ densities.tmin2 = SubSeq(Step, 1, time - 2)]_vars
  <2> SUFFICES ASSUME IInv, RhoInv, [Next]_vars, densities'.tmin2 # densities.tmin2, pc = "density"
               PROVE  /\ densities.tmin1 = SubSeq(Step, 1, time - 1)
                      /\ densities.tmin2 = SubSeq(Step, 1, time - 2)
    OBVIOUS
  <2>1. DensityExtrapolation
    <3>1. densities' # densities
      OBVIOUS
    <3>2. CASE Crash \/ Write \/ Terminated \/ UNCHANGED vars
      BY <3>1, <3>2 DEF Crash, Write, Terminated, vars, memory
    <3>3. QED
      BY <3>1, <3>2 DEF Next, Work, Done, WriteStep0, FirstSolve, FirstDensity, CopyThermostat,
         ReadThermostat, StartStep, velocityVerlet, writeRestartFile, writeRestartNHCfile,
         writeTotalDisplacementFile, EndStep, RestartJob, InitialiseFromRestartFile
  <2>2. OfLastTwo(time - 1) /\ DOMAIN densities = {"tmin2", "tmin1"}
    BY DEF RhoInv, DensitiesInv
  <2>3. time \in Nat /\ start \in Nat
    BY DEF IInv, TimeInv
  <2>4. time - start # 1
    <3>1. time - start = 1 => densities'.tmin2 = densities.tmin2
      BY <2>1, <2>2 DEF DensityExtrapolation
    <3>2. QED
      BY <3>1
  <2>5. time - 1 # start /\ (time - 1) - 1 = time - 2
    BY <2>3, <2>4
  <2>6. QED
    BY <2>2, <2>5 DEF OfLastTwo
<1>2. QED
  BY <1>1, Invariance, DensityInvariance, PTL DEF Spec, ExtrapolatesLastThreeSteps
=============================================================================
