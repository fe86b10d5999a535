----------------------------- MODULE MDIEngine -----------------------------
(***************************************************************************)
(* DFT-FE as an engine of the MolSSI Driver Interface                      *)
(* (src/mdi/MDIEngine.cpp): a driver sends the parts of a system one by    *)
(* one, in ">" commands, and asks for its energy, forces or stress with a  *)
(* "<" command.  The engine then makes a new system, or deforms the cell   *)
(* and moves the atoms of the one it has, and solves for it; it goes       *)
(* through the wrapper (src/dftfeWrapper.cc), which keeps the dft object   *)
(* (AtomPositions).                                                        *)
(*                                                                         *)
(* Model simplifications.  The ranks act as one: each command is broadcast *)
(* before it is carried out.  "<" commands that read back what was sent    *)
(* change nothing and are left out.  What the dft object computes is the   *)
(* system it solved for.                                                   *)
(***************************************************************************)
EXTENDS AtomPositions, Sequences, FiniteSets

CONSTANTS
  AtomCounts, Species, MPGrids, MPShifts, Spins, Cells,
  Coordinates, \* what the driver may send, coordinates from the end of the cell
  MaxOmitted  \* how many parts of a new system the driver may forget to send

\* In whole numbers, a coordinate is a fraction of every cell.
ASSUME DriverAssumption ==
  /\ AtomCounts \subseteq Nat /\ Cells \subseteq Nat \ {0} /\ Coordinates \subseteq Int
  /\ \A x \in Coordinates, c \in Cells : x % c = 0

VARIABLES
  job,           \* "running" or "ended"
  d_sys,         \* what was received: d_sys_natoms, d_sys_cell, d_sys_coords, ...
  d_flags,       \* the parts received since the last evaluation: d_flag_...
  d_actionflag,  \* nothing was received since then
  dft,           \* the positions of the dft object of d_dftfeWrapper
  settings,      \* what else that object was made from
  asked,         \* the system that the driver wants
  sent,          \* what it sent since the last evaluation,
  told,          \* and ever
  solved         \* dft and settings of the last solve

vars == <<job, d_sys, d_flags, d_actionflag, dft, settings, asked, sent, told, solved>>

-----------------------------------------------------------------------------
Order == <<"natoms", "elements", "dimensions", "mpGrid", "mpShift", "spin", "cell", "coords">>
Setting == {"natoms", "elements", "mpGrid", "mpShift", "spin"}
CreateField == Setting \cup {"dimensions"}
Field == CreateField \cup {"cell", "coords"}

\* What may be sent for a part.  Arrays have as many entries as there are atoms.
\* Of the dimensions, 1 is not periodic, 2 is periodic, and 3 is a mistake.
Values(f) ==
  CASE f = "natoms" -> AtomCounts
    [] f = "elements" -> [1 .. d_sys.natoms -> Species]
    [] f = "dimensions" -> 1 .. 3
    [] f = "mpGrid" -> MPGrids
    [] f = "mpShift" -> MPShifts
    [] f = "spin" -> Spins
    [] f = "cell" -> Cells
    [] f = "coords" -> [1 .. d_sys.natoms -> Coordinates]

SettingsOf(s) == [f \in Setting |-> s[f]]

\* The driver sends all of a new system, natoms first, but may forget something,
\* or a new cell or new coordinates of the system that the engine has.
InTurn(f) ==
  \/ f \notin CreateField /\ sent \cap CreateField = {}
  \/ LET i == CHOOSE k \in DOMAIN Order : Order[k] = f
         Before == {Order[k] : k \in 1 .. i - 1}
     IN  sent \subseteq Before /\ Cardinality(Before \ sent) <= MaxOmitted

\* What the driver wants when it has sent v for f: a new cell alone takes the
\* atoms with it.
Wanted(f, v) ==
  LET stretched == [i \in DOMAIN asked.coords |-> (asked.coords[i] \div asked.cell) * v]
  IN  IF f = "cell" /\ "coords" \notin sent
      THEN [asked EXCEPT !.cell = v, !.coords = stretched]
      ELSE [asked EXCEPT ![f] = v]

-----------------------------------------------------------------------------
\* The members of the engine, of which d_flag_dimensions, d_sys_dimensions and
\* d_sys_cell have no initial values.
Init ==
  /\ job = "running"
  /\ \E dimensions \in 1 .. 3, cell \in Cells :
       d_sys = [natoms |-> 0, elements |-> <<>>, dimensions |-> dimensions, mpGrid |-> 1,
                mpShift |-> 0, spin |-> 0, cell |-> cell, coords |-> <<>>]
  /\ d_flags \in {{}, {"dimensions"}}
  /\ d_actionflag = FALSE
  /\ dft = NoSystem
  /\ settings = SettingsOf(d_sys)
  /\ asked = d_sys
  /\ sent = {} /\ told = {}
  /\ solved = [dft |-> dft, settings |-> settings]

\* A ">" command: receive_natoms, receive_cell, receive_coords, ...
Receive(f) ==
  /\ job = "running"
  /\ InTurn(f)
  /\ d_actionflag' = FALSE
  /\ d_flags' = d_flags \cup {f}
  /\ \E v \in Values(f) :
       /\ d_sys' = [d_sys EXCEPT ![f] = v]
       /\ asked' = Wanted(f, v)
  /\ sent' = sent \cup {f}
  /\ told' = told \cup {f}
  /\ UNCHANGED <<job, dft, settings, solved>>

-----------------------------------------------------------------------------
\* dftfeWrapper::reinit, with a system inside its cell.
reinit(cell, coords, periodic) ==
  LET frac == [i \in DOMAIN coords |-> coords[i] \div cell]
      Inside(f) == IF periodic THEN f \in 0 .. Q ELSE f \in 1 .. Q - 1
  IN  IF \E i \in DOMAIN frac : ~ Inside(frac[i]) THEN Failed(NoSystem, "thrown")
      ELSE set(cell, periodic,
               IF periodic THEN frac ELSE [i \in DOMAIN coords |-> coords[i] - HalfCell(cell)])

\* A new system takes all parts.  Only a periodic one has more than one k-point.
create_system ==
  IF /\ Field \subseteq d_flags
     /\ d_sys.dimensions \in {1, 2}
     /\ d_sys.dimensions = 1 => d_sys.mpGrid <= 1 /\ d_sys.mpShift = 0
  THEN reinit(d_sys.cell, d_sys.coords, d_sys.dimensions = 2)
  ELSE Failed(NoSystem, "thrown")

\* The deformation that gives the wrapper's cell the new length.
adjust_box(g) ==
  IF "cell" \notin d_flags \/ g.status # "ok" THEN g ELSE deformDomain(g, d_sys.cell)

\* A move from where the atoms are to where they should be.
adjust_coords(g) ==
  LET current == getAtomPositionsCart(g)
      disp == [i \in 1 .. d_sys.natoms |-> d_sys.coords[i] - current[i]]
  IN  IF "coords" \notin d_flags \/ g.status # "ok" THEN g
      ELSE updateAtomPositionsAndMoveMesh(g, disp)

\* Fault: the atoms are moved before the cell is deformed.
AdjustCoordsFirst == adjust_box(adjust_coords(dft))

adjusted == adjust_coords(adjust_box(dft))

\* What evaluate solves for; without a system the wrapper has no communicator.
evaluated ==
  IF d_flags \cap CreateField # {} THEN create_system
  ELSE IF dft = NoSystem THEN Failed(NoSystem, "thrown")
  ELSE adjusted

\* <ENERGY, <FORCES and <STRESS: a solve, unless nothing was received since the
\* last.  The stress takes a deformation of the cell besides.
Request(what) ==
  LET g == IF d_actionflag THEN dft ELSE evaluated
      after == IF what = "<STRESS" /\ g.status = "ok"
               THEN computeVselfFieldGateauxDerFD(g) ELSE g
  IN  /\ job = "running"
      /\ dft' = after
      /\ job' = IF after.status = "ok" THEN "running" ELSE "ended"
      /\ settings' = IF d_actionflag \/ d_flags \cap CreateField = {} THEN settings
                     ELSE SettingsOf(d_sys)
      /\ solved' = IF d_actionflag \/ g.status # "ok" THEN solved
                   ELSE [dft |-> g, settings |-> settings']
      /\ d_actionflag' = TRUE
      /\ d_flags' = IF d_actionflag THEN d_flags ELSE {}
      /\ sent' = {}
      /\ UNCHANGED <<d_sys, asked, told>>

\* EXIT, which clears the wrapper; "@" and "@DEFAULT", which leave the node of the
\* engine, and >CELL_DISPL, which has a handler but is not registered, end the job too.
\* The driver does so only when it has an answer to all it sent.
Exit ==
  /\ job = "running" /\ sent = {}
  /\ job' = "ended"
  /\ dft' = NoSystem
  /\ UNCHANGED <<d_sys, d_flags, d_actionflag, settings, asked, sent, told, solved>>

Next ==
  \/ \E f \in Field : Receive(f)
  \/ \E what \in {"<ENERGY", "<STRESS"} : Request(what)
  \/ Exit

Spec == Init /\ [][Next]_vars

-----------------------------------------------------------------------------
Array(n) == [1 .. n -> Int]

\* The positions of n atoms: a system that is not periodic has no fractions.
Positions(n) ==
  [status : {"ok"}, cell : Nat \ {0}, periodic : BOOLEAN, atomLocations : Array(n),
   atomLocationsFractional : Array(n) \cup {<<>>}, d_imagePositions : Array(n) \cup {<<>>},
   netDisp : Array(n)]

\* The variables have their types; the vectors of the dft object have an entry for
\* each atom, and an atom whose bins are kept is less than half a bohr from where
\* it was when they were made.
TypeOK ==
  /\ job \in {"running", "ended"}
  /\ DOMAIN d_sys = Field /\ DOMAIN asked = Field
  /\ d_sys.cell \in Cells /\ asked.cell \in Cells
  /\ d_sys.natoms \in AtomCounts \cup {0}
  /\ d_flags \subseteq Field /\ sent \subseteq Field /\ told \subseteq Field
  /\ d_actionflag \in BOOLEAN
  /\ job = "running" /\ dft # NoSystem =>
       /\ dft \in Positions(settings.natoms) /\ solved.dft \in Positions(settings.natoms)
       /\ \A i \in 1 .. settings.natoms : Magnitude(dft.netDisp[i]) < HalfBohr

Running(g) == job = "running" /\ g.status = "ok"

\* Every reply is about the system that the driver asked for with all it sent,
\* whether it was made anew or changed step by step: the cell and everything
\* else as sent, the atoms where it wants them, or a whole number of cells away.
\* (d_flag_dimensions has no initial value: a system may be made without any.)
RepliesAreOfTheSystemAsked ==
  Running(dft) /\ d_actionflag =>
    LET g == solved.dft
        there == getAtomPositionsCart(g)
        SamePlace(x, y) == IF g.periodic THEN (x - y) % (Q * g.cell) = 0 ELSE x = y
    IN  /\ g.cell = asked.cell
        /\ \A f \in Setting : solved.settings[f] = asked[f]
        /\ "dimensions" \in told => g.periodic = (asked.dimensions = 2)
        /\ DOMAIN there = 1 .. asked.natoms
        /\ \A i \in DOMAIN there : SamePlace(there[i], asked.coords[i])

\* The two copies of a position stay one position, and an image stays a cell
\* away from its atom, through all deformations and moves.
CopiesAgree ==
  Running(dft) /\ dft.periodic =>
    /\ dft.atomLocations = CellCentered(dft.atomLocationsFractional, dft.cell)
    /\ dft.d_imagePositions = [i \in DOMAIN dft.atomLocations |->
                                 dft.atomLocations[i] + Q * dft.cell]

\* The deformations of the stress leave nothing behind: what the next request
\* is about, or the next step starts from, is what was solved for.
StressLeavesNothing == Running(dft) /\ d_actionflag => dft = solved.dft

-----------------------------------------------------------------------------
\* Together these are inductive: what the driver wants and what was received are
\* the same but for coordinates that moved with the cell, and the dft object is
\* that system but for what was sent since the last evaluation.
ReceivedAsAsked ==
  /\ \A f \in Field \ {"coords"} : d_sys[f] = asked[f]
  /\ "coords" \in sent => /\ d_sys.coords = asked.coords
                          /\ d_sys.coords \in [1 .. d_sys.natoms -> Coordinates]
  /\ \A i \in DOMAIN asked.coords : asked.coords[i] \in Int /\ asked.coords[i] % asked.cell = 0
  /\ sent \subseteq d_flags /\ d_flags \subseteq sent \cup {"dimensions"}

\* The atoms of g are at xs, or a whole number of cells from there.
Placed(g, n, xs) ==
  \A i \in 1 .. n :
    IF g.periodic THEN (g.atomLocationsFractional[i] - xs[i] \div g.cell) % Q = 0
    ELSE g.atomLocations[i] + HalfCell(g.cell) = xs[i]

\* What a deformation keeps of that, whatever the cell.
FractionsPlaced ==
  \A i \in 1 .. settings.natoms :
    IF dft.periodic
    THEN (dft.atomLocationsFractional[i] - asked.coords[i] \div asked.cell) % Q = 0
    ELSE "cell" \in sent \/ dft.atomLocations[i] + HalfCell(dft.cell) = asked.coords[i]

Agree(g, n) ==
  /\ g.atomLocationsFractional \in Array(n) /\ g.d_imagePositions \in Array(n)
  /\ \A i \in 1 .. n :
       /\ g.atomLocations[i] = g.atomLocationsFractional[i] * g.cell - HalfCell(g.cell)
       /\ g.d_imagePositions[i] = g.atomLocations[i] + Q * g.cell

Good(g, n) ==
  /\ g \in Positions(n)
  /\ IF g.periodic THEN Agree(g, n) ELSE g.atomLocationsFractional = <<>>

UpToDate ==
  /\ \A f \in Setting : settings[f] = asked[f]
  /\ "dimensions" \in told => dft.periodic = (asked.dimensions = 2)
  /\ "cell" \notin sent => dft.cell = asked.cell
  /\ "coords" \notin sent => DOMAIN asked.coords = 1 .. settings.natoms /\ FractionsPlaced

SystemInv ==
  job = "running" =>
    IF dft = NoSystem THEN ~ d_actionflag
    ELSE /\ d_flags = sent
         /\ settings.natoms \in Nat /\ Good(dft, settings.natoms)
         /\ sent \cap CreateField = {} => UpToDate
         /\ d_actionflag => sent = {} /\ solved = [dft |-> dft, settings |-> settings]

IInv == TypeOK /\ ReceivedAsAsked /\ SystemInv
=============================================================================
