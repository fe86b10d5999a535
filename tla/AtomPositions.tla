--------------------------- MODULE AtomPositions ---------------------------
(***************************************************************************)
(* Where the dft object has its atoms (src/dft/dft.cc, moveAtoms.cc): it   *)
(* keeps each position twice, as a fraction of the cell and relative to    *)
(* the centre of the cell, and the periodic images of the atoms besides,   *)
(* and changes them together when the cell is deformed or the atoms move.  *)
(*                                                                         *)
(* Model simplifications.  One dimension, with floating nuclear charges    *)
(* (the default), in whole numbers: a cell c is Q * c long, and a fraction *)
(* f of it, counted in Q-ths, is at f * c from its lower end.  Each atom   *)
(* of a periodic system has one image, a cell above it.                    *)
(***************************************************************************)
EXTENDS Integers

CONSTANTS
  Q,        \* the Q-ths of a cell that fractions are counted in
  HalfBohr  \* the net displacement from which atoms are wrapped and bins renewed

ASSUME QAssumption == Q \in Nat \ {0} /\ Q % 2 = 0 /\ HalfBohr \in Nat \ {0}

HalfCell(cell) == (Q \div 2) * cell
CellCentered(frac, cell) == [i \in DOMAIN frac |-> frac[i] * cell - HalfCell(cell)]
FractionOf(x, cell) == (x + HalfCell(cell)) \div cell
Plus(xs, ds) == [i \in DOMAIN xs |-> xs[i] + ds[i]]
Magnitude(d) == IF d < 0 THEN -d ELSE d

\* Whether a system is still well, or the job ended with it: by an AssertThrow,
\* or by a read past the end of a vector, of which anything may come.
Failed(g, how) == [g EXCEPT !.status = how]
NoSystem == [status |-> "none", cell |-> 0, periodic |-> FALSE, atomLocations |-> <<>>,
             atomLocationsFractional |-> <<>>, d_imagePositions |-> <<>>, netDisp |-> <<>>]

\* The positions of the fractions and the images anew, after a sanity check.
initImageChargesUpdateKPoints(g) ==
  LET atoms == CellCentered(g.atomLocationsFractional, g.cell)
  IN  IF ~ g.periodic THEN g
      ELSE IF \E i \in DOMAIN atoms : g.atomLocationsFractional[i] \notin 0 .. Q
      THEN Failed(g, "thrown")
      ELSE [g EXCEPT !.atomLocations = atoms,
                     !.d_imagePositions = [i \in DOMAIN atoms |-> atoms[i] + Q * g.cell]]

\* Fault: with new bins, the net displacement is still counted from the old ones.
KeepCounting(g, updateImagesAndKPointsAndVselfBins) ==
  IF updateImagesAndKPointsAndVselfBins THEN initImageChargesUpdateKPoints(g) ELSE g

\* With new bins, the net displacement is counted from here.
initNoRemesh(g, updateImagesAndKPointsAndVselfBins) ==
  IF updateImagesAndKPointsAndVselfBins
  THEN initImageChargesUpdateKPoints([g EXCEPT !.netDisp = [i \in DOMAIN @ |-> 0]])
  ELSE g

\* A new object, which read the files of its coordinates and of its cell: a
\* system that is not periodic has no fractions.
set(cell, periodic, coordinates) ==
  initNoRemesh(
    [status |-> "ok", cell |-> cell, periodic |-> periodic,
     atomLocations |-> coordinates,
     atomLocationsFractional |-> IF periodic THEN coordinates ELSE <<>>,
     d_imagePositions |-> <<>>,
     netDisp |-> [i \in DOMAIN coordinates |-> 0]], TRUE)

-----------------------------------------------------------------------------
\* An image keeps its place relative to its atom, stretched with the cell.
DeformImages(g, cell) ==
  LET atoms == CellCentered(g.atomLocationsFractional, cell)
  IN  [i \in DOMAIN g.d_imagePositions |->
         atoms[i] + ((g.d_imagePositions[i] - g.atomLocations[i]) * cell) \div g.cell]

\* The atoms keep their fractions, wherever these are: nothing is wrapped.
deformDomain(g, cell) ==
  IF DOMAIN g.atomLocations # DOMAIN g.atomLocationsFractional THEN Failed(g, "undefined")
  ELSE initNoRemesh([g EXCEPT
         !.cell = cell,
         !.atomLocations = CellCentered(g.atomLocationsFractional, cell),
         !.d_imagePositions = DeformImages(g, cell)], FALSE)

-----------------------------------------------------------------------------
\* Across a periodic boundary, by one cell at most.
wrapAtomsAcrossPeriodicBc(f) == IF f < 0 THEN f + Q ELSE IF f > Q THEN f - Q ELSE f

\* Fault: the fractions follow only when the bins are renewed.
MovePositionsOnly(g, disp) ==
  [g EXCEPT !.atomLocations = Plus(@, disp), !.d_imagePositions = Plus(@, disp)]

\* A small move of the atoms of a periodic system, which may leave the cell.
MoveUnwrapped(g, disp) ==
  LET atoms == Plus(g.atomLocations, disp)
  IN  [g EXCEPT
        !.atomLocations = atoms,
        !.atomLocationsFractional = [i \in DOMAIN atoms |-> FractionOf(atoms[i], g.cell)],
        !.d_imagePositions = Plus(@, disp)]

\* A large one: the positions follow from the fractions when the images are renewed.
MoveWrapped(g, disp) ==
  LET atoms == Plus(g.atomLocations, disp)
      frac == [i \in DOMAIN atoms |-> wrapAtomsAcrossPeriodicBc(FractionOf(atoms[i], g.cell))]
  IN  IF \E i \in DOMAIN frac : frac[i] \notin 0 .. Q THEN Failed(g, "thrown")
      ELSE [g EXCEPT !.atomLocationsFractional = frac]

updateAtomPositionsAndMoveMesh(g, disp) ==
  LET net == [g EXCEPT !.netDisp = Plus(@, disp)]
      atomsPeriodicWrapped == \E i \in DOMAIN disp : Magnitude(net.netDisp[i]) >= HalfBohr
      moved == IF ~ g.periodic THEN [net EXCEPT !.atomLocations = Plus(@, disp)]
               ELSE IF atomsPeriodicWrapped THEN MoveWrapped(net, disp)
               ELSE MoveUnwrapped(net, disp)
  IN  IF moved.status # "ok" THEN moved ELSE initNoRemesh(moved, atomsPeriodicWrapped)

-----------------------------------------------------------------------------
\* Fault: the last perturbation of the cell is not undone.
PerturbOnly(g) == deformDomain(g, g.cell + 1)

\* The stress: the cell is deformed a little, both ways, and then back.
computeVselfFieldGateauxDerFD(g) ==
  LET perturbed == deformDomain(g, g.cell + 1)
  IN  IF perturbed.status # "ok" THEN perturbed ELSE deformDomain(perturbed, g.cell)

\* As the wrapper tells it: from the lower end of the cell.
getAtomPositionsCart(g) ==
  [i \in DOMAIN g.atomLocations |-> g.atomLocations[i] + HalfCell(g.cell)]
=============================================================================
