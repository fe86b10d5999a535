-------------------------- MODULE MDIEngine_proof --------------------------
(***************************************************************************)
(* For every set of cells, atom counts and coordinates, and however many   *)
(* requests: the invariant IInv of MDIEngine is inductive, and from it     *)
(* follow the types, that the copies of a position agree, that the stress  *)
(* leaves nothing behind, and that every reply is about the system asked   *)
(* for.  First come the operations on positions, one lemma each: a         *)
(* deformation keeps the fractions, a move brings the atoms to their       *)
(* places, and both keep Good.                                             *)
(***************************************************************************)
EXTENDS MDIEngine, TLAPS

\* Arithmetic of multiples.
LEMMA DivMul == \A k \in Int, c \in Nat \ {0} : (k * c) \div c = k
OBVIOUS

LEMMA MulMod == \A k \in Int, c \in Nat \ {0} : (k * c) % c = 0
OBVIOUS

LEMMA ModMul == \A x \in Int, c \in Nat \ {0} : x % c = 0 => (x \div c) * c = x
OBVIOUS

\* Half a cell is a whole number, and the fraction of a position relative to the
\* centre is the one it was made from.
LEMMA HalfInt == \A c \in Nat : HalfCell(c) \in Int
BY QAssumption DEF HalfCell

LEMMA FractionOfCentered ==
  ASSUME NEW f \in Int, NEW c \in Nat \ {0}
  PROVE  FractionOf(f * c - HalfCell(c), c) = f
<1>1. (f * c - HalfCell(c)) + HalfCell(c) = f * c
  BY HalfInt
<1>2. QED
  BY <1>1, DivMul DEF FractionOf

\* A deformation that does not throw has the new cell and the old fractions; one
\* of a system that is not periodic, which has no fractions, only if it has no atoms.
LEMMA DeformKeeps ==
  ASSUME NEW n \in Nat, NEW g, Good(g, n), NEW c \in Nat \ {0},
         deformDomain(g, c).status = "ok"
  PROVE  LET h == deformDomain(g, c)
         IN  /\ Good(h, n)
             /\ h.cell = c /\ h.periodic = g.periodic /\ h.netDisp = g.netDisp
             /\ h.atomLocationsFractional = g.atomLocationsFractional
             /\ ~ g.periodic => n = 0
<1> DEFINE h == deformDomain(g, c)
<1>1. DOMAIN g.atomLocations = DOMAIN g.atomLocationsFractional
  <2> SUFFICES ASSUME DOMAIN g.atomLocations # DOMAIN g.atomLocationsFractional
               PROVE  FALSE
    OBVIOUS
  <2> QED
    BY DEF deformDomain, Failed, Good, Positions
<1>2. h = [g EXCEPT !.cell = c,
                    !.atomLocations = CellCentered(g.atomLocationsFractional, c),
                    !.d_imagePositions = DeformImages(g, c)]
  BY <1>1 DEF deformDomain, initNoRemesh
<1>3. ASSUME g.periodic PROVE Good(h, n)
  <2>1. \A i \in 1 .. n : ((g.d_imagePositions[i] - g.atomLocations[i]) * c) \div g.cell = Q * c
    <3> SUFFICES ASSUME NEW i \in 1 .. n
                 PROVE  ((g.d_imagePositions[i] - g.atomLocations[i]) * c) \div g.cell = Q * c
      OBVIOUS
    <3>1. g.cell \in Nat \ {0} /\ g.atomLocations[i] \in Int
      BY DEF Good, Positions, Array
    <3>2. g.d_imagePositions[i] - g.atomLocations[i] = Q * g.cell
      BY <1>3, <3>1, QAssumption DEF Good, Agree
    <3>3. (Q * g.cell) * c = (Q * c) * g.cell
      BY <3>1, QAssumption
    <3>4. QED
      BY <3>1, <3>2, <3>3, DivMul, QAssumption
  <2>2. DOMAIN g.atomLocationsFractional = 1 .. n /\ DOMAIN g.d_imagePositions = 1 .. n
    BY <1>3 DEF Good, Agree, Array
  <2>3. \A i \in 1 .. n : g.atomLocationsFractional[i] * c - HalfCell(c) \in Int
    BY <1>3, HalfInt DEF Good, Agree, Array
  <2>4. CellCentered(g.atomLocationsFractional, c) \in Array(n)
    BY <2>2, <2>3 DEF CellCentered, Array
  <2>5. \A i \in 1 .. n : DeformImages(g, c)[i] = CellCentered(g.atomLocationsFractional, c)[i] + Q * c
    BY <2>1, <2>2 DEF DeformImages
  <2>6. DeformImages(g, c) \in Array(n)
    BY <2>4, <2>5, <2>2, QAssumption DEF DeformImages, Array
  <2>7. h \in Positions(n)
    BY <1>2, <2>4, <2>6 DEF Good, Positions
  <2>8. Agree(h, n)
    BY <1>2, <1>3, <2>2, <2>4, <2>5, <2>6 DEF Good, Agree, CellCentered, Positions
  <2>9. QED
    BY <1>2, <1>3, <2>7, <2>8 DEF Good
<1>4. ASSUME ~ g.periodic PROVE Good(h, n) /\ n = 0
  <2>1. n = 0 /\ g.atomLocationsFractional = <<>>
    BY <1>1, <1>4 DEF Good, Positions, Array
  <2>2. CellCentered(g.atomLocationsFractional, c) \in Array(n)
    BY <2>1 DEF CellCentered, Array
  <2>3. g.d_imagePositions = <<>>
    BY <2>1 DEF Good, Positions, Array
  <2>4. DeformImages(g, c) = <<>>
    BY <2>3 DEF DeformImages
  <2>5. QED
    BY <1>2, <1>4, <2>1, <2>2, <2>3, <2>4 DEF Good, Positions, Array
<1>5. /\ h.cell = c /\ h.periodic = g.periodic /\ h.netDisp = g.netDisp
      /\ h.atomLocationsFractional = g.atomLocationsFractional
  BY <1>2 DEF Good, Positions
<1>6. Good(h, n)
  BY <1>3, <1>4 DEF Good, Positions
<1>7. QED
  BY <1>4, <1>5, <1>6

\* initNoRemesh restores the agreement of the copies when it makes the images anew,
\* and then counts the net displacements from zero.
LEMMA ImagesKeep ==
  ASSUME NEW n \in Nat, NEW g \in Positions(n), NEW new \in BOOLEAN,
         g.periodic => g.atomLocationsFractional \in Array(n),
         ~ g.periodic => g.atomLocationsFractional = <<>>,
         g.periodic /\ ~ new => Agree(g, n),
         initNoRemesh(g, new).status = "ok"
  PROVE  /\ Good(initNoRemesh(g, new), n)
         /\ \A i \in 1 .. n : initNoRemesh(g, new).netDisp[i] = IF new THEN 0 ELSE g.netDisp[i]
<1> DEFINE zero == [g EXCEPT !.netDisp = [i \in DOMAIN @ |-> 0]]
           h == initNoRemesh(g, new)
<1>1. CASE ~ new
  BY <1>1 DEF initNoRemesh, Good
<1>2. CASE new
  <2>1. h = initImageChargesUpdateKPoints(zero)
    BY <1>2 DEF initNoRemesh
  <2>2. zero \in Positions(n) /\ \A i \in 1 .. n : zero.netDisp[i] = 0
    BY DEF Positions, Array
  <2>3. /\ zero.periodic = g.periodic /\ zero.cell = g.cell
        /\ zero.atomLocationsFractional = g.atomLocationsFractional
    BY DEF Positions
  <2>4. CASE ~ g.periodic
    BY <2>1, <2>2, <2>3, <2>4, <1>2 DEF initImageChargesUpdateKPoints, Good
  <2>5. CASE g.periodic
    <3> DEFINE atoms == CellCentered(g.atomLocationsFractional, g.cell)
               images == [i \in DOMAIN atoms |-> atoms[i] + Q * g.cell]
    <3>1. g.cell \in Nat \ {0} /\ HalfCell(g.cell) \in Int
      BY HalfInt DEF Positions
    <3>2. atoms \in Array(n)
      BY <2>5, <3>1 DEF CellCentered, Array
    <3>3. images \in Array(n)
      BY <3>1, <3>2, QAssumption DEF Array
    <3>4. h = [zero EXCEPT !.atomLocations = atoms, !.d_imagePositions = images]
      <4> HIDE DEF images
      <4>1. CASE \E i \in DOMAIN atoms : zero.atomLocationsFractional[i] \notin 0 .. Q
        BY <2>1, <2>2, <2>3, <2>5, <4>1 DEF initImageChargesUpdateKPoints, Failed, Positions
      <4>2. QED
        BY <2>1, <2>3, <2>5, <4>1 DEF initImageChargesUpdateKPoints, images
    <3>5. \A i \in 1 .. n : atoms[i] = g.atomLocationsFractional[i] * g.cell - HalfCell(g.cell)
      BY <2>5 DEF CellCentered, Array
    <3>6. \A i \in 1 .. n : images[i] = atoms[i] + Q * g.cell
      BY <3>2 DEF Array
    <3> HIDE DEF atoms, images
    <3>7. /\ h.atomLocations = atoms /\ h.d_imagePositions = images /\ h.cell = g.cell
          /\ h.atomLocationsFractional = g.atomLocationsFractional
          /\ h.periodic /\ h.netDisp = zero.netDisp
      BY <2>2, <2>3, <2>5, <3>4 DEF Positions
    <3>8. h \in Positions(n)
      BY <2>2, <3>2, <3>3, <3>4 DEF Positions
    <3> HIDE DEF h
    <3>9. Agree(h, n)
      BY <2>5, <3>2, <3>3, <3>5, <3>6, <3>7 DEF Agree
    <3>10. QED
      BY <1>2, <2>2, <3>7, <3>8, <3>9 DEF h, Good
  <2>6. QED
    BY <2>4, <2>5 DEF Positions
<1>3. QED
  BY <1>1, <1>2

\* It leaves the rest alone.
LEMMA ImagesFrac ==
  ASSUME NEW n \in Nat, NEW g \in Positions(n), NEW new \in BOOLEAN,
         initNoRemesh(g, new).status = "ok"
  PROVE  LET h == initNoRemesh(g, new)
         IN  /\ h.cell = g.cell /\ h.periodic = g.periodic
             /\ h.atomLocationsFractional = g.atomLocationsFractional
             /\ ~ g.periodic => h.atomLocations = g.atomLocations
<1> DEFINE zero == [g EXCEPT !.netDisp = [i \in DOMAIN @ |-> 0]]
<1>1. zero.cell = g.cell /\ zero.periodic = g.periodic
      /\ zero.atomLocationsFractional = g.atomLocationsFractional
      /\ zero.atomLocations = g.atomLocations
      /\ DOMAIN zero = DOMAIN g /\ "status" \in DOMAIN g /\ "cell" \in DOMAIN g
      /\ "periodic" \in DOMAIN g /\ "atomLocations" \in DOMAIN g
      /\ "atomLocationsFractional" \in DOMAIN g
  BY DEF Positions
<1> HIDE DEF zero
<1>2. QED
  BY <1>1 DEF initNoRemesh, initImageChargesUpdateKPoints, Failed, zero

\* A new object is well, and has what it was made from.
LEMMA NewKeeps ==
  ASSUME NEW n \in Nat, NEW c \in Nat \ {0}, NEW periodic \in BOOLEAN, NEW xs \in Array(n),
         set(c, periodic, xs).status = "ok"
  PROVE  /\ Good(set(c, periodic, xs), n)
         /\ \A i \in 1 .. n : set(c, periodic, xs).netDisp[i] = 0
<1> DEFINE g == [status |-> "ok", cell |-> c, periodic |-> periodic,
                 atomLocations |-> xs,
                 atomLocationsFractional |-> IF periodic THEN xs ELSE <<>>,
                 d_imagePositions |-> <<>>,
                 netDisp |-> [i \in DOMAIN xs |-> 0]]
<1>1. set(c, periodic, xs) = initNoRemesh(g, TRUE)
  BY DEF set
<1>2. [i \in DOMAIN xs |-> 0] \in Array(n)
  BY DEF Array
<1>3. g \in Positions(n)
  BY <1>2 DEF Positions
<1>4. /\ g.periodic = periodic
      /\ g.periodic => g.atomLocationsFractional \in Array(n)
      /\ ~ g.periodic => g.atomLocationsFractional = <<>>
  OBVIOUS
<1> HIDE DEF g
<1>5. /\ Good(initNoRemesh(g, TRUE), n)
      /\ \A i \in 1 .. n : initNoRemesh(g, TRUE).netDisp[i] = IF TRUE THEN 0 ELSE g.netDisp[i]
  <2> HIDE DEF Agree, initNoRemesh
  <2> TRUE \in BOOLEAN
    OBVIOUS
  <2> QED
    BY <1>1, <1>3, <1>4, ImagesKeep
<1>6. QED
  BY <1>1, <1>5

LEMMA NewRest ==
  ASSUME NEW n \in Nat, NEW c \in Nat \ {0}, NEW periodic \in BOOLEAN, NEW xs \in Array(n),
         set(c, periodic, xs).status = "ok"
  PROVE  LET h == set(c, periodic, xs)
         IN  /\ h.cell = c /\ h.periodic = periodic
             /\ periodic => h.atomLocationsFractional = xs
             /\ ~ periodic => h.atomLocations = xs
<1> DEFINE g == [status |-> "ok", cell |-> c, periodic |-> periodic,
                 atomLocations |-> xs,
                 atomLocationsFractional |-> IF periodic THEN xs ELSE <<>>,
                 d_imagePositions |-> <<>>,
                 netDisp |-> [i \in DOMAIN xs |-> 0]]
<1>1. set(c, periodic, xs) = initNoRemesh(g, TRUE)
  BY DEF set
<1>2. [i \in DOMAIN xs |-> 0] \in Array(n)
  BY DEF Array
<1>3. g \in Positions(n)
  BY <1>2 DEF Positions
<1>4. /\ g.cell = c /\ g.periodic = periodic /\ g.atomLocations = xs
      /\ periodic => g.atomLocationsFractional = xs
  OBVIOUS
<1> HIDE DEF g
<1> DEFINE h == initNoRemesh(g, TRUE)
<1>5. /\ h.cell = g.cell /\ h.periodic = g.periodic
      /\ h.atomLocationsFractional = g.atomLocationsFractional
      /\ ~ g.periodic => h.atomLocations = g.atomLocations
  <2> TRUE \in BOOLEAN
    OBVIOUS
  <2> QED
    BY <1>1, <1>3, ImagesFrac
<1> HIDE DEF h
<1>6. QED
  BY <1>1, <1>4, <1>5 DEF h

\* The two deformations of the stress undo each other.
LEMMA StressKeeps ==
  ASSUME NEW n \in Nat, NEW g, Good(g, n), computeVselfFieldGateauxDerFD(g).status = "ok"
  PROVE  computeVselfFieldGateauxDerFD(g) = g
<1> DEFINE p == deformDomain(g, g.cell + 1)
<1>1. g.cell \in Nat \ {0} /\ g.cell + 1 \in Nat \ {0}
  BY DEF Good, Positions
<1>2. p.status = "ok" /\ computeVselfFieldGateauxDerFD(g) = deformDomain(p, g.cell)
  BY DEF computeVselfFieldGateauxDerFD
<1> DEFINE h == deformDomain(p, g.cell)
<1> HIDE DEF p
<1>3. /\ Good(p, n) /\ p.periodic = g.periodic /\ p.netDisp = g.netDisp
      /\ p.atomLocationsFractional = g.atomLocationsFractional
      /\ ~ g.periodic => n = 0
  BY <1>1, <1>2, DeformKeeps DEF p
<1> HIDE DEF h
<1>4. /\ Good(h, n) /\ h.cell = g.cell /\ h.periodic = g.periodic /\ h.netDisp = g.netDisp
      /\ h.atomLocationsFractional = g.atomLocationsFractional
  BY <1>1, <1>2, <1>3, DeformKeeps DEF h
<1>5. /\ g \in Positions(n) /\ h \in Positions(n)
  BY <1>4 DEF Good
<1>6. \A i \in 1 .. n : h.atomLocations[i] = g.atomLocations[i]
  <2>1. CASE g.periodic
    BY <2>1, <1>4 DEF Good, Agree
  <2>2. CASE ~ g.periodic
    <3>1. n = 0
      BY <2>2, <1>3
    <3>2. QED
      BY <3>1
  <2>3. QED
    BY <2>1, <2>2
<1>7. h.atomLocations = g.atomLocations
  BY <1>5, <1>6 DEF Positions, Array
<1>8. h.d_imagePositions = g.d_imagePositions
  <2>1. CASE g.periodic
    <3>1. \A i \in 1 .. n : h.d_imagePositions[i] = g.d_imagePositions[i]
      BY <2>1, <1>4, <1>7 DEF Good, Agree
    <3>2. QED
      BY <2>1, <3>1, <1>4 DEF Good, Agree, Array
  <2>2. CASE ~ g.periodic
    <3>1. n = 0
      BY <2>2, <1>3
    <3>2. QED
      BY <3>1, <1>5 DEF Positions, Array
  <2>3. QED
    BY <2>1, <2>2
<1>9. QED
  BY <1>2, <1>4, <1>5, <1>7, <1>8 DEF Positions, h

\* No atom of g is half a bohr from where its bins were made.
Near(g, n) == \A i \in 1 .. n : Magnitude(g.netDisp[i]) < HalfBohr

\* A vector of displacements is added atom by atom.
LEMMA PlusArray ==
  ASSUME NEW n \in Nat, NEW xs \in Array(n), NEW ds \in Array(n)
  PROVE  /\ Plus(xs, ds) \in Array(n)
         /\ \A i \in 1 .. n : Plus(xs, ds)[i] = xs[i] + ds[i]
BY DEF Plus, Array

\* A move by the differences to xs brings the atoms to xs, wrapped or not.
LEMMA MoveKeeps ==
  ASSUME NEW n \in Nat, NEW g, Good(g, n),
         NEW xs \in Array(n), \A i \in 1 .. n : xs[i] % g.cell = 0,
         NEW disp \in Array(n),
         \A i \in 1 .. n : disp[i] = xs[i] - (g.atomLocations[i] + HalfCell(g.cell)),
         updateAtomPositionsAndMoveMesh(g, disp).status = "ok"
  PROVE  LET h == updateAtomPositionsAndMoveMesh(g, disp)
         IN  /\ Good(h, n) /\ Near(h, n) /\ Placed(h, n, xs)
             /\ h.cell = g.cell /\ h.periodic = g.periodic
<1> DEFINE h == updateAtomPositionsAndMoveMesh(g, disp)
           net == [g EXCEPT !.netDisp = Plus(@, disp)]
           wrapped == \E i \in DOMAIN disp : Magnitude(net.netDisp[i]) >= HalfBohr
           moved == IF ~ net.periodic THEN [net EXCEPT !.atomLocations = Plus(@, disp)]
                    ELSE IF wrapped THEN MoveWrapped(net, disp)
                    ELSE MoveUnwrapped(net, disp)
           atoms == Plus(g.atomLocations, disp)
           frac == [i \in 1 .. n |-> xs[i] \div g.cell]
<1>1. /\ g \in Positions(n) /\ g.cell \in Nat \ {0} /\ HalfCell(g.cell) \in Int
      /\ g.netDisp \in Array(n) /\ g.atomLocations \in Array(n) /\ g.periodic \in BOOLEAN
  BY HalfInt DEF Good, Positions
<1>2. net \in Positions(n)
  BY <1>1, PlusArray DEF Positions
<1>3. /\ net.cell = g.cell /\ net.periodic = g.periodic /\ net.atomLocations = g.atomLocations
      /\ net.atomLocationsFractional = g.atomLocationsFractional
      /\ net.d_imagePositions = g.d_imagePositions /\ net.status = "ok"
  BY <1>1 DEF Positions
<1>4. /\ atoms \in Array(n)
      /\ \A i \in 1 .. n : atoms[i] + HalfCell(g.cell) = xs[i]
  <2>1. /\ atoms \in Array(n)
        /\ \A i \in 1 .. n : atoms[i] = g.atomLocations[i] + disp[i]
    BY <1>1, PlusArray
  <2> HIDE DEF atoms
  <2>2. QED
    BY <1>1, <2>1 DEF Array
<1>5. \A i \in 1 .. n : FractionOf(atoms[i], g.cell) = xs[i] \div g.cell
  BY <1>4 DEF FractionOf
<1>6. /\ frac \in Array(n)
      /\ \A i \in 1 .. n : frac[i] = xs[i] \div g.cell /\ frac[i] * g.cell = xs[i]
  <2>1. \A i \in 1 .. n : xs[i] \in Int
    BY DEF Array
  <2>2. \A i \in 1 .. n : xs[i] \div g.cell \in Int
    BY <1>1, <2>1
  <2>3. \A i \in 1 .. n : (xs[i] \div g.cell) * g.cell = xs[i]
    BY <1>1, <2>1, ModMul
  <2>4. QED
    BY <2>2, <2>3 DEF Array
<1>7. h = IF moved.status # "ok" THEN moved ELSE initNoRemesh(moved, wrapped)
  BY <1>3 DEF updateAtomPositionsAndMoveMesh
<1>8. wrapped \in BOOLEAN /\ (~ wrapped => Near(net, n))
  <2>1. net.netDisp \in Array(n)
    BY <1>2 DEF Positions
  <2>2. DOMAIN disp = 1 .. n
    BY DEF Array
  <2> HIDE DEF net
  <2>3. \A i \in 1 .. n : Magnitude(net.netDisp[i]) \in Int
    BY <2>1 DEF Array, Magnitude
  <2>4. wrapped \in BOOLEAN
    OBVIOUS
  <2>5. ASSUME ~ wrapped, NEW i \in 1 .. n PROVE Magnitude(net.netDisp[i]) < HalfBohr
    BY <2>2, <2>3, <2>5, QAssumption
  <2>6. QED
    BY <2>4, <2>5 DEF Near
<1> HIDE DEF wrapped, net, atoms, frac, moved, h
<1>9. moved.status = "ok" /\ h = initNoRemesh(moved, wrapped) /\ h.status = "ok"
  BY <1>7 DEF h
<1>10. CASE ~ g.periodic
  <2>1. moved = [net EXCEPT !.atomLocations = atoms]
    BY <1>3, <1>10 DEF moved, atoms
  <2>2. /\ moved \in Positions(n) /\ moved.atomLocations = atoms /\ moved.netDisp = net.netDisp
        /\ moved.cell = g.cell /\ moved.periodic = g.periodic
        /\ moved.atomLocationsFractional = <<>>
    BY <1>2, <1>3, <1>4, <1>10, <2>1 DEF Positions, Good
  <2>3. /\ Good(h, n)
        /\ \A i \in 1 .. n : h.netDisp[i] = IF wrapped THEN 0 ELSE moved.netDisp[i]
    <3> HIDE DEF Agree
    <3> QED
      BY <1>8, <1>9, <1>10, <2>2, ImagesKeep
  <2>4. /\ h.cell = g.cell /\ h.periodic = g.periodic /\ h.atomLocations = atoms
    BY <1>8, <1>9, <1>10, <2>2, ImagesFrac
  <2>5. Placed(h, n, xs)
    BY <1>4, <1>10, <2>4 DEF Placed
  <2>6. Near(h, n)
    BY <1>8, <2>2, <2>3, QAssumption DEF Near, Magnitude
  <2>7. QED
    BY <1>10, <2>3, <2>4, <2>5, <2>6 DEF h
<1>11. CASE g.periodic /\ ~ wrapped
  <2> DEFINE images == Plus(g.d_imagePositions, disp)
  <2>1. moved = [net EXCEPT !.atomLocations = atoms, !.atomLocationsFractional = frac,
                            !.d_imagePositions = images]
    <3>1. [i \in DOMAIN atoms |-> FractionOf(atoms[i], g.cell)] = frac
      BY <1>4, <1>5 DEF frac, Array
    <3>2. moved = MoveUnwrapped(net, disp)
      BY <1>3, <1>11 DEF moved
    <3>3. QED
      BY <1>3, <3>1, <3>2 DEF MoveUnwrapped, atoms
  <2>2. /\ images \in Array(n)
        /\ \A i \in 1 .. n : images[i] = g.d_imagePositions[i] + disp[i]
    BY <1>11, PlusArray DEF Good, Agree
  <2> HIDE DEF images
  <2>3. /\ moved \in Positions(n) /\ moved.atomLocations = atoms /\ moved.netDisp = net.netDisp
        /\ moved.cell = g.cell /\ moved.periodic = g.periodic /\ moved.atomLocationsFractional = frac
        /\ moved.d_imagePositions = images
    BY <1>2, <1>3, <1>4, <1>6, <1>11, <2>1, <2>2 DEF Positions
  <2>4. ASSUME NEW i \in 1 .. n PROVE atoms[i] = frac[i] * g.cell - HalfCell(g.cell)
    <3>1. atoms[i] \in Int /\ atoms[i] + HalfCell(g.cell) = frac[i] * g.cell
      BY <1>4, <1>6 DEF Array
    <3>2. QED
      BY <1>1, <3>1
  <2>5. \A i \in 1 .. n : images[i] = atoms[i] + Q * g.cell
    <3>1. \A i \in 1 .. n : /\ g.d_imagePositions[i] = g.atomLocations[i] + Q * g.cell
                           /\ atoms[i] = g.atomLocations[i] + disp[i]
      BY <1>1, <1>11, PlusArray DEF Good, Agree, atoms
    <3>2. Q * g.cell \in Int
      BY <1>1, QAssumption
    <3>3. ASSUME NEW i \in 1 .. n PROVE images[i] = atoms[i] + Q * g.cell
      <4>1. g.atomLocations[i] \in Int /\ disp[i] \in Int
        BY <1>1 DEF Array
      <4>2. QED
        BY <2>2, <3>1, <3>2, <4>1
    <3>4. QED
      BY <3>3
  <2>6. Agree(moved, n)
    BY <1>6, <2>2, <2>3, <2>4, <2>5 DEF Agree
  <2>7. h = moved
    BY <1>9, <1>11 DEF initNoRemesh
  <2>8. Placed(h, n, xs)
    <3>1. \A i \in 1 .. n : (frac[i] - xs[i] \div g.cell) % Q = 0
      BY <1>6, QAssumption DEF Array
    <3>2. QED
      BY <1>11, <2>3, <2>7, <3>1 DEF Placed
  <2>9. Near(h, n)
    BY <1>8, <1>11, <2>3, <2>7 DEF Near
  <2>10. QED
    BY <1>11, <2>3, <2>6, <2>7, <2>8, <2>9 DEF Good, h
<1>12. CASE g.periodic /\ wrapped
  <2> DEFINE inside == [i \in 1 .. n |-> wrapAtomsAcrossPeriodicBc(frac[i])]
  <2>1. moved = [net EXCEPT !.atomLocationsFractional = inside]
    <3>1. [i \in DOMAIN atoms |-> wrapAtomsAcrossPeriodicBc(FractionOf(atoms[i], g.cell))] = inside
      BY <1>4, <1>5, <1>6 DEF Array
    <3> HIDE DEF inside
    <3>2. moved = MoveWrapped(net, disp)
      BY <1>3, <1>12 DEF moved
    <3>3. moved = IF \E i \in DOMAIN inside : inside[i] \notin 0 .. Q THEN Failed(net, "thrown")
                  ELSE [net EXCEPT !.atomLocationsFractional = inside]
      BY <1>3, <3>1, <3>2 DEF MoveWrapped, atoms
    <3>4. Failed(net, "thrown").status = "thrown"
      BY <1>2 DEF Failed, Positions
    <3>5. QED
      BY <1>9, <3>3, <3>4
  <2>2. /\ inside \in Array(n)
        /\ \A i \in 1 .. n : (inside[i] - frac[i]) % Q = 0
    <3>1. ASSUME NEW i \in 1 .. n
          PROVE  LET f == wrapAtomsAcrossPeriodicBc(frac[i])
                 IN  f \in Int /\ (f = frac[i] \/ f = frac[i] + Q \/ f = frac[i] - Q)
      BY <1>6, QAssumption DEF wrapAtomsAcrossPeriodicBc, Array
    <3>2. \A f \in Int : /\ (f - f) % Q = 0 /\ ((f + Q) - f) % Q = 0
                         /\ ((f - Q) - f) % Q = 0
      BY QAssumption
    <3>3. \A i \in 1 .. n : inside[i] = wrapAtomsAcrossPeriodicBc(frac[i]) /\ frac[i] \in Int
      BY <1>6 DEF Array
    <3>4. inside \in Array(n)
      BY <3>1 DEF Array
    <3> HIDE DEF inside
    <3>5. QED
      BY <3>1, <3>2, <3>3, <3>4
  <2> HIDE DEF inside
  <2>3. /\ moved \in Positions(n) /\ moved.netDisp = net.netDisp
        /\ moved.cell = g.cell /\ moved.periodic = g.periodic /\ moved.atomLocationsFractional = inside
    BY <1>2, <1>3, <1>12, <2>1, <2>2 DEF Positions
  <2>4. /\ Good(h, n)
        /\ \A i \in 1 .. n : h.netDisp[i] = IF wrapped THEN 0 ELSE moved.netDisp[i]
    <3> HIDE DEF Agree
    <3> QED
      BY <1>8, <1>9, <1>12, <2>2, <2>3, ImagesKeep
  <2>5. h.cell = g.cell /\ h.periodic = g.periodic /\ h.atomLocationsFractional = inside
    BY <1>8, <1>9, <2>3, ImagesFrac
  <2>6. Placed(h, n, xs)
    BY <1>6, <1>12, <2>2, <2>5 DEF Placed
  <2>7. Near(h, n)
    BY <1>12, <2>4, QAssumption DEF Near, Magnitude
  <2>8. QED
    BY <1>12, <2>4, <2>5, <2>6, <2>7 DEF h
<1>13. QED
  BY <1>10, <1>11, <1>12, <1>1

-----------------------------------------------------------------------------
\* What DriverAssumption says of each value.
LEMMA ConstantTypes ==
  /\ \A k \in AtomCounts \cup {0} : k \in Nat
  /\ \A c \in Cells : c \in Nat \ {0}
  /\ \A x \in Coordinates : x \in Int
BY DriverAssumption

\* The parts of a system by name.
LEMMA FieldNames ==
  /\ Field = {"natoms", "elements", "mpGrid", "mpShift", "spin", "dimensions", "cell", "coords"}
  /\ DOMAIN Order = 1 .. 8
  /\ Order[1] = "natoms"
  /\ \A k \in 2 .. 8 : Order[k] # "natoms"
BY DEF Field, CreateField, Setting, Order

\* The number of atoms starts a new system.
LEMMA NatomsFirst == InTurn("natoms") => sent = {}
<1> DEFINE i == CHOOSE k \in DOMAIN Order : Order[k] = "natoms"
<1>1. i = 1
  BY FieldNames
<1>2. "natoms" \in CreateField
  BY DEF CreateField, Setting
<1>3. {Order[k] : k \in 1 .. i - 1} = {}
  BY <1>1
<1>4. QED
  BY <1>2, <1>3 DEF InTurn

\* IInv holds before the first command.
LEMMA InvInit == Init => IInv
<1> SUFFICES ASSUME Init PROVE IInv
  OBVIOUS
<1>1. PICK dimensions \in 1 .. 3, cell \in Cells :
        d_sys = [natoms |-> 0, elements |-> <<>>, dimensions |-> dimensions, mpGrid |-> 1,
                 mpShift |-> 0, spin |-> 0, cell |-> cell, coords |-> <<>>]
  BY DEF Init
<1>2. DOMAIN d_sys = Field /\ d_sys.natoms = 0 /\ d_sys.cell \in Cells /\ d_sys.coords = <<>>
  BY <1>1, FieldNames
<1>3. TypeOK
  BY <1>2, FieldNames DEF Init, TypeOK
<1>4. ReceivedAsAsked
  BY <1>2 DEF Init, ReceivedAsAsked
<1>5. SystemInv
  BY DEF Init, SystemInv
<1>6. QED
  BY <1>3, <1>4, <1>5 DEF IInv

\* A part received changes what is wanted and what was received alike, or moves
\* the wanted atoms with the cell, by their fractions.
LEMMA ReceiveKeeps == ASSUME IInv, NEW f \in Field, Receive(f) PROVE IInv'
<1>1. PICK v \in Values(f) : d_sys' = [d_sys EXCEPT ![f] = v] /\ asked' = Wanted(f, v)
  BY DEF Receive
<1>2. /\ DOMAIN d_sys = Field /\ DOMAIN asked = Field /\ d_sys.cell \in Cells
      /\ asked.cell \in Cells /\ d_sys.natoms \in Nat /\ d_sys.natoms \in AtomCounts \cup {0}
      /\ asked.cell \in Nat \ {0}
      /\ d_flags \subseteq Field /\ sent \subseteq Field /\ told \subseteq Field
  <2>1. TypeOK
    BY DEF IInv
  <2>2. /\ DOMAIN d_sys = Field /\ DOMAIN asked = Field /\ d_sys.cell \in Cells
        /\ asked.cell \in Cells /\ d_sys.natoms \in AtomCounts \cup {0}
        /\ d_flags \subseteq Field /\ sent \subseteq Field /\ told \subseteq Field
    BY <2>1 DEF TypeOK
  <2>3. QED
    BY <2>2, ConstantTypes
<1>3. /\ job' = "running" /\ job = "running" /\ d_actionflag' = FALSE
      /\ d_flags' = d_flags \cup {f} /\ sent' = sent \cup {f} /\ told' = told \cup {f}
      /\ dft' = dft /\ settings' = settings /\ solved' = solved
  BY DEF Receive
<1>4. ReceivedAsAsked
  BY DEF IInv
<1>5. /\ f = "cell" => v \in Cells /\ v \in Nat \ {0}
      /\ f = "natoms" => v \in AtomCounts /\ v \in Nat /\ sent = {}
      /\ f = "coords" => v \in [1 .. d_sys.natoms -> Coordinates]
  BY NatomsFirst, DriverAssumption DEF Values, Receive
<1> DEFINE stretched == [i \in DOMAIN asked.coords |-> (asked.coords[i] \div asked.cell) * v]
<1>6. /\ \A k \in Field : d_sys'[k] = IF k = f THEN v ELSE d_sys[k]
      /\ DOMAIN d_sys' = Field
  BY <1>1, <1>2
<1>7. /\ DOMAIN asked' = Field
      /\ \A k \in Field : asked'[k] = IF k = f THEN v
                                     ELSE IF k = "coords" /\ f = "cell" /\ "coords" \notin sent
                                     THEN stretched ELSE asked[k]
  BY <1>1, <1>2, FieldNames DEF Wanted
<1>8. TypeOK'
  BY <1>2, <1>3, <1>5, <1>6, <1>7, FieldNames DEF IInv, TypeOK
<1>9. ASSUME f = "cell", "coords" \notin sent
      PROVE  /\ DOMAIN asked'.coords = DOMAIN asked.coords
             /\ \A i \in DOMAIN asked.coords :
                  /\ asked'.coords[i] \in Int /\ asked'.coords[i] % v = 0
                  /\ asked'.coords[i] \div v = asked.coords[i] \div asked.cell
  <2>1. asked'.coords = stretched
    BY <1>7, <1>9, FieldNames
  <2>2. ASSUME NEW i \in DOMAIN asked.coords
        PROVE  /\ stretched[i] \in Int /\ stretched[i] % v = 0
               /\ stretched[i] \div v = asked.coords[i] \div asked.cell
    <3>1. asked.coords[i] \in Int /\ asked.coords[i] \div asked.cell \in Int
      BY <1>2, <1>4, <2>2 DEF ReceivedAsAsked
    <3>2. stretched[i] = (asked.coords[i] \div asked.cell) * v
      BY <2>2
    <3>3. v \in Nat \ {0}
      BY <1>5, <1>9
    <3> DEFINE q == asked.coords[i] \div asked.cell
    <3> HIDE DEF stretched, q
    <3>4. q \in Int /\ stretched[i] = q * v
      BY <3>1, <3>2 DEF q
    <3>5. (q * v) \in Int /\ (q * v) % v = 0 /\ (q * v) \div v = q
      BY <3>3, <3>4, DivMul, MulMod
    <3>6. QED
      BY <3>4, <3>5 DEF q
  <2> HIDE DEF stretched
  <2>3. DOMAIN stretched = DOMAIN asked.coords
    BY DEF stretched
  <2>4. QED
    BY <2>1, <2>2, <2>3
<1>10. ReceivedAsAsked'
  <2>1. \A k \in Field \ {"coords"} : d_sys'[k] = asked'[k]
    BY <1>4, <1>6, <1>7 DEF ReceivedAsAsked
  <2>2. ASSUME "coords" \in sent'
        PROVE  d_sys'.coords = asked'.coords /\ d_sys'.coords \in [1 .. d_sys'.natoms -> Coordinates]
    <3>1. CASE f = "coords"
      BY <1>5, <1>6, <1>7, <3>1, FieldNames
    <3>2. CASE f # "coords"
      <4>1. "coords" \in sent /\ f # "natoms"
        BY <1>3, <1>5, <2>2, <3>2
      <4>2. QED
        BY <1>4, <1>6, <1>7, <3>2, <4>1, FieldNames DEF ReceivedAsAsked
    <3>3. QED
      BY <3>1, <3>2
  <2>3. ASSUME NEW i \in DOMAIN asked'.coords
        PROVE  asked'.coords[i] \in Int /\ asked'.coords[i] % asked'.cell = 0
    <3>1. CASE f = "coords"
      <4>1. asked'.coords = v /\ asked'.cell = asked.cell /\ v[i] \in Coordinates
        BY <1>5, <1>7, <2>3, <3>1, FieldNames
      <4>2. QED
        BY <1>2, <4>1, DriverAssumption
    <3>2. CASE f = "cell" /\ "coords" \notin sent
      BY <1>7, <1>9, <2>3, <3>2, FieldNames
    <3>3. CASE f = "cell" /\ "coords" \in sent
      <4>1. asked'.coords = d_sys.coords /\ asked'.cell = v /\ d_sys.coords[i] \in Coordinates
        BY <1>4, <1>7, <2>3, <3>3, FieldNames DEF ReceivedAsAsked
      <4>2. QED
        BY <1>5, <3>3, <4>1, DriverAssumption
    <3>4. CASE f # "cell" /\ f # "coords"
      BY <1>4, <1>7, <2>3, <3>4, FieldNames DEF ReceivedAsAsked
    <3>5. QED
      BY <3>1, <3>2, <3>3, <3>4
  <2>4. sent' \subseteq d_flags' /\ d_flags' \subseteq sent' \cup {"dimensions"}
    BY <1>3, <1>4 DEF ReceivedAsAsked
  <2>5. QED
    BY <2>1, <2>2, <2>3, <2>4 DEF ReceivedAsAsked
<1>11. SystemInv'
  <2>1. CASE dft = NoSystem
    BY <1>3, <2>1 DEF SystemInv
  <2>2. CASE dft # NoSystem
    <3>1. /\ d_flags = sent /\ settings.natoms \in Nat /\ Good(dft, settings.natoms)
          /\ sent \cap CreateField = {} => UpToDate
      BY <1>3, <2>2 DEF IInv, SystemInv
    <3>2. ASSUME sent' \cap CreateField = {} PROVE UpToDate'
      <4>1. UpToDate /\ f \in {"cell", "coords"}
        BY <1>3, <3>1, <3>2 DEF Field
      <4>2. \A k \in Setting : settings'[k] = asked'[k]
        BY <1>3, <1>7, <4>1 DEF UpToDate, Setting, Field, CreateField
      <4>3. "dimensions" \in told' => dft'.periodic = (asked'.dimensions = 2)
        BY <1>3, <1>7, <4>1, FieldNames DEF UpToDate
      <4>4. "cell" \notin sent' => dft'.cell = asked'.cell
        BY <1>3, <1>7, <4>1, FieldNames DEF UpToDate
      <4>5. ASSUME "coords" \notin sent'
            PROVE  DOMAIN asked'.coords = 1 .. settings'.natoms /\ FractionsPlaced'
        <5>1. f = "cell" /\ "coords" \notin sent /\ "cell" \in sent'
          BY <1>3, <4>1, <4>5
        <5>2. DOMAIN asked.coords = 1 .. settings.natoms /\ FractionsPlaced
          BY <4>1, <5>1 DEF UpToDate
        <5>3. asked'.cell = v
          BY <1>7, <5>1, FieldNames
        <5>4. QED
          BY <1>3, <1>9, <5>1, <5>2, <5>3 DEF FractionsPlaced
      <4>6. QED
        BY <4>2, <4>3, <4>4, <4>5 DEF UpToDate
    <3>3. (Good(dft, settings.natoms))'
      BY <1>3, <3>1 DEF Good, Agree
    <3>4. QED
      BY <1>3, <2>2, <3>1, <3>2, <3>3 DEF SystemInv
  <2>3. QED
    BY <2>1, <2>2
<1>12. QED
  BY <1>8, <1>10, <1>11 DEF IInv

\* A system made by the wrapper has its atoms at xs.
LEMMA ReinitSound ==
  ASSUME NEW n \in Nat, NEW c \in Nat \ {0}, NEW periodic \in BOOLEAN,
         NEW xs \in Array(n), \A i \in 1 .. n : xs[i] % c = 0,
         reinit(c, xs, periodic).status = "ok"
  PROVE  LET h == reinit(c, xs, periodic)
         IN  /\ Good(h, n) /\ Near(h, n) /\ Placed(h, n, xs)
             /\ h.cell = c /\ h.periodic = periodic
<1> DEFINE frac == [i \in DOMAIN xs |-> xs[i] \div c]
           centred == [i \in DOMAIN xs |-> xs[i] - HalfCell(c)]
           given == IF periodic THEN frac ELSE centred
           h == reinit(c, xs, periodic)
<1>1. frac \in Array(n) /\ \A i \in 1 .. n : frac[i] = xs[i] \div c
  <2>1. \A i \in 1 .. n : xs[i] \div c \in Int
    BY DEF Array
  <2>2. QED
    BY <2>1 DEF Array
<1>2. centred \in Array(n) /\ \A i \in 1 .. n : centred[i] + HalfCell(c) = xs[i]
  BY HalfInt DEF Array
<1>3. Failed(NoSystem, "thrown").status = "thrown"
  BY DEF Failed, NoSystem
<1>4. h = set(c, periodic, given)
  BY <1>3 DEF reinit
<1> HIDE DEF frac, centred, h
<1>5. given \in Array(n)
  BY <1>1, <1>2
<1> HIDE DEF given
<1>6. h.status = "ok"
  BY DEF h
<1>7. Good(h, n) /\ \A i \in 1 .. n : h.netDisp[i] = 0
  BY <1>4, <1>5, <1>6, NewKeeps
<1>8. Near(h, n)
  BY <1>7, QAssumption DEF Near, Magnitude
<1>9. /\ h.cell = c /\ h.periodic = periodic
      /\ periodic => h.atomLocationsFractional = given
      /\ ~ periodic => h.atomLocations = given
  BY <1>4, <1>5, <1>6, NewRest
<1>10. Placed(h, n, xs)
  <2>1. CASE periodic
    <3>1. \A i \in 1 .. n : h.atomLocationsFractional[i] = xs[i] \div c /\ xs[i] \div c \in Int
      BY <1>1, <1>9, <2>1 DEF given, Array
    <3>2. QED
      BY <1>9, <2>1, <3>1, QAssumption DEF Placed
  <2>2. CASE ~ periodic
    BY <1>2, <1>9, <2>2 DEF Placed, given
  <2>3. QED
    BY <2>1, <2>2
<1>11. QED
  BY <1>7, <1>8, <1>9, <1>10 DEF h

\* So a new system is the one asked for.
LEMMA CreateSound ==
  ASSUME IInv, create_system.status = "ok"
  PROVE  /\ d_sys.natoms \in Nat /\ DOMAIN asked.coords = 1 .. d_sys.natoms
         /\ Good(create_system, d_sys.natoms) /\ Near(create_system, d_sys.natoms)
         /\ Placed(create_system, d_sys.natoms, asked.coords)
         /\ create_system.cell = asked.cell
         /\ create_system.periodic = (asked.dimensions = 2)
<1>1. Failed(NoSystem, "thrown").status = "thrown"
  BY DEF Failed, NoSystem
<1>2. /\ Field \subseteq d_flags
      /\ create_system = reinit(d_sys.cell, d_sys.coords, d_sys.dimensions = 2)
  BY <1>1 DEF create_system
<1>3. TypeOK /\ ReceivedAsAsked
  BY DEF IInv
<1>4. d_sys.natoms \in Nat /\ asked.cell \in Nat \ {0}
  BY <1>3, ConstantTypes DEF TypeOK
<1>5. d_sys.cell = asked.cell /\ d_sys.dimensions = asked.dimensions
  BY <1>3, FieldNames DEF ReceivedAsAsked
<1>6. "coords" \in sent
  BY <1>2, <1>3, FieldNames DEF ReceivedAsAsked
<1>7. d_sys.coords = asked.coords /\ d_sys.coords \in [1 .. d_sys.natoms -> Coordinates]
  BY <1>3, <1>6 DEF ReceivedAsAsked
<1>8. /\ asked.coords \in Array(d_sys.natoms) /\ DOMAIN asked.coords = 1 .. d_sys.natoms
      /\ \A i \in 1 .. d_sys.natoms : asked.coords[i] % asked.cell = 0
  BY <1>3, <1>7, ConstantTypes DEF ReceivedAsAsked, Array
<1>9. (asked.dimensions = 2) \in BOOLEAN
  OBVIOUS
<1>10. create_system = reinit(asked.cell, asked.coords, asked.dimensions = 2)
  BY <1>2, <1>5, <1>7
<1>11. QED
  BY <1>4, <1>8, <1>9, <1>10, ReinitSound

\* And so is the old one with its cell deformed and its atoms moved, in this order.
LEMMA AdjustSound ==
  ASSUME IInv, job = "running", dft # NoSystem, d_flags \cap CreateField = {},
         adjusted.status = "ok"
  PROVE  /\ settings.natoms \in Nat /\ DOMAIN asked.coords = 1 .. settings.natoms
         /\ Good(adjusted, settings.natoms) /\ Near(adjusted, settings.natoms)
         /\ Placed(adjusted, settings.natoms, asked.coords)
         /\ adjusted.cell = asked.cell /\ adjusted.periodic = dft.periodic
<1> DEFINE n == settings.natoms
           box == adjust_box(dft)
<1>1. TypeOK /\ ReceivedAsAsked /\ SystemInv
  BY DEF IInv
<1>2. n \in Nat /\ Good(dft, n) /\ d_flags = sent /\ UpToDate
  BY <1>1 DEF SystemInv
<1>3. /\ asked.cell \in Nat \ {0} /\ d_sys.cell = asked.cell /\ d_sys.natoms = asked.natoms
      /\ asked.natoms = n
  BY <1>1, <1>2, ConstantTypes, FieldNames DEF TypeOK, ReceivedAsAsked, UpToDate, Setting
<1>4. dft.status = "ok" /\ Near(dft, n)
  BY <1>1, <1>2 DEF Good, Positions, TypeOK, Near
<1>5. adjusted = adjust_coords(box)
  BY DEF adjusted
<1> HIDE DEF n
<1>6. box.status = "ok"
  BY <1>5 DEF adjust_coords
<1>7. /\ Good(box, n) /\ Near(box, n) /\ box.cell = asked.cell /\ box.periodic = dft.periodic
      /\ "coords" \notin sent => Placed(box, n, asked.coords)
  <2>1. CASE "cell" \notin sent
    <3>1. box = dft /\ box.cell = asked.cell
      BY <1>2, <2>1 DEF adjust_box, UpToDate
    <3>2. QED
      BY <1>2, <1>4, <2>1, <3>1 DEF UpToDate, FractionsPlaced, Placed, n
  <2>2. CASE "cell" \in sent
    <3>1. box = deformDomain(dft, asked.cell)
      BY <1>2, <1>3, <1>4, <2>2 DEF adjust_box
    <3> HIDE DEF box
    <3>2. /\ Good(box, n) /\ box.cell = asked.cell /\ box.periodic = dft.periodic
          /\ box.netDisp = dft.netDisp
          /\ box.atomLocationsFractional = dft.atomLocationsFractional
          /\ ~ dft.periodic => n = 0
      BY <1>2, <1>3, <1>6, <3>1, DeformKeeps
    <3>3. QED
      BY <1>2, <1>4, <3>2 DEF UpToDate, FractionsPlaced, Placed, Near, n
  <2>3. QED
    BY <2>1, <2>2
<1>8. CASE "coords" \notin sent
  <2>1. adjusted = box
    BY <1>2, <1>5, <1>8 DEF adjust_coords
  <2>2. DOMAIN asked.coords = 1 .. n
    BY <1>2, <1>8 DEF UpToDate, n
  <2>3. QED
    BY <1>2, <1>7, <1>8, <2>1, <2>2 DEF n
<1>9. CASE "coords" \in sent
  <2> DEFINE current == getAtomPositionsCart(box)
             disp == [i \in 1 .. n |-> asked.coords[i] - current[i]]
  <2>1. d_sys.coords = asked.coords /\ asked.coords \in [1 .. n -> Coordinates]
    BY <1>1, <1>3, <1>9 DEF ReceivedAsAsked
  <2>2. /\ asked.coords \in Array(n) /\ DOMAIN asked.coords = 1 .. n
        /\ \A i \in 1 .. n : asked.coords[i] % box.cell = 0
    BY <1>1, <1>7, <2>1, ConstantTypes DEF ReceivedAsAsked, Array
  <2>3. adjusted = updateAtomPositionsAndMoveMesh(box, disp)
    BY <1>2, <1>3, <1>5, <1>6, <1>9, <2>1 DEF adjust_coords
  <2> HIDE DEF box
  <2>4. box.atomLocations \in Array(n) /\ HalfCell(box.cell) \in Int
    BY <1>3, <1>7, HalfInt DEF Good, Positions
  <2>5. \A i \in 1 .. n : current[i] = box.atomLocations[i] + HalfCell(box.cell)
    BY <2>4 DEF getAtomPositionsCart, Array
  <2> HIDE DEF current
  <2>6. \A i \in 1 .. n : current[i] \in Int /\ asked.coords[i] \in Int
    <3>1. \A i \in 1 .. n : box.atomLocations[i] \in Int /\ asked.coords[i] \in Int
      BY <2>2, <2>4 DEF Array
    <3>2. QED
      BY <2>4, <2>5, <3>1
  <2>7. disp \in Array(n)
    BY <2>6 DEF Array
  <2>8. \A i \in 1 .. n : disp[i] = asked.coords[i] - (box.atomLocations[i] + HalfCell(box.cell))
    BY <2>5
  <2> HIDE DEF disp
  <2>9. QED
    BY <1>2, <1>7, <2>2, <2>3, <2>7, <2>8, MoveKeeps DEF n
<1>10. QED
  BY <1>8, <1>9

\* A request ends the job, or leaves the dft object as the system asked for: the
\* old answer, a new system, or an adjusted one.
LEMMA RequestKeeps == ASSUME IInv, NEW what, Request(what) PROVE IInv'
<1> DEFINE g == IF d_actionflag THEN dft ELSE evaluated
           after == IF what = "<STRESS" /\ g.status = "ok"
                    THEN computeVselfFieldGateauxDerFD(g) ELSE g
           n == settings'.natoms
<1>1. /\ job = "running" /\ dft' = after /\ d_actionflag' = TRUE /\ sent' = {}
      /\ job' = IF after.status = "ok" THEN "running" ELSE "ended"
      /\ d_flags' = IF d_actionflag THEN d_flags ELSE {}
      /\ d_sys' = d_sys /\ asked' = asked /\ told' = told
  BY DEF Request
<1>2. /\ settings' = IF d_actionflag \/ d_flags \cap CreateField = {} THEN settings
                     ELSE SettingsOf(d_sys)
      /\ solved' = IF d_actionflag \/ g.status # "ok" THEN solved
                   ELSE [dft |-> g, settings |-> settings']
  BY DEF Request
<1>3. TypeOK /\ ReceivedAsAsked /\ SystemInv
  BY DEF IInv
<1>4. d_flags' = {}
  BY <1>1, <1>3 DEF SystemInv
<1>5. ReceivedAsAsked'
  BY <1>1, <1>3, <1>4 DEF ReceivedAsAsked
<1> HIDE DEF g, after
<1>6. CASE after.status # "ok"
  <2>1. job' = "ended"
    BY <1>1, <1>6
  <2>2. TypeOK'
    BY <1>1, <1>3, <1>4, <2>1 DEF TypeOK
  <2>3. QED
    BY <1>5, <2>1, <2>2 DEF IInv, SystemInv
<1>7. CASE after.status = "ok"
  <2>1. g.status = "ok"
    BY <1>7 DEF after
  <2> DEFINE Answer ==
        /\ n \in Nat /\ DOMAIN asked.coords = 1 .. n
        /\ Good(g, n) /\ Near(g, n) /\ Placed(g, n, asked.coords)
        /\ g.cell = asked.cell
        /\ "dimensions" \in told => g.periodic = (asked.dimensions = 2)
        /\ \A f \in Setting : settings'[f] = asked[f]
        /\ solved' = [dft |-> g, settings |-> settings']
  <2>2. ASSUME d_actionflag PROVE Answer
    <3>1. /\ dft # NoSystem /\ sent = {} /\ g = dft /\ settings' = settings
          /\ solved' = [dft |-> dft, settings |-> settings]
      BY <1>1, <1>2, <1>3, <2>2 DEF SystemInv, g
    <3>2. n \in Nat /\ Good(dft, n) /\ UpToDate
      BY <1>1, <1>3, <3>1 DEF SystemInv
    <3>3. Near(dft, n)
      BY <1>1, <1>3, <3>1 DEF TypeOK, Near
    <3>4. Placed(dft, n, asked.coords)
      BY <3>1, <3>2 DEF UpToDate, FractionsPlaced, Placed
    <3>5. QED
      BY <3>1, <3>2, <3>3, <3>4 DEF UpToDate
  <2>3. ASSUME ~ d_actionflag, d_flags \cap CreateField # {} PROVE Answer
    <3>1. g = create_system /\ settings' = SettingsOf(d_sys)
      BY <1>2, <2>3 DEF g, evaluated
    <3>2. \A f \in Setting : settings'[f] = asked[f]
      BY <1>3, <3>1, FieldNames DEF SettingsOf, ReceivedAsAsked, Setting
    <3>3. settings'.natoms = d_sys.natoms
      BY <3>1 DEF SettingsOf, Setting
    <3>4. solved' = [dft |-> g, settings |-> settings']
      BY <1>2, <2>1, <2>3
    <3>5. QED
      BY <2>1, <3>1, <3>2, <3>3, <3>4, CreateSound
  <2>4. ASSUME ~ d_actionflag, d_flags \cap CreateField = {} PROVE Answer
    <3>1. settings' = settings /\ solved' = [dft |-> g, settings |-> settings']
      BY <1>2, <2>1, <2>4
    <3>2. dft # NoSystem
      BY <2>1, <2>4 DEF g, evaluated, Failed, NoSystem
    <3>3. g = adjusted
      BY <2>4, <3>2 DEF g, evaluated
    <3>4. d_flags = sent /\ UpToDate
      BY <1>1, <1>3, <2>4, <3>2 DEF SystemInv
    <3>5. QED
      BY <1>1, <2>1, <2>4, <3>1, <3>2, <3>3, <3>4, AdjustSound DEF UpToDate
  <2>5. Answer
    BY <2>2, <2>3, <2>4
  <2>6. after = g
    BY <1>7, <2>1, <2>5, StressKeeps DEF after
  <2>7. dft' = g /\ job' = "running" /\ g # NoSystem
    BY <1>1, <1>7, <2>1, <2>6 DEF NoSystem
  <2> HIDE DEF n
  <2>8. TypeOK'
    <3>1. /\ dft' \in Positions(n) /\ solved'.dft \in Positions(n)
          /\ \A i \in 1 .. n : Magnitude(dft'.netDisp[i]) < HalfBohr
      BY <2>5, <2>7 DEF Good, Near
    <3>2. QED
      BY <1>1, <1>3, <1>4, <2>7, <3>1 DEF TypeOK, n
  <2>9. UpToDate'
    <3>1. FractionsPlaced'
      BY <1>1, <2>5, <2>7 DEF FractionsPlaced, Placed, n
    <3>2. QED
      BY <1>1, <2>5, <2>7, <3>1 DEF UpToDate, n
  <2>10. (Good(dft, settings.natoms))'
    BY <2>5, <2>7 DEF Good, Agree, n
  <2>11. SystemInv'
    BY <1>1, <1>4, <2>5, <2>7, <2>9, <2>10 DEF SystemInv, n
  <2>12. QED
    BY <1>5, <2>8, <2>11 DEF IInv
<1>8. QED
  BY <1>6, <1>7

\* Nothing is claimed of a job that ended.
LEMMA ExitKeeps == ASSUME IInv, Exit PROVE IInv'
<1>1. /\ job' = "ended"
      /\ UNCHANGED <<d_sys, d_flags, d_actionflag, settings, asked, sent, told, solved>>
  BY DEF Exit
<1>2. QED
  BY <1>1 DEF IInv, TypeOK, ReceivedAsAsked, SystemInv

\* IInv is inductive.
LEMMA InvNext == IInv /\ [Next]_vars => IInv'
<1> SUFFICES ASSUME IInv, [Next]_vars PROVE IInv'
  OBVIOUS
<1>1. CASE UNCHANGED vars
  BY <1>1 DEF vars, IInv, TypeOK, ReceivedAsAsked, SystemInv, UpToDate, FractionsPlaced,
              Good, Agree
<1>2. ASSUME NEW f \in Field, Receive(f) PROVE IInv'
  BY <1>2, ReceiveKeeps
<1>3. ASSUME NEW what \in {"<ENERGY", "<STRESS"}, Request(what) PROVE IInv'
  BY <1>3, RequestKeeps
<1>4. CASE Exit
  BY <1>4, ExitKeeps
<1>5. QED
  BY <1>1, <1>2, <1>3, <1>4 DEF Next

\* So it holds in every reachable state.
LEMMA Invariant == Spec => []IInv
BY InvInit, InvNext, PTL DEF Spec

\* The members of the engine and of the dft object always have their types, and
\* an atom whose bins are kept is less than half a bohr from where they were made.
THEOREM TypeCorrect == Spec => []TypeOK
<1>1. IInv => TypeOK
  BY DEF IInv
<1>2. QED
  BY <1>1, Invariant, PTL

\* Through all the deformations and moves of all the requests, the two copies of
\* an atom's position agree, and so does its image.
THEOREM CopiesAlwaysAgree == Spec => []CopiesAgree
<1>1. IInv => CopiesAgree
  <2> SUFFICES ASSUME IInv, Running(dft), dft.periodic PROVE
        /\ dft.atomLocations = CellCentered(dft.atomLocationsFractional, dft.cell)
        /\ dft.d_imagePositions = [i \in DOMAIN dft.atomLocations |->
                                     dft.atomLocations[i] + Q * dft.cell]
    BY DEF CopiesAgree
  <2> DEFINE n == settings.natoms
  <2>1. dft # NoSystem
    BY DEF Running, NoSystem
  <2>2. Good(dft, n)
    BY <2>1 DEF IInv, SystemInv, Running
  <2>3. Agree(dft, n) /\ dft.atomLocations \in Array(n)
    BY <2>2 DEF Good, Positions
  <2>4. QED
    BY <2>3 DEF Agree, Array, CellCentered
<1>2. QED
  BY <1>1, Invariant, PTL

\* After every reply, to a request for the stress too, the dft object is the
\* system that was solved for.
THEOREM StressLeavesNothingBehind == Spec => []StressLeavesNothing
<1>1. IInv => StressLeavesNothing
  <2> SUFFICES ASSUME IInv, Running(dft), d_actionflag PROVE dft = solved.dft
    BY DEF StressLeavesNothing
  <2>1. dft # NoSystem
    BY DEF Running, NoSystem
  <2>2. QED
    BY <2>1 DEF IInv, SystemInv, Running
<1>2. QED
  BY <1>1, Invariant, PTL

\* Whatever the driver sends, in whatever order, every reply is about the system
\* it asked for.
THEOREM RepliesCorrect == Spec => []RepliesAreOfTheSystemAsked
<1>1. IInv => RepliesAreOfTheSystemAsked
  <2> SUFFICES ASSUME IInv, Running(dft), d_actionflag PROVE RepliesAreOfTheSystemAsked
    BY DEF RepliesAreOfTheSystemAsked
  <2> DEFINE n == settings.natoms
             g == solved.dft
             there == getAtomPositionsCart(g)
             c == g.cell
             Same(x, y) == IF g.periodic THEN (x - y) % (Q * c) = 0 ELSE x = y
  <2>1. dft # NoSystem
    BY DEF Running, NoSystem
  <2>2. /\ g = dft /\ solved.settings = settings /\ sent = {}
        /\ n \in Nat /\ Good(g, n) /\ UpToDate
    BY <2>1 DEF IInv, SystemInv, Running
  <2>3. /\ c = asked.cell /\ \A f \in Setting : solved.settings[f] = asked[f]
        /\ "dimensions" \in told => g.periodic = (asked.dimensions = 2)
        /\ DOMAIN asked.coords = 1 .. n /\ FractionsPlaced /\ n = asked.natoms
    BY <2>2 DEF UpToDate, Setting
  <2>4. c \in Nat \ {0} /\ g.atomLocations \in Array(n) /\ HalfCell(c) \in Int
    BY <2>2, HalfInt DEF Good, Positions
  <2>5. DOMAIN there = 1 .. n /\ \A i \in 1 .. n : there[i] = g.atomLocations[i] + HalfCell(c)
    BY <2>4 DEF getAtomPositionsCart, Array
  <2> HIDE DEF c, there
  <2>6. ASSUME NEW i \in 1 .. n PROVE Same(there[i], asked.coords[i])
    <3>1. CASE g.periodic
      <4> DEFINE x == asked.coords[i]
                 q == x \div c
                 f == g.atomLocationsFractional[i]
      <4>1. x \in Int /\ x % c = 0
        BY <2>3, <2>6 DEF IInv, ReceivedAsAsked
      <4>2. q \in Int /\ q * c = x
        BY <2>4, <4>1, ModMul
      <4>3. f \in Int /\ there[i] = f * c
        <5>1. /\ f \in Int
              /\ g.atomLocations[i] = f * g.cell - HalfCell(g.cell)
          BY <2>2, <2>6, <3>1 DEF Good, Agree, Array
        <5> HIDE DEF f
        <5>2. QED
          BY <2>4, <2>5, <2>6, <5>1 DEF c
      <4>4. (f - q) % Q = 0
        BY <2>2, <2>3, <2>6, <3>1 DEF FractionsPlaced
      <4> HIDE DEF x, q, f
      <4>5. there[i] - x = ((f - q) \div Q) * (Q * c)
        <5>1. ((f - q) \div Q) * Q = f - q
          BY <4>2, <4>3, <4>4, QAssumption, ModMul
        <5>2. there[i] - x = (f - q) * c
          BY <2>4, <4>2, <4>3
        <5>3. (f - q) \div Q \in Int
          BY <4>2, <4>3, QAssumption
        <5> QED
          BY <2>4, <5>1, <5>2, <5>3, QAssumption
      <4>6. Q * c \in Nat \ {0} /\ (f - q) \div Q \in Int
        BY <2>4, <4>2, <4>3, QAssumption
      <4>7. (there[i] - x) % (Q * c) = 0
        BY <4>5, <4>6, MulMod
      <4>8. QED
        BY <3>1, <4>7 DEF x
    <3>2. CASE ~ g.periodic
      <4>1. "cell" \notin sent
        BY <2>2
      <4>2. there[i] = asked.coords[i]
        BY <2>2, <2>3, <2>5, <2>6, <3>2, <4>1 DEF FractionsPlaced, c
      <4>3. QED
        BY <3>2, <4>2
    <3>3. QED
      BY <3>1, <3>2
  <2>7. QED
    BY <2>3, <2>5, <2>6 DEF RepliesAreOfTheSystemAsked, c, there
<1>2. QED
  BY <1>1, Invariant, PTL
=============================================================================
