--------------------------- MODULE SequentialMeaning ---------------------------
(***************************************************************************)
(* What the ghost exchange of MPICommunicatorP2P is for: the same program  *)
(* run on one global vector for each distributed one, one operation at a   *)
(* time, without ranks and messages.  Meaning(prog)[n] gives all entries   *)
(* after n operations.  An update copies the owner's entries as they were  *)
(* when it began, an accumulation adds all ghost entries of an index to    *)
(* the owner's entry.                                                      *)
(***************************************************************************)
EXTENDS MPICommunicatorP2P

\* The last of the first n operations of a program that is on v, 0 if none is.
Latest(prog, n, v) ==
  LET on == {m \in 1 .. n : prog[m].v = v}
  IN  IF on = {} THEN 0 ELSE Max(on)

LatestIs(prog, n, op, v) == Latest(prog, n, v) # 0 /\ prog[Latest(prog, n, v)].op = op

\* Callers end an exchange of a vector before they do anything else with it.
ASSUME ExchangeAssumption ==
  \A prog \in Programs : \A n \in 1 .. Len(prog) :
    /\ prog[n].v \in Vec
    /\ prog[n].op = "updateEnd" <=> LatestIs(prog, n - 1, "updateBegin", prog[n].v)
    /\ prog[n].op = "accumulateEnd" <=> LatestIs(prog, n - 1, "accumulateBegin", prog[n].v)

-----------------------------------------------------------------------------
\* After which of the first n operations the n-th finds the entries it copies.
BeginOf(prog, n) ==
  IF prog[n].op = "updateEnd"
  THEN Max({m \in 1 .. n : prog[m].op = "updateBegin" /\ prog[m].v = prog[n].v})
  ELSE n - 1

\* All ghost entries of index g, added up.
Contributions(M, v, g) ==
  MapThenSumSet(LAMBDA q : M.ghost[q][v][localGhostIndex(GhostIndices[v][q], g)],
                {q \in Rank : g \in GhostIndices[v][q]})

AfterOwned(prog, n, M, p, v) ==
  CASE prog[n] = [op |-> "compute", v |-> v] ->
         [i \in localOwned(p, v) |-> Computed(p, n - 1, Global(p, v, i))]
    [] prog[n] = [op |-> "accumulateEnd", v |-> v] ->
         [i \in localOwned(p, v) |->
            M.owned[p][v][i] + Contributions(M, v, Global(p, v, i))]
    [] OTHER -> M.owned[p][v]

AfterGhost(prog, n, M, Began, p, v) ==
  CASE prog[n] = [op |-> "compute", v |-> v] ->
         [j \in localGhost(p, v) |-> Computed(p, n - 1, GhostAt(p, v, j))]
    [] prog[n] = [op |-> "zeroOutGhosts", v |-> v] -> Zero(localGhost(p, v))
    [] prog[n] = [op |-> "updateEnd", v |-> v] ->
         [j \in localGhost(p, v) |->
            LET g == GhostAt(p, v, j)
                k == OwnerOf(v, g)
            IN  Began.owned[k][v][g - OwnedRanges[v][k].first]]
    [] OTHER -> M.ghost[p][v]

Blank ==
  [owned |-> [p \in Rank |-> [v \in Vec |-> Zero(localOwned(p, v))]],
   ghost |-> [p \in Rank |-> [v \in Vec |-> Zero(localGhost(p, v))]]]

After(prog, n, M, Began) ==
  [owned |-> [p \in Rank |-> [v \in Vec |-> AfterOwned(prog, n, M, p, v)]],
   ghost |-> [p \in Rank |-> [v \in Vec |-> AfterGhost(prog, n, M, Began, p, v)]]]

Meaning(prog) ==
  LET M[n \in 0 .. Len(prog)] ==
        IF n = 0 THEN Blank ELSE After(prog, n, M[n - 1], M[BeginOf(prog, n)])
  IN  M

-----------------------------------------------------------------------------
\* The ghost section of a vector is sorted by index and cut into segments in the
\* order of the owners' ranks, which is the same order only in this case.
RanksInOrder ==
  \A v \in Vec : \A p \in Rank : \A g, h \in GhostIndices[v][p] :
    g < h => procIdOf(OwnedRanges[v], g) <= procIdOf(OwnedRanges[v], h)

\* However the ranks and the messages interleave, a rank that has run n
\* operations holds what n operations on one global vector leave there; the
\* ghost entries of an update that is open are not looked at.
MatchesSequential ==
  LET M == Meaning(program)
  IN  \A p \in Rank : \A v \in Vec :
        /\ owned[p][v] = M[pos[p]].owned[p][v]
        /\ ~InUpdate(p, v) => ghost[p][v] = M[pos[p]].ghost[p][v]
=============================================================================
