--------------------- MODULE MPICommunicatorP2P_proof ---------------------
(***************************************************************************)
(* Messages of the ghost exchange reach their vector, none outlives its    *)
(* operation, and the vectors come out as if the operations had been done  *)
(* one at a time, for every number of ranks, all vectors, patterns and     *)
(* programs; and the Chebyshev filter, which is such a program with        *)
(* kernels and swaps in between, uses the exchange as it must be used, for *)
(* every degree.                                                           *)
(*                                                                         *)
(* All ranks run one program.  What a rank has sent to another with one    *)
(* tag are operations of a prefix of the program, in its order, and so is  *)
(* what the other has posted receives for.  MPI removes the oldest of both *)
(* at once: the queues hold the operations between one common place and    *)
(* the positions of the two ranks, however far these are apart.            *)
(*                                                                         *)
(* The parts, in order: lists and queues (IInv: which operation each       *)
(* message is of), sums and segments, the types of the memory and of the   *)
(* messages (TInv), the meaning of a program, and what is where while an   *)
(* exchange is open (SInv): a message has the data of its operation, and   *)
(* an entry that waits for none has the meaning of the program.  Then the  *)
(* filter: what each of its operations does to the exchanges that are open *)
(* and to the ghosts that are clear, how the degrees fit together, and the *)
(* invariant of its run (FInv).                                            *)
(***************************************************************************)
EXTENDS ChebyshevFilter, SequentialMeaning, PatternData_proof

\* f lists the n elements of S in increasing order.
Lists(f, n, S) ==
  /\ f \in [1 .. n -> S]
  /\ \A i, j \in 1 .. n : i < j => f[i] < f[j]
  /\ \A m \in S : \E i \in 1 .. n : f[i] = m

\* The elements of U up to a bound.
UpTo(U, a) == {x \in U : x <= a}

\* Of two sets that are the elements of one set up to two bounds, the lists agree
\* as far as both go.
LEMMA ListsAgree ==
  \A U \in SUBSET Nat : \A a, b, n, m \in Nat : \A f, g :
    Lists(f, n, UpTo(U, a)) /\ Lists(g, m, UpTo(U, b)) =>
      \A i \in (1 .. n) \cap (1 .. m) : f[i] = g[i]
<1> SUFFICES ASSUME NEW U \in SUBSET Nat, NEW a \in Nat, NEW b \in Nat,
                    NEW n \in Nat, NEW f, Lists(f, n, UpTo(U, a)),
                    NEW m \in Nat, NEW g, Lists(g, m, UpTo(U, b))
             PROVE  \A i \in (1 .. n) \cap (1 .. m) : f[i] = g[i]
  OBVIOUS
<1> DEFINE bad == {i \in (1 .. n) \cap (1 .. m) : f[i] # g[i]}
<1>1. SUFFICES ASSUME bad # {} PROVE FALSE
  OBVIOUS
<1>2. PICK i \in bad : \A j \in bad : i <= j
  <2>1. bad \in SUBSET Nat
    OBVIOUS
  <2> HIDE DEF bad
  <2>2. QED
    BY <1>1, <2>1, LeastNumber
<1>3. /\ f[i] \in U /\ f[i] <= a /\ g[i] \in U /\ g[i] <= b
      /\ f[i] \in Nat /\ g[i] \in Nat /\ f[i] # g[i] /\ i \in 1 .. n /\ i \in 1 .. m
  BY <1>2 DEF Lists, UpTo
<1>4. CASE f[i] < g[i]
  <2>1. PICK j \in 1 .. m : g[j] = f[i]
    <3>1. f[i] <= b
      BY <1>3, <1>4
    <3>2. QED
      BY <1>3, <3>1 DEF Lists, UpTo
  <2>2. j < i
    BY <1>3, <1>4, <2>1 DEF Lists
  <2>3. j \in 1 .. n /\ f[j] = g[j]
    BY <1>2, <1>3, <2>2
  <2>4. f[j] < f[i]
    BY <1>3, <2>2, <2>3 DEF Lists
  <2>5. QED
    BY <1>3, <2>1, <2>3, <2>4
<1>5. CASE g[i] < f[i]
  <2>1. PICK j \in 1 .. n : f[j] = g[i]
    <3>1. g[i] <= a
      BY <1>3, <1>5
    <3>2. QED
      BY <1>3, <3>1 DEF Lists, UpTo
  <2>2. j < i
    BY <1>3, <1>5, <2>1 DEF Lists
  <2>3. j \in 1 .. m /\ f[j] = g[j]
    BY <1>2, <1>3, <2>2
  <2>4. g[j] < g[i]
    BY <1>3, <2>2, <2>3 DEF Lists
  <2>5. QED
    BY <1>3, <2>1, <2>3, <2>4
<1>6. QED
  BY <1>3, <1>4, <1>5

\* A list with a greater element behind it.
LEMMA ListGrows ==
  ASSUME NEW n \in Nat, NEW S \in SUBSET Nat, NEW f, Lists(f, n, S),
         NEW x \in Nat, \A y \in S : y < x
  PROVE  Lists([i \in 1 .. n + 1 |-> IF i = n + 1 THEN x ELSE f[i]], n + 1, S \cup {x})
<1> DEFINE g == [i \in 1 .. n + 1 |-> IF i = n + 1 THEN x ELSE f[i]]
<1>1. \A i \in 1 .. n + 1 : i # n + 1 => i \in 1 .. n /\ f[i] \in S
  BY DEF Lists
<1>2. g \in [1 .. n + 1 -> S \cup {x}]
  BY <1>1
<1>3. \A i, j \in 1 .. n + 1 : i < j => g[i] < g[j]
  <2> SUFFICES ASSUME NEW i \in 1 .. n + 1, NEW j \in 1 .. n + 1, i < j PROVE g[i] < g[j]
    OBVIOUS
  <2>1. i \in 1 .. n /\ g[i] = f[i] /\ f[i] \in S
    BY <1>1
  <2>2. CASE j = n + 1
    BY <2>1, <2>2
  <2>3. CASE j # n + 1
    <3>1. j \in 1 .. n /\ g[j] = f[j]
      BY <2>3
    <3>2. QED
      BY <2>1, <3>1 DEF Lists
  <2>4. QED
    BY <2>2, <2>3
<1>4. \A m \in S \cup {x} : \E i \in 1 .. n + 1 : g[i] = m
  <2> SUFFICES ASSUME NEW m \in S \cup {x} PROVE \E i \in 1 .. n + 1 : g[i] = m
    OBVIOUS
  <2>1. CASE m = x
    <3>1. n + 1 \in 1 .. n + 1 /\ g[n + 1] = x
      OBVIOUS
    <3>2. QED
      BY <2>1, <3>1
  <2>2. CASE m # x
    <3>1. PICK i \in 1 .. n : f[i] = m
      BY <2>2 DEF Lists
    <3>2. i \in 1 .. n + 1 /\ g[i] = m
      BY <3>1
    <3>3. QED
      BY <3>2
  <2>3. QED
    BY <2>1, <2>2
<1> HIDE DEF g
<1>5. QED
  BY <1>2, <1>3, <1>4 DEF Lists, g

\* A list without its first element lists what is greater than that one.
LEMMA ListShrinks ==
  ASSUME NEW n \in Nat, n >= 1, NEW S \in SUBSET Nat, NEW f, Lists(f, n, S)
  PROVE  /\ f[1] \in S
         /\ Lists([i \in 1 .. n - 1 |-> f[i + 1]], n - 1, {x \in S : f[1] < x})
<1> DEFINE g == [i \in 1 .. n - 1 |-> f[i + 1]]
           T == {x \in S : f[1] < x}
<1>1. f[1] \in S /\ \A i \in 1 .. n - 1 : i + 1 \in 1 .. n /\ f[i + 1] \in S /\ f[1] < f[i + 1]
  BY DEF Lists
<1>2. g \in [1 .. n - 1 -> T]
  BY <1>1
<1>3. \A i, j \in 1 .. n - 1 : i < j => g[i] < g[j]
  BY <1>1 DEF Lists
<1>4. \A m \in T : \E i \in 1 .. n - 1 : g[i] = m
  <2> SUFFICES ASSUME NEW m \in T PROVE \E i \in 1 .. n - 1 : g[i] = m
    OBVIOUS
  <2>1. PICK i \in 1 .. n : f[i] = m
    BY DEF Lists
  <2>2. i # 1
    BY <1>1, <2>1
  <2>3. i - 1 \in 1 .. n - 1 /\ g[i - 1] = m
    BY <2>1, <2>2
  <2>4. QED
    BY <2>3
<1> HIDE DEF g, T
<1>5. QED
  BY <1>1, <1>2, <1>3, <1>4 DEF Lists, g, T

-----------------------------------------------------------------------------
\* The operation that sends with tag t.
BeginOp(t) == IF t = Scatter THEN "updateBegin" ELSE "accumulateBegin"

\* p has something to send to q at that operation on v.
Exchanged(p, q, t, v) ==
  IF t = Scatter THEN p \in getGhostProcIds(q, v) ELSE q \in getGhostProcIds(p, v)

\* The places in the program where p sends to q with tag t.
Exchanges(p, q, t) ==
  {n \in 1 .. Len(program) :
     \E v \in Vec : program[n] = [op |-> BeginOp(t), v |-> v] /\ Exchanged(p, q, t, v)}

\* Those behind place c, up to place n.
Between(p, q, t, c, n) == {m \in Exchanges(p, q, t) : c < m /\ m <= n}

\* The vectors vs are those of the operations in S, in their order.
Follows(vs, S) ==
  \E f : Lists(f, Len(vs), S) /\ \A i \in 1 .. Len(vs) : vs[i] = program[f[i]].v

\* The vectors of a queue of sends.
Vectors(messages) == [i \in 1 .. Len(messages) |-> messages[i].v]

\* A queue of messages.
IsQueue(s) ==
  /\ Len(s) \in Nat
  /\ s = [i \in 1 .. Len(s) |-> [v |-> s[i].v, data |-> s[i].data]]
  /\ \A i \in 1 .. Len(s) : s[i].v \in Vec

\* One queue for two ranks and a tag.
IsTable(f) == f = [a \in Rank |-> [b \in Rank |-> [u \in Tag |-> f[a][b][u]]]]

\* The shapes of the queues.
QueuesOK ==
  /\ program \in Programs
  /\ pos \in [Rank -> Nat]
  /\ \A p \in Rank : pos[p] <= Len(program)
  /\ IsTable(sends) /\ IsTable(receives)
  /\ \A p, q \in Rank : \A t \in Tag : IsQueue(sends[p][q][t]) /\ receives[p][q][t] \in Seq(Vec)

\* The queues of one pair of ranks and one tag hold what lies between a common place
\* of the program and the positions of the two.
FollowProgram(p, q, t) ==
  \E c \in Nat :
    /\ c <= pos[p] /\ c <= pos[q]
    /\ Follows(Vectors(sends[p][q][t]), Between(p, q, t, c, pos[p]))
    /\ Follows(receives[q][p][t], Between(p, q, t, c, pos[q]))

\* The inductive invariant.
IInv ==
  /\ QueuesOK
  /\ \A p, q \in Rank : \A t \in Tag : FollowProgram(p, q, t)
  /\ NothingOutlivesItsOperation

-----------------------------------------------------------------------------
\* A queue is a sequence of its messages.
LEMMA QueueIsSeq ==
  ASSUME NEW s, IsQueue(s)
  PROVE  s \in Seq({s[i] : i \in 1 .. Len(s)})
<1> DEFINE n == Len(s)
           T == {s[i] : i \in 1 .. n}
<1>1. n \in Nat /\ DOMAIN s = 1 .. n
  BY DEF IsQueue
<1>2. s = [i \in 1 .. n |-> s[i]]
  BY DEF IsQueue
<1>3. s \in [1 .. n -> T]
  BY <1>2
<1> HIDE DEF n, T
<1>4. s \in Seq(T)
  BY <1>1, <1>3
<1>5. QED
  BY <1>4 DEF n, T

\* A message is appended to a queue.
LEMMA QueueAppend ==
  ASSUME NEW s, IsQueue(s), NEW v \in Vec, NEW d
  PROVE  LET a == Append(s, [v |-> v, data |-> d])
         IN  /\ IsQueue(a) /\ Vectors(a) = Append(Vectors(s), v) /\ Vectors(s) \in Seq(Vec)
             /\ \A i \in DOMAIN a :
                  a[i] = [v |-> v, data |-> d] \/ (i \in DOMAIN s /\ a[i] = s[i])
<1> DEFINE x == [v |-> v, data |-> d]
           n == Len(s)
           T == {s[i] : i \in 1 .. n} \cup {x}
           a == Append(s, x)
<1>1. n \in Nat /\ DOMAIN s = 1 .. n /\ \A i \in 1 .. n : s[i] \in T /\ s[i].v \in Vec
  BY DEF IsQueue
<1>2. s \in Seq(T)
  <2>1. s \in [1 .. n -> T]
    <3>1. s = [i \in 1 .. n |-> s[i]]
      BY DEF IsQueue
    <3> HIDE DEF n, T
    <3>2. QED
      BY <1>1, <3>1
  <2> HIDE DEF n, T
  <2>2. QED
    BY <1>1, <2>1
<1>3. /\ Len(a) = n + 1 /\ DOMAIN a = 1 .. n + 1
      /\ \A i \in 1 .. n : a[i] = s[i]
      /\ a[n + 1] = x
  <2>1. x \in T
    OBVIOUS
  <2> HIDE DEF T, x
  <2>2. QED
    BY <1>1, <1>2, <2>1
<1>4. a = [i \in 1 .. n + 1 |-> a[i]]
  <2>1. a \in Seq(T)
    <3>1. x \in T
      OBVIOUS
    <3> HIDE DEF T, x
    <3>2. QED
      BY <1>2, <3>1
  <2> HIDE DEF a, T, n, x
  <2>2. QED
    BY <1>3, <2>1
<1>5. ASSUME NEW i \in 1 .. n + 1
      PROVE  a[i] = [v |-> a[i].v, data |-> a[i].data] /\ a[i].v \in Vec
  <2>1. CASE i = n + 1
    BY <1>3, <2>1
  <2>2. CASE i # n + 1
    <3>1. i \in 1 .. n /\ a[i] = s[i]
      BY <1>1, <1>3, <2>2
    <3>2. s[i] = [v |-> s[i].v, data |-> s[i].data]
      BY <3>1 DEF IsQueue
    <3>3. QED
      BY <1>1, <3>1, <3>2
  <2>3. QED
    BY <2>1, <2>2
<1>6. IsQueue(a)
  <2> HIDE DEF a, x
  <2>1. a = [i \in 1 .. n + 1 |-> [v |-> a[i].v, data |-> a[i].data]]
    <3> HIDE DEF n
    <3>1. QED
      BY <1>4, <1>5
  <2> HIDE DEF n
  <2>2. QED
    BY <1>1, <1>3, <1>5, <2>1 DEF IsQueue
<1>7. Vectors(s) \in Seq(Vec) /\ Len(Vectors(s)) = n
  <2> HIDE DEF n
  <2>1. Vectors(s) \in [1 .. n -> Vec]
    BY <1>1 DEF Vectors, n
  <2>2. QED
    BY <1>1, <2>1
<1>8. Vectors(a) = Append(Vectors(s), v)
  <2> DEFINE b == Append(Vectors(s), v)
  <2>1. /\ b \in Seq(Vec) /\ Len(b) = n + 1
        /\ \A i \in 1 .. n : b[i] = Vectors(s)[i]
        /\ b[n + 1] = v
    <3> HIDE DEF n
    <3>1. QED
      BY <1>1, <1>7
  <2>2. \A i \in 1 .. n : Vectors(s)[i] = s[i].v
    BY DEF Vectors
  <2>3. \A i \in 1 .. n + 1 : b[i] = a[i].v
    <3> SUFFICES ASSUME NEW i \in 1 .. n + 1 PROVE b[i] = a[i].v
      OBVIOUS
    <3>1. i = n + 1 \/ i \in 1 .. n
      BY <1>1
    <3> HIDE DEF a, b, n
    <3>2. QED
      BY <1>3, <2>1, <2>2, <3>1
  <2> HIDE DEF a, b, n, x
  <2>4. b = [i \in 1 .. n + 1 |-> b[i]]
    BY <1>1, <2>1
  <2>5. Vectors(a) = [i \in 1 .. n + 1 |-> a[i].v]
    BY <1>3 DEF Vectors
  <2>6. QED
    BY <2>3, <2>4, <2>5 DEF b
<1>9. \A i \in DOMAIN a : a[i] = x \/ (i \in DOMAIN s /\ a[i] = s[i])
  <2> SUFFICES ASSUME NEW i \in DOMAIN a PROVE a[i] = x \/ (i \in DOMAIN s /\ a[i] = s[i])
    OBVIOUS
  <2>1. i = n + 1 \/ i \in 1 .. n
    BY <1>1, <1>3
  <2> HIDE DEF a, x, n
  <2>2. QED
    BY <1>1, <1>3, <2>1
<1>10. QED
  BY <1>6, <1>7, <1>8, <1>9

\* The oldest message is removed from a queue.
LEMMA QueueTail ==
  ASSUME NEW s, IsQueue(s), s # <<>>
  PROVE  /\ IsQueue(Tail(s)) /\ Len(s) >= 1 /\ Head(s) = s[1]
         /\ Vectors(Tail(s)) = Tail(Vectors(s))
         /\ Vectors(s) \in Seq(Vec) /\ Vectors(s) # <<>>
         /\ Len(Tail(s)) = Len(s) - 1
         /\ \A i \in 1 .. Len(s) - 1 : Tail(s)[i] = s[i + 1]
<1> DEFINE n == Len(s)
           T == {s[i] : i \in 1 .. n}
           r == Tail(s)
<1>1. n \in Nat /\ \A i \in 1 .. n : s[i].v \in Vec /\ s[i] = [v |-> s[i].v, data |-> s[i].data]
  BY DEF IsQueue
<1>2. s \in Seq(T)
  BY QueueIsSeq
<1>3. n >= 1 /\ Head(s) = s[1] /\ r \in Seq(T) /\ Len(r) = n - 1
      /\ \A i \in 1 .. n - 1 : r[i] = s[i + 1]
  <2> HIDE DEF T
  <2>1. QED
    BY <1>2
<1>4. r = [i \in 1 .. n - 1 |-> r[i]]
  <2> HIDE DEF r, T, n
  <2>1. QED
    BY <1>3
<1>5. \A i \in 1 .. n - 1 : r[i].v \in Vec /\ r[i] = [v |-> r[i].v, data |-> r[i].data]
  <2> SUFFICES ASSUME NEW i \in 1 .. n - 1
               PROVE  r[i].v \in Vec /\ r[i] = [v |-> r[i].v, data |-> r[i].data]
    OBVIOUS
  <2>1. i + 1 \in 1 .. n /\ r[i] = s[i + 1]
    BY <1>1, <1>3
  <2> HIDE DEF r, n
  <2>2. QED
    BY <1>1, <2>1
<1>6. IsQueue(r)
  <2> HIDE DEF r, T, n
  <2>1. r = [i \in 1 .. n - 1 |-> [v |-> r[i].v, data |-> r[i].data]]
    BY <1>4, <1>5
  <2>2. QED
    BY <1>1, <1>3, <1>5, <2>1 DEF IsQueue
<1>7. Vectors(s) \in Seq(Vec) /\ Len(Vectors(s)) = n
  <2> HIDE DEF n
  <2>1. Vectors(s) \in [1 .. n -> Vec]
    BY <1>1 DEF Vectors, n
  <2>2. QED
    BY <1>1, <2>1
<1>8. Vectors(r) = Tail(Vectors(s)) /\ Vectors(s) # <<>>
  <2> DEFINE b == Tail(Vectors(s))
  <2>1. /\ Vectors(s) # <<>> /\ b \in Seq(Vec) /\ Len(b) = n - 1
        /\ \A i \in 1 .. n - 1 : b[i] = Vectors(s)[i + 1]
    <3> HIDE DEF n
    <3>1. QED
      BY <1>1, <1>3, <1>7
  <2>2. \A i \in 1 .. n - 1 : b[i] = r[i].v
    <3> SUFFICES ASSUME NEW i \in 1 .. n - 1 PROVE b[i] = r[i].v
      OBVIOUS
    <3>1. i + 1 \in 1 .. n
      BY <1>1
    <3>2. Vectors(s)[i + 1] = s[i + 1].v
      BY <3>1 DEF Vectors
    <3> HIDE DEF r, b, n
    <3>3. QED
      BY <1>3, <2>1, <3>2
  <2> HIDE DEF r, b, n
  <2>3. b = [i \in 1 .. n - 1 |-> b[i]]
    BY <1>1, <2>1
  <2>4. Vectors(r) = [i \in 1 .. n - 1 |-> r[i].v]
    BY <1>3 DEF Vectors
  <2>5. QED
    BY <2>1, <2>2, <2>3, <2>4 DEF b, r
<1>9. QED
  BY <1>3, <1>6, <1>7, <1>8

\* A queue in which the data of one message is set.
LEMMA QueueSet ==
  ASSUME NEW s, IsQueue(s), NEW i \in 1 .. Len(s), NEW d
  PROVE  LET r == [s EXCEPT ![i].data = d]
         IN  /\ IsQueue(r) /\ Vectors(r) = Vectors(s) /\ Len(r) = Len(s)
             /\ \A j \in 1 .. Len(s) : j # i => r[j] = s[j]
<1> DEFINE n == Len(s)
           r == [s EXCEPT ![i].data = d]
<1>1. /\ n \in Nat /\ DOMAIN s = 1 .. n
      /\ \A j \in 1 .. n : s[j] = [v |-> s[j].v, data |-> s[j].data] /\ s[j].v \in Vec
  BY DEF IsQueue
<1>2. r = [j \in 1 .. n |-> IF j = i THEN [s[j] EXCEPT !.data = d] ELSE s[j]]
  <2> HIDE DEF n
  <2>1. QED
    BY <1>1
<1>3. [s[i] EXCEPT !.data = d] = [v |-> s[i].v, data |-> d]
  BY <1>1
<1>4. Len(r) = n
  <2> HIDE DEF n, r
  <2>1. QED
    BY <1>1, <1>2
<1>5. \A j \in 1 .. n :
        /\ r[j] = [v |-> r[j].v, data |-> r[j].data] /\ r[j].v = s[j].v
        /\ j # i => r[j] = s[j]
  <2> SUFFICES ASSUME NEW j \in 1 .. n
               PROVE  /\ r[j] = [v |-> r[j].v, data |-> r[j].data] /\ r[j].v = s[j].v
                      /\ j # i => r[j] = s[j]
    OBVIOUS
  <2>1. r[j] = IF j = i THEN [v |-> s[j].v, data |-> d] ELSE s[j]
    <3> HIDE DEF n, r
    <3>1. QED
      BY <1>2, <1>3
  <2> HIDE DEF n, r
  <2>2. QED
    BY <1>1, <2>1
<1> HIDE DEF r, n
<1>6. r = [j \in 1 .. n |-> [v |-> r[j].v, data |-> r[j].data]]
  <2>1. r = [j \in 1 .. n |-> r[j]]
    BY <1>2
  <2>2. QED
    BY <1>5, <2>1
<1>7. IsQueue(r)
  BY <1>1, <1>4, <1>5, <1>6 DEF IsQueue
<1>8. Vectors(r) = Vectors(s)
  BY <1>4, <1>5 DEF Vectors, n
<1>9. QED
  BY <1>4, <1>5, <1>7, <1>8 DEF r, n

-----------------------------------------------------------------------------
\* A later operation's vector is appended to what follows the program.
LEMMA FollowsAppend ==
  ASSUME NEW vs \in Seq(Vec), NEW S \in SUBSET Nat, Follows(vs, S),
         NEW x \in Nat, \A y \in S : y < x, NEW v \in Vec, program[x].v = v
  PROVE  Follows(Append(vs, v), S \cup {x})
<1> DEFINE n == Len(vs)
<1>1. PICK f : Lists(f, n, S) /\ \A i \in 1 .. n : vs[i] = program[f[i]].v
  BY DEF Follows
<1> DEFINE g == [i \in 1 .. n + 1 |-> IF i = n + 1 THEN x ELSE f[i]]
           ws == Append(vs, v)
<1>2. n \in Nat /\ Len(ws) = n + 1 /\ ws[n + 1] = v /\ \A i \in 1 .. n : ws[i] = vs[i]
  OBVIOUS
<1>3. Lists(g, n + 1, S \cup {x})
  <2> HIDE DEF n
  <2>1. QED
    BY <1>1, <1>2, ListGrows
<1>4. \A i \in 1 .. n + 1 : ws[i] = program[g[i]].v
  <2> SUFFICES ASSUME NEW i \in 1 .. n + 1 PROVE ws[i] = program[g[i]].v
    OBVIOUS
  <2>1. g[i] = IF i = n + 1 THEN x ELSE f[i]
    OBVIOUS
  <2>2. i = n + 1 \/ (i \in 1 .. n /\ i # n + 1)
    BY <1>2
  <2> HIDE DEF n, g, ws
  <2>3. QED
    BY <1>1, <1>2, <2>1, <2>2
<1> HIDE DEF n, g, ws
<1>5. QED
  BY <1>2, <1>3, <1>4 DEF Follows, ws

\* Without its first vector, a queue follows what comes behind the first's operation.
LEMMA FollowsTail ==
  ASSUME NEW vs \in Seq(Vec), vs # <<>>, NEW S \in SUBSET Nat,
         NEW f, Lists(f, Len(vs), S), \A i \in 1 .. Len(vs) : vs[i] = program[f[i]].v
  PROVE  f[1] \in S /\ Follows(Tail(vs), {x \in S : f[1] < x})
<1> DEFINE n == Len(vs)
           g == [i \in 1 .. n - 1 |-> f[i + 1]]
           ws == Tail(vs)
<1>1. n \in Nat /\ n >= 1 /\ Len(ws) = n - 1 /\ \A i \in 1 .. n - 1 : ws[i] = vs[i + 1]
  OBVIOUS
<1>2. f[1] \in S /\ Lists(g, n - 1, {x \in S : f[1] < x})
  <2> HIDE DEF n
  <2>1. QED
    BY <1>1, ListShrinks DEF n
<1>3. \A i \in 1 .. n - 1 : ws[i] = program[g[i]].v
  <2> SUFFICES ASSUME NEW i \in 1 .. n - 1 PROVE ws[i] = program[g[i]].v
    OBVIOUS
  <2>1. g[i] = f[i + 1] /\ i + 1 \in 1 .. n
    BY <1>1
  <2> HIDE DEF g, ws
  <2>2. QED
    BY <1>1, <2>1
<1> HIDE DEF n, g, ws
<1>4. QED
  BY <1>1, <1>2, <1>3 DEF Follows, ws

\* The operations of a longer prefix.
LEMMA BetweenGrows ==
  ASSUME NEW p, NEW q, NEW t, NEW c \in Nat, NEW n \in Nat, c <= n
  PROVE  /\ Between(p, q, t, c, n) \in SUBSET Nat
         /\ \A y \in Between(p, q, t, c, n) : y < n + 1
         /\ Between(p, q, t, c, n + 1) =
              Between(p, q, t, c, n) \cup ({n + 1} \cap Exchanges(p, q, t))
<1>1. \A m \in Exchanges(p, q, t) : m \in Int
  BY DEF Exchanges
<1>2. Between(p, q, t, c, n) \in SUBSET Nat
  BY <1>1 DEF Between
<1>3. \A y \in Between(p, q, t, c, n) : y < n + 1
  BY <1>1 DEF Between
<1>4. \A m \in Int : (c < m /\ m <= n + 1) <=> (c < m /\ m <= n) \/ m = n + 1
  OBVIOUS
<1>5. QED
  BY <1>1, <1>2, <1>3, <1>4 DEF Between

\* MessagesMatchTheirVector follows from where the queues are in the program.
LEMMA QueuesMatch == IInv => MessagesMatchTheirVector
<1> SUFFICES ASSUME IInv, NEW p \in Rank, NEW q \in Rank, NEW t \in Tag,
                    NEW i \in DOMAIN sends[p][q][t] \cap DOMAIN receives[q][p][t]
             PROVE  sends[p][q][t][i].v = receives[q][p][t][i]
  BY DEF MessagesMatchTheirVector
<1> DEFINE s == sends[p][q][t]
           r == receives[q][p][t]
<1>1. /\ Len(s) \in Nat /\ DOMAIN s = 1 .. Len(s) /\ r \in Seq(Vec)
      /\ pos[p] \in Nat /\ pos[q] \in Nat
  <2>1. IsQueue(s) /\ r \in Seq(Vec) /\ pos \in [Rank -> Nat]
    BY DEF IInv, QueuesOK
  <2> HIDE DEF s, r
  <2>2. QED
    BY <2>1 DEF IsQueue
<1>2. i \in 1 .. Len(s) /\ i \in 1 .. Len(r) /\ Len(r) \in Nat
  BY <1>1
<1>3. PICK c \in Nat : /\ Follows(Vectors(s), Between(p, q, t, c, pos[p]))
                       /\ Follows(r, Between(p, q, t, c, pos[q]))
  BY DEF IInv, FollowProgram
<1> DEFINE U == {m \in Exchanges(p, q, t) : c < m}
<1>4. Len(Vectors(s)) = Len(s) /\ Vectors(s)[i] = s[i].v
  BY <1>1, <1>2 DEF Vectors
<1>5. PICK f : /\ Lists(f, Len(s), Between(p, q, t, c, pos[p]))
               /\ \A j \in 1 .. Len(s) : Vectors(s)[j] = program[f[j]].v
  BY <1>3, <1>4 DEF Follows
<1>6. PICK g : /\ Lists(g, Len(r), Between(p, q, t, c, pos[q]))
               /\ \A j \in 1 .. Len(r) : r[j] = program[g[j]].v
  BY <1>3 DEF Follows
<1>7. /\ U \in SUBSET Nat
      /\ Between(p, q, t, c, pos[p]) = {x \in U : x <= pos[p]}
      /\ Between(p, q, t, c, pos[q]) = {x \in U : x <= pos[q]}
  BY DEF Between, Exchanges
<1>8. f[i] = g[i]
  <2>1. Lists(f, Len(s), UpTo(U, pos[p])) /\ Lists(g, Len(r), UpTo(U, pos[q]))
    BY <1>5, <1>6, <1>7 DEF UpTo
  <2>2. U \in SUBSET Nat
    BY <1>7
  <2>3. Len(s) \in Nat /\ Len(r) \in Nat /\ pos[p] \in Nat /\ pos[q] \in Nat
    BY <1>1, <1>2
  <2> HIDE DEF s, r, U
  <2>4. \A a, b, n, m \in Nat :
          Lists(f, n, UpTo(U, a)) /\ Lists(g, m, UpTo(U, b)) =>
            \A j \in (1 .. n) \cap (1 .. m) : f[j] = g[j]
    BY <2>2, ListsAgree
  <2>5. QED
    BY <1>2, <2>1, <2>3, <2>4
<1>9. QED
  BY <1>2, <1>4, <1>5, <1>6, <1>8

-----------------------------------------------------------------------------
\* One more operation of a rank, that adds to a queue or not.
LEMMA FollowsOn ==
  ASSUME NEW a, NEW b, NEW u, NEW c \in Nat, NEW n \in Nat, c <= n,
         NEW vs \in Seq(Vec), Follows(vs, Between(a, b, u, c, n)), NEW ws,
         n + 1 \in Exchanges(a, b, u) =>
           program[n + 1].v \in Vec /\ ws = Append(vs, program[n + 1].v),
         n + 1 \notin Exchanges(a, b, u) => ws = vs
  PROVE  Follows(ws, Between(a, b, u, c, n + 1))
<1> DEFINE S == Between(a, b, u, c, n)
<1>1. /\ S \in SUBSET Nat /\ \A y \in S : y < n + 1
      /\ Between(a, b, u, c, n + 1) = S \cup ({n + 1} \cap Exchanges(a, b, u))
  BY BetweenGrows
<1>2. CASE n + 1 \in Exchanges(a, b, u)
  <2> DEFINE x == n + 1
             v == program[x].v
  <2>1. Between(a, b, u, c, n + 1) = S \cup {x}
    BY <1>1, <1>2
  <2>2. x \in Nat /\ v \in Vec /\ ws = Append(vs, v) /\ \A y \in S : y < x
    BY <1>1, <1>2
  <2>3. S \in SUBSET Nat /\ Follows(vs, S)
    BY <1>1
  <2> HIDE DEF S, x
  <2>4. Follows(Append(vs, v), S \cup {x})
    BY <2>2, <2>3, FollowsAppend
  <2>5. QED
    BY <2>1, <2>2, <2>4
<1>3. CASE n + 1 \notin Exchanges(a, b, u)
  BY <1>1, <1>3
<1>4. QED
  BY <1>2, <1>3

\* FollowProgram in the next state, as long as the program is the same.
LEMMA FollowsNext ==
  ASSUME program' = program, NEW a, NEW b, NEW u, NEW c \in Nat,
         c <= pos'[a], c <= pos'[b],
         Follows(Vectors(sends'[a][b][u]), Between(a, b, u, c, pos'[a])),
         Follows(receives'[b][a][u], Between(a, b, u, c, pos'[b]))
  PROVE  FollowProgram(a, b, u)'
<1>1. \A n : Between(a, b, u, c, n)' = Between(a, b, u, c, n)
  BY DEF Between, Exchanges
<1>2. \A vs, S : Follows(vs, S)' <=> Follows(vs, S)
  BY DEF Follows
<1>3. /\ Between(a, b, u, c, pos[a])' = Between(a, b, u, c, pos'[a])
      /\ Between(a, b, u, c, pos[b])' = Between(a, b, u, c, pos'[b])
  BY DEF Between, Exchanges
<1>4. /\ Follows(Vectors(sends[a][b][u]), Between(a, b, u, c, pos[a]))'
      /\ Follows(receives[b][a][u], Between(a, b, u, c, pos[b]))'
  BY <1>3 DEF Follows, Vectors
<1>5. QED
  BY <1>4 DEF FollowProgram

\* The vectors of a queue are as many as its messages, in their order.
LEMMA QueueVectors ==
  ASSUME NEW s, IsQueue(s)
  PROVE  /\ Vectors(s) \in Seq(Vec) /\ Len(Vectors(s)) = Len(s)
         /\ \A i \in 1 .. Len(s) : Vectors(s)[i] = s[i].v
<1>1. Len(s) \in Nat /\ \A i \in 1 .. Len(s) : s[i].v \in Vec
  BY DEF IsQueue
<1>2. Vectors(s) \in [1 .. Len(s) -> Vec]
  BY <1>1 DEF Vectors
<1>3. QED
  BY <1>1, <1>2 DEF Vectors

\* An operation of p that adds to the queues what the program says.
LEMMA StepFollows ==
  ASSUME IInv, NEW p \in Rank, Advance(p), QueuesOK',
         pos[p] + 1 \in 1 .. Len(program),
         \A a, b \in Rank : \A u \in Tag :
           /\ Vectors(sends'[a][b][u]) =
                IF a = p /\ pos[p] + 1 \in Exchanges(a, b, u)
                THEN Append(Vectors(sends[a][b][u]), program[pos[p] + 1].v)
                ELSE Vectors(sends[a][b][u])
           /\ receives'[b][a][u] =
                IF b = p /\ pos[p] + 1 \in Exchanges(a, b, u)
                THEN Append(receives[b][a][u], program[pos[p] + 1].v)
                ELSE receives[b][a][u]
  PROVE  \A a, b \in Rank : \A u \in Tag : FollowProgram(a, b, u)'
<1> SUFFICES ASSUME NEW a \in Rank, NEW b \in Rank, NEW u \in Tag
             PROVE  FollowProgram(a, b, u)'
  OBVIOUS
<1> DEFINE vs == Vectors(sends[a][b][u])
           rs == receives[b][a][u]
<1>1. /\ program' = program /\ pos \in [Rank -> Nat] /\ pos' = [pos EXCEPT ![p] = @ + 1]
      /\ rs \in Seq(Vec) /\ IsQueue(sends[a][b][u])
  BY DEF IInv, QueuesOK, Advance
<1>2. vs \in Seq(Vec)
  BY <1>1, QueueVectors
<1>3. /\ pos[a] \in Nat /\ pos[b] \in Nat
      /\ pos'[a] = IF a = p THEN pos[a] + 1 ELSE pos[a]
      /\ pos'[b] = IF b = p THEN pos[b] + 1 ELSE pos[b]
  BY <1>1
<1>4. PICK c \in Nat : /\ c <= pos[a] /\ c <= pos[b]
                       /\ Follows(vs, Between(a, b, u, c, pos[a]))
                       /\ Follows(rs, Between(a, b, u, c, pos[b]))
  BY DEF IInv, FollowProgram
<1>5. pos[p] + 1 \in Exchanges(a, b, u) => program[pos[p] + 1].v \in Vec
  <2>1. ASSUME NEW v \in Vec, program[pos[p] + 1] = [op |-> BeginOp(u), v |-> v]
        PROVE  program[pos[p] + 1].v \in Vec
    BY <2>1
  <2>2. QED
    BY <2>1 DEF Exchanges
<1>6. Follows(Vectors(sends'[a][b][u]), Between(a, b, u, c, pos'[a]))
  <2>1. CASE a = p
    <3> DEFINE ws == Vectors(sends'[a][b][u])
               n == pos[a]
    <3>1. /\ n + 1 \in Exchanges(a, b, u) =>
               program[n + 1].v \in Vec /\ ws = Append(vs, program[n + 1].v)
          /\ n + 1 \notin Exchanges(a, b, u) => ws = vs
      BY <1>5, <2>1
    <3>2. n \in Nat /\ c <= n /\ Follows(vs, Between(a, b, u, c, n)) /\ pos'[a] = n + 1
      BY <1>3, <1>4, <2>1
    <3> HIDE DEF vs, ws, n
    <3>3. Follows(ws, Between(a, b, u, c, n + 1))
      BY <1>2, <3>1, <3>2, FollowsOn
    <3>4. QED
      BY <3>2, <3>3 DEF ws
  <2>2. CASE a # p
    BY <1>3, <1>4, <2>2
  <2>3. QED
    BY <2>1, <2>2
<1>7. Follows(receives'[b][a][u], Between(a, b, u, c, pos'[b]))
  <2>1. CASE b = p
    <3> DEFINE ws == receives'[b][a][u]
               n == pos[b]
    <3>1. /\ n + 1 \in Exchanges(a, b, u) =>
               program[n + 1].v \in Vec /\ ws = Append(rs, program[n + 1].v)
          /\ n + 1 \notin Exchanges(a, b, u) => ws = rs
      BY <1>5, <2>1
    <3>2. n \in Nat /\ c <= n /\ Follows(rs, Between(a, b, u, c, n)) /\ pos'[b] = n + 1
      BY <1>3, <1>4, <2>1
    <3>3. rs \in Seq(Vec)
      BY <1>1
    <3> HIDE DEF rs, ws, n
    <3>4. Follows(ws, Between(a, b, u, c, n + 1))
      BY <3>1, <3>2, <3>3, FollowsOn
    <3>5. QED
      BY <3>2, <3>4 DEF ws
  <2>2. CASE b # p
    BY <1>3, <1>4, <2>2
  <2>3. QED
    BY <2>1, <2>2
<1>8. c <= pos'[a] /\ c <= pos'[b]
  BY <1>3, <1>4
<1> HIDE DEF vs, rs
<1>9. QED
  BY <1>1, <1>6, <1>7, <1>8, FollowsNext

-----------------------------------------------------------------------------
\* What posting sends does to the queues.
LEMMA IsendIs ==
  ASSUME NEW p \in Rank, NEW t \in Tag, NEW v, NEW to, Isend(p, to, t, v)
  PROVE  /\ IsTable(sends')
         /\ \A a, b \in Rank : \A u \in Tag :
              sends'[a][b][u] = IF a = p /\ b \in to /\ u = t
                                THEN Append(sends[a][b][u], [v |-> v, data |-> <<>>])
                                ELSE sends[a][b][u]
<1> DEFINE x == [v |-> v, data |-> <<>>]
<1>1. sends' = [a \in Rank |-> [b \in Rank |-> [u \in Tag |->
                   IF a = p /\ b \in to /\ u = t THEN Append(sends[a][b][u], x)
                   ELSE sends[a][b][u]]]]
  BY DEF Isend
<1> HIDE DEF x
<1>2. \A a, b \in Rank : \A u \in Tag :
        sends'[a][b][u] = IF a = p /\ b \in to /\ u = t THEN Append(sends[a][b][u], x)
                          ELSE sends[a][b][u]
  BY <1>1
<1>3. QED
  BY <1>1, <1>2 DEF x, IsTable

\* What posting receives does to the queues.
LEMMA IrecvIs ==
  ASSUME NEW p \in Rank, NEW t \in Tag, NEW v, NEW from, Irecv(p, from, t, v)
  PROVE  /\ IsTable(receives')
         /\ \A a, b \in Rank : \A u \in Tag :
              receives'[a][b][u] = IF a = p /\ b \in from /\ u = t
                                   THEN Append(receives[a][b][u], v)
                                   ELSE receives[a][b][u]
<1>1. receives' = [a \in Rank |-> [b \in Rank |-> [u \in Tag |->
                   IF a = p /\ b \in from /\ u = t THEN Append(receives[a][b][u], v)
                   ELSE receives[a][b][u]]]]
  BY DEF Irecv
<1>2. \A a, b \in Rank : \A u \in Tag :
        receives'[a][b][u] = IF a = p /\ b \in from /\ u = t
                             THEN Append(receives[a][b][u], v) ELSE receives[a][b][u]
  BY <1>1
<1>3. QED
  BY <1>1, <1>2 DEF IsTable

\* Where p is in the program, and after its operation.
LEMMA PositionIs ==
  ASSUME QueuesOK, NEW p \in Rank, NEW op, NEW v, At(p, op, v), Advance(p)
  PROVE  /\ pos[p] + 1 \in 1 .. Len(program) /\ program[pos[p] + 1] = [op |-> op, v |-> v]
         /\ program' = program /\ program \in Programs
         /\ pos' \in [Rank -> Nat] /\ \A q \in Rank : pos'[q] <= Len(program)
         /\ \A q \in Rank : pos'[q] = IF q = p THEN pos[q] + 1 ELSE pos[q]
<1>1. /\ pos \in [Rank -> Nat] /\ program \in Programs /\ pos[p] < Len(program)
      /\ pos' = [pos EXCEPT ![p] = @ + 1] /\ program' = program
      /\ \A q \in Rank : pos[q] <= Len(program)
  BY DEF QueuesOK, At, Advance
<1>2. Len(program) \in Nat
  BY <1>1, ProgramAssumption
<1>3. QED
  BY <1>1, <1>2 DEF At

\* Who exchanges what at an operation.
LEMMA ExchangesAt ==
  ASSUME NEW n \in 1 .. Len(program), NEW op, NEW v \in Vec, program[n] = [op |-> op, v |-> v],
         NEW a, NEW b, NEW u \in Tag
  PROVE  n \in Exchanges(a, b, u) <=> op = BeginOp(u) /\ Exchanged(a, b, u, v)
<1>1. \A w : [op |-> op, v |-> v] = [op |-> BeginOp(u), v |-> w] <=> op = BeginOp(u) /\ v = w
  <2> SUFFICES ASSUME NEW w
               PROVE  [op |-> op, v |-> v] = [op |-> BeginOp(u), v |-> w] <=>
                        op = BeginOp(u) /\ v = w
    OBVIOUS
  <2>1. ASSUME [op |-> op, v |-> v] = [op |-> BeginOp(u), v |-> w]
        PROVE  op = BeginOp(u) /\ v = w
    <3>1. [op |-> op, v |-> v].op = op /\ [op |-> op, v |-> v].v = v
      OBVIOUS
    <3>2. [op |-> op, v |-> v].op = BeginOp(u) /\ [op |-> op, v |-> v].v = w
      BY <2>1
    <3>3. QED
      BY <3>1, <3>2
  <2>2. QED
    BY <2>1
<1>2. QED
  BY <1>1 DEF Exchanges

\* The beginning of an update or an accumulation.
LEMMA BeginFollows ==
  ASSUME IInv, NEW p \in Rank, NEW t \in Tag, NEW v \in Vec, At(p, BeginOp(t), v), Advance(p),
         NEW to, NEW from, Isend(p, to, t, v), Irecv(p, from, t, v),
         \A b \in Rank : /\ b \in to <=> Exchanged(p, b, t, v)
                         /\ b \in from <=> Exchanged(b, p, t, v)
  PROVE  QueuesOK' /\ \A a, b \in Rank : \A u \in Tag : FollowProgram(a, b, u)'
<1> DEFINE n == pos[p] + 1
           x == [v |-> v, data |-> <<>>]
<1>1. /\ QueuesOK
      /\ n \in 1 .. Len(program) /\ program[n] = [op |-> BeginOp(t), v |-> v]
  BY PositionIs DEF IInv
<1>2. \A a, b \in Rank : \A u \in Tag :
        n \in Exchanges(a, b, u) <=> u = t /\ Exchanged(a, b, t, v)
  <2>1. \A u \in Tag : BeginOp(t) = BeginOp(u) <=> u = t
    BY DEF BeginOp, Tag, Scatter, Gather
  <2> HIDE DEF n
  <2>2. QED
    BY <1>1, <2>1, ExchangesAt
<1>3. program[n].v = v
  BY <1>1
<1>4. /\ \A a, b \in Rank : \A u \in Tag :
           sends'[a][b][u] = IF a = p /\ b \in to /\ u = t
                             THEN Append(sends[a][b][u], x) ELSE sends[a][b][u]
      /\ \A a, b \in Rank : \A u \in Tag :
           receives'[b][a][u] = IF b = p /\ a \in from /\ u = t
                                THEN Append(receives[b][a][u], v) ELSE receives[b][a][u]
  BY IsendIs, IrecvIs
<1>5. \A a, b \in Rank : \A u \in Tag :
        IsQueue(sends[a][b][u]) /\ receives[b][a][u] \in Seq(Vec)
  BY <1>1 DEF QueuesOK
<1>6. \A a, b \in Rank : \A u \in Tag :
        /\ IsQueue(Append(sends[a][b][u], x))
        /\ Vectors(Append(sends[a][b][u], x)) = Append(Vectors(sends[a][b][u]), v)
  BY <1>5, QueueAppend
<1>7. QueuesOK'
  <2>1. /\ IsTable(sends')
        /\ IsTable(receives')
    BY IsendIs, IrecvIs
  <2>2. \A a, b \in Rank : \A u \in Tag : IsQueue(sends'[a][b][u])
    <3> SUFFICES ASSUME NEW a \in Rank, NEW b \in Rank, NEW u \in Tag
                 PROVE  IsQueue(sends'[a][b][u])
      OBVIOUS
    <3>1. IsQueue(sends[a][b][u]) /\ IsQueue(Append(sends[a][b][u], x))
      BY <1>5, <1>6
    <3>2. sends'[a][b][u] = IF a = p /\ b \in to /\ u = t
                            THEN Append(sends[a][b][u], x) ELSE sends[a][b][u]
      BY <1>4
    <3> HIDE DEF x
    <3>3. QED
      BY <3>1, <3>2
  <2>3. \A a, b \in Rank : \A u \in Tag : receives'[b][a][u] \in Seq(Vec)
    <3> SUFFICES ASSUME NEW a \in Rank, NEW b \in Rank, NEW u \in Tag
                 PROVE  receives'[b][a][u] \in Seq(Vec)
      OBVIOUS
    <3>1. receives[b][a][u] \in Seq(Vec) /\ Append(receives[b][a][u], v) \in Seq(Vec)
      BY <1>5
    <3>2. \/ receives'[b][a][u] = Append(receives[b][a][u], v)
          \/ receives'[b][a][u] = receives[b][a][u]
      BY <1>4
    <3>3. QED
      BY <3>1, <3>2
  <2>4. /\ program' = program /\ program \in Programs
        /\ pos' \in [Rank -> Nat] /\ \A q \in Rank : pos'[q] <= Len(program)
    BY <1>1, PositionIs
  <2>5. \A a, b \in Rank : \A u \in Tag : IsQueue(sends[a][b][u])'
    BY <2>2 DEF IsQueue
  <2>6. IsTable(sends)' /\ IsTable(receives)'
    BY <2>1 DEF IsTable
  <2> HIDE DEF n, x
  <2>7. QED
    BY <2>3, <2>4, <2>5, <2>6 DEF QueuesOK
<1>8. ASSUME NEW a \in Rank, NEW b \in Rank, NEW u \in Tag
      PROVE  /\ Vectors(sends'[a][b][u]) =
                  IF a = p /\ n \in Exchanges(a, b, u)
                  THEN Append(Vectors(sends[a][b][u]), program[n].v)
                  ELSE Vectors(sends[a][b][u])
             /\ receives'[b][a][u] =
                  IF b = p /\ n \in Exchanges(a, b, u)
                  THEN Append(receives[b][a][u], program[n].v) ELSE receives[b][a][u]
  <2>1. n \in Exchanges(a, b, u) <=> u = t /\ Exchanged(a, b, t, v)
    BY <1>2
  <2>2. Vectors(Append(sends[a][b][u], x)) = Append(Vectors(sends[a][b][u]), v)
    BY <1>6
  <2>3. /\ sends'[a][b][u] = IF a = p /\ b \in to /\ u = t
                             THEN Append(sends[a][b][u], x) ELSE sends[a][b][u]
        /\ receives'[b][a][u] = IF b = p /\ a \in from /\ u = t
                                THEN Append(receives[b][a][u], v) ELSE receives[b][a][u]
    BY <1>4
  <2> HIDE DEF n, x
  <2>4. Vectors(sends'[a][b][u]) =
          IF a = p /\ n \in Exchanges(a, b, u)
          THEN Append(Vectors(sends[a][b][u]), v) ELSE Vectors(sends[a][b][u])
    <3>1. CASE a = p /\ n \in Exchanges(a, b, u)
      BY <2>1, <2>2, <2>3, <3>1
    <3>2. CASE ~(a = p /\ n \in Exchanges(a, b, u))
      BY <2>1, <2>3, <3>2
    <3>3. QED
      BY <3>1, <3>2
  <2>5. receives'[b][a][u] =
          IF b = p /\ n \in Exchanges(a, b, u)
          THEN Append(receives[b][a][u], v) ELSE receives[b][a][u]
    BY <2>1, <2>3
  <2>6. QED
    BY <1>3, <2>4, <2>5
<1>9. QED
  BY <1>1, <1>7, <1>8, StepFollows

\* Any other operation.
LEMMA OtherFollows ==
  ASSUME IInv, NEW p \in Rank, NEW op, NEW v \in Vec, At(p, op, v), Advance(p), UNCHANGED mpi,
         \A u \in Tag : op # BeginOp(u)
  PROVE  QueuesOK' /\ \A a, b \in Rank : \A u \in Tag : FollowProgram(a, b, u)'
<1> DEFINE n == pos[p] + 1
<1>1. /\ QueuesOK /\ sends' = sends /\ receives' = receives
      /\ n \in 1 .. Len(program) /\ program[n] = [op |-> op, v |-> v]
      /\ program' = program /\ program \in Programs
      /\ pos' \in [Rank -> Nat] /\ \A q \in Rank : pos'[q] <= Len(program)
  BY PositionIs DEF IInv, mpi
<1>2. \A a, b \in Rank : \A u \in Tag : n \notin Exchanges(a, b, u)
  <2> HIDE DEF n
  <2>1. QED
    BY <1>1, ExchangesAt
<1>3. QueuesOK'
  BY <1>1 DEF QueuesOK, IsTable
<1>4. QED
  BY <1>1, <1>2, <1>3, StepFollows

-----------------------------------------------------------------------------
\* One queue of all is changed.
Changed(f, p, q, t, e) == [f EXCEPT ![p][q][t] = e]

\* Only that queue is changed.
LEMMA QueueChanged ==
  ASSUME NEW f, IsTable(f), NEW p \in Rank, NEW q \in Rank, NEW t \in Tag, NEW e
  PROVE  LET g == Changed(f, p, q, t, e)
         IN  /\ IsTable(g)
             /\ \A a, b \in Rank : \A u \in Tag :
                  g[a][b][u] = IF a = p /\ b = q /\ u = t THEN e ELSE f[a][b][u]
<1> DEFINE line == [f[p][q] EXCEPT ![t] = e]
           plane == [f[p] EXCEPT ![q] = line]
           g == Changed(f, p, q, t, e)
<1>1. g = [f EXCEPT ![p] = plane]
  BY DEF Changed
<1>2. f = [a \in Rank |-> [b \in Rank |-> [u \in Tag |-> f[a][b][u]]]]
  BY DEF IsTable
<1>3. \A a, b \in Rank : f[a][b] = [u \in Tag |-> f[a][b][u]]
  BY <1>2
<1>4. line = [u \in Tag |-> IF u = t THEN e ELSE f[p][q][u]]
  BY <1>3
<1>5. \A a \in Rank : f[a] = [b \in Rank |-> f[a][b]]
  BY <1>2
<1> HIDE DEF line
<1>6. plane = [b \in Rank |-> IF b = q THEN line ELSE f[p][b]]
  BY <1>5
<1>7. f = [a \in Rank |-> f[a]]
  BY <1>2
<1> HIDE DEF plane, g
<1>8. g = [a \in Rank |-> IF a = p THEN plane ELSE f[a]]
  BY <1>1, <1>7
<1>9. ASSUME NEW a \in Rank, NEW b \in Rank
      PROVE  g[a][b] = [u \in Tag |-> IF a = p /\ b = q /\ u = t THEN e ELSE f[a][b][u]]
  <2>1. CASE a = p /\ b = q
    <3>1. g[a][b] = line
      BY <1>6, <1>8, <2>1
    <3>2. QED
      BY <1>4, <2>1, <3>1
  <2>2. CASE ~(a = p /\ b = q)
    <3>1. g[a][b] = f[a][b]
      BY <1>6, <1>8, <2>2
    <3>2. f[a][b] = [u \in Tag |-> f[a][b][u]]
      BY <1>3
    <3>3. QED
      BY <2>2, <3>1, <3>2
  <2>3. QED
    BY <2>1, <2>2
<1>10. \A a, b \in Rank : \A u \in Tag :
         g[a][b][u] = IF a = p /\ b = q /\ u = t THEN e ELSE f[a][b][u]
  <2> SUFFICES ASSUME NEW a \in Rank, NEW b \in Rank, NEW u \in Tag
               PROVE  g[a][b][u] = IF a = p /\ b = q /\ u = t THEN e ELSE f[a][b][u]
    OBVIOUS
  <2>1. g[a][b] = [w \in Tag |-> IF a = p /\ b = q /\ w = t THEN e ELSE f[a][b][w]]
    BY <1>9
  <2>2. QED
    BY <2>1
<1>11. \A a, b \in Rank : g[a][b] = [u \in Tag |-> g[a][b][u]]
  BY <1>9
<1>12. ASSUME NEW a \in Rank PROVE g[a] = [b \in Rank |-> g[a][b]]
  <2>1. CASE a = p
    BY <1>6, <1>8, <2>1
  <2>2. CASE a # p
    <3>1. g[a] = f[a]
      BY <1>8, <2>2
    <3>2. f[a] = [b \in Rank |-> f[a][b]]
      BY <1>5
    <3>3. QED
      BY <3>1, <3>2
  <2>3. QED
    BY <2>1, <2>2
<1>13. g = [a \in Rank |-> g[a]]
  BY <1>8
<1>14. IsTable(g)
  BY <1>11, <1>12, <1>13 DEF IsTable
<1>15. QED
  BY <1>10, <1>14 DEF g

\* MPI reads the data of a send.
LEMMA InjectFollows ==
  ASSUME IInv, NEW p \in Rank, NEW q \in Rank, NEW t \in Tag, NEW i, Inject(p, q, t, i)
  PROVE  QueuesOK' /\ \A a, b \in Rank : \A u \in Tag : FollowProgram(a, b, u)'
<1> DEFINE s == sends[p][q][t]
           r == [s EXCEPT ![i].data = SendData(p, q, t, s[i].v)]
<1>1. /\ QueuesOK /\ program' = program /\ pos' = pos /\ receives' = receives
      /\ i \in DOMAIN s /\ sends' = Changed(sends, p, q, t, r)
  BY DEF IInv, Inject, Changed
<1>2. /\ IsTable(sends)
      /\ \A a, b \in Rank : \A u \in Tag :
           IsQueue(sends[a][b][u]) /\ receives[a][b][u] \in Seq(Vec)
  BY <1>1 DEF QueuesOK
<1>3. i \in 1 .. Len(s)
  <2>1. IsQueue(s)
    BY <1>2
  <2> HIDE DEF s
  <2>2. DOMAIN s = 1 .. Len(s)
    BY <2>1 DEF IsQueue
  <2>3. QED
    BY <1>1, <2>2
<1>4. IsQueue(r) /\ Vectors(r) = Vectors(s)
  <2>1. IsQueue(s)
    BY <1>2
  <2> HIDE DEF s
  <2>2. QED
    BY <1>3, <2>1, QueueSet
<1>5. /\ IsTable(sends')
      /\ \A a, b \in Rank : \A u \in Tag :
           sends'[a][b][u] = IF a = p /\ b = q /\ u = t THEN r ELSE sends[a][b][u]
  <2> HIDE DEF r
  <2>1. QED
    BY <1>1, <1>2, QueueChanged
<1>6. \A a, b \in Rank : \A u \in Tag :
        IsQueue(sends'[a][b][u]) /\ Vectors(sends'[a][b][u]) = Vectors(sends[a][b][u])
  <2> SUFFICES ASSUME NEW a \in Rank, NEW b \in Rank, NEW u \in Tag
               PROVE  /\ IsQueue(sends'[a][b][u])
                      /\ Vectors(sends'[a][b][u]) = Vectors(sends[a][b][u])
    OBVIOUS
  <2>1. CASE a = p /\ b = q /\ u = t
    <3>1. sends'[a][b][u] = r /\ sends[a][b][u] = s
      BY <1>5, <2>1
    <3> HIDE DEF r, s
    <3>2. QED
      BY <1>4, <3>1
  <2>2. CASE ~(a = p /\ b = q /\ u = t)
    <3>1. sends'[a][b][u] = sends[a][b][u]
      BY <1>5, <2>2
    <3>2. QED
      BY <1>2, <3>1
  <2>3. QED
    BY <2>1, <2>2
<1>7. QueuesOK'
  <2>1. /\ \A a, b \in Rank : \A u \in Tag : IsQueue(sends[a][b][u])'
        /\ IsTable(sends)'
    BY <1>5, <1>6 DEF IsQueue, IsTable
  <2>2. IsTable(receives)'
    BY <1>1 DEF QueuesOK, IsTable
  <2> HIDE DEF s, r
  <2>3. QED
    BY <1>1, <2>1, <2>2 DEF QueuesOK
<1>8. ASSUME NEW a \in Rank, NEW b \in Rank, NEW u \in Tag
      PROVE  FollowProgram(a, b, u)'
  <2>1. PICK c \in Nat : /\ c <= pos[a] /\ c <= pos[b]
                         /\ Follows(Vectors(sends[a][b][u]), Between(a, b, u, c, pos[a]))
                         /\ Follows(receives[b][a][u], Between(a, b, u, c, pos[b]))
    BY DEF IInv, FollowProgram
  <2>2. /\ program' = program /\ pos' = pos /\ receives' = receives
        /\ Vectors(sends'[a][b][u]) = Vectors(sends[a][b][u])
    BY <1>1, <1>6
  <2>3. QED
    BY <2>1, <2>2, FollowsNext
<1>9. QED
  BY <1>7, <1>8

\* Where the oldest send and the oldest receive of a pair are paired, the common
\* place moves to their operation.
LEMMA PairFollows ==
  ASSUME NEW p, NEW q, NEW t, NEW c \in Nat, NEW n \in Nat, NEW m \in Nat,
         NEW vs \in Seq(Vec), NEW rs \in Seq(Vec), vs # <<>>, rs # <<>>,
         Follows(vs, Between(p, q, t, c, n)), Follows(rs, Between(p, q, t, c, m))
  PROVE  \E d \in Nat : /\ d <= n /\ d <= m
                        /\ Follows(Tail(vs), Between(p, q, t, d, n))
                        /\ Follows(Tail(rs), Between(p, q, t, d, m))
<1> DEFINE U == {x \in Exchanges(p, q, t) : c < x}
           S == Between(p, q, t, c, n)
           R == Between(p, q, t, c, m)
<1>1. /\ U \in SUBSET Nat /\ S = UpTo(U, n) /\ R = UpTo(U, m)
      /\ S \in SUBSET Nat /\ R \in SUBSET Nat
  BY DEF Between, Exchanges, UpTo
<1>2. PICK f : Lists(f, Len(vs), S) /\ \A i \in 1 .. Len(vs) : vs[i] = program[f[i]].v
  BY DEF Follows
<1>3. PICK g : Lists(g, Len(rs), R) /\ \A i \in 1 .. Len(rs) : rs[i] = program[g[i]].v
  BY DEF Follows
<1>4. Len(vs) \in Nat /\ Len(rs) \in Nat /\ 1 \in 1 .. Len(vs) /\ 1 \in 1 .. Len(rs)
  OBVIOUS
<1>5. f[1] = g[1]
  <2>1. Lists(f, Len(vs), UpTo(U, n)) /\ Lists(g, Len(rs), UpTo(U, m)) /\ U \in SUBSET Nat
    BY <1>1, <1>2, <1>3
  <2> HIDE DEF U
  <2>2. \A i \in (1 .. Len(vs)) \cap (1 .. Len(rs)) : f[i] = g[i]
    BY <1>4, <2>1, ListsAgree
  <2>3. QED
    BY <1>4, <2>2
<1>6. f[1] \in S /\ Follows(Tail(vs), {x \in S : f[1] < x})
  <2> HIDE DEF S
  <2>1. QED
    BY <1>1, <1>2, FollowsTail
<1>7. g[1] \in R /\ Follows(Tail(rs), {x \in R : g[1] < x})
  <2> HIDE DEF R
  <2>1. QED
    BY <1>1, <1>3, FollowsTail
<1> DEFINE d == f[1]
<1>8. /\ d \in Nat /\ c < d /\ d <= n /\ d <= m
  BY <1>1, <1>5, <1>6, <1>7 DEF UpTo
<1>9. /\ {x \in S : f[1] < x} = Between(p, q, t, d, n)
      /\ {x \in R : g[1] < x} = Between(p, q, t, d, m)
  <2>1. \A x \in Exchanges(p, q, t) : x \in Int
    BY DEF Exchanges
  <2>2. \A x \in Int : d < x => c < x
    BY <1>8
  <2>3. g[1] = d
    BY <1>5
  <2> HIDE DEF d
  <2>4. {x \in S : d < x} = Between(p, q, t, d, n) /\ {x \in R : d < x} = Between(p, q, t, d, m)
    BY <2>1, <2>2 DEF Between
  <2>5. QED
    BY <2>3, <2>4 DEF d
<1>10. QED
  BY <1>6, <1>7, <1>8, <1>9

\* MPI delivers a message.
LEMMA DeliverFollows ==
  ASSUME IInv, NEW p \in Rank, NEW q \in Rank, NEW t \in Tag, Deliver(p, q, t)
  PROVE  QueuesOK' /\ \A a, b \in Rank : \A u \in Tag : FollowProgram(a, b, u)'
<1> DEFINE s == sends[p][q][t]
           r == receives[q][p][t]
<1>1. /\ QueuesOK /\ program' = program /\ pos' = pos /\ s # <<>> /\ r # <<>>
      /\ sends' = Changed(sends, p, q, t, Tail(s))
      /\ receives' = Changed(receives, q, p, t, Tail(r))
  BY DEF IInv, Deliver, Changed
<1>2. /\ IsTable(sends)
      /\ IsTable(receives)
      /\ \A a, b \in Rank : \A u \in Tag :
           IsQueue(sends[a][b][u]) /\ receives[a][b][u] \in Seq(Vec)
      /\ pos \in [Rank -> Nat]
  BY <1>1 DEF QueuesOK
<1>3. IsQueue(s) /\ r \in Seq(Vec)
  BY <1>2
<1>4. /\ IsQueue(Tail(s)) /\ Vectors(Tail(s)) = Tail(Vectors(s))
      /\ Vectors(s) \in Seq(Vec) /\ Vectors(s) # <<>>
      /\ Tail(r) \in Seq(Vec)
  <2> HIDE DEF s, r
  <2>1. QED
    BY <1>1, <1>3, QueueTail
<1>5. /\ IsTable(sends')
      /\ \A a, b \in Rank : \A u \in Tag :
           sends'[a][b][u] = IF a = p /\ b = q /\ u = t THEN Tail(s) ELSE sends[a][b][u]
  <2> HIDE DEF s
  <2>1. QED
    BY <1>1, <1>2, QueueChanged
<1>6. /\ IsTable(receives')
      /\ \A a, b \in Rank : \A u \in Tag :
           receives'[a][b][u] = IF a = q /\ b = p /\ u = t THEN Tail(r) ELSE receives[a][b][u]
  <2> HIDE DEF r
  <2>1. QED
    BY <1>1, <1>2, QueueChanged
<1>7. QueuesOK'
  <2>1. ASSUME NEW a \in Rank, NEW b \in Rank, NEW u \in Tag
        PROVE  IsQueue(sends'[a][b][u]) /\ receives'[a][b][u] \in Seq(Vec)
    <3>1. \/ sends'[a][b][u] = Tail(s)
          \/ sends'[a][b][u] = sends[a][b][u]
      BY <1>5
    <3>2. \/ receives'[a][b][u] = Tail(r)
          \/ receives'[a][b][u] = receives[a][b][u]
      BY <1>6
    <3>3. IsQueue(sends[a][b][u]) /\ receives[a][b][u] \in Seq(Vec)
      BY <1>2
    <3> HIDE DEF s, r
    <3>4. QED
      BY <1>4, <3>1, <3>2, <3>3
  <2>2. /\ \A a, b \in Rank : \A u \in Tag : IsQueue(sends[a][b][u])'
        /\ IsTable(sends)' /\ IsTable(receives)'
    BY <1>5, <1>6, <2>1 DEF IsQueue, IsTable
  <2> HIDE DEF s, r
  <2>3. QED
    BY <1>1, <2>1, <2>2 DEF QueuesOK
<1>8. ASSUME NEW a \in Rank, NEW b \in Rank, NEW u \in Tag
      PROVE  FollowProgram(a, b, u)'
  <2> DEFINE vs == Vectors(sends[a][b][u])
             rs == receives[b][a][u]
  <2>1. PICK c \in Nat : /\ c <= pos[a] /\ c <= pos[b]
                         /\ Follows(vs, Between(a, b, u, c, pos[a]))
                         /\ Follows(rs, Between(a, b, u, c, pos[b]))
    BY DEF IInv, FollowProgram
  <2>2. pos[a] \in Nat /\ pos[b] \in Nat
    BY <1>2
  <2>3. CASE a = p /\ b = q /\ u = t
    <3>1. /\ vs = Vectors(s) /\ rs = r
          /\ sends'[a][b][u] = Tail(s) /\ receives'[b][a][u] = Tail(r)
      BY <1>5, <1>6, <2>3
    <3>2. /\ vs \in Seq(Vec) /\ vs # <<>> /\ rs \in Seq(Vec) /\ rs # <<>>
          /\ Vectors(sends'[a][b][u]) = Tail(vs) /\ receives'[b][a][u] = Tail(rs)
      <4> HIDE DEF s, r, vs, rs
      <4>1. QED
        BY <1>1, <1>3, <1>4, <3>1
    <3> HIDE DEF vs, rs, s, r
    <3>3. PICK d \in Nat : /\ d <= pos[a] /\ d <= pos[b]
                           /\ Follows(Tail(vs), Between(a, b, u, d, pos[a]))
                           /\ Follows(Tail(rs), Between(a, b, u, d, pos[b]))
      BY <2>1, <2>2, <3>2, PairFollows
    <3>4. QED
      BY <1>1, <3>2, <3>3, FollowsNext
  <2>4. CASE ~(a = p /\ b = q /\ u = t)
    <3>1. sends'[a][b][u] = sends[a][b][u] /\ receives'[b][a][u] = receives[b][a][u]
      BY <1>5, <1>6, <2>4
    <3>2. QED
      BY <1>1, <2>1, <3>1, FollowsNext
  <2>5. QED
    BY <2>3, <2>4
<1>9. QED
  BY <1>7, <1>8

-----------------------------------------------------------------------------
\* How often an operation occurs in one more operation of the program.
LEMMA CountNext ==
  ASSUME NEW prog, NEW n \in Nat, NEW op, NEW v
  PROVE  /\ Count(prog, n, op, v) \in Nat
         /\ Count(prog, n + 1, op, v) =
              Count(prog, n, op, v) + (IF prog[n + 1] = [op |-> op, v |-> v] THEN 1 ELSE 0)
<1> DEFINE S == {m \in 1 .. n : prog[m] = [op |-> op, v |-> v]}
           R == {m \in 1 .. n + 1 : prog[m] = [op |-> op, v |-> v]}
<1>1. IsFiniteSet(S) /\ n + 1 \notin S
  <2>1. IsFiniteSet(1 .. n)
    BY FS_Interval
  <2>2. QED
    BY <2>1, FS_Subset
<1>2. Cardinality(S) \in Nat
  BY <1>1, FS_CardinalityType
<1>3. R = IF prog[n + 1] = [op |-> op, v |-> v] THEN S \cup {n + 1} ELSE S
  OBVIOUS
<1> HIDE DEF S, R
<1>4. Cardinality(R) = Cardinality(S) + (IF prog[n + 1] = [op |-> op, v |-> v] THEN 1 ELSE 0)
  <2>1. Cardinality(S \cup {n + 1}) = Cardinality(S) + 1
    BY <1>1, FS_AddElement
  <2>2. QED
    BY <1>2, <1>3, <2>1
<1>5. QED
  BY <1>2, <1>4 DEF Count, S, R

\* Whether an update is open after an operation of p.
LEMMA InUpdateNext ==
  ASSUME QueuesOK, NEW p \in Rank, NEW op, NEW v \in Vec, At(p, op, v), Advance(p),
         NEW a \in Rank, NEW w \in Vec
  PROVE  /\ a = p /\ w = v /\ op = "updateBegin" => InUpdate(a, w)'
         /\ a # p \/ w # v \/ op \notin {"updateBegin", "updateEnd"} =>
              (InUpdate(a, w)' <=> InUpdate(a, w))
<1> DEFINE begins(n) == Count(program, n, "updateBegin", w)
           ends(n) == Count(program, n, "updateEnd", w)
<1>1. /\ program' = program /\ program \in Programs /\ pos[p] + 1 \in 1 .. Len(program)
      /\ program[pos[p] + 1] = [op |-> op, v |-> v]
      /\ pos'[a] = IF a = p THEN pos[a] + 1 ELSE pos[a]
      /\ pos[p] \in Nat
  BY PositionIs DEF QueuesOK
<1>2. InUpdate(a, w) <=> begins(pos[a]) > ends(pos[a])
  BY DEF InUpdate, Opened
<1>3. InUpdate(a, w)' <=> begins(pos'[a]) > ends(pos'[a])
  BY <1>1 DEF InUpdate, Opened, Count
<1>4. CASE a # p
  BY <1>1, <1>2, <1>3, <1>4
<1>5. CASE a = p
  <2> DEFINE n == pos[p]
  <2>1. /\ begins(n) \in Nat /\ ends(n) \in Nat
        /\ begins(n + 1) = begins(n) +
             (IF program[n + 1] = [op |-> "updateBegin", v |-> w] THEN 1 ELSE 0)
        /\ ends(n + 1) = ends(n) +
             (IF program[n + 1] = [op |-> "updateEnd", v |-> w] THEN 1 ELSE 0)
    <3> HIDE DEF n
    <3>1. n \in Nat
      BY <1>1 DEF n
    <3>2. QED
      BY <3>1, CountNext
  <2>2. /\ program[n + 1] = [op |-> "updateBegin", v |-> w] <=> op = "updateBegin" /\ v = w
        /\ program[n + 1] = [op |-> "updateEnd", v |-> w] <=> op = "updateEnd" /\ v = w
    <3>1. program[n + 1].op = op /\ program[n + 1].v = v
      BY <1>1
    <3>2. \A o : program[n + 1] = [op |-> o, v |-> w] =>
                   program[n + 1].op = o /\ program[n + 1].v = w
      OBVIOUS
    <3>3. QED
      BY <1>1, <3>1, <3>2
  <2>3. ends(n) <= begins(n)
    <3>1. n \in 0 .. Len(program)
      BY <1>1, ProgramAssumption
    <3>2. QED
      BY <1>1, <3>1, ProgramAssumption
  <2>4. pos'[a] = n + 1 /\ pos[a] = n
    BY <1>1, <1>5
  <2> HIDE DEF n, begins, ends
  <2>5. ASSUME w = v, op = "updateBegin" PROVE InUpdate(a, w)'
    <3>1. begins(n + 1) = begins(n) + 1 /\ ends(n + 1) = ends(n)
      BY <2>1, <2>2, <2>5
    <3>2. QED
      BY <1>3, <2>1, <2>3, <2>4, <3>1
  <2>6. ASSUME w # v \/ op \notin {"updateBegin", "updateEnd"}
        PROVE  InUpdate(a, w)' <=> InUpdate(a, w)
    <3>1. begins(n + 1) = begins(n) /\ ends(n + 1) = ends(n)
      BY <2>1, <2>2, <2>6
    <3>2. QED
      BY <1>2, <1>3, <2>4, <3>1
  <2>7. QED
    BY <1>5, <2>5, <2>6
<1>6. QED
  BY <1>4, <1>5

-----------------------------------------------------------------------------
\* What p leaves to MPI for v in an update.
Clear(p, v) == Sent(p, Scatter, v) /\ Delivered(p, Scatter, v)

\* An operation of p leaves NothingOutlivesItsOperation true.
LEMMA StepClears ==
  ASSUME IInv, NEW p \in Rank, NEW op, NEW v \in Vec, At(p, op, v), Advance(p),
         \A a, b \in Rank :
           \/ sends'[a][b][Scatter] = sends[a][b][Scatter]
           \/ /\ a = p /\ op = "updateBegin"
              /\ sends'[a][b][Scatter] = Append(sends[a][b][Scatter], [v |-> v, data |-> <<>>]),
         \A a, b \in Rank :
           \/ receives'[a][b][Scatter] = receives[a][b][Scatter]
           \/ /\ a = p /\ op = "updateBegin"
              /\ receives'[a][b][Scatter] = Append(receives[a][b][Scatter], v),
         op = "updateEnd" => Clear(p, v)
  PROVE  NothingOutlivesItsOperation'
<1> SUFFICES ASSUME NEW a \in Rank, NEW w \in Vec, ~InUpdate(a, w)'
             PROVE  Sent(a, Scatter, w)' /\ Delivered(a, Scatter, w)'
  BY DEF NothingOutlivesItsOperation
<1>1. /\ QueuesOK /\ Scatter \in Tag
      /\ \A b \in Rank : IsQueue(sends[a][b][Scatter]) /\ receives[a][b][Scatter] \in Seq(Vec)
  BY DEF IInv, QueuesOK, Tag
<1>2. /\ ~(a = p /\ w = v /\ op = "updateBegin")
      /\ a # p \/ w # v \/ op \notin {"updateBegin", "updateEnd"} => ~InUpdate(a, w)
  BY <1>1, InUpdateNext
<1>3. Clear(a, w)
  <2>1. CASE a = p /\ w = v /\ op = "updateEnd"
    BY <2>1
  <2>2. CASE ~(a = p /\ w = v /\ op = "updateEnd")
    <3>1. ~InUpdate(a, w)
      BY <1>2, <2>2
    <3>2. QED
      BY <3>1 DEF IInv, NothingOutlivesItsOperation, Clear
  <2>3. QED
    BY <2>1, <2>2
<1>4. ASSUME NEW b \in Rank, NEW i \in DOMAIN sends'[a][b][Scatter],
             sends'[a][b][Scatter][i].v = w
      PROVE  sends'[a][b][Scatter][i].data # <<>>
  <2>1. CASE sends'[a][b][Scatter] = sends[a][b][Scatter]
    BY <1>3, <1>4, <2>1 DEF Clear, Sent
  <2>2. CASE sends'[a][b][Scatter] # sends[a][b][Scatter]
    <3> DEFINE s == sends[a][b][Scatter]
               x == [v |-> v, data |-> <<>>]
    <3>1. a = p /\ op = "updateBegin" /\ sends'[a][b][Scatter] = Append(s, x) /\ w # v
      BY <1>2, <2>2
    <3>2. IsQueue(s)
      BY <1>1
    <3>3. \A j \in DOMAIN Append(s, x) :
            Append(s, x)[j] = x \/ (j \in DOMAIN s /\ Append(s, x)[j] = s[j])
      <4> HIDE DEF s
      <4>1. QED
        BY <3>2, QueueAppend
    <3>4. \A j \in DOMAIN s : s[j].v = w => s[j].data # <<>>
      BY <1>3 DEF Clear, Sent
    <3>5. x.v = v
      OBVIOUS
    <3> HIDE DEF s, x
    <3>6. QED
      BY <1>4, <3>1, <3>3, <3>4, <3>5
  <2>3. QED
    BY <2>1, <2>2
<1>5. ASSUME NEW b \in Rank, NEW i \in DOMAIN receives'[a][b][Scatter]
      PROVE  receives'[a][b][Scatter][i] # w
  <2>1. CASE receives'[a][b][Scatter] = receives[a][b][Scatter]
    BY <1>3, <2>1 DEF Clear, Delivered
  <2>2. CASE receives'[a][b][Scatter] # receives[a][b][Scatter]
    <3> DEFINE s == receives[a][b][Scatter]
    <3>1. a = p /\ op = "updateBegin" /\ receives'[a][b][Scatter] = Append(s, v) /\ w # v
      BY <1>2, <2>2
    <3>2. s \in Seq(Vec)
      BY <1>1
    <3>3. \A j \in DOMAIN s : s[j] # w
      BY <1>3 DEF Clear, Delivered
    <3> HIDE DEF s
    <3>4. i \in 1 .. Len(s) + 1
      BY <3>1, <3>2
    <3>5. QED
      BY <3>1, <3>2, <3>3, <3>4
  <2>3. QED
    BY <2>1, <2>2
<1>6. Sent(a, Scatter, w)'
  BY <1>4 DEF Sent
<1>7. Delivered(a, Scatter, w)'
  BY <1>5 DEF Delivered
<1>8. QED
  BY <1>6, <1>7

\* MPI reading the data of a send leaves NothingOutlivesItsOperation true.
LEMMA InjectClears ==
  ASSUME IInv, NEW p \in Rank, NEW q \in Rank, NEW t \in Tag, NEW i, Inject(p, q, t, i)
  PROVE  NothingOutlivesItsOperation'
<1> SUFFICES ASSUME NEW a \in Rank, NEW w \in Vec, ~InUpdate(a, w)'
             PROVE  Sent(a, Scatter, w)' /\ Delivered(a, Scatter, w)'
  BY DEF NothingOutlivesItsOperation
<1> DEFINE s == sends[p][q][t]
           r == [s EXCEPT ![i].data = SendData(p, q, t, s[i].v)]
<1>1. /\ QueuesOK /\ program' = program /\ pos' = pos /\ receives' = receives
      /\ i \in DOMAIN s /\ s[i].data = <<>> /\ sends' = Changed(sends, p, q, t, r)
  BY DEF IInv, Inject, Changed
<1>2. Clear(a, w)
  <2>1. ~InUpdate(a, w)
    BY <1>1 DEF InUpdate, Opened
  <2>2. QED
    BY <2>1 DEF IInv, NothingOutlivesItsOperation, Clear
<1>3. Delivered(a, Scatter, w)'
  BY <1>1, <1>2 DEF Clear, Delivered
<1>4. \A b \in Rank : \/ sends'[a][b][Scatter] = sends[a][b][Scatter]
                      \/ a = p /\ b = q /\ t = Scatter /\ sends'[a][b][Scatter] = r
  <2>1. IsTable(sends) /\ Scatter \in Tag
    BY <1>1 DEF QueuesOK, Tag
  <2> HIDE DEF r
  <2>2. \A c, b \in Rank : \A u \in Tag :
          sends'[c][b][u] = IF c = p /\ b = q /\ u = t THEN r ELSE sends[c][b][u]
    BY <1>1, <2>1, QueueChanged
  <2>3. QED
    BY <2>1, <2>2
<1>5. /\ DOMAIN r = DOMAIN s
      /\ \A j \in DOMAIN s : r[j].v = s[j].v /\ (j # i => r[j] = s[j])
  <2>1. IsQueue(s)
    BY <1>1 DEF QueuesOK
  <2>2. i \in 1 .. Len(s) /\ DOMAIN s = 1 .. Len(s)
    <3> HIDE DEF s
    <3>1. QED
      BY <1>1, <2>1 DEF IsQueue
  <2>3. /\ IsQueue(r) /\ Vectors(r) = Vectors(s) /\ Len(r) = Len(s)
        /\ \A j \in 1 .. Len(s) : j # i => r[j] = s[j]
    <3> HIDE DEF s
    <3>1. QED
      BY <2>1, <2>2, QueueSet
  <2> HIDE DEF r, s
  <2>4. DOMAIN r = 1 .. Len(r)
    BY <2>3 DEF IsQueue
  <2>5. \A j \in 1 .. Len(s) : r[j].v = s[j].v
    BY <2>1, <2>3, QueueVectors
  <2>6. QED
    BY <2>2, <2>3, <2>4, <2>5
<1>6. ASSUME NEW b \in Rank, NEW j \in DOMAIN sends'[a][b][Scatter],
             sends'[a][b][Scatter][j].v = w
      PROVE  sends'[a][b][Scatter][j].data # <<>>
  <2>1. CASE sends'[a][b][Scatter] = sends[a][b][Scatter]
    BY <1>2, <1>6, <2>1 DEF Clear, Sent
  <2>2. CASE a = p /\ b = q /\ t = Scatter /\ sends'[a][b][Scatter] = r
    <3>1. \A k \in DOMAIN s : s[k].v = w => s[k].data # <<>>
      BY <1>2, <2>2 DEF Clear, Sent
    <3> HIDE DEF r, s
    <3>2. QED
      BY <1>1, <1>5, <1>6, <2>2, <3>1
  <2>3. QED
    BY <1>4, <2>1, <2>2
<1>7. Sent(a, Scatter, w)'
  BY <1>6 DEF Sent
<1>8. QED
  BY <1>3, <1>7

\* Delivering the oldest message leaves NothingOutlivesItsOperation true.
LEMMA DeliverClears ==
  ASSUME IInv, NEW p \in Rank, NEW q \in Rank, NEW t \in Tag, Deliver(p, q, t)
  PROVE  NothingOutlivesItsOperation'
<1> SUFFICES ASSUME NEW a \in Rank, NEW w \in Vec, ~InUpdate(a, w)'
             PROVE  Sent(a, Scatter, w)' /\ Delivered(a, Scatter, w)'
  BY DEF NothingOutlivesItsOperation
<1> DEFINE s == sends[p][q][t]
           r == receives[q][p][t]
<1>1. /\ QueuesOK /\ program' = program /\ pos' = pos /\ s # <<>> /\ r # <<>>
      /\ sends' = Changed(sends, p, q, t, Tail(s))
      /\ receives' = Changed(receives, q, p, t, Tail(r))
  BY DEF IInv, Deliver, Changed
<1>2. Clear(a, w)
  <2>1. ~InUpdate(a, w)
    BY <1>1 DEF InUpdate, Opened
  <2>2. QED
    BY <2>1 DEF IInv, NothingOutlivesItsOperation, Clear
<1>3. IsTable(sends) /\ IsTable(receives) /\ Scatter \in Tag /\ IsQueue(s) /\ r \in Seq(Vec)
  BY <1>1 DEF QueuesOK, Tag
<1>4. \A b \in Rank : \/ sends'[a][b][Scatter] = sends[a][b][Scatter]
                      \/ a = p /\ b = q /\ t = Scatter /\ sends'[a][b][Scatter] = Tail(s)
  <2> HIDE DEF s
  <2>1. \A c, b \in Rank : \A u \in Tag :
          sends'[c][b][u] = IF c = p /\ b = q /\ u = t THEN Tail(s) ELSE sends[c][b][u]
    BY <1>1, <1>3, QueueChanged
  <2>2. QED
    BY <1>3, <2>1
<1>5. \A b \in Rank : \/ receives'[a][b][Scatter] = receives[a][b][Scatter]
                      \/ a = q /\ b = p /\ t = Scatter /\ receives'[a][b][Scatter] = Tail(r)
  <2> HIDE DEF r
  <2>1. \A c, b \in Rank : \A u \in Tag :
          receives'[c][b][u] = IF c = q /\ b = p /\ u = t THEN Tail(r) ELSE receives[c][b][u]
    BY <1>1, <1>3, QueueChanged
  <2>2. QED
    BY <1>3, <2>1
<1>6. ASSUME NEW b \in Rank, NEW j \in DOMAIN sends'[a][b][Scatter],
             sends'[a][b][Scatter][j].v = w
      PROVE  sends'[a][b][Scatter][j].data # <<>>
  <2>1. CASE sends'[a][b][Scatter] = sends[a][b][Scatter]
    BY <1>2, <1>6, <2>1 DEF Clear, Sent
  <2>2. CASE a = p /\ b = q /\ t = Scatter /\ sends'[a][b][Scatter] = Tail(s)
    <3>1. \A k \in DOMAIN s : s[k].v = w => s[k].data # <<>>
      BY <1>2, <2>2 DEF Clear, Sent
    <3>2. /\ DOMAIN s = 1 .. Len(s) /\ DOMAIN Tail(s) = 1 .. Len(s) - 1 /\ Len(s) \in Nat
          /\ \A k \in 1 .. Len(s) - 1 : Tail(s)[k] = s[k + 1]
      <4> HIDE DEF s
      <4>1. /\ IsQueue(Tail(s)) /\ Len(Tail(s)) = Len(s) - 1
            /\ \A k \in 1 .. Len(s) - 1 : Tail(s)[k] = s[k + 1]
        BY <1>1, <1>3, QueueTail
      <4>2. QED
        BY <1>3, <4>1 DEF IsQueue
    <3> HIDE DEF s
    <3>3. j \in 1 .. Len(s) - 1
      BY <2>2, <3>2
    <3>4. j + 1 \in DOMAIN s /\ sends'[a][b][Scatter][j] = s[j + 1]
      BY <2>2, <3>2, <3>3
    <3>5. QED
      BY <1>6, <3>1, <3>4
  <2>3. QED
    BY <1>4, <2>1, <2>2
<1>7. ASSUME NEW b \in Rank, NEW j \in DOMAIN receives'[a][b][Scatter]
      PROVE  receives'[a][b][Scatter][j] # w
  <2>1. CASE receives'[a][b][Scatter] = receives[a][b][Scatter]
    BY <1>2, <2>1 DEF Clear, Delivered
  <2>2. CASE a = q /\ b = p /\ t = Scatter /\ receives'[a][b][Scatter] = Tail(r)
    <3>1. \A k \in DOMAIN r : r[k] # w
      BY <1>2, <2>2 DEF Clear, Delivered
    <3> HIDE DEF r
    <3>2. j \in 1 .. Len(r) - 1 /\ j + 1 \in DOMAIN r /\ Tail(r)[j] = r[j + 1]
      BY <1>1, <1>3, <2>2
    <3>3. QED
      BY <2>2, <3>1, <3>2
  <2>3. QED
    BY <1>5, <2>1, <2>2
<1>8. Sent(a, Scatter, w)'
  BY <1>6 DEF Sent
<1>9. Delivered(a, Scatter, w)'
  BY <1>7 DEF Delivered
<1>10. QED
  BY <1>8, <1>9

-----------------------------------------------------------------------------
\* No message and no operation at the start.
LEMMA InitOK == Init => IInv
<1> SUFFICES ASSUME Init PROVE IInv
  OBVIOUS
<1>1. /\ program \in Programs /\ pos = [p \in Rank |-> 0]
      /\ sends = [p \in Rank |-> [q \in Rank |-> [t \in Tag |-> <<>>]]]
      /\ receives = [p \in Rank |-> [q \in Rank |-> [t \in Tag |-> <<>>]]]
  BY DEF Init
<1>2. Len(program) \in Nat
  BY <1>1, ProgramAssumption
<1>3. \A p, q \in Rank : \A t \in Tag : sends[p][q][t] = <<>> /\ receives[p][q][t] = <<>>
  BY <1>1
<1>4. IsQueue(<<>>)
  <2>1. Len(<<>>) = 0 /\ 1 .. 0 = {}
    OBVIOUS
  <2>2. <<>> = [i \in 1 .. Len(<<>>) |-> [v |-> <<>>[i].v, data |-> <<>>[i].data]]
    BY <2>1
  <2>3. QED
    BY <2>1, <2>2 DEF IsQueue
<1>5. QueuesOK
  <2>1. IsTable(sends)
    BY <1>1 DEF IsTable
  <2>2. IsTable(receives)
    BY <1>1 DEF IsTable
  <2>3. \A p, q \in Rank : \A t \in Tag :
          IsQueue(sends[p][q][t]) /\ receives[p][q][t] \in Seq(Vec)
    <3> SUFFICES ASSUME NEW p \in Rank, NEW q \in Rank, NEW t \in Tag
                 PROVE  IsQueue(sends[p][q][t]) /\ receives[p][q][t] \in Seq(Vec)
      OBVIOUS
    <3>1. <<>> \in Seq(Vec)
      OBVIOUS
    <3>2. QED
      BY <1>3, <1>4, <3>1
  <2>4. /\ program \in Programs /\ pos \in [Rank -> Nat]
        /\ \A p \in Rank : pos[p] <= Len(program)
    BY <1>1, <1>2
  <2>5. QED
    BY <2>1, <2>2, <2>3, <2>4 DEF QueuesOK
<1>6. ASSUME NEW p \in Rank, NEW q \in Rank, NEW t \in Tag
      PROVE  FollowProgram(p, q, t)
  <2>1. Between(p, q, t, 0, 0) = {}
    BY DEF Between, Exchanges
  <2>2. ASSUME NEW vs, Len(vs) = 0 PROVE Follows(vs, {})
    <3> DEFINE f == [i \in 1 .. 0 |-> 0]
    <3>1. Lists(f, Len(vs), {})
      <4>1. 1 .. 0 = {}
        OBVIOUS
      <4>2. QED
        BY <2>2, <4>1 DEF Lists
    <3> HIDE DEF f
    <3>2. QED
      BY <2>2, <3>1 DEF Follows
  <2>3. Len(Vectors(<<>>)) = 0 /\ Len(<<>>) = 0
    BY <1>4, QueueVectors
  <2>4. /\ Follows(Vectors(sends[p][q][t]), Between(p, q, t, 0, 0))
        /\ Follows(receives[q][p][t], Between(p, q, t, 0, 0))
    BY <1>3, <2>1, <2>2, <2>3
  <2>5. pos[p] = 0 /\ pos[q] = 0
    BY <1>1
  <2>6. QED
    BY <2>4, <2>5 DEF FollowProgram
<1>7. NothingOutlivesItsOperation
  <2>1. Scatter \in Tag /\ DOMAIN <<>> = {}
    BY DEF Tag
  <2>2. QED
    BY <1>3, <2>1 DEF NothingOutlivesItsOperation, Sent, Delivered
<1>8. QED
  BY <1>5, <1>6, <1>7 DEF IInv

\* The operations that begin nothing preserve the invariant.
LEMMA OtherOK ==
  ASSUME IInv, NEW p \in Rank, NEW op, NEW v \in Vec, At(p, op, v), Advance(p), UNCHANGED mpi,
         op \notin {"updateBegin", "accumulateBegin"},
         op = "updateEnd" => Clear(p, v)
  PROVE  IInv'
<1>1. sends' = sends /\ receives' = receives
  BY DEF mpi
<1>2. \A u \in Tag : op # BeginOp(u)
  BY DEF BeginOp
<1>3. QueuesOK' /\ \A a, b \in Rank : \A u \in Tag : FollowProgram(a, b, u)'
  BY <1>2, OtherFollows
<1>4. NothingOutlivesItsOperation'
  BY <1>1, StepClears
<1>5. QED
  BY <1>3, <1>4 DEF IInv

\* The beginning of an update or an accumulation preserves the invariant.
LEMMA BeginOK ==
  ASSUME IInv, NEW p \in Rank, NEW t \in Tag, NEW v \in Vec, At(p, BeginOp(t), v), Advance(p),
         NEW to, NEW from, Isend(p, to, t, v), Irecv(p, from, t, v),
         \A b \in Rank : /\ b \in to <=> Exchanged(p, b, t, v)
                         /\ b \in from <=> Exchanged(b, p, t, v)
  PROVE  IInv'
<1> DEFINE op == BeginOp(t)
<1>1. QueuesOK' /\ \A a, b \in Rank : \A u \in Tag : FollowProgram(a, b, u)'
  BY BeginFollows
<1>2. Scatter \in Tag /\ (t = Scatter => op = "updateBegin") /\ op # "updateEnd"
  BY DEF Tag, BeginOp
<1>3. \A a, b \in Rank :
        \/ sends'[a][b][Scatter] = sends[a][b][Scatter]
        \/ /\ a = p /\ op = "updateBegin"
           /\ sends'[a][b][Scatter] = Append(sends[a][b][Scatter], [v |-> v, data |-> <<>>])
  <2> SUFFICES ASSUME NEW a \in Rank, NEW b \in Rank
               PROVE  \/ sends'[a][b][Scatter] = sends[a][b][Scatter]
                      \/ /\ a = p /\ op = "updateBegin"
                         /\ sends'[a][b][Scatter] =
                              Append(sends[a][b][Scatter], [v |-> v, data |-> <<>>])
    OBVIOUS
  <2> DEFINE x == [v |-> v, data |-> <<>>]
  <2>1. sends'[a][b][Scatter] = IF a = p /\ b \in to /\ Scatter = t
                                THEN Append(sends[a][b][Scatter], x)
                                ELSE sends[a][b][Scatter]
    BY <1>2, IsendIs
  <2> HIDE DEF x, op
  <2>2. QED
    BY <1>2, <2>1 DEF x
<1>4. \A a, b \in Rank :
        \/ receives'[a][b][Scatter] = receives[a][b][Scatter]
        \/ /\ a = p /\ op = "updateBegin"
           /\ receives'[a][b][Scatter] = Append(receives[a][b][Scatter], v)
  <2> SUFFICES ASSUME NEW a \in Rank, NEW b \in Rank
               PROVE  \/ receives'[a][b][Scatter] = receives[a][b][Scatter]
                      \/ /\ a = p /\ op = "updateBegin"
                         /\ receives'[a][b][Scatter] = Append(receives[a][b][Scatter], v)
    OBVIOUS
  <2>1. receives'[a][b][Scatter] = IF a = p /\ b \in from /\ Scatter = t
                                   THEN Append(receives[a][b][Scatter], v)
                                   ELSE receives[a][b][Scatter]
    BY <1>2, IrecvIs
  <2> HIDE DEF op
  <2>2. QED
    BY <1>2, <2>1
<1>5. NothingOutlivesItsOperation'
  <2>1. At(p, op, v) /\ (op = "updateEnd" => Clear(p, v))
    BY <1>2
  <2> HIDE DEF op
  <2>2. QED
    BY <1>3, <1>4, <2>1, StepClears
<1>6. QED
  BY <1>1, <1>5 DEF IInv

\* Every step preserves the invariant.
LEMMA NextOK == IInv /\ [Next]_vars => IInv'
<1> SUFFICES ASSUME IInv, [Next]_vars PROVE IInv'
  OBVIOUS
<1>1. ASSUME NEW p \in Rank, RankStep(p) PROVE IInv'
  <2>1. PICK v \in Vec :
          \/ Compute(p, v) \/ zeroOutGhosts(p, v)
          \/ updateGhostValuesBegin(p, v) \/ updateGhostValuesEnd(p, v)
          \/ accumulateAddLocallyOwnedBegin(p, v) \/ accumulateAddLocallyOwnedEnd(p, v)
    BY <1>1 DEF RankStep
  <2>2. CASE Compute(p, v)
    <3>1. At(p, "compute", v) /\ Advance(p) /\ UNCHANGED mpi
      BY <2>2 DEF Compute
    <3>2. QED
      BY <3>1, OtherOK
  <2>3. CASE zeroOutGhosts(p, v)
    <3>1. At(p, "zeroOutGhosts", v) /\ Advance(p) /\ UNCHANGED mpi
      BY <2>3 DEF zeroOutGhosts
    <3>2. QED
      BY <3>1, OtherOK
  <2>4. CASE updateGhostValuesBegin(p, v)
    <3>1. /\ At(p, BeginOp(Scatter), v) /\ Advance(p) /\ Scatter \in Tag
          /\ Isend(p, getTargetProcIds(p, v), Scatter, v)
          /\ Irecv(p, getGhostProcIds(p, v), Scatter, v)
      BY <2>4 DEF updateGhostValuesBegin, BeginOp, Tag
    <3>2. \A b \in Rank : /\ b \in getTargetProcIds(p, v) <=> Exchanged(p, b, Scatter, v)
                          /\ b \in getGhostProcIds(p, v) <=> Exchanged(b, p, Scatter, v)
      BY DEF Exchanged, getTargetProcIds
    <3>3. QED
      BY <3>1, <3>2, BeginOK
  <2>5. CASE updateGhostValuesEnd(p, v)
    <3>1. At(p, "updateEnd", v) /\ Advance(p) /\ UNCHANGED mpi /\ Clear(p, v)
      BY <2>5 DEF updateGhostValuesEnd, Clear
    <3>2. QED
      BY <3>1, OtherOK
  <2>6. CASE accumulateAddLocallyOwnedBegin(p, v)
    <3>1. /\ At(p, BeginOp(Gather), v) /\ Advance(p) /\ Gather \in Tag
          /\ Isend(p, getGhostProcIds(p, v), Gather, v)
          /\ Irecv(p, getTargetProcIds(p, v), Gather, v)
      BY <2>6 DEF accumulateAddLocallyOwnedBegin, BeginOp, Tag, Gather, Scatter
    <3>2. \A b \in Rank : /\ b \in getGhostProcIds(p, v) <=> Exchanged(p, b, Gather, v)
                          /\ b \in getTargetProcIds(p, v) <=> Exchanged(b, p, Gather, v)
      BY DEF Exchanged, getTargetProcIds, Gather, Scatter
    <3>3. QED
      BY <3>1, <3>2, BeginOK
  <2>7. CASE accumulateAddLocallyOwnedEnd(p, v)
    <3>1. At(p, "accumulateEnd", v) /\ Advance(p) /\ UNCHANGED mpi
      BY <2>7 DEF accumulateAddLocallyOwnedEnd
    <3>2. QED
      BY <3>1, OtherOK
  <2>8. QED
    BY <2>1, <2>2, <2>3, <2>4, <2>5, <2>6, <2>7
<1>2. ASSUME NEW p \in Rank, NEW q \in Rank, NEW t \in Tag, NEW i, Inject(p, q, t, i)
      PROVE  IInv'
  BY <1>2, InjectClears, InjectFollows DEF IInv
<1>3. ASSUME NEW p \in Rank, NEW q \in Rank, NEW t \in Tag, Deliver(p, q, t)
      PROVE  IInv'
  BY <1>3, DeliverClears, DeliverFollows DEF IInv
<1>4. CASE UNCHANGED vars
  <2>1. /\ program' = program /\ pos' = pos /\ sends' = sends /\ receives' = receives
    BY <1>4 DEF vars
  <2>2. QueuesOK'
    BY <2>1 DEF IInv, QueuesOK, IsTable, IsQueue
  <2>3. ASSUME NEW p \in Rank, NEW q \in Rank, NEW t \in Tag PROVE FollowProgram(p, q, t)'
    <3>1. FollowProgram(p, q, t)
      BY DEF IInv
    <3>2. QED
      BY <2>1, <3>1, FollowsNext DEF FollowProgram
  <2>4. NothingOutlivesItsOperation'
    <3>1. \A p \in Rank : \A v \in Vec : InUpdate(p, v)' <=> InUpdate(p, v)
      BY <2>1 DEF InUpdate, Opened
    <3>2. QED
      BY <2>1, <3>1 DEF IInv, NothingOutlivesItsOperation, Sent, Delivered
  <2>5. QED
    BY <2>2, <2>3, <2>4 DEF IInv
<1>5. QED
  BY <1>1, <1>2, <1>3, <1>4 DEF Next, Progress, Terminated

\* The common place of the queues of two ranks exists in every state.
THEOREM Invariance == Spec => []IInv
<1>1. QED
  BY InitOK, NextOK, PTL DEF Spec

\* All vectors use the same two tags: however far the ranks run apart, and however late
\* MPI reads and delivers, a receive is paired with a send of its own vector.
THEOREM MessagesReachTheirVector == Spec => []MessagesMatchTheirVector
<1>1. QED
  BY Invariance, QueuesMatch, PTL

\* While no update of a vector is open, MPI neither reads the send buffer of the vector
\* nor writes its ghost section.
THEOREM UpdatesLeaveNothingBehind == Spec => []NothingOutlivesItsOperation
<1>1. IInv => NothingOutlivesItsOperation
  BY DEF IInv
<1>2. QED
  BY <1>1, Invariance, PTL

\* A receive that nothing matches, while no send to it is left, was begun by a rank
\* that has run more of the program than the sender.
LEMMA UnmatchedReceiveIsAhead ==
  ASSUME IInv, NEW p \in Rank, NEW q \in Rank, NEW t \in Tag,
         sends[q][p][t] = <<>>, NEW i \in DOMAIN receives[p][q][t]
  PROVE  pos[q] < pos[p]
<1> DEFINE r == receives[p][q][t]
           s == sends[q][p][t]
<1>1. /\ IsQueue(s) /\ r \in Seq(Vec) /\ FollowProgram(q, p, t)
      /\ pos[p] \in Nat /\ pos[q] \in Nat
  BY DEF IInv, QueuesOK
<1>2. PICK c \in Nat : /\ Follows(Vectors(s), Between(q, p, t, c, pos[q]))
                       /\ Follows(r, Between(q, p, t, c, pos[p]))
  BY <1>1 DEF FollowProgram
<1>3. Len(s) = 0
  OBVIOUS
<1> HIDE DEF r, s
<1>4. Len(Vectors(s)) = 0
  BY <1>1, <1>3, QueueVectors
<1>5. Between(q, p, t, c, pos[q]) = {}
  <2>1. PICK f : Lists(f, Len(Vectors(s)), Between(q, p, t, c, pos[q]))
    BY <1>2 DEF Follows
  <2>2. QED
    BY <1>4, <2>1 DEF Lists
<1>6. PICK f : Lists(f, Len(r), Between(q, p, t, c, pos[p]))
  BY <1>2 DEF Follows
<1>7. i \in 1 .. Len(r)
  BY <1>1 DEF r
<1>8. f[i] \in Between(q, p, t, c, pos[p])
  BY <1>6, <1>7 DEF Lists
<1>9. f[i] \in 1 .. Len(program) /\ f[i] <= pos[p] /\ ~(f[i] <= pos[q])
  BY <1>5, <1>8 DEF Between, Exchanges
<1>10. program \in Programs
  BY DEF IInv, QueuesOK
<1>11. Len(program) \in Nat
  BY <1>10, ProgramAssumption
<1>12. QED
  BY <1>1, <1>9, <1>11

\* The other way round, a send to a rank with no receive left for it was begun at an
\* operation that this rank has not come to.
LEMMA UnmatchedSendIsAhead ==
  ASSUME IInv, NEW p \in Rank, NEW q \in Rank, NEW t \in Tag,
         receives[q][p][t] = <<>>, NEW i \in DOMAIN sends[p][q][t]
  PROVE  pos[q] < pos[p]
<1> DEFINE r == receives[q][p][t]
           s == sends[p][q][t]
<1>1. /\ IsQueue(s) /\ r \in Seq(Vec) /\ FollowProgram(p, q, t)
      /\ pos[p] \in Nat /\ pos[q] \in Nat
  BY DEF IInv, QueuesOK
<1>2. PICK c \in Nat : /\ Follows(Vectors(s), Between(p, q, t, c, pos[p]))
                       /\ Follows(r, Between(p, q, t, c, pos[q]))
  BY <1>1 DEF FollowProgram
<1>3. Len(r) = 0
  OBVIOUS
<1> HIDE DEF r, s
<1>4. Between(p, q, t, c, pos[q]) = {}
  <2>1. PICK f : Lists(f, Len(r), Between(p, q, t, c, pos[q]))
    BY <1>2 DEF Follows
  <2>2. QED
    BY <1>3, <2>1 DEF Lists
<1>5. PICK f : Lists(f, Len(Vectors(s)), Between(p, q, t, c, pos[p]))
  BY <1>2 DEF Follows
<1>6. i \in 1 .. Len(Vectors(s))
  <2>1. i \in DOMAIN s /\ Len(Vectors(s)) = Len(s) /\ DOMAIN s = 1 .. Len(s)
    BY <1>1, QueueVectors DEF s, IsQueue
  <2>2. QED
    BY <2>1
<1>7. f[i] \in Between(p, q, t, c, pos[p])
  BY <1>5, <1>6 DEF Lists
<1>8. f[i] \in 1 .. Len(program) /\ f[i] <= pos[p] /\ ~(f[i] <= pos[q])
  BY <1>4, <1>7 DEF Between, Exchanges
<1>9. program \in Programs
  BY DEF IInv, QueuesOK
<1>10. Len(program) \in Nat
  BY <1>9, ProgramAssumption
<1>11. QED
  BY <1>1, <1>8, <1>10

LEMMA QuietWaits == IInv => WaitsOnlyForRanksBehind
<1> SUFFICES ASSUME IInv, MPIQuiet, NEW p \in Rank, NEW v \in Vec, NEW t \in Tag,
                    ~(Sent(p, t, v) /\ Delivered(p, t, v))
             PROVE  \E q \in Rank : pos[q] < pos[p]
  BY DEF WaitsOnlyForRanksBehind, Waits
<1>1. CASE ~Sent(p, t, v)
  <2>1. PICK q \in Rank : \E i \in DOMAIN sends[p][q][t] : TRUE
    BY <1>1 DEF Sent
  <2>2. PICK i \in DOMAIN sends[p][q][t] : TRUE
    BY <2>1
  <2>3. sends[p][q][t] # <<>>
    BY <2>2
  <2>4. receives[q][p][t] = <<>>
    BY <2>3 DEF MPIQuiet
  <2>5. QED
    BY <2>2, <2>4, UnmatchedSendIsAhead
<1>2. CASE ~Delivered(p, t, v)
  <2>1. PICK q \in Rank : \E i \in DOMAIN receives[p][q][t] : receives[p][q][t][i] = v
    BY <1>2 DEF Delivered
  <2>2. PICK i \in DOMAIN receives[p][q][t] : TRUE
    BY <2>1
  <2>3. receives[p][q][t] # <<>>
    BY <2>2
  <2>4. sends[q][p][t] = <<>>
    BY <2>3 DEF MPIQuiet
  <2>5. QED
    BY <2>2, <2>4, UnmatchedReceiveIsAhead
<1>3. QED
  BY <1>1, <1>2

\* A rank that no other is behind does not wait; so some rank that has not finished
\* its program never waits, unless a send is left that its receive is posted for.
LEMMA SomeRankGoesOn ==
  ASSUME QueuesOK, WaitsOnlyForRanksBehind, MPIQuiet,
         \E p \in Rank : pos[p] < Len(program)
  PROVE  \E p \in Rank : pos[p] < Len(program) /\ ~Waits(p)
<1>1. PICK r \in Rank : pos[r] < Len(program)
  OBVIOUS
<1>2. program \in Programs /\ \A p \in Rank : pos[p] \in Nat
  BY DEF QueuesOK
<1>3. Len(program) \in Nat
  BY <1>2, ProgramAssumption
<1>4. PICK p \in Rank : \A q \in Rank : pos[p] <= pos[q]
  <2> DEFINE P == {pos[q] : q \in Rank}
  <2>1. P \in SUBSET Nat /\ P # {}
    BY <1>1, <1>2
  <2>2. PICK m \in P : \A n \in P : m <= n
    <3> HIDE DEF P
    <3>1. QED
      BY <2>1, LeastNumber
  <2>3. QED
    BY <2>2
<1>5. pos[p] < Len(program)
  <2>1. pos[p] <= pos[r] /\ pos[p] \in Nat /\ pos[r] \in Nat
    BY <1>2, <1>4
  <2>2. QED
    BY <1>1, <1>3, <2>1
<1>6. ~Waits(p)
  <2> SUFFICES ASSUME Waits(p) PROVE FALSE
    OBVIOUS
  <2>1. PICK q \in Rank : pos[q] < pos[p]
    BY DEF WaitsOnlyForRanksBehind
  <2>2. pos[p] <= pos[q] /\ pos[p] \in Nat /\ pos[q] \in Nat
    BY <1>2, <1>4
  <2>3. QED
    BY <2>1, <2>2
<1>7. QED
  BY <1>5, <1>6

\* When MPI has nothing left that it must do, a rank waits only for ranks that have run
\* less of the program, with its sends as with its receives: no circle of waiting ranks
\* closes, whatever patterns and programs, also if MPI copies no message.
THEOREM RanksWaitForThoseBehind == Spec => []WaitsOnlyForRanksBehind
<1>1. QED
  BY Invariance, QuietWaits, PTL

\* Hence the exchanges do not deadlock: while a rank has not finished, MPI must still read
\* or deliver a message, or a rank that has not finished can go on.
ExchangeGoesOn ==
  MPIQuiet /\ (\E p \in Rank : pos[p] < Len(program))
    => \E p \in Rank : pos[p] < Len(program) /\ ~Waits(p)

\* The update and accumulate calls of all vectors (their MPI_Waitall in the End
\* operations) never leave all unfinished ranks waiting, for any program.
THEOREM ExchangesDoNotDeadlock == Spec => []ExchangeGoesOn
<1>1. IInv => ExchangeGoesOn
  <2> SUFFICES ASSUME IInv, MPIQuiet, \E p \in Rank : pos[p] < Len(program)
               PROVE  \E p \in Rank : pos[p] < Len(program) /\ ~Waits(p)
    BY DEF ExchangeGoesOn
  <2>1. QueuesOK /\ WaitsOnlyForRanksBehind
    BY QuietWaits DEF IInv
  <2>2. QED
    BY <2>1, SomeRankGoesOn
<1>2. QED
  BY <1>1, Invariance, PTL

-----------------------------------------------------------------------------
\* g adds up the values of f over every subset of S, in any order.
SumsOf(g, f, S) ==
  /\ g \in [SUBSET S -> Int]
  /\ g[{}] = 0
  /\ \A T \in SUBSET S : \A x \in T : g[T] = f[x] + g[T \ {x}]

\* sums is computed as MapThenSumSet does, for the function f.
SumsUp(sums, f, S) ==
  sums = [T \in SUBSET S |-> IF T = {} THEN 0
                             ELSE f[CHOOSE x \in T : TRUE] + sums[T \ {CHOOSE x \in T : TRUE}]]

LEMMA SumsExist ==
  ASSUME NEW S, NEW f, NEW g, SumsOf(g, f, S)
  PROVE  SumsUp(g, f, S)
<1> DEFINE c(T) == CHOOSE x \in T : TRUE
<1>1. ASSUME NEW T \in SUBSET S
      PROVE  g[T] = IF T = {} THEN 0 ELSE f[c(T)] + g[T \ {c(T)}]
  <2>1. CASE T = {}
    BY <2>1 DEF SumsOf
  <2>2. CASE T # {}
    <3>1. c(T) \in T
      BY <2>2
    <3> HIDE DEF c
    <3>2. QED
      BY <2>2, <3>1 DEF SumsOf
  <2>3. QED
    BY <2>1, <2>2
<1>2. g = [T \in SUBSET S |-> g[T]]
  BY DEF SumsOf
<1>3. g = [T \in SUBSET S |-> IF T = {} THEN 0 ELSE f[c(T)] + g[T \ {c(T)}]]
  <2> HIDE DEF c
  <2>1. QED
    BY <1>1, <1>2
<1>4. QED
  BY <1>3 DEF SumsUp

LEMMA SumIs ==
  ASSUME NEW S, IsFiniteSet(S), NEW f, NEW g, SumsOf(g, f, S), NEW sums, SumsUp(sums, f, S)
  PROVE  sums[S] = g[S]
<1> DEFINE F == {T \in SUBSET S : sums[T] = g[T]}
           c(T) == CHOOSE x \in T : TRUE
<1>1. ASSUME NEW T \in SUBSET S, \A U \in SUBSET T : U # T => U \in F
      PROVE  T \in F
  <2>0. sums = [R \in SUBSET S |-> IF R = {} THEN 0 ELSE f[c(R)] + sums[R \ {c(R)}]]
    BY DEF SumsUp
  <2>1. CASE T = {}
    <3> HIDE DEF c
    <3>1. QED
      BY <2>0, <2>1 DEF SumsOf
  <2>2. CASE T # {}
    <3>1. c(T) \in T
      BY <2>2
    <3> HIDE DEF c
    <3>2. T \ {c(T)} \in F
      BY <1>1, <3>1
    <3>3. sums[T] = f[c(T)] + sums[T \ {c(T)}]
      BY <2>0, <2>2
    <3>4. g[T] = f[c(T)] + g[T \ {c(T)}]
      BY <3>1 DEF SumsOf
    <3>5. QED
      BY <3>2, <3>3, <3>4
  <2>3. QED
    BY <2>1, <2>2
<1>2. \A T \in SUBSET S : T \in F
  <2> HIDE DEF F
  <2>1. QED
    BY <1>1, SubsetInduction
<1>3. QED
  BY <1>2

\* The values of a function can be added up, and the order does not matter.
LEMMA SumsOfExist ==
  ASSUME NEW S, IsFiniteSet(S), NEW f, \A x \in S : f[x] \in Int
  PROVE  \E g : SumsOf(g, f, S)
<1> DEFINE c == [T \in SUBSET S |-> CHOOSE x \in T : TRUE]
           h == [x \in S |-> [n \in Int |-> f[x] + n]]
<1>1. FoldData(S, Int, 0, h, c)
  <2>1. h \in [S -> [Int -> Int]]
    OBVIOUS
  <2>2. \A T \in SUBSET S : T # {} => c[T] \in T
    OBVIOUS
  <2> HIDE DEF h, c
  <2>3. QED
    BY <2>1, <2>2 DEF FoldData
<1>2. PICK g : g \in FoldsOf(S, Int, 0, h, c)
  <2> HIDE DEF h, c
  <2>1. QED
    BY <1>1, FoldsExist
<1>3. /\ g \in [SUBSET S -> Int] /\ g[{}] = 0
      /\ \A T \in SUBSET S : T # {} => c[T] \in T /\ g[T] = f[c[T]] + g[T \ {c[T]}]
  <2>1. /\ g \in [SUBSET S -> Int]
        /\ \A T \in SUBSET S : g[T] = IF T = {} THEN 0 ELSE h[c[T]][g[T \ {c[T]}]]
    <3> HIDE DEF h, c
    <3>1. QED
      BY <1>2 DEF FoldsOf
  <2>2. \A T \in SUBSET S : T # {} => c[T] \in T
    OBVIOUS
  <2>3. \A x \in S : \A n \in Int : h[x][n] = f[x] + n
    OBVIOUS
  <2> HIDE DEF h, c
  <2>4. {} \in SUBSET S /\ \A T \in SUBSET S : g[T \ {c[T]}] \in Int
    BY <2>1
  <2>5. g[{}] = 0
    BY <2>1, <2>4
  <2>6. ASSUME NEW T \in SUBSET S, T # {}
        PROVE  c[T] \in T /\ g[T] = f[c[T]] + g[T \ {c[T]}]
    <3>1. c[T] \in S /\ c[T] \in T
      BY <2>2, <2>6
    <3>2. g[T] = h[c[T]][g[T \ {c[T]}]]
      BY <2>1, <2>6
    <3>3. QED
      BY <2>3, <2>4, <3>1, <3>2
  <2>7. QED
    BY <2>1, <2>5, <2>6
<1> HIDE DEF h, c
<1> DEFINE F == {T \in SUBSET S : \A x \in T : g[T] = f[x] + g[T \ {x}]}
<1>4. ASSUME NEW T \in SUBSET S, \A U \in SUBSET T : U # T => U \in F
      PROVE  T \in F
  <2> SUFFICES ASSUME NEW x \in T PROVE g[T] = f[x] + g[T \ {x}]
    OBVIOUS
  <2> DEFINE y == c[T]
  <2>1. y \in T /\ g[T] = f[y] + g[T \ {y}]
    BY <1>3
  <2> HIDE DEF y
  <2>2. CASE x = y
    BY <2>1, <2>2
  <2>3. CASE x # y
    <3>1. T \ {y} \in F /\ x \in T \ {y} /\ T \ {x} \in F /\ y \in T \ {x}
      BY <1>4, <2>1, <2>3
    <3>2. /\ g[T \ {y}] = f[x] + g[(T \ {y}) \ {x}]
          /\ g[T \ {x}] = f[y] + g[(T \ {x}) \ {y}]
      BY <3>1
    <3>3. (T \ {y}) \ {x} = (T \ {x}) \ {y}
      OBVIOUS
    <3>4. f[x] \in Int /\ f[y] \in Int /\ g[(T \ {x}) \ {y}] \in Int
      BY <1>3, <2>1
    <3>5. g[T] = f[y] + (f[x] + g[(T \ {x}) \ {y}])
      BY <2>1, <3>2, <3>3
    <3>6. g[T \ {x}] = f[y] + g[(T \ {x}) \ {y}]
      BY <3>2
    <3>7. \A i, j, k \in Int : i + (j + k) = j + (i + k)
      OBVIOUS
    <3>8. f[y] + (f[x] + g[(T \ {x}) \ {y}]) = f[x] + (f[y] + g[(T \ {x}) \ {y}])
      BY <3>4, <3>7
    <3>9. QED
      BY <3>5, <3>6, <3>8
  <2>4. QED
    BY <2>2, <2>3
<1>5. \A T \in SUBSET S : T \in F
  <2> HIDE DEF F
  <2>1. QED
    BY <1>4, SubsetInduction
<1>6. \A T \in SUBSET S : \A x \in T : g[T] = f[x] + g[T \ {x}]
  BY <1>5
<1>7. SumsOf(g, f, S)
  BY <1>3, <1>6 DEF SumsOf
<1>8. QED
  BY <1>7

\* Members without a value may be left out of a sum.
LEMMA SumsOfPart ==
  ASSUME NEW S, NEW R \in SUBSET S, NEW f, NEW r, SumsOf(r, f, R),
         \A x \in S \ R : f[x] = 0
  PROVE  SumsOf([T \in SUBSET S |-> r[T \cap R]], f, S)
<1> DEFINE g == [T \in SUBSET S |-> r[T \cap R]]
<1>1. g \in [SUBSET S -> Int] /\ g[{}] = 0
  <2>1. {} \cap R = {} /\ \A T \in SUBSET S : T \cap R \in SUBSET R
    OBVIOUS
  <2>2. QED
    BY <2>1 DEF SumsOf
<1>2. ASSUME NEW T \in SUBSET S, NEW x \in T PROVE g[T] = f[x] + g[T \ {x}]
  <2>1. g[T] = r[T \cap R] /\ g[T \ {x}] = r[(T \ {x}) \cap R]
    OBVIOUS
  <2>2. T \cap R \in SUBSET R /\ r[T \cap R] \in Int
    BY DEF SumsOf
  <2> HIDE DEF g
  <2>3. CASE x \in R
    <3> DEFINE U == T \cap R
    <3>1. U \in SUBSET R /\ x \in U /\ (T \ {x}) \cap R = U \ {x}
      BY <2>3
    <3>2. g[T] = r[U] /\ g[T \ {x}] = r[U \ {x}]
      BY <2>1, <3>1
    <3> HIDE DEF U
    <3>3. r[U] = f[x] + r[U \ {x}]
      BY <3>1 DEF SumsOf
    <3>4. QED
      BY <3>2, <3>3
  <2>4. CASE x \notin R
    <3>1. (T \ {x}) \cap R = T \cap R /\ f[x] = 0
      BY <2>4
    <3>2. g[T \ {x}] = r[T \cap R]
      BY <2>1, <3>1
    <3>3. QED
      BY <2>1, <2>2, <3>1, <3>2
  <2>5. QED
    BY <2>3, <2>4
<1> HIDE DEF g
<1>3. QED
  BY <1>1, <1>2 DEF SumsOf, g

-----------------------------------------------------------------------------
\* The rank that owns index g of v, as its pattern finds it.
Owner(v, g) == procIdOf(OwnedRanges[v], g)

\* What is assumed of the patterns.
LEMMA PatternIs ==
  ASSUME NEW v \in Vec
  PROVE  /\ \A k \in Rank : /\ OwnedRanges[v][k].first \in Nat /\ OwnedRanges[v][k].second \in Nat
                            /\ OwnedRanges[v][k].first <= OwnedRanges[v][k].second
         /\ \A j, k \in Rank :
              j # k => Indices(OwnedRanges[v][j]) \cap Indices(OwnedRanges[v][k]) = {}
         /\ \A p \in Rank : /\ GhostIndices[v][p] \in SUBSET Nat
                            /\ IsFiniteSet(GhostIndices[v][p])
         /\ \A p \in Rank : \A g \in GhostIndices[v][p] :
              /\ Owner(v, g) \in Rank
              /\ g \in Indices(OwnedRanges[v][Owner(v, g)])
BY PatternAssumption DEF Owner, IsPattern

\* The ghost entries of a rank that each owner has, and who has any.
LEMMA GhostsCounted ==
  ASSUME NEW v \in Vec, NEW p \in Rank
  PROVE  /\ \A k : /\ GhostsOf(OwnedRanges[v], GhostIndices[v][p], k) =
                        {g \in GhostIndices[v][p] : Owner(v, g) = k}
                   /\ GhostsOf(OwnedRanges[v], GhostIndices[v][p], k) \in SUBSET Nat
                   /\ IsFiniteSet(GhostsOf(OwnedRanges[v], GhostIndices[v][p], k))
                   /\ NumGhosts(p, v, k) \in Nat
                   /\ NumGhosts(p, v, k) # 0 <=> k \in getGhostProcIds(p, v)
         /\ getGhostProcIds(p, v) \subseteq Rank
         /\ \A k : k \in getGhostProcIds(p, v) <=> \E g \in GhostIndices[v][p] : Owner(v, g) = k
<1> DEFINE G == GhostIndices[v][p]
<1>1. G \in SUBSET Nat /\ IsFiniteSet(G) /\ \A g \in G : Owner(v, g) \in Rank
  BY PatternIs
<1>2. \A k : k \in getGhostProcIds(p, v) <=> \E g \in G : Owner(v, g) = k
  BY DEF getGhostProcIds, d_ghostProcIds, Owner
<1>3. ASSUME NEW k
      PROVE  /\ GhostsOf(OwnedRanges[v], G, k) = {g \in G : Owner(v, g) = k}
             /\ GhostsOf(OwnedRanges[v], G, k) \in SUBSET Nat
             /\ IsFiniteSet(GhostsOf(OwnedRanges[v], G, k))
             /\ NumGhosts(p, v, k) \in Nat
             /\ NumGhosts(p, v, k) # 0 <=> k \in getGhostProcIds(p, v)
  <2> DEFINE S == GhostsOf(OwnedRanges[v], G, k)
  <2>1. S = {g \in G : Owner(v, g) = k}
    BY DEF GhostsOf, Owner
  <2> HIDE DEF S
  <2>2. S \in SUBSET Nat /\ IsFiniteSet(S)
    BY <1>1, <2>1, FS_Subset
  <2>3. Cardinality(S) \in Nat /\ (Cardinality(S) = 0 <=> S = {})
    BY <2>2, FS_CardinalityType, FS_EmptySet
  <2>4. NumGhosts(p, v, k) = Cardinality(S)
    BY DEF NumGhosts, S
  <2>5. S # {} <=> k \in getGhostProcIds(p, v)
    BY <1>2, <2>1
  <2>6. QED
    BY <2>1, <2>2, <2>3, <2>4, <2>5 DEF S
<1> HIDE DEF G
<1>4. getGhostProcIds(p, v) \subseteq Rank
  BY <1>1, <1>2
<1>5. QED
  BY <1>2, <1>3, <1>4 DEF G

\* The ghost entries whose owners are in T.
GhostsIn(p, v, T) == {g \in GhostIndices[v][p] : Owner(v, g) \in T}

LEMMA GhostsInCounted ==
  ASSUME NEW v \in Vec, NEW p \in Rank, NEW T
  PROVE  /\ IsFiniteSet(GhostsIn(p, v, T))
         /\ Cardinality(GhostsIn(p, v, T)) \in Nat
         /\ Cardinality(GhostsIn(p, v, T)) <= Cardinality(GhostIndices[v][p])
         /\ Cardinality(GhostIndices[v][p]) \in Nat
         /\ \A k \in T : Cardinality(GhostsIn(p, v, T)) =
                           NumGhosts(p, v, k) + Cardinality(GhostsIn(p, v, T \ {k}))
<1> DEFINE G == GhostIndices[v][p]
<1>1. IsFiniteSet(G)
  BY PatternIs
<1>2. GhostsIn(p, v, T) \in SUBSET G
  BY DEF GhostsIn
<1>3. /\ IsFiniteSet(GhostsIn(p, v, T)) /\ Cardinality(GhostsIn(p, v, T)) \in Nat
      /\ Cardinality(GhostsIn(p, v, T)) <= Cardinality(G) /\ Cardinality(G) \in Nat
  <2> HIDE DEF G
  <2>1. QED
    BY <1>1, <1>2, FS_Subset, FS_CardinalityType
<1>4. ASSUME NEW k \in T
      PROVE  Cardinality(GhostsIn(p, v, T)) =
               NumGhosts(p, v, k) + Cardinality(GhostsIn(p, v, T \ {k}))
  <2> DEFINE A == GhostsOf(OwnedRanges[v], G, k)
             B == GhostsIn(p, v, T \ {k})
  <2>1. A = {g \in G : Owner(v, g) = k} /\ IsFiniteSet(A) /\ NumGhosts(p, v, k) = Cardinality(A)
    BY GhostsCounted DEF NumGhosts
  <2>2. B \in SUBSET G
    BY DEF GhostsIn
  <2>3. IsFiniteSet(B)
    <3> HIDE DEF G, B
    <3>1. QED
      BY <1>1, <2>2, FS_Subset
  <2>4. A \cup B = GhostsIn(p, v, T) /\ A \cap B = {}
    BY <2>1 DEF GhostsIn
  <2> HIDE DEF A, B
  <2>5. Cardinality(A) \in Nat /\ Cardinality(B) \in Nat /\ Cardinality({}) = 0
    BY <2>1, <2>3, FS_CardinalityType, FS_EmptySet
  <2>6. Cardinality(A \cup B) = Cardinality(A) + Cardinality(B) - Cardinality(A \cap B)
    BY <2>1, <2>3, FS_Union
  <2>7. Cardinality(A \cup B) = Cardinality(A) + Cardinality(B)
    <3>1. Cardinality(A \cap B) = 0
      BY <2>4, <2>5, Zenon
    <3>2. QED
      BY <2>5, <2>6, <3>1
  <2>8. Cardinality(GhostsIn(p, v, T)) = NumGhosts(p, v, k) + Cardinality(B)
    BY <2>1, <2>4, <2>7
  <2>9. QED
    BY <2>8 DEF B
<1>5. QED
  BY <1>3, <1>4

\* A segment starts behind the ghost entries of all smaller ranks.
LEMMA SegmentStartIs ==
  ASSUME NEW v \in Vec, NEW p \in Rank, NEW k \in Rank
  PROVE  GhostSegmentStart(p, v, k) = Cardinality(GhostsIn(p, v, {j \in Rank : j < k}))
<1> DEFINE S == {j \in getGhostProcIds(p, v) : j < k}
           f == [j \in S |-> NumGhosts(p, v, j)]
           g == [T \in SUBSET S |-> Cardinality(GhostsIn(p, v, T))]
           sum(h) == h = [T \in SUBSET S |->
                            IF T = {} THEN 0
                            ELSE LET x == CHOOSE y \in T : TRUE
                                 IN  NumGhosts(p, v, x) + h[T \ {x}]]
           sums == CHOOSE h : sum(h)
<1>1. S \in SUBSET Rank /\ IsFiniteSet(S)
  <2>1. S \in SUBSET Rank
    BY GhostsCounted
  <2> HIDE DEF S
  <2>2. QED
    BY <2>1, RankFinite, FS_Subset
<1>2. SumsOf(g, f, S)
  <2>1. g \in [SUBSET S -> Int]
    <3> HIDE DEF S
    <3>1. \A T \in SUBSET S : Cardinality(GhostsIn(p, v, T)) \in Int
      BY GhostsInCounted
    <3>2. QED
      BY <3>1
  <2>2. g[{}] = 0
    <3>1. GhostsIn(p, v, {}) = {}
      BY DEF GhostsIn
    <3> HIDE DEF S
    <3>2. QED
      BY <3>1, FS_EmptySet
  <2>3. ASSUME NEW T \in SUBSET S, NEW x \in T PROVE g[T] = f[x] + g[T \ {x}]
    <3> HIDE DEF S
    <3>1. Cardinality(GhostsIn(p, v, T)) =
            NumGhosts(p, v, x) + Cardinality(GhostsIn(p, v, T \ {x}))
      BY GhostsInCounted
    <3>2. QED
      BY <3>1
  <2> HIDE DEF f, g, S
  <2>4. QED
    BY <2>1, <2>2, <2>3 DEF SumsOf
<1>3. GhostSegmentStart(p, v, k) = sums[S]
  BY DEF GhostSegmentStart, MapThenSumSet, MapThenFoldSet
<1>4. ASSUME NEW h PROVE sum(h) <=> SumsUp(h, f, S)
  <2>1. \A T \in SUBSET S : T # {} =>
          f[CHOOSE y \in T : TRUE] = NumGhosts(p, v, CHOOSE y \in T : TRUE)
    <3> SUFFICES ASSUME NEW T \in SUBSET S, T # {}
                 PROVE  f[CHOOSE y \in T : TRUE] = NumGhosts(p, v, CHOOSE y \in T : TRUE)
      OBVIOUS
    <3>1. (CHOOSE y \in T : TRUE) \in S
      OBVIOUS
    <3> HIDE DEF S
    <3>2. QED
      BY <3>1
  <2> HIDE DEF f, S
  <2>2. QED
    BY <2>1 DEF SumsUp
<1>5. sum(g)
  <2>1. SumsUp(g, f, S)
    <3> HIDE DEF sum, f, g, S
    <3>1. QED
      BY <1>2, SumsExist
  <2> HIDE DEF sum, f, g, S
  <2>2. QED
    BY <1>4, <2>1
<1>6. sum(sums)
  <2> HIDE DEF sum, g
  <2>1. QED
    BY <1>5
<1>7. g[S] = Cardinality(GhostsIn(p, v, S))
  <2> HIDE DEF S
  <2>1. QED
    OBVIOUS
<1>8. GhostsIn(p, v, S) = GhostsIn(p, v, {j \in Rank : j < k})
  <2>1. \A x \in GhostIndices[v][p] : Owner(v, x) \in getGhostProcIds(p, v) /\ Owner(v, x) \in Rank
    BY GhostsCounted
  <2>2. QED
    BY <2>1 DEF GhostsIn
<1> HIDE DEF sums, sum, f, g, S
<1>9. SumsUp(sums, f, S)
  BY <1>4, <1>6
<1>10. sums[S] = g[S]
  BY <1>1, <1>2, <1>9, SumIs
<1>11. QED
  BY <1>3, <1>7, <1>8, <1>10

LEMMA SegmentsFit ==
  ASSUME NEW v \in Vec, NEW p \in Rank, NEW k \in Rank
  PROVE  /\ GhostSegmentStart(p, v, k) \in Nat /\ NumGhosts(p, v, k) \in Nat
         /\ Cardinality(GhostIndices[v][p]) \in Nat
         /\ GhostSegmentStart(p, v, k) + NumGhosts(p, v, k) <= Cardinality(GhostIndices[v][p])
<1> DEFINE L == {j \in Rank : j < k}
           T == L \cup {k}
<1>1. T \ {k} = L /\ k \in T
  BY RankFinite
<1>2. Cardinality(GhostsIn(p, v, T)) = NumGhosts(p, v, k) + Cardinality(GhostsIn(p, v, T \ {k}))
  <2> HIDE DEF T, L
  <2>1. QED
    BY <1>1, GhostsInCounted
<1>3. Cardinality(GhostsIn(p, v, T)) = NumGhosts(p, v, k) + Cardinality(GhostsIn(p, v, L))
  <2> HIDE DEF T, L
  <2>1. QED
    BY <1>1, <1>2
<1>4. /\ Cardinality(GhostsIn(p, v, T)) <= Cardinality(GhostIndices[v][p])
      /\ Cardinality(GhostsIn(p, v, L)) \in Nat /\ Cardinality(GhostIndices[v][p]) \in Nat
      /\ NumGhosts(p, v, k) \in Nat
  <2> HIDE DEF T, L
  <2>1. QED
    BY GhostsInCounted, GhostsCounted
<1>5. GhostSegmentStart(p, v, k) = Cardinality(GhostsIn(p, v, L))
  BY SegmentStartIs
<1> HIDE DEF T, L
<1>6. QED
  BY <1>3, <1>4, <1>5

\* The segments of two ranks do not overlap.
LEMMA SegmentsApart ==
  ASSUME NEW v \in Vec, NEW p \in Rank, NEW j \in Rank, NEW k \in Rank, j < k
  PROVE  GhostSegmentStart(p, v, j) + NumGhosts(p, v, j) <= GhostSegmentStart(p, v, k)
<1> DEFINE L == {i \in Rank : i < j}
           T == {i \in Rank : i < k}
<1>1. j \in T /\ L \subseteq T \ {j}
  <2>1. j \in Nat /\ k \in Nat /\ \A i \in Rank : i \in Nat
    BY RankFinite
  <2>2. ASSUME NEW i \in Rank, i < j PROVE i < k /\ i # j
    BY <2>1, <2>2
  <2>3. QED
    BY <2>2
<1>2. /\ GhostSegmentStart(p, v, j) = Cardinality(GhostsIn(p, v, L))
      /\ GhostSegmentStart(p, v, k) = Cardinality(GhostsIn(p, v, T))
  BY SegmentStartIs
<1> HIDE DEF T, L
<1>3. /\ Cardinality(GhostsIn(p, v, T)) = NumGhosts(p, v, j) + Cardinality(GhostsIn(p, v, T \ {j}))
      /\ IsFiniteSet(GhostsIn(p, v, T \ {j})) /\ Cardinality(GhostsIn(p, v, T \ {j})) \in Nat
      /\ Cardinality(GhostsIn(p, v, L)) \in Nat
  BY <1>1, GhostsInCounted
<1>4. GhostsIn(p, v, L) \in SUBSET GhostsIn(p, v, T \ {j})
  BY <1>1 DEF GhostsIn
<1>5. Cardinality(GhostsIn(p, v, L)) <= Cardinality(GhostsIn(p, v, T \ {j}))
  BY <1>3, <1>4, FS_Subset
<1>6. NumGhosts(p, v, j) \in Nat
  BY GhostsCounted
<1>7. QED
  BY <1>2, <1>3, <1>5, <1>6

\* The ghost sections of one rank as the others see them.
LEMMA SegmentsAre ==
  ASSUME NEW v \in Vec, NEW p \in Rank
  PROVE  /\ \A k \in Rank : \A n \in 1 .. NumGhosts(p, v, k) :
              GhostSegmentStart(p, v, k) + n - 1 \in GhostSegment(p, v, k)
         /\ \A k \in Rank : \A j \in GhostSegment(p, v, k) :
              /\ j - GhostSegmentStart(p, v, k) + 1 \in 1 .. NumGhosts(p, v, k)
              /\ j \in localGhost(p, v)
         /\ \A k, l \in Rank : k # l => GhostSegment(p, v, k) \cap GhostSegment(p, v, l) = {}
<1>1. \A k \in Rank : /\ GhostSegmentStart(p, v, k) \in Nat /\ NumGhosts(p, v, k) \in Nat
                      /\ Cardinality(GhostIndices[v][p]) \in Nat
                      /\ GhostSegmentStart(p, v, k) + NumGhosts(p, v, k) <=
                           Cardinality(GhostIndices[v][p])
  BY SegmentsFit
<1>2. ASSUME NEW k \in Rank, NEW l \in Rank, k < l
      PROVE  GhostSegment(p, v, k) \cap GhostSegment(p, v, l) = {}
  <2>1. GhostSegmentStart(p, v, k) + NumGhosts(p, v, k) <= GhostSegmentStart(p, v, l)
    BY <1>2, SegmentsApart
  <2>2. QED
    BY <1>1, <2>1 DEF GhostSegment
<1>3. \A k, l \in Rank : k # l => GhostSegment(p, v, k) \cap GhostSegment(p, v, l) = {}
  <2> SUFFICES ASSUME NEW k \in Rank, NEW l \in Rank, k # l
               PROVE  GhostSegment(p, v, k) \cap GhostSegment(p, v, l) = {}
    OBVIOUS
  <2>1. k < l \/ l < k
    BY RankFinite
  <2>2. QED
    BY <1>2, <2>1
<1>4. QED
  BY <1>1, <1>3 DEF GhostSegment, localGhost

\* The entries that q wants from p: their indices, and where p has them.
Wanted(p, v, q) == Ascending(GhostsOf(OwnedRanges[v], GhostIndices[v][q], p))

LEMMA WantedAre ==
  ASSUME NEW v \in Vec, NEW p \in Rank, NEW q \in Rank
  PROVE  /\ Wanted(p, v, q) \in [1 .. NumGhosts(q, v, p) -> GhostIndices[v][q]]
         /\ \A n \in 1 .. NumGhosts(q, v, p) :
              Owner(v, Wanted(p, v, q)[n]) = p /\ Wanted(p, v, q)[n] \in Nat
         /\ \A g \in GhostIndices[v][q] :
              Owner(v, g) = p => \E n \in 1 .. NumGhosts(q, v, p) : Wanted(p, v, q)[n] = g
         /\ \A n \in 1 .. NumGhosts(q, v, p) :
              Cardinality(Below(GhostsOf(OwnedRanges[v], GhostIndices[v][q], p),
                                Wanted(p, v, q)[n])) = n - 1
<1> DEFINE S == GhostsOf(OwnedRanges[v], GhostIndices[v][q], p)
<1>0. NumGhosts(q, v, p) = Cardinality(S)
  BY DEF NumGhosts
<1>1. /\ S = {g \in GhostIndices[v][q] : Owner(v, g) = p} /\ S \in SUBSET Nat /\ IsFiniteSet(S)
      /\ NumGhosts(q, v, p) = Cardinality(S) /\ S \in SUBSET Int
  <2>1. S = {g \in GhostIndices[v][q] : Owner(v, g) = p} /\ S \in SUBSET Nat /\ IsFiniteSet(S)
    BY GhostsCounted
  <2> HIDE DEF S
  <2>2. S \in SUBSET Int
    BY <2>1
  <2>3. QED
    BY <1>0, <2>1, <2>2
<1> HIDE DEF S
<1>2. /\ Ascending(S) \in [1 .. Cardinality(S) -> S]
      /\ \A x \in S : \E i \in 1 .. Cardinality(S) : Ascending(S)[i] = x
      /\ \A i \in 1 .. Cardinality(S) : Cardinality(Below(S, Ascending(S)[i])) = i - 1
  <2>1. S \in SUBSET Int /\ IsFiniteSet(S)
    BY <1>1
  <2>2. QED
    BY <2>1, AscendingLists
<1>3. Wanted(p, v, q) = Ascending(S)
  BY DEF Wanted, S
<1>4. \A n \in 1 .. Cardinality(S) : Wanted(p, v, q)[n] \in S
  BY <1>2, <1>3
<1>5. Wanted(p, v, q) \in [1 .. NumGhosts(q, v, p) -> GhostIndices[v][q]]
  BY <1>1, <1>2, <1>3
<1>6. QED
  BY <1>1, <1>2, <1>3, <1>4, <1>5 DEF S

\* The indices that p is asked for are of entries it owns.
LEMMA IndicesAreOwned ==
  ASSUME NEW v \in Vec, NEW p \in Rank, NEW q \in Rank
  PROVE  /\ DOMAIN getOwnedLocalIndicesForTargetProcs(p, v, q) = 1 .. NumGhosts(q, v, p)
         /\ \A n \in 1 .. NumGhosts(q, v, p) :
              /\ getOwnedLocalIndicesForTargetProcs(p, v, q)[n] =
                   Wanted(p, v, q)[n] - OwnedRanges[v][p].first
              /\ getOwnedLocalIndicesForTargetProcs(p, v, q)[n] \in localOwned(p, v)
         /\ OwnedRanges[v][p].first \in Nat
<1> DEFINE idx == getOwnedLocalIndicesForTargetProcs(p, v, q)
           m == NumGhosts(q, v, p)
<1>1. idx = [i \in DOMAIN Wanted(p, v, q) |-> Wanted(p, v, q)[i] - OwnedRanges[v][p].first]
  BY DEF getOwnedLocalIndicesForTargetProcs, localIndicesForGhostProc, Wanted
<1>2. /\ Wanted(p, v, q) \in [1 .. m -> GhostIndices[v][q]]
      /\ \A n \in 1 .. m : Owner(v, Wanted(p, v, q)[n]) = p
  BY WantedAre
<1>3. DOMAIN idx = 1 .. m /\ \A n \in 1 .. m : idx[n] = Wanted(p, v, q)[n] - OwnedRanges[v][p].first
  <2>1. DOMAIN Wanted(p, v, q) = 1 .. m
    <3> HIDE DEF m
    <3>1. QED
      BY <1>2
  <2> HIDE DEF m
  <2>2. QED
    BY <1>1, <2>1
<1>4. /\ OwnedRanges[v][p].first \in Nat /\ OwnedRanges[v][p].second \in Nat
      /\ OwnedRanges[v][p].first <= OwnedRanges[v][p].second
      /\ \A g \in GhostIndices[v][q] : g \in Nat /\ g \in Indices(OwnedRanges[v][Owner(v, g)])
  BY PatternIs
<1> HIDE DEF idx, m
<1>5. ASSUME NEW n \in 1 .. m PROVE idx[n] \in localOwned(p, v)
  <2> DEFINE g == Wanted(p, v, q)[n]
  <2>1. g \in GhostIndices[v][q] /\ Owner(v, g) = p
    BY <1>2
  <2> HIDE DEF g
  <2>2. g \in OwnedRanges[v][p].first .. OwnedRanges[v][p].second - 1 /\ g \in Nat
    BY <1>4, <2>1 DEF Indices
  <2>3. idx[n] = g - OwnedRanges[v][p].first
    BY <1>3 DEF g
  <2>4. QED
    BY <1>4, <2>2, <2>3 DEF localOwned, Size
<1>6. QED
  BY <1>3, <1>4, <1>5 DEF idx, m

\* The ghost section lists the ghost indices in increasing order.
LEMMA GhostAtIs ==
  ASSUME NEW v \in Vec, NEW p \in Rank, NEW j \in localGhost(p, v)
  PROVE  /\ GhostAt(p, v, j) \in GhostIndices[v][p] /\ GhostAt(p, v, j) \in Nat
         /\ localGhostIndex(GhostIndices[v][p], GhostAt(p, v, j)) = j
<1> DEFINE G == GhostIndices[v][p]
<1>1. G \in SUBSET Nat /\ IsFiniteSet(G)
  BY PatternIs
<1>2. /\ Cardinality(G) \in Nat /\ Ascending(G) \in [1 .. Cardinality(G) -> G]
      /\ \A i \in 1 .. Cardinality(G) : Cardinality(Below(G, Ascending(G)[i])) = i - 1
  <2> HIDE DEF G
  <2>1. QED
    BY <1>1, AscendingLists
<1>3. GhostAt(p, v, j) = Ascending(G)[j + 1] /\ j \in 0 .. Cardinality(G) - 1
  BY DEF GhostAt, localGhost
<1> HIDE DEF G
<1>4. j + 1 \in 1 .. Cardinality(G) /\ (j + 1) - 1 = j
  BY <1>2, <1>3
<1>5. localGhostIndex(G, GhostAt(p, v, j)) = j
  BY <1>2, <1>3, <1>4 DEF localGhostIndex, Below
<1>6. QED
  BY <1>1, <1>2, <1>3, <1>4, <1>5 DEF G

\* If the ranks are in order, the segments are in the order of the ghost section.
LEMMA GhostsInOrder ==
  ASSUME RanksInOrder, NEW v \in Vec, NEW q \in Rank, NEW p \in Rank,
         NEW n \in 1 .. NumGhosts(q, v, p)
  PROVE  localGhostIndex(GhostIndices[v][q], Wanted(p, v, q)[n]) = GhostSegmentStart(q, v, p) + n - 1
<1> DEFINE g == Wanted(p, v, q)[n]
           G == GhostIndices[v][q]
           A == GhostsIn(q, v, {j \in Rank : j < p})
           S == GhostsOf(OwnedRanges[v], G, p)
           B == Below(S, g)
<1>1. /\ G \in SUBSET Nat /\ IsFiniteSet(G)
      /\ \A h \in G : Owner(v, h) \in Rank
  BY PatternIs
<1>2. g \in G /\ Owner(v, g) = p /\ Cardinality(B) = n - 1
  BY WantedAre
<1>3. S = {h \in G : Owner(v, h) = p} /\ IsFiniteSet(S)
  BY GhostsCounted
<1>4. A = {h \in G : Owner(v, h) < p} /\ IsFiniteSet(A) /\ Cardinality(A) = GhostSegmentStart(q, v, p)
      /\ Cardinality(A) \in Nat
  BY <1>1, GhostsInCounted, SegmentStartIs DEF GhostsIn
<1>5. B = {h \in S : h < g}
  BY DEF Below
<1>6. \A h, i \in G : h < i => Owner(v, h) <= Owner(v, i)
  BY DEF RanksInOrder, Owner
<1> HIDE DEF g, G, A, S, B
<1>7. {h \in G : h < g} = A \cup B
  <2>1. ASSUME NEW h \in G PROVE h < g <=> h \in A \cup B
    <3>1. h \in Nat /\ g \in Nat /\ Owner(v, h) \in Nat /\ p \in Nat
      BY <1>1, <1>2, RankFinite
    <3>2. h \in A <=> Owner(v, h) < p
      BY <1>4
    <3>3. h \in B <=> Owner(v, h) = p /\ h < g
      BY <1>3, <1>5
    <3>4. h < g => Owner(v, h) <= p
      BY <1>2, <1>6
    <3>5. g < h => p <= Owner(v, h)
      BY <1>2, <1>6
    <3>6. Owner(v, h) < p => h < g
      BY <1>2, <3>1, <3>5
    <3>7. QED
      BY <3>1, <3>2, <3>3, <3>4, <3>6
  <2>2. A \subseteq G /\ B \subseteq G
    BY <1>3, <1>4, <1>5
  <2>3. QED
    BY <2>1, <2>2
<1>8. A \cap B = {}
  BY <1>1, <1>3, <1>4, <1>5, RankFinite
<1>9. IsFiniteSet(B)
  <2>1. B \in SUBSET S
    BY <1>5
  <2>2. QED
    BY <1>3, <2>1, FS_Subset
<1>10. Cardinality(A \cup B) = Cardinality(A) + Cardinality(B)
  <2>1. Cardinality(A \cap B) = 0
    BY <1>8, FS_EmptySet, Zenon
  <2>2. Cardinality(A \cup B) = Cardinality(A) + Cardinality(B) - Cardinality(A \cap B)
    BY <1>4, <1>9, FS_Union
  <2>3. Cardinality(A) \in Nat /\ Cardinality(B) \in Nat
    BY <1>4, <1>9, FS_CardinalityType
  <2>4. QED
    BY <2>1, <2>2, <2>3
<1>11. localGhostIndex(G, g) = Cardinality(A \cup B)
  BY <1>7 DEF localGhostIndex
<1>12. NumGhosts(q, v, p) \in Nat
  BY GhostsCounted
<1>13. localGhostIndex(G, g) = GhostSegmentStart(q, v, p) + n - 1
  BY <1>2, <1>4, <1>10, <1>11, <1>12
<1>14. QED
  BY <1>13 DEF g, G

-----------------------------------------------------------------------------
\* What q's part of the receive buffer adds to owned entry i.
ReceivedFrom(p, v, q, i) ==
  LET idx == getOwnedLocalIndicesForTargetProcs(p, v, q)
  IN  MapThenSumSet(LAMBDA n : buffer[p][v][q][n], {n \in DOMAIN idx : idx[n] = i})

\* The places in q's part of the receive buffer that are for owned entry i.
PlacesOf(p, v, q, i) ==
  {n \in DOMAIN getOwnedLocalIndicesForTargetProcs(p, v, q) :
     getOwnedLocalIndicesForTargetProcs(p, v, q)[n] = i}

LEMMA PlacesFinite ==
  ASSUME NEW v \in Vec, NEW p \in Rank, NEW q \in Rank, NEW i
  PROVE  IsFiniteSet(PlacesOf(p, v, q, i)) /\ PlacesOf(p, v, q, i) \subseteq 1 .. NumGhosts(q, v, p)
<1>1. PlacesOf(p, v, q, i) \in SUBSET (1 .. NumGhosts(q, v, p))
  BY IndicesAreOwned DEF PlacesOf
<1>2. NumGhosts(q, v, p) \in Nat
  BY GhostsCounted
<1>3. IsFiniteSet(1 .. NumGhosts(q, v, p))
  BY <1>2, FS_Interval
<1>4. QED
  BY <1>1, <1>3, FS_Subset

LEMMA ReceivedFromIs ==
  ASSUME NEW v \in Vec, NEW p \in Rank, NEW q \in Rank, NEW i,
         NEW g, SumsOf(g, buffer[p][v][q], PlacesOf(p, v, q, i))
  PROVE  ReceivedFrom(p, v, q, i) = g[PlacesOf(p, v, q, i)]
<1> DEFINE S == PlacesOf(p, v, q, i)
           f == buffer[p][v][q]
           sum(h) == h = [T \in SUBSET S |->
                            IF T = {} THEN 0
                            ELSE LET x == CHOOSE y \in T : TRUE
                                 IN  buffer[p][v][q][x] + h[T \ {x}]]
           sums == CHOOSE h : sum(h)
<1>1. ReceivedFrom(p, v, q, i) = sums[S]
  BY DEF ReceivedFrom, PlacesOf, MapThenSumSet, MapThenFoldSet
<1>2. ASSUME NEW h PROVE sum(h) <=> SumsUp(h, f, S)
  BY DEF SumsUp
<1>3. sum(g)
  <2>1. SumsUp(g, f, S)
    <3> HIDE DEF sum
    <3>1. QED
      BY SumsExist
  <2> HIDE DEF sum, f, S
  <2>2. QED
    BY <1>2, <2>1
<1>4. sum(sums)
  <2> HIDE DEF sum
  <2>1. QED
    BY <1>3
<1> HIDE DEF sums, sum
<1>5. SumsUp(sums, f, S)
  BY <1>2, <1>4
<1>6. IsFiniteSet(S)
  BY PlacesFinite
<1>7. SumsOf(g, f, S)
  OBVIOUS
<1> HIDE DEF f, S
<1>8. sums[S] = g[S]
  BY <1>5, <1>6, <1>7, SumIs
<1>9. QED
  BY <1>1, <1>8 DEF S

LEMMA TargetsFinite ==
  ASSUME NEW v, NEW p
  PROVE  IsFiniteSet(getTargetProcIds(p, v)) /\ getTargetProcIds(p, v) \subseteq Rank
<1>1. getTargetProcIds(p, v) \in SUBSET Rank
  BY DEF getTargetProcIds
<1>2. QED
  BY <1>1, RankFinite, FS_Subset

LEMMA ReceivedIs ==
  ASSUME NEW v \in Vec, NEW p \in Rank, NEW i, NEW g,
         SumsOf(g, [q \in getTargetProcIds(p, v) |-> ReceivedFrom(p, v, q, i)],
                getTargetProcIds(p, v))
  PROVE  Received(p, v, i) = g[getTargetProcIds(p, v)]
<1> DEFINE S == getTargetProcIds(p, v)
           f == [q \in S |-> ReceivedFrom(p, v, q, i)]
           sum(h) == h = [T \in SUBSET S |->
                            IF T = {} THEN 0
                            ELSE LET x == CHOOSE y \in T : TRUE
                                 IN  ReceivedFrom(p, v, x, i) + h[T \ {x}]]
           sums == CHOOSE h : sum(h)
<1>1. Received(p, v, i) = sums[S]
  BY DEF Received, ReceivedFrom, MapThenSumSet, MapThenFoldSet
<1>2. ASSUME NEW h PROVE sum(h) <=> SumsUp(h, f, S)
  <2>1. \A T \in SUBSET S : T # {} =>
          f[CHOOSE y \in T : TRUE] = ReceivedFrom(p, v, CHOOSE y \in T : TRUE, i)
    <3> SUFFICES ASSUME NEW T \in SUBSET S, T # {}
                 PROVE  f[CHOOSE y \in T : TRUE] = ReceivedFrom(p, v, CHOOSE y \in T : TRUE, i)
      OBVIOUS
    <3>1. (CHOOSE y \in T : TRUE) \in S
      OBVIOUS
    <3> HIDE DEF S
    <3>2. QED
      BY <3>1
  <2> HIDE DEF f, S
  <2>2. QED
    BY <2>1 DEF SumsUp
<1>3. sum(g)
  <2>1. SumsUp(g, f, S)
    <3> HIDE DEF sum
    <3>1. QED
      BY SumsExist
  <2> HIDE DEF sum, f, S
  <2>2. QED
    BY <1>2, <2>1
<1>4. sum(sums)
  <2> HIDE DEF sum
  <2>1. QED
    BY <1>3
<1> HIDE DEF sums, sum
<1>5. SumsUp(sums, f, S)
  BY <1>2, <1>4
<1>6. IsFiniteSet(S)
  BY TargetsFinite
<1>7. SumsOf(g, f, S)
  OBVIOUS
<1> HIDE DEF f, S
<1>8. sums[S] = g[S]
  BY <1>5, <1>6, <1>7, SumIs
<1>9. QED
  BY <1>1, <1>8 DEF S

\* What is received is a number.
LEMMA ReceivedIsInt ==
  ASSUME NEW v \in Vec, NEW p \in Rank, NEW i,
         \A q \in getTargetProcIds(p, v) :
           buffer[p][v][q] \in [1 .. NumGhosts(q, v, p) -> Int]
  PROVE  /\ Received(p, v, i) \in Int
         /\ \A q \in getTargetProcIds(p, v) : ReceivedFrom(p, v, q, i) \in Int
<1> DEFINE S == getTargetProcIds(p, v)
           f == [q \in S |-> ReceivedFrom(p, v, q, i)]
<1>1. ASSUME NEW q \in S PROVE ReceivedFrom(p, v, q, i) \in Int
  <2>1. q \in Rank
    BY TargetsFinite
  <2> DEFINE R == PlacesOf(p, v, q, i)
             b == buffer[p][v][q]
  <2>2. IsFiniteSet(R) /\ R \subseteq 1 .. NumGhosts(q, v, p)
    BY <2>1, PlacesFinite
  <2>3. \A n \in R : b[n] \in Int
    <3> HIDE DEF R
    <3>1. QED
      BY <2>2
  <2>4. \E g : SumsOf(g, b, R)
    <3> HIDE DEF R, b
    <3>1. QED
      BY <2>2, <2>3, SumsOfExist
  <2>5. PICK g : SumsOf(g, b, R)
    BY <2>4
  <2>6. ReceivedFrom(p, v, q, i) = g[R]
    BY <2>1, <2>5, ReceivedFromIs
  <2> HIDE DEF R, b
  <2>7. g[R] \in Int
    BY <2>5 DEF SumsOf
  <2>8. QED
    BY <2>6, <2>7
<1>2. IsFiniteSet(S) /\ \A q \in S : f[q] \in Int
  BY <1>1, TargetsFinite
<1>3. \E g : SumsOf(g, f, S)
  <2> HIDE DEF f, S
  <2>1. QED
    BY <1>2, SumsOfExist
<1>4. PICK g : SumsOf(g, f, S)
  BY <1>3
<1>5. Received(p, v, i) = g[S]
  BY <1>4, ReceivedIs
<1> HIDE DEF f, S
<1>6. g[S] \in Int
  BY <1>4 DEF SumsOf
<1>7. QED
  BY <1>1, <1>5, <1>6 DEF S

-----------------------------------------------------------------------------
\* A value for each vector of each rank.
IsHeap(f) == f = [p \in Rank |-> [v \in Vec |-> f[p][v]]]

\* The heap in which the value of one vector of one rank is set.
Stored(f, p, v, e) == [f EXCEPT ![p][v] = e]

LEMMA HeapSet ==
  ASSUME NEW f, IsHeap(f), NEW p \in Rank, NEW v \in Vec, NEW e
  PROVE  /\ IsHeap(Stored(f, p, v, e))
         /\ \A a \in Rank : \A w \in Vec :
              Stored(f, p, v, e)[a][w] = IF a = p /\ w = v THEN e ELSE f[a][w]
<1> DEFINE line == [f[p] EXCEPT ![v] = e]
           g == Stored(f, p, v, e)
<1>1. g = [f EXCEPT ![p] = line]
  BY DEF Stored
<1>2. f = [a \in Rank |-> [w \in Vec |-> f[a][w]]]
  BY DEF IsHeap
<1>3. f = [a \in Rank |-> f[a]] /\ \A a \in Rank : f[a] = [w \in Vec |-> f[a][w]]
  BY <1>2
<1>4. line = [w \in Vec |-> IF w = v THEN e ELSE f[p][w]]
  BY <1>3
<1> HIDE DEF line, g
<1>5. g = [a \in Rank |-> IF a = p THEN line ELSE f[a]]
  BY <1>1, <1>3
<1>6. ASSUME NEW a \in Rank
      PROVE  g[a] = [w \in Vec |-> IF a = p /\ w = v THEN e ELSE f[a][w]]
  <2>1. CASE a = p
    BY <1>4, <1>5, <2>1
  <2>2. CASE a # p
    <3>1. g[a] = f[a] /\ f[a] = [w \in Vec |-> f[a][w]]
      BY <1>3, <1>5, <2>2
    <3>2. QED
      BY <2>2, <3>1
  <2>3. QED
    BY <2>1, <2>2
<1>7. \A a \in Rank : \A w \in Vec : g[a][w] = IF a = p /\ w = v THEN e ELSE f[a][w]
  BY <1>6
<1>8. \A a \in Rank : g[a] = [w \in Vec |-> g[a][w]]
  BY <1>6
<1>9. g = [a \in Rank |-> g[a]]
  BY <1>5
<1>10. g = [a \in Rank |-> [w \in Vec |-> g[a][w]]]
  BY <1>8, <1>9
<1>11. IsHeap(g)
  BY <1>10 DEF IsHeap
<1>12. QED
  BY <1>7, <1>11 DEF g

\* Length of a message from p to q with tag t of vector v.
MessageSize(p, q, t, v) == IF t = Scatter THEN NumGhosts(q, v, p) ELSE NumGhosts(p, v, q)

\* MPI has not read the data of a message, or it has the right length.
DataTyped(p, q, t, m) ==
  m.data # <<>> => m.data \in [1 .. MessageSize(p, q, t, m.v) -> Int]

\* The types of the heap and of the messages.
HeapTyped ==
  /\ IsHeap(owned) /\ IsHeap(ghost) /\ IsHeap(buffer)
  /\ \A p \in Rank : \A v \in Vec :
       /\ owned[p][v] \in [localOwned(p, v) -> Int]
       /\ ghost[p][v] \in [localGhost(p, v) -> Int]
       /\ buffer[p][v] = [q \in getTargetProcIds(p, v) |-> buffer[p][v][q]]
       /\ \A q \in getTargetProcIds(p, v) : buffer[p][v][q] \in [1 .. NumGhosts(q, v, p) -> Int]

MessagesTyped ==
  \A p, q \in Rank : \A t \in Tag : \A i \in 1 .. Len(sends[p][q][t]) :
    DataTyped(p, q, t, sends[p][q][t][i])

\* Every type.
LEMMA TypesImplyTypeOK == QueuesOK /\ HeapTyped => TypeOK
<1> SUFFICES ASSUME QueuesOK, HeapTyped PROVE TypeOK
  OBVIOUS
<1>1. program \in Programs /\ pos \in [Rank -> 0 .. Len(program)]
  <2>1. program \in Programs /\ pos \in [Rank -> Nat] /\ \A p \in Rank : pos[p] <= Len(program)
    BY DEF QueuesOK
  <2>2. Len(program) \in Nat
    BY <2>1, ProgramAssumption
  <2>3. QED
    BY <2>1, <2>2
<1>2. ASSUME NEW p \in Rank, NEW v \in Vec
      PROVE  /\ owned[p][v] \in [localOwned(p, v) -> Int]
             /\ ghost[p][v] \in [localGhost(p, v) -> Int]
             /\ buffer[p][v] \in [getTargetProcIds(p, v) -> Seq(Int)]
             /\ \A q \in getTargetProcIds(p, v) : Len(buffer[p][v][q]) = NumGhosts(q, v, p)
  <2> DEFINE b == buffer[p][v]
  <2>1. /\ b = [q \in getTargetProcIds(p, v) |-> b[q]]
        /\ \A q \in getTargetProcIds(p, v) : b[q] \in [1 .. NumGhosts(q, v, p) -> Int]
    BY DEF HeapTyped
  <2>2. \A q \in getTargetProcIds(p, v) : NumGhosts(q, v, p) \in Nat
    BY GhostsCounted, TargetsFinite
  <2> HIDE DEF b
  <2>3. \A q \in getTargetProcIds(p, v) : b[q] \in Seq(Int) /\ Len(b[q]) = NumGhosts(q, v, p)
    BY <2>1, <2>2
  <2>4. b \in [getTargetProcIds(p, v) -> Seq(Int)]
    BY <2>1, <2>3
  <2>5. QED
    BY <2>3, <2>4 DEF HeapTyped, b
<1>3. QED
  BY <1>1, <1>2 DEF TypeOK

\* A queued message was begun for two ranks that exchange entries of its vector.
LEMMA QueuedIsExchanged ==
  ASSUME IInv, NEW p \in Rank, NEW q \in Rank, NEW t \in Tag
  PROVE  /\ IsQueue(sends[p][q][t]) /\ receives[q][p][t] \in Seq(Vec)
         /\ \A i \in 1 .. Len(sends[p][q][t]) :
              sends[p][q][t][i].v \in Vec /\ Exchanged(p, q, t, sends[p][q][t][i].v)
         /\ \A i \in 1 .. Len(receives[q][p][t]) :
              receives[q][p][t][i] \in Vec /\ Exchanged(p, q, t, receives[q][p][t][i])
<1> DEFINE s == sends[p][q][t]
           r == receives[q][p][t]
<1>1. IsQueue(s) /\ r \in Seq(Vec) /\ FollowProgram(p, q, t)
  BY DEF IInv, QueuesOK
<1>2. ASSUME NEW vs, NEW c, NEW n, Follows(vs, Between(p, q, t, c, n)), NEW i \in 1 .. Len(vs)
      PROVE  vs[i] \in Vec /\ Exchanged(p, q, t, vs[i])
  <2>1. PICK f : /\ f[i] \in Between(p, q, t, c, n)
                 /\ vs[i] = program[f[i]].v
    BY <1>2 DEF Follows, Lists
  <2>2. PICK w \in Vec : program[f[i]] = [op |-> BeginOp(t), v |-> w] /\ Exchanged(p, q, t, w)
    BY <2>1 DEF Between, Exchanges
  <2>3. program[f[i]].v = w
    BY <2>2
  <2>4. QED
    BY <2>1, <2>2, <2>3
<1>3. PICK c \in Nat : /\ Follows(Vectors(s), Between(p, q, t, c, pos[p]))
                       /\ Follows(r, Between(p, q, t, c, pos[q]))
  BY <1>1 DEF FollowProgram
<1>4. /\ Len(Vectors(s)) = Len(s)
      /\ \A i \in 1 .. Len(s) : Vectors(s)[i] = s[i].v
  <2> HIDE DEF s
  <2>1. QED
    BY <1>1, QueueVectors
<1> HIDE DEF s, r
<1>5. ASSUME NEW i \in 1 .. Len(s) PROVE s[i].v \in Vec /\ Exchanged(p, q, t, s[i].v)
  <2>1. Vectors(s)[i] \in Vec /\ Exchanged(p, q, t, Vectors(s)[i])
    BY <1>2, <1>3, <1>4
  <2>2. QED
    BY <1>4, <2>1
<1>6. ASSUME NEW i \in 1 .. Len(r) PROVE r[i] \in Vec /\ Exchanged(p, q, t, r[i])
  BY <1>2, <1>3
<1>7. QED
  BY <1>1, <1>5, <1>6 DEF s, r

\* What MPI reads is as long as the message, and never empty.
LEMMA SendDataTyped ==
  ASSUME HeapTyped, NEW p \in Rank, NEW q \in Rank, NEW t \in Tag, NEW v \in Vec,
         Exchanged(p, q, t, v)
  PROVE  /\ SendData(p, q, t, v) \in [1 .. MessageSize(p, q, t, v) -> Int]
         /\ MessageSize(p, q, t, v) \in Nat /\ MessageSize(p, q, t, v) # 0
         /\ SendData(p, q, t, v) # <<>>
<1>1. CASE t = Scatter
  <2>1. q \in getTargetProcIds(p, v) /\ p \in getGhostProcIds(q, v)
    BY <1>1 DEF Exchanged, getTargetProcIds
  <2>2. SendData(p, q, t, v) = buffer[p][v][q] /\ MessageSize(p, q, t, v) = NumGhosts(q, v, p)
    BY <1>1 DEF SendData, MessageSize
  <2>3. buffer[p][v][q] \in [1 .. NumGhosts(q, v, p) -> Int]
    BY <2>1 DEF HeapTyped
  <2>4. NumGhosts(q, v, p) \in Nat /\ NumGhosts(q, v, p) # 0
    BY <2>1, GhostsCounted
  <2>5. buffer[p][v][q] # <<>>
    <3> DEFINE b == buffer[p][v][q]
               n == NumGhosts(q, v, p)
    <3> HIDE DEF b, n
    <3>1. Len(b) = n /\ Len(<<>>) = 0
      BY <2>3, <2>4 DEF b, n
    <3>2. QED
      BY <2>4, <3>1 DEF b, n
  <2>6. QED
    BY <2>2, <2>3, <2>4, <2>5
<1>2. CASE t # Scatter
  <2> DEFINE n == NumGhosts(p, v, q)
             base == GhostSegmentStart(p, v, q)
             d == [k \in 1 .. n |-> ghost[p][v][base + k - 1]]
  <2>1. q \in getGhostProcIds(p, v)
    BY <1>2 DEF Exchanged
  <2>2. SendData(p, q, t, v) = d /\ MessageSize(p, q, t, v) = n
    BY <1>2 DEF SendData, MessageSize
  <2>3. n \in Nat /\ n # 0
    BY <2>1, GhostsCounted
  <2>4. \A k \in 1 .. n : base + k - 1 \in localGhost(p, v)
    BY SegmentsAre
  <2>5. ghost[p][v] \in [localGhost(p, v) -> Int]
    BY DEF HeapTyped
  <2> HIDE DEF n, base
  <2>6. d \in [1 .. n -> Int]
    BY <2>4, <2>5
  <2>7. d # <<>>
    <3> HIDE DEF d
    <3>1. Len(d) = n /\ Len(<<>>) = 0
      BY <2>3, <2>6
    <3>2. QED
      BY <2>3, <3>1
  <2>8. QED
    BY <2>2, <2>3, <2>6, <2>7
<1>3. QED
  BY <1>1, <1>2

-----------------------------------------------------------------------------
\* A message that is appended comes last.
LEMMA QueueLonger ==
  ASSUME NEW s, IsQueue(s), NEW m
  PROVE  /\ Len(s) \in Nat /\ Len(Append(s, m)) = Len(s) + 1
         /\ Append(s, m)[Len(s) + 1] = m
         /\ \A i \in 1 .. Len(s) : Append(s, m)[i] = s[i]
<1> DEFINE T == {s[i] : i \in 1 .. Len(s)} \cup {m}
<1>1. Len(s) \in Nat /\ s \in Seq({s[i] : i \in 1 .. Len(s)})
  BY QueueIsSeq DEF IsQueue
<1>2. s \in Seq(T) /\ m \in T
  <2>1. s \in [1 .. Len(s) -> {s[i] : i \in 1 .. Len(s)}]
    BY <1>1
  <2>2. s \in [1 .. Len(s) -> T]
    BY <2>1
  <2> HIDE DEF T
  <2>3. s \in Seq(T)
    BY <1>1, <2>2
  <2>4. QED
    BY <2>3 DEF T
<1> HIDE DEF T
<1>3. QED
  BY <1>1, <1>2

\* The queues after MPI has read the data of a message.
LEMMA InjectIs ==
  ASSUME IInv, NEW p \in Rank, NEW q \in Rank, NEW t \in Tag, NEW i, Inject(p, q, t, i)
  PROVE  LET s == sends[p][q][t]
         IN  /\ i \in 1 .. Len(s) /\ s[i].data = <<>> /\ s[i].v \in Vec
             /\ Exchanged(p, q, t, s[i].v)
             /\ program' = program /\ pos' = pos /\ owned' = owned /\ ghost' = ghost
             /\ buffer' = buffer /\ receives' = receives
             /\ \A a, b \in Rank : \A u \in Tag :
                  /\ Len(sends'[a][b][u]) = Len(sends[a][b][u])
                  /\ \A j \in 1 .. Len(sends[a][b][u]) :
                       sends'[a][b][u][j] =
                         IF a = p /\ b = q /\ u = t /\ j = i
                         THEN [v |-> s[i].v, data |-> SendData(p, q, t, s[i].v)]
                         ELSE sends[a][b][u][j]
<1> DEFINE s == sends[p][q][t]
           d == SendData(p, q, t, s[i].v)
           r == [s EXCEPT ![i].data = d]
<1>1. /\ QueuesOK /\ i \in DOMAIN s /\ s[i].data = <<>>
      /\ sends' = Changed(sends, p, q, t, r)
      /\ program' = program /\ pos' = pos /\ owned' = owned /\ ghost' = ghost
      /\ buffer' = buffer /\ receives' = receives
  BY DEF IInv, Inject, Changed, heap
<1>2. IsTable(sends) /\ IsQueue(s)
  BY <1>1 DEF QueuesOK
<1>3. i \in 1 .. Len(s) /\ s[i].v \in Vec /\ Exchanged(p, q, t, s[i].v)
  <2>1. DOMAIN s = 1 .. Len(s)
    <3> HIDE DEF s
    <3>1. QED
      BY <1>2 DEF IsQueue
  <2>2. QED
    BY <1>1, <2>1, QueuedIsExchanged
<1>4. \A a, b \in Rank : \A u \in Tag :
        sends'[a][b][u] = IF a = p /\ b = q /\ u = t THEN r ELSE sends[a][b][u]
  <2> HIDE DEF r
  <2>1. QED
    BY <1>1, <1>2, QueueChanged
<1> HIDE DEF d
<1>5. /\ Len(r) = Len(s)
      /\ \A j \in 1 .. Len(s) : r[j] = IF j = i THEN [v |-> s[i].v, data |-> d] ELSE s[j]
  <2> HIDE DEF s
  <2>1. Len(r) = Len(s) /\ \A j \in 1 .. Len(s) : j # i => r[j] = s[j]
    BY <1>2, <1>3, QueueSet
  <2>2. s[i] = [v |-> s[i].v, data |-> s[i].data] /\ DOMAIN s = 1 .. Len(s)
    BY <1>2, <1>3 DEF IsQueue
  <2>3. r[i] = [s[i] EXCEPT !.data = d]
    BY <1>3, <2>2
  <2>4. r[i] = [v |-> s[i].v, data |-> d]
    BY <2>2, <2>3
  <2>5. QED
    BY <2>1, <2>4
<1>6. ASSUME NEW a \in Rank, NEW b \in Rank, NEW u \in Tag
      PROVE  /\ Len(sends'[a][b][u]) = Len(sends[a][b][u])
             /\ \A j \in 1 .. Len(sends[a][b][u]) :
                  sends'[a][b][u][j] =
                    IF a = p /\ b = q /\ u = t /\ j = i
                    THEN [v |-> s[i].v, data |-> d] ELSE sends[a][b][u][j]
  <2>1. CASE a = p /\ b = q /\ u = t
    <3>1. sends'[a][b][u] = r /\ sends[a][b][u] = s
      BY <1>4, <2>1
    <3> HIDE DEF r, s
    <3>2. QED
      BY <1>5, <2>1, <3>1
  <2>2. CASE ~(a = p /\ b = q /\ u = t)
    <3>1. sends'[a][b][u] = sends[a][b][u]
      BY <1>4, <2>2
    <3>2. QED
      BY <2>2, <3>1
  <2>3. QED
    BY <2>1, <2>2
<1>7. QED
  BY <1>1, <1>3, <1>6 DEF d

\* What the ghost section of v on q is when the data of a message of p is in it.
Delivery(p, q, t, v, data) ==
  LET into == IF t = Scatter THEN GhostSegment(q, v, p) ELSE {}
      base == GhostSegmentStart(q, v, p)
  IN  [j \in localGhost(q, v) |-> IF j \in into /\ j - base + 1 \in DOMAIN data
                                  THEN data[j - base + 1] ELSE ghost[q][v][j]]

\* The heap and the queues after a message of v has been delivered.
HeapDelivered(p, q, t, v, data) ==
  /\ owned' = owned /\ IsHeap(ghost') /\ IsHeap(buffer')
  /\ \A a \in Rank : \A w \in Vec :
       /\ ghost'[a][w] = IF a = q /\ w = v THEN Delivery(p, q, t, v, data) ELSE ghost[a][w]
       /\ buffer'[a][w] = IF a = q /\ w = v /\ t = Gather
                          THEN [buffer[q][v] EXCEPT ![p] = data] ELSE buffer[a][w]

QueuesDelivered(p, q, t, s, r) ==
  /\ program' = program /\ pos' = pos
  /\ \A a, b \in Rank : \A u \in Tag :
       IF a = p /\ b = q /\ u = t
       THEN /\ Len(sends'[a][b][u]) = Len(s) - 1
            /\ \A j \in 1 .. Len(s) - 1 : sends'[a][b][u][j] = s[j + 1]
            /\ Len(receives'[b][a][u]) = Len(r) - 1
            /\ \A j \in 1 .. Len(r) - 1 : receives'[b][a][u][j] = r[j + 1]
       ELSE /\ sends'[a][b][u] = sends[a][b][u]
            /\ receives'[b][a][u] = receives[b][a][u]

\* A message is delivered to the vector it was sent for.
LEMMA DeliverIs ==
  ASSUME IInv, HeapTyped, NEW p \in Rank, NEW q \in Rank, NEW t \in Tag, Deliver(p, q, t)
  PROVE  LET s == sends[p][q][t]
             r == receives[q][p][t]
         IN  /\ 1 \in 1 .. Len(s) /\ 1 \in 1 .. Len(r) /\ r[1] \in Vec /\ s[1].v = r[1]
             /\ Len(s) \in Nat /\ Len(r) \in Nat
             /\ s[1].data # <<>> /\ Exchanged(p, q, t, r[1])
             /\ HeapDelivered(p, q, t, r[1], s[1].data)
             /\ QueuesDelivered(p, q, t, s, r)
<1> DEFINE s == sends[p][q][t]
           r == receives[q][p][t]
           v == r[1]
           base == GhostSegmentStart(q, v, p)
           into == IF t = Scatter THEN GhostSegment(q, v, p) ELSE {}
<1>1. /\ QueuesOK /\ s # <<>> /\ r # <<>> /\ Head(s).data # <<>>
      /\ sends' = Changed(sends, p, q, t, Tail(s))
      /\ receives' = Changed(receives, q, p, t, Tail(r))
      /\ program' = program /\ pos' = pos /\ owned' = owned
  BY DEF IInv, Deliver, Changed
<1>2. /\ IsTable(sends) /\ IsTable(receives) /\ IsQueue(s) /\ r \in Seq(Vec)
  BY <1>1 DEF QueuesOK
<1>3. /\ Len(s) \in Nat /\ Len(s) >= 1 /\ Head(s) = s[1] /\ Len(Tail(s)) = Len(s) - 1
      /\ \A i \in 1 .. Len(s) - 1 : Tail(s)[i] = s[i + 1]
      /\ DOMAIN s = 1 .. Len(s)
  <2> HIDE DEF s
  <2>1. QED
    BY <1>1, <1>2, QueueTail DEF IsQueue
<1>4. /\ Len(r) \in Nat /\ Len(r) >= 1 /\ Head(r) = v /\ Len(Tail(r)) = Len(r) - 1
      /\ \A i \in 1 .. Len(r) - 1 : Tail(r)[i] = r[i + 1]
      /\ DOMAIN r = 1 .. Len(r)
  <2> HIDE DEF r
  <2>1. QED
    BY <1>1, <1>2
<1>5. 1 \in 1 .. Len(s) /\ 1 \in 1 .. Len(r) /\ s[1].v = v /\ v \in Vec /\ Exchanged(p, q, t, v)
  <2>1. 1 \in 1 .. Len(s) /\ 1 \in 1 .. Len(r)
    <3> HIDE DEF s, r
    <3>1. QED
      BY <1>3, <1>4
  <2>2. MessagesMatchTheirVector
    BY QueuesMatch
  <2>3. 1 \in DOMAIN s \cap DOMAIN r
    BY <1>3, <1>4, <2>1
  <2>4. s[1].v = v
    BY <2>2, <2>3 DEF MessagesMatchTheirVector
  <2>5. v \in Vec /\ Exchanged(p, q, t, v)
    BY <2>1, QueuedIsExchanged
  <2>6. QED
    BY <2>1, <2>4, <2>5
<1>6. ASSUME NEW a \in Rank, NEW b \in Rank, NEW u \in Tag
      PROVE  IF a = p /\ b = q /\ u = t
             THEN sends'[a][b][u] = Tail(s) /\ receives'[b][a][u] = Tail(r)
             ELSE sends'[a][b][u] = sends[a][b][u] /\ receives'[b][a][u] = receives[b][a][u]
  <2> HIDE DEF s, r
  <2>1. sends'[a][b][u] = IF a = p /\ b = q /\ u = t THEN Tail(s) ELSE sends[a][b][u]
    BY <1>1, <1>2, QueueChanged
  <2>2. receives'[b][a][u] = IF b = q /\ a = p /\ u = t THEN Tail(r) ELSE receives[b][a][u]
    BY <1>1, <1>2, QueueChanged
  <2>3. QED
    BY <2>1, <2>2
<1> DEFINE e == [j \in DOMAIN ghost[q][v] |->
                   IF j \in into /\ j - base + 1 \in DOMAIN s[1].data
                   THEN s[1].data[j - base + 1] ELSE ghost[q][v][j]]
           c == [buffer[q][v] EXCEPT ![p] = s[1].data]
<1>7. ghost' = [ghost EXCEPT ![q][v] = e]
  <2>1. ghost' = [ghost EXCEPT ![q][Head(r)] =
                    [j \in DOMAIN @ |->
                       IF /\ j \in (IF t = Scatter THEN GhostSegment(q, Head(r), p) ELSE {})
                          /\ j - GhostSegmentStart(q, Head(r), p) + 1 \in DOMAIN Head(s).data
                       THEN Head(s).data[j - GhostSegmentStart(q, Head(r), p) + 1] ELSE @[j]]]
    BY DEF Deliver
  <2>2. QED
    BY <1>3, <1>4, <2>1
<1>8. buffer' = IF t = Gather THEN [buffer EXCEPT ![q][v] = c] ELSE buffer
  <2>1. buffer' = IF t = Gather THEN [buffer EXCEPT ![q][Head(r)][p] = Head(s).data] ELSE buffer
    BY DEF Deliver
  <2>2. QED
    BY <1>3, <1>4, <2>1
<1>9. DOMAIN ghost[q][v] = localGhost(q, v) /\ IsHeap(ghost) /\ IsHeap(buffer)
  BY <1>5 DEF HeapTyped
<1>10. /\ IsHeap(ghost')
       /\ \A a \in Rank : \A w \in Vec : ghost'[a][w] = IF a = q /\ w = v THEN e ELSE ghost[a][w]
  <2> HIDE DEF e, v
  <2>1. ghost' = Stored(ghost, q, v, e) /\ v \in Vec
    BY <1>5, <1>7 DEF Stored
  <2>2. QED
    BY <1>9, <2>1, HeapSet
<1>11. /\ IsHeap(buffer')
       /\ \A a \in Rank : \A w \in Vec :
            buffer'[a][w] = IF a = q /\ w = v /\ t = Gather THEN c ELSE buffer[a][w]
  <2> HIDE DEF c, v
  <2>1. CASE t = Gather
    <3>1. buffer' = Stored(buffer, q, v, c) /\ v \in Vec
      BY <1>5, <1>8, <2>1 DEF Stored
    <3>2. QED
      BY <1>9, <2>1, <3>1, HeapSet
  <2>2. CASE t # Gather
    BY <1>8, <1>9, <2>2
  <2>3. QED
    BY <2>1, <2>2
<1>12. e = [j \in localGhost(q, v) |->
              IF j \in into /\ j - base + 1 \in DOMAIN s[1].data
              THEN s[1].data[j - base + 1] ELSE ghost[q][v][j]]
  BY <1>9
<1>13. ASSUME NEW a \in Rank, NEW b \in Rank, NEW u \in Tag
       PROVE  IF a = p /\ b = q /\ u = t
              THEN /\ Len(sends'[a][b][u]) = Len(s) - 1
                   /\ \A j \in 1 .. Len(s) - 1 : sends'[a][b][u][j] = s[j + 1]
                   /\ Len(receives'[b][a][u]) = Len(r) - 1
                   /\ \A j \in 1 .. Len(r) - 1 : receives'[b][a][u][j] = r[j + 1]
              ELSE /\ sends'[a][b][u] = sends[a][b][u]
                   /\ receives'[b][a][u] = receives[b][a][u]
  <2> HIDE DEF s, r
  <2>1. QED
    BY <1>3, <1>4, <1>6
<1>14. s[1].data # <<>>
  BY <1>1, <1>3
<1>15. Delivery(p, q, t, v, s[1].data) = e
  BY <1>12 DEF Delivery
<1> HIDE DEF e, c, v
<1>16. HeapDelivered(p, q, t, v, s[1].data)
  BY <1>1, <1>10, <1>11, <1>15 DEF HeapDelivered, c
<1> HIDE DEF s, r
<1>17. QueuesDelivered(p, q, t, s, r)
  BY <1>1, <1>13 DEF QueuesDelivered
<1>18. QED
  BY <1>3, <1>4, <1>5, <1>14, <1>16, <1>17 DEF s, r, v

-----------------------------------------------------------------------------
\* The type of what is sent to the targets of a rank.
BufferTyped(p, v, b) ==
  /\ b = [q \in getTargetProcIds(p, v) |-> b[q]]
  /\ \A q \in getTargetProcIds(p, v) : b[q] \in [1 .. NumGhosts(q, v, p) -> Int]

\* The entries of one vector of one rank are set.
LEMMA HeapStored ==
  ASSUME HeapTyped, NEW p \in Rank, NEW v \in Vec,
         NEW e \in [localOwned(p, v) -> Int], NEW g \in [localGhost(p, v) -> Int],
         NEW b, BufferTyped(p, v, b),
         owned' = owned \/ owned' = Stored(owned, p, v, e),
         ghost' = ghost \/ ghost' = Stored(ghost, p, v, g),
         buffer' = buffer \/ buffer' = Stored(buffer, p, v, b)
  PROVE  HeapTyped'
<1>1. IsHeap(owned) /\ IsHeap(ghost) /\ IsHeap(buffer)
  BY DEF HeapTyped
<1>2. /\ IsHeap(owned')
      /\ \A a \in Rank : \A w \in Vec :
           owned'[a][w] = owned[a][w] \/ (a = p /\ w = v /\ owned'[a][w] = e)
  <2>1. CASE owned' = owned
    BY <1>1, <2>1
  <2>2. CASE owned' = Stored(owned, p, v, e)
    BY <1>1, <2>2, HeapSet
  <2>3. QED
    BY <2>1, <2>2
<1>3. /\ IsHeap(ghost')
      /\ \A a \in Rank : \A w \in Vec :
           ghost'[a][w] = ghost[a][w] \/ (a = p /\ w = v /\ ghost'[a][w] = g)
  <2>1. CASE ghost' = ghost
    BY <1>1, <2>1
  <2>2. CASE ghost' = Stored(ghost, p, v, g)
    BY <1>1, <2>2, HeapSet
  <2>3. QED
    BY <2>1, <2>2
<1>4. /\ IsHeap(buffer')
      /\ \A a \in Rank : \A w \in Vec :
           buffer'[a][w] = buffer[a][w] \/ (a = p /\ w = v /\ buffer'[a][w] = b)
  <2>1. CASE buffer' = buffer
    BY <1>1, <2>1
  <2>2. CASE buffer' = Stored(buffer, p, v, b)
    BY <1>1, <2>2, HeapSet
  <2>3. QED
    BY <2>1, <2>2
<1>5. ASSUME NEW a \in Rank, NEW w \in Vec
      PROVE  /\ owned'[a][w] \in [localOwned(a, w) -> Int]
             /\ ghost'[a][w] \in [localGhost(a, w) -> Int]
             /\ BufferTyped(a, w, buffer'[a][w])
  <2>1. /\ owned[a][w] \in [localOwned(a, w) -> Int]
        /\ ghost[a][w] \in [localGhost(a, w) -> Int]
        /\ BufferTyped(a, w, buffer[a][w])
    BY DEF HeapTyped, BufferTyped
  <2>2. BufferTyped(a, w, buffer'[a][w])
    <3>1. CASE buffer'[a][w] = buffer[a][w]
      BY <2>1, <3>1
    <3>2. CASE a = p /\ w = v /\ buffer'[a][w] = b
      BY <3>2
    <3>3. QED
      BY <1>4, <3>1, <3>2
  <2>3. QED
    BY <1>2, <1>3, <2>1, <2>2
<1>6. QED
  BY <1>2, <1>3, <1>4, <1>5 DEF HeapTyped, BufferTyped

\* The heap does not change.
LEMMA HeapKept ==
  ASSUME HeapTyped, UNCHANGED heap
  PROVE  HeapTyped'
BY DEF HeapTyped, IsHeap, heap

\* What is typed in one place of a rank.
LEMMA TypedAt ==
  ASSUME HeapTyped, NEW p \in Rank, NEW v \in Vec
  PROVE  /\ owned[p][v] \in [localOwned(p, v) -> Int]
         /\ ghost[p][v] \in [localGhost(p, v) -> Int]
         /\ BufferTyped(p, v, buffer[p][v])
BY DEF HeapTyped, BufferTyped

\* Posting sends that MPI has not read keeps the messages typed.
LEMMA SendsTyped ==
  ASSUME QueuesOK, MessagesTyped, NEW p \in Rank, NEW t \in Tag, NEW v \in Vec, NEW to,
         Isend(p, to, t, v)
  PROVE  MessagesTyped'
<1> SUFFICES ASSUME NEW a \in Rank, NEW b \in Rank, NEW u \in Tag,
                    NEW i \in 1 .. Len(sends'[a][b][u])
             PROVE  DataTyped(a, b, u, sends'[a][b][u][i])
  BY DEF MessagesTyped, DataTyped, MessageSize
<1> DEFINE x == [v |-> v, data |-> <<>>]
           s == sends[a][b][u]
<1>1. sends'[a][b][u] = IF a = p /\ b \in to /\ u = t THEN Append(s, x) ELSE s
  BY IsendIs
<1>2. IsQueue(s) /\ \A j \in 1 .. Len(s) : DataTyped(a, b, u, s[j])
  BY DEF QueuesOK, MessagesTyped
<1>3. DataTyped(a, b, u, x)
  BY DEF DataTyped
<1> HIDE DEF x, s
<1>4. CASE a = p /\ b \in to /\ u = t
  <2>1. /\ Len(s) \in Nat /\ Len(Append(s, x)) = Len(s) + 1
        /\ Append(s, x)[Len(s) + 1] = x
        /\ \A j \in 1 .. Len(s) : Append(s, x)[j] = s[j]
    BY <1>2, QueueLonger
  <2>2. sends'[a][b][u] = Append(s, x)
    BY <1>1, <1>4
  <2>3. i = Len(s) + 1 \/ i \in 1 .. Len(s)
    BY <2>1, <2>2
  <2>4. QED
    BY <1>2, <1>3, <2>1, <2>2, <2>3
<1>5. CASE ~(a = p /\ b \in to /\ u = t)
  BY <1>1, <1>2, <1>5
<1>6. QED
  BY <1>4, <1>5

LEMMA MessagesKept ==
  ASSUME MessagesTyped, sends' = sends
  PROVE  MessagesTyped'
BY DEF MessagesTyped, DataTyped, MessageSize

\* What a rank gathers for its targets.
LEMMA GatheredTyped ==
  ASSUME HeapTyped, NEW p \in Rank, NEW v \in Vec
  PROVE  /\ BufferTyped(p, v, gatherLocallyOwnedEntries(p, v))
         /\ \A q \in getTargetProcIds(p, v) :
              gatherLocallyOwnedEntries(p, v)[q] =
                [n \in 1 .. NumGhosts(q, v, p) |->
                   owned[p][v][Wanted(p, v, q)[n] - OwnedRanges[v][p].first]]
<1> DEFINE b == gatherLocallyOwnedEntries(p, v)
           T == getTargetProcIds(p, v)
<1>1. ASSUME NEW q \in T
      PROVE  /\ b[q] = [n \in 1 .. NumGhosts(q, v, p) |->
                          owned[p][v][Wanted(p, v, q)[n] - OwnedRanges[v][p].first]]
             /\ b[q] \in [1 .. NumGhosts(q, v, p) -> Int]
  <2> DEFINE idx == getOwnedLocalIndicesForTargetProcs(p, v, q)
  <2>1. q \in Rank
    BY TargetsFinite
  <2>2. b[q] = [n \in DOMAIN idx |-> owned[p][v][idx[n]]]
    BY DEF gatherLocallyOwnedEntries
  <2>3. /\ DOMAIN idx = 1 .. NumGhosts(q, v, p)
        /\ \A n \in 1 .. NumGhosts(q, v, p) :
             /\ idx[n] = Wanted(p, v, q)[n] - OwnedRanges[v][p].first
             /\ idx[n] \in localOwned(p, v)
    BY <2>1, IndicesAreOwned
  <2>4. owned[p][v] \in [localOwned(p, v) -> Int]
    BY TypedAt
  <2> HIDE DEF idx, b
  <2>5. b[q] \in [1 .. NumGhosts(q, v, p) -> Int]
    BY <2>2, <2>3, <2>4
  <2>6. b[q] = [n \in 1 .. NumGhosts(q, v, p) |->
                  owned[p][v][Wanted(p, v, q)[n] - OwnedRanges[v][p].first]]
    BY <2>2, <2>3
  <2>7. QED
    BY <2>5, <2>6
<1>2. b = [q \in T |-> b[q]]
  BY DEF gatherLocallyOwnedEntries
<1> HIDE DEF b, T
<1>3. QED
  BY <1>1, <1>2 DEF BufferTyped, b, T

\* Types at the start.
LEMMA InitTyped == Init => HeapTyped /\ MessagesTyped
<1> SUFFICES ASSUME Init PROVE HeapTyped /\ MessagesTyped
  OBVIOUS
<1>1. /\ owned = [p \in Rank |-> [v \in Vec |-> Zero(localOwned(p, v))]]
      /\ ghost = [p \in Rank |-> [v \in Vec |-> Zero(localGhost(p, v))]]
      /\ buffer = [p \in Rank |-> [v \in Vec |-> [q \in getTargetProcIds(p, v) |->
                     [i \in 1 .. NumGhosts(q, v, p) |-> 0]]]]
      /\ sends = [p \in Rank |-> [q \in Rank |-> [t \in Tag |-> <<>>]]]
  BY DEF Init
<1>2. IsHeap(owned) /\ IsHeap(ghost) /\ IsHeap(buffer)
  <2>1. IsHeap(owned)
    BY <1>1 DEF IsHeap
  <2>2. IsHeap(ghost)
    BY <1>1 DEF IsHeap
  <2>3. IsHeap(buffer)
    BY <1>1 DEF IsHeap
  <2>4. QED
    BY <2>1, <2>2, <2>3
<1>3. ASSUME NEW p \in Rank, NEW v \in Vec
      PROVE  /\ owned[p][v] \in [localOwned(p, v) -> Int]
             /\ ghost[p][v] \in [localGhost(p, v) -> Int]
             /\ BufferTyped(p, v, buffer[p][v])
  <2>1. \A S : Zero(S) \in [S -> Int]
    BY DEF Zero
  <2>2. owned[p][v] = Zero(localOwned(p, v)) /\ ghost[p][v] = Zero(localGhost(p, v))
    BY <1>1
  <2>3. buffer[p][v] = [q \in getTargetProcIds(p, v) |-> [i \in 1 .. NumGhosts(q, v, p) |-> 0]]
    BY <1>1
  <2>4. BufferTyped(p, v, buffer[p][v])
    BY <2>3 DEF BufferTyped
  <2>5. QED
    BY <2>1, <2>2, <2>4
<1>4. \A p, q \in Rank : \A t \in Tag : sends[p][q][t] = <<>>
  BY <1>1
<1>5. MessagesTyped
  <2>1. 1 .. Len(<<>>) = {}
    OBVIOUS
  <2>2. QED
    BY <1>4, <2>1 DEF MessagesTyped
<1>6. QED
  BY <1>2, <1>3, <1>5 DEF HeapTyped, BufferTyped

-----------------------------------------------------------------------------
\* The invariant with the types.
TInv == IInv /\ HeapTyped /\ MessagesTyped

\* What the caller computes.
LEMMA ComputeIs ==
  ASSUME TInv, NEW p \in Rank, NEW v \in Vec, Compute(p, v)
  PROVE  /\ [i \in localOwned(p, v) |-> Computed(p, pos[p], OwnedRanges[v][p].first + i)]
              \in [localOwned(p, v) -> Int]
         /\ [j \in localGhost(p, v) |-> Computed(p, pos[p], GhostAt(p, v, j))]
              \in [localGhost(p, v) -> Int]
         /\ owned' = Stored(owned, p, v, [i \in localOwned(p, v) |->
                       Computed(p, pos[p], OwnedRanges[v][p].first + i)])
         /\ ghost' = Stored(ghost, p, v, [j \in localGhost(p, v) |->
                       Computed(p, pos[p], GhostAt(p, v, j))])
         /\ buffer' = buffer
<1>1. program \in Programs /\ pos[p] \in 0 .. Len(program) - 1
  <2>1. pos[p] + 1 \in 1 .. Len(program) /\ program \in Programs /\ QueuesOK
    <3>1. At(p, "compute", v) /\ Advance(p) /\ QueuesOK
      BY DEF Compute, TInv, IInv
    <3>2. QED
      BY <3>1, PositionIs
  <2>2. pos[p] \in Nat /\ Len(program) \in Nat
    BY <2>1, ProgramAssumption DEF QueuesOK
  <2>3. QED
    BY <2>1, <2>2
<1>2. \A g \in Indices(OwnedRanges[v][p]) \cup GhostIndices[v][p] : Computed(p, pos[p], g) \in Int
  BY <1>1, ComputedAssumption
<1>3. ASSUME NEW i \in localOwned(p, v) PROVE OwnedRanges[v][p].first + i \in Indices(OwnedRanges[v][p])
  <2>1. OwnedRanges[v][p].first \in Nat /\ OwnedRanges[v][p].second \in Nat
    BY PatternIs
  <2>2. QED
    BY <2>1 DEF localOwned, Size, Indices
<1>4. \A j \in localGhost(p, v) : GhostAt(p, v, j) \in GhostIndices[v][p]
  BY GhostAtIs
<1>5. /\ owned' = [owned EXCEPT ![p][v] = [i \in localOwned(p, v) |->
                    Computed(p, pos[p], OwnedRanges[v][p].first + i)]]
      /\ ghost' = [ghost EXCEPT ![p][v] = [j \in localGhost(p, v) |->
                    Computed(p, pos[p], GhostAt(p, v, j))]]
      /\ buffer' = buffer
  BY DEF Compute, GhostAt
<1>6. [i \in localOwned(p, v) |-> Computed(p, pos[p], OwnedRanges[v][p].first + i)]
        \in [localOwned(p, v) -> Int]
  BY <1>2, <1>3
<1>7. [j \in localGhost(p, v) |-> Computed(p, pos[p], GhostAt(p, v, j))] \in [localGhost(p, v) -> Int]
  BY <1>2, <1>4
<1>8. QED
  BY <1>5, <1>6, <1>7 DEF Stored

\* An accumulation adds numbers to numbers.
LEMMA AccumulateIs ==
  ASSUME TInv, NEW p \in Rank, NEW v \in Vec, accumulateAddLocallyOwnedEnd(p, v)
  PROVE  /\ [i \in localOwned(p, v) |-> owned[p][v][i] + Received(p, v, i)]
              \in [localOwned(p, v) -> Int]
         /\ owned' = Stored(owned, p, v, [i \in localOwned(p, v) |->
                       owned[p][v][i] + Received(p, v, i)])
<1>1. owned' = [owned EXCEPT ![p][v] = [i \in localOwned(p, v) |-> @[i] + Received(p, v, i)]]
  BY DEF accumulateAddLocallyOwnedEnd
<1>2. owned[p][v] \in [localOwned(p, v) -> Int] /\ BufferTyped(p, v, buffer[p][v])
  BY TypedAt DEF TInv
<1>3. \A i \in localOwned(p, v) : Received(p, v, i) \in Int
  BY <1>2, ReceivedIsInt DEF BufferTyped
<1>4. QED
  BY <1>1, <1>2, <1>3 DEF Stored

\* The steps of a rank keep the types.
LEMMA StepTyped ==
  ASSUME TInv, NEW p \in Rank, RankStep(p)
  PROVE  HeapTyped' /\ MessagesTyped'
<1>0. HeapTyped /\ MessagesTyped /\ QueuesOK
  BY DEF TInv, IInv
<1>1. PICK v \in Vec :
        \/ Compute(p, v) \/ zeroOutGhosts(p, v)
        \/ updateGhostValuesBegin(p, v) \/ updateGhostValuesEnd(p, v)
        \/ accumulateAddLocallyOwnedBegin(p, v) \/ accumulateAddLocallyOwnedEnd(p, v)
  BY DEF RankStep
<1>2. /\ owned[p][v] \in [localOwned(p, v) -> Int]
      /\ ghost[p][v] \in [localGhost(p, v) -> Int]
      /\ BufferTyped(p, v, buffer[p][v])
  BY <1>0, TypedAt
<1>3. CASE Compute(p, v)
  <2>1. MessagesTyped'
    <3>1. sends' = sends
      BY <1>3 DEF Compute, mpi
    <3>2. QED
      BY <1>0, <3>1, MessagesKept
  <2> DEFINE e == [i \in localOwned(p, v) |-> Computed(p, pos[p], OwnedRanges[v][p].first + i)]
             g == [j \in localGhost(p, v) |-> Computed(p, pos[p], GhostAt(p, v, j))]
  <2>2. /\ e \in [localOwned(p, v) -> Int] /\ g \in [localGhost(p, v) -> Int]
        /\ owned' = Stored(owned, p, v, e) /\ ghost' = Stored(ghost, p, v, g)
        /\ buffer' = buffer
    BY <1>3, ComputeIs
  <2> HIDE DEF e, g
  <2>3. HeapTyped'
    BY <1>0, <1>2, <2>2, HeapStored
  <2>4. QED
    BY <2>1, <2>3
<1>4. CASE zeroOutGhosts(p, v)
  <2>1. MessagesTyped'
    <3>1. sends' = sends
      BY <1>4 DEF zeroOutGhosts, mpi
    <3>2. QED
      BY <1>0, <3>1, MessagesKept
  <2>2. /\ Zero(localGhost(p, v)) \in [localGhost(p, v) -> Int]
        /\ ghost' = Stored(ghost, p, v, Zero(localGhost(p, v)))
        /\ owned' = owned /\ buffer' = buffer
    BY <1>4 DEF zeroOutGhosts, Zero, Stored
  <2>3. HeapTyped'
    BY <1>0, <1>2, <2>2, HeapStored
  <2>4. QED
    BY <2>1, <2>3
<1>5. CASE updateGhostValuesBegin(p, v)
  <2>1. MessagesTyped'
    <3>1. Isend(p, getTargetProcIds(p, v), Scatter, v) /\ Scatter \in Tag
      BY <1>5 DEF updateGhostValuesBegin, Tag
    <3>2. QED
      BY <1>0, <3>1, SendsTyped
  <2> DEFINE b == gatherLocallyOwnedEntries(p, v)
  <2>2. BufferTyped(p, v, b) /\ buffer' = Stored(buffer, p, v, b)
        /\ owned' = owned /\ ghost' = ghost
    BY <1>0, <1>5, GatheredTyped DEF updateGhostValuesBegin, Stored
  <2> HIDE DEF b
  <2>3. HeapTyped'
    BY <1>0, <1>2, <2>2, HeapStored
  <2>4. QED
    BY <2>1, <2>3
<1>6. CASE updateGhostValuesEnd(p, v)
  <2>1. UNCHANGED heap /\ sends' = sends
    BY <1>6 DEF updateGhostValuesEnd, mpi
  <2>2. QED
    BY <1>0, <2>1, HeapKept, MessagesKept
<1>7. CASE accumulateAddLocallyOwnedBegin(p, v)
  <2>1. MessagesTyped'
    <3>1. Isend(p, getGhostProcIds(p, v), Gather, v) /\ Gather \in Tag
      BY <1>7 DEF accumulateAddLocallyOwnedBegin, Tag
    <3>2. QED
      BY <1>0, <3>1, SendsTyped
  <2>2. UNCHANGED heap
    BY <1>7 DEF accumulateAddLocallyOwnedBegin
  <2>3. QED
    BY <1>0, <2>1, <2>2, HeapKept
<1>8. CASE accumulateAddLocallyOwnedEnd(p, v)
  <2>1. MessagesTyped'
    <3>1. sends' = sends
      BY <1>8 DEF accumulateAddLocallyOwnedEnd, mpi
    <3>2. QED
      BY <1>0, <3>1, MessagesKept
  <2> DEFINE e == [i \in localOwned(p, v) |-> owned[p][v][i] + Received(p, v, i)]
  <2>2. /\ e \in [localOwned(p, v) -> Int] /\ owned' = Stored(owned, p, v, e)
        /\ ghost' = ghost /\ buffer' = buffer
    BY <1>8, AccumulateIs DEF accumulateAddLocallyOwnedEnd
  <2> HIDE DEF e
  <2>3. HeapTyped'
    BY <1>0, <1>2, <2>2, HeapStored
  <2>4. QED
    BY <2>1, <2>3
<1>9. QED
  BY <1>1, <1>3, <1>4, <1>5, <1>6, <1>7, <1>8

\* Reading the data of a message keeps the types.
LEMMA InjectTyped ==
  ASSUME TInv, NEW p \in Rank, NEW q \in Rank, NEW t \in Tag, NEW i, Inject(p, q, t, i)
  PROVE  HeapTyped' /\ MessagesTyped'
<1> DEFINE s == sends[p][q][t]
           w == s[i].v
           d == SendData(p, q, t, w)
<1>0. IInv /\ HeapTyped /\ MessagesTyped
  BY DEF TInv
<1>1. /\ w \in Vec /\ Exchanged(p, q, t, w)
      /\ owned' = owned /\ ghost' = ghost /\ buffer' = buffer
      /\ \A a, b \in Rank : \A u \in Tag :
           /\ Len(sends'[a][b][u]) = Len(sends[a][b][u])
           /\ \A j \in 1 .. Len(sends[a][b][u]) :
                sends'[a][b][u][j] = IF a = p /\ b = q /\ u = t /\ j = i
                                     THEN [v |-> w, data |-> d] ELSE sends[a][b][u][j]
  BY <1>0, InjectIs, SMTT(30)
<1>2. HeapTyped'
  BY <1>0, <1>1, HeapKept DEF heap
<1>3. d \in [1 .. MessageSize(p, q, t, w) -> Int]
  <2> HIDE DEF w
  <2>1. QED
    BY <1>0, <1>1, SendDataTyped
<1>4. DataTyped(p, q, t, [v |-> w, data |-> d])
  <2> HIDE DEF w, d
  <2>1. QED
    BY <1>3 DEF DataTyped
<1> HIDE DEF w, d, s
<1>5. ASSUME NEW a \in Rank, NEW b \in Rank, NEW u \in Tag, NEW j \in 1 .. Len(sends'[a][b][u])
      PROVE  DataTyped(a, b, u, sends'[a][b][u][j])
  <2>1. j \in 1 .. Len(sends[a][b][u])
    BY <1>1, <1>5
  <2>2. DataTyped(a, b, u, sends[a][b][u][j])
    BY <1>0, <2>1 DEF MessagesTyped
  <2>3. CASE a = p /\ b = q /\ u = t /\ j = i
    BY <1>1, <1>4, <2>1, <2>3
  <2>4. CASE ~(a = p /\ b = q /\ u = t /\ j = i)
    <3>1. sends'[a][b][u][j] = sends[a][b][u][j]
      BY <1>1, <2>1, <2>4
    <3>2. QED
      BY <2>2, <3>1
  <2>5. QED
    BY <2>3, <2>4
<1>6. MessagesTyped'
  BY <1>5 DEF MessagesTyped, DataTyped, MessageSize
<1>7. QED
  BY <1>2, <1>6

\* Delivering a message keeps the types.
LEMMA DeliverTyped ==
  ASSUME TInv, NEW p \in Rank, NEW q \in Rank, NEW t \in Tag, Deliver(p, q, t)
  PROVE  HeapTyped' /\ MessagesTyped'
<1> DEFINE s == sends[p][q][t]
           r == receives[q][p][t]
           w == r[1]
           d == s[1].data
           e == Delivery(p, q, t, w, d)
           c == [buffer[q][w] EXCEPT ![p] = d]
<1>0. IInv /\ HeapTyped /\ MessagesTyped
  BY DEF TInv
<1>1. /\ 1 \in 1 .. Len(s) /\ w \in Vec /\ s[1].v = w /\ Len(s) \in Nat
      /\ d # <<>> /\ Exchanged(p, q, t, w)
      /\ HeapDelivered(p, q, t, w, d) /\ QueuesDelivered(p, q, t, s, r)
  BY <1>0, DeliverIs
<1>2. \A a, b \in Rank : \A u \in Tag :
        IF a = p /\ b = q /\ u = t
        THEN /\ Len(sends'[a][b][u]) = Len(s) - 1
             /\ \A j \in 1 .. Len(s) - 1 : sends'[a][b][u][j] = s[j + 1]
        ELSE sends'[a][b][u] = sends[a][b][u]
  <2> HIDE DEF s, r
  <2>1. QED
    BY <1>1 DEF QueuesDelivered
<1>3. d \in [1 .. MessageSize(p, q, t, w) -> Int]
  <2>1. DataTyped(p, q, t, s[1])
    BY <1>0, <1>1 DEF MessagesTyped
  <2>2. QED
    BY <1>1, <2>1 DEF DataTyped
<1>4. /\ owned[q][w] \in [localOwned(q, w) -> Int] /\ ghost[q][w] \in [localGhost(q, w) -> Int]
      /\ BufferTyped(q, w, buffer[q][w])
  <2> HIDE DEF w
  <2>1. QED
    BY <1>0, <1>1, TypedAt
<1>5. e \in [localGhost(q, w) -> Int]
  <2> HIDE DEF w, d
  <2>1. DOMAIN d = 1 .. MessageSize(p, q, t, w) /\ \A n \in DOMAIN d : d[n] \in Int
    BY <1>3
  <2>2. QED
    BY <1>4, <2>1 DEF Delivery
<1>6. t = Gather => BufferTyped(q, w, c)
  <2> SUFFICES ASSUME t = Gather PROVE BufferTyped(q, w, c)
    OBVIOUS
  <2> HIDE DEF w, d
  <2>1. MessageSize(p, q, t, w) = NumGhosts(p, w, q)
    BY DEF MessageSize, Gather, Scatter
  <2>2. p \in getTargetProcIds(q, w)
    BY <1>1 DEF Exchanged, Gather, Scatter, getTargetProcIds
  <2> DEFINE T == getTargetProcIds(q, w)
             b == buffer[q][w]
  <2>3. b = [k \in T |-> b[k]] /\ \A k \in T : b[k] \in [1 .. NumGhosts(k, w, q) -> Int]
    BY <1>4 DEF BufferTyped
  <2>4. c = [b EXCEPT ![p] = d] /\ p \in T
    BY <2>2
  <2> HIDE DEF T, b, c
  <2>5. c = [k \in T |-> IF k = p THEN d ELSE b[k]]
    BY <2>3, <2>4
  <2>6. c = [k \in T |-> c[k]]
    BY <2>5
  <2>7. \A k \in T : c[k] \in [1 .. NumGhosts(k, w, q) -> Int]
    BY <1>3, <2>1, <2>3, <2>5
  <2>8. QED
    BY <2>6, <2>7 DEF BufferTyped, T
<1> HIDE DEF w, d
<1>7a. /\ owned' = owned /\ IsHeap(ghost') /\ IsHeap(buffer')
       /\ \A a \in Rank : \A x \in Vec :
            /\ ghost'[a][x] = IF a = q /\ x = w THEN e ELSE ghost[a][x]
            /\ buffer'[a][x] = IF a = q /\ x = w /\ t = Gather THEN c ELSE buffer[a][x]
  BY <1>1 DEF HeapDelivered
<1> HIDE DEF e, c
<1>7. HeapTyped'
  <2>1. IsHeap(owned')
    BY <1>0, <1>7a DEF HeapTyped
  <2>2. ASSUME NEW a \in Rank, NEW x \in Vec
        PROVE  /\ owned'[a][x] \in [localOwned(a, x) -> Int]
               /\ ghost'[a][x] \in [localGhost(a, x) -> Int]
               /\ BufferTyped(a, x, buffer'[a][x])
    <3>1. /\ owned[a][x] \in [localOwned(a, x) -> Int]
          /\ ghost[a][x] \in [localGhost(a, x) -> Int]
          /\ BufferTyped(a, x, buffer[a][x])
      BY <1>0, TypedAt
    <3>2. ghost'[a][x] \in [localGhost(a, x) -> Int]
      <4>1. CASE a = q /\ x = w
        <5>1. ghost'[a][x] = e
          BY <1>7a, <4>1
        <5>2. QED
          BY <1>5, <4>1, <5>1
      <4>2. CASE ~(a = q /\ x = w)
        <5>1. ghost'[a][x] = ghost[a][x]
          BY <1>7a, <4>2
        <5>2. QED
          BY <3>1, <5>1
      <4>3. QED
        BY <4>1, <4>2
    <3>3. BufferTyped(a, x, buffer'[a][x])
      <4>1. CASE a = q /\ x = w /\ t = Gather
        <5>1. buffer'[a][x] = c
          BY <1>7a, <4>1
        <5>2. QED
          BY <1>6, <4>1, <5>1
      <4>2. CASE ~(a = q /\ x = w /\ t = Gather)
        <5>1. buffer'[a][x] = buffer[a][x]
          BY <1>7a, <4>2
        <5>2. QED
          BY <3>1, <5>1
      <4>3. QED
        BY <4>1, <4>2
    <3>4. QED
      BY <1>7a, <3>1, <3>2, <3>3
  <2>3. QED
    BY <1>7a, <2>1, <2>2 DEF HeapTyped, BufferTyped
<1>8. ASSUME NEW a \in Rank, NEW b \in Rank, NEW u \in Tag, NEW j \in 1 .. Len(sends'[a][b][u])
      PROVE  DataTyped(a, b, u, sends'[a][b][u][j])
  <2>1. CASE a = p /\ b = q /\ u = t
    <3>1. /\ Len(sends'[a][b][u]) = Len(s) - 1
          /\ \A k \in 1 .. Len(s) - 1 : sends'[a][b][u][k] = s[k + 1]
      BY <1>2, <2>1
    <3>2. \A k \in 1 .. Len(s) : DataTyped(p, q, t, s[k])
      BY <1>0 DEF MessagesTyped
    <3> HIDE DEF s
    <3>3. j + 1 \in 1 .. Len(s) /\ sends'[a][b][u][j] = s[j + 1]
      BY <1>1, <1>8, <3>1
    <3>4. QED
      BY <2>1, <3>2, <3>3
  <2>2. CASE ~(a = p /\ b = q /\ u = t)
    <3>1. sends'[a][b][u] = sends[a][b][u]
      BY <1>2, <2>2
    <3>2. QED
      BY <1>0, <1>8, <3>1 DEF MessagesTyped
  <2>3. QED
    BY <2>1, <2>2
<1>9. MessagesTyped'
  BY <1>8 DEF MessagesTyped, DataTyped, MessageSize
<1>10. QED
  BY <1>7, <1>9

\* Every step keeps the types.
LEMMA NextTyped == TInv /\ [Next]_vars => TInv'
<1> SUFFICES ASSUME TInv, [Next]_vars PROVE TInv'
  OBVIOUS
<1>1. IInv'
  BY NextOK DEF TInv
<1>2. CASE \E p \in Rank : RankStep(p)
  BY <1>1, <1>2, StepTyped DEF TInv
<1>3. CASE Progress
  BY <1>1, <1>3, InjectTyped, DeliverTyped DEF TInv, Progress
<1>4. CASE UNCHANGED vars
  <2>1. UNCHANGED heap /\ sends' = sends
    BY <1>4 DEF vars, heap
  <2>2. QED
    BY <1>1, <2>1, HeapKept, MessagesKept DEF TInv
<1>5. QED
  BY <1>2, <1>3, <1>4 DEF Next, Terminated

LEMMA TypesStay == Spec => []TInv
<1>1. Init => TInv
  BY InitOK, InitTyped DEF TInv
<1>2. QED
  BY <1>1, NextTyped, PTL DEF Spec

\* The owned and ghost sections and the send buffers of all vectors keep their
\* shapes and hold numbers, and so does every message.
THEOREM TypeCorrect == Spec => []TypeOK
<1>1. TInv => TypeOK
  BY TypesImplyTypeOK DEF TInv, IInv
<1>2. QED
  BY <1>1, TypesStay, PTL

-----------------------------------------------------------------------------
\* What an operation of p on v that sends with tag t sends to q, if M is the memory then.
Data(M, p, q, t, v) ==
  IF t = Scatter
  THEN [n \in 1 .. NumGhosts(q, v, p) |->
          M.owned[p][v][Wanted(p, v, q)[n] - OwnedRanges[v][p].first]]
  ELSE [n \in 1 .. NumGhosts(p, v, q) |-> M.ghost[p][v][GhostSegmentStart(p, v, q) + n - 1]]

\* The program's memory where rank p has last begun or done something with v.
LastOf(p, v) == Latest(program, pos[p], v)
MemoryAt(n) == Meaning(program)[n]

Updating(p, v) == LatestIs(program, pos[p], "updateBegin", v)
Accumulating(p, v) == LatestIs(program, pos[p], "accumulateBegin", v)

\* A receive of v from p is posted at q, and nothing has met it.
Pending(p, q, t, v) == \E i \in 1 .. Len(receives[q][p][t]) : receives[q][p][t][i] = v

\* The memory of the ranks, as far as it is not open to MPI.
OwnedFollows(p, v) == owned[p][v] = MemoryAt(pos[p]).owned[p][v]
GhostFollows(p, v) == ~Updating(p, v) => ghost[p][v] = MemoryAt(pos[p]).ghost[p][v]

\* The send buffer holds what an open update sends.
BufferFollows(p, v) ==
  Updating(p, v) => \A q \in getTargetProcIds(p, v) :
    buffer[p][v][q] = Data(MemoryAt(LastOf(p, v)), p, q, Scatter, v)

\* What an open update, or accumulation, has received.
SegmentFollows(q, v) ==
  Updating(q, v) => \A p \in getGhostProcIds(q, v) :
    \/ Pending(p, q, Scatter, v)
    \/ \A n \in 1 .. NumGhosts(q, v, p) :
         ghost[q][v][GhostSegmentStart(q, v, p) + n - 1] =
           Data(MemoryAt(LastOf(q, v)), p, q, Scatter, v)[n]

ReceiptFollows(q, v) ==
  Accumulating(q, v) => \A p \in getTargetProcIds(q, v) :
    \/ Pending(p, q, Gather, v)
    \/ buffer[q][v][p] = Data(MemoryAt(LastOf(q, v)), p, q, Gather, v)

UpdateIsOpen(p, v) == Updating(p, v) => InUpdate(p, v)

\* A message m of the k-th operation, sent from p to q by a rank that has run n of
\* them: it has the data of that operation, or that is the last with the vector.
MessageFollows(prog, n, p, q, t, m, k) ==
  /\ m.v = prog[k].v
  /\ IF m.data = <<>> THEN k = Latest(prog, n, m.v)
     ELSE m.data = Data(Meaning(prog)[k], p, q, t, m.v)

\* A posted receive of v is of the last operation with the vector.
ReceiveFollows(prog, n, v, k) == v = prog[k].v /\ k = Latest(prog, n, v)

SendsFollow(p, q, t, c) ==
  \E f : /\ Lists(f, Len(sends[p][q][t]), Between(p, q, t, c, pos[p]))
         /\ \A i \in 1 .. Len(sends[p][q][t]) :
              MessageFollows(program, pos[p], p, q, t, sends[p][q][t][i], f[i])

ReceivesFollow(p, q, t, c) ==
  \E g : /\ Lists(g, Len(receives[q][p][t]), Between(p, q, t, c, pos[q]))
         /\ \A i \in 1 .. Len(receives[q][p][t]) :
              ReceiveFollows(program, pos[q], receives[q][p][t][i], g[i])

QueuesFollow(p, q, t) ==
  \E c \in Nat : /\ c <= pos[p] /\ c <= pos[q]
                 /\ SendsFollow(p, q, t, c) /\ ReceivesFollow(p, q, t, c)

HeapFollows(p, v) ==
  /\ OwnedFollows(p, v) /\ GhostFollows(p, v) /\ BufferFollows(p, v)
  /\ SegmentFollows(p, v) /\ ReceiptFollows(p, v) /\ UpdateIsOpen(p, v)

\* The inductive invariant, for patterns whose ghost sections are in the order of
\* the ranks.
SInv ==
  /\ TInv /\ RanksInOrder
  /\ \A p \in Rank : \A v \in Vec : HeapFollows(p, v)
  /\ \A p, q \in Rank : \A t \in Tag : QueuesFollow(p, q, t)

-----------------------------------------------------------------------------
\* The greatest of some numbers up to n.
LEMMA MaxIs ==
  ASSUME NEW n \in Nat, NEW S \in SUBSET (1 .. n), S # {}
  PROVE  Max(S) \in S /\ \A y \in S : y <= Max(S)
<1> DEFINE R == {n - x : x \in S}
<1>1. R \in SUBSET Nat /\ R # {}
  <2>1. \A x \in S : n - x \in Nat
    OBVIOUS
  <2>2. R \in SUBSET Nat
    BY <2>1
  <2>3. PICK x : x \in S
    OBVIOUS
  <2>4. n - x \in R
    BY <2>3
  <2> HIDE DEF R
  <2>5. QED
    BY <2>2, <2>4
<1>2. \E d \in R : \A e \in R : d <= e
  <2> HIDE DEF R
  <2>1. QED
    BY <1>1, LeastNumber
<1>3. PICK x \in S : \A e \in R : n - x <= e
  BY <1>2
<1>4. \A y \in S : x >= y
  <2> SUFFICES ASSUME NEW y \in S PROVE x >= y
    OBVIOUS
  <2>1. n - x <= n - y
    BY <1>3
  <2>2. QED
    BY <2>1
<1>5. Max(S) = CHOOSE z \in S : \A y \in S : z >= y
  BY DEF Max
<1>6. Max(S) \in S /\ \A y \in S : Max(S) >= y
  BY <1>4, <1>5
<1>7. QED
  BY <1>6

\* The last operation on a vector.
LEMMA LatestOf ==
  ASSUME NEW prog, NEW n \in Nat, NEW v
  PROVE  /\ Latest(prog, n, v) \in 0 .. n
         /\ Latest(prog, n, v) # 0 => prog[Latest(prog, n, v)].v = v
         /\ \A m \in 1 .. n : prog[m].v = v => m <= Latest(prog, n, v)
<1> DEFINE on == {m \in 1 .. n : prog[m].v = v}
<1>1. Latest(prog, n, v) = IF on = {} THEN 0 ELSE Max(on)
  BY DEF Latest
<1>2. on \in SUBSET (1 .. n) /\ \A m \in 1 .. n : m \in on <=> prog[m].v = v
  OBVIOUS
<1> HIDE DEF on
<1>3. CASE on = {}
  BY <1>1, <1>2, <1>3
<1>4. CASE on # {}
  <2>1. Max(on) \in on /\ \A y \in on : y <= Max(on)
    BY <1>2, <1>4, MaxIs
  <2>2. PICK m : m = Max(on)
    OBVIOUS
  <2>3. m \in 1 .. n /\ prog[m].v = v /\ \A y \in 1 .. n : prog[y].v = v => y <= m
    BY <1>2, <2>1, <2>2
  <2>4. Latest(prog, n, v) = m
    BY <1>1, <1>4, <2>2
  <2>5. QED
    BY <2>3, <2>4
<1>5. QED
  BY <1>3, <1>4

\* One more operation is the last on its vector, and no other vector's.
LEMMA LatestNext ==
  ASSUME NEW prog, NEW n \in Nat, NEW v
  PROVE  Latest(prog, n + 1, v) = IF prog[n + 1].v = v THEN n + 1 ELSE Latest(prog, n, v)
<1> DEFINE l == Latest(prog, n, v)
           k == Latest(prog, n + 1, v)
<1>1. /\ l \in 0 .. n /\ (l # 0 => prog[l].v = v)
      /\ \A m \in 1 .. n : prog[m].v = v => m <= l
  BY LatestOf
<1>2. /\ k \in 0 .. n + 1 /\ (k # 0 => prog[k].v = v)
      /\ \A m \in 1 .. n + 1 : prog[m].v = v => m <= k
  <2>1. n + 1 \in Nat
    OBVIOUS
  <2>2. QED
    BY <2>1, LatestOf
<1> HIDE DEF l, k
<1>3. CASE prog[n + 1].v = v
  <2>1. n + 1 <= k
    BY <1>2, <1>3
  <2>2. k = n + 1
    BY <1>2, <2>1
  <2>3. QED
    BY <1>3, <2>2 DEF k
<1>4. CASE prog[n + 1].v # v
  <2>1. k # n + 1
    BY <1>2, <1>4
  <2>2. k \in 0 .. n
    BY <1>2, <2>1
  <2>3. l # 0 => l <= k
    BY <1>1, <1>2
  <2>4. k # 0 => k <= l
    BY <1>1, <1>2, <2>2
  <2>5. k = l
    BY <1>1, <2>2, <2>3, <2>4
  <2>6. QED
    BY <1>4, <2>5 DEF k, l
<1>5. QED
  BY <1>3, <1>4

\* Operations take effect after what they read.
LEMMA BeginsBefore ==
  ASSUME NEW prog \in Programs, NEW n \in 1 .. Len(prog)
  PROVE  /\ BeginOf(prog, n) \in 0 .. n - 1
         /\ prog[n].op = "updateEnd" => BeginOf(prog, n) = Latest(prog, n - 1, prog[n].v)
<1>0. Len(prog) \in Nat /\ n \in Nat /\ n - 1 \in Nat
  BY ProgramAssumption
<1>1. CASE prog[n].op # "updateEnd"
  BY <1>0, <1>1 DEF BeginOf
<1>2. CASE prog[n].op = "updateEnd"
  <2> DEFINE v == prog[n].v
             l == Latest(prog, n - 1, v)
             S == {m \in 1 .. n : prog[m].op = "updateBegin" /\ prog[m].v = v}
  <2>1. l # 0 /\ prog[l].op = "updateBegin"
    BY <1>2, ExchangeAssumption DEF LatestIs
  <2>2. /\ l \in 0 .. n - 1 /\ (l # 0 => prog[l].v = v)
        /\ \A m \in 1 .. n - 1 : prog[m].v = v => m <= l
    BY <1>0, LatestOf
  <2>3. BeginOf(prog, n) = Max(S)
    BY <1>2 DEF BeginOf
  <2>4. S \in SUBSET (1 .. n) /\ l \in S /\ n \notin S
    <3> HIDE DEF l
    <3>1. QED
      BY <1>0, <1>2, <2>1, <2>2
  <2>5. Max(S) \in S /\ \A y \in S : y <= Max(S)
    <3> HIDE DEF S
    <3>1. QED
      BY <1>0, <2>4, MaxIs
  <2>6. Max(S) \in 1 .. n - 1 /\ prog[Max(S)].v = v
    <3>1. Max(S) \in 1 .. n /\ prog[Max(S)].v = v /\ Max(S) # n
      BY <2>4, <2>5
    <3> HIDE DEF S
    <3>2. QED
      BY <1>0, <3>1
  <2> HIDE DEF S, l
  <2>7. Max(S) = l
    <3>1. l <= Max(S) /\ Max(S) <= l
      BY <2>2, <2>4, <2>5, <2>6
    <3>2. QED
      BY <1>0, <2>2, <2>6, <3>1
  <2>8. QED
    BY <1>0, <2>2, <2>3, <2>7 DEF l
<1>3. QED
  BY <1>1, <1>2

-----------------------------------------------------------------------------
\* Meaning is what its equations say: every program runs to its end.
Runs(prog, M, n) ==
  M = [i \in 0 .. n |-> IF i = 0 THEN Blank
                        ELSE After(prog, i, M[i - 1], M[BeginOf(prog, i)])]

LEMMA RunOn ==
  ASSUME NEW prog \in Programs, NEW n \in 0 .. Len(prog) - 1, NEW g, Runs(prog, g, n)
  PROVE  \E h : Runs(prog, h, n + 1)
<1> DEFINE e == After(prog, n + 1, g[n], g[BeginOf(prog, n + 1)])
           h == [i \in 0 .. n + 1 |-> IF i = n + 1 THEN e ELSE g[i]]
<1>0. Len(prog) \in Nat /\ n \in Nat /\ n + 1 \in 1 .. Len(prog)
  BY ProgramAssumption
<1>1. \A i \in 1 .. n + 1 : BeginOf(prog, i) \in 0 .. i - 1
  BY <1>0, BeginsBefore
<1>2. \A i \in 0 .. n : g[i] = IF i = 0 THEN Blank
                               ELSE After(prog, i, g[i - 1], g[BeginOf(prog, i)])
  BY DEF Runs
<1>3. \A i \in 0 .. n : h[i] = g[i]
  BY <1>0
<1>4. h[n + 1] = e
  BY <1>0
<1>5. ASSUME NEW i \in 0 .. n + 1
      PROVE  h[i] = IF i = 0 THEN Blank ELSE After(prog, i, h[i - 1], h[BeginOf(prog, i)])
  <2>1. CASE i = 0
    <3> HIDE DEF h
    <3>1. 0 \in 0 .. n
      BY <1>0
    <3>2. QED
      BY <1>2, <1>3, <2>1, <3>1
  <2>2. CASE i # 0
    <3>1. i \in 1 .. n + 1 /\ i - 1 \in 0 .. n
      BY <1>0, <2>2
    <3>2. BeginOf(prog, i) \in 0 .. n
      <4>1. BeginOf(prog, i) \in 0 .. i - 1
        BY <1>1, <3>1
      <4>2. QED
        BY <1>0, <3>1, <4>1
    <3> HIDE DEF h
    <3>3. h[i - 1] = g[i - 1] /\ h[BeginOf(prog, i)] = g[BeginOf(prog, i)]
      BY <1>3, <3>1, <3>2
    <3>4. CASE i = n + 1
      <4>1. i - 1 = n
        BY <1>0, <3>4
      <4>2. QED
        BY <1>4, <2>2, <3>3, <3>4, <4>1
    <3>5. CASE i # n + 1
      <4>1. i \in 0 .. n
        BY <1>0, <3>1, <3>5
      <4>2. QED
        BY <1>2, <1>3, <2>2, <3>3, <4>1
    <3>6. QED
      BY <3>4, <3>5
  <2>3. QED
    BY <2>1, <2>2
<1>6. h = [i \in 0 .. n + 1 |-> h[i]]
  OBVIOUS
<1> HIDE DEF h
<1>7. Runs(prog, h, n + 1)
  BY <1>5, <1>6 DEF Runs
<1>8. QED
  BY <1>7

LEMMA RunsExist ==
  ASSUME NEW prog \in Programs, NEW n \in 0 .. Len(prog)
  PROVE  \E M : Runs(prog, M, n)
<1> DEFINE bad == {i \in 0 .. Len(prog) : ~\E M : Runs(prog, M, i)}
<1>0. Len(prog) \in Nat
  BY ProgramAssumption
<1>1. SUFFICES ASSUME bad # {} PROVE FALSE
  OBVIOUS
<1>2. PICK i \in bad : \A j \in bad : i <= j
  <2>1. bad \in SUBSET Nat
    BY <1>0
  <2> HIDE DEF bad
  <2>2. QED
    BY <1>1, <2>1, LeastNumber
<1>3. CASE i = 0
  <2> DEFINE M == [k \in 0 .. 0 |-> Blank]
  <2>1. M = [k \in 0 .. 0 |-> IF k = 0 THEN Blank
                              ELSE After(prog, k, M[k - 1], M[BeginOf(prog, k)])]
    OBVIOUS
  <2> HIDE DEF M
  <2>2. Runs(prog, M, 0)
    BY <2>1 DEF Runs
  <2>3. QED
    BY <1>2, <1>3, <2>2
<1>4. CASE i # 0
  <2>1. i \in 0 .. Len(prog) /\ i - 1 \in 0 .. Len(prog) - 1 /\ (i - 1) + 1 = i
    BY <1>0, <1>2, <1>4
  <2>2. i - 1 \notin bad
    BY <1>2, <2>1
  <2>3. PICK g : Runs(prog, g, i - 1)
    BY <1>0, <2>1, <2>2
  <2>4. \E h : Runs(prog, h, (i - 1) + 1)
    BY <2>1, <2>3, RunOn
  <2>5. QED
    BY <1>2, <2>1, <2>4
<1>5. QED
  BY <1>3, <1>4

LEMMA MeaningIs ==
  ASSUME NEW prog \in Programs
  PROVE  /\ Meaning(prog)[0] = Blank
         /\ \A n \in 1 .. Len(prog) :
              Meaning(prog)[n] =
                After(prog, n, Meaning(prog)[n - 1], Meaning(prog)[BeginOf(prog, n)])
<1> DEFINE runs(M) == M = [n \in 0 .. Len(prog) |->
                             IF n = 0 THEN Blank
                             ELSE After(prog, n, M[n - 1], M[BeginOf(prog, n)])]
           F == CHOOSE M : runs(M)
<1>0. Len(prog) \in Nat
  BY ProgramAssumption
<1>1. Meaning(prog) = F
  BY DEF Meaning
<1>2. \E M : runs(M)
  <2>1. \E M : Runs(prog, M, Len(prog))
    BY <1>0, RunsExist
  <2>2. QED
    BY <2>1 DEF Runs
<1>3. runs(F)
  <2> HIDE DEF runs
  <2>1. QED
    BY <1>2
<1>4. Runs(prog, Meaning(prog), Len(prog))
  <2> HIDE DEF F
  <2>1. QED
    BY <1>1, <1>3 DEF Runs
<1>5. QED
  BY <1>0, <1>4 DEF Runs

\* What one operation does to the sections of a vector.
LEMMA AfterIs ==
  ASSUME NEW prog \in Programs, NEW n \in 1 .. Len(prog), NEW p \in Rank, NEW v \in Vec
  PROVE  /\ Meaning(prog)[n].owned[p][v] = AfterOwned(prog, n, Meaning(prog)[n - 1], p, v)
         /\ Meaning(prog)[n].ghost[p][v] =
              AfterGhost(prog, n, Meaning(prog)[n - 1], Meaning(prog)[BeginOf(prog, n)], p, v)
<1> DEFINE M == Meaning(prog)[n - 1]
           B == Meaning(prog)[BeginOf(prog, n)]
<1>1. Meaning(prog)[n] = After(prog, n, M, B)
  BY MeaningIs
<1> HIDE DEF M, B
<1>2. /\ After(prog, n, M, B).owned[p][v] = AfterOwned(prog, n, M, p, v)
      /\ After(prog, n, M, B).ghost[p][v] = AfterGhost(prog, n, M, B, p, v)
  BY DEF After
<1>3. QED
  BY <1>1, <1>2 DEF M, B

\* An operation on another vector, or of another kind, leaves the sections alone.
LEMMA Untouched ==
  ASSUME NEW prog \in Programs, NEW n \in 1 .. Len(prog), NEW p \in Rank, NEW v \in Vec
  PROVE  /\ prog[n].v # v \/ prog[n].op \notin {"compute", "accumulateEnd"} =>
              Meaning(prog)[n].owned[p][v] = Meaning(prog)[n - 1].owned[p][v]
         /\ prog[n].v # v \/ prog[n].op \notin {"compute", "zeroOutGhosts", "updateEnd"} =>
              Meaning(prog)[n].ghost[p][v] = Meaning(prog)[n - 1].ghost[p][v]
<1> DEFINE M == Meaning(prog)[n - 1]
           B == Meaning(prog)[BeginOf(prog, n)]
<1>1. /\ Meaning(prog)[n].owned[p][v] = AfterOwned(prog, n, M, p, v)
      /\ Meaning(prog)[n].ghost[p][v] = AfterGhost(prog, n, M, B, p, v)
  BY AfterIs
<1>2. \A op : prog[n] = [op |-> op, v |-> v] => prog[n].op = op /\ prog[n].v = v
  OBVIOUS
<1> HIDE DEF M, B
<1>3. prog[n].v # v \/ prog[n].op \notin {"compute", "accumulateEnd"} =>
        AfterOwned(prog, n, M, p, v) = M.owned[p][v]
  BY <1>2 DEF AfterOwned
<1>4. prog[n].v # v \/ prog[n].op \notin {"compute", "zeroOutGhosts", "updateEnd"} =>
        AfterGhost(prog, n, M, B, p, v) = M.ghost[p][v]
  BY <1>2 DEF AfterGhost
<1>5. QED
  BY <1>1, <1>3, <1>4 DEF M

\* Since the last operation on a vector, nothing has touched it.
LEMMA QuietSince ==
  ASSUME NEW prog \in Programs, NEW n \in 0 .. Len(prog), NEW p \in Rank, NEW v \in Vec
  PROVE  /\ Meaning(prog)[n].owned[p][v] = Meaning(prog)[Latest(prog, n, v)].owned[p][v]
         /\ Meaning(prog)[n].ghost[p][v] = Meaning(prog)[Latest(prog, n, v)].ghost[p][v]
<1> DEFINE quiet(i) ==
             /\ Meaning(prog)[i].owned[p][v] = Meaning(prog)[Latest(prog, i, v)].owned[p][v]
             /\ Meaning(prog)[i].ghost[p][v] = Meaning(prog)[Latest(prog, i, v)].ghost[p][v]
           bad == {i \in 0 .. Len(prog) : ~quiet(i)}
<1>0. Len(prog) \in Nat
  BY ProgramAssumption
<1>1. SUFFICES ASSUME bad # {} PROVE FALSE
  OBVIOUS
<1>2. PICK i \in bad : \A j \in bad : i <= j
  <2>1. bad \in SUBSET Nat
    BY <1>0
  <2> HIDE DEF bad
  <2>2. QED
    BY <1>1, <2>1, LeastNumber
<1>3. i \in 0 .. Len(prog) /\ ~quiet(i)
  BY <1>2
<1>4. CASE i = 0
  <2>1. Latest(prog, 0, v) = 0
    <3>1. Latest(prog, 0, v) \in 0 .. 0
      BY LatestOf
    <3>2. QED
      BY <3>1
  <2>2. QED
    BY <1>3, <1>4, <2>1
<1>5. CASE i # 0
  <2>1. i \in 1 .. Len(prog) /\ i - 1 \in 0 .. Len(prog) /\ i - 1 \in Nat /\ (i - 1) + 1 = i
    BY <1>0, <1>3, <1>5
  <2>2. i - 1 \notin bad
    BY <1>2, <2>1
  <2>3. quiet(i - 1)
    BY <2>1, <2>2
  <2>4. Latest(prog, (i - 1) + 1, v) =
          IF prog[(i - 1) + 1].v = v THEN (i - 1) + 1 ELSE Latest(prog, i - 1, v)
    BY <2>1, LatestNext
  <2>5. Latest(prog, i, v) = IF prog[i].v = v THEN i ELSE Latest(prog, i - 1, v)
    BY <2>1, <2>4
  <2>6. prog[i].v # v
    BY <1>3, <2>5
  <2>7. /\ Meaning(prog)[i].owned[p][v] = Meaning(prog)[i - 1].owned[p][v]
        /\ Meaning(prog)[i].ghost[p][v] = Meaning(prog)[i - 1].ghost[p][v]
    BY <2>1, <2>6, Untouched
  <2>8. quiet(i)
    BY <2>3, <2>5, <2>6, <2>7
  <2>9. QED
    BY <1>3, <2>8
<1>6. QED
  BY <1>4, <1>5

-----------------------------------------------------------------------------
\* Where a rank is after a step, and what that says of its vectors.
LEMMA StepIs ==
  ASSUME QueuesOK, NEW p \in Rank, NEW op, NEW v \in Vec, At(p, op, v), Advance(p)
  PROVE  /\ program' = program /\ program \in Programs /\ pos[p] + 1 \in 1 .. Len(program)
         /\ pos[p] \in Nat /\ pos[p] \in 0 .. Len(program)
         /\ program[pos[p] + 1].op = op /\ program[pos[p] + 1].v = v
         /\ program[pos[p] + 1] = [op |-> op, v |-> v]
         /\ op = "updateEnd" <=> Updating(p, v)
         /\ op = "accumulateEnd" <=> Accumulating(p, v)
         /\ \A a \in Rank : pos'[a] = IF a = p THEN pos[p] + 1 ELSE pos[a]
<1> DEFINE n == pos[p]
<1>1. /\ n + 1 \in 1 .. Len(program) /\ program[n + 1] = [op |-> op, v |-> v]
      /\ program' = program /\ program \in Programs
      /\ \A a \in Rank : pos'[a] = IF a = p THEN n + 1 ELSE pos[a]
  BY PositionIs
<1>2. n \in Nat /\ \A a \in Rank : pos[a] \in Nat
  BY DEF QueuesOK
<1>3. program[n + 1].op = op /\ program[n + 1].v = v
  BY <1>1
<1>4. n \in 0 .. Len(program)
  BY <1>1, <1>2, ProgramAssumption
<1> HIDE DEF n
<1>5. /\ op = "updateEnd" <=> LatestIs(program, (n + 1) - 1, "updateBegin", v)
      /\ op = "accumulateEnd" <=> LatestIs(program, (n + 1) - 1, "accumulateBegin", v)
  BY <1>1, <1>3, ExchangeAssumption
<1>6. (n + 1) - 1 = n
  BY <1>2
<1>7. /\ op = "updateEnd" <=> Updating(p, v)
      /\ op = "accumulateEnd" <=> Accumulating(p, v)
  BY <1>5, <1>6 DEF Updating, Accumulating, n
<1>8. QED
  BY <1>1, <1>2, <1>3, <1>4, <1>7 DEF n

LEMMA StepLast ==
  ASSUME QueuesOK, NEW p \in Rank, NEW op, NEW v \in Vec, At(p, op, v), Advance(p),
         NEW a \in Rank, NEW w \in Vec
  PROVE  Latest(program, pos'[a], w) = IF a = p /\ w = v THEN pos[p] + 1 ELSE LastOf(a, w)
<1> DEFINE n == pos[p]
<1>1. n \in Nat /\ program[n + 1].v = v /\ pos'[a] = IF a = p THEN n + 1 ELSE pos[a]
  BY StepIs
<1> HIDE DEF n
<1>2. CASE a = p
  <2>1. Latest(program, n + 1, w) =
          IF program[n + 1].v = w THEN n + 1 ELSE Latest(program, n, w)
    BY <1>1, LatestNext
  <2>2. LastOf(a, w) = Latest(program, n, w) /\ pos'[a] = n + 1
    BY <1>1, <1>2 DEF LastOf, n
  <2>3. QED
    BY <1>1, <1>2, <2>1, <2>2 DEF n
<1>3. CASE a # p
  BY <1>1, <1>3 DEF LastOf
<1>4. QED
  BY <1>2, <1>3

\* A vector of a rank in the next state: the program's memory after pos'[a]
\* operations, the last of them on w being the l-th.
LEMMA HeapNext ==
  ASSUME program' = program, NEW a \in Rank, NEW w \in Vec,
         NEW n, n = pos'[a], NEW l, l = Latest(program, n, w), NEW M, M = Meaning(program),
         owned'[a][w] = M[n].owned[a][w],
         ~(l # 0 /\ program[l].op = "updateBegin") => ghost'[a][w] = M[n].ghost[a][w],
         l # 0 /\ program[l].op = "updateBegin" =>
           /\ InUpdate(a, w)'
           /\ \A q \in getTargetProcIds(a, w) : buffer'[a][w][q] = Data(M[l], a, q, Scatter, w)
           /\ \A p \in getGhostProcIds(a, w) :
                \/ Pending(p, a, Scatter, w)'
                \/ \A k \in 1 .. NumGhosts(a, w, p) :
                     ghost'[a][w][GhostSegmentStart(a, w, p) + k - 1] =
                       Data(M[l], p, a, Scatter, w)[k],
         l # 0 /\ program[l].op = "accumulateBegin" =>
           \A p \in getTargetProcIds(a, w) :
             \/ Pending(p, a, Gather, w)'
             \/ buffer'[a][w][p] = Data(M[l], p, a, Gather, w)
  PROVE  HeapFollows(a, w)'
<1>1. /\ Updating(a, w)' <=> l # 0 /\ program[l].op = "updateBegin"
      /\ Accumulating(a, w)' <=> l # 0 /\ program[l].op = "accumulateBegin"
      /\ LastOf(a, w)' = l
  BY DEF Updating, Accumulating, LatestIs, LastOf
<1>3. OwnedFollows(a, w)'
  BY DEF OwnedFollows, MemoryAt
<1>4. GhostFollows(a, w)'
  BY <1>1 DEF GhostFollows, MemoryAt
<1>5. BufferFollows(a, w)'
  BY <1>1 DEF BufferFollows, MemoryAt, LastOf
<1>6. SegmentFollows(a, w)'
  BY <1>1 DEF SegmentFollows, MemoryAt, LastOf
<1>7. ReceiptFollows(a, w)'
  BY <1>1 DEF ReceiptFollows, MemoryAt, LastOf
<1>8. UpdateIsOpen(a, w)'
  BY <1>1 DEF UpdateIsOpen
<1>9. QED
  BY <1>3, <1>4, <1>5, <1>6, <1>7, <1>8 DEF HeapFollows

\* A vector of a rank in this state.
LEMMA HeapIs ==
  ASSUME NEW a \in Rank, NEW w \in Vec, HeapFollows(a, w),
         NEW n, n = pos[a], NEW l, l = LastOf(a, w), NEW M, M = Meaning(program)
  PROVE  /\ Updating(a, w) <=> l # 0 /\ program[l].op = "updateBegin"
         /\ Accumulating(a, w) <=> l # 0 /\ program[l].op = "accumulateBegin"
         /\ owned[a][w] = M[n].owned[a][w]
         /\ ~Updating(a, w) => ghost[a][w] = M[n].ghost[a][w]
         /\ Updating(a, w) =>
              /\ InUpdate(a, w)
              /\ \A q \in getTargetProcIds(a, w) : buffer[a][w][q] = Data(M[l], a, q, Scatter, w)
              /\ \A p \in getGhostProcIds(a, w) :
                   \/ Pending(p, a, Scatter, w)
                   \/ \A k \in 1 .. NumGhosts(a, w, p) :
                        ghost[a][w][GhostSegmentStart(a, w, p) + k - 1] =
                          Data(M[l], p, a, Scatter, w)[k]
         /\ Accumulating(a, w) =>
              \A p \in getTargetProcIds(a, w) :
                \/ Pending(p, a, Gather, w)
                \/ buffer[a][w][p] = Data(M[l], p, a, Gather, w)
<1>1. /\ Updating(a, w) <=> l # 0 /\ program[l].op = "updateBegin"
      /\ Accumulating(a, w) <=> l # 0 /\ program[l].op = "accumulateBegin"
  BY DEF Updating, Accumulating, LatestIs, LastOf
<1>2. owned[a][w] = M[n].owned[a][w]
  BY DEF HeapFollows, OwnedFollows, MemoryAt
<1>3. ~Updating(a, w) => ghost[a][w] = M[n].ghost[a][w]
  BY DEF HeapFollows, GhostFollows, MemoryAt
<1>4. Updating(a, w) =>
        \A q \in getTargetProcIds(a, w) : buffer[a][w][q] = Data(M[l], a, q, Scatter, w)
  BY DEF HeapFollows, BufferFollows, MemoryAt
<1>5. Updating(a, w) =>
        \A p \in getGhostProcIds(a, w) :
          \/ Pending(p, a, Scatter, w)
          \/ \A k \in 1 .. NumGhosts(a, w, p) :
               ghost[a][w][GhostSegmentStart(a, w, p) + k - 1] = Data(M[l], p, a, Scatter, w)[k]
  BY DEF HeapFollows, SegmentFollows, MemoryAt
<1>6. Accumulating(a, w) =>
        \A p \in getTargetProcIds(a, w) :
          \/ Pending(p, a, Gather, w)
          \/ buffer[a][w][p] = Data(M[l], p, a, Gather, w)
  BY DEF HeapFollows, ReceiptFollows, MemoryAt
<1>7. Updating(a, w) => InUpdate(a, w)
  BY DEF HeapFollows, UpdateIsOpen
<1>8. QED
  BY <1>1, <1>2, <1>3, <1>4, <1>5, <1>6, <1>7

\* A step that does not touch a vector of a rank, nor takes away its receives.
LEMMA HeapSame ==
  ASSUME program' = program, NEW a \in Rank, NEW w \in Vec, HeapFollows(a, w),
         owned'[a][w] = owned[a][w], ghost'[a][w] = ghost[a][w], buffer'[a][w] = buffer[a][w],
         Latest(program, pos'[a], w) = LastOf(a, w),
         Meaning(program)[pos'[a]].owned[a][w] = Meaning(program)[pos[a]].owned[a][w],
         Meaning(program)[pos'[a]].ghost[a][w] = Meaning(program)[pos[a]].ghost[a][w],
         \A p \in Rank : \A t \in Tag : Pending(p, a, t, w) => Pending(p, a, t, w)',
         InUpdate(a, w) => InUpdate(a, w)'
  PROVE  HeapFollows(a, w)'
<1>1. PICK n : n = pos[a]
  OBVIOUS
<1>2. PICK n2 : n2 = pos'[a]
  OBVIOUS
<1>3. PICK l : l = LastOf(a, w)
  OBVIOUS
<1>4. PICK M : M = Meaning(program)
  OBVIOUS
<1>5. /\ Updating(a, w) <=> l # 0 /\ program[l].op = "updateBegin"
      /\ Accumulating(a, w) <=> l # 0 /\ program[l].op = "accumulateBegin"
      /\ owned[a][w] = M[n].owned[a][w]
      /\ ~Updating(a, w) => ghost[a][w] = M[n].ghost[a][w]
  BY <1>1, <1>3, <1>4, HeapIs
<1>6. Updating(a, w) =>
        /\ InUpdate(a, w)
        /\ \A q \in getTargetProcIds(a, w) : buffer[a][w][q] = Data(M[l], a, q, Scatter, w)
        /\ \A p \in getGhostProcIds(a, w) :
             \/ Pending(p, a, Scatter, w)
             \/ \A k \in 1 .. NumGhosts(a, w, p) :
                  ghost[a][w][GhostSegmentStart(a, w, p) + k - 1] =
                    Data(M[l], p, a, Scatter, w)[k]
  BY <1>1, <1>3, <1>4, HeapIs
<1>7. Accumulating(a, w) =>
        \A p \in getTargetProcIds(a, w) :
          \/ Pending(p, a, Gather, w)
          \/ buffer[a][w][p] = Data(M[l], p, a, Gather, w)
  BY <1>1, <1>3, <1>4, HeapIs
<1>8. l = Latest(program, n2, w)
  BY <1>2, <1>3
<1>9. /\ owned'[a][w] = M[n2].owned[a][w]
      /\ ~(l # 0 /\ program[l].op = "updateBegin") => ghost'[a][w] = M[n2].ghost[a][w]
  BY <1>1, <1>2, <1>4, <1>5
<1>10. Scatter \in Tag /\ Gather \in Tag
  BY DEF Tag
<1>11. getGhostProcIds(a, w) \subseteq Rank /\ getTargetProcIds(a, w) \subseteq Rank
  BY GhostsCounted, TargetsFinite
<1>12. l # 0 /\ program[l].op = "updateBegin" =>
         /\ InUpdate(a, w)'
         /\ \A q \in getTargetProcIds(a, w) : buffer'[a][w][q] = Data(M[l], a, q, Scatter, w)
         /\ \A p \in getGhostProcIds(a, w) :
              \/ Pending(p, a, Scatter, w)'
              \/ \A k \in 1 .. NumGhosts(a, w, p) :
                   ghost'[a][w][GhostSegmentStart(a, w, p) + k - 1] =
                     Data(M[l], p, a, Scatter, w)[k]
  BY <1>5, <1>6, <1>10, <1>11
<1>13. l # 0 /\ program[l].op = "accumulateBegin" =>
         \A p \in getTargetProcIds(a, w) :
           \/ Pending(p, a, Gather, w)'
           \/ buffer'[a][w][p] = Data(M[l], p, a, Gather, w)
  BY <1>5, <1>7, <1>10, <1>11
<1>14. QED
  BY <1>2, <1>4, <1>8, <1>9, <1>12, <1>13, HeapNext

-----------------------------------------------------------------------------
\* The place of a message in the program.
LEMMA PlaceOf ==
  ASSUME program \in Programs, NEW p, NEW q, NEW t, NEW c, NEW n, NEW k, NEW f,
         Lists(f, k, Between(p, q, t, c, n)), NEW i \in 1 .. k
  PROVE  /\ f[i] \in 1 .. Len(program) /\ f[i] \in Nat /\ f[i] # 0
         /\ f[i] \in Exchanges(p, q, t) /\ c < f[i] /\ f[i] <= n
         /\ program[f[i]].op = BeginOp(t) /\ program[f[i]].v \in Vec
         /\ Exchanged(p, q, t, program[f[i]].v)
<1>1. f[i] \in Between(p, q, t, c, n)
  BY DEF Lists
<1>2. f[i] \in Exchanges(p, q, t) /\ c < f[i] /\ f[i] <= n
  BY <1>1 DEF Between
<1>3. PICK w \in Vec : program[f[i]] = [op |-> BeginOp(t), v |-> w] /\ Exchanged(p, q, t, w)
  BY <1>2 DEF Exchanges
<1>4. program[f[i]].op = BeginOp(t) /\ program[f[i]].v = w
  BY <1>3
<1>5. Len(program) \in Nat
  BY ProgramAssumption
<1>6. f[i] \in 1 .. Len(program)
  BY <1>2 DEF Exchanges
<1>7. QED
  BY <1>2, <1>3, <1>4, <1>5, <1>6

\* SendsFollow and ReceivesFollow in the next state.
LEMMA SendsNext ==
  ASSUME program' = program, NEW a, NEW b, NEW u, NEW c, NEW n, n = pos'[a],
         NEW s, s = sends'[a][b][u], NEW f, Lists(f, Len(s), Between(a, b, u, c, n)),
         \A i \in 1 .. Len(s) : MessageFollows(program, n, a, b, u, s[i], f[i])
  PROVE  SendsFollow(a, b, u, c)'
<1>1. Between(a, b, u, c, n) = Between(a, b, u, c, pos[a])'
  BY DEF Between, Exchanges
<1>2. QED
  BY <1>1 DEF SendsFollow

LEMMA ReceivesNext ==
  ASSUME program' = program, NEW a, NEW b, NEW u, NEW c, NEW n, n = pos'[b],
         NEW r, r = receives'[b][a][u], NEW g, Lists(g, Len(r), Between(a, b, u, c, n)),
         \A i \in 1 .. Len(r) : ReceiveFollows(program, n, r[i], g[i])
  PROVE  ReceivesFollow(a, b, u, c)'
<1>1. Between(a, b, u, c, n) = Between(a, b, u, c, pos[b])'
  BY DEF Between, Exchanges
<1>2. QED
  BY <1>1 DEF ReceivesFollow

\* What a rank still has to hand over, or to get, is of its last operation on the
\* vector: an operation may follow only when there is no such thing.
LEMMA NothingLeft ==
  ASSUME SInv, NEW p \in Rank, NEW op, NEW v \in Vec, At(p, op, v), Advance(p),
         op = "updateEnd" => Sent(p, Scatter, v) /\ Delivered(p, Scatter, v),
         op = "accumulateEnd" => Sent(p, Gather, v) /\ Delivered(p, Gather, v)
  PROVE  \A b \in Rank : \A u \in Tag :
           /\ \A i \in 1 .. Len(sends[p][b][u]) :
                sends[p][b][u][i].v = v => sends[p][b][u][i].data # <<>>
           /\ \A i \in 1 .. Len(receives[p][b][u]) : receives[p][b][u][i] # v
<1> SUFFICES ASSUME NEW b \in Rank, NEW u \in Tag
             PROVE  /\ \A i \in 1 .. Len(sends[p][b][u]) :
                         sends[p][b][u][i].v = v => sends[p][b][u][i].data # <<>>
                    /\ \A i \in 1 .. Len(receives[p][b][u]) : receives[p][b][u][i] # v
  OBVIOUS
<1> DEFINE s == sends[p][b][u]
           r == receives[p][b][u]
<1>1. QueuesOK /\ program \in Programs /\ IsQueue(s) /\ r \in Seq(Vec)
  BY DEF SInv, TInv, IInv, QueuesOK
<1>2. /\ op = "updateEnd" <=> Updating(p, v)
      /\ op = "accumulateEnd" <=> Accumulating(p, v)
  BY <1>1, StepIs
<1>3. DOMAIN s = 1 .. Len(s) /\ DOMAIN r = 1 .. Len(r)
  <2> HIDE DEF s, r
  <2>1. QED
    BY <1>1 DEF IsQueue
<1>4. \/ u = Scatter /\ BeginOp(u) = "updateBegin"
      \/ u = Gather /\ BeginOp(u) = "accumulateBegin"
  BY DEF BeginOp, Tag, Scatter, Gather
<1>5. ASSUME LastOf(p, v) # 0, program[LastOf(p, v)].op = BeginOp(u)
      PROVE  Sent(p, u, v) /\ Delivered(p, u, v)
  BY <1>2, <1>4, <1>5 DEF Updating, Accumulating, LatestIs, LastOf
<1>6. ASSUME NEW i \in 1 .. Len(s), s[i].v = v, s[i].data = <<>>
      PROVE  FALSE
  <2>1. PICK c \in Nat : SendsFollow(p, b, u, c)
    BY DEF SInv, QueuesFollow
  <2>2. PICK f : /\ Lists(f, Len(s), Between(p, b, u, c, pos[p]))
                 /\ \A j \in 1 .. Len(s) :
                      MessageFollows(program, pos[p], p, b, u, s[j], f[j])
    BY <2>1 DEF SendsFollow
  <2> HIDE DEF s
  <2>3. f[i] # 0 /\ program[f[i]].op = BeginOp(u)
    BY <1>1, <2>2, PlaceOf
  <2>4. f[i] = LastOf(p, v)
    BY <1>6, <2>2 DEF MessageFollows, LastOf
  <2>5. Sent(p, u, v)
    BY <1>5, <2>3, <2>4
  <2>6. s[i].data # <<>>
    BY <1>3, <1>6, <2>5 DEF Sent, s
  <2>7. QED
    BY <1>6, <2>6
<1>7. ASSUME NEW i \in 1 .. Len(r), r[i] = v
      PROVE  FALSE
  <2>1. PICK c \in Nat : ReceivesFollow(b, p, u, c)
    BY DEF SInv, QueuesFollow
  <2>2. PICK g : /\ Lists(g, Len(r), Between(b, p, u, c, pos[p]))
                 /\ \A j \in 1 .. Len(r) : ReceiveFollows(program, pos[p], r[j], g[j])
    BY <2>1 DEF ReceivesFollow
  <2> HIDE DEF r
  <2>3. g[i] # 0 /\ program[g[i]].op = BeginOp(u)
    BY <1>1, <2>2, PlaceOf
  <2>4. g[i] = LastOf(p, v)
    BY <1>7, <2>2 DEF ReceiveFollows, LastOf
  <2>5. Delivered(p, u, v)
    BY <1>5, <2>3, <2>4
  <2>6. r[i] # v
    BY <1>3, <1>7, <2>5 DEF Delivered, r
  <2>7. QED
    BY <1>7, <2>6
<1>8. QED
  BY <1>6, <1>7

-----------------------------------------------------------------------------
\* The sends of a rank follow the program through an operation of some rank.
LEMMA SendsStep ==
  ASSUME SInv, NEW p \in Rank, NEW op, NEW v \in Vec, At(p, op, v), Advance(p),
         NEW a \in Rank, NEW b \in Rank, NEW u \in Tag,
         \A i \in 1 .. Len(sends[p][b][u]) :
           sends[p][b][u][i].v = v => sends[p][b][u][i].data # <<>>,
         sends'[a][b][u] = IF a = p /\ pos[p] + 1 \in Exchanges(a, b, u)
                           THEN Append(sends[a][b][u], [v |-> v, data |-> <<>>])
                           ELSE sends[a][b][u],
         NEW c \in Nat, c <= pos[a], SendsFollow(a, b, u, c)
  PROVE  SendsFollow(a, b, u, c)'
<1> DEFINE s == sends[a][b][u]
           n == pos[a]
           x == [v |-> v, data |-> <<>>]
<1>1. QueuesOK /\ IsQueue(s) /\ n \in Nat /\ Len(s) \in Nat
  <2>1. QueuesOK /\ IsQueue(s) /\ n \in Nat
    BY DEF SInv, TInv, IInv, QueuesOK
  <2>2. QED
    BY <2>1 DEF IsQueue
<1>0. program' = program
  BY <1>1, StepIs
<1>2. /\ program' = program /\ program[pos[p] + 1].v = v
      /\ pos'[a] = IF a = p THEN pos[p] + 1 ELSE pos[a]
      /\ \A w \in Vec :
           Latest(program, pos'[a], w) = IF a = p /\ w = v THEN pos[p] + 1 ELSE LastOf(a, w)
  <2> HIDE DEF n
  <2>1. /\ program' = program /\ program[pos[p] + 1].v = v
        /\ \A d \in Rank : pos'[d] = IF d = p THEN pos[p] + 1 ELSE pos[d]
    BY <1>1, StepIs
  <2>2. \A d \in Rank : \A w \in Vec :
          Latest(program, pos'[d], w) = IF d = p /\ w = v THEN pos[p] + 1 ELSE LastOf(d, w)
    BY <1>1, StepLast
  <2>3. QED
    BY <2>1, <2>2
<1>3. PICK f : /\ Lists(f, Len(s), Between(a, b, u, c, n))
               /\ \A i \in 1 .. Len(s) : MessageFollows(program, n, a, b, u, s[i], f[i])
  BY DEF SendsFollow
<1>4. \A i \in 1 .. Len(s) : s[i].v \in Vec
  BY <1>1 DEF IsQueue
<1>5. PICK k : k = pos'[a]
  OBVIOUS
<1>6. a = p => \A i \in 1 .. Len(s) : s[i].v = v => s[i].data # <<>>
  OBVIOUS
<1>7. PICK z : z = sends'[a][b][u]
  OBVIOUS
<1> HIDE DEF s
<1>8. \A i \in 1 .. Len(s) : MessageFollows(program, k, a, b, u, s[i], f[i])
  <2> SUFFICES ASSUME NEW i \in 1 .. Len(s)
               PROVE  MessageFollows(program, k, a, b, u, s[i], f[i])
    OBVIOUS
  <2>1. MessageFollows(program, n, a, b, u, s[i], f[i])
    BY <1>3
  <2>2. s[i].data = <<>> => Latest(program, k, s[i].v) = Latest(program, n, s[i].v)
    BY <1>2, <1>4, <1>5, <1>6 DEF LastOf
  <2>3. QED
    BY <2>1, <2>2 DEF MessageFollows
<1>9. CASE ~(a = p /\ pos[p] + 1 \in Exchanges(a, b, u))
  <2>1. z = s
    BY <1>7, <1>9 DEF s
  <2>2. Between(a, b, u, c, k) = Between(a, b, u, c, n)
    <3>1. CASE a = p
      <4>1. Between(a, b, u, c, n + 1) =
              Between(a, b, u, c, n) \cup ({n + 1} \cap Exchanges(a, b, u))
        BY <1>1, BetweenGrows
      <4>2. k = n + 1 /\ n + 1 \notin Exchanges(a, b, u)
        BY <1>2, <1>5, <1>9, <3>1
      <4>3. QED
        BY <4>1, <4>2
    <3>2. CASE a # p
      BY <1>2, <1>5, <3>2
    <3>3. QED
      BY <3>1, <3>2
  <2> HIDE DEF n
  <2>3. Lists(f, Len(z), Between(a, b, u, c, k))
    BY <1>3, <2>1, <2>2
  <2>4. QED
    BY <1>0, <1>5, <1>7, <1>8, <2>1, <2>3, SendsNext
<1>10. CASE a = p /\ pos[p] + 1 \in Exchanges(a, b, u)
  <2> DEFINE m == Len(s)
             S == Between(a, b, u, c, n)
             g == [i \in 1 .. m + 1 |-> IF i = m + 1 THEN n + 1 ELSE f[i]]
  <2>1. z = Append(s, x) /\ k = n + 1 /\ n + 1 \in Exchanges(a, b, u)
    BY <1>2, <1>5, <1>7, <1>10 DEF s
  <2> HIDE DEF x
  <2>2. /\ m \in Nat /\ Len(z) = m + 1 /\ z[m + 1] = x
        /\ \A i \in 1 .. m : z[i] = s[i]
    BY <1>1, <2>1, QueueLonger
  <2>3. /\ S \in SUBSET Nat /\ \A y \in S : y < n + 1
        /\ Between(a, b, u, c, n + 1) = S \cup ({n + 1} \cap Exchanges(a, b, u))
    <3>1. c \in Nat /\ n \in Nat /\ c <= n
      BY <1>1
    <3> HIDE DEF n
    <3>2. QED
      BY <3>1, BetweenGrows
  <2>4. Between(a, b, u, c, k) = S \cup {n + 1}
    BY <2>1, <2>3
  <2>5. Lists(g, m + 1, S \cup {n + 1})
    <3>1. Lists(f, m, S) /\ n + 1 \in Nat
      BY <1>1, <1>3
    <3> HIDE DEF m, S, n
    <3>2. QED
      BY <2>2, <2>3, <3>1, ListGrows
  <2>6. g[m + 1] = n + 1 /\ \A i \in 1 .. m : g[i] = f[i]
    <3> HIDE DEF m
    <3>1. QED
      BY <2>2
  <2> HIDE DEF g
  <2>7. x.v = v /\ x.data = <<>>
    BY DEF x
  <2>8. Latest(program, k, v) = n + 1 /\ program[n + 1].v = v
    BY <1>2, <1>5, <1>10
  <2> HIDE DEF m, n, S
  <2>9. ASSUME NEW i \in 1 .. Len(z)
        PROVE  MessageFollows(program, k, a, b, u, z[i], g[i])
    <3>1. i = m + 1 \/ i \in 1 .. m
      BY <2>2
    <3>2. CASE i = m + 1
      BY <2>2, <2>6, <2>7, <2>8, <3>2 DEF MessageFollows
    <3>3. CASE i \in 1 .. m
      <4>1. z[i] = s[i] /\ g[i] = f[i]
        BY <2>2, <2>6, <3>3
      <4>2. QED
        BY <1>8, <3>3, <4>1 DEF m
    <3>4. QED
      BY <3>1, <3>2, <3>3
  <2>10. Lists(g, Len(z), Between(a, b, u, c, k))
    BY <2>2, <2>4, <2>5
  <2>11. QED
    BY <1>0, <1>5, <1>7, <2>9, <2>10, SendsNext
<1>11. QED
  BY <1>9, <1>10

\* So do the receives.
LEMMA ReceivesStep ==
  ASSUME SInv, NEW p \in Rank, NEW op, NEW v \in Vec, At(p, op, v), Advance(p),
         NEW a \in Rank, NEW b \in Rank, NEW u \in Tag,
         \A i \in 1 .. Len(receives[p][a][u]) : receives[p][a][u][i] # v,
         receives'[b][a][u] = IF b = p /\ pos[p] + 1 \in Exchanges(a, b, u)
                              THEN Append(receives[b][a][u], v) ELSE receives[b][a][u],
         NEW c \in Nat, c <= pos[b], ReceivesFollow(a, b, u, c)
  PROVE  ReceivesFollow(a, b, u, c)'
<1> DEFINE r == receives[b][a][u]
           n == pos[b]
<1>1. QueuesOK /\ r \in Seq(Vec) /\ n \in Nat /\ Len(r) \in Nat
  <2>1. QueuesOK /\ r \in Seq(Vec) /\ n \in Nat
    BY DEF SInv, TInv, IInv, QueuesOK
  <2> HIDE DEF r
  <2>2. QED
    BY <2>1
<1>0. program' = program
  BY <1>1, StepIs
<1>2. /\ program' = program /\ program[pos[p] + 1].v = v
      /\ pos'[b] = IF b = p THEN pos[p] + 1 ELSE pos[b]
      /\ \A w \in Vec :
           Latest(program, pos'[b], w) = IF b = p /\ w = v THEN pos[p] + 1 ELSE LastOf(b, w)
  <2> HIDE DEF n
  <2>1. /\ program' = program /\ program[pos[p] + 1].v = v
        /\ \A d \in Rank : pos'[d] = IF d = p THEN pos[p] + 1 ELSE pos[d]
    BY <1>1, StepIs
  <2>2. \A d \in Rank : \A w \in Vec :
          Latest(program, pos'[d], w) = IF d = p /\ w = v THEN pos[p] + 1 ELSE LastOf(d, w)
    BY <1>1, StepLast
  <2>3. QED
    BY <2>1, <2>2
<1>3. PICK f : /\ Lists(f, Len(r), Between(a, b, u, c, n))
               /\ \A i \in 1 .. Len(r) : ReceiveFollows(program, n, r[i], f[i])
  BY DEF ReceivesFollow
<1>4. \A i \in 1 .. Len(r) : r[i] \in Vec
  <2> HIDE DEF r
  <2>1. QED
    BY <1>1
<1>5. PICK k : k = pos'[b]
  OBVIOUS
<1>6. b = p => \A i \in 1 .. Len(r) : r[i] # v
  OBVIOUS
<1>7. PICK z : z = receives'[b][a][u]
  OBVIOUS
<1> HIDE DEF r
<1>8. \A i \in 1 .. Len(r) : ReceiveFollows(program, k, r[i], f[i])
  <2> SUFFICES ASSUME NEW i \in 1 .. Len(r)
               PROVE  ReceiveFollows(program, k, r[i], f[i])
    OBVIOUS
  <2>1. ReceiveFollows(program, n, r[i], f[i])
    BY <1>3
  <2>2. Latest(program, k, r[i]) = Latest(program, n, r[i])
    BY <1>2, <1>4, <1>5, <1>6 DEF LastOf
  <2>3. QED
    BY <2>1, <2>2 DEF ReceiveFollows
<1>9. CASE ~(b = p /\ pos[p] + 1 \in Exchanges(a, b, u))
  <2>1. z = r
    BY <1>7, <1>9 DEF r
  <2>2. Between(a, b, u, c, k) = Between(a, b, u, c, n)
    <3>1. CASE b = p
      <4>1. Between(a, b, u, c, n + 1) =
              Between(a, b, u, c, n) \cup ({n + 1} \cap Exchanges(a, b, u))
        BY <1>1, BetweenGrows
      <4>2. k = n + 1 /\ n + 1 \notin Exchanges(a, b, u)
        BY <1>2, <1>5, <1>9, <3>1
      <4>3. QED
        BY <4>1, <4>2
    <3>2. CASE b # p
      BY <1>2, <1>5, <3>2
    <3>3. QED
      BY <3>1, <3>2
  <2> HIDE DEF n
  <2>3. Lists(f, Len(z), Between(a, b, u, c, k))
    BY <1>3, <2>1, <2>2
  <2>4. QED
    BY <1>0, <1>5, <1>7, <1>8, <2>1, <2>3, ReceivesNext
<1>10. CASE b = p /\ pos[p] + 1 \in Exchanges(a, b, u)
  <2> DEFINE m == Len(r)
             S == Between(a, b, u, c, n)
             g == [i \in 1 .. m + 1 |-> IF i = m + 1 THEN n + 1 ELSE f[i]]
  <2>1. z = Append(r, v) /\ k = n + 1 /\ n + 1 \in Exchanges(a, b, u)
    BY <1>2, <1>5, <1>7, <1>10 DEF r
  <2>2. /\ m \in Nat /\ Len(z) = m + 1 /\ z[m + 1] = v
        /\ \A i \in 1 .. m : z[i] = r[i]
    BY <1>1, <2>1
  <2>3. /\ S \in SUBSET Nat /\ \A y \in S : y < n + 1
        /\ Between(a, b, u, c, n + 1) = S \cup ({n + 1} \cap Exchanges(a, b, u))
    <3>1. c \in Nat /\ n \in Nat /\ c <= n
      BY <1>1
    <3> HIDE DEF n
    <3>2. QED
      BY <3>1, BetweenGrows
  <2>4. Between(a, b, u, c, k) = S \cup {n + 1}
    BY <2>1, <2>3
  <2>5. Lists(g, m + 1, S \cup {n + 1})
    <3>1. Lists(f, m, S) /\ n + 1 \in Nat
      BY <1>1, <1>3
    <3> HIDE DEF m, S, n
    <3>2. QED
      BY <2>2, <2>3, <3>1, ListGrows
  <2>6. g[m + 1] = n + 1 /\ \A i \in 1 .. m : g[i] = f[i]
    <3> HIDE DEF m
    <3>1. QED
      BY <2>2
  <2> HIDE DEF g
  <2>7. Latest(program, k, v) = n + 1 /\ program[n + 1].v = v
    BY <1>2, <1>5, <1>10
  <2> HIDE DEF m, n, S
  <2>8. ASSUME NEW i \in 1 .. Len(z)
        PROVE  ReceiveFollows(program, k, z[i], g[i])
    <3>1. i = m + 1 \/ i \in 1 .. m
      BY <2>2
    <3>2. CASE i = m + 1
      BY <2>2, <2>6, <2>7, <3>2 DEF ReceiveFollows
    <3>3. CASE i \in 1 .. m
      <4>1. z[i] = r[i] /\ g[i] = f[i]
        BY <2>2, <2>6, <3>3
      <4>2. QED
        BY <1>8, <3>3, <4>1 DEF m
    <3>4. QED
      BY <3>1, <3>2, <3>3
  <2>9. Lists(g, Len(z), Between(a, b, u, c, k))
    BY <2>2, <2>4, <2>5
  <2>10. QED
    BY <1>0, <1>5, <1>7, <2>8, <2>9, ReceivesNext
<1>11. QED
  BY <1>9, <1>10

\* The queues of all pairs of ranks follow the program through an operation.
LEMMA StepQueues ==
  ASSUME SInv, NEW p \in Rank, NEW op, NEW v \in Vec, At(p, op, v), Advance(p),
         op = "updateEnd" => Sent(p, Scatter, v) /\ Delivered(p, Scatter, v),
         op = "accumulateEnd" => Sent(p, Gather, v) /\ Delivered(p, Gather, v),
         \A a, b \in Rank : \A u \in Tag :
           /\ sends'[a][b][u] = IF a = p /\ pos[p] + 1 \in Exchanges(a, b, u)
                                THEN Append(sends[a][b][u], [v |-> v, data |-> <<>>])
                                ELSE sends[a][b][u]
           /\ receives'[b][a][u] = IF b = p /\ pos[p] + 1 \in Exchanges(a, b, u)
                                   THEN Append(receives[b][a][u], v) ELSE receives[b][a][u]
  PROVE  \A a, b \in Rank : \A u \in Tag : QueuesFollow(a, b, u)'
<1> SUFFICES ASSUME NEW a \in Rank, NEW b \in Rank, NEW u \in Tag
             PROVE  QueuesFollow(a, b, u)'
  OBVIOUS
<1>1. PICK c \in Nat : /\ c <= pos[a] /\ c <= pos[b]
                       /\ SendsFollow(a, b, u, c) /\ ReceivesFollow(a, b, u, c)
  BY DEF SInv, QueuesFollow
<1>2. /\ \A i \in 1 .. Len(sends[p][b][u]) :
           sends[p][b][u][i].v = v => sends[p][b][u][i].data # <<>>
      /\ \A i \in 1 .. Len(receives[p][a][u]) : receives[p][a][u][i] # v
  BY NothingLeft
<1>3. SendsFollow(a, b, u, c)'
  BY <1>1, <1>2, SendsStep
<1>4. ReceivesFollow(a, b, u, c)'
  BY <1>1, <1>2, ReceivesStep
<1>5. c <= pos'[a] /\ c <= pos'[b]
  <2>1. QueuesOK
    BY DEF SInv, TInv, IInv
  <2>2. \A d \in Rank : pos'[d] = IF d = p THEN pos[p] + 1 ELSE pos[d]
    BY <2>1, StepIs
  <2>3. \A d \in Rank : pos[d] \in Nat
    BY <2>1 DEF QueuesOK
  <2>4. QED
    BY <1>1, <2>2, <2>3
<1>6. QED
  BY <1>1, <1>3, <1>4, <1>5 DEF QueuesFollow

-----------------------------------------------------------------------------
\* An operation that posts nothing.
LEMMA OtherQueues ==
  ASSUME SInv, NEW p \in Rank, NEW op, NEW v \in Vec, At(p, op, v), Advance(p), UNCHANGED mpi,
         \A u \in Tag : op # BeginOp(u),
         op = "updateEnd" => Sent(p, Scatter, v) /\ Delivered(p, Scatter, v),
         op = "accumulateEnd" => Sent(p, Gather, v) /\ Delivered(p, Gather, v)
  PROVE  \A a, b \in Rank : \A u \in Tag : QueuesFollow(a, b, u)'
<1>1. QueuesOK
  BY DEF SInv, TInv, IInv
<1>2. pos[p] + 1 \in 1 .. Len(program) /\ program[pos[p] + 1] = [op |-> op, v |-> v]
  BY <1>1, PositionIs
<1>3. \A a, b \in Rank : \A u \in Tag : pos[p] + 1 \notin Exchanges(a, b, u)
  BY <1>2, ExchangesAt
<1>4. sends' = sends /\ receives' = receives
  BY DEF mpi
<1>5. QED
  BY <1>3, <1>4, StepQueues

\* An operation that posts the sends and receives of tag t.
LEMMA BeginQueues ==
  ASSUME SInv, NEW p \in Rank, NEW t \in Tag, NEW v \in Vec, At(p, BeginOp(t), v), Advance(p),
         NEW to, NEW from, Isend(p, to, t, v), Irecv(p, from, t, v),
         \A b \in Rank : /\ b \in to <=> Exchanged(p, b, t, v)
                         /\ b \in from <=> Exchanged(b, p, t, v)
  PROVE  \A a, b \in Rank : \A u \in Tag : QueuesFollow(a, b, u)'
<1>1. QueuesOK
  BY DEF SInv, TInv, IInv
<1>2. pos[p] + 1 \in 1 .. Len(program) /\ program[pos[p] + 1] = [op |-> BeginOp(t), v |-> v]
  BY <1>1, PositionIs
<1>3. \A u \in Tag : BeginOp(u) = BeginOp(t) <=> u = t
  BY DEF BeginOp, Tag, Scatter, Gather
<1>4. BeginOp(t) # "updateEnd" /\ BeginOp(t) # "accumulateEnd"
  BY DEF BeginOp
<1>5. \A a, b \in Rank : \A u \in Tag :
        pos[p] + 1 \in Exchanges(a, b, u) <=> BeginOp(t) = BeginOp(u) /\ Exchanged(a, b, u, v)
  BY <1>2, ExchangesAt
<1>6. ASSUME NEW a \in Rank, NEW b \in Rank, NEW u \in Tag
      PROVE  /\ sends'[a][b][u] = IF a = p /\ pos[p] + 1 \in Exchanges(a, b, u)
                                  THEN Append(sends[a][b][u], [v |-> v, data |-> <<>>])
                                  ELSE sends[a][b][u]
             /\ receives'[b][a][u] = IF b = p /\ pos[p] + 1 \in Exchanges(a, b, u)
                                     THEN Append(receives[b][a][u], v) ELSE receives[b][a][u]
  <2>1. sends'[a][b][u] = IF a = p /\ b \in to /\ u = t
                          THEN Append(sends[a][b][u], [v |-> v, data |-> <<>>])
                          ELSE sends[a][b][u]
    BY IsendIs
  <2>2. receives'[b][a][u] = IF b = p /\ a \in from /\ u = t
                             THEN Append(receives[b][a][u], v) ELSE receives[b][a][u]
    BY IrecvIs
  <2>3. a = p => (b \in to /\ u = t <=> pos[p] + 1 \in Exchanges(a, b, u))
    BY <1>3, <1>5
  <2>4. b = p => (a \in from /\ u = t <=> pos[p] + 1 \in Exchanges(a, b, u))
    BY <1>3, <1>5
  <2>5. QED
    BY <2>1, <2>2, <2>3, <2>4
<1>7. QED
  BY <1>4, <1>6, StepQueues

\* Posting more receives leaves those that wait.
LEMMA PendingKept ==
  ASSUME NEW p, NEW a, NEW t, NEW w, receives[a][p][t] \in Seq(Vec), NEW v \in Vec,
         \/ receives'[a][p][t] = receives[a][p][t]
         \/ receives'[a][p][t] = Append(receives[a][p][t], v)
  PROVE  /\ Pending(p, a, t, w) => Pending(p, a, t, w)'
         /\ receives'[a][p][t] = Append(receives[a][p][t], v) => Pending(p, a, t, v)'
<1> DEFINE r == receives[a][p][t]
<1>1. PICK z : z = receives'[a][p][t]
  OBVIOUS
<1>2. r \in Seq(Vec) /\ (z = r \/ z = Append(r, v))
  BY <1>1
<1> HIDE DEF r
<1>3. \A i \in 1 .. Len(r) : i \in 1 .. Len(z) /\ z[i] = r[i]
  BY <1>2
<1>4. z = Append(r, v) => Len(r) + 1 \in 1 .. Len(z) /\ z[Len(r) + 1] = v
  BY <1>2
<1>5. (\E i \in 1 .. Len(r) : r[i] = w) => \E i \in 1 .. Len(z) : z[i] = w
  BY <1>3
<1>6. z = Append(r, v) => \E i \in 1 .. Len(z) : z[i] = v
  BY <1>4
<1>7. QED
  BY <1>1, <1>5, <1>6 DEF Pending, r

\* The other vectors, and all those of the other ranks, stay as they are.
LEMMA OthersKeep ==
  ASSUME SInv, NEW p \in Rank, NEW op, NEW v \in Vec, At(p, op, v), Advance(p),
         NEW a \in Rank, NEW w \in Vec, a # p \/ w # v,
         owned'[a][w] = owned[a][w], ghost'[a][w] = ghost[a][w], buffer'[a][w] = buffer[a][w],
         \A b \in Rank : \A u \in Tag :
           \/ receives'[a][b][u] = receives[a][b][u]
           \/ receives'[a][b][u] = Append(receives[a][b][u], v)
  PROVE  HeapFollows(a, w)'
<1>1. QueuesOK /\ HeapFollows(a, w) /\ program \in Programs
  BY DEF SInv, TInv, IInv, QueuesOK
<1>2. /\ program' = program /\ pos[p] + 1 \in 1 .. Len(program) /\ pos[p] \in Nat
      /\ program[pos[p] + 1].v = v
      /\ pos'[a] = IF a = p THEN pos[p] + 1 ELSE pos[a]
  BY <1>1, StepIs
<1>3. Latest(program, pos'[a], w) = LastOf(a, w)
  BY <1>1, StepLast
<1>4. PICK n : n = pos[p]
  OBVIOUS
<1>5. (n + 1) - 1 = n
  BY <1>2, <1>4
<1>6. w # v => /\ Meaning(program)[n + 1].owned[a][w] = Meaning(program)[(n + 1) - 1].owned[a][w]
               /\ Meaning(program)[n + 1].ghost[a][w] = Meaning(program)[(n + 1) - 1].ghost[a][w]
  <2>1. n + 1 \in 1 .. Len(program) /\ program[n + 1].v = v
    BY <1>2, <1>4
  <2>2. QED
    BY <1>1, <2>1, Untouched
<1>7. /\ Meaning(program)[pos'[a]].owned[a][w] = Meaning(program)[pos[a]].owned[a][w]
      /\ Meaning(program)[pos'[a]].ghost[a][w] = Meaning(program)[pos[a]].ghost[a][w]
  <2>1. CASE a = p
    BY <1>2, <1>4, <1>5, <1>6, <2>1
  <2>2. CASE a # p
    BY <1>2, <2>2
  <2>3. QED
    BY <2>1, <2>2
<1>8. \A b \in Rank : \A u \in Tag : Pending(b, a, u, w) => Pending(b, a, u, w)'
  <2> SUFFICES ASSUME NEW b \in Rank, NEW u \in Tag
               PROVE  Pending(b, a, u, w) => Pending(b, a, u, w)'
    OBVIOUS
  <2>1. receives[a][b][u] \in Seq(Vec)
    BY <1>1 DEF QueuesOK
  <2>2. QED
    BY <2>1, PendingKept
<1>9. InUpdate(a, w) => InUpdate(a, w)'
  BY <1>1, InUpdateNext
<1>10. QED
  BY <1>1, <1>2, <1>3, <1>7, <1>8, <1>9, HeapSame

\* The vector of the operation, if the operation begins no exchange.
LEMMA ThisFollows ==
  ASSUME SInv, NEW p \in Rank, NEW op, NEW v \in Vec, At(p, op, v), Advance(p),
         op \notin {"updateBegin", "accumulateBegin"},
         owned'[p][v] = Meaning(program)[pos[p] + 1].owned[p][v],
         ghost'[p][v] = Meaning(program)[pos[p] + 1].ghost[p][v]
  PROVE  HeapFollows(p, v)'
<1>1. QueuesOK
  BY DEF SInv, TInv, IInv
<1>2. /\ program' = program /\ program[pos[p] + 1].op = op
      /\ pos'[p] = pos[p] + 1
  BY <1>1, StepIs
<1>3. Latest(program, pos'[p], v) = pos[p] + 1
  BY <1>1, StepLast
<1>4. PICK n : n = pos'[p]
  OBVIOUS
<1>5. PICK M : M = Meaning(program)
  OBVIOUS
<1>6. n = Latest(program, n, v) /\ program[n].op \notin {"updateBegin", "accumulateBegin"}
  BY <1>2, <1>3, <1>4
<1>7. owned'[p][v] = M[n].owned[p][v] /\ ghost'[p][v] = M[n].ghost[p][v]
  BY <1>2, <1>4, <1>5
<1>8. QED
  BY <1>2, <1>4, <1>5, <1>6, <1>7, HeapNext

-----------------------------------------------------------------------------
\* An operation sets the entries of its own vector on its own rank only.
LEMMA HeapsFollow ==
  ASSUME SInv, NEW p \in Rank, NEW op, NEW v \in Vec, At(p, op, v), Advance(p),
         NEW e, NEW g, NEW b,
         owned' = owned \/ owned' = Stored(owned, p, v, e),
         ghost' = ghost \/ ghost' = Stored(ghost, p, v, g),
         buffer' = buffer \/ buffer' = Stored(buffer, p, v, b),
         \A a, k \in Rank : \A u \in Tag :
           \/ receives'[a][k][u] = receives[a][k][u]
           \/ receives'[a][k][u] = Append(receives[a][k][u], v),
         HeapFollows(p, v)'
  PROVE  \A a \in Rank : \A w \in Vec : HeapFollows(a, w)'
<1> SUFFICES ASSUME NEW a \in Rank, NEW w \in Vec, a # p \/ w # v
             PROVE  HeapFollows(a, w)'
  OBVIOUS
<1>1. IsHeap(owned) /\ IsHeap(ghost) /\ IsHeap(buffer)
  BY DEF SInv, TInv, HeapTyped
<1>2. owned'[a][w] = owned[a][w]
  BY <1>1, HeapSet
<1>3. ghost'[a][w] = ghost[a][w]
  BY <1>1, HeapSet
<1>4. buffer'[a][w] = buffer[a][w]
  BY <1>1, HeapSet
<1>5. QED
  BY <1>2, <1>3, <1>4, OthersKeep

\* All that follows the program: the memory and the messages.
Followed ==
  /\ \A p \in Rank : \A v \in Vec : HeapFollows(p, v)
  /\ \A p, q \in Rank : \A t \in Tag : QueuesFollow(p, q, t)

LEMMA ComputeFollows ==
  ASSUME SInv, NEW p \in Rank, NEW v \in Vec, Compute(p, v)
  PROVE  Followed'
<1> DEFINE n == pos[p]
           e == [i \in localOwned(p, v) |-> Computed(p, n, OwnedRanges[v][p].first + i)]
           g == [j \in localGhost(p, v) |-> Computed(p, n, GhostAt(p, v, j))]
           M == Meaning(program)
<1>0. /\ TInv /\ QueuesOK /\ IsHeap(owned) /\ IsHeap(ghost) /\ program \in Programs
      /\ At(p, "compute", v) /\ Advance(p) /\ UNCHANGED mpi
  BY DEF SInv, TInv, IInv, HeapTyped, QueuesOK, Compute
<1>1. /\ n + 1 \in 1 .. Len(program) /\ program[n + 1] = [op |-> "compute", v |-> v]
      /\ n \in Nat
  BY <1>0, StepIs
<1>2. owned' = Stored(owned, p, v, e) /\ ghost' = Stored(ghost, p, v, g) /\ buffer' = buffer
  BY <1>0, ComputeIs
<1>3. M[n + 1].owned[p][v] = e /\ M[n + 1].ghost[p][v] = g
  <2> HIDE DEF n, e, g
  <2>1. /\ M[n + 1].owned[p][v] = AfterOwned(program, n + 1, M[(n + 1) - 1], p, v)
        /\ M[n + 1].ghost[p][v] =
             AfterGhost(program, n + 1, M[(n + 1) - 1], M[BeginOf(program, n + 1)], p, v)
    BY <1>0, <1>1, AfterIs
  <2> HIDE DEF M
  <2>2. (n + 1) - 1 = n
    BY <1>1
  <2>3. AfterOwned(program, n + 1, M[(n + 1) - 1], p, v) = e
    BY <1>1, <2>2 DEF AfterOwned, e, Global
  <2>4. AfterGhost(program, n + 1, M[(n + 1) - 1], M[BeginOf(program, n + 1)], p, v) = g
    BY <1>1, <2>2 DEF AfterGhost, g
  <2>5. QED
    BY <2>1, <2>3, <2>4
<1> HIDE DEF e, g, M
<1>4. owned'[p][v] = M[n + 1].owned[p][v] /\ ghost'[p][v] = M[n + 1].ghost[p][v]
  BY <1>0, <1>2, <1>3, HeapSet
<1>5. HeapFollows(p, v)'
  BY <1>0, <1>4, ThisFollows DEF M
<1>6. sends' = sends /\ receives' = receives
  BY <1>0 DEF mpi
<1>7. \A a \in Rank : \A w \in Vec : HeapFollows(a, w)'
  BY <1>0, <1>2, <1>5, <1>6, HeapsFollow
<1>8. \A a, b \in Rank : \A u \in Tag : QueuesFollow(a, b, u)'
  <2>1. \A u \in Tag : "compute" # BeginOp(u)
    BY DEF BeginOp
  <2>2. QED
    BY <1>0, <2>1, OtherQueues
<1>9. QED
  BY <1>7, <1>8 DEF Followed

LEMMA ZeroOutFollows ==
  ASSUME SInv, NEW p \in Rank, NEW v \in Vec, zeroOutGhosts(p, v)
  PROVE  Followed'
<1> DEFINE n == pos[p]
           g == Zero(localGhost(p, v))
           M == Meaning(program)
<1>0. /\ QueuesOK /\ IsHeap(owned) /\ IsHeap(ghost) /\ program \in Programs /\ HeapFollows(p, v)
      /\ At(p, "zeroOutGhosts", v) /\ Advance(p) /\ UNCHANGED mpi
      /\ owned' = owned /\ ghost' = Stored(ghost, p, v, g) /\ buffer' = buffer
  BY DEF SInv, TInv, IInv, HeapTyped, QueuesOK, zeroOutGhosts, Stored
<1>1. /\ n + 1 \in 1 .. Len(program) /\ program[n + 1] = [op |-> "zeroOutGhosts", v |-> v]
      /\ n \in Nat /\ program[n + 1].op = "zeroOutGhosts"
  BY <1>0, StepIs
<1>2. (n + 1) - 1 = n
  BY <1>1
<1>3. M[n + 1].owned[p][v] = M[(n + 1) - 1].owned[p][v]
  <2> HIDE DEF n
  <2>1. QED
    BY <1>0, <1>1, Untouched
<1>4. M[n + 1].ghost[p][v] = g
  <2> HIDE DEF n, g
  <2>1. M[n + 1].ghost[p][v] =
          AfterGhost(program, n + 1, M[(n + 1) - 1], M[BeginOf(program, n + 1)], p, v)
    BY <1>0, <1>1, AfterIs
  <2> HIDE DEF M
  <2>2. AfterGhost(program, n + 1, M[(n + 1) - 1], M[BeginOf(program, n + 1)], p, v) = g
    BY <1>1 DEF AfterGhost, g
  <2>3. QED
    BY <2>1, <2>2
<1>5. owned[p][v] = M[n].owned[p][v]
  BY <1>0 DEF HeapFollows, OwnedFollows, MemoryAt
<1> HIDE DEF g, M
<1>6. owned'[p][v] = M[n + 1].owned[p][v] /\ ghost'[p][v] = M[n + 1].ghost[p][v]
  BY <1>0, <1>2, <1>3, <1>4, <1>5, HeapSet
<1>7. HeapFollows(p, v)'
  BY <1>0, <1>6, ThisFollows DEF M
<1>8. sends' = sends /\ receives' = receives
  BY <1>0 DEF mpi
<1>9. \A a \in Rank : \A w \in Vec : HeapFollows(a, w)'
  BY <1>0, <1>7, <1>8, HeapsFollow
<1>10. \A a, b \in Rank : \A u \in Tag : QueuesFollow(a, b, u)'
  <2>1. \A u \in Tag : "zeroOutGhosts" # BeginOp(u)
    BY DEF BeginOp
  <2>2. QED
    BY <1>0, <2>1, OtherQueues
<1>11. QED
  BY <1>9, <1>10 DEF Followed

\* Whom a rank exchanges a vector with.
LEMMA Partners ==
  ASSUME NEW p \in Rank, NEW v \in Vec
  PROVE  \A b \in Rank : /\ b \in getTargetProcIds(p, v) <=> Exchanged(p, b, Scatter, v)
                         /\ b \in getGhostProcIds(p, v) <=> Exchanged(b, p, Scatter, v)
                         /\ b \in getGhostProcIds(p, v) <=> Exchanged(p, b, Gather, v)
                         /\ b \in getTargetProcIds(p, v) <=> Exchanged(b, p, Gather, v)
BY DEF Exchanged, getTargetProcIds, Scatter, Gather

LEMMA UpdateBeginFollows ==
  ASSUME SInv, NEW p \in Rank, NEW v \in Vec, updateGhostValuesBegin(p, v)
  PROVE  Followed'
<1> DEFINE n == pos[p]
           b == gatherLocallyOwnedEntries(p, v)
           M == Meaning(program)
<1>0. /\ QueuesOK /\ IsHeap(buffer) /\ program \in Programs /\ HeapFollows(p, v) /\ HeapTyped
      /\ At(p, "updateBegin", v) /\ Advance(p)
      /\ owned' = owned /\ ghost' = ghost /\ buffer' = Stored(buffer, p, v, b)
      /\ Irecv(p, getGhostProcIds(p, v), Scatter, v)
      /\ Isend(p, getTargetProcIds(p, v), Scatter, v)
  BY DEF SInv, TInv, IInv, HeapTyped, QueuesOK, updateGhostValuesBegin, Stored
<1>1. /\ n + 1 \in 1 .. Len(program) /\ program[n + 1].op = "updateBegin"
      /\ n \in Nat /\ pos'[p] = n + 1 /\ program' = program
  BY <1>0, StepIs
<1>2. (n + 1) - 1 = n
  BY <1>1
<1>3. M[n + 1].owned[p][v] = M[(n + 1) - 1].owned[p][v]
  <2> HIDE DEF n
  <2>1. QED
    BY <1>0, <1>1, Untouched
<1>4. owned[p][v] = M[n].owned[p][v]
  BY <1>0 DEF HeapFollows, OwnedFollows, MemoryAt
<1>5. \A q \in getTargetProcIds(p, v) : b[q] = Data(M[n + 1], p, q, Scatter, v)
  <2> SUFFICES ASSUME NEW q \in getTargetProcIds(p, v)
               PROVE  b[q] = Data(M[n + 1], p, q, Scatter, v)
    OBVIOUS
  <2>1. b[q] = [m \in 1 .. NumGhosts(q, v, p) |->
                  owned[p][v][Wanted(p, v, q)[m] - OwnedRanges[v][p].first]]
    BY <1>0, GatheredTyped
  <2>2. owned[p][v] = M[n + 1].owned[p][v]
    BY <1>2, <1>3, <1>4
  <2> HIDE DEF b, M, n
  <2>3. QED
    BY <2>1, <2>2 DEF Data
<1> HIDE DEF b, M
<1>6. owned'[p][v] = M[n + 1].owned[p][v] /\ buffer'[p][v] = b
  BY <1>0, <1>2, <1>3, <1>4, HeapSet
<1>7. \A a, k \in Rank : \A u \in Tag :
        receives'[a][k][u] = IF a = p /\ k \in getGhostProcIds(p, v) /\ u = Scatter
                             THEN Append(receives[a][k][u], v) ELSE receives[a][k][u]
  <2>1. Scatter \in Tag
    BY DEF Tag
  <2>2. QED
    BY <1>0, <2>1, IrecvIs
<1>8. \A k \in getGhostProcIds(p, v) : Pending(k, p, Scatter, v)'
  <2> SUFFICES ASSUME NEW k \in getGhostProcIds(p, v) PROVE Pending(k, p, Scatter, v)'
    OBVIOUS
  <2>1. k \in Rank /\ Scatter \in Tag
    BY GhostsCounted DEF Tag
  <2>2. receives[p][k][Scatter] \in Seq(Vec)
    BY <1>0, <2>1 DEF QueuesOK
  <2>3. receives'[p][k][Scatter] = Append(receives[p][k][Scatter], v)
    BY <1>7, <2>1
  <2>4. QED
    BY <2>2, <2>3, PendingKept
<1>9. InUpdate(p, v)'
  BY <1>0, InUpdateNext
<1>10. HeapFollows(p, v)'
  <2>1. PICK m : m = pos'[p]
    OBVIOUS
  <2>2. m = Latest(program, m, v) /\ m = n + 1
    BY <1>0, <1>1, <2>1, StepLast
  <2>3. program[m].op = "updateBegin" /\ "updateBegin" # "accumulateBegin"
    BY <1>1, <2>2
  <2>4. owned'[p][v] = M[m].owned[p][v]
    BY <1>6, <2>2
  <2>5. \A q \in getTargetProcIds(p, v) : buffer'[p][v][q] = Data(M[m], p, q, Scatter, v)
    BY <1>5, <1>6, <2>2
  <2>6. PICK mm : mm = M
    OBVIOUS
  <2>7. QED
    BY <1>1, <1>8, <1>9, <2>1, <2>2, <2>3, <2>4, <2>5, <2>6, HeapNext DEF M
<1>11. \A a \in Rank : \A w \in Vec : HeapFollows(a, w)'
  BY <1>0, <1>7, <1>10, HeapsFollow
<1>12. \A a, k \in Rank : \A u \in Tag : QueuesFollow(a, k, u)'
  <2>1. Scatter \in Tag /\ BeginOp(Scatter) = "updateBegin"
    BY DEF BeginOp, Tag
  <2>2. At(p, BeginOp(Scatter), v)
    BY <1>0, <2>1
  <2>3. \A k \in Rank : /\ k \in getTargetProcIds(p, v) <=> Exchanged(p, k, Scatter, v)
                        /\ k \in getGhostProcIds(p, v) <=> Exchanged(k, p, Scatter, v)
    BY Partners
  <2>4. QED
    BY <1>0, <2>1, <2>2, <2>3, BeginQueues
<1>13. QED
  BY <1>11, <1>12 DEF Followed

LEMMA AccumulateBeginFollows ==
  ASSUME SInv, NEW p \in Rank, NEW v \in Vec, accumulateAddLocallyOwnedBegin(p, v)
  PROVE  Followed'
<1> DEFINE n == pos[p]
           M == Meaning(program)
<1>0. /\ QueuesOK /\ program \in Programs /\ HeapFollows(p, v)
      /\ At(p, "accumulateBegin", v) /\ Advance(p)
      /\ owned' = owned /\ ghost' = ghost /\ buffer' = buffer
      /\ Irecv(p, getTargetProcIds(p, v), Gather, v)
      /\ Isend(p, getGhostProcIds(p, v), Gather, v)
  BY DEF SInv, TInv, IInv, QueuesOK, accumulateAddLocallyOwnedBegin, heap
<1>1. /\ n + 1 \in 1 .. Len(program) /\ program[n + 1].op = "accumulateBegin"
      /\ n \in Nat /\ pos'[p] = n + 1 /\ program' = program /\ ~Updating(p, v)
  BY <1>0, StepIs
<1>2. (n + 1) - 1 = n
  BY <1>1
<1>3. /\ M[n + 1].owned[p][v] = M[(n + 1) - 1].owned[p][v]
      /\ M[n + 1].ghost[p][v] = M[(n + 1) - 1].ghost[p][v]
  <2> HIDE DEF n
  <2>1. QED
    BY <1>0, <1>1, Untouched
<1>4. owned[p][v] = M[n].owned[p][v] /\ ghost[p][v] = M[n].ghost[p][v]
  BY <1>0, <1>1 DEF HeapFollows, OwnedFollows, GhostFollows, MemoryAt
<1> HIDE DEF M
<1>7. \A a, k \in Rank : \A u \in Tag :
        receives'[a][k][u] = IF a = p /\ k \in getTargetProcIds(p, v) /\ u = Gather
                             THEN Append(receives[a][k][u], v) ELSE receives[a][k][u]
  <2>1. Gather \in Tag
    BY DEF Tag
  <2>2. QED
    BY <1>0, <2>1, IrecvIs
<1>8. \A k \in getTargetProcIds(p, v) : Pending(k, p, Gather, v)'
  <2> SUFFICES ASSUME NEW k \in getTargetProcIds(p, v) PROVE Pending(k, p, Gather, v)'
    OBVIOUS
  <2>1. k \in Rank /\ Gather \in Tag
    BY TargetsFinite DEF Tag
  <2>2. receives[p][k][Gather] \in Seq(Vec)
    BY <1>0, <2>1 DEF QueuesOK
  <2>3. receives'[p][k][Gather] = Append(receives[p][k][Gather], v)
    BY <1>7, <2>1
  <2>4. QED
    BY <2>2, <2>3, PendingKept
<1>10. HeapFollows(p, v)'
  <2>1. PICK m : m = pos'[p]
    OBVIOUS
  <2>2. m = Latest(program, m, v) /\ m = n + 1
    BY <1>0, <1>1, <2>1, StepLast
  <2>3. program[m].op = "accumulateBegin" /\ "updateBegin" # "accumulateBegin"
    BY <1>1, <2>2
  <2>4. owned'[p][v] = M[m].owned[p][v] /\ ghost'[p][v] = M[m].ghost[p][v]
    BY <1>0, <1>2, <1>3, <1>4, <2>2
  <2>6. PICK mm : mm = M
    OBVIOUS
  <2>7. QED
    BY <1>1, <1>8, <2>1, <2>2, <2>3, <2>4, <2>6, HeapNext DEF M
<1>11. \A a \in Rank : \A w \in Vec : HeapFollows(a, w)'
  BY <1>0, <1>7, <1>10, HeapsFollow
<1>12. \A a, k \in Rank : \A u \in Tag : QueuesFollow(a, k, u)'
  <2>1. Gather \in Tag /\ BeginOp(Gather) = "accumulateBegin"
    BY DEF BeginOp, Tag, Gather, Scatter
  <2>2. At(p, BeginOp(Gather), v)
    BY <1>0, <2>1
  <2>3. \A k \in Rank : /\ k \in getGhostProcIds(p, v) <=> Exchanged(p, k, Gather, v)
                        /\ k \in getTargetProcIds(p, v) <=> Exchanged(k, p, Gather, v)
    BY Partners
  <2>4. QED
    BY <1>0, <2>1, <2>2, <2>3, BeginQueues
<1>13. QED
  BY <1>11, <1>12 DEF Followed

-----------------------------------------------------------------------------
\* What is sent depends on the sections of the vector on the sender.
LEMMA DataSame ==
  ASSUME NEW M, NEW N, NEW p, NEW q, NEW t, NEW v,
         M.owned[p][v] = N.owned[p][v], M.ghost[p][v] = N.ghost[p][v]
  PROVE  Data(M, p, q, t, v) = Data(N, p, q, t, v)
BY DEF Data

\* The ranges do not overlap.
LEMMA OwnerIs ==
  ASSUME NEW v \in Vec, NEW k \in Rank, NEW g, g \in Indices(OwnedRanges[v][k])
  PROVE  /\ OwnerOf(v, g) = k
         /\ \A q \in Rank : g \in GhostIndices[v][q] => Owner(v, g) = k
<1>1. \A j \in Rank : g \in Indices(OwnedRanges[v][j]) => j = k
  <2> SUFFICES ASSUME NEW j \in Rank, g \in Indices(OwnedRanges[v][j]), j # k
               PROVE  FALSE
    OBVIOUS
  <2>1. Indices(OwnedRanges[v][j]) \cap Indices(OwnedRanges[v][k]) = {}
    BY PatternIs, Zenon
  <2>2. g \in Indices(OwnedRanges[v][j]) \cap Indices(OwnedRanges[v][k])
    OBVIOUS
  <2>3. QED
    BY <2>1, <2>2, Zenon
<1>2. OwnerOf(v, g) = k
  BY <1>1 DEF OwnerOf
<1>3. \A q \in Rank : g \in GhostIndices[v][q] => Owner(v, g) = k
  BY <1>1, PatternIs
<1>4. QED
  BY <1>2, <1>3

\* A ghost entry is one of those its owner's segment is made of.
LEMMA GhostIsWanted ==
  ASSUME RanksInOrder, NEW v \in Vec, NEW p \in Rank, NEW g \in GhostIndices[v][p],
         NEW k \in Rank, Owner(v, g) = k
  PROVE  \E m \in 1 .. NumGhosts(p, v, k) :
           /\ Wanted(k, v, p)[m] = g
           /\ GhostSegmentStart(p, v, k) + m - 1 = localGhostIndex(GhostIndices[v][p], g)
<1>1. PICK m \in 1 .. NumGhosts(p, v, k) : Wanted(k, v, p)[m] = g
  BY WantedAre
<1>2. localGhostIndex(GhostIndices[v][p], Wanted(k, v, p)[m]) = GhostSegmentStart(p, v, k) + m - 1
  BY GhostsInOrder
<1>3. QED
  BY <1>1, <1>2

\* Operations end an exchange when nothing of it is on its way.
LEMMA NonePending ==
  ASSUME QueuesOK, NEW p \in Rank, NEW t \in Tag, NEW v, Delivered(p, t, v)
  PROVE  \A q \in Rank : ~Pending(q, p, t, v)
<1> SUFFICES ASSUME NEW q \in Rank, NEW i \in 1 .. Len(receives[p][q][t]),
                    receives[p][q][t][i] = v
             PROVE  FALSE
  BY DEF Pending
<1> DEFINE r == receives[p][q][t]
<1>1. r \in Seq(Vec)
  BY DEF QueuesOK
<1>2. \A j \in DOMAIN r : r[j] # v
  BY DEF Delivered
<1>3. DOMAIN r = 1 .. Len(r)
  <2> HIDE DEF r
  <2>1. QED
    BY <1>1
<1>4. QED
  BY <1>2, <1>3

\* The owners' entries for the ghost section of a rank.
OwnersEntries(B, p, v) ==
  [j \in localGhost(p, v) |-> LET g == GhostAt(p, v, j)
                                  k == OwnerOf(v, g)
                              IN  B.owned[k][v][g - OwnedRanges[v][k].first]]

LEMMA UpdateCopies ==
  ASSUME NEW prog, NEW n, NEW v, prog[n] = [op |-> "updateEnd", v |-> v],
         NEW M, NEW B, NEW p
  PROVE  AfterGhost(prog, n, M, B, p, v) = OwnersEntries(B, p, v)
<1>1. /\ prog[n] # [op |-> "compute", v |-> v]
      /\ prog[n] # [op |-> "zeroOutGhosts", v |-> v]
  OBVIOUS
<1>2. QED
  BY <1>1 DEF AfterGhost, OwnersEntries

\* After an update a ghost section has its owners' entries.
LEMMA UpdateEndFollows ==
  ASSUME SInv, NEW p \in Rank, NEW v \in Vec, updateGhostValuesEnd(p, v)
  PROVE  Followed'
<1> DEFINE n == pos[p]
           l == LastOf(p, v)
           M == Meaning(program)
<1>0. /\ QueuesOK /\ HeapTyped /\ RanksInOrder /\ program \in Programs /\ HeapFollows(p, v)
      /\ At(p, "updateEnd", v) /\ Advance(p) /\ Sent(p, Scatter, v) /\ Delivered(p, Scatter, v)
      /\ UNCHANGED mpi /\ owned' = owned /\ ghost' = ghost /\ buffer' = buffer
  BY DEF SInv, TInv, IInv, QueuesOK, updateGhostValuesEnd, heap
<1>1. /\ n + 1 \in 1 .. Len(program) /\ program[n + 1] = [op |-> "updateEnd", v |-> v]
      /\ program[n + 1].op = "updateEnd" /\ program[n + 1].v = v
      /\ n \in Nat /\ Updating(p, v)
  BY <1>0, StepIs
<1>2. (n + 1) - 1 = n
  BY <1>1
<1>3. M[n + 1].owned[p][v] = M[(n + 1) - 1].owned[p][v]
  <2> HIDE DEF n
  <2>1. QED
    BY <1>0, <1>1, Untouched
<1>4. BeginOf(program, n + 1) = l
  <2> HIDE DEF n
  <2>1. BeginOf(program, n + 1) = Latest(program, (n + 1) - 1, program[n + 1].v)
    BY <1>0, <1>1, BeginsBefore
  <2>2. QED
    BY <1>1, <1>2, <2>1 DEF LastOf, n
<1>5. M[n + 1].ghost[p][v] = OwnersEntries(M[l], p, v)
  <2> HIDE DEF n, l
  <2>1. M[n + 1].ghost[p][v] =
          AfterGhost(program, n + 1, M[(n + 1) - 1], M[BeginOf(program, n + 1)], p, v)
    BY <1>0, <1>1, AfterIs
  <2> HIDE DEF M
  <2>2. PICK m : m = n + 1
    OBVIOUS
  <2>3. PICK A : A = M[m - 1]
    OBVIOUS
  <2>4. PICK B : B = M[BeginOf(program, m)]
    OBVIOUS
  <2>5. AfterGhost(program, m, A, B, p, v) = OwnersEntries(B, p, v)
    <3>1. program[m] = [op |-> "updateEnd", v |-> v]
      BY <1>1, <2>2
    <3>2. QED
      BY <3>1, UpdateCopies, Zenon
  <2>6. QED
    BY <1>4, <2>1, <2>2, <2>3, <2>4, <2>5
<1>6. /\ owned[p][v] = M[n].owned[p][v]
      /\ \A k \in getGhostProcIds(p, v) :
           \/ Pending(k, p, Scatter, v)
           \/ \A m \in 1 .. NumGhosts(p, v, k) :
                ghost[p][v][GhostSegmentStart(p, v, k) + m - 1] = Data(M[l], k, p, Scatter, v)[m]
  <2>1. PICK nn : nn = pos[p]
    OBVIOUS
  <2>2. PICK ll : ll = LastOf(p, v)
    OBVIOUS
  <2>3. PICK mm : mm = M
    OBVIOUS
  <2>4. /\ owned[p][v] = mm[nn].owned[p][v]
        /\ Updating(p, v) =>
             \A k \in getGhostProcIds(p, v) :
               \/ Pending(k, p, Scatter, v)
               \/ \A m \in 1 .. NumGhosts(p, v, k) :
                    ghost[p][v][GhostSegmentStart(p, v, k) + m - 1] =
                      Data(mm[ll], k, p, Scatter, v)[m]
    BY <1>0, <2>1, <2>2, <2>3, HeapIs
  <2>5. QED
    BY <1>1, <2>1, <2>2, <2>3, <2>4
<1>7. \A k \in getGhostProcIds(p, v) : ~Pending(k, p, Scatter, v)
  <2>1. Scatter \in Tag /\ getGhostProcIds(p, v) \subseteq Rank
    BY GhostsCounted DEF Tag
  <2>2. QED
    BY <1>0, <2>1, NonePending
<1>8. ghost[p][v] \in [localGhost(p, v) -> Int]
  BY <1>0, TypedAt
<1> HIDE DEF M, l
<1>9. ASSUME NEW j \in localGhost(p, v)
      PROVE  ghost[p][v][j] = OwnersEntries(M[l], p, v)[j]
  <2>1. PICK g : g = GhostAt(p, v, j)
    OBVIOUS
  <2>2. g \in GhostIndices[v][p] /\ localGhostIndex(GhostIndices[v][p], g) = j
    BY <2>1, GhostAtIs
  <2>3. PICK k : k = Owner(v, g)
    OBVIOUS
  <2>4. k \in Rank /\ g \in Indices(OwnedRanges[v][k]) /\ k \in getGhostProcIds(p, v)
    BY <2>2, <2>3, PatternIs, GhostsCounted
  <2>5. OwnerOf(v, g) = k
    BY <2>4, OwnerIs
  <2>6. PICK m \in 1 .. NumGhosts(p, v, k) :
          /\ Wanted(k, v, p)[m] = g
          /\ GhostSegmentStart(p, v, k) + m - 1 = localGhostIndex(GhostIndices[v][p], g)
    BY <1>0, <2>2, <2>3, <2>4, GhostIsWanted
  <2>7. ghost[p][v][GhostSegmentStart(p, v, k) + m - 1] = Data(M[l], k, p, Scatter, v)[m]
    BY <1>6, <1>7, <2>4
  <2>8. Data(M[l], k, p, Scatter, v)[m] = M[l].owned[k][v][g - OwnedRanges[v][k].first]
    BY <2>6 DEF Data
  <2>9. OwnersEntries(M[l], p, v)[j] = M[l].owned[k][v][g - OwnedRanges[v][k].first]
    BY <2>1, <2>5 DEF OwnersEntries
  <2>10. QED
    BY <2>2, <2>6, <2>7, <2>8, <2>9
<1>10. ghost[p][v] = M[n + 1].ghost[p][v]
  <2>1. OwnersEntries(M[l], p, v) = [j \in localGhost(p, v) |-> OwnersEntries(M[l], p, v)[j]]
    BY DEF OwnersEntries
  <2>2. QED
    BY <1>5, <1>8, <1>9, <2>1
<1>11. owned'[p][v] = M[n + 1].owned[p][v] /\ ghost'[p][v] = M[n + 1].ghost[p][v]
  BY <1>0, <1>2, <1>3, <1>6, <1>10
<1>12. HeapFollows(p, v)'
  BY <1>0, <1>11, ThisFollows DEF M
<1>13. sends' = sends /\ receives' = receives
  BY <1>0 DEF mpi
<1>14. \A a \in Rank : \A w \in Vec : HeapFollows(a, w)'
  BY <1>0, <1>12, <1>13, HeapsFollow
<1>15. \A a, b \in Rank : \A u \in Tag : QueuesFollow(a, b, u)'
  <2>1. (\A u \in Tag : "updateEnd" # BeginOp(u)) /\ "updateEnd" # "accumulateEnd"
    BY DEF BeginOp
  <2>2. QED
    BY <1>0, <2>1, OtherQueues
<1>16. QED
  BY <1>14, <1>15 DEF Followed

-----------------------------------------------------------------------------
\* The ranks that have a ghost entry of an index, and what each adds for it.
Holders(v, g) == {q \in Rank : g \in GhostIndices[v][q]}
Contribution(M, v, g, q) == M.ghost[q][v][localGhostIndex(GhostIndices[v][q], g)]

LEMMA HoldersFinite ==
  ASSUME NEW v, NEW g
  PROVE  IsFiniteSet(Holders(v, g)) /\ Holders(v, g) \subseteq Rank
<1>1. Holders(v, g) \in SUBSET Rank
  BY DEF Holders
<1>2. QED
  BY <1>1, RankFinite, FS_Subset

LEMMA ContributionsAre ==
  ASSUME NEW v \in Vec, NEW M, NEW i, NEW g,
         SumsOf(g, [q \in Holders(v, i) |-> Contribution(M, v, i, q)], Holders(v, i))
  PROVE  Contributions(M, v, i) = g[Holders(v, i)]
<1> DEFINE S == Holders(v, i)
           f == [q \in S |-> Contribution(M, v, i, q)]
           sum(h) == h = [T \in SUBSET S |->
                            IF T = {} THEN 0
                            ELSE LET x == CHOOSE y \in T : TRUE
                                 IN  Contribution(M, v, i, x) + h[T \ {x}]]
           sums == CHOOSE h : sum(h)
<1>1. Contributions(M, v, i) = sums[S]
  BY DEF Contributions, Contribution, Holders, MapThenSumSet, MapThenFoldSet
<1>2. ASSUME NEW h PROVE sum(h) <=> SumsUp(h, f, S)
  <2>1. \A T \in SUBSET S : T # {} =>
          f[CHOOSE y \in T : TRUE] = Contribution(M, v, i, CHOOSE y \in T : TRUE)
    <3> SUFFICES ASSUME NEW T \in SUBSET S, T # {}
                 PROVE  f[CHOOSE y \in T : TRUE] = Contribution(M, v, i, CHOOSE y \in T : TRUE)
      OBVIOUS
    <3>1. (CHOOSE y \in T : TRUE) \in S
      OBVIOUS
    <3> HIDE DEF S
    <3>2. QED
      BY <3>1
  <2> HIDE DEF f, S
  <2>2. QED
    BY <2>1 DEF SumsUp
<1>3. sum(g)
  <2>1. SumsUp(g, f, S)
    <3> HIDE DEF sum
    <3>1. QED
      BY SumsExist
  <2> HIDE DEF sum, f, S
  <2>2. QED
    BY <1>2, <2>1
<1>4. sum(sums)
  <2> HIDE DEF sum
  <2>1. QED
    BY <1>3
<1> HIDE DEF sums, sum
<1>5. SumsUp(sums, f, S)
  BY <1>2, <1>4
<1>6. IsFiniteSet(S)
  BY HoldersFinite
<1>7. SumsOf(g, f, S)
  OBVIOUS
<1> HIDE DEF f, S
<1>8. sums[S] = g[S]
  BY <1>5, <1>6, <1>7, SumIs
<1>9. QED
  BY <1>1, <1>8 DEF S

\* The sum over one place, and over none.
LEMMA SumOfOne ==
  ASSUME NEW f, NEW g, NEW x, SumsOf(g, f, {x}), f[x] \in Int
  PROVE  g[{x}] = f[x]
<1>1. g[{}] = 0 /\ g[{x}] = f[x] + g[{x} \ {x}]
  BY DEF SumsOf
<1>2. {x} \ {x} = {}
  OBVIOUS
<1>3. g[{x} \ {x}] = 0
  BY <1>1, <1>2, Zenon
<1>4. g[{x}] = f[x] + 0
  BY <1>1, <1>3, Zenon
<1>5. QED
  BY <1>4

\* A target adds its ghost entry of an index, if it has one, to the owner's.
LEMMA ReceivedFromHolder ==
  ASSUME RanksInOrder, NEW v \in Vec, NEW p \in Rank, NEW i \in localOwned(p, v), NEW M,
         NEW q \in getTargetProcIds(p, v),
         buffer[p][v][q] \in [1 .. NumGhosts(q, v, p) -> Int],
         buffer[p][v][q] = Data(M, q, p, Gather, v)
  PROVE  ReceivedFrom(p, v, q, i) = IF q \in Holders(v, Global(p, v, i))
                                    THEN Contribution(M, v, Global(p, v, i), q) ELSE 0
<1> DEFINE g == Global(p, v, i)
           R == PlacesOf(p, v, q, i)
           b == buffer[p][v][q]
           first == OwnedRanges[v][p].first
<1>1. q \in Rank
  BY TargetsFinite
<1>2. first \in Nat /\ i \in Int /\ g = first + i /\ g \in Indices(OwnedRanges[v][p])
  <2>1. OwnedRanges[v][p].first \in Nat /\ OwnedRanges[v][p].second \in Nat
    BY PatternIs
  <2>2. QED
    BY <2>1 DEF Global, localOwned, Size, Indices
<1>3. g \in GhostIndices[v][q] => Owner(v, g) = p
  <2> HIDE DEF g
  <2>1. QED
    BY <1>1, <1>2, OwnerIs
<1>4. /\ \A m \in 1 .. NumGhosts(q, v, p) :
           m \in R <=> Wanted(p, v, q)[m] = g
      /\ R \subseteq 1 .. NumGhosts(q, v, p) /\ IsFiniteSet(R)
  <2>1. /\ DOMAIN getOwnedLocalIndicesForTargetProcs(p, v, q) = 1 .. NumGhosts(q, v, p)
        /\ \A m \in 1 .. NumGhosts(q, v, p) :
             getOwnedLocalIndicesForTargetProcs(p, v, q)[m] = Wanted(p, v, q)[m] - first
    BY <1>1, IndicesAreOwned
  <2>2. \A m \in 1 .. NumGhosts(q, v, p) : Wanted(p, v, q)[m] \in Nat
    BY <1>1, WantedAre
  <2>3. R \subseteq 1 .. NumGhosts(q, v, p) /\ IsFiniteSet(R)
    BY <1>1, PlacesFinite
  <2>4. \A m \in 1 .. NumGhosts(q, v, p) :
          m \in R <=> getOwnedLocalIndicesForTargetProcs(p, v, q)[m] = i
    BY <2>1 DEF PlacesOf
  <2> HIDE DEF g, R, first
  <2>5. \A m \in 1 .. NumGhosts(q, v, p) : m \in R <=> Wanted(p, v, q)[m] = g
    <3> SUFFICES ASSUME NEW m \in 1 .. NumGhosts(q, v, p)
                 PROVE  m \in R <=> Wanted(p, v, q)[m] = g
      OBVIOUS
    <3>1. PICK w : w = Wanted(p, v, q)[m]
      OBVIOUS
    <3>2. w \in Nat /\ (m \in R <=> w - first = i)
      BY <2>1, <2>2, <2>4, <3>1
    <3>3. QED
      BY <1>2, <3>1, <3>2
  <2>6. QED
    BY <2>3, <2>5
<1>5. \E s : SumsOf(s, b, R)
  <2>1. \A m \in R : b[m] \in Int
    BY <1>4
  <2> HIDE DEF R, b
  <2>2. QED
    BY <1>4, <2>1, SumsOfExist
<1>6. PICK s : SumsOf(s, b, R)
  BY <1>5
<1>7. ReceivedFrom(p, v, q, i) = s[R]
  BY <1>1, <1>6, ReceivedFromIs
<1>8. q \in Holders(v, g) <=> g \in GhostIndices[v][q]
  BY <1>1 DEF Holders
<1> HIDE DEF R, g, first
<1>9. CASE g \in GhostIndices[v][q]
  <2>1. PICK m \in 1 .. NumGhosts(q, v, p) :
          /\ Wanted(p, v, q)[m] = g
          /\ GhostSegmentStart(q, v, p) + m - 1 = localGhostIndex(GhostIndices[v][q], g)
    BY <1>1, <1>3, <1>9, GhostIsWanted
  <2>2. R = {m}
    <3>1. NumGhosts(q, v, p) \in Nat
      BY <1>1, SegmentsFit
    <3>2. \A k \in 1 .. NumGhosts(q, v, p) :
            Cardinality(Below(GhostsOf(OwnedRanges[v], GhostIndices[v][q], p),
                              Wanted(p, v, q)[k])) = k - 1
      BY <1>1, WantedAre
    <3>3. ASSUME NEW k \in R PROVE k = m
      <4>1. k \in 1 .. NumGhosts(q, v, p) /\ Wanted(p, v, q)[k] = Wanted(p, v, q)[m]
        BY <1>4, <2>1
      <4>2. k - 1 = m - 1
        BY <3>2, <4>1
      <4>3. QED
        BY <3>1, <4>1, <4>2
    <3>4. m \in R
      BY <1>4, <2>1
    <3>5. QED
      BY <3>3, <3>4
  <2>3. b[m] \in Int
    BY <2>1
  <2>4. s[R] = b[m]
    <3> HIDE DEF b
    <3>1. QED
      BY <1>6, <2>2, <2>3, SumOfOne
  <2>5. b[m] = M.ghost[q][v][GhostSegmentStart(q, v, p) + m - 1]
    <3>1. Gather # Scatter
      BY DEF Gather, Scatter
    <3>2. QED
      BY <2>1, <3>1 DEF Data
  <2>6. Contribution(M, v, g, q) = b[m]
    BY <2>1, <2>5 DEF Contribution
  <2>7. QED
    BY <1>7, <1>8, <1>9, <2>4, <2>6 DEF g
<1>10. CASE g \notin GhostIndices[v][q]
  <2>1. R = {}
    <3>1. \A m \in 1 .. NumGhosts(q, v, p) : Wanted(p, v, q)[m] \in GhostIndices[v][q]
      <4>1. PICK W : W = Wanted(p, v, q)
        OBVIOUS
      <4>2. PICK N : N = NumGhosts(q, v, p)
        OBVIOUS
      <4>3. W \in [1 .. N -> GhostIndices[v][q]]
        BY <1>1, <4>1, <4>2, WantedAre
      <4>4. QED
        BY <4>1, <4>2, <4>3
    <3>2. QED
      BY <1>4, <1>10, <3>1
  <2>2. s[R] = 0
    BY <1>6, <2>1 DEF SumsOf
  <2>3. QED
    BY <1>7, <1>8, <1>10, <2>2 DEF g
<1>11. QED
  BY <1>9, <1>10

\* What an owner receives for an entry is all the ghost entries of its index.
LEMMA ReceivedIsContributed ==
  ASSUME HeapTyped, RanksInOrder, NEW v \in Vec, NEW p \in Rank, NEW i \in localOwned(p, v),
         NEW M, \A q \in getTargetProcIds(p, v) : buffer[p][v][q] = Data(M, q, p, Gather, v)
  PROVE  Received(p, v, i) = Contributions(M, v, Global(p, v, i))
<1> DEFINE g == Global(p, v, i)
           S == getTargetProcIds(p, v)
           R == Holders(v, g)
           f == [q \in S |-> ReceivedFrom(p, v, q, i)]
           h == [q \in R |-> Contribution(M, v, g, q)]
<1>1. S \subseteq Rank /\ IsFiniteSet(R) /\ R \subseteq Rank
  BY TargetsFinite, HoldersFinite
<1>2. \A q \in S : buffer[p][v][q] \in [1 .. NumGhosts(q, v, p) -> Int]
  <2>1. BufferTyped(p, v, buffer[p][v])
    BY TypedAt
  <2>2. QED
    BY <2>1 DEF BufferTyped
<1>3. \A q \in S : f[q] = IF q \in R THEN Contribution(M, v, g, q) ELSE 0
  <2> SUFFICES ASSUME NEW q \in S
               PROVE  f[q] = IF q \in R THEN Contribution(M, v, g, q) ELSE 0
    OBVIOUS
  <2>1. f[q] = ReceivedFrom(p, v, q, i)
    OBVIOUS
  <2> HIDE DEF f
  <2>2. QED
    BY <1>2, <2>1, ReceivedFromHolder
<1>4. \A q \in S : f[q] \in Int
  BY <1>2, ReceivedIsInt
<1>5. R \in SUBSET S
  <2> SUFFICES ASSUME NEW q \in R PROVE q \in S
    OBVIOUS
  <2>1. q \in Rank /\ g \in GhostIndices[v][q]
    BY DEF Holders
  <2>2. g \in Indices(OwnedRanges[v][p])
    <3>1. OwnedRanges[v][p].first \in Nat /\ OwnedRanges[v][p].second \in Nat
      BY PatternIs
    <3>2. QED
      BY <3>1 DEF Global, localOwned, Size, Indices
  <2> HIDE DEF g
  <2>3. Owner(v, g) = p
    BY <2>1, <2>2, OwnerIs
  <2>4. p \in getGhostProcIds(q, v)
    BY <2>1, <2>3, GhostsCounted
  <2>5. QED
    BY <2>1, <2>4 DEF getTargetProcIds
<1>6. \A q \in R : h[q] = f[q] /\ h[q] \in Int
  <2> SUFFICES ASSUME NEW q \in R PROVE h[q] = f[q] /\ h[q] \in Int
    OBVIOUS
  <2>1. h[q] = Contribution(M, v, g, q) /\ q \in S
    BY <1>5
  <2> HIDE DEF f, h, R, S, g
  <2>2. QED
    BY <1>3, <1>4, <2>1
<1>7. PICK s : SumsOf(s, h, R)
  <2>1. \A q \in R : h[q] \in Int
    BY <1>6
  <2>2. \E s : SumsOf(s, h, R)
    <3> HIDE DEF h, R
    <3>1. QED
      BY <1>1, <2>1, SumsOfExist
  <2>3. QED
    BY <2>2
<1>8. Contributions(M, v, g) = s[R]
  <2> HIDE DEF g
  <2>1. QED
    BY <1>7, ContributionsAre
<1>9. SumsOf(s, f, R)
  <2> HIDE DEF f, h, R, S
  <2>1. QED
    BY <1>6, <1>7 DEF SumsOf
<1> DEFINE r == [T \in SUBSET S |-> s[T \cap R]]
<1>10. SumsOf(r, f, S)
  <2>1. \A q \in S \ R : f[q] = 0
    <3> HIDE DEF f, R, S
    <3>1. QED
      BY <1>3
  <2> HIDE DEF f, R, S
  <2>2. QED
    BY <1>5, <1>9, <2>1, SumsOfPart
<1>11. Received(p, v, i) = r[S]
  <2> HIDE DEF r
  <2>1. QED
    BY <1>10, ReceivedIs
<1>12. r[S] = s[R]
  <2>1. S \cap R = R
    BY <1>5
  <2> HIDE DEF R, S
  <2>2. r[S] = s[S \cap R]
    OBVIOUS
  <2>3. QED
    BY <2>1, <2>2
<1>13. QED
  BY <1>8, <1>11, <1>12

\* After an accumulation an owner has added all ghost entries to its own.
LEMMA AccumulateEndFollows ==
  ASSUME SInv, NEW p \in Rank, NEW v \in Vec, accumulateAddLocallyOwnedEnd(p, v)
  PROVE  Followed'
<1> DEFINE n == pos[p]
           l == LastOf(p, v)
           M == Meaning(program)
           e == [i \in localOwned(p, v) |-> owned[p][v][i] + Received(p, v, i)]
<1>0. /\ TInv /\ QueuesOK /\ HeapTyped /\ RanksInOrder /\ program \in Programs
      /\ IsHeap(owned) /\ HeapFollows(p, v) /\ UNCHANGED mpi
      /\ At(p, "accumulateEnd", v) /\ Advance(p) /\ Sent(p, Gather, v) /\ Delivered(p, Gather, v)
      /\ ghost' = ghost /\ buffer' = buffer
  BY DEF SInv, TInv, IInv, QueuesOK, HeapTyped, accumulateAddLocallyOwnedEnd
<1>1. /\ n + 1 \in 1 .. Len(program) /\ program[n + 1] = [op |-> "accumulateEnd", v |-> v]
      /\ program[n + 1].op = "accumulateEnd" /\ program[n + 1].v = v
      /\ n \in Nat /\ n \in 0 .. Len(program) /\ Accumulating(p, v) /\ ~Updating(p, v)
  BY <1>0, StepIs
<1>2. (n + 1) - 1 = n
  BY <1>1
<1>3. owned' = Stored(owned, p, v, e)
  BY <1>0, AccumulateIs
<1>4. M[n + 1].ghost[p][v] = M[(n + 1) - 1].ghost[p][v]
  <2> HIDE DEF n
  <2>1. QED
    BY <1>0, <1>1, Untouched
<1>5. /\ owned[p][v] = M[n].owned[p][v] /\ ghost[p][v] = M[n].ghost[p][v]
      /\ \A k \in getTargetProcIds(p, v) :
           \/ Pending(k, p, Gather, v)
           \/ buffer[p][v][k] = Data(M[l], k, p, Gather, v)
  <2>1. PICK nn : nn = pos[p]
    OBVIOUS
  <2>2. PICK ll : ll = LastOf(p, v)
    OBVIOUS
  <2>3. PICK mm : mm = M
    OBVIOUS
  <2>4. /\ owned[p][v] = mm[nn].owned[p][v]
        /\ ~Updating(p, v) => ghost[p][v] = mm[nn].ghost[p][v]
        /\ Accumulating(p, v) =>
             \A k \in getTargetProcIds(p, v) :
               \/ Pending(k, p, Gather, v)
               \/ buffer[p][v][k] = Data(mm[ll], k, p, Gather, v)
    BY <1>0, <2>1, <2>2, <2>3, HeapIs
  <2>5. QED
    BY <1>1, <2>1, <2>2, <2>3, <2>4
<1>6. \A k \in getTargetProcIds(p, v) :
        ~Pending(k, p, Gather, v) /\ Data(M[l], k, p, Gather, v) = Data(M[n], k, p, Gather, v)
  <2> SUFFICES ASSUME NEW k \in getTargetProcIds(p, v)
               PROVE  /\ ~Pending(k, p, Gather, v)
                      /\ Data(M[l], k, p, Gather, v) = Data(M[n], k, p, Gather, v)
    OBVIOUS
  <2>1. k \in Rank /\ Gather \in Tag
    BY TargetsFinite DEF Tag
  <2>2. ~Pending(k, p, Gather, v)
    BY <1>0, <2>1, NonePending
  <2>3. M[n].owned[k][v] = M[l].owned[k][v] /\ M[n].ghost[k][v] = M[l].ghost[k][v]
    BY <1>0, <1>1, <2>1, QuietSince DEF LastOf
  <2> HIDE DEF M, n, l
  <2>4. QED
    BY <2>2, <2>3, DataSame
<1>7. \A k \in getTargetProcIds(p, v) : buffer[p][v][k] = Data(M[n], k, p, Gather, v)
  <2> HIDE DEF M, n, l
  <2>1. QED
    BY <1>5, <1>6
<1>8. M[n + 1].owned[p][v] = e
  <2>1. PICK m : m = n + 1
    OBVIOUS
  <2>2. PICK A : A = M[m - 1]
    OBVIOUS
  <2>3. M[m].owned[p][v] = AfterOwned(program, m, A, p, v)
    BY <1>0, <1>1, <2>1, <2>2, AfterIs
  <2>4. A = M[n] /\ A.owned[p][v] = owned[p][v]
    BY <1>2, <1>5, <2>1, <2>2
  <2> HIDE DEF M
  <2>5. \A k \in getTargetProcIds(p, v) : buffer[p][v][k] = Data(A, k, p, Gather, v)
    BY <1>7, <2>4
  <2>6. \A i \in localOwned(p, v) : Received(p, v, i) = Contributions(A, v, Global(p, v, i))
    BY <1>0, <2>5, ReceivedIsContributed
  <2>7. program[m] = [op |-> "accumulateEnd", v |-> v]
    BY <1>1, <2>1
  <2>8. AfterOwned(program, m, A, p, v) =
          [i \in localOwned(p, v) |-> A.owned[p][v][i] + Contributions(A, v, Global(p, v, i))]
    <3>1. program[m] # [op |-> "compute", v |-> v]
      BY <2>7
    <3>2. QED
      BY <2>7, <3>1 DEF AfterOwned
  <2>9. e = [i \in localOwned(p, v) |-> A.owned[p][v][i] + Contributions(A, v, Global(p, v, i))]
    BY <2>4, <2>6
  <2> HIDE DEF e
  <2>10. QED
    BY <2>1, <2>3, <2>8, <2>9
<1> HIDE DEF e, M, l
<1>9. owned'[p][v] = M[n + 1].owned[p][v] /\ ghost'[p][v] = M[n + 1].ghost[p][v]
  BY <1>0, <1>2, <1>3, <1>4, <1>5, <1>8, HeapSet
<1>10. HeapFollows(p, v)'
  BY <1>0, <1>9, ThisFollows DEF M
<1>11. sends' = sends /\ receives' = receives
  BY <1>0 DEF mpi
<1>12. \A a \in Rank : \A w \in Vec : HeapFollows(a, w)'
  BY <1>0, <1>3, <1>10, <1>11, HeapsFollow
<1>13. \A a, b \in Rank : \A u \in Tag : QueuesFollow(a, b, u)'
  <2>1. (\A u \in Tag : "accumulateEnd" # BeginOp(u)) /\ "updateEnd" # "accumulateEnd"
    BY DEF BeginOp
  <2>2. QED
    BY <1>0, <2>1, OtherQueues
<1>14. QED
  BY <1>12, <1>13 DEF Followed

-----------------------------------------------------------------------------
\* MPI reads the data of a message that it has not read.
LEMMA InjectedFrom ==
  ASSUME IInv, NEW p \in Rank, NEW q \in Rank, NEW t \in Tag, NEW i, Inject(p, q, t, i)
  PROVE  /\ sends[p][q][t][i].v \in Vec /\ Exchanged(p, q, t, sends[p][q][t][i].v)
         /\ i \in 1 .. Len(sends[p][q][t]) /\ sends[p][q][t][i].data = <<>>
<1> DEFINE s == sends[p][q][t]
<1>1. IsQueue(s) /\ \A j \in 1 .. Len(s) : s[j].v \in Vec /\ Exchanged(p, q, t, s[j].v)
  BY QueuedIsExchanged
<1>2. i \in DOMAIN s /\ s[i].data = <<>>
  BY DEF Inject
<1> HIDE DEF s
<1>3. i \in 1 .. Len(s)
  BY <1>1, <1>2 DEF IsQueue
<1>4. QED
  BY <1>1, <1>2, <1>3 DEF s

\* What MPI reads for a message is what its operation sends.
LEMMA InjectedData ==
  ASSUME SInv, NEW p \in Rank, NEW q \in Rank, NEW t \in Tag, NEW i, Inject(p, q, t, i),
         NEW k, MessageFollows(program, pos[p], p, q, t, sends[p][q][t][i], k),
         k # 0, program[k].op = BeginOp(t)
  PROVE  SendData(p, q, t, sends[p][q][t][i].v) =
           Data(Meaning(program)[k], p, q, t, sends[p][q][t][i].v)
<1> DEFINE w == sends[p][q][t][i].v
           M == Meaning(program)
<1>1. /\ IInv /\ HeapTyped /\ QueuesOK /\ program \in Programs
      /\ pos[p] \in 0 .. Len(program)
  <2>1. IInv /\ HeapTyped /\ QueuesOK
    BY DEF SInv, TInv, IInv
  <2>2. program \in Programs /\ pos[p] \in Nat /\ pos[p] <= Len(program)
    BY <2>1 DEF QueuesOK
  <2>3. Len(program) \in Nat
    BY <2>2, ProgramAssumption
  <2>4. QED
    BY <2>1, <2>2, <2>3
<1>2. w \in Vec /\ Exchanged(p, q, t, w) /\ sends[p][q][t][i].data = <<>>
  <2>1. IInv
    BY <1>1
  <2>2. QED
    BY <2>1, InjectedFrom
<1>3. k = LastOf(p, w)
  BY <1>2 DEF MessageFollows, LastOf
<1> HIDE DEF w
<1>4. HeapFollows(p, w)
  BY <1>2 DEF SInv
<1>5. PICK n : n = pos[p]
  OBVIOUS
<1>6. CASE t = Scatter
  <2>1. Updating(p, w)
    BY <1>3, <1>6 DEF Updating, LatestIs, LastOf, BeginOp
  <2>2. q \in getTargetProcIds(p, w)
    BY <1>2, <1>6, Partners
  <2>3. buffer[p][w][q] = Data(M[k], p, q, Scatter, w)
    BY <1>3, <1>4, <2>1, <2>2 DEF HeapFollows, BufferFollows, MemoryAt
  <2>4. QED
    BY <1>6, <2>3 DEF SendData, w
<1>7. CASE t = Gather
  <2>1. t # Scatter /\ "updateBegin" # "accumulateBegin"
    BY <1>7 DEF Gather, Scatter
  <2>2. ~Updating(p, w)
    BY <1>3, <2>1 DEF Updating, LatestIs, LastOf, BeginOp
  <2>3. ghost[p][w] = M[n].ghost[p][w]
    BY <1>4, <1>5, <2>2 DEF HeapFollows, GhostFollows, MemoryAt
  <2>4. M[n].ghost[p][w] = M[k].ghost[p][w]
    BY <1>1, <1>2, <1>3, <1>5, QuietSince DEF LastOf
  <2> HIDE DEF M
  <2>5. SendData(p, q, t, w) = Data(M[k], p, q, t, w)
    BY <2>1, <2>3, <2>4 DEF SendData, Data
  <2>6. QED
    BY <2>5 DEF M, w
<1>8. QED
  BY <1>6, <1>7 DEF Tag

\* Reading the data of a message changes no vector and no other message.
LEMMA InjectFollowed ==
  ASSUME SInv, NEW p \in Rank, NEW q \in Rank, NEW t \in Tag, NEW i, Inject(p, q, t, i)
  PROVE  Followed'
<1> DEFINE s == sends[p][q][t]
           w == s[i].v
           d == SendData(p, q, t, w)
<1>0. IInv /\ HeapTyped /\ QueuesOK /\ program \in Programs
  BY DEF SInv, TInv, IInv, QueuesOK
<1>1. /\ i \in 1 .. Len(s) /\ s[i].data = <<>> /\ w \in Vec /\ Exchanged(p, q, t, w)
  BY <1>0, InjectedFrom
<1>2. /\ program' = program /\ pos' = pos
      /\ owned' = owned /\ ghost' = ghost /\ buffer' = buffer /\ receives' = receives
      /\ \A a, b \in Rank : \A u \in Tag :
           /\ Len(sends'[a][b][u]) = Len(sends[a][b][u])
           /\ \A j \in 1 .. Len(sends[a][b][u]) :
                sends'[a][b][u][j] = IF a = p /\ b = q /\ u = t /\ j = i
                                     THEN [v |-> w, data |-> d] ELSE sends[a][b][u][j]
  BY <1>0, InjectIs, SMTT(30)
<1>3. ASSUME NEW a \in Rank, NEW x \in Vec PROVE HeapFollows(a, x)'
  <2>1. HeapFollows(a, x)
    BY DEF SInv
  <2>2. \A b \in Rank : \A u \in Tag : Pending(b, a, u, x) => Pending(b, a, u, x)'
    BY <1>2 DEF Pending
  <2>3. InUpdate(a, x) => InUpdate(a, x)'
    BY <1>2 DEF InUpdate, Opened, Count
  <2>4. Latest(program, pos'[a], x) = LastOf(a, x)
    BY <1>2 DEF LastOf
  <2>5. QED
    BY <1>2, <2>1, <2>2, <2>3, <2>4, HeapSame
<1>4. d # <<>>
  <2> HIDE DEF w
  <2>1. QED
    BY <1>0, <1>1, SendDataTyped
<1>5. ASSUME NEW k, MessageFollows(program, pos[p], p, q, t, s[i], k),
             k # 0, program[k].op = BeginOp(t)
      PROVE  d = Data(Meaning(program)[k], p, q, t, w) /\ w = program[k].v
  <2>1. d = Data(Meaning(program)[k], p, q, t, w)
    BY <1>5, InjectedData
  <2>2. w = program[k].v
    <3> HIDE DEF s
    <3>1. s[i].v = program[k].v
      BY <1>5 DEF MessageFollows
    <3>2. QED
      BY <3>1
  <2>3. QED
    BY <2>1, <2>2
<1> HIDE DEF d, w
<1>6. ASSUME NEW a \in Rank, NEW b \in Rank, NEW u \in Tag PROVE QueuesFollow(a, b, u)'
  <2>1. PICK c \in Nat : /\ c <= pos[a] /\ c <= pos[b]
                         /\ SendsFollow(a, b, u, c) /\ ReceivesFollow(a, b, u, c)
    BY DEF SInv, QueuesFollow
  <2>2. PICK r : r = receives[b][a][u]
    OBVIOUS
  <2>3. PICK nb : nb = pos[b]
    OBVIOUS
  <2>4. ReceivesFollow(a, b, u, c)'
    <3>1. PICK g : /\ Lists(g, Len(r), Between(a, b, u, c, nb))
                   /\ \A j \in 1 .. Len(r) : ReceiveFollows(program, nb, r[j], g[j])
      BY <2>1, <2>2, <2>3 DEF ReceivesFollow
    <3>2. r = receives'[b][a][u] /\ nb = pos'[b]
      BY <1>2, <2>2, <2>3
    <3>3. QED
      BY <1>2, <3>1, <3>2, ReceivesNext
  <2>5. PICK y : y = sends[a][b][u]
    OBVIOUS
  <2>6. PICK z : z = sends'[a][b][u]
    OBVIOUS
  <2>7. PICK n : n = pos[a]
    OBVIOUS
  <2>8. PICK f : /\ Lists(f, Len(y), Between(a, b, u, c, n))
                 /\ \A j \in 1 .. Len(y) : MessageFollows(program, n, a, b, u, y[j], f[j])
    BY <2>1, <2>5, <2>7 DEF SendsFollow
  <2>9. /\ Len(z) = Len(y)
        /\ \A j \in 1 .. Len(y) :
             z[j] = IF a = p /\ b = q /\ u = t /\ j = i THEN [v |-> w, data |-> d] ELSE y[j]
    BY <1>2, <2>5, <2>6
  <2>10. ASSUME NEW j \in 1 .. Len(z)
         PROVE  MessageFollows(program, n, a, b, u, z[j], f[j])
    <3>1. j \in 1 .. Len(y) /\ MessageFollows(program, n, a, b, u, y[j], f[j])
      BY <2>8, <2>9
    <3>2. CASE a = p /\ b = q /\ u = t /\ j = i
      <4>1. y = s /\ n = pos[p]
        BY <2>5, <2>7, <3>2 DEF s
      <4>2. PICK k : k = f[j]
        OBVIOUS
      <4>3. k # 0 /\ program[k].op = BeginOp(u)
        BY <1>0, <2>8, <3>1, <4>2, PlaceOf
      <4>4. MessageFollows(program, pos[p], p, q, t, s[i], k)
        BY <3>1, <3>2, <4>1, <4>2
      <4>5. d = Data(Meaning(program)[k], p, q, t, w) /\ w = program[k].v
        BY <1>5, <3>2, <4>3, <4>4
      <4>6. PICK m : m = [v |-> w, data |-> d]
        OBVIOUS
      <4>7. m.v = w /\ m.data = d
        BY <4>6
      <4>8. z[j] = m
        BY <2>9, <3>1, <3>2, <4>6
      <4>9. MessageFollows(program, n, a, b, u, m, k)
        BY <1>4, <3>2, <4>5, <4>7 DEF MessageFollows
      <4>10. QED
        BY <4>2, <4>8, <4>9
    <3>3. CASE ~(a = p /\ b = q /\ u = t /\ j = i)
      <4>1. z[j] = y[j]
        BY <2>9, <3>1, <3>3
      <4>2. QED
        BY <3>1, <4>1
    <3>4. QED
      BY <3>2, <3>3
  <2>11. SendsFollow(a, b, u, c)'
    <3>1. n = pos'[a] /\ Lists(f, Len(z), Between(a, b, u, c, n))
      BY <1>2, <2>7, <2>8, <2>9
    <3>2. QED
      BY <1>2, <2>6, <2>10, <3>1, SendsNext
  <2>12. QED
    BY <1>2, <2>1, <2>4, <2>11 DEF QueuesFollow
<1>7. QED
  BY <1>3, <1>6 DEF Followed

-----------------------------------------------------------------------------
\* A list without its head.
Rest(f, n) == [i \in 1 .. n - 1 |-> f[i + 1]]

LEMMA RestIs ==
  ASSUME NEW n \in Nat, n >= 1, NEW S \in SUBSET Nat, NEW f, Lists(f, n, S)
  PROVE  f[1] \in S /\ Lists(Rest(f, n), n - 1, {x \in S : f[1] < x})
BY ListShrinks DEF Rest

\* The oldest message and the oldest receive have the same place in the program,
\* and the rest of each list begins after it.
LEMMA HeadsMeet ==
  ASSUME NEW p, NEW q, NEW t, NEW c \in Nat, NEW n \in Nat, NEW m \in Nat,
         NEW k \in Nat, k >= 1, NEW l \in Nat, l >= 1, NEW f, NEW g,
         Lists(f, k, Between(p, q, t, c, n)), Lists(g, l, Between(p, q, t, c, m))
  PROVE  /\ f[1] = g[1] /\ f[1] \in Nat /\ f[1] <= n /\ f[1] <= m
         /\ Lists(Rest(f, k), k - 1, Between(p, q, t, f[1], n))
         /\ Lists(Rest(g, l), l - 1, Between(p, q, t, f[1], m))
<1> DEFINE U == {x \in Exchanges(p, q, t) : c < x}
           S == Between(p, q, t, c, n)
           R == Between(p, q, t, c, m)
<1>1. /\ U \in SUBSET Nat /\ S = UpTo(U, n) /\ R = UpTo(U, m)
      /\ S \in SUBSET Nat /\ R \in SUBSET Nat
  BY DEF Between, Exchanges, UpTo
<1>2. f[1] = g[1]
  <2>1. Lists(f, k, UpTo(U, n)) /\ Lists(g, l, UpTo(U, m)) /\ U \in SUBSET Nat
    BY <1>1
  <2> HIDE DEF U
  <2>2. \A i \in (1 .. k) \cap (1 .. l) : f[i] = g[i]
    BY <2>1, ListsAgree
  <2>3. QED
    BY <2>2
<1>3. f[1] \in S /\ Lists(Rest(f, k), k - 1, {x \in S : f[1] < x})
  <2>1. Lists(f, k, S)
    OBVIOUS
  <2> HIDE DEF S
  <2>2. QED
    BY <1>1, <2>1, RestIs
<1>4. g[1] \in R /\ Lists(Rest(g, l), l - 1, {x \in R : g[1] < x})
  <2>1. Lists(g, l, R)
    OBVIOUS
  <2> HIDE DEF R
  <2>2. QED
    BY <1>1, <2>1, RestIs
<1> DEFINE d == f[1]
<1>5. d \in Nat /\ c < d /\ d <= n /\ d <= m
  BY <1>1, <1>2, <1>3, <1>4 DEF UpTo
<1>6. /\ {x \in S : f[1] < x} = Between(p, q, t, d, n)
      /\ {x \in R : g[1] < x} = Between(p, q, t, d, m)
  <2>1. \A x \in Exchanges(p, q, t) : x \in Int
    BY DEF Exchanges
  <2>2. \A x \in Int : d < x => c < x
    BY <1>5
  <2>3. g[1] = d
    BY <1>2
  <2> HIDE DEF d
  <2>4. {x \in S : d < x} = Between(p, q, t, d, n) /\ {x \in R : d < x} = Between(p, q, t, d, m)
    BY <2>1, <2>2 DEF Between
  <2>5. QED
    BY <2>3, <2>4 DEF d
<1>7. QED
  BY <1>2, <1>3, <1>4, <1>5, <1>6

\* What is delivered is what the receiver's last operation on the vector wants, and
\* the messages that remain follow the program.
LEMMA DeliveredHead ==
  ASSUME SInv, NEW p \in Rank, NEW q \in Rank, NEW t \in Tag, Deliver(p, q, t),
         NEW w, w = receives[q][p][t][1], NEW d, d = sends[p][q][t][1].data
  PROVE  /\ LastOf(q, w) # 0 /\ program[LastOf(q, w)].op = BeginOp(t)
         /\ d = Data(Meaning(program)[LastOf(q, w)], p, q, t, w)
         /\ QueuesFollow(p, q, t)'
<1> DEFINE s == sends[p][q][t]
           r == receives[q][p][t]
<1>0. /\ IInv /\ HeapTyped /\ QueuesOK /\ program \in Programs
      /\ pos[p] \in Nat /\ pos[q] \in Nat
  BY DEF SInv, TInv, IInv, QueuesOK
<1>1. /\ 1 \in 1 .. Len(s) /\ 1 \in 1 .. Len(r) /\ s[1].v = r[1]
      /\ Len(s) \in Nat /\ Len(r) \in Nat /\ s[1].data # <<>>
      /\ QueuesDelivered(p, q, t, s, r)
  BY <1>0, DeliverIs
<1>2. PICK c \in Nat : SendsFollow(p, q, t, c) /\ ReceivesFollow(p, q, t, c)
  BY DEF SInv, QueuesFollow
<1>3. PICK n : n = pos[p]
  OBVIOUS
<1>4. PICK m : m = pos[q]
  OBVIOUS
<1>5. PICK f : /\ Lists(f, Len(s), Between(p, q, t, c, n))
               /\ \A i \in 1 .. Len(s) : MessageFollows(program, n, p, q, t, s[i], f[i])
  BY <1>2, <1>3 DEF SendsFollow
<1>6. PICK g : /\ Lists(g, Len(r), Between(p, q, t, c, m))
               /\ \A i \in 1 .. Len(r) : ReceiveFollows(program, m, r[i], g[i])
  BY <1>2, <1>4 DEF ReceivesFollow
<1>7. n \in Nat /\ m \in Nat /\ w = r[1] /\ d = s[1].data
  BY <1>0, <1>3, <1>4
<1>8. /\ program' = program /\ pos'[p] = n /\ pos'[q] = m
      /\ Len(sends'[p][q][t]) = Len(s) - 1
      /\ \A j \in 1 .. Len(s) - 1 : sends'[p][q][t][j] = s[j + 1]
      /\ Len(receives'[q][p][t]) = Len(r) - 1
      /\ \A j \in 1 .. Len(r) - 1 : receives'[q][p][t][j] = r[j + 1]
  <2> HIDE DEF s, r
  <2>1. QED
    BY <1>1, <1>3, <1>4 DEF QueuesDelivered
<1> HIDE DEF s, r
<1>9. Len(s) >= 1 /\ Len(r) >= 1
  BY <1>1
<1> DEFINE f1 == Rest(f, Len(s))
           g1 == Rest(g, Len(r))
<1>10. /\ f[1] = g[1] /\ f[1] \in Nat /\ f[1] <= n /\ f[1] <= m
       /\ Lists(f1, Len(s) - 1, Between(p, q, t, f[1], n))
       /\ Lists(g1, Len(r) - 1, Between(p, q, t, f[1], m))
  BY <1>1, <1>5, <1>6, <1>7, <1>9, HeadsMeet
<1>11. (\A i \in 1 .. Len(s) - 1 : f1[i] = f[i + 1]) /\ (\A i \in 1 .. Len(r) - 1 : g1[i] = g[i + 1])
  BY DEF Rest
<1> HIDE DEF f1, g1
<1>12. f[1] # 0 /\ program[f[1]].op = BeginOp(t)
  BY <1>0, <1>1, <1>5, PlaceOf
<1>13. LastOf(q, w) = f[1]
  BY <1>1, <1>4, <1>6, <1>7, <1>10 DEF ReceiveFollows, LastOf
<1>14. d = Data(Meaning(program)[f[1]], p, q, t, w)
  BY <1>1, <1>5, <1>7 DEF MessageFollows
<1>15. PICK z : z = sends'[p][q][t]
  OBVIOUS
<1>16. PICK y : y = receives'[q][p][t]
  OBVIOUS
<1>17. SendsFollow(p, q, t, f[1])'
  <2>1. ASSUME NEW i \in 1 .. Len(z)
        PROVE  MessageFollows(program, n, p, q, t, z[i], f1[i])
    <3>1. i \in 1 .. Len(s) - 1 /\ z[i] = s[i + 1] /\ f1[i] = f[i + 1]
      BY <1>8, <1>11, <1>15
    <3>2. i + 1 \in 1 .. Len(s)
      BY <1>1, <3>1
    <3>3. MessageFollows(program, n, p, q, t, s[i + 1], f[i + 1])
      BY <1>5, <3>2
    <3>4. QED
      BY <3>1, <3>3
  <2>2. Lists(f1, Len(z), Between(p, q, t, f[1], n)) /\ n = pos'[p]
    BY <1>8, <1>10, <1>15
  <2>3. PICK k : k = f[1]
    OBVIOUS
  <2>4. QED
    BY <1>8, <1>15, <2>1, <2>2, <2>3, SendsNext
<1>18. ReceivesFollow(p, q, t, f[1])'
  <2>1. ASSUME NEW i \in 1 .. Len(y)
        PROVE  ReceiveFollows(program, m, y[i], g1[i])
    <3>1. i \in 1 .. Len(r) - 1 /\ y[i] = r[i + 1] /\ g1[i] = g[i + 1]
      BY <1>8, <1>11, <1>16
    <3>2. i + 1 \in 1 .. Len(r)
      BY <1>1, <3>1
    <3>3. ReceiveFollows(program, m, r[i + 1], g[i + 1])
      BY <1>6, <3>2
    <3>4. QED
      BY <3>1, <3>3
  <2>2. Lists(g1, Len(y), Between(p, q, t, f[1], m)) /\ m = pos'[q]
    BY <1>8, <1>10, <1>16
  <2>3. PICK k : k = f[1]
    OBVIOUS
  <2>4. QED
    BY <1>8, <1>16, <2>1, <2>2, <2>3, ReceivesNext
<1>19. QueuesFollow(p, q, t)'
  BY <1>8, <1>10, <1>17, <1>18 DEF QueuesFollow
<1>20. QED
  BY <1>12, <1>13, <1>14, <1>19

\* The other pairs of ranks and the other tag keep their messages.
LEMMA OtherQueuesKept ==
  ASSUME SInv, NEW a \in Rank, NEW b \in Rank, NEW u \in Tag,
         program' = program, pos' = pos,
         sends'[a][b][u] = sends[a][b][u], receives'[b][a][u] = receives[b][a][u]
  PROVE  QueuesFollow(a, b, u)'
<1>1. PICK c \in Nat : /\ c <= pos[a] /\ c <= pos[b]
                       /\ SendsFollow(a, b, u, c) /\ ReceivesFollow(a, b, u, c)
  BY DEF SInv, QueuesFollow
<1>2. PICK s : s = sends[a][b][u]
  OBVIOUS
<1>3. PICK r : r = receives[b][a][u]
  OBVIOUS
<1>4. PICK n : n = pos[a]
  OBVIOUS
<1>5. PICK m : m = pos[b]
  OBVIOUS
<1>6. SendsFollow(a, b, u, c)'
  <2>1. PICK f : /\ Lists(f, Len(s), Between(a, b, u, c, n))
                 /\ \A i \in 1 .. Len(s) : MessageFollows(program, n, a, b, u, s[i], f[i])
    BY <1>1, <1>2, <1>4 DEF SendsFollow
  <2>2. s = sends'[a][b][u] /\ n = pos'[a]
    BY <1>2, <1>4
  <2>3. QED
    BY <2>1, <2>2, SendsNext
<1>7. ReceivesFollow(a, b, u, c)'
  <2>1. PICK g : /\ Lists(g, Len(r), Between(a, b, u, c, m))
                 /\ \A i \in 1 .. Len(r) : ReceiveFollows(program, m, r[i], g[i])
    BY <1>1, <1>3, <1>5 DEF ReceivesFollow
  <2>2. r = receives'[b][a][u] /\ m = pos'[b]
    BY <1>3, <1>5
  <2>3. QED
    BY <2>1, <2>2, ReceivesNext
<1>8. QED
  BY <1>1, <1>6, <1>7 DEF QueuesFollow

-----------------------------------------------------------------------------
\* A delivery takes the head of one queue only, and no other vector's receive.
LEMMA PendingBut ==
  ASSUME NEW p \in Rank, NEW q \in Rank, NEW t \in Tag, NEW s,
         NEW r \in Seq(Vec), r = receives[q][p][t], 1 \in 1 .. Len(r),
         QueuesDelivered(p, q, t, s, r),
         NEW a \in Rank, NEW b \in Rank, NEW u \in Tag, NEW x,
         ~(a = p /\ b = q /\ u = t /\ x = r[1]), Pending(a, b, u, x)
  PROVE  Pending(a, b, u, x)'
<1>1. CASE a = p /\ b = q /\ u = t
  <2>1. PICK z : z = receives'[q][p][t]
    OBVIOUS
  <2>2. Len(z) = Len(r) - 1 /\ \A j \in 1 .. Len(r) - 1 : z[j] = r[j + 1]
    BY <2>1 DEF QueuesDelivered
  <2>3. PICK i \in 1 .. Len(r) : r[i] = x
    BY <1>1 DEF Pending
  <2>4. i # 1 /\ Len(r) \in Nat
    BY <1>1, <2>3
  <2>5. i - 1 \in 1 .. Len(r) - 1 /\ (i - 1) + 1 = i
    BY <2>3, <2>4
  <2>6. z[i - 1] = x /\ i - 1 \in 1 .. Len(z)
    BY <2>2, <2>3, <2>5
  <2>7. \E j \in 1 .. Len(z) : z[j] = x
    BY <2>6
  <2>8. QED
    BY <1>1, <2>1, <2>7 DEF Pending
<1>2. CASE ~(a = p /\ b = q /\ u = t)
  <2>1. receives'[b][a][u] = receives[b][a][u]
    BY <1>2 DEF QueuesDelivered
  <2>2. QED
    BY <2>1 DEF Pending
<1>3. QED
  BY <1>1, <1>2

\* The number of entries of a message.
Sized(d, n) == DOMAIN d = 1 .. n

\* An update's message fills the sender's segment of the ghost section.
LEMMA SegmentsFilled ==
  ASSUME NEW p \in Rank, NEW q \in Rank, NEW w \in Vec, NEW d,
         Sized(d, NumGhosts(q, w, p)), NEW k \in Rank, NEW m \in 1 .. NumGhosts(q, w, k)
  PROVE  LET j == GhostSegmentStart(q, w, k) + m - 1
         IN  Delivery(p, q, Scatter, w, d)[j] = IF k = p THEN d[m] ELSE ghost[q][w][j]
<1> DEFINE j == GhostSegmentStart(q, w, k) + m - 1
<1>1. /\ GhostSegmentStart(q, w, k) \in Nat /\ NumGhosts(q, w, k) \in Nat
      /\ j \in GhostSegment(q, w, k) /\ j \in localGhost(q, w)
  BY SegmentsFit, SegmentsAre
<1>2. k # p => j \notin GhostSegment(q, w, p)
  <2> SUFFICES ASSUME k # p, j \in GhostSegment(q, w, p) PROVE FALSE
    OBVIOUS
  <2>1. GhostSegment(q, w, k) \cap GhostSegment(q, w, p) = {}
    BY SegmentsAre, Zenon
  <2>2. j \in GhostSegment(q, w, k) \cap GhostSegment(q, w, p)
    BY <1>1
  <2> HIDE DEF j
  <2>3. QED
    BY <2>1, <2>2, Zenon
<1>3. j - GhostSegmentStart(q, w, k) + 1 = m
  BY <1>1
<1> HIDE DEF j
<1>4. CASE k = p
  BY <1>1, <1>3, <1>4 DEF Delivery, Sized, j
<1>5. CASE k # p
  BY <1>1, <1>2, <1>5 DEF Delivery, j
<1>6. QED
  BY <1>4, <1>5

\* HeapNext when the last operation on the vector has begun an exchange.
LEMMA UpdatingNext ==
  ASSUME program' = program, NEW a \in Rank, NEW w \in Vec,
         NEW n, n = pos'[a], NEW l, l = Latest(program, n, w), NEW M, M = Meaning(program),
         owned'[a][w] = M[n].owned[a][w], l # 0, program[l].op = "updateBegin", InUpdate(a, w)',
         \A q \in getTargetProcIds(a, w) : buffer'[a][w][q] = Data(M[l], a, q, Scatter, w),
         \A p \in getGhostProcIds(a, w) :
           \/ Pending(p, a, Scatter, w)'
           \/ \A k \in 1 .. NumGhosts(a, w, p) :
                ghost'[a][w][GhostSegmentStart(a, w, p) + k - 1] = Data(M[l], p, a, Scatter, w)[k]
  PROVE  HeapFollows(a, w)'
<1>1. "updateBegin" # "accumulateBegin"
  OBVIOUS
<1>2. QED
  BY <1>1, HeapNext

LEMMA AccumulatingNext ==
  ASSUME program' = program, NEW a \in Rank, NEW w \in Vec,
         NEW n, n = pos'[a], NEW l, l = Latest(program, n, w), NEW M, M = Meaning(program),
         owned'[a][w] = M[n].owned[a][w], ghost'[a][w] = M[n].ghost[a][w],
         l # 0, program[l].op = "accumulateBegin",
         \A p \in getTargetProcIds(a, w) :
           \/ Pending(p, a, Gather, w)'
           \/ buffer'[a][w][p] = Data(M[l], p, a, Gather, w)
  PROVE  HeapFollows(a, w)'
<1>1. "updateBegin" # "accumulateBegin"
  OBVIOUS
<1>2. QED
  BY <1>1, HeapNext

\* What a delivery leaves on the receiver, for the vector the message is for: n is
\* the receiver's position, l the last operation begun on w, M the program's meaning.
DeliveredTo(p, q, t, w, d, n, l, M) ==
  /\ program' = program
  /\ n = pos'[q] /\ l = Latest(program, n, w) /\ M = Meaning(program)
  /\ l # 0 /\ program[l].op = BeginOp(t) /\ d = Data(M[l], p, q, t, w)
  /\ Sized(d, MessageSize(p, q, t, w))
  /\ owned[q][w] = M[n].owned[q][w]
  /\ ghost[q][w] \in [localGhost(q, w) -> Int]
  /\ DOMAIN buffer[q][w] = getTargetProcIds(q, w)
  /\ owned'[q][w] = owned[q][w]
  /\ ghost'[q][w] = Delivery(p, q, t, w, d)
  /\ buffer'[q][w] = IF t = Gather THEN [buffer[q][w] EXCEPT ![p] = d] ELSE buffer[q][w]
  /\ \A a \in Rank : a # p /\ Pending(a, q, t, w) => Pending(a, q, t, w)'
  /\ InUpdate(q, w) => InUpdate(q, w)'

\* The receiver of an update's message.
LEMMA ScatterFollows ==
  ASSUME NEW p \in Rank, NEW q \in Rank, NEW w \in Vec, NEW d, NEW n, NEW l, NEW M,
         DeliveredTo(p, q, Scatter, w, d, n, l, M), HeapFollows(q, w), pos' = pos
  PROVE  HeapFollows(q, w)'
<1>1. /\ program' = program
      /\ n = pos'[q] /\ n = pos[q] /\ l = Latest(program, n, w) /\ M = Meaning(program)
      /\ l # 0 /\ program[l].op = BeginOp(Scatter) /\ d = Data(M[l], p, q, Scatter, w)
      /\ Sized(d, MessageSize(p, q, Scatter, w))
  BY DEF DeliveredTo
<1>2. program[l].op = "updateBegin" /\ "updateBegin" # "accumulateBegin"
  BY <1>1 DEF BeginOp, Scatter, Gather
<1>3. /\ owned'[q][w] = M[n].owned[q][w]
      /\ ghost'[q][w] = Delivery(p, q, Scatter, w, d)
      /\ buffer'[q][w] = buffer[q][w]
  BY DEF DeliveredTo, Scatter, Gather
<1>4. /\ \A a \in Rank : a # p /\ Pending(a, q, Scatter, w) => Pending(a, q, Scatter, w)'
      /\ InUpdate(q, w) => InUpdate(q, w)'
  BY DEF DeliveredTo
<1>5. l = LastOf(q, w)
  BY <1>1 DEF LastOf
<1>6. Updating(q, w)
  BY <1>1, <1>2, <1>5, HeapIs
<1>7. /\ InUpdate(q, w)
      /\ \A b \in getTargetProcIds(q, w) : buffer[q][w][b] = Data(M[l], q, b, Scatter, w)
      /\ \A a \in getGhostProcIds(q, w) :
           \/ Pending(a, q, Scatter, w)
           \/ \A k \in 1 .. NumGhosts(q, w, a) :
                ghost[q][w][GhostSegmentStart(q, w, a) + k - 1] =
                  Data(M[l], a, q, Scatter, w)[k]
  BY <1>1, <1>5, <1>6, HeapIs
<1>8. Sized(d, NumGhosts(q, w, p))
  BY <1>1 DEF MessageSize, Sized
<1>9. ASSUME NEW a \in getGhostProcIds(q, w)
      PROVE  \/ Pending(a, q, Scatter, w)'
             \/ \A k \in 1 .. NumGhosts(q, w, a) :
                  ghost'[q][w][GhostSegmentStart(q, w, a) + k - 1] =
                    Data(M[l], a, q, Scatter, w)[k]
  <2>1. a \in Rank
    BY GhostsCounted
  <2>2. \A k \in 1 .. NumGhosts(q, w, a) :
          ghost'[q][w][GhostSegmentStart(q, w, a) + k - 1] =
            IF a = p THEN d[k] ELSE ghost[q][w][GhostSegmentStart(q, w, a) + k - 1]
    <3> SUFFICES ASSUME NEW k \in 1 .. NumGhosts(q, w, a)
                 PROVE  LET j == GhostSegmentStart(q, w, a) + k - 1
                        IN  ghost'[q][w][j] = IF a = p THEN d[k] ELSE ghost[q][w][j]
      OBVIOUS
    <3>1. LET j == GhostSegmentStart(q, w, a) + k - 1
          IN  Delivery(p, q, Scatter, w, d)[j] = IF a = p THEN d[k] ELSE ghost[q][w][j]
      BY <1>8, <2>1, SegmentsFilled
    <3>2. QED
      BY <1>3, <3>1
  <2>3. CASE a = p
    BY <1>1, <2>2, <2>3
  <2>4. CASE a # p
    <3>1. CASE Pending(a, q, Scatter, w)
      BY <1>4, <2>1, <2>4, <3>1
    <3>2. CASE \A k \in 1 .. NumGhosts(q, w, a) :
                 ghost[q][w][GhostSegmentStart(q, w, a) + k - 1] = Data(M[l], a, q, Scatter, w)[k]
      BY <2>2, <2>4, <3>2
    <3>3. QED
      BY <1>7, <3>1, <3>2
  <2>5. QED
    BY <2>3, <2>4
<1>10. InUpdate(q, w)' /\ \A b \in getTargetProcIds(q, w) :
                            buffer'[q][w][b] = Data(M[l], q, b, Scatter, w)
  BY <1>3, <1>4, <1>7
<1>11. program' = program /\ n = pos'[q] /\ l = Latest(program, n, w) /\ M = Meaning(program)
  BY <1>1
<1>12. owned'[q][w] = M[n].owned[q][w] /\ l # 0 /\ program[l].op = "updateBegin"
  BY <1>1, <1>2, <1>3
<1>13. QED
  BY <1>9, <1>10, <1>11, <1>12, UpdatingNext

\* The receiver of an accumulation's message.
LEMMA GatherFollows ==
  ASSUME NEW p \in Rank, NEW q \in Rank, NEW w \in Vec, NEW d, NEW n, NEW l, NEW M,
         DeliveredTo(p, q, Gather, w, d, n, l, M), HeapFollows(q, w), pos' = pos
  PROVE  HeapFollows(q, w)'
<1>1. /\ program' = program
      /\ n = pos'[q] /\ n = pos[q] /\ l = Latest(program, n, w) /\ M = Meaning(program)
      /\ l # 0 /\ program[l].op = BeginOp(Gather) /\ d = Data(M[l], p, q, Gather, w)
  BY DEF DeliveredTo
<1>2. program[l].op = "accumulateBegin" /\ "updateBegin" # "accumulateBegin"
  BY <1>1 DEF BeginOp, Scatter, Gather
<1>3. /\ owned'[q][w] = M[n].owned[q][w]
      /\ ghost'[q][w] = ghost[q][w]
  <2>1. /\ owned'[q][w] = M[n].owned[q][w]
        /\ ghost[q][w] \in [localGhost(q, w) -> Int]
        /\ ghost'[q][w] = Delivery(p, q, Gather, w, d)
    BY DEF DeliveredTo
  <2>2. Delivery(p, q, Gather, w, d) = [j \in localGhost(q, w) |-> ghost[q][w][j]]
    BY DEF Delivery, Scatter, Gather
  <2>3. QED
    BY <2>1, <2>2
<1>4. \A a \in Rank : a # p /\ Pending(a, q, Gather, w) => Pending(a, q, Gather, w)'
  BY DEF DeliveredTo
<1>5. l = LastOf(q, w)
  BY <1>1 DEF LastOf
<1>6. Accumulating(q, w) /\ ~Updating(q, w)
  BY <1>1, <1>2, <1>5, HeapIs
<1>7. /\ ghost[q][w] = M[n].ghost[q][w]
      /\ \A a \in getTargetProcIds(q, w) :
           \/ Pending(a, q, Gather, w)
           \/ buffer[q][w][a] = Data(M[l], a, q, Gather, w)
  BY <1>1, <1>5, <1>6, HeapIs
<1>8. ASSUME NEW a \in getTargetProcIds(q, w)
      PROVE  \/ Pending(a, q, Gather, w)'
             \/ buffer'[q][w][a] = Data(M[l], a, q, Gather, w)
  <2>1. a \in Rank
    BY TargetsFinite
  <2>2. buffer'[q][w][a] = IF a = p THEN d ELSE buffer[q][w][a]
    <3>1. PICK e : e = buffer[q][w]
      OBVIOUS
    <3>2. DOMAIN e = getTargetProcIds(q, w) /\ buffer'[q][w] = [e EXCEPT ![p] = d]
      BY <3>1 DEF DeliveredTo
    <3>3. QED
      BY <3>1, <3>2
  <2>3. CASE a = p
    BY <1>1, <2>2, <2>3
  <2>4. CASE a # p
    BY <1>4, <1>7, <2>1, <2>2, <2>4
  <2>5. QED
    BY <2>3, <2>4
<1>9. program' = program /\ n = pos'[q] /\ l = Latest(program, n, w) /\ M = Meaning(program)
  BY <1>1
<1>10. /\ owned'[q][w] = M[n].owned[q][w] /\ ghost'[q][w] = M[n].ghost[q][w]
       /\ l # 0 /\ program[l].op = "accumulateBegin"
  BY <1>1, <1>2, <1>3, <1>7
<1>11. QED
  BY <1>8, <1>9, <1>10, AccumulatingNext

\* The vector that the message is for.
LEMMA DeliveredFollows ==
  ASSUME SInv, NEW p \in Rank, NEW q \in Rank, NEW t \in Tag, Deliver(p, q, t),
         NEW w, w = receives[q][p][t][1]
  PROVE  HeapFollows(q, w)'
<1> DEFINE s == sends[p][q][t]
           r == receives[q][p][t]
<1>0. IInv /\ HeapTyped /\ MessagesTyped /\ QueuesOK /\ r \in Seq(Vec)
  BY DEF SInv, TInv, IInv, QueuesOK
<1>1. PICK d : d = sends[p][q][t][1].data
  OBVIOUS
<1>2. /\ 1 \in 1 .. Len(s) /\ 1 \in 1 .. Len(r) /\ r[1] \in Vec /\ s[1].v = r[1]
      /\ Exchanged(p, q, t, r[1]) /\ s[1].data # <<>>
      /\ HeapDelivered(p, q, t, r[1], s[1].data) /\ QueuesDelivered(p, q, t, s, r)
  BY <1>0, DeliverIs
<1>3. /\ w \in Vec /\ Exchanged(p, q, t, w) /\ HeapDelivered(p, q, t, w, d)
      /\ program' = program /\ pos' = pos
  BY <1>1, <1>2 DEF QueuesDelivered
<1>4. DOMAIN d = 1 .. MessageSize(p, q, t, w)
  <2>1. DataTyped(p, q, t, s[1])
    BY <1>0, <1>2 DEF MessagesTyped
  <2>2. d \in [1 .. MessageSize(p, q, t, w) -> Int]
    BY <1>1, <1>2, <2>1 DEF DataTyped
  <2>3. QED
    BY <2>2
<1>5. /\ LastOf(q, w) # 0 /\ program[LastOf(q, w)].op = BeginOp(t)
      /\ d = Data(Meaning(program)[LastOf(q, w)], p, q, t, w)
  BY <1>1, DeliveredHead
<1>6. PICK n : n = pos[q]
  OBVIOUS
<1>7. PICK l : l = LastOf(q, w)
  OBVIOUS
<1>8. PICK M : M = Meaning(program)
  OBVIOUS
<1>9. l # 0 /\ program[l].op = BeginOp(t) /\ d = Data(M[l], p, q, t, w)
  BY <1>5, <1>7, <1>8
<1>10. n = pos'[q] /\ l = Latest(program, n, w)
  BY <1>3, <1>6, <1>7 DEF LastOf
<1>11. HeapFollows(q, w)
  BY <1>3 DEF SInv
<1>12. owned[q][w] = M[n].owned[q][w]
  BY <1>3, <1>6, <1>7, <1>8, <1>11, HeapIs
<1>13. ghost[q][w] \in [localGhost(q, w) -> Int]
  BY <1>0, <1>3, TypedAt
<1>14. DOMAIN buffer[q][w] = getTargetProcIds(q, w)
  <2>1. BufferTyped(q, w, buffer[q][w])
    BY <1>0, <1>3, TypedAt
  <2>2. QED
    BY <2>1 DEF BufferTyped
<1>15. ASSUME NEW a \in Rank, a # p, Pending(a, q, t, w) PROVE Pending(a, q, t, w)'
  <2>1. PICK y : y = r
    OBVIOUS
  <2>2. PICK z : z = s
    OBVIOUS
  <2>3. y \in Seq(Vec) /\ 1 \in 1 .. Len(y) /\ QueuesDelivered(p, q, t, z, y)
    BY <1>0, <1>2, <2>1, <2>2
  <2>4. QED
    BY <1>15, <2>1, <2>3, PendingBut
<1>16. InUpdate(q, w) => InUpdate(q, w)'
  BY <1>3 DEF InUpdate, Opened, Count
<1>17. /\ owned'[q][w] = owned[q][w]
       /\ ghost'[q][w] = Delivery(p, q, t, w, d)
       /\ buffer'[q][w] = IF t = Gather THEN [buffer[q][w] EXCEPT ![p] = d] ELSE buffer[q][w]
  BY <1>3 DEF HeapDelivered
<1> HIDE DEF s, r
<1>18. Sized(d, MessageSize(p, q, t, w))
  BY <1>4 DEF Sized
<1>19. DeliveredTo(p, q, t, w, d, n, l, M)
  BY <1>3, <1>8, <1>9, <1>10, <1>12, <1>13, <1>14, <1>15, <1>16, <1>17, <1>18 DEF DeliveredTo
<1>20. w \in Vec /\ pos' = pos
  BY <1>3
<1>21. CASE t = Scatter
  <2>1. DeliveredTo(p, q, Scatter, w, d, n, l, M)
    BY <1>19, <1>21
  <2>2. QED
    BY <1>11, <1>20, <2>1, ScatterFollows
<1>22. CASE t = Gather
  <2>1. DeliveredTo(p, q, Gather, w, d, n, l, M)
    BY <1>19, <1>22
  <2>2. QED
    BY <1>11, <1>20, <2>1, GatherFollows
<1>23. QED
  BY <1>21, <1>22 DEF Tag

\* Delivering a message changes no other vector.
LEMMA DeliverFollowed ==
  ASSUME SInv, NEW p \in Rank, NEW q \in Rank, NEW t \in Tag, Deliver(p, q, t)
  PROVE  Followed'
<1> DEFINE s == sends[p][q][t]
           r == receives[q][p][t]
<1>0. IInv /\ HeapTyped /\ QueuesOK /\ r \in Seq(Vec)
  BY DEF SInv, TInv, IInv, QueuesOK
<1>1. /\ 1 \in 1 .. Len(r) /\ r[1] \in Vec
      /\ HeapDelivered(p, q, t, r[1], s[1].data) /\ QueuesDelivered(p, q, t, s, r)
  BY <1>0, DeliverIs
<1>2. PICK w : w = receives[q][p][t][1]
  OBVIOUS
<1>3. /\ program' = program /\ pos' = pos
      /\ \A a, b \in Rank : \A u \in Tag :
           ~(a = p /\ b = q /\ u = t) =>
             /\ sends'[a][b][u] = sends[a][b][u] /\ receives'[b][a][u] = receives[b][a][u]
  <2>1. QueuesDelivered(p, q, t, s, r)
    BY <1>1
  <2> HIDE DEF s, r
  <2>2. QED
    BY <2>1 DEF QueuesDelivered
<1>4. /\ owned' = owned
      /\ \A a \in Rank : \A x \in Vec :
           ~(a = q /\ x = w) => ghost'[a][x] = ghost[a][x] /\ buffer'[a][x] = buffer[a][x]
  <2>1. PICK d : d = s[1].data
    OBVIOUS
  <2>2. HeapDelivered(p, q, t, w, d)
    BY <1>1, <1>2, <2>1
  <2>3. QED
    BY <2>2 DEF HeapDelivered
<1>5. ASSUME NEW a \in Rank, NEW x \in Vec, ~(a = q /\ x = w)
      PROVE  HeapFollows(a, x)'
  <2>1. HeapFollows(a, x)
    BY DEF SInv
  <2>2. ASSUME NEW b \in Rank, NEW u \in Tag, Pending(b, a, u, x)
        PROVE  Pending(b, a, u, x)'
    <3>1. PICK y : y = r
      OBVIOUS
    <3>2. PICK z : z = s
      OBVIOUS
    <3>3. /\ y \in Seq(Vec) /\ 1 \in 1 .. Len(y) /\ QueuesDelivered(p, q, t, z, y)
          /\ y = receives[q][p][t] /\ w = y[1]
      BY <1>0, <1>1, <1>2, <3>1, <3>2
    <3>4. QED
      BY <1>5, <2>2, <3>3, PendingBut
  <2>3. InUpdate(a, x) => InUpdate(a, x)'
    BY <1>3 DEF InUpdate, Opened, Count
  <2>4. Latest(program, pos'[a], x) = LastOf(a, x)
    BY <1>3 DEF LastOf
  <2>5. ghost'[a][x] = ghost[a][x] /\ buffer'[a][x] = buffer[a][x] /\ owned'[a][x] = owned[a][x]
    BY <1>4, <1>5
  <2>6. QED
    BY <1>3, <2>1, <2>2, <2>3, <2>4, <2>5, HeapSame
<1>6. \A a \in Rank : \A x \in Vec : HeapFollows(a, x)'
  BY <1>2, <1>5, DeliveredFollows
<1>7. QueuesFollow(p, q, t)'
  <2>1. PICK d : d = sends[p][q][t][1].data
    OBVIOUS
  <2>2. QED
    BY <1>2, <2>1, DeliveredHead
<1>8. \A a, b \in Rank : \A u \in Tag : QueuesFollow(a, b, u)'
  BY <1>3, <1>7, OtherQueuesKept
<1>9. QED
  BY <1>6, <1>8 DEF Followed

-----------------------------------------------------------------------------
\* The program has not begun: no messages, and the memory is blank.
LEMMA InitFollowed ==
  ASSUME Init, TInv
  PROVE  Followed
<1>1. program \in Programs /\ pos = [p \in Rank |-> 0]
  BY DEF Init
<1>2. ASSUME NEW p \in Rank, NEW v \in Vec PROVE HeapFollows(p, v)
  <2>1. pos[p] = 0
    BY <1>1
  <2>2. MemoryAt(0) = Blank
    BY <1>1, MeaningIs DEF MemoryAt
  <2>3. /\ owned[p][v] = Zero(localOwned(p, v)) /\ ghost[p][v] = Zero(localGhost(p, v))
    BY DEF Init
  <2>4. /\ Blank.owned[p][v] = Zero(localOwned(p, v))
        /\ Blank.ghost[p][v] = Zero(localGhost(p, v))
    BY DEF Blank
  <2>5. OwnedFollows(p, v) /\ GhostFollows(p, v)
    BY <2>1, <2>2, <2>3, <2>4 DEF OwnedFollows, GhostFollows
  <2>6. Latest(program, 0, v) = 0
    <3>1. PICK l : l = Latest(program, 0, v)
      OBVIOUS
    <3>2. 0 \in Nat
      OBVIOUS
    <3>3. l \in 0 .. 0
      BY <3>1, <3>2, LatestOf
    <3>4. QED
      BY <3>1, <3>3
  <2>7. ~Updating(p, v) /\ ~Accumulating(p, v)
    BY <2>1, <2>6 DEF Updating, Accumulating, LatestIs
  <2>8. QED
    BY <2>5, <2>7 DEF HeapFollows, BufferFollows, SegmentFollows, ReceiptFollows, UpdateIsOpen
<1>3. ASSUME NEW p \in Rank, NEW q \in Rank, NEW t \in Tag PROVE QueuesFollow(p, q, t)
  <2>1. /\ pos[p] = 0 /\ pos[q] = 0
        /\ sends[p][q][t] = <<>> /\ receives[q][p][t] = <<>>
    BY <1>1 DEF Init
  <2>2. Between(p, q, t, 0, 0) = {}
    BY DEF Between, Exchanges
  <2>3. Len(sends[p][q][t]) = 0 /\ Len(receives[q][p][t]) = 0
    BY <2>1
  <2>4. PICK f : f = [i \in 1 .. 0 |-> 0]
    OBVIOUS
  <2>5. Lists(f, 0, {})
    BY <2>4 DEF Lists
  <2>6. SendsFollow(p, q, t, 0)
    <3>1. \A i \in 1 .. 0 : MessageFollows(program, pos[p], p, q, t, sends[p][q][t][i], f[i])
      OBVIOUS
    <3>2. Lists(f, Len(sends[p][q][t]), Between(p, q, t, 0, pos[p]))
      BY <2>1, <2>2, <2>3, <2>5
    <3>3. QED
      BY <2>3, <3>1, <3>2 DEF SendsFollow
  <2>7. ReceivesFollow(p, q, t, 0)
    <3>1. \A i \in 1 .. 0 : ReceiveFollows(program, pos[q], receives[q][p][t][i], f[i])
      OBVIOUS
    <3>2. Lists(f, Len(receives[q][p][t]), Between(p, q, t, 0, pos[q]))
      BY <2>1, <2>2, <2>3, <2>5
    <3>3. QED
      BY <2>3, <3>1, <3>2 DEF ReceivesFollow
  <2>8. QED
    BY <2>1, <2>6, <2>7 DEF QueuesFollow
<1>4. QED
  BY <1>2, <1>3 DEF Followed

LEMMA RankStepFollowed ==
  ASSUME SInv, NEW p \in Rank, RankStep(p)
  PROVE  Followed'
<1>1. PICK v \in Vec : \/ Compute(p, v) \/ zeroOutGhosts(p, v)
                       \/ updateGhostValuesBegin(p, v) \/ updateGhostValuesEnd(p, v)
                       \/ accumulateAddLocallyOwnedBegin(p, v)
                       \/ accumulateAddLocallyOwnedEnd(p, v)
  BY DEF RankStep
<1>2. CASE Compute(p, v)
  BY <1>2, ComputeFollows
<1>3. CASE zeroOutGhosts(p, v)
  BY <1>3, ZeroOutFollows
<1>4. CASE updateGhostValuesBegin(p, v)
  BY <1>4, UpdateBeginFollows
<1>5. CASE updateGhostValuesEnd(p, v)
  BY <1>5, UpdateEndFollows
<1>6. CASE accumulateAddLocallyOwnedBegin(p, v)
  BY <1>6, AccumulateBeginFollows
<1>7. CASE accumulateAddLocallyOwnedEnd(p, v)
  BY <1>7, AccumulateEndFollows
<1>8. QED
  BY <1>1, <1>2, <1>3, <1>4, <1>5, <1>6, <1>7

\* A step that changes nothing.
LEMMA StutterFollowed ==
  ASSUME SInv, UNCHANGED vars
  PROVE  Followed'
<1>1. /\ program' = program /\ pos' = pos /\ owned' = owned /\ ghost' = ghost
      /\ buffer' = buffer /\ sends' = sends /\ receives' = receives
  BY DEF vars
<1>2. ASSUME NEW p \in Rank, NEW v \in Vec PROVE HeapFollows(p, v)'
  <2>1. HeapFollows(p, v)
    BY DEF SInv
  <2>2. QED
    BY <1>1, <2>1 DEF HeapFollows, OwnedFollows, GhostFollows, BufferFollows, SegmentFollows,
      ReceiptFollows, UpdateIsOpen, Updating, Accumulating, MemoryAt, LastOf, Pending,
      InUpdate, Opened
<1>3. ASSUME NEW p \in Rank, NEW q \in Rank, NEW t \in Tag PROVE QueuesFollow(p, q, t)'
  <2>1. QueuesFollow(p, q, t)
    BY DEF SInv
  <2>2. \A c : Between(p, q, t, c, pos[p])' = Between(p, q, t, c, pos[p])
               /\ Between(p, q, t, c, pos[q])' = Between(p, q, t, c, pos[q])
    BY <1>1 DEF Between, Exchanges
  <2>3. QED
    BY <1>1, <2>1, <2>2 DEF QueuesFollow, SendsFollow, ReceivesFollow
<1>4. QED
  BY <1>2, <1>3 DEF Followed

LEMMA NextFollows == SInv /\ [Next]_vars => SInv'
<1> SUFFICES ASSUME SInv, [Next]_vars PROVE SInv'
  OBVIOUS
<1>1. TInv'
  BY NextTyped DEF SInv
<1>2. RanksInOrder'
  BY DEF SInv, RanksInOrder
<1>3. Followed'
  <2>1. CASE \E p \in Rank : RankStep(p)
    BY <2>1, RankStepFollowed
  <2>2. CASE Progress
    <3>1. PICK p \in Rank, q \in Rank, t \in Tag :
            \/ \E i \in DOMAIN sends[p][q][t] : Inject(p, q, t, i)
            \/ Deliver(p, q, t)
      BY <2>2 DEF Progress
    <3>2. CASE \E i \in DOMAIN sends[p][q][t] : Inject(p, q, t, i)
      BY <3>2, InjectFollowed
    <3>3. CASE Deliver(p, q, t)
      BY <3>3, DeliverFollowed
    <3>4. QED
      BY <3>1, <3>2, <3>3
  <2>3. CASE UNCHANGED vars
    BY <2>3, StutterFollowed
  <2>4. QED
    BY <2>1, <2>2, <2>3 DEF Next, Terminated
<1>4. QED
  BY <1>1, <1>2, <1>3 DEF SInv, Followed

\* However the ranks and the messages interleave, what the exchange leaves in every
\* rank's part of a vector is what the same operations leave in one global vector:
\* for all patterns whose ghost sections are in the order of the owners' ranks.
THEOREM ExchangeIsSequential == RanksInOrder /\ Spec => []MatchesSequential
<1>1. RanksInOrder /\ Init => SInv
  <2> SUFFICES ASSUME RanksInOrder, Init PROVE SInv
    OBVIOUS
  <2>1. TInv
    BY InitOK, InitTyped DEF TInv
  <2>2. QED
    BY <2>1, InitFollowed DEF SInv, Followed
<1>2. SInv => MatchesSequential
  <2> SUFFICES ASSUME SInv, NEW p \in Rank, NEW v \in Vec
               PROVE  /\ owned[p][v] = Meaning(program)[pos[p]].owned[p][v]
                      /\ ~InUpdate(p, v) =>
                           ghost[p][v] = Meaning(program)[pos[p]].ghost[p][v]
    BY DEF MatchesSequential
  <2>1. OwnedFollows(p, v) /\ GhostFollows(p, v) /\ UpdateIsOpen(p, v)
    BY DEF SInv, HeapFollows
  <2>2. QED
    BY <2>1 DEF OwnedFollows, GhostFollows, UpdateIsOpen, MemoryAt
<1>3. QED
  BY <1>1, <1>2, NextFollows, PTL DEF Spec

-----------------------------------------------------------------------------
\* What the operations of a filter do to the exchanges that are open and to the ghost
\* sections that are clear, whatever the numbers are: upd and acc are the vectors
\* with an open update or accumulation, zero those whose ghost sections are clear.
Exchanging(u, a, z) == [upd |-> u, acc |-> a, zero |-> z]

\* What an operation does to the ghosts of the vector it writes.
KeepsGhosts(o) ==
  \/ o.op \in {"axpby", "scale", "combined", "accumulateBegin", "accumulateEnd"}
  \/ o.op = "copy" /\ o.which \in {"owned", "boundary"}

ClearsGhosts(o) == o.op \in {"setZero", "zeroOutGhosts"}

\* The ghost section of w is clear after o if those of z were before.
ZeroAfter(o, w, z) ==
  IF o.op = "swap"
  THEN IF w = o.v THEN o.x \in z ELSE IF w = o.x THEN o.v \in z ELSE w \in z
  ELSE IF w = o.v THEN ClearsGhosts(o) \/ (KeepsGhosts(o) /\ w \in z) ELSE w \in z

Exchange == {"updateBegin", "updateEnd", "accumulateBegin", "accumulateEnd"}

\* Operation o may be run in A, and leads to B: it leaves open vectors alone,
\* and adds a product to a clear ghost section.
Allows(o, A, B) ==
  /\ o.v \in Vec
  /\ o.op \in Exchange => o = [op |-> o.op, v |-> o.v]
  /\ o.v \in A.upd <=> o.op = "updateEnd"
  /\ o.v \in A.acc <=> o.op = "accumulateEnd"
  /\ o.op \in {"swap", "combined"} => o.x \in Vec /\ o.x \notin A.upd /\ o.x \notin A.acc
  /\ o.op = "swap" => Alike(o.v, o.x)
  /\ o.op = "computeLocalHamiltonianTimesX" => o.v \in A.zero
  /\ \A w \in Vec : w \in B.upd <=> IF w = o.v THEN o.op = "updateBegin" ELSE w \in A.upd
  /\ \A w \in Vec : w \in B.acc <=> IF w = o.v THEN o.op = "accumulateBegin" ELSE w \in A.acc
  /\ \A w \in Vec : w \in B.zero => ZeroAfter(o, w, A.zero)

\* The operations of s may be run one after the other in A, and lead to B.
Passes(s, f) == \A n \in 1 .. Len(s) : Allows(s[n], f[n - 1], f[n])
Leads(A, s, B) ==
  /\ \E S : s \in Seq(S)
  /\ \E f : f[0] = A /\ f[Len(s)] = B /\ Passes(s, f)

\* Two parts of a program, one after the other.
LEMMA LeadsThrough ==
  ASSUME NEW A, NEW B, NEW D, NEW s, NEW t, Leads(A, s, B), Leads(B, t, D)
  PROVE  Leads(A, s \o t, D)
<1>1. PICK S : s \in Seq(S)
  BY DEF Leads
<1>2. PICK T : t \in Seq(T)
  BY DEF Leads
<1>3. s \in Seq(S \cup T) /\ t \in Seq(S \cup T)
  BY <1>1, <1>2
<1> DEFINE j == Len(s)
           k == Len(t)
<1>4. /\ j \in Nat /\ k \in Nat /\ s \o t \in Seq(S \cup T) /\ Len(s \o t) = j + k
      /\ \A n \in 1 .. j : (s \o t)[n] = s[n]
      /\ \A n \in j + 1 .. j + k : (s \o t)[n] = t[n - j]
  BY <1>3
<1>5. PICK f : f[0] = A /\ f[j] = B /\ Passes(s, f)
  BY DEF Leads
<1>6. PICK g : g[0] = B /\ g[k] = D /\ Passes(t, g)
  BY DEF Leads
<1> DEFINE h == [n \in 0 .. j + k |-> IF n <= j THEN f[n] ELSE g[n - j]]
<1>41. \A n \in 0 .. j + k : h[n] = IF n <= j THEN f[n] ELSE g[n - j]
  OBVIOUS
<1> HIDE DEF j, k, h
<1>61. f[0] = A /\ f[j] = B /\ g[0] = B /\ g[k] = D
  BY <1>5, <1>6 DEF j, k
<1>7. h[0] = A /\ h[j + k] = D
  <2>1. 0 \in 0 .. j + k /\ j + k \in 0 .. j + k /\ 0 <= j /\ (j + k <= j => k = 0 /\ j + k = j)
        /\ (j + k) - j = k
    BY <1>4
  <2>2. h[0] = f[0]
    BY <1>41, <2>1
  <2>3. h[j + k] = IF j + k <= j THEN f[j + k] ELSE g[(j + k) - j]
    BY <1>41, <2>1
  <2>4. QED
    BY <1>61, <2>1, <2>2, <2>3
<1>8. ASSUME NEW n \in 1 .. j + k
      PROVE  Allows((s \o t)[n], h[n - 1], h[n])
  <2>1. CASE n <= j
    <3>0. /\ n \in 1 .. j /\ n \in 0 .. j + k /\ n - 1 \in 0 .. j + k /\ n - 1 <= j
      BY <1>4, <2>1
    <3>1. h[n - 1] = f[n - 1] /\ h[n] = f[n] /\ n \in 1 .. j
      BY <1>41, <2>1, <3>0
    <3>2. Allows(s[n], f[n - 1], f[n])
      BY <1>5, <3>1 DEF Passes, j
    <3>3. QED
      BY <1>4, <3>1, <3>2
  <2>2. CASE ~(n <= j)
    <3>1. n - j \in 1 .. k /\ n \in j + 1 .. j + k /\ (n - j) - 1 = n - 1 - j
      BY <1>4, <2>2
    <3>2. h[n] = g[n - j]
      BY <1>4, <1>41, <2>2
    <3>3. h[n - 1] = g[(n - j) - 1]
      <4>1. h[n - 1] = IF n - 1 <= j THEN f[n - 1] ELSE g[(n - 1) - j]
        BY <1>4, <1>41, <2>2
      <4>2. n - 1 <= j => n - 1 = j /\ (n - j) - 1 = 0
        BY <1>4, <2>2
      <4>3. QED
        BY <1>61, <3>1, <4>1, <4>2
    <3>4. Allows(t[n - j], g[(n - j) - 1], g[n - j])
      BY <1>6, <3>1 DEF Passes, k
    <3>5. QED
      BY <1>4, <3>1, <3>2, <3>3, <3>4
  <2>3. QED
    BY <2>1, <2>2
<1>9. Passes(s \o t, h)
  BY <1>4, <1>8 DEF Passes
<1>10. QED
  BY <1>4, <1>7, <1>9 DEF Leads

\* A part that is left out.
LEMMA LeadsNowhere ==
  ASSUME NEW A PROVE Leads(A, <<>>, A)
<1> DEFINE f == [n \in 0 .. 0 |-> A]
<1>1. f[0] = A /\ Len(<<>>) = 0
  OBVIOUS
<1>2. Passes(<<>>, f)
  BY DEF Passes
<1>3. <<>> \in Seq({})
  OBVIOUS
<1> HIDE DEF f
<1>4. QED
  BY <1>1, <1>2, <1>3 DEF Leads

\* One operation.
LEMMA LeadsOnce ==
  ASSUME NEW o, NEW A, NEW B, Allows(o, A, B)
  PROVE  Leads(A, <<o>>, B)
<1> DEFINE f == [n \in 0 .. 1 |-> IF n = 0 THEN A ELSE B]
           s == <<o>>
<1>1. f[0] = A /\ f[1] = B /\ Len(s) = 1 /\ s[1] = o /\ s \in Seq({o})
  OBVIOUS
<1> HIDE DEF f, s
<1>2. Passes(s, f)
  <2> SUFFICES ASSUME NEW n \in 1 .. Len(s) PROVE Allows(s[n], f[n - 1], f[n])
    BY DEF Passes
  <2>1. n = 1
    BY <1>1
  <2>2. QED
    BY <1>1, <2>1
<1>3. Leads(A, s, B)
  BY <1>1, <1>2 DEF Leads
<1>4. QED
  BY <1>3 DEF s

-----------------------------------------------------------------------------
\* The exchanges that are open stay so, unless o is of an exchange.
LEMMA KernelLeads ==
  ASSUME NEW u, NEW a, NEW z, NEW y, NEW o, o.v \in Vec, o.v \notin u, o.v \notin a,
         o.op \notin Exchange,
         o.op \in {"swap", "combined"} => o.x \in Vec /\ o.x \notin u /\ o.x \notin a,
         o.op = "swap" => Alike(o.v, o.x),
         o.op = "computeLocalHamiltonianTimesX" => o.v \in z,
         \A w \in Vec : w \in y => ZeroAfter(o, w, z)
  PROVE  Leads(Exchanging(u, a, z), <<o>>, Exchanging(u, a, y))
<1>1. Allows(o, Exchanging(u, a, z), Exchanging(u, a, y))
  BY DEF Allows, Exchanging, Exchange
<1>2. QED
  BY <1>1, LeadsOnce

\* The four operations of an exchange: an update makes its ghosts unknown, and an
\* accumulation leaves them as they are.
LEMMA BeginLeads ==
  ASSUME NEW u, NEW a, NEW z, NEW y, NEW v \in Vec, v \notin u, v \notin a,
         \A w \in Vec : w \in y => w \in z /\ w # v
  PROVE  Leads(Exchanging(u, a, z), <<[op |-> "updateBegin", v |-> v]>>,
               Exchanging(u \cup {v}, a, y))
<1> DEFINE o == [op |-> "updateBegin", v |-> v]
<1>1. o.op = "updateBegin" /\ o.v = v /\ o = [op |-> o.op, v |-> o.v]
  OBVIOUS
<1> HIDE DEF o
<1>2. \A w \in Vec : w \in y => ZeroAfter(o, w, z)
  BY <1>1 DEF ZeroAfter
<1>3. Allows(o, Exchanging(u, a, z), Exchanging(u \cup {v}, a, y))
  BY <1>1, <1>2 DEF Allows, Exchanging
<1>4. Leads(Exchanging(u, a, z), <<o>>, Exchanging(u \cup {v}, a, y))
  BY <1>3, LeadsOnce
<1>5. QED
  BY <1>4 DEF o

LEMMA EndLeads ==
  ASSUME NEW u, NEW a, NEW z, NEW y, NEW v \in Vec, v \notin u, v \notin a,
         \A w \in Vec : w \in y => w \in z /\ w # v
  PROVE  Leads(Exchanging(u \cup {v}, a, z), <<[op |-> "updateEnd", v |-> v]>>,
               Exchanging(u, a, y))
<1> DEFINE o == [op |-> "updateEnd", v |-> v]
<1>1. o.op = "updateEnd" /\ o.v = v /\ o = [op |-> o.op, v |-> o.v]
  OBVIOUS
<1> HIDE DEF o
<1>2. \A w \in Vec : w \in y => ZeroAfter(o, w, z)
  BY <1>1 DEF ZeroAfter
<1>3. Allows(o, Exchanging(u \cup {v}, a, z), Exchanging(u, a, y))
  BY <1>1, <1>2 DEF Allows, Exchanging
<1>4. Leads(Exchanging(u \cup {v}, a, z), <<o>>, Exchanging(u, a, y))
  BY <1>3, LeadsOnce
<1>5. QED
  BY <1>4 DEF o

LEMMA AccBeginLeads ==
  ASSUME NEW u, NEW a, NEW z, NEW y, NEW v \in Vec, v \notin u, v \notin a,
         \A w \in Vec : w \in y => w \in z
  PROVE  Leads(Exchanging(u, a, z), <<[op |-> "accumulateBegin", v |-> v]>>,
               Exchanging(u, a \cup {v}, y))
<1> DEFINE o == [op |-> "accumulateBegin", v |-> v]
<1>1. o.op = "accumulateBegin" /\ o.v = v /\ o = [op |-> o.op, v |-> o.v]
  OBVIOUS
<1> HIDE DEF o
<1>2. \A w \in Vec : w \in y => ZeroAfter(o, w, z)
  BY <1>1 DEF ZeroAfter, KeepsGhosts
<1>3. Allows(o, Exchanging(u, a, z), Exchanging(u, a \cup {v}, y))
  BY <1>1, <1>2 DEF Allows, Exchanging
<1>4. Leads(Exchanging(u, a, z), <<o>>, Exchanging(u, a \cup {v}, y))
  BY <1>3, LeadsOnce
<1>5. QED
  BY <1>4 DEF o

LEMMA AccEndLeads ==
  ASSUME NEW u, NEW a, NEW z, NEW y, NEW v \in Vec, v \notin u, v \notin a,
         \A w \in Vec : w \in y => w \in z
  PROVE  Leads(Exchanging(u, a \cup {v}, z), <<[op |-> "accumulateEnd", v |-> v]>>,
               Exchanging(u, a, y))
<1> DEFINE o == [op |-> "accumulateEnd", v |-> v]
<1>1. o.op = "accumulateEnd" /\ o.v = v /\ o = [op |-> o.op, v |-> o.v]
  OBVIOUS
<1> HIDE DEF o
<1>2. \A w \in Vec : w \in y => ZeroAfter(o, w, z)
  BY <1>1 DEF ZeroAfter, KeepsGhosts
<1>3. Allows(o, Exchanging(u, a \cup {v}, z), Exchanging(u, a, y))
  BY <1>1, <1>2 DEF Allows, Exchanging
<1>4. Leads(Exchanging(u, a \cup {v}, z), <<o>>, Exchanging(u, a, y))
  BY <1>3, LeadsOnce
<1>5. QED
  BY <1>4 DEF o

-----------------------------------------------------------------------------
\* The kernels, one by one.
LEMMA SetZeroLeads ==
  ASSUME NEW u, NEW a, NEW z, NEW y, NEW v,
         v \in Vec, v \notin u, v \notin a,
         \A w \in Vec : w \in y => w \in z \/ w = v
  PROVE  Leads(Exchanging(u, a, z), setZero(v), Exchanging(u, a, y))
<1> DEFINE o == [op |-> "setZero", v |-> v]
<1>1. o.op = "setZero" /\ o.v = v
  OBVIOUS
<1> HIDE DEF o
<1>2. \A w \in Vec : w \in y => ZeroAfter(o, w, z)
  BY <1>1 DEF ZeroAfter, KeepsGhosts, ClearsGhosts
<1>3. Leads(Exchanging(u, a, z), <<o>>, Exchanging(u, a, y))
  BY <1>1, <1>2, KernelLeads DEF Exchange
<1>4. QED
  BY <1>3 DEF o, setZero

LEMMA ZeroGhostsLeads ==
  ASSUME NEW u, NEW a, NEW z, NEW y, NEW v,
         v \in Vec, v \notin u, v \notin a,
         \A w \in Vec : w \in y => w \in z \/ w = v
  PROVE  Leads(Exchanging(u, a, z), zeroGhosts(v), Exchanging(u, a, y))
<1> DEFINE o == [op |-> "zeroOutGhosts", v |-> v]
<1>1. o.op = "zeroOutGhosts" /\ o.v = v
  OBVIOUS
<1> HIDE DEF o
<1>2. \A w \in Vec : w \in y => ZeroAfter(o, w, z)
  BY <1>1 DEF ZeroAfter, KeepsGhosts, ClearsGhosts
<1>3. Leads(Exchanging(u, a, z), <<o>>, Exchanging(u, a, y))
  BY <1>1, <1>2, KernelLeads DEF Exchange
<1>4. QED
  BY <1>3 DEF o, zeroGhosts

LEMMA ComputeLeads ==
  ASSUME NEW u, NEW a, NEW z, NEW y, NEW v,
         v \in Vec, v \notin u, v \notin a,
         \A w \in Vec : w \in y => w \in z /\ w # v
  PROVE  Leads(Exchanging(u, a, z), <<[op |-> "compute", v |-> v]>>, Exchanging(u, a, y))
<1> DEFINE o == [op |-> "compute", v |-> v]
<1>1. o.op = "compute" /\ o.v = v
  OBVIOUS
<1> HIDE DEF o
<1>2. \A w \in Vec : w \in y => ZeroAfter(o, w, z)
  BY <1>1 DEF ZeroAfter, KeepsGhosts, ClearsGhosts
<1>3. Leads(Exchanging(u, a, z), <<o>>, Exchanging(u, a, y))
  BY <1>1, <1>2, KernelLeads DEF Exchange
<1>4. QED
  BY <1>3 DEF o

LEMMA SwapLeads ==
  ASSUME NEW u, NEW a, NEW z, NEW y, NEW v, NEW x,
         v \in Vec, v \notin u, v \notin a,
         x \in Vec, x \notin u, x \notin a, Alike(v, x),
         \A w \in Vec : w \in y =>
           IF w = v THEN x \in z ELSE IF w = x THEN v \in z ELSE w \in z
  PROVE  Leads(Exchanging(u, a, z), swap(v, x), Exchanging(u, a, y))
<1> DEFINE o == [op |-> "swap", v |-> v, x |-> x]
<1>1. o.op = "swap" /\ o.v = v /\ o.x = x
  OBVIOUS
<1> HIDE DEF o
<1>2. \A w \in Vec : w \in y => ZeroAfter(o, w, z)
  BY <1>1 DEF ZeroAfter, KeepsGhosts, ClearsGhosts
<1>3. Leads(Exchanging(u, a, z), <<o>>, Exchanging(u, a, y))
  BY <1>1, <1>2, KernelLeads DEF Exchange
<1>4. QED
  BY <1>3 DEF o, swap

LEMMA CopyLeads ==
  ASSUME NEW u, NEW a, NEW z, NEW y, NEW x, NEW v, NEW which,
         v \in Vec, v \notin u, v \notin a,
         \A w \in Vec : w \in y => w \in z /\ (w # v \/ which \in {"owned", "boundary"})
  PROVE  Leads(Exchanging(u, a, z), copyEntries(x, v, which), Exchanging(u, a, y))
<1> DEFINE o == [op |-> "copy", v |-> v, x |-> x, which |-> which]
<1>1. o.op = "copy" /\ o.v = v /\ o.x = x /\ o.which = which
  OBVIOUS
<1> HIDE DEF o
<1>2. \A w \in Vec : w \in y => ZeroAfter(o, w, z)
  BY <1>1 DEF ZeroAfter, KeepsGhosts, ClearsGhosts
<1>3. Leads(Exchanging(u, a, z), <<o>>, Exchanging(u, a, y))
  BY <1>1, <1>2, KernelLeads DEF Exchange
<1>4. QED
  BY <1>3 DEF o, copyEntries

LEMMA AxpbyLeads ==
  ASSUME NEW u, NEW a, NEW z, NEW y, NEW x, NEW v, NEW r, NEW s,
         v \in Vec, v \notin u, v \notin a,
         \A w \in Vec : w \in y => w \in z
  PROVE  Leads(Exchanging(u, a, z), axpby(x, v, r, s), Exchanging(u, a, y))
<1> DEFINE o == [op |-> "axpby", v |-> v, x |-> x, a |-> r, b |-> s]
<1>1. o.op = "axpby" /\ o.v = v /\ o.x = x
  OBVIOUS
<1> HIDE DEF o
<1>2. \A w \in Vec : w \in y => ZeroAfter(o, w, z)
  BY <1>1 DEF ZeroAfter, KeepsGhosts, ClearsGhosts
<1>3. Leads(Exchanging(u, a, z), <<o>>, Exchanging(u, a, y))
  BY <1>1, <1>2, KernelLeads DEF Exchange
<1>4. QED
  BY <1>3 DEF o, axpby

LEMMA AscalLeads ==
  ASSUME NEW u, NEW a, NEW z, NEW y, NEW v, NEW r,
         v \in Vec, v \notin u, v \notin a,
         \A w \in Vec : w \in y => w \in z
  PROVE  Leads(Exchanging(u, a, z), ascal(v, r), Exchanging(u, a, y))
<1> DEFINE o == [op |-> "scale", v |-> v, by |-> "one", a |-> r]
<1>1. o.op = "scale" /\ o.v = v
  OBVIOUS
<1> HIDE DEF o
<1>2. \A w \in Vec : w \in y => ZeroAfter(o, w, z)
  BY <1>1 DEF ZeroAfter, KeepsGhosts, ClearsGhosts
<1>3. Leads(Exchanging(u, a, z), <<o>>, Exchanging(u, a, y))
  BY <1>1, <1>2, KernelLeads DEF Exchange
<1>4. QED
  BY <1>3 DEF o, ascal

LEMMA SqrtMassLeads ==
  ASSUME NEW u, NEW a, NEW z, NEW y, NEW v, NEW r,
         v \in Vec, v \notin u, v \notin a,
         \A w \in Vec : w \in y => w \in z
  PROVE  Leads(Exchanging(u, a, z), scaleSqrtMass(v, r), Exchanging(u, a, y))
<1> DEFINE o == [op |-> "scale", v |-> v, by |-> "sqrtMass", a |-> r]
<1>1. o.op = "scale" /\ o.v = v
  OBVIOUS
<1> HIDE DEF o
<1>2. \A w \in Vec : w \in y => ZeroAfter(o, w, z)
  BY <1>1 DEF ZeroAfter, KeepsGhosts, ClearsGhosts
<1>3. Leads(Exchanging(u, a, z), <<o>>, Exchanging(u, a, y))
  BY <1>1, <1>2, KernelLeads DEF Exchange
<1>4. QED
  BY <1>3 DEF o, scaleSqrtMass

LEMMA InvSqrtMassLeads ==
  ASSUME NEW u, NEW a, NEW z, NEW y, NEW v, NEW r,
         v \in Vec, v \notin u, v \notin a,
         \A w \in Vec : w \in y => w \in z
  PROVE  Leads(Exchanging(u, a, z), scaleInvSqrtMass(v, r), Exchanging(u, a, y))
<1> DEFINE o == [op |-> "scale", v |-> v, by |-> "invSqrtMass", a |-> r]
<1>1. o.op = "scale" /\ o.v = v
  OBVIOUS
<1> HIDE DEF o
<1>2. \A w \in Vec : w \in y => ZeroAfter(o, w, z)
  BY <1>1 DEF ZeroAfter, KeepsGhosts, ClearsGhosts
<1>3. Leads(Exchanging(u, a, z), <<o>>, Exchanging(u, a, y))
  BY <1>1, <1>2, KernelLeads DEF Exchange
<1>4. QED
  BY <1>3 DEF o, scaleInvSqrtMass

LEMMA CombinedLeads ==
  ASSUME NEW u, NEW a, NEW z, NEW y, NEW x, NEW v, NEW r, NEW s, NEW f, NEW g,
         v \in Vec, v \notin u, v \notin a,
         x \in Vec, x \notin u, x \notin a,
         \A w \in Vec : w \in y => w \in z
  PROVE  Leads(Exchanging(u, a, z), combinedDeviceKernel(x, v, r, s, f, g), Exchanging(u, a, y))
<1> DEFINE o == [op |-> "combined", v |-> v, x |-> x, a |-> r, b |-> s, scalar |-> f,
                  scalarOld |-> g]
<1>1. o.op = "combined" /\ o.v = v /\ o.x = x
  OBVIOUS
<1> HIDE DEF o
<1>2. \A w \in Vec : w \in y => ZeroAfter(o, w, z)
  BY <1>1 DEF ZeroAfter, KeepsGhosts, ClearsGhosts
<1>3. Leads(Exchanging(u, a, z), <<o>>, Exchanging(u, a, y))
  BY <1>1, <1>2, KernelLeads DEF Exchange
<1>4. QED
  BY <1>3 DEF o, combinedDeviceKernel

LEMMA DistributeLeads ==
  ASSUME NEW u, NEW a, NEW z, NEW y, NEW v,
         v \in Vec, v \notin u, v \notin a,
         \A w \in Vec : w \in y => w \in z /\ w # v
  PROVE  Leads(Exchanging(u, a, z), <<[op |-> "distribute", v |-> v]>>, Exchanging(u, a, y))
<1> DEFINE o == [op |-> "distribute", v |-> v]
<1>1. o.op = "distribute" /\ o.v = v
  OBVIOUS
<1> HIDE DEF o
<1>2. \A w \in Vec : w \in y => ZeroAfter(o, w, z)
  BY <1>1 DEF ZeroAfter, KeepsGhosts, ClearsGhosts
<1>3. Leads(Exchanging(u, a, z), <<o>>, Exchanging(u, a, y))
  BY <1>1, <1>2, KernelLeads DEF Exchange
<1>4. QED
  BY <1>3 DEF o

LEMMA ProductLeads ==
  ASSUME NEW u, NEW a, NEW z, NEW y, NEW x, NEW v,
         v \in Vec, v \notin u, v \notin a, v \in z,
         \A w \in Vec : w \in y => w \in z /\ w # v
  PROVE  Leads(Exchanging(u, a, z),
               <<[op |-> "computeLocalHamiltonianTimesX", v |-> v, x |-> x]>>,
               Exchanging(u, a, y))
<1> DEFINE o == [op |-> "computeLocalHamiltonianTimesX", v |-> v, x |-> x]
<1>1. o.op = "computeLocalHamiltonianTimesX" /\ o.v = v /\ o.x = x
  OBVIOUS
<1> HIDE DEF o
<1>2. \A w \in Vec : w \in y => ZeroAfter(o, w, z)
  BY <1>1 DEF ZeroAfter, KeepsGhosts, ClearsGhosts
<1>3. Leads(Exchanging(u, a, z), <<o>>, Exchanging(u, a, y))
  BY <1>1, <1>2, KernelLeads DEF Exchange
<1>4. QED
  BY <1>3 DEF o

LEMMA Part2Leads ==
  ASSUME NEW u, NEW a, NEW z, NEW y, NEW v,
         v \in Vec, v \notin u, v \notin a,
         \A w \in Vec : w \in y => w \in z /\ w # v
  PROVE  Leads(Exchanging(u, a, z), computePart2(v), Exchanging(u, a, y))
<1> DEFINE o == [op |-> "distributeSlaveToMaster", v |-> v]
<1>1. o.op = "distributeSlaveToMaster" /\ o.v = v
  OBVIOUS
<1> HIDE DEF o
<1>2. \A w \in Vec : w \in y => ZeroAfter(o, w, z)
  BY <1>1 DEF ZeroAfter, KeepsGhosts, ClearsGhosts
<1>3. Leads(Exchanging(u, a, z), <<o>>, Exchanging(u, a, y))
  BY <1>1, <1>2, KernelLeads DEF Exchange
<1>4. QED
  BY <1>3 DEF o, computePart2

-----------------------------------------------------------------------------
\* The vector that an exchange of v is done with.
Carrier(v, mixed) == IF mixed THEN tempFloatArray ELSE v

\* No exchange is open, or one is.
Idle(z) == Exchanging({}, {}, z)
InUpd(v, z) == Exchanging({v}, {}, z)
InAcc(v, z) == Exchanging({}, {v}, z)

\* The same if nothing else is open.
LEMMA UpdLeads ==
  ASSUME NEW z, NEW y, NEW v \in Vec, \A w \in Vec : w \in y => w \in z /\ w # v
  PROVE  /\ Leads(Idle(z), <<[op |-> "updateBegin", v |-> v]>>, InUpd(v, y))
         /\ Leads(InUpd(v, z), <<[op |-> "updateEnd", v |-> v]>>, Idle(y))
<1>1. {} \cup {v} = {v} /\ v \notin {}
  OBVIOUS
<1>2. Leads(Exchanging({}, {}, z), <<[op |-> "updateBegin", v |-> v]>>,
            Exchanging({} \cup {v}, {}, y))
  BY <1>1, BeginLeads
<1>3. Leads(Exchanging({} \cup {v}, {}, z), <<[op |-> "updateEnd", v |-> v]>>,
            Exchanging({}, {}, y))
  BY <1>1, EndLeads
<1>4. QED
  BY <1>1, <1>2, <1>3 DEF Idle, InUpd

LEMMA AccLeads ==
  ASSUME NEW z, NEW y, NEW v \in Vec, \A w \in Vec : w \in y => w \in z
  PROVE  /\ Leads(Idle(z), <<[op |-> "accumulateBegin", v |-> v]>>, InAcc(v, y))
         /\ Leads(InAcc(v, z), <<[op |-> "accumulateEnd", v |-> v]>>, Idle(y))
<1>1. {} \cup {v} = {v} /\ v \notin {}
  OBVIOUS
<1>2. Leads(Exchanging({}, {}, z), <<[op |-> "accumulateBegin", v |-> v]>>,
            Exchanging({}, {} \cup {v}, y))
  BY <1>1, AccBeginLeads
<1>3. Leads(Exchanging({}, {} \cup {v}, z), <<[op |-> "accumulateEnd", v |-> v]>>,
            Exchanging({}, {}, y))
  BY <1>1, AccEndLeads
<1>4. QED
  BY <1>1, <1>2, <1>3 DEF Idle, InAcc

\* A list of two operations is one and another.
LEMMA PairIs ==
  ASSUME NEW b, NEW e
  PROVE  <<b>> \o <<e>> = <<b, e>>
<1> DEFINE S == {b, e}
<1>1. <<b>> \in Seq(S) /\ <<e>> \in Seq(S) /\ <<b, e>> \in Seq(S)
  OBVIOUS
<1>2. Len(<<b>>) = 1 /\ Len(<<e>>) = 1 /\ <<b>>[1] = b /\ <<e>>[1] = e
  OBVIOUS
<1>3. /\ Len(<<b>> \o <<e>>) = 2 /\ (<<b>> \o <<e>>)[1] = b
      /\ (<<b>> \o <<e>>)[2] = e /\ <<b>> \o <<e>> \in Seq(S)
  BY <1>1, <1>2
<1>4. Len(<<b, e>>) = 2 /\ <<b, e>>[1] = b /\ <<b, e>>[2] = e
  OBVIOUS
<1> DEFINE s == <<b>> \o <<e>>
           t == <<b, e>>
<1>5. s \in Seq(S) /\ t \in Seq(S) /\ Len(s) = 2 /\ Len(t) = 2 /\ s[1] = t[1] /\ s[2] = t[2]
  BY <1>1, <1>3, <1>4
<1> HIDE DEF s, t, S
<1>6. s = t
  BY <1>5
<1>7. QED
  BY <1>6 DEF s, t

\* Exchanges begun and ended at once.
LEMMA UpdateLeads ==
  ASSUME NEW z, NEW y, NEW v \in Vec, \A w \in Vec : w \in y => w \in z /\ w # v
  PROVE  Leads(Idle(z), updateGhostValues(v), Idle(y))
<1> DEFINE b == [op |-> "updateBegin", v |-> v]
           e == [op |-> "updateEnd", v |-> v]
<1>1. Leads(Idle(z), <<b>>, InUpd(v, y)) /\ Leads(InUpd(v, y), <<e>>, Idle(y))
  BY UpdLeads
<1> HIDE DEF b, e
<1>2. Leads(Idle(z), <<b>> \o <<e>>, Idle(y))
  BY <1>1, LeadsThrough
<1>3. <<b>> \o <<e>> = <<b, e>>
  BY PairIs
<1>4. QED
  BY <1>2, <1>3 DEF updateGhostValues, b, e

LEMMA AccumulateLeads ==
  ASSUME NEW z, NEW y, NEW v \in Vec, \A w \in Vec : w \in y => w \in z
  PROVE  Leads(Idle(z), accumulate(v), Idle(y))
<1> DEFINE b == [op |-> "accumulateBegin", v |-> v]
           e == [op |-> "accumulateEnd", v |-> v]
<1>1. Leads(Idle(z), <<b>>, InAcc(v, y)) /\ Leads(InAcc(v, y), <<e>>, Idle(y))
  BY AccLeads
<1> HIDE DEF b, e
<1>2. Leads(Idle(z), <<b>> \o <<e>>, Idle(y))
  BY <1>1, LeadsThrough
<1>3. <<b>> \o <<e>> = <<b, e>>
  BY PairIs
<1>4. QED
  BY <1>2, <1>3 DEF accumulate, b, e

\* Exchanges by way of the float vector, whose ghosts are lost.
LEMMA UpdateBeginLeads ==
  ASSUME NEW z, NEW y, NEW mixed, NEW v \in Vec, tempFloatArray \in Vec,
         \A w \in Vec : w \in y => w \in z /\ w # v /\ w # tempFloatArray
  PROVE  Leads(Idle(z), UpdateBegin(v, mixed), InUpd(Carrier(v, mixed), y))
<1>1. CASE mixed
  <2>1. Leads(Idle(z), copyEntries(v, tempFloatArray, "owned"), Idle(y))
    BY CopyLeads DEF Idle
  <2>2. Leads(Idle(y),
              <<[op |-> "updateBegin", v |-> tempFloatArray]>>,
              InUpd(tempFloatArray, y))
    BY UpdLeads
  <2>3. QED
    BY <1>1, <2>1, <2>2, LeadsThrough DEF UpdateBegin, Carrier
<1>2. CASE ~mixed
  <2>1. Leads(Idle(z), <<[op |-> "updateBegin", v |-> v]>>, InUpd(v, y))
    BY UpdLeads
  <2>2. QED
    BY <1>2, <2>1 DEF UpdateBegin, Carrier
<1>3. QED
  BY <1>1, <1>2

LEMMA UpdateEndLeads ==
  ASSUME NEW z, NEW y, NEW mixed, NEW v \in Vec, tempFloatArray \in Vec,
         \A w \in Vec : w \in y => w \in z /\ w # v /\ w # tempFloatArray
  PROVE  Leads(InUpd(Carrier(v, mixed), z), UpdateEnd(v, mixed), Idle(y))
<1>1. CASE mixed
  <2>1. Leads(InUpd(tempFloatArray, z), <<[op |-> "updateEnd", v |-> tempFloatArray]>>, Idle(y))
    BY UpdLeads
  <2>2. Leads(Idle(y), copyEntries(tempFloatArray, v, "ghost"), Idle(y))
    BY CopyLeads DEF Idle
  <2>3. QED
    BY <1>1, <2>1, <2>2, LeadsThrough DEF UpdateEnd, Carrier
<1>2. CASE ~mixed
  <2>1. Leads(InUpd(v, z), <<[op |-> "updateEnd", v |-> v]>>, Idle(y))
    BY UpdLeads
  <2>2. QED
    BY <1>2, <2>1 DEF UpdateEnd, Carrier
<1>3. QED
  BY <1>1, <1>2

LEMMA AccumulateBeginLeads ==
  ASSUME NEW z, NEW y, NEW mixed, NEW v \in Vec, tempFloatArray \in Vec,
         \A w \in Vec : w \in y => w \in z /\ w # tempFloatArray
  PROVE  Leads(Idle(z), AccumulateBegin(v, mixed), InAcc(Carrier(v, mixed), y))
<1>1. CASE mixed
  <2>1. Leads(Idle(z), copyEntries(v, tempFloatArray, "all"), Idle(y))
    BY CopyLeads DEF Idle
  <2>2. Leads(Idle(y), <<[op |-> "accumulateBegin", v |-> tempFloatArray]>>,
              InAcc(tempFloatArray, y))
    BY AccLeads
  <2>3. QED
    BY <1>1, <2>1, <2>2, LeadsThrough DEF AccumulateBegin, Carrier
<1>2. CASE ~mixed
  <2>1. Leads(Idle(z), <<[op |-> "accumulateBegin", v |-> v]>>, InAcc(v, y))
    BY AccLeads
  <2>2. QED
    BY <1>2, <2>1 DEF AccumulateBegin, Carrier
<1>3. QED
  BY <1>1, <1>2

LEMMA AccumulateEndLeads ==
  ASSUME NEW z, NEW y, NEW mixed, NEW v \in Vec, tempFloatArray \in Vec,
         \A w \in Vec : w \in y => w \in z
  PROVE  Leads(InAcc(Carrier(v, mixed), z), AccumulateEnd(v, mixed), Idle(y))
<1>1. CASE mixed
  <2>1. Leads(InAcc(tempFloatArray, z),
              <<[op |-> "accumulateEnd", v |-> tempFloatArray]>>,
              Idle(y))
    BY AccLeads
  <2>2. Leads(Idle(y), copyEntries(tempFloatArray, v, "boundary"), Idle(y))
    BY CopyLeads DEF Idle
  <2>3. Leads(Idle(y), zeroGhosts(v), Idle(y))
    BY ZeroGhostsLeads DEF Idle
  <2>4. QED
    BY <1>1, <2>1, <2>2, <2>3, LeadsThrough DEF AccumulateEnd, Carrier
<1>2. CASE ~mixed
  <2>1. Leads(InAcc(v, z), <<[op |-> "accumulateEnd", v |-> v]>>, Idle(y))
    BY AccLeads
  <2>2. QED
    BY <1>2, <2>1 DEF AccumulateEnd, Carrier
<1>3. QED
  BY <1>1, <1>2

\* A product needs a destination with clear ghosts, which it fills.
LEMMA Part1Leads ==
  ASSUME NEW u, NEW a, NEW z, NEW y, NEW src \in Vec, NEW dst \in Vec, src # dst,
         src \notin u, src \notin a, dst \notin u, dst \notin a, dst \in z,
         \A w \in Vec : w \in y => w \in z /\ w # src /\ w # dst
  PROVE  Leads(Exchanging(u, a, z), computePart1(src, dst), Exchanging(u, a, y))
<1> DEFINE b == [op |-> "distribute", v |-> src]
           e == [op |-> "computeLocalHamiltonianTimesX", v |-> dst, x |-> src]
           m == z \ {src}
<1>0. dst \in m /\ \A w : w \in m => w \in z /\ w # src
  OBVIOUS
<1>01. \A w \in Vec : w \in y => w \in m /\ w # dst
  OBVIOUS
<1> HIDE DEF m
<1>1. Leads(Exchanging(u, a, z), <<b>>, Exchanging(u, a, m))
  BY <1>0, DistributeLeads
<1>2. Leads(Exchanging(u, a, m), <<e>>, Exchanging(u, a, y))
  BY <1>0, <1>01, ProductLeads
<1> HIDE DEF b, e
<1>3. Leads(Exchanging(u, a, z), <<b>> \o <<e>>, Exchanging(u, a, y))
  BY <1>1, <1>2, LeadsThrough
<1>4. <<b>> \o <<e>> = <<b, e>>
  BY PairIs
<1>5. QED
  BY <1>3, <1>4 DEF computePart1, b, e

-----------------------------------------------------------------------------
\* The arrays of two blocks are different vectors.
Arrays(k, l) ==
  LET P == projectorKetTimesVector
  IN  /\ XArray[k] \in Vec /\ YArray[k] \in Vec /\ P[k] \in Vec
      /\ XArray[l] \in Vec /\ YArray[l] \in Vec /\ P[l] \in Vec /\ tempFloatArray \in Vec
      /\ XArray[k] \notin {YArray[k], P[k], XArray[l], YArray[l], P[l], tempFloatArray}
      /\ YArray[k] \notin {P[k], XArray[l], YArray[l], P[l], tempFloatArray}
      /\ P[k] \notin {XArray[l], YArray[l], P[l], tempFloatArray}
      /\ XArray[l] \notin {YArray[l], P[l], tempFloatArray}
      /\ YArray[l] \notin {P[l], tempFloatArray}
      /\ P[l] # tempFloatArray

\* The names of the vectors are all different.
LEMMA ArraysAre ==
  ASSUME FilterVectors PROVE Arrays(1, 2) /\ Arrays(2, 1)
<1> DEFINE P == projectorKetTimesVector
<1>1. /\ XArray[1] = "XArray1" /\ XArray[2] = "XArray2"
      /\ YArray[1] = "YArray1" /\ YArray[2] = "YArray2"
      /\ P[1] = "projectorKetTimesVector1" /\ P[2] = "projectorKetTimesVector2"
      /\ tempFloatArray = "tempFloatArray"
  BY DEF XArray, YArray, projectorKetTimesVector, tempFloatArray
<1>2. \A k \in {1, 2} : XArray[k] \in Vec /\ YArray[k] \in Vec /\ P[k] \in Vec
  BY DEF FilterVectors, Block
<1>3. tempFloatArray \in Vec
  BY DEF FilterVectors
<1>4. QED
  BY <1>1, <1>2, <1>3 DEF Arrays

\* A whole product leaves the ghosts of its source clear, and those of its destination not.
LEMMA HXLeads ==
  ASSUME NEW z, NEW y, NEW src \in Vec, NEW dst \in Vec, src # dst, dst \in z,
         NEW scaleFlag, NEW scalar,
         \A w \in Vec : w \in y => w # dst /\ (w \in z \/ w = src)
  PROVE  Leads(Idle(z), HX(src, dst, scaleFlag, scalar), Idle(y))
<1> DEFINE scaled == IF scaleFlag THEN scaleSqrtMass(dst, 1) ELSE <<>>
           z1 == z \ {src}
           z2 == z1 \ {dst}
<1>01. Leads(Idle(z), scaled, Idle(z))
  <2>1. Leads(Idle(z), scaleSqrtMass(dst, 1), Idle(z))
    BY SqrtMassLeads DEF Idle
  <2>2. QED
    BY <2>1, LeadsNowhere
<1>02. /\ \A w \in Vec : w \in z1 => w \in z /\ w # src
       /\ \A w \in Vec : w \in z2 => w \in z1 /\ w # src /\ w # dst
       /\ \A w \in Vec : w \in y => w \in z2 \/ w = src
       /\ dst \in z1
  OBVIOUS
<1> HIDE DEF scaled, z1, z2
<1>1. Leads(Idle(z), scaleInvSqrtMass(src, scalar), Idle(z))
  BY InvSqrtMassLeads DEF Idle
<1>2. Leads(Idle(z), scaled, Idle(z))
  BY <1>01
<1>3. Leads(Idle(z), updateGhostValues(src), Idle(z1))
  BY UpdateLeads, <1>02
<1>4. Leads(Idle(z1), computePart1(src, dst), Idle(z2))
  BY Part1Leads, <1>02 DEF Idle
<1>5. Leads(Idle(z2), computePart2(dst), Idle(z2))
  BY Part2Leads, <1>02 DEF Idle
<1>6. Leads(Idle(z2), zeroGhosts(src), Idle(y))
  BY ZeroGhostsLeads, <1>02 DEF Idle
<1>7. Leads(Idle(y), accumulate(dst), Idle(y))
  BY AccumulateLeads
<1>8. Leads(Idle(y), scaleInvSqrtMass(dst, 1), Idle(y))
  BY InvSqrtMassLeads DEF Idle
<1>9. Leads(Idle(y), scaleSqrtMass(src, InverseOf(scalar)), Idle(y))
  BY SqrtMassLeads DEF Idle
<1>10. QED
  BY <1>1, <1>2, <1>3, <1>4, <1>5, <1>6, <1>7, <1>8, <1>9, LeadsThrough DEF HX, scaled

LEMMA HXChebyLeads ==
  ASSUME NEW z, NEW y, NEW src \in Vec, NEW dst \in Vec, src # dst, dst \in z, NEW mixed,
         tempFloatArray \in Vec, src # tempFloatArray, dst # tempFloatArray,
         \A w \in Vec : w \in y => w # dst /\ w # tempFloatArray /\ (w \in z \/ w = src)
  PROVE  Leads(Idle(z), HXCheby(src, dst, mixed), Idle(y))
<1> DEFINE z1 == z \ {src, tempFloatArray}
           z2 == z1 \ {dst}
<1>02. /\ \A w \in Vec : w \in z1 => w \in z /\ w # src /\ w # tempFloatArray
       /\ \A w \in Vec : w \in z2 => w \in z1 /\ w # src /\ w # dst
       /\ \A w \in Vec : w \in y => w \in z2 \/ w = src
       /\ dst \in z1
  OBVIOUS
<1> HIDE DEF z1, z2
<1>1. Leads(Idle(z), UpdateBegin(src, mixed), InUpd(Carrier(src, mixed), z1))
  BY UpdateBeginLeads, <1>02
<1>2. Leads(InUpd(Carrier(src, mixed), z1), UpdateEnd(src, mixed), Idle(z1))
  BY UpdateEndLeads, <1>02
<1>3. Leads(Idle(z1), computePart1(src, dst), Idle(z2))
  BY Part1Leads, <1>02 DEF Idle
<1>4. Leads(Idle(z2), computePart2(dst), Idle(z2))
  BY Part2Leads, <1>02 DEF Idle
<1>5. Leads(Idle(z2), zeroGhosts(src), Idle(y))
  BY ZeroGhostsLeads, <1>02 DEF Idle
<1>6. Leads(Idle(y), AccumulateBegin(dst, mixed), InAcc(Carrier(dst, mixed), y))
  BY AccumulateBeginLeads
<1>7. Leads(InAcc(Carrier(dst, mixed), y), AccumulateEnd(dst, mixed), Idle(y))
  BY AccumulateEndLeads
<1>8. QED
  BY <1>1, <1>2, <1>3, <1>4, <1>5, <1>6, <1>7, LeadsThrough DEF HXCheby

\* The degrees that do not overlap.  After the second and the last, the ghosts of YArray
\* are clear: it is what XArray will be when both have been swapped.
LEMMA FirstDegreeLeads ==
  ASSUME NEW k, NEW l, Arrays(k, l), NEW z
  PROVE  Leads(Idle(z), FirstDegree(k), Idle(z))
<1>1. Leads(Idle(z), axpby(XArray[k], YArray[k], Mod(-centre), 1), Idle(z))
  BY AxpbyLeads DEF Idle, Arrays
<1>2. Leads(Idle(z), ascal(YArray[k], alpha1(1)), Idle(z))
  BY AscalLeads DEF Idle, Arrays
<1>3. QED
  BY <1>1, <1>2, LeadsThrough DEF FirstDegree

LEMMA SecondDegreeLeads ==
  ASSUME NEW k, NEW l, Arrays(k, l), NEW mixed, NEW z, NEW y, XArray[k] \in z,
         \A w \in Vec : w \in y => w # XArray[k] /\ w # tempFloatArray /\ (w \in z \/ w = YArray[k])
  PROVE  Leads(Idle(z), SecondDegree(k, mixed), Idle(y))
<1>1. Leads(Idle(z), axpby(YArray[k], XArray[k], coeff(2), alpha2(2)), Idle(z))
  BY AxpbyLeads DEF Idle, Arrays
<1>2. Leads(Idle(z), scaleInvSqrtMass(YArray[k], alpha1(2)), Idle(z))
  BY InvSqrtMassLeads DEF Idle, Arrays
<1>3. Leads(Idle(z), scaleSqrtMass(XArray[k], 1), Idle(z))
  BY SqrtMassLeads DEF Idle, Arrays
<1>4. Leads(Idle(z), HXCheby(YArray[k], XArray[k], mixed), Idle(y))
  BY HXChebyLeads DEF Arrays
<1>5. QED
  BY <1>1, <1>2, <1>3, <1>4, LeadsThrough DEF SecondDegree

LEMMA LastDegreeLeads ==
  ASSUME NEW k, NEW l, Arrays(k, l), NEW m, NEW z, NEW y, XArray[k] \in z,
         \A w \in Vec : w \in y => w # XArray[k] /\ (w \in z \/ w = YArray[k])
  PROVE  Leads(Idle(z), LastDegree(k, m), Idle(y))
<1>1. Leads(Idle(z), scaleSqrtMass(XArray[k], InverseOf(alpha1(m - 1))), Idle(z))
  BY SqrtMassLeads DEF Idle, Arrays
<1>2. Leads(Idle(z), scaleInvSqrtMass(YArray[k], 1), Idle(z))
  BY InvSqrtMassLeads DEF Idle, Arrays
<1>3. Leads(Idle(z), axpby(YArray[k], XArray[k], coeff(m), alpha2(m)), Idle(z))
  BY AxpbyLeads DEF Idle, Arrays
<1>4. Leads(Idle(z), HX(YArray[k], XArray[k], TRUE, alpha1(m)), Idle(y))
  BY HXLeads DEF Arrays
<1>5. QED
  BY <1>1, <1>2, <1>3, <1>4, LeadsThrough DEF LastDegree

\* Half of an overlapped degree behind which a product of the other block is completed:
\* only now are the ghosts of that product's source cleared.
LEMMA LaggingLeads ==
  ASSUME NEW k, NEW l, Arrays(k, l), NEW mixed, NEW d
  PROVE  Leads(Idle({XArray[k]}), HalfDegree(k, l, d, TRUE, mixed), Idle({YArray[l]}))
<1> DEFINE e == <<[op |-> "accumulateEnd", v |-> projectorKetTimesVector[l]]>>
           ended == e \o updateGhostValues(projectorKetTimesVector[l])
<1>01. Leads(InAcc(projectorKetTimesVector[l], {XArray[k]}), ended, Idle({XArray[k]}))
  <2>1. Leads(InAcc(projectorKetTimesVector[l], {XArray[k]}), e, Idle({XArray[k]}))
    BY AccLeads DEF Arrays
  <2>2. Leads(Idle({XArray[k]}),
              updateGhostValues(projectorKetTimesVector[l]),
              Idle({XArray[k]}))
    BY UpdateLeads DEF Arrays
  <2> HIDE DEF e
  <2>3. QED
    BY <2>1, <2>2, LeadsThrough
<1> HIDE DEF ended
<1>1. Leads(Idle({XArray[k]}),
            <<[op |-> "accumulateBegin", v |-> projectorKetTimesVector[l]]>>,
            InAcc(projectorKetTimesVector[l], {XArray[k]}))
  BY AccLeads DEF Arrays
<1>2. Leads(InAcc(projectorKetTimesVector[l], {XArray[k]}),
            combinedDeviceKernel(YArray[k], XArray[k],
                                 coeff(d), alpha2(d), alpha1(d), alpha1(d - 1)),
            InAcc(projectorKetTimesVector[l], {XArray[k]}))
  BY CombinedLeads DEF InAcc, Arrays
<1>3. Leads(InAcc(projectorKetTimesVector[l], {XArray[k]}), ended, Idle({XArray[k]}))
  BY <1>01
<1>4. Leads(Idle({XArray[k]}),
            UpdateBegin(YArray[k], mixed),
            InUpd(Carrier(YArray[k], mixed), {XArray[k]}))
  BY UpdateBeginLeads DEF Arrays
<1>5. Leads(InUpd(Carrier(YArray[k], mixed), {XArray[k]}),
            computePart2(XArray[l]),
            InUpd(Carrier(YArray[k], mixed), {XArray[k]}))
  BY Part2Leads DEF InUpd, Arrays, Carrier
<1>6. Leads(InUpd(Carrier(YArray[k], mixed), {XArray[k]}),
            UpdateEnd(YArray[k], mixed),
            Idle({XArray[k]}))
  BY UpdateEndLeads DEF Arrays
<1>7. Leads(Idle({XArray[k]}), zeroGhosts(YArray[l]), Idle({XArray[k], YArray[l]}))
  BY ZeroGhostsLeads DEF Idle, Arrays
<1>8. Leads(Idle({XArray[k], YArray[l]}),
            setZero(projectorKetTimesVector[k]),
            Idle({XArray[k], YArray[l]}))
  BY SetZeroLeads DEF Idle, Arrays
<1>9. Leads(Idle({XArray[k], YArray[l]}),
            AccumulateBegin(XArray[l], mixed),
            InAcc(Carrier(XArray[l], mixed), {XArray[k], YArray[l]}))
  BY AccumulateBeginLeads DEF Arrays
<1>10. Leads(InAcc(Carrier(XArray[l], mixed), {XArray[k], YArray[l]}),
             computePart1(YArray[k], XArray[k]),
             InAcc(Carrier(XArray[l], mixed), {YArray[l]}))
  BY Part1Leads DEF InAcc, Arrays, Carrier
<1>11. Leads(InAcc(Carrier(XArray[l], mixed), {YArray[l]}),
             AccumulateEnd(XArray[l], mixed),
             Idle({YArray[l]}))
  BY AccumulateEndLeads DEF Arrays
<1>12. QED
  BY <1>1, <1>2, <1>3, <1>4, <1>5, <1>6, <1>7, <1>8, <1>9, <1>10, <1>11, LeadsThrough
     DEF HalfDegree, ended

\* The same half when no product of the other block is left to be completed.
LEMMA FirstHalfLeads ==
  ASSUME NEW k, NEW l, Arrays(k, l), NEW mixed, NEW d
  PROVE  Leads(Idle({XArray[k], XArray[l]}),
               HalfDegree(k, l, d, FALSE, mixed),
               Idle({XArray[l]}))
<1>1. Leads(Idle({XArray[k], XArray[l]}), <<>>, Idle({XArray[k], XArray[l]}))
  BY LeadsNowhere
<1>2. Leads(Idle({XArray[k], XArray[l]}),
            combinedDeviceKernel(YArray[k], XArray[k],
                                 coeff(d), alpha2(d), alpha1(d), alpha1(d - 1)),
            Idle({XArray[k], XArray[l]}))
  BY CombinedLeads DEF Idle, Arrays
<1>3. Leads(Idle({XArray[k], XArray[l]}), <<>>, Idle({XArray[k], XArray[l]}))
  BY LeadsNowhere
<1>4. Leads(Idle({XArray[k], XArray[l]}),
            UpdateBegin(YArray[k], mixed),
            InUpd(Carrier(YArray[k], mixed), {XArray[k], XArray[l]}))
  BY UpdateBeginLeads DEF Arrays
<1>5. Leads(InUpd(Carrier(YArray[k], mixed), {XArray[k], XArray[l]}),
            <<>>,
            InUpd(Carrier(YArray[k], mixed), {XArray[k], XArray[l]}))
  BY LeadsNowhere
<1>6. Leads(InUpd(Carrier(YArray[k], mixed), {XArray[k], XArray[l]}),
            UpdateEnd(YArray[k], mixed),
            Idle({XArray[k], XArray[l]}))
  BY UpdateEndLeads DEF Arrays
<1>7. Leads(Idle({XArray[k], XArray[l]}), <<>>, Idle({XArray[k], XArray[l]}))
  BY LeadsNowhere
<1>8. Leads(Idle({XArray[k], XArray[l]}),
            setZero(projectorKetTimesVector[k]),
            Idle({XArray[k], XArray[l]}))
  BY SetZeroLeads DEF Idle, Arrays
<1>9. Leads(Idle({XArray[k], XArray[l]}), <<>>, Idle({XArray[k], XArray[l]}))
  BY LeadsNowhere
<1>10. Leads(Idle({XArray[k], XArray[l]}),
             computePart1(YArray[k], XArray[k]),
             Idle({XArray[l]}))
  BY Part1Leads DEF Idle, Arrays
<1>11. Leads(Idle({XArray[l]}), <<>>, Idle({XArray[l]}))
  BY LeadsNowhere
<1>12. QED
  BY <1>1, <1>2, <1>3, <1>4, <1>5, <1>6, <1>7, <1>8, <1>9, <1>10, <1>11, LeadsThrough
     DEF HalfDegree

\* The completion of block 2 after the last overlapped degree.
LEMMA CompleteLeads ==
  ASSUME FilterVectors, NEW mixed
  PROVE  Leads(Idle({YArray[1]}), CompleteBlock2(mixed), Idle({YArray[1], YArray[2]}))
<1>01. Arrays(1, 2)
  BY ArraysAre
<1>1. Leads(Idle({YArray[1]}), accumulate(projectorKetTimesVector[2]), Idle({YArray[1]}))
  BY <1>01, AccumulateLeads DEF Arrays
<1>2. Leads(Idle({YArray[1]}), updateGhostValues(projectorKetTimesVector[2]), Idle({YArray[1]}))
  BY <1>01, UpdateLeads DEF Arrays
<1>3. Leads(Idle({YArray[1]}), computePart2(XArray[2]), Idle({YArray[1]}))
  BY <1>01, Part2Leads DEF Idle, Arrays
<1>4. Leads(Idle({YArray[1]}), zeroGhosts(YArray[2]), Idle({YArray[1], YArray[2]}))
  BY <1>01, ZeroGhostsLeads DEF Idle, Arrays
<1>5. Leads(Idle({YArray[1], YArray[2]}),
            AccumulateBegin(XArray[2], mixed),
            InAcc(Carrier(XArray[2], mixed), {YArray[1], YArray[2]}))
  BY <1>01, AccumulateBeginLeads DEF Arrays
<1>6. Leads(InAcc(Carrier(XArray[2], mixed), {YArray[1], YArray[2]}),
            AccumulateEnd(XArray[2], mixed),
            Idle({YArray[1], YArray[2]}))
  BY <1>01, AccumulateEndLeads DEF Arrays
<1>7. QED
  BY <1>1, <1>2, <1>3, <1>4, <1>5, <1>6, LeadsThrough DEF CompleteBlock2

-----------------------------------------------------------------------------
\* The degrees of a filter: behind degree d the ghost sections of the vectors that
\* the next products are added to are clear, and no exchange is open.
ClearAfter(d, m) == IF overlap(d + 1, m) THEN {XArray[1]} ELSE {XArray[1], XArray[2]}

\* The swaps at the end of a degree.
LEMMA SwapBlocksLead ==
  ASSUME FilterVectors, AlikeBlocks, NEW d, NEW m, NEW z,
         YArray[1] \in z, ~overlap(d + 1, m) => YArray[2] \in z
  PROVE  Leads(Idle(z), SwapBlocks(d, m), Idle(ClearAfter(d, m)))
<1>1. Arrays(1, 2) /\ Alike(XArray[1], YArray[1]) /\ Alike(XArray[2], YArray[2])
  BY ArraysAre DEF AlikeBlocks, Block
<1>2. CASE overlap(d + 1, m)
  <2>1. Leads(Idle(z), swap(XArray[1], YArray[1]), Idle({XArray[1]}))
    BY <1>1, SwapLeads DEF Idle, Arrays
  <2>2. Leads(Idle({XArray[1]}), <<>>, Idle({XArray[1]}))
    BY LeadsNowhere
  <2>3. QED
    BY <1>2, <2>1, <2>2, LeadsThrough DEF SwapBlocks, ClearAfter
<1>3. CASE ~overlap(d + 1, m)
  <2>1. Leads(Idle(z), swap(XArray[1], YArray[1]), Idle({XArray[1], YArray[2]}))
    BY <1>1, <1>3, SwapLeads DEF Idle, Arrays
  <2>2. Leads(Idle({XArray[1], YArray[2]}), swap(XArray[2], YArray[2]),
              Idle({XArray[1], XArray[2]}))
    BY <1>1, SwapLeads DEF Idle, Arrays
  <2>3. QED
    BY <1>3, <2>1, <2>2, LeadsThrough DEF SwapBlocks, ClearAfter
<1>4. QED
  BY <1>2, <1>3

\* What an overlapped degree leaves clear before the swaps.
LeftClear(d, m) == IF d = m - 1 THEN {YArray[1], YArray[2]} ELSE {YArray[1]}

\* An overlapped degree, before the swaps.
LEMMA OverlappedLeads ==
  ASSUME FilterVectors, AlikeBlocks, NEW d \in Nat, NEW m \in Nat, 2 < d, d < m, NEW mixed
  PROVE  Leads(Idle(ClearAfter(d - 1, m)), OverlappedDegree(d, m, mixed), Idle(LeftClear(d, m)))
<1>1. Arrays(1, 2) /\ Arrays(2, 1) /\ Alike(XArray[2], YArray[2])
  BY ArraysAre DEF AlikeBlocks, Block
<1>2. (d - 1) + 1 = d /\ (~overlap(d + 1, m) => d = m - 1) /\ (overlap(d, m) \in BOOLEAN)
  BY DEF overlap, IsOverlapped
<1> DEFINE half == HalfDegree(1, 2, d, overlap(d, m), mixed)
           swapped == IF overlap(d, m) THEN swap(XArray[2], YArray[2]) ELSE <<>>
           complete == IF d = m - 1 THEN CompleteBlock2(mixed) ELSE <<>>
<1>3. Leads(Idle(ClearAfter(d - 1, m)), half \o swapped, Idle({XArray[2]}))
  <2>1. CASE overlap(d, m)
    <3>1. Leads(Idle({XArray[1]}), HalfDegree(1, 2, d, TRUE, mixed), Idle({YArray[2]}))
      BY <1>1, LaggingLeads
    <3>2. Leads(Idle({YArray[2]}), swap(XArray[2], YArray[2]), Idle({XArray[2]}))
      BY <1>1, SwapLeads DEF Idle, Arrays
    <3>3. overlap(d, m) = TRUE /\ half = HalfDegree(1, 2, d, TRUE, mixed)
      BY <1>2, <2>1
    <3>4. QED
      BY <1>2, <2>1, <3>1, <3>2, <3>3, LeadsThrough DEF ClearAfter
  <2>2. CASE ~overlap(d, m)
    <3>1. Leads(Idle({XArray[1], XArray[2]}),
                HalfDegree(1, 2, d, FALSE, mixed),
                Idle({XArray[2]}))
      BY <1>1, FirstHalfLeads
    <3>2. Leads(Idle({XArray[2]}), <<>>, Idle({XArray[2]}))
      BY LeadsNowhere
    <3>3. overlap(d, m) = FALSE /\ half = HalfDegree(1, 2, d, FALSE, mixed)
      BY <1>2, <2>2
    <3>4. QED
      BY <1>2, <2>2, <3>1, <3>2, <3>3, LeadsThrough DEF ClearAfter
  <2>3. QED
    BY <2>1, <2>2
<1>4. Leads(Idle({XArray[2]}), HalfDegree(2, 1, d, TRUE, mixed), Idle({YArray[1]}))
  BY <1>1, LaggingLeads
<1>5. Leads(Idle({YArray[1]}), complete, Idle(LeftClear(d, m)))
  BY CompleteLeads, LeadsNowhere DEF LeftClear
<1> DEFINE other == HalfDegree(2, 1, d, TRUE, mixed)
           A == Idle(ClearAfter(d - 1, m))
           B == Idle({XArray[2]})
           C == Idle({YArray[1]})
           D == Idle(LeftClear(d, m))
<1>6. Leads(A, OverlappedDegree(d, m, mixed), D)
  <2>1. OverlappedDegree(d, m, mixed) = half \o swapped \o other \o complete
    BY DEF OverlappedDegree
  <2>2. Leads(A, half \o swapped, B) /\ Leads(B, other, C) /\ Leads(C, complete, D)
    BY <1>3, <1>4, <1>5
  <2> HIDE DEF half, swapped, complete, other, A, B, C, D
  <2>3. QED
    BY <2>1, <2>2, LeadsThrough
<1>7. QED
  BY <1>6

\* Each degree takes what the one before it leaves.
LEMMA DegreeLeads ==
  ASSUME FilterVectors, AlikeBlocks, NEW m \in Nat, NEW d \in 2 .. m, NEW mixed
  PROVE  Leads(Idle(ClearAfter(d - 1, m)), ChebyshevDegree(d, m, mixed), Idle(ClearAfter(d, m)))
<1>1. Arrays(1, 2) /\ Arrays(2, 1)
  BY ArraysAre
<1>2. d \in Nat /\ (d - 1) + 1 = d
  OBVIOUS
<1>3. CASE d = 2
  <2>1. ClearAfter(d - 1, m) = {XArray[1], XArray[2]}
    BY <1>3 DEF ClearAfter, overlap, IsOverlapped
  <2>2. Leads(Idle({XArray[1], XArray[2]}),
              SecondDegree(1, mixed),
              Idle({YArray[1], XArray[2]}))
    BY <1>1, SecondDegreeLeads DEF Arrays
  <2>3. Leads(Idle({YArray[1], XArray[2]}),
              SecondDegree(2, mixed),
              Idle({YArray[1], YArray[2]}))
    BY <1>1, SecondDegreeLeads DEF Arrays
  <2>4. Leads(Idle({YArray[1], YArray[2]}), SwapBlocks(d, m), Idle(ClearAfter(d, m)))
    BY SwapBlocksLead
  <2>5. ChebyshevDegree(d, m, mixed) =
          SecondDegree(1, mixed) \o SecondDegree(2, mixed) \o SwapBlocks(d, m)
    BY <1>3 DEF ChebyshevDegree
  <2>6. QED
    BY <2>1, <2>2, <2>3, <2>4, <2>5, LeadsThrough
<1>4. CASE d # 2 /\ d = m
  <2>1. ClearAfter(d - 1, m) = {XArray[1], XArray[2]}
    BY <1>2, <1>4 DEF ClearAfter, overlap, IsOverlapped
  <2>2. Leads(Idle({XArray[1], XArray[2]}), LastDegree(1, m), Idle({YArray[1], XArray[2]}))
    BY <1>1, LastDegreeLeads DEF Arrays
  <2>3. Leads(Idle({YArray[1], XArray[2]}), LastDegree(2, m), Idle({YArray[1], YArray[2]}))
    BY <1>1, LastDegreeLeads DEF Arrays
  <2>4. Leads(Idle({YArray[1], YArray[2]}), SwapBlocks(d, m), Idle(ClearAfter(d, m)))
    BY SwapBlocksLead
  <2>5. ChebyshevDegree(d, m, mixed) =
          LastDegree(1, m) \o LastDegree(2, m) \o SwapBlocks(d, m)
    BY <1>4 DEF ChebyshevDegree
  <2>6. QED
    BY <2>1, <2>2, <2>3, <2>4, <2>5, LeadsThrough
<1>5. CASE d # 2 /\ d # m
  <2>1. Leads(Idle(ClearAfter(d - 1, m)), OverlappedDegree(d, m, mixed), Idle(LeftClear(d, m)))
    BY <1>2, <1>5, OverlappedLeads
  <2>2. Leads(Idle(LeftClear(d, m)), SwapBlocks(d, m), Idle(ClearAfter(d, m)))
    <3>1. YArray[1] \in LeftClear(d, m) /\ (~overlap(d + 1, m) => YArray[2] \in LeftClear(d, m))
      BY <1>2, <1>5 DEF LeftClear, overlap, IsOverlapped
    <3>2. QED
      BY <3>1, SwapBlocksLead
  <2>3. ChebyshevDegree(d, m, mixed) = OverlappedDegree(d, m, mixed) \o SwapBlocks(d, m)
    BY <1>5 DEF ChebyshevDegree
  <2>4. QED
    BY <2>1, <2>2, <2>3, LeadsThrough
<1>6. QED
  BY <1>3, <1>4, <1>5

\* The caller's vectors and the first degree.
Opening ==
  <<[op |-> "compute", v |-> XArray[1]], [op |-> "compute", v |-> XArray[2]]>>
  \o setZero(YArray[1]) \o setZero(YArray[2])
  \o FirstProduct(1) \o FirstProduct(2) \o FirstDegree(1) \o FirstDegree(2)

\* The first degree leaves both blocks ready for the second.
LEMMA OpeningLeads ==
  ASSUME FilterVectors, NEW m \in Nat
  PROVE  Leads(Idle({}), Opening, Idle(ClearAfter(1, m)))
<1>01. Arrays(1, 2) /\ Arrays(2, 1) /\ ClearAfter(1, m) = {XArray[1], XArray[2]}
  BY ArraysAre DEF ClearAfter, overlap, IsOverlapped
<1>02. Leads(Idle({}), <<[op |-> "compute", v |-> XArray[1]], [op |-> "compute", v |-> XArray[2]]>>,
             Idle({}))
  <2> DEFINE b == [op |-> "compute", v |-> XArray[1]]
             e == [op |-> "compute", v |-> XArray[2]]
  <2>1. Leads(Idle({}), <<b>>, Idle({})) /\ Leads(Idle({}), <<e>>, Idle({}))
    BY <1>01, ComputeLeads DEF Idle, Arrays
  <2> HIDE DEF b, e
  <2>2. Leads(Idle({}), <<b>> \o <<e>>, Idle({}))
    BY <2>1, LeadsThrough
  <2>3. QED
    BY <2>2, PairIs DEF b, e
<1>1. Leads(Idle({}),
            <<[op |-> "compute", v |-> XArray[1]], [op |-> "compute", v |-> XArray[2]]>>,
            Idle({}))
  BY <1>02
<1>2. Leads(Idle({}), setZero(YArray[1]), Idle({YArray[1]}))
  BY <1>01, SetZeroLeads DEF Idle, Arrays
<1>3. Leads(Idle({YArray[1]}), setZero(YArray[2]), Idle({YArray[1], YArray[2]}))
  BY <1>01, SetZeroLeads DEF Idle, Arrays
<1>4. Leads(Idle({YArray[1], YArray[2]}), FirstProduct(1), Idle({XArray[1], YArray[2]}))
  BY <1>01, HXLeads DEF FirstProduct, Arrays
<1>5. Leads(Idle({XArray[1], YArray[2]}), FirstProduct(2), Idle({XArray[1], XArray[2]}))
  BY <1>01, HXLeads DEF FirstProduct, Arrays
<1>6. Leads(Idle({XArray[1], XArray[2]}), FirstDegree(1), Idle({XArray[1], XArray[2]}))
  BY <1>01, FirstDegreeLeads
<1>7. Leads(Idle({XArray[1], XArray[2]}), FirstDegree(2), Idle({XArray[1], XArray[2]}))
  BY <1>01, FirstDegreeLeads
<1>8. QED
  BY <1>1, <1>2, <1>3, <1>4, <1>5, <1>6, <1>7, <1>01, LeadsThrough DEF Opening

\* The recursion of a filter over its degrees has a value for every degree.
Filtered(m, mixed, f, n) ==
  f = [d \in 1 .. n |-> IF d = 1 THEN Opening ELSE f[d - 1] \o ChebyshevDegree(d, m, mixed)]

\* One more degree.
LEMMA FilteredOn ==
  ASSUME NEW m, NEW mixed, NEW n \in Nat \ {0}, NEW g, Filtered(m, mixed, g, n)
  PROVE  \E h : Filtered(m, mixed, h, n + 1)
<1> DEFINE e == g[n] \o ChebyshevDegree(n + 1, m, mixed)
           h == [d \in 1 .. n + 1 |-> IF d = n + 1 THEN e ELSE g[d]]
<1>1. \A d \in 1 .. n : g[d] = IF d = 1 THEN Opening ELSE g[d - 1] \o ChebyshevDegree(d, m, mixed)
  BY DEF Filtered
<1>2. \A d \in 1 .. n : h[d] = g[d]
  OBVIOUS
<1>31. n + 1 \in 1 .. n + 1
  OBVIOUS
<1>32. h = [d \in 1 .. n + 1 |-> h[d]]
  OBVIOUS
<1>3. h[n + 1] = e /\ h = [d \in 1 .. n + 1 |-> h[d]]
  <2> HIDE DEF e
  <2>1. QED
    BY <1>31, <1>32
<1>4. ASSUME NEW d \in 1 .. n + 1
      PROVE  h[d] = IF d = 1 THEN Opening ELSE h[d - 1] \o ChebyshevDegree(d, m, mixed)
  <2> HIDE DEF h
  <2>1. CASE d = n + 1
    <3>1. (n + 1) - 1 = n /\ n \in 1 .. n /\ n + 1 # 1
      OBVIOUS
    <3>2. h[n] = g[n]
      BY <1>2, <3>1
    <3>3. h[n + 1] = h[(n + 1) - 1] \o ChebyshevDegree(n + 1, m, mixed)
      BY <1>3, <3>1, <3>2
    <3>4. QED
      BY <2>1, <3>1, <3>3
  <2>2. CASE d # n + 1
    <3>1. d \in 1 .. n /\ (d # 1 => d - 1 \in 1 .. n)
      BY <2>2
    <3>2. QED
      BY <1>1, <1>2, <3>1
  <2>3. QED
    BY <2>1, <2>2
<1> HIDE DEF h
<1>5. Filtered(m, mixed, h, n + 1)
  BY <1>3, <1>4 DEF Filtered
<1>6. QED
  BY <1>5

\* By way of the least degree that would have none.
LEMMA FilteredExists ==
  ASSUME NEW m, NEW mixed, NEW n \in Nat \ {0}
  PROVE  \E f : Filtered(m, mixed, f, n)
<1> DEFINE bad == {i \in Nat \ {0} : ~\E f : Filtered(m, mixed, f, i)}
<1>1. SUFFICES ASSUME bad # {} PROVE FALSE
  OBVIOUS
<1>2. PICK i \in bad : \A j \in bad : i <= j
  <2>1. bad \in SUBSET Nat
    OBVIOUS
  <2> HIDE DEF bad
  <2>2. QED
    BY <1>1, <2>1, LeastNumber
<1>3. CASE i = 1
  <2> DEFINE f == [d \in 1 .. 1 |-> Opening]
  <2>1. f = [d \in 1 .. 1 |-> IF d = 1 THEN Opening ELSE f[d - 1] \o ChebyshevDegree(d, m, mixed)]
    OBVIOUS
  <2> HIDE DEF f
  <2>2. Filtered(m, mixed, f, 1)
    BY <2>1 DEF Filtered
  <2>3. QED
    BY <1>2, <1>3, <2>2
<1>4. CASE i # 1
  <2>1. i - 1 \in Nat \ {0} /\ (i - 1) + 1 = i /\ i - 1 \notin bad
    BY <1>2, <1>4
  <2>2. PICK g : Filtered(m, mixed, g, i - 1)
    BY <2>1
  <2>3. \E h : Filtered(m, mixed, h, (i - 1) + 1)
    BY <2>1, <2>2, FilteredOn
  <2>4. QED
    BY <1>2, <2>1, <2>3
<1>5. QED
  BY <1>3, <1>4

\* A filter of any degree can be run: it begins with nothing open, and ends so.
LEMMA FilterLeads ==
  ASSUME FilterVectors, AlikeBlocks, NEW m \in Nat \ {0}, NEW mixed
  PROVE  Leads(Idle({}), chebyshevFilter(m, mixed), Idle({}))
<1> DEFINE runs(f) == f = [d \in 1 .. m |-> IF d = 1 THEN Opening
                                            ELSE f[d - 1] \o ChebyshevDegree(d, m, mixed)]
           F == CHOOSE f : runs(f)
           c1 == copyEntries(YArray[1], XArray[1], "owned")
           c2 == copyEntries(YArray[2], XArray[2], "owned")
<1>1. chebyshevFilter(m, mixed) = F[m] \o c1 \o c2
  BY DEF chebyshevFilter, Opening
<1>2. \E f : runs(f)
  <2>1. \E f : Filtered(m, mixed, f, m)
    BY FilteredExists
  <2>2. QED
    BY <2>1 DEF Filtered
<1>3. runs(F)
  <2> HIDE DEF runs
  <2>1. QED
    BY <1>2
<1>4. \A d \in 1 .. m : F[d] = IF d = 1 THEN Opening ELSE F[d - 1] \o ChebyshevDegree(d, m, mixed)
  <2> HIDE DEF F
  <2>1. QED
    BY <1>3
<1> HIDE DEF F, runs, c1, c2
<1> DEFINE bad == {d \in 1 .. m : ~Leads(Idle({}), F[d], Idle(ClearAfter(d, m)))}
<1>5. bad = {}
  <2>1. SUFFICES ASSUME bad # {} PROVE FALSE
    OBVIOUS
  <2>2. PICK d \in bad : \A j \in bad : d <= j
    <3>1. bad \in SUBSET Nat
      OBVIOUS
    <3> HIDE DEF bad
    <3>2. QED
      BY <2>1, <3>1, LeastNumber
  <2>3. CASE d = 1
    <3>1. F[d] = Opening
      BY <1>4, <2>2, <2>3
    <3>2. Leads(Idle({}), Opening, Idle(ClearAfter(1, m)))
      BY OpeningLeads
    <3>3. QED
      BY <2>2, <2>3, <3>1, <3>2
  <2>4. CASE d # 1
    <3>1. d \in 2 .. m /\ d \in 1 .. m /\ d - 1 \in 1 .. m /\ d - 1 \notin bad
      BY <2>2, <2>4
    <3>2. Leads(Idle({}), F[d - 1], Idle(ClearAfter(d - 1, m)))
      BY <3>1
    <3>3. Leads(Idle(ClearAfter(d - 1, m)),
                ChebyshevDegree(d, m, mixed),
                Idle(ClearAfter(d, m)))
      BY <3>1, DegreeLeads
    <3>4. F[d] = F[d - 1] \o ChebyshevDegree(d, m, mixed)
      BY <1>4, <2>4, <3>1
    <3>5. Leads(Idle({}), F[d], Idle(ClearAfter(d, m)))
      BY <3>2, <3>3, <3>4, LeadsThrough
    <3>6. QED
      BY <2>2, <3>5
  <2>5. QED
    BY <2>3, <2>4
<1>6. Leads(Idle({}), F[m], Idle(ClearAfter(m, m)))
  BY <1>5
<1>7. Leads(Idle(ClearAfter(m, m)), c1, Idle({})) /\ Leads(Idle({}), c2, Idle({}))
  BY ArraysAre, CopyLeads DEF Idle, Arrays, c1, c2
<1>8. QED
  BY <1>1, <1>6, <1>7, LeadsThrough

-----------------------------------------------------------------------------
\* What is open, and what is clear, after the first n operations of a filter.
Traces(f, prog) == f[0] = Idle({}) /\ Passes(prog, f)
FilterTrace(prog) == CHOOSE f : Traces(f, prog)

\* Every program of a filter has a trace.
LEMMA FilterTraced ==
  ASSUME FilterSetting, NEW prog \in FilterPrograms
  PROVE  Len(prog) \in Nat /\ FilterTrace(prog)[0] = Idle({}) /\ Passes(prog, FilterTrace(prog))
<1>1. PICK f \in Filters : prog = chebyshevFilter(f.m, f.mixed)
  BY DEF FilterPrograms, ProgramOf
<1>2. f.m \in Nat \ {0} /\ FilterVectors /\ AlikeBlocks
  BY <1>1 DEF FilterSetting
<1>3. Leads(Idle({}), prog, Idle({}))
  BY <1>1, <1>2, FilterLeads
<1>4. Len(prog) \in Nat
  BY <1>3 DEF Leads
<1>5. \E g : Traces(g, prog)
  BY <1>3 DEF Leads, Traces
<1>6. Traces(FilterTrace(prog), prog)
  BY <1>5 DEF FilterTrace
<1>7. QED
  BY <1>4, <1>6 DEF Traces

\* The number of exchanges that are begun and not ended.
OpenAfter(prog, n, beginOp, endOp, v, open) ==
  Count(prog, n, beginOp, v) = Count(prog, n, endOp, v) + (IF open THEN 1 ELSE 0)

\* An operation opens and ends the exchanges that the trace says.
LEMMA CountsNext ==
  ASSUME NEW prog, NEW n \in Nat, NEW A, NEW B, NEW v \in Vec, Allows(prog[n + 1], A, B),
         OpenAfter(prog, n, "updateBegin", "updateEnd", v, v \in A.upd),
         OpenAfter(prog, n, "accumulateBegin", "accumulateEnd", v, v \in A.acc)
  PROVE  /\ OpenAfter(prog, n + 1, "updateBegin", "updateEnd", v, v \in B.upd)
         /\ OpenAfter(prog, n + 1, "accumulateBegin", "accumulateEnd", v, v \in B.acc)
<1> DEFINE o == prog[n + 1]
           Is(op) == o = [op |-> op, v |-> v]
<1>1. \A op \in Exchange : Is(op) <=> o.op = op /\ o.v = v
  <2> SUFFICES ASSUME NEW op \in Exchange PROVE Is(op) <=> o.op = op /\ o.v = v
    OBVIOUS
  <2>1. o.op = op => o = [op |-> o.op, v |-> o.v]
    BY DEF Allows
  <2>2. [op |-> op, v |-> v].op = op /\ [op |-> op, v |-> v].v = v
    OBVIOUS
  <2> HIDE DEF o
  <2>3. QED
    BY <2>1, <2>2
<1>2. \A op : /\ Count(prog, n, op, v) \in Nat
              /\ Count(prog, n + 1, op, v) = Count(prog, n, op, v) + (IF Is(op) THEN 1 ELSE 0)
  BY CountNext
<1>3. /\ o.v = v => /\ v \in A.upd <=> o.op = "updateEnd"
                    /\ v \in A.acc <=> o.op = "accumulateEnd"
      /\ v \in B.upd <=> IF v = o.v THEN o.op = "updateBegin" ELSE v \in A.upd
      /\ v \in B.acc <=> IF v = o.v THEN o.op = "accumulateBegin" ELSE v \in A.acc
  BY DEF Allows
<1> HIDE DEF o, Is
<1>4. OpenAfter(prog, n + 1, "updateBegin", "updateEnd", v, v \in B.upd)
  <2>1. (Is("updateBegin") <=> o.op = "updateBegin" /\ o.v = v)
        /\ (Is("updateEnd") <=> o.op = "updateEnd" /\ o.v = v)
    BY <1>1 DEF Exchange
  <2>2. QED
    BY <1>2, <1>3, <2>1 DEF OpenAfter
<1>5. OpenAfter(prog, n + 1, "accumulateBegin", "accumulateEnd", v, v \in B.acc)
  <2>1. (Is("accumulateBegin") <=> o.op = "accumulateBegin" /\ o.v = v)
        /\ (Is("accumulateEnd") <=> o.op = "accumulateEnd" /\ o.v = v)
    BY <1>1 DEF Exchange
  <2>2. QED
    BY <1>2, <1>3, <2>1 DEF OpenAfter
<1>6. QED
  BY <1>4, <1>5

\* So the trace tells which exchanges are open, by way of the first place where it would not.
LEMMA CountsTraced ==
  ASSUME FilterSetting, NEW prog \in FilterPrograms, NEW n \in 0 .. Len(prog), NEW v \in Vec
  PROVE  /\ OpenAfter(prog, n, "updateBegin", "updateEnd", v, v \in FilterTrace(prog)[n].upd)
         /\ OpenAfter(prog, n, "accumulateBegin", "accumulateEnd", v,
                      v \in FilterTrace(prog)[n].acc)
<1> DEFINE f == FilterTrace(prog)
           Counted(i) ==
             /\ OpenAfter(prog, i, "updateBegin", "updateEnd", v, v \in f[i].upd)
             /\ OpenAfter(prog, i, "accumulateBegin", "accumulateEnd", v, v \in f[i].acc)
           bad == {i \in 0 .. Len(prog) : ~Counted(i)}
<1>1. Len(prog) \in Nat /\ f[0] = Idle({}) /\ Passes(prog, f)
  BY FilterTraced
<1> HIDE DEF f
<1>2. SUFFICES ASSUME bad # {} PROVE FALSE
  BY DEF f
<1>3. PICK i \in bad : \A j \in bad : i <= j
  <2>1. bad \in SUBSET Nat
    BY <1>1
  <2> HIDE DEF bad
  <2>2. QED
    BY <1>2, <2>1, LeastNumber
<1>4. CASE i = 0
  <2>1. \A op : Count(prog, 0, op, v) = 0
    <3>1. \A op : {m \in 1 .. 0 : prog[m] = [op |-> op, v |-> v]} = {}
      OBVIOUS
    <3>2. QED
      BY <3>1, FS_EmptySet DEF Count
  <2>2. v \notin f[0].upd /\ v \notin f[0].acc
    BY <1>1 DEF Idle, Exchanging
  <2>3. Counted(0)
    BY <2>1, <2>2 DEF OpenAfter
  <2>4. QED
    BY <1>3, <1>4, <2>3
<1>5. CASE i # 0
  <2>1. i - 1 \in Nat /\ (i - 1) + 1 = i /\ i \in 1 .. Len(prog) /\ i - 1 \notin bad
        /\ i - 1 \in 0 .. Len(prog)
    BY <1>1, <1>3, <1>5
  <2>2. Counted(i - 1)
    BY <2>1
  <2>3. Allows(prog[(i - 1) + 1], f[i - 1], f[i])
    BY <1>1, <2>1 DEF Passes
  <2>4. Counted((i - 1) + 1)
    BY <2>1, <2>2, <2>3, CountsNext
  <2>5. QED
    BY <1>3, <2>1, <2>4
<1>6. QED
  BY <1>4, <1>5

\* A filter ends no update it did not begin, whatever its degree.
THEOREM FiltersEndWhatTheyBegin ==
  ASSUME FilterSetting
  PROVE  \A prog \in FilterPrograms :
           /\ Len(prog) \in Nat
           /\ \A n \in 0 .. Len(prog) : \A v \in Vec :
                Count(prog, n, "updateEnd", v) <= Count(prog, n, "updateBegin", v)
<1> SUFFICES ASSUME NEW prog \in FilterPrograms
             PROVE  /\ Len(prog) \in Nat
                    /\ \A n \in 0 .. Len(prog) : \A v \in Vec :
                         Count(prog, n, "updateEnd", v) <= Count(prog, n, "updateBegin", v)
  OBVIOUS
<1>1. Len(prog) \in Nat
  BY FilterTraced
<1>2. ASSUME NEW n \in 0 .. Len(prog), NEW v \in Vec
      PROVE  Count(prog, n, "updateEnd", v) <= Count(prog, n, "updateBegin", v)
  <2>1. OpenAfter(prog, n, "updateBegin", "updateEnd", v, v \in FilterTrace(prog)[n].upd)
    BY CountsTraced
  <2>2. n \in Nat
    BY <1>1
  <2>3. Count(prog, n, "updateEnd", v) \in Nat
    BY <2>2, CountNext
  <2>4. QED
    BY <2>1, <2>3 DEF OpenAfter
<1>3. QED
  BY <1>1, <1>2

-----------------------------------------------------------------------------
\* The invariant of a running filter: the memory has its shape, and the ghost sections
\* that are clear at a rank's place in the program are so unless MPI may write them.
StateAt(p) == FilterTrace(program)[pos[p]]

FilterShape ==
  /\ IsHeap(owned) /\ IsHeap(ghost) /\ IsHeap(buffer)
  /\ \A p \in Rank : \A v \in Vec : DOMAIN ghost[p][v] = localGhost(p, v)

GhostsClear ==
  \A p \in Rank : \A v \in Vec : v \in StateAt(p).zero /\ v \notin StateAt(p).upd =>
    \A j \in localGhost(p, v) : ghost[p][v][j] = 0

FInv == IInv /\ FilterShape /\ GhostsClear

\* Where a rank is in a filter, and what it may do there.
LEMMA StepAllowed ==
  ASSUME FilterSetting, QueuesOK, NEW p \in Rank, pos[p] < Len(program)
  PROVE  /\ pos[p] \in Nat /\ Len(program) \in Nat /\ pos[p] + 1 \in 1 .. Len(program)
         /\ program \in Programs /\ program \in FilterPrograms
         /\ Allows(NextOp(p), StateAt(p), FilterTrace(program)[pos[p] + 1])
<1>1. program \in Programs /\ program \in FilterPrograms /\ pos[p] \in Nat
  BY DEF QueuesOK, FilterSetting
<1>2. Len(program) \in Nat /\ Passes(program, FilterTrace(program))
  BY <1>1, FilterTraced
<1>3. pos[p] + 1 \in 1 .. Len(program) /\ (pos[p] + 1) - 1 = pos[p]
  BY <1>1, <1>2
<1>4. QED
  BY <1>1, <1>2, <1>3 DEF Passes, NextOp, StateAt

\* Which exchanges are open, as the properties say it.
LEMMA OpenAt ==
  ASSUME FilterSetting, NEW prog \in FilterPrograms, NEW n \in 0 .. Len(prog), NEW v \in Vec
  PROVE  /\ Count(prog, n, "updateBegin", v) > Count(prog, n, "updateEnd", v)
              <=> v \in FilterTrace(prog)[n].upd
         /\ Count(prog, n, "accumulateBegin", v) > Count(prog, n, "accumulateEnd", v)
              <=> v \in FilterTrace(prog)[n].acc
<1>1. n \in Nat
  BY FilterTraced
<1>2. \A op : Count(prog, n, op, v) \in Nat
  BY <1>1, CountNext
<1>3. /\ Count(prog, n, "updateEnd", v) \in Nat
      /\ Count(prog, n, "accumulateEnd", v) \in Nat
  BY <1>2
<1>4. QED
  BY <1>3, CountsTraced DEF OpenAfter

\* The same for a rank.
LEMMA OpenIs ==
  ASSUME FilterSetting, QueuesOK, NEW p \in Rank, NEW v \in Vec
  PROVE  /\ InUpdate(p, v) <=> v \in StateAt(p).upd
         /\ InAccumulate(p, v) <=> v \in StateAt(p).acc
<1>1. program \in FilterPrograms /\ pos[p] \in Nat /\ pos[p] <= Len(program)
  BY DEF QueuesOK, FilterSetting
<1>2. Len(program) \in Nat
  BY <1>1, FilterTraced
<1>3. pos[p] \in 0 .. Len(program)
  BY <1>1, <1>2
<1>4. QED
  BY <1>1, <1>3, OpenAt DEF InUpdate, InAccumulate, Opened, StateAt

\* A kernel preserves the invariant of the queues.
LEMMA KernelOK ==
  ASSUME IInv, NEW p \in Rank, pos[p] + 1 \in 1 .. Len(program), NextOp(p).op \notin Exchange,
         Advance(p), UNCHANGED mpi
  PROVE  IInv'
<1> DEFINE n == pos[p] + 1
<1>1. /\ QueuesOK /\ NothingOutlivesItsOperation /\ sends' = sends /\ receives' = receives
      /\ program' = program /\ program \in Programs /\ pos \in [Rank -> Nat]
      /\ pos' = [pos EXCEPT ![p] = @ + 1]
  BY DEF IInv, mpi, Advance, QueuesOK
<1>2. Len(program) \in Nat
  BY <1>1, ProgramAssumption
<1>3. /\ pos' \in [Rank -> Nat] /\ \A q \in Rank : pos'[q] <= Len(program)
      /\ \A q \in Rank : pos'[q] = IF q = p THEN pos[q] + 1 ELSE pos[q]
  <2>1. \A q \in Rank : pos[q] <= Len(program) /\ pos[q] \in Nat
    BY <1>1 DEF QueuesOK
  <2>2. QED
    BY <1>1, <1>2, <2>1
<1>4. \A op \in Exchange : \A w : program[n] # [op |-> op, v |-> w]
  BY DEF NextOp
<1>5. QueuesOK'
  BY <1>1, <1>3 DEF QueuesOK, IsTable
<1>6. \A a, b \in Rank : \A u \in Tag : FollowProgram(a, b, u)'
  <2>1. \A a, b \in Rank : \A u \in Tag : n \notin Exchanges(a, b, u)
    <3>1. \A u \in Tag : BeginOp(u) \in Exchange
      BY DEF BeginOp, Exchange
    <3> HIDE DEF n
    <3>2. QED
      BY <1>4, <3>1 DEF Exchanges
  <2>2. QED
    BY <1>1, <1>5, <2>1, StepFollows
<1>7. NothingOutlivesItsOperation'
  <2>1. ASSUME NEW a \in Rank, NEW w \in Vec PROVE InUpdate(a, w)' <=> InUpdate(a, w)
    <3>1. CASE a # p
      BY <1>1, <1>3, <3>1 DEF InUpdate, Opened, Count
    <3>2. CASE a = p
      <4>1. pos[p] \in Nat /\ pos'[a] = pos[p] + 1
        BY <1>1, <1>3, <3>2
      <4>2. /\ program[pos[p] + 1] # [op |-> "updateBegin", v |-> w]
            /\ program[pos[p] + 1] # [op |-> "updateEnd", v |-> w]
        BY <1>4 DEF Exchange
      <4>3. \A op : /\ Count(program, pos[p], op, w) \in Nat
                    /\ Count(program, pos[p] + 1, op, w) = Count(program, pos[p], op, w)
                         + (IF program[pos[p] + 1] = [op |-> op, v |-> w] THEN 1 ELSE 0)
        BY <4>1, CountNext
      <4>4. /\ Count(program, pos[p] + 1, "updateBegin", w) = Count(program, pos[p], "updateBegin", w)
            /\ Count(program, pos[p] + 1, "updateEnd", w) = Count(program, pos[p], "updateEnd", w)
        BY <4>2, <4>3
      <4>5. InUpdate(a, w)' <=> Count(program, pos'[a], "updateBegin", w) >
                                  Count(program, pos'[a], "updateEnd", w)
        BY <1>1 DEF InUpdate, Opened, Count
      <4>6. QED
        BY <3>2, <4>1, <4>4, <4>5 DEF InUpdate, Opened
    <3>3. QED
      BY <3>1, <3>2
  <2>2. QED
    BY <1>1, <2>1 DEF NothingOutlivesItsOperation, Sent, Delivered
<1>8. QED
  BY <1>5, <1>6, <1>7 DEF IInv

-----------------------------------------------------------------------------
\* What an operation of p does to the memory.
Writes(o, w) == w = o.v \/ (o.op \in {"swap", "combined"} /\ w = o.x)

Effect(p) ==
  LET o == NextOp(p)
  IN  /\ pos[p] < Len(program) /\ Advance(p)
      /\ IsHeap(owned') /\ IsHeap(ghost') /\ IsHeap(buffer')
      /\ \A a \in Rank : \A w \in Vec : a # p \/ ~Writes(o, w) =>
           owned'[a][w] = owned[a][w] /\ ghost'[a][w] = ghost[a][w] /\ buffer'[a][w] = buffer[a][w]
      /\ o.op # "swap" =>
           /\ \A w \in Vec : w # o.v => ghost'[p][w] = ghost[p][w]
           /\ DOMAIN ghost'[p][o.v] = localGhost(p, o.v)
      /\ KeepsGhosts(o) => \A j \in localGhost(p, o.v) : ghost'[p][o.v][j] = ghost[p][o.v][j]
      /\ ClearsGhosts(o) => \A j \in localGhost(p, o.v) : ghost'[p][o.v][j] = 0
      /\ o.op = "swap" => ghost'[p][o.v] = ghost[p][o.x] /\ ghost'[p][o.x] = ghost[p][o.v]

\* An operation keeps the shape, clears what its program says, and leaves what is
\* open alone.
LEMMA EffectKeeps ==
  ASSUME FilterSetting, FInv, NEW p \in Rank, Effect(p)
  PROVE  FilterShape' /\ GhostsClear'
<1> DEFINE o == NextOp(p)
           A == StateAt(p)
           B == FilterTrace(program)[pos[p] + 1]
<1>1. QueuesOK /\ FilterShape /\ GhostsClear
  BY DEF FInv, IInv
<1>2. Allows(o, A, B) /\ pos[p] \in Nat
  BY <1>1, StepAllowed DEF Effect
<1>3. /\ program' = program /\ \A q \in Rank : pos'[q] = IF q = p THEN pos[q] + 1 ELSE pos[q]
  BY <1>1 DEF Effect, Advance, QueuesOK
<1>4. StateAt(p)' = B /\ \A q \in Rank : q # p => StateAt(q)' = StateAt(q)
  BY <1>3 DEF StateAt
<1>5. /\ IsHeap(owned') /\ IsHeap(ghost') /\ IsHeap(buffer')
      /\ \A a \in Rank : \A w \in Vec : a # p \/ ~Writes(o, w) => ghost'[a][w] = ghost[a][w]
      /\ o.op # "swap" =>
           /\ \A w \in Vec : w # o.v => ghost'[p][w] = ghost[p][w]
           /\ DOMAIN ghost'[p][o.v] = localGhost(p, o.v)
      /\ KeepsGhosts(o) => \A j \in localGhost(p, o.v) : ghost'[p][o.v][j] = ghost[p][o.v][j]
      /\ ClearsGhosts(o) => \A j \in localGhost(p, o.v) : ghost'[p][o.v][j] = 0
      /\ o.op = "swap" => ghost'[p][o.v] = ghost[p][o.x] /\ ghost'[p][o.x] = ghost[p][o.v]
  BY DEF Effect
<1>6. /\ o.v \in Vec /\ (o.op = "swap" => o.x \in Vec /\ Alike(o.v, o.x))
      /\ o.op = "swap" => o.v \notin A.upd /\ o.x \notin A.upd
      /\ o.v \in A.upd <=> o.op = "updateEnd"
      /\ \A w \in Vec : w \in B.upd <=> IF w = o.v THEN o.op = "updateBegin" ELSE w \in A.upd
      /\ \A w \in Vec : w \in B.zero => ZeroAfter(o, w, A.zero)
  BY <1>2 DEF Allows
<1>7. \A a \in Rank : \A w \in Vec : DOMAIN ghost[a][w] = localGhost(a, w)
  BY <1>1 DEF FilterShape
<1>8. \A w \in Vec : w \in A.zero /\ w \notin A.upd => \A j \in localGhost(p, w) : ghost[p][w][j] = 0
  BY <1>1 DEF GhostsClear
<1>9. o.op = "swap" => localGhost(p, o.v) = localGhost(p, o.x)
  BY <1>6 DEF Alike, localGhost
<1> HIDE DEF o, A, B
<1>10. ASSUME NEW a \in Rank, NEW w \in Vec PROVE DOMAIN ghost'[a][w] = localGhost(a, w)
  <2>1. CASE a # p \/ ~Writes(o, w)
    BY <1>5, <1>7, <2>1
  <2>2. CASE a = p /\ Writes(o, w)
    BY <1>5, <1>6, <1>7, <1>9, <2>2 DEF Writes
  <2>3. QED
    BY <2>1, <2>2
<1>11. ASSUME NEW w \in Vec, w \in B.zero, w \notin B.upd
       PROVE  \A j \in localGhost(p, w) : ghost'[p][w][j] = 0
  <2>1. ZeroAfter(o, w, A.zero)
    BY <1>6, <1>11
  <2>2. CASE o.op = "swap"
    <3>1. CASE w = o.v
      BY <1>5, <1>6, <1>8, <1>9, <2>1, <2>2, <3>1 DEF ZeroAfter
    <3>2. CASE w # o.v /\ w = o.x
      BY <1>5, <1>6, <1>8, <1>9, <2>1, <2>2, <3>2 DEF ZeroAfter
    <3>3. CASE w # o.v /\ w # o.x
      <4>1. w \in A.zero /\ w \notin A.upd
        BY <1>6, <1>11, <2>1, <2>2, <3>3 DEF ZeroAfter
      <4>2. ~Writes(o, w)
        BY <3>3 DEF Writes
      <4>3. QED
        BY <1>5, <1>8, <4>1, <4>2
    <3>4. QED
      BY <3>1, <3>2, <3>3
  <2>3. CASE o.op # "swap" /\ w # o.v
    <3>1. w \in A.zero /\ w \notin A.upd
      BY <1>6, <1>11, <2>1, <2>3 DEF ZeroAfter
    <3>2. ghost'[p][w] = ghost[p][w]
      BY <1>5, <2>3
    <3>3. QED
      BY <1>8, <3>1, <3>2
  <2>4. CASE o.op # "swap" /\ w = o.v
    <3>1. CASE ClearsGhosts(o)
      BY <1>5, <2>4, <3>1
    <3>2. CASE KeepsGhosts(o) /\ w \in A.zero
      <4>1. w \notin A.upd
        BY <1>6, <2>4, <3>2 DEF KeepsGhosts
      <4>2. QED
        BY <1>5, <1>8, <2>4, <3>2, <4>1
    <3>3. QED
      BY <2>1, <2>4, <3>1, <3>2 DEF ZeroAfter
  <2>5. QED
    BY <2>2, <2>3, <2>4
<1>12. GhostsClear'
  <2> SUFFICES ASSUME NEW a \in Rank, NEW w \in Vec,
                      w \in StateAt(a)'.zero, w \notin StateAt(a)'.upd
               PROVE  \A j \in localGhost(a, w) : ghost'[a][w][j] = 0
    BY DEF GhostsClear
  <2>1. CASE a = p
    BY <1>4, <1>11, <2>1
  <2>2. CASE a # p
    <3>1. w \in StateAt(a).zero /\ w \notin StateAt(a).upd /\ ghost'[a][w] = ghost[a][w]
      BY <1>4, <1>5, <2>2
    <3>2. QED
      BY <1>1, <3>1 DEF GhostsClear
  <2>3. QED
    BY <2>1, <2>2
<1>13. FilterShape'
  BY <1>5, <1>10 DEF FilterShape
<1>14. QED
  BY <1>12, <1>13

\* OpenVectorsAreLeftAlone, of one step.
LeavesOpenAlone ==
  \A p \in Rank : \A v \in Vec : pos'[p] # pos[p] /\ Open(p, v) /\ Open(p, v)' =>
    /\ owned'[p][v] = owned[p][v]
    /\ ghost'[p][v] = ghost[p][v]
    /\ buffer'[p][v] = buffer[p][v]

\* A vector that is open before and after an operation is not written by it.
LEMMA EffectLeavesOpen ==
  ASSUME FilterSetting, FInv, FInv', NEW p \in Rank, Effect(p)
  PROVE  LeavesOpenAlone
<1> DEFINE o == NextOp(p)
           A == StateAt(p)
           B == FilterTrace(program)[pos[p] + 1]
<1>1. QueuesOK /\ QueuesOK'
  BY DEF FInv, IInv
<1>2. Allows(o, A, B) /\ pos[p] \in Nat
  BY <1>1, StepAllowed DEF Effect
<1>3. /\ program' = program /\ \A q \in Rank : pos'[q] = IF q = p THEN pos[q] + 1 ELSE pos[q]
  BY <1>1 DEF Effect, Advance, QueuesOK
<1>4. StateAt(p)' = B
  BY <1>3 DEF StateAt
<1>5. \A a \in Rank : \A w \in Vec : a # p \/ ~Writes(o, w) =>
        owned'[a][w] = owned[a][w] /\ ghost'[a][w] = ghost[a][w] /\ buffer'[a][w] = buffer[a][w]
  BY DEF Effect
<1> HIDE DEF o, A, B
<1>6. SUFFICES ASSUME NEW v \in Vec, Open(p, v), Open(p, v)'
               PROVE  ~Writes(o, v)
  BY <1>3, <1>5 DEF LeavesOpenAlone
<1>7. v \in A.upd \/ v \in A.acc
  BY <1>1, <1>6, OpenIs DEF Open, A
<1>8. v \in B.upd \/ v \in B.acc
  <2>1. /\ InUpdate(p, v)' <=> v \in StateAt(p)'.upd
        /\ InAccumulate(p, v)' <=> v \in StateAt(p)'.acc
    <3>1. /\ program' = program /\ program \in FilterPrograms
          /\ pos'[p] \in Nat /\ pos'[p] <= Len(program)
      BY <1>1, <1>3 DEF QueuesOK, FilterSetting
    <3>2. Len(program) \in Nat
      BY <3>1, FilterTraced
    <3>3. pos'[p] \in 0 .. Len(program)
      BY <3>1, <3>2
    <3>4. /\ InUpdate(p, v)' <=> Count(program, pos'[p], "updateBegin", v) >
                                  Count(program, pos'[p], "updateEnd", v)
          /\ InAccumulate(p, v)' <=> Count(program, pos'[p], "accumulateBegin", v) >
                                      Count(program, pos'[p], "accumulateEnd", v)
      BY <3>1 DEF InUpdate, InAccumulate, Opened, Count
    <3>5. StateAt(p)' = FilterTrace(program)[pos'[p]]
      BY <3>1 DEF StateAt
    <3>6. QED
      BY <3>1, <3>3, <3>4, <3>5, OpenAt
  <2>2. QED
    BY <1>4, <1>6, <2>1 DEF Open
<1>9. QED
  BY <1>2, <1>7, <1>8 DEF Allows, Writes

-----------------------------------------------------------------------------
\* The operations of the exchange.
LEMMA HeapsSet ==
  ASSUME FilterShape, NEW p \in Rank, NEW v \in Vec,
         NEW d, NEW g, NEW b, DOMAIN g = localGhost(p, v),
         owned' = owned \/ owned' = Stored(owned, p, v, d),
         ghost' = ghost \/ ghost' = Stored(ghost, p, v, g),
         buffer' = buffer \/ buffer' = Stored(buffer, p, v, b)
  PROVE  /\ IsHeap(owned') /\ IsHeap(ghost') /\ IsHeap(buffer')
         /\ \A a \in Rank : \A w \in Vec : a # p \/ w # v =>
              owned'[a][w] = owned[a][w] /\ ghost'[a][w] = ghost[a][w] /\ buffer'[a][w] = buffer[a][w]
         /\ DOMAIN ghost'[p][v] = localGhost(p, v)
         /\ ghost' = Stored(ghost, p, v, g) => ghost'[p][v] = g
<1>1. /\ IsHeap(owned) /\ IsHeap(ghost) /\ IsHeap(buffer)
      /\ \A a \in Rank : \A w \in Vec : DOMAIN ghost[a][w] = localGhost(a, w)
  BY DEF FilterShape
<1>2. IsHeap(owned') /\ \A a \in Rank : \A w \in Vec : a # p \/ w # v => owned'[a][w] = owned[a][w]
  BY <1>1, HeapSet
<1>3. /\ IsHeap(ghost') /\ \A a \in Rank : \A w \in Vec : a # p \/ w # v => ghost'[a][w] = ghost[a][w]
      /\ DOMAIN ghost'[p][v] = localGhost(p, v)
      /\ ghost' = Stored(ghost, p, v, g) => ghost'[p][v] = g
  BY <1>1, HeapSet
<1>4. IsHeap(buffer') /\ \A a \in Rank : \A w \in Vec : a # p \/ w # v => buffer'[a][w] = buffer[a][w]
  BY <1>1, HeapSet
<1>5. QED
  BY <1>2, <1>3, <1>4

\* An operation on one vector.
LEMMA OneEffect ==
  ASSUME FilterShape, NEW p \in Rank, pos[p] < Len(program), Advance(p),
         NextOp(p).v \in Vec, NextOp(p).op \notin {"swap", "combined"},
         NEW d, NEW g, NEW b, DOMAIN g = localGhost(p, NextOp(p).v),
         owned' = owned \/ owned' = Stored(owned, p, NextOp(p).v, d),
         \/ ghost' = ghost /\ ~ClearsGhosts(NextOp(p))
         \/ /\ ghost' = Stored(ghost, p, NextOp(p).v, g)
            /\ KeepsGhosts(NextOp(p)) => \A j \in localGhost(p, NextOp(p).v) :
                                            g[j] = ghost[p][NextOp(p).v][j]
            /\ ClearsGhosts(NextOp(p)) => \A j \in localGhost(p, NextOp(p).v) : g[j] = 0,
         buffer' = buffer \/ buffer' = Stored(buffer, p, NextOp(p).v, b)
  PROVE  Effect(p)
<1> DEFINE o == NextOp(p)
<1>1. o.v \in Vec /\ o.op # "swap" /\ o.op # "combined"
  OBVIOUS
<1>2. /\ IsHeap(owned') /\ IsHeap(ghost') /\ IsHeap(buffer')
      /\ \A a \in Rank : \A w \in Vec : a # p \/ w # o.v =>
           owned'[a][w] = owned[a][w] /\ ghost'[a][w] = ghost[a][w] /\ buffer'[a][w] = buffer[a][w]
      /\ DOMAIN ghost'[p][o.v] = localGhost(p, o.v)
      /\ ghost' = Stored(ghost, p, o.v, g) => ghost'[p][o.v] = g
  BY HeapsSet
<1>3. /\ KeepsGhosts(o) => \A j \in localGhost(p, o.v) : ghost'[p][o.v][j] = ghost[p][o.v][j]
      /\ ClearsGhosts(o) => \A j \in localGhost(p, o.v) : ghost'[p][o.v][j] = 0
  BY <1>2
<1> HIDE DEF o
<1>4. \A w \in Vec : ~Writes(o, w) => w # o.v
  BY DEF Writes
<1>5. QED
  BY <1>1, <1>2, <1>3, <1>4 DEF Effect, o

\* The exchange writes one vector of a rank, and MPI alone writes its ghosts.
LEMMA ExchangeEffect ==
  ASSUME FilterSetting, FInv, NEW p \in Rank, RankStep(p)
  PROVE  Effect(p)
<1>0. FilterShape /\ QueuesOK
  BY DEF FInv, IInv
<1>1. PICK v \in Vec :
        \/ Compute(p, v) \/ zeroOutGhosts(p, v)
        \/ updateGhostValuesBegin(p, v) \/ updateGhostValuesEnd(p, v)
        \/ accumulateAddLocallyOwnedBegin(p, v) \/ accumulateAddLocallyOwnedEnd(p, v)
  BY DEF RankStep
<1>2. ASSUME NEW op, At(p, op, v)
      PROVE  pos[p] < Len(program) /\ NextOp(p).op = op /\ NextOp(p).v = v
  BY <1>2 DEF At, NextOp
<1>3. PICK z : DOMAIN z = localGhost(p, v) /\ z = Zero(localGhost(p, v))
  BY DEF Zero
<1>4. CASE Compute(p, v)
  <2>1. At(p, "compute", v) /\ Advance(p) /\ buffer' = buffer
    BY <1>4 DEF Compute
  <2>2. PICK d : owned' = Stored(owned, p, v, d)
    BY <1>4 DEF Compute, Stored
  <2>3. PICK g : ghost' = Stored(ghost, p, v, g) /\ DOMAIN g = localGhost(p, v)
    <3> DEFINE e == [j \in localGhost(p, v) |->
                       Computed(p, pos[p], Ascending(GhostIndices[v][p])[j + 1])]
    <3>1. ghost' = Stored(ghost, p, v, e)
      BY <1>4 DEF Compute, Stored
    <3>2. DOMAIN e = localGhost(p, v)
      OBVIOUS
    <3> HIDE DEF e
    <3>3. QED
      BY <3>1, <3>2
  <2>4. NextOp(p).op = "compute" /\ NextOp(p).v = v /\ pos[p] < Len(program)
    BY <1>2, <2>1
  <2>5. ~KeepsGhosts(NextOp(p)) /\ ~ClearsGhosts(NextOp(p))
    BY <2>4 DEF KeepsGhosts, ClearsGhosts
  <2>6. QED
    BY <1>0, <2>1, <2>2, <2>3, <2>4, <2>5, OneEffect
<1>5. CASE zeroOutGhosts(p, v)
  <2>1. /\ At(p, "zeroOutGhosts", v) /\ Advance(p) /\ buffer' = buffer /\ owned' = owned
        /\ ghost' = Stored(ghost, p, v, z)
    BY <1>3, <1>5 DEF zeroOutGhosts, Stored
  <2>2. NextOp(p).op = "zeroOutGhosts" /\ NextOp(p).v = v /\ pos[p] < Len(program)
    BY <1>2, <2>1
  <2>3. ~KeepsGhosts(NextOp(p))
    BY <2>2 DEF KeepsGhosts
  <2>4. \A j \in localGhost(p, v) : z[j] = 0
    BY <1>3 DEF Zero
  <2>5. QED
    BY <1>0, <1>3, <2>1, <2>2, <2>3, <2>4, OneEffect
<1>6. CASE updateGhostValuesBegin(p, v)
  <2>1. At(p, "updateBegin", v) /\ Advance(p) /\ owned' = owned /\ ghost' = ghost
    BY <1>6 DEF updateGhostValuesBegin
  <2>2. PICK b : buffer' = Stored(buffer, p, v, b)
    BY <1>6 DEF updateGhostValuesBegin, Stored
  <2>3. NextOp(p).op = "updateBegin" /\ NextOp(p).v = v /\ pos[p] < Len(program)
    BY <1>2, <2>1
  <2>4. ~ClearsGhosts(NextOp(p))
    BY <2>3 DEF ClearsGhosts
  <2>5. QED
    BY <1>0, <1>3, <2>1, <2>2, <2>3, <2>4, OneEffect
<1>7. CASE updateGhostValuesEnd(p, v)
  <2>1. /\ At(p, "updateEnd", v) /\ Advance(p)
        /\ owned' = owned /\ ghost' = ghost /\ buffer' = buffer
    BY <1>7 DEF updateGhostValuesEnd, heap
  <2>2. NextOp(p).op = "updateEnd" /\ NextOp(p).v = v /\ pos[p] < Len(program)
    BY <1>2, <2>1
  <2>3. ~ClearsGhosts(NextOp(p))
    BY <2>2 DEF ClearsGhosts
  <2>4. QED
    BY <1>0, <1>3, <2>1, <2>2, <2>3, OneEffect
<1>8. CASE accumulateAddLocallyOwnedBegin(p, v)
  <2>1. /\ At(p, "accumulateBegin", v) /\ Advance(p)
        /\ owned' = owned /\ ghost' = ghost /\ buffer' = buffer
    BY <1>8 DEF accumulateAddLocallyOwnedBegin, heap
  <2>2. NextOp(p).op = "accumulateBegin" /\ NextOp(p).v = v /\ pos[p] < Len(program)
    BY <1>2, <2>1
  <2>3. ~ClearsGhosts(NextOp(p))
    BY <2>2 DEF ClearsGhosts
  <2>4. QED
    BY <1>0, <1>3, <2>1, <2>2, <2>3, OneEffect
<1>9. CASE accumulateAddLocallyOwnedEnd(p, v)
  <2>1. At(p, "accumulateEnd", v) /\ Advance(p) /\ ghost' = ghost /\ buffer' = buffer
    BY <1>9 DEF accumulateAddLocallyOwnedEnd
  <2>2. PICK d : owned' = Stored(owned, p, v, d)
    BY <1>9 DEF accumulateAddLocallyOwnedEnd, Stored
  <2>3. NextOp(p).op = "accumulateEnd" /\ NextOp(p).v = v /\ pos[p] < Len(program)
    BY <1>2, <2>1
  <2>4. ~ClearsGhosts(NextOp(p))
    BY <2>3 DEF ClearsGhosts
  <2>5. QED
    BY <1>0, <1>3, <2>1, <2>2, <2>3, <2>4, OneEffect
<1>10. QED
  BY <1>1, <1>4, <1>5, <1>6, <1>7, <1>8, <1>9

-----------------------------------------------------------------------------
\* The kernels.
LEMMA AssignEffect ==
  ASSUME FilterSetting, FInv, NEW p \in Rank, pos[p] < Len(program), Advance(p),
         NextOp(p).op \notin {"swap", "combined"}, buffer' = buffer,
         NEW f, Assign(p, NextOp(p).v, f),
         KeepsGhosts(NextOp(p)) => DOMAIN f \subseteq Owned(p, NextOp(p).v),
         ClearsGhosts(NextOp(p)) =>
           GhostIndices[NextOp(p).v][p] \subseteq DOMAIN f /\ \A g \in DOMAIN f : f[g] = 0
  PROVE  Effect(p)
<1>1. QueuesOK /\ FilterShape
  BY DEF FInv, IInv
<1>2. PICK v : v = NextOp(p).v
  OBVIOUS
<1>3. v \in Vec
  BY <1>1, <1>2, StepAllowed DEF Allows
<1> DEFINE d == [i \in DOMAIN owned[p][v] |->
                   LET g == Global(p, v, i) IN IF g \in DOMAIN f THEN f[g] ELSE owned[p][v][i]]
           h == [j \in DOMAIN ghost[p][v] |->
                   LET g == GhostAt(p, v, j) IN IF g \in DOMAIN f THEN f[g] ELSE ghost[p][v][j]]
<1>4. owned' = Stored(owned, p, v, d) /\ ghost' = Stored(ghost, p, v, h)
  BY <1>2 DEF Assign, Stored
<1>5. DOMAIN ghost[p][v] = localGhost(p, v)
  BY <1>1, <1>3 DEF FilterShape
<1>6. \A j \in localGhost(p, v) : GhostAt(p, v, j) \in GhostIndices[v][p]
  BY <1>3, GhostAtIs
<1>7. GhostIndices[v][p] \cap Owned(p, v) = {}
  BY <1>3 DEF FilterSetting, Owned
<1>8. DOMAIN h = localGhost(p, v)
  BY <1>5
<1>9. KeepsGhosts(NextOp(p)) => \A j \in localGhost(p, v) : h[j] = ghost[p][v][j]
  BY <1>2, <1>5, <1>6, <1>7
<1>10. ClearsGhosts(NextOp(p)) => \A j \in localGhost(p, v) : h[j] = 0
  BY <1>2, <1>5, <1>6
<1> HIDE DEF d, h
<1>11. QED
  BY <1>1, <1>2, <1>3, <1>4, <1>8, <1>9, <1>10, OneEffect

\* What each kernel assigns.
LEMMA AssignsEffect ==
  ASSUME FilterSetting, FInv, NEW p \in Rank,
         \/ SetValue(p) \/ Copy(p) \/ Axpby(p) \/ Scale(p)
         \/ distribute(p) \/ distributeSlaveToMaster(p) \/ computeLocalHamiltonianTimesX(p)
  PROVE  Effect(p)
<1> DEFINE o == NextOp(p)
<1>1. ASSUME NEW name, Launched(p, name)
      PROVE  pos[p] < Len(program) /\ Advance(p) /\ buffer' = buffer /\ o.op = name
  BY <1>1 DEF Launched
<1>2. CASE SetValue(p)
  <2>1. Launched(p, "setZero") /\ Assign(p, o.v, [g \in LocalEntries(p, o.v) |-> 0])
    BY <1>2 DEF SetValue
  <2>2. PICK f : f = [g \in LocalEntries(p, o.v) |-> 0]
    OBVIOUS
  <2>3. GhostIndices[o.v][p] \subseteq DOMAIN f /\ \A g \in DOMAIN f : f[g] = 0
    BY <2>2 DEF LocalEntries
  <2>4. o.op = "setZero"
    BY <1>1, <2>1
  <2>5. o.op \notin {"swap", "combined"} /\ ~KeepsGhosts(o)
    BY <2>4 DEF KeepsGhosts
  <2>6. Assign(p, o.v, f)
    BY <2>1, <2>2
  <2>7. pos[p] < Len(program) /\ Advance(p) /\ buffer' = buffer
    BY <1>1, <2>1
  <2>8. QED
    BY <2>3, <2>5, <2>6, <2>7, AssignEffect
<1>3. CASE Copy(p)
  <2>1. Launched(p, "copy") /\ Assign(p, o.v, [g \in Copied(p, o.v, o.which) |-> entry(p, o.x, g)])
    BY <1>3 DEF Copy
  <2>2. PICK f : f = [g \in Copied(p, o.v, o.which) |-> entry(p, o.x, g)]
    OBVIOUS
  <2>3. o.op = "copy"
    BY <1>1, <2>1
  <2>4. o.op \notin {"swap", "combined"} /\ ~ClearsGhosts(o)
        /\ (KeepsGhosts(o) => o.which \in {"owned", "boundary"})
    BY <2>3 DEF KeepsGhosts, ClearsGhosts
  <2>5. o.which \in {"owned", "boundary"} => Copied(p, o.v, o.which) \subseteq Owned(p, o.v)
    BY DEF Copied, BoundaryNodes
  <2>6. DOMAIN f = Copied(p, o.v, o.which) /\ Assign(p, o.v, f)
    BY <2>1, <2>2
  <2>7. pos[p] < Len(program) /\ Advance(p) /\ buffer' = buffer
    BY <1>1, <2>1
  <2>8. KeepsGhosts(o) => DOMAIN f \subseteq Owned(p, o.v)
    BY <2>4, <2>5, <2>6
  <2>9. QED
    BY <2>4, <2>6, <2>7, <2>8, AssignEffect
<1>4. CASE Axpby(p)
  <2>1. PICK f : Launched(p, "axpby") /\ Assign(p, o.v, f) /\ DOMAIN f = Owned(p, o.v)
    BY <1>4 DEF Axpby
  <2>2. o.op = "axpby" /\ pos[p] < Len(program) /\ Advance(p) /\ buffer' = buffer
    BY <1>1, <2>1
  <2>3. o.op \notin {"swap", "combined"} /\ ~ClearsGhosts(o)
    BY <2>2 DEF ClearsGhosts
  <2>4. QED
    BY <2>1, <2>2, <2>3, AssignEffect
<1>5. CASE Scale(p)
  <2>1. PICK f : Launched(p, "scale") /\ Assign(p, o.v, f) /\ DOMAIN f = Owned(p, o.v)
    BY <1>5 DEF Scale
  <2>2. o.op = "scale" /\ pos[p] < Len(program) /\ Advance(p) /\ buffer' = buffer
    BY <1>1, <2>1
  <2>3. o.op \notin {"swap", "combined"} /\ ~ClearsGhosts(o)
    BY <2>2 DEF ClearsGhosts
  <2>4. QED
    BY <2>1, <2>2, <2>3, AssignEffect
<1>6. CASE distribute(p)
  <2>1. PICK f : Launched(p, "distribute") /\ Assign(p, o.v, f)
    BY <1>6 DEF distribute
  <2>2. o.op = "distribute" /\ pos[p] < Len(program) /\ Advance(p) /\ buffer' = buffer
    BY <1>1, <2>1
  <2>3. o.op \notin {"swap", "combined"} /\ ~ClearsGhosts(o) /\ ~KeepsGhosts(o)
    BY <2>2 DEF ClearsGhosts, KeepsGhosts
  <2>4. QED
    BY <2>1, <2>2, <2>3, AssignEffect
<1>7. CASE distributeSlaveToMaster(p)
  <2>1. PICK f : Launched(p, "distributeSlaveToMaster") /\ Assign(p, o.v, f)
    BY <1>7 DEF distributeSlaveToMaster
  <2>2. o.op = "distributeSlaveToMaster" /\ pos[p] < Len(program) /\ Advance(p) /\ buffer' = buffer
    BY <1>1, <2>1
  <2>3. o.op \notin {"swap", "combined"} /\ ~ClearsGhosts(o) /\ ~KeepsGhosts(o)
    BY <2>2 DEF ClearsGhosts, KeepsGhosts
  <2>4. QED
    BY <2>1, <2>2, <2>3, AssignEffect
<1>8. CASE computeLocalHamiltonianTimesX(p)
  <2>1. PICK f : Launched(p, "computeLocalHamiltonianTimesX") /\ Assign(p, o.v, f)
    BY <1>8 DEF computeLocalHamiltonianTimesX
  <2>2. /\ o.op = "computeLocalHamiltonianTimesX" /\ pos[p] < Len(program)
        /\ Advance(p) /\ buffer' = buffer
    BY <1>1, <2>1
  <2>3. o.op \notin {"swap", "combined"} /\ ~ClearsGhosts(o) /\ ~KeepsGhosts(o)
    BY <2>2 DEF ClearsGhosts, KeepsGhosts
  <2>4. QED
    BY <2>1, <2>2, <2>3, AssignEffect
<1>9. QED
  BY <1>2, <1>3, <1>4, <1>5, <1>6, <1>7, <1>8

\* Two vectors of one rank are written.
LEMMA HeapSetTwice ==
  ASSUME NEW f, IsHeap(f), NEW p \in Rank, NEW v \in Vec, NEW x \in Vec, NEW d, NEW e
  PROVE  /\ IsHeap(Stored(Stored(f, p, v, d), p, x, e))
         /\ \A a \in Rank : \A w \in Vec :
              Stored(Stored(f, p, v, d), p, x, e)[a][w] =
                IF a = p /\ w = x THEN e ELSE IF a = p /\ w = v THEN d ELSE f[a][w]
<1>1. PICK g : g = Stored(f, p, v, d)
  OBVIOUS
<1>2. IsHeap(g) /\ \A a \in Rank : \A w \in Vec : g[a][w] = IF a = p /\ w = v THEN d ELSE f[a][w]
  BY <1>1, HeapSet
<1>3. /\ IsHeap(Stored(g, p, x, e))
      /\ \A a \in Rank : \A w \in Vec :
           Stored(g, p, x, e)[a][w] = IF a = p /\ w = x THEN e ELSE g[a][w]
  BY <1>2, HeapSet
<1>4. QED
  BY <1>1, <1>2, <1>3

\* The kernel that scales, adds and scales back writes the owned entries of two vectors.
LEMMA CombinedEffect ==
  ASSUME FilterSetting, FInv, NEW p \in Rank, Combined(p)
  PROVE  Effect(p)
<1> DEFINE o == NextOp(p)
<1>1. /\ pos[p] < Len(program) /\ Advance(p) /\ buffer' = buffer /\ o.op = "combined"
      /\ ghost' = ghost
  BY DEF Combined, Launched
<1>2. QueuesOK /\ FilterShape
  BY DEF FInv, IInv
<1>3. o.v \in Vec /\ o.x \in Vec
  BY <1>1, <1>2, StepAllowed DEF Allows
<1>4. PICK d, e : owned' = Stored(Stored(owned, p, o.v, d), p, o.x, e)
  BY DEF Combined, Stored
<1> HIDE DEF o
<1>5. /\ IsHeap(owned) /\ IsHeap(ghost) /\ IsHeap(buffer)
      /\ DOMAIN ghost[p][o.v] = localGhost(p, o.v)
  BY <1>2, <1>3 DEF FilterShape
<1>6. /\ IsHeap(owned')
      /\ \A a \in Rank : \A w \in Vec : a # p \/ (w # o.v /\ w # o.x) => owned'[a][w] = owned[a][w]
  BY <1>3, <1>4, <1>5, HeapSetTwice
<1>7. ~ClearsGhosts(o) /\ o.op # "swap" /\ \A w \in Vec : ~Writes(o, w) => w # o.v /\ w # o.x
  BY <1>1 DEF ClearsGhosts, Writes
<1>8. QED
  BY <1>1, <1>5, <1>6, <1>7 DEF Effect, o

\* A swap takes the ghosts along.
LEMMA SwapEffect ==
  ASSUME FilterSetting, FInv, NEW p \in Rank, Swap(p)
  PROVE  Effect(p)
<1> DEFINE o == NextOp(p)
           Swapped(f) == Stored(Stored(f, p, o.v, f[p][o.x]), p, o.x, f[p][o.v])
<1>1. /\ pos[p] < Len(program) /\ Advance(p) /\ o.op = "swap"
      /\ owned' = Swapped(owned) /\ ghost' = Swapped(ghost) /\ buffer' = Swapped(buffer)
  BY DEF Swap, Stored
<1>2. QueuesOK /\ FilterShape
  BY DEF FInv, IInv
<1>3. o.v \in Vec /\ o.x \in Vec
  BY <1>1, <1>2, StepAllowed DEF Allows
<1> HIDE DEF o
<1>4. IsHeap(owned) /\ IsHeap(ghost) /\ IsHeap(buffer)
  BY <1>2 DEF FilterShape
<1>5. ASSUME NEW f, IsHeap(f)
      PROVE  /\ IsHeap(Swapped(f))
             /\ Swapped(f)[p][o.v] = f[p][o.x] /\ Swapped(f)[p][o.x] = f[p][o.v]
             /\ \A a \in Rank : \A w \in Vec :
                  a # p \/ (w # o.v /\ w # o.x) => Swapped(f)[a][w] = f[a][w]
  BY <1>3, <1>5, HeapSetTwice
<1> HIDE DEF Swapped
<1>6. /\ ~ClearsGhosts(o) /\ ~KeepsGhosts(o)
      /\ \A w \in Vec : ~Writes(o, w) => w # o.v /\ w # o.x
  BY <1>1 DEF ClearsGhosts, KeepsGhosts, Writes
<1>7. QED
  BY <1>1, <1>4, <1>5, <1>6 DEF Effect, o

-----------------------------------------------------------------------------
\* MPI writes the ghost section of a vector only while an update of it is open.
LEMMA DeliveryKeeps ==
  ASSUME FilterSetting, FInv, NEW p \in Rank, NEW q \in Rank, NEW t \in Tag, Deliver(p, q, t)
  PROVE  FilterShape' /\ GhostsClear'
<1>1. IInv /\ QueuesOK /\ FilterShape /\ GhostsClear /\ NothingOutlivesItsOperation
  BY DEF FInv, IInv
<1> DEFINE r == receives[q][p][t]
           data == Head(sends[p][q][t]).data
<1>2. PICK v : v = Head(r)
  OBVIOUS
<1>3. v \in Vec /\ 1 \in DOMAIN r /\ r[1] = v
  <2>1. r \in Seq(Vec) /\ r # <<>>
    BY <1>1 DEF QueuesOK, Deliver
  <2> HIDE DEF r
  <2>2. QED
    BY <1>2, <2>1
<1> DEFINE first == GhostSegmentStart(q, v, p)
           into == IF t = Scatter THEN GhostSegment(q, v, p) ELSE {}
           e == [j \in DOMAIN ghost[q][v] |->
                   IF j \in into /\ j - first + 1 \in DOMAIN data THEN data[j - first + 1]
                   ELSE ghost[q][v][j]]
<1>4. /\ ghost' = Stored(ghost, q, v, e) /\ program' = program /\ pos' = pos /\ owned' = owned
      /\ buffer' = IF t = Gather THEN [buffer EXCEPT ![q][v][p] = data] ELSE buffer
  BY <1>2 DEF Deliver, Stored
<1>5. /\ IsHeap(owned) /\ IsHeap(ghost) /\ IsHeap(buffer)
      /\ \A a \in Rank : \A w \in Vec : DOMAIN ghost[a][w] = localGhost(a, w)
  BY <1>1 DEF FilterShape
<1>6. DOMAIN e = localGhost(q, v) /\ (t # Scatter => \A j \in localGhost(q, v) : e[j] = ghost[q][v][j])
  BY <1>3, <1>5
<1>7. IsHeap(buffer')
  <2> DEFINE b == [buffer[q][v] EXCEPT ![p] = data]
  <2>1. [buffer EXCEPT ![q][v][p] = data] = Stored(buffer, q, v, b)
    BY DEF Stored
  <2>2. CASE t = Gather
    <3>1. buffer' = Stored(buffer, q, v, b)
      BY <1>4, <2>1, <2>2
    <3> HIDE DEF b
    <3>2. QED
      BY <1>3, <1>5, <3>1, HeapSet
  <2>3. CASE t # Gather
    <3>1. buffer' = buffer
      BY <1>4, <2>3
    <3>2. QED
      BY <1>5, <3>1 DEF IsHeap
  <2>4. QED
    BY <2>2, <2>3
<1> HIDE DEF e
<1>8. /\ IsHeap(ghost')
      /\ \A a \in Rank : \A w \in Vec : ghost'[a][w] = IF a = q /\ w = v THEN e ELSE ghost[a][w]
  BY <1>3, <1>4, <1>5, HeapSet
<1>9. t = Scatter => v \in StateAt(q).upd
  <2> SUFFICES ASSUME t = Scatter PROVE v \in StateAt(q).upd
    OBVIOUS
  <2>1. ~Delivered(q, Scatter, v)
    BY <1>3 DEF Delivered
  <2>2. InUpdate(q, v)
    BY <1>1, <1>3, <2>1 DEF NothingOutlivesItsOperation
  <2>3. QED
    BY <1>1, <1>3, <2>2, OpenIs
<1>10. \A a \in Rank : StateAt(a)' = StateAt(a)
  BY <1>4 DEF StateAt
<1>11. GhostsClear'
  <2> SUFFICES ASSUME NEW a \in Rank, NEW w \in Vec,
                      w \in StateAt(a)'.zero, w \notin StateAt(a)'.upd, NEW j \in localGhost(a, w)
               PROVE  ghost'[a][w][j] = 0
    BY DEF GhostsClear
  <2>1. w \in StateAt(a).zero /\ w \notin StateAt(a).upd
    BY <1>10
  <2>2. ghost[a][w][j] = 0
    BY <1>1, <2>1 DEF GhostsClear
  <2>3. a = q /\ w = v => t # Scatter
    BY <1>9, <2>1
  <2>4. QED
    BY <1>6, <1>8, <2>2, <2>3
<1>12. FilterShape'
  <2>1. IsHeap(owned') /\ IsHeap(ghost') /\ IsHeap(buffer')
    BY <1>4, <1>5, <1>7, <1>8
  <2>2. \A a \in Rank : \A w \in Vec : DOMAIN ghost'[a][w] = localGhost(a, w)
    BY <1>5, <1>6, <1>8
  <2>3. QED
    BY <2>1, <2>2 DEF FilterShape
<1>13. QED
  BY <1>11, <1>12

\* At first all memory is zero.
LEMMA FilterInit == FilterSetting /\ Init => FInv
<1> SUFFICES ASSUME FilterSetting, Init PROVE FInv
  OBVIOUS
<1>1. IInv
  BY InitOK
<1>2. /\ owned = [p \in Rank |-> [v \in Vec |-> Zero(localOwned(p, v))]]
      /\ ghost = [p \in Rank |-> [v \in Vec |-> Zero(localGhost(p, v))]]
      /\ buffer = [p \in Rank |-> [v \in Vec |-> [q \in getTargetProcIds(p, v) |->
                     [i \in 1 .. NumGhosts(q, v, p) |-> 0]]]]
      /\ pos = [p \in Rank |-> 0] /\ program \in Programs
  BY DEF Init
<1>3. FilterShape
  <2>1. IsHeap(owned)
    BY <1>2 DEF IsHeap
  <2>2. IsHeap(ghost)
    BY <1>2 DEF IsHeap
  <2>3. IsHeap(buffer)
    BY <1>2 DEF IsHeap
  <2>4. \A p \in Rank : \A v \in Vec : DOMAIN ghost[p][v] = localGhost(p, v)
    BY <1>2 DEF Zero
  <2>5. QED
    BY <2>1, <2>2, <2>3, <2>4 DEF FilterShape
<1>4. GhostsClear
  <2>1. \A p \in Rank : \A v \in Vec : \A j \in localGhost(p, v) : ghost[p][v][j] = 0
    BY <1>2 DEF Zero
  <2>2. QED
    BY <2>1 DEF GhostsClear
<1>5. QED
  BY <1>1, <1>3, <1>4 DEF FInv

\* The steps of a filter that are operations of a rank.
LEMMA FilterEffect ==
  ASSUME FilterSetting, FInv, NEW p \in Rank, RankStep(p) \/ KernelStep(p) \/ Swap(p)
  PROVE  Effect(p)
<1>1. CASE RankStep(p)
  BY <1>1, ExchangeEffect
<1>2. CASE KernelStep(p)
  BY <1>2, AssignsEffect, CombinedEffect DEF KernelStep
<1>3. CASE Swap(p)
  BY <1>3, SwapEffect
<1>4. QED
  BY <1>1, <1>2, <1>3

\* The operations of a rank preserve the invariant of the queues.
LEMMA FilterStepOK ==
  ASSUME FilterSetting, FInv, NEW p \in Rank, RankStep(p) \/ KernelStep(p) \/ Swap(p)
  PROVE  IInv'
<1>1. IInv /\ QueuesOK
  BY DEF FInv, IInv
<1>2. CASE RankStep(p)
  BY <1>1, <1>2, NextOK DEF Next
<1>3. CASE KernelStep(p)
  <2>1. PICK name \in {"setZero", "copy", "axpby", "scale", "combined", "distribute",
                       "distributeSlaveToMaster", "computeLocalHamiltonianTimesX"} :
          Launched(p, name)
    BY <1>3 DEF KernelStep, SetValue, Copy, Axpby, Scale, Combined, distribute,
                distributeSlaveToMaster, computeLocalHamiltonianTimesX
  <2>2. /\ pos[p] < Len(program) /\ NextOp(p).op = name /\ Advance(p) /\ UNCHANGED mpi
    BY <2>1 DEF Launched
  <2>3. NextOp(p).op \notin Exchange
    BY <2>2 DEF Exchange
  <2>4. pos[p] + 1 \in 1 .. Len(program)
    BY <1>1, <2>2, StepAllowed
  <2>5. QED
    BY <1>1, <2>2, <2>3, <2>4, KernelOK
<1>4. CASE Swap(p)
  <2>1. /\ pos[p] < Len(program) /\ NextOp(p).op = "swap" /\ Advance(p) /\ UNCHANGED mpi
    BY <1>4 DEF Swap
  <2>2. NextOp(p).op \notin Exchange
    BY <2>1 DEF Exchange
  <2>3. pos[p] + 1 \in 1 .. Len(program)
    BY <1>1, <2>1, StepAllowed
  <2>4. QED
    BY <1>1, <2>1, <2>2, <2>3, KernelOK
<1>5. QED
  BY <1>2, <1>3, <1>4

\* Every step preserves the invariant of the filter.
LEMMA FilterNextOK == FilterSetting /\ FInv /\ [FilterNext]_vars => FInv'
<1> SUFFICES ASSUME FilterSetting, FInv, [FilterNext]_vars PROVE FInv'
  OBVIOUS
<1>0. IInv /\ FilterShape /\ GhostsClear
  BY DEF FInv
<1>1. ASSUME NEW p \in Rank, RankStep(p) \/ KernelStep(p) \/ Swap(p) PROVE FInv'
  BY <1>1, FilterStepOK, FilterEffect, EffectKeeps DEF FInv
<1>2. ASSUME NEW p \in Rank, NEW q \in Rank, NEW t \in Tag, Deliver(p, q, t) PROVE FInv'
  <2>1. IInv'
    BY <1>0, <1>2, NextOK DEF Next, Progress
  <2>2. QED
    BY <1>2, <2>1, DeliveryKeeps DEF FInv
<1>3. CASE UNCHANGED <<program, pos, heap>> /\ IInv'
  <2>1. program' = program /\ pos' = pos /\ owned' = owned /\ ghost' = ghost /\ buffer' = buffer
    BY <1>3 DEF heap
  <2>2. FilterShape'
    BY <1>0, <2>1 DEF FilterShape, IsHeap
  <2>3. GhostsClear'
    BY <1>0, <2>1 DEF GhostsClear, StateAt
  <2>4. QED
    BY <1>3, <2>2, <2>3 DEF FInv
<1>4. ASSUME NEW p \in Rank, NEW q \in Rank, NEW t \in Tag, NEW i \in DOMAIN sends[p][q][t],
             Inject(p, q, t, i)
      PROVE  FInv'
  <2>1. IInv'
    BY <1>0, <1>4, NextOK DEF Next, Progress
  <2>2. UNCHANGED <<program, pos, heap>>
    BY <1>4 DEF Inject
  <2>3. QED
    BY <1>3, <2>1, <2>2
<1>5. CASE UNCHANGED vars
  <2>1. IInv'
    BY <1>0, <1>5, NextOK
  <2>2. UNCHANGED <<program, pos, heap>>
    BY <1>5 DEF vars, heap
  <2>3. QED
    BY <1>3, <2>1, <2>2
<1>6. QED
  BY <1>1, <1>2, <1>4, <1>5 DEF FilterNext, Progress, Terminated

\* The invariant with the setting, which no step changes.
SettingInv == FilterSetting /\ FInv

\* The invariant of the filter holds throughout, for every degree, whichever pattern.
THEOREM FilterInvariance == FilterSetting /\ FilterSpec => []SettingInv
<1>1. FilterSetting /\ Init => SettingInv
  BY FilterInit DEF SettingInv
<1>2. FilterSetting => FilterSetting'
  BY DEF FilterSetting
<1>3. SettingInv /\ [FilterNext]_vars => SettingInv'
  BY <1>2, FilterNextOK DEF SettingInv
<1>4. QED
  BY <1>1, <1>3, PTL DEF FilterSpec

\* The kernels and swaps of a filter between the exchanges, and its shared float
\* vector, leave every receive paired with a send of its own vector.
THEOREM FilterMessagesReachTheirVector ==
  FilterSetting /\ FilterSpec => []MessagesMatchTheirVector
<1>1. SettingInv => MessagesMatchTheirVector
  BY QueuesMatch DEF SettingInv, FInv
<1>2. QED
  BY <1>1, FilterInvariance, PTL

\* The two overlapped blocks, the projector vectors and the float vector do not make
\* ranks wait in a circle either, whatever the degree.
THEOREM FilterWaitsForRanksBehind == FilterSetting /\ FilterSpec => []WaitsOnlyForRanksBehind
<1>1. SettingInv => WaitsOnlyForRanksBehind
  BY QuietWaits DEF SettingInv, FInv
<1>2. QED
  BY <1>1, FilterInvariance, PTL

\* Whatever the degree of a filter, and with or without the float vector: a product
\* is added to a vector whose ghost section is clear.
THEOREM ProductsFindClearGhosts == FilterSetting /\ FilterSpec => []ProductsAddToClearedGhosts
<1>1. SettingInv => ProductsAddToClearedGhosts
  <2> SUFFICES ASSUME FilterSetting, FInv, NEW p \in Rank, pos[p] < Len(program),
                      NextOp(p).op = "computeLocalHamiltonianTimesX"
               PROVE  \A j \in localGhost(p, NextOp(p).v) : ghost[p][NextOp(p).v][j] = 0
    BY DEF ProductsAddToClearedGhosts, SettingInv
  <2>1. QueuesOK /\ GhostsClear
    BY DEF FInv, IInv
  <2>2. NextOp(p).v \in Vec /\ NextOp(p).v \in StateAt(p).zero /\ NextOp(p).v \notin StateAt(p).upd
    BY <2>1, StepAllowed DEF Allows
  <2>3. QED
    BY <2>1, <2>2 DEF GhostsClear
<1>2. QED
  BY <1>1, FilterInvariance, PTL

\* Between the begin and the end of an exchange of a vector, its rank neither writes
\* nor swaps it, and begins no other exchange of it, whatever the degree.
THEOREM FilterLeavesOpenVectorsAlone == FilterSetting /\ FilterSpec => OpenVectorsAreLeftAlone
<1>1. SettingInv /\ SettingInv' /\ [FilterNext]_vars => [LeavesOpenAlone]_vars
  <2> SUFFICES ASSUME FilterSetting, FInv, FInv', FilterNext PROVE LeavesOpenAlone
    BY DEF SettingInv
  <2>1. ASSUME NEW p \in Rank, RankStep(p) \/ KernelStep(p) \/ Swap(p) PROVE LeavesOpenAlone
    BY <2>1, FilterEffect, EffectLeavesOpen
  <2>2. CASE pos' = pos
    BY <2>2 DEF LeavesOpenAlone
  <2>3. CASE Progress
    <3>1. PICK p \in Rank, q \in Rank, t \in Tag :
            \/ \E i \in DOMAIN sends[p][q][t] : Inject(p, q, t, i)
            \/ Deliver(p, q, t)
      BY <2>3 DEF Progress
    <3>2. CASE \E i \in DOMAIN sends[p][q][t] : Inject(p, q, t, i)
      BY <2>2, <3>2 DEF Inject
    <3>3. CASE Deliver(p, q, t)
      <4>1. pos' = pos
        BY <3>3 DEF Deliver
      <4>2. QED
        BY <2>2, <4>1
    <3>4. QED
      BY <3>1, <3>2, <3>3
  <2>4. CASE Terminated
    <3>1. pos' = pos
      BY <2>4 DEF Terminated, vars
    <3>2. QED
      BY <2>2, <3>1
  <2>5. QED
    BY <2>1, <2>3, <2>4 DEF FilterNext
<1>2. OpenVectorsAreLeftAlone <=> [][LeavesOpenAlone]_vars
  BY PTL DEF OpenVectorsAreLeftAlone, LeavesOpenAlone
<1>3. QED
  BY <1>1, <1>2, FilterInvariance, PTL DEF FilterSpec
=============================================================================
