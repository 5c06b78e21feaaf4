-------------------------- MODULE DataflowControl --------------------------
(***************************************************************************)
(* Proofs about Dataflow, for any clients, slots, blocks and bounds: the   *)
(* inductive invariant IInv, the types, and where the threads are.         *)
(*                                                                         *)
(* The instructions of the blocks move between the queues and the workers; *)
(* Movement says where they are, in a form that each step changes in one   *)
(* place, and Control where the threads are.  Both are needed together:    *)
(* a block is freed when as many instructions as it has were counted, which*)
(* leaves none in a queue only because none was counted twice.             *)
(***************************************************************************)
EXTENDS Dataflow, TLAPS, FiniteSetTheorems, SequenceTheorems, WellFoundedInduction

-----------------------------------------------------------------------------
(* The inductive invariant.                                                *)

InSeq(e, q) == \E i \in 1 .. Len(q): q[i] = e
Distinct(q) == \A i, j \in 1 .. Len(q): q[i] = q[j] => i = j

Fe == [s \in Slots |-> workers[s].fe]
Nx == [s \in Slots |-> workers[s].fnxt]

Held(e) == InSeq(e, todo) \/ \E s \in Slots: Fe[s] = e \/ Nx[s] = e
Placed(c, n) == Held(<<c, n>>) \/ InSeq(n, flow[c].done)

(* Nothing is left of a pool that was stopped.                             *)
Fresh ==
    ~created => /\ ~exiting /\ todo = <<>> /\ sema = 0 /\ exitcount = 0
                /\ workers = [s \in Slots |-> NoThread]
                /\ \A c \in Callers: step[c].at = "out"

InBlock(c) == step[c].at \in {"feed", "wait", "dispatch"}

(* Where a caller is in runMALdataflow, and what its block is in then.     *)
Calling(c) ==
    /\ flow[c].live <=> InBlock(c)
    /\ step[c].at \in {"join", "init", "feed", "wait", "dispatch"} => step[c].w \in Slots
    /\ step[c].at = "dispatch" => /\ flow[c].f \in Nodes(flow[c].g)
                                  /\ flow[c].at <= Len(flow[c].g.wake[flow[c].f])
    /\ c \in Slots => /\ step[c].at # "out" => workers[c].pc = "call" /\ step[c].depth = 2
                      /\ flow[c].live => flow[c].g \in Called

(* What a worker has in its hands.                                         *)
Holding(s) ==
    /\ Running(s) <=> Fe[s] # Nobody
    /\ Nx[s] # Nobody => workers[s].pc = "report"
    /\ workers[s].pc = "call" => Of(Fe[s]).g.ins[Fe[s][2]].call

(* A slot whose thread has ended, or will have when it is joined.          *)
Vacant(s) ==
    /\ workers[s].flag \in {"IDLE", "EXITED"} => workers[s].pc = "none"
    /\ workers[s].flag = "JOINING"
          => workers[s].pc = "none" \/ (exiting /\ stopper.joining /\ stopper.at = s)

Ceased == exiting => created /\ \A c \in Clients: step[c].at = "out"

Control ==
    /\ \A c \in Callers: Calling(c)
    /\ \A s \in Slots: Holding(s) /\ Vacant(s)
    /\ Ceased

(* Who holds an instruction holds one of a block in progress.              *)
Owned == \A e \in Events: Held(e) => OfBlock(e)

(* No instruction is in the hands of two workers, or in those of a worker  *)
(* and a queue.                                                            *)
HandsApart(s, t) ==
    /\ Fe[s] # Nobody /\ Fe[s] = Fe[t] => s = t
    /\ Nx[s] # Nobody /\ Nx[s] = Nx[t] => s = t
    /\ Fe[s] # Nobody => Fe[s] # Nx[t]
OffQueue(s) ==
    /\ Fe[s] # Nobody => ~InSeq(Fe[s], todo)
    /\ Nx[s] # Nobody => ~InSeq(Nx[s], todo)
DoneApart(c) ==
    /\ Distinct(flow[c].done)
    /\ \A n \in Nodes(flow[c].g):
        InSeq(n, flow[c].done) => ~Held(<<c, n>>)
PlacedStarted(c) ==
    \A n \in Nodes(flow[c].g): Placed(c, n) => flow[c].state[n] # "pending"

Movement ==
    /\ Distinct(todo)
    /\ \A s, t \in Slots: HandsApart(s, t)
    /\ \A s \in Slots: OffQueue(s)
    /\ \A c \in Callers: flow[c].live => DoneApart(c) /\ PlacedStarted(c)

Settled(c) == {n \in Nodes(flow[c].g) : flow[c].state[n] # "pending" /\ ~Placed(c, n)}
Counts == \A c \in Callers: flow[c].live => Cardinality(Settled(c)) = flow[c].tasks

(* Without an error, what started and is not in the hands of somebody who  *)
(* still has to run it was run.                                            *)
Doing(s) == workers[s].pc \in {"got", "run", "call"}
Waiting(c, n) ==
    \/ InSeq(<<c, n>>, todo)
    \/ \E s \in Slots: \/ Fe[s] = <<c, n>> /\ Doing(s)
                       \/ Nx[s] = <<c, n>>
Wrapped ==
    \A c \in Callers: flow[c].live /\ ~flow[c].error =>
        \A n \in Nodes(flow[c].g): flow[c].state[n] = "running" => Waiting(c, n)

(* What n still waits for: wake-ups by instructions that are not counted   *)
(* yet, or by the one that the scheduler is just dispatching.              *)
Open(c, n) ==
    {e \in InEdges(flow[c].g, n) :
        \/ e[1] \notin Settled(c)
        \/ step[c].at = "dispatch" /\ e[1] = flow[c].f /\ e[2] > flow[c].at}

SourcesDone(c, n) == \A e \in InEdges(flow[c].g, n): flow[c].state[e[1]] = "wrapup"

BlockOrder(c) ==
    /\ \A n \in Nodes(flow[c].g):
        /\ flow[c].state[n] = "pending" => flow[c].blocks[n] = Cardinality(Open(c, n))
        /\ flow[c].state[n] # "pending" /\ ~flow[c].error => SourcesDone(c, n)
        /\ step[c].at = "feed" /\ n > flow[c].at => flow[c].state[n] = "pending"
    /\ step[c].at = "dispatch" => flow[c].f \in Settled(c)

Order ==
    /\ \A c \in Callers: flow[c].live => BlockOrder(c)
    /\ \A s \in Slots: Executing(s) => SourcesDone(Fe[s][1], Fe[s][2])

(* A token is in the semaphore or with a worker that has not looked yet.   *)
Looking == {s \in Slots : workers[s].pc = "pop"}
Tokens ==
    /\ ~exiting => sema + Cardinality(Looking) = Len(todo) + exitcount
    /\ exiting => Cardinality(Looking) <= Len(todo) + exitcount

Threads == PoolSize

Bound ==
    \A s \in Slots: Alive(s) /\ workers[s].cntxt # Nobody
        => \E c \in Callers: /\ step[c].at \in {"init", "feed", "wait", "dispatch"}
                             /\ step[c].w = s

IInv == TypeOK /\ Fresh /\ Control /\ Owned /\ Movement /\ Counts /\ Wrapped /\ Order

-----------------------------------------------------------------------------
(* Queues.                                                                 *)

(* Putting an element at the end (q_enqueue).                              *)
LEMMA Appended ==
  ASSUME NEW S, NEW q \in Seq(S), NEW e \in S
  PROVE  /\ Append(q, e) \in Seq(S)
         /\ Len(Append(q, e)) = Len(q) + 1
         /\ \A x: InSeq(x, Append(q, e)) <=> InSeq(x, q) \/ x = e
         /\ Distinct(q) /\ ~InSeq(e, q) => Distinct(Append(q, e))
<1> DEFINE r == Append(q, e)
<1>1. /\ r \in Seq(S) /\ Len(r) = Len(q) + 1 /\ Len(q) \in Nat
      /\ \A i \in 1 .. Len(q): r[i] = q[i]
      /\ r[Len(q) + 1] = e
  OBVIOUS
<1> HIDE DEF r
<1>2. \A x: InSeq(x, r) <=> InSeq(x, q) \/ x = e
  <2>1. ASSUME NEW x, InSeq(x, r) PROVE InSeq(x, q) \/ x = e
    BY <1>1, <2>1 DEF InSeq
  <2>2. ASSUME NEW x, InSeq(x, q) PROVE InSeq(x, r)
    BY <1>1, <2>2 DEF InSeq
  <2>3. InSeq(e, r)
    BY <1>1 DEF InSeq
  <2> QED  BY <2>1, <2>2, <2>3
<1>3. Distinct(q) /\ ~InSeq(e, q) => Distinct(r)
  BY <1>1 DEF InSeq, Distinct
<1> QED  BY <1>1, <1>2, <1>3, ZenonT(30) DEF r

(* Taking one out: the rest is what it was, one place to the front.        *)
LEMMA TakenOut ==
  ASSUME NEW S, NEW q \in Seq(S), NEW r \in Seq(S), NEW i \in 1 .. Len(q),
         Len(r) = Len(q) - 1,
         \A j \in 1 .. Len(r): r[j] = IF j < i THEN q[j] ELSE q[j + 1]
  PROVE  /\ \A x: InSeq(x, r) => InSeq(x, q)
         /\ \A x: InSeq(x, q) => InSeq(x, r) \/ x = q[i]
         /\ InSeq(q[i], q)
         /\ Distinct(q) => Distinct(r) /\ ~InSeq(q[i], r)
<1> USE DEF InSeq
<1>1. Len(q) \in Nat /\ Len(r) \in Nat
  OBVIOUS
<1>2. ASSUME NEW x, InSeq(x, r) PROVE InSeq(x, q)
  <2>1. PICK j \in 1 .. Len(r): r[j] = x
    BY <1>2
  <2>2. CASE j < i
    BY <1>1, <2>1, <2>2
  <2>3. CASE ~(j < i)
    BY <1>1, <2>1, <2>3
  <2> QED  BY <2>2, <2>3
<1>3. ASSUME NEW x, InSeq(x, q), x # q[i] PROVE InSeq(x, r)
  <2>1. PICK j \in 1 .. Len(q): q[j] = x
    BY <1>3
  <2>2. CASE j < i
    BY <1>1, <2>1, <2>2
  <2>3. CASE j > i
    <3>1. j - 1 \in 1 .. Len(r) /\ ~(j - 1 < i) /\ (j - 1) + 1 = j
      BY <1>1, <2>3
    <3> QED  BY <2>1, <3>1
  <2> QED  BY <1>1, <1>3, <2>1, <2>2, <2>3
<1>4. ASSUME Distinct(q) PROVE Distinct(r) /\ ~InSeq(q[i], r)
  BY <1>1, <1>4, SMTT(60) DEF Distinct
<1> QED  BY <1>2, <1>3, <1>4

LEMMA TakenAt ==
  ASSUME NEW S, NEW q \in Seq(S), NEW i \in 1 .. Len(q)
  PROVE  LET r == SubSeq(q, 1, i - 1) \o SubSeq(q, i + 1, Len(q))
         IN  /\ r \in Seq(S) /\ Len(r) = Len(q) - 1
             /\ \A j \in 1 .. Len(r): r[j] = IF j < i THEN q[j] ELSE q[j + 1]
<1>1. PICK k \in Nat: k = Len(q) /\ i \in 1 .. k /\ \A j \in 1 .. k: q[j] \in S
  OBVIOUS
<1> DEFINE a == SubSeq(q, 1, i - 1)
           b == SubSeq(q, i + 1, k)
<1>2. /\ a \in Seq(S) /\ Len(a) = i - 1
      /\ \A j \in 1 .. i - 1: a[j] = q[j]
  <2>1. i - 1 \in Int /\ 1 \in Int /\ \A j \in 1 .. i - 1: q[j] \in S
    BY <1>1
  <2>2. /\ a \in Seq(S) /\ Len(a) = IF 1 <= i - 1 THEN i - 1 - 1 + 1 ELSE 0
        /\ \A j \in 1 .. i - 1 - 1 + 1: a[j] = q[1 + j - 1]
    BY <2>1, SubSeqProperties
  <2> QED  BY <1>1, <2>2
<1>3. /\ b \in Seq(S) /\ Len(b) = k - i
      /\ \A j \in 1 .. k - i: b[j] = q[i + j]
  <2>1. i + 1 \in Int /\ k \in Int /\ \A j \in i + 1 .. k: q[j] \in S
    BY <1>1
  <2>2. /\ b \in Seq(S) /\ Len(b) = IF i + 1 <= k THEN k - (i + 1) + 1 ELSE 0
        /\ \A j \in 1 .. k - (i + 1) + 1: b[j] = q[i + 1 + j - 1]
    BY <2>1, SubSeqProperties
  <2> QED  BY <1>1, <2>2
<1> HIDE DEF a, b
<1> DEFINE r == a \o b
<1>4. /\ r \in Seq(S) /\ Len(r) = Len(a) + Len(b)
      /\ \A j \in 1 .. Len(a) + Len(b): r[j] = IF j <= Len(a) THEN a[j] ELSE b[j - Len(a)]
  BY <1>2, <1>3, ConcatProperties
<1> HIDE DEF r
<1>5. Len(r) = k - 1
  BY <1>1, <1>2, <1>3, <1>4
<1>6. ASSUME NEW j \in 1 .. k - 1
      PROVE  r[j] = IF j < i THEN q[j] ELSE q[j + 1]
  <2>1. CASE j < i
    <3>1. j \in 1 .. i - 1 /\ j <= Len(a) /\ j \in 1 .. Len(a) + Len(b)
      BY <1>1, <1>2, <1>3, <2>1
    <3>2. r[j] = a[j]
      BY <1>4, <3>1
    <3> QED  BY <1>2, <2>1, <3>1, <3>2
  <2>2. CASE ~(j < i)
    <3>1. j - Len(a) \in 1 .. k - i /\ ~(j <= Len(a)) /\ i + (j - Len(a)) = j + 1
      BY <1>1, <1>2, <2>2
    <3>2. j \in 1 .. Len(a) + Len(b)
      BY <1>1, <1>2, <1>3
    <3>3. r[j] = b[j - Len(a)]
      BY <1>4, <3>1, <3>2
    <3> QED  BY <1>3, <2>2, <3>1, <3>3
  <2> QED  BY <2>1, <2>2
<1> QED  BY <1>1, <1>4, <1>5, <1>6 DEF a, b, r

LEMMA TakenLast ==
  ASSUME NEW S, NEW q \in Seq(S), q # <<>>
  PROVE  LET r == SubSeq(q, 1, Len(q) - 1)
         IN  /\ Len(q) \in 1 .. Len(q)
             /\ r \in Seq(S) /\ Len(r) = Len(q) - 1
             /\ \A j \in 1 .. Len(r): r[j] = IF j < Len(q) THEN q[j] ELSE q[j + 1]
<1>1. PICK k \in Nat \ {0}: k = Len(q) /\ \A j \in 1 .. k: q[j] \in S
  OBVIOUS
<1> DEFINE r == SubSeq(q, 1, k - 1)
<1>2. k - 1 \in Int /\ 1 \in Int /\ \A j \in 1 .. k - 1: q[j] \in S
  BY <1>1
<1>3. /\ r \in Seq(S) /\ Len(r) = IF 1 <= k - 1 THEN k - 1 - 1 + 1 ELSE 0
      /\ \A j \in 1 .. k - 1 - 1 + 1: r[j] = q[1 + j - 1]
  BY <1>2, SubSeqProperties
<1> HIDE DEF r
<1>4. Len(r) = k - 1 /\ \A j \in 1 .. k - 1: r[j] = q[j]
  BY <1>1, <1>3
<1> QED  BY <1>1, <1>3, <1>4 DEF r

(* The first of some numbers (the scans of the graph and of wake-ups).     *)
LEMMA Least ==
  ASSUME NEW S, S \subseteq Nat, S # {}
  PROVE  \E n \in S: \A m \in S: n <= m
<1>1. \E R: IsWellFoundedOn(R, Nat) /\ \A x, y \in Nat: x < y => <<x, y>> \in R
  BY NatLessThanWellFounded DEF OpToRel
<1>2. ASSUME NEW R, IsWellFoundedOn(R, Nat), \A x, y \in Nat: x < y => <<x, y>> \in R
      PROVE  \E n \in S: \A m \in S: n <= m
  <2>1. \E x \in S: \A y \in S: ~(<<y, x>> \in R)
    BY <1>2, WFMin, ZenonT(300)
  <2>2. PICK n \in S: \A y \in S: ~(<<y, n>> \in R)
    BY <2>1
  <2>3. ASSUME NEW m \in S PROVE n <= m
    <3>1. m \in Nat /\ n \in Nat
      OBVIOUS
    <3>2. ~(m < n)
      BY <3>1, <2>2, <1>2
    <3> QED  BY <3>1, <3>2
  <2> QED  BY <2>3
<1> QED  BY <1>1, <1>2

LEMMA LeastChosen ==
  ASSUME NEW S, S \subseteq Nat, S # {}
  PROVE  (CHOOSE n \in S : \A m \in S: n <= m) \in S
BY Least

-----------------------------------------------------------------------------
(* Types.                                                                  *)

LEMMA Names ==
  /\ Nobody \notin Clients /\ Nobody \notin Slots /\ Nobody \notin Events
  /\ Clients \cap Slots = {} /\ Called \subseteq Blocks
  /\ \A c \in Clients: Graphs[c] \subseteq Blocks
  /\ Slots \subseteq Nat /\ Limit \in Nat /\ \A c \in Clients: Depths[c] \subseteq Nat
<1>1. /\ Nobody \notin Clients /\ Nobody \notin Slots /\ Nobody \notin Events
      /\ Clients \cap Slots = {} /\ \A c \in Clients: Depths[c] \subseteq Nat
  BY DataflowAssumption DEF Events, Callers
<1>2. Slots \subseteq Nat /\ Limit \in Nat
  BY DataflowAssumption, FS_CardinalityType
<1>3. Called \subseteq Blocks
  BY DEF Blocks
<1>4. ASSUME NEW c \in Clients PROVE Graphs[c] \subseteq Blocks
  BY Zenon DEF Blocks
<1> QED  BY <1>1, <1>2, <1>3, <1>4

LEMMA Graph ==
  ASSUME NEW g \in Blocks
  PROVE  /\ GraphOK(g) /\ Size(g) \in Nat \ {0} /\ Nodes(g) = 1 .. Size(g)
         /\ g.wake \in [Nodes(g) -> Seq(Nodes(g))]
BY DataflowAssumption DEF GraphOK, Nodes

LEMMA EdgeCount ==
  ASSUME NEW g \in Blocks
  PROVE  /\ g.blocks \in [Nodes(g) -> Nat]
         /\ \A n \in Nodes(g): /\ IsFiniteSet(InEdges(g, n)) /\ Cardinality(InEdges(g, n)) \in Nat
                               /\ g.blocks[n] = Cardinality(InEdges(g, n))
<1>1. IsFiniteSet(Edges(g))
  <2> DEFINE f == [k \in Nodes(g) |-> {k} \X DOMAIN g.wake[k]]
             T == {{k} \X DOMAIN g.wake[k] : k \in Nodes(g)}
  <2>1. f \in Surjection(Nodes(g), T)
    BY DEF Surjection
  <2>2. IsFiniteSet(Nodes(g))
    BY Graph, FS_Interval
  <2>3. IsFiniteSet(T)
    BY <2>1, <2>2, FS_Surjection
  <2>4. ASSUME NEW k \in Nodes(g) PROVE IsFiniteSet({k} \X DOMAIN g.wake[k])
    <3>1. IsFiniteSet(DOMAIN g.wake[k])
      <4>1. g.wake[k] \in Seq(Nodes(g))
        BY Graph
      <4>2. DOMAIN g.wake[k] = 1 .. Len(g.wake[k]) /\ Len(g.wake[k]) \in Nat
        BY <4>1
      <4> QED  BY <4>2, FS_Interval
    <3> QED  BY <3>1, FS_Singleton, FS_Product
  <2> QED  BY <2>3, <2>4, FS_UNION DEF Edges
<1>2. ASSUME NEW m \in Nodes(g) PROVE IsFiniteSet(InEdges(g, m)) /\ Cardinality(InEdges(g, m)) \in Nat
  <2>1. InEdges(g, m) \in SUBSET Edges(g)
    BY DEF InEdges
  <2> QED  BY <1>1, <2>1, FS_Subset, FS_CardinalityType
<1>3. g.blocks = [m \in Nodes(g) |-> Cardinality(InEdges(g, m))]
  BY Graph DEF GraphOK
<1> QED  BY <1>2, <1>3

LEMMA Hands ==
  ASSUME TypeOK, NEW s \in Slots
  PROVE  /\ workers[s] \in WorkerType
         /\ Fe[s] = workers[s].fe /\ Nx[s] = workers[s].fnxt
         /\ Fe[s] \in Events \cup {Nobody} /\ Nx[s] \in Events \cup {Nobody}
BY DEF TypeOK, Fe, Nx, WorkerType

LEMMA OwnedHands ==
  ASSUME TypeOK, Owned
  PROVE  /\ \A i \in 1 .. Len(todo): todo[i] \in Events /\ OfBlock(todo[i])
         /\ \A s \in Slots: /\ Fe[s] # Nobody => Fe[s] \in Events /\ OfBlock(Fe[s])
                            /\ Nx[s] # Nobody => Nx[s] \in Events /\ OfBlock(Nx[s])
<1>1. \A i \in 1 .. Len(todo): todo[i] \in Events
  BY DEF TypeOK
<1>2. \A i \in 1 .. Len(todo): Held(todo[i])
  BY DEF Held, InSeq
<1>3. \A s \in Slots: Held(Fe[s]) /\ Held(Nx[s])
  BY DEF Held
<1> QED  BY <1>1, <1>2, <1>3, Hands DEF Owned

LEMMA Live ==
  ASSUME TypeOK, NEW c \in Callers, flow[c].live
  PROVE  flow[c].g \in Blocks /\ flow[c] \in FlowType(flow[c].g) /\ flow[c] # NoFlow
BY DEF TypeOK, NoFlow

(* An event in the hands of a worker is one of a block in progress.        *)
LEMMA Carried ==
  ASSUME TypeOK, Control, Owned, NEW s \in Slots, Running(s)
  PROVE  LET e == workers[s].fe
         IN  /\ e \in Events /\ e[1] \in Callers /\ OfBlock(e) /\ Fe[s] = e /\ e # Nobody
             /\ e = <<e[1], e[2]>>
             /\ flow[e[1]].g \in Blocks /\ flow[e[1]] \in FlowType(flow[e[1]].g)
<1>1. Fe[s] # Nobody /\ Fe[s] = workers[s].fe /\ workers[s].fe \in Events
  BY Hands DEF Control, Calling, Holding
<1>2. OfBlock(workers[s].fe)
  BY <1>1, OwnedHands
<1> QED  BY <1>1, <1>2, Live DEF OfBlock, Events

LEMMA SetTyped ==
  ASSUME TypeOK, NEW s \in Slots, NEW w \in WorkerType, Set(s, w)
  PROVE  workers' \in [Slots -> WorkerType]
BY DEF TypeOK, Set

LEMMA StepTyped ==
  ASSUME TypeOK, NEW c \in Callers, NEW x \in StepType, step' = [step EXCEPT ![c] = x]
  PROVE  step' \in [Callers -> StepType]
BY DEF TypeOK

LEMMA FlowTyped ==
  ASSUME TypeOK, NEW c \in Callers, NEW g \in Blocks, NEW x \in FlowType(g),
         flow' = [flow EXCEPT ![c] = x]
  PROVE  /\ DOMAIN flow' = Callers
         /\ \A d \in Callers: flow'[d] # NoFlow => /\ flow'[d].g \in Blocks
                                                   /\ flow'[d] \in FlowType(flow'[d].g)
<1>1. x.g = g
  BY SMTT(30) DEF FlowType
<1> QED  BY <1>1 DEF TypeOK

(* What the scheduler finds that can run at once.                          *)
Ready(c) == {n \in Nodes(flow[c].g) : n > flow[c].at /\ flow[c].blocks[n] = 0}
FirstReady(c) == CHOOSE n \in Ready(c) : \A m \in Ready(c): n <= m

LEMMA FeedNext ==
  ASSUME TypeOK, Control, NEW c \in Callers, Feed(c)
  PROVE  /\ flow[c].live /\ flow[c].g \in Blocks /\ flow[c] \in FlowType(flow[c].g)
         /\ Ready(c) # {} =>
              /\ FirstReady(c) \in Ready(c) /\ FirstReady(c) \in Nodes(flow[c].g)
              /\ Enqueue(<<c, FirstReady(c)>>)
              /\ flow' = [flow EXCEPT ![c] =
                            [@ EXCEPT !.state[FirstReady(c)] = "running", !.at = FirstReady(c)]]
              /\ UNCHANGED <<workers, step>>
         /\ Ready(c) = {} =>
              /\ workers' = [workers EXCEPT ![step[c].w].s = @ + 1]
              /\ Goto(c, "wait") /\ UNCHANGED <<queue, flow>>
         /\ UNCHANGED <<pool, bounds>>
<1>1. flow[c].live /\ flow[c].g \in Blocks /\ flow[c] \in FlowType(flow[c].g)
  BY Live, ZenonT(30) DEF Feed, Control, Calling, Holding, InBlock
<1>2. Ready(c) \subseteq Nat /\ Ready(c) \subseteq Nodes(flow[c].g)
  BY <1>1, Graph DEF Ready
<1>3. Ready(c) # {} => FirstReady(c) \in Ready(c)
  BY <1>2, LeastChosen DEF FirstReady
<1> QED  BY <1>1, <1>2, <1>3, ZenonT(60) DEF Feed, Ready, FirstReady

LEMMA OpenCount ==
  ASSUME TypeOK, NEW c \in Callers, flow[c].live, NEW n \in Nodes(flow[c].g)
  PROVE  IsFiniteSet(Open(c, n)) /\ Cardinality(Open(c, n)) \in Nat
<1>1. Open(c, n) \in SUBSET InEdges(flow[c].g, n)
  BY DEF Open
<1> QED  BY <1>1, Live, EdgeCount, FS_Subset, FS_CardinalityType

LEMMA EdgeIn ==
  ASSUME NEW g \in Blocks, NEW k \in Nodes(g), NEW j \in 1 .. Len(g.wake[k])
  PROVE  g.wake[k][j] \in Nodes(g) /\ <<k, j>> \in InEdges(g, g.wake[k][j])
<1>1. g.wake[k] \in Seq(Nodes(g))
  BY Graph
<1>2. DOMAIN g.wake[k] = 1 .. Len(g.wake[k]) /\ g.wake[k][j] \in Nodes(g)
  BY <1>1
<1>3. <<k, j>> \in Edges(g)
  BY <1>2 DEF Edges
<1> QED  BY <1>2, <1>3 DEF InEdges

(* The wake-up that the scheduler is about to give is one that is open.    *)
Woken(c) == flow[c].g.wake[flow[c].f][flow[c].at + 1]

LEMMA WakeUp ==
  ASSUME TypeOK, Control, Order, NEW c \in Callers, step[c].at = "dispatch",
         flow[c].at < Len(flow[c].g.wake[flow[c].f])
  PROVE  /\ flow[c].live /\ flow[c].g \in Blocks /\ flow[c] \in FlowType(flow[c].g)
         /\ flow[c].f \in Nodes(flow[c].g)
         /\ flow[c].at \in Nat /\ flow[c].at + 1 \in 1 .. Len(flow[c].g.wake[flow[c].f])
         /\ Woken(c) \in Nodes(flow[c].g) /\ Woken(c) \in Nat
         /\ <<flow[c].f, flow[c].at + 1>> \in Open(c, Woken(c))
         /\ flow[c].state[Woken(c)] = "pending" => flow[c].blocks[Woken(c)] >= 1
<1> DEFINE fl == flow[c]
           i == Woken(c)
<1>1. fl.live /\ fl.g \in Blocks /\ fl \in FlowType(fl.g) /\ fl.f \in Nodes(fl.g)
  BY Live, ZenonT(30) DEF Control, Calling, Holding, InBlock
<1>2. fl.g.wake[fl.f] \in Seq(Nodes(fl.g)) /\ fl.at \in Nat
  BY <1>1, Graph DEF FlowType
<1>3. fl.at + 1 \in 1 .. Len(fl.g.wake[fl.f]) /\ fl.at + 1 > fl.at
  BY <1>2, SMTT(60)
<1>4. i \in Nodes(fl.g) /\ <<fl.f, fl.at + 1>> \in InEdges(fl.g, i)
  BY <1>1, <1>3, EdgeIn DEF Woken
<1>5. <<fl.f, fl.at + 1>> \in Open(c, i)
  BY <1>3, <1>4 DEF Open
<1>6. ASSUME fl.state[i] = "pending" PROVE fl.blocks[i] >= 1
  <2>1. fl.blocks[i] = Cardinality(Open(c, i))
    BY <1>1, <1>4, <1>6 DEF Order, BlockOrder
  <2>2. IsFiniteSet(Open(c, i)) /\ Cardinality(Open(c, i)) \in Nat
    BY <1>1, <1>4, OpenCount
  <2>3. Cardinality(Open(c, i)) # 0
    BY <1>5, <2>2, FS_EmptySet
  <2> HIDE DEF fl
  <2> QED  BY <2>1, <2>2, <2>3
<1>7. i \in Nat
  BY <1>1, <1>4, Graph
<1> QED  BY <1>1, <1>2, <1>3, <1>4, <1>5, <1>6, <1>7

LEMMA FlowUpdate ==
  ASSUME NEW g, NEW x \in FlowType(g)
  PROVE  /\ [x EXCEPT !.at = @ + 1] \in FlowType(g)
         /\ \A n \in Nodes(g), b \in Nat: [x EXCEPT !.blocks[n] = b] \in FlowType(g)
         /\ \A n \in Nodes(g), st \in {"running", "wrapup"}: [x EXCEPT !.state[n] = st] \in FlowType(g)
<1>1. [x EXCEPT !.at = @ + 1] \in FlowType(g)
  <2>1. \A a \in Nat: [x EXCEPT !.at = a] \in FlowType(g)
    BY DEF FlowType
  <2>2. x.at + 1 \in Nat
    <3>1. x.at \in Nat
      BY DEF FlowType
    <3> QED  BY <3>1
  <2> QED  BY <2>1, <2>2
<1>2. ASSUME NEW n \in Nodes(g), NEW b \in Nat PROVE [x EXCEPT !.blocks[n] = b] \in FlowType(g)
  BY DEF FlowType
<1>3. ASSUME NEW n \in Nodes(g), NEW st \in {"running", "wrapup"}
      PROVE  [x EXCEPT !.state[n] = st] \in FlowType(g)
  BY DEF FlowType
<1> QED  BY <1>1, <1>2, <1>3

(* What runMALsequence leaves: the instruction is executed, and perhaps    *)
(* the next one picked.                                                    *)
Picks(c, n, err) == ~err /\ Eligible(flow[c], n) # {}
Picked1(c, n) == Next1(flow[c], n)

LEMMA Candidate ==
  ASSUME TypeOK, NEW c \in Callers, flow[c].live, NEW n \in Nodes(flow[c].g), Eligible(flow[c], n) # {}
  PROVE  /\ Picked1(c, n) \in Nodes(flow[c].g) /\ Picked1(c, n) \in Nat
         /\ flow[c].state[Picked1(c, n)] = "pending" /\ flow[c].blocks[Picked1(c, n)] = 1
         /\ \E j \in 1 .. Len(flow[c].g.wake[n]): flow[c].g.wake[n][j] = Picked1(c, n)
<1> DEFINE fl == flow[c]
           E == Eligible(fl, n)
           j == CHOOSE k \in E : \A m \in E: k <= m
<1>1. fl.g \in Blocks /\ fl.g.wake[n] \in Seq(Nodes(fl.g))
  BY Live, Graph
<1>2. E \subseteq 1 .. Len(fl.g.wake[n]) /\ E \subseteq Nat /\ Nodes(fl.g) \subseteq Nat
  <2>1. E \subseteq DOMAIN fl.g.wake[n]
    BY ZenonT(60) DEF Eligible
  <2>2. DOMAIN fl.g.wake[n] = 1 .. Len(fl.g.wake[n]) /\ Len(fl.g.wake[n]) \in Nat
    BY <1>1
  <2>3. Nodes(fl.g) = 1 .. Size(fl.g) /\ Size(fl.g) \in Nat
    BY <1>1, Graph
  <2> QED  BY <2>1, <2>2, <2>3
<1>3. j \in E
  BY <1>2, LeastChosen
<1>4. Picked1(c, n) = fl.g.wake[n][j]
  BY DEF Picked1, Next1
<1> HIDE DEF j
<1>5. fl.state[fl.g.wake[n][j]] = "pending" /\ fl.blocks[fl.g.wake[n][j]] = 1
  BY <1>3, ZenonT(60) DEF Eligible
<1> HIDE DEF E
<1>6. j \in 1 .. Len(fl.g.wake[n])
  BY <1>2, <1>3, ZenonT(60)
<1>7. fl.g.wake[n][j] \in Nodes(fl.g)
  BY <1>1, <1>6
<1>8. fl.g.wake[n][j] \in Nat
  BY <1>2, <1>7, ZenonT(60)
<1> HIDE DEF fl
<1>9. /\ Picked1(c, n) \in Nodes(fl.g) /\ Picked1(c, n) \in Nat
      /\ fl.state[Picked1(c, n)] = "pending" /\ fl.blocks[Picked1(c, n)] = 1
      /\ \E k \in 1 .. Len(fl.g.wake[n]): fl.g.wake[n][k] = Picked1(c, n)
  BY <1>4, <1>5, <1>6, <1>7, <1>8
<1> QED  BY <1>9 DEF fl

RanFlow(c, n, err) ==
    [flow[c] EXCEPT
        !.error = @ \/ err,
        !.state = [m \in DOMAIN @ |-> CASE m = n -> "wrapup"
                                        [] Picks(c, n, err) /\ m = Picked1(c, n) -> "running"
                                        [] OTHER -> @[m]],
        !.blocks = [m \in DOMAIN @ |-> IF Picks(c, n, err) /\ m = Picked1(c, n) THEN 0 ELSE @[m]]]
NextOf(c, n, err) == IF Picks(c, n, err) THEN <<c, Picked1(c, n)>> ELSE Nobody

RanRecord(c, n, err, y) ==
    /\ y \in FlowType(flow[c].g)
    /\ y.live = flow[c].live /\ y.g = flow[c].g /\ y.cntxt = flow[c].cntxt /\ y.done = flow[c].done
    /\ y.tasks = flow[c].tasks /\ y.f = flow[c].f /\ y.at = flow[c].at
    /\ y.error = (flow[c].error \/ err)
    /\ \A m \in Nodes(flow[c].g):
         /\ y.state[m] = CASE m = n -> "wrapup"
                           [] Picks(c, n, err) /\ m = Picked1(c, n) -> "running"
                           [] OTHER -> flow[c].state[m]
         /\ y.blocks[m] = IF Picks(c, n, err) /\ m = Picked1(c, n) THEN 0 ELSE flow[c].blocks[m]

LEMMA RanTyped ==
  ASSUME NEW c \in Callers, NEW n, NEW err \in BOOLEAN, flow[c] \in FlowType(flow[c].g)
  PROVE  RanRecord(c, n, err, RanFlow(c, n, err))
<1> DEFINE g == flow[c].g
           p(m) == Picks(c, n, err) /\ m = Picked1(c, n)
           er == flow[c].error \/ err
           st == [m \in Nodes(g) |-> CASE m = n -> "wrapup"
                                       [] p(m) -> "running"
                                       [] OTHER -> flow[c].state[m]]
           bl == [m \in Nodes(g) |-> IF p(m) THEN 0 ELSE flow[c].blocks[m]]
<1>1. /\ flow[c].state \in [Nodes(g) -> {"pending", "running", "wrapup"}]
      /\ flow[c].blocks \in [Nodes(g) -> Nat] /\ flow[c].error \in BOOLEAN
  BY DEF FlowType
<1>2. RanFlow(c, n, err) = [flow[c] EXCEPT !.error = er, !.state = st, !.blocks = bl]
  BY <1>1 DEF RanFlow
<1>3. er \in BOOLEAN
  OBVIOUS
<1>4. bl \in [Nodes(g) -> Nat]
  BY <1>1
<1>5. st \in [Nodes(g) -> {"pending", "running", "wrapup"}]
  <2>1. ASSUME NEW m \in Nodes(g) PROVE st[m] \in {"pending", "running", "wrapup"}
    <3>1. st[m] = CASE m = n -> "wrapup" [] p(m) -> "running" [] OTHER -> flow[c].state[m]
      OBVIOUS
    <3>2. flow[c].state[m] \in {"pending", "running", "wrapup"}
      BY <1>1
    <3> HIDE DEF p, st
    <3> QED  BY <3>1, <3>2
  <2> QED  BY <2>1
<1>6. \A m \in Nodes(g): /\ st[m] = CASE m = n -> "wrapup" [] p(m) -> "running"
                                      [] OTHER -> flow[c].state[m]
                         /\ bl[m] = IF p(m) THEN 0 ELSE flow[c].blocks[m]
  OBVIOUS
<1> DEFINE y == RanFlow(c, n, err)
<1> HIDE DEF er, st, bl, y
<1>7. /\ y.error = er /\ y.state = st /\ y.blocks = bl /\ y \in FlowType(g)
      /\ y.live = flow[c].live /\ y.g = flow[c].g /\ y.cntxt = flow[c].cntxt /\ y.done = flow[c].done
      /\ y.tasks = flow[c].tasks /\ y.f = flow[c].f /\ y.at = flow[c].at
  BY <1>2, <1>3, <1>4, <1>5, ZenonT(60) DEF FlowType, y
<1>8. RanRecord(c, n, err, y)
  BY <1>6, <1>7 DEF er, p, RanRecord, g
<1> QED  BY <1>8 DEF y


LEMMA RanNext ==
  ASSUME TypeOK, Control, Owned, NEW s \in Slots, NEW err \in BOOLEAN, Ran(s, err)
  PROVE  LET c == Fe[s][1]
             n == Fe[s][2]
         IN  /\ Fe[s] = <<c, n>> /\ Fe[s] # Nobody /\ Executing(s) /\ ~Locked(c)
             /\ c \in Callers /\ flow[c].live /\ n \in Nodes(flow[c].g)
             /\ flow[c].g \in Blocks /\ flow[c] \in FlowType(flow[c].g)
             /\ Set(s, [workers[s] EXCEPT !.pc = "report", !.fnxt = NextOf(c, n, err)])
             /\ NextOf(c, n, err) \in Events \cup {Nobody}
             /\ flow' = [flow EXCEPT ![c] = RanFlow(c, n, err)]
             /\ step' = [step EXCEPT ![s] = Outside]
             /\ UNCHANGED <<queue, pool, bounds>>
<1> DEFINE c == Fe[s][1]
           n == Fe[s][2]
<1>1. Executing(s) /\ Running(s)
  BY Zenon DEF Ran, Executing, Running, At
<1>2. /\ Fe[s] = <<c, n>> /\ Fe[s] # Nobody /\ Fe[s] = workers[s].fe
      /\ c \in Callers /\ flow[c].live /\ n \in Nodes(flow[c].g)
      /\ flow[c].g \in Blocks /\ flow[c] \in FlowType(flow[c].g)
  BY <1>1, Carried DEF OfBlock
<1>3. /\ ~Locked(c)
      /\ Set(s, [workers[s] EXCEPT !.pc = "report", !.fnxt = NextOf(c, n, err)])
      /\ flow' = [flow EXCEPT ![c] = RanFlow(c, n, err)]
      /\ step' = [step EXCEPT ![s] = Outside]
      /\ UNCHANGED <<queue, pool, bounds>>
  <2>1. /\ ~Locked(c) /\ step' = [step EXCEPT ![s] = Outside]
        /\ UNCHANGED <<queue, pool, bounds>>
    BY <1>2, Zenon DEF Ran
  <2>2. Set(s, [workers[s] EXCEPT !.pc = "report", !.fnxt = NextOf(c, n, err)])
    BY <1>2, Zenon DEF Ran, NextOf, Picks, Picked1
  <2>3. flow' = [flow EXCEPT ![c] = RanFlow(c, n, err)]
    <3> DEFINE e == workers[s].fe
    <3>1. flow' = [flow EXCEPT ![e[1]] = RanFlow(e[1], e[2], err)]
      BY Zenon DEF Ran, RanFlow, Picks, Picked1
    <3>2. c = e[1] /\ n = e[2]
      BY <1>2
    <3> HIDE DEF c, n, e
    <3> QED  BY <3>1, <3>2
  <2> QED  BY <2>1, <2>2, <2>3
<1>4. NextOf(c, n, err) \in Events \cup {Nobody}
  BY <1>2, Candidate, ZenonT(60) DEF NextOf, Picks, Events
<1> QED  BY <1>1, <1>2, <1>3, <1>4, ZenonT(30)

LEMMA TypeNext == IInv /\ [Next]_vars => TypeOK'
<1> SUFFICES ASSUME IInv, [Next]_vars PROVE TypeOK'
  BY ZenonT(30)
<1> USE DEF pool, queue, bounds
<1>0. TypeOK /\ Fresh /\ Control /\ Owned /\ Order
  BY DEF IInv
<1>1. ASSUME NEW c \in Clients, NEW d \in Depths[c], Enter(c, d) PROVE TypeOK'
  <2>1. NewThread(NoThread, Nobody) \in WorkerType /\ NoThread \in WorkerType
    BY DEF NewThread, NoThread, WorkerType, ClientOrNull
  <2>2. workers' \in [Slots -> WorkerType]
    BY <1>0, <1>1, <2>1 DEF Enter, Pool, TypeOK
  <2>3. c \in Callers /\ [Outside EXCEPT !.at = "create", !.depth = d] \in StepType
    BY Names DEF Outside, StepType, Callers
  <2> QED  BY <1>0, <1>1, <2>2, <2>3, StepTyped DEF Enter, TypeOK
<1>2. ASSUME NEW c \in Callers, NEW s \in Slots, JoinBegin(c, s) PROVE TypeOK'
  <2>1. [workers[s] EXCEPT !.flag = "JOINING", !.cntxt = Nobody] \in WorkerType
    BY <1>0, Hands, ZenonT(60) DEF WorkerType, ClientOrNull
  <2>2. [step[c] EXCEPT !.at = "join", !.w = s] \in StepType
    BY <1>0, ZenonT(60) DEF TypeOK, StepType
  <2> QED  BY <1>0, <1>2, <2>1, <2>2, SetTyped, StepTyped DEF JoinBegin, TypeOK
<1>3. ASSUME NEW c \in Callers, JoinEnd(c) PROVE TypeOK'
  <2>1. step[c].w \in Slots
    BY <1>0, <1>3, ZenonT(30) DEF JoinEnd, Control, Calling, Holding
  <2>2. [workers[step[c].w] EXCEPT !.flag = "IDLE"] \in WorkerType
    BY <1>0, <2>1, Hands DEF WorkerType
  <2>3. [step[c] EXCEPT !.at = "create"] \in StepType
    BY <1>0, ZenonT(60) DEF TypeOK, StepType
  <2> QED  BY <1>0, <1>3, <2>1, <2>2, <2>3, SetTyped, StepTyped DEF JoinEnd, Goto, TypeOK
<1>c. ASSUME NEW c \in Callers, step[c].at = "create" PROVE Specificity(c) \in ClientOrNull
  <2>1. CASE c \in Slots
    <3>1. step[c].depth = 2
      BY <1>0, <1>c, <2>1 DEF Control, Calling, Holding
    <3>2. Specificity(c) = workers[c].cntxt
      BY <2>1, <3>1 DEF Specificity
    <3> QED  BY <1>0, <2>1, <3>2, Hands DEF WorkerType
  <2>2. CASE c \notin Slots
    BY <2>2 DEF Specificity, ClientOrNull, Callers
  <2> QED  BY <2>1, <2>2
<1>4. ASSUME NEW c \in Callers, NEW i \in Slots, CreateWorker(c, i) PROVE TypeOK'
  <2>1. NewThread(workers[i], Specificity(c)) \in WorkerType
    BY <1>0, <1>4, <1>c, Hands, ZenonT(60) DEF CreateWorker, NewThread, WorkerType
  <2>2. [step[c] EXCEPT !.at = "init", !.w = i] \in StepType
    BY <1>0, ZenonT(60) DEF TypeOK, StepType
  <2> QED  BY <1>0, <1>4, <2>1, <2>2, SetTyped, StepTyped DEF CreateWorker, TypeOK
<1>5. ASSUME NEW c \in Callers, RunSerially(c) PROVE TypeOK'
  <2>1. workers' \in [Slots -> WorkerType]
    <3>1. CASE UNCHANGED workers
      BY <1>0, <3>1 DEF TypeOK
    <3>2. ASSUME NEW i \in Free, Set(i, [workers[i] EXCEPT !.cntxt = Specificity(c)])
          PROVE  workers' \in [Slots -> WorkerType]
      <4>1. i \in Slots
        BY DEF Free
      <4>2. [workers[i] EXCEPT !.cntxt = Specificity(c)] \in WorkerType
        BY <1>0, <1>5, <1>c, <4>1, Hands DEF RunSerially, WorkerType
      <4> QED  BY <1>0, <3>2, <4>1, <4>2, SetTyped
    <3> QED  BY <1>5, <3>1, <3>2 DEF RunSerially
  <2>2. [step[c] EXCEPT !.at = "out"] \in StepType
    BY <1>0, ZenonT(60) DEF TypeOK, StepType
  <2> QED  BY <1>0, <1>5, <2>1, <2>2, StepTyped DEF RunSerially, Goto, TypeOK
<1>6. ASSUME NEW c \in Callers, InitBlk(c) PROVE TypeOK'
  <2>0. UNCHANGED <<workers, queue, pool, bounds>>
    BY <1>6 DEF InitBlk
  <2>1. ASSUME NEW g \in IF c \in Clients THEN Graphs[c] ELSE Called,
               flow' = [flow EXCEPT ![c] = NewFlow(g, ClientOf(c))], Goto(c, "feed")
        PROVE  TypeOK'
    <3>1. ClientOf(c) \in Clients
      <4>1. CASE c \in Slots
        <5>1. c \notin Clients
          BY <4>1, Names
        <5>2. Running(c)
          BY <1>0, <1>6, <4>1 DEF InitBlk, Control, Calling, Holding, Running
        <5>3. flow[workers[c].fe[1]] \in FlowType(flow[workers[c].fe[1]].g)
          BY <1>0, <4>1, <5>2, Carried
        <5> QED  BY <5>1, <5>3 DEF ClientOf, Of, FlowType
      <4> QED  BY <4>1 DEF ClientOf, Callers
    <3>2. g \in Blocks
      BY <2>1, Names DEF Callers
    <3>3. g.blocks \in [Nodes(g) -> Nat] /\ Size(g) \in Nat /\ <<>> \in Seq(Nodes(g))
      BY <3>2, EdgeCount, Graph
    <3>4. NewFlow(g, ClientOf(c)) \in FlowType(g)
      BY <3>1, <3>3 DEF NewFlow, FlowType
    <3>5. [step[c] EXCEPT !.at = "feed"] \in StepType
      BY <1>0, ZenonT(60) DEF TypeOK, StepType
    <3>6. step' \in [Callers -> StepType]
      BY <1>0, <2>1, <3>5, StepTyped DEF Goto
    <3> QED  BY <1>0, <2>0, <2>1, <3>2, <3>4, <3>6, FlowTyped DEF TypeOK
  <2>2. ASSUME step' = [step EXCEPT ![c] = [@ EXCEPT !.at = "pill", !.failed = TRUE]], UNCHANGED flow
        PROVE  TypeOK'
    <3>1. [step[c] EXCEPT !.at = "pill", !.failed = TRUE] \in StepType
      BY <1>0, ZenonT(60) DEF TypeOK, StepType
    <3> QED  BY <1>0, <2>0, <2>2, <3>1, StepTyped DEF TypeOK
  <2> QED  BY <1>6, <2>1, <2>2 DEF InitBlk
<1>7. ASSUME NEW c \in Callers, Feed(c) PROVE TypeOK'
  <2> DEFINE i == FirstReady(c)
             g == flow[c].g
  <2>0. g \in Blocks /\ flow[c] \in FlowType(g) /\ UNCHANGED <<pool, bounds>>
    BY <1>0, <1>7, FeedNext
  <2>1. CASE Ready(c) # {}
    <3>1. /\ i \in Nodes(g) /\ Enqueue(<<c, i>>) /\ UNCHANGED <<workers, step>>
          /\ flow' = [flow EXCEPT ![c] = [@ EXCEPT !.state[i] = "running", !.at = i]]
      BY <1>0, <1>7, <2>1, FeedNext
    <3>2. i \in Nat
      BY <2>0, <3>1, Graph
    <3>3. [flow[c] EXCEPT !.state[i] = "running", !.at = i] \in FlowType(g)
      BY <2>0, <3>1, <3>2 DEF FlowType
    <3>4. <<c, i>> \in Events /\ todo' \in Seq(Events) /\ sema' \in Nat /\ exitcount' \in Nat
      BY <1>0, <3>1, <3>2, Appended DEF Enqueue, TypeOK, Events
    <3> QED  BY <1>0, <2>0, <3>1, <3>3, <3>4, FlowTyped DEF TypeOK
  <2>2. CASE Ready(c) = {}
    <3>1. /\ workers' = [workers EXCEPT ![step[c].w].s = @ + 1]
          /\ Goto(c, "wait") /\ UNCHANGED <<queue, flow>>
      BY <1>0, <1>7, <2>2, FeedNext, ZenonT(30)
    <3>2. workers' \in [Slots -> WorkerType]
      <4>1. step[c].w \in Slots
        BY <1>0, <1>7, ZenonT(30) DEF Feed, Control, Calling, Holding
      <4>2. [workers[step[c].w] EXCEPT !.s = @ + 1] \in WorkerType
        BY <1>0, <4>1, Hands DEF WorkerType
      <4> QED  BY <1>0, <3>1, <4>1, <4>2, SetTyped DEF Set
    <3>3. [step[c] EXCEPT !.at = "wait"] \in StepType
      BY <1>0, ZenonT(60) DEF TypeOK, StepType
    <3>4. step' \in [Callers -> StepType]
      BY <1>0, <3>1, <3>3, StepTyped DEF Goto
    <3> QED  BY <1>0, <2>0, <3>1, <3>2, <3>4 DEF TypeOK
  <2> QED  BY <2>1, <2>2
<1>8. ASSUME NEW c \in Callers, TakeDone(c) PROVE TypeOK'
  <2> DEFINE g == flow[c].g
             fl == flow[c]
             x == [fl EXCEPT !.done = SubSeq(@, 1, Len(@) - 1), !.tasks = @ + 1,
                             !.f = fl.done[Len(fl.done)], !.at = 0]
  <2>1. g \in Blocks /\ fl \in FlowType(g) /\ Size(g) \in Nat /\ Nodes(g) = 1 .. Size(g)
    BY <1>0, <1>8, Live, Graph, ZenonT(30) DEF TakeDone, Control, Calling, Holding, InBlock
  <2>2. fl.done \in Seq(Nodes(g)) /\ fl.done # <<>>
    BY <1>8, <2>1 DEF TakeDone, FlowType
  <2>3. SubSeq(fl.done, 1, Len(fl.done) - 1) \in Seq(Nodes(g)) /\ fl.done[Len(fl.done)] \in Nodes(g)
    BY <2>2, TakenLast
  <2>4. fl.tasks + 1 \in 0 .. Size(g)
    <3>1. fl.tasks \in 0 .. Size(g)
      BY <2>1 DEF FlowType
    <3>2. fl.tasks # Size(g)
      BY <1>8 DEF TakeDone, Complete
    <3> QED  BY <2>1, <3>1, <3>2
  <2>5. x \in FlowType(g)
    <3>1. \A d \in Seq(Nodes(g)), k \in 0 .. Size(g), n \in 0 .. Size(g):
             [fl EXCEPT !.done = d, !.tasks = k, !.f = n, !.at = 0] \in FlowType(g)
      BY <2>1 DEF FlowType
    <3>2. fl.done[Len(fl.done)] \in 0 .. Size(g)
      BY <2>1, <2>3
    <3> QED  BY <2>3, <2>4, <3>1, <3>2
  <2>6. [step[c] EXCEPT !.at = "dispatch"] \in StepType
    BY <1>0, ZenonT(60) DEF TypeOK, StepType
  <2>7. step' \in [Callers -> StepType]
    BY <1>0, <1>8, <2>6, StepTyped DEF TakeDone, Goto
  <2>8. flow' = [flow EXCEPT ![c] = x] /\ UNCHANGED <<workers, queue, pool, bounds>>
    BY <1>8 DEF TakeDone
  <2> HIDE DEF x
  <2> QED  BY <1>0, <2>1, <2>5, <2>7, <2>8, FlowTyped DEF TypeOK
<1>9. ASSUME NEW c \in Callers, Dispatch(c) PROVE TypeOK'
  <2> DEFINE fl == flow[c]
             g == fl.g
             i == Woken(c)
  <2>1. /\ g \in Blocks /\ fl \in FlowType(g) /\ i \in Nodes(g) /\ i \in Nat
        /\ fl.at \in Nat
        /\ fl.state[i] = "pending" => fl.blocks[i] >= 1
    BY <1>0, <1>9, WakeUp, Zenon DEF Dispatch
  <2>2. UNCHANGED <<workers, step, pool, bounds>>
    BY <1>9, Zenon DEF Dispatch
  <2>3. CASE fl.state[i] = "pending" /\ fl.blocks[i] = 1
    <3>1. /\ Enqueue(<<c, i>>)
          /\ flow' = [flow EXCEPT ![c] = [fl EXCEPT !.state[i] = "running", !.blocks[i] = 0, !.at = @ + 1]]
      BY <1>9, <2>3, Zenon DEF Dispatch, Woken
    <3>2. [fl EXCEPT !.state[i] = "running", !.blocks[i] = 0, !.at = @ + 1] \in FlowType(g)
      <4> DEFINE y == [fl EXCEPT !.state[i] = "running"]
                 z == [y EXCEPT !.blocks[i] = 0]
      <4>1. y \in FlowType(g)
        BY <2>1, FlowUpdate
      <4>2. z \in FlowType(g)
        <5> HIDE DEF y
        <5> QED  BY <2>1, <4>1, FlowUpdate
      <4>3. [z EXCEPT !.at = @ + 1] \in FlowType(g)
        <5> HIDE DEF z
        <5> QED  BY <4>2, FlowUpdate
      <4> QED  BY <4>3
    <3>3. todo' \in Seq(Events) /\ sema' \in Nat /\ exitcount' \in Nat
      BY <1>0, <2>1, <3>1, Appended DEF Enqueue, TypeOK, Events
    <3> QED  BY <1>0, <2>1, <2>2, <3>1, <3>2, <3>3, FlowTyped, Z3T(30) DEF TypeOK
  <2>4. CASE ~(fl.state[i] = "pending" /\ fl.blocks[i] = 1)
    <3> DEFINE b == IF fl.state[i] = "pending" THEN fl.blocks[i] - 1 ELSE fl.blocks[i]
    <3>1. /\ UNCHANGED queue
          /\ flow' = [flow EXCEPT ![c] = [fl EXCEPT !.blocks[i] = b, !.at = @ + 1]]
      BY <1>9, <2>4, Zenon DEF Dispatch, Woken
    <3>2. b \in Nat
      <4>1. fl.blocks[i] \in Nat
        BY <2>1 DEF FlowType
      <4> QED  BY <2>1, <4>1
    <3> HIDE DEF b
    <3>3. [fl EXCEPT !.blocks[i] = b, !.at = @ + 1] \in FlowType(g)
      <4>1. [fl EXCEPT !.blocks[i] = b] \in FlowType(g)
        BY <2>1, <3>2, FlowUpdate
      <4> QED  BY <4>1, FlowUpdate
    <3> QED  BY <1>0, <2>1, <2>2, <3>1, <3>3, FlowTyped DEF TypeOK
  <2> QED  BY <2>3, <2>4
<1>10. ASSUME NEW c \in Callers, Dispatched(c) PROVE TypeOK'
  <2>1. [step[c] EXCEPT !.at = "wait"] \in StepType
    BY <1>0, ZenonT(60) DEF TypeOK, StepType
  <2> QED  BY <1>0, <1>10, <2>1, StepTyped DEF Dispatched, Goto, TypeOK
<1>11. ASSUME NEW c \in Callers, Finish(c) PROVE TypeOK'
  <2>1. step[c].w \in Slots /\ flow[c] \in FlowType(flow[c].g)
    BY <1>0, <1>11, Live, ZenonT(30) DEF Finish, Control, Calling, Holding, InBlock
  <2>2. Release(workers[step[c].w]) \in WorkerType
    BY <1>0, <2>1, Hands DEF Release, WorkerType, ClientOrNull
  <2>3. [step[c] EXCEPT !.at = "pill", !.failed = flow[c].error] \in StepType
    <3>1. flow[c].error \in BOOLEAN
      BY <2>1 DEF FlowType
    <3>2. \A b \in BOOLEAN: [step[c] EXCEPT !.at = "pill", !.failed = b] \in StepType
      BY <1>0, ZenonT(60) DEF TypeOK, StepType
    <3> QED  BY <3>1, <3>2
  <2>4. workers' \in [Slots -> WorkerType] /\ step' \in [Callers -> StepType]
    BY <1>0, <1>11, <2>1, <2>2, <2>3, SetTyped, StepTyped DEF Finish, Set
  <2>5. flow' = [flow EXCEPT ![c] = NoFlow] /\ UNCHANGED <<queue, pool, bounds>>
    BY <1>11, ZenonT(30) DEF Finish
  <2> QED  BY <1>0, <2>4, <2>5 DEF TypeOK
<1>12. ASSUME NEW c \in Callers, Pill(c) PROVE TypeOK'
  <2>1. [Outside EXCEPT !.failed = c \in Slots /\ step[c].failed] \in StepType
    BY <1>0 DEF TypeOK, StepType, Outside
  <2> QED  BY <1>0, <1>12, <2>1, StepTyped DEF Pill, Told, TypeOK
<1>13. ASSUME NEW s \in Slots, Start(s) PROVE TypeOK'
  <2>1. \A pc \in {"gate", "loop"}: [workers[s] EXCEPT !.pc = pc] \in WorkerType
    BY <1>0, Hands DEF WorkerType
  <2>2. PICK pc \in {"gate", "loop"}: Set(s, [workers[s] EXCEPT !.pc = pc])
    BY <1>13 DEF Start
  <2> QED  BY <1>0, <1>13, <2>1, <2>2, SetTyped DEF Start, TypeOK
<1>14. ASSUME NEW s \in Slots, Gate(s) PROVE TypeOK'
  <2>1. [workers[s] EXCEPT !.pc = "loop", !.s = @ - 1] \in WorkerType
    <3>1. workers[s].s \in Nat /\ workers[s].s > 0
      BY <1>0, <1>14, Hands DEF Gate, WorkerType
    <3>2. \A n \in Nat: [workers[s] EXCEPT !.pc = "loop", !.s = n] \in WorkerType
      BY <1>0, Hands, ZenonT(60) DEF WorkerType
    <3>3. workers[s].s - 1 \in Nat
      BY <3>1
    <3> QED  BY <3>2, <3>3
  <2> QED  BY <1>0, <1>14, <2>1, SetTyped DEF Gate, TypeOK
<1>15. ASSUME NEW s \in Slots, Look(s) PROVE TypeOK'
  <2>1. [workers[s] EXCEPT !.pc = "down", !.seen = workers[s].cntxt] \in WorkerType
    BY <1>0, Hands, ZenonT(60) DEF WorkerType
  <2> QED  BY <1>0, <1>15, <2>1, SetTyped DEF Look, TypeOK
<1>16. ASSUME NEW s \in Slots, Down(s) PROVE TypeOK'
  <2>1. \A pc \in {"loop", "exit", "pop"}: [workers[s] EXCEPT !.pc = pc] \in WorkerType
    BY <1>0, Hands DEF WorkerType
  <2>2. PICK pc \in {"loop", "exit", "pop"}: Set(s, [workers[s] EXCEPT !.pc = pc])
    BY <1>16 DEF Down, LookAgain
  <2>3. workers' \in [Slots -> WorkerType]
    BY <1>0, <2>1, <2>2, SetTyped
  <2>4. sema' \in Nat
    BY <1>0, <1>16 DEF Down, TypeOK
  <2> QED  BY <1>0, <1>16, <2>3, <2>4 DEF Down, TypeOK
<1>17. ASSUME NEW s \in Slots, PopMine(s) PROVE TypeOK'
  <2>1. PICK i \in DOMAIN todo: /\ Set(s, [workers[s] EXCEPT !.pc = "got", !.fe = todo[i]])
                                /\ todo' = SubSeq(todo, 1, i - 1) \o SubSeq(todo, i + 1, Len(todo))
    BY <1>17, Zenon DEF PopMine
  <2>2. todo \in Seq(Events) /\ i \in 1 .. Len(todo) /\ todo[i] \in Events
    BY <1>0 DEF TypeOK
  <2>3. [workers[s] EXCEPT !.pc = "got", !.fe = todo[i]] \in WorkerType
    BY <1>0, <2>2, Hands, ZenonT(60) DEF WorkerType
  <2>4. workers' \in [Slots -> WorkerType] /\ todo' \in Seq(Events)
    BY <1>0, <2>1, <2>2, <2>3, SetTyped, TakenAt
  <2> QED  BY <1>0, <1>17, <2>4, Zenon DEF PopMine, TypeOK
<1>18. ASSUME NEW s \in Slots, PopNothing(s) PROVE TypeOK'
  <2>1. [workers[s] EXCEPT !.pc = "loop"] \in WorkerType
    BY <1>0, Hands DEF WorkerType
  <2> QED  BY <1>0, <1>18, <2>1, SetTyped DEF PopNothing, GiveBack, TypeOK
<1>19. ASSUME NEW s \in Slots, PopExit(s) PROVE TypeOK'
  <2>1. [workers[s] EXCEPT !.pc = "exit"] \in WorkerType
    BY <1>0, Hands DEF WorkerType
  <2> QED  BY <1>0, <1>19, <2>1, SetTyped DEF PopExit, MustExit, ToldOneLess, TypeOK
<1>20. ASSUME NEW s \in Slots, PopAny(s) PROVE TypeOK'
  <2>1. todo \in Seq(Events) /\ todo # <<>> /\ todo[Len(todo)] \in Events
    BY <1>0, <1>20 DEF PopAny, TypeOK
  <2>2. [workers[s] EXCEPT !.pc = "got", !.fe = todo[Len(todo)]] \in WorkerType
    BY <1>0, <2>1, Hands, ZenonT(60) DEF WorkerType
  <2>3. workers' \in [Slots -> WorkerType] /\ todo' \in Seq(Events)
    BY <1>0, <1>20, <2>1, <2>2, SetTyped, TakenLast DEF PopAny
  <2> QED  BY <1>0, <1>20, <2>3 DEF PopAny, TypeOK
<1>21. ASSUME NEW s \in Slots, Check(s) PROVE TypeOK'
  <2>1. \A pc \in {"report", "run"}: [workers[s] EXCEPT !.pc = pc] \in WorkerType
    BY <1>0, Hands DEF WorkerType
  <2>2. PICK pc \in {"report", "run"}: Set(s, [workers[s] EXCEPT !.pc = pc])
    BY <1>21 DEF Check
  <2> QED  BY <1>0, <1>21, <2>1, <2>2, SetTyped DEF Check, TypeOK
<1>22. ASSUME NEW s \in Slots, Call(s) PROVE TypeOK'
  <2>1. [workers[s] EXCEPT !.pc = "call"] \in WorkerType
    BY <1>0, Hands DEF WorkerType
  <2>2. s \in Callers /\ [Outside EXCEPT !.at = "create", !.depth = 2] \in StepType
    BY Zenon DEF Outside, StepType, Callers
  <2> QED  BY <1>0, <1>22, <2>1, <2>2, SetTyped, StepTyped DEF Call, TypeOK
<1>23. ASSUME NEW s \in Slots, NEW err \in BOOLEAN, Ran(s, err) PROVE TypeOK'
  <2>1. step' \in [Callers -> StepType]
    <3>1. s \in Callers /\ Outside \in StepType
      BY SMTT(30) DEF Outside, StepType, Callers
    <3> QED  BY <1>0, <1>23, <3>1, StepTyped, Zenon DEF Ran
  <2> DEFINE c == Fe[s][1]
             n == Fe[s][2]
  <2>2. /\ c \in Callers /\ flow[c].g \in Blocks /\ flow[c] \in FlowType(flow[c].g)
        /\ Set(s, [workers[s] EXCEPT !.pc = "report", !.fnxt = NextOf(c, n, err)])
        /\ NextOf(c, n, err) \in Events \cup {Nobody}
        /\ flow' = [flow EXCEPT ![c] = RanFlow(c, n, err)]
        /\ UNCHANGED <<queue, pool, bounds>>
    BY <1>0, <1>23, RanNext, ZenonT(60)
  <2> HIDE DEF c, n
  <2>3. [workers[s] EXCEPT !.pc = "report", !.fnxt = NextOf(c, n, err)] \in WorkerType
    BY <1>0, <2>2, Hands, ZenonT(60) DEF WorkerType
  <2>4. workers' \in [Slots -> WorkerType]
    BY <1>0, <2>2, <2>3, SetTyped
  <2>5. RanFlow(c, n, err) \in FlowType(flow[c].g)
    BY <2>2, RanTyped DEF RanRecord
  <2> QED  BY <1>0, <2>1, <2>2, <2>4, <2>5, FlowTyped, Zenon DEF TypeOK
<1>24. ASSUME NEW s \in Slots, Report(s) PROVE TypeOK'
  <2> DEFINE e == workers[s].fe
             g == flow[e[1]].g
  <2>1. /\ e[1] \in Callers /\ e[2] \in Nodes(g) /\ g \in Blocks
        /\ flow[e[1]] \in FlowType(g)
    BY <1>0, <1>24, Carried, ZenonT(60) DEF Report, At, Running, OfBlock
  <2>2. /\ flow' = [flow EXCEPT ![e[1]].done = Append(@, e[2])]
        /\ \E pc \in {"got", "loop"}:
              Set(s, [workers[s] EXCEPT !.pc = pc, !.fe = workers[s].fnxt, !.fnxt = Nobody])
        /\ UNCHANGED <<queue, step, pool, bounds>>
    BY <1>24, ZenonT(60) DEF Report, Forgotten
  <2>3. \A pc \in {"got", "loop"}:
           [workers[s] EXCEPT !.pc = pc, !.fe = workers[s].fnxt, !.fnxt = Nobody] \in WorkerType
    BY <1>0, Hands, ZenonT(300) DEF WorkerType
  <2>4. workers' \in [Slots -> WorkerType]
    BY <1>0, <2>2, <2>3, SetTyped, ZenonT(60)
  <2>5. [flow[e[1]] EXCEPT !.done = Append(@, e[2])] \in FlowType(g)
    BY <2>1, Appended, ZenonT(60) DEF FlowType
  <2> HIDE DEF e, g
  <2> QED  BY <1>0, <2>1, <2>2, <2>4, <2>5, FlowTyped, ZenonT(60) DEF TypeOK
<1>25. ASSUME NEW s \in Slots, Exit(s) PROVE TypeOK'
  <2>1. [workers[s] EXCEPT !.flag = "EXITED", !.pc = "none", !.seen = Nobody] \in WorkerType
    BY <1>0, Hands, ZenonT(60) DEF WorkerType, ClientOrNull
  <2> QED  BY <1>0, <1>25, <2>1, SetTyped DEF Exit, TypeOK
<1>26. ASSUME Stop PROVE TypeOK'
  <2>1. Cardinality(Slots) \in Nat
    BY DataflowAssumption, FS_CardinalityType
  <2> QED  BY <1>0, <1>26, <2>1 DEF Stop, TypeOK
<1>27. ASSUME StopSlot PROVE TypeOK'
  <2>1. stopper.at \in Slots /\ stopper.at \in Nat
    BY <1>0, <1>27 DEF StopSlot, TypeOK
  <2>2. \A flag \in {"JOINING", "IDLE"}: [workers[stopper.at] EXCEPT !.flag = flag] \in WorkerType
    BY <1>0, <2>1, Hands DEF WorkerType
  <2>3. PICK flag \in {"JOINING", "IDLE"}: Set(stopper.at, [workers[stopper.at] EXCEPT !.flag = flag])
    BY <1>27 DEF StopSlot
  <2>4. workers' \in [Slots -> WorkerType]
    BY <1>0, <2>1, <2>2, <2>3, SetTyped
  <2>5. stopper' \in [at : Nat, joining : BOOLEAN]
    <3>1. [stopper EXCEPT !.joining = TRUE] \in [at : Nat, joining : BOOLEAN]
      BY <1>0 DEF TypeOK
    <3>2. stopper.at + 1 \in Nat
      BY <2>1
    <3>3. [at |-> stopper.at + 1, joining |-> FALSE] \in [at : Nat, joining : BOOLEAN]
      BY <3>2
    <3> QED  BY <1>27, <3>1, <3>3 DEF StopSlot
  <2> QED  BY <1>0, <1>27, <2>4, <2>5 DEF StopSlot, TypeOK
<1>28. ASSUME Reset PROVE TypeOK'
  <2>1. NoThread \in WorkerType /\ Outside \in StepType
    BY DEF NoThread, WorkerType, ClientOrNull, Outside, StepType
  <2>2. workers' \in [Slots -> WorkerType] /\ step' \in [Callers -> StepType]
    BY <1>0, <1>28, <2>1 DEF Reset, TypeOK
  <2>3. /\ created' = FALSE /\ exiting' = FALSE /\ stopper' = [at |-> 0, joining |-> FALSE]
        /\ todo' = <<>> /\ sema' = 0 /\ exitcount' = 0 /\ flow' = flow
    BY <1>28 DEF Reset
  <2>4. stopper' \in [at : Nat, joining : BOOLEAN] /\ todo' \in Seq(Events)
    BY <2>3
  <2> QED  BY <1>0, <2>2, <2>3, <2>4 DEF TypeOK
<1>29. ASSUME UNCHANGED vars PROVE TypeOK'
  BY <1>0, <1>29 DEF vars, TypeOK
<1> QED  BY <1>1, <1>2, <1>3, <1>4, <1>5, <1>6, <1>7, <1>8, <1>9, <1>10, <1>11, <1>12, <1>13, <1>14,
            <1>15, <1>16, <1>17, <1>18, <1>19, <1>20, <1>21, <1>22, <1>23, <1>24, <1>25, <1>26, <1>27,
            <1>28, <1>29 DEF Next, Caller, Worker, Stopping

-----------------------------------------------------------------------------
(* What a step leaves alone.                                               *)

LEMMA SlotSet ==
  ASSUME TypeOK, NEW s \in Slots, NEW w, Set(s, w)
  PROVE  /\ \A t \in Slots: workers'[t] = IF t = s THEN w ELSE workers[t]
         /\ Fe' = [Fe EXCEPT ![s] = w.fe] /\ Nx' = [Nx EXCEPT ![s] = w.fnxt]
<1>1. \A t \in Slots: workers'[t] = IF t = s THEN w ELSE workers[t]
  BY DEF Set, TypeOK
<1> QED  BY <1>1 DEF Fe, Nx

(* A worker that keeps its instructions.                                   *)
LEMMA SlotKept ==
  ASSUME TypeOK, NEW s \in Slots, NEW w, Set(s, w),
         w.fe = workers[s].fe, w.fnxt = workers[s].fnxt
  PROVE  Fe' = Fe /\ Nx' = Nx
<1>1. Fe' = [Fe EXCEPT ![s] = w.fe] /\ Nx' = [Nx EXCEPT ![s] = w.fnxt]
  BY SlotSet
<1> QED  BY <1>1, ZenonT(60) DEF Fe, Nx

(* A worker takes the i-th instruction of todo.                            *)
Takes(s, i) ==
    /\ workers[s].pc = "pop"
    /\ Set(s, [workers[s] EXCEPT !.pc = "got", !.fe = todo[i]])
    /\ todo[i] \in Events /\ InSeq(todo[i], todo) /\ todo' \in Seq(Events)
    /\ \A x: InSeq(x, todo') => InSeq(x, todo)
    /\ \A x: InSeq(x, todo) => InSeq(x, todo') \/ x = todo[i]
    /\ Distinct(todo) => Distinct(todo') /\ ~InSeq(todo[i], todo')
    /\ flow' = flow /\ step' = step

LEMMA Taking ==
  ASSUME TypeOK, NEW s \in Slots, PopMine(s) \/ PopAny(s)
  PROVE  \E i \in 1 .. Len(todo): Takes(s, i)
<1>1. todo \in Seq(Events) /\ DOMAIN todo = 1 .. Len(todo) /\ Len(todo) \in Nat
      /\ \A i \in 1 .. Len(todo): todo[i] \in Events
  BY DEF TypeOK
<1>2. workers[s].pc = "pop" /\ flow' = flow /\ step' = step
  BY Zenon DEF PopMine, PopAny, At
<1>3. ASSUME NEW i \in 1 .. Len(todo), Set(s, [workers[s] EXCEPT !.pc = "got", !.fe = todo[i]]),
             todo' \in Seq(Events), Len(todo') = Len(todo) - 1,
             \A j \in 1 .. Len(todo'): todo'[j] = IF j < i THEN todo[j] ELSE todo[j + 1]
      PROVE  Takes(s, i)
  <2>1. /\ \A x: InSeq(x, todo') => InSeq(x, todo)
        /\ \A x: InSeq(x, todo) => InSeq(x, todo') \/ x = todo[i]
        /\ InSeq(todo[i], todo)
        /\ Distinct(todo) => Distinct(todo') /\ ~InSeq(todo[i], todo')
    BY <1>1, <1>3, TakenOut
  <2>2. todo[i] \in Events
    BY <1>1
  <2> QED  BY <1>2, <1>3, <2>1, <2>2, Zenon DEF Takes
<1>4. CASE PopMine(s)
  <2>1. PICK i \in DOMAIN todo: /\ Set(s, [workers[s] EXCEPT !.pc = "got", !.fe = todo[i]])
                                /\ todo' = SubSeq(todo, 1, i - 1) \o SubSeq(todo, i + 1, Len(todo))
    BY <1>4, Zenon DEF PopMine
  <2>2. /\ todo' \in Seq(Events) /\ Len(todo') = Len(todo) - 1
        /\ \A j \in 1 .. Len(todo'): todo'[j] = IF j < i THEN todo[j] ELSE todo[j + 1]
    BY <1>1, <2>1, TakenAt, ZenonT(60)
  <2>3. i \in 1 .. Len(todo)
    BY <1>1
  <2>4. Takes(s, i)
    BY <1>3, <2>1, <2>2, <2>3, Zenon
  <2> QED  BY <2>3, <2>4
<1>5. CASE PopAny(s)
  <2>1. /\ Set(s, [workers[s] EXCEPT !.pc = "got", !.fe = todo[Len(todo)]])
        /\ todo' = SubSeq(todo, 1, Len(todo) - 1) /\ todo # <<>>
    BY <1>5, Zenon DEF PopAny
  <2>2. /\ todo' \in Seq(Events) /\ Len(todo') = Len(todo) - 1 /\ Len(todo) \in 1 .. Len(todo)
        /\ \A j \in 1 .. Len(todo'): todo'[j] = IF j < Len(todo) THEN todo[j] ELSE todo[j + 1]
    BY <1>1, <2>1, TakenLast
  <2>3. Takes(s, Len(todo))
    BY <1>3, <2>1, <2>2, Zenon
  <2> QED  BY <2>2, <2>3
<1> QED  BY <1>4, <1>5

(* When a block is complete, nobody holds an instruction of it.            *)
LEMMA AllCounted ==
  ASSUME TypeOK, Owned, Counts, NEW c \in Callers, flow[c].live, Complete(flow[c])
  PROVE  /\ Settled(c) = Nodes(flow[c].g)
         /\ \A i \in 1 .. Len(todo): todo[i][1] # c
         /\ \A s \in Slots: /\ Fe[s] # Nobody => Fe[s][1] # c
                            /\ Nx[s] # Nobody => Nx[s][1] # c
<1> DEFINE g == flow[c].g
<1>1. Settled(c) = Nodes(g)
  <2>1. Size(g) \in Nat \ {0} /\ Nodes(g) = 1 .. Size(g)
    BY Live, Graph
  <2>2. IsFiniteSet(Nodes(g)) /\ Cardinality(Nodes(g)) = Size(g)
    BY <2>1, FS_Interval
  <2>3. Cardinality(Settled(c)) = Size(g)
    BY DEF Counts, Complete
  <2>4. Settled(c) \in SUBSET Nodes(g)
    BY DEF Settled
  <2> QED  BY <2>2, <2>3, <2>4, FS_Subset
<1>2. ASSUME NEW e \in Events, OfBlock(e), e[1] = c PROVE ~Placed(c, e[2]) /\ e = <<c, e[2]>>
  <2>1. e = <<c, e[2]>> /\ e[2] \in Nodes(g)
    BY <1>2 DEF Events, OfBlock
  <2> QED  BY <1>1, <2>1 DEF Settled
<1>3. ASSUME NEW i \in 1 .. Len(todo), todo[i][1] = c PROVE FALSE
  <2>1. todo[i] \in Events /\ OfBlock(todo[i])
    BY OwnedHands
  <2> QED  BY <1>2, <1>3, <2>1 DEF Placed, Held, InSeq
<1>4. ASSUME NEW s \in Slots, Fe[s] # Nobody, Fe[s][1] = c PROVE FALSE
  BY <1>2, <1>4, OwnedHands DEF Placed, Held
<1>5. ASSUME NEW s \in Slots, Nx[s] # Nobody, Nx[s][1] = c PROVE FALSE
  BY <1>2, <1>5, OwnedHands DEF Placed, Held
<1> QED  BY <1>1, <1>3, <1>4, <1>5

(* When the pool is being stopped no block is in progress: a worker within *)
(* a function works, in the end, for a client that is in a block.          *)
LEMMA Quiet ==
  ASSUME TypeOK, Control, Owned, exiting
  PROVE  /\ created
         /\ \A c \in Callers: step[c].at = "out" /\ ~flow[c].live
         /\ todo = <<>>
         /\ \A s \in Slots: Fe[s] = Nobody /\ Nx[s] = Nobody
         /\ \A s \in Slots: ~Running(s)
<1>1. ASSUME NEW c \in Clients PROVE step[c].at = "out" /\ ~flow[c].live
  BY DEF Control, Calling, Ceased, InBlock, Callers
<1>2. ASSUME NEW c \in Slots PROVE step[c].at = "out" /\ ~flow[c].live
  <2>1. SUFFICES ASSUME step[c].at # "out" PROVE FALSE
    BY DEF Control, Calling, InBlock, Callers
  <2>2. workers[c].pc = "call"
    BY <2>1 DEF Control, Calling, Callers
  <2>3. Fe[c] # Nobody /\ Of(Fe[c]).g.ins[Fe[c][2]].call
    BY <2>2 DEF Control, Holding, Running
  <2>4. OfBlock(Fe[c]) /\ Fe[c][1] \in Callers
    BY <2>3, OwnedHands DEF Events
  <2>5. Fe[c][1] \notin Clients
    BY <1>1, <2>4 DEF OfBlock
  <2>6. flow[Fe[c][1]].g \in Called /\ Fe[c][2] \in Nodes(flow[Fe[c][1]].g)
    BY <2>4, <2>5 DEF OfBlock, Callers, Control, Calling
  <2> QED  BY <2>3, <2>6, DataflowAssumption, ZenonT(30) DEF Of
<1>3. \A c \in Callers: step[c].at = "out" /\ ~flow[c].live
  BY <1>1, <1>2 DEF Callers
<1>4. todo = <<>>
  <2>1. todo \in Seq(Events) /\ \A i \in 1 .. Len(todo): todo[i] \in Events /\ OfBlock(todo[i])
    BY OwnedHands DEF TypeOK
  <2>2. \A e \in Events: ~OfBlock(e)
    BY <1>3 DEF OfBlock, Events
  <2>3. \A i \in 1 .. Len(todo): FALSE
    BY <2>1, <2>2
  <2>4. Len(todo) \in Nat
    BY <2>1
  <2>5. Len(todo) = 0
    BY <2>3, <2>4
  <2> QED  BY <2>1, <2>5
<1>5. ASSUME NEW s \in Slots PROVE Fe[s] = Nobody /\ Nx[s] = Nobody
  BY <1>3, OwnedHands DEF OfBlock, Events
<1> QED  BY <1>3, <1>4, <1>5 DEF Control, Holding, Ceased

(* Who acts has a pool.                                                    *)
LEMMA Busy ==
  ASSUME Fresh
  PROVE  /\ \A c \in Callers: step[c].at # "out" => created
         /\ \A s \in Slots: workers[s].pc # "none" => created
         /\ exiting => created
BY DEF Fresh, NoThread

(* The steps that move no instruction.                                     *)
Rest ==
    \/ \E c \in Clients: \E d \in Depths[c]: Enter(c, d)
    \/ \E c \in Callers: \/ \E s \in Slots: JoinBegin(c, s) \/ CreateWorker(c, s)
                         \/ JoinEnd(c) \/ RunSerially(c) \/ Dispatched(c) \/ Pill(c)
    \/ \E s \in Slots: \/ Start(s) \/ Gate(s) \/ Look(s) \/ Down(s) \/ PopNothing(s) \/ PopExit(s)
                       \/ Check(s) \/ Call(s) \/ Exit(s)
    \/ Stop \/ StopSlot \/ Reset

LEMMA Still ==
  ASSUME TypeOK, Fresh, Control, Owned, Rest
  PROVE  UNCHANGED <<todo, Fe, Nx, flow>>
<1> USE DEF queue, pool, bounds
<1>1. \A s \in Slots: workers[s] \in WorkerType
  BY Hands, ZenonT(30)
<1>2. ASSUME NEW c \in Clients, NEW d \in Depths[c], Enter(c, d) PROVE UNCHANGED <<todo, Fe, Nx, flow>>
  <2>1. CASE created
    BY <1>2, <2>1 DEF Enter, Fe, Nx
  <2>2. CASE ~created
    <3>1. \A s \in Slots: /\ workers[s].fe = Nobody /\ workers[s].fnxt = Nobody
                          /\ workers'[s].fe = Nobody /\ workers'[s].fnxt = Nobody
      BY <1>2, <2>2 DEF Enter, Pool, Fresh, NoThread, NewThread
    <3> QED  BY <1>2, <3>1 DEF Enter, Fe, Nx
  <2> QED  BY <2>1, <2>2
<1>3. ASSUME NEW c \in Callers, NEW s \in Slots, JoinBegin(c, s)
      PROVE  UNCHANGED <<todo, Fe, Nx, flow>>
  BY <1>1, <1>3, SlotKept DEF JoinBegin, WorkerType
<1>4. ASSUME NEW c \in Callers, NEW s \in Slots, CreateWorker(c, s)
      PROVE  UNCHANGED <<todo, Fe, Nx, flow>>
  BY <1>1, <1>4, SlotKept DEF CreateWorker, NewThread, WorkerType
<1>5. ASSUME NEW c \in Callers, JoinEnd(c) PROVE UNCHANGED <<todo, Fe, Nx, flow>>
  <2>1. step[c].w \in Slots
    BY <1>5 DEF JoinEnd, Control, Calling
  <2> QED  BY <1>1, <1>5, <2>1, SlotKept DEF JoinEnd, WorkerType
<1>6. ASSUME NEW c \in Callers, RunSerially(c) PROVE UNCHANGED <<todo, Fe, Nx, flow>>
  <2>1. CASE UNCHANGED workers
    BY <1>6, <2>1 DEF RunSerially, Fe, Nx
  <2>2. ASSUME NEW i \in Free, Set(i, [workers[i] EXCEPT !.cntxt = Specificity(c)])
        PROVE  Fe' = Fe /\ Nx' = Nx
    BY <1>1, <2>2, SlotKept DEF Free, WorkerType
  <2> QED  BY <1>6, <2>1, <2>2 DEF RunSerially
<1>7. ASSUME NEW c \in Callers, Dispatched(c) \/ Pill(c) PROVE UNCHANGED <<todo, Fe, Nx, flow>>
  BY <1>7 DEF Dispatched, Pill, Fe, Nx
<1>8. ASSUME NEW s \in Slots, NEW w, Set(s, w), w.fe = workers[s].fe, w.fnxt = workers[s].fnxt
      PROVE  Fe' = Fe /\ Nx' = Nx
  BY <1>8, SlotKept
<1>9. ASSUME NEW s \in Slots, Start(s) \/ Gate(s) \/ Look(s)
      PROVE  UNCHANGED <<todo, Fe, Nx, flow>>
  BY <1>1, <1>8, <1>9 DEF Start, Gate, Look, WorkerType
<1>10. ASSUME NEW s \in Slots, Down(s) PROVE UNCHANGED <<todo, Fe, Nx, flow>>
  <2>1. \E pc: Set(s, [workers[s] EXCEPT !.pc = pc])
    BY <1>10 DEF Down
  <2> QED  BY <1>1, <1>8, <1>10, <2>1 DEF Down, WorkerType
<1>11. ASSUME NEW s \in Slots, PopNothing(s) \/ PopExit(s) PROVE UNCHANGED <<todo, Fe, Nx, flow>>
  BY <1>1, <1>8, <1>11 DEF PopNothing, PopExit, WorkerType
<1>12. ASSUME NEW s \in Slots, Check(s) PROVE UNCHANGED <<todo, Fe, Nx, flow>>
  BY <1>1, <1>8, <1>12 DEF Check, WorkerType
<1>13. ASSUME NEW s \in Slots, Call(s) \/ Exit(s) PROVE UNCHANGED <<todo, Fe, Nx, flow>>
  BY <1>1, <1>8, <1>13 DEF Call, Exit, WorkerType
<1>14. CASE Stop
  BY <1>14 DEF Stop, Fe, Nx
<1>15. CASE StopSlot
  <2>1. stopper.at \in Slots /\ \E flag: Set(stopper.at, [workers[stopper.at] EXCEPT !.flag = flag])
    BY <1>15 DEF StopSlot
  <2> QED  BY <1>1, <1>8, <1>15, <2>1 DEF StopSlot, WorkerType
<1>16. CASE Reset
  <2>1. todo = <<>> /\ \A s \in Slots: Fe[s] = Nobody /\ Nx[s] = Nobody
    BY <1>16, Quiet DEF Reset
  <2>2. \A s \in Slots: workers'[s].fe = Nobody /\ workers'[s].fnxt = Nobody
    BY <1>16 DEF Reset, NoThread
  <2> QED  BY <1>16, <2>1, <2>2 DEF Reset, Fe, Nx
<1> QED  BY <1>2, <1>3, <1>4, <1>5, <1>6, <1>7, <1>9, <1>10, <1>11, <1>12, <1>13, <1>14, <1>15, <1>16
         DEF Rest

(* A block in progress stays that until its scheduler finishes it.         *)
LEMMA GoesOn ==
  ASSUME IInv, [Next]_vars, NEW c \in Callers, flow[c].live, ~Finish(c)
  PROVE  flow'[c].live /\ flow'[c].g = flow[c].g
<1> USE DEF queue, pool, bounds
<1>1. TypeOK /\ Fresh /\ Control /\ Owned /\ Order
  BY DEF IInv
<1>2. flow[c].g \in Blocks /\ flow[c] \in FlowType(flow[c].g) /\ DOMAIN flow = Callers
  BY <1>1, Live DEF TypeOK
<1>3. CASE flow' = flow
  BY <1>3
<1>4. CASE Rest
  BY <1>1, <1>3, <1>4, Still
<1>5. ASSUME NEW d \in Callers, InitBlk(d) PROVE flow'[c].live /\ flow'[c].g = flow[c].g
  <2>1. d # c
    BY <1>1, <1>5 DEF InitBlk, Control, Calling, InBlock
  <2> QED  BY <1>2, <1>5, <2>1 DEF InitBlk
<1>6. ASSUME NEW d \in Callers, Finish(d) PROVE flow'[c].live /\ flow'[c].g = flow[c].g
  BY <1>2, <1>6 DEF Finish
<1>7. ASSUME NEW d \in Callers, NEW x, flow' = [flow EXCEPT ![d] = x],
             d = c => x.live = flow[c].live /\ x.g = flow[c].g
      PROVE  flow'[c].live /\ flow'[c].g = flow[c].g
  BY <1>2, <1>7
<1>8. ASSUME NEW d \in Callers, Feed(d) PROVE flow'[c].live /\ flow'[c].g = flow[c].g
  <2>1. CASE Ready(d) = {}
    <3>1. flow' = flow
      BY <1>1, <1>8, <2>1, FeedNext, Zenon
    <3> QED  BY <1>3, <3>1
  <2>2. CASE Ready(d) # {}
    <3>1. flow' = [flow EXCEPT ![d] = [@ EXCEPT !.state[FirstReady(d)] = "running",
                                                !.at = FirstReady(d)]]
      BY <1>1, <1>8, <2>2, FeedNext, Zenon
    <3>2. CASE d = c
      BY <1>2, <3>1, <3>2 DEF FlowType
    <3> QED  BY <1>2, <3>1, <3>2
  <2> QED  BY <2>1, <2>2
<1>9. ASSUME NEW d \in Callers, TakeDone(d) PROVE flow'[c].live /\ flow'[c].g = flow[c].g
  BY <1>2, <1>9 DEF TakeDone, FlowType
<1>10. ASSUME NEW d \in Callers, Dispatch(d) PROVE flow'[c].live /\ flow'[c].g = flow[c].g
  <2>1. d = c => flow[d] \in FlowType(flow[d].g)
    BY <1>2
  <2>2. CASE flow[d].state[Woken(d)] = "pending" /\ flow[d].blocks[Woken(d)] = 1
    <3> DEFINE x == [flow[d] EXCEPT !.state[Woken(d)] = "running", !.blocks[Woken(d)] = 0, !.at = @ + 1]
    <3>1. flow' = [flow EXCEPT ![d] = x]
      BY <1>10, <2>2, Zenon DEF Dispatch, Woken
    <3>2. d = c => x.live = flow[d].live /\ x.g = flow[d].g
      BY <2>1 DEF FlowType
    <3> HIDE DEF x
    <3> QED  BY <1>7, <3>1, <3>2
  <2>3. CASE ~(flow[d].state[Woken(d)] = "pending" /\ flow[d].blocks[Woken(d)] = 1)
    <3> DEFINE x(b) == [flow[d] EXCEPT !.blocks[Woken(d)] = b, !.at = @ + 1]
    <3>1. PICK b: flow' = [flow EXCEPT ![d] = x(b)]
      BY <1>10, <2>3, Zenon DEF Dispatch, Woken
    <3>2. d = c => x(b).live = flow[d].live /\ x(b).g = flow[d].g
      BY <2>1 DEF FlowType
    <3> HIDE DEF x
    <3> QED  BY <1>7, <3>1, <3>2
  <2> QED  BY <2>2, <2>3
<1>11. ASSUME NEW s \in Slots, PopMine(s) \/ PopAny(s) PROVE flow'[c].live /\ flow'[c].g = flow[c].g
  <2>1. flow' = flow
    BY <1>11, Zenon DEF PopMine, PopAny
  <2> QED  BY <1>3, <2>1
<1>12. ASSUME NEW s \in Slots, NEW err \in BOOLEAN, Ran(s, err)
       PROVE flow'[c].live /\ flow'[c].g = flow[c].g
  <2> DEFINE d == Fe[s][1]
             n == Fe[s][2]
  <2>1. flow' = [flow EXCEPT ![d] = RanFlow(d, n, err)]
    BY <1>1, <1>12, RanNext, Zenon
  <2> HIDE DEF d, n
  <2>2. RanRecord(c, n, err, RanFlow(c, n, err))
    BY <1>2, RanTyped, Zenon
  <2>3. RanFlow(c, n, err).live = flow[c].live /\ RanFlow(c, n, err).g = flow[c].g
    BY <2>2 DEF RanRecord
  <2> QED  BY <1>7, <2>1, <2>3, <1>2
<1>13. ASSUME NEW s \in Slots, Report(s) PROVE flow'[c].live /\ flow'[c].g = flow[c].g
  BY <1>2, <1>13, ZenonT(60) DEF Report, FlowType
<1> QED  BY <1>3, <1>4, <1>5, <1>6, <1>8, <1>9, <1>10, <1>11, <1>12, <1>13
         DEF Next, Caller, Worker, Stopping, Rest, vars

(* A wake-up: the instruction is put in todo when it waited only for it.   *)
Wakes(c) == flow[c].state[Woken(c)] = "pending" /\ flow[c].blocks[Woken(c)] = 1

LEMMA DispatchNext ==
  ASSUME TypeOK, Control, Order, NEW c \in Callers, Dispatch(c)
  PROVE  /\ flow'[c] \in FlowType(flow[c].g) /\ flow'[c].live
         /\ \A d \in Callers \ {c}: flow'[d] = flow[d]
         /\ flow'[c].g = flow[c].g /\ flow'[c].cntxt = flow[c].cntxt /\ flow'[c].done = flow[c].done
         /\ flow'[c].error = flow[c].error /\ flow'[c].tasks = flow[c].tasks
         /\ flow'[c].f = flow[c].f /\ flow'[c].at = flow[c].at + 1
         /\ \A n \in Nodes(flow[c].g):
              /\ flow'[c].state[n] = IF Wakes(c) /\ n = Woken(c) THEN "running" ELSE flow[c].state[n]
              /\ flow'[c].blocks[n] =
                    IF n = Woken(c) /\ flow[c].state[n] = "pending" THEN flow[c].blocks[n] - 1
                    ELSE flow[c].blocks[n]
         /\ Wakes(c) => Enqueue(<<c, Woken(c)>>)
         /\ ~Wakes(c) => UNCHANGED <<todo, sema, exitcount>>
         /\ UNCHANGED <<workers, step>>
<1> DEFINE fl == flow[c]
           i == Woken(c)
<1> USE DEF queue, pool, bounds
<1>1. /\ step[c].at = "dispatch" /\ fl.at < Len(fl.g.wake[fl.f]) /\ UNCHANGED <<workers, step>>
      /\ Wakes(c) => /\ Enqueue(<<c, i>>)
                     /\ flow' = [flow EXCEPT ![c] = [fl EXCEPT !.state[i] = "running", !.blocks[i] = 0,
                                                               !.at = @ + 1]]
      /\ ~Wakes(c) => /\ UNCHANGED <<todo, sema, exitcount>>
                      /\ flow' = [flow EXCEPT ![c] = [fl EXCEPT
                                   !.blocks[i] = IF fl.state[i] = "pending" THEN @ - 1 ELSE @,
                                   !.at = @ + 1]]
  BY Zenon DEF Dispatch, Woken, Wakes
<1>2. /\ fl.live /\ fl.g \in Blocks /\ fl \in FlowType(fl.g) /\ i \in Nodes(fl.g) /\ DOMAIN flow = Callers
      /\ fl.state[i] = "pending" => fl.blocks[i] >= 1
  BY <1>1, WakeUp DEF TypeOK
<1>3. fl.blocks \in [Nodes(fl.g) -> Nat] /\ fl.state \in [Nodes(fl.g) -> {"pending", "running", "wrapup"}]
      /\ fl.at \in Nat
  BY <1>2 DEF FlowType
<1>4. CASE Wakes(c)
  <2> DEFINE st == [fl.state EXCEPT ![i] = "running"]
             bl == [fl.blocks EXCEPT ![i] = 0]
             a == fl.at + 1
  <2>1. flow' = [flow EXCEPT ![c] = [fl EXCEPT !.state = st, !.blocks = bl, !.at = a]]
    BY <1>1, <1>2, <1>4 DEF FlowType
  <2>2. st \in [Nodes(fl.g) -> {"pending", "running", "wrapup"}] /\ bl \in [Nodes(fl.g) -> Nat] /\ a \in Nat
    BY <1>2, <1>3
  <2>3. \A n \in Nodes(fl.g): /\ st[n] = IF n = i THEN "running" ELSE fl.state[n]
                              /\ bl[n] = IF n = i THEN 0 ELSE fl.blocks[n]
    BY <1>2, <1>3
  <2> HIDE DEF st, bl, a
  <2>4. /\ flow'[c] \in FlowType(fl.g) /\ \A d \in Callers \ {c}: flow'[d] = flow[d]
        /\ flow'[c].live /\ flow'[c].g = fl.g /\ flow'[c].cntxt = fl.cntxt /\ flow'[c].done = fl.done
        /\ flow'[c].error = fl.error /\ flow'[c].tasks = fl.tasks /\ flow'[c].f = fl.f /\ flow'[c].at = a
        /\ flow'[c].state = st /\ flow'[c].blocks = bl
    BY <1>2, <2>1, <2>2 DEF FlowType
  <2>5. \A n \in Nodes(fl.g):
           bl[n] = IF n = i /\ fl.state[n] = "pending" THEN fl.blocks[n] - 1 ELSE fl.blocks[n]
    BY <1>3, <1>4, <2>3 DEF Wakes
  <2> HIDE DEF fl, i
  <2> QED  BY <1>1, <1>4, <2>3, <2>4, <2>5, ZenonT(30) DEF fl, a, i
<1>5. CASE ~Wakes(c)
  <2> DEFINE b == IF fl.state[i] = "pending" THEN fl.blocks[i] - 1 ELSE fl.blocks[i]
             bl == [fl.blocks EXCEPT ![i] = b]
             a == fl.at + 1
  <2>1. flow' = [flow EXCEPT ![c] = [fl EXCEPT !.blocks = bl, !.at = a]]
    BY <1>1, <1>2, <1>5 DEF FlowType
  <2>2. b \in Nat /\ a \in Nat
    BY <1>2, <1>3
  <2>3. bl \in [Nodes(fl.g) -> Nat]
    BY <1>3, <2>2
  <2>4. \A n \in Nodes(fl.g): bl[n] = IF n = i THEN b ELSE fl.blocks[n]
    BY <1>2, <1>3
  <2> HIDE DEF b, bl, a
  <2>5. /\ flow'[c] \in FlowType(fl.g) /\ \A d \in Callers \ {c}: flow'[d] = flow[d]
        /\ flow'[c].live /\ flow'[c].g = fl.g /\ flow'[c].cntxt = fl.cntxt /\ flow'[c].done = fl.done
        /\ flow'[c].error = fl.error /\ flow'[c].tasks = fl.tasks /\ flow'[c].f = fl.f /\ flow'[c].at = a
        /\ flow'[c].state = fl.state /\ flow'[c].blocks = bl
    BY <1>2, <2>1, <2>2, <2>3 DEF FlowType
  <2>6. \A n \in Nodes(fl.g):
           bl[n] = IF n = i /\ fl.state[n] = "pending" THEN fl.blocks[n] - 1 ELSE fl.blocks[n]
    BY <2>4 DEF b
  <2> HIDE DEF fl, i
  <2> QED  BY <1>1, <1>5, <2>5, <2>6 DEF fl, a, i
<1> QED  BY <1>4, <1>5

(* What runMALsequence leaves: the instruction is executed and perhaps     *)
(* another one picked; the scheduler's part of the block stays as it is.   *)
Runs(s, c, n, err) ==
    /\ c \in Callers /\ flow[c].live /\ n \in Nodes(flow[c].g)
    /\ Fe[s] = <<c, n>> /\ Fe[s] # Nobody /\ Executing(s) /\ ~Locked(c)
    /\ flow[c].g \in Blocks /\ flow[c] \in FlowType(flow[c].g)
    /\ Set(s, [workers[s] EXCEPT !.pc = "report", !.fnxt = NextOf(c, n, err)])
    /\ RanRecord(c, n, err, flow'[c])
    /\ \A d \in Callers \ {c}: flow'[d] = flow[d]
    /\ step' = [step EXCEPT ![s] = Outside]
    /\ UNCHANGED <<todo, sema, exitcount>>

LEMMA RanEffect ==
  ASSUME TypeOK, Control, Owned, NEW s \in Slots, NEW err \in BOOLEAN, Ran(s, err)
  PROVE  Runs(s, Fe[s][1], Fe[s][2], err)
<1> DEFINE c == Fe[s][1]
           n == Fe[s][2]
<1>2. /\ Fe[s] = <<c, n>> /\ Fe[s] # Nobody /\ Executing(s) /\ ~Locked(c)
      /\ c \in Callers /\ flow[c].live /\ n \in Nodes(flow[c].g)
      /\ flow[c].g \in Blocks /\ flow[c] \in FlowType(flow[c].g)
      /\ Set(s, [workers[s] EXCEPT !.pc = "report", !.fnxt = NextOf(c, n, err)])
      /\ flow' = [flow EXCEPT ![c] = RanFlow(c, n, err)]
      /\ step' = [step EXCEPT ![s] = Outside]
      /\ UNCHANGED <<todo, sema, exitcount>>
  BY RanNext, Zenon DEF queue
<1> HIDE DEF c, n
<1>3. flow'[c] = RanFlow(c, n, err) /\ \A d \in Callers \ {c}: flow'[d] = flow[d]
  BY <1>2 DEF TypeOK
<1>4. RanRecord(c, n, err, RanFlow(c, n, err))
  BY <1>2, RanTyped, Zenon
<1>5. Runs(s, c, n, err)
  BY <1>2, <1>3, <1>4, Zenon DEF Runs
<1> QED  BY <1>5 DEF c, n

(* A worker's step leaves the other workers alone.                         *)
LEMMA WorkerAlone ==
  ASSUME TypeOK, NEW s \in Slots, Worker(s)
  PROVE  /\ \A t \in Slots \ {s}: workers'[t] = workers[t]
         /\ workers[s].pc # "none"
         /\ UNCHANGED <<created, exiting, stopper>>
         /\ workers[s].pc # "call" /\ ~Call(s) => step' = step \/ \E err \in BOOLEAN: Ran(s, err)
         /\ \A c \in Callers \ {s}: step'[c] = step[c]
<1> USE DEF queue, pool, bounds
<1>1. \E w: Set(s, w)
  BY Zenon DEF Worker, Start, Gate, Look, Down, PopMine, PopNothing, PopExit, PopAny, Check, Call, Ran,
               Report, Exit
<1>2. \A t \in Slots \ {s}: workers'[t] = workers[t]
  BY <1>1 DEF Set, TypeOK
<1>3. workers[s].pc # "none" /\ UNCHANGED <<created, exiting, stopper>>
  BY Zenon DEF Worker, At, Start, Gate, Look, Down, PopMine, PopNothing, PopExit, PopAny, Check, Call, Ran,
               Report, Exit
<1>4. workers[s].pc # "call" /\ ~Call(s) => step' = step \/ \E err \in BOOLEAN: Ran(s, err)
  BY Zenon DEF Worker, Start, Gate, Look, Down, PopMine, PopNothing, PopExit, PopAny, Check, Report, Exit
<1>5. step' = step \/ \E x: step' = [step EXCEPT ![s] = x]
  BY Zenon DEF Worker, Start, Gate, Look, Down, PopMine, PopNothing, PopExit, PopAny, Check, Call, Ran,
               Report, Exit
<1>6. \A c \in Callers \ {s}: step'[c] = step[c]
  BY <1>5 DEF TypeOK
<1> QED  BY <1>2, <1>3, <1>4, <1>6

(* What a worker's step leaves in a block: what the scheduler alone uses.  *)
SameBlock(c) ==
    /\ flow[c].live /\ flow'[c].live /\ flow'[c].g = flow[c].g /\ flow'[c].cntxt = flow[c].cntxt
    /\ flow'[c].tasks = flow[c].tasks /\ flow'[c].f = flow[c].f /\ flow'[c].at = flow[c].at

LEMMA WorkerFlow ==
  ASSUME TypeOK, Control, Owned, NEW s \in Slots, Worker(s), NEW c \in Callers
  PROVE  flow'[c] = flow[c] \/ SameBlock(c)
<1> USE DEF queue, pool, bounds
<1>1. ASSUME NEW err \in BOOLEAN, Ran(s, err) PROVE flow'[c] = flow[c] \/ SameBlock(c)
  <2> DEFINE d == Fe[s][1]
             n == Fe[s][2]
  <2>1. Runs(s, d, n, err)
    BY <1>1, RanEffect
  <2> HIDE DEF d, n
  <2>2. SameBlock(d) /\ \A e \in Callers \ {d}: flow'[e] = flow[e]
    BY <2>1, ZenonT(30) DEF Runs, RanRecord, SameBlock
  <2> QED  BY <2>2
<1>2. CASE Report(s)
  <2> DEFINE e == workers[s].fe
  <2>1. /\ e[1] \in Callers /\ flow[e[1]].live /\ flow[e[1]].g \in Blocks
        /\ flow[e[1]] \in FlowType(flow[e[1]].g)
    BY <1>2, Carried, ZenonT(60) DEF Report, At, Running, OfBlock
  <2>2. flow' = [flow EXCEPT ![e[1]].done = Append(@, e[2])]
    BY <1>2, Zenon DEF Report
  <2> HIDE DEF e
  <2> QED  BY <2>1, <2>2, Z3 DEF TypeOK, SameBlock, FlowType
<1>3. CASE flow' = flow
  BY <1>3
<1>4. flow' = flow \/ Report(s) \/ \E err \in BOOLEAN: Ran(s, err)
  BY Zenon DEF Worker, Start, Gate, Look, Down, PopMine, PopNothing, PopExit, PopAny, Check, Call, Exit
<1> QED  BY <1>1, <1>2, <1>3, <1>4

(* The steps of the callers, and stopping the pool, do not disturb a       *)
(* thread: they change its flag, its client, its semaphore, or start one.  *)
Kept(s) ==
    /\ workers[s].pc # "none" => workers'[s].pc = workers[s].pc
    /\ workers'[s].pc \in {workers[s].pc, "start"}
    /\ workers'[s].seen = workers[s].seen \/ workers[s].pc = "none"
    /\ \/ workers'[s].pc = workers[s].pc
       \/ ~created
       \/ \E c \in Callers: CreateWorker(c, s)
    /\ \/ workers'[s].cntxt \in {workers[s].cntxt, Nobody}
       \/ workers'[s].pc = "none"
       \/ \E c \in Callers: CreateWorker(c, s)

LEMMA ThreadKept ==
  ASSUME TypeOK, Fresh, Control, NEW s \in Slots,
         \/ \E c \in Clients: \E d \in Depths[c]: Enter(c, d)
         \/ \E c \in Callers: Caller(c)
         \/ Stop \/ StopSlot
  PROVE  Kept(s)
<1> USE DEF queue, pool, bounds
<1>1. /\ \A t \in Slots: workers[t] \in WorkerType
      /\ DOMAIN workers = Slots
  BY Hands DEF TypeOK
<1>2. ASSUME NEW t \in Slots, NEW w, Set(t, w), w.pc = workers[t].pc, w.seen = workers[t].seen,
             w.cntxt \in {workers[t].cntxt, Nobody} \/ workers[t].pc = "none"
      PROVE  Kept(s)
  BY <1>1, <1>2, SlotSet DEF Kept
<1>3. CASE workers' = workers
  BY <1>3 DEF Kept
<1>4. ASSUME NEW c \in Clients, NEW d \in Depths[c], Enter(c, d) PROVE Kept(s)
  <2>0. workers' = IF created THEN workers ELSE Pool
    BY <1>4, Zenon DEF Enter
  <2>1. CASE created
    <3>1. workers' = workers
      BY <2>0, <2>1
    <3> QED  BY <1>3, <3>1
  <2>2. CASE ~created
    <3>1. workers[s].pc = "none" /\ workers' = Pool
      BY <2>0, <2>2 DEF Fresh, NoThread
    <3>2. Pool[s].pc \in {"none", "start"} /\ Pool[s].cntxt = Nobody
      BY DEF Pool, NewThread, NoThread
    <3> QED  BY <2>2, <3>1, <3>2 DEF Kept
  <2> QED  BY <2>1, <2>2
<1>5. ASSUME NEW c \in Callers, NEW t \in Slots, JoinBegin(c, t) PROVE Kept(s)
  <2> DEFINE w == [workers[t] EXCEPT !.flag = "JOINING", !.cntxt = Nobody]
  <2>1. w.pc = workers[t].pc /\ w.seen = workers[t].seen /\ w.cntxt = Nobody
    BY <1>1 DEF WorkerType
  <2>2. Set(t, w)
    BY <1>5, Zenon DEF JoinBegin
  <2> HIDE DEF w
  <2> QED  BY <1>2, <2>1, <2>2
<1>6. ASSUME NEW c \in Callers, JoinEnd(c) PROVE Kept(s)
  <2> DEFINE t == step[c].w
             w == [workers[t] EXCEPT !.flag = "IDLE"]
  <2>1. t \in Slots
    BY <1>6 DEF JoinEnd, Control, Calling
  <2>2. w.pc = workers[t].pc /\ w.seen = workers[t].seen /\ w.cntxt = workers[t].cntxt
    BY <1>1, <2>1 DEF WorkerType
  <2>3. Set(t, w)
    BY <1>6, Zenon DEF JoinEnd
  <2> HIDE DEF w, t
  <2> QED  BY <1>2, <2>1, <2>2, <2>3
<1>7. ASSUME NEW c \in Callers, NEW i \in Slots, CreateWorker(c, i) PROVE Kept(s)
  <2> DEFINE w == NewThread(workers[i], Specificity(c))
  <2>1. w.pc = "start" /\ workers[i].pc = "none" /\ Set(i, w)
    BY <1>1, <1>7 DEF CreateWorker, FirstFree, Free, Control, Vacant, NewThread, WorkerType
  <2> HIDE DEF w
  <2>2. workers'[s] = IF s = i THEN w ELSE workers[s]
    BY <2>1, SlotSet
  <2> QED  BY <1>7, <2>1, <2>2 DEF Kept
<1>8. ASSUME NEW c \in Callers, RunSerially(c) PROVE Kept(s)
  <2>1. ASSUME NEW i \in Free, NEW x, Set(i, [workers[i] EXCEPT !.cntxt = x]) PROVE Kept(s)
    <3> DEFINE w == [workers[i] EXCEPT !.cntxt = x]
    <3>1. i \in Slots /\ workers[i].pc = "none"
      BY <2>1 DEF Free, Control, Vacant
    <3>2. w.pc = workers[i].pc /\ w.seen = workers[i].seen /\ Set(i, w)
      BY <1>1, <2>1, <3>1 DEF WorkerType
    <3> HIDE DEF w
    <3> QED  BY <1>2, <3>1, <3>2
  <2> QED  BY <1>3, <1>8, <2>1 DEF RunSerially
<1>9. ASSUME NEW c \in Callers, InitBlk(c) \/ TakeDone(c) \/ Dispatch(c) \/ Dispatched(c) \/ Pill(c)
      PROVE  Kept(s)
  <2>1. workers' = workers
    BY <1>9, Zenon DEF InitBlk, TakeDone, Dispatch, Dispatched, Pill
  <2> QED  BY <1>3, <2>1
<1>10. ASSUME NEW c \in Callers, Feed(c) \/ Finish(c) PROVE Kept(s)
  <2> DEFINE t == step[c].w
  <2>1. t \in Slots
    BY <1>10, ZenonT(30) DEF Feed, Finish, Control, Calling
  <2>2. \/ workers' = workers
        \/ \E n: Set(t, [workers[t] EXCEPT !.s = n])
        \/ Set(t, [workers[t] EXCEPT !.cntxt = Nobody])
    BY <1>10, Zenon DEF Feed, Finish, Release, Set
  <2> HIDE DEF t
  <2>3. ASSUME NEW n, Set(t, [workers[t] EXCEPT !.s = n]) PROVE Kept(s)
    <3>1. LET w == [workers[t] EXCEPT !.s = n] IN w.pc = workers[t].pc /\ w.seen = workers[t].seen
                                                         /\ w.cntxt \in {workers[t].cntxt, Nobody}
      BY <1>1, <2>1 DEF WorkerType
    <3> QED  BY <1>2, <2>1, <2>3, <3>1, Zenon
  <2>4. ASSUME Set(t, [workers[t] EXCEPT !.cntxt = Nobody]) PROVE Kept(s)
    <3>1. LET w == [workers[t] EXCEPT !.cntxt = Nobody] IN w.pc = workers[t].pc /\ w.seen = workers[t].seen
                                                              /\ w.cntxt \in {workers[t].cntxt, Nobody}
      BY <1>1, <2>1 DEF WorkerType
    <3> QED  BY <1>2, <2>1, <2>4, <3>1, Zenon
  <2> QED  BY <1>3, <2>2, <2>3, <2>4, Zenon
<1>11. CASE Stop
  BY <1>3, <1>11 DEF Stop
<1>12. CASE StopSlot
  <2> DEFINE i == stopper.at
  <2>1. i \in Slots
    BY <1>12 DEF StopSlot
  <2>2. PICK x: Set(i, [workers[i] EXCEPT !.flag = x])
    BY <1>12, Zenon DEF StopSlot
  <2> DEFINE w == [workers[i] EXCEPT !.flag = x]
  <2>3. /\ w.pc = workers[i].pc /\ w.seen = workers[i].seen /\ Set(i, w)
        /\ w.cntxt = workers[i].cntxt
    BY <1>1, <2>1, <2>2 DEF WorkerType
  <2> HIDE DEF w, i
  <2> QED  BY <1>2, <2>1, <2>3
<1> QED  BY <1>4, <1>5, <1>6, <1>7, <1>8, <1>9, <1>10, <1>11, <1>12 DEF Caller

-----------------------------------------------------------------------------
(* Where the threads are.                                                  *)

LEMMA FreshNext == IInv /\ [Next]_vars => Fresh'
<1> SUFFICES ASSUME IInv, [Next]_vars PROVE Fresh'
  OBVIOUS
<1> USE DEF queue, pool, bounds
<1>1. Fresh /\ TypeOK /\ Control /\ Owned
  BY DEF IInv
<1>2. ASSUME created' = TRUE PROVE Fresh'
  BY <1>2 DEF Fresh
<1>3. ASSUME created, created' = created PROVE Fresh'
  BY <1>3 DEF Fresh
<1>4. ASSUME NEW c \in Clients, NEW d \in Depths[c], Enter(c, d) PROVE Fresh'
  BY <1>2, <1>4 DEF Enter
<1>5. ASSUME NEW c \in Callers, Caller(c) PROVE Fresh'
  <2>1. step[c].at # "out" /\ created' = created
    BY <1>5, Zenon DEF Caller, JoinBegin, JoinEnd, CreateWorker, RunSerially, InitBlk, Feed, TakeDone,
                       Dispatch, Dispatched, Finish, Pill
  <2> QED  BY <1>1, <1>3, <2>1, Busy
<1>6. ASSUME NEW s \in Slots, Worker(s) PROVE Fresh'
  <2>1. workers[s].pc # "none" /\ created' = created
    BY <1>6, Zenon DEF Worker, At, Start, Gate, Look, Down, PopMine, PopNothing, PopExit, PopAny, Check,
                       Call, Ran, Report, Exit
  <2> QED  BY <1>1, <1>3, <2>1, Busy
<1>7. CASE Stop \/ StopSlot
  BY <1>1, <1>3, <1>7, Busy DEF Stop, StopSlot
<1>8. CASE Reset
  <2>1. \A c \in Callers: step'[c].at = "out"
    BY <1>1, <1>8, Quiet DEF Reset, Outside, Callers
  <2> QED  BY <1>8, <2>1 DEF Reset, Fresh
<1>9. CASE UNCHANGED vars
  BY <1>1, <1>9 DEF vars, Fresh
<1> QED  BY <1>4, <1>5, <1>6, <1>7, <1>8, <1>9 DEF Next, Stopping

LEMMA CeasedNext == IInv /\ [Next]_vars => Ceased'
<1> SUFFICES ASSUME IInv, [Next]_vars PROVE Ceased'
  OBVIOUS
<1> USE DEF queue, pool, bounds
<1>1. Fresh /\ TypeOK /\ Control /\ Owned /\ Ceased
  BY DEF IInv, Control
<1>2. ASSUME NEW c \in Clients, NEW d \in Depths[c], Enter(c, d) PROVE Ceased'
  BY <1>2 DEF Enter, Ceased
<1>3. ASSUME NEW c \in Callers, Caller(c) PROVE Ceased'
  <2>1. step[c].at # "out" /\ exiting' = exiting
    BY <1>3, Zenon DEF Caller, JoinBegin, JoinEnd, CreateWorker, RunSerially, InitBlk, Feed, TakeDone,
                       Dispatch, Dispatched, Finish, Pill
  <2> QED  BY <1>1, <2>1, Quiet DEF Ceased
<1>4. ASSUME NEW s \in Slots, Worker(s) PROVE Ceased'
  <2>1. /\ exiting' = exiting /\ created' = created
        /\ step' = step \/ \E x: step' = [step EXCEPT ![s] = x]
    BY <1>4, Zenon DEF Worker, At, Start, Gate, Look, Down, PopMine, PopNothing, PopExit, PopAny, Check,
                       Call, Ran, Report, Exit
  <2>2. \A c \in Clients: c # s
    BY Names
  <2> QED  BY <1>1, <2>1, <2>2 DEF Ceased, TypeOK, Callers
<1>5. CASE Stop \/ StopSlot
  BY <1>1, <1>5 DEF Stop, StopSlot, Ceased
<1>6. CASE Reset
  BY <1>6 DEF Reset, Ceased
<1>7. CASE UNCHANGED vars
  BY <1>1, <1>7 DEF vars, Ceased
<1> QED  BY <1>2, <1>3, <1>4, <1>5, <1>6, <1>7 DEF Next, Stopping

LEMMA VacantNext == IInv /\ [Next]_vars => \A s \in Slots: Vacant(s)'
<1> SUFFICES ASSUME IInv, [Next]_vars, NEW t \in Slots PROVE Vacant(t)'
  BY ZenonT(30)
<1> USE DEF queue, pool, bounds
<1>1. Fresh /\ TypeOK /\ Control /\ Owned /\ Vacant(t)
  BY DEF IInv, Control
<1>2. \A s \in Slots: workers[s] \in WorkerType
  BY <1>1, Hands
<1>3. ASSUME UNCHANGED <<exiting, stopper>>,
             workers'[t].pc = workers[t].pc, workers'[t].flag = workers[t].flag
      PROVE  Vacant(t)'
  BY <1>1, <1>3 DEF Vacant
<1>4. ASSUME NEW s \in Slots, NEW w, Set(s, w), UNCHANGED <<exiting, stopper>>,
             w.flag = workers[s].flag, workers[s].pc # "none"
      PROVE  Vacant(t)'
  <2>1. CASE s = t
    <3>1. workers'[t] = w
      BY <1>1, <1>4, <2>1, SlotSet
    <3> QED  BY <1>1, <1>4, <2>1, <3>1 DEF Vacant
  <2>2. CASE s # t
    <3>1. workers'[t] = workers[t]
      BY <1>1, <1>4, <2>2, SlotSet
    <3> QED  BY <1>3, <1>4, <3>1
  <2> QED  BY <2>1, <2>2
<1>5. ASSUME NEW s \in Slots, NEW w, Set(s, w), UNCHANGED <<exiting, stopper>>,
             w.pc = "none" \/ w.flag = "RUNNING"
      PROVE  Vacant(t)'
  <2>1. CASE s = t
    <3>1. workers'[t] = w
      BY <1>1, <1>5, <2>1, SlotSet
    <3> QED  BY <1>5, <3>1 DEF Vacant
  <2>2. CASE s # t
    <3>1. workers'[t] = workers[t]
      BY <1>1, <1>5, <2>2, SlotSet
    <3> QED  BY <1>3, <1>5, <3>1
  <2> QED  BY <2>1, <2>2
<1>6. ASSUME UNCHANGED <<workers, exiting, stopper>> PROVE Vacant(t)'
  BY <1>3, <1>6
<1>7. ASSUME NEW c \in Clients, NEW d \in Depths[c], Enter(c, d) PROVE Vacant(t)'
  <2>1. CASE created
    BY <1>6, <1>7, <2>1 DEF Enter
  <2>2. CASE ~created
    <3>1. workers'[t] = NoThread \/ workers'[t] = NewThread(NoThread, Nobody)
      BY <1>7, <2>2 DEF Enter, Pool
    <3>2. NoThread.pc = "none" /\ NewThread(NoThread, Nobody).flag = "RUNNING"
      BY DEF NoThread, NewThread
    <3> QED  BY <3>1, <3>2 DEF Vacant
  <2> QED  BY <2>1, <2>2
<1>8. ASSUME NEW c \in Callers, NEW s \in Slots, JoinBegin(c, s) PROVE Vacant(t)'
  <2>1. workers[s].pc = "none"
    BY <1>1, <1>8 DEF JoinBegin, Control, Vacant
  <2>2. [workers[s] EXCEPT !.flag = "JOINING", !.cntxt = Nobody].pc = "none"
    BY <1>2, <2>1 DEF WorkerType
  <2> QED  BY <1>5, <1>8, <2>2 DEF JoinBegin
<1>9. ASSUME NEW c \in Callers, JoinEnd(c) PROVE Vacant(t)'
  <2>1. step[c].w \in Slots /\ workers[step[c].w].pc = "none"
    BY <1>1, <1>9 DEF JoinEnd, Control, Calling
  <2>2. [workers[step[c].w] EXCEPT !.flag = "IDLE"].pc = "none"
    BY <1>2, <2>1 DEF WorkerType
  <2> QED  BY <1>5, <1>9, <2>1, <2>2 DEF JoinEnd
<1>10. ASSUME NEW c \in Callers, NEW i \in Slots, CreateWorker(c, i) PROVE Vacant(t)'
  <2>1. NewThread(workers[i], Specificity(c)).flag = "RUNNING"
    BY <1>2 DEF NewThread, WorkerType
  <2> QED  BY <1>5, <1>10, <2>1 DEF CreateWorker
<1>11. ASSUME NEW c \in Callers, RunSerially(c) PROVE Vacant(t)'
  <2>1. ASSUME NEW i \in Free, Set(i, [workers[i] EXCEPT !.cntxt = Specificity(c)]) PROVE Vacant(t)'
    <3>1. i \in Slots /\ workers[i].pc = "none"
      BY <1>1 DEF Free, Control, Vacant
    <3>2. [workers[i] EXCEPT !.cntxt = Specificity(c)].pc = "none"
      BY <1>2, <3>1 DEF WorkerType
    <3> QED  BY <1>5, <1>11, <2>1, <3>1, <3>2 DEF RunSerially
  <2> QED  BY <1>6, <1>11, <2>1 DEF RunSerially
<1>12. ASSUME NEW c \in Callers, InitBlk(c) \/ TakeDone(c) \/ Dispatch(c) \/ Dispatched(c) \/ Pill(c)
       PROVE  Vacant(t)'
  <2>1. UNCHANGED <<workers, exiting, stopper>>
    BY <1>12, Zenon DEF InitBlk, TakeDone, Dispatch, Dispatched, Pill
  <2> QED  BY <1>6, <2>1
<1>13. ASSUME NEW c \in Callers, Feed(c) \/ Finish(c) PROVE Vacant(t)'
  <2>1. UNCHANGED <<exiting, stopper>>
    BY <1>13, Zenon DEF Feed, Finish
  <2>2. \/ workers' = workers
        \/ \E n: workers' = [workers EXCEPT ![step[c].w].s = n]
        \/ workers' = [workers EXCEPT ![step[c].w].cntxt = Nobody]
    BY <1>13, Zenon DEF Feed, Finish, Release
  <2>3. workers'[t].pc = workers[t].pc /\ workers'[t].flag = workers[t].flag
    <3>1. DOMAIN workers = Slots /\ workers[t] \in WorkerType
      BY <1>1, <1>2 DEF TypeOK
    <3>2. ASSUME NEW n, workers' = [workers EXCEPT ![step[c].w].s = n]
          PROVE  workers'[t].pc = workers[t].pc /\ workers'[t].flag = workers[t].flag
      BY <3>1, <3>2 DEF WorkerType
    <3>3. ASSUME workers' = [workers EXCEPT ![step[c].w].cntxt = Nobody]
          PROVE  workers'[t].pc = workers[t].pc /\ workers'[t].flag = workers[t].flag
      BY <3>1, <3>3 DEF WorkerType
    <3> QED  BY <2>2, <3>2, <3>3, Zenon
  <2> QED  BY <1>3, <2>1, <2>3
<1>14. ASSUME NEW s \in Slots, Worker(s), ~Exit(s) PROVE Vacant(t)'
  <2>1. workers[s].pc # "none" /\ UNCHANGED <<exiting, stopper>>
    BY <1>14, Zenon DEF Worker, At, Start, Gate, Look, Down, PopMine, PopNothing, PopExit, PopAny, Check,
                        Call, Ran, Report
  <2>2. \/ \E pc, n: Set(s, [workers[s] EXCEPT !.pc = pc, !.s = n])
        \/ \E pc: Set(s, [workers[s] EXCEPT !.pc = pc])
        \/ \E pc, x: Set(s, [workers[s] EXCEPT !.pc = pc, !.seen = x])
        \/ \E pc, e: Set(s, [workers[s] EXCEPT !.pc = pc, !.fe = e])
        \/ \E pc, e: Set(s, [workers[s] EXCEPT !.pc = pc, !.fnxt = e])
        \/ \E pc, e, x: Set(s, [workers[s] EXCEPT !.pc = pc, !.fe = e, !.fnxt = x])
    BY <1>14, ZenonT(60) DEF Worker, Start, Gate, Look, Down, PopMine, PopNothing, PopExit, PopAny, Check,
                        Call, Ran, Report
  <2>3. \E w: Set(s, w) /\ w.flag = workers[s].flag
    <3>1. ASSUME NEW pc, NEW n, Set(s, [workers[s] EXCEPT !.pc = pc, !.s = n])
          PROVE  \E w: Set(s, w) /\ w.flag = workers[s].flag
      <4>1. [workers[s] EXCEPT !.pc = pc, !.s = n].flag = workers[s].flag
        BY <1>2 DEF WorkerType
      <4> QED  BY <3>1, <4>1, Zenon
    <3>2. ASSUME NEW pc, Set(s, [workers[s] EXCEPT !.pc = pc])
          PROVE  \E w: Set(s, w) /\ w.flag = workers[s].flag
      <4>1. [workers[s] EXCEPT !.pc = pc].flag = workers[s].flag
        BY <1>2 DEF WorkerType
      <4> QED  BY <3>2, <4>1, Zenon
    <3>3. ASSUME NEW pc, NEW x, Set(s, [workers[s] EXCEPT !.pc = pc, !.seen = x])
          PROVE  \E w: Set(s, w) /\ w.flag = workers[s].flag
      <4>1. [workers[s] EXCEPT !.pc = pc, !.seen = x].flag = workers[s].flag
        BY <1>2 DEF WorkerType
      <4> QED  BY <3>3, <4>1, Zenon
    <3>4. ASSUME NEW pc, NEW e, Set(s, [workers[s] EXCEPT !.pc = pc, !.fe = e])
          PROVE  \E w: Set(s, w) /\ w.flag = workers[s].flag
      <4>1. [workers[s] EXCEPT !.pc = pc, !.fe = e].flag = workers[s].flag
        BY <1>2 DEF WorkerType
      <4> QED  BY <3>4, <4>1, Zenon
    <3>5. ASSUME NEW pc, NEW e, Set(s, [workers[s] EXCEPT !.pc = pc, !.fnxt = e])
          PROVE  \E w: Set(s, w) /\ w.flag = workers[s].flag
      <4>1. [workers[s] EXCEPT !.pc = pc, !.fnxt = e].flag = workers[s].flag
        BY <1>2 DEF WorkerType
      <4> QED  BY <3>5, <4>1, Zenon
    <3>6. ASSUME NEW pc, NEW e, NEW x, Set(s, [workers[s] EXCEPT !.pc = pc, !.fe = e, !.fnxt = x])
          PROVE  \E w: Set(s, w) /\ w.flag = workers[s].flag
      <4>1. [workers[s] EXCEPT !.pc = pc, !.fe = e, !.fnxt = x].flag = workers[s].flag
        BY <1>2 DEF WorkerType
      <4> QED  BY <3>6, <4>1, Zenon
    <3> QED  BY <2>2, <3>1, <3>2, <3>3, <3>4, <3>5, <3>6, Zenon
  <2> QED  BY <1>4, <2>1, <2>3
<1>15. ASSUME NEW s \in Slots, Exit(s) PROVE Vacant(t)'
  <2>1. [workers[s] EXCEPT !.flag = "EXITED", !.pc = "none", !.seen = Nobody].pc = "none"
    BY <1>2 DEF WorkerType
  <2> QED  BY <1>5, <1>15, <2>1 DEF Exit
<1>16. CASE Stop
  BY <1>1, <1>16 DEF Stop, Vacant
<1>17. CASE StopSlot
  <2> DEFINE i == stopper.at
  <2>1. i \in Slots /\ exiting /\ exiting' = exiting
    BY <1>17 DEF StopSlot
  <2>2. CASE /\ ~stopper.joining
             /\ Set(i, [workers[i] EXCEPT !.flag = "JOINING"])
             /\ stopper' = [stopper EXCEPT !.joining = TRUE]
    <3>1. stopper'.joining /\ stopper'.at = i
      BY <1>1, <2>2 DEF TypeOK
    <3>2. CASE t = i
      <4>1. workers'[t].flag = "JOINING"
        BY <1>1, <1>2, <2>1, <2>2, <3>2, SlotSet DEF WorkerType
      <4> QED  BY <2>1, <3>1, <3>2, <4>1 DEF Vacant
    <3>3. CASE t # i
      <4>1. workers'[t] = workers[t]
        BY <1>1, <2>1, <2>2, <3>3, SlotSet
      <4> QED  BY <1>1, <2>2, <4>1 DEF Vacant
    <3> QED  BY <3>2, <3>3
  <2>3. CASE /\ IF stopper.joining THEN workers[i].pc = "none"
                ELSE workers[i].flag \in {"IDLE", "JOINING"}
             /\ Set(i, [workers[i] EXCEPT !.flag = "IDLE"])
    <3>1. workers[i].pc = "none"
      BY <1>1, <2>1, <2>3 DEF Control, Vacant
    <3>2. CASE t = i
      <4>1. workers'[t].pc = "none"
        BY <1>1, <1>2, <2>1, <2>3, <3>1, <3>2, SlotSet DEF WorkerType
      <4> QED  BY <4>1 DEF Vacant
    <3>3. CASE t # i
      <4>1. workers'[t] = workers[t]
        BY <1>1, <2>1, <2>3, <3>3, SlotSet
      <4> QED  BY <1>1, <3>3, <4>1 DEF Vacant
    <3> QED  BY <3>2, <3>3
  <2> QED  BY <1>17, <2>2, <2>3 DEF StopSlot
<1>18. CASE Reset
  BY <1>18 DEF Reset, Vacant, NoThread
<1>19. CASE UNCHANGED vars
  BY <1>6, <1>19 DEF vars
<1> QED  BY <1>7, <1>8, <1>9, <1>10, <1>11, <1>12, <1>13, <1>14, <1>15, <1>16, <1>17, <1>18, <1>19
         DEF Next, Caller, Stopping, Worker

LEMMA HoldingNext == IInv /\ [Next]_vars => \A s \in Slots: Holding(s)'
<1> SUFFICES ASSUME IInv, [Next]_vars, NEW t \in Slots PROVE Holding(t)'
  BY ZenonT(30)
<1> USE DEF queue, pool, bounds
<1>1. Fresh /\ TypeOK /\ Control /\ Owned /\ \A s \in Slots: Holding(s)
  BY DEF IInv, Control
<1>2. \A s \in Slots: /\ workers[s] \in WorkerType
                      /\ Fe[s] = workers[s].fe /\ Nx[s] = workers[s].fnxt
  BY <1>1, Hands
(* The block of the instruction that a worker holds is the same.           *)
<1>3. ASSUME NEW s \in Slots, Fe[s] # Nobody PROVE flow'[Fe[s][1]].g = flow[Fe[s][1]].g
  <2>1. Fe[s][1] \in Callers /\ flow[Fe[s][1]].live
    BY <1>1, <1>3, OwnedHands DEF OfBlock, Events
  <2>2. ASSUME Finish(Fe[s][1]) PROVE FALSE
    BY <1>3, <2>1, <2>2, AllCounted, ZenonT(30) DEF IInv, Finish
  <2> QED  BY <2>1, <2>2, GoesOn
<1>4. ASSUME Fe'[t] = Fe[t], Nx'[t] = Nx[t],
             workers'[t].pc = workers[t].pc
             \/ ({workers[t].pc, workers'[t].pc} \cap {"got", "run", "call", "report"} = {})
      PROVE  Holding(t)'
  <2>1. Holding(t)
    BY <1>1
  <2>2. CASE workers'[t].pc = workers[t].pc
    <3>1. Running(t)' <=> Fe'[t] # Nobody
      BY <1>4, <2>1, <2>2 DEF Holding, Running
    <3>2. ASSUME workers'[t].pc = "call" PROVE flow'[Fe'[t][1]].g.ins[Fe'[t][2]].call
      <4>1. Fe[t] # Nobody /\ flow[Fe[t][1]].g.ins[Fe[t][2]].call
        BY <2>1, <2>2, <3>2, ZenonT(30) DEF Holding, Running, Of
      <4> QED  BY <1>3, <1>4, <4>1, ZenonT(30)
    <3>3. Nx'[t] # Nobody => workers'[t].pc = "report"
      BY <1>4, <2>1, <2>2 DEF Holding
    <3> QED  BY <3>1, <3>2, <3>3, Zenon DEF Holding, Of
  <2>3. CASE {workers[t].pc, workers'[t].pc} \cap {"got", "run", "call", "report"} = {}
    <3>1. Fe'[t] = Nobody /\ Nx'[t] = Nobody
      BY <1>4, <2>1, <2>3 DEF Holding, Running
    <3> QED  BY <2>3, <3>1 DEF Holding, Running
  <2> QED  BY <1>4, <2>2, <2>3
<1>5. ASSUME NEW s \in Slots, NEW w, Set(s, w), w.fe = workers[s].fe, w.fnxt = workers[s].fnxt,
             \/ w.pc = workers[s].pc
             \/ {workers[s].pc, w.pc} \cap {"got", "run", "call", "report"} = {}
      PROVE  Holding(t)'
  <2>1. Fe' = Fe /\ Nx' = Nx
    BY <1>1, <1>5, SlotKept
  <2>2. workers'[t] = IF t = s THEN w ELSE workers[t]
    BY <1>1, <1>5, SlotSet
  <2> QED  BY <1>4, <1>5, <2>1, <2>2
<1>6. ASSUME NEW s \in Slots, NEW w, Set(s, w),
             w.pc \in {"got", "run", "call", "report"} <=> w.fe # Nobody,
             w.fnxt # Nobody => w.pc = "report",
             w.pc = "call" => flow'[w.fe[1]].g.ins[w.fe[2]].call
      PROVE  Holding(t)'
  <2>1. workers'[t] = IF t = s THEN w ELSE workers[t]
    BY <1>1, <1>6, SlotSet, ZenonT(30)
  <2>2. Fe' = [Fe EXCEPT ![s] = w.fe] /\ Nx' = [Nx EXCEPT ![s] = w.fnxt]
    BY <1>1, <1>6, SlotSet, ZenonT(30)
  <2>3. CASE t = s
    <3>1. Fe'[t] = w.fe /\ Nx'[t] = w.fnxt /\ workers'[t] = w
      BY <2>1, <2>2, <2>3 DEF Fe, Nx
    <3> QED  BY <1>6, <3>1, Zenon DEF Holding, Running, Of
  <2>4. CASE t # s
    <3>1. Fe'[t] = Fe[t] /\ Nx'[t] = Nx[t] /\ workers'[t] = workers[t]
      BY <2>1, <2>2, <2>4 DEF Fe, Nx
    <3> QED  BY <1>4, <3>1
  <2> QED  BY <2>3, <2>4
<1>7. ASSUME workers' = workers PROVE Holding(t)'
  BY <1>4, <1>7 DEF Fe, Nx
<1>8. ASSUME NEW c \in Clients, NEW d \in Depths[c], Enter(c, d) PROVE Holding(t)'
  <2>1. CASE created
    BY <1>7, <1>8, <2>1 DEF Enter
  <2>2. CASE ~created
    <3>1. Fe'[t] = Fe[t] /\ Nx'[t] = Nx[t]
      BY <1>1, <1>8, Still DEF Rest
    <3>2. workers[t].pc = "none" /\ workers'[t].pc \in {"none", "start"}
      BY <1>1, <1>8, <2>2 DEF Enter, Fresh, Pool, NewThread, NoThread
    <3> QED  BY <1>4, <3>1, <3>2
  <2> QED  BY <2>1, <2>2
<1>9. ASSUME NEW c \in Callers, NEW s \in Slots, JoinBegin(c, s) PROVE Holding(t)'
  <2> DEFINE w == [workers[s] EXCEPT !.flag = "JOINING", !.cntxt = Nobody]
  <2>1. w.fe = workers[s].fe /\ w.fnxt = workers[s].fnxt /\ w.pc = workers[s].pc
    BY <1>2 DEF WorkerType
  <2>2. Set(s, w)
    BY <1>9, Zenon DEF JoinBegin
  <2> HIDE DEF w
  <2> QED  BY <1>5, <2>1, <2>2
<1>10. ASSUME NEW c \in Callers, JoinEnd(c) PROVE Holding(t)'
  <2> DEFINE s == step[c].w
             w == [workers[s] EXCEPT !.flag = "IDLE"]
  <2>1. s \in Slots
    BY <1>1, <1>10, ZenonT(30) DEF JoinEnd, Control, Calling
  <2>2. w.fe = workers[s].fe /\ w.fnxt = workers[s].fnxt /\ w.pc = workers[s].pc
    BY <1>2, <2>1 DEF WorkerType
  <2>3. Set(s, w)
    BY <1>10, Zenon DEF JoinEnd
  <2> HIDE DEF w, s
  <2> QED  BY <1>5, <2>1, <2>2, <2>3
<1>11. ASSUME NEW c \in Callers, NEW i \in Slots, CreateWorker(c, i) PROVE Holding(t)'
  <2> DEFINE w == NewThread(workers[i], Specificity(c))
  <2>1. w.fe = workers[i].fe /\ w.fnxt = workers[i].fnxt /\ w.pc = "start"
    BY <1>2 DEF NewThread, WorkerType
  <2>2. workers[i].pc = "none" /\ Set(i, w)
    BY <1>1, <1>11 DEF CreateWorker, FirstFree, Free, Control, Vacant
  <2> HIDE DEF w
  <2> QED  BY <1>5, <2>1, <2>2
<1>12. ASSUME NEW c \in Callers, RunSerially(c) PROVE Holding(t)'
  <2>1. ASSUME NEW i \in Slots, NEW x, Set(i, [workers[i] EXCEPT !.cntxt = x]) PROVE Holding(t)'
    <3> DEFINE w == [workers[i] EXCEPT !.cntxt = x]
    <3>1. w.fe = workers[i].fe /\ w.fnxt = workers[i].fnxt /\ w.pc = workers[i].pc
      BY <1>2 DEF WorkerType
    <3>2. Set(i, w)
      BY <2>1
    <3> HIDE DEF w
    <3> QED  BY <1>5, <3>1, <3>2
  <2> QED  BY <1>7, <1>12, <2>1 DEF RunSerially, Free
<1>13. ASSUME NEW c \in Callers, InitBlk(c) \/ TakeDone(c) \/ Dispatch(c) \/ Dispatched(c) \/ Pill(c)
       PROVE  Holding(t)'
  <2>1. workers' = workers
    BY <1>13, Zenon DEF InitBlk, TakeDone, Dispatch, Dispatched, Pill
  <2> QED  BY <1>7, <2>1
<1>14. ASSUME NEW c \in Callers, Feed(c) \/ Finish(c) PROVE Holding(t)'
  <2> DEFINE s == step[c].w
  <2>1. s \in Slots
    BY <1>1, <1>14, ZenonT(30) DEF Feed, Finish, Control, Calling
  <2>2. \/ workers' = workers
        \/ \E n: Set(s, [workers[s] EXCEPT !.s = n])
        \/ Set(s, [workers[s] EXCEPT !.cntxt = Nobody])
    BY <1>14, Zenon DEF Feed, Finish, Release, Set
  <2> HIDE DEF s
  <2>3. ASSUME NEW n, Set(s, [workers[s] EXCEPT !.s = n]) PROVE Holding(t)'
    <3>1. LET w == [workers[s] EXCEPT !.s = n]
          IN  w.fe = workers[s].fe /\ w.fnxt = workers[s].fnxt /\ w.pc = workers[s].pc
      BY <1>2, <2>1 DEF WorkerType
    <3> QED  BY <1>5, <2>1, <2>3, <3>1, Zenon
  <2>4. ASSUME Set(s, [workers[s] EXCEPT !.cntxt = Nobody]) PROVE Holding(t)'
    <3>1. LET w == [workers[s] EXCEPT !.cntxt = Nobody]
          IN  w.fe = workers[s].fe /\ w.fnxt = workers[s].fnxt /\ w.pc = workers[s].pc
      BY <1>2, <2>1 DEF WorkerType
    <3> QED  BY <1>5, <2>1, <2>4, <3>1, Zenon
  <2> QED  BY <1>7, <2>2, <2>3, <2>4, Zenon
<1>15. ASSUME NEW s \in Slots, Start(s) \/ Gate(s) \/ Look(s) \/ Down(s) \/ PopNothing(s) \/ PopExit(s)
                               \/ Exit(s)
       PROVE  Holding(t)'
  <2>1. Fe' = Fe /\ Nx' = Nx
    BY <1>1, <1>15, Still, Zenon DEF Rest
  <2>2. workers[s].pc \in {"start", "gate", "loop", "down", "pop", "exit"}
    BY <1>15 DEF Start, Gate, Look, Down, PopNothing, PopExit, Exit, At
  <2>3. /\ workers'[s].pc \in {"none", "gate", "loop", "down", "pop", "exit"}
        /\ t # s => workers'[t].pc = workers[t].pc
    <3>1. DOMAIN workers = Slots /\ workers[s] \in WorkerType
      BY <1>1, <1>2 DEF TypeOK
    <3>2. CASE Start(s)
      BY <3>1, <3>2 DEF Start, Set, WorkerType
    <3>3. CASE Gate(s)
      BY <3>1, <3>3 DEF Gate, Set, WorkerType
    <3>4. CASE Look(s)
      BY <3>1, <3>4 DEF Look, Set, WorkerType
    <3>5. CASE Down(s)
      <4>1. PICK pc \in {"loop", "exit", "pop"}: Set(s, [workers[s] EXCEPT !.pc = pc])
        BY <3>5 DEF Down, LookAgain
      <4> QED  BY <3>1, <4>1 DEF Set, WorkerType
    <3>6. CASE PopNothing(s)
      BY <3>1, <3>6 DEF PopNothing, Set, WorkerType
    <3>7. CASE PopExit(s)
      BY <3>1, <3>7 DEF PopExit, Set, WorkerType
    <3>8. CASE Exit(s)
      BY <3>1, <3>8 DEF Exit, Set, WorkerType
    <3> QED  BY <1>15, <3>2, <3>3, <3>4, <3>5, <3>6, <3>7, <3>8
  <2> QED  BY <1>4, <2>1, <2>2, <2>3
<1>16. ASSUME NEW s \in Slots, PopMine(s) \/ PopAny(s) PROVE Holding(t)'
  <2>1. PICK i \in 1 .. Len(todo): Takes(s, i)
    BY <1>1, <1>16, Taking
  <2> DEFINE w == [workers[s] EXCEPT !.pc = "got", !.fe = todo[i]]
  <2>2. todo[i] # Nobody /\ Nx[s] = Nobody
    <3>1. todo[i] \in Events /\ workers[s].pc = "pop"
      BY <2>1 DEF Takes
    <3>2. Nx[s] = Nobody
      BY <1>1, <3>1 DEF Holding
    <3> QED  BY <3>1, <3>2, Names
  <2>3. w.pc = "got" /\ w.fe = todo[i] /\ w.fnxt = Nobody
    BY <1>2, <2>2 DEF WorkerType
  <2>4. Set(s, w)
    BY <2>1 DEF Takes
  <2> HIDE DEF w
  <2> QED  BY <1>6, <2>2, <2>3, <2>4, ZenonT(30)
<1>17. ASSUME NEW s \in Slots, Check(s) PROVE Holding(t)'
  <2>1. PICK pc \in {"report", "run"}: Set(s, [workers[s] EXCEPT !.pc = pc])
    BY <1>17 DEF Check
  <2> DEFINE w == [workers[s] EXCEPT !.pc = pc]
  <2>2. w.pc = pc /\ w.fe = Fe[s] /\ w.fnxt = Nx[s]
    BY <1>2 DEF WorkerType
  <2>3. Fe[s] # Nobody /\ Nx[s] = Nobody
    BY <1>1, <1>17 DEF Check, At, Holding, Running
  <2> HIDE DEF w
  <2> QED  BY <1>6, <2>1, <2>2, <2>3 DEF w
<1>18. ASSUME NEW s \in Slots, Call(s) PROVE Holding(t)'
  <2> DEFINE w == [workers[s] EXCEPT !.pc = "call"]
  <2>1. Fe[s] # Nobody /\ Nx[s] = Nobody /\ flow[Fe[s][1]].g.ins[Fe[s][2]].call
    <3>1. workers[s].pc = "run" /\ flow[workers[s].fe[1]].g.ins[workers[s].fe[2]].call
      BY <1>18, Zenon DEF Call, At, Of
    <3>2. workers[s].fe = Fe[s] /\ Holding(s)
      BY <1>1, <1>2
    <3>3. Fe[s] # Nobody /\ Nx[s] = Nobody
      BY <3>1, <3>2, ZenonT(30) DEF Holding, Running
    <3> QED  BY <3>1, <3>2, <3>3, ZenonT(30)
  <2>2. w.pc = "call" /\ w.fe = Fe[s] /\ w.fnxt = Nx[s]
    BY <1>2 DEF WorkerType
  <2>3. flow'[Fe[s][1]].g = flow[Fe[s][1]].g /\ Set(s, w)
    BY <1>3, <1>18, <2>1, Zenon DEF Call
  <2> HIDE DEF w
  <2> QED  BY <1>6, <2>1, <2>2, <2>3, ZenonT(60)
<1>19. ASSUME NEW s \in Slots, NEW err \in BOOLEAN, Ran(s, err) PROVE Holding(t)'
  <2> DEFINE x == NextOf(Fe[s][1], Fe[s][2], err)
             w == [workers[s] EXCEPT !.pc = "report", !.fnxt = x]
  <2>1. Fe[s] # Nobody /\ Set(s, w)
    BY <1>1, <1>19, RanNext, Zenon
  <2> HIDE DEF x
  <2>2. w.pc = "report" /\ w.fe = Fe[s]
    BY <1>2 DEF WorkerType
  <2> HIDE DEF w
  <2> QED  BY <1>6, <2>1, <2>2, ZenonT(30)
<1>20. ASSUME NEW s \in Slots, Report(s) PROVE Holding(t)'
  <2> DEFINE pc == IF Nx[s] # Nobody THEN "got" ELSE "loop"
             w == [workers[s] EXCEPT !.pc = pc, !.fe = Nx[s], !.fnxt = Nobody]
  <2>1. Set(s, w)
    <3>1. Set(s, [workers[s] EXCEPT !.pc = IF workers[s].fnxt # Nobody THEN "got" ELSE "loop",
                                    !.fe = workers[s].fnxt, !.fnxt = Nobody])
      BY <1>20, Zenon DEF Report, Forgotten
    <3> QED  BY <1>2, <3>1
  <2>2. w.pc = pc /\ w.fe = Nx[s] /\ w.fnxt = Nobody
    BY <1>2 DEF WorkerType
  <2> HIDE DEF w
  <2> QED  BY <1>6, <2>1, <2>2, ZenonT(30)
<1>21. CASE Stop
  BY <1>7, <1>21 DEF Stop
<1>22. CASE StopSlot
  <2> DEFINE i == stopper.at
  <2>1. i \in Slots
    BY <1>22 DEF StopSlot
  <2>2. PICK x: Set(i, [workers[i] EXCEPT !.flag = x])
    BY <1>22, Zenon DEF StopSlot
  <2> DEFINE w == [workers[i] EXCEPT !.flag = x]
  <2>3. w.fe = workers[i].fe /\ w.fnxt = workers[i].fnxt /\ w.pc = workers[i].pc
    BY <1>2, <2>1 DEF WorkerType
  <2>4. Set(i, w)
    BY <2>2
  <2> HIDE DEF w, i
  <2> QED  BY <1>5, <2>1, <2>3, <2>4
<1>23. CASE Reset
  <2>1. workers'[t].pc = "none" /\ workers'[t].fe = Nobody /\ workers'[t].fnxt = Nobody
    BY <1>23 DEF Reset, NoThread
  <2> QED  BY <2>1 DEF Holding, Running, Fe, Nx
<1>24. CASE UNCHANGED vars
  BY <1>7, <1>24 DEF vars
<1> QED  BY <1>8, <1>9, <1>10, <1>11, <1>12, <1>13, <1>14, <1>15, <1>16, <1>17, <1>18, <1>19, <1>20,
            <1>21, <1>22, <1>23, <1>24 DEF Next, Caller, Worker, Stopping

LEMMA CallingNext == IInv /\ [Next]_vars => \A c \in Callers: Calling(c)'
<1> SUFFICES ASSUME IInv, [Next]_vars, NEW d \in Callers PROVE Calling(d)'
  BY ZenonT(30)
<1> USE DEF queue, pool, bounds
<1>1. /\ Fresh /\ TypeOK /\ Control /\ Owned /\ Order
      /\ \A c \in Callers: Calling(c) /\ step[c] \in StepType
      /\ DOMAIN step = Callers /\ DOMAIN flow = Callers
  BY DEF IInv, Control, TypeOK
<1>2. flow[d].live => flow[d].g \in Blocks /\ flow[d] \in FlowType(flow[d].g)
  BY <1>1, Live
(* A step of others than d and its thread.                                 *)
<1>3. ASSUME flow'[d] = flow[d] \/ SameBlock(d),
             step'[d].at = step[d].at, step'[d].w = step[d].w, step'[d].depth = step[d].depth,
             d \in Slots /\ step[d].at # "out" => workers'[d].pc = workers[d].pc
      PROVE  Calling(d)'
  <2>1. Calling(d)
    BY <1>1
  <2>2. CASE flow'[d] = flow[d]
    BY <1>3, <2>1, <2>2 DEF Calling, InBlock
  <2>3. CASE SameBlock(d)
    BY <1>3, <2>1, <2>3 DEF Calling, InBlock, SameBlock
  <2> QED  BY <1>3, <2>2, <2>3
(* The thread of d goes on while it is in a function that it called.       *)
<1>4. ASSUME \/ \E c \in Clients: \E e \in Depths[c]: Enter(c, e)
             \/ \E c \in Callers: Caller(c)
             \/ Stop \/ StopSlot,
             d \in Slots, step[d].at # "out"
      PROVE  workers'[d].pc = "call" /\ step[d].depth = 2
  <2>1. workers[d].pc = "call" /\ step[d].depth = 2
    BY <1>1, <1>4 DEF Calling
  <2> QED  BY <1>1, <1>4, <2>1, ThreadKept DEF Kept
<1>5. ASSUME \/ \E c \in Clients: \E e \in Depths[c]: Enter(c, e)
             \/ \E c \in Callers: Caller(c)
             \/ Stop \/ StopSlot,
             flow'[d] = flow[d], step'[d] = step[d]
      PROVE  Calling(d)'
  <2>1. d \in Slots /\ step[d].at # "out" => workers'[d].pc = workers[d].pc
    <3>1. d \in Slots /\ step[d].at # "out" => workers[d].pc = "call"
      BY <1>1 DEF Calling
    <3> QED  BY <1>4, <1>5, <3>1
  <2> QED  BY <1>3, <1>5, <2>1
<1>6. ASSUME NEW c \in Clients, NEW e \in Depths[c], Enter(c, e) PROVE Calling(d)'
  <2>1. /\ flow' = flow /\ step[c].at = "out"
        /\ step' = [step EXCEPT ![c] = [Outside EXCEPT !.at = "create", !.depth = e]]
    BY <1>6, Zenon DEF Enter
  <2>2. CASE c = d
    <3>1. step'[d].at = "create" /\ d \notin Slots
      BY <1>1, <2>1, <2>2, Names DEF Outside
    <3> QED  BY <1>1, <2>1, <2>2, <3>1 DEF Calling, InBlock
  <2>3. CASE c # d
    <3>1. flow'[d] = flow[d] /\ step'[d] = step[d]
      BY <1>1, <2>1, <2>3
    <3> QED  BY <1>5, <1>6, <3>1
  <2> QED  BY <2>2, <2>3
(* Another caller.                                                         *)
<1>7. ASSUME NEW c \in Callers, Caller(c), c # d PROVE Calling(d)'
  <2>1. flow' = flow \/ \E x: flow' = [flow EXCEPT ![c] = x]
    BY <1>7, Zenon DEF Caller, JoinBegin, JoinEnd, CreateWorker, RunSerially, InitBlk, Feed, TakeDone,
                       Dispatch, Dispatched, Finish, Pill
  <2>2. step' = step \/ \E x: step' = [step EXCEPT ![c] = x]
    BY <1>7, Zenon DEF Caller, JoinBegin, JoinEnd, CreateWorker, RunSerially, InitBlk, Feed, TakeDone,
                       Dispatch, Dispatched, Finish, Pill, Goto
  <2>3. flow'[d] = flow[d] /\ step'[d] = step[d]
    BY <1>1, <1>7, <2>1, <2>2
  <2> QED  BY <1>5, <1>7, <2>3
(* The caller itself, before its block begins and after it ended.          *)
<1>8. ASSUME Caller(d), ~flow[d].live, flow' = flow,
             step'[d].at \in {"out", "create", "join", "init", "pill"},
             step'[d].at \in {"join", "init"} => step'[d].w \in Slots,
             step'[d].at # "out" => step[d].at # "out" /\ step'[d].depth = step[d].depth
      PROVE  Calling(d)'
  <2>1. d \in Slots /\ step'[d].at # "out" => workers'[d].pc = "call" /\ step'[d].depth = 2
    BY <1>4, <1>8
  <2> QED  BY <1>8, <2>1 DEF Calling, InBlock
<1>9. ASSUME NEW s \in Slots, JoinBegin(d, s) PROVE Calling(d)'
  <2>1. step[d].at = "create" /\ flow' = flow /\ step' = [step EXCEPT ![d] = [step[d] EXCEPT !.at = "join", !.w = s]]
    BY <1>9, Zenon DEF JoinBegin
  <2>2. step'[d].at = "join" /\ step'[d].w = s /\ step'[d].depth = step[d].depth
    BY <1>1, <2>1 DEF StepType
  <2>3. ~flow[d].live /\ Caller(d)
    BY <1>1, <1>9, <2>1 DEF Calling, InBlock, Caller
  <2> QED  BY <1>8, <2>1, <2>2, <2>3
<1>10. ASSUME JoinEnd(d) PROVE Calling(d)'
  <2>1. step[d].at = "join" /\ flow' = flow /\ step' = [step EXCEPT ![d].at = "create"]
    BY <1>10, Zenon DEF JoinEnd, Goto
  <2>2. step'[d].at = "create" /\ step'[d].depth = step[d].depth
    BY <1>1, <2>1 DEF StepType
  <2>3. ~flow[d].live /\ Caller(d)
    BY <1>1, <1>10, <2>1 DEF Calling, InBlock, Caller
  <2> QED  BY <1>8, <2>1, <2>2, <2>3
<1>11. ASSUME NEW i \in Slots, CreateWorker(d, i) PROVE Calling(d)'
  <2>1. step[d].at = "create" /\ flow' = flow /\ step' = [step EXCEPT ![d] = [step[d] EXCEPT !.at = "init", !.w = i]]
    BY <1>11, Zenon DEF CreateWorker
  <2>2. step'[d].at = "init" /\ step'[d].w = i /\ step'[d].depth = step[d].depth
    BY <1>1, <2>1 DEF StepType
  <2>3. ~flow[d].live /\ Caller(d)
    BY <1>1, <1>11, <2>1 DEF Calling, InBlock, Caller
  <2> QED  BY <1>8, <2>1, <2>2, <2>3
<1>12. ASSUME RunSerially(d) PROVE Calling(d)'
  <2>1. step[d].at = "create" /\ flow' = flow /\ step' = [step EXCEPT ![d].at = "out"]
    BY <1>12, Zenon DEF RunSerially, Goto
  <2>2. step'[d].at = "out"
    BY <1>1, <2>1 DEF StepType
  <2>3. ~flow[d].live /\ Caller(d)
    BY <1>1, <1>12, <2>1 DEF Calling, InBlock, Caller
  <2> QED  BY <1>8, <2>1, <2>2, <2>3
<1>13. ASSUME Pill(d) PROVE Calling(d)'
  <2>1. /\ step[d].at = "pill" /\ flow' = flow
        /\ \E x: step' = [step EXCEPT ![d] = [Outside EXCEPT !.failed = x]]
    BY <1>13, Zenon DEF Pill
  <2>2. step'[d].at = "out"
    BY <1>1, <2>1 DEF Outside
  <2>3. ~flow[d].live /\ Caller(d)
    BY <1>1, <1>13, <2>1 DEF Calling, InBlock, Caller
  <2> QED  BY <1>8, <2>1, <2>2, <2>3
<1>14. ASSUME InitBlk(d) PROVE Calling(d)'
  <2>0. step[d].at = "init" /\ Caller(d) /\ step[d].w \in Slots
    BY <1>1, <1>14 DEF InitBlk, Caller, Calling
  <2>1. CASE flow' = flow
    <3>1. \/ step' = [step EXCEPT ![d] = [step[d] EXCEPT !.at = "pill", !.failed = TRUE]]
          \/ step' = [step EXCEPT ![d].at = "feed"] /\ \E g: flow' = [flow EXCEPT ![d] = NewFlow(g, ClientOf(d))]
      BY <1>14, Zenon DEF InitBlk, Goto
    <3>2. ~flow[d].live
      BY <1>1, <2>0 DEF Calling, InBlock
    <3>3. step' = [step EXCEPT ![d] = [step[d] EXCEPT !.at = "pill", !.failed = TRUE]]
      BY <1>1, <2>1, <3>1, <3>2 DEF NewFlow
    <3>4. step'[d].at = "pill" /\ step'[d].depth = step[d].depth
      BY <1>1, <3>3 DEF StepType
    <3> QED  BY <1>8, <2>0, <2>1, <3>2, <3>4
  <2>2. ASSUME NEW g, d \in Slots => g \in Called, Goto(d, "feed"), flow' = [flow EXCEPT ![d] = NewFlow(g, ClientOf(d))]
        PROVE  Calling(d)'
    <3>1. flow'[d].live /\ flow'[d].g = g
      BY <1>1, <2>2 DEF NewFlow
    <3>2. step'[d].at = "feed" /\ step'[d].depth = step[d].depth /\ step'[d].w = step[d].w
      BY <1>1, <2>2 DEF Goto, StepType
    <3>3. d \in Slots => workers'[d].pc = "call" /\ step[d].depth = 2
      BY <1>4, <2>0
    <3> QED  BY <2>0, <2>2, <3>1, <3>2, <3>3 DEF Calling, InBlock
  <2>3. \/ flow' = flow
        \/ /\ Goto(d, "feed")
           /\ \E g \in IF d \in Clients THEN Graphs[d] ELSE Called: flow' = [flow EXCEPT ![d] = NewFlow(g, ClientOf(d))]
    BY <1>14, Zenon DEF InitBlk
  <2> QED  BY <2>1, <2>2, <2>3, Names
(* Within the block.                                                       *)
<1>15. ASSUME Caller(d), flow[d].live, flow'[d].live, flow'[d].g = flow[d].g,
              step'[d].at \in {"feed", "wait", "dispatch"},
              step'[d].at = "dispatch" => /\ flow'[d].f \in Nodes(flow[d].g)
                                          /\ flow'[d].at <= Len(flow[d].g.wake[flow'[d].f]),
              step'[d].w = step[d].w, step'[d].depth = step[d].depth
       PROVE  Calling(d)'
  <2>1. InBlock(d) /\ step[d].w \in Slots /\ Calling(d)
    BY <1>1, <1>15 DEF Calling, InBlock
  <2>2. step[d].at # "out"
    BY <2>1 DEF InBlock
  <2>3. d \in Slots => workers'[d].pc = "call" /\ step[d].depth = 2
    BY <1>4, <1>15, <2>2
  <2> QED  BY <1>15, <2>1, <2>3 DEF Calling, InBlock
<1>16. ASSUME Feed(d) PROVE Calling(d)'
  <2>1. flow[d].live /\ step[d].at = "feed" /\ Caller(d) /\ ~Finish(d)
    BY <1>1, <1>16, ZenonT(30) DEF Feed, Calling, InBlock, Caller, Finish
  <2>2. flow'[d].live /\ flow'[d].g = flow[d].g
    BY <2>1, GoesOn
  <2>3. step' = step \/ step' = [step EXCEPT ![d].at = "wait"]
    BY <1>16, Zenon DEF Feed, Goto
  <2>4. step'[d].at \in {"feed", "wait"} /\ step'[d].w = step[d].w /\ step'[d].depth = step[d].depth
    BY <1>1, <2>1, <2>3 DEF StepType
  <2> QED  BY <1>15, <2>1, <2>2, <2>4
<1>17. ASSUME TakeDone(d) PROVE Calling(d)'
  <2> DEFINE fl == flow[d]
  <2>1. flow[d].live /\ step[d].at = "wait" /\ Caller(d) /\ ~Finish(d)
    BY <1>1, <1>17 DEF TakeDone, Calling, InBlock, Caller, Finish
  <2>2. flow'[d].live /\ flow'[d].g = flow[d].g
    BY <2>1, GoesOn
  <2>3. step' = [step EXCEPT ![d].at = "dispatch"]
    BY <1>17, Zenon DEF TakeDone, Goto
  <2>4. step'[d].at = "dispatch" /\ step'[d].w = step[d].w /\ step'[d].depth = step[d].depth
    BY <1>1, <2>1, <2>3 DEF StepType
  <2>5. /\ flow' = [flow EXCEPT ![d] = [fl EXCEPT !.done = SubSeq(@, 1, Len(@) - 1), !.tasks = @ + 1,
                                                  !.f = fl.done[Len(fl.done)], !.at = 0]]
        /\ fl.done # <<>>
    BY <1>17, Zenon DEF TakeDone
  <2>6. flow'[d].f = fl.done[Len(fl.done)] /\ flow'[d].at = 0
    BY <1>1, <1>2, <2>1, <2>5 DEF FlowType
  <2>7. fl.done[Len(fl.done)] \in Nodes(flow[d].g)
    <3>1. fl.done \in Seq(Nodes(flow[d].g))
      BY <1>2, <2>1 DEF FlowType
    <3> QED  BY <2>5, <3>1, TakenLast
  <2>8. flow[d].g.wake[flow'[d].f] \in Seq(Nodes(flow[d].g))
    BY <1>2, <2>1, <2>6, <2>7, Graph, ZenonT(30)
  <2>9. flow'[d].at <= Len(flow[d].g.wake[flow'[d].f])
    BY <2>6, <2>8
  <2> QED  BY <1>15, <2>1, <2>2, <2>4, <2>6, <2>7, <2>9
<1>18. ASSUME Dispatch(d) PROVE Calling(d)'
  <2>0. step[d].at = "dispatch" /\ step' = step /\ flow[d].at < Len(flow[d].g.wake[flow[d].f]) /\ Caller(d)
    BY <1>18, Zenon DEF Dispatch, Caller
  <2>1. flow[d].live /\ ~Finish(d)
    BY <1>1, <2>0 DEF Calling, InBlock, Finish
  <2>2. flow'[d].live /\ flow'[d].g = flow[d].g
    BY <2>1, GoesOn
  <2>3. /\ flow[d].f \in Nodes(flow[d].g) /\ flow[d].at < Len(flow[d].g.wake[flow[d].f])
        /\ flow[d].at \in Nat
    BY <1>1, <1>2, <2>0, <2>1 DEF Calling, FlowType
  <2>4. flow'[d].f = flow[d].f /\ flow'[d].at = flow[d].at + 1
    BY <1>1, <1>18, DispatchNext
  <2>5. PICK k \in Nat: k = Len(flow[d].g.wake[flow[d].f])
    <3>1. flow[d].g.wake[flow[d].f] \in Seq(Nodes(flow[d].g))
      BY <1>2, <2>1, <2>3, Graph
    <3> QED  BY <3>1
  <2>6. flow[d].at + 1 <= k
    BY <2>3, <2>5, Z3T(60)
  <2>7. flow'[d].at <= Len(flow[d].g.wake[flow'[d].f])
    BY <2>4, <2>5, <2>6
  <2>8. step'[d].at = "dispatch" /\ step'[d].w = step[d].w /\ step'[d].depth = step[d].depth
        /\ flow'[d].f \in Nodes(flow[d].g)
    BY <2>0, <2>3, <2>4
  <2> QED  BY <1>15, <2>0, <2>1, <2>2, <2>7, <2>8
<1>19. ASSUME Dispatched(d) PROVE Calling(d)'
  <2>1. flow[d].live /\ step[d].at = "dispatch" /\ Caller(d) /\ flow' = flow
    BY <1>1, <1>19 DEF Dispatched, Calling, InBlock, Caller
  <2>2. step' = [step EXCEPT ![d].at = "wait"]
    BY <1>19, Zenon DEF Dispatched, Goto
  <2>3. step'[d].at = "wait" /\ step'[d].w = step[d].w /\ step'[d].depth = step[d].depth
    BY <1>1, <2>2 DEF StepType
  <2> QED  BY <1>15, <2>1, <2>3
<1>20. ASSUME Finish(d) PROVE Calling(d)'
  <2>1. /\ step[d].at = "wait" /\ Caller(d) /\ flow' = [flow EXCEPT ![d] = NoFlow]
        /\ step' = [step EXCEPT ![d] = [step[d] EXCEPT !.at = "pill", !.failed = flow[d].error]]
    BY <1>20, Zenon DEF Finish, Caller
  <2>2. step'[d].at = "pill" /\ step'[d].depth = step[d].depth /\ ~flow'[d].live
    BY <1>1, <2>1 DEF StepType, NoFlow
  <2>3. d \in Slots => workers'[d].pc = "call" /\ step[d].depth = 2
    BY <1>4, <2>1
  <2> QED  BY <2>2, <2>3 DEF Calling, InBlock
(* The workers.                                                            *)
<1>21. ASSUME NEW s \in Slots, Worker(s) PROVE Calling(d)'
  <2>1. flow'[d] = flow[d] \/ SameBlock(d)
    BY <1>1, <1>21, WorkerFlow
  <2>2. CASE d # s
    <3>1. step'[d] = step[d] /\ (d \in Slots => workers'[d].pc = workers[d].pc)
      BY <1>1, <1>21, <2>2, WorkerAlone
    <3> QED  BY <1>3, <2>1, <3>1
  <2>3. CASE d = s /\ step[d].at # "out"
    <3>1. workers[s].pc = "call"
      BY <1>1, <2>3 DEF Calling
    <3>2. FALSE
      BY <1>21, <2>3, <3>1, Zenon DEF Worker, At, Start, Gate, Look, Down, PopMine, PopNothing, PopExit, PopAny, Check,
               Call, Ran, Report, Exit
    <3> QED  BY <3>2
  <2>4. CASE d = s /\ step[d].at = "out"
    <3>1. ~flow[d].live
      BY <1>1, <2>4 DEF Calling, InBlock
    <3>2. flow'[d] = flow[d]
      BY <2>1, <3>1 DEF SameBlock
    <3>3. CASE Call(s)
      <4>1. /\ step' = [step EXCEPT ![s] = [Outside EXCEPT !.at = "create", !.depth = 2]]
            /\ Set(s, [workers[s] EXCEPT !.pc = "call"])
        BY <3>3, Zenon DEF Call
      <4>2. step'[d].at = "create" /\ step'[d].depth = 2
        BY <1>1, <2>4, <4>1 DEF Outside
      <4>3. workers[s] \in WorkerType
        BY <1>1, Hands
      <4>4. workers'[s].pc = "call"
        BY <1>1, <4>1, <4>3, SlotSet DEF WorkerType
      <4> QED  BY <2>4, <3>1, <3>2, <4>2, <4>4 DEF Calling, InBlock
    <3>4. CASE ~Call(s)
      <4>1. step' = step \/ step' = [step EXCEPT ![s] = Outside]
        BY <1>21, <3>4, Zenon DEF Worker, Start, Gate, Look, Down, PopMine, PopNothing, PopExit, PopAny, Check,
               Ran, Report, Exit
      <4>2. step'[d].at = "out"
        BY <1>1, <2>4, <4>1 DEF Outside
      <4> QED  BY <3>1, <3>2, <4>2 DEF Calling, InBlock
    <3> QED  BY <3>3, <3>4
  <2> QED  BY <2>2, <2>3, <2>4
<1>22. CASE Stop \/ StopSlot
  <2>1. flow'[d] = flow[d] /\ step'[d] = step[d]
    BY <1>22 DEF Stop, StopSlot
  <2> QED  BY <1>5, <1>22, <2>1
<1>23. CASE Reset
  <2>1. ~flow[d].live /\ step[d].at = "out"
    BY <1>1, <1>23, Quiet DEF Reset
  <2>2. flow' = flow /\ step'[d].at = "out"
    BY <1>1, <1>23, <2>1 DEF Reset, Outside
  <2> QED  BY <2>1, <2>2 DEF Calling, InBlock
<1>24. CASE UNCHANGED vars
  BY <1>3, <1>24 DEF vars
<1> QED  BY <1>6, <1>7, <1>9, <1>10, <1>11, <1>12, <1>13, <1>14, <1>16, <1>17, <1>18, <1>19, <1>20, <1>21,
            <1>22, <1>23, <1>24 DEF Next, Caller, Stopping

LEMMA ControlNext == IInv /\ [Next]_vars => Fresh' /\ Control'
BY FreshNext, CeasedNext, HoldingNext, VacantNext, CallingNext DEF Control
=============================================================================
