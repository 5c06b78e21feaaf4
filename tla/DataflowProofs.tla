--------------------------- MODULE DataflowProofs ---------------------------
(***************************************************************************)
(* Proofs about Dataflow: where the instructions of the blocks are, that   *)
(* one that was started is run, and their order; the invariant, and the    *)
(* properties that follow from it; the tokens of todo, the number of       *)
(* workers and their clients.                                              *)
(***************************************************************************)
EXTENDS DataflowControl

-----------------------------------------------------------------------------
(* The instructions move.                                                  *)

(* A step that leaves the queues and hands alone, and in the blocks what   *)
(* is not about what started.                                              *)
Alike(c) ==
    /\ flow'[c].live <=> flow[c].live
    /\ flow[c].live => /\ flow'[c].g = flow[c].g /\ flow'[c].done = flow[c].done
                       /\ flow'[c].tasks = flow[c].tasks
                       /\ \A n \in Nodes(flow[c].g):
                            flow'[c].state[n] = "pending" <=> flow[c].state[n] = "pending"

LEMMA NothingMoved ==
  ASSUME TypeOK, Owned, Movement, Counts, UNCHANGED <<todo, Fe, Nx>>, \A c \in Callers: Alike(c)
  PROVE  /\ Owned' /\ Movement' /\ Counts'
         /\ \A c \in Callers: flow[c].live => Settled(c)' = Settled(c)
<1>1. \A c \in Callers: /\ flow'[c].live <=> flow[c].live
                        /\ flow[c].live => flow'[c].g = flow[c].g /\ flow'[c].done = flow[c].done
  BY DEF Alike
<1>2. \A e: Held(e)' <=> Held(e)
  BY DEF Held
<1>3. Owned'
  BY <1>1, <1>2 DEF Owned, OfBlock, Events
<1>4. ASSUME NEW c \in Callers, flow[c].live, NEW n PROVE Placed(c, n)' <=> Placed(c, n)
  BY <1>1, <1>2, <1>4 DEF Placed
<1>5. ASSUME NEW c \in Callers, flow[c].live PROVE Settled(c)' = Settled(c)
  BY <1>4, <1>5 DEF Settled, Alike
<1>6. Counts'
  <2>1. ASSUME NEW c \in Callers, flow'[c].live PROVE Cardinality(Settled(c)') = flow'[c].tasks
    BY <1>1, <1>5, <2>1 DEF Counts, Alike
  <2> QED  BY <2>1 DEF Counts
<1>7. Movement'
  <2>1. ASSUME NEW c \in Callers, flow'[c].live PROVE DoneApart(c)' /\ PlacedStarted(c)'
    <3>1. flow[c].live /\ DoneApart(c) /\ PlacedStarted(c)
      BY <1>1, <2>1 DEF Movement
    <3>2. DoneApart(c)'
      BY <1>1, <1>2, <3>1 DEF DoneApart
    <3>3. PlacedStarted(c)'
      BY <1>1, <1>4, <3>1 DEF PlacedStarted, Alike
    <3> QED  BY <3>2, <3>3
  <2>2. Distinct(todo') /\ \A s, t \in Slots: HandsApart(s, t)'
    BY DEF Movement, HandsApart
  <2>3. \A s \in Slots: OffQueue(s)'
    BY DEF Movement, OffQueue
  <2> QED  BY <2>1, <2>2, <2>3 DEF Movement
<1> QED  BY <1>3, <1>5, <1>6, <1>7, ZenonT(60)

(* An instruction that starts goes to the end of todo.                     *)
Starts(c, i) ==
    /\ flow[c].live /\ flow'[c].live /\ flow'[c].g = flow[c].g /\ flow'[c].done = flow[c].done
    /\ flow'[c].tasks = flow[c].tasks
    /\ i \in Nodes(flow[c].g) /\ flow[c].state[i] = "pending"
    /\ \A n \in Nodes(flow[c].g):
         flow'[c].state[n] = "pending" <=> n # i /\ flow[c].state[n] = "pending"
    /\ \A d \in Callers \ {c}: flow'[d] = flow[d]

LEMMA StartsFree ==
  ASSUME TypeOK, Owned, Movement, Counts, NEW c \in Callers, NEW i, Starts(c, i)
  PROVE  /\ ~Held(<<c, i>>) /\ ~InSeq(i, flow[c].done)
         /\ \A d \in Callers: flow'[d].live <=> flow[d].live
         /\ \A d \in Callers: flow[d].live => flow'[d].g = flow[d].g /\ flow'[d].done = flow[d].done
                                              /\ flow'[d].tasks = flow[d].tasks
         /\ \A e \in Events: OfBlock(e) => OfBlock(e)'
         /\ OfBlock(<<c, i>>)' /\ <<c, i>> \in Events
<1>1. ~Placed(c, i)
  BY DEF Starts, Movement, PlacedStarted
<1>2. /\ \A d \in Callers: flow'[d].live <=> flow[d].live
      /\ \A d \in Callers: flow[d].live => flow'[d].g = flow[d].g /\ flow'[d].done = flow[d].done
                                           /\ flow'[d].tasks = flow[d].tasks
  BY DEF Starts
<1>3. ASSUME NEW e \in Events, OfBlock(e) PROVE OfBlock(e)'
  BY <1>2, <1>3 DEF OfBlock, Events
<1>4. i \in Nat
  BY Live, Graph DEF Starts
<1>5. OfBlock(<<c, i>>)' /\ <<c, i>> \in Events
  BY <1>2, <1>4 DEF OfBlock, Starts, Events
<1> QED  BY <1>1, <1>2, <1>3, <1>5 DEF Placed

(* The blocks after a start, given who holds what after it.                *)
LEMMA StartsBlocks ==
  ASSUME TypeOK, Owned, Movement, Counts, NEW c \in Callers, NEW i, Starts(c, i),
         \A x \in Events: Held(x)' <=> Held(x) \/ x = <<c, i>>
  PROVE  /\ Owned' /\ Counts'
         /\ \A d \in Callers: flow'[d].live => DoneApart(d)' /\ PlacedStarted(d)'
         /\ \A d \in Callers: flow[d].live => Settled(d)' = Settled(d)
<1> DEFINE e == <<c, i>>
<1>1. /\ ~Held(e) /\ ~InSeq(i, flow[c].done)
      /\ \A d \in Callers: flow'[d].live <=> flow[d].live
      /\ \A d \in Callers: flow[d].live => flow'[d].g = flow[d].g /\ flow'[d].done = flow[d].done
                                           /\ flow'[d].tasks = flow[d].tasks
      /\ \A x \in Events: OfBlock(x) => OfBlock(x)'
      /\ OfBlock(e)' /\ e \in Events
  BY StartsFree
<1>2. \A x \in Events: Held(x)' <=> Held(x) \/ x = e
  OBVIOUS
<1> HIDE DEF e
<1>3. \A d \in Callers: flow[d].live => \A n \in Nodes(flow[d].g): <<d, n>> \in Events
  BY Live, Graph DEF Events
<1>4. Owned'
  <2>1. ASSUME NEW x \in Events, Held(x)' PROVE OfBlock(x)'
    BY <1>1, <1>2, <2>1 DEF Owned
  <2> QED  BY <2>1 DEF Owned
<1>5. ASSUME NEW d \in Callers, flow[d].live, NEW n \in Nodes(flow[d].g)
      PROVE  Placed(d, n)' <=> Placed(d, n) \/ <<d, n>> = e
  BY <1>1, <1>2, <1>3, <1>5 DEF Placed
<1>6. ASSUME NEW d \in Callers, flow[d].live, NEW n \in Nodes(flow[d].g)
      PROVE  flow'[d].state[n] = "pending" <=> flow[d].state[n] = "pending" /\ <<d, n>> # e
  BY <1>6 DEF Starts, e
<1>7. ASSUME NEW d \in Callers, flow[d].live PROVE Settled(d)' = Settled(d)
  <2>1. flow[c].state[i] = "pending"
    BY DEF Starts
  <2>2. \A n \in Nodes(flow[d].g): <<d, n>> = e => flow[d].state[n] = "pending"
    BY <2>1 DEF e
  <2> QED  BY <1>1, <1>5, <1>6, <1>7, <2>2 DEF Settled
<1>8. Counts'
  <2>1. ASSUME NEW d \in Callers, flow'[d].live PROVE Cardinality(Settled(d)') = flow'[d].tasks
    BY <1>1, <1>7, <2>1 DEF Counts
  <2> QED  BY <2>1 DEF Counts
<1>9. ASSUME NEW d \in Callers, flow'[d].live PROVE DoneApart(d)' /\ PlacedStarted(d)'
    <3>1. flow[d].live /\ DoneApart(d) /\ PlacedStarted(d) /\ flow'[d].g = flow[d].g /\ flow'[d].done = flow[d].done
      BY <1>1, <1>9 DEF Movement
    <3>2. \A n \in Nodes(flow[d].g): InSeq(n, flow[d].done) => <<d, n>> # e
      BY <1>1 DEF e
    <3>3. DoneApart(d)'
      BY <1>2, <1>3, <3>1, <3>2 DEF DoneApart
    <3>4. PlacedStarted(d)'
      BY <1>5, <1>6, <3>1 DEF PlacedStarted
    <3> QED  BY <3>3, <3>4
<1> QED  BY <1>4, <1>7, <1>8, <1>9

LEMMA Queued ==
  ASSUME TypeOK, Owned, Movement, Counts, NEW c \in Callers, NEW i, Starts(c, i),
         todo' = Append(todo, <<c, i>>), UNCHANGED <<Fe, Nx>>
  PROVE  /\ Owned' /\ Movement' /\ Counts'
         /\ \A d \in Callers: flow[d].live => Settled(d)' = Settled(d)
<1> DEFINE e == <<c, i>>
<1>1. ~Held(e) /\ e \in Events
  BY StartsFree
<1> HIDE DEF e
<1>2. /\ \A x: InSeq(x, todo') <=> InSeq(x, todo) \/ x = e
      /\ Distinct(todo')
  <2>1. todo \in Seq(Events) /\ ~InSeq(e, todo) /\ Distinct(todo) /\ todo' = Append(todo, e)
    BY <1>1 DEF TypeOK, Held, Movement, e
  <2> QED  BY <1>1, <2>1, Appended, SMTT(60)
<1>3. \A x: Held(x)' <=> Held(x) \/ x = e
  BY <1>2 DEF Held
<1>4. /\ Owned' /\ Counts'
      /\ \A d \in Callers: flow'[d].live => DoneApart(d)' /\ PlacedStarted(d)'
      /\ \A d \in Callers: flow[d].live => Settled(d)' = Settled(d)
  BY <1>3, StartsBlocks DEF e
<1>5. \A s, t \in Slots: HandsApart(s, t)'
  BY DEF Movement, HandsApart
<1>6. \A s \in Slots: OffQueue(s)'
  BY <1>1, <1>2 DEF Movement, OffQueue, Held
<1> QED  BY <1>2, <1>4, <1>5, <1>6 DEF Movement

(* A worker picks it.                                                      *)
LEMMA PickedUp ==
  ASSUME TypeOK, Owned, Movement, Counts, NEW c \in Callers, NEW i, Starts(c, i),
         NEW s \in Slots, Nx[s] = Nobody, Nx' = [Nx EXCEPT ![s] = <<c, i>>], UNCHANGED <<todo, Fe>>
  PROVE  /\ Owned' /\ Movement' /\ Counts'
         /\ \A d \in Callers: flow[d].live => Settled(d)' = Settled(d)
<1> DEFINE e == <<c, i>>
<1>1. ~Held(e) /\ e \in Events /\ e # Nobody /\ Nobody \notin Events
  BY StartsFree, Names
<1>2. \A t \in Slots: Nx'[t] = IF t = s THEN e ELSE Nx[t]
  BY DEF Nx
<1> HIDE DEF e
<1>3. \A x \in Events: Held(x)' <=> Held(x) \/ x = e
  BY <1>1, <1>2 DEF Held
<1>4. /\ Owned' /\ Counts'
      /\ \A d \in Callers: flow'[d].live => DoneApart(d)' /\ PlacedStarted(d)'
      /\ \A d \in Callers: flow[d].live => Settled(d)' = Settled(d)
  BY <1>3, StartsBlocks DEF e
<1>5. ASSUME NEW t \in Slots, NEW u \in Slots PROVE HandsApart(t, u)'
  <2>1. HandsApart(t, u)
    BY DEF Movement
  <2>2. Fe[t] # e /\ Nx[t] # e /\ Nx[u] # e
    BY <1>1 DEF Held
  <2> QED  BY <1>2, <2>1, <2>2 DEF HandsApart
<1>6. \A t \in Slots: OffQueue(t)'
  BY <1>1, <1>2 DEF Movement, OffQueue, Held
<1> QED  BY <1>4, <1>5, <1>6 DEF Movement

(* A worker takes it from todo.                                            *)
LEMMA TakenUp ==
  ASSUME TypeOK, Owned, Movement, Counts, NEW s \in Slots, Fe[s] = Nobody, NEW i \in 1 .. Len(todo),
         Takes(s, i)
  PROVE  /\ Owned' /\ Movement' /\ Counts'
         /\ \A d \in Callers: flow[d].live => Settled(d)' = Settled(d)
<1> DEFINE e == todo[i]
<1>1. /\ e \in Events /\ InSeq(e, todo)
      /\ \A x: InSeq(x, todo) <=> InSeq(x, todo') \/ x = e
      /\ Distinct(todo') /\ ~InSeq(e, todo') /\ flow' = flow
      /\ Set(s, [workers[s] EXCEPT !.pc = "got", !.fe = e])
  BY DEF Takes, Movement
<1>2. e # Nobody /\ Nobody \notin Events
  BY <1>1, Names
<1> HIDE DEF e
<1>3. (\A t \in Slots: Fe'[t] = IF t = s THEN e ELSE Fe[t]) /\ Nx' = Nx
  <2> DEFINE w == [workers[s] EXCEPT !.pc = "got", !.fe = e]
  <2>1. w.fe = e /\ w.fnxt = Nx[s]
    BY Hands DEF WorkerType
  <2>2. Set(s, w)
    BY <1>1
  <2> HIDE DEF w
  <2>3. Fe' = [Fe EXCEPT ![s] = w.fe] /\ Nx' = [Nx EXCEPT ![s] = w.fnxt]
    BY <2>2, SlotSet
  <2> QED  BY <2>1, <2>3 DEF Fe, Nx
<1>4. \A x \in Events: Held(x)' <=> Held(x)
  BY <1>1, <1>2, <1>3 DEF Held
<1>5. \A d \in Callers: flow[d].live => \A n \in Nodes(flow[d].g): <<d, n>> \in Events
  BY Live, Graph DEF Events
<1>6. Owned'
  BY <1>1, <1>4 DEF Owned, OfBlock
<1>7. ASSUME NEW d \in Callers, flow[d].live
      PROVE  /\ \A n \in Nodes(flow[d].g): Placed(d, n)' <=> Placed(d, n)
             /\ Settled(d)' = Settled(d)
  <2>1. \A n \in Nodes(flow[d].g): Placed(d, n)' <=> Placed(d, n)
    BY <1>1, <1>4, <1>5, <1>7 DEF Placed
  <2> QED  BY <1>1, <2>1 DEF Settled
<1>8. Counts'
  BY <1>1, <1>7 DEF Counts
<1>9. ASSUME NEW d \in Callers, flow'[d].live PROVE DoneApart(d)' /\ PlacedStarted(d)'
  <2>1. flow[d].live /\ DoneApart(d) /\ PlacedStarted(d)
    BY <1>1, <1>9 DEF Movement
  <2>2. DoneApart(d)'
    BY <1>1, <1>4, <1>5, <2>1 DEF DoneApart
  <2>3. PlacedStarted(d)'
    BY <1>1, <1>7, <2>1 DEF PlacedStarted
  <2> QED  BY <2>2, <2>3
<1>10. ASSUME NEW t \in Slots, NEW u \in Slots PROVE HandsApart(t, u)'
  <2>1. HandsApart(t, u)
    BY DEF Movement
  <2>2. \A r \in Slots: Fe[r] # e /\ Nx[r] # e
    BY <1>1, <1>2 DEF Movement, OffQueue
  <2> QED  BY <1>3, <2>1, <2>2 DEF HandsApart
<1>11. \A t \in Slots: OffQueue(t)'
  BY <1>1, <1>3 DEF Movement, OffQueue
<1> QED  BY <1>1, <1>6, <1>7, <1>8, <1>9, <1>10, <1>11 DEF Movement

(* A worker hands its instruction over, and goes on with the one it picked.*)
Reports(s, c, n) ==
    /\ c \in Callers /\ flow[c].live /\ n \in Nodes(flow[c].g) /\ <<c, n>> \in Events
    /\ Fe[s] = <<c, n>> /\ workers[s].pc = "report"
    /\ flow'[c].live /\ flow'[c].done = Append(flow[c].done, n)
    /\ SameBlock(c) /\ flow'[c].state = flow[c].state /\ flow'[c].blocks = flow[c].blocks
    /\ flow'[c].error = flow[c].error
    /\ \A d \in Callers \ {c}: flow'[d] = flow[d]
    /\ \A t \in Slots: Fe'[t] = IF t = s THEN Nx[s] ELSE Fe[t]
    /\ \A t \in Slots: Nx'[t] = IF t = s THEN Nobody ELSE Nx[t]
    /\ \A t \in Slots \ {s}: workers'[t] = workers[t]
    /\ workers'[s].pc = IF Nx[s] # Nobody THEN "got" ELSE "loop"
    /\ UNCHANGED <<todo, step>>

LEMMA Reporting ==
  ASSUME TypeOK, Control, Owned, NEW s \in Slots, Report(s)
  PROVE  Reports(s, Fe[s][1], Fe[s][2])
<1> USE DEF queue, pool, bounds
<1> DEFINE e == workers[s].fe
           c == e[1]
           n == e[2]
           nxt == workers[s].fnxt
           w == [workers[s] EXCEPT !.pc = IF nxt # Nobody THEN "got" ELSE "loop", !.fe = nxt, !.fnxt = Nobody]
<1>1. /\ c \in Callers /\ e \in Events /\ flow[c].live /\ flow[c].g \in Blocks
      /\ flow[c] \in FlowType(flow[c].g) /\ n \in Nodes(flow[c].g) /\ e = <<c, n>> /\ Fe[s] = e
  BY Carried, ZenonT(60) DEF Report, At, Running, OfBlock
<1>2. /\ flow' = [flow EXCEPT ![c].done = Append(@, n)] /\ UNCHANGED <<todo, step>>
      /\ workers[s].pc = "report"
  BY Zenon DEF Report, At
<1>3. Set(s, w)
  BY Zenon DEF Report, Forgotten
<1>4. w.fe = nxt /\ w.fnxt = Nobody /\ w.pc = (IF nxt # Nobody THEN "got" ELSE "loop") /\ nxt = Nx[s]
  BY Hands DEF WorkerType
<1> HIDE DEF w
<1>5. /\ \A t \in Slots: workers'[t] = IF t = s THEN w ELSE workers[t]
      /\ Fe' = [Fe EXCEPT ![s] = w.fe] /\ Nx' = [Nx EXCEPT ![s] = w.fnxt]
  BY <1>3, SlotSet
<1>6. /\ \A t \in Slots: Fe'[t] = IF t = s THEN Nx[s] ELSE Fe[t]
      /\ \A t \in Slots: Nx'[t] = IF t = s THEN Nobody ELSE Nx[t]
      /\ \A t \in Slots \ {s}: workers'[t] = workers[t]
      /\ workers'[s].pc = IF Nx[s] # Nobody THEN "got" ELSE "loop"
  BY <1>4, <1>5 DEF Fe, Nx
<1> HIDE DEF c, n, e, nxt
<1>7. /\ flow'[c].live /\ flow'[c].done = Append(flow[c].done, n)
      /\ SameBlock(c) /\ flow'[c].state = flow[c].state /\ flow'[c].blocks = flow[c].blocks
      /\ flow'[c].error = flow[c].error
      /\ \A d \in Callers \ {c}: flow'[d] = flow[d]
  BY <1>1, <1>2 DEF FlowType, TypeOK, SameBlock
<1>8. Reports(s, c, n)
  BY <1>1, <1>2, <1>6, <1>7, Zenon DEF Reports
<1>9. c = Fe[s][1] /\ n = Fe[s][2]
  BY <1>1
<1> QED  BY <1>8, <1>9

LEMMA HandedOver ==
  ASSUME TypeOK, Owned, Movement, Counts, NEW s \in Slots, NEW c, NEW n, Reports(s, c, n)
  PROVE  /\ Owned' /\ Movement' /\ Counts'
         /\ \A d \in Callers: flow[d].live => Settled(d)' = Settled(d)
<1> DEFINE e == <<c, n>>
<1>1. /\ c \in Callers /\ flow[c].live /\ n \in Nodes(flow[c].g) /\ e \in Events
      /\ Fe[s] = e /\ flow'[c].live /\ flow'[c].done = Append(flow[c].done, n) /\ flow'[c].g = flow[c].g
      /\ flow'[c].state = flow[c].state /\ flow'[c].tasks = flow[c].tasks
      /\ \A d \in Callers \ {c}: flow'[d] = flow[d]
      /\ \A t \in Slots: Fe'[t] = IF t = s THEN Nx[s] ELSE Fe[t]
      /\ \A t \in Slots: Nx'[t] = IF t = s THEN Nobody ELSE Nx[t]
      /\ todo' = todo
  BY Zenon DEF Reports, SameBlock
<1>2. e # Nobody /\ Nobody \notin Events
  BY <1>1, Names
<1>3. /\ \A d \in Callers: /\ flow'[d].live <=> flow[d].live
                           /\ flow[d].live => flow'[d].g = flow[d].g /\ flow'[d].state = flow[d].state
                                              /\ flow'[d].tasks = flow[d].tasks
      /\ \A d \in Callers: flow[d].live => \A m \in Nodes(flow[d].g): <<d, m>> \in Events
  BY <1>1, Live, Graph DEF Events
<1>4. ~InSeq(e, todo) /\ (\A t \in Slots: t # s => Fe[t] # e) /\ (\A t \in Slots: Nx[t] # e)
  BY <1>1, <1>2, Z3T(30) DEF Movement, OffQueue, HandsApart
<1>5. /\ Distinct(flow'[c].done)
      /\ \A x: InSeq(x, flow'[c].done) <=> InSeq(x, flow[c].done) \/ x = n
  <2>1. flow[c].done \in Seq(Nodes(flow[c].g))
    BY <1>1, Live DEF FlowType
  <2>2. Distinct(flow[c].done) /\ ~InSeq(n, flow[c].done)
    BY <1>1 DEF Movement, DoneApart, Held
  <2> QED  BY <1>1, <2>1, <2>2, Appended
<1>6. ASSUME NEW d \in Callers, d # c, flow[d].live, NEW m \in Nodes(flow[d].g)
      PROVE  <<d, m>> # e /\ flow'[d].done = flow[d].done
  BY <1>1, <1>6
<1>7. \A m: <<c, m>> = e <=> m = n
  OBVIOUS
<1> HIDE DEF e
<1>8. \A x \in Events: Held(x)' <=> Held(x) /\ x # e
  BY <1>1, <1>2, <1>4 DEF Held
<1>9. Owned'
  BY <1>3, <1>8 DEF Owned, OfBlock, Events
<1>10. ASSUME NEW d \in Callers, flow[d].live, NEW m \in Nodes(flow[d].g)
       PROVE  Placed(d, m)' <=> Placed(d, m)
  <2>1. CASE d = c
    <3>1. Held(e)
      BY <1>1 DEF Held
    <3> QED  BY <1>3, <1>5, <1>7, <1>8, <1>10, <2>1, <3>1 DEF Placed
  <2>2. CASE d # c
    BY <1>3, <1>6, <1>8, <1>10, <2>2 DEF Placed
  <2> QED  BY <2>1, <2>2
<1>11. \A d \in Callers: flow[d].live => Settled(d)' = Settled(d)
  BY <1>3, <1>10 DEF Settled
<1>12. Counts'
  BY <1>3, <1>11 DEF Counts
<1>13. ASSUME NEW d \in Callers, flow'[d].live PROVE DoneApart(d)' /\ PlacedStarted(d)'
  <2>1. flow[d].live /\ DoneApart(d) /\ PlacedStarted(d)
    BY <1>3, <1>13 DEF Movement
  <2>2. DoneApart(d)'
    <3>1. CASE d = c
      BY <1>3, <1>5, <1>7, <1>8, <2>1, <3>1 DEF DoneApart
    <3>2. CASE d # c
      BY <1>1, <1>3, <1>8, <2>1, <3>2, ZenonT(30) DEF DoneApart
    <3> QED  BY <3>1, <3>2
  <2>3. PlacedStarted(d)'
    BY <1>3, <1>10, <2>1 DEF PlacedStarted
  <2> QED  BY <2>2, <2>3
<1>14. ASSUME NEW t \in Slots, NEW u \in Slots PROVE HandsApart(t, u)'
  <2>1. \A p, q \in Slots: HandsApart(p, q)
    BY DEF Movement
  <2> QED  BY <1>1, <2>1 DEF HandsApart
<1>15. \A t \in Slots: OffQueue(t)'
  BY <1>1 DEF Movement, OffQueue
<1>16. Distinct(todo')
  BY <1>1 DEF Movement
<1> QED  BY <1>9, <1>11, <1>12, <1>13, <1>14, <1>15, <1>16 DEF Movement

(* The scheduler takes it from done and counts it.                         *)
Counting(c) ==
    /\ flow[c].live /\ flow[c].g \in Blocks /\ step[c].at = "wait" /\ step'[c].at = "dispatch"
    /\ flow'[c].live /\ flow'[c].g = flow[c].g /\ flow'[c].state = flow[c].state
    /\ flow'[c].blocks = flow[c].blocks /\ flow'[c].error = flow[c].error
    /\ flow'[c].tasks = flow[c].tasks + 1 /\ flow'[c].at = 0
    /\ flow'[c].f \in Nodes(flow[c].g)
    /\ InSeq(flow'[c].f, flow[c].done)
    /\ \A x: InSeq(x, flow[c].done) <=> InSeq(x, flow'[c].done) \/ x = flow'[c].f
    /\ Distinct(flow[c].done) => Distinct(flow'[c].done) /\ ~InSeq(flow'[c].f, flow'[c].done)
    /\ \A d \in Callers \ {c}: flow'[d] = flow[d] /\ step'[d] = step[d]
    /\ UNCHANGED <<todo, workers>>

LEMMA CountsOne ==
  ASSUME TypeOK, Control, NEW c \in Callers, TakeDone(c)
  PROVE  Counting(c)
<1> USE DEF queue, pool, bounds
<1> DEFINE fl == flow[c]
           q == fl.done
           r == SubSeq(q, 1, Len(q) - 1)
           f == q[Len(q)]
<1>1. /\ step[c].at = "wait" /\ q # <<>> /\ UNCHANGED <<todo, workers>>
      /\ step' = [step EXCEPT ![c].at = "dispatch"]
      /\ flow' = [flow EXCEPT ![c] = [fl EXCEPT !.done = SubSeq(@, 1, Len(@) - 1), !.tasks = @ + 1,
                                                !.f = f, !.at = 0]]
  BY Zenon DEF TakeDone, Goto
<1>2. fl.live /\ fl.g \in Blocks /\ fl \in FlowType(fl.g) /\ q \in Seq(Nodes(fl.g))
  BY <1>1, Live DEF Control, Calling, InBlock, FlowType
<1>3. flow' = [flow EXCEPT ![c] = [fl EXCEPT !.done = r, !.tasks = fl.tasks + 1, !.f = f, !.at = 0]]
  BY <1>1, <1>2 DEF FlowType
<1>4. /\ f \in Nodes(fl.g) /\ InSeq(f, q)
      /\ \A x: InSeq(x, q) <=> InSeq(x, r) \/ x = f
      /\ Distinct(q) => Distinct(r) /\ ~InSeq(f, r)
  <2>1. /\ Len(q) \in 1 .. Len(q) /\ r \in Seq(Nodes(fl.g)) /\ Len(r) = Len(q) - 1
        /\ \A j \in 1 .. Len(r): r[j] = IF j < Len(q) THEN q[j] ELSE q[j + 1]
    BY <1>1, <1>2, TakenLast
  <2>2. f \in Nodes(fl.g)
    BY <1>2, <2>1
  <2> HIDE DEF q, r
  <2>3. PICK i \in 1 .. Len(q): i = Len(q)
    BY <2>1
  <2>4. Len(r) = Len(q) - 1 /\ \A j \in 1 .. Len(r): r[j] = IF j < i THEN q[j] ELSE q[j + 1]
    BY <2>1, <2>3
  <2>5. /\ \A x: InSeq(x, r) => InSeq(x, q)
        /\ \A x: InSeq(x, q) => InSeq(x, r) \/ x = q[i]
        /\ InSeq(q[i], q)
        /\ Distinct(q) => Distinct(r) /\ ~InSeq(q[i], r)
    BY <1>2, <2>1, <2>4, TakenOut, Z3T(30)
  <2> QED  BY <2>2, <2>3, <2>5
<1> HIDE DEF q, r, f
<1>5. /\ flow'[c].live /\ flow'[c].g = fl.g /\ flow'[c].state = fl.state
      /\ flow'[c].blocks = fl.blocks /\ flow'[c].error = fl.error
      /\ flow'[c].tasks = fl.tasks + 1 /\ flow'[c].at = 0 /\ flow'[c].f = f /\ flow'[c].done = r
      /\ \A d \in Callers \ {c}: flow'[d] = flow[d]
  BY <1>2, <1>3 DEF FlowType, TypeOK
<1>6. step'[c].at = "dispatch" /\ \A d \in Callers \ {c}: step'[d] = step[d]
  BY <1>1 DEF TypeOK, StepType
<1> QED  BY <1>1, <1>2, <1>4, <1>5, <1>6, Zenon DEF Counting, q

LEMMA CountedOne ==
  ASSUME TypeOK, Owned, Movement, Counts, NEW c \in Callers, Counting(c)
  PROVE  /\ Owned' /\ Movement' /\ Counts'
         /\ Settled(c)' = Settled(c) \cup {flow'[c].f} /\ flow'[c].f \notin Settled(c)
         /\ \A d \in Callers \ {c}: flow[d].live => Settled(d)' = Settled(d)
<1> DEFINE f == flow'[c].f
           q == flow[c].done
           r == flow'[c].done
<1>1. /\ flow[c].live /\ flow[c].g \in Blocks /\ flow'[c].live /\ flow'[c].g = flow[c].g
      /\ flow'[c].state = flow[c].state /\ flow'[c].tasks = flow[c].tasks + 1
      /\ f \in Nodes(flow[c].g) /\ InSeq(f, q)
      /\ \A x: InSeq(x, q) <=> InSeq(x, r) \/ x = f
      /\ Distinct(q) => Distinct(r) /\ ~InSeq(f, r)
      /\ \A d \in Callers \ {c}: flow'[d] = flow[d]
      /\ UNCHANGED <<todo, Fe, Nx>>
  BY DEF Counting, Fe, Nx
<1>2. Distinct(q) /\ ~Held(<<c, f>>) /\ flow[c].state[f] # "pending" /\ Placed(c, f)
  BY <1>1 DEF Movement, DoneApart, PlacedStarted, Placed
<1> HIDE DEF f, q, r
<1>3. \A x: Held(x)' <=> Held(x)
  BY <1>1 DEF Held
<1>4. Owned'
  BY <1>1, <1>3 DEF Owned, OfBlock, Events
<1>5. \A n: Placed(c, n)' <=> Placed(c, n) /\ n # f
  BY <1>1, <1>2, <1>3 DEF Placed, q, r
<1>6. /\ Settled(c)' = Settled(c) \cup {f} /\ f \notin Settled(c)
  BY <1>1, <1>2, <1>5 DEF Settled
<1>7. ASSUME NEW d \in Callers, d # c
      PROVE  flow'[d] = flow[d] /\ (\A n: Placed(d, n)' <=> Placed(d, n)) /\ Settled(d)' = Settled(d)
  <2>1. flow'[d] = flow[d] /\ \A n: Placed(d, n)' <=> Placed(d, n)
    BY <1>1, <1>3, <1>7 DEF Placed
  <2> QED  BY <2>1 DEF Settled
<1>8. Counts'
  <2>1. ASSUME NEW d \in Callers, flow'[d].live PROVE Cardinality(Settled(d)') = flow'[d].tasks
    <3>1. CASE d = c
      <4>1. IsFiniteSet(Settled(c))
        <5>1. Settled(c) \in SUBSET Nodes(flow[c].g)
          BY DEF Settled
        <5>2. IsFiniteSet(Nodes(flow[c].g))
          BY <1>1, Graph, FS_Interval
        <5> QED  BY <5>1, <5>2, FS_Subset
      <4>2. Cardinality(Settled(c) \cup {f}) = Cardinality(Settled(c)) + 1
        BY <1>6, <4>1, FS_AddElement
      <4>3. Cardinality(Settled(c)) = flow[c].tasks
        BY <1>1 DEF Counts
      <4> QED  BY <1>1, <1>6, <3>1, <4>2, <4>3
    <3>2. CASE d # c
      BY <1>7, <2>1, <3>2 DEF Counts
    <3> QED  BY <3>1, <3>2
  <2> QED  BY <2>1 DEF Counts
<1>9. ASSUME NEW d \in Callers, flow'[d].live PROVE DoneApart(d)' /\ PlacedStarted(d)'
  <2>1. flow[d].live /\ DoneApart(d) /\ PlacedStarted(d)
    BY <1>1, <1>7, <1>9 DEF Movement
  <2>2. CASE d = c
    <3>1. DoneApart(d)'
      BY <1>1, <1>3, <2>1, <2>2 DEF DoneApart, q, r
    <3>2. PlacedStarted(d)'
      BY <1>1, <1>5, <2>1, <2>2 DEF PlacedStarted
    <3> QED  BY <3>1, <3>2
  <2>3. CASE d # c
    <3>1. DoneApart(d)'
      BY <1>3, <1>7, <2>1, <2>3 DEF DoneApart
    <3>2. PlacedStarted(d)'
      BY <1>7, <2>1, <2>3 DEF PlacedStarted
    <3> QED  BY <3>1, <3>2
  <2> QED  BY <2>2, <2>3
<1>10. Distinct(todo') /\ (\A s, t \in Slots: HandsApart(s, t)') /\ \A s \in Slots: OffQueue(s)'
  BY <1>1 DEF Movement, HandsApart, OffQueue
<1> QED  BY <1>4, <1>6, <1>7, <1>8, <1>9, <1>10 DEF Movement, f

(* A block begins: nobody holds anything of it.                            *)
LEMMA Opened ==
  ASSUME TypeOK, Owned, Movement, Counts, NEW c \in Callers, ~flow[c].live, NEW g \in Blocks, NEW k,
         flow' = [flow EXCEPT ![c] = NewFlow(g, k)], UNCHANGED <<todo, workers>>
  PROVE  /\ Owned' /\ Movement' /\ Counts' /\ Settled(c)' = {}
         /\ \A d \in Callers \ {c}: flow[d].live => Settled(d)' = Settled(d)
<1>1. /\ flow'[c].live /\ flow'[c].g = g /\ flow'[c].done = <<>> /\ flow'[c].tasks = 0
      /\ \A n \in Nodes(g): flow'[c].state[n] = "pending"
      /\ \A d \in Callers \ {c}: flow'[d] = flow[d]
      /\ UNCHANGED <<todo, Fe, Nx>>
  BY DEF NewFlow, TypeOK, Fe, Nx
<1>2. \A x: Held(x)' <=> Held(x)
  BY <1>1 DEF Held
<1>3. \A e \in Events: Held(e) => e[1] # c
  BY DEF Owned, OfBlock
<1>4. Owned'
  BY <1>1, <1>2, <1>3 DEF Owned, OfBlock, Events
<1>5. \A n \in Nodes(g): ~Placed(c, n)'
  <2>1. \A n \in Nodes(g): <<c, n>> \in Events
    BY Graph DEF Events
  <2>2. \A n: ~InSeq(n, flow'[c].done)
    BY <1>1 DEF InSeq
  <2> QED  BY <1>2, <1>3, <2>1, <2>2 DEF Placed
<1>6. Settled(c)' = {}
  BY <1>1 DEF Settled
<1>7. ASSUME NEW d \in Callers, d # c
      PROVE  flow'[d] = flow[d] /\ (\A n: Placed(d, n)' <=> Placed(d, n)) /\ Settled(d)' = Settled(d)
  <2>1. flow'[d] = flow[d] /\ \A n: Placed(d, n)' <=> Placed(d, n)
    BY <1>1, <1>2, <1>7 DEF Placed
  <2> QED  BY <2>1 DEF Settled
<1>8. Counts'
  BY <1>1, <1>6, <1>7, FS_EmptySet, ZenonT(60) DEF Counts
<1>9. ASSUME NEW d \in Callers, flow'[d].live PROVE DoneApart(d)' /\ PlacedStarted(d)'
  <2>1. CASE d = c
    BY <1>1, <1>5, <2>1 DEF DoneApart, PlacedStarted, Distinct, InSeq
  <2>2. CASE d # c
    <3>1. flow[d].live /\ DoneApart(d) /\ PlacedStarted(d)
      BY <1>7, <1>9, <2>2 DEF Movement
    <3> QED  BY <1>2, <1>7, <2>2, <3>1 DEF DoneApart, PlacedStarted
  <2> QED  BY <2>1, <2>2
<1>10. Distinct(todo') /\ (\A s, t \in Slots: HandsApart(s, t)') /\ \A s \in Slots: OffQueue(s)'
  BY <1>1 DEF Movement, HandsApart, OffQueue
<1> QED  BY <1>4, <1>6, <1>7, <1>8, <1>9, <1>10 DEF Movement

(* A block is freed: all its instructions are counted.                     *)
LEMMA Closed ==
  ASSUME TypeOK, Owned, Movement, Counts, NEW c \in Callers, flow[c].live, Complete(flow[c]),
         flow' = [flow EXCEPT ![c] = NoFlow], UNCHANGED <<todo, Fe, Nx>>
  PROVE  /\ Owned' /\ Movement' /\ Counts'
         /\ \A d \in Callers \ {c}: flow[d].live => Settled(d)' = Settled(d)
<1>1. ~flow'[c].live /\ \A d \in Callers \ {c}: flow'[d] = flow[d]
  BY DEF NoFlow, TypeOK
<1>2. \A x: Held(x)' <=> Held(x)
  BY DEF Held
<1>3. ASSUME NEW e \in Events, Held(e) PROVE e[1] # c
  <2>1. ASSUME e[1] = c PROVE FALSE
    <3>1. e = <<c, e[2]>> /\ e[2] \in Nodes(flow[c].g)
      BY <1>3, <2>1 DEF Owned, OfBlock, Events
    <3>2. Placed(c, e[2])
      BY <1>3, <3>1 DEF Placed
    <3>3. Settled(c) = Nodes(flow[c].g)
      BY AllCounted
    <3> QED  BY <3>1, <3>2, <3>3 DEF Settled
  <2> QED  BY <2>1
<1>4. Owned'
  BY <1>1, <1>2, <1>3 DEF Owned, OfBlock, Events
<1>7. ASSUME NEW d \in Callers, d # c
      PROVE  flow'[d] = flow[d] /\ (\A n: Placed(d, n)' <=> Placed(d, n)) /\ Settled(d)' = Settled(d)
  <2>1. flow'[d] = flow[d] /\ \A n: Placed(d, n)' <=> Placed(d, n)
    BY <1>1, <1>2, <1>7 DEF Placed
  <2> QED  BY <2>1 DEF Settled
<1>8. Counts'
  BY <1>1, <1>7 DEF Counts
<1>9. ASSUME NEW d \in Callers, flow'[d].live PROVE DoneApart(d)' /\ PlacedStarted(d)'
  <2>1. d # c
    BY <1>1, <1>9
  <2>2. flow[d].live /\ DoneApart(d) /\ PlacedStarted(d)
    BY <1>7, <1>9, <2>1 DEF Movement
  <2> QED  BY <1>2, <1>7, <2>1, <2>2 DEF DoneApart, PlacedStarted
<1>10. Distinct(todo') /\ (\A s, t \in Slots: HandsApart(s, t)') /\ \A s \in Slots: OffQueue(s)'
  BY DEF Movement, HandsApart, OffQueue
<1> QED  BY <1>4, <1>7, <1>8, <1>9, <1>10 DEF Movement

(* The instructions, after any step; what is settled changes only when the *)
(* scheduler counts one.                                                   *)
Moved ==
    /\ Owned' /\ Movement' /\ Counts'
    /\ \A d \in Callers: flow[d].live /\ ~TakeDone(d) /\ ~Finish(d) => Settled(d)' = Settled(d)

LEMMA MovedFeed ==
  ASSUME TypeOK, Control, Owned, Movement, Counts, Order, NEW c \in Callers, Feed(c)
  PROVE  Moved
<1> USE DEF queue, pool, bounds
<1>1. /\ flow[c].live /\ flow[c].g \in Blocks /\ flow[c] \in FlowType(flow[c].g)
      /\ step[c].at = "feed"
  <2>1. step[c].at = "feed"
    BY Zenon DEF Feed
  <2> QED  BY <2>1, FeedNext, Zenon
<1>2. CASE Ready(c) = {}
  <2>1. /\ workers' = [workers EXCEPT ![step[c].w].s = @ + 1] /\ UNCHANGED <<todo, flow>>
    BY <1>2, FeedNext, Zenon
  <2>2. UNCHANGED <<Fe, Nx>>
    <3>1. \A s \in Slots: workers'[s].fe = workers[s].fe /\ workers'[s].fnxt = workers[s].fnxt
      BY <2>1, Hands DEF TypeOK, WorkerType
    <3> QED  BY <3>1 DEF Fe, Nx
  <2>3. \A d \in Callers: Alike(d)
    BY <2>1 DEF Alike
  <2> QED  BY <2>1, <2>2, <2>3, NothingMoved DEF Moved
<1>3. CASE Ready(c) # {}
  <2> DEFINE i == FirstReady(c)
             st == [flow[c].state EXCEPT ![i] = "running"]
  <2>1. /\ i \in Ready(c) /\ i \in Nodes(flow[c].g)
        /\ todo' = Append(todo, <<c, i>>) /\ UNCHANGED workers
        /\ flow' = [flow EXCEPT ![c] = [@ EXCEPT !.state[i] = "running", !.at = i]]
    BY <1>3, FeedNext, Zenon DEF Enqueue, Ready
  <2>2. flow[c].state[i] = "pending"
    BY <1>1, <2>1 DEF Order, BlockOrder, Ready
  <2> HIDE DEF i
  <2>3. flow' = [flow EXCEPT ![c] = [flow[c] EXCEPT !.state = st, !.at = i]]
    BY <1>1, <2>1 DEF FlowType
  <2>4. /\ flow'[c].live /\ flow'[c].g = flow[c].g /\ flow'[c].done = flow[c].done
        /\ flow'[c].tasks = flow[c].tasks /\ flow'[c].state = st
        /\ \A d \in Callers \ {c}: flow'[d] = flow[d]
    <3> HIDE DEF st
    <3> QED  BY <1>1, <2>3 DEF FlowType, TypeOK
  <2>5. \A n \in Nodes(flow[c].g): st[n] = IF n = i THEN "running" ELSE flow[c].state[n]
    BY <1>1 DEF FlowType
  <2>6. Starts(c, i)
    BY <1>1, <2>1, <2>2, <2>4, <2>5 DEF Starts
  <2>7. UNCHANGED <<Fe, Nx>>
    BY <2>1 DEF Fe, Nx
  <2> QED  BY <2>1, <2>6, <2>7, Queued DEF Moved
<1> QED  BY <1>2, <1>3

LEMMA MovedDispatch ==
  ASSUME TypeOK, Control, Owned, Movement, Counts, Order, NEW c \in Callers, Dispatch(c)
  PROVE  Moved
<1> DEFINE i == Woken(c)
<1>1. /\ flow'[c].live /\ flow'[c].g = flow[c].g /\ flow'[c].done = flow[c].done
      /\ flow'[c].tasks = flow[c].tasks
      /\ \A n \in Nodes(flow[c].g):
           flow'[c].state[n] = IF Wakes(c) /\ n = i THEN "running" ELSE flow[c].state[n]
      /\ \A d \in Callers \ {c}: flow'[d] = flow[d]
      /\ Wakes(c) => Enqueue(<<c, i>>)
      /\ ~Wakes(c) => todo' = todo
      /\ UNCHANGED workers
  BY DispatchNext
<1>2. flow[c].live /\ i \in Nodes(flow[c].g)
  <2>1. step[c].at = "dispatch" /\ flow[c].at < Len(flow[c].g.wake[flow[c].f])
    BY Zenon DEF Dispatch
  <2> QED  BY <2>1, WakeUp
<1>3. UNCHANGED <<Fe, Nx>>
  BY <1>1 DEF Fe, Nx
<1> HIDE DEF i
<1>4. CASE Wakes(c)
  <2>1. Starts(c, i)
    BY <1>1, <1>2, <1>4 DEF Starts, Wakes, i
  <2>2. todo' = Append(todo, <<c, i>>)
    BY <1>1, <1>4 DEF Enqueue
  <2> QED  BY <1>3, <2>1, <2>2, Queued DEF Moved
<1>5. CASE ~Wakes(c)
  <2>1. \A d \in Callers: Alike(d)
    BY <1>1, <1>2, <1>5 DEF Alike
  <2> QED  BY <1>1, <1>3, <1>5, <2>1, NothingMoved DEF Moved
<1> QED  BY <1>4, <1>5

LEMMA MovedRan ==
  ASSUME TypeOK, Control, Owned, Movement, Counts, NEW s \in Slots, NEW err \in BOOLEAN, Ran(s, err)
  PROVE  Moved
<1> DEFINE c == Fe[s][1]
           n == Fe[s][2]
           i == Picked1(c, n)
           w == [workers[s] EXCEPT !.pc = "report", !.fnxt = NextOf(c, n, err)]
<1>1. Runs(s, c, n, err)
  BY RanEffect
<1> HIDE DEF c, n
<1>2. /\ c \in Callers /\ flow[c].live /\ n \in Nodes(flow[c].g) /\ Fe[s] = <<c, n>> /\ Fe[s] # Nobody
      /\ Set(s, w) /\ (\A d \in Callers \ {c}: flow'[d] = flow[d]) /\ todo' = todo
      /\ workers[s].pc \in {"run", "call"}
  BY <1>1, Zenon DEF Runs, Executing
<1>3. w.fe = Fe[s] /\ w.fnxt = NextOf(c, n, err)
  BY Hands DEF WorkerType
<1> HIDE DEF w
<1>4. Fe' = Fe /\ Nx' = [Nx EXCEPT ![s] = NextOf(c, n, err)]
  <2>1. Fe' = [Fe EXCEPT ![s] = w.fe] /\ Nx' = [Nx EXCEPT ![s] = w.fnxt]
    BY <1>2, SlotSet
  <2> QED  BY <1>3, <2>1 DEF Fe
<1>5. Nx[s] = Nobody
  BY <1>2 DEF Control, Holding
<1>6. flow[c].state[n] # "pending"
  BY <1>2 DEF Movement, PlacedStarted, Placed, Held
<1>7. RanRecord(c, n, err, flow'[c])
  BY <1>1, Zenon DEF Runs
<1>8. /\ flow'[c].live /\ flow'[c].g = flow[c].g /\ flow'[c].done = flow[c].done
      /\ flow'[c].tasks = flow[c].tasks
      /\ \A m \in Nodes(flow[c].g):
           flow'[c].state[m] = CASE m = n -> "wrapup"
                                 [] Picks(c, n, err) /\ m = i -> "running"
                                 [] OTHER -> flow[c].state[m]
  BY <1>2, <1>7 DEF RanRecord
<1> HIDE DEF i
<1>9. CASE Picks(c, n, err)
  <2>0. Eligible(flow[c], n) # {}
    BY <1>9, Zenon DEF Picks
  <2>1. i \in Nodes(flow[c].g) /\ flow[c].state[i] = "pending" /\ i # n
    <3>1. Picked1(c, n) \in Nodes(flow[c].g) /\ flow[c].state[Picked1(c, n)] = "pending"
      BY <1>2, <2>0, Candidate
    <3> QED  BY <1>6, <3>1 DEF i
  <2>2. Starts(c, i)
    BY <1>2, <1>6, <1>8, <1>9, <2>1 DEF Starts
  <2>3. Nx' = [Nx EXCEPT ![s] = <<c, i>>]
    BY <1>4, <1>9 DEF NextOf, i
  <2> QED  BY <1>2, <1>4, <1>5, <2>2, <2>3, PickedUp DEF Moved
<1>10. CASE ~Picks(c, n, err)
  <2>1. \A d \in Callers: Alike(d)
    BY <1>2, <1>6, <1>8, <1>10 DEF Alike
  <2>2. Nx' = Nx
    BY <1>4, <1>5, <1>10 DEF NextOf, Nx
  <2> QED  BY <1>2, <1>4, <2>1, <2>2, NothingMoved DEF Moved
<1> QED  BY <1>9, <1>10

LEMMA MovedNext == IInv /\ [Next]_vars => Moved
<1> SUFFICES ASSUME IInv, [Next]_vars PROVE Moved
  OBVIOUS
<1> USE DEF queue, pool, bounds
<1>1. TypeOK /\ Fresh /\ Control /\ Owned /\ Movement /\ Counts /\ Order
  BY DEF IInv
<1>2. ASSUME UNCHANGED <<todo, Fe, Nx, flow>> PROVE Moved
  <2>1. \A d \in Callers: Alike(d)
    BY <1>2 DEF Alike
  <2> QED  BY <1>1, <1>2, <2>1, NothingMoved DEF Moved
<1>3. CASE Rest
  BY <1>1, <1>2, <1>3, Still
<1>4. ASSUME NEW c \in Callers, InitBlk(c) PROVE Moved
  <2>1. step[c].at = "init" /\ UNCHANGED <<workers, todo>>
    BY <1>4, Zenon DEF InitBlk
  <2>2. ~flow[c].live /\ UNCHANGED <<Fe, Nx>>
    BY <1>1, <2>1 DEF Control, Calling, InBlock, Fe, Nx
  <2>3. CASE flow' = flow
    BY <1>2, <2>1, <2>2, <2>3
  <2>4. ASSUME NEW g \in (IF c \in Clients THEN Graphs[c] ELSE Called),
               flow' = [flow EXCEPT ![c] = NewFlow(g, ClientOf(c))]
        PROVE  Moved
    <3>1. g \in Blocks
      BY <2>4, Names
    <3> DEFINE k == ClientOf(c)
    <3>2. flow' = [flow EXCEPT ![c] = NewFlow(g, k)]
      BY <2>4
    <3> HIDE DEF k
    <3>3. /\ Owned' /\ Movement' /\ Counts'
          /\ \A d \in Callers \ {c}: flow[d].live => Settled(d)' = Settled(d)
      BY <1>1, <2>1, <2>2, <3>1, <3>2, Opened
    <3> QED  BY <2>2, <3>3 DEF Moved
  <2> QED  BY <1>4, <2>3, <2>4, Zenon DEF InitBlk
<1>5. ASSUME NEW c \in Callers, Feed(c) PROVE Moved
  BY <1>1, <1>5, MovedFeed
<1>6. ASSUME NEW c \in Callers, TakeDone(c) PROVE Moved
  <2>1. Counting(c)
    BY <1>1, <1>6, CountsOne
  <2>2. /\ Owned' /\ Movement' /\ Counts'
        /\ \A d \in Callers \ {c}: flow[d].live => Settled(d)' = Settled(d)
    BY <1>1, <2>1, CountedOne
  <2> QED  BY <1>6, <2>2, Zenon DEF Moved
<1>7. ASSUME NEW c \in Callers, Dispatch(c) PROVE Moved
  BY <1>1, <1>7, MovedDispatch
<1>8. ASSUME NEW c \in Callers, Finish(c) PROVE Moved
  <2>1. /\ step[c].at = "wait" /\ Complete(flow[c]) /\ todo' = todo
        /\ flow' = [flow EXCEPT ![c] = NoFlow]
        /\ workers' = [workers EXCEPT ![step[c].w] = Release(@)]
    BY <1>8, Zenon DEF Finish
  <2>2. flow[c].live
    BY <1>1, <2>1 DEF Control, Calling, InBlock
  <2>3. UNCHANGED <<Fe, Nx>>
    <3>1. \A s \in Slots: workers'[s].fe = workers[s].fe /\ workers'[s].fnxt = workers[s].fnxt
      BY <1>1, <2>1, Hands DEF TypeOK, WorkerType, Release
    <3> QED  BY <3>1 DEF Fe, Nx
  <2>4. /\ Owned' /\ Movement' /\ Counts'
        /\ \A d \in Callers \ {c}: flow[d].live => Settled(d)' = Settled(d)
    BY <1>1, <2>1, <2>2, <2>3, Closed
  <2> QED  BY <1>8, <2>4, Zenon DEF Moved
<1>9. ASSUME NEW s \in Slots, PopMine(s) \/ PopAny(s) PROVE Moved
  <2>1. PICK i \in 1 .. Len(todo): Takes(s, i)
    BY <1>1, <1>9, Taking
  <2>2. Fe[s] = Nobody
    BY <1>1, <2>1 DEF Takes, Control, Holding, Running
  <2> QED  BY <1>1, <2>1, <2>2, TakenUp DEF Moved
<1>10. ASSUME NEW s \in Slots, NEW err \in BOOLEAN, Ran(s, err) PROVE Moved
  BY <1>1, <1>10, MovedRan
<1>11. ASSUME NEW s \in Slots, Report(s) PROVE Moved
  <2>1. Reports(s, Fe[s][1], Fe[s][2])
    BY <1>1, <1>11, Reporting
  <2> QED  BY <1>1, <2>1, HandedOver DEF Moved
<1>12. CASE UNCHANGED vars
  <2>1. UNCHANGED <<todo, Fe, Nx, flow>>
    BY <1>12 DEF vars, Fe, Nx
  <2> QED  BY <1>2, <2>1
<1> QED  BY <1>3, <1>4, <1>5, <1>6, <1>7, <1>8, <1>9, <1>10, <1>11, <1>12
         DEF Next, Caller, Worker, Stopping, Rest

-----------------------------------------------------------------------------
(* Who starts is run.                                                      *)

(* Callers, and who stops the pool, leave the hands of the workers alone.  *)
LEMMA HandsKept ==
  ASSUME TypeOK, Fresh, Control, Owned,
         \/ \E c \in Clients: \E d \in Depths[c]: Enter(c, d)
         \/ \E c \in Callers: Caller(c)
         \/ Stop \/ StopSlot
  PROVE  UNCHANGED <<Fe, Nx>>
<1> USE DEF queue, pool, bounds
<1>1. CASE Rest
  BY <1>1, Still
<1>2. ASSUME NEW c \in Callers, InitBlk(c) \/ TakeDone(c) \/ Dispatch(c) PROVE UNCHANGED <<Fe, Nx>>
  <2>1. workers' = workers
    BY <1>2, Zenon DEF InitBlk, TakeDone, Dispatch
  <2> QED  BY <2>1 DEF Fe, Nx
<1>3. ASSUME NEW c \in Callers, Feed(c) \/ Finish(c) PROVE UNCHANGED <<Fe, Nx>>
  <2>1. \/ workers' = workers
        \/ \E n: workers' = [workers EXCEPT ![step[c].w].s = n]
        \/ workers' = [workers EXCEPT ![step[c].w].cntxt = Nobody]
    BY <1>3, Zenon DEF Feed, Finish, Release
  <2>2. \A s \in Slots: workers'[s].fe = workers[s].fe /\ workers'[s].fnxt = workers[s].fnxt
    <3>1. DOMAIN workers = Slots /\ \A s \in Slots: workers[s] \in WorkerType
      BY Hands DEF TypeOK
    <3>2. ASSUME NEW n, workers' = [workers EXCEPT ![step[c].w].s = n]
          PROVE  \A s \in Slots: workers'[s].fe = workers[s].fe /\ workers'[s].fnxt = workers[s].fnxt
      BY <3>1, <3>2 DEF WorkerType
    <3>3. ASSUME workers' = [workers EXCEPT ![step[c].w].cntxt = Nobody]
          PROVE  \A s \in Slots: workers'[s].fe = workers[s].fe /\ workers'[s].fnxt = workers[s].fnxt
      BY <3>1, <3>3 DEF WorkerType
    <3> QED  BY <2>1, <3>2, <3>3, Zenon
  <2> QED  BY <2>2 DEF Fe, Nx
<1> QED  BY <1>1, <1>2, <1>3 DEF Caller, Rest

(* What others do leaves a block as it is, but for done.                   *)
Bystander(c) ==
    /\ flow'[c].live /\ flow'[c].g = flow[c].g /\ flow'[c].state = flow[c].state
    /\ flow'[c].blocks = flow[c].blocks /\ flow'[c].error = flow[c].error
    /\ flow'[c].f = flow[c].f /\ flow'[c].at = flow[c].at /\ step'[c] = step[c]

Scheduling(c) == Feed(c) \/ TakeDone(c) \/ Dispatch(c) \/ Dispatched(c) \/ Finish(c)
RanIn(c) == \E s \in Slots, err \in BOOLEAN: Ran(s, err) /\ Fe[s][1] = c

LEMMA Bystanders ==
  ASSUME IInv, [Next]_vars, NEW c \in Callers, flow[c].live, ~Scheduling(c), ~RanIn(c)
  PROVE  Bystander(c)
<1> USE DEF queue, pool, bounds
<1>1. TypeOK /\ Fresh /\ Control /\ Owned
  BY DEF IInv
<1>2. /\ DOMAIN flow = Callers /\ DOMAIN step = Callers
      /\ step[c].at \in {"feed", "wait", "dispatch"}
      /\ c \in Slots => workers[c].pc = "call"
  BY <1>1 DEF TypeOK, Control, Calling, InBlock
<1>3. ASSUME flow'[c] = flow[c], step'[c] = step[c] PROVE Bystander(c)
  BY <1>3 DEF Bystander
<1>4. ASSUME NEW d \in Callers, d # c, NEW x, NEW y, flow' = [flow EXCEPT ![d] = x] \/ flow' = flow,
             step' = [step EXCEPT ![d] = y] \/ step' = step
      PROVE  Bystander(c)
  <2>1. flow'[c] = flow[c] /\ step'[c] = step[c]
    BY <1>2, <1>4
  <2> QED  BY <1>3, <2>1
<1>5. ASSUME NEW d \in Clients, NEW k \in Depths[d], Enter(d, k) PROVE Bystander(c)
  <2>1. /\ flow' = flow /\ step[d].at = "out"
        /\ \E y: step' = [step EXCEPT ![d] = y]
    BY <1>5, Zenon DEF Enter
  <2>2. d # c /\ d \in Callers
    BY <1>2, <2>1 DEF Callers
  <2> QED  BY <1>4, <2>1, <2>2
<1>6. ASSUME NEW d \in Callers, Caller(d), d # c PROVE Bystander(c)
  <2>1. /\ flow' = flow \/ \E x: flow' = [flow EXCEPT ![d] = x]
        /\ step' = step \/ \E y: step' = [step EXCEPT ![d] = y]
    BY <1>6, Zenon DEF Caller, JoinBegin, JoinEnd, CreateWorker, RunSerially, InitBlk, Feed, TakeDone,
                       Dispatch, Dispatched, Finish, Pill, Goto
  <2> QED  BY <1>4, <1>6, <2>1
<1>7. ASSUME Caller(c) PROVE FALSE
  <2>1. step[c].at \notin {"create", "join", "init", "pill"}
    BY <1>2
  <2>3. step[c].at \in {"create", "join", "init", "pill"} \/ Scheduling(c)
    BY <1>7, Zenon DEF Caller, JoinBegin, JoinEnd, CreateWorker, RunSerially, InitBlk, Pill, Scheduling
  <2> QED  BY <2>1, <2>3
<1>8. ASSUME NEW s \in Slots, Worker(s) PROVE Bystander(c)
  <2>1. CASE s = c
    <3>1. workers[s].pc = "call" /\ step[s].at # "out"
      BY <1>2, <2>1
    <3> QED  BY <1>8, <3>1, Zenon DEF Worker, At, Start, Gate, Look, Down, PopMine, PopNothing, PopExit,
                                      PopAny, Check, Call, Ran, Report, Exit
  <2>2. CASE s # c
    <3>1. step'[c] = step[c]
      BY <1>1, <1>8, <2>2, WorkerAlone
    <3>2. CASE flow' = flow
      BY <1>3, <3>1, <3>2
    <3>3. ASSUME NEW err \in BOOLEAN, Ran(s, err) PROVE Bystander(c)
      <4> DEFINE d == Fe[s][1]
                 n == Fe[s][2]
      <4>1. Runs(s, d, n, err)
        BY <1>1, <3>3, RanEffect
      <4>2. d # c
        BY <3>3 DEF RanIn
      <4> HIDE DEF d, n
      <4>3. flow'[c] = flow[c]
        BY <4>1, <4>2 DEF Runs
      <4> QED  BY <1>3, <3>1, <4>3
    <3>4. CASE Report(s)
      <4> DEFINE d == Fe[s][1]
                 n == Fe[s][2]
      <4>1. Reports(s, d, n)
        BY <1>1, <3>4, Reporting
      <4> HIDE DEF d, n
      <4>2. CASE c = d
        BY <3>1, <4>1, <4>2 DEF Reports, SameBlock, Bystander
      <4>3. CASE c # d
        <5>1. flow'[c] = flow[c]
          BY <4>1, <4>3 DEF Reports
        <5> QED  BY <1>3, <3>1, <5>1
      <4> QED  BY <4>2, <4>3
    <3>5. flow' = flow \/ Report(s) \/ \E err \in BOOLEAN: Ran(s, err)
      BY <1>8, Zenon DEF Worker, Start, Gate, Look, Down, PopMine, PopNothing, PopExit, PopAny, Check,
                         Call, Exit
    <3> QED  BY <3>2, <3>3, <3>4, <3>5
  <2> QED  BY <2>1, <2>2
<1>9. CASE Stop \/ StopSlot
  <2>1. flow' = flow /\ step' = step
    BY <1>9, Zenon DEF Stop, StopSlot
  <2> QED  BY <1>3, <2>1
<1>10. CASE Reset
  <2>1. exiting
    BY <1>10, Zenon DEF Reset
  <2> QED  BY <1>1, <2>1, Quiet
<1>11. CASE UNCHANGED vars
  BY <1>3, <1>11 DEF vars
<1> QED  BY <1>5, <1>6, <1>7, <1>8, <1>9, <1>10, <1>11 DEF Next, Stopping

LEMMA Grows ==
  ASSUME NEW S, NEW q \in Seq(S), NEW e
  PROVE  /\ \A x: InSeq(x, q) => InSeq(x, Append(q, e))
         /\ InSeq(e, Append(q, e))
<1>1. PICK k \in Nat: k = Len(q)
  OBVIOUS
<1>2. /\ Len(Append(q, e)) = k + 1 /\ Append(q, e)[k + 1] = e
      /\ \A i \in 1 .. k: Append(q, e)[i] = q[i]
  BY <1>1
<1>3. \A i \in 1 .. k: i \in 1 .. k + 1
  OBVIOUS
<1>4. k + 1 \in 1 .. k + 1
  OBVIOUS
<1> QED  BY <1>1, <1>2, <1>3, <1>4 DEF InSeq

(* The effect of starting: the block of an instruction that a worker runs  *)
(* or that the scheduler queues goes on, and what starts waits to be run.  *)
Onward(c) ==
    /\ flow'[c].live /\ flow'[c].g = flow[c].g
    /\ flow[c].error => flow'[c].error
    /\ \A n \in Nodes(flow[c].g):
         /\ flow[c].state[n] = "wrapup" => flow'[c].state[n] = "wrapup"
         /\ flow'[c].state[n] = "pending" => flow[c].state[n] = "pending"
         /\ flow'[c].state[n] = "running" /\ flow[c].state[n] # "running" => Waiting(c, n)'

LEMMA OnwardNext ==
  ASSUME IInv, [Next]_vars, NEW c \in Callers, flow[c].live, ~Finish(c)
  PROVE  Onward(c)
<1> USE DEF queue, pool, bounds
<1>1. TypeOK /\ Fresh /\ Control /\ Owned /\ Movement /\ Order
  BY DEF IInv
<1>2. flow'[c].live /\ flow'[c].g = flow[c].g
  BY GoesOn
<1>3. /\ flow[c].g \in Blocks /\ flow[c] \in FlowType(flow[c].g)
      /\ flow[c].state \in [Nodes(flow[c].g) -> {"pending", "running", "wrapup"}]
      /\ todo \in Seq(Events) /\ DOMAIN flow = Callers
  BY <1>1, Live DEF TypeOK, FlowType
<1>4. ASSUME flow'[c].state = flow[c].state, flow'[c].error = flow[c].error PROVE Onward(c)
  BY <1>2, <1>4 DEF Onward
<1>5. ASSUME NEW i \in Nodes(flow[c].g), flow[c].state[i] = "pending", flow'[c].error = flow[c].error,
             \A n \in Nodes(flow[c].g): flow'[c].state[n] = IF n = i THEN "running" ELSE flow[c].state[n],
             todo' = Append(todo, <<c, i>>)
      PROVE  Onward(c)
  <2>1. InSeq(<<c, i>>, todo')
    BY <1>3, <1>5, Grows
  <2>2. Waiting(c, i)'
    BY <2>1 DEF Waiting
  <2> QED  BY <1>2, <1>5, <2>2 DEF Onward
<1>6. CASE Feed(c)
  <2>1. CASE Ready(c) = {}
    <3>1. flow' = flow
      BY <1>1, <1>6, <2>1, FeedNext, Zenon
    <3> QED  BY <1>4, <3>1
  <2>2. CASE Ready(c) # {}
    <3> DEFINE i == FirstReady(c)
               st == [flow[c].state EXCEPT ![i] = "running"]
    <3>0. step[c].at = "feed"
      BY <1>6, Zenon DEF Feed
    <3>1. /\ i \in Ready(c) /\ i \in Nodes(flow[c].g)
          /\ todo' = Append(todo, <<c, i>>)
          /\ flow' = [flow EXCEPT ![c] = [@ EXCEPT !.state[i] = "running", !.at = i]]
      BY <1>1, <1>6, <2>2, FeedNext, Zenon DEF Enqueue
    <3>2. flow[c].state[i] = "pending"
      BY <1>1, <3>0, <3>1 DEF Order, BlockOrder, Ready
    <3> HIDE DEF i
    <3>3. flow' = [flow EXCEPT ![c] = [flow[c] EXCEPT !.state = st, !.at = i]]
      BY <1>3, <3>1 DEF FlowType
    <3>4. flow'[c].state = st /\ flow'[c].error = flow[c].error
      <4> HIDE DEF st
      <4> QED  BY <1>3, <3>3 DEF FlowType
    <3>5. \A n \in Nodes(flow[c].g): st[n] = IF n = i THEN "running" ELSE flow[c].state[n]
      BY <1>3
    <3> QED  BY <1>5, <3>1, <3>2, <3>4, <3>5
  <2> QED  BY <2>1, <2>2
<1>7. CASE TakeDone(c)
  <2>1. Counting(c)
    BY <1>1, <1>7, CountsOne
  <2> QED  BY <1>4, <2>1 DEF Counting
<1>8. CASE Dispatch(c)
  <2> DEFINE i == Woken(c)
  <2>1. /\ flow'[c].error = flow[c].error
        /\ \A n \in Nodes(flow[c].g):
             flow'[c].state[n] = IF Wakes(c) /\ n = i THEN "running" ELSE flow[c].state[n]
        /\ Wakes(c) => Enqueue(<<c, i>>)
    BY <1>1, <1>8, DispatchNext
  <2>2. i \in Nodes(flow[c].g)
    <3>1. step[c].at = "dispatch" /\ flow[c].at < Len(flow[c].g.wake[flow[c].f])
      BY <1>8, Zenon DEF Dispatch
    <3> QED  BY <1>1, <3>1, WakeUp
  <2> HIDE DEF i
  <2>3. CASE Wakes(c)
    <3>1. flow[c].state[i] = "pending"
      BY <2>3 DEF Wakes, i
    <3> QED  BY <1>5, <2>1, <2>2, <2>3, <3>1 DEF Enqueue
  <2>4. CASE ~Wakes(c)
    BY <1>2, <2>1, <2>4 DEF Onward
  <2> QED  BY <2>3, <2>4
<1>9. CASE Dispatched(c)
  <2>1. flow' = flow
    BY <1>9, Zenon DEF Dispatched
  <2> QED  BY <1>4, <2>1
<1>10. ASSUME NEW s \in Slots, NEW err \in BOOLEAN, Ran(s, err), Fe[s][1] = c PROVE Onward(c)
  <2>0. PICK n: n = Fe[s][2]
    OBVIOUS
  <2> DEFINE w == [workers[s] EXCEPT !.pc = "report", !.fnxt = NextOf(c, n, err)]
  <2>1. Runs(s, c, n, err)
    BY <1>1, <1>10, <2>0, RanEffect
  <2>9. PICK i: i = Picked1(c, n)
    OBVIOUS
  <2>2. n \in Nodes(flow[c].g) /\ Set(s, w) /\ RanRecord(c, n, err, flow'[c])
    BY <2>1, Zenon DEF Runs
  <2>3. /\ flow'[c].error = (flow[c].error \/ err)
        /\ \A m \in Nodes(flow[c].g):
             flow'[c].state[m] = CASE m = n -> "wrapup"
                                   [] Picks(c, n, err) /\ m = i -> "running"
                                   [] OTHER -> flow[c].state[m]
    BY <2>2, <2>9 DEF RanRecord
  <2>4. Picks(c, n, err) => Waiting(c, i)'
    <3>1. w.fnxt = NextOf(c, n, err)
      BY <1>1, Hands DEF WorkerType
    <3> HIDE DEF w
    <3>2. Nx'[s] = w.fnxt
      BY <1>1, <2>2, SlotSet DEF Nx
    <3> QED  BY <2>9, <3>1, <3>2 DEF NextOf, Waiting
  <2>5. Picks(c, n, err) => flow[c].state[i] = "pending"
    <3>1. Picks(c, n, err) => Eligible(flow[c], n) # {}
      BY Zenon DEF Picks
    <3> QED  BY <1>1, <2>2, <2>9, <3>1, Candidate
  <2>8. Picks(c, n, err) => i # n
    <3>1. Fe[s] = <<c, n>>
      BY <2>1, Zenon DEF Runs
    <3>2. flow[c].state[n] # "pending"
      BY <1>1, <2>2, <3>1 DEF Movement, PlacedStarted, Placed, Held
    <3> QED  BY <2>5, <3>2
  <2> HIDE DEF w
  <2>6. \A m \in Nodes(flow[c].g):
           /\ flow[c].state[m] = "wrapup" => flow'[c].state[m] = "wrapup"
           /\ flow'[c].state[m] = "pending" => flow[c].state[m] = "pending"
           /\ flow'[c].state[m] = "running" /\ flow[c].state[m] # "running" => Waiting(c, m)'
    <3> TAKE m \in Nodes(flow[c].g)
    <3>1. CASE m = n
      BY <2>2, <2>3, <2>8, <3>1
    <3>2. CASE m # n /\ Picks(c, n, err) /\ m = i
      BY <2>3, <2>4, <2>5, <3>2
    <3>3. CASE m # n /\ ~(Picks(c, n, err) /\ m = i)
      <4>1. flow'[c].state[m] = flow[c].state[m]
        BY <2>3, <3>3
      <4> QED  BY <4>1
    <3> QED  BY <3>1, <3>2, <3>3
  <2>7. flow[c].error => flow'[c].error
    BY <2>3
  <2> QED  BY <1>2, <2>6, <2>7 DEF Onward
<1>11. CASE ~Scheduling(c) /\ ~RanIn(c)
  <2>1. Bystander(c)
    BY <1>11, Bystanders
  <2> QED  BY <1>4, <2>1 DEF Bystander
<1> QED  BY <1>6, <1>7, <1>8, <1>9, <1>10, <1>11 DEF Scheduling, RanIn

(* Only InitBlk makes a block.                                             *)
LEMMA Begins ==
  ASSUME IInv, [Next]_vars, NEW c \in Callers, ~flow[c].live, flow'[c].live
  PROVE  InitBlk(c)
<1> USE DEF queue, pool, bounds
<1>1. TypeOK /\ Fresh /\ Control /\ Owned
  BY DEF IInv
<1>2. step[c].at \notin {"feed", "wait", "dispatch"} /\ DOMAIN flow = Callers
  BY <1>1 DEF Control, Calling, InBlock, TypeOK
<1>3. CASE flow' = flow
  BY <1>3
<1>4. CASE Rest
  BY <1>1, <1>3, <1>4, Still
<1>5. ASSUME NEW d \in Callers, d # c, Caller(d) PROVE FALSE
  <2>1. flow' = flow \/ \E x: flow' = [flow EXCEPT ![d] = x]
    BY <1>5, Zenon DEF Caller, JoinBegin, JoinEnd, CreateWorker, RunSerially, InitBlk, Feed, TakeDone,
                       Dispatch, Dispatched, Finish, Pill
  <2> QED  BY <1>2, <1>5, <2>1
<1>6. CASE Feed(c) \/ TakeDone(c) \/ Dispatch(c) \/ Finish(c)
  BY <1>2, <1>6, Zenon DEF Feed, TakeDone, Dispatch, Finish
<1>7. ASSUME NEW s \in Slots, Worker(s) PROVE FALSE
  <2>1. flow'[c] = flow[c] \/ SameBlock(c)
    BY <1>1, <1>7, WorkerFlow
  <2> QED  BY <2>1 DEF SameBlock
<1>8. CASE UNCHANGED vars
  BY <1>3, <1>8 DEF vars
<1> QED  BY <1>4, <1>5, <1>6, <1>7, <1>8 DEF Next, Caller, Stopping, Rest

LEMMA WaitingKept ==
  ASSUME IInv, [Next]_vars, NEW c \in Callers, flow[c].live, ~Finish(c), NEW n \in Nodes(flow[c].g),
         Waiting(c, n), ~flow'[c].error, flow'[c].state[n] # "wrapup"
  PROVE  Waiting(c, n)'
<1> USE DEF queue, pool, bounds
<1> DEFINE e == <<c, n>>
<1>1. TypeOK /\ Fresh /\ Control /\ Owned
  BY DEF IInv
<1>2. /\ todo \in Seq(Events)
      /\ e \in Events /\ e # Nobody /\ Nobody \notin Events
  <2>1. n \in Nat
    BY <1>1, Live, Graph
  <2> QED  BY <1>1, <2>1, Names DEF TypeOK, Events
<1>3. ASSUME \A x: InSeq(x, todo) => InSeq(x, todo'), UNCHANGED <<Fe, Nx>>,
             \A s \in Slots: Fe[s] = e /\ Doing(s) => Doing(s)'
      PROVE  Waiting(c, n)'
  BY <1>3 DEF Waiting
<1>4. ASSUME \/ \E d \in Clients: \E k \in Depths[d]: Enter(d, k)
             \/ \E d \in Callers: Caller(d)
             \/ Stop \/ StopSlot
      PROVE  Waiting(c, n)'
  <2>1. UNCHANGED <<Fe, Nx>>
    BY <1>1, <1>4, HandsKept
  <2>2. ASSUME NEW s \in Slots, Doing(s) PROVE Doing(s)'
    <3>1. Kept(s)
      BY <1>1, <1>4, ThreadKept
    <3> QED  BY <2>2, <3>1 DEF Kept, Doing
  <2>3. todo' = todo \/ \E x: todo' = Append(todo, x)
    BY <1>4, ZenonT(60) DEF Enter, Caller, JoinBegin, JoinEnd, CreateWorker, RunSerially, InitBlk, Feed, TakeDone,
                       Dispatch, Dispatched, Finish, Pill, Stop, StopSlot, Enqueue
  <2>4. \A x: InSeq(x, todo) => InSeq(x, todo')
    <3>1. CASE todo' = todo
      BY <3>1
    <3>2. ASSUME NEW x, todo' = Append(todo, x) PROVE \A y: InSeq(y, todo) => InSeq(y, todo')
      BY <1>2, <3>2, Grows
    <3> QED  BY <2>3, <3>1, <3>2
  <2> QED  BY <1>3, <2>1, <2>2, <2>4
<1>5. ASSUME NEW s \in Slots, NEW err \in BOOLEAN, Ran(s, err) PROVE Waiting(c, n)'
  <2>0. PICK d, m: d = Fe[s][1] /\ m = Fe[s][2]
    OBVIOUS
  <2> DEFINE w == [workers[s] EXCEPT !.pc = "report", !.fnxt = NextOf(d, m, err)]
  <2>1. Runs(s, d, m, err)
    BY <1>1, <1>5, <2>0, RanEffect
  <2>2. /\ Fe[s] = <<d, m>> /\ workers[s].pc \in {"run", "call"} /\ Set(s, w) /\ todo' = todo
        /\ RanRecord(d, m, err, flow'[d]) /\ m \in Nodes(flow[d].g)
    BY <2>1, Zenon DEF Runs, Executing
  <2>3. Nx[s] = Nobody /\ Fe[s] # e
    <3>1. Fe[s] # e
      <4>1. ASSUME Fe[s] = e PROVE FALSE
        <5>1. d = c /\ m = n
          BY <2>2, <4>1
        <5>2. flow'[c].state[n] = CASE n = m -> "wrapup"
                                    [] Picks(d, m, err) /\ n = Picked1(d, m) -> "running"
                                    [] OTHER -> flow[c].state[n]
          BY <2>2, <5>1 DEF RanRecord
        <5>3. flow'[c].state[n] = "wrapup"
          <6>1. ~(Picks(d, m, err) /\ n = Picked1(d, m))
            <7>1. ASSUME Picks(d, m, err), n = Picked1(d, m) PROVE FALSE
              <8>1. flow[c].state[n] = "pending"
                <9>1. Eligible(flow[c], m) # {}
                  BY <5>1, <7>1, Zenon DEF Picks
                <9> QED  BY <1>1, <2>2, <5>1, <7>1, <9>1, Candidate, ZenonT(60)
              <8>2. flow[c].state[n] # "pending"
                BY <2>2, <5>1, <4>1 DEF IInv, Movement, PlacedStarted, Placed, Held
              <8> QED  BY <8>1, <8>2
            <7> QED  BY <7>1
          <6> QED  BY <5>1, <5>2, <6>1
        <5> QED  BY <5>3
      <4> QED  BY <4>1
    <3> QED  BY <1>1, <2>2, <3>1 DEF Control, Holding
  <2>4. w.fe = Fe[s]
    BY <1>1, Hands DEF WorkerType
  <2> HIDE DEF w
  <2>5. /\ \A t \in Slots \ {s}: workers'[t] = workers[t] /\ Nx'[t] = Nx[t]
        /\ Fe' = Fe
    <3>1. /\ \A t \in Slots: workers'[t] = IF t = s THEN w ELSE workers[t]
          /\ Fe' = [Fe EXCEPT ![s] = w.fe] /\ Nx' = [Nx EXCEPT ![s] = w.fnxt]
      BY <1>1, <2>2, SlotSet
    <3> QED  BY <2>4, <3>1 DEF Fe, Nx
  <2> QED  BY <1>2, <2>2, <2>3, <2>5 DEF Waiting, Doing
<1>6. ASSUME NEW s \in Slots, Report(s) PROVE Waiting(c, n)'
  <2>0. PICK d, m: d = Fe[s][1] /\ m = Fe[s][2]
    OBVIOUS
  <2>1. Reports(s, d, m)
    BY <1>1, <1>6, <2>0, Reporting
  <2>2. /\ workers[s].pc = "report" /\ todo' = todo
        /\ \A t \in Slots: Fe'[t] = IF t = s THEN Nx[s] ELSE Fe[t]
        /\ \A t \in Slots: Nx'[t] = IF t = s THEN Nobody ELSE Nx[t]
        /\ \A t \in Slots \ {s}: workers'[t] = workers[t]
        /\ workers'[s].pc = IF Nx[s] # Nobody THEN "got" ELSE "loop"
    BY <2>1, Zenon DEF Reports
  <2> HIDE DEF e
  <2>3. CASE InSeq(e, todo)
    BY <2>2, <2>3 DEF Waiting, e
  <2>4. ASSUME NEW t \in Slots, Fe[t] = e, Doing(t) PROVE Waiting(c, n)'
    <3>1. t # s
      BY <2>2, <2>4 DEF Doing
    <3>2. Fe'[t] = e /\ Doing(t)'
      BY <2>2, <2>4, <3>1 DEF Doing
    <3> QED  BY <3>2 DEF Waiting, e
  <2>5. ASSUME NEW t \in Slots, Nx[t] = e PROVE Waiting(c, n)'
    <3>1. CASE t = s
      <4>1. Fe'[s] = e /\ Doing(s)'
        BY <1>2, <2>2, <2>5, <3>1 DEF Doing
      <4> QED  BY <4>1 DEF Waiting, e
    <3>2. CASE t # s
      <4>1. Nx'[t] = e
        BY <2>2, <2>5, <3>2
      <4> QED  BY <4>1 DEF Waiting, e
    <3> QED  BY <3>1, <3>2
  <2> QED  BY <2>3, <2>4, <2>5 DEF Waiting, e
<1>7. ASSUME NEW s \in Slots, PopMine(s) \/ PopAny(s) PROVE Waiting(c, n)'
  <2>1. PICK i \in 1 .. Len(todo): Takes(s, i)
    BY <1>1, <1>7, Taking
  <2> DEFINE w == [workers[s] EXCEPT !.pc = "got", !.fe = todo[i]]
  <2>2. w.fe = todo[i] /\ w.fnxt = workers[s].fnxt /\ w.pc = "got" /\ Set(s, w) /\ workers[s].pc = "pop"
    BY <1>1, <2>1, Hands DEF Takes, WorkerType
  <2> HIDE DEF w
  <2>3. /\ \A t \in Slots: workers'[t] = IF t = s THEN w ELSE workers[t]
        /\ \A t \in Slots: Fe'[t] = IF t = s THEN todo[i] ELSE Fe[t]
        /\ Nx' = Nx
    <3>1. /\ \A t \in Slots: workers'[t] = IF t = s THEN w ELSE workers[t]
          /\ Fe' = [Fe EXCEPT ![s] = w.fe] /\ Nx' = [Nx EXCEPT ![s] = w.fnxt]
      BY <1>1, <2>2, SlotSet
    <3> QED  BY <2>2, <3>1 DEF Fe, Nx
  <2>4. Doing(s)' /\ ~Doing(s)
    BY <2>2, <2>3 DEF Doing
  <2>5. \A x: InSeq(x, todo) => InSeq(x, todo') \/ x = todo[i]
    BY <2>1 DEF Takes
  <2> HIDE DEF e
  <2>6. CASE InSeq(e, todo)
    BY <2>3, <2>4, <2>5, <2>6 DEF Waiting, e
  <2>7. ASSUME NEW t \in Slots, Fe[t] = e, Doing(t) PROVE Waiting(c, n)'
    <3>1. Fe'[t] = e /\ Doing(t)'
      BY <2>3, <2>4, <2>7 DEF Doing
    <3> QED  BY <3>1 DEF Waiting, e
  <2>8. ASSUME NEW t \in Slots, Nx[t] = e PROVE Waiting(c, n)'
    BY <2>3, <2>8 DEF Waiting, e
  <2> QED  BY <2>6, <2>7, <2>8 DEF Waiting, e
<1>8. ASSUME NEW s \in Slots,
             \/ Start(s) \/ Gate(s) \/ Look(s) \/ Down(s) \/ PopNothing(s) \/ PopExit(s)
             \/ Check(s) \/ Call(s) \/ Exit(s)
      PROVE  Waiting(c, n)'
  <2>1. Worker(s) /\ UNCHANGED <<todo, Fe, Nx, flow>>
    BY <1>1, <1>8, Still DEF Rest, Worker
  <2>2. \A t \in Slots \ {s}: workers'[t] = workers[t]
    BY <1>1, <2>1, WorkerAlone
  <2>3. ASSUME Fe[s] = e, Doing(s) PROVE Doing(s)'
    <3>1. Check(s) \/ Call(s)
      <4>1. workers[s].pc \notin {"start", "gate", "loop", "down", "pop", "exit"}
        BY <2>3 DEF Doing
      <4> QED  BY <1>8, <4>1 DEF Start, Gate, Look, Down, PopNothing, PopExit, Exit, At
    <3>2. CASE Check(s)
      <4>1. Set(s, [workers[s] EXCEPT !.pc = IF Failed(workers[s].fe) THEN "report" ELSE "run"])
        BY <3>2, Zenon DEF Check
      <4>2. workers[s].fe = e /\ workers[s] \in WorkerType
        BY <1>1, <2>3, Hands
      <4>3. ~Failed(e)
        BY <2>1 DEF Failed, Of
      <4>4. workers'[s].pc = "run"
        BY <1>1, <4>1, <4>2, <4>3, SlotSet DEF WorkerType
      <4> QED  BY <4>4 DEF Doing
    <3>3. CASE Call(s)
      <4>1. Set(s, [workers[s] EXCEPT !.pc = "call"])
        BY <3>3, Zenon DEF Call
      <4>2. workers[s] \in WorkerType
        BY <1>1, Hands
      <4>3. workers'[s].pc = "call"
        BY <1>1, <4>1, <4>2, SlotSet DEF WorkerType
      <4> QED  BY <4>3 DEF Doing
    <3> QED  BY <3>1, <3>2, <3>3
  <2>4. \A t \in Slots: Fe[t] = e /\ Doing(t) => Doing(t)'
    BY <2>2, <2>3 DEF Doing
  <2> QED  BY <1>3, <2>1, <2>4
<1>9. CASE Reset
  <2>1. exiting
    BY <1>9, Zenon DEF Reset
  <2> QED  BY <1>1, <2>1, Quiet
<1>10. CASE UNCHANGED vars
  <2>1. UNCHANGED <<todo, Fe, Nx, workers>>
    BY <1>10 DEF vars, Fe, Nx
  <2> QED  BY <1>3, <2>1 DEF Doing
<1> QED  BY <1>4, <1>5, <1>6, <1>7, <1>8, <1>9, <1>10 DEF Next, Worker, Stopping

LEMMA WrappedNext == IInv /\ [Next]_vars => Wrapped'
<1> SUFFICES ASSUME IInv, [Next]_vars, NEW c \in Callers, flow'[c].live, ~flow'[c].error,
                    NEW n \in Nodes(flow'[c].g), flow'[c].state[n] = "running"
             PROVE  Waiting(c, n)'
  BY DEF Wrapped
<1>1. CASE ~flow[c].live
  <2>1. InitBlk(c)
    BY <1>1, Begins
  <2>2. flow' = flow \/ \E g, k: flow' = [flow EXCEPT ![c] = NewFlow(g, k)]
    BY <2>1, Zenon DEF InitBlk
  <2>3. PICK g, k: flow' = [flow EXCEPT ![c] = NewFlow(g, k)]
    BY <1>1, <2>2
  <2>4. flow'[c] = NewFlow(g, k)
    BY <2>3 DEF IInv, TypeOK
  <2> QED  BY <2>4 DEF NewFlow
<1>2. CASE flow[c].live
  <2>1. ~Finish(c)
    <3>1. ASSUME Finish(c) PROVE FALSE
      <4>1. flow' = [flow EXCEPT ![c] = NoFlow]
        BY <3>1, Zenon DEF Finish
      <4> QED  BY <4>1 DEF IInv, TypeOK, NoFlow
    <3> QED  BY <3>1
  <2>2. Onward(c)
    BY <1>2, <2>1, OnwardNext
  <2>3. n \in Nodes(flow[c].g) /\ ~flow[c].error
    BY <2>2 DEF Onward
  <2>4. CASE flow[c].state[n] # "running"
    BY <2>2, <2>3, <2>4 DEF Onward
  <2>5. CASE flow[c].state[n] = "running"
    <3>1. Waiting(c, n)
      BY <1>2, <2>3, <2>5 DEF IInv, Wrapped
    <3> QED  BY <1>2, <2>1, <2>3, <3>1, WaitingKept
  <2> QED  BY <2>4, <2>5
<1> QED  BY <1>1, <1>2

-----------------------------------------------------------------------------
(* The wake-ups come in the order of the graph.                            *)

(* Without an error, what is settled was executed.                         *)
LEMMA SettledRan ==
  ASSUME TypeOK, Wrapped, NEW c \in Callers, flow[c].live, ~flow[c].error, NEW n \in Settled(c)
  PROVE  flow[c].state[n] = "wrapup"
<1>1. n \in Nodes(flow[c].g) /\ flow[c].state[n] # "pending" /\ ~Placed(c, n)
  BY DEF Settled
<1>2. flow[c].state[n] \in {"pending", "running", "wrapup"}
  BY <1>1, Live DEF FlowType
<1>3. ~Waiting(c, n)
  BY <1>1 DEF Waiting, Placed, Held
<1> QED  BY <1>1, <1>2, <1>3 DEF Wrapped

(* The edges that wake n, and their ends.                                  *)
LEMMA Sources ==
  ASSUME NEW g \in Blocks, NEW n \in Nodes(g), NEW e \in InEdges(g, n)
  PROVE  /\ e = <<e[1], e[2]>> /\ e[1] \in Nodes(g) /\ e[2] \in 1 .. Len(g.wake[e[1]])
         /\ g.wake[e[1]][e[2]] = n /\ Len(g.wake[e[1]]) \in Nat
<1>1. e \in Edges(g) /\ g.wake[e[1]][e[2]] = n
  BY DEF InEdges
<1>2. PICK k \in Nodes(g): e \in {k} \X DOMAIN g.wake[k]
  BY <1>1 DEF Edges
<1>3. g.wake[k] \in Seq(Nodes(g))
  BY Graph
<1>4. DOMAIN g.wake[k] = 1 .. Len(g.wake[k]) /\ Len(g.wake[k]) \in Nat
  BY <1>3
<1> QED  BY <1>1, <1>2, <1>4

(* When all that n waits for is settled, or all but one, its sources ran.  *)
LEMMA NoneOpen ==
  ASSUME TypeOK, NEW c \in Callers, flow[c].live, NEW n \in Nodes(flow[c].g),
         Cardinality(Open(c, n)) = 0
  PROVE  \A e \in InEdges(flow[c].g, n): e[1] \in Settled(c)
<1>1. Open(c, n) = {}
  BY OpenCount, FS_EmptySet
<1> QED  BY <1>1 DEF Open

LEMMA OneOpen ==
  ASSUME TypeOK, NEW c \in Callers, flow[c].live, NEW n \in Nodes(flow[c].g),
         Cardinality(Open(c, n)) = 1, NEW x \in Open(c, n)
  PROVE  \A e \in InEdges(flow[c].g, n): e = x \/ e[1] \in Settled(c)
<1>1. IsFiniteSet(Open(c, n))
  BY OpenCount
<1>2. /\ IsFiniteSet(Open(c, n) \ {x})
      /\ Cardinality(Open(c, n) \ {x}) = Cardinality(Open(c, n)) - 1
  BY <1>1, FS_RemoveElement
<1>3. Cardinality(Open(c, n) \ {x}) = 0
  BY <1>2
<1>4. Open(c, n) \ {x} = {}
  BY <1>2, <1>3, FS_EmptySet
<1> QED  BY <1>4 DEF Open

(* A block that goes on, one instruction perhaps starting: what has to be  *)
(* seen of it.                                                             *)
LEMMA OrderKept ==
  ASSUME IInv, [Next]_vars, NEW c \in Callers, flow[c].live, ~Finish(c),
         \A n \in Nodes(flow[c].g): flow'[c].state[n] = "pending" =>
             flow'[c].blocks[n] = Cardinality(Open(c, n)'),
         ~flow'[c].error =>
            \A n \in Nodes(flow[c].g): flow[c].state[n] = "pending" /\ flow'[c].state[n] # "pending" =>
               \A e \in InEdges(flow[c].g, n): e[1] \in Settled(c) \/ flow'[c].state[e[1]] = "wrapup",
         step'[c].at = "feed" => \A n \in Nodes(flow[c].g):
                                    n > flow'[c].at => flow'[c].state[n] = "pending",
         step'[c].at = "dispatch" => flow'[c].f \in Settled(c)'
  PROVE  BlockOrder(c)'
<1>1. TypeOK /\ Order /\ Wrapped /\ BlockOrder(c)
  BY DEF IInv, Order
<1>2. Onward(c)
  BY OnwardNext
<1>3. flow'[c].g = flow[c].g /\ (~flow'[c].error => ~flow[c].error) /\ flow[c].g \in Blocks
  BY <1>1, <1>2, Live DEF Onward
<1>4. ASSUME ~flow'[c].error, NEW n \in Nodes(flow[c].g), flow'[c].state[n] # "pending"
      PROVE  SourcesDone(c, n)'
  <2>1. ASSUME NEW e \in InEdges(flow[c].g, n) PROVE flow'[c].state[e[1]] = "wrapup"
    <3>1. e[1] \in Nodes(flow[c].g)
      BY <1>3, <2>1, Sources
    <3>2. CASE flow[c].state[n] # "pending"
      <4>1. flow[c].state[e[1]] = "wrapup"
        BY <1>1, <1>3, <1>4, <2>1, <3>2 DEF BlockOrder, SourcesDone
      <4> QED  BY <1>2, <3>1, <4>1 DEF Onward
    <3>3. CASE flow[c].state[n] = "pending"
      <4>1. e[1] \in Settled(c) \/ flow'[c].state[e[1]] = "wrapup"
        BY <1>4, <2>1, <3>3
      <4>2. e[1] \in Settled(c) => flow[c].state[e[1]] = "wrapup"
        BY <1>1, <1>3, <1>4, SettledRan
      <4> QED  BY <1>2, <3>1, <4>1, <4>2 DEF Onward
    <3> QED  BY <3>2, <3>3
  <2> QED  BY <1>3, <2>1 DEF SourcesDone
<1> QED  BY <1>3, <1>4 DEF BlockOrder

LEMMA OpenAs ==
  ASSUME NEW c, flow'[c].g = flow[c].g, Settled(c)' = Settled(c),
         \/ step[c].at # "dispatch" /\ step'[c].at # "dispatch"
         \/ step'[c].at = step[c].at /\ flow'[c].f = flow[c].f /\ flow'[c].at = flow[c].at
  PROVE  \A n: Open(c, n)' = Open(c, n)
BY DEF Open

LEMMA OrderBegin ==
  ASSUME IInv, [Next]_vars, NEW c \in Callers, ~flow[c].live, flow'[c].live
  PROVE  BlockOrder(c)'
<1> USE DEF queue, pool, bounds
<1>1. TypeOK /\ Owned /\ Movement /\ Counts /\ DOMAIN flow = Callers /\ DOMAIN step = Callers
  BY DEF IInv, TypeOK
<1>2. InitBlk(c)
  BY Begins
<1>3. UNCHANGED <<workers, todo>>
  BY <1>2, Zenon DEF InitBlk
<1>4. flow' # flow
  OBVIOUS
<1>5. /\ \E g \in (IF c \in Clients THEN Graphs[c] ELSE Called):
            flow' = [flow EXCEPT ![c] = NewFlow(g, ClientOf(c))]
      /\ step' = [step EXCEPT ![c].at = "feed"]
  BY <1>2, <1>4, Zenon DEF InitBlk, Goto
<1>6. \E g \in Blocks: \E k: flow' = [flow EXCEPT ![c] = NewFlow(g, k)]
  BY <1>5, Names
<1>7. PICK g, k: g \in Blocks /\ flow' = [flow EXCEPT ![c] = NewFlow(g, k)]
  BY <1>6
<1>8. Settled(c)' = {}
  BY <1>1, <1>3, <1>7, Opened
<1>9. /\ flow'[c].g = g /\ flow'[c].blocks = g.blocks
      /\ \A n \in Nodes(g): flow'[c].state[n] = "pending"
      /\ step'[c].at = "feed"
  <2>1. step[c] \in StepType
    BY <1>1 DEF TypeOK
  <2>2. step'[c].at = "feed"
    BY <1>1, <1>5, <2>1 DEF StepType
  <2> QED  BY <1>1, <1>7, <2>2 DEF NewFlow
<1>10. \A n \in Nodes(g): Open(c, n)' = InEdges(g, n)
  BY <1>8, <1>9 DEF Open
<1>11. \A n \in Nodes(g): g.blocks[n] = Cardinality(InEdges(g, n))
  BY <1>7, EdgeCount
<1> QED  BY <1>9, <1>10, <1>11 DEF BlockOrder

LEMMA OrderFeed ==
  ASSUME IInv, [Next]_vars, NEW c \in Callers, Feed(c)
  PROVE  BlockOrder(c)'
<1> USE DEF queue, pool, bounds
<1>1. TypeOK /\ Control /\ Order
  BY DEF IInv
<1>2. step[c].at = "feed"
  BY Zenon DEF Feed
<1>3. /\ flow[c].live /\ flow[c].g \in Blocks /\ flow[c] \in FlowType(flow[c].g) /\ BlockOrder(c)
      /\ ~Finish(c) /\ ~TakeDone(c) /\ DOMAIN flow = Callers
  BY <1>1, <1>2, Live DEF Control, Calling, InBlock, Order, Finish, TakeDone, TypeOK
<1>4. Settled(c)' = Settled(c) /\ flow'[c].g = flow[c].g /\ flow'[c].live
  BY <1>3, MovedNext, GoesOn DEF Moved
<1>5. CASE Ready(c) = {}
  <2>1. flow' = flow /\ step' = [step EXCEPT ![c].at = "wait"]
    BY <1>1, <1>5, FeedNext, Zenon DEF Goto
  <2>2. step'[c].at = "wait"
    BY <1>1, <2>1 DEF TypeOK, StepType
  <2>3. \A n: Open(c, n)' = Open(c, n)
    BY <1>2, <1>4, <2>2, OpenAs
  <2> QED  BY <1>3, <2>1, <2>2, <2>3, OrderKept DEF BlockOrder
<1>6. CASE Ready(c) # {}
  <2> DEFINE st == [flow[c].state EXCEPT ![FirstReady(c)] = "running"]
  <2>1. PICK i: i = FirstReady(c)
    OBVIOUS
  <2>2. /\ i \in Ready(c) /\ i \in Nodes(flow[c].g) /\ step' = step
        /\ flow' = [flow EXCEPT ![c] = [@ EXCEPT !.state[FirstReady(c)] = "running", !.at = FirstReady(c)]]
    BY <1>1, <1>6, <2>1, FeedNext, Zenon
  <2>3. flow' = [flow EXCEPT ![c] = [flow[c] EXCEPT !.state = st, !.at = i]]
    BY <1>3, <2>1, <2>2 DEF FlowType
  <2>4. \A n \in Nodes(flow[c].g): st[n] = IF n = i THEN "running" ELSE flow[c].state[n]
    BY <1>3, <2>1 DEF FlowType
  <2> HIDE DEF st
  <2>5. flow'[c].state = st /\ flow'[c].error = flow[c].error /\ flow'[c].blocks = flow[c].blocks
        /\ flow'[c].at = i
    BY <1>3, <2>3 DEF FlowType
  <2>6. \A n: Open(c, n)' = Open(c, n)
    BY <1>2, <1>4, <2>2, OpenAs
  <2>7. i > flow[c].at /\ flow[c].blocks[i] = 0 /\ flow[c].state[i] = "pending"
    BY <1>2, <1>3, <2>2 DEF BlockOrder, Ready
  <2>8. \A e \in InEdges(flow[c].g, i): e[1] \in Settled(c)
    <3>1. Cardinality(Open(c, i)) = 0
      BY <1>3, <2>2, <2>7 DEF BlockOrder
    <3> QED  BY <1>1, <1>3, <2>2, <3>1, NoneOpen
  <2>9. \A n \in Nodes(flow[c].g): flow'[c].state[n] = "pending" =>
             flow'[c].blocks[n] = Cardinality(Open(c, n)')
    BY <1>3, <2>4, <2>5, <2>6 DEF BlockOrder
  <2>10. \A n \in Nodes(flow[c].g): flow[c].state[n] = "pending" /\ flow'[c].state[n] # "pending" =>
               \A e \in InEdges(flow[c].g, n): e[1] \in Settled(c)
    BY <2>4, <2>5, <2>8
  <2>11. \A n \in Nodes(flow[c].g): n > flow'[c].at => flow'[c].state[n] = "pending"
    <3>1. ASSUME NEW n \in Nodes(flow[c].g), n > i PROVE flow[c].state[n] = "pending" /\ n # i
      <4>1. n \in Nat /\ i \in Nat /\ flow[c].at \in Nat
        BY <1>3, <2>2, Graph DEF FlowType
      <4>2. n > flow[c].at /\ n # i
        BY <2>7, <3>1, <4>1
      <4> QED  BY <1>2, <1>3, <4>2 DEF BlockOrder
    <3> QED  BY <2>4, <2>5, <3>1
  <2>12. step'[c].at # "dispatch"
    BY <1>2, <2>2
  <2> QED  BY <1>3, <2>9, <2>10, <2>11, <2>12, OrderKept
<1> QED  BY <1>5, <1>6

LEMMA OrderTake ==
  ASSUME IInv, [Next]_vars, NEW c \in Callers, TakeDone(c)
  PROVE  BlockOrder(c)'
<1>1. TypeOK /\ Control /\ Order /\ Owned /\ Movement /\ Counts
  BY DEF IInv
<1>2. Counting(c)
  BY <1>1, CountsOne
<1>3. /\ flow[c].live /\ flow[c].g \in Blocks /\ step[c].at = "wait" /\ step'[c].at = "dispatch"
      /\ flow'[c].g = flow[c].g /\ flow'[c].state = flow[c].state
      /\ flow'[c].blocks = flow[c].blocks /\ flow'[c].error = flow[c].error
      /\ flow'[c].at = 0 /\ flow'[c].live
  BY <1>2, Zenon DEF Counting
<1>4. Settled(c)' = Settled(c) \cup {flow'[c].f} /\ flow'[c].f \notin Settled(c)
  BY <1>1, <1>2, CountedOne
<1>5. BlockOrder(c) /\ ~Finish(c)
  <2>1. ASSUME Finish(c) PROVE FALSE
    <3>1. flow' = [flow EXCEPT ![c] = NoFlow]
      BY <2>1, Zenon DEF Finish
    <3> QED  BY <1>1, <1>3, <3>1 DEF TypeOK, NoFlow
  <2> QED  BY <1>1, <1>3, <2>1 DEF Order
<1>6. ASSUME NEW n \in Nodes(flow[c].g) PROVE Open(c, n)' = Open(c, n)
  <2>1. \A e \in InEdges(flow[c].g, n): e[2] > 0
    BY <1>3, Sources
  <2> QED  BY <1>3, <1>4, <2>1 DEF Open
<1> QED  BY <1>3, <1>4, <1>5, <1>6, OrderKept DEF BlockOrder

LEMMA OrderDispatch ==
  ASSUME IInv, [Next]_vars, NEW c \in Callers, Dispatch(c)
  PROVE  BlockOrder(c)'
<1>1. TypeOK /\ Control /\ Order
  BY DEF IInv
<1>2. step[c].at = "dispatch" /\ flow[c].at < Len(flow[c].g.wake[flow[c].f]) /\ step' = step
  BY ZenonT(30) DEF Dispatch
<1>3. PICK i, f, a: i = Woken(c) /\ f = flow[c].f /\ a = flow[c].at + 1
  BY SMTT(60)
<1>4. /\ flow[c].live /\ flow[c].g \in Blocks /\ flow[c] \in FlowType(flow[c].g)
      /\ flow[c].at \in Nat /\ a \in Nat
      /\ i \in Nodes(flow[c].g) /\ <<f, a>> \in Open(c, i)
      /\ flow[c].g.wake[f][a] = i
  <2>1. /\ flow[c].live /\ flow[c].g \in Blocks /\ flow[c] \in FlowType(flow[c].g)
        /\ flow[c].at \in Nat /\ Woken(c) \in Nodes(flow[c].g)
        /\ <<flow[c].f, flow[c].at + 1>> \in Open(c, Woken(c))
    BY <1>1, <1>2, WakeUp, ZenonT(60)
  <2>2. flow[c].g.wake[f][a] = i
    BY <1>3, ZenonT(60) DEF Woken
  <2> QED  BY <1>3, <2>1, <2>2, SMTT(60)
<1>5. BlockOrder(c) /\ ~Finish(c) /\ ~TakeDone(c) /\ f \in Settled(c)
  BY <1>1, <1>2, <1>3, <1>4, ZenonT(30) DEF Order, BlockOrder, Finish, TakeDone
<1>6. Settled(c)' = Settled(c)
  BY <1>4, <1>5, MovedNext DEF Moved
<1>7. /\ flow'[c].live /\ flow'[c].g = flow[c].g /\ flow'[c].error = flow[c].error
      /\ flow'[c].f = f /\ flow'[c].at = a
      /\ \A n \in Nodes(flow[c].g):
           /\ flow'[c].state[n] = IF Wakes(c) /\ n = i THEN "running" ELSE flow[c].state[n]
           /\ flow'[c].blocks[n] = IF n = i /\ flow[c].state[n] = "pending" THEN flow[c].blocks[n] - 1
                                   ELSE flow[c].blocks[n]
  BY <1>1, <1>3, DispatchNext, ZenonT(60)
<1>8. ASSUME NEW n \in Nodes(flow[c].g)
      PROVE  Open(c, n)' = IF n = i THEN Open(c, n) \ {<<f, a>>} ELSE Open(c, n)
  <2>1. ASSUME NEW e \in InEdges(flow[c].g, n)
        PROVE  /\ e = <<f, a>> => n = i
               /\ e[1] = f /\ e # <<f, a>> => (e[2] > flow[c].at <=> e[2] > a)
    <3>1. e = <<e[1], e[2]>> /\ e[2] \in Nat /\ flow[c].g.wake[e[1]][e[2]] = n
      BY <1>4, <2>1, Sources
    <3> QED  BY <1>3, <1>4, <3>1
  <2>2. Open(c, n)' = {e \in InEdges(flow[c].g, n) : e[1] \notin Settled(c) \/ (e[1] = f /\ e[2] > a)}
    BY <1>2, <1>6, <1>7 DEF Open
  <2>3. Open(c, n) = {e \in InEdges(flow[c].g, n) : e[1] \notin Settled(c) \/ (e[1] = f /\ e[2] > flow[c].at)}
    BY <1>2, <1>3 DEF Open
  <2>4. ASSUME NEW e \in InEdges(flow[c].g, n)
        PROVE  (e[1] \notin Settled(c) \/ (e[1] = f /\ e[2] > a))
                 <=> e # <<f, a>> /\ (e[1] \notin Settled(c) \/ (e[1] = f /\ e[2] > flow[c].at))
    <3>1. CASE e = <<f, a>>
      <4>1. e[1] = f /\ e[2] = a /\ ~(a > a)
        BY <1>4, <3>1
      <4> QED  BY <1>5, <3>1, <4>1
    <3>2. CASE e # <<f, a>>
      BY <2>1, <3>2
    <3> QED  BY <3>1, <3>2
  <2>5. CASE n = i
    BY <2>2, <2>3, <2>4, <2>5
  <2>6. CASE n # i
    BY <2>1, <2>2, <2>3, <2>4, <2>6
  <2> QED  BY <2>5, <2>6
<1>9. ASSUME NEW n \in Nodes(flow[c].g), flow'[c].state[n] = "pending"
      PROVE  flow'[c].blocks[n] = Cardinality(Open(c, n)')
  <2>1. flow[c].state[n] = "pending"
    BY <1>7, <1>9
  <2>2. flow[c].blocks[n] = Cardinality(Open(c, n))
    BY <1>5, <2>1 DEF BlockOrder
  <2>3. CASE n = i
    <3>1. Cardinality(Open(c, n) \ {<<f, a>>}) = Cardinality(Open(c, n)) - 1
      BY <1>1, <1>4, <2>3, OpenCount, FS_RemoveElement
    <3> QED  BY <1>7, <1>8, <2>1, <2>2, <2>3, <3>1
  <2>4. CASE n # i
    BY <1>7, <1>8, <2>2, <2>4
  <2> QED  BY <2>3, <2>4
<1>10. ASSUME NEW n \in Nodes(flow[c].g), flow[c].state[n] = "pending", flow'[c].state[n] # "pending",
              NEW e \in InEdges(flow[c].g, n)
       PROVE  e[1] \in Settled(c)
  <2>1. n = i /\ Wakes(c)
    BY <1>7, <1>10
  <2>2. Cardinality(Open(c, i)) = 1
    BY <1>3, <1>4, <1>5, <2>1 DEF Wakes, BlockOrder
  <2>3. e = <<f, a>> \/ e[1] \in Settled(c)
    BY <1>1, <1>4, <1>10, <2>1, <2>2, OneOpen
  <2> QED  BY <1>5, <2>3
<1>11. step'[c].at = "dispatch" /\ flow'[c].f \in Settled(c)'
  BY <1>2, <1>5, <1>6, <1>7
<1> QED  BY <1>4, <1>5, <1>9, <1>10, <1>11, OrderKept

LEMMA OrderDispatched ==
  ASSUME IInv, [Next]_vars, NEW c \in Callers, Dispatched(c)
  PROVE  BlockOrder(c)'
<1>1. TypeOK /\ Control /\ Order
  BY DEF IInv
<1>2. /\ step[c].at = "dispatch" /\ flow[c].at = Len(flow[c].g.wake[flow[c].f]) /\ flow' = flow
      /\ step' = [step EXCEPT ![c].at = "wait"]
  BY Zenon DEF Dispatched, Goto
<1>3. flow[c].live /\ flow[c].g \in Blocks /\ BlockOrder(c) /\ ~Finish(c) /\ ~TakeDone(c)
  BY <1>1, <1>2, Live DEF Control, Calling, InBlock, Order, Finish, TakeDone
<1>4. Settled(c)' = Settled(c)
  BY <1>3, MovedNext DEF Moved
<1>5. step'[c].at = "wait"
  BY <1>1, <1>2 DEF TypeOK, StepType
<1>6. ASSUME NEW n \in Nodes(flow[c].g) PROVE Open(c, n)' = Open(c, n)
  <2>1. ASSUME NEW e \in InEdges(flow[c].g, n), e[1] = flow[c].f PROVE ~(e[2] > flow[c].at)
    <3>1. e[2] \in 1 .. Len(flow[c].g.wake[e[1]]) /\ Len(flow[c].g.wake[e[1]]) \in Nat
      BY <1>3, <2>1, Sources
    <3> QED  BY <1>2, <2>1, <3>1, SMTT(60)
  <2> QED  BY <1>2, <1>4, <1>5, <2>1 DEF Open
<1> QED  BY <1>2, <1>3, <1>5, <1>6, OrderKept DEF BlockOrder

LEMMA OrderRan ==
  ASSUME IInv, [Next]_vars, NEW c \in Callers, NEW s \in Slots, NEW err \in BOOLEAN, Ran(s, err),
         Fe[s][1] = c
  PROVE  BlockOrder(c)'
<1>1. TypeOK /\ Control /\ Order /\ Owned /\ Movement
  BY DEF IInv
<1>2. PICK n: n = Fe[s][2]
  OBVIOUS
<1>3. Runs(s, c, n, err)
  BY <1>1, <1>2, RanEffect
<1>4. /\ flow[c].live /\ flow[c].g \in Blocks /\ flow[c] \in FlowType(flow[c].g)
      /\ n \in Nodes(flow[c].g) /\ Fe[s] = <<c, n>> /\ ~Locked(c)
      /\ RanRecord(c, n, err, flow'[c]) /\ step' = [step EXCEPT ![s] = Outside]
      /\ c \in Callers
  BY <1>3, Zenon DEF Runs
<1>5. PICK i: i = Picked1(c, n)
  OBVIOUS
<1>6. /\ flow'[c].live /\ flow'[c].g = flow[c].g /\ flow'[c].f = flow[c].f /\ flow'[c].at = flow[c].at
      /\ flow'[c].error = (flow[c].error \/ err)
      /\ \A m \in Nodes(flow[c].g):
           /\ flow'[c].state[m] = CASE m = n -> "wrapup"
                                    [] Picks(c, n, err) /\ m = i -> "running"
                                    [] OTHER -> flow[c].state[m]
           /\ flow'[c].blocks[m] = IF Picks(c, n, err) /\ m = i THEN 0 ELSE flow[c].blocks[m]
  BY <1>4, <1>5 DEF RanRecord
(* The block's scheduler does not hold its lock.                           *)
<1>7. step[c].at = "wait" /\ step'[c].at = "wait"
  <2>1. step[c].at = "wait"
    BY <1>1, <1>4 DEF Control, Calling, InBlock, Locked
  <2>2. s # c
    <3>1. s = c => workers[s].pc = "call"
      BY <1>1, <2>1 DEF Control, Calling
    <3>2. workers[s].pc = "call" => step[s].at = "out"
      BY Zenon DEF Ran, At
    <3> QED  BY <2>1, <3>1, <3>2
  <2> QED  BY <1>1, <1>4, <2>1, <2>2 DEF TypeOK
<1>8. BlockOrder(c) /\ ~Finish(c) /\ ~TakeDone(c)
  <2>1. flow' # [flow EXCEPT ![c] = NoFlow]
    BY <1>1, <1>6 DEF TypeOK, NoFlow
  <2>2. step' # [step EXCEPT ![c].at = "dispatch"]
    BY <1>1, <1>7 DEF TypeOK, StepType
  <2>3. ~Finish(c)
    BY <2>1, Zenon DEF Finish
  <2>4. ~TakeDone(c)
    BY <2>2, Zenon DEF TakeDone, Goto
  <2> QED  BY <1>1, <1>4, <2>3, <2>4 DEF Order
<1>9. Settled(c)' = Settled(c)
  BY <1>4, <1>8, MovedNext DEF Moved
<1>10. \A m: Open(c, m)' = Open(c, m)
  BY <1>6, <1>7, <1>9, OpenAs
<1>11. n \notin Settled(c) /\ flow[c].state[n] # "pending"
  BY <1>1, <1>4 DEF Settled, Placed, Held, Movement, PlacedStarted
<1>12. ASSUME NEW m \in Nodes(flow[c].g), flow'[c].state[m] = "pending"
       PROVE  flow[c].state[m] = "pending" /\ flow'[c].blocks[m] = flow[c].blocks[m]
  <2>1. Onward(c)
    BY <1>4, <1>8, OnwardNext
  <2>2. flow[c].state[m] = "pending"
    BY <1>12, <2>1 DEF Onward
  <2>3. ~(Picks(c, n, err) /\ m = i)
    BY <1>6, <1>11, <1>12, <2>2
  <2> QED  BY <1>6, <2>2, <2>3
<1>13. \A m \in Nodes(flow[c].g): flow'[c].state[m] = "pending" =>
          flow'[c].blocks[m] = Cardinality(Open(c, m)')
  BY <1>8, <1>10, <1>12 DEF BlockOrder
(* What is picked waited only for this one.                                *)
<1>14. ASSUME NEW m \in Nodes(flow[c].g), flow[c].state[m] = "pending", flow'[c].state[m] # "pending",
              NEW e \in InEdges(flow[c].g, m)
       PROVE  e[1] \in Settled(c) \/ flow'[c].state[e[1]] = "wrapup"
  <2>1. m = i /\ Picks(c, n, err)
    BY <1>6, <1>11, <1>14
  <2>2. Eligible(flow[c], n) # {}
    BY <2>1 DEF Picks
  <2>3. /\ flow[c].blocks[i] = 1 /\ flow[c].state[i] = "pending" /\ i \in Nodes(flow[c].g)
        /\ \E j \in 1 .. Len(flow[c].g.wake[n]): flow[c].g.wake[n][j] = i
    BY <1>1, <1>4, <1>5, <2>2, Candidate, ZenonT(300)
  <2>4. PICK j \in 1 .. Len(flow[c].g.wake[n]): flow[c].g.wake[n][j] = i
    BY <2>3
  <2>5. <<n, j>> \in Open(c, i)
    <3>1. <<n, j>> \in InEdges(flow[c].g, i)
      BY <1>4, <2>4, EdgeIn
    <3> QED  BY <1>11, <3>1 DEF Open
  <2>6. Cardinality(Open(c, i)) = 1
    BY <1>8, <2>3 DEF BlockOrder
  <2>7. e = <<n, j>> \/ e[1] \in Settled(c)
    BY <1>1, <1>4, <1>14, <2>1, <2>3, <2>5, <2>6, OneOpen
  <2>8. flow'[c].state[n] = "wrapup"
    BY <1>4, <1>6, <1>11, <2>3
  <2> QED  BY <2>7, <2>8
<1> QED  BY <1>4, <1>7, <1>8, <1>13, <1>14, OrderKept, ZenonT(30)

LEMMA BlockOrderNext ==
  ASSUME IInv, [Next]_vars, NEW c \in Callers, flow'[c].live
  PROVE  BlockOrder(c)'
<1>1. CASE ~flow[c].live
  BY <1>1, OrderBegin
<1>2. ASSUME flow[c].live, ~Scheduling(c), ~RanIn(c) PROVE BlockOrder(c)'
  <2>1. Bystander(c)
    BY <1>2, Bystanders
  <2>2. /\ flow'[c].live /\ flow'[c].g = flow[c].g /\ flow'[c].state = flow[c].state
        /\ flow'[c].blocks = flow[c].blocks /\ flow'[c].error = flow[c].error
        /\ flow'[c].f = flow[c].f /\ flow'[c].at = flow[c].at /\ step'[c] = step[c]
    BY <2>1 DEF Bystander
  <2>3. ~Finish(c) /\ ~TakeDone(c) /\ BlockOrder(c)
    BY <1>2 DEF Scheduling, IInv, Order
  <2>4. Settled(c)' = Settled(c)
    BY <1>2, <2>3, MovedNext DEF Moved
  <2>5. \A n: Open(c, n)' = Open(c, n)
    BY <2>2, <2>4, OpenAs
  <2> QED  BY <1>2, <2>2, <2>3, <2>4, <2>5, OrderKept DEF BlockOrder
<1>3. ASSUME Finish(c) PROVE FALSE
  <2>1. flow' = [flow EXCEPT ![c] = NoFlow]
    BY <1>3, Zenon DEF Finish
  <2> QED  BY <2>1 DEF IInv, TypeOK, NoFlow
<1> QED  BY <1>1, <1>2, <1>3, OrderFeed, OrderTake, OrderDispatch, OrderDispatched, OrderRan
         DEF Scheduling, RanIn

(* Where a worker's step brings it.                                        *)
LEMMA PcField ==
  ASSUME NEW w \in WorkerType, NEW pc
  PROVE  /\ [w EXCEPT !.pc = pc].pc = pc
         /\ \A x: [w EXCEPT !.pc = pc, !.s = x].pc = pc
         /\ \A x: [w EXCEPT !.pc = pc, !.seen = x].pc = pc
         /\ \A x: [w EXCEPT !.pc = pc, !.fe = x].pc = pc
         /\ \A x: [w EXCEPT !.pc = pc, !.fnxt = x].pc = pc
         /\ \A x, y: [w EXCEPT !.flag = x, !.pc = pc, !.seen = y].pc = pc
<1>1. [w EXCEPT !.pc = pc].pc = pc /\ \A x: [w EXCEPT !.pc = pc, !.s = x].pc = pc
  BY DEF WorkerType
<1>2. \A x: [w EXCEPT !.pc = pc, !.seen = x].pc = pc
  BY DEF WorkerType
<1>3. \A x: [w EXCEPT !.pc = pc, !.fe = x].pc = pc
  BY DEF WorkerType
<1>4. \A x: [w EXCEPT !.pc = pc, !.fnxt = x].pc = pc
  BY DEF WorkerType
<1>5. \A x, y: [w EXCEPT !.flag = x, !.pc = pc, !.seen = y].pc = pc
  BY DEF WorkerType
<1> QED  BY <1>1, <1>2, <1>3, <1>4, <1>5

LEMMA PcSet ==
  ASSUME TypeOK, NEW s \in Slots, NEW pc, \E w: Set(s, w) /\ w.pc = pc
  PROVE  workers'[s].pc = pc
BY SlotSet

(* Where each step of a worker brings it.                                  *)
LEMMA GoesTo ==
  ASSUME TypeOK, Control, Owned, NEW s \in Slots
  PROVE  LET pc == workers'[s].pc
         IN  /\ Start(s) => pc \in {"gate", "loop"}
             /\ Gate(s) => pc = "loop"
             /\ Look(s) => pc = "down"
             /\ Down(s) => IF exiting THEN pc \in {"loop", "exit"} ELSE pc = "pop"
             /\ PopMine(s) \/ PopAny(s) => pc = "got"
             /\ PopNothing(s) => pc = "loop"
             /\ PopExit(s) => pc = "exit"
             /\ Check(s) => pc \in {"run", "report"}
             /\ Call(s) => pc = "call"
             /\ (\E err \in BOOLEAN: Ran(s, err)) => pc = "report"
             /\ Report(s) => pc \in {"got", "loop"}
             /\ Exit(s) => pc = "none"
<1>1. workers[s] \in WorkerType
  BY Hands, ZenonT(30)
<1>2. ASSUME NEW w, Set(s, w), NEW pc, w.pc = pc PROVE workers'[s].pc = pc
  BY <1>2, PcSet
<1>3. ASSUME NEW pc, Set(s, [workers[s] EXCEPT !.pc = pc]) PROVE workers'[s].pc = pc
  <2>1. [workers[s] EXCEPT !.pc = pc].pc = pc
    BY <1>1, PcField, Zenon
  <2> QED  BY <1>2, <1>3, <2>1
<1>4. ASSUME Start(s) PROVE workers'[s].pc \in {"gate", "loop"}
  <2>1. PICK pc \in {"gate", "loop"}: Set(s, [workers[s] EXCEPT !.pc = pc])
    BY <1>4 DEF Start
  <2> QED  BY <1>3, <2>1
<1>5. ASSUME Gate(s) PROVE workers'[s].pc = "loop"
  <2>1. PICK x: Set(s, [workers[s] EXCEPT !.pc = "loop", !.s = x])
    BY <1>5, Zenon DEF Gate
  <2>2. [workers[s] EXCEPT !.pc = "loop", !.s = x].pc = "loop"
    BY <1>1, PcField
  <2> QED  BY <1>2, <2>1, <2>2
<1>6. ASSUME Look(s) PROVE workers'[s].pc = "down"
  <2>1. PICK x: Set(s, [workers[s] EXCEPT !.pc = "down", !.seen = x])
    BY <1>6, Zenon DEF Look
  <2>2. [workers[s] EXCEPT !.pc = "down", !.seen = x].pc = "down"
    BY <1>1, PcField
  <2> QED  BY <1>2, <2>1, <2>2
<1>7. ASSUME Down(s) PROVE IF exiting THEN workers'[s].pc \in {"loop", "exit"} ELSE workers'[s].pc = "pop"
  <2>1. PICK pc: /\ Set(s, [workers[s] EXCEPT !.pc = pc])
                 /\ IF exiting THEN pc \in {"loop", "exit"} ELSE pc = "pop"
    BY <1>7 DEF Down, LookAgain
  <2>2. workers'[s].pc = pc
    BY <1>3, <2>1
  <2> QED  BY <2>1, <2>2
<1>8. ASSUME PopMine(s) \/ PopAny(s) PROVE workers'[s].pc = "got"
  <2>1. PICK i \in 1 .. Len(todo): Takes(s, i)
    BY <1>8, Taking
  <2>2. PICK e: Set(s, [workers[s] EXCEPT !.pc = "got", !.fe = e])
    BY <2>1, Zenon DEF Takes
  <2>3. [workers[s] EXCEPT !.pc = "got", !.fe = e].pc = "got"
    BY <1>1, PcField
  <2> QED  BY <1>2, <2>2, <2>3
<1>9. /\ PopNothing(s) => workers'[s].pc = "loop"
      /\ PopExit(s) => workers'[s].pc = "exit"
      /\ Call(s) => workers'[s].pc = "call"
  BY <1>3, Zenon DEF PopNothing, PopExit, Call
<1>10. ASSUME Check(s) PROVE workers'[s].pc \in {"run", "report"}
  <2>1. PICK pc \in {"run", "report"}: Set(s, [workers[s] EXCEPT !.pc = pc])
    BY <1>10 DEF Check
  <2> QED  BY <1>3, <2>1
<1>11. ASSUME NEW err \in BOOLEAN, Ran(s, err) PROVE workers'[s].pc = "report"
  <2>1. PICK x: Set(s, [workers[s] EXCEPT !.pc = "report", !.fnxt = x])
    BY <1>11, Zenon DEF Ran
  <2>2. [workers[s] EXCEPT !.pc = "report", !.fnxt = x].pc = "report"
    BY <1>1, PcField
  <2> QED  BY <1>2, <2>1, <2>2
<1>12. ASSUME Report(s) PROVE workers'[s].pc \in {"got", "loop"}
  <2>1. Reports(s, Fe[s][1], Fe[s][2])
    BY <1>12, Reporting
  <2> QED  BY <2>1, ZenonT(60) DEF Reports
<1>13. ASSUME Exit(s) PROVE workers'[s].pc = "none"
  <2>1. Set(s, [workers[s] EXCEPT !.flag = "EXITED", !.pc = "none", !.seen = Nobody])
    BY <1>13, Zenon DEF Exit
  <2>2. [workers[s] EXCEPT !.flag = "EXITED", !.pc = "none", !.seen = Nobody].pc = "none"
    BY <1>1 DEF WorkerType
  <2> QED  BY <1>2, <2>1, <2>2
<1> QED  BY <1>4, <1>5, <1>6, <1>7, <1>8, <1>9, <1>10, <1>11, <1>12, <1>13

(* A worker that begins to execute: the instruction has started, so its    *)
(* sources ran.                                                            *)
LEMMA ExecutingNext ==
  ASSUME IInv, [Next]_vars, NEW s \in Slots, Executing(s)'
  PROVE  SourcesDone(Fe[s][1], Fe[s][2])'
<1> USE DEF queue, pool, bounds
<1>1. TypeOK /\ Fresh /\ Control /\ Order /\ Owned /\ Movement
  BY DEF IInv
(* It held it before.                                                      *)
<1>2. /\ Fe'[s] = Fe[s] /\ Running(s)
      /\ Executing(s) \/ (Check(s) /\ ~Failed(workers[s].fe))
  <2> DEFINE P == /\ Fe'[s] = Fe[s] /\ Running(s)
                  /\ Executing(s) \/ (Check(s) /\ ~Failed(workers[s].fe))
  <2>1. ASSUME Fe'[s] = Fe[s], workers'[s].pc = workers[s].pc PROVE P
    BY <2>1 DEF Executing, Running
  <2> HIDE DEF P
  <2>2. ASSUME \/ \E d \in Clients: \E k \in Depths[d]: Enter(d, k)
               \/ \E d \in Callers: Caller(d)
               \/ Stop \/ StopSlot
        PROVE  P
    <3>1. Kept(s)
      BY <1>1, <2>2, ThreadKept
    <3>2. Fe' = Fe
      BY <1>1, <2>2, HandsKept
    <3>3. workers'[s].pc = workers[s].pc
      BY <3>1 DEF Kept, Executing
    <3> QED  BY <2>1, <3>2, <3>3
  <2>3. ASSUME NEW t \in Slots, t # s, Worker(t) PROVE P
    <3>1. workers'[s] = workers[s]
      BY <1>1, <2>3, WorkerAlone
    <3> QED  BY <2>1, <3>1 DEF Fe
  <2>4. ASSUME Worker(s) PROVE P
    <3>1. workers[s] \in WorkerType
      BY <1>1, Hands
    <3>2. ASSUME NEW w, Set(s, w), w.pc \notin {"run", "call"} PROVE FALSE
      <4>1. workers'[s] = w
        BY <1>1, <3>2, SlotSet
      <4> QED  BY <3>2, <4>1 DEF Executing
    <3>3. CASE Call(s)
      <4>1. Executing(s) /\ Running(s)
        BY <3>3, Zenon DEF Call, At, Executing, Running
      <4>2. Fe' = Fe
        BY <1>1, <3>3, Still DEF Rest
      <4> QED  BY <4>1, <4>2 DEF P
    <3>4. CASE Check(s)
      <4>1. /\ Set(s, [workers[s] EXCEPT !.pc = IF Failed(workers[s].fe) THEN "report" ELSE "run"])
            /\ workers[s].pc = "got"
        BY <3>4, Zenon DEF Check, At
      <4>2. Fe' = Fe
        BY <1>1, <3>4, Still DEF Rest
      <4>3. ~Failed(workers[s].fe)
        <5>1. ASSUME Failed(workers[s].fe) PROVE FALSE
          <6>1. Set(s, [workers[s] EXCEPT !.pc = "report"])
            BY <4>1, <5>1
          <6>2. [workers[s] EXCEPT !.pc = "report"].pc = "report"
            BY <3>1 DEF WorkerType
          <6> QED  BY <3>2, <6>1, <6>2
        <5> QED  BY <5>1
      <4>4. Running(s)
        BY <4>1 DEF Running
      <4> QED  BY <3>4, <4>2, <4>3, <4>4 DEF P
    <3>5. CASE ~Call(s) /\ ~Check(s)
      <4>1. workers'[s].pc \notin {"run", "call"}
        <5>1. ~exiting \/ exiting
          OBVIOUS
        <5> QED  BY <1>1, <2>4, <3>5, <5>1, GoesTo DEF Worker
      <4> QED  BY <4>1 DEF Executing
    <3> QED  BY <3>3, <3>4, <3>5
  <2>5. CASE Reset
    <3>1. workers'[s].pc = "none"
      BY <2>5 DEF Reset, NoThread
    <3> QED  BY <3>1 DEF Executing
  <2>6. CASE UNCHANGED vars
    <3>1. workers' = workers
      BY <2>6, Zenon DEF vars
    <3>2. Fe' = Fe
      BY <3>1 DEF Fe
    <3> QED  BY <2>1, <3>1, <3>2 DEF P
  <2> QED  BY <2>2, <2>3, <2>4, <2>5, <2>6 DEF Next, Stopping, P
<1>3. PICK c, n: c = Fe[s][1] /\ n = Fe[s][2]
  OBVIOUS
<1>4. /\ Fe[s] # Nobody /\ Fe[s] = <<c, n>> /\ Fe[s] = workers[s].fe /\ c \in Callers
      /\ flow[c].live /\ n \in Nodes(flow[c].g) /\ flow[c].g \in Blocks
  BY <1>1, <1>2, <1>3, Carried DEF OfBlock
<1>5. ~Finish(c)
  <2>1. ASSUME Finish(c) PROVE FALSE
    <3>1. Complete(flow[c])
      BY <2>1, Zenon DEF Finish
    <3> QED  BY <1>3, <1>4, <3>1, AllCounted DEF IInv
  <2> QED  BY <2>1
<1>6. Onward(c)
  BY <1>4, <1>5, OnwardNext
<1>7. SourcesDone(c, n)
  <2>1. CASE Executing(s)
    BY <1>1, <1>3, <2>1 DEF Order
  <2>2. CASE ~Failed(workers[s].fe)
    <3>1. ~flow[c].error
      BY <1>4, <2>2 DEF Failed, Of
    <3>2. flow[c].state[n] # "pending"
      BY <1>1, <1>4 DEF Movement, PlacedStarted, Placed, Held
    <3> QED  BY <1>1, <1>4, <3>1, <3>2 DEF Order, BlockOrder
  <2> QED  BY <1>2, <2>1, <2>2
<1>8. SourcesDone(c, n)'
  <2>1. \A e \in InEdges(flow[c].g, n): e[1] \in Nodes(flow[c].g)
    BY <1>4, Sources
  <2> QED  BY <1>6, <1>7, <2>1 DEF SourcesDone, Onward
<1>9. Fe'[s][1] = c /\ Fe'[s][2] = n
  BY <1>2, <1>3
<1> QED  BY <1>8, <1>9 DEF SourcesDone

LEMMA OrderNext == IInv /\ [Next]_vars => Order'
<1> SUFFICES ASSUME IInv, [Next]_vars PROVE Order'
  OBVIOUS
<1>1. \A c \in Callers: flow'[c].live => BlockOrder(c)'
  BY BlockOrderNext
<1>2. \A s \in Slots: Executing(s)' => SourcesDone(Fe[s][1], Fe[s][2])'
  BY ExecutingNext
<1> QED  BY <1>1, <1>2 DEF Order

-----------------------------------------------------------------------------
(* The invariant.                                                          *)

LEMMA Initially == Init => IInv
<1> SUFFICES ASSUME Init PROVE IInv
  OBVIOUS
<1>1. /\ workers = [s \in Slots |-> NoThread] /\ todo = <<>> /\ sema = 0 /\ exitcount = 0
      /\ flow = [c \in Callers |-> NoFlow] /\ step = [c \in Callers |-> Outside]
      /\ created = FALSE /\ exiting = FALSE /\ stopper = [at |-> 0, joining |-> FALSE]
  BY DEF Init
<1>2. /\ \A s \in Slots: workers[s] = NoThread /\ Fe[s] = Nobody /\ Nx[s] = Nobody
      /\ \A c \in Callers: /\ flow[c] = NoFlow /\ ~flow[c].live
                           /\ step[c] = Outside /\ step[c].at = "out"
      /\ Len(todo) = 0
  BY <1>1 DEF Fe, Nx, NoThread, NoFlow, Outside
<1>3. TypeOK
  <2>1. NoThread \in WorkerType /\ Outside \in StepType /\ <<>> \in Seq(Events)
    BY DEF NoThread, WorkerType, ClientOrNull, Outside, StepType
  <2> QED  BY <1>1, <2>1 DEF TypeOK
<1>4. Fresh
  BY <1>1, <1>2 DEF Fresh
<1>5. Control
  <2>1. \A c \in Callers: Calling(c)
    BY <1>2 DEF Calling, InBlock
  <2>2. \A s \in Slots: Holding(s) /\ Vacant(s)
    BY <1>2 DEF Holding, Vacant, Running, NoThread
  <2> QED  BY <1>1, <2>1, <2>2 DEF Control, Ceased
<1>6. \A e \in Events: ~Held(e)
  <2>1. \A e \in Events: e # Nobody
    BY DataflowAssumption DEF Events, Callers
  <2> QED  BY <1>2, <2>1 DEF Held, InSeq
<1>7. Owned /\ Counts /\ Wrapped
  BY <1>2, <1>6 DEF Owned, Counts, Wrapped
<1>8. Movement
  BY <1>2 DEF Movement, Distinct, HandsApart, OffQueue
<1>9. Order
  BY <1>2 DEF Order, Executing, NoThread
<1> QED  BY <1>3, <1>4, <1>5, <1>7, <1>8, <1>9 DEF IInv

LEMMA Inductive == IInv /\ [Next]_vars => IInv'
<1> SUFFICES ASSUME IInv, [Next]_vars PROVE IInv'
  OBVIOUS
<1>1. TypeOK'
  BY TypeNext DEF IInv
<1>2. Fresh' /\ Control'
  BY ControlNext
<1>3. Owned' /\ Movement' /\ Counts'
  BY MovedNext DEF Moved
<1>4. Wrapped'
  BY WrappedNext
<1>5. Order'
  BY OrderNext
<1> QED  BY <1>1, <1>2, <1>3, <1>4, <1>5 DEF IInv

(* In every state, with any number of clients, workers and blocks: the     *)
(* values have their types, the threads are where mal_dataflow.c says, the *)
(* instructions of the blocks are in one place each, and the blocks are in *)
(* the order of their graphs.                                              *)
THEOREM Invariant == Spec => []IInv
BY Initially, Inductive, PTL DEF Spec

(* The table of workers, the queues, the blocks and the callers keep the   *)
(* values that their declarations in mal_dataflow.c allow.                 *)
THEOREM TypeCorrect == Spec => []TypeOK
<1>1. IInv => TypeOK
  BY DEF IInv
<1> QED  BY <1>1, Invariant, PTL

(* Where an instruction is: Places says at which position of which queue,  *)
(* Placed only whether it is somewhere.                                    *)
LEMMA Where ==
  ASSUME TypeOK, NEW c \in Callers, flow[c].live, NEW n \in Nodes(flow[c].g)
  PROVE  /\ \A p \in Places(<<c, n>>):
              \/ \E i \in 1 .. Len(todo): p = <<"todo", i>> /\ todo[i] = <<c, n>>
              \/ \E s \in Slots: p = <<"fe", s>> /\ Fe[s] = <<c, n>>
              \/ \E s \in Slots: p = <<"fnxt", s>> /\ Nx[s] = <<c, n>>
              \/ \E i \in 1 .. Len(flow[c].done): p = <<"done", i>> /\ flow[c].done[i] = n
         /\ Places(<<c, n>>) # {} <=> Placed(c, n)
<1>1. /\ DOMAIN todo = 1 .. Len(todo) /\ DOMAIN flow[c].done = 1 .. Len(flow[c].done)
      /\ \A s \in Slots: Fe[s] = workers[s].fe /\ Nx[s] = workers[s].fnxt
  <2>1. todo \in Seq(Events) /\ flow[c].done \in Seq(Nodes(flow[c].g))
    BY Live DEF TypeOK, FlowType
  <2> QED  BY <2>1 DEF Fe, Nx
<1>2. Of(<<c, n>>) = flow[c] /\ <<c, n>>[2] = n
  BY DEF Of
<1>3. \A p: p \in Places(<<c, n>>) <=>
              \/ \E i \in 1 .. Len(todo): p = <<"todo", i>> /\ todo[i] = <<c, n>>
              \/ \E s \in Slots: p = <<"fe", s>> /\ Fe[s] = <<c, n>>
              \/ \E s \in Slots: p = <<"fnxt", s>> /\ Nx[s] = <<c, n>>
              \/ \E i \in 1 .. Len(flow[c].done): p = <<"done", i>> /\ flow[c].done[i] = n
  BY <1>1, <1>2 DEF Places
<1>4. ASSUME Placed(c, n) PROVE Places(<<c, n>>) # {}
  <2>1. CASE InSeq(<<c, n>>, todo)
    BY <1>3, <2>1 DEF InSeq
  <2>2. CASE InSeq(n, flow[c].done)
    BY <1>3, <2>2 DEF InSeq
  <2>3. ASSUME NEW s \in Slots, Fe[s] = <<c, n>> \/ Nx[s] = <<c, n>> PROVE Places(<<c, n>>) # {}
    BY <1>3, <2>3
  <2> QED  BY <1>4, <2>1, <2>2, <2>3 DEF Placed, Held
<1>5. ASSUME NEW p \in Places(<<c, n>>) PROVE Placed(c, n)
  BY <1>3, <1>5 DEF Placed, Held, InSeq
<1> QED  BY <1>3, <1>4, <1>5

LEMMA Single ==
  ASSUME TypeOK, Movement, NEW c \in Callers, flow[c].live, NEW n \in Nodes(flow[c].g),
         NEW p \in Places(<<c, n>>), NEW q \in Places(<<c, n>>)
  PROVE  p = q
<1> DEFINE e == <<c, n>>
<1>1. e # Nobody
  BY DataflowAssumption, Live, Graph DEF Callers
<1>2. /\ Distinct(todo)
      /\ \A s, t \in Slots: HandsApart(s, t)
      /\ \A s \in Slots: OffQueue(s)
      /\ DoneApart(c)
  BY DEF Movement
<1>3. /\ Distinct(flow[c].done)
      /\ InSeq(n, flow[c].done) => ~Held(e)
  BY <1>2 DEF DoneApart
<1> HIDE DEF e
<1>4. /\ \A i, j \in 1 .. Len(todo): todo[i] = e /\ todo[j] = e => i = j
      /\ \A i, j \in 1 .. Len(flow[c].done): flow[c].done[i] = n /\ flow[c].done[j] = n => i = j
  BY <1>2, <1>3 DEF Distinct
<1>5. /\ \A s, t \in Slots: Fe[s] = e /\ Fe[t] = e => s = t
      /\ \A s, t \in Slots: Nx[s] = e /\ Nx[t] = e => s = t
      /\ \A s, t \in Slots: ~(Fe[s] = e /\ Nx[t] = e)
  BY <1>1, <1>2 DEF HandsApart
<1>6. \A s \in Slots, i \in 1 .. Len(todo): todo[i] = e => Fe[s] # e /\ Nx[s] # e
  BY <1>1, <1>2 DEF OffQueue, InSeq
<1>7. \A j \in 1 .. Len(flow[c].done): flow[c].done[j] = n =>
          /\ \A i \in 1 .. Len(todo): todo[i] # e
          /\ \A s \in Slots: Fe[s] # e /\ Nx[s] # e
  BY <1>3 DEF Held, InSeq
<1>8. \A x \in Places(e):
          \/ \E i \in 1 .. Len(todo): x = <<"todo", i>> /\ todo[i] = e
          \/ \E s \in Slots: x = <<"fe", s>> /\ Fe[s] = e
          \/ \E s \in Slots: x = <<"fnxt", s>> /\ Nx[s] = e
          \/ \E i \in 1 .. Len(flow[c].done): x = <<"done", i>> /\ flow[c].done[i] = n
  BY Where DEF e
<1>9. p \in Places(e) /\ q \in Places(e)
  BY DEF e
<1> QED  BY <1>4, <1>5, <1>6, <1>7, <1>8, <1>9

(* Every instruction that is no longer pending is in one queue, with one   *)
(* worker, or counted once by the scheduler of its block, however many     *)
(* threads take, hand on and report instructions at the same time.         *)
THEOREM OnePlaceKept == Spec => []OnePlace
<1>1. IInv => OnePlace
  <2> SUFFICES ASSUME IInv, NEW c \in Callers, flow[c].live
               PROVE  /\ \A n \in Nodes(flow[c].g):
                          /\ \A p, q \in Places(<<c, n>>): p = q
                          /\ Places(<<c, n>>) # {} => n \in Started(c)
                      /\ Cardinality(Counted(c)) = flow[c].tasks
    BY DEF OnePlace
  <2>1. TypeOK /\ Movement /\ Counts
    BY DEF IInv
  <2>2. \A n \in Nodes(flow[c].g): Places(<<c, n>>) # {} <=> Placed(c, n)
    BY <2>1, Where
  <2>3. \A n \in Nodes(flow[c].g): Placed(c, n) => n \in Started(c)
    BY <2>1 DEF Movement, PlacedStarted, Started
  <2>4. Counted(c) = Settled(c)
    BY <2>2 DEF Counted, Settled, Started
  <2>5. \A n \in Nodes(flow[c].g): \A p, q \in Places(<<c, n>>): p = q
    BY <2>1, Single
  <2> QED  BY <2>1, <2>2, <2>3, <2>4, <2>5 DEF Counts
<1> QED  BY <1>1, Invariant, PTL

(* runMALdataflow frees a block only when no queue and no worker of the    *)
(* pool has an instruction of it any more.                                 *)
THEOREM FreedLastKept == Spec => []FreedLast
<1>1. IInv => FreedLast
  <2> SUFFICES ASSUME IInv PROVE FreedLast
    OBVIOUS
  <2>1. TypeOK /\ Control /\ Owned
    BY DEF IInv
  <2>2. \A i \in DOMAIN todo: OfBlock(todo[i])
    <3>1. DOMAIN todo = 1 .. Len(todo)
      BY <2>1 DEF TypeOK
    <3> QED  BY <2>1, <3>1, OwnedHands
  <2>3. ASSUME NEW s \in Slots
        PROVE  /\ Running(s) => OfBlock(workers[s].fe)
               /\ workers[s].fnxt # Nobody => OfBlock(workers[s].fnxt)
    <3>1. Fe[s] = workers[s].fe /\ Nx[s] = workers[s].fnxt
      BY DEF Fe, Nx
    <3> QED  BY <2>1, <3>1, OwnedHands DEF Control, Holding
  <2> QED  BY <2>2, <2>3 DEF FreedLast
<1> QED  BY <1>1, Invariant, PTL

(* When DFLOWscheduler has counted as many instructions as the block has,  *)
(* every one was executed, or the caller gets the error of one of them.    *)
THEOREM AllExecutedKept == Spec => []AllExecuted
<1>1. IInv => AllExecuted
  <2> SUFFICES ASSUME IInv, NEW c \in Callers, step[c].at = "wait", Complete(flow[c]),
                      ~flow[c].error, NEW n \in Nodes(flow[c].g)
               PROVE  flow[c].state[n] = "wrapup"
    BY DEF AllExecuted
  <2>1. TypeOK /\ Control /\ Owned /\ Counts /\ Wrapped
    BY DEF IInv
  <2>2. flow[c].live
    BY <2>1 DEF Control, Calling, InBlock
  <2>3. n \in Settled(c)
    BY <2>1, <2>2, AllCounted
  <2> QED  BY <2>1, <2>2, <2>3, SettledRan
<1> QED  BY <1>1, Invariant, PTL

(* When the graphs that DFLOWinitBlk built have an edge for all that the   *)
(* blocks need, an instruction is executed only after the instructions     *)
(* that wrote what it reads, and, when it ends the scope of a variable,    *)
(* after the other readers of that: neither the counting in the scheduler  *)
(* nor the shortcut of a worker, which picks the next instruction itself,  *)
(* starts one early.                                                       *)
THEOREM InputsReadyKept ==
  ASSUME \A g \in Blocks: Adequate(g)
  PROVE  Spec => []InputsReady
<1>1. IInv => InputsReady
  <2> SUFFICES ASSUME IInv, NEW s \in Slots, Executing(s),
                      NEW k \in G!Before(Of(workers[s].fe).g, workers[s].fe[2])
               PROVE  Of(workers[s].fe).state[k] = "wrapup"
    BY DEF InputsReady
  <2>1. TypeOK /\ Control /\ Owned /\ Order
    BY DEF IInv
  <2>2. PICK e: e = workers[s].fe
    OBVIOUS
  <2>3. Fe[s] = e /\ e # Nobody
    BY <2>1, <2>2, ZenonT(30) DEF Fe, Control, Holding, Running, Executing
  <2>4. e \in Events /\ OfBlock(e)
    BY <2>1, <2>3, OwnedHands
  <2>5. PICK c, n: c = e[1] /\ n = e[2] /\ c \in Callers /\ flow[c].live /\ n \in Nodes(flow[c].g)
    BY <2>4 DEF Events, OfBlock
  <2>6. flow[c].g \in Blocks
    BY <2>1, <2>5, Live
  <2>7. PICK x \in InEdges(flow[c].g, n): x[1] = k
    BY <2>2, <2>5, <2>6 DEF Adequate, Of
  <2>8. SourcesDone(c, n)
    BY <2>1, <2>3, <2>5 DEF Order
  <2> QED  BY <2>2, <2>5, <2>7, <2>8, ZenonT(60) DEF SourcesDone, Of
<1> QED  BY <1>1, Invariant, PTL

-----------------------------------------------------------------------------
(* The tokens of the semaphore of todo.                                    *)

LEMMA LookingNat == ASSUME TypeOK PROVE IsFiniteSet(Looking) /\ Cardinality(Looking) \in Nat
<1>1. IsFiniteSet(Slots) /\ Looking \in SUBSET Slots
  BY DataflowAssumption DEF Looking
<1>2. IsFiniteSet(Looking)
  BY <1>1, FS_Subset
<1> QED  BY <1>2, FS_CardinalityType

LEMMA LookingKept ==
  ASSUME \A s \in Slots: workers'[s].pc = "pop" <=> workers[s].pc = "pop"
  PROVE  Looking' = Looking
BY DEF Looking

LEMMA LookingOne ==
  ASSUME TypeOK, NEW s \in Slots, \A t \in Slots \ {s}: workers'[t] = workers[t]
  PROVE  /\ workers[s].pc # "pop" /\ workers'[s].pc = "pop"
                => Cardinality(Looking') = Cardinality(Looking) + 1
         /\ workers[s].pc = "pop" /\ workers'[s].pc # "pop"
                => Cardinality(Looking') = Cardinality(Looking) - 1
<1>1. IsFiniteSet(Looking) /\ Cardinality(Looking) \in Nat
  BY LookingNat
<1>2. ASSUME workers[s].pc # "pop", workers'[s].pc = "pop"
      PROVE  Cardinality(Looking') = Cardinality(Looking) + 1
  <2>1. Looking' = Looking \cup {s} /\ s \notin Looking
    BY <1>2 DEF Looking
  <2> QED  BY <1>1, <2>1, FS_AddElement
<1>3. ASSUME workers[s].pc = "pop", workers'[s].pc # "pop"
      PROVE  Cardinality(Looking') = Cardinality(Looking) - 1
  <2>1. Looking' = Looking \ {s} /\ s \in Looking
    BY <1>3 DEF Looking
  <2> QED  BY <1>1, <2>1, FS_RemoveElement
<1> QED  BY <1>2, <1>3

(* What comes into todo comes with a token, and so does an order to exit.  *)
Brings ==
    \/ Len(todo') = Len(todo) /\ sema' = sema /\ exitcount' = exitcount
    \/ Len(todo') = Len(todo) + 1 /\ sema' = sema + 1 /\ exitcount' = exitcount
    \/ Len(todo') = Len(todo) /\ sema' = sema + 1 /\ exitcount' = exitcount + 1

LEMMA Bringing ==
  ASSUME TypeOK, Control, Fresh,
         \/ \E c \in Clients: \E d \in Depths[c]: Enter(c, d)
         \/ \E c \in Callers: Caller(c)
         \/ StopSlot
  PROVE  Brings
<1> USE DEF queue, pool, bounds
<1>1. CASE UNCHANGED queue
  BY <1>1 DEF Brings
<1>2. ASSUME NEW e, Enqueue(e) PROVE Brings
  <2>1. todo' = Append(todo, e) /\ sema' = sema + 1 /\ exitcount' = exitcount
    BY <1>2 DEF Enqueue
  <2>2. todo \in Seq(Events \cup {e})
    BY DEF TypeOK
  <2>3. Len(todo') = Len(todo) + 1
    BY <2>1, <2>2
  <2> QED  BY <2>1, <2>3 DEF Brings
<1>3. ASSUME NEW c \in Callers, Pill(c) PROVE Brings
  BY <1>3 DEF Pill, Told, Brings
<1>4. ASSUME NEW c \in Callers, Feed(c) \/ Dispatch(c) PROVE Brings
  <2>1. UNCHANGED queue \/ \E e: Enqueue(e)
    BY <1>4, Zenon DEF Feed, Dispatch
  <2> QED  BY <1>1, <1>2, <2>1
<1>5. CASE \/ \E c \in Clients: \E d \in Depths[c]: Enter(c, d)
           \/ \E c \in Callers: \/ \E s \in Slots: JoinBegin(c, s) \/ CreateWorker(c, s)
                                \/ JoinEnd(c) \/ RunSerially(c) \/ InitBlk(c)
                                \/ TakeDone(c) \/ Dispatched(c) \/ Finish(c)
           \/ StopSlot
  <2>1. UNCHANGED queue
    BY <1>5, ZenonT(30) DEF Enter, JoinBegin, CreateWorker, JoinEnd, RunSerially, InitBlk, TakeDone, Dispatched,
                       Finish, StopSlot
  <2> QED  BY <1>1, <2>1
<1> QED  BY <1>3, <1>4, <1>5, Zenon DEF Caller

(* The steps that are not a worker's, with what they do to the pool.       *)
LEMMA OtherSteps ==
  ASSUME [Next]_vars
  PROVE  \/ \E s \in Slots: Worker(s)
         \/ /\ \/ \E c \in Clients: \E d \in Depths[c]: Enter(c, d)
               \/ \E c \in Callers: Caller(c)
               \/ StopSlot
            /\ exiting' = exiting
         \/ Stop \/ Reset \/ UNCHANGED vars
<1> USE DEF queue, pool, bounds
<1>1. ASSUME \E c \in Callers: Caller(c) PROVE exiting' = exiting
  BY <1>1, ZenonT(60) DEF Caller, JoinBegin, CreateWorker, JoinEnd, RunSerially, InitBlk, Feed, TakeDone,
                     Dispatch, Dispatched, Finish, Pill
<1>2. ASSUME NEW c \in Clients, NEW d \in Depths[c], Enter(c, d) PROVE exiting' = exiting
  BY <1>2, Zenon DEF Enter
<1>3. ASSUME StopSlot PROVE exiting' = exiting
  BY <1>3, Zenon DEF StopSlot
<1> QED  BY <1>1, <1>2, <1>3, Zenon DEF Next, Stopping

(* A worker takes the token of an instruction, gives it back, or acts on   *)
(* an order to exit.                                                       *)
Uses(s) ==
    LET p == workers[s].pc
        q == workers'[s].pc
    IN  \/ (p = "pop" <=> q = "pop") /\ Len(todo') = Len(todo) /\ exitcount' = exitcount
              /\ (~exiting => sema' = sema)
        \/ p # "pop" /\ q = "pop" /\ ~exiting /\ Len(todo') = Len(todo) /\ exitcount' = exitcount
              /\ sema > 0 /\ sema' = sema - 1
        \/ p = "pop" /\ q # "pop" /\ Len(todo') = Len(todo) - 1 /\ exitcount' = exitcount /\ sema' = sema
        \/ p = "pop" /\ q # "pop" /\ Len(todo') = Len(todo) /\ exitcount' = exitcount /\ sema' = sema + 1
        \/ p = "pop" /\ q # "pop" /\ Len(todo') = Len(todo) /\ exitcount' = exitcount - 1 /\ sema' = sema

LEMMA Using ==
  ASSUME TypeOK, Control, Owned, NEW s \in Slots, Worker(s)
  PROVE  Uses(s)
<1> USE DEF queue, pool, bounds
<1>1. /\ workers[s] \in WorkerType /\ todo \in Seq(Events) /\ Len(todo) \in Nat
      /\ sema \in Nat /\ exitcount \in Nat
  BY Hands DEF TypeOK
<1>2. CASE \/ Start(s) \/ Gate(s) \/ Look(s) \/ Check(s) \/ Call(s) \/ (\E err \in BOOLEAN: Ran(s, err))
           \/ Report(s) \/ Exit(s)
  <2>1. UNCHANGED <<todo, sema, exitcount>>
    BY <1>2, Zenon DEF Start, Gate, Look, Check, Call, Ran, Report, Exit
  <2>2. workers[s].pc # "pop"
    <3>1. \/ At(s, "start") \/ At(s, "gate") \/ At(s, "loop") \/ At(s, "got") \/ At(s, "run")
          \/ At(s, "call") \/ At(s, "report") \/ At(s, "exit")
      BY <1>2, Zenon DEF Start, Gate, Look, Check, Call, Ran, Report, Exit
    <3> QED  BY <3>1 DEF At
  <2>3. workers'[s].pc # "pop"
    BY <1>2, GoesTo
  <2> QED  BY <2>1, <2>2, <2>3 DEF Uses
<1>3. CASE Down(s)
  <2>1. /\ workers[s].pc = "down" /\ sema > 0 /\ UNCHANGED <<todo, exitcount>>
        /\ ~exiting => sema' = sema - 1
    BY <1>3 DEF Down, At
  <2>2. IF exiting THEN workers'[s].pc \in {"loop", "exit"} ELSE workers'[s].pc = "pop"
    BY <1>3, GoesTo
  <2> QED  BY <2>1, <2>2 DEF Uses
<1>4. CASE PopMine(s) \/ PopAny(s)
  <2>1. workers[s].pc = "pop" /\ sema' = sema /\ exitcount' = exitcount
    BY <1>4, Zenon DEF PopMine, PopAny, At
  <2>2. workers'[s].pc = "got"
    BY <1>4, GoesTo
  <2>3. Len(todo') = Len(todo) - 1
    <3>1. CASE PopMine(s)
      <4>1. PICK j \in DOMAIN todo: todo' = SubSeq(todo, 1, j - 1) \o SubSeq(todo, j + 1, Len(todo))
        BY <3>1, Zenon DEF PopMine
      <4>2. j \in 1 .. Len(todo)
        BY <1>1
      <4> QED  BY <1>1, <4>1, <4>2, TakenAt
    <3>2. CASE PopAny(s)
      <4>1. todo # <<>> /\ todo' = SubSeq(todo, 1, Len(todo) - 1)
        BY <3>2, Zenon DEF PopAny
      <4> QED  BY <1>1, <4>1, TakenLast
    <3> QED  BY <1>4, <3>1, <3>2
  <2> QED  BY <2>1, <2>2, <2>3 DEF Uses
<1>5. CASE PopNothing(s) \/ PopExit(s)
  <2>1. workers'[s].pc # "pop"
    BY <1>5, GoesTo
  <2>2. /\ workers[s].pc = "pop" /\ todo' = todo
        /\ \/ sema' = sema + 1 /\ exitcount' = exitcount
           \/ sema' = sema /\ exitcount' = exitcount - 1
    BY <1>5, Zenon DEF PopNothing, PopExit, At, GiveBack, ToldOneLess
  <2> QED  BY <2>1, <2>2 DEF Uses
<1> QED  BY <1>2, <1>3, <1>4, <1>5, Zenon DEF Worker

LEMMA TokensNext == IInv /\ Tokens /\ [Next]_vars => Tokens'
<1> SUFFICES ASSUME IInv, Tokens, [Next]_vars PROVE Tokens'
  OBVIOUS
<1>1. /\ TypeOK /\ Fresh /\ Control /\ Owned
      /\ sema \in Nat /\ exitcount \in Nat /\ Len(todo) \in Nat
  BY DEF IInv, TypeOK
<1>2. /\ TypeOK' /\ sema' \in Nat /\ exitcount' \in Nat /\ Len(todo') \in Nat
  BY TypeNext DEF TypeOK
<1>3. Cardinality(Looking) \in Nat
  BY <1>1, LookingNat
<1>4. ASSUME NEW s \in Slots, Worker(s) PROVE Tokens'
  <2>1. exiting' = exiting /\ \A t \in Slots \ {s}: workers'[t] = workers[t]
    BY <1>1, <1>4, WorkerAlone
  <2>2. Uses(s)
    BY <1>1, <1>4, Using
  <2>3. CASE workers[s].pc = "pop" <=> workers'[s].pc = "pop"
    <3>1. Looking' = Looking
      BY <2>1, <2>3, LookingKept
    <3> QED  BY <1>1, <1>2, <1>3, <2>1, <2>2, <2>3, <3>1, Zenon DEF Uses, Tokens
  <2>4. CASE workers[s].pc # "pop" /\ workers'[s].pc = "pop"
    <3>1. Cardinality(Looking') = Cardinality(Looking) + 1
      BY <1>1, <2>1, <2>4, LookingOne
    <3>2. ~exiting /\ Len(todo') = Len(todo) /\ exitcount' = exitcount /\ sema' = sema - 1
      BY <2>2, <2>4 DEF Uses
    <3>3. sema + Cardinality(Looking) = Len(todo) + exitcount
      BY <3>2 DEF Tokens
    <3>4. sema' + Cardinality(Looking') = Len(todo') + exitcount'
      BY <1>1, <1>3, <3>1, <3>2, <3>3
    <3> QED  BY <2>1, <3>2, <3>4 DEF Tokens
  <2>5. CASE workers[s].pc = "pop" /\ workers'[s].pc # "pop"
    <3>1. Cardinality(Looking') = Cardinality(Looking) - 1
      BY <1>1, <2>1, <2>5, LookingOne
    <3>2. \/ Len(todo') = Len(todo) - 1 /\ exitcount' = exitcount /\ sema' = sema
          \/ Len(todo') = Len(todo) /\ exitcount' = exitcount /\ sema' = sema + 1
          \/ Len(todo') = Len(todo) /\ exitcount' = exitcount - 1 /\ sema' = sema
      BY <2>2, <2>5 DEF Uses
    <3>3. CASE exiting
      <4>1. Cardinality(Looking) <= Len(todo) + exitcount
        BY <3>3 DEF Tokens
      <4>2. Cardinality(Looking') <= Len(todo') + exitcount'
        BY <1>1, <1>2, <1>3, <3>1, <3>2, <4>1
      <4> QED  BY <2>1, <3>3, <4>2 DEF Tokens
    <3>4. CASE ~exiting
      <4>1. sema + Cardinality(Looking) = Len(todo) + exitcount
        BY <3>4 DEF Tokens
      <4>2. sema' + Cardinality(Looking') = Len(todo') + exitcount'
        <5>1. CASE Len(todo') = Len(todo) - 1 /\ exitcount' = exitcount /\ sema' = sema
          BY <1>1, <1>3, <3>1, <4>1, <5>1
        <5>2. CASE Len(todo') = Len(todo) /\ exitcount' = exitcount /\ sema' = sema + 1
          BY <1>1, <1>3, <3>1, <4>1, <5>2
        <5>3. CASE Len(todo') = Len(todo) /\ exitcount' = exitcount - 1 /\ sema' = sema
          BY <1>1, <1>3, <3>1, <4>1, <5>3
        <5> QED  BY <3>2, <5>1, <5>2, <5>3
      <4> QED  BY <2>1, <3>4, <4>2 DEF Tokens
    <3> QED  BY <3>3, <3>4
  <2> QED  BY <2>3, <2>4, <2>5
<1>5. ASSUME \/ \E c \in Clients: \E d \in Depths[c]: Enter(c, d)
             \/ \E c \in Callers: Caller(c)
             \/ StopSlot,
             exiting' = exiting
      PROVE  Tokens'
  <2>1. Brings
    BY <1>1, <1>5, Bringing
  <2>2. \A s \in Slots: Kept(s)
    BY <1>1, <1>5, ThreadKept
  <2>3. Looking' = Looking
    BY <2>2, LookingKept DEF Kept
  <2>4. CASE exiting
    <3>1. Cardinality(Looking) <= Len(todo) + exitcount
      BY <2>4 DEF Tokens
    <3>2. Cardinality(Looking') <= Len(todo') + exitcount'
      BY <1>1, <1>2, <1>3, <2>1, <2>3, <3>1 DEF Brings
    <3> QED  BY <1>5, <2>4, <3>2 DEF Tokens
  <2>5. CASE ~exiting
    <3>1. sema + Cardinality(Looking) = Len(todo) + exitcount
      BY <2>5 DEF Tokens
    <3>2. sema' + Cardinality(Looking') = Len(todo') + exitcount'
      BY <1>1, <1>2, <1>3, <2>1, <2>3, <3>1, Z3T(60) DEF Brings
    <3> QED  BY <1>5, <2>5, <3>2 DEF Tokens
  <2> QED  BY <2>4, <2>5
<1>6. CASE Stop
  <2>1. /\ ~exiting /\ exiting' = TRUE /\ todo' = todo /\ exitcount' = exitcount /\ workers' = workers
    BY <1>6, Zenon DEF Stop
  <2>2. Looking' = Looking
    BY <2>1, LookingKept
  <2> QED  BY <1>1, <1>3, <2>1, <2>2 DEF Tokens
<1>7. CASE Reset
  <2>1. /\ workers' = [s \in Slots |-> NoThread] /\ exiting' = FALSE
        /\ todo' = <<>> /\ sema' = 0 /\ exitcount' = 0
    BY <1>7, Zenon DEF Reset
  <2>2. Looking' = {}
    BY <2>1 DEF Looking, NoThread
  <2> QED  BY <2>1, <2>2, FS_EmptySet DEF Tokens
<1>8. CASE UNCHANGED vars
  BY <1>8 DEF vars, pool, queue, Tokens, Looking
<1> QED  BY <1>4, <1>5, <1>6, <1>7, <1>8, OtherSteps

(* q_dequeue finds an instruction: a generic worker that got a token, and  *)
(* that nobody told to exit, does not find todo empty, although workers of *)
(* a client take tokens that are not theirs and give them back, and tokens *)
(* also tell workers to exit.                                              *)
THEOREM TokenFindsKept == Spec => []TokenFinds
<1>1. Init => Tokens
  <2> SUFFICES ASSUME Init PROVE Tokens
    OBVIOUS
  <2>1. Looking = {} /\ todo = <<>> /\ sema = 0 /\ exitcount = 0 /\ ~exiting
    BY DEF Init, Looking, NoThread
  <2> QED  BY <2>1, FS_EmptySet DEF Tokens
<1>2. IInv /\ Tokens => TokenFinds
  <2> SUFFICES ASSUME IInv, Tokens, NEW s \in Slots, At(s, "pop"), exitcount = 0
               PROVE  todo # <<>>
    BY DEF TokenFinds
  <2>1. TypeOK /\ sema \in Nat
    BY DEF IInv, TypeOK
  <2>2. IsFiniteSet(Looking) /\ Cardinality(Looking) \in Nat /\ s \in Looking
    BY <2>1, LookingNat DEF Looking, At
  <2>3. Cardinality(Looking) # 0
    BY <2>2, FS_EmptySet
  <2> QED  BY <2>1, <2>2, <2>3 DEF Tokens
<1> QED  BY <1>1, <1>2, Invariant, TokensNext, PTL DEF Spec

-----------------------------------------------------------------------------
(* The number of workers.                                                  *)

Living == {s \in Slots : Alive(s)}
Activity == {c \in Callers : Active(c)}

LEMMA PoolNat ==
  ASSUME TRUE
  PROVE  /\ IsFiniteSet(Living) /\ Cardinality(Living) \in Nat
         /\ IsFiniteSet(Activity) /\ Cardinality(Activity) \in Nat
<1>1. IsFiniteSet(Slots) /\ Living \in SUBSET Slots
  BY DataflowAssumption DEF Living
<1>2. IsFiniteSet(Callers) /\ Activity \in SUBSET Callers
  <2>1. IsFiniteSet(Clients) /\ IsFiniteSet(Slots)
    BY DataflowAssumption
  <2>2. IsFiniteSet(Callers)
    BY <2>1, FS_Union DEF Callers
  <2> QED  BY <2>2 DEF Activity
<1>3. IsFiniteSet(Living) /\ IsFiniteSet(Activity)
  BY <1>1, <1>2, FS_Subset
<1> QED  BY <1>3, FS_CardinalityType

(* What a caller's step does: it creates its worker, tells one to exit, or *)
(* neither begins nor ends to have one.                                    *)
Goes(c) ==
    /\ \A d \in Callers \ {c}: step'[d] = step[d]
    /\ \/ /\ exitcount' = exitcount
          /\ \/ Active(c) /\ Active(c)' /\ step'[c].w = step[c].w
             \/ ~Active(c) /\ ~Active(c)'
       \/ \E i \in Slots: CreateWorker(c, i)
       \/ Pill(c)

LEMMA StepTo ==
  ASSUME TypeOK, NEW c \in Callers
  PROVE  /\ \A at: step' = [step EXCEPT ![c] = [@ EXCEPT !.at = at]]
              => /\ \A d \in Callers \ {c}: step'[d] = step[d]
                 /\ step'[c].at = at /\ step'[c].w = step[c].w
         /\ \A at, w: step' = [step EXCEPT ![c] = [@ EXCEPT !.at = at, !.w = w]]
              => /\ \A d \in Callers \ {c}: step'[d] = step[d]
                 /\ step'[c].at = at /\ step'[c].w = w
         /\ \A at, f: step' = [step EXCEPT ![c] = [@ EXCEPT !.at = at, !.failed = f]]
              => /\ \A d \in Callers \ {c}: step'[d] = step[d]
                 /\ step'[c].at = at /\ step'[c].w = step[c].w
         /\ \A x: step' = [step EXCEPT ![c] = x]
              => /\ \A d \in Callers \ {c}: step'[d] = step[d]
                 /\ step'[c] = x
<1>1. step \in [Callers -> StepType] /\ step[c] \in StepType
  BY DEF TypeOK
<1>2. \A at: step' = [step EXCEPT ![c] = [@ EXCEPT !.at = at]]
              => /\ \A d \in Callers \ {c}: step'[d] = step[d]
                 /\ step'[c].at = at /\ step'[c].w = step[c].w
  BY <1>1 DEF StepType
<1>3. \A at, w: step' = [step EXCEPT ![c] = [@ EXCEPT !.at = at, !.w = w]]
              => /\ \A d \in Callers \ {c}: step'[d] = step[d]
                 /\ step'[c].at = at /\ step'[c].w = w
  BY <1>1 DEF StepType
<1>4. \A at, f: step' = [step EXCEPT ![c] = [@ EXCEPT !.at = at, !.failed = f]]
              => /\ \A d \in Callers \ {c}: step'[d] = step[d]
                 /\ step'[c].at = at /\ step'[c].w = step[c].w
  BY <1>1 DEF StepType
<1>5. \A x: step' = [step EXCEPT ![c] = x]
              => /\ \A d \in Callers \ {c}: step'[d] = step[d]
                 /\ step'[c] = x
  BY <1>1
<1> QED  BY <1>2, <1>3, <1>4, <1>5, Zenon

LEMMA Going ==
  ASSUME TypeOK, NEW c \in Callers, Caller(c)
  PROVE  Goes(c)
<1> USE DEF queue, pool, bounds
<1>1. ASSUME NEW s \in Slots, JoinBegin(c, s) PROVE Goes(c)
  <2>1. /\ step[c].at = "create" /\ exitcount' = exitcount
        /\ step' = [step EXCEPT ![c] = [@ EXCEPT !.at = "join", !.w = s]]
    BY <1>1, Zenon DEF JoinBegin
  <2>2. step'[c].at = "join" /\ \A d \in Callers \ {c}: step'[d] = step[d]
    BY <2>1, StepTo, Zenon
  <2> QED  BY <2>1, <2>2 DEF Goes, Active
<1>2. CASE JoinEnd(c) \/ RunSerially(c)
  <2>1. /\ step[c].at \in {"join", "create"} /\ exitcount' = exitcount
        /\ \E at \in {"create", "out"}: step' = [step EXCEPT ![c] = [@ EXCEPT !.at = at]]
    <3>1. step[c].at = "join" \/ step[c].at = "create"
      BY <1>2, Zenon DEF JoinEnd, RunSerially
    <3>2. Goto(c, "create") \/ Goto(c, "out")
      BY <1>2, Zenon DEF JoinEnd, RunSerially
    <3>3. exitcount' = exitcount
      BY <1>2, Zenon DEF JoinEnd, RunSerially
    <3> QED  BY <3>1, <3>2, <3>3 DEF Goto
  <2>2. PICK at \in {"create", "out"}: step' = [step EXCEPT ![c] = [@ EXCEPT !.at = at]]
    BY <2>1
  <2>3. step'[c].at = at /\ \A d \in Callers \ {c}: step'[d] = step[d]
    BY <2>2, StepTo, Zenon
  <2> QED  BY <2>1, <2>3 DEF Goes, Active
<1>3. CASE InitBlk(c) \/ TakeDone(c) \/ Dispatched(c) \/ Finish(c)
  <2>1. step[c].at = "init" \/ step[c].at = "wait" \/ step[c].at = "dispatch"
    BY <1>3, Zenon DEF InitBlk, TakeDone, Dispatched, Finish
  <2>2. \/ Goto(c, "feed") \/ Goto(c, "dispatch") \/ Goto(c, "wait")
        \/ \E f: step' = [step EXCEPT ![c] = [@ EXCEPT !.at = "pill", !.failed = f]]
    BY <1>3, Zenon DEF InitBlk, TakeDone, Dispatched, Finish
  <2>3. exitcount' = exitcount
    BY <1>3, Zenon DEF InitBlk, TakeDone, Dispatched, Finish
  <2>4. /\ \A d \in Callers \ {c}: step'[d] = step[d]
        /\ step'[c].w = step[c].w
        /\ step'[c].at = "feed" \/ step'[c].at = "dispatch" \/ step'[c].at = "wait" \/ step'[c].at = "pill"
    <3> DEFINE P(at) == /\ \A d \in Callers \ {c}: step'[d] = step[d]
                        /\ step'[c].w = step[c].w /\ step'[c].at = at
    <3>1. ASSUME NEW at, Goto(c, at) PROVE P(at)
      BY <3>1, StepTo, Zenon DEF Goto
    <3>2. ASSUME NEW f, step' = [step EXCEPT ![c] = [@ EXCEPT !.at = "pill", !.failed = f]] PROVE P("pill")
      BY <3>2, StepTo, Zenon
    <3>3. P("feed") \/ P("dispatch") \/ P("wait") \/ P("pill")
      BY <2>2, <3>1, <3>2, Zenon
    <3> QED  BY <3>3
  <2> QED  BY <2>1, <2>3, <2>4 DEF Goes, Active
<1>4. CASE Feed(c)
  <2>1. /\ step[c].at = "feed" /\ exitcount' = exitcount
        /\ step' = step \/ Goto(c, "wait")
    BY <1>4, Zenon DEF Feed, Enqueue
  <2>2. /\ \A d \in Callers \ {c}: step'[d] = step[d]
        /\ step'[c].w = step[c].w
        /\ step'[c].at = "feed" \/ step'[c].at = "wait"
    BY <2>1, StepTo, Zenon DEF Goto
  <2> QED  BY <2>1, <2>2 DEF Goes, Active
<1>5. CASE Dispatch(c)
  <2>1. step[c].at = "dispatch" /\ exitcount' = exitcount /\ step' = step
    BY <1>5, Zenon DEF Dispatch, Enqueue
  <2> QED  BY <2>1 DEF Goes, Active
<1>6. ASSUME NEW i \in Slots, CreateWorker(c, i) PROVE Goes(c)
  <2>1. step' = [step EXCEPT ![c] = [@ EXCEPT !.at = "init", !.w = i]]
    BY <1>6, Zenon DEF CreateWorker
  <2>2. \A d \in Callers \ {c}: step'[d] = step[d]
    BY <2>1, StepTo, Zenon
  <2> QED  BY <1>6, <2>2 DEF Goes
<1>7. CASE Pill(c)
  <2>1. \E x: step' = [step EXCEPT ![c] = x]
    BY <1>7, Zenon DEF Pill
  <2>2. \A d \in Callers \ {c}: step'[d] = step[d]
    BY <2>1, StepTo, Zenon
  <2> QED  BY <1>7, <2>2 DEF Goes
<1> QED  BY <1>1, <1>2, <1>3, <1>4, <1>5, <1>6, <1>7, Zenon DEF Caller

(* A worker's step begins and ends no block.                               *)
LEMMA NoneGoes ==
  ASSUME TypeOK, Control, NEW s \in Slots, Worker(s), NEW c \in Callers
  PROVE  /\ Active(c)' <=> Active(c)
         /\ Active(c) => step'[c] = step[c]
<1> USE DEF queue, pool, bounds
<1>1. CASE c # s
  <2>1. step'[c] = step[c]
    BY <1>1, WorkerAlone
  <2> QED  BY <2>1 DEF Active
<1>2. CASE c = s
  <2>1. CASE step' = step
    BY <2>1 DEF Active
  <2>2. ASSUME step[s].at = "out", NEW x, step' = [step EXCEPT ![s] = x], x.at \in {"out", "create"}
        PROVE  /\ Active(c)' <=> Active(c)
               /\ Active(c) => step'[c] = step[c]
    <3>1. step'[s] = x
      BY <1>2, <2>2, StepTo, ZenonT(60)
    <3> QED  BY <1>2, <2>2, <3>1 DEF Active
  <2>3. ASSUME Call(s) PROVE /\ Active(c)' <=> Active(c)
                             /\ Active(c) => step'[c] = step[c]
    <3>1. /\ workers[s].pc = "run"
          /\ step' = [step EXCEPT ![s] = [Outside EXCEPT !.at = "create", !.depth = 2]]
      BY <2>3, Zenon DEF Call, At
    <3>2. step[s].at = "out"
      BY <1>2, <3>1 DEF Control, Calling
    <3>3. [Outside EXCEPT !.at = "create", !.depth = 2].at = "create"
      BY DEF Outside
    <3> QED  BY <2>2, <3>1, <3>2, <3>3
  <2>4. ASSUME NEW err \in BOOLEAN, Ran(s, err)
        PROVE  /\ Active(c)' <=> Active(c)
               /\ Active(c) => step'[c] = step[c]
    <3>1. /\ step' = [step EXCEPT ![s] = Outside]
          /\ workers[s].pc = "run" \/ step[s].at = "out"
      BY <2>4, Zenon DEF Ran, At
    <3>2. step[s].at = "out"
      BY <1>2, <3>1 DEF Control, Calling
    <3>3. Outside.at = "out"
      BY DEF Outside
    <3> QED  BY <2>2, <3>1, <3>2, <3>3
  <2>5. step' = step \/ Call(s) \/ \E err \in BOOLEAN: Ran(s, err)
    BY Zenon DEF Worker, Start, Gate, Look, Down, PopMine, PopNothing, PopExit, PopAny, Check, Report, Exit
  <2> QED  BY <2>1, <2>3, <2>4, <2>5
<1> QED  BY <1>1, <1>2

(* Nor does it start a thread; one that ends was told to, or the pool is   *)
(* being stopped.                                                          *)
LEMMA LivesOn ==
  ASSUME TypeOK, Control, Owned, NEW s \in Slots, Worker(s), ~exiting
  PROVE  \/ (Alive(s)' <=> Alive(s)) /\ exitcount' = exitcount
         \/ Alive(s) /\ ~Alive(s)' /\ exitcount' = exitcount - 1
<1> USE DEF queue, pool, bounds
<1>1. CASE PopExit(s)
  <2>1. workers[s].pc = "pop" /\ exitcount' = exitcount - 1
    BY <1>1, Zenon DEF PopExit, At, ToldOneLess
  <2>2. workers'[s].pc = "exit"
    BY <1>1, GoesTo
  <2> QED  BY <2>1, <2>2 DEF Alive
<1>2. CASE Exit(s)
  <2>1. workers[s].pc = "exit" /\ exitcount' = exitcount
    BY <1>2, Zenon DEF Exit, At
  <2>2. workers'[s].pc = "none"
    BY <1>2, GoesTo
  <2> QED  BY <2>1, <2>2 DEF Alive
<1>3. CASE \/ Start(s) \/ Gate(s) \/ Look(s) \/ Down(s) \/ PopMine(s) \/ PopNothing(s) \/ PopAny(s)
           \/ Check(s) \/ Call(s) \/ (\E err \in BOOLEAN: Ran(s, err)) \/ Report(s)
  <2>1. \/ At(s, "start") \/ At(s, "gate") \/ At(s, "loop") \/ At(s, "down") \/ At(s, "pop")
        \/ At(s, "got") \/ At(s, "run") \/ At(s, "call") \/ At(s, "report")
    BY <1>3, Zenon DEF Start, Gate, Look, Down, PopMine, PopNothing, PopAny, Check, Call, Ran, Report
  <2>2. exitcount' = exitcount
    BY <1>3, Zenon DEF Start, Gate, Look, Down, PopMine, PopNothing, PopAny, Check, Call, Ran, Report
  <2>3. workers'[s].pc \notin {"none", "exit"}
    BY <1>3, GoesTo
  <2> QED  BY <2>1, <2>2, <2>3 DEF At, Alive
<1> QED  BY <1>1, <1>2, <1>3, Zenon DEF Worker

LEMMA ThreadsCreate ==
  ASSUME TypeOK, Fresh, Control, Threads, NEW c \in Callers, NEW i \in Slots, CreateWorker(c, i)
  PROVE  Threads'
<1> USE DEF queue, pool, bounds
<1>1. /\ step[c].at = "create" /\ workers[i].flag = "IDLE"
      /\ Set(i, NewThread(workers[i], Specificity(c)))
      /\ step' = [step EXCEPT ![c] = [@ EXCEPT !.at = "init", !.w = i]]
      /\ created' = created /\ exiting' = exiting /\ exitcount' = exitcount
  BY DEF CreateWorker, FirstFree, Free
<1>2. Living' = Living \cup {i} /\ i \notin Living
  <2>1. workers[i].pc = "none" /\ workers[i] \in WorkerType
    BY <1>1, Hands DEF Control, Vacant
  <2>2. NewThread(workers[i], Specificity(c)).pc = "start"
    BY <2>1 DEF NewThread, WorkerType
  <2>3. \A t \in Slots: workers'[t] = IF t = i THEN NewThread(workers[i], Specificity(c)) ELSE workers[t]
    BY <1>1, SlotSet
  <2> QED  BY <2>1, <2>2, <2>3 DEF Living, Alive
<1>3. Activity' = Activity \cup {c} /\ c \notin Activity
  <2>1. step'[c].at = "init" /\ \A d \in Callers \ {c}: step'[d] = step[d]
    BY <1>1, StepTo, Zenon
  <2> QED  BY <1>1, <2>1 DEF Activity, Active
<1>4. /\ Cardinality(Living') = Cardinality(Living) + 1
      /\ Cardinality(Activity') = Cardinality(Activity) + 1
  BY <1>2, <1>3, PoolNat, FS_AddElement
<1>5. Cardinality(Living) \in Nat /\ Cardinality(Activity) \in Nat /\ exitcount \in Nat /\ Limit \in Nat
  BY PoolNat, DataflowAssumption DEF TypeOK
<1>6. created /\ ~exiting => Cardinality(Living) = Limit + Cardinality(Activity) + exitcount
  BY DEF Threads, PoolSize, Living, Activity
<1>7. created' /\ ~exiting' => Cardinality(Living') = Limit + Cardinality(Activity') + exitcount'
  BY <1>1, <1>4, <1>5, <1>6
<1> QED  BY <1>7 DEF Threads, PoolSize, Living, Activity

(* The steps of callers that create no thread.                             *)
LEMMA ThreadsCaller ==
  ASSUME TypeOK, Fresh, Control, Owned, Threads, NEW c \in Callers, Caller(c),
         \A d \in Callers, i \in Slots: ~CreateWorker(d, i)
  PROVE  Threads'
<1> USE DEF queue, pool, bounds
<1>1. /\ created' = created /\ exiting' = exiting
  BY Zenon DEF Caller, JoinBegin, CreateWorker, JoinEnd, RunSerially, InitBlk, Feed, TakeDone, Dispatch,
               Dispatched, Finish, Pill
<1>2. ASSUME created PROVE Living' = Living
  <2>1. \A s \in Slots: Kept(s)
    BY ThreadKept
  <2>2. \A s \in Slots: workers'[s].pc = workers[s].pc
    BY <1>2, <2>1 DEF Kept
  <2> QED  BY <2>2 DEF Living, Alive
<1>3. Goes(c)
  BY Going
<1>4. CASE exitcount' = exitcount /\ (Active(c)' <=> Active(c))
  <2>1. \A d \in Callers: Active(d)' <=> Active(d)
    BY <1>3, <1>4 DEF Goes, Active
  <2>2. Activity' = Activity
    BY <2>1 DEF Activity
  <2> QED  BY <1>1, <1>2, <1>4, <2>2 DEF Threads, PoolSize, Living, Activity
<1>5. CASE Pill(c)
  <2>1. /\ step[c].at = "pill" /\ exitcount' = exitcount + 1
        /\ step' = [step EXCEPT ![c] = [Outside EXCEPT !.failed = c \in Slots /\ step[c].failed]]
    BY <1>5, Zenon DEF Pill, Told
  <2>2. step'[c].at = "out" /\ \A d \in Callers \ {c}: step'[d] = step[d]
    <3>1. [Outside EXCEPT !.failed = c \in Slots /\ step[c].failed].at = "out"
      BY DEF Outside
    <3> QED  BY <2>1, <3>1, StepTo, ZenonT(60)
  <2>3. Activity' = Activity \ {c} /\ c \in Activity
    BY <2>1, <2>2 DEF Activity, Active
  <2>4. Cardinality(Activity') = Cardinality(Activity) - 1
    BY <2>3, PoolNat, FS_RemoveElement
  <2>5. Cardinality(Living) \in Nat /\ Cardinality(Activity) \in Nat /\ exitcount \in Nat /\ Limit \in Nat
    BY PoolNat, DataflowAssumption DEF TypeOK
  <2>6. created /\ ~exiting => Cardinality(Living) = Limit + Cardinality(Activity) + exitcount
    BY DEF Threads, PoolSize, Living, Activity
  <2>7. created' /\ ~exiting' => Cardinality(Living') = Limit + Cardinality(Activity') + exitcount'
    BY <1>1, <1>2, <2>1, <2>4, <2>5, <2>6
  <2> QED  BY <2>7 DEF Threads, PoolSize, Living, Activity
<1> QED  BY <1>3, <1>4, <1>5 DEF Goes

LEMMA ThreadsWorker ==
  ASSUME TypeOK, Fresh, Control, Owned, Threads, NEW s \in Slots, Worker(s)
  PROVE  Threads'
<1>1. /\ created' = created /\ exiting' = exiting
      /\ \A t \in Slots \ {s}: workers'[t] = workers[t]
  BY WorkerAlone
<1>2. Activity' = Activity
  BY NoneGoes DEF Activity
<1>3. Cardinality(Living) \in Nat /\ Cardinality(Activity) \in Nat /\ exitcount \in Nat /\ Limit \in Nat
  BY PoolNat, DataflowAssumption DEF TypeOK
<1>4. SUFFICES ASSUME ~exiting, created PROVE Threads'
  BY <1>1 DEF Threads, PoolSize
<1>5. Cardinality(Living) = Limit + Cardinality(Activity) + exitcount
  BY <1>4 DEF Threads, PoolSize, Living, Activity
<1>6. Cardinality(Living') = Limit + Cardinality(Activity') + exitcount'
  <2>1. CASE (Alive(s)' <=> Alive(s)) /\ exitcount' = exitcount
    <3>1. Living' = Living
      BY <1>1, <2>1 DEF Living, Alive
    <3> QED  BY <1>2, <1>5, <2>1, <3>1
  <2>2. CASE Alive(s) /\ ~Alive(s)' /\ exitcount' = exitcount - 1
    <3>1. Living' = Living \ {s} /\ s \in Living
      BY <1>1, <2>2 DEF Living, Alive
    <3>2. Cardinality(Living') = Cardinality(Living) - 1
      BY <3>1, PoolNat, FS_RemoveElement
    <3> QED  BY <1>2, <1>3, <1>5, <2>2, <3>2
  <2> QED  BY <1>4, <2>1, <2>2, LivesOn
<1> QED  BY <1>6 DEF Threads, PoolSize, Living, Activity

LEMMA ThreadsEnter ==
  ASSUME TypeOK, Fresh, Control, Threads, NEW c \in Clients, NEW d \in Depths[c], Enter(c, d)
  PROVE  Threads'
<1> USE DEF queue, pool, bounds
<1>1. /\ step[c].at = "out" /\ exiting' = exiting /\ exitcount' = exitcount
      /\ workers' = IF created THEN workers ELSE Pool
      /\ step' = [step EXCEPT ![c] = [Outside EXCEPT !.at = "create", !.depth = d]]
  BY Zenon DEF Enter
<1>2. Activity' = Activity
  <2>1. [Outside EXCEPT !.at = "create", !.depth = d].at = "create" /\ c \in Callers
    BY DEF Outside, Callers
  <2>2. step'[c].at = "create" /\ \A e \in Callers \ {c}: step'[e] = step[e]
    BY <1>1, <2>1, StepTo, ZenonT(60)
  <2> QED  BY <1>1, <2>1, <2>2 DEF Activity, Active
<1>3. CASE created
  <2>1. workers' = workers
    BY <1>1, <1>3
  <2>2. Living' = Living
    BY <2>1 DEF Living, Alive
  <2> QED  BY <1>1, <1>2, <1>3, <2>2 DEF Threads, PoolSize, Living, Activity
<1>4. CASE ~created
  <2>1. workers' = Pool /\ exitcount' = 0 /\ Activity = {}
    BY <1>1, <1>4 DEF Fresh, Activity, Active
  <2>2. Limit \in Nat /\ Slots = 1 .. Cardinality(Slots) /\ Limit <= Cardinality(Slots)
        /\ Cardinality(Slots) \in Nat
    BY DataflowAssumption, FS_CardinalityType
  <2>3. Living' = 1 .. Limit
    <3>1. \A s \in Slots: Pool[s].pc = IF s <= Limit THEN "start" ELSE "none"
      BY DEF Pool, NewThread, NoThread
    <3>2. Living' = {s \in Slots : s <= Limit}
      BY <2>1, <3>1 DEF Living, Alive
    <3> QED  BY <2>2, <3>2
  <2>4. Cardinality(Living') = Limit
    <3>1. Cardinality(1 .. Limit) = Limit
      BY <2>2, FS_Interval
    <3> QED  BY <2>3, <3>1
  <2>5. Cardinality(Activity') = 0
    BY <1>2, <2>1, FS_EmptySet
  <2>6. Cardinality(Living') = Limit + Cardinality(Activity') + exitcount'
    BY <2>1, <2>2, <2>4, <2>5
  <2> QED  BY <2>6 DEF Threads, PoolSize, Living, Activity
<1> QED  BY <1>3, <1>4

LEMMA ThreadsNext == IInv /\ Threads /\ [Next]_vars => Threads'
<1> SUFFICES ASSUME IInv, Threads, [Next]_vars PROVE Threads'
  OBVIOUS
<1> USE DEF queue, pool, bounds
<1>1. TypeOK /\ Fresh /\ Control /\ Owned
  BY DEF IInv
<1>2. ASSUME \E d \in Callers, i \in Slots: CreateWorker(d, i) PROVE Threads'
  BY <1>1, <1>2, ThreadsCreate
<1>3. ASSUME ~\E d \in Callers, i \in Slots: CreateWorker(d, i), NEW c \in Callers, Caller(c) PROVE Threads'
  BY <1>1, <1>3, ThreadsCaller
<1>4. ASSUME Stop \/ StopSlot PROVE Threads'
  <2>1. exiting'
    BY <1>4 DEF Stop, StopSlot
  <2> QED  BY <2>1 DEF Threads, PoolSize
<1>5. ASSUME Reset PROVE Threads'
  <2>1. created' = FALSE
    BY <1>5, Zenon DEF Reset
  <2> QED  BY <2>1 DEF Threads, PoolSize
<1>6. ASSUME UNCHANGED vars PROVE Threads'
  BY <1>6 DEF vars, Threads, PoolSize, Alive, Active
<1> QED  BY <1>1, <1>2, <1>3, <1>4, <1>5, <1>6, ThreadsWorker, ThreadsEnter DEF Next, Stopping

(* The pool has as many workers as it was created with, one more for each  *)
(* block in progress, and one more for each that was told to exit and has  *)
(* not yet: runMALdataflow neither leaks workers nor loses them.           *)
THEOREM PoolSizeKept == Spec => []PoolSize
<1>1. Init => Threads
  BY DEF Init, Threads, PoolSize
<1>2. Threads => PoolSize
  BY DEF Threads
<1> QED  BY <1>1, <1>2, Invariant, ThreadsNext, PTL DEF Spec

-----------------------------------------------------------------------------
(* The workers that are bound to a client.                                 *)

Serving(c) == step[c].at \in {"init", "feed", "wait", "dispatch"}

LEMMA Serves ==
  ASSUME TypeOK, "graph" \notin Faults, NEW c \in Callers, Caller(c), Serving(c)
  PROVE  Finish(c) \/ (Serving(c)' /\ step'[c].w = step[c].w)
<1> USE DEF queue, pool, bounds
<1> DEFINE P(at) == step'[c].w = step[c].w /\ step'[c].at = at
<1>1. ASSUME NEW at, Goto(c, at) PROVE P(at)
  BY <1>1, StepTo, Zenon DEF Goto
<1>2. CASE InitBlk(c) \/ Feed(c) \/ TakeDone(c) \/ Dispatch(c) \/ Dispatched(c)
  <2>1. step' = step \/ Goto(c, "feed") \/ Goto(c, "wait") \/ Goto(c, "dispatch")
    BY <1>2, Zenon DEF InitBlk, Feed, TakeDone, Dispatch, Dispatched
  <2>2. step' = step \/ P("feed") \/ P("wait") \/ P("dispatch")
    BY <1>1, <2>1, Zenon
  <2> QED  BY <2>2 DEF Serving
<1>3. CASE (\E s \in Slots: JoinBegin(c, s) \/ CreateWorker(c, s)) \/ JoinEnd(c) \/ RunSerially(c) \/ Pill(c)
  <2>1. step[c].at = "create" \/ step[c].at = "join" \/ step[c].at = "pill"
    BY <1>3, Zenon DEF JoinBegin, CreateWorker, JoinEnd, RunSerially, Pill
  <2> QED  BY <2>1 DEF Serving
<1> QED  BY <1>2, <1>3, Zenon DEF Caller

LEMMA WorkerBound ==
  ASSUME TypeOK, Control, Owned, NEW s \in Slots, Worker(s), Alive(s)'
  PROVE  Alive(s) /\ workers'[s].cntxt = workers[s].cntxt
<1> USE DEF queue, pool, bounds
<1>1. workers[s] \in WorkerType
  BY Hands
<1>2. Alive(s)
  <2>1. workers[s].pc # "none"
    BY WorkerAlone
  <2>2. ASSUME workers[s].pc = "exit" PROVE FALSE
    <3>1. \/ Exit(s)
          \/ At(s, "start") \/ At(s, "gate") \/ At(s, "loop") \/ At(s, "down") \/ At(s, "pop")
          \/ At(s, "got") \/ At(s, "run") \/ At(s, "call") \/ At(s, "report")
      BY Zenon DEF Worker, Start, Gate, Look, Down, PopMine, PopNothing, PopExit, PopAny, Check, Call, Ran,
                   Report
    <3>2. Exit(s)
      BY <2>2, <3>1 DEF At
    <3>3. workers'[s].pc = "none"
      BY <3>2, GoesTo
    <3> QED  BY <3>3 DEF Alive
  <2> QED  BY <2>1, <2>2 DEF Alive
<1>3. ASSUME NEW w, Set(s, w), NEW x, w.cntxt = x PROVE workers'[s].cntxt = x
  BY <1>3, SlotSet
<1>4. ASSUME NEW pc, Set(s, [workers[s] EXCEPT !.pc = pc]) PROVE workers'[s].cntxt = workers[s].cntxt
  <2>1. [workers[s] EXCEPT !.pc = pc].cntxt = workers[s].cntxt
    BY <1>1 DEF WorkerType
  <2> QED  BY <1>3, <1>4, <2>1
<1>5. CASE Start(s) \/ Down(s) \/ PopNothing(s) \/ PopExit(s) \/ Check(s) \/ Call(s)
  <2>1. ASSUME Start(s) \/ Down(s) \/ Check(s) PROVE \E pc: Set(s, [workers[s] EXCEPT !.pc = pc])
    BY <2>1 DEF Start, Down, Check
  <2>2. ASSUME PopNothing(s) \/ PopExit(s) \/ Call(s) PROVE \E pc: Set(s, [workers[s] EXCEPT !.pc = pc])
    BY <2>2, Zenon DEF PopNothing, PopExit, Call
  <2>3. PICK pc: Set(s, [workers[s] EXCEPT !.pc = pc])
    BY <1>5, <2>1, <2>2, Zenon
  <2> QED  BY <1>2, <1>4, <2>3
<1>6. CASE Gate(s)
  <2>1. PICK x: Set(s, [workers[s] EXCEPT !.pc = "loop", !.s = x])
    BY <1>6, Zenon DEF Gate
  <2>2. [workers[s] EXCEPT !.pc = "loop", !.s = x].cntxt = workers[s].cntxt
    BY <1>1 DEF WorkerType
  <2> QED  BY <1>2, <1>3, <2>1, <2>2
<1>7. CASE Look(s)
  <2>1. PICK x: Set(s, [workers[s] EXCEPT !.pc = "down", !.seen = x])
    BY <1>7, Zenon DEF Look
  <2>2. [workers[s] EXCEPT !.pc = "down", !.seen = x].cntxt = workers[s].cntxt
    BY <1>1 DEF WorkerType
  <2> QED  BY <1>2, <1>3, <2>1, <2>2
<1>8. CASE PopMine(s) \/ PopAny(s)
  <2>1. PICK x: Set(s, [workers[s] EXCEPT !.pc = "got", !.fe = x])
    BY <1>8, Zenon DEF PopMine, PopAny
  <2>2. [workers[s] EXCEPT !.pc = "got", !.fe = x].cntxt = workers[s].cntxt
    BY <1>1 DEF WorkerType
  <2> QED  BY <1>2, <1>3, <2>1, <2>2
<1>9. ASSUME NEW err \in BOOLEAN, Ran(s, err) PROVE workers'[s].cntxt = workers[s].cntxt
  <2>1. PICK x: Set(s, [workers[s] EXCEPT !.pc = "report", !.fnxt = x])
    BY <1>9, Zenon DEF Ran
  <2>2. [workers[s] EXCEPT !.pc = "report", !.fnxt = x].cntxt = workers[s].cntxt
    BY <1>1 DEF WorkerType
  <2> QED  BY <1>2, <1>3, <2>1, <2>2
<1>10. CASE Report(s)
  <2>1. PICK pc, x, y: Set(s, [workers[s] EXCEPT !.pc = pc, !.fe = x, !.fnxt = y])
    BY <1>10, Zenon DEF Report
  <2>2. [workers[s] EXCEPT !.pc = pc, !.fe = x, !.fnxt = y].cntxt = workers[s].cntxt
    BY <1>1 DEF WorkerType
  <2> QED  BY <1>2, <1>3, <2>1, <2>2
<1>11. CASE Exit(s)
  <2>1. Set(s, [workers[s] EXCEPT !.flag = "EXITED", !.pc = "none", !.seen = Nobody])
    BY <1>11, Zenon DEF Exit
  <2>2. [workers[s] EXCEPT !.flag = "EXITED", !.pc = "none", !.seen = Nobody].cntxt = workers[s].cntxt
    BY <1>1 DEF WorkerType
  <2> QED  BY <1>2, <1>3, <2>1, <2>2
<1>12. workers'[s].cntxt = workers[s].cntxt
  BY <1>5, <1>6, <1>7, <1>8, <1>9, <1>10, <1>11, Zenon DEF Worker
<1> QED  BY <1>2, <1>12

LEMMA Creates ==
  ASSUME TypeOK, NEW c \in Callers, NEW i \in Slots, CreateWorker(c, i)
  PROVE  step'[c].at = "init" /\ step'[c].w = i
<1>1. step' = [step EXCEPT ![c] = [@ EXCEPT !.at = "init", !.w = i]]
  BY Zenon DEF CreateWorker
<1> QED  BY <1>1 DEF TypeOK, StepType

LEMMA BoundNext == "graph" \notin Faults /\ IInv /\ Bound /\ [Next]_vars => Bound'
<1> SUFFICES ASSUME "graph" \notin Faults, IInv, Bound, [Next]_vars,
                    NEW s \in Slots, Alive(s)', workers'[s].cntxt # Nobody
             PROVE  \E c \in Callers: Serving(c)' /\ step'[c].w = s
  BY DEF Bound, Serving
<1> USE DEF queue, pool, bounds
<1>1. TypeOK /\ Fresh /\ Control /\ Owned
  BY DEF IInv
<1>2. ASSUME Alive(s), workers[s].cntxt # Nobody PROVE \E c \in Callers: Serving(c) /\ step[c].w = s
  BY <1>2 DEF Bound, Serving
<1>3. ASSUME NEW t \in Slots, Worker(t) PROVE \E c \in Callers: Serving(c)' /\ step'[c].w = s
  <2>1. Alive(s) /\ workers'[s].cntxt = workers[s].cntxt
    <3>1. CASE s = t
      BY <1>1, <1>3, <3>1, WorkerBound
    <3>2. CASE s # t
      <4>1. workers'[s] = workers[s]
        BY <1>1, <1>3, <3>2, WorkerAlone
      <4> QED  BY <4>1 DEF Alive
    <3> QED  BY <3>1, <3>2
  <2>2. PICK c \in Callers: Serving(c) /\ step[c].w = s
    BY <1>2, <2>1
  <2>3. Active(c)
    BY <2>2 DEF Serving, Active
  <2>4. step'[c] = step[c]
    BY <1>1, <1>3, <2>3, NoneGoes
  <2> QED  BY <2>2, <2>4 DEF Serving
<1>4. ASSUME NEW c \in Callers, CreateWorker(c, s) PROVE \E d \in Callers: Serving(d)' /\ step'[d].w = s
  <2>1. step'[c].at = "init" /\ step'[c].w = s
    BY <1>1, <1>4, Creates
  <2> QED  BY <2>1 DEF Serving
<1>5. ASSUME ~\E c \in Callers: CreateWorker(c, s),
             \/ \E c \in Clients: \E d \in Depths[c]: Enter(c, d)
             \/ \E c \in Callers: Caller(c)
             \/ Stop \/ StopSlot
      PROVE  \E c \in Callers: Serving(c) /\ step[c].w = s
  <2>1. Kept(s)
    BY <1>1, <1>5, ThreadKept
  <2>2. workers'[s].cntxt = workers[s].cntxt
    BY <1>5, <2>1 DEF Kept, Alive
  <2>3. CASE created
    <3>1. workers'[s].pc = workers[s].pc
      BY <1>5, <2>1, <2>3 DEF Kept
    <3> QED  BY <1>2, <2>2, <3>1 DEF Alive
  <2>4. CASE ~created
    <3>1. workers[s] = NoThread
      BY <1>1, <2>4 DEF Fresh
    <3> QED  BY <2>2, <3>1 DEF NoThread
  <2> QED  BY <2>3, <2>4
<1>6. ASSUME ~\E c \in Callers: CreateWorker(c, s), NEW c \in Callers, Caller(c)
      PROVE  \E d \in Callers: Serving(d)' /\ step'[d].w = s
  <2>1. PICK d \in Callers: Serving(d) /\ step[d].w = s
    BY <1>5, <1>6
  <2>2. CASE d # c
    <3>1. step'[d] = step[d]
      BY <1>1, <1>6, <2>2, Going DEF Goes
    <3> QED  BY <2>1, <3>1 DEF Serving
  <2>3. CASE d = c
    <3>1. ~Finish(c)
      <4>1. ASSUME Finish(c) PROVE FALSE
        <5>1. workers' = [workers EXCEPT ![step[c].w] = [@ EXCEPT !.cntxt = Nobody]]
          BY <4>1, Zenon DEF Finish, Release
        <5>2. workers[s] \in WorkerType /\ DOMAIN workers = Slots
          BY <1>1, Hands DEF TypeOK
        <5> QED  BY <2>1, <2>3, <5>1, <5>2 DEF WorkerType
      <4> QED  BY <4>1
    <3> QED  BY <1>1, <1>6, <2>1, <2>3, <3>1, Serves
  <2> QED  BY <2>2, <2>3
<1>7. ASSUME NEW c \in Clients, NEW k \in Depths[c], Enter(c, k), ~\E d \in Callers: CreateWorker(d, s)
      PROVE  \E d \in Callers: Serving(d)' /\ step'[d].w = s
  <2>1. PICK d \in Callers: Serving(d) /\ step[d].w = s
    BY <1>5, <1>7
  <2>2. /\ step[c].at = "out" /\ c \in Callers
        /\ step' = [step EXCEPT ![c] = [Outside EXCEPT !.at = "create", !.depth = k]]
    BY <1>7 DEF Enter, Callers
  <2>3. d # c
    BY <2>1, <2>2 DEF Serving
  <2>4. step'[d] = step[d]
    <3>1. PICK x: step' = [step EXCEPT ![c] = x]
      BY <2>2
    <3>2. d \in Callers \ {c}
      BY <2>1, <2>3
    <3> QED  BY <1>1, <2>2, <3>1, <3>2, StepTo
  <2> QED  BY <2>1, <2>4 DEF Serving
<1>8. ASSUME Stop \/ StopSlot, ~\E d \in Callers: CreateWorker(d, s)
      PROVE  \E d \in Callers: Serving(d)' /\ step'[d].w = s
  <2>1. PICK d \in Callers: Serving(d) /\ step[d].w = s
    BY <1>5, <1>8
  <2>2. step' = step
    BY <1>8, Zenon DEF Stop, StopSlot
  <2> QED  BY <2>1, <2>2 DEF Serving
<1>9. ~Reset
  <2>1. ASSUME Reset PROVE FALSE
    <3>1. workers'[s] = NoThread
      BY <2>1 DEF Reset
    <3> QED  BY <3>1 DEF NoThread
  <2> QED  BY <2>1
<1>10. ASSUME UNCHANGED vars PROVE \E d \in Callers: Serving(d)' /\ step'[d].w = s
  <2>1. workers' = workers /\ step' = step
    BY <1>10 DEF vars
  <2> QED  BY <1>2, <2>1 DEF Alive, Serving
<1> QED  BY <1>3, <1>4, <1>6, <1>7, <1>8, <1>9, <1>10 DEF Next, Stopping

(* "the specific worker turns itself into a generic worker": when the      *)
(* graph of a block can always be built, a worker that is bound to a       *)
(* client belongs to a block in progress, and every other is generic.      *)
THEOREM SpecificOwnedKept ==
  ASSUME "graph" \notin Faults
  PROVE  Spec => []SpecificOwned
<1>1. Init => Bound
  BY DEF Init, Bound, Alive, NoThread
<1>2. Bound => SpecificOwned
  BY DEF Bound, SpecificOwned, Active
<1>3. IInv /\ Bound /\ [Next]_vars => Bound'
  BY BoundNext
<1> QED  BY <1>1, <1>2, <1>3, Invariant, PTL DEF Spec
=============================================================================
