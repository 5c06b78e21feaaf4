------------------------------ MODULE Dataflow ------------------------------
(***************************************************************************)
(* The parallel interpreter of MAL blocks (mal_dataflow.c).  A client that *)
(* reaches a guarded block (runMALdataflow) creates a worker for itself,   *)
(* builds the dependency graph, and becomes the block's scheduler: it puts *)
(* what can run in the queue todo, which all workers share, and takes what *)
(* was executed from the block's queue done.  When the block is done, the  *)
(* client's worker joins the pool and one worker of the pool exits.  A     *)
(* worker whose instruction calls a function with a guarded block of its   *)
(* own is the scheduler of that block in the same way.                     *)
(*                                                                         *)
(* A thread is named by its slot in the table workers.  One step is what a *)
(* thread does while it holds a lock; a push on a queue and the MT_sema_up *)
(* after it are one step (others see no more than when the token comes     *)
(* late).  The pool is created by the query of monetdb_startup, before     *)
(* there is any other client, and stopped when all clients are idle        *)
(* (mserver_reset: "the enclosing application [has] to finish/cease all    *)
(* activity first").  USE_MAL_ADMISSION is not defined in this build.      *)
(***************************************************************************)
EXTENDS Integers, Sequences, FiniteSets

CONSTANTS
    Clients,    \* the clients
    Slots,      \* the indices of workers[] (THREADS of them)
    Limit,      \* GDKnr_threads - 1, the size of the pool
    Graphs,     \* Graphs[c]: the blocks client c runs, with the graphs of DFLOWinitBlk
    Called,     \* those in functions that instructions call
    Nobody,     \* NULL for a client, an error or a worker
    Faults,     \* "create": a thread cannot be created; "graph": out of memory in DFLOWinitBlk;
                \* "error": an instruction raises an exception
    Depths,     \* Depths[c]: call depths at which a client reaches a block: 1, or 2 in a called function
    MaxBlocks,  \* bound: number of blocks that clients run
    MaxStops,   \* bound: number of shutdowns
    Slow        \* clients whose instructions may take for ever

G == INSTANCE DataflowGraph

Size(g) == Len(g.ins)
Nodes(g) == 1 .. Size(g)
Edges(g) == UNION {{k} \X DOMAIN g.wake[k] : k \in Nodes(g)}     \* <<k, j>>: the j-th of wake[k]
InEdges(g, n) == {e \in Edges(g) : g.wake[e[1]][e[2]] = n}

Blocks == Called \cup UNION {Graphs[c] : c \in Clients}

(* The graphs: every instruction waits for as many wake-ups as there are,  *)
(* all of them from instructions before it (DFLOWinitBlk asserts that).    *)
GraphOK(g) ==
    /\ Size(g) \in Nat \ {0}
    /\ g.wake \in [Nodes(g) -> Seq(Nodes(g))]
    /\ g.blocks = [n \in Nodes(g) |-> Cardinality(InEdges(g, n))]
    /\ \A n \in Nodes(g): \A e \in InEdges(g, n): e[1] < n

ASSUME DataflowAssumption ==
    /\ Limit \in Nat \ {0}
    /\ Nobody \notin Clients \cup Slots \cup ((Clients \cup Slots) \X Nat)
    /\ Clients \cap Slots = {}
    /\ IsFiniteSet(Clients) /\ IsFiniteSet(Slots)
    /\ Slots = 1 .. Cardinality(Slots) /\ Limit <= Cardinality(Slots)
    /\ \A g \in Blocks: GraphOK(g)
    /\ \A g \in Called: \A n \in Nodes(g): ~g.ins[n].call
    /\ \A c \in Clients: Depths[c] \subseteq Nat

Callers == Clients \cup Slots

VARIABLES
    workers,    \* workers[s]: the entry of the table, and the thread in slot s
    created,    \* todo # NULL: is there a pool?
    todo,       \* the queue of instructions <<caller, n>> that can run
    sema,       \* its semaphore
    exitcount,  \* its exitcount
    exiting,    \* the flag exiting
    flow,       \* flow[c]: the block caller c is in
    step,       \* step[c]: where caller c is in runMALdataflow
    stopper,    \* the thread in stopMALdataflow: its slot, and is it joining it?
    nblocks, nstops     \* bounds

queue == <<todo, sema, exitcount>>
bounds == <<nblocks, nstops>>
pool == <<created, exiting, stopper>>
vars == <<workers, pool, queue, flow, step, bounds>>

(* A worker: its entry (flag, cntxt, and the semaphore s), its thread's pc,*)
(* the thread's copy (seen) of cntxt, its instruction (fe) and the one it  *)
(* has picked to go on with (fnxt).                                        *)
NoThread == [flag |-> "IDLE", cntxt |-> Nobody, s |-> 0,
             pc |-> "none", seen |-> Nobody, fe |-> Nobody, fnxt |-> Nobody]
NewThread(w, c) == [w EXCEPT !.flag = "RUNNING", !.cntxt = c, !.pc = "start"]

NoFlow == [live |-> FALSE]
NewFlow(g, c) ==
    [live |-> TRUE, g |-> g, cntxt |-> c, blocks |-> g.blocks,
     state |-> [n \in Nodes(g) |-> "pending"], done |-> <<>>, error |-> FALSE,
     tasks |-> 0, f |-> 0, at |-> 0]    \* the scheduler's: count, instruction done, position
Outside == [at |-> "out", w |-> Nobody, depth |-> 0, failed |-> FALSE]

Init ==
    /\ workers = [s \in Slots |-> NoThread]
    /\ created = FALSE /\ exiting = FALSE
    /\ stopper = [at |-> 0, joining |-> FALSE]
    /\ todo = <<>> /\ sema = 0 /\ exitcount = 0
    /\ flow = [c \in Callers |-> NoFlow]
    /\ step = [c \in Callers |-> Outside]
    /\ nblocks = 0 /\ nstops = 0

Of(e) == flow[e[1]]
Locked(c) == step[c].at \in {"feed", "dispatch"}    \* its scheduler holds flowlock
ClientOf(c) == IF c \in Clients THEN c ELSE Of(workers[c].fe).cntxt

Set(s, w) == workers' = [workers EXCEPT ![s] = w]
Goto(c, at) == step' = [step EXCEPT ![c].at = at]
Enqueue(e) == todo' = Append(todo, e) /\ sema' = sema + 1 /\ UNCHANGED exitcount

-----------------------------------------------------------------------------
(***************************************************************************)
(* runMALdataflow.                                                         *)
(***************************************************************************)

(* DFLOWinitialize: the threads of the pool.                               *)
Pool == [s \in Slots |-> IF s <= Limit THEN NewThread(NoThread, Nobody) ELSE NoThread]

(* A client reaches a guarded block.                                       *)
Enter(c, depth) ==
    /\ c \in Clients /\ step[c].at = "out" /\ ~exiting
    /\ nblocks < MaxBlocks /\ nblocks' = nblocks + 1
    /\ workers' = IF created THEN workers ELSE Pool
    /\ created' = TRUE
    /\ step' = [step EXCEPT ![c] = [Outside EXCEPT !.at = "create", !.depth = depth]]
    /\ UNCHANGED <<queue, flow, exiting, stopper, nstops>>

(* Join an exited thread; dataflowLock is released meanwhile.              *)
JoinBegin(c, s) ==
    /\ step[c].at = "create" /\ workers[s].flag = "EXITED"
    /\ Set(s, [workers[s] EXCEPT !.flag = "JOINING", !.cntxt = Nobody])
    /\ step' = [step EXCEPT ![c] = [@ EXCEPT !.at = "join", !.w = s]]
    /\ UNCHANGED <<queue, flow, pool, bounds>>

JoinEnd(c) ==
    /\ step[c].at = "join" /\ workers[step[c].w].pc = "none"
    /\ Set(step[c].w, [workers[step[c].w] EXCEPT !.flag = "IDLE"])
    /\ Goto(c, "create")
    /\ UNCHANGED <<queue, flow, pool, bounds>>

(* The client the new worker works for: in a recursive call the one that   *)
(* the calling worker works for.                                           *)
Specificity(c) ==
    CASE step[c].depth <= 1 -> c
      [] step[c].depth > 1 /\ c \in Slots -> workers[c].cntxt
      [] OTHER -> Nobody

(* Create the worker, in the first free slot.                              *)
Free == {s \in Slots : workers[s].flag = "IDLE"}
FirstFree(i) == i \in Free /\ \A r \in Free: i <= r
NoneExited == \A s \in Slots: workers[s].flag # "EXITED"

CreateWorker(c, i) ==
    /\ step[c].at = "create" /\ NoneExited /\ FirstFree(i)
    /\ Set(i, NewThread(workers[i], Specificity(c)))
    /\ step' = [step EXCEPT ![c] = [@ EXCEPT !.at = "init", !.w = i]]
    /\ UNCHANGED <<queue, flow, pool, bounds>>

(* Without a free slot or a thread the caller runs the block itself.       *)
RunSerially(c) ==
    /\ step[c].at = "create" /\ NoneExited
    /\ \/ Free = {} /\ UNCHANGED workers
       \/ /\ "create" \in Faults
          /\ \E i \in Free: FirstFree(i) /\ Set(i, [workers[i] EXCEPT !.cntxt = Specificity(c)])
    /\ Goto(c, "out")
    /\ UNCHANGED <<queue, flow, pool, bounds>>

(* Build the graph, or run out of memory.                                  *)
InitBlk(c) ==
    /\ step[c].at = "init"
    /\ \/ \E g \in IF c \in Clients THEN Graphs[c] ELSE Called:
            /\ flow' = [flow EXCEPT ![c] = NewFlow(g, ClientOf(c))]
            /\ Goto(c, "feed")
       \/ /\ "graph" \in Faults
          /\ step' = [step EXCEPT ![c] = [@ EXCEPT !.at = "pill", !.failed = TRUE]]
          /\ UNCHANGED flow
    /\ UNCHANGED <<workers, queue, pool, bounds>>

(* DFLOWscheduler: put what waits for nothing in todo, then let the worker *)
(* start.                                                                  *)
Feed(c) ==
    LET fl == flow[c]
        ready == {n \in Nodes(fl.g) : n > fl.at /\ fl.blocks[n] = 0}
        i == CHOOSE n \in ready : \A m \in ready: n <= m
    IN  /\ step[c].at = "feed"
        /\ \/ /\ ready # {}
              /\ Enqueue(<<c, i>>)
              /\ flow' = [flow EXCEPT ![c] = [@ EXCEPT !.state[i] = "running", !.at = i]]
              /\ UNCHANGED <<workers, step>>
           \/ /\ ready = {}
              /\ workers' = [workers EXCEPT ![step[c].w].s = @ + 1]
              /\ Goto(c, "wait")
              /\ UNCHANGED <<queue, flow>>
        /\ UNCHANGED <<pool, bounds>>

ExecutedAll(fl) == \A n \in Nodes(fl.g): fl.state[n] = "wrapup"    \* mutant: nothing is counted
Complete(fl) == fl.tasks = Size(fl.g)

(* Take an executed instruction (done has a token for each of its entries, *)
(* and only this thread takes them).                                       *)
TakeDone(c) ==
    LET fl == flow[c] IN
    /\ step[c].at = "wait" /\ ~Complete(fl) /\ fl.done # <<>>
    /\ flow' = [flow EXCEPT ![c] = [fl EXCEPT !.done = SubSeq(@, 1, Len(@) - 1), !.tasks = @ + 1,
                                              !.f = fl.done[Len(fl.done)], !.at = 0]]
    /\ Goto(c, "dispatch")
    /\ UNCHANGED <<workers, queue, pool, bounds>>

(* Wake the next instruction that waits for it, unless a worker has picked *)
(* it already.                                                             *)
Dispatch(c) ==
    LET fl == flow[c]
        wake == fl.g.wake[fl.f]
        i == wake[fl.at + 1]
    IN  /\ step[c].at = "dispatch" /\ fl.at < Len(wake)
        /\ IF fl.state[i] = "pending" /\ fl.blocks[i] = 1
           THEN /\ Enqueue(<<c, i>>)
                /\ flow' = [flow EXCEPT ![c] = [fl EXCEPT !.state[i] = "running", !.blocks[i] = 0,
                                                          !.at = @ + 1]]
           ELSE /\ UNCHANGED queue
                /\ flow' = [flow EXCEPT ![c] = [fl EXCEPT
                                !.blocks[i] = IF fl.state[i] = "pending" THEN @ - 1 ELSE @,
                                !.at = @ + 1]]
        /\ UNCHANGED <<workers, step, pool, bounds>>

Dispatched(c) ==
    /\ step[c].at = "dispatch" /\ flow[c].at = Len(flow[c].g.wake[flow[c].f])
    /\ Goto(c, "wait")
    /\ UNCHANGED <<workers, queue, flow, pool, bounds>>

StaysBound(w) == w                              \* mutant: the worker stays specific
Release(w) == [w EXCEPT !.cntxt = Nobody]

(* The block is done: its worker is generic from now on.                   *)
Finish(c) ==
    /\ step[c].at = "wait" /\ Complete(flow[c])
    /\ workers' = [workers EXCEPT ![step[c].w] = Release(@)]
    /\ step' = [step EXCEPT ![c] = [@ EXCEPT !.at = "pill", !.failed = flow[c].error]]
    /\ flow' = [flow EXCEPT ![c] = NoFlow]
    /\ UNCHANGED <<queue, pool, bounds>>

NotTold == exitcount                            \* mutant: only the semaphore is raised
Told == exitcount + 1

(* Tell one worker to exit.                                                *)
Pill(c) ==
    /\ step[c].at = "pill"
    /\ exitcount' = Told /\ sema' = sema + 1
    /\ step' = [step EXCEPT ![c] = [Outside EXCEPT !.failed = c \in Slots /\ step[c].failed]]
    /\ UNCHANGED <<workers, todo, flow, pool, bounds>>

-----------------------------------------------------------------------------
(***************************************************************************)
(* DFLOWworker.                                                            *)
(***************************************************************************)
At(s, pc) == s \in Slots /\ workers[s].pc = pc

(* The thread begins; a specific worker waits until it is allowed to.      *)
Start(s) ==
    /\ At(s, "start")
    /\ Set(s, [workers[s] EXCEPT !.pc = IF workers[s].cntxt # Nobody THEN "gate" ELSE "loop"])
    /\ UNCHANGED <<queue, flow, step, pool, bounds>>

Gate(s) ==
    /\ At(s, "gate") /\ workers[s].s > 0
    /\ Set(s, [workers[s] EXCEPT !.pc = "loop", !.s = @ - 1])
    /\ UNCHANGED <<queue, flow, step, pool, bounds>>

(* Look for whom to work.                                                  *)
Look(s) ==
    /\ At(s, "loop")
    /\ Set(s, [workers[s] EXCEPT !.pc = "down", !.seen = workers[s].cntxt])
    /\ UNCHANGED <<queue, flow, step, pool, bounds>>

SameClient == "down"                            \* mutant: it does not look again
LookAgain == "loop"

(* q_dequeue: get a token of todo; nothing is dequeued when exiting, and a *)
(* worker that still sees a client gives the token back and looks again.   *)
Down(s) ==
    /\ At(s, "down") /\ sema > 0
    /\ LET back == exiting /\ workers[s].seen # Nobody IN
       /\ sema' = IF back THEN sema ELSE sema - 1
       /\ Set(s, [workers[s] EXCEPT !.pc = CASE back -> LookAgain
                                             [] exiting /\ ~back -> "exit"
                                             [] OTHER -> "pop"])
    /\ UNCHANGED <<todo, exitcount, flow, step, pool, bounds>>

(* A worker of client c takes its first instruction, the last one put in   *)
(* todo among equals.                                                      *)
Mine(c) == {i \in DOMAIN todo : Of(todo[i]).cntxt = c}
FirstOf(c, i) ==
    /\ i \in Mine(c)
    /\ \A j \in Mine(c): \/ todo[i][2] < todo[j][2]
                         \/ todo[i][2] = todo[j][2] /\ i >= j

PopMine(s) ==
    /\ At(s, "pop") /\ workers[s].seen # Nobody
    /\ \E i \in DOMAIN todo:
        /\ FirstOf(workers[s].seen, i)
        /\ Set(s, [workers[s] EXCEPT !.pc = "got", !.fe = todo[i]])
        /\ todo' = SubSeq(todo, 1, i - 1) \o SubSeq(todo, i + 1, Len(todo))
    /\ UNCHANGED <<sema, exitcount, flow, step, pool, bounds>>

KeepsToken == sema                              \* mutant: the token is not given back
GiveBack == sema + 1

PopNothing(s) ==
    /\ At(s, "pop") /\ workers[s].seen # Nobody /\ Mine(workers[s].seen) = {}
    /\ Set(s, [workers[s] EXCEPT !.pc = "loop"])
    /\ sema' = GiveBack
    /\ UNCHANGED <<todo, exitcount, flow, step, pool, bounds>>

MayExit == exitcount >= 0                       \* mutant: off by one
MustExit == exitcount > 0
StillTold == exitcount                          \* mutant: every worker is told to exit
ToldOneLess == exitcount - 1

(* A generic worker exits when one has to, or takes the last instruction.  *)
PopExit(s) ==
    /\ At(s, "pop") /\ workers[s].seen = Nobody /\ MustExit
    /\ Set(s, [workers[s] EXCEPT !.pc = "exit"])
    /\ exitcount' = ToldOneLess
    /\ UNCHANGED <<todo, sema, flow, step, pool, bounds>>

PopAny(s) ==
    /\ At(s, "pop") /\ workers[s].seen = Nobody /\ exitcount = 0 /\ todo # <<>>
    /\ Set(s, [workers[s] EXCEPT !.pc = "got", !.fe = todo[Len(todo)]])
    /\ todo' = SubSeq(todo, 1, Len(todo) - 1)
    /\ UNCHANGED <<sema, exitcount, flow, step, pool, bounds>>

AnyError(e) == \E c \in Callers: flow[c].live /\ flow[c].error   \* mutant: an error of any block
Failed(e) == Of(e).error

(* Skip the instruction when the block has had an error.                   *)
Check(s) ==
    LET e == workers[s].fe IN
    /\ At(s, "got") /\ ~Locked(e[1])
    /\ Set(s, [workers[s] EXCEPT !.pc = IF Failed(e) THEN "report" ELSE "run"])
    /\ UNCHANGED <<queue, flow, step, pool, bounds>>

(* runMALsequence reaches a guarded block in the function called.          *)
Call(s) ==
    LET e == workers[s].fe IN
    /\ At(s, "run") /\ Of(e).g.ins[e[2]].call
    /\ Set(s, [workers[s] EXCEPT !.pc = "call"])
    /\ step' = [step EXCEPT ![s] = [Outside EXCEPT !.at = "create", !.depth = 2]]
    /\ UNCHANGED <<queue, flow, pool, bounds>>

AnyPending(fl, n) ==                            \* mutant: whatever else it waits for
    {j \in DOMAIN fl.g.wake[n] : fl.state[fl.g.wake[n][j]] = "pending"}
(* The instruction picked next: one that waited only for this one.         *)
Eligible(fl, n) ==
    {j \in DOMAIN fl.g.wake[n] : LET i == fl.g.wake[n][j] IN
        fl.state[i] = "pending" /\ fl.blocks[i] = 1}
Next1(fl, n) == fl.g.wake[n][CHOOSE j \in Eligible(fl, n) : \A k \in Eligible(fl, n): j <= k]

(* runMALsequence returns: note an error, or pick an instruction.          *)
Ran(s, err) ==
    LET e == workers[s].fe
        c == e[1]
        n == e[2]
        fl == flow[c]
        i == Next1(fl, n)
        picks == ~err /\ Eligible(fl, n) # {}
    IN  /\ \/ At(s, "run") /\ ~fl.g.ins[n].call
           \/ At(s, "call") /\ step[s].at = "out" /\ (step[s].failed => err)
        /\ err => "error" \in Faults \/ step[s].failed
        /\ ~Locked(c)
        /\ Set(s, [workers[s] EXCEPT !.pc = "report", !.fnxt = IF picks THEN <<c, i>> ELSE Nobody])
        /\ flow' = [flow EXCEPT ![c] = [fl EXCEPT
                        !.error = @ \/ err,
                        !.state = [m \in DOMAIN @ |-> CASE m = n -> "wrapup"
                                                        [] picks /\ m = i -> "running"
                                                        [] OTHER -> @[m]],
                        !.blocks = [m \in DOMAIN @ |-> IF picks /\ m = i THEN 0 ELSE @[m]]]]
        /\ step' = [step EXCEPT ![s] = Outside]
        /\ UNCHANGED <<queue, pool, bounds>>

NotForgotten(nxt) == nxt                        \* mutant: fnxt is not reset
Forgotten(nxt) == Nobody

(* Hand the instruction to the scheduler.                                  *)
Report(s) ==
    LET e == workers[s].fe
        nxt == workers[s].fnxt
    IN  /\ At(s, "report")
        /\ flow' = [flow EXCEPT ![e[1]].done = Append(@, e[2])]
        /\ Set(s, [workers[s] EXCEPT !.pc = IF nxt # Nobody THEN "got" ELSE "loop",
                                     !.fe = nxt, !.fnxt = Forgotten(nxt)])
        /\ UNCHANGED <<queue, step, pool, bounds>>

Exit(s) ==
    /\ At(s, "exit")
    /\ Set(s, [workers[s] EXCEPT !.flag = "EXITED", !.pc = "none", !.seen = Nobody])
    /\ UNCHANGED <<queue, flow, step, pool, bounds>>

-----------------------------------------------------------------------------
(***************************************************************************)
(* stopMALdataflow and mal_dataflow_reset.                                 *)
(***************************************************************************)
Stop ==
    /\ created /\ ~exiting
    /\ \A c \in Clients: step[c].at = "out"
    /\ nstops < MaxStops /\ nstops' = nstops + 1
    /\ exiting' = TRUE
    /\ sema' = sema + Cardinality(Slots)
    /\ stopper' = [at |-> 1, joining |-> FALSE]
    /\ UNCHANGED <<workers, created, todo, exitcount, flow, step, nblocks>>

StopSlot ==
    LET i == stopper.at
        idle == workers[i].flag \in {"IDLE", "JOINING"}
    IN  /\ exiting /\ i \in Slots
        /\ \/ /\ ~stopper.joining /\ ~idle
              /\ Set(i, [workers[i] EXCEPT !.flag = "JOINING"])
              /\ stopper' = [stopper EXCEPT !.joining = TRUE]
           \/ /\ IF stopper.joining THEN workers[i].pc = "none" ELSE idle
              /\ Set(i, [workers[i] EXCEPT !.flag = "IDLE"])
              /\ stopper' = [at |-> i + 1, joining |-> FALSE]
        /\ UNCHANGED <<queue, created, exiting, flow, step, bounds>>

(* No thread is left in the slots.                                         *)
Reset ==
    /\ exiting /\ stopper.at \notin Slots
    /\ workers' = [s \in Slots |-> NoThread]
    /\ created' = FALSE /\ exiting' = FALSE
    /\ stopper' = [at |-> 0, joining |-> FALSE]
    /\ todo' = <<>> /\ sema' = 0 /\ exitcount' = 0
    /\ step' = [c \in Callers |-> IF c \in Slots THEN Outside ELSE step[c]]
    /\ UNCHANGED <<flow, bounds>>

-----------------------------------------------------------------------------
Worker(s) ==
    \/ Start(s) \/ Gate(s) \/ Look(s) \/ Down(s)
    \/ PopMine(s) \/ PopNothing(s) \/ PopExit(s) \/ PopAny(s)
    \/ Check(s) \/ Call(s) \/ (\E err \in BOOLEAN: Ran(s, err)) \/ Report(s) \/ Exit(s)

Caller(c) ==
    \/ (\E s \in Slots: JoinBegin(c, s)) \/ JoinEnd(c)
    \/ (\E i \in Slots: CreateWorker(c, i)) \/ RunSerially(c) \/ InitBlk(c)
    \/ Feed(c) \/ TakeDone(c) \/ Dispatch(c) \/ Dispatched(c) \/ Finish(c) \/ Pill(c)

Stopping == StopSlot \/ Reset

Next ==
    \/ \E c \in Clients: \E d \in Depths[c]: Enter(c, d)
    \/ \E c \in Callers: Caller(c)
    \/ \E s \in Slots: Worker(s)
    \/ Stop \/ Stopping

Spec == Init /\ [][Next]_vars

-----------------------------------------------------------------------------
(***************************************************************************)
(* Fairness: threads run; a worker whose semaphore is raised again and     *)
(* again gets it in the end (one that gives a token back sleeps 1 ms).     *)
(* The instructions of slow clients may run for ever.                      *)
(***************************************************************************)
Prompt(s) == At(s, "run") => Of(workers[s].fe).cntxt \notin Slow

FairSpec ==
    /\ Spec
    /\ \A c \in Callers: WF_vars(Caller(c))
    /\ \A s \in Slots: WF_vars(Worker(s) /\ Prompt(s)) /\ SF_vars(Down(s))
    /\ WF_vars(Stopping)

-----------------------------------------------------------------------------
Running(s) == workers[s].pc \in {"got", "run", "call", "report"}
Executing(s) == workers[s].pc \in {"run", "call"}
Alive(s) == workers[s].pc \notin {"none", "exit"}
Active(c) == step[c].at \in {"init", "feed", "wait", "dispatch", "pill"}

(* Where the event e is: in todo, with a worker, picked by one, or         *)
(* executed and not yet seen by the scheduler (in done).                   *)
Places(e) ==
    {<<"todo", i>> : i \in {i \in DOMAIN todo : todo[i] = e}}
    \cup {<<"fe", s>> : s \in {s \in Slots : workers[s].fe = e}}
    \cup {<<"fnxt", s>> : s \in {s \in Slots : workers[s].fnxt = e}}
    \cup {<<"done", i>> : i \in {i \in DOMAIN Of(e).done : Of(e).done[i] = e[2]}}

Started(c) == {n \in Nodes(flow[c].g) : flow[c].state[n] # "pending"}
Counted(c) == {n \in Started(c) : Places(<<c, n>>) = {}}

Events == Callers \X Nat
ClientOrNull == Clients \cup {Nobody}
WorkerType ==
    [flag : {"IDLE", "RUNNING", "JOINING", "EXITED"}, cntxt : ClientOrNull, s : Nat,
     pc : {"none", "start", "gate", "loop", "down", "pop", "got", "run", "call", "report", "exit"},
     seen : ClientOrNull, fe : Events \cup {Nobody}, fnxt : Events \cup {Nobody}]
StepType ==
    [at : {"out", "create", "join", "init", "feed", "wait", "dispatch", "pill"},
     w : Slots \cup {Nobody}, depth : Nat, failed : BOOLEAN]
FlowType(g) ==
    [live : {TRUE}, g : {g}, cntxt : Clients, blocks : [Nodes(g) -> Nat],
     state : [Nodes(g) -> {"pending", "running", "wrapup"}], done : Seq(Nodes(g)),
     error : BOOLEAN, tasks : 0 .. Size(g), f : 0 .. Size(g), at : Nat]

(* The table of workers, the queue, the blocks and the callers have the    *)
(* values that their declarations and the code allow.                      *)
TypeOK ==
    /\ workers \in [Slots -> WorkerType]
    /\ created \in BOOLEAN /\ exiting \in BOOLEAN
    /\ stopper \in [at : Nat, joining : BOOLEAN]
    /\ todo \in Seq(Events) /\ sema \in Nat /\ exitcount \in Nat
    /\ DOMAIN flow = Callers
    /\ \A c \in Callers: flow[c] # NoFlow => /\ flow[c].g \in Blocks
                                             /\ flow[c] \in FlowType(flow[c].g)
    /\ step \in [Callers -> StepType]

(* Every instruction that is no longer pending is in exactly one place: in *)
(* todo, with one worker, in done, or counted by the scheduler (tasks).    *)
(* None is lost, executed twice or counted twice.                          *)
OnePlace ==
    \A c \in Callers: flow[c].live =>
        /\ \A n \in Nodes(flow[c].g):
            /\ \A p, q \in Places(<<c, n>>): p = q
            /\ Places(<<c, n>>) # {} => n \in Started(c)
        /\ Cardinality(Counted(c)) = flow[c].tasks

(* The block is freed by the scheduler (runMALdataflow) only when no queue *)
(* and no worker holds an instruction of it any more: every event is of an *)
(* instruction of a block that exists.                                     *)
OfBlock(e) == flow[e[1]].live /\ e[2] \in Nodes(flow[e[1]].g)
FreedLast ==
    /\ \A i \in DOMAIN todo: OfBlock(todo[i])
    /\ \A s \in Slots: /\ Running(s) => OfBlock(workers[s].fe)
                       /\ workers[s].fnxt # Nobody => OfBlock(workers[s].fnxt)

(* When the scheduler has counted all instructions every one was executed, *)
(* or the error of one of them is reported to the caller.                  *)
AllExecuted ==
    \A c \in Callers:
        step[c].at = "wait" /\ Complete(flow[c]) /\ ~flow[c].error
            => \A n \in Nodes(flow[c].g): flow[c].state[n] = "wrapup"

(* q_dequeue asserts that a generic worker that got a token finds an       *)
(* instruction, although workers of a client take tokens that are not      *)
(* theirs and give them back, and tokens also tell workers to exit.        *)
TokenFinds ==
    \A s \in Slots: At(s, "pop") /\ workers[s].seen = Nobody /\ exitcount = 0 => todo # <<>>

(* There are as many workers as the pool has, one more for every block in  *)
(* progress, and one more for every worker that has been told to exit.     *)
PoolSize ==
    created /\ ~exiting =>
        Cardinality({s \in Slots : Alive(s)})
            = Limit + Cardinality({c \in Callers : Active(c)}) + exitcount

(* "the specific worker turns itself into a generic worker": a worker that *)
(* is bound to a client belongs to a block in progress.                    *)
SpecificOwned ==
    \A s \in Slots: Alive(s) /\ workers[s].cntxt # Nobody
        => \E c \in Callers: Active(c) /\ step[c].w = s

(* An instruction is executed only when the instructions that wrote what   *)
(* it reads have finished, and, when variables are freed after it, all     *)
(* other readers of these have: the graph of DFLOWinitBlk, the counting in *)
(* the scheduler and the shortcut of the workers keep the order the block  *)
(* needs.                                                                  *)
InputsReady ==
    \A s \in Slots: Executing(s) =>
        \A k \in G!Before(Of(workers[s].fe).g, workers[s].fe[2]):
            Of(workers[s].fe).state[k] = "wrapup"

(* The graph has an edge for everything the block needs.                   *)
Adequate(g) ==
    \A n \in Nodes(g): \A k \in G!Before(g, n): \E e \in InEdges(g, n): e[1] = k

(* "there will always be progress for the client, even if all other        *)
(* workers are doing something big": a client whose own instructions end   *)
(* leaves its block, whatever the slow clients do.                         *)
BlockEnds == \A c \in Clients \ Slow: (step[c].at # "out") ~> (step[c].at = "out")

(* stopMALdataflow joins all workers and returns.                          *)
StopEnds == exiting ~> ~exiting
=============================================================================
