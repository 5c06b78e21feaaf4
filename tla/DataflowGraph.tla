---------------------------- MODULE DataflowGraph ----------------------------
(***************************************************************************)
(* The dependency graph of a guarded MAL block (DFLOWinitBlk,              *)
(* mal_dataflow.c).  A block is                                            *)
(*   ins   the instructions between its brackets: the variables each one   *)
(*         assigns and the sequence of the variables it reads (constants   *)
(*         left out), and whether it calls a function that has a guarded   *)
(*         block itself;                                                   *)
(*   ends  for a variable the instruction of the block at which its scope  *)
(*         ends, 0 when that is outside of the block.                      *)
(* Instruction n of a block is status[n - 1] in the code.                  *)
(***************************************************************************)
EXTENDS Integers, Sequences, SequencesExt

Size(b) == Len(b.ins)

(* A wake-up: when k is done n has one thing less to wait for.  The linked *)
(* list of k in nodes and edges is the sequence wake[k].                   *)
AddEdge(g, k, n) ==
    [g EXCEPT !.wake[k] = Append(@, n), !.blocks[n] = @ + 1]

(* n waits for the instruction that assigned v.                            *)
WaitForValue(b, g, n, v) ==
    IF g.assign[v] # 0 THEN AddEdge(g, g.assign[v], n) ELSE g

(* The instruction at which v ends waits for n.                            *)
HoldScope(b, g, n, v) ==
    IF b.ends[v] # n /\ b.ends[v] \in 2 .. Size(b)
    THEN AddEdge(g, n, b.ends[v]) ELSE g

DFLOWinitInstr(b, g, n) ==
    LET arg(h, v) == HoldScope(b, WaitForValue(b, h, n, v), n, v)
        read == FoldLeft(arg, g, b.ins[n].args)
    IN  [read EXCEPT !.assign = [v \in DOMAIN @ |->
                        IF v \in b.ins[n].rets THEN n ELSE @[v]]]

DFLOWinitBlk(b) ==
    LET none == [wake   |-> [n \in 1 .. Size(b) |-> <<>>],
                 blocks |-> [n \in 1 .. Size(b) |-> 0],
                 assign |-> [v \in DOMAIN b.ends |-> 0]]
        g == FoldLeft(LAMBDA h, n: DFLOWinitInstr(b, h, n), none, [n \in 1 .. Size(b) |-> n])
    IN  [ins |-> b.ins, ends |-> b.ends, wake |-> g.wake, blocks |-> g.blocks]

-----------------------------------------------------------------------------
(***************************************************************************)
(* What a block asks of any order of its instructions, said without the    *)
(* graph: an instruction reads what the last assignment before it wrote,   *)
(* and the variables whose scope ends at it are freed when it is done, so  *)
(* every other reader must have finished.                                  *)
(***************************************************************************)
Reads(b, n, v) == \E j \in DOMAIN b.ins[n].args: b.ins[n].args[j] = v

Before(b, n) ==
    {k \in 1 .. n - 1 : \E v \in b.ins[k].rets:
        /\ Reads(b, n, v)
        /\ \A m \in k + 1 .. n - 1: v \notin b.ins[m].rets}
    \cup {k \in 1 .. Size(b) \ {n} : \E v \in DOMAIN b.ends: b.ends[v] = n /\ Reads(b, k, v)}
=============================================================================
