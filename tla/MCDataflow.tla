----------------------------- MODULE MCDataflow -----------------------------
(***************************************************************************)
(* Dataflow for TLC, with the graphs that DataflowGraph builds of small    *)
(* blocks.                                                                 *)
(***************************************************************************)
EXTENDS Dataflow

CONSTANTS c1, c2

Ins(rets, args, call) == [rets |-> rets, args |-> args, call |-> call]
Vars == {"x", "y", "z"}

(* Two independent instructions, and one.                                  *)
Pair == [ins |-> <<Ins({"x"}, <<>>, FALSE), Ins({"y"}, <<>>, FALSE)>>, ends |-> [v \in Vars |-> 0]]
One == [ins |-> <<Ins({"x"}, <<>>, FALSE)>>, ends |-> [v \in Vars |-> 0]]
CallOne == [ins |-> <<Ins({"x"}, <<>>, TRUE)>>, ends |-> [v \in Vars |-> 0]]

(* All blocks of three instructions that assign x, y and z: what the       *)
(* second and the third one read, whether the second one calls, and        *)
(* whether x and y are freed after their last use or after the block.      *)
LastUse(ins, v) ==
    LET uses == {n \in DOMAIN ins : \E j \in DOMAIN ins[n].args: ins[n].args[j] = v}
    IN  IF uses = {} THEN 0 ELSE CHOOSE n \in uses : \A m \in uses: m <= n
ThreeIns ==
    {<<Ins({"x"}, <<>>, FALSE), Ins({"y"}, a, call), Ins({"z"}, b, FALSE)>> :
        a \in {<<>>, <<"x">>}, call \in BOOLEAN,
        b \in {<<"y">>, <<"x", "x">>, <<"x", "y">>, <<"y", "x">>}}
ThreeBlocks ==
    {[ins |-> ins, ends |-> [v \in Vars |-> IF v \in freed THEN LastUse(ins, v) ELSE 0]] :
        ins \in ThreeIns, freed \in {{}, {"x", "y"}}}

Built(blocks) == {G!DFLOWinitBlk(b) : b \in blocks}

Threes == [c \in Clients |-> Built(ThreeBlocks \cup {One})]
Calls == [c \in Clients |-> Built({IF c = c1 THEN CallOne ELSE One})]
OneAndPair == [c \in Clients |-> Built({IF c = c1 THEN One ELSE Pair})]
Ones == Built({One})

Both == [c \in Clients |-> {1, 2}]
Outer == [c \in Clients |-> {1}]
Inner == [c \in Clients |-> IF c = c1 THEN {2} ELSE {1}]

(* The graphs that DFLOWinitBlk builds have an edge for all that their     *)
(* blocks need; the order in which they are run depends on it.             *)
ASSUME GraphsAdequate == \A g \in Blocks: Adequate(g)
=============================================================================
