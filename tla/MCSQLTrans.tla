---------------------------- MODULE MCSQLTrans -----------------------------
(* SQLTrans for TLC: a table of two columns and one of a single column, and *)
(* interchangeable sessions.                                                *)
EXTENDS SQLTrans, TLC

CONSTANTS a1, a2, b1, A, B

AllColumns == {a1, a2, b1}
AllTables  == {A, B}
InTable    == (a1 :> A) @@ (a2 :> A) @@ (b1 :> B)

FewUses    == (a1 :> {"update", "clear"}) @@ (a2 :> {"bind"})
                 @@ (b1 :> {"count", "append"})

Symmetry == Permutations(Sessions)
=============================================================================
