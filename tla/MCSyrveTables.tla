--------------------------- MODULE MCSyrveTables ---------------------------
(* Small instances of SyrveTables for model checking. *)
EXTENDS SyrveTables, TLC

CONSTANTS t1, t2, r1, r2

\* A register for each of two tables, or one for both.
OneEach == t1 :> r1 @@ t2 :> r2
OneForBoth == t1 :> r1 @@ t2 :> r1

\* Every bill stands on one table at a time.
Single == {{p} : p \in Place}

BillSymmetry == Permutations(Bill)
=============================================================================
