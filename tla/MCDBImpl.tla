------------------------------ MODULE MCDBImpl ------------------------------
(***************************************************************************)
(* Instances of DBImpl: three calls, memtables full after one or two       *)
(* entries.                                                                *)
(***************************************************************************)
EXTENDS DBImpl, TLC

Request(b, s) == [batch |-> b, sync |-> s]

\* Writes with and without sync, and TEST_CompactMemTable.
MCRequests == {Request(TRUE, FALSE), Request(TRUE, TRUE),
               Request(FALSE, FALSE)}

MCSymmetry == Permutations(Calls)
=============================================================================
