------------------------------- MODULE MCRepo -------------------------------
(***************************************************************************)
(* A small instance of Repo: the key "1", whose number is 1, and automatic *)
(* keys, which have none.                                                  *)
(***************************************************************************)
EXTENDS Repo

CONSTANTS one, auto1, auto2

MCintForString == [k \in Keys |-> IF k = one THEN 1 ELSE -1]
=============================================================================
