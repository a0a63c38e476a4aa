------------------------------- MODULE MCSystem -------------------------------
(***************************************************************************)
(* The flash of MCBootloader; an image of three blocks that fills the      *)
(* application exactly, cut in two ways, one of which panics the board.    *)
(***************************************************************************)
EXTENDS System

MCSectorBase == [s \in 0 .. 3 |-> IF s = 3 THEN 20 ELSE 4 * s]
MCPlans == {<<5, 6, 8>>, <<5, 7, 8>>}
=============================================================================
