----------------------------- MODULE MCApplication -----------------------------
(***************************************************************************)
(* Inputs of up to two characters, with and without a carriage return at   *)
(* the start, on an output buffer that may or may not hold all of the log. *)
(***************************************************************************)
EXTENDS Application

MCInputs == {<<>>, <<CR>>, <<CR, <<"other", 0>>>>, <<<<"other", 0>>>>}
=============================================================================
