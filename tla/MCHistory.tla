------------------------------ MODULE MCHistory ------------------------------
(* A TLC instance of History: the reading with timestamp 2 was processed    *)
(* twice upstream.                                                         *)
EXTENDS History

Repeated == <<1, 2, 2, 3>>
=============================================================================
