-------------------------------- MODULE MCGen --------------------------------
(***************************************************************************)
(* Instances of the program generator and the run of its programs: short   *)
(* loops, and immediates scaled so that the data offset of some lengths    *)
(* needs a negative low part and of others does not.                       *)
(***************************************************************************)
EXTENDS GenRun

LoopBodyWords == <<1, 2>>
LoopTripCounts == <<2, 3>>
=============================================================================
