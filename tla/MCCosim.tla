------------------------------- MODULE MCCosim -------------------------------
(***************************************************************************)
(* A program in the shape of the generated ones: cleared registers, the    *)
(* data base, a loop with a store and a load, the epilogue.                *)
(***************************************************************************)
EXTENDS Cosim

Op(kind, rd) == [kind |-> kind, rd |-> rd, back |-> 0]
LoopBack(words) == [kind |-> "branch", rd |-> 0, back |-> words]

LoopProgram == <<Op("alu", 1), Op("auipc", 2), Op("store", 0), Op("load", 1),
                 LoopBack(2), Op("halt", 0)>>
X0Program == <<Op("alu", 1), Op("alu", 0), Op("store", 0), Op("load", 0), Op("halt", 0)>>

AllPrograms == {LoopProgram, X0Program}
=============================================================================
