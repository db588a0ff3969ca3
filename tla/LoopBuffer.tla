----------------------------- MODULE LoopBuffer -----------------------------
(***************************************************************************)
(* rtl/loop_buffer.sv: the buffer that sits between instruction memory and *)
(* the IF/ID register.  A fetch that is predicted taken backwards starts a *)
(* RECORDING of the loop body; when the fetch address comes back to the    *)
(* loop branch the buffer is LOOPING: it serves the body from `buffer' and *)
(* gates the instruction memory.                                           *)
(***************************************************************************)
EXTENDS RiscvPkg

CONSTANT BUFFER_DEPTH   \* a power of two (16 in the RTL)

ASSUME DepthAssumption == BUFFER_DEPTH \in Nat /\ BUFFER_DEPTH > 0

VARIABLES state_q, loop_start_q, loop_end_q, write_ptr_q, buffer

lb_vars == <<state_q, loop_start_q, loop_end_q, write_ptr_q, buffer>>

Slots == 0 .. BUFFER_DEPTH - 1

LBTypeOK ==
  /\ state_q \in {"IDLE", "RECORDING", "LOOPING", "INVALID"}
  /\ loop_start_q \in Word
  /\ loop_end_q \in Word        \* exclusive: the address after the branch
  /\ write_ptr_q \in 0 .. BUFFER_DEPTH
  /\ buffer \in [Slots -> Instr]

(* Reset clears the tracking registers and leaves the storage alone. *)
LBInit ==
  /\ state_q = "IDLE" /\ loop_start_q = 0 /\ loop_end_q = 0 /\ write_ptr_q = 0
  /\ buffer = [i \in Slots |-> NoInstr]

(* Mutant: the tracking registers survive a reset. *)
LBReset_keeps_state == UNCHANGED lb_vars

LBReset ==
  /\ state_q' = "IDLE" /\ loop_start_q' = 0 /\ loop_end_q' = 0 /\ write_ptr_q' = 0
  /\ UNCHANGED buffer

-----------------------------------------------------------------------------
(* Combinational outputs *)

loop_active == state_q = "LOOPING"
gate_icache_clk == state_q = "LOOPING"

(* loop_offset_pc[$clog2(BUFFER_DEPTH)+1:2] *)
read_idx(if_pc) == (Wrap(if_pc - loop_start_q) \div 4) % BUFFER_DEPTH

in_loop(if_pc) == loop_start_q <= if_pc /\ if_pc < loop_end_q

(* Mutant: the index is compared with a truncated write pointer. *)
read_idx_valid_truncated(if_pc) ==
  loop_active /\ in_loop(if_pc) /\ read_idx(if_pc) < write_ptr_q % BUFFER_DEPTH

read_idx_valid(if_pc) ==
  loop_active /\ in_loop(if_pc) /\ read_idx(if_pc) < write_ptr_q

instruction_out(if_pc, instruction_in) ==
  IF read_idx_valid(if_pc) THEN buffer[read_idx(if_pc)] ELSE instruction_in

is_backward_prediction(if_pc, taken, target) == taken /\ target < if_pc

-----------------------------------------------------------------------------
(* One clock edge, by state.  `taken' and `target' are the prediction for  *)
(* if_pc in this cycle.                                                    *)

LBIdle(if_pc, taken, target, flush) ==
  /\ state_q = "IDLE"
  /\ IF ~flush /\ is_backward_prediction(if_pc, taken, target)
     THEN /\ state_q' = "RECORDING"
          /\ loop_start_q' = target
          /\ loop_end_q' = Plus4(if_pc)
          /\ write_ptr_q' = 0
     ELSE UNCHANGED <<state_q, loop_start_q, loop_end_q, write_ptr_q>>
  /\ UNCHANGED buffer

(* Mutant: a stalled cycle is captured as if fetch had advanced. *)
LBRecord_ignores_stall(if_pc, instruction_in, flush, stall) ==
  /\ state_q = "RECORDING"
  /\ UNCHANGED <<loop_start_q, loop_end_q>>
  /\ IF flush \/ write_ptr_q >= BUFFER_DEPTH
     THEN state_q' = "INVALID" /\ UNCHANGED <<write_ptr_q, buffer>>
     ELSE /\ write_ptr_q' = write_ptr_q + 1
          /\ buffer' = [buffer EXCEPT ![write_ptr_q] = instruction_in]
          /\ state_q' = IF if_pc = Wrap(loop_end_q - 4) THEN "LOOPING" ELSE state_q

(* Mutant: the buffer counts as full one slot too early. *)
LBRecord_full_early(if_pc, instruction_in, flush, stall) ==
  /\ state_q = "RECORDING"
  /\ UNCHANGED <<loop_start_q, loop_end_q>>
  /\ IF ~flush /\ stall THEN UNCHANGED <<state_q, write_ptr_q, buffer>>
     ELSE IF flush \/ write_ptr_q >= BUFFER_DEPTH - 1
     THEN state_q' = "INVALID" /\ UNCHANGED <<write_ptr_q, buffer>>
     ELSE /\ write_ptr_q' = write_ptr_q + 1
          /\ buffer' = [buffer EXCEPT ![write_ptr_q] = instruction_in]
          /\ state_q' = IF if_pc = Wrap(loop_end_q - 4) THEN "LOOPING" ELSE state_q

(* Recording is abandoned by a flush, waits during a stall, gives up when  *)
(* the body does not fit, and otherwise captures one instruction.          *)
LBRecord(if_pc, instruction_in, flush, stall) ==
  /\ state_q = "RECORDING"
  /\ UNCHANGED <<loop_start_q, loop_end_q>>
  /\ \/ /\ flush
        /\ state_q' = "INVALID"
        /\ UNCHANGED <<write_ptr_q, buffer>>
     \/ /\ ~flush /\ stall
        /\ UNCHANGED <<state_q, write_ptr_q, buffer>>
     \/ /\ ~flush /\ ~stall /\ write_ptr_q >= BUFFER_DEPTH
        /\ state_q' = "INVALID"
        /\ UNCHANGED <<write_ptr_q, buffer>>
     \/ /\ ~flush /\ ~stall /\ write_ptr_q < BUFFER_DEPTH
        /\ write_ptr_q' = write_ptr_q + 1
        /\ buffer' = [buffer EXCEPT ![write_ptr_q] = instruction_in]
        /\ state_q' = IF if_pc = Wrap(loop_end_q - 4) THEN "LOOPING" ELSE state_q

(* Mutant: a flush does not end the replay. *)
LBLoop_ignores_flush(if_pc, flush) ==
  /\ state_q = "LOOPING"
  /\ state_q' = IF ~in_loop(if_pc) THEN "INVALID" ELSE state_q
  /\ UNCHANGED <<loop_start_q, loop_end_q, write_ptr_q, buffer>>

LBLoop(if_pc, flush) ==
  /\ state_q = "LOOPING"
  /\ state_q' = IF flush \/ ~in_loop(if_pc) THEN "INVALID" ELSE state_q
  /\ UNCHANGED <<loop_start_q, loop_end_q, write_ptr_q, buffer>>

LBInvalid ==
  /\ state_q = "INVALID"
  /\ state_q' = "IDLE" /\ loop_start_q' = 0 /\ loop_end_q' = 0 /\ write_ptr_q' = 0
  /\ UNCHANGED buffer

LBClock(if_pc, instruction_in, taken, target, flush, stall) ==
  \/ LBIdle(if_pc, taken, target, flush)
  \/ LBRecord(if_pc, instruction_in, flush, stall)
  \/ LBLoop(if_pc, flush)
  \/ LBInvalid
=============================================================================
