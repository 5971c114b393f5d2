------------------------------ MODULE MCArmJit ------------------------------
(* A loop that sets up FIQs and stores into itself, a FIQ handler that returns    *)
(* to either of two addresses, and the mirror of the loop in the ARM7's window;  *)
(* room for two blocks, or three short ones.                                     *)
EXTENDS ArmJit, TLC
I(op, cond) == [op |-> op, cond |-> cond, to |-> 4]
MCProgram == 0 :> I("write", FALSE) @@ 1 :> I("b", TRUE) @@ 2 :> I("return", FALSE)
MCUploads == {<<1, I("alu", TRUE)>>}
MCInstr == {MCProgram[s] : s \in 0 .. 2} \cup {u[2] : u \in MCUploads}
=============================================================================
