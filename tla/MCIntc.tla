------------------------------- MODULE MCIntc -------------------------------
(***************************************************************************)
(* A three-source controller: one source of fixed priority (as IRL9) and   *)
(* two with a field each, one of which its device can disable (as TMU0).   *)
(***************************************************************************)
EXTENDS Intc, TLC

MCReg == {"IRL", "IPRA"}
MCIPR == {"IPRA"}
MCNibble == {0, 1}
MCInterruptSourceList ==
  0 :> [PrioReg |-> "IRL", Shift |-> 0]
    @@ 1 :> [PrioReg |-> "IPRA", Shift |-> 0]
    @@ 2 :> [PrioReg |-> "IPRA", Shift |-> 1]
MCInitialPriority ==
  "IRL" :> [n \in MCNibble |-> 1] @@ "IPRA" :> [n \in MCNibble |-> 0]
MCIPRValues == {0 :> 0 @@ 1 :> 0, 0 :> 1 @@ 1 :> 1, 0 :> 2 @@ 1 :> 1, 0 :> 0 @@ 1 :> 2}
MCResetSR == [MD |-> TRUE, RB |-> TRUE, BL |-> TRUE, IMASK |-> 2]
MCSRValues ==
  {[MD |-> TRUE, RB |-> FALSE, BL |-> FALSE, IMASK |-> 0],
   [MD |-> FALSE, RB |-> TRUE, BL |-> FALSE, IMASK |-> 1],
   [MD |-> TRUE, RB |-> TRUE, BL |-> TRUE, IMASK |-> 0]}

=============================================================================
