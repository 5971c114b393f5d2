------------------------------- MODULE MCHolly ------------------------------
(***************************************************************************)
(* Two IRL lines of fixed priority (IRL11 below IRL9) and one TMU channel, *)
(* whose priority the guest moves below and above them.           *)
(***************************************************************************)
EXTENDS Holly, TLC

MCReg == {"IRL", "IPRA"}
MCIPR == {"IPRA"}
MCNibble == {0, 1}
MCInterruptSourceList ==
  0 :> [PrioReg |-> "IRL", Shift |-> 0]
    @@ 1 :> [PrioReg |-> "IRL", Shift |-> 1]
    @@ 2 :> [PrioReg |-> "IPRA", Shift |-> 0]
MCInitialPriority ==
  "IRL" :> (0 :> 2 @@ 1 :> 1) @@ "IPRA" :> (0 :> 0 @@ 1 :> 0)
MCIPRValues == {0 :> 0 @@ 1 :> 0, 0 :> 3 @@ 1 :> 0}
MCResetSR == [MD |-> TRUE, RB |-> TRUE, BL |-> TRUE, IMASK |-> 3]
MCSRValues == {[MD |-> TRUE, RB |-> FALSE, BL |-> FALSE, IMASK |-> 1]}

=============================================================================
