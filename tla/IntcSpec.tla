------------------------------ MODULE IntcSpec ------------------------------
(***************************************************************************)
(* What the interrupt controller promises, without slots, tables, rebuild  *)
(* requests or a cached threshold: whenever the CPU looks, the pending,    *)
(* enabled source of the highest priority above SR.IMASK is accepted, the  *)
(* later source of the list winning a tie, and nothing while SR.BL is set. *)
(***************************************************************************)
EXTENDS Integers

CONSTANTS NumSources, IPR, InterruptSourceList, InitialPriority,
          IPRValues, SRValues, ResetSR, NoEvent

Source == 0 .. NumSources - 1

VARIABLES prio, pending, enabled, sr, ssr, CCN_INTEVT

vars == <<prio, pending, enabled, sr, ssr, CCN_INTEVT>>

LevelOf(s) == prio[InterruptSourceList[s].PrioReg][InterruptSourceList[s].Shift]

Beats(s, t) ==
  \/ LevelOf(s) > LevelOf(t)
  \/ LevelOf(s) = LevelOf(t) /\ s > t

\* s is the source to accept when the status register is v.
Wins(s, v) ==
  /\ s \in pending \cap enabled
  /\ ~v.BL
  /\ LevelOf(s) > v.IMASK
  /\ \A t \in (pending \cap enabled) \ {s} : Beats(s, t)

\* Look for an interrupt with the status register at v.
Poll(v) ==
  /\ \/ \E s \in Source :
          /\ Wins(s, v)
          /\ CCN_INTEVT' = s
          /\ ssr' = v
          /\ sr' = [v EXCEPT !.BL = TRUE, !.MD = TRUE, !.RB = TRUE]
     \/ /\ \A s \in Source : ~Wins(s, v)
        /\ sr' = v
        /\ UNCHANGED <<ssr, CCN_INTEVT>>
  /\ UNCHANGED <<prio, pending, enabled>>

Init ==
  /\ prio = InitialPriority
  /\ pending = {} /\ enabled = Source
  /\ sr = ResetSR
  /\ ssr = [MD |-> FALSE, RB |-> FALSE, BL |-> FALSE, IMASK |-> 0]
  /\ CCN_INTEVT = NoEvent

Line(s) ==
  /\ \/ pending' \in {pending \cup {s}, pending \ {s}} /\ UNCHANGED enabled
     \/ enabled' \in {enabled \cup {s}, enabled \ {s}} /\ UNCHANGED pending
  /\ UNCHANGED <<prio, sr, ssr, CCN_INTEVT>>

SetPriority ==
  /\ \E r \in IPR, data \in IPRValues : prio' = [prio EXCEPT ![r] = data]
  /\ UNCHANGED <<pending, enabled, sr, ssr, CCN_INTEVT>>

Privileged(v) == IF v.MD THEN v ELSE [v EXCEPT !.RB = FALSE]

SetSR == \E v \in SRValues \cup {ssr} : Poll(Privileged(v))

SetSSR ==
  /\ ssr' \in SRValues
  /\ UNCHANGED <<prio, pending, enabled, sr, CCN_INTEVT>>

Reset ==
  /\ prio' = InitialPriority
  /\ pending' = {} /\ enabled' = Source
  /\ sr' = ResetSR
  /\ ssr' = [MD |-> FALSE, RB |-> FALSE, BL |-> FALSE, IMASK |-> 0]
  /\ UNCHANGED CCN_INTEVT

Next == Poll(sr) \/ SetSR \/ SetSSR \/ SetPriority \/ Reset \/ \E s \in Source : Line(s)

Spec == Init /\ [][Next]_vars

=============================================================================
