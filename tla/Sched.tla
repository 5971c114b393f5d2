------------------------------- MODULE Sched -------------------------------
(***************************************************************************)
(* The deadline scheduler of dc/sh4/sh4_sched.cpp: one deadline per        *)
(* registered callback.  Its 64-bit clock never wraps, so a deadline is    *)
(* kept as its distance from now.  "start" is left out: it only feeds the  *)
(* callbacks' sch_cycl, which none reads.  So is the ascending order in    *)
(* which a tick calls back: no callback reads what another writes and none *)
(* re-arms itself.                                                         *)
(***************************************************************************)
EXTENDS Integers

CONSTANT Id             \* the callbacks registered

Idle == -1              \* sched_list.end of a callback with no request

Unscheduled == [id \in Id |-> Idle]

\* A countdown: the code lets it pass below 0 and only ever tests it for > 0.
CountDown(count, cycles) == IF count > cycles THEN count - cycles ELSE 0
\* (mutant of RunsOut) a count that reaches 0 exactly does not run out
MutRunsOutStrict(count, cycles) == count > 0 /\ count < cycles
RunsOut(count, cycles) == count > 0 /\ count <= cycles

sh4_sched_request(end, id, cycles) == [end EXCEPT ![id] = cycles]

Due(end, cycles) == {id \in Id : end[id] # Idle /\ end[id] <= cycles}

sh4_sched_tick(end, cycles) ==
  [id \in Id |-> IF end[id] = Idle \/ id \in Due(end, cycles)
                 THEN Idle ELSE end[id] - cycles]

sh4_sched_reset == Unscheduled
=============================================================================
