---------------------------- MODULE MCCodeCache -----------------------------
(* A guest of three blocks: a loader, the overlay it loads and a common block;    *)
(* under JIT_ICI = 0 (the default), 1 and 2.                                      *)
EXTENDS CodeCache, TLC

MCShape ==
  "a" :> <<Link("b")>> @@ "b" :> <<Link("c")>> @@ "c" :> <<Ic, Ret>>
MCPresets ==
  {[sbp |-> 1, ici |-> 0, link_guard |-> TRUE],
   [sbp |-> 2, ici |-> 1, link_guard |-> TRUE],
   [sbp |-> 0, ici |-> 2, link_guard |-> TRUE]}
=============================================================================
