------------------------------ MODULE BlockMap ------------------------------
(***************************************************************************)
(* What the block manager promises the recompiler: a table from guest      *)
(* addresses to the code of their blocks.  A lookup finds the code added   *)
(* last for the address, or nothing; adding a block may make the table     *)
(* forget one other.  A forgotten block is compiled again, a wrong one is  *)
(* run.                                                                    *)
(***************************************************************************)
CONSTANTS Addr, Code, NotFound

VARIABLES
  table,   \* the code of each address, or NotFound
  found    \* what the last lookup returned

vars == <<table, found>>

Empty == [a \in Addr |-> NotFound]

Init == table = Empty /\ found = NotFound

Lookup(a) == found' = table[a] /\ UNCHANGED table

Add(a, c) ==
  /\ UNCHANGED found
  /\ table'[a] = c
  /\ \E forgotten \in Addr :
       table' = [[table EXCEPT ![forgotten] = NotFound] EXCEPT ![a] = c]

Reset == table' = Empty /\ UNCHANGED found

Next ==
  \/ \E a \in Addr : Lookup(a) \/ \E c \in Code : Add(a, c)
  \/ Reset

Spec == Init /\ [][Next]_vars
=============================================================================
