------------------------------- MODULE MCExit -------------------------------
(***************************************************************************)
(* Exit with the two broadcast digits of the factory partition and one     *)
(* cell of the last sector, and every write of a program, of both erases   *)
(* and of the ID mode that these cells can take part in.                   *)
(***************************************************************************)
EXTENDS Exit

User == 114688                  \* 1C000, in sector SA4
MCBroadcast == {106500, 106660} \* 1A004 and 1A0A4
MCCells == MCBroadcast \cup {User}

Image(digit, user) == [a \in MCCells |-> IF a = User THEN user ELSE digit]
MCImages == {Image({0, 4, 5}, {1, 2}), Image(xFF, {1, 2})}

W(addr, val) == [addr |-> addr, val |-> val]
MCWrites ==
  { W(21845, val) : val \in {xAA, x80, xA0, x90, x10} } \cup
  { W(10922, x55), W(User, {1}), W(User, x30), W(106500, {0}), W(106500, x30), W(User, xF0) }

Preset(c, s, digit, fix, hbc) ==
  [chip |-> c, save |-> s, bc |-> digit, exit_fix |-> fix, stub |-> hbc]
MCPresets ==
  { Preset(TRUE, TRUE, {4, 5}, 2, TRUE), Preset(TRUE, TRUE, Keep, 0, TRUE),
    Preset(FALSE, TRUE, {4, 5}, 1, TRUE), Preset(TRUE, FALSE, Keep, 2, FALSE) }
=============================================================================
