--------------------------- MODULE MCBlockManager ---------------------------
(* Three addresses in a bucket of at most two blocks, and one in another.  The     *)
(* addresses of a bucket are interchangeable, and so are the codes.                *)
EXTENDS BlockManager, TLC

CONSTANTS p, q, r, s, x, y

MCHash == p :> 1 @@ q :> 1 @@ r :> 1 @@ s :> 2
MCSymmetry == Permutations({p, q, r}) \cup Permutations({x, y})
=============================================================================
