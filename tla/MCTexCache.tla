----------------------------- MODULE MCTexCache -----------------------------
(* Two textures of one or two units, the larger over both pages of a block, in *)
(* an arena of two, so that it fills with one of each and starts over.         *)
EXTENDS TexCache, TLC

CONSTANTS a, b, p, q, small, large, w1, w2, c1, c2

MCBlockOf == p :> 1 @@ q :> 1
MCSpan == a :> (small :> {p} @@ large :> {p, q}) @@ b :> (small :> {q} @@ large :> {p, q})
MCSize == small :> 1 @@ large :> 2
MCSkimpSlot == a :> 0 @@ b :> 0
MCPalettes == small :> {{1}} @@ large :> {{}}

Swap == a :> b @@ b :> a @@ p :> q @@ q :> p
MCSymmetry == {x @@ y @@ z : x \in Permutations({w1, w2}), y \in Permutations({c1, c2}),
                             z \in {Swap, a :> a}}
=============================================================================
