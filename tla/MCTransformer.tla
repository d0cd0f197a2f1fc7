--------------------------- MODULE MCTransformer ---------------------------
(***************************************************************************)
(* The block on shapes whose dimensions differ from each other, so that an *)
(* exchange of two of them shows.                                          *)
(***************************************************************************)
EXTENDS TransformerBlock

Shape(heads, seq, q, d, ff) == [heads |-> heads, seq |-> seq, q |-> q, model |-> d, ff |-> ff]

MCModels ==
    { Shape(h, s, q, d, 1) : h \in {1, 2}, s \in {1, 2}, q \in {1, 2}, d \in {1, 2} }
        \cup { Shape(3, 1, 1, 1, 2), Shape(2, 3, 2, 1, 2) }

MCOneHead  == { Shape(1, s, q, 1, 1) : s \in {1, 2}, q \in {1, 2} }
MCTwoHeads == { Shape(2, 1, 1, 1, 1) }
=============================================================================
