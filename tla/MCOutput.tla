------------------------------ MODULE MCOutput ------------------------------
(* Output on a small instance: buffers of two and three characters and one    *)
(* without a limit, pieces and expected outputs of up to three characters.     *)
EXTENDS Output

Texts(n) == UNION {[1..k -> Char] : k \in 0..n}

MCPieces == Texts(3) \ {<< >>}
MCExpectations == Texts(3)
==============================================================================
