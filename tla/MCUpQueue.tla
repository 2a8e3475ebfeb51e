------------------------------ MODULE MCUpQueue ------------------------------
(* UpQueue with three messages, of one, two and three descriptors.          *)
EXTENDS UpQueue

CONSTANTS one, two, three

MCVbufs == {one, two, three}
MCPktLen == [v \in MCVbufs |-> IF v = one THEN 1 ELSE IF v = two THEN 2 ELSE 3]
=============================================================================
