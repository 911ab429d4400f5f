--------------------------- MODULE MCWriteBuffer ---------------------------
(* Two tables of two different units; what a row says does not matter here *)
EXTENDS WriteBuffer

CONSTANTS t1, t2, u1, u2, row

MCUnitOf == [r \in {t1, t2} |-> IF r = t1 THEN u1 ELSE u2]
MCRows == {row}
=============================================================================
