--------------------------- MODULE MCSharedVision ---------------------------
(* A strip of map: land at 0, water at 1, nothing beyond.  From the land a  *)
(* human sees only the land, the computer the water too.                    *)
EXTENDS SharedVision

CONSTANT tower

MCAround == [at \in {tower} \X BOOLEAN |-> IF at[2] THEN -1..0 ELSE -2..2]
MCSaveFiles == {[p \in Players |-> IF p = 1 THEN {0} ELSE {}]}
=============================================================================
