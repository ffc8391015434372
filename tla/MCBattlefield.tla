---------------------------- MODULE MCBattlefield ----------------------------
(* Three rows of hexes between the borders, the middle one with room for one *)
(* stack beside its obstacles.  Side 0 has a two-hex flyer that strikes two  *)
(* hexes deep and a wizard's elemental, side 1 a two-hex shooter of plasma   *)
(* and a jumper.                                                             *)
EXTENDS Battlefield

CONSTANTS dragon, elemental, behemoth, berserker

MCSide == [s \in Stacks |-> IF s \in {dragon, elemental} THEN 0 ELSE 1]
MCStart == [s \in Stacks \ Elementals |->
              CASE s = dragon -> 2 * Columns + 1
                [] s = behemoth -> Columns - 2
                [] s = berserker -> 2 * Columns - 2]
MCSummonHexes == [side \in {0, 1} |-> IF side = 0 THEN {1} ELSE {}]
=============================================================================
