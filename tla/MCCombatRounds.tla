--------------------------- MODULE MCCombatRounds ---------------------------
(* A paladin of good morale and a cyclops that may panic, against an archer; *)
(* and the paladin against a cyber indigo panther.                           *)
EXTENDS CombatRounds

CONSTANTS paladin, cyclops, archer, panther

MCLineups == {{paladin, cyclops, archer}, {paladin, panther}}
MCSide == [s \in Stacks |-> IF s \in {archer, panther} THEN 1 ELSE 0]
MCIndex == [s \in Stacks |-> IF s \in {cyclops, panther} THEN 1 ELSE 0]
MCSpeed == [s \in Stacks |-> CASE s = paladin -> 6 [] s = cyclops -> 4
                               [] s = archer -> 5 [] OTHER -> 10]
MCMorale == [s \in Stacks |-> CASE s = paladin -> 1 [] s = cyclops -> -1 [] OTHER -> 0]
=============================================================================
