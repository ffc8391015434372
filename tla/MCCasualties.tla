----------------------------- MODULE MCCasualties -----------------------------
(* Ghosts and a vampire lord against trolls and cyber shadow assassins, with  *)
(* the hit points of data/creatures.xml, and the peasants and elementals that *)
(* stand by the trolls for one battle.  The shades are assassins of 3 hit     *)
(* points, which two rounds' dodges make up as 75 do the 150 of others.       *)
EXTENDS Casualties

CONSTANTS ghosts, vampires, trolls, assassins, shades, peasants, elementals

\* Vampire lords against trolls or assassins who may have ghosts, lent peasants or
\* summoned elementals with them, and ghosts against those who dodge.
MCLineups == {{vampires, ghosts, trolls}, {vampires, trolls, peasants},
              {vampires, trolls, elementals}, {vampires, shades},
              {ghosts, assassins}, {ghosts, vampires}}
MCSide == [s \in Stacks |-> IF s \in {vampires, assassins} THEN 0 ELSE 1]
MCIndex == [s \in Stacks |-> IF s \in {vampires, trolls} THEN 0
                             ELSE IF s \in {assassins, ghosts} THEN 1
                             ELSE IF s = shades THEN 2 ELSE IF s = peasants THEN 3 ELSE 4]
MCHp == [s \in Stacks |-> IF s = assassins THEN 150 ELSE IF s = ghosts THEN 20
                          ELSE IF s = shades THEN 3 ELSE IF s = peasants THEN 1 ELSE 40]
MCInitial == [s \in Stacks |-> IF s = trolls THEN 2 ELSE 1]

\* The hero of side 1, the only one, has a cloak against fire.
MCArtifacts == [side \in {0, 1} |-> IF side = 1 THEN {46} ELSE {}]
=============================================================================
