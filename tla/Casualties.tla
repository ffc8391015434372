------------------------------ MODULE Casualties ------------------------------
(***************************************************************************)
(* How many creatures a stack has, in the course of one combat: blows,     *)
(* shots and spells take them, ghosts and vampire lords feed on those they *)
(* kill, trolls and Cure heal, Resurrect and Animate Dead raise, heroes    *)
(* summon elementals, and at the end DoVictory takes away those that were  *)
(* there for the battle only and UpdateArmyGroup writes down who is left.  *)
(*                                                                         *)
(* A stack stands for quantity creatures of Hp points, of which damage     *)
(* points are lost.  What a blow deals, out of attack, defence, luck and   *)
(* the rest of DamageEnemy, is any of Blows.  Whose turn it is and which   *)
(* spells disable whom is the subject of CombatRounds, where the stacks    *)
(* stand that of Battlefield; here anyone alive may attack anyone, as      *)
(* berserk and hypnotized stacks do.                                       *)
(*                                                                         *)
(* One defect makes creatures of nothing: dodged blows heal, without end.  *)
(* `intact' tells whether it has struck, and the model stops there.        *)
(***************************************************************************)
EXTENDS Integers, FiniteSets, FiniteSetsExt

CONSTANTS
  Stacks,
  Side,           \* [Stacks -> {0, 1}] owningSide
  Index,          \* [Stacks -> 0..20] stackIdx
  Hp,             \* [Stacks -> 1..] creature.hp
  Initial,        \* [Stacks -> 1..] initialQuantity
  Summoned,       \* places for the elementals that a hero may summon
  Pandora,        \* stacks that HandlePandoraBox lends for the battle
  Ghosts, VampireLords, Trolls,
  Dodgers,        \* ASTRAL_DODGE, cyber shadow assassins
  Undead,         \* ATTR_UNDEAD
  Heroes,         \* the sides that a hero leads
  Artifacts,      \* [{0, 1} -> SUBSET {45, 46, 48, 49, 92, 93}] of the side's hero:
                  \* those by which spells of cold and fire do more or less damage
  Lineups,        \* who may meet: sets of stacks
  Blows,          \* what a blow, a shot or a spell may deal
  Strengths,      \* the hit points that raising may restore, 50 * spellpower
  QuantityLimit,  \* bound: how large a stack of ghosts or dodgers may grow
  RoundLimit      \* bound: rounds of the combat

Feeders == Ghosts \cup VampireLords

\* Elementals are summoned into places behind those of the others (AddArmy).
ASSUME StacksAssumption ==
  /\ Side \in [Stacks -> {0, 1}] /\ Index \in [Stacks -> 0..20]
  /\ Hp \in [Stacks -> Nat \ {0}] /\ Initial \in [Stacks -> Nat \ {0}]
  /\ \A s, t \in Stacks : Side[s] = Side[t] /\ Index[s] = Index[t] => s = t
  /\ \A s \in Summoned, t \in Stacks \ Summoned : Side[s] = Side[t] => Index[t] < Index[s]
  /\ Feeders \subseteq Undead /\ Ghosts \cap VampireLords = {} /\ Dodgers \cap Undead = {}
  /\ Feeders \cap (Summoned \cup Pandora) = {} /\ Summoned \cap Pandora = {}
  /\ \A s \in Stacks \cap Dodgers : Hp[s] > 2
  /\ Heroes \subseteq {0, 1} /\ Artifacts \in [{0, 1} -> SUBSET {45, 46, 48, 49, 92, 93}]
  /\ Lineups \subseteq SUBSET Stacks
  /\ Blows \subseteq Nat \ {0} /\ Strengths \subseteq Nat

\* The bounds leave room for the initial quantities.
ASSUME BoundsAssumption ==
  /\ QuantityLimit \in Nat /\ \A s \in Stacks : Initial[s] <= QuantityLimit
  /\ RoundLimit \in Nat \ {0}

VARIABLES
  stack,       \* [Stacks -> record], see TypeOK
  here,        \* who has met
  gbRemoteOn,  \* a network game, here of two human players
  round,
  hasCast,     \* the sides whose heroes have cast a spell this round
  over,        \* DoVictory has counted the survivors
  armies,      \* [here -> Nat], armyGroup.quantities: who belongs to whom outside
               \* of the battle, of a stack that has a place there
  lost,        \* history: the creatures killed of a stack that neither feeds nor
               \* is summoned, less those raised for good
  intact       \* history: no dodged blow has made a creature

vars == <<stack, here, gbRemoteOn, round, hasCast, over, armies, lost, intact>>

TypeOK ==
  /\ stack \in [here -> [quantity : 0..QuantityLimit, damage : Int,
                           temporaryQty : Nat, DEAD : BOOLEAN,
                           RETALIATED : BOOLEAN, abilityCounter : {0, 1}]]
  /\ here \in Lineups /\ gbRemoteOn \in BOOLEAN /\ over \in BOOLEAN
  /\ round \in 1..RoundLimit /\ hasCast \subseteq {0, 1}
  /\ armies \in [here -> 0..QuantityLimit] /\ lost \in [here -> Int] /\ intact \in BOOLEAN

-----------------------------------------------------------------------------
(* Blows.  `st' is a value of the variable stack, inside an action. *)

\* / and % of C round towards zero: a dodged blow leaves a wound below zero.
Quotient(a, b) == IF a >= 0 THEN a \div b ELSE -((-a) \div b)
Remainder(a, b) == a - b * Quotient(a, b)

Least(a, b) == IF a < b THEN a ELSE b

\* The wound that is divided, for a spell of cold or fire: the hero's artifact for
\* it makes half as much again of it, the enemy's halves it, and the hearts of fire
\* (92) and ice (93) double the one and halve the other.  No other spell that comes
\* here has a clause: what it does is "none".
ModifyDamageForArtifacts(damage, spell, this, enemy) ==
  LET cold == spell = "cold"
      raised == IF (IF cold THEN 48 ELSE 49) \in this THEN Quotient(3 * damage, 2) ELSE damage
      warded == IF (IF cold THEN 45 ELSE 46) \in enemy THEN Quotient(raised, 2) ELSE raised
      fire == IF 92 \notin enemy THEN warded ELSE IF cold THEN 2 * warded ELSE Quotient(warded, 2)
  IN IF 93 \notin enemy THEN fire ELSE IF cold THEN Quotient(fire, 2) ELSE 2 * fire

\* The wound of stack t is part of what the artifacts act upon.  In a network game
\* the heroes are taken the other way round.
Dealt(st, t, baseDam, spell, caster) ==
  LET dam == st[t].damage + baseDam
      this == Artifacts[IF gbRemoteOn THEN Side[t] ELSE caster]
      enemy == Artifacts[IF gbRemoteOn THEN caster ELSE Side[t]]
  IN IF spell = "none" THEN dam ELSE ModifyDamageForArtifacts(dam, spell, this, enemy)

\* Planted bug: more may die than there are.
WoundedUncapped(st, t, dam) ==
  LET left == st[t].quantity - Quotient(dam, Hp[t])
  IN [st EXCEPT ![t].quantity = left, ![t].DEAD = @ \/ left <= 0,
                ![t].damage = Remainder(dam, Hp[t])]

\* What is left of t of a wound that deep.
Wounded(st, t, dam) ==
  LET left == st[t].quantity - Least(Quotient(dam, Hp[t]), st[t].quantity)
  IN [st EXCEPT ![t].quantity = left, ![t].DEAD = @ \/ left <= 0,
                ![t].damage = Remainder(dam, Hp[t])]

\* Planted bug: the wounds of the last blow are forgotten.
DamageFresh(st, t, baseDam, spell, caster) ==
  Wounded([st EXCEPT ![t].damage = 0], t,
          Dealt(st, t, baseDam, spell, caster) - st[t].damage)

\* army::Damage, and ProcessDeath if nobody is left: PowEffect calls it before the
\* blow or the spell is over, ShowMassSpell before a mass spell is.
Damage(st, t, baseDam, spell, caster) == Wounded(st, t, Dealt(st, t, baseDam, spell, caster))

Kills(before, after, t) == before[t].quantity - after[t].quantity

Dodges(st, t, isRetaliation) ==
  t \in Dodgers /\ st[t].abilityCounter = 1 /\ ~isRetaliation

\* DamageEnemy in melee: -2 stands for a dodged blow, and is dealt as any other.
DamageEnemy(st, t, blow, isRetaliation) ==
  IF Dodges(st, t, isRetaliation)
    THEN Damage([st EXCEPT ![t].abilityCounter = 0], t, -2, "none", 0)
    ELSE Damage(st, t, blow, "none", 0)

\* Planted bug: a vampire lord may bring back more than it came with.
FeedUnlimited(st, s, kills, victim) ==
  LET drain == kills * Hp[victim]
      life == drain - st[s].damage
  IN IF s \in Ghosts THEN [st EXCEPT ![s].quantity = @ + kills]
     ELSE IF s \notin VampireLords THEN st
     ELSE IF life < 0 THEN [st EXCEPT ![s].damage = @ - drain]
     ELSE [st EXCEPT ![s].damage = 0, ![s].quantity = @ + Quotient(life, Hp[s])]

\* Planted bug: a vampire lord's wound is healed by more than it has.
FeedOnWounds(st, s, kills, victim) ==
  IF s \in Ghosts THEN [st EXCEPT ![s].quantity = @ + kills]
  ELSE IF s \notin VampireLords THEN st
  ELSE [st EXCEPT ![s].damage = @ - kills * Hp[victim]]

\* Planted bug: a ghost's kills are added twice in every attack.
FeedTwice(st, s, kills, victim) ==
  IF s \in Ghosts THEN [st EXCEPT ![s].quantity = @ + 2 * kills] ELSE st

\* What the attacker makes of its kills: a ghost grows by them; a vampire lord
\* heals its wound and then brings back its dead.
Feed(st, s, kills, victim) ==
  LET drain == kills * Hp[victim]
      life == drain - st[s].damage
  IN IF s \in Ghosts THEN [st EXCEPT ![s].quantity = @ + kills]
     ELSE IF s \notin VampireLords THEN st
     ELSE IF life < 0 THEN [st EXCEPT ![s].damage = @ - drain]
     ELSE [st EXCEPT ![s].damage = 0,
                     ![s].quantity = Least(Initial[s], @ + Quotient(life, Hp[s]))]

\* One direction of DoAttack.
Strike(st, s, t, blow, isRetaliation) ==
  LET hit == DamageEnemy(st, t, blow, isRetaliation)
  IN Feed(hit, s, Kills(st, hit, t), t)

\* t strikes back at s.  Between two human players on a network a ghost's
\* kills are counted again.
Retaliate(st, s, t, blow) ==
  LET back == Strike(st, t, s, blow, TRUE)
      marked == [back EXCEPT ![t].RETALIATED = TRUE]
  IN IF gbRemoteOn /\ t \in Ghosts
       THEN [marked EXCEPT ![t].quantity = @ + Kills(st, back, s)] ELSE marked

\* DoAttack: the attack, then the answer unless t is dead, has answered before
\* or is attacked by a vampire lord.
DoAttack(s, t, blow, answer) ==
  LET struck == Strike(stack, s, t, blow, FALSE)
  IN IF struck[t].quantity > 0 /\ ~struck[t].RETALIATED /\ s \notin VampireLords
       THEN Retaliate(struck, s, t, answer) ELSE struck

-----------------------------------------------------------------------------
(* Actions *)

\* army::Init of a stack of n creatures, owed of which n are lent for the battle.
Fresh(n, owed) ==
  [quantity |-> n, damage |-> 0, temporaryQty |-> owed, DEAD |-> n = 0,
   RETALIATED |-> FALSE, abilityCounter |-> 1]

\* How many of a stack its owner had before the battle.
Own(s) == IF s \in Summoned \cup Pandora THEN 0 ELSE Initial[s]

\* HandlePandoraBox has added its stack; the places of the summoned are free, which
\* is to AddArmy what those of dead elementals are.
Init ==
  /\ here \in Lineups
  /\ stack = [s \in here |-> Fresh(IF s \in Summoned THEN 0 ELSE Initial[s],
                                   IF s \in Pandora THEN Initial[s] ELSE 0)]
  /\ gbRemoteOn \in BOOLEAN
  /\ round = 1 /\ hasCast = {} /\ over = FALSE
  /\ armies = [s \in here |-> Own(s)]
  /\ lost = [s \in here |-> 0] /\ intact = TRUE

StandingOn(side) == {s \in here : Side[s] = side /\ stack[s].quantity > 0}

\* CheckWin, after every action: the battle goes on while both sides stand.
Undecided == intact /\ ~over /\ \A side \in {0, 1} : StandingOn(side) # {}

\* A hero may cast once a round.
MayCast(side) == Undecided /\ side \in Heroes \ hasCast

Alive(s) == stack[s].quantity > 0 /\ ~stack[s].DEAD

\* The history counts the fallen of these stacks, and those raised as fallen no more.
Counted(s) == s \notin Feeders \cup Summoned
Fallen(st) == [s \in here |-> IF Counted(s) THEN lost[s] + Kills(stack, st, s) ELSE 0]

\* Bound: only stacks of ghosts and dodgers grow without end.
WithinLimit(st) == \A x \in (Ghosts \cup Dodgers) \cap here : st[x].quantity <= QuantityLimit

\* / rounds towards zero, so that -2 makes no creature until the dodges of many
\* rounds, unhurt, add up to the hit points of one; then one is killed less than none.
MakesOne(t) ==
  Dodges(stack, t, FALSE) /\ Quotient(stack[t].damage - 2, Hp[t]) < 0

Melee(s, t) ==
  /\ Undecided /\ s # t /\ Alive(s) /\ Alive(t)
  /\ \E blow, answer \in Blows : stack' = DoAttack(s, t, blow, answer)
  /\ WithinLimit(stack')
  /\ lost' = Fallen(stack') /\ intact' = ~MakesOne(t)
  /\ UNCHANGED <<here, gbRemoteOn, round, hasCast, over, armies>>

\* SpecialAttack, and the spells aimed at one stack, whose damage the artifacts
\* change before; a hero's turn to cast is left out here, since a shot may do the
\* same at any time.
ShotOrSpell(t) ==
  /\ Undecided /\ Alive(t)
  /\ \E blow \in Blows : stack' = Damage(stack, t, blow, "none", 0)
  /\ lost' = Fallen(stack')
  /\ UNCHANGED <<here, gbRemoteOn, round, hasCast, over, armies, intact>>

\* Fireball, Fireblast ("fire") and Cold Ring ("cold"), and without a clause for
\* artifacts Meteor Shower, Elemental Storm, Holy Word and Death Ripple: some of
\* those in the area are immune, some take more or less for being what they are.
AreaSpell(caster, spell, targets) ==
  /\ MayCast(caster) /\ \A t \in targets : Alive(t)
  /\ hasCast' = hasCast \cup {caster}
  /\ \E blows \in [targets -> Blows] :
       stack' = [t \in here |-> IF t \in targets
                                  THEN Damage(stack, t, blows[t], spell, caster)[t] ELSE stack[t]]
  /\ WithinLimit(stack')
  /\ lost' = Fallen(stack')
  /\ intact' = \A t \in targets : stack'[t].quantity <= stack[t].quantity
  /\ UNCHANGED <<here, gbRemoteOn, round, over, armies>>

\* combatManager::SummonElemental, into the first free place.
SummonElemental(s) ==
  /\ MayCast(Side[s]) /\ stack[s].DEAD
  /\ \A t \in Summoned \cap here : Side[t] = Side[s] /\ stack[t].DEAD => Index[s] <= Index[t]
  /\ hasCast' = hasCast \cup {Side[s]}
  /\ stack' = [stack EXCEPT ![s] = Fresh(Initial[s], 0)]
  /\ UNCHANGED <<here, gbRemoteOn, round, over, armies, lost, intact>>

\* army::Cure, with 5 points healed per point of spell power.
Cure(s) ==
  /\ MayCast(Side[s]) /\ Alive(s)
  /\ hasCast' = hasCast \cup {Side[s]}
  /\ \E strength \in Strengths :
       stack' = [stack EXCEPT ![s].damage =
                   IF @ < strength \div 10 THEN 0 ELSE @ - strength \div 10]
  /\ UNCHANGED <<here, gbRemoteOn, round, over, armies, lost, intact>>

\* SpellCastWorkChance: nothing is raised of a stack at its initial quantity, nor of
\* a dead one whose creatures have more hit points than are restored; elementals
\* leave no body.
MayBeRaised(s, strength) ==
  /\ stack[s].quantity # Initial[s] /\ (s \in Summoned => Alive(s))
  /\ stack[s].quantity = 0 => Hp[s] <= strength

\* Planted bug: whoever is raised is counted before the stack is cut back.
CountedEarly(s, strength, forGood) ==
  LET raised == Least(Initial[s], stack[s].quantity + strength \div Hp[s])
  IN [stack EXCEPT ![s].quantity = raised, ![s].DEAD = FALSE,
        ![s].temporaryQty = IF forGood THEN @ ELSE @ + strength \div Hp[s]]

\* Planted bug: who is raised is still marked dead.
RaisedLiesStill(s, strength, forGood) ==
  LET raised == Least(Initial[s], stack[s].quantity + strength \div Hp[s])
  IN [stack EXCEPT ![s].quantity = raised,
        ![s].temporaryQty = IF forGood THEN @ ELSE @ + raised - stack[s].quantity]

\* combatManager::Resurrect.  A ghost stack that has grown beyond its initial
\* quantity is cut back to it.
Raised(s, strength, forGood) ==
  LET raised == Least(Initial[s], stack[s].quantity + strength \div Hp[s])
  IN [stack EXCEPT ![s].quantity = raised, ![s].DEAD = FALSE,
        ![s].temporaryQty = IF forGood THEN @ ELSE @ + raised - stack[s].quantity]

\* forGood: Resurrect True, and Animate Dead, the only one for the undead.
Resurrect(s, forGood) ==
  /\ MayCast(Side[s]) /\ (s \in Undead => forGood)
  /\ hasCast' = hasCast \cup {Side[s]}
  /\ \E strength \in Strengths :
       /\ MayBeRaised(s, strength)
       /\ stack' = Raised(s, strength, forGood)
  /\ lost' = IF forGood THEN Fallen(stack') ELSE lost
  /\ UNCHANGED <<here, gbRemoteOn, round, over, armies, intact>>

\* What ResetRound does to one stack: only the living answer again and, if they
\* are trolls, heal; every dodger may dodge again.
Renewed(s) ==
  [stack[s] EXCEPT !.RETALIATED = IF Alive(s) THEN FALSE ELSE @,
                   !.damage = IF Alive(s) /\ s \in Trolls THEN 0 ELSE @,
                   !.abilityCounter = 1]

ResetRound ==
  /\ Undecided /\ round < RoundLimit
  /\ round' = round + 1 /\ hasCast' = {}
  /\ stack' = [s \in here |-> Renewed(s)]
  /\ UNCHANGED <<here, gbRemoteOn, over, armies, lost, intact>>

\* Planted bug: the side that has won may be left with nobody.
NobodySpared(s) == stack[s].quantity - Least(stack[s].temporaryQty, stack[s].quantity)

Lasting(s) == stack[s].quantity - Least(stack[s].temporaryQty, stack[s].quantity)

\* How many DoVictory leaves: not those there for the battle, but a side of which
\* nobody would be left, summoned elementals counted, keeps one of its last stack.
GoesHome(s) ==
  LET side == StandingOn(Side[s])
  IN IF /\ s \in side /\ \A t \in side : Lasting(t) = 0 /\ Index[t] <= Index[s]
       THEN 1 ELSE Lasting(s)

\* UpdateArmyGroup: the summoned are left behind, and Pandora's stack has no place
\* in the army (its armyIdx is -1: one spared is written before the quantities).
Place(s) == ~stack[s].DEAD /\ s \notin Summoned \cup Pandora

\* CheckWin and DoVictory, and as nothing happens in between, Close.
DoVictory ==
  /\ intact /\ ~over /\ ~Undecided
  /\ over' = TRUE
  /\ stack' = [s \in here |-> [stack[s] EXCEPT !.quantity = GoesHome(s)]]
  /\ armies' = [s \in here |-> IF Place(s) THEN GoesHome(s) ELSE 0]
  /\ UNCHANGED <<here, gbRemoteOn, round, hasCast, lost, intact>>

Next ==
  \/ \E s, t \in here : Melee(s, t)
  \/ \E s \in here : \/ ShotOrSpell(s) \/ Cure(s)
                       \/ \E forGood \in BOOLEAN : Resurrect(s, forGood)
  \/ \E caster \in {0, 1}, spell \in {"none", "cold", "fire"}, targets \in SUBSET here :
       AreaSpell(caster, spell, targets)
  \/ \E s \in Summoned \cap here : SummonElemental(s)
  \/ ResetRound \/ DoVictory

Spec == Init /\ [][Next]_vars
-----------------------------------------------------------------------------
(* Properties *)

HitPoints(s) == stack[s].quantity * Hp[s] - (IF stack[s].quantity = 0 THEN 0 ELSE stack[s].damage)

\* A stack is dead exactly when nobody is left of it, however blows, answers,
\* ghosts' and vampires' gains, raising and summoning follow one another:
\* ProcessDeath misses nobody, and nobody acts with no creatures.
DeadAreNone == intact /\ ~over => \A s \in here : stack[s].DEAD <=> stack[s].quantity = 0

\* A wound is less than a creature's life, or DamageEnemy would kill too few,
\* and below zero only after a dodged blow (Damage, Feed, Cure).
WoundsAreLessThanALife ==
  intact => \A s \in here : /\ -Hp[s] < stack[s].damage /\ stack[s].damage < Hp[s]
                            /\ s \notin Dodgers => stack[s].damage >= 0

\* However vampire lords feed and heroes raise, only ghosts become more than
\* they were, and dodgers once their dodges have made a creature; the
\* casualties shown and the experience given subtract the two.
OnlyGhostsOutgrow ==
  \A s \in here \ Ghosts : stack[s].quantity <= Initial[s] \/ (s \in Dodgers /\ ~intact)

\* When the battle is over, the army has of a stack those whom it brought less the
\* fallen: nobody whom Resurrect raised for the battle, nobody whom Pandora's Box
\* lent.  If that leaves none, one may be spared, and then only where nobody else of
\* the side is left (DoVictory takes temporaryQty off, Resurrect adds to it what it
\* really raised, and nothing takes the fallen off it).
OnlyTheUnraisedGoHome ==
  over => \A s \in here : Counted(s) =>
    LET left == Own(s) - lost[s]
    IN IF left > 0 THEN armies[s] = left
       ELSE /\ armies[s] \in {0, 1}
            /\ armies[s] = 1 => \A t \in here : Side[t] = Side[s] /\ t # s => armies[t] = 0

\* The stacks that a step changes.
Touched == {t \in here : stack'[t] # stack[t]}

\* The hit points that t keeps of a spell which wounds it that deep, old wound and all.
Kept(t, dam) == Max({0, stack[t].quantity * Hp[t] - dam})

\* A shot takes the hit points it deals, or all there are, and so does a spell on an
\* area where no artifact acts; where one does, it acts on the wound the target had
\* before as well.  A blow that is dodged gives two points, being dealt as -2.
HitPointsAddUp ==
  [][round' = round /\ ~over' /\ intact' => \A t \in Touched :
       /\ ShotOrSpell(t) =>
            \E blow \in Blows : HitPoints(t)' = Max({0, HitPoints(t) - blow})
       /\ \A caster \in {0, 1}, spell \in {"none", "cold", "fire"} :
            AreaSpell(caster, spell, Touched) =>
              \E blow \in Blows :
                /\ HitPoints(t)' = Kept(t, Dealt(stack, t, blow, spell, caster))
                /\ spell = "none" \/ Artifacts = [side \in {0, 1} |-> {}] =>
                     HitPoints(t)' = Max({0, HitPoints(t) - blow})
       /\ \A s \in here : Dodges(stack, t, FALSE) /\ Melee(s, t)
            => HitPoints(t)' = HitPoints(t) + 2]_vars

\* What s and t gain by an exchange of blows is what they took of each other.
GainsPaid(s, t) ==
  /\ ~gbRemoteOn /\ {s, t} \cap VampireLords = {} =>
       stack'[s].quantity + stack'[t].quantity <= stack[s].quantity + stack[t].quantity
  /\ s \in VampireLords =>
       HitPoints(s)' - HitPoints(s) <= Kills(stack, stack', t) * Hp[t]
  /\ t \in VampireLords /\ s \notin Feeders =>
       HitPoints(t)' - HitPoints(t) <= Kills(stack, stack', s) * Hp[s]

\* Creatures are not made of nothing: except in a network game, what ghosts gain
\* in an exchange of blows the two stacks lose, and a vampire lord, attacking or
\* answering, takes no more life than that of the creatures it killed (DoAttack).
GainsAreLosses ==
  [][round' = round /\ ~over' /\ intact' => \A t \in Touched, s \in here :
       Touched \subseteq {s, t} => GainsPaid(s, t) \/ ~Melee(s, t)]_vars

\* A side of which somebody stands at the end has somebody to go home, if nobody is
\* among them who was summoned or lent.  Where there is, DoVictory may count those
\* and spare nobody, or spare Pandora's, and UpdateArmyGroup then writes an army of
\* none: the bug that combat.cpp:40 to 47 tells of.
WinnersGoHome ==
  [][DoVictory => \A side \in {0, 1} :
       StandingOn(side) # {} /\ StandingOn(side) \cap (Summoned \cup Pandora) = {} =>
         \E s \in StandingOn(side) : armies'[s] > 0]_vars

\* "Resurrects" (spells.cpp:20, :21 and :52) is what these spells say they do to a
\* damaged or dead unit; they take nobody away.
RaisingTakesNobody ==
  [][\A s \in here, forGood \in BOOLEAN :
       Resurrect(s, forGood) => stack'[s].quantity >= stack[s].quantity]_vars
=============================================================================
