--------------------------- MODULE SpellEffects ---------------------------
(***************************************************************************)
(* The spells that last on one stack of creatures in combat: how           *)
(* combat/army.cpp adds, refreshes, replaces and cancels them, and what    *)
(* that does to the stack's attack, defense, speed and flight.             *)
(*                                                                         *)
(* An effect is cancelled by undoing its bonus in place, so the stack's    *)
(* statistics are right only as long as every bonus is undone exactly once *)
(* whatever order spells are cast, refreshed, dispelled and run out in.    *)
(***************************************************************************)
EXTENDS Integers, FiniteSets

CONSTANTS
  Castable,   \* the effects cast in this instance, a subset of Effects
  Powers,     \* the spell powers of the casters: how many rounds a spell lasts
  BaseAttack, BaseDefense, BaseSpeed,
              \* the stack's statistics when combat starts, heroes included
  BaseFlies,  \* whether the creature flies (FLYER in gMonsterDatabase)
  MaxRayLoss, \* bound: disrupting rays stop once they took this much defense
  MaxDrift    \* bound: animations stop once numActiveEffects is this far below 0

HASTE == 0
SLOW == 1
BLIND == 2
BLESS == 3
CURSE == 4
BERSERKER == 5
PARALYZE == 6
HYPNOTIZE == 7
DRAGON_SLAYER == 8
BLOOD_LUST == 9
SHIELD == 10
PETRIFY == 11
ANTI_MAGIC == 12
STONESKIN == 13
STEELSKIN == 14
SHADOW_MARK == 16

Effects == (0..14) \cup {SHADOW_MARK}
\* effectStrengths has NUM_SPELL_EFFECTS bytes; PowEffect borrows byte 15.
Index == 0..18
ANIMATED == 15

ASSUME StackAssumption ==
  /\ Castable \subseteq Effects
  /\ Powers \subseteq Nat \ {0}
  /\ BaseAttack \in Nat /\ BaseDefense \in Nat /\ BaseSpeed \in Nat
  /\ BaseFlies \in BOOLEAN
  /\ MaxRayLoss \in Nat /\ MaxDrift \in Nat

VARIABLES
  stack,      \* the army record: its effects and the statistics they change
  rayLoss     \* history: what disrupting rays took from defense, for good

vars == <<stack, rayLoss>>

Stack == [effectStrengths : [Index -> Nat], numActiveEffects : Int,
          attack : Int, defense : Int, speed : Int, flies : BOOLEAN]

TypeOK == stack \in Stack /\ rayLoss \in Nat

Has(e) == stack.effectStrengths[e] # 0

-----------------------------------------------------------------------------
(* army::AddActiveEffect, SetSpellInfluence, CancelIndividualSpell *)

SkinBonus(e) == CASE e = STONESKIN -> 3 [] e = STEELSKIN -> 5 [] OTHER -> 0

\* CancelIndividualSpell for each effect of a set; the calls commute.
CancelEach(st, es) ==
  LET on == {e \in es : st.effectStrengths[e] # 0} IN
  [effectStrengths |->
     [e \in Index |-> IF e \in on THEN 0 ELSE st.effectStrengths[e]],
   numActiveEffects |-> st.numActiveEffects - Cardinality(on),
   attack |-> IF BLOOD_LUST \in on THEN st.attack - 3 ELSE st.attack,
   defense |-> st.defense - (IF STONESKIN \in on THEN SkinBonus(STONESKIN) ELSE 0)
                          - (IF STEELSKIN \in on THEN SkinBonus(STEELSKIN) ELSE 0),
   speed |-> IF HASTE \in on \/ SLOW \in on THEN BaseSpeed ELSE st.speed,
   flies |-> IF HASTE \in on \/ SLOW \in on THEN st.flies \/ BaseFlies
             ELSE st.flies]

\* v4 is a 64-bit copy of speed + 1, subtracted from itself.
SlowedSpeed(speed) == LET v4 == speed + 1 IN (v4 - v4) \div 2

\* Planted bug: going berserk does not end hypnosis.
ReplacesAllButHypnosis(e) ==
  CASE e = HASTE -> {SLOW}           [] e = SLOW -> {HASTE}
    [] e = BLESS -> {CURSE}          [] e = CURSE -> {BLESS}
    [] e = HYPNOTIZE -> {BERSERKER}  [] e = STEELSKIN -> {STONESKIN}
    [] e = ANTI_MAGIC -> 0..14       [] OTHER -> {}

\* What a new effect cancels before it takes hold.
Replaces(e) ==
  CASE e = HASTE -> {SLOW}           [] e = SLOW -> {HASTE}
    [] e = BLESS -> {CURSE}          [] e = CURSE -> {BLESS}
    [] e = BERSERKER -> {HYPNOTIZE}  [] e = HYPNOTIZE -> {BERSERKER}
    [] e = STEELSKIN -> {STONESKIN}  [] e = ANTI_MAGIC -> 0..14
    [] OTHER -> {}

ApplyBonus(st, e) ==
  [st EXCEPT
     !.attack = IF e = BLOOD_LUST THEN @ + 3 ELSE @,
     !.defense = @ + SkinBonus(e),
     !.speed = IF e = HASTE THEN @ + 2
               ELSE IF e = SLOW THEN SlowedSpeed(@) ELSE @,
     !.flies = @ /\ e # SLOW]

AddActiveEffect(st, e, n) ==
  [st EXCEPT !.numActiveEffects = @ + 1, !.effectStrengths[e] = n]

Refresh(st, e, n) ==
  [st EXCEPT !.effectStrengths[e] = IF @ < n THEN n ELSE @]

\* Planted bug: a spell cast again adds its bonus again.
InfluenceTwice(st, e, n) ==
  IF st.effectStrengths[e] # 0 THEN Refresh(ApplyBonus(st, e), e, n)
  ELSE IF e = STONESKIN /\ st.effectStrengths[STEELSKIN] # 0 THEN st
  ELSE AddActiveEffect(ApplyBonus(CancelEach(st, Replaces(e)), e), e, n)

SetSpellInfluence(st, e, n) ==
  IF st.effectStrengths[e] # 0 THEN Refresh(st, e, n)
  ELSE IF e = STONESKIN /\ st.effectStrengths[STEELSKIN] # 0 THEN st
  ELSE AddActiveEffect(ApplyBonus(CancelEach(st, Replaces(e)), e), e, n)

-----------------------------------------------------------------------------
(* Actions *)

Init ==
  /\ stack = [effectStrengths |-> [e \in Index |-> 0], numActiveEffects |-> 0,
              attack |-> BaseAttack, defense |-> BaseDefense,
              speed |-> BaseSpeed, flies |-> BaseFlies]
  /\ rayLoss = 0

\* Planted bug: anti-magic does not protect.
SpellCastAlwaysWorks == TRUE

\* SpellCastWorkChance is 0 under anti-magic, for mass spells and for the
\* spells creatures cast with their blows as well.
SpellCastWorks == ~Has(ANTI_MAGIC)
\* Dispelling works only on a stack with one of the first NUM_EFFECTS effects.
DispelWorks == SpellCastWorks /\ \E e \in 0..14 : Has(e)

\* The rounds a spell lasts: the caster's power, but for three of them.
Lasting(e) ==
  CASE e \in {BLOOD_LUST, PETRIFY} -> {3} [] e = SHADOW_MARK -> {1} [] OTHER -> Powers

Cast(e) ==
  /\ SpellCastWorks
  /\ \E n \in Lasting(e) : stack' = SetSpellInfluence(stack, e, n)
  /\ UNCHANGED rayLoss

CancelAll(es) == stack' = CancelEach(stack, es) /\ UNCHANGED rayLoss

GoodEffects ==
  {HASTE, BLESS, DRAGON_SLAYER, BLOOD_LUST, SHIELD, ANTI_MAGIC, STONESKIN, STEELSKIN}
CuredEffects == {SLOW, BLIND, CURSE, BERSERKER, PARALYZE, HYPNOTIZE, PETRIFY}

ArchmagiDispel == SpellCastWorks /\ (\E e \in GoodEffects : Has(e)) /\ CancelAll(GoodEffects)
\* Planted bug: only DispelGood, without the loop over all effects.
DispelOnlyGood == DispelWorks /\ CancelAll(GoodEffects)
DispelMagic == DispelWorks /\ CancelAll(GoodEffects \cup Index)
MassDispel == DispelWorks /\ CancelAll(0..14)
Cure == SpellCastWorks /\ CancelAll(CuredEffects)

DisruptingRay ==
  LET weaker == IF stack.defense - 3 < 1 THEN 1 ELSE stack.defense - 3 IN
  /\ SpellCastWorks
  /\ rayLoss + stack.defense - weaker \in 0..MaxRayLoss
  /\ stack' = [stack EXCEPT !.defense = weaker]
  /\ rayLoss' = rayLoss + stack.defense - weaker

\* CancelSpellType: a berserk or hypnotized stack comes to itself when it has
\* acted; blindness, paralysis and petrification end with the first damage.
TookTurn == CancelAll({BERSERKER, HYPNOTIZE})
TookDamage ==
  CancelAll({BLIND} \cup (IF Has(PARALYZE) \/ Has(HYPNOTIZE) \/ Has(PETRIFY)
                          THEN {PARALYZE, PETRIFY} ELSE {}))

\* Planted bug: rounds are counted down without asking whether any are left.
NewRoundUnchecked ==
  LET ended == {e \in Index : stack.effectStrengths[e] = 1}
      rest == CancelEach(stack, ended)
  IN
  /\ stack' = [rest EXCEPT !.effectStrengths = [e \in Index |-> @[e] - 1]]
  /\ UNCHANGED rayLoss

\* DecrementSpellRounds, at the start of every round.
NewRound ==
  LET ended == {e \in Index : stack.effectStrengths[e] = 1}
      rest == CancelEach(stack, ended)
  IN
  /\ stack' = [rest EXCEPT !.effectStrengths =
                 [e \in Index |-> IF @[e] = 0 THEN 0 ELSE @[e] - 1]]
  /\ UNCHANGED rayLoss

\* PowEffect clears byte 15 of every stack and sets it on those whose wincing
\* animation is over; it stays set when the animation loop ends.
PowEffect ==
  /\ stack.numActiveEffects > -MaxDrift
  /\ \E flag \in {0, 1} : stack' = [stack EXCEPT !.effectStrengths[ANIMATED] = flag]
  /\ UNCHANGED rayLoss

Next ==
  \/ \E e \in Castable : Cast(e)
  \/ ArchmagiDispel \/ DispelMagic \/ MassDispel \/ Cure \/ DisruptingRay
  \/ TookTurn \/ TookDamage \/ NewRound \/ PowEffect

Spec == Init /\ [][Next]_vars
-----------------------------------------------------------------------------
(* Properties *)

\* Spells that contradict each other are never on a stack together.
OpposedNeverTogether ==
  /\ ~(Has(HASTE) /\ Has(SLOW))
  /\ ~(Has(BLESS) /\ Has(CURSE))
  /\ ~(Has(BERSERKER) /\ Has(HYPNOTIZE))
  /\ ~(Has(STONESKIN) /\ Has(STEELSKIN))

\* A stack's statistics are those it started with, plus the bonus of each
\* effect it is under, once: nothing is left over from spells that were
\* refreshed, replaced, dispelled or ran out, and nothing is taken twice.
\* (What a disrupting ray took never comes back.)
StatsAreBasePlusEffects ==
  /\ stack.attack = BaseAttack + (IF Has(BLOOD_LUST) THEN 3 ELSE 0)
  /\ stack.defense = BaseDefense - rayLoss
                     + (IF Has(STONESKIN) THEN 3 ELSE 0) + (IF Has(STEELSKIN) THEN 5 ELSE 0)
  /\ stack.speed = IF Has(HASTE) THEN BaseSpeed + 2
                   ELSE IF Has(SLOW) THEN SlowedSpeed(BaseSpeed) ELSE BaseSpeed
  /\ stack.flies = (BaseFlies /\ ~Has(SLOW))

\* Under anti-magic a stack is under no other of the original effects, and
\* nothing can be added until it ends.
AntiMagicAlone == Has(ANTI_MAGIC) => \A e \in 0..14 : Has(e) => e = ANTI_MAGIC

\* A dispel leaves no spell it was meant to end: after DispelMagic the
\* statistics are the starting ones but for disrupting rays.
DispelRestores ==
  [][DispelMagic => /\ stack'.attack = BaseAttack
                    /\ stack'.speed = BaseSpeed /\ stack'.flies = BaseFlies
                    /\ stack'.defense = BaseDefense - rayLoss]_vars

\* What the game tells the player of Mass Dispel: "Removes all magic spells
\* from all creatures".
MassDispelRemovesAll ==
  [][MassDispel => \A e \in Effects : stack'.effectStrengths[e] = 0]_vars
=============================================================================
