------------------------- MODULE SpellEffectsProofs -------------------------
(***************************************************************************)
(* What SpellEffects promises of a stack, proved for every set of spells,  *)
(* every spell power and every creature.                                   *)
(*                                                                         *)
(* The invariant is stated of a stack record (Sound), so that each         *)
(* operation of army.cpp gets one lemma, whichever action calls it.        *)
(***************************************************************************)
EXTENDS SpellEffects, FiniteSetTheorems, TLAPS

On(st, e) == st.effectStrengths[e] # 0

Opposed(st) ==
  /\ ~(On(st, HASTE) /\ On(st, SLOW))
  /\ ~(On(st, BLESS) /\ On(st, CURSE))
  /\ ~(On(st, BERSERKER) /\ On(st, HYPNOTIZE))
  /\ ~(On(st, STONESKIN) /\ On(st, STEELSKIN))

Attack(st) == st.attack = BaseAttack + (IF On(st, BLOOD_LUST) THEN 3 ELSE 0)
Defense(st, ray) ==
  st.defense = BaseDefense - ray
               + (IF On(st, STONESKIN) THEN 3 ELSE 0) + (IF On(st, STEELSKIN) THEN 5 ELSE 0)
Speed(st) ==
  st.speed = IF On(st, HASTE) THEN BaseSpeed + 2
             ELSE IF On(st, SLOW) THEN SlowedSpeed(BaseSpeed) ELSE BaseSpeed
Flight(st) == st.flies = (BaseFlies /\ ~On(st, SLOW))

Alone(st) == On(st, ANTI_MAGIC) => \A e \in 0..14 : On(st, e) => e = ANTI_MAGIC

Sound(st, ray) ==
  /\ Opposed(st)
  /\ Attack(st) /\ Defense(st, ray) /\ Speed(st) /\ Flight(st)
  /\ Alone(st)

USE DEF HASTE, SLOW, BLIND, BLESS, CURSE, BERSERKER, PARALYZE, HYPNOTIZE,
        DRAGON_SLAYER, BLOOD_LUST, SHIELD, PETRIFY, ANTI_MAGIC, STONESKIN,
        STEELSKIN, SHADOW_MARK, Index
-----------------------------------------------------------------------------
(* The operators *)

\* Slow leaves a stack no speed at all, whatever it had.
LEMMA SlowedIsZero ==
  ASSUME NEW s \in Int
  PROVE  SlowedSpeed(s) = 0
BY DEF SlowedSpeed

\* Cancelling effects yields a stack record: only effects it has are counted.
LEMMA CancelEachType ==
  ASSUME NEW st \in Stack, NEW es \in SUBSET Index
  PROVE  CancelEach(st, es) \in Stack
<1> DEFINE on == {e \in es : st.effectStrengths[e] # 0}
<1>1. Cardinality(on) \in Nat
  <2>1. IsFiniteSet(Index)
    <3>1. 0 \in Int /\ 18 \in Int
      OBVIOUS
    <3> QED
      BY <3>1, FS_Interval, Zenon
  <2>2. on \subseteq Index
    OBVIOUS
  <2> QED
    BY <2>1, <2>2, FS_Subset, FS_CardinalityType
<1>2. BaseSpeed \in Int /\ BaseFlies \in BOOLEAN
  BY StackAssumption
<1>3. [e \in Index |-> IF e \in on THEN 0 ELSE st.effectStrengths[e]] \in [Index -> Nat]
  BY DEF Stack
<1>4. st.numActiveEffects - Cardinality(on) \in Int
  BY <1>1 DEF Stack
<1> HIDE DEF on
<1>5. CancelEach(st, es) =
        [effectStrengths |->
           [e \in Index |-> IF e \in on THEN 0 ELSE st.effectStrengths[e]],
         numActiveEffects |-> st.numActiveEffects - Cardinality(on),
         attack |-> IF BLOOD_LUST \in on THEN st.attack - 3 ELSE st.attack,
         defense |-> st.defense
                       - (IF STONESKIN \in on THEN SkinBonus(STONESKIN) ELSE 0)
                       - (IF STEELSKIN \in on THEN SkinBonus(STEELSKIN) ELSE 0),
         speed |-> IF HASTE \in on \/ SLOW \in on THEN BaseSpeed ELSE st.speed,
         flies |-> IF HASTE \in on \/ SLOW \in on THEN st.flies \/ BaseFlies
                   ELSE st.flies]
  BY DEF CancelEach, on
<1>6. SkinBonus(STONESKIN) = 3 /\ SkinBonus(STEELSKIN) = 5
  BY DEF SkinBonus
<1> QED
  BY <1>2, <1>3, <1>4, <1>5, <1>6 DEF Stack

\* ... with every effect of the set off and every other as it was.
LEMMA CancelEachOn ==
  ASSUME NEW st \in Stack, NEW es \in SUBSET Index, NEW e \in Index
  PROVE  On(CancelEach(st, es), e) <=> On(st, e) /\ e \notin es
BY DEF CancelEach, On, Stack

\* CancelIndividualSpell undoes exactly the bonuses SetSpellInfluence gave, so
\* a sound stack stays sound whichever effects are cancelled.
LEMMA CancelEachSound ==
  ASSUME NEW st \in Stack, NEW ray \in Nat, NEW es \in SUBSET Index,
         Sound(st, ray)
  PROVE  Sound(CancelEach(st, es), ray)
<1> DEFINE new == CancelEach(st, es)
<1>1. \A e \in Index : On(new, e) <=> On(st, e) /\ e \notin es
  BY CancelEachOn
<1>2. Opposed(new)
  BY <1>1 DEF Opposed, Sound
<1>3. Alone(new)
  BY <1>1 DEF Alone, Sound
<1>4. Attack(new)
  <2>1. new.attack = IF BLOOD_LUST \in es /\ On(st, BLOOD_LUST) THEN st.attack - 3
                     ELSE st.attack
    BY DEF CancelEach, On
  <2> QED
    BY <1>1, <2>1, StackAssumption DEF Attack, Sound
<1>5. Defense(new, ray)
  <2>1. new.defense = st.defense
                        - (IF STONESKIN \in es /\ On(st, STONESKIN) THEN 3 ELSE 0)
                        - (IF STEELSKIN \in es /\ On(st, STEELSKIN) THEN 5 ELSE 0)
    BY DEF CancelEach, On, SkinBonus
  <2> QED
    BY <1>1, <2>1, StackAssumption DEF Defense, Sound
<1>6. Speed(new)
  <2>1. new.speed = IF \/ HASTE \in es /\ On(st, HASTE)
                       \/ SLOW \in es /\ On(st, SLOW)
                    THEN BaseSpeed ELSE st.speed
    BY DEF CancelEach, On
  <2> QED
    BY <1>1, <2>1 DEF Speed, Sound, Opposed
<1>7. Flight(new)
  <2>1. new.flies = IF \/ HASTE \in es /\ On(st, HASTE)
                       \/ SLOW \in es /\ On(st, SLOW)
                    THEN st.flies \/ BaseFlies ELSE st.flies
    BY DEF CancelEach, On
  <2>2. st.flies = (BaseFlies /\ ~On(st, SLOW)) /\ ~(On(st, HASTE) /\ On(st, SLOW))
    BY DEF Flight, Sound, Opposed
  <2>3. On(new, SLOW) <=> On(st, SLOW) /\ SLOW \notin es
    BY <1>1
  <2> QED
    BY <2>1, <2>2, <2>3, StackAssumption DEF Flight
<1> QED
  BY <1>2, <1>3, <1>4, <1>5, <1>6, <1>7 DEF Sound

\* Every effect is an index of effectStrengths, and what it replaces is too.
LEMMA ReplacesIndices ==
  ASSUME NEW e \in Effects
  PROVE  e \in Index /\ Replaces(e) \in SUBSET Index
BY DEF Effects, Replaces

\* A new effect takes hold, and nothing else changes but what it replaces.
LEMMA InfluenceOn ==
  ASSUME NEW st \in Stack, NEW e \in Effects, NEW n \in Nat \ {0},
         ~On(st, e), NEW x \in Index
  PROVE  LET new == AddActiveEffect(ApplyBonus(CancelEach(st, Replaces(e)), e), e, n)
         IN On(new, x) <=> x = e \/ (On(st, x) /\ x \notin Replaces(e))
<1> DEFINE mid == CancelEach(st, Replaces(e))
<1>1. mid \in Stack
  BY ReplacesIndices, CancelEachType
<1>2. On(mid, x) <=> On(st, x) /\ x \notin Replaces(e)
  BY ReplacesIndices, CancelEachOn
<1> HIDE DEF mid
<1>3. LET new == AddActiveEffect(ApplyBonus(mid, e), e, n)
      IN On(new, x) <=> x = e \/ On(mid, x)
  BY <1>1, ReplacesIndices DEF On, AddActiveEffect, ApplyBonus, Stack
<1> QED
  BY <1>2, <1>3 DEF mid

\* SetSpellInfluence keeps the record a stack record.
LEMMA InfluenceType ==
  ASSUME NEW st \in Stack, NEW e \in Effects, NEW n \in Nat \ {0}
  PROVE  SetSpellInfluence(st, e, n) \in Stack
<1> DEFINE mid == CancelEach(st, Replaces(e))
<1>1. mid \in Stack /\ e \in Index
  BY ReplacesIndices, CancelEachType
<1> HIDE DEF mid
<1>2. Refresh(st, e, n) \in Stack
  BY <1>1 DEF Refresh, Stack
<1>3. ApplyBonus(mid, e) \in Stack
  <2>1. SkinBonus(e) \in Int
    BY <1>1 DEF SkinBonus
  <2>2. \A s \in Int : SlowedSpeed(s) \in Int
    BY SlowedIsZero
  <2> DEFINE speed == IF e = HASTE THEN mid.speed + 2
                      ELSE IF e = SLOW THEN SlowedSpeed(mid.speed) ELSE mid.speed
             flies == mid.flies /\ e # SLOW
             attack == IF e = BLOOD_LUST THEN mid.attack + 3 ELSE mid.attack
             defense == mid.defense + SkinBonus(e)
  <2>3. speed \in Int /\ attack \in Int /\ defense \in Int
    BY <1>1, <2>1, <2>2 DEF Stack
  <2>4. flies \in BOOLEAN
    OBVIOUS
  <2>5. ApplyBonus(mid, e) = [mid EXCEPT !.attack = attack, !.defense = defense,
                                         !.speed = speed, !.flies = flies]
    BY <1>1 DEF ApplyBonus, Stack
  <2> HIDE DEF speed, flies, attack, defense
  <2> QED
    BY <1>1, <2>3, <2>4, <2>5 DEF Stack
<1>4. AddActiveEffect(ApplyBonus(mid, e), e, n) \in Stack
  <2> DEFINE bonus == ApplyBonus(mid, e)
             strengths == [bonus.effectStrengths EXCEPT ![e] = n]
             active == bonus.numActiveEffects + 1
  <2>1. bonus \in Stack
    BY <1>3
  <2> HIDE DEF bonus
  <2>2. strengths \in [Index -> Nat] /\ active \in Int
    BY <1>1, <2>1 DEF Stack
  <2>3. AddActiveEffect(bonus, e, n) =
          [bonus EXCEPT !.numActiveEffects = active, !.effectStrengths = strengths]
    BY <1>1, <2>1 DEF AddActiveEffect, Stack
  <2> HIDE DEF strengths, active
  <2>4. AddActiveEffect(bonus, e, n) \in Stack
    BY <2>1, <2>2, <2>3 DEF Stack
  <2> QED
    BY <2>4 DEF bonus
<1> QED
  BY <1>2, <1>4 DEF SetSpellInfluence, mid

\* A spell that reaches a stack without anti-magic leaves a sound stack: cast
\* again it adds no bonus, and what it contradicts is undone before.
LEMMA InfluenceSound ==
  ASSUME NEW st \in Stack, NEW ray \in Nat, NEW e \in Effects, NEW n \in Nat \ {0},
         Sound(st, ray), ~On(st, ANTI_MAGIC)
  PROVE  Sound(SetSpellInfluence(st, e, n), ray)
<1>1. CASE On(st, e)
  <2> DEFINE new == Refresh(st, e, n)
  <2>1. SetSpellInfluence(st, e, n) = new
    BY <1>1 DEF SetSpellInfluence, On
  <2>2. \A x \in Index : On(new, x) <=> On(st, x)
    BY <1>1, ReplacesIndices DEF Refresh, On, Stack
  <2>3. new.attack = st.attack /\ new.defense = st.defense
        /\ new.speed = st.speed /\ new.flies = st.flies
    BY DEF Refresh, Stack
  <2> HIDE DEF new
  <2>4. Sound(new, ray)
    BY <2>2, <2>3 DEF Sound, Opposed, Attack, Defense, Speed, Flight, Alone
  <2> QED
    BY <2>1, <2>4
<1>2. CASE e = STONESKIN /\ On(st, STEELSKIN)
  <2>1. ~On(st, e)
    BY <1>2 DEF Sound, Opposed
  <2> QED
    BY <1>2, <2>1 DEF SetSpellInfluence, On
<1>3. CASE ~On(st, e) /\ ~(e = STONESKIN /\ On(st, STEELSKIN))
  <2> DEFINE mid == CancelEach(st, Replaces(e))
             new == AddActiveEffect(ApplyBonus(mid, e), e, n)
  <2>1. SetSpellInfluence(st, e, n) = new
    BY <1>3 DEF SetSpellInfluence, On
  <2>2. mid \in Stack /\ Sound(mid, ray) /\ ~On(mid, e)
    BY <1>3, ReplacesIndices, CancelEachType, CancelEachSound, CancelEachOn
  <2>3. \A x \in Index : On(mid, x) <=> On(st, x) /\ x \notin Replaces(e)
    BY ReplacesIndices, CancelEachOn
  <2>4. \A x \in Index : On(new, x) <=> x = e \/ On(mid, x)
    BY <1>3, <2>3, InfluenceOn
  <2>5. /\ new.attack = IF e = BLOOD_LUST THEN mid.attack + 3 ELSE mid.attack
        /\ new.defense = mid.defense + SkinBonus(e)
        /\ new.speed = IF e = HASTE THEN mid.speed + 2
                       ELSE IF e = SLOW THEN SlowedSpeed(mid.speed) ELSE mid.speed
        /\ new.flies = (mid.flies /\ e # SLOW)
    <3> HIDE DEF mid
    <3> QED
      BY <2>2 DEF AddActiveEffect, ApplyBonus, Stack
  <2>6. e \in Index
    BY ReplacesIndices
  <2> HIDE DEF mid, new
  <2>7. Opposed(new)
    <3>1. ~(On(new, HASTE) /\ On(new, SLOW))
      <4>1. ~(On(mid, HASTE) /\ On(mid, SLOW))
        BY <2>2 DEF Opposed, Sound
      <4>2. (e = HASTE => ~On(mid, SLOW)) /\ (e = SLOW => ~On(mid, HASTE))
        <5>1. Replaces(HASTE) = {SLOW} /\ Replaces(SLOW) = {HASTE}
          BY DEF Replaces
        <5>2. /\ On(mid, SLOW) => SLOW \notin Replaces(e)
              /\ On(mid, HASTE) => HASTE \notin Replaces(e)
          BY <2>3
        <5> QED
          BY <5>1, <5>2
      <4>3. /\ On(new, HASTE) <=> e = HASTE \/ On(mid, HASTE)
            /\ On(new, SLOW) <=> e = SLOW \/ On(mid, SLOW)
        BY <2>4
      <4>4. ~(e = HASTE /\ e = SLOW)
        OBVIOUS
      <4> QED
        BY <4>1, <4>2, <4>3, <4>4
    <3>2. ~(On(new, BLESS) /\ On(new, CURSE))
      BY <2>2, <2>3, <2>4 DEF Opposed, Sound, Replaces
    <3>3. ~(On(new, BERSERKER) /\ On(new, HYPNOTIZE))
      BY <2>2, <2>3, <2>4 DEF Opposed, Sound, Replaces
    <3>4. ~(On(new, STONESKIN) /\ On(new, STEELSKIN))
      BY <1>3, <2>2, <2>3, <2>4 DEF Opposed, Sound, Replaces
    <3> QED
      BY <3>1, <3>2, <3>3, <3>4 DEF Opposed
  <2>8. Attack(new)
    BY <2>2, <2>4, <2>5, <2>6, StackAssumption DEF Attack, Sound, Stack
  <2>9. Defense(new, ray)
    BY <2>2, <2>4, <2>5, <2>6, StackAssumption DEF Defense, Sound, Stack, SkinBonus
  <2>10. Speed(new)
    <3>1. e = HASTE => ~On(mid, SLOW)
      BY <2>3 DEF Replaces
    <3>2. e = SLOW => ~On(mid, HASTE)
      BY <2>3 DEF Replaces
    <3> QED
      BY <2>2, <2>4, <2>5, <2>6, <3>1, <3>2, StackAssumption DEF Speed, Sound, Stack
  <2>11. Flight(new)
    <3>1. On(new, SLOW) <=> e = SLOW \/ On(mid, SLOW)
      BY <2>4
    <3> QED
      BY <2>2, <2>5, <3>1 DEF Flight, Sound
  <2>12. Alone(new)
    <3>1. CASE e = ANTI_MAGIC
      <4>1. Replaces(e) = 0..14
        BY <3>1 DEF Replaces
      <4> QED
        BY <2>3, <2>4, <3>1, <4>1 DEF Alone
    <3>2. CASE e # ANTI_MAGIC
      BY <2>3, <2>4, <3>2 DEF Alone
    <3> QED
      BY <3>1, <3>2
  <2> QED
    BY <2>1, <2>7, <2>8, <2>9, <2>10, <2>11, <2>12 DEF Sound
<1> QED
  BY <1>1, <1>2, <1>3
-----------------------------------------------------------------------------
(* The specification *)

Inv == TypeOK /\ Sound(stack, rayLoss)

LEMMA InitInv == Init => Inv
<1> SUFFICES ASSUME Init PROVE Inv
  OBVIOUS
<1>1. stack \in Stack /\ rayLoss \in Nat
  BY StackAssumption DEF Init, Stack
<1>2. \A e \in Index : ~On(stack, e)
  BY DEF Init, On
<1>3. stack.attack = BaseAttack /\ stack.defense = BaseDefense
      /\ stack.speed = BaseSpeed /\ stack.flies = BaseFlies /\ rayLoss = 0
  BY DEF Init
<1> QED
  BY <1>1, <1>2, <1>3, StackAssumption
     DEF Inv, TypeOK, Sound, Opposed, Attack, Defense, Speed, Flight, Alone

\* Whatever set of effects an action cancels.
LEMMA CancelAllInv ==
  ASSUME Inv, NEW es \in SUBSET Index, CancelAll(es)
  PROVE  Inv'
BY CancelEachType, CancelEachSound DEF Inv, TypeOK, CancelAll

LEMMA CastInv ==
  ASSUME Inv, NEW e \in Castable, Cast(e)
  PROVE  Inv'
<1>1. e \in Effects
  BY StackAssumption
<1>2. Lasting(e) \subseteq Nat \ {0}
  BY StackAssumption DEF Lasting
<1>3. PICK n \in Nat \ {0} : stack' = SetSpellInfluence(stack, e, n)
  BY <1>2 DEF Cast
<1>4. ~On(stack, ANTI_MAGIC) /\ rayLoss' = rayLoss
  BY DEF Cast, SpellCastWorks, Has, On
<1> QED
  BY <1>1, <1>3, <1>4, InfluenceType, InfluenceSound DEF Inv, TypeOK

\* Two stacks under the same effects, with the same statistics.
LEMMA SameEffects ==
  ASSUME NEW st \in Stack, NEW new \in Stack, NEW ray \in Nat, Sound(st, ray),
         \A e \in Effects : On(new, e) <=> On(st, e),
         new.attack = st.attack, new.defense = st.defense,
         new.speed = st.speed, new.flies = st.flies
  PROVE  Sound(new, ray)
<1>1. 0..14 \subseteq Effects
  BY DEF Effects
<1> QED
  BY <1>1 DEF Sound, Opposed, Attack, Defense, Speed, Flight, Alone

LEMMA PowEffectInv ==
  ASSUME Inv, PowEffect
  PROVE  Inv'
<1>1. PICK flag \in {0, 1} :
        stack' = [stack EXCEPT !.effectStrengths[ANIMATED] = flag]
  BY DEF PowEffect
<1>2. stack \in Stack /\ stack' \in Stack /\ rayLoss' = rayLoss /\ rayLoss \in Nat
  BY <1>1 DEF Inv, TypeOK, Stack, PowEffect, ANIMATED
<1>3. \A e \in Effects : On(stack', e) <=> On(stack, e)
  BY <1>1, <1>2 DEF Effects, On, Stack, ANIMATED
<1>4. stack'.attack = stack.attack /\ stack'.defense = stack.defense
      /\ stack'.speed = stack.speed /\ stack'.flies = stack.flies
  BY <1>1, <1>2 DEF Stack
<1> QED
  BY <1>2, <1>3, <1>4, SameEffects DEF Inv, TypeOK

LEMMA NewRoundInv ==
  ASSUME Inv, NewRound
  PROVE  Inv'
<1> DEFINE ended == {e \in Index : stack.effectStrengths[e] = 1}
           rest == CancelEach(stack, ended)
<1>1. ended \in SUBSET Index /\ stack \in Stack /\ rayLoss \in Nat /\ Sound(stack, rayLoss)
  BY DEF Inv, TypeOK
<1>2. rest \in Stack /\ Sound(rest, rayLoss)
  BY <1>1, CancelEachType, CancelEachSound
<1>3. \A e \in Index : rest.effectStrengths[e] # 1
  BY <1>1 DEF CancelEach, Stack
<1>4. /\ stack' = [rest EXCEPT !.effectStrengths =
                     [e \in Index |-> IF @[e] = 0 THEN 0 ELSE @[e] - 1]]
      /\ rayLoss' = rayLoss
  BY DEF NewRound
<1> HIDE DEF rest, ended
<1>5. stack' \in Stack
  BY <1>2, <1>4 DEF Stack
<1>6. \A e \in Effects : On(stack', e) <=> On(rest, e)
  BY <1>2, <1>3, <1>4 DEF On, Stack, Effects
<1>7. stack'.attack = rest.attack /\ stack'.defense = rest.defense
      /\ stack'.speed = rest.speed /\ stack'.flies = rest.flies
  BY <1>2, <1>4 DEF Stack
<1> QED
  BY <1>1, <1>2, <1>4, <1>5, <1>6, <1>7, SameEffects DEF Inv, TypeOK

LEMMA DisruptingRayInv ==
  ASSUME Inv, DisruptingRay
  PROVE  Inv'
<1> DEFINE weaker == IF stack.defense - 3 < 1 THEN 1 ELSE stack.defense - 3
<1>1. /\ stack' = [stack EXCEPT !.defense = weaker]
      /\ rayLoss' = rayLoss + stack.defense - weaker
      /\ rayLoss' \in 0..MaxRayLoss
  BY DEF DisruptingRay
<1>2. stack \in Stack /\ stack.defense \in Int /\ rayLoss \in Nat /\ weaker \in Int
  BY DEF Inv, TypeOK, Stack
<1> HIDE DEF weaker
<1>3. stack' \in Stack /\ rayLoss' \in Nat
  BY <1>1, <1>2, StackAssumption DEF Stack
<1>4. /\ stack'.effectStrengths = stack.effectStrengths
      /\ stack'.attack = stack.attack /\ stack'.speed = stack.speed
      /\ stack'.flies = stack.flies /\ stack'.defense = weaker
  BY <1>1, <1>2 DEF Stack
<1>5. Defense(stack', rayLoss')
  BY <1>1, <1>2, <1>3, <1>4, StackAssumption DEF Inv, Sound, Defense, On
<1> QED
  BY <1>3, <1>4, <1>5 DEF Inv, TypeOK, Sound, Opposed, Attack, Speed, Flight, Alone, On

LEMMA NextInv == Inv /\ [Next]_vars => Inv'
<1> SUFFICES ASSUME Inv, [Next]_vars PROVE Inv'
  OBVIOUS
<1>1. CASE \E e \in Castable : Cast(e)
  BY <1>1, CastInv
<1>2. CASE ArchmagiDispel
  BY <1>2, CancelAllInv DEF ArchmagiDispel, GoodEffects
<1>3. CASE DispelMagic
  BY <1>3, CancelAllInv DEF DispelMagic, GoodEffects
<1>4. CASE MassDispel
  BY <1>4, CancelAllInv DEF MassDispel
<1>5. CASE Cure
  BY <1>5, CancelAllInv DEF Cure, CuredEffects
<1>6. CASE DisruptingRay
  BY <1>6, DisruptingRayInv
<1>7. CASE TookTurn
  BY <1>7, CancelAllInv DEF TookTurn
<1>8. CASE TookDamage
  BY <1>8, CancelAllInv DEF TookDamage
<1>9. CASE NewRound
  BY <1>9, NewRoundInv
<1>10. CASE PowEffect
  BY <1>10, PowEffectInv
<1>11. CASE UNCHANGED vars
  BY <1>11 DEF vars, Inv, TypeOK, Sound, Opposed, Attack, Defense, Speed, Flight, Alone, On
<1> QED
  BY <1>1, <1>2, <1>3, <1>4, <1>5, <1>6, <1>7, <1>8, <1>9, <1>10, <1>11 DEF Next

LEMMA InvHolds == Spec => []Inv
BY InitInv, NextInv, PTL DEF Spec

\* The stack stays a well-formed record: no count of rounds goes below zero,
\* whichever effects run out, are cancelled or are refreshed (army.cpp).
THEOREM StackIsTyped == Spec => []TypeOK
<1>1. Inv => TypeOK
  BY DEF Inv
<1> QED
  BY InvHolds, <1>1, PTL

\* No order of casting, refreshing, dispelling and running out puts two
\* contradicting spells on a stack (army::SetSpellInfluence).
THEOREM OpposedSpellsExclude == Spec => []OpposedNeverTogether
<1>1. Inv => OpposedNeverTogether
  BY DEF Inv, Sound, Opposed, On, OpposedNeverTogether, Has
<1> QED
  BY InvHolds, <1>1, PTL

\* Every bonus is undone exactly once (army::CancelIndividualSpell).
THEOREM BonusesAreUndoneOnce == Spec => []StatsAreBasePlusEffects
<1>1. Inv => StatsAreBasePlusEffects
  BY DEF Inv, Sound, Attack, Defense, Speed, Flight, On, StatsAreBasePlusEffects, Has
<1> QED
  BY InvHolds, <1>1, PTL

\* Anti-magic stands alone until it ends (army::SetSpellInfluence and
\* SpellCastWorkChance).
THEOREM AntiMagicStandsAlone == Spec => []AntiMagicAlone
<1>1. Inv => AntiMagicAlone
  BY DEF Inv, Sound, Alone, On, AntiMagicAlone, Has
<1> QED
  BY InvHolds, <1>1, PTL

\* After Dispel Magic the statistics are the starting ones but for disrupting
\* rays (combatManager::CastSpell, SPELL_DISPEL_MAGIC).
THEOREM DispelMagicRestores == Spec => DispelRestores
<1> DEFINE Restored == /\ stack'.attack = BaseAttack
                       /\ stack'.speed = BaseSpeed /\ stack'.flies = BaseFlies
                       /\ stack'.defense = BaseDefense - rayLoss
<1>1. Inv /\ DispelMagic => Restored
  <2> SUFFICES ASSUME Inv, DispelMagic PROVE Restored
    OBVIOUS
  <2>1. Inv' /\ rayLoss' = rayLoss
    BY CancelAllInv DEF DispelMagic, CancelAll, GoodEffects
  <2>2. GoodEffects \cup Index = Index
    BY DEF GoodEffects
  <2>3. stack' = CancelEach(stack, Index) /\ stack \in Stack
    BY <2>2 DEF DispelMagic, CancelAll, Inv, TypeOK
  <2>4. \A e \in Index : ~On(stack', e)
    BY <2>3, CancelEachOn
  <2>5. Attack(stack') /\ Defense(stack', rayLoss) /\ Speed(stack') /\ Flight(stack')
    BY <2>1 DEF Inv, Sound
  <2>6. stack'.attack = BaseAttack /\ stack'.defense = BaseDefense - rayLoss
    BY <2>1, <2>4, <2>5, StackAssumption DEF Attack, Defense, Inv, TypeOK
  <2>7. stack'.speed = BaseSpeed
    BY <2>4, <2>5 DEF Speed
  <2>8. stack'.flies = BaseFlies
    <3>1. ~On(stack', SLOW)
      BY <2>4
    <3> QED
      BY <2>5, <3>1, StackAssumption DEF Flight
  <2> QED
    BY <2>6, <2>7, <2>8
<1>2. Inv /\ [Next]_vars => [DispelMagic => Restored]_vars
  BY <1>1
<1> QED
  BY InvHolds, <1>2, PTL DEF Spec, DispelRestores
=============================================================================
