-------------------------- MODULE CasualtiesProofs --------------------------
(***************************************************************************)
(* The count of the fallen is right, proved for any stacks, any creatures, *)
(* any blows and any spell power.                                          *)
(*                                                                         *)
(* The invariant speaks of one stack's record (Sound, Lies, Accounted), so *)
(* that each operation of army.cpp gets one lemma for the record it        *)
(* changes, and each action says which records those are.                  *)
(***************************************************************************)
EXTENDS Casualties, NaturalsInduction, WellFoundedInduction, TLAPS

Record == [quantity : Nat, damage : Int, temporaryQty : Nat, DEAD : BOOLEAN,
           RETALIATED : BOOLEAN, abilityCounter : {0, 1}]

\* What holds of the record x of stack s, in battle and after, unless a dodged blow
\* has made a creature.
Sound(s, x) ==
  /\ x \in Record
  /\ x.damage < Hp[s] /\ x.damage > -Hp[s]
  /\ s \notin Dodgers => x.damage >= 0
  /\ s \notin Ghosts => x.quantity <= Initial[s]

\* In battle: whoever has nobody left lies dead, and nobody else.
Lies(x) == x.DEAD <=> x.quantity = 0

\* In battle: those raised for the battle are among the fallen, if they are not those
\* of Pandora's Box, who were never anybody's own.
Accounted(s) ==
  Counted(s) => /\ lost[s] + stack[s].quantity = Own(s) + stack[s].temporaryQty
                /\ s \in Pandora => stack[s].temporaryQty >= Initial[s]

Inv ==
  /\ TypeOK /\ DeadAreNone /\ OnlyGhostsOutgrow /\ OnlyTheUnraisedGoHome
  /\ intact => \A s \in here : Sound(s, stack[s])
  /\ intact /\ ~over => \A s \in here : Accounted(s)

-----------------------------------------------------------------------------
(* Division *)

\* / and % of C.  The quotient is not below zero until the dividend reaches the
\* divisor there, and is -1 until it reaches twice that.
LEMMA Division ==
  ASSUME NEW a \in Int, NEW b \in Nat \ {0}
  PROVE  /\ Quotient(a, b) \in Int /\ Remainder(a, b) \in Int
         /\ a = b * Quotient(a, b) + Remainder(a, b)
         /\ Remainder(a, b) < b /\ Remainder(a, b) > -b
         /\ a >= 0 => Remainder(a, b) >= 0
         /\ Quotient(a, b) >= 0 <=> a > -b
         /\ a > -b /\ a < b => Quotient(a, b) = 0 /\ Remainder(a, b) = a
         /\ a > -2 * b => Quotient(a, b) >= -1
<1>1. CASE a >= 0
  <2> DEFINE q == a \div b
  <2>1. q \in Nat /\ b * q <= a /\ a < b * q + b
    BY <1>1
  <2>2. Quotient(a, b) = q /\ Remainder(a, b) = a - b * q
    BY <1>1 DEF Quotient, Remainder
  <2>3. b * q \in Nat
    BY <2>1
  <2>4. a < b => q = 0
    BY <1>1
  <2> HIDE DEF q
  <2>5. a < b => b * q = 0
    BY <2>4
  <2> QED
    BY <1>1, <2>1, <2>2, <2>3, <2>4, <2>5
<1>2. CASE a < 0
  <2> DEFINE c == -a
             q == c \div b
  <2>1. c \in Nat /\ q \in Nat /\ b * q <= c /\ c < b * q + b
    BY <1>2
  <2>2. Quotient(a, b) = -q /\ Remainder(a, b) = a - b * (-q)
    BY <1>2 DEF Quotient, Remainder
  <2>3. b * q \in Nat /\ b * (-q) = -(b * q)
    BY <2>1
  <2>4. c < b <=> q = 0
    BY <2>1
  <2>5. c < 2 * b => q <= 1
    <3> HIDE DEF q, c
    <3>1. ASSUME q >= 2 PROVE b * q >= 2 * b
      <4>1. PICK d \in Nat : q = 2 + d
        <5>1. q - 2 \in Nat /\ q = 2 + (q - 2)
          BY <2>1, <3>1
        <5> QED
          BY <5>1
      <4>2. b * q = 2 * b + b * d /\ b * d \in Nat
        BY <4>1
      <4> QED
        BY <4>2
    <3> QED
      BY <2>1, <2>3, <3>1
  <2>6. a = -c
    OBVIOUS
  <2> HIDE DEF q, c
  <2>7. q = 0 => b * q = 0
    OBVIOUS
  <2> QED
    BY <1>2, <2>1, <2>2, <2>3, <2>4, <2>5, <2>6, <2>7
<1> QED
  BY <1>1, <1>2

\* What the artifacts make of a wound is a wound, and without them the same.
LEMMA Modified ==
  ASSUME NEW dam \in Int, NEW spell, NEW this, NEW enemy
  PROVE  LET new == ModifyDamageForArtifacts(dam, spell, this, enemy)
         IN /\ new \in Int
            /\ dam >= 0 => new >= 0
            /\ this = {} /\ enemy = {} => new = dam
<1>1. ASSUME NEW a \in Int
      PROVE  /\ Quotient(a, 2) \in Int
             /\ a >= 0 => Quotient(a, 2) >= 0
  BY Division
<1> DEFINE cold == spell = "cold"
           raised == IF (IF cold THEN 48 ELSE 49) \in this THEN Quotient(3 * dam, 2) ELSE dam
           warded == IF (IF cold THEN 45 ELSE 46) \in enemy THEN Quotient(raised, 2) ELSE raised
           fire == IF 92 \notin enemy THEN warded
                   ELSE IF cold THEN 2 * warded ELSE Quotient(warded, 2)
           new == IF 93 \notin enemy THEN fire
                  ELSE IF cold THEN Quotient(fire, 2) ELSE 2 * fire
<1>2. ModifyDamageForArtifacts(dam, spell, this, enemy) = new
  BY DEF ModifyDamageForArtifacts
<1>3. raised \in Int /\ (dam >= 0 => raised >= 0) /\ (this = {} => raised = dam)
  BY <1>1
<1> HIDE DEF raised
<1>4. warded \in Int /\ (raised >= 0 => warded >= 0) /\ (enemy = {} => warded = raised)
  BY <1>1, <1>3
<1> HIDE DEF warded
<1>5. fire \in Int /\ (warded >= 0 => fire >= 0) /\ (enemy = {} => fire = warded)
  BY <1>1, <1>4
<1> HIDE DEF fire
<1>6. new \in Int /\ (fire >= 0 => new >= 0) /\ (enemy = {} => new = fire)
  BY <1>1, <1>5
<1> HIDE DEF new
<1> QED
  BY <1>2, <1>3, <1>4, <1>5, <1>6

LEMMA DealtIsAWound ==
  ASSUME NEW st, NEW t \in Stacks, st[t].damage \in Int, NEW baseDam \in Int,
         NEW spell, NEW caster \in {0, 1}
  PROVE  LET dam == Dealt(st, t, baseDam, spell, caster)
         IN /\ dam \in Int
            /\ st[t].damage + baseDam >= 0 => dam >= 0
            /\ spell = "none" \/ Artifacts = [side \in {0, 1} |-> {}] =>
                 dam = st[t].damage + baseDam
<1> DEFINE wound == st[t].damage + baseDam
           this == Artifacts[IF gbRemoteOn THEN Side[t] ELSE caster]
           enemy == Artifacts[IF gbRemoteOn THEN caster ELSE Side[t]]
           new == ModifyDamageForArtifacts(wound, spell, this, enemy)
<1>1. wound \in Int
  OBVIOUS
<1>2. Dealt(st, t, baseDam, spell, caster) = IF spell = "none" THEN wound ELSE new
  BY DEF Dealt
<1>3. Artifacts = [side \in {0, 1} |-> {}] => this = {} /\ enemy = {}
  <2>1. Side[t] \in {0, 1}
    BY StacksAssumption
  <2> QED
    BY <2>1
<1> HIDE DEF wound, this, enemy
<1>4. new \in Int /\ (wound >= 0 => new >= 0) /\ (this = {} /\ enemy = {} => new = wound)
  BY <1>1, Modified
<1> HIDE DEF new
<1> QED
  BY <1>1, <1>2, <1>3, <1>4 DEF wound

-----------------------------------------------------------------------------
(* Blows, for the record of the stack that is hit or feeds *)

\* What is left of the record x of stack s of a wound that deep.
Hit(s, x, dam) ==
  LET left == x.quantity - Least(Quotient(dam, Hp[s]), x.quantity)
  IN [x EXCEPT !.quantity = left, !.DEAD = @ \/ left <= 0, !.damage = Remainder(dam, Hp[s])]

LEMMA DamageIsHit ==
  ASSUME NEW st, NEW t, NEW baseDam, NEW spell, NEW caster
  PROVE  Damage(st, t, baseDam, spell, caster)
           = [st EXCEPT ![t] = Hit(t, st[t], Dealt(st, t, baseDam, spell, caster))]
BY DEF Damage, Wounded, Hit

LEMMA BlowIsHit ==
  ASSUME NEW st, NEW t, NEW baseDam
  PROVE  Damage(st, t, baseDam, "none", 0) = [st EXCEPT ![t] = Hit(t, st[t], st[t].damage + baseDam)]
<1>1. Dealt(st, t, baseDam, "none", 0) = st[t].damage + baseDam
  BY DEF Dealt
<1> QED
  BY <1>1, DamageIsHit, Zenon

\* Of whatever wound, there is a record; and nobody comes back, if it is not as far
\* below zero as a creature's life.
LEMMA HitRecord ==
  ASSUME NEW s \in Stacks, NEW x \in Record, NEW dam \in Int
  PROVE  LET y == Hit(s, x, dam)
             k == Quotient(dam, Hp[s])
         IN /\ y \in Record /\ y.damage = Remainder(dam, Hp[s])
            /\ y.quantity = x.quantity - Least(k, x.quantity)
            /\ y.DEAD <=> x.DEAD \/ y.quantity = 0
            /\ y.damage < Hp[s] /\ y.damage > -Hp[s] /\ (dam >= 0 => y.damage >= 0)
            /\ y.quantity <= x.quantity <=> k >= 0
            /\ k >= 0 <=> dam > -Hp[s]
            /\ dam > -2 * Hp[s] => y.quantity <= x.quantity + 1
            /\ y.temporaryQty = x.temporaryQty /\ y.RETALIATED = x.RETALIATED
            /\ y.abilityCounter = x.abilityCounter
<1> DEFINE k == Quotient(dam, Hp[s])
           rest == Remainder(dam, Hp[s])
           left == x.quantity - Least(k, x.quantity)
           dead == x.DEAD \/ left <= 0
           y == Hit(s, x, dam)
<1>1. Hp[s] \in Nat \ {0} /\ x.quantity \in Nat /\ x.DEAD \in BOOLEAN
  BY StacksAssumption DEF Record
<1>2. /\ k \in Int /\ rest \in Int /\ rest < Hp[s] /\ rest > -Hp[s]
      /\ dam >= 0 => rest >= 0
      /\ k >= 0 <=> dam > -Hp[s]
      /\ dam > -2 * Hp[s] => k >= -1
  BY <1>1, Division
<1>3. y = [x EXCEPT !.quantity = left, !.DEAD = dead, !.damage = rest]
  BY DEF Hit
<1> HIDE DEF k, rest, y
<1>4. left \in Nat /\ (left <= x.quantity <=> k >= 0) /\ (k >= -1 => left <= x.quantity + 1)
  BY <1>1, <1>2 DEF Least
<1>5. dead \in BOOLEAN /\ (dead <=> x.DEAD \/ left = 0)
  BY <1>1, <1>4
<1>6. left = x.quantity - Least(k, x.quantity)
  OBVIOUS
<1> HIDE DEF left, dead
<1>7. y = [quantity |-> left, damage |-> rest, temporaryQty |-> x.temporaryQty,
           DEAD |-> dead, RETALIATED |-> x.RETALIATED, abilityCounter |-> x.abilityCounter]
  BY <1>3 DEF Record
<1>8. /\ y \in Record /\ y.quantity = left /\ y.damage = rest /\ y.DEAD = dead
      /\ y.temporaryQty = x.temporaryQty /\ y.RETALIATED = x.RETALIATED
      /\ y.abilityCounter = x.abilityCounter
  BY <1>2, <1>4, <1>5, <1>7 DEF Record
<1> QED
  BY <1>2, <1>4, <1>5, <1>6, <1>8 DEF y, k, rest

\* A wounded stack that does not grow stays sound, and the dead are noticed.
LEMMA HitSound ==
  ASSUME NEW s \in Stacks, NEW x \in Record, NEW dam \in Int, Sound(s, x), Lies(x),
         s \notin Dodgers => dam >= 0,
         Hit(s, x, dam).quantity <= x.quantity
  PROVE  Sound(s, Hit(s, x, dam)) /\ Lies(Hit(s, x, dam))
<1> DEFINE y == Hit(s, x, dam)
<1>1. /\ y \in Record /\ y.damage < Hp[s] /\ y.damage > -Hp[s]
      /\ dam >= 0 => y.damage >= 0
      /\ y.DEAD <=> x.DEAD \/ y.quantity = 0
  BY HitRecord
<1>2. y.quantity <= x.quantity
  OBVIOUS
<1> HIDE DEF y
<1>3. y.quantity \in Nat /\ x.quantity \in Nat /\ Initial[s] \in Nat
  BY <1>1, StacksAssumption DEF Record
<1>4. s \notin Ghosts => y.quantity <= Initial[s]
  BY <1>2, <1>3 DEF Sound
<1>5. Sound(s, y)
  BY <1>1, <1>4 DEF Sound
<1>6. Lies(y)
  BY <1>1, <1>2, <1>3 DEF Lies
<1> QED
  BY <1>5, <1>6 DEF y

\* The only blow that makes a creature: dodged, by one whose dodges have healed it by
\* a creature's life.
Makes(s, x) ==
  s \in Dodgers /\ x.abilityCounter = 1 /\ Quotient(x.damage + (-2), Hp[s]) < 0

\* What DamageEnemy makes of the record x of stack s.
Hurt(s, x, blow, isRetaliation) ==
  IF s \in Dodgers /\ x.abilityCounter = 1 /\ ~isRetaliation
    THEN Hit(s, [x EXCEPT !.abilityCounter = 0], x.damage + (-2))
    ELSE Hit(s, x, x.damage + blow)

LEMMA DamageEnemyIsHurt ==
  ASSUME NEW st \in [here -> Record], NEW t \in here, NEW blow \in Blows,
         NEW isRetaliation \in BOOLEAN
  PROVE  DamageEnemy(st, t, blow, isRetaliation)
           = [st EXCEPT ![t] = Hurt(t, st[t], blow, isRetaliation)]
<1> DEFINE ready == [st EXCEPT ![t].abilityCounter = 0]
<1>1. ready[t] = [st[t] EXCEPT !.abilityCounter = 0] /\ ready[t].damage = st[t].damage
  BY DEF Record
<1>3. Damage(ready, t, -2, "none", 0) = [ready EXCEPT ![t] = Hit(t, ready[t], ready[t].damage + (-2))]
  <2>1. PICK m \in Int : m = -2
    OBVIOUS
  <2>2. Damage(ready, t, m, "none", 0) = [ready EXCEPT ![t] = Hit(t, ready[t], ready[t].damage + m)]
    BY BlowIsHit, Zenon
  <2> QED
    BY <2>1, <2>2
<1>4. Damage(st, t, blow, "none", 0) = [st EXCEPT ![t] = Hit(t, st[t], st[t].damage + blow)]
  BY BlowIsHit
<1>5. \A w : [ready EXCEPT ![t] = w] = [st EXCEPT ![t] = w]
  OBVIOUS
<1> HIDE DEF ready
<1>6. CASE Dodges(st, t, isRetaliation)
  <2>1. DamageEnemy(st, t, blow, isRetaliation) = Damage(ready, t, -2, "none", 0)
    BY <1>6, Zenon DEF DamageEnemy, ready
  <2>2. Hurt(t, st[t], blow, isRetaliation) = Hit(t, ready[t], ready[t].damage + (-2))
    BY <1>1, <1>6, Zenon DEF Dodges, Hurt
  <2> QED
    BY <1>3, <1>5, <2>1, <2>2
<1>7. CASE ~Dodges(st, t, isRetaliation)
  <2>1. DamageEnemy(st, t, blow, isRetaliation) = Damage(st, t, blow, "none", 0)
    BY <1>7, Zenon DEF DamageEnemy
  <2>2. Hurt(t, st[t], blow, isRetaliation) = Hit(t, st[t], st[t].damage + blow)
    BY <1>7, Zenon DEF Dodges, Hurt
  <2> QED
    BY <1>4, <2>1, <2>2
<1> QED
  BY <1>6, <1>7

LEMMA HurtSound ==
  ASSUME NEW s \in Stacks, NEW x \in Record, NEW blow \in Blows,
         NEW isRetaliation \in BOOLEAN, Sound(s, x), Lies(x),
         isRetaliation \/ ~Makes(s, x)
  PROVE  LET y == Hurt(s, x, blow, isRetaliation)
         IN /\ Sound(s, y) /\ Lies(y)
            /\ y.quantity <= x.quantity /\ y.temporaryQty = x.temporaryQty
            /\ y.RETALIATED = x.RETALIATED
<1>1. /\ blow \in Int /\ blow > 0 /\ Hp[s] \in Nat \ {0} /\ x.damage \in Int
      /\ x.abilityCounter \in {0, 1} /\ x.damage > -Hp[s]
  BY StacksAssumption DEF Record, Sound
<1>5. CASE s \in Dodgers /\ x.abilityCounter = 1 /\ ~isRetaliation
  <2> DEFINE z == [x EXCEPT !.abilityCounter = 0]
             dam == x.damage + (-2)
  <2>1. /\ z \in Record /\ z.damage = x.damage /\ z.quantity = x.quantity
        /\ z.temporaryQty = x.temporaryQty
        /\ z.RETALIATED = x.RETALIATED /\ z.DEAD = x.DEAD
    BY DEF Record
  <2>2. dam \in Int /\ Quotient(dam, Hp[s]) \in Int /\ ~(Quotient(dam, Hp[s]) < 0)
    <3>1. dam \in Int
      BY <1>1
    <3>2. ~(Quotient(dam, Hp[s]) < 0)
      BY <1>5, Zenon DEF Makes
    <3> HIDE DEF dam
    <3> QED
      BY <1>1, <3>1, <3>2, Division
  <2>3. Hurt(s, x, blow, isRetaliation) = Hit(s, z, dam)
    BY <1>5, Zenon DEF Hurt
  <2> HIDE DEF z, dam
  <2>4. Sound(s, z) /\ Lies(z)
    BY <2>1 DEF Lies, Sound
  <2>5. /\ Hit(s, z, dam).quantity <= z.quantity
        /\ Hit(s, z, dam).temporaryQty = z.temporaryQty
        /\ Hit(s, z, dam).RETALIATED = z.RETALIATED
    BY <2>1, <2>2, HitRecord
  <2> QED
    BY <1>5, <2>1, <2>2, <2>3, <2>4, <2>5, HitSound
<1>6. CASE ~(s \in Dodgers /\ x.abilityCounter = 1 /\ ~isRetaliation)
  <2> DEFINE dam == x.damage + blow
  <2>1. dam \in Int /\ dam > -Hp[s]
    BY <1>1
  <2>2. s \notin Dodgers => dam >= 0
    BY <1>1 DEF Sound
  <2>3. Hurt(s, x, blow, isRetaliation) = Hit(s, x, dam)
    BY <1>6, Zenon DEF Hurt
  <2> HIDE DEF dam
  <2>4. /\ Hit(s, x, dam).quantity <= x.quantity
        /\ Hit(s, x, dam).temporaryQty = x.temporaryQty
        /\ Hit(s, x, dam).RETALIATED = x.RETALIATED
    BY <2>1, HitRecord
  <2> QED
    BY <2>1, <2>2, <2>3, <2>4, HitSound
<1> QED
  BY <1>5, <1>6

\* What Feed makes of the record x of stack s.
Fed(s, x, kills, hp) ==
  LET drain == kills * hp
      life == drain - x.damage
  IN IF s \in Ghosts THEN [x EXCEPT !.quantity = @ + kills]
     ELSE IF s \notin VampireLords THEN x
     ELSE IF life < 0 THEN [x EXCEPT !.damage = @ - drain]
     ELSE [x EXCEPT !.damage = 0,
                    !.quantity = Least(Initial[s], @ + Quotient(life, Hp[s]))]

LEMMA FeedIsFed ==
  ASSUME NEW st \in [here -> Record], NEW s \in here, NEW kills, NEW victim
  PROVE  Feed(st, s, kills, victim) = [st EXCEPT ![s] = Fed(s, st[s], kills, Hp[victim])]
BY DEF Feed, Fed

LEMMA FedSound ==
  ASSUME NEW s \in Stacks, NEW x \in Record, NEW kills \in Nat,
         NEW hp \in Nat, Sound(s, x), Lies(x), x.quantity > 0
  PROVE  LET y == Fed(s, x, kills, hp)
         IN /\ Sound(s, y) /\ Lies(y) /\ y.quantity > 0
            /\ y.temporaryQty = x.temporaryQty /\ y.RETALIATED = x.RETALIATED
            /\ s \notin Feeders => y = x
<1> DEFINE drain == kills * hp
           life == drain - x.damage
           y == Fed(s, x, kills, hp)
<1>1. /\ drain \in Nat /\ x.damage \in Int /\ x.quantity \in Nat
      /\ Hp[s] \in Nat \ {0} /\ Initial[s] \in Nat \ {0} /\ ~x.DEAD
  BY StacksAssumption DEF Record, Lies
<1> HIDE DEF drain
<1>2. CASE s \in Ghosts
  <2>1. y = [x EXCEPT !.quantity = @ + kills]
    BY <1>2 DEF Fed
  <2>2. /\ y \in Record /\ y.quantity = x.quantity + kills /\ y.damage = x.damage
        /\ y.abilityCounter = x.abilityCounter /\ y.DEAD = x.DEAD
        /\ y.temporaryQty = x.temporaryQty /\ y.RETALIATED = x.RETALIATED
    BY <1>1, <2>1 DEF Record
  <2> HIDE DEF y
  <2>3. y.quantity > 0 /\ y.quantity # 0
    BY <1>1, <2>2
  <2>4. Lies(y)
    BY <1>1, <2>2, <2>3 DEF Lies
  <2> QED
    BY <1>2, <2>2, <2>3, <2>4 DEF Sound, y, Feeders
<1>3. CASE s \notin Ghosts /\ s \notin VampireLords
  BY <1>3 DEF Fed, Feeders
<1>4. CASE s \in VampireLords
  <2>0. s \notin Ghosts /\ s \notin Dodgers /\ s \in Feeders
    BY <1>4, StacksAssumption DEF Feeders
  <2>1. CASE life < 0
    <3>1. y = [x EXCEPT !.damage = @ - drain]
      BY <1>4, <2>0, <2>1 DEF Fed, drain
    <3>2. /\ y \in Record /\ y.quantity = x.quantity /\ y.damage = x.damage - drain
          /\ y.abilityCounter = x.abilityCounter /\ y.DEAD = x.DEAD
          /\ y.temporaryQty = x.temporaryQty /\ y.RETALIATED = x.RETALIATED
      BY <1>1, <3>1 DEF Record
    <3> HIDE DEF y
    <3>3. y.damage >= 0 /\ y.damage < Hp[s] /\ y.damage > -Hp[s]
      BY <1>1, <2>1, <3>2 DEF Sound
    <3> QED
      BY <2>0, <3>2, <3>3 DEF Sound, Lies, y
  <2>2. CASE ~(life < 0)
    <3> DEFINE new == Least(Initial[s], x.quantity + Quotient(life, Hp[s]))
    <3>1. y = [x EXCEPT !.damage = 0, !.quantity = new]
      BY <1>4, <2>0, <2>2 DEF Fed, drain
    <3>2. Quotient(life, Hp[s]) \in Nat
      <4>1. life \in Int /\ life > -Hp[s]
        BY <1>1, <2>2
      <4>2. Quotient(life, Hp[s]) \in Int /\ Quotient(life, Hp[s]) >= 0
        BY <1>1, <4>1, Division
      <4> QED
        BY <4>2
    <3>3. new \in Nat /\ new > 0 /\ new <= Initial[s]
      BY <1>1, <3>2 DEF Least
    <3> HIDE DEF new, y
    <3>4. y = [quantity |-> new, damage |-> 0, temporaryQty |-> x.temporaryQty,
               DEAD |-> x.DEAD, RETALIATED |-> x.RETALIATED,
               abilityCounter |-> x.abilityCounter]
      BY <3>1 DEF Record
    <3>5. /\ y \in Record /\ y.quantity = new /\ y.damage = 0
          /\ y.abilityCounter = x.abilityCounter /\ y.DEAD = x.DEAD
          /\ y.temporaryQty = x.temporaryQty /\ y.RETALIATED = x.RETALIATED
      BY <3>4, <3>3 DEF Record
    <3>6. Lies(y)
      BY <1>1, <3>3, <3>5 DEF Lies
    <3>7. Sound(s, y)
      BY <1>1, <2>0, <3>3, <3>5 DEF Sound
    <3> QED
      BY <2>0, <3>3, <3>5, <3>6, <3>7 DEF y
  <2> QED
    BY <2>1, <2>2
<1> QED
  BY <1>2, <1>3, <1>4

-----------------------------------------------------------------------------
(* An exchange of blows, for the records of all stacks *)

Good(st) ==
  /\ st \in [here -> Record]
  /\ \A x \in here : Sound(x, st[x]) /\ Lies(st[x])

\* One direction of DoAttack: who is struck is hurt, the other feeds on the fallen,
\* and nobody else is concerned.
LEMMA StrikeGood ==
  ASSUME NEW st, Good(st), here \subseteq Stacks,
         NEW s \in here, NEW t \in here, s # t, st[s].quantity > 0,
         NEW blow \in Blows, NEW isRetaliation \in BOOLEAN,
         isRetaliation \/ ~Makes(t, st[t])
  PROVE  LET new == Strike(st, s, t, blow, isRetaliation)
         IN /\ Good(new)
            /\ new[t] = Hurt(t, st[t], blow, isRetaliation)
            /\ new[s] = Fed(s, st[s], Kills(st, new, t), Hp[t])
            /\ \A x \in here \ {s, t} : new[x] = st[x]
            /\ \A x \in here : /\ new[x].temporaryQty = st[x].temporaryQty
                               /\ new[x].RETALIATED = st[x].RETALIATED
            /\ new[s].quantity > 0 /\ new[t].quantity <= st[t].quantity
            /\ s \notin Feeders => new[s] = st[s]
<1> DEFINE hurt == Hurt(t, st[t], blow, isRetaliation)
           hit == [st EXCEPT ![t] = hurt]
           kills == st[t].quantity - hurt.quantity
           fed == Fed(s, st[s], kills, Hp[t])
           new == [hit EXCEPT ![s] = fed]
<1>1. /\ st \in [here -> Record] /\ st[s] \in Record /\ st[t] \in Record
      /\ Sound(s, st[s]) /\ Lies(st[s]) /\ Sound(t, st[t]) /\ Lies(st[t])
      /\ s \in Stacks /\ t \in Stacks /\ Hp[t] \in Nat
  BY StacksAssumption DEF Good
<1>2. /\ Sound(t, hurt) /\ Lies(hurt)
      /\ hurt.quantity <= st[t].quantity /\ hurt.temporaryQty = st[t].temporaryQty
      /\ hurt.RETALIATED = st[t].RETALIATED
  BY <1>1, HurtSound
<1>3. hurt \in Record /\ hit \in [here -> Record] /\ kills \in Nat
  <2>1. hurt \in Record
    BY <1>2 DEF Sound
  <2> HIDE DEF hurt
  <2>2. hurt.quantity \in Nat /\ st[t].quantity \in Nat
    BY <1>1, <2>1 DEF Record
  <2> QED
    BY <1>1, <1>2, <2>1, <2>2
<1>4. /\ Sound(s, fed) /\ Lies(fed) /\ fed.quantity > 0
      /\ fed.temporaryQty = st[s].temporaryQty /\ fed.RETALIATED = st[s].RETALIATED
      /\ s \notin Feeders => fed = st[s]
  BY <1>1, <1>3, FedSound
<1>5. Strike(st, s, t, blow, isRetaliation) = new
  <2>1. DamageEnemy(st, t, blow, isRetaliation) = hit
    BY <1>1, DamageEnemyIsHurt
  <2>2. hit[t] = hurt /\ hit[s] = st[s]
    BY <1>1
  <2>3. Kills(st, hit, t) = kills
    BY <2>2 DEF Kills
  <2> HIDE DEF hurt, kills, hit
  <2>4. Feed(hit, s, kills, t) = [hit EXCEPT ![s] = Fed(s, hit[s], kills, Hp[t])]
    BY <1>3, FeedIsFed
  <2> QED
    BY <2>1, <2>2, <2>3, <2>4 DEF Strike
<1> HIDE DEF hurt, fed
<1>6. fed \in Record
  BY <1>4 DEF Sound
<1>7. /\ new \in [here -> Record] /\ new[t] = hurt /\ new[s] = fed
      /\ \A x \in here \ {s, t} : new[x] = st[x]
  BY <1>1, <1>3, <1>6
<1>8. Kills(st, new, t) = kills
  BY <1>7 DEF Kills
<1> HIDE DEF new, kills
<1>9. Good(new)
  BY <1>2, <1>4, <1>7 DEF Good
<1>10. \A x \in here : /\ new[x].temporaryQty = st[x].temporaryQty
                        /\ new[x].RETALIATED = st[x].RETALIATED
  BY <1>2, <1>4, <1>7
<1> QED
  BY <1>2, <1>4, <1>5, <1>7, <1>8, <1>9, <1>10 DEF hurt, fed

\* The answer of t, which lives, to s.
LEMMA RetaliateGood ==
  ASSUME NEW st, Good(st), here \subseteq Stacks,
         NEW s \in here, NEW t \in here, s # t, st[t].quantity > 0,
         NEW blow \in Blows
  PROVE  LET new == Retaliate(st, s, t, blow)
         IN /\ Good(new)
            /\ new[s].quantity <= st[s].quantity
            /\ \A x \in here \ {s, t} : new[x] = st[x]
            /\ \A x \in here : new[x].temporaryQty = st[x].temporaryQty
            /\ t \notin Feeders => new[t].quantity = st[t].quantity /\ new[t].damage = st[t].damage
            /\ t \in VampireLords =>
                 LET fed == Fed(t, st[t], Kills(st, new, s), Hp[s])
                 IN new[t].quantity = fed.quantity /\ new[t].damage = fed.damage
            /\ ~gbRemoteOn /\ t \notin VampireLords =>
                 new[s].quantity + new[t].quantity <= st[s].quantity + st[t].quantity
<1> DEFINE back == Strike(st, t, s, blow, TRUE)
           more == IF gbRemoteOn /\ t \in Ghosts THEN Kills(st, back, s) ELSE 0
           answered == [back[t] EXCEPT !.RETALIATED = TRUE, !.quantity = @ + more]
           new == [back EXCEPT ![t] = answered]
<1>1. /\ Good(back)
      /\ back[s] = Hurt(s, st[s], blow, TRUE)
      /\ back[t] = Fed(t, st[t], Kills(st, back, s), Hp[s])
      /\ \A x \in here \ {s, t} : back[x] = st[x]
      /\ \A x \in here : back[x].temporaryQty = st[x].temporaryQty
      /\ back[t].quantity > 0 /\ back[s].quantity <= st[s].quantity
      /\ t \notin Feeders => back[t] = st[t]
  <2>1. t # s
    OBVIOUS
  <2>2. PICK yes \in BOOLEAN : yes = TRUE
    OBVIOUS
  <2> DEFINE hit == Strike(st, t, s, blow, yes)
  <2>3. /\ Good(hit)
        /\ hit[s] = Hurt(s, st[s], blow, yes)
        /\ hit[t] = Fed(t, st[t], Kills(st, hit, s), Hp[s])
        /\ \A x \in here \ {t, s} : hit[x] = st[x]
        /\ \A x \in here : hit[x].temporaryQty = st[x].temporaryQty
        /\ hit[t].quantity > 0 /\ hit[s].quantity <= st[s].quantity
        /\ t \notin Feeders => hit[t] = st[t]
    <3>1. yes \/ ~Makes(s, st[s])
      BY <2>2, Zenon
    <3> QED
      BY <2>1, <3>1, StrikeGood
  <2>4. back = hit /\ Hurt(s, st[s], blow, yes) = Hurt(s, st[s], blow, TRUE)
    BY <2>2
  <2> HIDE DEF back, hit
  <2> QED
    BY <2>3, <2>4
<1> HIDE DEF back
<1>2. /\ back \in [here -> Record] /\ back[s] \in Record /\ back[t] \in Record
      /\ st[s] \in Record /\ st[t] \in Record /\ t \in Stacks
  BY <1>1 DEF Good
<1>3. /\ Kills(st, back, s) \in Nat /\ more \in Nat
      /\ Kills(st, back, s) = st[s].quantity - back[s].quantity
      /\ back[t].quantity \in Nat \ {0} /\ st[t].quantity \in Nat
      /\ back[s].quantity \in Nat /\ st[s].quantity \in Nat
  <2>1. /\ back[s].quantity \in Nat /\ st[s].quantity \in Nat
        /\ back[t].quantity \in Nat /\ st[t].quantity \in Nat
    BY <1>2 DEF Record
  <2>2. Kills(st, back, s) = st[s].quantity - back[s].quantity
    BY DEF Kills
  <2>3. Kills(st, back, s) \in Nat
    <3>1. back[s].quantity <= st[s].quantity
      BY <1>1
    <3> QED
      BY <2>1, <2>2, <3>1
  <2>4. more \in Nat
    BY <2>3
  <2>5. back[t].quantity \in Nat \ {0}
    BY <1>1, <2>1
  <2> QED
    BY <2>1, <2>2, <2>3, <2>4, <2>5
<1>4. Retaliate(st, s, t, blow) = new
  <2> DEFINE marked == [back EXCEPT ![t].RETALIATED = TRUE]
  <2>1. CASE gbRemoteOn /\ t \in Ghosts
    <3>1. Retaliate(st, s, t, blow) = [marked EXCEPT ![t].quantity = @ + Kills(st, back, s)]
      BY <2>1 DEF Retaliate, back
    <3>2. more = Kills(st, back, s)
      BY <2>1
    <3> HIDE DEF more
    <3>3. marked \in [here -> Record] /\ marked[t] = [back[t] EXCEPT !.RETALIATED = TRUE]
      BY <1>2 DEF Record
    <3>4. \A w : [marked EXCEPT ![t] = w] = [back EXCEPT ![t] = w]
      BY <1>2
    <3> HIDE DEF more, marked
    <3>5. [marked EXCEPT ![t].quantity = @ + more]
            = [marked EXCEPT ![t] = [marked[t] EXCEPT !.quantity = @ + more]]
      BY <3>3
    <3>6. [marked[t] EXCEPT !.quantity = @ + more] = answered
      BY <1>2, <3>3 DEF Record
    <3> HIDE DEF answered
    <3> QED
      BY <3>1, <3>2, <3>4, <3>5, <3>6
  <2>2. CASE ~(gbRemoteOn /\ t \in Ghosts)
    <3>1. Retaliate(st, s, t, blow) = marked
      BY <2>2, Zenon DEF Retaliate, back
    <3>2. more = 0 /\ back[t].quantity + 0 = back[t].quantity
      BY <1>3, <2>2
    <3> HIDE DEF more
    <3>3. answered = [back[t] EXCEPT !.RETALIATED = TRUE]
      BY <1>2, <3>2 DEF Record
    <3> HIDE DEF answered
    <3> QED
      BY <1>2, <3>1, <3>3
  <2> QED
    BY <2>1, <2>2
<1>5. /\ answered \in Record /\ answered.quantity = back[t].quantity + more
      /\ answered.damage = back[t].damage /\ answered.DEAD = back[t].DEAD
      /\ answered.temporaryQty = back[t].temporaryQty
      /\ answered.abilityCounter = back[t].abilityCounter
  <2> HIDE DEF more
  <2> DEFINE z == [back[t] EXCEPT !.RETALIATED = TRUE]
  <2>1. /\ z \in Record /\ z.quantity = back[t].quantity
        /\ z.damage = back[t].damage /\ z.DEAD = back[t].DEAD
        /\ z.temporaryQty = back[t].temporaryQty
        /\ z.abilityCounter = back[t].abilityCounter
    BY <1>2 DEF Record
  <2>2. answered = [z EXCEPT !.quantity = @ + more]
    BY <1>2 DEF Record
  <2>3. z.quantity + more \in Nat
    BY <1>3, <2>1
  <2> HIDE DEF answered, z
  <2> QED
    BY <2>1, <2>2, <2>3 DEF Record
<1>6. t \notin Ghosts => more = 0
  OBVIOUS
<1> HIDE DEF more, answered
<1>7. Sound(t, answered)
  <2>1. Sound(t, back[t])
    BY <1>1 DEF Good
  <2>2. t \notin Ghosts => answered.quantity = back[t].quantity
    BY <1>3, <1>5, <1>6
  <2> QED
    BY <1>5, <2>1, <2>2 DEF Sound
<1>8. Lies(answered)
  <2>1. Lies(back[t]) /\ back[t].quantity # 0
    BY <1>1, <1>3 DEF Good
  <2>2. answered.quantity # 0
    BY <1>3, <1>5
  <2> QED
    BY <1>5, <2>1, <2>2 DEF Lies
<1>9. /\ new \in [here -> Record] /\ new[t] = answered /\ new[s] = back[s]
      /\ \A x \in here \ {s, t} : new[x] = st[x]
  BY <1>1, <1>2, <1>5
<1> HIDE DEF new
<1>10. Good(new)
  BY <1>1, <1>7, <1>8, <1>9 DEF Good
<1>11. \A x \in here : new[x].temporaryQty = st[x].temporaryQty
  BY <1>1, <1>5, <1>9
<1>12. ASSUME t \notin Feeders
       PROVE  new[t].quantity = st[t].quantity /\ new[t].damage = st[t].damage
  <2>1. more = 0 /\ back[t] = st[t]
    BY <1>1, <1>6, <1>12 DEF Feeders
  <2>2. back[t].quantity + more = st[t].quantity
    BY <1>3, <2>1
  <2> QED
    BY <1>5, <1>9, <2>1, <2>2
<1>13. ASSUME ~gbRemoteOn, t \notin VampireLords
       PROVE  new[s].quantity + new[t].quantity <= st[s].quantity + st[t].quantity
  <2>1. more = 0
    BY <1>13 DEF more
  <2>2. CASE t \in Ghosts
    <3>1. back[t] = [st[t] EXCEPT !.quantity = @ + Kills(st, back, s)]
      BY <1>1, <2>2 DEF Fed
    <3>2. back[t].quantity = st[t].quantity + Kills(st, back, s)
      BY <1>2, <3>1 DEF Record
    <3> QED
      BY <1>3, <1>5, <1>9, <2>1, <3>2
  <2>3. CASE t \notin Ghosts
    <3>1. new[t].quantity = st[t].quantity
      BY <1>12, <1>13, <2>3 DEF Feeders
    <3>2. new[s].quantity \in Nat /\ new[s].quantity <= st[s].quantity
      BY <1>1, <1>3, <1>9
    <3> QED
      BY <1>3, <3>1, <3>2
  <2> QED
    BY <2>2, <2>3
<1>14. ASSUME t \in VampireLords
       PROVE  LET fed == Fed(t, st[t], Kills(st, new, s), Hp[s])
              IN new[t].quantity = fed.quantity /\ new[t].damage = fed.damage
  <2>1. more = 0
    BY <1>6, <1>14, StacksAssumption
  <2>2. Kills(st, new, s) = Kills(st, back, s)
    BY <1>9 DEF Kills
  <2>3. back[t].quantity + more = back[t].quantity
    BY <1>3, <2>1
  <2> QED
    BY <1>1, <1>5, <1>9, <2>2, <2>3
<1> QED
  BY <1>1, <1>4, <1>9, <1>10, <1>11, <1>12, <1>13, <1>14

\* The attack itself, and what it makes of its target.
Attack(st, s, t, blow) == Strike(st, s, t, blow, FALSE)
Struck(t, x, blow) == Hurt(t, x, blow, FALSE)

\* DoAttack: both stacks stay as they should be, and only these two change.
LEMMA DoAttackGood ==
  ASSUME Good(stack), here \subseteq Stacks,
         NEW s \in here, NEW t \in here, s # t, stack[s].quantity > 0,
         NEW blow \in Blows, NEW answer \in Blows, ~Makes(t, stack[t])
  PROVE  LET new == DoAttack(s, t, blow, answer)
         IN /\ Good(new)
            /\ \A x \in here : new[x].temporaryQty = stack[x].temporaryQty
            /\ \A x \in here \ {s, t} : new[x] = stack[x]
            /\ t \notin Feeders => LET hurt == Struck(t, stack[t], blow)
                            IN new[t].quantity = hurt.quantity /\ new[t].damage = hurt.damage
            /\ s \in VampireLords => new = Attack(stack, s, t, blow)
            /\ s \notin Feeders => new[s].quantity <= stack[s].quantity
            /\ s \notin Feeders /\ t \in VampireLords =>
                 LET hurt == Struck(t, stack[t], blow)
                     fed == Fed(t, hurt, Kills(stack, new, s), Hp[s])
                 IN \/ new[t] = hurt
                    \/ /\ hurt.quantity > 0
                       /\ new[t].quantity = fed.quantity /\ new[t].damage = fed.damage
            /\ ~gbRemoteOn /\ {s, t} \cap VampireLords = {} =>
                 new[s].quantity + new[t].quantity <= stack[s].quantity + stack[t].quantity
<1> DEFINE new == DoAttack(s, t, blow, answer)
<1>1. PICK no \in BOOLEAN : no = FALSE
  OBVIOUS
<1> DEFINE struck == Strike(stack, s, t, blow, no)
<1>0. no \/ ~Makes(t, stack[t])
  OBVIOUS
<1>2. /\ Good(struck)
      /\ struck[t] = Hurt(t, stack[t], blow, no)
      /\ struck[s] = Fed(s, stack[s], Kills(stack, struck, t), Hp[t])
      /\ \A x \in here \ {s, t} : struck[x] = stack[x]
      /\ \A x \in here : struck[x].temporaryQty = stack[x].temporaryQty
      /\ struck[s].quantity > 0 /\ struck[t].quantity <= stack[t].quantity
      /\ s \notin Feeders => struck[s] = stack[s]
  BY <1>0, StrikeGood
<1>3. Attack(stack, s, t, blow) = struck /\ Struck(t, stack[t], blow) = struck[t]
  BY <1>1, <1>2 DEF Attack, Struck
<1> HIDE DEF struck
<1>4. /\ stack[s].quantity \in Nat /\ stack[t].quantity \in Nat
      /\ struck[s].quantity \in Nat /\ struck[t].quantity \in Nat /\ stack[s] \in Record
  BY <1>2 DEF Good, Record
<1>5. ASSUME {s, t} \cap VampireLords = {}
      PROVE  struck[s].quantity + struck[t].quantity <= stack[s].quantity + stack[t].quantity
  <2>1. Kills(stack, struck, t) = stack[t].quantity - struck[t].quantity
    BY DEF Kills
  <2>2. CASE s \in Ghosts
    <3>1. struck[s] = [stack[s] EXCEPT !.quantity = @ + Kills(stack, struck, t)]
      BY <1>2, <2>2 DEF Fed
    <3>2. struck[s].quantity = stack[s].quantity + Kills(stack, struck, t)
      BY <1>4, <3>1 DEF Record
    <3> QED
      BY <1>4, <2>1, <3>2
  <2>3. CASE s \notin Ghosts
    <3>1. struck[s].quantity = stack[s].quantity /\ struck[t].quantity <= stack[t].quantity
      BY <1>2, <1>5, <2>3 DEF Feeders
    <3> QED
      BY <1>4, <3>1
  <2> QED
    BY <2>2, <2>3
<1>6. CASE struck[t].quantity > 0 /\ ~struck[t].RETALIATED /\ s \notin VampireLords
  <2> DEFINE back == Retaliate(struck, s, t, answer)
  <2>1. /\ Good(back)
        /\ \A x \in here \ {s, t} : back[x] = struck[x]
        /\ \A x \in here : back[x].temporaryQty = struck[x].temporaryQty
        /\ t \notin Feeders => back[t].quantity = struck[t].quantity /\ back[t].damage = struck[t].damage
        /\ back[s].quantity <= struck[s].quantity
        /\ t \in VampireLords =>
             LET fed == Fed(t, struck[t], Kills(struck, back, s), Hp[s])
             IN back[t].quantity = fed.quantity /\ back[t].damage = fed.damage
        /\ ~gbRemoteOn /\ t \notin VampireLords =>
             back[s].quantity + back[t].quantity <= struck[s].quantity + struck[t].quantity
    <3>1. Good(struck) /\ struck[t].quantity > 0
      BY <1>2, <1>6
    <3> QED
      BY <3>1, RetaliateGood
  <2>2. new = back
    BY <1>3, <1>6, Zenon DEF DoAttack, Attack
  <2> HIDE DEF new, back
  <2>3. back[s].quantity \in Nat /\ back[t].quantity \in Nat
    BY <2>1 DEF Good, Record
  <2>4. ASSUME ~gbRemoteOn, {s, t} \cap VampireLords = {}
        PROVE  back[s].quantity + back[t].quantity <= stack[s].quantity + stack[t].quantity
    <3>1. back[s].quantity + back[t].quantity <= struck[s].quantity + struck[t].quantity
      BY <2>1, <2>4
    <3> QED
      BY <1>4, <1>5, <2>3, <2>4, <3>1
  <2>5. ASSUME s \notin Feeders
        PROVE  Kills(struck, back, s) = Kills(stack, back, s)
    BY <1>2, <2>5 DEF Kills
  <2> QED
    BY <1>2, <1>3, <1>6, <2>1, <2>2, <2>4, <2>5 DEF new
<1>7. CASE ~(struck[t].quantity > 0 /\ ~struck[t].RETALIATED /\ s \notin VampireLords)
  <2>1. new = struck
    BY <1>3, <1>7, Zenon DEF DoAttack, Attack
  <2> HIDE DEF new
  <2>2. s \notin Feeders => new[s].quantity <= stack[s].quantity
    BY <1>2, <1>4, <2>1
  <2> QED
    BY <1>2, <1>3, <1>5, <2>1, <2>2 DEF new
<1> QED
  BY <1>6, <1>7

\* And where a dodged blow makes a creature: of each stack there is still a record, and
\* the others are not more than they were.
LEMMA HurtRecord ==
  ASSUME NEW s \in Stacks, NEW x \in Record, NEW blow \in Blows,
         NEW isRetaliation \in BOOLEAN
  PROVE  LET y == Hurt(s, x, blow, isRetaliation)
         IN /\ y \in Record
            /\ Sound(s, x) => y.quantity <= x.quantity + 1
            /\ Sound(s, x) /\ s \notin Dodgers => y.quantity <= x.quantity
<1>1. /\ blow \in Int /\ blow > 0 /\ Hp[s] \in Nat \ {0} /\ x.damage \in Int
      /\ x.quantity \in Nat
  BY StacksAssumption DEF Record
<1>2. CASE s \in Dodgers /\ x.abilityCounter = 1 /\ ~isRetaliation
  <2> DEFINE z == [x EXCEPT !.abilityCounter = 0]
             dam == x.damage + (-2)
  <2>1. z \in Record /\ z.quantity = x.quantity
    BY DEF Record
  <2>2. dam \in Int
    BY <1>1
  <2>3. Sound(s, x) => dam > -2 * Hp[s]
    <3>1. Hp[s] > 2
      BY <1>2, StacksAssumption
    <3> QED
      BY <1>1, <3>1 DEF Sound
  <2>4. Hurt(s, x, blow, isRetaliation) = Hit(s, z, dam)
    BY <1>2, Zenon DEF Hurt
  <2> HIDE DEF z, dam
  <2>5. /\ Hit(s, z, dam) \in Record
        /\ dam > -2 * Hp[s] => Hit(s, z, dam).quantity <= z.quantity + 1
    BY <2>1, <2>2, HitRecord
  <2> QED
    BY <1>2, <2>1, <2>3, <2>4, <2>5
<1>3. CASE ~(s \in Dodgers /\ x.abilityCounter = 1 /\ ~isRetaliation)
  <2> DEFINE dam == x.damage + blow
  <2>1. dam \in Int /\ (Sound(s, x) => dam > -Hp[s])
    BY <1>1 DEF Sound
  <2>2. Hurt(s, x, blow, isRetaliation) = Hit(s, x, dam)
    BY <1>3, Zenon DEF Hurt
  <2> HIDE DEF dam
  <2>3. /\ Hit(s, x, dam) \in Record
        /\ dam > -Hp[s] => Hit(s, x, dam).quantity <= x.quantity
    BY <2>1, HitRecord
  <2>4. Hit(s, x, dam).quantity \in Nat
    BY <2>3 DEF Record
  <2> QED
    BY <1>1, <2>1, <2>2, <2>3, <2>4
<1> QED
  BY <1>2, <1>3

LEMMA FedRecord ==
  ASSUME NEW s \in Stacks, NEW x \in Record, x.quantity > 0, NEW kills \in Int, kills >= -1,
         NEW hp \in Nat
  PROVE  LET y == Fed(s, x, kills, hp)
         IN /\ y \in Record
            /\ s \notin Ghosts => y.quantity <= Initial[s] \/ y.quantity <= x.quantity
            /\ s \notin Feeders => y = x
<1> DEFINE drain == kills * hp
           life == drain - x.damage
           y == Fed(s, x, kills, hp)
<1>1. /\ drain \in Int /\ x.damage \in Int /\ x.quantity \in Nat
      /\ Hp[s] \in Nat \ {0} /\ Initial[s] \in Nat \ {0}
  BY StacksAssumption DEF Record
<1> HIDE DEF drain
<1>2. CASE s \in Ghosts
  <2>1. y = [x EXCEPT !.quantity = @ + kills]
    BY <1>2 DEF Fed
  <2>2. x.quantity + kills \in Nat
    BY <1>1
  <2> QED
    BY <1>2, <2>1, <2>2 DEF Record, Feeders
<1>3. CASE s \notin Ghosts /\ s \notin VampireLords
  <2>1. y = x
    BY <1>3 DEF Fed
  <2> QED
    BY <1>1, <2>1
<1>4. CASE s \in VampireLords
  <2>0. s \notin Ghosts /\ s \in Feeders
    BY <1>4, StacksAssumption DEF Feeders
  <2>1. CASE life < 0
    <3>1. y = [x EXCEPT !.damage = @ - drain]
      BY <1>4, <2>0, <2>1 DEF Fed, drain
    <3>2. y \in Record /\ y.quantity = x.quantity
      BY <1>1, <3>1 DEF Record
    <3> HIDE DEF y
    <3> QED
      BY <1>1, <2>0, <3>2 DEF y
  <2>2. CASE ~(life < 0)
    <3> DEFINE new == Least(Initial[s], x.quantity + Quotient(life, Hp[s]))
    <3>1. y = [x EXCEPT !.damage = 0, !.quantity = new]
      BY <1>4, <2>0, <2>2 DEF Fed, drain
    <3>2. Quotient(life, Hp[s]) \in Int /\ Quotient(life, Hp[s]) >= 0
      <4>1. life \in Int /\ life > -Hp[s]
        BY <1>1, <2>2
      <4> QED
        BY <1>1, <4>1, Division
    <3>3. new \in Nat /\ new <= Initial[s]
      BY <1>1, <3>2 DEF Least
    <3> HIDE DEF new, y
    <3>4. y = [quantity |-> new, damage |-> 0, temporaryQty |-> x.temporaryQty,
               DEAD |-> x.DEAD, RETALIATED |-> x.RETALIATED,
               abilityCounter |-> x.abilityCounter]
      BY <3>1 DEF Record
    <3>5. y \in Record /\ y.quantity = new
      BY <3>4, <3>3 DEF Record
    <3> QED
      BY <2>0, <3>3, <3>5 DEF y
  <2> QED
    BY <2>1, <2>2
<1> QED
  BY <1>2, <1>3, <1>4

LEMMA StrikeIs ==
  ASSUME NEW st \in [here -> Record], here \subseteq Stacks, NEW s \in here, NEW t \in here, s # t,
         NEW blow \in Blows, NEW isRetaliation \in BOOLEAN
  PROVE  LET hurt == Hurt(t, st[t], blow, isRetaliation)
             fed == Fed(s, st[s], st[t].quantity - hurt.quantity, Hp[t])
             new == Strike(st, s, t, blow, isRetaliation)
         IN /\ new[t] = hurt /\ new[s] = fed /\ \A x \in here \ {s, t} : new[x] = st[x]
            /\ fed \in Record => new \in [here -> Record]
<1> DEFINE hurt == Hurt(t, st[t], blow, isRetaliation)
           hit == [st EXCEPT ![t] = hurt]
           kills == st[t].quantity - hurt.quantity
           fed == Fed(s, st[s], kills, Hp[t])
           new == [hit EXCEPT ![s] = fed]
<1>0. hurt \in Record /\ st \in [here -> Record]
  <2>1. t \in Stacks /\ st[t] \in Record /\ st \in [here -> Record]
    OBVIOUS
  <2> QED
    BY <2>1, HurtRecord
<1>1. DamageEnemy(st, t, blow, isRetaliation) = hit
  BY <1>0, DamageEnemyIsHurt
<1>2. hit[t] = hurt /\ hit[s] = st[s] /\ hit \in [here -> Record]
  BY <1>0
<1>3. Kills(st, hit, t) = kills
  BY <1>2 DEF Kills
<1> HIDE DEF hurt, kills, hit
<1>4. Feed(hit, s, kills, t) = [hit EXCEPT ![s] = Fed(s, hit[s], kills, Hp[t])]
  BY <1>2, FeedIsFed
<1>5. Strike(st, s, t, blow, isRetaliation) = new
  BY <1>1, <1>2, <1>3, <1>4 DEF Strike
<1> HIDE DEF fed
<1>6. new[t] = hurt /\ new[s] = fed /\ \A x \in here \ {s, t} : new[x] = st[x]
  BY <1>2 DEF hit
<1>7. fed \in Record => new \in [here -> Record]
  BY <1>2
<1> QED
  BY <1>5, <1>6, <1>7 DEF hurt, fed, kills

LEMMA MadeOne ==
  ASSUME Good(stack), here \subseteq Stacks, NEW s \in here, NEW t \in here, s # t,
         stack[s].quantity > 0, NEW blow \in Blows, NEW answer \in Blows, t \in Dodgers
  PROVE  LET new == DoAttack(s, t, blow, answer)
         IN /\ new \in [here -> Record]
            /\ \A x \in here \ (Ghosts \cup Dodgers) : new[x].quantity <= Initial[x]
<1>1. PICK no \in BOOLEAN, yes \in BOOLEAN : no = FALSE /\ yes = TRUE
  OBVIOUS
<1> DEFINE struck == Strike(stack, s, t, blow, no)
           hurt == Hurt(t, stack[t], blow, no)
           kills == stack[t].quantity - hurt.quantity
           fed == Fed(s, stack[s], kills, Hp[t])
           back == Strike(struck, t, s, answer, yes)
           new == DoAttack(s, t, blow, answer)
<1>2. /\ stack \in [here -> Record] /\ s \in Stacks /\ t \in Stacks
      /\ stack[s] \in Record /\ stack[t] \in Record
      /\ \A x \in here : /\ Sound(x, stack[x]) /\ stack[x].quantity \in Nat
                         /\ x \notin Ghosts => stack[x].quantity <= Initial[x]
                         /\ Initial[x] \in Nat /\ Hp[x] \in Nat
      /\ t \notin Ghosts /\ t \notin VampireLords
  BY StacksAssumption DEF Good, Sound, Record, Feeders
<1>3. hurt \in Record /\ hurt.quantity <= stack[t].quantity + 1
  BY <1>2, HurtRecord
<1>4. /\ struck[t] = hurt /\ struck[s] = fed /\ \A x \in here \ {s, t} : struck[x] = stack[x]
      /\ fed \in Record => struck \in [here -> Record]
  BY <1>2, StrikeIs
<1> HIDE DEF hurt
<1>5. kills \in Int /\ kills >= -1
  <2>1. hurt.quantity \in Nat /\ stack[t].quantity \in Nat
    BY <1>2, <1>3 DEF Record
  <2> QED
    BY <1>3, <2>1
<1> HIDE DEF kills
<1>6. /\ fed \in Record
      /\ s \notin Ghosts => fed.quantity <= Initial[s] \/ fed.quantity <= stack[s].quantity
      /\ s \notin Feeders => fed = stack[s]
  BY <1>2, <1>5, FedRecord
<1> HIDE DEF fed
<1>7. struck \in [here -> Record]
  BY <1>4, <1>6
<1>8. ASSUME NEW x \in here \ (Ghosts \cup Dodgers) PROVE struck[x].quantity <= Initial[x]
  <2>1. CASE x = s
    <3>1. fed.quantity \in Nat
      BY <1>6 DEF Record
    <3> QED
      BY <1>2, <1>4, <1>6, <2>1, <3>1
  <2>2. CASE x # s
    BY <1>2, <1>4, <2>2
  <2> QED
    BY <2>1, <2>2
<1>9. Attack(stack, s, t, blow) = struck
  BY <1>1 DEF Attack
<1> HIDE DEF struck
<1>10. CASE ~(struck[t].quantity > 0 /\ ~struck[t].RETALIATED /\ s \notin VampireLords)
  <2>1. new = struck
    BY <1>9, <1>10, Zenon DEF DoAttack, Attack
  <2> QED
    BY <1>7, <1>8, <2>1
<1>11. CASE struck[t].quantity > 0 /\ ~struck[t].RETALIATED /\ s \notin VampireLords
  <2> DEFINE sore == Hurt(s, struck[s], answer, yes)
             rest == Fed(t, struck[t], struck[s].quantity - sore.quantity, Hp[s])
             marked == [back EXCEPT ![t].RETALIATED = TRUE]
  <2>1. /\ back[s] = sore /\ back[t] = rest /\ \A x \in here \ {t, s} : back[x] = struck[x]
        /\ rest \in Record => back \in [here -> Record]
    BY <1>2, <1>7, StrikeIs
  <2>2. struck[s] \in Record /\ struck[t] \in Record
    BY <1>7
  <2>3. /\ sore \in Record
        /\ Sound(s, struck[s]) /\ s \notin Dodgers => sore.quantity <= struck[s].quantity
    BY <1>2, <2>2, HurtRecord
  <2>4. rest = struck[t]
    BY <1>2 DEF Fed
  <2> HIDE DEF sore, rest, back
  <2>5. back \in [here -> Record]
    BY <2>1, <2>2, <2>4
  <2>6. ASSUME NEW x \in here \ (Ghosts \cup Dodgers) PROVE back[x].quantity <= Initial[x]
    <3>1. CASE x = s
      <4>1. struck[s] = stack[s]
        BY <1>4, <1>6, <1>11, <2>6, <3>1 DEF Feeders
      <4>2. sore.quantity \in Nat /\ sore.quantity <= stack[s].quantity
        BY <1>2, <2>3, <2>6, <3>1, <4>1 DEF Record
      <4> QED
        BY <1>2, <2>1, <2>6, <3>1, <4>2
    <3>2. CASE x # s
      BY <1>8, <2>1, <2>4, <3>2
    <3> QED
      BY <3>1, <3>2
  <2>7. new = marked
    <3>1. back = Strike(struck, t, s, answer, TRUE)
      BY <1>1 DEF back
    <3>2. new = Retaliate(struck, s, t, answer)
      BY <1>9, <1>11, Zenon DEF DoAttack, Attack
    <3>3. Retaliate(struck, s, t, answer) = marked
      BY <1>2, <3>1, Zenon DEF Retaliate
    <3> QED
      BY <3>2, <3>3
  <2>8. marked \in [here -> Record] /\ \A x \in here : marked[x].quantity = back[x].quantity
    BY <2>5 DEF Record
  <2> HIDE DEF marked
  <2> QED
    BY <2>6, <2>7, <2>8
<1> QED
  BY <1>10, <1>11

-----------------------------------------------------------------------------
(* The invariant *)

StackType == [quantity : 0..QuantityLimit, damage : Int, temporaryQty : Nat, DEAD : BOOLEAN,
              RETALIATED : BOOLEAN, abilityCounter : {0, 1}]

\* TypeOK of the stacks: ghosts and dodgers are cut off by a guard, and no other
\* grows beyond its initial number.
LEMMA Within ==
  ASSUME here \subseteq Stacks, NEW st \in [here -> Record], WithinLimit(st),
         \A x \in here \ (Ghosts \cup Dodgers) : st[x].quantity <= Initial[x]
  PROVE  st \in [here -> StackType]
<1>1. ASSUME NEW x \in here PROVE st[x] \in StackType
  <2>1. /\ st[x] \in Record /\ st[x].quantity \in Nat /\ QuantityLimit \in Nat
        /\ Initial[x] \in Nat /\ Initial[x] <= QuantityLimit
    BY StacksAssumption, BoundsAssumption DEF Record
  <2>2. st[x].quantity <= QuantityLimit
    <3>1. CASE x \in Ghosts \cup Dodgers
      BY <3>1 DEF WithinLimit
    <3>2. CASE x \notin Ghosts \cup Dodgers
      BY <2>1, <3>2
    <3> QED
      BY <3>1, <3>2
  <2>3. st[x].quantity \in 0..QuantityLimit
    BY <2>1, <2>2
  <2> QED
    BY <2>1, <2>3 DEF Record, StackType
<1> QED
  BY <1>1

\* The accounts of one stack, as the invariant and the actions speak of them.
Balanced(s, gone, x) ==
  Counted(s) => /\ gone + x.quantity = Own(s) + x.temporaryQty
                /\ s \in Pandora => x.temporaryQty >= Initial[s]

\* What an action of the battle has to show, if it makes no creature.
LEMMA BattleGoesOn ==
  ASSUME Inv, ~over, UNCHANGED <<here, gbRemoteOn, over, armies>>, intact' = TRUE,
         round' \in 1..RoundLimit, hasCast' \subseteq {0, 1},
         Good(stack'), WithinLimit(stack'),
         lost' \in [here -> Int], \A x \in here : Balanced(x, lost'[x], stack'[x])
  PROVE  Inv'
<1>1. /\ here \in Lineups /\ here \subseteq Stacks /\ gbRemoteOn \in BOOLEAN /\ over = FALSE
      /\ armies \in [here -> 0..QuantityLimit] /\ intact' \in BOOLEAN
  BY StacksAssumption DEF Inv, TypeOK
<1>2. /\ stack' \in [here -> Record]
      /\ \A x \in here : /\ Sound(x, stack'[x]) /\ Lies(stack'[x])
                         /\ x \notin Ghosts => stack'[x].quantity <= Initial[x]
  BY DEF Good, Sound
<1>3. stack' \in [here -> StackType]
  BY <1>1, <1>2, Within
<1>4. TypeOK'
  BY <1>1, <1>3 DEF TypeOK, StackType
<1>5. DeadAreNone' /\ OnlyGhostsOutgrow'
  BY <1>2 DEF DeadAreNone, Lies, OnlyGhostsOutgrow
<1>6. \A x \in here : Accounted(x)'
  BY DEF Accounted, Balanced, Counted, Own
<1>7. OnlyTheUnraisedGoHome'
  BY DEF OnlyTheUnraisedGoHome
<1> QED
  BY <1>2, <1>4, <1>5, <1>6, <1>7 DEF Inv

\* And if it does.
LEMMA BattleBreaks ==
  ASSUME Inv, ~over, UNCHANGED <<here, gbRemoteOn, over, armies>>, intact' = FALSE,
         round' \in 1..RoundLimit, hasCast' \subseteq {0, 1},
         stack' \in [here -> Record], WithinLimit(stack'), lost' \in [here -> Int],
         \A x \in here \ (Ghosts \cup Dodgers) : stack'[x].quantity <= Initial[x]
  PROVE  Inv'
<1>1. /\ here \in Lineups /\ here \subseteq Stacks /\ gbRemoteOn \in BOOLEAN /\ over = FALSE
      /\ armies \in [here -> 0..QuantityLimit] /\ intact' \in BOOLEAN /\ ~intact'
  BY StacksAssumption DEF Inv, TypeOK
<1>2. stack' \in [here -> StackType]
  BY <1>1, Within
<1>3. TypeOK'
  BY <1>1, <1>2 DEF TypeOK, StackType
<1>4. OnlyGhostsOutgrow'
  BY <1>1 DEF OnlyGhostsOutgrow
<1>5. DeadAreNone' /\ OnlyTheUnraisedGoHome'
  BY <1>1 DEF DeadAreNone, OnlyTheUnraisedGoHome
<1> QED
  BY <1>1, <1>3, <1>4, <1>5 DEF Inv

\* What the invariant gives an action of the battle.
LEMMA InBattle ==
  ASSUME Inv, intact, ~over
  PROVE  /\ Good(stack) /\ here \subseteq Stacks /\ round \in 1..RoundLimit
         /\ hasCast \subseteq {0, 1} /\ lost \in [here -> Int] /\ intact = TRUE
         /\ WithinLimit(stack)
         /\ \A x \in here : /\ Balanced(x, lost[x], stack[x])
                            /\ stack[x].quantity \in 0..QuantityLimit
<1>1. here \subseteq Stacks /\ intact = TRUE
  BY StacksAssumption DEF Inv, TypeOK
<1>2. \A x \in here : Sound(x, stack[x]) /\ Lies(stack[x])
  BY DEF Inv, DeadAreNone, Lies
<1>3. stack \in [here -> Record]
  BY <1>2 DEF Inv, TypeOK, Sound
<1>4. /\ \A x \in here : stack[x].quantity \in 0..QuantityLimit
      /\ \A x \in here : stack[x].quantity <= QuantityLimit
  <2>1. \A x \in here : stack[x].quantity \in 0..QuantityLimit
    BY DEF Inv, TypeOK
  <2> QED
    BY <2>1, BoundsAssumption
<1>5. \A x \in here : Balanced(x, lost[x], stack[x])
  BY DEF Inv, Accounted, Balanced
<1> QED
  BY <1>1, <1>2, <1>3, <1>4, <1>5 DEF Inv, TypeOK, Good, WithinLimit

\* The history keeps the accounts as long as nothing is raised for the battle.
LEMMA FallenBalanced ==
  ASSUME Inv, intact, ~over, NEW st \in [here -> Record]
  PROVE  /\ Fallen(st) \in [here -> Int]
         /\ \A x \in here : st[x].temporaryQty = stack[x].temporaryQty =>
                              Balanced(x, Fallen(st)[x], st[x])
<1>1. ASSUME NEW x \in here
      PROVE  /\ lost[x] \in Int /\ stack[x].quantity \in Nat /\ st[x].quantity \in Nat
             /\ stack[x].temporaryQty \in Nat /\ Own(x) \in Nat
             /\ Balanced(x, lost[x], stack[x])
  BY InBattle, StacksAssumption DEF Good, Record, Own
<1>2. \A x \in here :
        Fallen(st)[x] = IF Counted(x) THEN lost[x] + (stack[x].quantity - st[x].quantity) ELSE 0
  BY DEF Fallen, Kills
<1>3. \A x \in here : Fallen(st)[x] \in Int
  BY <1>1, <1>2
<1>4. Fallen(st) \in [here -> Int]
  BY <1>3 DEF Fallen
<1>5. ASSUME NEW x \in here, st[x].temporaryQty = stack[x].temporaryQty
      PROVE  Balanced(x, Fallen(st)[x], st[x])
  BY <1>1, <1>2, <1>5 DEF Balanced
<1> QED
  BY <1>4, <1>5

LEMMA MeleeInv ==
  ASSUME Inv, NEW s \in here, NEW t \in here, Melee(s, t)
  PROVE  Inv'
<1>1. ~over /\ intact /\ s # t /\ stack[s].quantity > 0
  BY DEF Melee, Undecided, Alive
<1>2. PICK blow \in Blows, answer \in Blows : stack' = DoAttack(s, t, blow, answer)
  BY DEF Melee
<1>3. /\ Good(stack) /\ here \subseteq Stacks /\ round \in 1..RoundLimit
      /\ hasCast \subseteq {0, 1} /\ stack[t] \in Record
  BY <1>1, InBattle DEF Good
<1>4. /\ lost' = Fallen(stack') /\ UNCHANGED <<here, gbRemoteOn, round, hasCast, over, armies>>
      /\ WithinLimit(stack') /\ intact' = ~MakesOne(t)
  BY DEF Melee
<1>5. MakesOne(t) <=> Makes(t, stack[t])
  <2>1. stack[t].damage - 2 = stack[t].damage + (-2)
    BY <1>3 DEF Record
  <2> QED
    BY <2>1 DEF MakesOne, Makes, Dodges
<1>6. CASE ~Makes(t, stack[t])
  <2>1. /\ Good(stack')
        /\ \A x \in here : stack'[x].temporaryQty = stack[x].temporaryQty
    BY <1>1, <1>2, <1>3, <1>6, DoAttackGood
  <2>2. stack' \in [here -> Record]
    BY <2>1 DEF Good
  <2>3. lost' \in [here -> Int] /\ \A x \in here : Balanced(x, lost'[x], stack'[x])
    BY <1>1, <1>4, <2>1, <2>2, FallenBalanced
  <2>4. intact' = TRUE
    BY <1>4, <1>5, <1>6
  <2> QED
    BY <1>1, <1>3, <1>4, <2>1, <2>3, <2>4, BattleGoesOn
<1>7. CASE Makes(t, stack[t])
  <2>1. /\ stack' \in [here -> Record]
        /\ \A x \in here \ (Ghosts \cup Dodgers) : stack'[x].quantity <= Initial[x]
    <3>1. t \in Dodgers
      BY <1>7 DEF Makes
    <3> QED
      BY <1>1, <1>2, <1>3, <3>1, MadeOne
  <2>2. lost' \in [here -> Int]
    BY <1>1, <1>4, <2>1, FallenBalanced
  <2>3. intact' = FALSE
    BY <1>4, <1>5, <1>7
  <2> QED
    BY <1>1, <1>3, <1>4, <2>1, <2>2, <2>3, BattleBreaks
<1> QED
  BY <1>6, <1>7

\* An action that changes one record x only.
LEMMA OneRecord ==
  ASSUME Inv, intact, ~over, UNCHANGED <<here, gbRemoteOn, round, over, armies, intact>>,
         hasCast' \subseteq {0, 1},
         NEW s \in here, NEW y, stack' = [stack EXCEPT ![s] = y],
         Sound(s, y), Lies(y), y.quantity <= QuantityLimit,
         lost' \in [here -> Int], \A x \in here \ {s} : Counted(x) => lost'[x] = lost[x],
         Balanced(s, lost'[s], y)
  PROVE  Inv'
<1>1. /\ Good(stack) /\ round \in 1..RoundLimit /\ intact = TRUE /\ WithinLimit(stack)
      /\ \A x \in here : Balanced(x, lost[x], stack[x])
  BY InBattle
<1>2. stack'[s] = y /\ \A x \in here \ {s} : stack'[x] = stack[x]
  BY <1>1 DEF Good
<1>3. Good(stack')
  <2>1. y \in Record
    BY DEF Sound
  <2> QED
    BY <1>1, <1>2, <2>1 DEF Good
<1>4. WithinLimit(stack')
  BY <1>1, <1>2 DEF WithinLimit
<1>5. ASSUME NEW x \in here PROVE Balanced(x, lost'[x], stack'[x])
  BY <1>1, <1>2 DEF Balanced
<1> QED
  BY <1>1, <1>3, <1>4, <1>5, BattleGoesOn

LEMMA ShotOrSpellInv ==
  ASSUME Inv, NEW t \in here, ShotOrSpell(t)
  PROVE  Inv'
<1>1. /\ ~over /\ intact
      /\ UNCHANGED <<here, gbRemoteOn, round, hasCast, over, armies, intact>>
      /\ lost' = Fallen(stack')
  BY DEF ShotOrSpell, Undecided
<1>2. PICK blow \in Blows : stack' = Damage(stack, t, blow, "none", 0)
  BY DEF ShotOrSpell
<1>3. /\ Good(stack) /\ here \subseteq Stacks /\ hasCast \subseteq {0, 1}
      /\ stack[t].quantity \in 0..QuantityLimit
  BY <1>1, InBattle
<1>4. PICK yes \in BOOLEAN : yes = TRUE
  OBVIOUS
<1> DEFINE hurt == Hurt(t, stack[t], blow, yes)
<1>5. /\ t \in Stacks /\ stack[t] \in Record /\ Sound(t, stack[t]) /\ Lies(stack[t])
  BY <1>3 DEF Good
<1>6. /\ Sound(t, hurt) /\ Lies(hurt)
      /\ hurt.quantity <= stack[t].quantity /\ hurt.temporaryQty = stack[t].temporaryQty
  <2>1. yes \/ ~Makes(t, stack[t])
    BY <1>4, Zenon
  <2> QED
    BY <1>5, <2>1, HurtSound
<1>7. stack' = [stack EXCEPT ![t] = hurt]
  <2>1. hurt = Hit(t, stack[t], stack[t].damage + blow)
    BY <1>4, Zenon DEF Hurt
  <2> QED
    BY <1>2, <2>1, BlowIsHit
<1> HIDE DEF hurt
<1>8. stack' \in [here -> Record] /\ stack'[t] = hurt /\ \A x \in here \ {t} : stack'[x] = stack[x]
  BY <1>3, <1>6, <1>7 DEF Good, Sound
<1>9. lost' \in [here -> Int] /\ Balanced(t, lost'[t], hurt)
  BY <1>1, <1>6, <1>8, FallenBalanced
<1>10. ASSUME NEW x \in here \ {t}, Counted(x) PROVE lost'[x] = lost[x]
  <2>1. lost'[x] = lost[x] + (stack[x].quantity - stack[x].quantity)
    BY <1>1, <1>8, <1>10 DEF Fallen, Kills
  <2>2. lost[x] \in Int /\ stack[x].quantity \in Nat
    BY <1>1, <1>3, InBattle DEF Good, Record
  <2> QED
    BY <2>1, <2>2
<1>11. hurt.quantity <= QuantityLimit
  <2>1. hurt.quantity \in Nat
    BY <1>6 DEF Sound, Record
  <2> QED
    BY <1>3, <1>6, <2>1, BoundsAssumption
<1> QED
  BY <1>1, <1>3, <1>6, <1>7, <1>9, <1>10, <1>11, OneRecord

\* What is left of each target of a spell on an area.
LEMMA AreaSpellIsHit ==
  ASSUME Inv, NEW caster \in {0, 1}, NEW spell, NEW targets \in SUBSET here,
         AreaSpell(caster, spell, targets)
  PROVE  /\ Good(stack) /\ here \subseteq Stacks
         /\ stack' \in [here -> Record]
         /\ \A x \in here \ targets : stack'[x] = stack[x]
         /\ \A t \in targets :
              \E blow \in Blows :
                LET dam == Dealt(stack, t, blow, spell, caster)
                IN /\ blow \in Int /\ dam \in Int
                   /\ t \notin Dodgers => dam >= 0
                   /\ stack'[t] = Hit(t, stack[t], dam)
                   /\ spell = "none" \/ Artifacts = [side \in {0, 1} |-> {}] =>
                        dam = stack[t].damage + blow
<1>1. ~over /\ intact
  BY DEF AreaSpell, MayCast, Undecided
<1>2. Good(stack) /\ here \subseteq Stacks
  BY <1>1, InBattle
<1>3. PICK blows \in [targets -> Blows] :
        stack' = [t \in here |-> IF t \in targets
                                   THEN Damage(stack, t, blows[t], spell, caster)[t] ELSE stack[t]]
  BY DEF AreaSpell
<1> DEFINE dam(t) == Dealt(stack, t, blows[t], spell, caster)
<1>4. ASSUME NEW t \in targets
      PROVE  /\ blows[t] \in Blows /\ blows[t] \in Int /\ dam(t) \in Int
             /\ t \notin Dodgers => dam(t) >= 0
             /\ stack'[t] = Hit(t, stack[t], dam(t)) /\ stack'[t] \in Record
             /\ spell = "none" \/ Artifacts = [side \in {0, 1} |-> {}] =>
                  dam(t) = stack[t].damage + blows[t]
  <2>1. /\ t \in here /\ t \in Stacks /\ blows[t] \in Blows /\ blows[t] \in Int /\ blows[t] > 0
        /\ stack[t] \in Record /\ Sound(t, stack[t]) /\ stack[t].damage \in Int
        /\ stack \in [here -> Record]
    <3>1. /\ t \in here /\ t \in Stacks /\ stack[t] \in Record /\ Sound(t, stack[t])
          /\ stack \in [here -> Record]
      BY <1>2 DEF Good
    <3>2. blows[t] \in Blows
      BY <1>3
    <3>3. blows[t] \in Int /\ blows[t] > 0
      <4>1. \A blow \in Blows : blow \in Int /\ blow > 0
        BY StacksAssumption
      <4> QED
        BY <3>2, <4>1, Zenon
    <3>4. stack[t].damage \in Int
      BY <3>1 DEF Record
    <3> QED
      BY <3>1, <3>2, <3>3, <3>4
  <2>2. /\ dam(t) \in Int
        /\ stack[t].damage + blows[t] >= 0 => dam(t) >= 0
        /\ spell = "none" \/ Artifacts = [side \in {0, 1} |-> {}] =>
             dam(t) = stack[t].damage + blows[t]
    BY <2>1, DealtIsAWound
  <2>3. stack'[t] = Damage(stack, t, blows[t], spell, caster)[t]
    BY <1>3, <2>1
  <2>4. Damage(stack, t, blows[t], spell, caster) = [stack EXCEPT ![t] = Hit(t, stack[t], dam(t))]
    BY DamageIsHit
  <2> HIDE DEF dam
  <2>5. stack'[t] = Hit(t, stack[t], dam(t))
    BY <2>1, <2>3, <2>4
  <2>6. stack'[t] \in Record
    BY <2>1, <2>2, <2>5, HitRecord
  <2>7. t \notin Dodgers => dam(t) >= 0
    BY <2>1, <2>2 DEF Sound
  <2> QED
    BY <2>1, <2>2, <2>5, <2>6, <2>7
<1>5. \A x \in here \ targets : stack'[x] = stack[x]
  BY <1>3
<1>6. \A x \in here : stack'[x] \in Record
  BY <1>2, <1>4, <1>5 DEF Good
<1>7. stack' \in [here -> Record]
  BY <1>3, <1>6
<1> HIDE DEF dam
<1>8. ASSUME NEW t \in targets
      PROVE  \E blow \in Blows :
                LET new == Dealt(stack, t, blow, spell, caster)
                IN /\ blow \in Int /\ new \in Int
                   /\ t \notin Dodgers => new >= 0
                   /\ stack'[t] = Hit(t, stack[t], new)
                   /\ spell = "none" \/ Artifacts = [side \in {0, 1} |-> {}] =>
                        new = stack[t].damage + blow
  <2> WITNESS blows[t] \in Blows
  <2> QED
    BY <1>4 DEF dam
<1> QED
  BY <1>2, <1>5, <1>7, <1>8

LEMMA AreaSpellInv ==
  ASSUME Inv, NEW caster \in {0, 1}, NEW spell, NEW targets \in SUBSET here,
         AreaSpell(caster, spell, targets)
  PROVE  Inv'
<1>1. /\ ~over /\ intact /\ UNCHANGED <<here, gbRemoteOn, round, over, armies>>
      /\ hasCast' = hasCast \cup {caster} /\ lost' = Fallen(stack') /\ WithinLimit(stack')
      /\ intact' = \A t \in targets : stack'[t].quantity <= stack[t].quantity
  BY DEF AreaSpell, MayCast, Undecided
<1>2. Good(stack) /\ here \subseteq Stacks /\ round \in 1..RoundLimit /\ hasCast' \subseteq {0, 1}
  BY <1>1, InBattle
<1>3. stack' \in [here -> Record] /\ \A x \in here \ targets : stack'[x] = stack[x]
  BY AreaSpellIsHit
<1>4. ASSUME NEW t \in targets
      PROVE  \E dam \in Int : (t \notin Dodgers => dam >= 0) /\ stack'[t] = Hit(t, stack[t], dam)
  BY AreaSpellIsHit
<1>5. ASSUME NEW x \in here
      PROVE  /\ x \in Stacks /\ stack[x] \in Record /\ Sound(x, stack[x]) /\ Lies(stack[x])
             /\ stack[x].quantity \in Nat /\ stack'[x].quantity \in Nat /\ Initial[x] \in Nat
  BY <1>2, <1>3, StacksAssumption DEF Good, Record
<1>6. ASSUME NEW x \in here PROVE stack'[x].temporaryQty = stack[x].temporaryQty
  <2>1. CASE x \in targets
    <3>1. PICK dam \in Int : stack'[x] = Hit(x, stack[x], dam)
      BY <1>4, <2>1
    <3> QED
      BY <1>5, <3>1, HitRecord
  <2>2. CASE x \notin targets
    BY <1>3, <2>2
  <2> QED
    BY <2>1, <2>2
<1>7. lost' \in [here -> Int] /\ \A x \in here : Balanced(x, lost'[x], stack'[x])
  BY <1>1, <1>3, <1>6, FallenBalanced
<1>8. CASE \A t \in targets : stack'[t].quantity <= stack[t].quantity
  <2>1. ASSUME NEW x \in here PROVE Sound(x, stack'[x]) /\ Lies(stack'[x])
    <3>1. CASE x \in targets
      <4>1. PICK dam \in Int : (x \notin Dodgers => dam >= 0) /\ stack'[x] = Hit(x, stack[x], dam)
        BY <1>4, <3>1
      <4> QED
        BY <1>5, <1>8, <3>1, <4>1, HitSound
    <3>2. CASE x \notin targets
      BY <1>3, <1>5, <3>2
    <3> QED
      BY <3>1, <3>2
  <2>2. Good(stack')
    BY <1>3, <2>1 DEF Good
  <2>3. intact' = TRUE
    BY <1>1, <1>8
  <2> QED
    BY <1>1, <1>2, <1>7, <2>2, <2>3, BattleGoesOn
<1>9. CASE ~\A t \in targets : stack'[t].quantity <= stack[t].quantity
  <2>1. ASSUME NEW x \in here \ (Ghosts \cup Dodgers) PROVE stack'[x].quantity <= Initial[x]
    <3>1. stack[x].quantity <= Initial[x]
      BY <1>5 DEF Sound
    <3>2. CASE x \in targets
      <4>1. PICK dam \in Int : dam >= 0 /\ stack'[x] = Hit(x, stack[x], dam)
        BY <1>4, <3>2
      <4>2. dam > -Hp[x]
        BY <1>5, <4>1, StacksAssumption
      <4>3. stack'[x].quantity <= stack[x].quantity
        BY <1>5, <4>1, <4>2, HitRecord
      <4> QED
        BY <1>5, <3>1, <4>3
    <3>3. CASE x \notin targets
      BY <1>3, <3>1, <3>3
    <3> QED
      BY <3>2, <3>3
  <2>2. intact' = FALSE
    BY <1>1, <1>9
  <2> QED
    BY <1>1, <1>2, <1>3, <1>7, <2>1, <2>2, BattleBreaks
<1> QED
  BY <1>8, <1>9

\* An elemental, of which there were none, is there in full.
LEMMA SummonElementalInv ==
  ASSUME Inv, NEW s \in Summoned \cap here, SummonElemental(s)
  PROVE  Inv'
<1>1. /\ ~over /\ intact
      /\ UNCHANGED <<here, gbRemoteOn, round, over, armies, lost, intact>>
      /\ hasCast' = hasCast \cup {Side[s]}
      /\ stack' = [stack EXCEPT ![s] = Fresh(Initial[s], 0)]
  BY DEF SummonElemental, MayCast, Undecided
<1>2. Good(stack) /\ s \in Stacks /\ hasCast \subseteq {0, 1} /\ lost \in [here -> Int]
  BY <1>1, InBattle
<1> DEFINE y == Fresh(Initial[s], 0)
<1>3. /\ Initial[s] \in Nat \ {0} /\ Hp[s] \in Nat \ {0} /\ Initial[s] <= QuantityLimit
      /\ Side[s] \in {0, 1}
  BY <1>2, StacksAssumption, BoundsAssumption
<1>4. y \in Record /\ y.damage = 0 /\ y.quantity = Initial[s] /\ ~y.DEAD
  <2>1. PICK no \in BOOLEAN : no = FALSE /\ no = (Initial[s] = 0)
    BY <1>3
  <2>2. y = [quantity |-> Initial[s], damage |-> 0, temporaryQty |-> 0, DEAD |-> no,
             RETALIATED |-> FALSE, abilityCounter |-> 1]
    BY <2>1, Zenon DEF Fresh
  <2> HIDE DEF y
  <2> QED
    BY <1>3, <2>1, <2>2 DEF Record
<1> HIDE DEF y
<1>5. Sound(s, y) /\ Lies(y)
  BY <1>3, <1>4 DEF Sound, Lies
<1>6. Balanced(s, lost'[s], y)
  BY DEF Balanced, Counted
<1> QED
  BY <1>1, <1>2, <1>3, <1>4, <1>5, <1>6, OneRecord DEF y

LEMMA CureInv ==
  ASSUME Inv, NEW s \in here, Cure(s)
  PROVE  Inv'
<1>1. /\ ~over /\ intact
      /\ UNCHANGED <<here, gbRemoteOn, round, over, armies, lost, intact>>
  BY DEF Cure, MayCast, Undecided
<1>2. PICK strength \in Strengths :
        stack' = [stack EXCEPT ![s].damage = IF @ < strength \div 10 THEN 0
                                             ELSE @ - strength \div 10]
  BY DEF Cure
<1> DEFINE healed == IF stack[s].damage < strength \div 10 THEN 0
                     ELSE stack[s].damage - strength \div 10
           y == [stack[s] EXCEPT !.damage = healed]
<1>3. /\ Good(stack) /\ lost \in [here -> Int] /\ s \in Stacks
      /\ hasCast \subseteq {0, 1} /\ stack[s].quantity \in 0..QuantityLimit
      /\ Balanced(s, lost[s], stack[s])
  BY <1>1, InBattle
<1>4. stack[s] \in Record /\ Sound(s, stack[s]) /\ Lies(stack[s])
  BY <1>3 DEF Good
<1>5. healed \in Int /\ healed < Hp[s] /\ healed >= 0
  <2>1. strength \div 10 \in Nat /\ stack[s].damage \in Int /\ Hp[s] \in Nat \ {0}
    BY <1>3, <1>4, StacksAssumption DEF Record
  <2>2. stack[s].damage < Hp[s]
    BY <1>4 DEF Sound
  <2> QED
    BY <2>1, <2>2
<1>6. stack' = [stack EXCEPT ![s] = y]
  BY <1>2
<1> HIDE DEF healed
<1>7. /\ y \in Record /\ y.damage = healed /\ y.quantity = stack[s].quantity
      /\ y.DEAD = stack[s].DEAD /\ y.temporaryQty = stack[s].temporaryQty
  BY <1>4, <1>5 DEF Record
<1> HIDE DEF y
<1>8. Sound(s, y)
  <2>1. healed > -Hp[s]
    BY <1>3, <1>5, StacksAssumption
  <2> QED
    BY <1>4, <1>5, <1>7, <2>1 DEF Sound
<1>9. Lies(y) /\ Balanced(s, lost'[s], y)
  BY <1>1, <1>3, <1>4, <1>7 DEF Lies, Balanced
<1>10. hasCast' \subseteq {0, 1}
  <2>1. Side[s] \in {0, 1}
    BY <1>3, StacksAssumption
  <2> QED
    BY <1>3, <2>1 DEF Cure
<1>11. y.quantity <= QuantityLimit
  BY <1>3, <1>7, BoundsAssumption
<1>12. lost' \in [here -> Int] /\ \A x \in here \ {s} : Counted(x) => lost'[x] = lost[x]
  BY <1>1, <1>3
<1> QED
  BY <1>1, <1>6, <1>8, <1>9, <1>10, <1>11, <1>12, OneRecord

LEMMA ResurrectInv ==
  ASSUME Inv, NEW s \in here, NEW forGood \in BOOLEAN, Resurrect(s, forGood)
  PROVE  Inv'
<1>1. /\ ~over /\ intact /\ UNCHANGED <<here, gbRemoteOn, round, over, armies, intact>>
      /\ s \in Undead => forGood
      /\ lost' = IF forGood THEN Fallen(stack') ELSE lost
  BY DEF Resurrect, MayCast, Undecided
<1>2. PICK strength \in Strengths :
        MayBeRaised(s, strength) /\ stack' = Raised(s, strength, forGood)
  BY DEF Resurrect
<1> DEFINE raised == Least(Initial[s], stack[s].quantity + strength \div Hp[s])
           owed == IF forGood THEN stack[s].temporaryQty
                   ELSE stack[s].temporaryQty + raised - stack[s].quantity
           y == [stack[s] EXCEPT !.quantity = raised, !.DEAD = FALSE, !.temporaryQty = owed]
<1>3. /\ Good(stack) /\ lost \in [here -> Int] /\ s \in Stacks
      /\ hasCast \subseteq {0, 1} /\ Balanced(s, lost[s], stack[s])
  BY <1>1, InBattle
<1>4. stack[s] \in Record /\ Sound(s, stack[s]) /\ stack \in [here -> Record]
  BY <1>3 DEF Good
<1>5. /\ stack[s].quantity \in Nat /\ stack[s].temporaryQty \in Nat
      /\ Initial[s] \in Nat \ {0} /\ strength \in Nat /\ Hp[s] \in Nat \ {0}
      /\ lost[s] \in Int /\ Own(s) \in Nat
  BY <1>3, <1>4, StacksAssumption DEF Record, Own
<1>6. /\ strength \div Hp[s] \in Nat
      /\ Hp[s] <= strength => strength \div Hp[s] > 0
  BY <1>5
<1>7. raised \in Nat \ {0} /\ raised <= Initial[s]
  <2>1. stack[s].quantity = 0 => strength \div Hp[s] > 0
    BY <1>2, <1>6 DEF MayBeRaised
  <2> QED
    BY <1>5, <1>6, <2>1 DEF Least
<1>8. ~forGood => raised >= stack[s].quantity
  <2>1. ~forGood => stack[s].quantity <= Initial[s]
    BY <1>1, <1>4, StacksAssumption DEF Sound, Feeders
  <2> QED
    BY <1>5, <1>6, <2>1 DEF Least
<1>9. stack' = [stack EXCEPT ![s] = y]
  BY <1>2, <1>4 DEF Raised
<1> HIDE DEF raised
<1>10. owed \in Nat /\ owed >= stack[s].temporaryQty
  BY <1>5, <1>7, <1>8
<1>11. /\ owed = IF forGood THEN stack[s].temporaryQty
                 ELSE stack[s].temporaryQty + raised - stack[s].quantity
  OBVIOUS
<1> HIDE DEF owed
<1> DEFINE z == [stack[s] EXCEPT !.DEAD = FALSE]
<1>12. /\ z \in Record /\ ~z.DEAD /\ z.damage = stack[s].damage
       /\ y = [z EXCEPT !.quantity = raised, !.temporaryQty = owed]
  BY <1>4 DEF Record
<1> HIDE DEF y, z
<1>13. /\ y \in Record /\ y.quantity = raised /\ y.damage = stack[s].damage
       /\ y.temporaryQty = owed /\ ~y.DEAD
  BY <1>7, <1>10, <1>12 DEF Record
<1>14. Sound(s, y) /\ Lies(y)
  BY <1>4, <1>7, <1>13 DEF Sound, Lies
<1>15. y.quantity <= QuantityLimit
  <2>1. Initial[s] <= QuantityLimit /\ QuantityLimit \in Nat
    BY <1>3, BoundsAssumption
  <2> QED
    BY <1>5, <1>7, <1>13, <2>1
<1>16. stack' \in [here -> Record] /\ stack'[s] = y /\ \A x \in here \ {s} : stack'[x] = stack[x]
  BY <1>4, <1>9, <1>13
<1>17. /\ lost' \in [here -> Int] /\ Balanced(s, lost'[s], y)
       /\ \A x \in here \ {s} : Counted(x) => lost'[x] = lost[x]
  <2>1. CASE forGood
    <3>1. lost' = Fallen(stack') /\ stack'[s].temporaryQty = stack[s].temporaryQty
      BY <1>1, <1>11, <1>13, <1>16, <2>1
    <3>2. lost' \in [here -> Int] /\ Balanced(s, lost'[s], y)
      BY <1>1, <1>16, <3>1, FallenBalanced
    <3>3. ASSUME NEW x \in here \ {s}, Counted(x) PROVE lost'[x] = lost[x]
      <4>1. lost'[x] = lost[x] + (stack[x].quantity - stack[x].quantity)
        BY <1>16, <3>1, <3>3 DEF Fallen, Kills
      <4>2. lost[x] \in Int /\ stack[x].quantity \in Nat
        BY <1>3, <1>4 DEF Record
      <4> QED
        BY <4>1, <4>2
    <3> QED
      BY <3>2, <3>3
  <2>2. CASE ~forGood
    <3>1. Counted(s) => lost[s] + raised = Own(s) + owed
      BY <1>3, <1>5, <1>7, <1>11, <2>2 DEF Balanced
    <3>2. Counted(s) /\ s \in Pandora => owed >= Initial[s]
      BY <1>3, <1>5, <1>10 DEF Balanced
    <3> QED
      BY <1>1, <1>3, <1>13, <2>2, <3>1, <3>2 DEF Balanced
  <2> QED
    BY <2>1, <2>2
<1>18. hasCast' \subseteq {0, 1}
  <2>1. Side[s] \in {0, 1}
    BY <1>3, StacksAssumption
  <2> QED
    BY <1>3, <2>1 DEF Resurrect
<1> QED
  BY <1>1, <1>9, <1>14, <1>15, <1>17, <1>18, OneRecord

LEMMA ResetRoundInv ==
  ASSUME Inv, ResetRound
  PROVE  Inv'
<1>1. /\ ~over /\ intact /\ round < RoundLimit /\ round' = round + 1 /\ hasCast' = {}
      /\ stack' = [s \in here |-> Renewed(s)]
      /\ UNCHANGED <<here, gbRemoteOn, over, armies, lost, intact>>
  BY DEF ResetRound, Undecided
<1>2. /\ Good(stack) /\ here \subseteq Stacks /\ round \in 1..RoundLimit
      /\ lost \in [here -> Int] /\ intact = TRUE /\ WithinLimit(stack)
      /\ \A x \in here : Balanced(x, lost[x], stack[x])
  BY <1>1, InBattle
<1>3. round' \in 1..RoundLimit
  BY <1>1, <1>2, BoundsAssumption
<1>4. ASSUME NEW s \in here
      PROVE  LET y == Renewed(s)
             IN /\ Sound(s, y) /\ Lies(y)
                /\ y.quantity = stack[s].quantity /\ y.temporaryQty = stack[s].temporaryQty
  <2> DEFINE x == stack[s]
             rest == IF Alive(s) /\ s \in Trolls THEN 0 ELSE x.damage
             owes == IF Alive(s) THEN FALSE ELSE x.RETALIATED
             y == Renewed(s)
  <2>1. x \in Record /\ Sound(s, x) /\ Lies(x) /\ s \in Stacks
    BY <1>2 DEF Good
  <2>2. rest \in Int /\ rest < Hp[s] /\ rest > -Hp[s] /\ (s \notin Dodgers => rest >= 0)
    <3>1. x.damage \in Int /\ Hp[s] \in Nat \ {0}
      BY <2>1, StacksAssumption DEF Record
    <3> QED
      BY <2>1, <3>1 DEF Sound
  <2>3. owes \in BOOLEAN
    BY <2>1 DEF Record
  <2>4. y = [x EXCEPT !.RETALIATED = owes, !.damage = rest, !.abilityCounter = 1]
    BY <2>1 DEF Renewed, Record
  <2> HIDE DEF rest, owes, y, x
  <2>5. /\ y \in Record /\ y.quantity = x.quantity /\ y.temporaryQty = x.temporaryQty
        /\ y.DEAD = x.DEAD /\ y.damage = rest
    BY <2>1, <2>2, <2>3, <2>4 DEF Record
  <2>6. Sound(s, y) /\ Lies(y)
    BY <2>1, <2>2, <2>5 DEF Sound, Lies
  <2> QED
    BY <2>5, <2>6 DEF x, y
<1>5. Good(stack')
  <2>1. \A s \in here : Renewed(s) \in Record
    BY <1>4 DEF Sound
  <2> QED
    BY <1>1, <1>4, <2>1 DEF Good
<1>6. WithinLimit(stack')
  BY <1>1, <1>2, <1>4 DEF WithinLimit
<1>7. \A x \in here : Balanced(x, lost'[x], stack'[x])
  BY <1>1, <1>2, <1>4 DEF Balanced
<1> QED
  BY <1>1, <1>2, <1>3, <1>5, <1>6, <1>7, BattleGoesOn

\* Who goes home of a stack: those who last, or one who is spared.
LEMMA Home ==
  ASSUME Inv, intact, ~over, NEW s \in here
  PROVE  /\ GoesHome(s) \in Nat /\ GoesHome(s) <= stack[s].quantity
         /\ IF stack[s].quantity > stack[s].temporaryQty
              THEN GoesHome(s) = stack[s].quantity - stack[s].temporaryQty
              ELSE GoesHome(s) \in {0, 1}
         /\ stack[s].quantity <= stack[s].temporaryQty /\ GoesHome(s) = 1 =>
              \A t \in here : Side[t] = Side[s] /\ t # s => GoesHome(t) = 0
<1>1. Good(stack) /\ here \subseteq Stacks
  BY InBattle
<1>2. ASSUME NEW t \in here
      PROVE  /\ stack[t].quantity \in Nat /\ stack[t].temporaryQty \in Nat
             /\ Lasting(t) \in Nat /\ Lasting(t) <= stack[t].quantity
             /\ IF stack[t].quantity > stack[t].temporaryQty
                  THEN Lasting(t) = stack[t].quantity - stack[t].temporaryQty
                  ELSE Lasting(t) = 0
  <2>1. stack[t].quantity \in Nat /\ stack[t].temporaryQty \in Nat
    BY <1>1 DEF Good, Record
  <2> QED
    BY <2>1 DEF Lasting, Least
<1> DEFINE spared(t) == /\ t \in StandingOn(Side[t])
                        /\ \A u \in StandingOn(Side[t]) : Lasting(u) = 0 /\ Index[u] <= Index[t]
<1>3. ASSUME NEW t \in here PROVE GoesHome(t) = IF spared(t) THEN 1 ELSE Lasting(t)
  BY DEF GoesHome
<1>4. ASSUME NEW t \in here, spared(t) PROVE stack[t].quantity > 0 /\ Lasting(t) = 0
  BY <1>4 DEF StandingOn
<1>5. ASSUME NEW t \in here, spared(s), Side[t] = Side[s], t # s PROVE GoesHome(t) = 0
  <2>1. CASE t \in StandingOn(Side[s])
    <3>1. Lasting(t) = 0 /\ Index[t] <= Index[s]
      BY <1>5, <2>1
    <3>2. ~spared(t)
      <4>1. s \in StandingOn(Side[t])
        BY <1>5
      <4>2. spared(t) => Index[s] <= Index[t]
        BY <4>1
      <4>3. Index[s] # Index[t] /\ Index[s] \in 0..20 /\ Index[t] \in 0..20
        BY <1>1, <1>5, StacksAssumption
      <4> HIDE DEF spared
      <4> QED
        BY <3>1, <4>2, <4>3
    <3> HIDE DEF spared
    <3> QED
      BY <1>3, <3>1, <3>2
  <2>2. CASE t \notin StandingOn(Side[s])
    <3>1. stack[t].quantity = 0
      BY <1>2, <1>5, <2>2 DEF StandingOn
    <3>2. ~spared(t) /\ Lasting(t) = 0
      BY <1>2, <1>5, <2>2, <3>1
    <3> HIDE DEF spared
    <3> QED
      BY <1>3, <3>2
  <2> QED
    BY <2>1, <2>2
<1> HIDE DEF spared
<1>6. GoesHome(s) = 1 /\ Lasting(s) = 0 => spared(s)
  BY <1>3
<1> QED
  BY <1>2, <1>3, <1>4, <1>5, <1>6

\* Those raised or lent for the battle leave it, and one of them may be spared.
LEMMA DoVictoryInv ==
  ASSUME Inv, DoVictory
  PROVE  Inv'
<1>1. /\ ~over /\ intact /\ over' = TRUE
      /\ UNCHANGED <<here, gbRemoteOn, round, hasCast, lost, intact>>
      /\ stack' = [s \in here |-> [stack[s] EXCEPT !.quantity = GoesHome(s)]]
      /\ armies' = [s \in here |-> IF Place(s) THEN GoesHome(s) ELSE 0]
  BY DEF DoVictory
<1>2. /\ Good(stack) /\ here \subseteq Stacks /\ lost \in [here -> Int]
      /\ \A x \in here : /\ stack[x].quantity \in 0..QuantityLimit
                         /\ Balanced(x, lost[x], stack[x])
  BY <1>1, InBattle
<1>3. ASSUME NEW s \in here
      PROVE  /\ GoesHome(s) \in Nat /\ GoesHome(s) <= stack[s].quantity
             /\ GoesHome(s) \in 0..QuantityLimit
  BY <1>1, <1>2, BoundsAssumption, Home
<1>4. ASSUME NEW s \in here
      PROVE  /\ stack'[s] \in Record /\ stack'[s].quantity = GoesHome(s)
             /\ stack'[s].damage = stack[s].damage /\ stack'[s] \in StackType
  <2>1. stack'[s] = [stack[s] EXCEPT !.quantity = GoesHome(s)] /\ stack[s] \in Record
    BY <1>1, <1>2 DEF Good
  <2> QED
    BY <1>3, <2>1 DEF Record, StackType
<1>5. ASSUME NEW s \in here
      PROVE  Sound(s, stack'[s])
  <2>1. s \notin Ghosts => GoesHome(s) <= Initial[s]
    <3>1. s \notin Ghosts => stack[s].quantity <= Initial[s]
      BY <1>2 DEF Good, Sound
    <3>2. stack[s].quantity \in Nat /\ Initial[s] \in Nat
      BY <1>2, StacksAssumption DEF Good, Record
    <3> QED
      BY <1>3, <3>1, <3>2
  <2> QED
    BY <1>2, <1>4, <2>1 DEF Good, Sound
<1>6. TypeOK'
  <2>1. stack' \in [here -> StackType]
    BY <1>1, <1>4
  <2>2. armies' \in [here -> 0..QuantityLimit]
    <3>1. 0 \in 0..QuantityLimit
      BY BoundsAssumption
    <3> QED
      BY <1>1, <1>3, <3>1
  <2>3. over' \in BOOLEAN
    BY <1>1
  <2> QED
    BY <1>1, <2>1, <2>2, <2>3 DEF Inv, TypeOK, StackType
<1>7. OnlyTheUnraisedGoHome'
  <2>1. ASSUME NEW s \in here, Counted(s)
        PROVE  LET left == Own(s) - lost[s]
               IN IF left > 0 THEN armies'[s] = left
                  ELSE /\ armies'[s] \in {0, 1}
                       /\ armies'[s] = 1 =>
                            \A t \in here : Side[t] = Side[s] /\ t # s => armies'[t] = 0
    <3>1. /\ stack[s].quantity \in Nat /\ stack[s].temporaryQty \in Nat
          /\ lost[s] \in Int /\ Own(s) \in Nat /\ Initial[s] \in Nat
          /\ stack[s] \in Record /\ Lies(stack[s]) /\ Sound(s, stack[s])
      BY <1>2, StacksAssumption DEF Good, Record, Own
    <3>2. /\ lost[s] + stack[s].quantity = Own(s) + stack[s].temporaryQty
          /\ s \in Pandora => stack[s].temporaryQty >= Initial[s]
      BY <1>2, <2>1 DEF Balanced
    <3>3. Own(s) - lost[s] = stack[s].quantity - stack[s].temporaryQty
      BY <3>1, <3>2
    <3>4. armies'[s] = IF Place(s) THEN GoesHome(s) ELSE 0
      BY <1>1
    <3>5. ASSUME stack[s].quantity > stack[s].temporaryQty
          PROVE  armies'[s] = stack[s].quantity - stack[s].temporaryQty
      <4>1. s \notin Pandora
        <5>1. stack[s].quantity <= Initial[s]
          BY <2>1, <3>1 DEF Sound, Counted, Feeders
        <5> QED
          BY <3>1, <3>2, <3>5, <5>1
      <4>2. ~stack[s].DEAD
        BY <3>1, <3>5 DEF Lies
      <4>3. Place(s)
        BY <2>1, <4>1, <4>2 DEF Place, Counted
      <4> QED
        BY <1>1, <3>4, <3>5, <4>3, Home
    <3>6. ASSUME ~(stack[s].quantity > stack[s].temporaryQty)
          PROVE  /\ armies'[s] \in {0, 1}
                 /\ armies'[s] = 1 =>
                      \A t \in here : Side[t] = Side[s] /\ t # s => armies'[t] = 0
      <4>1. GoesHome(s) \in {0, 1}
        BY <1>1, <3>6, Home
      <4>2. ASSUME armies'[s] = 1, NEW t \in here, Side[t] = Side[s], t # s
            PROVE  armies'[t] = 0
        <5>1. GoesHome(s) = 1 /\ stack[s].quantity <= stack[s].temporaryQty
          BY <3>1, <3>4, <3>6, <4>2
        <5>2. GoesHome(t) = 0
          BY <1>1, <4>2, <5>1, Home
        <5> QED
          BY <1>1, <5>2
      <4> QED
        BY <3>4, <4>1, <4>2
    <3> QED
      BY <3>1, <3>3, <3>5, <3>6
  <2> QED
    BY <1>1, <2>1 DEF OnlyTheUnraisedGoHome, Counted, Own
<1>8. OnlyGhostsOutgrow'
  BY <1>1, <1>5 DEF OnlyGhostsOutgrow, Sound
<1> QED
  BY <1>1, <1>5, <1>6, <1>7, <1>8 DEF Inv, DeadAreNone

LEMMA InitInv == Init => Inv
<1> SUFFICES ASSUME Init PROVE Inv
  OBVIOUS
<1>1. here \in Lineups /\ here \subseteq Stacks
  BY StacksAssumption DEF Init
<1> DEFINE n(s) == IF s \in Summoned THEN 0 ELSE Initial[s]
           owed(s) == IF s \in Pandora THEN Initial[s] ELSE 0
<1>2. ASSUME NEW s \in here
      PROVE  /\ Initial[s] \in Nat \ {0} /\ Hp[s] \in Nat \ {0} /\ Initial[s] <= QuantityLimit
             /\ n(s) \in Nat /\ n(s) \in 0..QuantityLimit /\ n(s) <= Initial[s] /\ owed(s) \in Nat
  <2>1. Initial[s] \in Nat \ {0} /\ Hp[s] \in Nat \ {0} /\ Initial[s] <= QuantityLimit
    BY <1>1, StacksAssumption, BoundsAssumption
  <2> QED
    BY <2>1, BoundsAssumption
<1>3. stack = [s \in here |-> Fresh(n(s), owed(s))]
  BY DEF Init
<1>4. ASSUME NEW s \in here
      PROVE  /\ stack[s] \in StackType /\ stack[s] \in Record /\ Lies(stack[s])
             /\ stack[s].damage = 0 /\ stack[s].quantity = n(s) /\ stack[s].temporaryQty = owed(s)
  <2>1. PICK dead \in BOOLEAN : dead = (n(s) = 0)
    OBVIOUS
  <2>2. stack[s] = [quantity |-> n(s), damage |-> 0, temporaryQty |-> owed(s), DEAD |-> dead,
                    RETALIATED |-> FALSE, abilityCounter |-> 1]
    <3>1. stack[s] = Fresh(n(s), owed(s))
      BY <1>3
    <3> QED
      BY <2>1, <3>1, Zenon DEF Fresh
  <2>3. n(s) \in Nat /\ n(s) \in 0..QuantityLimit /\ owed(s) \in Nat
    BY <1>2
  <2> HIDE DEF n, owed
  <2>4. stack[s].DEAD = dead /\ stack[s].quantity = n(s)
    BY <2>2
  <2>5. Lies(stack[s])
    BY <2>1, <2>4, Zenon DEF Lies
  <2> QED
    BY <2>2, <2>3, <2>5 DEF StackType, Record
<1>5. ASSUME NEW s \in here PROVE Sound(s, stack[s])
  <2>1. n(s) <= Initial[s] /\ Hp[s] \in Nat \ {0}
    BY <1>2
  <2> HIDE DEF n, owed
  <2> QED
    BY <1>4, <2>1 DEF Sound
<1>6. ASSUME NEW s \in here PROVE Accounted(s)
  <2>1. lost[s] = 0
    BY DEF Init
  <2>2. stack[s].quantity = n(s) /\ stack[s].temporaryQty = owed(s)
    BY <1>4
  <2>3. ASSUME Counted(s)
        PROVE  0 + n(s) = Own(s) + owed(s) /\ (s \in Pandora => owed(s) >= Initial[s])
    BY <1>2, <2>3 DEF Own, Counted
  <2> HIDE DEF n, owed
  <2> QED
    BY <2>1, <2>2, <2>3 DEF Accounted
<1>7. over = FALSE /\ intact = TRUE /\ round = 1 /\ hasCast = {} /\ gbRemoteOn \in BOOLEAN
  BY DEF Init
<1>8. TypeOK
  <2>1. armies \in [here -> 0..QuantityLimit]
    <3>1. \A s \in here : Own(s) \in 0..QuantityLimit
      <4>1. 0 \in 0..QuantityLimit
        BY BoundsAssumption
      <4> QED
        BY <1>2, <4>1, BoundsAssumption DEF Own
    <3> QED
      BY <3>1 DEF Init
  <2>2. lost \in [here -> Int]
    BY DEF Init
  <2>3. stack \in [here -> StackType]
    <3> HIDE DEF n, owed
    <3> QED
      BY <1>3, <1>4
  <2>4. round \in 1..RoundLimit
    BY <1>7, BoundsAssumption
  <2> QED
    BY <1>1, <1>7, <2>1, <2>2, <2>3, <2>4 DEF TypeOK, StackType
<1>9. DeadAreNone /\ OnlyGhostsOutgrow /\ OnlyTheUnraisedGoHome
  BY <1>4, <1>5, <1>7 DEF DeadAreNone, Lies, OnlyGhostsOutgrow, Sound, OnlyTheUnraisedGoHome
<1> QED
  BY <1>5, <1>6, <1>8, <1>9 DEF Inv

LEMMA NextInv == Inv /\ [Next]_vars => Inv'
<1> SUFFICES ASSUME Inv, [Next]_vars PROVE Inv'
  OBVIOUS
<1>1. ASSUME NEW s \in here, NEW t \in here, Melee(s, t) PROVE Inv'
  BY <1>1, MeleeInv
<1>2. ASSUME NEW s \in here, ShotOrSpell(s) PROVE Inv'
  BY <1>2, ShotOrSpellInv
<1>3. ASSUME NEW s \in here, Cure(s) PROVE Inv'
  BY <1>3, CureInv
<1>4. ASSUME NEW s \in here, NEW forGood \in BOOLEAN, Resurrect(s, forGood) PROVE Inv'
  BY <1>4, ResurrectInv
<1>5. ASSUME NEW caster \in {0, 1}, NEW spell \in {"none", "cold", "fire"},
             NEW targets \in SUBSET here, AreaSpell(caster, spell, targets)
      PROVE  Inv'
  BY <1>5, AreaSpellInv
<1>6. ASSUME NEW s \in Summoned \cap here, SummonElemental(s) PROVE Inv'
  BY <1>6, SummonElementalInv
<1>7. CASE ResetRound
  BY <1>7, ResetRoundInv
<1>8. CASE DoVictory
  BY <1>8, DoVictoryInv
<1>9. CASE UNCHANGED vars
  BY <1>9 DEF vars, Inv, TypeOK, DeadAreNone, OnlyGhostsOutgrow, Accounted, OnlyTheUnraisedGoHome
<1> QED
  BY <1>1, <1>2, <1>3, <1>4, <1>5, <1>6, <1>7, <1>8, <1>9 DEF Next

LEMMA Invariant == Spec => []Inv
<1>1. Init => Inv
  BY InitInv
<1>2. Inv /\ [Next]_vars => Inv'
  BY NextInv
<1> QED
  BY <1>1, <1>2, PTL DEF Spec

-----------------------------------------------------------------------------
(* Hit points *)

Points(s, x) == x.quantity * Hp[s] - (IF x.quantity = 0 THEN 0 ELSE x.damage)

LEMMA MaxOfTwo ==
  ASSUME NEW a \in Int
  PROVE  Max({0, a}) = IF a > 0 THEN a ELSE 0
<1>1. CASE a > 0
  BY <1>1 DEF Max
<1>2. CASE ~(a > 0)
  BY <1>2 DEF Max
<1> QED
  BY <1>1, <1>2

LEMMA Multiples ==
  ASSUME NEW h \in Nat, NEW q \in Nat, NEW k \in Nat
  PROVE  /\ q * h \in Nat /\ q * h = h * q /\ (q + k) * h = q * h + k * h
         /\ k >= q => k * h >= q * h
<1>1. q * h \in Nat /\ q * h = h * q /\ (q + k) * h = q * h + k * h
  OBVIOUS
<1>2. ASSUME k >= q PROVE k * h >= q * h
  <2>1. PICK d \in Nat : k = q + d
    <3>1. k - q \in Nat /\ k = q + (k - q)
      BY <1>2
    <3> QED
      BY <3>1
  <2>2. k * h = q * h + d * h /\ d * h \in Nat /\ q * h \in Nat
    BY <2>1
  <2> QED
    BY <2>2
<1> QED
  BY <1>1, <1>2

\* Of a wound that deep the stack keeps what is left of all its points, or none.
LEMMA PointsKept ==
  ASSUME NEW s \in Stacks, NEW x \in Record, x.quantity > 0, NEW dam \in Int,
         Hit(s, x, dam).quantity <= x.quantity
  PROVE  Points(s, Hit(s, x, dam)) = Max({0, x.quantity * Hp[s] - dam})
<1> DEFINE h == Hp[s]
           q == x.quantity
           k == Quotient(dam, h)
           rest == Remainder(dam, h)
           left == q - Least(k, q)
           y == Hit(s, x, dam)
<1>1. h \in Nat \ {0} /\ q \in Nat \ {0}
  BY StacksAssumption DEF Record
<1>2. y.quantity = left /\ y.damage = rest /\ (y.quantity <= q <=> k >= 0)
  BY HitRecord
<1>3. /\ k \in Int /\ rest \in Int /\ dam = h * k + rest
      /\ rest < h /\ rest > -h /\ (dam >= 0 => rest >= 0)
  BY <1>1, Division
<1>4. k >= 0
  BY <1>2
<1> HIDE DEF k, rest, y, h, q
<1>5. k \in Nat
  BY <1>3, <1>4
<1>6. CASE k >= q
  <2>1. left = 0
    BY <1>1, <1>5, <1>6 DEF Least
  <2>2. Points(s, y) = 0 * h - 0
    BY <1>2, <2>1 DEF Points, h
  <2>3. 0 * h = 0 /\ k * h >= q * h /\ q * h \in Nat /\ k * h \in Nat /\ k * h = h * k
    BY <1>1, <1>5, <1>6, Multiples
  <2>4. dam >= 0
    <3>1. k * h >= 1 * h /\ 1 * h = h
      BY <1>1, <1>5, <1>6, Multiples
    <3> QED
      BY <1>1, <1>3, <2>3, <3>1
  <2>5. rest >= 0
    BY <1>3, <2>4
  <2>6. q * h - dam <= 0 /\ q * h - dam \in Int
    BY <1>1, <1>3, <2>3, <2>5
  <2> QED
    BY <2>2, <2>3, <2>6, MaxOfTwo DEF y, h, q
<1>7. CASE ~(k >= q)
  <2>1. left = q - k /\ left \in Nat \ {0}
    BY <1>1, <1>5, <1>7 DEF Least
  <2> HIDE DEF left
  <2>2. Points(s, y) = left * h - rest
    BY <1>2, <2>1 DEF Points, h
  <2>3. /\ left * h \in Nat /\ k * h \in Nat /\ k * h = h * k
        /\ (left + k) * h = left * h + k * h /\ left * h >= 1 * h /\ 1 * h = h
    BY <1>1, <1>5, <2>1, Multiples
  <2>4. left + k = q
    BY <1>1, <1>5, <2>1
  <2>5. q * h = left * h + k * h
    BY <2>3, <2>4
  <2>6. q * h - dam = left * h - rest /\ left * h - rest \in Int /\ left * h - rest > 0
    <3>1. PICK a \in Nat, b \in Nat : a = left * h /\ b = k * h
      BY <2>3
    <3>2. q * h = a + b /\ dam = b + rest /\ a >= h
      BY <1>3, <2>3, <2>5, <3>1
    <3>3. (a + b) - (b + rest) = a - rest /\ a - rest \in Int /\ a - rest > 0
      BY <1>1, <1>3, <3>2
    <3> QED
      BY <3>1, <3>2, <3>3
  <2> QED
    BY <2>2, <2>6, MaxOfTwo DEF y, h, q
<1> QED
  BY <1>6, <1>7

\* A vampire lord gains no more than the life of those it kills.
LEMMA FedPoints ==
  ASSUME NEW s \in Stacks \cap VampireLords, NEW x \in Record, x.quantity > 0,
         Sound(s, x), NEW kills \in Nat, NEW hp \in Nat
  PROVE  Points(s, Fed(s, x, kills, hp)) - Points(s, x) <= kills * hp
<1> DEFINE drain == kills * hp
           life == drain - x.damage
           y == Fed(s, x, kills, hp)
           h == Hp[s]
           q == x.quantity
<1>1. /\ drain \in Nat /\ x.damage \in Int /\ q \in Nat \ {0} /\ h \in Nat \ {0}
      /\ s \notin Ghosts /\ Initial[s] \in Nat /\ x.damage < h
  BY StacksAssumption DEF Record, Sound
<1>2. Points(s, x) = q * h - x.damage /\ q * h \in Nat
  BY <1>1 DEF Points
<1> HIDE DEF drain
<1>3. CASE life < 0
  <2>1. y = [x EXCEPT !.damage = @ - drain]
    BY <1>1, <1>3 DEF Fed, drain
  <2>2. y.quantity = q /\ y.damage = x.damage - drain
    BY <2>1 DEF Record
  <2> HIDE DEF y
  <2>3. Points(s, y) = q * h - (x.damage - drain)
    BY <1>1, <2>2 DEF Points
  <2> HIDE DEF h, q
  <2>4. Points(s, y) - Points(s, x) = drain
    BY <1>1, <1>2, <2>3
  <2> QED
    BY <1>1, <2>4 DEF y, drain
<1>4. CASE ~(life < 0)
  <2> DEFINE k == Quotient(life, h)
             rest == Remainder(life, h)
             new == Least(Initial[s], q + k)
  <2>1. /\ life \in Nat /\ k \in Nat /\ rest \in Int /\ life = h * k + rest /\ rest >= 0
    <3>1. life \in Int /\ life > -h /\ life \in Nat
      BY <1>1, <1>4
    <3>2. k \in Int /\ k >= 0 /\ rest \in Int /\ life = h * k + rest /\ rest >= 0
      BY <1>1, <3>1, Division
    <3> QED
      BY <3>1, <3>2
  <2>2. y = [x EXCEPT !.damage = 0, !.quantity = new]
    BY <1>1, <1>4 DEF Fed, drain
  <2>3. y.quantity = new /\ y.damage = 0
    BY <2>2 DEF Record
  <2> HIDE DEF y, k, rest
  <2>4. new \in Nat /\ new <= q + k
    BY <1>1, <2>1 DEF Least
  <2> HIDE DEF new
  <2>5. Points(s, y) = new * h
    <3>1. Points(s, y) = new * h - 0 /\ new * h \in Nat
      BY <1>1, <2>3, <2>4, Multiples DEF Points
    <3> QED
      BY <3>1
  <2> HIDE DEF h, q
  <2>6. PICK a \in Nat, b \in Nat, c \in Nat : a = q * h /\ b = k * h /\ c = new * h
    BY <1>1, <2>1, <2>4, Multiples
  <2>7. c <= a + b
    <3>1. (q + k) * h = q * h + k * h /\ (q + k) * h >= new * h
      BY <1>1, <2>1, <2>4, Multiples
    <3> QED
      BY <2>6, <3>1
  <2>8. h * k = b
    BY <1>1, <2>1, <2>6, Multiples
  <2>9. rest >= 0 /\ life = b + rest
    BY <2>1, <2>8
  <2>10. Points(s, y) = c /\ Points(s, x) = a - x.damage
    BY <1>2, <2>5, <2>6
  <2>11. c - (a - x.damage) <= drain
    BY <1>1, <2>6, <2>7, <2>9, <2>1
  <2> QED
    BY <2>10, <2>11 DEF y, drain
<1> QED
  BY <1>3, <1>4

-----------------------------------------------------------------------------
(* The theorems *)

\* TypeOK: no record of a stack leaves its type, and none grows beyond the limit but
\* those of ghosts and dodgers, which a guard cuts off (army.cpp, combat_spells.cpp).
THEOREM CasualtiesAreTyped == Spec => []TypeOK
<1>1. Inv => TypeOK
  BY DEF Inv
<1> QED
  BY <1>1, Invariant, PTL

\* DeadAreNone: ProcessDeath misses nobody, and nobody is left among the dead.
THEOREM TheDeadAreNone == Spec => []DeadAreNone
<1>1. Inv => DeadAreNone
  BY DEF Inv
<1> QED
  BY <1>1, Invariant, PTL

\* WoundsAreLessThanALife: / and % of Damage, with or without artifacts, the feeding of
\* vampire lords, Cure, trolls and dodges never leave a wound that should have been a
\* death, as long as no dodged blow makes a creature.
THEOREM WoundsStayBelowALife == Spec => []WoundsAreLessThanALife
<1>1. Inv => WoundsAreLessThanALife
  BY DEF Inv, Sound, WoundsAreLessThanALife
<1> QED
  BY <1>1, Invariant, PTL

\* OnlyGhostsOutgrow: neither vampire lords nor raising make a stack more than it was,
\* and of the others only that dodger whose dodges have made it a creature.
THEOREM NoneButGhostsOutgrow == Spec => []OnlyGhostsOutgrow
<1>1. Inv => OnlyGhostsOutgrow
  BY DEF Inv
<1> QED
  BY <1>1, Invariant, PTL

\* OnlyTheUnraisedGoHome: what HandlePandoraBox and Resurrect put into temporaryQty and
\* DoVictory takes off are the same creatures, whoever falls in between, and nobody is
\* spared where others of the side are left.
THEOREM TheRaisedDoNotGoHome == Spec => []OnlyTheUnraisedGoHome
<1>1. Inv => OnlyTheUnraisedGoHome
  BY DEF Inv
<1> QED
  BY <1>1, Invariant, PTL

\* A shot takes the points it deals.
LEMMA ShotPoints ==
  ASSUME Inv, NEW t \in here, ShotOrSpell(t)
  PROVE  \E blow \in Blows : HitPoints(t)' = Max({0, HitPoints(t) - blow})
<1>1. ~over /\ intact /\ stack[t].quantity > 0
  BY DEF ShotOrSpell, Undecided, Alive
<1>2. PICK blow \in Blows : stack' = Damage(stack, t, blow, "none", 0)
  BY DEF ShotOrSpell
<1> DEFINE dam == stack[t].damage + blow
<1>3. /\ Good(stack) /\ t \in Stacks
      /\ stack[t] \in Record /\ Sound(t, stack[t])
  BY <1>1, InBattle DEF Good
<1>4. /\ blow \in Int /\ blow > 0 /\ stack[t].damage \in Int /\ Hp[t] \in Nat \ {0}
      /\ stack[t].quantity \in Nat \ {0} /\ stack[t].quantity * Hp[t] \in Nat
      /\ dam \in Int /\ dam > -Hp[t]
  <2>1. /\ blow \in Int /\ blow > 0 /\ stack[t].damage \in Int /\ Hp[t] \in Nat \ {0}
        /\ stack[t].quantity \in Nat \ {0}
    BY <1>1, <1>3, StacksAssumption DEF Record
  <2>2. stack[t].damage > -Hp[t]
    BY <1>3 DEF Sound
  <2>3. dam \in Int /\ dam > -Hp[t]
    BY <2>1, <2>2
  <2> QED
    BY <2>1, <2>3, Multiples
<1>5. stack'[t] = Hit(t, stack[t], dam)
  BY <1>2, <1>3, BlowIsHit DEF Good
<1>6. HitPoints(t) - blow = stack[t].quantity * Hp[t] - dam
  BY <1>4 DEF HitPoints
<1>7. HitPoints(t)' = Points(t, stack'[t])
  BY DEF HitPoints, Points
<1> HIDE DEF dam
<1>8. Hit(t, stack[t], dam).quantity <= stack[t].quantity
  BY <1>3, <1>4, HitRecord
<1>9. Points(t, stack'[t]) = Max({0, stack[t].quantity * Hp[t] - dam})
  BY <1>1, <1>3, <1>4, <1>5, <1>8, PointsKept
<1> QED
  BY <1>6, <1>7, <1>9

\* A blow that is dodged gives two.
LEMMA DodgePoints ==
  ASSUME Inv, NEW s \in here, NEW t \in here, Dodges(stack, t, FALSE), Melee(s, t), intact'
  PROVE  HitPoints(t)' = HitPoints(t) + 2
<1>1. /\ ~over /\ intact /\ s # t /\ stack[s].quantity > 0 /\ stack[t].quantity > 0
      /\ t \in Dodgers /\ stack[t].abilityCounter = 1
  BY DEF Melee, Undecided, Alive, Dodges
<1>2. PICK blow \in Blows, answer \in Blows : stack' = DoAttack(s, t, blow, answer)
  BY DEF Melee
<1>3. /\ Good(stack) /\ here \subseteq Stacks
      /\ stack[t] \in Record /\ Sound(t, stack[t]) /\ t \in Stacks
  BY <1>1, InBattle DEF Good
<1>4. t \notin Feeders
  BY <1>1, StacksAssumption DEF Feeders
<1>5. ~Makes(t, stack[t])
  <2>1. stack[t].damage - 2 = stack[t].damage + (-2)
    BY <1>3 DEF Record
  <2>2. ~MakesOne(t)
    BY DEF Melee
  <2> QED
    BY <2>1, <2>2 DEF MakesOne, Makes, Dodges
<1> DEFINE hurt == Struck(t, stack[t], blow)
           z == [stack[t] EXCEPT !.abilityCounter = 0]
           dam == stack[t].damage + (-2)
<1>6. stack'[t].quantity = hurt.quantity /\ stack'[t].damage = hurt.damage
  BY <1>1, <1>2, <1>3, <1>4, <1>5, DoAttackGood
<1>7. z \in Record /\ z.quantity = stack[t].quantity
  BY <1>3 DEF Record
<1>8. hurt = Hit(t, z, dam)
  BY <1>1, Zenon DEF Struck, Hurt
<1>9. /\ stack[t].quantity \in Nat \ {0} /\ stack[t].damage \in Int /\ Hp[t] \in Nat \ {0}
      /\ stack[t].quantity * Hp[t] \in Nat /\ dam \in Int /\ dam < Hp[t]
  <2>1. stack[t].quantity \in Nat \ {0} /\ stack[t].damage \in Int /\ Hp[t] \in Nat \ {0}
    BY <1>1, <1>3, StacksAssumption DEF Record
  <2> QED
    BY <1>3, <2>1, Multiples DEF Sound
<1> HIDE DEF hurt, z
<1>10. ~(Quotient(dam, Hp[t]) < 0)
  BY <1>1, <1>5, Zenon DEF Makes
<1>11. dam = stack[t].damage + (-2)
  OBVIOUS
<1> HIDE DEF dam
<1>12. Quotient(dam, Hp[t]) = 0 /\ Remainder(dam, Hp[t]) = dam
  <2>0. Quotient(dam, Hp[t]) \in Int
    BY <1>9, Division
  <2>1. Quotient(dam, Hp[t]) \in Int /\ Quotient(dam, Hp[t]) >= 0
    BY <1>10, <2>0
  <2> QED
    BY <1>9, <2>1, Division
<1>13. hurt.quantity = z.quantity - Least(0, z.quantity) /\ hurt.damage = dam
  <2>1. /\ hurt.quantity = z.quantity - Least(Quotient(dam, Hp[t]), z.quantity)
        /\ hurt.damage = Remainder(dam, Hp[t])
    <3>1. dam \in Int
      BY <1>9
    <3> QED
      BY <1>3, <1>7, <1>8, <3>1, HitRecord
  <2> QED
    BY <1>12, <2>1
<1>14. hurt.quantity = stack[t].quantity /\ hurt.damage = stack[t].damage - 2
  BY <1>7, <1>9, <1>11, <1>13 DEF Least
<1>15. HitPoints(t)' = stack[t].quantity * Hp[t] - (stack[t].damage - 2)
  BY <1>6, <1>9, <1>14 DEF HitPoints
<1>16. HitPoints(t) = stack[t].quantity * Hp[t] - stack[t].damage
  BY <1>9 DEF HitPoints
<1> QED
  BY <1>9, <1>15, <1>16

\* HitPointsAddUp: whatever wounds, dodges and meals a stack has behind it, a shot
\* takes the hit points it deals, or all there are, a spell on an area what artifacts
\* make of its points and of the old wound, and a dodged blow gives two.
THEOREM HitPointsAreKept == Spec => HitPointsAddUp
<1>1. Inv => [round' = round /\ ~over' /\ intact' => \A t \in Touched :
                /\ ShotOrSpell(t) =>
                     \E blow \in Blows : HitPoints(t)' = Max({0, HitPoints(t) - blow})
                /\ \A caster \in {0, 1}, spell \in {"none", "cold", "fire"} :
                     AreaSpell(caster, spell, Touched) =>
                       \E blow \in Blows :
                         /\ HitPoints(t)' = Kept(t, Dealt(stack, t, blow, spell, caster))
                         /\ spell = "none" \/ Artifacts = [side \in {0, 1} |-> {}] =>
                              HitPoints(t)' = Max({0, HitPoints(t) - blow})
                /\ \A s \in here : Dodges(stack, t, FALSE) /\ Melee(s, t)
                     => HitPoints(t)' = HitPoints(t) + 2]_vars
  <2> SUFFICES ASSUME Inv, intact', NEW t \in Touched
               PROVE  /\ ShotOrSpell(t) =>
                           \E blow \in Blows : HitPoints(t)' = Max({0, HitPoints(t) - blow})
                      /\ \A caster \in {0, 1}, spell \in {"none", "cold", "fire"} :
                           AreaSpell(caster, spell, Touched) =>
                             \E blow \in Blows :
                               /\ HitPoints(t)' = Kept(t, Dealt(stack, t, blow, spell, caster))
                               /\ spell = "none" \/ Artifacts = [side \in {0, 1} |-> {}] =>
                                    HitPoints(t)' = Max({0, HitPoints(t) - blow})
                      /\ \A s \in here : Dodges(stack, t, FALSE) /\ Melee(s, t)
                           => HitPoints(t)' = HitPoints(t) + 2
    OBVIOUS
  <2>1. t \in here /\ Touched \in SUBSET here
    BY DEF Touched
  <2>2. ASSUME ShotOrSpell(t)
        PROVE  \E blow \in Blows : HitPoints(t)' = Max({0, HitPoints(t) - blow})
    BY <2>1, <2>2, ShotPoints
  <2>3. ASSUME NEW caster \in {0, 1}, NEW spell \in {"none", "cold", "fire"},
               AreaSpell(caster, spell, Touched)
        PROVE  \E blow \in Blows :
                 /\ HitPoints(t)' = Kept(t, Dealt(stack, t, blow, spell, caster))
                 /\ spell = "none" \/ Artifacts = [side \in {0, 1} |-> {}] =>
                      HitPoints(t)' = Max({0, HitPoints(t) - blow})
    <3>1. PICK targets \in SUBSET here : targets = Touched
      BY <2>1
    <3>2. AreaSpell(caster, spell, targets)
      BY <2>3, <3>1 DEF AreaSpell
    <3>3. t \in targets
      BY <3>1
    <3>4. PICK blow \in Blows :
            LET dam == Dealt(stack, t, blow, spell, caster)
            IN /\ blow \in Int /\ dam \in Int
               /\ stack'[t] = Hit(t, stack[t], dam)
               /\ spell = "none" \/ Artifacts = [side \in {0, 1} |-> {}] =>
                    dam = stack[t].damage + blow
      BY <3>2, <3>3, AreaSpellIsHit
    <3> DEFINE dam == Dealt(stack, t, blow, spell, caster)
    <3>5. /\ ~over /\ intact /\ stack[t].quantity > 0
          /\ stack'[t].quantity <= stack[t].quantity
      BY <3>2, <3>3 DEF AreaSpell, MayCast, Undecided, Alive
    <3>6. t \in Stacks /\ stack[t] \in Record
      BY <2>1, <3>5, InBattle DEF Good
    <3>7. /\ stack[t].damage \in Int /\ stack[t].quantity \in Nat \ {0}
          /\ stack[t].quantity * Hp[t] \in Nat
      <4>1. stack[t].damage \in Int /\ stack[t].quantity \in Nat \ {0} /\ Hp[t] \in Nat
        BY <3>5, <3>6, StacksAssumption DEF Record
      <4> QED
        BY <4>1, Multiples
    <3> HIDE DEF dam
    <3>8. Points(t, stack'[t]) = Max({0, stack[t].quantity * Hp[t] - dam})
      <4>1. dam \in Int /\ stack'[t] = Hit(t, stack[t], dam)
        BY <3>4 DEF dam
      <4> QED
        BY <3>5, <3>6, <4>1, PointsKept
    <3>9. HitPoints(t)' = Points(t, stack'[t])
      BY DEF HitPoints, Points
    <3>10. HitPoints(t)' = Kept(t, dam)
      BY <3>8, <3>9 DEF Kept
    <3>11. ASSUME spell = "none" \/ Artifacts = [side \in {0, 1} |-> {}]
           PROVE  HitPoints(t)' = Max({0, HitPoints(t) - blow})
      <4>1. dam = stack[t].damage + blow
        BY <3>4, <3>11 DEF dam
      <4>2. HitPoints(t) - blow = stack[t].quantity * Hp[t] - dam
        BY <3>4, <3>7, <4>1 DEF HitPoints
      <4> QED
        BY <3>8, <3>9, <4>2
    <3> WITNESS blow \in Blows
    <3> QED
      BY <3>10, <3>11 DEF dam
  <2>4. ASSUME NEW s \in here, Dodges(stack, t, FALSE), Melee(s, t)
        PROVE  HitPoints(t)' = HitPoints(t) + 2
    BY <2>1, <2>4, DodgePoints
  <2> QED
    BY <2>2, <2>3, <2>4
<1> QED
  BY <1>1, Invariant, PTL DEF HitPointsAddUp


\* What t, which is no dodger, keeps of a blow is not more than what it had.
LEMMA BlowTakes ==
  ASSUME NEW t \in Stacks \ Dodgers, NEW x \in Record, Sound(t, x), x.quantity > 0,
         NEW blow \in Blows
  PROVE  /\ Points(t, Struck(t, x, blow)) \in Int /\ Points(t, x) \in Int
         /\ Points(t, Struck(t, x, blow)) <= Points(t, x)
<1> DEFINE hurt == Struck(t, x, blow)
           dam == x.damage + blow
<1>1. hurt = Hit(t, x, dam)
  BY Zenon DEF Struck, Hurt
<1>2. /\ Hp[t] \in Nat \ {0} /\ blow \in Int /\ blow > 0 /\ x.damage \in Int
      /\ x.quantity \in Nat \ {0} /\ x.damage >= 0 /\ x.damage < Hp[t]
  BY StacksAssumption DEF Record, Sound
<1>3. dam \in Int /\ dam > -Hp[t]
  BY <1>2
<1>4. x.quantity * Hp[t] \in Nat /\ x.quantity * Hp[t] >= Hp[t]
  <2>1. x.quantity * Hp[t] >= 1 * Hp[t] /\ 1 * Hp[t] = Hp[t] /\ x.quantity * Hp[t] \in Nat
    BY <1>2, Multiples
  <2> QED
    BY <2>1
<1>5. Points(t, x) = x.quantity * Hp[t] - x.damage
  BY <1>2 DEF Points
<1> HIDE DEF hurt
<1>6. Hit(t, x, dam).quantity <= x.quantity
  BY <1>3, HitRecord
<1>7. Points(t, hurt) = Max({0, x.quantity * Hp[t] - dam})
  BY <1>1, <1>2, <1>3, <1>6, PointsKept
<1>8. PICK p \in Nat : p = x.quantity * Hp[t]
  BY <1>4
<1>9. p - dam \in Int /\ p - dam < p - x.damage /\ p - x.damage >= 0
  BY <1>2, <1>4, <1>8
<1>10. Points(t, hurt) = IF p - dam > 0 THEN p - dam ELSE 0
  BY <1>7, <1>8, <1>9, MaxOfTwo
<1> QED
  BY <1>2, <1>5, <1>8, <1>9, <1>10 DEF hurt

\* The points of two records of the same creatures and the same wound are the same.
LEMMA SamePoints ==
  ASSUME NEW s, NEW x, NEW y, x.quantity = y.quantity, x.damage = y.damage
  PROVE  Points(s, x) = Points(s, y)
BY DEF Points

\* A vampire lord that attacks is not answered, and feeds on whom it killed.
LEMMA AttackFeeds ==
  ASSUME Good(stack), here \subseteq Stacks,
         NEW s \in here, NEW t \in here, s # t, stack[s].quantity > 0, s \in VampireLords,
         NEW blow \in Blows, NEW answer \in Blows, ~Makes(t, stack[t]),
         NEW new, new = DoAttack(s, t, blow, answer)
  PROVE  Points(s, new[s]) - Points(s, stack[s]) <= Kills(stack, new, t) * Hp[t]
<1>1. PICK no \in BOOLEAN : no = FALSE
  OBVIOUS
<1>2. new = Strike(stack, s, t, blow, no)
  <2>1. new = Attack(stack, s, t, blow)
    BY DoAttackGood
  <2> QED
    BY <1>1, <2>1, Zenon DEF Attack
<1>3. /\ new[s] = Fed(s, stack[s], Kills(stack, new, t), Hp[t])
      /\ Good(new) /\ new[t].quantity <= stack[t].quantity
  BY <1>2, StrikeGood
<1>4. Kills(stack, new, t) \in Nat
  <2>1. stack[t].quantity \in Nat /\ new[t].quantity \in Nat
    BY <1>3 DEF Good, Record
  <2> QED
    BY <1>3, <2>1 DEF Kills
<1>5. /\ s \in Stacks /\ stack[s] \in Record /\ Sound(s, stack[s]) /\ Hp[t] \in Nat
  BY StacksAssumption DEF Good
<1> QED
  BY <1>3, <1>4, <1>5, FedPoints

\* A vampire lord that answers feeds on whom its answer killed, after the blow.
LEMMA AnswerFeeds ==
  ASSUME Good(stack), here \subseteq Stacks,
         NEW s \in here, NEW t \in here, s # t, stack[s].quantity > 0, stack[t].quantity > 0,
         t \in VampireLords, s \notin Feeders,
         NEW blow \in Blows, NEW answer \in Blows, ~Makes(t, stack[t]),
         NEW new, new = DoAttack(s, t, blow, answer)
  PROVE  Points(t, new[t]) - Points(t, stack[t]) <= Kills(stack, new, s) * Hp[s]
<1> DEFINE hurt == Struck(t, stack[t], blow)
           kills == Kills(stack, new, s)
           fed == Fed(t, hurt, kills, Hp[s])
<1>1. /\ Good(new) /\ new[s].quantity <= stack[s].quantity
      /\ \/ new[t] = hurt
         \/ /\ hurt.quantity > 0
            /\ new[t].quantity = fed.quantity /\ new[t].damage = fed.damage
  BY DoAttackGood
<1>2. /\ t \in Stacks /\ stack[t] \in Record /\ Sound(t, stack[t]) /\ Lies(stack[t])
      /\ t \notin Dodgers /\ t \in VampireLords /\ Hp[s] \in Nat
  BY StacksAssumption DEF Good, Feeders
<1>3. kills \in Nat
  <2>1. stack[s].quantity \in Nat /\ new[s].quantity \in Nat
    BY <1>1 DEF Good, Record
  <2> QED
    BY <1>1, <2>1 DEF Kills
<1>4. hurt \in Record /\ Sound(t, hurt)
  <2>1. PICK no \in BOOLEAN : no = FALSE
    OBVIOUS
  <2>2. Sound(t, Hurt(t, stack[t], blow, no))
    BY <1>2, HurtSound
  <2> QED
    BY <2>1, <2>2 DEF Struck, Sound
<1> HIDE DEF hurt, kills
<1>5. /\ Points(t, hurt) \in Int /\ Points(t, stack[t]) \in Int
      /\ Points(t, hurt) <= Points(t, stack[t])
  BY <1>2, BlowTakes DEF hurt
<1>6. kills * Hp[s] \in Nat
  BY <1>2, <1>3
<1>7. CASE new[t] = hurt
  BY <1>5, <1>6, <1>7 DEF kills
<1>8. CASE hurt.quantity > 0 /\ new[t].quantity = fed.quantity /\ new[t].damage = fed.damage
  <2>1. Points(t, new[t]) = Points(t, fed)
    BY <1>8, SamePoints
  <2>2. Points(t, fed) - Points(t, hurt) <= kills * Hp[s]
    BY <1>2, <1>3, <1>4, <1>8, FedPoints
  <2>3. Points(t, new[t]) \in Int
    <3>1. new[t].quantity \in Nat /\ new[t].damage \in Int /\ Hp[t] \in Nat
      BY <1>1, <1>2, StacksAssumption DEF Good, Record
    <3>2. new[t].quantity * Hp[t] \in Nat
      BY <3>1
    <3> QED
      BY <3>1, <3>2 DEF Points
  <2> QED
    BY <1>5, <1>6, <2>1, <2>2, <2>3 DEF kills
<1> QED
  BY <1>1, <1>7, <1>8

\* What Melee asks of its two stacks is what DoAttackGood needs.
LEMMA MeleeIsDoAttack ==
  ASSUME Inv, NEW s \in here, NEW t \in here, Melee(s, t), intact'
  PROVE  /\ Good(stack) /\ here \subseteq Stacks /\ s # t
         /\ stack[s].quantity > 0 /\ stack[t].quantity > 0 /\ ~Makes(t, stack[t])
         /\ \E blow \in Blows, answer \in Blows : stack' = DoAttack(s, t, blow, answer)
<1>1. ~over /\ intact /\ s # t /\ stack[s].quantity > 0 /\ stack[t].quantity > 0
  BY DEF Melee, Undecided, Alive
<1>2. Good(stack) /\ here \subseteq Stacks
  BY <1>1, InBattle
<1>3. ~Makes(t, stack[t])
  <2>1. stack[t].damage - 2 = stack[t].damage + (-2)
    BY <1>2 DEF Good, Record
  <2>2. ~MakesOne(t)
    BY DEF Melee
  <2> QED
    BY <2>1, <2>2 DEF MakesOne, Makes, Dodges
<1>4. \E blow \in Blows, answer \in Blows : stack' = DoAttack(s, t, blow, answer)
  BY DEF Melee
<1> QED
  BY <1>1, <1>2, <1>3, <1>4

LEMMA MeleePays ==
  ASSUME Inv, NEW s \in here, NEW t \in here, Melee(s, t), intact'
  PROVE  GainsPaid(s, t)
<1> USE MeleeIsDoAttack
<1>1. PICK blow \in Blows, answer \in Blows : stack' = DoAttack(s, t, blow, answer)
  OBVIOUS
<1>2. ASSUME ~gbRemoteOn, {s, t} \cap VampireLords = {}
      PROVE  stack'[s].quantity + stack'[t].quantity <= stack[s].quantity + stack[t].quantity
  BY <1>1, <1>2, DoAttackGood
<1>3. ASSUME s \in VampireLords
      PROVE  Points(s, stack'[s]) - Points(s, stack[s]) <= Kills(stack, stack', t) * Hp[t]
  BY <1>1, <1>3, AttackFeeds
<1>4. ASSUME t \in VampireLords, s \notin Feeders
      PROVE  Points(t, stack'[t]) - Points(t, stack[t]) <= Kills(stack, stack', s) * Hp[s]
  BY <1>1, <1>4, AnswerFeeds
<1>5. /\ HitPoints(s) = Points(s, stack[s]) /\ HitPoints(s)' = Points(s, stack'[s])
      /\ HitPoints(t) = Points(t, stack[t]) /\ HitPoints(t)' = Points(t, stack'[t])
  BY DEF HitPoints, Points
<1> QED
  BY <1>2, <1>3, <1>4, <1>5 DEF GainsPaid

\* GainsAreLosses: outside network games, an exchange of blows makes no creatures, and
\* to nobody does it give life beyond that of those it killed.
THEOREM NothingIsMadeOfNothing == Spec => GainsAreLosses
<1>1. Inv => [round' = round /\ ~over' /\ intact' => \A t \in Touched, s \in here :
                Touched \subseteq {s, t} => GainsPaid(s, t) \/ ~Melee(s, t)]_vars
  <2> SUFFICES ASSUME Inv, intact', NEW t \in here, NEW s \in here, Melee(s, t)
               PROVE  GainsPaid(s, t)
    BY DEF Touched
  <2> QED
    BY MeleePays
<1> QED
  BY <1>1, Invariant, PTL DEF GainsAreLosses

\* Among any stacks one has the last place.
LEMMA TheLast ==
  ASSUME NEW S \in SUBSET Stacks, S # {}
  PROVE  \E last \in S : \A t \in S : Index[t] <= Index[last]
<1> DEFINE R == {p \in Nat \X Nat : p[1] < p[2]}
           Before(t) == 20 - Index[t]
           T == {Before(t) : t \in S}
<1>1. IsWellFoundedOn(R, Nat)
  BY NatLessThanWellFounded DEF OpToRel
<1>2. \A t \in S : Index[t] \in 0..20 /\ Before(t) \in Nat
  BY StacksAssumption
<1>3. T \in SUBSET Nat /\ T # {}
  BY <1>2
<1> HIDE DEF R, T
<1>4. PICK i \in T : \A j \in T : ~(<<j, i>> \in R)
  BY <1>1, <1>3, WFMin
<1>5. PICK last \in S : i = Before(last)
  BY DEF T
<1>6. ASSUME NEW t \in S PROVE Index[t] <= Index[last]
  <2>1. Before(t) \in T /\ Before(t) \in Nat /\ i \in Nat
    BY <1>2, <1>5 DEF T
  <2>2. ~(Before(t) < i)
    BY <1>4, <2>1 DEF R
  <2> QED
    BY <1>2, <1>5, <2>2
<1> QED
  BY <1>6

\* WinnersGoHome: however many of the winners were raised, somebody goes home, where
\* neither summoned elementals nor the stack of Pandora's Box stand among them.
THEOREM SomebodyGoesHome == Spec => WinnersGoHome
<1>1. Inv => [DoVictory => \A side \in {0, 1} :
                StandingOn(side) # {} /\ StandingOn(side) \cap (Summoned \cup Pandora) = {} =>
                  \E s \in StandingOn(side) : armies'[s] > 0]_vars
  <2> SUFFICES ASSUME Inv, DoVictory, NEW side \in {0, 1}, StandingOn(side) # {},
                      StandingOn(side) \cap (Summoned \cup Pandora) = {}
               PROVE  \E s \in StandingOn(side) : armies'[s] > 0
    OBVIOUS
  <2> DEFINE S == StandingOn(side)
  <2>1. ~over /\ intact /\ armies' = [s \in here |-> IF Place(s) THEN GoesHome(s) ELSE 0]
    BY DEF DoVictory
  <2>2. Good(stack) /\ here \subseteq Stacks
    BY <2>1, InBattle
  <2>3. \A s \in S : s \in here /\ Side[s] = side /\ Lasting(s) \in Nat
    <3>1. \A s \in S : s \in here /\ Side[s] = side
      BY DEF StandingOn
    <3>2. \A s \in here : stack[s].quantity \in Nat /\ stack[s].temporaryQty \in Nat
      BY <2>2 DEF Good, Record
    <3> QED
      BY <3>1, <3>2 DEF Lasting, Least
  <2>4. ASSUME NEW s \in S PROVE armies'[s] = GoesHome(s)
    <3>1. s \in here /\ stack[s].quantity > 0 /\ s \notin Summoned \cup Pandora
      BY DEF StandingOn
    <3>2. Lies(stack[s]) /\ stack[s].quantity # 0
      BY <2>2, <3>1 DEF Good
    <3>3. Place(s)
      BY <3>1, <3>2 DEF Place, Lies
    <3> QED
      BY <2>1, <3>1, <3>3
  <2>5. \E s \in S : GoesHome(s) > 0
    <3>2. CASE \E s \in S : Lasting(s) > 0
      <4>1. PICK s \in S : Lasting(s) > 0
        BY <3>2
      <4>2. GoesHome(s) \in {1, Lasting(s)}
        BY DEF GoesHome
      <4> QED
        BY <4>1, <4>2
    <3>3. CASE \A s \in S : ~(Lasting(s) > 0)
      <4>1. \A s \in S : Lasting(s) = 0
        BY <2>3, <3>3
      <4>2. PICK last \in S : \A t \in S : Index[t] <= Index[last]
        BY <2>2, <2>3, TheLast
      <4>3. StandingOn(Side[last]) = S
        BY <2>3
      <4> HIDE DEF S
      <4>4. GoesHome(last) = 1
        BY <4>1, <4>2, <4>3 DEF GoesHome
      <4> QED
        BY <4>4
    <3> QED
      BY <3>2, <3>3
  <2> QED
    BY <2>4, <2>5
<1> QED
  BY <1>1, Invariant, PTL DEF WinnersGoHome
=============================================================================
