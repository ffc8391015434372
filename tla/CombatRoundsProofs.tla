------------------------- MODULE CombatRoundsProofs -------------------------
(***************************************************************************)
(* Who acts and who strikes back, proved for any two armies, any speeds    *)
(* and morale, and any spells.                                             *)
(*                                                                         *)
(* What the flags of the stacks say of the history of the round is stated  *)
(* of any flags and any history (Books), since the code that ends a turn   *)
(* passes both on through several functions before they are stored.        *)
(***************************************************************************)
EXTENDS CombatRounds, NaturalsInduction, WellFoundedInduction, TLAPS

Record == [flags : SUBSET Flag, effects : SUBSET Effect]

Lost(st, s) == Has(st, s, "MAYBE_NOT_LOST_TURN")

\* A stack that has lost its turn has an excuse or has had one.
Excused(st, h) ==
  \A s \in Alive(st) : Lost(st, s) => h.turns[s] > 0 \/ s \in h.excused \/ Morale[s] < 0

\* Who has answered is marked as long as the round lasts.
Answered(st, h) ==
  \A s \in here : /\ h.answers[s] > 0 => Has(st, s, "RETALIATED")
                  /\ s \notin Griffins => h.answers[s] <= 1

\* Without good morale, who has had a turn has lost it, dead or alive.
Spent(st, h) ==
  \A s \in here : /\ h.turns[s] > 0 => Morale[s] > 0 \/ Lost(st, s)
                  /\ h.turns[s] > 1 => Morale[s] > 0

\* Who acted last has lost its turn, unless the global of the morale bonus says that
\* it has just got one.
InARow(st, h, bonus) ==
  /\ h.last # None => Lost(st, h.last) \/ (bonus /\ h.streak <= 1)
  /\ h.streak <= 2

Books(st, h, bonus) ==
  /\ st \in [here -> Record] /\ h \in History
  /\ Excused(st, h) /\ Answered(st, h) /\ Spent(st, h) /\ InARow(st, h, bonus)

\* The turn that is on is one its stack may have.
Due(st, h, s, bonus) ==
  Over(st) \/ /\ Morale[s] > 0 \/ h.turns[s] = 0
              /\ h.last = s => bonus /\ h.streak <= 1

\* ... and the stack can use it, if its own side commands it.
Free(st, s, side, asked) ==
  asked /\ ~Over(st) /\ side = Side[s] =>
    s \in Alive(st) /\ ~Lost(st, s) /\ st[s].effects \subseteq {"SLOW"}

Inv ==
  /\ TypeOK
  /\ Books(stack, history, bInHighMoraleBonus)
  /\ Due(stack, history, active, bInHighMoraleBonus)
  /\ Free(stack, active, currentActionSide, found)

USE DEF Flag, Effect

-----------------------------------------------------------------------------
(* Blows *)

\* A record with its fields replaced is the record written out.
LEMMA NewFlags ==
  ASSUME NEW x \in Record, NEW f
  PROVE  [x EXCEPT !.flags = f] = [flags |-> f, effects |-> x.effects]
BY DEF Record

LEMMA NewEffects ==
  ASSUME NEW x \in Record, NEW e
  PROVE  [x EXCEPT !.effects = e] = [flags |-> x.flags, effects |-> e]
BY DEF Record

\* What a blow does to the flags and effects of who is struck; nobody else is concerned.
LEMMA HitFacts ==
  ASSUME NEW st \in [here -> Record], NEW s \in here, NEW dies \in BOOLEAN
  PROVE  LET new == Hit(st, s, dies)
         IN /\ new \in [here -> Record]
            /\ \A x \in here \ {s} : new[x] = st[x]
            /\ st[s].flags \subseteq new[s].flags
            /\ Lost(new, s) => Lost(st, s) \/ s \in Spellbound(st, {s})
            /\ Under(st, s, "PARALYZE") => Has(new, s, "RETALIATED")
            /\ new[s].effects \subseteq st[s].effects
<1> DEFINE lostTurn == IF st[s].effects \ {"SLOW"} # {} THEN {"MAYBE_NOT_LOST_TURN"} ELSE {}
           lostAnswer == IF st[s].effects \cap {"PARALYZE", "HYPNOTIZE"} # {}
                           THEN {"RETALIATED"} ELSE {}
           death == IF dies THEN {"DEAD"} ELSE {}
           flags == st[s].flags \cup lostTurn \cup lostAnswer \cup death
           effects == st[s].effects \ {"BLIND", "PARALYZE"}
           new == Hit(st, s, dies)
<1>1. st[s] \in Record /\ st[s].flags \in SUBSET Flag /\ st[s].effects \in SUBSET Effect
  BY DEF Record
<1>2. flags \in SUBSET Flag /\ effects \in SUBSET Effect
  BY <1>1
<1>3. new = [st EXCEPT ![s] = [flags |-> flags, effects |-> effects]]
  <2>1. new = [st EXCEPT ![s].flags = flags, ![s].effects = effects]
    BY DEF Hit
  <2> HIDE DEF new, flags, effects
  <2> DEFINE st1 == [st EXCEPT ![s].flags = flags]
  <2>2. st1 = [st EXCEPT ![s] = [flags |-> flags, effects |-> st[s].effects]]
    <3>1. st1 = [st EXCEPT ![s] = [st[s] EXCEPT !.flags = flags]]
      BY Zenon
    <3>2. [st[s] EXCEPT !.flags = flags] = [flags |-> flags, effects |-> st[s].effects]
      BY <1>1, NewFlags
    <3> QED
      BY <3>1, <3>2
  <2>3. new = [st1 EXCEPT ![s].effects = effects]
    BY <2>1, <2>2
  <2>4. st1[s] \in Record /\ st1 \in [here -> Record]
    BY <1>1, <1>2, <2>2 DEF Record
  <2> HIDE DEF st1
  <2>5. [st1[s] EXCEPT !.effects = effects] = [flags |-> flags, effects |-> effects]
    BY <2>4, <2>2, NewEffects
  <2>6. new = [st1 EXCEPT ![s] = [st1[s] EXCEPT !.effects = effects]]
    BY <2>3, <2>4
  <2> QED
    BY <2>6, <2>5, <2>4, <2>2
<1>4. "MAYBE_NOT_LOST_TURN" \in flags =>
        "MAYBE_NOT_LOST_TURN" \in st[s].flags \/ st[s].effects \ {"SLOW"} # {}
  OBVIOUS
<1>5. "PARALYZE" \in st[s].effects => "RETALIATED" \in flags
  OBVIOUS
<1>6. st[s].flags \subseteq flags /\ effects \subseteq st[s].effects
  OBVIOUS
<1> HIDE DEF flags, effects, new
<1>7. new \in [here -> Record] /\ \A x \in here \ {s} : new[x] = st[x]
  BY <1>2, <1>3 DEF Record
<1>8. new[s].flags = flags /\ new[s].effects = effects
  BY <1>3
<1>9. st[s].effects \ {"SLOW"} # {} => s \in Spellbound(st, {s})
  BY <1>1 DEF Spellbound
<1> QED
  BY <1>4, <1>5, <1>6, <1>7, <1>8, <1>9 DEF new, Lost, Has, Under

\* ... and what else a cyclops does.
LEMMA BlowFacts ==
  ASSUME NEW st \in [here -> Record], NEW a \in here, NEW t \in here,
         NEW c \in Blow(st, a, t)
  PROVE  /\ c.stack \in [here -> Record]
         /\ \A x \in here \ {t} : c.stack[x] = st[x]
         /\ st[t].flags \subseteq c.stack[t].flags
         /\ Lost(c.stack, t) => Lost(st, t) \/ t \in Spellbound(st, {t})
         /\ Under(st, t, "PARALYZE") => Has(c.stack, t, "RETALIATED")
         /\ a \notin Paralyzers => c.stack[t].effects \subseteq st[t].effects
<1>1. CASE \E dies \in BOOLEAN : c.stack = Hit(st, t, dies)
  BY <1>1, HitFacts
<1>2. CASE /\ a \in Paralyzers
           /\ \E dies \in BOOLEAN : c.stack = Enchant(Hit(st, t, dies), t, "PARALYZE")
  <2>1. PICK dies \in BOOLEAN : c.stack = Enchant(Hit(st, t, dies), t, "PARALYZE")
    BY <1>2
  <2> DEFINE new == Hit(st, t, dies)
  <2>2. /\ new \in [here -> Record]
        /\ \A x \in here \ {t} : new[x] = st[x]
        /\ st[t].flags \subseteq new[t].flags
        /\ Lost(new, t) => Lost(st, t) \/ t \in Spellbound(st, {t})
        /\ Under(st, t, "PARALYZE") => Has(new, t, "RETALIATED")
    BY HitFacts
  <2> HIDE DEF new
  <2>3. c.stack = [new EXCEPT ![t] = [flags |-> new[t].flags,
                                      effects |-> new[t].effects \cup {"PARALYZE"}]]
    <3>1. c.stack = [new EXCEPT ![t].effects = new[t].effects \cup {"PARALYZE"}]
      BY <2>1, <2>2 DEF Enchant, new
    <3>2. c.stack = [new EXCEPT ![t] = [new[t] EXCEPT !.effects = new[t].effects \cup {"PARALYZE"}]]
      BY <3>1
    <3>3. new[t] \in Record
      BY <2>2
    <3>4. [new[t] EXCEPT !.effects = new[t].effects \cup {"PARALYZE"}]
            = [flags |-> new[t].flags, effects |-> new[t].effects \cup {"PARALYZE"}]
      BY <3>3, NewEffects
    <3> QED
      BY <3>2, <3>4
  <2>4. /\ c.stack \in [here -> Record] /\ c.stack[t].flags = new[t].flags
        /\ \A x \in here \ {t} : c.stack[x] = new[x]
    BY <2>2, <2>3 DEF Record
  <2> QED
    BY <1>2, <2>2, <2>4 DEF Lost, Has
<1> QED
  <2>1. CASE c \in {[stack |-> Hit(st, t, dies), stopped |-> FALSE] : dies \in BOOLEAN}
    BY <1>1, <2>1
  <2>2. CASE a \in Paralyzers /\ c \in {[stack |-> Enchant(Hit(st, t, FALSE), t, "PARALYZE"),
                                        stopped |-> TRUE]}
    <3>1. c.stack = Enchant(Hit(st, t, FALSE), t, "PARALYZE")
      <4> DEFINE struck == Enchant(Hit(st, t, FALSE), t, "PARALYZE")
      <4>1. c \in {[stack |-> struck, stopped |-> TRUE]}
        BY <2>2
      <4> HIDE DEF struck
      <4>2. c.stack = struck
        BY <4>1
      <4> QED
        BY <4>2 DEF struck
    <3>2. PICK no \in BOOLEAN : no = FALSE
      OBVIOUS
    <3>3. Hit(st, t, FALSE) = Hit(st, t, no)
      BY <3>2, Zenon
    <3> QED
      BY <1>2, <2>2, <3>1, <3>3
  <2> QED
    BY <2>1, <2>2, Zenon DEF Blow

\* The fields of what DoAttack returns.
LEMMA Fields ==
  ASSUME NEW S, NEW yes, NEW no, NEW Z, NEW w
  PROVE  LET y == [stack |-> S, answered |-> yes, twice |-> no]
         IN /\ y.stack = S /\ y.answered = yes
            /\ [y EXCEPT !.stack = Z, !.twice = w].stack = Z
            /\ [y EXCEPT !.stack = Z, !.twice = w].answered = yes
OBVIOUS

\* The three calls of DoAttack, one inside the other, laid end to end.
LEMMA DoAttackSteps ==
  ASSUME NEW st, NEW a, NEW t, NEW close, NEW x \in DoAttack(st, a, t, close)
  PROVE  \E b \in Blow(st, a, t) : \E y :
           /\ \/ y = b.stack /\ ~x.answered
              \/ /\ Answers(b, a, t, close)
                 /\ \E c \in Blow(b.stack, t, a) : y = HasAnswered(c.stack, a, t)
           /\ \/ x.stack = y
              \/ /\ StrikesTwice(y, a, t)
                 /\ \E d \in Blow(y, a, t) : x.stack = d.stack
<1> DEFINE Answer(b) == {[stack |-> HasAnswered(c.stack, a, t), answered |-> TRUE,
                          twice |-> FALSE] : c \in Blow(b.stack, t, a)}
           NoAnswer(b) == [stack |-> b.stack, answered |-> FALSE, twice |-> FALSE]
           answers == UNION {IF Answers(b, a, t, close) THEN Answer(b) ELSE {NoAnswer(b)} :
                             b \in Blow(st, a, t)}
           Again(y, d) == [y EXCEPT !.stack = d.stack, !.twice = TRUE]
<1>1. PICK y \in answers :
        IF StrikesTwice(y.stack, a, t) THEN \E d \in Blow(y.stack, a, t) : x = Again(y, d)
                                       ELSE x = y
  BY Zenon DEF DoAttack
<1>2. PICK b \in Blow(st, a, t) :
        IF Answers(b, a, t, close)
          THEN \E c \in Blow(b.stack, t, a) :
                 y = [stack |-> HasAnswered(c.stack, a, t), answered |-> TRUE, twice |-> FALSE]
          ELSE y = NoAnswer(b)
  BY Zenon
<1>3. \/ y.stack = b.stack /\ ~y.answered
      \/ /\ Answers(b, a, t, close)
         /\ \E c \in Blow(b.stack, t, a) : y.stack = HasAnswered(c.stack, a, t)
  <2>1. CASE y = NoAnswer(b)
    <3>1. y.stack = b.stack /\ (y.answered <=> FALSE)
      BY <2>1, Zenon
    <3> QED
      BY <3>1
  <2>2. CASE /\ Answers(b, a, t, close)
             /\ \E c \in Blow(b.stack, t, a) :
                  y = [stack |-> HasAnswered(c.stack, a, t), answered |-> TRUE, twice |-> FALSE]
    <3>1. PICK c \in Blow(b.stack, t, a) :
            y = [stack |-> HasAnswered(c.stack, a, t), answered |-> TRUE, twice |-> FALSE]
      BY <2>2, Zenon
    <3>2. y.stack = HasAnswered(c.stack, a, t)
      BY <3>1, Zenon
    <3> QED
      BY <2>2, <3>2
  <2> QED
    BY <1>2, <2>1, <2>2, Zenon
<1>4. \/ x.stack = y.stack /\ x.answered = y.answered
      \/ /\ StrikesTwice(y.stack, a, t)
         /\ \E d \in Blow(y.stack, a, t) : x.stack = d.stack /\ x.answered = y.answered
  <2>1. PICK S, yes, no : y = [stack |-> S, answered |-> yes, twice |-> no]
    BY <1>2, Zenon
  <2>2. ASSUME NEW d, x = Again(y, d)
        PROVE  x.stack = d.stack /\ x.answered = y.answered
    <3>1. PICK w : x = [y EXCEPT !.stack = d.stack, !.twice = w]
      BY <2>2, Zenon
    <3> QED
      BY <2>1, <3>1, Fields
  <2> QED
    BY <1>1, <2>2, Zenon
<1> QED
  BY <1>3, <1>4

\* What an exchange of blows does to everybody's flags.
LEMMA DoAttackFacts ==
  ASSUME NEW st \in [here -> Record], NEW a \in here, NEW t \in here, a # t,
         NEW close, NEW x \in DoAttack(st, a, t, close)
  PROVE  /\ x.stack \in [here -> Record]
         /\ \A s \in here : st[s].flags \subseteq x.stack[s].flags
         /\ \A s \in here : Lost(x.stack, s) => Lost(st, s) \/ s \in Spellbound(st, {a, t})
         /\ x.answered => Has(x.stack, t, "RETALIATED")
         /\ x.answered /\ t \notin Griffins =>
              ~Has(st, t, "RETALIATED") /\ ~Under(st, t, "PARALYZE")
<1>0. PICK b \in Blow(st, a, t) : \E y :
           /\ \/ y = b.stack /\ ~x.answered
              \/ /\ Answers(b, a, t, close)
                 /\ \E c \in Blow(b.stack, t, a) : y = HasAnswered(c.stack, a, t)
           /\ \/ x.stack = y
              \/ /\ StrikesTwice(y, a, t)
                 /\ \E d \in Blow(y, a, t) : x.stack = d.stack
  BY DoAttackSteps
<1>1. PICK y :
           /\ \/ y = b.stack /\ ~x.answered
              \/ /\ Answers(b, a, t, close)
                 /\ \E c \in Blow(b.stack, t, a) : y = HasAnswered(c.stack, a, t)
           /\ \/ x.stack = y
              \/ /\ StrikesTwice(y, a, t)
                 /\ \E d \in Blow(y, a, t) : x.stack = d.stack
  BY <1>0, Zenon
<1>2. /\ b.stack \in [here -> Record]
      /\ \A s \in here \ {t} : b.stack[s] = st[s]
      /\ st[t].flags \subseteq b.stack[t].flags
      /\ Lost(b.stack, t) => Lost(st, t) \/ t \in Spellbound(st, {t})
      /\ Under(st, t, "PARALYZE") => Has(b.stack, t, "RETALIATED")
      /\ a \notin Paralyzers => b.stack[t].effects \subseteq st[t].effects
  BY BlowFacts
<1>3. \A s \in here, Q \in SUBSET here : s \in Spellbound(st, {s}) /\ s \in Q => s \in Spellbound(st, Q)
  BY DEF Spellbound
\* After the answer, if there is one.
<1>4. /\ y \in [here -> Record]
      /\ \A s \in here \ {a, t} : y[s] = st[s]
      /\ \A s \in {a, t} : st[s].flags \subseteq y[s].flags
      /\ \A s \in {a, t} : Lost(y, s) => Lost(st, s) \/ s \in Spellbound(st, {a, t})
      /\ y[t].effects = b.stack[t].effects
      /\ x.answered => Has(y, t, "RETALIATED") /\ Answers(b, a, t, close)
  <2>1. CASE y = b.stack /\ ~x.answered
    BY <1>2, <1>3, <2>1 DEF Lost, Has
  <2>2. CASE /\ Answers(b, a, t, close)
             /\ \E c \in Blow(b.stack, t, a) : y = HasAnswered(c.stack, a, t)
    <3>1. PICK c \in Blow(b.stack, t, a) : y = HasAnswered(c.stack, a, t)
      BY <2>2
    <3>2. /\ c.stack \in [here -> Record]
          /\ \A s \in here \ {a} : c.stack[s] = b.stack[s]
          /\ b.stack[a].flags \subseteq c.stack[a].flags
          /\ Lost(c.stack, a) => Lost(b.stack, a) \/ a \in Spellbound(b.stack, {a})
      <4>1. b.stack \in [here -> Record]
        BY <1>2
      <4> QED
        BY <3>1, <4>1, BlowFacts
    <3>3. y = [c.stack EXCEPT ![t] = [flags |-> c.stack[t].flags \cup {"RETALIATED"},
                                      effects |-> c.stack[t].effects]]
      <4>1. y = [c.stack EXCEPT ![t].flags = c.stack[t].flags \cup {"RETALIATED"}]
        BY <3>1, <3>2 DEF HasAnswered, Mark
      <4>2. y = [c.stack EXCEPT ![t] = [c.stack[t] EXCEPT !.flags = c.stack[t].flags \cup {"RETALIATED"}]]
        BY <4>1, <3>2
      <4>3. c.stack[t] \in Record
        BY <3>2
      <4>4. [c.stack[t] EXCEPT !.flags = c.stack[t].flags \cup {"RETALIATED"}]
              = [flags |-> c.stack[t].flags \cup {"RETALIATED"}, effects |-> c.stack[t].effects]
        BY <4>3, NewFlags
      <4> QED
        BY <4>2, <4>4
    <3>4. /\ y \in [here -> Record] /\ y[t].flags = c.stack[t].flags \cup {"RETALIATED"}
          /\ y[t].effects = c.stack[t].effects
          /\ \A s \in here \ {t} : y[s] = c.stack[s]
      BY <3>2, <3>3 DEF Record
    <3>5. a \in Spellbound(b.stack, {a}) => a \in Spellbound(st, {a, t})
      BY <1>2 DEF Spellbound
    <3>6. t \in Spellbound(st, {t}) => t \in Spellbound(st, {a, t})
      BY <1>3
    <3> QED
      BY <1>2, <2>2, <3>2, <3>4, <3>5, <3>6 DEF Lost, Has
  <2> QED
    BY <1>1, <2>1, <2>2
<1>5. CASE x.stack = y
  <2>1. x.answered => Has(x.stack, t, "RETALIATED")
    BY <1>4, <1>5
  <2> QED
    BY <1>2, <1>4, <1>5, <2>1 DEF Answers, Lost, Has
\* The second blow: of a stack that is no cyclops, so the first one has added no effect.
<1>6. CASE /\ StrikesTwice(y, a, t)
           /\ \E d \in Blow(y, a, t) : x.stack = d.stack
  <2>1. PICK d \in Blow(y, a, t) : x.stack = d.stack
    BY <1>6
  <2>2. /\ d.stack \in [here -> Record]
        /\ \A s \in here \ {t} : d.stack[s] = y[s]
        /\ y[t].flags \subseteq d.stack[t].flags
        /\ Lost(d.stack, t) => Lost(y, t) \/ t \in Spellbound(y, {t})
    <3>1. ASSUME NEW z \in [here -> Record], NEW e \in Blow(z, a, t)
          PROVE  /\ e.stack \in [here -> Record]
                 /\ \A s \in here \ {t} : e.stack[s] = z[s]
                 /\ z[t].flags \subseteq e.stack[t].flags
                 /\ Lost(e.stack, t) => Lost(z, t) \/ t \in Spellbound(z, {t})
                 /\ Under(z, t, "PARALYZE") => Has(e.stack, t, "RETALIATED")
                 /\ a \notin Paralyzers => e.stack[t].effects \subseteq z[t].effects
      BY BlowFacts
    <3>2. y \in [here -> Record]
      BY <1>4
    <3> QED
      BY <2>1, <3>1, <3>2, Zenon
  <2>3. y[t].effects \subseteq st[t].effects
    BY <1>2, <1>4, <1>6, StacksAssumption DEF StrikesTwice
  <2>4. t \in Spellbound(y, {t}) => t \in Spellbound(st, {a, t})
    BY <2>3 DEF Spellbound
  <2> QED
    BY <1>2, <1>4, <2>1, <2>2, <2>4 DEF Answers, Lost, Has
<1> QED
  BY <1>1, <1>5, <1>6

-----------------------------------------------------------------------------
(* Whose turn is next *)

\* The first of some stacks is one of them.
LEMMA FirstIsOne ==
  ASSUME here \in Lineups, NEW st, NEW candidates \in SUBSET here
  PROVE  /\ candidates = {} => FirstOf(st, candidates) = None
         /\ candidates # {} => FirstOf(st, candidates) \in candidates
<1> DEFINE R == {p \in Nat \X Nat : p[1] < p[2]}
           T == {Place(st, s) : s \in candidates}
<1>1. IsWellFoundedOn(R, Nat)
  BY NatLessThanWellFounded DEF OpToRel
<1>2. \A s \in candidates : Place(st, s) \in Nat
  <2> SUFFICES ASSUME NEW s \in candidates PROVE Place(st, s) \in Nat
    OBVIOUS
  <2>1. s \in Stacks
    BY StacksAssumption
  <2>2. Index[s] \in Nat /\ Speed[s] \in 1..14
    BY <2>1, StacksAssumption DEF MAX_STACKS
  <2>3. SpeedOf(st, s) \in 0..14
    BY <2>2 DEF SpeedOf
  <2> DEFINE pass == IF Has(st, s, "HAS_GOOD_MORALE") THEN 0 ELSE 15 - SpeedOf(st, s)
             second == IF Side[s] = Side[active] THEN 1 ELSE 0
  <2>4. pass \in Nat /\ second \in Nat
    BY <2>3
  <2>5. Place(st, s) = (pass * 2 + second) * MAX_STACKS + Index[s]
    BY DEF Place
  <2> HIDE DEF pass, second
  <2> QED
    BY <2>2, <2>4, <2>5 DEF MAX_STACKS
<1>3. ASSUME candidates # {}
      PROVE  \E s \in candidates : \A t \in candidates : Place(st, s) <= Place(st, t)
  <2>1. T \in SUBSET Nat /\ T # {}
    BY <1>2, <1>3
  <2> HIDE DEF R, T
  <2>2. PICK i \in T : \A j \in T : ~(<<j, i>> \in R)
    BY <1>1, <2>1, WFMin
  <2>3. PICK s \in candidates : i = Place(st, s)
    BY <2>2 DEF T
  <2>4. ASSUME NEW t \in candidates PROVE Place(st, s) <= Place(st, t)
    <3>1. Place(st, t) \in T /\ Place(st, t) \in Nat /\ i \in Nat
      BY <1>2, <2>1, <2>2 DEF T
    <3>2. ~(Place(st, t) < i)
      BY <2>2, <3>1 DEF R
    <3> QED
      BY <2>3, <3>1, <3>2
  <2> QED
    BY <2>4
<1> QED
  BY <1>3 DEF FirstOf

\* Some stacks lose their turns.
Panicked(st, frozen) ==
  [s \in here |-> IF s \in frozen
                    THEN [st[s] EXCEPT !.flags = @ \cup {"MAYBE_NOT_LOST_TURN"}]
                    ELSE st[s]]

\* Nobody is waiting any more.
AskedAgain(st) == [s \in here |-> [st[s] EXCEPT !.flags = @ \ {"WAITING"}]]

\* How GetNextArmy changes the flags: `new' is what it makes of st.
Passed(st, new) ==
  /\ new \in [here -> Record]
  /\ \A s \in here :
       /\ new[s].effects = st[s].effects
       /\ Has(new, s, "DEAD") <=> Has(st, s, "DEAD")
       /\ Has(new, s, "RETALIATED") <=> Has(st, s, "RETALIATED")
       /\ Lost(st, s) => Lost(new, s)
       /\ Lost(new, s) => Lost(st, s) \/ Morale[s] < 0

LEMMA PanickedFacts ==
  ASSUME NEW st \in [here -> Record],
         NEW frozen \in SUBSET {s \in here : Morale[s] < 0}
  PROVE  /\ Passed(st, Panicked(st, frozen))
         /\ \A s \in here \ frozen : Panicked(st, frozen)[s] = st[s]
<1> DEFINE new == Panicked(st, frozen)
<1>1. new = [s \in here |->
               IF s \in frozen
                 THEN [flags |-> st[s].flags \cup {"MAYBE_NOT_LOST_TURN"},
                       effects |-> st[s].effects]
                 ELSE st[s]]
  <2>1. \A s \in here : [st[s] EXCEPT !.flags = st[s].flags \cup {"MAYBE_NOT_LOST_TURN"}]
                          = [flags |-> st[s].flags \cup {"MAYBE_NOT_LOST_TURN"},
                             effects |-> st[s].effects]
    BY NewFlags
  <2> QED
    BY <2>1 DEF Panicked
<1> HIDE DEF new
<1>2. new \in [here -> Record]
  BY <1>1 DEF Record
<1>3. \A s \in here \ frozen : new[s] = st[s]
  BY <1>1
<1>4. \A s \in frozen : /\ new[s].flags = st[s].flags \cup {"MAYBE_NOT_LOST_TURN"}
                         /\ new[s].effects = st[s].effects
  BY <1>1
<1>5. Passed(st, new)
  BY <1>2, <1>3, <1>4 DEF Passed, Has, Lost
<1> QED
  BY <1>3, <1>5 DEF new

LEMMA AskedAgainFacts ==
  ASSUME NEW st \in [here -> Record]
  PROVE  Passed(st, AskedAgain(st))
<1> DEFINE new == AskedAgain(st)
<1>1. new = [s \in here |-> [flags |-> st[s].flags \ {"WAITING"}, effects |-> st[s].effects]]
  <2>1. \A s \in here : [st[s] EXCEPT !.flags = st[s].flags \ {"WAITING"}]
                          = [flags |-> st[s].flags \ {"WAITING"}, effects |-> st[s].effects]
    BY NewFlags
  <2> QED
    BY <2>1 DEF AskedAgain
<1> HIDE DEF new
<1>2. new \in [here -> Record]
  BY <1>1 DEF Record
<1>3. \A s \in here : /\ new[s].flags = st[s].flags \ {"WAITING"}
                       /\ new[s].effects = st[s].effects
  BY <1>1
<1>4. Passed(st, new)
  BY <1>2, <1>3 DEF Passed, Has, Lost
<1> QED
  BY <1>4 DEF new

\* Whoever GetNextArmy chooses may act; it takes turns from stacks of bad morale only.
LEMMA GetNextArmyFacts ==
  ASSUME here \in Lineups, NEW st \in [here -> Record], NEW r \in GetNextArmy(st)
  PROVE  /\ Passed(st, r.stack)
         /\ r.next = None \/ (r.next \in here /\ May(r.stack, r.next))
<1> DEFINE may == {s \in here : May(st, s)}
           Next1(panicking) == FirstOf(st, may \ panicking)
           Frozen(panicking) == {s \in panicking : Next1(panicking) # None
                                                     => Place(st, s) < Place(st, Next1(panicking))}
           St1(panicking) == Panicked(st, Frozen(panicking))
           St2(panicking) == AskedAgain(St1(panicking))
           Next2(panicking) == FirstOf(St2(panicking), {s \in here : May(St2(panicking), s)})
<1>1. PICK panicking \in SUBSET {s \in may : Morale[s] < 0} :
        r = IF Next1(panicking) # None
              THEN [stack |-> St1(panicking), next |-> Next1(panicking)]
              ELSE [stack |-> St2(panicking), next |-> Next2(panicking)]
  BY Zenon DEF GetNextArmy, Panicked, AskedAgain
<1> DEFINE next == Next1(panicking)
           frozen == Frozen(panicking)
           st1 == St1(panicking)
           st2 == St2(panicking)
<1>2. frozen \in SUBSET {s \in here : Morale[s] < 0}
  BY <1>1
<1>3. Passed(st, st1) /\ \A s \in here \ frozen : st1[s] = st[s]
  BY <1>2, PanickedFacts
<1>4. Passed(st1, st2)
  <2>1. st1 \in [here -> Record]
    BY <1>3 DEF Passed
  <2> QED
    BY <2>1, AskedAgainFacts
<1>5. CASE next # None
  <2>1. r.stack = st1 /\ r.next = next
    BY <1>1, <1>5
  <2>2. next \in may \ panicking
    BY <1>5, FirstIsOne
  <2>3. next \notin frozen
    BY <2>2
  <2>4. st1[next] = st[next]
    BY <1>3, <2>2, <2>3
  <2>5. May(st1, next)
    BY <2>2, <2>4 DEF May, Disabled, Under, Has, SpeedOf
  <2> QED
    BY <1>3, <2>1, <2>2, <2>5
<1>6. CASE next = None
  <2>1. r.stack = st2 /\ r.next = Next2(panicking)
    BY <1>1, <1>6
  <2>2. Next2(panicking) = None \/ (Next2(panicking) \in here /\ May(st2, Next2(panicking)))
    BY FirstIsOne
  <2>3. Passed(st, st2)
    BY <1>3, <1>4 DEF Passed
  <2> QED
    BY <2>1, <2>2, <2>3
<1> QED
  BY <1>5, <1>6

\* Passing over stacks disturbs none of the books: it takes no flag that counts away.
LEMMA PassedKeepsBooks ==
  ASSUME NEW st, NEW new, NEW h, NEW bonus, Books(st, h, bonus), Passed(st, new)
  PROVE  Books(new, h, bonus) /\ Alive(new) = Alive(st) /\ (Over(new) <=> Over(st))
<1>1. Alive(new) = Alive(st)
  BY DEF Alive, Passed
<1>2. Excused(new, h)
  BY <1>1 DEF Books, Excused, Passed, Alive
<1>3. Answered(new, h) /\ Spent(new, h)
  BY DEF Books, Answered, Spent, Passed
<1>4. InARow(new, h, bonus)
  BY DEF Books, InARow, Passed, History
<1>5. Over(new) <=> Over(st)
  BY <1>1 DEF Over
<1> QED
  BY <1>1, <1>2, <1>3, <1>4, <1>5 DEF Books, Passed

\* At the beginning of a round there is nothing to account for.
LEMMA NewRoundBooks ==
  ASSUME here \in Lineups, NEW st \in [here -> Record], NEW bonus,
         \A s \in Alive(st) : Lost(st, s) => Morale[s] < 0
  PROVE  Books(st, NewRound, bonus)
<1>1. NewRound \in History
  BY StacksAssumption DEF NewRound, History
<1>2. /\ \A s \in here : NewRound.turns[s] = 0 /\ NewRound.answers[s] = 0
      /\ NewRound.last = None /\ NewRound.streak = 0
  BY DEF NewRound
<1> QED
  BY <1>1, <1>2 DEF Books, Excused, Answered, Spent, InARow

LEMMA ResetRoundFacts ==
  ASSUME NEW st \in [here -> Record], NEW gone
  PROVE  LET new == ResetRound(st, gone)
         IN /\ new \in [here -> Record] /\ Alive(new) = Alive(st)
            /\ \A s \in Alive(new) : ~Lost(new, s)
<1> DEFINE new == ResetRound(st, gone)
<1>1. new \in [here -> Record]
  BY DEF ResetRound, Record
<1>2. \A s \in here : s \notin Alive(st) => new[s] = st[s]
  BY DEF ResetRound
<1>3. \A s \in Alive(st) :
        new[s].flags = st[s].flags \ {"HAS_GOOD_MORALE", "RETALIATED", "MAYBE_NOT_LOST_TURN"}
  BY DEF ResetRound, Alive
<1> HIDE DEF new
<1>4. Alive(new) = Alive(st)
  BY <1>2, <1>3 DEF Alive, Has
<1>5. \A s \in Alive(new) : ~Lost(new, s)
  BY <1>3, <1>4 DEF Lost, Has
<1> QED
  BY <1>1, <1>4, <1>5 DEF new

\* Who is chosen may have the turn, and use it if its own side commands it.
LEMMA ActivateFacts ==
  ASSUME here \in Lineups, active \in here, currentActionSide \in {0, 1},
         NEW r, NEW h, NEW bonus, Books(r.stack, h, bonus),
         r.next = None \/ (r.next \in here /\ May(r.stack, r.next)),
         r.next = None => Due(r.stack, h, active, bonus),
         Activate(r)
  PROVE  /\ stack' = r.stack /\ active' \in here /\ currentActionSide' \in {0, 1}
         /\ found' \in BOOLEAN
         /\ Due(stack', h, active', bonus)
         /\ Free(stack', active', currentActionSide', found')
<1>1. here \subseteq Stacks /\ None \notin Stacks
  BY StacksAssumption
<1>2. stack' = r.stack /\ found' \in BOOLEAN /\ (found' <=> r.next # None)
  BY DEF Activate
<1>3. CASE r.next = None
  <2>1. active' = active /\ currentActionSide' = currentActionSide /\ ~found'
    BY <1>2, <1>3 DEF Activate
  <2> QED
    BY <1>2, <1>3, <2>1 DEF Free
<1>4. CASE r.next # None
  <2> DEFINE next == r.next
  <2>1. next \in here /\ May(r.stack, next) /\ next \in Stacks
    BY <1>1, <1>4
  <2>2. active' = next
    BY <1>4 DEF Activate
  <2>3. currentActionSide' = IF Under(r.stack, next, "HYPNOTIZE") THEN 1 - Side[next]
                                                                ELSE Side[next]
    BY <1>4 DEF Activate
  <2>4. Side[next] \in {0, 1}
    BY <2>1, StacksAssumption
  <2> HIDE DEF next
  <2>5. currentActionSide' \in {0, 1}
    BY <2>3, <2>4
  <2>6. currentActionSide' = Side[next] => ~Under(r.stack, next, "HYPNOTIZE")
    BY <2>3, <2>4
  <2>7. /\ next \in Alive(r.stack) /\ ~Lost(r.stack, next)
        /\ ~Under(r.stack, next, "BLIND") /\ ~Under(r.stack, next, "PARALYZE")
    BY <2>1 DEF May, Alive, Lost, Has, Disabled
  <2>8. r.stack[next].effects \subseteq Effect
    BY <2>1 DEF Books, Record
  <2>9. Free(r.stack, next, currentActionSide', found')
    BY <2>6, <2>7, <2>8 DEF Free, Under
  <2>10. h.turns[next] \in 0..2
    BY <2>1 DEF Books, History
  <2>11. Due(r.stack, h, next, bonus)
    <3>1. Morale[next] > 0 \/ h.turns[next] = 0
      BY <2>1, <2>7, <2>10 DEF Books, Spent
    <3>2. h.last = next => bonus /\ h.streak <= 1
      BY <1>1, <2>1, <2>7 DEF Books, InARow
    <3> QED
      BY <3>1, <3>2 DEF Due
  <2> QED
    BY <1>2, <2>1, <2>2, <2>5, <2>9, <2>11
<1> QED
  BY <1>3, <1>4

\* The books balance after the turn has passed on, in this round or a new one, if they
\* balance before.
LEMMA NextTurnInv ==
  ASSUME TypeOK, NEW st, NEW h, NEW cast \in SUBSET {0, 1},
         Books(st, h, bInHighMoraleBonus'), NextTurn(st, h, cast),
         here' = here, bInHighMoraleBonus' \in BOOLEAN, gCloseMove' \in BOOLEAN,
         engaged' \in BOOLEAN
  PROVE  /\ Inv'
         /\ \/ history' = h
            \/ history' = NewRound
<1> DEFINE bonus == bInHighMoraleBonus'
<1> SUFFICES /\ stack' \in [here -> Record] /\ active' \in here
             /\ currentActionSide' \in {0, 1} /\ hasCast' \subseteq {0, 1}
             /\ found' \in BOOLEAN
             /\ Books(stack', history', bonus)
             /\ Due(stack', history', active', bonus)
             /\ Free(stack', active', currentActionSide', found')
             /\ history' = h \/ history' = NewRound
  <2>1. here' \in Lineups
    BY DEF TypeOK
  <2>2. TypeOK'
    BY <2>1 DEF TypeOK, Books, History, Record
  <2>3. Books(stack, history, bInHighMoraleBonus)'
    BY DEF Books, History, Excused, Answered, Spent, InARow, Alive, Lost, Has
  <2>4. Due(stack, history, active, bInHighMoraleBonus)'
    BY DEF Due, Over, Alive, Has
  <2>5. Free(stack, active, currentActionSide, found)'
    BY DEF Free, Over, Alive, Lost, Has
  <2> QED
    BY <2>2, <2>3, <2>4, <2>5 DEF Inv
<1>1. here \in Lineups /\ active \in here /\ currentActionSide \in {0, 1} /\ found \in BOOLEAN
  BY DEF TypeOK
<1>2. st \in [here -> Record]
  BY DEF Books
<1>3. CASE Over(st)
  <2>1. /\ stack' = st /\ history' = h /\ hasCast' = cast /\ active' = active
        /\ currentActionSide' = currentActionSide /\ found' = found
    BY <1>3 DEF NextTurn
  <2> QED
    BY <1>1, <1>2, <1>3, <2>1 DEF Due, Free
<1>4. CASE ~Over(st)
  <2>1. PICK r \in GetNextArmy(st) :
          \/ /\ r.next # None
             /\ Activate(r) /\ history' = h /\ hasCast' = cast
          \/ /\ r.next = None
             /\ \E gone \in SUBSET InPlay(st) :
                  \E again \in GetNextArmy(ResetRound(r.stack, gone)) : Activate(again)
             /\ history' = NewRound /\ hasCast' = {}
    BY <1>4 DEF NextTurn
  <2>2. /\ Passed(st, r.stack)
        /\ r.next = None \/ (r.next \in here /\ May(r.stack, r.next))
    BY <1>1, <1>2, GetNextArmyFacts
  <2>3. Books(r.stack, h, bonus)
    BY <2>2, PassedKeepsBooks
  <2>4. CASE /\ r.next # None
             /\ Activate(r) /\ history' = h /\ hasCast' = cast
    <3>1. /\ stack' = r.stack /\ active' \in here /\ currentActionSide' \in {0, 1}
          /\ found' \in BOOLEAN
          /\ Due(stack', h, active', bonus)
          /\ Free(stack', active', currentActionSide', found')
      BY <1>1, <2>2, <2>3, <2>4, ActivateFacts
    <3> QED
      BY <2>3, <2>4, <3>1 DEF Books
  <2>5. CASE /\ r.next = None
             /\ \E gone \in SUBSET InPlay(st) :
                  \E again \in GetNextArmy(ResetRound(r.stack, gone)) : Activate(again)
             /\ history' = NewRound /\ hasCast' = {}
    <3>1. PICK gone \in SUBSET InPlay(st) :
            \E again \in GetNextArmy(ResetRound(r.stack, gone)) : Activate(again)
      BY <2>5
    <3> DEFINE st1 == ResetRound(r.stack, gone)
    <3>2. PICK again \in GetNextArmy(st1) : Activate(again)
      BY <3>1
    <3>3. /\ st1 \in [here -> Record] /\ Alive(st1) = Alive(r.stack)
          /\ \A s \in Alive(st1) : ~Lost(st1, s)
      <4>1. r.stack \in [here -> Record]
        BY <2>2 DEF Passed
      <4> QED
        BY <4>1, ResetRoundFacts
    <3> HIDE DEF st1
    <3>4. /\ Passed(st1, again.stack)
          /\ again.next = None \/ (again.next \in here /\ May(again.stack, again.next))
      BY <1>1, <3>2, <3>3, GetNextArmyFacts
    <3>5. Books(again.stack, NewRound, bonus)
      <4>1. Books(st1, NewRound, bonus)
        BY <1>1, <3>3, NewRoundBooks
      <4> QED
        BY <3>4, <4>1, PassedKeepsBooks
    <3>6. Due(again.stack, NewRound, active, bonus)
      BY <1>1, StacksAssumption DEF Due, NewRound
    <3>7. /\ stack' = again.stack /\ active' \in here /\ currentActionSide' \in {0, 1}
          /\ found' \in BOOLEAN
          /\ Due(stack', NewRound, active', bonus)
          /\ Free(stack', active', currentActionSide', found')
      BY <1>1, <3>2, <3>4, <3>5, <3>6, ActivateFacts
    <3> QED
      BY <2>5, <3>5, <3>7 DEF Books
  <2> QED
    BY <2>1, <2>4, <2>5
<1> QED
  BY <1>3, <1>4

-----------------------------------------------------------------------------
(* The ends of turns *)

LEMMA MarkFacts ==
  ASSUME NEW st \in [here -> Record], NEW s \in here, NEW fs \in SUBSET Flag
  PROVE  LET new == Mark(st, s, fs)
         IN /\ new \in [here -> Record]
            /\ \A x \in here \ {s} : new[x] = st[x]
            /\ new[s].flags = st[s].flags \cup fs
            /\ new[s].effects = st[s].effects
<1> DEFINE new == Mark(st, s, fs)
<1>1. new = [st EXCEPT ![s] = [flags |-> st[s].flags \cup fs, effects |-> st[s].effects]]
  <2>1. new = [st EXCEPT ![s] = [st[s] EXCEPT !.flags = st[s].flags \cup fs]]
    BY DEF Mark
  <2>2. [st[s] EXCEPT !.flags = st[s].flags \cup fs]
          = [flags |-> st[s].flags \cup fs, effects |-> st[s].effects]
    BY NewFlags
  <2> QED
    BY <2>1, <2>2
<1> HIDE DEF new
<1>2. /\ new \in [here -> Record]
      /\ \A x \in here \ {s} : new[x] = st[x]
      /\ new[s].flags = st[s].flags \cup fs
      /\ new[s].effects = st[s].effects
  BY <1>1 DEF Record
<1> QED
  BY <1>2 DEF new

LEMMA UnmarkFacts ==
  ASSUME NEW st \in [here -> Record], NEW s \in here, NEW fs \in SUBSET Flag
  PROVE  LET new == Unmark(st, s, fs)
         IN /\ new \in [here -> Record]
            /\ \A x \in here \ {s} : new[x] = st[x]
            /\ new[s].flags = st[s].flags \ fs
            /\ new[s].effects = st[s].effects
<1> DEFINE new == Unmark(st, s, fs)
<1>1. new = [st EXCEPT ![s] = [flags |-> st[s].flags \ fs, effects |-> st[s].effects]]
  <2>1. new = [st EXCEPT ![s] = [st[s] EXCEPT !.flags = st[s].flags \ fs]]
    BY DEF Unmark
  <2>2. [st[s] EXCEPT !.flags = st[s].flags \ fs]
          = [flags |-> st[s].flags \ fs, effects |-> st[s].effects]
    BY NewFlags
  <2> QED
    BY <2>1, <2>2
<1> HIDE DEF new
<1>2. /\ new \in [here -> Record]
      /\ \A x \in here \ {s} : new[x] = st[x]
      /\ new[s].flags = st[s].flags \ fs
      /\ new[s].effects = st[s].effects
  BY <1>1 DEF Record
<1> QED
  BY <1>2 DEF new

\* What the history says after a turn.
LEMMA CountedFacts ==
  ASSUME NEW h \in History, active \in here
  PROVE  LET c == Counted(h)
         IN /\ c \in History /\ c.last = active /\ c.answers = h.answers
            /\ c.excused = h.excused
            /\ \A s \in here \ {active} : c.turns[s] = h.turns[s]
            /\ c.turns[active] = IF h.turns[active] = 0 THEN 1 ELSE 2
            /\ c.streak = IF h.last = active THEN h.streak + 1 ELSE 1
<1> DEFINE t == [h.turns EXCEPT ![active] = IF h.turns[active] = 0 THEN 1 ELSE 2]
           k == IF h.last = active THEN h.streak + 1 ELSE 1
           c == Counted(h)
<1>1. c = [turns |-> t, waits |-> h.waits, answers |-> h.answers, last |-> active,
           streak |-> k, excused |-> h.excused]
  <2> HIDE DEF k
  <2>1. c = [h EXCEPT !.turns = t, !.last = active, !.streak = k]
    BY DEF Counted, k
  <2> HIDE DEF t, c
  <2>2. c = [turns |-> t, waits |-> h.waits, answers |-> h.answers, last |-> active,
             streak |-> k, excused |-> h.excused]
    BY <2>1 DEF History
  <2> QED
    BY <2>2
<1>2. t \in [here -> 0..2] /\ k \in Nat
  BY DEF History
<1>3. /\ \A s \in here \ {active} : t[s] = h.turns[s]
      /\ t[active] = IF h.turns[active] = 0 THEN 1 ELSE 2
  BY DEF History
<1> HIDE DEF t, c
<1>4. c \in History
  <2> HIDE DEF k
  <2> QED
    BY <1>1, <1>2 DEF History
<1>5. /\ c.last = active /\ c.answers = h.answers /\ c.excused = h.excused
      /\ c.turns = t /\ c.streak = k
  BY <1>1
<1> QED
  BY <1>3, <1>4, <1>5 DEF c

\* A turn that was due is entered: its stack has lost it, and the books balance.
LEMMA CountedBooks ==
  ASSUME active \in here, NEW st, NEW h, NEW old, NEW bonus,
         Books(st, h, old), ~Over(stack), Due(stack, h, active, old)
  PROVE  Books(Mark(st, active, {"MAYBE_NOT_LOST_TURN"}), Counted(h), bonus)
<1> DEFINE new == Mark(st, active, {"MAYBE_NOT_LOST_TURN"})
           c == Counted(h)
<1>1. /\ new \in [here -> Record]
      /\ \A x \in here \ {active} : new[x] = st[x]
      /\ new[active].flags = st[active].flags \cup {"MAYBE_NOT_LOST_TURN"}
      /\ new[active].effects = st[active].effects
  <2>1. st \in [here -> Record]
    BY DEF Books
  <2> QED
    BY <2>1, MarkFacts
<1>2. /\ c \in History /\ c.last = active /\ c.answers = h.answers
      /\ c.excused = h.excused
      /\ \A s \in here \ {active} : c.turns[s] = h.turns[s]
      /\ c.turns[active] = IF h.turns[active] = 0 THEN 1 ELSE 2
      /\ c.streak = IF h.last = active THEN h.streak + 1 ELSE 1
  <2>1. h \in History
    BY DEF Books
  <2> QED
    BY <2>1, CountedFacts
<1>3. /\ h.turns[active] \in 0..2 /\ h.streak \in Nat
      /\ Morale[active] > 0 \/ h.turns[active] = 0
      /\ h.last = active => h.streak <= 1
  <2>1. h.turns[active] \in 0..2 /\ h.streak \in Nat
    BY DEF Books, History
  <2> QED
    BY <2>1 DEF Due
<1> HIDE DEF new, c
<1>4. Alive(new) = Alive(st)
  BY <1>1 DEF Alive, Has
<1>5. Excused(new, c)
  <2>1. Excused(st, h)
    BY DEF Books
  <2>2. c.turns[active] > 0
    BY <1>2, <1>3
  <2> QED
    BY <1>1, <1>2, <1>4, <2>1, <2>2 DEF Excused, Alive, Lost, Has
<1>6. Answered(new, c)
  BY <1>1, <1>2 DEF Books, Answered, Has
<1>7. Spent(new, c)
  <2>1. Spent(st, h)
    BY DEF Books
  <2>2. c.turns[active] > 1 => Morale[active] > 0
    BY <1>2, <1>3
  <2>3. Lost(new, active)
    BY <1>1 DEF Lost, Has
  <2> QED
    BY <1>1, <1>2, <2>1, <2>2, <2>3 DEF Spent, Lost, Has
<1>8. InARow(new, c, bonus)
  <2>1. Lost(new, active)
    BY <1>1 DEF Lost, Has
  <2>2. c.streak <= 2
    BY <1>2, <1>3
  <2> QED
    BY <1>2, <2>1, <2>2 DEF InARow
<1>9. Books(new, c, bonus)
  BY <1>1, <1>2, <1>5, <1>6, <1>7, <1>8 DEF Books
<1> QED
  BY <1>9 DEF new, c

\* Good morale gives a turn back only to a stack that has not just got one.
LEMMA MoraleFacts ==
  ASSUME active \in here, NEW st \in [here -> Record], NEW m \in CheckApplyGoodMorale(st)
  PROVE  /\ m.bonus \in BOOLEAN
         /\ \/ m.stack = st
            \/ /\ m.bonus /\ ~bInHighMoraleBonus /\ Morale[active] > 0
               /\ m.stack \in [here -> Record]
               /\ \A x \in here \ {active} : m.stack[x] = st[x]
               /\ m.stack[active].flags =
                    (st[active].flags \ {"MAYBE_NOT_LOST_TURN"}) \cup {"HAS_GOOD_MORALE"}
<1> DEFINE new == Mark(Unmark(st, active, {"MAYBE_NOT_LOST_TURN"}), active, {"HAS_GOOD_MORALE"})
<1>1. \/ m = [stack |-> st, bonus |-> FALSE]
      \/ /\ ~bInHighMoraleBonus /\ Morale[active] > 0
         /\ m = [stack |-> new, bonus |-> TRUE]
  <2> HIDE DEF new
  <2>1. CASE ~bInHighMoraleBonus /\ active \in Alive(st) /\ Morale[active] > 0
    <3>1. m \in {[stack |-> st, bonus |-> FALSE]} \cup {[stack |-> new, bonus |-> TRUE]}
      BY <2>1, Zenon DEF CheckApplyGoodMorale, new
    <3> QED
      BY <2>1, <3>1, Zenon
  <2>2. CASE ~(~bInHighMoraleBonus /\ active \in Alive(st) /\ Morale[active] > 0)
    <3>1. m \in {[stack |-> st, bonus |-> FALSE]} \cup {}
      BY <2>2, Zenon DEF CheckApplyGoodMorale
    <3> QED
      BY <3>1, Zenon
  <2> QED
    BY <2>1, <2>2, Zenon
<1>2. CASE m = [stack |-> st, bonus |-> FALSE]
  <2>1. m.stack = st /\ (m.bonus <=> FALSE) /\ m.bonus = FALSE
    BY <1>2, Zenon
  <2> QED
    BY <2>1, Zenon
<1>3. CASE /\ ~bInHighMoraleBonus /\ Morale[active] > 0
           /\ m = [stack |-> new, bonus |-> TRUE]
  <2> DEFINE z == Unmark(st, active, {"MAYBE_NOT_LOST_TURN"})
  <2>1. /\ z \in [here -> Record]
        /\ \A x \in here \ {active} : z[x] = st[x]
        /\ z[active].flags = st[active].flags \ {"MAYBE_NOT_LOST_TURN"}
        /\ z[active].effects = st[active].effects
    BY UnmarkFacts
  <2> HIDE DEF z
  <2>2. LET w == Mark(z, active, {"HAS_GOOD_MORALE"})
        IN /\ w \in [here -> Record]
           /\ \A x \in here \ {active} : w[x] = z[x]
           /\ w[active].flags = z[active].flags \cup {"HAS_GOOD_MORALE"}
           /\ w[active].effects = z[active].effects
    BY <2>1, MarkFacts
  <2>3. m.stack = Mark(z, active, {"HAS_GOOD_MORALE"})
    BY <1>3, Zenon DEF z
  <2>4. m.bonus /\ m.bonus \in BOOLEAN
    BY <1>3, Zenon
  <2> QED
    BY <1>3, <2>1, <2>2, <2>3, <2>4
<1> QED
  BY <1>1, <1>2, <1>3

\* Actions 2 and 6 of ProcessNextAction.
LEMMA EndTurnInv ==
  ASSUME TypeOK, NEW st, NEW h, Books(st, h, bInHighMoraleBonus),
         ~Over(stack), Due(stack, h, active, bInHighMoraleBonus), EndTurn(st, h),
         here' = here, gCloseMove' \in BOOLEAN, engaged' \in BOOLEAN
  PROVE  Inv' /\ (history' = Counted(h) \/ history' = NewRound)
<1> DEFINE marked == Mark(st, active, {"MAYBE_NOT_LOST_TURN"})
           counted == Counted(h)
<1>1. /\ active \in here /\ bInHighMoraleBonus \in BOOLEAN
      /\ hasCast \in SUBSET {0, 1}
  BY DEF TypeOK
<1>2. \A bonus : Books(marked, counted, bonus)
  BY <1>1, CountedBooks
<1>3. CASE Over(marked)
  <2>1. NextTurn(marked, counted, hasCast) /\ bInHighMoraleBonus' = bInHighMoraleBonus
    BY <1>3 DEF EndTurn
  <2> HIDE DEF marked, counted
  <2>2. Inv' /\ (history' = counted \/ history' = NewRound)
    BY <1>1, <1>2, <2>1, NextTurnInv
  <2> QED
    BY <2>2 DEF counted
<1>4. CASE ~Over(marked)
  <2>1. PICK m \in CheckApplyGoodMorale(marked) :
          NextTurn(m.stack, counted, hasCast) /\ bInHighMoraleBonus' = m.bonus
    BY <1>4 DEF EndTurn
  <2>2. /\ counted.last = active
        /\ counted.streak = IF h.last = active THEN h.streak + 1 ELSE 1
        /\ counted \in History
    <3>1. h \in History
      BY DEF Books
    <3> QED
      BY <1>1, <3>1, CountedFacts
  <2>3. marked \in [here -> Record]
    BY <1>2 DEF Books
  <2> HIDE DEF marked, counted
  <2>4. /\ m.bonus \in BOOLEAN
        /\ \/ m.stack = marked
           \/ /\ m.bonus /\ ~bInHighMoraleBonus /\ Morale[active] > 0
              /\ m.stack \in [here -> Record]
              /\ \A x \in here \ {active} : m.stack[x] = marked[x]
              /\ m.stack[active].flags =
                   (marked[active].flags \ {"MAYBE_NOT_LOST_TURN"}) \cup {"HAS_GOOD_MORALE"}
    BY <1>1, <2>3, MoraleFacts
  <2>5. Books(m.stack, counted, bInHighMoraleBonus')
    <3>1. CASE m.stack = marked
      BY <1>2, <3>1
    <3>2. CASE /\ m.bonus /\ ~bInHighMoraleBonus /\ Morale[active] > 0
               /\ m.stack \in [here -> Record]
               /\ \A x \in here \ {active} : m.stack[x] = marked[x]
               /\ m.stack[active].flags =
                    (marked[active].flags \ {"MAYBE_NOT_LOST_TURN"}) \cup {"HAS_GOOD_MORALE"}
      <4> DEFINE new == m.stack
      <4>1. Books(marked, counted, bInHighMoraleBonus')
        BY <1>2
      <4>2. new \in [here -> Record] /\ ~Lost(new, active)
        BY <3>2 DEF Lost, Has
      <4>3. \A s \in here \ {active} : new[s] = marked[s]
        BY <3>2
      <4>4. \A s \in here : /\ Has(new, s, "DEAD") <=> Has(marked, s, "DEAD")
                            /\ Has(new, s, "RETALIATED") <=> Has(marked, s, "RETALIATED")
        BY <3>2 DEF Has
      <4>5. Morale[active] > 0 /\ bInHighMoraleBonus' /\ ~bInHighMoraleBonus
        BY <2>1, <3>2
      <4> HIDE DEF new
      <4>6. Excused(new, counted)
        BY <4>1, <4>2, <4>3, <4>4 DEF Books, Excused, Alive, Lost, Has
      <4>7. Answered(new, counted)
        BY <4>1, <4>4 DEF Books, Answered
      <4>8. Spent(new, counted)
        BY <4>1, <4>3, <4>5 DEF Books, Spent, Lost, Has
      <4>9. h.last # active
        BY <4>5 DEF Due
      <4>10. InARow(new, counted, bInHighMoraleBonus')
        BY <2>2, <4>5, <4>9 DEF InARow
      <4> QED
        BY <2>2, <4>2, <4>6, <4>7, <4>8, <4>10 DEF Books, new
    <3> QED
      BY <2>4, <3>1, <3>2
  <2>6. bInHighMoraleBonus' \in BOOLEAN
    BY <2>1, <2>4
  <2>7. NextTurn(m.stack, counted, hasCast)
    BY <2>1
  <2>8. Inv' /\ (history' = counted \/ history' = NewRound)
    BY <1>1, <2>5, <2>6, <2>7, NextTurnInv
  <2> QED
    BY <2>8 DEF counted
<1> QED
  BY <1>3, <1>4

-----------------------------------------------------------------------------
(* Actions *)

LEMMA EffectsFacts ==
  ASSUME NEW st \in [here -> Record], NEW s \in here, NEW es \in SUBSET Effect
  PROVE  LET new == [st EXCEPT ![s].effects = es]
         IN /\ new \in [here -> Record]
            /\ \A x \in here \ {s} : new[x] = st[x]
            /\ new[s].flags = st[s].flags
            /\ new[s].effects = es
<1> DEFINE new == [st EXCEPT ![s].effects = es]
<1>1. new = [st EXCEPT ![s] = [flags |-> st[s].flags, effects |-> es]]
  <2>1. new = [st EXCEPT ![s] = [st[s] EXCEPT !.effects = es]]
    OBVIOUS
  <2>2. [st[s] EXCEPT !.effects = es] = [flags |-> st[s].flags, effects |-> es]
    BY NewEffects
  <2> QED
    BY <2>1, <2>2
<1> HIDE DEF new
<1>2. /\ new \in [here -> Record]
      /\ \A x \in here \ {s} : new[x] = st[x]
      /\ new[s].flags = st[s].flags
      /\ new[s].effects = es
  BY <1>1 DEF Record
<1> QED
  BY <1>2 DEF new

\* The history is kept: only the answers, the waits and the excuses have changed.
SameTurns(h, hh) ==
  hh \in History /\ hh.turns = h.turns /\ hh.last = h.last /\ hh.streak = h.streak

\* The history after an exchange of blows with t.
Struck(h, X, t, answered) ==
  [h EXCEPT !.answers[t] = IF answered THEN @ + 1 ELSE @, !.excused = @ \cup X]

HasStruck(h, hh, X, t, answered) ==
  /\ SameTurns(h, hh) /\ hh.excused = h.excused \cup X
  /\ hh.answers =
       [h.answers EXCEPT ![t] = IF answered THEN h.answers[t] + 1 ELSE h.answers[t]]

LEMMA AnswerFacts ==
  ASSUME NEW h \in History, NEW X \in SUBSET here, NEW t \in here, NEW answered
  PROVE  HasStruck(h, Struck(h, X, t, answered), X, t, answered)
<1> DEFINE a == [h.answers EXCEPT ![t] = IF answered THEN h.answers[t] + 1 ELSE h.answers[t]]
           e == h.excused \cup X
           hh == Struck(h, X, t, answered)
<1>1. /\ h.answers \in [here -> Nat] /\ h.excused \in SUBSET here
  BY DEF History
<1>2. /\ a \in [here -> Nat] /\ e \in SUBSET here
  BY <1>1
<1>3. hh = [h EXCEPT !.answers = a, !.excused = e]
  BY <1>1, Zenon DEF Struck
<1> HIDE DEF a, e, hh
<1>4. hh = [turns |-> h.turns, waits |-> h.waits, answers |-> a, last |-> h.last,
            streak |-> h.streak, excused |-> e]
  BY <1>3 DEF History
<1>5. SameTurns(h, hh) /\ hh.excused = e /\ hh.answers = a
  BY <1>2, <1>4 DEF SameTurns, History
<1> QED
  BY <1>5, Zenon DEF HasStruck, hh, e, a

LEMMA ExcuseFacts ==
  ASSUME NEW h \in History, NEW X \in SUBSET here
  PROVE  LET hh == [h EXCEPT !.excused = @ \cup X]
         IN SameTurns(h, hh) /\ hh.excused = h.excused \cup X /\ hh.answers = h.answers
<1> DEFINE e == h.excused \cup X
           hh == [h EXCEPT !.excused = @ \cup X]
<1>1. e \in SUBSET here
  BY DEF History
<1>2. hh = [h EXCEPT !.excused = e]
  OBVIOUS
<1> HIDE DEF e, hh
<1>3. hh = [turns |-> h.turns, waits |-> h.waits, answers |-> h.answers,
            last |-> h.last, streak |-> h.streak, excused |-> e]
  BY <1>2 DEF History
<1>4. SameTurns(h, hh) /\ hh.excused = e /\ hh.answers = h.answers
  BY <1>1, <1>3 DEF SameTurns, History
<1> QED
  BY <1>4 DEF hh, e

LEMMA WaitFacts ==
  ASSUME NEW h \in History, active \in here, h.waits[active] < WaitLimit
  PROVE  LET hh == [h EXCEPT !.waits[active] = @ + 1]
         IN SameTurns(h, hh) /\ hh.excused = h.excused /\ hh.answers = h.answers
<1> DEFINE w == [h.waits EXCEPT ![active] = h.waits[active] + 1]
           hh == [h EXCEPT !.waits[active] = @ + 1]
<1>1. h.waits \in [here -> 0..WaitLimit]
  BY DEF History
<1>2. w \in [here -> 0..WaitLimit]
  BY <1>1, StacksAssumption
<1>3. hh = [h EXCEPT !.waits = w]
  BY <1>1, Zenon
<1> HIDE DEF w, hh
<1>4. hh = [turns |-> h.turns, waits |-> w, answers |-> h.answers,
            last |-> h.last, streak |-> h.streak, excused |-> h.excused]
  BY <1>3 DEF History
<1>5. SameTurns(h, hh) /\ hh.excused = h.excused /\ hh.answers = h.answers
  BY <1>2, <1>4 DEF SameTurns, History
<1> QED
  BY <1>5 DEF hh

\* The books balance after blows, spells and waits: the flags that count only grow, who
\* loses its turn is excused, and who has answered is marked.
LEMMA StruckBooks ==
  ASSUME NEW st, NEW h, NEW bonus, Books(st, h, bonus),
         NEW new \in [here -> Record], NEW hh, SameTurns(h, hh),
         h.excused \subseteq hh.excused,
         \A s \in here : Lost(st, s) => Lost(new, s),
         \A s \in here : Has(st, s, "RETALIATED") => Has(new, s, "RETALIATED"),
         \A s \in Alive(new) : Lost(new, s) => (s \in Alive(st) /\ Lost(st, s)) \/ s \in hh.excused,
         \A s \in here : \/ hh.answers[s] = h.answers[s]
                         \/ /\ Has(new, s, "RETALIATED")
                            /\ s \notin Griffins => hh.answers[s] <= 1
  PROVE  /\ Books(new, hh, bonus)
         /\ \A s, b : Due(stack, h, s, b) => Due(stack, hh, s, b)
<1>1. Excused(new, hh)
  <2> SUFFICES ASSUME NEW s \in Alive(new), Lost(new, s)
               PROVE  hh.turns[s] > 0 \/ s \in hh.excused \/ Morale[s] < 0
    BY DEF Excused
  <2>1. CASE s \in Alive(st) /\ Lost(st, s)
    <3>1. h.turns[s] > 0 \/ s \in h.excused \/ Morale[s] < 0
      BY <2>1 DEF Books, Excused
    <3> QED
      BY <3>1 DEF SameTurns
  <2> QED
    BY <2>1
<1>2. Answered(new, hh)
  BY DEF Books, Answered
<1>3. Spent(new, hh)
  BY DEF Books, Spent, SameTurns
<1>4. InARow(new, hh, bonus)
  BY DEF Books, InARow, SameTurns, History
<1>5. ASSUME NEW s, NEW b, Due(stack, h, s, b)
      PROVE  Due(stack, hh, s, b)
  BY <1>5 DEF Due, SameTurns
<1> QED
  BY <1>1, <1>2, <1>3, <1>4, <1>5 DEF Books, SameTurns

\* What an action does to the history: the round goes on or ends.  A stack whose answers
\* it counts was not paralyzed.
HistoryGoesOn ==
  \A s \in here \ Griffins :
    Under(stack, s, "PARALYZE") => history'.answers[s] <= history.answers[s]

\* A new round begins without answers.
LEMMA GoesOn ==
  ASSUME TypeOK, NEW h, history' = h \/ history' = Counted(h) \/ history' = NewRound,
         h \in History,
         \A s \in here \ Griffins :
           Under(stack, s, "PARALYZE") => h.answers[s] <= history.answers[s]
  PROVE  HistoryGoesOn
<1>1. \A s \in here : history.answers[s] \in Nat
  BY DEF TypeOK, History
<1>2. Counted(h).answers = h.answers
  BY CountedFacts DEF TypeOK
<1>3. \A s \in here : NewRound.answers[s] = 0
  BY DEF NewRound
<1> QED
  BY <1>1, <1>2, <1>3 DEF HistoryGoesOn

SameFlags(st, new) ==
  new \in [here -> Record] /\ \A s \in here : new[s].flags = st[s].flags

LEMMA TookTurnFacts ==
  ASSUME NEW st \in [here -> Record], NEW s \in here
  PROVE  SameFlags(st, TookTurn(st, s))
<1> DEFINE es == st[s].effects \ {"HYPNOTIZE"}
           new == TookTurn(st, s)
<1>1. es \in SUBSET Effect
  BY DEF Record
<1>2. new = [st EXCEPT ![s].effects = es]
  BY DEF TookTurn
<1> HIDE DEF es, new
<1>3. /\ new \in [here -> Record]
      /\ \A x \in here \ {s} : new[x] = st[x]
      /\ new[s].flags = st[s].flags
  BY <1>1, <1>2, EffectsFacts
<1>4. SameFlags(st, new)
  BY <1>3 DEF SameFlags
<1> QED
  BY <1>4 DEF new

LEMMA StrikeInv ==
  ASSUME Inv, NEW t \in here, NEW how, Strike(t, how)
  PROVE  Inv' /\ HistoryGoesOn
<1>1. /\ TypeOK /\ stack \in [here -> Record] /\ history \in History /\ active \in here
      /\ Books(stack, history, bInHighMoraleBonus)
      /\ Due(stack, history, active, bInHighMoraleBonus)
  BY DEF Inv, TypeOK, Record
<1>2. ~Over(stack) /\ t # active /\ here' = here /\ engaged' \in BOOLEAN
  BY DEF Strike, Acting, Targets
<1>3. PICK x \in DoAttack(stack, active, t, CloseMove(how)) :
       /\ EndTurn(TookTurn(x.stack, active),
                  [history EXCEPT !.answers[t] = IF x.answered THEN @ + 1 ELSE @,
                                  !.excused = @ \cup Spellbound(stack, {active, t})])
       /\ gCloseMove' = (CloseMove(how) \/ x.answered \/ x.twice)
  BY DEF Strike
<1> DEFINE X == Spellbound(stack, {active, t})
           h == Struck(history, X, t, x.answered)
           new == TookTurn(x.stack, active)
<1>4. /\ x.stack \in [here -> Record]
      /\ \A s \in here : stack[s].flags \subseteq x.stack[s].flags
      /\ \A s \in here : Lost(x.stack, s) => Lost(stack, s) \/ s \in X
      /\ x.answered => Has(x.stack, t, "RETALIATED")
      /\ x.answered /\ t \notin Griffins =>
           ~Has(stack, t, "RETALIATED") /\ ~Under(stack, t, "PARALYZE")
  BY <1>1, <1>2, DoAttackFacts
<1>5. new \in [here -> Record] /\ \A s \in here : new[s].flags = x.stack[s].flags
  BY <1>1, <1>4, TookTurnFacts DEF SameFlags
<1>6. /\ SameTurns(history, h) /\ h.excused = history.excused \cup X
      /\ \A s \in here \ {t} : h.answers[s] = history.answers[s]
      /\ h.answers[t] = IF x.answered THEN history.answers[t] + 1 ELSE history.answers[t]
  <2>1. X \in SUBSET here
    BY <1>1 DEF Spellbound
  <2>2. PICK answered : answered = x.answered
    OBVIOUS
  <2>3. h = Struck(history, X, t, answered)
    BY <2>2, Zenon
  <2> HIDE DEF X, h
  <2>4. HasStruck(history, Struck(history, X, t, answered), X, t, answered)
    <3>1. history \in History
      BY <1>1
    <3> QED
      BY <3>1, <2>1, AnswerFacts
  <2>5. history.answers \in [here -> Nat]
    BY <1>1 DEF History
  <2>6. HasStruck(history, h, X, t, answered)
    BY <2>3, <2>4
  <2>7. /\ \A s \in here \ {t} : h.answers[s] = history.answers[s]
        /\ h.answers[t] = IF answered THEN history.answers[t] + 1 ELSE history.answers[t]
    BY <2>5, <2>6 DEF HasStruck
  <2>8. SameTurns(history, h) /\ h.excused = history.excused \cup X
    BY <2>6 DEF HasStruck
  <2> QED
    BY <2>2, <2>7, <2>8, Zenon
<1> HIDE DEF X, h, new
<1>7. /\ Books(new, h, bInHighMoraleBonus)
      /\ \A s, b : Due(stack, history, s, b) => Due(stack, h, s, b)
  <2>1. history.excused \subseteq h.excused
    BY <1>6
  <2>2. \A s \in here : /\ Lost(stack, s) => Lost(new, s)
                        /\ Has(stack, s, "RETALIATED") => Has(new, s, "RETALIATED")
    BY <1>4, <1>5 DEF Lost, Has
  <2>3. \A s \in Alive(new) :
          Lost(new, s) => (s \in Alive(stack) /\ Lost(stack, s)) \/ s \in h.excused
    BY <1>4, <1>5, <1>6 DEF Lost, Has, Alive
  <2>4. x.answered /\ t \notin Griffins => h.answers[t] <= 1
    <3>1. history.answers[t] \in Nat
      BY <1>1 DEF History
    <3>2. ~Has(stack, t, "RETALIATED") => ~(history.answers[t] > 0)
      BY <1>1 DEF Books, Answered
    <3> QED
      BY <1>4, <1>6, <3>1, <3>2
  <2>5. \A s \in here : \/ h.answers[s] = history.answers[s]
                        \/ /\ Has(new, s, "RETALIATED")
                           /\ s \notin Griffins => h.answers[s] <= 1
    BY <1>4, <1>5, <1>6, <2>4 DEF Has
  <2> QED
    BY <1>1, <1>5, <1>6, <2>1, <2>2, <2>3, <2>5, StruckBooks
<1>8. EndTurn(new, h)
  BY <1>3 DEF new, h, X, Struck
<1>9. gCloseMove' \in BOOLEAN
  BY <1>3, Zenon
<1>10. Inv' /\ (history' = Counted(h) \/ history' = NewRound)
  BY <1>1, <1>2, <1>7, <1>8, <1>9, EndTurnInv
<1>11. \A s \in here \ Griffins :
         Under(stack, s, "PARALYZE") => h.answers[s] <= history.answers[s]
  <2>1. \A s \in here : history.answers[s] \in Nat
    BY <1>1 DEF History
  <2> QED
    BY <1>4, <1>6, <2>1
<1>12. HistoryGoesOn
  BY <1>1, <1>6, <1>10, <1>11, GoesOn DEF SameTurns
<1> QED
  BY <1>10, <1>12

\* A shot or a damaging spell.
LEMMA HitBooks ==
  ASSUME Inv, NEW t \in here, NEW dies \in BOOLEAN, NEW new,
         SameFlags(Hit(stack, t, dies), new)
  PROVE  LET hh == [history EXCEPT !.excused = @ \cup Spellbound(stack, {t})]
         IN /\ Books(new, hh, bInHighMoraleBonus)
            /\ Due(stack, hh, active, bInHighMoraleBonus)
            /\ SameTurns(history, hh) /\ hh.answers = history.answers
<1> DEFINE X == Spellbound(stack, {t})
           h == [history EXCEPT !.excused = @ \cup X]
<1>1. /\ stack \in [here -> Record] /\ history \in History
      /\ Books(stack, history, bInHighMoraleBonus)
      /\ Due(stack, history, active, bInHighMoraleBonus)
  BY DEF Inv, TypeOK, Record
<1>2. LET hit == Hit(stack, t, dies)
      IN /\ hit \in [here -> Record]
         /\ \A x \in here \ {t} : hit[x] = stack[x]
         /\ stack[t].flags \subseteq hit[t].flags
         /\ Lost(hit, t) => Lost(stack, t) \/ t \in X
         /\ Under(stack, t, "PARALYZE") => Has(hit, t, "RETALIATED")
         /\ hit[t].effects \subseteq stack[t].effects
  BY <1>1, HitFacts
<1>3. new \in [here -> Record] /\ \A s \in here : new[s].flags = Hit(stack, t, dies)[s].flags
  BY DEF SameFlags
<1>4. /\ SameTurns(history, h) /\ h.excused = history.excused \cup X
      /\ h.answers = history.answers
  <2>1. X \in SUBSET here
    BY DEF Spellbound
  <2> HIDE DEF X
  <2> QED
    BY <1>1, <2>1, ExcuseFacts
<1> HIDE DEF X, h
<1>5. \A s \in here : stack[s].flags \subseteq new[s].flags
  BY <1>2, <1>3
<1>6. \A s \in here : Lost(new, s) => Lost(stack, s) \/ s \in X
  BY <1>2, <1>3 DEF Lost, Has
<1>7. /\ Books(new, h, bInHighMoraleBonus)
      /\ \A s, b : Due(stack, history, s, b) => Due(stack, h, s, b)
  <2>1. history.excused \subseteq h.excused
    BY <1>4
  <2>2. \A s \in here : /\ Lost(stack, s) => Lost(new, s)
                        /\ Has(stack, s, "RETALIATED") => Has(new, s, "RETALIATED")
    BY <1>5 DEF Lost, Has
  <2>3. \A s \in Alive(new) :
          Lost(new, s) => (s \in Alive(stack) /\ Lost(stack, s)) \/ s \in h.excused
    BY <1>4, <1>5, <1>6 DEF Has, Alive
  <2>4. \A s \in here : h.answers[s] = history.answers[s]
    BY <1>4
  <2> QED
    BY <1>1, <1>3, <1>4, <2>1, <2>2, <2>3, <2>4, StruckBooks
<1> QED
  BY <1>1, <1>4, <1>7 DEF h, X

LEMMA ShootInv ==
  ASSUME Inv, Shoot
  PROVE  Inv' /\ HistoryGoesOn
<1>1. /\ TypeOK /\ stack \in [here -> Record] /\ history \in History /\ active \in here
  BY DEF Inv, TypeOK, Record
<1>2. /\ ~Over(stack) /\ here' = here /\ gCloseMove' \in BOOLEAN /\ engaged' \in BOOLEAN
  BY <1>1 DEF Shoot, Acting, TypeOK
<1>3. PICK t \in Targets, dies \in BOOLEAN :
        EndTurn(TookTurn(Hit(stack, t, dies), active),
                [history EXCEPT !.excused = @ \cup Spellbound(stack, {t})])
  BY DEF Shoot
<1> DEFINE h == [history EXCEPT !.excused = @ \cup Spellbound(stack, {t})]
           new == TookTurn(Hit(stack, t, dies), active)
<1>4. t \in here
  BY DEF Targets, Alive
<1>5. SameFlags(Hit(stack, t, dies), new)
  <2>1. Hit(stack, t, dies) \in [here -> Record]
    BY <1>1, <1>4, HitFacts
  <2> QED
    BY <1>1, <2>1, TookTurnFacts
<1>6. EndTurn(new, h)
  BY <1>3
<1> HIDE DEF new
<1>7. /\ Books(new, h, bInHighMoraleBonus)
      /\ Due(stack, h, active, bInHighMoraleBonus)
      /\ SameTurns(history, h) /\ h.answers = history.answers
  BY <1>4, <1>5, HitBooks
<1> HIDE DEF h
<1>8. Inv' /\ (history' = Counted(h) \/ history' = NewRound)
  BY <1>1, <1>2, <1>6, <1>7, EndTurnInv
<1>9. \A s \in here \ Griffins :
        Under(stack, s, "PARALYZE") => h.answers[s] <= history.answers[s]
  <2>1. \A s \in here : history.answers[s] \in Nat
    BY <1>1 DEF History
  <2> QED
    BY <1>7, <2>1
<1> QED
  BY <1>1, <1>7, <1>8, <1>9, GoesOn DEF SameTurns

LEMMA MoveInv ==
  ASSUME Inv, Move
  PROVE  Inv' /\ HistoryGoesOn
<1>1. /\ TypeOK /\ history \in History /\ active \in here
      /\ Books(stack, history, bInHighMoraleBonus)
      /\ Due(stack, history, active, bInHighMoraleBonus)
  BY DEF Inv, TypeOK
<1>2. /\ ~Over(stack) /\ here' = here /\ engaged' \in BOOLEAN
      /\ EndTurn(stack, history)
  BY DEF Move, Acting
<1>3. gCloseMove' \in BOOLEAN
  <2>1. PICK how \in Approaches(active) \ {"stays"} : gCloseMove' = CloseMove(how)
    BY DEF Move
  <2> QED
    BY <2>1 DEF CloseMove
<1>4. Inv' /\ (history' = Counted(history) \/ history' = NewRound)
  BY <1>1, <1>2, <1>3, EndTurnInv
<1>5. \A s \in here : history.answers[s] \in Nat
  BY <1>1 DEF History
<1> QED
  BY <1>1, <1>4, <1>5, GoesOn

LEMMA SkipInv ==
  ASSUME Inv, Skip
  PROVE  Inv' /\ HistoryGoesOn
<1>1. /\ TypeOK /\ history \in History /\ active \in here
      /\ Books(stack, history, bInHighMoraleBonus)
      /\ Due(stack, history, active, bInHighMoraleBonus)
  BY DEF Inv, TypeOK
<1>2. /\ ~Over(stack) /\ here' = here /\ engaged' \in BOOLEAN /\ gCloseMove' \in BOOLEAN
      /\ bInHighMoraleBonus' \in BOOLEAN /\ hasCast \in SUBSET {0, 1}
      /\ NextTurn(Mark(stack, active, {"MAYBE_NOT_LOST_TURN"}), Counted(history), hasCast)
  BY <1>1 DEF Skip, TypeOK
<1>3. Books(Mark(stack, active, {"MAYBE_NOT_LOST_TURN"}), Counted(history), bInHighMoraleBonus')
  BY <1>1, <1>2, CountedBooks
<1>4. Inv' /\ (history' = Counted(history) \/ history' = NewRound)
  BY <1>1, <1>2, <1>3, NextTurnInv
<1>5. \A s \in here : history.answers[s] \in Nat
  BY <1>1 DEF History
<1> QED
  BY <1>1, <1>4, <1>5, GoesOn

LEMMA WaitInv ==
  ASSUME Inv, Wait
  PROVE  Inv' /\ HistoryGoesOn
<1> DEFINE new == Mark(stack, active, {"WAITING"})
           h == [history EXCEPT !.waits[active] = @ + 1]
<1>1. /\ TypeOK /\ stack \in [here -> Record] /\ history \in History /\ active \in here
      /\ Books(stack, history, bInHighMoraleBonus)
  BY DEF Inv, TypeOK, Record
<1>2. /\ here' = here /\ engaged' \in BOOLEAN /\ gCloseMove' \in BOOLEAN
      /\ bInHighMoraleBonus' = bInHighMoraleBonus
      /\ bInHighMoraleBonus' \in BOOLEAN /\ hasCast \in SUBSET {0, 1}
      /\ NextTurn(new, h, hasCast)
  BY <1>1 DEF Wait, TypeOK
<1>3. /\ new \in [here -> Record]
      /\ \A x \in here \ {active} : new[x] = stack[x]
      /\ new[active].flags = stack[active].flags \cup {"WAITING"}
      /\ new[active].effects = stack[active].effects
  BY <1>1, MarkFacts
<1>4. SameTurns(history, h) /\ h.excused = history.excused /\ h.answers = history.answers
  BY <1>1, WaitFacts DEF Wait
<1> HIDE DEF new, h
<1>5. Books(new, h, bInHighMoraleBonus)
  <2>1. \A s \in here : /\ Lost(new, s) <=> Lost(stack, s)
                        /\ Has(new, s, "RETALIATED") <=> Has(stack, s, "RETALIATED")
                        /\ Has(new, s, "DEAD") <=> Has(stack, s, "DEAD")
    BY <1>3 DEF Lost, Has
  <2>2. \A s \in Alive(new) :
          Lost(new, s) => (s \in Alive(stack) /\ Lost(stack, s)) \/ s \in h.excused
    BY <2>1 DEF Alive
  <2>3. \A s \in here : /\ Lost(stack, s) => Lost(new, s)
                        /\ Has(stack, s, "RETALIATED") => Has(new, s, "RETALIATED")
    BY <2>1
  <2>4. history.excused \subseteq h.excused /\ \A s \in here : h.answers[s] = history.answers[s]
    BY <1>4
  <2> QED
    BY <1>1, <1>3, <1>4, <2>2, <2>3, <2>4, StruckBooks
<1>6. Inv' /\ (history' = h \/ history' = NewRound)
  BY <1>1, <1>2, <1>5, NextTurnInv
<1>7. \A s \in here : history.answers[s] \in Nat /\ h.answers[s] = history.answers[s]
  BY <1>1, <1>4 DEF History
<1>8. h \in History
  BY <1>4 DEF SameTurns
<1> QED
  BY <1>1, <1>6, <1>7, <1>8, GoesOn

\* After a spell the turn goes on, if the active stack has survived it, or passes on.
LEMMA AfterCastInv ==
  ASSUME Inv, MayCast, NEW st, NEW h,
         Books(st, h, bInHighMoraleBonus), Due(stack, h, active, bInHighMoraleBonus),
         active \in Alive(st) => Free(st, active, currentActionSide, found),
         \A s \in here : h.answers[s] = history.answers[s],
         AfterCast(st, h)
  PROVE  Inv' /\ HistoryGoesOn
<1> DEFINE cast == hasCast \cup {currentActionSide}
<1>1. /\ TypeOK /\ ~Over(stack) /\ history \in History
  BY DEF Inv, TypeOK, MayCast
<1>2. cast \in SUBSET {0, 1}
  BY <1>1 DEF TypeOK
<1>3. /\ here' = here /\ gCloseMove' \in BOOLEAN /\ engaged' \in BOOLEAN
      /\ bInHighMoraleBonus' \in BOOLEAN /\ bInHighMoraleBonus' = bInHighMoraleBonus
  BY <1>1 DEF AfterCast, TypeOK
<1>4. CASE active \in Alive(st)
  <2>1. /\ stack' = st /\ history' = h /\ hasCast' = cast
        /\ active' = active /\ currentActionSide' = currentActionSide /\ found' = found
    BY <1>4 DEF AfterCast
  <2> HIDE DEF cast
  <2>2. TypeOK'
    BY <1>1, <1>2, <1>3, <2>1 DEF TypeOK, Books, History, Record
  <2>3. Books(stack, history, bInHighMoraleBonus)'
    <3>1. Books(stack', history', bInHighMoraleBonus')
      BY <1>3, <2>1
    <3> QED
      BY <1>3, <3>1 DEF Books, History, Excused, Answered, Spent, InARow, Alive, Lost, Has
  <2>4. Due(stack, history, active, bInHighMoraleBonus)'
    BY <1>1, <1>3, <2>1 DEF Due
  <2>5. Free(stack, active, currentActionSide, found)'
    <3>1. Free(stack', active', currentActionSide', found')
      BY <1>4, <2>1
    <3> QED
      BY <1>3, <3>1 DEF Free, Over, Alive, Lost, Has
  <2>6. Inv' /\ history' = h
    BY <2>1, <2>2, <2>3, <2>4, <2>5 DEF Inv
  <2> QED
    BY <2>6, <1>1 DEF HistoryGoesOn, History
<1>5. CASE active \notin Alive(st)
  <2>1. NextTurn(st, h, cast)
    BY <1>5 DEF AfterCast
  <2>2. Books(st, h, bInHighMoraleBonus')
    BY <1>3
  <2> HIDE DEF cast
  <2>3. Inv' /\ (history' = h \/ history' = NewRound)
    BY <1>1, <1>2, <1>3, <2>1, <2>2, NextTurnInv
  <2>4. h \in History /\ \A s \in here : history.answers[s] \in Nat
    BY <1>1 DEF Books, History
  <2> QED
    BY <1>1, <2>3, <2>4, GoesOn
<1> QED
  BY <1>4, <1>5

\* What Free says of the turn that is on.
LEMMA FreeNow ==
  ASSUME Inv, MayCast, found, currentActionSide = Side[active]
  PROVE  /\ active \in Alive(stack) /\ ~Lost(stack, active)
         /\ stack[active].effects \subseteq {"SLOW"}
BY DEF Inv, MayCast, Free

LEMMA CastEffectInv ==
  ASSUME Inv, CastEffect
  PROVE  Inv' /\ HistoryGoesOn
<1>1. PICK t \in Alive(stack), e \in CastByHeroes :
        /\ Side[t] # currentActionSide
        /\ AfterCast(Enchant(stack, t, e), history)
  BY DEF CastEffect
<1> DEFINE new == Enchant(stack, t, e)
           es == stack[t].effects \cup {e}
<1>2. /\ MayCast /\ t \in here /\ e \in Effect
      /\ stack \in [here -> Record] /\ history \in History
      /\ Books(stack, history, bInHighMoraleBonus)
      /\ Due(stack, history, active, bInHighMoraleBonus)
  BY StacksAssumption DEF CastEffect, Alive, Inv, TypeOK, Record
<1>3. es \in SUBSET Effect
  BY <1>2 DEF Record
<1>4. new = [stack EXCEPT ![t].effects = es]
  BY DEF Enchant
<1>5. AfterCast(new, history)
  BY <1>1
<1> HIDE DEF new, es
<1>6. /\ new \in [here -> Record]
      /\ \A x \in here \ {t} : new[x] = stack[x]
      /\ new[t].flags = stack[t].flags
  BY <1>2, <1>3, <1>4, EffectsFacts
<1>7. Books(new, history, bInHighMoraleBonus)
  <2>1. SameTurns(history, history)
    BY <1>2 DEF SameTurns
  <2>2. \A s \in here : new[s].flags = stack[s].flags
    BY <1>6
  <2>3. \A s \in here : /\ Lost(stack, s) => Lost(new, s)
                        /\ Has(stack, s, "RETALIATED") => Has(new, s, "RETALIATED")
    BY <2>2 DEF Lost, Has
  <2>4. \A s \in Alive(new) :
          Lost(new, s) => (s \in Alive(stack) /\ Lost(stack, s)) \/ s \in history.excused
    BY <2>2 DEF Lost, Has, Alive
  <2> QED
    BY <1>2, <1>6, <2>1, <2>3, <2>4, StruckBooks
<1>8. Free(new, active, currentActionSide, found)
  <2> SUFFICES ASSUME found, currentActionSide = Side[active]
               PROVE  /\ active \in Alive(new) /\ ~Lost(new, active)
                      /\ new[active].effects \subseteq {"SLOW"}
    BY DEF Free
  <2>1. /\ active \in Alive(stack) /\ ~Lost(stack, active)
        /\ stack[active].effects \subseteq {"SLOW"}
    BY <1>2, FreeNow
  <2>2. active # t /\ active \in here
    BY <1>1, <2>1 DEF Alive
  <2>3. new[active] = stack[active]
    BY <1>6, <2>2
  <2> QED
    BY <2>1, <2>3 DEF Alive, Lost, Has
<1> QED
  BY <1>2, <1>5, <1>7, <1>8, AfterCastInv

LEMMA CastDamageInv ==
  ASSUME Inv, CastDamage
  PROVE  Inv' /\ HistoryGoesOn
<1>1. PICK t \in Alive(stack), dies \in BOOLEAN :
        AfterCast(Hit(stack, t, dies),
                  [history EXCEPT !.excused = @ \cup Spellbound(stack, {t})])
  BY DEF CastDamage
<1> DEFINE new == Hit(stack, t, dies)
           h == [history EXCEPT !.excused = @ \cup Spellbound(stack, {t})]
<1>2. /\ MayCast /\ t \in here /\ stack \in [here -> Record]
  BY DEF CastDamage, Alive, Inv, TypeOK, Record
<1>3. /\ new \in [here -> Record]
      /\ \A x \in here \ {t} : new[x] = stack[x]
      /\ stack[t].flags \subseteq new[t].flags
      /\ Lost(new, t) => Lost(stack, t) \/ t \in Spellbound(stack, {t})
      /\ Under(stack, t, "PARALYZE") => Has(new, t, "RETALIATED")
      /\ new[t].effects \subseteq stack[t].effects
  BY <1>2, HitFacts
<1>4. /\ Books(new, h, bInHighMoraleBonus)
      /\ Due(stack, h, active, bInHighMoraleBonus)
      /\ SameTurns(history, h) /\ h.answers = history.answers
  <2>1. SameFlags(new, new)
    BY <1>3 DEF SameFlags
  <2> QED
    BY <1>2, <2>1, HitBooks
<1>5. AfterCast(new, h)
  BY <1>1
<1> HIDE DEF new, h
<1>6. ASSUME active \in Alive(new)
      PROVE  Free(new, active, currentActionSide, found)
  <2> SUFFICES ASSUME found, currentActionSide = Side[active]
               PROVE  ~Lost(new, active) /\ new[active].effects \subseteq {"SLOW"}
    BY <1>6 DEF Free
  <2>1. /\ active \in Alive(stack) /\ ~Lost(stack, active)
        /\ stack[active].effects \subseteq {"SLOW"}
    BY <1>2, FreeNow
  <2>2. CASE active = t
    <3>1. t \notin Spellbound(stack, {t})
      BY <2>1, <2>2 DEF Spellbound
    <3> QED
      BY <1>3, <2>1, <2>2, <3>1
  <2>3. CASE active # t
    BY <1>3, <2>1, <2>3 DEF Alive, Lost, Has
  <2> QED
    BY <2>2, <2>3
<1>7. \A s \in here : h.answers[s] = history.answers[s]
  BY <1>4
<1> QED
  BY <1>2, <1>4, <1>5, <1>6, <1>7, AfterCastInv

LEMMA CastDispelInv ==
  ASSUME Inv, CastDispel
  PROVE  Inv' /\ HistoryGoesOn
<1>1. PICK t \in Alive(stack) : AfterCast([stack EXCEPT ![t].effects = {}], history)
  BY DEF CastDispel
<1> DEFINE new == [stack EXCEPT ![t].effects = {}]
<1>2. /\ MayCast /\ t \in here
      /\ stack \in [here -> Record] /\ history \in History
      /\ Books(stack, history, bInHighMoraleBonus)
      /\ Due(stack, history, active, bInHighMoraleBonus)
  BY DEF CastDispel, Alive, Inv, TypeOK, Record
<1>3. /\ new \in [here -> Record]
      /\ \A x \in here \ {t} : new[x] = stack[x]
      /\ new[t].flags = stack[t].flags
      /\ new[t].effects = {}
  <2>1. PICK es \in SUBSET Effect : es = {}
    OBVIOUS
  <2>2. new = [stack EXCEPT ![t].effects = es]
    BY <2>1
  <2> HIDE DEF new
  <2>3. /\ new \in [here -> Record]
        /\ \A x \in here \ {t} : new[x] = stack[x]
        /\ new[t].flags = stack[t].flags
        /\ new[t].effects = es
    BY <1>2, <2>2, EffectsFacts
  <2> QED
    BY <2>1, <2>3
<1>4. AfterCast(new, history)
  BY <1>1
<1> HIDE DEF new
<1>5. Books(new, history, bInHighMoraleBonus)
  <2>1. SameTurns(history, history)
    BY <1>2 DEF SameTurns
  <2>2. \A s \in here : new[s].flags = stack[s].flags
    BY <1>3
  <2>3. \A s \in here : /\ Lost(stack, s) => Lost(new, s)
                        /\ Has(stack, s, "RETALIATED") => Has(new, s, "RETALIATED")
    BY <2>2 DEF Lost, Has
  <2>4. \A s \in Alive(new) :
          Lost(new, s) => (s \in Alive(stack) /\ Lost(stack, s)) \/ s \in history.excused
    BY <2>2 DEF Lost, Has, Alive
  <2> QED
    BY <1>2, <1>3, <2>1, <2>3, <2>4, StruckBooks
<1>6. Free(new, active, currentActionSide, found)
  <2> SUFFICES ASSUME found, currentActionSide = Side[active]
               PROVE  /\ active \in Alive(new) /\ ~Lost(new, active)
                      /\ new[active].effects \subseteq {"SLOW"}
    BY DEF Free
  <2>1. /\ active \in Alive(stack) /\ ~Lost(stack, active)
        /\ stack[active].effects \subseteq {"SLOW"}
    BY <1>2, FreeNow
  <2>2. /\ active \in here /\ new[active].flags = stack[active].flags
        /\ new[active].effects \subseteq stack[active].effects
    BY <1>3, <2>1 DEF Alive
  <2> QED
    BY <2>1, <2>2 DEF Alive, Lost, Has
<1> QED
  BY <1>2, <1>4, <1>5, <1>6, AfterCastInv

\* Who is raised has an excuse, and was not the one whose turn it was.
LEMMA CastResurrectInv ==
  ASSUME Inv, CastResurrect
  PROVE  Inv' /\ HistoryGoesOn
<1>1. PICK t \in here \ Alive(stack) :
        AfterCast(Unmark(stack, t, {"DEAD"}), [history EXCEPT !.excused = @ \cup {t}])
  BY DEF CastResurrect
<1> DEFINE new == Unmark(stack, t, {"DEAD"})
           h == [history EXCEPT !.excused = @ \cup {t}]
<1>2. /\ MayCast
      /\ stack \in [here -> Record] /\ history \in History
      /\ Books(stack, history, bInHighMoraleBonus)
      /\ Due(stack, history, active, bInHighMoraleBonus)
  BY DEF CastResurrect, Inv, TypeOK, Record
<1>3. /\ new \in [here -> Record]
      /\ \A x \in here \ {t} : new[x] = stack[x]
      /\ new[t].flags = stack[t].flags \ {"DEAD"}
      /\ new[t].effects = stack[t].effects
  BY <1>2, UnmarkFacts
<1>4. SameTurns(history, h) /\ h.excused = history.excused \cup {t} /\ h.answers = history.answers
  <2>1. {t} \in SUBSET here
    OBVIOUS
  <2> QED
    BY <1>2, <2>1, ExcuseFacts
<1>5. AfterCast(new, h)
  BY <1>1
<1> HIDE DEF new, h
<1>6. /\ Books(new, h, bInHighMoraleBonus)
      /\ \A s, b : Due(stack, history, s, b) => Due(stack, h, s, b)
  <2>1. \A s \in here : /\ Lost(stack, s) => Lost(new, s)
                        /\ Has(stack, s, "RETALIATED") => Has(new, s, "RETALIATED")
    BY <1>3 DEF Lost, Has
  <2>2. \A s \in Alive(new) :
          Lost(new, s) => (s \in Alive(stack) /\ Lost(stack, s)) \/ s \in h.excused
    BY <1>3, <1>4 DEF Lost, Has, Alive
  <2>3. history.excused \subseteq h.excused /\ \A s \in here : h.answers[s] = history.answers[s]
    BY <1>4
  <2> QED
    BY <1>2, <1>3, <1>4, <2>1, <2>2, <2>3, StruckBooks
<1>7. Free(new, active, currentActionSide, found)
  <2> SUFFICES ASSUME found, currentActionSide = Side[active]
               PROVE  /\ active \in Alive(new) /\ ~Lost(new, active)
                      /\ new[active].effects \subseteq {"SLOW"}
    BY DEF Free
  <2>1. /\ active \in Alive(stack) /\ ~Lost(stack, active)
        /\ stack[active].effects \subseteq {"SLOW"}
    BY <1>2, FreeNow
  <2>2. active \in here \ {t}
    BY <2>1 DEF Alive
  <2> QED
    BY <1>3, <2>1, <2>2 DEF Alive, Lost, Has
<1>8. Due(stack, h, active, bInHighMoraleBonus) /\ \A s \in here : h.answers[s] = history.answers[s]
  BY <1>2, <1>4, <1>6
<1> QED
  BY <1>2, <1>5, <1>6, <1>7, <1>8, AfterCastInv

-----------------------------------------------------------------------------
(* The invariant and what follows from it *)

\* Everybody is fresh when the combat begins.
LEMMA InitInv == Init => Inv
<1> SUFFICES ASSUME Init PROVE Inv
  OBVIOUS
<1>1. /\ here \in Lineups /\ active \in here /\ here \subseteq Stacks /\ None \notin Stacks
  BY StacksAssumption DEF Init
<1>2. /\ stack \in [here -> Record]
      /\ \A s \in here : stack[s].flags = {} /\ stack[s].effects = {}
  BY DEF Init, Record
<1>3. currentActionSide \in {0, 1}
  BY <1>1, StacksAssumption DEF Init
<1>4. history = NewRound
  BY DEF Init
<1>5. Books(stack, history, bInHighMoraleBonus)
  <2>1. \A s \in Alive(stack) : Lost(stack, s) => Morale[s] < 0
    BY <1>2 DEF Alive, Lost, Has
  <2>2. \A bonus : Books(stack, NewRound, bonus)
    BY <1>1, <1>2, <2>1, NewRoundBooks
  <2> QED
    BY <1>4, <2>2
<1>6. TypeOK
  <2>1. bInHighMoraleBonus \in BOOLEAN /\ gCloseMove \in BOOLEAN /\ engaged \in BOOLEAN
        /\ found \in BOOLEAN
    BY DEF Init
  <2>2. hasCast \subseteq {0, 1}
    BY DEF Init
  <2> QED
    BY <1>1, <1>2, <1>3, <1>5, <2>1, <2>2 DEF TypeOK, Books, Record
<1>7. Due(stack, history, active, bInHighMoraleBonus)
  BY <1>1, <1>4 DEF Due, NewRound
<1>8. Free(stack, active, currentActionSide, found)
  BY <1>1, <1>2 DEF Free, Alive, Lost, Has
<1> QED
  BY <1>5, <1>6, <1>7, <1>8 DEF Inv

LEMMA NextInv == Inv /\ Next => Inv' /\ HistoryGoesOn
<1> SUFFICES ASSUME Inv, Next PROVE Inv' /\ HistoryGoesOn
  OBVIOUS
<1>1. ASSUME NEW t \in here, NEW how \in {"stays", "near", "far"}, Strike(t, how)
      PROVE  Inv' /\ HistoryGoesOn
  BY <1>1, StrikeInv
<1>2. CASE Shoot
  BY <1>2, ShootInv
<1>3. CASE Move
  BY <1>3, MoveInv
<1>4. CASE Skip
  BY <1>4, SkipInv
<1>5. CASE Wait
  BY <1>5, WaitInv
<1>6. CASE CastEffect
  BY <1>6, CastEffectInv
<1>7. CASE CastDamage
  BY <1>7, CastDamageInv
<1>8. CASE CastDispel
  BY <1>8, CastDispelInv
<1>9. CASE CastResurrect
  BY <1>9, CastResurrectInv
<1>10. CASE BattleOver
  <2>1. UNCHANGED vars
    BY <1>10 DEF BattleOver
  <2>2. Inv'
    BY <2>1 DEF vars, Inv, TypeOK, Books, Due, Free, Excused, Answered, Spent, InARow,
                History, Record, Over, Alive, Lost, Has
  <2>3. HistoryGoesOn
    BY <2>1 DEF vars, HistoryGoesOn, Inv, TypeOK, History
  <2> QED
    BY <2>2, <2>3
<1> QED
  BY <1>1, <1>2, <1>3, <1>4, <1>5, <1>6, <1>7, <1>8, <1>9, <1>10 DEF Next, TakeTurn

LEMMA StutterInv == Inv /\ UNCHANGED vars => Inv'
BY DEF vars, Inv, TypeOK, Books, Due, Free, Excused, Answered, Spent, InARow,
       History, Record, Over, Alive, Lost, Has

LEMMA Invariant == Spec => []Inv
<1>1. Inv /\ [Next]_vars => Inv'
  BY NextInv, StutterInv
<1> QED
  BY InitInv, <1>1, PTL DEF Spec

\* TypeOK: whoever acts, dies, is enchanted or raised.
THEOREM RoundsAreTyped == Spec => []TypeOK
<1>1. Inv => TypeOK
  BY DEF Inv
<1> QED
  BY <1>1, Invariant, PTL

\* ActiveMayAct: the stack whose turn it is can use it, whatever is cast during the turn.
THEOREM TheActiveMayAct == Spec => []ActiveMayAct
<1>1. Inv => ActiveMayAct
  BY DEF Inv, Free, ActiveMayAct, Lost, Disabled, Under
<1> QED
  BY <1>1, Invariant, PTL

\* OnlySpentTurnsAreLost: no stack loses its turn without a reason, and no flag of one
\* round takes a turn of the next.
THEOREM NoTurnIsStolen == Spec => []OnlySpentTurnsAreLost
<1>1. Inv => OnlySpentTurnsAreLost
  BY DEF Inv, Books, Excused, OnlySpentTurnsAreLost, Lost
<1> QED
  BY <1>1, Invariant, PTL

\* MoraleGivesOneTurnAtATime: no more than two turns in a row, and none without morale.
THEOREM MoraleIsBounded == Spec => []MoraleGivesOneTurnAtATime
<1>1. Inv => MoraleGivesOneTurnAtATime
  BY DEF Inv, Books, Spent, InARow, MoraleGivesOneTurnAtATime
<1> QED
  BY <1>1, Invariant, PTL

\* OneAnswerARound: a stack other than a griffin strikes back once a round.
THEOREM AnswersAreBounded == Spec => []OneAnswerARound
<1>1. Inv => OneAnswerARound
  BY DEF Inv, Books, Answered, OneAnswerARound
<1> QED
  BY <1>1, Invariant, PTL

\* WokenDoNotRetaliate: the blow that wakes a paralyzed stack takes its answer too.
THEOREM TheWokenDoNotAnswer == Spec => WokenDoNotRetaliate
<1>1. Inv /\ [Next]_vars => [\A s \in here \ Griffins :
         Under(stack, s, "PARALYZE") => history'.answers[s] <= history.answers[s]]_vars
  BY NextInv DEF HistoryGoesOn
<1> QED
  BY <1>1, Invariant, PTL DEF Spec, WokenDoNotRetaliate
=============================================================================
