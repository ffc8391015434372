---------------------------- MODULE CombatRounds ----------------------------
(***************************************************************************)
(* Whose turn it is in combat.  After every action ProcessNextAction asks  *)
(* GetNextArmy for the next stack: it goes by flags that actions, spells   *)
(* and wounds set and that ResetRound clears for the living.  A round ends *)
(* when GetNextArmy finds nobody; it is then asked once more, and its      *)
(* answer is not looked at.                                                *)
(*                                                                         *)
(* Quantities are abstracted to alive or dead, damage to who dies of it,   *)
(* the rounds an effect lasts to whether it ends with this one, positions  *)
(* to whether a stack attacks from where it stands or comes from near or   *)
(* afar.  An exchange of blows is one action, as it is in the program.     *)
(***************************************************************************)
EXTENDS Integers, FiniteSets

CONSTANTS
  Stacks,         \* the stacks of both sides
  Side,           \* [Stacks -> {0, 1}] owningSide
  Index,          \* [Stacks -> 0..19]  stackIdx, the place on its side
  Speed,          \* [Stacks -> 1..14]
  Morale,         \* [Stacks -> -3..3]  0 for the undead
  Shooters,       \* stacks that shoot
  Paralyzers,     \* cyclopes: a blow may paralyze
  Unanswered,     \* rogues, sprites, vampires: nobody strikes back at them
  Flyers,
  Teleporters,    \* flyers: nobody strikes back at one that comes from afar
  Griffins,       \* strike back any number of times
  TwiceStrikers,  \* wolves, paladins, crusaders
  Lineups,        \* who may meet: sets of stacks
  CastByHeroes,   \* the effects heroes cast in this instance
  WaitLimit,      \* bound: how often a stack waits in a round
  EffectLimit,    \* bound: effects in play at once
  None            \* no stack

MAX_STACKS == 20
Flag == {"DEAD", "HAS_GOOD_MORALE", "RETALIATED", "MAYBE_NOT_LOST_TURN", "WAITING"}
\* PARALYZE stands for PETRIFY too: turns and answers treat them alike.
Effect == {"BLIND", "PARALYZE", "HYPNOTIZE", "SLOW"}

ASSUME StacksAssumption ==
  /\ Side \in [Stacks -> {0, 1}] /\ None \notin Stacks
  /\ Index \in [Stacks -> 0 .. MAX_STACKS - 1]
  /\ Speed \in [Stacks -> 1..14] /\ Morale \in [Stacks -> -3..3]
  /\ \A s, t \in Stacks : Side[s] = Side[t] /\ Index[s] = Index[t] => s = t
  /\ Lineups \subseteq SUBSET Stacks /\ Teleporters \subseteq Flyers
  /\ Paralyzers \cap TwiceStrikers = {}
  /\ CastByHeroes \subseteq Effect /\ WaitLimit \in Nat /\ EffectLimit \in Nat

VARIABLES
  here,               \* who has met
  stack,              \* [here -> record] flags and effects
  active,             \* the stack whose turn it is
  currentActionSide,  \* who commands it
  bInHighMoraleBonus, \* good morale has just given somebody a second turn
  gCloseMove,         \* the last move of any stack was to a hex next to it
  engaged,            \* somebody has moved: enemies may stand next to each other
  hasCast,            \* the sides whose heroes have cast a spell this round
  found,              \* history: the last GetNextArmy found a stack
  history             \* history of the round: see History

vars == <<here, stack, active, currentActionSide, bInHighMoraleBonus, gCloseMove,
          engaged, hasCast, found, history>>

\* The turns a stack ended (two stands for more), its waits and retaliations; who
\* acted last and how many turns in a row; and who has an excuse for losing its
\* turn: struck while spellbound, or raised from the dead.
History == [turns : [here -> 0..2], waits : [here -> 0..WaitLimit],
            answers : [here -> Nat], last : here \cup {None}, streak : Nat,
            excused : SUBSET here]

TypeOK ==
  /\ here \in Lineups
  /\ stack \in [here -> [flags : SUBSET Flag, effects : SUBSET Effect]]
  /\ active \in here
  /\ currentActionSide \in {0, 1}
  /\ bInHighMoraleBonus \in BOOLEAN
  /\ gCloseMove \in BOOLEAN /\ engaged \in BOOLEAN
  /\ hasCast \subseteq {0, 1}
  /\ found \in BOOLEAN
  /\ history \in History

-----------------------------------------------------------------------------
(* Stacks.  `st' is a value of the variable stack, inside an action. *)

Has(st, s, flag) == flag \in st[s].flags
Under(st, s, effect) == effect \in st[s].effects
Alive(st) == {s \in here : ~Has(st, s, "DEAD")}
Mark(st, s, fs) == [st EXCEPT ![s].flags = @ \cup fs]
Unmark(st, s, fs) == [st EXCEPT ![s].flags = @ \ fs]

\* IsWinner: a side with nobody left has lost.
Over(st) == \E side \in {0, 1} : \A s \in Alive(st) : Side[s] # side

Disabled(st, s) == Under(st, s, "BLIND") \/ Under(st, s, "PARALYZE")
\* Slow leaves no speed at all: (speed + 1 - (speed + 1)) >> 1.
SpeedOf(st, s) == IF Under(st, s, "SLOW") THEN 0 ELSE Speed[s]

InPlay(st) == {p \in here \X Effect : Under(st, p[1], p[2])}
CanTake(st, s, effect) == Under(st, s, effect) \/ Cardinality(InPlay(st)) < EffectLimit
Enchant(st, s, effect) == [st EXCEPT ![s].effects = @ \cup {effect}]

\* Planted bug: the paralyzed wake without losing their answer.
HitKeepsAnswer(st, s, dies) ==
  [st EXCEPT ![s].flags = @ \cup (IF st[s].effects \ {"SLOW"} # {}
                                    THEN {"MAYBE_NOT_LOST_TURN"} ELSE {})
                            \cup (IF dies THEN {"DEAD"} ELSE {}),
             ![s].effects = @ \ {"BLIND", "PARALYZE"}]

\* army::Damage and CancelSpellType(TOOK_DAMAGE), then ProcessDeath if it dies.
\* The blow wakes the blind and the paralyzed, and costs them their turn.
Hit(st, s, dies) ==
  LET lostTurn == IF st[s].effects \ {"SLOW"} # {} THEN {"MAYBE_NOT_LOST_TURN"} ELSE {}
      lostAnswer == IF st[s].effects \cap {"PARALYZE", "HYPNOTIZE"} # {}
                      THEN {"RETALIATED"} ELSE {}
      death == IF dies THEN {"DEAD"} ELSE {}
  IN [st EXCEPT ![s].flags = @ \cup lostTurn \cup lostAnswer \cup death,
                ![s].effects = @ \ {"BLIND", "PARALYZE"}]

-----------------------------------------------------------------------------
(* Turn order *)

\* Planted bug: a stack disabled by a spell is not passed over.
MayIgnoringParalysis(st, s) ==
  /\ st[s].flags \cap {"MAYBE_NOT_LOST_TURN", "DEAD", "WAITING"} = {}
  /\ ~Under(st, s, "BLIND")
  /\ Has(st, s, "HAS_GOOD_MORALE") \/ SpeedOf(st, s) > 0

May(st, s) ==
  /\ st[s].flags \cap {"MAYBE_NOT_LOST_TURN", "DEAD", "WAITING"} = {}
  /\ ~Disabled(st, s)
  /\ Has(st, s, "HAS_GOOD_MORALE") \/ SpeedOf(st, s) > 0

\* Good morale first, then the fastest; among equals the side that did not act
\* last, then the lower index.
Place(st, s) ==
  LET pass == IF Has(st, s, "HAS_GOOD_MORALE") THEN 0 ELSE 15 - SpeedOf(st, s)
      second == IF Side[s] = Side[active] THEN 1 ELSE 0
  IN (pass * 2 + second) * MAX_STACKS + Index[s]

FirstOf(st, candidates) ==
  IF candidates = {} THEN None
  ELSE CHOOSE s \in candidates : \A t \in candidates : Place(st, s) <= Place(st, t)

\* Planted bug: waiting stacks are not asked again.
NobodyAskedAgain(st) ==
  LET may == {s \in here : May(st, s)}
  IN {[stack |-> [s \in here |-> IF s \in panicking
                    THEN [st[s] EXCEPT !.flags = @ \cup {"MAYBE_NOT_LOST_TURN"}]
                    ELSE st[s]],
       next |-> FirstOf(st, may \ panicking)] :
        panicking \in SUBSET {s \in may : Morale[s] < 0}}

\* GetNextArmy: what may come of it, a set of [stack, next].  Stacks of bad morale
\* panic as they are passed.  If only waiting stacks are left they are asked again,
\* and cannot panic.
GetNextArmy(st) ==
  LET may == {s \in here : May(st, s)}
      Asked(panicking) ==
        LET next == FirstOf(st, may \ panicking)
            frozen == {s \in panicking : next # None => Place(st, s) < Place(st, next)}
            st1 == [s \in here |-> IF s \in frozen
                       THEN [st[s] EXCEPT !.flags = @ \cup {"MAYBE_NOT_LOST_TURN"}]
                       ELSE st[s]]
            st2 == [s \in here |-> [st1[s] EXCEPT !.flags = @ \ {"WAITING"}]]
        IN IF next # None THEN [stack |-> st1, next |-> next]
           ELSE [stack |-> st2, next |-> FirstOf(st2, {s \in here : May(st2, s)})]
  IN {Asked(panicking) : panicking \in SUBSET {s \in may : Morale[s] < 0}}

\* Planted bug: a new round does not give the living their turns back.
KeepsLostTurns(st, gone) ==
  [s \in here |->
     IF s \notin Alive(st) THEN st[s]
     ELSE [flags |-> st[s].flags \ {"HAS_GOOD_MORALE", "RETALIATED"},
           effects |-> {e \in st[s].effects : <<s, e>> \notin gone}]]

\* ResetRound.  The dead keep their flags and effects.  `gone': the effects that
\* end with the round.
ResetRound(st, gone) ==
  [s \in here |->
     IF s \notin Alive(st) THEN st[s]
     ELSE [flags |-> st[s].flags \ {"HAS_GOOD_MORALE", "RETALIATED", "MAYBE_NOT_LOST_TURN"},
           effects |-> {e \in st[s].effects : <<s, e>> \notin gone}]]

NewRound == [turns |-> [s \in here |-> 0], waits |-> [s \in here |-> 0],
             answers |-> [s \in here |-> 0], last |-> None, streak |-> 0,
             excused |-> {}]

\* The active stack has ended a turn.
Counted(h) ==
  [h EXCEPT !.turns[active] = IF @ = 0 THEN 1 ELSE 2, !.last = active,
            !.streak = IF h.last = active THEN @ + 1 ELSE 1]

\* Planted bug: nobody becomes the active one.
ActivateNobody(r) ==
  /\ stack' = r.stack
  /\ found' = (r.next # None)
  /\ active' = r.next
  /\ UNCHANGED currentActionSide

\* The next stack becomes the active one.  If there is none, the last one stays.
Activate(r) ==
  /\ stack' = r.stack
  /\ found' = (r.next # None)
  /\ active' = IF r.next = None THEN active ELSE r.next
  /\ currentActionSide' =
       IF r.next = None THEN currentActionSide
       ELSE IF Under(r.stack, r.next, "HYPNOTIZE") THEN 1 - Side[r.next]
       ELSE Side[r.next]

\* The end of ProcessNextAction: the next stack, in this round or a new one.
NextTurn(st, h, cast) ==
  IF Over(st)
    THEN /\ stack' = st /\ history' = h /\ hasCast' = cast
         /\ UNCHANGED <<active, currentActionSide, found>>
    ELSE \E r \in GetNextArmy(st) :
           \/ /\ r.next # None
              /\ Activate(r) /\ history' = h /\ hasCast' = cast
           \/ /\ r.next = None
              /\ \E gone \in SUBSET InPlay(st) :
                   \E again \in GetNextArmy(ResetRound(r.stack, gone)) : Activate(again)
              /\ history' = NewRound /\ hasCast' = {}

\* Planted bug: good morale may grant a turn after a turn it has granted.
MoraleWithoutEnd(st) ==
  {[stack |-> st, bonus |-> FALSE]} \cup
  (IF active \in Alive(st) /\ Morale[active] > 0
     THEN {[stack |-> Mark(Unmark(st, active, {"MAYBE_NOT_LOST_TURN"}), active,
                           {"HAS_GOOD_MORALE"}), bonus |-> TRUE]}
     ELSE {})

\* CheckApplyGoodMorale: what may come of it.  The flag is global: whoever attacks
\* next clears it, and gets no roll.
CheckApplyGoodMorale(st) ==
  {[stack |-> st, bonus |-> FALSE]} \cup
  (IF ~bInHighMoraleBonus /\ active \in Alive(st) /\ Morale[active] > 0
     THEN {[stack |-> Mark(Unmark(st, active, {"MAYBE_NOT_LOST_TURN"}), active,
                           {"HAS_GOOD_MORALE"}), bonus |-> TRUE]}
     ELSE {})

-----------------------------------------------------------------------------
(* Blows *)

\* How a stack comes to its target, or to where it goes.
Approaches(s) ==
  {"near"} \cup {how \in {"stays"} : engaged} \cup {how \in {"far"} : s \in Flyers}

\* Walk and FlyTo set gCloseMove; a stack that stays where it is does not.
CloseMove(how) == IF how = "stays" THEN gCloseMove ELSE how = "near"

\* One DoAttack of a at t without what follows it: what may come of it.  A cyclops
\* may paralyze a target that survives.
Blow(st, a, t) ==
  LET hits == {[stack |-> Hit(st, t, dies), stopped |-> FALSE] : dies \in BOOLEAN}
      struck == Hit(st, t, FALSE)
  IN hits \cup
     (IF a \in Paralyzers /\ CanTake(struck, t, "PARALYZE")
        THEN {[stack |-> Enchant(struck, t, "PARALYZE"), stopped |-> TRUE]}
        ELSE {})

\* Whether t strikes back at a after the blow b.
Answers(b, a, t, close) ==
  /\ t \in Alive(b.stack)
  /\ ~Under(b.stack, t, "PARALYZE")
  /\ t \in Griffins \/ ~Has(b.stack, t, "RETALIATED")
  /\ a \notin Unanswered /\ (a \in Teleporters => close)
  /\ ~b.stopped

\* Planted bug: an answer that kills is not counted.
MarkedIfAlive(st, a, t) == IF a \in Alive(st) THEN Mark(st, t, {"RETALIATED"}) ELSE st

HasAnswered(st, a, t) == Mark(st, t, {"RETALIATED"})

StrikesTwice(st, a, t) ==
  a \in TwiceStrikers /\ {a, t} \subseteq Alive(st) /\ ~Disabled(st, a)

\* DoAttack: the blow, the answer, the second blow.  A set of [stack, answered,
\* twice].
DoAttack(st, a, t, close) ==
  LET first == Blow(st, a, t)
      answers == UNION {IF Answers(b, a, t, close)
                          THEN {[stack |-> HasAnswered(c.stack, a, t), answered |-> TRUE,
                                 twice |-> FALSE] : c \in Blow(b.stack, t, a)}
                          ELSE {[stack |-> b.stack, answered |-> FALSE, twice |-> FALSE]} :
                          b \in first}
  IN UNION {IF StrikesTwice(x.stack, a, t)
              THEN {[x EXCEPT !.stack = c.stack, !.twice = TRUE] : c \in Blow(x.stack, a, t)}
              ELSE {x} : x \in answers}

\* CancelSpellType(TOOK_TURN): an attack ends the hypnosis of the attacker.
TookTurn(st, s) == [st EXCEPT ![s].effects = @ \ {"HYPNOTIZE"}]

Spellbound(st, ss) == {s \in ss : st[s].effects \cap {"BLIND", "PARALYZE", "HYPNOTIZE"} # {}}

-----------------------------------------------------------------------------
(* Actions *)

Init ==
  /\ here \in Lineups
  /\ stack = [s \in here |-> [flags |-> {}, effects |-> {}]]
  /\ active \in here
  /\ \A s \in here : Place(stack, active) <= Place(stack, s)
  /\ currentActionSide = Side[active]
  /\ bInHighMoraleBonus = FALSE
  /\ gCloseMove \in BOOLEAN   \* as the last combat left it
  /\ engaged = FALSE
  /\ hasCast = {}
  /\ found = TRUE
  /\ history = NewRound

Acting == active \in Alive(stack) /\ ~Over(stack)
Targets == {t \in Alive(stack) \ {active} : Side[t] # currentActionSide}

\* Actions 2 and 6 of ProcessNextAction after the attack or the move.
EndTurn(st, h) ==
  LET marked == Mark(st, active, {"MAYBE_NOT_LOST_TURN"})
      counted == Counted(h)
  IN IF Over(marked)
       THEN NextTurn(marked, counted, hasCast) /\ UNCHANGED bInHighMoraleBonus
       ELSE \E m \in CheckApplyGoodMorale(marked) :
              NextTurn(m.stack, counted, hasCast) /\ bInHighMoraleBonus' = m.bonus

\* An answer and a second strike are calls of DoAttack that set gCloseMove.
Strike(t, how) ==
  /\ Acting /\ t \in Targets /\ how \in Approaches(active)
  /\ \E x \in DoAttack(stack, active, t, CloseMove(how)) :
       /\ EndTurn(TookTurn(x.stack, active),
                  [history EXCEPT !.answers[t] = IF x.answered THEN @ + 1 ELSE @,
                                  !.excused = @ \cup Spellbound(stack, {active, t})])
       /\ gCloseMove' = (CloseMove(how) \/ x.answered \/ x.twice)
  /\ engaged' = TRUE
  /\ UNCHANGED here

\* SpecialAttack: nobody answers a shot.
Shoot ==
  /\ Acting /\ active \in Shooters
  /\ \E t \in Targets, dies \in BOOLEAN :
       EndTurn(TookTurn(Hit(stack, t, dies), active),
               [history EXCEPT !.excused = @ \cup Spellbound(stack, {t})])
  /\ UNCHANGED <<here, gCloseMove, engaged>>

\* A walk or a flight: hypnosis goes on.
Move ==
  /\ Acting /\ EndTurn(stack, history)
  /\ \E how \in Approaches(active) \ {"stays"} : gCloseMove' = CloseMove(how)
  /\ engaged' = TRUE
  /\ UNCHANGED here

Skip ==
  /\ ~Over(stack)
  /\ NextTurn(Mark(stack, active, {"MAYBE_NOT_LOST_TURN"}),
              Counted(history), hasCast)
  /\ UNCHANGED <<here, gCloseMove, engaged, bInHighMoraleBonus>>

Wait ==
  /\ ~Over(stack)
  /\ history.waits[active] < WaitLimit
  /\ NextTurn(Mark(stack, active, {"WAITING"}), [history EXCEPT !.waits[active] = @ + 1],
              hasCast)
  /\ UNCHANGED <<here, gCloseMove, engaged, bInHighMoraleBonus>>

\* A hero's spell, once a round, on the turn of a stack he commands.
MayCast == ~Over(stack) /\ currentActionSide \notin hasCast

\* The turn goes on if the active stack is alive after the spell.
AfterCast(st, h) ==
  LET cast == hasCast \cup {currentActionSide}
  IN /\ IF active \in Alive(st)
          THEN /\ stack' = st /\ history' = h /\ hasCast' = cast
               /\ UNCHANGED <<active, currentActionSide, found>>
          ELSE NextTurn(st, h, cast)
     /\ UNCHANGED <<here, gCloseMove, engaged, bInHighMoraleBonus>>

\* Harmful spells go by the owner of the target: a hypnotized active stack is one.
CastEffect ==
  /\ MayCast
  /\ \E t \in Alive(stack), e \in CastByHeroes :
       /\ Side[t] # currentActionSide
       /\ CanTake(stack, t, e)
       /\ AfterCast(Enchant(stack, t, e), history)

\* Damage, to friend or foe.
CastDamage ==
  /\ MayCast
  /\ \E t \in Alive(stack), dies \in BOOLEAN :
       AfterCast(Hit(stack, t, dies),
                 [history EXCEPT !.excused = @ \cup Spellbound(stack, {t})])

CastDispel ==
  /\ MayCast
  /\ \E t \in Alive(stack) :
       /\ stack[t].effects # {}
       /\ AfterCast([stack EXCEPT ![t].effects = {}], history)

\* Resurrect clears DEAD and nothing else.
CastResurrect ==
  /\ MayCast
  /\ \E t \in here \ Alive(stack) :
       /\ Side[t] = currentActionSide
       /\ AfterCast(Unmark(stack, t, {"DEAD"}), [history EXCEPT !.excused = @ \cup {t}])

\* The battle has been decided.
BattleOver == Over(stack) /\ UNCHANGED vars

TakeTurn ==
  \/ \E t \in here, how \in {"stays", "near", "far"} : Strike(t, how)
  \/ Shoot \/ Move \/ Skip \/ Wait
Next == TakeTurn \/ CastEffect \/ CastDamage \/ CastDispel \/ CastResurrect \/ BattleOver

\* Something is done as long as the battle is not decided: WF_vars(Next), in a form
\* that TLC can evaluate.  Spells alone cannot go on: hasCast lets a hero cast once
\* a round.
Fairness == []<>Over(stack) \/ []<><<TRUE>>_vars

Spec == Init /\ [][Next]_vars /\ Fairness

-----------------------------------------------------------------------------
(* Properties *)

\* A stack that its own side commands in its turn is alive, has not spent its turn
\* and is not disabled: whatever spells are cast during the turn, and whoever dies.
ActiveMayAct ==
  (found /\ ~Over(stack) /\ currentActionSide = Side[active]) =>
    /\ active \in Alive(stack)
    /\ ~Has(stack, active, "MAYBE_NOT_LOST_TURN")
    /\ ~Disabled(stack, active)

\* A living stack that has lost its turn has taken one this round, was struck while
\* spellbound, was raised from the dead, or can panic: no flag outlives its round.
OnlySpentTurnsAreLost ==
  \A s \in Alive(stack) :
    Has(stack, s, "MAYBE_NOT_LOST_TURN") =>
      history.turns[s] > 0 \/ s \in history.excused \/ Morale[s] < 0

\* Without good morale a stack takes one turn a round; with it, never three in a
\* row: the bonus is not granted on the turn it granted.
MoraleGivesOneTurnAtATime ==
  /\ \A s \in here : history.turns[s] > 1 => Morale[s] > 0
  /\ history.streak <= 2

\* A stack other than a griffin strikes back once a round, in whatever order it is
\* attacked, wounded, disabled, killed and raised.
OneAnswerARound ==
  \A s \in here \ Griffins : history.answers[s] <= 1

\* Every stack that lives and is under no spell has a turn some time, or is killed,
\* or put under a spell, or the battle ends: no order of acting starves it.
EveryStackGetsItsTurn ==
  \A s \in Stacks :
    Morale[s] >= 0 /\ s \in Alive(stack) /\ stack[s].effects = {}
      ~> \/ found /\ active = s
         \/ s \notin Alive(stack) \/ stack[s].effects # {} \/ Over(stack)

\* A paralyzed stack does not strike back ("The targeted creatures are paralyzed, unable
\* to move or retaliate", spells.cpp:43): the blow that wakes it takes its answer too.
\* Griffins do, because they answer however often they have answered before.
WokenDoNotRetaliate ==
  [][\A s \in here \ Griffins :
       Under(stack, s, "PARALYZE") => history'.answers[s] <= history.answers[s]]_vars

\* gCloseMove is to "differentiate between close/from a distance attack" (army.cpp:35):
\* a stack that attacks from where it stands is answered like anybody, unless its
\* target has answered before or may not.
CloseStrikesAreAnswered ==
  [][\A t \in here :
       Strike(t, "stays") /\ active \notin Unanswered /\ history' # NewRound
         => \/ t \notin Alive(stack') \/ Has(stack', t, "RETALIATED")
            \/ Under(stack', t, "PARALYZE")]_vars
=============================================================================
