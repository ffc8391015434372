---------------------------- MODULE Battlefield ----------------------------
(***************************************************************************)
(* Who stands where in combat.  The position of a stack is kept twice: in  *)
(* its army record (occupiedHex, facingRight) and in the hexes of          *)
(* combatGrid.  combat/army.cpp moves, turns and attacks, and              *)
(* combat/combat_spells.cpp teleports and resurrects; each of them updates *)
(* both by hand.  A stack of a two-hex creature stands on occupiedHex and  *)
(* on the hex in front of it, so that turning it round moves occupiedHex.  *)
(*                                                                         *)
(* Quantities are abstracted to alive or dead, damage to who dies of it.   *)
(* Paths are single steps onto free hexes (what FindPath checks).          *)
(*                                                                         *)
(* Five known defects make the two records disagree; README.md lists them. *)
(* `intact' tells whether one has struck, and the model stops there.       *)
(***************************************************************************)
EXTENDS Integers, Sequences, FiniteSets

CONSTANTS
  Columns, Rows,   \* 13 and 9; the first and the last column are borders
  Blocked,         \* hexes with an obstacle
  Stacks,          \* the stacks of both sides
  Elementals,      \* those of them that are summoned: one hex, leave no body
  Side,            \* [Stacks -> {0, 1}] owningSide; side 0 faces right
  Start,           \* [Stacks \ Elementals -> Hex] where a stack starts
  SummonHexes,     \* [{0, 1} -> SUBSET Hex] squaresAroundCaster
  TwoHexers, Flyers, Shooters, Jumpers, TwoHexAttackers,  \* attributes
  TwiceStrikers,   \* wolves, paladins, crusaders
  Liches, PlasmaBlasters,  \* shooters whose shot takes a whole area
  CorpseLimit,     \* how many bodies a hex keeps: 14
  NoStack          \* -1

Hex == 0 .. Columns * Rows - 1
Border(h) == h % Columns \in {0, Columns - 1}
Field == {h \in Hex : ~Border(h)}
Direction == 0..7

ASSUME BoardAssumption ==
  /\ Columns \in Nat /\ Columns > 2 /\ Rows \in Nat \ {0}
  /\ Blocked \subseteq Field /\ CorpseLimit \in Nat
  /\ SummonHexes \in [{0, 1} -> SUBSET (Field \ Blocked)]
ASSUME StacksAssumption ==
  /\ Side \in [Stacks -> {0, 1}] /\ NoStack \notin Stacks
  /\ Start \in [Stacks \ Elementals -> Field]
  /\ Elementals \cap TwoHexers = {} /\ Jumpers \cap TwoHexers = {}

VARIABLES
  army,       \* [Stacks -> record] occupiedHex, facingRight, status
  combatGrid, \* [Hex -> record] occupant, otherHexIsToLeft, corpses
  active,     \* the stack whose turn it is
  intact      \* history: none of the known defects has struck

vars == <<army, combatGrid, active, intact>>

TypeOK ==
  /\ army \in [Stacks -> [occupiedHex : Hex, facingRight : {0, 1},
                          status : {"absent", "alive", "dead"}]]
  /\ combatGrid \in
       [Hex -> [occupant : Stacks \cup {NoStack}, otherHexIsToLeft : {-1, 0, 1},
                corpses : Seq([stack : Stacks, otherHexIsToLeft : {-1, 0, 1}])]]
  /\ \A h \in Hex : Len(combatGrid[h].corpses) <= CorpseLimit
  /\ active \in Stacks
  /\ intact \in BOOLEAN

-----------------------------------------------------------------------------
(* The board *)

\* hexNeighbors: 0 up right, 1 right, 2 down right, 3 down left, 4 left,
\* 5 up left; 6 and 7 are straight up and down from the front hex of a
\* two-hexer.  Every other row is shifted by half a hex.
Neighbor(h, dir, facing) ==
  LET odd == (h \div Columns) % 2
      d == CASE dir = 6 -> IF facing = 1 THEN 5 ELSE 0
             [] dir = 7 -> IF facing = 1 THEN 3 ELSE 2
             [] OTHER -> dir
      n == CASE d = 0 -> h - Columns + 1 - odd
             [] d = 1 -> h + 1
             [] d = 2 -> h + Columns + 1 - odd
             [] d = 3 -> h + Columns - odd
             [] d = 4 -> h - 1
             [] d = 5 -> h - Columns - odd
  IN IF h \in Field /\ n \in Field THEN n ELSE -1

\* centerX, in half hexes.
CenterX(h) == 2 * (h % Columns) + (IF (h \div Columns) % 2 = 0 THEN 1 ELSE 0)

Ahead(facing) == IF facing = 1 THEN 1 ELSE -1
Cells(s, h, facing) == {h} \cup (IF s \in TwoHexers THEN {h + Ahead(facing)} ELSE {})
\* LoadArmies sets the armies up at the two ends of rows of their own, facing
\* each other; SetupAndLoadObstacles leaves those columns alone.
ASSUME StartAssumption ==
  \A s \in Stacks \ Elementals :
    LET cells == Cells(s, Start[s], 1 - Side[s]) IN
    /\ cells \subseteq Field \ Blocked
    /\ \A t \in Stacks \ Elementals :
         t # s => cells \cap Cells(t, Start[t], 1 - Side[t]) = {}

CellsOf(s) == Cells(s, army[s].occupiedHex, army[s].facingRight)

Alive == {s \in Stacks : army[s].status = "alive"}
Occupant(h) == combatGrid[h].occupant
Free(h) == Occupant(h) = NoStack /\ h \notin Blocked

\* Clears hexes of the grid, resets their marks.
Vacate(grid, cells) ==
  [h \in Hex |-> IF h \in cells
                 THEN [grid[h] EXCEPT !.occupant = NoStack, !.otherHexIsToLeft = -1]
                 ELSE grid[h]]

\* Planted bug: the mark is written for a stack that faces right.
OccupyFacingRight(grid, s, h, facing) ==
  LET cells == Cells(s, h, facing)
      mark(c) == IF s \notin TwoHexers THEN -1 ELSE IF c = h THEN 0 ELSE 1
  IN [c \in Hex |-> IF c \in cells
                    THEN [grid[c] EXCEPT !.occupant = s, !.otherHexIsToLeft = mark(c)]
                    ELSE grid[c]]

\* Puts a stack on the grid; the mark says where its other hex is.
Occupy(grid, s, h, facing) ==
  LET cells == Cells(s, h, facing)
      mark(c) == IF s \notin TwoHexers THEN -1
                 ELSE IF \E d \in cells : d < c THEN 1 ELSE 0
  IN [c \in Hex |-> IF c \in cells
                    THEN [grid[c] EXCEPT !.occupant = s, !.otherHexIsToLeft = mark(c)]
                    ELSE grid[c]]

\* OccupyHexes, called on a stack that has just turned to `facing'.
Turned(s, h, facing) ==
  IF s \notin TwoHexers THEN h ELSE IF facing = 1 THEN h - 1 ELSE h + 1

\* Turns a stack of an army function, unless it faces that way already.
TurnTo(a, s, facing) ==
  IF a[s].facingRight = facing THEN a
  ELSE [a EXCEPT ![s].facingRight = facing,
                 ![s].occupiedHex = Turned(s, @, facing)]

-----------------------------------------------------------------------------
(* Death *)

CellsIn(a, s) == Cells(s, a[s].occupiedHex, a[s].facingRight)

\* Planted bug: bodies pile up without limit.
BodyAlwaysFits(a, s) == TRUE

LeaveNoBody(s) == s \in Elementals
BodyFits(a, s) == \A h \in CellsIn(a, s) : Len(combatGrid[h].corpses) < CorpseLimit
\* Planted bug: the body of a two-hexer lies on one hex only.
BuryOnOneHex(a, grid, dying) ==
  [h \in Hex |->
     IF \A s \in dying : h \notin CellsIn(a, s) THEN grid[h]
     ELSE LET s == CHOOSE t \in dying : h \in CellsIn(a, t)
              body == [stack |-> grid[h].occupant,
                       otherHexIsToLeft |-> grid[h].otherHexIsToLeft]
          IN [grid[h] EXCEPT
                !.occupant = NoStack,
                !.corpses = IF LeaveNoBody(s) \/ ~BodyFits(a, s) \/ h # a[s].occupiedHex
                            THEN @ ELSE Append(@, body)]]

\* ProcessDeath for the stacks of a set, none of them dead.  Their bodies are
\* put on top of those that lie there; the marks of the hexes stay.
Bury(a, grid, dying) ==
  [h \in Hex |->
     IF \A s \in dying : h \notin CellsIn(a, s) THEN grid[h]
     ELSE LET s == CHOOSE t \in dying : h \in CellsIn(a, t)
              body == [stack |-> grid[h].occupant,
                       otherHexIsToLeft |-> grid[h].otherHexIsToLeft]
          IN [grid[h] EXCEPT
                !.occupant = NoStack,
                !.corpses = IF LeaveNoBody(s) \/ ~BodyFits(a, s) THEN @
                            ELSE Append(@, body)]]
Died(a, dying) ==
  [s \in Stacks |-> IF s \in dying THEN [a[s] EXCEPT !.status = "dead"] ELSE a[s]]

-----------------------------------------------------------------------------
(* Moving *)

Init ==
  /\ army = [s \in Stacks |->
               [occupiedHex |-> IF s \in Elementals THEN 0 ELSE Start[s],
                facingRight |-> 1 - Side[s],
                status |-> IF s \in Elementals THEN "absent" ELSE "alive"]]
  /\ combatGrid =
       [h \in Hex |->
          LET here == {s \in Stacks \ Elementals : h \in Cells(s, Start[s], 1 - Side[s])}
              empty == [h2 \in Hex |-> [occupant |-> NoStack, otherHexIsToLeft |-> -1,
                                        corpses |-> <<>>]]
          IN IF here = {} THEN empty[h]
             ELSE LET s == CHOOSE s \in here : TRUE
                  IN Occupy(empty, s, Start[s], 1 - Side[s])[h]]
  /\ active \in Stacks \ Elementals
  /\ intact = TRUE

\* Any living stack may be next; the active one may have died of a retaliation.
NextArmy ==
  /\ intact /\ active' \in Alive
  /\ UNCHANGED <<army, combatGrid, intact>>

Acting == intact /\ active \in Alive

\* Planted bug: a step does not look who stands there.
FitsForAnyone(s, cells) == cells \subseteq Field /\ \A h \in cells : h \notin Blocked

\* Where the active stack may stand, its own hexes counting as free.
FitsFor(s, cells) ==
  cells \subseteq Field /\ \A h \in cells : h \notin Blocked /\ Occupant(h) \in {NoStack, s}

\* Planted bug: the stack does not turn back after a step.
WalkAndStayTurned(dir) ==
  LET s == active
      facing == IF dir >= 3 THEN 0 ELSE 1
      turned == TurnTo(army, s, facing)[s]
      adjCell == Neighbor(turned.occupiedHex, dir, facing)
  IN
  /\ Acting /\ adjCell # -1 /\ FitsFor(s, Cells(s, adjCell, facing))
  /\ combatGrid' = Occupy(Vacate(combatGrid, Cells(s, turned.occupiedHex, facing)),
                          s, adjCell, facing)
  /\ army' = [army EXCEPT ![s].occupiedHex = adjCell, ![s].facingRight = facing]
  /\ UNCHANGED <<active, intact>>

\* One step: the stack turns the way it walks (field_8E), moves, turns back.
Walk(dir) ==
  LET s == active
      facing == IF dir >= 3 THEN 0 ELSE 1
      turned == TurnTo(army, s, facing)[s]
      adjCell == Neighbor(turned.occupiedHex, dir, facing)
  IN
  /\ Acting /\ adjCell # -1 /\ FitsFor(s, Cells(s, adjCell, facing))
  /\ combatGrid' = Occupy(Vacate(combatGrid, Cells(s, turned.occupiedHex, facing)),
                          s, adjCell, facing)
  /\ army' = TurnTo([army EXCEPT ![s].occupiedHex = adjCell, ![s].facingRight = facing],
                    s, army[s].facingRight)
  /\ UNCHANGED <<active, intact>>

\* CanFit without the shift: the hexes are free, but the second may be the
\* active stack's.
CanFit(s, h) ==
  LET second == Neighbor(h, IF army[s].facingRight = 1 THEN 1 ELSE 4, army[s].facingRight) IN
  /\ h \in Field /\ Free(h)
  /\ s \in TwoHexers =>
       second # -1 /\ second \notin Blocked /\ Occupant(second) \in {NoStack, active}

\* A flyer turns when its column changes the other way, which moves the hex
\* it flies to as well as the one it comes from.
FlyTo(h) ==
  LET s == active
      colDiff == (h % Columns) - (army[s].occupiedHex % Columns)
      facing == IF colDiff > 0 THEN 1 ELSE IF colDiff < 0 THEN 0
                ELSE army[s].facingRight
      from == TurnTo(army, s, facing)[s].occupiedHex
      to == h + from - army[s].occupiedHex
  IN
  /\ Acting /\ s \in Flyers /\ CanFit(s, h)
  /\ combatGrid' = Occupy(Vacate(combatGrid, Cells(s, from, facing)), s, to, facing)
  /\ army' = TurnTo([army EXCEPT ![s].occupiedHex = to, ![s].facingRight = facing],
                    s, army[s].facingRight)
  /\ UNCHANGED <<active, intact>>

\* ArcJump over obstacles or at an enemy: a jumper does not turn back.
ArcJump(h) ==
  LET s == active
      from == army[s].occupiedHex
      facing == IF CenterX(from) > CenterX(h) THEN 0 ELSE 1
  IN
  /\ Acting /\ s \in Jumpers /\ h \in Field /\ Free(h)
  /\ combatGrid' = Occupy(Vacate(combatGrid, {from}), s, h, facing)
  /\ army' = [army EXCEPT ![s].occupiedHex = h, ![s].facingRight = facing]
  /\ UNCHANGED <<active, intact>>

-----------------------------------------------------------------------------
(* Attacking *)

\* The hex a stack of an army strikes at: two-hexers strike from the nearer hex.
TargetHex(a, s, dir) ==
  LET facing == a[s].facingRight
      front == s \in TwoHexers /\ IF facing = 1 THEN dir \notin 3..5 ELSE dir >= 3
      from == a[s].occupiedHex
  IN Neighbor(IF front THEN from + Ahead(facing) ELSE from, dir, facing)

\* secondHexTarget: who stands behind the one struck, if the blow goes so deep.
SecondHexTarget(a, s, dir) ==
  LET struck == TargetHex(a, s, dir)
      behind == Neighbor(struck, dir, a[s].facingRight)
  IN IF s \in TwoHexAttackers /\ behind # -1
     THEN {Occupant(behind)} \ {NoStack, Occupant(struck)} ELSE {}

\* The direction t strikes back in, with OppositeDirection: up or down from its
\* front hex if s stands there.
AnswerDirection(a, s, t, dir) ==
  IF t \in TwoHexers /\ a[s].occupiedHex = TargetHex(a, t, 7) THEN 7
  ELSE IF t \in TwoHexers /\ a[s].occupiedHex = TargetHex(a, t, 6) THEN 6
  ELSE IF dir >= 6 THEN 13 - dir ELSE (dir + 3) % 6

\* Who dies in an attack: the targets or, unless the first of them has died of
\* the blow, those whom it hits in return.  Who strikes twice may kill it then.
Casualties(s, target, second, behind) ==
  {dying \in SUBSET ({s, target} \cup second \cup behind) :
     target \in dying /\ dying \cap ({s} \cup (behind \ second)) # {} =>
       s \in TwiceStrikers \ dying}

\* DoAttack with retaliation: the attacker turns to its target and the target
\* to the attacker, and those who live turn back.  (A retaliation turns and
\* turns back within it.)
DoAttack(dir) ==
  LET s == active
      old == army[s].facingRight
      struck == TargetHex(army, s, dir)
      target == Occupant(struck)
      facing == IF dir <= 2 THEN 1 ELSE IF dir <= 5 THEN 0 ELSE old
      facedOff == IF facing = old THEN army
                  ELSE TurnTo(TurnTo(army, s, facing), target, 1 - facing)
      second == SecondHexTarget(army, s, dir)
      behind == SecondHexTarget(facedOff, target, AnswerDirection(facedOff, s, target, dir))
      Restored(a) ==
        IF facing = old THEN a
        ELSE [t \in Stacks |->
                IF t \in {s, target} /\ a[t].status # "dead"
                THEN TurnTo(a, t, army[t].facingRight)[t] ELSE a[t]]
  IN
  /\ Acting /\ (dir >= 6 => s \in TwoHexers)
  /\ struck # -1 /\ target \notin {NoStack, s}
  /\ \E dying \in Casualties(s, target, second, behind) :
       /\ combatGrid' = Bury(facedOff, combatGrid, dying)
       /\ army' = Restored(Died(facedOff, dying))
  /\ UNCHANGED <<active, intact>>

\* Who a shot at t may kill: those around t with the cloud of a lich, those
\* within two hexes with a plasma blast, which spares nobody, the shooter included.
ShotAt(s, t) ==
  LET there == army[t].occupiedHex
      row(n, ks) == {there + n * Columns + k : k \in ks}
      area == IF s \in Liches THEN {Neighbor(there, dir, 1) : dir \in 0..5}
              ELSE IF s \notin PlasmaBlasters THEN {}
              ELSE row(-2, -1..1) \cup row(-1, -1..2) \cup row(0, -2..2)
                     \cup row(1, -1..2) \cup row(2, -1..1)
  IN {t} \cup ({Occupant(h) : h \in area \cap Hex} \ {NoStack})

\* GetAttackMask: somebody of that side stands next to s, which cannot shoot then.
Beset(s, side) ==
  \E dir \in Direction :
    LET h == TargetHex(army, s, dir) IN
    /\ dir >= 6 => s \in TwoHexers
    /\ h # -1 /\ Occupant(h) # NoStack /\ Side[Occupant(h)] = side

\* SpecialAttack: a shooter turns to its target.  Turning back, it calls
\* OccupyHexes before it resets facingRight.
SpecialAttack(t) ==
  LET s == active
      old == army[s].facingRight
      col(h) == h % Columns
      here == army[s].occupiedHex
      there == army[t].occupiedHex
      facing == IF col(there) > col(here)
                   \/ ((here \div Columns) % 2 = 0 /\ col(there) = col(here))
                THEN 1 ELSE 0
      aimed == TurnTo(army, s, facing)
      drifted == Turned(s, aimed[s].occupiedHex, facing)
      Back(a) == IF facing = old THEN a
                 ELSE [a EXCEPT ![s].facingRight = old, ![s].occupiedHex = drifted]
  IN
  /\ Acting /\ s \in Shooters /\ t \in Alive \ {s} /\ ~Beset(s, Side[t])
  /\ facing # old => drifted \in Hex
  /\ \E dying \in SUBSET ShotAt(s, t) :
       /\ combatGrid' = Bury(aimed, combatGrid, dying)
       /\ army' = Back(Died(aimed, dying))
  /\ intact' = (facing = old \/ s \notin TwoHexers)
  /\ UNCHANGED active

-----------------------------------------------------------------------------
(* Spells that move stacks, cast by the hero of the active stack's side *)

\* A stack of the caster's goes to a hex where CanFit says it fits.  The other
\* hex it leaves is found by the mark; a two-hexer that does not fit in front
\* is put one hex further back, unseen.
Teleport(s, h) ==
  LET old == army[s].occupiedHex
      facing == army[s].facingRight
      mark == combatGrid[old].otherHexIsToLeft
      left == {old} \cup (IF mark = 1 THEN {old - 1} ELSE IF mark = 0 THEN {old + 1} ELSE {})
      gone == [c \in Hex |-> IF c \in left THEN [combatGrid[c] EXCEPT !.occupant = NoStack]
                             ELSE combatGrid[c]]
      front == Neighbor(h, IF facing = 1 THEN 1 ELSE 4, facing)
      fits == front # -1 /\ gone[front].occupant = NoStack /\ front \notin Blocked
      to == IF s \notin TwoHexers \/ fits THEN h ELSE h - Ahead(facing)
  IN
  /\ Acting /\ s \in Alive /\ Side[s] = Side[active] /\ CanFit(s, h)
  /\ combatGrid' = Occupy(gone, s, to, facing)
  /\ army' = [army EXCEPT ![s].occupiedHex = to]
  /\ intact' = (to = h)
  /\ UNCHANGED active

\* FindResurrectArmyIndex: the uppermost body of that side that has room.
Resurrectable(side, h) ==
  LET bodies == combatGrid[h].corpses
      room(i) == LET mark == bodies[i].otherHexIsToLeft IN
        /\ mark = 0 => Occupant(h + 1) = NoStack
        /\ mark = 1 => Occupant(h - 1) = NoStack
      found == {i \in 1..Len(bodies) : Side[bodies[i].stack] = side /\ room(i)}
  IN IF found = {} THEN NoStack
     ELSE bodies[CHOOSE i \in found : \A j \in found : j <= i].stack

\* The loop over the bodies on a hex: from the one that rises upwards, each is
\* made the occupant in turn and the next takes its place; the marks of the
\* bodies stay where they are.
Raise(cell, s) ==
  LET n == Len(cell.corpses)
      at == {i \in 1..n : cell.corpses[i].stack = s}
      first == CHOOSE i \in at : \A j \in at : i <= j
  IN IF at = {} THEN [cell EXCEPT !.corpses = SubSeq(@, 1, n - 1)]
     ELSE [occupant |-> cell.corpses[n].stack,
           otherHexIsToLeft |-> -1,
           corpses |-> [j \in 1 .. n - 1 |->
                          [cell.corpses[j] EXCEPT
                             !.stack = IF j < first THEN @ ELSE cell.corpses[j + 1].stack]]]

Resurrect(h) ==
  LET side == Side[active]
      s == Resurrectable(side, h)
      bodies == combatGrid[h].corpses
      mark == bodies[CHOOSE i \in 1..Len(bodies) : bodies[i].stack = s].otherHexIsToLeft
      other == IF mark = 1 THEN h - 1 ELSE IF mark = 0 THEN h + 1 ELSE h
      facing == 1 - side
      leftHex == IF other < h THEN other ELSE h
      rightHex == IF other < h THEN h ELSE other
      raised == [c \in Hex |-> IF c \in {h, other} THEN Raise(combatGrid[c], s)
                               ELSE combatGrid[c]]
      Uppermost(c) == Len(combatGrid[c].corpses) > 0
                      /\ combatGrid[c].corpses[Len(combatGrid[c].corpses)].stack = s
  IN
  /\ Acting /\ Occupant(h) = NoStack /\ s # NoStack
  /\ combatGrid' = IF s \notin TwoHexers THEN raised
                   ELSE [raised EXCEPT ![leftHex].otherHexIsToLeft = 1 - facing,
                                       ![rightHex].otherHexIsToLeft = facing]
  /\ army' = [army EXCEPT
                ![s].status = "alive", ![s].facingRight = facing,
                ![s].occupiedHex = IF s \notin TwoHexers THEN @
                                   ELSE IF facing = 1 THEN leftHex ELSE rightHex]
  /\ intact' = (Uppermost(h) /\ Uppermost(other) /\ (s \in TwoHexers => facing = 1))
  /\ UNCHANGED active

\* AddArmy with army::Init, which sets the mark only under two-hexers.
SummonElemental(s, h) ==
  /\ Acting /\ s \in Elementals \ Alive /\ Side[s] = Side[active]
  /\ h \in SummonHexes[Side[s]] /\ Occupant(h) = NoStack
  /\ army' = [army EXCEPT ![s] = [occupiedHex |-> h, facingRight |-> 1 - Side[s],
                                  status |-> "alive"]]
  /\ combatGrid' = [combatGrid EXCEPT ![h].occupant = s]
  /\ intact' = (combatGrid[h].otherHexIsToLeft = -1)
  /\ UNCHANGED active

Next ==
  \/ NextArmy
  \/ \E dir \in 0..5 : Walk(dir)
  \/ \E h \in Field : FlyTo(h) \/ ArcJump(h) \/ Resurrect(h)
  \/ \E dir \in Direction : DoAttack(dir)
  \/ \E t \in Stacks : SpecialAttack(t)
  \/ \E s \in Stacks, h \in Field : Teleport(s, h) \/ SummonElemental(s, h)

Spec == Init /\ [][Next]_vars
-----------------------------------------------------------------------------
(* Properties *)

\* The grid and the army records say the same: a living stack stands on its
\* hexes, all of them on the field and without obstacles, and nobody else
\* does; whatever turns, flights, jumps, deaths and spells came before.
GridAgreesWithArmies ==
  intact =>
    /\ \A s \in Alive : \A h \in CellsOf(s) :
         h \in Field \ Blocked /\ Occupant(h) = s
    /\ \A h \in Hex : Occupant(h) # NoStack =>
         Occupant(h) \in Alive /\ h \in CellsOf(Occupant(h))

\* The mark of an occupied hex tells where the other hex of its stack is, if
\* there is one: Teleport clears the hex it points to, and the drawing code
\* draws a stack at the hex whose mark differs from facingRight.
MarksPointToOtherHex ==
  intact =>
    \A s \in Alive : \A h \in CellsOf(s) :
      combatGrid[h].otherHexIsToLeft =
        IF s \notin TwoHexers THEN -1 ELSE IF h - 1 \in CellsOf(s) THEN 1 ELSE 0

\* Bodies are those of dead stacks, each lies somewhere once, and the body of
\* a two-hexer lies on two adjacent hexes, so that it can be raised whole.
BodiesAreWhole ==
  intact =>
    \A h \in Hex : \A i \in 1..Len(combatGrid[h].corpses) :
      LET c == combatGrid[h].corpses[i]
          lies(k, mark) == \E j \in 1..Len(combatGrid[k].corpses) :
                             combatGrid[k].corpses[j] = [stack |-> c.stack,
                                                         otherHexIsToLeft |-> mark]
      IN
      /\ army[c.stack].status = "dead"
      /\ \A j \in 1..Len(combatGrid[h].corpses) :
           combatGrid[h].corpses[j].stack = c.stack => j = i
      /\ c.stack \notin TwoHexers <=> c.otherHexIsToLeft = -1
      /\ c.otherHexIsToLeft = 0 => lies(h + 1, 1)
      /\ c.otherHexIsToLeft = 1 => lies(h - 1, 0)

\* A stack faces the enemy's side again after every move and every attack,
\* given or taken; only a jump leaves it facing the other way.
FacesTheEnemy ==
  \A s \in Alive \ Jumpers : army[s].facingRight = 1 - Side[s]

\* What the game tells the player of Teleport: "Teleports the creature you
\* select to any open position on the battlefield".  It takes open hexes
\* only: every other stack stays where it is on the grid.
TeleportTakesOpenHexes ==
  [][\A s \in Stacks, h \in Field : Teleport(s, h) =>
       \A c \in Hex : Occupant(c) \notin {NoStack, s} => Occupant(c)' = Occupant(c)]_vars

\* Resurrect raises the stack it picked, on the hexes where it fell, also
\* where several bodies lie on top of each other.
ResurrectedStandsAgain ==
  [][\A h \in Field : Resurrect(h) =>
       LET s == Resurrectable(Side[active], h) IN combatGrid'[h].occupant = s]_vars
=============================================================================
