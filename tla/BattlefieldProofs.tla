------------------------- MODULE BattlefieldProofs -------------------------
(***************************************************************************)
(* As long as no known defect has struck, the grid and the army records    *)
(* agree, for any board, any stacks and any number of bodies to a hex.     *)
(*                                                                         *)
(* What is proved is written over the values a of army and g of            *)
(* combatGrid, because most actions go through an army that has turned and *)
(* is not yet the next one.                                                *)
(***************************************************************************)
EXTENDS Battlefield, SequenceTheorems, WellFoundedInduction, TLAPS

(* The inductive invariant *)

\* The mark under a stack that stands on these cells.
MarkOf(s, cells, h) ==
  IF s \notin TwoHexers THEN -1 ELSE IF h - 1 \in cells THEN 1 ELSE 0

Alright(a, g, s) ==
  \A h \in CellsIn(a, s) :
    /\ h \in Field \ Blocked
    /\ g[h].occupant = s
    /\ g[h].otherHexIsToLeft = MarkOf(s, CellsIn(a, s), h)

\* Who lives stands on the grid.
Standing(a, g) == \A s \in Stacks : a[s].status = "alive" => Alright(a, g, s)

\* Who is on the grid lives and stands there.
Present(a, g, h) ==
  g[h].occupant # NoStack =>
    a[g[h].occupant].status = "alive" /\ h \in CellsIn(a, g[h].occupant)
Peopled(a, g) == \A h \in Hex : Present(a, g, h)

\* A body is that of a dead stack, and lies where the stack fell.
Fallen(a, h, body) ==
  /\ a[body.stack].status = "dead"
  /\ body.stack \notin Elementals
  /\ h \in CellsIn(a, body.stack)
  /\ CellsIn(a, body.stack) \subseteq Field \ Blocked
  /\ body.otherHexIsToLeft = MarkOf(body.stack, CellsIn(a, body.stack), h)
Lies(g, h, s) == \E i \in 1..Len(g[h].corpses) : g[h].corpses[i].stack = s
Pile(a, g, h) ==
  \A i \in 1..Len(g[h].corpses) :
    /\ Fallen(a, h, g[h].corpses[i])
    /\ \A k \in CellsIn(a, g[h].corpses[i].stack) : Lies(g, k, g[h].corpses[i].stack)
    /\ \A j \in 1..Len(g[h].corpses) :
         g[h].corpses[j].stack = g[h].corpses[i].stack => j = i
Piled(a, g) == \A h \in Hex : Pile(a, g, h)

Sound(a, g) == Standing(a, g) /\ Peopled(a, g) /\ Piled(a, g)

ArmyType == [Stacks -> [occupiedHex : Hex, facingRight : {0, 1},
                        status : {"absent", "alive", "dead"}]]
GridType == [Hex -> [occupant : Stacks \cup {NoStack}, otherHexIsToLeft : {-1, 0, 1},
                     corpses : Seq([stack : Stacks, otherHexIsToLeft : {-1, 0, 1}])]]
Low(g) == \A h \in Hex : Len(g[h].corpses) <= CorpseLimit

Facing(a) ==
  \A s \in Stacks : a[s].status = "alive" /\ s \notin Jumpers =>
                    a[s].facingRight = 1 - Side[s]

Inv ==
  /\ army \in ArmyType /\ combatGrid \in GridType /\ Low(combatGrid)
  /\ active \in Stacks /\ intact \in BOOLEAN
  /\ Facing(army)
  /\ intact => Sound(army, combatGrid)
-----------------------------------------------------------------------------
(* The board *)

\* The hexes left and right of one on the field are on the board: its row has
\* a border at either end.
LEMMA BesideTheField ==
  ASSUME NEW h \in Field
  PROVE  /\ h \in Hex /\ h \in Int
         /\ h - 1 \in Hex /\ h + 1 \in Hex
<1> DEFINE last == Columns * (Rows - 1) + (Columns - 1)
<1>1. /\ Columns \in Nat /\ Columns > 2 /\ Rows \in Nat /\ Rows > 0
  BY BoardAssumption
<1>2. /\ h \in Int /\ 0 <= h /\ h <= Columns * Rows - 1
      /\ h % Columns # 0 /\ h % Columns # Columns - 1
  BY <1>1 DEF Field, Hex, Border
<1>3. h # 0
  BY <1>1, <1>2
<1>4. Columns * Rows - 1 = last
  BY <1>1
<1>5. last % Columns = Columns - 1
  <2>1. \A q \in Nat : (Columns * q + (Columns - 1)) % Columns = Columns - 1
    BY <1>1, SMTT(30)
  <2> QED BY <2>1, <1>1
<1>6. h # Columns * Rows - 1
  BY <1>2, <1>4, <1>5
<1> QED
  BY <1>1, <1>2, <1>3, <1>6 DEF Hex

\* What a stack stands on.
LEMMA CellsShape ==
  ASSUME NEW s, NEW h \in Int, NEW f \in {0, 1}
  PROVE  /\ Cells(s, h, f) \subseteq Int
         /\ s \notin TwoHexers => Cells(s, h, f) = {h}
         /\ s \in TwoHexers /\ f = 1 => Cells(s, h, f) = {h, h + 1}
         /\ s \in TwoHexers /\ f = 0 => Cells(s, h, f) = {h, h - 1}
         /\ h \in Cells(s, h, f)
<1>1. 1 + h = h + 1 /\ h + (-1) = h - 1
  OBVIOUS
<1> QED
  BY <1>1 DEF Cells, Ahead

\* A stack that turns round stands on the same hexes.
LEMMA TurningKeepsCells ==
  ASSUME NEW s, NEW h \in Int, NEW old \in {0, 1}, NEW f \in {0, 1}, f # old
  PROVE  /\ Turned(s, h, f) \in Int
         /\ Turned(s, h, f) \in Cells(s, h, old)
         /\ Cells(s, Turned(s, h, f), f) = Cells(s, h, old)
<1>1. CASE s \notin TwoHexers
  <2>1. Turned(s, h, f) = h
    BY <1>1 DEF Turned
  <2>2. Cells(s, h, f) = {h} /\ Cells(s, h, old) = {h}
    BY <1>1, CellsShape
  <2> QED
    BY <2>1, <2>2
<1>2. CASE s \in TwoHexers /\ f = 1
  <2>1. Turned(s, h, f) = h - 1 /\ h - 1 \in Int /\ old = 0
    BY <1>2 DEF Turned
  <2>2. Cells(s, h - 1, f) = {h - 1, (h - 1) + 1} /\ Cells(s, h, old) = {h, h - 1}
    BY <1>2, <2>1, CellsShape
  <2> QED
    BY <2>1, <2>2
<1>3. CASE s \in TwoHexers /\ f = 0
  <2>1. Turned(s, h, f) = h + 1 /\ h + 1 \in Int /\ old = 1
    BY <1>3 DEF Turned
  <2>2. Cells(s, h + 1, f) = {h + 1, (h + 1) - 1} /\ Cells(s, h, old) = {h, h + 1}
    BY <1>3, <2>1, CellsShape
  <2> QED
    BY <2>1, <2>2
<1> QED
  BY <1>1, <1>2, <1>3

\* The mark that Occupy writes.
LEMMA MarkIsRight ==
  ASSUME NEW s, NEW h \in Int, NEW f \in {0, 1}, NEW c \in Cells(s, h, f)
  PROVE  (IF s \notin TwoHexers THEN -1
          ELSE IF \E d \in Cells(s, h, f) : d < c THEN 1 ELSE 0)
         = MarkOf(s, Cells(s, h, f), c)
<1>1. CASE s \notin TwoHexers
  BY <1>1 DEF MarkOf
<1>2. CASE s \in TwoHexers /\ f = 1
  <2>1. Cells(s, h, f) = {h, h + 1}
    BY <1>2, CellsShape
  <2>2. (\E d \in Cells(s, h, f) : d < c) <=> c - 1 \in Cells(s, h, f)
    BY <2>1
  <2> QED
    BY <1>2, <2>2 DEF MarkOf
<1>3. CASE s \in TwoHexers /\ f = 0
  <2>1. Cells(s, h, f) = {h, h - 1}
    BY <1>3, CellsShape
  <2>2. (\E d \in Cells(s, h, f) : d < c) <=> c - 1 \in Cells(s, h, f)
    BY <2>1
  <2> QED
    BY <1>3, <2>2 DEF MarkOf
<1> QED
  BY <1>1, <1>2, <1>3

\* A neighbour is on the field, or there is none; straight ahead it is the
\* other hex of a two-hexer.
LEMMA NeighborOnField ==
  ASSUME NEW h \in Int, NEW dir \in Direction, NEW f
  PROVE  /\ Neighbor(h, dir, f) \in Field \cup {-1}
         /\ Neighbor(h, dir, f) # -1 => h \in Field
BY DEF Neighbor
LEMMA NeighborAhead ==
  ASSUME NEW h \in Int, NEW f \in {0, 1},
         Neighbor(h, IF f = 1 THEN 1 ELSE 4, f) # -1
  PROVE  Neighbor(h, IF f = 1 THEN 1 ELSE 4, f) = h + Ahead(f)
<1>1. h + (-1) = h - 1
  OBVIOUS
<1> QED
  BY <1>1 DEF Neighbor, Ahead
-----------------------------------------------------------------------------
(* Turning *)

\* b is a where s may have turned: it stands where it stood.
Wheeled(a, b, s, f) ==
  /\ b \in ArmyType
  /\ b[s].facingRight = f
  /\ b[s].status = a[s].status
  /\ CellsIn(b, s) = CellsIn(a, s)
  /\ \A t \in Stacks : t # s => b[t] = a[t]

LEMMA Wheels ==
  ASSUME NEW a \in ArmyType, NEW s \in Stacks, NEW f \in {0, 1},
         CellsIn(a, s) \subseteq Hex
  PROVE  Wheeled(a, TurnTo(a, s, f), s, f)
<1>0. /\ a[s].occupiedHex \in Hex /\ a[s].facingRight \in {0, 1}
      /\ a[s].occupiedHex \in Int
  BY DEF ArmyType, Hex
<1>1. CASE a[s].facingRight = f
  BY <1>1 DEF TurnTo, Wheeled
<1>2. CASE a[s].facingRight # f
  <2> DEFINE b == [a EXCEPT ![s].facingRight = f,
                            ![s].occupiedHex = Turned(s, @, f)]
             to == Turned(s, a[s].occupiedHex, f)
  <2>1. /\ to \in CellsIn(a, s)
        /\ Cells(s, to, f) = CellsIn(a, s)
    BY <1>0, <1>2, TurningKeepsCells DEF CellsIn
  <2>2. to \in Hex
    BY <2>1
  <2>3. TurnTo(a, s, f) = b
    BY <1>2 DEF TurnTo
  <2> HIDE DEF to
  <2> DEFINE mid == [a EXCEPT ![s].facingRight = f]
  <2>4. /\ mid \in ArmyType /\ mid[s].facingRight = f
        /\ mid[s].status = a[s].status /\ mid[s].occupiedHex = a[s].occupiedHex
        /\ \A t \in Stacks : t # s => mid[t] = a[t]
    BY DEF ArmyType
  <2>7. b = [mid EXCEPT ![s].occupiedHex = to]
    BY <2>4 DEF ArmyType, to
  <2> HIDE DEF mid, b
  <2>5. /\ b \in ArmyType /\ b[s].facingRight = f /\ b[s].status = a[s].status
        /\ b[s].occupiedHex = to
        /\ \A t \in Stacks : t # s => b[t] = a[t]
    BY <2>2, <2>4, <2>7 DEF ArmyType
  <2>6. CellsIn(b, s) = CellsIn(a, s)
    BY <2>1, <2>5 DEF CellsIn
  <2> QED
    BY <2>3, <2>5, <2>6 DEF Wheeled
<1> QED
  BY <1>1, <1>2
-----------------------------------------------------------------------------
(* Moving *)

LEMMA AliveStandOnField ==
  ASSUME NEW a \in ArmyType, NEW g, Sound(a, g),
         NEW s \in Stacks, a[s].status = "alive"
  PROVE  /\ CellsIn(a, s) \subseteq Field \ Blocked
         /\ CellsIn(a, s) \subseteq Hex
         /\ \A h \in CellsIn(a, s) : g[h].occupant = s
BY DEF Sound, Standing, Alright, Field

\* Two living stacks share no hex.
LEMMA NobodySharesAHex ==
  ASSUME NEW a \in ArmyType, NEW g, Sound(a, g),
         NEW s \in Stacks, a[s].status = "alive",
         NEW t \in Stacks, a[t].status = "alive",
         NEW h, h \in CellsIn(a, s), h \in CellsIn(a, t)
  PROVE  s = t
BY AliveStandOnField

\* The grid after a stack has left its hexes.
Cleared(g, k, from) ==
  /\ k \in GridType
  /\ \A h \in Hex : k[h].corpses = g[h].corpses
  /\ \A h \in from : k[h].occupant = NoStack
  /\ \A h \in Hex \ from : k[h] = g[h]

LEMMA VacateClears ==
  ASSUME NEW g \in GridType, NEW from \in SUBSET Hex
  PROVE  Cleared(g, Vacate(g, from), from)
<1> DEFINE k == Vacate(g, from)
           bare(h) == [g[h] EXCEPT !.occupant = NoStack, !.otherHexIsToLeft = -1]
           Cell == [occupant : Stacks \cup {NoStack}, otherHexIsToLeft : {-1, 0, 1},
                    corpses : Seq([stack : Stacks, otherHexIsToLeft : {-1, 0, 1}])]
<1>1. \A h \in Hex : g[h] \in Cell
  BY DEF GridType
<1>2. \A h \in Hex : /\ bare(h) \in Cell /\ bare(h).occupant = NoStack
                     /\ bare(h).corpses = g[h].corpses
  BY <1>1
<1>3. k = [h \in Hex |-> IF h \in from THEN bare(h) ELSE g[h]]
  BY DEF Vacate
<1> HIDE DEF k, bare
<1>4. k \in [Hex -> Cell]
  BY <1>1, <1>2, <1>3
<1> QED
  BY <1>2, <1>3, <1>4 DEF Cleared, GridType, k

\* The grid after a stack has gone from some hexes to others.
Moved(g, k, s, from, to) ==
  /\ k \in GridType
  /\ \A h \in Hex : k[h].corpses = g[h].corpses
  /\ \A h \in to : k[h].occupant = s /\ k[h].otherHexIsToLeft = MarkOf(s, to, h)
  /\ \A h \in from \ to : k[h].occupant = NoStack
  /\ \A h \in Hex \ (from \cup to) : k[h] = g[h]

\* The grid after a stack has come to some hexes.
Taken(g, k, s, cells) ==
  /\ k \in GridType
  /\ \A h \in Hex : k[h].corpses = g[h].corpses
  /\ \A h \in cells \cap Hex :
       k[h].occupant = s /\ k[h].otherHexIsToLeft = MarkOf(s, cells, h)
  /\ \A h \in Hex \ cells : k[h] = g[h]

LEMMA OccupyTakes ==
  ASSUME NEW g \in GridType, NEW s \in Stacks, NEW h \in Int, NEW f \in {0, 1}
  PROVE  Taken(g, Occupy(g, s, h, f), s, Cells(s, h, f))
<1> DEFINE k == Occupy(g, s, h, f)
           cells == Cells(s, h, f)
           mark(c) == IF s \notin TwoHexers THEN -1
                      ELSE IF \E d \in cells : d < c THEN 1 ELSE 0
           trod(c) == [g[c] EXCEPT !.occupant = s, !.otherHexIsToLeft = mark(c)]
           Cell == [occupant : Stacks \cup {NoStack}, otherHexIsToLeft : {-1, 0, 1},
                    corpses : Seq([stack : Stacks, otherHexIsToLeft : {-1, 0, 1}])]
<1>1. \A c \in Hex : g[c] \in Cell
  BY DEF GridType
<1>2. \A c \in Hex : mark(c) \in {-1, 0, 1}
  OBVIOUS
<1>3. \A c \in cells : mark(c) = MarkOf(s, cells, c)
  BY MarkIsRight
<1>4. k = [c \in Hex |-> IF c \in cells THEN trod(c) ELSE g[c]]
  BY DEF Occupy
<1> HIDE DEF k, cells, mark
<1>5. \A c \in Hex : /\ trod(c) \in Cell /\ trod(c).occupant = s
                     /\ trod(c).otherHexIsToLeft = mark(c)
                     /\ trod(c).corpses = g[c].corpses
  BY <1>1, <1>2
<1> HIDE DEF trod
<1>6. k \in [Hex -> Cell]
  BY <1>1, <1>4, <1>5
<1>7. /\ \A c \in Hex : k[c].corpses = g[c].corpses
      /\ \A c \in cells \cap Hex : /\ k[c].occupant = s
                                   /\ k[c].otherHexIsToLeft = MarkOf(s, cells, c)
      /\ \A c \in Hex \ cells : k[c] = g[c]
  BY <1>3, <1>4, <1>5
<1> QED
  BY <1>6, <1>7 DEF GridType, k, cells, Taken

LEMMA OccupyMoves ==
  ASSUME NEW g \in GridType, NEW gone, NEW from \in SUBSET Hex,
         Cleared(g, gone, from),
         NEW s \in Stacks, NEW h \in Int, NEW f \in {0, 1}, Cells(s, h, f) \subseteq Hex
  PROVE  Moved(g, Occupy(gone, s, h, f), s, from, Cells(s, h, f))
<1> DEFINE k == Occupy(gone, s, h, f)
<1>1. gone \in GridType
  BY DEF Cleared
<1>2. Taken(gone, k, s, Cells(s, h, f))
  BY <1>1, OccupyTakes
<1> HIDE DEF k
<1>3. \A c \in from \ Cells(s, h, f) : k[c].occupant = NoStack
  BY <1>2 DEF Cleared, Taken
<1>4. \A c \in Hex \ (from \cup Cells(s, h, f)) : k[c] = g[c]
  BY <1>2 DEF Cleared, Taken
<1>5. \A c \in Hex : k[c].corpses = g[c].corpses
  BY <1>2 DEF Cleared, Taken
<1> QED
  BY <1>2, <1>3, <1>4, <1>5 DEF Moved, Taken, k

LEMMA BodiesAreTyped ==
  ASSUME NEW g \in GridType, NEW h \in Hex
  PROVE  /\ g[h].corpses \in Seq([stack : Stacks, otherHexIsToLeft : {-1, 0, 1}])
         /\ Len(g[h].corpses) \in Nat
         /\ \A i \in 1..Len(g[h].corpses) :
              /\ g[h].corpses[i] \in [stack : Stacks, otherHexIsToLeft : {-1, 0, 1}]
              /\ g[h].corpses[i].stack \in Stacks
<1> DEFINE Body == [stack : Stacks, otherHexIsToLeft : {-1, 0, 1}]
<1>1. g[h].corpses \in Seq(Body)
  BY DEF GridType
<1>2. \A body \in Body : body.stack \in Stacks
  OBVIOUS
<1> HIDE DEF Body
<1>3. Len(g[h].corpses) \in Nat /\ \A i \in 1..Len(g[h].corpses) : g[h].corpses[i] \in Body
  BY <1>1
<1> QED
  BY <1>1, <1>2, <1>3 DEF Body

\* Bodies do not mind who lives, as long as the dead stay where they fell.
LEMMA PilesAreKept ==
  ASSUME NEW a, NEW b, NEW g \in GridType, NEW k, Piled(a, g),
         \A h \in Hex : k[h].corpses = g[h].corpses,
         \A t \in Stacks : a[t].status = "dead" /\ t \notin Elementals => b[t] = a[t]
  PROVE  Piled(b, k)
<1> SUFFICES ASSUME NEW h \in Hex
             PROVE  Pile(b, k, h)
  BY DEF Piled
<1>1. Pile(a, g, h) /\ k[h].corpses = g[h].corpses
  BY DEF Piled
<1>2. \A i \in 1..Len(g[h].corpses) : g[h].corpses[i].stack \in Stacks
  BY BodiesAreTyped
<1>3. \A i \in 1..Len(g[h].corpses) :
        LET t == g[h].corpses[i].stack IN
        /\ b[t] = a[t] /\ CellsIn(b, t) = CellsIn(a, t)
        /\ CellsIn(a, t) \subseteq Hex
  BY <1>1, <1>2 DEF Pile, Fallen, CellsIn, Field
<1>4. \A i \in 1..Len(g[h].corpses) : Fallen(b, h, g[h].corpses[i])
  BY <1>1, <1>3 DEF Pile, Fallen
<1>5. \A i \in 1..Len(g[h].corpses) : \A c \in CellsIn(b, g[h].corpses[i].stack) :
        Lies(k, c, g[h].corpses[i].stack)
  BY <1>1, <1>3 DEF Pile, Lies
<1> QED
  BY <1>1, <1>4, <1>5 DEF Pile

\* Whatever way a stack went, if it came to free hexes of the field and left
\* the others, all is sound.
LEMMA MovesAreSound ==
  ASSUME NEW a \in ArmyType, NEW b \in ArmyType, NEW g \in GridType, NEW k,
         Sound(a, g), NEW s \in Stacks, a[s].status = "alive", b[s].status = "alive",
         \A t \in Stacks : t # s => b[t] = a[t],
         CellsIn(b, s) \subseteq Field \ Blocked,
         \A h \in CellsIn(b, s) : g[h].occupant \in {NoStack, s},
         Moved(g, k, s, CellsIn(a, s), CellsIn(b, s))
  PROVE  Sound(b, k)
<1>0. /\ NoStack \notin Stacks /\ Field \subseteq Hex
      /\ \A h \in Hex : g[h].occupant \in Stacks \cup {NoStack}
  BY StacksAssumption DEF Field, GridType
<1>1. ASSUME NEW t \in Stacks, b[t].status = "alive", t # s
      PROVE  Alright(b, k, t)
  <2>1. b[t] = a[t] /\ CellsIn(b, t) = CellsIn(a, t) /\ Alright(a, g, t)
    BY <1>1 DEF CellsIn, Sound, Standing
  <2>2. \A h \in CellsIn(a, t) : h \in Hex \ (CellsIn(a, s) \cup CellsIn(b, s))
    BY <1>0, <1>1, <2>1, AliveStandOnField
  <2>3. \A h \in CellsIn(a, t) : k[h] = g[h]
    BY <2>2 DEF Moved
  <2> QED
    BY <2>1, <2>3 DEF Alright
<1>2. Alright(b, k, s)
  BY DEF Moved, Alright
<1>3. Standing(b, k)
  BY <1>1, <1>2 DEF Standing
<1>4. ASSUME NEW h \in Hex
      PROVE  Present(b, k, h)
  <2>1. CASE h \in CellsIn(b, s)
    BY <2>1 DEF Moved, Present
  <2>2. CASE h \in CellsIn(a, s) \ CellsIn(b, s)
    BY <2>2 DEF Moved, Present
  <2>3. CASE h \notin CellsIn(a, s) \cup CellsIn(b, s)
    <3>1. k[h] = g[h] /\ Present(a, g, h)
      BY <2>3 DEF Moved, Sound, Peopled
    <3>2. g[h].occupant # s
      BY <2>3, <3>1, <1>0 DEF Present
    <3> QED
      BY <1>0, <3>1, <3>2 DEF Present, CellsIn
  <2> QED
    BY <2>1, <2>2, <2>3
<1>5. Piled(b, k)
  BY PilesAreKept DEF Moved, Sound
<1> QED
  BY <1>3, <1>4, <1>5 DEF Sound, Peopled
-----------------------------------------------------------------------------
(* The steps that move the active stack *)

\* An army where s has been put somewhere.
Set(a, b, s, to, f) ==
  /\ b \in ArmyType
  /\ b[s].occupiedHex = to /\ b[s].facingRight = f /\ b[s].status = a[s].status
  /\ CellsIn(b, s) = Cells(s, to, f)
  /\ \A t \in Stacks : t # s => b[t] = a[t]

LEMMA PuttingSets ==
  ASSUME NEW a \in ArmyType, NEW s \in Stacks, NEW to \in Hex, NEW f \in {0, 1}
  PROVE  /\ Set(a, [a EXCEPT ![s].occupiedHex = to, ![s].facingRight = f], s, to, f)
         /\ Set(a, [a EXCEPT ![s].facingRight = f, ![s].occupiedHex = to], s, to, f)
<1> DEFINE b == [a EXCEPT ![s].occupiedHex = to, ![s].facingRight = f]
           c == [a EXCEPT ![s].facingRight = f, ![s].occupiedHex = to]
           mid == [a EXCEPT ![s].occupiedHex = to]
<1>1. /\ mid \in ArmyType /\ mid[s].occupiedHex = to /\ mid[s].status = a[s].status
      /\ \A t \in Stacks : t # s => mid[t] = a[t]
  BY DEF ArmyType
<1>2. b = [mid EXCEPT ![s].facingRight = f]
  BY <1>1 DEF ArmyType
<1>3. c = b
  BY DEF ArmyType
<1> HIDE DEF b, c, mid
<1>4. /\ b \in ArmyType /\ b[s].occupiedHex = to /\ b[s].facingRight = f
      /\ b[s].status = a[s].status
      /\ \A t \in Stacks : t # s => b[t] = a[t]
  BY <1>1, <1>2 DEF ArmyType
<1>5. Set(a, b, s, to, f)
  BY <1>4 DEF Set, CellsIn
<1> QED
  BY <1>3, <1>5 DEF b, c

\* A stack goes to free hexes of the field, and turns there.
LEMMA GoingIsSound ==
  ASSUME NEW a \in ArmyType, NEW g \in GridType, Low(g), Sound(a, g),
         NEW s \in Stacks, a[s].status = "alive",
         NEW to \in Hex, NEW f \in {0, 1}, NEW f2 \in {0, 1},
         Cells(s, to, f) \subseteq Field \ Blocked,
         \A h \in Cells(s, to, f) : g[h].occupant \in {NoStack, s},
         NEW b, Set(a, b, s, to, f)
  PROVE  LET c == TurnTo(b, s, f2)
             k == Occupy(Vacate(g, CellsIn(a, s)), s, to, f)
         IN  /\ Wheeled(b, c, s, f2)
             /\ k \in GridType /\ Low(k) /\ Sound(c, k)
<1> DEFINE c == TurnTo(b, s, f2)
           k == Occupy(Vacate(g, CellsIn(a, s)), s, to, f)
<1>0. Field \subseteq Hex /\ to \in Int
  BY DEF Field, Hex
<1>1. Wheeled(b, c, s, f2)
  BY <1>0, Wheels DEF Set
<1>2. CellsIn(a, s) \in SUBSET Hex
  BY AliveStandOnField
<1>3. Moved(g, k, s, CellsIn(a, s), Cells(s, to, f))
  <2>1. Cleared(g, Vacate(g, CellsIn(a, s)), CellsIn(a, s))
    BY <1>2, VacateClears
  <2> QED
    BY <1>0, <1>2, <2>1, OccupyMoves
<1> HIDE DEF c, k
<1>4. /\ c \in ArmyType /\ c[s].status = "alive" /\ CellsIn(c, s) = Cells(s, to, f)
      /\ \A t \in Stacks : t # s => c[t] = a[t]
  BY <1>1 DEF Wheeled, Set
<1>5. Moved(g, k, s, CellsIn(a, s), CellsIn(c, s))
  BY <1>3, <1>4
<1>6. Sound(c, k)
  BY <1>4, <1>5, MovesAreSound
<1>7. k \in GridType /\ Low(k)
  BY <1>3 DEF Moved, Low
<1> QED
  BY <1>1, <1>6, <1>7 DEF c, k

LEMMA Conclude ==
  ASSUME army' \in ArmyType, combatGrid' \in GridType, Low(combatGrid'),
         active' \in Stacks, intact' \in BOOLEAN, Facing(army'),
         intact' => Sound(army', combatGrid')
  PROVE  Inv'
BY DEF Inv

LEMMA WhoActsIsAlive ==
  ASSUME Inv, Acting
  PROVE  /\ intact /\ active \in Stacks /\ army[active].status = "alive"
         /\ army \in ArmyType /\ combatGrid \in GridType /\ Low(combatGrid)
         /\ Facing(army) /\ Sound(army, combatGrid)
         /\ army[active].occupiedHex \in Hex /\ army[active].occupiedHex \in Int
         /\ army[active].facingRight \in {0, 1}
         /\ CellsOf(active) = CellsIn(army, active)
         /\ CellsOf(active) \subseteq Field \ Blocked
         /\ CellsOf(active) \subseteq Hex
<1>1. /\ intact /\ active \in Stacks /\ army[active].status = "alive"
      /\ army \in ArmyType /\ combatGrid \in GridType /\ Low(combatGrid)
      /\ Facing(army) /\ Sound(army, combatGrid)
  BY DEF Inv, Acting, Alive
<1>2. /\ army[active].occupiedHex \in Hex /\ army[active].occupiedHex \in Int
      /\ army[active].facingRight \in {0, 1}
  BY <1>1 DEF ArmyType, Hex
<1>3. CellsOf(active) = CellsIn(army, active)
  BY DEF CellsOf, CellsIn
<1> QED
  BY <1>1, <1>2, <1>3, AliveStandOnField

\* A stack that went somewhere and turned back faces the way it did.
LEMMA GoneAndBack ==
  ASSUME NEW a \in ArmyType, NEW s \in Stacks, NEW to, NEW f, NEW b, NEW c,
         Set(a, b, s, to, f), Wheeled(b, c, s, a[s].facingRight), Facing(a)
  PROVE  Facing(c)
BY DEF Set, Wheeled, Facing

LEMMA WalkStep ==
  ASSUME Inv, NEW dir \in 0..5, Walk(dir)
  PROVE  Inv'
<1> DEFINE s == active
           facing == IF dir >= 3 THEN 0 ELSE 1
           turned == TurnTo(army, s, facing)[s]
           adjCell == Neighbor(turned.occupiedHex, dir, facing)
           b == [army EXCEPT ![s].occupiedHex = adjCell, ![s].facingRight = facing]
<1>1. /\ Acting /\ adjCell # -1 /\ FitsFor(s, Cells(s, adjCell, facing))
      /\ combatGrid' = Occupy(Vacate(combatGrid, Cells(s, turned.occupiedHex, facing)),
                              s, adjCell, facing)
      /\ army' = TurnTo(b, s, army[s].facingRight)
      /\ active' = active /\ intact' = intact
  BY DEF Walk
<1>2. /\ intact /\ s \in Stacks /\ army[s].status = "alive"
      /\ army \in ArmyType /\ combatGrid \in GridType /\ Low(combatGrid)
      /\ Facing(army) /\ Sound(army, combatGrid)
      /\ army[s].facingRight \in {0, 1}
      /\ CellsIn(army, s) \subseteq Hex
  BY <1>1, WhoActsIsAlive
<1>3. facing \in {0, 1} /\ dir \in Direction
  BY DEF Direction
<1> HIDE DEF facing
<1>4. /\ turned \in [occupiedHex : Hex, facingRight : {0, 1},
                     status : {"absent", "alive", "dead"}]
      /\ turned.facingRight = facing
      /\ Cells(s, turned.occupiedHex, facing) = CellsIn(army, s)
  <2>1. Wheeled(army, TurnTo(army, s, facing), s, facing)
    BY <1>2, <1>3, Wheels
  <2> QED
    BY <1>2, <2>1 DEF Wheeled, CellsIn, ArmyType
<1> HIDE DEF turned
<1>5. adjCell \in Field /\ adjCell \in Hex
  <2>1. turned.occupiedHex \in Int
    BY <1>4 DEF Hex
  <2> QED
    BY <1>1, <1>3, <2>1, NeighborOnField DEF Field
<1> HIDE DEF adjCell
<1>6. Set(army, b, s, adjCell, facing)
  BY <1>2, <1>3, <1>5, PuttingSets
<1> HIDE DEF b, s
<1>7. /\ Cells(s, adjCell, facing) \subseteq Field \ Blocked
      /\ \A h \in Cells(s, adjCell, facing) : combatGrid[h].occupant \in {NoStack, s}
  BY <1>1 DEF FitsFor, Occupant
<1>8. /\ Wheeled(b, army', s, army[s].facingRight)
      /\ combatGrid' \in GridType /\ Low(combatGrid') /\ Sound(army', combatGrid')
  BY <1>1, <1>2, <1>3, <1>4, <1>5, <1>6, <1>7, GoingIsSound
<1>9. Facing(army')
  BY <1>2, <1>6, <1>8, GoneAndBack
<1> QED
  <2>1. army' \in ArmyType
    BY <1>8 DEF Wheeled
  <2>2. active' \in Stacks /\ intact' \in BOOLEAN
    BY <1>1, <1>2 DEF s
  <2> QED
    BY <1>8, <1>9, <2>1, <2>2, Conclude

\* Where CanFit says that a stack fits, it does.
LEMMA FittingIsFree ==
  ASSUME NEW s \in Stacks, NEW h \in Int, CanFit(s, h), army[s].facingRight \in {0, 1}
  PROVE  LET cells == Cells(s, h, army[s].facingRight) IN
         /\ h \in Field
         /\ cells \subseteq Field \ Blocked
         /\ combatGrid[h].occupant = NoStack
         /\ \A c \in cells : combatGrid[c].occupant \in {NoStack, active}
         /\ s \in TwoHexers =>
              /\ Neighbor(h, IF army[s].facingRight = 1 THEN 1 ELSE 4, army[s].facingRight)
                   = h + Ahead(army[s].facingRight)
              /\ h + Ahead(army[s].facingRight) \in cells
<1> DEFINE f == army[s].facingRight
           second == Neighbor(h, IF f = 1 THEN 1 ELSE 4, f)
<1>1. /\ h \in Field /\ h \notin Blocked /\ combatGrid[h].occupant = NoStack
      /\ s \in TwoHexers =>
           /\ second # -1 /\ second \notin Blocked
           /\ combatGrid[second].occupant \in {NoStack, active}
  BY DEF CanFit, Free, Occupant
<1>2. CASE s \notin TwoHexers
  BY <1>1, <1>2, CellsShape
<1>3. CASE s \in TwoHexers
  <2>1. second = h + Ahead(f)
    BY <1>1, <1>3, NeighborAhead
  <2>2. second \in Field
    <3>1. (IF f = 1 THEN 1 ELSE 4) \in Direction
      BY DEF Direction
    <3> QED
      BY <1>1, <1>3, <3>1, NeighborOnField
  <2>3. Cells(s, h, f) = {h, second}
    BY <1>3, <2>1 DEF Cells
  <2> HIDE DEF second
  <2>4. /\ Cells(s, h, f) \subseteq Field \ Blocked
        /\ \A c \in Cells(s, h, f) : combatGrid[c].occupant \in {NoStack, active}
        /\ second = h + Ahead(f) /\ h + Ahead(f) \in Cells(s, h, f)
    BY <1>1, <1>3, <2>1, <2>2, <2>3
  <2> QED
    BY <1>1, <2>4 DEF second
<1> QED
  BY <1>2, <1>3

\* A flyer that turns on the way comes to the hexes it was found to fit on.
LEMMA FlyerComesWhereItFits ==
  ASSUME NEW s, NEW o \in Int, NEW h \in Int, NEW old \in {0, 1}, NEW f \in {0, 1},
         NEW from, from = (IF old = f THEN o ELSE Turned(s, o, f))
  PROVE  /\ h + from - o \in Int
         /\ Cells(s, h + from - o, f) = Cells(s, h, old)
<1>1. CASE old = f
  <2>1. h + from - o = h
    BY <1>1
  <2> QED
    BY <1>1, <2>1
<1>2. CASE old # f
  <2>1. from = Turned(s, o, f)
    BY <1>2
  <2>2. h + from - o = Turned(s, h, f)
    BY <2>1 DEF Turned
  <2> QED
    BY <1>2, <2>2, TurningKeepsCells
<1> QED
  BY <1>1, <1>2

LEMMA FlyToStep ==
  ASSUME Inv, NEW h \in Field, FlyTo(h)
  PROVE  Inv'
<1> DEFINE s == active
           old == army[s].facingRight
           colDiff == (h % Columns) - (army[s].occupiedHex % Columns)
           facing == IF colDiff > 0 THEN 1 ELSE IF colDiff < 0 THEN 0
                     ELSE army[s].facingRight
           turned == TurnTo(army, s, facing)
           from == turned[s].occupiedHex
           to == h + from - army[s].occupiedHex
           b == [army EXCEPT ![s].occupiedHex = to, ![s].facingRight = facing]
<1>1. /\ Acting /\ CanFit(s, h)
      /\ combatGrid' = Occupy(Vacate(combatGrid, Cells(s, from, facing)), s, to, facing)
      /\ army' = TurnTo(b, s, old)
      /\ active' = active /\ intact' = intact
  BY DEF FlyTo
<1>2. /\ intact /\ s \in Stacks /\ army[s].status = "alive"
      /\ army \in ArmyType /\ combatGrid \in GridType /\ Low(combatGrid)
      /\ Facing(army) /\ Sound(army, combatGrid)
      /\ army[s].facingRight \in {0, 1}
      /\ army[s].occupiedHex \in Int
      /\ CellsIn(army, s) \subseteq Hex
  BY <1>1, WhoActsIsAlive
<1>3. facing \in {0, 1} /\ h \in Int
  BY <1>2 DEF Field, Hex
<1> HIDE DEF facing, colDiff
<1>4. /\ Wheeled(army, turned, s, facing)
      /\ from = (IF old = facing THEN army[s].occupiedHex
                 ELSE Turned(s, army[s].occupiedHex, facing))
  <2>1. Wheeled(army, turned, s, facing)
    BY <1>2, <1>3, Wheels
  <2>2. CASE old = facing
    BY <2>1, <2>2 DEF TurnTo
  <2>3. CASE old # facing
    <3> DEFINE there == Turned(s, army[s].occupiedHex, facing)
    <3>1. turned = [army EXCEPT ![s].facingRight = facing,
                                ![s].occupiedHex = Turned(s, @, facing)]
      BY <2>3 DEF TurnTo
    <3> DEFINE mid == [army EXCEPT ![s].facingRight = facing]
    <3>2. mid \in ArmyType /\ mid[s].occupiedHex = army[s].occupiedHex
      BY <1>2, <1>3 DEF ArmyType
    <3>3. turned = [mid EXCEPT ![s].occupiedHex = there]
      BY <1>2, <3>1, <3>2 DEF ArmyType
    <3> HIDE DEF mid, turned, there
    <3>4. turned[s].occupiedHex = there
      BY <1>2, <3>2, <3>3 DEF ArmyType
    <3> QED
      BY <2>1, <2>3, <3>4 DEF turned, there
  <2> QED
    BY <2>2, <2>3
<1> HIDE DEF turned
<1>5. /\ to \in Int /\ Cells(s, to, facing) = Cells(s, h, old)
      /\ Cells(s, from, facing) = CellsIn(army, s)
  <2>1. Cells(s, from, facing) = CellsIn(army, s)
    BY <1>4 DEF Wheeled, CellsIn
  <2>2. to \in Int /\ Cells(s, to, facing) = Cells(s, h, old)
    BY <1>2, <1>3, <1>4, FlyerComesWhereItFits
  <2> QED
    BY <2>1, <2>2
<1> HIDE DEF from, to
<1>6. /\ Cells(s, to, facing) \subseteq Field \ Blocked
      /\ \A c \in Cells(s, to, facing) : combatGrid[c].occupant \in {NoStack, s}
  BY <1>1, <1>2, <1>3, <1>5, FittingIsFree
<1>7. to \in Hex
  BY <1>3, <1>5, <1>6, CellsShape DEF Field
<1>8. Set(army, b, s, to, facing)
  BY <1>2, <1>3, <1>7, PuttingSets
<1> HIDE DEF b, s, old
<1>9. /\ Wheeled(b, army', s, old)
      /\ combatGrid' \in GridType /\ Low(combatGrid') /\ Sound(army', combatGrid')
  <2>1. old \in {0, 1} /\ CellsIn(army, s) = Cells(s, from, facing)
    BY <1>2, <1>5 DEF old
  <2> QED
    BY <1>1, <1>2, <1>3, <1>6, <1>7, <1>8, <2>1, GoingIsSound
<1>10. Facing(army')
  BY <1>2, <1>8, <1>9, GoneAndBack DEF old
<1> QED
  <2>1. army' \in ArmyType
    BY <1>9 DEF Wheeled
  <2>2. active' \in Stacks /\ intact' \in BOOLEAN
    BY <1>1, <1>2 DEF s
  <2> QED
    BY <1>9, <1>10, <2>1, <2>2, Conclude

LEMMA ArcJumpStep ==
  ASSUME Inv, NEW h \in Field, ArcJump(h)
  PROVE  Inv'
<1> DEFINE s == active
           from == army[s].occupiedHex
           facing == IF CenterX(from) > CenterX(h) THEN 0 ELSE 1
           b == [army EXCEPT ![s].occupiedHex = h, ![s].facingRight = facing]
<1>1. /\ Acting /\ s \in Jumpers /\ Free(h)
      /\ combatGrid' = Occupy(Vacate(combatGrid, {from}), s, h, facing)
      /\ army' = b
      /\ active' = active /\ intact' = intact
  BY DEF ArcJump
<1>2. /\ intact /\ s \in Stacks /\ army[s].status = "alive"
      /\ army \in ArmyType /\ combatGrid \in GridType /\ Low(combatGrid)
      /\ Facing(army) /\ Sound(army, combatGrid)
      /\ army[s].facingRight \in {0, 1}
      /\ army[s].occupiedHex \in Int
      /\ CellsIn(army, s) \subseteq Hex
  BY <1>1, WhoActsIsAlive
<1>3. facing \in {0, 1} /\ h \in Int /\ h \in Hex
  BY DEF Field, Hex
<1> HIDE DEF facing
<1>4. s \notin TwoHexers
  BY <1>1, StacksAssumption
<1>5. CellsIn(army, s) = {from} /\ Cells(s, h, facing) = {h}
  BY <1>2, <1>3, <1>4, CellsShape DEF CellsIn
<1>6. Set(army, b, s, h, facing)
  BY <1>2, <1>3, PuttingSets
<1> HIDE DEF b, s, from
<1>7. TurnTo(b, s, facing) = b
  BY <1>6 DEF Set, TurnTo
<1>8. /\ Cells(s, h, facing) \subseteq Field \ Blocked
      /\ \A c \in Cells(s, h, facing) : combatGrid[c].occupant \in {NoStack, s}
  BY <1>1, <1>5 DEF Free, Occupant
<1>9. /\ combatGrid' \in GridType /\ Low(combatGrid') /\ Sound(army', combatGrid')
  <2> DEFINE k == Occupy(Vacate(combatGrid, CellsIn(army, s)), s, h, facing)
  <2>1. k \in GridType /\ Low(k) /\ Sound(TurnTo(b, s, facing), k)
    BY <1>2, <1>3, <1>6, <1>8, GoingIsSound
  <2>2. combatGrid' = k /\ army' = TurnTo(b, s, facing)
    BY <1>1, <1>5, <1>7 DEF from
  <2> QED
    BY <2>1, <2>2
<1> QED
  <2>1. army' \in ArmyType /\ Facing(army')
    BY <1>1, <1>2, <1>6 DEF Set, Facing
  <2>2. active' \in Stacks /\ intact' \in BOOLEAN
    BY <1>1, <1>2 DEF s
  <2> QED
    BY <1>9, <2>1, <2>2, Conclude

LEMMA NextArmyStep ==
  ASSUME Inv, NextArmy
  PROVE  Inv'
BY Conclude DEF Inv, NextArmy, Alive
-----------------------------------------------------------------------------
(* Death *)

\* Armies whose stacks stand on the same hexes.
Alike(a, b) ==
  \A t \in Stacks : b[t].status = a[t].status /\ CellsIn(b, t) = CellsIn(a, t)

LEMMA AlikeIsSound ==
  ASSUME NEW a, NEW b, NEW g \in GridType, Sound(a, g), Alike(a, b)
  PROVE  Sound(b, g)
<1>1. Standing(b, g)
  BY DEF Sound, Standing, Alright, Alike
<1>2. Peopled(b, g)
  <2> SUFFICES ASSUME NEW h \in Hex PROVE Present(b, g, h)
    BY DEF Peopled
  <2>1. g[h].occupant \in Stacks \cup {NoStack} /\ Present(a, g, h)
    BY DEF GridType, Sound, Peopled
  <2> QED
    BY <2>1 DEF Present, Alike
<1>3. Piled(b, g)
  <2> SUFFICES ASSUME NEW h \in Hex PROVE Pile(b, g, h)
    BY DEF Piled
  <2>1. Pile(a, g, h)
    BY DEF Sound, Piled
  <2>2. \A i \in 1..Len(g[h].corpses) :
          LET t == g[h].corpses[i].stack IN
          b[t].status = a[t].status /\ CellsIn(b, t) = CellsIn(a, t)
    BY BodiesAreTyped DEF Alike
  <2> QED
    BY <2>1, <2>2 DEF Pile, Fallen
<1> QED
  BY <1>1, <1>2, <1>3 DEF Sound

\* Whether ProcessDeath leaves a body of the stack.
LeavesBody(a, s) == ~LeaveNoBody(s) /\ BodyFits(a, s)

\* What ProcessDeath makes of a hex of a stack.
Emptied(a, k, h, s) ==
  /\ k[h].occupant = NoStack
  /\ ~LeavesBody(a, s) => k[h].corpses = combatGrid[h].corpses
  /\ LeavesBody(a, s) =>
       k[h].corpses = Append(combatGrid[h].corpses,
                             [stack |-> s, otherHexIsToLeft |-> MarkOf(s, CellsIn(a, s), h)])

LEMMA BuryEmpties ==
  ASSUME NEW a \in ArmyType, combatGrid \in GridType, Sound(a, combatGrid),
         NEW dying \in SUBSET {t \in Stacks : a[t].status = "alive"}
  PROVE  LET k == Bury(a, combatGrid, dying) IN
         /\ k \in GridType
         /\ \A h \in Hex : (\A s \in dying : h \notin CellsIn(a, s)) => k[h] = combatGrid[h]
         /\ \A s \in dying : \A h \in CellsIn(a, s) : Emptied(a, k, h, s)
<1> DEFINE k == Bury(a, combatGrid, dying)
           Mark == {-1, 0, 1}
           Body == [stack : Stacks, otherHexIsToLeft : Mark]
           Cell == [occupant : Stacks \cup {NoStack}, otherHexIsToLeft : Mark,
                    corpses : Seq(Body)]
           spared(h) == \A s \in dying : h \notin CellsIn(a, s)
           whose(h) == CHOOSE t \in dying : h \in CellsIn(a, t)
           bury(h) == [stack |-> combatGrid[h].occupant,
                       otherHexIsToLeft |-> combatGrid[h].otherHexIsToLeft]
           bodies(h) == IF LeaveNoBody(whose(h)) \/ ~BodyFits(a, whose(h))
                        THEN combatGrid[h].corpses
                        ELSE Append(combatGrid[h].corpses, bury(h))
           left(h) == [combatGrid[h] EXCEPT !.occupant = NoStack, !.corpses = bodies(h)]
<1>1. k = [h \in Hex |-> IF spared(h) THEN combatGrid[h] ELSE left(h)]
  BY DEF Bury
<1>2. \A h \in Hex : combatGrid[h] \in Cell
  BY DEF GridType
<1>3. \A s \in dying : \A h \in CellsIn(a, s) :
        /\ h \in Hex /\ whose(h) = s
        /\ bury(h) = [stack |-> s, otherHexIsToLeft |-> MarkOf(s, CellsIn(a, s), h)]
  <2> SUFFICES ASSUME NEW s \in dying, NEW h \in CellsIn(a, s)
               PROVE  /\ h \in Hex /\ whose(h) = s
                      /\ bury(h) = [stack |-> s,
                                    otherHexIsToLeft |-> MarkOf(s, CellsIn(a, s), h)]
    OBVIOUS
  <2>1. /\ s \in Stacks /\ a[s].status = "alive"
        /\ \A t \in dying : t \in Stacks /\ a[t].status = "alive"
    OBVIOUS
  <2>2. Alright(a, combatGrid, s) /\ h \in Hex
    BY <2>1 DEF Sound, Standing, Alright, Field
  <2>3. \A t \in dying : h \in CellsIn(a, t) => t = s
    BY <2>1, NobodySharesAHex
  <2>4. whose(h) = s
    BY <2>3
  <2> HIDE DEF whose
  <2> QED
    BY <2>2, <2>4 DEF Alright
<1>4. \A h \in Hex : ~spared(h) => \E s \in dying : h \in CellsIn(a, s)
  OBVIOUS
<1> HIDE DEF k, spared, whose, bury
<1>5. \A s \in dying : \A h \in CellsIn(a, s) : bury(h) \in Body
  <2> SUFFICES ASSUME NEW s \in dying, NEW h \in CellsIn(a, s)
               PROVE  bury(h) \in Body
    OBVIOUS
  <2>1. MarkOf(s, CellsIn(a, s), h) \in Mark
    BY DEF MarkOf
  <2> QED
    BY <1>3, <2>1
<1> HIDE DEF Body, Mark
<1>6. \A s \in dying : \A h \in CellsIn(a, s) :
        bodies(h) \in Seq(Body) /\ combatGrid[h].corpses \in Seq(Body)
  BY <1>2, <1>3, <1>5, AppendProperties
<1>7. \A s \in dying : \A h \in CellsIn(a, s) :
        /\ bodies(h) = IF ~LeavesBody(a, s) THEN combatGrid[h].corpses
                       ELSE Append(combatGrid[h].corpses,
                              [stack |-> s, otherHexIsToLeft |-> MarkOf(s, CellsIn(a, s), h)])
  BY <1>3 DEF LeavesBody
<1> HIDE DEF bodies
<1>8. \A s \in dying : \A h \in CellsIn(a, s) :
        left(h) \in Cell /\ left(h).occupant = NoStack /\ left(h).corpses = bodies(h)
  BY <1>2, <1>3, <1>6
<1>9. \A s \in dying : \A h \in CellsIn(a, s) : ~spared(h)
  BY DEF spared
<1> HIDE DEF left
<1>10. k \in [Hex -> Cell]
  BY <1>1, <1>2, <1>4, <1>8
<1>11. \A h \in Hex : spared(h) => k[h] = combatGrid[h]
  BY <1>1
<1>12. \A s \in dying : \A h \in CellsIn(a, s) : k[h] = left(h)
  BY <1>1, <1>3, <1>9
<1>13. \A s \in dying : \A h \in CellsIn(a, s) : Emptied(a, k, h, s)
  BY <1>7, <1>8, <1>12 DEF Emptied
<1> QED
  BY <1>10, <1>11, <1>13 DEF GridType, k, spared, Body, Mark

\* An append adds its element at the end.
LEMMA AppendAdds ==
  ASSUME NEW S, NEW seq \in Seq(S), NEW elt
  PROVE  /\ Len(Append(seq, elt)) = Len(seq) + 1 /\ Len(seq) \in Nat
         /\ \A i \in 1..Len(seq) : Append(seq, elt)[i] = seq[i]
         /\ Append(seq, elt)[Len(seq) + 1] = elt
<1> DEFINE T == S \cup {elt}
<1>1. seq \in Seq(T) /\ elt \in T /\ Len(seq) \in Nat
  OBVIOUS
<1> HIDE DEF T
<1> QED
  BY <1>1, AppendProperties

\* The army after the death of some.
Mourned(a, b, dying) ==
  \A t \in Stacks :
    /\ CellsIn(b, t) = CellsIn(a, t)
    /\ t \in dying => b[t].status = "dead"
    /\ t \notin dying => b[t].status = a[t].status

LEMMA BuryIsSound ==
  ASSUME NEW a \in ArmyType, NEW b \in ArmyType, combatGrid \in GridType,
         Low(combatGrid), Sound(a, combatGrid),
         NEW dying \in SUBSET {t \in Stacks : a[t].status = "alive"},
         Mourned(a, b, dying)
  PROVE  LET k == Bury(a, combatGrid, dying) IN
         k \in GridType /\ Low(k) /\ Sound(b, k)
<1> DEFINE g == combatGrid
           k == Bury(a, combatGrid, dying)
           n(h) == Len(g[h].corpses)
           body(h, s) == [stack |-> s, otherHexIsToLeft |-> MarkOf(s, CellsIn(a, s), h)]
           spared(h) == \A s \in dying : h \notin CellsIn(a, s)
           topped(h, s) == /\ h \in CellsIn(a, s) /\ LeavesBody(a, s)
                           /\ Len(k[h].corpses) = n(h) + 1
                           /\ \A i \in 1..n(h) : k[h].corpses[i] = g[h].corpses[i]
                           /\ k[h].corpses[n(h) + 1] = body(h, s)
<1>1. /\ k \in GridType
      /\ \A h \in Hex : spared(h) => k[h] = g[h]
      /\ \A s \in dying : \A h \in CellsIn(a, s) : Emptied(a, k, h, s)
  BY BuryEmpties
<1> HIDE DEF k
<1>2. \A s \in dying : /\ s \in Stacks /\ a[s].status = "alive" /\ b[s].status = "dead"
                       /\ CellsIn(a, s) \subseteq Field \ Blocked
                       /\ CellsIn(a, s) \subseteq Hex
                       /\ Alright(a, g, s)
  BY AliveStandOnField DEF Mourned, Sound, Standing
\* The bodies that lay on a hex stay at the bottom of its pile.
<1>3. ASSUME NEW h \in Hex
      PROVE  k[h].corpses = g[h].corpses \/ \E s \in dying : topped(h, s)
  <2>1. CASE spared(h)
    BY <1>1, <2>1
  <2>2. ASSUME NEW s \in dying, h \in CellsIn(a, s)
        PROVE  k[h].corpses = g[h].corpses \/ topped(h, s)
    <3>1. Emptied(a, k, h, s)
      BY <1>1, <2>2
    <3>2. g[h].corpses \in Seq([stack : Stacks, otherHexIsToLeft : {-1, 0, 1}])
      BY BodiesAreTyped
    <3>3. CASE ~LeavesBody(a, s)
      BY <3>1, <3>3 DEF Emptied
    <3>4. CASE LeavesBody(a, s)
      <4>1. k[h].corpses = Append(g[h].corpses, body(h, s))
        BY <3>1, <3>4 DEF Emptied
      <4> HIDE DEF body
      <4> QED
        BY <2>2, <3>2, <3>4, <4>1, AppendAdds
    <3> QED
      BY <3>3, <3>4
  <2> QED
    BY <2>1, <2>2
<1>4. \A h \in Hex : n(h) \in Nat
  BY BodiesAreTyped
<1> HIDE DEF body
<1>5. Low(k)
  <2> SUFFICES ASSUME NEW h \in Hex
               PROVE  Len(k[h].corpses) <= CorpseLimit
    BY DEF Low
  <2>1. n(h) <= CorpseLimit
    BY DEF Low
  <2>2. ASSUME NEW s \in dying, h \in CellsIn(a, s), LeavesBody(a, s)
        PROVE  n(h) < CorpseLimit
    BY <2>2 DEF LeavesBody, BodyFits
  <2>3. CorpseLimit \in Nat
    BY BoardAssumption
  <2> QED
    BY <1>3, <1>4, <2>1, <2>2, <2>3
<1>6. Standing(b, k)
  <2> SUFFICES ASSUME NEW t \in Stacks, b[t].status = "alive"
               PROVE  Alright(b, k, t)
    BY DEF Standing
  <2>1. t \notin dying /\ a[t].status = "alive" /\ CellsIn(b, t) = CellsIn(a, t)
    BY DEF Mourned
  <2>2. Alright(a, g, t) /\ CellsIn(a, t) \subseteq Hex
    BY <2>1, AliveStandOnField DEF Sound, Standing
  <2>3. \A h \in CellsIn(a, t) : spared(h)
    BY <1>2, <2>1, NobodySharesAHex
  <2>4. \A h \in CellsIn(a, t) : k[h] = g[h]
    BY <1>1, <2>2, <2>3
  <2> QED
    BY <2>1, <2>2, <2>4 DEF Alright
<1>7. Peopled(b, k)
  <2> SUFFICES ASSUME NEW h \in Hex, k[h].occupant # NoStack
               PROVE  Present(b, k, h)
    BY DEF Peopled, Present
  <2>1. spared(h)
    BY <1>1 DEF Emptied
  <2>2. k[h] = g[h] /\ Present(a, g, h) /\ g[h].occupant \in Stacks
    BY <1>1, <2>1 DEF Sound, Peopled, GridType
  <2>3. a[g[h].occupant].status = "alive" /\ h \in CellsIn(a, g[h].occupant)
    BY <2>2 DEF Present
  <2>4. g[h].occupant \notin dying
    BY <2>1, <2>3
  <2> QED
    BY <2>2, <2>3, <2>4 DEF Present, Mourned
<1>8. Piled(b, k)
  <2> SUFFICES ASSUME NEW h \in Hex
               PROVE  Pile(b, k, h)
    BY DEF Piled
  <2>1. Pile(a, g, h)
    BY DEF Sound, Piled
  \* No body is lost.
  <2>2. ASSUME NEW c \in Hex, NEW t, Lies(g, c, t)
        PROVE  Lies(k, c, t)
    <3>1. PICK i \in 1..n(c) : g[c].corpses[i].stack = t
      BY <2>2 DEF Lies
    <3>2. CASE k[c].corpses = g[c].corpses
      BY <3>1, <3>2 DEF Lies
    <3>3. CASE /\ Len(k[c].corpses) = n(c) + 1
               /\ \A j \in 1..n(c) : k[c].corpses[j] = g[c].corpses[j]
      <4>1. i \in 1..Len(k[c].corpses) /\ k[c].corpses[i].stack = t
        BY <1>4, <3>1, <3>3
      <4> QED
        BY <4>1 DEF Lies
    <3> QED
      BY <1>3, <3>2, <3>3
  \* Those that lay there lie there.
  <2>3. ASSUME NEW i \in 1..n(h)
        PROVE  LET c == g[h].corpses[i] IN
               /\ c.stack \in Stacks /\ a[c.stack].status = "dead"
               /\ Fallen(b, h, c)
               /\ \A d \in CellsIn(b, c.stack) : Lies(k, d, c.stack)
               /\ \A j \in 1..n(h) : g[h].corpses[j].stack = c.stack => j = i
    <3> DEFINE c == g[h].corpses[i]
    <3>1. /\ c.stack \in Stacks
          /\ Fallen(a, h, c)
          /\ \A d \in CellsIn(a, c.stack) : Lies(g, d, c.stack)
          /\ \A j \in 1..n(h) : g[h].corpses[j].stack = c.stack => j = i
      BY <2>1, BodiesAreTyped DEF Pile
    <3> HIDE DEF c
    <3>2. /\ a[c.stack].status = "dead" /\ c.stack \notin dying
          /\ CellsIn(a, c.stack) \subseteq Hex
      BY <1>2, <3>1 DEF Fallen, Field
    <3>3. b[c.stack].status = "dead" /\ CellsIn(b, c.stack) = CellsIn(a, c.stack)
      BY <3>1, <3>2 DEF Mourned
    <3>4. Fallen(b, h, c)
      BY <3>1, <3>3 DEF Fallen
    <3>5. \A d \in CellsIn(b, c.stack) : Lies(k, d, c.stack)
      BY <2>2, <3>1, <3>2, <3>3
    <3> QED
      BY <3>1, <3>2, <3>4, <3>5 DEF c
  <2>4. CASE k[h].corpses = g[h].corpses
    BY <2>3, <2>4 DEF Pile
  <2>5. ASSUME NEW s \in dying, topped(h, s)
        PROVE  Pile(b, k, h)
    <3>1. /\ body(h, s).stack = s
          /\ body(h, s).otherHexIsToLeft = MarkOf(s, CellsIn(a, s), h)
      BY DEF body
    <3>2. CellsIn(b, s) = CellsIn(a, s) /\ s \notin Elementals
      BY <1>2, <2>5 DEF Mourned, LeavesBody, LeaveNoBody
    <3>3. Fallen(b, h, body(h, s))
      BY <1>2, <2>5, <3>1, <3>2 DEF Fallen
    <3>4. ASSUME NEW d \in CellsIn(b, s)
          PROVE  Lies(k, d, s)
      <4>1. d \in CellsIn(a, s) /\ d \in Hex
        BY <1>2, <3>2
      <4>2. k[d].corpses = Append(g[d].corpses, body(d, s))
        BY <1>1, <2>5, <4>1 DEF Emptied, body
      <4>3. body(d, s).stack = s
        BY DEF body
      <4>4. /\ Len(k[d].corpses) = n(d) + 1 /\ n(d) \in Nat
            /\ k[d].corpses[n(d) + 1] = body(d, s)
        <5>1. g[d].corpses \in Seq([stack : Stacks, otherHexIsToLeft : {-1, 0, 1}])
          BY <4>1, BodiesAreTyped
        <5> QED
          BY <4>2, <5>1, AppendAdds
      <4>5. n(d) + 1 \in 1..Len(k[d].corpses)
        BY <4>4
      <4> QED
        BY <4>3, <4>4, <4>5 DEF Lies
    <3>5. a[s].status # "dead"
      BY <1>2
    <3>6. SUFFICES ASSUME NEW i \in 1..Len(k[h].corpses)
                   PROVE  /\ Fallen(b, h, k[h].corpses[i])
                          /\ \A d \in CellsIn(b, k[h].corpses[i].stack) :
                               Lies(k, d, k[h].corpses[i].stack)
                          /\ \A j \in 1..Len(k[h].corpses) :
                               k[h].corpses[j].stack = k[h].corpses[i].stack => j = i
      BY DEF Pile
    <3>7. \A j \in 1..Len(k[h].corpses) : j \in 1..n(h) \/ j = n(h) + 1
      BY <1>4, <2>5
    <3>8. CASE i = n(h) + 1
      <4>1. \A j \in 1..n(h) : k[h].corpses[j].stack # s
        <5> TAKE j \in 1..n(h)
        <5>1. a[g[h].corpses[j].stack].status = "dead"
          BY <2>3
        <5>2. k[h].corpses[j] = g[h].corpses[j]
          BY <2>5
        <5> QED
          BY <3>5, <5>1, <5>2
      <4>2. k[h].corpses[i] = body(h, s)
        BY <2>5, <3>8
      <4> QED
        BY <3>1, <3>3, <3>4, <3>7, <3>8, <4>1, <4>2
    <3>9. CASE i \in 1..n(h)
      <4>1. k[h].corpses[i] = g[h].corpses[i]
        BY <2>5, <3>9
      <4>2. g[h].corpses[i].stack # s
        BY <2>3, <3>5, <3>9
      <4>3. \A j \in 1..Len(k[h].corpses) :
              k[h].corpses[j].stack = g[h].corpses[i].stack => j \in 1..n(h)
        BY <2>5, <3>1, <3>7, <4>2
      <4>4. /\ Fallen(b, h, g[h].corpses[i])
            /\ \A d \in CellsIn(b, g[h].corpses[i].stack) : Lies(k, d, g[h].corpses[i].stack)
            /\ \A j \in 1..n(h) : g[h].corpses[j].stack = g[h].corpses[i].stack => j = i
        BY <2>3, <3>9
      <4>5. ASSUME NEW j \in 1..Len(k[h].corpses),
                   k[h].corpses[j].stack = g[h].corpses[i].stack
            PROVE  j = i
        <5>1. j \in 1..n(h)
          BY <4>3, <4>5
        <5>2. k[h].corpses[j] = g[h].corpses[j]
          BY <2>5, <5>1
        <5> QED
          BY <4>4, <4>5, <5>1, <5>2
      <4> QED
        BY <4>1, <4>4, <4>5
    <3> QED
      BY <3>7, <3>8, <3>9
  <2> QED
    BY <1>3, <2>4, <2>5
<1> QED
  BY <1>1, <1>5, <1>6, <1>7, <1>8 DEF Sound, k
-----------------------------------------------------------------------------
(* The attacks *)

LEMMA DiedIs ==
  ASSUME NEW a \in ArmyType, NEW dying \in SUBSET Stacks
  PROVE  /\ Died(a, dying) \in ArmyType
         /\ \A t \in Stacks :
              /\ Died(a, dying)[t].occupiedHex = a[t].occupiedHex
              /\ Died(a, dying)[t].facingRight = a[t].facingRight
              /\ CellsIn(Died(a, dying), t) = CellsIn(a, t)
              /\ t \in dying => Died(a, dying)[t].status = "dead"
              /\ t \notin dying => Died(a, dying)[t] = a[t]
<1> DEFINE d == Died(a, dying)
           Stack == [occupiedHex : Hex, facingRight : {0, 1},
                     status : {"absent", "alive", "dead"}]
<1>1. \A t \in Stacks : a[t] \in Stack
  BY DEF ArmyType
<1>2. \A t \in Stacks : d[t] = IF t \in dying THEN [a[t] EXCEPT !.status = "dead"] ELSE a[t]
  BY DEF Died
<1>3. \A t \in Stacks : [a[t] EXCEPT !.status = "dead"] \in Stack
  BY <1>1
<1>4. d = [t \in Stacks |-> d[t]]
  BY DEF Died
<1> HIDE DEF d
<1>5. \A t \in Stacks :
        /\ d[t].occupiedHex = a[t].occupiedHex
        /\ d[t].facingRight = a[t].facingRight
        /\ t \in dying => d[t].status = "dead"
        /\ t \notin dying => d[t] = a[t]
  BY <1>1, <1>2
<1>6. d \in [Stacks -> Stack]
  BY <1>1, <1>2, <1>3, <1>4
<1> QED
  BY <1>5, <1>6 DEF ArmyType, CellsIn, d

\* Who is on the grid may be struck: it lives.
LEMMA WhoIsThereIsAlive ==
  ASSUME Inv, intact, NEW h \in Hex, Occupant(h) # NoStack
  PROVE  Occupant(h) \in Stacks /\ army[Occupant(h)].status = "alive"
BY DEF Inv, Sound, Peopled, Present, GridType, Occupant

LEMMA StruckIsOnField ==
  ASSUME NEW a \in ArmyType, NEW s \in Stacks, NEW dir \in Direction,
         TargetHex(a, s, dir) # -1
  PROVE  TargetHex(a, s, dir) \in Field /\ TargetHex(a, s, dir) \in Hex
<1> DEFINE facing == a[s].facingRight
           front == s \in TwoHexers /\ IF facing = 1 THEN dir \notin 3..5 ELSE dir >= 3
           from == a[s].occupiedHex
           strikes == IF front THEN from + Ahead(facing) ELSE from
<1>1. strikes \in Int
  BY DEF ArmyType, Hex, Ahead
<1>2. TargetHex(a, s, dir) = Neighbor(strikes, dir, facing)
  BY DEF TargetHex
<1> HIDE DEF strikes, facing
<1> QED
  BY <1>1, <1>2, NeighborOnField DEF Field

LEMMA AnswerHasDirection ==
  ASSUME NEW a, NEW s, NEW t, NEW dir \in Direction
  PROVE  AnswerDirection(a, s, t, dir) \in Direction
BY DEF AnswerDirection, Direction

\* Who stands behind the one struck lives.
LEMMA SecondIsAlive ==
  ASSUME Inv, intact, NEW a \in ArmyType, NEW s \in Stacks, NEW dir \in Direction,
         NEW t \in SecondHexTarget(a, s, dir)
  PROVE  t \in Stacks /\ army[t].status = "alive"
<1> DEFINE struck == TargetHex(a, s, dir)
           behind == Neighbor(struck, dir, a[s].facingRight)
<1>1. struck \in Int
  <2>1. CASE struck = -1
    BY <2>1
  <2>2. CASE struck # -1
    BY <2>2, StruckIsOnField DEF Hex
  <2> QED
    BY <2>1, <2>2
<1>2. behind # -1 /\ t = Occupant(behind) /\ t # NoStack
  BY DEF SecondHexTarget
<1> HIDE DEF struck
<1>3. behind \in Hex
  BY <1>1, <1>2, NeighborOnField DEF Field
<1> QED
  BY <1>2, <1>3, WhoIsThereIsAlive

\* Two stacks that turn to each other stand where they stood.
LEMMA FacingOff ==
  ASSUME NEW a \in ArmyType, NEW s \in Stacks, NEW t \in Stacks, s # t,
         NEW f \in {0, 1}, NEW f2 \in {0, 1},
         CellsIn(a, s) \subseteq Hex, CellsIn(a, t) \subseteq Hex
  PROVE  LET c == TurnTo(TurnTo(a, s, f), t, f2) IN
         /\ c \in ArmyType /\ Alike(a, c)
         /\ \A u \in Stacks : u \notin {s, t} => c[u] = a[u]
<1> DEFINE b == TurnTo(a, s, f)
           c == TurnTo(b, t, f2)
<1>1. Wheeled(a, b, s, f)
  BY Wheels
<1>2. b \in ArmyType /\ CellsIn(b, t) = CellsIn(a, t)
  BY <1>1 DEF Wheeled, CellsIn
<1>3. Wheeled(b, c, t, f2)
  BY <1>2, Wheels
<1> HIDE DEF b, c
<1> QED
  BY <1>1, <1>3 DEF Wheeled, Alike, CellsIn, b, c

\* The army after the exchange: who lives faces the way it did before.
Relieved(a, b, dying) ==
  /\ b \in ArmyType
  /\ \A t \in Stacks :
       /\ CellsIn(b, t) = CellsIn(a, t)
       /\ t \in dying => b[t].status = "dead"
       /\ t \notin dying => b[t].status = a[t].status
       /\ b[t].status = "alive" => b[t].facingRight = a[t].facingRight

LEMMA ReliefIsSound ==
  ASSUME NEW a \in ArmyType, NEW c \in ArmyType, Alike(a, c), NEW b,
         combatGrid \in GridType, Low(combatGrid), Sound(a, combatGrid), Facing(a),
         NEW dying \in SUBSET {t \in Stacks : a[t].status = "alive"},
         Relieved(a, b, dying)
  PROVE  LET k == Bury(c, combatGrid, dying) IN
         /\ k \in GridType /\ Low(k) /\ Sound(b, k)
         /\ b \in ArmyType /\ Facing(b)
<1>1. Sound(c, combatGrid)
  BY AlikeIsSound
<1>2. dying \in SUBSET {t \in Stacks : c[t].status = "alive"}
  BY DEF Alike
<1>3. b \in ArmyType /\ Mourned(c, b, dying)
  BY DEF Relieved, Mourned, Alike
<1>4. Facing(b)
  BY DEF Facing, Relieved
<1> HIDE DEF Bury
<1> QED
  BY <1>1, <1>2, <1>3, <1>4, BuryIsSound

LEMMA DoAttackStep ==
  ASSUME Inv, NEW dir \in Direction, DoAttack(dir)
  PROVE  Inv'
<1> DEFINE s == active
           old == army[s].facingRight
           struck == TargetHex(army, s, dir)
           target == Occupant(struck)
           facing == IF dir <= 2 THEN 1 ELSE IF dir <= 5 THEN 0 ELSE old
           facedOff == IF facing = old THEN army
                       ELSE TurnTo(TurnTo(army, s, facing), target, 1 - facing)
           second == SecondHexTarget(army, s, dir)
           answers == AnswerDirection(facedOff, s, target, dir)
           behind == SecondHexTarget(facedOff, target, answers)
           Restored(a) ==
             IF facing = old THEN a
             ELSE [t \in Stacks |->
                     IF t \in {s, target} /\ a[t].status # "dead"
                     THEN TurnTo(a, t, army[t].facingRight)[t] ELSE a[t]]
<1>1. /\ Acting /\ struck # -1 /\ target \notin {NoStack, s}
      /\ active' = active /\ intact' = intact
  BY DEF DoAttack
<1>2. PICK dying \in Casualties(s, target, second, behind) :
        /\ combatGrid' = Bury(facedOff, combatGrid, dying)
        /\ army' = Restored(Died(facedOff, dying))
  BY DEF DoAttack
<1>3. /\ intact /\ s \in Stacks /\ army[s].status = "alive"
      /\ army \in ArmyType /\ combatGrid \in GridType /\ Low(combatGrid)
      /\ Facing(army) /\ Sound(army, combatGrid)
      /\ old \in {0, 1}
  BY <1>1, WhoActsIsAlive
<1>4. struck \in Hex /\ struck \in Int
  BY <1>1, <1>3, StruckIsOnField DEF Hex
<1>5. target \in Stacks /\ army[target].status = "alive" /\ target # s
  BY <1>1, <1>3, <1>4, WhoIsThereIsAlive
<1>6. facing \in {0, 1} /\ 1 - facing \in {0, 1}
  BY <1>3
<1> HIDE DEF target, struck, facing
<1>7. /\ facedOff \in ArmyType /\ Alike(army, facedOff)
      /\ facing = old => facedOff = army
      /\ \A u \in Stacks : u \notin {s, target} => facedOff[u] = army[u]
  <2>1. CASE facing = old
    BY <1>3, <2>1 DEF Alike
  <2>2. CASE facing # old
    <3>1. CellsIn(army, s) \subseteq Hex /\ CellsIn(army, target) \subseteq Hex
      BY <1>3, <1>5, AliveStandOnField
    <3> QED
      BY <1>3, <1>5, <1>6, <2>2, <3>1, FacingOff
  <2> QED
    BY <2>1, <2>2
<1>8. \A t \in second : t \in Stacks /\ army[t].status = "alive"
  BY <1>3, SecondIsAlive
<1> HIDE DEF facedOff
<1>9. \A t \in behind : t \in Stacks /\ army[t].status = "alive"
  <2>1. answers \in Direction
    BY AnswerHasDirection
  <2> HIDE DEF answers
  <2> QED
    BY <1>3, <1>5, <1>7, <2>1, SecondIsAlive
<1> HIDE DEF second, behind, answers
<1>10. dying \in SUBSET {t \in Stacks : army[t].status = "alive"}
  <2>1. dying \in Casualties(s, target, second, behind)
    BY <1>2
  <2>2. dying \subseteq {s, target} \cup second \cup behind
    BY <2>1 DEF Casualties
  <2> QED
    BY <1>3, <1>5, <1>8, <1>9, <2>2
<1> DEFINE d == Died(facedOff, dying)
<1>11. /\ d \in ArmyType
       /\ \A t \in Stacks :
            /\ d[t].facingRight = facedOff[t].facingRight
            /\ CellsIn(d, t) = CellsIn(facedOff, t)
            /\ t \in dying => d[t].status = "dead"
            /\ t \notin dying => d[t] = facedOff[t]
  BY <1>10, <1>7, DiedIs
<1> HIDE DEF d
<1>12. Relieved(army, army', dying)
  <2>1. CASE facing = old
    <3>1. army' = d
      BY <1>2, <2>1 DEF d
    <3> QED
      BY <1>7, <1>11, <2>1, <3>1 DEF Relieved
  <2>2. CASE facing # old
    <3> DEFINE back(t) == TurnTo(d, t, army[t].facingRight)
    <3>1. army' = [t \in Stacks |-> IF t \in {s, target} /\ d[t].status # "dead"
                                    THEN back(t)[t] ELSE d[t]]
      BY <1>2, <2>2 DEF d
    <3>2. ASSUME NEW t \in Stacks, t \in {s, target}
          PROVE  Wheeled(d, back(t), t, army[t].facingRight)
      <4>1. army[t].status = "alive"
        BY <1>3, <1>5, <3>2
      <4>2. CellsIn(d, t) \subseteq Hex
        BY <1>3, <1>7, <1>11, <4>1, AliveStandOnField DEF Alike
      <4>3. army[t].facingRight \in {0, 1}
        BY <1>3 DEF ArmyType
      <4> QED
        BY <1>11, <4>2, <4>3, Wheels
    <3> HIDE DEF back
    <3> DEFINE Stack == [occupiedHex : Hex, facingRight : {0, 1},
                         status : {"absent", "alive", "dead"}]
    <3>3. ASSUME NEW t \in Stacks
          PROVE  /\ army'[t] \in Stack
                 /\ CellsIn(army', t) = CellsIn(army, t)
                 /\ t \in dying => army'[t].status = "dead"
                 /\ t \notin dying => army'[t].status = army[t].status
                 /\ army'[t].status = "alive" => army'[t].facingRight = army[t].facingRight
      <4>1. /\ d[t] \in Stack /\ CellsIn(d, t) = CellsIn(army, t)
            /\ t \in dying => d[t].status = "dead"
            /\ t \notin dying => d[t].status = army[t].status
        BY <1>7, <1>11 DEF ArmyType, Alike
      <4>2. CASE t \in {s, target} /\ d[t].status # "dead"
        <5>1. army'[t] = back(t)[t]
          BY <3>1, <4>2
        <5>2. /\ back(t)[t] \in Stack /\ back(t)[t].status = d[t].status
              /\ back(t)[t].facingRight = army[t].facingRight
              /\ CellsIn(back(t), t) = CellsIn(d, t)
          BY <3>2, <4>2 DEF Wheeled, ArmyType
        <5>3. CellsIn(army', t) = CellsIn(back(t), t)
          BY <5>1 DEF CellsIn
        <5> QED
          BY <4>1, <4>2, <5>1, <5>2, <5>3
      <4>3. CASE d[t].status = "dead"
        <5>1. army'[t] = d[t]
          BY <3>1, <4>3
        <5>2. CellsIn(army', t) = CellsIn(d, t)
          BY <5>1 DEF CellsIn
        <5> QED
          BY <4>1, <4>3, <5>1, <5>2
      <4>4. CASE t \notin {s, target}
        <5>1. army'[t] = d[t]
          BY <3>1, <4>4
        <5>2. CellsIn(army', t) = CellsIn(d, t)
          BY <5>1 DEF CellsIn
        <5>3. d[t].facingRight = army[t].facingRight
          BY <1>7, <1>11, <4>4
        <5> QED
          BY <4>1, <5>1, <5>2, <5>3
      <4> QED
        BY <4>2, <4>3, <4>4
    <3>4. army' \in [Stacks -> Stack]
      BY <3>1, <3>3
    <3> QED
      BY <3>3, <3>4 DEF Relieved, ArmyType
  <2> QED
    BY <2>1, <2>2
<1>13. /\ combatGrid' \in GridType /\ Low(combatGrid') /\ Sound(army', combatGrid')
       /\ army' \in ArmyType /\ Facing(army')
  BY <1>2, <1>3, <1>10, <1>7, <1>12, ReliefIsSound
<1> QED
  <2>1. active' \in Stacks /\ intact' \in BOOLEAN
    BY <1>1, <1>3
  <2> QED
    BY <1>13, <2>1, Conclude

\* A shot takes nobody who is dead already.
LEMMA ShotAreAlive ==
  ASSUME Inv, intact, NEW s, NEW t \in Alive, NEW u \in ShotAt(s, t)
  PROVE  u \in Stacks /\ army[u].status = "alive"
<1>1. CASE u = t
  BY <1>1 DEF Alive
<1>2. CASE u # t
  <2>1. PICK h \in Hex : u = Occupant(h) /\ u # NoStack
    BY <1>2 DEF ShotAt
  <2> QED
    BY <2>1, WhoIsThereIsAlive
<1> QED
  BY <1>1, <1>2

LEMMA SpecialAttackStep ==
  ASSUME Inv, NEW t \in Stacks, SpecialAttack(t)
  PROVE  Inv'
<1> DEFINE s == active
           old == army[s].facingRight
           col(h) == h % Columns
           here == army[s].occupiedHex
           there == army[t].occupiedHex
           facing == IF col(there) > col(here)
                        \/ ((here \div Columns) % 2 = 0 /\ col(there) = col(here))
                     THEN 1 ELSE 0
           aimed == TurnTo(army, s, facing)
           drifted == Turned(s, aimed[s].occupiedHex, facing)
           Back(a) == IF facing = old THEN a
                      ELSE [a EXCEPT ![s].facingRight = old, ![s].occupiedHex = drifted]
<1>1. /\ Acting /\ t \in Alive
      /\ facing # old => drifted \in Hex
      /\ intact' = (facing = old \/ s \notin TwoHexers)
      /\ active' = active
  BY DEF SpecialAttack
<1>2. PICK dying \in SUBSET ShotAt(s, t) :
        combatGrid' = Bury(aimed, combatGrid, dying) /\ army' = Back(Died(aimed, dying))
  BY DEF SpecialAttack
<1>3. /\ s \in Stacks /\ army[s].status = "alive"
      /\ army \in ArmyType /\ combatGrid \in GridType /\ Low(combatGrid)
      /\ Facing(army) /\ Sound(army, combatGrid)
      /\ old \in {0, 1}
      /\ CellsIn(army, s) \subseteq Hex
  BY <1>1, WhoActsIsAlive
<1>4. dying \in SUBSET {u \in Stacks : army[u].status = "alive"}
  BY <1>1, <1>2, ShotAreAlive DEF Acting
<1>5. facing \in {0, 1}
  OBVIOUS
<1> HIDE DEF facing
<1>6. Wheeled(army, aimed, s, facing) /\ (facing = old => aimed = army)
  BY <1>3, <1>5, Wheels DEF TurnTo
<1> HIDE DEF aimed, drifted, s, old
<1>7. aimed \in ArmyType /\ Alike(army, aimed)
  BY <1>6 DEF Wheeled, Alike, CellsIn
<1> DEFINE d == Died(aimed, dying)
<1>8. /\ d \in ArmyType
      /\ \A u \in Stacks :
           /\ CellsIn(d, u) = CellsIn(aimed, u)
           /\ d[u].facingRight = aimed[u].facingRight
           /\ u \in dying => d[u].status = "dead"
           /\ u \notin dying => d[u] = aimed[u]
  BY <1>4, <1>7, DiedIs
<1> HIDE DEF d
\* Wherever the shooter drifts, the grid is that of those who died.
<1>9. combatGrid' \in GridType /\ Low(combatGrid')
  <2>1. Sound(aimed, combatGrid)
    BY <1>3, <1>7, AlikeIsSound
  <2>2. dying \in SUBSET {u \in Stacks : aimed[u].status = "alive"}
    BY <1>4, <1>7 DEF Alike
  <2>3. Mourned(aimed, d, dying)
    BY <1>8 DEF Mourned
  <2> QED
    BY <1>2, <1>3, <1>7, <1>8, <2>1, <2>2, <2>3, BuryIsSound
<1>10. /\ army' \in ArmyType
       /\ army'[s].facingRight = old /\ army'[s].status = d[s].status
       /\ \A u \in Stacks : u # s => army'[u] = d[u]
       /\ facing # old => CellsIn(army', s) = Cells(s, drifted, old)
       /\ facing = old => army' = d
  <2>1. d[s].facingRight = aimed[s].facingRight
    BY <1>3, <1>8
  <2>2. CASE facing = old
    BY <1>2, <1>3, <1>6, <1>8, <2>1, <2>2 DEF d, Wheeled
  <2>3. CASE facing # old
    <3>1. army' = [d EXCEPT ![s].facingRight = old, ![s].occupiedHex = drifted]
      BY <1>2, <2>3 DEF d
    <3>2. Set(d, army', s, drifted, old)
      BY <1>1, <1>3, <1>8, <2>3, <3>1, PuttingSets
    <3> QED
      BY <2>1, <2>3, <3>2 DEF Set
  <2> QED
    BY <2>2, <2>3
<1>11. Facing(army')
  <2>1. ASSUME NEW u \in Stacks, u # s, army'[u].status = "alive"
        PROVE  army'[u] = army[u]
    <3>1. army'[u] = d[u]
      BY <1>10, <2>1
    <3>2. u \notin dying
      BY <1>8, <2>1, <3>1
    <3> QED
      BY <1>6, <1>8, <2>1, <3>1, <3>2 DEF Wheeled
  <2> QED
    BY <1>3, <1>10, <2>1 DEF Facing, old
<1>12. ASSUME intact'
       PROVE  Sound(army', combatGrid')
  <2>1. CellsIn(army', s) = CellsIn(army, s)
    <3>1. CASE facing = old
      BY <1>3, <1>7, <1>8, <1>10, <3>1 DEF Alike
    <3>2. CASE facing # old
      <4>1. s \notin TwoHexers
        BY <1>1, <1>12, <3>2
      <4>2. drifted = aimed[s].occupiedHex
        BY <4>1 DEF drifted, Turned
      <4>3. Cells(s, drifted, old) = CellsIn(aimed, s)
        BY <4>1, <4>2 DEF Cells, CellsIn
      <4> QED
        BY <1>3, <1>7, <1>10, <3>2, <4>3 DEF Alike
    <3> QED
      BY <3>1, <3>2
  <2>2. Relieved(army, army', dying)
    <3> SUFFICES ASSUME NEW u \in Stacks
                 PROVE  /\ CellsIn(army', u) = CellsIn(army, u)
                        /\ u \in dying => army'[u].status = "dead"
                        /\ u \notin dying => army'[u].status = army[u].status
                        /\ army'[u].status = "alive" =>
                             army'[u].facingRight = army[u].facingRight
      BY <1>10 DEF Relieved
    <3>1. CASE u = s
      <4>1. s \notin dying => d[s].status = army[s].status
        BY <1>3, <1>6, <1>8 DEF Wheeled
      <4> QED
        BY <1>3, <1>8, <1>10, <2>1, <3>1, <4>1 DEF old
    <3>2. CASE u # s
      <4>1. army'[u] = d[u] /\ CellsIn(army', u) = CellsIn(d, u)
        BY <1>10, <3>2 DEF CellsIn
      <4>2. aimed[u] = army[u] /\ CellsIn(d, u) = CellsIn(army, u)
        BY <1>6, <1>7, <1>8, <3>2 DEF Wheeled, Alike
      <4> QED
        BY <1>8, <4>1, <4>2
    <3> QED
      BY <3>1, <3>2
  <2> DEFINE k == Bury(aimed, combatGrid, dying)
  <2>3. Sound(army', k)
    BY <1>3, <1>4, <1>7, <2>2, ReliefIsSound
  <2>4. combatGrid' = k
    BY <1>2
  <2> QED
    BY <2>3, <2>4
<1>13. active' \in Stacks /\ intact' \in BOOLEAN
  BY <1>1, <1>3 DEF s
<1> QED
  BY <1>9, <1>10, <1>11, <1>12, <1>13, Conclude
-----------------------------------------------------------------------------
(* The spells *)

\* The mark under a stack leads to its other hex.
LEMMA MarkLeadsToOther ==
  ASSUME NEW s, NEW o \in Int, NEW f \in {0, 1}, NEW h \in Cells(s, o, f), NEW mark,
         mark = MarkOf(s, Cells(s, o, f), h)
  PROVE  /\ Cells(s, o, f) = {h} \cup (IF mark = 1 THEN {h - 1}
                                       ELSE IF mark = 0 THEN {h + 1} ELSE {})
         /\ mark = -1 <=> s \notin TwoHexers
         /\ mark \in {-1, 0, 1}
<1>1. CASE s \notin TwoHexers
  <2>1. Cells(s, o, f) = {o} /\ h = o /\ mark = -1
    BY <1>1, CellsShape DEF MarkOf
  <2> QED
    BY <1>1, <2>1
<1>2. CASE s \in TwoHexers /\ f = 1
  <2>1. Cells(s, o, f) = {o, o + 1}
    BY <1>2, CellsShape
  <2>2. CASE h = o
    <3>1. mark = 0
      BY <1>2, <2>1, <2>2 DEF MarkOf
    <3> QED
      BY <1>2, <2>1, <2>2, <3>1
  <2>3. CASE h = o + 1
    <3>1. mark = 1 /\ h - 1 = o
      BY <1>2, <2>1, <2>3 DEF MarkOf
    <3> QED
      BY <1>2, <2>1, <2>3, <3>1
  <2> QED
    BY <2>1, <2>2, <2>3
<1>3. CASE s \in TwoHexers /\ f = 0
  <2>1. Cells(s, o, f) = {o, o - 1}
    BY <1>3, CellsShape
  <2>2. CASE h = o
    <3>1. mark = 1
      BY <1>3, <2>1, <2>2 DEF MarkOf
    <3> QED
      BY <1>3, <2>1, <2>2, <3>1
  <2>3. CASE h = o - 1
    <3>1. mark = 0 /\ h + 1 = o
      BY <1>3, <2>1, <2>3 DEF MarkOf
    <3> QED
      BY <1>3, <2>1, <2>3, <3>1
  <2> QED
    BY <2>1, <2>2, <2>3
<1> QED
  BY <1>1, <1>2, <1>3

\* The grid where a stack has been taken off its hexes and the marks left.
LEMMA TakingOffClears ==
  ASSUME NEW g \in GridType, NEW from \in SUBSET Hex
  PROVE  Cleared(g, [c \in Hex |-> IF c \in from THEN [g[c] EXCEPT !.occupant = NoStack]
                                   ELSE g[c]], from)
<1> DEFINE bare(c) == [g[c] EXCEPT !.occupant = NoStack]
           k == [c \in Hex |-> IF c \in from THEN bare(c) ELSE g[c]]
           Cell == [occupant : Stacks \cup {NoStack}, otherHexIsToLeft : {-1, 0, 1},
                    corpses : Seq([stack : Stacks, otherHexIsToLeft : {-1, 0, 1}])]
<1>1. \A c \in Hex : g[c] \in Cell
  BY DEF GridType
<1>2. \A c \in Hex : /\ bare(c) \in Cell /\ bare(c).occupant = NoStack
                     /\ bare(c).corpses = g[c].corpses
  BY <1>1
<1> HIDE DEF bare
<1>3. k \in [Hex -> Cell]
  BY <1>1, <1>2
<1> QED
  BY <1>2, <1>3 DEF Cleared, GridType

LEMMA TeleportStep ==
  ASSUME Inv, NEW s \in Stacks, NEW h \in Field, Teleport(s, h)
  PROVE  Inv'
<1> DEFINE old == army[s].occupiedHex
           facing == army[s].facingRight
           mark == combatGrid[old].otherHexIsToLeft
           left == {old} \cup (IF mark = 1 THEN {old - 1}
                               ELSE IF mark = 0 THEN {old + 1} ELSE {})
           gone == [c \in Hex |-> IF c \in left THEN [combatGrid[c] EXCEPT !.occupant = NoStack]
                                  ELSE combatGrid[c]]
           front == Neighbor(h, IF facing = 1 THEN 1 ELSE 4, facing)
           fits == front # -1 /\ gone[front].occupant = NoStack /\ front \notin Blocked
           to == IF s \notin TwoHexers \/ fits THEN h ELSE h - Ahead(facing)
<1>1. /\ Acting /\ army[s].status = "alive" /\ CanFit(s, h)
      /\ combatGrid' = Occupy(gone, s, to, facing)
      /\ army' = [army EXCEPT ![s].occupiedHex = to]
      /\ active' = active /\ intact' = (to = h)
  BY DEF Teleport, Alive
<1>2. /\ active \in Stacks
      /\ army \in ArmyType /\ combatGrid \in GridType /\ Low(combatGrid)
      /\ Facing(army) /\ Sound(army, combatGrid)
  BY <1>1, WhoActsIsAlive
<1>3. /\ old \in Hex /\ old \in Int /\ facing \in {0, 1}
      /\ h \in Hex /\ h \in Int /\ h - 1 \in Hex /\ h + 1 \in Hex
  BY <1>2, BesideTheField DEF ArmyType, Hex
<1>4. /\ CellsIn(army, s) \subseteq Hex /\ Alright(army, combatGrid, s)
      /\ CellsIn(army, s) = Cells(s, old, facing)
  BY <1>1, <1>2, AliveStandOnField DEF Sound, Standing, CellsIn
<1>5. left = CellsIn(army, s)
  <2>1. old \in Cells(s, old, facing)
    BY <1>3, CellsShape
  <2>2. mark = MarkOf(s, Cells(s, old, facing), old)
    BY <1>4, <2>1 DEF Alright
  <2> QED
    BY <1>3, <1>4, <2>1, <2>2, MarkLeadsToOther
<1> HIDE DEF left, mark
<1>6. Cleared(combatGrid, gone, CellsIn(army, s))
  BY <1>2, <1>4, <1>5, TakingOffClears
<1>7. to \in Hex /\ to \in Int
  <2>1. h - Ahead(facing) \in {h - 1, h + 1}
    BY <1>3 DEF Ahead
  <2> HIDE DEF fits
  <2>2. to \in Hex
    BY <1>3, <2>1
  <2> QED
    BY <2>2 DEF Hex
<1>8. ASSUME to = h
      PROVE  /\ Cells(s, h, facing) \subseteq Field \ Blocked
             /\ \A c \in Cells(s, h, facing) : combatGrid[c].occupant \in {NoStack, s}
  <2>1. /\ Cells(s, h, facing) \subseteq Field \ Blocked
        /\ combatGrid[h].occupant = NoStack
        /\ s \in TwoHexers => front = h + Ahead(facing)
    BY <1>1, <1>3, FittingIsFree
  <2>2. CASE s \notin TwoHexers
    BY <1>3, <2>1, <2>2, CellsShape
  <2>3. CASE s \in TwoHexers
    <3>1. h - Ahead(facing) # h
      BY <1>3 DEF Ahead
    <3>2. gone[front].occupant = NoStack
      BY <1>8, <2>3, <3>1
    <3>3. Cells(s, h, facing) = {h, front}
      BY <2>1, <2>3 DEF Cells
    <3>4. front \in Hex
      BY <2>1, <3>3 DEF Field
    <3> HIDE DEF gone, front
    <3>5. combatGrid[front].occupant \in {NoStack, s}
      BY <1>4, <1>6, <3>2, <3>4 DEF Cleared, Alright
    <3> QED
      BY <2>1, <3>3, <3>5
  <2> QED
    BY <2>2, <2>3
<1> HIDE DEF to, gone, facing
<1>9. /\ army' \in ArmyType
      /\ army'[s].occupiedHex = to /\ army'[s].facingRight = facing
      /\ army'[s].status = "alive"
      /\ \A t \in Stacks : t # s => army'[t] = army[t]
  BY <1>1, <1>2, <1>7 DEF ArmyType, facing
<1>10. Facing(army')
  BY <1>2, <1>1, <1>9 DEF Facing, facing
<1>11. combatGrid' \in GridType /\ Low(combatGrid')
  <2>1. gone \in GridType /\ \A c \in Hex : gone[c].corpses = combatGrid[c].corpses
    BY <1>6 DEF Cleared
  <2>2. Taken(gone, combatGrid', s, Cells(s, to, facing))
    BY <1>1, <1>3, <1>7, <2>1, OccupyTakes
  <2> QED
    BY <1>2, <2>1, <2>2 DEF Taken, Low
<1>12. ASSUME intact'
       PROVE  Sound(army', combatGrid')
  <2>1. to = h
    BY <1>1, <1>12
  <2>2. CellsIn(army', s) = Cells(s, h, facing)
    BY <1>9, <2>1 DEF CellsIn
  <2>3. Cells(s, h, facing) \subseteq Hex
    BY <1>8, <2>1 DEF Field
  <2>4. Moved(combatGrid, combatGrid', s, CellsIn(army, s), CellsIn(army', s))
    BY <1>1, <1>2, <1>3, <1>4, <1>6, <2>1, <2>2, <2>3, OccupyMoves
  <2>5. /\ CellsIn(army', s) \subseteq Field \ Blocked
        /\ \A c \in CellsIn(army', s) : combatGrid[c].occupant \in {NoStack, s}
    BY <1>8, <2>1, <2>2
  <2>6. army[s].status = "alive" /\ army'[s].status = "alive"
    BY <1>1, <1>9
  <2> QED
    BY <1>2, <1>9, <2>4, <2>5, <2>6, MovesAreSound
<1> QED
  BY <1>1, <1>2, <1>9, <1>10, <1>11, <1>12, Conclude

LEMMA SummonElementalStep ==
  ASSUME Inv, NEW s \in Stacks, NEW h \in Field, SummonElemental(s, h)
  PROVE  Inv'
<1>1. /\ Acting /\ s \in Elementals /\ s \notin Alive
      /\ h \in SummonHexes[Side[s]] /\ combatGrid[h].occupant = NoStack
      /\ army' = [army EXCEPT ![s] = [occupiedHex |-> h, facingRight |-> 1 - Side[s],
                                      status |-> "alive"]]
      /\ combatGrid' = [combatGrid EXCEPT ![h].occupant = s]
      /\ intact' = (combatGrid[h].otherHexIsToLeft = -1)
      /\ active' = active
  BY DEF SummonElemental, Occupant
<1>2. /\ active \in Stacks /\ army[s].status # "alive"
      /\ army \in ArmyType /\ combatGrid \in GridType /\ Low(combatGrid)
      /\ Facing(army) /\ Sound(army, combatGrid)
  BY <1>1, WhoActsIsAlive DEF Alive
<1>3. /\ h \in Hex /\ h \in Int /\ h \in Field \ Blocked
      /\ 1 - Side[s] \in {0, 1} /\ s \notin TwoHexers
  <2>1. Side[s] \in {0, 1}
    BY StacksAssumption
  <2> QED
    BY <1>1, <2>1, BoardAssumption, StacksAssumption DEF Field, Hex
<1>4. /\ army' \in ArmyType
      /\ army'[s].occupiedHex = h /\ army'[s].facingRight = 1 - Side[s]
      /\ army'[s].status = "alive"
      /\ \A t \in Stacks : t # s => army'[t] = army[t]
  BY <1>1, <1>2, <1>3 DEF ArmyType
<1>5. /\ combatGrid' \in GridType
      /\ combatGrid'[h].occupant = s
      /\ combatGrid'[h].otherHexIsToLeft = combatGrid[h].otherHexIsToLeft
      /\ \A c \in Hex : combatGrid'[c].corpses = combatGrid[c].corpses
      /\ \A c \in Hex : c # h => combatGrid'[c] = combatGrid[c]
  BY <1>1, <1>2, <1>3 DEF GridType
<1>6. CellsIn(army', s) = {h}
  BY <1>3, <1>4, CellsShape DEF CellsIn
<1>7. ASSUME intact'
      PROVE  Sound(army', combatGrid')
  <2>0. NoStack \notin Stacks
    BY StacksAssumption
  <2>1. Alright(army', combatGrid', s)
    BY <1>1, <1>3, <1>5, <1>6, <1>7 DEF Alright, MarkOf
  <2>2. ASSUME NEW t \in Stacks, t # s, army'[t].status = "alive"
        PROVE  Alright(army', combatGrid', t)
    <3>1. army'[t] = army[t] /\ CellsIn(army', t) = CellsIn(army, t)
      BY <1>4, <2>2 DEF CellsIn
    <3>2. Alright(army, combatGrid, t) /\ CellsIn(army, t) \subseteq Hex
      BY <1>2, <2>2, <3>1, AliveStandOnField DEF Sound, Standing
    <3>3. \A c \in CellsIn(army, t) : combatGrid'[c] = combatGrid[c]
      BY <1>1, <1>5, <2>0, <3>2 DEF Alright
    <3> QED
      BY <3>1, <3>2, <3>3 DEF Alright
  <2>3. ASSUME NEW c \in Hex
        PROVE  Present(army', combatGrid', c)
    <3>1. CASE c = h
      BY <1>4, <1>5, <1>6, <3>1 DEF Present
    <3>2. CASE c # h
      <4>1. /\ combatGrid'[c] = combatGrid[c] /\ Present(army, combatGrid, c)
            /\ combatGrid[c].occupant \in Stacks \cup {NoStack}
        BY <1>2, <1>5, <3>2 DEF Sound, Peopled, GridType
      <4>2. combatGrid[c].occupant # NoStack =>
              army'[combatGrid[c].occupant] = army[combatGrid[c].occupant]
        BY <1>2, <1>4, <4>1 DEF Present
      <4> QED
        BY <4>1, <4>2 DEF Present, CellsIn
    <3> QED
      BY <3>1, <3>2
  <2>4. Piled(army', combatGrid')
    <3>1. \A t \in Stacks : army[t].status = "dead" /\ t \notin Elementals => army'[t] = army[t]
      BY <1>1, <1>4
    <3> QED
      BY <1>2, <1>5, <3>1, PilesAreKept DEF Sound
  <2> QED
    BY <2>1, <2>2, <2>3, <2>4 DEF Sound, Standing, Peopled
<1>8. Facing(army')
  BY <1>2, <1>4 DEF Facing
<1>9. Low(combatGrid')
  BY <1>2, <1>5 DEF Low
<1> QED
  BY <1>1, <1>2, <1>4, <1>5, <1>7, <1>8, <1>9, Conclude

\* A set of numbers up to n that has one has a greatest.
LEMMA GreatestOf ==
  ASSUME NEW n \in Nat, NEW S \in SUBSET (1..n), S # {}
  PROVE  \E i \in S : \A j \in S : j <= i
<1> DEFINE T == {m \in 0..n : n - m \in S}
<1>1. T \in SUBSET Nat
  OBVIOUS
<1>2. \A i \in S : n - i \in T
  <2> TAKE i \in S
  <2>1. i \in Int /\ n - i \in 0..n /\ n - (n - i) = i
    OBVIOUS
  <2> QED
    BY <2>1
<1>3. PICK m \in T : \A k \in T : m <= k
  <2> DEFINE R == {p \in Nat \X Nat : p[1] < p[2]}
  <2>1. IsWellFoundedOn(R, Nat)
    BY NatLessThanWellFounded DEF OpToRel
  <2>2. T # {}
    BY <1>2
  <2> HIDE DEF R, T
  <2>3. PICK m \in T : \A k \in T : ~(<<k, m>> \in R)
    BY <1>1, <2>1, <2>2, WFMin
  <2>4. ASSUME NEW k \in T PROVE m <= k
    <3>1. m \in Nat /\ k \in Nat /\ (k < m => <<k, m>> \in R)
      BY <1>1 DEF R
    <3> QED
      BY <2>3, <3>1
  <2> QED
    BY <2>4
<1>4. m \in 0..n /\ n - m \in S
  BY <1>3
<1> HIDE DEF T
<1>5. ASSUME NEW j \in S
      PROVE  j <= n - m
  <2>1. m <= n - j /\ j \in Int
    BY <1>2, <1>3
  <2> QED
    BY <1>4, <2>1
<1> QED
  BY <1>4, <1>5

\* FindResurrectArmyIndex finds a body of its side that has room to rise.
LEMMA ResurrectableRests ==
  ASSUME NEW side, NEW h \in Hex, combatGrid \in GridType,
         Resurrectable(side, h) # NoStack
  PROVE  \E i \in 1..Len(combatGrid[h].corpses) :
           LET body == combatGrid[h].corpses[i] IN
           /\ body.stack = Resurrectable(side, h) /\ Side[body.stack] = side
           /\ body.otherHexIsToLeft = 0 => Occupant(h + 1) = NoStack
           /\ body.otherHexIsToLeft = 1 => Occupant(h - 1) = NoStack
<1> DEFINE bodies == combatGrid[h].corpses
           room(i) == LET mark == bodies[i].otherHexIsToLeft IN
             /\ mark = 0 => Occupant(h + 1) = NoStack
             /\ mark = 1 => Occupant(h - 1) = NoStack
           found == {i \in 1..Len(bodies) : Side[bodies[i].stack] = side /\ room(i)}
           i == CHOOSE i \in found : \A j \in found : j <= i
<1>1. found # {} /\ Resurrectable(side, h) = bodies[i].stack
  BY DEF Resurrectable
<1>2. Len(bodies) \in Nat
  BY BodiesAreTyped
<1> HIDE DEF bodies, room
<1>3. \E m \in found : \A j \in found : j <= m
  BY <1>1, <1>2, GreatestOf
<1>4. i \in found
  BY <1>3
<1> HIDE DEF i
<1>5. i \in 1..Len(bodies) /\ Side[bodies[i].stack] = side /\ room(i)
  BY <1>4
<1> QED
  BY <1>1, <1>5 DEF bodies, room

\* A hex from the top of whose pile a body has been taken.
Lightened(g, h, s, cell) ==
  /\ Len(g[h].corpses) \in Nat \ {0}
  /\ cell \in [occupant : Stacks \cup {NoStack}, otherHexIsToLeft : {-1, 0, 1},
               corpses : Seq([stack : Stacks, otherHexIsToLeft : {-1, 0, 1}])]
  /\ Len(cell.corpses) = Len(g[h].corpses) - 1
  /\ cell.otherHexIsToLeft = -1
  /\ cell.occupant = g[h].corpses[Len(g[h].corpses)].stack
  /\ (\A i \in 1 .. Len(g[h].corpses) - 1 : g[h].corpses[i].stack # s) =>
       \A i \in 1 .. Len(g[h].corpses) - 1 : cell.corpses[i] = g[h].corpses[i]

\* What Raise makes of a hex on which the body lies.
LEMMA RaiseTakesOne ==
  ASSUME NEW g \in GridType, NEW h \in Hex, NEW s \in Stacks, Lies(g, h, s)
  PROVE  Lightened(g, h, s, Raise(g[h], s))
<1> DEFINE bodies == g[h].corpses
           n == Len(bodies)
           Body == [stack : Stacks, otherHexIsToLeft : {-1, 0, 1}]
           at == {i \in 1..n : bodies[i].stack = s}
           first == CHOOSE i \in at : \A j \in at : i <= j
           next(j) == IF j < first THEN bodies[j].stack ELSE bodies[j + 1].stack
           body(j) == [bodies[j] EXCEPT !.stack = next(j)]
           left == [j \in 1 .. n - 1 |-> body(j)]
           raised == Raise(g[h], s)
<1>1. /\ n \in Nat /\ \A i \in 1..n : bodies[i] \in Body /\ bodies[i].stack \in Stacks
  BY BodiesAreTyped
<1>2. at # {} /\ at \subseteq 1..n
  BY DEF Lies
<1>3. n # 0
  BY <1>1, <1>2
<1>4. raised = [occupant |-> bodies[n].stack, otherHexIsToLeft |-> -1, corpses |-> left]
  <2>1. left = [j \in 1 .. n - 1 |->
                  [bodies[j] EXCEPT !.stack = IF j < first THEN @ ELSE bodies[j + 1].stack]]
    BY <1>1
  <2> QED
    BY <1>2, <2>1 DEF Raise
<1>5. (\A i \in 1 .. n - 1 : bodies[i].stack # s) => first = n
  <2> SUFFICES ASSUME \A i \in 1 .. n - 1 : bodies[i].stack # s
               PROVE  first = n
    OBVIOUS
  <2>1. at = {n}
    <3>1. \A i \in at : i = n
      BY <1>1, <1>2
    <3> QED
      BY <1>2, <3>1
  <2>2. n <= n
    BY <1>1
  <2> HIDE DEF at
  <2> QED
    BY <2>1, <2>2
<1> HIDE DEF at, first
<1>6. \A j \in 1 .. n - 1 : next(j) \in Stacks
  BY <1>1, <1>3
<1>7. first = n => \A j \in 1 .. n - 1 : next(j) = bodies[j].stack
  BY <1>1
<1> HIDE DEF next, bodies
<1>8. \A j \in 1 .. n - 1 : body(j) \in Body /\ (next(j) = bodies[j].stack => body(j) = bodies[j])
  <2> SUFFICES ASSUME NEW j \in 1 .. n - 1
               PROVE  body(j) \in Body /\ (next(j) = bodies[j].stack => body(j) = bodies[j])
    OBVIOUS
  <2>1. bodies[j] \in Body /\ next(j) \in Stacks
    BY <1>1, <1>3, <1>6
  <2> QED
    BY <2>1
<1> HIDE DEF body, Body
<1>9. left \in Seq(Body) /\ Len(left) = n - 1
  BY <1>1, <1>3, <1>8
<1>10. bodies[n].stack \in Stacks
  BY <1>1, <1>3
<1>11. first = n => \A i \in 1 .. n - 1 : left[i] = bodies[i]
  BY <1>7, <1>8
<1> HIDE DEF left, raised
<1>12. /\ raised \in [occupant : Stacks \cup {NoStack}, otherHexIsToLeft : {-1, 0, 1},
                      corpses : Seq(Body)]
       /\ raised.occupant = bodies[n].stack /\ raised.otherHexIsToLeft = -1
       /\ raised.corpses = left
  BY <1>4, <1>9, <1>10
<1> QED
  BY <1>1, <1>3, <1>5, <1>9, <1>11, <1>12 DEF Lightened, raised, Body, bodies

\* A fallen stack has risen from the tops of the piles it lay on.
Risen(a, b, g, k, s) ==
  /\ b[s].status = "alive" /\ CellsIn(b, s) = CellsIn(a, s)
  /\ \A t \in Stacks : t # s => b[t] = a[t]
  /\ \A h \in Hex \ CellsIn(a, s) : k[h] = g[h]
  /\ \A h \in CellsIn(a, s) :
       /\ k[h].occupant = s
       /\ k[h].otherHexIsToLeft = MarkOf(s, CellsIn(a, s), h)
       /\ Len(k[h].corpses) = Len(g[h].corpses) - 1
       /\ \A i \in 1 .. Len(g[h].corpses) - 1 : k[h].corpses[i] = g[h].corpses[i]
       /\ Len(g[h].corpses) > 0 /\ g[h].corpses[Len(g[h].corpses)].stack = s

LEMMA RisingIsSound ==
  ASSUME NEW a \in ArmyType, NEW b, NEW g \in GridType, NEW k, NEW s \in Stacks,
         Sound(a, g), a[s].status = "dead", Risen(a, b, g, k, s),
         CellsIn(a, s) \subseteq Field \ Blocked,
         \A h \in CellsIn(a, s) : g[h].occupant = NoStack
  PROVE  Sound(b, k)
<1> DEFINE cells == CellsIn(a, s)
           n(h) == Len(g[h].corpses)
<1>0. /\ NoStack \notin Stacks /\ cells \subseteq Hex
      /\ \A h \in Hex : g[h].occupant \in Stacks \cup {NoStack} /\ n(h) \in Nat
  BY StacksAssumption, BodiesAreTyped DEF Field, GridType
<1>1. Alright(b, k, s)
  BY DEF Risen, Alright
<1>2. ASSUME NEW t \in Stacks, t # s, b[t].status = "alive"
      PROVE  Alright(b, k, t)
  <2>1. b[t] = a[t] /\ CellsIn(b, t) = CellsIn(a, t)
    BY <1>2 DEF Risen, CellsIn
  <2>2. Alright(a, g, t) /\ CellsIn(a, t) \subseteq Hex
    BY <1>2, <2>1, AliveStandOnField DEF Sound, Standing
  <2>3. \A h \in CellsIn(a, t) : h \in Hex \ cells
    BY <1>0, <2>2 DEF Alright
  <2>4. \A h \in CellsIn(a, t) : k[h] = g[h]
    BY <2>3 DEF Risen
  <2> QED
    BY <2>1, <2>2, <2>4 DEF Alright
<1>3. ASSUME NEW h \in Hex
      PROVE  Present(b, k, h)
  <2>1. CASE h \in cells
    BY <2>1 DEF Risen, Present
  <2>2. CASE h \notin cells
    <3>1. k[h] = g[h] /\ Present(a, g, h)
      BY <2>2 DEF Risen, Sound, Peopled
    <3>2. g[h].occupant # NoStack => b[g[h].occupant] = a[g[h].occupant]
      BY <1>0, <3>1 DEF Present, Risen
    <3> QED
      BY <3>1, <3>2 DEF Present, CellsIn
  <2> QED
    BY <2>1, <2>2
<1>4. ASSUME NEW h \in Hex
      PROVE  Pile(b, k, h)
  <2> SUFFICES ASSUME NEW i \in 1..Len(k[h].corpses)
               PROVE  /\ Fallen(b, h, k[h].corpses[i])
                      /\ \A d \in CellsIn(b, k[h].corpses[i].stack) :
                           Lies(k, d, k[h].corpses[i].stack)
                      /\ \A j \in 1..Len(k[h].corpses) :
                           k[h].corpses[j].stack = k[h].corpses[i].stack => j = i
    BY DEF Pile
  <2> DEFINE t == g[h].corpses[i].stack
  \* What lies on a hex lay there before, and is not the one that has risen.
  <2>1. ASSUME NEW j \in 1..Len(k[h].corpses)
        PROVE  j \in 1..n(h) /\ k[h].corpses[j] = g[h].corpses[j] /\ (h \in cells => j # n(h))
    <3>1. CASE h \in cells
      <4>1. /\ Len(k[h].corpses) = n(h) - 1
            /\ \A l \in 1 .. n(h) - 1 : k[h].corpses[l] = g[h].corpses[l]
        BY <3>1 DEF Risen
      <4>2. j \in 1 .. n(h) - 1
        BY <2>1, <4>1
      <4> QED
        BY <1>0, <4>1, <4>2
    <3>2. CASE h \notin cells
      <4>1. k[h] = g[h]
        BY <3>2 DEF Risen
      <4> QED
        BY <2>1, <3>2, <4>1
    <3> QED
      BY <3>1, <3>2
  <2>2. /\ t \in Stacks /\ Fallen(a, h, g[h].corpses[i])
        /\ \A d \in CellsIn(a, t) : Lies(g, d, t)
        /\ \A j \in 1..n(h) : g[h].corpses[j].stack = t => j = i
    BY <2>1, BodiesAreTyped DEF Sound, Piled, Pile
  <2>3. t # s
    <3>1. CASE h \in cells
      <4>1. n(h) \in 1..n(h) /\ g[h].corpses[n(h)].stack = s /\ i # n(h)
        BY <1>0, <2>1, <3>1 DEF Risen
      <4> QED
        BY <2>2, <4>1
    <3>2. CASE h \notin cells
      BY <2>2, <3>2 DEF Fallen
    <3> QED
      BY <3>1, <3>2
  <2>4. b[t] = a[t] /\ CellsIn(b, t) = CellsIn(a, t)
    BY <2>2, <2>3 DEF Risen, CellsIn
  <2>5. Fallen(b, h, g[h].corpses[i])
    BY <2>2, <2>4 DEF Fallen
  <2>6. ASSUME NEW d \in CellsIn(b, t)
        PROVE  Lies(k, d, t)
    <3>1. d \in Hex /\ Lies(g, d, t)
      BY <2>2, <2>4 DEF Fallen, Field
    <3>2. PICK j \in 1..n(d) : g[d].corpses[j].stack = t
      BY <3>1 DEF Lies
    <3>3. CASE d \in cells
      <4>1. /\ Len(k[d].corpses) = n(d) - 1
            /\ \A l \in 1 .. n(d) - 1 : k[d].corpses[l] = g[d].corpses[l]
            /\ g[d].corpses[n(d)].stack = s
        BY <3>3 DEF Risen
      <4>2. j # n(d)
        BY <2>3, <3>2, <4>1
      <4>3. j \in 1 .. n(d) - 1
        BY <1>0, <3>1, <3>2, <4>2
      <4>4. j \in 1..Len(k[d].corpses) /\ k[d].corpses[j].stack = t
        BY <3>2, <4>1, <4>3
      <4> QED
        BY <4>4 DEF Lies
    <3>4. CASE d \notin cells
      <4>1. k[d] = g[d]
        BY <3>1, <3>4 DEF Risen
      <4> QED
        BY <3>1, <4>1 DEF Lies
    <3> QED
      BY <3>3, <3>4
  <2>7. k[h].corpses[i] = g[h].corpses[i]
    BY <2>1
  <2>8. ASSUME NEW j \in 1..Len(k[h].corpses), k[h].corpses[j].stack = t
        PROVE  j = i
    <3>1. j \in 1..n(h) /\ k[h].corpses[j] = g[h].corpses[j]
      BY <2>1
    <3> QED
      BY <2>2, <2>8, <3>1
  <2> QED
    BY <2>5, <2>6, <2>7, <2>8
<1> QED
  BY <1>1, <1>2, <1>3, <1>4 DEF Sound, Standing, Peopled, Piled

LEMMA ResurrectStep ==
  ASSUME Inv, NEW h \in Field, Resurrect(h)
  PROVE  Inv'
<1> DEFINE side == Side[active]
           s == Resurrectable(side, h)
           bodies == combatGrid[h].corpses
           which == CHOOSE i \in 1..Len(bodies) : bodies[i].stack = s
           mark == bodies[which].otherHexIsToLeft
           other == IF mark = 1 THEN h - 1 ELSE IF mark = 0 THEN h + 1 ELSE h
           facing == 1 - side
           leftHex == IF other < h THEN other ELSE h
           rightHex == IF other < h THEN h ELSE other
           raised == [c \in Hex |-> IF c \in {h, other} THEN Raise(combatGrid[c], s)
                                    ELSE combatGrid[c]]
           Uppermost(c) == Len(combatGrid[c].corpses) > 0
                           /\ combatGrid[c].corpses[Len(combatGrid[c].corpses)].stack = s
           to == IF facing = 1 THEN leftHex ELSE rightHex
<1>1. /\ Acting /\ Occupant(h) = NoStack /\ s # NoStack
      /\ combatGrid' = IF s \notin TwoHexers THEN raised
                       ELSE [raised EXCEPT ![leftHex].otherHexIsToLeft = 1 - facing,
                                           ![rightHex].otherHexIsToLeft = facing]
      /\ army' = [army EXCEPT
                    ![s].status = "alive", ![s].facingRight = facing,
                    ![s].occupiedHex = IF s \notin TwoHexers THEN @ ELSE to]
      /\ intact' = (Uppermost(h) /\ Uppermost(other) /\ (s \in TwoHexers => facing = 1))
      /\ active' = active
  BY DEF Resurrect
<1>2. /\ intact /\ active \in Stacks
      /\ army \in ArmyType /\ combatGrid \in GridType /\ Low(combatGrid)
      /\ Facing(army) /\ Sound(army, combatGrid)
  BY <1>1, WhoActsIsAlive
<1>3. /\ h \in Hex /\ h \in Int
      /\ side \in {0, 1} /\ facing \in {0, 1}
  BY <1>2, BesideTheField, StacksAssumption
\* The body that rises, and the hexes it lies on.
<1>4. PICK i \in 1..Len(bodies) :
        /\ bodies[i].stack = s /\ Side[s] = side
        /\ bodies[i].otherHexIsToLeft = 0 => Occupant(h + 1) = NoStack
        /\ bodies[i].otherHexIsToLeft = 1 => Occupant(h - 1) = NoStack
  BY <1>1, <1>2, <1>3, ResurrectableRests
<1>5. /\ s \in Stacks /\ Fallen(army, h, bodies[i])
      /\ \A k \in CellsIn(army, s) : Lies(combatGrid, k, s)
      /\ which = i
  <2>1. Pile(army, combatGrid, h)
    BY <1>2, <1>3 DEF Sound, Piled
  <2>2. \A j \in 1..Len(bodies) : bodies[j].stack = s => j = i
    BY <1>4, <2>1 DEF Pile
  <2>3. s \in Stacks
    BY <1>2, <1>3, <1>4, BodiesAreTyped
  <2>4. which = i
    BY <1>4, <2>2
  <2> HIDE DEF which
  <2> QED
    BY <1>4, <2>1, <2>3, <2>4 DEF Pile
<1> HIDE DEF s, which
<1>6. /\ army[s].status = "dead" /\ s \notin Elementals
      /\ h \in CellsIn(army, s) /\ CellsIn(army, s) \subseteq Field \ Blocked
      /\ mark = MarkOf(s, CellsIn(army, s), h)
  BY <1>4, <1>5 DEF Fallen
<1>7. /\ army[s].occupiedHex \in Hex /\ army[s].occupiedHex \in Int
      /\ army[s].facingRight \in {0, 1}
  BY <1>2, <1>5 DEF ArmyType, Hex
<1>8. /\ CellsIn(army, s) = {h, other}
      /\ mark = -1 <=> s \notin TwoHexers
      /\ mark \in {-1, 0, 1}
  <2>1. /\ CellsIn(army, s) = {h} \cup (IF mark = 1 THEN {h - 1}
                                        ELSE IF mark = 0 THEN {h + 1} ELSE {})
        /\ mark = -1 <=> s \notin TwoHexers
        /\ mark \in {-1, 0, 1}
    BY <1>6, <1>7, MarkLeadsToOther DEF CellsIn
  <2> QED
    BY <1>3, <2>1
<1>9. /\ other \in Hex /\ other \in Int /\ Occupant(other) = NoStack
      /\ s \notin TwoHexers => other = h
      /\ s \in TwoHexers => leftHex + 1 = rightHex /\ {h, other} = {leftHex, rightHex}
      /\ leftHex \in Hex /\ rightHex \in Hex /\ leftHex \in {h, other} /\ rightHex \in {h, other}
  <2>1. other \in Hex
    BY <1>6, <1>8 DEF Field
  <2>2. other \in Int
    BY <2>1 DEF Hex
  <2>3. Occupant(other) = NoStack
    BY <1>1, <1>4, <1>5, <1>8
  <2> HIDE DEF bodies
  <2>4. s \notin TwoHexers => other = h
    BY <1>8
  <2>5. s \in TwoHexers => leftHex + 1 = rightHex /\ {h, other} = {leftHex, rightHex}
    BY <1>3, <1>8
  <2> QED
    BY <1>3, <2>1, <2>2, <2>3, <2>4, <2>5
<1> HIDE DEF other, mark, bodies
<1>10. to \in Hex
  BY <1>9
<1> HIDE DEF leftHex, rightHex, facing, side, Uppermost
\* The grid.
<1>11. \A c \in {h, other} : Lightened(combatGrid, c, s, raised[c])
  <2> TAKE c \in {h, other}
  <2>1. c \in Hex /\ Lies(combatGrid, c, s) /\ raised[c] = Raise(combatGrid[c], s)
    BY <1>3, <1>5, <1>8, <1>9
  <2> QED
    BY <1>2, <1>5, <2>1, RaiseTakesOne
<1>12. raised \in GridType /\ \A c \in Hex \ {h, other} : raised[c] = combatGrid[c]
  <2>1. \A c \in Hex \ {h, other} : raised[c] = combatGrid[c]
    OBVIOUS
  <2>2. \A c \in Hex : raised[c] \in [occupant : Stacks \cup {NoStack}, otherHexIsToLeft : {-1, 0, 1},
                           corpses : Seq([stack : Stacks, otherHexIsToLeft : {-1, 0, 1}])]
    BY <1>2, <1>11, <2>1 DEF GridType, Lightened
  <2>3. raised = [c \in Hex |-> raised[c]]
    OBVIOUS
  <2> HIDE DEF raised
  <2> QED
    BY <2>1, <2>2, <2>3 DEF GridType
<1> HIDE DEF raised
<1>13. /\ combatGrid' \in GridType
       /\ \A c \in Hex : /\ combatGrid'[c].occupant = raised[c].occupant
                         /\ combatGrid'[c].corpses = raised[c].corpses
       /\ \A c \in Hex \ {h, other} : combatGrid'[c] = raised[c]
       /\ s \notin TwoHexers => combatGrid' = raised
       /\ s \in TwoHexers => /\ combatGrid'[leftHex].otherHexIsToLeft = 1 - facing
                             /\ combatGrid'[rightHex].otherHexIsToLeft = facing
  <2>1. CASE s \notin TwoHexers
    BY <1>1, <1>12, <2>1
  <2>2. CASE s \in TwoHexers
    <3> DEFINE mid == [raised EXCEPT ![leftHex].otherHexIsToLeft = 1 - facing]
    <3>0. 1 - facing \in {-1, 0, 1} /\ facing \in {-1, 0, 1}
      BY <1>3
    <3>1. /\ mid \in GridType /\ mid[leftHex].otherHexIsToLeft = 1 - facing
          /\ \A c \in Hex : mid[c].occupant = raised[c].occupant
                            /\ mid[c].corpses = raised[c].corpses
          /\ \A c \in Hex : c # leftHex => mid[c] = raised[c]
      BY <1>9, <1>12, <3>0 DEF GridType
    <3>2. combatGrid' = [mid EXCEPT ![rightHex].otherHexIsToLeft = facing]
      BY <1>1, <2>2
    <3> HIDE DEF mid
    <3>3. leftHex # rightHex
      <4>1. leftHex \in Int /\ rightHex \in Int
        BY <1>9 DEF Hex
      <4> QED
        BY <1>9, <2>2, <4>1
    <3>4. /\ combatGrid' \in GridType /\ combatGrid'[rightHex].otherHexIsToLeft = facing
          /\ \A c \in Hex : combatGrid'[c].occupant = mid[c].occupant
                            /\ combatGrid'[c].corpses = mid[c].corpses
          /\ \A c \in Hex : c # rightHex => combatGrid'[c] = mid[c]
      BY <1>9, <3>0, <3>1, <3>2 DEF GridType
    <3> QED
      BY <1>9, <2>2, <3>1, <3>3, <3>4
  <2> QED
    BY <2>1, <2>2
<1>14. Low(combatGrid')
  <2> SUFFICES ASSUME NEW c \in Hex
               PROVE  Len(combatGrid'[c].corpses) <= CorpseLimit
    BY DEF Low
  <2>1. Len(combatGrid[c].corpses) <= CorpseLimit /\ CorpseLimit \in Nat
    BY <1>2, BoardAssumption DEF Low
  <2>2. CASE c \in {h, other}
    <3>1. /\ Len(raised[c].corpses) = Len(combatGrid[c].corpses) - 1
          /\ Len(combatGrid[c].corpses) \in Nat
      BY <1>11, <2>2 DEF Lightened
    <3>2. combatGrid'[c].corpses = raised[c].corpses
      BY <1>13
    <3> QED
      BY <2>1, <3>1, <3>2
  <2>3. CASE c \notin {h, other}
    BY <1>12, <1>13, <2>1, <2>3
  <2> QED
    BY <2>2, <2>3
\* The army.
<1>15. /\ army' \in ArmyType /\ army'[s].status = "alive" /\ army'[s].facingRight = facing
       /\ army'[s].occupiedHex = (IF s \notin TwoHexers THEN army[s].occupiedHex ELSE to)
       /\ \A t \in Stacks : t # s => army'[t] = army[t]
  <2> DEFINE one == [army EXCEPT ![s].status = "alive"]
             two == [one EXCEPT ![s].facingRight = facing]
             place == IF s \notin TwoHexers THEN army[s].occupiedHex ELSE to
  <2>1. /\ one \in ArmyType /\ one[s].status = "alive"
        /\ one[s].occupiedHex = army[s].occupiedHex
        /\ \A t \in Stacks : t # s => one[t] = army[t]
    BY <1>2, <1>5 DEF ArmyType
  <2>2. army' = [two EXCEPT ![s].occupiedHex = IF s \notin TwoHexers THEN @ ELSE to]
    BY <1>1
  <2> HIDE DEF one
  <2>3. /\ two \in ArmyType /\ two[s].status = "alive" /\ two[s].facingRight = facing
        /\ two[s].occupiedHex = army[s].occupiedHex
        /\ \A t \in Stacks : t # s => two[t] = army[t]
    BY <1>3, <1>5, <2>1 DEF ArmyType
  <2> HIDE DEF two
  <2>4. place \in Hex
    BY <1>7, <1>10
  <2>5. army' = [two EXCEPT ![s].occupiedHex = place]
    BY <1>5, <2>2, <2>3 DEF ArmyType
  <2> HIDE DEF place, to
  <2>6. /\ army' \in ArmyType /\ army'[s].status = "alive" /\ army'[s].facingRight = facing
        /\ army'[s].occupiedHex = place
        /\ \A t \in Stacks : t # s => army'[t] = army[t]
    BY <1>5, <2>3, <2>4, <2>5 DEF ArmyType
  <2> QED
    BY <2>6 DEF place
<1>16. Facing(army')
  BY <1>2, <1>4, <1>15 DEF Facing, facing
<1>17. ASSUME intact'
       PROVE  Sound(army', combatGrid')
  <2>1. /\ Uppermost(h) /\ Uppermost(other) /\ (s \in TwoHexers => facing = 1)
    BY <1>1, <1>17
  <2>2. CellsIn(army', s) = CellsIn(army, s)
    <3>1. CASE s \notin TwoHexers
      BY <1>15, <3>1 DEF CellsIn, Cells
    <3>2. CASE s \in TwoHexers
      <4>1. to = leftHex /\ leftHex \in Int
        BY <1>9, <2>1, <3>2 DEF Hex
      <4>2. CellsIn(army', s) = Cells(s, leftHex, 1)
        BY <1>15, <2>1, <3>2, <4>1 DEF CellsIn
      <4>3. Cells(s, leftHex, 1) = {leftHex, leftHex + 1}
        BY <3>2, <4>1, CellsShape
      <4> QED
        BY <1>8, <1>9, <3>2, <4>2, <4>3
    <3> QED
      BY <3>1, <3>2
  <2>3. ASSUME NEW c \in CellsIn(army, s)
        PROVE  /\ combatGrid'[c].occupant = s
               /\ combatGrid'[c].otherHexIsToLeft = MarkOf(s, CellsIn(army, s), c)
               /\ Len(combatGrid'[c].corpses) = Len(combatGrid[c].corpses) - 1
               /\ \A j \in 1 .. Len(combatGrid[c].corpses) - 1 :
                    combatGrid'[c].corpses[j] = combatGrid[c].corpses[j]
               /\ Len(combatGrid[c].corpses) > 0
               /\ combatGrid[c].corpses[Len(combatGrid[c].corpses)].stack = s
    <3> DEFINE n == Len(combatGrid[c].corpses)
    <3>1. c \in {h, other} /\ c \in Hex
      BY <1>3, <1>8, <1>9
    <3>2. n > 0 /\ combatGrid[c].corpses[n].stack = s /\ n \in Nat /\ n \in 1..n
      BY <1>11, <2>1, <3>1 DEF Uppermost, Lightened
    <3>3. \A j \in 1 .. n - 1 : combatGrid[c].corpses[j].stack # s
      <4>1. Pile(army, combatGrid, c)
        BY <1>2, <3>1 DEF Sound, Piled
      <4>2. \A j \in 1..n : combatGrid[c].corpses[j].stack = combatGrid[c].corpses[n].stack => j = n
        BY <3>2, <4>1 DEF Pile
      <4> QED
        BY <3>2, <4>2
    <3>4. /\ combatGrid'[c].occupant = s
          /\ Len(combatGrid'[c].corpses) = n - 1
          /\ \A j \in 1 .. n - 1 : combatGrid'[c].corpses[j] = combatGrid[c].corpses[j]
          /\ raised[c].otherHexIsToLeft = -1
      <4>1. Lightened(combatGrid, c, s, raised[c])
        BY <1>11, <3>1
      <4>2. /\ combatGrid'[c].occupant = raised[c].occupant
            /\ combatGrid'[c].corpses = raised[c].corpses
        BY <1>13, <3>1
      <4> QED
        BY <3>2, <3>3, <4>1, <4>2 DEF Lightened
    <3>5. combatGrid'[c].otherHexIsToLeft = MarkOf(s, CellsIn(army, s), c)
      <4>1. CASE s \notin TwoHexers
        BY <1>13, <3>4, <4>1 DEF MarkOf
      <4>2. CASE s \in TwoHexers
        <5>1. CellsIn(army, s) = {leftHex, rightHex} /\ leftHex + 1 = rightHex
          BY <1>8, <1>9, <4>2
        <5>2. /\ combatGrid'[leftHex].otherHexIsToLeft = 0
              /\ combatGrid'[rightHex].otherHexIsToLeft = 1
          BY <1>13, <2>1, <4>2
        <5>3. leftHex \in Int /\ rightHex \in Int
          BY <1>9 DEF Hex
        <5>4. CASE c = leftHex
          BY <4>2, <5>1, <5>2, <5>3, <5>4 DEF MarkOf
        <5>5. CASE c = rightHex
          BY <4>2, <5>1, <5>2, <5>3, <5>5 DEF MarkOf
        <5> QED
          BY <5>1, <5>4, <5>5
      <4> QED
        BY <4>1, <4>2
    <3> QED
      BY <3>2, <3>4, <3>5
  <2>4. Risen(army, army', combatGrid, combatGrid', s)
    BY <1>8, <1>12, <1>13, <1>15, <2>2, <2>3 DEF Risen
  <2>5. \A c \in CellsIn(army, s) : combatGrid[c].occupant = NoStack
    BY <1>1, <1>8, <1>9 DEF Occupant
  <2> QED
    BY <1>2, <1>5, <1>6, <2>4, <2>5, RisingIsSound
<1>18. active' \in Stacks /\ intact' \in BOOLEAN
  BY <1>1, <1>2
<1> QED
  BY <1>13, <1>14, <1>15, <1>16, <1>17, <1>18, Conclude
-----------------------------------------------------------------------------
(* The start *)

LEMMA InitInv ==
  ASSUME Init
  PROVE  Inv
<1> DEFINE Stack == [occupiedHex : Hex, facingRight : {0, 1},
                     status : {"absent", "alive", "dead"}]
           Mark == {-1, 0, 1}
           Body == [stack : Stacks, otherHexIsToLeft : Mark]
           Cell == [occupant : Stacks \cup {NoStack}, otherHexIsToLeft : Mark,
                    corpses : Seq(Body)]
           set(s) == [occupiedHex |-> IF s \in Elementals THEN 0 ELSE Start[s],
                      facingRight |-> 1 - Side[s],
                      status |-> IF s \in Elementals THEN "absent" ELSE "alive"]
           bare == [occupant |-> NoStack, otherHexIsToLeft |-> -1, corpses |-> <<>>]
           empty == [h \in Hex |-> bare]
           cells(s) == Cells(s, Start[s], 1 - Side[s])
           here(h) == {s \in Stacks \ Elementals : h \in cells(s)}
           put(s) == Occupy(empty, s, Start[s], 1 - Side[s])
           cell(h) == IF here(h) = {} THEN empty[h]
                      ELSE put(CHOOSE s \in here(h) : TRUE)[h]
<1>1. /\ army = [s \in Stacks |-> set(s)]
      /\ combatGrid = [h \in Hex |-> cell(h)]
      /\ active \in Stacks /\ intact = TRUE
  BY DEF Init
<1>2. \A s \in Stacks : 1 - Side[s] \in {0, 1}
  BY StacksAssumption
<1>3. \A s \in Stacks \ Elementals :
        /\ Start[s] \in Field /\ Start[s] \in Hex /\ Start[s] \in Int
        /\ cells(s) \subseteq Field \ Blocked
        /\ cells(s) \subseteq Hex
        /\ \A t \in Stacks \ Elementals : t # s => cells(s) \cap cells(t) = {}
  BY StacksAssumption, StartAssumption DEF Field, Hex
<1>4. 0 \in Hex
  <2>1. /\ Columns \in Nat /\ Columns > 2 /\ Rows \in Nat /\ Rows > 0
    BY BoardAssumption
  <2>2. Columns * Rows > 0 /\ Columns * Rows \in Int
    BY <2>1
  <2> QED
    BY <2>2 DEF Hex
<1> HIDE DEF cells
<1>5. /\ army \in ArmyType
      /\ \A s \in Stacks : /\ army[s].facingRight = 1 - Side[s]
                           /\ s \in Elementals => army[s].status = "absent"
                           /\ s \notin Elementals => army[s].status = "alive"
                                                     /\ CellsIn(army, s) = cells(s)
  <2>1. \A s \in Stacks : set(s) \in Stack
    BY <1>2, <1>3, <1>4
  <2>2. army \in [Stacks -> Stack]
    BY <1>1, <2>1
  <2>3. \A s \in Stacks : army[s] = set(s)
    BY <1>1
  <2>4. \A s \in Stacks : s \notin Elementals => CellsIn(army, s) = cells(s)
    <3> SUFFICES ASSUME NEW s \in Stacks, s \notin Elementals
                 PROVE  CellsIn(army, s) = cells(s)
      OBVIOUS
    <3>1. army[s].occupiedHex = Start[s] /\ army[s].facingRight = 1 - Side[s]
      <4>1. army[s] = set(s)
        BY <2>3
      <4>2. s \notin Elementals
        OBVIOUS
      <4>3. set(s).occupiedHex = Start[s] /\ set(s).facingRight = 1 - Side[s]
        BY <4>2
      <4> QED
        BY <4>1, <4>3, Zenon
    <3> QED
      BY <3>1 DEF CellsIn, cells
  <2> QED
    BY <2>2, <2>3, <2>4 DEF ArmyType
<1>6. bare \in Cell /\ Len(bare.corpses) = 0
  <2>1. <<>> \in Seq(Body) /\ Len(<<>>) = 0
    OBVIOUS
  <2> HIDE DEF Body
  <2> QED
    BY <2>1
<1>7. empty \in GridType /\ \A h \in Hex : empty[h] = bare
  BY <1>6 DEF GridType
<1> HIDE DEF bare, empty, set, put
<1>8. ASSUME NEW s \in Stacks \ Elementals
      PROVE  Taken(empty, put(s), s, cells(s))
  BY <1>2, <1>3, <1>7, OccupyTakes DEF cells, put
<1>9. ASSUME NEW s \in Stacks \ Elementals, NEW h \in cells(s)
      PROVE  combatGrid[h] = put(s)[h]
  <2>1. h \in Hex
    BY <1>3
  <2>2. here(h) = {s}
    BY <1>3, <1>9
  <2>3. cell(h) = put(s)[h]
    BY <2>2
  <2> QED
    BY <1>1, <2>1, <2>3
<1>10. ASSUME NEW h \in Hex, here(h) = {}
       PROVE  combatGrid[h] = bare
  BY <1>1, <1>7, <1>10
<1>11. ASSUME NEW h \in Hex
       PROVE  /\ combatGrid[h] \in Cell
              /\ Len(combatGrid[h].corpses) = 0
              /\ combatGrid[h].occupant # NoStack =>
                   /\ combatGrid[h].occupant \in Stacks \ Elementals
                   /\ h \in cells(combatGrid[h].occupant)
  <2>1. CASE here(h) = {}
    <3>1. bare.occupant = NoStack
      BY DEF bare
    <3> QED
      BY <1>6, <1>10, <2>1, <3>1
  <2>2. CASE here(h) # {}
    <3>1. PICK s \in Stacks \ Elementals : h \in cells(s)
      BY <2>2
    <3>2. combatGrid[h] = put(s)[h] /\ Taken(empty, put(s), s, cells(s))
      BY <1>8, <1>9, <3>1
    <3>3. /\ put(s)[h] \in Cell
          /\ put(s)[h].occupant = s /\ put(s)[h].corpses = empty[h].corpses
      BY <3>1, <3>2 DEF Taken, GridType
    <3> QED
      BY <1>6, <1>7, <3>1, <3>2, <3>3
  <2> QED
    BY <2>1, <2>2
<1> HIDE DEF cell, here
<1>12. combatGrid \in GridType
  <2>1. combatGrid \in [Hex -> Cell]
    BY <1>1, <1>11
  <2> QED
    BY <2>1 DEF GridType
<1>13. Low(combatGrid)
  BY <1>11, BoardAssumption DEF Low
<1>14. Facing(army)
  BY <1>5 DEF Facing
<1>15. Sound(army, combatGrid)
  <2>1. ASSUME NEW s \in Stacks, army[s].status = "alive"
        PROVE  Alright(army, combatGrid, s)
    <3>1. s \in Stacks \ Elementals /\ CellsIn(army, s) = cells(s)
      BY <1>5, <2>1
    <3>2. ASSUME NEW h \in cells(s)
          PROVE  /\ h \in Field \ Blocked
                 /\ combatGrid[h].occupant = s
                 /\ combatGrid[h].otherHexIsToLeft = MarkOf(s, cells(s), h)
      <4>1. combatGrid[h] = put(s)[h] /\ Taken(empty, put(s), s, cells(s))
        BY <1>8, <1>9, <3>1
      <4>2. h \in cells(s) \cap Hex /\ h \in Field \ Blocked
        BY <1>3, <3>1
      <4> QED
        BY <4>1, <4>2 DEF Taken
    <3> QED
      BY <3>1, <3>2 DEF Alright
  <2>2. ASSUME NEW h \in Hex
        PROVE  Present(army, combatGrid, h)
    BY <1>5, <1>11 DEF Present
  <2>3. ASSUME NEW h \in Hex
        PROVE  Pile(army, combatGrid, h)
    <3>1. 1..Len(combatGrid[h].corpses) = {}
      BY <1>11
    <3> QED
      BY <3>1 DEF Pile
  <2> QED
    BY <2>1, <2>2, <2>3 DEF Sound, Standing, Peopled, Piled
<1> QED
  BY <1>1, <1>5, <1>12, <1>13, <1>14, <1>15 DEF Inv

LEMMA NextInv == Inv /\ [Next]_vars => Inv'
<1> SUFFICES ASSUME Inv, [Next]_vars
             PROVE  Inv'
  OBVIOUS
<1>1. CASE NextArmy
  BY <1>1, NextArmyStep
<1>2. ASSUME NEW dir \in 0..5, Walk(dir)
      PROVE  Inv'
  BY <1>2, WalkStep
<1>3. ASSUME NEW h \in Field, FlyTo(h) \/ ArcJump(h) \/ Resurrect(h)
      PROVE  Inv'
  BY <1>3, FlyToStep, ArcJumpStep, ResurrectStep
<1>4. ASSUME NEW dir \in Direction, DoAttack(dir)
      PROVE  Inv'
  BY <1>4, DoAttackStep
<1>5. ASSUME NEW t \in Stacks, SpecialAttack(t)
      PROVE  Inv'
  BY <1>5, SpecialAttackStep
<1>6. ASSUME NEW s \in Stacks, NEW h \in Field, Teleport(s, h) \/ SummonElemental(s, h)
      PROVE  Inv'
  BY <1>6, TeleportStep, SummonElementalStep
<1>7. CASE UNCHANGED vars
  BY <1>7 DEF Inv, vars
<1> QED
  BY <1>1, <1>2, <1>3, <1>4, <1>5, <1>6, <1>7 DEF Next

LEMMA SpecInv == Spec => []Inv
BY InitInv, NextInv, PTL DEF Spec
-----------------------------------------------------------------------------
(* The theorems *)

LEMMA InvGivesTypes == Inv => TypeOK
BY DEF Inv, TypeOK, ArmyType, GridType, Low

\* Every hex and every army record keeps its type, whatever drifts or rises:
\* in particular ProcessDeath never stacks more bodies on a hex than it keeps.
THEOREM BattlefieldIsTyped == Spec => []TypeOK
BY SpecInv, InvGivesTypes, PTL

LEMMA InvGivesAgreement == Inv => GridAgreesWithArmies
<1> SUFFICES ASSUME Inv, intact
             PROVE  /\ \A s \in Alive : \A h \in CellsOf(s) :
                         h \in Field \ Blocked /\ Occupant(h) = s
                    /\ \A h \in Hex : Occupant(h) # NoStack =>
                         Occupant(h) \in Alive /\ h \in CellsOf(Occupant(h))
  BY DEF GridAgreesWithArmies
<1>1. \A s : CellsOf(s) = CellsIn(army, s)
  BY DEF CellsOf, CellsIn
<1>2. \A s \in Alive : Alright(army, combatGrid, s)
  BY DEF Inv, Sound, Standing, Alive
<1>3. \A h \in Hex : /\ Present(army, combatGrid, h)
                     /\ combatGrid[h].occupant \in Stacks \cup {NoStack}
  BY DEF Inv, Sound, Peopled, GridType
<1> QED
  BY <1>1, <1>2, <1>3 DEF Alright, Present, Alive, Occupant

\* As long as no known defect has struck, the grid and the army records agree,
\* whatever turns, flights, jumps, deaths and spells came before.
THEOREM RecordsAgree == Spec => []GridAgreesWithArmies
BY SpecInv, InvGivesAgreement, PTL

LEMMA InvGivesMarks == Inv => MarksPointToOtherHex
<1>1. \A s : CellsOf(s) = CellsIn(army, s)
  BY DEF CellsOf, CellsIn
<1>2. ASSUME Inv, intact, NEW s \in Alive
      PROVE  Alright(army, combatGrid, s)
  BY <1>2 DEF Inv, Sound, Standing, Alive
<1> QED
  BY <1>1, <1>2 DEF MarksPointToOtherHex, Alright, MarkOf

\* The mark of an occupied hex leads to the other hex of its stack: Teleport
\* clears the right one.
THEOREM MarksAreRight == Spec => []MarksPointToOtherHex
BY SpecInv, InvGivesMarks, PTL

LEMMA InvGivesBodies == Inv => BodiesAreWhole
<1> SUFFICES ASSUME Inv, intact, NEW h \in Hex, NEW i \in 1..Len(combatGrid[h].corpses)
             PROVE  LET c == combatGrid[h].corpses[i]
                        lies(k, mark) == \E j \in 1..Len(combatGrid[k].corpses) :
                          combatGrid[k].corpses[j] = [stack |-> c.stack,
                                                      otherHexIsToLeft |-> mark]
                    IN
                    /\ army[c.stack].status = "dead"
                    /\ \A j \in 1..Len(combatGrid[h].corpses) :
                         combatGrid[h].corpses[j].stack = c.stack => j = i
                    /\ c.stack \notin TwoHexers <=> c.otherHexIsToLeft = -1
                    /\ c.otherHexIsToLeft = 0 => lies(h + 1, 1)
                    /\ c.otherHexIsToLeft = 1 => lies(h - 1, 0)
  BY DEF BodiesAreWhole
<1> DEFINE c == combatGrid[h].corpses[i]
           s == c.stack
           mark == c.otherHexIsToLeft
           cells == CellsIn(army, s)
<1>1. /\ s \in Stacks /\ combatGrid \in GridType /\ army \in ArmyType
      /\ Piled(army, combatGrid)
  BY BodiesAreTyped DEF Inv, Sound
<1>2. /\ Fallen(army, h, c)
      /\ \A k \in cells : Lies(combatGrid, k, s)
      /\ \A j \in 1..Len(combatGrid[h].corpses) : combatGrid[h].corpses[j].stack = s => j = i
  BY <1>1 DEF Piled, Pile
<1>3. /\ army[s].status = "dead" /\ h \in cells /\ cells \subseteq Hex
      /\ mark = MarkOf(s, cells, h) /\ h \in Int
  BY <1>2 DEF Fallen, Field, Hex
<1>4. /\ army[s].occupiedHex \in Int /\ army[s].facingRight \in {0, 1}
      /\ cells = Cells(s, army[s].occupiedHex, army[s].facingRight)
  BY <1>1 DEF ArmyType, Hex, CellsIn
<1>5. /\ cells = {h} \cup (IF mark = 1 THEN {h - 1} ELSE IF mark = 0 THEN {h + 1} ELSE {})
      /\ mark = -1 <=> s \notin TwoHexers
  <2> DEFINE o == army[s].occupiedHex
             f == army[s].facingRight
  <2>1. /\ o \in Int /\ f \in {0, 1} /\ h \in Cells(s, o, f)
        /\ mark = MarkOf(s, Cells(s, o, f), h) /\ cells = Cells(s, o, f)
    BY <1>3, <1>4
  <2> HIDE DEF o, f, cells, mark, s
  <2> QED
    BY <2>1, MarkLeadsToOther
\* The body lies on its other hex with the mark of that hex.
<1>6. ASSUME NEW k \in cells
      PROVE  \E j \in 1..Len(combatGrid[k].corpses) :
               combatGrid[k].corpses[j] = [stack |-> s,
                                           otherHexIsToLeft |-> MarkOf(s, cells, k)]
  <2>1. k \in Hex /\ Lies(combatGrid, k, s)
    BY <1>2, <1>3
  <2>2. PICK j \in 1..Len(combatGrid[k].corpses) : combatGrid[k].corpses[j].stack = s
    BY <2>1 DEF Lies
  <2>3. /\ Fallen(army, k, combatGrid[k].corpses[j])
        /\ combatGrid[k].corpses[j] \in [stack : Stacks, otherHexIsToLeft : {-1, 0, 1}]
    BY <1>1, <2>1, BodiesAreTyped DEF Piled, Pile
  <2>4. combatGrid[k].corpses[j].otherHexIsToLeft = MarkOf(s, cells, k)
    BY <2>2, <2>3 DEF Fallen
  <2> HIDE DEF s, cells
  <2> QED
    BY <2>2, <2>3, <2>4
<1>7. mark = 0 => h + 1 \in cells /\ MarkOf(s, cells, h + 1) = 1
  BY <1>3, <1>5 DEF MarkOf
<1>8. mark = 1 => h - 1 \in cells /\ MarkOf(s, cells, h - 1) = 0
  BY <1>3, <1>5 DEF MarkOf
<1> HIDE DEF cells
<1>9. mark = 0 => \E j \in 1..Len(combatGrid[h + 1].corpses) :
                    combatGrid[h + 1].corpses[j] = [stack |-> s, otherHexIsToLeft |-> 1]
  BY <1>6, <1>7
<1>10. mark = 1 => \E j \in 1..Len(combatGrid[h - 1].corpses) :
                     combatGrid[h - 1].corpses[j] = [stack |-> s, otherHexIsToLeft |-> 0]
  BY <1>6, <1>8
<1> QED
  BY <1>2, <1>3, <1>5, <1>9, <1>10

\* Bodies are those of dead stacks, each lies on a hex once, and that of a
\* two-hexer lies on both of its hexes with marks that lead to each other, so
\* that Resurrect can raise it whole.
THEOREM BodiesLieWhole == Spec => []BodiesAreWhole
BY SpecInv, InvGivesBodies, PTL

LEMMA InvGivesFacing == Inv => FacesTheEnemy
BY DEF Inv, Facing, FacesTheEnemy, Alive

\* A stack that does not jump faces the enemy's side between actions, defects
\* or not: whoever turned for a step, a flight, a blow or a shot has turned
\* back, if it lives.
THEOREM AllFaceTheEnemy == Spec => []FacesTheEnemy
BY SpecInv, InvGivesFacing, PTL
=============================================================================
