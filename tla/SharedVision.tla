---------------------------- MODULE SharedVision ----------------------------
(***************************************************************************)
(* What each player has seen of the map, and how scripts share it:         *)
(* ShareVision and PropagateVision, SetVisibility and MakeAllWaterVisible  *)
(* of cpp/shared/adventure/adv.cpp, with the new maps and loads that clear *)
(* what is shared.                                                         *)
(*                                                                         *)
(* Exploring shares one level deep, and PropagateVision is a single pass   *)
(* over the players in their order.  Neither follows chains of allies, so  *)
(* what an ally sees depends on the whole history of moves and agreements. *)
(***************************************************************************)
EXTENDS Integers

CONSTANTS
  NumPlayers, \* NUM_PLAYERS
  Cells,      \* the cells of the map
  Water,      \* those of them that are water
  Places,     \* where heroes and towns see from, and with which skill
  Around,     \* [Places \X BOOLEAN -> SUBSET Int] the positions in reach of
              \* a human or a computer player there, also beyond the map
  SaveFiles   \* what the players have seen in the games saved before

Players == 0 .. NumPlayers - 1
Seen == [Players -> SUBSET Cells]

ASSUME MapAssumption ==
  /\ NumPlayers \in Nat
  /\ Cells \subseteq Int /\ Water \subseteq Cells
  /\ Around \in [Places \X BOOLEAN -> SUBSET Int]
  /\ SaveFiles \subseteq Seen

VARIABLES
  mapRevealed,        \* [Players -> SUBSET Cells], a bit per player and cell
  sharePlayerVision,  \* who shares (first) with whom (second)
  gbHumanPlayer       \* the players that are not played by the computer

vars == <<mapRevealed, sharePlayerVision, gbHumanPlayer>>

TypeOK ==
  /\ mapRevealed \in Seen
  /\ sharePlayerVision \in [Players \X Players -> BOOLEAN]
  /\ gbHumanPlayer \subseteq Players

-----------------------------------------------------------------------------
(* What is revealed *)

\* Planted bug: positions beyond the map are not sorted out.
UnclippedSight(place, player) == Around[place, (player \in gbHumanPlayer)]

\* SetVisibility_orig: a computer player sees further than a human one.
Sight(place, player) == Around[place, (player \in gbHumanPlayer)] \cap Cells

Allies(player) == {i \in Players : sharePlayerVision[player, i]}

\* Planted bug: the matrix is read the wrong way round.
AlliesReversed(player) == {i \in Players : sharePlayerVision[i, player]}
SetVisibilityReversed(player, sight) ==
  [i \in Players |-> IF i \in {player} \cup AlliesReversed(player)
                     THEN mapRevealed[i] \cup sight[i] ELSE mapRevealed[i]]

\* What a player finds is revealed to it and to whom it shares with, to each
\* as far as that player would see.  It is not passed on.
SetVisibility(player, sight) ==
  [i \in Players |-> IF i \in {player} \cup Allies(player)
                     THEN mapRevealed[i] \cup sight[i] ELSE mapRevealed[i]]

\* Planted bug: vision flows from those it is shared with.
TakeFrom(share, seen, p1) ==
  [p2 \in Players |-> IF share[p2, p1] THEN seen[p2] \cup seen[p1] ELSE seen[p2]]

\* The inner loops of PropagateVision: one player's cells, which they do not
\* change, are given to all it shares with.
PassOn(share, seen, p1) ==
  [p2 \in Players |-> IF share[p1, p2] THEN seen[p2] \cup seen[p1] ELSE seen[p2]]

\* The outer loop: after n turns the players below n have passed on theirs.
PropagateVision(share, seen) ==
  LET after[n \in 0 .. NumPlayers] ==
        IF n = 0 THEN seen ELSE PassOn(share, after[n - 1], n - 1)
  IN after[NumPlayers]

-----------------------------------------------------------------------------
(* Actions *)

NobodyShares == [pair \in Players \X Players |-> FALSE]

Init ==
  /\ mapRevealed = [p \in Players |-> {}]
  /\ sharePlayerVision = NobodyShares
  /\ gbHumanPlayer \in SUBSET Players

\* A hero moves, a town is taken, a spell or a script reveals a place.
Explore(player, place) ==
  /\ mapRevealed' = SetVisibility(player, [i \in Players |-> Sight(place, i)])
  /\ UNCHANGED <<sharePlayerVision, gbHumanPlayer>>

MakeAllWaterVisible(player) ==
  /\ mapRevealed' = SetVisibility(player, [i \in Players |-> Water])
  /\ UNCHANGED <<sharePlayerVision, gbHumanPlayer>>

\* Called by scripts, which may do so again at any time.
ShareVision(source, dest) ==
  /\ sharePlayerVision' = [sharePlayerVision EXCEPT ![<<source, dest>>] = TRUE]
  /\ mapRevealed' = PropagateVision(sharePlayerVision', mapRevealed)
  /\ UNCHANGED gbHumanPlayer

CancelShareVision(source, dest) ==
  /\ sharePlayerVision' = [sharePlayerVision EXCEPT ![<<source, dest>>] = FALSE]
  /\ UNCHANGED <<mapRevealed, gbHumanPlayer>>

NewMap ==
  /\ mapRevealed' = [p \in Players |-> {}]
  /\ sharePlayerVision' = NobodyShares
  /\ gbHumanPlayer' \in SUBSET Players

\* What is shared is not saved; the map's script may share it again.
LoadGame ==
  /\ mapRevealed' \in SaveFiles
  /\ sharePlayerVision' = NobodyShares
  /\ gbHumanPlayer' \in SUBSET Players

\* A game saved by the original program: LoadGame returns before
\* ResetIronfistGameState, and what was shared on the last map stays shared.
LoadOriginal ==
  /\ mapRevealed' \in SaveFiles
  /\ gbHumanPlayer' \in SUBSET Players
  /\ UNCHANGED sharePlayerVision

\* Sharing with oneself would reveal nothing and is left out.
Next ==
  \/ \E p \in Players : MakeAllWaterVisible(p) \/ \E place \in Places : Explore(p, place)
  \/ \E p, q \in Players : p # q /\ (ShareVision(p, q) \/ CancelShareVision(p, q))
  \/ NewMap \/ LoadGame \/ LoadOriginal

Spec == Init /\ [][Next]_vars
-----------------------------------------------------------------------------
(* Properties *)

Shares(p, q) == p = q \/ sharePlayerVision[p, q]
Transitive ==
  \A p, q, r \in Players : Shares(p, q) /\ Shares(q, r) => Shares(p, r)

\* Everybody sees what those see who share with them, except that what the
\* computer sees from afar is not passed on to a human.
Agreed ==
  \A p, q \in Players :
    Shares(p, q) /\ (p \in gbHumanPlayer <=> q \in gbHumanPlayer)
      => mapRevealed[p] \subseteq mapRevealed[q]

\* One level of sharing and one pass are enough wherever whoever is shared
\* with through others is shared with directly: then a new agreement brings
\* all players up to date, whoever of them was not (PropagateVision), and no
\* later move or cancellation leaves an ally behind (SetVisibility).
SharingKeepsUp ==
  [][(\E p, q \in Players : ShareVision(p, q)) \/ (Agreed /\ ~LoadOriginal)
       => (Transitive' => Agreed')]_vars

\* A group of players with whom nobody outside it shares.
Closed(group) ==
  \A p, q \in Players : sharePlayerVision[p, q] /\ q \in group => p \in group

\* A new agreement gives its partner at once what the other has seen, and no
\* player gets what nobody has seen who shares with it directly or through
\* others: those and the player are the least of the closed groups it is in.
SharingFollowsChains ==
  [][\A p, q \in Players : ShareVision(p, q) =>
       /\ mapRevealed[p] \subseteq mapRevealed'[q]
       /\ \A group \in SUBSET Players : Closed(group)' =>
            \A r \in group :
              mapRevealed'[r] \subseteq UNION {mapRevealed[s] : s \in group}]_vars
=============================================================================
