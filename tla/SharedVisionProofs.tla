------------------------- MODULE SharedVisionProofs -------------------------
(***************************************************************************)
(* One pass of PropagateVision and one level of SetVisibility keep every   *)
(* ally informed as long as sharing is transitive, proved for any number   *)
(* of players, any map and any agreements; and sharing or not, nobody      *)
(* learns by an agreement what nobody in its chains of allies has seen.    *)
(*                                                                         *)
(* PropagateVision is a loop.  What holds after its last turn is proved by *)
(* induction over the turns, for the function `after' that records them.   *)
(***************************************************************************)
EXTENDS SharedVision, NaturalsInduction, WellFoundedInduction, TLAPS

-----------------------------------------------------------------------------
(* Induction over sets of numbers *)

LEMMA LeastNumber ==
  ASSUME NEW T \in SUBSET Nat, T # {}
  PROVE  \E i \in T : \A j \in T : i <= j
<1> DEFINE R == {p \in Nat \X Nat : p[1] < p[2]}
<1>1. IsWellFoundedOn(R, Nat)
  BY NatLessThanWellFounded DEF OpToRel
<1> HIDE DEF R
<1>2. PICK i \in T : \A j \in T : ~(<<j, i>> \in R)
  BY <1>1, WFMin
<1>3. ASSUME NEW j \in T PROVE i <= j
  <2>1. j < i => <<j, i>> \in R
    BY DEF R
  <2> QED
    BY <1>2, <2>1
<1> QED
  BY <1>3

\* A set of numbers that has 0, and with each number below n the next one,
\* has all numbers up to n.
LEMMA UpTo ==
  ASSUME NEW T, NEW n \in Nat, 0 \in T,
         \A k \in 0 .. n - 1 : k \in T => k + 1 \in T
  PROVE  \A k \in 0 .. n : k \in T
<1> DEFINE S == {k \in 0 .. n : k \notin T}
<1> SUFFICES ASSUME S # {}
             PROVE  FALSE
  OBVIOUS
<1>0. S \in SUBSET Nat
  OBVIOUS
<1> HIDE DEF S
<1>1. PICK i \in S : \A j \in S : i <= j
  BY <1>0, LeastNumber
<1>2. i \in 0 .. n /\ i \notin T /\ i # 0 /\ i - 1 \in 0 .. n - 1
  BY <1>1 DEF S
<1>3. i - 1 \in T
  <2>1. i - 1 \notin S
    BY <1>1, <1>2
  <2> QED
    BY <1>2, <2>1 DEF S
<1>4. (i - 1) + 1 \in T
  BY <1>2, <1>3
<1> QED
  BY <1>1, <1>2, <1>4
-----------------------------------------------------------------------------
(* PropagateVision *)

\* `after' records the first n turns of the loop.
Turns(after, n, share, seen) ==
  after = [k \in 0 .. n |-> IF k = 0 THEN seen ELSE PassOn(share, after[k - 1], k - 1)]

LEMMA TurnsExist ==
  ASSUME NEW share, NEW seen, NEW n \in Nat
  PROVE  \E after : Turns(after, n, share, seen)
<1> DEFINE T == {k \in 0 .. n : \E after : Turns(after, k, share, seen)}
<1>1. 0 \in T
  <2>1. Turns([k \in 0 .. 0 |-> seen], 0, share, seen)
    BY DEF Turns
  <2> QED
    BY <2>1
<1>2. ASSUME NEW k \in 0 .. n - 1, k \in T PROVE k + 1 \in T
  <2>1. PICK f : Turns(f, k, share, seen)
    BY <1>2
  <2> DEFINE g == [j \in 0 .. k + 1 |->
                     IF j = k + 1 THEN PassOn(share, f[k], k) ELSE f[j]]
  <2>2. \A j \in 0 .. k : f[j] = IF j = 0 THEN seen ELSE PassOn(share, f[j - 1], j - 1)
    BY <2>1 DEF Turns
  <2>3. \A j \in 0 .. k + 1 :
          g[j] = IF j = 0 THEN seen ELSE PassOn(share, g[j - 1], j - 1)
    BY <2>2
  <2>4. Turns(g, k + 1, share, seen)
    BY <2>3 DEF Turns
  <2> QED
    BY <2>4
<1> HIDE DEF T
<1>3. n \in T
  BY <1>1, <1>2, UpTo
<1> QED
  BY <1>3 DEF T

LEMMA PropagateVisionTurns ==
  ASSUME NEW share, NEW seen
  PROVE  \E after : /\ Turns(after, NumPlayers, share, seen)
                    /\ PropagateVision(share, seen) = after[NumPlayers]
<1> DEFINE after == CHOOSE f : f = [k \in 0 .. NumPlayers |->
                      IF k = 0 THEN seen ELSE PassOn(share, f[k - 1], k - 1)]
<1>1. \E f : f = [k \in 0 .. NumPlayers |->
                    IF k = 0 THEN seen ELSE PassOn(share, f[k - 1], k - 1)]
  <2>1. NumPlayers \in Nat
    BY MapAssumption
  <2>2. \E f : Turns(f, NumPlayers, share, seen)
    BY <2>1, TurnsExist
  <2> QED
    BY <2>2, Zenon DEF Turns
<1>2. Turns(after, NumPlayers, share, seen)
  BY <1>1 DEF Turns
<1>3. PropagateVision(share, seen) = after[NumPlayers]
  BY DEF PropagateVision
<1> QED
  BY <1>2, <1>3

\* One turn keeps the type, and after it those the player shares with have
\* seen what it has; those who were informed of another player stay so.
Linked(share, p, q) == p = q \/ share[p, q]
Follows(share) ==
  \A p, q, r \in Players : Linked(share, p, q) /\ Linked(share, q, r) => Linked(share, p, r)

LEMMA PassOnType ==
  ASSUME NEW share, NEW seen \in Seen, NEW p1 \in Players
  PROVE  PassOn(share, seen, p1) \in Seen
BY DEF PassOn, Seen

LEMMA PassOnInforms ==
  ASSUME NEW share, NEW seen \in Seen, NEW p1 \in Players, Follows(share),
         NEW p \in Players, NEW q \in Players, Linked(share, p, q),
         p = p1 \/ seen[p] \subseteq seen[q]
  PROVE  PassOn(share, seen, p1)[p] \subseteq PassOn(share, seen, p1)[q]
<1> DEFINE then == PassOn(share, seen, p1)
<1>1. \A i \in Players : then[i] = IF share[p1, i] THEN seen[i] \cup seen[p1] ELSE seen[i]
  BY DEF PassOn
<1>2. CASE p = p1
  BY <1>1, <1>2 DEF Linked
<1>3. CASE p # p1 /\ share[p1, p]
  <2>1. q = p1 \/ share[p1, q]
    BY <1>3 DEF Linked, Follows
  <2> QED
    BY <1>1, <1>3, <2>1
<1>4. CASE p # p1 /\ ~share[p1, p]
  BY <1>1, <1>4
<1> QED
  BY <1>2, <1>3, <1>4

\* The turns of the pass, from what was seen to what is seen after it.
Pass(after, share, seen) ==
  /\ after[0] = seen
  /\ after[NumPlayers] = PropagateVision(share, seen)
  /\ \A k \in 0 .. NumPlayers : after[k] \in Seen
  /\ \A k \in 0 .. NumPlayers - 1 : after[k + 1] = PassOn(share, after[k], k)

LEMMA ThePass ==
  ASSUME NEW share, NEW seen \in Seen
  PROVE  \E after : Pass(after, share, seen)
<1> SUFFICES ASSUME NEW after, Turns(after, NumPlayers, share, seen),
                    PropagateVision(share, seen) = after[NumPlayers]
             PROVE  Pass(after, share, seen)
  BY PropagateVisionTurns
<1>0. NumPlayers \in Nat
  BY MapAssumption
<1>1. after[0] = seen
  BY <1>0 DEF Turns
<1>2. ASSUME NEW k \in 0 .. NumPlayers - 1
      PROVE  after[k + 1] = PassOn(share, after[k], k)
  <2>1. k + 1 \in 0 .. NumPlayers /\ k + 1 # 0 /\ (k + 1) - 1 = k
    BY <1>0
  <2>2. after[k + 1] = PassOn(share, after[(k + 1) - 1], (k + 1) - 1)
    BY <2>1, Zenon DEF Turns
  <2> QED
    BY <2>1, <2>2
<1> DEFINE T == {k \in 0 .. NumPlayers : after[k] \in Seen}
<1>3. 0 \in T
  BY <1>0, <1>1
<1>4. ASSUME NEW k \in 0 .. NumPlayers - 1, k \in T PROVE k + 1 \in T
  <2>1. k \in Players /\ k + 1 \in 0 .. NumPlayers
    BY <1>0 DEF Players
  <2> QED
    BY <1>2, <1>4, <2>1, PassOnType
<1> HIDE DEF T
<1>5. \A k \in 0 .. NumPlayers : k \in T
  BY <1>0, <1>3, <1>4, UpTo
<1> QED
  BY <1>1, <1>2, <1>5 DEF T, Pass

LEMMA PropagateVisionType ==
  ASSUME NEW share, NEW seen \in Seen
  PROVE  PropagateVision(share, seen) \in Seen
<1>1. PICK after : Pass(after, share, seen)
  BY ThePass
<1>2. NumPlayers \in 0 .. NumPlayers
  BY MapAssumption
<1> QED
  BY <1>1, <1>2 DEF Pass

\* After one pass over a transitive relation everybody is informed.
LEMMA OnePassIsEnough ==
  ASSUME NEW share, NEW seen \in Seen, Follows(share),
         NEW p \in Players, NEW q \in Players, Linked(share, p, q)
  PROVE  PropagateVision(share, seen)[p] \subseteq PropagateVision(share, seen)[q]
<1>0. NumPlayers \in Nat
  BY MapAssumption
<1>1. PICK after : Pass(after, share, seen)
  BY ThePass
<1> DEFINE T == {k \in 0 .. NumPlayers : p < k => after[k][p] \subseteq after[k][q]}
<1>2. p \in 0 .. NumPlayers - 1
  BY DEF Players
<1>3. 0 \in T
  BY <1>0, <1>2
<1>4. ASSUME NEW k \in 0 .. NumPlayers - 1, k \in T PROVE k + 1 \in T
  <2>1. k \in Players /\ k \in 0 .. NumPlayers /\ k + 1 \in 0 .. NumPlayers
    BY <1>0 DEF Players
  <2>2. after[k] \in Seen /\ after[k + 1] = PassOn(share, after[k], k)
    BY <1>1, <2>1 DEF Pass
  <2>3. ASSUME p < k + 1 PROVE p = k \/ after[k][p] \subseteq after[k][q]
    BY <1>2, <1>4, <2>1, <2>3
  <2>4. ASSUME p < k + 1 PROVE after[k + 1][p] \subseteq after[k + 1][q]
    BY <2>1, <2>2, <2>3, <2>4, PassOnInforms
  <2> QED
    BY <2>1, <2>4
<1> HIDE DEF T
<1>5. NumPlayers \in T
  BY <1>0, <1>3, <1>4, UpTo
<1> QED
  BY <1>0, <1>1, <1>2, <1>5 DEF T, Pass
-----------------------------------------------------------------------------
(* The specification *)

LEMMA SetVisibilityType ==
  ASSUME TypeOK, NEW player, NEW sight \in Seen
  PROVE  SetVisibility(player, sight) \in Seen
BY DEF SetVisibility, TypeOK, Seen

\* Every player has a map of its own, of cells that exist.
THEOREM VisionIsTyped == Spec => []TypeOK
<1>1. Init => TypeOK
  BY DEF Init, TypeOK, Seen, NobodyShares
<1>2. TypeOK /\ [Next]_vars => TypeOK'
  <2> SUFFICES ASSUME TypeOK, [Next]_vars
               PROVE  TypeOK'
    OBVIOUS
  <2>1. ASSUME NEW p \in Players, NEW place \in Places, Explore(p, place)
        PROVE  TypeOK'
    <3>1. [i \in Players |-> Sight(place, i)] \in Seen
      BY DEF Sight, Seen
    <3> QED
      BY <2>1, <3>1, SetVisibilityType DEF Explore, TypeOK
  <2>2. ASSUME NEW p \in Players, MakeAllWaterVisible(p)
        PROVE  TypeOK'
    <3>1. [i \in Players |-> Water] \in Seen
      BY MapAssumption DEF Seen
    <3> QED
      BY <2>2, <3>1, SetVisibilityType DEF MakeAllWaterVisible, TypeOK
  <2>3. ASSUME NEW p \in Players, NEW q \in Players, ShareVision(p, q)
        PROVE  TypeOK'
    BY <2>3, PropagateVisionType DEF ShareVision, TypeOK
  <2>4. ASSUME NEW p \in Players, NEW q \in Players, CancelShareVision(p, q)
        PROVE  TypeOK'
    BY <2>4 DEF CancelShareVision, TypeOK
  <2>5. CASE NewMap
    BY <2>5 DEF NewMap, TypeOK, Seen, NobodyShares
  <2>6. CASE LoadGame
    BY <2>6, MapAssumption DEF LoadGame, TypeOK, NobodyShares
  <2>7. CASE LoadOriginal
    BY <2>7, MapAssumption DEF LoadOriginal, TypeOK
  <2>8. CASE UNCHANGED vars
    BY <2>8 DEF vars, TypeOK
  <2> QED
    BY <2>1, <2>2, <2>3, <2>4, <2>5, <2>6, <2>7, <2>8 DEF Next
<1> QED
  BY <1>1, <1>2, PTL DEF Spec

LEMMA TransitiveFollows == Transitive => Follows(sharePlayerVision)
BY DEF Transitive, Follows, Linked, Shares

\* What a player finds leaves no ally behind.
LEMMA SetVisibilityInforms ==
  ASSUME TypeOK, Transitive, Agreed, NEW player \in Players, NEW sight \in Seen,
         \A i, j \in Players :
           (i \in gbHumanPlayer <=> j \in gbHumanPlayer) => sight[i] = sight[j],
         mapRevealed' = SetVisibility(player, sight),
         UNCHANGED <<sharePlayerVision, gbHumanPlayer>>
  PROVE  Agreed'
<1> SUFFICES ASSUME NEW p \in Players, NEW q \in Players, Shares(p, q),
                    p \in gbHumanPlayer <=> q \in gbHumanPlayer
             PROVE  mapRevealed'[p] \subseteq mapRevealed'[q]
  BY DEF Agreed, Shares
<1>1. mapRevealed[p] \subseteq mapRevealed[q] /\ sight[p] = sight[q]
  BY DEF Agreed
<1>2. \A i \in Players :
        mapRevealed'[i] = IF i \in {player} \cup Allies(player)
                          THEN mapRevealed[i] \cup sight[i] ELSE mapRevealed[i]
  BY DEF SetVisibility
<1>3. p \in {player} \cup Allies(player) => q \in {player} \cup Allies(player)
  BY TransitiveFollows DEF Follows, Linked, Shares, Allies
<1> QED
  BY <1>1, <1>2, <1>3

\* One level of sharing and one pass are enough as long as sharing is
\* transitive: no agreement and no move leaves an ally behind.
THEOREM AlliesKeepUp == Spec => SharingKeepsUp
<1>1. ASSUME TypeOK, NEW p \in Players, NEW q \in Players, ShareVision(p, q), Transitive'
      PROVE  Agreed'
  <2>1. Follows(sharePlayerVision')
    <3>1. (Transitive => Follows(sharePlayerVision))'
      BY TransitiveFollows, PTL
    <3> QED
      BY <1>1, <3>1 DEF Follows, Linked
  <2>2. mapRevealed \in Seen
    BY <1>1 DEF TypeOK
  <2> SUFFICES ASSUME NEW i \in Players, NEW j \in Players, Shares(i, j)'
               PROVE  mapRevealed'[i] \subseteq mapRevealed'[j]
    BY DEF Agreed
  <2>3. Linked(sharePlayerVision', i, j)
    BY DEF Shares, Linked
  <2> QED
    BY <1>1, <2>1, <2>2, <2>3, OnePassIsEnough DEF ShareVision
<1>2. ASSUME TypeOK, Agreed, Transitive', NEW p \in Players, NEW place \in Places,
             Explore(p, place)
      PROVE  Agreed'
  <2> DEFINE sight == [i \in Players |-> Sight(place, i)]
  <2>1. Transitive
    BY <1>2 DEF Explore, Transitive, Shares
  <2>2. sight \in Seen
    BY DEF Sight, Seen
  <2>3. \A i, j \in Players :
          (i \in gbHumanPlayer <=> j \in gbHumanPlayer) => sight[i] = sight[j]
    <3>1. \A i, j \in Players :
            (i \in gbHumanPlayer <=> j \in gbHumanPlayer) =>
              (i \in gbHumanPlayer) = (j \in gbHumanPlayer)
      OBVIOUS
    <3> QED
      BY <3>1, Zenon DEF Sight
  <2> QED
    BY <1>2, <2>1, <2>2, <2>3, SetVisibilityInforms DEF Explore
<1>3. ASSUME TypeOK, Agreed, Transitive', NEW p \in Players, MakeAllWaterVisible(p)
      PROVE  Agreed'
  <2> DEFINE sight == [i \in Players |-> Water]
  <2>1. Transitive
    BY <1>3 DEF MakeAllWaterVisible, Transitive, Shares
  <2>2. sight \in Seen /\ \A i, j \in Players : sight[i] = sight[j]
    BY MapAssumption DEF Seen
  <2> QED
    BY <1>3, <2>1, <2>2, SetVisibilityInforms DEF MakeAllWaterVisible
<1>4. ASSUME TypeOK, Agreed, NEW p \in Players, NEW q \in Players, CancelShareVision(p, q)
      PROVE  Agreed'
  <2>1. \A i, j \in Players : Shares(i, j)' => Shares(i, j)
    BY <1>4 DEF CancelShareVision, Shares, TypeOK
  <2> QED
    BY <1>4, <2>1 DEF CancelShareVision, Agreed
<1>5. ASSUME sharePlayerVision' = NobodyShares
      PROVE  Agreed'
  BY <1>5 DEF NobodyShares, Agreed, Shares
<1>6. ASSUME Agreed, UNCHANGED vars
      PROVE  Agreed'
  BY <1>6 DEF vars, Agreed, Shares
<1>7. TypeOK /\ [Next]_vars =>
        [(\E p, q \in Players : ShareVision(p, q)) \/ (Agreed /\ ~LoadOriginal)
           => (Transitive' => Agreed')]_vars
  BY <1>1, <1>2, <1>3, <1>4, <1>5, <1>6 DEF Next, NewMap, LoadGame
<1> QED
  BY <1>7, VisionIsTyped, PTL DEF Spec, SharingKeepsUp
-----------------------------------------------------------------------------
(* Chains of agreements *)

\* Closed, for the agreements share.
Sealed(share, group) == \A p, q \in Players : share[p, q] /\ q \in group => p \in group

\* In a turn nobody loses anything, a player gives all it has to each it
\* shares with, and what a closed group has came from the group.
LEMMA PassOnReaches ==
  ASSUME NEW share, NEW seen \in Seen, NEW p1 \in Players
  PROVE  /\ \A q \in Players : seen[q] \subseteq PassOn(share, seen, p1)[q]
         /\ \A q \in Players : Linked(share, p1, q) => seen[p1] \subseteq PassOn(share, seen, p1)[q]
<1>1. \A i \in Players : PassOn(share, seen, p1)[i] =
                           IF share[p1, i] THEN seen[i] \cup seen[p1] ELSE seen[i]
  BY DEF PassOn
<1> QED
  BY <1>1 DEF Linked

LEMMA PassOnStaysInside ==
  ASSUME NEW share, NEW seen \in Seen, NEW p1 \in Players, NEW group \in SUBSET Players,
         Sealed(share, group), NEW all, \A r \in group : seen[r] \subseteq all
  PROVE  \A r \in group : PassOn(share, seen, p1)[r] \subseteq all
<1> SUFFICES ASSUME NEW r \in group
             PROVE  PassOn(share, seen, p1)[r] \subseteq all
  OBVIOUS
<1>1. r \in Players
  OBVIOUS
<1>2. PassOn(share, seen, p1)[r] = seen[r] \/ p1 \in group
  BY <1>1 DEF PassOn, Sealed
<1>3. \/ PassOn(share, seen, p1)[r] = seen[r]
      \/ PassOn(share, seen, p1)[r] = seen[r] \cup seen[p1]
  BY <1>1 DEF PassOn
<1> QED
  BY <1>2, <1>3

\* The whole pass: who shares is heard, and a closed group hears itself only.
LEMMA PassReachesPartners ==
  ASSUME NEW share, NEW seen \in Seen, NEW p \in Players, NEW q \in Players, Linked(share, p, q)
  PROVE  seen[p] \subseteq PropagateVision(share, seen)[q]
<1>0. NumPlayers \in Nat
  BY MapAssumption
<1>1. PICK after : Pass(after, share, seen)
  BY ThePass
<1> DEFINE T == {k \in 0 .. NumPlayers : /\ seen[p] \subseteq after[k][p]
                                         /\ p < k => seen[p] \subseteq after[k][q]}
<1>2. p \in 0 .. NumPlayers - 1
  BY DEF Players
<1>3. 0 \in T
  BY <1>0, <1>1, <1>2 DEF Pass
<1>4. ASSUME NEW k \in 0 .. NumPlayers - 1, k \in T PROVE k + 1 \in T
  <2>1. k \in Players /\ k \in 0 .. NumPlayers /\ k + 1 \in 0 .. NumPlayers
    BY <1>0 DEF Players
  <2>2. after[k] \in Seen /\ after[k + 1] = PassOn(share, after[k], k)
    BY <1>1, <2>1 DEF Pass
  <2>3. /\ after[k][p] \subseteq after[k + 1][p]
        /\ after[k][q] \subseteq after[k + 1][q]
        /\ Linked(share, k, q) => after[k][k] \subseteq after[k + 1][q]
    BY <2>1, <2>2, PassOnReaches
  <2>4. seen[p] \subseteq after[k][p] /\ (p < k => seen[p] \subseteq after[k][q])
    BY <1>4
  <2>5. p < k + 1 => p < k \/ p = k
    BY <1>2, <2>1
  <2>6. p = k => seen[p] \subseteq after[k + 1][q]
    BY <2>3, <2>4
  <2> QED
    BY <2>1, <2>3, <2>4, <2>5, <2>6
<1> HIDE DEF T
<1>5. NumPlayers \in T
  BY <1>0, <1>3, <1>4, UpTo
<1> QED
  BY <1>0, <1>1, <1>2, <1>5 DEF T, Pass

LEMMA PassStaysInside ==
  ASSUME NEW share, NEW seen \in Seen, NEW group \in SUBSET Players,
         Sealed(share, group), NEW r \in group
  PROVE  PropagateVision(share, seen)[r] \subseteq UNION {seen[s] : s \in group}
<1>0. NumPlayers \in Nat
  BY MapAssumption
<1>1. PICK after : Pass(after, share, seen)
  BY ThePass
<1> DEFINE all == UNION {seen[s] : s \in group}
           T == {k \in 0 .. NumPlayers : \A i \in group : after[k][i] \subseteq all}
<1>2. 0 \in T
  BY <1>0, <1>1 DEF Pass
<1> HIDE DEF all
<1>3. ASSUME NEW k \in 0 .. NumPlayers - 1, k \in T PROVE k + 1 \in T
  <2>1. k \in Players /\ k \in 0 .. NumPlayers /\ k + 1 \in 0 .. NumPlayers
    BY <1>0 DEF Players
  <2>2. after[k] \in Seen /\ after[k + 1] = PassOn(share, after[k], k)
    BY <1>1, <2>1 DEF Pass
  <2>3. \A i \in group : after[k][i] \subseteq all
    BY <1>3
  <2>4. \A i \in group : after[k + 1][i] \subseteq all
    BY <2>1, <2>2, <2>3, PassOnStaysInside
  <2> QED
    BY <2>1, <2>4
<1> HIDE DEF T
<1>4. NumPlayers \in T
  BY <1>0, <1>2, <1>3, UpTo
<1> QED
  BY <1>1, <1>4 DEF T, Pass, all

\* A new agreement is heard of at once, and a group with whom nobody outside
\* it shares learns nothing that none of it has seen.
THEOREM AgreementsFollowChains == Spec => SharingFollowsChains
<1>1. ASSUME TypeOK, NEW p \in Players, NEW q \in Players, ShareVision(p, q)
      PROVE  /\ mapRevealed[p] \subseteq mapRevealed'[q]
             /\ \A group \in SUBSET Players : Closed(group)' =>
                  \A r \in group :
                    mapRevealed'[r] \subseteq UNION {mapRevealed[s] : s \in group}
  <2>1. /\ mapRevealed \in Seen
        /\ mapRevealed' = PropagateVision(sharePlayerVision', mapRevealed)
    BY <1>1 DEF TypeOK, ShareVision
  <2>2. Linked(sharePlayerVision', p, q)
    BY <1>1 DEF TypeOK, ShareVision, Linked
  <2>3. mapRevealed[p] \subseteq mapRevealed'[q]
    BY <2>1, <2>2, PassReachesPartners
  <2>4. ASSUME NEW group \in SUBSET Players, Closed(group)', NEW r \in group
        PROVE  mapRevealed'[r] \subseteq UNION {mapRevealed[s] : s \in group}
    <3>1. Sealed(sharePlayerVision', group)
      BY <2>4 DEF Closed, Sealed
    <3> QED
      BY <2>1, <3>1, PassStaysInside
  <2> QED
    BY <2>3, <2>4
<1>2. TypeOK =>
        [\A p, q \in Players : ShareVision(p, q) =>
           /\ mapRevealed[p] \subseteq mapRevealed'[q]
           /\ \A group \in SUBSET Players : Closed(group)' =>
                \A r \in group :
                  mapRevealed'[r] \subseteq UNION {mapRevealed[s] : s \in group}]_vars
  BY <1>1
<1> QED
  BY <1>2, VisionIsTyped, PTL DEF SharingFollowsChains
=============================================================================
