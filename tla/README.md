# A formal model of Ironfist

Ironfist extends *Heroes of Might and Magic II*. The original executable is
kept, decompiled once (`src/raw_decompiled/HEROES2W.c`), and functions of it are
replaced by C++ under `src/cpp/`. The replaced code inherits the conventions of
the old one: shared mutable records, positions kept in two places, global
handles, hand-written reference counts. This directory models the parts of the
game where such conventions have to hold over long sequences of calls, checks
them with TLC and proves some of them with TLAPS.

Paths below are relative to `src/src/`. `H2W` stands for
`raw_decompiled/HEROES2W.c`.

## 1. Inventory

The program is single threaded. What makes it hard is not threads but nesting
(a read polls the sound, the poll moves the mouse, the mouse loads a file), long
sequences of legal moves, and values written twice.

| Component | State | Operations | What must be right |
|---|---|---|---|
| **Resource cache and archive reader** `cpp/shared/resource/` | linked list of cached objects with reference counts; one current archive, one file handle each; a stack of saved positions | `Get*`, `AddResource`, `Dispose`, `RemoveResource`, `Expunge`, `PointToFile`, `Read*`, `SavePosition`, `RestorePosition` | every loader reads its own file; no file cached twice; counts equal holders; nobody holds a deleted object |
| **Spell effects** `cpp/shared/combat/army.cpp` | rounds left of each effect, attack, defense, speed, flags | `SetSpellInfluence`, `CancelIndividualSpell`, `CancelSpellType`, `DecrementSpellRounds`, `DispelGood`, cures, disrupting ray | statistics are the base plus each active bonus once; opposed effects exclude each other |
| **Battlefield** `cpp/shared/combat/army.cpp`, `combat_spells.cpp` | `army.occupiedHex`, `facingRight`; `combatGrid[h].armyOwner/stackIdx`, `otherHexIsToLeft`, the bodies | walk, fly, arc jump, attack and retaliation, shot, death, Teleport, Resurrect, Summon Elemental | grid and army records agree |
| **Attack and damage** `cpp/shared/combat/army.cpp`, `H2W` | quantities, wounds, `temporaryQty`, the flags `DEAD` and `RETALIATED`, ability counters, `gCloseMove`, `gMoveAttack` | `DoAttack`, `DamageEnemy`, `Damage`, `ProcessDeath`, feeding, `Cure`, `Resurrect`, `DoVictory`, `DoHydraAttack`, `ChargingDamage` | one answer a round; nothing is made or lost that no rule makes or loses; who is left goes home |
| **Combat rounds** `H2W`, `combat.cpp` | the active stack, who commands it, flags of turns lost, waiting, morale | `ProcessNextAction`, `GetNextArmy`, `ResetRound`, `CheckApplyGoodMorale`, AI choices | every living stack gets its turn and takes no more than it may |
| Scripting `scripting.cpp`, `callback.h` | one Lua state, map variables, its stack | `RunScript`, callbacks, load and save of variables | the Lua stack is balanced; one state per map |
| Save and load `game/save.cpp` | the XML image of the game | `WriteXML`, `ReadXML` | what is loaded is what was saved |
| **Shared vision** `adventure/adv.cpp`, `map.cpp` | what each player has seen, `sharePlayerVision` | `SetVisibility`, `MakeAllWaterVisible`, `ShareVision`, `CancelShareVision`, `PropagateVision`, resets and loads | allies see what is shared with them, in whatever order they move and agree |
| Music `sound/cd_music.cpp` | track playing, saved positions | `play`, `cleanup`, `reset` | a track goes on where it stopped |
| Towns `town/town.cpp` | buildings, mage guild | `SelectSpells`, building | the guild is filled, without duplicates |
| Heroes, game set-up | skills, artifacts, armies | sequential updates of tables | - |
| GUI, dialogs, start-up, preferences, analytics, expansions | - | input and output | - |
| Map editor | the map | a separate program | - |

Components call each other as follows. The GUI (windows, fonts, the mouse
manager) gets and disposes of resources; every read of a file calls `PollSound`,
which may come back to the mouse manager and so to the resource manager. The
combat manager calls army operations; spells call `SetSpellInfluence` on an army
and write the grid and army records directly; deaths and resurrections move
stacks between the grid and the bodies on its hexes. After every action
`ProcessNextAction` asks `GetNextArmy` for the next stack; it goes by flags that
attacks, spells and wounds leave on the army records. Scripts are called from game
events and call back into heroes, towns and the map. `PROJECT.json` lists every
component with its status.

`PROJECT.json` ("hazards") lists what is hard to test at the lines where it
bites. In short:

* *nesting*: reads inside reads over one shared file handle; gets inside
  constructors; destructors that dispose of other objects inside `Expunge`;
* *undo in place*: an effect is ended by subtracting its bonus, so each must be
  undone exactly once over refresh, replacement, dispel and expiry;
* *two copies*: where a stack stands is written in two records by every
  operation; marks of two-hex stacks and of bodies are a third copy;
* *stale state*: `gCloseMove` left by another stack's move, the global of the morale bonus, marks and flags that
  outlive their stack or their round;
* *order within an exchange of blows*: a blow wakes its target before the target is
  asked whether it can strike back; gains pass through a global of the side;
* *boundaries*: loops over 15 effects where there are 16, indices that are off
  by one, arrays with no bound check.

## 2. The modules

| Module | Role |
|---|---|
| `ResourceCache` | what the cache promises: the abstract specification |
| `ResourceManager` | the cache, the reader and the callers that nest; implements `ResourceCache` |
| `MCResourceManager` | the instance TLC checks: files, archives, symmetry |
| `ResourceManagerProofs` | five theorems about `ResourceManager`: what is read, cached and saved |
| `ResourceHoldersProofs` | three more: counts, holders, and the steps of the refinement of `ResourceCache` |
| `SpellEffects` | the effects on one stack |
| `SpellEffectsProofs` | five theorems about `SpellEffects` |
| `Battlefield` | where stacks stand, fall and rise |
| `MCBattlefield` | the instance TLC checks: stacks, start hexes |
| `BattlefieldProofs` | five theorems about `Battlefield` |
| `CombatRounds` | whose turn it is, who answers whom, and what spells do to both |
| `MCCombatRounds` | the instance TLC checks: a paladin and a cyclops, an archer or a panther |
| `CombatRoundsProofs` | six theorems about `CombatRounds` |
| `Casualties` | how many creatures a stack has, from the first blow to the victory |
| `MCCasualties` | the instance TLC checks: ghosts, vampire lords, trolls, assassins, elementals, the stack of Pandora's Box |
| `CasualtiesProofs` | eight theorems about `Casualties` |
| `SharedVision` | what the players have seen, and how scripts share it |
| `MCSharedVision` | the instance TLC checks: a strip of land and water |
| `SharedVisionProofs` | three theorems about `SharedVision` |

Definitions whose comment starts "Planted bug" are mutated forms of the
operator after them (or after the planted bugs that follow). They are not used by the specifications: they show that each
property can be broken (section 6).

### ResourceManager

`object` is the heap: each address is free or holds a resource with its file,
its count and, for a font, the address of its glyph icon. `cached` is
`firstLoadedResource` as a set. The order of the list matters only to `Expunge`,
which in the model visits the objects in any order; every order the program can
have is among them. `curHandleIdx`, `offset` and `saved` are the
reader's current archive, the place each handle stands at, and the arrays
`SavePosition` writes. `stack` is the call stack of unfinished loads, the part of
the C++ stack that matters here. `held` are the places of the program that keep a
resource (widgets and managers), `cursor` and `drawn` the mouse manager.

| Action | Code |
|---|---|
| `GetHit`, `GetMiss` | `GetIcon`, `GetFont`, ...: query, construct, add |
| `WidgetGetMiss` | the same from a widget's constructor: `SavePosition` before, `RestorePosition` after, while the window's layout is half read |
| `GlyphHit`, `GlyphMiss` | the `font` constructor gets its icon *without* saving the position |
| `OpenWindow`, `WindowRead` | `heroWindow` |
| `Read` | `ReadByte`, `ReadWord`, `ReadLong`, `ReadBlock` |
| `Loaded` | the constructor returns; `AddResource`; the caller takes the object and restores |
| `Release` | `Dispose` |
| `ChangeCursor`, `MouseReturns`, `MouseLeaves`, `PointerDrawn` | `mouseManager::SetPointer`, `SetColorMice`, from the message pump or from `PollSound` |
| `ShutDown`, `ExpungeOne`, `Close` | `ShutDownSystem`, `Expunge` |

Palettes, tilesets, samples, sequences and bitmaps go through the same code as
icons, with constructors that get nothing, and are icons here. A file's
contents are the number of reads its loader makes. `PollSound` is called in
`ReadBlock` only, and the model lets the mouse leave between any two reads, which
covers it.

### ResourceCache

The abstract specification knows no archive, address, count or read: `loaded` is the
set of resources in the cache, `users` who uses each (a slot, a font its glyph icon,
the cursor). A resource is loaded exactly while it has a user; giving up the last use of
a font gives up the font's use of its glyphs, in the same step; shutting down
forgets all users, and what is left is purged. `ImplementsCache` says that
`ResourceManager` is an implementation, with `loaded` the files of `cached` and `users`
read off `held`, the fonts' glyphs and the cursor. All of a load but its last
step, nested loads and polls included, is a stutter of the abstract cache, and no step
of the code shows a user a cache in between. The fairness of `Purge` maps to that of
`ExpungeOne`.

### SpellEffects

`stack` is the part of the `army` record that effects touch. `rayLoss` is a
history variable: disrupting rays lower defense for good and are no effect.
`Cast(e)` is `CastSpell` and the creatures' own spells for one effect; its guard is
`SpellCastWorks`. `SetSpellInfluence`, `CancelEach` (`CancelIndividualSpell` for
every effect of a set) and the actions below them have the source's names.
`PowEffect` borrows byte 15 of `effectStrengths` as an animation flag and leaves it
set, so that the next `DecrementSpellRounds` takes it for an effect: this is in the
model.
So is that Slow leaves a stack no speed at all: `SlowedSpeed` is `(v4 - v4) >> 1`
(`army.cpp:2020`), where the spell book promises half the rate (`spells.cpp:24`); the
decompiler merged two halves of a product.

### Battlefield

`army` has where a stack stands, which way it faces and whether it lives;
`combatGrid` has who is on a hex, where the other hex of that stack is, and the
pile of bodies. The geometry (`Neighbor`, two-hex stacks, borders) is that of the
source, over a board of any size. Paths are single steps between hexes that
`FindPath` accepts; any living stack may be the next to act, which covers every
turn order, morale and AI choice; damage is the choice of who dies of it.
`StartAssumption` says that the armies are set up on free hexes within the borders, each
stack on its own: `LoadArmies` (`H2W:63005`) puts the attackers in the first column and
the defenders in the last, each stack in a row of its own and a two-hex stack facing the
middle, and the obstacles are kept off these columns.

Five defects make the two records disagree. The model has them as
the code does. `intact` records that one struck; the invariants say
that nothing else makes the records disagree, and the model stops there.

1. `SpecialAttack` (`army.cpp:1482-1485`) turns a two-hex shooter back with
   `OccupyHexes` *before* it resets `facingRight`. `OccupyHexes` goes by
   `facingRight`, so the shooter moves two hexes in its record and none on the grid.
2. `Resurrect` (`combat_spells.cpp:67-80`) of a body that is not the uppermost of its
   pile leaves a dead stack as the occupant.
3. `Resurrect` (`combat_spells.cpp:100-101`) of a two-hexer of side 1 writes the two
   marks the wrong way round.
4. `SummonElemental` (`H2W:64770`) puts a one-hex stack on a hex and leaves the mark
   of an earlier two-hexer there.
5. `Teleport` (`combat_spells.cpp:329-343`) of a two-hexer whose front hex is the
   active stack's: `CanFit` lets it pass and the stack is put one hex further
   back, unseen.

An attack may kill up to four stacks: the one struck and, by a stack that strikes two
hexes deep, the one behind it (`SecondHexTarget`); the attacker and the one behind
*it* by the answer, whose direction `AnswerDirection` finds as `army.cpp:411-418` does. A
shot of a lich or a plasma blast may kill a whole area (`ShotAt`), which for plasma includes
the shooter, if it stands two hexes away: `army.cpp:1431-1447` asks only
whether the stack is the target. Nobody shoots who has one of that side next to it (`Beset`).
`FlyTo` asks `CanFit` without its shift (`H2W:13203`): the place to which `ValidFlight` shifts a
flyer by one hex is one that `FlyTo` reaches with another `h`, or `Walk` where it overlaps the old one.

Not in it: hydras, which strike all around them without turning and are not answered; the
drawbridge and the moat; mirror images.

### CombatRounds

`stack` has the flags and effects of the army records that turns and answers depend
on, `active` and `currentActionSide` whose turn it is and who commands it (a hypnotized
stack is commanded by the enemy), `bInHighMoraleBonus`, `gCloseMove` and `hasCast` are
the globals of the source, `here` is who has met, and `engaged` says that somebody has
moved, before which nobody can attack from where it stands. Quantities are alive or dead, damage is the choice of who dies. `found` and
`history` are history variables.

| Action | Code |
|---|---|
| `Strike`, `Shoot`, `Move` | actions 2 and 6 of `ProcessNextAction`: `MoveAttack`, with `DoAttack` (blow, answer, second strike, a cyclops' paralysis) or `SpecialAttack` |
| `Skip`, `Wait` | actions 3 and 7 |
| `CastEffect`, `CastDamage`, `CastDispel`, `CastResurrect` | action 1, once a round for each side; the turn goes on if the active stack survives |
| `EndTurn`, `NextTurn` | what follows each: `CheckWin`, `CheckApplyGoodMorale`, `GetNextArmy`, and if it finds nobody `ResetRound` and `GetNextArmy` again |
| `BattleOver` | nothing more happens once `CheckWin` is true |

`GetNextArmy` is a function from army records to the set of what may come of it,
because each stack of bad morale may panic as it is passed. What the model found of the
code, and has as the code does:

* The second answer of `GetNextArmy` is not looked at (`H2W:38913-38919`). If a new round
  begins in which nobody may act, the last stack stays active, disabled or dead as it
  may be; `ActiveMayAct` is about the turns that were found.
* A hypnotized stack can be disabled by its own side in its turn, and then acts for its
  commander disabled; `ActiveMayAct` is about stacks that their own side commands.
* `bInHighMoraleBonus` is one flag for all. A bonus turn that ends without an attack or
  a move (skipped, or the stack paralyzed before it) leaves it set, and costs the next
  stack its roll. Other turns in between clear it, so a stack may have more than two
  turns in a round, but never three in a row (`MoraleGivesOneTurnAtATime`).
* A blow takes paralysis off its target (`Damage`, `CancelSpellType`) before `DoAttack`
  asks whether the target is paralyzed (`army.cpp:399-403`). What keeps the woken from
  striking back is `RETALIATED`, which `CancelSpellType` sets for it
  (`WokenDoNotRetaliate`). Griffins ignore that flag, and so a paralyzed griffin does
  strike back.
* An attack without a move leaves `gCloseMove` as it was (section 4).

Not in it: berserkers, jumps, harpies (which fly back after an attack), towers and
catapult, retreat and surrender (they end the battle), the hydra, and the abilities of
medusas, unicorns and mummies, which set effects by other dice.

### Casualties

`stack` has `quantity`, `damage` (the wound of the first creature), `temporaryQty`,
`DEAD`, `RETALIATED` and the dodge counter of each army record; `armies` is what
`armyGroup.quantities` holds for it outside of the battle; `lost` and `intact` are history
variables. Who acts when is left to `CombatRounds`: anyone alive may attack anyone, which
berserk and hypnotized stacks do.

| Action | Code |
|---|---|
| `Init` | `army::Init` of both armies and `HandlePandoraBox`, whose stack is temporary from the start and has no place in the army; free places for elementals |
| `Melee` | `DoAttack`: `DamageEnemy`, `Damage`, what ghosts and vampire lords make of their kills, the answer |
| `ShotOrSpell` | `SpecialAttack`, spells aimed at one stack, which call `Damage` with `SPELL_NONE` |
| `AreaSpell` | `Fireball` (Fireball, Fireblast, Cold Ring), `MeteorShower`, `ElementalStorm` and the mass spells that wound |
| `SummonElemental` | `SummonElemental` and the free place `AddArmy` finds for it |
| `Cure`, `Resurrect` | Cure, Resurrect, Resurrect True, Animate Dead |
| `ResetRound` | who is alive may answer again, and trolls heal; dodges are renewed |
| `DoVictory` | `CheckWin`, `DoVictory` and `UpdateArmyGroup`: `temporaryQty` is taken off, one creature is spared if a side that stands would have nobody, and the stacks that have a place in the army are written back to it |

Division is that of C, towards zero, which matters because a dodged blow is dealt as -2
points: it gives the assassins two points, and after as many dodges of an unhurt stack as
make up a creature's points (75 of them, over as many rounds) a creature. That is a defect of
the code, which has no limit of rounds. The step is in the model (`MakesOne`), clears `intact`,
and the model stops there; `OnlyGhostsOutgrow` excepts the dodgers it strikes, and the other
properties state what holds before. In the instance one kind of assassins has three
points, so that two rounds are enough for it.

`Damage` applies the artifacts of a fire or cold spell to the old wound and the new damage
together (`H2W:66718-66732`, `ModifyDamageForArtifacts`). `Dealt` does too: with a cloak
against fire a stack with a deep wound may come out of a fireball with more hit points
than it had. `HitPointsAddUp` therefore claims that the hit points dealt are those taken
only where no artifact acts; for the rest, that the stack keeps what the artifacts
leave of both together and neither creature nor wound gets lost beyond that.

In a game between two humans on a network a ghost's kills in retaliation count twice
(`army.cpp:421-425`); `GainsAreLosses` excepts it. Nothing takes the fallen off
`temporaryQty`, so the raised fall last; `OnlyTheUnraisedGoHome` states that this is
what the player is owed, as long as the stack does not feed. Section 4 tells who goes home
when nobody is owed.

`ProcessDeath` is part of `Damage` in the model. The code calls it from `PowEffect` and
`ShowMassSpell`, for everybody whom the blow or the spell left with no creatures, before
anybody feeds, answers or acts; what comes between only draws. Only in a battle that is not
shown (`gbNoShowCombat`, which only `AutoResolveCombat` at debug level 4 sets,
`H2W:75829`, `H2W:76231`) mass spells leave it to the next `PowEffect`; such battles are not in it.

Not in it: mirror images (which die of any damage, count among the survivors of `DoVictory`, and are
left behind by `UpdateArmyGroup`, as elementals are), elementals that belong to the army and
free their place for summoned ones when they die, a Lightning Bolt's artifacts (applied before
`Damage`, so that they are one of `Blows`), necromancy's skeletons, genies, retreat and surrender.

### SharedVision

`mapRevealed` is the set of cells each player has seen (in the code one byte per
cell, one bit per player), `sharePlayerVision` the matrix of who shares with whom,
`gbHumanPlayer` who is played by a human.

| Action | Code |
|---|---|
| `Explore`, `MakeAllWaterVisible` | `SetVisibility`, `MakeAllWaterVisible`: the player itself, then each it shares with |
| `ShareVision` | sets the matrix, then `PropagateVision`: one pass over all pairs in order |
| `CancelShareVision` | clears the matrix; what was seen stays seen |
| `NewMap`, `LoadGame` | `ResetIronfistGameState` ends all sharing (it is not saved) |
| `LoadOriginal` | a save of the original game: `LoadGame` returns before the reset, and the sharing of the last map goes on |

Neither `SetVisibility` nor `PropagateVision` follows a chain of allies to its end:
the code says "Would take more work to be transitive without infinite recursion".
`SharingKeepsUp` states when they suffice: wherever sharing is transitive, a new
agreement brings everybody up to date and no later move or cancellation leaves an
ally behind. (`LoadOriginal` is the exception: it brings new maps under
old agreements.) `SharingFollowsChains` bounds it from the other side: a new
agreement tells its partner everything at once, and nobody anything that no direct
or indirect ally has seen: it says that a group with whom nobody outside it shares
learns nothing from outside, and a player's direct and indirect allies are the least
such group that has the player. The computer sees further than a human from the same
place, and its ally is shown what the *ally* would see there, so the properties
compare players of the same kind only. Sharing with oneself is left out: it
reveals nothing.

## 3. What the runs check

| Run | States | Shows |
|---|---|---|
| `ResourceManager` | 104 thousand | whatever loads nest and whenever a poll draws a cursor: `ReadsOwnFile`, `CachedOnce`, `RefsCountHolders`, `HeldIsAlive`, `ExpungeNextIsAlive`, `SavesBalanced` |
| `ResourceManagerShutDown` | 292 thousand | refinement: `ResourceManager` implements `ResourceCache` (`ImplementsCache`); liveness: once shutdown starts `Expunge` ends with an empty cache |
| `SpellEffects` | 37 thousand | `StatsAreBasePlusEffects`, `OpposedNeverTogether`, `AntiMagicAlone`, and the action property `DispelRestores` |
| `Battlefield` | 189 thousand | two two-hexers (one flies and strikes two deep, one shoots plasma), a jumper and an elemental, with obstacles and room for two bodies to a hex: `GridAgreesWithArmies`, `MarksPointToOtherHex`, `BodiesAreWhole`, `FacesTheEnemy` |
| `CombatRounds` | 147 thousand | `ActiveMayAct`, `OnlySpentTurnsAreLost`, `MoraleGivesOneTurnAtATime`, `OneAnswerARound`, `WokenDoNotRetaliate`, and liveness: `EveryStackGetsItsTurn` |
| `Casualties` | 104 thousand | `DeadAreNone`, `WoundsAreLessThanALife`, `OnlyGhostsOutgrow`, `OnlyTheUnraisedGoHome`, and the action properties `HitPointsAddUp`, `GainsAreLosses`, `WinnersGoHome` |
| `SharedVision` | 15 thousand | three players explore, share and stop sharing over new maps and loads: `SharingKeepsUp`, `SharingFollowsChains` (action properties) |
| `CloseMove` | violated | a teleporter that attacks from where it stands is not answered |
| `MassDispel` | violated | Mass Dispel leaves the shadow mark |
| `Teleport` | violated | Teleport takes a hex that is not open |
| `Resurrect` | violated | a raised stack does not stand where it fell |
| `AnimateDead` | violated | Animate Dead takes creatures from a ghost stack that has grown |

Every `TypeOK` is checked by the main run of its module.

**Bounds.** `ResourceManager`: two archives, so that a nested load moves the handle
to the other archive or within the same one; one window of two reads, so
that a widget comes before and between them and a poll before any of them; one font, whose
glyph icon can be got by others too; two cursors; three holders, so that a
count reaches 3 and the same icon is a widget's, a font's and a widget's again;
four addresses, as many as there are resources, so that addresses are reused.
The nesting is as deep as the code allows (window, font, glyphs, pointer).
The refinement and liveness run has two holders and three addresses, no symmetry.
`SpellEffects`: powers 1 and 2 tell refreshing up from refreshing down, and a
round that ends an effect from one that does not; the effects cast are those that
change a statistic, cancel another, or lie past the loops' end. `MaxRayLoss`
allows two rays (one full, one cut off); `MaxDrift` stops `numActiveEffects`, on
which nothing depends. `Battlefield`: three rows of three hexes between the
borders, of which three are obstacles: the smallest board we found on which two-hexers
turn, meet, die on each other's hexes and are raised, a blow or its answer reaches the
stack behind, and a shooter stands apart from its target. The armies start in the first and
the last column, each stack in a row of its own. `CorpseLimit` (14 in the
code) is 2, so that it is reached. Liches and those who strike twice are in the module and
not in this instance; the theorems cover them. `CombatRounds`: a
stack of good morale that strikes twice, a fellow of bad morale that paralyzes, and a
shooter of the other side, all of different speeds, or the first of these against a
teleporter; all four effects, one in play at a
time (`EffectLimit`), one wait a stack and round (`WaitLimit`); rounds without bound.
Griffins and those whom nobody answers are in the module and not in this instance.
`Casualties`: vampire lords against trolls or assassins, who have ghosts, elementals or
the peasants of Pandora's Box with them, so that there is somebody to cast when one of them has
died, to be spared, and to be left behind; ghosts against assassins, and against vampire
lords; the hit points of the game but for the assassins of three points; blows of a
ghost's life and of three trolls'; one hero, with a cloak against fire, who raises a hundred
points; ghosts grow to three (`QuantityLimit`), two rounds (`RoundLimit`), the second of
which begins with the flags and counters of the first renewed. `SharedVision`: three players make chains,
circles and mutual agreements in every order of their numbers; a land cell that all
see from the tower and a water cell that only the computer does, and positions beyond
the map; one saved game in which one player is ahead of the others.

**Deadlock.** It is checked for `SharedVision`, `CombatRounds`, and for `SpellEffects` and
its violations. The other runs say `CHECK_DEADLOCK FALSE`: `ResourceManager` ends in
`closed`, `Casualties` ends with `DoVictory` or with a dodge that makes a creature, and `Battlefield` ends when a defect struck
or when no stack lives.

**Fairness.** `ResourceManager` has weak fairness of the steps of a load and
of `Expunge` that are straight-line code. Nothing in the program can suspend
them, since it has one thread and they wait for nothing. The player, the mouse,
managers and `ShutDown` itself are not fair: they may never act. `CombatRounds` assumes
that something is done as long as the battle is not decided (weak fairness of
`Next`, written so that TLC can evaluate it): `ProcessNextAction` is called again and
again, and the computer and a player who does not leave the game both choose. Which
action it is, is not fair: everyone may skip or cast for ever. A stack that waits without
end does keep the others from a new round in the code; `WaitLimit` is therefore an
assumption of `EveryStackGetsItsTurn` and not a bound only.

## 4. Findings

* **Teleporters** (`army.cpp:408`, `:1926`): whether an attack comes from a distance is
  read off `gCloseMove`, which the last walk, flight or answer of any stack has set, and
  which an attack without a move does not touch. A panther that flew far to its enemy
  without attacking, or whose enemy's flyers did, then attacks from where it stands with
  a quarter more damage and no answer. The comment on the flag (`army.cpp:35`) says it
  tells close attacks from distant ones.
* **Mass Dispel** (`H2W:82973`): the loop ends before effect 16. The spell promises
  to remove all (`spells.cpp:37`).
* **Teleport** (`combat_spells.cpp:331`): defect 5 above; the spell promises "any open
  position" (`spells.cpp:17`).
* **Resurrect** (`combat_spells.cpp:75`): defect 2 above; the comment on that line
  suspects it.
* **Animate Dead** (`combat_spells.cpp:35`): ghosts grow beyond `initialQuantity`, are then
  not refused as undamaged (`H2W:67867-67874`), and are cut back to it. The spell promises
  to resurrect creatures (`spells.cpp:52`).

No run states the following, because the documents do not agree with each other or do not say;
the model does what the code does.

* **Who goes home** (`combat.cpp:40-47`, `H2W:38259-38286`). The comment on
  `HandlePandoraBox` says that in the original game a hero who wins with creatures raised for
  the battle only is left with none. The code does not do that where nobody else
  stands: `DoVictory` then spares one of the last stack (`H2W:38283-38284`), which
  `WinnersGoHome` states and `SomebodyGoesHome` proves. It does so in two cases that the
  same count causes. Elementals are among the survivors counted, so that nobody is
  spared, and are then left behind by `UpdateArmyGroup` (`H2W:62703-62718`): the army has
  nobody. And if the last stack is that of Pandora's Box, it is the one spared, and is
  written to `quantities[-1]`, before the army: the "stacks of 0 creatures" of the comment.
  `WinnersGoHome` excepts sides on which such stacks stand. That "winning a battle with nothing
  but summoned elementals remaining works" (`combat.cpp:45`) is so as far as `CheckWin`
  (`H2W:37254-37301`) counts them as standing; who is left in the army is nobody.
* **Wards against fire and cold** (`H2W:66718`, above): a spell that, by the message
  shown (`H2W:81511-81517`), does so much damage may do less or heal, because the old wound is
  scaled with it, and more under an artifact that adds to damage.

## 5. What is proved

TLAPS checks the theorems for every value of the constants that satisfies the
assumptions, which are named in the modules that declare the constants.

`ResourceManagerProofs` assumes `ArchivesAssumption` (some archive holds each file),
`FilesAssumption` (each font names an icon, each cursor an icon and a picture,
each file takes at least one read) and `KindsAssumption` (icons and fonts are
different files, `Null` is none of them):

* `CacheIsTyped`, `LoadersReadTheirFiles`, `FilesAreCachedOnce`,
  `ExpungeVisitsLiveObjects`, `SavedPositionsAreRestored`.

None of these is inductive. Whether a loader reads its own file after a nested load
depends on what was saved when that load began, so the invariant `Inv` speaks of
the whole call stack: `ShapeOf` says which loads nest in which (a window is
outermost, a pointer innermost, the icon inside a font starts after the font's last
read); `PositionsOf` says how many positions are saved for such a stack and that
each saved pair is the place its loader goes on from; `Heap` says that objects under
construction are alive and their files not cached, which is why a stale query does no
harm; `Pointed` says that a picture is only read for a real cursor. There is one
lemma per action, resting on lemmas for the operators (`Shrinks`: disposing never
gives an address another file) and for pushing and popping frames.

`ResourceHoldersProofs` rests on the same assumptions and on the invariant `Inv` above:

* `CountsAreHolders` (`RefsCountHolders`), `WhatIsHeldIsAlive` (`HeldIsAlive`);
* `CacheKeepsItsPromise`: the safety part of `ImplementsCache`, that is, the initial states
  of `ResourceManager` are initial states of the abstract cache and each of its steps is one
  of the cache's steps or a stutter.

The count of an object is compared with the number of places that hold it, a set that one
step changes together with the heap, and between the steps of a load the two are not
equal: the loader has taken its glyphs, say, and is not in the cache yet. `HInv`
therefore has a balance (`Balanced`) with an excess: the count of an object is that of its
holders, plus one while it is under construction, and plus one for the object whose
holder has just been taken away (`debtor`). `HeldAlive` says the same of life for places, glyphs
and the cursor, and `Building` what the objects of unfinished loads are. `KindsAssumption` says for it
that the holders, the fonts and the cursor are different things. The refinement follows
step by step: only the last step of a load, a hit, a release and `Expunge` change what the map shows.

`SpellEffectsProofs` assumes `StackAssumption` (naturals and sets of the right type):

* `StackIsTyped`, `OpposedSpellsExclude`, `BonusesAreUndoneOnce`,
  `AntiMagicStandsAlone`, `DispelMagicRestores`.

The invariant is `TypeOK /\ Sound(stack, rayLoss)`, where `Sound` is the conjunction of
the four state properties. They need each other: a bonus is undone right only
because opposed effects are never both on.

`BattlefieldProofs` assumes `BoardAssumption` (a board of rows and columns),
`StacksAssumption` and `StartAssumption`:

* `BattlefieldIsTyped`, `RecordsAgree` (`GridAgreesWithArmies`), `MarksAreRight`
  (`MarksPointToOtherHex`), `BodiesLieWhole` (`BodiesAreWhole`), `AllFaceTheEnemy`
  (`FacesTheEnemy`).

They hold on a board of any size, with any obstacles, stacks and start hexes. The invariant
has three parts as long as no defect has struck: who lives stands on its hexes with the right
marks (`Standing`); who is on the grid lives and stands there (`Peopled`); and
every body is of a dead stack, lies on each hex on which the stack fell, once, with the mark
of that hex (`Piled`). The properties need all of it: `Resurrect` puts a stack back where
its record says it fell, so the record of the dead must agree with the bodies too. The geometry
is proved from the arithmetic of hex numbers (`BesideTheField`, `TurningKeepsCells`): a
two-hexer that turns keeps its two hexes. Four lemmas do the work for many actions each:
`MovesAreSound` (walking, flying, jumping and Teleport), `BuryIsSound` (attacks and shots), `RisingIsSound`
(Resurrect), and `AlikeIsSound` for what changes nothing that matters.

`CombatRoundsProofs` assumes `StacksAssumption`; that no creature both paralyzes and
strikes twice is part of it, because the code decides both by the creature
(`army.cpp:308`, `:442-444`):

* `RoundsAreTyped`, `TheActiveMayAct` (`ActiveMayAct`), `NoTurnIsStolen`
  (`OnlySpentTurnsAreLost`), `MoraleIsBounded` (`MoraleGivesOneTurnAtATime`),
  `AnswersAreBounded` (`OneAnswerARound`), `TheWokenDoNotAnswer` (the action property
  `WokenDoNotRetaliate`).

The invariant ties the flags of the army records to the history (`Books`): whoever has lost
its turn has had one, or an excuse (`Excused`); an answer given has left `RETALIATED` set
(`Answered`); a turn taken by a stack without good morale has left its mark, dead or alive
(`Spent`); and who acted last has lost its turn, unless the global of the morale bonus says
that it has just got one (`InARow`). `Due` says which turn may be on, `Free` that its stack can
use it. `Books` is stated of any flags and any history, because the code that ends a turn
passes both through several functions before they are stored.

`CasualtiesProofs` assumes `StacksAssumption` and `BoundsAssumption`:

* `CasualtiesAreTyped`, `TheDeadAreNone` (`DeadAreNone`), `WoundsStayBelowALife`
  (`WoundsAreLessThanALife`), `NoneButGhostsOutgrow` (`OnlyGhostsOutgrow`),
  `TheRaisedDoNotGoHome` (`OnlyTheUnraisedGoHome`), and the action properties
  `HitPointsAreKept` (`HitPointsAddUp`), `NothingIsMadeOfNothing` (`GainsAreLosses`) and
  `SomebodyGoesHome` (`WinnersGoHome`).

Blows, quantities, hit points, artifacts and the number of rounds are any. That a wound is less than a
life rests on a bound from below too: a dodge heals two points, so a wound may be
negative, but by less than a life until a dodge makes a creature (`Sound`, `Makes`); and on the artifacts making
of a wound a wound (`Modified`). `Accounted` says that what a stack has lost and still has is
what its owner had and what was raised or lent for the battle; from it follows who
goes home. `PointsKept` and `FedPoints` say of any wound and any meal how many hit points it leaves,
on which `HitPointsAreKept` and `NothingIsMadeOfNothing` rest.

`SharedVisionProofs` assumes `MapAssumption` (a number of players, cells that are
integers, water among them):

* `VisionIsTyped`, `AlliesKeepUp` (`SharingKeepsUp`), `AgreementsFollowChains`
  (`SharingFollowsChains`).

`AlliesKeepUp` says that a single pass is enough under transitive sharing, for any
number of players. The pass is a recursive function of the number of turns taken;
`OnePassIsEnough` follows two allies over the turns:
from `p`'s own turn on, `q` has what `p` has, because whoever gives `p` something in a
later turn shares with `q` too, by transitivity (`PassOnInforms`). `AgreementsFollowChains`
follows, over the same turns, what a partner has gained (`PassReachesPartners`) and what a closed
group has not (`PassStaysInside`). The induction over turns is
made by least counterexample (`LeastNumber`, `UpTo`), because the library's induction
theorems take an operator as parameter.

Model-checked only:

* liveness: `ExpungeEmpties`, `EveryStackGetsItsTurn`, and the fairness part of
  `ImplementsCache` (that weak fairness of `ExpungeOne` gives that of `Purge`). It needs
  `ENABLED`, which the prover does not have;
* the properties of the violated runs, which are refuted by an example.

Every other property of a passing run is a theorem. What a recursive definition computes for
every input is out of the prover's reach in general; the one recursion that matters
(`PropagateVision`) is a function over numbers. No module has a `RECURSIVE` operator.

## 6. Mutants

`PROJECT.json` ("mutants") pairs each property of each passing run with a planted bug
that breaks it: no query before a load, a handle that is not moved back, a pair
that is not dropped, a count that is not raised, a bonus added twice, a missing
cancellation, a stack that turns without changing its hex, a body on one hex, and so
on. A property that no plausible bug can break would say nothing.

## 7. Not modelled, and the plan

The properties of the modules above that a prover can reach are proved. What is
left to prove there is lemmas: that rounds end when all have acted, as a decreasing
measure instead of a temporal formula, and that `Expunge` deletes an object in
every step it takes, which is what its liveness rests on. Each module below comes with its
theorems.

These modules come next, in this order:

1. `JumpAndHydra`: jumps (`gMoveAttack` and the jumper's counter), harpies flying back,
   the hydra's attack on all neighbours.
2. `SpellSelection`: the loop that fills the mage guild and its exit
   (`town.cpp:168-212`).
3. `LuaStack`: the depth of the Lua stack over callbacks, failures and loads.
4. `SaveTown`: a town saved and loaded (`save.cpp:207`).
5. `MusicPlayer`: positions saved under one index and looked up under another
   (`cd_music.cpp`). `cleanup_bass` and the reset of the town tracks are called by nobody.

Not planned: drawing, dialogs, drivers, preferences and analytics (input and output
only); constant tables; the map editor; the computer player and the rest of the
decompiled game, of which only the functions that the replaced code calls or is
called from are modelled. By lines these are nearly all of the repository: the two
decompiled executables, XML bindings written by a generator
(`map_xml.*`, `creatures_xml.*`), a table of map objects (`overlay.cpp`) and
vendored libraries. The models cover the parts of the game whose state must stay
consistent over long sequences of calls, a few thousand lines of it.
