-------------------------- MODULE ResourceManager --------------------------
(***************************************************************************)
(* The resource cache and the archive reader of                            *)
(* cpp/shared/resource/resourceManager.cpp, with the callers that make it  *)
(* hard: constructors that load a resource while they are themselves in    *)
(* the middle of reading a file, and PollSound, which runs inside every    *)
(* ReadBlock and may replace the mouse cursor from there.                  *)
(*                                                                         *)
(* The program is single threaded, but its calls nest: `stack' is the call *)
(* stack of unfinished loads.  All of them share one current archive       *)
(* (curHandleIdx) and one offset per archive, so a nested load must leave  *)
(* both as it found them.                                                  *)
(*                                                                         *)
(* What a file contains is abstracted to the number of reads its loader    *)
(* makes; the linked list of cached resources is abstracted to the set     *)
(* `cached' (Expunge then visits them in any order).                       *)
(***************************************************************************)
EXTENDS Integers, Sequences, FiniteSets

CONSTANTS
  Windows,    \* window layouts (.BIN), read by the heroWindow constructor
  Icons,      \* .ICN resources
  Fonts,      \* .FNT resources, each of which loads an icon of glyphs
  Pictures,   \* black and white cursor pictures (.BMP), never cached
  Cursors,    \* cursor categories: adventure, combat, spell
  Glyph,      \* [Fonts -> Icons]      the glyph icon a font file names
  ColorIcon,  \* [Cursors -> Icons]    ADVMCO.ICN, CMSECO.ICN, SPELCO.ICN
  Picture,    \* [Cursors -> Pictures] ADVMBW.BMP, CMSEBW.BMP, SPELBW.BMP
  Contents,   \* [Archives -> SUBSET File] what each .AGG file holds
  NumArchives,\* how many .AGG files Open opened, searched in this order
  Reads,      \* [File -> Nat \ {0}]   reads the loader of a file makes
  Addr,       \* addresses of resource objects
  Slots,      \* places of the program that keep a resource: widgets, managers
  Null        \* no address, no file, no cursor

Resources == Icons \cup Fonts
File == Windows \cup Resources \cup Pictures
Archives == 0 .. NumArchives - 1

ASSUME ArchivesAssumption ==
  /\ NumArchives \in Nat \ {0}
  /\ Contents \in [Archives -> SUBSET File]
  /\ \A f \in File : \E i \in Archives : f \in Contents[i]
ASSUME FilesAssumption ==
  /\ Glyph \in [Fonts -> Icons]
  /\ ColorIcon \in [Cursors -> Icons]
  /\ Picture \in [Cursors -> Pictures]
  /\ Reads \in [File -> Nat \ {0}]
\* Places, fonts and the cursor are users of three different kinds.
ASSUME KindsAssumption ==
  /\ Icons \cap Fonts = {}
  /\ Slots \cap Fonts = {} /\ "cursor" \notin Slots \cup Fonts
  /\ Null \notin Addr \cup File \cup Cursors

VARIABLES
  object,         \* [Addr -> Object] the heap of resource objects
  cached,         \* the objects on the firstLoadedResource list
  stack,          \* the unfinished loads, the innermost last
  curHandleIdx,   \* the archive reads come from
  offset,         \* [Archives -> Place] where each archive's handle stands
  saved,          \* the (archive, offset) pairs SavePosition pushed
  held,           \* [Slots -> Hold] who keeps which resource
  cursor,         \* the mouse manager: its icon, category, colour or not
  drawn,          \* cursors whose black and white picture is loaded
  phase,          \* "open", "expunging" or "closed"
  next            \* the object Expunge visits next

vars == <<object, cached, stack, curHandleIdx, offset, saved, held, cursor,
          drawn, phase, next>>
position == <<curHandleIdx, offset, saved>>

-----------------------------------------------------------------------------
(* Types *)

Free == [file |-> Null, refs |-> 0, glyph |-> Null]
Object == [file : Resources, refs : Nat \ {0}, glyph : Addr \cup {Null}]
Place == [file : File \cup {Null}, pos : Nat]
Saved == [agg : Archives, at : Place]
\* A window reads its layout, a resource is under construction, a cursor
\* waits for its icon, a pointer reads a black and white picture.
Frame == [kind : {"window", "resource", "cursor", "pointer"},
          file : File \cup {Null}, pos : Nat, obj : Addr \cup {Null}]
Nothing == [obj |-> Null, file |-> Null]
Hold == [obj : Addr, file : Resources] \cup {Nothing}

TypeOK ==
  /\ object \in [Addr -> Object \cup {Free}]
  /\ cached \subseteq Addr
  /\ stack \in Seq(Frame)
  /\ curHandleIdx \in Archives
  /\ offset \in [Archives -> Place]
  /\ saved \in Seq(Saved)
  /\ held \in [Slots -> Hold]
  /\ cursor \in [icon : Addr \cup {Null}, category : Cursors \cup {Null},
                 color : BOOLEAN]
  /\ drawn \subseteq Cursors
  /\ phase \in {"open", "expunging", "closed"}
  /\ next \in Addr \cup {Null}

Live == {a \in Addr : object[a] # Free}
Idle == stack = <<>> /\ phase = "open"
Top == stack[Len(stack)]
Below == SubSeq(stack, 1, Len(stack) - 1)
IsTop(kind) == stack # <<>> /\ Top.kind = kind
AtEnd == Top.pos = Reads[Top.file]
FrameFor(kind, f, a) == [kind |-> kind, file |-> f, pos |-> 0, obj |-> a]

-----------------------------------------------------------------------------
(* The archive reader *)

\* Which archive PointToFile finds a file in: the first one that lists it.
Containing(f) ==
  CHOOSE i \in Archives :
    f \in Contents[i] /\ \A j \in Archives : f \in Contents[j] => i <= j

PointToFile(f) ==
  /\ curHandleIdx' = Containing(f)
  /\ offset' = [offset EXCEPT ![Containing(f)] = [file |-> f, pos |-> 0]]

SavePosition ==
  Append(saved, [agg |-> curHandleIdx, at |-> offset[curHandleIdx]])

\* Planted bugs: the handle is not moved back; the saved pair is not dropped.
RestoreHandleOnly(n) ==
  LET last == saved[Len(saved) - n + 1] IN
  /\ curHandleIdx' = last.agg
  /\ saved' = SubSeq(saved, 1, Len(saved) - n)
  /\ UNCHANGED offset
RestoreWithoutPop(n) ==
  LET last == saved[Len(saved) - n + 1] IN
  /\ curHandleIdx' = last.agg
  /\ offset' = [offset EXCEPT ![last.agg] = last.at]
  /\ UNCHANGED saved

\* n returns of RestorePosition in a row: the deepest of them wins.
RestorePosition(n) ==
  LET last == saved[Len(saved) - n + 1] IN
  /\ curHandleIdx' = last.agg
  /\ offset' = [offset EXCEPT ![last.agg] = last.at]
  /\ saved' = SubSeq(saved, 1, Len(saved) - n)

-----------------------------------------------------------------------------
(* The cache *)

\* Planted bug: the cache is never consulted.
QueryNothing(f) == {}

Query(f) == {a \in cached : object[a].file = f}

Unreference(heap, a) == [heap EXCEPT ![a].refs = @ - 1]

\* Planted bugs: the last reference is counted down instead of deleting the
\* icon; a font under expunction deletes its glyphs as at any other time.
DisposeIconLate(heap, a) ==
  IF phase = "expunging" THEN heap
  ELSE IF heap[a].refs > 0 THEN Unreference(heap, a)
  ELSE [heap EXCEPT ![a] = Free]
DisposeIconAlways(heap, a) ==
  IF heap[a].refs > 1 THEN Unreference(heap, a) ELSE [heap EXCEPT ![a] = Free]

\* Dispose of an icon; the destructor of an icon frees only its pixels.
DisposeIcon(heap, a) ==
  IF phase = "expunging" THEN heap
  ELSE IF heap[a].refs > 1 THEN Unreference(heap, a)
  ELSE [heap EXCEPT ![a] = Free]

\* The destructor of a font disposes of its glyph icon.
Delete(heap, a) ==
  LET rest == [heap EXCEPT ![a] = Free]
  IN  IF heap[a].glyph = Null THEN rest ELSE DisposeIcon(rest, heap[a].glyph)

\* Planted bug: whoever gives a resource back deletes it.
DisposeShared(heap, a) ==
  IF phase = "expunging" \/ a = Null THEN heap ELSE Delete(heap, a)

Dispose(heap, a) ==
  IF phase = "expunging" \/ a = Null THEN heap
  ELSE IF heap[a].refs > 1 THEN Unreference(heap, a)
  ELSE Delete(heap, a)

\* Delete is always preceded by RemoveResource.
StillCached(heap) == {a \in cached : heap[a] # Free}

\* A cache miss: `new X(hash)', whose constructor points at the file first.
Construct(heap, f, callers) ==
  \E a \in Addr :
    /\ heap[a] = Free
    /\ object' = [heap EXCEPT ![a] = [file |-> f, refs |-> 1, glyph |-> Null]]
    /\ stack' = Append(callers, FrameFor("resource", f, a))
    /\ PointToFile(f)

\* Get hands the object to whoever waits for it (the frame now on top) and
\* that caller goes on: a widget keeps it and restores the position it
\* saved, a font keeps its glyphs, SetPointer keeps its cursor and restores.
DeliverToSlot(a, f) ==
  \E s \in Slots :
    held[s] = Nothing /\ held' = [held EXCEPT ![s] = [obj |-> a, file |-> f]]

-----------------------------------------------------------------------------
(* Actions *)

Init ==
  /\ object = [a \in Addr |-> Free]
  /\ cached = {}
  /\ stack = <<>>
  /\ curHandleIdx = NumArchives - 1
  /\ offset = [i \in Archives |-> [file |-> Null, pos |-> 0]]
  /\ saved = <<>>
  /\ held = [s \in Slots |-> Nothing]
  /\ cursor = [icon |-> Null, category |-> Null, color |-> TRUE]
  /\ drawn = {}
  /\ phase = "open"
  /\ next = Null

\* Planted bug: a hit does not count the new holder.
GetHitUncounted(f) ==
  /\ Idle \/ (IsTop("window") /\ ~AtEnd)
  /\ \E a \in Query(f) : DeliverToSlot(a, f)
  /\ UNCHANGED <<object, cached, stack, position, cursor, drawn, phase, next>>

\* Get of a resource that is cached, by a manager or by a widget being read.
\* The widget saves and restores the position around it: nothing moved.
GetHit(f) ==
  /\ Idle \/ (IsTop("window") /\ ~AtEnd)
  /\ \E a \in Query(f) :
       /\ object' = [object EXCEPT ![a].refs = @ + 1]
       /\ DeliverToSlot(a, f)
  /\ UNCHANGED <<cached, stack, position, cursor, drawn, phase, next>>

\* Get of a resource that is not cached, by a manager between two loads.
GetMiss(f) ==
  /\ Idle
  /\ Query(f) = {}
  /\ \E s \in Slots : held[s] = Nothing
  /\ Construct(object, f, stack)
  /\ UNCHANGED <<cached, saved, held, cursor, drawn, phase, next>>

\* The same by a widget: its window's layout is only half read.
WidgetGetMiss(f) ==
  /\ IsTop("window") /\ ~AtEnd
  /\ Query(f) = {}
  /\ \E s \in Slots : held[s] = Nothing
  /\ saved' = SavePosition
  /\ Construct(object, f, stack)
  /\ UNCHANGED <<cached, held, cursor, drawn, phase, next>>

\* A font names its glyph icon in its last read, and gets it unprotected.
GlyphHit ==
  /\ IsTop("resource") /\ AtEnd /\ Top.file \in Fonts
  /\ object[Top.obj].glyph = Null
  /\ \E a \in Query(Glyph[Top.file]) :
       object' = [object EXCEPT ![a].refs = @ + 1, ![Top.obj].glyph = a]
  /\ UNCHANGED <<cached, stack, position, held, cursor, drawn, phase, next>>

GlyphMiss ==
  /\ IsTop("resource") /\ AtEnd /\ Top.file \in Fonts
  /\ object[Top.obj].glyph = Null
  /\ Query(Glyph[Top.file]) = {}
  /\ Construct(object, Glyph[Top.file], stack)
  /\ UNCHANGED <<cached, saved, held, cursor, drawn, phase, next>>

OpenWindow(w) ==
  /\ Idle
  /\ stack' = <<FrameFor("window", w, Null)>>
  /\ PointToFile(w)
  /\ UNCHANGED <<object, cached, saved, held, cursor, drawn, phase, next>>

\* ReadWord, ReadLong, ReadBlock: whatever the current handle stands on.
Read ==
  /\ stack # <<>> /\ Top.kind # "cursor" /\ ~AtEnd
  /\ offset' = [offset EXCEPT ![curHandleIdx].pos = @ + 1]
  /\ stack' = [stack EXCEPT ![Len(stack)].pos = @ + 1]
  /\ UNCHANGED <<object, cached, curHandleIdx, saved, held, cursor, drawn,
                 phase, next>>

WindowRead ==
  /\ IsTop("window") /\ AtEnd
  /\ stack' = Below
  /\ UNCHANGED <<object, cached, position, held, cursor, drawn, phase, next>>

\* The constructor returns, the resource joins the cache, Get returns it.
Loaded ==
  LET a == Top.obj
      caller == IF Below = <<>> THEN "manager" ELSE Below[Len(Below)].kind
  IN
  /\ IsTop("resource") /\ AtEnd
  /\ Top.file \in Fonts => object[a].glyph # Null
  /\ cached' = cached \cup {a}
  /\ \/ /\ caller = "manager"
        /\ DeliverToSlot(a, Top.file)
        /\ stack' = Below
        /\ UNCHANGED <<object, position, cursor>>
     \/ /\ caller = "window"
        /\ DeliverToSlot(a, Top.file)
        /\ stack' = Below
        /\ RestorePosition(1)
        /\ UNCHANGED <<object, cursor>>
     \/ /\ caller = "resource"
        /\ object' = [object EXCEPT ![Below[Len(Below)].obj].glyph = a]
        /\ stack' = Below
        /\ UNCHANGED <<position, held, cursor>>
     \/ /\ caller = "cursor"
        /\ cursor' = [cursor EXCEPT !.icon = a]
        /\ stack' = SubSeq(stack, 1, Len(stack) - 2)
        /\ RestorePosition(1)
        /\ UNCHANGED <<object, held>>
  /\ UNCHANGED <<drawn, phase, next>>

\* Whoever keeps a resource gives it back.
Release(s) ==
  /\ Idle /\ held[s] # Nothing
  /\ object' = Dispose(object, held[s].obj)
  /\ cached' = StillCached(object')
  /\ held' = [held EXCEPT ![s] = Nothing]
  /\ UNCHANGED <<stack, position, cursor, drawn, phase, next>>

\* SetPointer with a coloured cursor of another category: the old icon is
\* disposed of and the new one fetched, with the position saved around both.
\* While it loads, cursorIcon still holds the old, disposed address.
ReplaceIcon(c) ==
  LET heap == Dispose(object, cursor.icon)
      found == {a \in StillCached(heap) : heap[a].file = ColorIcon[c]}
  IN
  /\ cached' = StillCached(heap)
  /\ \/ \E a \in found :
          /\ object' = [heap EXCEPT ![a].refs = @ + 1]
          /\ cursor' = [icon |-> a, category |-> c, color |-> TRUE]
          /\ UNCHANGED <<stack, position>>
     \/ /\ found = {}
        /\ saved' = SavePosition
        /\ cursor' = [cursor EXCEPT !.category = c, !.color = TRUE]
        /\ Construct(heap, ColorIcon[c], Append(stack, FrameFor("cursor", Null, Null)))
  /\ UNCHANGED <<held, drawn, phase, next>>

\* SetPointer with black and white cursors: the picture of a cursor is read
\* once.  Both SetPointers save the position around it.
DrawPointer(c) ==
  /\ cursor' = [cursor EXCEPT !.category = c, !.color = FALSE]
  /\ IF c \in drawn \/ c = Null
     THEN UNCHANGED <<stack, position>>
     ELSE /\ saved' = Append(SavePosition, SavePosition[Len(saved) + 1])
          /\ stack' = Append(stack, FrameFor("pointer", Picture[c], Null))
          /\ PointToFile(Picture[c])
  /\ UNCHANGED <<object, cached, held, drawn, phase, next>>

ChangeCursor(c) ==
  /\ Idle /\ cursor.category # c
  /\ IF cursor.color THEN ReplaceIcon(c) ELSE DrawPointer(c)

\* The mouse is back on the screen: the message pump restores the colours.
MouseReturns ==
  /\ Idle /\ ~cursor.color /\ cursor.category # Null
  /\ ReplaceIcon(cursor.category)

\* PollSound, between any two reads of any loader: the mouse has left the
\* screen and SetColorMice switches to the black and white cursor.  Neither
\* a poll inside a poll nor one inside SetPointer gets this far.
MouseLeaves ==
  /\ phase = "open" /\ cursor.color
  /\ \A i \in 1..Len(stack) : stack[i].kind \notin {"cursor", "pointer"}
  /\ DrawPointer(cursor.category)

PointerDrawn ==
  /\ IsTop("pointer") /\ AtEnd
  /\ drawn' = drawn \cup {cursor.category}
  /\ stack' = Below
  /\ RestorePosition(2)
  /\ UNCHANGED <<object, cached, held, cursor, phase, next>>

-----------------------------------------------------------------------------
(* Shutting down *)

\* Expunge saves `next' before it deletes; the list's order is abstracted.
Visit(rest) == IF rest = {} THEN next' = Null ELSE next' \in rest

\* ShutDownSystem: the mouse manager closes, disposing of its icon, and the
\* resource manager after it.
ShutDown ==
  /\ Idle
  /\ object' = Dispose(object, cursor.icon)
  /\ cached' = StillCached(object')
  /\ cursor' = [cursor EXCEPT !.icon = Null]
  /\ phase' = "expunging"
  /\ Visit(cached')
  /\ UNCHANGED <<stack, position, held, drawn>>

\* Planted bug: the visited object stays on the list.
ExpungeNothing ==
  /\ phase = "expunging" /\ next # Null
  /\ Visit(cached \ {next})
  /\ UNCHANGED <<object, cached, stack, position, held, cursor, drawn, phase>>

\* One turn of Expunge's loop: unlink the object, then run its destructor.
ExpungeOne ==
  /\ phase = "expunging" /\ next # Null
  /\ Visit(cached \ {next})
  /\ object' = Delete(object, next)
  /\ cached' = StillCached(object')
  /\ UNCHANGED <<stack, position, held, cursor, drawn, phase>>

Close ==
  /\ phase = "expunging" /\ next = Null
  /\ phase' = "closed"
  /\ UNCHANGED <<object, cached, stack, position, held, cursor, drawn, next>>

Next ==
  \/ \E f \in Resources : GetHit(f) \/ GetMiss(f) \/ WidgetGetMiss(f)
  \/ \E w \in Windows : OpenWindow(w)
  \/ GlyphHit \/ GlyphMiss \/ Read \/ WindowRead \/ Loaded
  \/ \E s \in Slots : Release(s)
  \/ \E c \in Cursors : ChangeCursor(c)
  \/ MouseReturns \/ MouseLeaves \/ PointerDrawn
  \/ ShutDown \/ ExpungeOne \/ Close

\* Loads and the shutdown loop are straight-line code: nothing blocks them.
Fairness ==
  WF_vars(GlyphHit \/ GlyphMiss \/ Read \/ WindowRead \/ Loaded \/ PointerDrawn
          \/ ExpungeOne \/ Close)

Spec == Init /\ [][Next]_vars /\ Fairness
-----------------------------------------------------------------------------
(* Properties *)

\* Whatever was loaded in between, a loader's next read comes from its own
\* file, at the place it had reached (SavePosition, RestorePosition, and the
\* guards that keep the cursor from moving the handle in other places).
ReadsOwnFile ==
  (stack # <<>> /\ Top.kind # "cursor" /\ ~AtEnd) =>
    /\ curHandleIdx = Containing(Top.file)
    /\ offset[curHandleIdx] = [file |-> Top.file, pos |-> Top.pos]

\* No file is cached twice, although Get queries the cache before a
\* constructor that runs other Gets and inserts only after it.
CachedOnce ==
  \A a, b \in cached : object[a].file = object[b].file => a = b

\* A resource's count is the number of places that keep it: widgets and
\* managers, the cursor, the fonts whose glyphs it is.  (While the cursor's
\* icon is being replaced cursorIcon is stale and counts for nothing.)
CursorHolds(a) == cursor.icon = a /\ ~\E i \in 1..Len(stack) : stack[i].kind = "cursor"
Holders(a) ==
  {<<"slot", s>> : s \in {t \in Slots : held[t].obj = a}}
  \cup {<<"font", b>> : b \in {b \in Live : object[b].glyph = a}}
  \cup {<<"cursor", c>> : c \in {c \in {a} : CursorHolds(c)}}
RefsCountHolders ==
  phase = "open" => \A a \in cached : object[a].refs = Cardinality(Holders(a))

\* Nobody keeps the address of a resource that was deleted, nor of another
\* that took its place: what is held is cached, and is the file asked for.
HeldIsAlive ==
  phase = "open" =>
    /\ \A s \in Slots : held[s] # Nothing =>
         held[s].obj \in cached /\ object[held[s].obj].file = held[s].file
    /\ \A a \in Live : object[a].glyph # Null =>
         /\ object[a].glyph \in cached
         /\ object[object[a].glyph].file = Glyph[object[a].file]
    /\ CursorHolds(cursor.icon) /\ cursor.icon # Null => cursor.icon \in cached

\* The object Expunge is about to visit was not deleted by the destructor of
\* the one before it (a font disposes of its glyph icon).
ExpungeNextIsAlive == next # Null => next \in cached

\* SavePosition writes into fixed arrays and checks no bound: however loads
\* and polls nest, three places are enough, and once the outermost load is
\* over no saved position is left behind.
SavesBalanced == Len(saved) <= 3 /\ (stack = <<>> => saved = <<>>)

\* Expunge comes to an end, with nothing left in the cache.
ExpungeEmpties == phase = "expunging" ~> (phase = "closed" /\ cached = {})

\* What its users see of the cache: see ResourceCache.  A font uses its glyphs
\* from its construction on.
HeldFile(f) ==
  {s \in Slots : held[s].file = f}
  \cup {object[b].file : b \in {b \in Live : /\ object[b].glyph # Null
                                             /\ object[object[b].glyph].file = f}}
  \cup {u \in {"cursor"} : /\ cursor.icon # Null /\ CursorHolds(cursor.icon)
                           /\ object[cursor.icon].file = f}
Cache == INSTANCE ResourceCache WITH
  Pointers <- {ColorIcon[c] : c \in Cursors},
  loaded <- {object[a].file : a \in cached},
  users <- [f \in Resources |-> IF phase = "open" THEN HeldFile(f) ELSE {}],
  open <- (phase = "open")

\* The reader, the counts and the nested loads implement the promise: resources
\* are loaded exactly while they are used, and shutting down purges them all.
ImplementsCache == Cache!Spec
=============================================================================
