----------------------- MODULE ResourceManagerProofs -----------------------
(***************************************************************************)
(* What ResourceManager promises, proved for every set of files, archives, *)
(* cursors, addresses and holders.                                         *)
(*                                                                         *)
(* None of the properties is inductive: whether a loader reads its own     *)
(* file depends on what was saved before the loads nested in it, and       *)
(* whether a file is cached once on the loads that are not finished.       *)
(* ShapeOf, PositionsOf and Heap say what the unfinished loads look like.      *)
(***************************************************************************)
EXTENDS ResourceManager, SequenceTheorems, NaturalsInduction,
        WellFoundedInduction, TLAPS

AtEndOf(fr) == fr.pos = Reads[fr.file]

\* An (archive, place) pair from which a loader can go on.
At(p, fr) == p.agg = Containing(fr.file) /\ p.at = [file |-> fr.file, pos |-> fr.pos]

\* Which calls nest in which.
Frames(st, i) ==
  /\ st[i].kind = "window" => i = 1 /\ st[i].file \in Windows
  /\ st[i].kind = "pointer" => i = Len(st) /\ st[i].file \in Pictures
  /\ st[i].kind = "cursor" =>
       i = 1 /\ Len(st) = 2 /\ st[2].kind = "resource" /\ st[2].file \in Icons
  /\ st[i].kind = "resource" => st[i].file \in Resources /\ st[i].obj \in Addr
  /\ i > 1 /\ st[i].kind = "resource" /\ st[i - 1].kind = "resource" =>
       st[i - 1].file \in Fonts /\ AtEndOf(st[i - 1]) /\ st[i].file \in Icons
ShapeOf(st) == \A i \in 1..Len(st) : Frames(st, i)

\* A load inside a window's or a cursor's; the icon inside a font's is not
\* protected, but the font has been read by then.
Nested(st) == Len(st) > 1 /\ st[1].kind \in {"window", "cursor"} /\ st[2].kind = "resource"
Drawing(st) == st # <<>> /\ st[Len(st)].kind = "pointer"

TopOf(st) == st[Len(st)]
Reading(st, cur, off) ==
  st # <<>> /\ TopOf(st).kind # "cursor" /\ ~AtEndOf(TopOf(st)) =>
    At([agg |-> cur, at |-> off[cur]], TopOf(st))

PositionsOf(st, sv, cur, off) ==
  /\ Len(sv) = (IF Nested(st) THEN 1 ELSE 0) + (IF Drawing(st) THEN 2 ELSE 0)
  /\ Nested(st) /\ st[1].kind = "window" => At(sv[1], st[1])
  /\ Drawing(st) /\ Len(st) > 1 /\ ~AtEndOf(st[Len(st) - 1]) =>
       At(sv[Len(sv) - 1], st[Len(st) - 1])
  /\ Reading(st, cur, off)

\* The objects under construction are alive, and their files not cached.
Loading(st, heap, list) ==
  \A i \in 1..Len(st) : st[i].kind = "resource" =>
    /\ heap[st[i].obj].file = st[i].file
    /\ \A a \in list : heap[a].file # st[i].file

Heap ==
  /\ Loading(stack, object, cached)
  /\ \A a \in cached : object[a] # Free
  /\ CachedOnce
  /\ phase # "open" => stack = <<>>
  /\ phase = "open" => next = Null
  /\ ExpungeNextIsAlive

Inv ==
  /\ TypeOK
  /\ ShapeOf(stack)
  /\ PositionsOf(stack, saved, curHandleIdx, offset)
  /\ Heap

\* A pointer is only drawn for a cursor.
Pointed == Drawing(stack) => cursor.category \in Cursors

Store == [Addr -> Object \cup {Free}]
-----------------------------------------------------------------------------
(* The operators *)

\* The archives are searched in order, so every file has a first one.
LEMMA ContainingType ==
  ASSUME NEW f \in File
  PROVE  Containing(f) \in Archives
<1> DEFINE T == {i \in Archives : f \in Contents[i]}
           R == {p \in Nat \X Nat : p[1] < p[2]}
<1>1. T # {} /\ T \subseteq Nat
  BY ArchivesAssumption DEF Archives
<1>2. IsWellFoundedOn(R, Nat)
  BY NatLessThanWellFounded DEF OpToRel
<1> HIDE DEF R, T
<1>3. PICK i \in T : \A j \in T : ~(<<j, i>> \in R)
  BY <1>1, <1>2, WFMin
<1>4. ASSUME NEW j \in T PROVE i <= j
  <2>1. i \in Nat /\ j \in Nat
    BY <1>1
  <2>2. j < i => <<j, i>> \in R
    BY <2>1 DEF R
  <2>3. ~(j < i)
    BY <1>3, <2>2
  <2> QED
    BY <2>1, <2>3
<1> QED
  BY <1>3, <1>4 DEF T, Containing

\* An address is free exactly when it carries no file.
LEMMA FreeOrObject ==
  ASSUME NEW heap \in Store, NEW a \in Addr
  PROVE  /\ heap[a] = Free <=> heap[a].file = Null
         /\ heap[a] # Free => heap[a] \in Object
         /\ heap[a].glyph \in Addr \cup {Null}
         /\ heap[a].refs > 1 => heap[a] \in Object
BY KindsAssumption DEF Store, Object, Free, File

\* Disposing only counts down or frees: no address gets another file.
Shrinks(heap, new) ==
  /\ new \in Store
  /\ \A b \in Addr : new[b] # Free => heap[b] # Free /\ new[b].file = heap[b].file

LEMMA FreeShrinks ==
  ASSUME NEW heap \in Store, NEW a \in Addr
  PROVE  Shrinks(heap, [heap EXCEPT ![a] = Free])
BY DEF Shrinks, Store

LEMMA UnreferenceShrinks ==
  ASSUME NEW heap \in Store, NEW a \in Addr, heap[a].refs > 1
  PROVE  Shrinks(heap, Unreference(heap, a))
<1>1. heap[a] \in Object
  BY FreeOrObject
<1>2. [heap[a] EXCEPT !.refs = @ - 1] \in Object
  BY <1>1 DEF Object
<1>3. Unreference(heap, a) = [heap EXCEPT ![a] = [heap[a] EXCEPT !.refs = @ - 1]]
  BY DEF Unreference, Store
<1>4. Unreference(heap, a) \in Store
  BY <1>2, <1>3 DEF Store
<1>5. \A b \in Addr : Unreference(heap, a)[b].file = heap[b].file
  BY <1>1, <1>3 DEF Store, Object
<1> QED
  BY <1>4, <1>5, FreeOrObject DEF Shrinks

LEMMA DisposeIconShrinks ==
  ASSUME NEW heap \in Store, NEW a \in Addr
  PROVE  Shrinks(heap, DisposeIcon(heap, a))
<1>1. Shrinks(heap, heap)
  BY DEF Shrinks
<1> QED
  BY <1>1, FreeShrinks, UnreferenceShrinks DEF DisposeIcon

LEMMA DeleteShrinks ==
  ASSUME NEW heap \in Store, NEW a \in Addr
  PROVE  Shrinks(heap, Delete(heap, a))
<1> DEFINE rest == [heap EXCEPT ![a] = Free]
<1>1. Shrinks(heap, rest)
  BY FreeShrinks
<1>2. CASE heap[a].glyph = Null
  BY <1>1, <1>2 DEF Delete
<1>3. CASE heap[a].glyph # Null
  <2> DEFINE g == heap[a].glyph
  <2>1. g \in Addr
    BY <1>3, FreeOrObject
  <2>2. Shrinks(rest, DisposeIcon(rest, g))
    BY <1>1, <2>1, DisposeIconShrinks DEF Shrinks
  <2>3. Delete(heap, a) = DisposeIcon(rest, g)
    BY <1>3 DEF Delete
  <2> HIDE DEF rest, g
  <2> QED
    BY <1>1, <2>2, <2>3 DEF Shrinks
<1> QED
  BY <1>2, <1>3

LEMMA DisposeShrinks ==
  ASSUME NEW heap \in Store, NEW a \in Addr \cup {Null}
  PROVE  Shrinks(heap, Dispose(heap, a))
<1>1. Shrinks(heap, heap)
  BY DEF Shrinks
<1> QED
  BY <1>1, DeleteShrinks, UnreferenceShrinks DEF Dispose
-----------------------------------------------------------------------------
(* Calls and returns: which loads nest in which *)

LEMMA PushFacts ==
  ASSUME NEW S, NEW s \in Seq(S), NEW x \in S
  PROVE  /\ Len(s) \in Nat
         /\ Append(s, x) \in Seq(S) /\ Append(s, x) # <<>>
         /\ Len(Append(s, x)) = Len(s) + 1
         /\ Append(s, x)[Len(s) + 1] = x
         /\ \A i \in 1..Len(s) : Append(s, x)[i] = s[i]
<1>1. Len(s) \in Nat
  OBVIOUS
<1> QED
  BY <1>1, AppendProperties

LEMMA PushOnNone ==
  ASSUME NEW S, NEW x \in S
  PROVE  LET new == Append(<<>>, x) IN
         new \in Seq(S) /\ Len(new) = 1 /\ new[1] = x /\ new # <<>>
<1>1. \A s \in Seq(S) : s = <<>> =>
        LET new == Append(s, x) IN
        new \in Seq(S) /\ Len(new) = 1 /\ new[1] = x /\ new # <<>>
  <2> TAKE s \in Seq(S)
  <2> DEFINE new == Append(s, x)
  <2>1. new \in Seq(S) /\ Len(new) = Len(s) + 1 /\ new[Len(s) + 1] = x /\ new # <<>>
    BY PushFacts
  <2>2. s = <<>> => Len(s) = 0
    OBVIOUS
  <2> HIDE DEF new
  <2> QED
    BY <2>1, <2>2 DEF new
<1>2. <<>> \in Seq(S)
  OBVIOUS
<1> QED
  BY <1>1, <1>2

LEMMA PushOnOne ==
  ASSUME NEW S, NEW s \in Seq(S), NEW x \in S
  PROVE  Len(s) = 1 => LET new == Append(s, x) IN
           Len(new) = 2 /\ new[2] = x /\ new[1] = s[1] /\ new # <<>>
<1> DEFINE new == Append(s, x)
<1>1. /\ Len(new) = Len(s) + 1 /\ new[Len(s) + 1] = x /\ new # <<>>
      /\ \A i \in 1..Len(s) : new[i] = s[i]
  BY PushFacts
<1> HIDE DEF new
<1> QED
  BY <1>1 DEF new

LEMMA PrefixFacts ==
  ASSUME NEW S, NEW s \in Seq(S), NEW n \in 0..Len(s)
  PROVE  /\ SubSeq(s, 1, n) \in Seq(S) /\ Len(SubSeq(s, 1, n)) = n
         /\ \A i \in 1..n : SubSeq(s, 1, n)[i] = s[i]
<1> DEFINE p == SubSeq(s, 1, n)
<1>1. n \in Int /\ 1 \in Int /\ n \in Nat /\ \A i \in 1..n : s[i] \in S
  OBVIOUS
<1>2. /\ p \in Seq(S)
      /\ Len(p) = IF 1 <= n THEN n - 1 + 1 ELSE 0
      /\ \A i \in 1 .. n - 1 + 1 : p[i] = s[1 + i - 1]
  <2> HIDE DEF p
  <2> QED
    BY <1>1, SubSeqProperties DEF p
<1> HIDE DEF p
<1>3. Len(p) = n
  BY <1>1, <1>2
<1>4. \A i \in 1..n : p[i] = s[i]
  BY <1>1, <1>2
<1> QED
  BY <1>2, <1>3, <1>4 DEF p

LEMMA PushShape ==
  ASSUME NEW st \in Seq(Frame), NEW fr \in Frame, ShapeOf(st),
         \A i \in 1..Len(st) : st[i].kind \notin {"cursor", "pointer"},
         \/ fr.kind = "window" /\ st = <<>> /\ fr.file \in Windows
         \/ fr.kind = "pointer" /\ fr.file \in Pictures
         \/ /\ fr.kind = "resource" /\ fr.file \in Resources /\ fr.obj \in Addr
            /\ st # <<>> /\ TopOf(st).kind = "resource" =>
                 TopOf(st).file \in Fonts /\ AtEndOf(TopOf(st)) /\ fr.file \in Icons
  PROVE  Append(st, fr) \in Seq(Frame) /\ ShapeOf(Append(st, fr))
<1> DEFINE new == Append(st, fr)
<1>1. /\ new \in Seq(Frame) /\ Len(new) = Len(st) + 1 /\ new[Len(st) + 1] = fr
      /\ \A i \in 1..Len(st) : new[i] = st[i]
      /\ Len(st) \in Nat
  BY PushFacts
<1> HIDE DEF new
<1>2. ASSUME NEW i \in 1..Len(st) PROVE Frames(new, i)
  <2>1. Frames(st, i) /\ new[i] = st[i] /\ st[i].kind \notin {"cursor", "pointer"}
    BY <1>1 DEF ShapeOf
  <2>2. i > 1 => new[i - 1] = st[i - 1]
    BY <1>1
  <2> QED
    BY <2>1, <2>2 DEF Frames
<1>3. Frames(new, Len(st) + 1)
  <2>1. st = <<>> => Len(st) = 0
    OBVIOUS
  <2>2. Len(st) > 0 => new[Len(st)] = TopOf(st) /\ TopOf(st).kind # "pointer" /\ st # <<>>
    BY <1>1 DEF TopOf
  <2> QED
    BY <1>1, <2>1, <2>2 DEF Frames
<1> QED
  BY <1>1, <1>2, <1>3 DEF ShapeOf, new

LEMMA PopShape ==
  ASSUME NEW st \in Seq(Frame), st # <<>>, ShapeOf(st),
         \A i \in 1..Len(st) : st[i].kind # "cursor"
  PROVE  /\ SubSeq(st, 1, Len(st) - 1) \in Seq(Frame)
         /\ ShapeOf(SubSeq(st, 1, Len(st) - 1))
         /\ Len(SubSeq(st, 1, Len(st) - 1)) = Len(st) - 1
         /\ \A i \in 1..Len(st) - 1 : SubSeq(st, 1, Len(st) - 1)[i] = st[i]
<1> DEFINE new == SubSeq(st, 1, Len(st) - 1)
<1>1. Len(st) \in Nat \ {0} /\ Len(st) - 1 \in 0..Len(st)
  OBVIOUS
<1>2. /\ new \in Seq(Frame) /\ Len(new) = Len(st) - 1
      /\ \A i \in 1..Len(st) - 1 : new[i] = st[i]
  BY <1>1, PrefixFacts
<1> HIDE DEF new
<1>3. ASSUME NEW i \in 1..Len(st) - 1 PROVE Frames(new, i)
  <2>1. Frames(st, i) /\ new[i] = st[i] /\ st[i].kind # "cursor" /\ i # Len(st)
    BY <1>1, <1>2 DEF ShapeOf
  <2>2. i > 1 => new[i - 1] = st[i - 1]
    BY <1>2
  <2> QED
    BY <2>1, <2>2 DEF Frames
<1> QED
  BY <1>2, <1>3 DEF ShapeOf, new

\* A cursor waits for its icon with nothing below it and nothing above that.
LEMMA CursorShape ==
  ASSUME NEW st \in Seq(Frame), ShapeOf(st),
         NEW i \in 1..Len(st), st[i].kind = "cursor"
  PROVE  i = 1 /\ Len(st) = 2 /\ st[2].kind = "resource" /\ st[2].file \in Icons
BY DEF ShapeOf, Frames
-----------------------------------------------------------------------------
(* Calls and returns: where the archives stand *)

\* PointToFile makes the file just opened the one that is read next.
Fresh(fr, cur, off) ==
  fr.pos = 0 /\ cur = Containing(fr.file) /\ off[cur] = [file |-> fr.file, pos |-> 0]

\* Loads nothing waits for, and loads of a font that has been read.
LEMMA PushUnsaved ==
  ASSUME NEW st \in Seq(Frame), NEW fr \in Frame, NEW sv \in Seq(Saved),
         NEW cur, NEW off, NEW cur0, NEW off0,
         PositionsOf(st, sv, cur0, off0), Fresh(fr, cur, off),
         fr.kind # "pointer", st = <<>> \/ TopOf(st).kind = "resource"
  PROVE  PositionsOf(Append(st, fr), sv, cur, off)
<1> DEFINE new == Append(st, fr)
<1>1. /\ Len(new) = Len(st) + 1 /\ new[Len(st) + 1] = fr /\ new # <<>>
      /\ \A i \in 1..Len(st) : new[i] = st[i]
      /\ Len(st) \in Nat
  BY PushFacts
<1> HIDE DEF new
<1>2. ~Drawing(st) /\ ~Drawing(new)
  BY <1>1 DEF Drawing, TopOf
<1>3. Nested(new) <=> Nested(st)
  BY <1>1 DEF Nested, TopOf
<1>4. Nested(st) => new[1] = st[1]
  BY <1>1 DEF Nested
<1>5. Reading(new, cur, off)
  BY <1>1 DEF Reading, TopOf, Fresh, At
<1> QED
  BY <1>2, <1>3, <1>4, <1>5 DEF PositionsOf, new

\* A widget saves the position of its window's layout around its load.
LEMMA PushSaved ==
  ASSUME NEW st \in Seq(Frame), NEW fr \in Frame, NEW sv \in Seq(Saved),
         NEW cur, NEW off, NEW cur0, NEW off0,
         [agg |-> cur0, at |-> off0[cur0]] \in Saved,
         PositionsOf(st, sv, cur0, off0), Fresh(fr, cur, off),
         Len(st) = 1, st[1].kind = "window", ~AtEndOf(st[1]), fr.kind = "resource"
  PROVE  PositionsOf(Append(st, fr), Append(sv, [agg |-> cur0, at |-> off0[cur0]]), cur, off)
<1> DEFINE new == Append(st, fr)
           here == [agg |-> cur0, at |-> off0[cur0]]
           nsv == Append(sv, here)
<1>1. Len(new) = 2 /\ new[2] = fr /\ new[1] = st[1] /\ new # <<>>
  BY PushOnOne
<1>2. At(here, st[1]) /\ Len(sv) = 0
  BY DEF PositionsOf, Reading, TopOf, Nested, Drawing
<1>3. Len(nsv) = 1 /\ nsv[1] = here
  BY <1>2, PushFacts
<1> HIDE DEF new, here, nsv
<1>4. Reading(new, cur, off)
  BY <1>1 DEF Reading, TopOf, Fresh, At
<1>5. Nested(new) /\ ~Drawing(new)
  BY <1>1 DEF Nested, Drawing
<1> QED
  BY <1>1, <1>2, <1>3, <1>4, <1>5 DEF PositionsOf, new, nsv, here

\* SetPointer waits for its icon, the position saved.
LEMMA PushCursor ==
  ASSUME NEW wait \in Frame, NEW fr \in Frame, NEW sv \in Seq(Saved), Len(sv) = 1,
         NEW cur, NEW off, Fresh(fr, cur, off),
         wait.kind = "cursor", fr.kind = "resource",
         fr.file \in Icons, fr.obj \in Addr
  PROVE  LET new == Append(Append(<<>>, wait), fr) IN
         /\ new \in Seq(Frame)
         /\ Len(new) = 2 /\ new[1] = wait /\ new[2] = fr
         /\ ShapeOf(new) /\ PositionsOf(new, sv, cur, off)
<1> DEFINE new == Append(Append(<<>>, wait), fr)
           one == Append(<<>>, wait)
<1>1. one \in Seq(Frame) /\ Len(one) = 1 /\ one[1] = wait
  BY PushOnNone
<1>2. new \in Seq(Frame) /\ Len(new) = 2 /\ new[1] = wait /\ new[2] = fr /\ new # <<>>
  <2> HIDE DEF one
  <2>1. new \in Seq(Frame)
    BY <1>1, PushFacts DEF one
  <2> QED
    BY <1>1, <2>1, PushOnOne DEF one
<1> HIDE DEF new
<1>3. ShapeOf(new)
  <2>1. Frames(new, 1)
    BY <1>2 DEF Frames
  <2>2. Frames(new, 2)
    BY <1>2 DEF Frames, Resources
  <2> QED
    BY <1>2, <2>1, <2>2 DEF ShapeOf
<1>4. Nested(new) /\ ~Drawing(new)
  BY <1>2 DEF Nested, Drawing
<1>5. Reading(new, cur, off)
  BY <1>2 DEF Reading, TopOf, Fresh, At
<1>6. PositionsOf(new, sv, cur, off)
  BY <1>2, <1>4, <1>5 DEF PositionsOf
<1> QED
  BY <1>2, <1>3, <1>6 DEF new

\* A pointer is drawn in the middle of any read, the position saved twice.
LEMMA PushPointer ==
  ASSUME NEW st \in Seq(Frame), NEW fr \in Frame, NEW sv \in Seq(Saved),
         NEW cur, NEW off, NEW cur0, NEW off0,
         [agg |-> cur0, at |-> off0[cur0]] \in Saved,
         PositionsOf(st, sv, cur0, off0), Fresh(fr, cur, off),
         \A i \in 1..Len(st) : st[i].kind \notin {"cursor", "pointer"},
         fr.kind = "pointer"
  PROVE  LET here == [agg |-> cur0, at |-> off0[cur0]] IN
         /\ Append(Append(sv, here), here) \in Seq(Saved)
         /\ PositionsOf(Append(st, fr), Append(Append(sv, here), here), cur, off)
<1> DEFINE new == Append(st, fr)
           here == [agg |-> cur0, at |-> off0[cur0]]
           once == Append(sv, here)
           nsv == Append(once, here)
<1>1. /\ Len(new) = Len(st) + 1 /\ new[Len(st) + 1] = fr /\ new # <<>>
      /\ \A i \in 1..Len(st) : new[i] = st[i]
      /\ Len(st) \in Nat
  BY PushFacts
<1>2. /\ once \in Seq(Saved) /\ Len(once) = Len(sv) + 1 /\ once[Len(sv) + 1] = here
      /\ \A i \in 1..Len(sv) : once[i] = sv[i]
      /\ Len(sv) \in Nat
  BY PushFacts
<1>3. here \in Saved
  OBVIOUS
<1> HIDE DEF new, here, once
<1>4. /\ nsv \in Seq(Saved) /\ Len(nsv) = Len(once) + 1
      /\ \A i \in 1..Len(once) : nsv[i] = once[i]
  BY <1>2, <1>3, PushFacts
<1> HIDE DEF nsv
<1>5. /\ Len(nsv) = Len(sv) + 2 /\ nsv[Len(nsv) - 1] = here
      /\ \A i \in 1..Len(sv) : nsv[i] = sv[i]
  BY <1>2, <1>4
<1>6. Drawing(new) /\ ~Drawing(st)
  BY <1>1 DEF Drawing, TopOf
<1>7. Nested(new) <=> Nested(st)
  BY <1>1 DEF Nested
<1>8. Nested(st) => new[1] = st[1] /\ Len(sv) = 1
  BY <1>1, <1>6 DEF Nested, PositionsOf
<1>9. Len(nsv) = (IF Nested(new) THEN 1 ELSE 0) + 2
  BY <1>5, <1>6, <1>7 DEF PositionsOf
<1>10. Nested(new) /\ new[1].kind = "window" => At(nsv[1], new[1])
  BY <1>2, <1>5, <1>7, <1>8 DEF PositionsOf
<1>11. Len(new) > 1 /\ ~AtEndOf(new[Len(new) - 1]) => At(here, new[Len(new) - 1])
  <2> SUFFICES ASSUME Len(new) > 1, ~AtEndOf(new[Len(new) - 1])
               PROVE  At(here, new[Len(new) - 1])
    OBVIOUS
  <2>1. new[Len(new) - 1] = TopOf(st) /\ st # <<>> /\ Len(st) \in 1..Len(st)
    BY <1>1 DEF TopOf
  <2>2. TopOf(st).kind # "cursor"
    BY <2>1 DEF TopOf
  <2> QED
    BY <2>1, <2>2 DEF PositionsOf, Reading, here
<1>12. Reading(new, cur, off)
  BY <1>1 DEF Reading, TopOf, Fresh, At
<1>13. PositionsOf(new, nsv, cur, off)
  BY <1>5, <1>6, <1>9, <1>10, <1>11, <1>12 DEF PositionsOf
<1> QED
  BY <1>4, <1>13 DEF new, nsv, once, here

\* ... and both saved positions are dropped when it returns.
LEMMA PopPointer ==
  ASSUME NEW st \in Seq(Frame), NEW sv \in Seq(Saved), NEW cur0, NEW off0,
         NEW cur, NEW off,
         st # <<>>, TopOf(st).kind = "pointer", ShapeOf(st),
         PositionsOf(st, sv, cur0, off0),
         cur = sv[Len(sv) - 1].agg, off[cur] = sv[Len(sv) - 1].at
  PROVE  /\ Len(sv) >= 2
         /\ PositionsOf(SubSeq(st, 1, Len(st) - 1), SubSeq(sv, 1, Len(sv) - 2), cur, off)
<1> DEFINE new == SubSeq(st, 1, Len(st) - 1)
           nsv == SubSeq(sv, 1, Len(sv) - 2)
<1>1. Len(st) \in Nat \ {0} /\ Len(sv) \in Nat /\ Len(st) - 1 \in 0..Len(st)
  OBVIOUS
<1>2. Drawing(st) /\ Len(sv) >= 2
  BY DEF Drawing, TopOf, PositionsOf
<1>3. Len(new) = Len(st) - 1 /\ \A i \in 1..Len(st) - 1 : new[i] = st[i]
  BY <1>1, PrefixFacts
<1>4. Len(sv) - 2 \in 0..Len(sv)
  BY <1>1, <1>2
<1>5. Len(nsv) = Len(sv) - 2 /\ \A i \in 1..Len(sv) - 2 : nsv[i] = sv[i]
  BY <1>4, PrefixFacts
<1> HIDE DEF new, nsv
<1>6. \A i \in 1..Len(new) : new[i].kind # "pointer"
  BY <1>1, <1>3 DEF ShapeOf, Frames
<1>7. ~Drawing(new)
  BY <1>1, <1>3, <1>6 DEF Drawing
<1>8. Nested(new) <=> Nested(st)
  BY <1>1, <1>3 DEF Nested, TopOf
<1>9. Nested(st) => new[1] = st[1] /\ nsv[1] = sv[1]
  BY <1>1, <1>2, <1>3, <1>5, <1>8 DEF Nested, PositionsOf
<1>10. Reading(new, cur, off)
  <2> SUFFICES ASSUME new # <<>>, ~AtEndOf(TopOf(new))
               PROVE  At([agg |-> cur, at |-> off[cur]], TopOf(new))
    BY DEF Reading
  <2>1. Len(st) > 1 /\ TopOf(new) = st[Len(st) - 1]
    BY <1>1, <1>3 DEF TopOf, new
  <2>2. At(sv[Len(sv) - 1], st[Len(st) - 1])
    BY <1>2, <2>1 DEF PositionsOf
  <2> QED
    BY <2>1, <2>2 DEF At
<1>11. Len(nsv) = (IF Nested(new) THEN 1 ELSE 0) + (IF Drawing(new) THEN 2 ELSE 0)
  BY <1>1, <1>2, <1>5, <1>7, <1>8 DEF PositionsOf
<1>12. Nested(new) /\ new[1].kind = "window" => At(nsv[1], new[1])
  BY <1>8, <1>9 DEF PositionsOf
<1>13. PositionsOf(new, nsv, cur, off)
  BY <1>7, <1>10, <1>11, <1>12 DEF PositionsOf
<1> QED
  BY <1>2, <1>13 DEF new, nsv

LEMMA LastIndex ==
  ASSUME NEW n \in Nat \ {0}
  PROVE  /\ \A i \in 1..n : i = n \/ i \in 1 .. n - 1
         /\ n = 1 \/ n > 1
OBVIOUS

LEMMA NobodyReads ==
  ASSUME NEW sv \in Seq(Saved), Len(sv) = 0, NEW cur, NEW off
  PROVE  ShapeOf(<<>>) /\ PositionsOf(<<>>, sv, cur, off)
<1>1. Len(<<>>) = 0
  OBVIOUS
<1> QED
  BY <1>1 DEF ShapeOf, PositionsOf, Nested, Drawing, Reading

\* A load that nothing waited for ends, or one that a font made.
LEMMA PopUnsaved ==
  ASSUME NEW st \in Seq(Frame), NEW sv \in Seq(Saved), NEW cur, NEW off,
         st # <<>>, ShapeOf(st), PositionsOf(st, sv, cur, off),
         TopOf(st).kind \in {"window", "resource"},
         Len(st) > 1 => st[Len(st) - 1].kind = "resource"
  PROVE  PositionsOf(SubSeq(st, 1, Len(st) - 1), sv, cur, off)
<1> DEFINE new == SubSeq(st, 1, Len(st) - 1)
<1>1. Len(st) \in Nat \ {0} /\ Len(st) - 1 \in 0..Len(st)
  OBVIOUS
<1>2. new \in Seq(Frame) /\ Len(new) = Len(st) - 1 /\ \A i \in 1..Len(st) - 1 : new[i] = st[i]
  BY <1>1, PrefixFacts
<1> HIDE DEF new
<1>3. Frames(st, Len(st))
  BY <1>1 DEF ShapeOf
<1>4. Len(st) > 1 => st[Len(st)].kind = "resource"
  BY <1>1, <1>3 DEF Frames, TopOf
<1>5. ~Drawing(st)
  BY DEF Drawing, TopOf
<1>6. ~Drawing(new)
  BY <1>1, <1>2 DEF Drawing
<1>7. Nested(new) <=> Nested(st)
  BY <1>1, <1>2 DEF Nested
<1>8. Nested(st) => new[1] = st[1]
  BY <1>1, <1>2 DEF Nested
<1>9. Reading(new, cur, off)
  <2>1. CASE Len(st) = 1
    <3>1. new = <<>>
      BY <1>2, <2>1, EmptySeq
    <3> QED
      BY <3>1 DEF Reading
  <2>2. CASE Len(st) > 1
    <3>1. AtEndOf(st[Len(st) - 1])
      BY <1>3, <1>4, <2>2 DEF Frames
    <3>2. TopOf(new) = st[Len(st) - 1]
      BY <1>1, <1>2, <2>2 DEF TopOf
    <3> QED
      BY <3>1, <3>2 DEF Reading
  <2>3. Len(st) = 1 \/ Len(st) > 1
    BY <1>1, LastIndex
  <2> QED
    BY <2>1, <2>2, <2>3
<1> QED
  BY <1>5, <1>6, <1>7, <1>8, <1>9 DEF PositionsOf, new

\* A widget's load ends: the window's layout is read on where it stood.
LEMMA PopSaved ==
  ASSUME NEW st \in Seq(Frame), NEW sv \in Seq(Saved), NEW cur0, NEW off0,
         NEW cur, NEW off,
         st # <<>>, ShapeOf(st), PositionsOf(st, sv, cur0, off0),
         TopOf(st).kind = "resource", Len(st) > 1,
         st[Len(st) - 1].kind = "window",
         cur = sv[Len(sv)].agg, off[cur] = sv[Len(sv)].at
  PROVE  /\ Len(sv) = 1
         /\ PositionsOf(SubSeq(st, 1, Len(st) - 1), SubSeq(sv, 1, Len(sv) - 1), cur, off)
<1> DEFINE new == SubSeq(st, 1, Len(st) - 1)
           nsv == SubSeq(sv, 1, Len(sv) - 1)
<1>1. Len(st) \in Nat \ {0} /\ Len(st) - 1 \in 0..Len(st)
  OBVIOUS
<1>2. new \in Seq(Frame) /\ Len(new) = Len(st) - 1 /\ \A i \in 1..Len(st) - 1 : new[i] = st[i]
  BY <1>1, PrefixFacts
<1>3. Len(st) = 2
  <2>1. Len(st) - 1 \in 1..Len(st)
    BY <1>1
  <2>2. Frames(st, Len(st) - 1)
    BY <2>1 DEF ShapeOf
  <2>3. Len(st) - 1 = 1
    BY <2>2 DEF Frames
  <2> QED
    BY <1>1, <2>3
<1>4. Nested(st) /\ ~Drawing(st)
  BY <1>3 DEF Nested, Drawing, TopOf
<1>5. Len(sv) = 1 /\ At(sv[1], st[1])
  BY <1>3, <1>4 DEF PositionsOf
<1>6. Len(nsv) = 0
  BY <1>5, PrefixFacts
<1> HIDE DEF new, nsv
<1>7. ~Nested(new) /\ ~Drawing(new)
  BY <1>2, <1>3 DEF Nested, Drawing
<1>8. Reading(new, cur, off)
  BY <1>2, <1>3, <1>5 DEF Reading, TopOf, At
<1>9. PositionsOf(new, nsv, cur, off)
  BY <1>6, <1>7, <1>8 DEF PositionsOf
<1> QED
  BY <1>5, <1>9 DEF new, nsv

LEMMA Advances ==
  /\ \A p \in Place : [p EXCEPT !.pos = @ + 1] \in Place
  /\ \A fr \in Frame : [fr EXCEPT !.pos = @ + 1] \in Frame
BY DEF Place, Frame

\* One read moves the reader and the archive it reads from alike.
LEMMA ReadOn ==
  ASSUME NEW st \in Seq(Frame), NEW sv \in Seq(Saved),
         NEW cur \in Archives, NEW off \in [Archives -> Place],
         st # <<>>, ShapeOf(st), PositionsOf(st, sv, cur, off),
         TopOf(st).kind # "cursor", ~AtEndOf(TopOf(st))
  PROVE  LET new == [st EXCEPT ![Len(st)].pos = @ + 1]
             noff == [off EXCEPT ![cur].pos = @ + 1]
         IN /\ new \in Seq(Frame) /\ noff \in [Archives -> Place]
            /\ Len(new) = Len(st)
            /\ \A i \in 1..Len(st) :
                 new[i].kind = st[i].kind /\ new[i].file = st[i].file /\ new[i].obj = st[i].obj
            /\ ShapeOf(new) /\ PositionsOf(new, sv, cur, noff)
<1> DEFINE new == [st EXCEPT ![Len(st)].pos = @ + 1]
           noff == [off EXCEPT ![cur].pos = @ + 1]
<1>1. Len(st) \in Nat \ {0} /\ Len(st) \in 1..Len(st) /\ DOMAIN st = 1..Len(st)
      /\ \A i \in 1..Len(st) : st[i] \in Frame
  OBVIOUS
<1>2. [TopOf(st) EXCEPT !.pos = @ + 1] \in Frame
  <2>1. TopOf(st) \in Frame
    BY <1>1 DEF TopOf
  <2> QED
    BY <2>1, Advances
<1>3. new = [st EXCEPT ![Len(st)] = [TopOf(st) EXCEPT !.pos = @ + 1]]
  BY <1>1 DEF TopOf
<1>4. /\ new \in Seq(Frame) /\ Len(new) = Len(st)
      /\ new[Len(st)] = [TopOf(st) EXCEPT !.pos = @ + 1]
      /\ \A i \in 1..Len(st) - 1 : new[i] = st[i]
  BY <1>1, <1>2, <1>3
<1>5. TopOf(st) \in Frame
  BY <1>1 DEF TopOf
<1>6. noff \in [Archives -> Place] /\ noff[cur] = [off[cur] EXCEPT !.pos = @ + 1]
  <2> DEFINE p == [off[cur] EXCEPT !.pos = @ + 1]
  <2>1. off[cur] \in Place
    OBVIOUS
  <2>2. p \in Place
    BY <2>1, Advances
  <2>3. noff = [off EXCEPT ![cur] = p]
    OBVIOUS
  <2> HIDE DEF p, noff
  <2>4. noff \in [Archives -> Place] /\ noff[cur] = p
    BY <2>2, <2>3
  <2> QED
    BY <2>4 DEF p
<1> HIDE DEF new, noff
<1>7. \A i \in 1..Len(st) :
        new[i].kind = st[i].kind /\ new[i].file = st[i].file /\ new[i].obj = st[i].obj
  <2>1. /\ new[Len(st)].kind = st[Len(st)].kind /\ new[Len(st)].file = st[Len(st)].file
        /\ new[Len(st)].obj = st[Len(st)].obj
    BY <1>4, <1>5 DEF Frame, TopOf
  <2>2. \A i \in 1..Len(st) : i = Len(st) \/ i \in 1..Len(st) - 1
    BY <1>1, LastIndex
  <2> QED
    BY <1>4, <2>1, <2>2
<1>8. ShapeOf(new)
  <2> SUFFICES ASSUME NEW i \in 1..Len(st) PROVE Frames(new, i)
    BY <1>4 DEF ShapeOf
  <2>1. Frames(st, i)
    BY DEF ShapeOf
  <2>2. i > 1 => i - 1 \in 1..Len(st) /\ new[i - 1] = st[i - 1]
    BY <1>1, <1>4
  <2>3. st[i].kind = "cursor" => 2 \in 1..Len(st)
    <3>1. st[i].kind = "cursor" => Len(st) = 2
      BY <2>1 DEF Frames
    <3>2. 2 \in 1..2
      OBVIOUS
    <3> QED
      BY <3>1, <3>2, Zenon
  <2> QED
    BY <1>4, <1>7, <2>1, <2>2, <2>3 DEF Frames
<1>9. At([agg |-> cur, at |-> noff[cur]], new[Len(st)])
  <2>1. At([agg |-> cur, at |-> off[cur]], TopOf(st))
    BY DEF PositionsOf, Reading
  <2> QED
    <3>1. /\ new[Len(st)].file = TopOf(st).file
          /\ new[Len(st)].pos = TopOf(st).pos + 1
      BY <1>4, <1>5 DEF Frame
    <3>2. noff[cur] = [file |-> TopOf(st).file, pos |-> TopOf(st).pos + 1]
      BY <1>6, <2>1 DEF At
    <3> QED
      BY <2>1, <3>1, <3>2 DEF At
<1>10. (Nested(new) <=> Nested(st)) /\ (Drawing(new) <=> Drawing(st))
  <2>1. Len(st) > 1 => 2 \in 1..Len(st) /\ 1 \in 1..Len(st)
    BY <1>1
  <2>2. new # <<>>
    BY <1>1, <1>4
  <2> QED
    BY <1>1, <1>4, <1>7, <2>1, <2>2 DEF Nested, Drawing, TopOf
<1>11. Len(st) > 1 => new[1] = st[1] /\ new[Len(st) - 1] = st[Len(st) - 1]
  <2>1. Len(st) > 1 => 1 \in 1..Len(st) - 1 /\ Len(st) - 1 \in 1..Len(st) - 1
    BY <1>1
  <2> QED
    BY <1>4, <2>1
<1>12. PositionsOf(new, sv, cur, noff)
  BY <1>4, <1>9, <1>10, <1>11 DEF PositionsOf, Reading, TopOf, Nested
<1> QED
  BY <1>4, <1>6, <1>7, <1>8, <1>12 DEF new, noff
-----------------------------------------------------------------------------
(* Objects and the cache *)

LEMMA RefUp ==
  ASSUME NEW heap \in Store, NEW a \in Addr, heap[a] # Free
  PROVE  LET new == [heap EXCEPT ![a].refs = @ + 1] IN
         new \in Store /\ \A b \in Addr : new[b].file = heap[b].file
<1> DEFINE o == [heap[a] EXCEPT !.refs = @ + 1]
           new == [heap EXCEPT ![a].refs = @ + 1]
<1>1. heap[a] \in Object
  BY FreeOrObject
<1>2. o \in Object /\ o.file = heap[a].file
  BY <1>1 DEF Object
<1>3. new = [heap EXCEPT ![a] = o]
  OBVIOUS
<1> HIDE DEF o, new
<1>4. new \in Store /\ \A b \in Addr : new[b] = IF b = a THEN o ELSE heap[b]
  BY <1>2, <1>3 DEF Store
<1> QED
  BY <1>2, <1>4 DEF new

LEMMA GlyphSet ==
  ASSUME NEW heap \in Store, NEW a \in Addr, NEW b \in Addr, heap[b] # Free
  PROVE  LET new == [heap EXCEPT ![b].glyph = a] IN
         new \in Store /\ \A c \in Addr : new[c].file = heap[c].file
<1> DEFINE o == [heap[b] EXCEPT !.glyph = a]
           new == [heap EXCEPT ![b].glyph = a]
<1>1. heap[b] \in Object
  BY FreeOrObject
<1>2. o \in Object /\ o.file = heap[b].file
  BY <1>1 DEF Object
<1>3. new = [heap EXCEPT ![b] = o]
  OBVIOUS
<1> HIDE DEF o, new
<1>4. new \in Store /\ \A c \in Addr : new[c] = IF c = b THEN o ELSE heap[c]
  BY <1>2, <1>3 DEF Store
<1> QED
  BY <1>2, <1>4 DEF new

LEMMA FrameForType ==
  ASSUME NEW kind \in {"window", "resource", "cursor", "pointer"},
         NEW f \in File \cup {Null}, NEW a \in Addr \cup {Null}
  PROVE  LET fr == FrameFor(kind, f, a) IN
         fr \in Frame /\ fr.kind = kind /\ fr.file = f /\ fr.obj = a /\ fr.pos = 0
BY DEF FrameFor, Frame

LEMMA PointTo ==
  ASSUME TypeOK, NEW f \in File, PointToFile(f),
         NEW fr, fr.file = f, fr.pos = 0
  PROVE  /\ curHandleIdx' \in Archives /\ offset' \in [Archives -> Place]
         /\ Fresh(fr, curHandleIdx', offset')
<1>1. Containing(f) \in Archives
  BY ContainingType
<1>2. [file |-> f, pos |-> 0] \in Place
  BY DEF Place
<1>3. offset \in [Archives -> Place]
  BY DEF TypeOK
<1> QED
  BY <1>1, <1>2, <1>3 DEF PointToFile, Fresh

\* Two loads at once are those of a font and of its glyphs.
LEMMA TwoLoads ==
  ASSUME NEW st \in Seq(Frame), ShapeOf(st), st # <<>>, TopOf(st).kind = "resource",
         NEW i \in 1..Len(st) - 1, st[i].kind = "resource"
  PROVE  st[i].file \in Fonts /\ TopOf(st).file \in Icons
<1>1. Len(st) \in Nat \ {0} /\ \A j \in 1..Len(st) : st[j] \in Frame /\ Frames(st, j)
  BY DEF ShapeOf
<1>2. i \in 1..Len(st) /\ i + 1 \in 1..Len(st) /\ (i + 1) - 1 = i /\ i + 1 > 1
  BY <1>1
<1>3. ASSUME NEW j \in 1..Len(st), j > 1 PROVE st[j].kind = "resource"
  <2>1. Frames(st, j) /\ st[j] \in Frame
    BY <1>1
  <2>2. j = Len(st) => st[j].kind = "resource"
    BY DEF TopOf
  <2> QED
    BY <2>1, <2>2, <1>3 DEF Frames, Frame
<1>4. st[i + 1].kind = "resource"
  BY <1>2, <1>3
<1>5. Frames(st, i + 1)
  BY <1>1, <1>2
<1>6. st[i].file \in Fonts /\ st[i + 1].file \in Icons
  BY <1>2, <1>4, <1>5 DEF Frames
<1>7. CASE i + 1 = Len(st)
  BY <1>6, <1>7 DEF TopOf
<1>8. CASE i + 1 # Len(st)
  <2>1. i + 2 \in 1..Len(st) /\ i + 2 > 1 /\ (i + 2) - 1 = i + 1
    BY <1>1, <1>2, <1>8
  <2>2. Frames(st, i + 2) /\ st[i + 2].kind = "resource"
    BY <1>1, <1>3, <2>1
  <2>3. st[i + 1].file \in Fonts
    BY <1>4, <2>1, <2>2 DEF Frames
  <2> QED
    BY <1>6, <2>3, KindsAssumption
<1> QED
  BY <1>7, <1>8

\* A new object: no file that is being loaded is loaded again.
LEMMA LoadingGrows ==
  ASSUME NEW st \in Seq(Frame), ShapeOf(st), NEW heap \in Store,
         NEW list \in SUBSET Addr, Loading(st, heap, list),
         \A b \in list : heap[b] # Free,
         NEW a \in Addr, heap[a] = Free, NEW f \in Resources,
         \A b \in list : heap[b].file # f,
         NEW new \in Store, new[a].file = f, \A b \in Addr \ {a} : new[b] = heap[b],
         NEW fr \in Frame, fr.kind = "resource", fr.file = f, fr.obj = a
  PROVE  /\ Loading(Append(st, fr), new, list)
         /\ \A b \in list : new[b] # Free /\ new[b] = heap[b]
<1> DEFINE nst == Append(st, fr)
<1>1. /\ Len(nst) = Len(st) + 1 /\ nst[Len(st) + 1] = fr /\ Len(st) \in Nat
      /\ \A i \in 1..Len(st) : nst[i] = st[i]
  BY PushFacts
<1> HIDE DEF nst
<1>2. \A b \in list : b # a /\ new[b] = heap[b]
  OBVIOUS
<1>3. ASSUME NEW i \in 1..Len(st), st[i].kind = "resource"
      PROVE  new[st[i].obj] = heap[st[i].obj]
  <2>1. st[i].file \in Resources /\ st[i].obj \in Addr
    BY <1>3 DEF ShapeOf, Frames
  <2>2. heap[st[i].obj].file # Null
    BY <1>3, <2>1, KindsAssumption DEF Loading, File
  <2>3. st[i].obj # a
    BY <2>2 DEF Free
  <2> QED
    BY <2>1, <2>3
<1>4. ASSUME NEW i \in 1..Len(nst), nst[i].kind = "resource"
      PROVE  new[nst[i].obj].file = nst[i].file /\ \A b \in list : new[b].file # nst[i].file
  <2>1. CASE i = Len(st) + 1
    BY <1>1, <1>2, <2>1
  <2>2. CASE i \in 1..Len(st)
    BY <1>1, <1>2, <1>3, <1>4, <2>2 DEF Loading
  <2> QED
    BY <1>1, <2>1, <2>2
<1> QED
  BY <1>2, <1>4 DEF Loading, nst
-----------------------------------------------------------------------------
(* The actions preserve the invariant *)

USE DEF position

LEMMA StoreType == TypeOK => object \in Store
BY DEF TypeOK, Store

\* Steps that change no load, no archive, and at most reference counts.
LEMMA CountsOnly ==
  ASSUME Inv, TypeOK', object' \in Store,
         \A b \in Addr : object'[b].file = object[b].file,
         UNCHANGED <<cached, stack, position, phase, next>>
  PROVE  Inv'
<1>1. cached \subseteq Addr /\ object \in Store
  BY StoreType DEF Inv, TypeOK
<1>2. ShapeOf(stack')
  BY DEF Inv
<1>3. PositionsOf(stack', saved', curHandleIdx', offset')
  BY DEF Inv
<1>4. Loading(stack', object', cached')
  <2>1. \A i \in 1..Len(stack) : stack[i].kind = "resource" => stack[i].obj \in Addr
    BY DEF Inv, ShapeOf, Frames
  <2> QED
    BY <1>1, <2>1 DEF Inv, Heap, Loading
<1>5. \A b \in Addr : object'[b] # Free <=> object[b] # Free
  BY <1>1, FreeOrObject
<1>6. Heap'
  <2>1. \A b \in cached' : object'[b] # Free
    BY <1>1, <1>5 DEF Inv, Heap
  <2>2. CachedOnce'
    BY <1>1 DEF Inv, Heap, CachedOnce
  <2> QED
    BY <1>4, <2>1, <2>2 DEF Inv, Heap, ExpungeNextIsAlive
<1> QED
  BY <1>2, <1>3, <1>6 DEF Inv

LEMMA GetHitInv ==
  ASSUME Inv, NEW f \in Resources, GetHit(f)
  PROVE  Inv'
<1>1. PICK a \in Query(f) :
        object' = [object EXCEPT ![a].refs = @ + 1] /\ DeliverToSlot(a, f)
  BY DEF GetHit
<1>2. object \in Store /\ a \in Addr /\ object[a] # Free
  BY StoreType DEF Inv, TypeOK, Query, Heap
<1>3. object' \in Store /\ \A b \in Addr : object'[b].file = object[b].file
  <2> DEFINE new == [object EXCEPT ![a].refs = @ + 1]
  <2>1. new \in Store /\ \A b \in Addr : new[b].file = object[b].file
    BY <1>2, RefUp
  <2>2. object' = new
    BY <1>1
  <2> HIDE DEF new
  <2> QED
    BY <2>1, <2>2
<1>4. held' \in [Slots -> Hold]
  <2>1. [obj |-> a, file |-> f] \in Hold
    BY <1>2 DEF Hold
  <2> QED
    BY <1>1, <2>1 DEF DeliverToSlot, Inv, TypeOK
<1>5. TypeOK'
  BY <1>3, <1>4 DEF GetHit, Inv, TypeOK, Store
<1> QED
  BY <1>3, <1>5, CountsOnly DEF GetHit

LEMMA GlyphHitInv ==
  ASSUME Inv, GlyphHit
  PROVE  Inv'
<1>1. PICK a \in Query(Glyph[Top.file]) :
        object' = [object EXCEPT ![a].refs = @ + 1, ![Top.obj].glyph = a]
  BY DEF GlyphHit
<1>2. object \in Store /\ a \in Addr /\ object[a] # Free
  BY StoreType DEF Inv, TypeOK, Query, Heap
<1>3. Len(stack) \in 1..Len(stack)
  BY DEF GlyphHit, IsTop, Inv, TypeOK
<1>4. Top.kind = "resource" /\ Top = stack[Len(stack)]
  BY DEF GlyphHit, IsTop, Top
<1>5. Top.obj \in Addr /\ object[Top.obj] # Free
  <2>1. Top.obj \in Addr /\ Top.file \in Resources /\ object[Top.obj].file = Top.file
    BY <1>3, <1>4 DEF Inv, ShapeOf, Frames, Heap, Loading
  <2> QED
    BY <1>2, <2>1, FreeOrObject, KindsAssumption DEF File
<1> DEFINE heap == [object EXCEPT ![a].refs = @ + 1]
<1>6. heap \in Store /\ \A b \in Addr : heap[b].file = object[b].file
  BY <1>2, RefUp
<1>7. object' = [heap EXCEPT ![Top.obj].glyph = a]
  BY <1>1
<1> HIDE DEF heap
<1>8. heap[Top.obj] # Free
  BY <1>2, <1>5, <1>6, FreeOrObject
<1>9. object' \in Store /\ \A b \in Addr : object'[b].file = object[b].file
  <2>1. PICK b \in Addr : b = Top.obj
    BY <1>5
  <2>2. heap[b] # Free /\ a \in Addr
    BY <1>2, <1>8, <2>1
  <2> DEFINE new == [heap EXCEPT ![b].glyph = a]
  <2>3. new \in Store /\ \A c \in Addr : new[c].file = heap[c].file
    BY <1>6, <2>2, GlyphSet
  <2>4. object' = new
    BY <1>7, <2>1
  <2> HIDE DEF new
  <2> QED
    BY <1>6, <2>3, <2>4
<1>10. TypeOK'
  BY <1>9 DEF GlyphHit, Inv, TypeOK, Store
<1> QED
  BY <1>9, <1>10, CountsOnly DEF GlyphHit

\* A load begins: what Construct does to the heap and to the archives.
LEMMA ConstructFacts ==
  ASSUME TypeOK, NEW heap \in Store, NEW f \in Resources, NEW callers,
         Construct(heap, f, callers)
  PROVE  \E a \in Addr : \E fr \in Frame :
           /\ heap[a] = Free
           /\ object' \in Store /\ object'[a].file = f
           /\ \A b \in Addr \ {a} : object'[b] = heap[b]
           /\ fr.kind = "resource" /\ fr.file = f /\ fr.obj = a
           /\ stack' = Append(callers, fr)
           /\ curHandleIdx' \in Archives /\ offset' \in [Archives -> Place]
           /\ Fresh(fr, curHandleIdx', offset')
<1>1. PICK a \in Addr :
        /\ heap[a] = Free
        /\ object' = [heap EXCEPT ![a] = [file |-> f, refs |-> 1, glyph |-> Null]]
        /\ stack' = Append(callers, FrameFor("resource", f, a))
        /\ PointToFile(f)
  BY DEF Construct
<1> DEFINE fr == FrameFor("resource", f, a)
           o == [file |-> f, refs |-> 1, glyph |-> Null]
<1>2. fr \in Frame /\ fr.kind = "resource" /\ fr.file = f /\ fr.obj = a /\ fr.pos = 0
  BY FrameForType DEF File
<1>3. o \in Object /\ o.file = f
  BY DEF Object
<1> HIDE DEF fr, o
<1>4. object' \in Store /\ object'[a] = o /\ \A b \in Addr \ {a} : object'[b] = heap[b]
  <2>1. object' = [heap EXCEPT ![a] = o]
    BY <1>1 DEF o
  <2> QED
    BY <1>3, <2>1 DEF Store
<1>5. /\ curHandleIdx' \in Archives /\ offset' \in [Archives -> Place]
      /\ Fresh(fr, curHandleIdx', offset')
  <2>1. f \in File
    BY DEF File
  <2> QED
    BY <1>1, <1>2, <2>1, PointTo
<1> QED
  BY <1>1, <1>2, <1>3, <1>4, <1>5 DEF fr

\* ... and to the unfinished loads, when `callers' are those there were.
LEMMA LoadBegins ==
  ASSUME Inv, NEW f \in Resources, Query(f) = {}, Construct(object, f, stack),
         \A i \in 1..Len(stack) : stack[i].kind \notin {"cursor", "pointer"},
         stack # <<>> /\ TopOf(stack).kind = "resource" =>
           TopOf(stack).file \in Fonts /\ AtEndOf(TopOf(stack)) /\ f \in Icons,
         phase = "open",
         UNCHANGED <<cached, held, cursor, drawn, phase, next>>,
         saved' \in Seq(Saved),
         ASSUME NEW fr \in Frame, fr.kind = "resource", stack' = Append(stack, fr),
                Fresh(fr, curHandleIdx', offset')
         PROVE  PositionsOf(stack', saved', curHandleIdx', offset')
  PROVE  Inv'
<1>1. TypeOK /\ object \in Store /\ stack \in Seq(Frame) /\ cached \in SUBSET Addr
  BY StoreType DEF Inv, TypeOK
<1>2. PICK a \in Addr, fr \in Frame :
           /\ object[a] = Free
           /\ object' \in Store /\ object'[a].file = f
           /\ \A b \in Addr \ {a} : object'[b] = object[b]
           /\ fr.kind = "resource" /\ fr.file = f /\ fr.obj = a
           /\ stack' = Append(stack, fr)
           /\ curHandleIdx' \in Archives /\ offset' \in [Archives -> Place]
           /\ Fresh(fr, curHandleIdx', offset')
  BY <1>1, ConstructFacts
<1>3. stack' \in Seq(Frame) /\ ShapeOf(stack')
  BY <1>1, <1>2, PushShape DEF Inv
<1>4. PositionsOf(stack', saved', curHandleIdx', offset')
  BY <1>2
<1>5. TypeOK'
  BY <1>1, <1>2, <1>3 DEF TypeOK, Store
<1>6. \A b \in cached : object[b] # Free /\ object[b].file # f
  BY DEF Query, Inv, Heap
<1>7. Loading(stack', object', cached') /\ \A b \in cached : object'[b] # Free /\ object'[b] = object[b]
  <2>1. ShapeOf(stack) /\ Loading(stack, object, cached)
    BY DEF Inv, Heap
  <2>2. PICK new \in Store : new = object'
    BY <1>2
  <2>3. new[a].file = f /\ \A b \in Addr \ {a} : new[b] = object[b]
    BY <1>2, <2>2
  <2>4. Loading(Append(stack, fr), new, cached)
        /\ \A b \in cached : new[b] # Free /\ new[b] = object[b]
    <3>1. /\ stack \in Seq(Frame) /\ object \in Store /\ cached \in SUBSET Addr
          /\ object[a] = Free
          /\ fr.kind = "resource" /\ fr.file = f /\ fr.obj = a
      BY <1>1, <1>2
    <3>2. /\ \A b \in cached : object[b] # Free
          /\ \A b \in cached : object[b].file # f
      BY <1>6
    <3> QED
      BY <2>1, <2>3, <3>1, <3>2, LoadingGrows, SMTT(60)
  <2> QED
    BY <1>2, <2>2, <2>4
<1>8. CachedOnce'
  BY <1>7 DEF CachedOnce, Inv, Heap
<1>9. Heap'
  BY <1>7, <1>8 DEF Heap, Inv, ExpungeNextIsAlive
<1> QED
  BY <1>3, <1>4, <1>5, <1>9 DEF Inv

LEMMA OpenPhase ==
  ASSUME Inv, stack # <<>>
  PROVE  phase = "open"
BY DEF Inv, Heap

\* What a frame on top tells of the loads below it.
LEMMA NoPointerBelow ==
  ASSUME Inv, stack # <<>>, TopOf(stack).kind \in {"window", "resource"},
         \A i \in 1..Len(stack) : stack[i].kind # "cursor"
  PROVE  \A i \in 1..Len(stack) : stack[i].kind \notin {"cursor", "pointer"}
BY DEF Inv, ShapeOf, Frames, TopOf

LEMMA GetMissInv ==
  ASSUME Inv, NEW f \in Resources, GetMiss(f)
  PROVE  Inv'
<1>1. stack = <<>> /\ phase = "open" /\ saved' = saved
  BY DEF GetMiss, Idle
<1>2. stack \in Seq(Frame) /\ saved \in Seq(Saved) /\ Len(stack) = 0
  BY <1>1 DEF Inv, TypeOK
<1>3. ASSUME NEW fr \in Frame, fr.kind = "resource", stack' = Append(stack, fr),
             Fresh(fr, curHandleIdx', offset')
      PROVE  PositionsOf(stack', saved', curHandleIdx', offset')
  <2>1. PICK cur : cur = curHandleIdx'
    OBVIOUS
  <2>2. PICK off : off = offset'
    OBVIOUS
  <2>3. PositionsOf(stack, saved, curHandleIdx, offset) /\ Fresh(fr, cur, off)
    BY <1>3, <2>1, <2>2 DEF Inv
  <2>4. PositionsOf(Append(stack, fr), saved, cur, off)
    BY <1>1, <1>2, <1>3, <2>3, PushUnsaved
  <2> QED
    BY <1>1, <1>3, <2>1, <2>2, <2>4
<1>4. Query(f) = {} /\ Construct(object, f, stack)
      /\ UNCHANGED <<cached, held, cursor, drawn, phase, next>>
  BY DEF GetMiss
<1>5. saved' \in Seq(Saved)
  BY <1>1, <1>2
<1>6. \A i \in 1..Len(stack) : stack[i].kind \notin {"cursor", "pointer"}
  BY <1>2
<1> QED
  BY <1>1, <1>3, <1>4, <1>5, <1>6, LoadBegins

LEMMA GlyphMissInv ==
  ASSUME Inv, GlyphMiss
  PROVE  Inv'
<1> DEFINE f == Glyph[Top.file]
<1>1. stack # <<>> /\ TopOf(stack).kind = "resource" /\ AtEndOf(TopOf(stack))
      /\ TopOf(stack).file \in Fonts /\ saved' = saved
  BY DEF GlyphMiss, IsTop, Top, TopOf, AtEnd, AtEndOf
<1>2. stack \in Seq(Frame) /\ saved \in Seq(Saved) /\ Len(stack) \in Nat \ {0}
  BY <1>1 DEF Inv, TypeOK
<1>3. f \in Icons /\ f \in Resources
  BY <1>1, FilesAssumption DEF Resources, Top, TopOf
<1>4. ASSUME NEW i \in 1..Len(stack) PROVE stack[i].kind # "cursor"
  <2> SUFFICES ASSUME stack[i].kind = "cursor" PROVE FALSE
    OBVIOUS
  <2>1. Len(stack) = 2 /\ stack[2].file \in Icons
    BY <1>2, CursorShape DEF Inv
  <2> QED
    BY <1>1, <2>1, KindsAssumption DEF TopOf
<1>5. \A i \in 1..Len(stack) : stack[i].kind \notin {"cursor", "pointer"}
  BY <1>1, <1>4, NoPointerBelow
<1>6. ASSUME NEW fr \in Frame, fr.kind = "resource", stack' = Append(stack, fr),
             Fresh(fr, curHandleIdx', offset')
      PROVE  PositionsOf(stack', saved', curHandleIdx', offset')
  <2>1. PICK cur : cur = curHandleIdx'
    OBVIOUS
  <2>2. PICK off : off = offset'
    OBVIOUS
  <2>3. PositionsOf(stack, saved, curHandleIdx, offset) /\ Fresh(fr, cur, off)
    BY <1>6, <2>1, <2>2 DEF Inv
  <2>4. PositionsOf(Append(stack, fr), saved, cur, off)
    BY <1>1, <1>2, <1>6, <2>3, PushUnsaved
  <2> QED
    BY <1>1, <1>6, <2>1, <2>2, <2>4
<1>7. Query(f) = {} /\ Construct(object, f, stack)
      /\ UNCHANGED <<cached, held, cursor, drawn, phase, next>>
  BY DEF GlyphMiss
<1>8. phase = "open" /\ saved' \in Seq(Saved)
  BY <1>1, <1>2, OpenPhase
<1> HIDE DEF f
<1> QED
  BY <1>1, <1>2, <1>3, <1>5, <1>6, <1>7, <1>8, LoadBegins

\* A window that is being read is the only load.
LEMMA WindowAlone ==
  ASSUME Inv, IsTop("window")
  PROVE  Len(stack) = 1 /\ TopOf(stack) = stack[1] /\ stack[1].kind = "window"
         /\ stack # <<>>
<1>1. stack # <<>> /\ stack[Len(stack)].kind = "window" /\ Len(stack) \in 1..Len(stack)
  BY DEF IsTop, Top, Inv, TypeOK
<1>2. Len(stack) = 1
  BY <1>1 DEF Inv, ShapeOf, Frames
<1> QED
  BY <1>1, <1>2 DEF TopOf

LEMMA HereSaved ==
  ASSUME TypeOK
  PROVE  [agg |-> curHandleIdx, at |-> offset[curHandleIdx]] \in Saved
BY DEF TypeOK, Saved

LEMMA WidgetGetMissInv ==
  ASSUME Inv, NEW f \in Resources, WidgetGetMiss(f)
  PROVE  Inv'
<1> DEFINE here == [agg |-> curHandleIdx, at |-> offset[curHandleIdx]]
<1>1. /\ IsTop("window") /\ ~AtEnd /\ saved' = Append(saved, here)
      /\ Query(f) = {} /\ Construct(object, f, stack)
      /\ UNCHANGED <<cached, held, cursor, drawn, phase, next>>
  BY DEF WidgetGetMiss, SavePosition
<1>2. Len(stack) = 1 /\ TopOf(stack) = stack[1] /\ stack[1].kind = "window" /\ stack # <<>>
  BY <1>1, WindowAlone
<1>3. ~AtEndOf(stack[1])
  BY <1>1, <1>2 DEF AtEnd, AtEndOf, Top, TopOf
<1>4. stack \in Seq(Frame) /\ saved \in Seq(Saved) /\ here \in Saved
  BY HereSaved DEF Inv, TypeOK
<1>5. saved' \in Seq(Saved)
  <2> HIDE DEF here
  <2>1. Append(saved, here) \in Seq(Saved)
    BY <1>4, PushFacts
  <2> QED
    BY <1>1, <2>1
<1>6. \A i \in 1..Len(stack) : stack[i].kind \notin {"cursor", "pointer"}
  BY <1>2
<1>7. ASSUME NEW fr \in Frame, fr.kind = "resource", stack' = Append(stack, fr),
             Fresh(fr, curHandleIdx', offset')
      PROVE  PositionsOf(stack', saved', curHandleIdx', offset')
  <2>1. PICK cur : cur = curHandleIdx'
    OBVIOUS
  <2>2. PICK off : off = offset'
    OBVIOUS
  <2>3. PositionsOf(stack, saved, curHandleIdx, offset) /\ Fresh(fr, cur, off)
    BY <1>7, <2>1, <2>2 DEF Inv
  <2>4. PositionsOf(Append(stack, fr), Append(saved, here), cur, off)
    BY <1>2, <1>3, <1>4, <1>7, <2>3, PushSaved
  <2> QED
    BY <1>1, <1>7, <2>1, <2>2, <2>4
<1>8. phase = "open" /\ TopOf(stack).kind # "resource"
  BY <1>2, OpenPhase
<1> QED
  BY <1>1, <1>5, <1>6, <1>7, <1>8, LoadBegins

LEMMA OpenWindowInv ==
  ASSUME Inv, NEW w \in Windows, OpenWindow(w)
  PROVE  Inv'
<1> DEFINE fr == FrameFor("window", w, Null)
<1>1. stack = <<>> /\ phase = "open" /\ stack' = <<fr>> /\ PointToFile(w)
      /\ UNCHANGED <<object, cached, saved, held, cursor, drawn, phase, next>>
  BY DEF OpenWindow, Idle
<1>2. fr \in Frame /\ fr.kind = "window" /\ fr.file = w /\ fr.pos = 0 /\ w \in File
  BY FrameForType DEF File
<1> HIDE DEF fr
<1>3. TypeOK /\ stack \in Seq(Frame) /\ saved \in Seq(Saved) /\ Len(stack) = 0
  BY <1>1 DEF Inv, TypeOK
<1>4. /\ curHandleIdx' \in Archives /\ offset' \in [Archives -> Place]
      /\ Fresh(fr, curHandleIdx', offset')
  BY <1>1, <1>2, <1>3, PointTo
<1>5. stack' = Append(stack, fr)
  BY <1>1
<1>6. Append(stack, fr) \in Seq(Frame) /\ ShapeOf(Append(stack, fr))
  <2>1. \A i \in 1..Len(stack) : stack[i].kind \notin {"cursor", "pointer"}
    BY <1>3
  <2> QED
    BY <1>1, <1>2, <1>3, <2>1, PushShape DEF Inv
<1>7. PositionsOf(stack', saved', curHandleIdx', offset')
  <2>1. PICK cur : cur = curHandleIdx'
    OBVIOUS
  <2>2. PICK off : off = offset'
    OBVIOUS
  <2>3. PositionsOf(stack, saved, curHandleIdx, offset) /\ Fresh(fr, cur, off)
    BY <1>4, <2>1, <2>2 DEF Inv
  <2>4. PositionsOf(Append(stack, fr), saved, cur, off)
    BY <1>1, <1>2, <1>3, <2>3, PushUnsaved
  <2> QED
    BY <1>1, <1>5, <2>1, <2>2, <2>4
<1>8. TypeOK'
  BY <1>1, <1>3, <1>4, <1>5, <1>6 DEF TypeOK
<1>9. Loading(stack', object', cached')
  <2>1. Len(stack') = 1 /\ stack'[1] = fr
    BY <1>1
  <2> QED
    BY <1>2, <2>1 DEF Loading
<1>10. Heap'
  BY <1>1, <1>9 DEF Inv, Heap, CachedOnce, ExpungeNextIsAlive
<1> QED
  BY <1>5, <1>6, <1>7, <1>8, <1>10 DEF Inv

\* Steps that leave the cache alone and change no load but by adding or
\* dropping calls that load nothing into it.
LEMMA HeapKept ==
  ASSUME Inv, UNCHANGED <<object, cached, phase, next>>, phase = "open",
         Loading(stack', object, cached)
  PROVE  Heap'
BY DEF Inv, Heap, CachedOnce, ExpungeNextIsAlive

LEMMA ReadInv ==
  ASSUME Inv, Read
  PROVE  Inv'
<1>1. PICK st \in Seq(Frame) : st = stack
  BY DEF Inv, TypeOK
<1>2. PICK cur \in Archives : cur = curHandleIdx
  BY DEF Inv, TypeOK
<1>3. PICK off \in [Archives -> Place] : off = offset
  BY DEF Inv, TypeOK
<1> DEFINE new == [st EXCEPT ![Len(st)].pos = @ + 1]
           noff == [off EXCEPT ![cur].pos = @ + 1]
<1>4. stack' = new /\ offset' = noff
      /\ UNCHANGED <<object, cached, curHandleIdx, saved, held, cursor, drawn, phase, next>>
  BY <1>1, <1>2, <1>3 DEF Read
<1>5. st # <<>> /\ TopOf(st).kind # "cursor" /\ ~AtEndOf(TopOf(st))
  BY <1>1 DEF Read, Top, TopOf, AtEnd, AtEndOf
<1>6. ShapeOf(st) /\ PositionsOf(st, saved, cur, off) /\ saved \in Seq(Saved)
  BY <1>1, <1>2, <1>3 DEF Inv, TypeOK
<1>7. /\ new \in Seq(Frame) /\ noff \in [Archives -> Place]
      /\ Len(new) = Len(st)
      /\ \A i \in 1..Len(st) :
           new[i].kind = st[i].kind /\ new[i].file = st[i].file /\ new[i].obj = st[i].obj
      /\ ShapeOf(new) /\ PositionsOf(new, saved, cur, noff)
  BY <1>5, <1>6, ReadOn
<1> HIDE DEF new, noff
<1>8. TypeOK'
  BY <1>4, <1>7 DEF Inv, TypeOK
<1>9. Loading(stack', object, cached)
  BY <1>1, <1>4, <1>7 DEF Inv, Heap, Loading
<1>10. Heap'
  BY <1>1, <1>4, <1>5, <1>9, HeapKept, OpenPhase
<1> QED
  BY <1>2, <1>4, <1>7, <1>8, <1>10 DEF Inv

LEMMA WindowReadInv ==
  ASSUME Inv, WindowRead
  PROVE  Inv'
<1>1. IsTop("window") /\ stack' = SubSeq(stack, 1, Len(stack) - 1)
      /\ UNCHANGED <<object, cached, position, held, cursor, drawn, phase, next>>
  BY DEF WindowRead, Below
<1>2. Len(stack) = 1 /\ TopOf(stack) = stack[1] /\ stack[1].kind = "window" /\ stack # <<>>
  BY <1>1, WindowAlone
<1>3. stack \in Seq(Frame) /\ saved \in Seq(Saved) /\ ShapeOf(stack)
      /\ PositionsOf(stack, saved, curHandleIdx, offset)
  BY DEF Inv, TypeOK
<1>4. \A i \in 1..Len(stack) : stack[i].kind # "cursor"
  BY <1>2
<1>5. stack' \in Seq(Frame) /\ ShapeOf(stack') /\ Len(stack') = 0
  <2>1. /\ SubSeq(stack, 1, Len(stack) - 1) \in Seq(Frame)
        /\ ShapeOf(SubSeq(stack, 1, Len(stack) - 1))
        /\ Len(SubSeq(stack, 1, Len(stack) - 1)) = Len(stack) - 1
    BY <1>2, <1>3, <1>4, PopShape
  <2> QED
    BY <1>1, <1>2, <2>1
<1>6. PositionsOf(SubSeq(stack, 1, Len(stack) - 1), saved, curHandleIdx, offset)
  <2>1. TopOf(stack).kind \in {"window", "resource"}
    BY <1>2
  <2>2. Len(stack) > 1 => stack[Len(stack) - 1].kind = "resource"
    BY <1>2
  <2> QED
    BY <1>2, <1>3, <2>1, <2>2, PopUnsaved, Zenon
<1>7. TypeOK'
  BY <1>1, <1>5 DEF Inv, TypeOK
<1>8. Loading(stack', object, cached)
  BY <1>5 DEF Loading
<1>9. Heap'
  BY <1>1, <1>2, <1>8, HeapKept, OpenPhase
<1> QED
  BY <1>1, <1>5, <1>6, <1>7, <1>9 DEF Inv

\* A load ends: the object joins the cache, and no other load that is not
\* finished has the same file.
LEMMA LoadEnds ==
  ASSUME Inv, IsTop("resource"), AtEnd,
         cached' = cached \cup {Top.obj},
         object' \in Store, \A b \in Addr : object'[b].file = object[b].file,
         UNCHANGED <<phase, next>>,
         stack' = <<>> \/ stack' = SubSeq(stack, 1, Len(stack) - 1)
  PROVE  Top.obj \in cached' /\ cached' \subseteq Addr /\ Heap'
<1> DEFINE a == Top.obj
           f == Top.file
<1>1. stack \in Seq(Frame) /\ Len(stack) \in Nat \ {0} /\ stack # <<>>
      /\ Top = TopOf(stack) /\ TopOf(stack).kind = "resource"
  BY DEF Inv, TypeOK, IsTop, Top, TopOf
<1>2. a \in Addr /\ f \in Resources /\ object[a].file = f
      /\ \A b \in cached : object[b].file # f
  BY <1>1 DEF Inv, ShapeOf, Frames, Heap, Loading, TopOf
<1>3. object \in Store /\ cached \subseteq Addr /\ phase = "open"
  BY <1>1, StoreType, OpenPhase DEF Inv, TypeOK
<1> HIDE DEF a, f
<1>4. cached' = cached \cup {a}
  BY DEF a
<1>5. \A b \in Addr : object[b].file # Null => object'[b] # Free
  BY <1>3, FreeOrObject
<1>6. \A b \in cached' : object'[b] # Free
  <2>1. f # Null
    BY <1>2, KindsAssumption DEF File
  <2>2. \A b \in cached : object[b].file # Null
    BY <1>3, FreeOrObject DEF Inv, Heap
  <2> QED
    BY <1>2, <1>3, <1>4, <1>5, <2>1, <2>2
<1>7. CachedOnce'
  BY <1>2, <1>3, <1>4 DEF Inv, Heap, CachedOnce
<1>8. Loading(stack', object', cached')
  <2>1. CASE stack' = <<>>
    BY <2>1 DEF Loading
  <2>2. CASE stack' = SubSeq(stack, 1, Len(stack) - 1)
    <3>1. Len(stack') = Len(stack) - 1 /\ \A i \in 1..Len(stack) - 1 : stack'[i] = stack[i]
      <4>1. Len(stack) - 1 \in 0..Len(stack)
        BY <1>1
      <4> QED
        BY <1>1, <2>2, <4>1, PrefixFacts
    <3>2. ASSUME NEW i \in 1..Len(stack) - 1, stack[i].kind = "resource"
          PROVE  /\ object'[stack[i].obj].file = stack[i].file
                 /\ \A b \in cached' : object'[b].file # stack[i].file
      <4>1. i \in 1..Len(stack)
        BY <1>1
      <4>2. stack[i].obj \in Addr /\ object[stack[i].obj].file = stack[i].file
            /\ \A b \in cached : object[b].file # stack[i].file
        BY <3>2, <4>1 DEF Inv, ShapeOf, Frames, Heap, Loading
      <4>3. stack[i].file # f
        <5>1. stack[i].file \in Fonts /\ TopOf(stack).file \in Icons
          BY <1>1, <3>2, TwoLoads DEF Inv
        <5> QED
          BY <1>1, <5>1, KindsAssumption DEF f
      <4> QED
        BY <1>2, <1>3, <1>4, <4>2, <4>3
    <3> QED
      BY <3>1, <3>2 DEF Loading
  <2> QED
    BY <2>1, <2>2
<1>9. Heap'
  BY <1>3, <1>6, <1>7, <1>8 DEF Inv, Heap, ExpungeNextIsAlive
<1> QED
  BY <1>2, <1>3, <1>4, <1>9 DEF a

LEMMA BelowTop ==
  ASSUME stack \in Seq(Frame), stack # <<>>
  PROVE  /\ Below # <<>> => Len(stack) > 1 /\ Below[Len(Below)] = stack[Len(stack) - 1]
         /\ Below = <<>> <=> Len(stack) = 1
<1>1. Len(stack) \in Nat \ {0} /\ Len(stack) - 1 \in 0..Len(stack)
  OBVIOUS
<1>2. /\ Below \in Seq(Frame) /\ Len(Below) = Len(stack) - 1
      /\ \A i \in 1..Len(stack) - 1 : Below[i] = stack[i]
  BY <1>1, PrefixFacts DEF Below
<1>3. ASSUME Below # <<>>
      PROVE  Len(stack) > 1 /\ Below[Len(Below)] = stack[Len(stack) - 1]
  <2>1. Len(Below) \in Nat \ {0}
    BY <1>2, <1>3, EmptySeq
  <2>2. Len(stack) - 1 \in 1..Len(stack) - 1 /\ Len(stack) > 1
    BY <1>1, <1>2, <2>1
  <2> QED
    BY <1>2, <2>2
<1>4. Len(stack) = 1 => Below = <<>>
  BY <1>2, EmptySeq
<1>5. Below = <<>> => Len(stack) = 1
  BY <1>1, <1>2
<1> QED
  BY <1>3, <1>4, <1>5

\* The loads below one that ends, when it is not a cursor's.
LEMMA BelowFacts ==
  ASSUME Inv, IsTop("resource"), Len(stack) > 1 => stack[Len(stack) - 1].kind # "cursor"
  PROVE  Below \in Seq(Frame) /\ ShapeOf(Below)
<1>1. stack \in Seq(Frame) /\ Len(stack) \in Nat \ {0} /\ stack # <<>> /\ ShapeOf(stack)
      /\ TopOf(stack).kind = "resource"
  BY DEF Inv, TypeOK, IsTop, Top, TopOf
<1>2. ASSUME NEW i \in 1..Len(stack) PROVE stack[i].kind # "cursor"
  <2> SUFFICES ASSUME stack[i].kind = "cursor" PROVE FALSE
    OBVIOUS
  <2>1. i = 1 /\ Len(stack) = 2
    BY <1>1, CursorShape
  <2> QED
    BY <2>1
<1> QED
  BY <1>1, <1>2, PopShape DEF Below

LEMMA DeliverType ==
  ASSUME TypeOK, NEW a \in Addr, NEW f \in Resources, DeliverToSlot(a, f)
  PROVE  held' \in [Slots -> Hold]
<1>1. [obj |-> a, file |-> f] \in Hold
  BY DEF Hold
<1> QED
  BY <1>1 DEF DeliverToSlot, TypeOK

\* Going back to a saved position.
LEMMA RestoreType ==
  ASSUME TypeOK, NEW n \in 1..Len(saved), RestorePosition(n)
  PROVE  /\ saved' \in Seq(Saved) /\ saved' = SubSeq(saved, 1, Len(saved) - n)
         /\ Len(saved') = Len(saved) - n
         /\ curHandleIdx' \in Archives /\ offset' \in [Archives -> Place]
         /\ curHandleIdx' = saved[Len(saved) - n + 1].agg
         /\ offset'[curHandleIdx'] = saved[Len(saved) - n + 1].at
<1>1. PICK last \in Saved : last = saved[Len(saved) - n + 1]
  <2>1. saved \in Seq(Saved) /\ Len(saved) \in Nat /\ Len(saved) - n + 1 \in 1..Len(saved)
    BY DEF TypeOK
  <2> QED
    BY <2>1
<1>2. last.agg \in Archives /\ last.at \in Place
  BY DEF Saved
<1>3. curHandleIdx' = last.agg /\ offset' = [offset EXCEPT ![last.agg] = last.at]
      /\ saved' = SubSeq(saved, 1, Len(saved) - n)
  BY <1>1 DEF RestorePosition
<1>4. saved' \in Seq(Saved) /\ Len(saved') = Len(saved) - n
  <2>1. saved \in Seq(Saved) /\ Len(saved) - n \in 0..Len(saved)
    BY DEF TypeOK
  <2> QED
    BY <1>3, <2>1, PrefixFacts
<1> QED
  BY <1>1, <1>2, <1>3, <1>4 DEF TypeOK

LEMMA LoadedInv ==
  ASSUME Inv, Loaded
  PROVE  Inv'
<1> DEFINE a == Top.obj
           f == Top.file
<1>1. /\ IsTop("resource") /\ AtEnd /\ cached' = cached \cup {a}
      /\ UNCHANGED <<drawn, phase, next>>
  BY DEF Loaded
<1>2. stack \in Seq(Frame) /\ saved \in Seq(Saved) /\ Len(stack) \in Nat \ {0} /\ stack # <<>>
      /\ TopOf(stack).kind = "resource" /\ TopOf(stack) = Top
      /\ ShapeOf(stack) /\ PositionsOf(stack, saved, curHandleIdx, offset)
  BY <1>1 DEF Inv, TypeOK, IsTop, Top, TopOf
<1>3. a \in Addr /\ f \in Resources /\ object \in Store
  BY <1>2, StoreType DEF Inv, ShapeOf, Frames, TopOf
<1>4. CASE /\ Below = <<>>
           /\ DeliverToSlot(a, f) /\ stack' = Below /\ UNCHANGED <<object, position, cursor>>
  <2>1. Len(stack) = 1
    BY <1>2, <1>4, BelowTop
  <2>2. Len(stack) > 1 => stack[Len(stack) - 1].kind = "resource"
    BY <2>1
  <2>3. Below \in Seq(Frame) /\ ShapeOf(Below)
    BY <1>1, <2>1, BelowFacts
  <2>4. PositionsOf(Below, saved, curHandleIdx, offset)
    BY <1>2, <2>2, PopUnsaved DEF Below
  <2>5. held' \in [Slots -> Hold]
    BY <1>3, <1>4, DeliverType DEF Inv
  <2>6. Heap' /\ cached' \subseteq Addr
    BY <1>1, <1>3, <1>4, LoadEnds
  <2>7. TypeOK'
    BY <1>1, <1>4, <2>3, <2>5, <2>6 DEF Inv, TypeOK
  <2> QED
    BY <1>4, <2>3, <2>4, <2>6, <2>7 DEF Inv
<1>5. CASE /\ Below # <<>> /\ Below[Len(Below)].kind = "window"
           /\ DeliverToSlot(a, f) /\ stack' = Below /\ RestorePosition(1)
           /\ UNCHANGED <<object, cursor>>
  <2>1. Len(stack) > 1 /\ stack[Len(stack) - 1].kind = "window"
    BY <1>2, <1>5, BelowTop
  <2>2. Below \in Seq(Frame) /\ ShapeOf(Below)
    BY <1>1, <2>1, BelowFacts
  <2>3. Len(saved) = 1
    <3>1. PICK cur : cur = saved[Len(saved)].agg
      OBVIOUS
    <3>2. PICK off : off = [i \in {cur} |-> saved[Len(saved)].at]
      OBVIOUS
    <3>3. off[cur] = saved[Len(saved)].at
      BY <3>2
    <3> QED
      BY <1>2, <2>1, <3>1, <3>3, PopSaved
  <2>4. /\ saved' \in Seq(Saved) /\ saved' = SubSeq(saved, 1, Len(saved) - 1)
        /\ curHandleIdx' \in Archives /\ offset' \in [Archives -> Place]
        /\ curHandleIdx' = saved[Len(saved)].agg
        /\ offset'[curHandleIdx'] = saved[Len(saved)].at
    <3>1. 1 \in 1..Len(saved) /\ Len(saved) - 1 + 1 = Len(saved)
      BY <2>3
    <3> QED
      BY <1>5, <3>1, RestoreType DEF Inv
  <2>5. PositionsOf(stack', saved', curHandleIdx', offset')
    <3>1. PICK cur : cur = curHandleIdx'
      OBVIOUS
    <3>2. PICK off : off = offset'
      OBVIOUS
    <3>3. cur = saved[Len(saved)].agg /\ off[cur] = saved[Len(saved)].at
      BY <2>4, <3>1, <3>2
    <3>4. PositionsOf(SubSeq(stack, 1, Len(stack) - 1), SubSeq(saved, 1, Len(saved) - 1),
                      cur, off)
      BY <1>2, <2>1, <3>3, PopSaved
    <3> QED
      BY <1>5, <2>4, <3>1, <3>2, <3>4 DEF Below
  <2>6. held' \in [Slots -> Hold]
    BY <1>3, <1>5, DeliverType DEF Inv
  <2>7. Heap' /\ cached' \subseteq Addr
    BY <1>1, <1>3, <1>5, LoadEnds DEF Below
  <2>8. TypeOK'
    BY <1>1, <1>5, <2>2, <2>4, <2>6, <2>7 DEF Inv, TypeOK
  <2> QED
    BY <1>5, <2>2, <2>5, <2>7, <2>8 DEF Inv
<1>6. CASE /\ Below # <<>> /\ Below[Len(Below)].kind = "resource"
           /\ object' = [object EXCEPT ![Below[Len(Below)].obj].glyph = a]
           /\ stack' = Below /\ UNCHANGED <<position, held, cursor>>
  <2>1. Len(stack) > 1 /\ stack[Len(stack) - 1].kind = "resource"
        /\ Below[Len(Below)] = stack[Len(stack) - 1]
    BY <1>2, <1>6, BelowTop
  <2>2. Below \in Seq(Frame) /\ ShapeOf(Below)
    BY <1>1, <2>1, BelowFacts
  <2>3. PositionsOf(Below, saved, curHandleIdx, offset)
    BY <1>2, <2>1, PopUnsaved DEF Below
  <2>4. PICK b \in Addr : b = stack[Len(stack) - 1].obj /\ object[b] # Free
    <3>1. Len(stack) - 1 \in 1..Len(stack)
      BY <1>2, <2>1
    <3>2. stack[Len(stack) - 1].file \in Resources /\ stack[Len(stack) - 1].obj \in Addr
          /\ object[stack[Len(stack) - 1].obj].file = stack[Len(stack) - 1].file
      BY <1>2, <2>1, <3>1 DEF ShapeOf, Frames, Inv, Heap, Loading
    <3> QED
      BY <1>3, <3>2, FreeOrObject, KindsAssumption DEF File
  <2>5. PICK c \in Addr : c = a
    BY <1>3
  <2>6. object' \in Store /\ \A d \in Addr : object'[d].file = object[d].file
    <3> DEFINE new == [object EXCEPT ![b].glyph = c]
    <3>1. new \in Store /\ \A d \in Addr : new[d].file = object[d].file
      BY <1>3, <2>4, GlyphSet
    <3>2. object' = new
      BY <1>6, <2>1, <2>4, <2>5
    <3> HIDE DEF new
    <3> QED
      BY <3>1, <3>2
  <2>7. Heap' /\ cached' \subseteq Addr
    BY <1>1, <1>6, <2>6, LoadEnds DEF Below
  <2>8. TypeOK'
    BY <1>1, <1>6, <2>2, <2>6, <2>7 DEF Inv, TypeOK, Store
  <2> QED
    BY <1>6, <2>2, <2>3, <2>7, <2>8 DEF Inv
<1>7. CASE /\ Below # <<>> /\ Below[Len(Below)].kind = "cursor"
           /\ cursor' = [cursor EXCEPT !.icon = a]
           /\ stack' = SubSeq(stack, 1, Len(stack) - 2) /\ RestorePosition(1)
           /\ UNCHANGED <<object, held>>
  <2>1. Len(stack) = 2 /\ stack[1].kind = "cursor" /\ stack[2].kind = "resource"
    <3>1. Len(stack) > 1 /\ stack[Len(stack) - 1].kind = "cursor"
      BY <1>2, <1>7, BelowTop
    <3>2. Len(stack) - 1 \in 1..Len(stack)
      BY <1>2, <3>1
    <3>3. Len(stack) - 1 = 1 /\ Len(stack) = 2 /\ stack[2].kind = "resource"
      BY <1>2, <3>1, <3>2, CursorShape
    <3> QED
      BY <3>1, <3>3
  <2>2. stack' = <<>>
    <3>1. 0 \in 0..Len(stack) /\ Len(stack) - 2 = 0
      BY <2>1
    <3>2. SubSeq(stack, 1, 0) \in Seq(Frame) /\ Len(SubSeq(stack, 1, 0)) = 0
      BY <1>2, <3>1, PrefixFacts
    <3>3. SubSeq(stack, 1, 0) = <<>>
      BY <3>2, EmptySeq
    <3> QED
      BY <1>7, <3>1, <3>3
  <2>3. Len(saved) = 1
    <3>1. Nested(stack) /\ ~Drawing(stack)
      BY <2>1 DEF Nested, Drawing
    <3> QED
      BY <1>2, <3>1 DEF PositionsOf
  <2>4. /\ saved' \in Seq(Saved) /\ Len(saved') = 0
        /\ curHandleIdx' \in Archives /\ offset' \in [Archives -> Place]
    <3>1. 1 \in 1..Len(saved)
      BY <2>3
    <3>2. Len(saved') = Len(saved) - 1
      BY <1>7, <3>1, RestoreType DEF Inv
    <3> QED
      BY <1>7, <2>3, <3>1, <3>2, RestoreType DEF Inv
  <2>5. ShapeOf(stack') /\ PositionsOf(stack', saved', curHandleIdx', offset')
    <3>1. PICK sv \in Seq(Saved) : sv = saved'
      BY <2>4
    <3>2. PICK cur : cur = curHandleIdx'
      OBVIOUS
    <3>3. PICK off : off = offset'
      OBVIOUS
    <3>4. ShapeOf(<<>>) /\ PositionsOf(<<>>, sv, cur, off)
      BY <2>4, <3>1, NobodyReads
    <3> QED
      BY <2>2, <3>1, <3>2, <3>3, <3>4
  <2>6. Heap' /\ cached' \subseteq Addr
    BY <1>1, <1>3, <1>7, <2>2, LoadEnds
  <2>7. stack' \in Seq(Frame)
    BY <2>2
  <2>8. cursor' \in [icon : Addr \cup {Null}, category : Cursors \cup {Null}, color : BOOLEAN]
    BY <1>3, <1>7 DEF Inv, TypeOK
  <2>9. TypeOK'
    BY <1>1, <1>7, <2>4, <2>6, <2>7, <2>8 DEF Inv, TypeOK
  <2> QED
    BY <2>5, <2>6, <2>9 DEF Inv
<1>8. Below # <<>> => Below[Len(Below)].kind \in {"window", "resource", "cursor", "pointer"}
  <2>1. Below # <<>> => Below[Len(Below)] \in Frame
    BY <1>2, BelowTop
  <2> QED
    BY <2>1 DEF Frame
<1> QED
  BY <1>4, <1>5, <1>6, <1>7, <1>8 DEF Loaded

\* Resources are only ever given back between two loads.
LEMMA ShrinkHeap ==
  ASSUME Inv, NEW heap \in Store, Shrinks(object, heap)
  PROVE  /\ StillCached(heap) \subseteq cached /\ cached \subseteq Addr
         /\ \A a \in StillCached(heap) : heap[a] # Free /\ heap[a].file = object[a].file
         /\ \A a, b \in StillCached(heap) : heap[a].file = heap[b].file => a = b
<1>1. cached \subseteq Addr
  BY DEF Inv, TypeOK
<1>2. \A a \in StillCached(heap) : a \in cached /\ heap[a] # Free
  BY DEF StillCached
<1>3. \A a \in StillCached(heap) : heap[a].file = object[a].file
  BY <1>1, <1>2 DEF Shrinks
<1> QED
  BY <1>1, <1>2, <1>3 DEF Inv, Heap, CachedOnce

LEMMA GivenBack ==
  ASSUME Inv, object' \in Store, Shrinks(object, object'), cached' = StillCached(object'),
         stack' = <<>>, phase' = "open" => next' = Null, next' # Null => next' \in cached'
  PROVE  Heap' /\ cached' \subseteq Addr
<1>1. PICK heap \in Store : heap = object'
  OBVIOUS
<1>2. /\ StillCached(heap) \subseteq cached /\ cached \subseteq Addr
      /\ \A a \in StillCached(heap) : heap[a] # Free /\ heap[a].file = object[a].file
      /\ \A a, b \in StillCached(heap) : heap[a].file = heap[b].file => a = b
  BY <1>1, ShrinkHeap
<1>3. cached' = StillCached(heap)
  BY <1>1
<1>4. Loading(stack', object', cached')
  BY DEF Loading
<1>5. CachedOnce'
  BY <1>1, <1>2, <1>3 DEF CachedOnce
<1> QED
  BY <1>1, <1>2, <1>3, <1>4, <1>5 DEF Heap, ExpungeNextIsAlive

LEMMA ReleaseInv ==
  ASSUME Inv, NEW s \in Slots, Release(s)
  PROVE  Inv'
<1>1. /\ stack = <<>> /\ phase = "open"
      /\ object' = Dispose(object, held[s].obj) /\ cached' = StillCached(object')
      /\ held' = [held EXCEPT ![s] = Nothing]
      /\ UNCHANGED <<stack, position, cursor, drawn, phase, next>>
  BY DEF Release, Idle
<1>2. PICK a \in Addr \cup {Null} : a = held[s].obj
  BY DEF Inv, TypeOK, Hold, Nothing
<1>3. Shrinks(object, Dispose(object, a))
  BY StoreType, DisposeShrinks DEF Inv
<1>4. object' \in Store /\ Shrinks(object, object')
  BY <1>1, <1>2, <1>3 DEF Shrinks
<1>5. Heap' /\ cached' \subseteq Addr
  <2>1. phase' = "open" => next' = Null
    BY <1>1 DEF Inv, Heap
  <2>2. next' # Null => next' \in cached'
    BY <1>1 DEF Inv, Heap
  <2> QED
    BY <1>1, <1>4, <2>1, <2>2, GivenBack
<1>6. held' \in [Slots -> Hold]
  BY <1>1 DEF Inv, TypeOK, Hold
<1>7. TypeOK'
  BY <1>1, <1>4, <1>5, <1>6 DEF Inv, TypeOK, Store
<1>8. ShapeOf(stack') /\ PositionsOf(stack', saved', curHandleIdx', offset')
  BY <1>1 DEF Inv
<1> QED
  BY <1>5, <1>7, <1>8 DEF Inv

LEMMA ShutDownInv ==
  ASSUME Inv, ShutDown
  PROVE  Inv'
<1>1. /\ stack = <<>> /\ phase' = "expunging"
      /\ object' = Dispose(object, cursor.icon) /\ cached' = StillCached(object')
      /\ cursor' = [cursor EXCEPT !.icon = Null] /\ Visit(cached')
      /\ UNCHANGED <<stack, position, held, drawn>>
  BY DEF ShutDown, Idle
<1>2. PICK a \in Addr \cup {Null} : a = cursor.icon
  BY DEF Inv, TypeOK
<1>3. Shrinks(object, Dispose(object, a))
  BY StoreType, DisposeShrinks DEF Inv
<1>4. object' \in Store /\ Shrinks(object, object')
  BY <1>1, <1>2, <1>3 DEF Shrinks
<1>5. Heap' /\ cached' \subseteq Addr
  BY <1>1, <1>4, GivenBack DEF Visit
<1>6. next' \in Addr \cup {Null}
  BY <1>1, <1>5 DEF Visit
<1>7. cursor' \in [icon : Addr \cup {Null}, category : Cursors \cup {Null}, color : BOOLEAN]
  BY <1>1 DEF Inv, TypeOK
<1>8. TypeOK'
  BY <1>1, <1>4, <1>5, <1>6, <1>7 DEF Inv, TypeOK, Store
<1>9. ShapeOf(stack') /\ PositionsOf(stack', saved', curHandleIdx', offset')
  BY <1>1 DEF Inv
<1> QED
  BY <1>5, <1>8, <1>9 DEF Inv

\* A font under expunction leaves its glyphs alone, so that the object to be
\* visited next is still there.
LEMMA ExpungeOneInv ==
  ASSUME Inv, ExpungeOne
  PROVE  Inv'
<1>1. /\ phase = "expunging" /\ next # Null /\ Visit(cached \ {next})
      /\ object' = Delete(object, next) /\ cached' = StillCached(object')
      /\ UNCHANGED <<stack, position, held, cursor, drawn, phase>>
  BY DEF ExpungeOne
<1>2. PICK a \in Addr : a = next
  BY <1>1 DEF Inv, TypeOK
<1>3. Shrinks(object, Delete(object, a))
  BY StoreType, DeleteShrinks DEF Inv
<1>4. object' \in Store /\ Shrinks(object, object') /\ stack' = <<>>
  BY <1>1, <1>2, <1>3 DEF Shrinks, Inv, Heap
<1>5. object' = [object EXCEPT ![a] = Free]
  BY <1>1, <1>2 DEF Delete, DisposeIcon
<1>6. \A b \in cached \ {a} : b \in cached'
  <2>1. object \in Store /\ cached \subseteq Addr /\ \A b \in cached : object[b] # Free
    BY StoreType DEF Inv, TypeOK, Heap
  <2>2. \A b \in cached \ {a} : object'[b] = object[b]
    BY <1>5, <2>1 DEF Store
  <2> QED
    BY <1>1, <2>1, <2>2 DEF StillCached
<1>7. next' # Null => next' \in cached'
  BY <1>1, <1>2, <1>6 DEF Visit
<1>8. Heap' /\ cached' \subseteq Addr
  BY <1>1, <1>4, <1>7, GivenBack
<1>9. TypeOK'
  BY <1>1, <1>4, <1>7, <1>8 DEF Inv, TypeOK, Store
<1>10. ShapeOf(stack') /\ PositionsOf(stack', saved', curHandleIdx', offset')
  BY <1>1 DEF Inv
<1> QED
  BY <1>8, <1>9, <1>10 DEF Inv

LEMMA CloseInv ==
  ASSUME Inv, Close
  PROVE  Inv'
<1>1. /\ phase = "expunging" /\ phase' = "closed"
      /\ UNCHANGED <<object, cached, stack, position, held, cursor, drawn, next>>
  BY DEF Close
<1>2. TypeOK'
  BY <1>1 DEF Inv, TypeOK
<1>3. Heap'
  BY <1>1 DEF Inv, Heap, CachedOnce, ExpungeNextIsAlive
<1> QED
  BY <1>1, <1>2, <1>3 DEF Inv

LEMMA ReplaceIconInv ==
  ASSUME Inv, NEW c \in Cursors, stack = <<>>, phase = "open", ReplaceIcon(c)
  PROVE  Inv'
<1>1. PICK i \in Addr \cup {Null} : i = cursor.icon
  BY DEF Inv, TypeOK
<1>2. PICK heap \in Store : heap = Dispose(object, cursor.icon) /\ Shrinks(object, heap)
  <2>1. Shrinks(object, Dispose(object, i))
    BY StoreType, DisposeShrinks DEF Inv
  <2> QED
    BY <1>1, <2>1 DEF Shrinks
<1>3. /\ StillCached(heap) \subseteq cached /\ cached \subseteq Addr
      /\ \A a \in StillCached(heap) : heap[a] # Free /\ heap[a].file = object[a].file
      /\ \A a, b \in StillCached(heap) : heap[a].file = heap[b].file => a = b
  BY <1>2, ShrinkHeap
<1> DEFINE found == {a \in StillCached(heap) : heap[a].file = ColorIcon[c]}
<1>4. cached' = StillCached(heap) /\ UNCHANGED <<held, drawn, phase, next>>
  BY <1>2 DEF ReplaceIcon
<1>5. next' = Null /\ phase' = "open"
  BY <1>4 DEF Inv, Heap
<1>6. ASSUME NEW a \in found, object' = [heap EXCEPT ![a].refs = @ + 1],
             cursor' = [icon |-> a, category |-> c, color |-> TRUE],
             UNCHANGED <<stack, position>>
      PROVE  Inv'
  <2>1. a \in Addr /\ heap[a] # Free
    BY <1>3
  <2>2. PICK new \in Store : new = object' /\ \A b \in Addr : new[b].file = heap[b].file
    <3> DEFINE up == [heap EXCEPT ![a].refs = @ + 1]
    <3>1. up \in Store /\ \A b \in Addr : up[b].file = heap[b].file
      BY <2>1, RefUp
    <3>2. object' = up
      BY <1>6
    <3> HIDE DEF up
    <3> QED
      BY <3>1, <3>2
  <2>3. \A b \in StillCached(heap) : new[b] # Free
    BY <1>3, <2>2, FreeOrObject
  <2>4. CachedOnce'
    BY <1>3, <1>4, <2>2 DEF CachedOnce
  <2>5. Loading(stack', object', cached')
    BY <1>6 DEF Loading
  <2>6. Heap'
    BY <1>4, <1>5, <2>2, <2>3, <2>4, <2>5 DEF Heap, ExpungeNextIsAlive
  <2>7. TypeOK'
    BY <1>3, <1>4, <1>6, <2>1, <2>2 DEF Inv, TypeOK, Store
  <2> QED
    BY <1>6, <2>6, <2>7 DEF Inv
<1>7. ASSUME found = {}, saved' = SavePosition,
             cursor' = [cursor EXCEPT !.category = c, !.color = TRUE],
             Construct(heap, ColorIcon[c], Append(stack, FrameFor("cursor", Null, Null)))
      PROVE  Inv'
  <2> DEFINE wait == FrameFor("cursor", Null, Null)
             f == ColorIcon[c]
             here == [agg |-> curHandleIdx, at |-> offset[curHandleIdx]]
  <2>1. wait \in Frame /\ wait.kind = "cursor"
    BY FrameForType
  <2>2. f \in Icons /\ f \in Resources
    BY FilesAssumption DEF Resources
  <2>3. saved \in Seq(Saved) /\ Len(saved) = 0 /\ here \in Saved
    <3>1. ~Nested(stack) /\ ~Drawing(stack)
      BY DEF Nested, Drawing
    <3> QED
      BY <3>1, HereSaved DEF Inv, TypeOK, PositionsOf
  <2>4. PICK sv \in Seq(Saved) : sv = saved' /\ Len(sv) = 1
    <3> HIDE DEF here
    <3>1. Append(saved, here) \in Seq(Saved) /\ Len(Append(saved, here)) = Len(saved) + 1
      BY <2>3, PushFacts
    <3>2. saved' = Append(saved, here)
      BY <1>7 DEF SavePosition, here
    <3>3. saved' \in Seq(Saved) /\ Len(saved') = 1
      BY <2>3, <3>1, <3>2
    <3> QED
      BY <3>3
  <2>5. TypeOK
    BY DEF Inv
  <2> HIDE DEF wait, f
  <2>6. PICK a \in Addr, fr \in Frame :
           /\ heap[a] = Free
           /\ object' \in Store /\ object'[a].file = f
           /\ \A b \in Addr \ {a} : object'[b] = heap[b]
           /\ fr.kind = "resource" /\ fr.file = f /\ fr.obj = a
           /\ stack' = Append(Append(stack, wait), fr)
           /\ curHandleIdx' \in Archives /\ offset' \in [Archives -> Place]
           /\ Fresh(fr, curHandleIdx', offset')
    <3>1. PICK callers : callers = Append(stack, wait)
      OBVIOUS
    <3>2. PICK g \in Resources : g = f
      BY <2>2
    <3>3. Construct(heap, g, callers)
      BY <1>7, <3>1, <3>2 DEF f, wait
    <3>4. \E a \in Addr : \E fr \in Frame :
           /\ heap[a] = Free
           /\ object' \in Store /\ object'[a].file = g
           /\ \A b \in Addr \ {a} : object'[b] = heap[b]
           /\ fr.kind = "resource" /\ fr.file = g /\ fr.obj = a
           /\ stack' = Append(callers, fr)
           /\ curHandleIdx' \in Archives /\ offset' \in [Archives -> Place]
           /\ Fresh(fr, curHandleIdx', offset')
      BY <2>5, <3>3, ConstructFacts
    <3> QED
      BY <3>1, <3>2, <3>4
  <2>7. /\ stack' \in Seq(Frame) /\ Len(stack') = 2 /\ stack'[1] = wait /\ stack'[2] = fr
        /\ ShapeOf(stack') /\ PositionsOf(stack', saved', curHandleIdx', offset')
    <3>1. PICK cur : cur = curHandleIdx'
      OBVIOUS
    <3>2. PICK off : off = offset'
      OBVIOUS
    <3>3. Fresh(fr, cur, off)
      BY <2>6, <3>1, <3>2
    <3>4. fr.file \in Icons /\ fr.obj \in Addr /\ fr.kind = "resource"
      BY <2>2, <2>6
    <3> DEFINE new == Append(Append(<<>>, wait), fr)
    <3>5. /\ new \in Seq(Frame) /\ Len(new) = 2 /\ new[1] = wait /\ new[2] = fr
          /\ ShapeOf(new) /\ PositionsOf(new, sv, cur, off)
      BY <2>1, <2>4, <3>3, <3>4, PushCursor
    <3>6. stack' = new
      BY <2>6
    <3> HIDE DEF new
    <3> QED
      BY <2>4, <3>1, <3>2, <3>5, <3>6
  <2>8. \A b \in StillCached(heap) : b \in Addr \ {a} /\ object'[b] = heap[b] /\ heap[b].file # f
    BY <1>3, <1>7, <2>6 DEF f
  <2>9. CachedOnce'
    BY <1>3, <1>4, <2>8 DEF CachedOnce
  <2>10. Loading(stack', object', cached')
    <3> SUFFICES ASSUME NEW j \in 1..Len(stack'), stack'[j].kind = "resource"
                 PROVE  /\ object'[stack'[j].obj].file = stack'[j].file
                        /\ \A b \in cached' : object'[b].file # stack'[j].file
      BY DEF Loading
    <3>1. j = 2
      BY <2>1, <2>7
    <3>2. stack'[j] = fr
      BY <2>7, <3>1
    <3> QED
      BY <1>4, <2>6, <2>8, <3>2
  <2>11. Heap'
    BY <1>3, <1>4, <1>5, <2>8, <2>9, <2>10 DEF Heap, ExpungeNextIsAlive
  <2>12. cursor' \in [icon : Addr \cup {Null}, category : Cursors \cup {Null}, color : BOOLEAN]
    BY <1>7 DEF Inv, TypeOK
  <2>13. TypeOK'
    BY <1>3, <1>4, <2>4, <2>6, <2>7, <2>12 DEF Inv, TypeOK, Store
  <2> QED
    BY <2>7, <2>11, <2>13 DEF Inv
<1> QED
  BY <1>2, <1>6, <1>7 DEF ReplaceIcon

\* PollSound or the mouse itself: a black and white cursor is read.
LEMMA DrawPointerInv ==
  ASSUME Inv, NEW c \in Cursors \cup {Null}, phase = "open", DrawPointer(c),
         \A i \in 1..Len(stack) : stack[i].kind \notin {"cursor", "pointer"}
  PROVE  Inv'
<1>1. /\ cursor' = [cursor EXCEPT !.category = c, !.color = FALSE]
      /\ UNCHANGED <<object, cached, held, drawn, phase, next>>
  BY DEF DrawPointer
<1>2. cursor' \in [icon : Addr \cup {Null}, category : Cursors \cup {Null}, color : BOOLEAN]
  BY <1>1 DEF Inv, TypeOK
<1>3. CASE c \in drawn \/ c = Null
  <2>1. UNCHANGED <<stack, position>>
    BY <1>3 DEF DrawPointer
  <2>2. TypeOK'
    BY <1>1, <1>2, <2>1 DEF Inv, TypeOK
  <2>3. object' \in Store /\ \A b \in Addr : object'[b].file = object[b].file
    BY <1>1, StoreType DEF Inv
  <2> QED
    BY <1>1, <2>1, <2>2, <2>3, CountsOnly
<1>4. CASE ~(c \in drawn \/ c = Null)
  <2> DEFINE here == [agg |-> curHandleIdx, at |-> offset[curHandleIdx]]
             fr == FrameFor("pointer", Picture[c], Null)
  <2>1. /\ saved' = Append(SavePosition, SavePosition[Len(saved) + 1])
        /\ stack' = Append(stack, fr) /\ PointToFile(Picture[c])
    BY <1>4 DEF DrawPointer
  <2>2. Picture[c] \in Pictures /\ Picture[c] \in File
    BY <1>4, FilesAssumption DEF File
  <2>3. fr \in Frame /\ fr.kind = "pointer" /\ fr.file = Picture[c] /\ fr.pos = 0
    BY <2>2, FrameForType
  <2>4. /\ TypeOK /\ stack \in Seq(Frame) /\ saved \in Seq(Saved) /\ here \in Saved
        /\ ShapeOf(stack) /\ PositionsOf(stack, saved, curHandleIdx, offset)
    BY HereSaved DEF Inv, TypeOK
  <2>5. SavePosition = Append(saved, here)
    BY DEF SavePosition
  <2>6. saved' = Append(Append(saved, here), here)
    <3> HIDE DEF here
    <3>1. Append(saved, here)[Len(saved) + 1] = here
      BY <2>4, PushFacts
    <3> QED
      BY <2>1, <2>5, <3>1
  <2> HIDE DEF fr
  <2>7. /\ curHandleIdx' \in Archives /\ offset' \in [Archives -> Place]
        /\ Fresh(fr, curHandleIdx', offset')
    BY <2>1, <2>2, <2>3, <2>4, PointTo
  <2>8. stack' \in Seq(Frame) /\ ShapeOf(stack')
    <3>1. Append(stack, fr) \in Seq(Frame) /\ ShapeOf(Append(stack, fr))
      BY <2>2, <2>3, <2>4, PushShape
    <3> QED
      BY <2>1, <3>1
  <2>9. saved' \in Seq(Saved) /\ PositionsOf(stack', saved', curHandleIdx', offset')
    <3>1. PICK cur : cur = curHandleIdx'
      OBVIOUS
    <3>2. PICK off : off = offset'
      OBVIOUS
    <3>3. Fresh(fr, cur, off)
      BY <2>7, <3>1, <3>2
    <3>4. PICK fp \in Frame : fp = fr
      BY <2>3
    <3>5. /\ Append(Append(saved, here), here) \in Seq(Saved)
          /\ PositionsOf(Append(stack, fp), Append(Append(saved, here), here), cur, off)
      BY <2>3, <2>4, <3>3, <3>4, PushPointer
    <3> HIDE DEF here
    <3> QED
      BY <2>1, <2>6, <3>1, <3>2, <3>4, <3>5
  <2>10. Loading(stack', object, cached)
    <3>1. /\ Len(stack') = Len(stack) + 1 /\ stack'[Len(stack) + 1] = fr
          /\ \A i \in 1..Len(stack) : stack'[i] = stack[i]
          /\ Len(stack) \in Nat
      BY <2>1, <2>3, <2>4, PushFacts
    <3>2. \A i \in 1..Len(stack') : stack'[i].kind = "resource" =>
            i \in 1..Len(stack) /\ stack'[i] = stack[i]
      BY <2>3, <3>1
    <3> QED
      BY <3>2 DEF Inv, Heap, Loading
  <2>11. Heap'
    BY <1>1, <2>10, HeapKept
  <2>12. TypeOK'
    BY <1>1, <1>2, <2>7, <2>8, <2>9 DEF Inv, TypeOK
  <2> QED
    BY <2>8, <2>9, <2>11, <2>12 DEF Inv
<1> QED
  BY <1>3, <1>4

LEMMA PointerDrawnInv ==
  ASSUME Inv, Pointed, PointerDrawn
  PROVE  Inv'
<1>1. /\ IsTop("pointer") /\ drawn' = drawn \cup {cursor.category}
      /\ stack' = Below /\ RestorePosition(2)
      /\ UNCHANGED <<object, cached, held, cursor, phase, next>>
  BY DEF PointerDrawn
<1>2. stack \in Seq(Frame) /\ saved \in Seq(Saved) /\ Len(stack) \in Nat \ {0} /\ stack # <<>>
      /\ TopOf(stack).kind = "pointer" /\ TypeOK
      /\ ShapeOf(stack) /\ PositionsOf(stack, saved, curHandleIdx, offset)
  BY <1>1 DEF Inv, TypeOK, IsTop, Top, TopOf
<1>3. Len(saved) >= 2 /\ Len(saved) \in Nat
  <2>1. Drawing(stack)
    BY <1>2 DEF Drawing, TopOf
  <2> QED
    BY <1>2, <2>1 DEF PositionsOf
<1>4. /\ saved' \in Seq(Saved) /\ saved' = SubSeq(saved, 1, Len(saved) - 2)
      /\ curHandleIdx' \in Archives /\ offset' \in [Archives -> Place]
      /\ curHandleIdx' = saved[Len(saved) - 1].agg
      /\ offset'[curHandleIdx'] = saved[Len(saved) - 1].at
  <2>1. 2 \in 1..Len(saved) /\ Len(saved) - 2 + 1 = Len(saved) - 1
    BY <1>3
  <2> QED
    BY <1>1, <1>2, <2>1, RestoreType
<1>5. PositionsOf(stack', saved', curHandleIdx', offset')
  <2>1. PICK cur : cur = curHandleIdx'
    OBVIOUS
  <2>2. PICK off : off = offset'
    OBVIOUS
  <2>3. cur = saved[Len(saved) - 1].agg /\ off[cur] = saved[Len(saved) - 1].at
    BY <1>4, <2>1, <2>2
  <2>4. PositionsOf(SubSeq(stack, 1, Len(stack) - 1), SubSeq(saved, 1, Len(saved) - 2),
                    cur, off)
    BY <1>2, <2>3, PopPointer
  <2> QED
    BY <1>1, <1>4, <2>1, <2>2, <2>4 DEF Below
<1>6. ASSUME NEW i \in 1..Len(stack) PROVE stack[i].kind # "cursor"
  <2> SUFFICES ASSUME stack[i].kind = "cursor" PROVE FALSE
    OBVIOUS
  <2>1. Len(stack) = 2 /\ stack[2].kind = "resource"
    BY <1>2, CursorShape
  <2> QED
    BY <1>2, <2>1 DEF TopOf
<1>7. /\ stack' \in Seq(Frame) /\ ShapeOf(stack') /\ Len(stack') = Len(stack) - 1
      /\ \A i \in 1..Len(stack) - 1 : stack'[i] = stack[i]
  <2>1. /\ Below \in Seq(Frame) /\ ShapeOf(Below) /\ Len(Below) = Len(stack) - 1
        /\ \A i \in 1..Len(stack) - 1 : Below[i] = stack[i]
    BY <1>2, <1>6, PopShape DEF Below
  <2> QED
    BY <1>1, <2>1
<1>8. Loading(stack', object, cached)
  BY <1>2, <1>7 DEF Inv, Heap, Loading
<1>9. Heap'
  BY <1>1, <1>2, <1>8, HeapKept, OpenPhase
<1>10. drawn' \subseteq Cursors
  <2>1. cursor.category \in Cursors
    BY <1>2 DEF Pointed, Drawing, TopOf
  <2> QED
    BY <1>1, <2>1 DEF Inv, TypeOK
<1>11. TypeOK'
  BY <1>1, <1>4, <1>7, <1>10 DEF Inv, TypeOK
<1> QED
  BY <1>5, <1>7, <1>9, <1>11 DEF Inv
-----------------------------------------------------------------------------
(* Every step *)

\* A load that begins hides whatever was on top.
LEMMA ConstructCovers ==
  ASSUME TypeOK, NEW f \in Resources, Construct(object, f, stack)
  PROVE  ~Drawing(stack')
<1>1. PICK fr \in Frame : fr.kind = "resource" /\ stack' = Append(stack, fr)
  BY StoreType, ConstructFacts
<1>2. stack \in Seq(Frame)
  BY DEF TypeOK
<1>3. /\ Len(Append(stack, fr)) = Len(stack) + 1
      /\ Append(stack, fr)[Len(stack) + 1] = fr
  BY <1>2, PushFacts
<1> QED
  BY <1>1, <1>3 DEF Drawing

\* A load that ends uncovers no pointer: a pointer has no load above it.
LEMMA PopCovers ==
  ASSUME Inv, stack # <<>>, NEW n \in 0 .. Len(stack) - 1, stack' = SubSeq(stack, 1, n)
  PROVE  ~Drawing(stack')
<1>1. stack \in Seq(Frame) /\ Len(stack) \in Nat /\ n \in 0..Len(stack) /\ n # Len(stack)
  BY DEF Inv, TypeOK
<1>2. stack' \in Seq(Frame) /\ Len(stack') = n /\ \A i \in 1..n : stack'[i] = stack[i]
  BY <1>1, PrefixFacts
<1>3. CASE n = 0
  BY <1>2, <1>3 DEF Drawing
<1>4. CASE n # 0
  <2>1. n \in 1..Len(stack) /\ n \in 1..n
    BY <1>1, <1>4
  <2>2. stack[n].kind # "pointer"
    BY <1>1, <2>1 DEF Inv, ShapeOf, Frames
  <2> QED
    BY <1>2, <2>1, <2>2 DEF Drawing
<1> QED
  BY <1>3, <1>4

LEMMA DrawPointerPointed ==
  ASSUME Inv, NEW c \in Cursors \cup {Null}, DrawPointer(c),
         \A i \in 1..Len(stack) : stack[i].kind # "pointer"
  PROVE  Pointed'
<1>1. cursor' = [cursor EXCEPT !.category = c, !.color = FALSE]
  BY DEF DrawPointer
<1>2. cursor'.category = c
  BY <1>1 DEF Inv, TypeOK
<1>3. CASE c \in Cursors
  BY <1>2, <1>3 DEF Pointed
<1>4. CASE c = Null
  <2>1. stack' = stack
    BY <1>4 DEF DrawPointer
  <2>2. stack # <<>> => Len(stack) \in 1..Len(stack)
    BY DEF Inv, TypeOK
  <2>3. ~Drawing(stack)
    BY <2>2 DEF Drawing
  <2> QED
    BY <2>1, <2>3 DEF Pointed
<1> QED
  BY <1>3, <1>4

LEMMA ReplaceIconPointed ==
  ASSUME Inv, NEW c \in Cursors, ReplaceIcon(c)
  PROVE  Pointed'
<1>1. \/ \E a \in Addr : cursor' = [icon |-> a, category |-> c, color |-> TRUE]
      \/ cursor' = [cursor EXCEPT !.category = c, !.color = TRUE]
  BY DEF ReplaceIcon, StillCached, Inv, TypeOK
<1>2. ASSUME NEW a \in Addr, cursor' = [icon |-> a, category |-> c, color |-> TRUE]
      PROVE  cursor'.category = c
  BY <1>2
<1>3. ASSUME cursor' = [cursor EXCEPT !.category = c, !.color = TRUE]
      PROVE  cursor'.category = c
  BY <1>3 DEF Inv, TypeOK
<1> QED
  BY <1>1, <1>2, <1>3 DEF Pointed

\* The steps that change no load and no cursor category.
LEMMA PointedKept ==
  ASSUME Pointed, stack' = stack, cursor'.category = cursor.category
  PROVE  Pointed'
BY DEF Pointed

\* ChangeCursor, MouseReturns and MouseLeaves are SetPointer.
LEMMA SetPointerInv ==
  ASSUME Inv, MouseReturns \/ MouseLeaves \/ \E c \in Cursors : ChangeCursor(c)
  PROVE  Inv' /\ Pointed'
<1>1. cursor.category \in Cursors \cup {Null}
  BY DEF Inv, TypeOK
<1>2. Idle => stack = <<>> /\ phase = "open" /\ Len(stack) = 0
  BY DEF Idle
<1>3. CASE MouseReturns
  <2>1. Idle /\ cursor.category \in Cursors /\ ReplaceIcon(cursor.category)
    BY <1>1, <1>3 DEF MouseReturns
  <2> QED
    BY <1>2, <2>1, ReplaceIconInv, ReplaceIconPointed
<1>4. CASE MouseLeaves
  <2>1. /\ phase = "open" /\ DrawPointer(cursor.category)
        /\ \A i \in 1..Len(stack) : stack[i].kind \notin {"cursor", "pointer"}
    BY <1>4 DEF MouseLeaves
  <2> QED
    BY <1>1, <2>1, DrawPointerInv, DrawPointerPointed
<1>5. ASSUME NEW c \in Cursors, ChangeCursor(c) PROVE Inv' /\ Pointed'
  <2>1. Idle /\ (ReplaceIcon(c) \/ DrawPointer(c))
    BY <1>5 DEF ChangeCursor
  <2>2. \A i \in 1..Len(stack) : stack[i].kind \notin {"cursor", "pointer"}
    BY <1>2, <2>1
  <2> QED
    BY <1>2, <2>1, <2>2, ReplaceIconInv, ReplaceIconPointed, DrawPointerInv, DrawPointerPointed
<1> QED
  BY <1>3, <1>4, <1>5

LEMMA InitInv == Init => Inv /\ Pointed
<1> SUFFICES ASSUME Init PROVE Inv /\ Pointed
  OBVIOUS
<1>1. stack = <<>> /\ saved = <<>> /\ cached = {} /\ phase = "open" /\ next = Null
  BY DEF Init
<1>2. TypeOK
  <2>1. /\ object \in [Addr -> Object \cup {Free}] /\ held \in [Slots -> Hold]
        /\ offset \in [Archives -> Place]
    BY DEF Init, Hold, Place
  <2>2. curHandleIdx \in Archives
    BY ArchivesAssumption DEF Init, Archives
  <2>3. stack \in Seq(Frame) /\ saved \in Seq(Saved)
    BY <1>1
  <2>4. cursor \in [icon : Addr \cup {Null}, category : Cursors \cup {Null}, color : BOOLEAN]
    BY DEF Init
  <2>5. drawn \subseteq Cursors
    BY DEF Init
  <2> QED
    BY <1>1, <2>1, <2>2, <2>3, <2>4, <2>5 DEF TypeOK
<1>3. Len(stack) = 0 /\ Len(saved) = 0
  BY <1>1
<1>4. ~Nested(stack) /\ ~Drawing(stack)
  BY <1>1, <1>3 DEF Nested, Drawing
<1>5. ShapeOf(stack)
  BY <1>3 DEF ShapeOf
<1>6. PositionsOf(stack, saved, curHandleIdx, offset)
  BY <1>1, <1>3, <1>4 DEF PositionsOf, Reading
<1>7. Heap
  BY <1>1, <1>3 DEF Heap, Loading, CachedOnce, ExpungeNextIsAlive
<1> QED
  BY <1>2, <1>4, <1>5, <1>6, <1>7 DEF Inv, Pointed

LEMMA NextInv == Inv /\ Pointed /\ [Next]_vars => Inv' /\ Pointed'
<1> SUFFICES ASSUME Inv, Pointed, [Next]_vars PROVE Inv' /\ Pointed'
  OBVIOUS
<1>1. TypeOK /\ stack \in Seq(Frame)
  BY DEF Inv, TypeOK
<1>2. ASSUME NEW f \in Resources, GetHit(f) PROVE Inv' /\ Pointed'
  BY <1>2, GetHitInv, PointedKept DEF GetHit
<1>3. ASSUME NEW f \in Resources, GetMiss(f) PROVE Inv' /\ Pointed'
  <2>1. ~Drawing(stack')
    BY <1>1, <1>3, ConstructCovers DEF GetMiss
  <2> QED
    BY <1>3, <2>1, GetMissInv DEF Pointed
<1>4. ASSUME NEW f \in Resources, WidgetGetMiss(f) PROVE Inv' /\ Pointed'
  <2>1. ~Drawing(stack')
    BY <1>1, <1>4, ConstructCovers DEF WidgetGetMiss
  <2> QED
    BY <1>4, <2>1, WidgetGetMissInv DEF Pointed
<1>5. ASSUME NEW w \in Windows, OpenWindow(w) PROVE Inv' /\ Pointed'
  <2>1. stack' = <<FrameFor("window", w, Null)>>
    BY <1>5 DEF OpenWindow
  <2>2. ~Drawing(stack')
    BY <2>1 DEF Drawing, FrameFor
  <2> QED
    BY <1>5, <2>2, OpenWindowInv DEF Pointed
<1>6. ASSUME GlyphHit PROVE Inv' /\ Pointed'
  BY <1>6, GlyphHitInv, PointedKept DEF GlyphHit
<1>7. ASSUME GlyphMiss PROVE Inv' /\ Pointed'
  <2>1. Glyph[Top.file] \in Resources
    BY <1>7, FilesAssumption DEF GlyphMiss, Resources
  <2>2. ~Drawing(stack')
    BY <1>1, <1>7, <2>1, ConstructCovers DEF GlyphMiss
  <2> QED
    BY <1>7, <2>2, GlyphMissInv DEF Pointed
<1>8. ASSUME Read PROVE Inv' /\ Pointed'
  <2>1. stack # <<>> /\ stack' = [stack EXCEPT ![Len(stack)].pos = @ + 1]
        /\ cursor' = cursor
    BY <1>8 DEF Read
  <2>2. Drawing(stack') => Drawing(stack)
    BY <1>1, <2>1 DEF Drawing, Frame
  <2> QED
    BY <1>8, <2>1, <2>2, ReadInv DEF Pointed
<1>9. ASSUME WindowRead PROVE Inv' /\ Pointed'
  <2>1. stack # <<>> /\ stack' = SubSeq(stack, 1, Len(stack) - 1)
    BY <1>9 DEF WindowRead, IsTop, Below
  <2>2. Len(stack) - 1 \in 0 .. Len(stack) - 1
    BY <1>1, <2>1
  <2>3. ~Drawing(stack')
    BY <2>1, <2>2, PopCovers
  <2> QED
    BY <1>9, <2>3, WindowReadInv DEF Pointed
<1>10. ASSUME Loaded PROVE Inv' /\ Pointed'
  <2>1. stack # <<>> /\ Len(stack) \in Nat \ {0}
    BY <1>1, <1>10 DEF Loaded, IsTop
  <2>2. CASE stack' = SubSeq(stack, 1, Len(stack) - 1)
    <3>1. Len(stack) - 1 \in 0 .. Len(stack) - 1
      BY <2>1
    <3> QED
      BY <1>10, <2>1, <2>2, <3>1, PopCovers, LoadedInv DEF Pointed
  <2>3. CASE cursor'.category = cursor.category /\ Below # <<>>
             /\ stack' = SubSeq(stack, 1, Len(stack) - 2)
    <3>1. Len(stack) - 2 \in 0 .. Len(stack) - 1
      <4>1. Len(stack) # 1
        <5> SUFFICES ASSUME Len(stack) = 1 PROVE FALSE
          OBVIOUS
        <5>1. Len(stack) - 1 = 0 /\ 0 \in 0..Len(stack)
          OBVIOUS
        <5>2. Below \in Seq(Frame) /\ Len(Below) = 0
          BY <1>1, <5>1, PrefixFacts DEF Below
        <5> QED
          BY <2>3, <5>2
      <4> QED
        BY <2>1, <4>1
    <3> QED
      BY <1>10, <2>1, <2>3, <3>1, PopCovers, LoadedInv DEF Pointed
  <2> QED
    BY <1>1, <1>10, <2>2, <2>3 DEF Loaded, Below, TypeOK
<1>11. ASSUME NEW s \in Slots, Release(s) PROVE Inv' /\ Pointed'
  BY <1>11, ReleaseInv, PointedKept DEF Release
<1>12. ASSUME PointerDrawn PROVE Inv' /\ Pointed'
  <2>1. Drawing(stack) /\ cursor' = cursor
    BY <1>12 DEF PointerDrawn, IsTop, Top, Drawing
  <2> QED
    BY <1>12, <2>1, PointerDrawnInv DEF Pointed
<1>13. ASSUME ShutDown PROVE Inv' /\ Pointed'
  <2>1. stack' = stack /\ cursor' = [cursor EXCEPT !.icon = Null]
    BY <1>13 DEF ShutDown
  <2>2. cursor'.category = cursor.category
    BY <1>1, <2>1 DEF TypeOK
  <2> QED
    BY <1>13, <2>1, <2>2, ShutDownInv, PointedKept
<1>14. ASSUME ExpungeOne PROVE Inv' /\ Pointed'
  BY <1>14, ExpungeOneInv, PointedKept DEF ExpungeOne
<1>15. ASSUME Close PROVE Inv' /\ Pointed'
  BY <1>15, CloseInv, PointedKept DEF Close
<1>16. ASSUME UNCHANGED vars PROVE Inv' /\ Pointed'
  <2>1. TypeOK' /\ Heap'
    BY <1>16 DEF vars, position, Inv, TypeOK, Heap, CachedOnce, ExpungeNextIsAlive
  <2> QED
    BY <1>16, <2>1 DEF vars, position, Inv, Pointed
<1> QED
  BY <1>2, <1>3, <1>4, <1>5, <1>6, <1>7, <1>8, <1>9, <1>10, <1>11, <1>12, <1>13,
     <1>14, <1>15, <1>16, SetPointerInv DEF Next
-----------------------------------------------------------------------------
(* The theorems *)

LEMMA InvHolds == Spec => [](Inv /\ Pointed)
BY InitInv, NextInv, PTL DEF Spec

\* Every variable keeps its type, whatever loads nest in which.
THEOREM CacheIsTyped == Spec => []TypeOK
<1>1. Inv => TypeOK
  BY DEF Inv
<1> QED
  BY <1>1, InvHolds, PTL

\* A loader's next read comes from its own file, at the place it had reached,
\* whatever SavePosition, RestorePosition and PollSound did in between.
THEOREM LoadersReadTheirFiles == Spec => []ReadsOwnFile
<1>1. Inv => ReadsOwnFile
  <2> SUFFICES ASSUME Inv, stack # <<>>, Top.kind # "cursor", ~AtEnd
               PROVE  /\ curHandleIdx = Containing(Top.file)
                      /\ offset[curHandleIdx] = [file |-> Top.file, pos |-> Top.pos]
    BY DEF ReadsOwnFile
  <2>1. TopOf(stack) = Top /\ ~AtEndOf(Top)
    BY DEF TopOf, Top, AtEnd, AtEndOf
  <2>2. At([agg |-> curHandleIdx, at |-> offset[curHandleIdx]], Top)
    BY <2>1 DEF Inv, PositionsOf, Reading
  <2> QED
    BY <2>2 DEF At
<1> QED
  BY <1>1, InvHolds, PTL

\* AddResource never puts a second object of a file in the cache, although
\* other Gets ran between the query that missed and the insertion.
THEOREM FilesAreCachedOnce == Spec => []CachedOnce
<1>1. Inv => CachedOnce
  BY DEF Inv, Heap
<1> QED
  BY <1>1, InvHolds, PTL

\* Expunge never visits an object that an earlier destructor deleted.
THEOREM ExpungeVisitsLiveObjects == Spec => []ExpungeNextIsAlive
<1>1. Inv => ExpungeNextIsAlive
  BY DEF Inv, Heap
<1> QED
  BY <1>1, InvHolds, PTL

\* At most three positions are saved at a time, and every SavePosition is
\* undone by the time the outermost load is over.
THEOREM SavedPositionsAreRestored == Spec => []SavesBalanced
<1>1. Inv => SavesBalanced
  <2> SUFFICES ASSUME Inv PROVE Len(saved) <= 3 /\ (stack = <<>> => saved = <<>>)
    BY DEF SavesBalanced
  <2>1. saved \in Seq(Saved)
    BY DEF Inv, TypeOK
  <2>2. Len(saved) = (IF Nested(stack) THEN 1 ELSE 0) + (IF Drawing(stack) THEN 2 ELSE 0)
    BY DEF Inv, PositionsOf
  <2>3. ASSUME stack = <<>> PROVE saved = <<>>
    <3>1. ~Nested(stack) /\ ~Drawing(stack)
      BY <2>3 DEF Nested, Drawing
    <3> QED
      BY <2>1, <2>2, <3>1
  <2> QED
    BY <2>2, <2>3
<1> QED
  BY <1>1, InvHolds, PTL
=============================================================================
