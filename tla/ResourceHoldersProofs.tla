----------------------- MODULE ResourceHoldersProofs -----------------------
(***************************************************************************)
(* Who keeps which resource: the counts of the cache are right, nobody     *)
(* keeps what was deleted, and so the cache keeps what ResourceCache       *)
(* promises, liveness apart.                                               *)
(*                                                                         *)
(* None of it is inductive.  While a resource is being given back its      *)
(* count is one too high (the debtor of Balanced), an object under         *)
(* construction is counted once for a holder it does not have yet, and a   *)
(* font whose glyphs are being loaded must not have any.                   *)
(***************************************************************************)
EXTENDS ResourceManagerProofs, FiniteSetTheorems

\* SetPointer waits for its icon: cursorIcon is stale.
Waiting(st) == \E i \in 1..Len(st) : st[i].kind = "cursor"
IconOf(st, cur) == IF Waiting(st) THEN Null ELSE cur.icon
Pointers == {ColorIcon[c] : c \in Cursors}

\* Holders, of any heap, places and cursor.
HoldersOf(heap, h, icon, a) ==
  {<<"slot", s>> : s \in {t \in Slots : h[t].obj = a}}
  \cup {<<"font", b>> : b \in {b \in Addr : heap[b].glyph = a}}
  \cup {<<"cursor", c>> : c \in {c \in {a} : icon = c}}

\* What the count of a exceeds its holders by.
Excess(list, debtor, a) == (IF a \in list THEN 0 ELSE 1) + (IF a = debtor THEN 1 ELSE 0)
BalancedAt(heap, list, h, icon, debtor, a) ==
  /\ IsFiniteSet(HoldersOf(heap, h, icon, a))
  /\ heap[a].refs = Cardinality(HoldersOf(heap, h, icon, a)) + Excess(list, debtor, a)
Balanced(heap, list, h, icon, debtor) ==
  \A a \in Addr : heap[a] # Free => BalancedAt(heap, list, h, icon, debtor, a)

\* What is kept is in the cache, and is what was asked for.
SlotsAlive(heap, list, h) ==
  \A s \in Slots : h[s] # Nothing => h[s].obj \in list /\ heap[h[s].obj].file = h[s].file
GlyphsAlive(heap, list) ==
  \A b \in Addr : heap[b].glyph # Null =>
    /\ heap[b].glyph \in list /\ heap[b].file \in Fonts
    /\ heap[heap[b].glyph].file = Glyph[heap[b].file]
IconAlive(heap, list, icon) == icon # Null => icon \in list /\ heap[icon].file \in Pointers
HeldAlive(heap, list, h, icon) ==
  /\ list \subseteq Addr /\ \A a \in list : heap[a] # Free
  /\ SlotsAlive(heap, list, h) /\ GlyphsAlive(heap, list) /\ IconAlive(heap, list, icon)

\* What is not in the cache is under construction; glyphs are loaded for a font that
\* has none, and an icon for the cursor.
Building(st, heap, list) ==
  /\ \A a \in Addr : heap[a] # Free =>
       a \in list \/ \E i \in 1..Len(st) : st[i].kind = "resource" /\ st[i].obj = a
  /\ \A i \in 1..Len(st), j \in 1..Len(st) :
       j = i + 1 /\ st[i].kind = "resource" /\ st[j].kind = "resource" =>
         heap[st[i].obj].glyph = Null /\ st[j].file = Glyph[st[i].file]
  /\ Waiting(st) => st[2].file \in Pointers

Kept ==
  phase = "open" =>
    /\ Balanced(object, cached, held, IconOf(stack, cursor), Null)
    /\ HeldAlive(object, cached, held, IconOf(stack, cursor))
    /\ Building(stack, object, cached)

HInv == Inv /\ Pointed /\ Kept

\* A heap whose counts are right but for a holder of `debtor' that is gone.
Good(heap, list, h, icon, debtor) ==
  /\ heap \in Store /\ h \in [Slots -> Hold] /\ icon \in Addr \cup {Null}
  /\ Balanced(heap, list, h, icon, debtor) /\ HeldAlive(heap, list, h, icon)
-----------------------------------------------------------------------------
(* Holders *)

LEMMA Holding ==
  ASSUME NEW heap, NEW h, NEW icon, NEW a, NEW x
  PROVE  x \in HoldersOf(heap, h, icon, a) <=>
           \/ \E s \in Slots : x = <<"slot", s>> /\ h[s].obj = a
           \/ \E b \in Addr : x = <<"font", b>> /\ heap[b].glyph = a
           \/ x = <<"cursor", a>> /\ icon = a
BY DEF HoldersOf

\* B holds what A does, and x besides.
Gains(A, B, x) == x \notin A /\ B = A \cup {x}

LEMMA GainCounts ==
  ASSUME NEW A, NEW B, NEW x, Gains(A, B, x)
  PROVE  /\ IsFiniteSet(A) <=> IsFiniteSet(B)
         /\ IsFiniteSet(A) => Cardinality(A) \in Nat /\ Cardinality(B) = Cardinality(A) + 1
<1>1. IsFiniteSet(A) => IsFiniteSet(B)
  BY FS_AddElement DEF Gains
<1>2. IsFiniteSet(B) => IsFiniteSet(A)
  BY FS_Subset DEF Gains
<1>3. IsFiniteSet(A) => Cardinality(A) \in Nat /\ Cardinality(B) = Cardinality(A) + 1
  BY FS_AddElement, FS_CardinalityType DEF Gains
<1> QED
  BY <1>1, <1>2, <1>3

LEMMA HoldersSame ==
  ASSUME NEW heap, NEW h, NEW icon, NEW heap2, NEW h2, NEW icon2, NEW a,
         \A s \in Slots : h2[s].obj = a <=> h[s].obj = a,
         \A b \in Addr : heap2[b].glyph = a <=> heap[b].glyph = a,
         icon2 = a <=> icon = a
  PROVE  HoldersOf(heap2, h2, icon2, a) = HoldersOf(heap, h, icon, a)
<1>1. ASSUME NEW x PROVE x \in HoldersOf(heap2, h2, icon2, a) <=> x \in HoldersOf(heap, h, icon, a)
  BY Holding
<1> QED
  BY <1>1

\* Somebody comes to keep a, and nobody else keeps anything else than before.
Taken(heap, h, icon, heap2, h2, icon2, a) ==
  /\ \E x : Gains(HoldersOf(heap, h, icon, a), HoldersOf(heap2, h2, icon2, a), x)
  /\ \A b \in Addr \ {a} : HoldersOf(heap2, h2, icon2, b) = HoldersOf(heap, h, icon, b)

LEMMA SlotTakes ==
  ASSUME NEW heap, NEW h, NEW icon, NEW heap2, NEW h2, NEW a \in Addr, NEW s \in Slots,
         h[s].obj = Null, h2[s].obj = a, \A t \in Slots \ {s} : h2[t] = h[t],
         \A b \in Addr : heap2[b].glyph = heap[b].glyph
  PROVE  Taken(heap, h, icon, heap2, h2, icon, a)
<1> DEFINE A == HoldersOf(heap, h, icon, a)
           B == HoldersOf(heap2, h2, icon, a)
<1>1. ASSUME NEW x PROVE x \in B <=> x \in A \/ x = <<"slot", s>>
  BY Holding
<1>2. <<"slot", s>> \notin A
  BY Holding, KindsAssumption
<1>3. ASSUME NEW b \in Addr \ {a} PROVE HoldersOf(heap2, h2, icon, b) = HoldersOf(heap, h, icon, b)
  <2>1. \A t \in Slots : h2[t].obj = b <=> h[t].obj = b
    BY KindsAssumption
  <2> QED
    BY <2>1, HoldersSame
<1> HIDE DEF A, B
<1>4. Gains(A, B, <<"slot", s>>)
  BY <1>1, <1>2 DEF Gains
<1> QED
  BY <1>3, <1>4 DEF Taken, A, B

LEMMA FontTakes ==
  ASSUME NEW heap, NEW h, NEW icon, NEW heap2, NEW a \in Addr, NEW c \in Addr,
         heap[c].glyph = Null, heap2[c].glyph = a,
         \A b \in Addr \ {c} : heap2[b].glyph = heap[b].glyph
  PROVE  Taken(heap, h, icon, heap2, h, icon, a)
<1> DEFINE A == HoldersOf(heap, h, icon, a)
           B == HoldersOf(heap2, h, icon, a)
<1>1. ASSUME NEW x PROVE x \in B <=> x \in A \/ x = <<"font", c>>
  BY Holding
<1>2. <<"font", c>> \notin A
  BY Holding, KindsAssumption
<1>3. ASSUME NEW b \in Addr \ {a} PROVE HoldersOf(heap2, h, icon, b) = HoldersOf(heap, h, icon, b)
  <2>1. \A t \in Addr : heap2[t].glyph = b <=> heap[t].glyph = b
    BY KindsAssumption
  <2> QED
    BY <2>1, HoldersSame
<1> HIDE DEF A, B
<1>4. Gains(A, B, <<"font", c>>)
  BY <1>1, <1>2 DEF Gains
<1> QED
  BY <1>3, <1>4 DEF Taken, A, B

LEMMA CursorTakes ==
  ASSUME NEW heap, NEW h, NEW heap2, NEW a \in Addr,
         \A b \in Addr : heap2[b].glyph = heap[b].glyph
  PROVE  Taken(heap, h, Null, heap2, h, a, a)
<1> DEFINE A == HoldersOf(heap, h, Null, a)
           B == HoldersOf(heap2, h, a, a)
<1>1. ASSUME NEW x PROVE x \in B <=> x \in A \/ x = <<"cursor", a>>
  BY Holding
<1>2. <<"cursor", a>> \notin A
  BY Holding, KindsAssumption
<1>3. ASSUME NEW b \in Addr \ {a} PROVE HoldersOf(heap2, h, a, b) = HoldersOf(heap, h, Null, b)
  BY HoldersSame, KindsAssumption
<1> HIDE DEF A, B
<1>4. Gains(A, B, <<"cursor", a>>)
  BY <1>1, <1>2 DEF Gains
<1> QED
  BY <1>3, <1>4 DEF Taken, A, B
-----------------------------------------------------------------------------
(* Counts *)

\* A new holder that is counted.
LEMMA CountedUp ==
  ASSUME NEW heap \in Store, NEW h, NEW icon, NEW heap2 \in Store, NEW h2, NEW icon2,
         NEW list, NEW a \in Addr, heap[a] # Free,
         Balanced(heap, list, h, icon, Null), Taken(heap, h, icon, heap2, h2, icon2, a),
         heap2[a].refs = heap[a].refs + 1,
         \A b \in Addr \ {a} : heap2[b].refs = heap[b].refs /\ (heap2[b] # Free => heap[b] # Free)
  PROVE  Balanced(heap2, list, h2, icon2, Null)
<1>1. PICK x : Gains(HoldersOf(heap, h, icon, a), HoldersOf(heap2, h2, icon2, a), x)
  BY DEF Taken
<1>2. BalancedAt(heap, list, h, icon, Null, a)
  BY DEF Balanced
<1>3. BalancedAt(heap2, list, h2, icon2, Null, a)
  <2>1. /\ IsFiniteSet(HoldersOf(heap2, h2, icon2, a))
        /\ Cardinality(HoldersOf(heap, h, icon, a)) \in Nat
        /\ Cardinality(HoldersOf(heap2, h2, icon2, a)) = Cardinality(HoldersOf(heap, h, icon, a)) + 1
    BY <1>1, <1>2, GainCounts DEF BalancedAt
  <2> QED
    BY <1>2, <2>1 DEF BalancedAt, Excess
<1>4. ASSUME NEW b \in Addr \ {a}, heap2[b] # Free
      PROVE  BalancedAt(heap2, list, h2, icon2, Null, b)
  <2>1. BalancedAt(heap, list, h, icon, Null, b)
    BY <1>4 DEF Balanced
  <2>2. HoldersOf(heap2, h2, icon2, b) = HoldersOf(heap, h, icon, b)
    BY DEF Taken
  <2> QED
    BY <2>1, <2>2 DEF BalancedAt
<1> QED
  BY <1>3, <1>4 DEF Balanced

\* Whoever waited for an object under construction is its first holder.
LEMMA CountedFromTheStart ==
  ASSUME NEW heap \in Store, NEW h, NEW icon, NEW heap2 \in Store, NEW h2, NEW icon2,
         NEW list, NEW a \in Addr, heap[a] # Free, a \notin list,
         Balanced(heap, list, h, icon, Null), Taken(heap, h, icon, heap2, h2, icon2, a),
         \A b \in Addr : heap2[b].refs = heap[b].refs /\ (heap2[b] # Free => heap[b] # Free)
  PROVE  Balanced(heap2, list \cup {a}, h2, icon2, Null)
<1>1. PICK x : Gains(HoldersOf(heap, h, icon, a), HoldersOf(heap2, h2, icon2, a), x)
  BY DEF Taken
<1>2. BalancedAt(heap, list, h, icon, Null, a) /\ a # Null
  BY KindsAssumption DEF Balanced
<1>3. BalancedAt(heap2, list \cup {a}, h2, icon2, Null, a)
  <2>1. /\ IsFiniteSet(HoldersOf(heap2, h2, icon2, a))
        /\ Cardinality(HoldersOf(heap, h, icon, a)) \in Nat
        /\ Cardinality(HoldersOf(heap2, h2, icon2, a)) = Cardinality(HoldersOf(heap, h, icon, a)) + 1
    BY <1>1, <1>2, GainCounts DEF BalancedAt
  <2> QED
    BY <1>2, <2>1 DEF BalancedAt, Excess
<1>4. ASSUME NEW b \in Addr \ {a}, heap2[b] # Free
      PROVE  BalancedAt(heap2, list \cup {a}, h2, icon2, Null, b)
  <2>1. BalancedAt(heap, list, h, icon, Null, b)
    BY <1>4 DEF Balanced
  <2>2. HoldersOf(heap2, h2, icon2, b) = HoldersOf(heap, h, icon, b)
    BY DEF Taken
  <2>3. Excess(list \cup {a}, Null, b) = Excess(list, Null, b)
    BY DEF Excess
  <2> QED
    BY <2>1, <2>2, <2>3 DEF BalancedAt
<1> QED
  BY <1>3, <1>4 DEF Balanced

\* Who stops keeping a, before it is counted down, leaves it one count too many.
LEMMA Owed ==
  ASSUME NEW heap, NEW h, NEW icon, NEW heap2, NEW h2, NEW icon2,
         NEW list, NEW list2, NEW a \in Addr, heap2[a] # Free,
         Balanced(heap2, list2, h2, icon2, Null), Taken(heap, h, icon, heap2, h2, icon2, a),
         \A b \in Addr : heap[b] # Free =>
           heap2[b] # Free /\ heap2[b].refs = heap[b].refs /\ (b \in list <=> b \in list2)
  PROVE  Balanced(heap, list, h, icon, a)
<1>1. PICK x : Gains(HoldersOf(heap, h, icon, a), HoldersOf(heap2, h2, icon2, a), x)
  BY DEF Taken
<1>2. BalancedAt(heap2, list2, h2, icon2, Null, a) /\ a # Null
  BY KindsAssumption DEF Balanced
<1>3. ASSUME heap[a] # Free PROVE BalancedAt(heap, list, h, icon, a, a)
  <2>1. /\ IsFiniteSet(HoldersOf(heap, h, icon, a))
        /\ Cardinality(HoldersOf(heap, h, icon, a)) \in Nat
        /\ Cardinality(HoldersOf(heap2, h2, icon2, a)) = Cardinality(HoldersOf(heap, h, icon, a)) + 1
    BY <1>1, <1>2, GainCounts DEF BalancedAt
  <2>2. heap2[a].refs = heap[a].refs /\ (a \in list <=> a \in list2)
    BY <1>3
  <2> QED
    BY <1>2, <2>1, <2>2 DEF BalancedAt, Excess
<1>4. ASSUME NEW b \in Addr \ {a}, heap[b] # Free PROVE BalancedAt(heap, list, h, icon, a, b)
  <2>1. BalancedAt(heap2, list2, h2, icon2, Null, b)
    BY <1>4 DEF Balanced
  <2>2. HoldersOf(heap2, h2, icon2, b) = HoldersOf(heap, h, icon, b)
    BY DEF Taken
  <2>3. Excess(list, a, b) = Excess(list2, Null, b)
    BY <1>4, KindsAssumption DEF Excess
  <2> QED
    BY <1>4, <2>1, <2>2, <2>3 DEF BalancedAt
<1> QED
  BY <1>3, <1>4 DEF Balanced

\* The count of what is given up, and is not its last, goes down.
LEMMA UnreferenceGood ==
  ASSUME NEW heap, NEW list, NEW h, NEW icon, NEW a \in Addr,
         Good(heap, list, h, icon, a), heap[a].refs > 1
  PROVE  Good(Unreference(heap, a), list, h, icon, Null)
<1>1. heap \in Store /\ heap[a] \in Object /\ heap[a] # Free
  BY FreeOrObject, KindsAssumption DEF Good, Object, Free, File
<1>2. PICK new \in Store : new = Unreference(heap, a)
  BY <1>1, UnreferenceShrinks DEF Shrinks
<1>3. new = [heap EXCEPT ![a] = [heap[a] EXCEPT !.refs = @ - 1]]
  BY <1>1, <1>2 DEF Unreference, Store
<1>4. /\ new[a].refs = heap[a].refs - 1 /\ new[a].glyph = heap[a].glyph
      /\ new[a].file = heap[a].file
      /\ \A b \in Addr \ {a} : new[b] = heap[b]
  BY <1>1, <1>3 DEF Store, Object
<1>5. \A b \in Addr : new[b].file = heap[b].file /\ new[b].glyph = heap[b].glyph
  BY <1>4
<1>6. \A b \in Addr : new[b] = Free <=> heap[b] = Free
  BY <1>1, <1>2, <1>5, FreeOrObject
<1>7. \A b : HoldersOf(new, h, icon, b) = HoldersOf(heap, h, icon, b)
  <2> TAKE b
  <2> QED
    BY <1>5, HoldersSame
<1>8. Balanced(new, list, h, icon, Null)
  <2>1. ASSUME NEW b \in Addr, new[b] # Free PROVE BalancedAt(new, list, h, icon, Null, b)
    <3>1. BalancedAt(heap, list, h, icon, a, b)
      BY <1>6, <2>1 DEF Good, Balanced
    <3>2. HoldersOf(new, h, icon, b) = HoldersOf(heap, h, icon, b)
      BY <1>7
    <3>3. CASE b = a
      <4>1. Excess(list, a, b) = Excess(list, Null, b) + 1 /\ Excess(list, Null, b) \in Nat
        BY <3>3, KindsAssumption DEF Excess
      <4>2. Cardinality(HoldersOf(heap, h, icon, b)) \in Nat
        BY <3>1, FS_CardinalityType DEF BalancedAt
      <4> QED
        BY <1>4, <3>1, <3>2, <3>3, <4>1, <4>2 DEF BalancedAt
    <3>4. CASE b # a
      <4>1. Excess(list, a, b) = Excess(list, Null, b)
        BY <3>4, KindsAssumption DEF Excess
      <4> QED
        BY <1>4, <3>1, <3>2, <3>4, <4>1 DEF BalancedAt
    <3> QED
      BY <3>3, <3>4
  <2> QED
    BY <2>1 DEF Balanced
<1>9. HeldAlive(new, list, h, icon)
  <2>1. HeldAlive(heap, list, h, icon)
    BY DEF Good
  <2>2. SlotsAlive(new, list, h)
    BY <1>5, <2>1 DEF HeldAlive, SlotsAlive
  <2>3. GlyphsAlive(new, list)
    BY <1>5, <2>1 DEF HeldAlive, GlyphsAlive
  <2>4. IconAlive(new, list, icon)
    BY <1>5, <2>1 DEF HeldAlive, IconAlive
  <2>5. \A b \in list : new[b] # Free
    BY <1>6, <2>1 DEF HeldAlive
  <2> QED
    BY <2>1, <2>2, <2>3, <2>4, <2>5 DEF HeldAlive
<1> QED
  BY <1>2, <1>8, <1>9 DEF Good

\* Nobody keeps what is given up and was kept once.
LEMMA NobodyHolds ==
  ASSUME NEW heap, NEW list, NEW h, NEW icon, NEW a \in Addr,
         Good(heap, list, h, icon, a), a \in list, ~(heap[a].refs > 1)
  PROVE  /\ \A s \in Slots : h[s].obj # a
         /\ \A b \in Addr : heap[b].glyph # a
         /\ icon # a
<1>1. heap[a] # Free /\ heap \in Store
  BY DEF Good, HeldAlive
<1> DEFINE A == HoldersOf(heap, h, icon, a)
<1>2. IsFiniteSet(A) /\ heap[a].refs = Cardinality(A) + 1
  BY <1>1 DEF Good, Balanced, BalancedAt, Excess
<1> HIDE DEF A
<1>3. heap[a].refs \in Nat /\ Cardinality(A) \in Nat
  BY <1>1, <1>2, FreeOrObject, FS_CardinalityType DEF Object
<1>4. Cardinality(A) = 0
  BY <1>2, <1>3
<1>5. A = {}
  BY <1>2, <1>4, FS_EmptySet
<1>6. ASSUME NEW x PROVE x \notin HoldersOf(heap, h, icon, a)
  BY <1>5 DEF A
<1>7. ASSUME NEW s \in Slots PROVE h[s].obj # a
  <2>1. <<"slot", s>> \notin HoldersOf(heap, h, icon, a)
    BY <1>6
  <2> QED
    BY <2>1, Holding
<1>8. ASSUME NEW b \in Addr PROVE heap[b].glyph # a
  <2>1. <<"font", b>> \notin HoldersOf(heap, h, icon, a)
    BY <1>6
  <2> QED
    BY <2>1, Holding
<1>9. icon # a
  <2>1. <<"cursor", a>> \notin HoldersOf(heap, h, icon, a)
    BY <1>6
  <2> QED
    BY <2>1, Holding
<1> QED
  BY <1>7, <1>8, <1>9

\* What nobody keeps any more is deleted; then its glyphs, if it has some, are
\* what is counted once too often.
LEMMA FreeGood ==
  ASSUME NEW heap, NEW list, NEW h, NEW icon, NEW a \in Addr,
         Good(heap, list, h, icon, a), a \in list, ~(heap[a].refs > 1)
  PROVE  Good([heap EXCEPT ![a] = Free], list \ {a}, h, icon, heap[a].glyph)
<1>1. heap[a] # Free /\ heap \in Store /\ HeldAlive(heap, list, h, icon) /\ list \subseteq Addr
  BY DEF Good, HeldAlive
<1>2. PICK new \in Store : new = [heap EXCEPT ![a] = Free]
  BY <1>1, FreeShrinks DEF Shrinks
<1>3. new[a] = Free /\ \A b \in Addr \ {a} : new[b] = heap[b]
  BY <1>1, <1>2 DEF Store
<1>4. /\ \A s \in Slots : h[s].obj # a
      /\ \A b \in Addr : heap[b].glyph # a
      /\ icon # a
  BY NobodyHolds
<1>5. new[a].glyph = Null
  BY <1>3 DEF Free
<1>6. PICK g \in Addr \cup {Null} : g = heap[a].glyph
  BY <1>1, FreeOrObject
<1>7. Balanced(new, list \ {a}, h, icon, g)
  <2>1. CASE g = Null
    <3>1. ASSUME NEW b \in Addr, new[b] # Free
          PROVE  BalancedAt(new, list \ {a}, h, icon, g, b)
      <4>1. b # a /\ new[b] = heap[b]
        BY <1>3, <3>1
      <4>2. BalancedAt(heap, list, h, icon, a, b)
        BY <3>1, <4>1 DEF Good, Balanced
      <4>3. HoldersOf(new, h, icon, b) = HoldersOf(heap, h, icon, b)
        <5>1. \A c \in Addr : new[c].glyph = heap[c].glyph
          BY <1>3, <1>5, <1>6, <2>1
        <5> QED
          BY <5>1, HoldersSame
      <4>4. Excess(list \ {a}, g, b) = Excess(list, a, b)
        BY <2>1, <4>1, KindsAssumption DEF Excess
      <4> QED
        BY <4>1, <4>2, <4>3, <4>4 DEF BalancedAt
    <3> QED
      BY <3>1 DEF Balanced
  <2>2. CASE g \in Addr
    <3>1. Taken(new, h, icon, heap, h, icon, g)
      BY <1>3, <1>5, <1>6, <2>2, FontTakes
    <3>2. PICK x : Gains(HoldersOf(new, h, icon, g), HoldersOf(heap, h, icon, g), x)
      BY <3>1 DEF Taken
    <3>3. ASSUME NEW b \in Addr, new[b] # Free
          PROVE  BalancedAt(new, list \ {a}, h, icon, g, b)
      <4>1. b # a /\ new[b] = heap[b]
        BY <1>3, <3>3
      <4>2. BalancedAt(heap, list, h, icon, a, b)
        BY <3>3, <4>1 DEF Good, Balanced
      <4>3. CASE b = g
        <5>1. /\ IsFiniteSet(HoldersOf(new, h, icon, b))
              /\ Cardinality(HoldersOf(new, h, icon, b)) \in Nat
              /\ Cardinality(HoldersOf(heap, h, icon, b)) = Cardinality(HoldersOf(new, h, icon, b)) + 1
          BY <3>2, <4>2, <4>3, GainCounts DEF BalancedAt
        <5>2. Excess(list \ {a}, g, b) = Excess(list, a, b) + 1 /\ Excess(list, a, b) \in Nat
          BY <4>1, <4>3 DEF Excess
        <5> QED
          BY <4>1, <4>2, <5>1, <5>2 DEF BalancedAt
      <4>4. CASE b # g
        <5>1. HoldersOf(new, h, icon, b) = HoldersOf(heap, h, icon, b)
          BY <3>1, <4>4 DEF Taken
        <5>2. Excess(list \ {a}, g, b) = Excess(list, a, b)
          BY <4>1, <4>4 DEF Excess
        <5> QED
          BY <4>1, <4>2, <5>1, <5>2 DEF BalancedAt
      <4> QED
        BY <4>3, <4>4
    <3> QED
      BY <3>3 DEF Balanced
  <2> QED
    BY <2>1, <2>2
<1>8. HeldAlive(new, list \ {a}, h, icon)
  <2>1. SlotsAlive(new, list \ {a}, h)
    BY <1>1, <1>3, <1>4 DEF HeldAlive, SlotsAlive
  <2>2. GlyphsAlive(new, list \ {a})
    BY <1>1, <1>3, <1>4, <1>5 DEF HeldAlive, GlyphsAlive
  <2>3. IconAlive(new, list \ {a}, icon)
    BY <1>1, <1>3, <1>4 DEF HeldAlive, IconAlive
  <2>4. \A b \in list \ {a} : new[b] # Free
    BY <1>1, <1>3 DEF HeldAlive
  <2> QED
    BY <1>1, <2>1, <2>2, <2>3, <2>4 DEF HeldAlive
<1> QED
  BY <1>2, <1>6, <1>7, <1>8 DEF Good

\* What is left of a list.
LeftOf(list, heap) == {c \in list : heap[c] # Free}

LEMMA DisposeIconGood ==
  ASSUME NEW heap, NEW list, NEW h, NEW icon, NEW a \in Addr, phase = "open",
         Good(heap, list, h, icon, a), a \in list, heap[a].glyph = Null
  PROVE  Good(DisposeIcon(heap, a), LeftOf(list, DisposeIcon(heap, a)), h, icon, Null)
<1>1. heap \in Store /\ list \subseteq Addr /\ \A c \in list : heap[c] # Free
  BY DEF Good, HeldAlive
<1>2. CASE heap[a].refs > 1
  <2>1. PICK new : new = Unreference(heap, a)
    OBVIOUS
  <2>2. DisposeIcon(heap, a) = new
    BY <1>2, <2>1 DEF DisposeIcon
  <2>3. Good(new, list, h, icon, Null)
    BY <1>2, <2>1, UnreferenceGood
  <2>4. LeftOf(list, new) = list
    BY <2>3 DEF LeftOf, Good, HeldAlive
  <2> QED
    BY <2>2, <2>3, <2>4
<1>3. CASE ~(heap[a].refs > 1)
  <2>1. PICK new : new = [heap EXCEPT ![a] = Free]
    OBVIOUS
  <2>2. DisposeIcon(heap, a) = new
    BY <1>3, <2>1 DEF DisposeIcon
  <2>3. Good(new, list \ {a}, h, icon, Null)
    BY <1>3, <2>1, FreeGood
  <2>4. LeftOf(list, new) = list \ {a}
    BY <1>1, <2>1 DEF LeftOf, Store
  <2> QED
    BY <2>2, <2>3, <2>4
<1> QED
  BY <1>2, <1>3

\* Dispose puts the count right, deletes what nobody keeps, and with a font what
\* nobody keeps but for its glyphs.
LEMMA DisposeGood ==
  ASSUME NEW heap, NEW list, NEW h, NEW icon, NEW a \in Addr, phase = "open",
         Good(heap, list, h, icon, a), a \in list
  PROVE  Good(Dispose(heap, a), LeftOf(list, Dispose(heap, a)), h, icon, Null)
<1>1. /\ heap \in Store /\ list \subseteq Addr /\ \A c \in list : heap[c] # Free
      /\ a # Null
  BY KindsAssumption DEF Good, HeldAlive
<1>2. CASE heap[a].refs > 1
  <2>1. PICK new : new = Unreference(heap, a)
    OBVIOUS
  <2>2. Dispose(heap, a) = new
    BY <1>1, <1>2, <2>1 DEF Dispose
  <2>3. Good(new, list, h, icon, Null)
    BY <1>2, <2>1, UnreferenceGood
  <2>4. LeftOf(list, new) = list
    BY <2>3 DEF LeftOf, Good, HeldAlive
  <2> QED
    BY <2>2, <2>3, <2>4
<1>3. CASE ~(heap[a].refs > 1)
  <2>1. PICK rest : rest = [heap EXCEPT ![a] = Free]
    OBVIOUS
  <2>2. PICK g \in Addr \cup {Null} : g = heap[a].glyph
    BY <1>1, FreeOrObject
  <2>3. Good(rest, list \ {a}, h, icon, g)
    BY <1>3, <2>1, <2>2, FreeGood
  <2>4. Dispose(heap, a) = IF g = Null THEN rest ELSE DisposeIcon(rest, g)
    BY <1>1, <1>3, <2>1, <2>2 DEF Dispose, Delete
  <2>5. CASE g = Null
    <3>1. LeftOf(list, rest) = list \ {a}
      BY <1>1, <2>1 DEF LeftOf, Store
    <3> QED
      BY <2>3, <2>4, <2>5, <3>1
  <2>6. CASE g # Null
    <3>1. g \in Addr /\ g \in list /\ heap[g].file \in Icons /\ heap[a].file \in Fonts
      BY <2>2, <2>6, FilesAssumption DEF Good, HeldAlive, GlyphsAlive
    <3>2. g \in list \ {a} /\ rest[g] = heap[g]
      BY <1>1, <2>1, <3>1, KindsAssumption DEF Store
    <3>3. rest[g].glyph = Null
      BY <3>1, <3>2, KindsAssumption DEF Good, HeldAlive, GlyphsAlive
    <3>4. PICK new : new = DisposeIcon(rest, g)
      OBVIOUS
    <3>5. Good(new, LeftOf(list \ {a}, new), h, icon, Null)
      BY <2>3, <3>1, <3>2, <3>3, <3>4, DisposeIconGood
    <3>6. rest \in Store /\ new \in Store /\ rest[a] = Free /\ new[a] = Free
      <4>1. rest \in Store /\ rest[a] = Free
        BY <1>1, <2>1, <2>3 DEF Good, Store
      <4>2. Shrinks(rest, new)
        BY <3>1, <3>4, <4>1, DisposeIconShrinks
      <4> QED
        BY <4>1, <4>2 DEF Shrinks
    <3>7. LeftOf(list, new) = LeftOf(list \ {a}, new)
      BY <3>6 DEF LeftOf
    <3> QED
      BY <2>4, <2>6, <3>4, <3>5, <3>7
  <2> QED
    BY <2>5, <2>6
<1> QED
  BY <1>2, <1>3
-----------------------------------------------------------------------------
(* Heaps that change little *)

\* Same files, same glyphs, same addresses in use.
SameObjects(heap, heap2) ==
  \A b \in Addr : /\ heap2[b].file = heap[b].file /\ heap2[b].glyph = heap[b].glyph
                  /\ heap2[b] # Free <=> heap[b] # Free

LEMMA AliveSame ==
  ASSUME NEW heap, NEW heap2, NEW list, NEW h, NEW icon,
         HeldAlive(heap, list, h, icon), SameObjects(heap, heap2)
  PROVE  HeldAlive(heap2, list, h, icon)
<1>1. list \subseteq Addr /\ \A b \in list : heap2[b] # Free
  BY DEF HeldAlive, SameObjects
<1>2. SlotsAlive(heap2, list, h)
  BY <1>1 DEF HeldAlive, SlotsAlive, SameObjects
<1>3. GlyphsAlive(heap2, list)
  BY <1>1 DEF HeldAlive, GlyphsAlive, SameObjects
<1>4. IconAlive(heap2, list, icon)
  BY <1>1 DEF HeldAlive, IconAlive, SameObjects
<1> QED
  BY <1>1, <1>2, <1>3, <1>4 DEF HeldAlive

LEMMA BuildingSame ==
  ASSUME NEW st \in Seq(Frame), ShapeOf(st), NEW heap, NEW heap2, NEW list,
         Building(st, heap, list), SameObjects(heap, heap2)
  PROVE  Building(st, heap2, list)
<1>1. \A i \in 1..Len(st) : st[i].kind = "resource" => st[i].obj \in Addr
  BY DEF ShapeOf, Frames
<1> QED
  BY <1>1 DEF Building, SameObjects

\* A count goes up.
LEMMA RefUpFacts ==
  ASSUME NEW heap \in Store, NEW a \in Addr, heap[a] # Free
  PROVE  LET new == [heap EXCEPT ![a].refs = @ + 1] IN
         /\ new \in Store /\ SameObjects(heap, new)
         /\ new[a].refs = heap[a].refs + 1 /\ \A b \in Addr \ {a} : new[b] = heap[b]
<1> DEFINE o == [heap[a] EXCEPT !.refs = @ + 1]
           new == [heap EXCEPT ![a].refs = @ + 1]
<1>1. heap[a] \in Object
  BY FreeOrObject
<1>2. o \in Object /\ o.file = heap[a].file /\ o.glyph = heap[a].glyph /\ o.refs = heap[a].refs + 1
  BY <1>1 DEF Object
<1>3. new = [heap EXCEPT ![a] = o]
  OBVIOUS
<1> HIDE DEF o, new
<1>4. new \in Store /\ new[a] = o /\ \A b \in Addr \ {a} : new[b] = heap[b]
  BY <1>2, <1>3 DEF Store
<1>5. \A b \in Addr : new[b].file = heap[b].file /\ new[b].glyph = heap[b].glyph
  BY <1>2, <1>4
<1>6. SameObjects(heap, new)
  BY <1>4, <1>5, FreeOrObject DEF SameObjects
<1> QED
  BY <1>2, <1>4, <1>6 DEF new

\* A font gets its glyphs.
LEMMA GlyphSetFacts ==
  ASSUME NEW heap \in Store, NEW a \in Addr, NEW t \in Addr, heap[t] # Free
  PROVE  LET new == [heap EXCEPT ![t].glyph = a] IN
         /\ new \in Store /\ new[t].glyph = a /\ new[t].refs = heap[t].refs
         /\ new[t].file = heap[t].file /\ new[t] # Free
         /\ \A b \in Addr \ {t} : new[b] = heap[b]
<1> DEFINE o == [heap[t] EXCEPT !.glyph = a]
           new == [heap EXCEPT ![t].glyph = a]
<1>1. heap[t] \in Object
  BY FreeOrObject
<1>2. o \in Object /\ o.file = heap[t].file /\ o.glyph = a /\ o.refs = heap[t].refs
  BY <1>1 DEF Object
<1>3. new = [heap EXCEPT ![t] = o]
  OBVIOUS
<1> HIDE DEF o, new
<1>4. new \in Store /\ new[t] = o /\ \A b \in Addr \ {t} : new[b] = heap[b]
  BY <1>2, <1>3 DEF Store
<1>5. o # Free
  BY <1>2, KindsAssumption DEF Object, Free, File
<1> QED
  BY <1>2, <1>4, <1>5 DEF new

LEMMA NewObjectFacts ==
  ASSUME NEW heap \in Store, NEW a \in Addr, NEW f \in Resources
  PROVE  LET new == [heap EXCEPT ![a] = [file |-> f, refs |-> 1, glyph |-> Null]] IN
         /\ new \in Store /\ \A b \in Addr \ {a} : new[b] = heap[b]
         /\ new[a].file = f /\ new[a].refs = 1 /\ new[a].glyph = Null
<1> DEFINE o == [file |-> f, refs |-> 1, glyph |-> Null]
           new == [heap EXCEPT ![a] = o]
<1>1. o \in Object /\ o.file = f /\ o.refs = 1 /\ o.glyph = Null
  BY DEF Object
<1> HIDE DEF o
<1>2. new \in Store /\ new[a] = o /\ \A b \in Addr \ {a} : new[b] = heap[b]
  BY <1>1 DEF Store
<1> HIDE DEF new
<1> QED
  BY <1>1, <1>2 DEF new, o

\* An object is built: it counts one holder, and has none.
LEMMA NewObject ==
  ASSUME NEW heap, NEW list, NEW h, NEW icon, Good(heap, list, h, icon, Null),
         NEW a \in Addr, heap[a] = Free, NEW heap2 \in Store,
         heap2[a].refs = 1, heap2[a].glyph = Null, \A b \in Addr \ {a} : heap2[b] = heap[b]
  PROVE  Good(heap2, list, h, icon, Null) /\ a \notin list
<1>1. HeldAlive(heap, list, h, icon)
  BY DEF Good
<1>2. heap \in Store /\ list \subseteq Addr /\ HeldAlive(heap, list, h, icon) /\ a \notin list
  BY DEF Good, HeldAlive
<1>3. heap2 \in Store /\ \A b \in Addr \ {a} : heap2[b] = heap[b]
  OBVIOUS
<1>4. \A b \in Addr : heap2[b].glyph = heap[b].glyph
  BY DEF Free
<1>5. \A b \in Addr : HoldersOf(heap2, h, icon, b) = HoldersOf(heap, h, icon, b)
  <2> TAKE b \in Addr
  <2> QED
    BY <1>4, HoldersSame
<1>6. HoldersOf(heap2, h, icon, a) = {}
  <2>1. ASSUME NEW s \in Slots PROVE h[s].obj # a
    BY <1>2, KindsAssumption DEF HeldAlive, SlotsAlive, Nothing
  <2>2. ASSUME NEW b \in Addr PROVE heap2[b].glyph # a
    BY <1>2, <1>4, KindsAssumption DEF HeldAlive, GlyphsAlive
  <2>3. icon # a
    BY <1>2, KindsAssumption DEF HeldAlive, IconAlive
  <2>4. ASSUME NEW x PROVE x \notin HoldersOf(heap2, h, icon, a)
    BY <2>1, <2>2, <2>3, Holding
  <2> QED
    BY <2>4
<1>7. BalancedAt(heap2, list, h, icon, Null, a)
  <2>1. Excess(list, Null, a) = 1
    BY <1>2, KindsAssumption DEF Excess
  <2> QED
    BY <1>6, <2>1, FS_EmptySet DEF BalancedAt
<1>8. ASSUME NEW b \in Addr \ {a}, heap2[b] # Free PROVE BalancedAt(heap2, list, h, icon, Null, b)
  BY <1>3, <1>5, <1>8 DEF Good, Balanced, BalancedAt
<1>9. Balanced(heap2, list, h, icon, Null)
  BY <1>7, <1>8 DEF Balanced
<1>10. HeldAlive(heap2, list, h, icon)
  <2>1. \A b \in list : b \in Addr \ {a} /\ heap2[b] = heap[b]
    BY <1>2, <1>3
  <2>2. SlotsAlive(heap2, list, h)
    BY <1>2, <2>1 DEF HeldAlive, SlotsAlive
  <2>3. GlyphsAlive(heap2, list)
    BY <1>2, <2>1 DEF HeldAlive, GlyphsAlive
  <2>4. IconAlive(heap2, list, icon)
    BY <1>2, <2>1 DEF HeldAlive, IconAlive
  <2> QED
    BY <1>2, <2>1, <2>2, <2>3, <2>4 DEF HeldAlive
<1> QED
  BY <1>2, <1>9, <1>10 DEF Good
-----------------------------------------------------------------------------
(* Unfinished loads *)

LEMMA WaitingShape ==
  ASSUME NEW st \in Seq(Frame), ShapeOf(st), Waiting(st)
  PROVE  /\ Len(st) = 2 /\ st[1].kind = "cursor"
         /\ st[2].kind = "resource" /\ st[2].file \in Icons
BY CursorShape DEF Waiting

\* Other than resources and cursors, loads come and go without a holder.
LEMMA PushPlain ==
  ASSUME NEW st \in Seq(Frame), NEW heap, NEW list, Building(st, heap, list), ~Waiting(st),
         NEW fr \in Frame, fr.kind \notin {"resource", "cursor"}
  PROVE  ~Waiting(Append(st, fr)) /\ Building(Append(st, fr), heap, list)
<1> DEFINE new == Append(st, fr)
<1>1. /\ Len(new) = Len(st) + 1 /\ new[Len(st) + 1] = fr /\ Len(st) \in Nat
      /\ \A i \in 1..Len(st) : new[i] = st[i]
  BY PushFacts
<1> HIDE DEF new
<1>2. \A i \in 1..Len(new) : i \in 1..Len(st) \/ new[i] = fr
  BY <1>1
<1>3. ~Waiting(new)
  BY <1>1, <1>2 DEF Waiting
<1>4. \A i \in 1..Len(new) : new[i].kind = "resource" => i \in 1..Len(st) /\ new[i] = st[i]
  BY <1>1, <1>2
<1>5. \A i \in 1..Len(st) : i \in 1..Len(new)
  BY <1>1
<1> QED
  BY <1>1, <1>3, <1>4, <1>5 DEF Building, new

LEMMA PopPlain ==
  ASSUME NEW st \in Seq(Frame), ShapeOf(st), NEW heap, NEW list, Building(st, heap, list),
         st # <<>>, TopOf(st).kind # "resource"
  PROVE  LET new == SubSeq(st, 1, Len(st) - 1) IN
         ~Waiting(st) /\ ~Waiting(new) /\ Building(new, heap, list)
<1> DEFINE new == SubSeq(st, 1, Len(st) - 1)
<1>1. Len(st) \in Nat \ {0} /\ Len(st) - 1 \in 0..Len(st)
  OBVIOUS
<1>2. Len(new) = Len(st) - 1 /\ \A i \in 1..Len(st) - 1 : new[i] = st[i]
  BY <1>1, PrefixFacts
<1> HIDE DEF new
<1>3. ~Waiting(st)
  BY WaitingShape DEF TopOf
<1>4. ~Waiting(new)
  BY <1>1, <1>2, <1>3 DEF Waiting
<1>5. \A i \in 1..Len(st) : st[i].kind = "resource" => i \in 1..Len(new) /\ new[i] = st[i]
  BY <1>1, <1>2 DEF TopOf
<1>6. \A i \in 1..Len(new) : i \in 1..Len(st) /\ new[i] = st[i]
  BY <1>1, <1>2
<1> QED
  BY <1>3, <1>4, <1>5, <1>6 DEF Building, new

\* What is being loaded is neither cached nor free.
LEMMA TopIsNew ==
  ASSUME Inv, IsTop("resource")
  PROVE  /\ stack \in Seq(Frame) /\ Len(stack) \in Nat \ {0} /\ stack # <<>>
         /\ Len(stack) \in 1..Len(stack) /\ Top = stack[Len(stack)] /\ Top = TopOf(stack)
         /\ Top.kind = "resource" /\ ShapeOf(stack) /\ phase = "open"
         /\ Top.obj \in Addr /\ Top.file \in Resources
         /\ object[Top.obj].file = Top.file /\ Top.obj \notin cached /\ object[Top.obj] # Free
<1>1. /\ stack \in Seq(Frame) /\ Len(stack) \in Nat \ {0} /\ stack # <<>>
      /\ Len(stack) \in 1..Len(stack) /\ Top = stack[Len(stack)] /\ Top = TopOf(stack)
      /\ Top.kind = "resource" /\ ShapeOf(stack)
  BY DEF Inv, TypeOK, IsTop, Top, TopOf
<1>2. Top.obj \in Addr /\ Top.file \in Resources
  BY <1>1 DEF ShapeOf, Frames
<1>3. object[Top.obj].file = Top.file /\ \A c \in cached : object[c].file # Top.file
  BY <1>1 DEF Inv, Heap, Loading
<1>4. object[Top.obj] # Free
  BY <1>2, <1>3, KindsAssumption DEF Free, File
<1> QED
  BY <1>1, <1>2, <1>3, <1>4, OpenPhase
-----------------------------------------------------------------------------
(* The actions keep the counts *)

\* What Kept says while the program is open.
LEMMA OpenGood ==
  ASSUME Inv, Kept, phase = "open"
  PROVE  /\ Good(object, cached, held, IconOf(stack, cursor), Null)
         /\ Building(stack, object, cached)
         /\ object \in Store /\ held \in [Slots -> Hold] /\ cached \subseteq Addr
         /\ cursor.icon \in Addr \cup {Null} /\ stack \in Seq(Frame) /\ ShapeOf(stack)
<1>1. object \in Store /\ held \in [Slots -> Hold] /\ cursor.icon \in Addr \cup {Null}
  BY StoreType DEF Inv, TypeOK
<1>2. IconOf(stack, cursor) \in Addr \cup {Null}
  BY <1>1 DEF IconOf
<1> QED
  BY <1>1, <1>2 DEF Kept, Good, Inv, TypeOK

SameIcon == IconOf(stack', cursor') = IconOf(stack, cursor)

LEMMA KeptGood ==
  ASSUME NEW heap, NEW list, NEW h, NEW icon, NEW st,
         Good(heap, list, h, icon, Null), Building(st, heap, list),
         heap = object', list = cached', h = held', st = stack', icon = IconOf(stack', cursor')
  PROVE  Kept'
BY DEF Good, Kept

\* A slot that is filled.
LEMMA Delivered ==
  ASSUME TypeOK, NEW a \in Addr, NEW f \in Resources, DeliverToSlot(a, f)
  PROVE  \E s \in Slots : \E h \in [Slots -> Hold] :
           /\ h = held' /\ held[s].obj = Null /\ h[s].obj = a /\ h[s].file = f
           /\ \A t \in Slots \ {s} : h[t] = held[t]
<1>1. PICK s \in Slots : held[s] = Nothing /\ held' = [held EXCEPT ![s] = [obj |-> a, file |-> f]]
  BY DEF DeliverToSlot
<1>2. [obj |-> a, file |-> f] \in Hold
  BY DEF Hold
<1>3. PICK h \in [Slots -> Hold] : h = held'
  BY <1>1, <1>2 DEF TypeOK
<1>4. h[s] = [obj |-> a, file |-> f] /\ \A t \in Slots \ {s} : h[t] = held[t]
  BY <1>1, <1>3 DEF TypeOK
<1>5. held[s].obj = Null
  BY <1>1 DEF Nothing
<1> QED
  BY <1>3, <1>4, <1>5

\* It then keeps what was asked for.
LEMMA SlotFilledAlive ==
  ASSUME NEW heap, NEW list, NEW list2 \in SUBSET Addr, NEW h, NEW h2, NEW icon,
         HeldAlive(heap, list, h, icon), NEW s \in Slots, list \subseteq list2,
         h2[s].obj \in list2, heap[h2[s].obj].file = h2[s].file,
         \A t \in Slots \ {s} : h2[t] = h[t], \A b \in list2 : heap[b] # Free
  PROVE  HeldAlive(heap, list2, h2, icon)
<1>1. SlotsAlive(heap, list2, h2)
  BY DEF HeldAlive, SlotsAlive
<1>2. GlyphsAlive(heap, list2) /\ IconAlive(heap, list2, icon)
  BY DEF HeldAlive, GlyphsAlive, IconAlive
<1> QED
  BY <1>1, <1>2 DEF HeldAlive

LEMMA GetHitKept ==
  ASSUME Inv, Kept, NEW f \in Resources, GetHit(f)
  PROVE  Kept'
<1> DEFINE icon == IconOf(stack, cursor)
<1>1. phase = "open"
  BY OpenPhase DEF GetHit, Idle, IsTop
<1>2. /\ Good(object, cached, held, icon, Null) /\ Building(stack, object, cached)
      /\ object \in Store /\ cached \subseteq Addr /\ stack \in Seq(Frame) /\ ShapeOf(stack)
  BY <1>1, OpenGood
<1>3. PICK a \in Query(f) :
        object' = [object EXCEPT ![a].refs = @ + 1] /\ DeliverToSlot(a, f)
  BY DEF GetHit
<1>4. a \in cached /\ a \in Addr /\ object[a].file = f /\ object[a] # Free
      /\ \A b \in cached : object[b] # Free
  BY <1>2, <1>3 DEF Query, Good, HeldAlive
<1>5. PICK new \in Store :
        /\ new = object' /\ SameObjects(object, new) /\ new[a].refs = object[a].refs + 1
        /\ \A b \in Addr \ {a} : new[b] = object[b]
  <2> DEFINE up == [object EXCEPT ![a].refs = @ + 1]
  <2>1. /\ up \in Store /\ SameObjects(object, up)
        /\ up[a].refs = object[a].refs + 1 /\ \A b \in Addr \ {a} : up[b] = object[b]
    BY <1>2, <1>4, RefUpFacts
  <2>2. object' = up
    BY <1>3
  <2> HIDE DEF up
  <2> QED
    BY <2>1, <2>2
<1>6. PICK s \in Slots, h \in [Slots -> Hold] :
        /\ h = held' /\ held[s].obj = Null /\ h[s].obj = a /\ h[s].file = f
        /\ \A t \in Slots \ {s} : h[t] = held[t]
  BY <1>3, <1>4, Delivered DEF Inv
<1> HIDE DEF icon
<1>7. Taken(object, held, icon, new, h, icon, a)
  BY <1>4, <1>5, <1>6, SlotTakes DEF SameObjects
<1>8. Balanced(new, cached, h, icon, Null)
  BY <1>2, <1>4, <1>5, <1>7, CountedUp DEF Good
<1>9. HeldAlive(object, cached, h, icon)
  BY <1>2, <1>4, <1>6, SlotFilledAlive DEF Good
<1>10. HeldAlive(new, cached, h, icon)
  BY <1>5, <1>9, AliveSame
<1>11. Good(new, cached, h, icon, Null)
  BY <1>2, <1>5, <1>6, <1>8, <1>10 DEF Good
<1>12. Building(stack, new, cached)
  BY <1>2, <1>5, BuildingSame
<1>13. new = object' /\ cached = cached' /\ h = held' /\ stack = stack'
       /\ icon = IconOf(stack', cursor')
  BY <1>5, <1>6 DEF GetHit, icon
<1> QED
  BY <1>11, <1>12, <1>13, KeptGood

\* A font t without glyphs gets those of the icon a.
Served(t, a, new) ==
  /\ new = object' /\ t # a /\ object[t] # Free /\ object[t].glyph = Null
  /\ object[t].file \in Fonts /\ object[a].file = Glyph[object[t].file]
  /\ new[t].glyph = a /\ \A b \in Addr \ {t} : new[b].glyph = object[b].glyph
  /\ \A b \in Addr : new[b].file = object[b].file /\ (new[b] # Free <=> object[b] # Free)

LEMMA GlyphHitFacts ==
  ASSUME Inv, Kept, GlyphHit
  PROVE  \E t \in Addr, a \in cached, new \in Store :
           /\ Served(t, a, new) /\ new[a].refs = object[a].refs + 1
           /\ \A b \in Addr \ {a} : new[b].refs = object[b].refs
<1>0. PICK t \in Addr : t = Top.obj
  BY TopIsNew DEF GlyphHit
<1>1. IsTop("resource") /\ Top.file \in Fonts /\ object[t].glyph = Null
  BY <1>0 DEF GlyphHit
<1>2. /\ stack # <<>> /\ TopOf(stack).kind = "resource" /\ Top = TopOf(stack) /\ phase = "open"
      /\ t \in Addr /\ object[t].file = Top.file /\ t \notin cached /\ object[t] # Free
  BY <1>0, <1>1, TopIsNew
<1>3. object \in Store /\ cached \subseteq Addr /\ \A b \in cached : object[b] # Free
  BY <1>2, OpenGood DEF Good, HeldAlive
<1>4. PICK a \in Query(Glyph[Top.file]) :
        object' = [object EXCEPT ![a].refs = @ + 1, ![t].glyph = a]
  BY <1>0 DEF GlyphHit
<1>5. a \in cached /\ a \in Addr /\ object[a].file = Glyph[Top.file] /\ object[a] # Free /\ a # t
  BY <1>2, <1>3, <1>4 DEF Query
<1>6. PICK up \in Store :
        /\ up = [object EXCEPT ![a].refs = @ + 1] /\ SameObjects(object, up)
        /\ up[a].refs = object[a].refs + 1 /\ \A b \in Addr \ {a} : up[b] = object[b]
  BY <1>3, <1>5, RefUpFacts
<1>7. up[t] # Free /\ up[t].glyph = Null
  BY <1>1, <1>2, <1>6 DEF SameObjects
<1>8. PICK new \in Store :
        /\ new = object' /\ new[t].glyph = a /\ new[t].refs = up[t].refs
        /\ new[t].file = up[t].file /\ new[t] # Free /\ \A b \in Addr \ {t} : new[b] = up[b]
  <2> DEFINE set == [up EXCEPT ![t].glyph = a]
  <2>1. /\ set \in Store /\ set[t].glyph = a /\ set[t].refs = up[t].refs
        /\ set[t].file = up[t].file /\ set[t] # Free /\ \A b \in Addr \ {t} : set[b] = up[b]
    <3>1. up \in Store /\ a \in Addr /\ t \in Addr /\ up[t] # Free
      BY <1>5, <1>6, <1>7
    <3> QED
      BY <3>1, GlyphSetFacts
  <2>2. object' = set
    BY <1>4, <1>6
  <2> HIDE DEF set
  <2> QED
    BY <2>1, <2>2
<1>9. /\ \A b \in Addr : new[b].file = object[b].file
      /\ \A b \in Addr \ {t} : new[b].glyph = object[b].glyph
      /\ \A b \in Addr : new[b] # Free <=> object[b] # Free
      /\ new[a].refs = object[a].refs + 1 /\ \A b \in Addr \ {a} : new[b].refs = object[b].refs
  <2>1. ASSUME NEW b \in Addr PROVE new[b].file = up[b].file /\ up[b].file = object[b].file
    BY <1>6, <1>8 DEF SameObjects
  <2>2. ASSUME NEW b \in Addr \ {t} PROVE new[b].glyph = up[b].glyph /\ up[b].glyph = object[b].glyph
    BY <1>6, <1>8 DEF SameObjects
  <2>3. ASSUME NEW b \in Addr PROVE new[b] # Free <=> object[b] # Free
    BY <1>6, <1>7, <1>8, <1>2 DEF SameObjects
  <2>4. new[a].refs = object[a].refs + 1
    <3>1. new[a] = up[a]
      BY <1>5, <1>8
    <3>2. up[a].refs = object[a].refs + 1
      BY <1>6
    <3> QED
      BY <3>1, <3>2
  <2>5. ASSUME NEW b \in Addr \ {a} PROVE new[b].refs = up[b].refs /\ up[b].refs = object[b].refs
    BY <1>6, <1>8
  <2> QED
    BY <2>1, <2>2, <2>3, <2>4, <2>5
<1>10. Served(t, a, new)
  BY <1>1, <1>2, <1>5, <1>8, <1>9 DEF Served
<1> QED
  BY <1>5, <1>9, <1>10

LEMMA ServedAlive ==
  ASSUME NEW t \in Addr, NEW a \in Addr, NEW new, Served(t, a, new), NEW h, NEW icon,
         NEW list \in SUBSET Addr, HeldAlive(object, cached, h, icon),
         cached \subseteq list, a \in list, \A b \in list : object[b] # Free
  PROVE  HeldAlive(new, list, h, icon)
<1>1. \A b \in list : new[b] # Free
  BY DEF Served
<1>2. SlotsAlive(new, list, h)
  BY DEF HeldAlive, SlotsAlive, Served
<1>3. GlyphsAlive(new, list)
  <2> SUFFICES ASSUME NEW b \in Addr, new[b].glyph # Null
               PROVE  /\ new[b].glyph \in list /\ new[b].file \in Fonts
                      /\ new[new[b].glyph].file = Glyph[new[b].file]
    BY DEF GlyphsAlive
  <2>1. CASE b = t
    BY <2>1 DEF Served
  <2>2. CASE b # t
    <3>1. new[b].glyph = object[b].glyph /\ new[b].file = object[b].file
      BY <2>2 DEF Served
    <3>2. object[b].glyph \in cached /\ object[b].glyph \in Addr
      BY <3>1 DEF HeldAlive, GlyphsAlive
    <3>3. new[object[b].glyph].file = object[object[b].glyph].file
      BY <3>2 DEF Served
    <3> QED
      BY <3>1, <3>2, <3>3 DEF HeldAlive, GlyphsAlive
  <2> QED
    BY <2>1, <2>2
<1>4. IconAlive(new, list, icon)
  BY DEF HeldAlive, IconAlive, Served
<1> QED
  BY <1>1, <1>2, <1>3, <1>4 DEF HeldAlive

LEMMA GlyphHitKept ==
  ASSUME Inv, Kept, GlyphHit
  PROVE  Kept'
<1> DEFINE icon == IconOf(stack, cursor)
<1>1. IsTop("resource") /\ Top.file \in Fonts
  BY DEF GlyphHit
<1>2. /\ stack # <<>> /\ TopOf(stack).kind = "resource" /\ Top = TopOf(stack) /\ phase = "open"
  BY <1>1, TopIsNew
<1>3. /\ Good(object, cached, held, icon, Null) /\ Building(stack, object, cached)
      /\ object \in Store /\ cached \subseteq Addr /\ stack \in Seq(Frame) /\ ShapeOf(stack)
      /\ HeldAlive(object, cached, held, icon) /\ \A b \in cached : object[b] # Free
  BY <1>2, OpenGood DEF Good, HeldAlive
<1> HIDE DEF icon
<1>4. PICK t \in Addr, a \in cached, new \in Store :
        /\ Served(t, a, new) /\ new[a].refs = object[a].refs + 1
        /\ \A b \in Addr \ {a} : new[b].refs = object[b].refs
  BY GlyphHitFacts
<1>9. /\ a \in Addr /\ object[a] # Free
      /\ \A b \in Addr : new[b] # Free <=> object[b] # Free
  BY <1>3, <1>4 DEF Served
<1>10. Taken(object, held, icon, new, held, icon, a)
  BY <1>4, <1>9, FontTakes DEF Served
<1>11. Balanced(new, cached, held, icon, Null)
  BY <1>3, <1>4, <1>9, <1>10, CountedUp DEF Good
<1>12. HeldAlive(new, cached, held, icon)
  BY <1>3, <1>4, <1>9, ServedAlive
<1>13. Good(new, cached, held, icon, Null)
  BY <1>3, <1>4, <1>11, <1>12 DEF Good
<1>14. Building(stack, new, cached)
  <2>1. ASSUME NEW i \in 1..Len(stack), NEW j \in 1..Len(stack), j = i + 1,
               stack[i].kind = "resource"
        PROVE  FALSE
    <3>1. i \in 1..Len(stack) - 1
      BY <1>3, <2>1
    <3>2. Top.file \in Icons
      BY <1>2, <1>3, <2>1, <3>1, TwoLoads
    <3> QED
      BY <1>1, <3>2, KindsAssumption
  <2> QED
    BY <1>3, <1>9, <2>1 DEF Building
<1>15. new = object' /\ cached = cached' /\ held = held' /\ stack = stack'
       /\ icon = IconOf(stack', cursor')
  BY <1>4 DEF GlyphHit, Served, icon
<1> QED
  BY <1>13, <1>14, <1>15, KeptGood

\* A load begins.
LEMMA Built ==
  ASSUME NEW heap \in Store, NEW f \in Resources, NEW callers, Construct(heap, f, callers)
  PROVE  \E a \in Addr : \E new \in Store : \E fr \in Frame :
           /\ heap[a] = Free
           /\ new = object' /\ new[a].file = f /\ new[a].refs = 1 /\ new[a].glyph = Null
           /\ \A b \in Addr \ {a} : new[b] = heap[b]
           /\ fr.kind = "resource" /\ fr.file = f /\ fr.obj = a
           /\ stack' = Append(callers, fr)
<1>1. PICK a \in Addr :
        /\ heap[a] = Free
        /\ object' = [heap EXCEPT ![a] = [file |-> f, refs |-> 1, glyph |-> Null]]
        /\ stack' = Append(callers, FrameFor("resource", f, a))
  BY DEF Construct
<1> DEFINE fr == FrameFor("resource", f, a)
           new == [heap EXCEPT ![a] = [file |-> f, refs |-> 1, glyph |-> Null]]
<1>2. fr \in Frame /\ fr.kind = "resource" /\ fr.file = f /\ fr.obj = a
  BY FrameForType DEF File
<1>3. /\ new \in Store /\ \A b \in Addr \ {a} : new[b] = heap[b]
      /\ new[a].file = f /\ new[a].refs = 1 /\ new[a].glyph = Null
  BY NewObjectFacts
<1>4. new = object' /\ stack' = Append(callers, fr)
  BY <1>1
<1> HIDE DEF fr, new
<1> QED
  BY <1>1, <1>2, <1>3, <1>4

LEMMA PushLoad ==
  ASSUME NEW st \in Seq(Frame), ShapeOf(st), NEW heap \in Store, NEW list,
         Building(st, heap, list), ~Waiting(st), NEW a \in Addr, heap[a] = Free,
         NEW new \in Store, new[a].glyph = Null, \A b \in Addr \ {a} : new[b] = heap[b],
         NEW fr \in Frame, fr.kind = "resource", fr.obj = a,
         st # <<>> /\ TopOf(st).kind = "resource" =>
           heap[TopOf(st).obj].glyph = Null /\ fr.file = Glyph[TopOf(st).file]
  PROVE  ~Waiting(Append(st, fr)) /\ Building(Append(st, fr), new, list)
<1> DEFINE nst == Append(st, fr)
<1>1. /\ Len(nst) = Len(st) + 1 /\ nst[Len(st) + 1] = fr /\ Len(st) \in Nat
      /\ \A i \in 1..Len(st) : nst[i] = st[i]
  BY PushFacts
<1> HIDE DEF nst
<1>2. \A i \in 1..Len(nst) : i \in 1..Len(st) \/ i = Len(st) + 1
  BY <1>1
<1>3. ~Waiting(nst)
  BY <1>1, <1>2 DEF Waiting
<1>4. \A b \in Addr : new[b].glyph = heap[b].glyph
  BY DEF Free
<1>5. ASSUME NEW b \in Addr, new[b] # Free
      PROVE  b \in list \/ \E i \in 1..Len(nst) : nst[i].kind = "resource" /\ nst[i].obj = b
  <2>1. CASE b = a
    <3>1. Len(st) + 1 \in 1..Len(nst)
      BY <1>1
    <3> QED
      BY <1>1, <2>1, <3>1
  <2>2. CASE b # a
    <3>1. b \in list \/ \E i \in 1..Len(st) : st[i].kind = "resource" /\ st[i].obj = b
      BY <1>5, <2>2 DEF Building
    <3> QED
      BY <1>1, <3>1
  <2> QED
    BY <2>1, <2>2
<1>6. ASSUME NEW i \in 1..Len(nst), NEW j \in 1..Len(nst), j = i + 1,
             nst[i].kind = "resource", nst[j].kind = "resource"
      PROVE  new[nst[i].obj].glyph = Null /\ nst[j].file = Glyph[nst[i].file]
  <2>1. i \in 1..Len(st) /\ nst[i] = st[i]
    BY <1>1, <1>2, <1>6
  <2>2. st[i].obj \in Addr
    BY <1>6, <2>1 DEF ShapeOf, Frames
  <2>3. heap[st[i].obj].glyph = Null /\ nst[j].file = Glyph[st[i].file]
    <3>1. CASE j \in 1..Len(st)
      BY <1>1, <1>6, <2>1, <3>1 DEF Building
    <3>2. CASE j = Len(st) + 1
      <4>1. i = Len(st) /\ st # <<>> /\ st[i] = TopOf(st)
        BY <1>1, <1>6, <2>1, <3>2 DEF TopOf
      <4> QED
        BY <1>1, <1>6, <2>1, <3>2, <4>1
    <3> QED
      BY <1>2, <3>1, <3>2
  <2> QED
    BY <1>4, <2>1, <2>2, <2>3
<1>7. Building(nst, new, list)
  BY <1>3, <1>5, <1>6 DEF Building
<1> QED
  BY <1>3, <1>7 DEF nst

LEMMA ConstructKept ==
  ASSUME Inv, Kept, phase = "open", NEW f \in Resources, Construct(object, f, stack),
         ~Waiting(stack),
         stack # <<>> /\ TopOf(stack).kind = "resource" =>
           object[TopOf(stack).obj].glyph = Null /\ f = Glyph[TopOf(stack).file],
         UNCHANGED <<cached, held, cursor>>
  PROVE  Kept' /\ SameIcon
<1> DEFINE icon == IconOf(stack, cursor)
<1>1. /\ Good(object, cached, held, icon, Null) /\ Building(stack, object, cached)
      /\ object \in Store /\ stack \in Seq(Frame) /\ ShapeOf(stack)
  BY OpenGood
<1>2. PICK a \in Addr, new \in Store, fr \in Frame :
           /\ object[a] = Free
           /\ new = object' /\ new[a].file = f /\ new[a].refs = 1 /\ new[a].glyph = Null
           /\ \A b \in Addr \ {a} : new[b] = object[b]
           /\ fr.kind = "resource" /\ fr.file = f /\ fr.obj = a
           /\ stack' = Append(stack, fr)
  BY <1>1, Built
<1> HIDE DEF icon
<1>3. Good(new, cached, held, icon, Null)
  BY <1>1, <1>2, NewObject
<1>4. ~Waiting(Append(stack, fr)) /\ Building(Append(stack, fr), new, cached)
  BY <1>1, <1>2, PushLoad
<1>5. PICK st : st = Append(stack, fr)
  OBVIOUS
<1>6. icon = IconOf(stack', cursor') /\ SameIcon
  BY <1>2, <1>4 DEF icon, IconOf, SameIcon
<1> QED
  BY <1>2, <1>3, <1>4, <1>5, <1>6, KeptGood

\* Only an icon is waited for by a cursor.
LEMMA NoCursor ==
  ASSUME Inv, \/ stack = <<>>
              \/ TopOf(stack).kind # "resource"
              \/ TopOf(stack).file \in Fonts
              \/ Len(stack) > 1 /\ stack[Len(stack) - 1].kind # "cursor"
              \/ Len(stack) = 1
  PROVE  ~Waiting(stack)
<1>1. stack \in Seq(Frame) /\ ShapeOf(stack)
  BY DEF Inv, TypeOK
<1> SUFFICES ASSUME Waiting(stack) PROVE FALSE
  OBVIOUS
<1>2. Len(stack) = 2 /\ stack[1].kind = "cursor" /\ stack[2].kind = "resource" /\ stack[2].file \in Icons
  BY <1>1, WaitingShape
<1> QED
  BY <1>2, KindsAssumption DEF TopOf

LEMMA MissKept ==
  ASSUME Inv, Kept, (\E f \in Resources : GetMiss(f) \/ WidgetGetMiss(f)) \/ GlyphMiss
  PROVE  Kept' /\ SameIcon
<1>1. ASSUME NEW f \in Resources, GetMiss(f) PROVE Kept' /\ SameIcon
  <2>1. /\ stack = <<>> /\ phase = "open" /\ Construct(object, f, stack)
        /\ UNCHANGED <<cached, held, cursor>>
    BY <1>1 DEF GetMiss, Idle
  <2>2. ~Waiting(stack)
    BY <2>1, NoCursor
  <2> QED
    BY <2>1, <2>2, ConstructKept
<1>2. ASSUME NEW f \in Resources, WidgetGetMiss(f) PROVE Kept' /\ SameIcon
  <2>1. /\ stack # <<>> /\ TopOf(stack).kind = "window" /\ Construct(object, f, stack)
        /\ UNCHANGED <<cached, held, cursor>>
    BY <1>2 DEF WidgetGetMiss, IsTop, Top, TopOf
  <2>2. ~Waiting(stack) /\ phase = "open"
    BY <2>1, NoCursor, OpenPhase
  <2> QED
    BY <2>1, <2>2, ConstructKept
<1>3. ASSUME GlyphMiss PROVE Kept' /\ SameIcon
  <2>1. /\ stack # <<>> /\ TopOf(stack).kind = "resource" /\ TopOf(stack).file \in Fonts
        /\ object[TopOf(stack).obj].glyph = Null
        /\ Construct(object, Glyph[TopOf(stack).file], stack)
        /\ UNCHANGED <<cached, held, cursor>>
    BY <1>3 DEF GlyphMiss, IsTop, Top, TopOf
  <2>2. ~Waiting(stack) /\ phase = "open"
    BY <2>1, NoCursor, OpenPhase
  <2>3. PICK f \in Resources : f = Glyph[TopOf(stack).file]
    BY <2>1, FilesAssumption DEF Resources
  <2> QED
    BY <2>1, <2>2, <2>3, ConstructKept
<1> QED
  BY <1>1, <1>2, <1>3

\* Steps that touch neither the heap nor a holder.
LEMMA LoadsOnly ==
  ASSUME Inv, Kept, phase = "open", ~Waiting(stack), NEW st, st = stack', ~Waiting(st),
         Building(st, object, cached),
         UNCHANGED <<object, cached, held>>, cursor'.icon = cursor.icon
  PROVE  Kept' /\ SameIcon
<1> DEFINE icon == IconOf(stack, cursor)
<1>1. Good(object, cached, held, icon, Null)
  BY OpenGood
<1>2. icon = IconOf(stack', cursor') /\ SameIcon
  BY DEF IconOf, SameIcon
<1> HIDE DEF icon
<1> QED
  BY <1>1, <1>2, KeptGood

LEMMA OpenWindowKept ==
  ASSUME Inv, Kept, NEW w \in Windows, OpenWindow(w)
  PROVE  Kept' /\ SameIcon
<1>1. /\ stack = <<>> /\ phase = "open" /\ stack' = <<FrameFor("window", w, Null)>>
      /\ UNCHANGED <<object, cached, held, cursor>>
  BY DEF OpenWindow, Idle
<1>2. PICK fr \in Frame : fr = FrameFor("window", w, Null) /\ fr.kind = "window"
  <2>1. w \in File \cup {Null}
    BY DEF File
  <2> QED
    BY <2>1, FrameForType
<1>3. ~Waiting(stack) /\ Building(stack, object, cached) /\ stack \in Seq(Frame)
  BY <1>1, NoCursor, OpenGood
<1>4. ~Waiting(Append(stack, fr)) /\ Building(Append(stack, fr), object, cached)
  BY <1>2, <1>3, PushPlain
<1>5. stack' = Append(stack, fr)
  BY <1>1, <1>2
<1>6. PICK st : st = stack'
  OBVIOUS
<1> QED
  BY <1>1, <1>3, <1>4, <1>5, <1>6, LoadsOnly

LEMMA ReadKept ==
  ASSUME Inv, Kept, Read
  PROVE  Kept' /\ SameIcon
<1>1. /\ stack # <<>> /\ Top.kind # "cursor"
      /\ stack' = [stack EXCEPT ![Len(stack)].pos = @ + 1]
      /\ UNCHANGED <<object, cached, held, cursor>>
  BY DEF Read
<1>2. phase = "open"
  BY <1>1, OpenPhase
<1>3. /\ Good(object, cached, held, IconOf(stack, cursor), Null)
      /\ Building(stack, object, cached) /\ stack \in Seq(Frame)
  BY <1>2, OpenGood
<1>4. PICK st : st = stack'
  OBVIOUS
<1>5. /\ Len(st) = Len(stack)
      /\ \A i \in 1..Len(stack) : /\ st[i].kind = stack[i].kind
                                  /\ st[i].file = stack[i].file /\ st[i].obj = stack[i].obj
  BY <1>1, <1>3, <1>4 DEF Frame
<1>6. Waiting(st) <=> Waiting(stack)
  BY <1>5 DEF Waiting
<1>7. Building(st, object, cached)
  <2>1. Waiting(stack) => 2 \in 1..Len(stack)
    BY <1>3, WaitingShape DEF Inv
  <2> QED
    BY <1>3, <1>5, <1>6, <2>1 DEF Building
<1>8. IconOf(stack', cursor') = IconOf(stack, cursor)
  BY <1>1, <1>4, <1>6 DEF IconOf
<1> DEFINE icon == IconOf(stack, cursor)
<1>9. Good(object, cached, held, icon, Null) /\ icon = IconOf(stack', cursor') /\ SameIcon
  BY <1>3, <1>8 DEF SameIcon
<1> HIDE DEF icon
<1> QED
  BY <1>1, <1>4, <1>7, <1>9, KeptGood

LEMMA PlainEndKept ==
  ASSUME Inv, Kept, WindowRead \/ PointerDrawn
  PROVE  Kept' /\ SameIcon
<1>1. /\ stack # <<>> /\ TopOf(stack).kind # "resource"
      /\ stack' = SubSeq(stack, 1, Len(stack) - 1)
      /\ UNCHANGED <<object, cached, held, cursor>>
  BY DEF WindowRead, PointerDrawn, IsTop, Top, TopOf, Below
<1>2. phase = "open"
  BY <1>1, OpenPhase
<1>3. Building(stack, object, cached) /\ stack \in Seq(Frame) /\ ShapeOf(stack)
  BY <1>2, OpenGood
<1>4. PICK st : st = SubSeq(stack, 1, Len(stack) - 1)
  OBVIOUS
<1>5. ~Waiting(stack) /\ ~Waiting(st) /\ Building(st, object, cached)
  BY <1>1, <1>3, <1>4, PopPlain
<1> QED
  BY <1>1, <1>2, <1>4, <1>5, LoadsOnly

LEMMA DrawPointerKept ==
  ASSUME Inv, Kept, phase = "open", ~Waiting(stack),
         NEW c \in Cursors \cup {Null}, DrawPointer(c)
  PROVE  Kept' /\ SameIcon
<1>1. cursor' = [cursor EXCEPT !.category = c, !.color = FALSE]
      /\ UNCHANGED <<object, cached, held>>
  BY DEF DrawPointer
<1>2. cursor'.icon = cursor.icon
  <2>1. PICK no : cursor' = [cursor EXCEPT !.category = c, !.color = no]
    BY <1>1, Zenon
  <2> QED
    BY <2>1 DEF Inv, TypeOK
<1>3. Building(stack, object, cached) /\ stack \in Seq(Frame)
  BY OpenGood
<1>4. CASE stack' = stack
  BY <1>1, <1>2, <1>3, <1>4, LoadsOnly
<1>5. CASE c \in Cursors /\ stack' = Append(stack, FrameFor("pointer", Picture[c], Null))
  <2>1. PICK fr \in Frame : fr = FrameFor("pointer", Picture[c], Null) /\ fr.kind = "pointer"
    <3>1. Picture[c] \in File \cup {Null}
      BY <1>5, FilesAssumption DEF File
    <3> QED
      BY <3>1, FrameForType
  <2>2. ~Waiting(Append(stack, fr)) /\ Building(Append(stack, fr), object, cached)
    BY <1>3, <2>1, PushPlain
  <2>3. PICK st : st = stack'
    OBVIOUS
  <2> QED
    BY <1>1, <1>2, <1>5, <2>1, <2>2, <2>3, LoadsOnly
<1>6. stack' = stack \/ (c \in Cursors /\ stack' = Append(stack, FrameFor("pointer", Picture[c], Null)))
  BY DEF DrawPointer
<1> QED
  BY <1>4, <1>5, <1>6

\* Once the program shuts down nothing is promised any more.
LEMMA ClosingKept ==
  ASSUME ShutDown \/ ExpungeOne \/ Close
  PROVE  Kept'
BY DEF ShutDown, ExpungeOne, Close, Kept
-----------------------------------------------------------------------------
(* What is given back *)

\* Resources are given back between two loads.
LEMMA ShrunkBuilding ==
  ASSUME NEW heap, NEW new, NEW list, Building(<<>>, heap, list), Shrinks(heap, new)
  PROVE  Building(<<>>, new, LeftOf(list, new)) /\ ~Waiting(<<>>)
<1>1. Len(<<>>) = 0
  OBVIOUS
<1> QED
  BY <1>1 DEF Building, Shrinks, LeftOf, Waiting

\* A slot that is emptied leaves a debtor.
LEMMA SlotOwes ==
  ASSUME Inv, Kept, NEW s \in Slots, Release(s)
  PROVE  \E a \in Addr, h \in [Slots -> Hold] :
           /\ a \in cached /\ a = held[s].obj /\ object[a].file = held[s].file
           /\ h = held' /\ h[s] = Nothing /\ \A t \in Slots \ {s} : h[t] = held[t]
           /\ Good(object, cached, h, IconOf(stack, cursor), a)
<1>1. phase = "open" /\ held[s] # Nothing /\ held' = [held EXCEPT ![s] = Nothing]
  BY DEF Release, Idle
<1> DEFINE icon == IconOf(stack, cursor)
<1>2. /\ Good(object, cached, held, icon, Null)
      /\ object \in Store /\ held \in [Slots -> Hold] /\ cached \subseteq Addr
  BY <1>1, OpenGood
<1> HIDE DEF icon
<1>3. PICK a \in Addr : a = held[s].obj /\ a \in cached /\ object[a].file = held[s].file
  BY <1>1, <1>2 DEF Good, HeldAlive, SlotsAlive
<1>4. PICK h \in [Slots -> Hold] :
        h = held' /\ h[s] = Nothing /\ \A t \in Slots \ {s} : h[t] = held[t]
  <2>1. PICK none \in Hold : none = Nothing
    BY DEF Hold
  <2>2. PICK h \in [Slots -> Hold] : h = [held EXCEPT ![s] = none]
    BY <1>2
  <2>3. h[s] = none /\ \A t \in Slots \ {s} : h[t] = held[t]
    BY <1>2, <2>2
  <2>4. h = held'
    BY <1>1, <2>1, <2>2, Zenon
  <2> QED
    BY <2>1, <2>3, <2>4
<1>5. h[s].obj = Null
  BY <1>4 DEF Nothing
<1>6. Taken(object, h, icon, object, held, icon, a)
  BY <1>3, <1>4, <1>5, SlotTakes
<1>7. object[a] # Free
  BY <1>2, <1>3 DEF Good, HeldAlive
<1>8. Balanced(object, cached, h, icon, a)
  BY <1>2, <1>6, <1>7, Owed DEF Good
<1>9. HeldAlive(object, cached, h, icon)
  BY <1>2, <1>4 DEF Good, HeldAlive, SlotsAlive
<1>10. Good(object, cached, h, icon, a)
  BY <1>2, <1>8, <1>9 DEF Good
<1> QED
  BY <1>3, <1>4, <1>10 DEF icon

LEMMA ReleaseKept ==
  ASSUME Inv, Kept, NEW s \in Slots, Release(s)
  PROVE  Kept'
<1>1. /\ stack = <<>> /\ phase = "open" /\ stack' = stack /\ cursor' = cursor
      /\ object' = Dispose(object, held[s].obj) /\ cached' = StillCached(object')
  BY DEF Release, Idle
<1> DEFINE icon == IconOf(stack, cursor)
<1>2. Building(stack, object, cached) /\ object \in Store
  BY <1>1, OpenGood
<1>3. PICK a \in Addr, h \in [Slots -> Hold] :
        a \in cached /\ a = held[s].obj /\ h = held' /\ Good(object, cached, h, icon, a)
  BY SlotOwes
<1> HIDE DEF icon
<1>4. PICK new \in Store : new = Dispose(object, a) /\ Shrinks(object, new)
  BY <1>2, DisposeShrinks DEF Shrinks
<1>5. Good(new, LeftOf(cached, new), h, icon, Null)
  BY <1>1, <1>3, <1>4, DisposeGood
<1>6. Building(stack, new, LeftOf(cached, new))
  BY <1>1, <1>2, <1>4, ShrunkBuilding
<1>7. new = object' /\ LeftOf(cached, new) = cached' /\ icon = IconOf(stack', cursor')
  BY <1>1, <1>3, <1>4 DEF LeftOf, StillCached, icon
<1> QED
  BY <1>1, <1>3, <1>5, <1>6, <1>7, KeptGood

\* So does a cursor without its icon.
LEMMA CursorOwes ==
  ASSUME Inv, Kept, stack = <<>>, phase = "open", NEW i \in Addr, i = cursor.icon
  PROVE  /\ i \in cached /\ object[i].file \in Pointers /\ i = IconOf(stack, cursor)
         /\ Good(object, cached, held, Null, i)
<1>1. i = IconOf(stack, cursor)
  BY NoCursor DEF IconOf
<1>2. Good(object, cached, held, i, Null) /\ object \in Store
  BY <1>1, OpenGood
<1>3. i \in cached /\ object[i].file \in Pointers /\ object[i] # Free
  BY <1>2, KindsAssumption DEF Good, HeldAlive, IconAlive
<1>4. Taken(object, held, Null, object, held, i, i)
  BY CursorTakes
<1>5. Balanced(object, cached, held, Null, i)
  BY <1>2, <1>3, <1>4, Owed DEF Good
<1>6. HeldAlive(object, cached, held, Null)
  BY <1>2 DEF Good, HeldAlive, IconAlive
<1> QED
  BY <1>1, <1>2, <1>3, <1>5, <1>6 DEF Good

\* The cursor gives its icon back, if it has one.
LEMMA IconGivenBack ==
  ASSUME Inv, Kept, stack = <<>>, phase = "open"
  PROVE  \E heap \in Store :
           /\ heap = Dispose(object, cursor.icon) /\ Shrinks(object, heap)
           /\ Good(heap, StillCached(heap), held, Null, Null)
           /\ Building(<<>>, heap, StillCached(heap))
<1>1. ~Waiting(stack)
  BY NoCursor
<1>2. PICK i \in Addr \cup {Null} : i = cursor.icon
  BY OpenGood
<1>3. /\ Good(object, cached, held, i, Null) /\ Building(<<>>, object, cached)
      /\ object \in Store /\ held \in [Slots -> Hold] /\ cached \subseteq Addr
      /\ \A c \in cached : object[c] # Free
  BY <1>1, <1>2, OpenGood DEF IconOf, Good, HeldAlive
<1>4. PICK heap \in Store : heap = Dispose(object, i) /\ Shrinks(object, heap)
  BY <1>3, DisposeShrinks DEF Shrinks
<1>5. StillCached(heap) = LeftOf(cached, heap)
  BY DEF StillCached, LeftOf
<1>6. Good(heap, LeftOf(cached, heap), held, Null, Null)
  <2>1. CASE i = Null
    <3>1. heap = object
      BY <1>4, <2>1 DEF Dispose
    <3>2. LeftOf(cached, heap) = cached
      BY <1>3, <3>1 DEF LeftOf
    <3> QED
      BY <1>3, <2>1, <3>1, <3>2
  <2>2. CASE i \in Addr
    BY <1>2, <1>4, <2>2, CursorOwes, DisposeGood
  <2> QED
    BY <2>1, <2>2
<1>7. Building(<<>>, heap, LeftOf(cached, heap))
  BY <1>3, <1>4, ShrunkBuilding
<1> QED
  BY <1>2, <1>4, <1>5, <1>6, <1>7

LEMMA ReplaceIconKept ==
  ASSUME Inv, Kept, NEW c \in Cursors, stack = <<>>, phase = "open", ReplaceIcon(c)
  PROVE  Kept'
<1>1. PICK heap \in Store :
           /\ heap = Dispose(object, cursor.icon) /\ Shrinks(object, heap)
           /\ Good(heap, StillCached(heap), held, Null, Null)
           /\ Building(<<>>, heap, StillCached(heap))
  BY IconGivenBack
<1> DEFINE list == StillCached(heap)
<1>2. cached' = list /\ held' = held
  BY <1>1 DEF ReplaceIcon
<1>3. ColorIcon[c] \in Pointers
  BY DEF Pointers
<1>4. list \subseteq Addr /\ \A b \in list : heap[b] # Free
  BY <1>1 DEF Good, HeldAlive
<1>5. ASSUME NEW a \in list, heap[a].file = ColorIcon[c],
             object' = [heap EXCEPT ![a].refs = @ + 1],
             cursor' = [icon |-> a, category |-> c, color |-> TRUE],
             UNCHANGED <<stack, position>>
      PROVE  Kept'
  <2>1. a \in Addr /\ heap[a] # Free
    BY <1>4
  <2>2. PICK new \in Store :
          /\ new = object' /\ SameObjects(heap, new) /\ new[a].refs = heap[a].refs + 1
          /\ \A b \in Addr \ {a} : new[b] = heap[b]
    <3> DEFINE up == [heap EXCEPT ![a].refs = @ + 1]
    <3>1. /\ up \in Store /\ SameObjects(heap, up)
          /\ up[a].refs = heap[a].refs + 1 /\ \A b \in Addr \ {a} : up[b] = heap[b]
      BY <2>1, RefUpFacts
    <3>2. object' = up
      BY <1>5
    <3> HIDE DEF up
    <3> QED
      BY <3>1, <3>2
  <2> HIDE DEF list
  <2>3. Taken(heap, held, Null, new, held, a, a)
    BY <2>1, <2>2, CursorTakes DEF SameObjects
  <2>4. Good(heap, list, held, Null, Null)
    BY <1>1 DEF list
  <2>5. Balanced(new, list, held, a, Null)
    BY <2>1, <2>2, <2>3, <2>4, CountedUp DEF Good
  <2>6. HeldAlive(heap, list, held, a)
    BY <1>3, <1>5, <2>4 DEF Good, HeldAlive, IconAlive
  <2>7. HeldAlive(new, list, held, a)
    BY <2>2, <2>6, AliveSame
  <2>8. Good(new, list, held, a, Null)
    BY <2>1, <2>2, <2>4, <2>5, <2>7 DEF Good
  <2>9. Building(<<>>, new, list)
    <3>1. Building(<<>>, heap, list)
      BY <1>1 DEF list
    <3> QED
      BY <2>2, <3>1 DEF Building, SameObjects
  <2>10. cursor'.icon = a
    <3>1. PICK yes : cursor' = [icon |-> a, category |-> c, color |-> yes]
      BY <1>5, Zenon
    <3> QED
      BY <3>1
  <2>11. a = IconOf(stack', cursor') /\ stack' = <<>>
    BY <1>5, <2>10, NoCursor DEF IconOf
  <2> QED
    BY <1>2, <2>2, <2>8, <2>9, <2>11, KeptGood
<1>6. ASSUME Construct(heap, ColorIcon[c], Append(stack, FrameFor("cursor", Null, Null)))
      PROVE  Kept'
  <2>1. PICK wait \in Frame : wait = FrameFor("cursor", Null, Null) /\ wait.kind = "cursor"
    BY FrameForType
  <2>2. PICK f \in Resources : f = ColorIcon[c]
    BY FilesAssumption DEF Resources
  <2>3. PICK callers : callers = Append(<<>>, wait)
    OBVIOUS
  <2>4. Construct(heap, f, callers)
    BY <1>6, <2>1, <2>2, <2>3
  <2>5. PICK a \in Addr, new \in Store, fr \in Frame :
           /\ heap[a] = Free
           /\ new = object' /\ new[a].file = f /\ new[a].refs = 1 /\ new[a].glyph = Null
           /\ \A b \in Addr \ {a} : new[b] = heap[b]
           /\ fr.kind = "resource" /\ fr.file = f /\ fr.obj = a
           /\ stack' = Append(callers, fr)
    BY <2>4, Built
  <2>6. /\ callers \in Seq(Frame) /\ Len(callers) = 1 /\ callers[1] = wait
    BY <2>3, PushOnNone
  <2>7. PICK st : st = Append(callers, fr)
    OBVIOUS
  <2>8. Len(st) = 2 /\ st[2] = fr /\ st[1] = wait
    BY <2>5, <2>6, <2>7, PushOnOne
  <2> HIDE DEF list
  <2>9. Good(heap, list, held, Null, Null) /\ Building(<<>>, heap, list)
    BY <1>1 DEF list
  <2>10. Good(new, list, held, Null, Null)
    BY <2>5, <2>9, NewObject
  <2>11. Waiting(st)
    BY <2>1, <2>8 DEF Waiting
  <2>12. Building(st, new, list)
    <3>1. ASSUME NEW b \in Addr, new[b] # Free
          PROVE  b \in list \/ \E i \in 1..Len(st) : st[i].kind = "resource" /\ st[i].obj = b
      <4>1. CASE b = a
        <5>1. 2 \in 1..Len(st)
          BY <2>8
        <5> QED
          BY <2>5, <2>8, <4>1, <5>1
      <4>2. CASE b # a
        BY <2>5, <2>9, <3>1, <4>2 DEF Building
      <4> QED
        BY <4>1, <4>2
    <3>2. ASSUME NEW i \in 1..Len(st), NEW j \in 1..Len(st), j = i + 1
          PROVE  st[i].kind # "resource"
      <4>1. i = 1
        BY <2>8, <3>2
      <4> QED
        BY <2>1, <2>8, <4>1
    <3>3. st[2].file \in Pointers
      BY <1>3, <2>2, <2>5, <2>8
    <3> QED
      BY <3>1, <3>2, <3>3 DEF Building
  <2>13. Null = IconOf(stack', cursor') /\ st = stack'
    BY <2>5, <2>7, <2>11 DEF IconOf
  <2> QED
    BY <1>2, <2>5, <2>10, <2>12, <2>13, KeptGood
<1> QED
  BY <1>1, <1>5, <1>6 DEF ReplaceIcon

\* ChangeCursor, MouseReturns and MouseLeaves are SetPointer.
LEMMA SetPointerKept ==
  ASSUME Inv, Kept, MouseReturns \/ MouseLeaves \/ \E c \in Cursors : ChangeCursor(c)
  PROVE  Kept'
<1>1. cursor.category \in Cursors \cup {Null}
  BY DEF Inv, TypeOK
<1>2. Idle => stack = <<>> /\ phase = "open"
  BY DEF Idle
<1>3. CASE MouseReturns
  <2>1. Idle /\ cursor.category \in Cursors /\ ReplaceIcon(cursor.category)
    BY <1>1, <1>3 DEF MouseReturns
  <2> QED
    BY <1>2, <2>1, ReplaceIconKept
<1>4. CASE MouseLeaves
  <2>1. phase = "open" /\ DrawPointer(cursor.category) /\ ~Waiting(stack)
    BY <1>4 DEF MouseLeaves, Waiting
  <2> QED
    BY <1>1, <2>1, DrawPointerKept
<1>5. ASSUME NEW c \in Cursors, ChangeCursor(c) PROVE Kept'
  <2>1. Idle /\ (ReplaceIcon(c) \/ DrawPointer(c))
    BY <1>5 DEF ChangeCursor
  <2>2. ~Waiting(stack)
    BY <1>2, <2>1, NoCursor
  <2> QED
    BY <1>2, <2>1, <2>2, ReplaceIconKept, DrawPointerKept
<1> QED
  BY <1>3, <1>4, <1>5

\* A load that is over leaves the others as they were: two resources are loaded at
\* once only as a font and its glyphs.
LEMMA PopLoad ==
  ASSUME Inv, IsTop("resource"), ~Waiting(stack), NEW heap, NEW heap2, NEW list,
         Building(stack, heap, list), \A b \in Addr : heap2[b] # Free => heap[b] # Free
  PROVE  ~Waiting(Below) /\ Building(Below, heap2, list \cup {Top.obj})
<1>1. /\ stack \in Seq(Frame) /\ Len(stack) \in Nat \ {0} /\ stack # <<>>
      /\ Top = stack[Len(stack)] /\ Top = TopOf(stack) /\ Top.kind = "resource" /\ ShapeOf(stack)
  BY TopIsNew
<1>2. Len(stack) - 1 \in 0..Len(stack)
  BY <1>1
<1>3. Len(Below) = Len(stack) - 1 /\ \A i \in 1..Len(stack) - 1 : Below[i] = stack[i]
  BY <1>1, <1>2, PrefixFacts DEF Below
<1>4. PICK st : st = Below
  OBVIOUS
<1>5. \A i \in 1..Len(st) : i \in 1..Len(stack) /\ st[i] = stack[i]
  BY <1>1, <1>3, <1>4
<1>6. ~Waiting(st)
  BY <1>5 DEF Waiting
<1>7. ASSUME NEW b \in Addr, heap2[b] # Free, b # Top.obj, b \notin list
      PROVE  \E i \in 1..Len(st) : st[i].kind = "resource" /\ st[i].obj = b
  <2>1. PICK i \in 1..Len(stack) : stack[i].kind = "resource" /\ stack[i].obj = b
    BY <1>7 DEF Building
  <2>2. i # Len(stack)
    BY <1>1, <1>7, <2>1
  <2>3. i \in 1..Len(st) /\ st[i] = stack[i]
    BY <1>1, <1>3, <1>4, <2>2
  <2> QED
    BY <2>1, <2>3
<1>8. ASSUME NEW i \in 1..Len(st), NEW j \in 1..Len(st), j = i + 1,
             st[i].kind = "resource", st[j].kind = "resource"
      PROVE  FALSE
  <2>1. /\ i \in 1..Len(stack) - 1 /\ j \in 1..Len(stack) - 1 /\ j \in 1..Len(stack) /\ j > 1
        /\ j - 1 = i /\ stack[i].kind = "resource" /\ stack[j].kind = "resource"
    BY <1>1, <1>3, <1>4, <1>5, <1>8
  <2>2. stack[j].file \in Fonts
    BY <1>1, <2>1, TwoLoads
  <2>3. Frames(stack, j)
    BY <1>1, <2>1 DEF ShapeOf
  <2>4. stack[j].file \in Icons
    BY <2>1, <2>3 DEF Frames
  <2> QED
    BY <2>2, <2>4, KindsAssumption
<1>9. Building(st, heap2, list \cup {Top.obj})
  BY <1>6, <1>7, <1>8 DEF Building
<1> QED
  BY <1>4, <1>6, <1>9

\* The same when the icon had to be loaded.
LEMMA GlyphLoadedFacts ==
  ASSUME Inv, Kept, IsTop("resource"), Below # <<>>, Below[Len(Below)].kind = "resource"
  PROVE  object' = [object EXCEPT ![Below[Len(Below)].obj].glyph = Top.obj] =>
           \E t \in Addr, new \in Store :
             Served(t, Top.obj, new) /\ \A b \in Addr : new[b].refs = object[b].refs
<1>1. PICK a \in Addr, f \in Resources : a = Top.obj /\ f = Top.file
  BY TopIsNew
<1>2. /\ stack \in Seq(Frame) /\ Len(stack) \in Nat \ {0} /\ stack # <<>>
      /\ Top = stack[Len(stack)] /\ Top = TopOf(stack) /\ phase = "open"
      /\ Top.kind = "resource" /\ object[a].file = f /\ object[a] # Free
      /\ Len(stack) > 1 /\ Below[Len(Below)] = stack[Len(stack) - 1]
  BY <1>1, TopIsNew, BelowTop
<1>3. object \in Store /\ Building(stack, object, cached) /\ ShapeOf(stack)
  BY <1>2, OpenGood
<1>4. PICK n \in 1..Len(stack) : n = Len(stack) - 1 /\ Below[Len(Below)] = stack[n]
  BY <1>2
<1>5. n \in 1..Len(stack) - 1 /\ Len(stack) \in 1..Len(stack) /\ Len(stack) = n + 1
  BY <1>2, <1>4
<1>6. stack[n].kind = "resource" /\ stack[n].file \in Fonts /\ f \in Icons
  BY <1>1, <1>2, <1>3, <1>4, <1>5, TwoLoads
<1>7. PICK t \in Addr : t = stack[n].obj
  BY <1>3, <1>6 DEF ShapeOf, Frames
<1>8. object[t].glyph = Null /\ f = Glyph[stack[n].file]
  <2>1. \A i \in 1..Len(stack), j \in 1..Len(stack) :
          j = i + 1 /\ stack[i].kind = "resource" /\ stack[j].kind = "resource" =>
            object[stack[i].obj].glyph = Null /\ stack[j].file = Glyph[stack[i].file]
    BY <1>3 DEF Building
  <2>2. PICK m \in 1..Len(stack) : m = Len(stack) /\ m = n + 1
    BY <1>5
  <2>3. stack[m].kind = "resource" /\ stack[m].file = f
    BY <1>1, <1>2, <2>2
  <2>4. object[stack[n].obj].glyph = Null /\ stack[m].file = Glyph[stack[n].file]
    BY <1>6, <2>1, <2>2, <2>3
  <2> QED
    BY <1>7, <2>3, <2>4
<1>9. object[t].file = stack[n].file
  BY <1>4, <1>6, <1>7 DEF Inv, Heap, Loading
<1>10. object[t] # Free /\ t # a
  BY <1>2, <1>6, <1>9, KindsAssumption DEF Free, File, Resources
<1>11. PICK new \in Store :
        /\ new = [object EXCEPT ![t].glyph = a] /\ new[t].glyph = a
        /\ new[t].refs = object[t].refs /\ new[t].file = object[t].file /\ new[t] # Free
        /\ \A b \in Addr \ {t} : new[b] = object[b]
  <2> DEFINE set == [object EXCEPT ![t].glyph = a]
  <2>1. object \in Store /\ a \in Addr /\ t \in Addr /\ object[t] # Free
    BY <1>1, <1>3, <1>7, <1>10
  <2>2. /\ set \in Store /\ set[t].glyph = a /\ set[t].refs = object[t].refs
        /\ set[t].file = object[t].file /\ set[t] # Free
        /\ \A b \in Addr \ {t} : set[b] = object[b]
    BY <2>1, GlyphSetFacts
  <2>3. PICK new : new = set
    OBVIOUS
  <2> QED
    BY <2>2, <2>3
<1>12. \A b \in Addr : new[b].refs = object[b].refs
  BY <1>11
<1>13. ASSUME object' = [object EXCEPT ![Below[Len(Below)].obj].glyph = Top.obj]
       PROVE  Served(t, a, new)
  <2>1. new = object'
    BY <1>1, <1>4, <1>7, <1>11, <1>13
  <2> QED
    BY <1>2, <1>6, <1>8, <1>9, <1>10, <1>11, <2>1 DEF Served
<1> QED
  BY <1>1, <1>12, <1>13

\* The icon a cursor waits for has been loaded, and the wait is over.
LEMMA IconLoaded ==
  ASSUME Inv, Kept, IsTop("resource"), Below # <<>>, Below[Len(Below)].kind = "cursor",
         cursor' = [cursor EXCEPT !.icon = Top.obj], stack' = SubSeq(stack, 1, Len(stack) - 2)
  PROVE  /\ Waiting(stack) /\ Len(stack) = 2 /\ stack[1].kind = "cursor" /\ Top.file \in Pointers
         /\ stack' = <<>> /\ IconOf(stack', cursor') = Top.obj
<1>1. /\ stack \in Seq(Frame) /\ Len(stack) \in Nat \ {0} /\ stack # <<>>
      /\ Top = stack[Len(stack)] /\ phase = "open"
      /\ Len(stack) > 1 /\ Below[Len(Below)] = stack[Len(stack) - 1]
  BY TopIsNew, BelowTop
<1>2. Building(stack, object, cached) /\ ShapeOf(stack)
  BY <1>1, OpenGood
<1>3. Waiting(stack)
  <2>1. Len(stack) - 1 \in 1..Len(stack)
    BY <1>1
  <2> QED
    BY <1>1, <2>1 DEF Waiting
<1>4. Len(stack) = 2 /\ stack[1].kind = "cursor"
  BY <1>1, <1>2, <1>3, WaitingShape
<1>5. Top.file \in Pointers
  <2>1. stack[2].file \in Pointers
    BY <1>2, <1>3 DEF Building
  <2> QED
    BY <1>1, <1>4, <2>1
<1>6. stack' = <<>>
  <2>1. stack' \in Seq(Frame) /\ Len(stack') = 0
    BY <1>1, <1>4, PrefixFacts
  <2> QED
    BY <2>1, EmptySeq
<1>7. ~Waiting(<<>>)
  <2>1. Len(<<>>) = 0
    OBVIOUS
  <2> QED
    BY <2>1 DEF Waiting
<1>8. cursor'.icon = Top.obj
  BY DEF Inv, TypeOK
<1>9. IconOf(stack', cursor') = Top.obj
  BY <1>6, <1>7, <1>8 DEF IconOf
<1> QED
  BY <1>3, <1>4, <1>5, <1>6, <1>9

LEMMA LoadedKept ==
  ASSUME Inv, Kept, Loaded
  PROVE  Kept'
<1> DEFINE icon == IconOf(stack, cursor)
<1>1. /\ IsTop("resource") /\ AtEnd /\ cached' = cached \cup {Top.obj}
  BY DEF Loaded
<1>2. PICK a \in Addr, f \in Resources : a = Top.obj /\ f = Top.file
  BY <1>1, TopIsNew
<1>3. /\ stack \in Seq(Frame) /\ Len(stack) \in Nat \ {0} /\ stack # <<>>
      /\ Top = stack[Len(stack)] /\ Top = TopOf(stack) /\ phase = "open"
      /\ Top.kind = "resource" /\ object[a].file = f /\ a \notin cached /\ object[a] # Free
  BY <1>1, <1>2, TopIsNew
<1>4. /\ Good(object, cached, held, icon, Null) /\ Building(stack, object, cached)
      /\ object \in Store /\ cached \subseteq Addr /\ ShapeOf(stack)
      /\ Balanced(object, cached, held, icon, Null) /\ HeldAlive(object, cached, held, icon)
      /\ held \in [Slots -> Hold]
  BY <1>3, OpenGood DEF Good
<1>5. PICK list \in SUBSET Addr : list = cached \cup {a}
  BY <1>4
<1>6. cached' = list /\ cached \subseteq list /\ a \in list /\ \A b \in list : object[b] # Free
  BY <1>1, <1>2, <1>3, <1>4, <1>5 DEF HeldAlive
<1>7. /\ Below # <<>> => Len(stack) > 1 /\ Below[Len(Below)] = stack[Len(stack) - 1]
      /\ Below = <<>> => Len(stack) = 1
  BY <1>3, BelowTop
<1> HIDE DEF icon
<1>8. PICK st : st = Below
  OBVIOUS
<1>9. ASSUME DeliverToSlot(a, f), stack' = Below, UNCHANGED <<object, cursor>>, ~Waiting(stack)
      PROVE  Kept'
  <2>1. PICK s \in Slots, h \in [Slots -> Hold] :
          /\ h = held' /\ held[s].obj = Null /\ h[s].obj = a /\ h[s].file = f
          /\ \A t \in Slots \ {s} : h[t] = held[t]
    BY <1>9, Delivered DEF Inv
  <2>2. Taken(object, held, icon, object, h, icon, a)
    BY <2>1, SlotTakes
  <2>3. Balanced(object, list, h, icon, Null)
    BY <1>3, <1>4, <1>5, <2>2, CountedFromTheStart
  <2>4. HeldAlive(object, list, h, icon)
    BY <1>3, <1>4, <1>6, <2>1, SlotFilledAlive
  <2>5. Good(object, list, h, icon, Null)
    BY <1>4, <2>1, <2>3, <2>4 DEF Good
  <2>6. ~Waiting(st) /\ Building(st, object, list)
    BY <1>1, <1>2, <1>4, <1>5, <1>8, <1>9, PopLoad
  <2>7. icon = IconOf(stack', cursor')
    BY <1>8, <1>9, <2>6 DEF icon, IconOf
  <2> QED
    BY <1>6, <1>8, <1>9, <2>1, <2>5, <2>6, <2>7, KeptGood
<1>10. ASSUME Below = <<>> \/ Below[Len(Below)].kind # "cursor"
       PROVE  ~Waiting(stack)
  BY <1>7, <1>10, NoCursor
<1>11. ASSUME Below # <<>>, Below[Len(Below)].kind = "resource",
              object' = [object EXCEPT ![Below[Len(Below)].obj].glyph = a],
              stack' = Below, UNCHANGED <<held, cursor>>
       PROVE  Kept'
  <2>1. PICK t \in Addr, new \in Store :
          Served(t, a, new) /\ \A b \in Addr : new[b].refs = object[b].refs
    BY <1>1, <1>2, <1>11, GlyphLoadedFacts
  <2>9. \A b \in Addr : new[b] # Free <=> object[b] # Free
    BY <2>1 DEF Served
  <2>10. Taken(object, held, icon, new, held, icon, a)
    BY <2>1, FontTakes DEF Served
  <2>11. Balanced(new, list, held, icon, Null)
    BY <1>3, <1>4, <1>5, <2>1, <2>9, <2>10, CountedFromTheStart
  <2>12. HeldAlive(new, list, held, icon)
    BY <1>4, <1>6, <2>1, ServedAlive
  <2>13. Good(new, list, held, icon, Null)
    BY <1>4, <2>1, <2>11, <2>12 DEF Good
  <2>14. ~Waiting(stack)
    BY <1>10, <1>11
  <2>15. ~Waiting(st) /\ Building(st, new, list)
    BY <1>1, <1>2, <1>4, <1>5, <1>8, <2>9, <2>14, PopLoad
  <2>16. icon = IconOf(stack', cursor') /\ new = object'
    BY <1>8, <1>11, <2>1, <2>14, <2>15 DEF icon, IconOf, Served
  <2> QED
    BY <1>6, <1>8, <1>11, <2>13, <2>15, <2>16, KeptGood
<1>12. ASSUME Below # <<>>, Below[Len(Below)].kind = "cursor",
              cursor' = [cursor EXCEPT !.icon = a],
              stack' = SubSeq(stack, 1, Len(stack) - 2), UNCHANGED <<object, held>>
       PROVE  Kept'
  <2>1. /\ Waiting(stack) /\ Len(stack) = 2 /\ stack[1].kind = "cursor" /\ f \in Pointers
        /\ stack' = <<>> /\ a = IconOf(stack', cursor')
    BY <1>1, <1>2, <1>12, IconLoaded
  <2>2. icon = Null
    BY <2>1 DEF icon, IconOf
  <2>4. Taken(object, held, Null, object, held, a, a)
    BY CursorTakes
  <2>5. Balanced(object, list, held, a, Null)
    BY <1>3, <1>4, <1>5, <2>2, <2>4, CountedFromTheStart
  <2>6. HeldAlive(object, list, held, a)
    BY <1>3, <1>4, <1>6, <2>1 DEF HeldAlive, SlotsAlive, GlyphsAlive, IconAlive
  <2>7. Good(object, list, held, a, Null)
    BY <1>4, <2>5, <2>6 DEF Good
  <2>8. Building(<<>>, object, list) /\ ~Waiting(<<>>)
    <3>1. Len(<<>>) = 0
      OBVIOUS
    <3>2. ASSUME NEW b \in Addr, object[b] # Free PROVE b \in list
      <4>1. b \in cached \/ \E i \in 1..Len(stack) : stack[i].kind = "resource" /\ stack[i].obj = b
        BY <1>4, <3>2 DEF Building
      <4>2. \A i \in 1..Len(stack) : i = 1 \/ i = Len(stack)
        BY <2>1
      <4> QED
        BY <1>2, <1>3, <1>6, <2>1, <4>1, <4>2
    <3> QED
      BY <3>1, <3>2 DEF Building, Waiting
  <2> QED
    BY <1>6, <1>12, <2>1, <2>7, <2>8, KeptGood
<1>13. \/ /\ DeliverToSlot(a, f) /\ stack' = Below /\ UNCHANGED <<object, cursor>>
          /\ Below = <<>> \/ Below[Len(Below)].kind # "cursor"
       \/ /\ Below # <<>> /\ Below[Len(Below)].kind = "resource"
          /\ object' = [object EXCEPT ![Below[Len(Below)].obj].glyph = a]
          /\ stack' = Below /\ UNCHANGED <<held, cursor>>
       \/ /\ Below # <<>> /\ Below[Len(Below)].kind = "cursor"
          /\ cursor' = [cursor EXCEPT !.icon = a]
          /\ stack' = SubSeq(stack, 1, Len(stack) - 2) /\ UNCHANGED <<object, held>>
  BY <1>2 DEF Loaded
<1> QED
  BY <1>9, <1>10, <1>11, <1>12, <1>13

LEMMA KeptInit == Init => Kept
<1> SUFFICES ASSUME Init PROVE Kept
  OBVIOUS
<1>1. stack = <<>> /\ Len(<<>>) = 0 /\ cached = {} /\ cursor.icon = Null
  BY DEF Init
<1>2. \A b \in Addr : object[b] = Free /\ object[b].glyph = Null
  BY DEF Init, Free
<1>3. \A s \in Slots : held[s] = Nothing
  BY DEF Init
<1>4. IconOf(stack, cursor) = Null
  BY <1>1 DEF IconOf
<1>5. Balanced(object, cached, held, Null, Null) /\ Building(stack, object, cached)
  BY <1>1, <1>2 DEF Balanced, Building, Waiting
<1>6. HeldAlive(object, cached, held, Null)
  BY <1>1, <1>2, <1>3 DEF HeldAlive, SlotsAlive, GlyphsAlive, IconAlive
<1> QED
  BY <1>4, <1>5, <1>6 DEF Kept

LEMMA KeptNext == HInv /\ [Next]_vars => HInv'
<1> SUFFICES ASSUME HInv, [Next]_vars PROVE HInv'
  OBVIOUS
<1>1. Inv /\ Kept /\ Inv' /\ Pointed'
  BY NextInv DEF HInv
<1>2. ASSUME NEW f \in Resources, GetHit(f) \/ GetMiss(f) \/ WidgetGetMiss(f) PROVE Kept'
  BY <1>1, <1>2, GetHitKept, MissKept
<1>3. ASSUME NEW w \in Windows, OpenWindow(w) PROVE Kept'
  BY <1>1, <1>3, OpenWindowKept
<1>4. ASSUME GlyphHit \/ GlyphMiss \/ Read \/ WindowRead \/ Loaded \/ PointerDrawn PROVE Kept'
  BY <1>1, <1>4, GlyphHitKept, MissKept, ReadKept, PlainEndKept, LoadedKept
<1>5. ASSUME NEW s \in Slots, Release(s) PROVE Kept'
  BY <1>1, <1>5, ReleaseKept
<1>6. ASSUME (\E c \in Cursors : ChangeCursor(c)) \/ MouseReturns \/ MouseLeaves PROVE Kept'
  BY <1>1, <1>6, SetPointerKept
<1>7. ASSUME ShutDown \/ ExpungeOne \/ Close PROVE Kept'
  BY <1>7, ClosingKept
<1>8. ASSUME UNCHANGED vars PROVE Kept'
  BY <1>1, <1>8 DEF vars, position, Kept
<1>9. Kept'
  BY <1>2, <1>3, <1>4, <1>5, <1>6, <1>7, <1>8 DEF Next
<1> QED
  BY <1>1, <1>9 DEF HInv
-----------------------------------------------------------------------------
(* The theorems *)

LEMMA HeldInv == Spec => []HInv
<1>1. Init => HInv
  BY InitInv, KeptInit DEF HInv
<1> QED
  BY <1>1, KeptNext, PTL DEF Spec

LEMMA CursorKeeps ==
  ASSUME NEW a \in Addr
  PROVE  /\ CursorHolds(a) <=> IconOf(stack, cursor) = a
         /\ Live = {b \in Addr : object[b] # Free}
BY KindsAssumption DEF CursorHolds, IconOf, Waiting, Live

\* The count of every cached resource is the number of widgets, managers, fonts
\* and cursors that keep it, whatever is still being loaded.
THEOREM CountsAreHolders == Spec => []RefsCountHolders
<1>1. HInv => RefsCountHolders
  <2> SUFFICES ASSUME HInv, phase = "open", NEW a \in cached
               PROVE  object[a].refs = Cardinality(Holders(a))
    BY DEF RefsCountHolders
  <2>1. /\ Balanced(object, cached, held, IconOf(stack, cursor), Null)
        /\ HeldAlive(object, cached, held, IconOf(stack, cursor))
    BY DEF HInv, Kept
  <2>2. a \in Addr /\ object[a] # Free /\ a # Null
    BY <2>1, KindsAssumption DEF HeldAlive
  <2>3. Holders(a) = HoldersOf(object, held, IconOf(stack, cursor), a)
    <3>1. {b \in Live : object[b].glyph = a} = {b \in Addr : object[b].glyph = a}
      BY <2>2, KindsAssumption DEF Live, Free
    <3>2. {c \in {a} : CursorHolds(c)} = {c \in {a} : IconOf(stack, cursor) = c}
      BY <2>2, CursorKeeps
    <3> QED
      BY <3>1, <3>2 DEF Holders, HoldersOf
  <2>4. BalancedAt(object, cached, held, IconOf(stack, cursor), Null, a)
    BY <2>1, <2>2 DEF Balanced
  <2>5. Excess(cached, Null, a) = 0
    BY <2>2 DEF Excess
  <2>6. Cardinality(Holders(a)) \in Nat
    BY <2>3, <2>4, FS_CardinalityType DEF BalancedAt
  <2> QED
    BY <2>3, <2>4, <2>5, <2>6 DEF BalancedAt
<1> QED
  BY <1>1, HeldInv, PTL

\* Nobody keeps a resource that was deleted, or one that took its address: what
\* slots, fonts and the cursor keep is cached, and is the file they asked for.
THEOREM WhatIsHeldIsAlive == Spec => []HeldIsAlive
<1>1. HInv => HeldIsAlive
  <2> SUFFICES ASSUME HInv, phase = "open" PROVE HeldIsAlive
    BY DEF HeldIsAlive
  <2>1. HeldAlive(object, cached, held, IconOf(stack, cursor)) /\ cursor.icon \in Addr \cup {Null}
    BY DEF HInv, Kept, Inv, TypeOK
  <2>2. CursorHolds(cursor.icon) /\ cursor.icon # Null => cursor.icon \in cached
    BY <2>1, CursorKeeps DEF HeldAlive, IconAlive
  <2> QED
    BY <2>1, <2>2 DEF HeldIsAlive, HeldAlive, SlotsAlive, GlyphsAlive, Live
<1> QED
  BY <1>1, HeldInv, PTL
-----------------------------------------------------------------------------
(* The refinement: what the users see *)

\* The variables of ResourceCache, as Cache maps them.
LoadedNow == {object[a].file : a \in cached}
UsersNow == [f \in Resources |-> IF phase = "open" THEN HeldFile(f) ELSE {}]
OpenNow == phase = "open"

\* What they depend on: what each slot keeps, the fonts that have glyphs, the
\* cursor's icon.
Glyphed(heap) == {heap[b].file : b \in {b \in Addr : heap[b].glyph # Null}}
CursorFile(heap, icon) == IF icon = Null THEN Null ELSE heap[icon].file
UsersAt(h, fonts, cf, f) ==
  {s \in Slots : h[s].file = f} \cup {g \in fonts : Glyph[g] = f} \cup {u \in {"cursor"} : cf = f}
UsersOf(h, fonts, cf) == [f \in Resources |-> UsersAt(h, fonts, cf, f)]
UsedIn(us) == {f \in Resources : us[f] # {}}
LoadedOf(heap, list) == {heap[a].file : a \in list}

LEMMA GlyphedFacts ==
  ASSUME NEW heap \in Store, NEW list, GlyphsAlive(heap, list)
  PROVE  Glyphed(heap) \subseteq Fonts
BY DEF Glyphed, GlyphsAlive

LEMMA UsersAre ==
  HInv => (phase = "open" =>
    UsersNow = UsersOf(held, Glyphed(object), CursorFile(object, IconOf(stack, cursor))))
<1> SUFFICES ASSUME HInv, phase = "open", NEW f \in Resources
             PROVE  HeldFile(f) =
                    UsersAt(held, Glyphed(object), CursorFile(object, IconOf(stack, cursor)), f)
  BY DEF UsersNow, UsersOf
<1>1. /\ HeldAlive(object, cached, held, IconOf(stack, cursor))
      /\ cursor.icon \in Addr \cup {Null}
  BY DEF HInv, Kept, Inv, TypeOK
<1>2. f # Null
  BY KindsAssumption DEF File
<1>3. {object[b].file : b \in {b \in Live : /\ object[b].glyph # Null
                                            /\ object[object[b].glyph].file = f}}
      = {g \in Glyphed(object) : Glyph[g] = f}
  <2>1. \A b \in Addr : object[b].glyph # Null =>
          object[b] # Free /\ object[object[b].glyph].file = Glyph[object[b].file]
    BY <1>1 DEF HeldAlive, GlyphsAlive, Free
  <2> QED
    BY <2>1 DEF Glyphed, Live
<1>4. {u \in {"cursor"} : /\ cursor.icon # Null /\ CursorHolds(cursor.icon)
                          /\ object[cursor.icon].file = f}
      = {u \in {"cursor"} : CursorFile(object, IconOf(stack, cursor)) = f}
  BY <1>1, <1>2 DEF CursorFile, CursorHolds, IconOf, Waiting
<1> QED
  BY <1>3, <1>4 DEF HeldFile, UsersAt

LEMMA UsersAreNext ==
  ASSUME HInv', phase' = "open"
  PROVE  UsersNow' = UsersOf(held', Glyphed(object'), CursorFile(object', IconOf(stack', cursor')))
<1>1. HInv' => (phase = "open" =>
        UsersNow = UsersOf(held, Glyphed(object), CursorFile(object, IconOf(stack, cursor))))'
  BY UsersAre, PTL
<1> QED
  BY <1>1

LEMMA GoodNext ==
  ASSUME HInv', phase' = "open"
  PROVE  Good(object', cached', held', IconOf(stack', cursor'), Null)
<1>1. object' \in Store /\ held' \in [Slots -> Hold] /\ cursor'.icon \in Addr \cup {Null}
  BY DEF HInv, Inv, TypeOK, Store
<1>2. IconOf(stack', cursor') \in Addr \cup {Null}
  BY <1>1 DEF IconOf
<1> QED
  BY <1>1, <1>2 DEF HInv, Kept, Good

\* A resource is loaded exactly while somebody uses it: its count is not zero.
LEMMA UsedIsLoaded ==
  ASSUME NEW heap, NEW list, NEW h, NEW icon, Good(heap, list, h, icon, Null)
  PROVE  LoadedOf(heap, list) = UsedIn(UsersOf(h, Glyphed(heap), CursorFile(heap, icon)))
<1> DEFINE users(f) == UsersAt(h, Glyphed(heap), CursorFile(heap, icon), f)
<1>1. /\ heap \in Store /\ h \in [Slots -> Hold] /\ icon \in Addr \cup {Null}
      /\ list \subseteq Addr /\ \A a \in list : heap[a] # Free
      /\ SlotsAlive(heap, list, h) /\ GlyphsAlive(heap, list) /\ IconAlive(heap, list, icon)
  BY DEF Good, HeldAlive
<1>2. ASSUME NEW a \in list
      PROVE  heap[a].file \in Resources /\ users(heap[a].file) # {}
  <2>1. a \in Addr /\ a # Null /\ heap[a] \in Object
    BY <1>1, FreeOrObject, KindsAssumption
  <2>2. heap[a].file \in Resources /\ heap[a].refs \in Nat \ {0}
    BY <2>1 DEF Object
  <2>3. heap[a].refs = Cardinality(HoldersOf(heap, h, icon, a))
        /\ IsFiniteSet(HoldersOf(heap, h, icon, a))
    <3>1. BalancedAt(heap, list, h, icon, Null, a)
      BY <1>1, <2>1 DEF Good, Balanced
    <3>2. Excess(list, Null, a) = 0
      BY <2>1 DEF Excess
    <3> QED
      BY <3>1, <3>2, FS_CardinalityType DEF BalancedAt
  <2>4. HoldersOf(heap, h, icon, a) # {}
    BY <2>2, <2>3, FS_EmptySet
  <2>5. PICK x : x \in HoldersOf(heap, h, icon, a)
    BY <2>4
  <2>6. CASE \E s \in Slots : h[s].obj = a
    <3>1. PICK s \in Slots : h[s].obj = a
      BY <2>6
    <3>2. h[s].file = heap[a].file
      BY <1>1, <2>1, <3>1 DEF SlotsAlive, Nothing
    <3> QED
      BY <2>2, <3>2 DEF UsersAt
  <2>7. CASE \E b \in Addr : heap[b].glyph = a
    <3>1. PICK b \in Addr : heap[b].glyph = a
      BY <2>7
    <3>2. heap[b].file \in Glyphed(heap) /\ Glyph[heap[b].file] = heap[a].file
      BY <1>1, <2>1, <3>1 DEF GlyphsAlive, Glyphed
    <3> QED
      BY <2>2, <3>2 DEF UsersAt
  <2>8. CASE icon = a
    <3>1. CursorFile(heap, icon) = heap[a].file
      BY <2>1, <2>8 DEF CursorFile
    <3> QED
      BY <2>2, <3>1 DEF UsersAt
  <2> QED
    BY <2>5, <2>6, <2>7, <2>8, Holding
<1>3. ASSUME NEW f \in Resources, users(f) # {}
      PROVE  \E a \in list : heap[a].file = f
  <2>1. f # Null
    BY KindsAssumption DEF File
  <2>2. CASE \E s \in Slots : h[s].file = f
    BY <1>1, <2>1, <2>2 DEF SlotsAlive, Nothing
  <2>3. CASE \E g \in Glyphed(heap) : Glyph[g] = f
    <3>1. PICK b \in Addr : heap[b].glyph # Null /\ Glyph[heap[b].file] = f
      BY <2>3 DEF Glyphed
    <3> QED
      BY <1>1, <3>1 DEF GlyphsAlive
  <2>4. CASE CursorFile(heap, icon) = f
    BY <1>1, <2>1, <2>4 DEF CursorFile, IconAlive
  <2> QED
    BY <1>3, <2>2, <2>3, <2>4 DEF UsersAt
<1> QED
  BY <1>2, <1>3 DEF LoadedOf, UsedIn, UsersOf
-----------------------------------------------------------------------------
(* The refinement: the steps of ResourceCache *)

LEMMA StepAcquire ==
  ASSUME OpenNow, OpenNow', NEW f \in Resources, NEW u,
         \/ u \in Slots
         \/ u \in Fonts /\ f = Glyph[u]
         \/ u = "cursor" /\ f \in Pointers,
         \A g \in Resources : u \notin UsersNow[g],
         UsersNow' = [UsersNow EXCEPT ![f] = @ \cup {u}], LoadedNow' = UsedIn(UsersNow')
  PROVE  Cache!Next
<1>1. u \in Cache!User /\ f \in Cache!Resources
  BY DEF Cache!User, Cache!Resources, Resources
<1>2. f \in Cache!Wanted(u)
  <2>1. ~\E g \in Resources : u \in UsersNow[g]
    OBVIOUS
  <2>2. CASE u \in Slots
    BY <2>1, <2>2, KindsAssumption DEF Cache!Wanted, Cache!Resources, Resources, UsersNow
  <2>3. CASE u \in Fonts /\ f = Glyph[u]
    BY <2>1, <2>3, KindsAssumption DEF Cache!Wanted, Cache!Resources, Resources, UsersNow
  <2>4. CASE u = "cursor" /\ f \in Pointers
    BY <2>1, <2>4, KindsAssumption DEF Cache!Wanted, Cache!Resources, Resources, UsersNow, Pointers
  <2> QED
    BY <2>2, <2>3, <2>4
<1>3. Cache!Acquire(u, f)
  BY <1>2 DEF Cache!Acquire, Cache!Used, Cache!Resources, UsedIn, UsersNow, LoadedNow, OpenNow,
              Resources
<1> QED
  BY <1>1, <1>3 DEF Cache!Next

\* What Without leaves.
WithoutNow(us, u, f) ==
  LET rest == [us EXCEPT ![f] = @ \ {u}]
  IN  IF f \in Fonts /\ rest[f] = {} THEN [rest EXCEPT ![Glyph[f]] = @ \ {f}] ELSE rest

LEMMA StepDrop ==
  ASSUME OpenNow, OpenNow', NEW f \in Resources, NEW u \in Slots \cup {"cursor"},
         u \in UsersNow[f],
         UsersNow' = WithoutNow(UsersNow, u, f), LoadedNow' = UsedIn(UsersNow')
  PROVE  Cache!Next
<1>1. u \in Cache!User /\ f \in Cache!Resources
  BY DEF Cache!User, Cache!Resources, Resources
<1>2. Cache!Drop(u, f)
  BY DEF Cache!Drop, Cache!Without, WithoutNow, Cache!Used, Cache!Resources, UsedIn, UsersNow,
         LoadedNow, OpenNow, Resources
<1> QED
  BY <1>1, <1>2 DEF Cache!Next

LEMMA StepExchange ==
  ASSUME OpenNow, OpenNow', NEW f \in Resources, NEW g \in Resources,
         "cursor" \in UsersNow[f], g \in Pointers, g \in LoadedNow,
         UsersNow' = [WithoutNow(UsersNow, "cursor", f) EXCEPT ![g] = @ \cup {"cursor"}],
         LoadedNow' = UsedIn(UsersNow')
  PROVE  Cache!Next
<1>1. f \in Cache!Resources /\ g \in Cache!Resources
  BY DEF Cache!Resources, Resources
<1>2. Cache!Exchange(f, g)
  BY DEF Cache!Exchange, Cache!Without, WithoutNow, Cache!Used, Cache!Resources, UsedIn, UsersNow,
         LoadedNow, OpenNow, Resources, Pointers
<1> QED
  BY <1>1, <1>2 DEF Cache!Next

LEMMA StepShutDown ==
  ASSUME OpenNow, ~OpenNow', LoadedNow' = {f \in LoadedNow : UsersNow[f] # {"cursor"}}
  PROVE  Cache!Next
<1>1. UsersNow' = [f \in Resources |-> {}]
  BY DEF UsersNow, OpenNow
<1>2. Cache!ShutDown
  BY <1>1 DEF Cache!ShutDown, UsersNow, LoadedNow, OpenNow, Cache!Resources, Resources
<1> QED
  BY <1>2 DEF Cache!Next

LEMMA StepPurge ==
  ASSUME ~OpenNow, ~OpenNow', NEW f \in LoadedNow, LoadedNow' = LoadedNow \ {f}
  PROVE  Cache!Next
<1>1. UsersNow' = UsersNow
  BY DEF UsersNow, OpenNow
<1>2. Cache!Purge
  BY <1>1 DEF Cache!Purge, UsersNow, LoadedNow, OpenNow, Resources
<1> QED
  BY <1>2 DEF Cache!Next

LEMMA StepNothing ==
  ASSUME OpenNow' = OpenNow, UsersNow' = UsersNow, LoadedNow' = LoadedNow
  PROVE  UNCHANGED Cache!vars
BY DEF Cache!vars, UsersNow, LoadedNow, OpenNow
-----------------------------------------------------------------------------
(* The refinement: who comes to use what, and who stops *)

\* A user that uses nothing comes to use f.
Joins(us, us2, u, f) ==
  us2 = [us EXCEPT ![f] = @ \cup {u}] /\ \A g \in Resources : u \notin us[g]

LEMMA SlotJoins ==
  ASSUME NEW h, NEW h2, NEW s \in Slots, NEW f \in Resources, h[s].file = Null, h2[s].file = f,
         \A t \in Slots \ {s} : h2[t] = h[t], NEW fonts \in SUBSET Fonts, NEW cf
  PROVE  Joins(UsersOf(h, fonts, cf), UsersOf(h2, fonts, cf), s, f)
<1>1. s # "cursor" /\ s \notin fonts /\ Null \notin Resources
  BY KindsAssumption DEF File
<1>2. ASSUME NEW g \in Resources
      PROVE  /\ s \notin UsersAt(h, fonts, cf, g)
             /\ UsersAt(h2, fonts, cf, g) =
                  IF g = f THEN UsersAt(h, fonts, cf, g) \cup {s} ELSE UsersAt(h, fonts, cf, g)
  BY <1>1 DEF UsersAt
<1> QED
  BY <1>2 DEF Joins, UsersOf

LEMMA FontJoins ==
  ASSUME NEW h, NEW fonts \in SUBSET Fonts, NEW x \in Fonts, x \notin fonts, NEW cf
  PROVE  Joins(UsersOf(h, fonts, cf), UsersOf(h, fonts \cup {x}, cf), x, Glyph[x])
<1>1. x # "cursor" /\ x \notin Slots /\ Glyph[x] \in Resources
  BY KindsAssumption, FilesAssumption DEF Resources
<1>2. ASSUME NEW g \in Resources
      PROVE  /\ x \notin UsersAt(h, fonts, cf, g)
             /\ UsersAt(h, fonts \cup {x}, cf, g) =
                  IF g = Glyph[x] THEN UsersAt(h, fonts, cf, g) \cup {x}
                                  ELSE UsersAt(h, fonts, cf, g)
  BY <1>1 DEF UsersAt
<1> QED
  BY <1>1, <1>2 DEF Joins, UsersOf

LEMMA CursorJoins ==
  ASSUME NEW h, NEW fonts \in SUBSET Fonts, NEW f \in Resources
  PROVE  Joins(UsersOf(h, fonts, Null), UsersOf(h, fonts, f), "cursor", f)
<1>1. "cursor" \notin Slots /\ "cursor" \notin fonts /\ Null \notin Resources
  BY KindsAssumption DEF File
<1>2. ASSUME NEW g \in Resources
      PROVE  /\ "cursor" \notin UsersAt(h, fonts, Null, g)
             /\ UsersAt(h, fonts, f, g) =
                  IF g = f THEN UsersAt(h, fonts, Null, g) \cup {"cursor"}
                           ELSE UsersAt(h, fonts, Null, g)
  BY <1>1 DEF UsersAt
<1> QED
  BY <1>2 DEF Joins, UsersOf

\* A slot gives up f; with the last use of a font, so does the font its glyphs.
FontsLeft(us, f, fonts) == IF f \in Fonts /\ us[f] = {} THEN fonts \ {f} ELSE fonts
Leaves(us, us2, u, f) == u \in us[f] /\ us2 = WithoutNow(us, u, f)

LEMMA SlotLeaves ==
  ASSUME NEW h, NEW h2, NEW s \in Slots, NEW f \in Resources, h[s].file = f, h2[s].file = Null,
         \A t \in Slots \ {s} : h2[t] = h[t], NEW fonts \in SUBSET Fonts, NEW cf,
         NEW fonts2, fonts2 = FontsLeft(UsersOf(h2, fonts, cf), f, fonts)
  PROVE  Leaves(UsersOf(h, fonts, cf), UsersOf(h2, fonts2, cf), s, f)
<1>1. s # "cursor" /\ s \notin fonts /\ Null \notin Resources
  BY KindsAssumption DEF File
<1> DEFINE rest == [UsersOf(h, fonts, cf) EXCEPT ![f] = @ \ {s}]
<1>2. rest = UsersOf(h2, fonts, cf)
  <2>1. ASSUME NEW g \in Resources
        PROVE  UsersAt(h2, fonts, cf, g) =
                 IF g = f THEN UsersAt(h, fonts, cf, g) \ {s} ELSE UsersAt(h, fonts, cf, g)
    BY <1>1 DEF UsersAt
  <2> QED
    BY <2>1 DEF UsersOf
<1>3. WithoutNow(UsersOf(h, fonts, cf), s, f) =
        IF f \in Fonts /\ rest[f] = {} THEN [rest EXCEPT ![Glyph[f]] = @ \ {f}] ELSE rest
  BY DEF WithoutNow
<1> HIDE DEF rest
<1>4. s \in UsersOf(h, fonts, cf)[f]
  BY DEF UsersOf, UsersAt
<1>5. CASE f \in Fonts /\ rest[f] = {}
  <2>1. fonts2 = fonts \ {f}
    BY <1>2, <1>5 DEF FontsLeft
  <2>2. Glyph[f] \in Resources /\ f \notin Slots /\ f # "cursor"
    BY <1>5, KindsAssumption, FilesAssumption DEF Resources
  <2>3. ASSUME NEW g \in Resources
        PROVE  UsersAt(h2, fonts2, cf, g) =
                 IF g = Glyph[f] THEN UsersAt(h2, fonts, cf, g) \ {f}
                                 ELSE UsersAt(h2, fonts, cf, g)
    BY <2>1, <2>2 DEF UsersAt
  <2>4. UsersOf(h2, fonts2, cf) = [UsersOf(h2, fonts, cf) EXCEPT ![Glyph[f]] = @ \ {f}]
    BY <2>2, <2>3 DEF UsersOf
  <2> QED
    BY <1>2, <1>3, <1>5, <1>4, <2>4 DEF Leaves, UsersOf, UsersAt
<1>6. CASE ~(f \in Fonts /\ rest[f] = {})
  <2>1. fonts2 = fonts
    BY <1>2, <1>6 DEF FontsLeft
  <2> QED
    BY <1>2, <1>3, <1>4, <1>6, <2>1 DEF Leaves
<1> QED
  BY <1>5, <1>4, <1>6 DEF Leaves

\* The cursor gives up its icon.
LEMMA CursorLeaves ==
  ASSUME NEW h, NEW fonts \in SUBSET Fonts, NEW f \in Icons
  PROVE  Leaves(UsersOf(h, fonts, f), UsersOf(h, fonts, Null), "cursor", f)
<1>1. "cursor" \notin Slots /\ "cursor" \notin fonts /\ Null \notin Resources
      /\ f \in Resources /\ f \notin Fonts
  BY KindsAssumption DEF File, Resources
<1>2. ASSUME NEW g \in Resources
      PROVE  UsersAt(h, fonts, Null, g) =
               IF g = f THEN UsersAt(h, fonts, f, g) \ {"cursor"} ELSE UsersAt(h, fonts, f, g)
  BY <1>1 DEF UsersAt
<1>3. UsersOf(h, fonts, Null) = [UsersOf(h, fonts, f) EXCEPT ![f] = @ \ {"cursor"}]
  BY <1>1, <1>2 DEF UsersOf
<1>4. "cursor" \in UsersOf(h, fonts, f)[f]
  BY <1>1 DEF UsersOf, UsersAt
<1> QED
  BY <1>1, <1>3, <1>4 DEF Leaves, WithoutNow
-----------------------------------------------------------------------------
(* The refinement: step by step *)

\* What an open program's users see.
LEMMA OpenView ==
  ASSUME HInv, phase = "open"
  PROVE  /\ UsersNow = UsersOf(held, Glyphed(object), CursorFile(object, IconOf(stack, cursor)))
         /\ LoadedNow = UsedIn(UsersNow) /\ Glyphed(object) \subseteq Fonts
         /\ IconOf(stack, cursor) \in Addr \cup {Null}
<1>1. Good(object, cached, held, IconOf(stack, cursor), Null)
  BY OpenGood DEF HInv
<1>2. UsersNow = UsersOf(held, Glyphed(object), CursorFile(object, IconOf(stack, cursor)))
  BY UsersAre
<1>3. LoadedNow = LoadedOf(object, cached)
  BY DEF LoadedNow, LoadedOf
<1>4. LoadedOf(object, cached) =
        UsedIn(UsersOf(held, Glyphed(object), CursorFile(object, IconOf(stack, cursor))))
  BY <1>1, UsedIsLoaded
<1>5. Glyphed(object) \subseteq Fonts
  BY <1>1, GlyphedFacts DEF Good, HeldAlive
<1> QED
  BY <1>1, <1>2, <1>3, <1>4, <1>5 DEF Good

LEMMA OpenViewNext ==
  ASSUME HInv', phase' = "open"
  PROVE  /\ UsersNow' = UsersOf(held', Glyphed(object'), CursorFile(object', IconOf(stack', cursor')))
         /\ LoadedNow' = UsedIn(UsersNow')
<1>1. UsersNow' = UsersOf(held', Glyphed(object'), CursorFile(object', IconOf(stack', cursor')))
  BY UsersAreNext
<1>2. Good(object', cached', held', IconOf(stack', cursor'), Null)
  BY GoodNext
<1>3. LoadedNow' = LoadedOf(object', cached')
  BY DEF LoadedNow, LoadedOf
<1>4. PICK heap, list, h, icon : heap = object' /\ list = cached' /\ h = held'
                                 /\ icon = IconOf(stack', cursor')
  OBVIOUS
<1>5. LoadedOf(heap, list) = UsedIn(UsersOf(h, Glyphed(heap), CursorFile(heap, icon)))
  BY <1>2, <1>4, UsedIsLoaded
<1> QED
  BY <1>1, <1>3, <1>4, <1>5

LEMMA JoinStep ==
  ASSUME HInv, HInv', phase = "open", phase' = "open", NEW f \in Resources, NEW u,
         \/ u \in Slots
         \/ u \in Fonts /\ f = Glyph[u]
         \/ u = "cursor" /\ f \in Pointers,
         Joins(UsersNow, UsersNow', u, f)
  PROVE  Cache!Next
BY OpenViewNext, StepAcquire DEF OpenNow, Joins

LEMMA QuietStep ==
  ASSUME HInv, HInv', phase = "open", phase' = "open", UsersNow' = UsersNow
  PROVE  UNCHANGED Cache!vars
<1>1. LoadedNow' = LoadedNow
  BY OpenView, OpenViewNext
<1> QED
  BY <1>1, StepNothing DEF OpenNow

\* Every file has one object, whether cached or being loaded.
LEMMA OneEach ==
  ASSUME HInv, phase = "open", NEW a \in Addr, NEW b \in Addr,
         object[a] # Free, object[b] # Free, object[a].file = object[b].file
  PROVE  a = b
<1>1. /\ Building(stack, object, cached) /\ stack \in Seq(Frame) /\ ShapeOf(stack)
      /\ Loading(stack, object, cached) /\ CachedOnce
  BY OpenGood DEF HInv, Inv, Heap
<1>2. ASSUME NEW i \in 1..Len(stack), NEW j \in 1..Len(stack), i < j,
             stack[i].kind = "resource", stack[j].kind = "resource"
      PROVE  stack[i].file \in Fonts /\ stack[j].file \in Icons
  <2>1. \A n \in 1..Len(stack) : stack[n] \in Frame /\ Frames(stack, n)
    BY <1>1 DEF ShapeOf
  <2>2. /\ Len(stack) \in Nat /\ i + 1 \in 1..Len(stack) /\ j - 1 \in 1..Len(stack) /\ j > 1
        /\ i + 1 > 1 /\ (i + 1) - 1 = i
    BY <1>1, <1>2
  <2>3. ASSUME NEW n \in 1..Len(stack), n > 1, n <= j PROVE stack[n].kind = "resource"
    BY <1>2, <2>1, <2>3 DEF Frames, Frame
  <2>4. stack[j - 1].kind = "resource" /\ stack[i + 1].kind = "resource"
    <3>1. j - 1 = i \/ j - 1 > 1
      BY <1>2, <2>2
    <3> QED
      BY <1>2, <2>2, <2>3, <3>1
  <2>5. Frames(stack, j) /\ Frames(stack, i + 1)
    BY <2>1, <2>2
  <2>6. stack[j].file \in Icons
    BY <1>2, <2>2, <2>4, <2>5 DEF Frames
  <2>7. stack[i].file \in Fonts
    BY <1>2, <2>2, <2>4, <2>5 DEF Frames
  <2> QED
    BY <2>6, <2>7
<1>3. ASSUME NEW c \in Addr, object[c] # Free
      PROVE  c \in cached \/ \E i \in 1..Len(stack) : /\ stack[i].kind = "resource"
                                                     /\ stack[i].obj = c
                                                     /\ stack[i].file = object[c].file
                                                     /\ \A d \in cached : object[d].file # object[c].file
  BY <1>1, <1>3 DEF Building, Loading
<1>4. CASE a \in cached /\ b \in cached
  BY <1>1, <1>4 DEF CachedOnce
<1>5. CASE a \notin cached /\ b \notin cached
  <2>1. PICK i \in 1..Len(stack) : /\ stack[i].kind = "resource" /\ stack[i].obj = a
                                   /\ stack[i].file = object[a].file
    BY <1>3, <1>5
  <2>2. PICK j \in 1..Len(stack) : /\ stack[j].kind = "resource" /\ stack[j].obj = b
                                   /\ stack[j].file = object[b].file
    BY <1>3, <1>5
  <2>3. ~(i < j) /\ ~(j < i)
    BY <1>2, <2>1, <2>2, KindsAssumption
  <2>4. i = j
    BY <1>1, <2>3
  <2> QED
    BY <2>1, <2>2, <2>4
<1> QED
  BY <1>3, <1>4, <1>5

LEMMA ViewSame ==
  ASSUME NEW heap, NEW heap2, NEW icon \in Addr \cup {Null}, SameObjects(heap, heap2)
  PROVE  Glyphed(heap2) = Glyphed(heap) /\ CursorFile(heap2, icon) = CursorFile(heap, icon)
BY DEF Glyphed, CursorFile, SameObjects

LEMMA GlyphAdded ==
  ASSUME NEW heap, NEW heap2, NEW t \in Addr, heap2[t].glyph # Null,
         \A b \in Addr : heap2[b].file = heap[b].file, heap[t].glyph = Null,
         \A b \in Addr \ {t} : heap2[b].glyph = heap[b].glyph, NEW icon \in Addr \cup {Null}
  PROVE  /\ Glyphed(heap2) = Glyphed(heap) \cup {heap[t].file}
         /\ CursorFile(heap2, icon) = CursorFile(heap, icon)
BY DEF Glyphed, CursorFile

\* A slot that is filled comes to use what it is filled with.
LEMMA DeliveredStep ==
  ASSUME HInv, HInv', phase = "open", phase' = "open", NEW a \in Addr, NEW f \in Resources,
         DeliverToSlot(a, f), SameIcon, NEW new, new = object', SameObjects(object, new)
  PROVE  Cache!Next
<1>1. PICK s \in Slots, h \in [Slots -> Hold] :
        /\ h = held' /\ held[s].obj = Null /\ h[s].obj = a /\ h[s].file = f
        /\ \A t \in Slots \ {s} : h[t] = held[t]
  BY Delivered DEF HInv, Inv
<1>2. held[s].file = Null
  BY <1>1, KindsAssumption DEF HInv, Inv, TypeOK, Hold, Nothing
<1> DEFINE icon == IconOf(stack, cursor)
<1>3. UsersNow = UsersOf(held, Glyphed(object), CursorFile(object, icon))
      /\ icon \in Addr \cup {Null} /\ Glyphed(object) \in SUBSET Fonts
  BY OpenView
<1>4. UsersNow' = UsersOf(h, Glyphed(new), CursorFile(new, icon))
  BY <1>1, OpenViewNext DEF SameIcon
<1> HIDE DEF icon
<1>5. Glyphed(new) = Glyphed(object) /\ CursorFile(new, icon) = CursorFile(object, icon)
  BY <1>3, ViewSame
<1>6. Joins(UsersOf(held, Glyphed(object), CursorFile(object, icon)),
            UsersOf(h, Glyphed(object), CursorFile(object, icon)), s, f)
  BY <1>1, <1>2, <1>3, SlotJoins
<1>7. Joins(UsersNow, UsersNow', s, f)
  BY <1>3, <1>4, <1>5, <1>6
<1> QED
  BY <1>1, <1>7, JoinStep

LEMMA GetHitStep ==
  ASSUME HInv, HInv', NEW f \in Resources, GetHit(f)
  PROVE  Cache!Next
<1>1. phase = "open" /\ phase' = "open" /\ SameIcon
  BY OpenPhase DEF GetHit, Idle, IsTop, HInv, SameIcon
<1>2. object \in Store /\ cached \subseteq Addr /\ \A b \in cached : object[b] # Free
  BY <1>1, OpenGood DEF HInv, Good, HeldAlive
<1>3. PICK a \in Query(f) :
        object' = [object EXCEPT ![a].refs = @ + 1] /\ DeliverToSlot(a, f)
  BY DEF GetHit
<1>4. a \in Addr /\ object[a] # Free
  BY <1>2, <1>3 DEF Query
<1>5. PICK new : new = object' /\ SameObjects(object, new)
  <2> DEFINE up == [object EXCEPT ![a].refs = @ + 1]
  <2>1. SameObjects(object, up)
    BY <1>2, <1>4, RefUpFacts
  <2>2. object' = up
    BY <1>3
  <2> HIDE DEF up
  <2> QED
    BY <2>1, <2>2
<1> QED
  BY <1>1, <1>3, <1>4, <1>5, DeliveredStep

\* A font that gets its glyphs comes to use their icon.
LEMMA ServedStep ==
  ASSUME HInv, HInv', phase = "open", phase' = "open", held' = held, SameIcon,
         NEW t \in Addr, NEW a \in Addr, NEW new, Served(t, a, new)
  PROVE  Cache!Next
<1> DEFINE icon == IconOf(stack, cursor)
           x == object[t].file
<1>1. /\ new = object' /\ object[t] # Free /\ object[t].glyph = Null /\ x \in Fonts
      /\ new[t].glyph = a /\ a # Null
      /\ \A b \in Addr : new[b].file = object[b].file
      /\ \A b \in Addr \ {t} : new[b].glyph = object[b].glyph
  BY KindsAssumption DEF Served
<1>2. UsersNow = UsersOf(held, Glyphed(object), CursorFile(object, icon))
      /\ icon \in Addr \cup {Null} /\ Glyphed(object) \in SUBSET Fonts
  BY OpenView
<1>3. UsersNow' = UsersOf(held, Glyphed(new), CursorFile(new, icon))
  BY <1>1, OpenViewNext DEF SameIcon
<1> HIDE DEF icon
<1>4. Glyphed(new) = Glyphed(object) \cup {x} /\ CursorFile(new, icon) = CursorFile(object, icon)
  <2>1. /\ new[t].glyph # Null /\ object[t].glyph = Null /\ icon \in Addr \cup {Null}
        /\ \A b \in Addr : new[b].file = object[b].file
        /\ \A b \in Addr \ {t} : new[b].glyph = object[b].glyph
    BY <1>1, <1>2
  <2> QED
    BY <2>1, GlyphAdded
<1>5. x \notin Glyphed(object)
  <2> SUFFICES ASSUME NEW b \in Addr, object[b].glyph # Null, object[b].file = x PROVE FALSE
    BY DEF Glyphed
  <2>1. object[b] # Free
    BY DEF Free
  <2> QED
    BY <1>1, <2>1, OneEach
<1> HIDE DEF x
<1>6. Joins(UsersNow, UsersNow', x, Glyph[x])
  BY <1>1, <1>2, <1>3, <1>4, <1>5, FontJoins
<1>7. Glyph[x] \in Resources
  BY <1>1, FilesAssumption DEF Resources
<1> QED
  BY <1>1, <1>6, <1>7, JoinStep

LEMMA GlyphHitStep ==
  ASSUME HInv, HInv', GlyphHit
  PROVE  Cache!Next
<1>1. /\ phase = "open" /\ phase' = "open" /\ held' = held /\ SameIcon
  <2>1. IsTop("resource") /\ UNCHANGED <<stack, held, cursor, phase>>
    BY DEF GlyphHit
  <2>2. phase = "open"
    BY <2>1, TopIsNew DEF HInv
  <2> QED
    BY <2>1, <2>2 DEF SameIcon
<1>2. PICK t \in Addr, a \in cached, new \in Store : Served(t, a, new)
  BY GlyphHitFacts DEF HInv
<1>3. a \in Addr
  BY <1>2 DEF HInv, Inv, TypeOK
<1> QED
  BY <1>1, <1>2, <1>3, ServedStep

\* Who merely reads, and what is still being loaded, changes nothing for anybody.
LEMMA SameStep ==
  ASSUME HInv, HInv', phase = "open", phase' = "open", object' = object, held' = held, SameIcon
  PROVE  UNCHANGED Cache!vars
<1>1. UsersNow' = UsersNow
  BY OpenView, OpenViewNext DEF SameIcon
<1> QED
  BY <1>1, QuietStep

LEMMA BuildSame ==
  ASSUME NEW heap \in Store, NEW new, NEW a \in Addr, heap[a] = Free, new[a].glyph = Null,
         \A b \in Addr \ {a} : new[b] = heap[b], NEW icon \in Addr \cup {Null}, icon # a
  PROVE  Glyphed(new) = Glyphed(heap) /\ CursorFile(new, icon) = CursorFile(heap, icon)
<1>1. heap[a].glyph = Null
  BY DEF Free
<1> QED
  BY <1>1 DEF Glyphed, CursorFile

LEMMA ConstructStep ==
  ASSUME HInv, HInv', phase = "open", phase' = "open", NEW f \in Resources, NEW callers,
         Construct(object, f, callers), held' = held, SameIcon
  PROVE  UNCHANGED Cache!vars
<1> DEFINE icon == IconOf(stack, cursor)
<1>1. object \in Store /\ IconAlive(object, cached, icon) /\ \A b \in cached : object[b] # Free
  BY OpenGood DEF HInv, Good, HeldAlive
<1>2. PICK a \in Addr, new \in Store :
        /\ object[a] = Free /\ new = object' /\ new[a].glyph = Null
        /\ \A b \in Addr \ {a} : new[b] = object[b]
  BY <1>1, Built
<1>3. icon # a
  BY <1>1, <1>2, KindsAssumption DEF IconAlive
<1>4. UsersNow = UsersOf(held, Glyphed(object), CursorFile(object, icon)) /\ icon \in Addr \cup {Null}
  BY OpenView
<1>5. UsersNow' = UsersOf(held, Glyphed(new), CursorFile(new, icon))
  BY <1>2, OpenViewNext DEF SameIcon
<1> HIDE DEF icon
<1>6. Glyphed(new) = Glyphed(object) /\ CursorFile(new, icon) = CursorFile(object, icon)
  BY <1>1, <1>2, <1>3, <1>4, BuildSame
<1> QED
  BY <1>4, <1>5, <1>6, QuietStep

LEMMA LoadingStep ==
  ASSUME HInv, HInv',
         \/ \E f \in Resources : GetMiss(f) \/ WidgetGetMiss(f)
         \/ \E w \in Windows : OpenWindow(w)
         \/ GlyphMiss \/ Read \/ WindowRead \/ PointerDrawn
  PROVE  UNCHANGED Cache!vars
<1>1. Inv /\ Kept
  BY DEF HInv
<1>2. ASSUME NEW f \in Resources, GetMiss(f) \/ WidgetGetMiss(f) PROVE UNCHANGED Cache!vars
  <2>1. phase = "open" /\ phase' = phase /\ held' = held /\ Construct(object, f, stack)
    BY <1>1, <1>2, OpenPhase DEF GetMiss, WidgetGetMiss, Idle, IsTop
  <2> QED
    BY <1>1, <1>2, <2>1, MissKept, ConstructStep
<1>3. ASSUME NEW w \in Windows, OpenWindow(w) PROVE UNCHANGED Cache!vars
  <2>1. phase = "open" /\ phase' = phase /\ held' = held /\ object' = object
    BY <1>3 DEF OpenWindow, Idle
  <2> QED
    BY <1>1, <1>3, <2>1, OpenWindowKept, SameStep
<1>4. CASE GlyphMiss
  <2>1. phase = "open" /\ phase' = phase /\ held' = held
        /\ Construct(object, Glyph[Top.file], stack) /\ Top.file \in Fonts
    BY <1>1, <1>4, OpenPhase DEF GlyphMiss, IsTop
  <2>2. PICK f \in Resources : f = Glyph[Top.file]
    BY <2>1, FilesAssumption DEF Resources
  <2> QED
    BY <1>1, <1>4, <2>1, <2>2, MissKept, ConstructStep
<1>5. CASE Read
  <2>1. phase = "open" /\ phase' = phase /\ held' = held /\ object' = object
    BY <1>1, <1>5, OpenPhase DEF Read
  <2> QED
    BY <1>1, <1>5, <2>1, ReadKept, SameStep
<1>6. CASE WindowRead \/ PointerDrawn
  <2>1. phase = "open" /\ phase' = phase /\ held' = held /\ object' = object
    BY <1>1, <1>6, OpenPhase DEF WindowRead, PointerDrawn, IsTop
  <2> QED
    BY <1>1, <1>6, <2>1, PlainEndKept, SameStep
<1> QED
  BY <1>2, <1>3, <1>4, <1>5, <1>6

\* A cursor that has no icon gets one.
LEMMA IconTaken ==
  ASSUME HInv, HInv', phase = "open", phase' = "open", held' = held,
         IconOf(stack, cursor) = Null, NEW a \in Addr, IconOf(stack', cursor') = a,
         NEW new, new = object', Glyphed(new) = Glyphed(object),
         new[a].file \in Pointers
  PROVE  Cache!Next
<1> DEFINE fonts == Glyphed(object)
           f == new[a].file
<1>1. f \in Resources
  BY FilesAssumption DEF Pointers, Resources
<1>2. UsersNow = UsersOf(held, fonts, Null) /\ fonts \in SUBSET Fonts
  BY OpenView DEF CursorFile
<1>3. UsersNow' = UsersOf(held, fonts, f)
  <2>1. CursorFile(new, a) = f
    BY KindsAssumption DEF CursorFile
  <2> QED
    BY <2>1, OpenViewNext
<1> HIDE DEF fonts, f
<1>4. Joins(UsersNow, UsersNow', "cursor", f)
  BY <1>1, <1>2, <1>3, CursorJoins
<1> QED
  BY <1>1, <1>4, JoinStep DEF f

LEMMA LoadedStep ==
  ASSUME HInv, HInv', Loaded
  PROVE  Cache!Next
<1>1. /\ IsTop("resource") /\ cached' = cached \cup {Top.obj} /\ phase' = phase
  BY DEF Loaded
<1>2. PICK a \in Addr, f \in Resources : a = Top.obj /\ f = Top.file
  BY <1>1, TopIsNew DEF HInv
<1>3. Inv /\ Kept /\ phase = "open" /\ object[a].file = f
  BY <1>1, <1>2, TopIsNew DEF HInv
<1>4. Building(stack, object, cached)
  BY <1>3, OpenGood
<1>5. ASSUME stack' = Below, UNCHANGED cursor, Below = <<>> \/ Below[Len(Below)].kind # "cursor"
      PROVE  SameIcon
  <2>1. ~Waiting(stack)
    BY <1>1, <1>3, <1>5, TopIsNew, BelowTop, NoCursor
  <2>2. ~Waiting(Below)
    BY <1>1, <1>3, <1>4, <2>1, PopLoad
  <2> QED
    BY <1>5, <2>1, <2>2 DEF SameIcon, IconOf
<1>6. CASE /\ DeliverToSlot(a, f) /\ stack' = Below /\ UNCHANGED <<object, cursor>>
           /\ Below = <<>> \/ Below[Len(Below)].kind # "cursor"
  <2>1. PICK new : new = object' /\ SameObjects(object, new)
    BY <1>6 DEF SameObjects
  <2> QED
    BY <1>1, <1>3, <1>5, <1>6, <2>1, DeliveredStep
<1>7. CASE /\ Below # <<>> /\ Below[Len(Below)].kind = "resource"
           /\ object' = [object EXCEPT ![Below[Len(Below)].obj].glyph = a]
           /\ stack' = Below /\ UNCHANGED <<held, cursor>>
  <2>1. PICK t \in Addr, new \in Store : Served(t, a, new)
    BY <1>1, <1>2, <1>3, <1>7, GlyphLoadedFacts
  <2> QED
    BY <1>1, <1>3, <1>5, <1>7, <2>1, ServedStep
<1>8. CASE /\ Below # <<>> /\ Below[Len(Below)].kind = "cursor"
           /\ cursor' = [cursor EXCEPT !.icon = a]
           /\ stack' = SubSeq(stack, 1, Len(stack) - 2) /\ UNCHANGED <<object, held>>
  <2>1. Waiting(stack) /\ f \in Pointers /\ IconOf(stack', cursor') = a
    BY <1>1, <1>2, <1>3, <1>8, IconLoaded
  <2>2. IconOf(stack, cursor) = Null
    BY <2>1 DEF IconOf
  <2>3. PICK new : new = object
    OBVIOUS
  <2> QED
    BY <1>1, <1>3, <1>8, <2>1, <2>2, <2>3, IconTaken
<1>9. \/ /\ DeliverToSlot(a, f) /\ stack' = Below /\ UNCHANGED <<object, cursor>>
         /\ Below = <<>> \/ Below[Len(Below)].kind # "cursor"
      \/ /\ Below # <<>> /\ Below[Len(Below)].kind = "resource"
         /\ object' = [object EXCEPT ![Below[Len(Below)].obj].glyph = a]
         /\ stack' = Below /\ UNCHANGED <<held, cursor>>
      \/ /\ Below # <<>> /\ Below[Len(Below)].kind = "cursor"
         /\ cursor' = [cursor EXCEPT !.icon = a]
         /\ stack' = SubSeq(stack, 1, Len(stack) - 2) /\ UNCHANGED <<object, held>>
  BY <1>2 DEF Loaded
<1> QED
  BY <1>6, <1>7, <1>8, <1>9

\* Which glyphs are left when an object is deleted.
LEMMA DeletedGlyphs ==
  ASSUME NEW heap \in Store, NEW list, GlyphsAlive(heap, list), NEW a \in Addr, phase = "open",
         NEW new \in Store, new = Delete(heap, a)
  PROVE  new[a] = Free /\ \A b \in Addr \ {a} : new[b].glyph = heap[b].glyph
<1>1. PICK rest \in Store : /\ rest = [heap EXCEPT ![a] = Free] /\ rest[a] = Free
                            /\ \A b \in Addr \ {a} : rest[b] = heap[b]
  <2>1. PICK rest \in Store : rest = [heap EXCEPT ![a] = Free]
    BY FreeShrinks DEF Shrinks
  <2> QED
    BY <2>1 DEF Store
<1>2. PICK g \in Addr \cup {Null} : g = heap[a].glyph
  BY FreeOrObject
<1>3. new = IF g = Null THEN rest ELSE DisposeIcon(rest, g)
  BY <1>1, <1>2 DEF Delete
<1>4. CASE g = Null
  BY <1>1, <1>3, <1>4
<1>5. CASE g # Null
  <2>1. g \in Addr /\ new = DisposeIcon(rest, g)
    BY <1>2, <1>3, <1>5
  <2>2. heap[g].glyph = Null /\ g # a
    BY <1>2, <1>5, <2>1, FilesAssumption, KindsAssumption DEF GlyphsAlive
  <2>3. \A b \in Addr : rest[b].glyph = IF b = a THEN Null ELSE heap[b].glyph
    BY <1>1 DEF Free
  <2>4. \A b \in Addr \ {g} : new[b] = rest[b]
    BY <2>1 DEF DisposeIcon, Unreference, Store
  <2>5. new[g].glyph = Null
    <3>1. CASE rest[g].refs > 1
      <4>1. Shrinks(rest, new)
        BY <2>1, DisposeIconShrinks
      <4>2. rest[g] \in Object
        BY <2>1, <3>1, FreeOrObject
      <4>3. new = [rest EXCEPT ![g] = [rest[g] EXCEPT !.refs = @ - 1]]
        BY <2>1, <3>1 DEF DisposeIcon, Unreference, Store
      <4>4. new[g].glyph = rest[g].glyph
        BY <2>1, <4>2, <4>3 DEF Store, Object
      <4> QED
        BY <2>1, <2>2, <2>3, <4>4
    <3>2. CASE ~(rest[g].refs > 1)
      <4>1. new[g] = Free
        BY <2>1, <3>2 DEF DisposeIcon, Store
      <4> QED
        BY <4>1 DEF Free
    <3> QED
      BY <3>1, <3>2
  <2> QED
    BY <1>1, <2>2, <2>3, <2>4, <2>5
<1> QED
  BY <1>4, <1>5

\* Of a heap with one object for every file, what is given back takes its glyphs
\* with it, and nothing else that anybody sees.
LEMMA DisposedView ==
  ASSUME NEW heap, NEW list, NEW h, NEW icon, NEW a \in Addr, phase = "open",
         Good(heap, list, h, icon, a), a \in list,
         \A b, c \in Addr : heap[b] # Free /\ heap[c] # Free /\ heap[b].file = heap[c].file => b = c,
         NEW new \in Store, new = Dispose(heap, a), NEW f, f = heap[a].file,
         NEW us, us = UsersOf(h, Glyphed(heap), CursorFile(heap, icon))
  PROVE  /\ Glyphed(new) = FontsLeft(us, f, Glyphed(heap))
         /\ CursorFile(new, icon) = CursorFile(heap, icon)
<1>1. /\ heap \in Store /\ list \subseteq Addr /\ \A c \in list : heap[c] # Free
      /\ GlyphsAlive(heap, list) /\ a # Null /\ icon \in Addr \cup {Null}
  BY KindsAssumption DEF Good, HeldAlive
<1>2. PICK left : left = LeftOf(list, new) /\ Good(new, left, h, icon, Null)
  BY DisposeGood
<1>3. LoadedOf(new, left) = UsedIn(UsersOf(h, Glyphed(new), CursorFile(new, icon)))
  BY <1>2, UsedIsLoaded
<1>4. Shrinks(heap, new)
  BY <1>1, DisposeShrinks
<1>5. CursorFile(new, icon) = CursorFile(heap, icon)
  <2>1. CASE icon = Null
    BY <2>1 DEF CursorFile
  <2>2. CASE icon \in Addr
    <3>1. new[icon] # Free
      BY <1>2, <2>2, KindsAssumption DEF Good, HeldAlive, IconAlive
    <3> QED
      BY <1>4, <2>2, <3>1 DEF CursorFile, Shrinks
  <2> QED
    BY <1>1, <2>1, <2>2
<1>6. f \in Resources
  BY <1>1, FreeOrObject DEF Object
<1>7. CASE heap[a].refs > 1
  <2>1. heap[a] \in Object
    BY <1>1, FreeOrObject
  <2>2. new = [heap EXCEPT ![a] = [heap[a] EXCEPT !.refs = @ - 1]]
    BY <1>1, <1>7 DEF Dispose, Unreference, Store
  <2>3. new[a].file = heap[a].file /\ new[a].glyph = heap[a].glyph
        /\ \A b \in Addr \ {a} : new[b] = heap[b]
    BY <1>1, <2>1, <2>2 DEF Store, Object
  <2>4. \A b \in Addr : new[b].file = heap[b].file /\ new[b].glyph = heap[b].glyph
    BY <2>3
  <2>5. Glyphed(new) = Glyphed(heap)
    BY <2>4 DEF Glyphed
  <2>6. f \in LoadedOf(new, left)
    <3>1. new[a] # Free
      BY <1>6, <2>3, KindsAssumption DEF Free, File
    <3> QED
      BY <1>2, <2>3, <3>1 DEF LeftOf, LoadedOf
  <2>7. us[f] # {}
    BY <1>3, <1>5, <2>5, <2>6 DEF UsedIn
  <2> QED
    BY <1>5, <2>5, <2>7 DEF FontsLeft
<1>8. CASE ~(heap[a].refs > 1)
  <2>1. new = Delete(heap, a)
    BY <1>1, <1>8 DEF Dispose
  <2>2. new[a] = Free /\ \A b \in Addr \ {a} : new[b].glyph = heap[b].glyph
    BY <1>1, <2>1, DeletedGlyphs
  <2>3. \A b \in Addr : new[b].glyph # Null => b # a /\ new[b].file = heap[b].file
    BY <1>4, <2>2 DEF Shrinks, Free
  <2>4. \A b \in Addr : heap[b].glyph # Null => heap[b] # Free /\ heap[b].file \in Fonts
    BY <1>1 DEF GlyphsAlive, Free
  <2>5. Glyphed(new) = Glyphed(heap) \ {f}
    <3>1. ASSUME NEW b \in Addr, new[b].glyph # Null
          PROVE  heap[b].glyph # Null /\ new[b].file = heap[b].file /\ heap[b].file # f
      <4>1. b # a /\ heap[b].glyph # Null /\ new[b].file = heap[b].file
        BY <2>2, <2>3, <3>1
      <4> QED
        BY <1>1, <2>4, <4>1
    <3>2. ASSUME NEW b \in Addr, heap[b].glyph # Null, heap[b].file # f
          PROVE  new[b].glyph # Null /\ new[b].file = heap[b].file
      BY <2>2, <2>3, <3>2
    <3> QED
      BY <3>1, <3>2 DEF Glyphed
  <2>6. f \notin LoadedOf(new, left)
    <3> SUFFICES ASSUME NEW b \in left, new[b].file = f PROVE FALSE
      BY DEF LoadedOf
    <3>1. b \in Addr /\ new[b] # Free /\ b # a
      BY <1>1, <1>2, <2>2 DEF LeftOf
    <3>2. heap[b] # Free /\ heap[b].file = f
      BY <1>4, <3>1 DEF Shrinks
    <3> QED
      BY <1>1, <3>1, <3>2
  <2>7. UsersAt(h, Glyphed(new), CursorFile(new, icon), f) = {}
    BY <1>3, <1>6, <2>6 DEF UsedIn, UsersOf
  <2>8. CASE f \in Fonts
    <3>1. \A g \in Glyphed(heap) : Glyph[g] # f
      BY <1>1, <2>8, GlyphedFacts, FilesAssumption, KindsAssumption
    <3>2. us[f] = {}
      BY <1>5, <1>6, <2>7, <3>1 DEF UsersOf, UsersAt
    <3> QED
      BY <1>5, <2>5, <2>8, <3>2 DEF FontsLeft
  <2>9. CASE f \notin Fonts
    <3>1. f \notin Glyphed(heap)
      BY <1>1, <2>9, GlyphedFacts
    <3> QED
      BY <1>5, <2>5, <2>9, <3>1 DEF FontsLeft
  <2> QED
    BY <2>8, <2>9
<1> QED
  BY <1>7, <1>8

\* A slot that is emptied drops what it used.
LEMMA ReleaseStep ==
  ASSUME HInv, HInv', NEW s \in Slots, Release(s)
  PROVE  Cache!Next
<1>1. /\ phase = "open" /\ phase' = "open" /\ object' = Dispose(object, held[s].obj) /\ SameIcon
  BY DEF Release, Idle, SameIcon
<1> DEFINE icon == IconOf(stack, cursor)
<1>2. PICK a \in Addr, h \in [Slots -> Hold] :
           /\ a \in cached /\ a = held[s].obj /\ object[a].file = held[s].file
           /\ h = held' /\ h[s] = Nothing /\ \A t \in Slots \ {s} : h[t] = held[t]
           /\ Good(object, cached, h, icon, a)
  BY SlotOwes DEF HInv
<1>3. PICK new \in Store : new = object' /\ new = Dispose(object, a)
  BY <1>1, <1>2 DEF HInv, Inv, TypeOK, Store
<1>4. PICK f \in Resources : f = object[a].file
  BY <1>2, FreeOrObject DEF Good, HeldAlive, Object
<1>5. UsersNow = UsersOf(held, Glyphed(object), CursorFile(object, icon))
      /\ Glyphed(object) \in SUBSET Fonts
  BY <1>1, OpenView
<1>6. UsersNow' = UsersOf(h, Glyphed(new), CursorFile(new, icon)) /\ LoadedNow' = UsedIn(UsersNow')
  BY <1>1, <1>2, <1>3, OpenViewNext DEF SameIcon
<1> HIDE DEF icon
<1>7. PICK us : us = UsersOf(h, Glyphed(object), CursorFile(object, icon))
  OBVIOUS
<1>8. /\ Glyphed(new) = FontsLeft(us, f, Glyphed(object))
      /\ CursorFile(new, icon) = CursorFile(object, icon)
  <2>1. \A b, c \in Addr :
          object[b] # Free /\ object[c] # Free /\ object[b].file = object[c].file => b = c
    BY <1>1, OneEach
  <2> QED
    <3>1. /\ phase = "open" /\ Good(object, cached, h, icon, a) /\ a \in cached
          /\ new \in Store /\ new = Dispose(object, a) /\ f = object[a].file
      BY <1>1, <1>2, <1>3, <1>4
    <3> QED
      BY <1>7, <2>1, <3>1, DisposedView
<1>9. held[s].file = f /\ h[s].file = Null
  BY <1>2, <1>4 DEF Nothing
<1>10. Leaves(UsersNow, UsersNow', s, f)
  <2>1. PICK fonts, cf : /\ fonts \in SUBSET Fonts
                         /\ fonts = Glyphed(object) /\ cf = CursorFile(object, icon)
    BY <1>5
  <2>2. PICK fonts2 : fonts2 = Glyphed(new) /\ fonts2 = FontsLeft(UsersOf(h, fonts, cf), f, fonts)
    BY <1>7, <1>8, <2>1
  <2>3. held[s].file = f /\ h[s].file = Null /\ \A t \in Slots \ {s} : h[t] = held[t]
    BY <1>2, <1>9
  <2>4. Leaves(UsersOf(held, fonts, cf), UsersOf(h, fonts2, cf), s, f)
    BY <1>4, <2>1, <2>2, <2>3, SlotLeaves
  <2> QED
    BY <1>5, <1>6, <1>8, <2>1, <2>2, <2>4
<1> QED
  BY <1>1, <1>6, <1>10, StepDrop DEF OpenNow, Leaves

\* The heap once the cursor has given up its icon i.
LEMMA IconLeaves ==
  ASSUME HInv, stack = <<>>, phase = "open", NEW i \in Addr, i = cursor.icon,
         NEW heap \in Store, heap = Dispose(object, i)
  PROVE  /\ Glyphed(heap) = Glyphed(object) /\ object[i].file \in Pointers
         /\ UsersNow = UsersOf(held, Glyphed(object), object[i].file)
         /\ Leaves(UsersNow, UsersOf(held, Glyphed(object), Null), "cursor", object[i].file)
<1>1. /\ i \in cached /\ object[i].file \in Pointers /\ i = IconOf(stack, cursor)
      /\ Good(object, cached, held, Null, i)
  BY CursorOwes DEF HInv
<1>2. PICK f \in Icons : f = object[i].file
  BY <1>1, FilesAssumption DEF Pointers
<1>3. Glyphed(heap) = Glyphed(object)
  <2>1. \A b, c \in Addr :
          object[b] # Free /\ object[c] # Free /\ object[b].file = object[c].file => b = c
    BY OneEach
  <2> QED
    BY <1>1, <1>2, <2>1, DisposedView, KindsAssumption DEF FontsLeft
<1>4. UsersNow = UsersOf(held, Glyphed(object), f) /\ Glyphed(object) \in SUBSET Fonts
  BY <1>1, <1>2, OpenView, KindsAssumption DEF CursorFile
<1>5. Leaves(UsersNow, UsersOf(held, Glyphed(object), Null), "cursor", f)
  BY <1>4, CursorLeaves
<1> QED
  BY <1>1, <1>2, <1>3, <1>4, <1>5

\* The cursor exchanges its icon for a that is cached.
LEMMA IconExchanged ==
  ASSUME HInv, HInv', stack = <<>>, phase = "open", phase' = "open", held' = held,
         NEW i \in Addr, i = cursor.icon, NEW heap \in Store, heap = Dispose(object, i),
         NEW a \in Addr, IconOf(stack', cursor') = a, NEW new, new = object',
         SameObjects(heap, new), new[a].file \in Pointers, new[a].file \in LoadedNow
  PROVE  Cache!Next
<1> DEFINE fonts == Glyphed(object)
<1>1. PICK f \in Resources, g \in Resources : f = object[i].file /\ g = new[a].file
  <2>1. object[i].file \in Pointers
    BY IconLeaves
  <2> QED
    BY <2>1, FilesAssumption DEF Pointers, Resources
<1>2. /\ Glyphed(heap) = fonts /\ Leaves(UsersNow, UsersOf(held, fonts, Null), "cursor", f)
  BY <1>1, IconLeaves
<1>3. Glyphed(new) = fonts /\ CursorFile(new, a) = g /\ fonts \in SUBSET Fonts
  <2>1. Glyphed(new) = Glyphed(heap)
    BY DEF Glyphed, SameObjects
  <2>2. CursorFile(new, a) = g
    BY <1>1, KindsAssumption DEF CursorFile
  <2> QED
    BY <1>2, <2>1, <2>2, OpenView
<1>4. UsersNow' = UsersOf(held, fonts, g) /\ LoadedNow' = UsedIn(UsersNow')
  BY <1>3, OpenViewNext
<1> HIDE DEF fonts
<1>5. Joins(UsersOf(held, fonts, Null), UsersOf(held, fonts, g), "cursor", g)
  BY <1>1, <1>3, CursorJoins
<1>6. UsersNow' = [WithoutNow(UsersNow, "cursor", f) EXCEPT ![g] = @ \cup {"cursor"}]
  BY <1>2, <1>4, <1>5 DEF Joins, Leaves
<1>7. "cursor" \in UsersNow[f] /\ g \in Pointers /\ g \in LoadedNow
  BY <1>1, <1>2 DEF Leaves
<1> QED
  BY <1>4, <1>6, <1>7, StepExchange DEF OpenNow

\* The cursor gives up its icon, and has yet to load another.
LEMMA IconDropped ==
  ASSUME HInv, HInv', stack = <<>>, phase = "open", phase' = "open", held' = held,
         NEW i \in Addr, i = cursor.icon, NEW heap \in Store, heap = Dispose(object, i),
         IconOf(stack', cursor') = Null, NEW new, new = object', Glyphed(new) = Glyphed(heap)
  PROVE  Cache!Next
<1> DEFINE fonts == Glyphed(object)
<1>1. PICK f \in Resources : f = object[i].file
  <2>1. object[i].file \in Pointers
    BY IconLeaves
  <2> QED
    BY <2>1, FilesAssumption DEF Pointers, Resources
<1>2. Glyphed(heap) = fonts /\ Leaves(UsersNow, UsersOf(held, fonts, Null), "cursor", f)
  BY <1>1, IconLeaves
<1>3. UsersNow' = UsersOf(held, fonts, Null) /\ LoadedNow' = UsedIn(UsersNow')
  BY <1>2, OpenViewNext DEF CursorFile
<1> HIDE DEF fonts
<1>4. "cursor" \in UsersNow[f] /\ UsersNow' = WithoutNow(UsersNow, "cursor", f)
  BY <1>2, <1>3 DEF Leaves
<1> QED
  BY <1>3, <1>4, StepDrop DEF OpenNow

\* SetPointer waits while the constructor of its icon runs.
LEMMA PushedWait ==
  ASSUME NEW heap \in Store, NEW f \in Resources, stack = <<>>,
         Construct(heap, f, Append(stack, FrameFor("cursor", Null, Null)))
  PROVE  Waiting(stack')
<1>1. PICK wait \in Frame : wait = FrameFor("cursor", Null, Null) /\ wait.kind = "cursor"
  BY FrameForType
<1>2. PICK callers : callers = Append(<<>>, wait)
  OBVIOUS
<1>3. PICK fr \in Frame : stack' = Append(callers, fr)
  <2>1. Construct(heap, f, callers)
    BY <1>1, <1>2
  <2> QED
    BY <2>1, Built
<1>4. callers \in Seq(Frame) /\ Len(callers) = 1 /\ callers[1] = wait
  BY <1>1, <1>2, PushOnNone
<1>5. PICK st : st = Append(callers, fr)
  OBVIOUS
<1>6. Len(st) = 2 /\ st[1] = wait
  BY <1>3, <1>4, <1>5, PushOnOne
<1> QED
  BY <1>1, <1>3, <1>5, <1>6 DEF Waiting

LEMMA ReplaceIconStep ==
  ASSUME HInv, HInv', NEW c \in Cursors, stack = <<>>, phase = "open", ReplaceIcon(c)
  PROVE  Cache!Next \/ UNCHANGED Cache!vars
<1>1. Inv /\ Kept /\ phase' = "open" /\ held' = held
  BY DEF HInv, ReplaceIcon
<1>2. PICK i \in Addr \cup {Null} : i = cursor.icon
  BY <1>1, OpenGood
<1>3. PICK heap \in Store :
           /\ heap = Dispose(object, i) /\ Shrinks(object, heap)
           /\ Good(heap, StillCached(heap), held, Null, Null)
  BY <1>1, <1>2, IconGivenBack
<1>4. PICK f \in Resources : f = ColorIcon[c] /\ f \in Pointers
  BY FilesAssumption DEF Resources, Pointers
<1>5. i = Null => heap = object
  BY <1>3 DEF Dispose
<1>6. ~Waiting(stack) /\ IconOf(stack, cursor) = i
  BY <1>1, <1>2, NoCursor DEF IconOf
<1>7. ASSUME NEW a \in StillCached(heap), heap[a].file = f,
             object' = [heap EXCEPT ![a].refs = @ + 1],
             cursor' = [icon |-> a, category |-> c, color |-> TRUE],
             UNCHANGED <<stack, position>>
      PROVE  Cache!Next
  <2>1. a \in Addr /\ heap[a] # Free /\ a \in cached
    BY <1>3, <1>7 DEF Good, HeldAlive, StillCached
  <2>2. PICK new : new = object' /\ SameObjects(heap, new)
    <3> DEFINE up == [heap EXCEPT ![a].refs = @ + 1]
    <3>1. SameObjects(heap, up)
      BY <2>1, RefUpFacts
    <3>2. object' = up
      BY <1>7
    <3> HIDE DEF up
    <3> QED
      BY <3>1, <3>2
  <2>3. new[a].file = f /\ object[a].file = f
    BY <1>3, <1>7, <2>1, <2>2 DEF SameObjects, Shrinks
  <2>4. new[a].file \in Pointers /\ new[a].file \in LoadedNow
    BY <1>4, <2>1, <2>3 DEF LoadedNow
  <2>5. cursor'.icon = a
    <3>1. PICK yes : cursor' = [icon |-> a, category |-> c, color |-> yes]
      BY <1>7, Zenon
    <3> QED
      BY <3>1
  <2>6. IconOf(stack', cursor') = a
    BY <1>6, <1>7, <2>5 DEF IconOf
  <2>7. CASE i = Null
    <3>1. Glyphed(new) = Glyphed(object)
      BY <1>5, <2>2, <2>7 DEF Glyphed, SameObjects
    <3> QED
      BY <1>1, <1>6, <2>1, <2>2, <2>4, <2>6, <2>7, <3>1, IconTaken
  <2>8. CASE i \in Addr
    BY <1>1, <1>2, <1>3, <2>1, <2>2, <2>4, <2>6, <2>8, IconExchanged
  <2> QED
    BY <2>7, <2>8
<1>8. ASSUME Construct(heap, f, Append(stack, FrameFor("cursor", Null, Null)))
      PROVE  Cache!Next \/ UNCHANGED Cache!vars
  <2>1. IconOf(stack', cursor') = Null
    BY <1>8, PushedWait DEF IconOf
  <2>2. CASE i = Null
    <3>1. SameIcon
      BY <1>6, <2>1, <2>2 DEF SameIcon
    <3>2. Construct(object, f, Append(stack, FrameFor("cursor", Null, Null)))
      BY <1>5, <1>8, <2>2
    <3>3. PICK callers : callers = Append(stack, FrameFor("cursor", Null, Null))
      OBVIOUS
    <3> QED
      BY <1>1, <3>1, <3>2, <3>3, ConstructStep
  <2>3. CASE i \in Addr
    <3>1. PICK a \in Addr, new \in Store :
            /\ heap[a] = Free /\ new = object' /\ new[a].glyph = Null
            /\ \A b \in Addr \ {a} : new[b] = heap[b]
      BY <1>8, Built
    <3>2. Glyphed(new) = Glyphed(heap)
      BY <3>1, BuildSame, KindsAssumption
    <3> QED
      BY <1>1, <1>2, <1>3, <2>1, <2>3, <3>1, <3>2, IconDropped
  <2> QED
    BY <2>2, <2>3
<1> QED
  BY <1>2, <1>3, <1>4, <1>7, <1>8 DEF ReplaceIcon

LEMMA SetPointerStep ==
  ASSUME HInv, HInv', MouseReturns \/ MouseLeaves \/ \E c \in Cursors : ChangeCursor(c)
  PROVE  Cache!Next \/ UNCHANGED Cache!vars
<1>1. Inv /\ Kept /\ cursor.category \in Cursors \cup {Null}
  BY DEF HInv, Inv, TypeOK
<1>2. Idle => stack = <<>> /\ phase = "open"
  BY DEF Idle
<1>3. ASSUME NEW c \in Cursors \cup {Null}, phase = "open", ~Waiting(stack), DrawPointer(c)
      PROVE  UNCHANGED Cache!vars
  <2>1. phase' = "open" /\ object' = object /\ held' = held
    BY <1>3 DEF DrawPointer
  <2>2. SameIcon
    BY <1>1, <1>3, DrawPointerKept
  <2> QED
    BY <1>3, <2>1, <2>2, SameStep
<1>4. CASE MouseReturns
  <2>1. Idle /\ cursor.category \in Cursors /\ ReplaceIcon(cursor.category)
    BY <1>1, <1>4 DEF MouseReturns
  <2> QED
    BY <1>2, <2>1, ReplaceIconStep
<1>5. CASE MouseLeaves
  <2>1. phase = "open" /\ DrawPointer(cursor.category) /\ ~Waiting(stack)
    BY <1>5 DEF MouseLeaves, Waiting
  <2> QED
    BY <1>1, <1>3, <2>1
<1>6. ASSUME NEW c \in Cursors, ChangeCursor(c) PROVE Cache!Next \/ UNCHANGED Cache!vars
  <2>1. Idle /\ (ReplaceIcon(c) \/ DrawPointer(c))
    BY <1>6 DEF ChangeCursor
  <2>2. ~Waiting(stack)
    BY <1>1, <1>2, <2>1, NoCursor
  <2> QED
    BY <1>2, <1>3, <2>1, <2>2, ReplaceIconStep
<1> QED
  BY <1>4, <1>5, <1>6

\* Shutting down only the cursor gives up its use: what nobody else uses goes with it.
LEMMA ShutDownStep ==
  ASSUME HInv, ShutDown
  PROVE  Cache!Next
<1>1. /\ stack = <<>> /\ phase = "open" /\ phase' = "expunging"
      /\ object' = Dispose(object, cursor.icon) /\ cached' = StillCached(object')
  BY DEF ShutDown, Idle
<1>2. Inv /\ Kept
  BY DEF HInv
<1>3. PICK heap \in Store :
        /\ heap = Dispose(object, cursor.icon) /\ Shrinks(object, heap)
        /\ Good(heap, StillCached(heap), held, Null, Null)
  BY <1>1, <1>2, IconGivenBack
<1>4. PICK i \in Addr \cup {Null} : i = cursor.icon /\ IconOf(stack, cursor) = i
  BY <1>1, <1>2, OpenGood, NoCursor DEF IconOf
<1> DEFINE fonts == Glyphed(object)
           cf == CursorFile(object, i)
<1>5. UsersNow = UsersOf(held, fonts, cf) /\ LoadedNow = UsedIn(UsersNow) /\ fonts \in SUBSET Fonts
  BY <1>1, <1>4, OpenView
<1>6. Glyphed(heap) = fonts
  <2>1. CASE i = Null
    BY <1>3, <1>4, <2>1 DEF Dispose
  <2>2. CASE i \in Addr
    BY <1>1, <1>3, <1>4, <2>2, IconLeaves
  <2> QED
    BY <2>1, <2>2
<1>7. LoadedNow' = UsedIn(UsersOf(held, fonts, Null))
  <2>1. LoadedNow' = LoadedOf(heap, StillCached(heap))
    BY <1>1, <1>3 DEF LoadedNow, LoadedOf
  <2>2. PICK list : list = StillCached(heap)
    OBVIOUS
  <2>3. LoadedOf(heap, list) = UsedIn(UsersOf(held, Glyphed(heap), CursorFile(heap, Null)))
    BY <1>3, <2>2, UsedIsLoaded
  <2> QED
    BY <1>6, <2>1, <2>2, <2>3 DEF CursorFile
<1> HIDE DEF fonts, cf
<1>8. ASSUME NEW f \in Resources
      PROVE  UsersAt(held, fonts, Null, f) # {} <=>
               UsersAt(held, fonts, cf, f) # {} /\ UsersAt(held, fonts, cf, f) # {"cursor"}
  <2>1. "cursor" \notin Slots /\ "cursor" \notin fonts /\ f # Null
    BY <1>5, KindsAssumption DEF File
  <2> QED
    BY <2>1 DEF UsersAt
<1>9. LoadedNow' = {f \in LoadedNow : UsersNow[f] # {"cursor"}}
  BY <1>5, <1>7, <1>8 DEF UsedIn, UsersOf
<1> QED
  BY <1>1, <1>9, StepShutDown DEF OpenNow

\* Every turn of Expunge purges one resource.
LEMMA ExpungeStep ==
  ASSUME HInv, ExpungeOne
  PROVE  Cache!Next
<1>1. /\ phase = "expunging" /\ phase' = phase /\ next # Null
      /\ object' = Delete(object, next) /\ cached' = StillCached(object')
  BY DEF ExpungeOne
<1>2. PICK a \in Addr : a = next /\ a \in cached
  BY <1>1 DEF HInv, Inv, TypeOK, Heap, ExpungeNextIsAlive
<1>3. object \in Store /\ cached \subseteq Addr /\ CachedOnce /\ \A b \in cached : object[b] # Free
  BY DEF HInv, Inv, TypeOK, Heap, Store
<1>4. PICK new \in Store : /\ new = object' /\ new[a] = Free
                           /\ \A b \in Addr \ {a} : new[b] = object[b]
  <2>1. object' = [object EXCEPT ![a] = Free]
    BY <1>1, <1>2 DEF Delete, DisposeIcon
  <2>2. PICK new \in Store : new = [object EXCEPT ![a] = Free]
    BY <1>3, FreeShrinks DEF Shrinks
  <2> QED
    BY <1>3, <2>1, <2>2 DEF Store
<1>5. PICK list : list = cached' /\ list = cached \ {a}
  BY <1>1, <1>3, <1>4 DEF StillCached
<1>6. LoadedNow' = {new[b].file : b \in list}
  BY <1>4, <1>5 DEF LoadedNow
<1>7. PICK f \in LoadedNow : f = object[a].file
  BY <1>2 DEF LoadedNow
<1>8. {new[b].file : b \in list} = LoadedNow \ {f}
  <2>1. \A b \in list : b \in cached /\ b # a /\ new[b].file = object[b].file
    BY <1>3, <1>4, <1>5
  <2>2. \A b \in cached : b # a => b \in list /\ object[b].file # f
    BY <1>2, <1>3, <1>5, <1>7 DEF CachedOnce
  <2> QED
    BY <1>7, <2>1, <2>2 DEF LoadedNow
<1> QED
  BY <1>1, <1>6, <1>7, <1>8, StepPurge DEF OpenNow

LEMMA CacheInit == Init => Cache!Init
<1> SUFFICES ASSUME Init PROVE Cache!Init
  OBVIOUS
<1>1. \A f \in Resources : HeldFile(f) = {}
  <2>1. \A s \in Slots : held[s] = Nothing
    BY DEF Init
  <2>2. Live = {} /\ cursor.icon = Null
    BY DEF Init, Live
  <2>3. \A f \in Resources : f # Null
    BY KindsAssumption DEF File
  <2> QED
    BY <2>1, <2>2, <2>3 DEF HeldFile, Nothing
<1>2. cached = {} /\ phase = "open"
  BY DEF Init
<1> QED
  BY <1>1, <1>2 DEF Cache!Init, Cache!Resources, Resources

LEMMA CacheNext == HInv /\ HInv' /\ [Next]_vars => [Cache!Next]_(Cache!vars)
<1> SUFFICES ASSUME HInv, HInv', [Next]_vars PROVE Cache!Next \/ UNCHANGED Cache!vars
  OBVIOUS
<1>1. ASSUME NEW f \in Resources, GetHit(f) \/ GetMiss(f) \/ WidgetGetMiss(f)
      PROVE  Cache!Next \/ UNCHANGED Cache!vars
  BY <1>1, GetHitStep, LoadingStep
<1>2. ASSUME NEW w \in Windows, OpenWindow(w) PROVE UNCHANGED Cache!vars
  BY <1>2, LoadingStep
<1>3. ASSUME GlyphHit \/ GlyphMiss \/ Read \/ WindowRead \/ Loaded \/ PointerDrawn
      PROVE  Cache!Next \/ UNCHANGED Cache!vars
  BY <1>3, GlyphHitStep, LoadingStep, LoadedStep
<1>4. ASSUME NEW s \in Slots, Release(s) PROVE Cache!Next
  BY <1>4, ReleaseStep
<1>5. ASSUME (\E c \in Cursors : ChangeCursor(c)) \/ MouseReturns \/ MouseLeaves
      PROVE  Cache!Next \/ UNCHANGED Cache!vars
  BY <1>5, SetPointerStep
<1>6. CASE ShutDown
  BY <1>6, ShutDownStep
<1>7. CASE ExpungeOne
  BY <1>7, ExpungeStep
<1>8. CASE Close
  <2>1. /\ phase = "expunging" /\ phase' = "closed" /\ object' = object /\ cached' = cached
    BY <1>8 DEF Close
  <2>2. OpenNow' = OpenNow /\ UsersNow' = UsersNow /\ LoadedNow' = LoadedNow
    BY <2>1 DEF OpenNow, UsersNow, LoadedNow
  <2> QED
    BY <2>2, StepNothing
<1>9. CASE UNCHANGED vars
  <2>1. UNCHANGED <<object, cached, stack, held, cursor, phase>>
    BY <1>9 DEF vars
  <2>2. OpenNow' = OpenNow /\ LoadedNow' = LoadedNow
    BY <2>1 DEF OpenNow, LoadedNow
  <2>3. UsersNow' = UsersNow
    BY <2>1 DEF UsersNow, HeldFile, Live, CursorHolds
  <2> QED
    BY <2>2, <2>3, StepNothing
<1> QED
  BY <1>1, <1>2, <1>3, <1>4, <1>5, <1>6, <1>7, <1>8, <1>9 DEF Next

\* Whatever is read, nested, hit, missed or deleted, its users see a cache that does
\* no more than ResourceCache allows: a resource is loaded exactly while it is used.
\* (That shutting down purges them all in the end is left to TLC.)
THEOREM CacheKeepsItsPromise == Spec => Cache!Init /\ [][Cache!Next]_(Cache!vars)
<1> QED
  BY HeldInv, CacheInit, CacheNext, PTL DEF Spec
=============================================================================
