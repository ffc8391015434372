--------------------------- MODULE ResourceCache ---------------------------
(***************************************************************************)
(* What the resource cache promises its users, apart from archives, reads, *)
(* addresses and counts: a resource is loaded exactly while somebody uses  *)
(* it, whoever else uses it and whatever is being read; giving up the last *)
(* use of a font gives up the font's use of its glyphs; and once the       *)
(* program shuts down, what is left is purged and nothing is loaded again. *)
(*                                                                         *)
(* ResourceManager implements it (ImplementsCache).                        *)
(***************************************************************************)
CONSTANTS
  Icons, Fonts,   \* the resources
  Glyph,          \* [Fonts -> Icons] the icon a font uses
  Slots,          \* places of the program that keep one resource each
  Pointers        \* the icons the mouse cursor may have

VARIABLES
  loaded,         \* the resources in the cache
  users,          \* [Resources -> SUBSET User] who uses which resource
  open            \* the program is not shutting down

vars == <<loaded, users, open>>

Resources == Icons \cup Fonts
User == Slots \cup Fonts \cup {"cursor"}

\* What a user may come to use, if it uses nothing yet.
Wanted(u) ==
  IF \E f \in Resources : u \in users[f] THEN {}
  ELSE CASE u \in Slots -> Resources
         [] u \in Fonts -> {Glyph[u]}
         [] OTHER -> Pointers

Used(us) == {f \in Resources : us[f] # {}}
Without(us, u, f) ==
  LET rest == [us EXCEPT ![f] = @ \ {u}]
  IN IF f \in Fonts /\ rest[f] = {}
       THEN [rest EXCEPT ![Glyph[f]] = @ \ {f}] ELSE rest

Init == loaded = {} /\ users = [f \in Resources |-> {}] /\ open = TRUE

Acquire(u, f) ==
  /\ open /\ f \in Wanted(u)
  /\ users' = [users EXCEPT ![f] = @ \cup {u}]
  /\ loaded' = Used(users') /\ UNCHANGED open

Drop(u, f) ==
  /\ open /\ u \in users[f]
  /\ users' = Without(users, u, f)
  /\ loaded' = Used(users') /\ UNCHANGED open

\* The cursor changes from an icon to another that is loaded.
Exchange(f, g) ==
  /\ open /\ "cursor" \in users[f] /\ g \in Pointers \cap loaded
  /\ users' = [Without(users, "cursor", f) EXCEPT ![g] = @ \cup {"cursor"}]
  /\ loaded' = Used(users') /\ UNCHANGED open

\* Only the cursor gives up its icon; the others are told nothing.
ShutDown ==
  /\ open /\ open' = FALSE
  /\ loaded' = {f \in loaded : users[f] # {"cursor"}}
  /\ users' = [f \in Resources |-> {}]

Purge ==
  /\ ~open
  /\ \E f \in loaded : loaded' = loaded \ {f}
  /\ UNCHANGED <<users, open>>

Next ==
  \/ \E u \in User, f \in Resources : Acquire(u, f) \/ Drop(u, f)
  \/ \E f, g \in Resources : Exchange(f, g)
  \/ ShutDown \/ Purge

\* Shutting down is a loop over the cache.
Spec == Init /\ [][Next]_vars /\ WF_vars(Purge)
=============================================================================
