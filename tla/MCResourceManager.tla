-------------------------- MODULE MCResourceManager --------------------------
(* One window, one font and its glyphs, two cursors, and two archives.      *)
(* The window and a cursor picture share an archive with the glyphs, so     *)
(* that a nested load really moves the handle its caller reads from.        *)
EXTENDS ResourceManager, TLC

CONSTANTS window, glyphs, advmco, cmseco, font, advmbw, cmsebw, adventure, combat

MCGlyph == [f \in {font} |-> glyphs]
MCColorIcon == [c \in {adventure, combat} |-> IF c = adventure THEN advmco ELSE cmseco]
MCPicture == [c \in {adventure, combat} |-> IF c = adventure THEN advmbw ELSE cmsebw]
MCContents == [i \in {0, 1} |-> IF i = 0 THEN {font, advmbw, advmco}
                                 ELSE {window, glyphs, font, cmseco, cmsebw}]
MCReads == [f \in {window, glyphs, advmco, cmseco, font, advmbw, cmsebw} |->
              IF f = window THEN 2 ELSE 1]
\* Addresses are interchangeable, and so are slots (not in the liveness run).
MCSymmetry == Permutations(Addr) \cup Permutations(Slots)
=============================================================================
