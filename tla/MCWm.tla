---------------------------------- MODULE MCWm ----------------------------------
(* A screen on which every window can hang over the right and the bottom   *)
(* edge.  A close button lies inside its title bar with a margin around    *)
(* it, the strip that stays on the screen is wider than the cursor, and    *)
(* the cursor starts on a title bar beside a close button.                 *)
EXTENDS Wm, TLC
CONSTANTS win_a, win_b, win_c, five

OneButton == [btn \in {five} |-> [x |-> 1, y |-> 2, w |-> 1, h |-> 1]]
OneDisplay == [x |-> 1, y |-> 1, w |-> 1, h |-> 1]
SmallSize == [v \in {win_a, win_c} |-> [w |-> 3, h |-> 4]]
TwoWindows == <<win_a, win_c>>
TwoAt == (win_a :> [x |-> 1, y |-> 0]) @@ (win_c :> [x |-> 0, y |-> 1])

\* Three windows in a row; the bottom one reaches under the other two.
ThreeSize == [v \in {win_a, win_b, win_c} |-> [w |-> 3, h |-> 4]]
ThreeWindows == <<win_a, win_b, win_c>>
ThreeAt == (win_a :> [x |-> 2, y |-> 0]) @@ (win_b :> [x |-> 0, y |-> 0])
           @@ (win_c :> [x |-> 4, y |-> 1])

Chords == {{}, {L}, {L, "R"}}
Unit == -1 .. 1
=============================================================================
