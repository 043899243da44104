------------------------------ MODULE GameFlow ------------------------------
(***************************************************************************)
(* What the player sees of the scenes: a title, a game, the Game Over      *)
(* banner, and the title again.  In a game's first moments a banner left   *)
(* over from the game before may send it back to the title at once.        *)
(***************************************************************************)
VARIABLES
  mode,   \* "title", "game" or "over"
  young   \* whether the scene is so new that banners of the last game may exist

vars == <<mode, young>>

Init == mode = "title" /\ young = TRUE

Start  == mode = "title" /\ mode' = "game" /\ young' = TRUE
End    == mode = "game" /\ mode' = "over" /\ young' = young
Return == mode = "over" /\ mode' = "title" /\ young' = TRUE
Cancel == mode = "game" /\ young /\ mode' = "title" /\ young' = TRUE
Settle == young /\ young' = FALSE /\ UNCHANGED mode

Next == Start \/ End \/ Return \/ Cancel \/ Settle

Spec == Init /\ [][Next]_vars /\ WF_vars(Return)
=============================================================================
