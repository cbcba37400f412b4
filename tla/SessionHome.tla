---------------------------- MODULE SessionHome ----------------------------
(***************************************************************************)
(* What session relocation promises, seen from outside: a session lives in *)
(* exactly one working directory, and it moves to another one in a single  *)
(* step that advances its cwd generation by one.  Nothing else happens to  *)
(* it: no crash, no error path and no recovery takes a move back, repeats  *)
(* it or leaves the session nowhere.                                       *)
(***************************************************************************)
EXTENDS Naturals

CONSTANT Cwds    \* working directories a session can live in

VARIABLE home    \* where the session lives, and its cwd generation

Init == \E c \in Cwds : home = [cwd |-> c, gen |-> 0]

\* The commit of a relocation.
Move == \E c \in Cwds \ {home.cwd} :
          home' = [cwd |-> c, gen |-> home.gen + 1]

Spec == Init /\ [][Move]_home
=============================================================================
