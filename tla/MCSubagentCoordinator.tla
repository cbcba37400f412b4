----------------------- MODULE MCSubagentCoordinator -----------------------
(***************************************************************************)
(* Small instances of the subagent coordinator for TLC: which requests the *)
(* spawns of each run may carry.                                           *)
(***************************************************************************)
EXTENDS SubagentCoordinator, TLC

CONSTANTS s1, p1, w1, l1

Request(s, r, p, l, background, toCompletion) ==
  [parent |-> s, run |-> r, prompt |-> p, loop |-> l,
   background |-> background, toCompletion |-> toCompletion, surface |-> TRUE]

Foreground(s) == Request(s, None, None, None, FALSE, FALSE)
Background(s) == Request(s, None, None, None, TRUE, FALSE)
ToCompletion(s) == Request(s, None, None, None, FALSE, TRUE)
Prompted(s) == Request(s, None, p1, None, FALSE, FALSE)
Looped(s) == Request(s, None, None, l1, TRUE, FALSE)
OfRun(s) == Request(s, w1, None, None, FALSE, TRUE)

\* The queue: every way of waiting for a Task child.
QueueRequests == {Foreground(s1), Background(s1), ToCompletion(s1)}

\* A nested spawn of a session tree.
NestedRequests == {Foreground(s1)} \cup {Background(k) : k \in Ids}

\* Workflow, loop and prompt cancels, with a nested spawn of any of them.
OwnerRequests == {OfRun(s1), Looped(s1), Prompted(s1)} \cup {Background(k) : k \in Ids}

\* The smallest sets that make the liveness properties interesting.
TimedRequests == {Foreground(s1)}
EndingRequests == {Background(s1), OfRun(s1)}

IdSymmetry == Permutations(Ids)
=============================================================================
