--------------------------- MODULE DesignTimeline ---------------------------
(***************************************************************************)
(* What DesignEditingService promises its clients: designs on a line, one  *)
(* of them the current one.  An edit takes effect at once and as a whole,  *)
(* leads to an acceptable design and cuts off what had been undone; undo   *)
(* and redo move along the line and change nothing on it.                  *)
(***************************************************************************)
EXTENDS Naturals, Sequences

CONSTANTS
  Seeds,           \* designs the service may be given
  Acceptable(_)    \* what an edit has to lead to

VARIABLES
  timeline,        \* the designs, oldest first
  at               \* position of the current one

tvars == <<timeline, at>>

Init == \E seed \in Seeds : timeline = <<seed>> /\ at = 1

Replace == \E seed \in Seeds : timeline' = <<seed>> /\ at' = 1

Edit ==
  /\ at' = at + 1
  /\ Len(timeline') = at + 1
  /\ SubSeq(timeline', 1, at) = SubSeq(timeline, 1, at)
  /\ Acceptable(timeline'[at + 1])

Back == at > 1 /\ at' = at - 1 /\ UNCHANGED timeline

Forward == at < Len(timeline) /\ at' = at + 1 /\ UNCHANGED timeline

Next == Replace \/ Edit \/ Back \/ Forward

Spec == Init /\ [][Next]_tvars
=============================================================================
