--------------------------- MODULE MCSequenceStreams ---------------------------
(* Two items, so that an item at the wrong place is another value.         *)
EXTENDS SequenceStreams

MCItem == {1, 2}
MCFunc == [i \in MCItem |-> i]
MCChosen == {1}
=============================================================================
