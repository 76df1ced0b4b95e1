--------------------------- MODULE AbstractOptimizer ---------------------------
(***************************************************************************)
(* What a caller may rely on: optimize takes a query and gives back a      *)
(* query with the same meaning (schema and answer); it always comes back,  *)
(* and it never throws.  asked and replied are the meanings of the query   *)
(* passed in and of the one returned, <<>> while there is none.            *)
(***************************************************************************)
EXTENDS Sequences

VARIABLES phase, asked, replied

Init == phase = "idle" /\ asked = <<>> /\ replied = <<>>

Ask == /\ phase # "busy"
       /\ phase' = "busy"
       /\ Len(asked') = 1
       /\ replied' = <<>>

Reply == /\ phase = "busy"
         /\ phase' = "done"
         /\ replied' = asked
         /\ UNCHANGED asked

Spec == Init /\ [][Ask \/ Reply]_<<phase, asked, replied>>

FairSpec == Spec /\ (phase = "busy" ~> phase = "done")
=============================================================================
