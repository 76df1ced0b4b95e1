---------------------------- MODULE AbstractBackend ----------------------------
(***************************************************************************)
(* What a backend promises: it takes a query and, in the end, gives one    *)
(* reply the query allows, all of it at once.  allowed is the set of the   *)
(* replies that what was asked (a query over some sources) allows; asked   *)
(* and replied are <<>> while there are none.                              *)
(***************************************************************************)
EXTENDS Sequences

VARIABLES phase, asked, allowed, replied

Init == phase = "idle" /\ asked = <<>> /\ replied = <<>>

Ask == /\ phase = "idle"
       /\ phase' = "busy"
       /\ Len(asked') = 1
       /\ replied' = <<>>

Reply == /\ phase = "busy"
         /\ phase' = "done"
         /\ replied' \in {<<reply>> : reply \in allowed}
         /\ UNCHANGED asked

\* The caller lets go of the reply.
Forget == /\ phase = "done"
          /\ phase' = "idle" /\ asked' = <<>> /\ replied' = <<>>

Spec == Init /\ [][Ask \/ Reply \/ Forget]_<<phase, asked, replied>>

FairSpec == Spec /\ (phase = "busy" ~> phase = "done")
=============================================================================
