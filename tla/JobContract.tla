------------------------------ MODULE JobContract ------------------------------
(* What the GUI relies on when it runs a job, whatever processes, pipes and   *)
(* threads it takes: nothing is written before the user has said how to copy, *)
(* nothing once the end has been reported, and the end tells the truth where  *)
(* it has to. JobProtocol implements this.                                    *)

VARIABLES allowed,  \* the user has said how to copy, or need not be asked
          target,   \* what has become of the target
          outcome   \* the Finished event's, "none" before it

vars == <<allowed, target, outcome>>

Init == /\ allowed \in BOOLEAN
        /\ target = "untouched"
        /\ outcome = "none"

Allow == /\ outcome = "none"
         /\ allowed' = TRUE
         /\ UNCHANGED <<target, outcome>>

Write == /\ allowed /\ outcome = "none"
         /\ \/ target = "untouched" /\ target' = "partial"
            \/ target = "partial" /\ target' = "complete"
            \/ target = "complete" /\ target' = "flushed"
         /\ UNCHANGED <<allowed, outcome>>

\* Success means all of it is on the hardware, a refused password that the
\* target hasn't been touched.
Finish == /\ outcome = "none"
          /\ \/ outcome' = "success" /\ target = "flushed"
             \/ outcome' = "not authorized" /\ target = "untouched"
             \/ outcome' \in {"cancelled", "failed"}
          /\ UNCHANGED <<allowed, target>>

Next == Allow \/ Write \/ Finish

Spec == Init /\ [][Next]_vars
================================================================================
