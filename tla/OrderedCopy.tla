----------------------------- MODULE OrderedCopy -----------------------------
(* What a pipelined copy promises whatever its threads do: the pieces reach   *)
(* the target in order, each with its own bytes, nothing follows a piece that *)
(* was torn by a failing write, and success is reported only once every piece *)
(* is there. WriterPipe and ImagePipe implement it.                           *)
EXTENDS Naturals

CONSTANT NPieces

VARIABLES target,   \* target[p]: what the target holds where piece p belongs
          result    \* what the copy returned

vars == <<target, result>>

Pieces == 1..NPieces

Init == /\ target = [p \in Pieces |-> "old"]
        /\ result = "none"

\* The next piece in order is written, or torn by a write that fails part way.
Write(p) == /\ result = "none"
            /\ target[p] = "old"
            /\ \A q \in Pieces : q < p => target[q] = "right"
            /\ \E v \in {"right", "torn"} : target' = [target EXCEPT ![p] = v]
            /\ UNCHANGED result

Succeed == /\ result = "none"
           /\ \A p \in Pieces : target[p] = "right"
           /\ result' = "ok"
           /\ UNCHANGED target

\* A copy that fails says whether reading or writing did.
Fail == /\ result = "none"
        /\ result' \in {"read error", "write error"}
        /\ UNCHANGED target

Next == Succeed \/ Fail \/ \E p \in Pieces : Write(p)

Spec == Init /\ [][Next]_vars
==============================================================================
