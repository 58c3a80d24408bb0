----------------------------- MODULE AtMostOnce -----------------------------
(***************************************************************************)
(* What sealed frames promise their senders: a frame runs at most once,    *)
(* unless load made the bot forget it (it is then in forgotten).           *)
(***************************************************************************)
EXTENDS Naturals

CONSTANT Frame

VARIABLES
    ran,        \* how often each frame ran; 2 stands for more than once
    forgotten   \* frames pushed out of the cache that tells them apart

vars == <<ran, forgotten>>

Init == ran = [f \in Frame |-> 0] /\ forgotten = {}

\* A frame runs; it ran before only if it was forgotten.
Do(f) == /\ ran[f] = 0 \/ f \in forgotten
         /\ ran' = [ran EXCEPT ![f] = IF @ < 2 THEN @ + 1 ELSE @]
         /\ forgotten' \in SUBSET Frame /\ forgotten \subseteq forgotten'

\* Frames are forgotten.
Forget == /\ forgotten' \in SUBSET Frame /\ forgotten \subseteq forgotten'
          /\ UNCHANGED ran

Next == Forget \/ \E f \in Frame : Do(f)

Spec == Init /\ [][Next]_vars
=============================================================================
