---------------------------- MODULE ActivePointer ----------------------------
(***************************************************************************)
(* What the publication lifecycle promises: publications become complete   *)
(* in the object store and stay so; only a complete one is ever made the   *)
(* active one; and a runtime only ever serves one that has been active.    *)
(* publication.py and hosted.py implement it with commands, locks, staging *)
(* and retries (module Publication).                                       *)
(***************************************************************************)
CONSTANTS Builds, None

VARIABLES
    complete,  \* the builds every byte of which is verified in the store
    active,    \* the chosen build
    chosen,    \* every build that was ever chosen
    serving    \* the build the runtime serves, None while it serves none

vars == <<complete, active, chosen, serving>>

Init ==
    /\ complete = {}
    /\ active = None
    /\ chosen = {}
    /\ serving = None

\* Objects are immutable: completing one build may complete others that share its files.
Upload ==
    /\ complete \subseteq complete'
    /\ UNCHANGED <<active, chosen, serving>>

Choose(b) ==
    /\ b \in complete
    /\ active' = b
    /\ chosen' = chosen \cup {b}
    /\ UNCHANGED <<complete, serving>>

Serve(b) ==
    /\ b \in chosen
    /\ serving' = b
    /\ UNCHANGED <<complete, active, chosen>>

\* A damaged local version is withdrawn from service until it is staged again.
Withdraw ==
    /\ serving' = None
    /\ UNCHANGED <<complete, active, chosen>>

Next == Upload \/ Withdraw \/ \E b \in Builds : Choose(b) \/ Serve(b)

Spec == Init /\ [][Next]_vars
=============================================================================
