------------------------- MODULE DeferredTransition -------------------------
(***************************************************************************)
(* What a state machine with deferred transitions promises, whatever its   *)
(* callbacks do: a request waits, the latest one wins, and a transition    *)
(* ends in the state that was asked for when it began.  A request made in  *)
(* the middle of a transition waits for the next.                          *)
(***************************************************************************)
CONSTANTS
    States,     \* what may be asked for
    None        \* nothing asked for, nothing under way; not one of States

VARIABLES
    state,      \* the current state
    request,    \* the state asked for last
    target      \* the state the transition under way goes to

vars == <<state, request, target>>

Init ==
    /\ state \in States
    /\ request = None
    /\ target = None

Ask ==
    /\ request' \in States
    /\ UNCHANGED <<state, target>>

Leave ==
    /\ request # None /\ target = None
    /\ request' = None
    /\ target' = request
    /\ UNCHANGED state

Enter ==
    /\ target # None
    /\ state' = target
    /\ target' = None
    /\ UNCHANGED request

(* The machine is emptied, between transitions.                            *)
Reset ==
    /\ target = None
    /\ state' \in States
    /\ request' = None
    /\ UNCHANGED target

Next == Ask \/ Leave \/ Enter \/ Reset

Spec == Init /\ [][Next]_vars

=============================================================================
