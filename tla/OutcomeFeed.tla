----------------------------- MODULE OutcomeFeed -----------------------------
(***************************************************************************)
(* What the return channel promises Aether: it hears only of outcomes that *)
(* happened, one is put down as delivered only after Aether heard it, and  *)
(* one that is delivered or given up is not taken up again. AetherReturn   *)
(* implements it.                                                          *)
(***************************************************************************)
CONSTANT Outcomes
VARIABLES
    happened,   \* the outcomes there were
    heard,      \* those Aether has heard of
    delivered,  \* those put down as delivered
    givenUp     \* those given up

vars == <<happened, heard, delivered, givenUp>>

Init ==
    /\ happened = {}
    /\ heard = {}
    /\ delivered = {}
    /\ givenUp = {}

Happen(o) ==
    /\ o \notin happened
    /\ happened' = happened \cup {o}
    /\ UNCHANGED <<heard, delivered, givenUp>>

Hear(o) ==
    /\ o \in happened
    /\ heard' = heard \cup {o}
    /\ UNCHANGED <<happened, delivered, givenUp>>

Deliver(o) ==
    /\ o \in heard \ givenUp
    /\ delivered' = delivered \cup {o}
    /\ UNCHANGED <<happened, heard, givenUp>>

GiveUp(o) ==
    /\ o \in happened \ delivered
    /\ givenUp' = givenUp \cup {o}
    /\ UNCHANGED <<happened, heard, delivered>>

Next == \E o \in Outcomes : Happen(o) \/ Hear(o) \/ Deliver(o) \/ GiveUp(o)

Spec == Init /\ [][Next]_vars
==============================================================================
