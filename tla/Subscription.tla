---------------------------- MODULE Subscription ----------------------------
(***************************************************************************)
(* What a subscriber of a game's events is promised, whatever connections, *)
(* processes and sweeps lie between it and the log: it moves through the   *)
(* committed positions in order, is given every event its filter lets      *)
(* through on the way, and when it cannot go on from where it is, starts   *)
(* again at a later position and reloads its state.                        *)
(***************************************************************************)
EXTENDS Naturals

CONSTANTS Wanted   \* the positions whose event the filter lets through

VARIABLES
    counter,    \* committed positions
    position,   \* the last position the subscriber has seen
    got,        \* the events it was given
    snap,       \* the position its last reload covers
    due         \* it has to reload

vars == <<counter, position, got, snap, due>>

Init ==
    /\ counter = 0 /\ position = 0 /\ snap = 0
    /\ got = {}
    /\ due = FALSE

Commit ==
    /\ counter' \in Nat /\ counter' > counter
    /\ UNCHANGED <<position, got, snap, due>>

\* Up to s there is nothing the subscriber waits for, s itself aside.
NextUpTo(s) ==
    /\ position < s /\ s <= counter
    /\ \A t \in Wanted : ~ (position < t /\ t < s)

Deliver(s) ==
    /\ s \in Wanted /\ NextUpTo(s)
    /\ got' = got \cup {s}
    /\ position' = s
    /\ UNCHANGED <<counter, snap, due>>

Skip(s) ==
    /\ s \notin Wanted /\ NextUpTo(s)
    /\ position' = s
    /\ UNCHANGED <<counter, got, snap, due>>

StartOver(s) ==
    /\ position <= s /\ s <= counter
    /\ position' = s
    /\ due' = TRUE
    /\ UNCHANGED <<counter, got, snap>>

Reload ==
    /\ due
    /\ snap' = counter
    /\ due' = FALSE
    /\ UNCHANGED <<counter, position, got>>

Next ==
    \/ Commit
    \/ \E s \in 0 .. counter : Deliver(s) \/ Skip(s) \/ StartOver(s)
    \/ Reload

Spec == Init /\ [][Next]_vars

=============================================================================
