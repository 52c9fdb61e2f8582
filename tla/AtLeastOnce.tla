---------------------------- MODULE AtLeastOnce ----------------------------
(***************************************************************************)
(* What a durable subscription promises, without saying how: a message     *)
(* that was put is retired only after the subscriber has got it, or when   *)
(* it is unfit to be got.  A message may be got more than once, which is   *)
(* no step here.                                                           *)
(***************************************************************************)
VARIABLES
    waiting,   \* messages put and not retired
    got,       \* messages the subscriber has got at least once
    unfit      \* messages that can never be got

vars == <<waiting, got, unfit>>

Init == waiting = {} /\ got = {} /\ unfit = {}

Put(i) ==
    /\ i \notin waiting \cup got \cup unfit
    /\ waiting' = waiting \cup {i}
    /\ unfit' \in {unfit, unfit \cup {i}}
    /\ UNCHANGED got

Get(i) ==
    /\ i \in waiting \ unfit
    /\ got' = got \cup {i}
    /\ UNCHANGED <<waiting, unfit>>

Retire(i) ==
    /\ i \in waiting
    /\ i \in got \cup unfit
    /\ waiting' = waiting \ {i}
    /\ UNCHANGED <<got, unfit>>

Next == \E i \in waiting \cup waiting' : Put(i) \/ Get(i) \/ Retire(i)

Spec == Init /\ [][Next]_vars
=============================================================================
