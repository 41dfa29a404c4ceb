----------------------------- MODULE ClaimedWork ------------------------------
(***************************************************************************)
(* What is promised of a piece of work that any request may ask for -- a   *)
(* semantic model run, a message of a chat, a run of an import -- with     *)
(* nothing about how: it is offered once, one request claims it at most,   *)
(* and whatever is written late, it is never open or claimed again.  A row *)
(* that was removed does not come back.                                    *)
(***************************************************************************)
CONSTANTS
    Workers,        \* the requests that may claim the work
    Withdrawable    \* it may end before anybody claimed it

VARIABLES
    stage,          \* "absent", "open", "claimed", "over", "gone"
    worker          \* the requests that ever claimed it

vars == <<stage, worker>>

Init ==
    /\ stage \in {"absent", "open"}
    /\ worker = {}

Offer ==
    /\ stage = "absent"
    /\ stage' = "open"
    /\ UNCHANGED worker

Claim(w) ==
    /\ stage = "open"
    /\ stage' = "claimed"
    /\ worker' = worker \cup {w}

Settle ==
    /\ stage = "claimed"
    /\ stage' = "over"
    /\ UNCHANGED worker

Withdraw ==
    /\ Withdrawable
    /\ stage = "open"
    /\ stage' = "over"
    /\ UNCHANGED worker

\* The row goes, or what it would have belonged to.
Remove ==
    /\ stage # "gone"
    /\ stage' = "gone"
    /\ UNCHANGED worker

Next ==
    \/ Offer
    \/ \E w \in Workers : Claim(w)
    \/ Settle
    \/ Withdraw
    \/ Remove

Spec == Init /\ [][Next]_vars
=============================================================================
