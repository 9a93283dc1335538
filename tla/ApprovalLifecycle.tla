-------------------------- MODULE ApprovalLifecycle --------------------------
(***************************************************************************)
(* What the approval records of one session promise, whatever requests,    *)
(* retries and crashes produced them: one approval is open at a time, it   *)
(* is decided or expires once and for good, and an expired approval holds  *)
(* its session back (uncleared) until its pause has been cleaned, never    *)
(* again after that.                                                       *)
(***************************************************************************)
CONSTANT Approvals

VARIABLES
    state,      \* [Approvals -> none, pending, approved, rejected, expired]
    uncleared   \* expired approvals whose pause has not been cleaned

lifecycle == <<state, uncleared>>

Init == state = [a \in Approvals |-> "none"] /\ uncleared = {}

Open(a) ==
    /\ state[a] = "none"
    /\ \A b \in Approvals : state[b] # "pending"
    /\ state' = [state EXCEPT ![a] = "pending"]
    /\ UNCHANGED uncleared

Decide(a, d) ==
    /\ state[a] = "pending"
    /\ state' = [state EXCEPT ![a] = d]
    /\ UNCHANGED uncleared

Expire(a) ==
    /\ state[a] = "pending"
    /\ state' = [state EXCEPT ![a] = "expired"]
    /\ uncleared' = uncleared \cup {a}

Clear(a) ==
    /\ a \in uncleared
    /\ uncleared' = uncleared \ {a}
    /\ UNCHANGED state

Next ==
    \E a \in Approvals :
        \/ Open(a) \/ Expire(a) \/ Clear(a)
        \/ \E d \in {"approved", "rejected"} : Decide(a, d)

Spec == Init /\ [][Next]_lifecycle

=============================================================================
