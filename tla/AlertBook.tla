------------------------------ MODULE AlertBook ------------------------------
(***************************************************************************)
(* What the alert manager promises, whatever happens to the processes that *)
(* run it: an alert is raised once and is never withdrawn, it is recorded  *)
(* at most once per channel, and the record goes one way: skipped for good,*)
(* or pending and then delivered or failed for good.                       *)
(***************************************************************************)
CONSTANTS Markers, Channels

VARIABLES
    raised,  \* the alerts that exist
    record   \* per alert and channel: the status of its delivery record

Statuses == {"none", "skipped", "pending", "delivered", "failed"}

Init ==
    /\ raised = {}
    /\ record = [k \in Markers \X Channels |-> "none"]

Raise(m) ==
    /\ m \notin raised
    /\ raised' = raised \cup {m}
    /\ UNCHANGED record

\* A record is only made for an alert that exists.
Open(m, c, status) ==
    /\ m \in raised
    /\ record[<<m, c>>] = "none"
    /\ record' = [record EXCEPT ![<<m, c>>] = status]
    /\ UNCHANGED raised

Settle(m, c, status) ==
    /\ record[<<m, c>>] = "pending"
    /\ record' = [record EXCEPT ![<<m, c>>] = status]
    /\ UNCHANGED raised

Next ==
    \E m \in Markers :
       \/ Raise(m)
       \/ \E c \in Channels :
             \/ \E status \in {"skipped", "pending"} : Open(m, c, status)
             \/ \E status \in {"delivered", "failed"} : Settle(m, c, status)

Spec == Init /\ [][Next]_<<raised, record>>
=============================================================================
