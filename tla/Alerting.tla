------------------------------- MODULE Alerting -------------------------------
(***************************************************************************)
(* What the monitoring service promises of each measurement event, without *)
(* saying how: no listener, retry topic, table or producer, only how far   *)
(* the event has come and which alerts are in the alert topic. A crash     *)
(* abandons what was under way; after a database fault ("disturbed") all   *)
(* that is left is that an alert, once out, stays out and belongs to an    *)
(* event above its threshold.                                              *)
(***************************************************************************)
EXTENDS Integers

CONSTANTS
    Events,
    Exceeding   \* the events above the threshold of their type

VARIABLES
    status,     \* status[e]: how far event e has come
    topic,      \* the alerts in the alert topic, <<number, event>>
    disturbed,  \* a database statement has failed
    crashes     \* how often the process died

vars == <<status, topic, disturbed, crashes>>

\* open: not handled, or to be handled anew. claimed, sent, written: its alert
\* is being made, with the producer, in the topic. alerted: and acknowledged.
\* failed: the send was reported as failed. abandoned: the process died.
\* dismissed: it was within the threshold.
UnderWay == {"claimed", "sent", "written", "failed"}
Status == UnderWay \cup {"open", "alerted", "abandoned", "dismissed"}

Alerts == (Nat \ {0}) \X Exceeding

TypeOK ==
    /\ status \in [Events -> Status]
    /\ topic \subseteq Alerts
    /\ disturbed \in BOOLEAN
    /\ crashes \in Nat

Init ==
    /\ status = [e \in Events |-> "open"]
    /\ topic = {}
    /\ disturbed = FALSE
    /\ crashes = 0

Move(e, from, to) ==
    /\ ~disturbed
    /\ status[e] \in from
    /\ status' = [status EXCEPT ![e] = to]
    /\ UNCHANGED <<disturbed, crashes>>

Dismiss(e) == e \notin Exceeding /\ Move(e, {"open"}, "dismissed") /\ UNCHANGED topic

Claim(e) == e \in Exceeding /\ Move(e, {"open"}, "claimed") /\ UNCHANGED topic

Submit(e) == Move(e, {"claimed"}, "sent") /\ UNCHANGED topic

Write(e) ==
    /\ Move(e, {"sent"}, "written")
    /\ \E a \in topic' \ topic : a \in Alerts /\ a[2] = e /\ topic' = topic \cup {a}

Confirm(e) == Move(e, {"written"}, "alerted") /\ UNCHANGED topic

Fail(e) == Move(e, {"sent", "written"}, "failed") /\ UNCHANGED topic

\* The mark is taken back, so that the event may be handled again.
Reopen(e) == Move(e, {"claimed", "failed"}, "open") /\ UNCHANGED topic

Crash ==
    /\ ~disturbed
    /\ status' = [e \in Events |-> IF status[e] \in UnderWay THEN "abandoned" ELSE status[e]]
    /\ crashes' = crashes + 1
    /\ UNCHANGED <<topic, disturbed>>

Disturb ==
    /\ disturbed' = TRUE
    /\ status' \in [Events -> Status]
    /\ topic \subseteq topic' /\ topic' \subseteq Alerts
    /\ crashes' \in {crashes, crashes + 1}

Next ==
    \/ \E e \in Events :
           \/ Dismiss(e) \/ Claim(e) \/ Submit(e) \/ Write(e)
           \/ Confirm(e) \/ Fail(e) \/ Reopen(e)
    \/ Crash
    \/ Disturb

Spec == Init /\ [][Next]_vars
=============================================================================
