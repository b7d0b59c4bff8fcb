----------------------------- MODULE EventOutbox -----------------------------
(***************************************************************************)
(* What a sender of measurement events promises, without queues, batches,  *)
(* locks or goroutines: every submitted event stays held until upstream    *)
(* has accepted it.  When no reply is lost an accepted event is no longer  *)
(* held, so it is accepted once only.                                      *)
(***************************************************************************)
EXTENDS FiniteSets

CONSTANTS
    Events,         \* the events that may be submitted
    LostReplies     \* may upstream accept an event without the sender knowing?

VARIABLES
    held,           \* submitted, and still to be (re)sent
    accepted        \* accepted upstream

Init == held = {} /\ accepted = {}

Submit(e) ==
    /\ e \notin held \cup accepted
    /\ held' = held \cup {e}
    /\ UNCHANGED accepted

\* Upstream accepts A, and the sender forgets R.
Transmit(A, R) ==
    /\ accepted' = accepted \cup A
    /\ R \subseteq accepted'
    /\ ~LostReplies => R = A
    /\ held' = held \ R

Next ==
    \/ \E e \in Events : Submit(e)
    \/ \E A, R \in SUBSET held : Transmit(A, R)

Spec == Init /\ [][Next]_<<held, accepted>>
=============================================================================
