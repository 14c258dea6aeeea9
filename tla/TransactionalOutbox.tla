------------------------- MODULE TransactionalOutbox -------------------------
(***************************************************************************)
(* What the outbox of the worker process promises, without workers, jobs,  *)
(* locks or Redis: a chat message and its announcement are stored in one   *)
(* step, an announcement is made at least once or refused by who should    *)
(* carry it, and it is struck off the list of due announcements only after  *)
(* that.  MessagePipeline implements this specification.                   *)
(***************************************************************************)
EXTENDS Naturals

VARIABLES
    stored,     \* number of messages stored so far; they are 1..stored
    due,        \* stored messages whose announcement is still owed
    announced,  \* stored messages announced at least once
    refused     \* those with an announcement that Redis refused

vars == <<stored, due, announced, refused>>

Init ==
    /\ stored = 0
    /\ due = {}
    /\ announced = {}
    /\ refused = {}

\* A message and the announcement it owes appear together.
Store ==
    /\ stored' = stored + 1
    /\ due' = due \union {stored + 1}
    /\ UNCHANGED <<announced, refused>>

\* Announcing does not settle the debt: a relay that fails here announces again.
Announce(accepted, rejected) ==
    /\ announced' = announced \union accepted
    /\ refused' = refused \union rejected
    /\ UNCHANGED <<stored, due>>

Settle(batch) ==
    /\ batch \subseteq announced \union refused
    /\ due' = due \ batch
    /\ UNCHANGED <<stored, announced, refused>>

Next ==
    \/ Store
    \/ \E accepted, rejected \in SUBSET due : Announce(accepted, rejected)
    \/ \E batch \in SUBSET due : Settle(batch)

Spec == Init /\ [][Next]_vars

=============================================================================
