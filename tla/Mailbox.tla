------------------------------ MODULE Mailbox ------------------------------
(***************************************************************************)
(* What a worker thread and the leader may rely on, whatever files,        *)
(* directories, locks and receipts deliver it: a mailbox with              *)
(* at-least-once delivery for the lifetime of one backend process.  A      *)
(* message leaves the mailbox in three ways only: the leader has handled   *)
(* it, a starting backend throws the old mail away, or its text was        *)
(* damaged when it was written.                                            *)
(***************************************************************************)
EXTENDS Naturals

CONSTANT Messages

VARIABLES
    box,        \* where each message is
    handled,    \* how often the leader handled it: 0, 1, or 2 for "more than once"
    damaged     \* the messages whose text cannot be read back

mailboxVars == <<box, handled, damaged>>

Once(n) == IF n = 2 THEN 2 ELSE n + 1

MailboxInit ==
    /\ box = [m \in Messages |-> "unsent"]
    /\ handled = [m \in Messages |-> 0]
    /\ damaged = {}

Send(m) ==
    /\ box[m] = "unsent"
    /\ box' = [box EXCEPT ![m] = "queued"]
    /\ \/ UNCHANGED damaged
       \/ damaged' = damaged \cup {m}
    /\ UNCHANGED handled

Handle(m) ==
    /\ box[m] = "queued"
    /\ m \notin damaged
    /\ handled' = [handled EXCEPT ![m] = Once(@)]
    /\ UNCHANGED <<box, damaged>>

Settle(m) ==
    /\ box[m] = "queued"
    /\ handled[m] > 0
    /\ box' = [box EXCEPT ![m] = "gone"]
    /\ UNCHANGED <<handled, damaged>>

\* Damaged mail may be thrown away together: one pop_all meets several files.
Discard ==
    \E D \in SUBSET {m \in damaged : box[m] = "queued"} :
        /\ box' = [m \in Messages |-> IF m \in D THEN "gone" ELSE box[m]]
        /\ UNCHANGED <<handled, damaged>>

\* A new backend starts: no mail of the previous one survives.
Reset ==
    /\ box' = [m \in Messages |-> IF box[m] = "queued" THEN "wiped" ELSE box[m]]
    /\ UNCHANGED <<handled, damaged>>

MailboxNext ==
    \/ \E m \in Messages : Send(m) \/ Handle(m) \/ Settle(m)
    \/ Discard
    \/ Reset

MailboxSpec == MailboxInit /\ [][MailboxNext]_mailboxVars
=============================================================================
