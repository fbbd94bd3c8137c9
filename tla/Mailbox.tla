------------------------------ MODULE Mailbox ------------------------------
(***************************************************************************)
(* What an Inboxer (src/actor/inbox.go) promises to the senders and to the *)
(* Processer behind it: every message accepted is handed over at most      *)
(* once, in the order of acceptance, one batch at a time, and after Stop   *)
(* at most the one batch that was already on its way.                      *)
(***************************************************************************)
EXTENDS Naturals, Sequences

CONSTANT Message

VARIABLES mail,     \* accepted and not yet handed over
          current,  \* the batch the Processer is working on
          state     \* new, open, closing (one batch may still come), closed

mailboxVars == <<mail, current, state>>

MailboxInit == mail = <<>> /\ current = <<>> /\ state = "new"

(* Send is accepted in every state, also before Start and after Stop. *)
Put(m) == mail' = Append(mail, m) /\ UNCHANGED <<current, state>>

Open == state = "new" /\ state' = "open" /\ UNCHANGED <<mail, current>>

Deliver(k) ==
  /\ state \in {"open", "closing"}
  /\ current = <<>>
  /\ current' = SubSeq(mail, 1, k)
  /\ mail' = SubSeq(mail, k + 1, Len(mail))
  /\ state' = IF state = "closing" THEN "closed" ELSE state

Finish == current # <<>> /\ current' = <<>> /\ UNCHANGED <<mail, state>>

Close ==
  /\ state = "open"
  /\ state' \in {"closing", "closed"}
  /\ current # <<>> => state' = "closed"
  /\ UNCHANGED <<mail, current>>

Seal == state = "closing" /\ state' = "closed" /\ UNCHANGED <<mail, current>>

MailboxNext ==
  \/ \E m \in Message : Put(m)
  \/ Open
  \/ \E k \in 1..Len(mail) : Deliver(k)
  \/ Finish
  \/ Close
  \/ Seal

MailboxSpec == MailboxInit /\ [][MailboxNext]_mailboxVars
=============================================================================
