----------------------------- MODULE Settlement -----------------------------
(***************************************************************************)
(* What the daemon promises the owner of the account, with no process, no  *)
(* database and no pipeline: mail arrives, some of it is acted on, each    *)
(* message is settled at most once, nothing is done to a settled message,  *)
(* and a prefix of the account's history is acknowledged only when every   *)
(* message of it that is still in the Inbox is settled.  A message may be  *)
(* waived instead, which is what an observing daemon does with mail it     *)
(* would have sent to the LLM, and is owed again when the daemon ends      *)
(* before it acknowledges that.  Module Triage implements this.            *)
(***************************************************************************)
EXTENDS Integers

CONSTANT NMessages   \* bound: messages the account ever creates

Messages == 1..NMessages
Nothing == -1

VARIABLES
    created, inbox,  \* the account
    acknowledged,    \* the prefix of the history that will not be read again
    first,           \* where the daemon started to look: earlier mail is not its own
    settled, waived,
    acted            \* what was done to each message: mutations and drafts

vars == <<created, inbox, acknowledged, first, settled, waived, acted>>

Init ==
    /\ created \in {0, NMessages}
    /\ inbox = 1..created
    /\ acknowledged = Nothing /\ first = Nothing
    /\ settled = {} /\ waived = {}
    /\ acted = [m \in Messages |-> 0]

Arrive ==
    /\ created < NMessages /\ created' = created + 1
    /\ inbox' \in {inbox, inbox \cup {created + 1}}
    /\ UNCHANGED <<acknowledged, first, settled, waived, acted>>

Leave(m) ==
    /\ m \in inbox /\ inbox' = inbox \ {m}
    /\ UNCHANGED <<created, acknowledged, first, settled, waived, acted>>

Act(m) ==
    /\ m \notin settled
    /\ acted' = [acted EXCEPT ![m] = @ + 1]
    /\ UNCHANGED <<created, inbox, acknowledged, first, settled, waived>>

Settle(m) ==
    /\ m \notin settled /\ settled' = settled \cup {m}
    /\ UNCHANGED <<created, inbox, acknowledged, first, waived, acted>>

Waive(m) ==
    /\ m \notin settled /\ waived' = waived \cup {m}
    /\ UNCHANGED <<created, inbox, acknowledged, first, settled, acted>>

(* What was waived and not acknowledged is owed again.                     *)
Reopen ==
    /\ waived' = {m \in waived : m <= acknowledged}
    /\ UNCHANGED <<created, inbox, acknowledged, first, settled, acted>>

(* The first acknowledgement says only where the history starts.           *)
Acknowledge(s) ==
    /\ acknowledged <= s
    /\ first' = IF first = Nothing THEN s ELSE first
    /\ \A m \in inbox : first' < m /\ m <= s => m \in settled \cup waived
    /\ acknowledged' = s
    /\ UNCHANGED <<created, inbox, settled, waived, acted>>

Next ==
    \/ Arrive \/ Reopen
    \/ \E m \in Messages : Leave(m) \/ Act(m) \/ Settle(m) \/ Waive(m)
    \/ \E s \in 0..created : Acknowledge(s)

Spec == Init /\ [][Next]_vars

=============================================================================
