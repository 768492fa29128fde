----------------------------- MODULE MailSource -----------------------------
(***************************************************************************)
(* The JMAP source below the message loop: a poll waits for push on an     *)
(* EventSource stream, falls back to a timer when the stream fails, then   *)
(* reads Email/changes page by page and hands the batch to the loop with a *)
(* candidate state, which the loop persists once the batch is done.        *)
(*                                                                         *)
(* The network comes and goes.  A stream that cannot be opened or that     *)
(* ends is caught by the fallback; a request that fails is a JmapError,    *)
(* which nobody catches: the daemon dies, systemd starts it again, and it  *)
(* is down until it can connect.                                           *)
(*                                                                         *)
(* Messages are numbered as the account created them, an Email state is    *)
(* the number of messages created before it: two states between which      *)
(* mail was only updated are one.  What the loop does to a message is the  *)
(* subject of Triage; here it is settled in one step.                      *)
(***************************************************************************)
EXTENDS Integers, FiniteSets

CONSTANTS
    NMessages,    \* bound: messages the account ever creates
    MaxDeaths,    \* bound: deaths that are not the network's doing
    MaxOutages,   \* bound: times the network goes away
    Delays        \* number of entries of polling.reconnect_backoff_seconds

Messages == 1..NMessages

ASSUME MailSourceAssumption ==
    NMessages \in Nat /\ MaxDeaths \in Nat /\ MaxOutages \in Nat /\ Delays \in Nat

Nothing == -1

VARIABLES
    created, inbox,   \* the account
    entered,          \* messages that were put into the Inbox after they were created
    online, outages,  \* the network
    stream, events,   \* is the EventSource stream open, what is waiting in it
    cursor,           \* push_cursor row
    pc,               \* where the daemon is
    src,              \* the cursor both sources share
    attempt,          \* JmapPushTrigger._attempt, kept within the schedule
    by,               \* whose poll it is: the push source's or the timer's
    at, upto, more,   \* page of Email/changes: since, new state, has_more_changes
    got, todo,        \* messages read so far; the rest of the batch in the loop
    settled,          \* processed_messages rows
    handed,           \* history: what this process was handed
    first, enabled,   \* history: first cursor persisted; state when first ready
    deaths            \* history

account == <<created, inbox, entered>>
network == <<online, outages>>
push    == <<stream, events>>
reading == <<at, upto, more, got>>
batch   == <<todo, settled, handed>>
history == <<enabled, deaths>>
durable == <<cursor, first>>
vars == <<account, network, push, durable, pc, src, attempt, by, reading, batch, history>>

Init ==
    /\ created = 0 /\ inbox = {} /\ entered = {}
    /\ online = TRUE /\ outages = 0
    /\ stream = FALSE /\ events = {}
    /\ cursor = Nothing /\ first = Nothing /\ enabled = Nothing
    /\ pc = "stopped" /\ src = Nothing /\ attempt = 0 /\ by = "none"
    /\ at = Nothing /\ upto = Nothing /\ more = FALSE /\ got = {}
    /\ todo = {} /\ settled = {} /\ handed = {} /\ deaths = 0

-----------------------------------------------------------------------------
(* The account, the network, the stream.  Every change of the account is   *)
(* told to an open stream; on a broken line it may be told or not.         *)
Notify ==
    /\ events' \in IF ~stream THEN {events}
                   ELSE IF online THEN {events \cup {"mail"}}
                   ELSE {events, events \cup {"mail"}}
    /\ UNCHANGED <<network, stream, durable, pc, src, attempt, by, reading, batch, history>>

Arrive ==
    /\ created < NMessages /\ created' = created + 1
    /\ inbox' \in {inbox, inbox \cup {created + 1}}
    /\ UNCHANGED entered /\ Notify

Leave(m) ==
    /\ m \in inbox /\ inbox' = inbox \ {m}
    /\ UNCHANGED <<created, entered>> /\ Notify

(* Somebody moves an old message into the Inbox: an update, not a creation. *)
Enter(m) ==
    /\ m <= created /\ m \notin inbox
    /\ inbox' = inbox \cup {m} /\ entered' = entered \cup {m}
    /\ UNCHANGED created /\ Notify

NetworkStep == UNCHANGED <<account, durable, pc, src, attempt, by, reading, batch, history>>

Outage ==
    /\ online /\ outages < MaxOutages
    /\ online' = FALSE /\ outages' = outages + 1
    /\ UNCHANGED push /\ NetworkStep

Recover ==
    /\ ~online /\ online' = TRUE
    /\ UNCHANGED <<outages, push>> /\ NetworkStep

(* Another account's event, or another type's.                             *)
Unrelated ==
    /\ stream /\ events' = events \cup {"other"}
    /\ UNCHANGED <<network, stream>> /\ NetworkStep

StreamEnds ==
    /\ stream /\ stream' = FALSE /\ events' = {}
    /\ UNCHANGED network /\ NetworkStep

(* The client library reconnects a stream that is being read.  Only with   *)
(* the id of the last event can the server tell what was missed.           *)
Reconnect ==
    /\ pc = "listen" /\ ~stream /\ online
    /\ stream' = TRUE /\ events' \in {{}, {"mail"}}
    /\ UNCHANGED network /\ NetworkStep

-----------------------------------------------------------------------------
(* connect: the session, the primary account, the one Inbox-role mailbox.  *)
Connect == online

(* The process. Boot: connect, then build both sources on the cursor row.  *)
Boot ==
    /\ Connect
    /\ pc' = "loop" /\ src' = cursor
    /\ enabled' = IF enabled = Nothing THEN created ELSE enabled
    /\ UNCHANGED <<account, network, push, durable, attempt, by, reading, batch, deaths>>

Launch  == pc = "stopped" /\ Boot
Restart == pc = "down" /\ Boot

Exit(how) ==
    /\ pc' = how /\ src' = Nothing /\ attempt' = 0 /\ by' = "none"
    /\ at' = Nothing /\ upto' = Nothing /\ more' = FALSE /\ got' = {}
    /\ todo' = {} /\ handed' = {}
    /\ stream' = FALSE /\ events' = {}
    /\ UNCHANGED <<account, network, durable, settled, enabled>>

(* The stop event is looked at between polls and between messages.         *)
Stop ==
    /\ pc = "loop" \/ (pc = "handle" /\ todo # {})
    /\ Exit("stopped") /\ UNCHANGED deaths

Die ==
    /\ pc \notin {"stopped", "down"}
    /\ deaths < MaxDeaths /\ deaths' = deaths + 1
    /\ Exit("down")

(* _request: whatever the transport raises becomes a JmapError.            *)
RequestFails ==
    /\ pc \in {"changes", "get"} /\ ~online
    /\ Exit("down") /\ UNCHANGED deaths

-----------------------------------------------------------------------------
(* CheckpointedFallbackSource.poll_batch: push first, every time.          *)
Poll ==
    /\ pc = "loop" /\ pc' = "open"
    /\ UNCHANGED <<account, network, push, durable, src, attempt, by, reading, batch, history>>

(* mutant: starts again from the first entry *)
NextDelayWraps(n) == IF n + 1 < Delays THEN n + 1 ELSE 0

(* mutant: runs past the end of the schedule *)
NextDelayUnclamped(n) == n + 1

(* next_delay: the entry of the schedule for an attempt, the last for all  *)
(* that follow.                                                            *)
NextDelay(n) == IF n + 1 < Delays THEN n + 1 ELSE n

(* _disconnect: sleep for the attempt's delay, then raise what the         *)
(* fallback catches; an empty schedule only skips the sleep.               *)
Disconnect ==
    /\ attempt' = IF Delays = 0 THEN attempt ELSE NextDelay(attempt)
    /\ pc' = "timer"
    /\ UNCHANGED <<account, network, push, durable, src, by, reading, batch, history>>

OpenStream ==
    /\ pc = "open" /\ (stream \/ online)
    /\ pc' = "listen"
    /\ stream' = TRUE /\ events' \in IF stream THEN {events} ELSE {{}, {"mail"}}
    /\ UNCHANGED <<account, network, durable, src, attempt, by, reading, batch, history>>

OpenFails    == pc = "open" /\ ~stream /\ Disconnect
StreamFailed == pc = "listen" /\ ~stream /\ Disconnect

Fetch(whose) ==
    /\ pc' = "changes" /\ by' = whose /\ at' = src
    /\ UNCHANGED <<account, network, stream, durable, src, upto, more, got, batch, history>>

(* wait: events that are not about this account's mail are read and        *)
(* dropped, the first that is ends the wait and the run of failures.       *)
Wake ==
    /\ pc = "listen" /\ "mail" \in events
    /\ events' = events \ {"mail"} /\ attempt' = 0
    /\ Fetch("push")

Skip ==
    /\ pc = "listen" /\ "other" \in events
    /\ events' = events \ {"other"}
    /\ UNCHANGED <<network, stream>> /\ NetworkStep

(* mutant: the timer's turn ends without a fetch *)
TimerFiresIdle ==
    /\ pc = "timer" /\ pc' = "loop"
    /\ UNCHANGED <<account, network, push, durable, src, attempt, by, reading, batch, history>>

TimerFires ==
    /\ pc = "timer" /\ UNCHANGED <<events, attempt>>
    /\ Fetch("timer")

-----------------------------------------------------------------------------
(* fetch_new_messages, and the end of poll_batch: the shared cursor moves, *)
(* and the loop gets the messages with the same state as checkpoint.       *)
EndOfFetch ==
    /\ at' = Nothing /\ upto' = Nothing /\ more' = FALSE /\ got' = {}
    /\ by' = "none" /\ pc' = "handle"

(* mutant: the timer's source moves a cursor of its own *)
DeliverOwnCursor(s, ms) ==
    /\ src' = IF by = "timer" THEN src ELSE s
    /\ todo' = ms /\ handed' = handed \cup ms
    /\ EndOfFetch
    /\ UNCHANGED <<account, network, push, durable, attempt, settled, history>>

Deliver(s, ms) ==
    /\ src' = s /\ todo' = ms /\ handed' = handed \cup ms
    /\ EndOfFetch
    /\ UNCHANGED <<account, network, push, durable, attempt, settled, history>>

(* mutant: without a cursor, everything there is *)
BaselineReplays ==
    /\ pc = "changes" /\ online /\ at = Nothing
    /\ Deliver(created, inbox)

(* Without a cursor: Email/get with no ids, for its state alone.           *)
Baseline ==
    /\ pc = "changes" /\ online /\ at = Nothing
    /\ Deliver(created, {})

(* The server may cut its answer anywhere and say that there is more.      *)
Changes ==
    /\ pc = "changes" /\ online /\ at # Nothing
    /\ \/ at = created /\ Deliver(at, got)
       \/ \E s \in (at + 1)..created :
            /\ pc' = "get" /\ upto' = s /\ more' = (s < created)
            /\ UNCHANGED <<account, network, push, durable, src, attempt, by, at, got,
                           batch, history>>

Page == {m \in inbox : at < m /\ m <= upto}

(* mutant: each page replaces the one before *)
GetLastPage ==
    /\ pc = "get" /\ online
    /\ IF more
         THEN /\ pc' = "changes" /\ at' = upto /\ got' = Page
              /\ UNCHANGED <<account, network, push, durable, src, attempt, by, upto, more,
                             batch, history>>
         ELSE Deliver(upto, Page)

(* Email/get of a page's ids, kept when the message is in the Inbox now.   *)
Get ==
    /\ pc = "get" /\ online
    /\ IF more
         THEN /\ pc' = "changes" /\ at' = upto /\ got' = got \cup Page
              /\ UNCHANGED <<account, network, push, durable, src, attempt, by, upto, more,
                             batch, history>>
         ELSE Deliver(upto, got \cup Page)

-----------------------------------------------------------------------------
(* The loop: one message after the other, then the checkpoint.             *)
Process(m) ==
    /\ pc = "handle" /\ m \in todo
    /\ todo' = todo \ {m} /\ settled' = settled \cup {m}
    /\ UNCHANGED <<account, network, push, durable, pc, src, attempt, by, reading, handed,
                   history>>

(* mutant: the state of the account now, not the batch's *)
AcknowledgeHead ==
    /\ pc = "handle" /\ todo = {}
    /\ cursor' = created
    /\ first' = IF first = Nothing THEN created ELSE first
    /\ pc' = "loop"
    /\ UNCHANGED <<account, network, push, src, attempt, by, reading, batch, history>>

Acknowledge ==
    /\ pc = "handle" /\ todo = {}
    /\ cursor' = src
    /\ first' = IF first = Nothing THEN src ELSE first
    /\ pc' = "loop"
    /\ UNCHANGED <<account, network, push, src, attempt, by, reading, batch, history>>

-----------------------------------------------------------------------------
Daemon ==
    \/ Poll \/ OpenStream \/ OpenFails \/ StreamFailed \/ Wake \/ Skip \/ TimerFires
    \/ Baseline \/ Changes \/ Get \/ RequestFails
    \/ (\E m \in Messages : Process(m)) \/ Acknowledge

World ==
    \/ Arrive \/ \E m \in Messages : Leave(m) \/ Enter(m)
    \/ Outage \/ Recover \/ Unrelated \/ StreamEnds \/ Reconnect

Next == World \/ Launch \/ Restart \/ Stop \/ Die \/ Daemon

Spec == Init /\ [][Next]_vars

(* The loop is one task and the timer fires; Restart=on-failure; an outage *)
(* ends.  Nothing obliges a stream to end, to bring an event, or anybody   *)
(* to send mail.                                                           *)
FairSpec == Spec /\ WF_vars(Daemon) /\ WF_vars(Restart) /\ WF_vars(Recover)

-----------------------------------------------------------------------------
States == {Nothing} \cup 0..NMessages

(* Every variable has its type, and the index of the delay stays inside    *)
(* the schedule: next_delay would raise IndexError otherwise.              *)
TypeOK ==
    /\ created \in 0..NMessages /\ inbox \subseteq 1..created
    /\ entered \subseteq 1..created
    /\ online \in BOOLEAN /\ outages \in 0..MaxOutages
    /\ stream \in BOOLEAN /\ events \subseteq {"mail", "other"}
    /\ cursor \in States /\ first \in States /\ enabled \in States /\ src \in States
    /\ pc \in {"stopped", "down", "loop", "open", "listen", "timer", "changes", "get",
               "handle"}
    /\ attempt \in 0..Delays /\ (Delays > 0 => attempt < Delays)
    /\ by \in {"none", "push", "timer"}
    /\ at \in States /\ upto \in States /\ more \in BOOLEAN
    /\ got \subseteq 1..created /\ todo \subseteq 1..created
    /\ settled \subseteq 1..created /\ handed \subseteq 1..created
    /\ deaths \in 0..MaxDeaths

(* Mail that was delivered to the Inbox and has stayed there.              *)
Delivered == inbox \ entered

(* client.py fetch_new_messages with loop.py's acknowledgement: whatever   *)
(* the source has passed since the persisted cursor and is in the Inbox    *)
(* where it was delivered is in the batch or has been settled, however the *)
(* server cuts its pages and whoever moves mail between changes and get.   *)
BatchExact ==
    /\ pc \in {"handle", "loop"} /\ cursor # Nothing =>
        \A m \in Delivered : cursor < m /\ m <= src => m \in todo \cup settled
    /\ todo \cap 1..cursor = {}

(* fetch_new_messages "never replays existing mail": nothing that was      *)
(* there at the first persisted baseline is handed to the loop.            *)
NoHistoryReplayed == \A m \in handed \cup settled : first # Nothing /\ first < m

(* provider.py: push and timer share one cursor, so a process is handed a  *)
(* message once, whichever of the two fetches it and whatever fails.       *)
HandedOnce == [][\A m \in todo' \ todo : m \notin handed]_vars

(* backoff.py: a connection that keeps failing is not "silently" retried   *)
(* "fast again"; only relevant mail, or a new process, starts over.        *)
NeverFastAgain == [][attempt' < attempt => Wake \/ pc' \in {"down", "stopped"}]_vars

(* What the source and the loop promise together.                          *)
Promise == INSTANCE Settlement WITH
    inbox <- Delivered, acknowledged <- cursor, waived <- {},
    acted <- [m \in Messages |-> 0]

(* A prefix of the account's history is acknowledged only when all of it   *)
(* that was delivered to the Inbox and is still there is settled.          *)
KeepsPromise == Promise!Spec

(* What the fairness needs: a process that is up and does not wait on a    *)
(* stream has a step to take, one that died can be started again as soon   *)
(* as the network is there, and the network can come back.                 *)
NeverStuck ==
    /\ pc \notin {"stopped", "down", "listen"} => ENABLED <<Daemon>>_vars
    /\ pc = "down" /\ online => ENABLED <<Restart>>_vars
    /\ ~online => ENABLED <<Recover>>_vars

Waiting(m) == m \in Delivered \ settled /\ first # Nothing /\ first < m
Served(m)  == m \notin Delivered \/ m \in settled \/ pc = "stopped"

(* DESIGN section 8, "a flaky connection degrades to slower rather than    *)
(* silent": as long as no wait on a stream lasts for good, a message is    *)
(* fetched and settled whatever outages, deaths and lost events come.      *)
FetchedUnlessDeaf == []<>(pc # "listen") => \A m \in Messages : Waiting(m) ~> Served(m)

(* DESIGN section 8, "Spork starts with mail arriving after it was         *)
(* enabled": the first baseline is the state of the account when the       *)
(* daemon was first ready.                                                 *)
BaselineIsAtStart == first # Nothing => first <= enabled

=============================================================================
