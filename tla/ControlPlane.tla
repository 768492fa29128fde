---------------------------- MODULE ControlPlane ----------------------------
(***************************************************************************)
(* The control plane of the daemon: `spork pause` and `spork resume` reach *)
(* it over a Unix socket, flip a flag that the message loop reads, and     *)
(* queue an audit event that the message loop writes.  Server and loop are *)
(* coroutines of one thread, so each runs undisturbed up to its next       *)
(* await; what is awaited (a poll, a message, a commit, a sleep) takes     *)
(* effect on another thread, while the server may handle a request.        *)
(*                                                                         *)
(* A client issues one command, waits for the reply and gives up after its *)
(* timeout.  Flag and queue are memory: they end with the process.         *)
(***************************************************************************)
EXTENDS Integers, Sequences

CONSTANTS
    Clients,     \* runs of `spork pause` and `spork resume`
    Pauses,      \* those that pause; the others resume
    BatchSize,   \* bound: messages a poll returns
    MaxDeaths    \* bound: times the process dies

ASSUME ControlPlaneAssumption ==
    Pauses \subseteq Clients /\ BatchSize \in Nat /\ MaxDeaths \in Nat

VARIABLES
    \* DaemonState, and the loop's own list while it drains
    paused, pending, draining,
    \* the coroutines
    pc,         \* the message loop, or how the process ended
    left,       \* messages of the batch still to do
    server,     \* the control socket
    stopping,   \* stop_event
    \* the clients
    requests,   \* connections the server has not answered
    client,     \* what each client knows
    \* the audit_log rows this process wrote, and the commands it obeyed
    written, handled,
    deaths

state   == <<paused, pending, handled>>
loop    == <<pc, left, draining, written>>
clients == <<requests, client>>
vars == <<state, loop, server, stopping, clients, deaths>>

Up == {"top", "drain", "sleep", "poll", "batch", "working", "returned"}

-----------------------------------------------------------------------------
Init ==
    /\ paused = FALSE /\ pending = <<>> /\ draining = <<>>
    /\ pc = "stopped" /\ left = 0 /\ server = "unbound" /\ stopping = FALSE
    /\ requests = {} /\ client = [c \in Clients |-> "idle"]
    /\ written = <<>> /\ handled = <<>> /\ deaths = 0

(* A fresh DaemonState; the loop runs before the socket is bound.          *)
Boot ==
    /\ pc' = "top" /\ left' = 0 /\ server' = "unbound" /\ stopping' = FALSE
    /\ paused' = FALSE /\ pending' = <<>> /\ draining' = <<>>
    /\ written' = <<>> /\ handled' = <<>>
    /\ UNCHANGED <<clients, deaths>>

Launch  == pc = "stopped" /\ Boot
Restart == pc = "down" /\ Boot

(* The process is gone, and the connections it had with it; what was in    *)
(* its memory is read by nobody until Boot overwrites it.                  *)
End(how) == pc' = how /\ server' = "unbound" /\ requests' = {}

(* Any exception of the loop or of the server ends both: they share a      *)
(* TaskGroup.                                                              *)
Die ==
    /\ pc \in Up /\ deaths < MaxDeaths /\ deaths' = deaths + 1
    /\ End("down")
    /\ UNCHANGED <<state, draining, written, left, stopping, client>>

(* SIGTERM or SIGINT only sets the event.                                  *)
Signal ==
    /\ pc \in Up /\ ~stopping /\ stopping' = TRUE
    /\ UNCHANGED <<state, loop, server, clients, deaths>>

Listen ==
    /\ pc \in Up /\ server = "unbound"
    /\ server' = IF stopping THEN "closed" ELSE "listening"
    /\ UNCHANGED <<state, loop, stopping, clients, deaths>>

(* Connections that are already open are served until the process ends.    *)
CloseSocket ==
    /\ server = "listening" /\ stopping /\ server' = "closed"
    /\ UNCHANGED <<state, loop, stopping, clients, deaths>>

Exit ==
    /\ pc = "returned" /\ server = "closed"
    /\ End("stopped")
    /\ UNCHANGED <<state, draining, written, left, stopping, client, deaths>>

-----------------------------------------------------------------------------
(* The client: connect and send, or find nobody.                           *)
Issue(c) ==
    /\ client[c] = "idle"
    /\ IF server = "listening"
         THEN requests' = requests \cup {c} /\ client' = [client EXCEPT ![c] = "sent"]
         ELSE client' = [client EXCEPT ![c] = "unreachable"] /\ UNCHANGED requests
    /\ UNCHANGED <<state, loop, server, stopping, deaths>>

(* The timeout, or a connection that closed: IpcConnectionError.  The      *)
(* request stays where it is.                                              *)
GiveUp(c) ==
    /\ client[c] \in {"sent", "answered"}
    /\ client' = [client EXCEPT ![c] = "unreachable"]
    /\ UNCHANGED <<state, loop, server, stopping, requests, deaths>>

Receive(c) ==
    /\ client[c] = "answered" /\ client' = [client EXCEPT ![c] = "ok"]
    /\ UNCHANGED <<state, loop, server, stopping, requests, deaths>>

(* _pause and _resume: the flag and the event, in one piece.               *)
Handle(c) ==
    /\ pc \in Up /\ c \in requests
    /\ requests' = requests \ {c}
    /\ client' = IF client[c] = "sent" THEN [client EXCEPT ![c] = "answered"] ELSE client
    /\ paused' = (c \in Pauses)
    /\ pending' = Append(pending, c)
    /\ handled' = Append(handled, c)
    /\ UNCHANGED <<loop, server, stopping, deaths>>

-----------------------------------------------------------------------------
(* The loop.  No await between the end of the drain and the look at the    *)
(* flag.                                                                   *)
Decide == pc' = IF paused THEN "sleep" ELSE "poll"

(* mutant: the flag is looked at before the drain *)
TopSleepsFirst ==
    /\ pc = "top"
    /\ IF stopping THEN pc' = "returned" /\ UNCHANGED <<pending, draining>>
       ELSE IF pending = <<>> \/ paused THEN Decide /\ UNCHANGED <<pending, draining>>
       ELSE pc' = "drain" /\ draining' = pending /\ pending' = <<>>
    /\ UNCHANGED <<paused, handled, left, written, server, stopping, clients, deaths>>

(* mutant: a paused loop never looks at the stop event *)
TopPausedForever ==
    /\ pc = "top"
    /\ IF stopping /\ ~paused THEN pc' = "returned" /\ UNCHANGED <<pending, draining>>
       ELSE IF pending = <<>> THEN Decide /\ UNCHANGED <<pending, draining>>
       ELSE pc' = "drain" /\ draining' = pending /\ pending' = <<>>
    /\ UNCHANGED <<paused, handled, left, written, server, stopping, clients, deaths>>

Top ==
    /\ pc = "top"
    /\ IF stopping THEN pc' = "returned" /\ UNCHANGED <<pending, draining>>
       ELSE IF pending = <<>> THEN Decide /\ UNCHANGED <<pending, draining>>
       ELSE pc' = "drain" /\ draining' = pending /\ pending' = <<>>
    /\ UNCHANGED <<paused, handled, left, written, server, stopping, clients, deaths>>

Write ==
    /\ pc = "drain" /\ draining # <<>>
    /\ written' = Append(written, Head(draining))
    /\ draining' = Tail(draining)
    /\ UNCHANGED <<state, pc, left, server, stopping, clients, deaths>>

(* mutant: empty the shared list when the drain is over, as .clear() would *)
DrainedClears ==
    /\ pc = "drain" /\ draining = <<>>
    /\ pending' = <<>> /\ Decide
    /\ UNCHANGED <<paused, handled, left, draining, written, server, stopping, clients, deaths>>

(* mutant: the decision was taken before the drain *)
DrainedGoesOn ==
    /\ pc = "drain" /\ draining = <<>> /\ pc' = "poll"
    /\ UNCHANGED <<state, left, draining, written, server, stopping, clients, deaths>>

Drained ==
    /\ pc = "drain" /\ draining = <<>> /\ Decide
    /\ UNCHANGED <<state, left, draining, written, server, stopping, clients, deaths>>

Wake ==
    /\ pc = "sleep" /\ pc' = "top"
    /\ UNCHANGED <<state, left, draining, written, server, stopping, clients, deaths>>

PollReturns ==
    /\ pc = "poll"
    /\ \E n \in 0..BatchSize : left' = n /\ pc' = IF n = 0 THEN "sleep" ELSE "batch"
    /\ UNCHANGED <<state, draining, written, server, stopping, clients, deaths>>

(* mutant: one message too many *)
TakeOneTooMany ==
    /\ pc = "batch"
    /\ IF left < 0 THEN pc' = "top"
       ELSE pc' = IF stopping THEN "returned" ELSE "working"
    /\ UNCHANGED <<state, left, draining, written, server, stopping, clients, deaths>>

(* The stop event is looked at before each message, the pause is not.      *)
TakeMessage ==
    /\ pc = "batch"
    /\ IF left = 0 THEN pc' = "top"
       ELSE pc' = IF stopping THEN "returned" ELSE "working"
    /\ UNCHANGED <<state, left, draining, written, server, stopping, clients, deaths>>

MessageDone ==
    /\ pc = "working" /\ pc' = "batch" /\ left' = left - 1
    /\ UNCHANGED <<state, draining, written, server, stopping, clients, deaths>>

-----------------------------------------------------------------------------
Loop == Top \/ Write \/ Drained \/ Wake \/ PollReturns \/ TakeMessage \/ MessageDone
Server == Listen \/ CloseSocket \/ Exit

Next ==
    \/ Launch \/ Restart \/ Die \/ Signal
    \/ \E c \in Clients : Issue(c) \/ GiveUp(c) \/ Receive(c) \/ Handle(c)
    \/ Loop \/ Server

Spec == Init /\ [][Next]_vars

(* Coroutines whose awaits end are resumed.  That a poll ends is an        *)
(* assumption on the source (see module Triage); no fairness for clients.  *)
FairSpec == Spec /\ WF_vars(Loop) /\ WF_vars(Server)

-----------------------------------------------------------------------------
Knows == {"idle", "sent", "answered", "ok", "unreachable"}

TypeOK ==
    /\ paused \in BOOLEAN /\ stopping \in BOOLEAN
    /\ pending \in Seq(Clients) /\ draining \in Seq(Clients)
    /\ written \in Seq(Clients) /\ handled \in Seq(Clients)
    /\ pc \in Up \cup {"stopped", "down"} /\ left \in 0..BatchSize
    /\ server \in {"unbound", "listening", "closed"}
    /\ requests \subseteq Clients /\ client \in [Clients -> Knows]
    /\ deaths \in 0..MaxDeaths

(* The queue is exact: what was written, what the loop is draining and     *)
(* what waits are together the commands obeyed, each once and in order,    *)
(* whatever arrives in the middle of a drain.                              *)
QueueExact == (written \o draining) \o pending = handled

(* A pause that the audit log shows is in force: the loop polls and        *)
(* processes nothing, unless a later resume is already on its way there.   *)
Acting == pc \in {"poll", "batch", "working"}
AuditedPauseHolds ==
    Acting /\ written # <<>> /\ written[Len(written)] \in Pauses
        => \E i \in 1..Len(pending) : pending[i] \notin Pauses

(* The flag is what the last command said, a drain ends before the loop    *)
(* goes on, and a batch that is worked on is not empty: with the above,    *)
(* enough for the next state.                                              *)
LastCommandHolds ==
    /\ handled = <<>> => ~paused
    /\ handled # <<>> => (paused <=> handled[Len(handled)] \in Pauses)
DrainEnds == pc \in Up \ {"drain"} => draining = <<>>
BatchLeft == pc = "working" => left > 0

Inductive == QueueExact /\ AuditedPauseHolds /\ LastCommandHolds /\ DrainEnds /\ BatchLeft

(* The loop has a step to take until it returns, and after that the server *)
(* has, if the daemon was told to stop: what the fairness needs.           *)
NeverStuck ==
    /\ pc \in Up \ {"returned"} => ENABLED <<Loop>>_vars
    /\ pc = "returned" /\ stopping => ENABLED <<Server>>_vars

(* Every command obeyed reaches the audit log, unless the process ends.    *)
Obeyed(c)  == \E i \in 1..Len(handled) : handled[i] = c
Audited(c) == \E i \in 1..Len(written) : written[i] = c
ObeyedIsAudited ==
    \A c \in Clients : Obeyed(c) ~> (Audited(c) \/ stopping \/ pc \notin Up)

(* A stop ends the process, paused or not, whatever the loop was doing.    *)
StopStops == stopping ~> pc \notin Up

=============================================================================
