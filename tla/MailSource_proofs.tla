-------------------------- MODULE MailSource_proofs --------------------------
(* What module MailSource keeps for every number of messages, deaths and    *)
(* outages and every backoff schedule.                                      *)
EXTENDS MailSource, TLAPS

(* Where the cursors are in each phase of a poll.                           *)
PhaseInv ==
    /\ (first = Nothing) <=> (cursor = Nothing)
    /\ first <= cursor /\ cursor <= created /\ src <= created
    /\ pc \in {"stopped", "down"} => src = Nothing /\ handed = {}
    /\ pc \in {"loop", "open", "listen", "timer", "changes", "get"} => src = cursor
    /\ pc \notin {"changes", "get"} => got = {} /\ at = Nothing
    /\ pc # "handle" => todo = {}
    /\ pc \in {"changes", "get"} => src <= at /\ at <= created
    /\ pc \in {"changes", "get"} /\ src = Nothing => at = Nothing /\ pc = "changes"
    /\ pc = "get" => at < upto /\ upto <= created /\ at # Nothing
    /\ pc = "handle" => src # Nothing /\ cursor <= src

(* What is in hand: nothing the source has passed is missing, nothing it    *)
(* hands out was there before.                                              *)
CoverInv ==
    /\ \A m \in got : src < m /\ m <= at /\ src # Nothing
    /\ src # Nothing => \A m \in Delivered : src < m /\ m <= at => m \in got
    /\ \A m \in todo : cursor < m /\ m <= src /\ cursor # Nothing
    /\ \A m \in handed : m <= src
    /\ \A m \in handed \cup settled : first # Nothing /\ first < m
    /\ cursor # Nothing =>
         \A m \in Delivered : first < m /\ m <= src => m \in todo \cup settled
    /\ \A m \in Delivered : first # Nothing /\ first < m /\ m <= cursor => m \in settled

Inv == TypeOK /\ PhaseInv /\ CoverInv

-----------------------------------------------------------------------------
(* Types.                                                                   *)
LEMMA ExitTypes ==
  ASSUME TypeOK, NEW how \in {"stopped", "down"}, Exit(how), deaths' \in 0..MaxDeaths
  PROVE  TypeOK'
<1> USE DEF Exit, account, network, durable
<1>1. /\ created' \in 0..NMessages /\ inbox' \subseteq 1..created'
      /\ entered' \subseteq 1..created' /\ settled' \subseteq 1..created'
      /\ online' \in BOOLEAN /\ outages' \in 0..MaxOutages
      /\ cursor' \in States /\ first' \in States /\ enabled' \in States
  BY DEF TypeOK
<1>2. /\ src' \in States /\ at' \in States /\ upto' \in States
      /\ pc' \in {"stopped", "down"} /\ by' = "none" /\ more' = FALSE
      /\ stream' = FALSE /\ events' = {} /\ got' = {} /\ todo' = {} /\ handed' = {}
  BY DEF States
<1>3. attempt' \in 0..Delays /\ (Delays > 0 => attempt' < Delays)
  BY MailSourceAssumption
<1> QED
  BY <1>1, <1>2, <1>3 DEF TypeOK

LEMMA DeliverTypes ==
  ASSUME TypeOK, NEW s \in 0..NMessages, NEW ms \in SUBSET (1..created), Deliver(s, ms)
  PROVE  TypeOK'
BY DEF TypeOK, States, Nothing, Deliver, EndOfFetch, account, network, push, durable, history

LEMMA TypeStep ==
  ASSUME TypeOK, PhaseInv, [Next]_vars
  PROVE  TypeOK'
<1> USE MailSourceAssumption
<1> USE DEF TypeOK, States, Nothing, account, network, push, durable, reading, batch, history,
            Messages
<1>1. CASE Arrive
  <2>1. /\ created' \in 0..NMessages /\ created' = created + 1
        /\ inbox' \subseteq 1..created'
    BY <1>1 DEF Arrive, Notify
  <2>2. 1..created \subseteq 1..created'
    BY <2>1
  <2>3. events' \subseteq {"mail", "other"}
    BY <1>1 DEF Arrive, Notify
  <2> QED
    BY <1>1, <2>1, <2>2, <2>3 DEF Arrive, Notify
<1>2. ASSUME NEW m \in Messages, Leave(m) \/ Enter(m) PROVE TypeOK'
  <2>1. events' \subseteq {"mail", "other"}
    BY <1>2 DEF Leave, Enter, Notify
  <2>2. inbox' \subseteq 1..created /\ entered' \subseteq 1..created /\ created' = created
    <3>1. CASE Leave(m)
      BY <3>1 DEF Leave, Notify
    <3>2. CASE Enter(m)
      <4>1. m \in 1..created
        BY <3>2 DEF Enter
      <4> QED
        BY <3>2, <4>1 DEF Enter
    <3> QED
      BY <1>2, <3>1, <3>2
  <2> QED
    BY <1>2, <2>1, <2>2 DEF Leave, Enter, Notify
<1>3. CASE Outage \/ Recover
  <2>1. outages' \in 0..MaxOutages
    BY <1>3 DEF Outage, Recover
  <2>2. online' \in BOOLEAN
    BY <1>3 DEF Outage, Recover
  <2> QED
    BY <1>3, <2>1, <2>2 DEF Outage, Recover, NetworkStep
<1>4. CASE Unrelated \/ StreamEnds \/ Reconnect \/ Skip
  <2>1. stream' \in BOOLEAN /\ events' \subseteq {"mail", "other"}
    BY <1>4 DEF Unrelated, StreamEnds, Reconnect, Skip
  <2> QED
    BY <1>4, <2>1 DEF Unrelated, StreamEnds, Reconnect, Skip, NetworkStep
<1>5. CASE Launch \/ Restart
  BY <1>5 DEF Launch, Restart, Boot
<1>6. CASE Stop \/ Die \/ RequestFails
  <2>1. deaths' \in 0..MaxDeaths
    BY <1>6 DEF Stop, Die, RequestFails
  <2> QED
    BY <1>6, <2>1, ExitTypes DEF Stop, Die, RequestFails
<1>7. CASE Poll
  BY <1>7 DEF Poll
<1>8. CASE OpenStream
  BY <1>8 DEF OpenStream
<1>9. CASE OpenFails \/ StreamFailed
  <2>1. attempt' \in 0..Delays /\ (Delays > 0 => attempt' < Delays)
    BY <1>9 DEF OpenFails, StreamFailed, Disconnect, NextDelay
  <2> QED
    BY <1>9, <2>1 DEF OpenFails, StreamFailed, Disconnect
<1>10. CASE Wake
  BY <1>10 DEF Wake, Fetch
<1>11. CASE TimerFires
  BY <1>11 DEF TimerFires, Fetch
<1>12. CASE Baseline
  BY <1>12, DeliverTypes DEF Baseline
<1>13. CASE Changes
  <2>1. CASE at = created /\ Deliver(at, got)
    BY <2>1, DeliverTypes
  <2>2. CASE ~(at = created /\ Deliver(at, got))
    <3>1. PICK s \in (at + 1)..created :
            /\ pc' = "get" /\ upto' = s /\ more' = (s < created)
            /\ UNCHANGED <<account, network, push, durable, src, attempt, by, at, got,
                           batch, history>>
      BY <1>13, <2>2 DEF Changes
    <3>2. upto' \in 0..NMessages
      BY <3>1
    <3>3. more' \in BOOLEAN
      BY <3>1
    <3> QED
      BY <3>1, <3>2, <3>3
  <2> QED
    BY <2>1, <2>2
<1>14. CASE Get
  <2>1. Page \subseteq 1..created /\ got \cup Page \subseteq 1..created
    BY DEF Page
  <2>2. CASE more
    BY <1>14, <2>1, <2>2 DEF Get
  <2>3. CASE ~more
    <3>1. pc = "get" /\ Deliver(upto, got \cup Page)
      BY <1>14, <2>3 DEF Get
    <3>2. upto \in 0..NMessages
      BY <3>1 DEF PhaseInv
    <3> QED
      BY <2>1, <3>1, <3>2, DeliverTypes
  <2> QED
    BY <2>2, <2>3
<1>15. ASSUME NEW m \in Messages, Process(m) PROVE TypeOK'
  BY <1>15 DEF Process
<1>16. CASE Acknowledge
  BY <1>16 DEF Acknowledge
<1>17. CASE UNCHANGED vars
  BY <1>17 DEF vars
<1> QED
  BY <1>1, <1>2, <1>3, <1>4, <1>5, <1>6, <1>7, <1>8, <1>9, <1>10, <1>11, <1>12, <1>13, <1>14,
     <1>15, <1>16, <1>17 DEF Next, World, Daemon

-----------------------------------------------------------------------------
(* What the world does leaves the cursors alone and can only make Delivered *)
(* smaller, except for a message that no read has reached.                  *)
LEMMA WorldStep ==
  ASSUME Inv, TypeOK', created <= created',
         \A m \in Delivered' : m \in Delivered \/ created < m,
         UNCHANGED <<durable, pc, src, reading, todo, handed, settled>>
  PROVE  PhaseInv' /\ CoverInv'
<1> USE DEF durable, reading, Inv, TypeOK, States, Nothing
<1>1. PhaseInv'
  BY DEF PhaseInv
<1>2. \A m \in Delivered : m \in Int
  BY DEF Delivered
<1>3. at <= created /\ src <= created /\ cursor <= created
  BY DEF PhaseInv
<1>4. \A m \in Delivered' : (m <= at \/ m <= src \/ m <= cursor) => m \in Delivered
  <2>1. \A m \in Delivered' : m \in Int
    BY DEF Delivered
  <2> QED
    BY <1>3, <2>1
<1>5. CoverInv'
  BY <1>4 DEF CoverInv
<1> QED
  BY <1>1, <1>5

LEMMA ExitStep ==
  ASSUME Inv, NEW how \in {"stopped", "down"}, Exit(how)
  PROVE  PhaseInv' /\ CoverInv'
<1> USE DEF Exit, account, network, durable, Inv, TypeOK, States, Nothing
<1>1. PhaseInv'
  BY DEF PhaseInv
<1>2. Delivered' = Delivered
  BY DEF Delivered
<1>3. \A m \in Delivered' : cursor' # Nothing /\ first' < m /\ m <= src' => m \in todo' \cup settled'
  BY DEF Delivered
<1>4. CoverInv'
  BY <1>2, <1>3 DEF CoverInv, PhaseInv
<1> QED
  BY <1>1, <1>4

(* The end of a fetch that has read everything up to s.                     *)
LEMMA DeliverStep ==
  ASSUME Inv, pc \in {"changes", "get"}, NEW s \in 0..created, NEW ms \in SUBSET (1..created),
         Deliver(s, ms), src <= s,
         \A m \in ms : src < m /\ m <= s /\ src # Nothing,
         src # Nothing => \A m \in Delivered : src < m /\ m <= s => m \in ms
  PROVE  PhaseInv' /\ CoverInv'
<1> USE DEF Deliver, EndOfFetch, account, network, push, durable, history, Inv, TypeOK, States,
            Nothing
<1>1. src = cursor /\ todo = {}
  BY DEF PhaseInv
<1>2. PhaseInv'
  BY <1>1 DEF PhaseInv
<1>3. Delivered' = Delivered /\ \A m \in Delivered : m \in Int
  BY DEF Delivered
<1>4. \A m \in handed' : m <= s
  BY DEF CoverInv
<1>5. \A m \in ms : first # Nothing /\ first < m
  BY <1>1 DEF PhaseInv
<1>6. cursor # Nothing => \A m \in Delivered : first < m /\ m <= s => m \in ms \cup settled
  <2> SUFFICES ASSUME cursor # Nothing, NEW m \in Delivered, first < m, m <= s
               PROVE  m \in ms \cup settled
    OBVIOUS
  <2>1. CASE m <= src
    BY <1>1, <2>1 DEF CoverInv, PhaseInv
  <2>2. CASE src < m
    BY <1>1, <2>2
  <2> QED
    BY <1>3, <2>1, <2>2
<1>7. CoverInv'
  BY <1>1, <1>3, <1>4, <1>5, <1>6 DEF CoverInv
<1> QED
  BY <1>2, <1>7

LEMMA InvStep ==
  ASSUME Inv, [Next]_vars
  PROVE  Inv'
<1> USE DEF States, Nothing, account, network, push, durable, reading, batch, history, Messages
<1>t. TypeOK'
  BY TypeStep DEF Inv
<1> SUFFICES PhaseInv' /\ CoverInv'
  BY <1>t DEF Inv
<1>1. CASE Arrive
  <2>1. \A m \in Delivered' : m \in Delivered \/ created < m
    BY <1>1 DEF Arrive, Delivered, Inv, TypeOK
  <2>2. created' \in Nat /\ created <= created'
    BY <1>1 DEF Arrive, Inv, TypeOK
  <2> QED
    BY <1>1, <1>t, <2>1, <2>2, WorldStep DEF Arrive, Notify
<1>2. ASSUME NEW m \in Messages, Leave(m) \/ Enter(m) PROVE PhaseInv' /\ CoverInv'
  <2>1. \A x \in Delivered' : x \in Delivered
    BY <1>2 DEF Leave, Enter, Delivered
  <2>2. created' = created /\ created \in Nat
    BY <1>2 DEF Leave, Enter, Inv, TypeOK
  <2> QED
    BY <1>2, <1>t, <2>1, <2>2, WorldStep DEF Leave, Enter, Notify
<1>3. CASE Outage \/ Recover \/ Unrelated \/ StreamEnds \/ Reconnect \/ Skip
  <2>1. UNCHANGED <<account, durable, pc, src, attempt, by, reading, batch, history>>
    BY <1>3 DEF Outage, Recover, Unrelated, StreamEnds, Reconnect, Skip, NetworkStep
  <2>2. Delivered' = Delivered /\ created' = created /\ created \in Nat
    BY <2>1 DEF Delivered, Inv, TypeOK
  <2> QED
    BY <1>t, <2>1, <2>2, WorldStep
<1>4. CASE Launch \/ Restart
  <2>1. /\ pc \in {"stopped", "down"} /\ pc' = "loop" /\ src' = cursor
        /\ UNCHANGED <<account, durable, reading, batch>>
    BY <1>4 DEF Launch, Restart, Boot
  <2>2. PhaseInv'
    BY <2>1 DEF PhaseInv, Inv, TypeOK
  <2>3. CoverInv'
    BY <2>1 DEF CoverInv, PhaseInv, Delivered, Inv, TypeOK
  <2> QED
    BY <2>2, <2>3
<1>5. CASE Stop \/ Die \/ RequestFails
  BY <1>5, ExitStep DEF Stop, Die, RequestFails
<1>6. CASE Poll \/ OpenStream \/ OpenFails \/ StreamFailed
  <2>1. /\ pc \in {"loop", "open", "listen"} /\ pc' \in {"open", "listen", "timer"}
        /\ UNCHANGED <<account, durable, src, reading, batch>>
    BY <1>6 DEF Poll, OpenStream, OpenFails, StreamFailed, Disconnect
  <2>2. PhaseInv'
    BY <2>1 DEF PhaseInv, Inv, TypeOK
  <2>3. CoverInv'
    BY <2>1 DEF CoverInv, Delivered, Inv
  <2> QED
    BY <2>2, <2>3
<1>7. CASE Wake \/ TimerFires
  <2>1. /\ pc \in {"listen", "timer"} /\ pc' = "changes" /\ at' = src
        /\ UNCHANGED <<account, durable, src, got, batch>>
    BY <1>7 DEF Wake, TimerFires, Fetch
  <2>2. PhaseInv'
    BY <2>1 DEF PhaseInv, Inv, TypeOK
  <2>3. CoverInv'
    BY <2>1 DEF CoverInv, PhaseInv, Delivered, Inv, TypeOK
  <2> QED
    BY <2>2, <2>3
<1>8. CASE Baseline
  <2>1. src = Nothing /\ src <= created /\ created \in 0..created
    BY <1>8 DEF Baseline, PhaseInv, Inv, TypeOK
  <2> QED
    BY <1>8, <2>1, DeliverStep DEF Baseline
<1>9. CASE Changes
  <2>1. pc = "changes" /\ at # Nothing /\ at \in 0..created /\ src <= at /\ src # Nothing
    BY <1>9 DEF Changes, PhaseInv, Inv, TypeOK
  <2>2. CASE at = created /\ Deliver(at, got)
    <3>1. got \in SUBSET (1..created)
      BY DEF Inv, TypeOK
    <3> QED
      BY <2>1, <2>2, <3>1, DeliverStep DEF Inv, CoverInv
  <2>3. CASE ~(at = created /\ Deliver(at, got))
    <3>1. /\ upto' \in (at + 1)..created /\ pc' = "get"
          /\ UNCHANGED <<account, durable, src, at, got, batch>>
      BY <1>9, <2>3 DEF Changes
    <3>2. PhaseInv'
      BY <2>1, <3>1 DEF PhaseInv, Inv, TypeOK
    <3>3. CoverInv'
      BY <3>1 DEF CoverInv, Delivered, Inv
    <3> QED
      BY <3>2, <3>3
  <2> QED
    BY <2>2, <2>3
<1>10. CASE Get
  <2> DEFINE ms == got \cup Page
  <2>1. /\ pc = "get" /\ src # Nothing /\ src <= at /\ at < upto /\ upto \in 0..created
        /\ at \in 0..created
    BY <1>10 DEF Get, PhaseInv, Inv, TypeOK
  <2>2. ms \in SUBSET (1..created)
    BY DEF Page, Inv, TypeOK
  <2>3. \A m \in ms : src < m /\ m <= upto
    BY <2>1, <2>2 DEF Page, CoverInv, Inv, TypeOK
  <2>4. \A m \in Delivered : src < m /\ m <= upto => m \in ms
    BY <2>1 DEF Page, Delivered, CoverInv, Inv, TypeOK
  <2>5. CASE more
    <3>1. /\ pc' = "changes" /\ at' = upto /\ got' = ms
          /\ UNCHANGED <<account, durable, src, batch>>
      BY <1>10, <2>5 DEF Get
    <3>2. PhaseInv'
      BY <2>1, <3>1 DEF PhaseInv, Inv, TypeOK
    <3>3. CoverInv'
      BY <2>1, <2>3, <2>4, <3>1 DEF CoverInv, Delivered, Inv
    <3> QED
      BY <3>2, <3>3
  <2>6. CASE ~more
    <3>1. Deliver(upto, ms)
      BY <1>10, <2>6 DEF Get
    <3>2. src <= upto
      BY <2>1 DEF Inv, TypeOK
    <3> QED
      BY <2>1, <2>2, <2>3, <2>4, <3>1, <3>2, DeliverStep
  <2> QED
    BY <2>5, <2>6
<1>11. ASSUME NEW m \in Messages, Process(m) PROVE PhaseInv' /\ CoverInv'
  <2>1. /\ pc = "handle" /\ m \in todo /\ todo' = todo \ {m} /\ settled' = settled \cup {m}
        /\ UNCHANGED <<account, durable, pc, src, reading, handed>>
    BY <1>11 DEF Process
  <2>2. PhaseInv'
    BY <2>1 DEF PhaseInv, Inv, TypeOK
  <2>3. first # Nothing /\ first < m
    BY <2>1 DEF CoverInv, PhaseInv, Inv, TypeOK
  <2>4. CoverInv'
    BY <2>1, <2>3 DEF CoverInv, Delivered, Inv
  <2> QED
    BY <2>2, <2>4
<1>12. CASE Acknowledge
  <2>1. /\ pc = "handle" /\ todo = {} /\ pc' = "loop" /\ cursor' = src
        /\ first' = IF first = Nothing THEN src ELSE first
        /\ UNCHANGED <<account, src, reading, batch>>
    BY <1>12 DEF Acknowledge
  <2>2. src # Nothing /\ cursor <= src /\ at = Nothing /\ got = {}
    BY <2>1 DEF PhaseInv, Inv
  <2>3. PhaseInv'
    BY <2>1, <2>2 DEF PhaseInv, Inv, TypeOK
  <2>4. CASE first = Nothing
    <3>1. handed = {} /\ settled = {} /\ first' = src /\ Delivered' = Delivered
      BY <2>1, <2>4 DEF CoverInv, Inv, Delivered
    <3>2. \A x \in Delivered : ~(src < x /\ x <= src) /\ ~(src < x /\ x <= at)
      BY <2>2 DEF Inv, TypeOK, Delivered
    <3> QED
      BY <2>1, <2>2, <2>3, <3>1, <3>2 DEF CoverInv
  <2>5. CASE first # Nothing
    <3>1. cursor # Nothing /\ first' = first /\ Delivered' = Delivered
      BY <2>1, <2>5 DEF PhaseInv, Inv, Delivered
    <3>2. \A x \in Delivered : first < x /\ x <= src => x \in settled
      BY <2>1, <3>1 DEF CoverInv, Inv
    <3> QED
      BY <2>1, <2>2, <2>3, <3>1, <3>2 DEF CoverInv, Inv
  <2> QED
    BY <2>4, <2>5
<1>13. CASE UNCHANGED vars
  BY <1>13 DEF vars, Inv, PhaseInv, CoverInv, Delivered
<1> QED
  BY <1>1, <1>2, <1>3, <1>4, <1>5, <1>6, <1>7, <1>8, <1>9, <1>10, <1>11, <1>12, <1>13
     DEF Next, World, Daemon

LEMMA InvInit == Init => Inv
<1> SUFFICES ASSUME Init PROVE Inv
  OBVIOUS
<1> USE DEF Init, States, Nothing
<1>1. TypeOK
  <2>1. /\ created \in 0..NMessages /\ outages \in 0..MaxOutages /\ deaths \in 0..MaxDeaths
        /\ attempt \in 0..Delays /\ (Delays > 0 => attempt < Delays)
    BY MailSourceAssumption
  <2>2. /\ inbox = {} /\ entered = {} /\ got = {} /\ todo = {} /\ settled = {} /\ handed = {}
        /\ events = {} /\ online \in BOOLEAN /\ stream \in BOOLEAN /\ more \in BOOLEAN
    OBVIOUS
  <2> QED
    BY <2>1, <2>2 DEF TypeOK
<1>2. PhaseInv
  BY DEF PhaseInv
<1>3. CoverInv
  BY DEF CoverInv, Delivered
<1> QED
  BY <1>1, <1>2, <1>3 DEF Inv

LEMMA InvHolds == Spec => []Inv
<1>1. Init => Inv
  BY InvInit
<1>2. Inv /\ [Next]_vars => Inv'
  BY InvStep
<1> QED
  BY <1>1, <1>2, PTL DEF Spec

-----------------------------------------------------------------------------
(* Type correctness; the index of the delay never leaves the schedule.      *)
THEOREM TypeCorrect == Spec => []TypeOK
<1>1. Inv => TypeOK
  BY DEF Inv
<1> QED
  BY <1>1, InvHolds, PTL

(* However the server cuts its pages and whichever source fetches, a batch  *)
(* holds everything the shared cursor has passed.                           *)
THEOREM BatchIsExact == Spec => []BatchExact
<1>1. Inv => BatchExact
  <2> SUFFICES ASSUME Inv PROVE BatchExact
    OBVIOUS
  <2> USE DEF Inv, TypeOK, States, Nothing
  <2>1. todo \cap 1..cursor = {}
    BY DEF CoverInv
  <2>2. ASSUME cursor # Nothing, NEW m \in Delivered, cursor < m, m <= src
        PROVE  m \in todo \cup settled
    <3>1. first < m
      BY <2>2 DEF PhaseInv, Delivered
    <3> QED
      BY <2>2, <3>1 DEF CoverInv
  <2> QED
    BY <2>1, <2>2 DEF BatchExact
<1> QED
  BY <1>1, InvHolds, PTL

(* No message that was there at the first persisted baseline is handled.    *)
THEOREM HistoryStays == Spec => []NoHistoryReplayed
<1>1. Inv => NoHistoryReplayed
  BY DEF Inv, CoverInv, NoHistoryReplayed
<1> QED
  BY <1>1, InvHolds, PTL

(* A process is handed a message once, by push or by the timer: what Deliver *)
(* hands over lies beyond the shared cursor, what was handed over before     *)
(* does not.                                                                 *)
THEOREM HandedOverOnce == Spec => HandedOnce
<1>1. Inv /\ [Next]_vars => [\A m \in todo' \ todo : m \notin handed]_vars
  <2> SUFFICES ASSUME Inv, Next, NEW m \in todo' \ todo PROVE m \notin handed
    BY DEF vars, batch
  <2> USE DEF batch
  <2>1. PICK s \in States, ms \in SUBSET (1..created) :
          Deliver(s, ms) /\ \A x \in ms : src < x /\ x \in Int
    <3>1. CASE Baseline
      BY <3>1 DEF Baseline, Inv, TypeOK, States
    <3>2. CASE Changes
      <4>1. at \in States /\ got \in SUBSET (1..created) /\ \A x \in got : src < x /\ x \in Int
        BY DEF Inv, TypeOK, CoverInv
      <4> QED
        BY <3>2, <4>1 DEF Changes
    <3>3. CASE Get
      <4>1. ~more /\ Deliver(upto, got \cup Page)
        BY <3>3 DEF Get
      <4>2. got \cup Page \in SUBSET (1..created) /\ upto \in States
        BY DEF Page, Inv, TypeOK
      <4>3. \A x \in got \cup Page : src < x /\ x \in Int
        BY <3>3, <4>2 DEF Page, Get, Inv, TypeOK, CoverInv, PhaseInv, States, Nothing
      <4> QED
        BY <4>1, <4>2, <4>3
    <3>4. CASE ~Baseline /\ ~Changes /\ ~Get
      <4>1. todo' \subseteq todo
        BY <3>4 DEF Next, World, Daemon, Arrive, Leave, Enter, Notify, Outage, Recover,
           Unrelated, StreamEnds, Reconnect, NetworkStep, Launch, Restart, Boot, Stop, Die,
           RequestFails, Exit, Poll, OpenStream, OpenFails, StreamFailed, Disconnect, Wake,
           Skip, TimerFires, Fetch, Process, Acknowledge
      <4> QED
        BY <4>1
    <3> QED
      BY <3>1, <3>2, <3>3, <3>4
  <2>2. m \in ms
    BY <2>1 DEF Deliver
  <2>3. \A x \in handed : x <= src
    BY DEF Inv, CoverInv
  <2> QED
    BY <2>1, <2>2, <2>3 DEF Inv, TypeOK, States, Nothing
<1> QED
  BY <1>1, InvHolds, PTL DEF Spec, HandedOnce

(* What module Triage takes for granted of poll_batch, which is one action   *)
(* there (Poll) and many steps of several actors here.  A poll that returns *)
(* has moved the source's cursor to a state of the account, no further and  *)
(* never back; the batch is what was delivered between the two and is still *)
(* there, with nothing from before, nothing from beyond, and nothing at all *)
(* on the first poll; and the cursor moves at no other time, but to the     *)
(* persisted one when a process starts.                                     *)
HandsOver == pc # "handle" /\ pc' = "handle"
PollContract ==
    /\ HandsOver =>
         /\ UNCHANGED <<account, cursor, first, settled>>
         /\ src <= src' /\ src' \in 0..created
         /\ todo' \subseteq {m \in 1..created : src < m /\ m <= src'}
         /\ IF src = Nothing THEN todo' = {}
            ELSE {m \in Delivered : src < m /\ m <= src'} \subseteq todo'
    /\ ~HandsOver => todo' \subseteq todo
    /\ src' = src \/ HandsOver \/ pc' \in {"stopped", "down"}
         \/ (pc \in {"stopped", "down"} /\ src' = cursor)

(* Every step keeps the contract of poll_batch: JMAPProvider does what      *)
(* module Triage's loop takes for granted of it, arrivals, removals,        *)
(* failing requests and full fetches included.                              *)
THEOREM PollsAsTriageAssumes == Spec => [][PollContract]_vars
<1>1. Inv /\ [Next]_vars => [PollContract]_vars
  <2> SUFFICES ASSUME Inv, Next PROVE PollContract
    OBVIOUS
  <2> USE DEF batch, durable, States, Nothing
  <2>1. CASE Baseline
    <3>1. src = Nothing /\ created \in Nat
      BY <2>1 DEF Baseline, Inv, TypeOK, PhaseInv
    <3> QED
      BY <2>1, <3>1 DEF Baseline, Deliver, EndOfFetch, HandsOver, PollContract
  <2>2. ASSUME NEW s \in 0..created, NEW ms \in SUBSET (1..created), pc \in {"changes", "get"},
               Deliver(s, ms), UNCHANGED account, src # Nothing, src <= s,
               \A x \in ms : src < x /\ x <= s,
               \A x \in Delivered : src < x /\ x <= s => x \in ms
        PROVE  PollContract
    BY <2>2 DEF Deliver, EndOfFetch, HandsOver, PollContract
  <2>3. CASE Changes
    <3>1. CASE pc' = "get"
      BY <2>3, <3>1 DEF Changes, Deliver, EndOfFetch, HandsOver, PollContract
    <3>2. CASE Deliver(at, got)
      <4>1. /\ src # Nothing /\ src <= at /\ at \in 0..created /\ got \in SUBSET (1..created)
            /\ \A x \in got : src < x /\ x <= at
            /\ \A x \in Delivered : src < x /\ x <= at => x \in got
        BY <2>3 DEF Changes, Inv, TypeOK, PhaseInv, CoverInv
      <4>2. UNCHANGED account
        BY <3>2 DEF Deliver
      <4> QED
        BY <2>2, <2>3, <3>2, <4>1, <4>2 DEF Changes
    <3> QED
      BY <2>3, <3>1, <3>2 DEF Changes
  <2>4. CASE Get
    <3>1. CASE more
      BY <2>4, <3>1 DEF Get, HandsOver, PollContract
    <3>2. CASE ~more
      <4>1. /\ src # Nothing /\ src <= at /\ at < upto /\ upto \in 0..created
            /\ src \in Int /\ at \in Int /\ created \in Nat
            /\ got \in SUBSET (1..created) /\ inbox \subseteq 1..created
            /\ \A x \in got : src < x /\ x <= at
            /\ \A x \in Delivered : src < x /\ x <= at => x \in got
        BY <2>4 DEF Get, Inv, TypeOK, PhaseInv, CoverInv
      <4>2. got \cup Page \in SUBSET (1..created)
        BY <4>1 DEF Page
      <4>3. \A x \in got \cup Page : src < x /\ x <= upto
        BY <4>1 DEF Page
      <4>4. \A x \in Delivered : src < x /\ x <= upto => x \in got \cup Page
        BY <4>1 DEF Page, Delivered
      <4>5. Deliver(upto, got \cup Page) /\ UNCHANGED account
        BY <2>4, <3>2 DEF Get, Deliver
      <4> QED
        BY <2>2, <2>4, <4>1, <4>2, <4>3, <4>4, <4>5 DEF Get
    <3> QED
      BY <3>1, <3>2
  <2>5. CASE ~Baseline /\ ~Changes /\ ~Get
    <3>1. todo' \subseteq todo /\ ~HandsOver
      BY <2>5 DEF HandsOver, Next, World, Daemon, Arrive, Leave, Enter, Notify, Outage, Recover,
         Unrelated, StreamEnds, Reconnect, NetworkStep, Launch, Restart, Boot, Stop, Die,
         RequestFails, Exit, Poll, OpenStream, OpenFails, StreamFailed, Disconnect, Wake,
         Skip, TimerFires, Fetch, Process, Acknowledge
    <3>2. src' = src \/ pc' \in {"stopped", "down"} \/ (pc \in {"stopped", "down"} /\ src' = cursor)
      BY <2>5 DEF Next, World, Daemon, Arrive, Leave, Enter, Notify, Outage, Recover,
         Unrelated, StreamEnds, Reconnect, NetworkStep, Launch, Restart, Boot, Stop, Die,
         RequestFails, Exit, Poll, OpenStream, OpenFails, StreamFailed, Disconnect, Wake,
         Skip, TimerFires, Fetch, Process, Acknowledge
    <3> QED
      BY <3>1, <3>2 DEF PollContract
  <2> QED
    BY <2>1, <2>3, <2>4, <2>5
<1> QED
  BY <1>1, InvHolds, PTL DEF Spec

-----------------------------------------------------------------------------
(* The backoff: only mail or the end of the process takes the schedule back. *)
LEMMA BackoffStep ==
  ASSUME TypeOK, [Next]_vars
  PROVE  [attempt' < attempt => Wake \/ pc' \in {"down", "stopped"}]_vars
<1>1. attempt \in Int /\ ~(attempt < attempt)
  BY MailSourceAssumption DEF TypeOK
<1>2. CASE Wake \/ UNCHANGED vars
  BY <1>2
<1>3. CASE Stop \/ Die \/ RequestFails
  BY <1>3 DEF Stop, Die, RequestFails, Exit
<1>4. CASE OpenFails \/ StreamFailed
  <2>1. attempt' \in {attempt, attempt + 1}
    BY <1>4 DEF OpenFails, StreamFailed, Disconnect, NextDelay
  <2> QED
    BY <1>1, <2>1
<1>5. CASE \/ Launch \/ Restart \/ Poll \/ OpenStream \/ Skip \/ TimerFires
           \/ Baseline \/ Changes \/ Get \/ (\E m \in Messages : Process(m)) \/ Acknowledge
  <2>1. attempt' = attempt
    BY <1>5 DEF Launch, Restart, Boot, Poll, OpenStream, Skip, NetworkStep, TimerFires, Fetch,
       Baseline, Changes, Get, Deliver, Process, Acknowledge
  <2> QED
    BY <1>1, <2>1
<1>6. CASE World
  <2>1. attempt' = attempt
    BY <1>6 DEF World, Arrive, Leave, Enter, Notify, Outage, Recover, Unrelated, StreamEnds,
       Reconnect, NetworkStep
  <2> QED
    BY <1>1, <2>1
<1> QED
  BY <1>2, <1>3, <1>4, <1>5, <1>6 DEF Next, Daemon

(* next_delay never goes back, whatever the schedule: a connection that     *)
(* keeps failing is retried at the pace it has reached, until relevant mail *)
(* arrives or the process ends.                                             *)
THEOREM NeverFaster == Spec => NeverFastAgain
<1>1. Inv /\ [Next]_vars => [attempt' < attempt => Wake \/ pc' \in {"down", "stopped"}]_vars
  BY BackoffStep DEF Inv
<1> QED
  BY <1>1, InvHolds, PTL DEF Spec, NeverFastAgain

-----------------------------------------------------------------------------
(* Settlement: each step of the source is a step of the promise or none.    *)
LEMMA PromiseInit == Init => Promise!Init
BY MailSourceAssumption DEF Init, Promise!Init, Promise!Messages, Promise!Nothing, Nothing,
   Delivered, Messages

LEMMA PromiseStep == Inv /\ [Next]_vars => [Promise!Next]_(Promise!vars)
<1> SUFFICES ASSUME Inv, [Next]_vars PROVE [Promise!Next]_(Promise!vars)
  OBVIOUS
<1> USE DEF Promise!vars, account, network, push, durable, reading, batch, history
<1>1. CASE Arrive
  <2>1. Delivered' \in {Delivered, Delivered \cup {created + 1}}
    BY <1>1 DEF Arrive, Delivered, Inv, TypeOK
  <2>2. Promise!Arrive
    BY <1>1, <2>1 DEF Arrive, Notify, Promise!Arrive
  <2> QED
    BY <2>2 DEF Promise!Next
<1>2. ASSUME NEW m \in Messages, Leave(m) PROVE [Promise!Next]_(Promise!vars)
  <2>1. UNCHANGED <<created, cursor, first, settled>>
    BY <1>2 DEF Leave, Notify
  <2>2. CASE m \in entered
    <3>1. Delivered' = Delivered
      BY <1>2, <2>2 DEF Leave, Delivered
    <3> QED
      BY <2>1, <3>1
  <2>3. CASE m \notin entered
    <3>1. m \in Delivered /\ Delivered' = Delivered \ {m}
      BY <1>2, <2>3 DEF Leave, Delivered
    <3>2. Promise!Leave(m)
      BY <2>1, <3>1 DEF Promise!Leave
    <3> QED
      BY <3>2 DEF Promise!Next, Promise!Messages, Messages
  <2> QED
    BY <2>2, <2>3
<1>3. ASSUME NEW m \in Messages, Enter(m) PROVE [Promise!Next]_(Promise!vars)
  <2>1. Delivered' = Delivered
    BY <1>3 DEF Enter, Delivered
  <2> QED
    BY <1>3, <2>1 DEF Enter, Notify
<1>4. ASSUME NEW m \in Messages, Process(m) PROVE [Promise!Next]_(Promise!vars)
  <2>1. UNCHANGED <<created, cursor, first>> /\ Delivered' = Delivered
        /\ settled' = settled \cup {m}
    BY <1>4 DEF Process, Delivered
  <2>2. CASE m \in settled
    BY <2>1, <2>2
  <2>3. CASE m \notin settled
    <3>1. Promise!Settle(m)
      BY <2>1, <2>3 DEF Promise!Settle
    <3> QED
      BY <3>1 DEF Promise!Next, Promise!Messages, Messages
  <2> QED
    BY <2>2, <2>3
<1>5. CASE Acknowledge
  <2>1. /\ UNCHANGED <<created, settled>> /\ Delivered' = Delivered /\ todo = {}
        /\ cursor' = src /\ first' = IF first = Nothing THEN src ELSE first
        /\ pc = "handle"
    BY <1>5 DEF Acknowledge, Delivered
  <2>2. cursor <= src /\ src \in 0..created
    BY <2>1 DEF PhaseInv, Inv, TypeOK, States, Nothing
  <2>3. \A m \in Delivered : first' < m /\ m <= src => m \in settled
    <3>1. CASE first = Nothing
      BY <2>1, <2>2, <3>1 DEF Delivered, Inv, TypeOK
    <3>2. CASE first # Nothing
      BY <2>1, <3>2 DEF PhaseInv, CoverInv, Inv
    <3> QED
      BY <3>1, <3>2
  <2>4. Promise!Acknowledge(src)
    BY <2>1, <2>2, <2>3 DEF Promise!Acknowledge, Promise!Nothing, Nothing
  <2> QED
    BY <2>2, <2>4 DEF Promise!Next
<1>6. CASE Baseline \/ Changes \/ Get
  <2>1. UNCHANGED <<account, durable, settled>>
    BY <1>6 DEF Baseline, Changes, Get, Deliver
  <2> QED
    BY <2>1 DEF Delivered
<1>7. CASE Launch \/ Restart \/ Stop \/ Die \/ RequestFails
  <2>1. UNCHANGED <<account, durable, settled>>
    BY <1>7 DEF Launch, Restart, Boot, Stop, Die, RequestFails, Exit
  <2> QED
    BY <2>1 DEF Delivered
<1>8. CASE \/ Outage \/ Recover \/ Unrelated \/ StreamEnds \/ Reconnect \/ Poll \/ OpenStream
           \/ OpenFails \/ StreamFailed \/ Wake \/ Skip \/ TimerFires \/ UNCHANGED vars
  <2>1. UNCHANGED <<account, durable, settled>>
    BY <1>8 DEF Outage, Recover, Unrelated, StreamEnds, Reconnect, NetworkStep, Poll,
       OpenStream, OpenFails, StreamFailed, Disconnect, Wake, Skip, TimerFires, Fetch, vars
  <2> QED
    BY <2>1 DEF Delivered
<1> QED
  BY <1>1, <1>2, <1>3, <1>4, <1>5, <1>6, <1>7, <1>8 DEF Next, World, Daemon

(* The source and the loop implement Settlement: no outage, death or page   *)
(* boundary lets the cursor pass mail that was not handled.                 *)
THEOREM PromiseKept == Spec => KeepsPromise
<1>1. Init => Promise!Init
  BY PromiseInit
<1>2. Inv /\ [Next]_vars => [Promise!Next]_(Promise!vars)
  BY PromiseStep
<1> QED
  BY <1>1, <1>2, InvHolds, PTL DEF Spec, KeepsPromise, Promise!Spec

-----------------------------------------------------------------------------
(* What happens in the end.  Once the network is back and nobody dies, the  *)
(* source goes round: it waits, reads page after page and hands over, and   *)
(* the loop settles and acknowledges.  That deaths and outages end, that a  *)
(* batch does not shrink for ever and that the pages do not climb for ever  *)
(* towards a bound are inductions: hypotheses below.                        *)
DeathsEnd  == <>[][deaths' = deaths]_vars
OutagesEnd == <>[][outages' = outages]_vars
Shrinks == todo' \subseteq todo /\ todo' # todo
Climbs  == at < at' /\ at' <= NMessages
NoEndlessDescent == ~<>([][Shrinks]_todo /\ []<><<Shrinks>>_todo)
NoEndlessClimb   == ~<>([][Climbs]_at /\ []<><<Climbs>>_at)

At(p) == pc = p
Stopped == pc = "stopped"
IsOnline == online
IsUp == pc \in {"loop", "open", "listen", "timer", "changes", "get", "handle"}
Reading == pc \in {"changes", "get"}
Calm == /\ Inv /\ ~Stopped /\ ~Stopped' /\ [Next]_vars
        /\ [deaths' = deaths]_vars /\ [outages' = outages]_vars

LEMMA OnlineStep ==
  ASSUME Calm
  PROVE  /\ IsOnline => IsOnline'
         /\ <<Recover>>_vars => IsOnline'
<1>1. outages \in Nat /\ deaths \in Nat
  BY MailSourceAssumption DEF Calm, Inv, TypeOK
<1>2. ~Outage
  BY <1>1 DEF Calm, Outage, vars, network
<1>3. UNCHANGED online \/ Recover
  BY <1>2 DEF Calm, Next, World, Arrive, Leave, Enter, Notify, NetworkStep, Unrelated,
     StreamEnds, Reconnect, Launch, Restart, Boot, Stop, Die, Exit, Daemon, Poll, OpenStream,
     OpenFails, StreamFailed, Disconnect, Wake, Skip, TimerFires, Fetch, Baseline, Changes, Get,
     Deliver, EndOfFetch, RequestFails, Process, Acknowledge, network, vars
<1> QED
  BY <1>3 DEF IsOnline, Recover

(* A step then is a step of the daemon, a restart, or the world's.          *)
LEMMA CalmStep ==
  ASSUME Calm, IsOnline
  PROVE  \/ UNCHANGED <<pc, src, cursor, at, upto, more, todo>>
         \/ Restart
         \/ \/ Poll \/ OpenStream \/ OpenFails \/ StreamFailed \/ Wake \/ TimerFires
            \/ Baseline \/ Changes \/ Get \/ Acknowledge
            \/ \E m \in Messages : Process(m)
<1>1. deaths \in Nat
  BY MailSourceAssumption DEF Calm, Inv, TypeOK
<1>2. ~Launch /\ ~Stop
  BY DEF Calm, Stopped, Launch, Stop, Exit
<1>3. CASE World \/ UNCHANGED vars \/ Skip
  BY <1>3 DEF World, Arrive, Leave, Enter, Notify, NetworkStep, Outage, Recover, Unrelated,
     StreamEnds, Reconnect, Skip, vars, durable, reading, batch
<1>4. ~Die
  BY <1>1 DEF Calm, Die, vars, history
<1>5. ~RequestFails
  BY DEF RequestFails, IsOnline
<1> QED
  BY <1>2, <1>3, <1>4, <1>5 DEF Calm, Next, Daemon

(* The way round.                                                           *)
LEMMA Edges ==
  ASSUME Calm, IsOnline
  PROVE  /\ At("down") => At("down")' \/ At("loop")'
         /\ At("loop") => At("loop")' \/ At("open")'
         /\ At("open") => At("open")' \/ At("listen")' \/ At("timer")'
         /\ At("listen") => At("listen")' \/ At("timer")' \/ At("changes")'
         /\ At("timer") => At("timer")' \/ At("changes")'
         /\ At("changes") => (At("changes")' /\ at' = at) \/ (At("get")' /\ at' = at) \/ At("handle")'
         /\ At("get") => (At("get")' /\ at' = at) \/ (At("changes")' /\ <<Climbs>>_at) \/ At("handle")'
         /\ At("handle") => (At("handle")' /\ [Shrinks]_todo) \/ At("loop")'
<1>1. CASE UNCHANGED <<pc, src, cursor, at, upto, more, todo>>
  BY <1>1 DEF At
<1>2. CASE Restart
  BY <1>2 DEF Restart, Boot, At
<1>3. CASE Poll \/ OpenStream \/ OpenFails \/ StreamFailed \/ Wake \/ TimerFires
  BY <1>3 DEF Poll, OpenStream, OpenFails, StreamFailed, Disconnect, Wake, TimerFires, Fetch, At
<1>4. CASE Baseline \/ Changes
  BY <1>4 DEF Baseline, Changes, Deliver, EndOfFetch, At
<1>5. CASE Get
  <2>1. at < upto /\ upto <= NMessages /\ at \in Int /\ upto \in Int
    BY <1>5, MailSourceAssumption DEF Get, Calm, Inv, TypeOK, PhaseInv, States, Nothing
  <2> QED
    BY <1>5, <2>1 DEF Get, Deliver, EndOfFetch, Climbs, At
<1>6. CASE Acknowledge \/ \E m \in Messages : Process(m)
  BY <1>6 DEF Acknowledge, Process, Shrinks, At
<1> QED
  BY <1>1, <1>2, <1>3, <1>4, <1>5, <1>6, CalmStep

LEMMA FairEdges ==
  ASSUME Calm, IsOnline, <<Daemon>>_vars
  PROVE  /\ At("loop") => At("open")'
         /\ At("open") => At("listen")' \/ At("timer")'
         /\ At("timer") => At("changes")'
         /\ At("changes") => At("get")' \/ At("handle")'
         /\ At("get") => <<Climbs>>_at \/ At("handle")'
         /\ At("handle") => <<Shrinks>>_todo \/ At("loop")'
<1>1. CASE Poll \/ OpenStream \/ OpenFails \/ StreamFailed \/ Wake \/ Skip \/ TimerFires
  BY <1>1 DEF Poll, OpenStream, OpenFails, StreamFailed, Disconnect, Wake, Skip, TimerFires,
     Fetch, At
<1>2. CASE Baseline \/ Changes \/ RequestFails
  BY <1>2 DEF Baseline, Changes, Deliver, EndOfFetch, RequestFails, IsOnline, At
<1>3. CASE Get
  <2>1. at < upto /\ upto <= NMessages /\ at \in Int /\ upto \in Int
    BY <1>3, MailSourceAssumption DEF Get, Calm, Inv, TypeOK, PhaseInv, States, Nothing
  <2> QED
    BY <1>3, <2>1 DEF Get, Deliver, EndOfFetch, Climbs, At
<1>4. CASE Acknowledge \/ \E m \in Messages : Process(m)
  BY <1>4 DEF Acknowledge, Process, Shrinks, At
<1> QED
  BY <1>1, <1>2, <1>3, <1>4 DEF Daemon

(* The round that begins now will pass every message there is.              *)
Fresh(m) ==
    \/ pc \in {"loop", "open", "listen", "timer", "changes"}
    \/ pc = "get" /\ (more \/ m <= upto)
    \/ pc = "handle" /\ m <= src
Passed(m) == pc # "down" /\ m <= src
Behind(m) == first # Nothing /\ first < m
Mine(m) == m \in Delivered
IsSettled(m) == m \in settled

LEMMA RoundPasses ==
  ASSUME Calm, IsOnline, NEW m \in Messages, Mine(m)
  PROVE  /\ Fresh(m) => Fresh(m)'
         /\ Fresh(m) /\ At("handle") => Passed(m)
         /\ Passed(m) => Passed(m)'
         /\ At("loop") => Fresh(m)
         /\ Behind(m) /\ Passed(m) /\ At("loop") => IsSettled(m)
<1> USE DEF Nothing, States
<1> DEFINE Goes == (Fresh(m) => Fresh(m)') /\ (Passed(m) => Passed(m)')
<1>1. m <= created /\ created \in Nat /\ src \in Int /\ at \in Int /\ upto \in Int /\ m \in Nat
  BY MailSourceAssumption DEF Calm, Inv, TypeOK, Mine, Delivered, Messages
<1>2. ASSUME UNCHANGED <<pc, src, cursor, at, upto, more, todo>>
      PROVE  Goes
  BY <1>2 DEF Fresh, Passed
<1>3. ASSUME Restart PROVE Goes
  BY <1>3 DEF Restart, Boot, Fresh, Passed
<1>4. ASSUME Poll \/ OpenStream \/ OpenFails \/ StreamFailed \/ Wake \/ TimerFires
      PROVE  Goes
  BY <1>4 DEF Poll, OpenStream, OpenFails, StreamFailed, Disconnect, Wake, TimerFires, Fetch,
     Fresh, Passed, batch
<1>5. ASSUME Baseline PROVE Goes
  BY <1>1, <1>5 DEF Baseline, Deliver, EndOfFetch, Fresh, Passed
<1>6. ASSUME Changes PROVE Goes
  <2>1. at # Nothing /\ src <= at /\ at <= created
    BY <1>6 DEF Changes, Calm, Inv, PhaseInv
  <2>2. ASSUME NEW s \in (at + 1)..created, pc' = "get", upto' = s, more' = (s < created), src' = src
        PROVE  Goes
    <3>1. more' \/ m <= upto'
      <4>1. s \in Int /\ s <= created
        BY <1>1, <2>2
      <4>2. CASE s < created
        BY <2>2, <4>2
      <4>3. CASE s = created
        BY <1>1, <2>2, <4>3
      <4> QED
        BY <1>1, <4>1, <4>2, <4>3
    <3> QED
      BY <1>6, <2>2, <3>1 DEF Changes, Fresh, Passed
  <2>3. CASE at = created /\ Deliver(at, got)
    BY <1>1, <1>6, <2>3 DEF Changes, Deliver, EndOfFetch, Fresh, Passed
  <2> QED
    BY <1>6, <2>1, <2>2, <2>3 DEF Changes
<1>7. ASSUME Get PROVE Goes
  <2>1. src <= at /\ at < upto
    BY <1>7 DEF Get, Calm, Inv, PhaseInv
  <2> QED
    BY <1>1, <1>7, <2>1 DEF Get, Deliver, EndOfFetch, Fresh, Passed
<1>8. ASSUME Acknowledge \/ \E x \in Messages : Process(x) PROVE Goes
  BY <1>8 DEF Acknowledge, Process, Fresh, Passed
<1>9. Behind(m) /\ Passed(m) /\ At("loop") => IsSettled(m)
  BY DEF Calm, Inv, PhaseInv, CoverInv, At, Passed, Behind, Mine, IsSettled
<1> QED
  BY <1>2, <1>3, <1>4, <1>5, <1>6, <1>7, <1>8, <1>9, CalmStep DEF Fresh, Passed, At

LEMMA BehindStays ==
  ASSUME NEW m, [Next]_vars, Behind(m)
  PROVE  Behind(m)'
<1>1. first' = first \/ (Acknowledge /\ first' = IF first = Nothing THEN src ELSE first)
  BY DEF Next, World, Arrive, Leave, Enter, Notify, NetworkStep, Outage, Recover, Unrelated,
     StreamEnds, Reconnect, Launch, Restart, Boot, Stop, Die, Exit, Daemon, Poll, OpenStream,
     OpenFails, StreamFailed, Disconnect, Wake, Skip, TimerFires, Fetch, Baseline, Changes, Get,
     Deliver, EndOfFetch, RequestFails, Process, Acknowledge, vars, durable
<1> QED
  BY <1>1 DEF Behind

(* What holds once nobody dies, the network stays and a message with it.    *)
Calmly(m) ==
    /\ []Inv /\ [][Next]_vars /\ [][deaths' = deaths]_vars /\ [][outages' = outages]_vars
    /\ []~Stopped /\ []Mine(m)
    /\ WF_vars(Daemon) /\ WF_vars(Restart) /\ WF_vars(Recover) /\ []NeverStuck
    /\ []<>(pc # "listen") /\ NoEndlessDescent /\ NoEndlessClimb

(* A message that stays is fetched and settled, unless somebody stops the   *)
(* daemon, as long as no wait on a stream lasts for good: the fallback      *)
(* leads on from a stream that fails, the round from the wait to the        *)
(* checkpoint passes every message there is, and none is acknowledged       *)
(* unsettled.                                                               *)
THEOREM FetchedInTheEnd ==
  FairSpec /\ []NeverStuck /\ DeathsEnd /\ OutagesEnd /\ NoEndlessDescent /\ NoEndlessClimb
    => FetchedUnlessDeaf
<1>0. SUFFICES ASSUME NEW m \in Messages
               PROVE  /\ FairSpec /\ []NeverStuck /\ DeathsEnd /\ OutagesEnd
                      /\ NoEndlessDescent /\ NoEndlessClimb /\ []<>(pc # "listen")
                      => (Waiting(m) ~> Served(m))
  BY DEF FetchedUnlessDeaf
<1>1. /\ Calm /\ IsOnline => IsOnline'
      /\ Calm /\ <<Recover>>_vars => IsOnline'
  BY OnlineStep
<1>2. Calm /\ IsOnline =>
        /\ At("down") => At("down")' \/ At("loop")'
        /\ At("loop") => At("loop")' \/ At("open")'
        /\ At("open") => At("open")' \/ At("listen")' \/ At("timer")'
        /\ At("listen") => At("listen")' \/ At("timer")' \/ At("changes")'
        /\ At("timer") => At("timer")' \/ At("changes")'
        /\ Reading => Reading' \/ At("handle")'
        /\ Reading /\ Reading' => [Climbs]_at
        /\ At("changes") => At("changes")' \/ At("get")' \/ At("handle")'
        /\ At("get") => At("get")' \/ <<Climbs>>_at \/ At("handle")'
        /\ At("handle") => At("handle")' \/ At("loop")'
        /\ At("handle") /\ At("handle")' => [Shrinks]_todo
  BY Edges DEF At, Reading
<1>3. Calm /\ IsOnline /\ <<Daemon>>_vars =>
        /\ At("loop") => At("open")'
        /\ At("open") => At("listen")' \/ At("timer")'
        /\ At("timer") => At("changes")'
        /\ At("changes") => At("get")' \/ At("handle")'
        /\ At("get") => <<Climbs>>_at \/ At("handle")'
        /\ At("handle") => <<Shrinks>>_todo \/ At("loop")'
  BY FairEdges
<1>4. Calm /\ IsOnline /\ Mine(m) =>
        /\ Fresh(m) => Fresh(m)'
        /\ Fresh(m) /\ At("handle") => Passed(m)
        /\ Passed(m) => Passed(m)'
        /\ At("loop") => Fresh(m)
        /\ Behind(m) /\ Passed(m) /\ At("loop") => IsSettled(m)
  BY RoundPasses
<1>5. [Next]_vars /\ Behind(m) => Behind(m)'
  BY BehindStays
<1>6. Inv /\ ~Stopped => \/ At("down") \/ At("loop") \/ At("open") \/ At("listen")
                         \/ At("timer") \/ At("changes") \/ At("get") \/ At("handle")
  BY DEF Inv, TypeOK, Stopped, At
<1>7. /\ At("listen") <=> ~(pc # "listen")
      /\ At("down") <=> pc = "down"
      /\ ~At("down") /\ ~At("listen") /\ ~Stopped => pc \notin {"stopped", "down", "listen"}
      /\ Reading <=> At("changes") \/ At("get")
      /\ IsOnline <=> online
      /\ At("down") => ~At("loop")
      /\ At("loop") => ~At("open")
      /\ At("open") => ~At("listen") /\ ~At("timer")
      /\ At("listen") => ~At("timer") /\ ~Reading
      /\ At("timer") => ~Reading
      /\ At("changes") => ~At("get")
      /\ At("handle") => ~At("loop") /\ ~Reading
  BY DEF At, Stopped, Reading, IsOnline
<1>8. /\ ~Served(m) => ~Stopped /\ Mine(m) /\ ~IsSettled(m)
      /\ Waiting(m) => Behind(m)
  BY DEF Served, Waiting, Stopped, Mine, IsSettled, Behind
<1>9. <<Restart>>_vars => At("loop")'
  BY DEF Restart, Boot, At
<1>10. Calm /\ IsOnline /\ ~At("down") => ~At("down")'
  BY Edges, <1>6 DEF Calm, At
<1>11. Calmly(m) => <>[]IsOnline
  BY <1>1, <1>7, PTL DEF Calmly, Calm, NeverStuck
<1>12. Calmly(m) /\ []IsOnline => <>[]~At("down")
  BY <1>2, <1>6, <1>7, <1>9, <1>10, PTL DEF Calmly, Calm, NeverStuck
<1>13. Calmly(m) /\ []IsOnline /\ []~At("down") => []<>~At("handle")
  BY <1>2, <1>3, <1>7, PTL DEF Calmly, Calm, NeverStuck, NoEndlessDescent
<1>14. Calmly(m) /\ []IsOnline /\ []~At("down") => []<>~Reading
  BY <1>2, <1>3, <1>7, PTL DEF Calmly, Calm, NeverStuck, NoEndlessClimb
<1>15. Calmly(m) /\ []IsOnline /\ []~At("down") /\ []<>~At("handle") /\ []<>~Reading
         => []<>At("handle") /\ []<>At("loop")
  BY <1>2, <1>3, <1>6, <1>7, PTL DEF Calmly, Calm, NeverStuck
<1>16. Calmly(m) /\ []IsOnline /\ []~At("down") /\ []<>At("handle") /\ []<>At("loop") /\ []Behind(m)
         => <>IsSettled(m)
  BY <1>4, PTL DEF Calmly, Calm
<1>17. Spec => []Inv /\ [](Behind(m) => []Behind(m))
  BY InvHolds, <1>5, PTL DEF Spec
<1> QED
  BY <1>8, <1>11, <1>12, <1>13, <1>14, <1>15, <1>16, <1>17, PTL
     DEF FairSpec, Spec, DeathsEnd, OutagesEnd, NoEndlessDescent, NoEndlessClimb, Calmly

-----------------------------------------------------------------------------
(* What follows from the promise alone.                                     *)
Owed == INSTANCE Settlement_proofs WITH
    inbox <- Delivered, acknowledged <- cursor, waived <- {},
    acted <- [m \in Messages |-> 0]

LEMMA SamePromise == KeepsPromise => Owed!Spec
<1>1. Promise!Init => Owed!Init
  BY DEF Promise!Init, Owed!Init, Promise!Nothing, Owed!Nothing, Promise!Messages, Owed!Messages
<1>2. [Promise!Next]_(Promise!vars) => [Owed!Next]_(Owed!vars)
  BY DEF Promise!Next, Promise!Arrive, Promise!Leave, Promise!Act, Promise!Settle,
     Promise!Reopen, Promise!Waive, Promise!Acknowledge, Promise!vars, Promise!Nothing,
     Promise!Messages, Owed!Next, Owed!Arrive, Owed!Leave, Owed!Act, Owed!Settle, Owed!Waive,
     Owed!Reopen, Owed!Acknowledge, Owed!vars, Owed!Nothing, Owed!Messages
<1> QED
  BY <1>1, <1>2, PTL DEF KeepsPromise, Promise!Spec, Owed!Spec

(* Everything that was delivered since the first baseline, has stayed and   *)
(* is not beyond the persisted cursor is settled, at every moment and       *)
(* whatever happens: no restart from the cursor can lose it.                *)
CursorCovers == \A m \in Delivered : first < m /\ m <= cursor => m \in settled

(* A corollary of the kept promise: the persisted cursor of _run_batches    *)
(* covers nothing that is still to be settled.                              *)
THEOREM CursorCoversOnlySettled == Spec => []CursorCovers
<1>1. NMessages \in Nat
  BY MailSourceAssumption
<1>2. Owed!Spec => []Owed!NothingLeftBehind
  BY <1>1, Owed!PromiseHolds
<1>3. Owed!NothingLeftBehind => CursorCovers
  BY DEF Owed!NothingLeftBehind, CursorCovers
<1> QED
  BY <1>2, <1>3, SamePromise, PromiseKept, PTL

(* The persisted cursor never goes back and the first one stays the first,  *)
(* through every death, outage and restart.                                 *)
CursorAdvances ==
    [][/\ cursor <= cursor' /\ settled \subseteq settled'
       /\ first # Nothing => first' = first]_<<cursor, first, settled>>

(* The rest of that corollary: each save_cursor moves forward.              *)
THEOREM CursorOnlyAdvances == Spec => CursorAdvances
<1>1. NMessages \in Nat
  BY MailSourceAssumption
<1>2. Owed!Spec => Owed!NothingTakenBack
  BY <1>1, Owed!PromiseIsFinal
<1>3. [Owed!Forward]_(Owed!vars)
        => [/\ cursor <= cursor' /\ settled \subseteq settled'
            /\ first # Nothing => first' = first]_<<cursor, first, settled>>
  BY DEF Owed!Forward, Owed!vars, Owed!Nothing, Nothing
<1> QED
  BY <1>2, <1>3, SamePromise, PromiseKept, PTL DEF CursorAdvances, Owed!NothingTakenBack

=============================================================================
