-------------------------------- MODULE Sweep --------------------------------
(***************************************************************************)
(* Three processes that work on the same mailbox and the same state        *)
(* database: the daemon on the mail that arrives, `spork backfill` on the  *)
(* mail the Inbox already holds, `spork reclassify` on one message it is   *)
(* told to do again.  They share no lock.  Each runs a message through the *)
(* same pipelines (module Triage has their every step; here an outcome and *)
(* its audit entry are one step, alerts to a human are left out), asking   *)
(* the database before it acts and writing to it afterwards.               *)
(*                                                                         *)
(* The Inbox is the sequence in which the server lists it: the backfill    *)
(* pages through it by position while messages come and go.                *)
(***************************************************************************)
EXTENDS Integers, Sequences, FiniteSets

CONSTANTS
    NMessages,   \* bound: messages the account ever holds
    Old,         \* how many of them may be there at the start, the daemon behind by any number
    NDays,       \* bound: UTC days
    MaxEvents,   \* bound: midnights, events by a person and deaths of the daemon
    Budget,      \* tiering.daily_call_budget
    Sessions,    \* which commands may run beside the daemon, each at most once
    Limit,       \* backfill --limit
    PageSize     \* backfill --page-size

Messages == 1..NMessages
Days == 1..NDays
Commands == {"backfill", "reclassify"}
Procs == {"daemon"} \cup Commands

ASSUME SweepAssumption ==
    /\ NMessages \in Nat /\ MaxEvents \in Nat /\ Budget \in Nat
    /\ NDays \in Nat \ {0}
    /\ Old \subseteq 0..NMessages /\ Sessions \subseteq SUBSET Commands
    /\ Limit \in Nat \ {0} /\ PageSize \in Nat \ {0}

NoMessage == 0
NoDay == 0

VARIABLES
    \* the mail account, and the clock
    created,    \* messages created so far
    inbox,      \* the Inbox, in the order of Email/query
    exists,     \* messages that are not destroyed
    today,
    events,     \* midnights, events and deaths so far
    \* the state database
    processed,  \* messages with a row in processed_messages
    usage,      \* llm_usage.calls per day
    commands,   \* the commands that are run
    \* every process: the message it works on, and the day Tier 2 stamped on it
    pc, cur, stamp,
    \* the daemon
    fresh,      \* created since the acknowledged state
    batch,      \* fetched and not acknowledged
    todo,       \* those still to be processed
    toldOn,     \* DaemonState.budget_exhausted_alert_date
    \* the backfill
    position, page, more, sofar, ended,
    \* history
    acted,      \* mailbox mutations, per process and message
    starts,     \* starts of the daemon
    cutOff,     \* deaths of the daemon between the outcome of a message and its row
    told,       \* daily budget alerts, per day
    first,      \* the Inbox when the backfill began,
    left,       \* the messages that have left it since,
    seen,       \* those the backfill has put through the pipeline, and, at its end,
    balance     \* how many more had left than it has missed

account  == <<created, inbox, exists, today, events, commands>>
database == <<processed, usage>>
worker   == <<pc, cur, stamp>>
daemon   == <<fresh, batch, todo, toldOn>>
paging   == <<position, page, more, sofar>>
sweep    == <<first, left, seen, balance>>
history  == <<acted, starts, cutOff, told, sweep>>
vars == <<account, database, worker, daemon, paging, ended, history>>

Listed == {inbox[i] : i \in 1..Len(inbox)}
Without(m) ==
    IF m \notin Listed THEN inbox
    ELSE LET k == CHOOSE i \in 1..Len(inbox) : inbox[i] = m
         IN  SubSeq(inbox, 1, k - 1) \o SubSeq(inbox, k + 1, Len(inbox))
Sweeping == pc["backfill"] \notin {"off", "over"}
LeftWith(m) == IF Sweeping THEN left \cup ({m} \cap Listed) ELSE left

GoTo(p, at) == pc' = [pc EXCEPT ![p] = at]
Forget(p) == cur' = [cur EXCEPT ![p] = NoMessage] /\ stamp' = [stamp EXCEPT ![p] = NoDay]

-----------------------------------------------------------------------------
Init ==
    /\ created \in Old
    /\ inbox = [i \in 1..created |-> i] /\ exists = 1..created
    /\ today = 1 /\ events = 0
    /\ processed = {} /\ usage = [d \in Days |-> 0]
    /\ commands \in Sessions /\ pc = [p \in Procs |-> "off"]
    /\ cur = [p \in Procs |-> NoMessage] /\ stamp = [p \in Procs |-> NoDay]
    /\ \E state \in 0..created : fresh = (state + 1)..created
    /\ batch = {} /\ todo = {} /\ toldOn = NoDay
    /\ position = 0 /\ page = {} /\ more = FALSE /\ sofar = 0 /\ ended = "no"
    /\ acted = [p \in Procs |-> [m \in Messages |-> 0]]
    /\ starts = 0 /\ cutOff = 0 /\ told = [d \in Days |-> 0]
    /\ first = {} /\ left = {} /\ seen = {} /\ balance = 0

Event == events < MaxEvents /\ events' = events + 1

(* Email/query gives no sort order: a new message is listed at either end. *)
Arrive ==
    /\ created < NMessages
    /\ created' = created + 1
    /\ inbox' \in {<<created + 1>> \o inbox, Append(inbox, created + 1)}
    /\ exists' = exists \cup {created + 1}
    /\ fresh' = fresh \cup {created + 1}
    /\ UNCHANGED <<today, events, commands, database, worker, batch, todo, toldOn,
                   paging, ended, history>>

(* A person files a message away, or destroys it.                          *)
Remove(m) ==
    /\ m \in Listed /\ Event
    /\ inbox' = Without(m) /\ left' = LeftWith(m)
    /\ exists' \in {exists, exists \ {m}}
    /\ UNCHANGED <<created, today, commands, database, worker, daemon, paging, ended,
                   acted, starts, cutOff, told, first, seen, balance>>

Midnight ==
    /\ today < NDays /\ today' = today + 1 /\ Event
    /\ UNCHANGED <<created, inbox, exists, commands, database, worker, daemon,
                   paging, ended, history>>

-----------------------------------------------------------------------------
(* The daemon is killed, or dies of an exception, and forgets its batch    *)
(* and the day of its last alert.  A command that dies takes no further    *)
(* step, which it need not take here anyway.                               *)
Die ==
    /\ pc["daemon"] # "off"
    /\ pc' = [pc EXCEPT !["daemon"] = "off"] /\ Forget("daemon")
    /\ todo' = {} /\ toldOn' = NoDay
    /\ cutOff' = IF pc["daemon"] = "settle" THEN cutOff + 1 ELSE cutOff
    /\ Event
    /\ UNCHANGED <<created, inbox, exists, today, commands, database, fresh, batch, paging,
                   ended, acted, starts, told, sweep>>

(* What was fetched and not acknowledged is fetched again.                 *)
StartDaemon ==
    /\ pc["daemon"] = "off"
    /\ starts' = starts + 1
    /\ pc' = [pc EXCEPT !["daemon"] = "next"]
    /\ fresh' = fresh \cup batch /\ batch' = {}
    /\ UNCHANGED <<account, database, cur, stamp, todo, toldOn, paging, ended,
                   acted, cutOff, told, sweep>>

Poll ==
    /\ pc["daemon"] = "next" /\ batch = {} /\ fresh # {}
    /\ batch' = fresh /\ fresh' = {}
    /\ todo' = fresh \cap Listed
    /\ UNCHANGED <<account, database, worker, toldOn, paging, ended, history>>

TakeFromBatch ==
    /\ pc["daemon"] = "next"
    /\ \E m \in todo : todo' = todo \ {m} /\ cur' = [cur EXCEPT !["daemon"] = m]
    /\ pc' = [pc EXCEPT !["daemon"] = "gate"]
    /\ UNCHANGED <<account, database, stamp, fresh, batch, toldOn, paging, ended, history>>

(* mutant: acknowledge as soon as the batch is in hand *)
SetCursorBeforeBatch ==
    /\ pc["daemon"] = "next" /\ batch # {}
    /\ batch' = {}
    /\ UNCHANGED <<account, database, worker, fresh, todo, toldOn, paging, ended, history>>

SetCursor ==
    /\ pc["daemon"] = "next" /\ todo = {} /\ batch # {}
    /\ batch' = {}
    /\ UNCHANGED <<account, database, worker, fresh, todo, toldOn, paging, ended, history>>

(* mutant: the day of the last alert is not looked at *)
CheckDailyBudgetAlertAlways ==
    /\ pc["daemon"] = "day"
    /\ pc' = [pc EXCEPT !["daemon"] = "next"]
    /\ IF usage[today] >= Budget
         THEN toldOn' = today /\ told' = [told EXCEPT ![today] = @ + 1]
         ELSE UNCHANGED <<toldOn, told>>
    /\ UNCHANGED <<account, database, cur, stamp, fresh, batch, todo, paging, ended,
                   acted, starts, cutOff, sweep>>

(* After every escalation: the day is that of the check, not of the call.  *)
CheckDailyBudgetAlert ==
    /\ pc["daemon"] = "day"
    /\ pc' = [pc EXCEPT !["daemon"] = "next"]
    /\ IF toldOn # today /\ usage[today] >= Budget
         THEN toldOn' = today /\ told' = [told EXCEPT ![today] = @ + 1]
         ELSE UNCHANGED <<toldOn, told>>
    /\ UNCHANGED <<account, database, cur, stamp, fresh, batch, todo, paging, ended,
                   acted, starts, cutOff, sweep>>

-----------------------------------------------------------------------------
(* The backfill.                                                           *)
StartBackfill ==
    /\ "backfill" \in commands /\ pc["backfill"] = "off"
    /\ pc' = [pc EXCEPT !["backfill"] = "query"]
    /\ first' = Listed
    /\ UNCHANGED <<account, database, cur, stamp, daemon, paging, ended,
                   acted, starts, cutOff, told, left, seen, balance>>

Smaller(a, b) == IF a < b THEN a ELSE b

(* Email/query from `position`; the next page starts after as many ids as  *)
(* were matched, and there is more while that is short of the total.       *)
Window == {inbox[i] : i \in {j \in 1..Len(inbox) :
              position < j /\ j <= position + Smaller(PageSize, Limit - sofar)}}

(* A message that was there all the time was passed over.                  *)
Missed == {m \in first : m \in Listed /\ m \notin seen}

EndSweep(why) ==
    /\ GoTo("backfill", "over") /\ ended' = why
    /\ balance' = Cardinality(left) - Cardinality(Missed)
    /\ first' = {} /\ left' = {} /\ seen' = {}
    /\ position' = 0 /\ page' = {} /\ more' = FALSE /\ sofar' = 0

(* mutant: the next page starts where a full page would have ended *)
QueryByPageNumber ==
    /\ pc["backfill"] = "query"
    /\ \/ Window = {} /\ EndSweep("swept")
       \/ /\ Window # {} /\ GoTo("backfill", "get")
          /\ page' = Window
          /\ position' = position + PageSize + 1
          /\ more' = (position' < Len(inbox))
          /\ UNCHANGED <<sofar, ended, sweep>>
    /\ UNCHANGED <<account, database, cur, stamp, daemon, acted, starts, cutOff, told>>

Query ==
    /\ pc["backfill"] = "query"
    /\ \/ Window = {} /\ EndSweep("swept")
       \/ /\ Window # {} /\ GoTo("backfill", "get")
          /\ page' = Window
          /\ position' = position + Cardinality(Window)
          /\ more' = (position' < Len(inbox))
          /\ UNCHANGED <<sofar, ended, sweep>>
    /\ UNCHANGED <<account, database, cur, stamp, daemon, acted, starts, cutOff, told>>

(* Email/get finds those that were not destroyed meanwhile.  A page that   *)
(* comes back without a message ends the sweep, whatever lies behind it.   *)
Get ==
    /\ pc["backfill"] = "get"
    /\ \/ page \cap exists = {} /\ EndSweep(IF more THEN "gap" ELSE "swept")
       \/ /\ page \cap exists # {} /\ GoTo("backfill", "next")
          /\ page' = page \cap exists
          /\ UNCHANGED <<position, more, sofar, ended, sweep>>
    /\ UNCHANGED <<account, database, cur, stamp, daemon, acted, starts, cutOff, told>>

(* A message the gate will skip counts towards the limit as well.          *)
TakeFromPage ==
    /\ pc["backfill"] = "next" /\ sofar < Limit
    /\ \E m \in page :
        /\ page' = page \ {m} /\ seen' = seen \cup {m}
        /\ cur' = [cur EXCEPT !["backfill"] = m]
    /\ sofar' = sofar + 1
    /\ pc' = [pc EXCEPT !["backfill"] = "gate"]
    /\ UNCHANGED <<account, database, stamp, daemon, position, more, ended,
                   acted, starts, cutOff, told, first, left, balance>>

TurnPage ==
    /\ pc["backfill"] = "next"
    /\ page = {} \/ sofar >= Limit
    /\ \/ ~more /\ EndSweep("swept")
       \/ more /\ sofar >= Limit /\ EndSweep("limit")
       \/ more /\ sofar < Limit /\ GoTo("backfill", "query") /\ UNCHANGED <<paging, ended, sweep>>
    /\ UNCHANGED <<account, database, cur, stamp, daemon, acted, starts, cutOff, told>>

-----------------------------------------------------------------------------
(* One message in one process.                                             *)
Outside == UNCHANGED <<account, daemon, starts, cutOff, told>>
Rest    == UNCHANGED <<acted, paging, ended, sweep>>

(* The daemon looks at the day after every escalation; an exhausted budget *)
(* ends the backfill.                                                      *)
AfterSettle(p) ==
    /\ Forget(p)
    /\ \/ p = "backfill" /\ pc[p] = "exhausted" /\ EndSweep("budget")
       \/ /\ p # "backfill" \/ pc[p] = "settle"
          /\ GoTo(p, CASE p = "daemon" /\ stamp[p] # NoDay -> "day"
                       [] p = "reclassify" -> "over"
                       [] OTHER -> "next")
          /\ UNCHANGED <<paging, ended, sweep>>

(* The rules decide: a mutation, nothing to mutate, or an escalation, on    *)
(* which Tier 2 stamps the day.  A rule the process has no route for       *)
(* (archive_receipt, which only the daemon is given one for) kills it.     *)
Rules(p) ==
    \/ \E at \in {"apply", "settle"} : GoTo(p, at) /\ UNCHANGED stamp
    \/ GoTo(p, "budget") /\ stamp' = [stamp EXCEPT ![p] = today]

(* mutant: the gate asks nothing *)
GateOpen(p) ==
    /\ pc[p] = "gate"
    /\ Rules(p) /\ UNCHANGED cur
    /\ Outside /\ Rest /\ UNCHANGED database

Gate(p) ==
    /\ pc[p] = "gate"
    /\ IF cur[p] \in processed THEN GoTo(p, "next") /\ Forget(p)
       ELSE Rules(p) /\ UNCHANGED cur
    /\ Outside /\ Rest /\ UNCHANGED database

(* reclassify <id>: looked up by id, wherever it is filed; no gate.        *)
StartReclassify(m) ==
    /\ "reclassify" \in commands /\ pc["reclassify"] = "off" /\ m \in exists
    /\ cur' = [cur EXCEPT !["reclassify"] = m] /\ Rules("reclassify")
    /\ Outside /\ Rest /\ UNCHANGED database

(* The mutation moves the message out of the Inbox, or only marks it.  It  *)
(* fails, and the process with it, when the message is gone.               *)
Apply(p) ==
    /\ pc[p] = "apply" /\ cur[p] \in exists
    /\ acted' = [acted EXCEPT ![p][cur[p]] = @ + 1]
    /\ \/ inbox' = Without(cur[p]) /\ left' = LeftWith(cur[p])
       \/ UNCHANGED <<inbox, left>>
    /\ GoTo(p, "settle")
    /\ UNCHANGED <<created, exists, today, events, commands, database, cur, stamp, daemon, paging,
                   ended, starts, cutOff, told, first, seen, balance>>

(* mutant: one call too many *)
BudgetGateOffByOne(p) ==
    /\ pc[p] = "budget"
    /\ GoTo(p, IF usage[stamp[p]] <= Budget THEN "call" ELSE "exhausted")
    /\ Outside /\ Rest /\ UNCHANGED <<database, cur, stamp>>

BudgetGate(p) ==
    /\ pc[p] = "budget"
    /\ GoTo(p, IF usage[stamp[p]] < Budget THEN "call" ELSE "exhausted")
    /\ Outside /\ Rest /\ UNCHANGED <<database, cur, stamp>>

(* The call, and the record of it.  One that raises is quarantined and not *)
(* recorded; the verdict of one that answers is acted on, or it is only    *)
(* alerted, ignored or quarantined.                                        *)
CallAndRecord(p) ==
    /\ pc[p] = "call"
    /\ \/ UNCHANGED usage /\ GoTo(p, "settle")
       \/ /\ usage' = [usage EXCEPT ![stamp[p]] = @ + 1]
          /\ \E at \in {"apply", "settle"} : GoTo(p, at)
    /\ Outside /\ Rest /\ UNCHANGED <<processed, cur, stamp>>

(* The audit entry and the row.                                            *)
Settle(p) ==
    /\ pc[p] \in {"settle", "exhausted"}
    /\ processed' = processed \cup {cur[p]}
    /\ AfterSettle(p)
    /\ Outside /\ UNCHANGED <<usage, acted>>

-----------------------------------------------------------------------------
Mail == Arrive \/ Midnight \/ \E m \in Messages : Remove(m)
Daemon == StartDaemon \/ Die \/ Poll \/ TakeFromBatch \/ SetCursor \/ CheckDailyBudgetAlert
Backfill == StartBackfill \/ Query \/ Get \/ TakeFromPage \/ TurnPage
Reclassify == \E m \in Messages : StartReclassify(m)
Pipelines == \E p \in Procs :
    Gate(p) \/ Apply(p) \/ BudgetGate(p) \/ CallAndRecord(p) \/ Settle(p)

Next == Mail \/ Daemon \/ Backfill \/ Reclassify \/ Pipelines

Spec == Init /\ [][Next]_vars

-----------------------------------------------------------------------------
Pipeline == {"gate", "apply", "settle", "budget", "call", "exhausted"}
PC(p) == CASE p = "daemon" -> Pipeline \cup {"off", "next", "day"}
           [] p = "backfill" -> Pipeline \cup {"off", "query", "get", "next", "over"}
           [] OTHER -> (Pipeline \ {"gate"}) \cup {"off", "over"}

MailOK ==
    /\ created \in 0..NMessages /\ inbox \in Seq(Messages) /\ exists \subseteq Messages
    /\ today \in Days /\ events \in 0..MaxEvents
    /\ processed \subseteq Messages /\ usage \in [Days -> Nat]

WorkersOK ==
    /\ commands \in Sessions /\ DOMAIN pc = Procs /\ \A p \in Procs : pc[p] \in PC(p)
    /\ cur \in [Procs -> Messages \cup {NoMessage}]
    /\ stamp \in [Procs -> Days \cup {NoDay}]
    /\ \A p \in Procs : /\ pc[p] \in Pipeline => cur[p] \in Messages
                        /\ pc[p] \in {"budget", "call", "exhausted"} => stamp[p] \in Days

RunsOK ==
    /\ fresh \subseteq Messages /\ batch \subseteq Messages /\ todo \subseteq batch
    /\ toldOn \in Days \cup {NoDay}
    /\ position \in Nat /\ page \subseteq Messages /\ more \in BOOLEAN /\ sofar \in 0..Limit
    /\ ended \in {"no", "swept", "limit", "budget", "gap"}

HistoryOK ==
    /\ acted \in [Procs -> [Messages -> Nat]]
    /\ starts \in Nat /\ cutOff \in Nat /\ told \in [Days -> Nat]
    /\ balance \in Int
    /\ first \subseteq Messages /\ left \subseteq Messages /\ seen \subseteq Messages

(* Every variable has its type, and a process in a pipeline has a message  *)
(* (and, in Tier 2, a day).                                                *)
TypeOK == MailOK /\ WorkersOK /\ RunsOK /\ HistoryOK

(* The budget is read, and written by a later step: each process may be    *)
(* one call past it, and no more, however the three interleave and         *)
(* whenever midnight falls.                                                *)
OverspendBounded == \A d \in Days : usage[d] <= Budget + Cardinality(commands)

(* The rows keep one process from acting twice on a message, though the    *)
(* backfill may be listed it twice and the daemon be given it again: only  *)
(* a death between the mutation and the row repeats a mutation.            *)
OncePerProcess ==
    \A m \in Messages :
        /\ acted["backfill"][m] <= 1
        /\ acted["reclassify"][m] <= 1
        /\ acted["daemon"][m] <= 1 + cutOff

(* Paging by position: a message that was there all the time is passed     *)
(* over only because another one left (the sweep's own moves included):    *)
(* a sweep that reached its end never misses more than have left.  One     *)
(* that a page without messages ended ("gap") may miss any number.         *)
SkipsNeedDepartures == ended = "swept" => balance >= 0

(* The alert that the daily budget is exhausted is sent once a day by one  *)
(* start of the daemon.                                                    *)
OneAlertPerDayAndStart == \A d \in Days : told[d] <= starts

(* What docs/ROADMAP.md says of the row as dedup mechanism: an overlapping *)
(* backfill run and live ingestion never double-process the same message.  *)
NeverDoubleProcessed == \A m \in Messages : acted["daemon"][m] + acted["backfill"][m] <= 1

=============================================================================
