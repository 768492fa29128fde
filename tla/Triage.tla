------------------------------- MODULE Triage -------------------------------
(***************************************************************************)
(* The daemon's message loop: one process that polls a mail source, runs   *)
(* every message of the batch through the Tier 1 pipeline and, when a rule *)
(* escalates it, through the Tier 2 (LLM) pipeline, and acknowledges the   *)
(* source's state once the whole batch is done.                            *)
(*                                                                         *)
(* Every StateDB method commits on its own and every call on the provider, *)
(* the LLM or the alerter takes effect outside the process, so a message   *)
(* is a chain of small steps (pc) and the process may die between any two  *)
(* of them: by a signal or by an exception, which no handler of the loop   *)
(* catches.  A step that raises before its effect is a death before it, a  *)
(* step that raises after its effect is a death after it.                  *)
(*                                                                         *)
(* Messages are numbered in the order the account created them; the        *)
(* account's state string is the number of messages created so far.  Rules *)
(* may be edited and reloaded at any time, so each evaluation is free.     *)
(* One UTC day: the daily budget row is never rolled over here.            *)
(***************************************************************************)
EXTENDS Integers, FiniteSets

CONSTANTS
    NMessages,          \* bound: messages the account ever creates
    MaxDeaths,          \* bound: times the process dies
    Budget,             \* tiering.daily_call_budget
    Routes,             \* what the rules may decide about a message
    ReceiptsConfigured, \* is [receipt_archive] configured
    ObserveModes,       \* the values --observe takes from one start to the next
    Checkpointed        \* is the provider a CheckpointedProvider (JMAP) or not (file)

Messages == 1..NMessages
AllRoutes == {"mutate", "ignore", "malformed", "escalate", "archive_receipt"}

ASSUME TriageAssumption ==
    /\ NMessages \in Nat /\ MaxDeaths \in Nat /\ Budget \in Nat
    /\ Routes \subseteq AllRoutes
    /\ ReceiptsConfigured \in BOOLEAN /\ Checkpointed \in BOOLEAN
    /\ ObserveModes \subseteq BOOLEAN /\ ObserveModes # {}

NoCursor == -1
NoMessage == 0

VARIABLES
    \* the mail account
    created,    \* messages created so far, which is also the account's state
    inbox,      \* those that are in the Inbox
    \* the state database, and what the process did to the outside
    cursor,     \* push_cursor row
    processed,  \* processed_messages rows
    audit,      \* audit_log events per message
    usage,      \* llm_usage.calls of the day
    applied,    \* mailbox mutations the provider carried out, per message
    drafts,     \* drafts created, per message
    alerted,    \* messages a human was alerted about
    calls,      \* calls the LLM answered
    \* the process
    pc, src, todo, cur, meta, observe, dayAlerted,
    \* history
    deaths,     \* times the process died
    baseline,   \* the first cursor ever persisted
    left        \* messages an observing process escalated and left unsettled

account  == <<created, inbox>>
database == <<cursor, processed, audit, usage>>
effects  == <<applied, drafts, alerted, calls>>
process  == <<pc, src, todo, cur, meta>>
config   == <<observe, dayAlerted, deaths, baseline, left>>
vars == <<account, database, effects, process, config>>

NoRow == [tier |-> "none", action |-> "none"]
Row == [tier : {"none", "tier1", "tier2"},
        action : {"none", "mutate", "ignore", "malformed", "archive_receipt", "quarantined"}]
Event == {"none", "action_applied", "receipt_archived", "escalated_pending_tier2",
          "tier2_action_applied", "tier2_alert_only_no_action",
          "tier2_budget_exhausted", "tier2_quarantined"}
NoMeta == [row |-> NoRow, event |-> "none"]
Settled(m) == processed[m] # NoRow

-----------------------------------------------------------------------------
Init ==
    /\ created = IF Checkpointed THEN 0 ELSE NMessages
    /\ inbox = 1..created
    /\ cursor = NoCursor /\ baseline = NoCursor
    /\ processed = [m \in Messages |-> NoRow]
    /\ audit = [m \in Messages |-> {}]
    /\ usage = 0 /\ calls = 0 /\ deaths = 0
    /\ applied = [m \in Messages |-> 0] /\ drafts = [m \in Messages |-> 0]
    /\ alerted = {}
    /\ pc = "stopped" /\ src = NoCursor /\ todo = {} /\ cur = NoMessage
    /\ meta = NoMeta /\ observe = FALSE /\ dayAlerted = FALSE /\ left = {}

(* A new message, delivered to the Inbox or filed elsewhere by the server. *)
Arrive ==
    /\ Checkpointed /\ created < NMessages
    /\ created' = created + 1
    /\ inbox' \in {inbox, inbox \cup {created + 1}}
    /\ UNCHANGED <<database, effects, process, config>>

(* Somebody files a message away.  Nothing brings one back: an update is   *)
(* not a creation, and only creations are fetched.                         *)
Leave(m) ==
    /\ Checkpointed /\ m \in inbox
    /\ inbox' = inbox \ {m}
    /\ UNCHANGED <<created, database, effects, process, config>>

-----------------------------------------------------------------------------
(* run_daemon: read the cursor, build the source on it, say READY.         *)
Boot ==
    /\ src' = IF Checkpointed THEN cursor ELSE 0
    /\ observe' \in ObserveModes
    /\ pc' = "loop"
    /\ UNCHANGED <<account, database, effects, todo, cur, meta, dayAlerted, deaths, baseline,
                   left>>

Launch  == pc = "stopped" /\ Boot     \* somebody starts the unit
Restart == pc = "down" /\ Boot        \* Restart=on-failure

(* The process ends, and its memory with it.  What it left in a batch that *)
(* it did not acknowledge is read again by the next process.               *)
Exit(how) ==
    /\ pc' = how
    /\ src' = NoCursor /\ todo' = {} /\ cur' = NoMessage
    /\ meta' = NoMeta /\ observe' = FALSE /\ dayAlerted' = FALSE
    /\ left' = {m \in left : m <= cursor}
    /\ UNCHANGED <<account, database, effects, baseline>>

(* The stop event is looked at between polls and between messages only; a  *)
(* stopped batch is not acknowledged.                                      *)
Stop ==
    /\ \/ pc = "loop"
       \/ pc = "next" /\ todo # {}
    /\ Exit("stopped") /\ UNCHANGED deaths

Die ==
    /\ pc \notin {"stopped", "down"}
    /\ deaths < MaxDeaths /\ deaths' = deaths + 1
    /\ Exit("down")

Fresh == {m \in inbox : src < m /\ m <= created}

(* mutant: the state is counted from one *)
PollPastState ==
    /\ pc = "loop"
    /\ todo' = IF src = NoCursor THEN {} ELSE Fresh
    /\ src' = created + 1
    /\ pc' = "next"
    /\ UNCHANGED <<account, database, effects, cur, meta, config>>

(* poll_batch: a source without a cursor only takes a baseline; otherwise  *)
(* every message created since, of those in the Inbox.  The source's own   *)
(* cursor moves at once, the database's only at SetCursor.                 *)
Poll ==
    /\ pc = "loop"
    /\ todo' = IF src = NoCursor THEN {} ELSE Fresh
    /\ src' = created
    /\ pc' = "next"
    /\ UNCHANGED <<account, database, effects, cur, meta, config>>

(* The batch is in whatever order the server listed it.                    *)
NextMessage ==
    /\ pc = "next"
    /\ \E m \in todo : cur' = m /\ todo' = todo \ {m}
    /\ meta' = NoMeta
    /\ pc' = "gate"
    /\ UNCHANGED <<account, database, effects, src, config>>

(* mutant: acknowledge as soon as the batch is in hand *)
SetCursorBeforeBatch ==
    /\ pc = "next"
    /\ cursor' = IF Checkpointed THEN src ELSE cursor
    /\ baseline' = IF baseline = NoCursor THEN cursor' ELSE baseline
    /\ pc' = IF todo = {} THEN "loop" ELSE pc
    /\ UNCHANGED <<account, processed, audit, usage, effects, src, todo, cur, meta,
                   observe, dayAlerted, deaths, left>>

(* mutant: acknowledge what the account holds now, not what the batch held *)
SetCursorAtHead ==
    /\ pc = "next" /\ todo = {}
    /\ cursor' = IF Checkpointed THEN created ELSE cursor
    /\ baseline' = IF baseline = NoCursor THEN cursor' ELSE baseline
    /\ pc' = "loop"
    /\ UNCHANGED <<account, processed, audit, usage, effects, src, todo, cur, meta,
                   observe, dayAlerted, deaths, left>>

SetCursor ==
    /\ pc = "next" /\ todo = {}
    /\ cursor' = IF Checkpointed THEN src ELSE cursor
    /\ baseline' = IF baseline = NoCursor THEN cursor' ELSE baseline
    /\ pc' = "loop"
    /\ UNCHANGED <<account, processed, audit, usage, effects, src, todo, cur, meta,
                   observe, dayAlerted, deaths, left>>

-----------------------------------------------------------------------------
(* One message.  Step: the part of the state a pipeline stage leaves alone. *)
Step == UNCHANGED <<account, cursor, src, todo, cur, config>>

(* mutant: the gate asks nothing *)
IdempotencyGateOpen ==
    /\ pc = "gate" /\ pc' = "rules"
    /\ Step /\ UNCHANGED <<processed, audit, usage, effects, meta>>

IdempotencyGate ==
    /\ pc = "gate"
    /\ pc' = IF Settled(cur) THEN "next" ELSE "rules"
    /\ Step /\ UNCHANGED <<processed, audit, usage, effects, meta>>

(* RuleEvaluationSelector, then Pipeline.run's look-up of the route.  A    *)
(* move or tag without a mailbox is raised by the executor before it acts, *)
(* an archive_receipt without [receipt_archive] by the look-up.            *)
Unroutable(r) == r = "archive_receipt" /\ ~ReceiptsConfigured

RuleEvaluation ==
    /\ pc = "rules"
    /\ \E r \in Routes \ {"malformed"} :
        /\ ~Unroutable(r)
        /\ pc' = CASE r = "escalate" -> "escalate"
                   [] r = "archive_receipt" -> "archive"
                   [] OTHER -> "apply"
        /\ meta' = [meta EXCEPT !.row = [tier |-> "tier1",
                                         action |-> IF r = "escalate" THEN "none" ELSE r]]
    /\ Step /\ UNCHANGED <<processed, audit, usage, effects>>

Poison ==
    /\ pc = "rules"
    /\ \E r \in Routes : r = "malformed" \/ Unroutable(r)
    /\ deaths' = IF deaths < MaxDeaths THEN deaths + 1 ELSE deaths
    /\ Exit("down")

(* mutant: the row is written first *)
MarkThenApply ==
    /\ pc = "apply" /\ pc' = "audit"
    /\ applied' = IF meta.row.action = "mutate" /\ ~observe
                    THEN [applied EXCEPT ![cur] = @ + 1] ELSE applied
    /\ processed' = [processed EXCEPT ![cur] = meta.row]
    /\ meta' = [meta EXCEPT !.event = "action_applied"]
    /\ Step /\ UNCHANGED <<audit, usage, drafts, alerted, calls>>

ApplyAction ==
    /\ pc = "apply" /\ pc' = "audit"
    /\ applied' = IF meta.row.action = "mutate" /\ ~observe
                    THEN [applied EXCEPT ![cur] = @ + 1] ELSE applied
    /\ meta' = [meta EXCEPT !.event = "action_applied"]
    /\ Step /\ UNCHANGED <<processed, audit, usage, drafts, alerted, calls>>

(* ArchiveReceiptAugment: keywords and the PDF, neither under --observe.   *)
ArchiveReceipt ==
    /\ pc = "archive" /\ pc' = "audit"
    /\ applied' = IF observe THEN applied ELSE [applied EXCEPT ![cur] = @ + 1]
    /\ meta' = [meta EXCEPT !.event = "receipt_archived"]
    /\ Step /\ UNCHANGED <<processed, audit, usage, drafts, alerted, calls>>

(* A rule may ask for an alert at once (alert_immediately).                *)
RecordEscalation ==
    /\ pc = "escalate" /\ pc' = "audit"
    /\ alerted' \in {alerted, alerted \cup {cur}}
    /\ meta' = [meta EXCEPT !.event = "escalated_pending_tier2"]
    /\ Step /\ UNCHANGED <<processed, audit, usage, applied, drafts, calls>>

Escalated == meta.event = "escalated_pending_tier2"

(* mutant: an escalation is taken for done, whoever runs *)
WriteAuditEntryNeverTier2 ==
    /\ pc = "audit"
    /\ audit' = [audit EXCEPT ![cur] = @ \cup {meta.event}]
    /\ pc' = IF Escalated THEN "next" ELSE "mark"
    /\ left' = IF Escalated /\ observe THEN left \cup {cur} ELSE left
    /\ UNCHANGED <<account, cursor, processed, usage, effects, src, todo, cur, meta,
                   observe, dayAlerted, deaths, baseline>>

(* Both tiers' WriteAuditEntryFilter.  An escalation ends Tier 1 here, with *)
(* no row; the loop hands the message to Tier 2, but an observing one goes *)
(* on to the next.                                                         *)
WriteAuditEntry ==
    /\ pc = "audit"
    /\ audit' = [audit EXCEPT ![cur] = @ \cup {meta.event}]
    /\ pc' = IF ~Escalated THEN "mark" ELSE IF observe THEN "next" ELSE "tier2"
    /\ left' = IF Escalated /\ observe THEN left \cup {cur} ELSE left
    /\ UNCHANGED <<account, cursor, processed, usage, effects, src, todo, cur, meta,
                   observe, dayAlerted, deaths, baseline>>

AfterMark == IF meta.row.tier = "tier1" THEN "next"
             ELSE IF meta.event = "tier2_quarantined" THEN "quarantine_alert"
             ELSE "day"

MarkProcessed ==
    /\ pc = "mark"
    /\ processed' = [processed EXCEPT ![cur] = meta.row]
    /\ pc' = AfterMark
    /\ Step /\ UNCHANGED <<audit, usage, effects, meta>>

-----------------------------------------------------------------------------
(* Tier 2.  Reading the thread and the mailbox list may only die.          *)
Tier2Row(a) == [tier |-> "tier2", action |-> a]

(* RecordBudgetExhaustedFilter: given up for good, but never silently.     *)
BudgetExhausted ==
    /\ pc' = "audit"
    /\ meta' = [row |-> Tier2Row("none"), event |-> "tier2_budget_exhausted"]
    /\ alerted' = alerted \cup {cur}

(* mutant: one call too many *)
BudgetGateOffByOne ==
    /\ pc = "tier2"
    /\ IF usage <= Budget
         THEN pc' = "llm" /\ UNCHANGED <<meta, alerted>>
         ELSE BudgetExhausted
    /\ Step /\ UNCHANGED <<processed, audit, usage, applied, drafts, calls>>

(* mutant: skipped without a word *)
BudgetGateSilent ==
    /\ pc = "tier2"
    /\ IF usage < Budget
         THEN pc' = "llm" /\ UNCHANGED meta
         ELSE /\ pc' = "audit"
              /\ meta' = [row |-> Tier2Row("none"), event |-> "tier2_budget_exhausted"]
    /\ Step /\ UNCHANGED <<processed, audit, usage, effects>>

BudgetGate ==
    /\ pc = "tier2"
    /\ IF usage < Budget
         THEN pc' = "llm" /\ UNCHANGED <<meta, alerted>>
         ELSE BudgetExhausted
    /\ Step /\ UNCHANGED <<processed, audit, usage, applied, drafts, calls>>

(* escalate_message_or_quarantine: what is caught, and what it does.       *)
ToQuarantine ==
    /\ pc' = "audit"
    /\ meta' = [row |-> Tier2Row("quarantined"), event |-> "tier2_quarantined"]

(* A call that is refused, or answered with something that is no verdict,  *)
(* raises LiteLLMClientError.                                              *)
CallLLM ==
    /\ pc = "llm"
    /\ \/ calls' = calls + 1 /\ pc' = "usage" /\ UNCHANGED meta
       \/ calls' \in {calls, calls + 1} /\ ToQuarantine
    /\ Step /\ UNCHANGED <<processed, audit, usage, applied, drafts, alerted>>

RecordLLMUsage ==
    /\ pc = "usage" /\ pc' = "verdict"
    /\ usage' = usage + 1
    /\ Step /\ UNCHANGED <<processed, audit, effects, meta>>

(* ValidateVerdictFilter and ConfidenceBandSelector: the verdict is free.  *)
(* Both outcomes of a valid verdict keep the action it suggests.           *)
ValidateVerdict ==
    /\ pc = "verdict"
    /\ \/ \E a \in {"mutate", "ignore", "malformed"} :
            /\ pc' \in {"act", "alert_only"}
            /\ meta' = [meta EXCEPT !.row = Tier2Row(a)]
       \/ ToQuarantine
    /\ Step /\ UNCHANGED <<processed, audit, usage, effects>>

(* The alert of the autoact_alert band, or of an urgent verdict, is sent   *)
(* after the action and before anything is written.                        *)
ApplyVerdictAction ==
    /\ pc = "act"
    /\ IF meta.row.action = "malformed"
         THEN ToQuarantine /\ UNCHANGED <<applied, alerted>>
         ELSE /\ applied' = IF meta.row.action = "mutate"
                              THEN [applied EXCEPT ![cur] = @ + 1] ELSE applied
              /\ pc' \in {"act_alert", "draft"}
              /\ meta' = [meta EXCEPT !.event = "tier2_action_applied"]
              /\ UNCHANGED alerted
    /\ Step /\ UNCHANGED <<processed, audit, usage, drafts, calls>>

AlertOfAction ==
    /\ pc = "act_alert" /\ pc' = "draft"
    /\ alerted' = alerted \cup {cur}
    /\ Step /\ UNCHANGED <<processed, audit, usage, applied, drafts, calls, meta>>

RecordAlertOnly ==
    /\ pc = "alert_only" /\ pc' = "draft"
    /\ alerted' = alerted \cup {cur}
    /\ meta' = [meta EXCEPT !.event = "tier2_alert_only_no_action"]
    /\ Step /\ UNCHANGED <<processed, audit, usage, applied, drafts, calls>>

CreateDraftIfWanted ==
    /\ pc = "draft" /\ pc' = "audit"
    /\ drafts' \in {drafts, [drafts EXCEPT ![cur] = @ + 1]}
    /\ Step /\ UNCHANGED <<processed, audit, usage, applied, alerted, calls, meta>>

QuarantineAlert ==
    /\ pc = "quarantine_alert" /\ pc' = "day"
    /\ alerted' = alerted \cup {cur}
    /\ Step /\ UNCHANGED <<processed, audit, usage, applied, drafts, calls, meta>>

(* The daemon-health alert: once a day, as far as this process remembers.  *)
CheckDailyBudgetAlert ==
    /\ pc = "day" /\ pc' = "next"
    /\ dayAlerted' = (dayAlerted \/ usage >= Budget)
    /\ UNCHANGED <<account, database, effects, src, todo, cur, meta, observe, deaths,
                   baseline, left>>

-----------------------------------------------------------------------------
Tier1 == IdempotencyGate \/ RuleEvaluation \/ Poison \/ ApplyAction \/ ArchiveReceipt
         \/ RecordEscalation
Tier2 == BudgetGate \/ CallLLM \/ RecordLLMUsage \/ ValidateVerdict \/ ApplyVerdictAction
         \/ AlertOfAction \/ RecordAlertOnly \/ CreateDraftIfWanted \/ QuarantineAlert
Loop  == Poll \/ NextMessage \/ SetCursor \/ WriteAuditEntry \/ MarkProcessed
         \/ CheckDailyBudgetAlert
Daemon == Loop \/ Tier1 \/ Tier2

Next ==
    \/ Arrive \/ \E m \in Messages : Leave(m)
    \/ Launch \/ Restart \/ Stop \/ Die
    \/ Daemon

Spec == Init /\ [][Next]_vars

(* The loop is one task whose every call returns, and systemd restarts a   *)
(* process that failed; nobody is obliged to send mail, to start the unit  *)
(* or to stop it.  That Poll returns is an assumption on the trigger: a    *)
(* timer fires by itself, push at the account's next event or when its     *)
(* stream ends.                                                            *)
FairSpec == Spec /\ WF_vars(Daemon) /\ WF_vars(Restart)

-----------------------------------------------------------------------------
PC == {"stopped", "down", "loop", "next", "gate", "rules", "apply", "archive", "escalate",
       "audit", "mark", "tier2", "llm", "usage", "verdict", "act", "act_alert",
       "alert_only", "draft", "quarantine_alert", "day"}

AccountOK == created \in 0..NMessages /\ inbox \subseteq 1..created

DatabaseOK ==
    /\ cursor \in NoCursor..created /\ baseline \in NoCursor..created
    /\ processed \in [Messages -> Row]
    /\ audit \in [Messages -> SUBSET Event]
    /\ usage \in Nat

EffectsOK ==
    /\ applied \in [Messages -> Nat] /\ drafts \in [Messages -> Nat]
    /\ alerted \subseteq Messages /\ calls \in Nat

ProcessOK ==
    /\ pc \in PC /\ src \in NoCursor..created /\ todo \subseteq Messages
    /\ cur \in Messages \cup {NoMessage}
    /\ meta \in [row : Row, event : Event]
    /\ observe \in BOOLEAN /\ dayAlerted \in BOOLEAN /\ deaths \in 0..MaxDeaths
    /\ left \subseteq Messages

TypeOK == AccountOK /\ DatabaseOK /\ EffectsOK /\ ProcessOK

(* The persisted cursor never passes a message the daemon has not settled: *)
(* whatever was created after the first baseline and is still in the Inbox *)
(* has its row, or was escalated by a process that observed, which sends   *)
(* nothing to Tier 2, and that process acknowledged it.  A message that a  *)
(* live daemon escalated is owed its row, observed before or not.          *)
LeftByObserver(m) == m \in left

CursorSafety ==
    \A m \in inbox : baseline < m /\ m <= cursor /\ Checkpointed /\ cursor # NoCursor
                       => Settled(m) \/ LeftByObserver(m)

(* No mailbox mutation or draft for a message that has its row, and no LLM *)
(* call while it is the one in hand; nor is the row written again.         *)
NothingAfterRow ==
    [][\A m \in Messages : Settled(m) =>
          /\ applied'[m] = applied[m] /\ drafts'[m] = drafts[m]
          /\ cur = m => calls' = calls
          /\ processed'[m] = processed[m]]_vars

(* A message is mutated again only because the process died in between.    *)
RepeatsNeedDeaths == \A m \in Messages : applied[m] <= deaths + 1 /\ drafts[m] <= deaths + 1

(* Every row is explained in the audit log: the entry precedes the row and *)
(* tells the same story.                                                   *)
VerdictActions == {"mutate", "ignore", "malformed"}
VerdictEvents  == {"tier2_action_applied", "tier2_alert_only_no_action"}

Explains(event, row) ==
    \/ event = "receipt_archived" /\ row = [tier |-> "tier1", action |-> "archive_receipt"]
    \/ event = "action_applied" /\ row.tier = "tier1" /\ row.action # "archive_receipt"
    \/ event = "tier2_quarantined" /\ row = Tier2Row("quarantined")
    \/ event = "tier2_budget_exhausted" /\ row = Tier2Row("none")
    \/ event \in VerdictEvents /\ row.tier = "tier2" /\ row.action \in VerdictActions

RowsAreAudited ==
    \A m \in Messages : Settled(m) => \E event \in audit[m] : Explains(event, processed[m])

(* No message is given up without a human being told: where the row stands *)
(* for "no action", an alert was sent first, except that a quarantined one *)
(* is alerted after its row and a death in between loses the alert.        *)
NotDroppedSilently ==
    \A m \in Messages : processed[m].tier = "tier2" /\ m \notin alerted =>
        \/ "tier2_action_applied" \in audit[m]
        \/ processed[m].action = "quarantined" /\ (deaths > 0 \/ (cur = m /\ pc = "quarantine_alert"))

(* The daily budget bounds the calls that are recorded, and a call that is *)
(* not recorded is explained by a quarantine or by a death.                *)
Quarantined == {m \in Messages : "tier2_quarantined" \in audit[m]}
BudgetHolds ==
    /\ usage <= Budget
    /\ calls <= usage + deaths + Cardinality(Quarantined)
                 + (IF pc = "usage" \/ meta.event = "tier2_quarantined" THEN 1 ELSE 0)

(* With no poison rule, every message that stays in the Inbox after the    *)
(* baseline is settled unless somebody stops the daemon.                   *)
EventuallySettled ==
    \A m \in Messages :
        (m \in inbox /\ cursor # NoCursor /\ cursor < m)
          ~> (Settled(m) \/ m \notin inbox \/ pc = "stopped")

(* All of it at once: the loop, its pipelines and its database keep the    *)
(* promise of module Settlement, through every death and restart.          *)
Promise == INSTANCE Settlement WITH
    acknowledged <- cursor,
    first   <- baseline,
    settled <- {m \in Messages : Settled(m)},
    waived  <- left,
    acted   <- [m \in Messages |-> applied[m] + drafts[m]]

KeepsPromise == Promise!Spec

(* What RecordLLMUsageFilter says: a call costs budget whatever its answer *)
(* is worth.  Without deaths, every call answered is recorded at once.     *)
EveryCallRecorded == deaths = 0 => calls <= usage + (IF pc = "usage" THEN 1 ELSE 0)

-----------------------------------------------------------------------------
(* The inductive invariant: what TypeOK and the properties above need to    *)
(* hold in the next state too.                                             *)
Up      == PC \ {"stopped", "down"}
Working == Up \ {"loop", "next"}          \* cur is being processed
Unmarked == Working \ {"gate", "quarantine_alert", "day"}
Decided == Working \ {"gate", "rules"}    \* a row is ready

(* As long as the process is up it has a step to take, and one that died   *)
(* can be started again: what the fairness needs.  It takes a rule base    *)
(* that decides something about each message.                              *)
NeverStuck ==
    /\ pc \in Up => ENABLED <<Daemon>>_vars
    /\ pc = "down" => ENABLED <<Restart>>_vars

ModeInv == observe = TRUE \/ left # {} => TRUE \in ObserveModes

(* The source never lags behind the cursor, and between two batches they   *)
(* agree.                                                                  *)
CursorInv ==
    /\ cursor = NoCursor <=> baseline = NoCursor
    /\ baseline <= cursor
    /\ Checkpointed /\ pc \in Up => cursor <= src
    /\ pc \in Up \ {"loop"} => 0 <= src
    /\ Checkpointed /\ pc = "loop" => cursor = src
    /\ ~Checkpointed => cursor = NoCursor

(* Nothing falls out of a batch: what the source has passed is settled, or *)
(* left by an observer, or still to do, or being processed.                *)
BatchInv ==
    Checkpointed /\ pc \in Up /\ baseline # NoCursor =>
        \A m \in inbox : baseline < m /\ m <= src =>
            \/ Settled(m) \/ LeftByObserver(m)
            \/ m \in todo
            \/ m = cur /\ pc \in Working

(* What a stage may assume of the message it works on.                     *)
StageInv ==
    /\ pc \in Working => cur \in Messages
    /\ pc \in Unmarked => ~Settled(cur)
    /\ pc \in {"quarantine_alert", "day"} => Settled(cur)
    /\ pc \in Decided => meta.row.tier # "none"

(* The row that is about to be written agrees with the audit entry.        *)
AuditInv ==
    /\ pc = "apply" => meta.row.tier = "tier1" /\ meta.row.action # "archive_receipt"
    /\ pc = "archive" => meta.row = [tier |-> "tier1", action |-> "archive_receipt"]
    /\ pc \in {"act", "act_alert", "alert_only", "draft"} =>
          meta.row.tier = "tier2" /\ meta.row.action \in VerdictActions
    /\ pc = "draft" => meta.event \in VerdictEvents
    /\ pc = "act_alert" => meta.event = "tier2_action_applied"
    /\ pc \in {"audit", "mark"} =>
          meta.event = "escalated_pending_tier2" \/ Explains(meta.event, meta.row)
    /\ pc = "mark" => meta.event # "escalated_pending_tier2" /\ meta.event \in audit[cur]

(* Each mutation and each draft is paid for by a death, or by the row that *)
(* is written or on its way.                                               *)
Paid(m, events) == Settled(m) \/ (m = cur /\ pc \in {"audit", "mark"} /\ meta.event \in events)
RepeatInv ==
    \A m \in Messages :
        /\ applied[m] <= deaths + (IF \/ Paid(m, VerdictEvents \cup {"action_applied", "receipt_archived"})
                                      \/ m = cur /\ pc \in {"act_alert", "draft"} THEN 1 ELSE 0)
        /\ drafts[m] <= deaths + (IF Paid(m, VerdictEvents) THEN 1 ELSE 0)

Inductive ==
    /\ ModeInv /\ CursorInv /\ BatchInv /\ StageInv /\ AuditInv /\ RepeatInv
    /\ CursorSafety /\ RowsAreAudited

=============================================================================
