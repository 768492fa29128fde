# Verification of spork

`spork` triages mail: a daemon (`sporkd`) takes new messages from a provider,
decides each by rules (Tier 1) or by an LLM (Tier 2), acts on the mailbox,
alerts a human, and keeps what it did in SQLite; a command line (`spork`) edits
the rules, pauses the daemon over a socket, and replays messages by hand. This
directory holds TLA+ models of that code, the TLC runs that check them on small
instances, and the TLAPS proofs of what holds for every size. Paths below are
relative to `src/spork/` unless they start with `docs/` or `verification/`.

## 1. The system

| Part | State | Operations | Talks to |
|---|---|---|---|
| Message loop, `daemon/loop.py` | position in the batch (memory) | poll, one message at a time, acknowledge, stop | source, pipelines, database, control plane |
| Tier 1 pipeline, `core/pipeline/` | one message's metadata | gate, rules, act / archive / escalate, audit, row | database, provider, alerter |
| Tier 2 pipeline, `core/pipeline/tier2/` | the same | budget gate, call, record, validate, act / alert, draft, audit, row; quarantine | database, LLM, provider, alerter |
| State database, `core/state/db.py` | cursor, processed_messages, audit_log, llm_usage, known senders | one commit per method | everybody |
| Sources, `core/providers/`, `core/sources/` | JMAP Email state (memory), push stream, attempt counter | wait, fetch, fall back to a timer | mail server |
| Control plane, `core/ipc/`, `daemon/state.py` | `paused`, queue of audit events, current rules (memory) | status, pause, resume, reload | CLI, message loop |
| Rules, `core/rules/` | `rules.toml` | load, evaluate, rewrite | CLI, message loop |
| Receipts, `core/receipts/` | known senders, PDF files | extract, learn, tag, save | Tier 1, LLM, provider |
| CLI, `cli/commands/` | none of its own | backfill, reclassify, rules, pause, ... | database, provider, socket |
| Classifiers, `core/classify/`, `core/dispatch/` | none | classify, dispatch, combine | rules |
| Configuration and secrets, `core/config/`, `core/secrets.py`, `core/runtime.py` | three tiers of `config.toml`, the manifest, the keyring | merge, validate, resolve, compose | CLI, daemon's start |
| Lifecycle, `daemon/main.py`, `core/systemd/` | the unit | install, start, wait, restart | systemd |
| Alerts, context | files, read once | send, look up | all of the above |

What is hard in it: every database method commits by itself and every effect is
outside the process, so a message is a chain of steps any two of which may be
separated by a crash; the daemon is restarted by systemd
(`core/systemd/template.py`, `Restart=on-failure`) and replays; the coroutines of
the daemon interleave at every `await`; the CLI opens the same database; a poll
may block for as long as the mail server says nothing.

`PROJECT.json` lists the components with their status, and under `hazards` every
place where that bites, with the properties that watch it or the reason why none
does.

## 2. Modules

| Module | Subject | Built on |
|---|---|---|
| `Settlement`, `Settlement_proofs` | what the daemon promises the owner of the account; abstract | |
| `Triage`, `MCTriage`, `Triage_proofs` | message loop, both pipelines, database, deaths | implements `Settlement` |
| `MailSource`, `MCMailSource`, `MailSource_proofs` | push, fallback to the timer, paging, shared cursor, baseline; the source that `Triage` assumes | implements `Settlement` |
| `Sweep`, `MCSweep`, `Sweep_proofs` | daemon, backfill and reclassify on one mailbox and one database; days | |
| `ControlPlane`, `MCControlPlane`, `ControlPlane_proofs` | pause, resume, the queue of audit events, clients, shutdown | |
| `RulesFile`, `MCRulesFile`, `RulesFile_proofs` | editors, a read in the middle of a write, start and reload | |
| `Setup`, `MCSetup`, `Setup_proofs` | configuration tiers, secrets, the daemon's start, the commands that write or report them | |
| `Decide` | the decision on one message: rules, classifiers, verdict, thresholds | |
| `Receipts`, `MCReceipts`, `Receipts_proofs` | the receipt archive, and both parts as one process | extends `Decide` |

Each MC module gives the constants of a module their values for TLC; the `.cfg` of
the same name lists what is checked. Each `_proofs` module holds the theorems on the
module it extends. The modules cut the system where its parts share little: what one
leaves out is a free choice in it (the verdict in `Triage`, the message's treatment in
`MailSource`), so it contains whatever the module that has the detail does.

Two definitions of one thing are never both bodies of a behaviour: an operator that is
commented as a mutant is a plausible bug, kept to show that a property notices it, and
no specification uses it.

## 3. `Triage`

### State and actions

The mail account is `created`, the number of messages it has ever created, and
`inbox`. A JMAP Email state is a number: how many messages existed. The database is
`cursor`, `processed`, `audit`, `usage`; what happened outside is `applied`,
`drafts`, `alerted`, `calls`; the process is `pc`, the source's own cursor `src`,
the rest of the batch `todo`, the message in hand `cur` with its pipeline metadata
`meta`, and the `--observe` flag it was started with. `deaths`, `baseline` (the
first cursor ever persisted) and `left` are history: `left` holds the messages that a
process with `--observe` escalated and left, and loses those that the process did not
live to acknowledge, since the next one reads them again.

| Action | Code |
|---|---|
| `Launch`, `Restart` | `run_daemon` composes everything on the persisted cursor; started by hand or by systemd |
| `Poll` | `poll_batch`: a baseline when there is no cursor, otherwise what was created since, of what is in the Inbox |
| `NextMessage`, `Stop` | the `for` of the loop, which looks at the stop event before each message |
| `IdempotencyGate` ... `RecordEscalation` | the stages of Tier 1; `Poison` is a rule whose action raises there |
| `BudgetGate` ... `CreateDraftIfWanted` | the stages of Tier 2; an exception of `QUARANTINABLE_ERRORS` is `ToQuarantine` |
| `WriteAuditEntry`, `MarkProcessed` | the two commits that end a message, in both tiers and in the quarantine |
| `QuarantineAlert`, `CheckDailyBudgetAlert` | after the row: the alert of a quarantine, the once-a-day alert |
| `SetCursor` | the commit after the last message of the batch (or after an empty one) |
| `Die` | a kill, or an exception of any step; nothing in the loop catches one |
| `Arrive`, `Leave` | the mail server and its owner |

Rules are read anew for every batch and may be reloaded, so what a rule says of a
message is a free choice of `Routes` at every evaluation, which covers any rules
file and any reload. The LLM's verdict is a free choice too. The batch is processed
in any order, which covers the order of the server's list.

Two kinds of provider: `Checkpointed = TRUE` is the contract of a
`CheckpointedProvider` whose appliers work. (At this commit the JMAP client's
`apply_action`, `create_draft` and attachment methods raise `NotImplementedError`,
`core/providers/jmap/client.py` 403 ff; with it every action that is not `ignore` is
a death before its effect, a behaviour that the model contains.) `Checkpointed =
FALSE` is the file provider, which replays its messages from the first at every start
and has no cursor.

### What is checked

| Run | Shows |
|---|---|
| `Triage` | N = 2, one death, budget 1, routes act / escalate / archive_receipt with no `[receipt_archive]`, observe on and off. All safety properties, and the refinement of `Settlement`. 1.8 million states. |
| `TriageFair` | `EventuallySettled` with fairness, no poison rule. |
| `TriageCalls` | violated: a call answered with no verdict is not recorded, though the comment says each call is. |

The properties: `CursorSafety`, nothing that is still in the Inbox is behind the
persisted cursor unsettled, but for `left`, what an observing process itself escalated and
acknowledged: that never reaches Tier 2, which `--observe` means, while a message that a
live process escalated is owed its row, in the same run, with both modes and a restart that
changes from one to the other;
`RepeatsNeedDeaths`, an effect is repeated at most once per death (docs/DESIGN.md:4691
says that a message is only acted on once: with no death that is what this says); `NothingAfterRow`,
no mutation, draft or new row for a message that has its row, and no LLM call while it is in
hand; `RowsAreAudited`, a row is preceded by
an audit entry that tells the same story; `NotDroppedSilently`, whatever is given up
was told to a human, except a quarantine whose process dies between row and alert;
`BudgetHolds`, recorded calls stay within the budget and each unrecorded call has a
quarantine or a death; `KeepsPromise`, the refinement.

Fairness (`FairSpec`): weak fairness of the daemon's steps, because the loop is
one task and each of its awaits ends, and of `Restart`, because of
`Restart=on-failure` without a limit that stops it (`RestartSec=5` keeps below
systemd's start limit). That a poll ends is an assumption on the trigger: the timer
fires by itself; push returns at the account's next event or when the stream ends.
Nobody is obliged to send mail, to start or to stop the daemon.

Not in `Triage`: a second process on the database and a change of day (`Sweep`); what arrives
between two baselines when the first was never persisted; a message that left the
Inbox through its own `move` before a crash, which is not fetched again and so gets
no row (its audit entry may be missing).

### What is proved

`Triage_proofs` proves for every number of messages, every budget, set of routes,
choice of modes and number of deaths, from `TriageAssumption` alone (which only types
the constants): `TypeOK`, `Inductive`, `CursorSafety`, `RowsAreAudited`,
`RepeatsNeedDeaths`, `NotDroppedSilently`, `BudgetHolds`, `NothingAfterRow` and
`KeepsPromise`.

`CursorSafety` is not inductive. `SetCursor` copies the source's cursor, so one needs
to know that all the source has passed is settled, waived, still in `todo` or in hand
(`BatchInv`); that no batch is open when the loop is at its top, where both cursors
agree (`CursorInv`); and that a stage works on a message that has no row
(`StageInv`). `RowsAreAudited` needs what the audit entry on its way says
(`AuditInv`), `RepeatsNeedDeaths` that an effect is paid for by a death or by a row
on its way (`RepeatInv`), `NotDroppedSilently` that what Tier 2 is about to write down was
told first or is a quarantine (`TellInv`), and `BudgetHolds` that each call that was not
recorded is being recorded, on its way to a quarantine, quarantined with its row, or cut
off by a death (`CallInv`). The proof goes in these layers, one lemma for each, each
with one step per action. `KeepsPromise` maps each action to a step of `Settlement`
or to a stutter, with `SetCursor` as `Acknowledge`.

`Settlement_proofs` proves what the promise comes to, whoever keeps it: nothing in the
acknowledged part of the Inbox is left undone, at any moment (`PromiseHolds`), and nothing
that was acknowledged or settled is taken back, nor what was waived and acknowledged
(`PromiseIsFinal`; `Reopen` is the step by which a message that was waived and not
acknowledged is owed again: an observing process that ends in the middle of a batch). Through the
refinement mapping these become theorems of the daemon: `SettledIsFinal` here, and
`CursorCoversOnlySettled` and `CursorOnlyAdvances` in `MailSource_proofs`.

Two theorems are about what happens in the end. `StartedIsDone`: a message taken up gets
its row, is left by an observer, or the process dies. The stages are ranked, every route
goes down the ranks, and the temporal step is made rank by rank. `MailIsSettled` states
`EventuallySettled`: the loop comes back to the source, the source passes the message, and a
batch in which it waits is worked off. Its hypotheses are, besides those of the run (rules that
decide, `NoPoison`; no observer), three that section 11 explains: `NeverStuck`, `DeathsEnd` and
`NoEndlessDescent`.

## 4. `ControlPlane`

Server and message loop are coroutines of one thread: an action is what runs between
two awaits, or what an await does on another thread. `paused`, `pending` and
`draining` are `DaemonState` and the loop's local list; `pc` is where the loop waits;
`server` the socket; `requests` the open connections; `client` what each CLI run knows.
Each client issues one command, so an audit event is the client it came from.
`written` and `handled` are the rows and the commands of the current process: `Boot`
empties them, since earlier rows are only ever before the new ones.

`Top`, `Write`, `Drained`, `Wake`, `PollReturns`, `TakeMessage` and `MessageDone`
are the loop; `Listen`, `CloseSocket` and `Handle` the server; `Issue`, `GiveUp`
and `Receive` the client with its timeout. A stop event is seen at the top of the loop
and before each message, and not after a drain: the loop may still poll once.

| Run | Shows |
|---|---|
| `ControlPlane` | two pauses, a resume, batches of one, a death: `QueueExact`, `AuditedPauseHolds` and, under fairness, `ObeyedIsAudited` and `StopStops`. 156 000 states. |

What is obeyed after the last drain is lost with the process, and a client that has given
up may still be obeyed, and audited, later; `QueueExact` is about the events of a process
that lives, and both are in its behaviours.

The fairness is that of the loop and of the server, with the same assumption on polls
as above, and none for clients or handlers. `status` changes nothing and is left out;
`reload` belongs to `RulesFile`.

`ControlPlane_proofs` proves `QueueExact` and `AuditedPauseHolds` for any set of
clients, batch size and number of deaths. `QueueExact` (written, draining and pending,
in a row, are the commands obeyed) is inductive with `DrainEnds`: the swap at `Top` needs an
empty `draining`. `AuditedPauseHolds` needs `LastCommandHolds`: when the loop decides
to poll the flag is down, so the last command obeyed was a resume, and if the log ends
in a pause, that resume is in the queue.

`StopEndsProcess` and `ObeyedReachesLog` prove `StopStops` and `ObeyedIsAudited` for any set
of clients and batch size. From every place of the loop a step leads towards `returned` once
a stop is seen, and towards `top` otherwise; there the swap takes the whole queue, and each
write moves its head to the log. Both rest on `NeverStuck` and on the finiteness of a drain,
the second also on that of a batch (section 11).

## 5. `RulesFile`

A content of `rules.toml` is the enabled flag of each rule, or `Broken`, one that does
not load; an empty file is no rules, not an error, as `load_rules` has it. `file` is what
is on disk, `rules` what the daemon evaluates, `requests` the reloads in its socket;
`stage`, `copy` and `change` say where each run of `spork rules` is, what it holds in
memory and what it was asked. `intent` and `overlap` are history: what the commands so
far were asked for, and whether one ever began while another was between its read and
the end of its write.

`Load`, `Truncate`, `Flush`, `Close` and `Push` are `_set_enabled` (its audit row can
only fail, which is `EditorDies`); `Save` and `Validate` are `edit` with the user's
editor, which replaces the file at once; `Boot` and `Listen` are the start of the
daemon, which reads the file long before it binds the socket; `Reload` is the handler.

| Run | Shows |
|---|---|
| `RulesFile` | two commands, two rules: `CurrentUnlessMissed`, a daemon whose rules are not the file's is owed a reload by a command under way, by a waiting request, by one that died, or by one that took a starting daemon for none; `AsAsked`, commands that neither overlap nor die leave the file as they were asked to. 265 000 states. |
| `RulesFileReload` | violated: `docs/DESIGN.md` says that a running daemon is never silently left without rules; a reload during another command's write does it. |

Every command ends and the daemon may be stopped for good, so the system really may
stop: deadlock is not checked. No fairness is assumed, since nobody is obliged to run a
command again.

`RulesFile_proofs` proves `TypeOK` (the daemon never holds a content that does not load),
`CurrentUnlessMissed` and `AsAsked` for any number of commands and rules.
`CurrentUnlessMissed` is inductive. `AsAsked` needs `InTurn`: while no two commands have
overlapped, at most one is between its read and its write, and what it holds is the
content asked for so far with its own change.

## 6. `MailSource`

What `Triage` takes for one step, the poll: the wait on an EventSource stream, the
fallback to a timer when it fails, `Email/changes` and `Email/get` page by page, and the
state handed to the loop as checkpoint. In return a message is settled in one step
(`Process`). Both models implement the same `Settlement`, which is what they rely on of
each other.

| Variables | Code |
|---|---|
| `created`, `inbox`, `entered` | the account; `entered` are old messages that somebody moved into the Inbox, an update and not a creation, so never fetched |
| `online`, `stream`, `events` | the network, the open stream and what waits in it |
| `cursor`, `src` | the persisted row, and the state that push and timer share |
| `attempt`, `by` | the backoff's counter, whose poll it is |
| `at`, `upto`, `more`, `got` | the page of `fetch_new_messages` |
| `todo`, `settled`, `handed` | the batch in the loop |
| `first`, `enabled`, `deaths` | history: the first cursor persisted, the account when the daemon was first ready |

`Poll`, `OpenStream`, `OpenFails`, `StreamFailed`, `Wake`, `Skip` and `TimerFires` are
the two triggers under `CheckpointedFallbackSource`; `Baseline`, `Changes`, `Get` and
`RequestFails` the client; `Acknowledge` the loop's commit. The server may cut its
answer anywhere; mail may come and go between two requests; a stream
that is opened anew may tell of what was missed or say nothing. Two Email states between which mail was only updated
are one state here. The stop event is seen between polls and between messages; a poll
that waits does not see it.

| Run | Shows |
|---|---|
| `MailSource` | two messages, a death, an outage, a schedule of two delays: `BatchExact`, nothing delivered between the cursor and the source's state is neither in the batch nor settled; `NoHistoryReplayed`; `HandedOnce`, push and timer never hand one process a message twice; `NeverFastAgain`, the backoff starts over with relevant mail or a new process only; `KeepsPromise`, the refinement of `Settlement`; `FetchedUnlessDeaf`, mail is fetched and settled as long as waits end. |
| `MailSourceBaseline` | violated: `docs/DESIGN.md` says that spork starts with the mail that arrives after it was enabled. The first baseline is read after the first push event, so the mail that caused the event is behind it. |

`FetchedUnlessDeaf` has an assumption, `[]<>(pc # "listen")`, because the code sets no
timeout on a stream: one that stays open and silent is waited for without end. The rest
of its fairness is that of the loop, of `Restart=on-failure`, and that an outage ends.

`MailSource_proofs` proves `TypeOK`, `BatchExact`, `NoHistoryReplayed`, `HandedOnce`,
`NeverFastAgain` and `KeepsPromise` for any number of messages, deaths, outages and delays. `BatchExact` needs
`PhaseInv`, the order of the cursors in each phase of a poll, and `CoverInv`, that during
a read `got` holds all that `at` has passed and after it the batch and the rows do. `NeverFastAgain` is proved from
`TypeOK`, one case per action.

`FetchedInTheEnd` proves `FetchedUnlessDeaf`: once the network is back and nobody dies, the
source goes round from the wait to the checkpoint, a round passes every message there is,
and none is acknowledged unsettled. Its hypotheses are in section 11.

`Triage` takes a poll for one step. `PollsAsTriageAssumes` says that it may: a poll that
returns has moved the source's state to one of the account's, no further and never back, and
the batch is what was delivered between the two and is still there, or nothing on a first
poll; the state moves at no other time, but to the persisted one at a start. The one
difference is in time: here mail may come and go between the last page and the handover,
while in `Triage` the batch is what is there at that moment.

## 7. `Sweep`

The daemon, `spork backfill` and `spork reclassify` on one mailbox and one database,
with days. A message goes through the pipelines in the steps that the three can
interleave in: the gate (`has_processed`), the rules, the budget check, the call with its
record, the mutation, and the row; an outcome and its audit entry are one step, since no
other process reads the log. The Inbox is the sequence `Email/query` pages through by
position; a new message is listed at either end, as the query gives no sort order.
`Remove` is a person, `Midnight` the clock. A command that dies takes no further step,
which nothing obliges it to take in any case; `Die` is the daemon's death. `stamp` is the day
that Tier 2 put on a message, `toldOn` the day of the last alert, in memory; `cutOff`
counts the deaths of the daemon between an outcome and its row, `balance` is by how much the
departures from the Inbox exceed the messages that the backfill missed.

| Run | Shows |
|---|---|
| `Sweep` | two messages, one of them old, two days, budget 1, pages of one, one of the two commands beside the daemon, and one event (midnight, removal or death): `OverspendBounded`, each command adds at most one call to a day's budget; `OncePerProcess`, no process mutates a message twice, but for a death before the row; `SkipsNeedDepartures`, a sweep that reached its end has missed at most as many as have left; `OneAlertPerDayAndStart`. |
| `SweepDouble` | violated: `docs/ROADMAP.md` says that an overlapping backfill and live ingestion never double-process a message. Both ask for the row before either has written it. |

`MaxEvents` bounds midnights, removals and deaths together. A page that comes back
without a message ends a sweep whatever lies behind it (`ended = "gap"`); the property
leaves those sweeps out. `--unread-only` is left out.

`Sweep_proofs` proves `TypeOK`, `OverspendBounded`, `OncePerProcess`,
`OneAlertPerDayAndStart` and `SkipsNeedDepartures` for any number of messages, days and events, any budget, limit
and page size, and both commands at once. `OverspendBounded` is carried by what is
already granted: recorded calls and the processes between check and record, of which
each is one, together stay within budget and commands. `OncePerProcess` needs `Once`: a process
is through with a message when it holds it behind its outcome, or when it does not hold it and the row is
there, whoever wrote it; only then may it have acted. `OneAlertPerDayAndStart` needs that a
living daemon has not yet told of any day from now on but `toldOn`. `SkipsNeedDepartures` needs `PassInv`: of the messages listed
up to the position, those that were there from the first and are neither processed nor on
the page are no more than have left, since each departure moves at most one message ahead
of the position and an arrival moves none; once there is no more, the same holds of all
that are listed.

## 8. `Setup`

One machine: the three tiers of `config.toml`, rules file, manifest, keyring, unit, and
the daemon's start from all of them. A TOML document is the function from its leaves
(sequences of keys) to values, which makes `_deep_merge` a definition of four lines; a value
is a name, and `"ill"` one that its field refuses. A directory stands for the three files in
it, so `--config` and `--secretspec` are given together. Providers are all taken for
checkpointed ones. Opening the state database, once the parts are composed, and binding the
socket, after the provider is connected, may fail as well; they depend on nothing that the module has,
and are no stages of its start.

`Wait`, `Load`, `ResolveRuntimeSecrets` and `Compose` are `ExecStartPre`
(`secrets wait`) and `run_daemon`, each stage in its order and each with its failure;
`ConfigInit`, `ConfigShow`, `ConfigEdit`, `Enroll`, `Doctor` and `InstallService` the
commands; `UserWrites`, `UserWritesRules`, `AdminWrites`, `KeyringLocks` and `ServerGoes`
what else changes the machine. `report` and `shown` are what the user was last told, and
are forgotten once they are out of date.

| Run | Shows |
|---|---|
| `Setup` | three machines, `MaxEvents = 3` (commands, changes and deaths together): `EnforcedStands`, a daemon that runs has every enforced value; `FlagsStand`, every key that `enforced.toml` sets has a line that `config show` flags, unless it is hidden, and no edit of the user's file changes what a flagged line says, unless the line is an alias; `DoctorForetells`, a stage of the start that `doctor` found good does not fail in a start from the same files; `RepairedComesUp`, a service that keeps being started comes up once its files, secrets and server are sound. 140 000 states. |

The fairness of `RepairedComesUp` is that each stage of a start ends and that
`Restart=on-failure` with `RestartSec=5` is not stopped by systemd's start limit.

Facts that the model contains, and that nobody promises otherwise: the unit reads
`~/.config/spork/%i`, the CLI `~/.config/spork`, so `doctor` may speak of other files than the
service's; `config init` puts a new `rules.toml` over the old one; `config edit` opens no
configuration that does not load; a plain value where a lower tier has a table erases the
table; `doctor` builds neither the context provider nor the receipt archive.

`config show` prints one line per entry of `kwargs` and `secret_kwargs`, whatever its value
is, and flags it when its dotted path is one of `enforced_override_paths` (`Lines`,
`ConfigShow`). The docstring of that function says that every enforced path "is a value
`spork config show` must flag" (`core/config/loader.py` 127-131), and `show`'s own that every
enforced value is flagged. The code does not do that for `log_level`, `[context]` and
`[receipt_archive]`, which have no line, nor for a key inside an entry whose value is a table
(`llm.kwargs.headers.auth`): there the line is that of the whole table, and it is printed
without the flag, because the path of a table is not the path of a leaf. `FlagsStand` names
these keys `Hidden`, and says nothing of a line without a flag. It also excepts an
`Alias`: a key that holds a dot, `"headers.auth"`, has the path of two keys, so its line may be
flagged for another one. `MCSetup` has a nested key that is enforced, a dotted one, and a file
of the user that puts a value above an enforced key and a table below another.

`Setup_proofs` proves `TypeOK`, `EnforcedStands`, `FlagsStand` and `DoctorForetells` for
every set of directories, documents, secrets and machines. For the tiers the lemmas are
about `Merge`, whose result is a function on leaves no two of which clash with the higher
tier's. For `config show` they are about paths: a field of the schema or an argument of a
backend that `enforced.toml` sets has its line or is hidden (`FieldHasLine`,
`ArgumentHasLine`), and two keys without dots that have one dotted path are one key. For `doctor` the invariant (`ForetellInv`) says that a report still holds of the
machine, and that the document a foretold start works on differs from doctor's in
`socket_path` only; since no stage reads that (`SameStages`) and the start has at least the
secrets it needs, a stage that doctor tried succeeds.

`RepairedServiceComesUp` proves `RepairedComesUp` for a service whose machine is left alone
from some time on (`<>Quiet`; in the runs the bound on events sees to that). A start from a sound
machine fails in no stage, one that was under way when the repair came may fail once, and
`Restart` makes the next.

## 9. `Decide` and `Receipts`

`Decide` is what `Triage` leaves to chance: `RuleEngine.evaluate` rule by rule, the
classifiers it asks when a rule first needs them, the dispatcher's vote and its
combiners, the route, and in Tier 2 the answer's validators, `validate_verdict`, the
confidence band and what each band does. `Receipts` extends it with the branch
`archive_receipt`: look up company and date, ask the model, learn the sender, tag, build and
save the PDF, write the row. Together they are one process that replays a file of messages,
may be killed at any step, and is started again with the rows and the learned senders it had.
An exception that nothing catches is `Abort`, which costs nothing and may repeat for ever;
`Kill` is bounded by `MaxDeaths`.

The configuration is drawn once: what a reload does is the subject of `RulesFile`. Effect and
alert of Tier 2 are one step here, because `Triage` has the deaths between them; the row
stands for the audit entry too. Confidence is a whole number of `Scale`ths. `Normal` is
`normalize_sender_domain`, which strips a domain and lower-cases it; the knowledge base only
lower-cases what it looks up (`Lowered`), so a padded domain may miss its company and is
then looked up among the learned senders. `Dispatcher` and combiners are
library code that the daemon reaches through a registered classifier.

| Run | Shows |
|---|---|
| `Receipts` | four mails under seven configurations (`MCReceipts`), two kills: `FirstMatchWins`, the rule obeyed is the first enabled one that matches, whatever a classification that was not made would have said; `WithinTheOffer`, Tier 2 acts on nothing the prompt did not offer, not below the alert threshold, silently only above the other, and quarantines no verdict that keeps to the offer; `SenderAskedOnce`, a sender that was answered is not asked about again; `ReceiptKept`, a message with the row of a receipt has its tags and its file; `OnlyRuledReceipts`, no verdict of the model files one. 392 000 states, with deadlock checked. |

The properties name the exceptions that the code has: mail that states no date is asked about
every time (`core/receipts/pipeline.py` 94, and so says `docs/DESIGN.md`); an answer that
dies before it is learned is asked for again; two ids with one slug share a file
(`save_pdf` writes over it, though the archive's docstring has names never collide); a
move or tag without a mailbox is allowed by the prompt's schema and quarantined.
Also in the behaviours: a slash in a date, an empty company or a missing PDF library
raise at every replay, and with `allowed_categories` left at `[]` each verdict is quarantined.

`Receipts_proofs` proves all six for every file of mail, set of configurations, votes,
answers and number of kills. `FirstMatchWins` follows from `EngineInv`, that no rule
before `next` fits under any classification that is still possible; `WithinTheOffer` from
`VerdictInv`, what each step of Tier 2 knows of the verdict in hand; `SenderAskedOnce` from
`SenderInv`, that answers are learned, lost or in hand; the last two from `RuledInv`
and `ReceiptInv`, which say so of the message under way. `InHand` says which steps have a
message at all.

The decision rests on choices, and these are proved to have one outcome for any data:
`OneRuleDecides` (one rule is right for a message and a classification, or none),
`KeywordsDecide` and `CombinerAnswers` (the first of the most confident, and none only where
no keyword was found, or every target failed) and `OneCompanyLists` (the last company that
lists a domain). They are inductions over the length of a list, made by way of the least
number of a set (`LeastNumber`, from the library's well-foundedness of the natural numbers), with
`FirstOfTheBest` for the two that compare confidences. `KeywordsAlwaysAnswer` follows, with the invariant
`VotesInv`: who keeps the keyword classifier among the targets, and names no other as
primary, is never without a classification, whatever fails beside it. What it does not say: a
primary target that fails is an uncaught `CombineError`, whatever the others answered.

## 10. Why the bounds are enough

`Triage`: two messages, one settled and one not, in one batch or in two, with the cursor
before, between and after them. One death: each step can be cut in two once; a second
repeats the first from a state that is already reached. A budget of one call: exhausted by
one message, met by the other.
`ControlPlane`: three clients, a pause that is audited, a resume on its way, and a second pause
behind it. `RulesFile`: two commands, one that writes and one that reads, or
reloads, in the middle; two rules, one to change and one that must stay.
`MailSource`: two messages make two pages, or one page and one message that arrives
between changes and get; two delays, so that the schedule has a last entry that is not its
first; an outage and a death, so that a fallback and a restart may follow each other.
`Sweep`: pages of one make each message a page, and a removal or a mutation shifts the
next; two days and one midnight put it between any two steps; one command at a
time, because the two share nothing but the budget and the rows, and the proofs have both.
`Setup`: three events are a change, a command and a change, edit or death after it; the
documents have an enforced leaf under a kwarg and one inside a kwarg's table, a value that shadows a
table, in the site's file and in the user's, a table that shadows a value, a dotted key, a backend that
cannot be imported and a classifier that is misspelled.
`Receipts`: two spellings of a sender, one of them padded, with and without a date, ids of one slug,
and a mail that is no receipt; each configuration has a reason that a comment states.

The theorems have none of these bounds.

## 11. Out of the prover's reach, or not proved

Every property of a passing run is stated by a theorem, for every value of the constants
that the named assumptions admit. Invariants, action properties and refinements have no
other hypothesis. The five liveness properties have some, because three things that they
need cannot be stated to the prover. Each is a formula with a name, and each holds on
the instances of `TriageFair`, `MailSource`, `ControlPlane` and `Setup`: TLC finds no
violation when it is given `NeverStuck` as an invariant there and the others as properties
(`~<>(A /\ B)` written `~(<>A /\ B)`, the form that TLC takes).

| Hypothesis | Says | In |
|---|---|---|
| `NeverStuck` | a process that is up has a step to take, and one that died can be started again: what weak fairness of those steps needs, since `ENABLED` cannot be expanded | all five |
| `NoEndlessDescent`, `NoEndlessDrain`, `NoEndlessBatch` | a batch does not shrink for ever, nor a list, nor a number towards 0 | `Triage`, `MailSource`; `ControlPlane` |
| `NoEndlessClimb` | a position does not climb for ever towards a bound | `MailSource` |
| `DeathsEnd`, `OutagesEnd`, `<>Quiet` | the counter of deaths (outages, events) stops; the models bound it | `Triage`, `MailSource`; `Setup` |

The last three rows hold in every behaviour of the specification, because the sets are
finite and the counters bounded; but to say so for every bound takes an induction over a
temporal formula. `DeathsEnd` is more than that, too: it is what the liveness properties mean,
since a daemon that is killed again and again before it comes to a message owes it nothing.

What remains model-checked only is the conclusion without these hypotheses.

## 12. Not modelled

- Parsing of arguments and requests, formatting, logging and spans; `status`, `logs`,
  `rules list` and `rules test`, which only read.
- The wording and cleaning of prompts, the recording of answers for tests, and the HTTP of
  the LLM, alert and context backends, which are effects that succeed or raise.
  `get_context` gives text to the prompt and changes no state.
- Threads and drafts as text; at this commit the JMAP client raises
  `NotImplementedError` for actions, drafts and attachments.
- `backfill --unread-only`.
- Which of two rules versions a batch sees: `Triage` lets rules change at every evaluation,
  which contains both.
- Some behaviours are in the models and break no property, because the property excepts
  them or nothing in the repository promises otherwise: an old `rules.toml` that `config init`
  writes over (`Setup`); a sweep that ends at an empty page, and a day that goes by without its
  alert because midnight came between the call and the check (`Sweep`); commands that were
  obeyed and not drained when the process died (`ControlPlane`); the change that one of two
  overlapping `rules` commands loses (`RulesFile`); mail that waits for the next mail on a
  silent stream (`MailSource`); the file of a slug written over, and the calls made again
  for mail without a date (`Receipts`). Their hazards in `PROJECT.json` say so.

`PROJECT.json` gives the status and the reason part by part.
