---------------------------- MODULE Sweep_proofs ----------------------------
(* What module Sweep keeps for every number of messages, days, midnights,   *)
(* removals and deaths, every budget, limit and page size, whichever        *)
(* commands run beside the daemon.                                          *)
EXTENDS Sweep, TLAPS, FiniteSetTheorems, SequenceTheorems

(* A command that is not run is off; a process holds a message exactly      *)
(* while it is in the pipeline, and a dead daemon has no batch.             *)
WorkInv ==
    /\ \A p \in Commands \ commands : pc[p] = "off"
    /\ \A p \in Procs : pc[p] \notin Pipeline => cur[p] = NoMessage
    /\ pc["daemon"] = "off" => todo = {}

(* The calls under way were admitted by a budget that did not count them.   *)
InCall(d) == {p \in Procs : pc[p] = "call" /\ stamp[p] = d}
SpendInv ==
    \A d \in Days : usage[d] + Cardinality(InCall(d)) <= Budget + Cardinality(commands)

(* Whether process p has done with m what it will do: what others write in  *)
(* the meantime does not count for the message it is deciding on.           *)
Through(p, m) ==
    IF cur[p] = m THEN pc[p] = "settle" \/ (pc[p] = "gate" /\ m \in processed)
    ELSE m \in processed
Once(p, m) == IF Through(p, m) THEN 1 ELSE 0

OnceInv ==
    \A m \in Messages :
        /\ acted["backfill"][m] <= Once("backfill", m)
        /\ acted["daemon"][m] <= cutOff + Once("daemon", m)
        /\ acted["reclassify"][m] <= IF pc["reclassify"] \in {"settle", "over"} THEN 1 ELSE 0

(* A day that has not been told of by this start can still be told of.      *)
ToldInv ==
    /\ toldOn <= today
    /\ OneAlertPerDayAndStart
    /\ pc["daemon"] # "off" =>
          \A d \in Days : today <= d /\ d # toldOn => told[d] + 1 <= starts

Inv == TypeOK /\ WorkInv /\ SpendInv /\ OnceInv /\ ToldInv

-----------------------------------------------------------------------------
(* Finite sets, and the Inbox without a message.                            *)
LEMMA SubsetsCounted ==
  ASSUME NEW S \in SUBSET Messages
  PROVE  IsFiniteSet(S) /\ Cardinality(S) \in Nat
<1>1. IsFiniteSet(Messages)
  BY FS_Interval, SweepAssumption DEF Messages
<1> QED
  BY <1>1, FS_Subset, FS_CardinalityType

LEMMA ProcsCounted ==
  ASSUME NEW S \in SUBSET Procs
  PROVE  IsFiniteSet(S) /\ Cardinality(S) \in Nat
<1>1. Procs = (({} \cup {"daemon"}) \cup {"backfill"}) \cup {"reclassify"}
  BY DEF Procs, Commands
<1>2. IsFiniteSet({}) /\ IsFiniteSet({} \cup {"daemon"})
  BY FS_EmptySet, FS_AddElement
<1>3. IsFiniteSet(({} \cup {"daemon"}) \cup {"backfill"})
  BY <1>2, FS_AddElement
<1>4. IsFiniteSet(Procs)
  BY <1>1, <1>3, FS_AddElement
<1> QED
  BY <1>4, FS_Subset, FS_CardinalityType

LEMMA WithoutStays ==
  ASSUME inbox \in Seq(Messages), NEW m
  PROVE  Without(m) \in Seq(Messages)
<1>1. CASE m \notin Listed
  BY <1>1 DEF Without
<1>2. CASE m \in Listed
  <2> DEFINE k == CHOOSE i \in 1..Len(inbox) : inbox[i] = m
  <2>1. k \in 1..Len(inbox)
    BY <1>2 DEF Listed
  <2>2. /\ SubSeq(inbox, 1, k - 1) \in Seq(Messages)
        /\ SubSeq(inbox, k + 1, Len(inbox)) \in Seq(Messages)
    <3>1. \A i \in 1..(k - 1) : inbox[i] \in Messages
      BY <2>1
    <3>2. \A i \in (k + 1)..Len(inbox) : inbox[i] \in Messages
      BY <2>1
    <3>3. k - 1 \in Int /\ k + 1 \in Int /\ Len(inbox) \in Int /\ 1 \in Int
      BY <2>1
    <3>4. SubSeq(inbox, 1, k - 1) \in Seq(Messages)
      BY <3>1, <3>3, SubSeqProperties
    <3>5. SubSeq(inbox, k + 1, Len(inbox)) \in Seq(Messages)
      BY <3>2, <3>3, SubSeqProperties
    <3> QED
      BY <3>4, <3>5
  <2>3. SubSeq(inbox, 1, k - 1) \o SubSeq(inbox, k + 1, Len(inbox)) \in Seq(Messages)
    BY <2>2
  <2> QED
    BY <1>2, <2>3 DEF Without
<1> QED
  BY <1>1, <1>2

LEMMA ListedTypes ==
  ASSUME inbox \in Seq(Messages)
  PROVE  Listed \subseteq Messages /\ Window \subseteq Listed
BY DEF Listed, Window

-----------------------------------------------------------------------------
(* Types.                                                                   *)
LEMMA InitTypes ==
  ASSUME Init
  PROVE  TypeOK
<1> USE DEF Init
<1>1. created \in 0..NMessages /\ 1..created \subseteq Messages
  BY SweepAssumption DEF Messages
<1>2. MailOK
  BY <1>1, SweepAssumption DEF MailOK, Messages, Days
<1>3. WorkersOK
  BY DEF WorkersOK, PC, Procs, Commands, Pipeline, NoMessage, NoDay
<1>4. RunsOK
  <2>1. fresh \subseteq Messages
    BY <1>1 DEF Messages
  <2>2. sofar \in 0..Limit
    BY SweepAssumption
  <2> QED
    BY <2>1, <2>2 DEF RunsOK
<1>5. HistoryOK
  BY DEF HistoryOK
<1> QED
  BY <1>2, <1>3, <1>4, <1>5 DEF TypeOK

LEMMA EventStays ==
  ASSUME TypeOK, Event
  PROVE  events' \in 0..MaxEvents
BY SweepAssumption DEF TypeOK, MailOK, Event

LEMMA LeftStays ==
  ASSUME TypeOK, NEW m \in Messages
  PROVE  LeftWith(m) \subseteq Messages
BY DEF TypeOK, HistoryOK, LeftWith

(* A process moves inside the pipeline, or leaves it for `at`.              *)
LEMMA GoToTypes ==
  ASSUME TypeOK, UNCHANGED commands, NEW p \in Procs, NEW at \in PC(p), GoTo(p, at),
         cur' \in [Procs -> Messages \cup {NoMessage}],
         stamp' \in [Procs -> Days \cup {NoDay}],
         \A q \in Procs \ {p} : cur'[q] = cur[q] /\ stamp'[q] = stamp[q],
         at \in Pipeline => cur'[p] \in Messages,
         at \in {"budget", "call", "exhausted"} => stamp'[p] \in Days
  PROVE  WorkersOK'
<1>1. /\ DOMAIN pc' = Procs /\ pc'[p] = at
      /\ \A q \in Procs \ {p} : pc'[q] = pc[q]
  BY DEF TypeOK, WorkersOK, GoTo
<1>2. \A q \in Procs : pc'[q] \in PC(q)
  BY <1>1 DEF TypeOK, WorkersOK
<1> QED
  BY <1>1, <1>2 DEF TypeOK, WorkersOK

LEMMA WorkersStay ==
  ASSUME TypeOK, UNCHANGED <<pc, cur, stamp, commands>>
  PROVE  WorkersOK'
BY DEF TypeOK, WorkersOK

LEMMA MailTypes ==
  ASSUME TypeOK, Mail
  PROVE  TypeOK'
<1> USE DEF account, database, worker, daemon, paging, history, sweep
<1>1. CASE Arrive
  <2>1. created + 1 \in Messages /\ created' = created + 1
    BY <1>1, SweepAssumption DEF Arrive, TypeOK, MailOK, Messages
  <2>2. <<created + 1>> \o inbox \in Seq(Messages) /\ Append(inbox, created + 1) \in Seq(Messages)
    BY <2>1 DEF TypeOK, MailOK
  <2>3. MailOK'
    <3>1. created' \in 0..NMessages
      BY <2>1, SweepAssumption DEF Messages
    <3>2. inbox' \in Seq(Messages) /\ exists' \subseteq Messages
      BY <1>1, <2>1, <2>2 DEF Arrive, TypeOK, MailOK
    <3> QED
      BY <1>1, <3>1, <3>2 DEF Arrive, TypeOK, MailOK
  <2>4. WorkersOK'
    BY <1>1, WorkersStay DEF Arrive
  <2>5. RunsOK' /\ HistoryOK'
    BY <1>1, <2>1 DEF Arrive, TypeOK, RunsOK, HistoryOK
  <2> QED
    BY <2>3, <2>4, <2>5 DEF TypeOK
<1>2. CASE Midnight
  <2>1. MailOK'
    BY <1>2, EventStays, SweepAssumption DEF Midnight, TypeOK, MailOK, Days
  <2>2. WorkersOK'
    BY <1>2, WorkersStay DEF Midnight
  <2>3. RunsOK' /\ HistoryOK'
    BY <1>2 DEF Midnight, TypeOK, RunsOK, HistoryOK
  <2> QED
    BY <2>1, <2>2, <2>3 DEF TypeOK
<1>3. ASSUME NEW m \in Messages, Remove(m) PROVE TypeOK'
  <2>1. Without(m) \in Seq(Messages) /\ events' \in 0..MaxEvents /\ LeftWith(m) \subseteq Messages
    BY <1>3, WithoutStays, EventStays, LeftStays DEF Remove, TypeOK, MailOK
  <2>2. MailOK'
    BY <1>3, <2>1 DEF Remove, TypeOK, MailOK
  <2>3. WorkersOK'
    BY <1>3, WorkersStay DEF Remove
  <2>4. RunsOK' /\ HistoryOK'
    BY <1>3, <2>1 DEF Remove, TypeOK, RunsOK, HistoryOK
  <2> QED
    BY <2>2, <2>3, <2>4 DEF TypeOK
<1> QED
  BY <1>1, <1>2, <1>3 DEF Mail

LEMMA DaemonTypes ==
  ASSUME TypeOK, WorkInv, Daemon
  PROVE  TypeOK'
<1> USE DEF account, database, worker, daemon, paging, history, sweep
<1>0. /\ "daemon" \in Procs
      /\ \A at \in {"off", "next", "day", "gate"} : at \in PC("daemon")
      /\ \A at \in {"off", "next", "day"} : at \notin Pipeline
      /\ \A at \in {"off", "next", "day", "gate"} : at \notin {"budget", "call", "exhausted"}
  BY DEF Procs, Commands, PC, Pipeline
<1>1. CASE StartDaemon
  <2>1. WorkersOK'
    <3>1. GoTo("daemon", "next") /\ UNCHANGED <<commands, cur, stamp>>
      BY <1>1 DEF StartDaemon, GoTo
    <3> QED
      BY <3>1, <1>0, GoToTypes DEF TypeOK, WorkersOK
  <2>2. MailOK' /\ RunsOK' /\ HistoryOK'
    BY <1>1 DEF StartDaemon, TypeOK, WorkInv, MailOK, RunsOK, HistoryOK
  <2> QED
    BY <2>1, <2>2 DEF TypeOK
<1>2. CASE Die
  <2>1. WorkersOK'
    <3>1. GoTo("daemon", "off") /\ UNCHANGED commands
      BY <1>2 DEF Die, GoTo
    <3>2. /\ cur' \in [Procs -> Messages \cup {NoMessage}]
          /\ stamp' \in [Procs -> Days \cup {NoDay}]
          /\ \A q \in Procs \ {"daemon"} : cur'[q] = cur[q] /\ stamp'[q] = stamp[q]
      BY <1>2 DEF Die, Forget, TypeOK, WorkersOK
    <3> QED
      BY <3>1, <3>2, <1>0, GoToTypes
  <2>2. MailOK' /\ RunsOK' /\ HistoryOK'
    BY <1>2, EventStays DEF Die, TypeOK, MailOK, RunsOK, HistoryOK
  <2> QED
    BY <2>1, <2>2 DEF TypeOK
<1>3. CASE Poll \/ SetCursor
  <2>1. WorkersOK'
    BY <1>3, WorkersStay DEF Poll, SetCursor
  <2>2. MailOK' /\ RunsOK' /\ HistoryOK'
    BY <1>3 DEF Poll, SetCursor, TypeOK, MailOK, RunsOK, HistoryOK
  <2> QED
    BY <2>1, <2>2 DEF TypeOK
<1>4. CASE TakeFromBatch
  <2>1. WorkersOK'
    <3>1. GoTo("daemon", "gate") /\ UNCHANGED <<commands, stamp>>
      BY <1>4 DEF TakeFromBatch, GoTo
    <3>2. /\ cur' \in [Procs -> Messages \cup {NoMessage}] /\ cur'["daemon"] \in Messages
          /\ \A q \in Procs \ {"daemon"} : cur'[q] = cur[q]
      BY <1>0, <1>4 DEF TakeFromBatch, TypeOK, WorkersOK, RunsOK
    <3> QED
      BY <3>1, <3>2, <1>0, GoToTypes DEF TypeOK, WorkersOK
  <2>2. MailOK' /\ RunsOK' /\ HistoryOK'
    BY <1>4 DEF TakeFromBatch, TypeOK, MailOK, RunsOK, HistoryOK
  <2> QED
    BY <2>1, <2>2 DEF TypeOK
<1>5. CASE CheckDailyBudgetAlert
  <2>1. WorkersOK'
    <3>1. GoTo("daemon", "next") /\ UNCHANGED <<commands, cur, stamp>>
      BY <1>5 DEF CheckDailyBudgetAlert, GoTo
    <3> QED
      BY <3>1, <1>0, GoToTypes DEF TypeOK, WorkersOK
  <2>2. toldOn' \in Days \cup {NoDay} /\ told' \in [Days -> Nat]
    <3>1. today \in Days /\ toldOn \in Days \cup {NoDay} /\ told \in [Days -> Nat]
      BY DEF TypeOK, MailOK, RunsOK, HistoryOK
    <3>2. told[today] + 1 \in Nat
      BY <3>1
    <3>3. \/ toldOn' = today /\ told' = [told EXCEPT ![today] = told[today] + 1]
          \/ toldOn' = toldOn /\ told' = told
      BY <1>5 DEF CheckDailyBudgetAlert
    <3> QED
      BY <3>1, <3>2, <3>3
  <2>3. MailOK' /\ RunsOK' /\ HistoryOK'
    BY <1>5, <2>2 DEF CheckDailyBudgetAlert, TypeOK, MailOK, RunsOK, HistoryOK
  <2> QED
    BY <2>1, <2>3 DEF TypeOK
<1> QED
  BY <1>1, <1>2, <1>3, <1>4, <1>5 DEF Daemon

LEMMA EndSweepTypes ==
  ASSUME TypeOK, NEW why \in {"swept", "limit", "budget", "gap"}, EndSweep(why),
         UNCHANGED <<daemon, acted, starts, cutOff, told>>
  PROVE  RunsOK' /\ HistoryOK'
<1>1. Cardinality(left) - Cardinality(Missed) \in Int
  <2>1. left \in SUBSET Messages /\ Missed \in SUBSET Messages
    BY DEF TypeOK, HistoryOK, Missed
  <2> QED
    BY <2>1, SubsetsCounted
<1>2. 0 \in 0..Limit
  BY SweepAssumption
<1>3. RunsOK'
  BY <1>2 DEF EndSweep, TypeOK, RunsOK, daemon
<1>4. HistoryOK'
  BY <1>1 DEF EndSweep, TypeOK, HistoryOK
<1> QED
  BY <1>3, <1>4

(* The backfill moves on, or ends, with nothing in hand.                    *)
LEMMA BackfillWorkers ==
  ASSUME TypeOK, UNCHANGED <<commands, cur, stamp>>,
         NEW at \in {"query", "get", "next", "over"}, GoTo("backfill", at)
  PROVE  WorkersOK'
<1>1. "backfill" \in Procs /\ at \in PC("backfill") /\ at \notin Pipeline
      /\ at \notin {"budget", "call", "exhausted"}
  BY DEF Procs, Commands, PC, Pipeline
<1> QED
  BY <1>1, GoToTypes DEF TypeOK, WorkersOK

LEMMA BackfillTypes ==
  ASSUME TypeOK, Backfill
  PROVE  TypeOK'
<1> USE DEF account, database, paging, history, sweep
<1>1. Listed \subseteq Messages /\ Window \subseteq Messages
  BY ListedTypes DEF TypeOK, MailOK
<1>2. MailOK'
  BY DEF Backfill, StartBackfill, Query, Get, TakeFromPage, TurnPage, TypeOK, MailOK
<1>3. CASE StartBackfill
  <2>1. WorkersOK'
    BY <1>3, BackfillWorkers DEF StartBackfill, GoTo
  <2>2. RunsOK' /\ HistoryOK'
    BY <1>1, <1>3 DEF StartBackfill, TypeOK, RunsOK, HistoryOK, daemon
  <2> QED
    BY <1>2, <2>1, <2>2 DEF TypeOK
<1>4. CASE Query
  <2>1. CASE EndSweep("swept")
    <3>1. WorkersOK'
      BY <1>4, <2>1, BackfillWorkers DEF Query, EndSweep
    <3>2. RunsOK' /\ HistoryOK'
      BY <1>4, <2>1, EndSweepTypes DEF Query
    <3> QED
      BY <1>2, <3>1, <3>2 DEF TypeOK
  <2>2. CASE ~EndSweep("swept")
    <3>1. WorkersOK'
      BY <1>4, <2>2, BackfillWorkers DEF Query
    <3>2. position' \in Nat /\ more' \in BOOLEAN /\ page' \subseteq Messages
      <4>1. Cardinality(Window) \in Nat
        BY <1>1, SubsetsCounted
      <4>2. /\ page' = Window /\ position' = position + Cardinality(Window)
            /\ more' = (position' < Len(inbox))
        BY <1>4, <2>2 DEF Query
      <4>3. position \in Nat
        BY DEF TypeOK, RunsOK
      <4>4. position + Cardinality(Window) \in Nat
        BY <4>1, <4>3
      <4> QED
        BY <1>1, <4>2, <4>4
    <3>3. RunsOK' /\ HistoryOK'
      BY <1>4, <2>2, <3>2 DEF Query, TypeOK, RunsOK, HistoryOK, daemon
    <3> QED
      BY <1>2, <3>1, <3>3 DEF TypeOK
  <2> QED
    BY <2>1, <2>2
<1>5. CASE Get
  <2>1. ASSUME NEW why \in {"swept", "gap"}, EndSweep(why) PROVE TypeOK'
    <3>1. WorkersOK'
      BY <1>5, <2>1, BackfillWorkers DEF Get, EndSweep
    <3>2. RunsOK' /\ HistoryOK'
      BY <1>5, <2>1, EndSweepTypes DEF Get
    <3> QED
      BY <1>2, <3>1, <3>2 DEF TypeOK
  <2>2. CASE GoTo("backfill", "next") /\ page' = page \cap exists /\ UNCHANGED <<position, more, sofar, ended, sweep>>
    <3>1. WorkersOK'
      BY <1>5, <2>2, BackfillWorkers DEF Get
    <3>2. RunsOK' /\ HistoryOK'
      BY <1>5, <2>2 DEF Get, TypeOK, RunsOK, HistoryOK, daemon
    <3> QED
      BY <1>2, <3>1, <3>2 DEF TypeOK
  <2> QED
    BY <1>5, <2>1, <2>2 DEF Get
<1>6. CASE TakeFromPage
  <2>1. PICK m \in page : /\ page' = page \ {m} /\ seen' = seen \cup {m}
                          /\ cur' = [cur EXCEPT !["backfill"] = m]
    BY <1>6 DEF TakeFromPage
  <2>2. m \in Messages
    BY <2>1 DEF TypeOK, RunsOK
  <2>3. WorkersOK'
    <3>1. /\ "backfill" \in Procs /\ "gate" \in PC("backfill")
          /\ "gate" \notin {"budget", "call", "exhausted"}
      BY DEF Procs, Commands, PC, Pipeline
    <3>2. GoTo("backfill", "gate") /\ UNCHANGED <<commands, stamp>>
      BY <1>6 DEF TakeFromPage, GoTo
    <3>3. /\ cur' \in [Procs -> Messages \cup {NoMessage}] /\ cur'["backfill"] \in Messages
          /\ \A q \in Procs \ {"backfill"} : cur'[q] = cur[q]
      BY <2>1, <2>2, <3>1 DEF TypeOK, WorkersOK
    <3> QED
      BY <3>1, <3>2, <3>3, GoToTypes DEF TypeOK, WorkersOK
  <2>4. sofar' \in 0..Limit
    BY <1>6, SweepAssumption DEF TakeFromPage, TypeOK, RunsOK
  <2>5. RunsOK' /\ HistoryOK'
    BY <1>6, <2>1, <2>2, <2>4 DEF TakeFromPage, TypeOK, RunsOK, HistoryOK, daemon
  <2> QED
    BY <1>2, <2>3, <2>5 DEF TypeOK
<1>7. CASE TurnPage
  <2>1. ASSUME NEW why \in {"swept", "limit"}, EndSweep(why) PROVE TypeOK'
    <3>1. WorkersOK'
      BY <1>7, <2>1, BackfillWorkers DEF TurnPage, EndSweep
    <3>2. RunsOK' /\ HistoryOK'
      BY <1>7, <2>1, EndSweepTypes DEF TurnPage
    <3> QED
      BY <1>2, <3>1, <3>2 DEF TypeOK
  <2>2. CASE GoTo("backfill", "query") /\ UNCHANGED <<paging, ended, sweep>>
    <3>1. WorkersOK'
      BY <1>7, <2>2, BackfillWorkers DEF TurnPage
    <3>2. RunsOK' /\ HistoryOK'
      BY <1>7, <2>2 DEF TurnPage, TypeOK, RunsOK, HistoryOK, daemon
    <3> QED
      BY <1>2, <3>1, <3>2 DEF TypeOK
  <2> QED
    BY <1>7, <2>1, <2>2 DEF TurnPage
<1> QED
  BY <1>3, <1>4, <1>5, <1>6, <1>7 DEF Backfill

(* One step of a pipeline: the process that takes it, and where it goes.    *)
LEMMA OutsideTypes ==
  ASSUME TypeOK, Outside, Rest, UNCHANGED processed, usage' \in [Days -> Nat], WorkersOK'
  PROVE  TypeOK'
<1>1. MailOK' /\ RunsOK' /\ HistoryOK'
  BY DEF Outside, Rest, TypeOK, MailOK, RunsOK, HistoryOK, account, daemon, paging, sweep
<1> QED
  BY <1>1 DEF TypeOK

LEMMA RulesTypes ==
  ASSUME TypeOK, NEW p \in Procs, Rules(p), UNCHANGED commands,
         cur' \in [Procs -> Messages \cup {NoMessage}], cur'[p] \in Messages,
         \A q \in Procs \ {p} : cur'[q] = cur[q]
  PROVE  WorkersOK'
<1>1. "apply" \in PC(p) /\ "settle" \in PC(p) /\ "budget" \in PC(p)
  BY DEF Procs, Commands, PC, Pipeline
<1>2. ASSUME NEW at \in {"apply", "settle"}, GoTo(p, at), UNCHANGED stamp PROVE WorkersOK'
  BY <1>1, <1>2, GoToTypes DEF TypeOK, WorkersOK
<1>3. CASE GoTo(p, "budget") /\ stamp' = [stamp EXCEPT ![p] = today]
  <2>1. today \in Days /\ stamp \in [Procs -> Days \cup {NoDay}]
    BY DEF TypeOK, MailOK, WorkersOK
  <2>2. /\ stamp' \in [Procs -> Days \cup {NoDay}] /\ stamp'[p] \in Days
        /\ \A q \in Procs \ {p} : stamp'[q] = stamp[q]
    BY <1>3, <2>1
  <2> QED
    BY <1>1, <1>3, <2>2, GoToTypes
<1> QED
  BY <1>2, <1>3 DEF Rules

LEMMA ForgetTypes ==
  ASSUME TypeOK, NEW p \in Procs, Forget(p)
  PROVE  /\ cur' \in [Procs -> Messages \cup {NoMessage}]
         /\ stamp' \in [Procs -> Days \cup {NoDay}]
         /\ \A q \in Procs \ {p} : cur'[q] = cur[q] /\ stamp'[q] = stamp[q]
         /\ cur'[p] = NoMessage
BY DEF Forget, TypeOK, WorkersOK

LEMMA ReclassifyTypes ==
  ASSUME TypeOK, Reclassify
  PROVE  TypeOK'
<1>1. PICK m \in Messages : StartReclassify(m)
  BY DEF Reclassify
<1>2. "reclassify" \in Procs
  BY DEF Procs, Commands
<1>3. WorkersOK'
  BY <1>1, <1>2, RulesTypes DEF StartReclassify, Outside, account, TypeOK, WorkersOK
<1> QED
  BY <1>1, <1>3, OutsideTypes DEF StartReclassify, database, TypeOK, MailOK

LEMMA PipelineTypes ==
  ASSUME TypeOK, NEW p \in Procs,
         Gate(p) \/ Apply(p) \/ BudgetGate(p) \/ CallAndRecord(p) \/ Settle(p)
  PROVE  TypeOK'
<1>0. /\ pc[p] \in PC(p) /\ (pc[p] \in Pipeline => cur[p] \in Messages)
      /\ cur \in [Procs -> Messages \cup {NoMessage}]
      /\ pc[p] \in {"budget", "call", "exhausted"} => stamp[p] \in Days
      /\ stamp \in [Procs -> Days \cup {NoDay}] /\ usage \in [Days -> Nat]
  BY DEF TypeOK, WorkersOK, MailOK
<1>1. \A at \in {"apply", "settle", "budget", "call", "exhausted"} : at \in PC(p) /\ at \in Pipeline
  BY DEF Procs, Commands, PC, Pipeline
<1>2. ASSUME UNCHANGED <<commands, cur, stamp>>, pc[p] \in Pipeline,
             NEW at \in {"apply", "settle", "call", "exhausted"}, GoTo(p, at),
             at \in {"call", "exhausted"} => stamp[p] \in Days
      PROVE  WorkersOK'
  BY <1>0, <1>1, <1>2, GoToTypes
<1>3. CASE Gate(p)
  <2>1. CASE GoTo(p, "next") /\ Forget(p)
    <3>1. p # "reclassify" /\ "next" \in PC(p) /\ "next" \notin Pipeline
      BY <1>0, <1>3 DEF Gate, PC, Pipeline, Procs, Commands
    <3>2. WorkersOK'
      BY <1>3, <2>1, <3>1, ForgetTypes, GoToTypes DEF Gate, Outside, account
    <3> QED
      BY <1>0, <1>3, <3>2, OutsideTypes DEF Gate, database
  <2>2. CASE Rules(p) /\ UNCHANGED cur
    <3>1. WorkersOK'
      BY <1>0, <1>3, <2>2, RulesTypes DEF Gate, Outside, account, Pipeline
    <3> QED
      BY <1>0, <1>3, <3>1, OutsideTypes DEF Gate, database
  <2> QED
    BY <1>3, <2>1, <2>2 DEF Gate
<1>4. CASE Apply(p)
  <2>1. cur[p] \in Messages
    BY <1>0, <1>4 DEF Apply, Pipeline
  <2>2. WorkersOK'
    BY <1>2, <1>4 DEF Apply, Pipeline
  <2>3. Without(cur[p]) \in Seq(Messages) /\ LeftWith(cur[p]) \subseteq Messages
    BY <2>1, WithoutStays, LeftStays DEF TypeOK, MailOK
  <2>4. MailOK' /\ RunsOK'
    BY <1>4, <2>3 DEF Apply, TypeOK, MailOK, RunsOK, database, daemon, paging
  <2>5. acted' \in [Procs -> [Messages -> Nat]]
    <3>1. acted \in [Procs -> [Messages -> Nat]] /\ acted[p][cur[p]] + 1 \in Nat
      BY <2>1 DEF TypeOK, HistoryOK
    <3>2. acted' = [acted EXCEPT ![p] = [acted[p] EXCEPT ![cur[p]] = acted[p][cur[p]] + 1]]
      BY <1>4 DEF Apply
    <3> QED
      BY <2>1, <3>1, <3>2
  <2>6. HistoryOK'
    BY <1>4, <2>3, <2>5 DEF Apply, TypeOK, HistoryOK
  <2> QED
    BY <2>2, <2>4, <2>6 DEF TypeOK
<1>5. CASE BudgetGate(p)
  <2>1. WorkersOK'
    BY <1>0, <1>2, <1>5 DEF BudgetGate, Outside, account, Pipeline
  <2> QED
    BY <1>0, <1>5, <2>1, OutsideTypes DEF BudgetGate, database
<1>6. CASE CallAndRecord(p)
  <2>1. WorkersOK'
    BY <1>0, <1>2, <1>6 DEF CallAndRecord, Outside, account, Pipeline
  <2>2. usage[stamp[p]] + 1 \in Nat
    BY <1>0, <1>6 DEF CallAndRecord
  <2>3. usage' \in [Days -> Nat]
    BY <1>0, <1>6, <2>2 DEF CallAndRecord
  <2> QED
    BY <1>6, <2>1, <2>3, OutsideTypes DEF CallAndRecord
<1>7. CASE Settle(p)
  <2>1. cur[p] \in Messages
    BY <1>0, <1>7 DEF Settle, Pipeline
  <2>2. MailOK'
    BY <1>7, <2>1 DEF Settle, Outside, account, TypeOK, MailOK
  <2>3. CASE p = "backfill" /\ pc[p] = "exhausted" /\ EndSweep("budget")
    <3>1. "over" \in PC(p) /\ "over" \notin Pipeline
      BY <2>3 DEF PC, Pipeline
    <3>2. WorkersOK'
      BY <1>7, <2>3, <3>1, ForgetTypes, GoToTypes DEF Settle, AfterSettle, EndSweep, Outside, account
    <3>3. RunsOK' /\ HistoryOK'
      BY <1>7, <2>3, EndSweepTypes DEF Settle, Outside
    <3> QED
      BY <2>2, <3>2, <3>3 DEF TypeOK
  <2>4. ASSUME NEW at \in {"day", "over", "next"}, at \in PC(p), GoTo(p, at),
               UNCHANGED <<paging, ended, sweep>>
        PROVE  TypeOK'
    <3>1. at \notin Pipeline /\ at \notin {"budget", "call", "exhausted"}
      BY DEF Pipeline
    <3>2. WorkersOK'
      BY <1>7, <2>4, <3>1, ForgetTypes, GoToTypes DEF Settle, AfterSettle, Outside, account
    <3>3. RunsOK' /\ HistoryOK'
      BY <1>7, <2>4 DEF Settle, Outside, TypeOK, RunsOK, HistoryOK, daemon, paging, sweep
    <3> QED
      BY <2>2, <3>2, <3>3 DEF TypeOK
  <2>5. "day" \in PC("daemon") /\ "next" \in PC("daemon") /\ "next" \in PC("backfill")
        /\ "over" \in PC("reclassify")
    BY DEF PC
  <2>6. p \in {"daemon", "backfill", "reclassify"}
    BY DEF Procs, Commands
  <2> QED
    BY <1>7, <2>3, <2>4, <2>5, <2>6 DEF Settle, AfterSettle
<1> QED
  BY <1>3, <1>4, <1>5, <1>6, <1>7

LEMMA TypeStep ==
  ASSUME TypeOK, WorkInv, [Next]_vars
  PROVE  TypeOK'
<1>1. CASE UNCHANGED vars
  <2>1. WorkersOK'
    BY <1>1, WorkersStay DEF vars, worker, account
  <2>2. MailOK' /\ RunsOK' /\ HistoryOK'
    BY <1>1 DEF vars, account, database, daemon, paging, history, sweep,
                TypeOK, MailOK, RunsOK, HistoryOK
  <2> QED
    BY <2>1, <2>2 DEF TypeOK
<1> QED
  BY <1>1, MailTypes, DaemonTypes, BackfillTypes, ReclassifyTypes, PipelineTypes
  DEF Next, Pipelines

-----------------------------------------------------------------------------
(* Who works on what.                                                       *)
LEMMA WorkGoTo ==
  ASSUME TypeOK, WorkInv, UNCHANGED commands, NEW p \in Procs, NEW at \in PC(p), GoTo(p, at),
         p \in Commands => p \in commands,
         \A q \in Procs \ {p} : cur'[q] = cur[q],
         at \notin Pipeline => cur'[p] = NoMessage,
         (IF p = "daemon" THEN at = "off" ELSE pc["daemon"] = "off") => todo' = {}
  PROVE  WorkInv'
<1>1. /\ pc'[p] = at
      /\ \A q \in Procs \ {p} : pc'[q] = pc[q]
  BY DEF TypeOK, WorkersOK, GoTo
<1>2. Commands \subseteq Procs /\ "daemon" \in Procs
  BY DEF Procs
<1>3. \A q \in Commands \ commands' : pc'[q] = "off"
  BY <1>1, <1>2 DEF WorkInv
<1>4. \A q \in Procs : pc'[q] \notin Pipeline => cur'[q] = NoMessage
  BY <1>1 DEF WorkInv
<1>5. pc'["daemon"] = "off" => todo' = {}
  BY <1>1, <1>2
<1> QED
  BY <1>3, <1>4, <1>5 DEF WorkInv

LEMMA WorkStays ==
  ASSUME WorkInv, UNCHANGED <<pc, cur, commands>>, pc["daemon"] = "off" => todo' = todo
  PROVE  WorkInv'
BY DEF WorkInv

LEMMA EnlistedIfAtWork ==
  ASSUME WorkInv, NEW p \in Procs, pc[p] # "off"
  PROVE  p \in Commands => p \in commands
BY DEF WorkInv

LEMMA WorkStep ==
  ASSUME TypeOK, WorkInv, [Next]_vars
  PROVE  WorkInv'
<1> USE DEF account, database, worker, daemon, paging, history, sweep
<1>0. /\ "daemon" \in Procs /\ "daemon" \notin Commands /\ Commands \subseteq Procs
      /\ "backfill" \in Commands /\ "reclassify" \in Commands
      /\ \A at \in {"off", "next", "day", "gate"} : at \in PC("daemon")
      /\ \A at \in {"query", "get", "next", "gate", "over"} : at \in PC("backfill")
      /\ "gate" \in Pipeline
      /\ \A p \in Procs : pc[p] \notin Pipeline => cur[p] = NoMessage
      /\ \A p \in Procs : \A at \in Pipeline : p # "reclassify" \/ at # "gate" => at \in PC(p)
  BY DEF Procs, Commands, PC, Pipeline, WorkInv
<1>1. CASE UNCHANGED vars \/ Mail
  BY <1>1, WorkStays DEF vars, Mail, Arrive, Midnight, Remove
<1>2. CASE Poll \/ SetCursor
  BY <1>2, WorkStays DEF Poll, SetCursor
<1>3. CASE StartDaemon \/ CheckDailyBudgetAlert
  <2>1. GoTo("daemon", "next") /\ pc["daemon"] \notin Pipeline /\ UNCHANGED <<cur, commands>>
    BY <1>3 DEF StartDaemon, CheckDailyBudgetAlert, GoTo, Pipeline
  <2> QED
    BY <2>1, <1>0, WorkGoTo
<1>4. CASE Die
  <2>1. GoTo("daemon", "off") /\ todo' = {} /\ UNCHANGED commands
        /\ cur'["daemon"] = NoMessage /\ \A q \in Procs \ {"daemon"} : cur'[q] = cur[q]
    BY <1>0, <1>4, ForgetTypes DEF Die, GoTo
  <2> QED
    BY <2>1, <1>0, WorkGoTo
<1>5. CASE TakeFromBatch
  <2>1. GoTo("daemon", "gate") /\ UNCHANGED commands
        /\ \A q \in Procs \ {"daemon"} : cur'[q] = cur[q]
    BY <1>5 DEF TakeFromBatch, GoTo, TypeOK, WorkersOK
  <2> QED
    BY <2>1, <1>0, WorkGoTo
<1>6. CASE TakeFromPage
  <2>1. GoTo("backfill", "gate") /\ UNCHANGED <<commands, todo>> /\ pc["backfill"] # "off"
        /\ \A q \in Procs \ {"backfill"} : cur'[q] = cur[q]
    BY <1>6 DEF TakeFromPage, GoTo, TypeOK, WorkersOK
  <2> QED
    BY <2>1, <1>0, WorkGoTo, EnlistedIfAtWork DEF WorkInv
<1>7. CASE StartBackfill \/ Query \/ Get \/ TurnPage
  <2>1. /\ \E at \in {"query", "get", "next", "over"} : GoTo("backfill", at)
        /\ pc["backfill"] \notin Pipeline /\ UNCHANGED <<commands, cur, todo>>
        /\ "backfill" \in commands
    BY <1>0, <1>7, EnlistedIfAtWork
    DEF StartBackfill, Query, Get, TurnPage, GoTo, EndSweep, Pipeline
  <2>2. "query" \notin Pipeline /\ "get" \notin Pipeline
        /\ "next" \notin Pipeline /\ "over" \notin Pipeline
    BY DEF Pipeline
  <2> QED
    BY <2>1, <2>2, <1>0, WorkGoTo DEF WorkInv
<1>8. ASSUME NEW p \in Procs, Rules(p), UNCHANGED <<commands, todo>>,
             p \in Commands => p \in commands, \A q \in Procs \ {p} : cur'[q] = cur[q]
      PROVE  WorkInv'
  <2>1. PICK at \in {"apply", "settle", "budget"} : GoTo(p, at)
    BY <1>8 DEF Rules
  <2>2. at \in Pipeline /\ at \in PC(p)
    BY <1>0 DEF Pipeline
  <2>3. pc["daemon"] = "off" => todo' = {}
    BY <1>8 DEF WorkInv
  <2>4. p = "daemon" => at # "off"
    OBVIOUS
  <2> QED
    BY <1>8, <2>1, <2>2, <2>3, <2>4, WorkGoTo
<1>9. ASSUME NEW p \in Procs, Gate(p) \/ Settle(p)
      PROVE  WorkInv'
  <2>1. /\ UNCHANGED <<commands, todo>> /\ pc[p] # "off"
        /\ pc[p] \in Pipeline
    BY <1>9 DEF Gate, Settle, Outside, Pipeline
  <2>2. p \in Commands => p \in commands
    BY <2>1, EnlistedIfAtWork
  <2>3. CASE Rules(p) /\ UNCHANGED cur
    BY <1>8, <2>1, <2>2, <2>3
  <2>4. ASSUME NEW at \in {"day", "over", "next"}, at \in PC(p), GoTo(p, at), Forget(p)
        PROVE  WorkInv'
    <3>1. at # "off" /\ cur'[p] = NoMessage /\ \A q \in Procs \ {p} : cur'[q] = cur[q]
      BY <2>4, ForgetTypes
    <3>2. pc["daemon"] = "off" => todo' = {}
      BY <2>1 DEF WorkInv
    <3> QED
      BY <2>1, <2>2, <2>4, <3>1, <3>2, WorkGoTo
  <2>5. /\ "day" \in PC("daemon") /\ "next" \in PC("daemon") /\ "next" \in PC("backfill")
        /\ "over" \in PC("reclassify") /\ "over" \in PC("backfill")
        /\ p \in {"daemon", "backfill", "reclassify"}
        /\ pc["reclassify"] # "gate"
    BY DEF PC, Procs, Commands, TypeOK, WorkersOK, Pipeline
  <2> QED
    BY <1>9, <2>3, <2>4, <2>5 DEF Gate, Settle, AfterSettle, EndSweep
<1>10. CASE Reclassify
  <2>1. PICK m \in Messages : StartReclassify(m)
    BY <1>10 DEF Reclassify
  <2>2. "reclassify" \in Procs /\ "reclassify" \in commands /\ Rules("reclassify")
        /\ UNCHANGED <<commands, todo>>
        /\ \A q \in Procs \ {"reclassify"} : cur'[q] = cur[q]
    BY <1>0, <2>1 DEF StartReclassify, Outside, TypeOK, WorkersOK
  <2> QED
    BY <1>8, <2>2
<1>11. ASSUME NEW p \in Procs, Apply(p) \/ BudgetGate(p) \/ CallAndRecord(p)
       PROVE  WorkInv'
  <2>1. /\ \E at \in {"apply", "settle", "call", "exhausted"} : GoTo(p, at)
        /\ pc[p] # "off" /\ UNCHANGED <<commands, cur, todo>>
    BY <1>11 DEF Apply, BudgetGate, CallAndRecord, Outside
  <2>2. PICK at \in {"apply", "settle", "call", "exhausted"} : GoTo(p, at)
    BY <2>1
  <2>3. at \in Pipeline /\ at \in PC(p) /\ at # "off"
    BY <1>0 DEF Pipeline
  <2>4. pc["daemon"] = "off" => todo' = {}
    BY <2>1 DEF WorkInv
  <2> QED
    BY <2>1, <2>2, <2>3, <2>4, WorkGoTo, EnlistedIfAtWork
<1> QED
  BY <1>1, <1>2, <1>3, <1>4, <1>5, <1>6, <1>7, <1>9, <1>10, <1>11
  DEF Next, Daemon, Backfill, Pipelines

-----------------------------------------------------------------------------
(* The budget.                                                              *)
LEMMA CallersBounded ==
  ASSUME TypeOK, WorkInv, NEW d
  PROVE  /\ IsFiniteSet(InCall(d)) /\ Cardinality(InCall(d)) \in Nat
         /\ Cardinality(commands) \in Nat
         /\ Cardinality(InCall(d)) <= Cardinality(commands) + 1
<1>1. commands \in SUBSET Procs /\ "daemon" \notin commands
  BY SweepAssumption DEF TypeOK, WorkersOK, Procs, Commands
<1>2. IsFiniteSet(commands) /\ Cardinality(commands) \in Nat
  BY <1>1, ProcsCounted
<1>3. InCall(d) \subseteq commands \cup {"daemon"}
  BY DEF InCall, WorkInv, Procs
<1>4. IsFiniteSet(commands \cup {"daemon"})
      /\ Cardinality(commands \cup {"daemon"}) = Cardinality(commands) + 1
  BY <1>1, <1>2, FS_AddElement
<1>5. IsFiniteSet(InCall(d)) /\ Cardinality(InCall(d)) <= Cardinality(commands \cup {"daemon"})
  BY <1>3, <1>4, FS_Subset
<1> QED
  BY <1>2, <1>4, <1>5, FS_CardinalityType

(* Nobody is admitted, nothing is recorded.                                 *)
LEMMA SpendStays ==
  ASSUME TypeOK, WorkInv, SpendInv, UNCHANGED <<usage, commands>>,
         \A q \in Procs : pc'[q] = "call" => pc[q] = "call" /\ stamp'[q] = stamp[q]
  PROVE  SpendInv'
<1> SUFFICES ASSUME NEW d \in Days
             PROVE  usage[d] + Cardinality(InCall(d)') <= Budget + Cardinality(commands)
  BY DEF SpendInv
<1>1. InCall(d)' \subseteq InCall(d)
  BY DEF InCall
<1>2. IsFiniteSet(InCall(d)) /\ Cardinality(InCall(d)) \in Nat /\ Cardinality(commands) \in Nat
  BY CallersBounded
<1>3. Cardinality(InCall(d)') <= Cardinality(InCall(d)) /\ Cardinality(InCall(d)') \in Nat
  BY <1>1, <1>2, FS_Subset, FS_CardinalityType
<1>4. usage[d] \in Nat
  BY DEF TypeOK, MailOK
<1> QED
  BY <1>2, <1>3, <1>4, SweepAssumption DEF SpendInv

LEMMA SpendStep ==
  ASSUME TypeOK, WorkInv, SpendInv, [Next]_vars
  PROVE  SpendInv'
<1> USE DEF account, database, worker, daemon, paging, history, sweep
<1>0. /\ DOMAIN pc = Procs /\ cur \in [Procs -> Messages \cup {NoMessage}]
      /\ stamp \in [Procs -> Days \cup {NoDay}] /\ usage \in [Days -> Nat]
      /\ "daemon" \in Procs /\ "backfill" \in Procs /\ "reclassify" \in Procs
  BY DEF TypeOK, WorkersOK, MailOK, Procs, Commands
<1>1. ASSUME NEW p \in Procs, UNCHANGED <<usage, commands>>,
             \A q \in Procs \ {p} : pc'[q] = pc[q] /\ stamp'[q] = stamp[q],
             pc'[p] # "call"
      PROVE  SpendInv'
  BY <1>1, SpendStays
<1>2. CASE UNCHANGED vars \/ Mail \/ Poll \/ SetCursor
  BY <1>2, SpendStays DEF vars, Mail, Arrive, Midnight, Remove, Poll, SetCursor
<1>3. CASE StartDaemon \/ Die \/ TakeFromBatch \/ CheckDailyBudgetAlert
  BY <1>0, <1>1, <1>3 DEF StartDaemon, Die, TakeFromBatch, CheckDailyBudgetAlert, GoTo, Forget
<1>4. CASE Backfill
  BY <1>0, <1>1, <1>4
  DEF Backfill, StartBackfill, Query, Get, TakeFromPage, TurnPage, EndSweep, GoTo
<1>5. CASE Reclassify
  BY <1>0, <1>1, <1>5 DEF Reclassify, StartReclassify, Rules, GoTo, Outside
<1>6. ASSUME NEW p \in Procs, Gate(p) \/ Apply(p) \/ Settle(p) PROVE SpendInv'
  <2>1. UNCHANGED <<usage, commands>>
    BY <1>6 DEF Gate, Apply, Settle, Outside
  <2>2. pc'[p] # "call"
    BY <1>0, <1>6 DEF Gate, Apply, Settle, AfterSettle, EndSweep, Rules, GoTo
  <2>3. \A q \in Procs \ {p} : pc'[q] = pc[q] /\ stamp'[q] = stamp[q]
    BY <1>0, <1>6 DEF Gate, Apply, Settle, AfterSettle, EndSweep, Rules, GoTo, Forget
  <2> QED
    BY <1>1, <2>1, <2>2, <2>3
<1>7. ASSUME NEW p \in Procs, BudgetGate(p) PROVE SpendInv'
  <2>1. UNCHANGED <<usage, commands, stamp>> /\ \A q \in Procs \ {p} : pc'[q] = pc[q]
    BY <1>0, <1>7 DEF BudgetGate, Outside, GoTo
  <2>2. CASE pc'[p] # "call"
    BY <1>1, <2>1, <2>2
  <2>3. CASE pc'[p] = "call"
    <3>1. usage[stamp[p]] < Budget /\ stamp[p] \in Days
      BY <1>0, <1>7, <2>3 DEF BudgetGate, GoTo, TypeOK, WorkersOK
    <3> SUFFICES ASSUME NEW d \in Days
                 PROVE  usage[d] + Cardinality(InCall(d)') <= Budget + Cardinality(commands)
      BY <2>1 DEF SpendInv
    <3>2. CASE d = stamp[p]
      <4>1. InCall(d)' \subseteq commands \cup {"daemon"}
        <5>1. pc[p] # "off"
          BY <1>7 DEF BudgetGate
        <5>2. \A q \in Procs : pc'[q] = "call" => pc[q] # "off"
          BY <2>1, <5>1
        <5> QED
          BY <5>2 DEF InCall, WorkInv, Procs
      <4>2. commands \in SUBSET Procs /\ "daemon" \notin commands
        BY SweepAssumption DEF TypeOK, WorkersOK, Procs, Commands
      <4>3. /\ IsFiniteSet(commands \cup {"daemon"}) /\ Cardinality(commands) \in Nat
            /\ Cardinality(commands \cup {"daemon"}) = Cardinality(commands) + 1
        BY <4>2, ProcsCounted, FS_AddElement
      <4>4. Cardinality(InCall(d)') <= Cardinality(commands) + 1 /\ Cardinality(InCall(d)') \in Nat
        BY <4>1, <4>3, FS_Subset, FS_CardinalityType
      <4>5. usage[d] \in Nat
        BY <1>0
      <4> QED
        BY <3>1, <3>2, <4>3, <4>4, <4>5, SweepAssumption
    <3>3. CASE d # stamp[p]
      <4>1. InCall(d)' = InCall(d)
        BY <2>1, <3>3 DEF InCall
      <4> QED
        BY <4>1 DEF SpendInv
    <3> QED
      BY <3>2, <3>3
  <2> QED
    BY <2>2, <2>3
<1>8. ASSUME NEW p \in Procs, CallAndRecord(p) PROVE SpendInv'
  <2>1. /\ UNCHANGED <<commands, stamp>> /\ \A q \in Procs \ {p} : pc'[q] = pc[q]
        /\ pc[p] = "call" /\ pc'[p] # "call" /\ stamp[p] \in Days
    BY <1>0, <1>8 DEF CallAndRecord, Outside, Rest, GoTo, TypeOK, WorkersOK
  <2>2. CASE UNCHANGED usage
    BY <1>1, <2>1, <2>2
  <2>3. CASE usage' = [usage EXCEPT ![stamp[p]] = @ + 1]
    <3> SUFFICES ASSUME NEW d \in Days
                 PROVE  usage'[d] + Cardinality(InCall(d)') <= Budget + Cardinality(commands)
      BY <2>1 DEF SpendInv
    <3>1. IsFiniteSet(InCall(d)) /\ Cardinality(InCall(d)) \in Nat /\ Cardinality(commands) \in Nat
      BY CallersBounded
    <3>2. CASE d = stamp[p]
      <4>1. InCall(d)' = InCall(d) \ {p} /\ p \in InCall(d)
        BY <2>1, <3>2 DEF InCall
      <4>2. Cardinality(InCall(d)') = Cardinality(InCall(d)) - 1
        BY <3>1, <4>1, FS_RemoveElement
      <4>3. usage'[d] = usage[d] + 1 /\ usage[d] \in Nat
        BY <1>0, <2>3, <3>2
      <4> QED
        BY <3>1, <4>2, <4>3, SweepAssumption DEF SpendInv
    <3>3. CASE d # stamp[p]
      <4>1. InCall(d)' = InCall(d) /\ usage'[d] = usage[d]
        BY <1>0, <2>1, <2>3, <3>3 DEF InCall
      <4> QED
        BY <4>1 DEF SpendInv
    <3> QED
      BY <3>2, <3>3
  <2> QED
    BY <1>8, <2>2, <2>3 DEF CallAndRecord
<1> QED
  BY <1>2, <1>3, <1>4, <1>5, <1>6, <1>7, <1>8 DEF Next, Daemon, Pipelines

-----------------------------------------------------------------------------
(* The daily alert.                                                         *)
LEMMA ToldStep ==
  ASSUME TypeOK, ToldInv, [Next]_vars
  PROVE  ToldInv'
<1> USE DEF account, database, worker, daemon, paging, history, sweep
<1>0. /\ DOMAIN pc = Procs /\ today \in Days /\ toldOn \in Days \cup {NoDay} /\ NDays \in Nat
      /\ starts \in Nat /\ told \in [Days -> Nat]
      /\ "daemon" \in Procs /\ "backfill" \in Procs /\ "reclassify" \in Procs
  BY SweepAssumption DEF TypeOK, WorkersOK, MailOK, RunsOK, HistoryOK, Procs, Commands
<1>1. ASSUME UNCHANGED <<toldOn, told, starts, today>>,
             pc'["daemon"] # "off" => pc["daemon"] # "off"
      PROVE  ToldInv'
  BY <1>1 DEF ToldInv, OneAlertPerDayAndStart
<1>2. CASE UNCHANGED vars \/ Arrive \/ \E m \in Messages : Remove(m)
  BY <1>1, <1>2 DEF vars, Arrive, Remove
<1>3. CASE Midnight
  <2>1. today' = today + 1 /\ UNCHANGED <<toldOn, told, starts, pc>> /\ today' \in Int
    BY <1>0, <1>3 DEF Midnight, Days
  <2>2. today \in Int /\ toldOn \in Int /\ \A d \in Days : d \in Int
    BY <1>0 DEF Days, NoDay
  <2> QED
    BY <2>1, <2>2 DEF ToldInv, OneAlertPerDayAndStart
<1>4. CASE Poll \/ SetCursor \/ TakeFromBatch
  BY <1>0, <1>1, <1>4 DEF Poll, SetCursor, TakeFromBatch
<1>5. CASE StartDaemon
  <2>1. starts' = starts + 1 /\ UNCHANGED <<toldOn, told, today>>
    BY <1>5 DEF StartDaemon
  <2>2. \A d \in Days : told[d] \in Nat
    BY <1>0
  <2> QED
    BY <1>0, <2>1, <2>2 DEF ToldInv, OneAlertPerDayAndStart
<1>6. CASE Die
  <2>1. toldOn' = NoDay /\ UNCHANGED <<told, starts, today>> /\ pc'["daemon"] = "off"
    BY <1>0, <1>6 DEF Die
  <2> QED
    BY <1>0, <2>1 DEF ToldInv, OneAlertPerDayAndStart, Days, NoDay
<1>7. CASE CheckDailyBudgetAlert
  <2>1. /\ UNCHANGED <<today, starts>> /\ pc["daemon"] # "off"
        /\ \/ UNCHANGED <<toldOn, told>>
           \/ toldOn # today /\ toldOn' = today /\ told' = [told EXCEPT ![today] = @ + 1]
    BY <1>7 DEF CheckDailyBudgetAlert
  <2>2. CASE UNCHANGED <<toldOn, told>>
    BY <1>1, <2>1, <2>2
  <2>3. CASE toldOn # today /\ toldOn' = today /\ told' = [told EXCEPT ![today] = @ + 1]
    <3>1. told'[today] <= starts /\ \A d \in Days : d # today => told'[d] = told[d]
      BY <1>0, <2>1, <2>3 DEF ToldInv, Days
    <3>2. \A d \in Days : told'[d] <= starts
      BY <3>1 DEF ToldInv, OneAlertPerDayAndStart
    <3>3. \A d \in Days : today <= d /\ d # today => told'[d] + 1 <= starts
      <4>1. ASSUME NEW d \in Days, today <= d, d # today PROVE d # toldOn
        BY <1>0, <4>1 DEF ToldInv, Days, NoDay
      <4> QED
        BY <2>1, <3>1, <4>1 DEF ToldInv
    <3> QED
      BY <1>0, <2>1, <2>3, <3>2, <3>3 DEF ToldInv, OneAlertPerDayAndStart, Days
  <2> QED
    BY <2>1, <2>2, <2>3
<1>8. CASE Backfill
  BY <1>0, <1>1, <1>8
  DEF Backfill, StartBackfill, Query, Get, TakeFromPage, TurnPage, EndSweep, GoTo
<1>9. CASE Reclassify
  BY <1>0, <1>1, <1>9 DEF Reclassify, StartReclassify, Rules, GoTo, Outside
<1>10. ASSUME NEW p \in Procs,
              Gate(p) \/ Apply(p) \/ BudgetGate(p) \/ CallAndRecord(p) \/ Settle(p)
       PROVE  ToldInv'
  <2>1. UNCHANGED <<toldOn, told, starts, today>>
    BY <1>10 DEF Gate, Apply, BudgetGate, CallAndRecord, Settle, Outside
  <2>2. pc[p] # "off"
    BY <1>10 DEF Gate, Apply, BudgetGate, CallAndRecord, Settle
  <2>3. \A q \in Procs \ {p} : pc'[q] = pc[q]
    BY <1>0, <1>10
    DEF Gate, Apply, BudgetGate, CallAndRecord, Settle, AfterSettle, EndSweep, Rules, GoTo
  <2> QED
    BY <1>0, <1>1, <2>1, <2>2, <2>3
<1> QED
  BY <1>2, <1>3, <1>4, <1>5, <1>6, <1>7, <1>8, <1>9, <1>10 DEF Next, Mail, Daemon, Pipelines

-----------------------------------------------------------------------------
(* Repeats.                                                                 *)
Finished == {"settle", "over"}

LEMMA OnceStays ==
  ASSUME TypeOK, OnceInv, UNCHANGED acted, cutOff' \in Nat, cutOff <= cutOff',
         \A q \in {"backfill", "daemon"}, m \in Messages : Through(q, m) => Through(q, m)',
         pc["reclassify"] \in Finished => pc'["reclassify"] \in Finished
  PROVE  OnceInv'
<1> SUFFICES ASSUME NEW m \in Messages
             PROVE  /\ acted["backfill"][m] <= Once("backfill", m)'
                    /\ acted["daemon"][m] <= cutOff' + Once("daemon", m)'
                    /\ acted["reclassify"][m] <= IF pc'["reclassify"] \in Finished THEN 1 ELSE 0
  BY DEF OnceInv, Finished
<1>1. /\ acted["backfill"][m] <= Once("backfill", m)
      /\ acted["daemon"][m] <= cutOff + Once("daemon", m)
      /\ acted["reclassify"][m] <= IF pc["reclassify"] \in Finished THEN 1 ELSE 0
  BY DEF OnceInv, Finished
<1>2. /\ acted["backfill"][m] \in Nat /\ acted["daemon"][m] \in Nat
      /\ acted["reclassify"][m] \in Nat /\ cutOff \in Nat
  BY DEF TypeOK, HistoryOK, Procs, Commands
<1>3. \A q \in {"backfill", "daemon"} :
         Once(q, m) \in {0, 1} /\ Once(q, m)' \in {0, 1} /\ Once(q, m) <= Once(q, m)'
  BY DEF Once
<1> QED
  BY <1>1, <1>2, <1>3

(* One process moves, and what it was through with it stays through with.   *)
LEMMA OnceMoves ==
  ASSUME TypeOK, OnceInv, UNCHANGED <<acted, cutOff>>, NEW p \in Procs,
         processed \subseteq processed',
         \A q \in Procs \ {p} : pc'[q] = pc[q] /\ cur'[q] = cur[q],
         p # "reclassify" => \A m \in Messages : Through(p, m) => Through(p, m)',
         p = "reclassify" => (pc[p] \in Finished => pc'[p] \in Finished)
  PROVE  OnceInv'
<1>1. cutOff' \in Nat /\ cutOff <= cutOff'
  BY DEF TypeOK, HistoryOK
<1>2. {"backfill", "daemon", "reclassify"} = Procs
  BY DEF Procs, Commands
<1>3. \A q \in {"backfill", "daemon"}, m \in Messages : Through(q, m) => Through(q, m)'
  BY <1>2 DEF Through
<1>4. pc["reclassify"] \in Finished => pc'["reclassify"] \in Finished
  BY <1>2
<1> QED
  BY <1>1, <1>3, <1>4, OnceStays

LEMMA OnceStep ==
  ASSUME TypeOK, WorkInv, OnceInv, [Next]_vars
  PROVE  OnceInv'
<1> USE DEF account, database, worker, daemon, paging, history, sweep
<1>0. /\ DOMAIN pc = Procs /\ cur \in [Procs -> Messages \cup {NoMessage}]
      /\ "daemon" \in Procs /\ "backfill" \in Procs /\ "reclassify" \in Procs
      /\ NoMessage \notin Messages /\ cutOff \in Nat
      /\ acted \in [Procs -> [Messages -> Nat]]
      /\ \A p \in Procs : pc[p] \notin Pipeline => cur[p] = NoMessage
  BY DEF TypeOK, WorkersOK, HistoryOK, Procs, Commands, NoMessage, Messages, WorkInv
<1>1. CASE UNCHANGED vars \/ Mail \/ Poll \/ SetCursor
  <2>1. UNCHANGED <<acted, cutOff, pc, cur, processed>>
    BY <1>1 DEF vars, Mail, Arrive, Midnight, Remove, Poll, SetCursor
  <2> QED
    BY <1>0, <2>1, OnceMoves DEF Through
<1>2. CASE StartDaemon \/ CheckDailyBudgetAlert
  <2>1. /\ UNCHANGED <<acted, cutOff, cur, processed>> /\ cur["daemon"] = NoMessage
        /\ \A q \in Procs \ {"daemon"} : pc'[q] = pc[q]
    BY <1>0, <1>2 DEF StartDaemon, CheckDailyBudgetAlert, Pipeline
  <2> QED
    BY <1>0, <2>1, OnceMoves DEF Through
<1>3. CASE TakeFromBatch
  <2>1. /\ UNCHANGED <<acted, cutOff, processed>> /\ cur["daemon"] = NoMessage
        /\ \A q \in Procs \ {"daemon"} : pc'[q] = pc[q] /\ cur'[q] = cur[q]
        /\ pc'["daemon"] = "gate"
    BY <1>0, <1>3 DEF TakeFromBatch, Pipeline
  <2> QED
    BY <1>0, <2>1, OnceMoves DEF Through
<1>4. CASE Die
  <2>1. /\ UNCHANGED <<acted, processed>> /\ pc'["daemon"] = "off"
        /\ cur'["daemon"] = NoMessage
        /\ \A q \in Procs \ {"daemon"} : pc'[q] = pc[q] /\ cur'[q] = cur[q]
        /\ cutOff' = IF pc["daemon"] = "settle" THEN cutOff + 1 ELSE cutOff
    BY <1>0, <1>4 DEF Die, Forget
  <2>2. CASE pc["daemon"] # "settle"
    BY <1>0, <2>1, <2>2, OnceMoves DEF Through
  <2>3. CASE pc["daemon"] = "settle"
    <3> SUFFICES ASSUME NEW m \in Messages
                 PROVE  /\ acted["backfill"][m] <= Once("backfill", m)'
                        /\ acted["daemon"][m] <= cutOff' + Once("daemon", m)'
                        /\ acted["reclassify"][m] <= IF pc'["reclassify"] \in Finished THEN 1 ELSE 0
      BY <2>1 DEF OnceInv, Finished
    <3>1. Once("backfill", m)' = Once("backfill", m) /\ pc'["reclassify"] = pc["reclassify"]
      BY <1>0, <2>1 DEF Once, Through
    <3>2. Once("daemon", m) \in {0, 1} /\ Once("daemon", m)' \in {0, 1} /\ cutOff' = cutOff + 1
      BY <2>1, <2>3 DEF Once
    <3>3. acted["daemon"][m] <= cutOff + Once("daemon", m) /\ acted["daemon"][m] \in Nat
      BY <1>0 DEF OnceInv
    <3> QED
      BY <1>0, <3>1, <3>2, <3>3 DEF OnceInv, Finished
  <2> QED
    BY <2>2, <2>3
<1>5. CASE StartBackfill \/ Query \/ Get \/ TurnPage
  <2>1. /\ UNCHANGED <<acted, cutOff, cur, processed>> /\ cur["backfill"] = NoMessage
        /\ \A q \in Procs \ {"backfill"} : pc'[q] = pc[q]
    BY <1>0, <1>5 DEF StartBackfill, Query, Get, TurnPage, EndSweep, GoTo, Pipeline
  <2> QED
    BY <1>0, <2>1, OnceMoves DEF Through
<1>6. CASE TakeFromPage
  <2>1. /\ UNCHANGED <<acted, cutOff, processed>> /\ cur["backfill"] = NoMessage
        /\ \A q \in Procs \ {"backfill"} : pc'[q] = pc[q] /\ cur'[q] = cur[q]
        /\ pc'["backfill"] = "gate"
    BY <1>0, <1>6 DEF TakeFromPage, Pipeline
  <2> QED
    BY <1>0, <2>1, OnceMoves DEF Through
<1>7. CASE Reclassify
  <2>1. /\ UNCHANGED <<acted, cutOff, processed>> /\ pc["reclassify"] = "off"
        /\ \A q \in Procs \ {"reclassify"} : pc'[q] = pc[q] /\ cur'[q] = cur[q]
    BY <1>0, <1>7 DEF Reclassify, StartReclassify, Rules, GoTo, Outside, Rest
  <2> QED
    BY <1>0, <2>1, OnceMoves DEF Finished
<1>8. ASSUME NEW p \in Procs, Gate(p) \/ BudgetGate(p) \/ CallAndRecord(p) PROVE OnceInv'
  <2>1. /\ UNCHANGED <<acted, cutOff, processed>> /\ pc[p] \notin {"settle", "over"}
        /\ \A q \in Procs \ {p} : pc'[q] = pc[q] /\ cur'[q] = cur[q]
    BY <1>0, <1>8
    DEF Gate, BudgetGate, CallAndRecord, Outside, Rest, Rules, GoTo, Forget
  <2>2. \A m \in Messages : Through(p, m) => m \in processed
    BY <2>1 DEF Through
  <2>3. \A m \in Messages : Through(p, m) => Through(p, m)'
    <3>1. CASE Gate(p) /\ cur[p] \in processed
      <4>1. cur'[p] = NoMessage
        BY <1>0, <3>1 DEF Gate, Forget
      <4> QED
        BY <1>0, <2>1, <2>2, <4>1 DEF Through
    <3>2. CASE Gate(p) /\ cur[p] \notin processed
      <4>1. cur'[p] = cur[p]
        BY <3>2 DEF Gate
      <4> QED
        BY <2>1, <2>2, <3>2, <4>1 DEF Through
    <3>3. CASE BudgetGate(p) \/ CallAndRecord(p)
      <4>1. cur'[p] = cur[p] /\ pc[p] \notin {"gate", "settle"}
        BY <3>3 DEF BudgetGate, CallAndRecord
      <4> QED
        BY <2>1, <4>1 DEF Through
    <3> QED
      BY <1>8, <3>1, <3>2, <3>3
  <2> QED
    BY <2>1, <2>3, OnceMoves DEF Finished
<1>9. ASSUME NEW p \in Procs, Settle(p) PROVE OnceInv'
  <2>1. /\ UNCHANGED <<acted, cutOff>> /\ processed' = processed \cup {cur[p]}
        /\ cur'[p] = NoMessage
        /\ \A q \in Procs \ {p} : pc'[q] = pc[q] /\ cur'[q] = cur[q]
        /\ p = "reclassify" => pc'[p] = "over"
    BY <1>0, <1>9 DEF Settle, AfterSettle, Outside, EndSweep, GoTo, Forget
  <2>2. \A m \in Messages : Through(p, m) => Through(p, m)'
    BY <1>0, <2>1 DEF Through
  <2> QED
    BY <2>1, <2>2, OnceMoves DEF Finished
<1>10. ASSUME NEW p \in Procs, Apply(p) PROVE OnceInv'
  <2>1. /\ UNCHANGED <<cutOff, processed, cur>> /\ pc[p] = "apply" /\ pc'[p] = "settle"
        /\ \A q \in Procs \ {p} : pc'[q] = pc[q]
        /\ acted' = [acted EXCEPT ![p] = [acted[p] EXCEPT ![cur[p]] = acted[p][cur[p]] + 1]]
    BY <1>0, <1>10 DEF Apply, GoTo
  <2> SUFFICES ASSUME NEW m \in Messages
               PROVE  /\ acted'["backfill"][m] <= Once("backfill", m)'
                      /\ acted'["daemon"][m] <= cutOff + Once("daemon", m)'
                      /\ acted'["reclassify"][m] <= IF pc'["reclassify"] \in Finished THEN 1 ELSE 0
    BY <2>1 DEF OnceInv, Finished
  <2>2. /\ acted["backfill"][m] <= Once("backfill", m)
        /\ acted["daemon"][m] <= cutOff + Once("daemon", m)
        /\ acted["reclassify"][m] <= IF pc["reclassify"] \in Finished THEN 1 ELSE 0
        /\ acted["backfill"][m] \in Nat /\ acted["daemon"][m] \in Nat
        /\ acted["reclassify"][m] \in Nat
    BY <1>0 DEF OnceInv, Finished
  <2>3. \A q \in Procs \ {p} : acted'[q][m] = acted[q][m] /\ Once(q, m)' = Once(q, m)
    BY <1>0, <2>1 DEF Once, Through
  <2>4. m # cur[p] => acted'[p][m] = acted[p][m] /\ Once(p, m)' = Once(p, m)
    BY <1>0, <2>1 DEF Once, Through
  <2>5. m = cur[p] => acted'[p][m] = acted[p][m] + 1 /\ Once(p, m)' = 1 /\ Once(p, m) = 0
    BY <1>0, <2>1 DEF Once, Through
  <2>6. \A q \in Procs : Once(q, m) \in {0, 1}
    BY DEF Once
  <2>7. p \in {"backfill", "daemon", "reclassify"}
    BY DEF Procs, Commands
  <2>8. CASE p = "backfill"
    BY <1>0, <2>1, <2>2, <2>3, <2>4, <2>5, <2>6, <2>8
  <2>9. CASE p = "daemon"
    BY <1>0, <2>1, <2>2, <2>3, <2>4, <2>5, <2>6, <2>9
  <2>10. CASE p = "reclassify"
    BY <1>0, <2>1, <2>2, <2>3, <2>4, <2>5, <2>6, <2>10 DEF Finished
  <2> QED
    BY <2>7, <2>8, <2>9, <2>10
<1> QED
  BY <1>1, <1>2, <1>3, <1>4, <1>5, <1>6, <1>7, <1>8, <1>9, <1>10
  DEF Next, Daemon, Backfill, Pipelines

-----------------------------------------------------------------------------
(* What the backfill passes over.  The Inbox lists a message once; those    *)
(* that have left it since the sweep began do not come back.                *)
MailInv ==
    /\ \A i, j \in 1..Len(inbox) : inbox[i] = inbox[j] => i = j
    /\ Listed \subseteq exists /\ exists \subseteq 1..created
    /\ first \subseteq 1..created /\ left \subseteq (1..created) \ Listed

(* Of the messages listed up to the position, those that were there from    *)
(* the first and were neither processed nor fetched are no more than have   *)
(* left; when there is no more, so it is with all that are listed.          *)
Ahead == {inbox[i] : i \in {j \in 1..Len(inbox) : j <= position}}
Passed(S) == {m \in first \cap S : m \notin seen \cup page}
PageInv ==
    /\ ~Sweeping => /\ position = 0 /\ page = {} /\ sofar = 0
                    /\ first = {} /\ left = {} /\ seen = {}
    /\ Cardinality(Passed(Ahead)) <= Cardinality(left)
    /\ sofar + Cardinality(page) <= Limit
    /\ pc["backfill"] = "query" => page = {} /\ sofar < Limit
    /\ Sweeping /\ pc["backfill"] # "query" /\ ~more =>
          Cardinality(Passed(Listed)) <= Cardinality(left)
    /\ SkipsNeedDepartures

PassInv == MailInv /\ PageInv

(* The Inbox after an arrival.                                              *)
LEMMA Arrived ==
  ASSUME TypeOK, MailInv, Arrive
  PROVE  /\ Listed' = Listed \cup {created + 1} /\ created + 1 \notin Listed
         /\ \A i, j \in 1..Len(inbox') : inbox'[i] = inbox'[j] => i = j
         /\ Ahead' \subseteq Ahead \cup {created + 1}
<1> DEFINE n == created + 1
<1>0. n \in Messages /\ inbox \in Seq(Messages) /\ <<n>> \in Seq(Messages)
      /\ Len(inbox) \in Nat /\ position \in Nat /\ position' = position
  BY SweepAssumption DEF Arrive, TypeOK, MailOK, RunsOK, Messages, paging
<1>1. n \notin Listed /\ \A i \in 1..Len(inbox) : inbox[i] # n
  <2>1. n \notin 1..created
    BY DEF TypeOK, MailOK
  <2> QED
    BY <2>1 DEF MailInv, Listed
<1>2. CASE inbox' = <<n>> \o inbox
  <2>1. Len(<<n>>) = 1 /\ <<n>>[1] = n
    OBVIOUS
  <2>2. /\ Len(inbox') = Len(inbox) + 1
        /\ \A i \in 1..Len(inbox') : inbox'[i] = IF i = 1 THEN n ELSE inbox[i - 1]
    <3> HIDE DEF n
    <3>1. /\ Len(inbox') = Len(<<n>>) + Len(inbox)
          /\ \A i \in 1..(Len(<<n>>) + Len(inbox)) :
                inbox'[i] = IF i <= Len(<<n>>) THEN <<n>>[i] ELSE inbox[i - Len(<<n>>)]
      BY <1>0, <1>2, ConcatProperties
    <3> QED
      BY <2>1, <3>1, <1>0
  <2> HIDE DEF n
  <2>3. Listed' = Listed \cup {n}
    <3>1. \A i \in 1..Len(inbox) : i + 1 \in 1..Len(inbox') /\ inbox'[i + 1] = inbox[i]
      BY <1>0, <2>2
    <3>2. 1 \in 1..Len(inbox') /\ inbox'[1] = n
      BY <1>0, <2>2
    <3>3. ASSUME NEW i \in 1..Len(inbox') PROVE inbox'[i] \in Listed \cup {n}
      <4>1. CASE i = 1
        BY <2>2, <4>1
      <4>2. CASE i # 1
        <5>1. i - 1 \in 1..Len(inbox) /\ inbox'[i] = inbox[i - 1]
          BY <1>0, <2>2, <4>2
        <5> QED
          BY <5>1 DEF Listed
      <4> QED
        BY <4>1, <4>2
    <3>4. Listed' \subseteq Listed \cup {n}
      BY <3>3 DEF Listed
    <3>5. Listed \subseteq Listed'
      BY <3>1 DEF Listed
    <3>6. n \in Listed'
      BY <3>2 DEF Listed
    <3> QED
      BY <3>4, <3>5, <3>6
  <2>4. ASSUME NEW i \in 1..Len(inbox'), NEW j \in 1..Len(inbox'), inbox'[i] = inbox'[j]
        PROVE  i = j
    BY <2>2, <2>4, <1>0, <1>1 DEF MailInv
  <2>5. Ahead' \subseteq Ahead \cup {n}
    <3> SUFFICES ASSUME NEW i \in 1..Len(inbox'), i <= position, inbox'[i] # n
                 PROVE  inbox'[i] \in Ahead
      BY <1>0 DEF Ahead
    <3>1. i - 1 \in 1..Len(inbox) /\ i - 1 <= position /\ inbox'[i] = inbox[i - 1]
      BY <1>0, <2>2
    <3> QED
      BY <3>1 DEF Ahead
  <2> QED
    BY <1>1, <2>3, <2>4, <2>5 DEF n
<1>3. CASE inbox' = Append(inbox, n)
  <2>1. /\ Len(inbox') = Len(inbox) + 1
        /\ \A i \in 1..Len(inbox) : inbox'[i] = inbox[i]
        /\ inbox'[Len(inbox) + 1] = n
    BY <1>0, <1>3, AppendProperties
  <2> HIDE DEF n
  <2>2. \A i \in 1..Len(inbox') : i \in 1..Len(inbox) \/ i = Len(inbox) + 1
    BY <1>0, <2>1
  <2>3. Len(inbox) + 1 \in 1..Len(inbox') /\ 1..Len(inbox) \subseteq 1..Len(inbox')
    BY <1>0, <2>1
  <2>4. Listed' = Listed \cup {n}
    BY <2>1, <2>2, <2>3 DEF Listed
  <2>5. ASSUME NEW i \in 1..Len(inbox'), NEW j \in 1..Len(inbox'), inbox'[i] = inbox'[j]
        PROVE  i = j
    BY <2>1, <2>2, <2>5, <1>1 DEF MailInv
  <2>6. Ahead' \subseteq Ahead \cup {n}
    BY <1>0, <2>1, <2>2 DEF Ahead
  <2> QED
    BY <1>1, <2>4, <2>5, <2>6 DEF n
<1> QED
  BY <1>2, <1>3 DEF Arrive

(* The Inbox after a departure: at most one message moves ahead of the      *)
(* position.                                                                *)
LEMMA WithoutIs ==
  ASSUME inbox \in Seq(Messages), NEW m \in Listed
  PROVE  \E k \in 1..Len(inbox) :
            /\ inbox[k] = m /\ Len(Without(m)) = Len(inbox) - 1
            /\ \A i \in 1..(Len(inbox) - 1) :
                  Without(m)[i] = IF i < k THEN inbox[i] ELSE inbox[i + 1]
<1> DEFINE k == CHOOSE i \in 1..Len(inbox) : inbox[i] = m
           a == SubSeq(inbox, 1, k - 1)
           b == SubSeq(inbox, k + 1, Len(inbox))
<1>1. k \in 1..Len(inbox) /\ inbox[k] = m
  BY DEF Listed
<1>2. Without(m) = a \o b
  BY DEF Without
<1> HIDE DEF k
<1>3. k - 1 \in Int /\ k + 1 \in Int /\ Len(inbox) \in Nat /\ 1 \in Int /\ Len(inbox) \in Int
  BY <1>1
<1>4. /\ \A i \in 1..(k - 1) : inbox[i] \in Messages
      /\ \A i \in (k + 1)..Len(inbox) : inbox[i] \in Messages
  BY <1>1
<1>5. /\ a \in Seq(Messages) /\ Len(a) = k - 1
      /\ \A i \in 1..(k - 1) : a[i] = inbox[i]
  <2>1. /\ a \in Seq(Messages) /\ Len(a) = IF 1 <= k - 1 THEN (k - 1) - 1 + 1 ELSE 0
        /\ \A i \in 1..((k - 1) - 1 + 1) : a[i] = inbox[1 + i - 1]
    BY <1>3, <1>4, SubSeqProperties
  <2> HIDE DEF a
  <2> QED
    BY <1>1, <1>3, <2>1
<1>6. /\ b \in Seq(Messages) /\ Len(b) = Len(inbox) - k
      /\ \A i \in 1..(Len(inbox) - k) : b[i] = inbox[k + i]
  <2>1. /\ b \in Seq(Messages)
        /\ Len(b) = IF k + 1 <= Len(inbox) THEN Len(inbox) - (k + 1) + 1 ELSE 0
        /\ \A i \in 1..(Len(inbox) - (k + 1) + 1) : b[i] = inbox[(k + 1) + i - 1]
    BY <1>3, <1>4, SubSeqProperties
  <2> HIDE DEF b
  <2> QED
    BY <1>1, <1>3, <2>1
<1> HIDE DEF a, b
<1>7. /\ Len(a \o b) = Len(inbox) - 1
      /\ \A i \in 1..(Len(inbox) - 1) : (a \o b)[i] = IF i <= k - 1 THEN a[i] ELSE b[i - (k - 1)]
  <2>1. /\ Len(a \o b) = Len(a) + Len(b)
        /\ \A i \in 1..(Len(a) + Len(b)) : (a \o b)[i] = IF i <= Len(a) THEN a[i] ELSE b[i - Len(a)]
    BY <1>5, <1>6, ConcatProperties
  <2> QED
    BY <1>1, <1>3, <1>5, <1>6, <2>1
<1>8. \A i \in 1..(Len(inbox) - 1) : (a \o b)[i] = IF i < k THEN inbox[i] ELSE inbox[i + 1]
  <2> SUFFICES ASSUME NEW i \in 1..(Len(inbox) - 1)
               PROVE  (a \o b)[i] = IF i < k THEN inbox[i] ELSE inbox[i + 1]
    OBVIOUS
  <2>1. CASE i < k
    BY <1>1, <1>3, <1>5, <1>7, <2>1
  <2>2. CASE ~(i < k)
    <3>1. i - (k - 1) \in 1..(Len(inbox) - k) /\ k + (i - (k - 1)) = i + 1 /\ ~(i <= k - 1)
      BY <1>1, <1>3, <2>2
    <3> QED
      BY <1>6, <1>7, <2>2, <3>1
  <2> QED
    BY <2>1, <2>2
<1> QED
  BY <1>1, <1>2, <1>7, <1>8

LEMMA Departed ==
  ASSUME TypeOK, MailInv, NEW m \in Listed, inbox' = Without(m), position' = position
  PROVE  /\ Listed' = Listed \ {m}
         /\ \A i, j \in 1..Len(inbox') : inbox'[i] = inbox'[j] => i = j
         /\ \E x : Ahead' \subseteq Ahead \cup {x}
<1>1. PICK k \in 1..Len(inbox) :
            /\ inbox[k] = m /\ Len(inbox') = Len(inbox) - 1
            /\ \A i \in 1..(Len(inbox) - 1) : inbox'[i] = IF i < k THEN inbox[i] ELSE inbox[i + 1]
  BY WithoutIs DEF TypeOK, MailOK
<1>2. Len(inbox) \in Nat /\ position \in Nat
  BY DEF TypeOK, MailOK, RunsOK
<1>3. \A i \in 1..Len(inbox') : /\ i \in 1..(Len(inbox) - 1) /\ i \in 1..Len(inbox)
                               /\ i + 1 \in 1..Len(inbox)
  BY <1>1, <1>2
<1>4. \A i, j \in 1..Len(inbox) : inbox[i] = inbox[j] => i = j
  BY DEF MailInv
<1>5. ASSUME NEW i \in 1..Len(inbox'), NEW j \in 1..Len(inbox'), inbox'[i] = inbox'[j]
      PROVE  i = j
  <2> DEFINE u == IF i < k THEN i ELSE i + 1
             v == IF j < k THEN j ELSE j + 1
  <2>1. u \in 1..Len(inbox) /\ v \in 1..Len(inbox)
    BY <1>3
  <2>2. inbox'[i] = inbox[u]
    BY <1>1, <1>3
  <2>3. inbox'[j] = inbox[v]
    BY <1>1, <1>3
  <2> HIDE DEF u, v
  <2>4. u = v
    BY <1>4, <1>5, <2>1, <2>2, <2>3
  <2> QED
    BY <2>4 DEF u, v
<1>6. Listed' = Listed \ {m}
  <2>1. ASSUME NEW i \in 1..Len(inbox') PROVE inbox'[i] \in Listed \ {m}
    <3>1. CASE i < k
      <4>1. inbox'[i] = inbox[i] /\ i # k /\ i \in 1..Len(inbox)
        BY <1>1, <1>3, <3>1
      <4> QED
        BY <1>1, <1>4, <4>1 DEF Listed
    <3>2. CASE ~(i < k)
      <4>1. inbox'[i] = inbox[i + 1] /\ i + 1 # k /\ i + 1 \in 1..Len(inbox)
        BY <1>1, <1>3, <3>2
      <4> QED
        BY <1>1, <1>4, <4>1 DEF Listed
    <3> QED
      BY <3>1, <3>2
  <2>2. ASSUME NEW i \in 1..Len(inbox), inbox[i] # m PROVE inbox[i] \in Listed'
    <3>1. CASE i < k
      <4>1. i \in 1..Len(inbox') /\ inbox'[i] = inbox[i]
        BY <1>1, <1>2, <3>1
      <4> QED
        BY <4>1 DEF Listed
    <3>2. CASE i > k
      <4>1. i - 1 \in 1..Len(inbox') /\ inbox'[i - 1] = inbox[i]
        BY <1>1, <1>2, <3>2
      <4> QED
        BY <4>1 DEF Listed
    <3> QED
      BY <1>1, <2>2, <3>1, <3>2
  <2> QED
    BY <2>1, <2>2 DEF Listed
<1>7. Ahead' \subseteq Ahead \cup {inbox[position + 1]}
  <2> SUFFICES ASSUME NEW i \in 1..Len(inbox'), i <= position
               PROVE  inbox'[i] \in Ahead \cup {inbox[position + 1]}
    BY DEF Ahead
  <2>1. CASE inbox'[i] = inbox[i]
    BY <1>3, <2>1 DEF Ahead
  <2>2. CASE inbox'[i] = inbox[i + 1]
    <3>1. i = position \/ i + 1 <= position
      BY <1>2
    <3> QED
      BY <1>3, <2>2, <3>1 DEF Ahead
  <2> QED
    BY <1>1, <1>3, <2>1, <2>2
<1> QED
  BY <1>5, <1>6, <1>7

LEMMA Fewer ==
  ASSUME NEW A \in SUBSET Messages, NEW B \in SUBSET Messages
  PROVE  /\ A \subseteq B => Cardinality(A) <= Cardinality(B)
         /\ \A x : A \subseteq B \cup {x} => Cardinality(A) <= Cardinality(B) + 1
<1>1. IsFiniteSet(B) /\ Cardinality(A) \in Nat /\ Cardinality(B) \in Nat
  BY SubsetsCounted
<1>2. A \subseteq B => Cardinality(A) <= Cardinality(B)
  BY <1>1, FS_Subset
<1>3. ASSUME NEW x, A \subseteq B \cup {x} PROVE Cardinality(A) <= Cardinality(B) + 1
  <2>1. /\ IsFiniteSet(B \cup {x})
        /\ Cardinality(B \cup {x}) = IF x \in B THEN Cardinality(B) ELSE Cardinality(B) + 1
    BY <1>1, FS_AddElement
  <2>2. Cardinality(A) <= Cardinality(B \cup {x})
    BY <1>3, <2>1, FS_Subset
  <2> QED
    BY <1>1, <2>1, <2>2
<1> QED
  BY <1>2, <1>3

LEMMA PassedTypes ==
  ASSUME TypeOK
  PROVE  /\ \A S : Passed(S) \in SUBSET Messages /\ Cardinality(Passed(S)) \in Nat
         /\ left \in SUBSET Messages /\ Cardinality(left) \in Nat
         /\ page \in SUBSET Messages /\ IsFiniteSet(page) /\ Cardinality(page) \in Nat
         /\ sofar \in Nat /\ position \in Nat /\ inbox \in Seq(Messages) /\ Len(inbox) \in Nat
<1>1. first \subseteq Messages /\ left \subseteq Messages /\ page \subseteq Messages
  BY DEF TypeOK, HistoryOK, RunsOK
<1>2. \A S : Passed(S) \in SUBSET Messages
  BY <1>1 DEF Passed
<1>3. sofar \in Nat /\ position \in Nat /\ inbox \in Seq(Messages) /\ Len(inbox) \in Nat
  BY SweepAssumption DEF TypeOK, RunsOK, MailOK
<1> QED
  BY <1>1, <1>2, <1>3, SubsetsCounted

(* The backfill stays where it is, or does the next step on its message.    *)
Onward ==
    \/ pc'["backfill"] = pc["backfill"]
    \/ pc["backfill"] \in Pipeline /\ pc'["backfill"] \in Pipeline \cup {"next"}

LEMMA OnwardSweeps ==
  ASSUME Onward
  PROVE  /\ Sweeping' = Sweeping
         /\ pc'["backfill"] = "query" <=> pc["backfill"] = "query"
BY DEF Onward, Sweeping, Pipeline

LEMMA StillPassed ==
  ASSUME PassInv, Onward, UNCHANGED <<created, inbox, exists, paging, ended, sweep>>
  PROVE  PassInv'
<1>1. /\ UNCHANGED <<created, inbox, exists, position, page, more, sofar, ended>>
      /\ UNCHANGED <<first, left, seen, balance>>
  BY DEF paging, sweep
<1>2. Listed' = Listed /\ Ahead' = Ahead
  BY <1>1 DEF Listed, Ahead
<1>3. MailInv'
  BY <1>1, <1>2 DEF PassInv, MailInv
<1>4. Passed(Ahead)' = Passed(Ahead) /\ Passed(Listed)' = Passed(Listed)
  BY <1>1, <1>2 DEF Passed
<1>5. PageInv'
  BY <1>1, <1>4, OnwardSweeps DEF PassInv, PageInv, SkipsNeedDepartures
<1> QED
  BY <1>3, <1>5 DEF PassInv

LEMMA ArrivePasses == ASSUME TypeOK, TypeOK', PassInv, Arrive PROVE PassInv'
<1>1. /\ UNCHANGED <<pc, position, page, more, sofar, ended>>
      /\ UNCHANGED <<first, left, seen, balance>>
  BY DEF Arrive, worker, paging, history, sweep
<1>2. /\ Listed' = Listed \cup {created + 1} /\ created + 1 \notin Listed
      /\ \A i, j \in 1..Len(inbox') : inbox'[i] = inbox'[j] => i = j
      /\ Ahead' \subseteq Ahead \cup {created + 1}
  BY Arrived DEF PassInv
<1>3. /\ 1..created \subseteq 1..created' /\ created + 1 \in 1..created'
      /\ created + 1 \notin 1..created /\ exists' = exists \cup {created + 1}
  BY DEF Arrive, TypeOK, MailOK
<1>4. MailInv'
  BY <1>1, <1>2, <1>3 DEF PassInv, MailInv
<1>5. Passed(Ahead)' \subseteq Passed(Ahead) /\ Passed(Listed)' \subseteq Passed(Listed)
  BY <1>1, <1>2, <1>3 DEF Passed, PassInv, MailInv
<1>6. /\ Cardinality(Passed(Ahead)') <= Cardinality(Passed(Ahead))
      /\ Cardinality(Passed(Listed)') <= Cardinality(Passed(Listed))
  BY <1>5, Fewer, PassedTypes
<1>7. /\ Cardinality(Passed(Ahead)') \in Nat /\ Cardinality(Passed(Ahead)) \in Nat
      /\ Cardinality(Passed(Listed)') \in Nat /\ Cardinality(Passed(Listed)) \in Nat
      /\ Cardinality(left) \in Nat
  BY <1>5, PassedTypes, SubsetsCounted
<1>8. Sweeping' = Sweeping
  BY <1>1 DEF Sweeping
<1>9. PageInv'
  BY <1>1, <1>6, <1>7, <1>8 DEF PassInv, PageInv, SkipsNeedDepartures
<1> QED
  BY <1>4, <1>9 DEF PassInv

LEMMA LeavePasses ==
  ASSUME TypeOK, TypeOK', PassInv, Onward, NEW m, inbox' = Without(m), left' = LeftWith(m),
         exists' = exists \/ (m \in Listed /\ exists' = exists \ {m}),
         UNCHANGED <<created, paging, ended, first, seen, balance>>
  PROVE  PassInv'
<1>1. UNCHANGED <<position, page, more, sofar, ended, created, first, seen, balance>>
  BY DEF paging
<1>2. CASE m \notin Listed
  <2>1. inbox' = inbox /\ left' = left /\ exists' = exists
    BY <1>2 DEF Without, LeftWith
  <2> QED
    BY <1>1, <2>1, StillPassed DEF paging, sweep
<1>3. CASE m \in Listed
  <2>1. /\ Listed' = Listed \ {m}
        /\ \A i, j \in 1..Len(inbox') : inbox'[i] = inbox'[j] => i = j
    BY <1>1, <1>3, Departed DEF PassInv
  <2>2. PICK x : Ahead' \subseteq Ahead \cup {x}
    BY <1>1, <1>3, Departed DEF PassInv
  <2>3. left' = IF Sweeping THEN left \cup {m} ELSE left
    BY <1>3 DEF LeftWith
  <2>4. MailInv'
    <3>1. Listed' \subseteq exists' /\ exists' \subseteq 1..created'
      BY <1>1, <2>1 DEF PassInv, MailInv
    <3>2. first' \subseteq 1..created' /\ left' \subseteq (1..created') \ Listed'
      BY <1>1, <1>3, <2>1, <2>3 DEF PassInv, MailInv
    <3> QED
      BY <2>1, <3>1, <3>2 DEF MailInv
  <2>5. m \notin left
    BY <1>3 DEF PassInv, MailInv
  <2>6. IsFiniteSet(left) /\ Cardinality(left) \in Nat
    BY PassedTypes, SubsetsCounted
  <2>7. Sweeping => Cardinality(left') = Cardinality(left) + 1
    BY <2>3, <2>5, <2>6, FS_AddElement
  <2>8. Passed(Listed)' \subseteq Passed(Listed) /\ Passed(Ahead)' \subseteq Passed(Ahead) \cup {x}
    BY <1>1, <2>1, <2>2 DEF Passed
  <2>9. /\ Cardinality(Passed(Listed)) \in Nat /\ Cardinality(Passed(Ahead)) \in Nat
        /\ Passed(Listed) \in SUBSET Messages /\ Passed(Ahead) \in SUBSET Messages
    BY PassedTypes
  <2>10. Passed(Ahead)' \in SUBSET Messages /\ Cardinality(Passed(Ahead)') \in Nat
    <3>1. first' \in SUBSET Messages
      BY DEF TypeOK, HistoryOK
    <3>2. Passed(Ahead)' \in SUBSET Messages
      BY <3>1 DEF Passed
    <3> QED
      BY <3>2, SubsetsCounted
  <2>11. Passed(Listed)' \in SUBSET Messages /\ Cardinality(Passed(Listed)') \in Nat
    BY <2>8, <2>9, SubsetsCounted
  <2>12. /\ Cardinality(Passed(Listed)') <= Cardinality(Passed(Listed))
         /\ Cardinality(Passed(Ahead)') <= Cardinality(Passed(Ahead)) + 1
    BY <2>8, <2>9, <2>10, <2>11, Fewer
  <2>13. ~Sweeping => Passed(Ahead)' = {} /\ left' = left
    BY <1>1, <2>3 DEF PassInv, PageInv, Passed
  <2>14. Cardinality(Passed(Ahead)') <= Cardinality(left')
    <3>1. CASE Sweeping
      BY <2>6, <2>7, <2>9, <2>10, <2>12, <3>1 DEF PassInv, PageInv
    <3>2. CASE ~Sweeping
      BY <2>6, <2>13, <3>2, FS_EmptySet
    <3> QED
      BY <3>1, <3>2
  <2>15. Sweeping /\ pc["backfill"] # "query" /\ ~more =>
            Cardinality(Passed(Listed)') <= Cardinality(left')
    BY <2>6, <2>7, <2>9, <2>11, <2>12 DEF PassInv, PageInv
  <2>16. PageInv'
    BY <1>1, <2>13, <2>14, <2>15, OnwardSweeps DEF PassInv, PageInv, SkipsNeedDepartures
  <2> QED
    BY <2>4, <2>16 DEF PassInv
<1> QED
  BY <1>2, <1>3

(* Only a sweep that reaches its end promises anything.                     *)
LEMMA EndPasses ==
  ASSUME TypeOK, PassInv, Sweeping, NEW why, EndSweep(why),
         UNCHANGED <<created, inbox, exists>>,
         why = "swept" => Cardinality(Missed) <= Cardinality(left)
  PROVE  PassInv'
<1>1. pc'["backfill"] = "over"
  BY DEF EndSweep, GoTo, TypeOK, WorkersOK, Procs, Commands
<1>2. Listed' = Listed
  BY DEF Listed
<1>3. MailInv'
  BY <1>2 DEF PassInv, MailInv, EndSweep
<1>4. Missed \in SUBSET Messages
  BY DEF TypeOK, HistoryOK, Missed
<1>5. Cardinality(Missed) \in Nat /\ Cardinality(left) \in Nat
  BY <1>4, PassedTypes, SubsetsCounted
<1>6. SkipsNeedDepartures'
  BY <1>5 DEF EndSweep, SkipsNeedDepartures
<1>7. /\ ~Sweeping' /\ page' = {} /\ sofar' = 0 /\ first' = {} /\ left' = {} /\ seen' = {}
      /\ position' = 0
  BY <1>1 DEF Sweeping, EndSweep
<1>8. Passed(Ahead)' = {}
  BY <1>7 DEF Passed
<1>9. PageInv'
  BY <1>1, <1>6, <1>7, <1>8, FS_EmptySet, SweepAssumption DEF PageInv
<1> QED
  BY <1>3, <1>9 DEF PassInv

(* When there is no more and the page is worked off, all that was missed    *)
(* was passed over.                                                         *)
LEMMA MissedPassed ==
  ASSUME TypeOK, PassInv, Sweeping, pc["backfill"] # "query", ~more, page \cap Listed = {}
  PROVE  Cardinality(Missed) <= Cardinality(left)
<1>1. Missed = Passed(Listed)
  BY DEF Missed, Passed
<1> QED
  BY <1>1 DEF PassInv, PageInv

LEMMA BeginPasses == ASSUME TypeOK, TypeOK', PassInv, StartBackfill PROVE PassInv'
<1>1. /\ UNCHANGED <<created, inbox, exists, position, page, more, sofar, ended>>
      /\ UNCHANGED <<left, seen, balance>>
  BY DEF StartBackfill, account, paging
<1>2. pc'["backfill"] = "query" /\ ~Sweeping
  BY DEF StartBackfill, Sweeping, TypeOK, WorkersOK, Procs, Commands
<1>3. Listed' = Listed /\ first' = Listed
  BY <1>1 DEF Listed, StartBackfill
<1>4. MailInv'
  BY <1>1, <1>3 DEF PassInv, MailInv
<1>5. position' = 0 /\ page' = {} /\ sofar' = 0 /\ left' = {} /\ seen' = {}
  BY <1>1, <1>2 DEF PassInv, PageInv
<1>6. Passed(Ahead)' = {}
  BY <1>5 DEF Passed, Ahead
<1>7. PageInv'
  BY <1>1, <1>2, <1>5, <1>6, FS_EmptySet, SweepAssumption
  DEF PassInv, PageInv, Sweeping, SkipsNeedDepartures
<1> QED
  BY <1>4, <1>7 DEF PassInv

(* Email/query returns the messages behind the position, at most as many as *)
(* a page and the limit allow.                                              *)
LEMMA WindowIs ==
  ASSUME TypeOK, sofar < Limit
  PROVE  /\ Window = {} => Ahead = Listed
         /\ IsFiniteSet(Window) /\ Cardinality(Window) \in Nat /\ sofar + Cardinality(Window) <= Limit
         /\ {inbox[i] : i \in {j \in 1..Len(inbox) : j <= position + Cardinality(Window)}}
               \subseteq Ahead \cup Window
<1> DEFINE n == Smaller(PageSize, Limit - sofar)
           I == {j \in 1..Len(inbox) : position < j /\ j <= position + n}
           f == [j \in I |-> inbox[j]]
<1>1. /\ n \in Nat \ {0} /\ sofar + n <= Limit /\ position \in Nat /\ Len(inbox) \in Nat
      /\ sofar \in Nat /\ Limit \in Nat
  BY PassedTypes, SweepAssumption DEF Smaller
<1>2. Window = {inbox[i] : i \in I}
  BY DEF Window
<1> HIDE DEF n
<1>3. I \subseteq (position + 1)..(position + n) /\ IsFiniteSet(I) /\ Cardinality(I) <= n
  <2>1. I \subseteq (position + 1)..(position + n)
    BY <1>1
  <2>2. /\ IsFiniteSet((position + 1)..(position + n))
        /\ Cardinality((position + 1)..(position + n)) = n
    <3>1. position + 1 \in Int /\ position + n \in Int /\ ~(position + 1 > position + n)
          /\ (position + n) - (position + 1) + 1 = n
      BY <1>1
    <3> QED
      BY <3>1, FS_Interval
  <2> HIDE DEF I
  <2>3. IsFiniteSet(I) /\ Cardinality(I) <= Cardinality((position + 1)..(position + n))
    BY <2>1, <2>2, FS_Subset
  <2> QED
    BY <2>1, <2>2, <2>3
<1>4. f \in Surjection(I, Window)
  <2>1. f \in [I -> Window] /\ \A w \in Window : \E i \in I : f[i] = w
    BY <1>2
  <2> QED
    BY <2>1 DEF Surjection
<1>5. /\ IsFiniteSet(Window) /\ Cardinality(Window) <= Cardinality(I)
      /\ Cardinality(Window) \in Nat /\ Cardinality(I) \in Nat
  <2> HIDE DEF f, I
  <2>1. IsFiniteSet(Window) /\ Cardinality(Window) <= Cardinality(I)
    BY <1>3, <1>4, FS_Surjection
  <2> QED
    BY <1>3, <2>1, FS_CardinalityType
<1>6. Window = {} => Ahead = Listed
  <2> SUFFICES ASSUME Window = {}, NEW i \in 1..Len(inbox) PROVE i <= position
    BY DEF Ahead, Listed
  <2>1. I = {}
    BY <1>2
  <2>2. Len(inbox) <= position
    <3> SUFFICES ASSUME position < Len(inbox) PROVE FALSE
      BY <1>1
    <3>1. position + 1 \in I
      BY <1>1
    <3> QED
      BY <2>1, <3>1
  <2> QED
    BY <1>1, <2>2
<1>7. {inbox[i] : i \in {j \in 1..Len(inbox) : j <= position + Cardinality(Window)}}
               \subseteq Ahead \cup Window
  <2> SUFFICES ASSUME NEW i \in 1..Len(inbox), i <= position + Cardinality(Window)
               PROVE  inbox[i] \in Ahead \cup Window
    OBVIOUS
  <2>1. CASE i <= position
    BY <2>1 DEF Ahead
  <2>2. CASE ~(i <= position)
    <3>1. i \in I
      BY <1>1, <1>3, <1>5, <2>2
    <3> QED
      BY <1>2, <3>1
  <2> QED
    BY <2>1, <2>2
<1>8. sofar + Cardinality(Window) <= Limit
  <2> HIDE DEF I
  <2> QED
    BY <1>1, <1>3, <1>5
<1> QED
  BY <1>5, <1>6, <1>7, <1>8

LEMMA QueryPasses == ASSUME TypeOK, TypeOK', PassInv, Query PROVE PassInv'
<1>1. /\ pc["backfill"] = "query" /\ Sweeping /\ page = {} /\ sofar < Limit
      /\ UNCHANGED <<created, inbox, exists>>
  BY DEF Query, Sweeping, account, PassInv, PageInv
<1>2. CASE Window = {} /\ EndSweep("swept")
  <2>1. Missed = Passed(Ahead)
    BY <1>1, <1>2, WindowIs DEF Missed, Passed
  <2> QED
    BY <1>1, <1>2, <2>1, EndPasses DEF PassInv, PageInv
<1>3. CASE Window # {} /\ ~EndSweep("swept")
  <2>1. /\ pc'["backfill"] = "get" /\ page' = Window /\ position' = position + Cardinality(Window)
        /\ more' = (position' < Len(inbox))
        /\ UNCHANGED <<sofar, ended, first, left, seen, balance>>
    BY <1>3 DEF Query, GoTo, TypeOK, WorkersOK, Procs, Commands, sweep
  <2>2. Listed' = Listed
    BY <1>1 DEF Listed
  <2>3. MailInv'
    BY <1>1, <2>1, <2>2 DEF PassInv, MailInv
  <2>4. Ahead' \subseteq Ahead \cup Window
    BY <1>1, <2>1, WindowIs DEF Ahead
  <2>5. Passed(Ahead)' \subseteq Passed(Ahead)
    BY <1>1, <2>1, <2>4 DEF Passed
  <2>6. Cardinality(Passed(Ahead)') <= Cardinality(Passed(Ahead)) /\ Cardinality(Passed(Ahead)') \in Nat
    BY <2>5, Fewer, PassedTypes, SubsetsCounted
  <2>7. ~more' => Passed(Listed)' = Passed(Ahead)'
    <3>1. position' \in Nat /\ Len(inbox) \in Nat
      BY PassedTypes DEF TypeOK, RunsOK
    <3>2. ASSUME ~more' PROVE Ahead' = Listed'
      <4>0. ~(position' < Len(inbox))
        <5>1. more' = (position' < Len(inbox))
          BY <2>1
        <5> QED
          BY ONLY <3>2, <5>1, Zenon
      <4>1. \A j \in 1..Len(inbox) : j <= position'
        BY <3>1, <4>0
      <4>2. inbox' = inbox
        BY <1>1
      <4> QED
        BY <4>1, <4>2 DEF Ahead, Listed
    <3> QED
      BY <3>2 DEF Passed
  <2>8. sofar' + Cardinality(page') <= Limit
    BY <1>1, <2>1, WindowIs
  <2>9. Cardinality(Passed(Ahead)) <= Cardinality(left) /\ SkipsNeedDepartures
    BY DEF PassInv, PageInv
  <2>10. Cardinality(Passed(Ahead)) \in Nat /\ Cardinality(left) \in Nat
    BY PassedTypes
  <2>11. Cardinality(Passed(Ahead)') <= Cardinality(left')
    BY <2>1, <2>6, <2>9, <2>10
  <2>12. PageInv'
    BY <2>1, <2>7, <2>8, <2>9, <2>11 DEF PageInv, Sweeping, SkipsNeedDepartures
  <2> QED
    BY <2>3, <2>12 DEF PassInv
<1>4. Query => (Window = {} /\ EndSweep("swept")) \/ (Window # {} /\ ~EndSweep("swept"))
  BY DEF Query, EndSweep, GoTo, TypeOK, WorkersOK, Procs, Commands
<1> QED
  BY <1>2, <1>3, <1>4

LEMMA GetPasses == ASSUME TypeOK, TypeOK', PassInv, Get PROVE PassInv'
<1>1. /\ pc["backfill"] = "get" /\ Sweeping /\ UNCHANGED <<created, inbox, exists>>
      /\ Listed \subseteq exists
  BY DEF Get, Sweeping, account, PassInv, MailInv
<1>2. CASE page \cap exists = {} /\ EndSweep(IF more THEN "gap" ELSE "swept")
  <2>1. ~more => Cardinality(Missed) <= Cardinality(left)
    BY <1>1, <1>2, MissedPassed
  <2> QED
    BY <1>1, <1>2, <2>1, EndPasses
<1>3. CASE page \cap exists # {} /\ GoTo("backfill", "next") /\ page' = page \cap exists
           /\ UNCHANGED <<position, more, sofar, ended, sweep>>
  <2>1. pc'["backfill"] = "next"
    BY <1>3 DEF GoTo, TypeOK, WorkersOK, Procs, Commands
  <2>2. Listed' = Listed /\ Ahead' = Ahead /\ Ahead \subseteq Listed
    BY <1>1, <1>3 DEF Listed, Ahead
  <2>3. MailInv'
    BY <1>1, <1>3, <2>2 DEF PassInv, MailInv, sweep
  <2>4. Passed(Ahead)' = Passed(Ahead) /\ Passed(Listed)' = Passed(Listed)
    BY <1>1, <1>3, <2>2 DEF Passed, sweep
  <2>5. sofar' + Cardinality(page') <= Limit
    <3>1. IsFiniteSet(page) /\ Cardinality(page) \in Nat /\ sofar \in Nat
          /\ page \cap exists \in SUBSET page
      BY PassedTypes
    <3>2. Cardinality(page \cap exists) <= Cardinality(page) /\ Cardinality(page \cap exists) \in Nat
      BY <3>1, FS_Subset, FS_CardinalityType
    <3> QED
      BY <1>3, <3>1, <3>2, SweepAssumption DEF PassInv, PageInv
  <2>6. PageInv'
    BY <1>1, <1>3, <2>1, <2>4, <2>5 DEF PassInv, PageInv, Sweeping, SkipsNeedDepartures, sweep
  <2> QED
    BY <2>3, <2>6 DEF PassInv
<1> QED
  BY <1>2, <1>3 DEF Get

LEMMA TakePasses == ASSUME TypeOK, TypeOK', PassInv, TakeFromPage PROVE PassInv'
<1>1. PICK m \in page : page' = page \ {m} /\ seen' = seen \cup {m}
  BY DEF TakeFromPage
<1>2. /\ UNCHANGED <<created, inbox, exists, position, more, ended, first, left, balance>>
      /\ sofar' = sofar + 1 /\ sofar < Limit
      /\ pc["backfill"] = "next" /\ Sweeping /\ pc'["backfill"] = "gate" /\ Sweeping'
  BY DEF TakeFromPage, account, Sweeping, TypeOK, WorkersOK, Procs, Commands
<1>3. Listed' = Listed /\ Ahead' = Ahead
  BY <1>2 DEF Listed, Ahead
<1>4. MailInv'
  BY <1>2, <1>3 DEF PassInv, MailInv
<1>5. Passed(Ahead)' = Passed(Ahead) /\ Passed(Listed)' = Passed(Listed)
  BY <1>1, <1>2, <1>3 DEF Passed
<1>6. sofar' + Cardinality(page') <= Limit
  <2>1. Cardinality(page') = Cardinality(page) - 1 /\ Cardinality(page) \in Nat /\ sofar \in Nat
    BY <1>1, PassedTypes, FS_RemoveElement
  <2> QED
    BY <1>2, <2>1, SweepAssumption DEF PassInv, PageInv
<1>7. PageInv'
  BY <1>2, <1>5, <1>6 DEF PassInv, PageInv, SkipsNeedDepartures
<1> QED
  BY <1>4, <1>7 DEF PassInv

LEMMA TurnPasses == ASSUME TypeOK, TypeOK', PassInv, TurnPage PROVE PassInv'
<1>1. /\ pc["backfill"] = "next" /\ Sweeping /\ UNCHANGED <<created, inbox, exists>>
  BY DEF TurnPage, Sweeping, account
<1>2. page = {}
  <2>1. IsFiniteSet(page) /\ Cardinality(page) \in Nat /\ sofar \in Nat
    BY PassedTypes
  <2>2. sofar >= Limit => Cardinality(page) = 0
    BY <2>1, SweepAssumption DEF PassInv, PageInv
  <2> QED
    BY <2>1, <2>2, FS_EmptySet DEF TurnPage
<1>3. CASE ~more /\ EndSweep("swept")
  BY <1>1, <1>2, <1>3, MissedPassed, EndPasses
<1>4. CASE EndSweep("limit")
  BY <1>1, <1>4, EndPasses
<1>5. CASE more /\ sofar < Limit /\ GoTo("backfill", "query") /\ UNCHANGED <<paging, ended, sweep>>
  <2>1. /\ pc'["backfill"] = "query" /\ Sweeping'
        /\ UNCHANGED <<position, page, more, sofar, ended, first, left, seen, balance>>
    BY <1>5 DEF GoTo, TypeOK, WorkersOK, Procs, Commands, Sweeping, paging, sweep
  <2>2. Listed' = Listed /\ Ahead' = Ahead
    BY <1>1, <2>1 DEF Listed, Ahead
  <2>3. MailInv'
    BY <1>1, <2>1, <2>2 DEF PassInv, MailInv
  <2>4. Passed(Ahead)' = Passed(Ahead)
    BY <2>1, <2>2 DEF Passed
  <2>5. PageInv'
    BY <1>2, <1>5, <2>1, <2>4 DEF PassInv, PageInv, SkipsNeedDepartures
  <2> QED
    BY <2>3, <2>5 DEF PassInv
<1> QED
  BY <1>3, <1>4, <1>5 DEF TurnPage

LEMMA PipelinePasses ==
  ASSUME TypeOK, TypeOK', PassInv, Reclassify \/ Pipelines
  PROVE  PassInv'
<1>1. ASSUME Outside, Rest, Onward PROVE PassInv'
  <2>1. UNCHANGED <<created, inbox, exists, paging, ended, sweep>>
    BY <1>1 DEF Outside, Rest, account
  <2> QED
    BY <1>1, <2>1, StillPassed
<1>2. ASSUME NEW p \in Procs, NEW at, GoTo(p, at), p = "backfill" => pc[p] \in Pipeline,
             p = "backfill" => at \in Pipeline \cup {"next"}
      PROVE  Onward
  <2>1. p = "backfill" => pc'["backfill"] = at
    BY <1>2 DEF GoTo, TypeOK, WorkersOK
  <2>2. p # "backfill" => pc'["backfill"] = pc["backfill"]
    BY <1>2 DEF GoTo, TypeOK, WorkersOK, Procs, Commands
  <2> QED
    BY <1>2, <2>1, <2>2 DEF Onward
<1>3. ASSUME NEW p \in Procs, Rules(p), p = "backfill" => pc[p] \in Pipeline PROVE Onward
  <2>1. PICK at \in {"apply", "settle", "budget"} : GoTo(p, at)
    BY <1>3 DEF Rules
  <2>2. at \in Pipeline
    BY DEF Pipeline
  <2> QED
    BY <1>2, <1>3, <2>1, <2>2
<1>4. CASE Reclassify
  <2>1. PICK m \in Messages : StartReclassify(m)
    BY <1>4 DEF Reclassify
  <2>2. "reclassify" \in Procs /\ Rules("reclassify") /\ Outside /\ Rest
    BY <2>1 DEF StartReclassify, Procs, Commands
  <2> QED
    BY <1>1, <1>3, <2>2
<1>5. ASSUME NEW p \in Procs, Gate(p) PROVE PassInv'
  <2>1. pc[p] \in Pipeline /\ Outside /\ Rest
    BY <1>5 DEF Gate, Pipeline
  <2>2. CASE GoTo(p, "next")
    BY <1>1, <1>2, <2>1, <2>2
  <2>3. CASE Rules(p)
    BY <1>1, <1>3, <2>1, <2>3
  <2> QED
    BY <1>5, <2>2, <2>3 DEF Gate
<1>6. ASSUME NEW p \in Procs, BudgetGate(p) \/ CallAndRecord(p) PROVE PassInv'
  <2>1. PICK at \in {"call", "exhausted", "settle", "apply"} : GoTo(p, at)
    BY <1>6 DEF BudgetGate, CallAndRecord
  <2>2. pc[p] \in Pipeline /\ at \in Pipeline /\ Outside /\ Rest
    BY <1>6 DEF BudgetGate, CallAndRecord, Pipeline
  <2> QED
    BY <1>1, <1>2, <2>1, <2>2
<1>7. ASSUME NEW p \in Procs, Apply(p) PROVE PassInv'
  <2>1. /\ UNCHANGED <<created, exists, paging, ended, first, seen, balance>>
        /\ GoTo(p, "settle") /\ pc[p] \in Pipeline
    BY <1>7 DEF Apply, Pipeline
  <2>2. Onward
    BY <1>2, <2>1 DEF Pipeline
  <2>3. CASE inbox' = Without(cur[p]) /\ left' = LeftWith(cur[p])
    BY <2>1, <2>2, <2>3, LeavePasses
  <2>4. CASE UNCHANGED <<inbox, left>>
    BY <2>1, <2>2, <2>4, StillPassed DEF sweep
  <2> QED
    BY <1>7, <2>3, <2>4 DEF Apply
<1>8. ASSUME NEW p \in Procs, Settle(p) PROVE PassInv'
  <2>1. UNCHANGED <<created, inbox, exists>> /\ pc[p] \in Pipeline
    BY <1>8 DEF Settle, Outside, account, Pipeline
  <2>2. CASE p = "backfill" /\ EndSweep("budget")
    <3>1. Sweeping
      BY <2>1, <2>2 DEF Sweeping, Pipeline
    <3> QED
      BY <2>1, <2>2, <3>1, EndPasses
  <2>3. ASSUME NEW at \in {"day", "over", "next"}, GoTo(p, at), p = "backfill" => at = "next",
               UNCHANGED <<paging, ended, sweep>>
        PROVE  PassInv'
    <3>1. Onward
      BY <1>2, <2>1, <2>3
    <3> QED
      BY <2>1, <2>3, <3>1, StillPassed
  <2> QED
    BY <1>8, <2>2, <2>3 DEF Settle, AfterSettle
<1> QED
  BY <1>4, <1>5, <1>6, <1>7, <1>8 DEF Pipelines

LEMMA PassStep ==
  ASSUME TypeOK, TypeOK', PassInv, [Next]_vars
  PROVE  PassInv'
<1> USE DEF account, worker, history
<1>1. CASE UNCHANGED vars \/ Midnight
  BY <1>1, StillPassed DEF vars, Midnight, Onward
<1>2. ASSUME NEW m \in Messages, Remove(m) PROVE PassInv'
  BY <1>2, LeavePasses DEF Remove, Onward
<1>3. CASE Daemon
  <2>1. UNCHANGED <<created, inbox, exists, paging, ended, sweep>>
    BY <1>3 DEF Daemon, StartDaemon, Die, Poll, TakeFromBatch, SetCursor, CheckDailyBudgetAlert
  <2>2. pc'["backfill"] = pc["backfill"]
    BY <1>3 DEF Daemon, StartDaemon, Die, Poll, TakeFromBatch, SetCursor, CheckDailyBudgetAlert,
                TypeOK, WorkersOK, Procs, Commands
  <2> QED
    BY <2>1, <2>2, StillPassed DEF Onward
<1> QED
  BY <1>1, <1>2, <1>3, ArrivePasses, BeginPasses, QueryPasses, GetPasses, TakePasses, TurnPasses,
     PipelinePasses
  DEF Next, Mail, Backfill

-----------------------------------------------------------------------------
LEMMA Invariance == Spec => []Inv
<1>1. Init => Inv
  <2> SUFFICES ASSUME Init PROVE Inv
    OBVIOUS
  <2>1. TypeOK
    BY InitTypes
  <2>2. WorkInv
    BY DEF Init, WorkInv, Procs, Commands
  <2>3. SpendInv
    <3> SUFFICES ASSUME NEW d \in Days
                 PROVE  usage[d] + Cardinality(InCall(d)) <= Budget + Cardinality(commands)
      BY DEF SpendInv
    <3>1. InCall(d) = {} /\ usage[d] = 0
      BY DEF Init, InCall
    <3>2. Cardinality(InCall(d)) = 0 /\ Cardinality(commands) \in Nat
      BY <2>1, <2>2, <3>1, FS_EmptySet, CallersBounded
    <3> QED
      BY <3>1, <3>2, SweepAssumption
  <2>4. OnceInv
    BY DEF Init, OnceInv, Once, Procs, Commands
  <2>5. ToldInv
    BY DEF Init, ToldInv, OneAlertPerDayAndStart, NoDay, Procs, Commands
  <2> QED
    BY <2>1, <2>2, <2>3, <2>4, <2>5 DEF Inv
<1>2. Inv /\ [Next]_vars => Inv'
  BY TypeStep, WorkStep, SpendStep, OnceStep, ToldStep DEF Inv
<1> QED
  BY <1>1, <1>2, PTL DEF Spec

LEMMA PassInvariance == Spec => []PassInv
<1>1. Init => PassInv
  <2> SUFFICES ASSUME Init PROVE PassInv
    OBVIOUS
  <2>1. /\ pc["backfill"] = "off" /\ created \in Nat
        /\ inbox = [i \in 1..created |-> i] /\ exists = 1..created
        /\ first = {} /\ left = {} /\ seen = {} /\ page = {} /\ sofar = 0 /\ position = 0
        /\ ended = "no"
    BY SweepAssumption DEF Init, Procs, Commands
  <2>2. Len(inbox) = created /\ Listed = 1..created
    BY <2>1 DEF Listed
  <2>3. MailInv
    BY <2>1, <2>2 DEF MailInv
  <2>4. Passed(Ahead) = {}
    BY <2>1 DEF Passed
  <2>5. PageInv
    BY <2>1, <2>4, FS_EmptySet, SweepAssumption DEF PageInv, Sweeping, SkipsNeedDepartures
  <2> QED
    BY <2>3, <2>5 DEF PassInv
<1>2. TypeOK /\ TypeOK' /\ PassInv /\ [Next]_vars => PassInv'
  BY PassStep
<1> QED
  BY <1>1, <1>2, Invariance, PTL DEF Spec, Inv

(* Every state of the three processes and of what they share is well formed. *)
THEOREM TypeCorrect == Spec => []TypeOK
BY Invariance, PTL DEF Inv

(* However many calls the processes have under way when the budget runs out, *)
(* on whichever side of midnight they are recorded, a day is overspent by at *)
(* most one call per command that runs beside the daemon.                    *)
THEOREM OverspendIsBounded == Spec => []OverspendBounded
<1>1. Inv => OverspendBounded
  <2> SUFFICES ASSUME Inv, NEW d \in Days
               PROVE  usage[d] <= Budget + Cardinality(commands)
    BY DEF OverspendBounded
  <2>1. Cardinality(InCall(d)) \in Nat /\ Cardinality(commands) \in Nat
    BY CallersBounded DEF Inv
  <2>2. usage[d] \in Nat
    BY DEF Inv, TypeOK, MailOK
  <2> QED
    BY <2>1, <2>2, SweepAssumption DEF Inv, SpendInv
<1> QED
  BY <1>1, Invariance, PTL

(* The rows make each command act at most once on a message, and the daemon  *)
(* once more only for each death between an outcome and its row.             *)
THEOREM ActsOncePerProcess == Spec => []OncePerProcess
<1>1. Inv => OncePerProcess
  <2> SUFFICES ASSUME Inv, NEW m \in Messages
               PROVE  /\ acted["backfill"][m] <= 1
                      /\ acted["reclassify"][m] <= 1
                      /\ acted["daemon"][m] <= 1 + cutOff
    BY DEF OncePerProcess
  <2>1. /\ acted["backfill"][m] \in Nat /\ acted["daemon"][m] \in Nat
        /\ acted["reclassify"][m] \in Nat /\ cutOff \in Nat
    BY DEF Inv, TypeOK, HistoryOK, Procs, Commands
  <2>2. Once("backfill", m) \in {0, 1} /\ Once("daemon", m) \in {0, 1}
    BY DEF Once
  <2> QED
    BY <2>1, <2>2 DEF Inv, OnceInv
<1> QED
  BY <1>1, Invariance, PTL

(* A daemon that keeps running sends the daily budget alert once a day, and  *)
(* each start may send it once more.                                         *)
THEOREM AlertsOncePerDayAndStart == Spec => []OneAlertPerDayAndStart
BY Invariance, PTL DEF Inv, ToldInv

(* A sweep that reached its end has missed at most as many messages as have *)
(* left the Inbox while it ran, whatever arrives at either end of the list, *)
(* whoever removes messages, and for any page size and limit.               *)
THEOREM SweepMissesNoMore == Spec => []SkipsNeedDepartures
BY PassInvariance, PTL DEF PassInv, PageInv

=============================================================================
