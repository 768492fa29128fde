---------------------------- MODULE Triage_proofs ----------------------------
(* What module Triage keeps for every number of messages, every budget,    *)
(* every set of routes and any number of deaths.  The invariant Inductive  *)
(* is proved in layers, each of which uses the ones before it.             *)
EXTENDS Triage, TLAPS, FiniteSetTheorems

-----------------------------------------------------------------------------
(* Types, and what each stage knows of the message it works on.            *)

LEMMA NoMetaOK == NoMeta \in [row : Row, event : Event]
  BY DEF NoMeta, NoRow, Row, Event

LEMMA ExitOK ==
  ASSUME TypeOK, StageInv, NEW how \in {"stopped", "down"}, Exit(how), deaths' \in 0..MaxDeaths
  PROVE  TypeOK' /\ StageInv'
<1>1. AccountOK' /\ DatabaseOK' /\ EffectsOK'
  BY DEF TypeOK, AccountOK, DatabaseOK, EffectsOK, Exit, account, database, effects
<1>2. src' \in NoCursor..created' /\ todo' \subseteq Messages /\ cur' \in Messages \cup {NoMessage}
  BY DEF TypeOK, AccountOK, Exit, NoCursor, account
<1>3. ProcessOK'
  BY <1>2, NoMetaOK DEF TypeOK, ProcessOK, Exit, PC
<1>4. StageInv'
  BY DEF StageInv, Exit, Unmarked, Decided, Working, Up
<1> QED
  BY <1>1, <1>3, <1>4 DEF TypeOK

(* One case per action; an exit is always the same.                        *)
LEMMA TypeStep ==
  ASSUME TypeOK, StageInv, [Next]_vars
  PROVE  TypeOK' /\ StageInv'
<1> USE DEF TypeOK, AccountOK, DatabaseOK, EffectsOK, ProcessOK, StageInv, Settled, Unmarked,
            Decided, Working, Up, Messages, Row, Event, PC, NoRow, NoMeta, NoCursor,
            NoMessage, account, database, effects, process, config
<1>1. CASE Arrive
  <2>1. AccountOK' /\ created <= created'
    BY <1>1, TriageAssumption DEF Arrive
  <2> QED
    BY <1>1, <2>1 DEF Arrive
<1>2. ASSUME NEW m \in Messages, Leave(m) PROVE TypeOK' /\ StageInv'
  BY <1>2 DEF Leave
<1>3. CASE Launch
  BY <1>3, TriageAssumption DEF Launch, Boot
<1>4. CASE Restart
  BY <1>4, TriageAssumption DEF Restart, Boot
<1>5. CASE Stop
  <2>1. deaths' \in 0..MaxDeaths
    BY <1>5, TriageAssumption DEF Stop
  <2> QED
    BY <1>5, <2>1, ExitOK DEF Stop
<1>6. CASE Die
  <2>1. deaths' \in 0..MaxDeaths
    BY <1>6, TriageAssumption DEF Die
  <2> QED
    BY <1>6, <2>1, ExitOK DEF Die
<1>7. CASE Poll
  <2>1. created \in NoCursor..created
    OBVIOUS
  <2>2. Fresh \subseteq Messages
    <3>1. ASSUME NEW x \in inbox PROVE x \in Messages
      <4>1. x \in 1..created /\ created \in 0..NMessages
        BY <3>1
      <4> QED
        BY <4>1, TriageAssumption
    <3> QED
      BY <3>1 DEF Fresh
  <2>3. todo' \subseteq Messages
    BY <1>7, <2>2 DEF Poll
  <2>4. src' \in NoCursor..created' /\ pc' = "next"
    BY <1>7, <2>1 DEF Poll
  <2>5. AccountOK' /\ DatabaseOK' /\ EffectsOK'
    BY <1>7 DEF Poll
  <2>6. ProcessOK'
    BY <1>7, <2>3, <2>4 DEF Poll
  <2>7. StageInv'
    BY <2>4
  <2> QED
    BY <2>5, <2>6, <2>7
<1>8. CASE NextMessage
  BY <1>8 DEF NextMessage
<1>9. CASE SetCursor
  BY <1>9 DEF SetCursor
<1>10. CASE WriteAuditEntry
  BY <1>10 DEF WriteAuditEntry, Escalated
<1>11. CASE MarkProcessed
  BY <1>11 DEF MarkProcessed, Step, AfterMark
<1>12. CASE CheckDailyBudgetAlert
  BY <1>12 DEF CheckDailyBudgetAlert
<1>13. CASE IdempotencyGate
  BY <1>13 DEF IdempotencyGate, Step
<1>14. CASE RuleEvaluation
  <2>1. PICK r \in Routes \ {"malformed"} :
               /\ pc' \in {"escalate", "archive", "apply"}
               /\ meta' = [meta EXCEPT !.row = [tier |-> "tier1",
                                                action |-> IF r = "escalate" THEN "none" ELSE r]]
    BY <1>14 DEF RuleEvaluation
  <2>2. r \in AllRoutes
    BY TriageAssumption
  <2>3. meta' \in [row : Row, event : Event] /\ meta'.row.tier # "none"
    BY <2>1, <2>2 DEF AllRoutes
  <2> QED
    BY <1>14, <2>1, <2>3 DEF RuleEvaluation, Step
<1>15. CASE Poison
  <2>1. deaths' \in 0..MaxDeaths
    BY <1>15, TriageAssumption DEF Poison
  <2> QED
    BY <1>15, <2>1, ExitOK DEF Poison
<1>16. CASE ApplyAction
  <2>1. EffectsOK'
    BY <1>16 DEF ApplyAction
  <2> QED
    BY <1>16, <2>1 DEF ApplyAction, Step
<1>17. CASE ArchiveReceipt
  <2>1. EffectsOK'
    BY <1>17 DEF ArchiveReceipt
  <2> QED
    BY <1>17, <2>1 DEF ArchiveReceipt, Step
<1>18. CASE RecordEscalation
  BY <1>18 DEF RecordEscalation, Step
<1>19. CASE BudgetGate
  <2>1. EffectsOK'
    BY <1>19 DEF BudgetGate, BudgetExhausted
  <2> QED
    BY <1>19, <2>1 DEF BudgetGate, BudgetExhausted, Tier2Row, Step
<1>20. CASE CallLLM
  <2>1. ProcessOK'
    BY <1>20 DEF CallLLM, ToQuarantine, Tier2Row, Step
  <2>2. EffectsOK'
    BY <1>20 DEF CallLLM
  <2> QED
    BY <1>20, <2>1, <2>2 DEF CallLLM, ToQuarantine, Tier2Row, Step
<1>21. CASE RecordLLMUsage
  BY <1>21 DEF RecordLLMUsage, Step
<1>22. CASE ValidateVerdict
  BY <1>22 DEF ValidateVerdict, Step, ToQuarantine, Tier2Row
<1>23. CASE ApplyVerdictAction
  <2>1. EffectsOK'
    BY <1>23 DEF ApplyVerdictAction
  <2>2. meta' \in [row : Row, event : Event]
    BY <1>23 DEF ApplyVerdictAction, ToQuarantine, Tier2Row
  <2>3. /\ pc' \in {"audit", "act_alert", "draft"} /\ meta.row.tier # "none"
        /\ meta'.row.tier # "none"
    BY <1>23 DEF ApplyVerdictAction, ToQuarantine, Tier2Row
  <2>4. UNCHANGED <<account, database, src, todo, cur, config>>
    BY <1>23 DEF ApplyVerdictAction, Step
  <2>5. AccountOK' /\ DatabaseOK' /\ ProcessOK'
    BY <2>2, <2>3, <2>4
  <2>6. StageInv'
    BY <1>23, <2>3, <2>4 DEF ApplyVerdictAction
  <2> QED
    BY <2>1, <2>5, <2>6
<1>24. CASE AlertOfAction
  BY <1>24 DEF AlertOfAction, Step
<1>25. CASE RecordAlertOnly
  BY <1>25 DEF RecordAlertOnly, Step
<1>26. CASE CreateDraftIfWanted
  <2>1. EffectsOK'
    BY <1>26 DEF CreateDraftIfWanted
  <2> QED
    BY <1>26, <2>1 DEF CreateDraftIfWanted, Step
<1>27. CASE QuarantineAlert
  BY <1>27 DEF QuarantineAlert, Step
<1>28. CASE UNCHANGED vars
  BY <1>28 DEF vars
<1>29. QED
  BY <1>1, <1>2, <1>3, <1>4, <1>5, <1>6, <1>7, <1>8, <1>9, <1>10, <1>11, <1>12, <1>13, <1>14,
     <1>15, <1>16, <1>17, <1>18, <1>19, <1>20, <1>21, <1>22, <1>23, <1>24, <1>25, <1>26,
     <1>27, <1>28
  DEF Next, Daemon, Loop, Tier1, Tier2

(* Members of the Inbox are messages that were created.                    *)
LEMMA InboxOK ==
  ASSUME AccountOK
  PROVE  \A m \in inbox : m \in Messages /\ m \in Int /\ m <= created
<1> SUFFICES ASSUME NEW m \in inbox PROVE m \in Messages /\ m \in Int /\ m <= created
  OBVIOUS
<1>1. m \in 1..created /\ created \in 0..NMessages
  BY DEF AccountOK
<1> QED
  BY <1>1, TriageAssumption DEF Messages

-----------------------------------------------------------------------------
(* The audit log: the entry a row needs is written in the step before it.  *)
LEMMA AuditStep ==
  ASSUME TypeOK, StageInv, AuditInv, RowsAreAudited, [Next]_vars
  PROVE  AuditInv' /\ RowsAreAudited'
<1> USE DEF AuditInv, RowsAreAudited, Explains, VerdictActions, VerdictEvents, Settled, NoRow,
            StageInv, TypeOK, DatabaseOK, account, database, effects, process, config
<1>1. CASE Arrive
  BY <1>1 DEF Arrive
<1>2. ASSUME NEW m \in Messages, Leave(m) PROVE AuditInv' /\ RowsAreAudited'
  BY <1>2 DEF Leave
<1>3. CASE Launch
  BY <1>3 DEF Launch, Boot
<1>4. CASE Restart
  BY <1>4 DEF Restart, Boot
<1>5. CASE Stop
  BY <1>5 DEF Stop, Exit
<1>6. CASE Die
  BY <1>6 DEF Die, Exit
<1>7. CASE Poll
  BY <1>7 DEF Poll, Fresh
<1>8. CASE NextMessage
  BY <1>8 DEF NextMessage
<1>9. CASE SetCursor
  BY <1>9 DEF SetCursor
<1>10. CASE WriteAuditEntry
  <2>1. cur \in Messages /\ UNCHANGED <<cur, meta, processed>>
    BY <1>10 DEF WriteAuditEntry, Escalated, Working, Up, PC
  <2>2. meta.event \in audit'[cur] /\ \A m \in Messages : audit[m] \subseteq audit'[m]
    BY <1>10, <2>1 DEF WriteAuditEntry, Escalated
  <2>3. AuditInv'
    BY <1>10, <2>1, <2>2 DEF WriteAuditEntry, Escalated
  <2>4. RowsAreAudited'
    BY <2>1, <2>2
  <2> QED
    BY <2>3, <2>4
<1>11. CASE MarkProcessed
  BY <1>11 DEF MarkProcessed, Step, AfterMark
<1>12. CASE CheckDailyBudgetAlert
  BY <1>12 DEF CheckDailyBudgetAlert
<1>13. CASE IdempotencyGate
  BY <1>13 DEF IdempotencyGate, Step
<1>14. CASE RuleEvaluation
  BY <1>14 DEF RuleEvaluation, Step, Unroutable
<1>15. CASE Poison
  BY <1>15 DEF Poison, Exit
<1>16. CASE ApplyAction
  <2>1. meta'.row = meta.row /\ meta'.event = "action_applied"
    BY <1>16 DEF ApplyAction, ProcessOK
  <2>2. AuditInv'
    BY <1>16, <2>1 DEF ApplyAction
  <2> QED
    BY <1>16, <2>2 DEF ApplyAction, Step
<1>17. CASE ArchiveReceipt
  <2>1. meta'.row = meta.row /\ meta'.event = "receipt_archived"
    BY <1>17 DEF ArchiveReceipt, ProcessOK
  <2>2. AuditInv'
    BY <1>17, <2>1 DEF ArchiveReceipt
  <2> QED
    BY <1>17, <2>2 DEF ArchiveReceipt, Step
<1>18. CASE RecordEscalation
  BY <1>18 DEF RecordEscalation, Step
<1>19. CASE BudgetGate
  BY <1>19 DEF BudgetGate, BudgetExhausted, Step, Tier2Row
<1>20. CASE CallLLM
  BY <1>20 DEF CallLLM, Step, ToQuarantine, Tier2Row
<1>21. CASE RecordLLMUsage
  BY <1>21 DEF RecordLLMUsage, Step
<1>22. CASE ValidateVerdict
  <2>1. AuditInv'
    <3>1. CASE ToQuarantine
      BY <1>22, <3>1 DEF ValidateVerdict, ToQuarantine, Tier2Row
    <3>2. CASE ~ToQuarantine
      BY <1>22, <3>2 DEF ValidateVerdict, Tier2Row, ProcessOK
    <3> QED
      BY <3>1, <3>2
  <2> QED
    BY <1>22, <2>1 DEF ValidateVerdict, Step
<1>23. CASE ApplyVerdictAction
  <2>1. AuditInv'
    <3>1. CASE meta.row.action = "malformed"
      BY <1>23, <3>1 DEF ApplyVerdictAction, ToQuarantine, Tier2Row
    <3>2. CASE meta.row.action # "malformed"
      BY <1>23, <3>2 DEF ApplyVerdictAction, ProcessOK
    <3> QED
      BY <3>1, <3>2
  <2> QED
    BY <1>23, <2>1 DEF ApplyVerdictAction, Step
<1>24. CASE AlertOfAction
  BY <1>24 DEF AlertOfAction, Step
<1>25. CASE RecordAlertOnly
  BY <1>25 DEF RecordAlertOnly, Step
<1>26. CASE CreateDraftIfWanted
  BY <1>26 DEF CreateDraftIfWanted, Step
<1>27. CASE QuarantineAlert
  BY <1>27 DEF QuarantineAlert, Step
<1>28. CASE UNCHANGED vars
  BY <1>28 DEF vars
<1>29. QED
  BY <1>1, <1>2, <1>3, <1>4, <1>5, <1>6, <1>7, <1>8, <1>9, <1>10, <1>11, <1>12, <1>13, <1>14,
     <1>15, <1>16, <1>17, <1>18, <1>19, <1>20, <1>21, <1>22, <1>23, <1>24, <1>25, <1>26,
     <1>27, <1>28
  DEF Next, Daemon, Loop, Tier1, Tier2

-----------------------------------------------------------------------------
(* Repetition: a death may leave an action without its row, once.          *)
LEMMA RepeatStep ==
  ASSUME TypeOK, StageInv, AuditInv, RepeatInv, [Next]_vars
  PROVE  RepeatInv'
<1> USE DEF RepeatInv, Paid, VerdictEvents, AuditInv, Settled, StageInv, Unmarked, Decided, Working,
            Up, PC, TypeOK, EffectsOK, DatabaseOK, ProcessOK, account, database,
            effects, process, config
<1>1. CASE Arrive
  BY <1>1 DEF Arrive
<1>2. ASSUME NEW m \in Messages, Leave(m) PROVE RepeatInv'
  BY <1>2 DEF Leave
<1>3. CASE Launch
  BY <1>3 DEF Launch, Boot
<1>4. CASE Restart
  BY <1>4 DEF Restart, Boot
<1>5. CASE Stop
  BY <1>5 DEF Stop, Exit
<1>6. CASE Die
  BY <1>6 DEF Die, Exit
<1>7. CASE Poll
  BY <1>7 DEF Poll, Fresh
<1>8. CASE NextMessage
  BY <1>8 DEF NextMessage
<1>9. CASE SetCursor
  BY <1>9 DEF SetCursor
<1>10. CASE WriteAuditEntry
  BY <1>10 DEF WriteAuditEntry, Escalated
<1>11. CASE MarkProcessed
  <2>1. cur \in Messages /\ meta.row # NoRow /\ pc = "mark"
    BY <1>11 DEF MarkProcessed, NoRow
  <2>2. /\ processed' = [processed EXCEPT ![cur] = meta.row]
        /\ applied' = applied /\ drafts' = drafts /\ deaths' = deaths
    BY <1>11 DEF MarkProcessed, Step
  <2>3. \A m \in Messages : Settled(m)' <=> Settled(m) \/ m = cur
    BY <2>1, <2>2
  <2> QED
    BY <2>1, <2>2, <2>3
<1>12. CASE CheckDailyBudgetAlert
  BY <1>12 DEF CheckDailyBudgetAlert
<1>13. CASE IdempotencyGate
  BY <1>13 DEF IdempotencyGate, Step
<1>14. CASE RuleEvaluation
  BY <1>14 DEF RuleEvaluation, Step, Unroutable
<1>15. CASE Poison
  BY <1>15 DEF Poison, Exit
<1>16. CASE ApplyAction
  BY <1>16 DEF ApplyAction, Step
<1>17. CASE ArchiveReceipt
  BY <1>17 DEF ArchiveReceipt, Step
<1>18. CASE RecordEscalation
  BY <1>18 DEF RecordEscalation, Step
<1>19. CASE BudgetGate
  BY <1>19 DEF BudgetGate, BudgetExhausted, Step, Tier2Row
<1>20. CASE CallLLM
  BY <1>20 DEF CallLLM, Step, ToQuarantine, Tier2Row
<1>21. CASE RecordLLMUsage
  BY <1>21 DEF RecordLLMUsage, Step
<1>22. CASE ValidateVerdict
  BY <1>22 DEF ValidateVerdict, Step, ToQuarantine, Tier2Row
<1>23. CASE ApplyVerdictAction
  BY <1>23 DEF ApplyVerdictAction, Step, ToQuarantine, Tier2Row
<1>24. CASE AlertOfAction
  BY <1>24 DEF AlertOfAction, Step
<1>25. CASE RecordAlertOnly
  BY <1>25 DEF RecordAlertOnly, Step
<1>26. CASE CreateDraftIfWanted
  BY <1>26 DEF CreateDraftIfWanted, Step
<1>27. CASE QuarantineAlert
  BY <1>27 DEF QuarantineAlert, Step
<1>28. CASE UNCHANGED vars
  BY <1>28 DEF vars
<1>29. QED
  BY <1>1, <1>2, <1>3, <1>4, <1>5, <1>6, <1>7, <1>8, <1>9, <1>10, <1>11, <1>12, <1>13, <1>14,
     <1>15, <1>16, <1>17, <1>18, <1>19, <1>20, <1>21, <1>22, <1>23, <1>24, <1>25, <1>26,
     <1>27, <1>28
  DEF Next, Daemon, Loop, Tier1, Tier2

-----------------------------------------------------------------------------
(* The cursor: nothing falls out between the source, the batch and the     *)
(* acknowledgement.                                                        *)

(* A new process resumes where the row says.                               *)
LEMMA BootOK ==
  ASSUME TypeOK, CursorInv, CursorSafety, Boot
  PROVE  CursorInv' /\ BatchInv' /\ CursorSafety'
<1>1. cursor \in Int /\ UNCHANGED <<inbox, processed, left, cursor, baseline>>
  BY DEF Boot, account, database, TypeOK, AccountOK, DatabaseOK, NoCursor
<1>2. pc' = "loop" /\ (Checkpointed => src' = cursor)
  BY DEF Boot
<1>3. CursorInv'
  BY <1>1, <1>2 DEF CursorInv
<1>4. CursorSafety'
  BY <1>1 DEF CursorSafety, Settled, LeftByObserver
<1>5. BatchInv'
  BY <1>1, <1>2 DEF CursorSafety, CursorInv, BatchInv, Settled, LeftByObserver
<1> QED
  BY <1>3, <1>4, <1>5


(* An observing process was started with --observe.                        *)
LEMMA ModeStep == TypeOK /\ ModeInv /\ [Next]_vars => ModeInv'
<1> SUFFICES ASSUME TypeOK, ModeInv, [Next]_vars PROVE ModeInv'
  OBVIOUS
<1>1. CASE Launch \/ Restart
  BY <1>1 DEF Launch, Restart, Boot, ModeInv
<1>2. CASE \E how \in {"stopped", "down"} : Exit(how)
  BY <1>2 DEF Exit, ModeInv
<1>3. CASE UNCHANGED <<observe, left>>
  BY <1>3 DEF ModeInv
<1>5. CASE WriteAuditEntry
  BY <1>5 DEF WriteAuditEntry, ModeInv, TypeOK, ProcessOK
<1>4. QED
  BY <1>1, <1>2, <1>3, <1>5 DEF Next, vars, Daemon, Loop, Tier1, Tier2, Step, config,
     Arrive, Leave, Stop, Die, Poll, NextMessage, SetCursor, MarkProcessed,
     CheckDailyBudgetAlert, IdempotencyGate, RuleEvaluation, Poison, ApplyAction, ArchiveReceipt,
     RecordEscalation, BudgetGate, BudgetExhausted, CallLLM, RecordLLMUsage, ValidateVerdict,
     ApplyVerdictAction, AlertOfAction, RecordAlertOnly, CreateDraftIfWanted, QuarantineAlert

(* The batch is complete when the cursor moves.                            *)
LEMMA CursorStep ==
  ASSUME TypeOK, StageInv, ModeInv, CursorInv, BatchInv, CursorSafety, [Next]_vars
  PROVE  CursorInv' /\ BatchInv' /\ CursorSafety'
<1> USE DEF CursorInv, BatchInv, CursorSafety, Settled, LeftByObserver, NoRow, StageInv, Unmarked,
            Decided, Working, Up, PC, TypeOK, AccountOK, DatabaseOK, ProcessOK,
            NoCursor, account, database, effects, process, config
<1>1. CASE Arrive
  <2>1. UNCHANGED <<database, process, config>> /\ \A m \in inbox' : m \in inbox \/ m = created + 1
    BY <1>1 DEF Arrive
  <2>2. cursor <= created /\ src <= created /\ created \in Nat /\ cursor \in Int /\ src \in Int
    OBVIOUS
  <2>3. \A m \in inbox' : m <= src \/ m <= cursor => m \in inbox
    BY <2>1, <2>2
  <2>4. BatchInv'
    BY <2>1, <2>3
  <2>5. CursorSafety'
    BY <2>1, <2>3
  <2> QED
    BY <2>1, <2>4, <2>5
<1>2. ASSUME NEW m \in Messages, Leave(m) PROVE CursorInv' /\ BatchInv' /\ CursorSafety'
  BY <1>2 DEF Leave
<1>3. CASE Launch
  BY <1>3, BootOK DEF Launch
<1>4. CASE Restart
  BY <1>4, BootOK DEF Restart
<1>5. CASE Stop
  BY <1>5 DEF Stop, Exit
<1>6. CASE Die
  BY <1>6 DEF Die, Exit
<1>7. CASE Poll
  <2>1. cursor <= created /\ created \in Nat /\ cursor \in Int /\ baseline \in Int
    OBVIOUS
  <2>2. CursorInv' /\ CursorSafety'
    <3>1. UNCHANGED <<inbox, cursor, baseline, processed, left>>
      BY <1>7 DEF Poll
    <3>2. CursorInv'
      BY <1>7, <2>1, <3>1 DEF Poll
    <3>3. CursorSafety'
      BY <3>1
    <3> QED
      BY <3>2, <3>3
  <2>3. BatchInv'
    <3> SUFFICES ASSUME Checkpointed, baseline # NoCursor, NEW m \in inbox, baseline < m
                 PROVE  Settled(m) \/ LeftByObserver(m) \/ m \in todo'
      BY <1>7 DEF Poll
    <3>1. src = cursor /\ cursor # NoCursor
      BY <1>7 DEF Poll
    <3>2. CASE m <= cursor
      BY <3>1, <3>2
    <3>3. CASE ~(m <= cursor)
      <4>1. m \in Int /\ m <= created /\ cursor < m
        BY <2>1, <3>3, InboxOK
      <4> QED
        BY <1>7, <3>1, <4>1 DEF Poll, Fresh
    <3> QED
      BY <3>2, <3>3
  <2> QED
    BY <2>2, <2>3
<1>8. CASE NextMessage
  BY <1>8 DEF NextMessage
<1>9. CASE SetCursor
  <2>1. cursor \in Int /\ baseline \in Int /\ src \in Int /\ NoCursor <= cursor
    OBVIOUS
  <2>2. pc = "next" /\ pc' = "loop" /\ todo = {} /\ pc \in Up /\ pc \notin Working
    BY <1>9 DEF SetCursor
  <2>3. UNCHANGED <<inbox, processed, left, src>>
    BY <1>9 DEF SetCursor
  <2>4. CASE Checkpointed
    <3>1. cursor' = src /\ cursor <= src
      BY <1>9, <2>2, <2>4 DEF SetCursor
    <3>2. baseline' = IF baseline = NoCursor THEN src ELSE baseline
      BY <1>9, <3>1 DEF SetCursor
    <3>3. baseline \in Int /\ baseline <= cursor /\ (cursor = NoCursor <=> baseline = NoCursor)
      BY <2>1
    <3>4. CursorInv'
      BY <2>1, <2>2, <2>3, <2>4, <3>1, <3>2, <3>3
    <3>5. ASSUME NEW m \in inbox, baseline' < m, m <= src PROVE Settled(m) \/ LeftByObserver(m)
      <4>1. m \in Int /\ baseline # NoCursor /\ baseline < m
        BY <2>1, <3>2, <3>5, InboxOK
      <4> QED
        BY <2>2, <2>4, <3>5, <4>1
    <3> QED
      BY <2>2, <2>3, <3>1, <3>4, <3>5
  <2>5. CASE ~Checkpointed
    BY <1>9, <2>1, <2>2, <2>5 DEF SetCursor
  <2> QED
    BY <2>4, <2>5
<1>10. CASE WriteAuditEntry
  <2>1. /\ cur \in Messages /\ pc = "audit" /\ pc \in Working
        /\ pc' \in Up \ {"loop"} /\ pc \in Up \ {"loop"}
    BY <1>10 DEF WriteAuditEntry, Escalated
  <2>3. UNCHANGED <<inbox, created, processed, cursor, baseline, src, todo, cur>>
    BY <1>10 DEF WriteAuditEntry
  <2>4. left \subseteq left'
    BY <1>10 DEF WriteAuditEntry
  <2>5. pc' \notin Working => LeftByObserver(cur)'
    BY <1>10 DEF WriteAuditEntry, Escalated
  <2>6. CursorInv'
    BY <2>1, <2>3
  <2>7. BatchInv'
    BY <2>1, <2>3, <2>4, <2>5
  <2>8. CursorSafety'
    BY <2>3, <2>4
  <2> QED
    BY <2>6, <2>7, <2>8
<1>11. CASE MarkProcessed
  <2>1. cur \in Messages /\ meta.row # NoRow /\ pc = "mark"
    BY <1>11 DEF MarkProcessed
  <2>2. /\ processed' = [processed EXCEPT ![cur] = meta.row]
        /\ UNCHANGED <<inbox, left, cursor, baseline, src, todo, cur>>
    BY <1>11 DEF MarkProcessed, Step
  <2>3. pc' \in Up \ {"loop"} /\ pc \in Up \ {"loop"}
    BY <1>11 DEF MarkProcessed, AfterMark
  <2>4. Settled(cur)' /\ \A m \in inbox : Settled(m) => Settled(m)'
    BY <2>1, <2>2, InboxOK
  <2>5. CursorInv'
    BY <2>2, <2>3
  <2>6. BatchInv'
    BY <2>2, <2>3, <2>4
  <2>7. CursorSafety'
    BY <2>2, <2>4
  <2> QED
    BY <2>5, <2>6, <2>7
<1>12. CASE CheckDailyBudgetAlert
  BY <1>12 DEF CheckDailyBudgetAlert
<1>13. CASE IdempotencyGate
  BY <1>13 DEF IdempotencyGate, Step
<1>14. CASE RuleEvaluation
  BY <1>14 DEF RuleEvaluation, Step, Unroutable
<1>15. CASE Poison
  BY <1>15 DEF Poison, Exit
<1>16. CASE ApplyAction
  BY <1>16 DEF ApplyAction, Step
<1>17. CASE ArchiveReceipt
  BY <1>17 DEF ArchiveReceipt, Step
<1>18. CASE RecordEscalation
  BY <1>18 DEF RecordEscalation, Step
<1>19. CASE BudgetGate
  BY <1>19 DEF BudgetGate, BudgetExhausted, Step, Tier2Row
<1>20. CASE CallLLM
  BY <1>20 DEF CallLLM, Step, ToQuarantine, Tier2Row
<1>21. CASE RecordLLMUsage
  BY <1>21 DEF RecordLLMUsage, Step
<1>22. CASE ValidateVerdict
  BY <1>22 DEF ValidateVerdict, Step, ToQuarantine, Tier2Row
<1>23. CASE ApplyVerdictAction
  BY <1>23 DEF ApplyVerdictAction, Step, ToQuarantine, Tier2Row
<1>24. CASE AlertOfAction
  BY <1>24 DEF AlertOfAction, Step
<1>25. CASE RecordAlertOnly
  BY <1>25 DEF RecordAlertOnly, Step
<1>26. CASE CreateDraftIfWanted
  BY <1>26 DEF CreateDraftIfWanted, Step
<1>27. CASE QuarantineAlert
  BY <1>27 DEF QuarantineAlert, Step
<1>28. CASE UNCHANGED vars
  BY <1>28 DEF vars
<1>29. QED
  BY <1>1, <1>2, <1>3, <1>4, <1>5, <1>6, <1>7, <1>8, <1>9, <1>10, <1>11, <1>12, <1>13, <1>14,
     <1>15, <1>16, <1>17, <1>18, <1>19, <1>20, <1>21, <1>22, <1>23, <1>24, <1>25, <1>26,
     <1>27, <1>28
  DEF Next, Daemon, Loop, Tier1, Tier2

-----------------------------------------------------------------------------
(* Nothing dropped silently: what Tier 2 will write down was told first, or *)
(* is a quarantine, whose alert is the next step after the row.            *)
TellInv ==
    /\ pc = "escalate" => meta.row.tier = "tier1"
    /\ pc = "draft" => cur \in alerted \/ meta.event = "tier2_action_applied"
    /\ pc \in {"audit", "mark"} /\ meta.row.tier = "tier2" =>
          \/ cur \in alerted \/ meta.event = "tier2_action_applied"
          \/ meta.event = "tier2_quarantined" /\ meta.row.action = "quarantined"

LEMMA TellStep ==
  ASSUME TypeOK, StageInv, AuditInv, TellInv, NotDroppedSilently, [Next]_vars
  PROVE  TellInv' /\ NotDroppedSilently'
<1> USE DEF TellInv, NotDroppedSilently, AuditInv, StageInv, Unmarked, Decided, Working,
            Up, PC, TypeOK, EffectsOK, DatabaseOK, ProcessOK, account, database,
            effects, process, config
<1>1. CASE Arrive
  BY <1>1 DEF Arrive
<1>2. ASSUME NEW m \in Messages, Leave(m) PROVE TellInv' /\ NotDroppedSilently'
  BY <1>2 DEF Leave
<1>3. CASE Launch
  BY <1>3 DEF Launch, Boot
<1>4. CASE Restart
  BY <1>4 DEF Restart, Boot
<1>5. CASE Stop
  BY <1>5 DEF Stop, Exit
<1>6. CASE Die
  BY <1>6 DEF Die, Exit
<1>7. CASE Poll
  BY <1>7 DEF Poll, Fresh
<1>8. CASE NextMessage
  BY <1>8 DEF NextMessage
<1>9. CASE SetCursor
  BY <1>9 DEF SetCursor
<1>10. CASE WriteAuditEntry
  BY <1>10 DEF WriteAuditEntry, Escalated
<1>11. CASE MarkProcessed
  BY <1>11 DEF MarkProcessed, Step, AfterMark
<1>12. CASE CheckDailyBudgetAlert
  BY <1>12 DEF CheckDailyBudgetAlert
<1>13. CASE IdempotencyGate
  BY <1>13 DEF IdempotencyGate, Step
<1>14. CASE RuleEvaluation
  BY <1>14 DEF RuleEvaluation, Step, Unroutable
<1>15. CASE Poison
  BY <1>15 DEF Poison, Exit
<1>16. CASE ApplyAction
  BY <1>16 DEF ApplyAction, Step
<1>17. CASE ArchiveReceipt
  BY <1>17 DEF ArchiveReceipt, Step
<1>18. CASE RecordEscalation
  BY <1>18 DEF RecordEscalation, Step
<1>19. CASE BudgetGate
  <2>1. UNCHANGED <<processed, audit, cur, deaths>> /\ alerted \subseteq alerted' /\ pc = "tier2"
    BY <1>19 DEF BudgetGate, BudgetExhausted, Step
  <2>2. pc' = "llm" \/ (pc' = "audit" /\ cur \in alerted')
    BY <1>19 DEF BudgetGate, BudgetExhausted
  <2>3. TellInv'
    BY <2>1, <2>2
  <2>4. NotDroppedSilently'
    BY <2>1
  <2> QED
    BY <2>3, <2>4
<1>20. CASE CallLLM
  BY <1>20 DEF CallLLM, Step, ToQuarantine, Tier2Row
<1>21. CASE RecordLLMUsage
  BY <1>21 DEF RecordLLMUsage, Step
<1>22. CASE ValidateVerdict
  BY <1>22 DEF ValidateVerdict, Step, ToQuarantine, Tier2Row
<1>23. CASE ApplyVerdictAction
  BY <1>23 DEF ApplyVerdictAction, Step, ToQuarantine, Tier2Row
<1>24. CASE AlertOfAction
  BY <1>24 DEF AlertOfAction, Step
<1>25. CASE RecordAlertOnly
  BY <1>25 DEF RecordAlertOnly, Step
<1>26. CASE CreateDraftIfWanted
  BY <1>26 DEF CreateDraftIfWanted, Step
<1>27. CASE QuarantineAlert
  BY <1>27 DEF QuarantineAlert, Step
<1>28. CASE UNCHANGED vars
  BY <1>28 DEF vars
<1>29. QED
  BY <1>1, <1>2, <1>3, <1>4, <1>5, <1>6, <1>7, <1>8, <1>9, <1>10, <1>11, <1>12, <1>13, <1>14,
     <1>15, <1>16, <1>17, <1>18, <1>19, <1>20, <1>21, <1>22, <1>23, <1>24, <1>25, <1>26,
     <1>27, <1>28
  DEF Next, Daemon, Loop, Tier1, Tier2

-----------------------------------------------------------------------------
(* The budget: one task checks it and records the call, so a check stands. *)
(* A call that was not recorded is being recorded, or on its way to a      *)
(* quarantine, or quarantined with its row, or was cut off by a death.     *)
Pending == pc = "usage" \/ (pc = "audit" /\ meta.event = "tier2_quarantined")
Counted == {m \in Quarantined : Settled(m) \/ (m = cur /\ pc = "mark")}
CallInv ==
    /\ usage <= Budget /\ (pc \in {"llm", "usage"} => usage < Budget)
    /\ calls <= usage + deaths + Cardinality(Counted) + (IF Pending THEN 1 ELSE 0)

(* Sets of messages can be counted.                                        *)
LEMMA CountedOK ==
  ASSUME NEW S \in SUBSET Messages
  PROVE  IsFiniteSet(S) /\ Cardinality(S) \in Nat
<1>1. IsFiniteSet(Messages)
  BY FS_Interval, TriageAssumption DEF Messages
<1> QED
  BY <1>1, FS_Subset, FS_CardinalityType

LEMMA Grows ==
  ASSUME NEW S \in SUBSET Messages, NEW T \in SUBSET Messages
  PROVE  /\ S \subseteq T => Cardinality(S) <= Cardinality(T)
         /\ \A m : S \subseteq T \cup {m} => Cardinality(S) <= Cardinality(T) + 1
         /\ \A m \in T : m \notin S /\ S \subseteq T => Cardinality(S) + 1 <= Cardinality(T)
<1>1. IsFiniteSet(S) /\ IsFiniteSet(T) /\ Cardinality(S) \in Nat /\ Cardinality(T) \in Nat
  BY CountedOK
<1>2. S \subseteq T => Cardinality(S) <= Cardinality(T)
  BY <1>1, FS_Subset
<1>3. ASSUME NEW m, S \subseteq T \cup {m} PROVE Cardinality(S) <= Cardinality(T) + 1
  <2>1. /\ IsFiniteSet(T \cup {m})
        /\ Cardinality(T \cup {m}) = IF m \in T THEN Cardinality(T) ELSE Cardinality(T) + 1
    BY <1>1, FS_AddElement
  <2>2. Cardinality(S) <= Cardinality(T \cup {m})
    BY <1>3, <2>1, FS_Subset
  <2> QED
    BY <1>1, <2>1, <2>2
<1>4. ASSUME NEW m \in T, m \notin S, S \subseteq T PROVE Cardinality(S) + 1 <= Cardinality(T)
  <2>1. IsFiniteSet(S \cup {m}) /\ Cardinality(S \cup {m}) = Cardinality(S) + 1
    BY <1>1, <1>4, FS_AddElement
  <2>2. Cardinality(S \cup {m}) <= Cardinality(T)
    BY <1>1, <1>4, <2>1, FS_Subset
  <2> QED
    BY <2>1, <2>2
<1> QED
  BY <1>2, <1>3, <1>4

LEMMA NumbersOK ==
  ASSUME TypeOK
  PROVE  /\ Counted \in SUBSET Messages /\ Cardinality(Counted) \in Nat
         /\ calls \in Nat /\ usage \in Nat /\ deaths \in Nat /\ Budget \in Nat
<1>1. Counted \in SUBSET Messages
  BY DEF Counted, Quarantined
<1> QED
  BY <1>1, CountedOK, TriageAssumption DEF TypeOK, DatabaseOK, EffectsOK, ProcessOK

(* A step that does not touch rows, log or calls, and starts none.         *)
LEMMA CallKept ==
  ASSUME TypeOK, TypeOK', CallInv, Counted \subseteq Counted', UNCHANGED <<usage, calls>>,
         deaths <= deaths', ~Pending \/ deaths + 1 <= deaths',
         pc' \in {"llm", "usage"} => usage < Budget
  PROVE  CallInv'
<1>1. Counted \in SUBSET Messages /\ Counted' \in SUBSET Messages
  BY DEF Counted, Quarantined
<1>2. /\ Cardinality(Counted) <= Cardinality(Counted') /\ Cardinality(Counted') \in Nat
      /\ deaths' \in Nat
  BY <1>1, CountedOK, Grows DEF TypeOK, ProcessOK
<1> QED
  BY <1>1, <1>2, NumbersOK DEF CallInv

Aside == \/ Launch \/ Restart \/ Stop \/ Poll \/ NextMessage \/ SetCursor \/ CheckDailyBudgetAlert
         \/ IdempotencyGate \/ RuleEvaluation \/ Poison \/ ApplyAction \/ ArchiveReceipt
         \/ RecordEscalation \/ BudgetGate \/ ValidateVerdict \/ ApplyVerdictAction
         \/ AlertOfAction \/ RecordAlertOnly \/ CreateDraftIfWanted \/ QuarantineAlert

LEMMA AsideStep ==
  ASSUME TypeOK, Aside
  PROVE  /\ UNCHANGED <<processed, audit, usage, calls>> /\ deaths <= deaths'
         /\ pc \notin {"usage", "audit", "mark"} /\ pc' # "usage"
         /\ pc' = "llm" => usage < Budget
<1>1. deaths \in Int
  BY DEF TypeOK, ProcessOK
<1> QED
  BY <1>1
     DEF Aside, Launch, Restart, Boot, Stop, Exit, Poll, NextMessage, SetCursor,
         CheckDailyBudgetAlert, IdempotencyGate, RuleEvaluation, Poison, ApplyAction,
         ArchiveReceipt, RecordEscalation, BudgetGate, BudgetExhausted, ValidateVerdict,
         ApplyVerdictAction, AlertOfAction, RecordAlertOnly, CreateDraftIfWanted,
         QuarantineAlert, ToQuarantine, Step, database, effects, config

LEMMA CallStep ==
  ASSUME TypeOK, StageInv, CallInv, [Next]_vars
  PROVE  CallInv'
<1>0. TypeOK' /\ Counted \in SUBSET Messages /\ Counted' \in SUBSET Messages
  BY TypeStep DEF Counted, Quarantined
<1>1. CASE Arrive \/ (\E m \in Messages : Leave(m)) \/ UNCHANGED vars
  <2>1. UNCHANGED <<processed, audit, usage, calls, deaths, pc, cur, meta>>
    BY <1>1 DEF Arrive, Leave, vars, database, effects, process, config
  <2> QED
    BY <2>1 DEF CallInv, Counted, Quarantined, Settled, Pending
<1>2. CASE Aside
  <2>1. /\ UNCHANGED <<processed, audit, usage, calls>> /\ deaths <= deaths'
        /\ pc \notin {"usage", "audit", "mark"} /\ pc' # "usage"
        /\ pc' = "llm" => usage < Budget
    BY <1>2, AsideStep
  <2>2. Counted \subseteq Counted' /\ ~Pending
    BY <2>1 DEF Counted, Quarantined, Settled, Pending
  <2> QED
    BY <1>0, <2>1, <2>2, CallKept
<1>3. CASE CallLLM
  <2>1. /\ UNCHANGED <<processed, audit, usage, deaths, cur>> /\ pc = "llm"
        /\ calls' \in {calls, calls + 1} /\ pc' \in {"usage", "audit"}
        /\ pc' = "audit" => meta'.event = "tier2_quarantined"
    BY <1>3 DEF CallLLM, ToQuarantine, Step, config
  <2>2. Counted \subseteq Counted' /\ ~Pending /\ Pending'
    BY <2>1 DEF Counted, Quarantined, Settled, Pending
  <2>3. Cardinality(Counted) <= Cardinality(Counted') /\ Cardinality(Counted') \in Nat
    BY <1>0, <2>2, CountedOK, Grows
  <2> QED
    BY <2>1, <2>2, <2>3, NumbersOK DEF CallInv
<1>4. CASE RecordLLMUsage
  <2>1. /\ UNCHANGED <<processed, audit, calls, deaths, cur>>
        /\ pc = "usage" /\ pc' = "verdict" /\ usage' = usage + 1
    BY <1>4 DEF RecordLLMUsage, Step, effects, config
  <2>2. Counted \subseteq Counted' /\ Pending /\ ~Pending'
    BY <2>1 DEF Counted, Quarantined, Settled, Pending
  <2>3. Cardinality(Counted) <= Cardinality(Counted') /\ Cardinality(Counted') \in Nat
    BY <1>0, <2>2, CountedOK, Grows
  <2> QED
    BY <2>1, <2>2, <2>3, NumbersOK DEF CallInv
<1>5. CASE WriteAuditEntry
  <2>1. /\ UNCHANGED <<processed, usage, calls, deaths, cur>> /\ pc = "audit"
        /\ audit' = [audit EXCEPT ![cur] = @ \cup {meta.event}]
        /\ pc' \in {"mark", "next", "tier2"}
        /\ meta.event = "tier2_quarantined" => pc' = "mark"
    BY <1>5 DEF WriteAuditEntry, Escalated, effects, config
  <2>2. cur \in Messages /\ ~Settled(cur)
    BY <2>1 DEF StageInv, Unmarked, Working, Up, PC
  <2>3. \A m \in Messages : audit[m] \subseteq audit'[m]
    BY <2>1, <2>2 DEF TypeOK, DatabaseOK
  <2>4. Counted \subseteq Counted' /\ ~Pending'
    BY <2>1, <2>3 DEF Counted, Quarantined, Settled, Pending
  <2>5. CASE Pending
    <3>1. meta.event = "tier2_quarantined"
      BY <2>1, <2>5 DEF Pending
    <3>2. "tier2_quarantined" \in audit'[cur]
      BY <2>1, <2>2, <3>1 DEF TypeOK, DatabaseOK
    <3>3. cur \in Counted' /\ cur \notin Counted
      BY <2>1, <2>2, <3>1, <3>2 DEF Counted, Quarantined
    <3>4. Cardinality(Counted) + 1 <= Cardinality(Counted') /\ Cardinality(Counted') \in Nat
      BY <1>0, <2>4, <3>3, CountedOK, Grows
    <3> QED
      BY <2>1, <2>4, <2>5, <3>4, NumbersOK DEF CallInv
  <2>6. CASE ~Pending
    BY <1>0, <2>1, <2>4, <2>6, CallKept, NumbersOK
  <2> QED
    BY <2>5, <2>6
<1>6. CASE MarkProcessed
  <2>1. /\ UNCHANGED <<audit, usage, calls, deaths, cur>> /\ pc = "mark"
        /\ processed' = [processed EXCEPT ![cur] = meta.row]
        /\ pc' \in {"next", "quarantine_alert", "day"}
    BY <1>6 DEF MarkProcessed, AfterMark, Step, effects, config
  <2>2. cur \in Messages /\ meta.row # NoRow
    BY <2>1 DEF StageInv, Decided, Working, Up, PC, NoRow
  <2>3. \A m \in Messages : Settled(m) \/ m = cur => Settled(m)'
    BY <2>1, <2>2 DEF Settled, TypeOK, DatabaseOK
  <2>4. Counted \subseteq Counted' /\ ~Pending
    BY <2>1, <2>3 DEF Counted, Quarantined, Pending
  <2> QED
    BY <1>0, <2>1, <2>4, CallKept, NumbersOK
<1>7. CASE Die
  <2>1. /\ UNCHANGED <<processed, audit, usage, calls>> /\ deaths' = deaths + 1
        /\ pc' = "down"
    BY <1>7 DEF Die, Exit, database, effects
  <2>2. CASE pc = "mark"
    <3>1. Counted \subseteq Counted' \cup {cur} /\ ~Pending /\ ~Pending'
      BY <2>1, <2>2 DEF Counted, Quarantined, Settled, Pending
    <3>2. Cardinality(Counted) <= Cardinality(Counted') + 1 /\ Cardinality(Counted') \in Nat
      BY <1>0, <3>1, CountedOK, Grows
    <3> QED
      BY <2>1, <3>1, <3>2, NumbersOK DEF CallInv
  <2>3. CASE pc # "mark"
    <3>1. Counted \subseteq Counted'
      BY <2>1, <2>3 DEF Counted, Quarantined, Settled
    <3> QED
      BY <1>0, <2>1, <3>1, CallKept, NumbersOK
  <2> QED
    BY <2>2, <2>3
<1> QED
  BY <1>1, <1>2, <1>3, <1>4, <1>5, <1>6, <1>7 DEF Next, Daemon, Loop, Tier1, Tier2, Aside

-----------------------------------------------------------------------------
(* The invariant, put together.                                            *)

(* It holds at first, and every step keeps it.                             *)
LEMMA Initially == Init => TypeOK /\ Inductive
<1> SUFFICES ASSUME Init PROVE TypeOK /\ Inductive
  OBVIOUS
<1>1. AccountOK /\ DatabaseOK /\ EffectsOK
  BY TriageAssumption DEF Init, AccountOK, DatabaseOK, EffectsOK, NoCursor, NoRow,
     Row, Event, Messages
<1>2. ProcessOK
  <2>1. src \in NoCursor..created /\ deaths \in 0..MaxDeaths
    BY <1>1, TriageAssumption DEF Init, AccountOK, NoCursor
  <2> QED
    BY <2>1, NoMetaOK DEF Init, ProcessOK, PC
<1>3. \A m \in Messages : ~Settled(m)
  BY DEF Init, Settled
<1>4. RowsAreAudited /\ RepeatInv
  BY <1>3 DEF Init, RowsAreAudited, RepeatInv
<1>5. ModeInv /\ CursorInv /\ BatchInv /\ CursorSafety
  <2>1. pc \notin Up /\ pc # "loop" /\ cursor = -1 /\ baseline = -1 /\ observe = FALSE /\ left = {}
    BY DEF Init, Up, NoCursor
  <2>2. ModeInv /\ BatchInv /\ CursorSafety
    BY <2>1 DEF ModeInv, BatchInv, CursorSafety, NoCursor
  <2>3. CursorInv
    BY <2>1 DEF CursorInv, NoCursor
  <2> QED
    BY <2>2, <2>3
<1>6. StageInv /\ AuditInv
  BY DEF Init, StageInv, AuditInv, Up, Working, Unmarked, Decided
<1> QED
  BY <1>1, <1>2, <1>4, <1>5, <1>6 DEF TypeOK, Inductive

LEMMA Preserved == TypeOK /\ Inductive /\ [Next]_vars => (TypeOK /\ Inductive)'
  BY TypeStep, AuditStep, RepeatStep, ModeStep, CursorStep DEF Inductive

(* The variables have their types in every reachable state.                *)
THEOREM TypeCorrect == Spec => []TypeOK
<1>1. Spec => [](TypeOK /\ Inductive)
  BY Initially, Preserved, PTL DEF Spec
<1> QED
  BY <1>1, PTL

(* The inductive invariant, which everything below is read off from.       *)
THEOREM InductiveHolds == Spec => []Inductive
<1>1. Spec => [](TypeOK /\ Inductive)
  BY Initially, Preserved, PTL DEF Spec
<1> QED
  BY <1>1, PTL

(* set_cursor is only reached when the batch is done, the source resumes   *)
(* where the row says, and nothing in between loses a message: the         *)
(* persisted cursor never passes a message that is in the Inbox and is     *)
(* neither settled nor left by an observer, whenever the process dies.     *)
THEOREM CursorNeverPasses == Spec => []CursorSafety
<1>1. Inductive => CursorSafety
  BY DEF Inductive
<1> QED
  BY <1>1, InductiveHolds, PTL

(* WriteAuditEntryFilter runs before MarkProcessedFilter in both tiers, so *)
(* every row is told of in the audit log, by the entry of the same outcome. *)
THEOREM RowsAlwaysAudited == Spec => []RowsAreAudited
<1>1. Inductive => RowsAreAudited
  BY DEF Inductive
<1> QED
  BY <1>1, InductiveHolds, PTL

(* A mutation or a draft is repeated for one message only by a process     *)
(* that died after it and before the row.                                  *)
THEOREM RepeatsBounded == Spec => []RepeatsNeedDeaths
<1>1. TypeOK /\ Inductive => RepeatsNeedDeaths
  BY DEF Inductive, RepeatInv, RepeatsNeedDeaths, TypeOK, EffectsOK, ProcessOK
<1> QED
  BY <1>1, TypeCorrect, InductiveHolds, PTL

-----------------------------------------------------------------------------
(* Tier 2 tells a human before it writes that nothing was done; only the   *)
(* alert of a quarantine comes after the row, and only a death loses it.   *)
THEOREM NothingDropped == Spec => []NotDroppedSilently
<1>1. Init => TellInv /\ NotDroppedSilently
  BY DEF Init, TellInv, NotDroppedSilently, NoRow
<1>2. TypeOK /\ Inductive /\ TellInv /\ NotDroppedSilently /\ [Next]_vars
        => (TellInv /\ NotDroppedSilently)'
  BY TellStep DEF Inductive
<1> QED
  BY <1>1, <1>2, TypeCorrect, InductiveHolds, PTL DEF Spec

(* BudgetGateFilter and RecordLLMUsageFilter: recorded calls stay within   *)
(* the budget, and each that is not recorded has a quarantine or a death.  *)
THEOREM BudgetIsKept == Spec => []BudgetHolds
<1>1. Init => CallInv
  <2> SUFFICES ASSUME Init PROVE CallInv
    OBVIOUS
  <2>1. TypeOK
    BY Initially
  <2> QED
    BY <2>1, NumbersOK DEF Init, CallInv
<1>2. TypeOK /\ Inductive /\ CallInv /\ [Next]_vars => CallInv'
  BY CallStep DEF Inductive
<1>3. TypeOK /\ CallInv => BudgetHolds
  <2> SUFFICES ASSUME TypeOK, CallInv PROVE BudgetHolds
    OBVIOUS
  <2>1. Counted \subseteq Quarantined /\ Quarantined \in SUBSET Messages
    BY DEF Counted, Quarantined
  <2>2. Cardinality(Counted) <= Cardinality(Quarantined) /\ Cardinality(Quarantined) \in Nat
    BY <2>1, NumbersOK, Grows, CountedOK
  <2> QED
    BY <2>2, NumbersOK DEF CallInv, BudgetHolds, Pending
<1> QED
  BY <1>1, <1>2, <1>3, TypeCorrect, InductiveHolds, PTL DEF Spec

-----------------------------------------------------------------------------
(* The idempotency gate, and the promise.                                  *)

(* What an action may do to the mail and to the rows.                      *)
LEMMA ActStep ==
  ASSUME TypeOK, StageInv,
         ApplyAction \/ ArchiveReceipt \/ ApplyVerdictAction \/ CreateDraftIfWanted
  PROVE  /\ cur \in Messages /\ ~Settled(cur)
         /\ UNCHANGED <<created, inbox, cursor, baseline, processed, left, calls>>
         /\ \/ UNCHANGED <<applied, drafts>>
            \/ applied' = [applied EXCEPT ![cur] = @ + 1] /\ drafts' = drafts
            \/ applied' = applied /\ drafts' = [drafts EXCEPT ![cur] = @ + 1]
<1>1. pc \in Unmarked /\ pc \in Working
  BY DEF ApplyAction, ArchiveReceipt, ApplyVerdictAction, CreateDraftIfWanted,
         Unmarked, Working, Up, PC
<1>2. UNCHANGED <<created, inbox, cursor, baseline, processed, left, calls>>
  BY DEF ApplyAction, ArchiveReceipt, ApplyVerdictAction, CreateDraftIfWanted,
         Step, account, config
<1>3. \/ UNCHANGED <<applied, drafts>>
      \/ applied' = [applied EXCEPT ![cur] = @ + 1] /\ drafts' = drafts
      \/ applied' = applied /\ drafts' = [drafts EXCEPT ![cur] = @ + 1]
  BY DEF ApplyAction, ArchiveReceipt, ApplyVerdictAction, CreateDraftIfWanted
<1> QED
  BY <1>1, <1>2, <1>3 DEF StageInv

Doing == ApplyAction \/ ArchiveReceipt \/ ApplyVerdictAction \/ CreateDraftIfWanted
Leaving == Stop \/ Die \/ Poison
Thinking == \/ Launch \/ Restart \/ Poll \/ NextMessage \/ CheckDailyBudgetAlert
            \/ IdempotencyGate \/ RuleEvaluation \/ RecordEscalation
            \/ BudgetGate \/ CallLLM \/ RecordLLMUsage \/ ValidateVerdict
            \/ AlertOfAction \/ RecordAlertOnly \/ QuarantineAlert

(* Everything else the process does leaves mail, rows and cursor alone.    *)
LEMMA ThinkingStep ==
  ASSUME Thinking
  PROVE  UNCHANGED <<created, inbox, cursor, baseline, processed, left, applied, drafts>>
  BY DEF Thinking, Launch, Restart, Boot, Poll, NextMessage, CheckDailyBudgetAlert,
         IdempotencyGate, RuleEvaluation, RecordEscalation, BudgetGate, CallLLM,
         RecordLLMUsage, ValidateVerdict, AlertOfAction, RecordAlertOnly, QuarantineAlert,
         BudgetExhausted, ToQuarantine, Step, account, database, effects, config

(* The LLM is called by CallLLM alone, for a message without a row.        *)
LEMMA CallingStep ==
  ASSUME StageInv, Thinking
  PROVE  UNCHANGED calls \/ ~Settled(cur)
<1>1. CASE CallLLM
  BY <1>1 DEF CallLLM, StageInv, Unmarked, Working, Up, PC
<1>2. CASE ~CallLLM
  BY <1>2 DEF Thinking, Launch, Restart, Boot, Poll, NextMessage, CheckDailyBudgetAlert,
         IdempotencyGate, RuleEvaluation, RecordEscalation, BudgetGate,
         RecordLLMUsage, ValidateVerdict, AlertOfAction, RecordAlertOnly, QuarantineAlert,
         BudgetExhausted, effects
<1> QED
  BY <1>1, <1>2

(* A process that ends leaves the rest to the next one.                    *)
LEMMA LeavingStep ==
  ASSUME Leaving
  PROVE  /\ UNCHANGED <<account, database, effects, baseline>>
         /\ left' = {m \in left : m <= cursor}
  BY DEF Leaving, Stop, Die, Poison, Exit

(* The steps of the loop, by what they may touch.                          *)
LEMMA Steps ==
  ASSUME [Next]_vars
  PROVE  \/ Arrive \/ \E m \in Messages : Leave(m)
         \/ Doing \/ Thinking \/ Leaving \/ SetCursor \/ WriteAuditEntry \/ MarkProcessed
         \/ UNCHANGED vars
  BY DEF Next, Daemon, Loop, Tier1, Tier2, Doing, Thinking, Leaving

(* One message: what NothingAfterRow says of one step.                     *)
QuietFor(m) == Settled(m) => /\ applied'[m] = applied[m] /\ drafts'[m] = drafts[m]
                             /\ cur = m => calls' = calls
                             /\ processed'[m] = processed[m]

LEMMA QuietStep ==
  ASSUME TypeOK, StageInv, [Next]_vars, NEW m \in Messages
  PROVE  QuietFor(m)
<1>1. CASE Arrive \/ \E k \in Messages : Leave(k)
  BY <1>1 DEF Arrive, Leave, database, effects, QuietFor
<1>2. CASE Doing
  BY <1>2, ActStep DEF Doing, QuietFor, TypeOK, EffectsOK
<1>3. CASE Thinking
  BY <1>3, ThinkingStep, CallingStep DEF QuietFor
<1>7. CASE Leaving
  BY <1>7, LeavingStep DEF QuietFor, database, effects
<1>4. CASE SetCursor \/ WriteAuditEntry
  BY <1>4 DEF SetCursor, WriteAuditEntry, effects, QuietFor
<1>5. CASE MarkProcessed
  <2>1. ~Settled(cur) /\ processed' = [processed EXCEPT ![cur] = meta.row] /\ UNCHANGED effects
    BY <1>5 DEF MarkProcessed, StageInv, Unmarked, Working, Up, PC
  <2> QED
    BY <2>1 DEF QuietFor, effects, TypeOK, DatabaseOK
<1>6. CASE UNCHANGED vars
  BY <1>6 DEF vars, database, effects, QuietFor
<1> QED
  BY <1>1, <1>2, <1>3, <1>4, <1>5, <1>6, <1>7, Steps

(* IdempotencyGateFilter: once a message has its row, no step mutates it,  *)
(* drafts a reply to it, calls the LLM for it or rewrites the row, whatever *)
(* is replayed.                                                            *)
THEOREM GateHolds == Spec => NothingAfterRow
<1>1. TypeOK /\ Inductive /\ [Next]_vars =>
        [\A m \in Messages : Settled(m) =>
           /\ applied'[m] = applied[m] /\ drafts'[m] = drafts[m]
           /\ cur = m => calls' = calls
           /\ processed'[m] = processed[m]]_vars
  BY QuietStep DEF QuietFor, Inductive
<1> QED
  BY <1>1, TypeCorrect, InductiveHolds, PTL DEF Spec, NothingAfterRow

-----------------------------------------------------------------------------
(* Refinement: every step of the loop is a step of Settlement or none.     *)

(* Initial states map to initial states.                                   *)
LEMMA PromiseInit == Init => Promise!Init
<1> SUFFICES ASSUME Init PROVE Promise!Init
  OBVIOUS
<1>1. {m \in Messages : Settled(m)} = {} /\ left = {}
  BY DEF Init, Settled
<1>2. [m \in Messages |-> applied[m] + drafts[m]] = [m \in Promise!Messages |-> 0]
  BY DEF Init, Messages, Promise!Messages
<1> QED
  BY <1>1, <1>2 DEF Init, Promise!Init, Promise!Nothing, NoCursor

(* A step that leaves mail, rows and cursor alone maps to none.            *)
LEMMA PromiseStutter ==
  ASSUME UNCHANGED <<created, inbox, cursor, baseline, processed, left, applied, drafts>>
  PROVE  UNCHANGED Promise!vars
  BY DEF Promise!vars, Settled

SettledSet == {m \in Messages : Settled(m)}
ActedOf    == [m \in Messages |-> applied[m] + drafts[m]]

(* Each other step maps to the one step of Settlement it stands for.       *)
LEMMA PromiseStep ==
  ASSUME TypeOK, Inductive, [Next]_vars
  PROVE  [Promise!Next]_(Promise!vars)
<1> USE DEF Inductive
<1>1. CASE Arrive
  <2>1. Promise!Arrive
    BY <1>1 DEF Arrive, Promise!Arrive, database, effects, config, Settled
  <2> QED
    BY <2>1 DEF Promise!Next
<1>2. ASSUME NEW m \in Messages, Leave(m) PROVE Promise!Next
  <2>1. Promise!Leave(m)
    BY <1>2 DEF Leave, Promise!Leave, database, effects, config, Settled
  <2> QED
    BY <2>1 DEF Promise!Next, Promise!Messages, Messages
<1>3. CASE Doing
  <2>1. /\ cur \in Messages /\ ~Settled(cur)
        /\ UNCHANGED <<created, inbox, cursor, baseline, processed, left>>
        /\ \/ UNCHANGED <<applied, drafts>>
           \/ applied' = [applied EXCEPT ![cur] = @ + 1] /\ drafts' = drafts
           \/ applied' = applied /\ drafts' = [drafts EXCEPT ![cur] = @ + 1]
    BY <1>3, ActStep DEF Doing
  <2>2. CASE UNCHANGED <<applied, drafts>>
    BY <2>1, <2>2, PromiseStutter
  <2>3. CASE ~UNCHANGED <<applied, drafts>>
    <3>1. ActedOf' = [ActedOf EXCEPT ![cur] = @ + 1]
      <4>1. \A m \in Messages : applied'[m] + drafts'[m] =
              IF m = cur THEN applied[m] + drafts[m] + 1 ELSE applied[m] + drafts[m]
        BY <2>1, <2>3 DEF TypeOK, EffectsOK
      <4>2. ActedOf' = [m \in Messages |-> IF m = cur THEN ActedOf[m] + 1 ELSE ActedOf[m]]
        BY <4>1 DEF ActedOf
      <4> QED
        BY <4>2 DEF ActedOf
    <3>2. SettledSet' = SettledSet /\ cur \notin SettledSet
      BY <2>1 DEF SettledSet, Settled
    <3>3. PICK m \in Messages : m = cur
      BY <2>1
    <3>4. Promise!Act(m)
      BY <2>1, <3>1, <3>2, <3>3 DEF Promise!Act, SettledSet, ActedOf
    <3> QED
      BY <3>4 DEF Promise!Next, Promise!Messages, Messages
  <2> QED
    BY <2>2, <2>3
<1>4. CASE Thinking
  BY <1>4, ThinkingStep, PromiseStutter
<1>5. CASE SetCursor
  <2>1. CASE ~Checkpointed
    <3>1. cursor' = cursor /\ baseline' = baseline
      BY <1>5, <2>1 DEF SetCursor, CursorInv
    <3> QED
      BY <1>5, <3>1, PromiseStutter DEF SetCursor, account, effects
  <2>2. CASE Checkpointed
    <3>1. cursor' = src /\ src \in 0..created /\ cursor <= src
      BY <1>5, <2>2 DEF SetCursor, CursorInv, TypeOK, AccountOK, ProcessOK, NoCursor, Up, PC
    <3>2. baseline' = IF baseline = NoCursor THEN src ELSE baseline
      BY <1>5, <3>1 DEF SetCursor
    <3>3. UNCHANGED <<created, inbox, processed, left, applied, drafts>>
      BY <1>5 DEF SetCursor, account, effects
    <3>4. \A m \in inbox : baseline' < m /\ m <= src => m \in SettledSet \/ m \in left
      <4>1. pc = "next" /\ todo = {} /\ pc \in Up /\ pc \notin Working
        BY <1>5 DEF SetCursor, Up, Working, PC
      <4> QED
        BY <4>1, <2>2, <3>1, <3>2, InboxOK
           DEF BatchInv, SettledSet, LeftByObserver, TypeOK, DatabaseOK
    <3>5. SettledSet' = SettledSet /\ ActedOf' = ActedOf
      BY <3>3 DEF SettledSet, ActedOf, Settled
    <3>6. Promise!Acknowledge(src)
      BY <3>1, <3>2, <3>3, <3>4, <3>5
         DEF Promise!Acknowledge, Promise!Nothing, NoCursor, SettledSet, ActedOf
    <3> QED
      BY <3>1, <3>6 DEF Promise!Next
  <2> QED
    BY <2>1, <2>2
<1>6. CASE WriteAuditEntry
  <2>1. /\ cur \in Messages /\ ~Settled(cur)
        /\ UNCHANGED <<created, inbox, cursor, baseline, processed, applied, drafts>>
        /\ left' = left \/ left' = left \cup {cur}
    BY <1>6 DEF WriteAuditEntry, StageInv, Unmarked, Working, Up, PC, account, effects
  <2>2. SettledSet' = SettledSet /\ ActedOf' = ActedOf /\ cur \notin SettledSet
    BY <2>1 DEF SettledSet, ActedOf, Settled
  <2>3. CASE left' = left
    BY <2>1, <2>2, <2>3 DEF Promise!vars, SettledSet, ActedOf
  <2>4. CASE left' = left \cup {cur}
    <3>1. Promise!Waive(cur)
      BY <2>1, <2>2, <2>4 DEF Promise!Waive, SettledSet, ActedOf
    <3> QED
      BY <2>1, <3>1 DEF Promise!Next, Promise!Messages, Messages
  <2> QED
    BY <2>1, <2>3, <2>4
<1>9. CASE Leaving
  <2>1. UNCHANGED <<created, inbox, cursor, baseline, processed, applied, drafts>>
        /\ left' = {m \in left : m <= cursor}
    BY <1>9, LeavingStep DEF account, database, effects
  <2>2. SettledSet' = SettledSet /\ ActedOf' = ActedOf
    BY <2>1 DEF SettledSet, ActedOf, Settled
  <2>3. Promise!Reopen
    BY <2>1, <2>2 DEF Promise!Reopen, SettledSet, ActedOf
  <2> QED
    BY <2>3 DEF Promise!Next
<1>7. CASE MarkProcessed
  <2>1. /\ cur \in Messages /\ ~Settled(cur) /\ meta.row # NoRow
        /\ UNCHANGED <<created, inbox, cursor, baseline, left, applied, drafts>>
        /\ processed' = [processed EXCEPT ![cur] = meta.row]
    BY <1>7 DEF MarkProcessed, Step, StageInv, Unmarked, Decided, Working, Up, PC, NoRow,
                account, effects, config
  <2>2. SettledSet' = SettledSet \cup {cur} /\ cur \notin SettledSet
    BY <2>1 DEF SettledSet, Settled, TypeOK, DatabaseOK
  <2>3. ActedOf' = ActedOf
    BY <2>1 DEF ActedOf
  <2>4. Promise!Settle(cur)
    BY <2>1, <2>2, <2>3 DEF Promise!Settle, SettledSet, ActedOf
  <2> QED
    BY <2>1, <2>4 DEF Promise!Next, Promise!Messages, Messages
<1>8. CASE UNCHANGED vars
  BY <1>8, PromiseStutter DEF vars, account, database, effects, config
<1> QED
  BY <1>1, <1>2, <1>3, <1>4, <1>5, <1>6, <1>7, <1>8, <1>9, Steps

(* The loop, its two pipelines and its database implement Settlement: no   *)
(* interleaving of crashes, restarts and replays acknowledges a history    *)
(* with a hole in it or touches a message twice settled.                   *)
THEOREM PromiseKept == Spec => KeepsPromise
<1>1. Init => Promise!Init
  BY PromiseInit
<1>2. TypeOK /\ Inductive /\ [Next]_vars => [Promise!Next]_(Promise!vars)
  BY PromiseStep
<1> QED
  BY <1>1, <1>2, TypeCorrect, InductiveHolds, PTL DEF Spec, KeepsPromise, Promise!Spec

-----------------------------------------------------------------------------
(* Progress.  The stage of the message in hand, counted from the end; the   *)
(* audit entry of an escalation comes before Tier 2, any other after all.   *)
Rank ==
    CASE pc = "gate" -> 14 [] pc = "rules" -> 13 [] pc = "escalate" -> 12
      [] pc = "audit" /\ meta.event = "escalated_pending_tier2" -> 11
      [] pc = "tier2" -> 10 [] pc = "llm" -> 9 [] pc = "usage" -> 8 [] pc = "verdict" -> 7
      [] pc \in {"act", "alert_only"} -> 6 [] pc = "act_alert" -> 5
      [] pc \in {"draft", "apply", "archive"} -> 4
      [] pc = "audit" /\ meta.event # "escalated_pending_tier2" -> 3
      [] pc = "mark" -> 2 [] pc = "quarantine_alert" -> 1 [] OTHER -> 0

Done(m) == Settled(m) \/ LeftByObserver(m)

(* A stage ends in a later one with the same message, or with the message   *)
(* done, or with the process dead of a poison rule.                         *)
GetsOn ==
    \/ pc' = "down"
    \/ pc' = "next" /\ cur' = cur /\ Done(cur)'
    \/ pc' \in Working /\ cur' = cur /\ Rank' < Rank

LEMMA StageEnds ==
  ASSUME TypeOK, Inductive, Daemon, pc \in Working
  PROVE  GetsOn
<1> USE DEF Working, Up, PC
<1>1. cur \in Messages /\ ~Poll /\ ~NextMessage /\ ~SetCursor
  BY DEF Inductive, StageInv, Poll, NextMessage, SetCursor
<1>2. CASE Poison
  BY <1>2 DEF Poison, Exit, GetsOn
<1>3. CASE IdempotencyGate
  BY <1>3 DEF IdempotencyGate, Step, GetsOn, Rank, Done, Settled
<1>4. CASE RuleEvaluation
  <2>1. pc = "rules" /\ pc' \in {"escalate", "archive", "apply"} /\ cur' = cur
    BY <1>4 DEF RuleEvaluation, Step
  <2> QED
    BY <2>1 DEF GetsOn, Rank
<1>5. CASE ApplyAction \/ ArchiveReceipt
  <2>1. pc \in {"apply", "archive"} /\ pc' = "audit" /\ cur' = cur
        /\ meta'.event \in {"action_applied", "receipt_archived"}
    BY <1>5 DEF ApplyAction, ArchiveReceipt, Step, TypeOK, ProcessOK
  <2> QED
    BY <2>1 DEF GetsOn, Rank
<1>6. CASE RecordEscalation
  BY <1>6 DEF RecordEscalation, Step, GetsOn, Rank
<1>7. CASE WriteAuditEntry
  <2>1. CASE meta.event # "escalated_pending_tier2"
    BY <1>7, <2>1 DEF WriteAuditEntry, Escalated, GetsOn, Rank
  <2>2. CASE meta.event = "escalated_pending_tier2" /\ ~observe
    BY <1>7, <2>2 DEF WriteAuditEntry, Escalated, GetsOn, Rank
  <2>3. CASE meta.event = "escalated_pending_tier2" /\ observe
    BY <1>7, <2>3 DEF WriteAuditEntry, Escalated, GetsOn, Done, LeftByObserver
  <2> QED
    BY <2>1, <2>2, <2>3
<1>8. CASE MarkProcessed
  <2>1. pc = "mark" /\ cur' = cur /\ pc' \in {"next", "quarantine_alert", "day"}
    BY <1>8 DEF MarkProcessed, AfterMark, Step
  <2>2. meta.row # NoRow /\ processed'[cur] = meta.row
    BY <1>1, <1>8 DEF MarkProcessed, TypeOK, DatabaseOK, Inductive, StageInv, Decided, NoRow
  <2> QED
    BY <2>1, <2>2 DEF GetsOn, Rank, Done, Settled
<1>9. CASE BudgetGate
  BY <1>9 DEF BudgetGate, BudgetExhausted, Step, GetsOn, Rank
<1>10. CASE CallLLM
  BY <1>10 DEF CallLLM, ToQuarantine, Step, GetsOn, Rank
<1>11. CASE RecordLLMUsage
  BY <1>11 DEF RecordLLMUsage, Step, GetsOn, Rank
<1>12. CASE ValidateVerdict
  BY <1>12 DEF ValidateVerdict, ToQuarantine, Step, GetsOn, Rank
<1>13. CASE ApplyVerdictAction
  BY <1>13 DEF ApplyVerdictAction, ToQuarantine, Step, GetsOn, Rank
<1>14. CASE AlertOfAction \/ RecordAlertOnly
  BY <1>14 DEF AlertOfAction, RecordAlertOnly, Step, GetsOn, Rank
<1>15. CASE CreateDraftIfWanted
  <2>1. meta.event \in VerdictEvents /\ meta' = meta
    BY <1>15 DEF CreateDraftIfWanted, Inductive, AuditInv
  <2> QED
    BY <1>15, <2>1 DEF CreateDraftIfWanted, VerdictEvents, Step, GetsOn, Rank
<1>16. CASE QuarantineAlert
  BY <1>16 DEF QuarantineAlert, Step, GetsOn, Rank
<1>17. CASE CheckDailyBudgetAlert
  <2>1. Settled(cur) /\ pc' = "next" /\ UNCHANGED <<cur, processed>>
    BY <1>17 DEF CheckDailyBudgetAlert, Inductive, StageInv, database
  <2> QED
    BY <2>1 DEF GetsOn, Done, Settled
<1> QED
  BY <1>1, <1>2, <1>3, <1>4, <1>5, <1>6, <1>7, <1>8, <1>9, <1>10, <1>11, <1>12, <1>13, <1>14,
     <1>15, <1>16, <1>17 DEF Daemon, Loop, Tier1, Tier2

(* Nothing else moves the message in hand.                                  *)
LEMMA WorkStep ==
  ASSUME TypeOK, Inductive, [Next]_vars, pc \in Working
  PROVE  GetsOn \/ UNCHANGED <<pc, cur, meta>>
<1>1. CASE Arrive \/ (\E m \in Messages : Leave(m)) \/ UNCHANGED vars
  BY <1>1 DEF Arrive, Leave, vars, process
<1>2. CASE Die
  BY <1>2 DEF Die, Exit, GetsOn
<1>3. ~Launch /\ ~Restart /\ ~Stop
  BY DEF Launch, Restart, Stop, Working, Up, PC
<1> QED
  BY <1>1, <1>2, <1>3, StageEnds DEF Next

(* So the rank falls, step by step, until the message is left.              *)
Kept == TypeOK /\ Inductive
Level(k) == pc \in Working /\ Rank = k
Left     == pc \in {"next", "down"}
Lower(k) == Left \/ (pc \in Working /\ Rank < k)

GoesDown(j, k) ==
    /\ Kept /\ [Next]_vars /\ Level(j) => Level(j)' \/ Lower(j)'
    /\ Kept /\ Level(j) /\ <<Daemon>>_vars => Lower(j)'
    /\ Level(j) => pc \in Up
    /\ Lower(k) => Level(j) \/ Lower(j)

LEMMA RankFalls ==
  ASSUME NEW j \in Nat, NEW k \in Nat, k = j + 1
  PROVE  GoesDown(j, k)
<1>1. Rank \in Nat
  BY DEF Rank
<1>2. ASSUME Level(j), GetsOn PROVE Lower(j)'
  BY <1>2 DEF Level, Lower, Left, GetsOn
<1>3. ASSUME Kept, [Next]_vars, Level(j) PROVE Level(j)' \/ Lower(j)'
  <2>1. CASE UNCHANGED <<pc, cur, meta>>
    <3>1. Rank' = Rank
      BY <2>1 DEF Rank
    <3> QED
      BY <1>3, <2>1, <3>1 DEF Level
  <2> QED
    BY <1>2, <1>3, <2>1, WorkStep DEF Kept, Level
<1>4. ASSUME Kept, Level(j), Daemon PROVE Lower(j)'
  BY <1>2, <1>4, StageEnds DEF Kept, Level
<1>5. Level(j) => pc \in Up
  BY DEF Level, Working
<1>6. Lower(k) => Level(j) \/ Lower(j)
  BY <1>1 DEF Level, Lower
<1> QED
  BY <1>3, <1>4, <1>5, <1>6 DEF GoesDown

LEMMA AllRanksFall ==
  /\ GoesDown(0, 1) /\ GoesDown(1, 2) /\ GoesDown(2, 3) /\ GoesDown(3, 4) /\ GoesDown(4, 5)
  /\ GoesDown(5, 6) /\ GoesDown(6, 7) /\ GoesDown(7, 8) /\ GoesDown(8, 9) /\ GoesDown(9, 10)
  /\ GoesDown(10, 11) /\ GoesDown(11, 12) /\ GoesDown(12, 13) /\ GoesDown(13, 14)
  /\ GoesDown(14, 15)
  /\ (pc \in Working => Lower(15)) /\ (Lower(0) => Left)
<1>1. Rank \in 0..14
  BY DEF Rank
<1>2. (pc \in Working => Lower(15)) /\ (Lower(0) => Left)
  BY <1>1 DEF Lower
<1> QED
  BY <1>2, RankFalls

LEMMA WorkEnds == Spec /\ WF_vars(Daemon) /\ []NeverStuck => (pc \in Working ~> Left)
<1>1. Spec => []Kept
  BY TypeCorrect, InductiveHolds, PTL DEF Kept
<1> QED
  BY <1>1, AllRanksFall, PTL DEF Spec, GoesDown, NeverStuck

(* A message taken up is settled, or left to the next process by an         *)
(* observer, unless the process dies: no route through the two pipelines    *)
(* goes round in a circle or ends without its row.                          *)
THEOREM StartedIsDone ==
  ASSUME NEW m \in Messages
  PROVE  FairSpec /\ []NeverStuck => ((cur = m /\ pc \in Working) ~> (Done(m) \/ pc = "down"))
<1> DEFINE Hand == cur = m /\ pc \in Working
           Out  == Done(m) \/ pc = "down"
<1>1. Kept /\ [Next]_vars /\ Hand => Hand' \/ Out'
  <2> SUFFICES ASSUME Kept, [Next]_vars, Hand PROVE Hand' \/ Out'
    OBVIOUS
  <2>1. GetsOn \/ UNCHANGED <<pc, cur, meta>>
    BY WorkStep DEF Kept
  <2> QED
    BY <2>1 DEF GetsOn
<1>2. Hand => pc \in Working /\ ~Left
  BY DEF Working, Up, PC, Left
<1>3. Spec => []Kept
  BY TypeCorrect, InductiveHolds, PTL DEF Kept
<1> HIDE DEF Hand, Out
<1>4. FairSpec /\ []NeverStuck => (Hand ~> Out)
  BY <1>1, <1>2, <1>3, WorkEnds, PTL DEF Spec, FairSpec
<1> QED
  BY <1>4 DEF Hand, Out

-----------------------------------------------------------------------------
(* The whole batch, and the history.  A batch in hand only shrinks, and a   *)
(* finite set does not shrink for ever: that, which is an induction, is a   *)
(* hypothesis below, and so is that the process dies no more.               *)
Shrinks == todo' \subseteq todo /\ todo' # todo
NoEndlessDescent == ~<>([][Shrinks]_todo /\ []<><<Shrinks>>_todo)
DeathsEnd == <>[][deaths' = deaths]_vars

NoPoison == \A r \in Routes : r # "malformed" /\ ~Unroutable(r)

Stopped == pc = "stopped"
Calm == Kept /\ ~Stopped /\ ~Stopped' /\ [Next]_vars /\ [deaths' = deaths]_vars
IsUp == pc \in Up
InLoop == pc = "loop"
Between == pc = "next"
Passed(m) == pc \in Up /\ m <= src
Behind(m) == baseline # NoCursor /\ baseline < m

(* Without a poison rule, a stop or a death the process stays up.           *)
LEMMA CalmStep ==
  ASSUME NoPoison, Calm
  PROVE  \/ UNCHANGED <<database, process, config>>
         \/ Restart
         \/ Daemon /\ ~Poison /\ pc \in Up /\ pc' \in Up
<1>1. deaths \in Nat
  BY TriageAssumption DEF Calm, Kept, TypeOK, ProcessOK
<1>2. ~Poison
  BY DEF Poison, NoPoison
<1>3. CASE UNCHANGED vars
  BY <1>3 DEF vars
<1>4. CASE Arrive \/ \E m \in Messages : Leave(m)
  BY <1>4 DEF Arrive, Leave
<1>5. CASE Daemon
  <2>1. pc \in Up
    BY <1>5, <1>2 DEF Daemon, Loop, Tier1, Tier2, Poll, NextMessage, SetCursor, WriteAuditEntry,
       MarkProcessed, CheckDailyBudgetAlert, IdempotencyGate, RuleEvaluation, ApplyAction,
       ArchiveReceipt, RecordEscalation, BudgetGate, CallLLM, RecordLLMUsage, ValidateVerdict,
       ApplyVerdictAction, AlertOfAction, RecordAlertOnly, CreateDraftIfWanted, QuarantineAlert,
       Up, PC
  <2>2. CASE pc \in Working
    <3>1. GetsOn
      BY <1>5, <2>2, StageEnds DEF Calm, Kept
    <3>2. pc' # "down"
      BY <1>5, <1>2, <2>2 DEF Daemon, Loop, Tier1, Tier2, Poll, NextMessage, SetCursor,
         WriteAuditEntry, MarkProcessed, AfterMark, CheckDailyBudgetAlert, IdempotencyGate,
         RuleEvaluation, ApplyAction, ArchiveReceipt, RecordEscalation, BudgetGate,
         BudgetExhausted, CallLLM, ToQuarantine, RecordLLMUsage, ValidateVerdict,
         ApplyVerdictAction, AlertOfAction, RecordAlertOnly, CreateDraftIfWanted, QuarantineAlert
    <3> QED
      BY <1>2, <1>5, <2>1, <3>1, <3>2 DEF GetsOn, Working, Up, PC
  <2>3. CASE pc \notin Working
    <3>1. Poll \/ NextMessage \/ SetCursor
      BY <1>5, <1>2, <2>1, <2>3 DEF Daemon, Loop, Tier1, Tier2, WriteAuditEntry,
         MarkProcessed, CheckDailyBudgetAlert, IdempotencyGate, RuleEvaluation, ApplyAction,
         ArchiveReceipt, RecordEscalation, BudgetGate, CallLLM, RecordLLMUsage, ValidateVerdict,
         ApplyVerdictAction, AlertOfAction, RecordAlertOnly, CreateDraftIfWanted,
         QuarantineAlert, Working, Up, PC
    <3>2. pc' \in {"next", "gate", "loop"}
      BY <3>1 DEF Poll, NextMessage, SetCursor
    <3> QED
      BY <1>2, <1>5, <2>1, <3>2 DEF Up, PC
  <2> QED
    BY <2>2, <2>3
<1>6. ~Launch /\ ~Stop
  BY DEF Calm, Stopped, Launch, Stop, Exit
<1>7. CASE Die
  BY <1>1, <1>7 DEF Calm, Die, vars, config
<1> QED
  BY <1>3, <1>4, <1>5, <1>6, <1>7 DEF Calm, Next

(* The process stays up, or comes up.                                       *)
LEMMA ComesUp ==
  ASSUME NoPoison
  PROVE  /\ Calm /\ IsUp => IsUp'
         /\ Calm /\ ~IsUp => ~IsUp' \/ InLoop'
         /\ <<Restart>>_vars => InLoop'
         /\ Kept /\ ~Stopped /\ ~IsUp => pc = "down"
         /\ InLoop => IsUp
<1>1. ASSUME Calm PROVE UNCHANGED pc \/ (Restart /\ ~IsUp /\ InLoop') \/ (IsUp /\ IsUp')
  BY <1>1, CalmStep DEF process, Restart, Boot, IsUp, InLoop, Up, PC
<1> QED
  BY <1>1 DEF Calm, Kept, TypeOK, ProcessOK, Stopped, IsUp, InLoop, Up, PC, Restart, Boot

(* Between two polls the batch shrinks, and it does at each message.        *)
LEMMA BatchShrinks ==
  ASSUME NoPoison
  PROVE  /\ Calm /\ IsUp /\ ~InLoop /\ ~InLoop' => [Shrinks]_todo
         /\ Calm /\ Between => Between' \/ InLoop' \/ <<Shrinks>>_todo
         /\ Calm /\ Between /\ <<Daemon>>_vars => InLoop' \/ <<Shrinks>>_todo
<1>1. ASSUME pc # "loop", pc \in Up, Daemon, ~Poison PROVE [Shrinks]_todo
  BY <1>1 DEF Daemon, Loop, Tier1, Tier2, Poll, NextMessage, SetCursor, WriteAuditEntry,
     MarkProcessed, CheckDailyBudgetAlert, IdempotencyGate, RuleEvaluation, ApplyAction,
     ArchiveReceipt, RecordEscalation, BudgetGate, CallLLM, RecordLLMUsage, ValidateVerdict,
     ApplyVerdictAction, AlertOfAction, RecordAlertOnly, CreateDraftIfWanted, QuarantineAlert,
     Step, Shrinks
<1>2. ASSUME Calm, IsUp, ~InLoop, ~InLoop' PROVE [Shrinks]_todo
  <2>1. ~Restart
    BY <1>2 DEF IsUp, Restart, Up, PC
  <2> QED
    BY <1>1, <1>2, <2>1, CalmStep DEF process, IsUp, InLoop
<1>3. ASSUME Calm, Between, Daemon PROVE InLoop' \/ <<Shrinks>>_todo
  <2>1. NextMessage \/ SetCursor
    BY <1>3 DEF Between, Daemon, Loop, Tier1, Tier2, Poll, WriteAuditEntry, MarkProcessed,
       CheckDailyBudgetAlert, IdempotencyGate, RuleEvaluation, Poison, ApplyAction,
       ArchiveReceipt, RecordEscalation, BudgetGate, CallLLM, RecordLLMUsage, ValidateVerdict,
       ApplyVerdictAction, AlertOfAction, RecordAlertOnly, CreateDraftIfWanted, QuarantineAlert
  <2>2. CASE NextMessage
    BY <2>2 DEF NextMessage, Shrinks
  <2> QED
    BY <2>1, <2>2 DEF SetCursor, InLoop
<1>4. ASSUME Calm, Between PROVE Between' \/ InLoop' \/ <<Shrinks>>_todo
  BY <1>3, <1>4, CalmStep DEF Between, process, Restart
<1> QED
  BY <1>2, <1>3, <1>4

(* A poll passes every message there is; what is passed stays so, and once  *)
(* the batch is acknowledged it is settled.                                 *)
LEMMA PollPasses ==
  ASSUME NoPoison, TRUE \notin ObserveModes, NEW m \in Messages
  PROVE  /\ Calm /\ InLoop => InLoop' \/ (m \in inbox => Passed(m)')
         /\ Calm /\ InLoop /\ <<Daemon>>_vars => ~InLoop'
         /\ Calm /\ Passed(m) /\ m \in inbox => Passed(m)'
         /\ [Next]_vars /\ Behind(m) => Behind(m)'
         /\ Kept /\ m \in inbox /\ cursor # NoCursor /\ cursor < m => Behind(m)
         /\ Kept /\ InLoop /\ Passed(m) /\ Behind(m) /\ m \in inbox => Settled(m)
<1>1. ASSUME Calm, pc = "loop", Daemon
      PROVE  Poll
  BY <1>1 DEF Daemon, Loop, Tier1, Tier2, NextMessage, SetCursor, WriteAuditEntry,
     MarkProcessed, CheckDailyBudgetAlert, IdempotencyGate, RuleEvaluation, Poison, ApplyAction,
     ArchiveReceipt, RecordEscalation, BudgetGate, CallLLM, RecordLLMUsage, ValidateVerdict,
     ApplyVerdictAction, AlertOfAction, RecordAlertOnly, CreateDraftIfWanted, QuarantineAlert
<1>2. ASSUME Kept, m \in inbox PROVE m <= created
  BY <1>2 DEF Kept, TypeOK, AccountOK
<1>3. ASSUME Poll PROVE pc' = "next" /\ src' = created
  BY <1>3 DEF Poll
<1>4. ASSUME Calm, InLoop PROVE InLoop' \/ (m \in inbox => Passed(m)')
  <2>1. ~Restart
    BY <1>4 DEF InLoop, Restart
  <2>2. CASE Daemon
    BY <1>1, <1>2, <1>3, <1>4, <2>2 DEF Calm, InLoop, Passed, Up, PC
  <2> QED
    BY <1>4, <2>1, <2>2, CalmStep DEF process, InLoop
<1>5. ASSUME Calm, InLoop, Daemon PROVE ~InLoop'
  BY <1>1, <1>3, <1>5 DEF InLoop
<1>6. ASSUME Calm, Passed(m), m \in inbox PROVE Passed(m)'
  <2>1. ~Restart
    BY <1>6 DEF Passed, Restart, Up, PC
  <2>2. CASE UNCHANGED process
    BY <1>6, <2>2 DEF Passed, process
  <2>3. CASE Daemon /\ ~Poison /\ pc' \in Up
    <3>1. UNCHANGED src \/ Poll
      BY <2>3 DEF Daemon, Loop, Tier1, Tier2, NextMessage, SetCursor, WriteAuditEntry,
         MarkProcessed, CheckDailyBudgetAlert, IdempotencyGate, RuleEvaluation, ApplyAction,
         ArchiveReceipt, RecordEscalation, BudgetGate, CallLLM, RecordLLMUsage,
         ValidateVerdict, ApplyVerdictAction, AlertOfAction, RecordAlertOnly,
         CreateDraftIfWanted, QuarantineAlert, Step
    <3> QED
      BY <1>2, <1>3, <1>6, <2>3, <3>1 DEF Passed, Calm
  <2> QED
    BY <1>6, <2>1, <2>2, <2>3, CalmStep
<1>7. ASSUME [Next]_vars, Behind(m) PROVE Behind(m)'
  <2>1. UNCHANGED baseline \/ SetCursor
    BY <1>7 DEF Next, Arrive, Leave, Launch, Restart, Boot, Stop, Die, Exit, vars, config, Daemon,
       Loop, Tier1, Tier2, Poll, NextMessage, WriteAuditEntry, MarkProcessed,
       CheckDailyBudgetAlert, IdempotencyGate, RuleEvaluation, Poison, ApplyAction,
       ArchiveReceipt, RecordEscalation, BudgetGate, CallLLM, RecordLLMUsage, ValidateVerdict,
       ApplyVerdictAction, AlertOfAction, RecordAlertOnly, CreateDraftIfWanted,
       QuarantineAlert, Step
  <2> QED
    BY <1>7, <2>1 DEF Behind, SetCursor
<1>8. ASSUME Kept, m \in inbox, cursor # NoCursor, cursor < m PROVE Behind(m)
  BY <1>8 DEF Behind, Kept, Inductive, CursorInv, TypeOK, DatabaseOK, AccountOK, NoCursor, Messages
<1>9. ASSUME Kept, InLoop, Passed(m), Behind(m), m \in inbox PROVE Settled(m)
  <2>1. cursor # NoCursor /\ Checkpointed /\ cursor = src
    BY <1>9 DEF Kept, Inductive, CursorInv, Behind, InLoop, Passed
  <2> QED
    BY <1>9, <2>1 DEF Kept, Inductive, CursorSafety, ModeInv, Behind, Passed, LeftByObserver
<1> QED
  BY <1>4, <1>5, <1>6, <1>7, <1>8, <1>9

(* What holds once nobody dies or stops, of a message that stays.           *)
Calmly(m) ==
    /\ []Kept /\ [][Next]_vars /\ [][deaths' = deaths]_vars
    /\ []~Stopped /\ [](m \in inbox)
    /\ WF_vars(Daemon) /\ WF_vars(Restart) /\ []NeverStuck
    /\ (pc \in Working ~> Left) /\ NoEndlessDescent

(* Every message that stays in the Inbox behind the cursor is settled       *)
(* unless somebody stops the daemon: the loop comes back to the source, the *)
(* source passes the message, and no cursor passes it unsettled.            *)
THEOREM MailIsSettled ==
  ASSUME NoPoison, TRUE \notin ObserveModes
  PROVE  FairSpec /\ []NeverStuck /\ DeathsEnd /\ NoEndlessDescent => EventuallySettled
<1>0. SUFFICES ASSUME NEW m \in Messages
               PROVE  FairSpec /\ []NeverStuck /\ DeathsEnd /\ NoEndlessDescent =>
                        ((m \in inbox /\ cursor # NoCursor /\ cursor < m)
                            ~> (Settled(m) \/ m \notin inbox \/ pc = "stopped"))
  BY DEF EventuallySettled
<1>1. /\ Calm /\ IsUp => IsUp'
      /\ Calm /\ ~IsUp => ~IsUp' \/ InLoop'
      /\ <<Restart>>_vars => InLoop'
      /\ Kept /\ ~Stopped /\ ~IsUp => pc = "down"
      /\ InLoop => IsUp
  BY ComesUp
<1>2. /\ Calm /\ IsUp /\ ~InLoop /\ ~InLoop' => [Shrinks]_todo
      /\ Calm /\ Between => Between' \/ InLoop' \/ <<Shrinks>>_todo
      /\ Calm /\ Between /\ <<Daemon>>_vars => InLoop' \/ <<Shrinks>>_todo
  BY BatchShrinks
<1>3. /\ Calm /\ InLoop => InLoop' \/ (m \in inbox => Passed(m)')
      /\ Calm /\ InLoop /\ <<Daemon>>_vars => ~InLoop'
      /\ Calm /\ Passed(m) /\ m \in inbox => Passed(m)'
      /\ [Next]_vars /\ Behind(m) => Behind(m)'
      /\ Kept /\ m \in inbox /\ cursor # NoCursor /\ cursor < m => Behind(m)
      /\ Kept /\ InLoop /\ Passed(m) /\ Behind(m) /\ m \in inbox => Settled(m)
  BY PollPasses
<1>4. /\ IsUp => pc \in Up
      /\ IsUp => ~(pc = "down")
      /\ IsUp /\ ~InLoop => pc \in Working \/ Between
      /\ Left => Between \/ pc = "down"
      /\ Stopped => pc = "stopped"
      /\ m \notin inbox \/ m \in inbox
  BY DEF IsUp, InLoop, Up, Working, PC, Left, Stopped, Between
<1>5. Calmly(m) => <>[]IsUp
  BY <1>1, PTL DEF Calmly, Calm, NeverStuck
<1>6. Calmly(m) /\ []IsUp => []<>InLoop
  BY <1>2, <1>4, PTL DEF Calmly, Calm, NeverStuck, NoEndlessDescent
<1>7. Calmly(m) /\ []IsUp /\ []<>InLoop /\ Behind(m) => <>Settled(m)
  BY <1>3, <1>4, PTL DEF Calmly, Calm, NeverStuck
<1>8. Spec => [](Behind(m) => []Behind(m))
  BY <1>3, PTL DEF Spec
<1>9. Spec => []Kept
  BY TypeCorrect, InductiveHolds, PTL DEF Kept
<1> QED
  BY <1>3, <1>4, <1>5, <1>6, <1>7, <1>8, <1>9, WorkEnds, PTL
     DEF FairSpec, Spec, DeathsEnd, NoEndlessDescent, Calmly

-----------------------------------------------------------------------------
(* What follows from the promise alone.                                     *)
Owed == INSTANCE Settlement_proofs WITH
    acknowledged <- cursor,
    first   <- baseline,
    settled <- {m \in Messages : Settled(m)},
    waived  <- left,
    acted   <- [m \in Messages |-> applied[m] + drafts[m]]

LEMMA SamePromise == KeepsPromise => Owed!Spec
<1>1. Promise!Init => Owed!Init
  BY DEF Promise!Init, Owed!Init, Promise!Nothing, Owed!Nothing, Promise!Messages, Owed!Messages
<1>2. [Promise!Next]_(Promise!vars) => [Owed!Next]_(Owed!vars)
  BY DEF Promise!Next, Promise!Arrive, Promise!Leave, Promise!Act, Promise!Settle,
     Promise!Reopen, Owed!Reopen, Promise!Waive, Promise!Acknowledge, Promise!vars, Promise!Nothing, Promise!Messages,
     Owed!Next, Owed!Arrive, Owed!Leave, Owed!Act, Owed!Settle, Owed!Waive,
     Owed!Acknowledge, Owed!vars, Owed!Nothing, Owed!Messages
<1> QED
  BY <1>1, <1>2, PTL DEF KeepsPromise, Promise!Spec, Owed!Spec

(* Through every death and restart: the persisted cursor never goes back, a *)
(* row is never lost, what an observer left and acknowledged is left for    *)
(* good, and a message that has its row is neither moved nor answered again.*)
Final ==
    /\ cursor <= cursor'
    /\ baseline # NoCursor => baseline' = baseline
    /\ \A m \in Messages : /\ LeftByObserver(m) /\ m <= cursor => LeftByObserver(m)'
                           /\ Settled(m) => /\ Settled(m)'
                                            /\ applied'[m] + drafts'[m] = applied[m] + drafts[m]
NothingTakenBack == [][Final]_<<cursor, baseline, processed, left, applied, drafts>>

(* A corollary of the kept promise, in the daemon's own tables: the         *)
(* daemon_state cursor and processed_messages.                              *)
THEOREM SettledIsFinal == Spec => NothingTakenBack
<1>1. NMessages \in Nat
  BY TriageAssumption
<1>2. Owed!Spec => Owed!NothingTakenBack
  BY <1>1, Owed!PromiseIsFinal
<1>3. TypeOK /\ [Owed!Forward]_(Owed!vars)
        => [Final]_<<cursor, baseline, processed, left, applied, drafts>>
  <2>1. ASSUME Owed!Forward PROVE Final
    <3> DEFINE Rows == {m \in Messages : Settled(m)}
               Sum == [m \in Messages |-> applied[m] + drafts[m]]
    <3>1. /\ cursor <= cursor' /\ (baseline # NoCursor => baseline' = baseline)
          /\ Rows \subseteq Rows'
          /\ \A m \in left : m <= cursor => m \in left'
          /\ \A m \in Rows : Sum'[m] = Sum[m]
      BY <2>1 DEF Owed!Forward, Owed!Nothing, NoCursor
    <3> QED
      BY <3>1 DEF Final, LeftByObserver
  <2>2. ASSUME TypeOK, UNCHANGED Owed!vars PROVE Final
    <3> DEFINE Rows == {m \in Messages : Settled(m)}
               Sum == [m \in Messages |-> applied[m] + drafts[m]]
    <3>1. UNCHANGED <<cursor, baseline>> /\ Rows' = Rows /\ left' = left /\ Sum' = Sum
      BY <2>2 DEF Owed!vars
    <3>2. cursor <= cursor'
      BY <2>2, <3>1 DEF TypeOK, DatabaseOK, NoCursor
    <3>3. ASSUME NEW m \in Messages
          PROVE  /\ LeftByObserver(m) => LeftByObserver(m)'
                 /\ Settled(m) => Settled(m)'
                 /\ applied'[m] + drafts'[m] = applied[m] + drafts[m]
      <4>1. m \in Rows <=> m \in Rows'
        BY <3>1
      <4>2. LeftByObserver(m) <=> LeftByObserver(m)'
        BY <3>1 DEF LeftByObserver
      <4>3. Sum'[m] = Sum[m]
        BY <3>1
      <4> QED
        BY <4>1, <4>2, <4>3
    <3> QED
      BY <3>1, <3>2, <3>3 DEF Final
  <2> QED
    BY <2>1, <2>2
<1> QED
  BY <1>2, <1>3, TypeCorrect, SamePromise, PromiseKept, PTL DEF NothingTakenBack, Owed!NothingTakenBack

=============================================================================
