-------------------------- MODULE Receipts_proofs --------------------------
(* What modules Decide and Receipts keep for any mail, rules, classifiers,  *)
(* thresholds, answers and number of kills.                                 *)
EXTENDS Receipts, FiniteSetTheorems, SequenceTheorems, WellFoundedInduction, TLAPS

(* A message is in hand wherever the process is at work on one, and what    *)
(* was extracted from it where it is used.                                  *)
InHand == /\ step \notin {"stopped", "down", "idle"} => message \in Messages
          /\ step \in {"learn", "keywords", "save"} => extraction \in Extraction

Tier1Steps == Take \/ ConsiderRule \/ NoRuleMatches \/ AskTarget \/ Combine \/ Route \/ ApplyAction
Tier2Steps == CallLLM \/ ValidateVerdict \/ ConfidenceBand \/ ApplyVerdict \/ AlertOnly
              \/ Quarantine \/ MarkProcessed

-----------------------------------------------------------------------------
(* What the assumption says of the configuration in use.                    *)
LEMMA ConfigType ==
  ASSUME config \in Configs
  PROVE  /\ config.rules \in Seq(Rule) /\ config.default \in {"escalate", "ignore"}
         /\ config.keywords \in Seq([category : Categories, words : SUBSET STRING])
         /\ \A k \in DOMAIN config.keywords : IsFiniteSet(config.keywords[k].words)
         /\ config.targets \in Seq(STRING)
         /\ config.alert \in Int /\ config.autoact \in Int
         /\ config.companies \in Seq([name : STRING, domains : SUBSET STRING])
         /\ config.extractions \in [Domains -> SUBSET Extraction]
         /\ \A k \in DOMAIN config.companies : config.companies[k].name \in DOMAIN CompanySlug
BY ReceiptsAssumption DEF Domains, Extraction

LEMMA MailType ==
  ASSUME NEW m \in Messages
  PROVE  /\ Mail[m].domain \in Domains /\ Sender(m) \in Domains
         /\ Mail[m].header \in Optional(STRING) /\ Mail[m].marker \in Optional(STRING)
         /\ Mail[m].attachments \in Seq(STRING) /\ IsFiniteSet(Mail[m].words)
         /\ ExtractDate(m) \in Optional(STRING)
<1> DEFINE Letter == [domain : DOMAIN Normal, address : STRING, words : SUBSET STRING,
                      header : Optional(STRING), marker : Optional(STRING),
                      attachments : Seq(STRING), slug : STRING]
<1>1. Mail[m] \in Letter
  <2>1. Mail \in Seq(Letter)
    BY ReceiptsAssumption
  <2> HIDE DEF Letter
  <2> QED
    BY <2>1 DEF Messages
<1>2. IsFiniteSet(Mail[m].words) /\ Normal \in [DOMAIN Normal -> DOMAIN Normal]
  BY ReceiptsAssumption
<1> HIDE DEF Optional
<1> QED
  BY <1>1, <1>2 DEF Domains, Sender, ExtractDate

(* The keyword classifier always has an answer.                             *)
LEMMA KeywordVoteType ==
  ASSUME config \in Configs, NEW m \in Messages
  PROVE  KeywordVote(m) \in Vote
<1>1. CASE BestKeywords(m) = {}
  BY <1>1, ReceiptsAssumption DEF KeywordVote, Vote
<1>2. CASE BestKeywords(m) # {}
  <2> DEFINE i == CHOOSE i \in BestKeywords(m) : TRUE
             k == config.keywords[i]
  <2>1. i \in DOMAIN config.keywords
    BY <1>2 DEF BestKeywords
  <2>2. k.category \in Categories /\ IsFiniteSet(k.words)
    <3> DEFINE K == [category : Categories, words : SUBSET STRING]
    <3>1. config.keywords \in Seq(K) /\ IsFiniteSet(config.keywords[i].words)
      BY <2>1, ConfigType
    <3>2. config.keywords[i] \in K
      <4> HIDE DEF K, i
      <4> QED
        BY <2>1, <3>1
    <3> QED
      BY <3>1, <3>2
  <2>3. Hits(k, m) \in Nat
    <3>1. IsFiniteSet(k.words \cap Mail[m].words)
      BY <2>2, FS_Intersection
    <3> QED
      BY <3>1, FS_CardinalityType DEF Hits
  <2>4. Size(k) \in Nat \ {0}
    <3> HIDE DEF k
    <3>1. Cardinality(k.words) \in Nat /\ (Cardinality(k.words) = 0 <=> k.words = {})
      BY <2>2, FS_CardinalityType, FS_EmptySet
    <3> QED
      BY <3>1 DEF Size
  <2>5. KeywordVote(m) = [succeeded |-> TRUE, category |-> k.category,
                          hits |-> Hits(k, m), size |-> Size(k)]
    BY <1>2 DEF KeywordVote
  <2> HIDE DEF k, i
  <2> QED
    BY <2>2, <2>3, <2>4, <2>5 DEF Vote
<1> QED
  BY <1>1, <1>2

LEMMA RuleType ==
  ASSUME config \in Configs, NEW k \in DOMAIN config.rules
  PROVE  config.rules[k] \in Rule /\ k \in 1..Len(config.rules)
BY ConfigType

LEMMA ForgetType ==
  ASSUME config \in Configs, Forget
  PROVE  /\ next' \in 1..(Len(config.rules) + 1) /\ matched' \in 0..Len(config.rules)
         /\ votes' \in Seq(Vote \cup {Failed}) /\ Len(votes') = 0
         /\ opinion' \in Vote \cup {NoOpinion} /\ verdict' \in Answer \cup {NoVerdict}
         /\ effects' = {}
<1>1. config.rules \in Seq(Rule)
  BY ConfigType
<1>2. Len(config.rules) \in Nat
  BY <1>1
<1>4. <<>> \in Seq(Vote \cup {Failed}) /\ Len(<<>>) = 0
  OBVIOUS
<1>5. NoOpinion \in Vote \cup {NoOpinion}
  OBVIOUS
<1>6. votes' = <<>> /\ next' = 1 /\ matched' = 0 /\ verdict' = NoVerdict /\ opinion' = NoOpinion /\ effects' = {}
  BY DEF Forget, NoRule
<1>7. 1 \in 1..(Len(config.rules) + 1) /\ 0 \in 0..Len(config.rules)
  BY <1>2
<1> QED
  BY <1>4, <1>5, <1>6, <1>7

(* A file has a page for the message and for each attachment.               *)
LEMMA PagesType ==
  ASSUME NEW m \in Messages
  PROVE  /\ Pages(m) \in Seq(Page)
         /\ Len(Pages(m)) = 1 + Len(Mail[m].attachments)
<1> DEFINE A == Mail[m].attachments
           rendered == [i \in DOMAIN A |-> Rendered(A[i])]
<1>1. A \in Seq(STRING)
  BY MailType
<1>2. \A a : Rendered(a) \in Page
  BY DEF Rendered, Page
<1>3. rendered \in Seq(Page) /\ Len(rendered) = Len(A)
  <2> HIDE DEF A
  <2>1. DOMAIN A = 1..Len(A) /\ Len(A) \in Nat
    BY <1>1
  <2> QED
    BY <1>2, <2>1
<1>4. <<"cover">> \in Seq(Page) /\ Len(<<"cover">>) = 1
  BY DEF Page
<1>5. Pages(m) = <<"cover">> \o rendered
  BY DEF Pages
<1>6. /\ <<"cover">> \o rendered \in Seq(Page)
      /\ Len(<<"cover">> \o rendered) = Len(<<"cover">>) + Len(rendered)
  <2> HIDE DEF rendered
  <2> QED
    BY <1>3, <1>4, ConcatProperties
<1> HIDE DEF rendered
<1> QED
  BY <1>3, <1>4, <1>5, <1>6

(* What is looked up is a company of the curated data or a learned one, and *)
(* a date of the message.                                                   *)
LEMMA LookedUp ==
  ASSUME TypeOK, NEW m \in Messages, NEW c \in ResolveCompany(m), NEW d \in ExtractDate(m)
  PROVE  [company |-> c, date |-> d] \in Extraction
<1>1. d \in STRING
  <2>1. ExtractDate(m) \in SUBSET STRING
    BY MailType DEF Optional
  <2> QED
    BY <2>1
<1>2. c \in DOMAIN CompanySlug
  <2>1. CASE c \in Curated(Mail[m].domain)
    <3>1. PICK i \in Listing(Mail[m].domain) : c = config.companies[i].name
      BY <2>1 DEF Curated
    <3>2. i \in DOMAIN config.companies /\ config \in Configs
      BY <3>1 DEF Listing, TypeOK, DecideTypeOK
    <3> QED
      BY <3>1, <3>2, ConfigType
  <2>2. CASE c \in known[Sender(m)]
    <3>1. Sender(m) \in Domains
      BY MailType
    <3>2. known[Sender(m)] \in SUBSET DOMAIN CompanySlug
      BY <3>1 DEF TypeOK, Optional
    <3> QED
      BY <2>2, <3>2
  <2> QED
    BY <2>1, <2>2 DEF ResolveCompany, Sender
<1> QED
  BY <1>1, <1>2 DEF Extraction

LEMMA TypeInit == Init => TypeOK /\ InHand
<1> SUFFICES ASSUME Init PROVE TypeOK /\ InHand
  OBVIOUS
<1>1. config \in Configs
  BY DEF Init, DecideInit
<1>2. config.rules \in Seq(Rule) /\ config.targets \in Seq(STRING)
  BY <1>1, ConfigType
<1>3. Len(config.rules) \in Nat /\ Len(config.targets) \in Nat
  BY <1>2
<1>4. Len(Mail) \in Nat /\ MaxDeaths \in Nat
  BY ReceiptsAssumption
<1>5. DecideTypeOK
  <2>1. <<>> \in Seq(Vote \cup {Failed}) /\ Len(<<>>) = 0
    OBVIOUS
  <2>2. next \in 1..(Len(config.rules) + 1) /\ matched \in 0..Len(config.rules) /\ message \in 0..Len(Mail)
    BY <1>3, <1>4 DEF Init, DecideInit, NoMessage, NoRule
  <2>3. opinion \in Vote \cup {NoOpinion} /\ verdict \in Answer \cup {NoVerdict}
    BY DEF Init, DecideInit
  <2>4. votes \in Seq(Vote \cup {Failed}) /\ Len(votes) <= Len(config.targets)
    BY <2>1, <1>3 DEF Init, DecideInit
  <2> QED
    BY <1>1, <2>2, <2>3, <2>4 DEF Init, DecideInit, DecideTypeOK
<1>6. known \in [Domains -> Optional(DOMAIN CompanySlug)]
  BY DEF Init, Optional
<1>7. step = "stopped" /\ files = {} /\ deaths = 0
  BY DEF Init, DecideInit
<1>8. tags \in [Messages -> SUBSET Extraction] /\ answered \in [Domains -> Nat] /\ lost \in [Domains -> Nat]
  BY DEF Init
<1>9. extraction \in Extraction \cup {NoExtraction}
  BY DEF Init
<1>10. deaths \in 0..MaxDeaths
  BY <1>4, <1>7
<1> QED
  BY <1>5, <1>6, <1>7, <1>8, <1>9, <1>10 DEF TypeOK, InHand

(* Each action keeps the types.                                             *)
LEMMA TypeStep == TypeOK /\ InHand /\ [Next]_vars => TypeOK' /\ InHand'
<1> SUFFICES ASSUME TypeOK, InHand, [Next]_vars PROVE TypeOK' /\ InHand'
  OBVIOUS
<1> USE DEF TypeOK, DecideTypeOK, InHand, tier1, tier2
<1>a. /\ config \in Configs
      /\ Len(config.rules) \in Nat /\ Len(config.targets) \in Nat /\ Len(Mail) \in Nat
      /\ MaxDeaths \in Nat
  <2>1. config.rules \in Seq(Rule) /\ config.targets \in Seq(STRING)
    BY ConfigType
  <2>2. Len(Mail) \in Nat /\ MaxDeaths \in Nat
    BY ReceiptsAssumption
  <2>3. Len(config.rules) \in Nat /\ Len(config.targets) \in Nat
    BY <2>1
  <2> QED
    BY <2>2, <2>3
<1> DEFINE Others == UNCHANGED <<extraction, archive, history>>
           Whole == TypeOK' /\ InHand'
<1>b. ASSUME Forget, UNCHANGED config
      PROVE  /\ next' \in 1..(Len(config'.rules) + 1) /\ matched' \in 0..Len(config'.rules)
             /\ votes' \in Seq(Vote \cup {Failed}) /\ Len(votes') <= Len(config'.targets)
             /\ opinion' \in Vote \cup {NoOpinion} /\ verdict' \in Answer \cup {NoVerdict}
             /\ effects' \subseteq {"acted", "alerted", "quarantined"}
  BY <1>a, <1>b, ForgetType
<1>c. ASSUME Leave("stopped") \/ Leave("down")
      PROVE  DecideTypeOK' /\ InHand' /\ step' \in {"stopped", "down"}
  <2>1. Forget /\ UNCHANGED <<config, row>> /\ message' = 0 /\ observe' = FALSE /\ step' \in {"stopped", "down"}
    BY <1>c DEF Leave, NoMessage
  <2>2. row' \in [Messages -> {"none", "tier1", "tier2", "receipt", "observed_receipt"}] /\ config' \in Configs
    BY <2>1
  <2>3. message' \in 0..Len(Mail)
    BY <2>1, <1>a
  <2> HIDE DEF TypeOK
  <2> QED
    BY <1>b, <2>1, <2>2, <2>3
<1>d. ASSUME NEW how \in {"tier1", "tier2", "receipt", "observed_receipt"}, Settle(how), InHand,
             step \notin {"stopped", "down", "idle"}
      PROVE  /\ row' \in [Messages -> {"none", "tier1", "tier2", "receipt", "observed_receipt"}]
             /\ step' = "idle" /\ UNCHANGED <<config, observe, message>>
  BY <1>d DEF Settle
<1>1. CASE Start /\ Others
  BY <1>1, <1>a, <1>b DEF Start, NoMessage, archive, history
<1>2. CASE Stop /\ Others
  BY <1>2, <1>c DEF Stop, archive, history
<1>3. CASE Take /\ Others
  BY <1>3, <1>a, <1>b DEF Take, archive, history, Messages
<1>4. CASE ConsiderRule /\ Others
  BY <1>4, <1>a DEF ConsiderRule, Within, archive, history
<1>5. CASE NoRuleMatches /\ Others
  BY <1>5 DEF NoRuleMatches, Within, archive, history
<1>6. CASE AskTarget /\ Others
  <2>1. PICK v \in Vote \cup {Failed} : votes' = Append(votes, v)
    BY <1>6, <1>a, KeywordVoteType, ReceiptsAssumption DEF AskTarget
  <2>2. votes' \in Seq(Vote \cup {Failed}) /\ Len(votes') = Len(votes) + 1
    BY <2>1
  <2>3. Len(votes') <= Len(config.targets)
    BY <2>2, <1>6, <1>a DEF AskTarget
  <2> QED
    BY <1>6, <2>2, <2>3 DEF AskTarget, Within, archive, history
<1>7. CASE Combine /\ Others
  <2>1. PICK i \in Chosen : opinion' = votes[i]
    BY <1>7 DEF Combine
  <2>2. opinion' \in Vote \cup {NoOpinion}
    BY <2>1 DEF Chosen, NoOpinion
  <2> QED
    BY <1>7, <2>2 DEF Combine, Within, archive, history
<1>8. CASE Route /\ Others
  BY <1>8 DEF Route, Within, archive, history
<1>9. CASE ApplyAction /\ Others
  BY <1>9, <1>d DEF ApplyAction, archive, history
<1>10. CASE CallLLM /\ Others
  BY <1>10, ReceiptsAssumption DEF CallLLM, Within, archive, history
<1>11. CASE (ValidateVerdict \/ ConfidenceBand \/ ApplyVerdict \/ AlertOnly) /\ Others
  BY <1>11 DEF ValidateVerdict, ConfidenceBand, ApplyVerdict, AlertOnly, Within, archive, history
<1>12. CASE (Quarantine \/ MarkProcessed) /\ Others
  BY <1>12, <1>d DEF Quarantine, MarkProcessed, archive, history
<1>13. CASE LookUp
  <2>1. ASSUME step' = "keywords" \/ ~UNCHANGED extraction
        PROVE  extraction' \in Extraction
    <3>1. PICK c \in ResolveCompany(message), d \in ExtractDate(message) :
            extraction' = [company |-> c, date |-> d]
      BY <1>13, <2>1 DEF LookUp, At
    <3>2. message \in Messages
      BY <1>13 DEF LookUp, At
    <3> QED
      BY <3>1, <3>2, LookedUp
  <2>2. extraction' \in Extraction \cup {NoExtraction}
    BY <2>1
  <2>3. /\ step' \in {"keywords", "extract"} /\ Within
        /\ UNCHANGED <<tier1, tier2, archive, history>> /\ message \in Messages
    BY <1>13 DEF LookUp, At
  <2> QED
    BY <2>1, <2>2, <2>3 DEF Within, archive, history
<1>14. CASE AskTier2
  <2>1. message \in Messages
    BY <1>14 DEF AskTier2, At
  <2>2. extraction' \in Extraction
    BY <1>14, <2>1, MailType, ConfigType DEF AskTier2
  <2>3. answered' \in [Domains -> Nat]
    BY <1>14, <2>1, MailType DEF AskTier2
  <2> QED
    BY <1>14, <2>2, <2>3 DEF AskTier2, At, Within, archive, history
<1>15. CASE LearnKnownSender /\ extraction \in Extraction
  <2>1. message \in Messages
    BY <1>15 DEF LearnKnownSender, At
  <2>2. {extraction.company} \in Optional(DOMAIN CompanySlug)
    BY <1>15 DEF Extraction, Optional
  <2>3. known' \in [Domains -> Optional(DOMAIN CompanySlug)]
    <3> HIDE DEF Optional
    <3> QED
      BY <1>15, <2>1, <2>2, MailType DEF LearnKnownSender
  <2> HIDE DEF Optional
  <2> QED
    BY <1>15, <2>3 DEF LearnKnownSender, At, Within, history
<1>16. CASE ApplyKeywords /\ extraction \in Extraction
  <2>1. message \in Messages
    BY <1>16 DEF ApplyKeywords, At
  <2>2. tags' \in [Messages -> SUBSET Extraction]
    BY <1>16, <2>1 DEF ApplyKeywords
  <2> QED
    BY <1>16, <2>2 DEF ApplyKeywords, At, Within, history
<1>17. CASE SavePdf
  <2>1. message \in Messages
    BY <1>17 DEF SavePdf, At
  <2>2. Pages(message) \in Seq(Page)
    BY <2>1, PagesType
  <2>3. \A f \in files' : f.message \in Messages /\ f.pages \in Seq(Page)
    BY <1>17, <2>1, <2>2 DEF SavePdf
  <2> QED
    BY <1>17, <2>3 DEF SavePdf, At, Within, history
<1>18. CASE SettleReceipt
  BY <1>18, <1>d DEF SettleReceipt, archive, history
<1>19. CASE Abort
  BY <1>19, <1>c DEF Abort, archive, history
<1>20. CASE Kill
  <2>1. deaths' \in 0..MaxDeaths
    BY <1>20, <1>a DEF Kill
  <2>2. lost' \in [Domains -> Nat]
    BY <1>20, MailType DEF Kill
  <2> QED
    BY <1>20, <1>c, <2>1, <2>2 DEF Kill, archive
<1>0. (LearnKnownSender \/ ApplyKeywords) => extraction \in Extraction
  BY DEF LearnKnownSender, ApplyKeywords, At
<1>21. CASE UNCHANGED vars
  BY <1>21 DEF vars, decideVars, archive, history
<1> QED
  <2> HIDE DEF TypeOK, DecideTypeOK, InHand
  <2> QED
    BY <1>0, <1>1, <1>2, <1>3, <1>4, <1>5, <1>6, <1>7, <1>8, <1>9, <1>10, <1>11, <1>12, <1>13, <1>14,
       <1>15, <1>16, <1>17, <1>18, <1>19, <1>20, <1>21 DEF Next, Elsewhere, DecideNext, Archive

(* Types hold of every behaviour.                                           *)
THEOREM TypeCorrect == Spec => []TypeOK
<1>1. TypeOK /\ InHand /\ [Next]_vars => TypeOK' /\ InHand'
  BY TypeStep
<1> QED
  BY TypeInit, <1>1, PTL DEF Spec

-----------------------------------------------------------------------------
(* A step keeps out of the archive's state, or is one of the archive's.     *)
Archiving == {"extract", "learn", "keywords", "save", "filed"}

LEMMA DecideSteps ==
  ASSUME DecideNext
  PROVE  /\ step \notin Archiving \cup {"archive", "stopped", "down"} /\ step' \notin Archiving \cup {"stopped", "down"}
         /\ UNCHANGED <<config, observe>>
<1>1. CASE Tier1Steps
  BY <1>1 DEF Tier1Steps, Archiving, Take, ConsiderRule, NoRuleMatches, AskTarget, Combine,
     Route, ApplyAction, Settle, Within
<1>2. CASE Tier2Steps
  BY <1>2 DEF Tier2Steps, Archiving, CallLLM, ValidateVerdict, ConfidenceBand, ApplyVerdict,
     AlertOnly, Quarantine, MarkProcessed, Settle, Within
<1> QED
  BY <1>1, <1>2 DEF DecideNext, Tier1Steps, Tier2Steps

LEMMA ElsewhereSteps ==
  ASSUME Elsewhere
  PROVE  /\ step \notin Archiving /\ step' \notin Archiving
         /\ UNCHANGED <<config, extraction, archive, history>>
<1>1. CASE Start \/ Stop
  BY <1>1 DEF Start, Stop, Leave, Elsewhere, Archiving
<1>2. CASE DecideNext
  BY <1>2, DecideSteps DEF Elsewhere
<1> QED
  BY <1>1, <1>2 DEF Elsewhere

-----------------------------------------------------------------------------
(* Every answer about a sender was learned, or is being, or died; and none  *)
(* is asked for where one was learned.                                      *)
Learning(d) == step = "learn" /\ Datable(message) /\ Sender(message) = d
SenderInv ==
    /\ \A d \in Domains :
         answered[d] <= lost[d] + IF known[d] # {} \/ Learning(d) THEN 1 ELSE 0
    /\ step \in {"extract", "learn"} /\ Datable(message) => known[Sender(message)] = {}

LEMMA SenderStep == TypeOK /\ InHand /\ SenderInv /\ [Next]_vars => SenderInv'
<1> SUFFICES ASSUME TypeOK, InHand, SenderInv, [Next]_vars PROVE SenderInv'
  OBVIOUS
<1>a. /\ answered \in [Domains -> Nat] /\ lost \in [Domains -> Nat] /\ DOMAIN known = Domains
      /\ \A m \in Messages : Sender(m) \in Domains
  BY MailType DEF TypeOK
<1>1. ASSUME UNCHANGED <<known, answered, lost>>, step # "learn", step' \notin {"extract", "learn"}
      PROVE  SenderInv'
  BY <1>1, <1>a DEF SenderInv, Learning
<1>2. CASE Elsewhere
  BY <1>1, <1>2, ElsewhereSteps DEF Archiving, archive, history
<1>3. CASE LookUp
  <2>1. UNCHANGED <<known, answered, lost, message>> /\ step = "archive"
    BY <1>3 DEF LookUp, At, Within, archive, history
  <2>2. CASE step' = "extract"
    <3>1. ResolveCompany(message) = {} \/ ExtractDate(message) = {}
      BY <1>3, <2>2 DEF LookUp, At
    <3>2. Datable(message) => known[Sender(message)] = {}
      BY <3>1 DEF Datable, ResolveCompany, Sender
    <3> QED
      BY <2>1, <2>2, <3>2, <1>a DEF SenderInv, Learning, Datable, Sender, ExtractDate
  <2>3. CASE step' = "keywords"
    BY <1>1, <2>1, <2>3
  <2> QED
    BY <1>3, <2>2, <2>3 DEF LookUp, At
<1>4. CASE AskTier2
  <2>1. /\ step = "extract" /\ step' = "learn" /\ UNCHANGED <<known, lost, message>>
        /\ message \in Messages
        /\ answered' = IF Datable(message) THEN [answered EXCEPT ![Sender(message)] = @ + 1]
                       ELSE answered
    BY <1>4 DEF AskTier2, At, Within, archive, InHand
  <2>2. Datable(message)' = Datable(message) /\ Sender(message)' = Sender(message)
    BY <2>1 DEF Datable, ExtractDate, Sender
  <2>3. ASSUME NEW d \in Domains
        PROVE  answered'[d] <= lost'[d] + IF known'[d] # {} \/ Learning(d)' THEN 1 ELSE 0
    BY <2>1, <2>2, <1>a DEF SenderInv, Learning
  <2> QED
    BY <2>1, <2>2, <2>3 DEF SenderInv
<1>5. CASE LearnKnownSender
  <2>1. /\ step = "learn" /\ step' = "keywords" /\ UNCHANGED <<answered, lost>>
        /\ known' = [known EXCEPT ![Sender(message)] = {extraction.company}]
    BY <1>5 DEF LearnKnownSender, At, history
  <2> QED
    BY <2>1, <1>a DEF SenderInv, Learning
<1>6. CASE ApplyKeywords \/ SavePdf \/ SettleReceipt
  BY <1>1, <1>6 DEF ApplyKeywords, SavePdf, SettleReceipt, Settle, At, archive, history
<1>7. CASE Abort
  <2>1. step # "learn"
    BY <1>7 DEF Abort, Raises, ArchiveRaises
  <2> QED
    BY <1>1, <1>7, <2>1 DEF Abort, Leave, archive, history
<1>8. CASE Kill
  <2>1. /\ step' = "down" /\ UNCHANGED <<known, answered>>
        /\ lost' = IF step = "learn" /\ Datable(message)
                   THEN [lost EXCEPT ![Sender(message)] = @ + 1] ELSE lost
        /\ step = "learn" => message \in Messages
    BY <1>8 DEF Kill, Leave, archive, InHand
  <2> QED
    BY <2>1, <1>a DEF SenderInv, Learning
<1>9. CASE UNCHANGED vars
  BY <1>9 DEF vars, decideVars, archive, history, SenderInv, Learning, Datable, ExtractDate, Sender
<1> QED
  BY <1>2, <1>3, <1>4, <1>5, <1>6, <1>7, <1>8, <1>9 DEF Next, Archive

(* No sender is asked about twice, but for answers that died before they    *)
(* were learned and for mail that states no date.                           *)
THEOREM SendersAskedOnce == Spec => []SenderAskedOnce
<1>1. Init => SenderInv
  BY DEF Init, DecideInit, SenderInv, Learning
<1>2. TypeOK /\ SenderInv => SenderAskedOnce
  BY DEF TypeOK, SenderInv, SenderAskedOnce
<1>3. /\ TypeOK /\ InHand /\ [Next]_vars => TypeOK' /\ InHand'
      /\ TypeOK /\ InHand /\ SenderInv /\ [Next]_vars => SenderInv'
  BY TypeStep, SenderStep
<1> QED
  BY TypeInit, <1>1, <1>2, <1>3, PTL DEF Spec


-----------------------------------------------------------------------------
(* The engine's loop: no rule before the one it looks at fits, for what is  *)
(* known of the classification; and it classifies for a rule it reached.    *)
Reached == \A j \in 1..(next - 1) :
              IF opinion.succeeded THEN ~Fits(j, message, opinion.category)
              ELSE \A c \in Categories : ~Fits(j, message, c)
EngineInv ==
    /\ step \in {"rules", "classify"} => matched = NoRule /\ Reached
    /\ step = "classify" => /\ next \in DOMAIN config.rules /\ config.rules[next].enabled
                            /\ Asks(config.rules[next], message) /\ ~opinion.succeeded
    /\ step = "rules" /\ ~opinion.succeeded => votes = <<>>
    /\ FirstMatchWins

(* A vote of the classifiers names a category; a failure is none.           *)
LEMMA Succeeded ==
  /\ ~Failed.succeeded
  /\ \A v \in Vote : v.succeeded /\ v.category \in Categories
<1>1. Failed.succeeded = FALSE
  BY DEF Failed
<1>2. ASSUME NEW v \in Vote PROVE v.succeeded \in {TRUE} /\ v.category \in Categories
  BY DEF Vote
<1>3. ASSUME NEW v \in Vote PROVE v.succeeded = TRUE
  BY <1>2
<1> QED
  BY <1>1, <1>2, <1>3, Zenon

(* A rule that asked for no category fits whatever the mail is called.      *)
LEMMA Unasked ==
  ASSUME NEW k, NEW b, NEW c, ~Asks(config.rules[k], message),
         ConditionMatches(config.rules[k], message, b)
  PROVE  ConditionMatches(config.rules[k], message, c)
BY DEF Asks, ConditionMatches

LEMMA EngineStep == TypeOK /\ InHand /\ EngineInv /\ [Next]_vars => EngineInv'
<1> SUFFICES ASSUME TypeOK, InHand, EngineInv, [Next]_vars PROVE EngineInv'
  OBVIOUS
<1>a. /\ config \in Configs /\ config.rules \in Seq(Rule) /\ Len(config.rules) \in Nat
      /\ DOMAIN config.rules = 1..Len(config.rules)
      /\ next \in 1..(Len(config.rules) + 1) /\ matched \in 0..Len(config.rules)
      /\ opinion \in Vote \cup {NoOpinion} /\ votes \in Seq(Vote \cup {Failed})
  <2>1. config \in Configs
    BY DEF TypeOK, DecideTypeOK
  <2>2. config.rules \in Seq(Rule)
    BY <2>1, ConfigType
  <2> QED
    BY <2>1, <2>2 DEF TypeOK, DecideTypeOK
<1>b. \E c \in Categories : TRUE
  BY ReceiptsAssumption
<1>c. opinion = NoOpinion <=> ~opinion.succeeded
  BY <1>a, Succeeded DEF NoOpinion
<1>1. ASSUME UNCHANGED <<config, tier1, message>>, step' \notin {"rules", "classify"},
             Decided' => Decided
      PROVE  EngineInv'
  BY <1>1 DEF EngineInv, FirstMatchWins, RuleFor, Fits, Asks, ConditionMatches, SenderFits, tier1
<1>2. ASSUME UNCHANGED config, Forget, step' \in {"rules", "idle", "stopped", "down"}
      PROVE  EngineInv'
  <2>1. next' = 1 /\ votes' = <<>> /\ matched' = NoRule /\ ~(opinion').succeeded
    BY <1>2 DEF Forget, NoOpinion, Failed
  <2>2. ~Decided'
    BY <1>2 DEF Decided
  <2>3. Reached'
    BY <2>1 DEF Reached
  <2> QED
    BY <1>2, <2>1, <2>2, <2>3 DEF EngineInv, FirstMatchWins
<1>3. CASE Start \/ Stop \/ Take \/ Abort \/ Kill
  BY <1>2, <1>3 DEF Start, Stop, Leave, Take, Abort, Kill
<1>4. CASE ConsiderRule
  <2> DEFINE r == config.rules[next]
  <2>1. /\ step = "rules" /\ next \in DOMAIN config.rules /\ matched = NoRule /\ Reached
        /\ UNCHANGED <<config, message, votes, opinion>>
    BY <1>4, <1>a DEF ConsiderRule, Within, EngineInv
  <2>2. \A m, k, c : Fits(k, m, c)' = Fits(k, m, c)
    BY <2>1 DEF Fits, ConditionMatches, SenderFits
  <2>3. votes # <<>> => \E k \in DOMAIN config.rules :
            /\ k <= next /\ config.rules[k].enabled /\ Asks(config.rules[k], message)
            /\ \A j \in 1..(k - 1) : ~\A c \in Categories : Fits(j, message, c)
    BY DEF EngineInv, FirstMatchWins
  <2>4. CASE r.enabled /\ Asks(r, message) /\ opinion = NoOpinion
    <3>1. step' = "classify" /\ UNCHANGED <<next, matched>>
      BY <1>4, <2>4 DEF ConsiderRule
    <3>2. Reached'
      BY <2>1, <2>2, <3>1 DEF Reached
    <3>3. ~Decided'
      BY <3>1 DEF Decided
    <3>4. votes = <<>>
      BY <2>1, <2>4, <1>c DEF EngineInv
    <3>5. Asks(config.rules[next], message)'
      BY <2>1, <2>4, <3>1 DEF Asks, SenderFits
    <3> QED
      BY <2>1, <2>4, <3>1, <3>2, <3>3, <3>4, <3>5, <1>c DEF EngineInv, FirstMatchWins
  <2>5. CASE /\ ~(r.enabled /\ Asks(r, message) /\ opinion = NoOpinion)
             /\ r.enabled /\ ConditionMatches(r, message, opinion.category)
    <3>1. step' = "route" /\ matched' = next /\ UNCHANGED next
      BY <1>4, <2>5 DEF ConsiderRule
    <3>2. opinion.succeeded => RuleFor(next, message, opinion.category)
      BY <2>1, <2>5, <1>a DEF RuleFor, Reached, Fits, NoRule
    <3>3. ~opinion.succeeded => \A c \in Categories : RuleFor(next, message, c)
      <4> SUFFICES ASSUME ~opinion.succeeded, NEW c \in Categories PROVE RuleFor(next, message, c)
        OBVIOUS
      <4>1. Fits(next, message, c)
        BY <2>5, <1>c, Unasked DEF Fits
      <4> QED
        BY <4>1, <2>1, <1>a DEF RuleFor, Reached, NoRule
    <3>4. \A k, m, c : RuleFor(k, m, c)' = RuleFor(k, m, c)
      BY <2>1, <2>2 DEF RuleFor
    <3>5. FirstMatchWins'
      BY <2>1, <2>2, <2>3, <3>1, <3>2, <3>3, <3>4 DEF FirstMatchWins, Asks, SenderFits
    <3> QED
      BY <3>1, <3>5 DEF EngineInv
  <2>6. CASE /\ ~(r.enabled /\ Asks(r, message) /\ opinion = NoOpinion)
             /\ ~(r.enabled /\ ConditionMatches(r, message, opinion.category))
    <3>1. step' = "rules" /\ next' = next + 1 /\ UNCHANGED matched
      BY <1>4, <2>1, <2>6 DEF ConsiderRule
    <3>2. opinion.succeeded => ~Fits(next, message, opinion.category)
      BY <2>6 DEF Fits
    <3>3. ~opinion.succeeded => \A c \in Categories : ~Fits(next, message, c)
      BY <2>6, <1>c, Unasked DEF Fits
    <3>4. \A j \in 1..(next' - 1) : j \in 1..(next - 1) \/ j = next
      BY <3>1, <1>a
    <3>5. Reached'
      BY <2>1, <2>2, <3>2, <3>3, <3>4 DEF Reached
    <3>6. ~Decided'
      BY <3>1 DEF Decided
    <3>7. FirstMatchWins'
      BY <2>1, <2>2, <2>3, <3>1, <3>6, <1>a DEF FirstMatchWins, Asks, SenderFits
    <3>8. ~(opinion').succeeded => votes' = <<>>
      BY <2>1 DEF EngineInv
    <3> QED
      BY <2>1, <3>1, <3>5, <3>7, <3>8 DEF EngineInv
  <2> QED
    BY <2>4, <2>5, <2>6
<1>5. CASE NoRuleMatches
  <2>1. /\ step = "rules" /\ step' = "route" /\ next = Len(config.rules) + 1 /\ matched = 0 /\ Reached
        /\ UNCHANGED <<config, message, next, votes, opinion, matched>>
    BY <1>5, <1>a DEF NoRuleMatches, Within, EngineInv, NoRule, tier1
  <2>2. \A m, k, c : Fits(k, m, c)' = Fits(k, m, c)
    BY <2>1 DEF Fits, ConditionMatches, SenderFits
  <2>3. IF opinion.succeeded THEN RuleFor(matched, message, opinion.category)
        ELSE \A c \in Categories : RuleFor(matched, message, c)
    BY <2>1, <1>a DEF RuleFor, Reached, NoRule
  <2>4. \A k, m, c : RuleFor(k, m, c)' = RuleFor(k, m, c)
    BY <2>1, <2>2 DEF RuleFor
  <2>5. FirstMatchWins'
    BY <2>1, <2>2, <2>3, <2>4 DEF FirstMatchWins, EngineInv, Asks, SenderFits
  <2> QED
    BY <2>1, <2>5 DEF EngineInv
<1>6. CASE AskTarget
  <2>1. /\ step = "classify" /\ UNCHANGED <<config, message, step, next, opinion, matched>>
        /\ matched = NoRule /\ Reached
        /\ next \in DOMAIN config.rules /\ config.rules[next].enabled
        /\ Asks(config.rules[next], message) /\ ~opinion.succeeded
    BY <1>6 DEF AskTarget, Within, EngineInv
  <2>2. \A m, k, c : Fits(k, m, c)' = Fits(k, m, c)
    BY <2>1 DEF Fits, ConditionMatches, SenderFits
  <2>3. \A j \in 1..(next - 1) : ~\A c \in Categories : Fits(j, message, c)
    BY <2>1, <1>b DEF Reached
  <2>4. Asks(config.rules[next], message)' /\ Reached' /\ ~Decided'
    BY <2>1, <2>2 DEF Asks, SenderFits, Reached, Decided
  <2>5. FirstMatchWins'
    BY <2>1, <2>2, <2>3, <2>4, <1>a DEF FirstMatchWins
  <2> QED
    BY <2>1, <2>4, <2>5 DEF EngineInv
<1>7. CASE Combine
  <2>1. /\ step = "classify" /\ step' = "rules" /\ UNCHANGED <<config, message, votes, next, matched>>
        /\ matched = NoRule /\ Reached /\ ~opinion.succeeded
    BY <1>7 DEF Combine, Within, EngineInv
  <2>2. \A m, k, c : Fits(k, m, c)' = Fits(k, m, c)
    BY <2>1 DEF Fits, ConditionMatches, SenderFits
  <2>3. (opinion').succeeded /\ (opinion').category \in Categories
    <3>1. PICK i \in Chosen : opinion' = votes[i]
      BY <1>7 DEF Combine
    <3>2. votes[i] \in Vote \cup {Failed} /\ votes[i].succeeded
      BY <1>a, <3>1 DEF Chosen
    <3> QED
      BY <3>1, <3>2, Succeeded
  <2>4. Reached' /\ ~Decided'
    BY <2>1, <2>2, <2>3 DEF Reached, Decided
  <2>5. FirstMatchWins'
    BY <2>1, <2>2, <2>4 DEF FirstMatchWins, EngineInv, Asks, SenderFits
  <2> QED
    BY <2>1, <2>3, <2>4, <2>5 DEF EngineInv
<1>8. CASE Route \/ ApplyAction
  BY <1>1, <1>8 DEF Route, ApplyAction, Settle, Within, Decided
<1>9. CASE Tier2Steps
  BY <1>1, <1>9 DEF Tier2Steps, CallLLM, ValidateVerdict, ConfidenceBand, ApplyVerdict, AlertOnly,
     Quarantine, MarkProcessed, Settle, Within, Decided
<1>10. CASE Archive
  BY <1>1, <1>10 DEF Archive, LookUp, AskTier2, LearnKnownSender, ApplyKeywords, SavePdf,
     SettleReceipt, Settle, At, Within, Decided
<1>11. CASE UNCHANGED vars
  BY <1>11 DEF vars, decideVars, EngineInv, Reached, FirstMatchWins, RuleFor, Fits, Asks,
     ConditionMatches, SenderFits, Decided, tier1
<1> QED
  BY <1>3, <1>4, <1>5, <1>6, <1>7, <1>8, <1>9, <1>10, <1>11 DEF Next, Elsewhere, DecideNext, Tier2Steps

(* The first enabled rule that matches is obeyed; late classification       *)
(* changes no outcome.                                                      *)
THEOREM FirstEnabledRuleWins == Spec => []FirstMatchWins
<1>1. Init => EngineInv
  BY DEF Init, DecideInit, EngineInv, FirstMatchWins, Decided
<1>2. EngineInv => FirstMatchWins
  BY DEF EngineInv
<1>3. /\ TypeOK /\ InHand /\ [Next]_vars => TypeOK' /\ InHand'
      /\ TypeOK /\ InHand /\ EngineInv /\ [Next]_vars => EngineInv'
  BY TypeStep, EngineStep
<1> QED
  BY TypeInit, <1>1, <1>2, <1>3, PTL DEF Spec


-----------------------------------------------------------------------------
(* What each station of Tier 2 knows of the verdict that reached it.        *)
VerdictInv ==
    /\ step = "validate" => IsVerdict(verdict)
    /\ step \in {"band", "autoact", "autoact_alert", "alert_only"} => Offers(verdict)
    /\ step \in {"autoact", "autoact_alert"} => SaneThresholds /\ verdict.confidence >= config.alert
    /\ step = "autoact" => verdict.confidence >= config.autoact
    /\ step = "quarantine" =>
         verdict = NoVerdict \/ ~Offers(verdict) \/ NeedsMailbox(verdict.action)
    /\ step \notin {"idle", "mark"} => effects = {}
    /\ WithinTheOffer

LEMMA VerdictStep == TypeOK /\ VerdictInv /\ [Next]_vars => VerdictInv'
<1> SUFFICES ASSUME TypeOK, VerdictInv, [Next]_vars PROVE VerdictInv'
  OBVIOUS
<1>a. config.alert \in Int /\ config.autoact \in Int
  BY ConfigType DEF TypeOK, DecideTypeOK
<1>b. verdict \in Answer \cup {NoVerdict} /\ verdict.confidence \in Int
  BY DEF TypeOK, DecideTypeOK, Answer, NoVerdict, NaN
<1> DEFINE Quiet == {"rules", "classify", "route", "apply", "tier2", "stopped", "down"}
                    \cup Archiving \cup {"archive"}
<1>1. ASSUME effects' = {}, step' \in Quiet
      PROVE  VerdictInv'
  BY <1>1 DEF VerdictInv, WithinTheOffer, Archiving
<1>2. CASE Start \/ Stop \/ Abort \/ Kill
  <2>1. effects' = {} /\ step' \in {"idle", "stopped", "down"}
    BY <1>2 DEF Start, Stop, Abort, Kill, Leave, Forget
  <2> QED
    BY <2>1 DEF VerdictInv, WithinTheOffer
<1>3. CASE Tier1Steps
  <2>1. CASE Take
    <3>1. effects' = {} /\ step' \in {"rules", "idle"}
      BY <2>1 DEF Take, Forget
    <3> QED
      BY <3>1 DEF VerdictInv, WithinTheOffer
  <2>2. CASE ConsiderRule \/ NoRuleMatches \/ AskTarget \/ Combine
    BY <1>1, <2>2 DEF ConsiderRule, NoRuleMatches, AskTarget, Combine, tier2, VerdictInv
  <2>3. CASE Route \/ ApplyAction
    <3>1. effects' = {} /\ step' \in {"archive", "idle", "tier2", "apply"}
      BY <2>3 DEF Route, ApplyAction, Settle, tier2, VerdictInv
    <3> QED
      BY <3>1 DEF VerdictInv, WithinTheOffer
  <2> QED
    BY <1>3, <2>1, <2>2, <2>3 DEF Tier1Steps
<1>4. CASE Archive
  <2>1. /\ effects' = {} /\ step' \in Archiving \cup {"idle"}
    BY <1>4 DEF Archive, LookUp, AskTier2, LearnKnownSender, ApplyKeywords, SavePdf,
       SettleReceipt, Settle, At, tier2, VerdictInv, Archiving
  <2> QED
    BY <2>1 DEF VerdictInv, WithinTheOffer, Archiving
<1>5. CASE CallLLM
  <2>1. effects' = {} /\ step' \in {"validate", "quarantine"}
    BY <1>5 DEF CallLLM, VerdictInv
  <2>2. step' = "validate" => IsVerdict(verdict')
    BY <1>5 DEF CallLLM
  <2>3. step' = "quarantine" => verdict' = NoVerdict \/ ~IsVerdict(verdict')
    BY <1>5 DEF CallLLM
  <2>4. IsVerdict(verdict)' = IsVerdict(verdict') /\ (Offers(verdict)' => IsVerdict(verdict'))
    BY DEF IsVerdict, Offers
  <2> QED
    BY <2>1, <2>2, <2>3, <2>4 DEF VerdictInv, WithinTheOffer
<1>6. CASE ValidateVerdict
  <2>1. /\ UNCHANGED <<config, verdict, effects>> /\ effects = {} /\ IsVerdict(verdict)
        /\ step' = IF Offers(verdict) THEN "band" ELSE "quarantine"
    BY <1>6 DEF ValidateVerdict, Within, tier2, VerdictInv, Offers
  <2>2. Offers(verdict)' = Offers(verdict)
    BY <2>1 DEF Offers, IsVerdict
  <2> QED
    BY <2>1, <2>2 DEF VerdictInv, WithinTheOffer
<1>7. CASE ConfidenceBand
  <2>1. /\ UNCHANGED <<config, verdict, effects>> /\ effects = {} /\ Offers(verdict) /\ SaneThresholds
        /\ step' \in {"autoact", "autoact_alert", "alert_only"}
        /\ step' = "autoact" => verdict.confidence >= config.autoact
        /\ step' = "autoact_alert" => verdict.confidence >= config.alert
    BY <1>7, <1>a, <1>b DEF ConfidenceBand, Within, tier2, VerdictInv
  <2>2. Offers(verdict)' = Offers(verdict) /\ SaneThresholds' = SaneThresholds
    BY <2>1 DEF Offers, IsVerdict, SaneThresholds
  <2>3. step' \in {"autoact", "autoact_alert"} => verdict.confidence >= config.alert
    BY <2>1, <1>a, <1>b DEF SaneThresholds
  <2> QED
    BY <2>1, <2>2, <2>3 DEF VerdictInv, WithinTheOffer
<1>8. CASE ApplyVerdict
  <2>1. /\ UNCHANGED <<config, verdict>> /\ effects = {} /\ Offers(verdict) /\ SaneThresholds
        /\ verdict.confidence >= config.alert
        /\ step = "autoact" => verdict.confidence >= config.autoact
    BY <1>8 DEF ApplyVerdict, Within, VerdictInv
  <2>2. /\ Offers(verdict)' = Offers(verdict) /\ NeedsMailbox(verdict.action)' = NeedsMailbox(verdict.action)
    BY <2>1 DEF Offers, IsVerdict, NeedsMailbox
  <2>3. CASE NeedsMailbox(verdict.action)
    <3>1. step' = "quarantine" /\ effects' = {}
      BY <1>8, <2>1, <2>3 DEF ApplyVerdict
    <3> QED
      BY <2>1, <2>2, <2>3, <3>1 DEF VerdictInv, WithinTheOffer
  <2>4. CASE ~NeedsMailbox(verdict.action)
    <3>1. /\ step' = "mark" /\ step \in {"autoact", "autoact_alert"}
          /\ effects' = IF step = "autoact_alert" \/ verdict.urgency = "high"
                          THEN {"acted", "alerted"} ELSE {"acted"}
      BY <1>8, <2>4 DEF ApplyVerdict
    <3> QED
      BY <2>1, <2>2, <2>4, <3>1 DEF VerdictInv, WithinTheOffer, SaneThresholds
  <2> QED
    BY <2>3, <2>4
<1>9. CASE AlertOnly
  BY <1>9 DEF AlertOnly, VerdictInv, WithinTheOffer
<1>10. CASE Quarantine
  <2>1. /\ UNCHANGED <<config, verdict>> /\ effects' = {"quarantined", "alerted"} /\ step' = "idle"
        /\ verdict = NoVerdict \/ ~Offers(verdict) \/ NeedsMailbox(verdict.action)
    BY <1>10 DEF Quarantine, Settle, VerdictInv
  <2>2. /\ Offers(verdict)' = Offers(verdict) /\ NeedsMailbox(verdict.action)' = NeedsMailbox(verdict.action)
    BY <2>1 DEF Offers, IsVerdict, NeedsMailbox
  <2> QED
    BY <2>1, <2>2 DEF VerdictInv, WithinTheOffer
<1>11. CASE MarkProcessed
  <2>1. UNCHANGED <<config, verdict, effects>> /\ step' = "idle"
    BY <1>11 DEF MarkProcessed, Settle, tier2
  <2> QED
    BY <2>1 DEF VerdictInv, WithinTheOffer, Offers, IsVerdict, NeedsMailbox
<1>12. CASE UNCHANGED vars
  BY <1>12 DEF vars, decideVars, tier2, VerdictInv, WithinTheOffer, Offers, IsVerdict, NeedsMailbox,
     SaneThresholds
<1> QED
  BY <1>2, <1>3, <1>4, <1>5, <1>6, <1>7, <1>8, <1>9, <1>10, <1>11, <1>12
     DEF Next, Elsewhere, DecideNext, Tier1Steps

(* Tier 2 acts on nothing the prompt did not offer and below no threshold,  *)
(* and quarantines no verdict that keeps to the offer.                      *)
THEOREM ActsWithinTheOffer == Spec => []WithinTheOffer
<1>1. Init => VerdictInv
  BY DEF Init, DecideInit, VerdictInv, WithinTheOffer
<1>2. VerdictInv => WithinTheOffer
  BY DEF VerdictInv
<1>3. /\ TypeOK /\ InHand /\ [Next]_vars => TypeOK' /\ InHand'
      /\ TypeOK /\ VerdictInv /\ [Next]_vars => VerdictInv'
  BY TypeStep, VerdictStep
<1> QED
  BY TypeInit, <1>1, <1>2, <1>3, PTL DEF Spec


-----------------------------------------------------------------------------
(* The archive's steps are taken for a rule that says so, and where the     *)
(* archive is configured.                                                   *)
Ruled(m) == /\ config.archive
            /\ \E k \in DOMAIN config.rules, c \in Categories :
                 RuleFor(k, m, c) /\ config.rules[k].action.type = "archive_receipt"
RuledInv ==
    /\ step \in Archiving \cup {"archive"} =>
         config.archive /\ ActionTaken.type = "archive_receipt"
    /\ OnlyRuledReceipts

LEMMA RulesStand ==
  ASSUME UNCHANGED config
  PROVE  \A k, m, c : RuleFor(k, m, c)' = RuleFor(k, m, c)
BY DEF RuleFor, Fits, ConditionMatches, SenderFits

LEMMA InHandIsRuled ==
  ASSUME TypeOK, FirstMatchWins, RuledInv, step \in Archiving
  PROVE  Ruled(message)
<1>1. config \in Configs /\ matched \in 0..Len(config.rules) /\ opinion \in Vote \cup {NoOpinion}
  BY DEF TypeOK, DecideTypeOK
<1>2. config.archive /\ ActionTaken.type = "archive_receipt"
  BY DEF RuledInv
<1>3. config.rules \in Seq(Rule) /\ config.default \in {"escalate", "ignore"}
  BY <1>1, ConfigType
<1>4. /\ matched # NoRule /\ matched \in DOMAIN config.rules
      /\ config.rules[matched].action.type = "archive_receipt"
  BY <1>1, <1>2, <1>3 DEF ActionTaken, NoRule
<1>5. \E c \in Categories : RuleFor(matched, message, c)
  <2>1. Decided
    BY DEF Decided, Archiving
  <2>2. CASE opinion.succeeded
    BY <1>1, <2>1, <2>2, Succeeded DEF FirstMatchWins, NoOpinion
  <2>3. CASE ~opinion.succeeded
    BY <2>1, <2>3, ReceiptsAssumption DEF FirstMatchWins
  <2> QED
    BY <2>2, <2>3
<1> QED
  BY <1>2, <1>4, <1>5 DEF Ruled

(* Only the archive's steps tag, file and record, and only the message in   *)
(* hand.                                                                    *)
LEMMA RuledStep == TypeOK /\ InHand /\ EngineInv /\ RuledInv /\ [Next]_vars => RuledInv'
<1> SUFFICES ASSUME TypeOK, InHand, EngineInv, RuledInv, [Next]_vars PROVE RuledInv'
  OBVIOUS
<1>a. row \in [Messages -> {"none", "tier1", "tier2", "receipt", "observed_receipt"}]
  BY DEF TypeOK, DecideTypeOK
<1>b. tags \in [Messages -> SUBSET Extraction] /\ \A f \in files : f.message \in Messages
  BY DEF TypeOK
<1>c. FirstMatchWins
  BY DEF EngineInv
<1>d. OnlyRuledReceipts =
        \A m \in Messages :
          (tags[m] # {} \/ row[m] \in {"receipt", "observed_receipt"} \/ \E f \in files : f.message = m)
          => Ruled(m)
  BY DEF OnlyRuledReceipts, Ruled
<1>e. ASSUME UNCHANGED <<config, tags, files>>,
             \A m \in Messages : row'[m] \in {"receipt", "observed_receipt"} => row[m] = row'[m]
      PROVE  OnlyRuledReceipts'
  BY <1>e, RulesStand DEF RuledInv, OnlyRuledReceipts
<1>f. ASSUME NEW how \in {"tier1", "tier2"}, row' = [row EXCEPT ![message] = how]
      PROVE  \A m \in Messages : row'[m] \in {"receipt", "observed_receipt"} => row[m] = row'[m]
  BY <1>a, <1>f
<1>g. step \in Archiving => Ruled(message)
  BY <1>c, InHandIsRuled
<1>h. ASSUME step \in Archiving \cup {"archive"}, UNCHANGED <<config, matched>>
      PROVE  (config.archive /\ ActionTaken.type = "archive_receipt")'
  BY <1>h DEF RuledInv, ActionTaken
<1>1. CASE Elsewhere
  <2>1. UNCHANGED <<config, tags, files>> /\ step' \notin Archiving
    BY <1>1, ElsewhereSteps DEF archive
  <2>2. \A m \in Messages : row'[m] \in {"receipt", "observed_receipt"} => row[m] = row'[m]
    <3>1. CASE UNCHANGED row
      BY <3>1
    <3>2. CASE ApplyAction \/ Quarantine \/ MarkProcessed
      BY <3>2, <1>f DEF ApplyAction, Quarantine, MarkProcessed, Settle
    <3> QED
      BY <1>1, <3>1, <3>2 DEF Elsewhere, Start, Stop, Leave, DecideNext, Take, ConsiderRule,
         NoRuleMatches, AskTarget, Combine, Route, CallLLM, ValidateVerdict, ConfidenceBand,
         ApplyVerdict, AlertOnly, Within
  <2>3. step' = "archive" => Route
    BY <1>1 DEF Elsewhere, Start, Stop, Leave, DecideNext, Take, ConsiderRule,
       NoRuleMatches, AskTarget, Combine, ApplyAction, CallLLM, ValidateVerdict, ConfidenceBand,
       ApplyVerdict, AlertOnly, Quarantine, MarkProcessed, Settle
  <2>4. ASSUME step' = "archive"
        PROVE  (config.archive /\ ActionTaken.type = "archive_receipt")'
    BY <2>3, <2>4 DEF Route, Within, tier1, ActionTaken
  <2> QED
    BY <1>e, <2>1, <2>2, <2>4 DEF RuledInv
<1>2. CASE LookUp \/ AskTier2 \/ LearnKnownSender
  <2>1. /\ step \in Archiving \cup {"archive"} /\ UNCHANGED <<config, matched, tags, files, row>>
    BY <1>2 DEF LookUp, AskTier2, LearnKnownSender, At, Within, archive, tier1, Archiving
  <2> QED
    BY <1>e, <1>h, <2>1 DEF RuledInv
<1>3. CASE ApplyKeywords
  <2>1. /\ step \in Archiving /\ UNCHANGED <<config, matched, files, row, message>>
        /\ message \in Messages
        /\ \A m \in Messages : m # message => tags'[m] = tags[m]
    BY <1>3, <1>b DEF ApplyKeywords, At, Within, tier1, Archiving, InHand
  <2>2. OnlyRuledReceipts'
    BY <1>d, <1>g, <2>1, RulesStand DEF RuledInv, OnlyRuledReceipts, Ruled
  <2> QED
    BY <1>h, <2>1, <2>2 DEF RuledInv
<1>4. CASE SavePdf
  <2>1. /\ step \in Archiving /\ UNCHANGED <<config, matched, tags, row, message>>
        /\ \A f \in files' : f \in files \/ f.message = message
    BY <1>4 DEF SavePdf, At, Within, tier1, Archiving
  <2>2. OnlyRuledReceipts'
    BY <1>d, <1>g, <2>1, RulesStand DEF RuledInv, OnlyRuledReceipts, Ruled
  <2> QED
    BY <1>h, <2>1, <2>2 DEF RuledInv
<1>5. CASE SettleReceipt
  <2>1. /\ step \in Archiving /\ step' = "idle" /\ UNCHANGED <<config, matched, tags, files, message>>
        /\ \A m \in Messages : m # message => row'[m] = row[m]
    BY <1>5, <1>a DEF SettleReceipt, Settle, tier1, archive, Archiving
  <2>2. OnlyRuledReceipts'
    BY <1>d, <1>g, <2>1, RulesStand DEF RuledInv, OnlyRuledReceipts, Ruled
  <2> QED
    BY <2>1, <2>2 DEF RuledInv, Archiving
<1>6. CASE Abort \/ Kill
  <2>1. step' = "down" /\ UNCHANGED <<config, tags, files, row>>
    BY <1>6 DEF Abort, Kill, Leave, archive
  <2> QED
    BY <1>e, <2>1 DEF RuledInv, Archiving
<1>7. CASE UNCHANGED vars
  <2>1. UNCHANGED <<config, tags, files, row, step, matched>>
    BY <1>7 DEF vars, decideVars, archive, tier1
  <2> QED
    BY <1>e, <1>h, <2>1 DEF RuledInv
<1> QED
  BY <1>1, <1>2, <1>3, <1>4, <1>5, <1>6, <1>7 DEF Next, Archive

(* Only a rule files a receipt.                                             *)
THEOREM ReceiptsAreRuled == Spec => []OnlyRuledReceipts
<1>1. Init => EngineInv /\ RuledInv
  BY DEF Init, DecideInit, EngineInv, FirstMatchWins, Decided, RuledInv, OnlyRuledReceipts, Archiving
<1>2. RuledInv => OnlyRuledReceipts
  BY DEF RuledInv
<1>3. /\ TypeOK /\ InHand /\ [Next]_vars => TypeOK' /\ InHand'
      /\ TypeOK /\ InHand /\ EngineInv /\ [Next]_vars => EngineInv'
      /\ TypeOK /\ InHand /\ EngineInv /\ RuledInv /\ [Next]_vars => RuledInv'
  BY TypeStep, EngineStep, RuledStep
<1> QED
  BY TypeInit, <1>1, <1>2, <1>3, PTL DEF Spec

-----------------------------------------------------------------------------
(* A message is kept when it is tagged and a file bears the name it gives;  *)
(* the file is a message's of the same slug, with all of its pages.         *)
Own(f, m) == /\ Mail[f.message].slug = Mail[m].slug
             /\ Len(f.pages) = 1 + Len(Mail[f.message].attachments)
Kept(m) == \E x \in tags[m], f \in files : f.name = FileName(m, x) /\ Own(f, m)
ReceiptInv ==
    /\ \A f \in files : /\ f.name.id = Mail[f.message].slug
                        /\ Len(f.pages) = 1 + Len(Mail[f.message].attachments)
    /\ step = "save" => extraction \in tags[message]
    /\ step = "filed" /\ ~observe => Kept(message)
    /\ ReceiptKept

LEMMA ReceiptStep == TypeOK /\ InHand /\ ReceiptInv /\ [Next]_vars => ReceiptInv'
<1> SUFFICES ASSUME TypeOK, InHand, ReceiptInv, [Next]_vars PROVE ReceiptInv'
  OBVIOUS
<1>a. row \in [Messages -> {"none", "tier1", "tier2", "receipt", "observed_receipt"}]
      /\ observe \in BOOLEAN
  BY DEF TypeOK, DecideTypeOK
<1>b. tags \in [Messages -> SUBSET Extraction]
  BY DEF TypeOK
<1>c. ReceiptKept = \A m \in Messages : row[m] = "receipt" => Kept(m)
  BY DEF ReceiptKept, Kept, Own
<1>1. ASSUME UNCHANGED <<tags, files>>, step' \notin {"save", "filed"},
             \A m \in Messages : row'[m] = "receipt" => row[m] = "receipt"
      PROVE  ReceiptInv'
  BY <1>1 DEF ReceiptInv, ReceiptKept
<1>2. CASE Elsewhere
  <2>1. UNCHANGED <<tags, files>> /\ step' \notin {"save", "filed"}
    BY <1>2, ElsewhereSteps DEF archive, Archiving
  <2>2. CASE UNCHANGED row
    BY <1>1, <2>1, <2>2
  <2>3. CASE ApplyAction \/ Quarantine \/ MarkProcessed
    BY <1>1, <1>a, <2>1, <2>3 DEF ApplyAction, Quarantine, MarkProcessed, Settle
  <2> QED
    BY <1>2, <2>2, <2>3 DEF Elsewhere, Start, Stop, Leave, DecideNext, Take, ConsiderRule,
       NoRuleMatches, AskTarget, Combine, Route, CallLLM, ValidateVerdict, ConfidenceBand,
       ApplyVerdict, AlertOnly, Within
<1>3. CASE LookUp \/ AskTier2 \/ LearnKnownSender \/ Abort \/ Kill
  BY <1>1, <1>3 DEF LookUp, AskTier2, LearnKnownSender, Abort, Kill, Leave, At, Within, archive
<1>4. CASE ApplyKeywords
  <2>1. /\ step = "keywords" /\ UNCHANGED <<message, observe, files, row, extraction>>
        /\ message \in Messages /\ extraction \in Extraction
        /\ step' = (IF observe THEN "filed" ELSE "save")
        /\ tags' = IF observe THEN tags ELSE [tags EXCEPT ![message] = @ \cup {extraction}]
    BY <1>4 DEF ApplyKeywords, At, Within, InHand
  <2>2. \A m \in Messages : tags[m] \subseteq tags'[m]
    BY <2>1, <1>b
  <2>3. step' = "save" => extraction' \in tags'[message']
    BY <2>1, <1>b, <1>a
  <2>4. step' = "filed" => observe'
    BY <2>1
  <2>5. ReceiptKept'
    BY <2>1, <2>2 DEF ReceiptInv, ReceiptKept, FileName
  <2> QED
    BY <2>1, <2>3, <2>4, <2>5 DEF ReceiptInv
<1>5. CASE SavePdf
  <2> DEFINE new == [name |-> FileName(message, extraction), message |-> message, pages |-> Pages(message)]
  <2>1. /\ step = "save" /\ step' = "filed" /\ UNCHANGED <<message, tags, row>>
        /\ message \in Messages /\ extraction \in tags[message]
        /\ files' = {f \in files : f.name # FileName(message, extraction)} \cup {new}
    BY <1>5 DEF SavePdf, At, Within, InHand, ReceiptInv
  <2>2. /\ new.name = FileName(message, extraction) /\ new.message = message
        /\ new.name.id = Mail[message].slug /\ new \in files'
        /\ Len(new.pages) = 1 + Len(Mail[message].attachments)
    BY <2>1, PagesType DEF FileName
  <2>3. \A f \in files' : /\ f.name.id = Mail[f.message].slug
                          /\ Len(f.pages) = 1 + Len(Mail[f.message].attachments)
    <3> HIDE DEF new
    <3> QED
      BY <2>1, <2>2 DEF ReceiptInv
  <2>4. Kept(message)'
    <3> HIDE DEF new
    <3> QED
      BY <2>1, <2>2 DEF Kept, Own, FileName
  <2>5. ASSUME NEW m \in Messages, Kept(m)
        PROVE  Kept(m)'
    <3>1. PICK x \in tags[m], f \in files : f.name = FileName(m, x) /\ Own(f, m)
      BY <2>5 DEF Kept
    <3>2. CASE f.name # FileName(message, extraction)
      <4>1. f \in files'
        BY <2>1, <3>2
      <4> QED
        BY <2>1, <3>1, <4>1 DEF Kept, Own, FileName
    <3>3. CASE f.name = FileName(message, extraction)
      <4>1. f.name.id = Mail[m].slug /\ f.name.id = Mail[message].slug
        BY <3>1, <3>3 DEF FileName
      <4> HIDE DEF new
      <4> QED
        BY <2>1, <2>2, <3>1, <3>3, <4>1 DEF Kept, Own, FileName
    <3> QED
      BY <3>2, <3>3
  <2>6. ReceiptKept'
    <3>1. ReceiptKept' = \A m \in Messages : row'[m] = "receipt" => Kept(m)'
      BY DEF ReceiptKept, Kept, Own
    <3> QED
      BY <1>c, <2>1, <2>5, <3>1 DEF ReceiptInv
  <2> QED
    BY <2>1, <2>3, <2>4, <2>6 DEF ReceiptInv
<1>6. CASE SettleReceipt
  <2>1. /\ step = "filed" /\ step' = "idle" /\ UNCHANGED <<tags, files, message, observe>>
        /\ row' = [row EXCEPT ![message] = IF observe THEN "observed_receipt" ELSE "receipt"]
        /\ message \in Messages
    BY <1>6 DEF SettleReceipt, Settle, archive, InHand
  <2>2. \A m \in Messages : Kept(m)' = Kept(m)
    BY <2>1 DEF Kept, Own, FileName
  <2>3. \A m \in Messages : row'[m] = "receipt" => Kept(m)
    BY <1>a, <1>c, <2>1 DEF ReceiptInv
  <2>4. ReceiptKept'
    <3>1. ReceiptKept' = \A m \in Messages : row'[m] = "receipt" => Kept(m)'
      BY DEF ReceiptKept, Kept, Own
    <3> QED
      BY <2>2, <2>3, <3>1
  <2> QED
    BY <2>1, <2>4 DEF ReceiptInv
<1>7. CASE UNCHANGED vars
  BY <1>7 DEF vars, decideVars, archive, ReceiptInv, ReceiptKept, Kept, Own, FileName
<1> QED
  BY <1>2, <1>3, <1>4, <1>5, <1>6, <1>7 DEF Next, Archive

(* A message recorded as filed is tagged, and its file is there.            *)
THEOREM ReceiptsKept == Spec => []ReceiptKept
<1>1. Init => ReceiptInv
  BY DEF Init, DecideInit, ReceiptInv, ReceiptKept
<1>2. ReceiptInv => ReceiptKept
  BY DEF ReceiptInv
<1>3. /\ TypeOK /\ InHand /\ [Next]_vars => TypeOK' /\ InHand'
      /\ TypeOK /\ InHand /\ ReceiptInv /\ [Next]_vars => ReceiptInv'
  BY TypeStep, ReceiptStep
<1> QED
  BY TypeInit, <1>1, <1>2, <1>3, PTL DEF Spec

-----------------------------------------------------------------------------
(* The choices the decision rests on: that there is always exactly one.     *)
(* Induction over the natural numbers, by way of their well-foundedness.    *)
Less == {p \in Nat \X Nat : p[1] < p[2]}

LEMMA LeastNumber ==
  ASSUME NEW S \in SUBSET Nat, S # {}
  PROVE  \E n \in S : \A k \in S : n <= k
<1>1. Less = OpToRel(<, Nat)
  BY DEF Less, OpToRel
<1>2. IsWellFoundedOn(Less, Nat)
  BY <1>1, NatLessThanWellFounded
<1>3. PICK n \in S : \A k \in S : <<k, n>> \notin Less
  BY <1>2, WFMin
<1>4. ASSUME NEW k \in S PROVE n <= k
  <2>1. n \in Nat /\ k \in Nat /\ <<k, n>> \in Nat \X Nat
    BY <1>3
  <2>2. k < n => <<k, n>> \in Less
    BY <2>1 DEF Less
  <2> QED
    BY <1>3, <2>1, <2>2
<1> QED
  BY <1>4

(* Of finitely many candidates some are beaten by nobody, and the first of  *)
(* those beats every one before it.                                         *)
LEMMA FirstOfTheBest ==
  ASSUME NEW n \in Nat, NEW D \in SUBSET (1..n), D # {}, NEW R,
         \A i, j \in D : <<i, j>> \in R => <<j, i>> \notin R,
         \A i, j, k \in D : <<i, j>> \notin R /\ <<j, k>> \notin R => <<i, k>> \notin R
  PROVE  \E i \in D : \A j \in D : <<j, i>> \notin R /\ (j < i => <<i, j>> \in R)
<1> DEFINE Best(p) == \E i \in D : i <= p /\ \A j \in D : j <= p => <<j, i>> \notin R
           Bad == {p \in Nat : (\E i \in D : i <= p) /\ ~Best(p)}
           Unbeaten == {i \in D : \A j \in D : <<j, i>> \notin R}
<1>0. \A d \in D : d \in Nat /\ 1 <= d /\ d <= n
  OBVIOUS
<1>1. Bad = {}
  <2> SUFFICES ASSUME Bad # {} PROVE FALSE
    OBVIOUS
  <2>1. PICK p \in Bad : \A q \in Bad : p <= q
    <3>1. Bad \in SUBSET Nat
      OBVIOUS
    <3> HIDE DEF Bad
    <3> QED
      BY <3>1, LeastNumber
  <2>2. PICK d \in D : d <= p
    BY <2>1
  <2>3. p \in Nat /\ p - 1 \in Nat /\ p - 1 \notin Bad /\ ~Best(p)
    <3>1. p \in Nat /\ ~Best(p) /\ 1 <= p
      BY <1>0, <2>1, <2>2
    <3>2. p - 1 \in Nat /\ ~(p <= p - 1)
      BY <3>1
    <3> QED
      BY <2>1, <3>1, <3>2
  <2>7. ASSUME NEW j \in D, j <= p, j # p PROVE j <= p - 1
    <3>1. j \in Nat /\ p \in Nat
      BY <1>0, <2>3
    <3> QED
      BY <2>7, <3>1
  <2>4. CASE p \notin D
    <3>1. Best(p - 1)
      <4>1. d <= p - 1
        BY <2>2, <2>4, <2>7
      <4> QED
        BY <2>3, <4>1
    <3>2. \A j \in D : j <= p => j <= p - 1
      BY <2>4, <2>7
    <3> QED
      BY <2>3, <3>1, <3>2
  <2>5. CASE p \in D /\ \A i \in D : ~(i <= p - 1)
    <3>1. \A j \in D : j <= p => j = p
      BY <1>0, <2>3, <2>5
    <3> QED
      BY <2>3, <2>5, <3>1
  <2>6. CASE p \in D /\ \E i \in D : i <= p - 1
    <3>1. Best(p - 1)
      BY <2>3, <2>6
    <3>2. PICK i \in D : i <= p - 1 /\ \A j \in D : j <= p - 1 => <<j, i>> \notin R
      BY <3>1
    <3>3. \A j \in D : j <= p => j <= p - 1 \/ j = p
      BY <2>7
    <3>4. CASE <<p, i>> \notin R
      <4>1. i <= p
        BY <1>0, <2>3, <3>2
      <4> QED
        BY <2>3, <3>2, <3>3, <3>4, <4>1
    <3>5. CASE <<p, i>> \in R
      <4>1. \A j \in D : j <= p - 1 => <<j, p>> \notin R
        <5> SUFFICES ASSUME NEW j \in D, j <= p - 1, <<j, p>> \in R PROVE FALSE
          OBVIOUS
        <5>1. <<i, p>> \notin R /\ <<j, i>> \notin R
          BY <2>6, <3>2, <3>5
        <5> QED
          BY <2>6, <5>1
      <4> QED
        BY <2>3, <2>6, <3>3, <4>1
    <3> QED
      BY <3>4, <3>5
  <2> QED
    BY <2>4, <2>5, <2>6
<1>2. Unbeaten # {}
  <2>1. PICK d \in D : TRUE
    OBVIOUS
  <2>2. n \notin Bad /\ d <= n
    BY <1>0, <1>1, <2>1
  <2>3. Best(n)
    BY <1>1, <2>1, <2>2
  <2> QED
    BY <2>3
<1>3. PICK i \in Unbeaten : \A k \in Unbeaten : i <= k
  <2>1. Unbeaten \in SUBSET Nat
    BY <1>0
  <2> HIDE DEF Unbeaten
  <2> QED
    BY <1>2, <2>1, LeastNumber
<1>4. ASSUME NEW j \in D, j < i PROVE <<i, j>> \in R
  <2>1. j \notin Unbeaten
    BY <1>3, <1>4
  <2>2. PICK k \in D : <<k, j>> \in R
    BY <2>1
  <2>3. <<k, i>> \notin R
    BY <1>3
  <2> QED
    BY <1>3, <2>2, <2>3
<1> QED
  BY <1>3, <1>4

(* Shares are compared crosswise: h of s is less than g of t.               *)
LEMMA Crosswise ==
  ASSUME NEW a \in Nat, NEW b \in Nat \ {0}, NEW c \in Nat, NEW d \in Nat \ {0},
         NEW e \in Nat, NEW f \in Nat \ {0},
         a * d <= c * b, c * f <= e * d
  PROVE  a * f <= e * b
<1>1. (a * d) * f <= (c * b) * f
  BY Z3
<1>2. (c * f) * b <= (e * d) * b
  BY Z3
<1>3. d * (a * f) <= d * (e * b)
  BY <1>1, <1>2, Z3
<1> QED
  BY <1>3, Z3

(* For every rule base, message and classification one rule decides, or     *)
(* none does: engine.evaluate has one answer, and it is total.              *)
THEOREM OneRuleDecides ==
  ASSUME config \in Configs, NEW m \in Messages, NEW c \in Categories
  PROVE  \E k \in 0..Len(config.rules) :
           RuleFor(k, m, c) /\ \A j : RuleFor(j, m, c) => j = k
<1> DEFINE Fitting == {k \in DOMAIN config.rules : Fits(k, m, c)}
<1>1. Len(config.rules) \in Nat /\ DOMAIN config.rules = 1..Len(config.rules)
  BY ConfigType
<1>2. CASE Fitting = {}
  BY <1>1, <1>2 DEF RuleFor, NoRule
<1>3. CASE Fitting # {}
  <2>1. PICK k \in Fitting : \A j \in Fitting : k <= j
    <3>1. Fitting \in SUBSET Nat
      BY <1>1
    <3> HIDE DEF Fitting
    <3> QED
      BY <1>3, <3>1, LeastNumber
  <2>2. k \in 1..Len(config.rules)
    BY <1>1
  <2>3. RuleFor(k, m, c)
    BY <1>1, <2>1, <2>2 DEF RuleFor, NoRule
  <2>4. ASSUME NEW j, RuleFor(j, m, c) PROVE j = k
    <3>1. j \in 0..Len(config.rules) /\ j # 0 /\ j <= k
      BY <1>1, <2>1, <2>4 DEF RuleFor, NoRule
    <3>2. j \in Fitting
      BY <1>1, <2>4, <3>1 DEF RuleFor, NoRule
    <3> QED
      BY <1>1, <2>1, <2>2, <3>1, <3>2
  <2> QED
    BY <2>2, <2>3, <2>4
<1> QED
  BY <1>2, <1>3

LEMMA KeywordType ==
  ASSUME config \in Configs, NEW m \in Messages, NEW i \in DOMAIN config.keywords
  PROVE  Hits(config.keywords[i], m) \in Nat /\ Size(config.keywords[i]) \in Nat \ {0}
<1> DEFINE k == config.keywords[i]
<1>1. IsFiniteSet(k.words)
  BY ConfigType
<1> HIDE DEF k
<1>2. Hits(k, m) \in Nat
  <2>1. IsFiniteSet(k.words \cap Mail[m].words)
    BY <1>1, FS_Intersection
  <2> QED
    BY <2>1, FS_CardinalityType DEF Hits
<1>3. Size(k) \in Nat \ {0}
  <2>1. Cardinality(k.words) \in Nat /\ (Cardinality(k.words) = 0 <=> k.words = {})
    BY <1>1, FS_CardinalityType, FS_EmptySet
  <2> QED
    BY <2>1 DEF Size
<1> QED
  BY <1>2, <1>3 DEF k

(* The keyword classifier falls back to its default category only when no   *)
(* keyword of any category is in the message, and otherwise has one answer: *)
(* the CHOOSE of KeywordVote has nothing to choose.                         *)
THEOREM KeywordsDecide ==
  ASSUME config \in Configs, NEW m \in Messages
  PROVE  /\ BestKeywords(m) = {} <=> \A i \in DOMAIN config.keywords : Hits(config.keywords[i], m) = 0
         /\ \A i, j \in BestKeywords(m) : i = j
<1> DEFINE K == config.keywords
           n == Len(K)
           H(i) == Hits(K[i], m)
           Z(i) == Size(K[i])
           R == {p \in (1..n) \X (1..n) : ScoresOver(K[p[1]], K[p[2]], m)}
<1>1. n \in Nat /\ DOMAIN K = 1..n
  BY ConfigType
<1>2. \A i \in 1..n : H(i) \in Nat /\ Z(i) \in Nat \ {0}
  BY <1>1, KeywordType
<1>3. \A i, j \in 1..n : ScoresOver(K[i], K[j], m) <=> H(i) * Z(j) > H(j) * Z(i)
  BY DEF ScoresOver
<1>4. \A i, j \in 1..n : <<i, j>> \in R <=> ScoresOver(K[i], K[j], m)
  OBVIOUS
<1> HIDE DEF H, Z, R, n
<1>5. \A i, j \in 1..n : <<i, j>> \in R => <<j, i>> \notin R
  <2> SUFFICES ASSUME NEW i \in 1..n, NEW j \in 1..n, H(i) * Z(j) > H(j) * Z(i)
               PROVE  ~(H(j) * Z(i) > H(i) * Z(j))
    BY <1>3, <1>4
  <2>1. H(i) * Z(j) \in Nat /\ H(j) * Z(i) \in Nat
    BY <1>2
  <2> QED
    BY <2>1
<1>6. \A i, j, k \in 1..n : <<i, j>> \notin R /\ <<j, k>> \notin R => <<i, k>> \notin R
  <2> SUFFICES ASSUME NEW i \in 1..n, NEW j \in 1..n, NEW k \in 1..n,
                      ~(H(i) * Z(j) > H(j) * Z(i)), ~(H(j) * Z(k) > H(k) * Z(j))
               PROVE  ~(H(i) * Z(k) > H(k) * Z(i))
    BY <1>3, <1>4
  <2>1. /\ H(i) \in Nat /\ Z(i) \in Nat \ {0} /\ H(j) \in Nat /\ Z(j) \in Nat \ {0}
        /\ H(k) \in Nat /\ Z(k) \in Nat \ {0}
    BY <1>2
  <2>2. H(i) * Z(j) <= H(j) * Z(i) /\ H(j) * Z(k) <= H(k) * Z(j)
    <3>1. H(i) * Z(j) \in Nat /\ H(j) * Z(i) \in Nat /\ H(j) * Z(k) \in Nat /\ H(k) * Z(j) \in Nat
      BY <2>1
    <3> QED
      BY <3>1
  <2>3. H(i) * Z(k) <= H(k) * Z(i)
    BY <2>1, <2>2, Crosswise
  <2>4. H(i) * Z(k) \in Nat /\ H(k) * Z(i) \in Nat
    BY <2>1
  <2> QED
    BY <2>3, <2>4
<1>7. \A i, j \in BestKeywords(m) : i = j
  <2> SUFFICES ASSUME NEW i \in BestKeywords(m), NEW j \in BestKeywords(m), j < i PROVE FALSE
    BY <1>1 DEF BestKeywords
  <2> QED
    BY DEF BestKeywords
<1>8. (\A i \in 1..n : H(i) = 0) => BestKeywords(m) = {}
  BY <1>1 DEF BestKeywords, H
<1>9. ASSUME NEW d \in 1..n, H(d) # 0 PROVE BestKeywords(m) # {}
  <2>1. PICK i \in 1..n : \A j \in 1..n : <<j, i>> \notin R /\ (j < i => <<i, j>> \in R)
    <3> DEFINE D == 1..n
    <3>1. n \in Nat /\ D \in SUBSET (1..n) /\ D # {}
      BY <1>1, <1>9
    <3>2. /\ \A i, j \in D : <<i, j>> \in R => <<j, i>> \notin R
          /\ \A i, j, k \in D : <<i, j>> \notin R /\ <<j, k>> \notin R => <<i, k>> \notin R
      BY <1>5, <1>6
    <3> HIDE DEF D
    <3>3. \E i \in D : \A j \in D : <<j, i>> \notin R /\ (j < i => <<i, j>> \in R)
      BY <3>1, <3>2, FirstOfTheBest
    <3> QED
      BY <3>3 DEF D
  <2>2. H(i) > 0
    <3>1. ~(H(d) * Z(i) > H(i) * Z(d))
      BY <1>3, <1>4, <2>1
    <3>2. H(d) \in Nat \ {0} /\ Z(i) \in Nat \ {0} /\ H(i) \in Nat /\ Z(d) \in Nat
      BY <1>2, <1>9
    <3>3. CASE H(i) = 0
      <4>1. H(i) * Z(d) = 0 /\ H(d) * Z(i) > 0
        BY <3>2, <3>3
      <4> QED
        BY <3>1, <4>1
    <3> QED
      BY <3>2, <3>3
  <2>3. i \in BestKeywords(m)
    BY <1>1, <1>4, <2>1, <2>2 DEF BestKeywords, H
  <2> QED
    BY <2>3
<1> QED
  BY <1>1, <1>7, <1>8, <1>9 DEF H

(* A vote's confidence is a share of whole numbers.                         *)
LEMMA VoteType ==
  ASSUME NEW v \in Vote \cup {Failed}
  PROVE  v.hits \in Nat /\ v.size \in Nat \ {0}
<1>1. CASE v \in Vote
  BY <1>1 DEF Vote
<1>2. CASE v = Failed
  BY <1>2 DEF Failed
<1> QED
  BY <1>1, <1>2

(* Where no target is named as the primary one, the most confident vote     *)
(* wins, the first among equals (HighestConfidenceCombiner): one vote, and  *)
(* none only when every target failed, which is the CombineError.           *)
THEOREM CombinerAnswers ==
  ASSUME votes \in Seq(Vote \cup {Failed}), config.primary = {}
  PROVE  /\ Chosen = {} <=> \A i \in DOMAIN votes : ~votes[i].succeeded
         /\ \A i, j \in Chosen : i = j
<1> DEFINE n == Len(votes)
           H(i) == votes[i].hits
           Z(i) == votes[i].size
           D == {i \in 1..n : votes[i].succeeded}
           R == {p \in (1..n) \X (1..n) : MoreConfident(votes[p[1]], votes[p[2]])}
<1>1. n \in Nat /\ DOMAIN votes = 1..n
  OBVIOUS
<1>2. \A i \in 1..n : H(i) \in Nat /\ Z(i) \in Nat \ {0}
  <2>1. \A i \in 1..n : votes[i] \in Vote \cup {Failed}
    OBVIOUS
  <2> QED
    BY <2>1, VoteType
<1>3. \A i, j \in 1..n : MoreConfident(votes[i], votes[j]) <=> H(i) * Z(j) > H(j) * Z(i)
  BY DEF MoreConfident
<1>4. /\ \A i, j \in 1..n : <<i, j>> \in R <=> MoreConfident(votes[i], votes[j])
      /\ D \in SUBSET (1..n) /\ \A i \in 1..n : i \in D <=> votes[i].succeeded
  OBVIOUS
<1>0. Chosen = {i \in 1..n : votes[i].succeeded /\ \A j \in 1..n :
                    votes[j].succeeded => /\ ~MoreConfident(votes[j], votes[i])
                                          /\ j < i => MoreConfident(votes[i], votes[j])}
  BY <1>1 DEF Chosen
<1> HIDE DEF H, Z, R, D, n
<1>5. \A i, j \in 1..n : <<i, j>> \in R => <<j, i>> \notin R
  <2> SUFFICES ASSUME NEW i \in 1..n, NEW j \in 1..n, H(i) * Z(j) > H(j) * Z(i)
               PROVE  ~(H(j) * Z(i) > H(i) * Z(j))
    BY <1>3, <1>4
  <2>1. H(i) * Z(j) \in Nat /\ H(j) * Z(i) \in Nat
    BY <1>2
  <2> QED
    BY <2>1
<1>6. \A i, j, k \in 1..n : <<i, j>> \notin R /\ <<j, k>> \notin R => <<i, k>> \notin R
  <2> SUFFICES ASSUME NEW i \in 1..n, NEW j \in 1..n, NEW k \in 1..n,
                      ~(H(i) * Z(j) > H(j) * Z(i)), ~(H(j) * Z(k) > H(k) * Z(j))
               PROVE  ~(H(i) * Z(k) > H(k) * Z(i))
    BY <1>3, <1>4
  <2>1. /\ H(i) \in Nat /\ Z(i) \in Nat \ {0} /\ H(j) \in Nat /\ Z(j) \in Nat \ {0}
        /\ H(k) \in Nat /\ Z(k) \in Nat \ {0}
    BY <1>2
  <2>2. H(i) * Z(j) <= H(j) * Z(i) /\ H(j) * Z(k) <= H(k) * Z(j)
    <3>1. H(i) * Z(j) \in Nat /\ H(j) * Z(i) \in Nat /\ H(j) * Z(k) \in Nat /\ H(k) * Z(j) \in Nat
      BY <2>1
    <3> QED
      BY <3>1
  <2>3. H(i) * Z(k) <= H(k) * Z(i)
    BY <2>1, <2>2, Crosswise
  <2>4. H(i) * Z(k) \in Nat /\ H(k) * Z(i) \in Nat
    BY <2>1
  <2> QED
    BY <2>3, <2>4
<1>7. \A i, j \in Chosen : i = j
  <2> SUFFICES ASSUME NEW i \in Chosen, NEW j \in Chosen, j < i PROVE FALSE
    BY <1>0, <1>1
  <2> QED
    BY <1>0
<1>8. (\A i \in 1..n : ~votes[i].succeeded) => Chosen = {}
  BY <1>0
<1>9. ASSUME NEW d \in 1..n, votes[d].succeeded PROVE Chosen # {}
  <2>1. \A i, j, k \in D : <<i, j>> \notin R /\ <<j, k>> \notin R => <<i, k>> \notin R
    BY <1>4, <1>6
  <2>3. D # {} /\ \A i, j \in D : <<i, j>> \in R => <<j, i>> \notin R
    BY <1>4, <1>5, <1>9
  <2>2. PICK i \in D : \A j \in D : <<j, i>> \notin R /\ (j < i => <<i, j>> \in R)
    <3>1. n \in Nat /\ D \in SUBSET (1..n)
      BY <1>1, <1>4
    <3>2. \E i \in D : \A j \in D : <<j, i>> \notin R /\ (j < i => <<i, j>> \in R)
      BY <3>1, <2>1, <2>3, FirstOfTheBest
    <3> QED
      BY <3>2
  <2> QED
    BY <1>0, <1>4, <2>2
<1> QED
  BY <1>1, <1>7, <1>8, <1>9

(* The votes are those of the first targets, and the keyword classifier's   *)
(* is never a failure.                                                      *)
VotesInv == \A i \in DOMAIN votes : config.targets[i] = "keyword" => votes[i].succeeded

LEMMA VotesStep == TypeOK /\ InHand /\ VotesInv /\ [Next]_vars => VotesInv'
<1> SUFFICES ASSUME TypeOK, InHand, VotesInv, [Next]_vars PROVE VotesInv'
  OBVIOUS
<1>1. ASSUME UNCHANGED <<config, votes>> PROVE VotesInv'
  BY <1>1 DEF VotesInv
<1>2. ASSUME Forget PROVE VotesInv'
  BY <1>2 DEF Forget, VotesInv
<1>3. CASE Start \/ Stop \/ Take \/ Abort \/ Kill
  BY <1>2, <1>3 DEF Start, Stop, Take, Leave, Abort, Kill
<1>4. CASE AskTarget
  <2>1. PICK v \in IF config.targets[Len(votes) + 1] = "keyword" THEN {KeywordVote(message)}
                   ELSE Votes \cup {Failed} : votes' = Append(votes, v)
    BY <1>4 DEF AskTarget
  <2>2. UNCHANGED config /\ message \in Messages
    BY <1>4 DEF AskTarget, Within, InHand
  <2>3. votes \in Seq(Vote \cup {Failed}) /\ config \in Configs
    BY DEF TypeOK, DecideTypeOK
  <2>4. KeywordVote(message).succeeded
    BY <2>2, <2>3, KeywordVoteType, Succeeded
  <2>5. ASSUME NEW i \in DOMAIN votes', config.targets[i] = "keyword" PROVE votes'[i].succeeded
    <3>1. CASE i = Len(votes) + 1
      BY <2>1, <2>3, <2>4, <2>5, <3>1
    <3>2. CASE i # Len(votes) + 1
      <4>1. i \in DOMAIN votes /\ votes'[i] = votes[i]
        BY <2>1, <2>3, <3>2
      <4> QED
        BY <2>5, <4>1 DEF VotesInv
    <3> QED
      BY <3>1, <3>2
  <2> QED
    BY <2>2, <2>5 DEF VotesInv
<1>5. CASE ConsiderRule \/ NoRuleMatches \/ Combine \/ Route \/ ApplyAction
  BY <1>1, <1>5 DEF ConsiderRule, NoRuleMatches, Combine, Route, ApplyAction, Settle, Within, tier1
<1>6. CASE Tier2Steps
  BY <1>1, <1>6 DEF Tier2Steps, CallLLM, ValidateVerdict, ConfidenceBand, ApplyVerdict,
     AlertOnly, Quarantine, MarkProcessed, Settle, Within, tier1
<1>7. CASE Archive
  BY <1>1, <1>7 DEF Archive, LookUp, AskTier2, LearnKnownSender, ApplyKeywords, SavePdf,
     SettleReceipt, Settle, At, Within, tier1
<1>8. CASE UNCHANGED vars
  BY <1>1, <1>8 DEF vars, decideVars, tier1
<1> QED
  BY <1>3, <1>4, <1>5, <1>6, <1>7, <1>8 DEF Next, Elsewhere, DecideNext, Tier2Steps

(* Who keeps the keyword classifier among the targets, and names no other   *)
(* as the primary one, always gets a classification: whatever fails beside  *)
(* it, neither CombineError nor the RuntimeError of a missing classifier    *)
(* ends the daemon.                                                         *)
KeywordsSpareTheDaemon ==
    /\ step = "classify" /\ Len(votes) = Len(config.targets)
    /\ \E i \in DOMAIN config.targets : config.targets[i] = "keyword"
    /\ config.primary \subseteq {"keyword"}
    => Chosen # {}

(* Dispatcher.dispatch and the combiner, in every reachable state.          *)
THEOREM KeywordsAlwaysAnswer == Spec => []KeywordsSpareTheDaemon
<1>1. Init => VotesInv
  BY DEF Init, DecideInit, VotesInv
<1>2. TypeOK /\ VotesInv => KeywordsSpareTheDaemon
  <2> SUFFICES ASSUME TypeOK, VotesInv, Len(votes) = Len(config.targets),
                      NEW i \in DOMAIN config.targets, config.targets[i] = "keyword",
                      config.primary \subseteq {"keyword"}
               PROVE  Chosen # {}
    BY DEF KeywordsSpareTheDaemon
  <2>1. votes \in Seq(Vote \cup {Failed}) /\ config.targets \in Seq(STRING)
    <3>1. config \in Configs
      BY DEF TypeOK, DecideTypeOK
    <3> QED
      BY <3>1, ConfigType DEF TypeOK, DecideTypeOK
  <2>2. i \in DOMAIN votes /\ votes[i].succeeded
    BY <2>1 DEF VotesInv
  <2>3. CASE config.primary = {}
    BY <2>1, <2>2, <2>3, CombinerAnswers
  <2>4. CASE config.primary # {}
    <3>1. i \in Chosen
      BY <2>2, <2>4 DEF Chosen
    <3> QED
      BY <3>1
  <2> QED
    BY <2>3, <2>4
<1>3. /\ TypeOK /\ InHand /\ [Next]_vars => TypeOK' /\ InHand'
      /\ TypeOK /\ InHand /\ VotesInv /\ [Next]_vars => VotesInv'
  BY TypeStep, VotesStep
<1> QED
  BY TypeInit, <1>1, <1>2, <1>3, PTL DEF Spec

(* EntityContextProvider's dictionary: the last company that lists a domain *)
(* has it, so there is one, if any lists it, and no more than one.          *)
THEOREM OneCompanyLists ==
  ASSUME config \in Configs, NEW d \in Domains
  PROVE  /\ Listing(d) = {} <=> \A i \in DOMAIN config.companies : Lowered[d] \notin config.companies[i].domains
         /\ \A i, j \in Listing(d) : i = j
<1> DEFINE K == config.companies
           n == Len(K)
           L == {i \in 1..n : Lowered[d] \in K[i].domains}
           R == {p \in (1..n) \X (1..n) : p[1] > p[2]}
<1>1. n \in Nat /\ DOMAIN K = 1..n
  BY ConfigType
<1>2. /\ L \in SUBSET (1..n)
      /\ \A i, j \in L : <<i, j>> \in R <=> i > j
  OBVIOUS
<1>3. Listing(d) = {i \in L : \A j \in L : j <= i}
  BY <1>1 DEF Listing
<1>4. \A i \in DOMAIN K : i \in L <=> Lowered[d] \in K[i].domains
  BY <1>1
<1> HIDE DEF L, R, n, K
<1>5. \A i, j \in L : i \in Nat /\ j \in Nat
  BY <1>1, <1>2
<1>6. \A i, j \in Listing(d) : i = j
  BY <1>3, <1>5
<1>7. ASSUME L # {} PROVE Listing(d) # {}
  <2>1. \A i, j \in L : <<i, j>> \in R => <<j, i>> \notin R
    BY <1>2, <1>5
  <2>2. \A i, j, k \in L : <<i, j>> \notin R /\ <<j, k>> \notin R => <<i, k>> \notin R
    BY <1>2, <1>5
  <2>3. PICK i \in L : \A j \in L : <<j, i>> \notin R /\ (j < i => <<i, j>> \in R)
    BY <1>1, <1>2, <1>7, <2>1, <2>2, FirstOfTheBest
  <2>4. ASSUME NEW j \in L PROVE j <= i
    <3>1. ~(j > i) /\ j \in Nat /\ i \in Nat
      BY <1>2, <1>5, <2>3
    <3> QED
      BY <3>1
  <2> QED
    BY <1>3, <2>4
<1>8. L = {} => Listing(d) = {}
  BY <1>3
<1> QED
  BY <1>1, <1>2, <1>4, <1>6, <1>7, <1>8 DEF K

=============================================================================
