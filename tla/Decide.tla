------------------------------- MODULE Decide -------------------------------
(***************************************************************************)
(* How one message is decided.  Tier 1 walks the rules, asking the local   *)
(* classifiers when a condition needs them; what it escalates is put to    *)
(* the model, whose verdict is checked against what it was offered and     *)
(* carried out or only reported, by its confidence.                        *)
(*                                                                         *)
(* The messages are a file's, replayed in its order by every process       *)
(* (FileProvider), which is also the only provider that can tag and read   *)
(* attachments at this commit.  Budget, audit, drafts and the deaths       *)
(* between an effect and its row are in Triage.  An optional value is a    *)
(* set of at most one element.                                             *)
(***************************************************************************)
EXTENDS Integers, FiniteSets, Sequences

CONSTANTS
    Mail,     \* the messages of the file
    Configs,  \* config.toml, rules.toml and knowledge base, to choose from
    Categories, \* what classifiers call messages
    Votes,    \* what a classifier other than the keyword one may answer
    Answers,  \* what the model may answer
    Scale     \* a confidence of 1.0

Messages == 1..Len(Mail)
NoMessage == 0
NoRule == 0
NaN == -1

Optional(S) == {A \in SUBSET S : \A x, y \in A : x = y}
Action == [type : {"move", "tag", "ignore", "escalate", "archive_receipt"},
           mailbox : Optional(STRING)]
Rule == [enabled : BOOLEAN, always : BOOLEAN,
         domains : Optional(SUBSET STRING), senders : Optional(SUBSET STRING),
         categories : Optional(SUBSET STRING), action : Action]

Failed == [succeeded |-> FALSE, category |-> "none", hits |-> 0, size |-> 1]
Vote == [succeeded : {TRUE}, category : Categories, hits : Nat, size : Nat \ {0}]
NoOpinion == Failed
Answer == [category : STRING, urgency : {"low", "medium", "high"}, confidence : Int,
           action : Action]
NoVerdict == [category |-> "none", urgency |-> "low", confidence |-> NaN,
              action |-> [type |-> "ignore", mailbox |-> {}]]

VARIABLES
    config,   \* the chosen configuration
    observe,  \* sporkd --observe
    message,  \* the message in hand, or the last one
    step,     \* where the process stands
    next,     \* the rule to look at
    votes,    \* what the classifiers asked so far answered
    opinion,  \* the classification evaluate() keeps
    matched,  \* the rule that matched
    verdict,  \* the model's answer
    effects,  \* what the decision came to: acted, alerted, quarantined
    row       \* processed_messages: the tier that settled a message

tier1 == <<next, votes, opinion, matched>>
tier2 == <<verdict, effects>>
decideVars == <<config, observe, message, step, tier1, tier2, row>>

-----------------------------------------------------------------------------
(* The keyword classifier: a category scores the share of its own keywords *)
(* that are found; the first of the best wins, and the default category if *)
(* nothing was found.                                                      *)
Hits(k, m) == Cardinality(k.words \cap Mail[m].words)
Size(k) == IF k.words = {} THEN 1 ELSE Cardinality(k.words)
ScoresOver(j, k, m) == Hits(j, m) * Size(k) > Hits(k, m) * Size(j)

BestKeywords(m) ==
    LET K == config.keywords IN
    {i \in DOMAIN K : /\ Hits(K[i], m) > 0
                      /\ \A j \in DOMAIN K : /\ ~ScoresOver(K[j], K[i], m)
                                             /\ j < i => ScoresOver(K[i], K[j], m)}
KeywordVote(m) ==
    IF BestKeywords(m) = {}
      THEN [succeeded |-> TRUE, category |-> "uncategorized", hits |-> 0, size |-> 1]
      ELSE LET k == config.keywords[CHOOSE i \in BestKeywords(m) : TRUE] IN
           [succeeded |-> TRUE, category |-> k.category, hits |-> Hits(k, m), size |-> Size(k)]

(* The combiners: the named target's vote, or the most confident of the    *)
(* votes that did not fail, the first one among equals.  None of them:     *)
(* CombineError, or the RuntimeError of a rule that needs a classifier     *)
(* where none is configured.                                               *)
MoreConfident(v, w) == v.hits * w.size > w.hits * v.size
Chosen ==
    {i \in DOMAIN votes :
        /\ votes[i].succeeded
        /\ IF config.primary # {} THEN config.targets[i] \in config.primary
           ELSE \A j \in DOMAIN votes :
                    votes[j].succeeded => /\ ~MoreConfident(votes[j], votes[i])
                                          /\ j < i => MoreConfident(votes[i], votes[j])}

(* A condition's sender fields are looked at before its categories.        *)
SenderFits(r, m) ==
    /\ \A S \in r.domains : Mail[m].domain \in S
    /\ \A S \in r.senders : Mail[m].address \in S
Asks(r, m) == ~r.always /\ SenderFits(r, m) /\ r.categories # {}
ConditionMatches(r, m, category) ==
    \/ r.always
    \/ /\ r.domains \cup r.senders \cup r.categories # {}
       /\ SenderFits(r, m)
       /\ \A S \in r.categories : category \in S

ActionTaken == IF matched = NoRule THEN [type |-> config.default, mailbox |-> {}]
               ELSE config.rules[matched].action
NeedsMailbox(a) == a.type \in {"move", "tag"} /\ a.mailbox = {}

-----------------------------------------------------------------------------
DecideInit ==
    /\ config \in Configs /\ observe = FALSE
    /\ message = NoMessage /\ step = "stopped"
    /\ next = 1 /\ votes = <<>> /\ opinion = NoOpinion /\ matched = NoRule
    /\ verdict = NoVerdict /\ effects = {}
    /\ row = [m \in Messages |-> "none"]

Forget == /\ next' = 1 /\ votes' = <<>> /\ opinion' = NoOpinion /\ matched' = NoRule
          /\ verdict' = NoVerdict /\ effects' = {}

Start ==
    /\ step \in {"stopped", "down"} /\ step' = "idle"
    /\ observe' \in BOOLEAN /\ message' = NoMessage
    /\ Forget /\ UNCHANGED <<config, row>>

Leave(how) ==
    /\ step' = how /\ observe' = FALSE /\ message' = NoMessage
    /\ Forget /\ UNCHANGED <<config, row>>

Stop == step = "idle" /\ Leave("stopped")

(* The gate lets through what has no row.                                  *)
Take ==
    /\ step = "idle" /\ message < Len(Mail)
    /\ message' = message + 1
    /\ step' = IF row[message'] = "none" THEN "rules" ELSE "idle"
    /\ Forget /\ UNCHANGED <<config, observe, row>>

(* What a stage that only moves the process on leaves alone.               *)
Within == UNCHANGED <<config, observe, message, row>>

(* mutant: a disabled rule counts *)
ConsiderRuleAnyway ==
    /\ step = "rules" /\ next <= Len(config.rules)
    /\ LET r == config.rules[next] IN
       \/ /\ Asks(r, message) /\ opinion = NoOpinion
          /\ step' = "classify" /\ UNCHANGED <<next, matched>>
       \/ /\ ~(Asks(r, message) /\ opinion = NoOpinion)
          /\ IF ConditionMatches(r, message, opinion.category)
               THEN matched' = next /\ step' = "route" /\ UNCHANGED next
               ELSE next' = next + 1 /\ UNCHANGED <<matched, step>>
    /\ Within /\ UNCHANGED <<votes, opinion, tier2>>

ConsiderRule ==
    /\ step = "rules" /\ next <= Len(config.rules)
    /\ LET r == config.rules[next] IN
       \/ /\ r.enabled /\ Asks(r, message) /\ opinion = NoOpinion
          /\ step' = "classify" /\ UNCHANGED <<next, matched>>
       \/ /\ ~(r.enabled /\ Asks(r, message) /\ opinion = NoOpinion)
          /\ IF r.enabled /\ ConditionMatches(r, message, opinion.category)
               THEN matched' = next /\ step' = "route" /\ UNCHANGED next
               ELSE next' = next + 1 /\ UNCHANGED <<matched, step>>
    /\ Within /\ UNCHANGED <<votes, opinion, tier2>>

NoRuleMatches ==
    /\ step = "rules" /\ next > Len(config.rules)
    /\ step' = "route"
    /\ Within /\ UNCHANGED <<tier1, tier2>>

(* Dispatcher.dispatch: one target after the other; one that raises has    *)
(* its exception kept as its answer.                                       *)
AskTarget ==
    /\ step = "classify" /\ Len(votes) < Len(config.targets)
    /\ \E v \in IF config.targets[Len(votes) + 1] = "keyword" THEN {KeywordVote(message)}
                ELSE Votes \cup {Failed} :
            votes' = Append(votes, v)
    /\ Within /\ UNCHANGED <<step, next, opinion, matched, tier2>>

Combine ==
    /\ step = "classify" /\ Len(votes) = Len(config.targets)
    /\ \E i \in Chosen : opinion' = votes[i]
    /\ step' = "rules"
    /\ Within /\ UNCHANGED <<next, votes, matched, tier2>>

(* RuleEvaluationSelector's route.  An observer's escalations end here,    *)
(* audited but with no row.                                                *)
Route ==
    /\ step = "route"
    /\ step' = CASE ActionTaken.type = "archive_receipt" -> "archive"
                 [] ActionTaken.type = "escalate" -> IF observe THEN "idle" ELSE "tier2"
                 [] OTHER -> "apply"
    /\ ActionTaken.type = "archive_receipt" => config.archive
    /\ Within /\ UNCHANGED <<tier1, tier2>>

Settle(how) ==
    /\ row' = [row EXCEPT ![message] = how]
    /\ step' = "idle"
    /\ UNCHANGED <<config, observe, message>>

ApplyAction ==
    /\ step = "apply" /\ ~NeedsMailbox(ActionTaken)
    /\ Settle("tier1") /\ UNCHANGED <<tier1, tier2>>

-----------------------------------------------------------------------------
(* Tier 2.  What the prompt offers the model, and what Verdict's own       *)
(* validators take from it.                                                *)
IsVerdict(a) == /\ a.action.type \in {"move", "tag", "ignore"}
                /\ a.confidence \in 0..Scale
Offers(a) == /\ IsVerdict(a)
             /\ a.category \in config.categories
             /\ a.action.mailbox \subseteq config.mailboxes

(* A refused call, or an answer that is no verdict, is LiteLLMClientError. *)
CallLLM ==
    /\ step = "tier2"
    /\ \/ \E a \in Answers : verdict' = a /\ step' = IF IsVerdict(a) THEN "validate" ELSE "quarantine"
       \/ verdict' = NoVerdict /\ step' = "quarantine"
    /\ Within /\ UNCHANGED <<tier1, effects>>

(* mutant: a mailbox is required of every verdict *)
ValidateNeedsMailbox ==
    /\ step = "validate"
    /\ step' = IF /\ verdict.category \in config.categories
                  /\ \E b \in verdict.action.mailbox : b \in config.mailboxes
                 THEN "band" ELSE "quarantine"
    /\ Within /\ UNCHANGED <<tier1, tier2>>

ValidateVerdict ==
    /\ step = "validate"
    /\ step' = IF /\ verdict.category \in config.categories
                  /\ verdict.action.mailbox \subseteq config.mailboxes
                 THEN "band" ELSE "quarantine"
    /\ Within /\ UNCHANGED <<tier1, tier2>>

(* confidence_band raises for thresholds that are no numbers or the wrong  *)
(* way round.                                                              *)
SaneThresholds == NaN \notin {config.alert, config.autoact} /\ config.alert <= config.autoact

(* mutant: the order of the thresholds is taken on trust *)
ConfidenceBandOnTrust ==
    /\ step = "band" /\ NaN \notin {config.alert, config.autoact}
    /\ step' = CASE verdict.confidence >= config.autoact -> "autoact"
                 [] verdict.confidence \in config.alert..(config.autoact - 1) -> "autoact_alert"
                 [] OTHER -> "alert_only"
    /\ Within /\ UNCHANGED <<tier1, tier2>>

ConfidenceBand ==
    /\ step = "band" /\ SaneThresholds
    /\ step' = CASE verdict.confidence >= config.autoact -> "autoact"
                 [] verdict.confidence \in config.alert..(config.autoact - 1) -> "autoact_alert"
                 [] OTHER -> "alert_only"
    /\ Within /\ UNCHANGED <<tier1, tier2>>

(* A move or tag with nowhere to go is the model's fault, too.             *)
ApplyVerdict ==
    /\ step \in {"autoact", "autoact_alert"}
    /\ IF NeedsMailbox(verdict.action)
         THEN step' = "quarantine" /\ UNCHANGED effects
         ELSE /\ effects' = IF step = "autoact_alert" \/ verdict.urgency = "high"
                              THEN {"acted", "alerted"} ELSE {"acted"}
              /\ step' = "mark"
    /\ Within /\ UNCHANGED <<tier1, verdict>>

AlertOnly ==
    /\ step = "alert_only" /\ step' = "mark"
    /\ effects' = {"alerted"}
    /\ Within /\ UNCHANGED <<tier1, verdict>>

Quarantine ==
    /\ step = "quarantine"
    /\ effects' = {"quarantined", "alerted"}
    /\ Settle("tier2") /\ UNCHANGED <<tier1, verdict>>

MarkProcessed ==
    /\ step = "mark"
    /\ Settle("tier2") /\ UNCHANGED <<tier1, tier2>>

(* What nothing catches: the process dies of it.                           *)
Raises ==
    \/ /\ step = "classify" /\ Len(votes) = Len(config.targets) /\ Chosen = {}
    \/ /\ step = "route" /\ ActionTaken.type = "archive_receipt" /\ ~config.archive
    \/ /\ step = "apply" /\ NeedsMailbox(ActionTaken)
    \/ step = "tier2"      \* RecordedLLMClient knows no answer to this subject
    \/ /\ step = "band" /\ ~SaneThresholds

DecideNext ==
    \/ Take \/ ConsiderRule \/ NoRuleMatches \/ AskTarget \/ Combine \/ Route \/ ApplyAction
    \/ CallLLM \/ ValidateVerdict \/ ConfidenceBand \/ ApplyVerdict \/ AlertOnly
    \/ Quarantine \/ MarkProcessed

-----------------------------------------------------------------------------
DecideTypeOK ==
    /\ config \in Configs /\ observe \in BOOLEAN
    /\ message \in 0..Len(Mail)
    /\ next \in 1..(Len(config.rules) + 1) /\ matched \in 0..Len(config.rules)
    /\ votes \in Seq(Vote \cup {Failed}) /\ Len(votes) <= Len(config.targets)
    /\ opinion \in Vote \cup {NoOpinion} /\ verdict \in Answer \cup {NoVerdict}
    /\ effects \subseteq {"acted", "alerted", "quarantined"}
    /\ row \in [Messages -> {"none", "tier1", "tier2", "receipt", "observed_receipt"}]

(* The order of the rules as their author reads it: rule k is the one for  *)
(* message m, if the classifiers say c, when it is enabled and fits and no *)
(* enabled rule before it does; none, when no enabled rule fits.           *)
Fits(k, m, c) == config.rules[k].enabled /\ ConditionMatches(config.rules[k], m, c)
RuleFor(k, m, c) ==
    /\ k \in 0..Len(config.rules)
    /\ k # NoRule => Fits(k, m, c)
    /\ \A j \in DOMAIN config.rules : Fits(j, m, c) => k # NoRule /\ k <= j

Decided == step \notin {"stopped", "down", "idle", "rules", "classify"}

(* The first enabled rule that matches is the one obeyed (engine.evaluate, *)
(* DESIGN.md 9).  The engine classifies late and once: where it did not, no *)
(* classification could have changed the outcome; where it did, a rule that *)
(* it reached asked for it.                                                *)
FirstMatchWins ==
    /\ Decided =>
         IF opinion.succeeded THEN RuleFor(matched, message, opinion.category)
         ELSE \A c \in Categories : RuleFor(matched, message, c)
    /\ votes # <<>> =>
         \E k \in DOMAIN config.rules :
            /\ k <= next /\ config.rules[k].enabled /\ Asks(config.rules[k], message)
            /\ \A j \in 1..(k - 1) : ~\A c \in Categories : Fits(j, message, c)

(* Tier 2 acts on nothing the prompt did not offer, not below the alert    *)
(* threshold, and without telling a human only from the autoact threshold  *)
(* on (confidence.py, DESIGN.md 10.3); and it quarantines no verdict that  *)
(* keeps to the offer, but for a move or tag that names no mailbox, which  *)
(* the schema in the prompt allows (prompt.py, validate.py).               *)
WithinTheOffer ==
    /\ "acted" \in effects =>
         /\ Offers(verdict) /\ ~NeedsMailbox(verdict.action)
         /\ NaN \notin {config.alert, config.autoact} /\ verdict.confidence >= config.alert
         /\ "alerted" \notin effects => /\ verdict.confidence >= config.autoact
                                       /\ verdict.urgency # "high"
    /\ "quarantined" \in effects =>
         verdict = NoVerdict \/ ~Offers(verdict) \/ NeedsMailbox(verdict.action)
    /\ step = "mark" => effects # {}

=============================================================================
