------------------------------ MODULE Receipts ------------------------------
(***************************************************************************)
(* The receipt archive: the branch of Tier 1 that files a message as a     *)
(* PDF.  Company and date are taken from curated data, learned senders and *)
(* the message itself, or asked of a model once per sender, who is then    *)
(* learned.  The tags, the file and the row are written one after the      *)
(* other, and the process may die between any two of them: it is started   *)
(* again and replays the file.                                             *)
(***************************************************************************)
EXTENDS Decide

CONSTANTS
    MaxDeaths,   \* bound: times the process is killed
    Normal,      \* normalize_sender_domain: stripped and lower-cased
    Lowered,     \* a domain lower-cased only, as the knowledge base looks it up
    CompanySlug, \* _slugify of a company
    Slashed      \* the dates that hold a slash

ASSUME ReceiptsAssumption ==
    /\ Mail \in Seq([domain : DOMAIN Normal, address : STRING, words : SUBSET STRING,
                     header : Optional(STRING), marker : Optional(STRING),
                     attachments : Seq(STRING), slug : STRING])
    /\ \A m \in Messages : IsFiniteSet(Mail[m].words)
    /\ MaxDeaths \in Nat /\ Scale \in Nat
    /\ Categories \subseteq STRING /\ "uncategorized" \in Categories
    /\ Votes \subseteq Vote /\ Answers \subseteq Answer
    /\ Normal \in [DOMAIN Normal -> DOMAIN Normal]
    /\ Lowered \in [DOMAIN Normal -> STRING]
    /\ \A c \in Configs :
         /\ c.rules \in Seq(Rule) /\ c.default \in {"escalate", "ignore"}
         /\ c.archive \in BOOLEAN /\ c.pdf \in BOOLEAN
         /\ c.keywords \in Seq([category : Categories, words : SUBSET STRING])
         /\ \A k \in DOMAIN c.keywords : IsFiniteSet(c.keywords[k].words)
         /\ c.targets \in Seq(STRING) /\ c.primary \in Optional(STRING)
         /\ c.categories \subseteq STRING /\ c.mailboxes \subseteq STRING
         /\ c.alert \in Int /\ c.autoact \in Int
         /\ c.companies \in Seq([name : STRING, domains : SUBSET STRING])
         /\ c.extractions \in [DOMAIN Normal -> SUBSET [company : DOMAIN CompanySlug, date : STRING]]
         /\ \A k \in DOMAIN c.companies : c.companies[k].name \in DOMAIN CompanySlug

Domains == DOMAIN Normal
Extraction == [company : DOMAIN CompanySlug, date : STRING]
NoExtraction == [company |-> "none", date |-> "none"]

VARIABLES
    extraction, \* company and date of the message in hand
    known,      \* known_receipt_senders
    tags,       \* keywords on each message
    files,      \* what the archive directory holds
    deaths,     \* history: times the process was killed
    answered,   \* history: extractions the model answered for datable mail, per sender
    lost        \* history: those of them that died with the process

archive == <<known, tags, files>>
history == <<deaths, answered, lost>>
vars == <<decideVars, extraction, archive, history>>

-----------------------------------------------------------------------------
(* EntityContextProvider: the last company that lists a domain has it.  A  *)
(* company with no name is no match.                                       *)
Listing(d) ==
    LET K == config.companies IN
    {i \in DOMAIN K : /\ Lowered[d] \in K[i].domains
                      /\ \A j \in DOMAIN K : Lowered[d] \in K[j].domains => j <= i}
Blank == ""
Curated(d) == {config.companies[i].name : i \in Listing(d)} \ {Blank}

ResolveCompany(m) ==
    IF Curated(Mail[m].domain) # {} THEN Curated(Mail[m].domain) ELSE known[Normal[Mail[m].domain]]

(* The Date header, else a marker in the body.                             *)
ExtractDate(m) == IF Mail[m].header # {} THEN Mail[m].header ELSE Mail[m].marker

Sender(m) == Normal[Mail[m].domain]
Datable(m) == ExtractDate(m) # {}

(* save_pdf's file name, and one page or more for the message and each of  *)
(* its attachments, in order; what cannot be rendered is named on a page.  *)
FileName(m, x) == [date |-> x.date, company |-> CompanySlug[x.company], id |-> Mail[m].slug]
Rendered(a) == IF a \in {"pdf", "image"} THEN a ELSE "placeholder"
Page == {"cover", "pdf", "image", "placeholder"}
Pages(m) == <<"cover">> \o [i \in DOMAIN Mail[m].attachments |-> Rendered(Mail[m].attachments[i])]

-----------------------------------------------------------------------------
Init ==
    /\ DecideInit
    /\ extraction = NoExtraction
    /\ known = [d \in Domains |-> {}]
    /\ tags = [m \in Messages |-> {}]
    /\ files = {}
    /\ deaths = 0
    /\ answered = [d \in Domains |-> 0] /\ lost = [d \in Domains |-> 0]

At(from, to) == /\ step = from /\ step' = to
                /\ Within /\ UNCHANGED <<tier1, tier2>>

(* extract_receipt: both halves, or nothing.                               *)
LookUp ==
    \/ /\ At("archive", "keywords")
       /\ \E c \in ResolveCompany(message), d \in ExtractDate(message) :
            extraction' = [company |-> c, date |-> d]
       /\ UNCHANGED <<archive, history>>
    \/ /\ At("archive", "extract")
       /\ ResolveCompany(message) = {} \/ ExtractDate(message) = {}
       /\ UNCHANGED <<extraction, archive, history>>

AskTier2 ==
    /\ At("extract", "learn")
    /\ \E x \in config.extractions[Mail[message].domain] : extraction' = x
    /\ answered' = IF Datable(message) THEN [answered EXCEPT ![Sender(message)] = @ + 1] ELSE answered
    /\ UNCHANGED <<archive, deaths, lost>>

(* mutant: learned under the domain as the message spells it *)
LearnAsSpelled ==
    /\ At("learn", "keywords")
    /\ known' = [known EXCEPT ![Mail[message].domain] = {extraction.company}]
    /\ UNCHANGED <<extraction, tags, files, history>>

(* mutant: a correction is kept beside what it corrects *)
LearnBeside ==
    /\ At("learn", "keywords")
    /\ known' = [known EXCEPT ![Sender(message)] = @ \cup {extraction.company}]
    /\ UNCHANGED <<extraction, tags, files, history>>

LearnKnownSender ==
    /\ At("learn", "keywords")
    /\ known' = [known EXCEPT ![Sender(message)] = {extraction.company}]
    /\ UNCHANGED <<extraction, tags, files, history>>

(* An observer neither tags nor files.                                     *)
ApplyKeywords ==
    /\ At("keywords", IF observe THEN "filed" ELSE "save")
    /\ tags' = IF observe THEN tags ELSE [tags EXCEPT ![message] = @ \cup {extraction}]
    /\ UNCHANGED <<extraction, known, files, history>>

Savable == /\ config.pdf /\ Blank \notin {extraction.company, extraction.date}
           /\ extraction.date \notin Slashed

(* mutant: the name leaves the message out *)
SavePdfPerDay ==
    /\ Savable /\ At("save", "filed")
    /\ files' = {f \in files : f.name.date # extraction.date \/ f.name.company # CompanySlug[extraction.company]}
                \cup {[name |-> FileName(message, extraction), message |-> message, pages |-> Pages(message)]}
    /\ UNCHANGED <<extraction, known, tags, history>>

(* build_receipt_pdf, then save_pdf, which overwrites.                     *)
SavePdf ==
    /\ Savable /\ At("save", "filed")
    /\ files' = {f \in files : f.name # FileName(message, extraction)}
                \cup {[name |-> FileName(message, extraction), message |-> message, pages |-> Pages(message)]}
    /\ UNCHANGED <<extraction, known, tags, history>>

SettleReceipt ==
    /\ step = "filed"
    /\ Settle(IF observe THEN "observed_receipt" ELSE "receipt")
    /\ extraction' = NoExtraction
    /\ UNCHANGED <<tier1, tier2, archive, history>>

(* No recorded answer for the sender; no company, no date or no library to *)
(* build a PDF with; a slash, which names a directory that is not there.   *)
ArchiveRaises ==
    \/ step = "extract" /\ config.extractions[Mail[message].domain] = {}
    \/ step = "save" /\ ~Savable

Abort ==
    /\ Raises \/ ArchiveRaises
    /\ Leave("down") /\ extraction' = NoExtraction
    /\ UNCHANGED <<archive, history>>

Kill ==
    /\ step \notin {"stopped", "down"} /\ deaths < MaxDeaths
    /\ deaths' = deaths + 1
    /\ lost' = IF step = "learn" /\ Datable(message) THEN [lost EXCEPT ![Sender(message)] = @ + 1] ELSE lost
    /\ Leave("down") /\ extraction' = NoExtraction
    /\ UNCHANGED <<archive, answered>>

Archive == LookUp \/ AskTier2 \/ LearnKnownSender \/ ApplyKeywords \/ SavePdf \/ SettleReceipt
Elsewhere == (Start \/ Stop \/ DecideNext) /\ UNCHANGED <<extraction, archive, history>>
Next == Elsewhere \/ Archive \/ Abort \/ Kill

Spec == Init /\ [][Next]_vars

-----------------------------------------------------------------------------
TypeOK ==
    /\ DecideTypeOK
    /\ step \in {"stopped", "down", "idle", "rules", "classify", "route", "apply",
                 "tier2", "validate", "band", "autoact", "autoact_alert", "alert_only",
                 "mark", "quarantine", "archive", "extract", "learn", "keywords", "save", "filed"}
    /\ extraction \in Extraction \cup {NoExtraction}
    /\ known \in [Domains -> Optional(DOMAIN CompanySlug)]
    /\ tags \in [Messages -> SUBSET Extraction]
    /\ \A f \in files : f.message \in Messages /\ f.pages \in Seq(Page)
    /\ deaths \in 0..MaxDeaths
    /\ answered \in [Domains -> Nat] /\ lost \in [Domains -> Nat]

(* Once answered, a sender is not asked about again, however its domain is *)
(* spelled and however often the process is started ("the next message     *)
(* from this domain never reaches Tier 2 again", receipts/pipeline.py:94), *)
(* but for answers that died before they were learned, and for mail that   *)
(* states no date.                                                         *)
SenderAskedOnce == \A d \in Domains : answered[d] <= 1 + lost[d]

(* What has the row of a filed receipt was tagged, and the file that bears *)
(* its name is its own, with a page for each attachment, or was written    *)
(* over by a message whose id has the same slug (archive.save_pdf).        *)
ReceiptKept ==
    \A m \in Messages : row[m] = "receipt" =>
        \E x \in tags[m], f \in files :
            /\ f.name = FileName(m, x)
            /\ Mail[f.message].slug = Mail[m].slug
            /\ Len(f.pages) = 1 + Len(Mail[f.message].attachments)

(* Only a rule files a receipt: nothing is tagged, filed or recorded as one *)
(* unless the first enabled rule that matches says so, for some            *)
(* classification, and [receipt_archive] is configured.  The model's       *)
(* verdict cannot bring it about (llm/base.py:92, docs/DESIGN.md 9.5).     *)
OnlyRuledReceipts ==
    \A m \in Messages :
        (tags[m] # {} \/ row[m] \in {"receipt", "observed_receipt"} \/ \E f \in files : f.message = m)
        => /\ config.archive
           /\ \E k \in DOMAIN config.rules, c \in Categories :
                RuleFor(k, m, c) /\ config.rules[k].action.type = "archive_receipt"

=============================================================================
