SPECIFICATION Spec
CONSTANTS
    Mail <- FourMails
    Configs <- SevenConfigs
    Categories <- Categories3
    Votes <- SomeVotes
    Answers <- SomeAnswers
    Scale = 4
    MaxDeaths = 2
    Normal <- Domain
    Lowered <- LowerCase
    CompanySlug <- Slugs
    Slashed = {"05/01"}
INVARIANTS
    TypeOK
    FirstMatchWins
    WithinTheOffer
    SenderAskedOnce
    ReceiptKept
    OnlyRuledReceipts
