----------------------------- MODULE MCReceipts -----------------------------
(* The file that TLC replays, and the configurations it meets.             *)
EXTENDS Receipts, TLC

Domain == ("shop" :> "shop") @@ ("Shop " :> "shop") @@ ("bank" :> "bank")
LowerCase == ("shop" :> "shop") @@ ("Shop " :> "shop ") @@ ("bank" :> "bank")
Slugs == ("Acme Ltd" :> "acme-ltd") @@ ("acme ltd" :> "acme-ltd") @@ ("" :> "unknown")
Categories3 == {"receipt", "urgent", "uncategorized"}

(* Two receipts of one sender, spelled twice, whose ids differ by case; one *)
(* that states no date; and one that a person sent.                        *)
Receipt(d, h, k, a, s) ==
    [domain |-> d, address |-> "billing", words |-> {"invoice"}, header |-> h, marker |-> k,
     attachments |-> a, slug |-> s]
FourMails == <<Receipt("shop", {"1 May"}, {}, <<"pdf", "damaged pdf">>, "m1"),
               Receipt("Shop ", {}, {"1 May"}, <<"image">>, "m2"),
               Receipt("shop", {"1 May"}, {"05/01"}, <<>>, "m1"),
               [Receipt("bank", {}, {}, <<"other">>, "m4") EXCEPT
                    !.address = "friend", !.words = {"invoice", "asap", "deadline"}]>>

When(d, s, c, a) ==
    [enabled |-> TRUE, always |-> FALSE, domains |-> d, senders |-> s, categories |-> c,
     action |-> [type |-> a, mailbox |-> {}]]
Off(r) == [r EXCEPT !.enabled = FALSE]
Always(a) == [When({}, {}, {}, a) EXCEPT !.always = TRUE]
Move(r) == [r EXCEPT !.action = [type |-> "move", mailbox |-> {"Bills"}]]

Words == <<[category |-> "urgent", words |-> {"asap", "deadline", "urgent"}],
           [category |-> "receipt", words |-> {"invoice", "receipt"}]>>

Plain == [rules |-> <<Off(Always("ignore")), When({}, {}, {}, "ignore"),
                      Move(When({{"Shop "}}, {{"friend"}}, {}, "move")),
                      When({{"shop", "Shop ", "bank"}}, {}, {{"receipt"}}, "archive_receipt")>>,
          keywords |-> Words, targets |-> <<"keyword">>, primary |-> {},
          categories |-> {"receipt"}, mailboxes |-> {"Bills"}, alert |-> 2, autoact |-> 3,
          default |-> "escalate", archive |-> TRUE, pdf |-> TRUE, companies |-> <<>>,
          extractions |-> ("shop" :> {[company |-> "Acme Ltd", date |-> "1 May"]})
                          @@ ("Shop " :> {[company |-> "acme ltd", date |-> "2 May"]})
                          @@ ("bank" :> {[company |-> "Acme Ltd", date |-> "05/01"],
                                         [company |-> "", date |-> "1 May"]})]

(* Two classifiers, one of them experimental; a curated company; a slip in *)
(* the thresholds; no archive; a model that says nothing about a sender;   *)
(* an archive rule that is off.                                            *)
Ensemble == [Plain EXCEPT !.targets = <<"trial", "keyword">>, !.autoact = 2]
Shadow == [Plain EXCEPT !.targets = <<"keyword", "trial">>, !.primary = {"keyword"},
                        !.keywords = <<Words[2], Words[1]>>,
                        !.rules = <<When({}, {}, {{"urgent"}}, "archive_receipt"), Always("archive_receipt")>>,
                        !.companies = <<[name |-> "Acme Ltd", domains |-> {"shop", "bank"}],
                                        [name |-> "", domains |-> {"bank"}]>>]
Slip == [Plain EXCEPT !.rules = <<Always("escalate")>>, !.alert = 3, !.autoact = 1]
Mute == [Plain EXCEPT !.rules = <<When({}, {{"friend"}}, {}, "move"), Off(Always("move")),
                                  When({{"shop", "Shop "}}, {}, {}, "archive_receipt"),
                                  When({}, {}, {{"urgent"}}, "ignore")>>,
                      !.targets = <<>>,
                      !.extractions = ("shop" :> {}) @@ ("Shop " :> {}) @@ ("bank" :> {})]
Bare == [Plain EXCEPT !.archive = FALSE]
Sorted == [Plain EXCEPT !.rules = <<Off(Always("archive_receipt")), Move(When({}, {{"friend"}}, {}, "move")),
                                    When({{"shop"}}, {{"billing"}}, {}, "ignore")>>,
                        !.alert = NaN, !.default = "escalate"]
SevenConfigs == {Plain, Ensemble, Shadow, Slip, Mute, Bare, Sorted}

SomeVotes == {[succeeded |-> TRUE, category |-> "receipt", hits |-> 1, size |-> 2],
              [succeeded |-> TRUE, category |-> "urgent", hits |-> 1, size |-> 1]}
Says(c, u, k, t, b) == [category |-> c, urgency |-> u, confidence |-> k,
                        action |-> [type |-> t, mailbox |-> b]]
SomeAnswers == {Says("receipt", "low", k, "tag", {"Bills"}) : k \in 1..3}
               \cup {Says("receipt", "high", 3, "ignore", {}), Says("receipt", "low", 3, "move", {}),
                     Says("receipt", "low", 3, "archive_receipt", {}),
                     Says("urgent", "low", 3, "move", {"Bills"}), Says("receipt", "low", 3, "tag", {"Junk"}),
                     Says("receipt", "medium", 5, "ignore", {})}

=============================================================================
