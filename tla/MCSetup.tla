------------------------------ MODULE MCSetup ------------------------------
(* The machine that TLC explores: a shell and a service with their own XDG  *)
(* variables, two directories, and files that override, shadow, clash with *)
(* the enforced tier, do not validate or do not parse.                     *)
EXTENDS Setup

TwoPlaces == {"home", "instance"}
BothFlags == {NoFlag, "instance"}
Shell   == [config_home |-> "", config_dirs |-> <<"relative", "/etc/site", "/etc/xdg">>, runtime_dir |-> "/run"]
Systemd == [config_home |-> "relative", config_dirs |-> <<"/etc/site", "", "/etc/xdg">>, runtime_dir |-> ""]

Site == (<<"db_path">> :> "site") @@ (<<"alerts">> :> "off") @@ (<<"tiering", "daily_call_budget">> :> "50")
SiteDirs == {"/etc/site", "/etc/xdg"}
System == {("/etc/site" :> Missing) @@ ("/etc/xdg" :> Holding(Site))}

(* One who configures a backend that does not exist; the schema has nothing *)
(* against it.                                                             *)
Basic == (<<"rules_path">> :> "instance") @@ (<<"provider", "spec">> :> "jmap")
         @@ (<<"provider", "kwargs", "host">> :> "other")
         @@ (<<"provider", "secret_kwargs", "api_token">> :> "JMAP_API_TOKEN")
         @@ (<<"llm", "spec">> :> "litellm") @@ (<<"alerts", "spec">> :> "log")
Own  == (<<"context", "spec">> :> "missing.vault") @@ Basic

(* One who puts a value where the enforced tier has a table, a table where  *)
(* it has a value, a dotted key that reads like one of its own, and who     *)
(* misspells the classifier; and one who gives an argument twice, openly    *)
(* and as a secret.                                                        *)
Clashing == (<<"provider", "kwargs">> :> "none")
            @@ (<<"llm", "kwargs", "headers", "auth", "scheme">> :> "basic")
            @@ (<<"llm", "kwargs", "headers.auth">> :> "mine")
            @@ (<<"tiering", "local_classifier">> :> "kyeword")
            @@ [p \in DOMAIN Basic \ {<<"provider", "kwargs", "host">>} |-> Basic[p]]
Twice == (<<"provider", "kwargs", "api_token">> :> "plain") @@ Basic
Users == {Broken} \cup {Holding(t) : t \in {Own, Clashing, Twice}}

Law == (<<"provider", "kwargs", "host">> :> "fastmail") @@ (<<"tiering", "autoact_threshold">> :> "0.9")
       @@ (<<"llm", "kwargs", "headers", "auth">> :> "theirs")
DottedKeys == "headers.auth" :> <<"headers", "auth">>
Enforced == {Missing, Holding(Law)}

Secrets == ("JMAP_API_TOKEN" :> TRUE) @@ ("ANTHROPIC_API_KEY" :> TRUE) @@ ("ALERT_WEBHOOK_URL" :> FALSE)
Backend == {"jmap", "litellm", "log"}
Names == {"keyword"}

(* A fresh machine, a machine set up by hand for the service, and one whose *)
(* files are in the directory the command line looks in by itself.         *)
Everywhere(x) == [d \in TwoPlaces |-> x]
Fresh == [disk |-> Everywhere(Missing), rules |-> Everywhere("missing"),
             keyring |-> {}, unit |-> "absent", manifest |-> Everywhere("keyring")]
Installed == [disk |-> [home |-> Missing, instance |-> Holding(Own)],
             rules |-> Everywhere("good"), keyring |-> {"JMAP_API_TOKEN", "ANTHROPIC_API_KEY"},
             unit |-> "enabled", manifest |-> Everywhere("keyring")]
AtHome == [disk |-> [home |-> Holding(Own), instance |-> Missing],
             rules |-> [home |-> "good", instance |-> "missing"],
             keyring |-> {"JMAP_API_TOKEN"}, unit |-> "enabled",
             manifest |-> [home |-> "keyring", instance |-> "missing"]]
ThreeMachines == {Fresh, Installed, AtHome}

=============================================================================
