-------------------------------- MODULE Setup --------------------------------
(***************************************************************************)
(* One machine on which spork is installed: the three tiers of config.toml *)
(* and the rules file beside it, the SecretSpec manifest and the keyring,  *)
(* the systemd unit, the daemon's start from all of these, and the         *)
(* commands that write or report them (config init, show and edit, secrets *)
(* enroll and wait, doctor, install-service).                              *)
(*                                                                         *)
(* A TOML document is the function from its leaves, each the sequence of   *)
(* keys that leads to it, to their values; a table with no leaf in it says *)
(* nothing and is left out.  A value is a name; "ill" is one the field     *)
(* refuses.  A directory stands for the config.toml, rules.toml and        *)
(* secretspec.toml in it.                                                  *)
(***************************************************************************)
EXTENDS Integers, Sequences, FiniteSets, TLC
LOCAL INSTANCE SequencesExt

CONSTANTS
    Places,         \* the directories a user's files may be in
    Flags,          \* what the user gives --config and --secretspec
    CliEnv,         \* XDG variables of the user's shell
    ServiceEnv,     \* XDG variables of the user's systemd
    SystemDirs,     \* the directories of $XDG_CONFIG_DIRS, and /etc/xdg
    SystemDefaults, \* what the system default files may hold, by directory
    UserFiles,      \* what the user may write into a config.toml
    EnforcedFiles,  \* what the administrator may write into enforced.toml
    Split,          \* the keys that hold a dot, and the keys between the dots
    Declared,       \* the secrets of the manifest, and whether each is required
    Loadable,       \* specs that import, and whose constructors accept their kwargs
    Registered,     \* names in classify/registry.py
    Machines,       \* what a machine may be like to begin with
    MaxEvents       \* bound: commands, changes of the machine and deaths

NoFlag  == "none"
Empty   == [p \in {} |-> ""]
Missing == [kind |-> "missing", table |-> Empty]
Broken  == [kind |-> "broken", table |-> Empty]   \* unreadable, or not TOML
Holding(table) == [kind |-> "table", table |-> table]
SystemDir == "/etc/xdg"

ASSUME SetupAssumption ==
    /\ {"home", "instance"} \subseteq Places /\ NoFlag \notin Places
    /\ Flags \subseteq Places \cup {NoFlag} /\ MaxEvents \in Nat

VARIABLES
    \* the machine
    disk,      \* config.toml, per directory
    rulesAt,   \* rules.toml, per directory: "missing", "broken" or "good"
    enforced,  \* /etc/spork/enforced.toml
    defaults,  \* config.toml of the system directories
    manifest,  \* secretspec.toml, per directory: "missing", "broken" or "keyring"
    keyring,   \* names of the secrets stored
    unlocked,  \* does the keyring answer
    online,    \* does the mail server
    unit,      \* "absent", "installed" or "enabled"
    \* the daemon
    pc,        \* where its start is
    service,   \* is it systemd's
    place,     \* the directory it was started on
    config,    \* what load_config gave it
    secrets,   \* names of the secrets it resolved
    failedAt,  \* where its last start failed
    \* what the user was told, while it is not out of date
    shown,     \* the last `config show`: its lines, flagged and not
    report,    \* the last `doctor` or `config edit`: the directory, and what it found good
    \* history
    law,       \* enforced.toml when the daemon loaded it
    foretold,  \* the last start began after that report, on that directory
    events

files  == <<disk, rulesAt, enforced, defaults, manifest>>
vault  == <<keyring, unlocked>>
world  == <<files, vault, online, unit>>
told   == <<shown, report>>
daemon == <<pc, service, place, config, secrets, failedAt, law, foretold>>
vars   == <<world, daemon, told, events>>

-----------------------------------------------------------------------------
(* paths.py.  An unset, empty or relative variable is no variable.         *)
IsAbsolute(value) == value \notin {"", "relative"}

ResolveUserConfigPath(flag, env) ==
    IF flag # NoFlag THEN flag
    ELSE IF IsAbsolute(env.config_home) THEN env.config_home ELSE "home"

ResolveSystemDefaults(env) ==
    LET dirs == SelectSeq(env.config_dirs, IsAbsolute)
    IN  IF dirs = << >> THEN <<SystemDir>> ELSE dirs

ResolveSocketPath(env) == IF IsAbsolute(env.runtime_dir) THEN env.runtime_dir ELSE "/tmp"

-----------------------------------------------------------------------------
(* loader.py.                                                              *)
StartsWith(p, q) == Len(q) <= Len(p) /\ \A i \in DOMAIN q : p[i] = q[i]
Clash(p, q) == StartsWith(p, q) \/ StartsWith(q, p)

(* _deep_merge: a key of `over` wins; it also does away with a value where *)
(* it has a table, and with a whole table where it has a value.            *)
Merge(base, over) ==
    [p \in DOMAIN over \cup {q \in DOMAIN base : \A o \in DOMAIN over : ~Clash(q, o)} |->
        IF p \in DOMAIN over THEN over[p] ELSE base[p]]

(* A dotted path: the keys joined, so that one holding a dot falls apart.  *)
Dots(p)    == \E i \in DOMAIN p : p[i] \in DOMAIN Split
Parts(key) == IF key \in DOMAIN Split THEN Split[key] ELSE <<key>>
Dotted(p)  == IF Dots(p) THEN FlattenSeq([i \in DOMAIN p |-> Parts(p[i])]) ELSE p

(* mutant: the innermost tables are not walked *)
FlattenTopKeys(table) == {Dotted(p) : p \in {q \in DOMAIN table : Len(q) < 3}}

(* _flatten_keys: the dotted path of every leaf.                           *)
FlattenKeys(table) == {Dotted(p) : p \in DOMAIN table}

(* The first directory that has the file, readable or not.                 *)
SystemDefault(env) ==
    LET dirs == ResolveSystemDefaults(env)
        first == {i \in DOMAIN dirs : /\ defaults[dirs[i]] # Missing
                                      /\ \A j \in 1..(i - 1) : defaults[dirs[j]] = Missing}
    IN  IF first = {} THEN Missing ELSE defaults[dirs[CHOOSE i \in first : TRUE]]

-----------------------------------------------------------------------------
(* schema.py.  Under kwargs anything goes; a secret_kwargs entry is a      *)
(* name; every other key has to be known.                                  *)
Backends == {<<"provider">>, <<"llm">>, <<"alerts">>, <<"context">>,
             <<"receipt_archive", "extraction">>}
Tiering == {"default_unmatched_action", "alert_threshold", "autoact_threshold",
            "daily_call_budget", "max_body_chars", "local_classifier", "allowed_categories"}
Plain == {<<"rules_path">>, <<"db_path">>, <<"socket_path">>, <<"log_level">>,
          <<"llm_recording", "corpus_path">>, <<"receipt_archive", "output_dir">>,
          <<"receipt_archive", "extraction", "spec">>}
         \cup {<<"tiering", f>> : f \in Tiering}
         \cup {<<b, "spec">> : b \in {"provider", "llm", "alerts", "context"}}

Kwargs(p)  == \E b \in Backends : StartsWith(p, b \o <<"kwargs">>) /\ Len(p) > Len(b) + 1
Mapped(p)  == \E b \in Backends : StartsWith(p, b \o <<"secret_kwargs">>) /\ Len(p) = Len(b) + 2
Known(p)   == p \in Plain \/ Mapped(p)
Under(table, prefix) == {p \in DOMAIN table : StartsWith(p, prefix)}
Argument(p, b) == p[Len(b) + 2]

Required(table) ==
    {<<"rules_path">>, <<"db_path">>, <<"provider", "spec">>, <<"llm", "spec">>, <<"alerts", "spec">>}
    \cup (IF Under(table, <<"context">>) = {} THEN {} ELSE {<<"context", "spec">>})
    \cup (IF Under(table, <<"receipt_archive">>) = {} THEN {}
          ELSE {<<"receipt_archive", "output_dir">>, <<"receipt_archive", "extraction", "spec">>})

Overlap(table) ==
    \E b \in Backends : \E p \in Under(table, b \o <<"kwargs">>),
                           q \in Under(table, b \o <<"secret_kwargs">>) :
        Argument(p, b) = Argument(q, b)

Valid(table) ==
    /\ \A p \in DOMAIN table : Kwargs(p) \/ (Known(p) /\ table[p] # "ill")
    /\ Required(table) \subseteq DOMAIN table
    /\ ~Overlap(table)

WithSocketPath(table, env) ==
    [p \in DOMAIN table \cup {<<"socket_path">>} |->
        IF p \in DOMAIN table THEN table[p] ELSE ResolveSocketPath(env)]

(* What `config init` writes: a safe configuration for JMAP and LiteLLM.   *)
Starter(d) ==
    (<<"rules_path">> :> d) @@ (<<"db_path">> :> "data")
    @@ (<<"provider", "spec">> :> "jmap") @@ (<<"provider", "kwargs", "host">> :> "fastmail")
    @@ (<<"provider", "kwargs", "poll_interval_seconds">> :> "30")
    @@ (<<"provider", "secret_kwargs", "api_token">> :> "JMAP_API_TOKEN")
    @@ (<<"llm", "spec">> :> "litellm") @@ (<<"llm", "kwargs", "model">> :> "claude")
    @@ (<<"llm", "secret_kwargs", "api_key">> :> "ANTHROPIC_API_KEY")
    @@ (<<"alerts", "spec">> :> "log")

(* What the three files may hold.                                          *)
SystemFiles == {Missing} \cup UNION {{d[dir] : dir \in SystemDirs} : d \in SystemDefaults}
UsersFiles  == {Missing} \cup UserFiles \cup {Holding(Starter(d)) : d \in Places}

ASSUME EnvironmentAssumption ==
    /\ \A env \in {CliEnv, ServiceEnv} :
          /\ ResolveUserConfigPath(NoFlag, env) \in Places
          /\ \A i \in DOMAIN ResolveSystemDefaults(env) : ResolveSystemDefaults(env)[i] \in SystemDirs
    /\ \A m \in Machines :
          /\ m.disk \in [Places -> UsersFiles]
          /\ m.rules \in [Places -> {"missing", "broken", "good"}]
          /\ m.manifest \in [Places -> {"missing", "broken", "keyring"}]
          /\ m.keyring \subseteq DOMAIN Declared /\ m.unit \in {"absent", "installed", "enabled"}
    /\ Missing \in EnforcedFiles
    /\ \A e \in EnforcedFiles : DOMAIN e.table \subseteq Seq(STRING)

(* mutant: enforced.toml is the lowest tier *)
LoadsBackwards == [s \in SystemFiles |-> [u \in UsersFiles |-> [e \in EnforcedFiles |->
    LET merged == Merge(Merge(e.table, s.table), u.table)
    IN  IF Broken \in {s, u, e} \/ ~Valid(merged) THEN Broken ELSE Holding(merged)]]]

(* load_config as far as it is a matter of the three files: merge them,    *)
(* each over the one before, then validate.  Broken stands for its error.  *)
Loads == [s \in SystemFiles |-> [u \in UsersFiles |-> [e \in EnforcedFiles |->
    LET merged == Merge(Merge(s.table, u.table), e.table)
    IN  IF Broken \in {s, u, e} \/ ~Valid(merged) THEN Broken ELSE Holding(merged)]]]

(* mutant: nobody fills in the socket *)
LoadConfigNoSocket(dir, env) == Loads[SystemDefault(env)][disk[dir]][enforced]

LoadConfig(dir, env) ==
    LET loaded == Loads[SystemDefault(env)][disk[dir]][enforced]
    IN  IF loaded = Broken THEN Broken ELSE Holding(WithSocketPath(loaded.table, env))

-----------------------------------------------------------------------------
(* secrets.py and runtime.py.                                              *)
Resolved == keyring \cap DOMAIN Declared

(* resolve_secrets: the manifest reads, the keyring answers, and has every *)
(* secret that is required.                                                *)
Resolves(dir) ==
    /\ manifest[dir] = "keyring" /\ unlocked
    /\ \A s \in DOMAIN Declared : Declared[s] => s \in keyring

SecretNames(table, b) == {table[p] : p \in Under(table, b \o <<"secret_kwargs">>)}
NeedsSecrets(table) == \E b \in Backends : SecretNames(table, b) # {}

(* load_provider and its four likes: the module imports, has the class, and *)
(* the class takes the arguments.                                          *)
Imports(spec) == spec \in Loadable

(* materialize_backend_kwargs and the load_* that follows it; [context]    *)
(* and [receipt_archive] may be left out.                                  *)
Builds(table, b, names) ==
    /\ Imports(table[b \o <<"spec">>])
    /\ SecretNames(table, b) \subseteq names
BuildsIfConfigured(table, b, names) == Under(table, b) = {} \/ Builds(table, b, names)

RulesLoad(table) ==
    LET dir == table[<<"rules_path">>]
    IN  dir \in Places /\ rulesAt[dir] = "good"

ClassifierKnown(table) ==
    <<"tiering", "local_classifier">> \in DOMAIN table =>
        table[<<"tiering", "local_classifier">>] \in Registered

-----------------------------------------------------------------------------
(* The daemon's start, stage by stage.  Rules are read after the provider  *)
(* is built and before the rest is.  Opening the database (before connect) *)
(* and binding the socket (after it) are left out: no file here has a say  *)
(* in them.                                                                *)
After == [provider |-> "rules", rules |-> "llm", llm |-> "context", context |-> "receipts",
          receipts |-> "alerts", alerts |-> "classifier", classifier |-> "connect",
          connect |-> "up"]
Stages == DOMAIN After

StageSucceeds(stage, table, names) ==
    CASE stage = "provider"   -> Builds(table, <<"provider">>, names)
      [] stage = "rules"      -> RulesLoad(table)
      [] stage = "llm"        -> Builds(table, <<"llm">>, names)
      [] stage = "context"    -> BuildsIfConfigured(table, <<"context">>, names)
      [] stage = "receipts"   -> BuildsIfConfigured(table, <<"receipt_archive", "extraction">>, names)
      [] stage = "alerts"     -> Builds(table, <<"alerts">>, names)
      [] stage = "classifier" -> ClassifierKnown(table)
      [] stage = "connect"    -> online

NothingShown == [flagged |-> {}, plain |-> {}]
NoReport == [dir |-> NoFlag, good |-> {}]

Env == IF service THEN ServiceEnv ELSE CliEnv
Outside == UNCHANGED <<world, told>>

Init ==
    /\ \E m \in Machines :
          /\ disk = m.disk /\ rulesAt = m.rules /\ keyring = m.keyring /\ unit = m.unit
          /\ manifest = m.manifest
    /\ enforced \in EnforcedFiles /\ defaults \in SystemDefaults
    /\ unlocked = TRUE /\ online = TRUE
    /\ pc = "off" /\ service = FALSE /\ place = NoFlag /\ config = Broken /\ secrets = {}
    /\ failedAt = "none" /\ law = Missing /\ foretold = FALSE
    /\ shown = NothingShown /\ report = NoReport /\ events = 0

(* The unit passes both paths; by hand the daemon finds its own.           *)
Begin(at, systemd, dir, env) ==
    /\ pc' = at /\ service' = systemd /\ place' = dir /\ failedAt' = "none"
    /\ foretold' = (/\ report.dir = dir
                    /\ ResolveSystemDefaults(env) = ResolveSystemDefaults(CliEnv))
    /\ Outside /\ UNCHANGED <<config, secrets, law, events>>

StartByHand(flag) == pc = "off" /\ Begin("load", FALSE, ResolveUserConfigPath(flag, CliEnv), CliEnv)
StartService == pc = "off" /\ unit = "enabled" /\ Begin("wait", TRUE, "instance", ServiceEnv)
(* mutant: Restart=on-abnormal, which an exit status is not *)
RestartAfterDeath ==
    pc = "failed" /\ failedAt = "died" /\ Begin("wait", TRUE, "instance", ServiceEnv)

Restart == pc = "failed" /\ Begin("wait", TRUE, "instance", ServiceEnv)

Released ==
    /\ config' = Broken /\ secrets' = {} /\ law' = Missing /\ place' = NoFlag

(* One error line and exit status 1; systemd starts it again.              *)
Fail(at) ==
    /\ pc' = (IF service THEN "failed" ELSE "off") /\ failedAt' = at
    /\ Released /\ UNCHANGED <<service, foretold>>

Stop ==
    /\ pc # "off" /\ pc' = "off" /\ service' = FALSE
    /\ failedAt' = "none" /\ foretold' = FALSE
    /\ Released /\ Outside /\ UNCHANGED events

Die ==
    /\ pc = "up" /\ events < MaxEvents /\ events' = events + 1
    /\ Fail("died") /\ Outside

(* ExecStartPre, `spork secrets wait`: tries again until the deadline.     *)
Wait ==
    /\ pc = "wait"
    /\ IF Resolves(place)
         THEN pc' = "load" /\ UNCHANGED <<service, place, config, secrets, failedAt, law, foretold>>
         ELSE Fail("wait")
    /\ Outside /\ UNCHANGED events

Load ==
    /\ pc = "load"
    /\ IF LoadConfig(place, Env) = Broken THEN Fail("load")
       ELSE /\ pc' = "secrets" /\ config' = LoadConfig(place, Env) /\ law' = enforced
            /\ UNCHANGED <<service, place, secrets, failedAt, foretold>>
    /\ Outside /\ UNCHANGED events

(* resolve_runtime_secrets: not asked for when no backend maps one.        *)
ResolveRuntimeSecrets ==
    /\ pc = "secrets"
    /\ IF NeedsSecrets(config.table) /\ ~Resolves(place) THEN Fail("secrets")
       ELSE /\ pc' = "provider"
            /\ secrets' = IF NeedsSecrets(config.table) THEN Resolved ELSE {}
            /\ UNCHANGED <<service, place, config, failedAt, law, foretold>>
    /\ Outside /\ UNCHANGED events

Compose ==
    /\ pc \in Stages
    /\ IF StageSucceeds(pc, config.table, secrets)
         THEN pc' = After[pc] /\ UNCHANGED <<service, place, config, secrets, failedAt, law, foretold>>
         ELSE Fail(pc)
    /\ Outside /\ UNCHANGED events

-----------------------------------------------------------------------------
(* The machine changes, from outside or by a command; what was reported is *)
(* out of date.                                                            *)
Change ==
    /\ events < MaxEvents /\ events' = events + 1
    /\ report' = NoReport /\ foretold' = FALSE
    /\ UNCHANGED <<pc, service, place, config, secrets, failedAt, law>>

(* An editor saves config.toml or rules.toml.                              *)
UserWrites(d, f) ==
    /\ disk' = [disk EXCEPT ![d] = f] /\ Change
    /\ UNCHANGED <<rulesAt, enforced, defaults, manifest, vault, online, unit, shown>>

UserWritesRules(d, r) ==
    /\ rulesAt' = [rulesAt EXCEPT ![d] = r] /\ Change
    /\ UNCHANGED <<disk, enforced, defaults, manifest, vault, online, unit, shown>>

AdminWrites(f) ==
    /\ enforced' = f /\ shown' = NothingShown /\ Change
    /\ UNCHANGED <<disk, rulesAt, defaults, manifest, vault, online, unit>>

KeyringLocks ==
    /\ unlocked' = ~unlocked /\ Change
    /\ UNCHANGED <<files, keyring, online, unit, shown>>

ServerGoes ==
    /\ online' = ~online /\ Change
    /\ UNCHANGED <<files, vault, unit, shown>>

(* config init, unless there is a configuration.  Of the two files the     *)
(* second may fail.                                                        *)
ConfigInit(flag, force) ==
    LET d == ResolveUserConfigPath(flag, CliEnv)
    IN  /\ disk[d] = Missing \/ force
        /\ disk' = [disk EXCEPT ![d] = Holding(Starter(d))]
        /\ rulesAt' \in {rulesAt, [rulesAt EXCEPT ![d] = "good"]}
        /\ Change
        /\ UNCHANGED <<enforced, defaults, manifest, vault, online, unit, shown>>

(* secrets enroll: one store after the other, and the first that fails     *)
(* ends it.                                                                *)
StoreSecret(dir) == manifest[dir] = "keyring" /\ unlocked

EnrolledNames == <<"JMAP_API_TOKEN", "ANTHROPIC_API_KEY">>

Storable == DOMAIN Declared \cup {EnrolledNames[i] : i \in DOMAIN EnrolledNames}

Enroll(flag) ==
    /\ StoreSecret(ResolveUserConfigPath(flag, CliEnv))
    /\ \E n \in 1..Len(EnrolledNames) : keyring' = keyring \cup {EnrolledNames[i] : i \in 1..n}
    /\ Change
    /\ UNCHANGED <<files, unlocked, online, unit, shown>>

(* install-service: write the unit, reload systemd, enable and start it;   *)
(* systemctl may fail after the file is written.                           *)
InstallService(enableNow) ==
    /\ unit' \in {IF unit = "absent" THEN "installed" ELSE unit} \cup (IF enableNow THEN {"enabled"} ELSE {})
    /\ Change
    /\ UNCHANGED <<files, vault, online, shown>>

-----------------------------------------------------------------------------
(* What the command line reports.                                          *)
Command ==
    /\ events < MaxEvents /\ events' = events + 1
    /\ UNCHANGED <<world, pc, service, place, config, secrets, failedAt, law>>

(* config show: a line per field, and one per entry of kwargs and of       *)
(* secret_kwargs, however deep its value is; log_level, [context] and      *)
(* [receipt_archive] have none.  A line is flagged when its dotted path is *)
(* the dotted path of a leaf of enforced.toml.                             *)
Sections == {"provider", "llm", "alerts"}

Entries(table) ==
    {SubSeq(p, 1, 3) : p \in {q \in DOMAIN table : /\ Len(q) >= 3 /\ q[1] \in Sections
                                                  /\ q[2] \in {"kwargs", "secret_kwargs"}}}

Lines(table) ==
    {<<"rules_path">>, <<"db_path">>, <<"socket_path">>}
    \cup {<<s, "spec">> : s \in Sections} \cup Entries(table)
    \cup ({<<"llm_recording", "corpus_path">>} \cap DOMAIN table)
    \cup {<<"tiering", f>> : f \in Tiering}

ConfigShow(flag) ==
    LET c == LoadConfig(ResolveUserConfigPath(flag, CliEnv), CliEnv)
        flagged == {p \in Lines(c.table) : Dotted(p) \in FlattenKeys(enforced.table)}
    IN  /\ c # Broken
        /\ shown' = [flagged |-> flagged, plain |-> Lines(c.table) \ flagged]
        /\ Command /\ UNCHANGED <<report, foretold>>

(* config edit: nothing is opened that does not load already; what the     *)
(* user saves is loaded again, reported and left as it is.                 *)
ConfigEdit(flag, f) ==
    LET d == ResolveUserConfigPath(flag, CliEnv)
        saved == Loads[SystemDefault(CliEnv)][f][enforced]
    IN  /\ LoadConfig(d, CliEnv) # Broken
        /\ disk' = [disk EXCEPT ![d] = f]
        /\ report' = [dir |-> d, good |-> IF saved = Broken THEN {} ELSE {"config"}]
        /\ events < MaxEvents /\ events' = events + 1 /\ foretold' = FALSE
        /\ UNCHANGED <<rulesAt, enforced, defaults, manifest, vault, online, unit>>
        /\ UNCHANGED <<pc, service, place, config, secrets, failedAt, law, shown>>

(* mutant: an unknown classifier is not looked up *)
ChecksNoClassifier(d) ==
    LET c == LoadConfig(d, CliEnv)
        ok == IF Resolves(d) THEN {"secrets"} ELSE {}
    IN  IF c = Broken THEN ok
        ELSE ok \cup {"config", "classifier"} \cup (IF RulesLoad(c.table) THEN {"rules"} ELSE {})
             \cup (IF ~Resolves(d) THEN {}
                   ELSE {s \in {"provider", "llm", "alerts"} : StageSucceeds(s, c.table, Resolved)}
                        \cup (IF Builds(c.table, <<"provider">>, Resolved) /\ online
                              THEN {"connect"} ELSE {}))

(* doctor: each check by itself; those of a backend are skipped, and count *)
(* as failed, without a configuration or without secrets.                  *)
Checks(d) ==
    LET c == LoadConfig(d, CliEnv)
        ok == IF Resolves(d) THEN {"secrets"} ELSE {}
    IN  IF c = Broken THEN ok
        ELSE ok \cup {"config"} \cup {s \in {"rules", "classifier"} : StageSucceeds(s, c.table, {})}
             \cup (IF ~Resolves(d) THEN {}
                   ELSE {s \in {"provider", "llm", "alerts"} : StageSucceeds(s, c.table, Resolved)}
                        \cup (IF Builds(c.table, <<"provider">>, Resolved) /\ online
                              THEN {"connect"} ELSE {}))

(* Type=notify: systemd calls the service active once READY=1 was sent.    *)
Active == service /\ pc = "up"

(* The one check that is about the daemon: installed, enabled, active.     *)
CheckSystemdUnit == unit = "enabled" /\ Active

Doctor(flag) ==
    LET d == ResolveUserConfigPath(flag, CliEnv)
    IN  /\ report' = [dir |-> d, good |-> Checks(d) \cup (IF CheckSystemdUnit THEN {"unit"} ELSE {})]
        /\ foretold' = FALSE
        /\ Command /\ UNCHANGED shown

-----------------------------------------------------------------------------
Daemon == Wait \/ Load \/ ResolveRuntimeSecrets \/ Compose

Machine ==
    \/ \E d \in Places : \/ \E f \in UserFiles : UserWrites(d, f)
                         \/ \E r \in {"good", "broken"} : UserWritesRules(d, r)
    \/ \E f \in EnforcedFiles : AdminWrites(f)
    \/ KeyringLocks \/ ServerGoes

CommandLine ==
    \/ \E flag \in Flags :
          \/ \E force \in BOOLEAN : ConfigInit(flag, force)
          \/ \E f \in UserFiles : ConfigEdit(flag, f)
          \/ ConfigShow(flag) \/ Enroll(flag) \/ Doctor(flag)
    \/ \E enableNow \in BOOLEAN : InstallService(enableNow)

Next ==
    \/ Daemon \/ StartService \/ Restart \/ Stop \/ Die
    \/ \E flag \in Flags : StartByHand(flag)
    \/ Machine \/ CommandLine

Spec == Init /\ [][Next]_vars

(* Restart=on-failure, with RestartSec=5 well inside systemd's start limit;*)
(* the stages of a start each end.  Nobody is obliged to do anything else. *)
FairSpec == Spec /\ WF_vars(Daemon) /\ WF_vars(Restart)

-----------------------------------------------------------------------------
Loaded == {"secrets", "up"} \cup Stages
Good == {"secrets", "config", "rules", "classifier", "provider", "llm", "alerts", "connect", "unit"}

(* Every variable has its type; a daemon past load_config holds a document *)
(* the schema accepts, with a socket path, and the others hold none.       *)
TypeOK ==
    /\ disk \in [Places -> UsersFiles]
    /\ rulesAt \in [Places -> {"missing", "broken", "good"}]
    /\ enforced \in EnforcedFiles /\ defaults \in SystemDefaults
    /\ manifest \in [Places -> {"missing", "broken", "keyring"}] /\ keyring \subseteq Storable
    /\ unlocked \in BOOLEAN /\ online \in BOOLEAN /\ unit \in {"absent", "installed", "enabled"}
    /\ pc \in {"off", "failed", "wait", "load"} \cup Loaded
    /\ service \in BOOLEAN /\ place \in Places \cup {NoFlag}
    /\ pc \in {"wait", "failed"} => service
    /\ IF pc \in Loaded THEN Required(config.table) \subseteq DOMAIN config.table /\ <<"socket_path">> \in DOMAIN config.table
       ELSE config = Broken
    /\ secrets \subseteq DOMAIN Declared
    /\ failedAt \in {"none", "died", "wait", "load", "secrets"} \cup Stages
    /\ report.dir \in Places \cup {NoFlag} /\ report.good \subseteq Good
    /\ foretold \in BOOLEAN /\ events \in 0..MaxEvents

(* The enforced tier always wins: a daemon that runs has every value that  *)
(* enforced.toml had at its start, whatever the other tiers hold and       *)
(* whoever edits them.                                                     *)
EnforcedStands ==
    pc \in Loaded =>
        \A p \in DOMAIN law.table : p \in DOMAIN config.table /\ config.table[p] = law.table[p]

(* What enforced.toml may set without a flagged line: a field that has no  *)
(* line, and a key inside the table that is the value of an entry.         *)
Hidden(p) == p[1] \in {"log_level", "context", "receipt_archive"} \/ Len(p) > 3

(* A line that reads like a key of enforced.toml and may be another one,   *)
(* because a dot in a key looks like the dot between two keys.             *)
Alias(p) == Dots(p) \/ \E q \in DOMAIN enforced.table : Dots(q) /\ Dotted(q) = Dotted(p)

(* `config show` flags what the user cannot change.  Every key that        *)
(* enforced.toml sets is a flagged line unless it is hidden, and as long as *)
(* enforced.toml stays as it was a flagged line is the truth: whatever the *)
(* user writes, above the key, at it or below it, a load that succeeds has *)
(* the enforced value there, unless the line is an alias.                  *)
FlagsStand ==
    /\ shown # NothingShown =>
          \A q \in DOMAIN enforced.table : q \in shown.flagged \ shown.plain \/ Hidden(q)
    /\ \A d \in Places :
          LET loaded == Loads[SystemDefault(CliEnv)][disk[d]][enforced]
          IN  loaded # Broken =>
                \A p \in shown.flagged : ~Alias(p) =>
                    /\ p \in DOMAIN enforced.table /\ p \in DOMAIN loaded.table
                    /\ loaded.table[p] = enforced.table[p]

(* Which stages of a start a check of `doctor`, or the save of `config     *)
(* edit`, speaks for.                                                      *)
SpeaksFor(check) ==
    CASE check = "config" -> {"load"} [] check = "secrets" -> {"wait", "secrets"}
      [] check = "unit" -> {} [] OTHER -> {check}

(* What doctor finds good does not fail: a start from the same directory,  *)
(* with nothing changed since, gets past every stage it spoke for, though  *)
(* doctor and run_daemon compose the parts independently.                  *)
DoctorForetells == foretold => \A check \in report.good : failedAt \notin SpeaksFor(check)

(* Everything a start of the service needs.                                *)
Sound ==
    LET c == LoadConfig("instance", ServiceEnv)
    IN  /\ c # Broken /\ Resolves("instance")
        /\ \A s \in Stages :
              StageSucceeds(s, c.table, IF NeedsSecrets(c.table) THEN Resolved ELSE {})

(* As long as a start is under way a stage of it can be taken, and a start *)
(* that failed can be made again: what the fairness needs.                 *)
Underway == {"wait", "load", "secrets"} \cup Stages
NeverStuck ==
    /\ pc \in Underway => ENABLED <<Daemon>>_vars
    /\ pc = "failed" => ENABLED <<Restart>>_vars

(* A service that keeps being started, and whose files, secrets and server *)
(* are repaired at some time, comes up and stays up by itself, however     *)
(* many starts have failed before.                                         *)
RepairedComesUp == <>[](Sound /\ service /\ pc # "off") => <>[](pc = "up")

=============================================================================
