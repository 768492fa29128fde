---------------------------- MODULE Setup_proofs ----------------------------
(* What module Setup keeps for any configuration files, environments,       *)
(* secrets and machines, and any number of commands and deaths.             *)
EXTENDS Setup, TLAPS, SequenceTheorems

(* What `config show` said of the enforced tier is still so.                *)
ShownInv ==
    /\ \A p \in shown.flagged : p \in DOMAIN enforced.table \/ Alias(p)
    /\ shown # NothingShown =>
          \A q \in DOMAIN enforced.table : q \in shown.flagged \ shown.plain \/ Hidden(q)

(* A start has a directory to read.                                         *)
PlaceInv == pc \in {"wait", "load", "secrets"} => place \in Places

Inv == TypeOK /\ ShownInv /\ PlaceInv /\ EnforcedStands

-----------------------------------------------------------------------------
(* The merge of the tiers.                                                  *)

(* The higher tier wins at each of its keys, whether the lower one has the  *)
(* same key, a table there, or a value at a table's place.                  *)
LEMMA MergeOver ==
  ASSUME NEW base, NEW over, NEW p \in DOMAIN over
  PROVE  p \in DOMAIN Merge(base, over) /\ Merge(base, over)[p] = over[p]
BY DEF Merge

(* The lower tier keeps exactly the keys that no key of the higher one      *)
(* meets, with their values.                                                *)
LEMMA MergeUnder ==
  ASSUME NEW base, NEW over, NEW p \in DOMAIN base
  PROVE  /\ p \in DOMAIN Merge(base, over) <=>
              p \in DOMAIN over \/ \A o \in DOMAIN over : ~Clash(p, o)
         /\ p \in DOMAIN Merge(base, over) /\ p \notin DOMAIN over =>
              Merge(base, over)[p] = base[p]
BY DEF Merge

(* A load that succeeds has all of the enforced tier, and is valid.         *)
LEMMA LoadsEnforced ==
  ASSUME NEW s \in SystemFiles, NEW u \in UsersFiles, NEW e \in EnforcedFiles,
         Loads[s][u][e] # Broken
  PROVE  /\ Valid(Loads[s][u][e].table)
         /\ \A p \in DOMAIN e.table :
              p \in DOMAIN Loads[s][u][e].table /\ Loads[s][u][e].table[p] = e.table[p]
<1> DEFINE merged == Merge(Merge(s.table, u.table), e.table)
<1>1. Loads[s][u][e] =
        IF Broken \in {s, u, e} \/ ~Valid(merged) THEN Broken ELSE Holding(merged)
  BY DEF Loads
<1>2. Loads[s][u][e].table = merged /\ Valid(merged)
  BY <1>1 DEF Holding
<1>3. \A p \in DOMAIN e.table : p \in DOMAIN merged /\ merged[p] = e.table[p]
  BY MergeOver
<1> QED
  BY <1>2, <1>3

LEMMA SystemDefaultType ==
  ASSUME TypeOK, NEW env \in {CliEnv, ServiceEnv}
  PROVE  SystemDefault(env) \in SystemFiles
<1> DEFINE dirs  == ResolveSystemDefaults(env)
           first == {i \in DOMAIN dirs : /\ defaults[dirs[i]] # Missing
                                         /\ \A j \in 1..(i - 1) : defaults[dirs[j]] = Missing}
           i     == CHOOSE k \in first : TRUE
<1>1. CASE first = {}
  BY <1>1 DEF SystemDefault, SystemFiles
<1>2. CASE first # {}
  <2>1. i \in DOMAIN dirs
    BY <1>2
  <2>2. dirs[i] \in SystemDirs
    BY <2>1, EnvironmentAssumption
  <2>3. SystemDefault(env) = defaults[dirs[i]]
    BY <1>2 DEF SystemDefault
  <2>4. defaults \in SystemDefaults
    BY DEF TypeOK
  <2>5. defaults[dirs[i]] \in {defaults[dir] : dir \in SystemDirs}
    BY <2>2
  <2>6. {defaults[dir] : dir \in SystemDirs} \in {{d[dir] : dir \in SystemDirs} : d \in SystemDefaults}
    BY <2>4
  <2> HIDE DEF i, dirs
  <2> QED
    BY <2>3, <2>5, <2>6 DEF SystemFiles
<1> QED
  BY <1>1, <1>2

(* What load_config returns, and what it returns for an unset socket.       *)
LEMMA LoadConfigs ==
  ASSUME TypeOK, NEW env \in {CliEnv, ServiceEnv}, NEW d \in Places, LoadConfig(d, env) # Broken
  PROVE  LET c == LoadConfig(d, env)
         IN  /\ Required(c.table) \subseteq DOMAIN c.table
             /\ <<"socket_path">> \in DOMAIN c.table
             /\ \A p \in DOMAIN enforced.table :
                  p \in DOMAIN c.table /\ c.table[p] = enforced.table[p]
<1> DEFINE s == SystemDefault(env)
           l == Loads[s][disk[d]][enforced]
           c == LoadConfig(d, env)
<1>1. s \in SystemFiles /\ disk[d] \in UsersFiles /\ enforced \in EnforcedFiles
  BY SystemDefaultType DEF TypeOK
<1>2. l # Broken /\ c = Holding(WithSocketPath(l.table, env))
  BY DEF LoadConfig
<1>3. /\ Valid(l.table)
      /\ \A p \in DOMAIN enforced.table : p \in DOMAIN l.table /\ l.table[p] = enforced.table[p]
  BY <1>1, <1>2, LoadsEnforced
<1>4. c.table = WithSocketPath(l.table, env)
  BY <1>2 DEF Holding
<1>5. /\ DOMAIN c.table = DOMAIN l.table \cup {<<"socket_path">>}
      /\ \A p \in DOMAIN l.table : c.table[p] = l.table[p]
  BY <1>4 DEF WithSocketPath
<1>6. Required(c.table) = Required(l.table)
  <2>1. \A prefix \in {<<"context">>, <<"receipt_archive">>} :
          Under(c.table, prefix) = Under(l.table, prefix)
    <3>1. ~StartsWith(<<"socket_path">>, <<"context">>)
      BY DEF StartsWith
    <3>2. ~StartsWith(<<"socket_path">>, <<"receipt_archive">>)
      BY DEF StartsWith
    <3>3. ASSUME NEW prefix \in {<<"context">>, <<"receipt_archive">>}
          PROVE  Under(c.table, prefix) = Under(l.table, prefix)
      <4>1. ~StartsWith(<<"socket_path">>, prefix)
        BY <3>1, <3>2
      <4> HIDE DEF c, l
      <4> QED
        BY <1>5, <4>1 DEF Under
    <3> QED
      BY <3>3
  <2> QED
    BY <2>1 DEF Required
<1> QED
  BY <1>3, <1>5, <1>6 DEF Valid

-----------------------------------------------------------------------------
(* The lines of config show.                                                *)

(* A field of the schema has a line, unless it is one of those without.     *)
LEMMA FieldHasLine ==
  ASSUME NEW table, NEW p \in DOMAIN table, p \in Plain
  PROVE  p \in Lines(table) \/ Hidden(p)
<1>1. CASE p \in {<<"rules_path">>, <<"db_path">>, <<"socket_path">>, <<"llm_recording", "corpus_path">>}
  BY <1>1 DEF Lines
<1>2. CASE p \in {<<"log_level">>, <<"receipt_archive", "output_dir">>}
  BY <1>2 DEF Hidden
<1>3. CASE p \in {<<"tiering", f>> : f \in Tiering}
  BY <1>3 DEF Lines
<1>4. CASE p = <<"receipt_archive", "extraction", "spec">>
  BY <1>4 DEF Hidden
<1>5. ASSUME NEW b \in {"provider", "llm", "alerts", "context"}, p = <<b, "spec">>
      PROVE  p \in Lines(table) \/ Hidden(p)
  <2>1. CASE b \in Sections
    BY <1>5, <2>1 DEF Lines
  <2>2. CASE b = "context"
    BY <1>5, <2>2 DEF Hidden
  <2> QED
    BY <2>1, <2>2 DEF Sections
<1> QED
  BY <1>1, <1>2, <1>3, <1>4, <1>5 DEF Plain

(* An argument of a backend has one too, or is inside the value of another. *)
LEMMA ArgumentHasLine ==
  ASSUME NEW table, NEW p \in DOMAIN table, p \in Seq(STRING), Kwargs(p) \/ Mapped(p)
  PROVE  p \in Lines(table) \/ Hidden(p)
<1>1. PICK b \in Backends, k \in {"kwargs", "secret_kwargs"} :
             StartsWith(p, b \o <<k>>) /\ Len(p) > Len(b) + 1
  BY DEF Kwargs, Mapped
<1>2. CASE b \in {<<"context">>, <<"receipt_archive", "extraction">>}
  <2>1. p[1] \in {"context", "receipt_archive"}
    BY <1>1, <1>2 DEF StartsWith
  <2> QED
    BY <2>1 DEF Hidden
<1>3. CASE b \in {<<"provider">>, <<"llm">>, <<"alerts">>}
  <2>1. p[1] \in Sections /\ p[2] = k /\ Len(p) >= 3 /\ Len(p) \in Nat
    BY <1>1, <1>3 DEF StartsWith, Sections
  <2>2. CASE Len(p) > 3
    BY <2>2 DEF Hidden
  <2>3. CASE Len(p) = 3
    <3>1. SubSeq(p, 1, 3) = p
      BY <2>3
    <3>2. p \in Entries(table)
      BY <1>1, <2>1, <3>1 DEF Entries
    <3> QED
      BY <3>2 DEF Lines
  <2>4. \A n \in Nat : n >= 3 => n > 3 \/ n = 3
    OBVIOUS
  <2>5. Len(p) > 3 \/ Len(p) = 3
    BY <2>1, <2>4, Zenon
  <2> QED
    BY <2>2, <2>3, <2>5
<1> QED
  BY <1>2, <1>3 DEF Backends

(* So a show that succeeds flags all of the enforced tier but what is       *)
(* hidden, and nothing else but aliases.                                    *)
LEMMA ShowFlags ==
  ASSUME Inv, NEW flag \in Flags, ConfigShow(flag)
  PROVE  ShownInv'
<1> DEFINE d == ResolveUserConfigPath(flag, CliEnv)
           s == SystemDefault(CliEnv)
           l == Loads[s][disk[d]][enforced]
           c == LoadConfig(d, CliEnv)
           flagged == {p \in Lines(c.table) : Dotted(p) \in FlattenKeys(enforced.table)}
<1>1. /\ c # Broken /\ enforced' = enforced
      /\ shown'.flagged = flagged /\ shown'.plain = Lines(c.table) \ flagged
  BY DEF ConfigShow, Command, world, files
<1>2. d \in Places /\ s \in SystemFiles /\ disk[d] \in UsersFiles /\ enforced \in EnforcedFiles
  <2>1. d \in Places
    BY SetupAssumption, EnvironmentAssumption DEF ResolveUserConfigPath
  <2> QED
    BY <2>1, SystemDefaultType DEF Inv, TypeOK
<1>3. l # Broken
  BY <1>1 DEF LoadConfig
<1>4. ASSUME NEW q \in DOMAIN enforced.table
      PROVE  q \in Lines(c.table) \/ Hidden(q)
  <2>1. q \in DOMAIN c.table
    BY <1>1, <1>2, <1>4, LoadConfigs DEF Inv
  <2>2. Kwargs(q) \/ Known(q)
    BY <1>2, <1>3, <1>4, LoadsEnforced DEF Valid
  <2>3. q \in Seq(STRING)
    BY <1>2, <1>4, EnvironmentAssumption
  <2> QED
    BY <2>1, <2>2, <2>3, FieldHasLine, ArgumentHasLine DEF Known
<1>5. \A q \in DOMAIN enforced.table : Dotted(q) \in FlattenKeys(enforced.table)
  BY DEF FlattenKeys
<1>6. \A q \in DOMAIN enforced'.table : q \in shown'.flagged \ shown'.plain \/ Hidden(q)
  BY <1>1, <1>4, <1>5
<1>7. ASSUME NEW p \in flagged PROVE p \in DOMAIN enforced.table \/ Alias(p)
  <2>1. PICK q \in DOMAIN enforced.table : Dotted(q) = Dotted(p)
    BY <1>7 DEF FlattenKeys
  <2>2. CASE Dots(p) \/ Dots(q)
    BY <2>1, <2>2 DEF Alias
  <2>3. CASE ~Dots(p) /\ ~Dots(q)
    BY <2>1, <2>3 DEF Dotted
  <2> QED
    BY <2>2, <2>3
<1>8. \A p \in shown'.flagged : p \in DOMAIN enforced'.table \/ Alias(p)'
  BY <1>1, <1>7 DEF Alias
<1> QED
  BY <1>6, <1>8 DEF ShownInv

-----------------------------------------------------------------------------
(* Every step keeps the invariant.                                          *)
Failures == {"died", "wait", "load", "secrets"} \cup Stages

LEMMA PlaceType ==
  ASSUME NEW flag \in Flags
  PROVE  ResolveUserConfigPath(flag, CliEnv) \in Places
BY SetupAssumption, EnvironmentAssumption DEF ResolveUserConfigPath

LEMMA InitInv == Init => Inv
<1> SUFFICES ASSUME Init PROVE Inv
  OBVIOUS
<1>1. PICK m \in Machines : /\ disk = m.disk /\ rulesAt = m.rules /\ keyring = m.keyring
                            /\ unit = m.unit /\ manifest = m.manifest
  BY DEF Init
<1>2. TypeOK
  <2>1. /\ disk \in [Places -> UsersFiles]
        /\ rulesAt \in [Places -> {"missing", "broken", "good"}]
        /\ manifest \in [Places -> {"missing", "broken", "keyring"}]
        /\ keyring \subseteq DOMAIN Declared /\ unit \in {"absent", "installed", "enabled"}
    BY <1>1, EnvironmentAssumption
  <2>2. pc = "off" /\ pc \notin Loaded
    BY DEF Init, Loaded, Stages, After
  <2>3. /\ report.dir = NoFlag /\ report.good = {}
    BY DEF Init, NoReport
  <2>4. events \in 0..MaxEvents
    BY SetupAssumption DEF Init
  <2> QED
    BY <2>1, <2>2, <2>3, <2>4 DEF Init, TypeOK, Storable
<1>3. ShownInv
  BY DEF Init, ShownInv, NothingShown
<1>4. PlaceInv /\ EnforcedStands
  BY DEF Init, PlaceInv, EnforcedStands, Loaded, Stages, After
<1> QED
  BY <1>2, <1>3, <1>4 DEF Inv

(* What the daemon does leaves the machine, and what was said of it, alone. *)
LEMMA OutsideTypes ==
  ASSUME Inv, Outside,
         pc' \in {"off", "failed", "wait", "load"} \cup Loaded, service' \in BOOLEAN,
         place' \in Places \cup {NoFlag}, pc' \in {"wait", "failed"} => service',
         pc' \notin Loaded => config' = Broken,
         pc' \in Loaded => /\ Required(config'.table) \subseteq DOMAIN config'.table
                           /\ <<"socket_path">> \in DOMAIN config'.table
                           /\ \A p \in DOMAIN law'.table :
                                p \in DOMAIN config'.table /\ config'.table[p] = law'.table[p],
         pc' \in {"wait", "load", "secrets"} => place' \in Places,
         secrets' \subseteq DOMAIN Declared, failedAt' \in {"none"} \cup Failures,
         foretold' \in BOOLEAN, events' \in 0..MaxEvents
  PROVE  Inv'
<1>1. UNCHANGED <<disk, rulesAt, enforced, defaults, manifest, keyring, unlocked, online, unit,
                  shown, report>>
  BY DEF Outside, world, files, vault, told
<1>2. TypeOK'
  BY <1>1 DEF Inv, TypeOK, Failures
<1>3. ShownInv'
  BY <1>1 DEF Inv, ShownInv, Alias
<1>4. PlaceInv' /\ EnforcedStands'
  BY DEF PlaceInv, EnforcedStands
<1> QED
  BY <1>2, <1>3, <1>4 DEF Inv

LEMMA FailInv ==
  ASSUME Inv, NEW at \in Failures, Fail(at), Outside, events' \in 0..MaxEvents
  PROVE  Inv'
<1>1. pc' \in {"failed", "off"} /\ pc' \notin Loaded /\ (pc' = "failed" => service)
  BY DEF Fail, Loaded, Stages, After
<1>2. service \in BOOLEAN /\ foretold \in BOOLEAN
  BY DEF Inv, TypeOK
<1> QED
  BY <1>1, <1>2, OutsideTypes DEF Fail, Released

LEMMA BeginInv ==
  ASSUME Inv, NEW at \in {"wait", "load"}, NEW systemd \in BOOLEAN, NEW dir \in Places, NEW env,
         at = "wait" => systemd, pc \in {"off", "failed"}, Begin(at, systemd, dir, env)
  PROVE  Inv'
<1>1. pc \notin Loaded /\ pc' \notin Loaded
  BY DEF Begin, Loaded, Stages, After
<1>2. config = Broken /\ secrets \subseteq DOMAIN Declared /\ events \in 0..MaxEvents
  BY <1>1 DEF Inv, TypeOK
<1>3. foretold' \in BOOLEAN
  BY DEF Begin
<1> QED
  BY <1>1, <1>2, <1>3, OutsideTypes DEF Begin

LEMMA WaitInv == ASSUME Inv, Wait PROVE Inv'
<1>1. CASE ~Resolves(place)
  BY <1>1, FailInv DEF Wait, Failures, Inv, TypeOK
<1>2. CASE Resolves(place)
  <2>1. pc = "wait" /\ pc' = "load" /\ pc \notin Loaded /\ pc' \notin Loaded
    BY <1>2 DEF Wait, Loaded, Stages, After
  <2> QED
    BY <1>2, <2>1, OutsideTypes DEF Wait, Inv, TypeOK, PlaceInv, Failures
<1> QED
  BY <1>1, <1>2

LEMMA LoadInv == ASSUME Inv, Load PROVE Inv'
<1>1. CASE LoadConfig(place, Env) = Broken
  BY <1>1, FailInv DEF Load, Failures, Inv, TypeOK
<1>2. CASE LoadConfig(place, Env) # Broken
  <2>1. place \in Places /\ Env \in {CliEnv, ServiceEnv} /\ TypeOK
    BY DEF Load, Inv, PlaceInv, Env
  <2>2. LET c == LoadConfig(place, Env)
        IN  /\ Required(c.table) \subseteq DOMAIN c.table
            /\ <<"socket_path">> \in DOMAIN c.table
            /\ \A p \in DOMAIN enforced.table :
                 p \in DOMAIN c.table /\ c.table[p] = enforced.table[p]
    BY <1>2, <2>1, LoadConfigs
  <2>3. pc' = "secrets" /\ config' = LoadConfig(place, Env) /\ law' = enforced
        /\ UNCHANGED <<service, place, secrets, failedAt, foretold, events>> /\ Outside
    BY <1>2 DEF Load
  <2>4. pc' \in Loaded
    BY <2>3 DEF Loaded
  <2> HIDE DEF LoadConfig
  <2> QED
    BY <2>1, <2>2, <2>3, <2>4, OutsideTypes DEF TypeOK, Failures
<1> QED
  BY <1>1, <1>2

(* A start that goes on keeps what it loaded.                               *)
LEMMA OnwardInv ==
  ASSUME Inv, Outside, pc \in Loaded, pc' \in Loaded, pc' # "secrets",
         secrets' \subseteq DOMAIN Declared,
         UNCHANGED <<service, place, config, failedAt, law, foretold, events>>
  PROVE  Inv'
<1>1. pc' \notin {"wait", "load", "secrets", "failed"}
  BY DEF Loaded, Stages, After
<1> QED
  BY <1>1, OutsideTypes DEF Inv, TypeOK, EnforcedStands, Failures

LEMMA ResolveInv == ASSUME Inv, ResolveRuntimeSecrets PROVE Inv'
<1>1. CASE NeedsSecrets(config.table) /\ ~Resolves(place)
  BY <1>1, FailInv DEF ResolveRuntimeSecrets, Failures, Inv, TypeOK
<1>2. CASE ~(NeedsSecrets(config.table) /\ ~Resolves(place))
  <2>1. pc \in Loaded /\ pc' \in Loaded /\ pc' # "secrets"
    BY <1>2 DEF ResolveRuntimeSecrets, Loaded, Stages, After
  <2>2. secrets' \subseteq DOMAIN Declared
    BY <1>2 DEF ResolveRuntimeSecrets, Resolved
  <2> QED
    BY <1>2, <2>1, <2>2, OnwardInv DEF ResolveRuntimeSecrets
<1> QED
  BY <1>1, <1>2

LEMMA ComposeInv == ASSUME Inv, Compose PROVE Inv'
<1>1. CASE ~StageSucceeds(pc, config.table, secrets)
  BY <1>1, FailInv DEF Compose, Failures, Inv, TypeOK
<1>2. CASE StageSucceeds(pc, config.table, secrets)
  <2>1. pc \in Loaded /\ pc' \in Loaded /\ pc' # "secrets"
    BY <1>2 DEF Compose, Loaded, Stages, After
  <2> QED
    BY <1>2, <2>1, OnwardInv DEF Compose, Inv, TypeOK
<1> QED
  BY <1>1, <1>2

LEMMA StopInv == ASSUME Inv, Stop PROVE Inv'
<1>1. pc' = "off" /\ pc' \notin Loaded
  BY DEF Stop, Loaded, Stages, After
<1> QED
  BY <1>1, OutsideTypes DEF Stop, Released, Inv, TypeOK, Failures

LEMMA DaemonInv ==
  ASSUME Inv, \/ Daemon \/ StartService \/ Restart \/ Stop \/ Die
              \/ \E flag \in Flags : StartByHand(flag)
  PROVE  Inv'
<1>1. CASE StartService \/ Restart
  BY <1>1, BeginInv, SetupAssumption DEF StartService, Restart
<1>2. CASE Die
  <2>1. events' \in 0..MaxEvents
    BY <1>2, SetupAssumption DEF Die, Inv, TypeOK
  <2> QED
    BY <1>2, <2>1, FailInv DEF Die, Failures
<1>3. ASSUME NEW flag \in Flags, StartByHand(flag) PROVE Inv'
  BY <1>3, BeginInv, PlaceType DEF StartByHand
<1> QED
  BY <1>1, <1>2, <1>3, WaitInv, LoadInv, ResolveInv, ComposeInv, StopInv DEF Daemon

(* A step of the machine or of the command line leaves the daemon alone.    *)
LEMMA MachineTypes ==
  ASSUME Inv, UNCHANGED <<pc, service, place, config, secrets, failedAt, law>>,
         disk' \in [Places -> UsersFiles], rulesAt' \in [Places -> {"missing", "broken", "good"}],
         enforced' \in EnforcedFiles, UNCHANGED <<defaults, manifest>>, keyring' \subseteq Storable,
         unlocked' \in BOOLEAN, online' \in BOOLEAN,
         unit' \in {"absent", "installed", "enabled"},
         report'.dir \in Places \cup {NoFlag}, report'.good \subseteq Good,
         foretold' \in BOOLEAN, events' \in 0..MaxEvents, ShownInv'
  PROVE  Inv'
<1>1. TypeOK'
  BY DEF Inv, TypeOK
<1>2. PlaceInv' /\ EnforcedStands'
  BY DEF Inv, PlaceInv, EnforcedStands
<1> QED
  BY <1>1, <1>2 DEF Inv

LEMMA ChangeInv ==
  ASSUME Inv, Change, UNCHANGED <<defaults, manifest>>,
         disk' \in [Places -> UsersFiles], rulesAt' \in [Places -> {"missing", "broken", "good"}],
         enforced' \in EnforcedFiles, keyring' \subseteq Storable,
         unlocked' \in BOOLEAN, online' \in BOOLEAN,
         unit' \in {"absent", "installed", "enabled"},
         \/ enforced' = enforced /\ shown' = shown
         \/ shown' = NothingShown
  PROVE  Inv'
<1>1. ShownInv'
  BY DEF Inv, ShownInv, NothingShown, Alias
<1>2. events' \in 0..MaxEvents
  BY SetupAssumption DEF Change, Inv, TypeOK
<1>3. report'.dir = NoFlag /\ report'.good = {} /\ foretold' = FALSE
  BY DEF Change, NoReport
<1> QED
  BY <1>1, <1>2, <1>3, MachineTypes DEF Change

LEMMA ChecksType == ASSUME NEW d PROVE Checks(d) \subseteq Good
BY DEF Checks, Good

LEMMA MachineInv == ASSUME Inv, Machine PROVE Inv'
<1> USE DEF Inv, TypeOK, vault, files
<1>1. ASSUME NEW d \in Places, NEW f \in UserFiles, UserWrites(d, f) PROVE Inv'
  <2>1. disk' \in [Places -> UsersFiles]
    BY <1>1 DEF UserWrites, UsersFiles
  <2> QED
    BY <1>1, <2>1, ChangeInv DEF UserWrites
<1>2. ASSUME NEW d \in Places, NEW r \in {"good", "broken"}, UserWritesRules(d, r) PROVE Inv'
  <2>1. rulesAt' \in [Places -> {"missing", "broken", "good"}]
    BY <1>2 DEF UserWritesRules
  <2> QED
    BY <1>2, <2>1, ChangeInv DEF UserWritesRules
<1>3. ASSUME NEW f \in EnforcedFiles, AdminWrites(f) PROVE Inv'
  BY <1>3, ChangeInv DEF AdminWrites
<1>4. CASE KeyringLocks
  BY <1>4, ChangeInv DEF KeyringLocks
<1>5. CASE ServerGoes
  BY <1>5, ChangeInv DEF ServerGoes
<1> QED
  BY <1>1, <1>2, <1>3, <1>4, <1>5 DEF Machine

LEMMA CommandLineInv == ASSUME Inv, CommandLine PROVE Inv'
<1> USE DEF vault, files, world
<1>1. ASSUME NEW flag \in Flags, NEW force \in BOOLEAN, ConfigInit(flag, force) PROVE Inv'
  <2> DEFINE d == ResolveUserConfigPath(flag, CliEnv)
  <2>1. d \in Places
    BY PlaceType
  <2>2. disk' \in [Places -> UsersFiles]
    <3>1. Holding(Starter(d)) \in UsersFiles
      BY <2>1 DEF UsersFiles
    <3>2. disk' = [disk EXCEPT ![d] = Holding(Starter(d))]
      BY <1>1 DEF ConfigInit
    <3> QED
      BY <2>1, <3>1, <3>2 DEF Inv, TypeOK
  <2>3. rulesAt' \in [Places -> {"missing", "broken", "good"}]
    BY <1>1, <2>1 DEF ConfigInit, Inv, TypeOK
  <2> QED
    BY <1>1, <2>2, <2>3, ChangeInv DEF ConfigInit, Inv, TypeOK
<1>2. ASSUME NEW flag \in Flags, NEW f \in UserFiles, ConfigEdit(flag, f) PROVE Inv'
  <2> DEFINE d == ResolveUserConfigPath(flag, CliEnv)
  <2>1. d \in Places
    BY PlaceType
  <2>2. disk' \in [Places -> UsersFiles]
    BY <1>2, <2>1 DEF ConfigEdit, UsersFiles, Inv, TypeOK
  <2>3. report'.dir \in Places /\ report'.good \subseteq Good
    BY <1>2, <2>1 DEF ConfigEdit, Good
  <2>4. events' \in 0..MaxEvents /\ foretold' = FALSE
    BY <1>2, SetupAssumption DEF ConfigEdit, Inv, TypeOK
  <2>5. ShownInv'
    BY <1>2 DEF ConfigEdit, Inv, ShownInv, Alias
  <2> QED
    BY <1>2, <2>2, <2>3, <2>4, <2>5, MachineTypes DEF ConfigEdit, Inv, TypeOK
<1>3. ASSUME NEW flag \in Flags, ConfigShow(flag) PROVE Inv'
  <2>1. ShownInv'
    BY <1>3, ShowFlags
  <2>2. events' \in 0..MaxEvents
    BY <1>3, SetupAssumption DEF ConfigShow, Command, Inv, TypeOK
  <2> QED
    BY <1>3, <2>1, <2>2, MachineTypes DEF ConfigShow, Command, Inv, TypeOK
<1>4. ASSUME NEW flag \in Flags, Enroll(flag) PROVE Inv'
  <2>1. keyring' \subseteq Storable
    <3>1. PICK n \in 1..Len(EnrolledNames) :
            keyring' = keyring \cup {EnrolledNames[i] : i \in 1..n}
      BY <1>4 DEF Enroll
    <3>2. 1..n \subseteq DOMAIN EnrolledNames
      BY <3>1 DEF EnrolledNames
    <3> QED
      BY <3>1, <3>2 DEF Inv, TypeOK, Storable
  <2> QED
    BY <1>4, <2>1, ChangeInv DEF Enroll, Inv, TypeOK
<1>5. ASSUME NEW flag \in Flags, Doctor(flag) PROVE Inv'
  <2>1. report'.dir \in Places /\ report'.good \subseteq Good
    BY <1>5, PlaceType, ChecksType DEF Doctor, Good
  <2>2. events' \in 0..MaxEvents
    BY <1>5, SetupAssumption DEF Doctor, Command, Inv, TypeOK
  <2>3. ShownInv'
    BY <1>5 DEF Doctor, Command, Inv, ShownInv, Alias
  <2> QED
    BY <1>5, <2>1, <2>2, <2>3, MachineTypes DEF Doctor, Command, Inv, TypeOK
<1>6. ASSUME NEW enableNow \in BOOLEAN, InstallService(enableNow) PROVE Inv'
  <2>1. unit' \in {"absent", "installed", "enabled"}
    BY <1>6 DEF InstallService, Inv, TypeOK
  <2> QED
    BY <1>6, <2>1, ChangeInv DEF InstallService, Inv, TypeOK
<1> QED
  BY <1>1, <1>2, <1>3, <1>4, <1>5, <1>6 DEF CommandLine

LEMMA Invariance == Spec => []Inv
<1>1. Inv /\ [Next]_vars => Inv'
  <2>1. CASE UNCHANGED vars
    BY <2>1 DEF vars, world, files, vault, daemon, told, Inv, TypeOK, ShownInv, Alias, PlaceInv, EnforcedStands
  <2>2. ASSUME Inv, Next PROVE Inv'
    BY <2>2, DaemonInv, MachineInv, CommandLineInv DEF Next
  <2> QED
    BY <2>1, <2>2
<1> QED
  BY InitInv, <1>1, PTL DEF Spec

-----------------------------------------------------------------------------
(* doctor and the start.  What both read is the same while the machine is   *)
(* not changed, and the two documents they load differ in the socket only.  *)
Going == {"wait", "load"} \cup Loaded
Socket == <<"socket_path">>
Same(t, u) ==
    \A p : p # Socket => /\ p \in DOMAIN t <=> p \in DOMAIN u
                         /\ p \in DOMAIN t => t[p] = u[p]

ReportInv ==
    \A d \in Places : report.dir = d =>
        \A check \in report.good : check = "unit" \/ check \in Checks(d)

StartInv ==
    /\ pc \in Going => failedAt = "none"
    /\ foretold /\ pc \in Going =>
          /\ place = report.dir /\ place \in Places
          /\ ResolveSystemDefaults(IF service THEN ServiceEnv ELSE CliEnv)
               = ResolveSystemDefaults(CliEnv)
    /\ foretold /\ pc \in Loaded => \A d \in Places : place = d =>
          LoadConfig(d, CliEnv) # Broken /\ Same(config.table, LoadConfig(d, CliEnv).table)
    /\ foretold /\ pc \in Stages =>
          secrets = IF NeedsSecrets(config.table) THEN Resolved ELSE {}

ForetellInv == ReportInv /\ StartInv /\ DoctorForetells

LEMMA WorldSame ==
  ASSUME UNCHANGED world, NEW d
  PROVE  /\ Checks(d)' = Checks(d) /\ LoadConfig(d, CliEnv)' = LoadConfig(d, CliEnv)
         /\ Resolved' = Resolved
<1> USE DEF world, files, vault
<1>1. SystemDefault(CliEnv)' = SystemDefault(CliEnv)
  BY DEF SystemDefault
<1>2. LoadConfig(d, CliEnv)' = LoadConfig(d, CliEnv)
  BY <1>1 DEF LoadConfig
<1>3. Resolved' = Resolved /\ (Resolves(d))' = Resolves(d)
  BY DEF Resolved, Resolves
<1>4. \A t, names, s : (StageSucceeds(s, t, names))' = StageSucceeds(s, t, names)
  BY DEF StageSucceeds, RulesLoad
<1> QED
  BY <1>2, <1>3, <1>4 DEF Checks, RulesLoad

LEMMA SameConfigs ==
  ASSUME NEW d, NEW env, ResolveSystemDefaults(env) = ResolveSystemDefaults(CliEnv)
  PROVE  /\ LoadConfig(d, env) = Broken <=> LoadConfig(d, CliEnv) = Broken
         /\ LoadConfig(d, env) # Broken =>
              Same(LoadConfig(d, env).table, LoadConfig(d, CliEnv).table)
<1> DEFINE l == Loads[SystemDefault(CliEnv)][disk[d]][enforced]
<1>1. SystemDefault(env) = SystemDefault(CliEnv)
  BY DEF SystemDefault
<1>2. \A e : Holding(WithSocketPath(l.table, e)) # Broken
  BY DEF Holding, Broken
<1>3. /\ LoadConfig(d, env) = IF l = Broken THEN Broken ELSE Holding(WithSocketPath(l.table, env))
      /\ LoadConfig(d, CliEnv) = IF l = Broken THEN Broken ELSE Holding(WithSocketPath(l.table, CliEnv))
  BY <1>1 DEF LoadConfig
<1>4. Same(WithSocketPath(l.table, env), WithSocketPath(l.table, CliEnv))
  BY DEF Same, WithSocketPath, Socket
<1> HIDE DEF l
<1> QED
  BY <1>2, <1>3, <1>4 DEF Holding

(* The path of a backend's setting.                                         *)
LEMMA Joined ==
  ASSUME NEW x, NEW y
  PROVE  <<x>> \o <<y>> = <<x, y>>
<1> DEFINE S == {x, y}
           s == <<x>> \o <<y>>
<1>1. <<x>> \in Seq(S) /\ <<y>> \in Seq(S) /\ <<x, y>> \in Seq(S)
  <2>1. x \in S /\ y \in S
    OBVIOUS
  <2> HIDE DEF S
  <2> QED
    BY <2>1
<1>2. s \in Seq(S)
  BY <1>1, ConcatProperties
<1>3. Len(s) = 2 /\ s[1] = x /\ s[2] = y
  OBVIOUS
<1>4. Len(<<x, y>>) = 2 /\ <<x, y>>[1] = x /\ <<x, y>>[2] = y
  OBVIOUS
<1>5. \A i \in 1..Len(s) : s[i] = <<x, y>>[i]
  BY <1>3, <1>4
<1> HIDE DEF S, s
<1>6. s = <<x, y>>
  BY <1>1, <1>2, <1>3, <1>4, <1>5, SeqEqual
<1> QED
  BY <1>6 DEF s

(* A stage that doctor tried with all secrets succeeds with those it needs. *)
LEMMA SameSecrets ==
  ASSUME NEW t, NEW u, Same(t, u), NEW b \in {<<"provider">>, <<"llm">>, <<"alerts">>}
  PROVE  SecretNames(t, b) = SecretNames(u, b)
<1> DEFINE prefix == b \o <<"secret_kwargs">>
<1>1. Len(prefix) = 2 /\ Len(Socket) = 1
  <2>1. \A k \in {"provider", "llm", "alerts"} : Len(<<k, "secret_kwargs">>) = 2
    OBVIOUS
  <2>2. \E k \in {"provider", "llm", "alerts"} : prefix = <<k, "secret_kwargs">>
    BY Joined
  <2> QED
    BY <2>1, <2>2 DEF Socket
<1>2. ~StartsWith(Socket, prefix)
  BY <1>1 DEF StartsWith
<1>3. Under(t, prefix) = Under(u, prefix) /\ \A p \in Under(t, prefix) : t[p] = u[p]
  BY <1>2 DEF Under, Same
<1> QED
  BY <1>3 DEF SecretNames

LEMMA SameStages ==
  ASSUME NEW t, NEW u, Same(t, u), Required(t) \subseteq DOMAIN t, NEW names,
         NEW s \in {"provider", "rules", "llm", "alerts", "classifier", "connect"},
         names = IF NeedsSecrets(t) THEN Resolved ELSE {},
         IF s \in {"provider", "llm", "alerts"} THEN StageSucceeds(s, u, Resolved)
         ELSE StageSucceeds(s, u, {})
  PROVE  StageSucceeds(s, t, names)
<1>1. \A b \in {<<"provider">>, <<"llm">>, <<"alerts">>} :
        b \o <<"spec">> \in DOMAIN t /\ b \o <<"spec">> # Socket
  <2>1. /\ <<"provider">> \o <<"spec">> = <<"provider", "spec">>
        /\ <<"llm">> \o <<"spec">> = <<"llm", "spec">>
        /\ <<"alerts">> \o <<"spec">> = <<"alerts", "spec">>
    BY Joined
  <2>2. \A k \in {"provider", "llm", "alerts"} : Len(<<k, "spec">>) = 2 /\ Len(Socket) = 1
    BY DEF Socket
  <2>3. \A k \in {"provider", "llm", "alerts"} : <<k, "spec">> # Socket
    BY <2>2
  <2>4. \A k \in {"provider", "llm", "alerts"} : <<k, "spec">> \in DOMAIN t
    BY DEF Required
  <2> QED
    BY <2>1, <2>3, <2>4
<1>2. \A b \in {<<"provider">>, <<"llm">>, <<"alerts">>} :
        Builds(u, b, Resolved) => Builds(t, b, names)
  <2> SUFFICES ASSUME NEW b \in {<<"provider">>, <<"llm">>, <<"alerts">>}, Builds(u, b, Resolved)
               PROVE  Builds(t, b, names)
    OBVIOUS
  <2>1. t[b \o <<"spec">>] = u[b \o <<"spec">>]
    BY <1>1 DEF Same
  <2>2. SecretNames(t, b) = SecretNames(u, b)
    BY SameSecrets
  <2>3. SecretNames(t, b) \subseteq names
    BY <2>2 DEF Builds, NeedsSecrets, Backends
  <2> QED
    BY <2>1, <2>3 DEF Builds
<1>3. t[<<"rules_path">>] = u[<<"rules_path">>]
  BY DEF Required, Same, Socket
<1>4. ClassifierKnown(u) => ClassifierKnown(t)
  <2>1. <<"tiering", "local_classifier">> # Socket
    BY DEF Socket
  <2> QED
    BY <2>1 DEF ClassifierKnown, Same
<1> QED
  BY <1>2, <1>3, <1>4 DEF StageSucceeds, RulesLoad

(* What a check that was good means.                                        *)
LEMMA ChecksMean ==
  ASSUME NEW d, NEW check \in Checks(d)
  PROVE  LET t == LoadConfig(d, CliEnv).table
         IN  /\ check = "secrets" => Resolves(d)
             /\ check = "config" => LoadConfig(d, CliEnv) # Broken
             /\ check \in {"rules", "classifier"} => StageSucceeds(check, t, {})
             /\ check \in {"provider", "llm", "alerts"} => StageSucceeds(check, t, Resolved)
             /\ check = "connect" => online
<1> HIDE DEF LoadConfig, Resolves, Resolved, StageSucceeds
<1> QED
  BY DEF Checks

LEMMA Speaking ==
  ASSUME NEW check \in Good, NEW at \in SpeaksFor(check)
  PROVE  \/ at \in {"wait", "secrets"} /\ check = "secrets"
         \/ at = "load" /\ check = "config"
         \/ at = check /\ check \in {"rules", "classifier", "provider", "llm", "alerts", "connect"}
BY DEF SpeaksFor, Good

LEMMA StillReported ==
  ASSUME ReportInv, UNCHANGED world, UNCHANGED report
  PROVE  ReportInv'
<1>1. \A d : Checks(d)' = Checks(d)
  BY WorldSame
<1> QED
  BY <1>1 DEF ReportInv

(* A start that fails where no good check spoke for it.                     *)
LEMMA FailForetold ==
  ASSUME Inv, ForetellInv, NEW at \in Failures, Fail(at), Outside,
         foretold => \A check \in report.good : at \notin SpeaksFor(check)
  PROVE  ForetellInv'
<1>1. pc' \notin Going /\ pc' \notin Loaded /\ pc' \notin Stages
  BY DEF Fail, Going, Loaded, Stages, After
<1>2. ReportInv'
  BY StillReported DEF ForetellInv, Outside, told
<1>3. DoctorForetells'
  BY DEF DoctorForetells, Fail, Outside, told
<1> QED
  BY <1>1, <1>2, <1>3 DEF ForetellInv, StartInv

(* What is foretold is about the directory the daemon starts on.            *)
LEMMA GoodHere ==
  ASSUME ForetellInv, foretold, pc \in Going, NEW check \in report.good
  PROVE  place \in Places /\ (check = "unit" \/ check \in Checks(place))
BY DEF ForetellInv, StartInv, ReportInv

LEMMA BeginForetold ==
  ASSUME Inv, ForetellInv, NEW at \in {"wait", "load"}, NEW systemd \in BOOLEAN,
         NEW dir \in Places, Begin(at, systemd, dir, IF systemd THEN ServiceEnv ELSE CliEnv)
  PROVE  ForetellInv'
<1>1. ReportInv'
  BY StillReported DEF ForetellInv, Begin, Outside, told
<1>2. pc' \notin Loaded /\ pc' \notin Stages
  BY DEF Begin, Loaded, Stages, After
<1>3. report' = report /\ failedAt' = "none" /\ place' = dir /\ service' = systemd
  BY DEF Begin, Outside, told
<1>4. StartInv'
  BY <1>2, <1>3 DEF StartInv, Begin
<1>5. \A check \in Good : "none" \notin SpeaksFor(check)
  BY DEF SpeaksFor, Good
<1>6. report'.good \subseteq Good
  BY <1>3 DEF Inv, TypeOK
<1>7. DoctorForetells'
  BY <1>3, <1>5, <1>6 DEF DoctorForetells
<1> QED
  BY <1>1, <1>4, <1>7 DEF ForetellInv

(* A step of a start that does not fail, and changes neither its place nor  *)
(* what it loaded.                                                          *)
LEMMA OnwardForetold ==
  ASSUME Inv, ForetellInv, Outside, pc \in Going, pc' \in Going,
         pc' \in Loaded => pc \in Loaded,
         pc' \in Stages => pc \in Stages /\ secrets' = secrets,
         UNCHANGED <<service, place, config, failedAt, foretold>>
  PROVE  ForetellInv'
<1>1. ReportInv' /\ report' = report
  BY StillReported DEF ForetellInv, Outside, told
<1>2. \A d : LoadConfig(d, CliEnv)' = LoadConfig(d, CliEnv) /\ Resolved' = Resolved
  BY WorldSame DEF Outside
<1>3. StartInv'
  <2>1. (NeedsSecrets(config.table))' = NeedsSecrets(config.table)
    OBVIOUS
  <2> HIDE DEF Going, Loaded, Stages, LoadConfig, Resolved, NeedsSecrets
  <2> QED
    BY <1>1, <1>2, <2>1 DEF ForetellInv, StartInv
<1>4. DoctorForetells'
  BY <1>1 DEF ForetellInv, DoctorForetells
<1> QED
  BY <1>1, <1>3, <1>4 DEF ForetellInv

LEMMA WaitForetold == ASSUME Inv, ForetellInv, Wait PROVE ForetellInv'
<1>1. pc \in Going /\ "wait" \in Failures
  BY DEF Wait, Going, Failures
<1>2. CASE ~Resolves(place)
  <2>1. foretold => \A check \in report.good : "wait" \notin SpeaksFor(check)
    <3> SUFFICES ASSUME foretold, NEW check \in report.good, "wait" \in SpeaksFor(check)
                 PROVE  FALSE
      OBVIOUS
    <3>1. check \in Good
      BY DEF Inv, TypeOK
    <3>2. check = "secrets"
      BY <3>1, Speaking
    <3>3. check \in Checks(place)
      BY <1>1, <3>2, GoodHere
    <3> QED
      BY <1>2, <3>2, <3>3, ChecksMean
  <2> QED
    BY <1>1, <1>2, <2>1, FailForetold DEF Wait
<1>3. CASE Resolves(place)
  <2>1. pc' = "load" /\ pc' \in Going /\ pc' \notin Loaded /\ pc' \notin Stages
    BY <1>3 DEF Wait, Going, Loaded, Stages, After
  <2> QED
    BY <1>1, <1>3, <2>1, OnwardForetold DEF Wait
<1> QED
  BY <1>2, <1>3

LEMMA LoadForetold == ASSUME Inv, ForetellInv, Load PROVE ForetellInv'
<1>1. pc \in Going /\ "load" \in Failures
  BY DEF Load, Going, Failures
<1>2. Env = IF service THEN ServiceEnv ELSE CliEnv
  BY DEF Env
<1>3. foretold => ResolveSystemDefaults(Env) = ResolveSystemDefaults(CliEnv)
  BY <1>1, <1>2 DEF ForetellInv, StartInv
<1>4. CASE LoadConfig(place, Env) = Broken
  <2>1. foretold => \A check \in report.good : "load" \notin SpeaksFor(check)
    <3> SUFFICES ASSUME foretold, NEW check \in report.good, "load" \in SpeaksFor(check)
                 PROVE  FALSE
      OBVIOUS
    <3>1. check \in Good
      BY DEF Inv, TypeOK
    <3>2. check = "config"
      BY <3>1, Speaking
    <3>3. check \in Checks(place)
      BY <1>1, <3>2, GoodHere
    <3>4. LoadConfig(place, CliEnv) # Broken
      BY <3>2, <3>3, ChecksMean
    <3> QED
      BY <1>3, <1>4, <3>4, SameConfigs
  <2> QED
    BY <1>1, <1>4, <2>1, FailForetold DEF Load
<1>5. CASE LoadConfig(place, Env) # Broken
  <2>1. /\ pc' = "secrets" /\ config' = LoadConfig(place, Env) /\ Outside
        /\ UNCHANGED <<service, place, failedAt, foretold>>
    BY <1>5 DEF Load
  <2>2. pc' \in Going /\ pc' \in Loaded /\ pc' \notin Stages
    BY <2>1 DEF Going, Loaded, Stages, After
  <2>3. ReportInv' /\ report' = report
    BY <2>1, StillReported DEF ForetellInv, Outside, told
  <2>4. \A d : LoadConfig(d, CliEnv)' = LoadConfig(d, CliEnv)
    BY <2>1, WorldSame DEF Outside
  <2>5. foretold => /\ LoadConfig(place, CliEnv) # Broken
                    /\ Same(config'.table, LoadConfig(place, CliEnv).table)
    BY <1>3, <1>5, <2>1, SameConfigs
  <2>6. StartInv'
    <3> HIDE DEF LoadConfig, Going, Loaded, Stages
    <3> QED
      BY <1>1, <2>1, <2>2, <2>3, <2>4, <2>5 DEF ForetellInv, StartInv
  <2>7. DoctorForetells'
    BY <2>1, <2>3 DEF ForetellInv, DoctorForetells
  <2> QED
    BY <2>3, <2>6, <2>7 DEF ForetellInv
<1> QED
  BY <1>4, <1>5

LEMMA ResolveForetold == ASSUME Inv, ForetellInv, ResolveRuntimeSecrets PROVE ForetellInv'
<1>1. pc \in Going /\ pc \in Loaded /\ "secrets" \in Failures
  BY DEF ResolveRuntimeSecrets, Going, Loaded, Failures
<1>2. CASE NeedsSecrets(config.table) /\ ~Resolves(place)
  <2>1. foretold => \A check \in report.good : "secrets" \notin SpeaksFor(check)
    <3> SUFFICES ASSUME foretold, NEW check \in report.good, "secrets" \in SpeaksFor(check)
                 PROVE  FALSE
      OBVIOUS
    <3>1. check \in Good
      BY DEF Inv, TypeOK
    <3>2. check = "secrets"
      BY <3>1, Speaking
    <3>3. check \in Checks(place)
      BY <1>1, <3>2, GoodHere
    <3> QED
      BY <1>2, <3>2, <3>3, ChecksMean
  <2> QED
    BY <1>1, <1>2, <2>1, FailForetold DEF ResolveRuntimeSecrets
<1>3. CASE ~(NeedsSecrets(config.table) /\ ~Resolves(place))
  <2>1. /\ pc' = "provider" /\ Outside
        /\ secrets' = IF NeedsSecrets(config.table) THEN Resolved ELSE {}
        /\ UNCHANGED <<service, place, config, failedAt, foretold>>
    BY <1>3 DEF ResolveRuntimeSecrets
  <2>2. ReportInv' /\ report' = report
    BY <2>1, StillReported DEF ForetellInv, Outside, told
  <2>3. \A d : LoadConfig(d, CliEnv)' = LoadConfig(d, CliEnv) /\ Resolved' = Resolved
    BY <2>1, WorldSame DEF Outside
  <2>4. (NeedsSecrets(config.table))' = NeedsSecrets(config.table)
    BY <2>1
  <2>5. StartInv'
    <3> HIDE DEF LoadConfig, Going, Loaded, Stages, NeedsSecrets, Resolved
    <3> QED
      BY <1>1, <2>1, <2>2, <2>3, <2>4 DEF ForetellInv, StartInv
  <2>6. DoctorForetells'
    BY <2>1, <2>2 DEF ForetellInv, DoctorForetells
  <2> QED
    BY <2>2, <2>5, <2>6 DEF ForetellInv
<1> QED
  BY <1>2, <1>3

LEMMA ComposeForetold == ASSUME Inv, ForetellInv, Compose PROVE ForetellInv'
<1>1. pc \in Stages /\ pc \in Loaded /\ pc \in Going /\ pc \in Failures
  BY DEF Compose, Going, Loaded, Failures
<1>2. CASE ~StageSucceeds(pc, config.table, secrets)
  <2>1. foretold => \A check \in report.good : pc \notin SpeaksFor(check)
    <3> SUFFICES ASSUME foretold, NEW check \in report.good, pc \in SpeaksFor(check)
                 PROVE  FALSE
      OBVIOUS
    <3> DEFINE u == LoadConfig(place, CliEnv).table
    <3>1. check \in Good
      BY DEF Inv, TypeOK
    <3>2. pc \notin {"wait", "secrets", "load"}
      BY <1>1 DEF Stages, After
    <3>3. pc = check /\ check \in {"rules", "classifier", "provider", "llm", "alerts", "connect"}
      BY <3>1, <3>2, Speaking
    <3>4. place \in Places /\ check \in Checks(place)
      BY <1>1, <3>3, GoodHere
    <3>5. Same(config.table, u) /\ secrets = IF NeedsSecrets(config.table) THEN Resolved ELSE {}
      BY <1>1, <3>4 DEF ForetellInv, StartInv
    <3>6. Required(config.table) \subseteq DOMAIN config.table
      BY <1>1 DEF Inv, TypeOK
    <3>7. IF pc \in {"provider", "llm", "alerts"} THEN StageSucceeds(pc, u, Resolved)
          ELSE StageSucceeds(pc, u, {})
      <4>1. CASE pc = "connect"
        BY <4>1, <3>3, <3>4, ChecksMean DEF StageSucceeds
      <4>2. CASE pc # "connect"
        <5> HIDE DEF u
        <5> QED
          BY <4>2, <3>3, <3>4, ChecksMean DEF u
      <4> QED
        BY <4>1, <4>2
    <3> HIDE DEF u
    <3> QED
      BY <1>2, <3>3, <3>5, <3>6, <3>7, SameStages
  <2> QED
    BY <1>1, <1>2, <2>1, FailForetold DEF Compose
<1>3. CASE StageSucceeds(pc, config.table, secrets)
  <2>1. pc' \in Going /\ pc' = After[pc]
    BY <1>1, <1>3 DEF Compose, Going, Loaded, Stages, After
  <2> QED
    BY <1>1, <1>3, <2>1, OnwardForetold DEF Compose
<1> QED
  BY <1>2, <1>3

LEMMA DaemonForetold ==
  ASSUME Inv, ForetellInv,
         \/ Daemon \/ StartService \/ Restart \/ Stop \/ Die
         \/ \E flag \in Flags : StartByHand(flag)
  PROVE  ForetellInv'
<1>1. CASE StartService \/ Restart
  <2>1. Begin("wait", TRUE, "instance", IF TRUE THEN ServiceEnv ELSE CliEnv)
    BY <1>1 DEF StartService, Restart
  <2> QED
    BY <2>1, BeginForetold, SetupAssumption
<1>2. CASE Die
  <2>1. \A check \in Good : "died" \notin SpeaksFor(check)
    BY DEF SpeaksFor, Good
  <2>2. report.good \subseteq Good
    BY DEF Inv, TypeOK
  <2> QED
    BY <1>2, <2>1, <2>2, FailForetold DEF Die, Failures
<1>3. CASE Stop
  <2>1. /\ pc' \notin Going /\ foretold' = FALSE
        /\ Outside
    BY <1>3 DEF Stop, Going, Loaded, Stages, After
  <2>2. ReportInv'
    BY <2>1, StillReported DEF ForetellInv, Outside, told
  <2>3. StartInv' /\ DoctorForetells'
    BY <2>1 DEF StartInv, DoctorForetells
  <2> QED
    BY <2>2, <2>3 DEF ForetellInv
<1>4. ASSUME NEW flag \in Flags, StartByHand(flag) PROVE ForetellInv'
  <2>1. Begin("load", FALSE, ResolveUserConfigPath(flag, CliEnv), IF FALSE THEN ServiceEnv ELSE CliEnv)
    BY <1>4 DEF StartByHand
  <2> QED
    BY <2>1, BeginForetold, PlaceType
<1> QED
  BY <1>1, <1>2, <1>3, <1>4, WaitForetold, LoadForetold, ResolveForetold, ComposeForetold DEF Daemon

(* A new report, or none, foretells nothing until a start begins.           *)
LEMMA AnewForetold ==
  ASSUME ForetellInv, UNCHANGED <<pc, failedAt>>, foretold' = FALSE, ReportInv'
  PROVE  ForetellInv'
<1>1. StartInv'
  <2> HIDE DEF Going, Loaded, Stages
  <2> QED
    BY DEF ForetellInv, StartInv
<1>2. DoctorForetells'
  BY DEF DoctorForetells
<1> QED
  BY <1>1, <1>2 DEF ForetellInv

LEMMA ChangeForetold == ASSUME ForetellInv, Change PROVE ForetellInv'
<1>1. report'.good = {} /\ foretold' = FALSE /\ UNCHANGED <<pc, failedAt>>
  BY DEF Change, NoReport
<1>2. ReportInv'
  BY <1>1 DEF ReportInv
<1> QED
  BY <1>1, <1>2, AnewForetold

LEMMA DoctorForetold ==
  ASSUME ForetellInv, NEW flag \in Flags, Doctor(flag)
  PROVE  ForetellInv'
<1> DEFINE d == ResolveUserConfigPath(flag, CliEnv)
<1>1. report' = [dir |-> d, good |-> Checks(d) \cup (IF CheckSystemdUnit THEN {"unit"} ELSE {})]
  BY DEF Doctor
<1>2. UNCHANGED world /\ foretold' = FALSE /\ UNCHANGED <<pc, failedAt>>
  BY DEF Doctor, Command
<1>3. Checks(d)' = Checks(d)
  BY <1>2, WorldSame
<1>4. ReportInv'
  <2> HIDE DEF d, Checks
  <2> QED
    BY <1>1, <1>3 DEF ReportInv
<1> QED
  BY <1>2, <1>4, AnewForetold

LEMMA EditForetold ==
  ASSUME Inv, ForetellInv, NEW flag \in Flags, NEW f \in UserFiles, ConfigEdit(flag, f)
  PROVE  ForetellInv'
<1> DEFINE d == ResolveUserConfigPath(flag, CliEnv)
           saved == Loads[SystemDefault(CliEnv)][f][enforced]
<1>1. /\ disk' = [disk EXCEPT ![d] = f]
      /\ report' = [dir |-> d, good |-> IF saved = Broken THEN {} ELSE {"config"}]
      /\ foretold' = FALSE /\ UNCHANGED <<pc, failedAt, enforced, defaults>>
  BY DEF ConfigEdit
<1>2. disk'[d] = f
  BY <1>1, PlaceType DEF Inv, TypeOK
<1>3. SystemDefault(CliEnv)' = SystemDefault(CliEnv)
  <2>1. defaults' = defaults
    BY <1>1
  <2> QED
    BY <2>1 DEF SystemDefault
<1>4. saved # Broken => LoadConfig(d, CliEnv)' # Broken
  BY <1>1, <1>2, <1>3 DEF LoadConfig, Holding, Broken
<1>5. saved # Broken => "config" \in Checks(d)'
  BY <1>4 DEF Checks
<1>6. ReportInv'
  <2> HIDE DEF d, saved, Checks
  <2> QED
    BY <1>1, <1>5 DEF ReportInv
<1> QED
  BY <1>1, <1>6, AnewForetold

LEMMA ShowForetold ==
  ASSUME ForetellInv, NEW flag \in Flags, ConfigShow(flag)
  PROVE  ForetellInv'
<1>1. /\ UNCHANGED <<world, report, foretold>>
      /\ UNCHANGED <<pc, service, place, config, secrets, failedAt>>
  BY DEF ConfigShow, Command
<1>2. ReportInv'
  BY <1>1, StillReported DEF ForetellInv
<1>3. \A d : LoadConfig(d, CliEnv)' = LoadConfig(d, CliEnv) /\ Resolved' = Resolved
  BY <1>1, WorldSame
<1>4. (NeedsSecrets(config.table))' = NeedsSecrets(config.table)
  BY <1>1
<1>5. StartInv'
  <2> HIDE DEF Going, Loaded, Stages, LoadConfig, Resolved, NeedsSecrets
  <2> QED
    BY <1>1, <1>3, <1>4 DEF ForetellInv, StartInv
<1>6. DoctorForetells'
  BY <1>1 DEF ForetellInv, DoctorForetells
<1> QED
  BY <1>2, <1>5, <1>6 DEF ForetellInv

LEMMA MachineForetold ==
  ASSUME Inv, ForetellInv, Machine \/ CommandLine
  PROVE  ForetellInv'
<1>1. CASE Machine
  <2>1. Change
    BY <1>1 DEF Machine, UserWrites, UserWritesRules, AdminWrites, KeyringLocks, ServerGoes
  <2> QED
    BY <2>1, ChangeForetold
<1>2. ASSUME NEW flag \in Flags, \/ \E force \in BOOLEAN : ConfigInit(flag, force)
                                \/ Enroll(flag)
      PROVE  ForetellInv'
  <2>1. Change
    BY <1>2 DEF ConfigInit, Enroll
  <2> QED
    BY <2>1, ChangeForetold
<1>3. ASSUME NEW enableNow \in BOOLEAN, InstallService(enableNow) PROVE ForetellInv'
  BY <1>3, ChangeForetold DEF InstallService
<1> QED
  BY <1>1, <1>2, <1>3, DoctorForetold, EditForetold, ShowForetold DEF CommandLine

LEMMA ForetellInvariance == Spec => []ForetellInv
<1>1. Init => ForetellInv
  <2> SUFFICES ASSUME Init PROVE ForetellInv
    OBVIOUS
  <2>1. pc \notin Going /\ foretold = FALSE /\ report.good = {}
    BY DEF Init, NoReport, Going, Loaded, Stages, After
  <2> QED
    BY <2>1 DEF ForetellInv, ReportInv, StartInv, DoctorForetells
<1>2. Inv /\ ForetellInv /\ [Next]_vars => ForetellInv'
  <2>1. ASSUME Inv, ForetellInv, UNCHANGED vars PROVE ForetellInv'
    <3>1. /\ UNCHANGED <<world, report, foretold>>
          /\ UNCHANGED <<pc, service, place, config, secrets, failedAt>>
      BY <2>1 DEF vars, daemon, told
    <3>2. ReportInv'
      BY <2>1, <3>1, StillReported DEF ForetellInv
    <3>3. \A d : LoadConfig(d, CliEnv)' = LoadConfig(d, CliEnv) /\ Resolved' = Resolved
      BY <3>1, WorldSame
    <3>4. (NeedsSecrets(config.table))' = NeedsSecrets(config.table)
      BY <3>1
    <3>5. StartInv'
      <4> HIDE DEF Going, Loaded, Stages, LoadConfig, Resolved, NeedsSecrets
      <4> QED
        BY <2>1, <3>1, <3>3, <3>4 DEF ForetellInv, StartInv
    <3>6. DoctorForetells'
      BY <2>1, <3>1 DEF ForetellInv, DoctorForetells
    <3> QED
      BY <3>2, <3>5, <3>6 DEF ForetellInv
  <2>2. ASSUME Inv, ForetellInv, Next PROVE ForetellInv'
    BY <2>2, DaemonForetold, MachineForetold DEF Next
  <2> QED
    BY <2>1, <2>2
<1> QED
  BY <1>1, <1>2, Invariance, PTL DEF Spec

-----------------------------------------------------------------------------
(* The theorems.                                                            *)

(* Every variable has its type: in particular a daemon past load_config     *)
(* holds all that SporkConfig requires and a socket path, whatever the      *)
(* tiers hold.                                                              *)
THEOREM TypeCorrect == Spec => []TypeOK
<1>1. Inv => TypeOK
  BY DEF Inv
<1> QED
  BY <1>1, Invariance, PTL

(* The enforced tier cannot be overridden, for any files and environment.   *)
THEOREM EnforcedTierStands == Spec => []EnforcedStands
<1>1. Inv => EnforcedStands
  BY DEF Inv
<1> QED
  BY <1>1, Invariance, PTL

(* For any files: `config show` flags every key that enforced.toml sets     *)
(* (enforced_override_paths) but those without a line of their own, and a   *)
(* flagged line that is no alias has the enforced value in every load that  *)
(* succeeds, whatever the user writes.                                      *)
THEOREM FlagsAreTrue == Spec => []FlagsStand
<1>1. Inv => FlagsStand
  <2> SUFFICES ASSUME Inv, NEW d \in Places, Loads[SystemDefault(CliEnv)][disk[d]][enforced] # Broken,
                      NEW p \in shown.flagged, ~Alias(p)
               PROVE  LET loaded == Loads[SystemDefault(CliEnv)][disk[d]][enforced]
                      IN  /\ p \in DOMAIN enforced.table /\ p \in DOMAIN loaded.table
                          /\ loaded.table[p] = enforced.table[p]
    BY DEF FlagsStand, Inv, ShownInv
  <2>1. /\ SystemDefault(CliEnv) \in SystemFiles
        /\ disk[d] \in UsersFiles /\ enforced \in EnforcedFiles
    BY SystemDefaultType DEF Inv, TypeOK
  <2>2. p \in DOMAIN enforced.table
    BY DEF Inv, ShownInv
  <2> QED
    BY <2>1, <2>2, LoadsEnforced
<1> QED
  BY <1>1, Invariance, PTL

(* What doctor, or the save of config edit, found good does not fail in a   *)
(* start from the same directory and system files while the machine is as   *)
(* it was: doctor's composition and run_daemon's agree, for any files,      *)
(* secrets and environments.                                                *)
THEOREM DoctorIsRight == Spec => []DoctorForetells
<1>1. ForetellInv => DoctorForetells
  BY DEF ForetellInv
<1> QED
  BY <1>1, ForetellInvariance, PTL

-----------------------------------------------------------------------------
(* The repaired service.  Its last part is quiet: the machine is sound and  *)
(* stays as it is, and only the start itself and systemd take steps.        *)
Repaired == Sound /\ service /\ pc # "off"
Quiet == [][events' = events]_vars

Onward(p) ==
    CASE p = "wait" -> "load" [] p = "load" -> "secrets" [] p = "secrets" -> "provider"
      [] OTHER -> After[p]

(* A start that read the machine as it is now.                              *)
Fresh ==
    /\ service /\ place = "instance" /\ pc \in Underway
    /\ pc \in {"secrets"} \cup Stages => config = LoadConfig("instance", ServiceEnv)
    /\ pc \in Stages => secrets = IF NeedsSecrets(config.table) THEN Resolved ELSE {}

At(p) == pc = p

LEMMA QuietStep ==
  ASSUME Inv, Repaired, Repaired', Next, events' = events
  PROVE  Daemon \/ Restart
<1>1. events \in Nat /\ events' # events + 1
  BY DEF Inv, TypeOK
<1>2. ~Machine /\ ~Die
  BY <1>1 DEF Machine, UserWrites, UserWritesRules, AdminWrites, KeyringLocks, ServerGoes, Change, Die
<1>3. ~CommandLine
  BY <1>1 DEF CommandLine, ConfigInit, ConfigEdit, ConfigShow, Enroll, Doctor, InstallService,
              Change, Command
<1>4. ~StartService /\ ~Stop /\ ~\E flag \in Flags : StartByHand(flag)
  BY DEF Repaired, StartService, Stop, StartByHand
<1> QED
  BY <1>2, <1>3, <1>4 DEF Next

(* A stage goes on, or fails and leaves the rest to systemd.                *)
LEMMA AnyStep ==
  ASSUME Inv, service, Daemon
  PROVE  pc \in Underway /\ pc' \in {Onward(pc), "failed"} /\ pc' # pc
<1>1. CASE Wait
  BY <1>1 DEF Wait, Fail, Onward, Underway
<1>2. CASE Load
  BY <1>2 DEF Load, Fail, Onward, Underway
<1>3. CASE ResolveRuntimeSecrets
  BY <1>3 DEF ResolveRuntimeSecrets, Fail, Onward, Underway
<1>4. CASE Compose
  <2>1. pc \in Stages /\ pc' \in {After[pc], "failed"}
    BY <1>4 DEF Compose, Fail
  <2> QED
    BY <2>1 DEF Onward, Underway, Stages, After
<1> QED
  BY <1>1, <1>2, <1>3, <1>4 DEF Daemon

(* The documents and the secrets are the same as long as the machine is.    *)
LEMMA ServiceSame ==
  ASSUME Outside
  PROVE  /\ LoadConfig("instance", ServiceEnv)' = LoadConfig("instance", ServiceEnv)
         /\ Resolved' = Resolved
<1> USE DEF Outside, world, files, vault
<1>1. SystemDefault(ServiceEnv)' = SystemDefault(ServiceEnv)
  BY DEF SystemDefault
<1> QED
  BY <1>1 DEF LoadConfig, Resolved

(* On a sound machine such a start does not fail.                           *)
LEMMA FreshStep ==
  ASSUME Inv, Sound, Fresh, Daemon
  PROVE  pc' = Onward(pc) /\ (pc' = "up" \/ Fresh')
<1> DEFINE c == LoadConfig("instance", ServiceEnv)
           r == Resolved
<1>1. /\ c # Broken /\ Resolves("instance")
      /\ \A s \in Stages : StageSucceeds(s, c.table, IF NeedsSecrets(c.table) THEN r ELSE {})
  BY DEF Sound
<1>2. Outside
  BY DEF Daemon, Wait, Load, ResolveRuntimeSecrets, Compose
<1>3. c' = c /\ r' = r
  BY <1>2, ServiceSame
<1>4. service /\ place = "instance" /\ Env = ServiceEnv
  BY DEF Fresh, Env
<1>5. CASE Wait
  <2>1. pc = "wait" /\ pc' = "load" /\ UNCHANGED <<service, place>>
    BY <1>5, <1>1, <1>4 DEF Wait
  <2> QED
    BY <1>4, <2>1 DEF Fresh, Underway, Stages, After, Onward
<1>6. CASE Load
  <2>1. pc = "load" /\ pc' = "secrets" /\ UNCHANGED <<service, place>> /\ config' = c
    <3> HIDE DEF LoadConfig, Env
    <3> QED
      BY <1>6, <1>1, <1>4 DEF Load
  <2>2. pc' \notin Stages /\ pc' \in Underway
    BY <2>1 DEF Stages, After, Underway
  <2> HIDE DEF LoadConfig
  <2> QED
    BY <1>3, <1>4, <2>1, <2>2 DEF Fresh, Onward
<1>7. CASE ResolveRuntimeSecrets
  <2>1. /\ pc = "secrets" /\ pc' = "provider" /\ UNCHANGED <<service, place, config>>
        /\ secrets' = IF NeedsSecrets(config.table) THEN r ELSE {}
    <3> HIDE DEF Resolves, NeedsSecrets
    <3> QED
      BY <1>7, <1>1, <1>4 DEF ResolveRuntimeSecrets
  <2>2. pc' \in Stages /\ pc' \in Underway
    BY <2>1 DEF Stages, After, Underway
  <2>3. config = c
    BY <2>1 DEF Fresh
  <2>4. (NeedsSecrets(config.table))' = NeedsSecrets(config.table)
    BY <2>1
  <2> HIDE DEF LoadConfig, Resolved, NeedsSecrets
  <2> QED
    BY <1>3, <1>4, <2>1, <2>2, <2>3, <2>4 DEF Fresh, Onward
<1>8. CASE Compose
  <2>1. pc \in Stages
    BY <1>8 DEF Compose
  <2>2. config = c /\ secrets = IF NeedsSecrets(c.table) THEN r ELSE {}
    <3> HIDE DEF LoadConfig, Resolved, NeedsSecrets, Stages
    <3> QED
      BY <2>1 DEF Fresh
  <2>3. StageSucceeds(pc, config.table, secrets)
    <3> HIDE DEF LoadConfig, Resolved, NeedsSecrets, Stages, StageSucceeds
    <3> QED
      BY <1>1, <2>1, <2>2
  <2>4. pc' = After[pc] /\ UNCHANGED <<service, place, config, secrets>>
    <3> HIDE DEF StageSucceeds
    <3> QED
      BY <1>8, <2>3 DEF Compose
  <2>5. pc' = Onward(pc) /\ (pc' = "up" \/ (pc' \in Stages /\ pc' \in Underway))
    BY <2>1, <2>4 DEF Onward, Stages, After, Underway
  <2>6. (NeedsSecrets(config.table))' = NeedsSecrets(config.table)
    BY <2>4
  <2> HIDE DEF LoadConfig, Resolved, NeedsSecrets, Stages
  <2> QED
    BY <1>3, <1>4, <2>2, <2>4, <2>5, <2>6 DEF Fresh
<1> QED
  BY <1>5, <1>6, <1>7, <1>8 DEF Daemon

(* A step of the quiet part takes a start from one stage to the next, or to *)
(* its failure, and so does every step of the daemon.                       *)
QuietNext == Inv /\ Repaired /\ Repaired' /\ [Next]_vars /\ [events' = events]_vars
GoesOn(p, q) ==
    /\ At(p) => pc \in Underway
    /\ QuietNext /\ At(p) => At(p)' \/ At(q)' \/ At("failed")'
    /\ QuietNext /\ At(p) /\ <<Daemon>>_vars => At(q)' \/ At("failed")'

LEMMA StageGoesOn ==
  ASSUME NEW p \in Underway, NEW q, q = Onward(p)
  PROVE  GoesOn(p, q)
<1>1. ASSUME QuietNext, At(p), Daemon PROVE At(q)' \/ At("failed")'
  BY <1>1, AnyStep DEF QuietNext, At, Repaired
<1>2. ASSUME QuietNext, At(p) PROVE At(p)' \/ At(q)' \/ At("failed")'
  <2>1. CASE UNCHANGED vars
    BY <1>2, <2>1 DEF vars, daemon, At
  <2>2. CASE Next /\ events' = events
    <3>1. pc # "failed"
      BY <1>2 DEF At, Underway, Stages, After
    <3> QED
      BY <1>1, <1>2, <2>2, <3>1, QuietStep DEF QuietNext, Restart
  <2> QED
    BY <1>2, <2>1, <2>2 DEF QuietNext
<1> QED
  BY <1>1, <1>2 DEF GoesOn, At

LEMMA StagesGoOn ==
  /\ GoesOn("wait", "load")
  /\ GoesOn("load", "secrets")
  /\ GoesOn("secrets", "provider")
  /\ GoesOn("provider", "rules")
  /\ GoesOn("rules", "llm")
  /\ GoesOn("llm", "context")
  /\ GoesOn("context", "receipts")
  /\ GoesOn("receipts", "alerts")
  /\ GoesOn("alerts", "classifier")
  /\ GoesOn("classifier", "connect")
  /\ GoesOn("connect", "up")
BY StageGoesOn DEF Onward, Underway, Stages, After

(* A start that failed is made again and reads the machine as it is now;    *)
(* from then on no stage fails, and a daemon that is up stays so.           *)
LEMMA StaysFresh ==
  /\ QuietNext /\ Fresh => Fresh' \/ At("up")'
  /\ QuietNext /\ At("up") => At("up")'
  /\ QuietNext /\ At("failed") => At("failed")' \/ Fresh'
  /\ QuietNext /\ <<Restart>>_vars => Fresh'
<1>1. ASSUME UNCHANGED vars, Fresh PROVE Fresh'
  <2>1. UNCHANGED <<pc, service, place, config, secrets>> /\ Outside
    BY <1>1 DEF vars, daemon, Outside
  <2>2. /\ LoadConfig("instance", ServiceEnv)' = LoadConfig("instance", ServiceEnv)
        /\ Resolved' = Resolved
    BY <2>1, ServiceSame
  <2>3. (NeedsSecrets(config.table))' = NeedsSecrets(config.table)
    BY <2>1
  <2> HIDE DEF LoadConfig, Resolved, NeedsSecrets, Stages, Underway
  <2> QED
    BY <1>1, <2>1, <2>2, <2>3 DEF Fresh
<1>2. ASSUME QuietNext, Restart PROVE Fresh'
  BY <1>2 DEF QuietNext, Restart, Begin, Fresh, Underway, Stages, After, Repaired
<1>3. ASSUME QuietNext PROVE UNCHANGED vars \/ Daemon \/ Restart
  BY <1>3, QuietStep DEF QuietNext
<1>4. ASSUME QuietNext, Fresh PROVE Fresh' \/ At("up")'
  <2>1. pc # "failed"
    BY <1>4 DEF Fresh, Underway, Stages, After
  <2> QED
    BY <1>1, <1>3, <1>4, <2>1, FreshStep DEF QuietNext, Repaired, At, Restart
<1>5. ASSUME QuietNext, At("up") \/ At("failed") PROVE UNCHANGED vars \/ (Restart /\ At("failed"))
  <2>1. pc \notin Underway
    BY <1>5 DEF At, Underway, Stages, After
  <2> QED
    BY <1>3, <1>5, <2>1, AnyStep DEF QuietNext, Repaired, At, Restart
<1>6. UNCHANGED vars => UNCHANGED pc
  BY DEF vars, daemon
<1> QED
  BY <1>2, <1>4, <1>5, <1>6 DEF At

LEMMA Somewhere ==
  /\ Inv /\ Repaired => At("up") \/ At("failed") \/ At("wait") \/ At("load") \/ At("secrets") \/ At("provider")
                          \/ At("rules") \/ At("llm") \/ At("context") \/ At("receipts") \/ At("alerts") \/ At("classifier") \/ At("connect")
  /\ At("failed") => pc = "failed"
  /\ Fresh => ~At("failed") /\ ~At("up")
BY DEF Inv, TypeOK, Loaded, Stages, After, Repaired, At, Fresh, Underway

(* What holds of the quiet part, whenever it is looked at.                  *)
QuietPart ==
    /\ []Inv /\ [][Next]_vars /\ []Repaired /\ Quiet
    /\ WF_vars(Daemon) /\ WF_vars(Restart) /\ []NeverStuck

(* A service whose machine is repaired comes up and stays up, however many  *)
(* starts failed before, once the machine is left alone and the daemon does *)
(* not die: runtime.py's composition after systemd's restart reads what is  *)
(* there now.                                                               *)
THEOREM RepairedServiceComesUp ==
  FairSpec /\ []NeverStuck /\ <>Quiet => RepairedComesUp
<1>1. QuietPart => <>(At("failed") \/ At("up"))
  BY StagesGoOn, Somewhere, PTL DEF QuietPart, Quiet, NeverStuck, GoesOn, QuietNext
<1>2. QuietPart => [](At("failed") => <>Fresh)
  BY StaysFresh, Somewhere, PTL DEF QuietPart, Quiet, NeverStuck, QuietNext
<1>3. QuietPart => [](Fresh => <>At("up"))
  BY StaysFresh, Somewhere, <1>1, PTL DEF QuietPart, Quiet, NeverStuck, QuietNext
<1>4. QuietPart => [](At("up") => []At("up"))
  BY StaysFresh, PTL DEF QuietPart, Quiet, QuietNext
<1>5. QuietPart => <>[]At("up")
  BY <1>1, <1>2, <1>3, <1>4, PTL
<1>6. At("up") => pc = "up"
  BY DEF At
<1>7. Sound /\ service /\ pc # "off" => Repaired
  BY DEF Repaired
<1> QED
  BY <1>5, <1>6, <1>7, Invariance, PTL
     DEF FairSpec, Spec, RepairedComesUp, QuietPart, Quiet

=============================================================================
