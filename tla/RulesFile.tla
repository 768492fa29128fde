----------------------------- MODULE RulesFile -----------------------------
(***************************************************************************)
(* rules.toml, the commands that change it and the daemon that reads it.   *)
(* `spork rules enable` and `disable` load the whole file, flip one rule   *)
(* and write the whole file back, with no lock and in place: the file is   *)
(* first empty, then part of what it will be.  `spork rules edit` lets the *)
(* user's editor replace it and validates the result.  Each then asks a    *)
(* running daemon to reload.  The daemon loads the file when it starts,    *)
(* well before its control socket exists, and at each reload.              *)
(*                                                                         *)
(* A content is the enabled flag of each rule, in file order; an empty     *)
(* file is no rules and no error.                                          *)
(***************************************************************************)
EXTENDS Integers

CONSTANTS
    Editors,  \* runs of `spork rules enable`, `disable` and `edit`
    NRules,   \* bound: rules the user has
    Broken    \* a content that does not load

ASSUME RulesFileAssumption == NRules \in Nat

Versions == [1..NRules -> BOOLEAN]
Contents == UNION {[1..n -> BOOLEAN] : n \in 0..NRules}
NoRules  == [i \in 1..0 |-> TRUE]

ASSUME BrokenAssumption == Broken \notin Contents

VARIABLES
    file,
    \* the daemon
    daemon, rules,
    requests,   \* reload requests in its socket
    \* the commands: where each is, what it is about to write, what it was asked
    stage, copy, change,
    \* history: what the commands were asked for, in the order they wrote; did
    \* two of them ever overlap
    intent, overlap

history == <<intent, overlap>>
vars == <<file, daemon, rules, requests, stage, copy, change, history>>

Writing(e) == stage[e] \in {"loaded", "open"}
Ended == {"reloaded", "rejected", "offline", "missed", "timedout", "failed", "died"}

-----------------------------------------------------------------------------
Init ==
    /\ file \in Versions /\ intent = file /\ overlap = FALSE
    /\ daemon = "stopped" /\ rules = NoRules /\ requests = {}
    /\ stage = [e \in Editors |-> "idle"]
    /\ copy = [e \in Editors |-> NoRules]
    /\ change = [e \in Editors |-> [rule |-> 0, enabled |-> TRUE]]

(* The daemon loads the file or exits; systemd tries again.                *)
Boot ==
    /\ daemon = "stopped" /\ file # Broken
    /\ daemon' = "starting" /\ rules' = file
    /\ UNCHANGED <<file, requests, stage, copy, change, history>>

Listen ==
    /\ daemon = "starting" /\ daemon' = "up"
    /\ UNCHANGED <<file, rules, requests, stage, copy, change, history>>

StopDaemon ==
    /\ daemon # "stopped" /\ daemon' = "stopped"
    /\ rules' = NoRules /\ requests' = {}
    /\ UNCHANGED <<file, stage, copy, change, history>>

-----------------------------------------------------------------------------
(* enable and disable: the file is read whole.                             *)
Enter == overlap' = (overlap \/ \E f \in Editors : Writing(f))

(* mutant: the flag of the first rule is set, whatever the id *)
LoadFirst(e) ==
    /\ stage[e] = "idle"
    /\ \E r \in 1..NRules, b \in BOOLEAN :
         IF file = Broken \/ r \notin DOMAIN file
           THEN stage' = [stage EXCEPT ![e] = "failed"] /\ UNCHANGED <<copy, change, overlap>>
           ELSE /\ stage' = [stage EXCEPT ![e] = "loaded"]
                /\ copy' = [copy EXCEPT ![e] = [file EXCEPT ![1] = b]]
                /\ change' = [change EXCEPT ![e] = [rule |-> r, enabled |-> b]]
                /\ Enter
    /\ UNCHANGED <<file, daemon, rules, requests, intent>>

Load(e) ==
    /\ stage[e] = "idle"
    /\ \E r \in 1..NRules, b \in BOOLEAN :
         IF file = Broken \/ r \notin DOMAIN file
           THEN stage' = [stage EXCEPT ![e] = "failed"] /\ UNCHANGED <<copy, change, overlap>>
           ELSE /\ stage' = [stage EXCEPT ![e] = "loaded"]
                /\ copy' = [copy EXCEPT ![e] = [file EXCEPT ![r] = b]]
                /\ change' = [change EXCEPT ![e] = [rule |-> r, enabled |-> b]]
                /\ Enter
    /\ UNCHANGED <<file, daemon, rules, requests, intent>>

(* write_text: truncate, write, close.  A long text is flushed in parts.   *)
Truncate(e) ==
    /\ stage[e] = "loaded" /\ stage' = [stage EXCEPT ![e] = "open"]
    /\ file' = NoRules
    /\ UNCHANGED <<daemon, rules, requests, copy, change, history>>

Prefixes(c) == {[i \in 1..n |-> c[i]] : n \in {k \in 0..NRules : 1..k \subseteq DOMAIN c}}

Flush(e) ==
    /\ stage[e] = "open"
    /\ file' \in Prefixes(copy[e]) \cup {Broken}
    /\ UNCHANGED <<daemon, rules, requests, stage, copy, change, history>>

(* Two writers that have the file open overwrite each other's bytes.       *)
Close(e) ==
    /\ stage[e] = "open" /\ stage' = [stage EXCEPT ![e] = "saved"]
    /\ file' \in IF \E f \in Editors \ {e} : stage[f] = "open" THEN {copy[e], Broken}
                                                              ELSE {copy[e]}
    /\ intent' = IF intent = Broken THEN Broken
                 ELSE [intent EXCEPT ![change[e].rule] = change[e].enabled]
    /\ UNCHANGED <<daemon, rules, requests, copy, change, overlap>>

(* edit: the user's editor saves, then the command validates.              *)
Save(e) ==
    /\ stage[e] = "idle" /\ stage' = [stage EXCEPT ![e] = "edited"]
    /\ file' \in Versions \cup {Broken}
    /\ intent' = file' /\ Enter
    /\ UNCHANGED <<daemon, rules, requests, copy, change>>

Validate(e) ==
    /\ stage[e] = "edited"
    /\ stage' = [stage EXCEPT ![e] = IF file = Broken THEN "failed" ELSE "saved"]
    /\ UNCHANGED <<file, daemon, rules, requests, copy, change, history>>

(* _push_reload, after the audit entry of enable and disable.  Without a   *)
(* socket it says that the daemon is not running, and is right about one   *)
(* that is stopped; one that is starting may have read the file already.   *)
Answer(e, what) == stage' = [stage EXCEPT ![e] = what]

Push(e) ==
    /\ stage[e] = "saved"
    /\ \/ daemon = "up" /\ requests' = requests \cup {e} /\ Answer(e, "sent")
       \/ daemon = "starting" /\ Answer(e, "missed") /\ UNCHANGED requests
       \/ daemon = "stopped" /\ Answer(e, "offline") /\ UNCHANGED requests
    /\ UNCHANGED <<file, daemon, rules, copy, change, history>>

(* The timeout, or a daemon that went away.  The request stays.            *)
GiveUp(e) ==
    /\ stage[e] = "sent" /\ Answer(e, "timedout")
    /\ UNCHANGED <<file, daemon, rules, requests, copy, change, history>>

(* mutant: as many rules as before, so nothing to reload *)
ReloadByCount(e) ==
    /\ daemon = "up" /\ e \in requests /\ requests' = requests \ {e}
    /\ rules' = IF file = Broken THEN rules
                ELSE IF DOMAIN file = DOMAIN rules THEN rules ELSE file
    /\ stage' = IF stage[e] # "sent" THEN stage
                ELSE [stage EXCEPT ![e] = IF file = Broken THEN "rejected" ELSE "reloaded"]
    /\ UNCHANGED <<file, daemon, copy, change, history>>

(* mutant: the rules are replaced before it is known whether they load *)
ReloadUnchecked(e) ==
    /\ daemon = "up" /\ e \in requests /\ requests' = requests \ {e}
    /\ rules' = file
    /\ stage' = IF stage[e] # "sent" THEN stage
                ELSE [stage EXCEPT ![e] = IF file = Broken THEN "rejected" ELSE "reloaded"]
    /\ UNCHANGED <<file, daemon, copy, change, history>>

(* _reload: a file that does not load leaves the rules as they were.       *)
Reload(e) ==
    /\ daemon = "up" /\ e \in requests /\ requests' = requests \ {e}
    /\ rules' = IF file = Broken THEN rules ELSE file
    /\ stage' = IF stage[e] # "sent" THEN stage
                ELSE [stage EXCEPT ![e] = IF file = Broken THEN "rejected" ELSE "reloaded"]
    /\ UNCHANGED <<file, daemon, copy, change, history>>

(* A command is interrupted, or raises (a locked database, a full disk).   *)
EditorDies(e) ==
    /\ stage[e] \notin Ended \cup {"idle"} /\ stage' = [stage EXCEPT ![e] = "died"]
    /\ UNCHANGED <<file, daemon, rules, requests, copy, change, history>>

-----------------------------------------------------------------------------
Next ==
    \/ Boot \/ Listen \/ StopDaemon
    \/ \E e \in Editors :
         \/ Load(e) \/ Truncate(e) \/ Flush(e) \/ Close(e) \/ Save(e) \/ Validate(e)
         \/ Push(e) \/ GiveUp(e) \/ Reload(e) \/ EditorDies(e)

Spec == Init /\ [][Next]_vars

-----------------------------------------------------------------------------
Stages == {"idle", "loaded", "open", "edited", "saved", "sent"} \cup Ended

TypeOK ==
    /\ file \in Contents \cup {Broken} /\ intent \in Contents \cup {Broken}
    /\ daemon \in {"stopped", "starting", "up"} /\ rules \in Contents
    /\ requests \subseteq Editors
    /\ stage \in [Editors -> Stages] /\ copy \in [Editors -> Contents]
    /\ change \in [Editors -> [rule : 0..NRules, enabled : BOOLEAN]]
    /\ overlap \in BOOLEAN

(* A daemon with other rules than the file's owes it to a command: one     *)
(* that is under way, one whose request waits, one that died, or one that  *)
(* took a daemon that was starting for one that was not running.  A reload *)
(* that was rejected, or not waited for, is no excuse.                     *)
CurrentUnlessMissed ==
    daemon # "stopped" /\ file # Broken /\ rules # file =>
        \/ \E e \in Editors : stage[e] \in {"open", "edited", "saved", "missed", "died"}
        \/ requests # {}

(* Commands that neither overlap nor die do what they were asked for, all  *)
(* of it and nothing else, in the order in which they wrote.               *)
Clean == ~overlap /\ \A e \in Editors : stage[e] # "died"
AsAsked == Clean /\ (\A e \in Editors : stage[e] # "open") => file = intent

(* What docs/DESIGN.md says of the reload: a running daemon keeps its last *)
(* good rules and is never silently left without any.  No user here wrote  *)
(* a file without rules.                                                   *)
NeverRuleless ==
    [][daemon = "up" /\ daemon' = "up" /\ rules # NoRules => rules' # NoRules]_vars

=============================================================================
