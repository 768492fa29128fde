-------------------------- MODULE RulesFile_proofs --------------------------
(* What RulesFile guarantees for any number of commands and of rules.       *)
EXTENDS RulesFile, TLAPS

(* A command that has the file in its memory will write what the commands  *)
(* before it were asked for, with its own change: as long as none overlaps *)
(* no other can come between its read and its write.                       *)
Faithful(e) ==
    Writing(e) => /\ intent # Broken
                  /\ copy[e] = [intent EXCEPT ![change[e].rule] = change[e].enabled]

InTurn ==
    Clean => /\ \A e, f \in Editors : Writing(e) /\ Writing(f) => e = f
             /\ \A e \in Editors : Faithful(e)

Inductive == TypeOK /\ CurrentUnlessMissed /\ AsAsked /\ InTurn

-----------------------------------------------------------------------------
(* The shapes of a content: a change of one flag and a beginning are ones. *)
LEMMA ContentShapes ==
    /\ NoRules \in Contents
    /\ Versions \subseteq Contents
    /\ \A c \in Contents, r \in Int, b \in BOOLEAN : [c EXCEPT ![r] = b] \in Contents
    /\ \A c \in Contents : Prefixes(c) \subseteq Contents
<1>. USE RulesFileAssumption
<1>1. NoRules \in Contents
  <2>1. NoRules \in [1..0 -> BOOLEAN]
    BY DEF NoRules
  <2>. QED BY <2>1 DEF Contents
<1>2. Versions \subseteq Contents
  BY DEF Versions, Contents
<1>3. ASSUME NEW c \in Contents, NEW r \in Int, NEW b \in BOOLEAN
      PROVE  [c EXCEPT ![r] = b] \in Contents
  <2>1. PICK n \in 0..NRules : c \in [1..n -> BOOLEAN]
    BY DEF Contents
  <2>2. [c EXCEPT ![r] = b] \in [1..n -> BOOLEAN]
    BY <2>1
  <2>. QED BY <2>2 DEF Contents
<1>4. ASSUME NEW c \in Contents PROVE Prefixes(c) \subseteq Contents
  <2>1. PICK n \in 0..NRules : c \in [1..n -> BOOLEAN]
    BY DEF Contents
  <2>2. ASSUME NEW k \in 0..NRules, 1..k \subseteq DOMAIN c
        PROVE  [i \in 1..k |-> c[i]] \in [1..k -> BOOLEAN]
    BY <2>1, <2>2
  <2>. QED BY <2>2 DEF Prefixes, Contents
<1>. QED BY <1>1, <1>2, <1>3, <1>4

-----------------------------------------------------------------------------
(* Types: a broken file never becomes the daemon's rules.                  *)
LEMMA TypeInit == Init => TypeOK
<1>. SUFFICES ASSUME Init PROVE TypeOK
  OBVIOUS
<1>1. file \in Contents /\ NoRules \in Contents
  BY ContentShapes DEF Init
<1>2. [rule |-> 0, enabled |-> TRUE] \in [rule : 0..NRules, enabled : BOOLEAN]
  BY RulesFileAssumption
<1>. QED BY <1>1, <1>2 DEF Init, TypeOK, Stages

LEMMA TypeStep == TypeOK /\ [Next]_vars => TypeOK'
<1>. SUFFICES ASSUME TypeOK, [Next]_vars PROVE TypeOK'
  OBVIOUS
<1>. USE ContentShapes, RulesFileAssumption, BrokenAssumption DEF TypeOK, Stages, Ended, history
<1>1. CASE Boot
  BY <1>1 DEF Boot
<1>2. CASE Listen
  BY <1>2 DEF Listen
<1>3. CASE StopDaemon
  BY <1>3 DEF StopDaemon
<1>4. ASSUME NEW e \in Editors, Load(e) PROVE TypeOK'
  <2>. PICK r \in 1..NRules, b \in BOOLEAN :
         IF file = Broken \/ r \notin DOMAIN file
           THEN stage' = [stage EXCEPT ![e] = "failed"] /\ UNCHANGED <<copy, change, overlap>>
           ELSE /\ stage' = [stage EXCEPT ![e] = "loaded"]
                /\ copy' = [copy EXCEPT ![e] = [file EXCEPT ![r] = b]]
                /\ change' = [change EXCEPT ![e] = [rule |-> r, enabled |-> b]]
                /\ Enter
    BY <1>4 DEF Load
  <2>1. UNCHANGED <<file, daemon, rules, requests, intent>>
    BY <1>4 DEF Load
  <2>2. CASE file = Broken \/ r \notin DOMAIN file
    BY <2>1, <2>2
  <2>3. CASE ~(file = Broken \/ r \notin DOMAIN file)
    <3>1. [file EXCEPT ![r] = b] \in Contents
      <4>1. file \in Contents /\ r \in Int
        BY <2>3
      <4>. QED BY <4>1, ContentShapes
    <3>2. [rule |-> r, enabled |-> b] \in [rule : 0..NRules, enabled : BOOLEAN]
      OBVIOUS
    <3>3. overlap' \in BOOLEAN
      BY <2>3 DEF Enter
    <3>4. copy' \in [Editors -> Contents]
      BY <2>3, <3>1
    <3>5. change' \in [Editors -> [rule : 0..NRules, enabled : BOOLEAN]]
      BY <2>3, <3>2
    <3>6. stage' \in [Editors -> Stages]
      BY <2>3
    <3>. QED BY <2>1, <3>3, <3>4, <3>5, <3>6
  <2>. QED BY <2>2, <2>3
<1>5. ASSUME NEW e \in Editors, Truncate(e) PROVE TypeOK'
  BY <1>5 DEF Truncate
<1>6. ASSUME NEW e \in Editors, Flush(e) PROVE TypeOK'
  BY <1>6 DEF Flush
<1>7. ASSUME NEW e \in Editors, Close(e) PROVE TypeOK'
  <2>1. file' \in Contents \cup {Broken}
    BY <1>7 DEF Close
  <2>2. change[e].rule \in Int /\ change[e].enabled \in BOOLEAN
    OBVIOUS
  <2>3. intent' \in Contents \cup {Broken}
    BY <1>7, <2>2 DEF Close
  <2>. QED BY <1>7, <2>1, <2>3 DEF Close
<1>8. ASSUME NEW e \in Editors, Save(e) PROVE TypeOK'
  BY <1>8 DEF Save, Enter
<1>9. ASSUME NEW e \in Editors, Validate(e) PROVE TypeOK'
  BY <1>9 DEF Validate
<1>10. ASSUME NEW e \in Editors, Push(e) PROVE TypeOK'
  BY <1>10 DEF Push, Answer
<1>11. ASSUME NEW e \in Editors, GiveUp(e) PROVE TypeOK'
  BY <1>11 DEF GiveUp, Answer
<1>12. ASSUME NEW e \in Editors, Reload(e) PROVE TypeOK'
  BY <1>12 DEF Reload
<1>13. ASSUME NEW e \in Editors, EditorDies(e) PROVE TypeOK'
  BY <1>13 DEF EditorDies
<1>14. CASE UNCHANGED vars
  BY <1>14 DEF vars
<1>. QED
  BY <1>1, <1>2, <1>3, <1>4, <1>5, <1>6, <1>7, <1>8, <1>9, <1>10, <1>11, <1>12, <1>13,
     <1>14 DEF Next

-----------------------------------------------------------------------------
(* What a daemon that is behind is owed.  Every change of the file leaves  *)
(* its command at a stage that owes a reload, and a reload pays whatever   *)
(* is owed at that moment.                                                 *)
Owing == {"open", "edited", "saved", "missed", "died"}

LEMMA CurrentStep ==
    TypeOK /\ CurrentUnlessMissed /\ [Next]_vars => CurrentUnlessMissed'
<1>. SUFFICES ASSUME TypeOK, CurrentUnlessMissed, [Next]_vars,
                     daemon' # "stopped", file' # Broken, rules' # file'
              PROVE  (\E f \in Editors : stage'[f] \in Owing) \/ requests' # {}
  BY DEF CurrentUnlessMissed, Owing
<1>. USE DEF Owing
<1>a. (daemon # "stopped" /\ file # Broken /\ rules # file)
         => (\E f \in Editors : stage[f] \in Owing) \/ requests # {}
  BY DEF CurrentUnlessMissed
<1>b. stage \in [Editors -> Stages]
  BY DEF TypeOK
<1>1. CASE Boot
  BY <1>1 DEF Boot
<1>2. CASE Listen
  BY <1>2, <1>a DEF Listen
<1>3. CASE StopDaemon
  BY <1>3 DEF StopDaemon
<1>4. ASSUME NEW e \in Editors, Load(e)
      PROVE  (\E f \in Editors : stage'[f] \in Owing) \/ requests' # {}
  <2>1. stage[e] = "idle" /\ UNCHANGED <<file, daemon, rules, requests>>
    BY <1>4 DEF Load
  <2>2. \A f \in Editors \ {e} : stage'[f] = stage[f]
    BY <1>4, <1>b DEF Load
  <2>. QED BY <2>1, <2>2, <1>a
<1>5. ASSUME NEW e \in Editors, Truncate(e) PROVE stage'[e] \in Owing
  BY <1>5, <1>b DEF Truncate
<1>6. ASSUME NEW e \in Editors, Flush(e) PROVE stage'[e] \in Owing
  BY <1>6, <1>b DEF Flush
<1>7. ASSUME NEW e \in Editors, Close(e) PROVE stage'[e] \in Owing
  BY <1>7, <1>b DEF Close
<1>8. ASSUME NEW e \in Editors, Save(e) PROVE stage'[e] \in Owing
  BY <1>8, <1>b DEF Save
<1>9. ASSUME NEW e \in Editors, Validate(e) PROVE stage'[e] \in Owing
  BY <1>9, <1>b DEF Validate
<1>10. ASSUME NEW e \in Editors, Push(e)
       PROVE  (\E f \in Editors : stage'[f] \in Owing) \/ requests' # {}
  BY <1>10, <1>b DEF Push, Answer
<1>11. ASSUME NEW e \in Editors, GiveUp(e)
       PROVE  (\E f \in Editors : stage'[f] \in Owing) \/ requests' # {}
  <2>1. stage[e] = "sent" /\ UNCHANGED <<file, daemon, rules, requests>>
    BY <1>11 DEF GiveUp
  <2>2. \A f \in Editors \ {e} : stage'[f] = stage[f]
    BY <1>11, <1>b DEF GiveUp, Answer
  <2>. QED BY <2>1, <2>2, <1>a
<1>12. ASSUME NEW e \in Editors, Reload(e) PROVE FALSE
  BY <1>12 DEF Reload
<1>13. ASSUME NEW e \in Editors, EditorDies(e) PROVE stage'[e] \in Owing
  BY <1>13, <1>b DEF EditorDies
<1>14. CASE UNCHANGED vars
  BY <1>14, <1>a DEF vars
<1>. QED
  BY <1>1, <1>2, <1>3, <1>4, <1>5, <1>6, <1>7, <1>8, <1>9, <1>10, <1>11, <1>12, <1>13,
     <1>14 DEF Next

-----------------------------------------------------------------------------
(* A step of e that moves only e: from one stage to another, everyone else *)
(* where they were, and nothing that the commands write touched.           *)
LEMMA InTurnQuiet ==
    ASSUME TypeOK, AsAsked, InTurn, NEW e \in Editors,
           stage[e] # "open", ~Writing(e)', stage'[e] # "open",
           \A f \in Editors \ {e} : stage'[f] = stage[f],
           stage[e] = "died" => stage'[e] = "died",
           UNCHANGED <<file, copy, change, history>>
    PROVE  AsAsked' /\ InTurn'
<1>1. Clean' => Clean
  BY DEF Clean, history
<1>2. \A f \in Editors : Writing(f)' => Writing(f)
  BY DEF Writing
<1>3. \A f \in Editors : Faithful(f) => Faithful(f)'
  BY <1>2 DEF Faithful, history
<1>4. InTurn'
  BY <1>1, <1>2, <1>3 DEF InTurn
<1>5. AsAsked'
  BY <1>1 DEF AsAsked, history
<1>. QED BY <1>4, <1>5

(* A step that moves no command.                                           *)
LEMMA InTurnStill ==
    ASSUME AsAsked, InTurn, UNCHANGED <<file, stage, copy, change, history>>
    PROVE  AsAsked' /\ InTurn'
BY DEF AsAsked, InTurn, Clean, Writing, Faithful, history

LEMMA InTurnLoad ==
    ASSUME TypeOK, AsAsked, InTurn, NEW e \in Editors, Load(e)
    PROVE  AsAsked' /\ InTurn'
<1>. PICK r \in 1..NRules, b \in BOOLEAN :
       IF file = Broken \/ r \notin DOMAIN file
         THEN stage' = [stage EXCEPT ![e] = "failed"] /\ UNCHANGED <<copy, change, overlap>>
         ELSE /\ stage' = [stage EXCEPT ![e] = "loaded"]
              /\ copy' = [copy EXCEPT ![e] = [file EXCEPT ![r] = b]]
              /\ change' = [change EXCEPT ![e] = [rule |-> r, enabled |-> b]]
              /\ Enter
  BY DEF Load
<1>1. stage[e] = "idle" /\ UNCHANGED <<file, intent>>
  BY DEF Load
<1>2. stage \in [Editors -> Stages] /\ copy \in [Editors -> Contents]
      /\ change \in [Editors -> [rule : 0..NRules, enabled : BOOLEAN]]
  BY DEF TypeOK
<1>3. CASE file = Broken \/ r \notin DOMAIN file
  BY <1>1, <1>2, <1>3, InTurnQuiet DEF Writing, history
<1>4. CASE ~(file = Broken \/ r \notin DOMAIN file)
  <2>1. stage'[e] = "loaded" /\ \A f \in Editors \ {e} : stage'[f] = stage[f]
    BY <1>2, <1>4
  <2>2. Clean' => Clean /\ \A f \in Editors : ~Writing(f)
    BY <1>1, <1>4, <2>1 DEF Clean, Enter
  <2>3. Clean => file = intent \/ \E f \in Editors : Writing(f)
    BY DEF AsAsked, Writing
  <2>4. Clean' => Faithful(e)'
    <3>1. copy'[e] = [file EXCEPT ![r] = b] /\ change'[e] = [rule |-> r, enabled |-> b]
      BY <1>2, <1>4
    <3>. QED BY <1>1, <1>4, <2>2, <2>3, <3>1 DEF Faithful
  <2>5. Clean' => \A f \in Editors \ {e} : ~Writing(f)'
    BY <2>1, <2>2 DEF Writing
  <2>6. InTurn'
    BY <2>4, <2>5 DEF InTurn, Faithful
  <2>7. AsAsked'
    BY <1>1, <2>2, <2>3 DEF AsAsked
  <2>. QED BY <2>6, <2>7
<1>. QED BY <1>3, <1>4

(* The whole content that a command writes back is what was asked for.     *)
LEMMA InTurnClose ==
    ASSUME TypeOK, AsAsked, InTurn, NEW e \in Editors, Close(e)
    PROVE  AsAsked' /\ InTurn'
<1>1. stage[e] = "open" /\ stage' = [stage EXCEPT ![e] = "saved"]
      /\ UNCHANGED <<copy, change, overlap>>
  BY DEF Close
<1>2. stage'[e] = "saved" /\ \A f \in Editors \ {e} : stage'[f] = stage[f]
  BY <1>1 DEF TypeOK
<1>3. Clean' => Clean
  BY <1>1, <1>2 DEF Clean
<1>4. Clean => /\ \A f \in Editors \ {e} : ~Writing(f)
               /\ intent # Broken
               /\ copy[e] = [intent EXCEPT ![change[e].rule] = change[e].enabled]
  BY <1>1 DEF InTurn, Faithful, Writing
<1>5. Clean => file' = intent'
  <2>1. Clean => file' = copy[e]
    BY <1>4 DEF Close, Writing
  <2>. QED BY <1>4, <2>1 DEF Close
<1>6. Clean' => \A f \in Editors : ~Writing(f)'
  BY <1>2, <1>3, <1>4 DEF Writing
<1>. QED BY <1>3, <1>5, <1>6 DEF AsAsked, InTurn, Faithful

LEMMA InTurnSave ==
    ASSUME TypeOK, AsAsked, InTurn, NEW e \in Editors, Save(e)
    PROVE  AsAsked' /\ InTurn'
<1>1. stage' = [stage EXCEPT ![e] = "edited"] /\ intent' = file' /\ Enter
  BY DEF Save
<1>2. stage'[e] = "edited" /\ \A f \in Editors \ {e} : stage'[f] = stage[f]
  BY <1>1 DEF TypeOK
<1>3. Clean' => \A f \in Editors : ~Writing(f)
  BY <1>1 DEF Clean, Enter
<1>4. Clean' => \A f \in Editors : ~Writing(f)'
  BY <1>2, <1>3 DEF Writing
<1>. QED BY <1>1, <1>4 DEF AsAsked, InTurn, Faithful

LEMMA InTurnStep == TypeOK /\ AsAsked /\ InTurn /\ [Next]_vars => AsAsked' /\ InTurn'
<1>. SUFFICES ASSUME TypeOK, AsAsked, InTurn, [Next]_vars PROVE AsAsked' /\ InTurn'
  OBVIOUS
<1>a. stage \in [Editors -> Stages]
  BY DEF TypeOK
<1>1. CASE Boot \/ Listen \/ StopDaemon \/ UNCHANGED vars
  <2>1. UNCHANGED <<file, stage, copy, change, history>>
    BY <1>1 DEF Boot, Listen, StopDaemon, vars
  <2>. QED BY <2>1, InTurnStill
<1>2. ASSUME NEW e \in Editors, Load(e) PROVE AsAsked' /\ InTurn'
  BY <1>2, InTurnLoad
<1>3. ASSUME NEW e \in Editors, Truncate(e) \/ Flush(e) PROVE AsAsked' /\ InTurn'
  <2>1. /\ stage[e] \in {"loaded", "open"} /\ stage'[e] = "open"
        /\ \A f \in Editors \ {e} : stage'[f] = stage[f]
        /\ UNCHANGED <<copy, change, history>>
    BY <1>3, <1>a DEF Truncate, Flush
  <2>2. \A f \in Editors : Writing(f)' <=> Writing(f)
    BY <2>1 DEF Writing
  <2>3. Clean' => Clean
    BY <2>1 DEF Clean, history
  <2>4. InTurn'
    BY <2>1, <2>2, <2>3 DEF InTurn, Faithful, history
  <2>. QED BY <2>1, <2>4 DEF AsAsked
<1>4. ASSUME NEW e \in Editors, Close(e) PROVE AsAsked' /\ InTurn'
  BY <1>4, InTurnClose
<1>5. ASSUME NEW e \in Editors, Save(e) PROVE AsAsked' /\ InTurn'
  BY <1>5, InTurnSave
<1>6. ASSUME NEW e \in Editors, Validate(e) \/ Push(e) \/ GiveUp(e) PROVE AsAsked' /\ InTurn'
  <2>1. /\ stage[e] \in {"edited", "saved", "sent"}
        /\ stage'[e] \in {"failed", "saved", "sent", "missed", "offline", "timedout"}
        /\ \A f \in Editors \ {e} : stage'[f] = stage[f]
        /\ UNCHANGED <<file, copy, change, history>>
    BY <1>6, <1>a DEF Validate, Push, GiveUp, Answer
  <2>. QED BY <2>1, InTurnQuiet DEF Writing
<1>7. ASSUME NEW e \in Editors, Reload(e) PROVE AsAsked' /\ InTurn'
  <2>1. CASE stage[e] # "sent"
    BY <1>7, <2>1, InTurnStill DEF Reload
  <2>2. CASE stage[e] = "sent"
    <3>1. /\ stage'[e] \in {"rejected", "reloaded"}
          /\ \A f \in Editors \ {e} : stage'[f] = stage[f]
          /\ UNCHANGED <<file, copy, change, history>>
      BY <1>7, <2>2, <1>a DEF Reload
    <3>. QED BY <2>2, <3>1, InTurnQuiet DEF Writing
  <2>. QED BY <2>1, <2>2
<1>8. ASSUME NEW e \in Editors, EditorDies(e) PROVE AsAsked' /\ InTurn'
  <2>1. stage'[e] = "died"
    BY <1>8, <1>a DEF EditorDies
  <2>. QED BY <2>1 DEF AsAsked, InTurn, Clean
<1>. QED
  BY <1>1, <1>2, <1>3, <1>4, <1>5, <1>6, <1>7, <1>8 DEF Next

-----------------------------------------------------------------------------
(* Everything together is inductive.                                       *)
THEOREM AllHold == Spec => []Inductive
<1>1. Init => Inductive
  <2>. SUFFICES ASSUME Init PROVE Inductive
    OBVIOUS
  <2>1. \A e \in Editors : ~Writing(e)
    BY DEF Init, Writing
  <2>2. CurrentUnlessMissed /\ AsAsked /\ InTurn
    BY <2>1 DEF Init, CurrentUnlessMissed, AsAsked, InTurn, Faithful
  <2>. QED BY <2>2, TypeInit DEF Inductive
<1>2. Inductive /\ [Next]_vars => Inductive'
  BY TypeStep, CurrentStep, InTurnStep DEF Inductive
<1>. QED BY <1>1, <1>2, PTL DEF Spec

(* load_rules and the reload handler: what the daemon uses always loads.   *)
THEOREM TypeStaysOK == Spec => []TypeOK
<1>1. Inductive => TypeOK
  BY DEF Inductive
<1>. QED BY <1>1, AllHold, PTL

(* _push_reload and the start of the daemon: rules that are not the file's *)
(* are owed to a named command.                                            *)
THEOREM CurrentUnlessMissedHolds == Spec => []CurrentUnlessMissed
<1>1. Inductive => CurrentUnlessMissed
  BY DEF Inductive
<1>. QED BY <1>1, AllHold, PTL

(* _set_enabled: commands that come one after the other, and live to the   *)
(* end, leave the file as they were asked to.                              *)
THEOREM AsAskedHolds == Spec => []AsAsked
<1>1. Inductive => AsAsked
  BY DEF Inductive
<1>. QED BY <1>1, AllHold, PTL

=============================================================================
