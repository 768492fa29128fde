-------------------------- MODULE Settlement_proofs --------------------------
(* What the promise of module Settlement comes to, whoever keeps it.        *)
EXTENDS Settlement, TLAPS

(* What is acknowledged is a prefix of what was created, and the first      *)
(* acknowledgement is where it starts.                                      *)
PrefixInv ==
    /\ created \in Nat /\ acknowledged \in Int /\ first \in Int
    /\ acknowledged <= created /\ first <= acknowledged
    /\ (first = Nothing) <=> (acknowledged = Nothing)
    /\ first \in Nat \cup {Nothing} /\ acknowledged \in Nat \cup {Nothing}

(* Nothing of the acknowledged prefix that is still in the Inbox is left    *)
(* undone, ever: not only at the moment of the acknowledgement.             *)
NothingLeftBehind ==
    \A m \in inbox : first < m /\ m <= acknowledged => m \in settled \cup waived

LEMMA PromiseInit ==
  ASSUME NMessages \in Nat, Init
  PROVE  PrefixInv /\ NothingLeftBehind
BY DEF Init, PrefixInv, NothingLeftBehind, Nothing

LEMMA PromiseStep ==
  ASSUME PrefixInv, NothingLeftBehind, [Next]_vars
  PROVE  PrefixInv' /\ NothingLeftBehind'
<1> USE DEF PrefixInv, NothingLeftBehind, Nothing
<1>1. CASE Arrive
  BY <1>1 DEF Arrive
<1>5. CASE Reopen
  BY <1>5 DEF Reopen
<1>2. ASSUME NEW m \in Messages, Leave(m) \/ Act(m) \/ Settle(m) \/ Waive(m)
      PROVE  PrefixInv' /\ NothingLeftBehind'
  BY <1>2 DEF Leave, Act, Settle, Waive
<1>3. ASSUME NEW s \in 0..created, Acknowledge(s)
      PROVE  PrefixInv' /\ NothingLeftBehind'
  BY <1>3 DEF Acknowledge
<1>4. CASE UNCHANGED vars
  BY <1>4 DEF vars
<1> QED
  BY <1>1, <1>2, <1>3, <1>4, <1>5 DEF Next

(* Whoever keeps the promise loses nothing: for any number of messages the  *)
(* acknowledged part of the Inbox is done or waived at every moment, not    *)
(* only when it is acknowledged (loop.py: a batch is acknowledged after its *)
(* last message).                                                           *)
THEOREM PromiseHolds ==
  ASSUME NMessages \in Nat
  PROVE  Spec => []NothingLeftBehind
<1>1. Init => PrefixInv /\ NothingLeftBehind
  BY PromiseInit
<1>2. PrefixInv /\ NothingLeftBehind /\ [Next]_vars => PrefixInv' /\ NothingLeftBehind'
  BY PromiseStep
<1> QED
  BY <1>1, <1>2, PTL DEF Spec

(* A step takes nothing back: what is acknowledged or settled stays so, and *)
(* what is waived once it is acknowledged; the start of the history stays   *)
(* where it is, and nothing more is done to what was settled.               *)
Forward ==
    /\ acknowledged <= acknowledged' /\ settled \subseteq settled'
    /\ \A m \in waived : m <= acknowledged => m \in waived'
    /\ first # Nothing => first' = first
    /\ \A m \in settled : acted'[m] = acted[m]
NothingTakenBack == [][Forward]_vars

ActedInv == acted \in [Messages -> Int] /\ settled \subseteq Messages

LEMMA ForwardStep ==
  ASSUME PrefixInv, ActedInv, [Next]_vars
  PROVE  ActedInv' /\ [Forward]_vars
<1> USE DEF PrefixInv, ActedInv, Forward
<1>1. CASE Arrive
  BY <1>1 DEF Arrive
<1>6. CASE Reopen
  BY <1>6 DEF Reopen
<1>2. ASSUME NEW m \in Messages, Leave(m) \/ Settle(m) \/ Waive(m)
      PROVE  /\ UNCHANGED <<acknowledged, first, acted>>
             /\ settled \subseteq settled' /\ waived \subseteq waived'
             /\ ActedInv'
  BY <1>2 DEF Leave, Settle, Waive
<1>5. ASSUME NEW m \in Messages, Act(m)
      PROVE  /\ UNCHANGED <<acknowledged, first, settled, waived>>
             /\ \A x \in settled : acted'[x] = acted[x]
             /\ ActedInv'
  BY <1>5 DEF Act
<1>3. ASSUME NEW s \in 0..created, Acknowledge(s)
      PROVE  /\ acknowledged <= acknowledged' /\ (first # Nothing => first' = first)
             /\ UNCHANGED <<settled, waived, acted>>
  BY <1>3 DEF Acknowledge
<1>4. CASE UNCHANGED vars
  BY <1>4 DEF vars
<1> QED
  BY <1>1, <1>2, <1>3, <1>4, <1>5, <1>6 DEF Next

(* And takes nothing back: acknowledging and settling are for good, so is   *)
(* waiving what is acknowledged, and what is settled is not acted on again. *)
THEOREM PromiseIsFinal ==
  ASSUME NMessages \in Nat
  PROVE  Spec => NothingTakenBack
<1>1. Init => PrefixInv /\ NothingLeftBehind /\ ActedInv
  BY PromiseInit DEF Init, ActedInv
<1>2. PrefixInv /\ NothingLeftBehind /\ ActedInv /\ [Next]_vars
        => PrefixInv' /\ NothingLeftBehind' /\ ActedInv'
  BY PromiseStep, ForwardStep
<1>3. PrefixInv /\ ActedInv /\ [Next]_vars => [Forward]_vars
  BY ForwardStep
<1> QED
  BY <1>1, <1>2, <1>3, PTL DEF Spec, NothingTakenBack

=============================================================================
