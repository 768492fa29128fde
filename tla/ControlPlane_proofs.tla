------------------------- MODULE ControlPlane_proofs -------------------------
(* What module ControlPlane keeps for any clients, any size of a batch and  *)
(* any number of deaths: the queue of audit events is exact, and an audited *)
(* pause holds.                                                             *)
EXTENDS ControlPlane, SequenceTheorems, TLAPS

-----------------------------------------------------------------------------
(* Three sequences in a row: an element is added at the end, moves from the *)
(* head of the second to the end of the first, or the third becomes the     *)
(* second.                                                                  *)
LEMMA AppendLast ==
  ASSUME NEW S, NEW s \in Seq(S), NEW t \in Seq(S), NEW e \in S
  PROVE  s \o Append(t, e) = Append(s \o t, e)
<1>1. Append(t, e) = t \o <<e>> /\ Append(s \o t, e) = (s \o t) \o <<e>>
  BY AppendIsConcat, ConcatProperties
<1>2. <<e>> \in Seq(S)
  OBVIOUS
<1> QED
  BY <1>1, <1>2, ConcatAssociative

LEMMA MoveHead ==
  ASSUME NEW S, NEW s \in Seq(S), NEW t \in Seq(S), t # <<>>
  PROVE  Append(s, Head(t)) \o Tail(t) = s \o t
<1>1. Head(t) \in S /\ Tail(t) \in Seq(S) /\ Len(Tail(t)) = Len(t) - 1 /\ Head(t) = t[1]
      /\ \A i \in 1..Len(Tail(t)) : Tail(t)[i] = t[i + 1]
  BY HeadTailProperties
<1>2. Append(s, Head(t)) \in Seq(S) /\ Len(Append(s, Head(t))) = Len(s) + 1
  BY <1>1
<1>3. Append(s, Head(t)) \o Tail(t) \in Seq(S) /\ s \o t \in Seq(S)
  BY <1>1, <1>2, ConcatProperties
<1>4. Len(Append(s, Head(t)) \o Tail(t)) = Len(s \o t)
  BY <1>1, <1>2, ConcatProperties, LenProperties
<1>5. ASSUME NEW i \in 1..Len(s \o t)
      PROVE  (Append(s, Head(t)) \o Tail(t))[i] = (s \o t)[i]
  BY <1>1, <1>2, ConcatProperties, LenProperties
<1> QED
  BY <1>3, <1>4, <1>5, SeqEqual

LEMMA LastOf ==
  ASSUME NEW S, NEW s \in Seq(S), NEW t \in Seq(S), t # <<>>
  PROVE  Len(s \o t) > 0 /\ (s \o t)[Len(s \o t)] = t[Len(t)]
<1>1. Len(t) \in Nat \ {0} /\ Len(s) \in Nat
  BY EmptySeq, LenProperties
<1> QED
  BY <1>1, ConcatProperties

-----------------------------------------------------------------------------
LEMMA TypeStep ==
  ASSUME TypeOK, BatchLeft, [Next]_vars
  PROVE  TypeOK'
<1> USE DEF TypeOK, Up, Knows, state, loop, clients
<1>1. CASE Launch
  <2>1. <<>> \in Seq(Clients) /\ 0 \in 0..BatchSize
    BY EmptySeq, ControlPlaneAssumption
  <2> QED
    BY <1>1, <2>1 DEF Launch, Boot
<1>2. CASE Restart
  <2>1. <<>> \in Seq(Clients) /\ 0 \in 0..BatchSize
    BY EmptySeq, ControlPlaneAssumption
  <2> QED
    BY <1>2, <2>1 DEF Restart, Boot
<1>3. CASE Die
  BY <1>3, ControlPlaneAssumption DEF Die, End
<1>4. CASE Signal
  BY <1>4 DEF Signal
<1>5. ASSUME NEW c \in Clients, Issue(c) PROVE TypeOK'
  BY <1>5 DEF Issue
<1>6. ASSUME NEW c \in Clients, GiveUp(c) PROVE TypeOK'
  BY <1>6 DEF GiveUp
<1>7. ASSUME NEW c \in Clients, Receive(c) PROVE TypeOK'
  BY <1>7 DEF Receive
<1>8. ASSUME NEW c \in Clients, Handle(c) PROVE TypeOK'
  BY <1>8 DEF Handle
<1>9. CASE Top
  <2>1. pending' \in Seq(Clients) /\ draining' \in Seq(Clients)
    BY <1>9, EmptySeq DEF Top
  <2>2. pc' \in Up
    BY <1>9 DEF Top, Decide
  <2> QED
    BY <1>9, <2>1, <2>2 DEF Top
<1>10. CASE Write
  <2>1. Head(draining) \in Clients /\ Tail(draining) \in Seq(Clients)
    BY <1>10, HeadTailProperties DEF Write
  <2> QED
    BY <1>10, <2>1 DEF Write
<1>11. CASE Drained
  BY <1>11 DEF Drained, Decide
<1>12. CASE Wake
  BY <1>12 DEF Wake
<1>13. CASE PollReturns
  BY <1>13 DEF PollReturns
<1>14. CASE TakeMessage
  BY <1>14 DEF TakeMessage
<1>15. CASE MessageDone
  BY <1>15, ControlPlaneAssumption DEF MessageDone, BatchLeft
<1>16. CASE Listen
  BY <1>16 DEF Listen
<1>17. CASE CloseSocket
  BY <1>17 DEF CloseSocket
<1>18. CASE Exit
  BY <1>18 DEF Exit, End
<1>19. CASE UNCHANGED vars
  BY <1>19 DEF vars
<1> QED
  BY <1>1, <1>2, <1>3, <1>4, <1>5, <1>6, <1>7, <1>8, <1>9, <1>10, <1>11, <1>12, <1>13, <1>14,
     <1>15, <1>16, <1>17, <1>18, <1>19 DEF Next, Loop, Server

(* The loop polls only if the flag is down.  If the log ends in a pause and *)
(* the drain is over, what brought the flag down waits in the queue.        *)
LEMMA DecideHolds ==
  ASSUME TypeOK, QueueExact, LastCommandHolds, draining = <<>>, ~paused,
         written # <<>>, written[Len(written)] \in Pauses
  PROVE  \E i \in 1..Len(pending) : pending[i] \notin Pauses
<1>1. written \o pending = handled
  BY ConcatEmptySeq DEF TypeOK, QueueExact
<1>2. pending # <<>>
  <2> SUFFICES ASSUME pending = <<>> PROVE FALSE
    OBVIOUS
  <2>1. handled = written
    BY <1>1, ConcatEmptySeq DEF TypeOK
  <2> QED
    BY <2>1 DEF LastCommandHolds
<1>3. Len(handled) > 0 /\ handled[Len(handled)] = pending[Len(pending)]
  BY <1>1, <1>2, LastOf DEF TypeOK
<1>4. Len(pending) \in 1..Len(pending) /\ handled # <<>>
  BY <1>2, <1>3, EmptySeq DEF TypeOK
<1> QED
  BY <1>3, <1>4 DEF LastCommandHolds

(* Only Handle, Boot and the drain touch what Inductive speaks of.          *)
LEMMA InductiveStep ==
  ASSUME TypeOK, Inductive, [Next]_vars
  PROVE  Inductive'
<1> USE DEF Inductive
<1>1. CASE Boot
  <2>1. (<<>> \o <<>>) \o <<>> = <<>>
    BY ConcatEmptySeq, EmptySeq
  <2> QED
    BY <1>1, <2>1 DEF Boot, QueueExact, AuditedPauseHolds, LastCommandHolds, DrainEnds,
                      BatchLeft, Acting, Up
<1>2. ASSUME NEW c \in Clients, Handle(c) PROVE Inductive'
  <2> USE DEF TypeOK, state, loop, clients
  <2>1. QueueExact'
    <3>1. written \o draining \in Seq(Clients)
      BY ConcatProperties
    <3>2. (written \o draining) \o Append(pending, c) = Append((written \o draining) \o pending, c)
      BY <3>1, AppendLast
    <3> QED
      BY <1>2, <3>2 DEF Handle, QueueExact
  <2>2. AuditedPauseHolds'
    BY <1>2 DEF Handle, AuditedPauseHolds, Acting
  <2>3. LastCommandHolds'
    <3>1. handled' # <<>> /\ handled'[Len(handled')] = c
      BY <1>2, AppendProperties, LenProperties DEF Handle
    <3> QED
      BY <1>2, <3>1 DEF Handle, LastCommandHolds
  <2>4. DrainEnds' /\ BatchLeft'
    BY <1>2 DEF Handle, DrainEnds, BatchLeft
  <2> QED
    BY <2>1, <2>2, <2>3, <2>4
<1>3. CASE Top
  <2> USE DEF TypeOK
  <2>1. CASE UNCHANGED <<pending, draining>> /\ (stopping \/ pending = <<>>)
    <3>1. QueueExact' /\ LastCommandHolds'
      BY <1>3, <2>1 DEF Top, QueueExact, LastCommandHolds
    <3>2. DrainEnds' /\ BatchLeft'
      BY <1>3, <2>1 DEF Top, Decide, DrainEnds, BatchLeft, Up
    <3>3. AuditedPauseHolds'
      BY <1>3, <2>1, DecideHolds DEF Top, Decide, DrainEnds, AuditedPauseHolds, Acting, Up
    <3> QED
      BY <3>1, <3>2, <3>3
  <2>2. CASE pc' = "drain" /\ draining' = pending /\ pending' = <<>>
    <3>1. draining = <<>>
      BY <1>3 DEF Top, DrainEnds, Up
    <3>2. written \o draining = written /\ (written \o pending) \o <<>> = written \o pending
      BY <3>1, ConcatEmptySeq, ConcatProperties
    <3>3. QueueExact'
      BY <1>3, <2>2, <3>2 DEF Top, QueueExact
    <3> QED
      BY <1>3, <2>2, <3>3 DEF Top, LastCommandHolds, DrainEnds, BatchLeft, AuditedPauseHolds,
                              Acting
  <2> QED
    BY <1>3, <2>1, <2>2 DEF Top
<1>4. CASE Write
  <2>1. Append(written, Head(draining)) \o Tail(draining) = written \o draining
    BY <1>4, MoveHead DEF Write, TypeOK
  <2> QED
    BY <1>4, <2>1 DEF Write, QueueExact, AuditedPauseHolds, LastCommandHolds, DrainEnds,
                      BatchLeft, Acting, state
<1>5. CASE Drained
  <2>1. AuditedPauseHolds'
    BY <1>5, DecideHolds DEF Drained, Decide, AuditedPauseHolds, Acting, state
  <2> QED
    BY <1>5, <2>1 DEF Drained, Decide, QueueExact, LastCommandHolds, DrainEnds, BatchLeft, state
<1>6. CASE Wake \/ PollReturns \/ TakeMessage \/ MessageDone
  <2>1. UNCHANGED <<paused, pending, handled, draining, written>>
    BY <1>6 DEF Wake, PollReturns, TakeMessage, MessageDone, state
  <2>5. QueueExact' /\ LastCommandHolds'
    BY <2>1 DEF QueueExact, LastCommandHolds
  <2>2. DrainEnds'
    BY <1>6, <2>1 DEF Wake, PollReturns, TakeMessage, MessageDone, DrainEnds, Up
  <2>3. AuditedPauseHolds'
    BY <1>6, <2>1 DEF Wake, PollReturns, TakeMessage, MessageDone, AuditedPauseHolds, Acting
  <2>4. BatchLeft'
    BY <1>6 DEF Wake, PollReturns, TakeMessage, MessageDone, BatchLeft, TypeOK, state
  <2> QED
    BY <2>5, <2>2, <2>3, <2>4
<1>7. CASE Die \/ Exit
  <2>1. UNCHANGED <<paused, pending, handled, draining, written>> /\ pc' \in {"stopped", "down"}
    BY <1>7 DEF Die, Exit, End, state
  <2> QED
    BY <2>1 DEF QueueExact, AuditedPauseHolds, LastCommandHolds, DrainEnds, BatchLeft, Acting, Up
<1>8. ASSUME UNCHANGED <<state, loop>> PROVE Inductive'
  BY <1>8 DEF state, loop, QueueExact, AuditedPauseHolds, LastCommandHolds, DrainEnds,
              BatchLeft, Acting
<1>9. CASE Signal \/ Listen \/ CloseSocket \/ UNCHANGED vars
           \/ \E c \in Clients : Issue(c) \/ GiveUp(c) \/ Receive(c)
  <2>1. UNCHANGED <<state, loop>>
    BY <1>9 DEF Signal, Listen, CloseSocket, Issue, GiveUp, Receive, vars
  <2> QED
    BY <2>1, <1>8
<1> QED
  <2>1. Launch \/ Restart => Boot
    BY DEF Launch, Restart
  <2>2. ASSUME NEW c \in Clients, Issue(c) \/ GiveUp(c) \/ Receive(c) \/ Handle(c)
        PROVE  Inductive'
    BY <2>2, <1>2, <1>9
  <2>3. CASE Loop \/ Server
    BY <2>3, <1>3, <1>4, <1>5, <1>6, <1>7, <1>9 DEF Loop, Server
  <2> HIDE DEF Inductive
  <2> QED
    BY <2>1, <2>2, <2>3, <1>1, <1>7, <1>9 DEF Next

-----------------------------------------------------------------------------
LEMMA Initially == Init => TypeOK /\ Inductive
<1>1. (<<>> \o <<>>) \o <<>> = <<>> /\ <<>> \in Seq(Clients) /\ 0 \in 0..BatchSize
      /\ 0 \in 0..MaxDeaths
  BY ConcatEmptySeq, EmptySeq, ControlPlaneAssumption
<1>2. Init => TypeOK
  BY <1>1 DEF Init, TypeOK, Knows
<1>3. Init => Inductive
  BY <1>1 DEF Init, Inductive, QueueExact, AuditedPauseHolds, LastCommandHolds, DrainEnds,
              BatchLeft, Acting, Up
<1> QED
  BY <1>2, <1>3

(* The types, the queue and the pause together: each needs the others in    *)
(* the state before (the code of the drain and of the IPC handlers).        *)
THEOREM AllHold == Spec => [](TypeOK /\ Inductive)
<1>1. TypeOK /\ Inductive /\ [Next]_vars => TypeOK' /\ Inductive'
  BY TypeStep, InductiveStep DEF Inductive
<1> QED
  BY Initially, <1>1, PTL DEF Spec

(* Every pause and resume is queued, drained and written once, in order, in *)
(* whatever interleaving of the IPC handlers with the drain.                *)
THEOREM QueueStaysExact == Spec => []QueueExact
  BY AllHold, PTL DEF Inductive

(* While the audit log ends in a pause and no resume is queued, the loop    *)
(* neither polls nor processes a message.                                   *)
THEOREM AuditedPauseStays == Spec => []AuditedPauseHolds
  BY AllHold, PTL DEF Inductive

-----------------------------------------------------------------------------
(* What happens in the end.  The way of the loop is a graph of finitely     *)
(* many places, and fairness takes it along each edge; a drain and a batch  *)
(* are loops in that graph, and that they end is an induction on a length   *)
(* and on a count: a hypothesis below.                                      *)
Kept == TypeOK /\ Inductive
At(p) == pc = p
IsUp == pc \in Up
Halting == stopping
Shorter == draining # <<>> /\ draining' = Tail(draining)
Fewer == left > 0 /\ left' = left - 1
NoEndlessDrain == ~<>([][Shorter]_draining /\ []<><<Shorter>>_draining)
NoEndlessBatch == ~<>([][Fewer]_left /\ []<><<Fewer>>_left)

Waiting(c)  == \E i \in 1..Len(pending) : pending[i] = c
Draining(c) == \E i \in 1..Len(draining) : draining[i] = c
Logged(c)   == Audited(c)

(* A process that stays up takes a step of its loop, or the loop's state    *)
(* stays and the queue can only grow.                                       *)
LEMMA UpStep ==
  ASSUME [Next]_vars, IsUp, IsUp'
  PROVE  /\ stopping => stopping'
         /\ \/ Loop
            \/ UNCHANGED loop /\ (pending' = pending \/ \E c \in Clients : pending' = Append(pending, c))
<1>1. ~Launch /\ ~Restart /\ ~Die /\ ~Exit
  BY DEF IsUp, Launch, Restart, Die, Exit, End, Up
<1>2. CASE Signal \/ Listen \/ CloseSocket \/ UNCHANGED vars
           \/ \E c \in Clients : Issue(c) \/ GiveUp(c) \/ Receive(c) \/ Handle(c)
  BY <1>2 DEF Signal, Listen, CloseSocket, Issue, GiveUp, Receive, Handle, vars, state
<1>3. CASE Loop
  BY <1>3 DEF Loop, Top, Write, Drained, Wake, PollReturns, TakeMessage, MessageDone
<1> QED
  BY <1>1, <1>2, <1>3 DEF Next, Server

(* The edges of the loop.                                                   *)
LEMMA LoopStep ==
  ASSUME Kept, Loop
  PROVE  /\ At("top") => IF stopping THEN At("returned")' ELSE At("drain")' \/ At("sleep")' \/ At("poll")'
         /\ At("drain") => (At("drain")' /\ <<Shorter>>_draining) \/ At("sleep")' \/ At("poll")'
         /\ At("sleep") => At("top")'
         /\ At("poll") => At("sleep")' \/ At("batch")'
         /\ At("batch") => \/ At("top")'
                           \/ stopping /\ At("returned")'
                           \/ ~stopping /\ At("working")' /\ left' = left
         /\ At("working") => At("batch")' /\ <<Fewer>>_left
         /\ ~At("returned")
<1>1. CASE At("top")
  BY <1>1 DEF Loop, At, Top, Decide, Write, Drained, Wake, PollReturns, TakeMessage, MessageDone
<1>2. CASE At("drain")
  <2>1. CASE Write
    <3>1. Len(Tail(draining)) = Len(draining) - 1 /\ Len(draining) \in Nat
      BY <2>1, HeadTailProperties, LenProperties DEF Write, Kept, TypeOK
    <3>2. Tail(draining) # draining
      BY <3>1
    <3> QED
      BY <1>2, <2>1, <3>2 DEF Write, At, Shorter
  <2>2. CASE Drained
    BY <1>2, <2>2 DEF Drained, At, Decide
  <2> QED
    BY <1>2, <2>1, <2>2 DEF Loop, At, Top, Wake, PollReturns, TakeMessage, MessageDone
<1>3. CASE At("sleep") \/ At("poll") \/ At("batch")
  BY <1>3 DEF Loop, At, Top, Write, Drained, Wake, PollReturns, TakeMessage, MessageDone
<1>4. CASE At("working")
  <2>1. MessageDone
    BY <1>4 DEF Loop, At, Top, Write, Drained, Wake, PollReturns, TakeMessage
  <2>2. left > 0 /\ left \in Nat
    BY <1>4, ControlPlaneAssumption DEF At, Kept, TypeOK, Inductive, BatchLeft
  <2> QED
    BY <1>4, <2>1, <2>2 DEF MessageDone, At, Fewer
<1>5. ~At("returned")
  BY DEF Loop, At, Top, Write, Drained, Wake, PollReturns, TakeMessage, MessageDone
<1> QED
  BY <1>1, <1>2, <1>3, <1>4, <1>5 DEF At

(* The same, of any step of a process that stays up.                        *)
LEMMA Edges ==
  ASSUME Kept, [Next]_vars, IsUp, IsUp'
  PROVE  /\ At("top") => At("top")' \/ IF stopping THEN At("returned")' ELSE At("drain")' \/ At("sleep")' \/ At("poll")'
         /\ At("drain") => (At("drain")' /\ [Shorter]_draining) \/ At("sleep")' \/ At("poll")'
         /\ At("sleep") => At("sleep")' \/ At("top")'
         /\ At("poll") => At("poll")' \/ At("sleep")' \/ At("batch")'
         /\ At("batch") => \/ At("batch")' /\ left' = left
                           \/ At("top")'
                           \/ stopping /\ At("returned")'
                           \/ ~stopping /\ At("working")' /\ left' = left
         /\ At("working") => (At("working")' /\ left' = left) \/ (At("batch")' /\ <<Fewer>>_left)
         /\ At("returned") => At("returned")'
<1>1. CASE Loop
  BY <1>1, LoopStep
<1>2. CASE UNCHANGED loop
  BY <1>2 DEF loop, At
<1> QED
  BY <1>1, <1>2, UpStep

(* After the loop has returned, the server closes its socket and the        *)
(* process ends.                                                            *)
LEMMA ServerEdges ==
  ASSUME Kept, At("returned"), stopping
  PROVE  /\ [Next]_vars /\ server = "closed" => server' = "closed" \/ ~IsUp'
         /\ <<Server>>_vars /\ server # "closed" => server' = "closed"
         /\ <<Server>>_vars /\ server = "closed" => ~IsUp'
<1>1. ASSUME Server
      PROVE  IF server = "closed" THEN ~IsUp' ELSE server' = "closed"
  BY <1>1 DEF Server, Listen, CloseSocket, Exit, End, IsUp, Up, Kept, TypeOK
<1>2. ASSUME [Next]_vars, server = "closed" PROVE server' = "closed" \/ ~IsUp'
  <2>1. CASE Server
    BY <1>1, <1>2, <2>1
  <2>2. CASE Loop
    BY <2>2, LoopStep
  <2>3. ~Launch /\ ~Restart
    BY DEF At, Launch, Restart
  <2>4. CASE Die
    BY <2>4 DEF Die, End, IsUp, Up
  <2>5. CASE Signal \/ UNCHANGED vars \/ \E c \in Clients : Issue(c) \/ GiveUp(c) \/ Receive(c) \/ Handle(c)
    BY <1>2, <2>5 DEF Signal, Issue, GiveUp, Receive, Handle, vars
  <2> QED
    BY <1>2, <2>1, <2>2, <2>3, <2>4, <2>5 DEF Next
<1> QED
  BY <1>1, <1>2

Closed == server = "closed"

(* A stop ends the process: the loop returns at the next message or at the  *)
(* next turn, paused or not, and the server then lets it go.                *)
THEOREM StopEndsProcess ==
  FairSpec /\ []NeverStuck /\ NoEndlessDrain => StopStops
<1>1. Kept /\ [Next]_vars /\ IsUp /\ Halting => ~IsUp' \/ Halting'
  BY UpStep DEF Halting
<1>2. Kept /\ [Next]_vars /\ IsUp /\ Halting =>
        /\ At("top") => At("top")' \/ At("returned")' \/ ~IsUp'
        /\ At("drain") => At("drain")' \/ At("sleep")' \/ At("poll")' \/ ~IsUp'
        /\ At("drain") /\ At("drain")' => [Shorter]_draining \/ ~IsUp'
        /\ At("sleep") => At("sleep")' \/ At("top")' \/ ~IsUp'
        /\ At("poll") => At("poll")' \/ At("sleep")' \/ At("batch")' \/ ~IsUp'
        /\ At("batch") => At("batch")' \/ At("top")' \/ At("returned")' \/ ~IsUp'
        /\ At("working") => At("working")' \/ At("batch")' \/ ~IsUp'
        /\ At("returned") => At("returned")' \/ ~IsUp'
  BY Edges DEF Halting, At
<1>3. Kept /\ <<Loop>>_vars /\ Halting =>
        /\ At("top") => At("returned")'
        /\ At("drain") => <<Shorter>>_draining \/ At("sleep")' \/ At("poll")'
        /\ At("sleep") => At("top")'
        /\ At("poll") => At("sleep")' \/ At("batch")'
        /\ At("batch") => At("top")' \/ At("returned")'
        /\ At("working") => At("batch")'
  BY LoopStep DEF Halting
<1>4. Kept /\ At("returned") /\ Halting =>
        /\ [Next]_vars /\ Closed => Closed' \/ ~IsUp'
        /\ <<Server>>_vars => Closed' \/ ~IsUp'
        /\ <<Server>>_vars /\ Closed => ~IsUp'
  BY ServerEdges DEF Halting, Closed
<1>5. /\ IsUp <=> pc \in Up
      /\ ~IsUp <=> pc \notin Up
      /\ IsUp => At("top") \/ At("drain") \/ At("sleep") \/ At("poll") \/ At("batch")
                   \/ At("working") \/ At("returned")
      /\ IsUp /\ ~At("returned") => pc \in Up \ {"returned"}
      /\ At("returned") /\ Halting => pc = "returned" /\ stopping
      /\ At("returned") => ~At("top") /\ ~At("drain") /\ ~At("sleep") /\ ~At("poll") /\ ~At("batch") /\ ~At("working")
      /\ At("drain") => ~At("sleep") /\ ~At("poll") /\ ~At("top")
      /\ At("sleep") => ~At("top") /\ ~At("poll")
      /\ At("batch") => ~At("top") /\ ~At("poll") /\ ~At("working")
      /\ stopping <=> Halting
  BY DEF IsUp, At, Up, Halting
<1>6. Spec => []Kept
  BY AllHold, PTL DEF Kept
<1> DEFINE Fair == []Kept /\ [][Next]_vars /\ WF_vars(Loop) /\ WF_vars(Server)
                     /\ []NeverStuck /\ NoEndlessDrain
<1>7. Fair /\ []IsUp /\ []Halting /\ ~At("returned") => <>At("returned")
  BY <1>2, <1>3, <1>5, PTL DEF NeverStuck, NoEndlessDrain
<1>8. Fair /\ []IsUp /\ []Halting /\ At("returned") => FALSE
  BY <1>2, <1>4, <1>5, PTL DEF NeverStuck
<1>9. FairSpec /\ []NeverStuck /\ NoEndlessDrain => []Fair
  BY <1>6, PTL DEF FairSpec, Spec, NoEndlessDrain
<1> HIDE DEF Fair
<1> QED
  BY <1>1, <1>5, <1>6, <1>7, <1>8, <1>9, PTL DEF FairSpec, Spec, StopStops

-----------------------------------------------------------------------------
(* The way of one command: obeyed, it is in the queue, in the list the loop *)
(* drains, or in the log.                                                   *)
LEMMA ObeyedIsSomewhere ==
  ASSUME Kept, NEW c \in Clients, Obeyed(c)
  PROVE  Logged(c) \/ Draining(c) \/ Waiting(c)
<1> USE DEF Kept, TypeOK, Inductive
<1>1. PICK i \in 1..Len(handled) : handled[i] = c
  BY DEF Obeyed
<1>2. written \o draining \in Seq(Clients) /\ Len(written \o draining) = Len(written) + Len(draining)
      /\ Len(handled) = Len(written) + Len(draining) + Len(pending)
  BY ConcatProperties, LenProperties DEF QueueExact
<1>3. Len(written) \in Nat /\ Len(draining) \in Nat /\ Len(pending) \in Nat /\ i \in Nat
  BY LenProperties
<1>4. CASE i <= Len(written)
  <2>1. handled[i] = (written \o draining)[i] /\ (written \o draining)[i] = written[i]
    BY <1>2, <1>3, <1>4, ConcatProperties DEF QueueExact
  <2> QED
    BY <1>1, <1>3, <1>4, <2>1 DEF Logged, Audited
<1>5. CASE Len(written) < i /\ i <= Len(written) + Len(draining)
  <2>1. handled[i] = (written \o draining)[i] /\ (written \o draining)[i] = draining[i - Len(written)]
    BY <1>2, <1>3, <1>5, ConcatProperties DEF QueueExact
  <2>2. i - Len(written) \in 1..Len(draining)
    BY <1>3, <1>5
  <2> QED
    BY <1>1, <2>1, <2>2 DEF Draining
<1>6. CASE Len(written) + Len(draining) < i
  <2>1. handled[i] = pending[i - (Len(written) + Len(draining))]
    BY <1>1, <1>2, <1>3, <1>6, ConcatProperties DEF QueueExact
  <2>2. i - (Len(written) + Len(draining)) \in 1..Len(pending)
    BY <1>1, <1>2, <1>3, <1>6
  <2> QED
    BY <1>1, <2>1, <2>2 DEF Waiting
<1> QED
  BY <1>3, <1>4, <1>5, <1>6

(* The head of the list goes to the log, the rest stays.                    *)
LEMMA HeadIsWritten ==
  ASSUME Kept, NEW c \in Clients, Write, Draining(c)
  PROVE  Draining(c)' \/ Logged(c)'
<1> USE DEF Kept, TypeOK
<1>1. PICK i \in 1..Len(draining) : draining[i] = c
  BY DEF Draining
<1>2. /\ Len(draining) \in Nat /\ Head(draining) = draining[1]
      /\ Len(Tail(draining)) = Len(draining) - 1
      /\ \A j \in 1..Len(Tail(draining)) : Tail(draining)[j] = draining[j + 1]
  BY HeadTailProperties, LenProperties DEF Write
<1>3. CASE i = 1
  <2>1. Head(draining) \in Clients /\ Len(written) \in Nat
    BY HeadTailProperties, LenProperties DEF Write
  <2>2. Len(written') = Len(written) + 1 /\ written'[Len(written) + 1] = c
    BY <1>1, <1>2, <1>3, <2>1, AppendProperties DEF Write
  <2>3. Len(written) + 1 \in 1..Len(written')
    BY <2>1, <2>2
  <2>4. \E j \in 1..Len(written') : written'[j] = c
    BY <2>2, <2>3
  <2> QED
    BY <2>4 DEF Logged, Audited
<1>4. CASE i # 1
  <2>1. i - 1 \in 1..Len(Tail(draining)) /\ Tail(draining)[i - 1] = draining[i]
    BY <1>1, <1>2, <1>4
  <2> QED
    BY <1>1, <2>1 DEF Write, Draining
<1> QED
  BY <1>3, <1>4

LEMMA QueueMoves ==
  ASSUME Kept, NEW c \in Clients, [Next]_vars, IsUp, IsUp'
  PROVE  /\ Draining(c) => Draining(c)' \/ Logged(c)'
         /\ Waiting(c) => Waiting(c)' \/ Draining(c)'
         /\ Waiting(c) /\ At("top") /\ <<Loop>>_vars /\ ~stopping => Draining(c)'
         /\ Waiting(c) /\ At("top") /\ ~stopping => At("top")' \/ Draining(c)'
         /\ Draining(c) => At("drain")
<1>1. Draining(c) => At("drain")
  <2>1. Draining(c) => draining # <<>>
    BY EmptySeq DEF Draining
  <2> QED
    BY <2>1 DEF Kept, Inductive, DrainEnds, IsUp, At
<1>2. Waiting(c) => pending # <<>>
  BY EmptySeq DEF Waiting
<1>3. ASSUME Draining(c) PROVE Draining(c)' \/ Logged(c)'
  <2>1. CASE Write
    BY <1>3, <2>1, HeadIsWritten
  <2>2. draining # <<>>
    BY <1>3, EmptySeq DEF Draining
  <2>3. CASE Loop
    BY <1>1, <1>3, <2>1, <2>2, <2>3 DEF At, Loop, Top, Drained, Wake, PollReturns, TakeMessage, MessageDone
  <2>4. CASE UNCHANGED loop
    BY <1>3, <2>4 DEF loop, Draining
  <2> QED
    BY <2>3, <2>4, UpStep
<1>4. ASSUME Waiting(c), Top
      PROVE  /\ Waiting(c)' \/ Draining(c)'
             /\ ~stopping => Draining(c)'
  BY <1>2, <1>4 DEF Top, Waiting, Draining
<1>5. ASSUME Waiting(c) PROVE Waiting(c)' \/ Draining(c)'
  <2>1. PICK i \in 1..Len(pending) : pending[i] = c
    BY <1>5 DEF Waiting
  <2>2. CASE pending' = pending
    BY <2>1, <2>2 DEF Waiting
  <2>3. ASSUME NEW d \in Clients, pending' = Append(pending, d) PROVE Waiting(c)'
    <3>1. Len(pending) \in Nat /\ Len(pending') = Len(pending) + 1 /\ pending'[i] = pending[i]
      BY <2>1, <2>3, AppendProperties, LenProperties DEF Kept, TypeOK
    <3> QED
      BY <2>1, <3>1 DEF Waiting
  <2>4. CASE Loop
    BY <1>4, <1>5, <2>2, <2>4 DEF Loop, Write, Drained, Wake, PollReturns, TakeMessage, MessageDone, state
  <2> QED
    BY <2>2, <2>3, <2>4, UpStep
<1>6. ASSUME At("top"), Loop PROVE Top
  BY <1>6 DEF At, Loop, Write, Drained, Wake, PollReturns, TakeMessage, MessageDone
<1>7. ASSUME Waiting(c), At("top"), ~stopping PROVE At("top")' \/ Draining(c)'
  BY <1>4, <1>6, <1>7, UpStep DEF loop, At
<1> QED
  BY <1>1, <1>3, <1>4, <1>5, <1>6, <1>7

(* The loop returns only when it was told to.                               *)
Returned == At("returned") => Halting
LEMMA ReturnsWhenTold == Spec => []Returned
<1>1. Init => Returned
  BY DEF Init, Returned, At
<1>2. Kept /\ Returned /\ [Next]_vars => Returned'
  <2> SUFFICES ASSUME Kept, Returned, [Next]_vars, At("returned")' PROVE Halting'
    BY DEF Returned
  <2>1. ~Launch /\ ~Restart /\ ~Die /\ ~Exit
    BY DEF At, Launch, Restart, Boot, Die, Exit, End
  <2>2. IsUp /\ IsUp'
    BY <2>1 DEF At, IsUp, Up, Next, Signal, Issue, GiveUp, Receive, Handle, loop, Loop, Top,
       Write, Drained, Wake, PollReturns, TakeMessage, MessageDone, Server, Listen, CloseSocket, vars
  <2>3. stopping
    BY <2>2, Edges DEF At, Returned, Halting, IsUp, Up
  <2> QED
    BY <2>2, <2>3, UpStep DEF Halting
<1>3. Spec => []Kept
  BY AllHold, PTL DEF Kept
<1> QED
  BY <1>1, <1>2, <1>3, PTL DEF Spec

(* Between two turns of the loop the batch shrinks.                         *)
InBatch == pc \in {"batch", "working"}

(* Every pause and every resume that the daemon obeyed is in the audit log  *)
(* in the end, unless the process ends or is told to: the loop comes back   *)
(* to its top, takes the queue and writes all of it.                        *)
THEOREM ObeyedReachesLog ==
  FairSpec /\ []NeverStuck /\ NoEndlessDrain /\ NoEndlessBatch => ObeyedIsAudited
<1>0. SUFFICES ASSUME NEW c \in Clients
               PROVE  FairSpec /\ []NeverStuck /\ NoEndlessDrain /\ NoEndlessBatch =>
                        (Obeyed(c) ~> (Audited(c) \/ stopping \/ pc \notin Up))
  BY DEF ObeyedIsAudited
<1>1. Kept /\ [Next]_vars /\ IsUp /\ ~Halting =>
        /\ At("top") => At("top")' \/ At("drain")' \/ At("sleep")' \/ At("poll")' \/ ~IsUp'
        /\ At("drain") => At("drain")' \/ At("sleep")' \/ At("poll")' \/ ~IsUp'
        /\ At("drain") /\ At("drain")' => [Shorter]_draining \/ ~IsUp'
        /\ At("sleep") => At("sleep")' \/ At("top")' \/ ~IsUp'
        /\ At("poll") => At("poll")' \/ At("sleep")' \/ At("batch")' \/ ~IsUp'
        /\ InBatch => InBatch' \/ At("top")' \/ ~IsUp'
        /\ InBatch /\ InBatch' => [Fewer]_left \/ ~IsUp'
        /\ At("batch") => At("batch")' \/ At("working")' \/ ~InBatch' \/ ~IsUp'
        /\ At("working") => At("working")' \/ <<Fewer>>_left \/ ~IsUp'
  BY Edges DEF Halting, At, InBatch
<1>2. Kept /\ <<Loop>>_vars /\ ~Halting =>
        /\ At("top") => ~At("top")'
        /\ At("drain") => <<Shorter>>_draining \/ At("sleep")' \/ At("poll")'
        /\ At("sleep") => At("top")'
        /\ At("poll") => At("sleep")' \/ At("batch")'
        /\ At("batch") => At("top")' \/ At("working")'
        /\ At("working") => <<Fewer>>_left
  BY LoopStep DEF Halting, At
<1>3. Kept /\ [Next]_vars /\ IsUp /\ ~Halting =>
        /\ Draining(c) => Draining(c)' \/ Logged(c)' \/ ~IsUp'
        /\ Waiting(c) => Waiting(c)' \/ Draining(c)' \/ ~IsUp'
        /\ Waiting(c) /\ At("top") /\ <<Loop>>_vars => Draining(c)' \/ ~IsUp'
        /\ Waiting(c) /\ At("top") => At("top")' \/ Draining(c)' \/ ~IsUp'
  BY QueueMoves DEF Halting
<1>4. Kept /\ IsUp /\ Draining(c) => At("drain")
  <2>1. Draining(c) => draining # <<>>
    BY EmptySeq DEF Draining
  <2> QED
    BY <2>1 DEF Kept, Inductive, DrainEnds, IsUp, At
<1>5. /\ ~IsUp <=> pc \notin Up
      /\ IsUp => At("top") \/ At("drain") \/ At("sleep") \/ At("poll") \/ InBatch \/ At("returned")
      /\ InBatch <=> At("batch") \/ At("working")
      /\ IsUp /\ ~At("returned") => pc \in Up \ {"returned"}
      /\ At("drain") => ~At("sleep") /\ ~At("poll") /\ ~At("top")
      /\ At("top") => ~At("sleep") /\ ~At("poll") /\ ~InBatch
      /\ At("sleep") => ~At("poll") /\ ~InBatch
      /\ At("poll") => ~InBatch
      /\ At("batch") => ~At("working")
      /\ stopping <=> Halting
      /\ Logged(c) <=> Audited(c)
  BY DEF IsUp, At, Up, Halting, InBatch, Logged
<1>6. Kept /\ Obeyed(c) => Logged(c) \/ Draining(c) \/ Waiting(c)
  BY ObeyedIsSomewhere
<1>7. Spec => []Kept
  BY AllHold, PTL DEF Kept
<1> DEFINE Fair == /\ []Kept /\ []Returned /\ [][Next]_vars /\ WF_vars(Loop) /\ []NeverStuck
                   /\ NoEndlessDrain /\ NoEndlessBatch
           Runs == []IsUp /\ []~Halting
<1>8. Fair /\ Runs => []<>~At("drain")
  BY <1>1, <1>2, <1>5, PTL DEF NeverStuck, NoEndlessDrain, Returned
<1>9. Fair /\ Runs => []<>~InBatch
  BY <1>1, <1>2, <1>5, PTL DEF NeverStuck, NoEndlessBatch, Returned
<1>10. Fair /\ Runs /\ []<>~At("drain") /\ []<>~InBatch => []<>At("top")
  BY <1>1, <1>2, <1>5, PTL DEF NeverStuck, Returned
<1>11. Fair /\ Runs /\ []<>~At("drain") /\ []<>At("top") /\ (Draining(c) \/ Waiting(c)) => <>Logged(c)
  BY <1>2, <1>3, <1>4, <1>5, PTL DEF NeverStuck, Returned
<1>12. FairSpec /\ []NeverStuck /\ NoEndlessDrain /\ NoEndlessBatch => []Fair
  BY <1>7, ReturnsWhenTold, PTL DEF FairSpec, Spec, NoEndlessDrain, NoEndlessBatch
<1>13. FairSpec => []Kept
  BY <1>7, PTL DEF FairSpec
<1> HIDE DEF Fair
<1> QED
  BY <1>5, <1>6, <1>8, <1>9, <1>10, <1>11, <1>12, <1>13, PTL

=============================================================================
