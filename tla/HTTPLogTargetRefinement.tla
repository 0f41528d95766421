--------------------- MODULE HTTPLogTargetRefinement ---------------------
(***************************************************************************)
(* The HTTP log target implements the safety part of the log queue        *)
(* (LogQueue, under the mapping LQ of HTTPLogTarget), for every set of    *)
(* senders, every MaxSends and every QueueSize > 0.  That the queue also  *)
(* delivers every entry (its fairness) is checked by TLC only.            *)
(***************************************************************************)
EXTENDS HTTPLogTargetProofs

(* What the refinement needs beyond IInv: nothing is sent or closed       *)
(* before Init succeeded, Send's status check saw the status that only a  *)
(* successful Init sets, the close follows a successful CAS, a panic      *)
(* follows the close, and a sender's entries so far are numbered below   *)
(* its call count (strictly, while its call is under way).                *)
Phases ==
  /\ status = 1 => initPc = "ok" /\ ~closed
  /\ \A s \in Senders : sendPc[s] = "select" => initPc = "ok"
  /\ cancelPc = "close" => initPc = "ok" /\ ~closed /\ status = 0
  /\ closed => initPc = "ok"
  /\ crashed => closed

Numbered ==
  \A i \in DOMAIN accepted :
    LET s == accepted[i][1]
    IN  /\ accepted[i][2] <= sendCount[s]
        /\ sendPc[s] = "select" => accepted[i][2] < sendCount[s]

RInv == IInv /\ Phases /\ Numbered

LEMMA InitRInv == Init => RInv
<1> SUFFICES ASSUME Init PROVE RInv
  OBVIOUS
<1>1. IInv
  BY InitIInv
<1>2. Phases /\ Numbered
  BY DEF Init, Phases, Numbered
<1>3. QED
  BY <1>1, <1>2 DEF RInv

\* The length of the history: what is logged, in flight and buffered.
LEMMA AcceptedLength ==
  ASSUME IInv
  PROVE  Len(accepted) = Len(logged) + Len(InFlight) + Len(logCh)
<1>1. logged \in Seq(Entries) /\ InFlight \in Seq(Entries)
      /\ logCh \in Seq(Entries)
  BY DEF IInv, LogTypeOK, Counters, InFlight
<1>2. QED
  BY <1>1, ConcatProperties DEF IInv, LoggedInOrder

\* The entry the worker holds is the next one of the history to deliver.
LEMMA CurrentIsNext ==
  ASSUME IInv, workerPc = "log"
  PROVE  /\ Len(accepted) > Len(logged)
         /\ accepted[Len(logged) + 1] = current
<1>1. logged \in Seq(Entries) /\ logCh \in Seq(Entries) /\ current \in Entries
  BY DEF IInv, LogTypeOK, Counters
<1>2. InFlight = <<current>>
  BY DEF InFlight
<1>3. logged \o <<current>> \in Seq(Entries)
      /\ Len(logged \o <<current>>) = Len(logged) + 1
      /\ (logged \o <<current>>)[Len(logged) + 1] = current
  BY <1>1, ConcatProperties
<1>4. accepted = (logged \o <<current>>) \o logCh
  BY <1>2 DEF IInv, LoggedInOrder
<1>5. QED
  BY <1>1, <1>3, <1>4, ConcatProperties

\* The entries of the history are pairs of a sender and a call number.
LEMMA AcceptedEntries ==
  ASSUME IInv
  PROVE  \A i \in DOMAIN accepted :
           accepted[i] = <<accepted[i][1], accepted[i][2]>>
           /\ accepted[i][1] \in Senders /\ accepted[i][2] \in Nat
<1>1. accepted \in Seq(Entries)
  BY DEF IInv, LogTypeOK
<1>2. \A i \in DOMAIN accepted : accepted[i] \in Senders \X (1..MaxSends)
  BY <1>1 DEF Entries
<1>3. QED
  BY <1>2

LEMMA NextRInv == RInv /\ [Next]_vars => RInv'
<1> SUFFICES ASSUME RInv, [Next]_vars PROVE RInv'
  OBVIOUS
<1>1. IInv'
  BY NextIInv DEF RInv
<1> USE TargetAssumption DEF RInv, IInv, LogTypeOK, Counters, Phases, Numbered
<1>2. CASE TargetInit
  BY <1>1, <1>2 DEF TargetInit
<1>3. CASE StartHTTPLogger
  BY <1>1, <1>3 DEF StartHTTPLogger
<1>4. CASE WorkerReceive
  BY <1>1, <1>4 DEF WorkerReceive
<1>5. CASE WorkerExit
  BY <1>1, <1>5 DEF WorkerExit
<1>6. CASE LogEntry
  BY <1>1, <1>6 DEF LogEntry
<1>7. ASSUME NEW s \in Senders, SendLoadStatus(s)
      PROVE  RInv'
  <2>1. Phases'
    BY <1>7 DEF SendLoadStatus
  <2>2. Numbered'
    <3>1. SUFFICES ASSUME NEW i \in DOMAIN accepted'
                   PROVE  LET t == accepted'[i][1]
                          IN  /\ accepted'[i][2] <= sendCount'[t]
                              /\ sendPc'[t] = "select"
                                   => accepted'[i][2] < sendCount'[t]
      BY DEF Numbered
    <3>2. accepted' = accepted /\ accepted[i][1] \in Senders
          /\ accepted[i][2] \in Nat
      BY <1>7, AcceptedEntries DEF SendLoadStatus
    <3>3. CASE accepted[i][1] = s
      BY <1>7, <3>2, <3>3 DEF SendLoadStatus
    <3>4. CASE accepted[i][1] # s
      BY <1>7, <3>2, <3>4 DEF SendLoadStatus
    <3>5. QED
      BY <3>3, <3>4
  <2>3. QED
    BY <1>1, <2>1, <2>2
<1>8. ASSUME NEW s \in Senders, SendSelect(s)
      PROVE  RInv'
  <2>1. Phases'
    BY <1>8 DEF SendSelect
  <2>2. CASE ~closed /\ Len(logCh) < QueueSize
    <3>1. accepted' = Append(accepted, <<s, sendCount[s]>>)
          /\ sendCount' = sendCount
          /\ sendPc' = [sendPc EXCEPT ![s] = "idle"]
      BY <1>8, <2>2 DEF SendSelect
    <3>2. \A i \in DOMAIN accepted' :
            accepted'[i] = IF i <= Len(accepted) THEN accepted[i]
                           ELSE <<s, sendCount[s]>>
      BY <3>1, AppendProperties
    <3>3. Numbered'
      BY <3>1, <3>2, AppendProperties
    <3>4. QED
      BY <1>1, <2>1, <3>3
  <2>3. CASE ~(~closed /\ Len(logCh) < QueueSize)
    <3>1. UNCHANGED <<accepted, sendCount>>
          /\ sendPc' = [sendPc EXCEPT ![s] = "idle"]
      BY <1>8, <2>3 DEF SendSelect
    <3>2. QED
      BY <1>1, <2>1, <3>1
  <2>4. QED
    BY <2>2, <2>3
<1>9. CASE CancelCAS
  BY <1>1, <1>9 DEF CancelCAS
<1>10. CASE CancelClose
  BY <1>1, <1>10 DEF CancelClose
<1>11. CASE CancelWait
  BY <1>1, <1>11 DEF CancelWait
<1>12. CASE UNCHANGED vars
  BY <1>1, <1>12 DEF vars
<1>13. QED
  BY <1>2, <1>3, <1>4, <1>5, <1>6, <1>7, <1>8, <1>9, <1>10, <1>11, <1>12
     DEF Next

\* Every step of the target is a step of the log queue or leaves it alone.
LEMMA StepMaps == RInv /\ [Next]_vars => [LQ!QNext]_LQ!qvars
<1> SUFFICES ASSUME RInv, [Next]_vars PROVE [LQ!QNext]_LQ!qvars
  OBVIOUS
<1> DEFINE abs == <<accepted, logged, TargetState, crashed>>
<1>0. LQ!qvars = abs
  BY DEF LQ!qvars
<1> USE TargetAssumption
<1>1. CASE TargetInit
  <2>1. CASE initPc' = "failed"
    BY <1>1, <2>1 DEF TargetInit, TargetState, LQ!qvars
  <2>2. CASE initPc' = "ok"
    <3>1. ~closed /\ initPc = "new"
      BY <1>1 DEF TargetInit, RInv, Phases
    <3>2. LQ!Open
      BY <1>1, <2>2, <3>1 DEF TargetInit, TargetState, LQ!Open
    <3>3. QED
      BY <3>2 DEF LQ!QNext
  <2>3. QED
    BY <1>1, <2>1, <2>2 DEF TargetInit
<1>2. CASE StartHTTPLogger
  BY <1>2 DEF StartHTTPLogger, TargetState, LQ!qvars
<1>3. CASE WorkerReceive
  BY <1>3 DEF WorkerReceive, TargetState, LQ!qvars
<1>4. CASE WorkerExit
  BY <1>4 DEF WorkerExit, TargetState, LQ!qvars
<1>5. CASE LogEntry
  <2>1. Len(accepted) > Len(logged) /\ accepted[Len(logged) + 1] = current
    BY <1>5, CurrentIsNext DEF LogEntry, RInv
  <2>2. LQ!Deliver
    BY <1>5, <2>1 DEF LogEntry, TargetState, LQ!Deliver, LQ!Outstanding
  <2>3. QED
    BY <2>2 DEF LQ!QNext
<1>6. ASSUME NEW s \in Senders, SendLoadStatus(s)
      PROVE  [LQ!QNext]_LQ!qvars
  BY <1>6 DEF SendLoadStatus, TargetState, LQ!qvars
<1>7. ASSUME NEW s \in Senders, SendSelect(s)
      PROVE  [LQ!QNext]_LQ!qvars
  <2>1. initPc = "ok" /\ sendCount[s] >= 1
    BY <1>7 DEF SendSelect, RInv, Phases, IInv, Counters
  <2>2. CASE closed
    <3>1. LQ!Halt
      BY <1>7, <2>1, <2>2 DEF SendSelect, TargetState, LQ!Halt
    <3>2. QED
      BY <3>1 DEF LQ!QNext
  <2>3. CASE ~closed /\ Len(logCh) < QueueSize
    <3> DEFINE e == <<s, sendCount[s]>>
    <3>1. e \in Entries
      BY <1>7, <2>1 DEF SendSelect, RInv, IInv, LogTypeOK, Entries
    <3>2. Len(accepted) - Len(logged) < QueueSize + 1
      <4>1. Len(accepted) = Len(logged) + Len(InFlight) + Len(logCh)
        BY AcceptedLength DEF RInv
      <4>2. Len(InFlight) <= 1
        BY DEF InFlight
      <4>3. logCh \in Seq(Entries) /\ logged \in Seq(Entries)
        BY DEF RInv, IInv, LogTypeOK
      <4>4. QED
        BY <4>1, <4>2, <4>3, <2>3
    <3>3. \A i \in DOMAIN accepted : accepted[i] # e
      <4>1. SUFFICES ASSUME NEW i \in DOMAIN accepted, accepted[i] = e
                     PROVE  FALSE
        OBVIOUS
      <4>2. accepted[i][2] < sendCount[accepted[i][1]]
        BY <1>7, <4>1 DEF SendSelect, RInv, Numbered
      <4>3. accepted[i][1] = s /\ accepted[i][2] = sendCount[s]
        BY <4>1 DEF e
      <4>4. sendCount[s] \in Nat
        BY DEF RInv, IInv, LogTypeOK
      <4>5. QED
        BY <4>2, <4>3, <4>4
    <3>4. LQ!Accept(e)
      BY <1>7, <2>1, <2>3, <3>2, <3>3
         DEF SendSelect, TargetState, LQ!Accept, LQ!Outstanding, e
    <3>5. QED
      BY <3>1, <3>4 DEF LQ!QNext, e
  <2>4. CASE ~closed /\ ~(Len(logCh) < QueueSize)
    BY <1>7, <2>4 DEF SendSelect, TargetState, LQ!qvars
  <2>5. QED
    BY <2>2, <2>3, <2>4
<1>8. CASE CancelCAS
  BY <1>8 DEF CancelCAS, TargetState, LQ!qvars
<1>9. CASE CancelClose
  <2>1. initPc = "ok" /\ ~closed
    BY <1>9 DEF CancelClose, RInv, Phases
  <2>2. LQ!Close
    BY <1>9, <2>1 DEF CancelClose, TargetState, LQ!Close
  <2>3. QED
    BY <2>2 DEF LQ!QNext
<1>10. CASE CancelWait
  BY <1>10 DEF CancelWait, TargetState, LQ!qvars
<1>11. CASE UNCHANGED vars
  BY <1>11 DEF vars, TargetState, LQ!qvars
<1>12. QED
  BY <1>1, <1>2, <1>3, <1>4, <1>5, <1>6, <1>7, <1>8, <1>9, <1>10, <1>11
     DEF Next

(* The HTTP log target refines the safety part of the log queue (the      *)
(* ImplementsLogQueue property the MCHTTPLogTarget run checks, without    *)
(* its fairness): Send accepts only while the target is open, never the   *)
(* same entry twice, never more than QueueSize + 1 outstanding, and the   *)
(* worker delivers in acceptance order.                                    *)
THEOREM LogTargetRefinesQueue == Spec => LQ!QInit /\ [][LQ!QNext]_LQ!qvars
<1>1. Init => LQ!QInit
  BY DEF Init, LQ!QInit, TargetState
<1>2. RInv /\ [Next]_vars => [LQ!QNext]_LQ!qvars
  BY StepMaps
<1>3. QED
  BY <1>1, <1>2, InitRInv, NextRInv, PTL DEF Spec

=============================================================================
