------------------------ MODULE HTTPLogTargetProofs ------------------------
(***************************************************************************)
(* Proofs about the HTTP log target (HTTPLogTarget), for every set of     *)
(* senders, every MaxSends and every QueueSize > 0.                        *)
(***************************************************************************)
EXTENDS HTTPLogTarget, SequenceTheorems, TLAPS

(* What the worker and the senders' program counters imply: the WaitGroup *)
(* counts the worker while it is inside its loop, startHTTPLogger has not *)
(* run before Init succeeded and started it, a worker in logEntry holds  *)
(* an entry, and a sender past its status check has counted its call.    *)
Counters ==
  /\ wg = IF workerPc \in {"recv", "log"} THEN 1 ELSE 0
  /\ initPc = "new" => starterPc = "none"
  /\ starterPc \in {"none", "pending"} => workerPc = "none"
  /\ workerPc = "log" => current \in Entries
  /\ \A s \in Senders : sendPc[s] = "select" => sendCount[s] >= 1

IInv == LogTypeOK /\ LoggedInOrder /\ Counters

\* A non-empty sequence is its head followed by its tail.
LEMMA HeadTailConcat ==
  ASSUME NEW S, NEW q \in Seq(S), q # <<>>
  PROVE  q = <<Head(q)>> \o Tail(q)
<1>1. Head(q) \in S /\ Tail(q) \in Seq(S) /\ Len(Tail(q)) = Len(q) - 1
  BY HeadTailProperties
<1>2. <<Head(q)>> \in Seq(S)
  BY <1>1
<1>3. Len(<<Head(q)>> \o Tail(q)) = Len(q)
  BY <1>1, <1>2, ConcatProperties
<1>4. \A i \in 1..Len(q) : (<<Head(q)>> \o Tail(q))[i] = q[i]
  BY <1>1, <1>2, ConcatProperties, HeadTailProperties
<1>5. QED
  BY <1>1, <1>2, <1>3, <1>4, ConcatProperties, SeqEqual

\* Concatenation of sequences of entries is associative.
LEMMA ConcatAssocEntries ==
  \A a, b, c \in Seq(Entries) : (a \o b) \o c = a \o (b \o c)
BY ConcatAssociative

\* Appending to the end of a concatenation appends to its last part.
LEMMA ConcatAppendEntries ==
  ASSUME NEW a \in Seq(Entries), NEW b \in Seq(Entries), NEW q \in Entries
  PROVE  a \o b \o <<q>> = a \o (b \o <<q>>)
BY ConcatAssocEntries, ConcatProperties

LEMMA InitIInv == Init => IInv
<1> SUFFICES ASSUME Init PROVE IInv
  OBVIOUS
<1>1. LogTypeOK
  <2>1. sendPc \in [Senders -> {"idle", "select"}]
        /\ sendCount \in [Senders -> 0..MaxSends]
    BY TargetAssumption DEF Init
  <2>2. /\ logCh \in Seq(Entries) /\ Len(logCh) <= QueueSize
        /\ accepted \in Seq(Entries) /\ logged \in Seq(Entries)
    BY EmptySeq, TargetAssumption DEF Init
  <2>3. current \in Entries \cup {NoEntry}
    BY DEF Init
  <2>4. /\ status \in {0, 1} /\ closed \in BOOLEAN /\ wg \in Nat
        /\ initPc \in {"new", "failed", "ok"}
        /\ starterPc \in {"none", "pending", "done"}
        /\ workerPc \in {"none", "recv", "log", "exited"}
        /\ cancelPc \in {"idle", "close", "wait", "done"}
        /\ crashed \in BOOLEAN
    BY DEF Init
  <2>5. QED
    BY <2>1, <2>2, <2>3, <2>4 DEF LogTypeOK
<1>2. LoggedInOrder
  <2>1. InFlight = <<>>
    BY DEF Init, InFlight
  <2>2. <<>> \o <<>> \o <<>> = <<>>
    BY ConcatEmptySeq, EmptySeq
  <2>3. QED
    BY <2>1, <2>2 DEF Init, LoggedInOrder
<1>3. Counters
  BY DEF Init, Counters
<1>4. QED
  BY <1>1, <1>2, <1>3 DEF IInv

LEMMA NextIInv == IInv /\ [Next]_vars => IInv'
<1> SUFFICES ASSUME IInv, [Next]_vars PROVE IInv'
  OBVIOUS
<1> USE TargetAssumption DEF IInv, LogTypeOK, Counters
<1>0. /\ logged \in Seq(Entries) /\ logCh \in Seq(Entries)
      /\ accepted \in Seq(Entries)
      /\ InFlight \in Seq(Entries)
  BY DEF InFlight
<1>1. CASE TargetInit
  BY <1>1 DEF TargetInit, LoggedInOrder, InFlight
<1>2. CASE StartHTTPLogger
  BY <1>2 DEF StartHTTPLogger, LoggedInOrder, InFlight
<1>3. CASE WorkerReceive
  <2>1. logCh = <<Head(logCh)>> \o Tail(logCh)
    BY <1>3, HeadTailConcat DEF WorkerReceive
  <2>2. Head(logCh) \in Entries /\ Tail(logCh) \in Seq(Entries)
        /\ Len(Tail(logCh)) = Len(logCh) - 1
    BY <1>3, HeadTailProperties DEF WorkerReceive
  <2>3. InFlight = <<>> /\ InFlight' = <<Head(logCh)>>
    BY <1>3 DEF WorkerReceive, InFlight
  <2>4. LoggedInOrder'
    <3>1. accepted = logged \o logCh
      BY <2>3, <1>0, ConcatEmptySeq DEF LoggedInOrder
    <3>2. logged \o logCh = (logged \o <<Head(logCh)>>) \o Tail(logCh)
      <4>1. <<Head(logCh)>> \in Seq(Entries)
        BY <2>2
      <4>2. (logged \o <<Head(logCh)>>) \o Tail(logCh)
              = logged \o (<<Head(logCh)>> \o Tail(logCh))
        BY <4>1, <2>2, <1>0, ConcatAssociative
      <4>3. QED
        BY <4>2, <2>1
    <3>3. QED
      BY <1>3, <3>1, <3>2, <2>3 DEF WorkerReceive, LoggedInOrder
  <2>5. QED
    BY <1>3, <2>2, <2>4 DEF WorkerReceive
<1>4. CASE WorkerExit
  BY <1>4 DEF WorkerExit, LoggedInOrder, InFlight
<1>5. CASE LogEntry
  <2>1. current \in Entries
    BY <1>5 DEF LogEntry
  <2>2. InFlight = <<current>> /\ InFlight' = <<>>
    BY <1>5 DEF LogEntry, InFlight
  <2>3. LoggedInOrder'
    <3>1. Append(logged, current) = logged \o <<current>>
      BY <2>1, <1>0, AppendIsConcat
    <3>2. Append(logged, current) \o <<>> = Append(logged, current)
      BY <2>1, <1>0, AppendProperties, ConcatEmptySeq
    <3>3. QED
      BY <1>5, <2>2, <3>1, <3>2 DEF LogEntry, LoggedInOrder
  <2>4. QED
    BY <1>5, <2>1, <2>3, <1>0, AppendProperties DEF LogEntry, NoEntry
<1>6. ASSUME NEW s \in Senders, SendLoadStatus(s)
      PROVE  IInv'
  BY <1>6 DEF SendLoadStatus, LoggedInOrder, InFlight
<1>7. ASSUME NEW s \in Senders, SendSelect(s)
      PROVE  IInv'
  <2> DEFINE e == <<s, sendCount[s]>>
  <2>1. e \in Entries
    BY <1>7 DEF SendSelect, Entries
  <2>2. CASE closed
    BY <1>7, <2>2 DEF SendSelect, LoggedInOrder, InFlight
  <2>3. CASE ~closed /\ Len(logCh) < QueueSize
    <3>1. logCh' = Append(logCh, e) /\ accepted' = Append(accepted, e)
      BY <1>7, <2>3 DEF SendSelect
    <3>2. Append(accepted, e) = accepted \o <<e>>
      BY <2>1, <1>0, AppendIsConcat
    <3>3. Append(logCh, e) = logCh \o <<e>>
      BY <2>1, <1>0, AppendIsConcat
    <3>4. InFlight' = InFlight /\ logged' = logged
      BY <1>7 DEF SendSelect, InFlight
    <3>5. (logged \o InFlight) \o logCh \o <<e>>
            = (logged \o InFlight) \o (logCh \o <<e>>)
      <4>1. logged \o InFlight \in Seq(Entries) /\ <<e>> \in Seq(Entries)
        BY <2>1, <1>0, ConcatProperties
      <4>2. QED
        BY <4>1, <2>1, <1>0, ConcatAppendEntries
    <3>6. LoggedInOrder'
      BY <3>1, <3>2, <3>3, <3>4, <3>5 DEF LoggedInOrder
    <3>7. logCh' \in Seq(Entries) /\ Len(logCh') <= QueueSize
          /\ accepted' \in Seq(Entries)
      BY <2>1, <2>3, <3>1, <1>0, AppendProperties
    <3>8. LogTypeOK'
      BY <1>7, <3>7 DEF SendSelect
    <3>9. Counters'
      BY <1>7 DEF SendSelect
    <3>10. QED
      BY <3>6, <3>8, <3>9
  <2>4. CASE ~closed /\ Len(logCh) = QueueSize
    <3>1. UNCHANGED <<logCh, accepted, logged, workerPc, current, crashed>>
      BY <1>7, <2>4 DEF SendSelect
    <3>2. LoggedInOrder'
      BY <3>1 DEF LoggedInOrder, InFlight
    <3>3. LogTypeOK' /\ Counters'
      BY <1>7, <3>1 DEF SendSelect
    <3>4. QED
      BY <3>2, <3>3
  <2>5. QED
    BY <2>2, <2>3, <2>4, <1>0 DEF SendSelect
<1>8. CASE CancelCAS
  BY <1>8 DEF CancelCAS, LoggedInOrder, InFlight
<1>9. CASE CancelClose
  BY <1>9 DEF CancelClose, LoggedInOrder, InFlight
<1>10. CASE CancelWait
  BY <1>10 DEF CancelWait, LoggedInOrder, InFlight
<1>11. CASE UNCHANGED vars
  BY <1>11 DEF vars, LoggedInOrder, InFlight
<1>12. QED
  BY <1>1, <1>2, <1>3, <1>4, <1>5, <1>6, <1>7, <1>8, <1>9, <1>10, <1>11
     DEF Next

(* The log target keeps its variables within their types; in particular  *)
(* logCh never holds more than QueueSize entries.                         *)
THEOREM LogTypeCorrect == Spec => []LogTypeOK
<1>1. IInv => LogTypeOK
  BY DEF IInv
<1>2. QED
  BY <1>1, InitIInv, NextIInv, PTL DEF Spec

(* Entries leave the target in the order Send accepted them, none lost    *)
(* and none twice (the property the MCHTTPLogTarget run checks).          *)
THEOREM LogOrder == Spec => []LoggedInOrder
<1>1. IInv => LoggedInOrder
  BY DEF IInv
<1>2. QED
  BY <1>1, InitIInv, NextIInv, PTL DEF Spec

=============================================================================
