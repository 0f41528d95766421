--------------------- MODULE NotificationConfigProofs ---------------------
(***************************************************************************)
(* Proofs about the validation of a NotificationConfig                    *)
(* (NotificationConfig), for every MaxEvents and every set of event       *)
(* values: the loop invariants of validateEvents and                      *)
(* contextValidateEvents give the results ValidateIsCorrect and           *)
(* ContextValidateSound describe.                                          *)
(***************************************************************************)
EXTENDS NotificationConfig, SequenceTheorems, TLAPS

\* The 0-based indexes of the events Validate, and ContextValidate, reject.
BadV == IndexesIn(config.events, Invalid)
BadC == IndexesIn(config.events, CtxInvalid)

(* validateEvents' loop: res holds validateArn's error, and every element *)
(* before the index is valid.                                              *)
ValidateLoopInv ==
  /\ vi \in 1..Len(config.events) + 1
  /\ vpc = "start" => vi = 1 /\ vresult = NoError
  /\ vpc = "events" =>
       /\ vresult = Required(config)
       /\ \A j \in 1..vi - 1 : config.events[j] \notin Invalid

(* contextValidateEvents' loop: nothing collected yet, and every element  *)
(* before the index passed its context validation.                        *)
ContextLoopInv ==
  /\ ci \in 1..Len(config.events) + 1
  /\ cpc = "start" => ci = 1
  /\ cpc \in {"start", "events"} => cresult = NoError
  /\ cpc = "events" => \A j \in 1..ci - 1 : config.events[j] \notin CtxInvalid

\* Validate's half of the state: typed, in its loop invariant, correct.
VPart ==
  /\ vpc \in {"start", "events", "done"}
  /\ vresult \in Seq(Errors(config.events))
  /\ ValidateLoopInv /\ ValidateIsCorrect

\* ContextValidate's half of the state.
CPart ==
  /\ cpc \in {"start", "events", "done"}
  /\ cresult \in Seq(Errors(config.events))
  /\ ContextLoopInv /\ ContextValidateSound

NInv == config \in Configs /\ VPart /\ CPart

\* A config's events are a sequence of at most MaxEvents values.
LEMMA EventsSeq ==
  ASSUME NEW m \in Configs
  PROVE  /\ m.events \in Seq(EventValues)
         /\ Len(m.events) \in 0..MaxEvents
<1>1. PICK n \in 0..MaxEvents : m.events \in [1..n -> EventValues]
  BY DEF Configs
<1>2. m.events \in Seq(EventValues)
  BY <1>1, ConfigAssumption, SeqDef
<1>3. DOMAIN m.events = 1..Len(m.events) /\ Len(m.events) \in Nat
  BY <1>2, LenProperties
<1>4. Len(m.events) = n
  BY <1>1, <1>3, ConfigAssumption
<1>5. QED
  BY <1>2, <1>4

\* An element of a set of integers below all the others is its Least.
LEMMA LeastIs ==
  ASSUME NEW S \in SUBSET Int, NEW k \in S, \A j \in S : k <= j
  PROVE  Least(S) = k
<1>1. \E c \in S : \A j \in S : c <= j
  OBVIOUS
<1>2. Least(S) \in S /\ \A j \in S : Least(S) <= j
  BY <1>1, Zenon DEF Least
<1>3. Least(S) \in Int /\ Least(S) <= k /\ k <= Least(S)
  BY <1>2
<1>4. QED
  BY <1>3

(* When the element at i is the first one in S, the 0-based index i - 1   *)
(* is the least of IndexesIn(ev, S).                                       *)
LEMMA FirstIndexIn ==
  ASSUME NEW ev \in Seq(EventValues), NEW S, NEW i \in 1..Len(ev),
         ev[i] \in S, \A j \in 1..i - 1 : ev[j] \notin S
  PROVE  /\ IndexesIn(ev, S) # {}
         /\ Least(IndexesIn(ev, S)) = i - 1
<1>1. DOMAIN ev = 1..Len(ev)
  BY LenProperties
<1>2. i - 1 \in IndexesIn(ev, S)
  BY <1>1 DEF IndexesIn
<1>3. IndexesIn(ev, S) \subseteq Int
  BY <1>1 DEF IndexesIn
<1>4. \A k \in IndexesIn(ev, S) : i - 1 <= k
  BY <1>1 DEF IndexesIn
<1>5. QED
  BY <1>2, <1>3, <1>4, LeastIs

\* No element in S: IndexesIn(ev, S) is empty.
LEMMA NoIndexIn ==
  ASSUME NEW ev \in Seq(EventValues), NEW S,
         \A j \in 1..Len(ev) : ev[j] \notin S
  PROVE  IndexesIn(ev, S) = {}
<1>1. DOMAIN ev = 1..Len(ev)
  BY LenProperties
<1>2. QED
  BY <1>1 DEF IndexesIn

\* The 0-based index of an element is one of the errors of the slice.
LEMMA EventErrorType ==
  ASSUME NEW ev \in Seq(EventValues), NEW i \in 1..Len(ev)
  PROVE  EventError(i - 1) \in Errors(ev)
BY DEF Errors

\* validate.Required's result is one of the errors of any slice.
LEMMA RequiredType ==
  ASSUME NEW m \in Configs
  PROVE  Required(m) \in Seq(Errors(m.events))
<1>1. <<>> \in Seq(Errors(m.events))
  BY EmptySeq
<1>2. <<ArnRequired>> \in Seq(Errors(m.events))
  <2>1. ArnRequired \in Errors(m.events)
    BY DEF Errors
  <2>2. QED
    BY <2>1
<1>3. QED
  BY <1>1, <1>2 DEF Required, NoError

LEMMA InitNInv == ValidationInit => NInv
<1> SUFFICES ASSUME ValidationInit PROVE NInv
  OBVIOUS
<1>1. config \in Configs /\ Len(config.events) \in 0..MaxEvents
  BY EventsSeq DEF ValidationInit
<1>2. NoError \in Seq(Errors(config.events))
  BY EmptySeq DEF NoError
<1>3. VPart
  BY <1>1, <1>2 DEF ValidationInit, VPart, ValidateLoopInv, ValidateIsCorrect
<1>4. CPart
  BY <1>1, <1>2 DEF ValidationInit, CPart, ContextLoopInv, ContextValidateSound
<1>5. QED
  BY <1>1, <1>3, <1>4 DEF NInv

\* Steps of ContextValidate keep Validate's half, and conversely.
LEMMA VPartUnchanged ==
  ASSUME VPart, UNCHANGED <<config, vpc, vi, vresult>>
  PROVE  VPart'
BY DEF VPart, ValidateLoopInv, ValidateIsCorrect, Required

LEMMA CPartUnchanged ==
  ASSUME CPart, UNCHANGED <<config, cpc, ci, cresult>>
  PROVE  CPart'
BY DEF CPart, ContextLoopInv, ContextValidateSound

LEMMA NextNInv == NInv /\ [ValidationNext]_vars => NInv'
<1> SUFFICES ASSUME NInv, [ValidationNext]_vars PROVE NInv'
  OBVIOUS
<1> DEFINE ev == config.events
<1>0. /\ config \in Configs /\ VPart /\ CPart
      /\ ev \in Seq(EventValues) /\ Len(ev) \in 0..MaxEvents
  BY EventsSeq DEF NInv
<1>1. CASE ValidateArn
  <2>1. vpc = "start" /\ vi = 1 /\ vpc' = "events" /\ vresult' = Required(config)
        /\ UNCHANGED <<config, vi, cpc, ci, cresult>>
    BY <1>0, <1>1 DEF ValidateArn, VPart, ValidateLoopInv
  <2>2. VPart'
    BY <1>0, <2>1, RequiredType DEF VPart, ValidateLoopInv, ValidateIsCorrect
  <2>3. QED
    BY <1>0, <2>1, <2>2, CPartUnchanged DEF NInv
<1>2. CASE ValidateEvents
  <2>1. /\ vpc = "events" /\ vi \in 1..Len(ev)
        /\ vresult = Required(config)
        /\ \A j \in 1..vi - 1 : ev[j] \notin Invalid
        /\ UNCHANGED <<config, cpc, ci, cresult>>
    BY <1>0, <1>2 DEF ValidateEvents, VPart, ValidateLoopInv
  <2>2. CASE ev[vi] \in Invalid
    <3>1. vresult' = Append(Required(config), EventError(vi - 1)) /\ vpc' = "done"
          /\ UNCHANGED vi
      BY <1>2, <2>1, <2>2 DEF ValidateEvents
    <3>2. BadV # {} /\ Least(BadV) = vi - 1
      BY <1>0, <2>1, <2>2, FirstIndexIn DEF BadV
    <3>3. Append(Required(config), EventError(vi - 1))
            = Required(config) \o <<EventError(vi - 1)>>
      BY <1>0, RequiredType, AppendIsConcat
    <3>4. vresult' \in Seq(Errors(ev))
      BY <1>0, <2>1, <3>1, RequiredType, EventErrorType
    <3>5. ValidateIsCorrect'
      BY <2>1, <3>1, <3>2, <3>3 DEF ValidateIsCorrect, BadV, Required, NoError
    <3>6. VPart'
      BY <2>1, <3>1, <3>4, <3>5 DEF VPart, ValidateLoopInv
    <3>7. QED
      BY <1>0, <2>1, <3>6, CPartUnchanged DEF NInv
  <2>3. CASE ev[vi] \notin Invalid
    <3>1. vi' = vi + 1 /\ UNCHANGED <<vpc, vresult>>
      BY <1>2, <2>1, <2>3 DEF ValidateEvents
    <3>2. \A j \in 1..vi' - 1 : ev[j] \notin Invalid
      BY <2>1, <2>3, <3>1
    <3>3. VPart'
      BY <1>0, <2>1, <3>1, <3>2 DEF VPart, ValidateLoopInv, ValidateIsCorrect
    <3>4. QED
      BY <1>0, <2>1, <3>3, CPartUnchanged DEF NInv
  <2>4. QED
    BY <2>2, <2>3
<1>3. CASE ValidateReturn
  <2>1. /\ vpc = "events" /\ vi = Len(ev) + 1 /\ vpc' = "done"
        /\ vresult = Required(config)
        /\ \A j \in 1..vi - 1 : ev[j] \notin Invalid
        /\ UNCHANGED <<config, vi, vresult, cpc, ci, cresult>>
    BY <1>0, <1>3 DEF ValidateReturn, VPart, ValidateLoopInv
  <2>2. BadV = {}
    BY <1>0, <2>1, NoIndexIn DEF BadV
  <2>3. Required(config) \o <<>> = Required(config)
    BY <1>0, RequiredType, ConcatEmptySeq
  <2>4. ValidateIsCorrect'
    BY <2>1, <2>2, <2>3 DEF ValidateIsCorrect, BadV, Required, NoError
  <2>5. VPart'
    BY <1>0, <2>1, <2>4 DEF VPart, ValidateLoopInv
  <2>6. QED
    BY <1>0, <2>1, <2>5, CPartUnchanged DEF NInv
<1>4. CASE ContextValidate
  <2>1. cpc = "start" /\ ci = 1 /\ cpc' = "events"
        /\ UNCHANGED <<config, vpc, vi, vresult, ci, cresult>>
    BY <1>0, <1>4 DEF ContextValidate, CPart, ContextLoopInv
  <2>2. CPart'
    BY <1>0, <2>1 DEF CPart, ContextLoopInv, ContextValidateSound
  <2>3. QED
    BY <1>0, <2>1, <2>2, VPartUnchanged DEF NInv
<1>5. CASE ContextValidateEvents
  <2>1. /\ cpc = "events" /\ ci \in 1..Len(ev) /\ cresult = NoError
        /\ \A j \in 1..ci - 1 : ev[j] \notin CtxInvalid
        /\ UNCHANGED <<config, vpc, vi, vresult>>
    <3>1. cpc = "events" /\ ci <= Len(ev) /\ UNCHANGED <<config, vpc, vi, vresult>>
      BY <1>5 DEF ContextValidateEvents
    <3>2. ci \in 1..Len(ev) + 1 /\ cresult = NoError
          /\ \A j \in 1..ci - 1 : ev[j] \notin CtxInvalid
      BY <1>0, <3>1 DEF CPart, ContextLoopInv
    <3>3. QED
      BY <1>0, <3>1, <3>2
  <2>2. CASE ev[ci] = ZeroEvent
    <3>1. cpc' = "done" /\ UNCHANGED <<ci, cresult>>
      BY <1>5, <2>1, <2>2, ConfigAssumption DEF ContextValidateEvents
    <3>2. CPart'
      BY <1>0, <2>1, <3>1 DEF CPart, ContextLoopInv, ContextValidateSound, NoError
    <3>3. QED
      BY <1>0, <2>1, <3>2, VPartUnchanged DEF NInv
  <2>3. CASE ev[ci] \in CtxInvalid
    <3>1. ev[ci] # ZeroEvent
      BY <2>3, ConfigAssumption
    <3>2. cresult' = <<EventError(ci - 1)>> /\ cpc' = "done" /\ UNCHANGED ci
      BY <1>5, <2>1, <2>3, <3>1 DEF ContextValidateEvents, NoError
    <3>3. BadC # {} /\ Least(BadC) = ci - 1
      BY <1>0, <2>1, <2>3, FirstIndexIn DEF BadC
    <3>4. cresult' \in Seq(Errors(ev))
      BY <1>0, <2>1, <3>2, EventErrorType
    <3>5. ContextValidateSound'
      BY <2>1, <3>2, <3>3 DEF ContextValidateSound, BadC
    <3>6. CPart'
      BY <2>1, <3>2, <3>4, <3>5 DEF CPart, ContextLoopInv
    <3>7. QED
      BY <1>0, <2>1, <3>6, VPartUnchanged DEF NInv
  <2>4. CASE ev[ci] \notin CtxInvalid \cup {ZeroEvent}
    <3>1. ci' = ci + 1 /\ UNCHANGED <<cpc, cresult>>
      BY <1>5, <2>1, <2>4 DEF ContextValidateEvents
    <3>2. CPart'
      BY <1>0, <2>1, <2>4, <3>1 DEF CPart, ContextLoopInv, ContextValidateSound
    <3>3. QED
      BY <1>0, <2>1, <3>2, VPartUnchanged DEF NInv
  <2>5. QED
    BY <2>2, <2>3, <2>4
<1>6. CASE ContextValidateReturn
  <2>1. /\ cpc = "events" /\ cpc' = "done" /\ cresult = NoError
        /\ UNCHANGED <<config, vpc, vi, vresult, ci, cresult>>
    BY <1>0, <1>6 DEF ContextValidateReturn, CPart, ContextLoopInv
  <2>2. CPart'
    BY <1>0, <2>1 DEF CPart, ContextLoopInv, ContextValidateSound, NoError
  <2>3. QED
    BY <1>0, <2>1, <2>2, VPartUnchanged DEF NInv
<1>7. CASE UNCHANGED vars
  BY <1>0, <1>7, VPartUnchanged, CPartUnchanged DEF vars, NInv
<1>8. QED
  BY <1>1, <1>2, <1>3, <1>4, <1>5, <1>6, <1>7 DEF ValidationNext

(* Validate and ContextValidate keep the state typed: every error they    *)
(* collect is the missing Arn or names an index of the Events slice.      *)
THEOREM ValidationTypeCorrect == ValidationSpec => []ValidationTypeOK
<1>1. NInv => ValidationTypeOK
  <2> SUFFICES ASSUME NInv PROVE ValidationTypeOK
    OBVIOUS
  <2>1. Len(config.events) \in 0..MaxEvents
    BY EventsSeq DEF NInv
  <2>2. QED
    BY <2>1, ConfigAssumption DEF NInv, VPart, CPart, ValidateLoopInv,
       ContextLoopInv, ValidationTypeOK
<1>2. QED
  BY <1>1, InitNInv, NextNInv, PTL DEF ValidationSpec

(* Validate accepts a config exactly when its Arn is set and every event  *)
(* is in the enum, and otherwise reports the missing Arn and the lowest   *)
(* invalid index, for slices of any length (the property the              *)
(* MCNotificationConfig run checks for up to three events).               *)
THEOREM ValidateCorrect == ValidationSpec => []ValidateIsCorrect
<1>1. NInv => ValidateIsCorrect
  BY DEF NInv, VPart
<1>2. QED
  BY <1>1, InitNInv, NextNInv, PTL DEF ValidationSpec

(* What ContextValidate reports is the lowest-indexed event whose context *)
(* validation fails, for slices of any length (the property the           *)
(* MCNotificationConfig run checks for up to three events).               *)
THEOREM ContextValidateCorrect == ValidationSpec => []ContextValidateSound
<1>1. NInv => ContextValidateSound
  BY DEF NInv, CPart
<1>2. QED
  BY <1>1, InitNInv, NextNInv, PTL DEF ValidationSpec

=============================================================================
