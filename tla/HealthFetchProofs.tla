------------------------- MODULE HealthFetchProofs -------------------------
(***************************************************************************)
(* Proofs about serverHealthInfo (HealthFetch), for every MaxTries,       *)
(* MaxObjects and every set of versions and payloads.                     *)
(***************************************************************************)
EXTENDS HealthFetch, TLAPS

(* The strengthening of FetchTypeOK /\ FetchOutcomeCorrect that is         *)
(* inductive: while the fetch runs there is no result yet, and a stream   *)
(* is only being decoded on an attempt the loop bound allowed.            *)
Running ==
  /\ fpc # "done" => fresult = NoResult
  /\ fpc = "decode" => tryCount < MaxTries

IInv == FetchTypeOK /\ FetchOutcomeCorrect /\ Running

\* Decoding an object into a document yields a document.
LEMMA DecodeIntoType ==
  ASSUME NEW doc \in Docs, NEW obj \in StreamObjects
  PROVE  DecodeInto(doc, obj) \in Docs
BY DEF DecodeInto, Docs, StreamObjects

LEMMA InitIInv == FetchInit => IInv
<1> SUFFICES ASSUME FetchInit PROVE IInv
  OBVIOUS
<1>1. info \in Docs
  BY DEF FetchInit, ZeroInfo, Docs
<1>2. fresult \in {NoResult}
  BY DEF FetchInit
<1>3. FetchTypeOK
  <2>1. tryCount \in 0..MaxTries /\ objCount \in 0..MaxObjects
    BY FetchAssumption DEF FetchInit
  <2>2. remoteVersion \in ProtoVersions \cup {NoVersion}
    BY DEF FetchInit
  <2>3. lastObj \in StreamObjects \cup {Omitted}
    BY DEF FetchInit
  <2>4. fpc \in {"loop", "decode", "done"} /\ slept \in BOOLEAN
    BY DEF FetchInit
  <2>5. QED
    BY <1>1, <1>2, <2>1, <2>2, <2>3, <2>4 DEF FetchTypeOK
<1>4. fresult.status = "running"
  BY DEF FetchInit, NoResult
<1>5. QED
  BY <1>3, <1>4 DEF FetchInit, IInv, FetchOutcomeCorrect, Running

LEMMA NextIInv == IInv /\ [FetchNext]_fetchVars => IInv'
<1> SUFFICES ASSUME IInv, [FetchNext]_fetchVars PROVE IInv'
  OBVIOUS
<1> USE FetchAssumption DEF IInv, FetchTypeOK, FetchOutcomeCorrect, Running
<1>1. CASE CallServerHealthInfo
  <2>1. CASE fpc' = "done" /\ fresult' = [status |-> "callErr"]
              /\ UNCHANGED <<remoteVersion, lastObj>>
    BY <1>1, <2>1 DEF CallServerHealthInfo, NoResult
  <2>2. CASE \E pv \in ProtoVersions :
               /\ fpc' = "decode"
               /\ remoteVersion' = pv
               /\ lastObj' = Omitted
               /\ UNCHANGED fresult
    BY <1>1, <2>2 DEF CallServerHealthInfo, LoopCondition, NoResult
  <2>3. QED
    BY <1>1, <2>1, <2>2 DEF CallServerHealthInfo
<1>2. CASE DecodeObject
  <2>1. PICK obj \in StreamObjects : info' = DecodeInto(info, obj) /\ lastObj' = obj
    BY <1>2 DEF DecodeObject
  <2>2. info' \in Docs
    BY <2>1, DecodeIntoType
  <2>3. QED
    BY <1>2, <2>1, <2>2 DEF DecodeObject, NoResult
<1>3. CASE EndOfStream
  <2>1. PICK obj \in StreamObjects : info' = DecodeInto(info, obj)
    BY <1>3 DEF EndOfStream
  <2>2. info' \in Docs
    BY <2>1, DecodeIntoType
  <2>3. QED
    BY <1>3, <2>2 DEF EndOfStream, NoResult
<1>4. CASE ReturnFromFetch
  <2>1. CASE info.version = NoVersion
    <3>1. tryCount = MaxTries
      BY <1>4, <2>1 DEF ReturnFromFetch, LoopCondition
    <3>2. fresult' = [status |-> "reportFail"]
      BY <1>4, <2>1 DEF ReturnFromFetch
    <3>3. QED
      BY <1>4, <2>1, <3>1, <3>2 DEF ReturnFromFetch
  <2>2. CASE info.version # NoVersion
    <3>1. fresult' = [status |-> "ok", doc |-> info, version |-> NoVersion]
      BY <1>4, <2>2 DEF ReturnFromFetch
    <3>2. QED
      BY <1>4, <2>2, <3>1 DEF ReturnFromFetch
  <2>3. QED
    BY <2>1, <2>2
<1>5. CASE UNCHANGED fetchVars
  BY <1>5 DEF fetchVars
<1>6. QED
  BY <1>1, <1>2, <1>3, <1>4, <1>5 DEF FetchNext

(* serverHealthInfo keeps its variables within their types.               *)
THEOREM FetchTypeCorrect == FetchSpec => []FetchTypeOK
<1>1. IInv => FetchTypeOK
  BY DEF IInv
<1>2. QED
  BY <1>1, InitIInv, NextIInv, PTL DEF FetchSpec

(* serverHealthInfo returns a document only when it carries a version,    *)
(* and gives up with ErrHealthReportFail only after all MaxTries attempts *)
(* ended without one (the property the MCHealthFetch run checks).         *)
THEOREM FetchOutcome == FetchSpec => []FetchOutcomeCorrect
<1>1. IInv => FetchOutcomeCorrect
  BY DEF IInv
<1>2. QED
  BY <1>1, InitIInv, NextIInv, PTL DEF FetchSpec

=============================================================================
