---------------------------- MODULE HealthFetch ----------------------------
(***************************************************************************)
(* AdminClient.serverHealthInfo (src/api/client-admin.go): the bounded,    *)
(* retrying fetch of a diagnostic document from a MinIO cluster.           *)
(*                                                                         *)
(* Each attempt calls madmin's ServerHealthInfo, which either fails or     *)
(* hands back a response body holding a stream of JSON objects, and       *)
(* decodes every object of that stream into one madmin.HealthInfo value    *)
(* `info` that lives across all attempts.  json.Decoder.Decode into an     *)
(* existing struct overwrites only the fields the object carries, so       *)
(* `info` is a field-wise merge of everything decoded so far.  The stream *)
(* ends at the first Decode error: io.EOF, a syntax error (nothing         *)
(* applied) or a type error (the well-typed fields of the object applied). *)
(* After each attempt the code counts the try and sleeps 2 seconds; the    *)
(* loop stops once info.Version is non-empty or MaxTries tries are spent.  *)
(*                                                                         *)
(* A document is a record of two fields: `version` (the completeness      *)
(* sentinel) and `payload` (everything else, abstracted to a model value). *)
(***************************************************************************)
EXTENDS Naturals

CONSTANTS
  MaxTries,       \* the loop bound of serverHealthInfo: 10 in the code
  MaxObjects,     \* bound on the JSON objects one response stream carries
  DocVersions,    \* non-empty values of HealthInfo.Version a stream may carry
  ProtoVersions,  \* protocol versions ServerHealthInfo returns with the body
  Payloads,       \* values of the remaining HealthInfo fields
  ZeroPayload,    \* the Go zero value of those fields
  NoVersion,      \* the empty string "": the Version of a document not yet usable
  Omitted         \* marks a field an object does not carry

ASSUME FetchAssumption ==
  /\ MaxTries \in Nat \ {0}
  /\ MaxObjects \in Nat
  /\ NoVersion \notin DocVersions \cup ProtoVersions
  /\ Omitted \notin DocVersions \cup {NoVersion} \cup Payloads \cup {ZeroPayload}

\* The documents `info` may hold, and the objects a stream may carry.
Docs == [version : DocVersions \cup {NoVersion},
         payload : Payloads \cup {ZeroPayload}]
StreamObjects == [version : DocVersions \cup {NoVersion, Omitted},
                  payload : Payloads \cup {Omitted}]

\* madmin.HealthInfo{}: the zero value `info` starts from.
ZeroInfo == [version |-> NoVersion, payload |-> ZeroPayload]

\* json.Decoder.Decode(&info): the fields the object carries overwrite
\* those of `info`, the others keep their value.
DecodeInto(doc, obj) ==
  [f \in DOMAIN doc |-> IF obj[f] = Omitted THEN doc[f] ELSE obj[f]]

\* No (healthInfo, version, err) returned yet.
NoResult == [status |-> "running"]

VARIABLES
  fpc,            \* "loop" (the loop test), "decode" (the inner loop), "done"
  tryCount,       \* tryCount
  info,           \* info, the accumulator that survives every attempt
  remoteVersion,  \* the version the last ServerHealthInfo call returned
  objCount,       \* objects decoded from the current stream (model bound)
  lastObj,        \* the last object decoded whole in the current attempt
  slept,          \* whether a 2-second sleep followed the latest attempt
  fresult         \* the returned (healthInfo, version, err)

fetchVars == <<fpc, tryCount, info, remoteVersion, objCount, lastObj,
               slept, fresult>>

FetchInit ==
  /\ fpc = "loop"
  /\ tryCount = 0
  /\ info = ZeroInfo
  /\ remoteVersion = NoVersion
  /\ objCount = 0
  /\ lastObj = Omitted
  /\ slept = FALSE
  /\ fresult = NoResult

(***************************************************************************)
(* Faulty variants of the definitions below, each the shape a plausible   *)
(* bug in serverHealthInfo would take; the properties must catch them.     *)
(***************************************************************************)
\* The loop bound off by one: tryCount < 9.
LoopConditionOffByOne == info.version = NoVersion /\ tryCount < MaxTries - 1
\* The loop bound inclusive: tryCount <= 10.
LoopConditionInclusive == info.version = NoVersion /\ tryCount <= MaxTries

\* for info.Version == "" && tryCount < 10
LoopCondition == info.version = NoVersion /\ tryCount < MaxTries

(* The loop test holds and ServerHealthInfo is called.  It either fails,   *)
(* and the whole fetch returns that error, or opens a response stream.     *)
(* The `version` it returns is bound by `:=` to a new variable of the loop *)
(* body, not to the function's own `version`.                              *)
CallServerHealthInfo ==
  /\ fpc = "loop"
  /\ LoopCondition
  /\ \/ /\ fpc' = "done"
        /\ fresult' = [status |-> "callErr"]
        /\ UNCHANGED <<remoteVersion, lastObj>>
     \/ \E pv \in ProtoVersions :
          /\ fpc' = "decode"
          /\ remoteVersion' = pv
          /\ lastObj' = Omitted
          /\ UNCHANGED fresult
  /\ UNCHANGED <<tryCount, info, objCount, slept>>

(* One successful decoder.Decode(&info) of the inner loop.                 *)
DecodeObject ==
  /\ fpc = "decode"
  /\ objCount < MaxObjects
  /\ \E obj \in StreamObjects :
       /\ info' = DecodeInto(info, obj)
       /\ lastObj' = obj
  /\ objCount' = objCount + 1
  /\ UNCHANGED <<fpc, tryCount, remoteVersion, slept, fresult>>

\* The try not counted when the stream ends.
EndOfStreamNoCount ==
  /\ fpc = "decode"
  /\ \E obj \in StreamObjects : info' = DecodeInto(info, obj)
  /\ fpc' = "loop"
  /\ slept' = TRUE
  /\ objCount' = 0
  /\ UNCHANGED <<tryCount, remoteVersion, lastObj, fresult>>

(* decoder.Decode fails and the inner loop breaks: at EOF or on a syntax   *)
(* error nothing is applied (obj all Omitted), on a type error the fields  *)
(* that fit are.  Then tryCount++ and time.Sleep(2 * time.Second).        *)
EndOfStream ==
  /\ fpc = "decode"
  /\ \E obj \in StreamObjects : info' = DecodeInto(info, obj)
  /\ fpc' = "loop"
  /\ tryCount' = tryCount + 1
  /\ slept' = TRUE
  /\ objCount' = 0
  /\ UNCHANGED <<remoteVersion, lastObj, fresult>>

(* The loop test fails.  An empty info.Version gives ErrHealthReportFail;  *)
(* otherwise info is returned with the function's own `version`, which no *)
(* statement ever assigns.                                                 *)
ReturnFromFetch ==
  /\ fpc = "loop"
  /\ ~LoopCondition
  /\ fpc' = "done"
  /\ fresult' = IF info.version = NoVersion
                  THEN [status |-> "reportFail"]
                  ELSE [status |-> "ok", doc |-> info, version |-> NoVersion]
  /\ UNCHANGED <<tryCount, info, remoteVersion, objCount, lastObj, slept>>

FetchNext ==
  \/ CallServerHealthInfo
  \/ DecodeObject
  \/ EndOfStream
  \/ ReturnFromFetch

\* serverHealthInfo runs on one goroutine: once it can take a step it does.
FetchSpec == FetchInit /\ [][FetchNext]_fetchVars /\ WF_fetchVars(FetchNext)

-----------------------------------------------------------------------------
(***************************************************************************)
(* Properties                                                              *)
(***************************************************************************)

FetchTypeOK ==
  /\ fpc \in {"loop", "decode", "done"}
  /\ tryCount \in 0..MaxTries
  /\ info \in Docs
  /\ remoteVersion \in ProtoVersions \cup {NoVersion}
  /\ objCount \in 0..MaxObjects
  /\ lastObj \in StreamObjects \cup {Omitted}
  /\ slept \in BOOLEAN
  /\ fresult \in {NoResult}
                  \cup [status : {"callErr", "reportFail"}]
                  \cup [status : {"ok"}, doc : Docs, version : {NoVersion}]

(* The outcome of serverHealthInfo is justified by the attempts made: it   *)
(* returns a document only when the accumulated info carries a version,   *)
(* and gives up with ErrHealthReportFail only after all MaxTries attempts  *)
(* ended without one.                                                      *)
FetchOutcomeCorrect ==
  /\ fresult.status = "ok" =>
        /\ fresult.doc = info
        /\ fresult.doc.version # NoVersion
  /\ fresult.status = "reportFail" =>
        /\ tryCount = MaxTries
        /\ info.version = NoVersion

(* However the streams behave, serverHealthInfo returns.                   *)
FetchTerminates == <>(fpc = "done")

(* Spec 4.1: a successful fetch returns the protocol version that the      *)
(* cluster reported with the stream.  The `:=` on the call shadows the     *)
(* function's own `version`, which is returned instead.                    *)
FetchReturnsRemoteVersion ==
  fresult.status = "ok" => fresult.version = remoteVersion

=============================================================================
