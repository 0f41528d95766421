------------------------ MODULE HealthInfoJobProofs ------------------------
(***************************************************************************)
(* Proofs about one diagnostic job (HealthInfoJob), for every MaxTries,   *)
(* MaxObjects and every set of versions and payloads.  The fetch part     *)
(* rests on the inductive invariant IInv of HealthFetchProofs.            *)
(***************************************************************************)
EXTENDS HealthInfoJob, HealthFetchProofs, SequenceTheorems

\* sendHealthInfoToSubnet has not returned yet.
NoSubnet == [url |-> <<>>, err |-> NoErr]

\* What sendHealthInfoToSubnet returned is an error or a non-empty URL.
Delivered(r) == r.err # NoErr \/ Len(r.url) > 0

\* The report Report builds from the fetch result and the SUBNET result.
ReportOf(res) ==
  MarshalReport(Base64(TarGZ(fresult.doc, fresult.version)), fresult.doc,
                SubnetResponse(res))

(* Where startHealthInfo is determines what it has produced so far: before *)
(* the fetch returns nothing is encoded, sent or written; between Archive *)
(* and Report the fetch succeeded and its archive is held; after Report   *)
(* the message is the report of that fetch and of a delivered result.     *)
JobStages ==
  /\ jpc \in {"start", "fetch"} =>
       /\ encodedDiag = NoMessage
       /\ subnetResult = NoSubnet
       /\ message = NoMessage
       /\ jresult = "running"
  /\ jpc = "start" => fresult = NoResult
  /\ jpc \in {"subnetKey", "upload", "report"} =>
       /\ fpc = "done"
       /\ fresult.status = "ok"
       /\ encodedDiag = Base64(TarGZ(fresult.doc, fresult.version))
       /\ message = NoMessage
       /\ jresult = "running"
  /\ jpc \in {"subnetKey", "upload"} => subnetResult = NoSubnet
  /\ jpc = "report" => Delivered(subnetResult)
  /\ jpc = "done" =>
       /\ (message # NoMessage) <=> (fresult.status = "ok")
       /\ message # NoMessage =>
            /\ message = ReportOf(subnetResult)
            /\ Delivered(subnetResult)

JInv == IInv /\ JobTypeOK /\ JobStages

\* A pair of elements of S is a sequence over S.
LEMMA PairSeq ==
  ASSUME NEW S, NEW a \in S, NEW b \in S
  PROVE  <<a, b>> \in Seq(S)
OBVIOUS

\* A sequence over S is one over any superset of S.
LEMMA SeqWiden ==
  ASSUME NEW S, NEW U, S \subseteq U, NEW s \in Seq(S)
  PROVE  s \in Seq(U)
BY SeqMonotonic

\* The cluster_url values are sequences: functions on 1..n.
LEMMA ShortSeq ==
  ASSUME NEW S
  PROVE  {<<>>} \cup [1..1 -> S] \cup [1..2 -> S] \subseteq Seq(S)
<1>1. <<>> \in Seq(S)
  BY EmptySeq
<1>2. [1..1 -> S] \subseteq Seq(S)
  BY SeqDef
<1>3. [1..2 -> S] \subseteq Seq(S)
  BY SeqDef
<1>4. QED
  BY <1>1, <1>2, <1>3

\* Unescaping keeps the length of the URL and its alphabet.
LEMMA ReplaceEscapedSlashType ==
  ASSUME NEW u \in ClusterURLs
  PROVE  /\ ReplaceEscapedSlash(u) \in Seq(URLTokens \cup {Slash})
         /\ Len(ReplaceEscapedSlash(u)) = Len(u)
<1>1. u \in Seq(URLTokens)
  BY ShortSeq DEF ClusterURLs
<1>2. QED
  BY <1>1 DEF ReplaceEscapedSlash

\* Every reply parses to a typed result that is an error or a non-empty URL.
LEMMA ParseReplyDelivered ==
  ASSUME NEW resp \in RespBodies
  PROVE  /\ ParseReply(resp) \in [url : Seq(URLTokens \cup {Slash}),
                                  err : SubnetErrors \cup {NoErr}]
         /\ Delivered(ParseReply(resp))
<1>1. CASE resp = NotJSON
  BY <1>1 DEF ParseReply, NotJSON, SubnetErrors, NoErr, Delivered
<1>2. CASE resp \in [kind : {"json"}, cluster_url : ClusterURLs]
  <2>1. resp.kind = "json" /\ resp.cluster_url \in ClusterURLs
    BY <1>2
  <2>2. CASE Len(resp.cluster_url) # 0
    BY <2>1, <2>2, ReplaceEscapedSlashType DEF ParseReply, Delivered, NoErr,
       SubnetErrors
  <2>3. CASE Len(resp.cluster_url) = 0
    BY <2>1, <2>3 DEF ParseReply, Delivered, NoErr, SubnetErrors
  <2>4. QED
    BY <2>2, <2>3
<1>3. QED
  BY <1>1, <1>2 DEF RespBodies

(* The report's SubnetResponse of a delivered result is non-empty and     *)
(* starts with "Error: " exactly when the result is an error.            *)
LEMMA SubnetResponseShape ==
  ASSUME NEW r \in [url : Seq(URLTokens \cup {Slash}), err : SubnetErrors \cup {NoErr}],
         Delivered(r)
  PROVE  /\ Len(SubnetResponse(r)) > 0
         /\ (SubnetResponse(r)[1] = "Error: ") <=> (r.err # NoErr)
<1>1. CASE r.err # NoErr
  BY <1>1 DEF SubnetResponse, ErrorText
<1>2. CASE r.err = NoErr
  <2>1. Len(r.url) > 0
    BY <1>2 DEF Delivered
  <2>2. r.url[1] \in URLTokens \cup {Slash}
    BY <2>1
  <2>3. QED
    BY <1>2, <2>1, <2>2 DEF SubnetResponse, URLTokens, Slash, PlainChar,
       EscLower, EscUpper
<1>3. QED
  BY <1>1, <1>2

\* The archive of a successful fetch.
LEMMA ArchiveType ==
  ASSUME FetchTypeOK, fresult.status = "ok"
  PROVE  Base64(TarGZ(fresult.doc, fresult.version))
           \in [base64 : [gzip : [version : {NoVersion}] \X Docs]]
<1>1. fresult.doc \in Docs /\ fresult.version = NoVersion
  BY DEF FetchTypeOK, NoResult
<1>2. QED
  BY <1>1 DEF Base64, TarGZ

\* The report built from a successful fetch and a delivered result is a message.
LEMMA ReportType ==
  ASSUME FetchTypeOK, fresult.status = "ok",
         NEW r \in [url : Seq(URLTokens \cup {Slash}), err : SubnetErrors \cup {NoErr}]
  PROVE  ReportOf(r) \in Messages
<1>1. fresult.doc \in Docs
  BY DEF FetchTypeOK, NoResult
<1>2. Base64(TarGZ(fresult.doc, fresult.version))
        \in [base64 : [gzip : [version : {NoVersion}] \X Docs]]
  BY ArchiveType
<1>3. SubnetResponse(r) \in Seq(URLTokens \cup {Slash, "Error: "} \cup SubnetErrors)
  <2>1. CASE r.err # NoErr
    <3>1. r.err \in URLTokens \cup {Slash, "Error: "} \cup SubnetErrors
          /\ "Error: " \in URLTokens \cup {Slash, "Error: "} \cup SubnetErrors
      BY <2>1
    <3>2. <<"Error: ", r.err>> \in Seq(URLTokens \cup {Slash, "Error: "} \cup SubnetErrors)
      BY <3>1, PairSeq
    <3>3. QED
      BY <2>1, <3>2 DEF SubnetResponse, ErrorText
  <2>2. CASE r.err = NoErr
    <3>1. r.url \in Seq(URLTokens \cup {Slash, "Error: "} \cup SubnetErrors)
      <4>1. URLTokens \cup {Slash} \subseteq URLTokens \cup {Slash, "Error: "} \cup SubnetErrors
        OBVIOUS
      <4>2. r.url \in Seq(URLTokens \cup {Slash})
        OBVIOUS
      <4>3. QED
        BY <4>1, <4>2, SeqWiden
    <3>2. QED
      BY <2>2, <3>1 DEF SubnetResponse
  <2>3. QED
    BY <2>1, <2>2
<1>4. QED
  BY <1>1, <1>2, <1>3 DEF ReportOf, MarshalReport, Messages

LEMMA InitJInv == JobInit => JInv
<1> SUFFICES ASSUME JobInit PROVE JInv
  OBVIOUS
<1>1. IInv
  BY InitIInv DEF JobInit
<1>2. NoSubnet \in [url : Seq(URLTokens \cup {Slash}), err : SubnetErrors \cup {NoErr}]
  BY EmptySeq DEF NoSubnet
<1>3. JobTypeOK
  BY <1>2 DEF JobInit, JobTypeOK, NoSubnet
<1>4. JobStages
  BY DEF JobInit, JobStages, NoSubnet, FetchInit
<1>5. QED
  BY <1>1, <1>3, <1>4 DEF JInv

\* A step of the job that leaves the fetch alone keeps the fetch invariant.
LEMMA IInvUnchanged ==
  ASSUME IInv, UNCHANGED fetchVars
  PROVE  IInv'
BY DEF IInv, FetchTypeOK, FetchOutcomeCorrect, Running, fetchVars

\* The results of the SUBNET leg that are errors.
LEMMA SubnetErrorDelivered ==
  ASSUME NEW e \in SubnetErrors
  PROVE  /\ [url |-> <<>>, err |-> e] \in [url : Seq(URLTokens \cup {Slash}),
                                           err : SubnetErrors \cup {NoErr}]
         /\ Delivered([url |-> <<>>, err |-> e])
BY EmptySeq DEF SubnetErrors, NoErr, Delivered

LEMMA NextJInv == JInv /\ [JobNext]_vars => JInv'
<1> SUFFICES ASSUME JInv, [JobNext]_vars PROVE JInv'
  OBVIOUS
<1>0. IInv /\ JobTypeOK /\ JobStages /\ FetchTypeOK
  BY DEF JInv, IInv
<1>1. CASE Start
  <2>1. jpc = "start" /\ fresult = NoResult /\ message = NoMessage
        /\ encodedDiag = NoMessage /\ subnetResult = NoSubnet /\ jresult = "running"
        /\ UNCHANGED <<fetchVars, deadlineSet, encodedDiag, apiKey, subnetResult, message>>
    BY <1>0, <1>1 DEF Start, JobStages
  <2>2. IInv'
    BY <1>0, <2>1, IInvUnchanged
  <2>3. jpc' \in {"fetch", "done"} /\ jresult' \in {"running", "nilDeadline"}
        /\ (jpc' = "fetch" => jresult' = "running")
    BY <1>1, <2>1 DEF Start
  <2>4. JobTypeOK'
    BY <1>0, <2>1, <2>3 DEF JobTypeOK
  <2>5. JobStages'
    BY <2>1, <2>3 DEF JobStages, fetchVars, NoResult
  <2>6. QED
    BY <2>2, <2>4, <2>5 DEF JInv
<1>2. CASE Fetch
  <2>1. IInv'
    BY <1>0, <1>2, NextIInv DEF Fetch
  <2>2. UNCHANGED jobVars /\ jpc = "fetch"
    BY <1>2 DEF Fetch
  <2>3. JobTypeOK'
    BY <1>0, <2>2 DEF jobVars, JobTypeOK
  <2>4. JobStages'
    BY <1>0, <2>2 DEF jobVars, JobStages
  <2>5. QED
    BY <2>1, <2>3, <2>4 DEF JInv
<1>3. CASE Archive
  <2>1. /\ jpc = "fetch" /\ fpc = "done" /\ message = NoMessage
        /\ jresult = "running" /\ subnetResult = NoSubnet
        /\ UNCHANGED <<fetchVars, deadlineSet, apiKey, subnetResult, message>>
    BY <1>0, <1>3 DEF Archive, JobStages
  <2>2. IInv'
    BY <1>0, <2>1, IInvUnchanged
  <2>3. CASE fresult.status = "ok"
    <3>1. jpc' = "subnetKey" /\ UNCHANGED jresult
          /\ encodedDiag' = Base64(TarGZ(fresult.doc, fresult.version))
      BY <1>3, <2>3 DEF Archive
    <3>2. Base64(TarGZ(fresult.doc, fresult.version))
            \in [base64 : [gzip : [version : {NoVersion}] \X Docs]]
      BY <1>0, <2>3, ArchiveType
    <3>3. JobTypeOK'
      BY <1>0, <2>1, <3>1, <3>2 DEF JobTypeOK
    <3>4. JobStages'
      BY <2>1, <2>3, <3>1 DEF JobStages, fetchVars
    <3>5. QED
      BY <2>2, <3>3, <3>4 DEF JInv
  <2>4. CASE fresult.status # "ok"
    <3>1. jresult' = fresult.status /\ jpc' = "done" /\ UNCHANGED encodedDiag
      BY <1>3, <2>4 DEF Archive
    <3>2. fresult.status \in {"running", "callErr", "reportFail"}
      BY <1>0, <2>4 DEF FetchTypeOK, NoResult
    <3>3. JobTypeOK'
      BY <1>0, <2>1, <3>1, <3>2 DEF JobTypeOK
    <3>4. JobStages'
      BY <2>1, <2>4, <3>1 DEF JobStages, fetchVars
    <3>5. QED
      BY <2>2, <3>3, <3>4 DEF JInv
  <2>5. QED
    BY <2>3, <2>4
<1>4. CASE SubnetKey
  <2>1. /\ jpc = "subnetKey" /\ subnetResult = NoSubnet
        /\ UNCHANGED <<fetchVars, deadlineSet, encodedDiag, message, jresult>>
    BY <1>0, <1>4 DEF SubnetKey, JobStages
  <2>2. IInv'
    BY <1>0, <2>1, IInvUnchanged
  <2>3. \/ /\ jpc' = "report" /\ UNCHANGED apiKey
           /\ \E e \in SubnetErrors : subnetResult' = [url |-> <<>>, err |-> e]
        \/ jpc' = "upload" /\ apiKey' \in APIKeys /\ UNCHANGED subnetResult
    BY <1>4 DEF SubnetKey, SubnetErrors, APIKeys
  <2>4. JobTypeOK'
    BY <1>0, <2>1, <2>3, SubnetErrorDelivered DEF JobTypeOK
  <2>5. JobStages'
    BY <1>0, <2>1, <2>3, SubnetErrorDelivered DEF JobStages, fetchVars
  <2>6. QED
    BY <2>2, <2>4, <2>5 DEF JInv
<1>5. CASE SubnetUpload
  <2>1. /\ jpc = "upload" /\ jpc' = "report"
        /\ UNCHANGED <<fetchVars, deadlineSet, encodedDiag, apiKey, message, jresult>>
    BY <1>0, <1>5 DEF SubnetUpload
  <2>2. IInv'
    BY <1>0, <2>1, IInvUnchanged
  <2>3. /\ subnetResult' \in [url : Seq(URLTokens \cup {Slash}), err : SubnetErrors \cup {NoErr}]
        /\ Delivered(subnetResult')
    <3>1. CASE \E e \in {"ProcessUploadInfo", "UploadFileToSubnet"} :
                 subnetResult' = [url |-> <<>>, err |-> e]
      BY <3>1, SubnetErrorDelivered DEF SubnetErrors
    <3>2. CASE \E resp \in RespBodies : subnetResult' = ParseReply(resp)
      BY <3>2, ParseReplyDelivered
    <3>3. QED
      BY <1>5, <3>1, <3>2 DEF SubnetUpload
  <2>4. JobTypeOK'
    BY <1>0, <2>1, <2>3 DEF JobTypeOK
  <2>5. JobStages'
    BY <1>0, <2>1, <2>3 DEF JobStages, fetchVars
  <2>6. QED
    BY <2>2, <2>4, <2>5 DEF JInv
<1>6. CASE Report
  <2>1. /\ jpc = "report" /\ fpc = "done" /\ fresult.status = "ok"
        /\ encodedDiag = Base64(TarGZ(fresult.doc, fresult.version))
        /\ Delivered(subnetResult)
        /\ subnetResult \in [url : Seq(URLTokens \cup {Slash}),
                             err : SubnetErrors \cup {NoErr}]
    BY <1>0, <1>6 DEF Report, JobStages, JobTypeOK
  <2>2. /\ message' = ReportOf(subnetResult) /\ jpc' = "done"
        /\ jresult' \in {"written", "writeErr"}
        /\ UNCHANGED <<fetchVars, deadlineSet, encodedDiag, apiKey, subnetResult>>
    BY <1>6, <2>1 DEF Report, ReportOf
  <2>3. ReportOf(subnetResult) \in Messages
    BY <1>0, <2>1, ReportType
  <2>4. ReportOf(subnetResult) # NoMessage
    BY DEF ReportOf, MarshalReport, NoMessage
  <2>5. IInv'
    BY <1>0, <2>2, IInvUnchanged
  <2>6. JobTypeOK'
    BY <1>0, <2>2, <2>3 DEF JobTypeOK
  <2>7. JobStages'
    BY <2>1, <2>2, <2>4 DEF JobStages, ReportOf, fetchVars
  <2>8. QED
    BY <2>5, <2>6, <2>7 DEF JInv
<1>7. CASE UNCHANGED vars
  <2>1. UNCHANGED fetchVars /\ UNCHANGED jobVars
    BY <1>7 DEF vars
  <2>2. IInv'
    BY <1>0, <2>1, IInvUnchanged
  <2>3. JobTypeOK' /\ JobStages'
    BY <1>0, <2>1 DEF fetchVars, jobVars, JobTypeOK, JobStages, ReportOf, Delivered
  <2>4. QED
    BY <2>2, <2>3 DEF JInv
<1>8. QED
  BY <1>1, <1>2, <1>3, <1>4, <1>5, <1>6, <1>7 DEF JobNext

(* startHealthInfo keeps its variables within their types: whatever the   *)
(* fetch and the SUBNET leg return, the report it writes is a well-formed *)
(* messageReport.                                                          *)
THEOREM JobTypeCorrect == JobSpec => []JobTypeOK
<1>1. JInv => JobTypeOK
  BY DEF JInv
<1>2. QED
  BY <1>1, InitJInv, NextJInv, PTL DEF JobSpec

(* The partial-failure contract: a finished job has written a report      *)
(* exactly when the capture succeeded, and the report carries that        *)
(* capture and its archive whatever the SUBNET leg did (the property the  *)
(* MCHealthInfoJob run checks).                                            *)
THEOREM CaptureReported == JobSpec => []CaptureAlwaysReported
<1>1. JInv => CaptureAlwaysReported
  BY DEF JInv, JobStages, CaptureAlwaysReported, ReportOf, MarshalReport
<1>2. QED
  BY <1>1, InitJInv, NextJInv, PTL DEF JobSpec

(* The report's subnetResponse is never empty and is an "Error: " text    *)
(* exactly when sendHealthInfoToSubnet failed, a reply without            *)
(* cluster_url included (the property the MCHealthInfoJob run checks).    *)
THEOREM SubnetResponseCorrect == JobSpec => []SubnetResponseWellFormed
<1>1. JInv => SubnetResponseWellFormed
  <2> SUFFICES ASSUME JInv, message # NoMessage
               PROVE  /\ Len(message.subnetResponse) > 0
                      /\ (message.subnetResponse[1] = "Error: ") <=> (subnetResult.err # NoErr)
    BY DEF SubnetResponseWellFormed
  <2>1. jpc = "done" /\ message = ReportOf(subnetResult) /\ Delivered(subnetResult)
    BY DEF JInv, JobStages, JobTypeOK
  <2>2. message.subnetResponse = SubnetResponse(subnetResult)
    BY <2>1 DEF ReportOf, MarshalReport
  <2>3. subnetResult \in [url : Seq(URLTokens \cup {Slash}), err : SubnetErrors \cup {NoErr}]
    BY DEF JInv, JobTypeOK
  <2>4. QED
    BY <2>1, <2>2, <2>3, SubnetResponseShape
<1>2. QED
  BY <1>1, InitJInv, NextJInv, PTL DEF JobSpec

=============================================================================
