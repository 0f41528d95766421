--------------------------- MODULE HealthInfoJob ---------------------------
(***************************************************************************)
(* startHealthInfo (src/api/admin_health_info.go): one diagnostic job on  *)
(* one websocket connection.  It checks the deadline, runs the fetch of    *)
(* HealthFetch, archives the document (tarGZ, then base64), relays it to   *)
(* SUBNET (sendHealthInfoToSubnet: key resolution, upload, parsing of the  *)
(* reply), assembles the messageReport and writes it to the connection.   *)
(* A fetch error ends the job; an error of the SUBNET leg only becomes the *)
(* report's SubnetResponse text.                                           *)
(*                                                                         *)
(* tarGZ and json.Marshal(report) re-encode a document that was decoded   *)
(* from JSON into a bytes.Buffer, so their error returns cannot be taken   *)
(* and the model has no step for them.                                     *)
(***************************************************************************)
EXTENDS HealthFetch, Sequences

(* Strings the SUBNET reply's cluster_url is made of, as tokens: a plain   *)
(* character, the two spellings of an escaped '/', and '/' itself.        *)
PlainChar == "x"
EscLower == "%2f"
EscUpper == "%2F"
Slash == "/"
URLTokens == {PlainChar, EscLower, EscUpper}

\* cluster_url values of length 0..2 (0 is an absent or empty field).
ClusterURLs == {<<>>} \cup [1..1 -> URLTokens] \cup [1..2 -> URLTokens]

\* Bodies UploadFileToSubnet may return: not JSON, or a JSON object.
NotJSON == [kind |-> "text"]
RespBodies == {NotJSON} \cup [kind : {"json"}, cluster_url : ClusterURLs]

\* The errors of the SUBNET leg, by the call that returns them.
SubnetErrors == {"GetSubnetKeyFromMinIOConfig", "GetSubnetAPIKeyUsingLicense",
                 "ProcessUploadInfo", "UploadFileToSubnet", "json.Unmarshal",
                 "ErrSubnetUploadFail"}
NoErr == "nil"

\* strings.ReplaceAll(url, "%2f", "/")
ReplaceEscapedSlash(url) ==
  [i \in DOMAIN url |-> IF url[i] = EscLower THEN Slash ELSE url[i]]

\* fmt.Sprintf("Error: %s", err.Error())
ErrorText(e) == <<"Error: ", e>>

\* tarGZ(healthInfo, version) then base64: a gzip stream of the JSON header
\* {"version": version} followed by the JSON document, base64-encoded.
TarGZ(doc, v) == [gzip |-> <<[version |-> v], doc>>]
Base64(bytes) == [base64 |-> bytes]

\* json.Marshal(report): the fields under their json tags.
MarshalReport(enc, doc, resp) ==
  [encoded |-> enc, serverHealthInfo |-> doc, subnetResponse |-> resp]

\* API keys: none yet, the configured one, or one exchanged for the license.
NoKey == "none"
APIKeys == {"configured", "fromLicense"}

NoMessage == [none |-> TRUE]

VARIABLES
  jpc,           \* where startHealthInfo is
  deadlineSet,   \* deadline != nil
  encodedDiag,   \* encodedDiag
  apiKey,        \* apiKey of sendHealthInfoToSubnet
  subnetResult,  \* what sendHealthInfoToSubnet returned: url and err
  message,       \* the message handed to conn.writeMessage
  jresult        \* what startHealthInfo returned

jobVars == <<jpc, deadlineSet, encodedDiag, apiKey, subnetResult, message,
             jresult>>
vars == <<fetchVars, jobVars>>

JobInit ==
  /\ FetchInit
  /\ jpc = "start"
  /\ deadlineSet \in BOOLEAN
  /\ encodedDiag = NoMessage
  /\ apiKey = NoKey
  /\ subnetResult = [url |-> <<>>, err |-> NoErr]
  /\ message = NoMessage
  /\ jresult = "running"

\* if deadline == nil { return errors.New(...) }; else fetch.
Start ==
  /\ jpc = "start"
  /\ IF deadlineSet
       THEN /\ jpc' = "fetch"
            /\ UNCHANGED jresult
       ELSE /\ jpc' = "done"
            /\ jresult' = "nilDeadline"
  /\ UNCHANGED <<fetchVars, deadlineSet, encodedDiag, apiKey, subnetResult,
                 message>>

\* client.serverHealthInfo, one step of HealthFetch.
Fetch ==
  /\ jpc = "fetch"
  /\ FetchNext
  /\ UNCHANGED jobVars

(* serverHealthInfo has returned: its error ends the job; otherwise tarGZ  *)
(* and base64 encoding, then the SUBNET leg.                               *)
Archive ==
  /\ jpc = "fetch"
  /\ fpc = "done"
  /\ IF fresult.status = "ok"
       THEN /\ jpc' = "subnetKey"
            /\ encodedDiag' = Base64(TarGZ(fresult.doc, fresult.version))
            /\ UNCHANGED jresult
       ELSE /\ jpc' = "done"
            /\ jresult' = fresult.status
            /\ UNCHANGED encodedDiag
  /\ UNCHANGED <<fetchVars, deadlineSet, apiKey, subnetResult, message>>

(* sendHealthInfoToSubnet up to the API key: read the SUBNET config from   *)
(* MinIO; use its APIKey when non-empty, else exchange its license.        *)
SubnetKey ==
  /\ jpc = "subnetKey"
  /\ \/ /\ subnetResult' = [url |-> <<>>, err |-> "GetSubnetKeyFromMinIOConfig"]
        /\ jpc' = "report"
        /\ UNCHANGED apiKey
     \/ /\ apiKey' = "configured"
        /\ jpc' = "upload"
        /\ UNCHANGED subnetResult
     \/ /\ apiKey' = "fromLicense"
        /\ jpc' = "upload"
        /\ UNCHANGED subnetResult
     \/ /\ subnetResult' = [url |-> <<>>, err |-> "GetSubnetAPIKeyUsingLicense"]
        /\ jpc' = "report"
        /\ UNCHANGED apiKey
  /\ UNCHANGED <<fetchVars, deadlineSet, encodedDiag, message, jresult>>

\* Faulty variant: an empty cluster_url taken as success.
ParseReplyNoLenCheck(resp) ==
  IF resp.kind = "text"
    THEN [url |-> <<>>, err |-> "json.Unmarshal"]
    ELSE [url |-> ReplaceEscapedSlash(resp.cluster_url), err |-> NoErr]

(* The cluster_url of a JSON reply, unescaped, or ErrSubnetUploadFail.    *)
ParseReply(resp) ==
  IF resp.kind = "text"
    THEN [url |-> <<>>, err |-> "json.Unmarshal"]
  ELSE IF Len(resp.cluster_url) # 0
    THEN [url |-> ReplaceEscapedSlash(resp.cluster_url), err |-> NoErr]
  ELSE [url |-> <<>>, err |-> "ErrSubnetUploadFail"]

(* The rest of sendHealthInfoToSubnet: build the multipart body, upload it *)
(* and parse the reply.                                                     *)
SubnetUpload ==
  /\ jpc = "upload"
  /\ \/ subnetResult' = [url |-> <<>>, err |-> "ProcessUploadInfo"]
     \/ subnetResult' = [url |-> <<>>, err |-> "UploadFileToSubnet"]
     \/ \E resp \in RespBodies : subnetResult' = ParseReply(resp)
  /\ jpc' = "report"
  /\ UNCHANGED <<fetchVars, deadlineSet, encodedDiag, apiKey, message, jresult>>

\* Faulty variant: the error value itself put in the report, unformatted.
SubnetResponseRawErr(res) ==
  IF res.err # NoErr THEN res.err ELSE res.url

\* The report's SubnetResponse: the URL, or the error text when err != nil.
SubnetResponse(res) ==
  IF res.err # NoErr THEN ErrorText(res.err) ELSE res.url

\* Faulty variant: an error of the SUBNET leg returned from startHealthInfo.
ReportAbortsOnSubnetErr ==
  /\ jpc = "report"
  /\ IF subnetResult.err # NoErr
       THEN /\ jresult' = subnetResult.err
            /\ UNCHANGED message
       ELSE /\ message' = MarshalReport(encodedDiag, fresult.doc,
                                        SubnetResponse(subnetResult))
            /\ jresult' \in {"written", "writeErr"}
  /\ jpc' = "done"
  /\ UNCHANGED <<fetchVars, deadlineSet, encodedDiag, apiKey, subnetResult>>

(* Assemble the messageReport, marshal it and write it to the websocket;   *)
(* startHealthInfo returns what writeMessage returns.                      *)
Report ==
  /\ jpc = "report"
  /\ message' = MarshalReport(encodedDiag, fresult.doc,
                              SubnetResponse(subnetResult))
  /\ jresult' \in {"written", "writeErr"}
  /\ jpc' = "done"
  /\ UNCHANGED <<fetchVars, deadlineSet, encodedDiag, apiKey, subnetResult>>

JobNext ==
  \/ Start
  \/ Fetch
  \/ Archive
  \/ SubnetKey
  \/ SubnetUpload
  \/ Report

\* The job runs on the goroutine serving the websocket request.
JobSpec == JobInit /\ [][JobNext]_vars /\ WF_vars(JobNext)

-----------------------------------------------------------------------------
(***************************************************************************)
(* Properties                                                              *)
(***************************************************************************)

Messages == [encoded : [base64 : [gzip : [version : {NoVersion}] \X Docs]],
             serverHealthInfo : Docs,
             subnetResponse : Seq(URLTokens \cup {Slash, "Error: "} \cup SubnetErrors)]

JobTypeOK ==
  /\ jpc \in {"start", "fetch", "subnetKey", "upload", "report", "done"}
  /\ deadlineSet \in BOOLEAN
  /\ encodedDiag \in {NoMessage} \cup [base64 : [gzip : [version : {NoVersion}] \X Docs]]
  /\ apiKey \in {NoKey} \cup APIKeys
  /\ subnetResult \in [url : Seq(URLTokens \cup {Slash}), err : SubnetErrors \cup {NoErr}]
  /\ message \in {NoMessage} \cup Messages
  \* "written" (nil) or an error value of startHealthInfo or its callees
  /\ jresult \in {"running", "written", "nilDeadline", "callErr", "reportFail",
                   "writeErr"} \cup SubnetErrors

(* The partial-failure contract (spec 4.5): when the job ends, a report   *)
(* was handed to the connection exactly when the capture succeeded, and   *)
(* it carries that captured document and its archive, whatever happened   *)
(* on the SUBNET leg.                                                      *)
CaptureAlwaysReported ==
  jpc = "done" =>
    /\ (message # NoMessage) <=> (fresult.status = "ok")
    /\ message # NoMessage =>
         /\ message.serverHealthInfo = fresult.doc
         /\ message.encoded = Base64(TarGZ(fresult.doc, fresult.version))

(* The report's subnetResponse is never empty, and it is an "Error: "     *)
(* text exactly when the SUBNET leg failed: a reply without cluster_url    *)
(* counts as a failure, not as an empty success (spec 3 and 4.4).         *)
SubnetResponseWellFormed ==
  message # NoMessage =>
    /\ Len(message.subnetResponse) > 0
    /\ (message.subnetResponse[1] = "Error: ") <=> (subnetResult.err # NoErr)

=============================================================================
