# TLA+ models of the console's diagnostics, logging and REST edges

This directory holds TLA+ models of parts of the Go code under `src/`:
- TLC configurations that model-check them on small instances;
- TLAPS proofs of their main invariants for every value of the constants.

`PROJECT.json` lists:
- every component;
- every run;
- the mutant that shows each checked property can fail;
- the map from each definition to the source lines it translates;
- the findings;
- the hazards;
- the theorems.

## 1. The system and its parts

| Part | Source | Module(s) | Status |
|---|---|---|---|
| Streaming diagnostic fetch with retries: `AdminClient.serverHealthInfo` | `src/api/client-admin.go` 387-414 | `HealthFetch`, `HealthFetchProofs` | modelled |
| Diagnostic job: `startHealthInfo`, `tarGZ`, `sendHealthInfoToSubnet` | `src/api/admin_health_info.go` 39-176 | `HealthInfoJob` (extends `HealthFetch`), `HealthInfoJobProofs` | modelled |
| HTTP log target: `Init`, `startHTTPLogger`, `logEntry`, `Send`, `Cancel` | `src/pkg/logger/target/http/http.go` | `HTTPLogTarget`, `HTTPLogTargetProofs`, `LogQueue` (abstract), `HTTPLogTargetRefinement` | modelled |
| Generated REST responders: delete object, update user info | `src/api/operations/...` | `Responders`, `RespondersProofs` | modelled |
| Client address and outbound TLS trust: `getClientIP`, `isLocalIPAddress`, `GetConsoleHTTPClient` | `src/api/client-admin.go` 494-544 | `ClientAddress`, `ClientAddressProofs` | partly: `isLocalIPEndpoint` has no caller |
| `models.NotificationConfig` validation | `src/models/notification_config.go` | `NotificationConfig`, `NotificationConfigProofs` | partly: `MarshalBinary`/`UnmarshalBinary` are swag JSON conversion |
| `getHealthInfoOptionsFromReq` | `src/api/admin_health_info.go` | none | not modelled: pure query parsing; the deadline it yields is a nondeterministic input of the job |
| Admin client: `NewMinioAdminClient`, `newAdminFromClaims`, `listPolicies`, `getPolicy`, `addPolicy`, `removePolicy`, the remote-bucket calls | `src/api/client-admin.go` 40-234, 357-378, 446-470 | `AdminClient` (extends `ClientAddress`), `AdminClientProofs` | partly: the other methods are one-line forwards to madmin; `newAdminFromCreds` has no caller |
| Websocket transport and router | not in the source tree | none | not modelled; the job's report is one write |

### How the parts interact

A diagnostics request runs `startHealthInfo` on a websocket connection, in this order:
1. It checks the deadline.
2. It calls `serverHealthInfo`.
3. It compresses and base64-encodes the document.
4. When a SUBNET key can be found, it uploads the document with an HTTP client from `GetConsoleHTTPClient("", clientIP)`.
5. It writes one `messageReport` to the connection.

`HealthInfoJob` therefore EXTENDS `HealthFetch`: the job's `Fetch` step runs the fetch's actions to completion. The SUBNET client's trust decision is the subject of `ClientAddress`.

A REST request builds its admin client with `NewMinioAdminClient`, whose transport is `GetConsoleHTTPClient(getMinIOServer(), clientIP)`. `AdminClient` therefore EXTENDS `ClientAddress`: serving the request computes the client IP, and `NewAdminFromClaims` builds the client through `GetConsoleHTTPClient`. The admin server is shared: other administrators change its policies and remote targets between the console's calls.

The log target is independent of the job. Any number of goroutines call `Send` concurrently with its worker goroutine and with `Cancel`.

The responders and the notification-config validation are the REST layer's generated code. Handlers build and validate them; the go-swagger runtime writes them.

## 2. Modules and how they correspond to the code

### `HealthFetch`

`serverHealthInfo` is one goroutine.

**State:**
- `fpc`: loop test, inner decode loop, or done.
- `tryCount`.
- `info`: the one `madmin.HealthInfo` that survives all attempts. It is a record of a `version` field and one abstract `payload` field.
- `remoteVersion`: what the call returned.
- `objCount`: bounded by `MaxObjects`.
- `lastObj`, `slept`, and the returned triple `fresult`.

**Actions:**
- `CallServerHealthInfo`: the loop test and the call. The call either fails, and the fetch returns its error, or opens a stream.
- `DecodeObject`: a successful `Decode(&info)`.
- `EndOfStream`: the failing `Decode` that breaks the inner loop. A syntax error or EOF applies nothing; a type error applies the fields that fit. Then `tryCount++` and the sleep follow in the same step.
- `ReturnFromFetch`.

`DecodeInto` is the field-wise merge that `json.Decoder.Decode` performs into an existing struct. The `:=` on line 394 is modelled as what it does: the call's version goes into a new variable (`remoteVersion`), and the function returns its own never-assigned `version`.

### `HealthInfoJob`

The job's program counter `jpc` runs through these actions:
- `Start`: the deadline check;
- `Fetch`: the whole `HealthFetch` run, followed by its error path;
- `Archive`: `tarGZ` and base64;
- `SubnetKey`: `GetSubnetKeyFromMinIOConfig`, then the license fallback;
- `SubnetUpload`: `ProcessUploadInfo` and `UploadFileToSubnet`;
- `ParseReply(resp)`: `json.Unmarshal`, the `cluster_url` length check, and `ReplaceAll("%2f", "/")`;
- `Report`: assemble and write the message.

An error of the SUBNET leg becomes the report's `SubnetResponse` text (`SubnetResponse(res)`). A fetch error ends the job with the error.

A `cluster_url` is a sequence of tokens: a plain character, `%2f`, or `%2F`. The replace is then a map over the tokens.

### `HTTPLogTarget`

**State:**
- `status`;
- the buffered channel `logCh`, a sequence of at most `QueueSize` entries;
- `closed`;
- the WaitGroup counter `wg`;
- the program counters of `Init` (`initPc`), of the goroutine started by `Init` (`starterPc`), of the worker (`workerPc`), of each sender (`sendPc`) and of `Cancel` (`cancelPc`);
- the worker's `current` entry;
- `crashed`: a send on a closed channel panicked;
- the history variables `accepted` (entries `Send` put on the channel) and `logged` (entries `logEntry` finished).

**How the code's steps are split:**
- `Send` is two steps, `SendLoadStatus` (line 198) and `SendSelect` (lines 203-211). This is because `atomic.LoadInt32` and the channel send are separate.
- `Cancel` is three steps: the CAS, the `close`, and the `wg.Wait`.
- The goroutine of `Init` does `wg.Add(1)` only when it is scheduled (`StartHTTPLogger`). This is line 176 inside the function that line 117 starts with `go`.
- `logEntry` is one step: the POST and its logging have no effect on the target's state.

Entries are pairs `<<sender, n>>`, so every entry is distinct and order and duplication can be observed.

### `Responders`

**State:** the responder built by the handler:
- its `kind`;
- `_statusCode` or the fixed 200;
- `Payload`;
- and, after `WriteResponse`, what the `http.ResponseWriter` received: the status passed to `WriteHeader`, whether `Content-Type` is still set, and the produced body. It also records whether `WriteResponse` panicked.

**Actions:**
- `New`: the constructors, with `DefaultCode` for `code <= 0`.
- `SetStatusCode`, `SetPayload`.
- `WriteEmptyResponse`: `DeleteObjectOK`.
- `WriteResponse`: the types with a payload.

### `ClientAddress`

The model serves one request:
- `ServeRequest` computes `GetClientIP(req)`.
- `GetConsoleHTTPClient(a)` builds the outbound client for a target address `a`.

Target addresses come in three forms:
- `""`: the SUBNET client;
- a URL: `url.Parse` succeeds and `Hostname()` is taken;
- a bare `host:port`: `url.Parse` fails and the address is used as is.

### `AdminClient`

**State:**
- the server's `store` (policy name to stored JSON, a function whose domain grows and shrinks like the Go map) and `remote` (bucket to its targets, in order);
- `admin`: the outcome of `NewMinioAdminClient`;
- the `listPolicies` loop: `call`, `policyMap` (the map `ListCannedPolicies` returned), `todo` (keys not yet ranged over), `acc` (the `policies` map built so far);
- `ret`: the last call's operation, error, value and the server's answer;
- the bounds `calls` (`MaxCalls`) and `changes` (`MaxChanges`).

A stored policy is the document it encodes and whether the console's strict decoder accepts it: a document written by a newer server or another tool may not decode. `Marshal` is `Policy.MarshalJSON`, which validates first; `ParseConfig` is the decoder.

**Actions:**
- `NewAdminFromClaims(server)`: `madmin.NewWithOptions` fails, or the client is built with `GetConsoleHTTPClient(server)`;
- `ListPolicies` (the RPC), `ListPoliciesParse` (one iteration of the range, in any order, returning at the first decode error) and `ListPoliciesReturn`;
- `GetPolicy`, `AddPolicy`, `RemovePolicy`, `GetRemoteBucket` (the first target, or nil with a nil error), `AddRemoteBucket`, `RemoveRemoteBucket`;
- `OtherPutPolicy`, `OtherRemovePolicy`, `OtherAddTarget`: other administrators. These model the environment and are not mapped to code.

### `LogQueue`

The abstract specification of a log target, written from what `Send` and `Cancel` promise their callers:
- it is opened once;
- it accepts fresh entries while open, with at most `Capacity` outstanding;
- it delivers them in order, each once, with delivery weakly fair;
- it may halt, and only after it was closed.

`HTTPLogTarget` instantiates it as `LQ`, with this refinement mapping:
- `sent <- accepted`;
- `delivered <- logged`;
- `state <- TargetState`: "new" until `Init` succeeded, then "open" until `Cancel` closed the channel, then "closed";
- `halted <- crashed`;
- `Capacity <- QueueSize + 1`: the buffered channel plus the entry the worker holds while posting.

`ImplementsLogQueue == LQ!QSpec` is a property of the `logger` run.

### `NotificationConfig`

`ValidationInit` picks any config with up to `MaxEvents` events. The runtime then calls `Validate` and `ContextValidate` one after the other, in either order. Each call starts only while the other one is not inside its loop.

Each call is modelled one step per loop iteration, as the Go code runs it:
- `ValidateArn`: `Validate` starts `res` with `validateArn`'s error (`Required`).
- `ValidateEvents`: one iteration of `validateEvents`. An element the enum rejects ends the loop with `events.<i>` (0-based) appended to `res`; a valid one moves `vi` on.
- `ValidateReturn`: the loop ran out and `Validate` returns `res`.
- `ContextValidate`, `ContextValidateEvents`, `ContextValidateReturn`: the same for `contextValidateEvents`. A zero element returns nil at once, and an element whose `ContextValidate` fails returns its renamed error.

`vresult` and `cresult` are the two `res` slices. `vpc`/`cpc` and `vi`/`ci` are where each call is and its loop index. Since the loops are steps and not recursive operators, the module can be reasoned about with a loop invariant (`NotificationConfigProofs`).

## 3. Runs

Every pass run is listed with its properties in `PROJECT.json`.

| Run | Bounds | What it shows |
|---|---|---|
| `fetch` (`MCHealthFetch.cfg`) | `MaxTries = 3`, `MaxObjects = 2`, one document version, two payloads | The outcome is justified by the attempts (`FetchOutcomeCorrect`), and the fetch returns (`FetchTerminates`). |
| `job` (`MCHealthInfoJob.cfg`) | `MaxTries = 2`, `MaxObjects = 2`, `cluster_url` of up to 2 tokens | Every successful capture is reported whatever SUBNET does (`CaptureAlwaysReported`), and the SUBNET response shown is an "Error: " text exactly when the upload failed (`SubnetResponseWellFormed`). |
| `logger` (`MCHTTPLogTarget.cfg`) | 2 senders, 2 sends each, `QueueSize = 1` | `accepted = logged \o InFlight \o logCh` (`LoggedInOrder`), every accepted entry is posted (`EveryAcceptedEntryLogged`), `Cancel` returns (`CancelReturns`), and the target implements `LogQueue`, including its fairness (`ImplementsLogQueue`). |
| `responders` | codes {0, 201, 403}, 3 payloads | The responders stay within their types; in particular a nil payload is never produced (`ResponderTypeOK`). |
| `admin_client` (`MCAdminClient.cfg`) | one loopback IP, one other IP, one host name; three representative requests; two policy names, one valid and one invalid document; one bucket with at most one target; 2 calls; 1 change by another administrator | The admin client's transport skips TLS only for a loopback server URL (`InsecureOnlyForLoopbackTarget`). `listPolicies` returns every listed policy decoded, or fails because one of them cannot be decoded (`ListPoliciesAllOrNothing`). |
| `notification_config` | every config of up to 3 events over {put, bad, ctxbad, zero} | `Validate` equals a reference definition written with sets (`ValidateIsCorrect`), and `ContextValidate` reports only the lowest failing index (`ContextValidateSound`). |

**Why these bounds are enough:**
- `MaxTries = 3` with two objects per stream reaches these cases:
  - success on the first, second and last attempt;
  - a version set by a type-error object;
  - give-up after every attempt.
- `QueueSize = 1` with two senders reaches a full buffer, a send racing `Cancel`, and the worker exiting with entries still queued.
- Three events reach a valid event before and after an invalid one, and a zero element in front of a failing one.
- Two policy names reach a map with one decodable and one undecodable document, in both range orders. A change by another administrator can fall between the list call and a later call. `MCAdminClient` replaces the request set with three requests: one named by `X-Forwarded-For`, a loopback `X-Real-IP`, and a `RemoteAddr` only. The full request set is covered by `ClientAddressProofs` for every value of the constants.

### Violation runs

Each violation run checks one statement of the spec or of a comment, and TLC refutes it. `PROJECT.json` "findings" holds the details:
- `fetch_remote_version`: the shadowed `version` is returned empty.
- `logger_send_after_close`:
  - `Send` passes the status check;
  - `Cancel` then closes the channel;
  - the send panics.
- `logger_cancel_drains`: `Cancel` returns before the worker has even started, with entries queued. This is because `wg.Add` runs inside the goroutine.
- `responders_code`: `SetStatusCode(0)` reaches `WriteHeader(0)`, which panics.
- `client_ip_fallback`: a blank first `X-Forwarded-For` entry gives `""` and no fallback to `RemoteAddr`.
- `subnet_trust`: the SUBNET client's TLS trust never depends on the caller, contrary to spec 4.4.

The models also reproduce these behaviours, listed as hazards, with no run asserting the contrary:
- the fetch's result is a merge of every object of every attempt, not the last object;
- the back-off sleep also follows the successful attempt;
- only the lowercase `%2f` of a `cluster_url` is decoded;
- a zero element ends `contextValidateEvents` early, so later elements go unchecked.

### Mutants

Every property of a pass run is broken by a mutant: a faulty variant of a mapped definition, defined just before it in the module. Examples:
- `LoopConditionOffByOne`;
- `SendSelectDropsSilently`: the full-buffer branch returns nil, which breaks `LoggedInOrder`;
- `StartHTTPLoggerNoAdd`: `wg.Add(1)` left out, so the worker's `Done` drives the counter below zero, which breaks `LogTypeOK`;
- `ContextValidateEventsGoesOn`.

## 4. Fairness

- The fetch and the job each run on one goroutine, so `WF` of their next-state relation is assumed.
- In the log target, these steps are weakly fair because each is a step of a goroutine that, once runnable, is scheduled:
  - the goroutine that `Init` starts;
  - the worker's receive, exit and post;
  - a sender's channel operation once it has loaded the status;
  - the `close` and `Wait` of a `Cancel` already under way.
- `Init`, `SendLoadStatus`, `CancelCAS` and the choice of inputs are calls of the target's users. They get no fairness, since nobody is obliged to log or to cancel.
- `AdminClient` and `Responders` check no liveness property and assume no fairness.
- The responders and `NotificationConfig` runs check only invariants.

## 5. Proofs (TLAPS)

### `HealthFetchProofs`

Theorems:
- `FetchTypeCorrect`: `FetchSpec => []FetchTypeOK`;
- `FetchOutcome`: `FetchSpec => []FetchOutcomeCorrect`.

They hold for every `MaxTries > 0`, `MaxObjects` and value sets (`FetchAssumption`).

`FetchOutcomeCorrect` is not inductive by itself. The strengthening `Running` adds two facts:
- before the return nothing has been returned;
- inside the decode loop `tryCount < MaxTries` (the loop test held when the attempt began).

The second fact keeps `tryCount` in range when `EndOfStream` increments it. `IInv == FetchTypeOK /\ FetchOutcomeCorrect /\ Running` is proved initial and preserved action by action.

### `HTTPLogTargetProofs`

Theorems:
- `LogTypeCorrect`: `Spec => []LogTypeOK`, including `Len(logCh) <= QueueSize`;
- `LogOrder`: `Spec => []LoggedInOrder`.

They hold for every set of senders, every `MaxSends` and every `QueueSize > 0`.

The strengthening `Counters` relates the program counters:
- `wg` is 1 exactly while the worker is in its loop;
- nothing is started before `Init` succeeds;
- a worker in `logEntry` holds an entry;
- a sender in `select` has counted its call.

The order proof uses these sequence lemmas, from `SequenceTheorems`:
- head/tail decomposition;
- associativity of `\o` on `Seq(Entries)`;
- `Append` as `\o`.

### `HTTPLogTargetRefinement`

Theorem `LogTargetRefinesQueue`: `Spec => LQ!QInit /\ [][LQ!QNext]_LQ!qvars`. This is the safety part of `ImplementsLogQueue`, for every set of senders, every `MaxSends` and every `QueueSize > 0`.

The proof maps each step of the target to a step of the FIFO:
- a successful `Init` maps to `Open`;
- `logEntry` finishing maps to `Deliver`;
- a successful `SendSelect` maps to `Accept(e)`;
- a send on the closed channel maps to `Halt`;
- the `close` of `Cancel` maps to `Close`;
- every other step is a stutter.

It rests on `RInv`, the log invariant `IInv` of `HTTPLogTargetProofs` strengthened by two more facts:
- `Phases`: a sender can load status 1 only while `Init` has succeeded and the channel is open, and a crash happens only after the channel was closed.
- `Numbered`: the n-th entry of a sender carries a number below its send count. This is what makes a new entry fresh, which `Accept`'s guard requires.

`RInv` was first checked as an invariant with TLC on the `logger` instance.

### `RespondersProofs`

Theorems:
- `ResponderTypeCorrect`: `ResponderSpec => []ResponderTypeOK`.

It holds for every set of integer codes and payloads. The strengthening adds three facts:
- `Written`: after `WriteResponse`, the status line carries the stored code and a body is the payload set last;
- `Unwritten`: before `WriteResponse`, nothing reached the writer;
- `NoPayloadField`: `DeleteObjectOK` never holds a payload.

### `ClientAddressProofs`

Theorem `InsecureOnlyForLoopback`: `AddrSpec => []InsecureOnlyForLoopbackTarget`. `AdminClientProofs` carries it to `AdminSpec`. It holds for all sets of loopback IPs, other IPs and names. It rests on two lemmas:
- `HostnameLoopback`: the host `isLocalIPAddress` is asked about is a loopback IP exactly for a URL with a loopback host. The `host:port` case uses `HostPortAssumption`: `net.ParseIP` rejects such a string.
- `ClientIPType`: `getClientIP` returns a host or `""`.

### `AdminClientProofs`

Theorems:
- `AdminTypeCorrect`: `AdminSpec => []AdminTypeOK`;
- `ListPoliciesCorrect`: `AdminSpec => []ListPoliciesAllOrNothing`.

They hold for every set of policy names, documents, buckets and targets, and for every bound. `ListPoliciesAllOrNothing` is not inductive by itself: a step of the range must know what the earlier steps did. The strengthening `LoopInv` states what holds while the range runs:
- the keys left are keys of `policyMap`;
- the keys done are exactly the other keys;
- each key done holds a decodable document, and `acc` holds its decoded form;
- the call was allowed by `MaxCalls` when it started.

Two more theorems carry `ClientAddressProofs`' invariant to the composed specification, where the `admin_client` run checks it:
- `AdminAddrTypeCorrect`: `AdminSpec => []AddrTypeOK`;
- `AdminInsecureOnlyForLoopback`: `AdminSpec => []InsecureOnlyForLoopbackTarget`.

Lemma `CallsKeepAddress` shows that the admin calls and the other administrators leave the address variables unchanged. `AdminAddrInv` then reduces every other step to a step of `AddrNext`, or to the failure branch of `NewAdminFromClaims`.

Go maps are functions whose domain is any subset of the keys (`Maps(K, T)`). The lemmas `EmptyMap`, `PutMap` and `RestrictMap` show that `<<>>`, `Put` and `Restrict` stay maps. `PlainReturn` covers every call that returns in one step.

### `HealthInfoJobProofs`

Theorems:
- `JobTypeCorrect`: `JobSpec => []JobTypeOK`;
- `CaptureReported`: `JobSpec => []CaptureAlwaysReported`;
- `SubnetResponseCorrect`: `JobSpec => []SubnetResponseWellFormed`.

They hold for every `MaxTries > 0`, `MaxObjects` and value sets. The module extends `HealthFetchProofs`, and the fetch's `IInv` is part of the job's invariant. The job's steps leave the fetch variables alone (`IInvUnchanged`); its `Fetch` step is a step of the fetch (`NextIInv`).

Neither property is inductive by itself. At `done` they speak of the report, and what the report holds depends on earlier steps. The strengthening `JobStages` states what each `jpc` implies:
- before `Archive` nothing is encoded, uploaded or written;
- between `Archive` and `Report` the fetch returned "ok" and `encodedDiag` is its archive;
- from `Report` on, `subnetResult` is `Delivered`: an error or a non-empty URL.
- at `done`, `message` is `ReportOf(subnetResult)` exactly when the fetch succeeded.

These lemmas support it:
- `ParseReplyDelivered`: every reply parses to a typed, delivered result. An empty `cluster_url` becomes `ErrSubnetUploadFail`.
- `SubnetResponseShape`: the response text is non-empty and starts with "Error: " exactly for an error.
- `ReplaceEscapedSlashType`: unescaping keeps the length and the alphabet.
- `PairSeq`, `ShortSeq`, `SeqWiden`: the small facts about `Seq` those lemmas need, stated over any set.

`JInv` was first checked as an invariant with TLC on the `job` instance.

### `NotificationConfigProofs`

Theorems:
- `ValidationTypeCorrect`: `ValidationSpec => []ValidationTypeOK`;
- `ValidateCorrect`: `ValidationSpec => []ValidateIsCorrect`;
- `ContextValidateCorrect`: `ValidationSpec => []ContextValidateSound`.

They hold for every `MaxEvents` and every set of event values (`ConfigAssumption`), so for slices of any length. The TLC run covers up to three events.

The proof rests on the loop invariants:
- `ValidateLoopInv`: `res` holds `validateArn`'s error, and every element before `vi` is in the enum.
- `ContextLoopInv`: nothing is collected yet, and every element before `ci` passed its context validation.

When a loop stops at element `i`, `FirstIndexIn` shows `i - 1` is the `Least` of the rejected indexes. When a loop runs out, `NoIndexIn` shows there are none. `EventsSeq` turns a config's events into a sequence of at most `MaxEvents` values.

`NInv` was first checked as an invariant with TLC on the `notification_config` instance.

### Only model-checked

These properties are checked by TLC and not proved:
- Liveness: `FetchTerminates`, `EveryAcceptedEntryLogged`, `CancelReturns` and the fairness part of `ImplementsLogQueue`. They need fairness and `ENABLED`, which TLAPS does not handle here.

Every invariant and action property of a pass run is proved by a theorem listed in `PROJECT.json`.

## 6. Not modelled, and next steps

Not modelled:
- The HTTP and TLS transport: `PrepareConsoleHTTPClient`, certificate loading.
- Context cancellation of a sleeping fetch.
- The response bodies that are never closed.
- JSON marshalling, except `Policy.MarshalJSON`'s validation and the policy decoder's accept/reject, which `AdminClient` keeps.
- The admin methods that only forward to madmin (users, groups, config, KMS, IDP, tiers, the site-replication copies).

Next steps:
- Two concurrent diagnostic jobs, to cover the upload filename collision at `admin_health_info.go:133`.
- A refinement of `AdminClient`'s `listPolicies` range to an atomic read of the policy map.
