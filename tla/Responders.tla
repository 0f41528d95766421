----------------------------- MODULE Responders -----------------------------
(***************************************************************************)
(* The generated swagger responders of the REST layer                      *)
(* (src/api/operations/object/delete_object_responses.go and               *)
(* src/api/operations/user/update_user_info_responses.go).  A handler      *)
(* builds one responder with its New... constructor, may set its status    *)
(* code and its payload, and returns it; the runtime then calls            *)
(* WriteResponse once on the http.ResponseWriter.                          *)
(*                                                                         *)
(* Four responder types, by what they carry:                               *)
(*   DeleteObjectOK       fixed 200, no payload, drops Content-Type;       *)
(*   UpdateUserInfoOK     fixed 200, a *models.User payload;               *)
(*   DeleteObjectDefault and UpdateUserInfoDefault: a _statusCode and a   *)
(*                        *models.APIError payload.                         *)
(* producer.Produce may fail; WriteResponse then panics, after the status  *)
(* line was written.                                                        *)
(***************************************************************************)
EXTENDS Integers, Sequences

CONSTANTS
  Codes,      \* status codes handlers pass to New...Default / SetStatusCode
  Payloads,   \* payload pointers a handler may set
  Nil         \* the nil pointer

ASSUME ResponderAssumption ==
  /\ Codes \subseteq Int
  /\ Nil \notin Payloads

Kinds == {"DeleteObjectOK", "UpdateUserInfoOK", "DeleteObjectDefault",
          "UpdateUserInfoDefault"}
DefaultKinds == {"DeleteObjectDefault", "UpdateUserInfoDefault"}
\* The types that have a Payload field.
PayloadKinds == Kinds \ {"DeleteObjectOK"}

NoCode == -1

VARIABLES
  kind,         \* the responder type the handler built
  statusCode,   \* o._statusCode (the Default types), else the fixed code
  payload,      \* o.Payload
  rpc,          \* "none", "built" (returned by the handler), "written"
  header,       \* the status passed to rw.WriteHeader, or NoCode
  contentType,  \* whether the Content-Type header is still set
  body,         \* what producer.Produce wrote
  panicked      \* WriteResponse panicked (recovered by the middleware)

vars == <<kind, statusCode, payload, rpc, header, contentType, body, panicked>>

ResponderInit ==
  /\ kind \in Kinds
  /\ statusCode = NoCode
  /\ payload = Nil
  /\ rpc = "none"
  /\ header = NoCode
  /\ contentType = TRUE
  /\ body = <<>>
  /\ panicked = FALSE

\* New...Default(code): `if code <= 0 { code = 500 }`.
DefaultCode(code) == IF code <= 0 THEN 500 ELSE code

(* The constructor: NewDeleteObjectOK / NewUpdateUserInfoOK take no code   *)
(* (their code is the constant 200); the Default ones take one.            *)
New ==
  /\ rpc = "none"
  /\ IF kind \in DefaultKinds
       THEN \E code \in Codes : statusCode' = DefaultCode(code)
       ELSE statusCode' = 200
  /\ rpc' = "built"
  /\ UNCHANGED <<kind, payload, header, contentType, body, panicked>>

\* WithStatusCode(code) / SetStatusCode(code): o._statusCode = code.
SetStatusCode ==
  /\ rpc = "built"
  /\ kind \in DefaultKinds
  /\ \E code \in Codes : statusCode' = code
  /\ UNCHANGED <<kind, payload, rpc, header, contentType, body, panicked>>

\* WithPayload(p) / SetPayload(p): o.Payload = p.
SetPayload ==
  /\ rpc = "built"
  /\ kind \in PayloadKinds
  /\ \E p \in Payloads \cup {Nil} : payload' = p
  /\ UNCHANGED <<kind, statusCode, rpc, header, contentType, body, panicked>>

(* DeleteObjectOK.WriteResponse: delete Content-Type (the response is     *)
(* empty), then WriteHeader(200).                                          *)
WriteEmptyResponse ==
  /\ rpc = "built"
  /\ kind = "DeleteObjectOK"
  /\ rpc' = "written"
  /\ header' = statusCode
  /\ contentType' = FALSE
  /\ UNCHANGED <<kind, statusCode, payload, body, panicked>>

\* Faulty variant: the nil check dropped, a nil payload is produced.
WriteResponseProducesNil ==
  /\ rpc = "built"
  /\ kind \in PayloadKinds
  /\ rpc' = "written"
  /\ header' = statusCode
  /\ \/ body' = <<payload>> /\ UNCHANGED panicked
     \/ panicked' = TRUE /\ UNCHANGED body
  /\ UNCHANGED <<kind, statusCode, payload, contentType>>

(* WriteResponse of the types with a payload: WriteHeader(code), then,    *)
(* when the payload is not nil, producer.Produce(rw, payload); a Produce  *)
(* error panics (the status line is already sent).                        *)
WriteResponse ==
  /\ rpc = "built"
  /\ kind \in PayloadKinds
  /\ rpc' = "written"
  /\ header' = statusCode
  /\ IF payload = Nil
       THEN UNCHANGED <<body, panicked>>
       ELSE \/ body' = <<payload>> /\ UNCHANGED panicked
            \/ panicked' = TRUE /\ UNCHANGED body
  /\ UNCHANGED <<kind, statusCode, payload, contentType>>

ResponderNext ==
  \/ New
  \/ SetStatusCode
  \/ SetPayload
  \/ WriteEmptyResponse
  \/ WriteResponse

ResponderSpec == ResponderInit /\ [][ResponderNext]_vars

-----------------------------------------------------------------------------
(***************************************************************************)
(* Properties                                                              *)
(***************************************************************************)

ResponderTypeOK ==
  /\ kind \in Kinds
  /\ statusCode \in Codes \cup {200, 500, NoCode}
  /\ payload \in Payloads \cup {Nil}
  /\ rpc \in {"none", "built", "written"}
  /\ header \in Codes \cup {200, 500, NoCode}
  /\ contentType \in BOOLEAN
  /\ body \in Seq(Payloads)
  /\ panicked \in BOOLEAN

(* net/http accepts the status line: every code passed to WriteHeader is  *)
(* a valid three-digit status.  New...Default ensures it for the code it  *)
(* is given (a code <= 0 becomes 500); SetStatusCode stores any code.     *)
WrittenCodeValid == rpc = "written" => header \in 100..999

=============================================================================
