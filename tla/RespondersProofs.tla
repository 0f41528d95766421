--------------------------- MODULE RespondersProofs ---------------------------
(***************************************************************************)
(* Proofs about the generated responders (Responders), for every set of   *)
(* integer status codes and every set of payloads.                         *)
(***************************************************************************)
EXTENDS Responders, TLAPS

(* Before WriteResponse nothing has reached the ResponseWriter: no status *)
(* line, no body, no panic, and the Content-Type header still set.  After *)
(* it the responder is never touched again, so what was written stays.    *)
Unwritten ==
  rpc # "written" =>
    /\ header = NoCode
    /\ body = <<>>
    /\ ~panicked
    /\ contentType

(* After WriteResponse the status line carries the stored code, a body is *)
(* the payload set last, and only DeleteObjectOK has dropped Content-Type. *)
Written ==
  rpc = "written" =>
    /\ header = statusCode
    /\ body # <<>> => body = <<payload>>
    /\ payload # Nil => (body # <<>> \/ panicked)
    /\ contentType <=> kind # "DeleteObjectOK"

\* DeleteObjectOK has no Payload field: its payload stays nil.
NoPayloadField == kind \notin PayloadKinds => payload = Nil

RespInv == ResponderTypeOK /\ Written /\ Unwritten /\ NoPayloadField

LEMMA InitRespInv == ResponderInit => RespInv
<1> SUFFICES ASSUME ResponderInit PROVE RespInv
  OBVIOUS
<1>1. ResponderTypeOK
  <2>1. <<>> \in Seq(Payloads)
    OBVIOUS
  <2>2. QED
    BY <2>1 DEF ResponderInit, ResponderTypeOK, NoCode
<1>2. Written /\ Unwritten /\ NoPayloadField
  BY DEF ResponderInit, Written, Unwritten, NoPayloadField
<1>3. QED
  BY <1>1, <1>2 DEF RespInv

LEMMA NextRespInv == RespInv /\ [ResponderNext]_vars => RespInv'
<1> SUFFICES ASSUME RespInv, [ResponderNext]_vars PROVE RespInv'
  OBVIOUS
<1> USE ResponderAssumption DEF RespInv, ResponderTypeOK, Written,
                                Unwritten, NoPayloadField, Kinds, DefaultKinds,
                                PayloadKinds, NoCode
<1>1. CASE New
  <2>1. \A c \in Codes : DefaultCode(c) \in Codes \cup {500}
    BY DEF DefaultCode
  <2>2. QED
    BY <1>1, <2>1 DEF New
<1>2. CASE SetStatusCode
  BY <1>2 DEF SetStatusCode
<1>3. CASE SetPayload
  BY <1>3 DEF SetPayload
<1>4. CASE WriteEmptyResponse
  BY <1>4 DEF WriteEmptyResponse
<1>5. CASE WriteResponse
  <2>1. CASE payload = Nil
    BY <1>5, <2>1 DEF WriteResponse
  <2>2. CASE payload # Nil
    <3>1. payload \in Payloads /\ <<payload>> \in Seq(Payloads)
      BY <2>2
    <3>2. CASE body' = <<payload>> /\ UNCHANGED panicked
      BY <1>5, <2>2, <3>1, <3>2 DEF WriteResponse
    <3>3. CASE panicked' = TRUE /\ UNCHANGED body
      BY <1>5, <2>2, <3>3 DEF WriteResponse
    <3>4. QED
      BY <1>5, <2>2, <3>2, <3>3 DEF WriteResponse
  <2>3. QED
    BY <2>1, <2>2
<1>6. CASE UNCHANGED vars
  BY <1>6 DEF vars
<1>7. QED
  BY <1>1, <1>2, <1>3, <1>4, <1>5, <1>6 DEF ResponderNext

(* The responders keep their state within its types; in particular every  *)
(* code a constructor stores is a handler's code or the 500 of `code <= 0`.*)
THEOREM ResponderTypeCorrect == ResponderSpec => []ResponderTypeOK
<1>1. RespInv => ResponderTypeOK
  BY DEF RespInv
<1>2. QED
  BY <1>1, InitRespInv, NextRespInv, PTL DEF ResponderSpec

=============================================================================
