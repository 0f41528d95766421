------------------------- MODULE NotificationConfig -------------------------
(***************************************************************************)
(* The generated validation of models.NotificationConfig                   *)
(* (src/models/notification_config.go): Validate checks that Arn is set   *)
(* and that every element of Events validates; ContextValidate runs the   *)
(* elements' context validation.  Both collect their errors in `res` and  *)
(* return CompositeValidationError(res...) or nil.                         *)
(*                                                                         *)
(* Each loop iteration is a step; the results are checked against         *)
(* reference definitions, quantified over the events, for every config of *)
(* up to MaxEvents events.  What an element's own Validate and ContextValidate *)
(* reject is a parameter: the sets Invalid and CtxInvalid.  A rejected     *)
(* element returns an *errors.Validation, which the loop renames to        *)
(* "events.<i>".                                                           *)
(***************************************************************************)
EXTENDS Naturals, Sequences

CONSTANTS
  EventValues,  \* values a NotificationEventType element may hold
  ZeroEvent,    \* the zero value "" of NotificationEventType
  Invalid,      \* elements whose Validate fails (not in the enum)
  CtxInvalid,   \* elements whose ContextValidate fails
  MaxEvents     \* bound on len(m.Events)

ASSUME ConfigAssumption ==
  /\ ZeroEvent \in EventValues
  /\ Invalid \subseteq EventValues
  /\ CtxInvalid \subseteq EventValues \ {ZeroEvent}
  /\ MaxEvents \in Nat

\* A config: Arn set or nil, and the Events slice.
Configs == [arnSet : BOOLEAN,
            events : UNION {[1..n -> EventValues] : n \in 0..MaxEvents}]

\* The errors a validation may collect.
ArnRequired == [field |-> "arn"]
EventError(i) == [field |-> "events", index |-> i]

\* CompositeValidationError(res...) when res is non-empty, else nil.
NoError == <<>>

\* validate.Required("arn", "body", m.Arn)
Required(m) == IF m.arnSet THEN NoError ELSE <<ArnRequired>>

VARIABLES
  config,     \* the NotificationConfig being validated
  vpc,        \* where Validate is: "start", "events" (its loop), "done"
  vi,         \* the loop index of validateEvents, 1-based
  vresult,    \* res of Validate; what it returned once vpc = "done"
  cpc,        \* where ContextValidate is: "start", "events", "done"
  ci,         \* the loop index of contextValidateEvents, 1-based
  cresult     \* res of ContextValidate; what it returned once cpc = "done"

vars == <<config, vpc, vi, vresult, cpc, ci, cresult>>

(* A request body is bound to a config; the runtime then calls Validate   *)
(* and ContextValidate on it, one after the other, in either order: a     *)
(* call starts only when the other one is not inside its loop.            *)
ValidationInit ==
  /\ config \in Configs
  /\ vpc = "start" /\ vi = 1 /\ vresult = NoError
  /\ cpc = "start" /\ ci = 1 /\ cresult = NoError

\* Faulty variant: Validate returns at the missing Arn.
ValidateStopsAtArn ==
  /\ vpc = "start"
  /\ cpc # "events"
  /\ vresult' = Required(config)
  /\ vpc' = IF config.arnSet THEN "events" ELSE "done"
  /\ UNCHANGED <<config, vi, cpc, ci, cresult>>

(* Validate: validateArn's error is appended to res, then validateEvents  *)
(* runs (a nil or empty slice, swag.IsZero, goes straight to the end).    *)
ValidateArn ==
  /\ vpc = "start"
  /\ cpc # "events"
  /\ vresult' = Required(config)
  /\ vpc' = "events"
  /\ UNCHANGED <<config, vi, cpc, ci, cresult>>

\* Faulty variant: the renamed error reports a 1-based index.
ValidateEventsOneBased ==
  /\ vpc = "events"
  /\ vi <= Len(config.events)
  /\ \/ /\ config.events[vi] \in Invalid
        /\ vresult' = Append(vresult, EventError(vi))
        /\ vpc' = "done"
        /\ UNCHANGED vi
     \/ /\ config.events[vi] \notin Invalid
        /\ vi' = vi + 1
        /\ UNCHANGED <<vpc, vresult>>
  /\ UNCHANGED <<config, cpc, ci, cresult>>

(* One iteration of validateEvents: an element whose Validate fails ends  *)
(* the loop with its error renamed to "events.<i>" (0-based), which        *)
(* Validate appends to res and returns; a valid one moves to the next.    *)
ValidateEvents ==
  /\ vpc = "events"
  /\ vi <= Len(config.events)
  /\ \/ /\ config.events[vi] \in Invalid
        /\ vresult' = Append(vresult, EventError(vi - 1))
        /\ vpc' = "done"
        /\ UNCHANGED vi
     \/ /\ config.events[vi] \notin Invalid
        /\ vi' = vi + 1
        /\ UNCHANGED <<vpc, vresult>>
  /\ UNCHANGED <<config, cpc, ci, cresult>>

\* The loop is over: validateEvents returns nil and Validate returns res.
ValidateReturn ==
  /\ vpc = "events"
  /\ vi > Len(config.events)
  /\ vpc' = "done"
  /\ UNCHANGED <<config, vi, vresult, cpc, ci, cresult>>

\* ContextValidate starts with an empty res and calls contextValidateEvents.
ContextValidate ==
  /\ cpc = "start"
  /\ vpc # "events"
  /\ cpc' = "events"
  /\ UNCHANGED <<config, vpc, vi, vresult, ci, cresult>>

\* Faulty variant: a failing element does not end the loop, so the error
\* of the last failing element is the one reported.
ContextValidateEventsGoesOn ==
  /\ cpc = "events"
  /\ ci <= Len(config.events)
  /\ \/ /\ config.events[ci] = ZeroEvent
        /\ cpc' = "done"
        /\ UNCHANGED <<ci, cresult>>
     \/ /\ config.events[ci] \in CtxInvalid
        /\ cresult' = <<EventError(ci - 1)>>
        /\ ci' = ci + 1
        /\ UNCHANGED cpc
     \/ /\ config.events[ci] \notin CtxInvalid \cup {ZeroEvent}
        /\ ci' = ci + 1
        /\ UNCHANGED <<cpc, cresult>>
  /\ UNCHANGED <<config, vpc, vi, vresult>>

(* One iteration of contextValidateEvents: a zero element returns nil at  *)
(* once ("not required"); an element whose ContextValidate fails returns   *)
(* its error renamed to "events.<i>", which ContextValidate appends to res *)
(* and returns; any other moves to the next.                               *)
ContextValidateEvents ==
  /\ cpc = "events"
  /\ ci <= Len(config.events)
  /\ \/ /\ config.events[ci] = ZeroEvent
        /\ cpc' = "done"
        /\ UNCHANGED <<ci, cresult>>
     \/ /\ config.events[ci] \in CtxInvalid
        /\ cresult' = Append(cresult, EventError(ci - 1))
        /\ cpc' = "done"
        /\ UNCHANGED ci
     \/ /\ config.events[ci] \notin CtxInvalid \cup {ZeroEvent}
        /\ ci' = ci + 1
        /\ UNCHANGED <<cpc, cresult>>
  /\ UNCHANGED <<config, vpc, vi, vresult>>

\* The loop is over: contextValidateEvents and ContextValidate return nil.
ContextValidateReturn ==
  /\ cpc = "events"
  /\ ci > Len(config.events)
  /\ cpc' = "done"
  /\ UNCHANGED <<config, vpc, vi, vresult, ci, cresult>>

ValidationNext ==
  \/ ValidateArn \/ ValidateEvents \/ ValidateReturn
  \/ ContextValidate \/ ContextValidateEvents \/ ContextValidateReturn

ValidationSpec == ValidationInit /\ [][ValidationNext]_vars

-----------------------------------------------------------------------------
(***************************************************************************)
(* Properties, against reference definitions                               *)
(***************************************************************************)

\* The missing Arn, and "events.<i>" for an index of the slice ev.
Errors(ev) == {ArnRequired} \cup {EventError(i) : i \in 0..Len(ev) - 1}

ValidationTypeOK ==
  /\ config \in Configs
  /\ vpc \in {"start", "events", "done"} /\ vi \in 1..MaxEvents + 1
  /\ cpc \in {"start", "events", "done"} /\ ci \in 1..MaxEvents + 1
  /\ vresult \in Seq(Errors(config.events))
  /\ cresult \in Seq(Errors(config.events))

\* The indexes of the elements of ev in the set S, 0-based as in Go.
IndexesIn(ev, S) == {i - 1 : i \in {j \in DOMAIN ev : ev[j] \in S}}

\* The least element of a non-empty set of naturals.
Least(S) == CHOOSE i \in S : \A j \in S : i <= j

(* Validate accepts a config exactly when its Arn is set and every event  *)
(* is valid; otherwise it reports the missing Arn before the events, and  *)
(* for the events the lowest invalid index, and nothing else.             *)
ValidateIsCorrect ==
  vpc = "done" =>
    LET bad == IndexesIn(config.events, Invalid)
    IN  vresult = (IF config.arnSet THEN <<>> ELSE <<ArnRequired>>)
                  \o (IF bad = {} THEN <<>> ELSE <<EventError(Least(bad))>>)

(* ContextValidate never reports an error for a config without one: what  *)
(* it reports is the lowest-indexed event whose context validation fails. *)
ContextValidateSound ==
  cpc = "done" =>
    \A k \in DOMAIN cresult :
      LET bad == IndexesIn(config.events, CtxInvalid)
      IN  bad # {} /\ cresult[k] = EventError(Least(bad))

=============================================================================
