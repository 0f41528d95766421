\* A valid event, one the enum rejects, one whose context validation fails,
\* and the zero value (not in the enum either).
CONSTANTS
  EventValues = {put, bad, ctxbad, zero}
  ZeroEvent = zero
  Invalid = {bad, zero}
  CtxInvalid = {ctxbad}
  MaxEvents <- MCMaxEvents
SPECIFICATION ValidationSpec
INVARIANT ValidationTypeOK
INVARIANT ValidateIsCorrect
INVARIANT ContextValidateSound
\* Validation of one config ends once both results are in.
CHECK_DEADLOCK FALSE
