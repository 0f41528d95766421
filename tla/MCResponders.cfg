\* One responder of every type, with the zero code and two real ones.
CONSTANTS
  Codes <- MCCodes
  Payloads = {p1, p2, p3}
  Nil = nil
SPECIFICATION ResponderSpec
INVARIANT ResponderTypeOK
\* A response is written once; the handler's work then ends.
CHECK_DEADLOCK FALSE
