CONSTANTS
  Codes <- MCCodes
  Payloads = {p1, p2}
  Nil = nil
SPECIFICATION ResponderSpec
INVARIANT WrittenCodeValid
CHECK_DEADLOCK FALSE
