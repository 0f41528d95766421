CONSTANTS
  MaxTries <- MCMaxTries
  MaxObjects <- MCMaxObjects
  DocVersions <- MCDocVersions
  ProtoVersions <- MCProtoVersions
  Payloads = {p1, p2}
  ZeroPayload = zero
  NoVersion = empty
  Omitted = omitted
SPECIFICATION JobSpec
INVARIANT JobTypeOK
INVARIANT CaptureAlwaysReported
INVARIANT SubnetResponseWellFormed
\* startHealthInfo returns: the final state has no successor.
CHECK_DEADLOCK FALSE
