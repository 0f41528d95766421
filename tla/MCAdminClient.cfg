\* One loopback literal, one other IP and one host name, as in
\* MCClientAddress; two policy names, so that a map with one readable and
\* one unreadable document exists; one bucket with up to two targets.
CONSTANTS
  LoopbackIPs = {lo}
  OtherIPs = {ip}
  Names = {name}
  Empty = empty
  PolicyNames = {n1, n2}
  Policies = {p1}
  BadPolicies = {bad}
  Buckets = {b1}
  Targets = {t1}
  Requests <- MCRequests
  NoTarget = noTarget
  MaxTargets = 1
  MaxCalls = 2
  MaxChanges = 1
SPECIFICATION AdminSpec
INVARIANT AddrTypeOK
INVARIANT InsecureOnlyForLoopbackTarget
INVARIANT AdminTypeOK
INVARIANT ListPoliciesAllOrNothing
\* The request ends after its calls (or after the client failed to build);
\* other administrators stop after their changes.
CHECK_DEADLOCK FALSE
