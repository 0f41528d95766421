CONSTANTS
  LoopbackIPs = {lo}
  OtherIPs = {ip}
  Names = {name}
  Empty = empty
SPECIFICATION AddrSpec
INVARIANT ClientIPFallsBack
\* One request is served and one client is built; then the handler is done.
CHECK_DEADLOCK FALSE
