---------------------------- MODULE MCAdminClient ----------------------------
EXTENDS AdminClient

\* Requests of the run: a caller named only by X-Forwarded-For (whose first
\* entry is taken), a loopback caller named by X-Real-IP, and a caller
\* known only by its connection.  MCClientAddress enumerates all requests.
MCLo == CHOOSE h \in LoopbackIPs : TRUE
MCIp == CHOOSE h \in OtherIPs : TRUE
MCName == CHOOSE h \in Names : TRUE

MCRequests ==
  { [realIP |-> Empty, xff |-> <<MCName, MCIp>>, remote |-> [ok |-> FALSE]],
    [realIP |-> MCLo, xff |-> <<>>, remote |-> [ok |-> TRUE, host |-> MCIp]],
    [realIP |-> Empty, xff |-> <<>>, remote |-> [ok |-> TRUE, host |-> MCIp]] }

=============================================================================
