---------------------------- MODULE ClientAddress ----------------------------
(***************************************************************************)
(* How the console learns who calls it and how it trusts whom it calls    *)
(* (src/api/client-admin.go): getClientIP reads a request's client        *)
(* address (X-Real-IP, then the first X-Forwarded-For entry, then the     *)
(* host of RemoteAddr); GetConsoleHTTPClient builds the outbound client,  *)
(* skipping TLS verification when the target address is a loopback IP     *)
(* (isLocalIPAddress); the clientIP only travels with the client.          *)
(*                                                                         *)
(* One request is served: its client address is computed, then one        *)
(* outbound client is built for a target address, with that client        *)
(* address as the value the request's context carries.  Strings are       *)
(* abstracted to the hosts that tell the cases apart; strings.TrimSpace   *)
(* is already applied to the X-Forwarded-For entries.                      *)
(***************************************************************************)
EXTENDS Naturals, Sequences

CONSTANTS
  LoopbackIPs,   \* IP literals net.ParseIP accepts with IsLoopback()
  OtherIPs,      \* IP literals that are not loopback
  Names,         \* host names (not IP literals)
  Empty          \* the empty string

ASSUME AddressAssumption ==
  /\ LoopbackIPs \cap OtherIPs = {}
  /\ Names \cap (LoopbackIPs \cup OtherIPs) = {}
  /\ Empty \notin LoopbackIPs \cup OtherIPs \cup Names

Hosts == LoopbackIPs \cup OtherIPs \cup Names

\* An X-Forwarded-For header: absent (<<>>) or its comma-separated entries,
\* each trimmed; a blank entry is Empty.
XFFHeaders == {<<>>} \cup [1..1 -> Hosts \cup {Empty}]
                     \cup [1..2 -> Hosts \cup {Empty}]

\* r.RemoteAddr: "host:port", or a string net.SplitHostPort rejects.
RemoteAddrs == [ok : {TRUE}, host : Hosts] \cup {[ok |-> FALSE]}

Requests == [realIP : Hosts \cup {Empty}, xff : XFFHeaders,
             remote : RemoteAddrs]

(* Target addresses of GetConsoleHTTPClient: "" (the SUBNET client), an   *)
(* URL with a scheme ("https://host:port", url.Parse succeeds) and a bare *)
(* "host:port" (url.Parse fails: first path segment contains a colon).   *)
Addresses == {[form |-> "empty"]}
               \cup [form : {"url", "hostport"}, host : Hosts]

\* A "host:port" string is never an IP literal: net.ParseIP rejects it.
ASSUME HostPortAssumption == Addresses \cap LoopbackIPs = {}

\* Faulty variant: the whole X-Forwarded-For list returned, not split[0].
GetClientIPWholeList(r) ==
  IF r.realIP # Empty THEN r.realIP
  ELSE IF r.xff # <<>> THEN r.xff
  ELSE IF r.remote.ok THEN r.remote.host
  ELSE Empty

\* getClientIP(r)
GetClientIP(r) ==
  IF r.realIP # Empty THEN r.realIP
  ELSE IF r.xff # <<>> THEN r.xff[1]
  ELSE IF r.remote.ok THEN r.remote.host
  ELSE Empty

(* The address isLocalIPAddress is asked about: u.Hostname() when         *)
(* url.Parse succeeds, else the address unchanged (never an IP literal    *)
(* then, since it carries a port).                                         *)
Hostname(a) ==
  CASE a.form = "empty" -> Empty
    [] a.form = "url" -> a.host
    [] a.form = "hostport" -> a

\* isLocalIPAddress(ip): non-empty, parses as an IP, and is loopback.
IsLocalIPAddress(ip) == ip # Empty /\ ip \in LoopbackIPs

NoClient == [none |-> TRUE]

VARIABLES
  req,       \* the incoming request
  clientIP,  \* getClientIP(req), once computed
  client,    \* the outbound client: target address, insecure, clientIP
  pc         \* "recv", "ip", "done"

vars == <<req, clientIP, client, pc>>

AddrInit ==
  /\ req \in Requests
  /\ clientIP = Empty
  /\ client = NoClient
  /\ pc = "recv"

ServeRequest ==
  /\ pc = "recv"
  /\ clientIP' = GetClientIP(req)
  /\ pc' = "ip"
  /\ UNCHANGED <<req, client>>

\* Faulty variant: the full URL, not its host, taken as the IP.
GetConsoleHTTPClientNoHostname(a) ==
  /\ pc = "ip"
  /\ client' = [target |-> a, clientIP |-> clientIP,
                insecure |-> IsLocalIPAddress(a)]
  /\ pc' = "done"
  /\ UNCHANGED <<req, clientIP>>

(* GetConsoleHTTPClient(address, clientIP):                               *)
(* PrepareConsoleHTTPClient(isLocalIPAddress(host of address), clientIP). *)
GetConsoleHTTPClient(a) ==
  /\ pc = "ip"
  /\ client' = [target |-> a, clientIP |-> clientIP,
                insecure |-> IsLocalIPAddress(Hostname(a))]
  /\ pc' = "done"
  /\ UNCHANGED <<req, clientIP>>

AddrNext ==
  \/ ServeRequest
  \/ \E a \in Addresses : GetConsoleHTTPClient(a)

AddrSpec == AddrInit /\ [][AddrNext]_vars

-----------------------------------------------------------------------------
(***************************************************************************)
(* Properties                                                              *)
(***************************************************************************)

AddrTypeOK ==
  /\ req \in Requests
  /\ clientIP \in Hosts \cup {Empty}
  /\ client \in {NoClient} \cup [target : Addresses, clientIP : Hosts \cup {Empty},
                                 insecure : BOOLEAN]
  /\ pc \in {"recv", "ip", "done"}

(* The comment of GetConsoleHTTPClient: TLS verification is skipped       *)
(* exactly when the target endpoint is a loopback IP given as a URL, and  *)
(* never because of who the caller is.  The comment says only "points to *)
(* a loopback device"; a bare "127.0.0.1:9000" is not a URL Hostname can  *)
(* read, and the code (so this property) treats it as not loopback.      *)
InsecureOnlyForLoopbackTarget ==
  client # NoClient =>
    (client.insecure <=> (client.target.form = "url"
                          /\ client.target.host \in LoopbackIPs))

(* The comment of getClientIP: when neither header gives an address      *)
(* ("not present, or they were empty") the address of the connection is  *)
(* used, so a request from a well-formed RemoteAddr has a client IP.       *)
(* An X-Forwarded-For whose first entry is blank returns "" instead.      *)
ClientIPFallsBack ==
  (pc # "recv" /\ req.remote.ok) => clientIP # Empty

(* Spec 4.4: the SUBNET upload client's TLS trust is scoped by the caller *)
(* address: loopback callers bypass strict verification.  The code passes *)
(* "" as the target and the caller address only as clientIP.               *)
SubnetTrustByCaller ==
  (client # NoClient /\ client.target.form = "empty") =>
    (client.insecure <=> client.clientIP \in LoopbackIPs)

=============================================================================
