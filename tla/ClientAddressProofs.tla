-------------------------- MODULE ClientAddressProofs --------------------------
(***************************************************************************)
(* Proofs about the client address and the outbound TLS decision          *)
(* (ClientAddress), for all sets of loopback IPs, other IPs and names.    *)
(***************************************************************************)
EXTENDS ClientAddress, TLAPS

\* getClientIP returns one of the request's hosts, or "".
LEMMA ClientIPType ==
  ASSUME NEW r \in Requests
  PROVE  GetClientIP(r) \in Hosts \cup {Empty}
<1>1. r.xff # <<>> => r.xff[1] \in Hosts \cup {Empty}
  BY DEF Requests, XFFHeaders
<1>2. r.remote.ok => r.remote.host \in Hosts
  <2>1. r.remote \in [ok : {TRUE}, host : Hosts] \cup {[ok |-> FALSE]}
    BY DEF Requests, RemoteAddrs
  <2>2. CASE r.remote = [ok |-> FALSE]
    BY <2>2
  <2>3. CASE r.remote \in [ok : {TRUE}, host : Hosts]
    BY <2>3
  <2>4. QED
    BY <2>1, <2>2, <2>3
<1>3. r.realIP \in Hosts \cup {Empty}
  BY DEF Requests
<1>4. QED
  BY <1>1, <1>2, <1>3 DEF GetClientIP

(* The host GetConsoleHTTPClient asks isLocalIPAddress about is a loopback *)
(* IP exactly when the target is a URL whose host is one.                  *)
LEMMA HostnameLoopback ==
  ASSUME NEW a \in Addresses
  PROVE  IsLocalIPAddress(Hostname(a)) <=> (a.form = "url" /\ a.host \in LoopbackIPs)
<1>1. CASE a.form = "empty"
  BY <1>1, AddressAssumption DEF Hostname, IsLocalIPAddress
<1>2. CASE a.form = "url"
  BY <1>2, AddressAssumption DEF Hostname, IsLocalIPAddress
<1>3. CASE a.form = "hostport"
  <2>1. a \notin LoopbackIPs
    \* a record built by the model, never one of the IP literals
    BY <1>3, HostPortAssumption
  <2>2. QED
    BY <1>3, <2>1 DEF Hostname, IsLocalIPAddress
<1>4. QED
  BY <1>1, <1>2, <1>3 DEF Addresses

AddrInv == AddrTypeOK /\ InsecureOnlyForLoopbackTarget

LEMMA InitAddrInv == AddrInit => AddrInv
BY DEF AddrInit, AddrInv, AddrTypeOK, InsecureOnlyForLoopbackTarget, NoClient

LEMMA NextAddrInv == AddrInv /\ [AddrNext]_vars => AddrInv'
<1> SUFFICES ASSUME AddrInv, [AddrNext]_vars PROVE AddrInv'
  OBVIOUS
<1>1. CASE ServeRequest
  BY <1>1, ClientIPType
     DEF ServeRequest, AddrInv, AddrTypeOK, InsecureOnlyForLoopbackTarget
<1>2. ASSUME NEW a \in Addresses, GetConsoleHTTPClient(a)
      PROVE  AddrInv'
  <2>1. client' = [target |-> a, clientIP |-> clientIP,
                   insecure |-> IsLocalIPAddress(Hostname(a))]
    BY <1>2 DEF GetConsoleHTTPClient
  <2>2. IsLocalIPAddress(Hostname(a)) \in BOOLEAN
    BY DEF IsLocalIPAddress
  <2>3. client' # NoClient
    BY <2>1 DEF NoClient
  <2>4. AddrTypeOK'
    BY <1>2, <2>1, <2>2 DEF GetConsoleHTTPClient, AddrInv, AddrTypeOK
  <2>5. InsecureOnlyForLoopbackTarget'
    BY <2>1, <2>3, HostnameLoopback DEF InsecureOnlyForLoopbackTarget
  <2>6. QED
    BY <2>4, <2>5 DEF AddrInv
<1>3. CASE UNCHANGED vars
  BY <1>3 DEF vars, AddrInv, AddrTypeOK, InsecureOnlyForLoopbackTarget
<1>4. QED
  BY <1>1, <1>2, <1>3 DEF AddrNext

(* The outbound client skips TLS verification exactly when its target is  *)
(* a loopback IP given as a URL, whatever the request's headers say.     *)
(* AdminClientProofs carries it over to the admin client's specification. *)
THEOREM InsecureOnlyForLoopback == AddrSpec => []InsecureOnlyForLoopbackTarget
<1>1. AddrInv => InsecureOnlyForLoopbackTarget
  BY DEF AddrInv
<1>2. QED
  BY <1>1, InitAddrInv, NextAddrInv, PTL DEF AddrSpec

=============================================================================
