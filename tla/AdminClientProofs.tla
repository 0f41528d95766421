-------------------------- MODULE AdminClientProofs --------------------------
(***************************************************************************)
(* Proofs about the admin client (AdminClient): its state stays typed and *)
(* listPolicies is all or nothing, for every set of policy names,         *)
(* documents, buckets and targets and every bound.                         *)
(***************************************************************************)
EXTENDS AdminClient, ClientAddressProofs

\* Go maps from K to T, as functions whose domain is any subset of K.
Maps(K, T) == UNION {[S -> T] : S \in SUBSET K}

LEMMA EmptyMap ==
  ASSUME NEW K, NEW T
  PROVE  <<>> \in Maps(K, T)
<1>1. <<>> \in [{} -> T]
  OBVIOUS
<1>2. QED
  BY <1>1 DEF Maps

LEMMA PutMap ==
  ASSUME NEW K, NEW T, NEW m \in Maps(K, T), NEW k \in K, NEW v \in T
  PROVE  Put(m, k, v) \in Maps(K, T) /\ DOMAIN Put(m, k, v) = DOMAIN m \cup {k}
<1>1. PICK S \in SUBSET K : m \in [S -> T]
  BY DEF Maps
<1>2. Put(m, k, v) \in [S \cup {k} -> T]
  BY <1>1 DEF Put
<1>3. QED
  BY <1>1, <1>2 DEF Maps, Put

LEMMA RestrictMap ==
  ASSUME NEW K, NEW T, NEW m \in Maps(K, T), NEW D
  PROVE  Restrict(m, DOMAIN m \ D) \in Maps(K, T)
<1>1. PICK S \in SUBSET K : m \in [S -> T]
  BY DEF Maps
<1>2. Restrict(m, DOMAIN m \ D) \in [S \ D -> T]
  BY <1>1 DEF Restrict
<1>3. QED
  BY <1>1, <1>2 DEF Maps

(* While listPolicies ranges over policyMap: the call was counted as      *)
(* allowed when it started, the keys left are keys of the map, and the    *)
(* keys done are decoded in acc.                                           *)
LoopInv ==
  call.op = "list" =>
    /\ calls < MaxCalls
    /\ todo \subseteq DOMAIN policyMap
    /\ DOMAIN acc = DOMAIN policyMap \ todo
    /\ \A n \in DOMAIN acc : policyMap[n].known /\ acc[n] = policyMap[n].doc

AInv ==
  /\ AdminTypeOK
  /\ policyMap \in Maps(PolicyNames, Raw)
  /\ LoopInv
  /\ ListPoliciesAllOrNothing

LEMMA InitAInv == AdminInit => AInv
<1> SUFFICES ASSUME AdminInit PROVE AInv
  OBVIOUS
<1>1. <<>> \in Maps(PolicyNames, Raw) /\ <<>> \in Maps(PolicyNames, Policies)
  BY EmptyMap
<1>2. AdminTypeOK
  BY <1>1, AdminAssumption DEF AdminInit, AdminTypeOK, Maps, NoCall
<1>3. QED
  BY <1>1, <1>2 DEF AdminInit, AInv, LoopInv, ListPoliciesAllOrNothing, NoCall

\* Steps that leave every variable of the admin client as it is.
LEMMA AdminUnchanged ==
  ASSUME AInv, UNCHANGED adminVars
  PROVE  AInv'
BY DEF adminVars, AInv, AdminTypeOK, LoopInv, ListPoliciesAllOrNothing,
       AllParse, Docs

\* A call that returns at once: ret is typed and not a listPolicies result.
LEMMA PlainReturn ==
  ASSUME AInv, NEW op, NEW err \in Errs, NEW val, NEW ans, op # "list",
         Idle, Return(op, err, val, ans),
         UNCHANGED <<call, policyMap, todo, acc, changes>>,
         store' \in Maps(PolicyNames, Raw),
         remote' \in [Buckets -> Seq(Targets)],
         admin' = admin
  PROVE  AInv'
<1>1. calls' \in 0..MaxCalls
  BY AdminAssumption DEF Idle, Return, AInv, AdminTypeOK
<1>2. AdminTypeOK'
  BY <1>1 DEF Return, AInv, AdminTypeOK, Maps
<1>3. LoopInv'
  BY DEF Idle, LoopInv, NoCall
<1>4. ListPoliciesAllOrNothing'
  BY DEF Return, ListPoliciesAllOrNothing
<1>5. QED
  BY <1>2, <1>3, <1>4 DEF AInv

LEMMA ListStep ==
  ASSUME AInv, ListPolicies \/ ListPoliciesParse \/ ListPoliciesReturn
  PROVE  AInv'
<1> USE DEF AInv
<1>1. CASE ListPolicies
  <2>1. CASE Return("list", "rpc", NoCall, NoCall)
             /\ UNCHANGED <<call, policyMap, todo, acc>>
    <3>1. calls' \in 0..MaxCalls
      BY <1>1, <2>1, AdminAssumption DEF ListPolicies, Idle, Return, AdminTypeOK
    <3>2. QED
      BY <1>1, <2>1, <3>1
         DEF ListPolicies, Idle, Return, AdminTypeOK, LoopInv, NoCall,
             ListPoliciesAllOrNothing, Errs
  <2>2. CASE /\ call' = [op |-> "list"]
             /\ policyMap' = store
             /\ todo' = DOMAIN store
             /\ acc' = <<>>
             /\ UNCHANGED <<ret, calls>>
    <3>1. <<>> \in Maps(PolicyNames, Policies) /\ DOMAIN <<>> = {}
      BY EmptyMap
    <3>2. store \in Maps(PolicyNames, Raw)
      BY DEF AdminTypeOK, Maps
    <3>3. DOMAIN store \subseteq PolicyNames
      BY <3>2 DEF Maps
    <3>4. AdminTypeOK'
      BY <1>1, <2>2, <3>1, <3>3 DEF ListPolicies, AdminTypeOK, Maps, NoCall
    <3>5. LoopInv'
      BY <1>1, <2>2, <3>1 DEF ListPolicies, Idle, LoopInv
    <3>6. QED
      BY <1>1, <2>2, <3>2, <3>4, <3>5
         DEF ListPolicies, ListPoliciesAllOrNothing
  <2>3. QED
    BY <1>1, <2>1, <2>2 DEF ListPolicies
<1>2. CASE ListPoliciesParse
  <2>1. PICK k \in todo :
          LET p == ParseConfig(policyMap[k]) IN
          IF p.ok
            THEN /\ acc' = Put(acc, k, p.doc)
                 /\ todo' = todo \ {k}
                 /\ UNCHANGED <<call, ret, calls>>
            ELSE /\ Return("list", "parse", NoCall, policyMap)
                 /\ call' = NoCall
                 /\ UNCHANGED <<todo, acc>>
    BY <1>2 DEF ListPoliciesParse
  <2>2. /\ call.op = "list"
        /\ UNCHANGED <<store, remote, admin, policyMap, changes>>
    BY <1>2 DEF ListPoliciesParse
  <2>3. /\ k \in DOMAIN policyMap
        /\ calls < MaxCalls
        /\ DOMAIN acc = DOMAIN policyMap \ todo
    BY <2>2 DEF LoopInv
  <2>4. PICK S \in SUBSET PolicyNames : policyMap \in [S -> Raw]
    BY DEF Maps
  <2>5. k \in PolicyNames /\ policyMap[k] \in Raw
    BY <2>3, <2>4
  <2>6. CASE policyMap[k].known
    <3>1. /\ acc' = Put(acc, k, policyMap[k].doc)
          /\ todo' = todo \ {k}
          /\ UNCHANGED <<call, ret, calls>>
      BY <2>1, <2>6 DEF ParseConfig
    <3>2. policyMap[k].doc \in Policies
      BY <2>5 DEF Raw
    <3>3. acc \in Maps(PolicyNames, Policies)
      BY DEF AdminTypeOK, Maps
    <3>4. acc' \in Maps(PolicyNames, Policies)
          /\ DOMAIN acc' = DOMAIN acc \cup {k}
      BY <2>5, <3>1, <3>2, <3>3, PutMap
    <3>5. AdminTypeOK'
      BY <2>2, <2>3, <3>1, <3>4 DEF AdminTypeOK, Maps
    <3>6. LoopInv'
      <4>1. DOMAIN acc' = DOMAIN policyMap \ todo'
        BY <2>3, <3>1, <3>4
      <4>2. \A n \in DOMAIN acc' : policyMap[n].known /\ acc'[n] = policyMap[n].doc
        BY <2>2, <2>3, <2>6, <3>1, <3>4 DEF LoopInv, Put
      <4>3. QED
        BY <2>2, <2>3, <3>1, <4>1, <4>2 DEF LoopInv
    <3>7. QED
      BY <2>2, <3>1, <3>5, <3>6 DEF ListPoliciesAllOrNothing, AllParse, Docs
  <2>7. CASE ~policyMap[k].known
    <3>1. /\ Return("list", "parse", NoCall, policyMap)
          /\ call' = NoCall
          /\ UNCHANGED <<todo, acc>>
      BY <2>1, <2>7 DEF ParseConfig
    <3>2. AdminTypeOK'
      <4>1. calls' \in 0..MaxCalls
        BY <2>3, <3>1, AdminAssumption DEF Return, AdminTypeOK
      <4>2. ret'.err \in Errs
        BY <3>1 DEF Return, Errs
      <4>3. QED
        BY <2>2, <3>1, <4>1, <4>2 DEF AdminTypeOK
    <3>3. LoopInv'
      BY <3>1 DEF LoopInv, NoCall
    <3>4. ListPoliciesAllOrNothing'
      BY <2>2, <2>3, <2>7, <3>1 DEF Return, ListPoliciesAllOrNothing, AllParse
    <3>5. QED
      BY <2>2, <3>1, <3>2, <3>3, <3>4
  <2>8. QED
    BY <2>6, <2>7
<1>3. CASE ListPoliciesReturn
  <2>1. /\ call.op = "list"
        /\ todo = {}
        /\ Return("list", "none", acc, policyMap)
        /\ call' = NoCall
        /\ UNCHANGED <<store, remote, admin, policyMap, todo, acc, changes>>
    BY <1>3 DEF ListPoliciesReturn
  <2>2. /\ calls < MaxCalls
        /\ DOMAIN acc = DOMAIN policyMap
        /\ \A n \in DOMAIN acc : policyMap[n].known /\ acc[n] = policyMap[n].doc
    BY <2>1 DEF LoopInv
  <2>3. PICK S \in SUBSET PolicyNames : acc \in [S -> Policies]
    BY DEF AdminTypeOK, Maps
  <2>4. acc = Docs(policyMap)
    BY <2>2, <2>3 DEF Docs
  <2>5. AllParse(policyMap)
    BY <2>2 DEF AllParse
  <2>6. AdminTypeOK'
    BY <2>1, <2>2, AdminAssumption DEF Return, AdminTypeOK, Errs
  <2>7. LoopInv'
    BY <2>1 DEF LoopInv, NoCall
  <2>8. ListPoliciesAllOrNothing'
    BY <2>1, <2>4, <2>5 DEF Return, ListPoliciesAllOrNothing
  <2>9. QED
    BY <2>1, <2>6, <2>7, <2>8
<1>4. QED
  BY <1>1, <1>2, <1>3

LEMMA NextAInv == AInv /\ [AdminNext]_allVars => AInv'
<1> SUFFICES ASSUME AInv, [AdminNext]_allVars PROVE AInv'
  OBVIOUS
<1>0. /\ store \in Maps(PolicyNames, Raw)
      /\ remote \in [Buckets -> Seq(Targets)]
  BY DEF AInv, AdminTypeOK, Maps
<1>1. CASE ServeRequest /\ UNCHANGED adminVars
  BY <1>1, AdminUnchanged
<1>2. ASSUME NEW a \in Addresses, NewAdminFromClaims(a) PROVE AInv'
  BY <1>2 DEF NewAdminFromClaims, AInv, AdminTypeOK, LoopInv,
              ListPoliciesAllOrNothing, AllParse, Docs
<1>3. CASE ListPolicies \/ ListPoliciesParse \/ ListPoliciesReturn
  BY <1>3, ListStep
<1>4. ASSUME NEW n \in PolicyNames, GetPolicy(n) PROVE AInv'
  <2>1. \A r \in Raw : ParseConfig(r).ok => ParseConfig(r).doc \in Policies
    BY DEF ParseConfig, Raw
  <2>2. \E err \in Errs : \E val, ans : Return("get", err, val, ans)
    BY <1>4 DEF GetPolicy, Errs
  <2>3. QED
    BY <1>0, <1>4, <2>2, PlainReturn DEF GetPolicy
<1>5. ASSUME NEW n \in PolicyNames, RemovePolicy(n) PROVE AInv'
  <2>1. Restrict(store, DOMAIN store \ {n}) \in Maps(PolicyNames, Raw)
    BY <1>0, RestrictMap
  <2>2. QED
    BY <1>0, <1>5, <2>1, PlainReturn DEF RemovePolicy, Errs
<1>6. ASSUME NEW n \in PolicyNames, NEW p \in Policies \cup BadPolicies,
             AddPolicy(n, p)
      PROVE  AInv'
  <2>1. Marshal(p).ok => Marshal(p).raw \in Raw
    BY DEF Marshal, Raw
  <2>2. Marshal(p).ok => Put(store, n, Marshal(p).raw) \in Maps(PolicyNames, Raw)
    BY <1>0, <2>1, PutMap
  <2>3. QED
    BY <1>0, <1>6, <2>2, PlainReturn DEF AddPolicy, Errs
<1>7. ASSUME NEW b \in Buckets, GetRemoteBucket(b) PROVE AInv'
  BY <1>0, <1>7, PlainReturn DEF GetRemoteBucket, Errs
<1>8. ASSUME NEW b \in Buckets, RemoveRemoteBucket(b) PROVE AInv'
  <2>1. ASSUME NEW i \in DOMAIN remote[b]
        PROVE  LET ts == remote[b] IN
                 [remote EXCEPT ![b] = [j \in 1..Len(ts) - 1 |->
                                        IF j < i THEN ts[j] ELSE ts[j + 1]]]
                   \in [Buckets -> Seq(Targets)]
    <3>1. remote[b] \in Seq(Targets)
      BY <1>0
    <3>2. i \in 1..Len(remote[b])
      BY <3>1
    <3>3. [j \in 1..Len(remote[b]) - 1 |->
             IF j < i THEN remote[b][j] ELSE remote[b][j + 1]] \in Seq(Targets)
      BY <3>1, <3>2
    <3>4. QED
      BY <1>0, <3>3
  <2>2. QED
    BY <1>0, <1>8, <2>1, PlainReturn DEF RemoveRemoteBucket, Errs
<1>9. ASSUME NEW b \in Buckets, NEW t \in Targets, AddRemoteBucket(b, t)
      PROVE  AInv'
  <2>1. [remote EXCEPT ![b] = Append(@, t)] \in [Buckets -> Seq(Targets)]
    BY <1>0
  <2>2. QED
    BY <1>0, <1>9, <2>1, PlainReturn DEF AddRemoteBucket, Errs
<1>10. ASSUME NEW n \in PolicyNames, NEW r \in Raw, OtherPutPolicy(n, r)
       PROVE  AInv'
  <2>1. Put(store, n, r) \in Maps(PolicyNames, Raw)
    BY <1>0, PutMap
  <2>2. QED
    BY <1>10, <2>1, AdminAssumption
       DEF OtherPutPolicy, AInv, AdminTypeOK, Maps, LoopInv,
           ListPoliciesAllOrNothing, AllParse, Docs
<1>11. ASSUME NEW n \in PolicyNames, OtherRemovePolicy(n) PROVE AInv'
  <2>1. Restrict(store, DOMAIN store \ {n}) \in Maps(PolicyNames, Raw)
    BY <1>0, RestrictMap
  <2>2. changes' \in 0..MaxChanges
    BY <1>11, AdminAssumption DEF OtherRemovePolicy, AInv, AdminTypeOK
  <2>3. AdminTypeOK'
    BY <1>11, <2>1, <2>2 DEF OtherRemovePolicy, AInv, AdminTypeOK, Maps
  <2>4. QED
    BY <1>11, <2>3
       DEF OtherRemovePolicy, AInv, LoopInv, ListPoliciesAllOrNothing,
           AllParse, Docs
<1>12. ASSUME NEW b \in Buckets, NEW t \in Targets, OtherAddTarget(b, t)
       PROVE  AInv'
  <2>1. [remote EXCEPT ![b] = Append(@, t)] \in [Buckets -> Seq(Targets)]
    BY <1>0
  <2>2. QED
    BY <1>12, <2>1, AdminAssumption
       DEF OtherAddTarget, AInv, AdminTypeOK, LoopInv,
           ListPoliciesAllOrNothing, AllParse, Docs
<1>13. CASE UNCHANGED allVars
  BY <1>13, AdminUnchanged DEF allVars
<1>14. QED
  BY <1>1, <1>2, <1>3, <1>4, <1>5, <1>6, <1>7, <1>8, <1>9, <1>10, <1>11,
     <1>12, <1>13 DEF AdminNext, RequestStep, OtherStep

(* The admin client's state stays within its types: the server's policy   *)
(* map only holds documents MarshalJSON validated or that other tools     *)
(* wrote, and the request never makes more than MaxCalls calls.            *)
THEOREM AdminTypeCorrect == AdminSpec => []AdminTypeOK
<1>1. AInv => AdminTypeOK
  BY DEF AInv
<1>2. QED
  BY <1>1, InitAInv, NextAInv, PTL DEF AdminSpec

(* listPolicies is all or nothing whatever order Go ranges over the map   *)
(* and whatever other administrators do meanwhile: a success returns     *)
(* every listed policy decoded, a decode failure is caused by a listed    *)
(* document (the property the admin_client run checks).                    *)
THEOREM ListPoliciesCorrect == AdminSpec => []ListPoliciesAllOrNothing
<1>1. AInv => ListPoliciesAllOrNothing
  BY DEF AInv
<1>2. QED
  BY <1>1, InitAInv, NextAInv, PTL DEF AdminSpec

(* The admin client's own calls and the other administrators leave the    *)
(* request, its client IP and the outbound client alone.                   *)
LEMMA CallsKeepAddress ==
  ASSUME AdminNext,
         ~(ServeRequest /\ UNCHANGED adminVars),
         ~\E a \in Addresses : NewAdminFromClaims(a)
  PROVE  UNCHANGED vars
BY DEF AdminNext, RequestStep, OtherStep, ListPolicies, ListPoliciesParse,
       ListPoliciesReturn, GetPolicy, RemovePolicy, AddPolicy, GetRemoteBucket,
       RemoveRemoteBucket, AddRemoteBucket, OtherPutPolicy, OtherRemovePolicy,
       OtherAddTarget

\* Every step of the admin client keeps the invariant of ClientAddressProofs.
LEMMA AdminAddrInv == AddrInv /\ [AdminNext]_allVars => AddrInv'
<1> SUFFICES ASSUME AddrInv, [AdminNext]_allVars PROVE AddrInv'
  OBVIOUS
<1>1. CASE ServeRequest /\ UNCHANGED adminVars
  BY <1>1, NextAddrInv DEF AddrNext
<1>2. ASSUME NEW a \in Addresses, NewAdminFromClaims(a) PROVE AddrInv'
  <2>1. CASE GetConsoleHTTPClient(a)
    BY <2>1, NextAddrInv DEF AddrNext
  <2>2. CASE pc = "ip" /\ pc' = "done" /\ UNCHANGED <<req, clientIP, client>>
    BY <2>2 DEF AddrInv, AddrTypeOK, InsecureOnlyForLoopbackTarget
  <2>3. QED
    BY <1>2, <2>1, <2>2 DEF NewAdminFromClaims
<1>3. CASE AdminNext /\ ~(ServeRequest /\ UNCHANGED adminVars)
           /\ ~\E a \in Addresses : NewAdminFromClaims(a)
  BY <1>3, CallsKeepAddress, NextAddrInv
<1>4. CASE UNCHANGED allVars
  BY <1>4, NextAddrInv DEF allVars
<1>5. QED
  BY <1>1, <1>2, <1>3, <1>4

(* Composed with the admin client, the request's address state stays      *)
(* typed (the property the MCAdminClient run checks).                      *)
THEOREM AdminAddrTypeCorrect == AdminSpec => []AddrTypeOK
<1>1. AdminInit => AddrInv
  BY InitAddrInv DEF AdminInit
<1>2. AddrInv => AddrTypeOK
  BY DEF AddrInv
<1>3. QED
  BY <1>1, <1>2, AdminAddrInv, PTL DEF AdminSpec

(* The admin client built by newAdminFromClaims skips TLS verification    *)
(* only for a loopback MinIO endpoint given as a URL, whatever the other  *)
(* calls and administrators do (the property the MCAdminClient run         *)
(* checks).                                                                *)
THEOREM AdminInsecureOnlyForLoopback == AdminSpec => []InsecureOnlyForLoopbackTarget
<1>1. AdminInit => AddrInv
  BY InitAddrInv DEF AdminInit
<1>2. AddrInv => InsecureOnlyForLoopbackTarget
  BY DEF AddrInv
<1>3. QED
  BY <1>1, <1>2, AdminAddrInv, PTL DEF AdminSpec

=============================================================================
