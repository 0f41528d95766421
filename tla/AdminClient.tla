----------------------------- MODULE AdminClient -----------------------------
(***************************************************************************)
(* The console's admin client (src/api/client-admin.go): a request builds  *)
(* it with NewMinioAdminClient (the transport from GetConsoleHTTPClient    *)
(* for the MinIO server and the caller's IP, see ClientAddress), then      *)
(* calls the AdminClient methods that do more than forward: listPolicies,  *)
(* getPolicy and addPolicy convert between policy documents and the JSON  *)
(* the server stores, getRemoteBucket picks one target of a list.  The    *)
(* server's state is shared: other administrators change it between the   *)
(* console's calls.                                                        *)
(*                                                                         *)
(* A stored policy is abstracted to the document it encodes and whether   *)
(* the console's pkg/policy decoder accepts it (a document written by a    *)
(* newer server or another tool may carry fields the strict decoder       *)
(* rejects).                                                               *)
(***************************************************************************)
EXTENDS ClientAddress, Functions, FiniteSets

CONSTANTS
  PolicyNames,     \* canned policy names
  Policies,        \* documents Policy.MarshalJSON accepts
  BadPolicies,     \* documents whose validation fails in MarshalJSON
  Buckets,         \* bucket names
  Targets,         \* remote bucket targets (madmin.BucketTarget)
  NoTarget,        \* the nil *madmin.BucketTarget
  MaxTargets,      \* the most targets a bucket holds in a run
  MaxCalls,        \* the most AdminClient calls the request makes
  MaxChanges       \* the most changes other administrators make

ASSUME AdminAssumption ==
  /\ Policies \cap BadPolicies = {}
  /\ NoTarget \notin Targets
  /\ {MaxTargets, MaxCalls, MaxChanges} \subseteq Nat

\* What the server stores for a policy: its JSON, and whether the
\* console's decoder (iampolicy.ParseConfig) accepts it.
Raw == [doc : Policies, known : BOOLEAN]

\* json.Marshal(policy): Policy.MarshalJSON validates first.
Marshal(p) ==
  IF p \in Policies THEN [ok |-> TRUE, raw |-> [doc |-> p, known |-> TRUE]]
                    ELSE [ok |-> FALSE]

\* iampolicy.ParseConfig(bytes.NewReader(raw))
ParseConfig(r) ==
  IF r.known THEN [ok |-> TRUE, doc |-> r.doc] ELSE [ok |-> FALSE]

NoCall == [op |-> "none"]

\* m[k] = v on a Go map: the key is added when it is new.
Put(m, k, v) == [x \in DOMAIN m \cup {k} |-> IF x = k THEN v ELSE m[x]]

VARIABLES
  store,     \* server: policy name -> stored JSON (a Go map)
  remote,    \* server: bucket -> its remote targets, in order
  admin,     \* "none", "ready", "failed": NewMinioAdminClient's outcome
  call,      \* the AdminClient call in progress (listPolicies' loop)
  policyMap, \* listPolicies: the map ListCannedPolicies returned
  todo,      \* listPolicies: names of policyMap not yet ranged over
  acc,       \* listPolicies: the policies map built so far
  ret,       \* the last call's result (op, err, val) and server answer
  calls,     \* calls made by the request
  changes    \* changes made by other administrators

adminVars == <<store, remote, admin, call, policyMap, todo, acc, ret, calls, changes>>
allVars == <<vars, adminVars>>

AdminInit ==
  /\ AddrInit
  /\ store \in UNION {[S -> Raw] : S \in SUBSET PolicyNames}
  /\ remote = [b \in Buckets |-> <<>>]
  /\ admin = "none"
  /\ call = NoCall
  /\ policyMap = <<>>
  /\ todo = {}
  /\ acc = <<>>
  /\ ret = NoCall
  /\ calls = 0
  /\ changes = 0

(* NewMinioAdminClient / newAdminFromClaims: madmin.NewWithOptions may    *)
(* reject the endpoint; otherwise the client gets the transport of        *)
(* GetConsoleHTTPClient(getMinIOServer(), clientIP).                       *)
NewAdminFromClaims(server) ==
  /\ admin = "none"
  /\ \/ /\ pc = "ip"
        /\ admin' = "failed"
        /\ pc' = "done"
        /\ UNCHANGED <<req, clientIP, client>>
     \/ /\ GetConsoleHTTPClient(server)
        /\ admin' = "ready"
  /\ UNCHANGED <<store, remote, call, policyMap, todo, acc, ret, calls, changes>>

\* A call may start when the client exists and nothing is in progress.
Idle == admin = "ready" /\ call = NoCall /\ calls < MaxCalls

\* The call returns err and val; the server had answered ans.
Return(op, err, val, ans) ==
  /\ ret' = [op |-> op, err |-> err, val |-> val, ans |-> ans]
  /\ calls' = calls + 1

(* listPolicies, the RPC: ListCannedPolicies fails, or its map is ranged *)
(* over (in Go's random order, one entry per step).                        *)
ListPolicies ==
  /\ Idle
  /\ \/ /\ Return("list", "rpc", NoCall, NoCall)
        /\ UNCHANGED <<call, policyMap, todo, acc>>
     \/ /\ call' = [op |-> "list"]
        /\ policyMap' = store
        /\ todo' = DOMAIN store
        /\ acc' = <<>>
        /\ UNCHANGED <<ret, calls>>
  /\ UNCHANGED <<vars, store, remote, admin, changes>>

\* Faulty variant: an entry that does not decode is skipped (continue).
ListPoliciesParseSkipsError ==
  /\ call.op = "list"
  /\ \E k \in todo :
       LET p == ParseConfig(policyMap[k]) IN
       /\ acc' = IF p.ok THEN Put(acc, k, p.doc) ELSE acc
       /\ todo' = todo \ {k}
       /\ UNCHANGED <<call, ret, calls>>
  /\ UNCHANGED <<vars, store, remote, admin, policyMap, changes>>

(* One iteration: ParseConfig(v); an error returns nil, err at once, else *)
(* policies[k] = p.                                                        *)
ListPoliciesParse ==
  /\ call.op = "list"
  /\ \E k \in todo :
       LET p == ParseConfig(policyMap[k]) IN
       IF p.ok
         THEN /\ acc' = Put(acc, k, p.doc)
              /\ todo' = todo \ {k}
              /\ UNCHANGED <<call, ret, calls>>
         ELSE /\ Return("list", "parse", NoCall, policyMap)
              /\ call' = NoCall
              /\ UNCHANGED <<todo, acc>>
  /\ UNCHANGED <<vars, store, remote, admin, policyMap, changes>>

\* The range is over: return policies, nil.
ListPoliciesReturn ==
  /\ call.op = "list"
  /\ todo = {}
  /\ Return("list", "none", acc, policyMap)
  /\ call' = NoCall
  /\ UNCHANGED <<vars, store, remote, admin, policyMap, todo, acc, changes>>

(* getPolicy(name): InfoCannedPolicy fails (a name the server does not    *)
(* hold, or the connection), else the ParseConfig of the bytes it sent.   *)
GetPolicy(n) ==
  /\ Idle
  /\ \/ Return("get", "rpc", NoCall, NoCall)
     \/ /\ n \in DOMAIN store
        /\ LET p == ParseConfig(store[n]) IN
             IF p.ok THEN Return("get", "none", p.doc, store[n])
                     ELSE Return("get", "parse", NoCall, store[n])
  /\ UNCHANGED <<vars, store, remote, admin, call, policyMap, todo, acc, changes>>

\* Faulty variant: the document is sent without MarshalJSON's validation.
AddPolicyUnvalidated(n, p) ==
  /\ Idle
  /\ \/ /\ Return("add", "rpc", NoCall, NoCall)
        /\ UNCHANGED store
     \/ /\ store' = Put(store, n, [doc |-> p, known |-> TRUE])
        /\ Return("add", "none", NoCall, NoCall)
  /\ UNCHANGED <<vars, remote, admin, call, policyMap, todo, acc, changes>>

(* addPolicy(name, policy): json.Marshal, then AddCannedPolicy, which the *)
(* server may refuse.                                                      *)
AddPolicy(n, p) ==
  /\ Idle
  /\ LET m == Marshal(p) IN
       \/ /\ ~m.ok
          /\ Return("add", "marshal", NoCall, NoCall)
          /\ UNCHANGED store
       \/ /\ m.ok
          /\ Return("add", "rpc", NoCall, NoCall)
          /\ UNCHANGED store
       \/ /\ m.ok
          /\ store' = Put(store, n, m.raw)
          /\ Return("add", "none", NoCall, NoCall)
  /\ UNCHANGED <<vars, remote, admin, call, policyMap, todo, acc, changes>>

\* removePolicy(name): RemoveCannedPolicy, forwarded.
RemovePolicy(n) ==
  /\ Idle
  /\ \/ /\ Return("remove", "rpc", NoCall, NoCall)
        /\ UNCHANGED store
     \/ /\ store' = Restrict(store, DOMAIN store \ {n})
        /\ Return("remove", "none", NoCall, NoCall)
  /\ UNCHANGED <<vars, remote, admin, call, policyMap, todo, acc, changes>>

(* getRemoteBucket(bucket): ListRemoteTargets; the first target when the *)
(* list is not empty, else nil with the nil error.                         *)
GetRemoteBucket(b) ==
  /\ Idle
  /\ \/ Return("getRemote", "rpc", NoTarget, NoCall)
     \/ LET ts == remote[b] IN
          Return("getRemote", "none",
                 IF Len(ts) > 0 THEN ts[1] ELSE NoTarget, ts)
  /\ UNCHANGED <<vars, store, remote, admin, call, policyMap, todo, acc, changes>>

\* addRemoteBucket(bucket, target): SetRemoteTarget, forwarded.
AddRemoteBucket(b, t) ==
  /\ Idle
  /\ Len(remote[b]) < MaxTargets
  /\ \/ /\ Return("addRemote", "rpc", NoTarget, NoCall)
        /\ UNCHANGED remote
     \/ /\ remote' = [remote EXCEPT ![b] = Append(@, t)]
        /\ Return("addRemote", "none", t, NoCall)
  /\ UNCHANGED <<vars, store, admin, call, policyMap, todo, acc, changes>>

\* removeRemoteBucket(bucket, arn): RemoveRemoteTarget, forwarded.
RemoveRemoteBucket(b) ==
  /\ Idle
  /\ \/ /\ Return("removeRemote", "rpc", NoTarget, NoCall)
        /\ UNCHANGED remote
     \/ \E i \in DOMAIN remote[b] :
          LET ts == remote[b] IN
          /\ remote' = [remote EXCEPT
                          ![b] = [j \in 1..Len(ts) - 1 |->
                                    IF j < i THEN ts[j] ELSE ts[j + 1]]]
          /\ Return("removeRemote", "none", NoTarget, NoCall)
  /\ UNCHANGED <<vars, store, admin, call, policyMap, todo, acc, changes>>

(* Other administrators (mc admin, another console, a newer server) add, *)
(* replace and remove policies, and add remote targets, at any time.       *)
OtherPutPolicy(n, r) ==
  /\ changes < MaxChanges
  /\ store' = Put(store, n, r)
  /\ changes' = changes + 1
  /\ UNCHANGED <<vars, remote, admin, call, policyMap, todo, acc, ret, calls>>

OtherRemovePolicy(n) ==
  /\ changes < MaxChanges
  /\ n \in DOMAIN store
  /\ store' = Restrict(store, DOMAIN store \ {n})
  /\ changes' = changes + 1
  /\ UNCHANGED <<vars, remote, admin, call, policyMap, todo, acc, ret, calls>>

OtherAddTarget(b, t) ==
  /\ changes < MaxChanges
  /\ Len(remote[b]) < MaxTargets
  /\ remote' = [remote EXCEPT ![b] = Append(@, t)]
  /\ changes' = changes + 1
  /\ UNCHANGED <<vars, store, admin, call, policyMap, todo, acc, ret, calls>>

\* The request's own steps: serving it, building the client, its calls.
RequestStep ==
  \/ ServeRequest /\ UNCHANGED adminVars
  \/ \E a \in Addresses : NewAdminFromClaims(a)
  \/ ListPolicies
  \/ ListPoliciesParse
  \/ ListPoliciesReturn
  \/ \E n \in PolicyNames : GetPolicy(n) \/ RemovePolicy(n)
  \/ \E n \in PolicyNames, p \in Policies \cup BadPolicies : AddPolicy(n, p)
  \/ \E b \in Buckets : GetRemoteBucket(b) \/ RemoveRemoteBucket(b)
  \/ \E b \in Buckets, t \in Targets : AddRemoteBucket(b, t)

OtherStep ==
  \/ \E n \in PolicyNames, r \in Raw : OtherPutPolicy(n, r)
  \/ \E n \in PolicyNames : OtherRemovePolicy(n)
  \/ \E b \in Buckets, t \in Targets : OtherAddTarget(b, t)

AdminNext == RequestStep \/ OtherStep

AdminSpec == AdminInit /\ [][AdminNext]_allVars

-----------------------------------------------------------------------------
(***************************************************************************)
(* Properties                                                              *)
(***************************************************************************)

Errs == {"none", "rpc", "parse", "marshal"}

AdminTypeOK ==
  /\ store \in UNION {[S -> Raw] : S \in SUBSET PolicyNames}
  /\ remote \in [Buckets -> Seq(Targets)]
  /\ admin \in {"none", "ready", "failed"}
  /\ call \in {NoCall, [op |-> "list"]}
  /\ todo \subseteq PolicyNames
  /\ acc \in UNION {[S -> Policies] : S \in SUBSET PolicyNames}
  /\ ret = NoCall \/ ret.err \in Errs
  /\ calls \in 0..MaxCalls
  /\ changes \in 0..MaxChanges

\* The documents of a policy map, when the decoder accepts every one.
AllParse(m) == \A n \in DOMAIN m : m[n].known
Docs(m) == [n \in DOMAIN m |-> m[n].doc]

(* listPolicies is all or nothing: when it succeeds it returns every      *)
(* policy the server listed, each decoded, and when it fails at decoding  *)
(* one of them is really one the console cannot read; other               *)
(* administrators' changes during the range do not leak into the result. *)
ListPoliciesAllOrNothing ==
  /\ (ret.op = "list" /\ ret.err = "none") =>
       AllParse(ret.ans) /\ ret.val = Docs(ret.ans)
  /\ (ret.op = "list" /\ ret.err = "parse") => ~AllParse(ret.ans)

=============================================================================
