---------------------------- MODULE IdentityCache ----------------------------
(***************************************************************************)
(* The agent's Kubernetes identity cache (src/internal/agent/k8s/cache.go) *)
(* and the cluster it watches.                                             *)
(*                                                                         *)
(* Two shared informers feed the cache, each with its own handler         *)
(* goroutine: the pod informer calls onPodAdd (for adds, updates and       *)
(* resyncs) and onPodDelete; the EndpointSlice informer calls              *)
(* onEndpointSliceUpdate and onEndpointSliceDelete.  Each informer         *)
(* delivers one object's changes in order, and every 30 s re-delivers its  *)
(* whole store as updates (the resync period of NewSharedInformerFactory). *)
(* onPodAdd reads podToServices under the read lock and writes the         *)
(* endpoint under the write lock later, so it is two steps here.           *)
(*                                                                         *)
(* The cluster: pods run with an IP, terminate (still holding the IP, now  *)
(* free for a new pod) and are deleted; one EndpointSlice per service      *)
(* lists the running pods the service selects, kept up to date by the      *)
(* EndpointSlice controller.  A running pod's labels can change, moving it *)
(* into or out of services' selectors (an update of the pod).  Workload resolution is left out: it depends  *)
(* on the pod alone and no property reads it.                              *)
(***************************************************************************)
EXTENDS Naturals, Sequences, SequencesExt, FiniteSets

CONSTANTS
    Pods,        \* pod names (namespace/name keys)
    IPs,         \* pod IPs
    Services,    \* service names
    NoPod,       \* no endpoint cached for an IP
    NoService,   \* the empty service name ""
    Member,      \* Member[p]: the services whose selectors match pod p at first
    NameReuse,   \* whether a deleted pod's name can come back (StatefulSet)
    MaxChanges   \* bound: pod starts, terminations and service changes

ASSUME /\ NoPod \notin Pods /\ NoService \notin Services
       /\ Member \in [Pods -> SUBSET Services]
       /\ NameReuse \in BOOLEAN /\ MaxChanges \in Nat

Endpoint == [pod : Pods \cup {NoPod}, svc : Services \cup {NoService}]
Empty == [pod |-> NoPod, svc |-> NoService]
SliceEp == [pod : Pods, addr : IPs]

VARIABLES
    phase,          \* cluster: pod is "none", "run" or "term"
    ip,             \* cluster: the pod's status.podIP
    member,         \* cluster: the services whose selectors match the pod now
    created,        \* cluster: the pod name has been used
    svcUp,          \* cluster: the service (and its slice) exists
    slice,          \* cluster: the slice's endpoints (pod, address)
    changes,        \* cluster changes so far
    podQ,           \* pod informer: changes not yet handled, in order
    sliceQ,         \* slice informer: changes not yet handled, in order
    endpoints,      \* c.endpoints: IP -> cached endpoint
    podToServices,  \* c.podToServices: pod key -> service name
    ppc,            \* pod handler: "idle" or "write" (inside onPodAdd)
    psvc            \* onPodAdd's svcName, read before the write lock

world == <<phase, ip, member, created, svcUp, slice, changes>>
cacheVars == <<endpoints, podToServices, ppc, psvc>>
vars == <<world, podQ, sliceQ, cacheVars>>

-----------------------------------------------------------------------------
(* Plausible faults in the operators below.                                *)

ForgetKeeps(e, i) == e
MapPodsKeepFirst(m, eps, s) ==
    [p \in Pods |-> IF p \in {x.pod : x \in eps} /\ m[p] = NoService THEN s ELSE m[p]]
UnmapToNothing(m, eps) ==
    [p \in Pods |-> IF p \in {x.pod : x \in eps} THEN NoPod ELSE m[p]]

-----------------------------------------------------------------------------

\* onPodDelete: delete(c.endpoints, podIP), whoever the entry names.
Forget(e, i) == [e EXCEPT ![i] = Empty]

\* lookupServiceForPod
LookupServiceForPod(p) == podToServices[p]

\* The slice handlers' loop over ep.Addresses: a cached endpoint at one of
\* the slice's addresses gets the service name (or "").
SetService(e, eps, s) ==
    [i \in IPs |-> IF i \in {x.addr : x \in eps} /\ e[i].pod # NoPod
                   THEN [e[i] EXCEPT !.svc = s] ELSE e[i]]

\* onEndpointSliceUpdate: podToServices[podKey] = svcName per target pod.
MapPods(m, eps, s) == [p \in Pods |-> IF p \in {x.pod : x \in eps} THEN s ELSE m[p]]

\* onEndpointSliceDelete: delete(c.podToServices, podKey) per target pod.
Unmap(m, eps) == MapPods(m, eps, NoService)

\* The endpoints the EndpointSlice controller publishes for service s.
Desired(s) ==
    {[pod |-> p, addr |-> ip[p]] : p \in {q \in Pods : phase[q] = "run" /\ s \in member[q]}}

PodEvent(op, p, i) == [op |-> op, pod |-> p, ip |-> i]

Init ==
    /\ phase = [p \in Pods |-> "none"]
    /\ ip = [p \in Pods |-> CHOOSE i \in IPs : TRUE]
    /\ member = Member
    /\ created = [p \in Pods |-> FALSE]
    /\ svcUp = [s \in Services |-> TRUE]
    /\ slice = [s \in Services |-> {}]
    /\ changes = 0
    /\ podQ = <<>>
    /\ sliceQ = <<>>
    /\ endpoints = [i \in IPs |-> Empty]
    /\ podToServices = [p \in Pods |-> NoService]
    /\ ppc = "idle"
    /\ psvc = NoService

-----------------------------------------------------------------------------
(* The cluster.                                                            *)

\* A pod starts with an IP no running pod holds; a terminating pod may
\* still show it.
PodStart(p, i) ==
    /\ changes < MaxChanges
    /\ phase[p] = "none"
    /\ NameReuse \/ ~created[p]
    /\ \A q \in Pods : phase[q] = "run" => ip[q] # i
    /\ phase' = [phase EXCEPT ![p] = "run"]
    /\ ip' = [ip EXCEPT ![p] = i]
    /\ created' = [created EXCEPT ![p] = TRUE]
    /\ changes' = changes + 1
    /\ podQ' = Append(podQ, PodEvent("upd", p, i))
    /\ UNCHANGED <<member, svcUp, slice, sliceQ, cacheVars>>

\* The pod is terminating: an update, its status still carries the IP.
PodTerminate(p) ==
    /\ changes < MaxChanges
    /\ phase[p] = "run"
    /\ phase' = [phase EXCEPT ![p] = "term"]
    /\ changes' = changes + 1
    /\ podQ' = Append(podQ, PodEvent("upd", p, ip[p]))
    /\ UNCHANGED <<member, ip, created, svcUp, slice, sliceQ, cacheVars>>

\* The pod's labels change: it now matches the services in ss.  This is an
\* update of the pod; the EndpointSlice controller follows with SliceSync.
PodRelabel(p, ss) ==
    /\ changes < MaxChanges
    /\ phase[p] = "run"
    /\ ss # member[p]
    /\ member' = [member EXCEPT ![p] = ss]
    /\ changes' = changes + 1
    /\ podQ' = Append(podQ, PodEvent("upd", p, ip[p]))
    /\ UNCHANGED <<phase, ip, created, svcUp, slice, sliceQ, cacheVars>>

\* The kubelet is done with a terminating pod: the object is deleted.
PodRemoved(p) ==
    /\ phase[p] = "term"
    /\ phase' = [phase EXCEPT ![p] = "none"]
    /\ podQ' = Append(podQ, PodEvent("del", p, ip[p]))
    /\ UNCHANGED <<member, ip, created, svcUp, slice, changes, sliceQ, cacheVars>>

\* The EndpointSlice controller brings a service's slice up to date.
SliceSync(s) ==
    /\ svcUp[s]
    /\ slice[s] # Desired(s)
    /\ slice' = [slice EXCEPT ![s] = Desired(s)]
    /\ sliceQ' = Append(sliceQ, [op |-> "upd", svc |-> s, eps |-> Desired(s)])
    /\ UNCHANGED <<member, phase, ip, created, svcUp, changes, podQ, cacheVars>>

\* The service is deleted, and its slice with it.
ServiceDelete(s) ==
    /\ changes < MaxChanges
    /\ svcUp[s]
    /\ svcUp' = [svcUp EXCEPT ![s] = FALSE]
    /\ slice' = [slice EXCEPT ![s] = {}]
    /\ changes' = changes + 1
    /\ sliceQ' = Append(sliceQ, [op |-> "del", svc |-> s, eps |-> slice[s]])
    /\ UNCHANGED <<member, phase, ip, created, podQ, cacheVars>>

\* The service is created again; the controller then publishes its slice.
ServiceCreate(s) ==
    /\ changes < MaxChanges
    /\ ~svcUp[s]
    /\ svcUp' = [svcUp EXCEPT ![s] = TRUE]
    /\ changes' = changes + 1
    /\ UNCHANGED <<member, phase, ip, created, slice, podQ, sliceQ, cacheVars>>

\* Informer resync: once the informer has caught up, every object of its
\* store is delivered again as an update, in the store's (map) order.  An
\* empty store delivers nothing.
ResyncPods ==
    /\ podQ = <<>>
    /\ \E order \in SetToSeqs({p \in Pods : phase[p] # "none"}) :
          podQ' = [k \in DOMAIN order |-> PodEvent("upd", order[k], ip[order[k]])]
    /\ UNCHANGED <<world, sliceQ, cacheVars>>

ResyncSlices ==
    /\ sliceQ = <<>>
    /\ \E order \in SetToSeqs({s \in Services : svcUp[s]}) :
          sliceQ' = [k \in DOMAIN order |->
                       [op |-> "upd", svc |-> order[k], eps |-> slice[order[k]]]]
    /\ UNCHANGED <<world, podQ, cacheVars>>

-----------------------------------------------------------------------------
(* The handlers.                                                           *)

\* onPodAdd, up to the write lock: svcName := lookupServiceForPod(...).
PodAddRead ==
    /\ ppc = "idle"
    /\ podQ # <<>> /\ Head(podQ).op = "upd"
    /\ psvc' = LookupServiceForPod(Head(podQ).pod)
    /\ ppc' = "write"
    /\ UNCHANGED <<world, podQ, sliceQ, endpoints, podToServices>>

\* onPodAdd, under the write lock: c.endpoints[podIP] = ep.
PodAddWrite ==
    /\ ppc = "write"
    /\ endpoints' = [endpoints EXCEPT ![Head(podQ).ip] =
                        [pod |-> Head(podQ).pod, svc |-> psvc]]
    /\ podQ' = Tail(podQ)
    /\ ppc' = "idle"
    /\ psvc' = NoService
    /\ UNCHANGED <<world, sliceQ, podToServices>>

OnPodDelete ==
    /\ ppc = "idle"
    /\ podQ # <<>> /\ Head(podQ).op = "del"
    /\ endpoints' = Forget(endpoints, Head(podQ).ip)
    /\ podQ' = Tail(podQ)
    /\ UNCHANGED <<world, sliceQ, podToServices, ppc, psvc>>

OnEndpointSliceUpdate ==
    /\ sliceQ # <<>> /\ Head(sliceQ).op = "upd"
    /\ LET ev == Head(sliceQ)
       IN  /\ podToServices' = MapPods(podToServices, ev.eps, ev.svc)
           /\ endpoints' = SetService(endpoints, ev.eps, ev.svc)
    /\ sliceQ' = Tail(sliceQ)
    /\ UNCHANGED <<world, podQ, ppc, psvc>>

OnEndpointSliceDelete ==
    /\ sliceQ # <<>> /\ Head(sliceQ).op = "del"
    /\ LET ev == Head(sliceQ)
       IN  /\ podToServices' = Unmap(podToServices, ev.eps)
           /\ endpoints' = SetService(endpoints, ev.eps, NoService)
    /\ sliceQ' = Tail(sliceQ)
    /\ UNCHANGED <<world, podQ, ppc, psvc>>

Cluster ==
    \/ \E p \in Pods, i \in IPs : PodStart(p, i)
    \/ \E p \in Pods : PodTerminate(p) \/ PodRemoved(p)
    \/ \E p \in Pods, ss \in SUBSET Services : PodRelabel(p, ss)
    \/ \E s \in Services : SliceSync(s) \/ ServiceDelete(s) \/ ServiceCreate(s)

Handlers ==
    \/ PodAddRead \/ PodAddWrite \/ OnPodDelete
    \/ OnEndpointSliceUpdate \/ OnEndpointSliceDelete

Next ==
    \/ Cluster
    \/ ResyncPods
    \/ ResyncSlices
    \/ Handlers

(* The handler goroutines run; the resync timer keeps firing; the kubelet  *)
(* finishes terminating pods and the EndpointSlice controller catches up   *)
(* (all weak fairness).  Starts, terminations, label and service changes  *)
(* are the cluster's users and get none.                                           *)
Fairness ==
    /\ WF_vars(PodAddRead) /\ WF_vars(PodAddWrite) /\ WF_vars(OnPodDelete)
    /\ WF_vars(OnEndpointSliceUpdate) /\ WF_vars(OnEndpointSliceDelete)
    /\ WF_vars(ResyncPods) /\ WF_vars(ResyncSlices)
    /\ \A p \in Pods : WF_vars(PodRemoved(p))
    /\ \A s \in Services : WF_vars(SliceSync(s))

Spec == Init /\ [][Next]_vars /\ Fairness

-----------------------------------------------------------------------------

TypeOK ==
    /\ phase \in [Pods -> {"none", "run", "term"}]
    /\ ip \in [Pods -> IPs]
    /\ member \in [Pods -> SUBSET Services]
    /\ slice \in [Services -> SUBSET SliceEp]
    /\ endpoints \in [IPs -> Endpoint]
    /\ podToServices \in [Pods -> Services \cup {NoService}]
    /\ ppc \in {"idle", "write"}
    /\ psvc \in Services \cup {NoService}

\* What the cache may say about IP i: the running pod holding it, with one
\* of the existing services that select it.  The cache keeps one service
\* per pod, so for a pod behind two services either one is right.  When no
\* existing service selects the pod, its service is taken from "orphan".
AcceptableWith(i, orphan) ==
    LET holders == {p \in Pods : phase[p] = "run" /\ ip[p] = i}
    IN  IF holders = {} THEN {Empty}
        ELSE LET p  == CHOOSE q \in holders : TRUE
                 up == {s \in member[p] : svcUp[s]}
             IN  [pod : {p}, svc : IF up = {} THEN orphan ELSE up]

\* The cache as the spec describes it: a pod no service selects has "".
CacheAgrees == \A i \in IPs : endpoints[i] \in AcceptableWith(i, {NoService})

\* The same, except that a pod no existing service selects may keep the
\* service name it last had.
CacheAgreesWhileSelected ==
    \A i \in IPs : endpoints[i] \in AcceptableWith(i, Services \cup {NoService})

\* Once the informers have delivered a pod's deletion, no cached endpoint
\* names it: onPodDelete removes the pod's IP, and no later update of that
\* pod can put it back, even when its IP was reused by another pod.
DeletedGone ==
    \A i \in IPs :
        LET p == endpoints[i].pod
        IN  p # NoPod =>
                \/ phase[p] # "none"
                \/ \E k \in 1..Len(podQ) : podQ[k].op = "del" /\ podQ[k].pod = p

\* Eventual consistency, as far as the code reaches it: once the cluster
\* stops changing, every IP's cached endpoint names the pod holding it, and
\* a pod that some existing service selects carries one such service, and
\* this stays so.  It needs the pod informer's resync to undo a deletion by
\* IP that removed a newer pod's entry (cache.go:177), the next slice
\* update to repair a service lost between onPodAdd's read and its write
\* (cache.go:140-153), and a resync to restore a pod behind two services
\* after one slice was handled last or deleted (cache.go:198, 232), under
\* label changes and pod-name reuse.
Converges == <>[]CacheAgreesWhileSelected

\* The spec's eventual consistency: a pod that no longer belongs to any
\* service ends up with no service.  It fails: podToServices is only ever
\* written for pods a slice lists (cache.go:198-210, 232-238), so a pod
\* relabelled out of its service, or deleted and back under the same name
\* after its service went, keeps the old name for good.
ConvergesToSpec == <>[]CacheAgrees

=============================================================================
