-------------------------------- MODULE Network --------------------------------
(***************************************************************************)
(* The network controller with its two allocators: services get a cluster  *)
(* IP and node ports, and a runtime that says which pods answer for them.  *)
(*                                                                         *)
(* A reconcile is a sequence of steps ("job") because the allocators throw *)
(* in the middle of it: what was reserved before stays reserved, and the   *)
(* work queue retries the key later.  Nothing else runs in between, as the *)
(* controller is the only one that hears of services and endpoints.        *)
(*                                                                         *)
(* An allocator probes its range from a hash of the key; here it takes any *)
(* free member.  The Endpoints and EndpointSlice objects are written and   *)
(* deleted with the runtime and have its contents; target ports and        *)
(* protocols are left out, and a LoadBalancer is a NodePort service.       *)
(* Services and pods are named by namespace and name.  Endpoints come from *)
(* the pods of all namespaces, while a pod's events are for the services   *)
(* of its own.  A pod is running when its phase is Running and it has an   *)
(* address; it is ready if, besides, none of its containers has exited.    *)
(***************************************************************************)
EXTENDS Naturals, Sequences, FiniteSets, SequencesExt

CONSTANTS
  Services,      \* names of services
  Pods,          \* names of pods
  SpaceOf,       \* the namespace of each service and pod
  Labels,        \* what selectors and pods carry
  Ports,         \* names of a service's ports
  Addresses,     \* cluster IPs
  AddressPool,   \* those of the range that ServiceIpAllocator assigns from
  NodePorts,     \* node ports
  PortRange,     \* those that NodePortAllocator assigns from
  ServiceSpecs,  \* what users write: type, ip, selector and ports
  MaxEdits,      \* bound of the model: user actions
  None,
  Headless       \* the clusterIP "None"

ASSUME RangesAssumption == AddressPool \subseteq Addresses /\ PortRange \subseteq NodePorts
PortMaps == UNION {[ps -> NodePorts \cup {None}] : ps \in SUBSET Ports}
Ips == Addresses \cup {None, Headless}

\* What is in a Service; an address or port that is not given is None.
Specs ==
  [type : {"ClusterIP", "NodePort", "ExternalName"}, ip : Ips,
   selector : Labels \cup {None}, ports : PortMaps]

\* A reconcile: its service as read and as it will be written, and the ports
\* it has still to reserve.
Jobs == [service : Services, read : Specs, spec : Specs, reserve : SUBSET Ports]

\* A ServiceRuntime: where a service answers, and the pods behind it.
Runtimes == [ip : Ips, ports : PortMaps, pods : SUBSET Pods]

PodRecords ==
  [label : Labels, running : BOOLEAN, ready : BOOLEAN, terminating : BOOLEAN]

ASSUME SpecsAssumption == ServiceSpecs \subseteq Specs
ASSUME NoneAssumption ==
  /\ None \notin NodePorts \cup Addresses \cup (Services \X Ports) \cup Specs \cup Jobs \cup Runtimes
  /\ Headless \notin Addresses \cup {None}
ASSUME BoundsAssumption == MaxEdits \in Nat

VARIABLES
  services,  \* per name the Service, or None
  pods,      \* per name the pod, or None
  runtime,   \* runtimeByServiceKey of NetworkState
  ipOf,      \* assignedByServiceKey of ServiceIpAllocator
  usedIps,
  portOf,    \* assignedByKey of NodePortAllocator, per service and port
  ownerOf,   \* keyByNodePort
  usedPorts, \* usedNodePorts
  queue,     \* the work queue's runnable keys
  waiting,   \* its keys that wait for a retry
  heard,     \* services that an event has still to enqueue
  job,       \* the reconcile that runs, or None
  clash,     \* history: a user gave an address that another service has
  strayed,   \* history: pairs of a service, not reconciled since, and a pod
             \* that was labelled out of its selector
  edits      \* user actions so far

ips == <<ipOf, usedIps>>
nodePorts == <<portOf, ownerOf, usedPorts>>
users == <<pods, edits>>
vars == <<services, runtime, ips, nodePorts, queue, waiting, heard, job, clash, strayed, users>>

-------------------------------------------------------------------------------
(* Services and pods *)

NeedsIp(spec) == spec.type # "ExternalName" /\ spec.ip = None

\* serviceNeedsNodePortAllocation, port by port
Unassigned(spec) ==
  {p \in DOMAIN spec.ports : spec.type = "NodePort" /\ spec.ports[p] = None}
Requested(spec) == {p \in DOMAIN spec.ports : spec.ports[p] # None}

Selects(spec, pod) == spec.selector # None /\ spec.selector = pod.label

Answers(spec, pod) == Selects(spec, pod) /\ pod.running /\ ~pod.terminating

\* getServiceEndpoints is given the pods of all namespaces.
EndpointsOf(spec) == {p \in Pods : pods[p] # None /\ Answers(spec, pods[p])}

-------------------------------------------------------------------------------
(* ServiceIpAllocator *)

ReserveIp(s, spec) ==
  IF spec.ip \in {None, Headless}
  THEN UNCHANGED <<ips, clash>>
  ELSE /\ ipOf' = [ipOf EXCEPT ![s] = spec.ip]
       /\ usedIps' = usedIps \cup {spec.ip}
       /\ clash' = (clash \/ (ipOf[s] # spec.ip /\ \E t \in Services : ipOf[t] = spec.ip))

\* Mutant: an address that is in use is taken.
FreeIpsAll == AddressPool

FreeIps == AddressPool \ usedIps

AssignIp(s, ip) ==
  IF ipOf[s] # None
  THEN ip = ipOf[s] /\ UNCHANGED ips
  ELSE /\ ip \in FreeIps
       /\ ipOf' = [ipOf EXCEPT ![s] = ip]
       /\ usedIps' = usedIps \cup {ip}

ReleaseIp(s) ==
  /\ ipOf' = [ipOf EXCEPT ![s] = None]
  /\ usedIps' = usedIps \ {ipOf[s]}

-------------------------------------------------------------------------------
(* NodePortAllocator *)

Taken(s, p, n) == ownerOf[n] \notin {None, <<s, p>>}

\* The port that a reservation or a release gives back
Freed(s, p, n) ==
  LET old == portOf[s][p]
  IN  {m \in NodePorts : m = old /\ m # n /\ ownerOf[m] = <<s, p>>}

\* Mutant: the port that the key had before is kept.
ReservePortAlso(s, p, n) ==
  /\ ownerOf' = [ownerOf EXCEPT ![n] = <<s, p>>]
  /\ portOf' = [portOf EXCEPT ![s][p] = n]
  /\ usedPorts' = usedPorts \cup {n}

ReservePort(s, p, n) ==
  LET freed == Freed(s, p, n)
  IN  /\ ownerOf' = [m \in NodePorts |-> IF m = n THEN <<s, p>>
                                         ELSE IF m \in freed THEN None ELSE ownerOf[m]]
      /\ portOf' = [portOf EXCEPT ![s][p] = n]
      /\ usedPorts' = (usedPorts \ freed) \cup {n}

AssignPort(s, p, n) ==
  IF portOf[s][p] # None
  THEN n = portOf[s][p] /\ UNCHANGED nodePorts
  ELSE /\ n \in PortRange \ usedPorts
       /\ usedPorts' = usedPorts \cup {n}
       /\ ownerOf' = [ownerOf EXCEPT ![n] = <<s, p>>]
       /\ portOf' = [portOf EXCEPT ![s][p] = n]

\* releaseService
ReleasePorts(s) ==
  LET freed == UNION {Freed(s, p, None) : p \in Ports}
  IN  /\ ownerOf' = [n \in NodePorts |-> IF n \in freed THEN None ELSE ownerOf[n]]
      /\ usedPorts' = usedPorts \ freed
      /\ portOf' = [portOf EXCEPT ![s] = [p \in Ports |-> None]]

-------------------------------------------------------------------------------
(* The work queue *)

Idle == job = None /\ queue = << >> /\ heard = {}

\* Mutant: the retry's timer is not cancelled.
EnqueueBeside(s) ==
  /\ queue' = IF Contains(queue, s) THEN queue ELSE Append(queue, s)
  /\ UNCHANGED waiting

\* add(): a key that waits for its retry becomes runnable.
Enqueue(s) ==
  /\ queue' = IF Contains(queue, s) THEN queue ELSE Append(queue, s)
  /\ waiting' = waiting \ {s}

Hear ==
  /\ job = None /\ queue = << >>
  /\ \E s \in heard : heard' = heard \ {s} /\ Enqueue(s)
  /\ UNCHANGED <<services, runtime, ips, nodePorts, job, clash, strayed, users>>

RetryFires(s) ==
  /\ Idle /\ s \in waiting
  /\ Enqueue(s)
  /\ UNCHANGED <<services, runtime, ips, nodePorts, heard, job, clash, strayed, users>>

\* Mutant: the key is dropped.
ThrowAway == job' = None /\ UNCHANGED waiting

\* A handler that throws ends, and its key is retried.
Throw == job' = None /\ waiting' = waiting \cup {job.service}

-------------------------------------------------------------------------------
(* reconcileServiceByKey *)

Begin(s, spec) ==
  job' = [service |-> s, read |-> spec, spec |-> spec, reserve |-> Requested(spec)]

\* Takes the next key; a service that is gone leaves no runtime.
Take ==
  /\ job = None /\ queue # << >>
  /\ queue' = Tail(queue)
  /\ LET s == Head(queue)
     IN  IF services[s] = None
         THEN /\ runtime' = [runtime EXCEPT ![s] = None]
              /\ UNCHANGED <<ips, job, clash>>
         ELSE /\ ReserveIp(s, services[s])
              /\ Begin(s, services[s])
              /\ UNCHANGED runtime
  /\ UNCHANGED <<services, nodePorts, waiting, heard, strayed, users>>

ReserveNext ==
  /\ job # None /\ job.reserve # {}
  /\ \E p \in job.reserve :
       IF Taken(job.service, p, job.spec.ports[p])
       THEN Throw /\ UNCHANGED nodePorts
       ELSE /\ ReservePort(job.service, p, job.spec.ports[p])
            /\ job' = [job EXCEPT !.reserve = @ \ {p}]
            /\ UNCHANGED waiting
  /\ UNCHANGED <<services, runtime, ips, queue, heard, clash, strayed, users>>

Reserved == job # None /\ job.reserve = {}

\* withNetworkAllocations, the cluster IP
IpStep ==
  /\ Reserved /\ NeedsIp(job.spec)
  /\ \/ /\ \E ip \in Addresses :
             AssignIp(job.service, ip) /\ job' = [job EXCEPT !.spec.ip = ip]
        /\ UNCHANGED waiting
     \/ /\ ipOf[job.service] = None /\ FreeIps = {}
        /\ Throw /\ UNCHANGED ips
  /\ UNCHANGED <<services, runtime, nodePorts, queue, heard, clash, strayed, users>>

\* withNetworkAllocations, the node ports
PortStep ==
  /\ Reserved /\ ~NeedsIp(job.spec)
  /\ \E p \in Unassigned(job.spec) :
       \/ /\ \E n \in NodePorts :
               AssignPort(job.service, p, n) /\ job' = [job EXCEPT !.spec.ports[p] = n]
          /\ UNCHANGED waiting
       \/ /\ portOf[job.service][p] = None /\ PortRange \subseteq usedPorts
          /\ Throw /\ UNCHANGED nodePorts
  /\ UNCHANGED <<services, runtime, ips, queue, heard, clash, strayed, users>>

Runtime(spec) == [ip |-> spec.ip, ports |-> spec.ports, pods |-> EndpointsOf(spec)]

\* The service is written if it changed, which enqueues it, and its runtime.
Publish ==
  /\ Reserved /\ ~NeedsIp(job.spec) /\ Unassigned(job.spec) = {}
  /\ services' = [services EXCEPT ![job.service] = job.spec]
  /\ IF job.spec # job.read THEN Enqueue(job.service) ELSE UNCHANGED <<queue, waiting>>
  /\ runtime' = [runtime EXCEPT ![job.service] = Runtime(job.spec)]
  /\ job' = None
  /\ strayed' = strayed \ ({job.service} \X Pods)
  /\ UNCHANGED <<ips, nodePorts, heard, clash, users>>

-------------------------------------------------------------------------------
(* Users and the kubelet *)

Edit == Idle /\ edits < MaxEdits /\ edits' = edits + 1

\* create, apply and replace: node ports and addresses that the new spec does
\* not have are assigned again.
WriteService(s, spec) ==
  /\ Edit
  /\ services' = [services EXCEPT ![s] = spec]
  /\ heard' = {s}
  /\ UNCHANGED <<runtime, ips, nodePorts, queue, waiting, job, clash, pods, strayed>>

\* onEvent for ServiceDeleted
OnServiceDeleted(s) == ReleaseIp(s) /\ ReleasePorts(s)

DeleteService(s) ==
  /\ Edit /\ services[s] # None
  /\ services' = [services EXCEPT ![s] = None]
  /\ OnServiceDeleted(s)
  /\ runtime' = [runtime EXCEPT ![s] = None]
  /\ UNCHANGED <<queue, waiting, heard, job, clash, pods, strayed>>

\* A pod's service has the pod's namespace.
Own(s, p) == SpaceOf[s] = SpaceOf[p]

\* Mutant: a deleted pod's services are not told.
SelectingLive(p, pod) ==
  {s \in Services : services[s] # None /\ Own(s, p) /\ pods'[p] # None
                   /\ Selects(services[s], pod)}

\* onEvent for a pod: the services of its namespace that select it as it is in
\* the event
Selecting(p, pod) ==
  {s \in Services : services[s] # None /\ Own(s, p) /\ Selects(services[s], pod)}

\* pod is what the event carries: the new pod, or the one that was deleted.
SetPod(p, new, pod) ==
  /\ pods' = [pods EXCEPT ![p] = new]
  /\ heard' = Selecting(p, pod)
  /\ UNCHANGED <<services, runtime, ips, nodePorts, queue, waiting, job, clash>>

CreatePod(p, label) ==
  LET pod == [label |-> label, running |-> FALSE, ready |-> FALSE, terminating |-> FALSE]
  IN  Edit /\ pods[p] = None /\ SetPod(p, pod, pod) /\ UNCHANGED strayed

Relabel(p, label) ==
  /\ Edit /\ pods[p] # None /\ pods[p].label # label
  /\ LET pod == [pods[p] EXCEPT !.label = label] IN SetPod(p, pod, pod)
  /\ strayed' = strayed \cup (Selecting(p, pods[p]) \X {p})

TerminatePod(p) ==
  /\ Edit /\ pods[p] # None /\ ~pods[p].terminating
  /\ LET pod == [pods[p] EXCEPT !.terminating = TRUE] IN SetPod(p, pod, pod)
  /\ UNCHANGED strayed

\* The kubelet starts a pod, a process in it exits, or the pod fails or is reset.
ChangePhase(p) ==
  /\ Idle /\ pods[p] # None /\ ~pods[p].terminating
  /\ \E running, ready \in BOOLEAN :
       /\ ready => running
       /\ <<running, ready>> # <<pods[p].running, pods[p].ready>>
       /\ LET pod == [pods[p] EXCEPT !.running = running, !.ready = ready]
          IN  SetPod(p, pod, pod)
  /\ UNCHANGED <<strayed, edits>>

RemovePod(p) ==
  /\ Idle /\ pods[p] # None
  /\ SetPod(p, None, pods[p])
  /\ UNCHANGED <<strayed, edits>>

-------------------------------------------------------------------------------

Init ==
  /\ services = [s \in Services |-> None]
  /\ pods = [p \in Pods |-> None]
  /\ runtime = [s \in Services |-> None]
  /\ ipOf = [s \in Services |-> None]
  /\ usedIps = {}
  /\ portOf = [s \in Services |-> [p \in Ports |-> None]]
  /\ ownerOf = [n \in NodePorts |-> None]
  /\ usedPorts = {}
  /\ queue = << >>
  /\ waiting = {}
  /\ heard = {}
  /\ job = None
  /\ clash = FALSE
  /\ strayed = {}
  /\ edits = 0

Reconcile == Hear \/ Take \/ ReserveNext \/ IpStep \/ PortStep \/ Publish

Next ==
  \/ Reconcile
  \/ \E s \in Services :
       \/ RetryFires(s)
       \/ \E spec \in ServiceSpecs : WriteService(s, spec)
       \/ DeleteService(s)
  \/ \E p \in Pods :
       \/ \E label \in Labels : CreatePod(p, label) \/ Relabel(p, label)
       \/ TerminatePod(p)
       \/ ChangePhase(p)
       \/ RemovePod(p)

Spec == Init /\ [][Next]_vars

\* The queue's loop ends, and a retry's timer fires at some idle moment.
Fairness == WF_vars(Reconcile) /\ \A s \in Services : SF_vars(RetryFires(s))

FairSpec == Spec /\ Fairness

-------------------------------------------------------------------------------
(* Properties *)

\* The objects, the runtimes and the allocators' maps hold what they are meant
\* to, a runtime and a running reconcile have a service, and a key that is to
\* run waits for no retry.
TypeOK ==
  /\ services \in [Services -> Specs \cup {None}]
  /\ pods \in [Pods -> PodRecords \cup {None}]
  /\ runtime \in [Services -> Runtimes \cup {None}]
  /\ \A s \in Services : runtime[s] # None => services[s] # None
  /\ ipOf \in [Services -> Addresses \cup {None}] /\ usedIps \subseteq Addresses
  /\ portOf \in [Services -> [Ports -> NodePorts \cup {None}]]
  /\ ownerOf \in [NodePorts -> (Services \X Ports) \cup {None}]
  /\ usedPorts \subseteq NodePorts
  /\ queue # << >> => \E s \in Services \ waiting : queue = <<s>>
  /\ waiting \cup heard \subseteq Services /\ strayed \subseteq Services \X Pods
  /\ job \in Jobs \cup {None}
  /\ job # None => job.service \notin waiting /\ services[job.service] # None
  /\ clash \in BOOLEAN /\ edits \in 0..MaxEdits

\* The books of the node ports balance: a port is used exactly when a service's
\* port owns it, that port has no other, and only services that exist own any.
PortBooksBalance ==
  /\ usedPorts = {n \in NodePorts : ownerOf[n] # None}
  /\ \A s \in Services, p \in Ports, n \in NodePorts :
       ownerOf[n] = <<s, p>> <=> portOf[s][p] = n
  /\ \A s \in Services, p \in Ports : portOf[s][p] # None => services[s] # None

\* findServiceByNodePort and findServiceByClusterIp: who may answer
ByNodePort(n) ==
  {s \in Services : runtime[s] # None
     /\ \E p \in DOMAIN runtime[s].ports : runtime[s].ports[p] = n}
ByIp(ip) == {s \in Services : runtime[s] # None /\ runtime[s].ip = ip}

\* Between calls a node port leads to one service, and so does a cluster IP,
\* unless a user gave one service the address of another.  A service that waits
\* for its retry still answers where it may answer no longer.
RoutesUnique ==
  Idle =>
    /\ \A n \in NodePorts : \A s, t \in ByNodePort(n) \ waiting : s = t
    /\ ~clash => \A ip \in Addresses : \A s, t \in ByIp(ip) \ waiting : s = t

\* Between calls a service that waits for no retry is routed as it says: its
\* runtime has its address and ports, every pod of its namespace that answers and
\* is ready, and of this namespace no pod that does not answer, except those that
\* were labelled out of its selector.
RuntimeFresh ==
  Idle =>
    \A s \in Services \ waiting :
      services[s] # None =>
        /\ runtime[s] # None
        /\ runtime[s].ip = services[s].ip /\ runtime[s].ports = services[s].ports
        /\ \A p \in Pods :
             Own(s, p) =>
               /\ p \in EndpointsOf(services[s]) /\ pods[p].ready => p \in runtime[s].pods
               /\ p \in runtime[s].pods /\ p \notin EndpointsOf(services[s])
                    => <<s, p>> \in strayed

Granted(s) ==
  services[s] # None =>
    /\ runtime[s] # None
    /\ runtime[s].ip = services[s].ip /\ runtime[s].ports = services[s].ports

\* The service lacks an address or a node port of a range that is exhausted.
Exhausted(s) ==
  \/ NeedsIp(services[s]) /\ ipOf[s] = None /\ FreeIps = {}
  \/ \E p \in Unassigned(services[s]) : portOf[s][p] = None /\ PortRange \subseteq usedPorts

\* Another service has a port that this one asks for, or a range is exhausted.
Blocked(s) ==
  /\ services[s] # None
  /\ \/ \E p \in Requested(services[s]) :
          ownerOf[services[s].ports[p]] \notin {None} \cup ({s} \X Ports)
     \/ Exhausted(s)

\* The service asks for a node port that it has itself under another of its ports,
\* one that it may have no longer.
InItsOwnWay(s) ==
  /\ services[s] # None
  /\ \E p \in Requested(services[s]) :
       \E q \in Ports \ {p} : ownerOf[services[s].ports[p]] = <<s, q>>

\* A service is given its address and ports in the end, if neither others nor
\* its own ports of before keep it from that.
Served == \A s \in Services : []<>(Granted(s) \/ Blocked(s) \/ InItsOwnWay(s))

===============================================================================
