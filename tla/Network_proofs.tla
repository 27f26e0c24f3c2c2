----------------------------- MODULE Network_proofs -----------------------------
(***************************************************************************)
(* Theorems about Network.  RoutesUnique speaks of runtimes, the books of  *)
(* the allocators.  What ties them is that a service no reconcile is due   *)
(* for (Settled) answers exactly where the allocators have it (Told), and  *)
(* that a reconcile has by its end reserved all it will publish (JobKept). *)
(* RuntimeFresh follows from the same two and from what each Settled       *)
(* service's runtime was last made of (Fresh).                             *)
(***************************************************************************)
EXTENDS Network, TLAPS

\* At most one key is runnable, and none while a reconcile runs.
OneKey ==
  /\ queue = << >> \/ \E s \in Services : queue = <<s>>
  /\ job # None => queue = << >>

JobType ==
  job # None => job \in Jobs /\ job.reserve \subseteq Requested(job.spec)

TypeInv == TypeOK /\ OneKey /\ JobType

PortTypes ==
  /\ portOf \in [Services -> [Ports -> NodePorts \cup {None}]]
  /\ ownerOf \in [NodePorts -> (Services \X Ports) \cup {None}]
  /\ usedPorts \subseteq NodePorts

\* The first two parts of PortBooksBalance
Books ==
  /\ usedPorts = {n \in NodePorts : ownerOf[n] # None}
  /\ \A s \in Services, p \in Ports, n \in NodePorts :
       ownerOf[n] = <<s, p>> <=> portOf[s][p] = n

PortBooks == PortTypes /\ Books

\* Only services that exist own node ports.
OwnersExist ==
  \A s \in Services, p \in Ports : portOf[s][p] # None => services[s] # None

\* Addresses that the allocator gave, or that no two users gave, are apart.
IpBooks ==
  ~clash =>
    /\ \A s \in Services : ipOf[s] # None => ipOf[s] \in usedIps
    /\ \A s, t \in Services : ipOf[s] # None /\ ipOf[s] = ipOf[t] => s = t

\* The service has this address and these ports of its.
Holds(s, ip, ports, ps) ==
  /\ ip \in Addresses => ipOf[s] = ip
  /\ \A p \in ps : ports[p] # None => portOf[s][p] = ports[p]

\* No reconcile of s is due or runs.
Settled(s) ==
  /\ s \notin waiting \cup heard /\ queue # <<s>>
  /\ job = None \/ job.service # s

Told ==
  \A s \in Services :
    Settled(s) /\ runtime[s] # None =>
      Holds(s, runtime[s].ip, runtime[s].ports, DOMAIN runtime[s].ports)

JobKept ==
  job # None =>
    Holds(job.service, job.spec.ip, job.spec.ports, DOMAIN job.spec.ports \ job.reserve)

RoutesInv == IpBooks /\ Told /\ JobKept

-------------------------------------------------------------------------------
(* The node-port allocator *)

\* A successful reservation gives the key its port, and nothing else changes
\* hands.
LEMMA ReservePortKeeps ==
  ASSUME NEW s \in Services, NEW p \in Ports, NEW n \in NodePorts,
         PortTypes, Books, ~Taken(s, p, n), ReservePort(s, p, n)
  PROVE  /\ PortTypes' /\ Books'
         /\ \A t \in Services, q \in Ports :
              portOf'[t][q] = IF t = s /\ q = p THEN n ELSE portOf[t][q]
<1> USE NoneAssumption
<1>1. \A t \in Services, q \in Ports :
        portOf'[t][q] = IF t = s /\ q = p THEN n ELSE portOf[t][q]
  BY DEF ReservePort, PortTypes
<1>2. \A m \in NodePorts :
        ownerOf'[m] = IF m = n THEN <<s, p>>
                      ELSE IF m = portOf[s][p] /\ ownerOf[m] = <<s, p>> THEN None ELSE ownerOf[m]
  BY DEF ReservePort, Freed
<1>3. PortTypes'
  BY DEF ReservePort, Freed, PortTypes
<1>4. usedPorts' = {m \in NodePorts : ownerOf'[m] # None}
  <2>1. \A m \in NodePorts : m \in usedPorts' <=>
          m = n \/ (m \in usedPorts /\ ~(m = portOf[s][p] /\ ownerOf[m] = <<s, p>>))
    BY DEF ReservePort, Freed
  <2>2. <<s, p>> # None
    OBVIOUS
  <2> QED
    BY <1>2, <1>3, <2>1, <2>2 DEF PortTypes, Books
<1>5. \A t \in Services, q \in Ports, m \in NodePorts :
        ownerOf'[m] = <<t, q>> <=> portOf'[t][q] = m
  <2> TAKE t \in Services, q \in Ports, m \in NodePorts
  <2>1. <<t, q>> # None /\ (<<t, q>> = <<s, p>> <=> t = s /\ q = p)
    OBVIOUS
  <2>2. CASE m = n
    BY <1>1, <1>2, <2>1, <2>2 DEF Books, Taken
  <2>3. CASE m # n
    BY <1>1, <1>2, <2>1, <2>3 DEF Books
  <2> QED
    BY <2>2, <2>3
<1> QED
  BY <1>1, <1>3, <1>4, <1>5 DEF Books

\* An assignment gives the key the port it has, or one that nobody has.
LEMMA AssignPortKeeps ==
  ASSUME NEW s \in Services, NEW p \in Ports, NEW n \in NodePorts,
         PortTypes, Books, AssignPort(s, p, n)
  PROVE  /\ PortTypes' /\ Books'
         /\ \A t \in Services, q \in Ports :
              portOf'[t][q] = IF t = s /\ q = p THEN n ELSE portOf[t][q]
<1> USE NoneAssumption
<1>1. CASE portOf[s][p] # None
  BY <1>1 DEF AssignPort, nodePorts, PortTypes, Books
<1>2. CASE portOf[s][p] = None
  <2>1. /\ n \notin usedPorts /\ usedPorts' = usedPorts \cup {n}
        /\ ownerOf' = [ownerOf EXCEPT ![n] = <<s, p>>]
        /\ portOf' = [portOf EXCEPT ![s][p] = n]
    BY <1>2 DEF AssignPort
  <2>2. \A t \in Services, q \in Ports :
          portOf'[t][q] = IF t = s /\ q = p THEN n ELSE portOf[t][q]
    BY <2>1 DEF PortTypes
  <2>3. \A m \in NodePorts : ownerOf'[m] = IF m = n THEN <<s, p>> ELSE ownerOf[m]
    BY <2>1 DEF PortTypes
  <2>4. PortTypes'
    BY <2>1 DEF PortTypes
  <2>5. ownerOf[n] = None
    BY <2>1 DEF Books
  <2>6. usedPorts' = {m \in NodePorts : ownerOf'[m] # None}
    BY <2>1, <2>3 DEF Books
  <2>7. \A t \in Services, q \in Ports, m \in NodePorts :
          ownerOf'[m] = <<t, q>> <=> portOf'[t][q] = m
    <3> TAKE t \in Services, q \in Ports, m \in NodePorts
    <3>1. <<t, q>> # None /\ (<<t, q>> = <<s, p>> <=> t = s /\ q = p)
      OBVIOUS
    <3>2. CASE m = n
      BY <2>2, <2>3, <2>5, <3>1, <3>2 DEF Books
    <3>3. CASE m # n
      BY <1>2, <2>2, <2>3, <3>1, <3>3 DEF Books
    <3> QED
      BY <3>2, <3>3
  <2> QED
    BY <2>2, <2>4, <2>6, <2>7 DEF Books
<1> QED
  BY <1>1, <1>2

\* A release takes all ports of the service, and no other's.
LEMMA ReleasePortsKeeps ==
  ASSUME NEW s \in Services, PortTypes, Books, ReleasePorts(s)
  PROVE  /\ PortTypes' /\ Books'
         /\ \A t \in Services, q \in Ports :
              portOf'[t][q] = IF t = s THEN None ELSE portOf[t][q]
<1> USE NoneAssumption
<1>1. \A t \in Services, q \in Ports :
        portOf'[t][q] = IF t = s THEN None ELSE portOf[t][q]
  BY DEF ReleasePorts, PortTypes
<1> DEFINE freed == UNION {Freed(s, p, None) : p \in Ports}
<1>2. \A m \in NodePorts : m \in freed <=> \E p \in Ports : ownerOf[m] = <<s, p>>
  BY DEF Freed, Books
<1>3. \A m \in NodePorts : ownerOf'[m] = IF m \in freed THEN None ELSE ownerOf[m]
  BY DEF ReleasePorts
<1>4. PortTypes'
  BY DEF ReleasePorts, PortTypes
<1>5. usedPorts' = {m \in NodePorts : ownerOf'[m] # None}
  <2>1. usedPorts' = usedPorts \ freed
    BY DEF ReleasePorts
  <2> HIDE DEF freed
  <2> QED
    BY <1>3, <2>1 DEF Books, PortTypes
<1>6. \A t \in Services, q \in Ports, m \in NodePorts :
        ownerOf'[m] = <<t, q>> <=> portOf'[t][q] = m
  <2> HIDE DEF freed
  <2> TAKE t \in Services, q \in Ports, m \in NodePorts
  <2>1. <<t, q>> # None /\ \A p \in Ports : <<t, q>> = <<s, p>> => t = s /\ q = p
    OBVIOUS
  <2>2. CASE t = s
    <3>1. portOf'[t][q] # m
      BY <1>1, <2>2
    <3>2. m \in freed => ownerOf'[m] # <<t, q>>
      BY <1>3, <2>1
    <3>3. m \notin freed => ownerOf'[m] # <<t, q>>
      BY <1>2, <1>3, <2>2
    <3> QED
      BY <3>1, <3>2, <3>3
  <2>3. CASE t # s
    <3>1. portOf'[t][q] = portOf[t][q]
      BY <1>1, <2>3
    <3>2. m \in freed => ownerOf'[m] # <<t, q>> /\ ownerOf[m] # <<t, q>>
      BY <1>2, <1>3, <2>1, <2>3
    <3>3. m \notin freed => ownerOf'[m] = ownerOf[m]
      BY <1>3
    <3>4. ownerOf[m] = <<t, q>> <=> portOf[t][q] = m
      BY DEF Books
    <3> QED
      BY <3>1, <3>2, <3>3, <3>4
  <2> QED
    BY <2>2, <2>3
<1> QED
  BY <1>1, <1>4, <1>5, <1>6 DEF Books

-------------------------------------------------------------------------------
(* Types *)

LEMMA InitType == Init => TypeInv
<1> SUFFICES ASSUME Init PROVE TypeInv
  OBVIOUS
<1>1. /\ services \in [Services -> Specs \cup {None}]
      /\ pods \in [Pods -> PodRecords \cup {None}]
      /\ runtime \in [Services -> Runtimes \cup {None}]
      /\ \A s \in Services : runtime[s] # None => services[s] # None
  BY DEF Init
<1>2. /\ ipOf \in [Services -> Addresses \cup {None}]
      /\ portOf \in [Services -> [Ports -> NodePorts \cup {None}]]
      /\ ownerOf \in [NodePorts -> (Services \X Ports) \cup {None}]
  BY DEF Init
<1>3. clash \in BOOLEAN
  BY DEF Init
<1>4. edits \in 0..MaxEdits
  <2>1. edits = 0
    BY DEF Init
  <2> QED
    BY <2>1, BoundsAssumption
<1>5. usedIps = {} /\ usedPorts = {} /\ queue = << >> /\ waiting = {} /\ heard = {}
      /\ job = None /\ strayed = {}
  BY DEF Init
<1> QED
  BY <1>1, <1>2, <1>3, <1>4, <1>5 DEF TypeInv, TypeOK, OneKey, JobType, Jobs

\* Adding a key when none is runnable leaves just this one.
LEMMA EnqueueOne ==
  ASSUME NEW s \in Services, queue = << >>, Enqueue(s)
  PROVE  queue' = <<s>> /\ waiting' = waiting \ {s}
BY DEF Enqueue, Contains

\* The keys that OneKey allows do not hide each other.
LEMMA Keys ==
  ASSUME NEW s, NEW t
  PROVE  (<<s>> = <<t>> <=> s = t) /\ <<s>> # << >> /\ Head(<<s>>) = s /\ Tail(<<s>>) = << >>
OBVIOUS

LEMMA HearType == TypeInv /\ Hear => TypeInv'
<1> SUFFICES ASSUME TypeInv, Hear PROVE TypeInv'
  OBVIOUS
<1>1. PICK s \in heard : heard' = heard \ {s} /\ Enqueue(s)
  BY DEF Hear
<1>2. s \in Services /\ queue' = <<s>> /\ waiting' = waiting \ {s} /\ job = None
  BY <1>1, EnqueueOne DEF Hear, TypeInv, TypeOK
<1> QED
  BY <1>1, <1>2, Keys
     DEF Hear, TypeInv, TypeOK, OneKey, JobType, Jobs, ips, nodePorts, users

LEMMA RetryType ==
  ASSUME NEW s \in Services, TypeInv, RetryFires(s)
  PROVE  TypeInv'
<1>1. queue' = <<s>> /\ waiting' = waiting \ {s} /\ job = None
  BY EnqueueOne DEF RetryFires, Idle
<1> QED
  BY <1>1, Keys DEF RetryFires, TypeInv, TypeOK, OneKey, JobType, Jobs, ips, nodePorts, users

\* What a reservation and an assignment do to the addresses.
LEMMA ReserveIpDoes ==
  ASSUME NEW s \in Services, NEW spec \in Specs, TypeOK, ReserveIp(s, spec)
  PROVE  /\ ipOf' \in [Services -> Addresses \cup {None}] /\ usedIps' \subseteq Addresses
         /\ clash' \in BOOLEAN
         /\ \A t \in Services \ {s} : ipOf'[t] = ipOf[t]
         /\ spec.ip \in Addresses => ipOf'[s] = spec.ip
<1>1. spec.ip \in Addresses \cup {None, Headless}
  BY DEF Specs, Ips
<1>2. CASE spec.ip \in {None, Headless}
  BY <1>2, NoneAssumption DEF ReserveIp, TypeOK, ips
<1>3. CASE spec.ip \notin {None, Headless}
  <2>1. /\ spec.ip \in Addresses
        /\ ipOf' = [ipOf EXCEPT ![s] = spec.ip] /\ usedIps' = usedIps \cup {spec.ip}
    BY <1>1, <1>3 DEF ReserveIp
  <2>2. clash' \in BOOLEAN
    BY <1>3 DEF ReserveIp, TypeOK
  <2> QED
    BY <2>1, <2>2 DEF TypeOK
<1> QED
  BY <1>2, <1>3

LEMMA TakeType == TypeInv /\ Take => TypeInv'
<1> SUFFICES ASSUME TypeInv, Take PROVE TypeInv'
  OBVIOUS
<1>1. PICK s \in Services : queue = <<s>>
  BY DEF TypeInv, OneKey, Take
<1>2. /\ job = None /\ queue' = << >> /\ s \notin waiting
      /\ UNCHANGED <<services, portOf, ownerOf, usedPorts, waiting, heard, pods, strayed, edits>>
  <2>1. Head(queue) = s /\ Tail(queue) = << >> /\ queue # << >>
    BY <1>1, Keys
  <2>2. s \notin waiting
    BY <1>1, <2>1, Keys DEF TypeInv, TypeOK
  <2> QED
    BY <2>1, <2>2 DEF Take, nodePorts, users
<1>3. CASE services[s] = None
  <2>1. runtime' = [runtime EXCEPT ![s] = None] /\ UNCHANGED <<ipOf, usedIps, job, clash>>
    BY <1>1, <1>3, Keys DEF Take, ips
  <2> QED
    BY <1>2, <2>1 DEF TypeInv, TypeOK, OneKey, JobType, Jobs
<1>4. CASE services[s] # None
  <2> DEFINE spec == services[s]
  <2>1. spec \in Specs
    BY <1>4 DEF TypeInv, TypeOK
  <2>2. ReserveIp(s, spec) /\ Begin(s, spec) /\ UNCHANGED runtime
    BY <1>1, <1>4, Keys DEF Take
  <2>3. job' = [service |-> s, read |-> spec, spec |-> spec, reserve |-> Requested(spec)]
    BY <2>2 DEF Begin
  <2>4. Requested(spec) \subseteq Ports
    BY <2>1 DEF Requested, Specs, PortMaps
  <2>5. JobType' /\ (job' # None => job'.service = s /\ job'.spec = spec)
    BY <2>1, <2>3, <2>4 DEF JobType, Jobs
  <2>6. /\ ipOf' \in [Services -> Addresses \cup {None}] /\ usedIps' \subseteq Addresses
        /\ clash' \in BOOLEAN
    BY <2>1, <2>2, ReserveIpDoes DEF TypeInv
  <2> QED
    <3>1. job' \in Jobs \cup {None} /\ (job' # None => job'.service = s)
      BY <2>5 DEF JobType
    <3>2. TypeOK'
      BY <1>2, <1>4, <2>2, <2>6, <3>1 DEF TypeInv, TypeOK
    <3> QED
      BY <1>2, <2>5, <3>2 DEF TypeInv, OneKey
<1> QED
  BY <1>3, <1>4

LEMMA ReserveNextType ==
  TypeInv /\ PortBooks /\ ReserveNext => TypeInv'
<1> SUFFICES ASSUME TypeInv, PortBooks, ReserveNext PROVE TypeInv'
  OBVIOUS
<1>1. PICK p \in job.reserve :
        IF Taken(job.service, p, job.spec.ports[p])
        THEN Throw /\ UNCHANGED nodePorts
        ELSE /\ ReservePort(job.service, p, job.spec.ports[p])
             /\ job' = [job EXCEPT !.reserve = @ \ {p}]
             /\ UNCHANGED waiting
  BY DEF ReserveNext
<1>2. /\ UNCHANGED <<services, runtime, ipOf, usedIps, queue, heard, clash, pods, strayed, edits>>
      /\ job # None /\ queue = << >> /\ job.service \in Services
  BY DEF ReserveNext, ips, users, TypeInv, TypeOK, Jobs, OneKey
<1>3. CASE Taken(job.service, p, job.spec.ports[p])
  BY <1>1, <1>2, <1>3 DEF Throw, nodePorts, TypeInv, TypeOK, OneKey, JobType, Jobs
<1>4. CASE ~Taken(job.service, p, job.spec.ports[p])
  <2> DEFINE n == job.spec.ports[p]
  <2>1. ReservePort(job.service, p, n) /\ job' = [job EXCEPT !.reserve = @ \ {p}]
        /\ UNCHANGED waiting
    BY <1>1, <1>4
  <2>2. job.spec \in Specs /\ p \in Ports /\ p \in Requested(job.spec)
    BY <1>2 DEF TypeInv, JobType, Jobs
  <2>3. n \in NodePorts
    BY <2>2 DEF Requested, Specs, PortMaps
  <2>4. PortTypes'
    BY <1>2, <1>4, <2>1, <2>2, <2>3, ReservePortKeeps DEF PortBooks
  <2>5. JobType' /\ job'.service = job.service /\ job'.spec = job.spec
    BY <1>2, <2>1 DEF TypeInv, JobType, Jobs
  <2> QED
    BY <1>2, <2>1, <2>4, <2>5 DEF PortTypes, TypeInv, TypeOK, Jobs, OneKey
<1> QED
  BY <1>3, <1>4

LEMMA IpStepType == TypeInv /\ IpStep => TypeInv'
<1> SUFFICES ASSUME TypeInv, IpStep PROVE TypeInv'
  OBVIOUS
<1>1. /\ UNCHANGED <<services, runtime, portOf, ownerOf, usedPorts, queue, heard, clash>>
      /\ UNCHANGED <<pods, strayed, edits>>
      /\ job # None /\ queue = << >> /\ job.service \in Services /\ job.reserve = {}
  BY DEF IpStep, Reserved, nodePorts, users, TypeInv, TypeOK, Jobs, OneKey
<1>2. CASE Throw /\ UNCHANGED ips
  BY <1>1, <1>2 DEF Throw, ips, TypeInv, TypeOK, OneKey, JobType, Jobs
<1>3. ASSUME NEW ip \in Addresses, AssignIp(job.service, ip),
             job' = [job EXCEPT !.spec.ip = ip], UNCHANGED waiting
      PROVE  TypeInv'
  <2>1. ipOf' \in [Services -> Addresses \cup {None}] /\ usedIps' \subseteq Addresses
    BY <1>1, <1>3 DEF AssignIp, ips, TypeInv, TypeOK
  <2>2. job.spec \in Specs
    BY <1>1 DEF TypeInv, JobType, Jobs
  <2>3. [job.spec EXCEPT !.ip = ip] \in Specs
    BY <2>2 DEF Specs, Ips
  <2>4. job' = [job EXCEPT !.spec = [job.spec EXCEPT !.ip = ip]]
    BY <1>1, <1>3, <2>2 DEF TypeInv, JobType, Jobs, Specs
  <2>5. JobType' /\ job'.service = job.service /\ job'.spec \in Specs
    BY <1>1, <2>3, <2>4 DEF TypeInv, JobType, Jobs
  <2> QED
    BY <1>1, <1>3, <2>1, <2>5 DEF TypeInv, TypeOK, Jobs, OneKey
<1> QED
  BY <1>2, <1>3 DEF IpStep

LEMMA PortStepType == TypeInv /\ PortBooks /\ PortStep => TypeInv'
<1> SUFFICES ASSUME TypeInv, PortBooks, PortStep PROVE TypeInv'
  OBVIOUS
<1>1. /\ UNCHANGED <<services, runtime, ipOf, usedIps, queue, heard, clash>>
      /\ UNCHANGED <<pods, strayed, edits>>
      /\ job # None /\ queue = << >> /\ job.service \in Services /\ job.reserve = {}
  BY DEF PortStep, Reserved, ips, users, TypeInv, TypeOK, Jobs, OneKey
<1>2. CASE Throw /\ UNCHANGED nodePorts
  BY <1>1, <1>2 DEF Throw, nodePorts, TypeInv, TypeOK, OneKey, JobType, Jobs
<1>3. ASSUME NEW p \in Unassigned(job.spec), NEW n \in NodePorts, AssignPort(job.service, p, n),
             job' = [job EXCEPT !.spec.ports[p] = n], UNCHANGED waiting
      PROVE  TypeInv'
  <2>1. job.spec \in Specs
    BY <1>1 DEF TypeInv, JobType, Jobs
  <2>2. p \in Ports /\ p \in DOMAIN job.spec.ports
    BY <2>1 DEF Unassigned, Specs, PortMaps
  <2>3. PortTypes'
    BY <1>1, <1>3, <2>2, AssignPortKeeps DEF PortBooks
  <2> DEFINE ports == [job.spec.ports EXCEPT ![p] = n]
  <2>4. ports \in PortMaps
    BY <2>1, <2>2 DEF Specs, PortMaps
  <2>5. [job.spec EXCEPT !.ports = ports] \in Specs
    BY <2>1, <2>4 DEF Specs
  <2>6. job' = [job EXCEPT !.spec = [job.spec EXCEPT !.ports = ports]]
    BY <1>1, <1>3, <2>1 DEF TypeInv, JobType, Jobs, Specs
  <2>7. JobType' /\ job'.service = job.service /\ job'.spec \in Specs
    BY <1>1, <2>5, <2>6 DEF TypeInv, JobType, Jobs
  <2> QED
    BY <1>1, <1>3, <2>3, <2>7 DEF PortTypes, TypeInv, TypeOK, Jobs, OneKey
<1> QED
  BY <1>2, <1>3 DEF PortStep

LEMMA PublishType == TypeInv /\ Publish => TypeInv'
<1> SUFFICES ASSUME TypeInv, Publish PROVE TypeInv'
  OBVIOUS
<1> DEFINE s == job.service
<1>1. /\ job # None /\ s \in Services /\ s \notin waiting /\ queue = << >> /\ job.spec \in Specs
      /\ job' = None /\ services' = [services EXCEPT ![s] = job.spec]
      /\ runtime' = [runtime EXCEPT ![s] = Runtime(job.spec)]
      /\ UNCHANGED <<ipOf, usedIps, portOf, ownerOf, usedPorts, heard, clash>>
      /\ UNCHANGED <<pods, edits>> /\ strayed' \subseteq strayed
  BY DEF Publish, Reserved, ips, nodePorts, users, TypeInv, TypeOK, Jobs, OneKey
<1>2. \/ queue' = << >> /\ waiting' = waiting
      \/ queue' = <<s>> /\ waiting' = waiting \ {s}
  BY <1>1, EnqueueOne DEF Publish
<1>3. Runtime(job.spec) \in Runtimes
  BY <1>1 DEF Runtime, Runtimes, EndpointsOf, Specs
<1>4. services' \in [Services -> Specs \cup {None}] /\ services'[s] # None
  BY <1>1, NoneAssumption DEF TypeInv, TypeOK
<1>5. \A t \in Services : runtime'[t] # None => services'[t] # None
  BY <1>1, <1>4 DEF TypeInv, TypeOK
<1>6. /\ OneKey'
      /\ queue' # << >> => \E t \in Services \ waiting' : queue' = <<t>>
      /\ waiting' \subseteq Services
  BY <1>1, <1>2 DEF TypeInv, TypeOK, OneKey
<1> QED
  BY <1>1, <1>3, <1>4, <1>5, <1>6 DEF TypeInv, TypeOK, JobType, Jobs

\* A user's action is counted.
LEMMA EditCounts == TypeOK /\ Edit => edits' \in 0..MaxEdits
BY BoundsAssumption DEF Edit, TypeOK

LEMMA WriteServiceType ==
  ASSUME NEW s \in Services, NEW spec \in ServiceSpecs, TypeInv, WriteService(s, spec)
  PROVE  TypeInv'
<1>1. spec \in Specs /\ spec # None
  BY SpecsAssumption, NoneAssumption
<1>2. edits' \in 0..MaxEdits
  BY EditCounts DEF WriteService, TypeInv
<1>3. /\ services' = [services EXCEPT ![s] = spec] /\ heard' = {s} /\ job = None
      /\ UNCHANGED <<runtime, ipOf, usedIps, portOf, ownerOf, usedPorts, queue, waiting>>
      /\ UNCHANGED <<job, clash, pods, strayed>>
  BY DEF WriteService, Edit, Idle, ips, nodePorts
<1>4. /\ services' \in [Services -> Specs \cup {None}]
      /\ \A t \in Services : services[t] # None => services'[t] # None
  BY <1>1, <1>3 DEF TypeInv, TypeOK
<1> QED
  BY <1>2, <1>3, <1>4 DEF TypeInv, TypeOK, OneKey, JobType, Jobs

LEMMA DeleteServiceType ==
  ASSUME NEW s \in Services, TypeInv, PortBooks, DeleteService(s)
  PROVE  TypeInv'
<1>1. edits' \in 0..MaxEdits
  BY EditCounts DEF DeleteService, TypeInv
<1>2. /\ services' = [services EXCEPT ![s] = None] /\ runtime' = [runtime EXCEPT ![s] = None]
      /\ ReleaseIp(s) /\ ReleasePorts(s) /\ job = None
      /\ UNCHANGED <<queue, waiting, heard, job, clash, pods, strayed>>
  BY DEF DeleteService, OnServiceDeleted, Edit, Idle
<1>3. PortTypes'
  BY <1>2, ReleasePortsKeeps DEF PortBooks
<1>4. ipOf' \in [Services -> Addresses \cup {None}] /\ usedIps' \subseteq Addresses
  BY <1>2 DEF ReleaseIp, TypeInv, TypeOK
<1>5. /\ services' \in [Services -> Specs \cup {None}]
      /\ runtime' \in [Services -> Runtimes \cup {None}]
      /\ \A t \in Services : runtime'[t] # None => services'[t] # None
  BY <1>2 DEF TypeInv, TypeOK
<1> QED
  BY <1>1, <1>2, <1>3, <1>4, <1>5 DEF PortTypes, TypeInv, TypeOK, OneKey, JobType, Jobs

\* The users' and the kubelet's actions on pods
PodStep ==
  \E p \in Pods :
    \/ \E label \in Labels : CreatePod(p, label) \/ Relabel(p, label)
    \/ TerminatePod(p) \/ ChangePhase(p) \/ RemovePod(p)

\* Each of them sets a pod while nothing is due, and some services hear of it.
LEMMA PodStepDoes ==
  ASSUME TypeOK, PodStep
  PROVE  /\ Idle /\ heard' \subseteq Services /\ edits' \in 0..MaxEdits
         /\ pods' \in [Pods -> PodRecords \cup {None}] /\ strayed' \subseteq Services \X Pods
         /\ UNCHANGED <<services, runtime, ipOf, usedIps, portOf, ownerOf, usedPorts>>
         /\ UNCHANGED <<queue, waiting, job, clash>>
<1> DEFINE
      Effect(p, new) ==
        /\ pods' = [pods EXCEPT ![p] = new] /\ heard' \subseteq Services
        /\ UNCHANGED <<services, runtime, ipOf, usedIps, portOf, ownerOf, usedPorts>>
        /\ UNCHANGED <<queue, waiting, job, clash>>
      Bounds == Idle /\ edits' \in 0..MaxEdits /\ strayed' \subseteq Services \X Pods
<1>1. /\ pods \in [Pods -> PodRecords \cup {None}] /\ strayed \subseteq Services \X Pods
      /\ edits \in 0..MaxEdits
  BY DEF TypeOK, Jobs
<1>2. ASSUME NEW p \in Pods, NEW new, NEW pod, SetPod(p, new, pod)
      PROVE  Effect(p, new)
  BY <1>2 DEF SetPod, Selecting, ips, nodePorts
<1>3. ASSUME NEW p \in Pods, NEW label \in Labels, CreatePod(p, label)
      PROVE  Bounds /\ \E new \in PodRecords : Effect(p, new)
  <2> DEFINE pod == [label |-> label, running |-> FALSE, ready |-> FALSE, terminating |-> FALSE]
  <2>1. SetPod(p, pod, pod) /\ Edit /\ UNCHANGED strayed
    BY <1>3 DEF CreatePod
  <2>2. pod \in PodRecords
    BY DEF PodRecords
  <2>3. Bounds
    BY <1>1, <2>1, EditCounts DEF Edit
  <2> HIDE DEF Bounds, pod, Effect
  <2> QED
    BY <1>2, <2>1, <2>2, <2>3
<1>4. ASSUME NEW p \in Pods, NEW label \in Labels, Relabel(p, label)
      PROVE  Bounds /\ \E new \in PodRecords : Effect(p, new)
  <2> DEFINE pod == [pods[p] EXCEPT !.label = label]
  <2>1. /\ SetPod(p, pod, pod) /\ Edit /\ pods[p] # None
        /\ strayed' = strayed \cup (Selecting(p, pods[p]) \X {p})
    BY <1>4 DEF Relabel
  <2>2. pod \in PodRecords
    BY <1>1, <2>1 DEF PodRecords
  <2>3. Bounds
    BY <1>1, <2>1, EditCounts DEF Edit, Selecting
  <2> HIDE DEF Bounds, pod, Effect
  <2> QED
    BY <1>2, <2>1, <2>2, <2>3
<1>5. ASSUME NEW p \in Pods, TerminatePod(p)
      PROVE  Bounds /\ \E new \in PodRecords : Effect(p, new)
  <2> DEFINE pod == [pods[p] EXCEPT !.terminating = TRUE]
  <2>1. SetPod(p, pod, pod) /\ Edit /\ UNCHANGED strayed /\ pods[p] # None
    BY <1>5 DEF TerminatePod
  <2>2. pod \in PodRecords
    BY <1>1, <2>1 DEF PodRecords
  <2>3. Bounds
    BY <1>1, <2>1, EditCounts DEF Edit
  <2> HIDE DEF Bounds, pod, Effect
  <2> QED
    BY <1>2, <2>1, <2>2, <2>3
<1>6. ASSUME NEW p \in Pods, ChangePhase(p)
      PROVE  Bounds /\ \E new \in PodRecords : Effect(p, new)
  <2>1. PICK running, ready \in BOOLEAN :
          LET pod == [pods[p] EXCEPT !.running = running, !.ready = ready]
          IN  SetPod(p, pod, pod) /\ Idle /\ UNCHANGED <<strayed, edits>> /\ pods[p] # None
    BY <1>6 DEF ChangePhase
  <2> DEFINE pod == [pods[p] EXCEPT !.running = running, !.ready = ready]
  <2>2. SetPod(p, pod, pod)
    BY <2>1
  <2>3. pod \in PodRecords
    BY <1>1, <2>1 DEF PodRecords
  <2>4. Bounds
    BY <1>1, <2>1
  <2> HIDE DEF Bounds, pod, Effect
  <2> QED
    BY <1>2, <2>2, <2>3, <2>4
<1>7. ASSUME NEW p \in Pods, RemovePod(p)
      PROVE  Bounds /\ Effect(p, None)
  <2>1. SetPod(p, None, pods[p]) /\ Idle /\ UNCHANGED <<strayed, edits>>
    BY <1>7 DEF RemovePod
  <2>2. Bounds
    BY <1>1, <2>1
  <2> HIDE DEF Bounds, Effect
  <2> QED
    BY <1>2, <2>1, <2>2
<1>8. PICK p \in Pods, new \in PodRecords \cup {None} : Bounds /\ Effect(p, new)
  <2> HIDE DEF Bounds, Effect
  <2> QED
    BY <1>3, <1>4, <1>5, <1>6, <1>7 DEF PodStep
<1> QED
  BY <1>1, <1>8

LEMMA PodStepType == TypeInv /\ PodStep => TypeInv'
<1> SUFFICES ASSUME TypeInv, PodStep PROVE TypeInv'
  OBVIOUS
<1>1. TypeOK /\ job = None
  BY PodStepDoes DEF TypeInv, Idle
<1> QED
  BY <1>1, PodStepDoes DEF TypeInv, TypeOK, OneKey, JobType, Jobs

-------------------------------------------------------------------------------
(* The steps *)

\* What the steps are, with the pods' in one
LEMMA Steps ==
  ASSUME [Next]_vars
  PROVE  \/ Hear \/ Take \/ ReserveNext \/ IpStep \/ PortStep \/ Publish
         \/ \E s \in Services : \/ RetryFires(s) \/ DeleteService(s)
                               \/ \E spec \in ServiceSpecs : WriteService(s, spec)
         \/ PodStep
         \/ UNCHANGED vars
BY DEF Next, Reconcile, PodStep

\* A step of the port allocator is one of its three operations: the reconcile
\* has a port for one of its service's, or a service is deleted.
LEMMA PortBooksStep ==
  ASSUME TypeInv, PortBooks, OwnersExist, [Next]_vars
  PROVE  PortBooks' /\ OwnersExist'
<1> USE NoneAssumption
<1>1. ASSUME NEW p \in Ports, NEW n \in NodePorts, job # None, UNCHANGED services,
             \/ ReservePort(job.service, p, n) /\ ~Taken(job.service, p, n)
             \/ AssignPort(job.service, p, n)
      PROVE  PortBooks' /\ OwnersExist'
  <2>1. job.service \in Services /\ services[job.service] # None
    BY <1>1 DEF TypeInv, TypeOK, Jobs
  <2>2. /\ PortTypes' /\ Books'
        /\ \A t \in Services, q \in Ports :
             portOf'[t][q] = IF t = job.service /\ q = p THEN n ELSE portOf[t][q]
    BY <1>1, <2>1, ReservePortKeeps, AssignPortKeeps DEF PortBooks
  <2> QED
    BY <1>1, <2>1, <2>2 DEF PortBooks, OwnersExist
<1>2. ASSUME UNCHANGED <<portOf, ownerOf, usedPorts>>,
             \A s \in Services : services[s] # None => services'[s] # None
      PROVE  PortBooks' /\ OwnersExist'
  BY <1>2 DEF PortBooks, PortTypes, Books, OwnersExist
<1>3. CASE ReserveNext
  <2>1. PICK p \in job.reserve :
          IF Taken(job.service, p, job.spec.ports[p])
          THEN UNCHANGED nodePorts
          ELSE ReservePort(job.service, p, job.spec.ports[p])
    BY <1>3 DEF ReserveNext
  <2>2. UNCHANGED services /\ job # None
    BY <1>3 DEF ReserveNext
  <2>3. p \in Ports /\ job.spec.ports[p] \in NodePorts
    BY <2>2 DEF TypeInv, JobType, Jobs, Requested, Specs, PortMaps
  <2>4. CASE Taken(job.service, p, job.spec.ports[p])
    BY <1>2, <2>1, <2>2, <2>4 DEF nodePorts
  <2> QED
    BY <1>1, <2>1, <2>2, <2>3, <2>4
<1>4. CASE PortStep
  <2>1. UNCHANGED services /\ job # None
    BY <1>4 DEF PortStep, Reserved
  <2>2. CASE UNCHANGED nodePorts
    BY <1>2, <2>1, <2>2 DEF nodePorts
  <2>3. ASSUME NEW p \in Unassigned(job.spec), NEW n \in NodePorts, AssignPort(job.service, p, n)
        PROVE  PortBooks' /\ OwnersExist'
    <3>1. p \in Ports
      BY <2>1 DEF Unassigned, Specs, PortMaps, TypeInv, JobType, Jobs
    <3> QED
      BY <1>1, <2>1, <2>3, <3>1
  <2> QED
    BY <1>4, <2>2, <2>3 DEF PortStep
<1>5. ASSUME NEW s \in Services, DeleteService(s)
      PROVE  PortBooks' /\ OwnersExist'
  <2>1. ReleasePorts(s) /\ services' = [services EXCEPT ![s] = None]
    BY <1>5 DEF DeleteService, OnServiceDeleted
  <2>2. /\ PortTypes' /\ Books'
        /\ \A t \in Services, q \in Ports :
             portOf'[t][q] = IF t = s THEN None ELSE portOf[t][q]
    BY <2>1, ReleasePortsKeeps DEF PortBooks
  <2>3. \A t \in Services \ {s} : services'[t] = services[t]
    BY <2>1 DEF TypeInv, TypeOK
  <2> QED
    BY <2>2, <2>3 DEF PortBooks, OwnersExist
<1>6. ASSUME NEW s \in Services, NEW spec \in ServiceSpecs, WriteService(s, spec)
      PROVE  PortBooks' /\ OwnersExist'
  <2>1. spec # None /\ services' = [services EXCEPT ![s] = spec] /\ UNCHANGED nodePorts
    BY <1>6, SpecsAssumption DEF WriteService
  <2> QED
    BY <1>2, <2>1 DEF TypeInv, TypeOK, nodePorts
<1>7. CASE Publish
  <2>1. /\ job # None /\ services' = [services EXCEPT ![job.service] = job.spec]
        /\ UNCHANGED nodePorts
    BY <1>7 DEF Publish, Reserved
  <2>2. job.spec # None
    BY <2>1 DEF TypeInv, TypeOK, Jobs
  <2> QED
    BY <1>2, <2>1, <2>2 DEF TypeInv, TypeOK, nodePorts
<1>8. CASE PodStep
  BY <1>2, <1>8, PodStepDoes DEF TypeInv
<1>9. CASE Hear \/ Take \/ IpStep \/ (\E s \in Services : RetryFires(s)) \/ UNCHANGED vars
  <2>1. UNCHANGED <<services, nodePorts>>
    BY <1>9 DEF Hear, Take, IpStep, RetryFires, vars
  <2> QED
    BY <1>2, <2>1 DEF nodePorts
<1> QED
  BY <1>3, <1>4, <1>5, <1>6, <1>7, <1>8, <1>9, Steps

LEMMA TypeStep ==
  ASSUME TypeInv, PortBooks, [Next]_vars
  PROVE  TypeInv'
<1>1. CASE UNCHANGED vars
  BY <1>1 DEF vars, ips, nodePorts, users, TypeInv, TypeOK, OneKey, JobType, Jobs
<1> QED
  BY <1>1, Steps, HearType, TakeType, ReserveNextType, IpStepType, PortStepType, PublishType,
     RetryType, WriteServiceType, DeleteServiceType, PodStepType

LEMMA InitBooks == Init => PortBooks /\ OwnersExist
<1> SUFFICES ASSUME Init PROVE PortBooks /\ OwnersExist
  OBVIOUS
<1>1. /\ usedPorts = {} /\ \A n \in NodePorts : ownerOf[n] = None
      /\ \A s \in Services, p \in Ports : portOf[s][p] = None
  BY DEF Init
<1>2. PortTypes
  BY InitType DEF TypeInv, TypeOK, PortTypes
<1> QED
  BY <1>1, <1>2, NoneAssumption DEF PortBooks, Books, OwnersExist

IInv == TypeInv /\ PortBooks /\ OwnersExist

THEOREM Inductive == Spec => []IInv
<1>1. Init => IInv
  BY InitType, InitBooks DEF IInv
<1>2. IInv /\ [Next]_vars => IInv'
  BY TypeStep, PortBooksStep DEF IInv
<1> QED
  BY <1>1, <1>2, PTL DEF Spec

\* The objects, the runtimes and the allocators' maps are what they should be
\* (reconcileServiceByKey, onEvent), and the key that is to run waits for no
\* retry (WorkQueue's enqueueKey).
THEOREM TypesHold == Spec => []TypeOK
<1>1. IInv => TypeOK
  BY DEF IInv, TypeInv
<1> QED
  BY <1>1, Inductive, PTL

\* Through all reservations that fail half-way, retries, edits and deletions
\* the three maps of NodePortAllocator describe one assignment of ports to
\* services that exist.
THEOREM BooksBalance == Spec => []PortBooksBalance
<1>1. IInv => PortBooksBalance
  BY DEF IInv, PortBooks, Books, OwnersExist, PortBooksBalance
<1> QED
  BY <1>1, Inductive, PTL

-------------------------------------------------------------------------------
(* Addresses *)

LEMMA ReserveIpBooks ==
  ASSUME NEW s \in Services, NEW spec \in Specs, TypeOK, IpBooks, ReserveIp(s, spec)
  PROVE  IpBooks'
<1>1. CASE spec.ip \in {None, Headless}
  BY <1>1 DEF ReserveIp, IpBooks, ips
<1>2. CASE spec.ip \notin {None, Headless}
  <2>1. /\ ipOf' = [ipOf EXCEPT ![s] = spec.ip] /\ usedIps' = usedIps \cup {spec.ip}
        /\ clash' = (clash \/ (ipOf[s] # spec.ip /\ \E t \in Services : ipOf[t] = spec.ip))
    BY <1>2 DEF ReserveIp
  <2>2. SUFFICES ASSUME ~clash' PROVE IpBooks'
    BY DEF IpBooks
  <2>3. ~clash /\ (ipOf[s] = spec.ip \/ \A t \in Services : ipOf[t] # spec.ip)
    BY <2>1, <2>2
  <2>4. \A t \in Services : ipOf'[t] = IF t = s THEN spec.ip ELSE ipOf[t]
    BY <2>1 DEF TypeOK
  <2> QED
    BY <1>2, <2>1, <2>3, <2>4 DEF IpBooks
<1> QED
  BY <1>1, <1>2

LEMMA AssignIpBooks ==
  ASSUME NEW s \in Services, NEW ip \in Addresses, TypeOK, IpBooks, AssignIp(s, ip), UNCHANGED clash
  PROVE  /\ IpBooks' /\ ipOf'[s] = ip
         /\ \A t \in Services \ {s} : ipOf'[t] = ipOf[t]
<1>1. CASE ipOf[s] # None
  BY <1>1 DEF AssignIp, IpBooks, ips
<1>2. CASE ipOf[s] = None
  <2>1. ip \notin usedIps /\ ipOf' = [ipOf EXCEPT ![s] = ip] /\ usedIps' = usedIps \cup {ip}
    BY <1>2 DEF AssignIp, FreeIps
  <2>2. \A t \in Services : ipOf'[t] = IF t = s THEN ip ELSE ipOf[t]
    BY <2>1 DEF TypeOK
  <2>3. ip # None
    BY NoneAssumption
  <2> QED
    BY <2>1, <2>2, <2>3 DEF IpBooks
<1> QED
  BY <1>1, <1>2

LEMMA ReleaseIpBooks ==
  ASSUME NEW s \in Services, TypeOK, IpBooks, ReleaseIp(s), UNCHANGED clash
  PROVE  IpBooks' /\ \A t \in Services \ {s} : ipOf'[t] = ipOf[t]
<1>1. \A t \in Services : ipOf'[t] = IF t = s THEN None ELSE ipOf[t]
  BY DEF ReleaseIp, TypeOK
<1>2. usedIps' = usedIps \ {ipOf[s]}
  BY DEF ReleaseIp
<1> QED
  BY <1>1, <1>2 DEF IpBooks

-------------------------------------------------------------------------------
(* Routes *)

\* What settled services answer on is theirs after a step that changes at most
\* one service, and leaves that one unsettled or without a runtime.
LEMMA ToldElsewhere ==
  ASSUME NEW s \in Services, Told,
         \A t \in Services \ {s} :
           /\ Settled(t)' => Settled(t)
           /\ runtime'[t] = runtime[t] /\ ipOf'[t] = ipOf[t] /\ portOf'[t] = portOf[t],
         ~Settled(s)' \/ runtime'[s] = None
  PROVE  Told'
BY DEF Told, Holds

\* The same after a step that changes none.
LEMMA ToldStays ==
  ASSUME Told, UNCHANGED <<ipOf, portOf, runtime>>,
         \A t \in Services : Settled(t)' => Settled(t)
  PROVE  Told'
BY DEF Told, Holds

LEMMA TakeRoutes ==
  ASSUME IInv, RoutesInv, Take
  PROVE  RoutesInv'
<1>1. PICK s \in Services : queue = <<s>>
  BY DEF IInv, TypeInv, OneKey, Take
<1>2. /\ job = None /\ queue' = << >> /\ Head(queue) = s
      /\ UNCHANGED <<portOf, waiting, heard>>
  <2>1. Tail(queue) = << >> /\ Head(queue) = s
    BY <1>1, Keys
  <2> QED
    BY <2>1 DEF Take, nodePorts
<1>3. \A t \in Services \ {s} : Settled(t)' => Settled(t)
  BY <1>1, <1>2, Keys DEF Settled
<1>4. CASE services[s] = None
  <2>1. runtime' = [runtime EXCEPT ![s] = None] /\ UNCHANGED <<ipOf, usedIps, job, clash>>
    BY <1>2, <1>4 DEF Take, ips
  <2>2. runtime'[s] = None /\ \A t \in Services \ {s} : runtime'[t] = runtime[t]
    BY <2>1 DEF IInv, TypeInv, TypeOK
  <2>3. Told'
    BY <1>2, <1>3, <2>1, <2>2, ToldElsewhere DEF RoutesInv
  <2> QED
    BY <1>2, <2>1, <2>3 DEF RoutesInv, IpBooks, JobKept
<1>5. CASE services[s] # None
  <2> DEFINE spec == services[s]
  <2>1. spec \in Specs
    BY <1>5 DEF IInv, TypeInv, TypeOK
  <2>2. ReserveIp(s, spec) /\ Begin(s, spec) /\ UNCHANGED runtime
    BY <1>2, <1>5 DEF Take
  <2>3. job' # None /\ job'.service = s /\ job'.spec = spec /\ job'.reserve = Requested(spec)
    <3>1. Requested(spec) \subseteq Ports
      BY <2>1 DEF Requested, Specs, PortMaps
    <3>2. job' \in Jobs
      BY <2>1, <2>2, <3>1 DEF Begin, Jobs
    <3> QED
      BY <2>2, <3>2, NoneAssumption DEF Begin
  <2>4. TypeOK /\ IpBooks
    BY DEF IInv, TypeInv, RoutesInv
  <2>5. /\ \A t \in Services \ {s} : ipOf'[t] = ipOf[t]
        /\ spec.ip \in Addresses => ipOf'[s] = spec.ip
    BY <2>1, <2>2, <2>4, ReserveIpDoes
  <2>6. IpBooks'
    BY <2>1, <2>2, <2>4, ReserveIpBooks
  <2>7. ~Settled(s)'
    BY <2>3 DEF Settled
  <2>8. Told'
    BY <1>2, <1>3, <2>2, <2>5, <2>7, ToldElsewhere DEF RoutesInv
  <2>9. JobKept'
    BY <2>3, <2>5 DEF JobKept, Holds, Requested
  <2> QED
    BY <2>6, <2>8, <2>9 DEF RoutesInv
<1> QED
  BY <1>4, <1>5

\* A handler that throws leaves its service waiting.
LEMMA ThrowRoutes ==
  ASSUME IInv, RoutesInv, job # None, Throw,
         UNCHANGED <<runtime, ipOf, usedIps, portOf, queue, heard, clash>>
  PROVE  RoutesInv'
<1>1. job' = None /\ waiting' = waiting \cup {job.service}
  BY DEF Throw
<1>2. \A t \in Services : Settled(t)' => Settled(t)
  BY <1>1 DEF Settled
<1> QED
  BY <1>1, <1>2, ToldStays DEF RoutesInv, IpBooks, JobKept

\* A port given to the running reconcile's service
LEMMA PortGiven ==
  ASSUME IInv, RoutesInv, job # None, NEW p \in Ports, NEW n \in NodePorts,
         \A t \in Services, q \in Ports :
           portOf'[t][q] = IF t = job.service /\ q = p THEN n ELSE portOf[t][q],
         PortTypes', job' # None, job'.service = job.service,
         UNCHANGED <<runtime, ipOf, usedIps, queue, waiting, heard, clash>>
  PROVE  Told' /\ IpBooks'
<1>1. job.service \in Services
  BY DEF IInv, TypeInv, JobType, Jobs
<1>2. \A t \in Services \ {job.service} : portOf'[t] = portOf[t]
  BY DEF PortTypes, IInv, TypeInv, TypeOK
<1>3. \A t \in Services : (Settled(t)' => Settled(t)) /\ (Settled(t)' => t # job.service)
  BY DEF Settled
<1>4. Told'
  BY <1>1, <1>2, <1>3, ToldElsewhere DEF RoutesInv
<1> QED
  BY <1>4 DEF RoutesInv, IpBooks

LEMMA ReserveNextRoutes ==
  ASSUME IInv, RoutesInv, ReserveNext
  PROVE  RoutesInv'
<1>1. PICK p \in job.reserve :
        IF Taken(job.service, p, job.spec.ports[p])
        THEN Throw /\ UNCHANGED nodePorts
        ELSE /\ ReservePort(job.service, p, job.spec.ports[p])
             /\ job' = [job EXCEPT !.reserve = @ \ {p}]
             /\ UNCHANGED waiting
  BY DEF ReserveNext
<1>2. job # None /\ UNCHANGED <<runtime, ipOf, usedIps, queue, heard, clash>>
  BY DEF ReserveNext, ips
<1>3. CASE Taken(job.service, p, job.spec.ports[p])
  BY <1>1, <1>2, <1>3, ThrowRoutes DEF nodePorts
<1>4. CASE ~Taken(job.service, p, job.spec.ports[p])
  <2> DEFINE s == job.service
             n == job.spec.ports[p]
  <2>1. s \in Services /\ p \in Ports /\ n \in NodePorts /\ job \in Jobs
    BY <1>2 DEF IInv, TypeInv, JobType, Jobs, Requested, Specs, PortMaps
  <2>2. /\ PortTypes'
        /\ \A t \in Services, q \in Ports :
             portOf'[t][q] = IF t = s /\ q = p THEN n ELSE portOf[t][q]
    BY <1>1, <1>4, <2>1, ReservePortKeeps DEF IInv, PortBooks
  <2>3. job' = [job EXCEPT !.reserve = @ \ {p}] /\ UNCHANGED waiting
    BY <1>1, <1>4
  <2>4. /\ job' \in Jobs /\ job'.service = s /\ job'.spec = job.spec
        /\ job'.reserve = job.reserve \ {p}
    BY <2>1, <2>3 DEF Jobs
  <2>5. job' # None
    BY <2>4, NoneAssumption
  <2>6. Told' /\ IpBooks'
    BY <1>2, <2>1, <2>2, <2>3, <2>4, <2>5, PortGiven
  <2>7. DOMAIN job.spec.ports \subseteq Ports
    BY <2>1 DEF Jobs, Specs, PortMaps
  <2>8. JobKept'
    <3>1. Holds(s, job.spec.ip, job.spec.ports, DOMAIN job.spec.ports \ job.reserve)
      BY <1>2 DEF RoutesInv, JobKept
    <3>2. Holds(s, job.spec.ip, job.spec.ports, DOMAIN job.spec.ports \ (job.reserve \ {p}))'
      BY <1>2, <2>1, <2>2, <2>4, <2>7, <3>1 DEF Holds
    <3> QED
      BY <2>4, <3>2 DEF JobKept, Holds
  <2> QED
    BY <2>6, <2>8 DEF RoutesInv
<1> QED
  BY <1>3, <1>4

LEMMA IpStepRoutes ==
  ASSUME IInv, RoutesInv, IpStep
  PROVE  RoutesInv'
<1>1. /\ job # None /\ job.reserve = {}
      /\ UNCHANGED <<runtime, portOf, queue, heard, clash>>
  BY DEF IpStep, Reserved, nodePorts
<1>2. CASE Throw /\ UNCHANGED ips
  BY <1>1, <1>2, ThrowRoutes DEF ips
<1>3. ASSUME NEW ip \in Addresses, AssignIp(job.service, ip),
             job' = [job EXCEPT !.spec.ip = ip], UNCHANGED waiting
      PROVE  RoutesInv'
  <2> DEFINE s == job.service
  <2>1. s \in Services /\ job \in Jobs /\ TypeOK /\ IpBooks
    BY <1>1 DEF IInv, TypeInv, JobType, Jobs, RoutesInv
  <2>2. IpBooks' /\ ipOf'[s] = ip /\ \A t \in Services \ {s} : ipOf'[t] = ipOf[t]
    BY <1>1, <1>3, <2>1, AssignIpBooks
  <2>3. /\ job'.service = s /\ job'.reserve = {} /\ job'.spec.ip = ip
        /\ job'.spec.ports = job.spec.ports
    BY <1>1, <1>3, <2>1 DEF Jobs, Specs
  <2>4. job' # None
    <3>1. job'.spec \in Specs
      BY <1>3, <2>1 DEF Jobs, Specs, Ips
    <3>2. job' \in Jobs
      BY <1>3, <2>1, <3>1 DEF Jobs
    <3> QED
      BY <3>2, NoneAssumption
  <2>5. \A t \in Services : (Settled(t)' => Settled(t)) /\ (Settled(t)' => t # s)
    BY <1>1, <1>3, <2>3, <2>4 DEF Settled
  <2>6. Told'
    BY <1>1, <2>1, <2>2, <2>5, ToldElsewhere DEF RoutesInv
  <2>7. JobKept'
    BY <1>1, <2>2, <2>3 DEF RoutesInv, JobKept, Holds
  <2> QED
    BY <2>2, <2>6, <2>7 DEF RoutesInv
<1> QED
  BY <1>2, <1>3 DEF IpStep

LEMMA PortStepRoutes ==
  ASSUME IInv, RoutesInv, PortStep
  PROVE  RoutesInv'
<1>1. /\ job # None /\ job.reserve = {}
      /\ UNCHANGED <<runtime, ipOf, usedIps, queue, heard, clash>>
  BY DEF PortStep, Reserved, ips
<1>2. CASE Throw /\ UNCHANGED nodePorts
  BY <1>1, <1>2, ThrowRoutes DEF nodePorts
<1>3. ASSUME NEW p \in Unassigned(job.spec), NEW n \in NodePorts, AssignPort(job.service, p, n),
             job' = [job EXCEPT !.spec.ports[p] = n], UNCHANGED waiting
      PROVE  RoutesInv'
  <2> DEFINE s == job.service
             ports == [job.spec.ports EXCEPT ![p] = n]
  <2>1. s \in Services /\ job \in Jobs /\ job.spec \in Specs
    BY <1>1 DEF IInv, TypeInv, JobType, Jobs
  <2>2. p \in Ports /\ p \in DOMAIN job.spec.ports /\ DOMAIN job.spec.ports \subseteq Ports
    BY <2>1 DEF Unassigned, Specs, PortMaps
  <2>3. /\ PortTypes'
        /\ \A t \in Services, q \in Ports :
             portOf'[t][q] = IF t = s /\ q = p THEN n ELSE portOf[t][q]
    BY <1>3, <2>1, <2>2, AssignPortKeeps DEF IInv, PortBooks
  <2>4. job' = [job EXCEPT !.spec = [job.spec EXCEPT !.ports = ports]]
    BY <1>1, <1>3, <2>1 DEF Jobs, Specs
  <2>5. /\ job'.service = s /\ job'.reserve = {} /\ job'.spec.ip = job.spec.ip
        /\ job'.spec.ports = ports
    BY <1>1, <2>1, <2>4 DEF Jobs, Specs
  <2>6. job' # None
    <3>1. ports \in PortMaps
      BY <2>1, <2>2 DEF Specs, PortMaps
    <3>2. [job.spec EXCEPT !.ports = ports] \in Specs
      BY <2>1, <3>1 DEF Specs
    <3>3. job' \in Jobs
      BY <2>1, <2>4, <3>2 DEF Jobs
    <3> QED
      BY <3>3, NoneAssumption
  <2>7. Told' /\ IpBooks'
    BY <1>1, <1>3, <2>2, <2>3, <2>5, <2>6, PortGiven
  <2>8. JobKept'
    <3>1. DOMAIN ports = DOMAIN job.spec.ports
          /\ \A q \in DOMAIN ports : ports[q] = IF q = p THEN n ELSE job.spec.ports[q]
      BY <2>2
    <3>2. /\ job.spec.ip \in Addresses => ipOf[s] = job.spec.ip
          /\ \A q \in DOMAIN ports : job.spec.ports[q] # None => portOf[s][q] = job.spec.ports[q]
      BY <1>1, <3>1 DEF RoutesInv, JobKept, Holds
    <3> HIDE DEF ports
    <3>3. \A q \in DOMAIN ports : ports[q] # None => portOf'[s][q] = ports[q]
      BY <2>1, <2>2, <2>3, <3>1, <3>2
    <3> QED
      BY <1>1, <2>5, <3>2, <3>3 DEF JobKept, Holds
  <2> QED
    BY <2>7, <2>8 DEF RoutesInv
<1> QED
  BY <1>2, <1>3 DEF PortStep

\* What a reconcile publishes it holds.
LEMMA PublishRoutes ==
  ASSUME IInv, RoutesInv, Publish
  PROVE  RoutesInv'
<1> DEFINE s == job.service
<1>1. /\ job # None /\ job.reserve = {} /\ job' = None /\ queue = << >>
      /\ runtime' = [runtime EXCEPT ![s] = Runtime(job.spec)]
      /\ UNCHANGED <<ipOf, usedIps, portOf, heard, clash>>
  BY DEF Publish, Reserved, ips, nodePorts, IInv, TypeInv, OneKey
<1>2. s \in Services /\ s \notin waiting
  BY <1>1 DEF IInv, TypeInv, TypeOK, JobType, Jobs
<1>3. waiting' = waiting
  <2>1. Enqueue(s) \/ waiting' = waiting
    BY DEF Publish
  <2> QED
    BY <1>1, <1>2, <2>1, EnqueueOne
<1>4. \A t \in Services \ {s} : (Settled(t)' => Settled(t)) /\ runtime'[t] = runtime[t]
  <2>1. \A t \in Services : queue # <<t>>
    BY <1>1, Keys
  <2>2. \A t \in Services \ {s} : Settled(t)' => Settled(t)
    BY <1>1, <1>3, <2>1 DEF Settled
  <2>3. \A t \in Services \ {s} : runtime'[t] = runtime[t]
    BY <1>1 DEF IInv, TypeInv, TypeOK
  <2> QED
    BY <2>2, <2>3
<1>5. runtime'[s].ip = job.spec.ip /\ runtime'[s].ports = job.spec.ports
  BY <1>1, <1>2 DEF Runtime, IInv, TypeInv, TypeOK
<1>6. Holds(s, job.spec.ip, job.spec.ports, DOMAIN job.spec.ports)
  BY <1>1 DEF RoutesInv, JobKept, Holds
<1>7. Told'
  BY <1>1, <1>4, <1>5, <1>6 DEF RoutesInv, Told, Holds
<1> QED
  BY <1>1, <1>7 DEF RoutesInv, IpBooks, JobKept

LEMMA DeleteServiceRoutes ==
  ASSUME IInv, RoutesInv, NEW s \in Services, DeleteService(s)
  PROVE  RoutesInv'
<1>1. /\ ReleaseIp(s) /\ ReleasePorts(s) /\ runtime' = [runtime EXCEPT ![s] = None]
      /\ job = None /\ UNCHANGED <<queue, waiting, heard, job, clash>>
  BY DEF DeleteService, OnServiceDeleted, Edit, Idle
<1>2. IpBooks' /\ \A t \in Services \ {s} : ipOf'[t] = ipOf[t]
  BY <1>1, ReleaseIpBooks DEF IInv, TypeInv, RoutesInv
<1>3. runtime'[s] = None /\ \A t \in Services \ {s} : runtime'[t] = runtime[t]
  BY <1>1 DEF IInv, TypeInv, TypeOK
<1>4. \A t \in Services \ {s} : portOf'[t] = portOf[t]
  BY <1>1 DEF ReleasePorts, IInv, TypeInv, TypeOK
<1>5. Told'
  BY <1>1, <1>2, <1>3, <1>4, ToldElsewhere DEF Settled, RoutesInv
<1> QED
  BY <1>1, <1>2, <1>5 DEF RoutesInv, JobKept

\* Steps that only make reconciles due
LEMMA DueRoutes ==
  ASSUME RoutesInv, UNCHANGED <<runtime, ipOf, usedIps, portOf, job, clash>>,
         \A t \in Services : Settled(t)' => Settled(t)
  PROVE  RoutesInv'
BY ToldStays DEF RoutesInv, IpBooks, JobKept, Holds

LEMMA RoutesStep ==
  ASSUME IInv, RoutesInv, [Next]_vars
  PROVE  RoutesInv'
<1>1. CASE Hear
  <2>1. PICK s \in heard : heard' = heard \ {s} /\ Enqueue(s)
    BY <1>1 DEF Hear
  <2>2. queue' = <<s>> /\ waiting' = waiting \ {s} /\ s \in Services
    BY <1>1, <2>1, EnqueueOne DEF Hear, IInv, TypeInv, TypeOK
  <2>3. UNCHANGED <<runtime, ipOf, usedIps, portOf, job, clash>> /\ queue = << >>
    BY <1>1 DEF Hear, ips, nodePorts
  <2>4. \A t \in Services : Settled(t)' => Settled(t)
    BY <2>1, <2>2, <2>3, Keys DEF Settled
  <2> QED
    BY <2>3, <2>4, DueRoutes
<1>2. ASSUME NEW s \in Services, RetryFires(s) PROVE RoutesInv'
  <2>1. queue' = <<s>> /\ waiting' = waiting \ {s} /\ queue = << >>
    BY <1>2, EnqueueOne DEF RetryFires, Idle
  <2>2. UNCHANGED <<runtime, ipOf, usedIps, portOf, heard, job, clash>>
    BY <1>2 DEF RetryFires, ips, nodePorts
  <2>3. \A t \in Services : Settled(t)' => Settled(t)
    BY <2>1, <2>2, Keys DEF Settled
  <2> QED
    BY <2>2, <2>3, DueRoutes
<1>3. ASSUME NEW s \in Services, NEW spec \in ServiceSpecs, WriteService(s, spec)
      PROVE  RoutesInv'
  <2>1. /\ UNCHANGED <<runtime, ipOf, usedIps, portOf, queue, waiting, job, clash>>
        /\ heard = {}
    BY <1>3 DEF WriteService, Edit, Idle, ips, nodePorts
  <2>2. \A t \in Services : Settled(t)' => Settled(t)
    BY <2>1 DEF Settled
  <2> QED
    BY <2>1, <2>2, DueRoutes
<1>4. CASE PodStep
  <2>1. /\ UNCHANGED <<runtime, ipOf, usedIps, portOf, queue, waiting, job, clash>>
        /\ heard = {}
    BY <1>4, PodStepDoes DEF Idle, IInv, TypeInv
  <2>2. \A t \in Services : Settled(t)' => Settled(t)
    BY <2>1 DEF Settled
  <2> QED
    BY <2>1, <2>2, DueRoutes
<1>5. CASE UNCHANGED vars
  BY <1>5, DueRoutes DEF vars, ips, nodePorts, Settled
<1> QED
  BY <1>1, <1>2, <1>3, <1>4, <1>5, Steps, TakeRoutes, ReserveNextRoutes, IpStepRoutes,
     PortStepRoutes, PublishRoutes, DeleteServiceRoutes

\* When nothing is due, RoutesInv and the books say who answers where.
LEMMA RoutesFollow == IInv /\ RoutesInv => RoutesUnique
<1> SUFFICES ASSUME IInv, RoutesInv, Idle PROVE
      /\ \A n \in NodePorts : \A s, t \in ByNodePort(n) \ waiting : s = t
      /\ ~clash => \A ip \in Addresses : \A s, t \in ByIp(ip) \ waiting : s = t
  BY DEF RoutesUnique
<1> USE NoneAssumption
<1>1. \A s \in Services \ waiting : Settled(s)
  BY Keys DEF Idle, Settled
<1>2. ASSUME NEW n \in NodePorts, NEW s \in ByNodePort(n) \ waiting
      PROVE  s \in Services /\ \E p \in Ports : ownerOf[n] = <<s, p>>
  <2>1. /\ s \in Services /\ runtime[s] # None
        /\ \E p \in DOMAIN runtime[s].ports : runtime[s].ports[p] = n
    BY <1>2 DEF ByNodePort
  <2>2. PICK p \in DOMAIN runtime[s].ports : runtime[s].ports[p] = n
    BY <2>1
  <2>3. p \in Ports
    BY <2>1, <2>2 DEF IInv, TypeInv, TypeOK, Runtimes, PortMaps
  <2>4. portOf[s][p] = n
    BY <1>1, <1>2, <2>1, <2>2 DEF RoutesInv, Told, Holds
  <2> QED
    BY <2>1, <2>3, <2>4 DEF IInv, PortBooks, Books
<1>3. ASSUME NEW n \in NodePorts, NEW s \in ByNodePort(n) \ waiting, NEW t \in ByNodePort(n) \ waiting
      PROVE  s = t
  <2>1. PICK p \in Ports : ownerOf[n] = <<s, p>>
    BY <1>2
  <2>2. PICK q \in Ports : ownerOf[n] = <<t, q>>
    BY <1>2
  <2> QED
    BY <2>1, <2>2
<1>4. ASSUME NEW ip \in Addresses, NEW s \in ByIp(ip) \ waiting
      PROVE  s \in Services /\ ipOf[s] = ip
  BY <1>1, <1>4 DEF ByIp, RoutesInv, Told, Holds
<1>5. ASSUME ~clash, NEW ip \in Addresses, NEW s \in ByIp(ip) \ waiting, NEW t \in ByIp(ip) \ waiting
      PROVE  s = t
  BY <1>4, <1>5 DEF RoutesInv, IpBooks
<1> QED
  BY <1>3, <1>5

LEMMA InitRoutes == Init => RoutesInv
BY DEF Init, RoutesInv, IpBooks, Told, JobKept

\* Between calls no two services answer on one node port, and none on one
\* cluster IP that no user gave away twice (reconcileServiceByKey with
\* findServiceByNodePort and findServiceByClusterIp), except while one of them
\* waits for the retry of a reconcile that threw.
THEOREM RoutesAreUnique == Spec => []RoutesUnique
<1>1. Init => IInv /\ RoutesInv
  BY InitType, InitBooks, InitRoutes DEF IInv
<1>2. (IInv /\ RoutesInv) /\ [Next]_vars => (IInv /\ RoutesInv)'
  BY TypeStep, PortBooksStep, RoutesStep DEF IInv
<1> QED
  BY <1>1, <1>2, RoutesFollow, PTL DEF Spec

-------------------------------------------------------------------------------
(* What a runtime says *)

\* The runtime of s is what its reconcile would make it, but for strayed pods and
\* for those of other namespaces.
Fresh(s) ==
  services[s] # None =>
    /\ runtime[s] # None
    /\ runtime[s].ip = services[s].ip /\ runtime[s].ports = services[s].ports
    /\ \A p \in Pods :
         Own(s, p) =>
           /\ p \in EndpointsOf(services[s]) => p \in runtime[s].pods
           /\ p \in runtime[s].pods /\ p \notin EndpointsOf(services[s]) => <<s, p>> \in strayed

\* A service that no reconcile is due for needs none.
AllFresh == \A s \in Services : Settled(s) => Fresh(s)

\* Services whose spec and runtime a step leaves alone are as fresh as before.
LEMMA FreshElsewhere ==
  ASSUME AllFresh, UNCHANGED pods, NEW t \in Services,
         \A p \in Pods : <<t, p>> \in strayed => <<t, p>> \in strayed',
         services'[t] = services[t], runtime'[t] = runtime[t], Settled(t)' => Settled(t)
  PROVE  (Settled(t) => Fresh(t))'
BY DEF AllFresh, Fresh, Own, EndpointsOf, Answers, Selects

LEMMA FreshStays ==
  ASSUME AllFresh, UNCHANGED <<services, runtime, pods, strayed>>,
         \A t \in Services : Settled(t)' => Settled(t)
  PROVE  AllFresh'
BY FreshElsewhere DEF AllFresh

\* A pod's step tells every service of its namespace that selects it, or that
\* selected it unless the pod strays.
LEMMA PodStepTells ==
  ASSUME TypeOK, PodStep
  PROVE  /\ strayed \subseteq strayed'
         /\ \E p \in Pods :
              /\ \A q \in Pods \ {p} : pods'[q] = pods[q]
              /\ \A s \in Services \ heard' : services[s] # None /\ Own(s, p) =>
                   /\ pods'[p] # None => ~Selects(services[s], pods'[p])
                   /\ pods[p] # None /\ Selects(services[s], pods[p]) => <<s, p>> \in strayed'
<1> DEFINE
      Told1(p) ==
        /\ strayed \subseteq strayed'
        /\ \A q \in Pods \ {p} : pods'[q] = pods[q]
        /\ \A s \in Services \ heard' : services[s] # None /\ Own(s, p) =>
             /\ pods'[p] # None => ~Selects(services[s], pods'[p])
             /\ pods[p] # None /\ Selects(services[s], pods[p]) => <<s, p>> \in strayed'
<1>1. pods \in [Pods -> PodRecords \cup {None}]
  BY DEF TypeOK, Jobs
<1>2. ASSUME NEW p \in Pods, NEW new, NEW pod, SetPod(p, new, pod)
      PROVE  /\ pods'[p] = new /\ \A q \in Pods \ {p} : pods'[q] = pods[q]
             /\ \A s \in Services \ heard' :
                  services[s] # None /\ Own(s, p) => ~Selects(services[s], pod)
  BY <1>1, <1>2 DEF SetPod, Selecting
<1>3. ASSUME NEW p \in Pods, NEW label \in Labels, CreatePod(p, label)
      PROVE  Told1(p)
  <2> DEFINE pod == [label |-> label, running |-> FALSE, ready |-> FALSE, terminating |-> FALSE]
  <2>1. SetPod(p, pod, pod) /\ UNCHANGED strayed /\ pods[p] = None
    BY <1>3 DEF CreatePod
  <2> HIDE DEF pod
  <2> QED
    BY <1>2, <2>1
<1>4. ASSUME NEW p \in Pods, NEW label \in Labels, Relabel(p, label)
      PROVE  Told1(p)
  <2> DEFINE pod == [pods[p] EXCEPT !.label = label]
  <2>1. SetPod(p, pod, pod) /\ strayed' = strayed \cup (Selecting(p, pods[p]) \X {p})
    BY <1>4 DEF Relabel
  <2>2. ASSUME NEW s \in Services, services[s] # None, Own(s, p), Selects(services[s], pods[p])
        PROVE  <<s, p>> \in strayed'
    BY <2>1, <2>2 DEF Selecting
  <2> HIDE DEF pod
  <2> QED
    BY <1>2, <2>1, <2>2
<1>5. ASSUME NEW p \in Pods, NEW pod, SetPod(p, pod, pod), UNCHANGED strayed, pods[p] # None,
             pod.label = pods[p].label
      PROVE  Told1(p)
  <2>1. \A s \in Services \ heard' :
          services[s] # None /\ Own(s, p) => ~Selects(services[s], pods[p])
    BY <1>2, <1>5 DEF Selects
  <2> QED
    BY <1>2, <1>5, <2>1
<1>6. ASSUME NEW p \in Pods, TerminatePod(p)
      PROVE  Told1(p)
  <2> DEFINE pod == [pods[p] EXCEPT !.terminating = TRUE]
  <2>1. SetPod(p, pod, pod) /\ UNCHANGED strayed /\ pods[p] # None
    BY <1>6 DEF TerminatePod
  <2>2. pod.label = pods[p].label
    BY <1>1, <2>1 DEF PodRecords
  <2> HIDE DEF Told1, pod
  <2> QED
    BY <1>5, <2>1, <2>2
<1>7. ASSUME NEW p \in Pods, ChangePhase(p)
      PROVE  Told1(p)
  <2>1. PICK running, ready \in BOOLEAN :
          LET pod == [pods[p] EXCEPT !.running = running, !.ready = ready]
          IN  SetPod(p, pod, pod) /\ UNCHANGED strayed /\ pods[p] # None
    BY <1>7 DEF ChangePhase
  <2> DEFINE pod == [pods[p] EXCEPT !.running = running, !.ready = ready]
  <2>2. SetPod(p, pod, pod)
    BY <2>1
  <2>3. pod.label = pods[p].label
    BY <1>1, <2>1 DEF PodRecords
  <2> HIDE DEF Told1, pod
  <2> QED
    BY <1>5, <2>1, <2>2, <2>3
<1>8. ASSUME NEW p \in Pods, RemovePod(p)
      PROVE  Told1(p)
  <2>1. SetPod(p, None, pods[p]) /\ UNCHANGED strayed
    BY <1>8 DEF RemovePod
  <2> QED
    BY <1>2, <2>1
<1>9. PICK p \in Pods : Told1(p)
  <2> HIDE DEF Told1
  <2> QED
    BY <1>3, <1>4, <1>6, <1>7, <1>8 DEF PodStep
<1> QED
  BY <1>9

LEMMA PodStepFresh ==
  ASSUME TypeInv, AllFresh, PodStep
  PROVE  AllFresh'
<1>1. /\ UNCHANGED <<services, runtime, queue, waiting, job>> /\ heard = {}
  BY PodStepDoes DEF Idle, TypeInv
<1>2. strayed \subseteq strayed'
  BY PodStepTells DEF TypeInv
<1>3. PICK p \in Pods :
        /\ \A q \in Pods \ {p} : pods'[q] = pods[q]
        /\ \A s \in Services \ heard' : services[s] # None /\ Own(s, p) =>
             /\ pods'[p] # None => ~Selects(services[s], pods'[p])
             /\ pods[p] # None /\ Selects(services[s], pods[p]) => <<s, p>> \in strayed'
  BY PodStepTells DEF TypeInv
<1> SUFFICES ASSUME NEW s \in Services, Settled(s)', services[s] # None
             PROVE  Fresh(s)'
  BY <1>1 DEF AllFresh, Fresh
<1>4. Fresh(s) /\ s \notin heard'
  BY <1>1 DEF Settled, AllFresh
<1>5. ASSUME NEW q \in Pods, q # p
      PROVE  q \in EndpointsOf(services[s])' <=> q \in EndpointsOf(services[s])
  BY <1>1, <1>3, <1>5 DEF EndpointsOf, Answers, Selects
<1>6. ASSUME Own(s, p)
      PROVE  /\ p \notin EndpointsOf(services[s])'
             /\ p \in EndpointsOf(services[s]) => <<s, p>> \in strayed'
  BY <1>1, <1>3, <1>4, <1>6 DEF EndpointsOf, Answers, Selects
<1>7. \A q \in Pods : Own(s, q)' = Own(s, q)
  BY DEF Own
<1> QED
  BY <1>1, <1>2, <1>4, <1>5, <1>6, <1>7 DEF Fresh

\* What a reconcile writes into the runtime is fresh.
LEMMA PublishFresh ==
  ASSUME IInv, AllFresh, Publish
  PROVE  AllFresh'
<1>1. PICK s \in Services : job # None /\ s = job.service /\ s \notin waiting
  BY DEF Publish, Reserved, IInv, TypeInv, TypeOK, JobType, Jobs
<1>2. /\ job # None /\ job' = None /\ queue = << >>
      /\ services' = [services EXCEPT ![s] = job.spec]
      /\ runtime' = [runtime EXCEPT ![s] = Runtime(job.spec)]
      /\ UNCHANGED <<heard, pods>> /\ strayed' = strayed \ ({s} \X Pods)
  BY <1>1 DEF Publish, Reserved, IInv, TypeInv, OneKey, users
<1>3. waiting' = waiting
  <2>1. Enqueue(s) \/ waiting' = waiting
    BY <1>1 DEF Publish
  <2> QED
    BY <1>1, <1>2, <2>1, EnqueueOne
<1>4. \A t \in Services : queue # <<t>>
  BY <1>2, Keys
<1>5. ASSUME NEW t \in Services, t # s PROVE (Settled(t) => Fresh(t))'
  <2>1. services'[t] = services[t] /\ runtime'[t] = runtime[t]
    BY <1>2, <1>5 DEF IInv, TypeInv, TypeOK
  <2>2. Settled(t)' => Settled(t)
    BY <1>1, <1>2, <1>3, <1>4, <1>5 DEF Settled
  <2>3. \A p \in Pods : <<t, p>> \in strayed => <<t, p>> \in strayed'
    BY <1>2, <1>5
  <2> QED
    BY <1>2, <1>5, <2>1, <2>2, <2>3, FreshElsewhere
<1>6. services'[s] = job.spec /\ runtime'[s] = Runtime(job.spec)
  BY <1>1, <1>2 DEF IInv, TypeInv, TypeOK
<1>7. Runtime(job.spec) # None
  <2>1. job.spec \in Specs
    BY <1>1 DEF IInv, TypeInv, JobType, Jobs
  <2>2. job.spec.ip \in Ips /\ job.spec.ports \in PortMaps
    BY <2>1 DEF Specs
  <2>3. Runtime(job.spec) \in Runtimes
    BY <2>2 DEF Runtime, Runtimes, EndpointsOf
  <2> QED
    BY <2>3, NoneAssumption
<1>8. EndpointsOf(services[s])' = EndpointsOf(job.spec)
  BY <1>2, <1>6 DEF EndpointsOf, Answers, Selects
<1>9. Fresh(s)'
  BY <1>6, <1>7, <1>8 DEF Fresh, Runtime
<1> QED
  BY <1>5, <1>9 DEF AllFresh

LEMMA FreshStep ==
  ASSUME IInv, AllFresh, [Next]_vars
  PROVE  AllFresh'
<1>1. CASE Hear
  <2>1. PICK s \in heard : heard' = heard \ {s} /\ Enqueue(s)
    BY <1>1 DEF Hear
  <2>2. queue' = <<s>> /\ waiting' = waiting \ {s} /\ s \in Services
    BY <1>1, <2>1, EnqueueOne DEF Hear, IInv, TypeInv, TypeOK
  <2>3. UNCHANGED <<services, runtime, job, pods, strayed>>
    BY <1>1 DEF Hear, users
  <2>4. \A t \in Services : Settled(t)' => Settled(t)
    BY <1>1, <2>1, <2>2, <2>3, Keys DEF Hear, Settled
  <2> QED
    BY <2>3, <2>4, FreshStays
<1>2. CASE Take
  <2>1. PICK s \in Services : queue = <<s>>
    BY <1>2 DEF IInv, TypeInv, OneKey, Take
  <2>2. /\ job = None /\ queue' = << >> /\ Head(queue) = s
        /\ UNCHANGED <<services, waiting, heard, pods, strayed>>
    BY <1>2, <2>1, Keys DEF Take, users
  <2>3. \A t \in Services \ {s} : Settled(t)' => Settled(t)
    BY <2>1, <2>2, Keys DEF Settled
  <2>4. CASE services[s] = None
    <3>1. runtime' = [runtime EXCEPT ![s] = None]
      BY <1>2, <2>2, <2>4 DEF Take
    <3>2. \A t \in Services \ {s} : runtime'[t] = runtime[t]
      BY <3>1 DEF IInv, TypeInv, TypeOK
    <3>3. \A t \in Services \ {s} : (Settled(t) => Fresh(t))'
      BY <2>2, <2>3, <3>2, FreshElsewhere
    <3> QED
      BY <2>2, <2>4, <3>3 DEF AllFresh, Fresh
  <2>5. CASE services[s] # None
    <3>1. Begin(s, services[s]) /\ UNCHANGED runtime
      BY <1>2, <2>2, <2>5 DEF Take
    <3>2. job'.service = s
      BY <3>1 DEF Begin
    <3>3. services[s] \in Specs /\ Requested(services[s]) \subseteq Ports
      BY <2>5 DEF IInv, TypeInv, TypeOK, Requested, Specs, PortMaps
    <3>4. job' # None
      BY <3>1, <3>3, NoneAssumption DEF Begin, Jobs
    <3>5. \A t \in Services : Settled(t)' => Settled(t)
      BY <2>3, <3>2, <3>4 DEF Settled
    <3> QED
      BY <2>2, <3>1, <3>5, FreshStays
  <2> QED
    BY <2>4, <2>5
<1>3. ASSUME job # None, UNCHANGED <<services, runtime, queue, heard, strayed, users>>,
             \/ Throw
             \/ UNCHANGED waiting /\ job' # None /\ job'.service = job.service
      PROVE  AllFresh'
  <2>1. \A t \in Services : Settled(t)' => Settled(t)
    BY <1>3 DEF Throw, Settled
  <2> QED
    BY <1>3, <2>1, FreshStays DEF users
<1>4. job # None => job \in Jobs
  BY DEF IInv, TypeInv, JobType
<1>5. CASE ReserveNext
  <2>1. PICK p \in job.reserve :
          Throw \/ (job' = [job EXCEPT !.reserve = @ \ {p}] /\ UNCHANGED waiting)
    BY <1>5 DEF ReserveNext
  <2>2. job \in Jobs /\ job # None
    BY <1>4, <1>5 DEF ReserveNext
  <2>3. [job EXCEPT !.reserve = @ \ {p}] \in Jobs
    BY <2>2 DEF Jobs
  <2>4. Throw \/ (UNCHANGED waiting /\ job' # None /\ job'.service = job.service)
    BY <2>1, <2>2, <2>3, NoneAssumption DEF Jobs
  <2> QED
    BY <1>3, <1>5, <2>2, <2>4 DEF ReserveNext
<1>6. CASE IpStep
  <2>1. \/ Throw
        \/ UNCHANGED waiting /\ \E ip \in Addresses : job' = [job EXCEPT !.spec.ip = ip]
    BY <1>6 DEF IpStep
  <2>2. job \in Jobs /\ job # None
    BY <1>4, <1>6 DEF IpStep, Reserved
  <2>3. TypeInv'
    BY <1>6, IpStepType DEF IInv
  <2>4. Throw \/ (UNCHANGED waiting /\ job' # None /\ job'.service = job.service)
    <3>1. ASSUME NEW ip \in Addresses, job' = [job EXCEPT !.spec.ip = ip]
          PROVE  job' # None /\ job'.service = job.service
      <4>1. [job EXCEPT !.spec.ip = ip] \in Jobs
        BY <2>2 DEF Jobs, Specs, Ips
      <4> QED
        BY <2>2, <3>1, <4>1, NoneAssumption DEF Jobs
    <3> QED
      BY <2>1, <3>1
  <2> QED
    BY <1>3, <1>6, <2>2, <2>4 DEF IpStep
<1>7. CASE PortStep
  <2>1. PICK p \in Unassigned(job.spec) :
          \/ Throw
          \/ /\ UNCHANGED waiting
             /\ \E n \in NodePorts : job' = [job EXCEPT !.spec.ports[p] = n]
    BY <1>7 DEF PortStep
  <2>2. job \in Jobs /\ job # None
    BY <1>4, <1>7 DEF PortStep, Reserved
  <2>3. Throw \/ (UNCHANGED waiting /\ job' # None /\ job'.service = job.service)
    <3>1. ASSUME NEW n \in NodePorts, job' = [job EXCEPT !.spec.ports[p] = n]
          PROVE  job' # None /\ job'.service = job.service
      <4>1. job.spec.ports \in PortMaps /\ p \in DOMAIN job.spec.ports
        BY <2>2 DEF Jobs, Specs, Unassigned
      <4>2. [job.spec.ports EXCEPT ![p] = n] \in PortMaps
        BY <4>1 DEF PortMaps
      <4>3. [job EXCEPT !.spec.ports[p] = n] \in Jobs
        BY <2>2, <4>2 DEF Jobs, Specs
      <4> QED
        BY <2>2, <3>1, <4>3, NoneAssumption DEF Jobs
    <3> QED
      BY <2>1, <3>1
  <2> QED
    BY <1>3, <1>7, <2>2, <2>3 DEF PortStep
<1>8. ASSUME NEW s \in Services, RetryFires(s) PROVE AllFresh'
  <2>1. queue' = <<s>> /\ waiting' = waiting \ {s} /\ queue = << >>
    BY <1>8, EnqueueOne DEF RetryFires, Idle
  <2>2. UNCHANGED <<services, runtime, heard, job, pods, strayed>>
    BY <1>8 DEF RetryFires, users
  <2>3. \A t \in Services : Settled(t)' => Settled(t)
    BY <2>1, <2>2, Keys DEF Settled
  <2> QED
    BY <2>2, <2>3, FreshStays
<1>9. ASSUME NEW s \in Services, NEW spec \in ServiceSpecs, WriteService(s, spec)
      PROVE  AllFresh'
  <2>1. /\ UNCHANGED <<runtime, queue, waiting, job, pods, strayed>> /\ heard = {} /\ heard' = {s}
        /\ services' = [services EXCEPT ![s] = spec]
    BY <1>9 DEF WriteService, Edit, Idle
  <2>2. \A t \in Services \ {s} : services'[t] = services[t] /\ (Settled(t)' => Settled(t))
    BY <2>1 DEF Settled, IInv, TypeInv, TypeOK
  <2>3. ~Settled(s)'
    BY <2>1 DEF Settled
  <2>4. \A t \in Services \ {s} : (Settled(t) => Fresh(t))'
    BY <2>1, <2>2, FreshElsewhere
  <2> QED
    BY <2>3, <2>4 DEF AllFresh
<1>10. ASSUME NEW s \in Services, DeleteService(s) PROVE AllFresh'
  <2>1. /\ UNCHANGED <<queue, waiting, heard, job, pods, strayed>>
        /\ services' = [services EXCEPT ![s] = None] /\ runtime' = [runtime EXCEPT ![s] = None]
    BY <1>10 DEF DeleteService
  <2>2. /\ services'[s] = None
        /\ \A t \in Services \ {s} : services'[t] = services[t] /\ runtime'[t] = runtime[t]
    BY <2>1 DEF IInv, TypeInv, TypeOK
  <2>3. \A t \in Services \ {s} : (Settled(t) => Fresh(t))'
    BY <2>1, <2>2, FreshElsewhere DEF Settled
  <2> QED
    BY <2>2, <2>3 DEF AllFresh, Fresh
<1>11. CASE UNCHANGED vars
  BY <1>11, FreshStays DEF vars, users, Settled
<1> QED
  BY <1>1, <1>2, <1>5, <1>6, <1>7, <1>8, <1>9, <1>10, <1>11, Steps, PublishFresh,
     PodStepFresh DEF IInv

\* Between calls a service that waits for no retry has a runtime with its own
\* address and ports; of the pods of its namespace, those that answer and are
\* ready are behind it and none is that does not answer, except those labelled out
\* of its selector (reconcileServiceByKey, with the network controller's onEvent
\* for services and pods).  Pods of other namespaces may be there and gone.
THEOREM RuntimesAreFresh == Spec => []RuntimeFresh
<1>1. Init => IInv /\ AllFresh
  BY InitType, InitBooks DEF IInv, Init, AllFresh, Fresh
<1>2. (IInv /\ AllFresh) /\ [Next]_vars => (IInv /\ AllFresh)'
  BY TypeStep, PortBooksStep, FreshStep DEF IInv
<1>3. IInv /\ AllFresh => RuntimeFresh
  BY Keys DEF Idle, Settled, AllFresh, Fresh, RuntimeFresh
<1> QED
  BY <1>1, <1>2, <1>3, PTL DEF Spec
===============================================================================
