-------------------------------- MODULE Ipc --------------------------------
(***************************************************************************)
(* Inter-process communication (ipc.c) over the per-process handle tables    *)
(* (handle_table.c): endpoints with a bounded ring of messages, reference    *)
(* counts, blocking senders and receivers, the registry of trusted services, *)
(* and the process exit that closes every handle (process_mark_exited).      *)
(*                                                                           *)
(* A process stands for its process identifier and its application identity: *)
(* process_create_from_module refuses a second process of one identity.      *)
(* System calls run with interrupts masked, so each operation is one step.   *)
(* An operation the code refuses without changing anything is no step.       *)
(***************************************************************************)
EXTENDS Integers, Sequences, FiniteSets

CONSTANTS Process,
          MaxEndpoints,     \* IOS_IPC_MAX_ENDPOINTS
          MaxDepth,         \* IOS_IPC_MAX_QUEUE_DEPTH
          HandleCapacity,   \* IOS_HANDLE_TABLE_CAPACITY
          CounterMask,      \* HANDLE_COUNTER_MASK
          Service,          \* enum ios_trusted_service
          NoProcess,        \* no process: identity 0
          ReducedRights,    \* rights asked for by duplicate and transfer
          MaxRequests,      \* bound: messages sent
          MaxCloses,        \* bound: handles closed one by one
          MaxGeneration     \* bound: changes of a service's registration

ASSUME IpcAssumption ==
    /\ MaxEndpoints \in Nat \ {0} /\ MaxDepth \in Nat \ {0}
    /\ HandleCapacity \in Nat \ {0} /\ CounterMask \in Nat \ {0}
    /\ IsFiniteSet(Process) /\ NoProcess \notin Process
    /\ IsFiniteSet(Service)
    /\ MaxRequests \in Nat /\ MaxCloses \in Nat /\ MaxGeneration \in Nat \ {0}

Endpoint == 1 .. MaxEndpoints
Null == 0
HandleSlot == 1 .. HandleCapacity
Counter == 1 .. CounterMask
Right == {"wait", "signal", "duplicate", "transfer", "administer"}
NoMessage == [request |-> 0, caller |-> NoProcess]
Message == [request : 1 .. MaxRequests, caller : Process] \cup {NoMessage}
Position == 0 .. MaxDepth - 1

EndpointRecord ==
    [allocated : BOOLEAN, revoked : BOOLEAN, capacity : 0 .. MaxDepth,
     head : Position, tail : Position, count : 0 .. MaxDepth, reference_count : Nat,
     owner : Process \cup {NoProcess}, receivers : Seq(Process), senders : Seq(Process),
     messages : [Position -> Message]]
HandleRecord == [object : Endpoint \cup {Null}, rights : SUBSET Right, counter : Counter]
ServiceRecord == [trusted : Process \cup {NoProcess}, generation : 1 .. MaxGeneration,
                  endpoint : Endpoint \cup {Null}, provider : Process \cup {NoProcess}]
Handle == [owner : Process, slot : HandleSlot, counter : Counter]
Session == [service : Service \cup {Null}, generation : 0 .. MaxGeneration,
            endpoint : Endpoint \cup {Null}]

VARIABLES endpoints,        \* the endpoint table
          handles,          \* the processes' handle tables
          services,         \* the registry of trusted services
          process,          \* "ready", "blocked" or "exited"
          requests,         \* messages sent so far
          pending,          \* what the sends and receives leave queued
          closed,           \* handles that were closed
          session           \* what a client recorded when it connected

vars == <<endpoints, handles, services, process, requests, pending, closed, session>>
ghosts == <<pending, closed, session>>

-----------------------------------------------------------------------------
ClearedEndpoint ==
    [allocated |-> FALSE, revoked |-> FALSE, capacity |-> 0, head |-> 0, tail |-> 0,
     count |-> 0, reference_count |-> 0, owner |-> NoProcess,
     receivers |-> <<>>, senders |-> <<>>,
     messages |-> [i \in Position |-> NoMessage]]

NoSession == [service |-> Null, generation |-> 0, endpoint |-> Null]

(* ipc_initialize, and handle_table_initialize of every process.             *)
Init ==
    /\ endpoints = [e \in Endpoint |-> ClearedEndpoint]
    /\ handles = [p \in Process |->
                    [s \in HandleSlot |-> [object |-> Null, rights |-> {}, counter |-> 1]]]
    /\ services = [v \in Service |-> [trusted |-> NoProcess, generation |-> 1,
                                      endpoint |-> Null, provider |-> NoProcess]]
    /\ process = [p \in Process |-> "ready"]
    /\ requests = 0
    /\ pending = [e \in Endpoint |-> <<>>]
    /\ closed = {}
    /\ session = [p \in Process |-> NoSession]

-----------------------------------------------------------------------------
(* Reference counts.                                                         *)

endpoint_retain(es, e) == [es EXCEPT ![e].reference_count = @ + 1]

(* The last reference wakes whoever waits and clears the endpoint.           *)
endpoint_release(es, e) ==
    [es EXCEPT ![e] = IF es[e].reference_count = 1 THEN ClearedEndpoint
                      ELSE [es[e] EXCEPT !.reference_count = @ - 1]]

InQueue(queue) == {queue[i] : i \in DOMAIN queue}
Waiters(e) == InQueue(endpoints[e].receivers) \cup InQueue(endpoints[e].senders)

(* The processes woken, and the queues emptied, by the endpoints that go.    *)
Freed(es) == {e \in Endpoint : endpoints[e].allocated /\ ~es[e].allocated}

WakeWaitersOf(gone) ==
    process' = [p \in Process |-> IF \E e \in gone : p \in Waiters(e)
                                  THEN "ready" ELSE process[p]]

EmptyQueuesOf(gone) ==
    pending' = [e \in Endpoint |-> IF e \in gone THEN <<>> ELSE pending[e]]

-----------------------------------------------------------------------------
(* Handle tables.                                                            *)

Vacant(p, s) == handles[p][s].object = Null

(* handle_table_insert takes the first vacant slot.                          *)
FirstVacant(p) ==
    {s \in HandleSlot : Vacant(p, s) /\ \A t \in HandleSlot : t < s => ~Vacant(p, t)}

Inserted(hs, p, s, e, rights) ==
    [hs EXCEPT ![p][s].object = e, ![p][s].rights = rights]

(* Faulty: the slot's next handle is the one just closed.                    *)
next_generation_same(counter) == counter

next_generation(counter) ==
    IF (counter + 1) % (CounterMask + 1) = 0 THEN 1 ELSE (counter + 1) % (CounterMask + 1)

Vacated(hs, p, s) ==
    [hs EXCEPT ![p][s] = [object |-> Null, rights |-> {},
                          counter |-> next_generation(@.counter)]]

(* The handle in slot s of p's table, as the process holds it: handles of    *)
(* two processes differ by the owner tag.                                    *)
HandleAt(p, s) == [owner |-> p, slot |-> s, counter |-> handles[p][s].counter]

(* decode_handle and the checks of handle_table_resolve and resolve_endpoint *)
resolve_endpoint(p, s, rights) ==
    /\ ~Vacant(p, s)
    /\ rights \subseteq handles[p][s].rights
    /\ endpoints[handles[p][s].object].allocated
    /\ ~endpoints[handles[p][s].object].revoked

handle_table_close(p, s) ==
    LET es == endpoint_release(endpoints, handles[p][s].object)
    IN  /\ process[p] = "ready"
        /\ Cardinality(closed) < MaxCloses
        /\ ~Vacant(p, s)
        /\ handles' = Vacated(handles, p, s)
        /\ endpoints' = es
        /\ WakeWaitersOf(Freed(es)) /\ EmptyQueuesOf(Freed(es))
        /\ closed' = closed \cup {HandleAt(p, s)}
        /\ UNCHANGED <<services, requests, session>>

(* Faulty: the reference taken for a duplicate that finds no slot is kept.   *)
handle_table_duplicate_leaking(p, s, rights) ==
    LET object == handles[p][s].object
    IN  /\ process[p] = "ready"
        /\ ~Vacant(p, s)
        /\ "duplicate" \in handles[p][s].rights
        /\ rights \subseteq handles[p][s].rights
        /\ endpoints' = endpoint_retain(endpoints, object)
        /\ handles' = IF FirstVacant(p) = {} THEN handles
                      ELSE Inserted(handles, p, CHOOSE t \in FirstVacant(p) : TRUE, object, rights)
        /\ UNCHANGED <<services, process, requests, ghosts>>

handle_table_duplicate(p, s, rights) ==
    LET object == handles[p][s].object
        retained == endpoint_retain(endpoints, object)
    IN  /\ process[p] = "ready"
        /\ ~Vacant(p, s)
        /\ "duplicate" \in handles[p][s].rights
        /\ rights \subseteq handles[p][s].rights
        /\ \/ \E t \in FirstVacant(p) :
                /\ handles' = Inserted(handles, p, t, object, rights)
                /\ endpoints' = retained
           \/ /\ FirstVacant(p) = {}
              /\ endpoints' = endpoint_release(retained, object)
              /\ UNCHANGED handles
        /\ UNCHANGED <<services, process, requests, ghosts>>

(* The Shell passes a handle on, with the source closed or not.              *)
handle_table_transfer(p, q, s, rights, close_source) ==
    LET object == handles[p][s].object
        retained == endpoint_retain(endpoints, object)
    IN  /\ process[p] = "ready" /\ process[q] # "exited"
        /\ ~Vacant(p, s)
        /\ "transfer" \in handles[p][s].rights
        /\ rights \subseteq handles[p][s].rights
        /\ \/ \E t \in FirstVacant(q) :
                LET inserted == Inserted(handles, q, t, object, rights)
                IN  IF close_source
                    THEN /\ Cardinality(closed) < MaxCloses
                         /\ handles' = Vacated(inserted, p, s)
                         /\ endpoints' = endpoint_release(retained, object)
                         /\ closed' = closed \cup {HandleAt(p, s)}
                    ELSE /\ handles' = inserted
                         /\ endpoints' = retained
                         /\ UNCHANGED closed
           \/ /\ FirstVacant(q) = {}
              /\ endpoints' = endpoint_release(retained, object)
              /\ UNCHANGED <<handles, closed>>
        /\ UNCHANGED <<services, process, requests, pending, session>>

-----------------------------------------------------------------------------
(* Endpoints and messages.                                                   *)

ipc_endpoint_create(p, queue_depth) ==
    \E e \in Endpoint, s \in FirstVacant(p) :
      /\ process[p] = "ready"
      /\ ~endpoints[e].allocated /\ \A d \in Endpoint : d < e => endpoints[d].allocated
      /\ endpoints' = [endpoints EXCEPT ![e] =
                         [ClearedEndpoint EXCEPT !.allocated = TRUE, !.capacity = queue_depth,
                                                 !.reference_count = 1, !.owner = p]]
      /\ handles' = Inserted(handles, p, s, e, Right)
      /\ UNCHANGED <<services, process, requests, ghosts>>

(* wait_queue_wake_one, of a queue of e's: the first waiter is made ready.   *)
WakeFirst(queue) ==
    process' = IF queue = <<>> THEN process ELSE [process EXCEPT ![Head(queue)] = "ready"]

Rest(queue) == IF queue = <<>> THEN <<>> ELSE Tail(queue)

Advance(position, capacity) == (position + 1) % capacity

(* Faulty: a receiver is woken by the first message only of a full queue.    *)
ipc_send_waking_late(p, s) ==
    LET e == handles[p][s].object
        endpoint == endpoints[e]
        message == [request |-> requests + 1, caller |-> p]
        full == endpoint.count + 1 = endpoint.capacity
    IN  /\ process[p] = "ready"
        /\ requests < MaxRequests
        /\ resolve_endpoint(p, s, {"signal"})
        /\ endpoint.count # endpoint.capacity
        /\ endpoints' = [endpoints EXCEPT ![e] =
             [endpoint EXCEPT !.messages[endpoint.tail] = message,
                              !.tail = Advance(@, endpoint.capacity),
                              !.count = @ + 1,
                              !.receivers = IF full THEN Rest(@) ELSE @]]
        /\ IF full THEN WakeFirst(endpoint.receivers) ELSE UNCHANGED process
        /\ requests' = requests + 1
        /\ pending' = [pending EXCEPT ![e] = Append(@, message)]
        /\ UNCHANGED <<handles, services, closed, session>>

ipc_send(p, s) ==
    LET e == handles[p][s].object
        endpoint == endpoints[e]
        message == [request |-> requests + 1, caller |-> p]
    IN  /\ process[p] = "ready"
        /\ requests < MaxRequests
        /\ resolve_endpoint(p, s, {"signal"})
        /\ endpoint.count # endpoint.capacity
        /\ endpoints' = [endpoints EXCEPT ![e] =
             [endpoint EXCEPT !.messages[endpoint.tail] = message,
                              !.tail = Advance(@, endpoint.capacity),
                              !.count = @ + 1,
                              !.receivers = Rest(@)]]
        /\ WakeFirst(endpoint.receivers)
        /\ requests' = requests + 1
        /\ pending' = [pending EXCEPT ![e] = Append(@, message)]
        /\ UNCHANGED <<handles, services, closed, session>>

ipc_send_blocks(p, s) ==
    LET e == handles[p][s].object
    IN  /\ process[p] = "ready"
        /\ resolve_endpoint(p, s, {"signal"})
        /\ endpoints[e].count = endpoints[e].capacity
        /\ endpoints' = [endpoints EXCEPT ![e].senders = Append(@, p)]
        /\ process' = [process EXCEPT ![p] = "blocked"]
        /\ UNCHANGED <<handles, services, requests, ghosts>>

ipc_receive(p, s) ==
    LET e == handles[p][s].object
        endpoint == endpoints[e]
    IN  /\ process[p] = "ready"
        /\ resolve_endpoint(p, s, {"wait"})
        /\ endpoint.owner = p
        /\ endpoint.count # 0
        /\ endpoints' = [endpoints EXCEPT ![e] =
             [endpoint EXCEPT !.messages[endpoint.head] = NoMessage,
                              !.head = Advance(@, endpoint.capacity),
                              !.count = @ - 1,
                              !.senders = Rest(@)]]
        /\ WakeFirst(endpoint.senders)
        /\ pending' = [pending EXCEPT ![e] = Tail(@)]
        /\ UNCHANGED <<handles, services, requests, closed, session>>

ipc_receive_blocks(p, s) ==
    LET e == handles[p][s].object
    IN  /\ process[p] = "ready"
        /\ resolve_endpoint(p, s, {"wait"})
        /\ endpoints[e].owner = p
        /\ endpoints[e].count = 0
        /\ endpoints' = [endpoints EXCEPT ![e].receivers = Append(@, p)]
        /\ process' = [process EXCEPT ![p] = "blocked"]
        /\ UNCHANGED <<handles, services, requests, ghosts>>

-----------------------------------------------------------------------------
(* Trusted services.                                                         *)

ipc_trust_service(v, p) ==
    /\ services[v].trusted = NoProcess
    /\ services' = [services EXCEPT ![v].trusted = p]
    /\ UNCHANGED <<endpoints, handles, process, requests, ghosts>>

(* Faulty: the endpoint is replaced under the generation of the old one.     *)
ipc_service_register_same_generation(p, v, s) ==
    LET e == handles[p][s].object
        old == services[v].endpoint
        retained == endpoint_retain(endpoints, e)
        es == IF old = Null THEN retained
              ELSE endpoint_release([retained EXCEPT ![old].revoked = TRUE], old)
    IN  /\ process[p] = "ready"
        /\ services[v].generation < MaxGeneration
        /\ services[v].trusted = p
        /\ resolve_endpoint(p, s, {"administer", "wait"})
        /\ endpoints[e].owner = p
        /\ old # e
        /\ endpoints' = es
        /\ WakeWaitersOf(Freed(es)) /\ EmptyQueuesOf(Freed(es))
        /\ services' = [services EXCEPT ![v].endpoint = e, ![v].provider = p]
        /\ UNCHANGED <<handles, requests, closed, session>>

ipc_service_register(p, v, s) ==
    LET e == handles[p][s].object
        old == services[v].endpoint
        retained == endpoint_retain(endpoints, e)
        es == IF old = Null THEN retained
              ELSE endpoint_release([retained EXCEPT ![old].revoked = TRUE], old)
    IN  /\ process[p] = "ready"
        /\ services[v].generation < MaxGeneration
        /\ services[v].trusted = p
        /\ resolve_endpoint(p, s, {"administer", "wait"})
        /\ endpoints[e].owner = p
        /\ old # e
        /\ endpoints' = es
        /\ WakeWaitersOf(Freed(es)) /\ EmptyQueuesOf(Freed(es))
        /\ services' = [services EXCEPT ![v].endpoint = e, ![v].provider = p,
                                        ![v].generation = @ + 1]
        /\ UNCHANGED <<handles, requests, closed, session>>

ipc_service_unregister(p, v) ==
    LET old == services[v].endpoint
        es == endpoint_release([endpoints EXCEPT ![old].revoked = TRUE], old)
    IN  /\ process[p] = "ready"
        /\ services[v].generation < MaxGeneration
        /\ old # Null
        /\ services[v].provider = p /\ services[v].trusted = p
        /\ endpoints' = es
        /\ WakeWaitersOf(Freed(es)) /\ EmptyQueuesOf(Freed(es))
        /\ services' = [services EXCEPT ![v].endpoint = Null, ![v].provider = NoProcess,
                                        ![v].generation = @ + 1]
        /\ UNCHANGED <<handles, requests, closed, session>>

(* The client records the generation it connected under, as the system call  *)
(* returns it.                                                               *)
ipc_service_connect(p, v) ==
    LET e == services[v].endpoint
        retained == endpoint_retain(endpoints, e)
    IN  /\ process[p] = "ready"
        /\ e # Null /\ ~endpoints[e].revoked
        /\ \/ \E s \in FirstVacant(p) :
                /\ handles' = Inserted(handles, p, s, e, {"signal", "duplicate", "transfer"})
                /\ endpoints' = retained
                /\ session' = [session EXCEPT ![p] =
                     [service |-> v, endpoint |-> e, generation |-> services[v].generation]]
           \/ /\ FirstVacant(p) = {}
              /\ endpoints' = endpoint_release(retained, e)
              /\ UNCHANGED <<handles, session>>
        /\ UNCHANGED <<services, process, requests, pending, closed>>

-----------------------------------------------------------------------------
(* process_mark_exited: handle_table_close_all, slot by slot.                *)
SlotsNaming(p, e) == {s \in HandleSlot : handles[p][s].object = e}

process_mark_exited(p) ==
    LET es == [e \in Endpoint |->
                 LET n == Cardinality(SlotsNaming(p, e))
                 IN  IF n = 0 THEN endpoints[e]
                     ELSE IF endpoints[e].reference_count = n THEN ClearedEndpoint
                     ELSE [endpoints[e] EXCEPT !.reference_count = @ - n]]
        open == {s \in HandleSlot : ~Vacant(p, s)}
    IN  /\ process[p] = "ready"
        /\ handles' = [handles EXCEPT ![p] = [s \in HandleSlot |->
                         IF s \in open
                         THEN [object |-> Null, rights |-> {},
                               counter |-> next_generation(handles[p][s].counter)]
                         ELSE handles[p][s]]]
        /\ endpoints' = es
        /\ process' = [q \in Process |->
                         IF q = p THEN "exited"
                         ELSE IF \E e \in Freed(es) : q \in Waiters(e) THEN "ready"
                         ELSE process[q]]
        /\ EmptyQueuesOf(Freed(es))
        /\ closed' = closed \cup {HandleAt(p, s) : s \in open}
        /\ UNCHANGED <<services, requests, session>>

Next ==
    \/ \E p \in Process :
         \/ \E depth \in 1 .. MaxDepth : ipc_endpoint_create(p, depth)
         \/ \E s \in HandleSlot :
              \/ ipc_send(p, s) \/ ipc_send_blocks(p, s)
              \/ ipc_receive(p, s) \/ ipc_receive_blocks(p, s)
              \/ handle_table_close(p, s)
              \/ \E rights \in ReducedRights : handle_table_duplicate(p, s, rights)
              \/ \E q \in Process, rights \in ReducedRights, close_source \in BOOLEAN :
                   handle_table_transfer(p, q, s, rights, close_source)
              \/ \E v \in Service : ipc_service_register(p, v, s)
         \/ \E v \in Service :
              \/ ipc_trust_service(v, p) \/ ipc_service_unregister(p, v)
              \/ ipc_service_connect(p, v)
         \/ process_mark_exited(p)

Spec == Init /\ [][Next]_vars

-----------------------------------------------------------------------------
(* Properties.                                                               *)

TypeOK ==
    /\ endpoints \in [Endpoint -> EndpointRecord]
    /\ handles \in [Process -> [HandleSlot -> HandleRecord]]
    /\ services \in [Service -> ServiceRecord]
    /\ process \in [Process -> {"ready", "blocked", "exited"}]
    /\ requests \in 0 .. MaxRequests
    /\ pending \in [Endpoint -> Seq(Message)]
    /\ closed \in SUBSET Handle /\ IsFiniteSet(closed)
    /\ session \in [Process -> Session]

(* The handles and the services that name an endpoint.                       *)
Holders(e) == {h \in Process \X HandleSlot : handles[h[1]][h[2]].object = e}
Registrars(e) == {v \in Service : services[v].endpoint = e}

(* An endpoint's count is the number of handles and services that name it,   *)
(* and it is allocated just when there are any: no handle is ever left       *)
(* pointing at a cleared or reused endpoint, and none is kept for nobody     *)
(* (endpoint_retain, endpoint_release and every path that calls them).       *)
ReferencesCounted ==
    \A e \in Endpoint :
      LET named == Cardinality(Holders(e)) + Cardinality(Registrars(e))
      IN  /\ endpoints[e].reference_count = named
          /\ endpoints[e].allocated <=> named > 0

(* A free endpoint is cleared; the positions of an allocated one lie in its  *)
(* ring, as far apart as it holds messages; only its owner waits to receive. *)
EndpointsSound ==
    \A e \in Endpoint :
      LET endpoint == endpoints[e]
      IN  IF ~endpoint.allocated THEN endpoint = ClearedEndpoint
          ELSE /\ endpoint.capacity > 0
               /\ endpoint.count <= endpoint.capacity
               /\ endpoint.head < endpoint.capacity
               /\ endpoint.tail = (endpoint.head + endpoint.count) % endpoint.capacity
               /\ endpoint.owner \in Process
               /\ \A i \in DOMAIN endpoint.receivers : endpoint.receivers[i] = endpoint.owner

(* The ring holds, from head on and in order, exactly the messages sent and  *)
(* not yet received (ipc_send, ipc_receive), whatever the depth asked for.   *)
RingIsQueue ==
    \A e \in Endpoint :
      /\ endpoints[e].count = Len(pending[e])
      /\ endpoints[e].allocated =>
           \A i \in 1 .. Len(pending[e]) :
             endpoints[e].messages[(endpoints[e].head + i - 1) % endpoints[e].capacity]
               = pending[e][i]

(* A slot's counter is above that of every handle closed in it, as long as   *)
(* it has not gone all the way round (next_generation); a process that left  *)
(* holds nothing.                                                            *)
CountersAdvance ==
    \A p \in Process :
      IF process[p] = "exited" THEN \A s \in HandleSlot : Vacant(p, s)
      ELSE /\ \A h \in closed : h.owner = p => h.counter < handles[p][h.slot].counter
           /\ \A s \in HandleSlot : handles[p][s].counter <= 1 + Cardinality(closed)

(* A closed handle never resolves again, though its slot is reused.          *)
ClosedNeverResolves ==
    \A h \in closed :
      Vacant(h.owner, h.slot) \/ handles[h.owner][h.slot].counter # h.counter

StaleHandleRefused == CountersAdvance /\ ClosedNeverResolves

(* The wait queues, and that the blocked processes are those on one, each at *)
(* one place of one queue.                                                   *)
Side == {"receivers", "senders"}
WaitQueues == [w \in Endpoint \X Side |-> IF w[2] = "receivers" THEN endpoints[w[1]].receivers
                                          ELSE endpoints[w[1]].senders]
Queued(queues, status) ==
    /\ \A p \in Process : status[p] = "blocked" <=>
         \E w \in Endpoint \X Side : \E i \in DOMAIN queues[w] : queues[w][i] = p
    /\ \A w, x \in Endpoint \X Side : \A i \in DOMAIN queues[w], j \in DOMAIN queues[x] :
         queues[w][i] = queues[x][j] => w = x /\ i = j

(* A blocked process waits at one place of one queue and nobody else is on a *)
(* queue.  With EndpointsSound the queue is that of an allocated endpoint;   *)
(* that its peer will act, and so wake the process, is not said.             *)
BlockedIsQueued == Queued(WaitQueues, process)

(* No receiver sleeps while a message is queued for it: the wake-up of a     *)
(* send is never lost (ipc_send, ipc_receive).                               *)
ReceiverAwake ==
    \A e \in Endpoint : endpoints[e].receivers # <<>> => endpoints[e].count = 0

(* A registered endpoint belongs to the application trusted with the service *)
(* and is in force, unless that application serves another service too: then *)
(* it may have registered one endpoint for both, and withdrawing it from one *)
(* revokes it for the other (ipc_service_register, ipc_service_unregister).  *)
RegistryTrusted ==
    \A v \in Service : services[v].endpoint # Null =>
      /\ endpoints[services[v].endpoint].owner = services[v].trusted
      /\ endpoints[services[v].endpoint].revoked =>
           \E w \in Service \ {v} : services[w].trusted = services[v].trusted

(* A client that sees the generation it connected under talks to the         *)
(* endpoint now registered (the comparison client.c makes before every       *)
(* request).                                                                 *)
SessionsAgree ==
    \A p \in Process :
      LET mine == session[p]
      IN  mine.endpoint # Null =>
            /\ mine.service \in Service
            /\ mine.generation <= services[mine.service].generation
            /\ mine.generation = services[mine.service].generation =>
                 services[mine.service].endpoint = mine.endpoint

(* ... which is the endpoint of the trusted application.                     *)
SessionCurrent == RegistryTrusted /\ SessionsAgree

(* Messages arrive in order, and no process sleeps through one or is blocked *)
(* on no queue (ipc_send, ipc_receive, their wait queues).                   *)
NoMessageMissed ==
    TypeOK /\ EndpointsSound /\ RingIsQueue /\ BlockedIsQueued /\ ReceiverAwake
=============================================================================
