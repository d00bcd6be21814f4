----------------------------- MODULE PairExchange -----------------------------
(***************************************************************************)
(* One pair of edge tasks from its specification to its teardown: the      *)
(* application creates it with CreateEATaskFromSpecEx and destroys it with *)
(* edge_task_pair_destroy, while the bodies of its two tasks read the      *)
(* runtime record, exchange messages over the pair's queues and take the   *)
(* monitor store's mutex.  The application's steps are those of            *)
(* TaskManager for a pair nobody else works on; the bodies are those of    *)
(* the repository's examples.                                              *)
(***************************************************************************)
EXTENDS TaskSpec, Sequences, FiniteSets

CONSTANTS Window,       \* sensor values are counted modulo Window
          Faults        \* steps of a creation that may fail

ASSUME ExchangeAssumption ==
    /\ Window \in Nat \ {0, 1}
    /\ Faults \subseteq {"slot", "cs", "sc", "spawn", "record"}

VARIABLES pair,         \* the runtime record and the names that follow from it
          exists,       \* the queues the kernel has
          content,      \* the messages in each of them
          body,         \* the program counter and locals of each task
          holder,       \* the task that holds monitoredTasksMux
          monitor,      \* the tasks with an active monitor entry
          app           \* locals of the application's call in progress

exchangeVars == <<spec, creation, pair, exists, content, body, holder, monitor, app>>

kernelVars == <<exists, content, body>>

Roles == {"client", "server"}
Queues == {"cs", "sc"}   \* queue_client_server, queue_server_client

\* Index -1 is none; the client's entry has index 1, the server's 2; index 0
\* is somebody else's.
OwnIndex(r) == IF r = "client" THEN 1 ELSE 2

-----------------------------------------------------------------------------
(* What the bodies do.  A body takes part in the exchange for ever, once   *)
(* or not at all; sends with eaPort_WAIT_FOREVER or eaPort_NO_WAIT; its    *)
(* server answers with the value received plus a constant, or with the     *)
(* same value always; and it may report a measurement after each round.    *)

Body(rounds, waits, counts, reports) ==
    [rounds |-> rounds, waits |-> waits, counts |-> counts, reports |-> reports]

HappyBody == Body("many", TRUE, TRUE, FALSE)
AdvancedBody == Body("many", TRUE, TRUE, FALSE)
HelloBody == Body("one", TRUE, TRUE, FALSE)
SensorBody == Body("many", FALSE, FALSE, FALSE)
IdleBody == Body("none", TRUE, TRUE, FALSE)
MeteredBody == Body("many", TRUE, TRUE, TRUE)

Code(b) == CASE b = "happy"    -> HappyBody
             [] b = "advanced" -> AdvancedBody
             [] b = "hello"    -> HelloBody
             [] b = "sensor"   -> SensorBody
             [] b = "idle"     -> IdleBody
             [] b = "metered"  -> MeteredBody

\* Answers are the Window values after the requests, and 2 * Window is the
\* answer that does not depend on the request.
Requests == 0..(Window - 1)
Messages == 0..(2 * Window)

Answer(b, v) == IF Code(b).counts THEN Window + v ELSE 2 * Window

-----------------------------------------------------------------------------
(* State.                                                                  *)

Pair_t == [in_use      : BOOLEAN,
           queues      : SUBSET Queues,    \* queue pointers that are not NULL
           handles     : SUBSET Roles,     \* task handles that are not NULL
           index       : [Roles -> {-1, 0, 1, 2}],
           code        : Codes,
           app_type    : {"LOCAL", "ENRICHED"},
           queue_depth : Nat,
           task_name   : Name_t]

NoIndices == [r \in Roles |-> -1]

FreePair == [in_use |-> FALSE, queues |-> {}, handles |-> {},
             index |-> [r \in Roles |-> 0], code |-> "NULL",
             app_type |-> "LOCAL", queue_depth |-> 0, task_name |-> NullName]

\* Mutant: the indices are left as the memset of the slot left them.
NewPairZero(s) ==
    [in_use |-> TRUE, queues |-> {}, handles |-> {},
     index |-> [r \in Roles |-> 0], code |-> s.client_task_code,
     app_type |-> s.app_type, queue_depth |-> s.queue_depth,
     task_name |-> s.task_name]

\* The record once its slot is reserved and the indices are stored.
NewPair(s) ==
    [in_use |-> TRUE, queues |-> {}, handles |-> {},
     index |-> NoIndices, code |-> s.client_task_code,
     app_type |-> s.app_type, queue_depth |-> s.queue_depth,
     task_name |-> s.task_name]

\* "none": there is no such task; "gone": it deleted itself.
BodyPcs == {"none", "gone", "readFirst", "readSecond", "missing", "send",
            "receive", "lookup", "enter", "exit", "rest"}

Body_t == [pc    : BodyPcs,
           got   : SUBSET Queues,    \* queue pointers read from the record
           value : Requests,         \* last value sent (client), received (server)
           index : {-1, 0, 1, 2}]    \* index read for a report

NoBody == [pc |-> "none", got |-> {}, value |-> 0, index |-> -1]

Alive(r) == body[r].pc \notin {"none", "gone"}

Become(r, b) == body' = [body EXCEPT ![r] = b]

CreatePcs == {"cs", "sc", "spawn", "record", "lose", "index", "link"}
RollbackPcs == {"undoServer", "undoClient", "undoQueues", "undoMonitor"}
DestroyPcs == {"dropClient", "dropServer", "dropQueues", "dropMonitor"}

Got_t == [handles : SUBSET Roles, queues : SUBSET Queues, entries : SUBSET Roles]
NothingGot == [handles |-> {}, queues |-> {}, entries |-> {}]

\* role is the task being created, full and got the locals of a destroy.
App_t == [pc   : {"idle"} \cup CreatePcs \cup RollbackPcs \cup DestroyPcs,
          role : Roles,
          full : BOOLEAN,
          got  : Got_t]

IdleApp == [pc |-> "idle", role |-> "client", full |-> FALSE, got |-> NothingGot]

Failures == {"none", "invalid-spec", "runtime-slot", "queue-client",
             "queue-server", "client-task", "server-task", "local-task"}

Goto(pc) == app' = [app EXCEPT !.pc = pc]

MutexFree == holder = "none"

-----------------------------------------------------------------------------
(* The application creates the pair.                                       *)

FillTheSpec ==
    /\ app.pc = "idle" /\ ~pair.in_use
    /\ FillSpec
    /\ UNCHANGED <<pair, kernelVars, holder, monitor, app>>

\* edge_task_create_from_spec_impl refuses the specification.
Refuse ==
    /\ app.pc = "idle" /\ spec # NoSpec
    /\ ~IsValid(spec)
    /\ creation' = "invalid-spec"
    /\ spec' = NoSpec
    /\ UNCHANGED <<pair, kernelVars, holder, monitor, app>>

\* CreateEATaskPinnedToCoreEx with the resolved specification, up to the
\* indices of the reserved record.
Reserve ==
    /\ app.pc = "idle" /\ spec # NoSpec
    /\ IsValid(spec)
    /\ \/ /\ pair' = NewPair(Resolved(spec))
          /\ Goto("cs")
          /\ UNCHANGED <<spec, creation>>
       \/ /\ "slot" \in Faults
          /\ creation' = "runtime-slot"
          /\ spec' = NoSpec
          /\ UNCHANGED <<pair, app>>
    /\ UNCHANGED <<kernelVars, holder, monitor>>

CreateQueue(q) ==
    /\ app.pc = q
    /\ exists' = exists \cup {q}
    /\ content' = [content EXCEPT ![q] = <<>>]
    /\ pair' = [pair EXCEPT !.queues = @ \cup {q}]
    /\ Goto(IF q = "cs" THEN "sc" ELSE "spawn")
    /\ UNCHANGED <<spec, creation, body, holder, monitor>>

TaskFailure ==
    IF pair.app_type = "LOCAL" THEN "local-task"
    ELSE IF app.role = "client" THEN "client-task" ELSE "server-task"

FailureAt(pc) == CASE pc = "cs" -> "queue-client"
                   [] pc = "sc" -> "queue-server"
                   [] OTHER     -> TaskFailure

\* No memory for the object, no entry for the task, or the test hook.
StepFails ==
    /\ app.pc \in {"cs", "sc", "spawn"} \cap Faults
    /\ creation' = FailureAt(app.pc)
    /\ Goto("undoServer")
    /\ UNCHANGED <<spec, pair, kernelVars, holder, monitor>>

FirstPc == IF Code(pair.code).rounds = "none" THEN "rest" ELSE "readFirst"

\* _CreateTaskPinnedToCore_: an entry is found, then the task is created.
Spawn ==
    /\ app.pc = "spawn" /\ MutexFree
    /\ Become(app.role, [NoBody EXCEPT !.pc = FirstPc])
    /\ Goto("record")
    /\ UNCHANGED <<spec, creation, pair, exists, content, holder, monitor>>

\* The entry is recorded and the handle stored, or another creation has won
\* the entry.
RecordTask ==
    /\ app.pc = "record" /\ MutexFree
    /\ \/ /\ monitor' = monitor \cup {app.role}
          /\ pair' = [pair EXCEPT !.handles = @ \cup {app.role}]
          /\ Goto("index")
       \/ /\ "record" \in Faults
          /\ Goto("lose")
          /\ UNCHANGED <<monitor, pair>>
    /\ UNCHANGED <<spec, creation, kernelVars, holder>>

\* eaPort_Task_Delete: the task stops wherever it is.
Delete(r) == Become(r, NoBody)

LoseEntry ==
    /\ app.pc = "lose"
    /\ Delete(app.role)
    /\ creation' = TaskFailure
    /\ Goto("undoServer")
    /\ UNCHANGED <<spec, pair, exists, content, holder, monitor>>

StoreIndex ==
    /\ app.pc = "index"
    /\ pair' = [pair EXCEPT !.index[app.role] = OwnIndex(app.role)]
    /\ Goto("link")
    /\ UNCHANGED <<spec, creation, kernelVars, holder, monitor>>

\* Mutant: the server task is forgotten.
LinkEntriesAndStop ==
    /\ app.pc = "link" /\ MutexFree
    /\ app' = IdleApp
    /\ spec' = NoSpec
    /\ creation' = "none"
    /\ UNCHANGED <<pair, kernelVars, holder, monitor>>

\* The linkage is written; a client's creation goes on with its server.
LinkEntries ==
    /\ app.pc = "link" /\ MutexFree
    /\ \/ /\ pair.app_type = "ENRICHED" /\ app.role = "client"
          /\ app' = [app EXCEPT !.pc = "spawn", !.role = "server"]
          /\ UNCHANGED <<spec, creation>>
       \/ /\ pair.app_type = "LOCAL" \/ app.role = "server"
          /\ app' = IdleApp
          /\ spec' = NoSpec
          /\ creation' = "none"
    /\ UNCHANGED <<pair, kernelVars, holder, monitor>>

-----------------------------------------------------------------------------
(* error_cleanup.  No task is left when the queues are deleted, so the two *)
(* queues go in one step.                                                  *)

UndoTask(r) ==
    /\ app.pc = IF r = "server" THEN "undoServer" ELSE "undoClient"
    /\ IF r \in pair.handles THEN Delete(r) ELSE UNCHANGED body
    /\ pair' = [pair EXCEPT !.handles = @ \ {r}]
    /\ Goto(IF r = "server" THEN "undoClient" ELSE "undoQueues")
    /\ UNCHANGED <<spec, creation, exists, content, holder, monitor>>

DeleteQueues(qs) ==
    /\ exists' = exists \ qs
    /\ content' = [q \in Queues |-> IF q \in qs THEN <<>> ELSE content[q]]

UndoQueues ==
    /\ app.pc = "undoQueues"
    /\ DeleteQueues(pair.queues)
    /\ pair' = [pair EXCEPT !.queues = {}]
    /\ Goto("undoMonitor")
    /\ UNCHANGED <<spec, creation, body, holder, monitor>>

\* Mutant: the client's entry is cleared only together with a server's.
UndoMonitorOfPair ==
    /\ app.pc = "undoMonitor" /\ MutexFree
    /\ monitor' = IF pair.index["server"] >= 0 THEN {} ELSE monitor
    /\ pair' = FreePair
    /\ app' = IdleApp
    /\ spec' = NoSpec
    /\ UNCHANGED <<creation, kernelVars, holder>>

\* The entries the record names are cleared and the slot released.
UndoMonitor ==
    /\ app.pc = "undoMonitor" /\ MutexFree
    /\ monitor' = monitor \ {r \in Roles : pair.index[r] >= 0}
    /\ pair' = FreePair
    /\ app' = IdleApp
    /\ spec' = NoSpec
    /\ UNCHANGED <<creation, kernelVars, holder>>

-----------------------------------------------------------------------------
(* edge_task_pair_destroy by the application.                              *)

\* The record's fields are copied and cleared under runtimeRegistryMux.
Take(mode) ==
    /\ app.pc = "idle" /\ pair.in_use
    /\ LET full == \/ mode = "PAIR"
                   \/ "server" \notin pair.handles /\ pair.index["server"] < 0
           roles == IF full THEN Roles ELSE {"client"}
       IN  /\ app' = [IdleApp EXCEPT !.pc = "dropClient", !.full = full,
                 !.got = [handles |-> pair.handles \cap roles,
                          queues  |-> IF full THEN pair.queues ELSE {},
                          entries |-> {r \in roles : pair.index[r] >= 0}]]
           /\ pair' = [pair EXCEPT !.handles = @ \ roles,
                          !.index = [r \in Roles |-> IF r \in roles THEN -1 ELSE @[r]],
                          !.queues = IF full THEN {} ELSE @]
    /\ UNCHANGED <<spec, creation, kernelVars, holder, monitor>>

\* Mutant: the queues go before the server.
DropQueuesFirst(r) ==
    /\ app.pc = IF r = "server" THEN "dropServer" ELSE "dropClient"
    /\ IF r \in app.got.handles THEN Delete(r) ELSE UNCHANGED body
    /\ DeleteQueues(app.got.queues)
    /\ app' = [app EXCEPT !.pc = IF r = "server" THEN "dropQueues"
                                 ELSE IF app.full THEN "dropServer" ELSE "dropMonitor",
                          !.got.handles = @ \ {r}]
    /\ UNCHANGED <<spec, creation, pair, holder, monitor>>

DropTask(r) ==
    /\ app.pc = IF r = "server" THEN "dropServer" ELSE "dropClient"
    /\ IF r \in app.got.handles THEN Delete(r) ELSE UNCHANGED body
    /\ app' = [app EXCEPT !.pc = IF r = "server" THEN "dropQueues"
                                 ELSE IF app.full THEN "dropServer" ELSE "dropMonitor",
                          !.got.handles = @ \ {r}]
    /\ UNCHANGED <<spec, creation, pair, exists, content, holder, monitor>>

DropQueues ==
    /\ app.pc = "dropQueues"
    /\ DeleteQueues(app.got.queues)
    /\ Goto("dropMonitor")
    /\ UNCHANGED <<spec, creation, pair, body, holder, monitor>>

\* The entries are cleared; a full teardown ends with the release of the slot.
DropMonitor ==
    /\ app.pc = "dropMonitor" /\ MutexFree
    /\ monitor' = monitor \ app.got.entries
    /\ pair' = IF app.full THEN FreePair ELSE pair
    /\ app' = IdleApp
    /\ UNCHANGED <<spec, creation, kernelVars, holder>>

-----------------------------------------------------------------------------
(* The bodies.                                                             *)

\* Both bodies read queue_client_server first.
ReadFirst(r) ==
    /\ body[r].pc = "readFirst"
    /\ Become(r, [body[r] EXCEPT !.pc = "readSecond", !.got = pair.queues \cap {"cs"}])
    /\ UNCHANGED <<spec, creation, pair, exists, content, holder, monitor, app>>

ReadSecond(r) ==
    /\ body[r].pc = "readSecond"
    /\ LET got == body[r].got \cup (pair.queues \cap {"sc"})
           pc == IF got # Queues THEN "missing"
                 ELSE IF r = "client" THEN "send" ELSE "receive"
       IN  Become(r, [body[r] EXCEPT !.got = got, !.pc = pc])
    /\ UNCHANGED <<spec, creation, pair, exists, content, holder, monitor, app>>

\* A body with a NULL queue ends with eaPort_Task_Delete(NULL).
DeleteSelf(r) ==
    /\ body[r].pc = "missing"
    /\ Become(r, [NoBody EXCEPT !.pc = "gone"])
    /\ UNCHANGED <<spec, creation, pair, exists, content, holder, monitor, app>>

OutQueue(r) == IF r = "client" THEN "cs" ELSE "sc"
InQueue(r) == IF r = "client" THEN "sc" ELSE "cs"

HasRoom(q) == Len(content[q]) < pair.queue_depth

\* Mutant: the count never wraps.
OutgoingUnwrapped(r) == IF r = "client" THEN body[r].value + 1
                        ELSE Answer(pair.code, body[r].value)

\* sensor_value++ before a request; the value received decides an answer.
Outgoing(r) == IF r = "client" THEN (body[r].value + 1) % Window
               ELSE Answer(pair.code, body[r].value)

\* Where a body goes on after its part of a round.
NextRound(r) == IF Code(pair.code).reports THEN "lookup"
                ELSE IF r = "server" THEN "receive"
                ELSE IF Code(pair.code).rounds = "one" THEN "rest"
                ELSE "send"

AfterSend(r) ==
    IF r = "client"
    THEN [body[r] EXCEPT !.pc = "receive", !.value = Outgoing(r)]
    ELSE [body[r] EXCEPT !.pc = NextRound(r), !.value = 0]

\* eaPort_Queue_Send: with eaPort_WAIT_FOREVER the body waits for room, with
\* eaPort_NO_WAIT a full queue loses the message.
Send(r) ==
    /\ body[r].pc = "send"
    /\ HasRoom(OutQueue(r)) \/ ~Code(pair.code).waits
    /\ content' = [content EXCEPT ![OutQueue(r)] =
                      IF HasRoom(OutQueue(r)) THEN Append(@, Outgoing(r)) ELSE @]
    /\ Become(r, AfterSend(r))
    /\ UNCHANGED <<spec, creation, pair, exists, holder, monitor, app>>

\* The server keeps the value received, the client only counts the answer.
AfterReceive(r, message) ==
    IF r = "server"
    THEN [body[r] EXCEPT !.pc = "send", !.value = message]
    ELSE [body[r] EXCEPT !.pc = NextRound(r)]

\* Mutant: the message stays in the queue.
ReceiveCopy(r) ==
    LET q == InQueue(r)
    IN  /\ body[r].pc = "receive"
        /\ content[q] # <<>>
        /\ Become(r, AfterReceive(r, Head(content[q])))
        /\ UNCHANGED <<spec, creation, pair, exists, content, holder, monitor, app>>

\* Mutant: the value received is not kept.
ReceiveNothing(r) ==
    LET q == InQueue(r)
    IN  /\ body[r].pc = "receive"
        /\ content[q] # <<>>
        /\ content' = [content EXCEPT ![q] = Tail(@)]
        /\ Become(r, AfterReceive(r, body[r].value))
        /\ UNCHANGED <<spec, creation, pair, exists, holder, monitor, app>>

\* eaPort_Queue_Receive with eaPort_WAIT_FOREVER
Receive(r) ==
    LET q == InQueue(r)
    IN  /\ body[r].pc = "receive"
        /\ content[q] # <<>>
        /\ content' = [content EXCEPT ![q] = Tail(@)]
        /\ Become(r, AfterReceive(r, Head(content[q])))
        /\ UNCHANGED <<spec, creation, pair, exists, holder, monitor, app>>

\* edge_task_pair_task_index or edge_task_pair_peer_index, with no lock held.
LookUpIndex(r) ==
    /\ body[r].pc = "lookup"
    /\ Become(r, [body[r] EXCEPT !.pc = "enter", !.index = pair.index[r]])
    /\ UNCHANGED <<spec, creation, pair, exists, content, holder, monitor, app>>

\* update_task_metrics_OE2EL_by_index: Mutex_Enter, then the store and
\* Mutex_Exit.  What is stored is not kept.
EnterMonitor(r) ==
    /\ body[r].pc = "enter" /\ MutexFree
    /\ holder' = r
    /\ Become(r, [body[r] EXCEPT !.pc = "exit"])
    /\ UNCHANGED <<spec, creation, pair, exists, content, monitor, app>>

AfterReport(r) ==
    [body[r] EXCEPT !.pc = IF r = "client" THEN "send" ELSE "receive", !.index = -1]

\* Mutant: the mutex is not given back.
ExitMonitorHolding(r) ==
    /\ body[r].pc = "exit"
    /\ Become(r, AfterReport(r))
    /\ UNCHANGED <<spec, creation, pair, exists, content, holder, monitor, app>>

ExitMonitor(r) ==
    /\ body[r].pc = "exit"
    /\ holder' = "none"
    /\ Become(r, AfterReport(r))
    /\ UNCHANGED <<spec, creation, pair, exists, content, monitor, app>>

-----------------------------------------------------------------------------
ExchangeInit ==
    /\ spec = NoSpec /\ creation = "none"
    /\ pair = FreePair
    /\ exists = {} /\ content = [q \in Queues |-> <<>>]
    /\ body = [r \in Roles |-> NoBody]
    /\ holder = "none" /\ monitor = {}
    /\ app = IdleApp

AppContinue ==
    \/ \E q \in Queues : CreateQueue(q)
    \/ StepFails \/ Spawn \/ RecordTask \/ LoseEntry \/ StoreIndex \/ LinkEntries
    \/ \E r \in Roles : UndoTask(r)
    \/ UndoQueues \/ UndoMonitor
    \/ \E r \in Roles : DropTask(r)
    \/ DropQueues \/ DropMonitor

AppStep ==
    \/ FillTheSpec \/ Refuse \/ Reserve
    \/ AppContinue
    \/ Take("PAIR") \/ Take("CLIENT_ONLY")

BodyStep(r) ==
    \/ ReadFirst(r) \/ ReadSecond(r) \/ DeleteSelf(r)
    \/ Send(r) \/ Receive(r)
    \/ LookUpIndex(r) \/ EnterMonitor(r) \/ ExitMonitor(r)

ExchangeNext == AppStep \/ \E r \in Roles : BodyStep(r)

\* FreeRTOS runs every task that is ready: a call goes on until it returns, a
\* body until it waits for a message or the mutex.  A caller that waits for the
\* mutex gets it in the end: it is woken when the mutex is given, and the
\* bodies sleep between rounds.
ExchangeSpec ==
    /\ ExchangeInit /\ [][ExchangeNext]_exchangeVars
    /\ SF_exchangeVars(AppContinue)
    /\ \A r \in Roles : WF_exchangeVars(BodyStep(r))

-----------------------------------------------------------------------------
(* Properties.                                                             *)

ExchangeTypeOK ==
    /\ spec \in Spec_t \cup {NoSpec}
    /\ creation \in Failures
    /\ pair \in Pair_t
    /\ exists \subseteq Queues
    /\ content \in [Queues -> Seq(Messages)] /\ content["cs"] \in Seq(Requests)
    /\ body \in [Roles -> Body_t]
    /\ holder \in Roles \cup {"none"}
    /\ monitor \subseteq Roles
    /\ app \in App_t

\* A body about to send always finds room: no body ever waits to send, and the
\* eaPort_NO_WAIT sends of the task creation example never lose a message
\* ("Queue full!"), although client and server are created and destroyed one
\* after the other.
SendsFit == \A r \in Roles : body[r].pc = "send" => HasRoom(OutQueue(r))

\* The answer a client is about to take is the answer to the request it made,
\* never one left over from an earlier round.
AnswersMatch ==
    body["client"].pc = "receive" /\ content["sc"] # <<>> =>
        Head(content["sc"]) = Answer(pair.code, body["client"].value)

\* A task that runs finds its runtime record reserved and the queues it read
\* from it still there: error_cleanup and edge_task_pair_destroy delete both
\* tasks before the queues and the slot, whatever step the tasks are at.
RecordOutlivesBodies ==
    \A r \in Roles : Alive(r) => pair.in_use /\ body[r].got \subseteq exists

\* A measurement is reported under the entry of the task that made it or not
\* at all, although tasks run before the creator has stored their indices
\* (task_manager.c, edgeRuntime->client_index = task_index after the task was
\* created); and an index a task has read is that of an active entry.
ReportsUnderOwnIndex ==
    \A r \in Roles : body[r].pc \in {"enter", "exit"} /\ body[r].index # -1 =>
        body[r].index = OwnIndex(r) /\ r \in monitor

\* A creation that fails, at whatever step, and a full teardown leave no task,
\* no queue and no monitor entry behind.
NothingIsLeft ==
    ~pair.in_use => exists = {} /\ monitor = {} /\ \A r \in Roles : ~Alive(r)

\* A specification edge_task_spec_is_valid accepts is never refused by the
\* creation itself, and what the creation is given after defaults are resolved
\* has a deadline and a host label, however the specification was filled.
AcceptedSpecIsComplete ==
    app.pc \in CreatePcs =>
        LET s == Resolved(spec)
        IN  CreationAccepts(s) /\ s.deadline_ms > 0 /\ s.local_host_label # "NULL"

\* The names of a built pair tell its client from its server, and make the
\* client a candidate for the offloader (Offloader.md:108, "collects all
\* active client candidates").  A server may be one too: Offloader.md:29 says
\* "client-side candidate selection only", but is_client_task finds the "-cl-"
\* of a name such as a-cl-b in all its entries.
BuiltPair == pair.in_use /\ app.pc = "idle" /\ pair.app_type = "ENRICHED"

ClientsAreCandidates ==
    BuiltPair =>
        LET client == EntryName(pair.task_name, "client")
        IN  client # EntryName(pair.task_name, "server") /\ IsClientTask(client)

\* A task deleted inside a critical section never leaves it.
MutexIsOrphaned == holder # "none" /\ ~Alive(holder)

\* Every creation and teardown returns, unless it deleted a task that held the
\* mutex of the monitor store.
CallsReturn == app.pc # "idle" ~> app.pc = "idle" \/ MutexIsOrphaned

\* edge_task_pair_destroy deletes tasks that exist (port_rtos_freertos.h:209,
\* "After deletion, the task handle is no longer valid").
DeletesExistingTasks ==
    \A r \in app.got.handles : body[r].pc # "gone"

\* A task is not deleted while it holds a mutex (port_rtos_freertos.h:208,
\* "The task must not be holding critical resources at deletion").
MutexIsNeverOrphaned == ~MutexIsOrphaned

\* The exchange as RequestReply sees it: it is open from the creation of the
\* client until the pair is rolled back or taken down.
IsOpen ==
    /\ Alive("client") /\ pair.app_type = "ENRICHED"
    /\ app.pc \in ({"idle"} \cup CreatePcs) \ {"lose"}

ExchangeTurn ==
    IF ~IsOpen THEN "closed"
    ELSE IF body["client"].pc # "receive" THEN "client"
    ELSE IF content["sc"] # <<>>
            /\ Head(content["sc"]) = Answer(pair.code, body["client"].value)
    THEN "reply"
    ELSE "server"

ExchangeNumber == IF IsOpen THEN body["client"].value ELSE 0

Promise == INSTANCE RequestReply WITH turn <- ExchangeTurn, number <- ExchangeNumber

\* The bodies over queues, tasks and runtime record implement a request-reply
\* exchange: every request is answered, once and with its own answer, and the
\* answer taken, unless the pair is rolled back or destroyed.
KeepsPromise == Promise!TurnSpec
===============================================================================
