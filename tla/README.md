# Edge-aware Tasks RTOS: TLA+ models and proofs

Edge-aware Tasks RTOS is a framework for ESP32 / FreeRTOS in which an
application creates *pairs* of tasks: a client task and, when the work stays on
the device, a server task, joined by two queues. The task manager owns the
pairs, a table of monitored tasks records them, an offloader decides for each
client whether its payload is handled locally or remotely, and a small facade
starts and stops the whole.

This directory models the parts of that program whose correctness depends on
the order of things: who holds a slot, a task, a queue or a table entry while
several threads create and tear down pairs, and edge tasks tear down their own;
which route is in force where, while a controller decides and applies routes
over pairs that come and go; what the facade knows of both across starts and
stops; and what becomes of a request between the two tasks of a pair, from the
specification the pair is created from to its teardown.
Source paths are relative to the root of the repository; `task_manager.c` is
`components/EEAA/src/core/task_manager.c`, and likewise for `offloader.c`.

## 1. Inventory

| Component | State it keeps | Operations | Interacts with |
|---|---|---|---|
| Pair runtime registry (`task_manager.c:10-46, 324-540`) | linked chunks of four slots, LIFO free list, `in_use` and lifecycle mark per slot, `nextPairId`, `runtimeRegistryMux` | reserve, release, expand, clear, mark cleaning / retired, lookup by index, next pair id | the creation and teardown paths hold pointers into it; edge tasks receive such a pointer as `pvParameters` |
| Monitor store (`task_manager.c:318-322, 542-922`) | `monitoredTaskHot` / `Cold` (16 entries), `numMonitoredTasks`, `monitoredTasksMux` | pick, record, link, clear, remove, snapshot, metrics, route fields | written by creation, teardown and the offloader; read by everyone |
| Pair creation and teardown (`task_manager.c:1056-1546`) | none of its own: locals of the calling thread | `CreateEATaskPinnedToCoreEx`, `edge_task_pair_destroy` by pointer, index or name, `edge_task_pair_runtime_release`, `task_manager_init` | kernel, registry, store, with no lock held between the steps |
| Specification builder (`task_manager.c:66-314`) | none | defaults, validation, naming | calls creation |
| Offloader (`core/offloader.c`) | `g_offloader_state`: configuration, policy, event counters; no lock | collect, evaluate or plan, apply, observe | reads the store and the registry by index, writes host label and execution site |
| Policies (`core/offloader_policy_*.c`) | none | FP: remote when OE2EL >= WCET + WCET/4; RM: remote when OE2EL >= period | called by the offloader |
| Runtime facade (`api/runtime.c`) | `g_runtime_state`; no lock | start, stop, run_once, status, diagnostics | `task_manager_init`, the offloader |
| RTOS port (`port/port_rtos_freertos.c`) | none | tasks, queues, mutexes | FreeRTOS |
| Board port (`port/port_board_esp32.c`) | none | clock, cycle counter, core | hardware |
| Edge task bodies (`src/examples/`, `components/EEAA/examples/`) | values in flight | read the queues from the record, send a request, wait for the answer; serve; report a measurement | queues of the pair, the runtime record, the monitor store |

What is hard in it, and what makes each part correct:

- **Creation and teardown** are long sequences of critical sections of two
  mutexes, kernel calls and unlocked stores. Any number of threads run them at
  once; a pair's own tasks may run a teardown too. Correct means: every OS task,
  queue, entry and slot is held in one place, released once, and never by a
  thread that does not own it.
- **Roll-back**: a creation can fail at seven steps; exactly what exists is undone.
- **Stale names**: pointers, indices and peer indices outlive what they name.
- **Restart**: `task_manager_init` frees the registry under whatever lives.
- **Routing**: a route is decided from a snapshot and applied in several critical
  sections; a cycle can stop half way.
- **Start and stop**: the facade and the controller keep a configuration each, and
  event counters that a start and a stop reset while routes remain.
- **Messages**: client and server block on each other without a time limit, and
  are created, deleted and created again wherever they are.
- **Words**: identifiers, thresholds and cycle counters wrap.

`PROJECT.json` lists each hazard at its line with the properties that watch it.

## 2. Modules

| Module | Models | Notes |
|---|---|---|
| `EAConfig` | `CONFIG_EA_MAX_TASKS`, identifier and handle ranges | constants and their assumption |
| `RuntimeRegistry` | registry | state and one operator per critical section of `runtimeRegistryMux` |
| `MonitorStore` | entries, linkage, count | one operator per critical section of `monitoredTasksMux` |
| `TaskManager` | creation, roll-back, teardown, removal, restart; kernel tables | composes the two above with the program counter of every thread |
| `Ownership` | who holds what in `TaskManager` | no code of its own: the inductive invariant of the one-holder properties, and the disciplines of the callers |
| `PairTable` | what the manager promises about pairs | the abstract specification `TaskManager` implements: pairs are published whole, may lose their client half, and are withdrawn |
| `MCTaskManager` | instances for TLC | one or two callers, symmetry; extends `Ownership`, so a run checks its predicates |
| `OffloaderPolicy` | the two built-in policies | pure operators, in arithmetic modulo `UintSize` |
| `Offloader` | controller, over `TaskManager` | extends it: every step of the manager is a step here, with what it does to labels and sites conjoined |
| `MCOffloader` | instances for TLC | controller in the application's thread or in its own |
| `RuntimeFacade` | facade, over `Offloader` | extends it: starts, stops, cycles, status queries and the event counters, beside every step of the manager |
| `MCFacade` | its instance for TLC | the configurations an application starts it with |
| `TaskSpec` | specification builder, validation, names | the first steps of `PairExchange` |
| `PairExchange` | one pair from its specification to its teardown, with running bodies | creation, roll-back and destroy of one pair; queues with content; the store's mutex with a holder |
| `RequestReply` | what a pair promises its application | the abstract specification `PairExchange` implements |
| `Measurement` | cycle counters and their differences | pure operators, modulo `WordSize` |
| `MCExchange` | instances of `PairExchange` for TLC | evaluates `Measurement` over all short words too |
| `StoreProofs` | lemmas on the two data modules | |
| `TaskManagerProofs` | theorems of `TaskManager!Spec` | |
| `OwnershipProofs` | theorems of `TaskManager!Spec` on who holds what | uses `TaskManagerProofs` |
| `TableProofs` | `TaskManager!Spec` implements `PairTable` | uses `OwnershipProofs` |
| `OffloaderProofs` | theorems of `Offloader!ControlSpec` | uses those of the manager and of ownership |
| `FacadeProofs` | theorems of `RuntimeFacade!FacadeSpec` | uses those of the controller |
| `ExchangeProofs` | theorems of `PairExchange!ExchangeSpec`, the refinement of `RequestReply` included | |
| `MeasurementProofs` | what the measurement functions return, for every word size | |

### State and code

- A slot `<<c, i>>` is `slots[i]` of the c-th chunk allocated. `chunks` counts the
  linked chunks, `freeList` is the list from `runtimeFreeList`, `inUse` the slots
  with `in_use` set, `runtime[s]` the record. Names, host labels and roles in the
  record are left out: no property depends on them.
- `monitor[i]` stands for both arrays, which are always written together under
  the mutex; `is_active`, `pair_id` and `peer_index` are kept.
- `tasks` and `liveQueues` are the kernel's. A new object takes the lowest handle
  not in use, so a freed handle is recycled at once, which is the worst case for
  stale handles. A task remembers its `pvParameters` and the queues it uses.
- `call[t]` is the call thread `t` is in: a program counter and the locals that
  are still alive. A local is reset when the code no longer reads it.
- `pointers[t]` is what an application thread remembers of the pairs it created;
  it exists for the calls that a program may make only on its own pairs.

The controller adds:

- `entryRoute[i]` is what a monitor entry keeps of a route: `local_host_label`,
  `exec_site`, whether it is a client's, and its WCET and period (`demand`), each of
  which may be 0: fixed priority reads only the first, rate monotonic only the
  second. `recordLabel[s]` is the label in a runtime record. The two configured
  labels are named after their routes; "own" is the one a pair was created with.
  A client's entry is told by its name, which is taken to leave room for its `-cl-`;
  names of pairs are taken to hold no `-cl-` of their own, which would make the other
  entries of the pair candidates as well (section 3).
- `RoutesFollow` says what each step of the manager does to these: recording and
  clearing an entry writes all of it, reserving and releasing a slot clears the
  record, and the creator stores the label together with the first indices. It is
  conjoined to every step of the manager, which otherwise is unchanged.
- `offloader` is the configuration and the policy of `g_offloader_state`,
  `lastEvent` its last event. A failure event keeps only its type; the event
  counters are `RuntimeFacade`'s `events`.
- `cycle` is the controller call in progress: program counter, the vector of
  candidates and the runtime found. `wrote` records whether the call has written a
  label; the code has no such variable and no guard reads it.
- A policy of the application answers any of `Opinions`, for each candidate anew; a
  built-in one is a function of the snapshot. The controller keeps the policy's
  answer in the candidate when the snapshot is taken, which is the same thing,
  because those policies read nothing else.

The facade adds `facade` (`g_runtime_state`), `request` (the locals of a start or a
status in progress) and `events`, the three counters the five of
`edge_offloader_observability_t` are sums of. A status reads the number of entries
in one critical section and then collects the candidates index by index, each
with a snapshot and a lookup of its runtime, as the code does.

`PairExchange` looks at one pair from inside:

- `spec` is the `edge_task_spec_t` being filled, by an initialiser and setters,
  field by field, or as an example does. Of a name is kept what truncation and
  `strstr` depend on: whether it is given (NULL or not), its length, and where its
  first `-cl-` ends, if it holds one or begins one that the suffix completes
  (`mark`). `IsClientTask` finds that one or the suffix's, if it was not cut off. What
  the kernel schedules with is left out. `creation` is the recorded failure reason.
- `pair` is the runtime record, `exists` and `content` are the queues, `monitor` the
  active entries, `holder` is the task inside the store's mutex, `app` the call of
  the application. Steps of creation, roll-back and teardown are those of
  `TaskManager` for a pair no other thread works on, except that the tasks may
  hold the store's mutex, for which a step that needs it waits.
- `body[r]` is the program counter and the locals of each task. Bodies are
  described by what distinguishes the examples: whether they loop, answer once
  or do not talk at all; whether they send with `eaPort_WAIT_FOREVER` or
  `eaPort_NO_WAIT`; how the server computes its answer; and whether they report a
  measurement after each round (`metered`), as `update_task_metrics_OE2EL_by_index`
  is there for.

`RequestReply` knows only whose turn it is. `PairExchange` maps to it by
`ExchangeTurn`: closed until the client task exists and from the moment a roll-back
or teardown begins; the client's unless it waits; answered once the head of the
answer queue is the answer to the client's last request; else the server's. How
the request travels, and that the server may not exist yet, is not visible.

### Steps

One step is one critical section, one kernel call or one unlocked store of the
code. Three steps join a call with the unlocked store of its result, which no
other thread can tell apart except through a half-built record: the creation of
a queue, `cleanup_task_handle` and `cleanup_queue_handle`. Storing -1 in the two
indices is one step. Critical sections are atomic because every access to the
data they protect takes the mutex, and no section blocks or calls out.

`Next` lets any thread that is idle begin a call of `Ops`, and any thread inside
a call take its next step. A destroyed task loses its call where it stands.
A task destroys its own pair only after the creation of the pair has returned;
only the client task may ask for a client-only destroy of itself.

A step of the controller is one critical section of the manager, one unlocked
read of a runtime record, or the local work up to the next of these. A batch
cycle scans, plans, validates every candidate, then applies every candidate; a
per-task cycle evaluates, validates and applies one after the other. Applying a
route to one candidate takes four steps (`FindTarget`, `LabelEntry`,
`LabelRecord`, `SetSite`), each of which looks the index up again. The controller
is one thread: `Control` is either an application thread, which then makes one
call at a time, or a thread of its own.

A start of the runtime is two steps of the manager (the restart of store and
registry) and one of the controller with the facade's own assignments. The
application takes it only when no pair is left (`Tidy`): `task_manager_init` frees
the records of live tasks otherwise, which `AnyCalls` covers as far as the
registry and the store are concerned. A stop, and the local part of a call, is
one step.

A body of `PairExchange` takes one step for each read of the record, each queue
operation, and each end of its critical section, so it can be deleted, and its
pair taken down, between any two of these.

## 3. Runs

| Run | Instance | Shows |
|---|---|---|
| `Owners` | two threads, two entries, two slots, three task handles; create and destroy own pairs | threads race for the same entry, lose, roll back and retry: one holder for every task, queue and entry, no task outlives its queues, no slot has two workers, built pairs are linked both ways; to the abstract table (`KeepsTable`) pairs come whole and go at once |
| `Lifecycle` | one thread, all kinds of pair, every creation step may fail, three entries, two chunks | one holder for every task, queue and entry through roll-backs from every step, and with destroys by any index and through any pointer ever valid; the pair identifier wraps and skips 0 |
| `SelfTeardown` | one thread, one slot, the pair's tasks destroy it | teardown by the tasks themselves, at the same time and against the next creation in the slot; no teardown enters a pair somebody else is at work on (`TakesUndisturbed`); a slot marked CLEANING is always released; the abstract table is kept when a pair's tasks retire it themselves, by halves or whole |
| `AnyCalls` | one thread, every call, two chunks of one slot | removals, direct releases, restarts, stale pointers: the pool stays partitioned, the count exact |
| `Control` | a controller thread, another that creates and destroys pairs; two entries, two slots; both modes, a policy of the application that accepts, rejects or answers nonsense | pairs vanish and are replaced between any two steps of a cycle: no route is left without a pair, none reaches a record under construction, a rejected batch has written nothing, and a route reported stays in force, also when the candidate after it is rejected |
| `Facade` | an application thread that starts and stops the runtime in every way, runs cycles, queries its status and creates pairs, whose tasks tear themselves down | the two copies of the configuration agree; the diagnostics count every route in force; a status never reports more candidates than tasks; label in entry and record and site agree; neither built-in policy moves a client that lacks the figure it decides by |
| `Exchange` | one pair after another, from every specification (a name that just fits, one that holds a `-cl-` too, none, an empty one), with and without failures; four examples and bodies that report measurements | no send finds its queue full, answers match, no task outlives its record or queues, a report goes to the task's own entry, nothing is left behind, an accepted specification is complete, clients can be told by their names; every call returns; the pair implements `RequestReply`, liveness included |
| `IndexRace`, `DoubleDestroy`, `Lockout`, `DeletedTwice`, `TruncatedClient` | see below | disagreements between the code and what its documents, comments and tests say |

Bounds. Two threads are enough for every race the code distinguishes: each
critical section involves one thread and the shared data. Two entries and two
slots make threads collide, and run out; three entries hold a pair and a half, so
a creation can fail at its server. Three identifiers wrap within a few pairs.
Handles are as many as the slots can need, but one: `Owners` and `Lifecycle` can
exhaust the tasks. `Owners` and the two violation runs with two callers use
symmetry of the callers, with no liveness property.

`Control` and `Facade` have a single pair identifier, so the check that a
candidate still names the same pair (`offloader.c:40`) fails only against a record
that is still zeroed. That is the permissive side: a route decided for one pair
gets through to the next pair of the index more often than in the code, and the
properties hold all the same. Two candidates make a batch that can fail at its
second and a scan that changes under the controller. `Facade` has one slot and two
entries: its properties speak about one pair and what the steps on it leave
behind, and about a store that is scanned entry by entry; with one pair, that the
diagnostics count the routes of several clients is left to the theorem. Its clients
have a WCET of 8 and no period, or a period of 8 and no WCET, as
`edge_task_spec_init` leaves it: with a latency of 9 FP has the threshold 10 for the
first, gives it a local route and refuses the second, RM refuses the first and sends
the second to the remote side. `Control` has one client with both, since a policy of
the application reads neither. `MaxEvents` = 2 stops new cycles after two events, so a
counter holds more than one event and a second cycle meets routes of the first.

In `Exchange`, sensor values are counted modulo `Window` = 2, enough to tell a
request from the one before, which is all that can be confused while at most one
message is under way. Depths 0 (refused), 1 (the default) and 2 are on both sides
of what the exchange needs. `NameLimit` is the code's 16; a NULL name and
an empty one are refused, and a length of 11 is the longest from which a client can
still be told. `Stacks` and `Periods`
contain 0, which is refused, and one value that is not. The application creates
and destroys pairs for ever; the state space is finite without any bound on that.

### What the violation runs found

- `IndexRace`. `reserve_pair_runtime` publishes a zeroed record as READY; its
  indices read 0 until the creator stores -1 with no lock held
  (`task_manager.c:515-518, 1327-1328`). A thread destroying its own pair of
  index 0 by index then finds the other thread's slot. The slot is torn down and
  released while the creation goes on in it, and a task ends up with no holder.
- `DoubleDestroy`. A slot is protected against a second destroy only while
  CLEANING (`task_manager.c:1098`). A destroy that begins between
  `runtime_mark_retired` and `release_pair_runtime_impl` is admitted and later
  releases the slot a second time, when it may belong to another creation.
- `Lockout`. `edge_task_pair_destroy` and `error_cleanup` delete tasks wherever they
  are; a task inside `update_task_metrics_OE2EL_by_index` then never gives back the
  store's mutex, and the destroy that follows waits for it for ever
  (`task_manager.c:877-881, 1120-1132`; `port_rtos_freertos.h:208` forbids it).
- `DeletedTwice`. A teardown clears the record's queues before it deletes the tasks.
  A body that starts in between finds them NULL and deletes itself; its handle is
  then deleted again (`task_manager.c:1103-1121`, `port_rtos_freertos.h:209`).
- `TruncatedClient`. A task name of 12 characters, as in the advanced example, loses
  the last character of `-cl-` to the limit of 15, and the controller no longer
  takes the task for a client (`task_manager.c:1365, 919`; `Offloader.md:108`).

Four more disagreements are plain from the code and have no run of their own.
`is_client_task` looks for `-cl-` anywhere in a name (`task_manager.c:921`), and nothing
keeps an application from choosing one that holds it: of a pair named `a-cl-b` the
server's entry `a-cl-b-sv-0` is a candidate too (`Offloader.md:29` says "client-side
candidate selection only", `test_task_lifecycle.c:705` "server suffix should not
match"; `NamesThatFit` says exactly when it is).
`remove_monitored_task_by_index` leaves the runtime, which is still found by the
inactive index (`task_manager.h:566` says NULL). A client-only destroy leaves the
server's `peer_index`, which names the index's next user (`task_manager.c:1139`,
`Task_Management.md:233`). A per-task cycle returns false at the first candidate
that is not applied although earlier ones were (`offloader.c:284`; `offloader.h:76`
promises true).

The passing runs exclude exactly the calls that lead there: `Owners` has threads
destroy their own pairs by pointer, `Lifecycle` and `AnyCalls` have one caller,
`SelfTeardown` has no other destroyer than the pair. In `Exchange` the two
disagreements of a deletion can happen and the properties are stated so as to
hold all the same: a task deleted twice or inside its critical section breaks none
of the safety properties, and `CallsReturn` promises a return unless the mutex was
lost. `Exchange` has names of up to 11 characters for the sake of
`ClientsAreCandidates`, which `ExchangeProofs` proves for names that leave room for
four characters more (`NamesFit`); it proves the other properties for any names.
`Exchange` has a name with `-cl-` among its own.

`RoutesAgree` is checked in `Facade`, where the thread that creates also routes.
With a controller of its own, the setter of the label may find a record that is
reserved but not yet given its -1 indices, write there, and leave the pair of
index 0 with two labels: the cause is that of `IndexRace`. `Control` states what
survives that race. `CandidatesAreMonitored` likewise holds where no other thread
creates pairs while a status is taken.

### Fairness

`SelfTeardown` uses `FairSpec`: weak fairness of every thread's continuation of
its call. Neither mutex is held across a blocking call, every critical section
is bounded, and the FreeRTOS scheduler is preemptive with time slicing, so a
thread inside a call runs on, unless it is deleted, when nothing of its call is
enabled any more. No fairness is assumed of beginning a call. A task with a
lower priority than one that never blocks is outside this assumption; no call
of the manager busy-waits.

`ExchangeSpec` assumes the same of the bodies: weak fairness of each body's next
step, which is disabled while it waits for a message or for the mutex. The
application's call has strong fairness of its continuation: it may wait for the
mutex while the bodies take and give it over and over, and FreeRTOS wakes it when
the mutex is given. No fairness is assumed of filling a specification, of creating
or of destroying. A client's request is a step of its body and so is taken in
`ExchangeSpec`; `RequestReply` asks for less: it lets a client stop asking, but an
answer to what it asked is owed, and is owed to be taken.

## 4. Proofs

`TaskManagerProofs` proves, for every value of the constants that satisfies the
named assumptions (`ConfigAssumption`, `RegistryAssumption`, `ManagerAssumption`),
so for any number of threads, entries, slots, handles, any kinds, faults and
calls:

- `TypesHold`: `Spec => []TypeOK`;
- `SlotsArePartitioned`: `Spec => []FreeListPartition`;
- `CountIsExact`: `Spec => []CountMatchesActive`: the store's own counter, which only
  its decrement reads, is what `get_num_monitored_tasks` would count.

The argument is one inductive invariant, `IInv`: the registry's types and
partition (`RegistryInv`), the store's types and count (`MonitorInv`), the
kernel's types (`KernelInv`), and `CallInv`. None of the properties is inductive
alone. A release needs a slot that is a slot, recording needs an entry that is an
entry, so the program counter must say what the locals are (`WellShaped`). The
loser of the race for an entry ends the call of the task it deletes, so that task
must not be the loser itself: the thread that builds a pair is always an
application thread. The partition rests on the types, because the free list is a
sequence of slots; the count rests on the second check of the entry in
`RecordTask`.

`StoreProofs` shows of each critical section of the registry and of the store that
it preserves its half;
`TaskManagerProofs` has one lemma per action, which adds what becomes of the
call. The counting lemmas use the cardinality theorems of the library.

### Ownership

`OwnershipProofs` proves, for any number of threads, slots, entries and handles and
any faults, that tasks, queues and entries have one holder (`TasksAreHeldOnce`,
`QueuesAreHeldOnce`, `EntriesAreHeldOnce`), that a live task has its queues
(`QueuesOutliveTasks`), that a slot has one worker (`SlotsHaveOneWorker`) and that a
built pair is linked both ways (`BuiltPairsAreLinked`).

None of this holds of the code alone. Its mutexes protect single accesses; that
nobody takes a pair apart while somebody else is at work on it is left to the
callers, and `DoubleDestroy` and `IndexRace` show what happens otherwise. The
proofs therefore have two layers.

1. `TakesUndisturbed` is what the callers owe: whoever is about to enter the
   critical section of `edge_task_pair_destroy` on a pair not marked CLEANING finds
   no other thread engaged on the slot, and a task that enters is still in the
   record. `UndisturbedPairsAreSound` proves the six properties from it.
   `[]TakesUndisturbed` is its only hypothesis about the callers, besides that they
   do not call what clears fields it does not hold (`remove`, `release`, `init`;
   `AnyCalls` checks what those leave true).
2. `ApartIsUndisturbed` proves `TakesUndisturbed` for each of the three disciplines
   of `CallersKeepApart`: threads destroy by pointer only pairs they created
   (`OwnersOnly`, the run `Owners`); only a pair's own tasks destroy it, both at the
   same time if they like (`TasksOnly`, the run `SelfTeardown`); one thread destroys
   anything, by pointers of its own or stale ones or by any index (`OneCallerOnly`,
   the run `Lifecycle`).

The inductive invariant is `OwnInv` of `Ownership`. The one-holder properties count
holders, which is not what a step changes, so `HeldOnce` speaks of places: two
fields of each record and three locals of each thread. Every live object is in
exactly one place, and what is in a place is alive. The indices of a record do not
count between `reserve_pair_runtime` and the storing of -1 (`Unindexed`), when they
hold the zeroes that `IndexRace` trips over. A step touches the places of one call
and of its slot, so a few lemmas about those five places (`Contents`, `Apart`) serve
every action. They need that the others stand still, and that it is known what a
call has done: `CallsShaped` says what the locals hold at each program counter,
`WorkShaped` what is in the record when creation, roll-back or teardown has come
that far, `OneEngaged` that a slot with a worker, or with an application thread in
its client half, has no second one, and `MarkedIsWorked` that a mark other than
READY has somebody behind it. `TasksFed` relates a task's queues to the place the
task is in, which makes `NoTaskOutlivesItsQueues` inductive. `PairsLinked` states the
linkage for every pair nobody is at work on, and half of it between the two critical
sections that establish it. For `OwnersOnly`, `PointersOwn` adds that the pairs in a
thread's hands are complete and in nobody else's.

The table of pairs. `TableProofs` proves `PairsKeepTable`: `Spec => KeepsTable` when
callers keep apart, where `KeepsTable` is `PairTable` with the pair in slot `s` read
from the record, the kernel and the store together (`PairIn`): the tasks of the record
that live, its entries that are active, its queues that exist. While a thread creates a
pair, rolls it back or tears all of it down, the mapping shows none (`Shown`). So the
creation of a pair is at least ten steps that stutter (reservation, queues, identifier,
tasks, entries, indices) and then one `Publish` of a pair that has both its queues, its
client half and its server half or none, and shares nothing with another pair; the
critical section of
`edge_task_pair_destroy` is a `Withdraw`, or a `RetireClient` when it takes the client
half alone; everything else leaves the table as it is. A half whose task lives and whose
entry is lost, or the other way round, is no half, so the table would not be kept. The
mapping is no claim that a lookup cannot find a record in between: `IndexRace` shows
that it can, and such callers are outside `CallersKeepApart`.

The invariant behind it, next to `OwnInv`, is `TableInv`: what is shown has a queue each
way and names a task exactly with its entry (`Sound`), and a creation has stored what its
program counter has passed (`Stored`). One lemma per kind of step says what it `Does`: it
touches no slot but the thread's own (`Framed`), and what is shown of that one stays,
appears, goes or loses its client (`Changes`). `DoesShow` takes that to the table: by
`OwnInv` whatever a shown record names is alive (`ShownIsNamed`) and in no other record
(`RecordsUnshared`).

`ManagerAssumption` says that application threads are neither edge tasks nor the
null handle: the proof compares the calling task with the handles in a record, as
`task_manager.c:1120-1124` does, and a caller that is no edge task differs from all.

### Controller and facade

`OffloaderProofs` proves of the composition, under `PolicyAssumption` and
`OffloaderAssumption` as well, for every policy, mode and set of opinions:

- `ManagerIsUndisturbed`: `ControlSpec => Spec`. Every behaviour with a controller
  is one of the manager alone, so the theorems above carry over;
- `ControlTypesHold`: `ControlSpec => []ControlTypeOK`, in which the vector of
  candidates is never longer than the table nor read past its end;
- `RoutesNeedPairs`: `ControlSpec => []NoRouteWithoutPair`;
- `RejectionIsClean`: `ControlSpec => RejectedBatchChangesNothing`.

The invariant is `ControlInv`, next to `IInv`. `RouteInv` are the types of labels
and sites with `NoRouteWithoutPair`, which needs that a setter writes only to what
it has just found active or in use. `CycleInv` adds to the types of the cycle
three facts. `Buffered`: while scanning, there are at most as many candidates as
indices already scanned, which bounds the vector. `Validated`: a candidate that is
applied has a route and not a refusal or an invalid answer, in batch mode all
from the current one on, so only routes are ever stored. `Unwritten`: before
application has begun, and so whenever a batch can be rejected or found invalid,
nothing has been written.

Three results relate a cycle to pairs that come and go under it:

- `NewRecordsAreUnrouted`: `ControlSpec => []NewRecordIsUnrouted` when callers keep
  apart. By `OwnInv` the record of a pair whose client is under construction is its
  builder's and has no index, so no lookup of the controller finds it;
- `ReportsHold`: `ControlSpec => []ReportedRouteHolds`, with no hypothesis on calls or
  policies. `ReportInv` adds `LabelWritten`: between the two setters the entry has the
  label just written, or is inactive or a new pair's;
- `MalformedStayUnrouted`: `ControlSpec => MalformedIsNeverRouted` when the built-in
  policies decide (`BuiltInDecides`: an application's policy routes nothing) and one
  thread creates and routes (`SoleCaller`). A client is malformed for a policy, not in
  itself (`Malformed`): one without a WCET for fixed priority, one without a period for
  rate monotonic, and each may have a route the other policy gave it. So the property
  is about steps: while a policy is in force, none moves such a client. `SoleCaller` is
  needed: with a controller in a thread of its own, advice taken on one client may be
  applied to a malformed one created meanwhile under the same index, and TLC finds
  that when `Control` is given the default policies and both a client with a WCET and
  one without. `AdviceInv` says of every advice and decision in the cycle that it is no
  route if its index is now a malformed client's;
- `RoutesStayTogether`: `ControlSpec => []RoutesAgree` under `SoleCaller` and when callers
  keep apart. The label of an entry and the label of its record are stored in two
  critical sections, the execution site in a third, and each looks up its target by
  an index. `PairInv` says of every pair that has a client's entry that the three agree,
  unless the controller is writing to that index (`PairsRouted`); that no server's entry
  is a client's (`ServersApart`) and every candidate's index is, if it is active
  (`CandidatesAreClients`), so a route never reaches a server; and that what a creator
  has just recorded still has its own labels (`NewOwn`). That the entry and the record
  found under one index belong to one pair is `OwnInv`: an entry has one holder. Both
  hypotheses are needed. With a controller in a thread of its own, as in `Control`, TLC
  finds `RoutesAgree` violated in 25 steps, as section 3 says: the lookup of index 0
  finds a record that is reserved and still zero.

`FacadeProofs` proves of the facade, for every set of configurations and every set
of calls:

- `CopiesAgree`: `FacadeSpec => []ControllerFollowsRuntime`;
- `BaseInvariantHolds`: the invariants of the manager and of the controller hold under
  the facade;
- `FacadeImplementsController`: when all calls and configurations are allowed to the
  layers below (`AllConfigurations`), `FacadeSpec => ControlSpec`: a start is a restart
  of the manager and an initialisation or a shutdown of the controller;
- `DiagnosticsAreComplete`: `FacadeSpec => []DiagnosticsCountRoutes`, for any number of
  clients;
- `DiagnosticsHold`: `FacadeSpec => []ReportedRouteHolds`;
- `PoliciesFailClosed`: `FacadeSpec => MalformedIsNeverRouted`, under `SoleCaller` and
  `BuiltInDecides`, across restarts with either scheduler;
- `StatusIsConsistent`: `FacadeSpec => []CandidatesAreMonitored`, under `SoleCaller`;
- `FacadeTypesHold`: `FacadeSpec => []FacadeTypeOK`;
- `RoutesHoldThroughRestarts`: `FacadeSpec => []RoutesAgree`, under `SoleCaller` and when
  callers keep apart. A start is no step that keeps `OwnInv` (it clears the store in one
  critical section and the registry in the next), so `RestartInv` is `OwnInv`, `ApartInv`
  and `PairInv` outside a restart, and `Cleared` in the middle of one: an application that
  restarts the runtime when its pairs are gone (`Tidy`) leaves no queue, no call and no
  entry either, nobody else can begin a call, and the restart ends where `Init` begins.

`CopiesInv` says what has to be true for the copies to agree: a start hands on a
valid configuration whose policy is resolved (`StartInv`), the facade's policy is
resolved (`ResolvedInv`), and a cycle is in progress only while an enabled runtime
runs and no call of the facade is (`ExclusionInv`). `CountInv` adds what a count of
events needs: a start finds no routes; a label being applied is either the route
of the candidate or no route at all, which a teardown between the two setters can
leave; and a label that was written to the record alone is no route in any entry.
`StatusInv` adds up the candidates counted and the entries still to be scanned: while
the only thread that creates pairs asks for a status, entries are only cleared.

`ExchangeProofs` proves every safety property of `PairExchange` that `Exchange` checks,
`ClientsAreCandidates` under `NamesFit`, for every specification, depth, name limit, window and
set of faults, and `ExchangeTakesTurns`: `ExchangeSpec => Promise!TurnSafety`. The
invariant `ExchangeInv` has three parts. The shape of the call (`CallShape`,
`CreateShape`, `DestroyShape`) says what is in the record and in the locals at each
step. The holders (`TasksAreHeld`, `QueuesAreHeld`, `EntriesAreHeld`) say that every task,
queue and entry is named by the record or by the call, which is why a roll-back
leaves nothing. `BodiesHaveQueues` and `Conversation` say where the one message can be:
`OneInFlight` while the client waits, none before and after, and its value that of
the client's last request (`Carried`). None in flight when the server is created is
what makes it irrelevant that client and server start one after the other.
`NamesThatFit` states which entries of a pair are taken for clients, for every name
and limit: the client's when there is room for its `-cl-` or for one in the name
itself, the server's exactly in the latter case; and when the two names differ.
`ClientsAreFound` takes the client's half to the record of a built pair, whose name
has been one of those since the specification was filled (`NameInv`).

`MeasurementProofs` proves, for every word size, that the board port's difference of
cycle counters is exact across a wrap (`PortDeltaIsExact`), that the manager's own is
0 after one (`ManagerDeltaLosesWraps`, against `task_manager.c:833`), what a measurement
adds up to for any two readings, wrapped counters and overflowing sums included
(`CostIsSum`), and what a conversion to milliseconds returns
(`MillisecondsAreExact`).

Model-checked only. Every safety property of the passing runs is stated by a theorem.
Liveness (`CleanedSlotIsReleased`, `CallsReturn`, the liveness of `KeepsPromise`) is
out of the prover's reach and stays with TLC.

## 5. Not modelled

- Lookup by name (`find_task_index`), which adds one more unlocked lookup before
  a destroy by index.
- Creation of the mutexes (`ensure_initialized`, `runtime_registry_init`): the
  model starts when they exist.
- In `TaskManager`, deletion of a task inside a critical section, which are single
  steps there; `PairExchange` has the store's mutex taken and given by the bodies.
  The registry's mutex is never held by a body.
- A task deleted by a roll-back while it tears down its own pair: tasks wait until
  their creation has returned.
- Use of freed memory: `task_manager_init` frees the chunks, and the model keeps
  the bytes of a freed record as they were.
- The values of metrics and signals: they are stored and read back by getters;
  nothing decides on a signal, and `check_self_suspend` never suspends because no
  code stores a signal other than `SIGNAL_WAIT`.
- Priorities, cores, weights, and the getters of the record; task information of
  the port and its formatting; `eaPort_Task_Delay`, suspend and resume; finite time
  limits, which no caller uses.
- Division by zero in `cpu_cycles_to_ms` when the clock reports 0, for which
  `eaPort_Cycles_to_ms` has a test of its own: `Measurement` leaves it undefined.
- Of the controller: the fields of failure events; `edge_offloader_apply_result`
  called directly by an application; NULL arguments; initialisation or shutdown by
  another thread in the middle of a cycle (nothing protects `g_offloader_state`; one
  thread is assumed to drive it, as the examples do).
- The main functions of the examples, which call what is modelled in one order;
  the board tests, templates and build files, which hold no program logic.

## 6. Plan

In order:

1. *(done)* registry, store, creation and teardown; their first theorems.
2. *(done)* `OffloaderPolicy`, `Offloader`: policies, cycles, application of a route
   over pairs that come and go; their theorems.
3. *(done)* `RuntimeFacade`: start, stop, restart, run_once, status over the two; its
   theorems.
4. *(done)* `TaskSpec`, `PairExchange`: one pair from its specification to its teardown,
   with running bodies; `RequestReply` as its abstract specification; safety and
   refinement proved.
5. *(done)* `Ownership`: one holder of every task, queue and entry, one worker of
   every slot, under the disciplines of the callers; the properties of routes,
   reports and status.
6. *(done)* `OwnInv` under `FacadeSpec`, and `RoutesAgree` from it.
7. *(done)* `PairTable`, the abstract table of pairs that `TaskManager` implements when
   callers keep apart, by `OwnInv`.
8. Direct application of a result; lookup by name; lazy creation of the mutexes.
