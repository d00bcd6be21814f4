------------------------------ MODULE PairTable ------------------------------
(***************************************************************************)
(* What the task manager promises about pairs: each is created at one      *)
(* stroke, complete and of nothing another pair uses, may lose its client  *)
(* half while it has a server half, and is torn down at one stroke.  How   *)
(* many steps that takes, and which other threads run between them, is not *)
(* said.                                                                   *)
(***************************************************************************)
CONSTANTS Slots,        \* where a pair may be kept
          TaskHandles,
          QueueHandles,
          Indices       \* monitor entries

VARIABLE pairs          \* the pair in each slot

\* A half of a pair is a task and the entry it is monitored under.
NoHalf == [task |-> {}, entry |-> {}]
Halves == [task : {{h} : h \in TaskHandles}, entry : {{i} : i \in Indices}]

NoPair == [client |-> NoHalf, server |-> NoHalf, queues |-> {}]

TasksOf(p) == p.client.task \cup p.server.task
EntriesOf(p) == p.client.entry \cup p.server.entry

\* A pair that has all it needs: a client half, a server half of its own or none,
\* and a queue in each direction.
IsWhole(p) ==
    /\ DOMAIN p = {"client", "server", "queues"}
    /\ p.client \in Halves
    /\ p.server \in Halves \cup {NoHalf}
    /\ p.client.task \cap p.server.task = {}
    /\ p.client.entry \cap p.server.entry = {}
    /\ \E q, r \in QueueHandles : q # r /\ p.queues = {q, r}

\* The pairs p and q share nothing.
Disjoint(p, q) ==
    /\ TasksOf(p) \cap TasksOf(q) = {}
    /\ EntriesOf(p) \cap EntriesOf(q) = {}
    /\ p.queues \cap q.queues = {}

-----------------------------------------------------------------------------
Publish(s) ==
    /\ pairs[s] = NoPair
    /\ IsWhole(pairs'[s])
    /\ \A x \in Slots \ {s} : Disjoint(pairs'[s], pairs[x])
    /\ pairs' = [pairs EXCEPT ![s] = pairs'[s]]

\* The client half goes, and the server half stays with the queues.
RetireClient(s) ==
    /\ NoHalf \notin {pairs[s].client, pairs[s].server}
    /\ pairs' = [pairs EXCEPT ![s].client = NoHalf]

\* What is left of a pair goes at once.
Withdraw(s) ==
    /\ pairs[s] # NoPair
    /\ pairs' = [pairs EXCEPT ![s] = NoPair]

TableInit == pairs = [s \in Slots |-> NoPair]

TableNext == \E s \in Slots : Publish(s) \/ RetireClient(s) \/ Withdraw(s)

TableSpec == TableInit /\ [][TableNext]_pairs
=============================================================================
