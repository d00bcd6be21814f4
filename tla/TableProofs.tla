----------------------------- MODULE TableProofs -----------------------------
(***************************************************************************)
(* For every number of threads, tasks, queues and slots: threads that keep *)
(* apart create and tear down pairs as PairTable has it, in one step each. *)
(*                                                                         *)
(* A step of a thread touches the record of one slot (Framed), so what the *)
(* others see of every other slot stays (ShownElsewhere).  Of that slot    *)
(* they see nothing while the thread works on the whole pair, so only the  *)
(* steps that begin and end such work change the table (Changes).          *)
(***************************************************************************)
EXTENDS OwnershipProofs

-----------------------------------------------------------------------------
(* What is shown, and what a creation has stored so far.                   *)

\* A record with a queue in each direction, in which a task is named together
\* with its entry.
Sound(r) ==
    /\ NoHandle \notin {r.queue_client_server, r.queue_server_client}
    /\ r.HandlerClient = NoHandle <=> r.client_index = NoIndex
    /\ r.HandlerServer = NoHandle <=> r.server_index = NoIndex

\* What the creation with the locals c has come to is in its record r.
Stored(c, r) ==
    /\ c.pc \notin {"init", "queue1"} => r.queue_client_server # NoHandle
    /\ c.pc \notin {"init", "queue1", "queue2"} => r.queue_server_client # NoHandle
    /\ c.pc \in {"record", "lose", "handle"} => c.task # NoHandle
    /\ c.seg = "server" \/ c.pc \in {"index", "link"} => r.HandlerClient # NoHandle
    /\ c.seg = "server" \/ c.pc = "link" => r.client_index # NoIndex
    /\ c.seg = "server" =>
          /\ c.pc \in {"index", "link", "linkPeer"} => r.HandlerServer # NoHandle
          /\ c.pc \in {"link", "linkPeer"} => r.server_index # NoIndex

TableInv ==
    /\ \A s \in Slots : Shown(s) = Nothing \/ Sound(Shown(s))
    /\ \A t \in Threads : call[t].pc \in CreatePcs => Stored(call[t], Built(t))

-----------------------------------------------------------------------------
(* A step seen by the other threads.                                       *)

\* The step of thread t leaves the other calls alone, and of the slots touches
\* none but a, the one t is at work on before and after.
Framed(t, a) ==
    /\ \A u \in Threads \ {t} : call'[u] = call[u]
    /\ \A x \in Slots \ {a} : x \in inUse' <=> x \in inUse
    /\ \A x \in inUse \ {a} : runtime'[x] = runtime[x]
    /\ Works(call[t]) => call[t].slot = a
    /\ Works(call'[t]) => call'[t].slot = a

WithoutClient(r) == [r EXCEPT !.HandlerClient = NoHandle, !.client_index = NoIndex]

\* What is shown of slot a becomes another record: nothing changes, a pair
\* appears, a pair goes, or its client half does.
Changes(old, new) ==
    \/ new = old
    \/ old = Nothing /\ Sound(new) /\ new.HandlerClient # NoHandle
    \/ Sound(old) /\ new = Nothing
    \/ Sound(old) /\ old.HandlerServer # NoHandle /\ new = WithoutClient(old)

Does(t, a) ==
    /\ Framed(t, a)
    /\ Alone(t, a) \/ runtime'[a] = runtime[a]
    /\ Changes(Shown(a), Shown(a)')
    /\ call'[t].pc \in CreatePcs => Stored(call'[t], runtime'[a])

\* WorksOn is what Works says of the locals of a thread.
LEMMA WorksOnIsWorks ==
  \A t \in Threads : WorksOn(t) <=> Works(call[t])
BY DEF WorksOn, Works, WorkingPcs

\* Nothing is shown of a slot that is free or worked on; otherwise its record is,
\* with its indices.
LEMMA ShownRead ==
  ASSUME NEW s \in Slots
  PROVE  /\ s \notin inUse => Shown(s) = Nothing
         /\ \A t \in Threads : Works(call[t]) /\ call[t].slot = s => Shown(s) = Nothing
         /\ s \in inUse /\ (\A t \in Threads : Works(call[t]) => call[t].slot # s)
               => Shown(s) = runtime[s]
         /\ Shown(s) = Nothing \/ Shown(s) = Records[s]
<1>1. \A t \in Threads : WorksOn(t) <=> Works(call[t])
  BY WorksOnIsWorks
<1>2. \A t \in Threads : Unindexed(call[t]) => Works(call[t])
  BY WorkersAreEngaged
<1>3. s \in inUse /\ (\A t \in Threads : call[t].slot = s => ~Works(call[t]))
         => Records[s] = runtime[s]
  BY <1>2 DEF Records, RecordOf
<1> QED
  BY <1>1, <1>3 DEF Shown

\* What is shown of the other slots stays.
LEMMA ShownElsewhere ==
  ASSUME NEW t \in Threads, NEW a \in Slots, Framed(t, a)
  PROVE  \A x \in Slots \ {a} : Shown(x)' = Shown(x)
<1> SUFFICES ASSUME NEW x \in Slots \ {a} PROVE Shown(x)' = Shown(x)
  OBVIOUS
<1>1. /\ \A u \in Threads : WorksOn(u) <=> Works(call[u])
      /\ \A u \in Threads : WorksOn(u)' <=> Works(call'[u])
  BY DEF WorksOn, Works, WorkingPcs
<1>2. \A u \in Threads : (call'[u].slot = x => ~WorksOn(u)')
                            <=> (call[u].slot = x => ~WorksOn(u))
  BY <1>1 DEF Framed
<1>3. (\A u \in Threads : call[u].slot = x => ~WorksOn(u))'
         <=> (\A u \in Threads : call[u].slot = x => ~WorksOn(u))
  BY <1>2
<1>4. (x \in inUse' <=> x \in inUse) /\ (x \in inUse => runtime'[x] = runtime[x])
  BY DEF Framed
<1> QED
  BY <1>3, <1>4 DEF Shown

\* Such a step keeps what is shown sound and what is built on record.
LEMMA DoesKeeps ==
  ASSUME IInv, OwnInv, OwnInv', TableInv, NEW t \in Threads, NEW a \in Slots, Does(t, a)
  PROVE  TableInv'
<1>1. Framed(t, a)
  BY DEF Does
<1>2. ASSUME NEW s \in Slots PROVE (Shown(s) = Nothing \/ Sound(Shown(s)))'
  <2>1. Shown(s) = Nothing \/ Sound(Shown(s))
    BY DEF TableInv
  <2>2. CASE s # a
    BY <1>1, <2>1, <2>2, ShownElsewhere DEF Sound
  <2>3. CASE s = a
    <3>1. ASSUME NEW r, Sound(r), r.HandlerServer # NoHandle
          PROVE  Sound(WithoutClient(r))
      BY <3>1 DEF Sound, WithoutClient
    <3>2. Shown(s)' = Nothing \/ Sound(Shown(s)')
      BY <2>1, <2>3, <3>1 DEF Does, Changes
    <3> QED
      BY <3>2 DEF Sound
  <2> QED
    BY <2>2, <2>3
<1>3. ASSUME NEW u \in Threads, call'[u].pc \in CreatePcs
      PROVE  Stored(call'[u], runtime'[call'[u].slot])
  <2>1. CASE u = t
    <3>1. Works(call'[t])
      BY <1>3, <2>1 DEF Works, WorkingPcs
    <3> QED
      BY <1>1, <1>3, <2>1, <3>1 DEF Does, Framed
  <2>2. CASE u # t
    <3>1. call'[u] = call[u] /\ Works(call[u]) /\ call[u].pc \in CreatePcs
      BY <1>1, <1>3, <2>2 DEF Framed, Works, WorkingPcs
    <3>2. /\ Stored(call[u], runtime[call[u].slot])
          /\ call[u].slot \in inUse /\ Engaged(u, call[u])
      BY <3>1, WorkerKnows, WorkersAreEngaged DEF TableInv, Built
    <3>3. runtime'[call[u].slot] = runtime[call[u].slot]
      BY <1>1, <2>2, <3>2 DEF Does, Framed, Alone
    <3> QED
      BY <3>1, <3>2, <3>3
  <2> QED
    BY <2>1, <2>2
<1> QED
  BY <1>2, <1>3 DEF TableInv, Built

-----------------------------------------------------------------------------
(* The table that is shown.                                                *)

Shows == [s \in Slots |-> PairIn(s)]

\* A half and a pair, of a record whose tasks, queues and entries are alive.
HalfNamed(h, i) == [task |-> {h} \ {NoHandle}, entry |-> {i} \ {NoIndex}]

PairNamed(r) ==
    [client |-> HalfNamed(r.HandlerClient, r.client_index),
     server |-> HalfNamed(r.HandlerServer, r.server_index),
     queues |-> {r.queue_client_server, r.queue_server_client} \ {NoHandle}]

\* The two records share no task, queue or entry.
Unshared(r1, r2) ==
    /\ \A h \in {r1.HandlerClient, r1.HandlerServer} :
          h \in {r2.HandlerClient, r2.HandlerServer} => h = NoHandle
    /\ \A q \in {r1.queue_client_server, r1.queue_server_client} :
          q \in {r2.queue_client_server, r2.queue_server_client} => q = NoHandle
    /\ \A i \in {r1.client_index, r1.server_index} :
          i \in {r2.client_index, r2.server_index} => i = NoIndex

\* No task, queue or entry is in two fields of the record.
Distinct(r) ==
    /\ r.HandlerClient = r.HandlerServer => r.HandlerClient = NoHandle
    /\ r.queue_client_server = r.queue_server_client => r.queue_client_server = NoHandle
    /\ r.client_index = r.server_index => r.client_index = NoIndex

\* The records of two slots share nothing, and each names a thing once.
LEMMA RecordsUnshared ==
  ASSUME OwnInv, NEW s \in Slots
  PROVE  /\ Distinct(Records[s])
         /\ \A x \in Slots \ {s} : Unshared(Records[s], Records[x])
<1> DEFINE tlocs == [u \in Threads |-> CallTasks(call[u])]
           qlocs == [u \in Threads |-> CallQueues(call[u])]
           elocs == [u \in Threads |-> CallEntries(call[u])]
           trecs == [x \in Slots |-> RecordTasks(Records[x])]
           qrecs == [x \in Slots |-> RecordQueues(Records[x])]
           erecs == [x \in Slots |-> RecordEntries(Records[x])]
<1>1. /\ HeldOnce(trecs, tlocs, LiveTasks, NoHandle)
      /\ HeldOnce(qrecs, qlocs, liveQueues, NoHandle)
      /\ HeldOnce(erecs, elocs, Active, NoIndex)
  BY DEF OwnInv, TasksHeld, QueuesHeld, EntriesHeld
<1>2. \A x \in Slots : /\ trecs[x] = RecordTasks(Records[x])
                       /\ qrecs[x] = RecordQueues(Records[x])
                       /\ erecs[x] = RecordEntries(Records[x])
  OBVIOUS
<1> HIDE DEF tlocs, qlocs, elocs, trecs, qrecs, erecs
<1>3. ASSUME NEW x \in Slots, NEW j \in 1..2, NEW k \in 1..2
      PROVE  /\ trecs[s][j] = trecs[x][k] /\ trecs[s][j] # NoHandle => s = x /\ j = k
             /\ qrecs[s][j] = qrecs[x][k] /\ qrecs[s][j] # NoHandle => s = x /\ j = k
             /\ erecs[s][j] = erecs[x][k] /\ erecs[s][j] # NoIndex => s = x /\ j = k
  BY <1>1, SlotsApart
<1>4. 1 \in 1..2 /\ 2 \in 1..2
  OBVIOUS
<1>5. ASSUME NEW x \in Slots
      PROVE  /\ trecs[x][1] = Records[x].HandlerClient
             /\ trecs[x][2] = Records[x].HandlerServer
             /\ qrecs[x][1] = Records[x].queue_client_server
             /\ qrecs[x][2] = Records[x].queue_server_client
             /\ erecs[x][1] = Records[x].client_index
             /\ erecs[x][2] = Records[x].server_index
  BY <1>2 DEF RecordTasks, RecordQueues, RecordEntries
<1>6. Distinct(Records[s])
  BY <1>3, <1>4, <1>5 DEF Distinct
<1>7. ASSUME NEW x \in Slots \ {s} PROVE Unshared(Records[s], Records[x])
  BY <1>3, <1>4, <1>5 DEF Unshared
<1> QED
  BY <1>6, <1>7

\* What is shown of a slot is alive, distinct, and shared with no other slot.
NamedIn(s) ==
    /\ Shown(s) \in Runtime
    /\ PairIn(s) = PairNamed(Shown(s))
    /\ Distinct(Shown(s))
    /\ \A x \in Slots \ {s} : Unshared(Shown(s), Shown(x))

Named == \A s \in Slots : NamedIn(s)

\* So it is of every slot.
LEMMA ShownIsNamed == IInv /\ OwnInv => Named
<1> SUFFICES ASSUME IInv, OwnInv, NEW s \in Slots PROVE NamedIn(s)
  BY DEF Named
<1>1. /\ Shown(s) = Nothing \/ Shown(s) = Records[s]
      /\ \A x \in Slots : Shown(x) = Nothing \/ Shown(x) = Records[x]
  BY ShownRead
<1>2. IsEmpty(Nothing) /\ Nothing \in Runtime /\ Records \in [Slots -> Runtime]
  BY Blank, Typed
<1>3. Shown(s) \in Runtime
  BY <1>1, <1>2
<1>4. /\ {Shown(s).HandlerClient, Shown(s).HandlerServer} \subseteq LiveTasks \cup {NoHandle}
      /\ {Shown(s).queue_client_server, Shown(s).queue_server_client}
            \subseteq liveQueues \cup {NoHandle}
      /\ {Shown(s).client_index, Shown(s).server_index} \subseteq Active \cup {NoIndex}
  <2>1. CASE Shown(s) = Nothing
    BY <1>2, <2>1 DEF IsEmpty
  <2>2. CASE Shown(s) = Records[s]
    <3> DEFINE recs1 == [x \in Slots |-> RecordTasks(Records[x])]
               recs2 == [x \in Slots |-> RecordQueues(Records[x])]
               recs3 == [x \in Slots |-> RecordEntries(Records[x])]
    <3>1. \A j \in 1..2 : <<"slot", s, j>> \in Places
      BY DEF Places
    <3>2. \A recs, locs : \A j \in 1..2 :
             Content(recs, locs, <<"slot", s, j>>) = recs[s][j]
      BY DEF Content
    <3>3. ASSUME NEW recs, NEW locs, NEW live, NEW none, HeldOnce(recs, locs, live, none)
          PROVE  {recs[s][1], recs[s][2]} \subseteq live \cup {none}
      BY <3>1, <3>2, <3>3 DEF HeldOnce
    <3>4. /\ {recs1[s][1], recs1[s][2]} \subseteq LiveTasks \cup {NoHandle}
          /\ {recs2[s][1], recs2[s][2]} \subseteq liveQueues \cup {NoHandle}
          /\ {recs3[s][1], recs3[s][2]} \subseteq Active \cup {NoIndex}
      <4> HIDE DEF recs1, recs2, recs3
      <4> QED
        BY <3>3 DEF OwnInv, TasksHeld, QueuesHeld, EntriesHeld, recs1, recs2, recs3
    <3> QED
      BY <2>2, <3>4 DEF RecordTasks, RecordQueues, RecordEntries
  <2> QED
    BY <1>1, <2>1, <2>2
<1>5. NoHandle \notin LiveTasks /\ NoHandle \notin liveQueues /\ NoIndex \notin Active
  BY Typed
<1>6. PairIn(s) = PairNamed(Shown(s))
  <2> DEFINE r == Shown(s)
  <2>1. /\ {r.HandlerClient} \cap LiveTasks = {r.HandlerClient} \ {NoHandle}
        /\ {r.HandlerServer} \cap LiveTasks = {r.HandlerServer} \ {NoHandle}
        /\ {r.client_index} \cap Active = {r.client_index} \ {NoIndex}
        /\ {r.server_index} \cap Active = {r.server_index} \ {NoIndex}
        /\ {r.queue_client_server, r.queue_server_client} \cap liveQueues
              = {r.queue_client_server, r.queue_server_client} \ {NoHandle}
    BY <1>4, <1>5
  <2> HIDE DEF r
  <2> QED
    BY <2>1 DEF r, PairIn, PairNamed, HalfOf, HalfNamed
<1>7. Distinct(Shown(s))
  BY <1>1, <1>2, RecordsUnshared DEF IsEmpty, Distinct
<1>8. ASSUME NEW x \in Slots \ {s} PROVE Unshared(Shown(s), Shown(x))
  <2>1. Unshared(Records[s], Records[x])
    BY RecordsUnshared
  <2>2. \A r : Unshared(Nothing, r) /\ Unshared(r, Nothing)
    BY <1>2 DEF IsEmpty, Unshared
  <2> QED
    BY <1>1, <2>1, <2>2
<1> QED
  BY <1>3, <1>6, <1>7, <1>8 DEF NamedIn

\* Records that share nothing name disjoint pairs.
LEMMA UnsharedIsDisjoint ==
  ASSUME NEW r1, NEW r2, Unshared(r1, r2)
  PROVE  Table!Disjoint(PairNamed(r1), PairNamed(r2))
BY DEF Unshared, Table!Disjoint, Table!TasksOf, Table!EntriesOf, PairNamed, HalfNamed

\* A sound record with a client names a whole pair.
LEMMA SoundIsWhole ==
  ASSUME IInv, NEW r \in Runtime, Sound(r), Distinct(r), r.HandlerClient # NoHandle
  PROVE  Table!IsWhole(PairNamed(r))
<1>1. NoHandle \notin TaskHandles /\ NoHandle \notin QueueHandles /\ NoIndex \notin Indices
  BY Typed
<1>2. /\ r.HandlerClient \in TaskHandles /\ r.client_index \in Indices
      /\ r.HandlerServer \in TaskHandles \cup {NoHandle}
      /\ r.server_index \in Indices \cup {NoIndex}
      /\ r.queue_client_server \in QueueHandles /\ r.queue_server_client \in QueueHandles
      /\ r.queue_client_server # r.queue_server_client
  BY DEF Sound, Distinct, Runtime, MaybeIndex
<1> DEFINE p == PairNamed(r)
<1>3. DOMAIN p = {"client", "server", "queues"}
  BY DEF PairNamed
<1>4. /\ p.client = [task |-> {r.HandlerClient}, entry |-> {r.client_index}]
      /\ p.queues = {r.queue_client_server, r.queue_server_client}
  BY <1>1, <1>2 DEF PairNamed, HalfNamed
<1>5. p.server = IF r.HandlerServer = NoHandle THEN Table!NoHalf
                 ELSE [task |-> {r.HandlerServer}, entry |-> {r.server_index}]
  <2>1. p.server = [task |-> {r.HandlerServer} \ {NoHandle},
                    entry |-> {r.server_index} \ {NoIndex}]
    BY DEF PairNamed, HalfNamed
  <2>2. CASE r.HandlerServer = NoHandle
    BY <2>1, <2>2 DEF Sound, Table!NoHalf
  <2>3. CASE r.HandlerServer # NoHandle
    BY <2>1, <2>3 DEF Sound
  <2> QED
    BY <2>2, <2>3
<1>6. \A h \in TaskHandles, i \in Indices : [task |-> {h}, entry |-> {i}] \in Table!Halves
  BY DEF Table!Halves
<1> HIDE DEF p
<1>7. p.client \in Table!Halves /\ p.server \in Table!Halves \cup {Table!NoHalf}
  BY <1>2, <1>4, <1>5, <1>6 DEF Sound
<1>8. p.client.task \cap p.server.task = {} /\ p.client.entry \cap p.server.entry = {}
  BY <1>2, <1>4, <1>5 DEF Distinct, Sound, Table!NoHalf
<1> QED
  BY <1>2, <1>3, <1>4, <1>7, <1>8 DEF Table!IsWhole, p

\* Nothing names no pair, and a sound record names one.
LEMMA NamesNoPair ==
  /\ PairNamed(Nothing) = Table!NoPair
  /\ \A r : Sound(r) => PairNamed(r) # Table!NoPair
<1>1. IsEmpty(Nothing)
  BY Blank
<1>2. PairNamed(Nothing) = Table!NoPair
  <2>1. {NoHandle} \ {NoHandle} = {} /\ {NoIndex} \ {NoIndex} = {}
        /\ {NoHandle, NoHandle} \ {NoHandle} = {}
    OBVIOUS
  <2>2. PairNamed(Nothing) =
          [client |-> [task |-> {NoHandle} \ {NoHandle}, entry |-> {NoIndex} \ {NoIndex}],
           server |-> [task |-> {NoHandle} \ {NoHandle}, entry |-> {NoIndex} \ {NoIndex}],
           queues |-> {NoHandle, NoHandle} \ {NoHandle}]
    BY <1>1, Zenon DEF IsEmpty, PairNamed, HalfNamed
  <2> QED
    BY <2>1, <2>2, Zenon DEF Table!NoPair, Table!NoHalf
<1>3. ASSUME NEW r, Sound(r) PROVE PairNamed(r) # Table!NoPair
  <2>1. PairNamed(r).queues = {r.queue_client_server, r.queue_server_client} \ {NoHandle}
    BY DEF PairNamed
  <2>2. r.queue_client_server \in PairNamed(r).queues
    BY <1>3, <2>1 DEF Sound
  <2>3. Table!NoPair.queues = {}
    BY DEF Table!NoPair
  <2> QED
    BY <2>2, <2>3
<1> QED
  BY <1>2, <1>3

\* What a step does to what is shown of a slot, it does to the table.
LEMMA DoesShow ==
  ASSUME IInv, IInv', OwnInv, OwnInv', NEW t \in Threads, NEW a \in Slots, Does(t, a)
  PROVE  [Table!TableNext]_Shows
<1> DEFINE old == Shown(a)
           new == Shown(a)'
<1>0. Named /\ Named'
  <2>1. IInv' /\ OwnInv' => Named'
    BY ShownIsNamed, PTL
  <2> QED
    BY <2>1, ShownIsNamed
<1>1. /\ \A x \in Slots : PairIn(x) = PairNamed(Shown(x))
      /\ \A x \in Slots : PairIn(x)' = PairNamed(Shown(x)')
      /\ \A x \in Slots \ {a} : Shown(x)' = Shown(x)
  <2>1. \A x \in Slots : PairIn(x) = PairNamed(Shown(x))
    BY <1>0 DEF Named, NamedIn
  <2>2. \A x \in Slots : PairIn(x)' = PairNamed(Shown(x))'
    BY <1>0 DEF Named, NamedIn
  <2>3. \A x \in Slots : PairNamed(Shown(x))' = PairNamed(Shown(x)')
    BY DEF PairNamed, HalfNamed
  <2>4. \A x \in Slots \ {a} : Shown(x)' = Shown(x)
    BY ShownElsewhere DEF Does
  <2> QED
    BY <2>1, <2>2, <2>3, <2>4
<1>2. /\ Shows = [x \in Slots |-> PairNamed(Shown(x))]
      /\ Shows' = [x \in Slots |-> PairNamed(Shown(x)')]
  BY <1>1 DEF Shows
<1>3. Shows' = [Shows EXCEPT ![a] = PairNamed(new)]
  <2>1. \A x \in Slots : PairNamed(Shown(x)') =
           IF x = a THEN PairNamed(new) ELSE PairNamed(Shown(x))
    BY <1>1
  <2> HIDE DEF new
  <2> QED
    BY <1>2, <2>1
<1>4. /\ Shows[a] = PairNamed(old) /\ Shows'[a] = PairNamed(new)
      /\ \A x \in Slots : Shows[x] = PairNamed(Shown(x))
  BY <1>2
<1>5. /\ new \in Runtime /\ Distinct(new)
      /\ \A x \in Slots \ {a} : Unshared(new, Shown(x))
  <2>1. /\ (Shown(a) \in Runtime)' /\ Distinct(Shown(a))'
        /\ \A x \in Slots \ {a} : Unshared(Shown(a), Shown(x))'
    BY <1>0 DEF Named, NamedIn
  <2>2. Runtime' = Runtime /\ (Distinct(Shown(a))' <=> Distinct(new))
    BY DEF Distinct, Runtime
  <2>3. \A x \in Slots \ {a} : Unshared(Shown(a), Shown(x))' <=> Unshared(new, Shown(x)')
    BY DEF Unshared
  <2> QED
    BY <1>1, <2>1, <2>2, <2>3
<1>6. Changes(old, new)
  BY DEF Does
<1> DEFINE tab == [s \in Slots |-> PairIn(s)]
<1>7. Shows = tab /\ Shows' = tab'
  BY DEF Shows
<1> HIDE DEF old, new
<1>8. CASE new = old
  <2>1. Shows' = Shows
    BY <1>2, <1>3, <1>4, <1>8
  <2> QED
    BY <2>1
<1>9. CASE old = Nothing /\ Sound(new) /\ new.HandlerClient # NoHandle
  <2>1. Shows[a] = Table!NoPair
    BY <1>4, <1>9, NamesNoPair
  <2>2. Table!IsWhole(Shows'[a])
    BY <1>4, <1>5, <1>9, SoundIsWhole
  <2>3. \A x \in Slots \ {a} : Table!Disjoint(Shows'[a], Shows[x])
    BY <1>4, <1>5, UnsharedIsDisjoint
  <2>4. Shows' = [Shows EXCEPT ![a] = Shows'[a]]
    BY <1>3, <1>4
  <2>5. Table!Publish(a)
    BY <1>7, <2>1, <2>2, <2>3, <2>4 DEF Table!Publish
  <2> QED
    BY <2>5 DEF Table!TableNext
<1>10. CASE Sound(old) /\ new = Nothing
  <2>1. Shows[a] # Table!NoPair
    BY <1>4, <1>10, NamesNoPair
  <2>2. Shows' = [Shows EXCEPT ![a] = Table!NoPair]
    BY <1>3, <1>10, NamesNoPair
  <2>3. Table!Withdraw(a)
    BY <1>7, <2>1, <2>2 DEF Table!Withdraw
  <2> QED
    BY <2>3 DEF Table!TableNext
<1>11. CASE Sound(old) /\ old.HandlerServer # NoHandle /\ new = WithoutClient(old)
  <2>1. CASE old.HandlerClient = NoHandle
    <3>1. new = old
      <4>1. old \in Runtime /\ old.client_index = NoIndex
        BY <1>0, <1>11, <2>1 DEF Named, NamedIn, old, Sound
      <4> QED
        BY <1>11, <2>1, <4>1 DEF WithoutClient, Runtime
    <3> QED
      BY <1>8, <3>1
  <2>2. CASE old.HandlerClient # NoHandle
    <3>1. /\ old.HandlerClient \in PairNamed(old).client.task
          /\ old.HandlerServer \in PairNamed(old).server.task
      BY <1>11, <2>2 DEF PairNamed, HalfNamed
    <3>2. Table!NoHalf \notin {Shows[a].client, Shows[a].server}
      BY <1>4, <3>1 DEF Table!NoHalf
    <3>3. PairNamed(new) = [PairNamed(old) EXCEPT !.client = Table!NoHalf]
      <4>1. old \in Runtime
        BY <1>0 DEF Named, NamedIn, old
      <4>2. /\ new.HandlerClient = NoHandle /\ new.client_index = NoIndex
            /\ new.HandlerServer = old.HandlerServer /\ new.server_index = old.server_index
            /\ new.queue_client_server = old.queue_client_server
            /\ new.queue_server_client = old.queue_server_client
        BY <1>11, <4>1 DEF WithoutClient, Runtime
      <4>3. HalfNamed(NoHandle, NoIndex) = Table!NoHalf
        BY NamesNoPair, Blank DEF PairNamed, Table!NoPair, IsEmpty
      <4> QED
        BY <4>2, <4>3 DEF PairNamed
    <3>4. Shows' = [Shows EXCEPT ![a].client = Table!NoHalf]
      BY <1>3, <1>4, <3>3
    <3>5. Table!RetireClient(a)
      BY <1>7, <3>2, <3>4 DEF Table!RetireClient
    <3> QED
      BY <3>5 DEF Table!TableNext
  <2> QED
    BY <2>1, <2>2
<1> QED
  BY <1>6, <1>8, <1>9, <1>10, <1>11 DEF Changes

-----------------------------------------------------------------------------
(* The steps of a thread at work on a pair.                                *)

\* No thread ever deletes a task that is in a call.
LEMMA CallsStay ==
  ASSUME IInv, OwnInv, NEW t \in Threads, Begin(t) \/ Continue(t)
  PROVE  \A u \in Threads \ {t} : call'[u] = call[u]
<1> SUFFICES ASSUME NEW u \in Threads \ {t}, Deletes(t, u) PROVE call[u] = IdleCall
  BY CallsElsewhere
<1>1. call[t] \in Call /\ call[t].slot \in Slots /\ u # NoHandle /\ u # t
  BY Typed, BuiltOK, ManagerAssumption DEF Deletes, Threads
<1>2. CASE call[t].pc = "lose" /\ u = call[t].task
  <2>1. u \in Contents(RecordTasks(Records[call[t].slot]), CallTasks(call[t]), NoHandle)
    BY <1>1, <1>2 DEF Contents, CallTasks
  <2> QED
    BY <1>1, <2>1, HeldIsIdle
<1>3. CASE /\ call[t].pc \in {"undoServer", "undoClient"}
           /\ u \in {Built(t).HandlerClient, Built(t).HandlerServer}
  <2>1. Records[call[t].slot] = Built(t)
    BY <1>3, WorkerKnows DEF Works, WorkingPcs, RollbackPcs, Unindexed
  <2>2. u \in Contents(RecordTasks(Records[call[t].slot]), CallTasks(call[t]), NoHandle)
    BY <1>1, <1>3, <2>1 DEF Contents, RecordTasks
  <2> QED
    BY <1>1, <2>2, HeldIsIdle
<1>4. CASE /\ call[t].pc \in {"dropClient", "dropServer"}
           /\ u \in {call[t].got.HandlerClient, call[t].got.HandlerServer}
  <2>1. u \in Contents(RecordTasks(Records[call[t].slot]), CallTasks(call[t]), NoHandle)
    BY <1>1, <1>4 DEF Contents, CallTasks
  <2> QED
    BY <1>1, <2>1, HeldIsIdle
<1> QED
  BY <1>2, <1>3, <1>4 DEF Deletes

\* A thread at work on a pair touches no other slot.
LEMMA WorkIsFramed ==
  ASSUME IInv, OwnInv, NEW t \in Threads, Works(call[t]), Continue(t)
  PROVE  /\ Framed(t, call[t].slot)
         /\ inUse' = inUse \/ inUse' = inUse \ {call[t].slot}
<1> DEFINE a == call[t].slot
<1>1. a \in Slots /\ a \in inUse /\ call[t].pc # "take"
  BY WorkerKnows
  DEF Works, WorkingPcs, CreatePcs, RollbackPcs, DestroyPcs, Shape, DestroyShape
<1>2. \A u \in Threads \ {t} : call'[u] = call[u]
  BY CallsStay
<1>3. GoesOn(t, call[t], call'[t]) /\ GivesUpOwn(t, call[t], call'[t])
  BY <1>1, ContinueGoesOn
<1>4. Works(call'[t]) => call'[t].slot = a
  BY <1>3, WorkersAreEngaged DEF GoesOn
<1>5. inUse' = inUse \/ inUse' = inUse \ {a}
  BY <1>3 DEF GivesUpOwn
<1>6. \A x \in Slots \ {a} : runtime'[x] = runtime[x]
  <2>1. runtime \in [Slots -> Runtime]
    BY DEF IInv, RegistryInv, RegistryTypeOK
  <2>2. CASE Create(t)
    <3>1. CASE InitRuntime(t) \/ StoreHandle(t) \/ StoreIndex(t)
               \/ \E q \in QueueHandles : CreateQueue(t, q)
      BY <2>1, <3>1 DEF InitRuntime, StoreHandle, StoreIndex, CreateQueue, Store,
                        WriteRuntime
    <3>2. CASE AssignPairId(t)
      BY <2>1, <3>2 DEF AssignPairId, AssignNextPairId
    <3>3. CASE ~ \/ InitRuntime(t) \/ StoreHandle(t) \/ StoreIndex(t) \/ AssignPairId(t)
                 \/ \E q \in QueueHandles : CreateQueue(t, q)
      BY <2>2, <3>3 DEF Create, CreationStepFails, FindEntry, SpawnTask, RecordTask,
                        LoseRace, LinkEntry, LinkPeerEntry, registryVars
    <3> QED
      BY <3>1, <3>2, <3>3
  <2>3. CASE Rollback(t)
    BY <2>1, <2>3
    DEF Rollback, MarkCleaning, UndoTask, UndoQueue, UndoMonitor, UndoSlot,
                      Store, WriteRuntime, MarkRuntime, ReleaseRuntime, registryVars
  <2>4. CASE Teardown(t)
    <3>1. ~DestroyFound(t) /\ ~InitChunks(t)
      BY <1>1 DEF DestroyFound, InitChunks, OwnInv, CallsShaped, Shape
    <3> QED
      BY <2>1, <2>4, <3>1
      DEF Teardown, DropTask, DropQueue, DropMonitor, Retire, ReleaseSlot, DropSelf,
          MarkRuntime, ReleaseRuntime, registryVars
  <2> QED
    BY <2>2, <2>3, <2>4 DEF Continue
<1> QED
  BY <1>1, <1>2, <1>4, <1>5, <1>6, Typed DEF Framed

\* While the thread is at work nothing is shown of its slot.
LEMMA WorkDoes ==
  ASSUME IInv, OwnInv, NEW t \in Threads, Works(call[t]), Continue(t),
         Works(call'[t]) \/ inUse' = inUse \ {call[t].slot},
         call'[t].pc \in CreatePcs => Stored(call'[t], runtime'[call[t].slot])
  PROVE  \E a \in Slots : Does(t, a)
<1>0. PICK a \in Slots : a = call[t].slot
  BY WorkerKnows
<1>1. Alone(t, a) /\ Shown(a) = Nothing
  BY <1>0, WorkerKnows, ShownRead
<1>2. Framed(t, a)
  BY <1>0, WorkIsFramed
<1>3. Shown(a)' = Nothing
  <2>1. CASE Works(call'[t])
    <3>1. WorksOn(t)' /\ call'[t].slot = a
      BY <1>2, <2>1 DEF WorksOn, Works, WorkingPcs, Framed
    <3> QED
      BY <3>1 DEF Shown
  <2>2. CASE inUse' = inUse \ {a}
    BY <2>2 DEF Shown
  <2> QED
    BY <1>0, <2>1, <2>2
<1> QED
  BY <1>0, <1>1, <1>2, <1>3 DEF Does, Changes

\* A creation stores one thing after the other, until the pair is whole.
LEMMA CreateDoes ==
  ASSUME IInv, OwnInv, TableInv, NEW t \in Threads, Create(t)
  PROVE  \E a \in Slots : Does(t, a)
<1> DEFINE c == call[t]
           d == call'[t]
           r == runtime[call[t].slot]
           r2 == runtime'[call[t].slot]
<1>1. c.pc \in WorkingPcs
  BY ManagerAssumption
  DEF Create, InitRuntime, AssignPairId, CreationStepFails, Exhausted, CreateQueue,
      FindEntry, SpawnTask, RecordTask, LoseRace, StoreHandle, StoreIndex, LinkEntry,
      LinkPeerEntry, WorkingPcs, CreatePcs
<1>2. Works(c) /\ Continue(t)
  BY <1>1 DEF Works, Continue
<1>3. /\ c \in Call /\ c.slot \in Slots /\ r \in Runtime /\ Built(t) = r
      /\ call \in [Threads -> Call] /\ runtime \in [Slots -> Runtime] /\ t \in Callers
      /\ NoHandle \notin TaskHandles /\ NoHandle \notin QueueHandles
      /\ NoIndex \notin Indices
      /\ Shape(t, c) /\ CreateShape(c)
  BY <1>1, <1>2, WorkerKnows, Typed, BuiltOK
  DEF IInv, RegistryInv, RegistryTypeOK, CallInv, WellShaped, WorkingPcs, Shape
<1>4. /\ c.pc \in CreatePcs => Stored(c, r)
      /\ c.pc \in {"spawn", "record"} => c.idx \in Indices
      /\ c.pc \in {"handle", "index"} => c.idx \in Indices
  BY <1>3 DEF TableInv, IInv, CallInv, WellShaped, CreateShape
<1>5. ASSUME d.pc \in WorkingPcs, d.pc \in CreatePcs => Stored(d, r2)
      PROVE  \E a \in Slots : Does(t, a)
  <2>1. Works(d)
    BY <1>5 DEF Works
  <2> HIDE DEF c, d, r, r2
  <2> QED
    BY <1>2, <1>5, <2>1, WorkDoes DEF c, d, r2
<1>6. CASE InitRuntime(t) \/ AssignPairId(t)
  <2>1. CASE InitRuntime(t)
    <3>1. c.pc = "init" /\ d = [c EXCEPT !.pc = "queue1"]
      BY <1>3, <2>1 DEF InitRuntime, Goto
    <3>2. d.pc = "queue1" /\ d.seg = "client"
      BY <1>3, <3>1 DEF Call, CreateShape
    <3> QED
      BY <1>5, <3>2 DEF Stored, WorkingPcs, CreatePcs
  <2>2. CASE AssignPairId(t)
    <3>1. c.pc = "pairId" /\ d = [c EXCEPT !.pc = "find"]
      BY <1>3, <2>2 DEF AssignPairId, Goto
    <3>2. d.pc = "find" /\ d.seg = "client"
      BY <1>3, <3>1 DEF Call, CreateShape
    <3>3. /\ r2.queue_client_server = r.queue_client_server
          /\ r2.queue_server_client = r.queue_server_client
      BY <1>3, <2>2 DEF AssignPairId, AssignNextPairId, Runtime
    <3> QED
      BY <1>4, <1>5, <3>1, <3>2, <3>3 DEF Stored, WorkingPcs, CreatePcs
  <2> QED
    BY <1>6, <2>1, <2>2
<1>7. CASE CreationStepFails(t) \/ LoseRace(t)
  <2>1. d.pc = "markCleaning"
    <3>1. CASE CreationStepFails(t)
      BY <1>3, <3>1 DEF CreationStepFails, Goto, Call
    <3>2. CASE LoseRace(t)
      BY <1>3, <3>2 DEF LoseRace, Call
    <3> QED
      BY <1>7, <3>1, <3>2
  <2> QED
    BY <1>5, <2>1 DEF WorkingPcs, CreatePcs, RollbackPcs
<1>8. CASE \E q \in QueueHandles : CreateQueue(t, q)
  <2>1. PICK q \in QueueHandles : CreateQueue(t, q)
    BY <1>8
  <2>2. CASE c.pc = "queue1"
    <3>1. /\ d = [c EXCEPT !.pc = "queue2"]
          /\ r2 = [r EXCEPT !.queue_client_server = q]
      BY <1>3, <2>1, <2>2 DEF CreateQueue, Goto, Store, WriteRuntime
    <3>2. /\ d.pc = "queue2" /\ d.seg = "client" /\ r2.queue_client_server = q
      BY <1>3, <2>2, <3>1 DEF Call, CreateShape, Runtime
    <3> QED
      BY <1>3, <1>5, <3>2 DEF Stored, WorkingPcs, CreatePcs
  <2>3. CASE c.pc = "queue2"
    <3>1. /\ d = [c EXCEPT !.pc = "pairId"]
          /\ r2 = [r EXCEPT !.queue_server_client = q]
      BY <1>3, <2>1, <2>3 DEF CreateQueue, Goto, Store, WriteRuntime
    <3>2. /\ d.pc = "pairId" /\ d.seg = "client" /\ r2.queue_server_client = q
          /\ r2.queue_client_server = r.queue_client_server
      BY <1>3, <2>3, <3>1 DEF Call, CreateShape, Runtime
    <3> QED
      BY <1>3, <1>4, <1>5, <2>3, <3>2 DEF Stored, WorkingPcs, CreatePcs
  <2> QED
    BY <2>1, <2>2, <2>3 DEF CreateQueue
<1>9. CASE FindEntry(t) \/ SpawnTask(t) \/ RecordTask(t)
  <2>1. r2 = r
    BY <1>9 DEF FindEntry, SpawnTask, RecordTask, registryVars
  <2>2. CASE FindEntry(t)
    <3>1. c.pc = "find" /\ \E i : d = [c EXCEPT !.pc = "spawn", !.idx = i]
      BY <1>3, <2>2 DEF FindEntry
    <3>2. d.pc = "spawn" /\ d.seg = c.seg
      BY <1>3, <3>1 DEF Call
    <3> QED
      BY <1>4, <1>5, <2>1, <3>1, <3>2 DEF Stored, WorkingPcs, CreatePcs
  <2>3. CASE SpawnTask(t)
    <3>1. c.pc = "spawn" /\ \E h \in TaskHandles : d = [c EXCEPT !.pc = "record", !.task = h]
      BY <1>3, <2>3 DEF SpawnTask
    <3>2. d.pc = "record" /\ d.seg = c.seg /\ d.task # NoHandle
      BY <1>3, <3>1 DEF Call
    <3> QED
      BY <1>4, <1>5, <2>1, <3>1, <3>2 DEF Stored, WorkingPcs, CreatePcs
  <2>4. CASE RecordTask(t)
    <3>1. c.pc = "record" /\ \E pc \in {"lose", "handle"} : d = [c EXCEPT !.pc = pc]
      BY <1>3, <2>4 DEF RecordTask, Goto
    <3>2. d.pc \in {"lose", "handle"} /\ d.seg = c.seg /\ d.task = c.task
      BY <1>3, <3>1 DEF Call
    <3> QED
      BY <1>4, <1>5, <2>1, <3>1, <3>2 DEF Stored, WorkingPcs, CreatePcs
  <2> QED
    BY <1>9, <2>2, <2>3, <2>4
<1>10. CASE StoreHandle(t)
  <2>1. /\ c.pc = "handle" /\ d = [c EXCEPT !.pc = "index", !.task = NoHandle]
        /\ r2 = IF c.seg = "client" THEN [r EXCEPT !.HandlerClient = c.task]
                ELSE [r EXCEPT !.HandlerServer = c.task]
    BY <1>3, <1>10 DEF StoreHandle, Store, WriteRuntime
  <2>2. d.pc = "index" /\ d.seg = c.seg /\ c.seg \in {"client", "server"}
    BY <1>3, <2>1 DEF Call
  <2>3. /\ r2.queue_client_server = r.queue_client_server
        /\ r2.queue_server_client = r.queue_server_client
        /\ r2.client_index = r.client_index
        /\ r2.HandlerClient = IF c.seg = "client" THEN c.task ELSE r.HandlerClient
        /\ r2.HandlerServer = IF c.seg = "client" THEN r.HandlerServer ELSE c.task
    BY <1>3, <2>1 DEF Runtime
  <2> QED
    BY <1>4, <1>5, <2>1, <2>2, <2>3 DEF Stored, WorkingPcs, CreatePcs
<1>11. CASE StoreIndex(t)
  <2>1. /\ c.pc = "index"
        /\ d = [c EXCEPT !.pc = "link",
                         !.idx = IF c.seg = "client" THEN @ ELSE NoIndex]
        /\ r2 = IF c.seg = "client" THEN [r EXCEPT !.client_index = c.idx]
                ELSE [r EXCEPT !.server_index = c.idx]
    BY <1>3, <1>11 DEF StoreIndex, Store, WriteRuntime
  <2>2. d.pc = "link" /\ d.seg = c.seg /\ c.seg \in {"client", "server"}
    BY <1>3, <2>1 DEF Call
  <2>3. /\ r2.queue_client_server = r.queue_client_server
        /\ r2.queue_server_client = r.queue_server_client
        /\ r2.HandlerClient = r.HandlerClient /\ r2.HandlerServer = r.HandlerServer
        /\ r2.client_index = IF c.seg = "client" THEN c.idx ELSE r.client_index
        /\ r2.server_index = IF c.seg = "client" THEN r.server_index ELSE c.idx
    BY <1>3, <2>1 DEF Runtime
  <2> QED
    BY <1>3, <1>4, <1>5, <2>1, <2>2, <2>3 DEF Stored, WorkingPcs, CreatePcs
<1>12. ASSUME Complete(t), UNCHANGED <<inUse, runtime>>, c.pc \in {"link", "linkPeer"}
       PROVE  \E a \in Slots : Does(t, a)
  <2>0. PICK a \in Slots : a = call[t].slot
    BY <1>3
  <2>1. d = IdleCall /\ ~Works(d) /\ d.pc \notin CreatePcs
    BY <1>3, <1>12, Blank
    DEF Complete, Return, Works, WorkingPcs, CreatePcs, RollbackPcs, DestroyPcs
  <2>2. Framed(t, a) /\ Alone(t, a) /\ a \in inUse /\ Shown(a) = Nothing
    BY <1>2, <2>0, WorkIsFramed, WorkerKnows, ShownRead
  <2>3. Shown(a)' = runtime[a]
    <3>1. \A u \in Threads : Works(call'[u]) => call'[u].slot # a
      BY <2>1, <2>2, WorkersAreEngaged DEF Framed, Alone
    <3>2. \A u \in Threads : (call[u].slot = a => ~WorksOn(u))'
      BY <3>1 DEF WorksOn, Works, WorkingPcs
    <3> QED
      BY <1>12, <2>2, <3>2 DEF Shown
  <2>4. Sound(runtime[a]) /\ runtime[a].HandlerClient # NoHandle
    <3>1. CreateRecord(c, r)
      BY <1>2, <1>3, <1>12, WorkerKnows
      DEF WorkRecord, Unindexed, CreatePcs
    <3>2. c.pc = "linkPeer" => c.seg = "server"
      BY <1>3 DEF CreateShape
    <3>3. c.seg \in {"client", "server"}
      BY <1>3 DEF Call
    <3>4. Stored(c, r)
      BY <1>4, <1>12 DEF CreatePcs
    <3> HIDE DEF c, r
    <3>5. Sound(r) /\ r.HandlerClient # NoHandle
      BY <1>12, <3>1, <3>2, <3>3, <3>4 DEF Stored, Sound, CreateRecord
    <3> QED
      BY <2>0, <3>5 DEF r
  <2> QED
    BY <2>1, <2>2, <2>3, <2>4 DEF Does, Changes
<1>13. CASE LinkEntry(t)
  <2>1. r2 = r /\ c.pc = "link" /\ UNCHANGED <<inUse, runtime>>
    BY <1>13 DEF LinkEntry, registryVars
  <2>2. CASE Complete(t)
    BY <1>12, <2>1, <2>2
  <2>3. CASE ~Complete(t) /\ c.seg = "server"
    <3>1. d = [c EXCEPT !.pc = "linkPeer"]
      BY <1>3, <1>13, <2>3 DEF LinkEntry
    <3>2. d.pc = "linkPeer" /\ d.seg = c.seg
      BY <1>3, <3>1 DEF Call
    <3> QED
      BY <1>4, <1>5, <2>1, <2>3, <3>2 DEF Stored, WorkingPcs, CreatePcs
  <2>4. CASE ~Complete(t) /\ c.seg # "server"
    <3>1. d = [c EXCEPT !.pc = "find", !.seg = "server", !.idx = NoIndex]
      BY <1>3, <1>13, <2>4 DEF LinkEntry
    <3>2. d.pc = "find" /\ d.seg = "server"
      BY <1>3, <3>1 DEF Call
    <3> QED
      BY <1>4, <1>5, <2>1, <3>2 DEF Stored, WorkingPcs, CreatePcs
  <2> QED
    BY <2>2, <2>3, <2>4
<1>14. CASE LinkPeerEntry(t)
  BY <1>12, <1>14 DEF LinkPeerEntry, registryVars
<1> QED
  BY <1>6, <1>7, <1>8, <1>9, <1>10, <1>11, <1>13, <1>14 DEF Create

\* A roll-back shows nothing, to the end.
LEMMA RollbackDoes ==
  ASSUME IInv, OwnInv, NEW t \in Threads, Rollback(t)
  PROVE  \E a \in Slots : Does(t, a)
<1>1. call[t].pc \in RollbackPcs
  BY DEF Rollback, MarkCleaning, UndoTask, UndoQueue, UndoMonitor, UndoSlot, RollbackPcs
<1>2. Works(call[t]) /\ Continue(t)
  BY <1>1 DEF Works, WorkingPcs, Continue
<1>3. call \in [Threads -> Call] /\ InUseAndOwned(call[t].slot)
  BY <1>2, WorkerKnows, Typed
<1>4. CASE UndoSlot(t)
  <2>1. call'[t] = IdleCall /\ inUse' = inUse \ {call[t].slot}
    BY <1>3, <1>4 DEF UndoSlot, Return, ReleaseRuntime
  <2>2. call'[t].pc \notin CreatePcs
    BY <2>1, Blank DEF CreatePcs
  <2> QED
    BY <1>2, <2>1, <2>2, WorkDoes
<1>5. CASE ~UndoSlot(t)
  <2>1. call'[t].pc \in RollbackPcs
    <3>1. CASE UndoTask(t)
      BY <1>3, <3>1 DEF UndoTask, Call, RollbackPcs
    <3>2. CASE ~UndoTask(t)
      BY <1>3, <1>5, <3>2
      DEF Rollback, MarkCleaning, UndoQueue, UndoMonitor, Goto, Call, RollbackPcs
    <3> QED
      BY <3>1, <3>2
  <2>2. Works(call'[t]) /\ call'[t].pc \notin CreatePcs
    BY <2>1 DEF Works, WorkingPcs, CreatePcs, RollbackPcs
  <2> QED
    BY <1>2, <2>2, WorkDoes
<1> QED
  BY <1>4, <1>5

\* A step that touches no slot and begins no work on one changes nothing.
LEMMA IdleDoes ==
  ASSUME IInv, OwnInv, NEW t \in Threads, Begin(t) \/ Continue(t), NEW a \in Slots,
         UNCHANGED <<inUse, runtime>>, ~Works(call[t]), ~Works(call'[t])
  PROVE  Does(t, a)
<1>1. \A u \in Threads \ {t} : call'[u] = call[u]
  BY CallsStay
<1>2. Framed(t, a)
  BY <1>1 DEF Framed
<1>3. \A u \in Threads : Works(call'[u]) <=> Works(call[u])
  BY <1>1
<1>4. \A u \in Threads : Works(call[u]) => call'[u].slot = call[u].slot
  BY <1>1
<1>5. (\A u \in Threads : call[u].slot = a => ~WorksOn(u))'
         <=> (\A u \in Threads : call[u].slot = a => ~WorksOn(u))
  <2>1. \A u \in Threads : (WorksOn(u)' <=> Works(call'[u])) /\ (WorksOn(u) <=> Works(call[u]))
    BY DEF WorksOn, Works, WorkingPcs
  <2> QED
    BY <1>3, <1>4, <2>1
<1>6. Shown(a)' = Shown(a)
  BY <1>5 DEF Shown
<1>7. call'[t].pc \notin CreatePcs
  BY DEF Works, WorkingPcs
<1> QED
  BY <1>2, <1>6, <1>7 DEF Does, Changes

\* A destroy shows nothing once it has taken the whole pair, and changes nothing
\* once it has taken the client half.
LEMMA TeardownDoes ==
  ASSUME IInv, OwnInv, NEW t \in Threads, Teardown(t), call[t].pc # "take"
  PROVE  \E a \in Slots : Does(t, a)
<1>1. ~InitChunks(t) /\ ~DestroyFound(t)
  BY DEF InitChunks, DestroyFound, OwnInv, CallsShaped, Shape
<1>2. call[t].pc \in DestroyPcs \ {"take"} /\ Continue(t)
  BY <1>1
  DEF Teardown, DropTask, DropQueue, DropMonitor, Retire, ReleaseSlot, DropSelf,
      DestroyPcs, Continue
<1>3. /\ call \in [Threads -> Call] /\ call[t].slot \in Slots
      /\ DestroyShape(t, call[t])
  BY <1>2, Typed, DestroyHolds
<1>4. CASE Works(call[t])
  <2>1. call[t].full /\ call[t].pc \in DestroyPcs \ {"take", "dropSelf"}
    BY <1>2, <1>3, <1>4
    DEF Works, WorkingPcs, CreatePcs, RollbackPcs, DestroyPcs
  <2>2. InUseAndOwned(call[t].slot)
    BY <1>4, WorkerKnows
  <2>3. CASE ReleaseSlot(t)
    <3>1. inUse' = inUse \ {call[t].slot} /\ call'[t].pc = "dropSelf"
      BY <1>3, <2>2, <2>3 DEF ReleaseSlot, ReleaseRuntime, Goto, Call
    <3>2. call'[t].pc \notin CreatePcs
      BY <3>1 DEF CreatePcs
    <3> QED
      BY <1>2, <1>4, <3>1, <3>2, WorkDoes
  <2>4. CASE ~ReleaseSlot(t)
    <3>1. call'[t].pc \in DestroyPcs \ {"dropSelf"} /\ call'[t].full
      <4>1. CASE DropTask(t)
        BY <1>3, <2>1, <4>1 DEF DropTask, Call, DestroyPcs
      <4>2. CASE DropQueue(t) \/ DropMonitor(t)
        BY <1>3, <2>1, <4>2 DEF DropQueue, DropMonitor, Call, DestroyPcs
      <4>3. CASE Retire(t)
        BY <1>3, <2>1, <4>3 DEF Retire, Goto, Call, DestroyPcs
      <4>4. ~DropSelf(t)
        BY <2>1 DEF DropSelf
      <4> QED
        BY <1>1, <2>4, <4>1, <4>2, <4>3, <4>4 DEF Teardown
    <3>2. Works(call'[t]) /\ call'[t].pc \notin CreatePcs
      BY <3>1 DEF Works, DestroyPcs, CreatePcs
    <3> QED
      BY <1>2, <1>4, <3>2, WorkDoes
  <2> QED
    BY <2>3, <2>4
<1>5. CASE ~Works(call[t])
  <2>1. ~Works(call'[t])
    BY <1>2, <1>5, ContinueGoesOn DEF GoesOn
  <2>2. call[t].pc = "dropSelf" \/ ~call[t].full
    BY <1>2, <1>5 DEF Works
  <2>3. UNCHANGED <<inUse, runtime>>
    BY <1>1, <1>3, <2>2
    DEF Teardown, DropTask, DropQueue, DropMonitor, Retire, ReleaseSlot, DropSelf,
        DestroyShape, registryVars
  <2> QED
    BY <1>2, <1>3, <1>5, <2>1, <2>3, IdleDoes
<1> QED
  BY <1>4, <1>5

-----------------------------------------------------------------------------
(* The steps that begin a call, or take a pair that was looked up.         *)

\* A reservation shows nothing yet.
LEMMA ReserveDoes ==
  ASSUME IInv, OwnInv, NEW t \in Threads, Reserve(t)
  PROVE  \E a \in Slots : Does(t, a)
<1>1. PICK kind \in Kinds, a \in Slots :
         /\ ReserveRuntime(a)
         /\ call' = [call EXCEPT ![t] = [IdleCall EXCEPT !.pc = "init",
                                             !.kind = kind, !.slot = a]]
  BY DEF Reserve
<1>2. /\ a \notin inUse /\ inUse' = inUse \cup {a}
      /\ \A x \in inUse : runtime'[x] = runtime[x]
  BY <1>1, ReserveFresh DEF IInv
<1>3. call'[t].pc = "init" /\ call'[t].slot = a /\ call'[t].seg = "client"
  BY <1>1, Typed DEF IdleCall
<1>4. \A u \in Threads \ {t} : call'[u] = call[u]
  BY CallsStay DEF Begin
<1>5. ~Works(call[t])
  BY DEF Reserve, MayCall, Idle, OwnInv, CallsShaped, Shape, Works, WorkingPcs,
         CreatePcs, RollbackPcs, IdleCall
<1>6. Framed(t, a)
  BY <1>2, <1>3, <1>4, <1>5 DEF Framed
<1>7. Alone(t, a)
  BY <1>2 DEF Alone, OwnInv, OneEngaged
<1>8. Shown(a) = Nothing /\ Shown(a)' = Nothing
  <2>1. WorksOn(t)'
    BY <1>3 DEF WorksOn, CreatePcs
  <2> QED
    BY <1>2, <1>3, <2>1 DEF Shown
<1>9. Stored(call'[t], runtime'[a])
  BY <1>3 DEF Stored
<1> QED
  BY <1>6, <1>7, <1>8, <1>9 DEF Does, Changes

\* The critical section of a destroy: the whole pair goes, or its client half, or
\* nothing does.
LEMMA TakeDoes ==
  ASSUME IInv, OwnInv, TableInv, NEW t \in Threads, Begin(t) \/ Continue(t),
         NEW s, NEW mode, TakeRuntime(t, s, mode), call[t].pc \in {"idle", "take"},
         InUseAndOwned(s) /\ runtime[s].lifecycle_state # "CLEANING" => MayTake(t, s, mode)
  PROVE  \E a \in Slots : Does(t, a)
<1> DEFINE r == runtime[s]
           full == FullTeardown(s, mode)
<1>1. call \in [Threads -> Call] /\ runtime \in [Slots -> Runtime]
  BY Typed DEF IInv, RegistryInv, RegistryTypeOK
<1>2. ~Works(call[t])
  BY DEF OwnInv, CallsShaped, Shape, DestroyShape, DestroyPcs, Works, WorkingPcs,
         CreatePcs, RollbackPcs, IdleCall
<1>3. CASE ~InUseAndOwned(s) \/ r.lifecycle_state = "CLEANING"
  <2>1. call'[t] = IdleCall /\ UNCHANGED <<inUse, runtime>>
    BY <1>1, <1>3 DEF TakeRuntime, Return, registryVars
  <2>2. ~Works(call'[t])
    BY <2>1, Blank DEF Works, WorkingPcs, CreatePcs, RollbackPcs, DestroyPcs
  <2>3. <<1, 1>> \in Slots
    BY RegistryAssumption DEF Slots
  <2> QED
    BY <1>2, <2>1, <2>2, <2>3, IdleDoes
<1>4. CASE InUseAndOwned(s) /\ r.lifecycle_state # "CLEANING"
  <2>1. Alone(t, s) /\ s \in inUse /\ s \in Slots /\ r \in Runtime
    BY <1>1, <1>4, Typed DEF MayTake, InUseAndOwned
  <2>2. \A u \in Threads : Works(call[u]) => call[u].slot # s
    BY <1>2, <2>1, WorkersAreEngaged DEF Alone
  <2>3. Shown(s) = r
    BY <2>1, <2>2, ShownRead
  <2>4. /\ call'[t].pc = "dropClient" /\ call'[t].slot = s /\ call'[t].full = full
        /\ inUse' = inUse
        /\ IF full THEN TakePair(s) ELSE TakeClient(s)
    <3>1. \E got : call' = [call EXCEPT ![t] = [IdleCall EXCEPT
              !.pc = "dropClient", !.slot = s, !.full = full, !.got = got]]
      BY <1>4 DEF TakeRuntime
    <3> QED
      BY <1>1, <1>4, <3>1 DEF TakeRuntime, TakePair, TakeClient, IdleCall
  <2>5. \A u \in Threads \ {t} : call'[u] = call[u]
    BY CallsStay
  <2>6. \A x \in Slots \ {s} : runtime'[x] = runtime[x]
    BY <1>1, <2>4 DEF TakePair, TakeClient
  <2>7. Framed(t, s)
    BY <1>2, <2>4, <2>5, <2>6, Typed DEF Framed
  <2>8. r = Nothing \/ Sound(r)
    BY <2>1, <2>3 DEF TableInv
  <2>9. CASE full
    <3>1. WorksOn(t)'
      BY <2>4, <2>9 DEF WorksOn, DestroyPcs
    <3>2. Shown(s)' = Nothing
      BY <2>4, <3>1 DEF Shown
    <3> QED
      BY <2>1, <2>3, <2>4, <2>7, <2>8, <3>2 DEF Does, Changes, CreatePcs
  <2>10. CASE ~full
    <3>1. ~Works(call'[t])
      BY <2>4, <2>10 DEF Works, WorkingPcs, CreatePcs, RollbackPcs
    <3>2. \A u \in Threads : (call[u].slot = s => ~WorksOn(u))'
      BY <2>2, <2>5, <3>1 DEF WorksOn, Works, WorkingPcs
    <3>3. Shown(s)' = runtime'[s]
      BY <2>1, <2>4, <3>2 DEF Shown
    <3>4. runtime'[s] = WithoutClient(r)
      BY <1>1, <2>1, <2>4, <2>10 DEF TakeClient, WithoutClient
    <3>5. Sound(r) /\ r.HandlerServer # NoHandle
      <4>1. r # Nothing
        BY <2>10, Blank, ConfigAssumption DEF FullTeardown, IsEmpty, NoIndex
      <4> QED
        BY <2>8, <2>10, <4>1, ConfigAssumption DEF FullTeardown, Sound, NoIndex
    <3> QED
      BY <2>1, <2>3, <2>4, <2>7, <2>8, <3>3, <3>4, <3>5 DEF Does, Changes, CreatePcs
  <2> QED
    BY <2>9, <2>10
<1> QED
  BY <1>3, <1>4

-----------------------------------------------------------------------------
(* Every step, and the behaviours.                                         *)

\* A destroy that enters its critical section.
LEMMA DestroyDoes ==
  ASSUME IInv, OwnInv, TableInv, TakesUndisturbed, NEW t \in Threads,
         \/ \E s \in Slots, mode \in Modes : Destroy(t, s, mode)
         \/ \E mode \in Modes : DestroySelf(t, mode)
         \/ DestroyFound(t)
  PROVE  \E a \in Slots : Does(t, a)
<1>1. \A s : InUseAndOwned(s) => s \in Slots
  BY Typed DEF InUseAndOwned
<1>2. CASE \E s \in Slots, mode \in Modes : Destroy(t, s, mode)
  <2>1. PICK s \in Slots, mode \in Modes : Destroy(t, s, mode)
    BY <1>2
  <2>2. /\ AboutToTake(t, s, mode) /\ TakeRuntime(t, s, mode) /\ call[t].pc = "idle"
        /\ Begin(t)
    BY <2>1 DEF Destroy, AboutToTake, MayCall, Idle, Begin
  <2> QED
    BY <2>2, TakeDoes DEF TakesUndisturbed
<1>3. CASE \E mode \in Modes : DestroySelf(t, mode)
  <2>1. PICK mode \in Modes : DestroySelf(t, mode)
    BY <1>3
  <2> DEFINE s == tasks[t].pvParameters
  <2>2. /\ AboutToTake(t, s, mode) /\ TakeRuntime(t, s, mode) /\ call[t].pc = "idle"
        /\ Begin(t)
    BY <2>1 DEF DestroySelf, AboutToTake, Idle, WorkingPcs, Begin
  <2> HIDE DEF s
  <2> QED
    BY <1>1, <2>2, TakeDoes DEF TakesUndisturbed
<1>4. CASE DestroyFound(t)
  <2>1. /\ call[t].pc = "take" /\ TakeRuntime(t, call[t].slot, call[t].mode)
        /\ call[t].mode \in Modes /\ Continue(t)
    BY <1>4, Typed DEF DestroyFound, Call, Continue, Teardown
  <2>2. AboutToTake(t, call[t].slot, call[t].mode)
    BY <2>1 DEF AboutToTake
  <2> QED
    BY <1>1, <2>1, <2>2, TakeDoes DEF TakesUndisturbed
<1> QED
  BY <1>2, <1>3, <1>4

\* A lookup shows nothing.
LEMMA LookupDoes ==
  ASSUME IInv, OwnInv, NEW t \in Threads, NEW i \in Indices, NEW mode \in Modes,
         LookupForDestroy(t, i, mode)
  PROVE  \E a \in Slots : Does(t, a)
<1>1. PICK s \in Slots : call' = [call EXCEPT ![t] =
              [IdleCall EXCEPT !.pc = "take", !.slot = s, !.mode = mode]]
  BY DEF LookupForDestroy
<1>2. call'[t].pc = "take" /\ ~Works(call'[t])
  BY <1>1, Typed DEF IdleCall, Works, WorkingPcs, CreatePcs, RollbackPcs
<1>3. call[t].pc = "idle" /\ ~Works(call[t])
  BY DEF LookupForDestroy, MayCall, Idle, Works, WorkingPcs, CreatePcs, RollbackPcs,
         DestroyPcs
<1>4. Begin(t) /\ UNCHANGED <<inUse, runtime>>
  BY DEF LookupForDestroy, Begin, registryVars
<1> QED
  BY <1>2, <1>3, <1>4, IdleDoes

\* Every step of a thread is one of those that Does describes.
LEMMA NextDoes ==
  ASSUME IInv, OwnInv, TableInv, TakesUndisturbed, Ops \cap ForeignOps = {},
         NEW t \in Threads, Begin(t) \/ Continue(t)
  PROVE  \E a \in Slots : Does(t, a)
<1>1. CASE Begin(t)
  <2>1. ~ \E i \in Indices : RemoveMonitoredTask(t, i)
    BY DEF ForeignOps, RemoveMonitoredTask, MayCall
  <2>2. ~ \E s \in Slots : ReleasePointer(t, s)
    BY DEF ForeignOps, ReleasePointer, MayCall
  <2>3. ~InitStore(t)
    BY DEF ForeignOps, InitStore, MayCall
  <2> QED
    BY <1>1, <2>1, <2>2, <2>3, ReserveDoes, DestroyDoes, LookupDoes DEF Begin
<1>2. CASE Continue(t)
  <2>1. CASE Teardown(t)
    <3>1. CASE DestroyFound(t)
      BY <3>1, DestroyDoes
    <3>2. CASE ~DestroyFound(t)
      <4>1. call[t].pc # "take"
        BY <2>1, <3>2
        DEF Teardown, DropTask, DropQueue, DropMonitor, Retire, ReleaseSlot, DropSelf,
            InitChunks
      <4> QED
        BY <2>1, <4>1, TeardownDoes
    <3> QED
      BY <3>1, <3>2
  <2> QED
    BY <1>2, <2>1, CreateDoes, RollbackDoes DEF Continue
<1> QED
  BY <1>1, <1>2

\* So every step keeps what is shown sound, and is a step of the table.
LEMMA NextKeepsTable ==
  ASSUME IInv, IInv', OwnInv, OwnInv', TableInv, TakesUndisturbed,
         Ops \cap ForeignOps = {}, [Next]_vars
  PROVE  TableInv' /\ [Table!TableNext]_Shows
<1>1. CASE UNCHANGED vars
  <2>1. UNCHANGED <<inUse, runtime, monitor, tasks, liveQueues, call>>
    BY <1>1 DEF vars, registryVars, monitorVars, kernelVars
  <2>2. \A s \in Slots : Shown(s)' = Shown(s)
    BY <2>1 DEF Shown, WorksOn
  <2>3. Shows' = Shows
    BY <2>1, <2>2 DEF Shows, PairIn, HalfOf, LiveTasks, Active
  <2>4. TableInv'
    <3>1. \A s \in Slots : (Shown(s) = Nothing \/ Sound(Shown(s)))'
      BY <2>2 DEF TableInv, Sound
    <3>2. \A t \in Threads : (call[t].pc \in CreatePcs => Stored(call[t], Built(t)))'
      BY <2>1 DEF TableInv, Stored, Built
    <3> QED
      BY <3>1, <3>2 DEF TableInv
  <2> QED
    BY <2>3, <2>4
<1>2. CASE Next
  <2>1. PICK t \in Threads : Begin(t) \/ Continue(t)
    BY <1>2 DEF Next
  <2>2. PICK a \in Slots : Does(t, a)
    BY <2>1, NextDoes
  <2> QED
    BY <2>2, DoesKeeps, DoesShow
<1> QED
  BY <1>1, <1>2

\* Before the first creation there is no pair.
LEMMA InitTable ==
  ASSUME Init
  PROVE  TableInv /\ Table!TableInit
<1>1. inUse = {} /\ liveQueues = {} /\ \A t \in Threads : call[t].pc = "idle"
  BY DEF Init, InitRegistry, IdleCall
<1>2. LiveTasks = {} /\ Active = {}
  BY DEF Init, InitMonitor, LiveTasks, Active, DeadTask, ZeroEntry
<1>3. \A s \in Slots : Shown(s) = Nothing
  BY <1>1 DEF Shown
<1>4. TableInv
  BY <1>1, <1>3 DEF TableInv, CreatePcs
<1>5. \A s \in Slots : PairIn(s) = Table!NoPair
  BY <1>1, <1>2 DEF PairIn, HalfOf, Table!NoPair, Table!NoHalf
<1> QED
  BY <1>4, <1>5 DEF Table!TableInit

\* Threads that keep apart implement the table: whoever else creates and tears
\* down pairs meanwhile, a pair appears whole and of its own, loses its client
\* half if anything, and goes at once.
THEOREM PairsKeepTable ==
  ASSUME CallersKeepApart
  PROVE  Spec => KeepsTable
<1>1. Ops \cap ForeignOps = {}
  BY DEF CallersKeepApart, OwnersOnly, TasksOnly, OneCallerOnly, ForeignOps
<1>2. /\ IInv /\ IInv' /\ OwnInv /\ OwnInv' /\ TakesUndisturbed /\ TableInv /\ [Next]_vars
         => TableInv' /\ [Table!TableNext]_Shows
  BY <1>1, NextKeepsTable
<1>3. [Table!TableNext]_Shows => [Table!TableNext]_([s \in Slots |-> PairIn(s)])
  BY DEF Shows
<1> QED
  BY <1>2, <1>3, InitTable, InvariantHolds, PairsAreOwned, ApartIsUndisturbed, PTL
  DEF Spec, KeepsTable, Table!TableSpec
=============================================================================
