-------------------------- MODULE OwnershipProofs --------------------------
(***************************************************************************)
(* For every number of threads, tasks, queues and slots: whatever is       *)
(* created has one holder until it is deleted, as long as nobody takes a   *)
(* pair another thread is at work on; and threads that keep to one of the  *)
(* disciplines of Ownership never do.                                      *)
(*                                                                         *)
(* A step of a thread touches the record of one slot and the locals of     *)
(* that thread, so each action is brought into one form (Steps: what the   *)
(* two let go of and take hold of), and that the form keeps the invariant  *)
(* is proved once (StepKeeps).                                             *)
(***************************************************************************)
EXTENDS Ownership, TaskManagerProofs

-----------------------------------------------------------------------------
(* What is held in places, whatever it is.                                 *)

\* A place changes only in slot s or in thread t.
Near(p, s, t) ==
    \/ p[1] = "slot" /\ p[2] = s
    \/ p[1] = "thread" /\ p[2] = t

\* What is in the places near slot s and thread t.
NearHold(recs, locs, s, t, none) ==
    /\ \A p \in Places : Near(p, s, t) =>
          \/ Content(recs, locs, p) = none
          \/ Content(recs, locs, p) \in Contents(recs[s], locs[t], none)
    /\ \A x \in Contents(recs[s], locs[t], none) :
          \E p \in Places : Near(p, s, t) /\ Content(recs, locs, p) = x

\* There are five of them, and what they hold is what the record and the locals do.
LEMMA NearPlaces ==
  ASSUME NEW recs, NEW locs, NEW s \in Slots, NEW t \in Threads, NEW none
  PROVE  NearHold(recs, locs, s, t, none)
<1>1. \A i \in 1..2 : <<"slot", s, i>> \in Places /\ Near(<<"slot", s, i>>, s, t)
  BY DEF Places, Near
<1>2. \A i \in 1..3 : <<"thread", t, i>> \in Places /\ Near(<<"thread", t, i>>, s, t)
  BY DEF Places, Near
<1>3. /\ Content(recs, locs, <<"slot", s, 1>>) = recs[s][1]
      /\ Content(recs, locs, <<"slot", s, 2>>) = recs[s][2]
      /\ Content(recs, locs, <<"thread", t, 1>>) = locs[t][1]
      /\ Content(recs, locs, <<"thread", t, 2>>) = locs[t][2]
      /\ Content(recs, locs, <<"thread", t, 3>>) = locs[t][3]
  BY DEF Content
<1>4. \A x \in Contents(recs[s], locs[t], none) :
         \E p \in Places : Near(p, s, t) /\ Content(recs, locs, p) = x
  BY <1>1, <1>2, <1>3 DEF Contents
<1>5. ASSUME NEW p \in Places, Near(p, s, t)
      PROVE  \/ Content(recs, locs, p) = none
             \/ Content(recs, locs, p) \in Contents(recs[s], locs[t], none)
  <2>1. \/ p = <<"slot", s, 1>> \/ p = <<"slot", s, 2>>
        \/ p = <<"thread", t, 1>> \/ p = <<"thread", t, 2>> \/ p = <<"thread", t, 3>>
    BY <1>5 DEF Places, Near
  <2> QED
    BY <2>1, <1>3 DEF Contents
<1> QED
  BY <1>4, <1>5 DEF NearHold

\* What is held in one place is not in another, spelt out for the five places.
LEMMA HeldApart ==
  ASSUME NEW recs, NEW locs, NEW live, NEW none, HeldOnce(recs, locs, live, none),
         NEW s \in Slots, NEW t \in Threads
  PROVE  /\ Apart(recs[s], locs[t], none)
         /\ Contents(recs[s], locs[t], none) \subseteq live
<1> DEFINE P == <<<<"slot", s, 1>>, <<"slot", s, 2>>, <<"thread", t, 1>>,
                  <<"thread", t, 2>>, <<"thread", t, 3>>>>
<1>1. /\ <<"slot", s, 1>> \in Places /\ <<"slot", s, 2>> \in Places
      /\ <<"thread", t, 1>> \in Places /\ <<"thread", t, 2>> \in Places
      /\ <<"thread", t, 3>> \in Places
  BY DEF Places
<1>3. /\ Content(recs, locs, <<"slot", s, 1>>) = recs[s][1]
      /\ Content(recs, locs, <<"slot", s, 2>>) = recs[s][2]
      /\ Content(recs, locs, <<"thread", t, 1>>) = locs[t][1]
      /\ Content(recs, locs, <<"thread", t, 2>>) = locs[t][2]
      /\ Content(recs, locs, <<"thread", t, 3>>) = locs[t][3]
  BY DEF Content
<1>4. Contents(recs[s], locs[t], none) \subseteq live
  BY <1>1, <1>3 DEF HeldOnce, Contents
<1>5. Apart(recs[s], locs[t], none)
  BY <1>1, <1>3 DEF HeldOnce, Apart
<1> QED
  BY <1>4, <1>5

\* No two places near slot s and thread t hold the same.
NearApart(recs, locs, s, t, none) ==
    \A p, q \in Places :
        /\ Near(p, s, t) /\ Near(q, s, t)
        /\ Content(recs, locs, p) = Content(recs, locs, q)
        /\ Content(recs, locs, p) # none
        => p = q

\* Five places that are apart tell what is in them.
LEMMA ApartPlaces ==
  ASSUME NEW recs, NEW locs, NEW none, NEW s \in Slots, NEW t \in Threads,
         Apart(recs[s], locs[t], none)
  PROVE  NearApart(recs, locs, s, t, none)
<1> SUFFICES ASSUME NEW p \in Places, NEW q \in Places, Near(p, s, t), Near(q, s, t),
                    Content(recs, locs, p) = Content(recs, locs, q),
                    Content(recs, locs, p) # none
             PROVE  p = q
  BY DEF NearApart
<1>1. /\ Content(recs, locs, <<"slot", s, 1>>) = recs[s][1]
      /\ Content(recs, locs, <<"slot", s, 2>>) = recs[s][2]
      /\ Content(recs, locs, <<"thread", t, 1>>) = locs[t][1]
      /\ Content(recs, locs, <<"thread", t, 2>>) = locs[t][2]
      /\ Content(recs, locs, <<"thread", t, 3>>) = locs[t][3]
  BY DEF Content
<1>2. ASSUME NEW x \in Places, Near(x, s, t)
      PROVE  \/ x = <<"slot", s, 1>> \/ x = <<"slot", s, 2>>
             \/ x = <<"thread", t, 1>> \/ x = <<"thread", t, 2>>
             \/ x = <<"thread", t, 3>>
  BY <1>2 DEF Places, Near
<1> QED
  BY <1>1, <1>2 DEF Apart

\* Two fields of records that hold the same are one.
LEMMA SlotsApart ==
  ASSUME NEW recs, NEW locs, NEW live, NEW none, HeldOnce(recs, locs, live, none),
         NEW r \in Slots, NEW s \in Slots, NEW j \in 1..2, NEW k \in 1..2,
         recs[r][j] = recs[s][k], recs[r][j] # none
  PROVE  r = s /\ j = k
<1> DEFINE p == <<"slot", r, j>>
           q == <<"slot", s, k>>
<1>1. p \in Places /\ q \in Places
  BY DEF Places
<1>2. Content(recs, locs, p) = recs[r][j] /\ Content(recs, locs, q) = recs[s][k]
  BY DEF Content
<1>3. p = q => p[2] = q[2] /\ p[3] = q[3]
  OBVIOUS
<1>4. p[2] = r /\ q[2] = s /\ p[3] = j /\ q[3] = k
  OBVIOUS
<1> HIDE DEF p, q
<1>5. p = q
  BY <1>1, <1>2 DEF HeldOnce
<1> QED
  BY <1>3, <1>4, <1>5

\* The step of one thread on one slot: what it lets go of is dead or held
\* elsewhere near, what it takes hold of is new or was held near.
LEMMA HeldStep ==
  ASSUME NEW recs, NEW locs, NEW live, NEW none, HeldOnce(recs, locs, live, none),
         NEW recs2, NEW locs2, NEW live2, none \notin live2,
         NEW s \in Slots, NEW t \in Threads,
         \A x \in Slots \ {s} : recs2[x] = recs[x],
         \A u \in Threads \ {t} : locs2[u] = locs[u],
         Apart(recs2[s], locs2[t], none),
         Contents(recs2[s], locs2[t], none)
            \cap (live \ Contents(recs[s], locs[t], none)) = {},
         live2 = (live \ Contents(recs[s], locs[t], none))
                    \cup Contents(recs2[s], locs2[t], none)
  PROVE  HeldOnce(recs2, locs2, live2, none)
<1> DEFINE before == Contents(recs[s], locs[t], none)
           after == Contents(recs2[s], locs2[t], none)
           was(p) == Content(recs, locs, p)
           is(p) == Content(recs2, locs2, p)
<1>1. \A p \in Places : Near(p, s, t) \/ is(p) = was(p)
  BY DEF Places, Near, Content
<1>2. /\ \A p \in Places : Near(p, s, t) => was(p) = none \/ was(p) \in before
      /\ \A x \in before : \E p \in Places : Near(p, s, t) /\ was(p) = x
      /\ \A p \in Places : Near(p, s, t) => is(p) = none \/ is(p) \in after
      /\ \A x \in after : \E p \in Places : Near(p, s, t) /\ is(p) = x
  <2>1. NearHold(recs, locs, s, t, none) /\ NearHold(recs2, locs2, s, t, none)
    BY NearPlaces
  <2> QED
    BY <2>1 DEF NearHold
<1>3. /\ \A p \in Places : was(p) = none \/ was(p) \in live
      /\ \A p, q \in Places : was(p) = was(q) /\ was(p) # none => p = q
      /\ \A x \in live : \E p \in Places : was(p) = x
  BY DEF HeldOnce
<1>4. \A p, q \in Places : Near(p, s, t) /\ Near(q, s, t) /\ is(p) = is(q)
                              /\ is(p) # none => p = q
  <2>1. NearApart(recs2, locs2, s, t, none)
    BY ApartPlaces
  <2> QED
    BY <2>1 DEF NearApart
<1>5. \A p \in Places : ~Near(p, s, t) => was(p) \notin before \/ was(p) = none
  BY <1>2, <1>3
<1> HIDE DEF before, after, was, is
<1>6. \A p \in Places : is(p) = none \/ is(p) \in live2
  BY <1>1, <1>2, <1>3, <1>5 DEF before, after
<1>7. \A p, q \in Places : is(p) = is(q) /\ is(p) # none => p = q
  <2>1. after \cap (live \ before) = {}
    BY DEF before, after
  <2>2. ASSUME NEW p \in Places, NEW q \in Places, Near(p, s, t), ~Near(q, s, t),
               is(p) = is(q), is(p) # none
        PROVE  FALSE
    BY <1>1, <1>2, <1>3, <1>5, <2>1, <2>2
  <2> QED
    BY <1>1, <1>3, <1>4, <2>2
<1>8. \A x \in live2 : \E p \in Places : is(p) = x
  <2>1. ASSUME NEW x \in live \ before PROVE \E p \in Places : is(p) = x
    <3>1. PICK p \in Places : was(p) = x
      BY <1>3, <2>1
    <3>2. ~Near(p, s, t) \/ x = none
      BY <1>2, <2>1, <3>1
    <3>3. x # none
      BY <2>1 DEF HeldOnce
    <3> QED
      BY <1>1, <3>1, <3>2, <3>3
  <2>2. ASSUME NEW x \in after PROVE \E p \in Places : is(p) = x
    BY <1>2, <2>2
  <2> QED
    BY <2>1, <2>2 DEF before, after
<1> QED
  BY <1>6, <1>7, <1>8 DEF HeldOnce, is

\* A holder outside slot s and thread t holds something else.
LEMMA HeldElsewhere ==
  ASSUME NEW recs, NEW locs, NEW live, NEW none, HeldOnce(recs, locs, live, none),
         NEW s \in Slots, NEW t \in Threads
  PROVE  /\ \A x \in Slots \ {s} : \A i \in 1..2 :
               recs[x][i] \notin Contents(recs[s], locs[t], none)
         /\ \A u \in Threads \ {t} : \A i \in 1..3 :
               locs[u][i] \notin Contents(recs[s], locs[t], none)
<1>1. \A x \in Contents(recs[s], locs[t], none) :
         \E p \in Places : Near(p, s, t) /\ Content(recs, locs, p) = x /\ x # none
  <2>1. NearHold(recs, locs, s, t, none)
    BY NearPlaces
  <2> QED
    BY <2>1 DEF NearHold, Contents
<1>2. ASSUME NEW x \in Slots \ {s}, NEW i \in 1..2
      PROVE  recs[x][i] \notin Contents(recs[s], locs[t], none)
  <2>1. <<"slot", x, i>> \in Places /\ ~Near(<<"slot", x, i>>, s, t)
    BY DEF Places, Near
  <2>2. Content(recs, locs, <<"slot", x, i>>) = recs[x][i]
    BY DEF Content
  <2> QED
    BY <1>1, <2>1, <2>2 DEF HeldOnce
<1>3. ASSUME NEW u \in Threads \ {t}, NEW i \in 1..3
      PROVE  locs[u][i] \notin Contents(recs[s], locs[t], none)
  <2>1. <<"thread", u, i>> \in Places /\ ~Near(<<"thread", u, i>>, s, t)
    BY DEF Places, Near
  <2>2. Content(recs, locs, <<"thread", u, i>>) = locs[u][i]
    BY DEF Content
  <2> QED
    BY <1>1, <2>1, <2>2 DEF HeldOnce
<1> QED
  BY <1>2, <1>3

-----------------------------------------------------------------------------
(* One step of one thread.  Thread t goes on with the locals c, and of the *)
(* records only that of slot s becomes r.                                  *)

Moves(t, s, c, r) ==
    /\ call' = [call EXCEPT ![t] = c]
    /\ Records' = [Records EXCEPT ![s] = r]
    /\ \A x \in Slots \ {s} : x \in inUse' <=> x \in inUse

\* The record and the slot are left alone.
Untouched(s, r) == r = Records[s] /\ (s \in inUse' <=> s \in inUse)

\* What t has to respect, and where it gets to.
Respects(t, s, c, r) ==
    /\ Alone(t, s) \/ Untouched(s, r)
    /\ Works(call[t]) => call[t].slot = s
    /\ c.slot \in {s, NoSlot}
    /\ Shape(t, c)
    /\ Works(c) => WorkRecord(c, r)
    /\ Engaged(t, c) => c.slot = s /\ s \in inUse' /\ Alone(t, s)
    /\ r.lifecycle_state # "READY" =>
          Works(c) \/ (r = Records[s] /\ ~Works(call[t]))

\* What t, with record r0 and locals c0, lets go of and takes hold of.
Trades(r0, c0, r, c, none, live, live2) ==
    /\ Apart(r, c, none)
    /\ Contents(r, c, none) \cap (live \ Contents(r0, c0, none)) = {}
    /\ live2 = (live \ Contents(r0, c0, none)) \cup Contents(r, c, none)

TradesTasks(t, s, c, r) ==
    Trades(RecordTasks(Records[s]), CallTasks(call[t]), RecordTasks(r),
           CallTasks(c), NoHandle, LiveTasks, LiveTasks')

TradesQueues(t, s, c, r) ==
    Trades(RecordQueues(Records[s]), CallQueues(call[t]), RecordQueues(r),
           CallQueues(c), NoHandle, liveQueues, liveQueues')

TradesEntries(t, s, c, r) ==
    Trades(RecordEntries(Records[s]), CallEntries(call[t]), RecordEntries(r),
           CallEntries(c), NoIndex, Active, Active')

\* A task is changed by its birth and its death only.
Feeds(t, s, c, r) ==
    /\ \A h \in TaskHandles :
          tasks'[h] = tasks[h] \/ h \notin LiveTasks \/ h \notin LiveTasks'
    /\ RecordFeeds(tasks', s, r)
    /\ c.slot = s => CallFeeds(tasks', t, c, r)

\* The entries that the locals of thread t name, and those of slot s.
OwnEntries(t) == {CallEntries(call[t])[1], CallEntries(call[t])[2],
                  CallEntries(call[t])[3]}
SlotEntries(s) == {RecordEntries(Records[s])[1], RecordEntries(Records[s])[2]}

\* An active entry is written by the call that holds it or whose slot does.
Links(t, s, c, r) ==
    /\ \A i \in Active :
          \/ monitor'[i] = monitor[i]
          \/ i \in OwnEntries(t)
          \/ Alone(t, s) /\ i \in SlotEntries(s)
    /\ \/ Works(c)
       \/ Linked(monitor', r)
       \/ /\ r = Records[s] /\ ~Works(call[t])
          /\ \A i \in Active : monitor'[i] = monitor[i] \/ i \in OwnEntries(t)
    /\ c.pc = "linkPeer" => HalfLinked(monitor', r)

Steps(t, s, c, r) ==
    /\ Moves(t, s, c, r) /\ Respects(t, s, c, r)
    /\ TradesTasks(t, s, c, r) /\ TradesQueues(t, s, c, r)
    /\ TradesEntries(t, s, c, r)
    /\ Feeds(t, s, c, r) /\ Links(t, s, c, r)

\* The types that every lemma below relies on.
LEMMA Typed ==
  ASSUME IInv
  PROVE  /\ \A t \in Threads : call[t] \in Call
         /\ call \in [Threads -> Call]
         /\ \A s \in Slots : runtime[s] \in Runtime
         /\ inUse \subseteq Slots
         /\ Records \in [Slots -> Runtime]
         /\ Nothing \in Runtime
         /\ NoSlot \notin Slots
         /\ NoHandle \notin TaskHandles /\ NoHandle \notin QueueHandles
         /\ NoIndex \notin Indices
         /\ LiveTasks \subseteq TaskHandles /\ Active \subseteq Indices
         /\ liveQueues \subseteq QueueHandles
<1>1. /\ call \in [Threads -> Call]
      /\ runtime \in [Slots -> Runtime]
      /\ inUse \subseteq Slots
      /\ liveQueues \subseteq QueueHandles
  BY DEF IInv, CallInv, RegistryInv, RegistryTypeOK, KernelInv
<1>2. Nothing \in Runtime
  BY IdleCallOK
<1>3. \A r \in Runtime : WithoutIndices(r) \in Runtime
  BY DEF WithoutIndices, Runtime, MaybeIndex
<1>4. Records \in [Slots -> Runtime]
  BY <1>1, <1>2, <1>3 DEF Records, RecordOf
<1>5. /\ NoSlot \notin Slots /\ NoHandle \notin TaskHandles
      /\ NoHandle \notin QueueHandles /\ NoIndex \notin Indices
  BY ConfigAssumption DEF NoSlot, Slots, NoHandle, NoIndex, Indices
<1> QED
  BY <1>1, <1>2, <1>4, <1>5 DEF LiveTasks, Active

\* What thread t and slot s hold is held by no other, and is alive.
LEMMA NearHeld ==
  ASSUME IInv, OwnInv, NEW t \in Threads, NEW s \in Slots
  PROVE  /\ Apart(RecordTasks(Records[s]), CallTasks(call[t]), NoHandle)
         /\ Contents(RecordTasks(Records[s]), CallTasks(call[t]), NoHandle)
               \subseteq LiveTasks
         /\ Apart(RecordQueues(Records[s]), CallQueues(call[t]), NoHandle)
         /\ Contents(RecordQueues(Records[s]), CallQueues(call[t]), NoHandle)
               \subseteq liveQueues
         /\ Apart(RecordEntries(Records[s]), CallEntries(call[t]), NoIndex)
         /\ Contents(RecordEntries(Records[s]), CallEntries(call[t]), NoIndex)
               \subseteq Active
<1>1. TasksHeld /\ QueuesHeld /\ EntriesHeld
  BY DEF OwnInv
<1>2. /\ Apart(RecordTasks(Records[s]), CallTasks(call[t]), NoHandle)
      /\ Contents(RecordTasks(Records[s]), CallTasks(call[t]), NoHandle)
            \subseteq LiveTasks
  <2> DEFINE recs == [x \in Slots |-> RecordTasks(Records[x])]
             locs == [u \in Threads |-> CallTasks(call[u])]
  <2>1. HeldOnce(recs, locs, LiveTasks, NoHandle)
    BY <1>1 DEF TasksHeld
  <2>2. recs[s] = RecordTasks(Records[s]) /\ locs[t] = CallTasks(call[t])
    OBVIOUS
  <2> HIDE DEF recs, locs
  <2> QED
    BY <2>1, <2>2, HeldApart
<1>3. /\ Apart(RecordQueues(Records[s]), CallQueues(call[t]), NoHandle)
      /\ Contents(RecordQueues(Records[s]), CallQueues(call[t]), NoHandle)
            \subseteq liveQueues
  <2> DEFINE recs == [x \in Slots |-> RecordQueues(Records[x])]
             locs == [u \in Threads |-> CallQueues(call[u])]
  <2>1. HeldOnce(recs, locs, liveQueues, NoHandle)
    BY <1>1 DEF QueuesHeld
  <2>2. recs[s] = RecordQueues(Records[s]) /\ locs[t] = CallQueues(call[t])
    OBVIOUS
  <2> HIDE DEF recs, locs
  <2> QED
    BY <2>1, <2>2, HeldApart
<1>4. /\ Apart(RecordEntries(Records[s]), CallEntries(call[t]), NoIndex)
      /\ Contents(RecordEntries(Records[s]), CallEntries(call[t]), NoIndex)
            \subseteq Active
  <2> DEFINE recs == [x \in Slots |-> RecordEntries(Records[x])]
             locs == [u \in Threads |-> CallEntries(call[u])]
  <2>1. HeldOnce(recs, locs, Active, NoIndex)
    BY <1>1 DEF EntriesHeld
  <2>2. recs[s] = RecordEntries(Records[s]) /\ locs[t] = CallEntries(call[t])
    OBVIOUS
  <2> HIDE DEF recs, locs
  <2> QED
    BY <2>1, <2>2, HeldApart
<1> QED
  BY <1>2, <1>3, <1>4

\* A step moves the holders of tasks, of queues and of entries as it trades.
LEMMA HoldersStep ==
  ASSUME IInv, IInv', OwnInv, NEW t \in Threads, NEW s \in Slots, NEW c, NEW r,
         Steps(t, s, c, r)
  PROVE  TasksHeld' /\ QueuesHeld' /\ EntriesHeld'
<1>1. /\ \A x \in Slots \ {s} : Records'[x] = Records[x]
      /\ Records'[s] = r
      /\ \A u \in Threads \ {t} : call'[u] = call[u]
      /\ call'[t] = c
  BY Typed DEF Steps, Moves
<1>2. TasksHeld'
  <2> DEFINE recs == [x \in Slots |-> RecordTasks(Records[x])]
             locs == [u \in Threads |-> CallTasks(call[u])]
             recs2 == [x \in Slots |-> RecordTasks(Records'[x])]
             locs2 == [u \in Threads |-> CallTasks(call'[u])]
  <2>1. HeldOnce(recs, locs, LiveTasks, NoHandle)
    BY DEF OwnInv, TasksHeld
  <2>2. /\ \A x \in Slots \ {s} : recs2[x] = recs[x]
        /\ \A u \in Threads \ {t} : locs2[u] = locs[u]
        /\ recs[s] = RecordTasks(Records[s]) /\ locs[t] = CallTasks(call[t])
        /\ recs2[s] = RecordTasks(r) /\ locs2[t] = CallTasks(c)
    BY <1>1
  <2>3. Trades(recs[s], locs[t], recs2[s], locs2[t], NoHandle, LiveTasks, LiveTasks')
    BY <2>2 DEF Steps, TradesTasks
  <2>4. NoHandle \notin LiveTasks'
    BY Typed, ConfigAssumption DEF LiveTasks, NoHandle
  <2>5. HeldOnce(recs2, locs2, LiveTasks', NoHandle)
    <3> HIDE DEF recs, locs, recs2, locs2
    <3> QED
      BY <2>1, <2>2, <2>3, <2>4, HeldStep DEF Trades
  <2> QED
    BY <2>5 DEF TasksHeld
<1>3. QueuesHeld'
  <2> DEFINE recs == [x \in Slots |-> RecordQueues(Records[x])]
             locs == [u \in Threads |-> CallQueues(call[u])]
             recs2 == [x \in Slots |-> RecordQueues(Records'[x])]
             locs2 == [u \in Threads |-> CallQueues(call'[u])]
  <2>1. HeldOnce(recs, locs, liveQueues, NoHandle)
    BY DEF OwnInv, QueuesHeld
  <2>2. /\ \A x \in Slots \ {s} : recs2[x] = recs[x]
        /\ \A u \in Threads \ {t} : locs2[u] = locs[u]
        /\ recs[s] = RecordQueues(Records[s]) /\ locs[t] = CallQueues(call[t])
        /\ recs2[s] = RecordQueues(r) /\ locs2[t] = CallQueues(c)
    BY <1>1
  <2>3. Trades(recs[s], locs[t], recs2[s], locs2[t], NoHandle, liveQueues, liveQueues')
    BY <2>2 DEF Steps, TradesQueues
  <2>4. NoHandle \notin liveQueues'
    BY ConfigAssumption DEF NoHandle, IInv, KernelInv
  <2>5. HeldOnce(recs2, locs2, liveQueues', NoHandle)
    <3> HIDE DEF recs, locs, recs2, locs2
    <3> QED
      BY <2>1, <2>2, <2>3, <2>4, HeldStep DEF Trades
  <2> QED
    BY <2>5 DEF QueuesHeld
<1>4. EntriesHeld'
  <2> DEFINE recs == [x \in Slots |-> RecordEntries(Records[x])]
             locs == [u \in Threads |-> CallEntries(call[u])]
             recs2 == [x \in Slots |-> RecordEntries(Records'[x])]
             locs2 == [u \in Threads |-> CallEntries(call'[u])]
  <2>1. HeldOnce(recs, locs, Active, NoIndex)
    BY DEF OwnInv, EntriesHeld
  <2>2. /\ \A x \in Slots \ {s} : recs2[x] = recs[x]
        /\ \A u \in Threads \ {t} : locs2[u] = locs[u]
        /\ recs[s] = RecordEntries(Records[s]) /\ locs[t] = CallEntries(call[t])
        /\ recs2[s] = RecordEntries(r) /\ locs2[t] = CallEntries(c)
    BY <1>1
  <2>3. Trades(recs[s], locs[t], recs2[s], locs2[t], NoIndex, Active, Active')
    BY <2>2 DEF Steps, TradesEntries
  <2>4. NoIndex \notin Active'
    BY DEF Active, NoIndex, Indices
  <2>5. HeldOnce(recs2, locs2, Active', NoIndex)
    <3> HIDE DEF recs, locs, recs2, locs2
    <3> QED
      BY <2>1, <2>2, <2>3, <2>4, HeldStep DEF Trades
  <2> QED
    BY <2>5 DEF EntriesHeld
<1> QED
  BY <1>2, <1>3, <1>4

\* Other calls stand where they stood, and none is disturbed.
LEMMA StandingStep ==
  ASSUME IInv, IInv', OwnInv, NEW t \in Threads, NEW s \in Slots, NEW c, NEW r,
         Steps(t, s, c, r)
  PROVE  CallsShaped' /\ WorkShaped' /\ OneEngaged' /\ MarkedIsWorked'
<1>1. /\ \A x \in Slots \ {s} : Records'[x] = Records[x]
      /\ Records'[s] = r
      /\ \A u \in Threads \ {t} : call'[u] = call[u]
      /\ call'[t] = c
      /\ \A x \in Slots \ {s} : x \in inUse' <=> x \in inUse
      /\ inUse \subseteq Slots
  BY Typed DEF Steps, Moves
<1>2. Respects(t, s, c, r)
  BY DEF Steps
<1>3. \A u : Works(call[u]) => Engaged(u, call[u])
  BY DEF Engaged
<1>4. CallsShaped'
  BY <1>1, <1>2 DEF OwnInv, CallsShaped, Respects
<1>5. WorkShaped'
  <2> SUFFICES ASSUME NEW u \in Threads, Works(call'[u])
               PROVE  WorkRecord(call'[u], Records'[call'[u].slot])
    BY DEF WorkShaped
  <2>1. CASE u = t
    <3>1. Works(c) /\ c.slot = s
      BY <1>1, <1>2, <2>1 DEF Respects, Engaged
    <3> QED
      BY <1>1, <1>2, <2>1, <3>1 DEF Respects
  <2>2. CASE u # t
    <3>1. Works(call[u]) /\ call[u].slot \in Slots /\ call'[u] = call[u]
      BY <1>1, <1>3, <2>2 DEF OwnInv, OneEngaged
    <3>2. Records'[call[u].slot] = Records[call[u].slot]
      BY <1>1, <1>2, <1>3, <2>2, <3>1 DEF Respects, Alone, Untouched
    <3> QED
      BY <3>1, <3>2 DEF OwnInv, WorkShaped
  <2> QED
    BY <2>1, <2>2
<1>6. OneEngaged'
  <2>1. ASSUME NEW u \in Threads \ {t}, Engaged(u, call'[u])
        PROVE  /\ Engaged(u, call[u]) /\ call[u].slot \in inUse
               /\ call'[u] = call[u] /\ call[u].slot \in inUse'
    <3>1. Engaged(u, call[u]) /\ call'[u] = call[u] /\ call[u].slot \in inUse
      BY <1>1, <2>1 DEF OwnInv, OneEngaged
    <3> QED
      BY <1>1, <1>2, <3>1 DEF Respects, Alone, Untouched
  <2>2. Engaged(t, c) => /\ c.slot = s /\ s \in inUse'
                         /\ \A u \in Threads \ {t} :
                               Engaged(u, call'[u]) => call'[u].slot # s
    BY <1>1, <1>2 DEF Respects, Alone
  <2> QED
    BY <1>1, <2>1, <2>2 DEF OwnInv, OneEngaged
<1>7. MarkedIsWorked'
  <2> SUFFICES ASSUME NEW x \in Slots, Records'[x].lifecycle_state # "READY"
               PROVE  \E u \in Threads : Works(call'[u]) /\ call'[u].slot = x
    BY DEF MarkedIsWorked
  <2>1. CASE x # s
    <3>1. PICK u \in Threads : Works(call[u]) /\ call[u].slot = x
      BY <1>1, <2>1 DEF OwnInv, MarkedIsWorked
    <3>2. u # t
      BY <1>2, <2>1, <3>1 DEF Respects
    <3> QED
      BY <1>1, <3>1, <3>2
  <2>2. CASE x = s /\ Works(c)
    BY <1>1, <1>2, <2>2 DEF Respects, Engaged
  <2>3. CASE x = s /\ ~Works(c)
    <3>1. r = Records[s] /\ ~Works(call[t])
      BY <1>1, <1>2, <2>3 DEF Respects
    <3>2. PICK u \in Threads : Works(call[u]) /\ call[u].slot = s
      BY <1>1, <2>3, <3>1 DEF OwnInv, MarkedIsWorked
    <3> QED
      BY <1>1, <2>3, <3>1, <3>2
  <2> QED
    BY <2>1, <2>2, <2>3
<1> QED
  BY <1>4, <1>5, <1>6, <1>7

\* A record and a call that hold nothing.
LEMMA Blank ==
  /\ IsEmpty(Nothing) /\ Nothing.lifecycle_state = "READY" /\ Nothing.pair_id = 0
  /\ IdleCall.pc = "idle" /\ IdleCall.slot = NoSlot /\ IdleCall.idx = NoIndex
  /\ IdleCall.task = NoHandle /\ IdleCall.full = FALSE /\ IdleCall.got = Nothing
  /\ IdleCall.seg = "client"
<1>1. IsEmpty(Nothing) /\ Nothing.lifecycle_state = "READY" /\ Nothing.pair_id = 0
  BY DEF Nothing, ZeroRuntime, IsEmpty
<1> QED
  BY <1>1 DEF IdleCall

\* A call that holds a task takes its queues from its slot's record only while
\* it is engaged on the slot.
LEMMA FedByRecord ==
  ASSUME IInv, OwnInv, NEW u \in Threads, ~Engaged(u, call[u])
  PROVE  /\ call[u].task = NoHandle
         /\ ~call[u].full =>
               {call[u].got.HandlerClient, call[u].got.HandlerServer}
                  \subseteq {NoHandle, u}
<1>1. call[u] \in Call /\ Shape(u, call[u])
  BY Typed DEF OwnInv, CallsShaped
<1>2. CASE call[u].pc = "idle"
  BY <1>1, <1>2, Blank DEF Shape, IsEmpty
<1>3. CASE call[u].pc \in DestroyPcs
  <2>1. DestroyShape(u, call[u]) /\ call[u].got \in Runtime
    BY <1>1, <1>3 DEF Shape, Call
  <2>2. CASE call[u].pc = "take"
    BY <2>1, <2>2, Blank DEF DestroyShape, IsEmpty
  <2>3. CASE call[u].pc # "dropClient" /\ call[u].pc # "take"
    BY <2>1, <2>3 DEF DestroyShape
  <2>4. CASE call[u].pc = "dropClient"
    <3>1. u \in TaskHandles
      BY <1>3, <2>4 DEF Engaged, Threads
    <3> QED
      BY <2>1, <2>4, <3>1, Typed DEF DestroyShape
  <2> QED
    BY <2>2, <2>3, <2>4
<1>4. call[u].pc \notin CreatePcs \cup RollbackPcs
  BY DEF Engaged, Works, WorkingPcs
<1>5. call[u].pc \in {"idle", "initRegistry"} \cup CreatePcs \cup RollbackPcs
                        \cup DestroyPcs
  BY <1>1 DEF Call
<1> QED
  BY <1>1, <1>2, <1>3, <1>4, <1>5 DEF Shape

\* Tasks keep the queues they started with within reach.
LEMMA FedStep ==
  ASSUME IInv, IInv', OwnInv, NEW t \in Threads, NEW s \in Slots, NEW c, NEW r,
         Steps(t, s, c, r), TasksHeld'
  PROVE  TasksFed'
<1>1. /\ \A x \in Slots \ {s} : Records'[x] = Records[x]
      /\ Records'[s] = r
      /\ \A u \in Threads \ {t} : call'[u] = call[u]
      /\ call'[t] = c
      /\ NoSlot \notin Slots
  BY Typed DEF Steps, Moves
<1>2. Respects(t, s, c, r) /\ Feeds(t, s, c, r)
  BY DEF Steps
<1>3. /\ \A x \in Slots : \A h : h \in {Records[x].HandlerClient, Records[x].HandlerServer}
                               \ {NoHandle} => h \in LiveTasks
      /\ \A u \in Threads : \A h : h \in {call[u].task, call[u].got.HandlerClient,
                                      call[u].got.HandlerServer} \ {NoHandle}
                                  => h \in LiveTasks
  BY NearHeld DEF Contents, RecordTasks, CallTasks
<1>4. /\ \A x \in Slots : \A h : h \in {Records'[x].HandlerClient, Records'[x].HandlerServer}
                               \ {NoHandle} => h \in LiveTasks'
      /\ \A u \in Threads : \A h : h \in {call'[u].task, call'[u].got.HandlerClient,
                                      call'[u].got.HandlerServer} \ {NoHandle}
                                  => h \in LiveTasks'
  <2> DEFINE recs == [x \in Slots |-> RecordTasks(Records'[x])]
             locs == [u \in Threads |-> CallTasks(call'[u])]
  <2>1. HeldOnce(recs, locs, LiveTasks', NoHandle)
    BY DEF TasksHeld
  <2>2. \A x \in Slots, u \in Threads :
           Contents(RecordTasks(Records'[x]), CallTasks(call'[u]), NoHandle)
              \subseteq LiveTasks'
    <3> SUFFICES ASSUME NEW x \in Slots, NEW u \in Threads
                 PROVE  Contents(RecordTasks(Records'[x]), CallTasks(call'[u]), NoHandle)
                           \subseteq LiveTasks'
      OBVIOUS
    <3>1. recs[x] = RecordTasks(Records'[x]) /\ locs[u] = CallTasks(call'[u])
      OBVIOUS
    <3> HIDE DEF recs, locs
    <3> QED
      BY <2>1, <3>1, HeldApart
  <2> QED
    BY <2>2 DEF Contents, RecordTasks, CallTasks
<1>5. \A h \in LiveTasks : h \in LiveTasks' => tasks'[h] = tasks[h]
  BY <1>2 DEF Feeds, LiveTasks
<1>6. ASSUME NEW x \in Slots
      PROVE  RecordFeeds(tasks', x, Records'[x])
  <2>1. CASE x = s
    BY <1>1, <1>2, <2>1 DEF Feeds
  <2>2. CASE x # s
    <3>1. RecordFeeds(tasks, x, Records[x]) /\ Records'[x] = Records[x]
      BY <1>1, <2>2 DEF OwnInv, TasksFed
    <3> QED
      BY <1>3, <1>4, <1>5, <3>1 DEF RecordFeeds, Uses
  <2> QED
    BY <2>1, <2>2
<1>7. ASSUME NEW u \in Threads, call'[u].slot \in Slots
      PROVE  CallFeeds(tasks', u, call'[u], Records'[call'[u].slot])
  <2>1. CASE u = t
    BY <1>1, <1>2, <1>7, <2>1 DEF Feeds, Respects
  <2>2. CASE u # t
    <3> DEFINE cu == call[u]
               x == call[u].slot
    <3>1. call'[u] = cu /\ x \in Slots /\ CallFeeds(tasks, u, cu, Records[x])
      BY <1>1, <1>7, <2>2 DEF OwnInv, TasksFed
    <3>2. CASE Engaged(u, cu)
      <4>1. Records'[x] = Records[x]
        BY <1>1, <1>2, <2>2, <3>1, <3>2 DEF Respects, Alone, Untouched
      <4> QED
        BY <1>3, <1>4, <1>5, <3>1, <4>1 DEF CallFeeds, Uses
    <3>3. CASE ~Engaged(u, cu)
      <4>1. /\ cu.task = NoHandle
            /\ ~cu.full => {cu.got.HandlerClient, cu.got.HandlerServer}
                              \subseteq {NoHandle, u}
        BY <3>3, FedByRecord
      <4> QED
        BY <1>3, <1>4, <1>5, <3>1, <4>1 DEF CallFeeds, Uses
    <3> QED
      BY <3>2, <3>3
  <2> QED
    BY <2>1, <2>2
<1> QED
  BY <1>6, <1>7 DEF TasksFed

\* Entries that are linked stay linked.
LEMMA LinkedStep ==
  ASSUME IInv, IInv', OwnInv, NEW t \in Threads, NEW s \in Slots, NEW c, NEW r,
         Steps(t, s, c, r)
  PROVE  PairsLinked'
<1>1. /\ \A x \in Slots \ {s} : Records'[x] = Records[x]
      /\ Records'[s] = r
      /\ \A u \in Threads \ {t} : call'[u] = call[u]
      /\ call'[t] = c
  BY Typed DEF Steps, Moves
<1>2. Respects(t, s, c, r) /\ Links(t, s, c, r)
  BY DEF Steps
<1>3. ASSUME NEW x \in Slots, NEW i \in SlotEntries(x), i # NoIndex
      PROVE  i \in Active /\ i \notin OwnEntries(t)
  BY <1>3, NearHeld DEF SlotEntries, OwnEntries, Contents, Apart, RecordEntries
<1>4. ASSUME NEW x \in Slots, x # s, NEW i \in SlotEntries(x), i # NoIndex
      PROVE  i \notin SlotEntries(s)
  <2> DEFINE recs == [y \in Slots |-> RecordEntries(Records[y])]
             locs == [u \in Threads |-> CallEntries(call[u])]
  <2>1. HeldOnce(recs, locs, Active, NoIndex)
    BY DEF OwnInv, EntriesHeld
  <2>2. /\ recs[s] = RecordEntries(Records[s]) /\ locs[t] = CallEntries(call[t])
        /\ recs[x] = RecordEntries(Records[x])
    OBVIOUS
  <2> HIDE DEF recs, locs
  <2>3. \A j \in 1..2 : recs[x][j] \notin Contents(recs[s], locs[t], NoIndex)
    BY <1>4, <2>1, HeldElsewhere
  <2> QED
    BY <1>4, <2>2, <2>3 DEF SlotEntries, Contents
<1>5. ASSUME NEW x \in Slots, x # s \/ ~Alone(t, s), NEW i \in SlotEntries(x), i # NoIndex
      PROVE  monitor'[i] = monitor[i]
  BY <1>2, <1>3, <1>4, <1>5 DEF Links
<1>6. ASSUME NEW x \in Slots, \A i \in SlotEntries(x) : i # NoIndex =>
                                  monitor'[i] = monitor[i]
      PROVE  /\ Linked(monitor, Records[x]) => Linked(monitor', Records[x])
             /\ HalfLinked(monitor, Records[x]) => HalfLinked(monitor', Records[x])
  BY <1>6 DEF Linked, HalfLinked, SlotEntries, RecordEntries
<1>7. ASSUME NEW x \in Slots, \A u \in Threads : Works(call'[u]) => call'[u].slot # x
      PROVE  Linked(monitor', Records'[x])
  <2>1. \A u \in Threads \ {t} : Works(call[u]) => call[u].slot # x
    BY <1>1, <1>7
  <2>2. CASE x # s
    <3>1. Linked(monitor, Records[x])
      BY <1>2, <2>1, <2>2 DEF Respects, OwnInv, PairsLinked
    <3> QED
      BY <1>1, <1>5, <1>6, <2>2, <3>1
  <2>3. CASE x = s
    <3>1. ~Works(c)
      BY <1>1, <1>2, <1>7, <2>3 DEF Respects, Engaged
    <3>2. CASE Linked(monitor', r)
      BY <1>1, <2>3, <3>2
    <3>3. CASE /\ r = Records[s] /\ ~Works(call[t])
               /\ \A i \in Active : monitor'[i] = monitor[i] \/ i \in OwnEntries(t)
      <4>1. Linked(monitor, Records[s])
        BY <2>1, <2>3, <3>3 DEF OwnInv, PairsLinked
      <4>2. \A i \in SlotEntries(s) : i # NoIndex => monitor'[i] = monitor[i]
        BY <1>3, <3>3
      <4> QED
        BY <1>1, <1>6, <2>3, <3>3, <4>1, <4>2
    <3> QED
      BY <1>2, <3>1, <3>2, <3>3 DEF Links
  <2> QED
    BY <2>2, <2>3
<1>8. ASSUME NEW u \in Threads, call'[u].pc = "linkPeer"
      PROVE  HalfLinked(monitor', Records'[call'[u].slot])
  <2>1. CASE u = t
    BY <1>1, <1>2, <1>8, <2>1
    DEF Links, Respects, Engaged, Works, WorkingPcs, CreatePcs
  <2>2. CASE u # t
    <3>1. call'[u] = call[u] /\ Works(call[u]) /\ Engaged(u, call[u])
      BY <1>1, <1>8, <2>2 DEF Engaged, Works, WorkingPcs, CreatePcs
    <3>2. call[u].slot \in Slots /\ HalfLinked(monitor, Records[call[u].slot])
      BY <1>8, <3>1, Typed DEF OwnInv, OneEngaged, PairsLinked
    <3>3. call[u].slot # s \/ ~Alone(t, s)
      BY <2>2, <3>1 DEF Alone
    <3>4. Records'[call[u].slot] = Records[call[u].slot]
      BY <1>1, <1>2, <3>2, <3>3 DEF Respects, Untouched
    <3> QED
      BY <1>5, <1>6, <3>1, <3>2, <3>3, <3>4
  <2> QED
    BY <2>1, <2>2
<1> QED
  BY <1>7, <1>8 DEF PairsLinked

\* A step that is made of these parts keeps the invariant.
LEMMA StepKeeps ==
  ASSUME IInv, IInv', OwnInv, NEW t \in Threads, NEW s \in Slots, NEW c, NEW r,
         Steps(t, s, c, r)
  PROVE  OwnInv'
  BY HoldersStep, StandingStep, FedStep, LinkedStep DEF OwnInv

-----------------------------------------------------------------------------
(* The parts of a step.                                                    *)

\* Whoever is unindexed, or works, is engaged.
LEMMA WorkersAreEngaged ==
  /\ \A c : Unindexed(c) => Works(c)
  /\ \A u, c : Works(c) => Engaged(u, c)
  BY DEF Unindexed, Works, Engaged, WorkingPcs, CreatePcs, RollbackPcs

\* The thread at work on a pair is alone with its slot and knows the record.
LEMMA WorkerKnows ==
  ASSUME IInv, OwnInv, NEW t \in Threads, Works(call[t])
  PROVE  /\ call[t] \in Call /\ call[t].slot \in Slots
         /\ call[t].slot \in inUse /\ InUseAndOwned(call[t].slot)
         /\ Alone(t, call[t].slot) /\ Shape(t, call[t])
         /\ WorkRecord(call[t], Records[call[t].slot])
         /\ Records[call[t].slot] \in Runtime
         /\ Records[call[t].slot] =
               IF Unindexed(call[t]) THEN WithoutIndices(runtime[call[t].slot])
               ELSE runtime[call[t].slot]
         /\ Built(t) = runtime[call[t].slot]
<1>1. Engaged(t, call[t])
  BY WorkersAreEngaged
<1>2. call[t].slot \in inUse /\ Alone(t, call[t].slot)
  BY <1>1 DEF OwnInv, OneEngaged, Alone
<1>3. call[t] \in Call /\ call[t].slot \in Slots /\ Records[call[t].slot] \in Runtime
  BY <1>2, Typed
<1>4. InUseAndOwned(call[t].slot)
  BY <1>2 DEF InUseAndOwned, IInv, RegistryInv, FreeListPartition
<1>5. \A u \in Threads \ {t} : call[u].slot = call[t].slot => ~Unindexed(call[u])
  BY <1>2, WorkersAreEngaged DEF Alone
<1>6. Records[call[t].slot] =
         IF Unindexed(call[t]) THEN WithoutIndices(runtime[call[t].slot])
         ELSE runtime[call[t].slot]
  BY <1>2, <1>3, <1>5 DEF Records, RecordOf
<1> QED
  BY <1>2, <1>3, <1>4, <1>6 DEF OwnInv, CallsShaped, WorkShaped, Built

\* A thread alone with slot s writes its record.
LEMMA RecordWritten ==
  ASSUME IInv, IInv', OwnInv, NEW t \in Threads, NEW s \in Slots, NEW c, Alone(t, s),
         call' = [call EXCEPT ![t] = c],
         \A x \in Slots \ {s} : x \in inUse' <=> x \in inUse,
         \A x \in inUse \ {s} : runtime'[x] = runtime[x],
         Unindexed(call[t]) => call[t].slot = s,
         Unindexed(c) => c.slot = s
  PROVE  Records' = [Records EXCEPT ![s] =
                        IF s \notin inUse' THEN Nothing
                        ELSE IF Unindexed(c) THEN WithoutIndices(runtime'[s])
                        ELSE runtime'[s]]
<1>1. /\ \A u \in Threads \ {t} : call'[u] = call[u]
      /\ call'[t] = c
  BY Typed
<1>2. ASSUME NEW x \in Slots \ {s} PROVE RecordOf(x)' = RecordOf(x)
  <2>1. (\E u \in Threads : call'[u].slot = x /\ Unindexed(call'[u]))
           <=> (\E u \in Threads : call[u].slot = x /\ Unindexed(call[u]))
    BY <1>1, <1>2
  <2> QED
    BY <2>1 DEF RecordOf
<1>3. \A u \in Threads \ {t} : call[u].slot = s => ~Unindexed(call[u])
  BY WorkersAreEngaged DEF Alone
<1>4. (\E u \in Threads : call'[u].slot = s /\ Unindexed(call'[u])) <=> Unindexed(c)
  BY <1>1, <1>3
<1>5. RecordOf(s)' = IF s \notin inUse' THEN Nothing
                     ELSE IF Unindexed(c) THEN WithoutIndices(runtime'[s])
                     ELSE runtime'[s]
  BY <1>4 DEF RecordOf
<1> QED
  BY <1>2, <1>5 DEF Records

\* A step that writes no record and neither begins nor ends one.
LEMMA RecordKept ==
  ASSUME IInv, OwnInv, NEW t \in Threads, NEW s \in Slots, NEW c,
         call' = [call EXCEPT ![t] = c], UNCHANGED <<inUse, runtime>>,
         ~Unindexed(call[t]), ~Unindexed(c)
  PROVE  Moves(t, s, c, Records[s]) /\ Untouched(s, Records[s])
<1>1. /\ \A u \in Threads \ {t} : call'[u] = call[u]
      /\ call'[t] = c
  BY Typed
<1>2. ASSUME NEW x \in Slots PROVE RecordOf(x)' = RecordOf(x)
  <2>1. (\E u \in Threads : call'[u].slot = x /\ Unindexed(call'[u]))
           <=> (\E u \in Threads : call[u].slot = x /\ Unindexed(call[u]))
    BY <1>1
  <2> QED
    BY <2>1 DEF RecordOf
<1>3. Records' = Records
  BY <1>2 DEF Records
<1> QED
  BY <1>3, Typed DEF Moves, Untouched

\* Nothing is traded when the places stay as they are.
LEMMA TradeNothing ==
  ASSUME NEW r, NEW c, NEW none, NEW live, Apart(r, c, none),
         Contents(r, c, none) \subseteq live
  PROVE  Trades(r, c, r, c, none, live, live)
  BY DEF Trades

\* Places that are emptied are apart still.
LEMMA FewerLocals ==
  ASSUME NEW r, NEW none, NEW x, NEW y, NEW a, NEW b,
         Apart(r, <<none, x, y>>, none), a \in {x, none}, b \in {y, none}
  PROVE  Apart(r, <<none, a, b>>, none)
  BY DEF Apart

\* What is new goes into an empty local.
LEMMA LocalGains ==
  ASSUME NEW r, NEW none, NEW live, NEW x, x # none, x \notin live,
         Apart(r, <<none, none, none>>, none),
         Contents(r, <<none, none, none>>, none) \subseteq live
  PROVE  Trades(r, <<none, none, none>>, r, <<x, none, none>>, none, live, live \cup {x})
<1> DEFINE a == r[1]
           b == r[2]
<1>1. /\ Contents(r, <<none, none, none>>, none) = {a, b} \ {none}
      /\ Contents(r, <<x, none, none>>, none) = {a, b, x} \ {none}
  BY DEF Contents
<1>2. Apart(r, <<x, none, none>>, none)
  BY <1>1 DEF Apart
<1> HIDE DEF a, b
<1> QED
  BY <1>1, <1>2 DEF Trades

\* What is deleted was in a local.
LEMMA LocalLoses ==
  ASSUME NEW r, NEW none, NEW live, NEW x, none \notin live,
         Apart(r, <<x, none, none>>, none),
         Contents(r, <<x, none, none>>, none) \subseteq live
  PROVE  Trades(r, <<x, none, none>>, r, <<none, none, none>>, none, live, live \ {x})
<1> DEFINE a == r[1]
           b == r[2]
<1>1. /\ Contents(r, <<none, none, none>>, none) = {a, b} \ {none}
      /\ Contents(r, <<x, none, none>>, none) = {a, b, x} \ {none}
  BY DEF Contents
<1>2. Apart(r, <<none, none, none>>, none)
  BY DEF Apart
<1>3. x # none => x \notin {a, b}
  BY DEF Apart
<1> HIDE DEF a, b
<1> QED
  BY <1>1, <1>2, <1>3 DEF Trades

\* A local is stored in an empty field of the record.
LEMMA LocalStored ==
  ASSUME NEW a, NEW b, NEW none, NEW live, NEW x, NEW y, NEW z,
         (a = none /\ y = x /\ z = b) \/ (b = none /\ y = a /\ z = x),
         Apart(<<a, b>>, <<x, none, none>>, none),
         Contents(<<a, b>>, <<x, none, none>>, none) \subseteq live
  PROVE  Trades(<<a, b>>, <<x, none, none>>, <<y, z>>, <<none, none, none>>, none,
                live, live)
<1>1. /\ Contents(<<a, b>>, <<x, none, none>>, none) = {a, b, x} \ {none}
      /\ Contents(<<y, z>>, <<none, none, none>>, none) = {a, b, x} \ {none}
  BY DEF Contents
<1>2. (a # none => a # b /\ a # x) /\ (b # none => b # x)
  BY DEF Apart
<1>3. Apart(<<y, z>>, <<none, none, none>>, none)
  BY <1>2 DEF Apart
<1> QED
  BY <1>1, <1>3 DEF Trades

\* What is new goes into an empty field of the record.
LEMMA RecordGains ==
  ASSUME NEW a, NEW b, NEW none, NEW live, NEW x, NEW y, NEW z, x # none, x \notin live,
         (a = none /\ y = x /\ z = b) \/ (b = none /\ y = a /\ z = x),
         Apart(<<a, b>>, <<none, none, none>>, none),
         Contents(<<a, b>>, <<none, none, none>>, none) \subseteq live
  PROVE  Trades(<<a, b>>, <<none, none, none>>, <<y, z>>, <<none, none, none>>, none,
                live, live \cup {x})
<1>1. /\ Contents(<<a, b>>, <<none, none, none>>, none) = {a, b} \ {none}
      /\ Contents(<<y, z>>, <<none, none, none>>, none) = {a, b, x} \ {none}
  BY DEF Contents
<1>2. a # none => a # b
  BY DEF Apart
<1>3. ({a, b} \ {none}) \subseteq live
  BY <1>1
<1>4. (a = none \/ x # a) /\ (b = none \/ x # b)
  BY <1>3
<1>5. Apart(<<y, z>>, <<none, none, none>>, none)
  BY <1>2, <1>4 DEF Apart
<1> QED
  BY <1>1, <1>5 DEF Trades

\* What is deleted was in a field of the record.
LEMMA RecordLoses ==
  ASSUME NEW a, NEW b, NEW none, NEW live, NEW x, NEW y, NEW z, none \notin live,
         (a = x /\ y = none /\ z = b) \/ (b = x /\ y = a /\ z = none),
         Apart(<<a, b>>, <<none, none, none>>, none),
         Contents(<<a, b>>, <<none, none, none>>, none) \subseteq live
  PROVE  Trades(<<a, b>>, <<none, none, none>>, <<y, z>>, <<none, none, none>>, none,
                live, live \ {x})
<1>1. /\ Contents(<<a, b>>, <<none, none, none>>, none) = {a, b} \ {none}
      /\ Contents(<<y, z>>, <<none, none, none>>, none) = {y, z} \ {none}
  BY DEF Contents
<1>2. a # none => a # b
  BY DEF Apart
<1>3. Apart(<<y, z>>, <<none, none, none>>, none)
  BY <1>2 DEF Apart
<1> QED
  BY <1>1, <1>2, <1>3 DEF Trades

\* The same of the tasks, the queues and the entries of a step.
LEMMA TasksStay ==
  ASSUME IInv, OwnInv, NEW t \in Threads, NEW s \in Slots, NEW c, NEW r,
         RecordTasks(r) = RecordTasks(Records[s]), CallTasks(c) = CallTasks(call[t]),
         tasks' = tasks
  PROVE  TradesTasks(t, s, c, r)
<1>1. LiveTasks' = LiveTasks
  BY DEF LiveTasks
<1> QED
  BY <1>1, NearHeld, TradeNothing DEF TradesTasks

\* A step that moves no queue.
LEMMA QueuesStay ==
  ASSUME IInv, OwnInv, NEW t \in Threads, NEW s \in Slots, NEW c, NEW r,
         RecordQueues(r) = RecordQueues(Records[s]), CallQueues(c) = CallQueues(call[t]),
         liveQueues' = liveQueues
  PROVE  TradesQueues(t, s, c, r)
  BY NearHeld, TradeNothing DEF TradesQueues

\* A step that moves no entry.
LEMMA EntriesStay ==
  ASSUME IInv, OwnInv, NEW t \in Threads, NEW s \in Slots, NEW c, NEW r,
         RecordEntries(r) = RecordEntries(Records[s]),
         CallEntries(c) = CallEntries(call[t]),
         Active' = Active
  PROVE  TradesEntries(t, s, c, r)
  BY NearHeld, TradeNothing DEF TradesEntries

\* Tasks and queues stay where they are, so they stay together.
LEMMA FeedsStay ==
  ASSUME OwnInv, NEW t \in Threads, NEW s \in Slots, NEW c, NEW r, tasks' = tasks,
         RecordTasks(r) = RecordTasks(Records[s]),
         RecordQueues(r) = RecordQueues(Records[s]),
         \/ /\ c.task = NoHandle
            /\ {c.got.HandlerClient, c.got.HandlerServer} \subseteq {NoHandle, t}
         \/ /\ c.slot = call[t].slot /\ c.full = call[t].full /\ c.got = call[t].got
            /\ c.task \in {NoHandle, call[t].task}
  PROVE  Feeds(t, s, c, r)
<1>1. QueuesOf(r) = QueuesOf(Records[s])
  BY DEF QueuesOf, RecordQueues
<1>2. RecordFeeds(tasks, s, r)
  BY <1>1 DEF RecordFeeds, Uses, RecordTasks, OwnInv, TasksFed
<1>3. c.slot = s => CallFeeds(tasks, t, c, r)
  BY <1>1 DEF CallFeeds, Uses, OwnInv, TasksFed
<1> QED
  BY <1>2, <1>3 DEF Feeds

\* The steps of a creation or a roll-back that hold on to what they hold:
\* nothing but the program counter, the index picked and the marks change.
LEMMA PlainWork ==
  ASSUME IInv, IInv', OwnInv, NEW t \in Threads, NEW c,
         Works(call[t]), Works(c), c.pc # "linkPeer",
         Moves(t, call[t].slot, c, Records'[call[t].slot]),
         call[t].slot \in inUse',
         Shape(t, c), WorkRecord(c, Records'[call[t].slot]),
         c.slot = call[t].slot, c.full = call[t].full, c.got = call[t].got,
         c.task = call[t].task, CallEntries(c) = CallEntries(call[t]),
         RecordTasks(Records'[call[t].slot]) = RecordTasks(Records[call[t].slot]),
         RecordQueues(Records'[call[t].slot]) = RecordQueues(Records[call[t].slot]),
         RecordEntries(Records'[call[t].slot]) = RecordEntries(Records[call[t].slot]),
         UNCHANGED <<tasks, liveQueues, monitor>>
  PROVE  OwnInv'
<1> DEFINE s == call[t].slot
           r == Records'[s]
<1>1. s \in Slots /\ Alone(t, s)
  BY WorkerKnows
<1>2. Respects(t, s, c, r)
  BY <1>1 DEF Respects
<1>3. CallTasks(c) = CallTasks(call[t]) /\ CallQueues(c) = CallQueues(call[t])
  BY DEF CallTasks, CallQueues
<1>4. Active' = Active
  BY DEF Active
<1> HIDE DEF s, r
<1>5. TradesTasks(t, s, c, r) /\ TradesQueues(t, s, c, r) /\ TradesEntries(t, s, c, r)
  BY <1>1, <1>3, <1>4, TasksStay, QueuesStay, EntriesStay DEF s, r
<1>6. Feeds(t, s, c, r)
  BY <1>1, FeedsStay DEF s, r
<1>7. Links(t, s, c, r)
  BY DEF Links
<1>8. Moves(t, s, c, r)
  BY DEF s, r
<1> QED
  BY <1>1, <1>2, <1>5, <1>6, <1>7, <1>8, StepKeeps DEF Steps

\* The step of a worker that keeps its slot.
LEMMA WorkMoves ==
  ASSUME IInv, IInv', OwnInv, NEW t \in Threads, Works(call[t]), NEW c, NEW r,
         call' = [call EXCEPT ![t] = c], inUse' = inUse,
         \A x \in Slots \ {call[t].slot} : runtime'[x] = runtime[x],
         r = IF Unindexed(c) THEN WithoutIndices(runtime'[call[t].slot])
             ELSE runtime'[call[t].slot],
         Unindexed(c) => c.slot = call[t].slot
  PROVE  Moves(t, call[t].slot, c, r)
<1> DEFINE s == call[t].slot
<1>1. s \in Slots /\ Alone(t, s) /\ s \in inUse /\ inUse \subseteq Slots
  BY WorkerKnows, Typed
<1>2. Records' = [Records EXCEPT ![s] = r]
  <2> HIDE DEF s
  <2>1. /\ Unindexed(call[t]) => call[t].slot = s
        /\ Unindexed(c) => c.slot = s
        /\ \A x \in Slots \ {s} : x \in inUse' <=> x \in inUse
        /\ \A x \in inUse \ {s} : runtime'[x] = runtime[x]
        /\ r = IF Unindexed(c) THEN WithoutIndices(runtime'[s]) ELSE runtime'[s]
    BY <1>1 DEF s
  <2>2. Records' = [Records EXCEPT ![s] =
                        IF s \notin inUse' THEN Nothing
                        ELSE IF Unindexed(c) THEN WithoutIndices(runtime'[s])
                        ELSE runtime'[s]]
    BY <1>1, <2>1, RecordWritten
  <2> QED
    BY <1>1, <2>1, <2>2
<1> QED
  BY <1>1, <1>2 DEF Moves

\* The same for a step that holds on to all that is held.
LEMMA PlainStep ==
  ASSUME IInv, IInv', OwnInv, NEW t \in Threads, NEW c, NEW r,
         Works(call[t]), Works(c), c.pc # "linkPeer", ~Unindexed(c),
         call' = [call EXCEPT ![t] = c],
         UNCHANGED <<inUse, tasks, liveQueues, monitor>>,
         \A x \in Slots \ {call[t].slot} : runtime'[x] = runtime[x],
         r = runtime'[call[t].slot],
         Shape(t, c), WorkRecord(c, r),
         c.slot = call[t].slot, c.full = call[t].full, c.got = call[t].got,
         c.task = call[t].task, CallEntries(c) = CallEntries(call[t]),
         RecordTasks(r) = RecordTasks(Records[call[t].slot]),
         RecordQueues(r) = RecordQueues(Records[call[t].slot]),
         RecordEntries(r) = RecordEntries(Records[call[t].slot])
  PROVE  OwnInv'
<1>1. Moves(t, call[t].slot, c, r)
  BY WorkMoves
<1>2. call[t].slot \in Slots /\ call[t].slot \in inUse'
  BY WorkerKnows
<1>3. Records'[call[t].slot] = r
  BY <1>1, <1>2, Typed DEF Moves
<1> QED
  BY <1>1, <1>2, <1>3, PlainWork

-----------------------------------------------------------------------------
(* CreateEATaskPinnedToCoreEx.                                             *)

\* The two indices count from now on, and name nothing.
LEMMA InitRuntimeOwns ==
  ASSUME IInv, IInv', OwnInv, NEW t \in Threads, InitRuntime(t)
  PROVE  OwnInv'
<1> DEFINE s == call[t].slot
           c == [call[t] EXCEPT !.pc = "queue1"]
           r == [Built(t) EXCEPT !.client_index = NoIndex, !.server_index = NoIndex]
<1>0. call[t].pc = "init"
  BY DEF InitRuntime
<1>1. Works(call[t]) /\ Unindexed(call[t])
  BY <1>0 DEF Works, WorkingPcs, CreatePcs, Unindexed
<1>2. /\ call[t] \in Call /\ s \in Slots /\ s \in inUse /\ Shape(t, call[t])
      /\ WorkRecord(call[t], Records[s]) /\ Records[s] = WithoutIndices(runtime[s])
      /\ Built(t) = runtime[s]
  BY <1>1, WorkerKnows
<1>3. /\ call' = [call EXCEPT ![t] = c] /\ runtime' = [runtime EXCEPT ![s] = r]
      /\ UNCHANGED <<inUse, tasks, liveQueues, monitor>>
  BY DEF InitRuntime, Goto, Store, WriteRuntime, kernelVars, monitorVars
<1>4. r = Records[s]
  BY <1>2 DEF WithoutIndices
<1>5. r = runtime'[s] /\ \A x \in Slots \ {s} : runtime'[x] = runtime[x]
  BY <1>2, <1>3 DEF IInv, RegistryInv, RegistryTypeOK
<1>6. /\ c.pc = "queue1" /\ c.slot = s /\ c.full = call[t].full /\ c.got = call[t].got
      /\ c.task = call[t].task /\ c.idx = call[t].idx /\ c.seg = call[t].seg
  BY <1>2 DEF Call
<1>7. Works(c) /\ ~Unindexed(c)
  BY <1>6 DEF Works, WorkingPcs, CreatePcs, Unindexed
<1> HIDE DEF c, r
<1>8. Shape(t, c)
  BY <1>0, <1>2, <1>6 DEF Shape, WorkingPcs, CreatePcs, RollbackPcs, DestroyPcs, CreateShape
<1>9. WorkRecord(c, r)
  BY <1>0, <1>2, <1>4, <1>6
  DEF WorkRecord, CreatePcs, RollbackPcs, DestroyPcs, CreateRecord, SegHandler, SegIndex
<1>10. CallEntries(c) = CallEntries(call[t])
  BY <1>0, <1>6 DEF CallEntries
<1> HIDE DEF s
<1> QED
  BY <1>1, <1>3, <1>4, <1>5, <1>6, <1>7, <1>8, <1>9, <1>10, PlainStep DEF s

\* The pair gets its id before an entry carries it.
LEMMA AssignPairIdOwns ==
  ASSUME IInv, IInv', OwnInv, NEW t \in Threads, AssignPairId(t)
  PROVE  OwnInv'
<1> DEFINE s == call[t].slot
           c == [call[t] EXCEPT !.pc = "find"]
           r == runtime'[s]
<1>0. call[t].pc = "pairId"
  BY DEF AssignPairId
<1>1. Works(call[t]) /\ ~Unindexed(call[t])
  BY <1>0 DEF Works, WorkingPcs, CreatePcs, Unindexed
<1>2. /\ call[t] \in Call /\ s \in Slots /\ s \in inUse /\ Shape(t, call[t])
      /\ WorkRecord(call[t], Records[s]) /\ Records[s] = runtime[s]
  BY <1>1, WorkerKnows
<1>3. /\ call' = [call EXCEPT ![t] = c]
      /\ \E n : runtime' = [runtime EXCEPT ![s] = [runtime[s] EXCEPT !.pair_id = n]]
      /\ UNCHANGED <<inUse, tasks, liveQueues, monitor>>
  BY DEF AssignPairId, Goto, AssignNextPairId, kernelVars, monitorVars
<1>4. /\ \A x \in Slots \ {s} : runtime'[x] = runtime[x]
      /\ RecordTasks(r) = RecordTasks(Records[s])
      /\ RecordQueues(r) = RecordQueues(Records[s])
      /\ RecordEntries(r) = RecordEntries(Records[s])
      /\ r.lifecycle_state = Records[s].lifecycle_state
  BY <1>2, <1>3, Typed
  DEF IInv, RegistryInv, RegistryTypeOK, Runtime, RecordTasks, RecordQueues, RecordEntries
<1>6. /\ c.pc = "find" /\ c.slot = s /\ c.full = call[t].full /\ c.got = call[t].got
      /\ c.task = call[t].task /\ c.idx = call[t].idx /\ c.seg = call[t].seg
  BY <1>2 DEF Call
<1>7. Works(c) /\ ~Unindexed(c)
  BY <1>6 DEF Works, WorkingPcs, CreatePcs, Unindexed
<1> HIDE DEF c, r
<1>8. Shape(t, c)
  BY <1>0, <1>2, <1>6 DEF Shape, WorkingPcs, CreatePcs, RollbackPcs, DestroyPcs, CreateShape
<1>9. WorkRecord(c, r)
  BY <1>0, <1>2, <1>4, <1>6
  DEF WorkRecord, CreatePcs, RollbackPcs, DestroyPcs, CreateRecord, SegHandler, SegIndex,
      RecordTasks, RecordQueues, RecordEntries
<1>10. CallEntries(c) = CallEntries(call[t])
  BY <1>0, <1>6 DEF CallEntries
<1> HIDE DEF s
<1> QED
  BY <1>1, <1>3, <1>4, <1>6, <1>7, <1>8, <1>9, <1>10, PlainStep DEF s, r

\* A creation that fails holds nothing outside the record.
LEMMA CreationStepFailsOwns ==
  ASSUME IInv, IInv', OwnInv, NEW t \in Threads, CreationStepFails(t)
  PROVE  OwnInv'
<1> DEFINE s == call[t].slot
           c == [call[t] EXCEPT !.pc = "markCleaning"]
<1>0. call[t].pc \in {"queue1", "queue2", "find", "spawn"}
  BY ManagerAssumption DEF CreationStepFails, Exhausted
<1>1. Works(call[t]) /\ ~Unindexed(call[t])
  BY <1>0 DEF Works, WorkingPcs, CreatePcs, Unindexed
<1>2. /\ call[t] \in Call /\ s \in Slots /\ s \in inUse /\ Shape(t, call[t])
      /\ WorkRecord(call[t], Records[s]) /\ Records[s] = runtime[s]
  BY <1>1, WorkerKnows
<1>3. /\ call' = [call EXCEPT ![t] = c] /\ runtime' = runtime
      /\ UNCHANGED <<inUse, tasks, liveQueues, monitor>>
  BY DEF CreationStepFails, Goto, kernelVars, monitorVars, registryVars
<1>6. /\ c.pc = "markCleaning" /\ c.slot = s /\ c.full = call[t].full
      /\ c.got = call[t].got /\ c.task = call[t].task /\ c.idx = call[t].idx
      /\ c.seg = call[t].seg
  BY <1>2 DEF Call
<1>7. Works(c) /\ ~Unindexed(c)
  BY <1>6 DEF Works, WorkingPcs, RollbackPcs, Unindexed
<1> HIDE DEF c
<1>8. Shape(t, c)
  BY <1>0, <1>2, <1>6 DEF Shape, WorkingPcs, CreatePcs, RollbackPcs, DestroyPcs, CreateShape
<1>9. WorkRecord(c, runtime[s])
  BY <1>0, <1>2, <1>6
  DEF WorkRecord, CreatePcs, RollbackPcs, DestroyPcs, CreateRecord, RollbackRecord
<1>10. CallEntries(c) = CallEntries(call[t])
  BY <1>0, <1>6 DEF CallEntries
<1> HIDE DEF s
<1> QED
  BY <1>1, <1>2, <1>3, <1>6, <1>7, <1>8, <1>9, <1>10, PlainStep DEF s

\* An entry that was only found is not held.
LEMMA FindEntryOwns ==
  ASSUME IInv, IInv', OwnInv, NEW t \in Threads, FindEntry(t)
  PROVE  OwnInv'
<1>0. call[t].pc = "find"
  BY DEF FindEntry
<1>1. PICK i \in Indices : call' = [call EXCEPT ![t].pc = "spawn", ![t].idx = i]
  BY DEF FindEntry
<1> DEFINE s == call[t].slot
           c == [call[t] EXCEPT !.pc = "spawn", !.idx = i]
<1>2. Works(call[t]) /\ ~Unindexed(call[t])
  BY <1>0 DEF Works, WorkingPcs, CreatePcs, Unindexed
<1>3. /\ call[t] \in Call /\ s \in Slots /\ s \in inUse /\ Shape(t, call[t])
      /\ WorkRecord(call[t], Records[s]) /\ Records[s] = runtime[s]
  BY <1>2, WorkerKnows
<1>4. /\ call' = [call EXCEPT ![t] = c] /\ runtime' = runtime
      /\ UNCHANGED <<inUse, tasks, liveQueues, monitor>>
  BY <1>1, Typed DEF FindEntry, kernelVars, monitorVars, registryVars
<1>6. /\ c.pc = "spawn" /\ c.slot = s /\ c.full = call[t].full
      /\ c.got = call[t].got /\ c.task = call[t].task /\ c.seg = call[t].seg
  BY <1>3 DEF Call
<1>7. Works(c) /\ ~Unindexed(c)
  BY <1>6 DEF Works, WorkingPcs, CreatePcs, Unindexed
<1> HIDE DEF c
<1>8. Shape(t, c)
  BY <1>0, <1>3, <1>6 DEF Shape, WorkingPcs, CreatePcs, RollbackPcs, DestroyPcs, CreateShape
<1>9. WorkRecord(c, runtime[s])
  BY <1>0, <1>3, <1>6
  DEF WorkRecord, CreatePcs, RollbackPcs, DestroyPcs, CreateRecord, SegHandler, SegIndex
<1>10. CallEntries(c) = CallEntries(call[t])
  BY <1>0, <1>6 DEF CallEntries
<1> HIDE DEF s
<1> QED
  BY <1>2, <1>3, <1>4, <1>6, <1>7, <1>8, <1>9, <1>10, PlainStep DEF s

\* MarkCleaning and Retire: the mark of the slot, and nothing else.
LEMMA MarkOwns ==
  ASSUME IInv, IInv', OwnInv, NEW t \in Threads,
         \/ MarkCleaning(t)
         \/ Retire(t) /\ call[t].full
  PROVE  OwnInv'
<1> DEFINE s == call[t].slot
           pc == IF call[t].pc = "retire" THEN "release" ELSE "undoServer"
           mark == IF call[t].pc = "retire" THEN "RETIRED" ELSE "CLEANING"
           c == [call[t] EXCEPT !.pc = pc]
           r == [runtime[s] EXCEPT !.lifecycle_state = mark]
<1>0. call[t].pc = "markCleaning" \/ (call[t].pc = "retire" /\ call[t].full)
  BY DEF MarkCleaning, Retire
<1>1. Works(call[t]) /\ ~Unindexed(call[t])
  BY <1>0 DEF Works, WorkingPcs, RollbackPcs, DestroyPcs, Unindexed
<1>2. /\ call[t] \in Call /\ s \in Slots /\ s \in inUse /\ Shape(t, call[t])
      /\ WorkRecord(call[t], Records[s]) /\ Records[s] = runtime[s]
      /\ InUseAndOwned(s) /\ Records[s] \in Runtime
  BY <1>1, WorkerKnows
<1>3. /\ call' = [call EXCEPT ![t] = c] /\ runtime' = [runtime EXCEPT ![s] = r]
      /\ UNCHANGED <<inUse, tasks, liveQueues, monitor>>
  BY <1>0, <1>2 DEF MarkCleaning, Retire, Goto, MarkRuntime, kernelVars, monitorVars
<1>4. /\ \A x \in Slots \ {s} : runtime'[x] = runtime[x]
      /\ r = runtime'[s]
      /\ RecordTasks(r) = RecordTasks(Records[s])
      /\ RecordQueues(r) = RecordQueues(Records[s])
      /\ RecordEntries(r) = RecordEntries(Records[s])
      /\ r.lifecycle_state = mark
  BY <1>2, <1>3
  DEF IInv, RegistryInv, RegistryTypeOK, Runtime, RecordTasks, RecordQueues, RecordEntries
<1>6. /\ c.pc = pc /\ c.slot = s /\ c.full = call[t].full /\ c.got = call[t].got
      /\ c.task = call[t].task /\ c.idx = call[t].idx /\ c.seg = call[t].seg
  BY <1>2 DEF Call
<1>7. Works(c) /\ ~Unindexed(c) /\ c.pc # "linkPeer"
  BY <1>0, <1>6 DEF Works, WorkingPcs, RollbackPcs, DestroyPcs, Unindexed
<1> HIDE DEF c, r
<1>8. Shape(t, c)
  BY <1>0, <1>2, <1>6
  DEF Shape, WorkingPcs, CreatePcs, RollbackPcs, DestroyPcs, CreateShape, DestroyShape
<1>9. WorkRecord(c, r)
  BY <1>0, <1>2, <1>4, <1>6
  DEF WorkRecord, CreatePcs, RollbackPcs, DestroyPcs, RollbackRecord, IsEmpty,
      RecordTasks, RecordQueues, RecordEntries
<1>10. CallEntries(c) = CallEntries(call[t])
  BY <1>0, <1>6 DEF CallEntries
<1> HIDE DEF s
<1> QED
  BY <1>1, <1>3, <1>4, <1>6, <1>7, <1>8, <1>9, <1>10, PlainStep DEF s

\* The step of a worker that stays at work on its slot.
LEMMA WorkStep ==
  ASSUME IInv, IInv', OwnInv, NEW t \in Threads, Works(call[t]), NEW c, NEW r,
         Works(c), call' = [call EXCEPT ![t] = c], inUse' = inUse,
         \A x \in Slots \ {call[t].slot} : runtime'[x] = runtime[x],
         r = IF Unindexed(c) THEN WithoutIndices(runtime'[call[t].slot])
             ELSE runtime'[call[t].slot],
         c.slot = call[t].slot, Shape(t, c), WorkRecord(c, r),
         TradesTasks(t, call[t].slot, c, r), TradesQueues(t, call[t].slot, c, r),
         TradesEntries(t, call[t].slot, c, r), Feeds(t, call[t].slot, c, r),
         \A i \in Active : \/ monitor'[i] = monitor[i]
                           \/ i \in OwnEntries(t) \/ i \in SlotEntries(call[t].slot),
         c.pc = "linkPeer" => HalfLinked(monitor', r)
  PROVE  OwnInv'
<1> DEFINE s == call[t].slot
<1>1. s \in Slots /\ s \in inUse /\ Alone(t, s)
  BY WorkerKnows
<1>2. Moves(t, s, c, r)
  BY WorkMoves
<1>3. Respects(t, s, c, r)
  BY <1>1 DEF Respects
<1>4. Links(t, s, c, r)
  BY <1>1 DEF Links
<1> QED
  BY <1>1, <1>2, <1>3, <1>4, StepKeeps DEF Steps

\* A queue that is created goes into the record.
LEMMA CreateQueueOwns ==
  ASSUME IInv, IInv', OwnInv, NEW t \in Threads, NEW q \in QueueHandles, CreateQueue(t, q)
  PROVE  OwnInv'
<1> DEFINE s == call[t].slot
           c == [call[t] EXCEPT !.pc = IF call[t].pc = "queue1" THEN "queue2" ELSE "pairId"]
           r == IF call[t].pc = "queue1"
                THEN [runtime[s] EXCEPT !.queue_client_server = q]
                ELSE [runtime[s] EXCEPT !.queue_server_client = q]
<1>0. call[t].pc \in {"queue1", "queue2"}
  BY DEF CreateQueue
<1>1. Works(call[t]) /\ ~Unindexed(call[t])
  BY <1>0 DEF Works, WorkingPcs, CreatePcs, Unindexed
<1>2. /\ call[t] \in Call /\ s \in Slots /\ s \in inUse /\ Shape(t, call[t])
      /\ WorkRecord(call[t], Records[s]) /\ Records[s] = runtime[s]
      /\ Records[s] \in Runtime /\ Built(t) = runtime[s]
  BY <1>1, WorkerKnows
<1>3. /\ call' = [call EXCEPT ![t] = c] /\ runtime' = [runtime EXCEPT ![s] = r]
      /\ UNCHANGED <<inUse, tasks, monitor>>
      /\ q \notin liveQueues /\ q # NoHandle /\ liveQueues' = liveQueues \cup {q}
  BY <1>0, <1>2, Typed
  DEF CreateQueue, Allocates, Goto, Store, WriteRuntime, monitorVars
<1>4. /\ \A x \in Slots \ {s} : runtime'[x] = runtime[x]
      /\ r = runtime'[s]
      /\ RecordTasks(r) = RecordTasks(Records[s])
      /\ RecordEntries(r) = RecordEntries(Records[s])
      /\ r.lifecycle_state = Records[s].lifecycle_state
      /\ RecordQueues(r) = IF call[t].pc = "queue1"
                           THEN <<q, Records[s].queue_server_client>>
                           ELSE <<Records[s].queue_client_server, q>>
  BY ZenonT(60), <1>0, <1>2, <1>3
  DEF IInv, RegistryInv, RegistryTypeOK, Runtime, RecordTasks, RecordQueues, RecordEntries
<1>5. /\ c.pc = (IF call[t].pc = "queue1" THEN "queue2" ELSE "pairId")
      /\ c.slot = s /\ c.full = call[t].full /\ c.got = call[t].got
      /\ c.task = call[t].task /\ c.idx = call[t].idx /\ c.seg = call[t].seg
  BY <1>2 DEF Call
<1>6. Works(c) /\ ~Unindexed(c) /\ c.pc # "linkPeer"
  BY <1>0, <1>5 DEF Works, WorkingPcs, CreatePcs, Unindexed
<1> HIDE DEF c, r
<1>7. CreateShape(call[t]) /\ CreateRecord(call[t], Records[s])
  BY <1>0, <1>2 DEF Shape, WorkRecord, WorkingPcs, CreatePcs
<1>8. Shape(t, c)
  BY <1>0, <1>2, <1>5, <1>7 DEF Shape, WorkingPcs, CreatePcs, RollbackPcs, DestroyPcs, CreateShape
<1>9. WorkRecord(c, r)
  BY <1>0, <1>2, <1>4, <1>5, <1>7
  DEF WorkRecord, CreatePcs, RollbackPcs, DestroyPcs, CreateRecord, SegHandler, SegIndex,
      RecordTasks, RecordQueues, RecordEntries, CreateShape
<1>10. /\ CallEntries(c) = CallEntries(call[t]) /\ CallTasks(c) = CallTasks(call[t])
       /\ CallQueues(c) = CallQueues(call[t])
       /\ CallQueues(c) = <<NoHandle, NoHandle, NoHandle>>
  BY <1>0, <1>5, <1>7, Blank DEF CallEntries, CallTasks, CallQueues, CreateShape, IsEmpty
<1>11. Active' = Active
  BY <1>3 DEF Active
<1>12. TradesTasks(t, s, c, r) /\ TradesEntries(t, s, c, r)
  BY <1>2, <1>3, <1>4, <1>10, <1>11, TasksStay, EntriesStay
<1>13. TradesQueues(t, s, c, r)
  <2>1. /\ Contents(RecordQueues(Records[s]), CallQueues(call[t]), NoHandle)
              \subseteq liveQueues
        /\ Apart(RecordQueues(Records[s]), CallQueues(call[t]), NoHandle)
    BY <1>2, NearHeld
  <2>2. IF call[t].pc = "queue1"
        THEN Records[s].queue_client_server = NoHandle
        ELSE Records[s].queue_server_client = NoHandle
    BY <1>0, <1>7 DEF CreateRecord
  <2> DEFINE a == Records[s].queue_client_server
             b == Records[s].queue_server_client
  <2>3. RecordQueues(Records[s]) = <<a, b>>
    BY DEF RecordQueues
  <2>4. PICK y, z : /\ RecordQueues(r) = <<y, z>>
                    /\ (a = NoHandle /\ y = q /\ z = b) \/ (b = NoHandle /\ y = a /\ z = q)
    BY <1>4, <2>2
  <2> HIDE DEF a, b, s
  <2>5. Trades(<<a, b>>, <<NoHandle, NoHandle, NoHandle>>, <<y, z>>,
               <<NoHandle, NoHandle, NoHandle>>, NoHandle, liveQueues, liveQueues')
    BY <1>3, <1>10, <2>1, <2>3, <2>4, RecordGains
  <2> QED
    BY <1>10, <2>3, <2>4, <2>5 DEF TradesQueues
<1>14. Feeds(t, s, c, r)
  <2>1. c.task = NoHandle /\ c.got = Nothing
    BY <1>0, <1>5, <1>7 DEF CreateShape
  <2>2. r.HandlerClient = NoHandle /\ r.HandlerServer = NoHandle
    BY <1>0, <1>4, <1>7 DEF CreateShape, CreateRecord, SegHandler, RecordTasks
  <2> QED
    BY <1>3, <2>1, <2>2, Blank DEF Feeds, RecordFeeds, CallFeeds, IsEmpty
<1> HIDE DEF s
<1> QED
  BY <1>1, <1>3, <1>4, <1>5, <1>6, <1>8, <1>9, <1>12, <1>13, <1>14, WorkStep DEF s

\* A task that is created is a local of its creator, with the queues of the record.
LEMMA SpawnTaskOwns ==
  ASSUME IInv, IInv', OwnInv, NEW t \in Threads, SpawnTask(t)
  PROVE  OwnInv'
<1>0. call[t].pc = "spawn"
  BY DEF SpawnTask
<1> DEFINE s == call[t].slot
           r == runtime[s]
<1>1. Works(call[t]) /\ ~Unindexed(call[t])
  BY <1>0 DEF Works, WorkingPcs, CreatePcs, Unindexed
<1>2. /\ call[t] \in Call /\ s \in Slots /\ s \in inUse /\ Shape(t, call[t])
      /\ WorkRecord(call[t], Records[s]) /\ Records[s] = r
      /\ Records[s] \in Runtime /\ Built(t) = r
  BY <1>1, WorkerKnows
<1>3. PICK h \in TaskHandles :
         /\ h \notin LiveTasks
         /\ tasks' = [tasks EXCEPT ![h] =
               [alive |-> TRUE, pvParameters |-> s,
                queues |-> {r.queue_client_server, r.queue_server_client} \ {NoHandle}]]
         /\ call' = [call EXCEPT ![t].pc = "record", ![t].task = h]
  BY <1>2 DEF SpawnTask, Allocates
<1> DEFINE c == [call[t] EXCEPT !.pc = "record", !.task = h]
<1>4. /\ call' = [call EXCEPT ![t] = c]
      /\ UNCHANGED <<inUse, runtime, liveQueues, monitor>>
  BY <1>3, Typed DEF SpawnTask, registryVars, monitorVars
<1>5. /\ tasks'[h].alive /\ tasks'[h].pvParameters = s
      /\ tasks'[h].queues \subseteq QueuesOf(r)
      /\ \A g \in TaskHandles \ {h} : tasks'[g] = tasks[g]
      /\ LiveTasks' = LiveTasks \cup {h} /\ h # NoHandle
  BY <1>3, Typed DEF IInv, KernelInv, LiveTasks, QueuesOf
<1>6. /\ c.pc = "record" /\ c.slot = s /\ c.full = call[t].full /\ c.got = call[t].got
      /\ c.task = h /\ c.idx = call[t].idx /\ c.seg = call[t].seg
  BY <1>2 DEF Call
<1>7. Works(c) /\ ~Unindexed(c)
  BY <1>6 DEF Works, WorkingPcs, CreatePcs, Unindexed
<1> HIDE DEF c
<1>8. CreateShape(call[t]) /\ CreateRecord(call[t], r)
  BY <1>0, <1>2 DEF Shape, WorkRecord, WorkingPcs, CreatePcs
<1>9. Shape(t, c)
  BY <1>0, <1>6, <1>8 DEF Shape, WorkingPcs, CreatePcs, RollbackPcs, DestroyPcs, CreateShape
<1>10. WorkRecord(c, r)
  BY <1>0, <1>6, <1>8
  DEF WorkRecord, CreatePcs, RollbackPcs, DestroyPcs, CreateRecord, SegHandler, SegIndex
<1>11. /\ CallEntries(c) = CallEntries(call[t]) /\ CallQueues(c) = CallQueues(call[t])
       /\ CallTasks(call[t]) = <<NoHandle, NoHandle, NoHandle>>
       /\ CallTasks(c) = <<h, NoHandle, NoHandle>>
  BY <1>0, <1>6, <1>8, Blank DEF CallEntries, CallTasks, CallQueues, CreateShape, IsEmpty
<1>12. Active' = Active
  BY <1>4 DEF Active
<1>13. TradesQueues(t, s, c, r) /\ TradesEntries(t, s, c, r)
  BY <1>2, <1>4, <1>11, <1>12, QueuesStay, EntriesStay
<1>14. /\ Contents(RecordTasks(r), CallTasks(call[t]), NoHandle) \subseteq LiveTasks
       /\ Apart(RecordTasks(r), CallTasks(call[t]), NoHandle)
  BY <1>2, NearHeld
<1>15. TradesTasks(t, s, c, r)
  <2> HIDE DEF s, r
  <2> QED
    BY <1>2, <1>3, <1>5, <1>11, <1>14, LocalGains DEF TradesTasks
<1>16. Feeds(t, s, c, r)
  <2>1. \A g \in {r.HandlerClient, r.HandlerServer} \ {NoHandle} :
           g \in LiveTasks /\ Uses(tasks, g, s, r)
    BY <1>2, <1>14 DEF Contents, RecordTasks, OwnInv, TasksFed, RecordFeeds
  <2>2. RecordFeeds(tasks', s, r)
    BY <1>3, <1>5, <2>1, Typed DEF RecordFeeds, Uses
  <2>3. CallFeeds(tasks', t, c, r)
    BY <1>5, <1>6, <1>8, Blank DEF CallFeeds, Uses, CreateShape, IsEmpty
  <2> QED
    BY <1>3, <1>5, <2>2, <2>3 DEF Feeds
<1> HIDE DEF s
<1> QED
  BY <1>1, <1>2, <1>4, <1>6, <1>7, <1>9, <1>10, <1>13, <1>15, <1>16, WorkStep DEF s

\* An entry is a local of the creator from the time it is written.
LEMMA RecordTaskOwns ==
  ASSUME IInv, IInv', OwnInv, NEW t \in Threads, RecordTask(t)
  PROVE  OwnInv'
<1>0. call[t].pc = "record"
  BY DEF RecordTask
<1> DEFINE s == call[t].slot
           i == call[t].idx
           r == runtime[s]
           c == [call[t] EXCEPT !.pc = IF i \in Active THEN "lose" ELSE "handle"]
<1>1. Works(call[t]) /\ ~Unindexed(call[t])
  BY <1>0 DEF Works, WorkingPcs, CreatePcs, Unindexed
<1>2. /\ call[t] \in Call /\ s \in Slots /\ s \in inUse /\ Shape(t, call[t])
      /\ WorkRecord(call[t], Records[s]) /\ Records[s] = r /\ i \in Indices
  BY <1>0, <1>1, WorkerKnows DEF IInv, CallInv, WellShaped
<1>3. /\ call' = [call EXCEPT ![t] = c]
      /\ UNCHANGED <<inUse, runtime, tasks, liveQueues>>
      /\ i \in Active => monitor' = monitor
      /\ i \notin Active => \E e : e.is_active /\ monitor' = [monitor EXCEPT ![i] = e]
  BY DEF RecordTask, RecordMonitor, Goto, registryVars, kernelVars, monitorVars
<1>4. /\ c.pc = (IF i \in Active THEN "lose" ELSE "handle")
      /\ c.slot = s /\ c.full = call[t].full /\ c.got = call[t].got
      /\ c.task = call[t].task /\ c.idx = i /\ c.seg = call[t].seg
  BY <1>2 DEF Call
<1>5. Works(c) /\ ~Unindexed(c) /\ c.pc # "linkPeer"
  BY <1>4 DEF Works, WorkingPcs, CreatePcs, Unindexed
<1> HIDE DEF c
<1>6. CreateShape(call[t]) /\ CreateRecord(call[t], r)
  BY <1>0, <1>2 DEF Shape, WorkRecord, WorkingPcs, CreatePcs
<1>7. Shape(t, c)
  BY <1>0, <1>2, <1>4, <1>6 DEF Shape, WorkingPcs, CreatePcs, RollbackPcs, DestroyPcs, CreateShape
<1>8. WorkRecord(c, r)
  BY <1>0, <1>4, <1>6
  DEF WorkRecord, CreatePcs, RollbackPcs, DestroyPcs, CreateRecord, SegHandler, SegIndex
<1>9. /\ CallTasks(c) = CallTasks(call[t]) /\ CallQueues(c) = CallQueues(call[t])
      /\ CallEntries(call[t]) = <<NoIndex, NoIndex, NoIndex>>
      /\ CallEntries(c) = <<IF i \in Active THEN NoIndex ELSE i, NoIndex, NoIndex>>
  BY <1>0, <1>4, <1>6, Blank DEF CallEntries, CallTasks, CallQueues, CreateShape, IsEmpty
<1>10. /\ Active' = IF i \in Active THEN Active ELSE Active \cup {i}
       /\ \A j \in Active : monitor'[j] = monitor[j]
  BY <1>2, <1>3 DEF Active, IInv, MonitorInv, MonitorTypeOK
<1>11. TradesTasks(t, s, c, r) /\ TradesQueues(t, s, c, r)
  BY <1>2, <1>3, <1>9, TasksStay, QueuesStay
<1>12. TradesEntries(t, s, c, r)
  <2>1. /\ Contents(RecordEntries(r), CallEntries(call[t]), NoIndex) \subseteq Active
        /\ Apart(RecordEntries(r), CallEntries(call[t]), NoIndex)
    BY <1>2, NearHeld
  <2>2. i # NoIndex
    BY <1>2, Typed
  <2> HIDE DEF s, r, i
  <2>3. CASE i \in Active
    BY <1>2, <1>9, <1>10, <2>1, <2>3, TradeNothing DEF TradesEntries
  <2>4. CASE i \notin Active
    BY <1>2, <1>9, <1>10, <2>1, <2>2, <2>4, LocalGains DEF TradesEntries
  <2> QED
    BY <2>3, <2>4
<1>13. Feeds(t, s, c, r)
  BY <1>2, <1>3, <1>4, FeedsStay
<1> HIDE DEF s
<1> QED
  BY <1>1, <1>2, <1>3, <1>4, <1>5, <1>7, <1>8, <1>10, <1>11, <1>12, <1>13, WorkStep DEF s

\* A task that is deleted by another thread is in no call: a task inside
\* edge_task_pair_destroy is held by itself.
LEMMA HeldIsIdle ==
  ASSUME IInv, OwnInv, NEW t \in Threads, NEW s \in Slots, NEW h,
         h \in Contents(RecordTasks(Records[s]), CallTasks(call[t]), NoHandle),
         h # t
  PROVE  /\ h \in TaskHandles /\ h \in Threads /\ h \in LiveTasks
         /\ call[h] = IdleCall
<1>1. h \in LiveTasks
  BY NearHeld
<1>2. h \in TaskHandles /\ h \in Threads /\ h \notin Callers
  BY <1>1, Typed, ManagerAssumption DEF Threads
<1>3. call[h] \in Call /\ Shape(h, call[h])
  BY <1>2, Typed DEF OwnInv, CallsShaped
<1>4. call[h].pc \notin CreatePcs \cup RollbackPcs
  BY <1>2 DEF IInv, CallInv, WellShaped
<1>5. call[h].pc \notin DestroyPcs
  <2>1. SUFFICES ASSUME call[h].pc \in DestroyPcs PROVE FALSE
    OBVIOUS
  <2>2. h \in {call[h].got.HandlerClient, call[h].got.HandlerServer}
    BY <1>2, <1>3, <2>1 DEF Shape, DestroyShape
  <2> DEFINE recs == [x \in Slots |-> RecordTasks(Records[x])]
             locs == [u \in Threads |-> CallTasks(call[u])]
  <2>3. HeldOnce(recs, locs, LiveTasks, NoHandle)
    BY DEF OwnInv, TasksHeld
  <2>4. /\ recs[s] = RecordTasks(Records[s]) /\ locs[t] = CallTasks(call[t])
        /\ locs[h] = CallTasks(call[h])
    BY <1>2
  <2> HIDE DEF recs, locs
  <2>5. \A j \in 1..3 : CallTasks(call[h])[j]
                           \notin Contents(RecordTasks(Records[s]), CallTasks(call[t]), NoHandle)
    BY <1>2, <2>3, <2>4, HeldElsewhere
  <2> QED
    BY <2>2, <2>5 DEF CallTasks
<1> QED
  BY <1>1, <1>2, <1>3, <1>4, <1>5 DEF Shape, Call

\* The creator deletes the task that it could not record.
LEMMA LoseRaceOwns ==
  ASSUME IInv, IInv', OwnInv, NEW t \in Threads, LoseRace(t)
  PROVE  OwnInv'
<1>0. call[t].pc = "lose"
  BY DEF LoseRace
<1> DEFINE s == call[t].slot
           h == call[t].task
           r == runtime[s]
           c == [call[t] EXCEPT !.pc = "markCleaning", !.task = NoHandle, !.idx = NoIndex]
<1>1. Works(call[t]) /\ ~Unindexed(call[t])
  BY <1>0 DEF Works, WorkingPcs, CreatePcs, Unindexed
<1>2. /\ call[t] \in Call /\ s \in Slots /\ s \in inUse /\ Shape(t, call[t])
      /\ WorkRecord(call[t], Records[s]) /\ Records[s] = r /\ h \in TaskHandles
      /\ t \in Callers /\ h # t /\ h \in Threads /\ h # NoHandle
  BY <1>0, <1>1, WorkerKnows, Typed, ManagerAssumption
  DEF IInv, CallInv, WellShaped, CreatePcs, Threads
<1>3. call[h] = IdleCall
  BY <1>2, HeldIsIdle DEF Contents, CallTasks
<1>4. /\ call' = [call EXCEPT ![t] = c]
      /\ UNCHANGED <<inUse, runtime, liveQueues, monitor>>
      /\ tasks' = [tasks EXCEPT ![h] = DeadTask]
  <2>1. call' = [call EXCEPT ![h] = IdleCall, ![t] = c]
    BY <1>2 DEF LoseRace
  <2>2. [call EXCEPT ![h] = IdleCall] = call
    BY <1>2, <1>3, Typed
  <2> QED
    BY <2>1, <2>2 DEF LoseRace, registryVars, monitorVars
<1>5. /\ LiveTasks' = LiveTasks \ {h} /\ Active' = Active
      /\ \A g \in TaskHandles \ {h} : tasks'[g] = tasks[g]
  BY <1>2, <1>4 DEF LiveTasks, Active, DeadTask, IInv, KernelInv
<1>6. /\ c.pc = "markCleaning" /\ c.slot = s /\ c.full = call[t].full
      /\ c.got = call[t].got /\ c.task = NoHandle /\ c.seg = call[t].seg
  BY <1>2 DEF Call
<1>7. Works(c) /\ ~Unindexed(c)
  BY <1>6 DEF Works, WorkingPcs, RollbackPcs, Unindexed
<1> HIDE DEF c
<1>8. CreateShape(call[t]) /\ CreateRecord(call[t], r)
  BY <1>0, <1>2 DEF Shape, WorkRecord, WorkingPcs, CreatePcs
<1>9. Shape(t, c)
  BY <1>6, <1>8 DEF Shape, WorkingPcs, CreatePcs, RollbackPcs, DestroyPcs, CreateShape
<1>10. WorkRecord(c, r)
  BY <1>6, <1>8
  DEF WorkRecord, CreatePcs, RollbackPcs, DestroyPcs, CreateRecord, RollbackRecord
<1>11. /\ CallEntries(c) = CallEntries(call[t]) /\ CallQueues(c) = CallQueues(call[t])
       /\ CallTasks(call[t]) = <<h, NoHandle, NoHandle>>
       /\ CallTasks(c) = <<NoHandle, NoHandle, NoHandle>>
  BY <1>0, <1>6, <1>8, Blank DEF CallEntries, CallTasks, CallQueues, CreateShape, IsEmpty
<1>12. TradesQueues(t, s, c, r) /\ TradesEntries(t, s, c, r)
  BY <1>2, <1>4, <1>5, <1>11, QueuesStay, EntriesStay
<1>13. /\ Contents(RecordTasks(r), CallTasks(call[t]), NoHandle) \subseteq LiveTasks
       /\ Apart(RecordTasks(r), CallTasks(call[t]), NoHandle)
       /\ RecordTasks(r) = <<r.HandlerClient, r.HandlerServer>>
  BY <1>2, NearHeld DEF RecordTasks
<1>14. TradesTasks(t, s, c, r)
  <2> HIDE DEF s, r, h
  <2> QED
    BY <1>2, <1>5, <1>11, <1>13, Typed, LocalLoses DEF TradesTasks
<1>15. Feeds(t, s, c, r)
  <2>1. \A g \in {r.HandlerClient, r.HandlerServer} \ {NoHandle} :
           g \in TaskHandles \ {h} /\ Uses(tasks, g, s, r)
    BY <1>2, <1>11, <1>13, Typed DEF Contents, Apart, OwnInv, TasksFed, RecordFeeds
  <2>2. RecordFeeds(tasks', s, r)
    BY <1>5, <2>1 DEF RecordFeeds, Uses
  <2>3. CallFeeds(tasks', t, c, r)
    BY <1>6, <1>8, Blank DEF CallFeeds, CreateShape, IsEmpty
  <2> QED
    BY <1>5, <2>2, <2>3 DEF Feeds
<1> HIDE DEF s
<1> QED
  BY <1>1, <1>2, <1>4, <1>6, <1>7, <1>9, <1>10, <1>12, <1>14, <1>15, WorkStep DEF s

\* The task goes from the local into the record.
LEMMA StoreHandleOwns ==
  ASSUME IInv, IInv', OwnInv, NEW t \in Threads, StoreHandle(t)
  PROVE  OwnInv'
<1>0. call[t].pc = "handle"
  BY DEF StoreHandle
<1> DEFINE s == call[t].slot
           h == call[t].task
           r0 == runtime[s]
           r == IF call[t].seg = "client" THEN [r0 EXCEPT !.HandlerClient = h]
                ELSE [r0 EXCEPT !.HandlerServer = h]
           c == [call[t] EXCEPT !.pc = "index", !.task = NoHandle]
<1>1. Works(call[t]) /\ ~Unindexed(call[t])
  BY <1>0 DEF Works, WorkingPcs, CreatePcs, Unindexed
<1>2. /\ call[t] \in Call /\ s \in Slots /\ s \in inUse /\ Shape(t, call[t])
      /\ WorkRecord(call[t], Records[s]) /\ Records[s] = r0 /\ r0 \in Runtime
      /\ Built(t) = r0
  BY <1>1, WorkerKnows
<1>3. /\ call' = [call EXCEPT ![t] = c] /\ runtime' = [runtime EXCEPT ![s] = r]
      /\ UNCHANGED <<inUse, tasks, liveQueues, monitor>>
  BY <1>2, Typed DEF StoreHandle, Store, WriteRuntime, kernelVars, monitorVars
<1>4. /\ \A x \in Slots \ {s} : runtime'[x] = runtime[x]
      /\ r = runtime'[s]
      /\ RecordQueues(r) = RecordQueues(r0)
      /\ RecordEntries(r) = RecordEntries(r0)
      /\ r.lifecycle_state = r0.lifecycle_state
      /\ r.HandlerClient = (IF call[t].seg = "client" THEN h ELSE r0.HandlerClient)
      /\ r.HandlerServer = (IF call[t].seg = "client" THEN r0.HandlerServer ELSE h)
  BY <1>2, <1>3
  DEF IInv, RegistryInv, RegistryTypeOK, Runtime, RecordQueues, RecordEntries
<1>5. /\ c.pc = "index" /\ c.slot = s /\ c.full = call[t].full /\ c.got = call[t].got
      /\ c.task = NoHandle /\ c.idx = call[t].idx /\ c.seg = call[t].seg
      /\ call[t].seg \in {"client", "server"}
  BY <1>2 DEF Call
<1>6. Works(c) /\ ~Unindexed(c)
  BY <1>5 DEF Works, WorkingPcs, CreatePcs, Unindexed
<1> HIDE DEF c, r
<1>7. CreateShape(call[t]) /\ CreateRecord(call[t], r0)
  BY <1>0, <1>2 DEF Shape, WorkRecord, WorkingPcs, CreatePcs
<1>8. Shape(t, c)
  BY <1>0, <1>5, <1>7 DEF Shape, WorkingPcs, CreatePcs, RollbackPcs, DestroyPcs, CreateShape
<1>9. WorkRecord(c, r)
  BY <1>0, <1>4, <1>5, <1>7
  DEF WorkRecord, CreatePcs, RollbackPcs, DestroyPcs, CreateRecord, SegHandler, SegIndex,
      RecordQueues, RecordEntries
<1>10. /\ CallEntries(c) = CallEntries(call[t]) /\ CallQueues(c) = CallQueues(call[t])
       /\ CallTasks(call[t]) = <<h, NoHandle, NoHandle>>
       /\ CallTasks(c) = <<NoHandle, NoHandle, NoHandle>>
  BY <1>0, <1>5, <1>7, Blank DEF CallEntries, CallTasks, CallQueues, CreateShape, IsEmpty
<1>11. Active' = Active /\ LiveTasks' = LiveTasks
  BY <1>3 DEF Active, LiveTasks
<1>12. TradesQueues(t, s, c, r) /\ TradesEntries(t, s, c, r)
  BY <1>2, <1>3, <1>4, <1>10, <1>11, QueuesStay, EntriesStay
<1>13. /\ Contents(RecordTasks(r0), CallTasks(call[t]), NoHandle) \subseteq LiveTasks
       /\ Apart(RecordTasks(r0), CallTasks(call[t]), NoHandle)
       /\ RecordTasks(r0) = <<r0.HandlerClient, r0.HandlerServer>>
       /\ RecordTasks(r) = <<r.HandlerClient, r.HandlerServer>>
  BY <1>2, NearHeld DEF RecordTasks
<1>14. IF call[t].seg = "client" THEN r0.HandlerClient = NoHandle
       ELSE r0.HandlerServer = NoHandle
  BY <1>0, <1>7 DEF CreateRecord, SegHandler
<1>15. TradesTasks(t, s, c, r)
  <2> DEFINE a == r0.HandlerClient
             b == r0.HandlerServer
  <2>1. PICK y, z : /\ RecordTasks(r) = <<y, z>>
                    /\ (a = NoHandle /\ y = h /\ z = b) \/ (b = NoHandle /\ y = a /\ z = h)
    BY <1>4, <1>13, <1>14
  <2> HIDE DEF a, b, s, r0, h
  <2>2. Trades(<<a, b>>, <<h, NoHandle, NoHandle>>, <<y, z>>,
               <<NoHandle, NoHandle, NoHandle>>, NoHandle, LiveTasks, LiveTasks)
    BY <1>10, <1>13, <2>1, LocalStored DEF a, b
  <2>3. /\ RecordTasks(Records[s]) = <<a, b>> /\ RecordTasks(r) = <<y, z>>
        /\ CallTasks(call[t]) = <<h, NoHandle, NoHandle>>
        /\ CallTasks(c) = <<NoHandle, NoHandle, NoHandle>>
        /\ LiveTasks' = LiveTasks
    BY <1>2, <1>10, <1>11, <1>13, <2>1 DEF a, b
  <2> QED
    BY <2>2, <2>3 DEF TradesTasks
<1>16. Feeds(t, s, c, r)
  <2>1. QueuesOf(r) = QueuesOf(r0)
    BY <1>4 DEF QueuesOf, RecordQueues
  <2>2. RecordFeeds(tasks, s, r0) /\ CallFeeds(tasks, t, call[t], r0)
    BY <1>2 DEF OwnInv, TasksFed
  <2>3. RecordFeeds(tasks', s, r)
    BY <1>3, <1>4, <2>1, <2>2 DEF RecordFeeds, CallFeeds, Uses
  <2>4. CallFeeds(tasks', t, c, r)
    BY <1>5, <1>7, Blank DEF CallFeeds, CreateShape, IsEmpty
  <2> QED
    BY <1>3, <2>3, <2>4 DEF Feeds
<1> HIDE DEF s
<1> QED
  BY <1>1, <1>3, <1>4, <1>5, <1>6, <1>8, <1>9, <1>12, <1>15, <1>16, WorkStep DEF s

\* The entry goes from the local into the record.
LEMMA StoreIndexOwns ==
  ASSUME IInv, IInv', OwnInv, NEW t \in Threads, StoreIndex(t)
  PROVE  OwnInv'
<1>0. call[t].pc = "index"
  BY DEF StoreIndex
<1> DEFINE s == call[t].slot
           i == call[t].idx
           r0 == runtime[s]
           r == IF call[t].seg = "client" THEN [r0 EXCEPT !.client_index = i]
                ELSE [r0 EXCEPT !.server_index = i]
           c == [call[t] EXCEPT !.pc = "link",
                                !.idx = IF call[t].seg = "client" THEN i ELSE NoIndex]
<1>1. Works(call[t]) /\ ~Unindexed(call[t])
  BY <1>0 DEF Works, WorkingPcs, CreatePcs, Unindexed
<1>2. /\ call[t] \in Call /\ s \in Slots /\ s \in inUse /\ Shape(t, call[t])
      /\ WorkRecord(call[t], Records[s]) /\ Records[s] = r0 /\ r0 \in Runtime
      /\ Built(t) = r0
  BY <1>1, WorkerKnows
<1>3. /\ call' = [call EXCEPT ![t] = c] /\ runtime' = [runtime EXCEPT ![s] = r]
      /\ UNCHANGED <<inUse, tasks, liveQueues, monitor>>
  BY <1>2, Typed DEF StoreIndex, Store, WriteRuntime, kernelVars, monitorVars
<1>4. /\ \A x \in Slots \ {s} : runtime'[x] = runtime[x]
      /\ r = runtime'[s]
      /\ RecordQueues(r) = RecordQueues(r0)
      /\ RecordTasks(r) = RecordTasks(r0)
      /\ r.lifecycle_state = r0.lifecycle_state
      /\ r.client_index = (IF call[t].seg = "client" THEN i ELSE r0.client_index)
      /\ r.server_index = (IF call[t].seg = "client" THEN r0.server_index ELSE i)
  BY <1>2, <1>3
  DEF IInv, RegistryInv, RegistryTypeOK, Runtime, RecordQueues, RecordTasks
<1>5. /\ c.pc = "link" /\ c.slot = s /\ c.full = call[t].full /\ c.got = call[t].got
      /\ c.task = call[t].task /\ c.seg = call[t].seg
      /\ call[t].seg \in {"client", "server"}
      /\ c.idx = IF call[t].seg = "client" THEN i ELSE NoIndex
  BY <1>2 DEF Call
<1>6. Works(c) /\ ~Unindexed(c)
  BY <1>5 DEF Works, WorkingPcs, CreatePcs, Unindexed
<1> HIDE DEF c, r
<1>7. CreateShape(call[t]) /\ CreateRecord(call[t], r0)
  BY <1>0, <1>2 DEF Shape, WorkRecord, WorkingPcs, CreatePcs
<1>8. Shape(t, c)
  BY <1>0, <1>5, <1>7 DEF Shape, WorkingPcs, CreatePcs, RollbackPcs, DestroyPcs, CreateShape
<1>9. WorkRecord(c, r)
  BY <1>0, <1>4, <1>5, <1>7
  DEF WorkRecord, CreatePcs, RollbackPcs, DestroyPcs, CreateRecord, SegHandler, SegIndex,
      RecordQueues, RecordTasks
<1>10. /\ CallTasks(c) = CallTasks(call[t]) /\ CallQueues(c) = CallQueues(call[t])
       /\ CallEntries(call[t]) = <<i, NoIndex, NoIndex>> /\ i \in Indices
       /\ CallEntries(c) = <<NoIndex, NoIndex, NoIndex>>
  BY <1>0, <1>5, <1>7, Blank DEF CallEntries, CallTasks, CallQueues, CreateShape, IsEmpty
<1>11. Active' = Active
  BY <1>3 DEF Active
<1>12. TradesQueues(t, s, c, r) /\ TradesTasks(t, s, c, r)
  BY <1>2, <1>3, <1>4, <1>10, <1>11, QueuesStay, TasksStay
<1>13. /\ Contents(RecordEntries(r0), CallEntries(call[t]), NoIndex) \subseteq Active
       /\ Apart(RecordEntries(r0), CallEntries(call[t]), NoIndex)
       /\ RecordEntries(r0) = <<r0.client_index, r0.server_index>>
       /\ RecordEntries(r) = <<r.client_index, r.server_index>>
  BY <1>2, NearHeld DEF RecordEntries
<1>14. IF call[t].seg = "client" THEN r0.client_index = NoIndex
       ELSE r0.server_index = NoIndex
  BY <1>0, <1>7 DEF CreateRecord, SegIndex
<1>15. TradesEntries(t, s, c, r)
  <2> DEFINE a == r0.client_index
             b == r0.server_index
  <2>1. PICK y, z : /\ RecordEntries(r) = <<y, z>>
                    /\ (a = NoIndex /\ y = i /\ z = b) \/ (b = NoIndex /\ y = a /\ z = i)
    BY <1>4, <1>13, <1>14
  <2> HIDE DEF a, b, s, r0, i
  <2>2. Trades(<<a, b>>, <<i, NoIndex, NoIndex>>, <<y, z>>,
               <<NoIndex, NoIndex, NoIndex>>, NoIndex, Active, Active)
    BY <1>10, <1>13, <2>1, LocalStored DEF a, b
  <2>3. /\ RecordEntries(Records[s]) = <<a, b>> /\ RecordEntries(r) = <<y, z>>
        /\ CallEntries(call[t]) = <<i, NoIndex, NoIndex>>
        /\ CallEntries(c) = <<NoIndex, NoIndex, NoIndex>>
        /\ Active' = Active
    BY <1>2, <1>10, <1>11, <1>13, <2>1 DEF a, b
  <2> QED
    BY <2>2, <2>3 DEF TradesEntries
<1>16. Feeds(t, s, c, r)
  BY <1>2, <1>3, <1>4, <1>5, FeedsStay
<1> HIDE DEF s
<1> QED
  BY <1>1, <1>3, <1>4, <1>5, <1>6, <1>8, <1>9, <1>12, <1>15, <1>16, WorkStep DEF s

\* A worker is done: the pair is complete and the caller holds nothing.
LEMMA WorkEnds ==
  ASSUME IInv, IInv', OwnInv, NEW t \in Threads, Works(call[t]), ~Unindexed(call[t]),
         call' = [call EXCEPT ![t] = IdleCall],
         UNCHANGED <<inUse, runtime, tasks, liveQueues>>, Active' = Active,
         CallTasks(IdleCall) = CallTasks(call[t]),
         CallQueues(IdleCall) = CallQueues(call[t]),
         CallEntries(IdleCall) = CallEntries(call[t]),
         Records[call[t].slot].lifecycle_state = "READY",
         \A i \in Active : monitor'[i] = monitor[i] \/ i \in SlotEntries(call[t].slot),
         Linked(monitor', Records[call[t].slot])
  PROVE  OwnInv'
<1> DEFINE s == call[t].slot
           r == Records[s]
<1>1. s \in Slots /\ s \in inUse /\ Alone(t, s)
  BY WorkerKnows
<1>2. ~Unindexed(IdleCall) /\ ~Works(IdleCall) /\ ~Engaged(t, IdleCall)
  BY Blank DEF Unindexed, Works, Engaged, WorkingPcs, CreatePcs, RollbackPcs, DestroyPcs
<1>3. Moves(t, s, IdleCall, r) /\ Untouched(s, r)
  BY <1>1, <1>2, RecordKept
<1>4. Shape(t, IdleCall)
  BY Blank DEF Shape, WorkingPcs, CreatePcs, RollbackPcs, DestroyPcs
<1>5. Respects(t, s, IdleCall, r)
  BY <1>1, <1>2, <1>4, Blank DEF Respects
<1>6. TradesTasks(t, s, IdleCall, r) /\ TradesQueues(t, s, IdleCall, r)
      /\ TradesEntries(t, s, IdleCall, r)
  BY <1>1, TasksStay, QueuesStay, EntriesStay
<1>7. Feeds(t, s, IdleCall, r)
  BY <1>1, Blank, FeedsStay DEF IsEmpty
<1>8. Links(t, s, IdleCall, r)
  BY <1>1, Blank DEF Links
<1> QED
  BY <1>1, <1>3, <1>5, <1>6, <1>7, <1>8, StepKeeps DEF Steps

\* A creation that links its entries.
LEMMA LinkEntryOwns ==
  ASSUME IInv, IInv', OwnInv, NEW t \in Threads, LinkEntry(t)
  PROVE  OwnInv'
<1>0. call[t].pc = "link"
  BY DEF LinkEntry
<1> DEFINE s == call[t].slot
           r == runtime[s]
<1>1. Works(call[t]) /\ ~Unindexed(call[t])
  BY <1>0 DEF Works, WorkingPcs, CreatePcs, Unindexed
<1>2. /\ call[t] \in Call /\ s \in Slots /\ s \in inUse /\ Shape(t, call[t])
      /\ WorkRecord(call[t], Records[s]) /\ Records[s] = r /\ r \in Runtime
      /\ Built(t) = r
  BY <1>1, WorkerKnows
<1>3. CreateShape(call[t]) /\ CreateRecord(call[t], r)
  BY <1>0, <1>2 DEF Shape, WorkRecord, WorkingPcs, CreatePcs
<1>4. UNCHANGED <<inUse, runtime, tasks, liveQueues>>
  BY DEF LinkEntry, registryVars, kernelVars
<1>5. /\ call[t].seg \in {"client", "server"} /\ call[t].task = NoHandle
      /\ call[t].got = Nothing /\ call[t].full = FALSE
      /\ CallEntries(call[t]) = <<NoIndex, NoIndex, NoIndex>>
  BY <1>0, <1>2, <1>3, Blank DEF Call, CreateShape, CallEntries, IsEmpty
<1>6. r.client_index \in Indices \cup {NoIndex} /\ r.server_index \in Indices \cup {NoIndex}
      /\ r.pair_id \in 0..MaxPairId
  BY <1>2 DEF Runtime, MaybeIndex
<1>7. /\ UpdateLinkage(r.client_index, r.pair_id, r.server_index)
      /\ call[t].seg = "client" => r.server_index = NoIndex
  BY <1>0, <1>2, <1>3, <1>5 DEF LinkEntry, CreateRecord
<1>8. Active' = Active
  BY <1>6, <1>7, UpdateLinkageType DEF IInv, MonitorInv
<1>9. /\ \A i \in Active : monitor'[i] = monitor[i] \/ i \in SlotEntries(s)
      /\ HalfLinked(monitor', r)
  <2>1. SlotEntries(s) = {r.client_index, r.server_index}
    BY <1>2 DEF SlotEntries, RecordEntries
  <2>2. monitor \in [Indices -> Entry]
    BY DEF IInv, MonitorInv, MonitorTypeOK
  <2>3. \A i \in Active : monitor'[i] = monitor[i] \/ i \in SlotEntries(s)
    BY <1>7, <2>1, <2>2 DEF UpdateLinkage, Active
  <2>4. HalfLinked(monitor', r)
    BY <1>6, <1>7, <2>2 DEF UpdateLinkage, HalfLinked, Entry
  <2> QED
    BY <2>3, <2>4
<1>10. CASE call[t].seg = "client" /\ call[t].kind # "paired"
  <2>1. call' = [call EXCEPT ![t] = IdleCall]
    BY <1>10 DEF LinkEntry, Complete, Return
  <2>2. /\ CallTasks(IdleCall) = CallTasks(call[t])
        /\ CallQueues(IdleCall) = CallQueues(call[t])
        /\ CallEntries(IdleCall) = CallEntries(call[t])
    BY <1>5, Blank DEF CallTasks, CallQueues, CallEntries, IsEmpty
  <2>3. Linked(monitor', r) /\ r.lifecycle_state = "READY"
    BY <1>3, <1>7, <1>9, <1>10 DEF Linked, CreateRecord
  <2> HIDE DEF s
  <2> QED
    BY <1>1, <1>2, <1>4, <1>8, <1>9, <2>1, <2>2, <2>3, WorkEnds DEF s
<1>11. CASE call[t].seg = "server" \/ call[t].kind = "paired"
  <2> DEFINE c == IF call[t].seg = "server" THEN [call[t] EXCEPT !.pc = "linkPeer"]
                  ELSE [call[t] EXCEPT !.pc = "find", !.seg = "server", !.idx = NoIndex]
  <2>1. call' = [call EXCEPT ![t] = c]
    BY <1>5, <1>11, Typed DEF LinkEntry
  <2>2. /\ c.pc = (IF call[t].seg = "server" THEN "linkPeer" ELSE "find")
        /\ c.slot = s /\ c.full = call[t].full /\ c.got = call[t].got
        /\ c.task = call[t].task /\ c.seg = "server"
    BY <1>2, <1>5 DEF Call
  <2>3. Works(c) /\ ~Unindexed(c)
    BY <2>2 DEF Works, WorkingPcs, CreatePcs, Unindexed
  <2> HIDE DEF c
  <2>4. Shape(t, c)
    BY <1>0, <1>3, <1>5, <2>2
    DEF Shape, WorkingPcs, CreatePcs, RollbackPcs, DestroyPcs, CreateShape
  <2>5. WorkRecord(c, r)
    BY <1>0, <1>3, <1>5, <2>2
    DEF WorkRecord, CreatePcs, RollbackPcs, DestroyPcs, CreateRecord, SegHandler, SegIndex
  <2>6. /\ CallTasks(c) = CallTasks(call[t]) /\ CallQueues(c) = CallQueues(call[t])
        /\ CallEntries(c) = CallEntries(call[t])
    BY <1>5, <2>2, Blank DEF CallTasks, CallQueues, CallEntries, IsEmpty
  <2>7. TradesTasks(t, s, c, r) /\ TradesQueues(t, s, c, r) /\ TradesEntries(t, s, c, r)
    BY <1>2, <1>4, <1>8, <2>6, TasksStay, QueuesStay, EntriesStay
  <2>8. Feeds(t, s, c, r)
    BY <1>2, <1>4, <2>2, FeedsStay
  <2> HIDE DEF s
  <2> QED
    BY <1>1, <1>2, <1>4, <1>9, <2>1, <2>2, <2>3, <2>4, <2>5, <2>7, <2>8, WorkStep DEF s
<1> QED
  BY <1>5, <1>10, <1>11

\* A paired creation that links the server's entry to the client's, and returns.
LEMMA LinkPeerEntryOwns ==
  ASSUME IInv, IInv', OwnInv, NEW t \in Threads, LinkPeerEntry(t)
  PROVE  OwnInv'
<1>0. call[t].pc = "linkPeer"
  BY DEF LinkPeerEntry
<1> DEFINE s == call[t].slot
           r == runtime[s]
<1>1. Works(call[t]) /\ ~Unindexed(call[t])
  BY <1>0 DEF Works, WorkingPcs, CreatePcs, Unindexed
<1>2. /\ call[t] \in Call /\ s \in Slots /\ s \in inUse /\ Shape(t, call[t])
      /\ WorkRecord(call[t], Records[s]) /\ Records[s] = r /\ r \in Runtime
      /\ Built(t) = r
  BY <1>1, WorkerKnows
<1>3. CreateShape(call[t]) /\ CreateRecord(call[t], r)
  BY <1>0, <1>2 DEF Shape, WorkRecord, WorkingPcs, CreatePcs
<1>4. /\ UNCHANGED <<inUse, runtime, tasks, liveQueues>>
      /\ call' = [call EXCEPT ![t] = IdleCall]
      /\ UpdateLinkage(r.server_index, r.pair_id, r.client_index)
  BY <1>2 DEF LinkPeerEntry, Complete, Return, registryVars, kernelVars
<1>5. /\ call[t].task = NoHandle /\ call[t].got = Nothing
      /\ CallEntries(call[t]) = <<NoIndex, NoIndex, NoIndex>>
  BY <1>0, <1>3, Blank DEF CreateShape, CallEntries, IsEmpty
<1>6. r.client_index \in Indices \cup {NoIndex} /\ r.server_index \in Indices \cup {NoIndex}
      /\ r.pair_id \in 0..MaxPairId
  BY <1>2 DEF Runtime, MaybeIndex
<1>7. Active' = Active
  BY <1>4, <1>6, UpdateLinkageType DEF IInv, MonitorInv
<1>8. r.client_index # NoIndex => r.client_index # r.server_index
  BY <1>2, NearHeld DEF Apart, RecordEntries
<1>9. HalfLinked(monitor, r)
  BY <1>0, <1>2 DEF OwnInv, PairsLinked
<1>10. /\ \A i \in Active : monitor'[i] = monitor[i] \/ i \in SlotEntries(s)
       /\ Linked(monitor', r)
  BY ZenonT(60), <1>2, <1>4, <1>6, <1>8, <1>9, Typed
  DEF UpdateLinkage, SlotEntries, RecordEntries, HalfLinked, Linked, IInv, MonitorInv,
      MonitorTypeOK, Entry
<1>11. /\ CallTasks(IdleCall) = CallTasks(call[t])
       /\ CallQueues(IdleCall) = CallQueues(call[t])
       /\ CallEntries(IdleCall) = CallEntries(call[t])
  BY <1>5, Blank DEF CallTasks, CallQueues, CallEntries, IsEmpty
<1>12. r.lifecycle_state = "READY"
  BY <1>3 DEF CreateRecord
<1> HIDE DEF s
<1> QED
  BY <1>1, <1>2, <1>4, <1>7, <1>10, <1>11, <1>12, WorkEnds DEF s

\* A reservation hands out a slot that no pair holds, and touches no pair.
LEMMA ReserveFresh ==
  ASSUME RegistryInv, NEW s, ReserveRuntime(s)
  PROVE  /\ s \in Slots /\ s \notin inUse /\ inUse' = inUse \cup {s}
         /\ runtime'[s] = ZeroRuntime
         /\ \A x \in inUse : runtime'[x] = runtime[x]
<1>1. /\ FreeListPartition /\ RegistryTypeOK /\ s \in Slots /\ inUse \subseteq Slots
      /\ chunks \in Nat
  BY RegistryInvReserve DEF RegistryInv, RegistryTypeOK
<1>2. \A x \in inUse : x[1] # chunks + 1
  BY <1>1 DEF FreeListPartition, OwnedSlots
<1>3. s \notin inUse
  <2>1. CASE freeList = <<>>
    <3>1. Len(NewChunk) > 0 /\ NewChunk[1][1] = chunks + 1
      BY RegistryAssumption DEF NewChunk
    <3>2. s = NewChunk[1]
      BY <2>1, <3>1 DEF ReserveRuntime
    <3> QED
      BY <1>2, <3>1, <3>2
  <2>2. CASE freeList # <<>>
    <3>1. freeList \in Seq(Slots)
      BY <1>1 DEF RegistryTypeOK
    <3>2. Len(freeList) \in Nat /\ Len(freeList) > 0 /\ s = freeList[1]
      BY <2>2, <3>1 DEF ReserveRuntime
    <3>3. s \in FreeSlots
      BY <3>2 DEF FreeSlots
    <3> QED
      BY <1>1, <3>3 DEF FreeListPartition
  <2> QED
    BY <2>1, <2>2
<1> QED
  BY <1>1, <1>2, <1>3 DEF ReserveRuntime

\* reserve_pair_runtime, as the first step of a creation.
LEMMA ReserveOwns ==
  ASSUME IInv, IInv', OwnInv, NEW t \in Threads, Reserve(t)
  PROVE  OwnInv'
<1>0. PICK kind \in Kinds, s \in Slots :
         /\ ReserveRuntime(s)
         /\ call' = [call EXCEPT ![t] = [IdleCall EXCEPT !.pc = "init",
                                             !.kind = kind, !.slot = s]]
  BY DEF Reserve
<1> DEFINE c == [IdleCall EXCEPT !.pc = "init", !.kind = kind, !.slot = s]
<1>1. call[t] = IdleCall
  <2>1. Shape(t, call[t]) /\ call[t].pc = "idle"
    BY DEF Reserve, MayCall, Idle, OwnInv, CallsShaped
  <2> QED
    BY <2>1 DEF Shape
<1>2. /\ s \notin inUse /\ inUse' = inUse \cup {s} /\ runtime'[s] = ZeroRuntime
      /\ \A x \in inUse : runtime'[x] = runtime[x]
  BY <1>0, ReserveFresh DEF IInv
<1>3. UNCHANGED <<tasks, liveQueues, monitor>>
  BY DEF Reserve, kernelVars, monitorVars
<1>4. /\ c.pc = "init" /\ c.slot = s /\ c.full = FALSE /\ c.got = Nothing
      /\ c.task = NoHandle /\ c.idx = NoIndex /\ c.seg = "client"
  BY DEF IdleCall
<1> HIDE DEF c
<1>5. Works(c) /\ Unindexed(c) /\ ~Works(call[t]) /\ ~Unindexed(call[t])
  BY <1>1, <1>4, Blank DEF Works, WorkingPcs, CreatePcs, RollbackPcs, DestroyPcs, Unindexed
<1>6. Alone(t, s)
  BY <1>2 DEF Alone, OwnInv, OneEngaged
<1>7. Records[s] = Nothing
  BY <1>2 DEF Records, RecordOf
<1>8. Records' = [Records EXCEPT ![s] = Nothing]
  <2>1. call' = [call EXCEPT ![t] = c]
    BY <1>0 DEF c
  <2>2. /\ \A x \in Slots \ {s} : x \in inUse' <=> x \in inUse
        /\ \A x \in inUse \ {s} : runtime'[x] = runtime[x]
        /\ s \in inUse'
    BY <1>2
  <2>3. WithoutIndices(runtime'[s]) = Nothing
    BY <1>2 DEF WithoutIndices, Nothing, ZeroRuntime
  <2> QED
    BY <1>4, <1>5, <1>6, <2>1, <2>2, <2>3, RecordWritten
<1>9. Moves(t, s, c, Nothing)
  BY <1>0, <1>2, <1>8 DEF Moves, c
<1>10. Shape(t, c)
  BY <1>4 DEF Shape, WorkingPcs, CreatePcs, RollbackPcs, DestroyPcs, CreateShape
<1>11. WorkRecord(c, Nothing)
  BY <1>4, Blank
  DEF WorkRecord, CreatePcs, RollbackPcs, DestroyPcs, CreateRecord, SegHandler, SegIndex,
      IsEmpty
<1>12. Respects(t, s, c, Nothing)
  BY <1>2, <1>4, <1>5, <1>6, <1>10, <1>11, Blank DEF Respects
<1>13. /\ CallTasks(c) = CallTasks(call[t]) /\ CallQueues(c) = CallQueues(call[t])
       /\ CallEntries(c) = CallEntries(call[t])
  BY <1>1, <1>4, Blank DEF CallTasks, CallQueues, CallEntries, IsEmpty
<1>14. Active' = Active
  BY <1>3 DEF Active
<1>15. /\ TradesTasks(t, s, c, Nothing) /\ TradesQueues(t, s, c, Nothing)
       /\ TradesEntries(t, s, c, Nothing)
  BY <1>3, <1>7, <1>13, <1>14, TasksStay, QueuesStay, EntriesStay
<1>16. Feeds(t, s, c, Nothing)
  BY <1>3, <1>4, <1>7, Blank, FeedsStay DEF IsEmpty
<1>17. Links(t, s, c, Nothing)
  BY <1>3, <1>4, <1>5 DEF Links
<1> QED
  BY <1>9, <1>12, <1>15, <1>16, <1>17, StepKeeps DEF Steps

-----------------------------------------------------------------------------
(* error_cleanup.                                                          *)

\* The locals of a roll-back hold nothing.
LEMMA RollbackHolds ==
  ASSUME NEW t, NEW c, Shape(t, c), c.pc \in RollbackPcs
  PROVE  /\ CallTasks(c) = <<NoHandle, NoHandle, NoHandle>>
         /\ CallQueues(c) = <<NoHandle, NoHandle, NoHandle>>
         /\ CallEntries(c) = <<NoIndex, NoIndex, NoIndex>>
         /\ c.task = NoHandle /\ c.got = Nothing /\ ~c.full
<1>1. CreateShape(c)
  BY DEF Shape, WorkingPcs
<1> QED
  BY <1>1, Blank
  DEF CreateShape, RollbackPcs, CallTasks, CallQueues, CallEntries, IsEmpty

\* Deleting a thread that is in no call changes the calls of nobody else.
LEMMA IdleKilled ==
  ASSUME IInv, NEW t \in Threads, NEW c, NEW h,
         h \in Threads /\ h # t => call[h] = IdleCall,
         call' = [x \in Threads |-> IF x = t THEN c
                                    ELSE IF x = h THEN IdleCall ELSE call[x]]
  PROVE  call' = [call EXCEPT ![t] = c]
<1>1. call \in [Threads -> Call]
  BY Typed
<1>2. [call EXCEPT ![t] = c] = [x \in Threads |-> IF x = t THEN c ELSE call[x]]
  BY <1>1
<1>3. \A x \in Threads : (IF x = t THEN c ELSE IF x = h THEN IdleCall ELSE call[x])
                            = (IF x = t THEN c ELSE call[x])
  OBVIOUS
<1> QED
  BY <1>2, <1>3

\* A roll-back deletes the tasks that the record names.
LEMMA UndoTaskOwns ==
  ASSUME IInv, IInv', OwnInv, NEW t \in Threads, UndoTask(t)
  PROVE  OwnInv'
<1>0. call[t].pc \in {"undoServer", "undoClient"}
  BY DEF UndoTask
<1> DEFINE s == call[t].slot
           r0 == runtime[s]
           server == call[t].pc = "undoServer"
           h == IF server THEN r0.HandlerServer ELSE r0.HandlerClient
           c == [call[t] EXCEPT !.pc = IF server THEN "undoClient" ELSE "undoQueue1"]
           r == IF server THEN [r0 EXCEPT !.HandlerServer = NoHandle]
                ELSE [r0 EXCEPT !.HandlerClient = NoHandle]
<1>1. Works(call[t]) /\ ~Unindexed(call[t]) /\ call[t].pc \in RollbackPcs
  BY <1>0 DEF Works, WorkingPcs, RollbackPcs, Unindexed
<1>2. /\ call[t] \in Call /\ s \in Slots /\ s \in inUse /\ Shape(t, call[t])
      /\ WorkRecord(call[t], Records[s]) /\ Records[s] = r0 /\ r0 \in Runtime
      /\ Built(t) = r0 /\ t \in Callers
  BY <1>1, WorkerKnows DEF IInv, CallInv, WellShaped
<1>3. RollbackRecord(call[t], r0)
  BY <1>1, <1>2 DEF WorkRecord
<1>4. h # NoHandle => h \in TaskHandles /\ h \in Threads /\ h # t /\ call[h] = IdleCall
  <2>1. h # NoHandle => h \in TaskHandles
    BY <1>2 DEF Runtime
  <2>2. h # NoHandle => h # t
    BY <1>2, <2>1, ManagerAssumption
  <2>3. h # NoHandle => h \in Contents(RecordTasks(Records[s]), CallTasks(call[t]), NoHandle)
    BY <1>2 DEF Contents, RecordTasks
  <2> QED
    BY <1>2, <2>1, <2>2, <2>3, HeldIsIdle
<1>5. NoHandle \notin Threads /\ NoHandle \notin TaskHandles
  BY ManagerAssumption, Typed DEF Threads
<1>6. /\ call' = [call EXCEPT ![t] = c] /\ runtime' = [runtime EXCEPT ![s] = r]
      /\ tasks' = [x \in TaskHandles |-> IF x = h THEN DeadTask ELSE tasks[x]]
      /\ UNCHANGED <<inUse, liveQueues, monitor>>
  <2>1. call' = [x \in Threads |-> IF x = t THEN c
                                   ELSE IF x = h THEN IdleCall ELSE call[x]]
    BY <1>0, <1>2 DEF UndoTask
  <2>2. h \in Threads /\ h # t => call[h] = IdleCall
    BY <1>4, <1>5
  <2>3. call' = [call EXCEPT ![t] = c]
    <3> HIDE DEF c, h
    <3> QED
      BY <2>1, <2>2, IdleKilled
  <2>4. runtime' = [runtime EXCEPT ![s] = r]
    <3>1. CASE server
      BY <1>2, <3>1 DEF UndoTask, Store, WriteRuntime
    <3>2. CASE ~server
      BY <1>2, <3>2 DEF UndoTask, Store, WriteRuntime
    <3> QED
      BY <3>1, <3>2
  <2>5. tasks' = [x \in TaskHandles |-> IF x = h THEN DeadTask ELSE tasks[x]]
    BY <1>2 DEF UndoTask
  <2>6. UNCHANGED <<inUse, liveQueues, monitor>>
    BY DEF UndoTask, Store, WriteRuntime, monitorVars
  <2> QED
    BY <2>3, <2>4, <2>5, <2>6
<1>7. /\ LiveTasks' = LiveTasks \ {h} /\ Active' = Active
      /\ \A g \in TaskHandles \ {h} : tasks'[g] = tasks[g]
  BY <1>6 DEF LiveTasks, Active, DeadTask
<1>8. /\ \A x \in Slots \ {s} : runtime'[x] = runtime[x]
      /\ r = runtime'[s]
      /\ RecordQueues(r) = RecordQueues(r0)
      /\ RecordEntries(r) = RecordEntries(r0)
      /\ r.lifecycle_state = r0.lifecycle_state
      /\ r.HandlerServer = NoHandle
      /\ r.HandlerClient = IF server THEN r0.HandlerClient ELSE NoHandle
  BY <1>0, <1>2, <1>3, <1>6
  DEF IInv, RegistryInv, RegistryTypeOK, Runtime, RecordQueues, RecordEntries,
      RollbackRecord
<1>9. /\ c.pc = (IF server THEN "undoClient" ELSE "undoQueue1")
      /\ c.slot = s /\ c.full = call[t].full /\ c.got = call[t].got
      /\ c.task = call[t].task /\ c.idx = call[t].idx /\ c.seg = call[t].seg
  BY <1>2 DEF Call
<1> HIDE DEF c, r
<1>10. Works(c) /\ ~Unindexed(c) /\ c.pc \in RollbackPcs /\ c.pc # "linkPeer"
  BY <1>9 DEF Works, WorkingPcs, RollbackPcs, Unindexed
<1>11. Shape(t, c)
  BY <1>1, <1>2, <1>9, <1>10
  DEF Shape, WorkingPcs, CreatePcs, RollbackPcs, DestroyPcs, CreateShape
<1>12. WorkRecord(c, r)
  BY <1>0, <1>3, <1>8, <1>9
  DEF WorkRecord, CreatePcs, RollbackPcs, DestroyPcs, RollbackRecord, RecordQueues
<1>13. /\ CallTasks(c) = <<NoHandle, NoHandle, NoHandle>>
       /\ CallTasks(call[t]) = <<NoHandle, NoHandle, NoHandle>>
       /\ CallQueues(c) = CallQueues(call[t]) /\ CallEntries(c) = CallEntries(call[t])
       /\ c.task = NoHandle /\ c.got = Nothing
  BY <1>1, <1>2, <1>10, <1>11, RollbackHolds
<1>14. TradesQueues(t, s, c, r) /\ TradesEntries(t, s, c, r)
  BY <1>2, <1>6, <1>7, <1>8, <1>13, QueuesStay, EntriesStay
<1>15. /\ Contents(RecordTasks(r0), CallTasks(call[t]), NoHandle) \subseteq LiveTasks
       /\ Apart(RecordTasks(r0), CallTasks(call[t]), NoHandle)
       /\ RecordTasks(r0) = <<r0.HandlerClient, r0.HandlerServer>>
       /\ RecordTasks(r) = <<r.HandlerClient, r.HandlerServer>>
       /\ ~server => r0.HandlerServer = NoHandle
  BY <1>0, <1>2, <1>3, NearHeld DEF RecordTasks, RollbackRecord
<1>16. TradesTasks(t, s, c, r)
  <2> DEFINE a == r0.HandlerClient
             b == r0.HandlerServer
  <2>1. PICK y, z : /\ RecordTasks(r) = <<y, z>>
                    /\ (a = h /\ y = NoHandle /\ z = b) \/ (b = h /\ y = a /\ z = NoHandle)
    BY <1>8, <1>15
  <2> HIDE DEF a, b, s, r0, h
  <2>2. Trades(<<a, b>>, <<NoHandle, NoHandle, NoHandle>>, <<y, z>>,
               <<NoHandle, NoHandle, NoHandle>>, NoHandle, LiveTasks, LiveTasks \ {h})
    <3>1. /\ Contents(<<a, b>>, <<NoHandle, NoHandle, NoHandle>>, NoHandle) \subseteq LiveTasks
          /\ Apart(<<a, b>>, <<NoHandle, NoHandle, NoHandle>>, NoHandle)
          /\ NoHandle \notin LiveTasks
      BY <1>13, <1>15, Typed DEF a, b
    <3> QED
      BY <2>1, <3>1, RecordLoses
  <2>3. /\ RecordTasks(Records[s]) = <<a, b>> /\ RecordTasks(r) = <<y, z>>
        /\ CallTasks(call[t]) = <<NoHandle, NoHandle, NoHandle>>
        /\ CallTasks(c) = <<NoHandle, NoHandle, NoHandle>>
        /\ LiveTasks' = LiveTasks \ {h}
    BY <1>2, <1>7, <1>13, <1>15, <2>1 DEF a, b
  <2> QED
    BY <2>2, <2>3 DEF TradesTasks
<1>17. Feeds(t, s, c, r)
  <2>1. QueuesOf(r) = QueuesOf(r0)
    BY <1>8 DEF QueuesOf, RecordQueues
  <2>2. RecordFeeds(tasks, s, r0)
    BY <1>2 DEF OwnInv, TasksFed
  <2>3. \A g \in {r.HandlerClient, r.HandlerServer} \ {NoHandle} :
           /\ g \in {r0.HandlerClient, r0.HandlerServer}
           /\ g # h /\ g \in TaskHandles
    BY <1>2, <1>8, <1>15 DEF Apart, Runtime
  <2>4. RecordFeeds(tasks', s, r)
    BY <1>7, <2>1, <2>2, <2>3 DEF RecordFeeds, Uses
  <2>5. CallFeeds(tasks', t, c, r)
    BY <1>13, Blank DEF CallFeeds, IsEmpty
  <2> QED
    BY <1>7, <2>4, <2>5 DEF Feeds
<1> HIDE DEF s
<1> QED
  BY <1>1, <1>6, <1>8, <1>9, <1>10, <1>11, <1>12, <1>14, <1>16, <1>17, WorkStep DEF s

\* A roll-back deletes the queues that the record names.
LEMMA UndoQueueOwns ==
  ASSUME IInv, IInv', OwnInv, NEW t \in Threads, UndoQueue(t)
  PROVE  OwnInv'
<1>0. call[t].pc \in {"undoQueue1", "undoQueue2"}
  BY DEF UndoQueue
<1> DEFINE s == call[t].slot
           r0 == runtime[s]
           first == call[t].pc = "undoQueue1"
           q == IF first THEN r0.queue_client_server ELSE r0.queue_server_client
           c == [call[t] EXCEPT !.pc = IF first THEN "undoQueue2" ELSE "undoMonitor"]
           r == IF first THEN [r0 EXCEPT !.queue_client_server = NoHandle]
                ELSE [r0 EXCEPT !.queue_server_client = NoHandle]
<1>1. Works(call[t]) /\ ~Unindexed(call[t]) /\ call[t].pc \in RollbackPcs
  BY <1>0 DEF Works, WorkingPcs, RollbackPcs, Unindexed
<1>2. /\ call[t] \in Call /\ s \in Slots /\ s \in inUse /\ Shape(t, call[t])
      /\ WorkRecord(call[t], Records[s]) /\ Records[s] = r0 /\ r0 \in Runtime
      /\ Built(t) = r0
  BY <1>1, WorkerKnows
<1>3. RollbackRecord(call[t], r0)
  BY <1>1, <1>2 DEF WorkRecord
<1>4. /\ call' = [call EXCEPT ![t] = c] /\ runtime' = [runtime EXCEPT ![s] = r]
      /\ liveQueues' = liveQueues \ {q}
      /\ UNCHANGED <<inUse, tasks, monitor>>
  <2>1. CASE first
    BY <1>2, <2>1 DEF UndoQueue, Goto, Store, WriteRuntime, monitorVars
  <2>2. CASE ~first
    BY <1>0, <1>2, <2>2 DEF UndoQueue, Goto, Store, WriteRuntime, monitorVars
  <2> QED
    BY <2>1, <2>2
<1>5. /\ \A x \in Slots \ {s} : runtime'[x] = runtime[x]
      /\ r = runtime'[s]
      /\ RecordTasks(r) = RecordTasks(r0)
      /\ RecordEntries(r) = RecordEntries(r0)
      /\ r.lifecycle_state = r0.lifecycle_state
      /\ r.queue_client_server = NoHandle
      /\ r.queue_server_client = IF first THEN r0.queue_server_client ELSE NoHandle
  <2>1. runtime' \in [Slots -> Runtime] /\ runtime \in [Slots -> Runtime]
    BY DEF IInv, RegistryInv, RegistryTypeOK
  <2>2. /\ \A x \in Slots \ {s} : runtime'[x] = runtime[x]
        /\ r = runtime'[s]
    BY <1>2, <1>4, <2>1
  <2>3. ~first => r0.queue_client_server = NoHandle
    BY <1>0, <1>3 DEF RollbackRecord
  <2> QED
    BY <1>2, <2>2, <2>3 DEF Runtime, RecordTasks, RecordEntries
<1>6. /\ c.pc = (IF first THEN "undoQueue2" ELSE "undoMonitor")
      /\ c.slot = s /\ c.full = call[t].full /\ c.got = call[t].got
      /\ c.task = call[t].task /\ c.idx = call[t].idx /\ c.seg = call[t].seg
  BY <1>2 DEF Call
<1> HIDE DEF c, r
<1>7. Works(c) /\ ~Unindexed(c) /\ c.pc \in RollbackPcs /\ c.pc # "linkPeer"
  BY <1>6 DEF Works, WorkingPcs, RollbackPcs, Unindexed
<1>8. Shape(t, c)
  BY <1>1, <1>2, <1>6, <1>7
  DEF Shape, WorkingPcs, CreatePcs, RollbackPcs, DestroyPcs, CreateShape
<1>9. WorkRecord(c, r)
  BY <1>0, <1>3, <1>5, <1>6
  DEF WorkRecord, CreatePcs, RollbackPcs, DestroyPcs, RollbackRecord, RecordTasks
<1>10. /\ CallQueues(c) = <<NoHandle, NoHandle, NoHandle>>
       /\ CallQueues(call[t]) = <<NoHandle, NoHandle, NoHandle>>
       /\ CallTasks(c) = CallTasks(call[t]) /\ CallEntries(c) = CallEntries(call[t])
       /\ c.task = NoHandle /\ c.got = Nothing
  BY <1>1, <1>2, <1>7, <1>8, RollbackHolds
<1>11. Active' = Active /\ LiveTasks' = LiveTasks
  BY <1>4 DEF Active, LiveTasks
<1>12. TradesTasks(t, s, c, r) /\ TradesEntries(t, s, c, r)
  BY <1>2, <1>4, <1>5, <1>10, <1>11, TasksStay, EntriesStay
<1>13. /\ Contents(RecordQueues(r0), CallQueues(call[t]), NoHandle) \subseteq liveQueues
       /\ Apart(RecordQueues(r0), CallQueues(call[t]), NoHandle)
       /\ RecordQueues(r0) = <<r0.queue_client_server, r0.queue_server_client>>
       /\ RecordQueues(r) = <<r.queue_client_server, r.queue_server_client>>
       /\ ~first => r0.queue_client_server = NoHandle
       /\ NoHandle \notin liveQueues
  BY <1>0, <1>2, <1>3, NearHeld, Typed DEF RecordQueues, RollbackRecord
<1>14. TradesQueues(t, s, c, r)
  <2> DEFINE a == r0.queue_client_server
             b == r0.queue_server_client
  <2>1. PICK y, z : /\ RecordQueues(r) = <<y, z>>
                    /\ (a = q /\ y = NoHandle /\ z = b) \/ (b = q /\ y = a /\ z = NoHandle)
    BY <1>5, <1>13
  <2> HIDE DEF a, b, s, r0, q
  <2>2. Trades(<<a, b>>, <<NoHandle, NoHandle, NoHandle>>, <<y, z>>,
               <<NoHandle, NoHandle, NoHandle>>, NoHandle, liveQueues, liveQueues \ {q})
    BY <1>10, <1>13, <2>1, RecordLoses DEF a, b
  <2>3. /\ RecordQueues(Records[s]) = <<a, b>> /\ RecordQueues(r) = <<y, z>>
        /\ CallQueues(call[t]) = <<NoHandle, NoHandle, NoHandle>>
        /\ CallQueues(c) = <<NoHandle, NoHandle, NoHandle>>
        /\ liveQueues' = liveQueues \ {q}
    BY <1>2, <1>4, <1>10, <1>13, <2>1 DEF a, b
  <2> QED
    BY <2>2, <2>3 DEF TradesQueues
<1>15. Feeds(t, s, c, r)
  <2>1. r.HandlerClient = NoHandle /\ r.HandlerServer = NoHandle
    BY <1>0, <1>3, <1>5 DEF RollbackRecord, RecordTasks
  <2> QED
    BY <1>4, <1>10, <2>1, Blank DEF Feeds, RecordFeeds, CallFeeds, IsEmpty
<1> HIDE DEF s
<1> QED
  BY <1>1, <1>4, <1>5, <1>6, <1>7, <1>8, <1>9, <1>12, <1>14, <1>15, WorkStep DEF s

\* What ClearEntries does to the entries that are active.
LEMMA ClearedEntries ==
  ASSUME IInv, NEW S, ClearEntries(S)
  PROVE  /\ Active' = Active \ S
         /\ \A i \in Active : monitor'[i] = monitor[i] \/ i \in S
  BY DEF ClearEntries, Active, ZeroEntry

\* A roll-back clears the entries that the record names.
LEMMA UndoMonitorOwns ==
  ASSUME IInv, IInv', OwnInv, NEW t \in Threads, UndoMonitor(t)
  PROVE  OwnInv'
<1>0. call[t].pc = "undoMonitor"
  BY DEF UndoMonitor
<1> DEFINE s == call[t].slot
           r0 == runtime[s]
           c == [call[t] EXCEPT !.pc = "undoSlot"]
           r == WithoutIndices(r0)
<1>1. Works(call[t]) /\ ~Unindexed(call[t]) /\ call[t].pc \in RollbackPcs
  BY <1>0 DEF Works, WorkingPcs, RollbackPcs, Unindexed
<1>2. /\ call[t] \in Call /\ s \in Slots /\ s \in inUse /\ Shape(t, call[t])
      /\ WorkRecord(call[t], Records[s]) /\ Records[s] = r0 /\ r0 \in Runtime
      /\ Built(t) = r0
  BY <1>1, WorkerKnows
<1>3. RollbackRecord(call[t], r0)
  BY <1>1, <1>2 DEF WorkRecord
<1>4. /\ call' = [call EXCEPT ![t] = c]
      /\ ClearEntries({r0.client_index, r0.server_index})
      /\ UNCHANGED <<inUse, runtime, tasks, liveQueues>>
  BY <1>2 DEF UndoMonitor, Goto, registryVars, kernelVars
<1>5. /\ RecordTasks(r) = RecordTasks(r0)
      /\ RecordQueues(r) = RecordQueues(r0)
      /\ RecordEntries(r) = <<NoIndex, NoIndex>>
      /\ r.lifecycle_state = r0.lifecycle_state
  BY <1>2 DEF Runtime, WithoutIndices, RecordTasks, RecordEntries, RecordQueues
<1>6. /\ c.pc = "undoSlot"
      /\ c.slot = s /\ c.full = call[t].full /\ c.got = call[t].got
      /\ c.task = call[t].task /\ c.idx = call[t].idx /\ c.seg = call[t].seg
  BY <1>2 DEF Call
<1> HIDE DEF c, r
<1>7. Works(c) /\ Unindexed(c) /\ c.pc \in RollbackPcs /\ c.pc # "linkPeer"
  BY <1>6 DEF Works, WorkingPcs, RollbackPcs, Unindexed
<1>8. Shape(t, c)
  BY <1>1, <1>2, <1>6, <1>7
  DEF Shape, WorkingPcs, CreatePcs, RollbackPcs, DestroyPcs, CreateShape
<1>9. WorkRecord(c, r)
  BY <1>0, <1>3, <1>5, <1>6
  DEF WorkRecord, CreatePcs, RollbackPcs, DestroyPcs, RollbackRecord, RecordTasks,
      RecordQueues
<1>10. /\ CallQueues(c) = CallQueues(call[t]) /\ CallTasks(c) = CallTasks(call[t])
       /\ CallEntries(c) = <<NoIndex, NoIndex, NoIndex>>
       /\ CallEntries(call[t]) = <<NoIndex, NoIndex, NoIndex>>
       /\ c.task = NoHandle /\ c.got = Nothing
  BY <1>1, <1>2, <1>7, <1>8, RollbackHolds
<1>11. /\ Active' = Active \ {r0.client_index, r0.server_index}
       /\ \A i \in Active : monitor'[i] = monitor[i] \/ i \in SlotEntries(s)
  BY <1>2, <1>4, ClearedEntries DEF SlotEntries, RecordEntries
<1>12. TradesTasks(t, s, c, r) /\ TradesQueues(t, s, c, r)
  BY <1>2, <1>4, <1>5, <1>10, TasksStay, QueuesStay
<1>13. TradesEntries(t, s, c, r)
  <2>1. RecordEntries(r0) = <<r0.client_index, r0.server_index>>
        /\ NoIndex \notin Active
    BY Typed DEF RecordEntries
  <2> QED
    BY <1>2, <1>5, <1>10, <1>11, <2>1 DEF TradesEntries, Trades, Contents, Apart
<1>14. Feeds(t, s, c, r)
  BY <1>2, <1>4, <1>5, <1>10, Blank, FeedsStay DEF IsEmpty
<1>15. r = WithoutIndices(runtime'[s])
  BY <1>4 DEF r
<1> HIDE DEF s
<1> QED
  BY <1>1, <1>4, <1>6, <1>7, <1>8, <1>9, <1>11, <1>12, <1>13, <1>14, <1>15, WorkStep DEF s

\* The last step of a worker: the slot goes back to the free list.
LEMMA SlotGoes ==
  ASSUME IInv, IInv', OwnInv, NEW t \in Threads, Works(call[t]), NEW c,
         call' = [call EXCEPT ![t] = c], ReleaseRuntime(call[t].slot),
         UNCHANGED <<tasks, liveQueues, monitor>>,
         Shape(t, c), ~Works(c), ~Engaged(t, c), c.slot \in {call[t].slot, NoSlot},
         c.pc # "linkPeer", c.task = NoHandle,
         {c.got.HandlerClient, c.got.HandlerServer} \subseteq {NoHandle, t},
         CallTasks(c) = CallTasks(call[t]), CallQueues(c) = CallQueues(call[t]),
         CallEntries(c) = CallEntries(call[t]),
         IsEmpty(Records[call[t].slot])
  PROVE  OwnInv'
<1> DEFINE s == call[t].slot
<1>1. s \in Slots /\ s \in inUse /\ Alone(t, s) /\ InUseAndOwned(s)
  BY WorkerKnows
<1>2. /\ inUse' = inUse \ {s}
      /\ \A x \in inUse \ {s} : runtime'[x] = runtime[x]
  BY <1>1, Typed DEF ReleaseRuntime, IInv, RegistryInv, RegistryTypeOK
<1>3. ~Unindexed(c)
  BY WorkersAreEngaged
<1>4. Records' = [Records EXCEPT ![s] = Nothing]
  <2>1. Unindexed(call[t]) => call[t].slot = s
    OBVIOUS
  <2> HIDE DEF s
  <2> QED
    BY <1>1, <1>2, <1>3, <2>1, RecordWritten
<1>5. Moves(t, s, c, Nothing)
  BY <1>1, <1>2, <1>4 DEF Moves
<1>6. Respects(t, s, c, Nothing)
  BY <1>1, Blank DEF Respects
<1>7. /\ RecordTasks(Nothing) = RecordTasks(Records[s])
      /\ RecordQueues(Nothing) = RecordQueues(Records[s])
      /\ RecordEntries(Nothing) = RecordEntries(Records[s])
  BY Blank DEF IsEmpty, RecordTasks, RecordQueues, RecordEntries
<1>8. Active' = Active
  BY DEF Active
<1>9. /\ TradesTasks(t, s, c, Nothing) /\ TradesQueues(t, s, c, Nothing)
      /\ TradesEntries(t, s, c, Nothing)
  BY <1>1, <1>7, <1>8, TasksStay, QueuesStay, EntriesStay
<1>10. Feeds(t, s, c, Nothing)
  BY <1>1, <1>7, FeedsStay
<1>11. Links(t, s, c, Nothing)
  BY Blank DEF Links, Linked, HalfLinked, IsEmpty
<1> QED
  BY <1>1, <1>5, <1>6, <1>9, <1>10, <1>11, StepKeeps DEF Steps

\* The slot that a roll-back frees is empty.
LEMMA UndoSlotOwns ==
  ASSUME IInv, IInv', OwnInv, NEW t \in Threads, UndoSlot(t)
  PROVE  OwnInv'
<1>0. call[t].pc = "undoSlot"
  BY DEF UndoSlot
<1>1. Works(call[t]) /\ Unindexed(call[t]) /\ call[t].pc \in RollbackPcs
  BY <1>0 DEF Works, WorkingPcs, RollbackPcs, Unindexed
<1>2. /\ call[t] \in Call /\ Shape(t, call[t])
      /\ WorkRecord(call[t], Records[call[t].slot])
      /\ Records[call[t].slot] = WithoutIndices(runtime[call[t].slot])
      /\ runtime[call[t].slot] \in Runtime
  BY <1>1, WorkerKnows, Typed
<1>3. RollbackRecord(call[t], Records[call[t].slot])
  BY <1>1, <1>2 DEF WorkRecord
<1>4. IsEmpty(Records[call[t].slot])
  BY <1>0, <1>2, <1>3 DEF RollbackRecord, IsEmpty, WithoutIndices, Runtime
<1>5. /\ ~Works(IdleCall) /\ ~Engaged(t, IdleCall) /\ Shape(t, IdleCall)
  BY Blank DEF Works, Engaged, Shape, WorkingPcs, CreatePcs, RollbackPcs, DestroyPcs
<1>6. /\ CallTasks(IdleCall) = CallTasks(call[t])
      /\ CallQueues(IdleCall) = CallQueues(call[t])
      /\ CallEntries(IdleCall) = CallEntries(call[t])
  BY <1>1, <1>2, RollbackHolds, Blank DEF CallTasks, CallQueues, CallEntries, IsEmpty
<1>7. /\ call' = [call EXCEPT ![t] = IdleCall] /\ ReleaseRuntime(call[t].slot)
      /\ UNCHANGED <<tasks, liveQueues, monitor>>
  BY DEF UndoSlot, Return, kernelVars, monitorVars
<1> QED
  BY <1>1, <1>4, <1>5, <1>6, <1>7, Blank, SlotGoes DEF IsEmpty

-----------------------------------------------------------------------------
(* edge_task_pair_destroy.                                                 *)

\* The steps between two calls, or into a destroy that has taken nothing yet.
LEMMA IdleStep ==
  ASSUME IInv, IInv', OwnInv, NEW t \in Threads, NEW s \in Slots, NEW c,
         call' = [call EXCEPT ![t] = c],
         UNCHANGED <<inUse, runtime, tasks, liveQueues, monitor>>,
         ~Works(call[t]), ~Engaged(t, c), Shape(t, c), c.slot \in {s, NoSlot},
         c.pc # "linkPeer", c.task = NoHandle, c.got = Nothing,
         CallTasks(c) = CallTasks(call[t]), CallQueues(c) = CallQueues(call[t]),
         CallEntries(c) = CallEntries(call[t])
  PROVE  OwnInv'
<1> DEFINE r == Records[s]
<1>1. ~Unindexed(call[t]) /\ ~Unindexed(c) /\ ~Works(c)
  BY WorkersAreEngaged
<1>2. Moves(t, s, c, r) /\ Untouched(s, r)
  BY <1>1, RecordKept
<1>3. Respects(t, s, c, r)
  BY <1>1, <1>2 DEF Respects
<1>4. Active' = Active
  BY DEF Active
<1>5. TradesTasks(t, s, c, r) /\ TradesQueues(t, s, c, r) /\ TradesEntries(t, s, c, r)
  BY <1>4, TasksStay, QueuesStay, EntriesStay
<1>6. Feeds(t, s, c, r)
  BY FeedsStay, Blank DEF IsEmpty
<1>7. Links(t, s, c, r)
  BY DEF Links
<1> QED
  BY <1>2, <1>3, <1>5, <1>6, <1>7, StepKeeps DEF Steps

\* edge_task_pair_destroy_by_task_index found a pair and is about to take it.
LEMMA LookupOwns ==
  ASSUME IInv, IInv', OwnInv, NEW t \in Threads, NEW i \in Indices, NEW mode \in Modes,
         LookupForDestroy(t, i, mode)
  PROVE  OwnInv'
<1>1. PICK s \in Slots : call' = [call EXCEPT ![t] =
              [IdleCall EXCEPT !.pc = "take", !.slot = s, !.mode = mode]]
  BY DEF LookupForDestroy
<1> DEFINE c == [IdleCall EXCEPT !.pc = "take", !.slot = s, !.mode = mode]
<1>2. call[t] = IdleCall /\ t \in Callers
  <2>1. Shape(t, call[t]) /\ call[t].pc = "idle" /\ t \in Callers
    BY DEF LookupForDestroy, MayCall, Idle, OwnInv, CallsShaped
  <2> QED
    BY <2>1 DEF Shape
<1>3. /\ c.pc = "take" /\ c.slot = s /\ c.full = FALSE /\ c.got = Nothing
      /\ c.task = NoHandle
  BY DEF IdleCall
<1>4. UNCHANGED <<inUse, runtime, tasks, liveQueues, monitor>>
  BY DEF LookupForDestroy, registryVars, kernelVars, monitorVars
<1>5. call' = [call EXCEPT ![t] = c]
  BY <1>1
<1> HIDE DEF c
<1>6. ~Works(call[t]) /\ ~Engaged(t, c)
  BY <1>2, <1>3, Blank
  DEF Works, Engaged, WorkingPcs, CreatePcs, RollbackPcs, DestroyPcs
<1>7. Shape(t, c)
  BY <1>2, <1>3, Blank, ManagerAssumption
  DEF Shape, WorkingPcs, CreatePcs, RollbackPcs, DestroyPcs, DestroyShape, IsEmpty
<1>8. /\ CallTasks(c) = CallTasks(call[t]) /\ CallQueues(c) = CallQueues(call[t])
      /\ CallEntries(c) = CallEntries(call[t])
  BY <1>2, <1>3, Blank DEF CallTasks, CallQueues, CallEntries, IsEmpty
<1> QED
  BY <1>3, <1>4, <1>5, <1>6, <1>7, <1>8, IdleStep

\* The critical section, entered by a thread that may take what it finds.
LEMMA TakeOwns ==
  ASSUME IInv, IInv', OwnInv, NEW t \in Threads, NEW s, NEW mode \in Modes,
         TakeRuntime(t, s, mode),
         call[t].pc \in {"idle", "take"},
         InUseAndOwned(s) /\ runtime[s].lifecycle_state # "CLEANING"
            => MayTake(t, s, mode)
  PROVE  OwnInv'
<1>1. /\ Shape(t, call[t]) /\ call[t].got = Nothing /\ call[t].task = NoHandle
      /\ ~Works(call[t]) /\ ~Unindexed(call[t])
  <2>1. Shape(t, call[t])
    BY DEF OwnInv, CallsShaped
  <2> QED
    BY <2>1, Blank
    DEF Shape, DestroyShape, Works, Unindexed, WorkingPcs, CreatePcs, RollbackPcs,
        DestroyPcs
<1>2. /\ CallTasks(call[t]) = <<NoHandle, NoHandle, NoHandle>>
      /\ CallQueues(call[t]) = <<NoHandle, NoHandle, NoHandle>>
      /\ CallEntries(call[t]) = <<NoIndex, NoIndex, NoIndex>>
  BY <1>1, Blank DEF CallTasks, CallQueues, CallEntries, IsEmpty
<1>3. UNCHANGED <<tasks, liveQueues, monitor>>
  BY DEF TakeRuntime, kernelVars, monitorVars
<1>4. CASE ~InUseAndOwned(s) \/ runtime[s].lifecycle_state = "CLEANING"
  <2>1. /\ call' = [call EXCEPT ![t] = IdleCall]
        /\ UNCHANGED <<inUse, runtime, tasks, liveQueues, monitor>>
    BY <1>3, <1>4 DEF TakeRuntime, Return, registryVars
  <2>2. ~Engaged(t, IdleCall) /\ Shape(t, IdleCall)
    BY Blank DEF Works, Engaged, Shape, WorkingPcs, CreatePcs, RollbackPcs, DestroyPcs
  <2>3. /\ CallTasks(IdleCall) = CallTasks(call[t])
        /\ CallQueues(IdleCall) = CallQueues(call[t])
        /\ CallEntries(IdleCall) = CallEntries(call[t])
    BY <1>2, Blank DEF CallTasks, CallQueues, CallEntries, IsEmpty
  <2>4. <<1, 1>> \in Slots
    BY RegistryAssumption DEF Slots
  <2> QED
    BY <1>1, <2>1, <2>2, <2>3, <2>4, Blank, IdleStep
<1>5. CASE InUseAndOwned(s) /\ runtime[s].lifecycle_state # "CLEANING"
  <2> DEFINE r0 == runtime[s]
             full == FullTeardown(s, mode)
             got == IF full THEN [r0 EXCEPT !.pair_id = 0]
                    ELSE [Nothing EXCEPT !.HandlerClient = r0.HandlerClient,
                                         !.client_index = r0.client_index]
             c == [IdleCall EXCEPT !.pc = "dropClient", !.slot = s, !.full = full,
                                   !.got = got]
             r == runtime'[s]
  <2> s \in Slots
    BY <1>5, Typed DEF InUseAndOwned
  <2>1. /\ Alone(t, s) /\ s \in inUse
        /\ t \in TaskHandles => t = r0.HandlerClient \/ (full /\ t = r0.HandlerServer)
    BY <1>5 DEF MayTake, InUseAndOwned
  <2>2. /\ call' = [call EXCEPT ![t] = c] /\ inUse' = inUse
        /\ IF full THEN TakePair(s) ELSE TakeClient(s)
    BY <1>5 DEF TakeRuntime, TakePair, TakeClient
  <2>3. Records[s] = r0 /\ r0 \in Runtime
    <3>1. ~ \E u \in Threads : call[u].slot = s /\ Unindexed(call[u])
      BY <1>1, <2>1, WorkersAreEngaged DEF Alone
    <3> QED
      BY <2>1, <3>1, Typed DEF Records, RecordOf
  <2>4. r0.lifecycle_state = "READY"
    <3>1. ~ \E u \in Threads : Works(call[u]) /\ call[u].slot = s
      BY <1>1, <2>1, WorkersAreEngaged DEF Alone
    <3> QED
      BY <2>3, <3>1 DEF OwnInv, MarkedIsWorked
  <2>5. /\ full \in BOOLEAN
        /\ got.HandlerClient = r0.HandlerClient
        /\ got.HandlerServer = (IF full THEN r0.HandlerServer ELSE NoHandle)
        /\ got.queue_client_server = (IF full THEN r0.queue_client_server ELSE NoHandle)
        /\ got.queue_server_client = (IF full THEN r0.queue_server_client ELSE NoHandle)
        /\ got.client_index = r0.client_index
        /\ got.server_index = (IF full THEN r0.server_index ELSE NoIndex)
    BY <2>3, Typed, Blank DEF Runtime, IsEmpty, FullTeardown
  <2>6. /\ \A x \in Slots \ {s} : runtime'[x] = runtime[x]
        /\ r.HandlerClient = NoHandle /\ r.client_index = NoIndex
        /\ r.HandlerServer = (IF full THEN NoHandle ELSE r0.HandlerServer)
        /\ r.queue_client_server = (IF full THEN NoHandle ELSE r0.queue_client_server)
        /\ r.queue_server_client = (IF full THEN NoHandle ELSE r0.queue_server_client)
        /\ r.server_index = (IF full THEN NoIndex ELSE r0.server_index)
        /\ r.lifecycle_state = IF full THEN "CLEANING" ELSE "READY"
    <3>1. runtime \in [Slots -> Runtime]
      BY DEF IInv, RegistryInv, RegistryTypeOK
    <3>2. CASE full
      BY <2>2, <2>3, <3>1, <3>2 DEF TakePair, ZeroRuntime
    <3>3. CASE ~full
      BY <2>2, <2>3, <2>4, <3>1, <3>3 DEF TakeClient, Runtime
    <3> QED
      BY <3>2, <3>3
  <2>7. /\ c.pc = "dropClient" /\ c.slot = s /\ c.full = full /\ c.got = got
        /\ c.task = NoHandle
    BY DEF IdleCall
  <2> HIDE DEF c, got, r, full
  <2>8. ~Unindexed(c) /\ (Works(c) <=> full)
    BY <2>5, <2>7 DEF Unindexed, Works, WorkingPcs, CreatePcs, RollbackPcs, DestroyPcs
  <2>9. Records' = [Records EXCEPT ![s] = r]
    BY <1>1, <2>1, <2>2, <2>6, <2>8, RecordWritten, Typed DEF r
  <2>10. Moves(t, s, c, r)
    BY <2>2, <2>9 DEF Moves
  <2>11. Shape(t, c)
    BY <2>1, <2>5, <2>7, Typed
    DEF Shape, WorkingPcs, CreatePcs, RollbackPcs, DestroyPcs, DestroyShape
  <2>12. full => WorkRecord(c, r)
    BY <2>6, <2>7 DEF WorkRecord, CreatePcs, RollbackPcs, DestroyPcs, IsEmpty
  <2>13. Respects(t, s, c, r)
    BY <1>1, <2>1, <2>2, <2>6, <2>7, <2>8, <2>11, <2>12 DEF Respects
  <2>14. /\ CallTasks(c) = <<NoHandle, got.HandlerClient, got.HandlerServer>>
         /\ CallQueues(c) = <<NoHandle, got.queue_client_server, got.queue_server_client>>
         /\ CallEntries(c) = <<NoIndex, got.client_index, got.server_index>>
         /\ RecordTasks(r) = <<r.HandlerClient, r.HandlerServer>>
         /\ RecordQueues(r) = <<r.queue_client_server, r.queue_server_client>>
         /\ RecordEntries(r) = <<r.client_index, r.server_index>>
         /\ RecordTasks(r0) = <<r0.HandlerClient, r0.HandlerServer>>
         /\ RecordQueues(r0) = <<r0.queue_client_server, r0.queue_server_client>>
         /\ RecordEntries(r0) = <<r0.client_index, r0.server_index>>
    BY <2>7 DEF CallTasks, CallQueues, CallEntries, RecordTasks, RecordQueues,
                RecordEntries
  <2>15. /\ Apart(RecordTasks(r0), CallTasks(call[t]), NoHandle)
         /\ Contents(RecordTasks(r0), CallTasks(call[t]), NoHandle) \subseteq LiveTasks
         /\ Apart(RecordQueues(r0), CallQueues(call[t]), NoHandle)
         /\ Contents(RecordQueues(r0), CallQueues(call[t]), NoHandle) \subseteq liveQueues
         /\ Apart(RecordEntries(r0), CallEntries(call[t]), NoIndex)
         /\ Contents(RecordEntries(r0), CallEntries(call[t]), NoIndex) \subseteq Active
    BY <2>3, NearHeld
  <2>16. LiveTasks' = LiveTasks /\ Active' = Active
    BY <1>3 DEF LiveTasks, Active
  <2>17. TradesTasks(t, s, c, r)
    <3>1. CASE full
      BY <1>2, <2>3, <2>5, <2>6, <2>14, <2>15, <2>16, <3>1
      DEF TradesTasks, Trades, Contents, Apart
    <3>2. CASE ~full
      BY <1>2, <2>3, <2>5, <2>6, <2>14, <2>15, <2>16, <3>2
      DEF TradesTasks, Trades, Contents, Apart
    <3> QED
      BY <3>1, <3>2
  <2>18. TradesQueues(t, s, c, r)
    <3>1. CASE full
      BY <1>2, <1>3, <2>3, <2>5, <2>6, <2>14, <2>15, <3>1
      DEF TradesQueues, Trades, Contents, Apart
    <3>2. CASE ~full
      BY <1>2, <1>3, <2>3, <2>5, <2>6, <2>14, <2>15, <3>2
      DEF TradesQueues, Trades, Contents, Apart
    <3> QED
      BY <3>1, <3>2
  <2>19. TradesEntries(t, s, c, r)
    <3>1. CASE full
      BY <1>2, <2>3, <2>5, <2>6, <2>14, <2>15, <2>16, <3>1
      DEF TradesEntries, Trades, Contents, Apart
    <3>2. CASE ~full
      BY <1>2, <2>3, <2>5, <2>6, <2>14, <2>15, <2>16, <3>2
      DEF TradesEntries, Trades, Contents, Apart
    <3> QED
      BY <3>1, <3>2
  <2>20. Feeds(t, s, c, r)
    <3>1. RecordFeeds(tasks, s, r0)
      BY <2>3 DEF OwnInv, TasksFed
    <3>2. QueuesOf(IF full THEN got ELSE r) = QueuesOf(r0)
      BY <2>5, <2>6 DEF QueuesOf
    <3>3. RecordFeeds(tasks, s, r)
      BY <2>6, <3>1, <3>2 DEF RecordFeeds, Uses
    <3>4. CallFeeds(tasks, t, c, r)
      BY <2>5, <2>7, <3>1, <3>2 DEF RecordFeeds, CallFeeds, Uses
    <3> QED
      BY <1>3, <3>3, <3>4 DEF Feeds
  <2>21. Links(t, s, c, r)
    BY <1>3, <2>6, <2>7, <2>8 DEF Links, Linked, HalfLinked
  <2> QED
    BY <2>10, <2>13, <2>17, <2>18, <2>19, <2>20, <2>21, StepKeeps DEF Steps
<1> QED
  BY <1>4, <1>5

\* What a destroy under way holds.
LEMMA DestroyHolds ==
  ASSUME IInv, OwnInv, NEW t \in Threads, call[t].pc \in DestroyPcs
  PROVE  /\ call[t] \in Call /\ call[t].slot \in Slots /\ call[t].got \in Runtime
         /\ Shape(t, call[t]) /\ DestroyShape(t, call[t]) /\ ~Unindexed(call[t])
         /\ CallTasks(call[t]) = <<NoHandle, call[t].got.HandlerClient,
                                   call[t].got.HandlerServer>>
         /\ CallQueues(call[t]) = <<NoHandle, call[t].got.queue_client_server,
                                    call[t].got.queue_server_client>>
         /\ CallEntries(call[t]) = <<NoIndex, call[t].got.client_index,
                                     call[t].got.server_index>>
<1>1. call[t] \in Call /\ Shape(t, call[t]) /\ call[t].slot \in Slots
  BY Typed DEF OwnInv, CallsShaped, IInv, CallInv, WellShaped, DestroyPcs
<1>2. DestroyShape(t, call[t]) /\ ~Unindexed(call[t])
  BY <1>1 DEF Shape, Unindexed, DestroyPcs
<1> QED
  BY <1>1, <1>2 DEF Call, DestroyShape, CallTasks, CallQueues, CallEntries, DestroyPcs

\* A step of a destroy that lets go of what was taken.
LEMMA DropStep ==
  ASSUME IInv, IInv', OwnInv, NEW t \in Threads, NEW c,
         call[t].pc \in DestroyPcs \ {"take", "release", "dropSelf"},
         c.pc \in DestroyPcs \ {"take", "release", "dropClient"},
         c.pc = "dropSelf" => ~call[t].full,
         call' = [call EXCEPT ![t] = c], UNCHANGED <<inUse, runtime>>,
         c.slot = call[t].slot, c.full = call[t].full, Shape(t, c),
         TradesTasks(t, call[t].slot, c, Records[call[t].slot]),
         TradesQueues(t, call[t].slot, c, Records[call[t].slot]),
         TradesEntries(t, call[t].slot, c, Records[call[t].slot]),
         Feeds(t, call[t].slot, c, Records[call[t].slot]),
         \A i \in Active : monitor'[i] = monitor[i] \/ i \in OwnEntries(t)
  PROVE  OwnInv'
<1> DEFINE s == call[t].slot
           r == Records[s]
<1>1. s \in Slots /\ ~Unindexed(call[t])
  BY DestroyHolds
<1>2. ~Unindexed(c) /\ (Works(c) <=> Works(call[t])) /\ (Works(c) => c.full)
  BY DEF Unindexed, Works, WorkingPcs, CreatePcs, RollbackPcs, DestroyPcs
<1>3. Moves(t, s, c, r) /\ Untouched(s, r)
  BY <1>1, <1>2, RecordKept
<1>4. Engaged(t, c) => s \in inUse' /\ Alone(t, s)
  <2>1. Engaged(t, c) => Engaged(t, call[t])
    BY <1>2 DEF Engaged
  <2> QED
    BY <2>1 DEF OwnInv, OneEngaged, Alone
<1>5. Works(c) => WorkRecord(c, r)
  <2>1. Works(call[t]) => WorkRecord(call[t], r)
    BY DEF OwnInv, WorkShaped
  <2> QED
    BY <1>2, <2>1 DEF WorkRecord, CreatePcs, RollbackPcs, DestroyPcs
<1>6. Respects(t, s, c, r)
  BY <1>2, <1>3, <1>4, <1>5 DEF Respects
<1>7. Links(t, s, c, r)
  BY <1>2 DEF Links, DestroyPcs
<1> QED
  BY <1>1, <1>3, <1>6, <1>7, StepKeeps DEF Steps

\* A destroy deletes a task that it took, unless it is the task itself.
LEMMA DropTaskOwns ==
  ASSUME IInv, IInv', OwnInv, NEW t \in Threads, DropTask(t)
  PROVE  OwnInv'
<1>0. call[t].pc \in {"dropClient", "dropServer"}
  BY DEF DropTask
<1> DEFINE s == call[t].slot
           r == Records[s]
           g0 == call[t].got
           client == call[t].pc = "dropClient"
           h == IF client THEN g0.HandlerClient ELSE g0.HandlerServer
           next == IF client
                   THEN IF call[t].full THEN "dropServer" ELSE "dropMonitor"
                   ELSE "dropQueue1"
           left == IF h = t THEN h ELSE NoHandle
           got == IF client THEN [g0 EXCEPT !.HandlerClient = left]
                  ELSE [g0 EXCEPT !.HandlerServer = left]
           c == [call[t] EXCEPT !.pc = next, !.got = got]
<1>1. /\ call[t] \in Call /\ s \in Slots /\ g0 \in Runtime /\ Shape(t, call[t])
      /\ DestroyShape(t, call[t])
      /\ CallTasks(call[t]) = <<NoHandle, g0.HandlerClient, g0.HandlerServer>>
      /\ CallQueues(call[t]) = <<NoHandle, g0.queue_client_server, g0.queue_server_client>>
      /\ CallEntries(call[t]) = <<NoIndex, g0.client_index, g0.server_index>>
  BY <1>0, DestroyHolds DEF DestroyPcs
<1>2. NoHandle \notin Threads /\ NoHandle \notin TaskHandles
  BY ManagerAssumption, Typed DEF Threads
<1>3. h \in TaskHandles \cup {NoHandle}
  BY <1>1 DEF Runtime
<1>4. h \in Threads /\ h # t => call[h] = IdleCall
  <2>1. h # NoHandle => h \in Contents(RecordTasks(r), CallTasks(call[t]), NoHandle)
    BY <1>1 DEF Contents
  <2> QED
    BY <1>1, <1>2, <2>1, HeldIsIdle
<1>5. call' = [call EXCEPT ![t] = c]
  <2>1. call' = [x \in Threads |-> IF x = t THEN c
                                   ELSE IF x = h THEN IdleCall ELSE call[x]]
    <3>1. CASE client
      BY <3>1 DEF DropTask
    <3>2. CASE ~client
      BY <3>2 DEF DropTask
    <3> QED
      BY <3>1, <3>2
  <2> HIDE DEF c, h
  <2> QED
    BY <1>4, <2>1, IdleKilled
<1>6. tasks' = [x \in TaskHandles |-> IF x = h /\ x # t THEN DeadTask ELSE tasks[x]]
  BY DEF DropTask
<1>7. UNCHANGED <<inUse, runtime, liveQueues, monitor>>
  BY DEF DropTask, registryVars, monitorVars
<1>8. /\ LiveTasks' = LiveTasks \ ({h} \ {t}) /\ Active' = Active
      /\ \A g \in TaskHandles \ {h} : tasks'[g] = tasks[g]
      /\ \A g \in TaskHandles \cap {t} : tasks'[g] = tasks[g]
  BY <1>6, <1>7 DEF LiveTasks, Active, DeadTask
<1>9. /\ c.pc = next /\ c.slot = s /\ c.full = call[t].full /\ c.got = got
      /\ c.task = call[t].task
  BY <1>1 DEF Call
<1>10. /\ got.HandlerClient = (IF client THEN left ELSE g0.HandlerClient)
       /\ got.HandlerServer = (IF client THEN g0.HandlerServer ELSE left)
       /\ got.queue_client_server = g0.queue_client_server
       /\ got.queue_server_client = g0.queue_server_client
       /\ got.client_index = g0.client_index
       /\ got.server_index = g0.server_index
  <2> HIDE DEF left
  <2> QED
    BY <1>1 DEF Runtime
<1>11. call[t].task = NoHandle
  BY <1>1 DEF DestroyShape
<1>12. /\ left \in {NoHandle, t} /\ (h = t => left = t)
       /\ next \in {"dropServer", "dropMonitor", "dropQueue1"}
       /\ next = "dropServer" => call[t].full
       /\ client /\ ~call[t].full => next = "dropMonitor"
       /\ ~client => next = "dropQueue1"
       /\ client => next # "dropQueue1"
       /\ next = "dropMonitor" => ~call[t].full
  BY DEF left
<1> HIDE DEF c, got
<1>13. Shape(t, c)
  <2>1. ~call[t].full => client
    BY <1>0, <1>1 DEF DestroyShape
  <2>2. DestroyShape(t, c)
    <3>1. t \in TaskHandles => t \in {got.HandlerClient, got.HandlerServer}
      BY <1>0, <1>1, <1>10, <1>12 DEF DestroyShape
    <3>2. ~client => got.HandlerClient \in {NoHandle, t}
      BY <1>0, <1>1, <1>10 DEF DestroyShape
    <3>3. ~call[t].full => /\ g0.HandlerServer = NoHandle
                           /\ g0.queue_client_server = NoHandle
                           /\ g0.queue_server_client = NoHandle
                           /\ g0.server_index = NoIndex
      BY <1>1 DEF DestroyShape
    <3> HIDE DEF next, client, left
    <3> QED
      BY <1>9, <1>10, <1>11, <1>12, <2>1, <3>1, <3>2, <3>3 DEF DestroyShape
  <2> HIDE DEF next
  <2> QED
    BY <1>9, <1>12, <2>2
    DEF Shape, WorkingPcs, CreatePcs, RollbackPcs, DestroyPcs
<1>14. /\ CallTasks(c) = <<NoHandle, got.HandlerClient, got.HandlerServer>>
       /\ CallQueues(c) = CallQueues(call[t])
       /\ CallEntries(c) = CallEntries(call[t])
  <2>1. c.pc \notin {"handle", "index"}
    BY <1>9, <1>12
  <2> QED
    BY <1>1, <1>9, <1>10, <1>11, <2>1 DEF CallTasks, CallQueues, CallEntries
<1>15. TradesQueues(t, s, c, r) /\ TradesEntries(t, s, c, r)
  BY <1>1, <1>7, <1>8, <1>14, QueuesStay, EntriesStay
<1>16. /\ Apart(RecordTasks(r), CallTasks(call[t]), NoHandle)
       /\ Contents(RecordTasks(r), CallTasks(call[t]), NoHandle) \subseteq LiveTasks
       /\ RecordTasks(r) = <<r.HandlerClient, r.HandlerServer>>
  BY <1>1, NearHeld DEF RecordTasks
<1>17. TradesTasks(t, s, c, r)
  <2> DEFINE a == r.HandlerClient
             b == r.HandlerServer
             o == IF client THEN g0.HandlerServer ELSE g0.HandlerClient
  <2>1. /\ Contents(RecordTasks(r), CallTasks(call[t]), NoHandle)
              = {a, b, h, o} \ {NoHandle}
        /\ Contents(RecordTasks(r), CallTasks(c), NoHandle)
              = {a, b, left, o} \ {NoHandle}
    <3>1. {g0.HandlerClient, g0.HandlerServer} = {h, o}
      OBVIOUS
    <3>2. {got.HandlerClient, got.HandlerServer} = {left, o}
      BY <1>10
    <3>3. Contents(RecordTasks(r), CallTasks(call[t]), NoHandle)
             = ({a, b} \cup {g0.HandlerClient, g0.HandlerServer}) \ {NoHandle}
      BY <1>1, <1>16 DEF Contents
    <3>4. Contents(RecordTasks(r), CallTasks(c), NoHandle)
             = ({a, b} \cup {got.HandlerClient, got.HandlerServer}) \ {NoHandle}
      BY <1>14, <1>16 DEF Contents
    <3> HIDE DEF a, b, h, o, left
    <3> QED
      BY <3>1, <3>2, <3>3, <3>4
  <2>2. /\ h # NoHandle => h \notin {a, b, o}
        /\ left \in {h, NoHandle}
        /\ ({a, b, h, o} \ {NoHandle}) \subseteq LiveTasks
    <3>1. h # NoHandle => h \notin {a, b, o}
      BY <1>1, <1>16 DEF Apart
    <3> QED
      BY <1>16, <2>1, <3>1
  <2>3. Apart(RecordTasks(r), CallTasks(c), NoHandle)
    <3>1. /\ CallTasks(call[t]) = <<NoHandle, g0.HandlerClient, g0.HandlerServer>>
          /\ CallTasks(c) = <<NoHandle, got.HandlerClient, got.HandlerServer>>
      BY <1>1, <1>14
    <3>2. /\ got.HandlerClient \in {g0.HandlerClient, NoHandle}
          /\ got.HandlerServer \in {g0.HandlerServer, NoHandle}
      BY <1>10, <2>2
    <3> HIDE DEF left, client, g0, got, h, r, c
    <3> QED
      BY <1>16, <3>1, <3>2, FewerLocals
  <2>4. left = IF h = t THEN h ELSE NoHandle
    OBVIOUS
  <2> HIDE DEF a, b, o, h, left
  <2>5. LiveTasks' = (LiveTasks \ ({a, b, h, o} \ {NoHandle}))
                        \cup ({a, b, left, o} \ {NoHandle})
    BY <1>2, <1>8, <2>2, <2>4, Typed
  <2> QED
    BY <2>1, <2>2, <2>3, <2>5 DEF TradesTasks, Trades
<1>18. Feeds(t, s, c, r)
  <2>1. RecordFeeds(tasks, s, r) /\ CallFeeds(tasks, t, call[t], r)
    BY <1>1 DEF OwnInv, TasksFed
  <2>2. \A g \in {r.HandlerClient, r.HandlerServer} \ {NoHandle} :
           g \in TaskHandles /\ g # h
    BY <1>1, <1>16, Typed DEF Apart, Contents
  <2>3. \A g \in {got.HandlerClient, got.HandlerServer} \ {NoHandle, t} :
           /\ g \in {g0.HandlerClient, g0.HandlerServer} /\ g # h /\ g \in TaskHandles
    <3>1. g0.HandlerClient = g0.HandlerServer => g0.HandlerClient = NoHandle
      BY <1>1, <1>16 DEF Apart
    <3> QED
      BY <1>1, <1>10, <1>12, <3>1 DEF Runtime
  <2>4. QueuesOf(got) = QueuesOf(g0)
    BY <1>10 DEF QueuesOf
  <2>5. RecordFeeds(tasks', s, r)
    BY <1>8, <2>1, <2>2 DEF RecordFeeds, Uses
  <2>6. CallFeeds(tasks', t, c, r)
    <3> HIDE DEF h
    <3> QED
      BY <1>8, <1>9, <1>11, <2>1, <2>3, <2>4 DEF CallFeeds, Uses
  <2>7. \A g \in TaskHandles : tasks'[g] = tasks[g] \/ g \notin LiveTasks'
    BY <1>8
  <2> QED
    BY <2>5, <2>6, <2>7 DEF Feeds
<1>19. /\ c.pc \in DestroyPcs \ {"take", "release", "dropClient"}
       /\ c.pc # "dropSelf"
       /\ call[t].pc \in DestroyPcs \ {"take", "release", "dropSelf"}
  BY <1>0, <1>9, <1>12 DEF DestroyPcs
<1> HIDE DEF next
<1> QED
  BY <1>5, <1>7, <1>9, <1>13, <1>15, <1>17, <1>18, <1>19, DropStep

\* A destroy deletes a queue that it took.
LEMMA DropQueueOwns ==
  ASSUME IInv, IInv', OwnInv, NEW t \in Threads, DropQueue(t)
  PROVE  OwnInv'
<1>0. call[t].pc \in {"dropQueue1", "dropQueue2"}
  BY DEF DropQueue
<1> DEFINE s == call[t].slot
           r == Records[s]
           g0 == call[t].got
           first == call[t].pc = "dropQueue1"
           q == IF first THEN g0.queue_client_server ELSE g0.queue_server_client
           got == IF first THEN [g0 EXCEPT !.queue_client_server = NoHandle]
                  ELSE [g0 EXCEPT !.queue_server_client = NoHandle]
           c == [call[t] EXCEPT !.pc = IF first THEN "dropQueue2" ELSE "dropMonitor",
                                !.got = got]
<1>1. /\ call[t] \in Call /\ s \in Slots /\ g0 \in Runtime /\ Shape(t, call[t])
      /\ DestroyShape(t, call[t])
      /\ CallTasks(call[t]) = <<NoHandle, g0.HandlerClient, g0.HandlerServer>>
      /\ CallQueues(call[t]) = <<NoHandle, g0.queue_client_server, g0.queue_server_client>>
      /\ CallEntries(call[t]) = <<NoIndex, g0.client_index, g0.server_index>>
  BY <1>0, DestroyHolds DEF DestroyPcs
<1>2. call' = [call EXCEPT ![t] = c] /\ liveQueues' = liveQueues \ {q}
  <2>1. CASE first
    BY <1>1, <2>1, Typed DEF DropQueue, Call
  <2>2. CASE ~first
    BY <1>0, <1>1, <2>2, Typed DEF DropQueue, Call
  <2> QED
    BY <2>1, <2>2
<1>3. UNCHANGED <<inUse, runtime, tasks, monitor>>
  BY DEF DropQueue, registryVars, monitorVars
<1>4. /\ c.pc = (IF first THEN "dropQueue2" ELSE "dropMonitor")
      /\ c.slot = s /\ c.full = call[t].full /\ c.got = got /\ c.task = call[t].task
  BY <1>1 DEF Call
<1>5. /\ got.HandlerClient = g0.HandlerClient /\ got.HandlerServer = g0.HandlerServer
      /\ got.queue_client_server = (IF first THEN NoHandle ELSE g0.queue_client_server)
      /\ got.queue_server_client = (IF first THEN g0.queue_server_client ELSE NoHandle)
      /\ got.client_index = g0.client_index
      /\ got.server_index = g0.server_index
  BY <1>1 DEF Runtime
<1>6. /\ call[t].task = NoHandle /\ call[t].full
      /\ {g0.HandlerClient, g0.HandlerServer} \subseteq {NoHandle, t}
      /\ ~first => g0.queue_client_server = NoHandle
  BY <1>0, <1>1 DEF DestroyShape
<1> HIDE DEF c, got
<1>7. Shape(t, c)
  <2>1. DestroyShape(t, c)
    BY <1>0, <1>1, <1>4, <1>5, <1>6 DEF DestroyShape
  <2> QED
    BY <1>4, <2>1 DEF Shape, WorkingPcs, CreatePcs, RollbackPcs, DestroyPcs
<1>8. /\ CallTasks(c) = CallTasks(call[t]) /\ CallEntries(c) = CallEntries(call[t])
      /\ CallQueues(c) = <<NoHandle, got.queue_client_server, got.queue_server_client>>
  BY <1>0, <1>1, <1>4, <1>5, <1>6 DEF CallTasks, CallQueues, CallEntries
<1>9. Active' = Active
  BY <1>3 DEF Active
<1>10. TradesTasks(t, s, c, r) /\ TradesEntries(t, s, c, r)
  BY <1>1, <1>3, <1>8, <1>9, TasksStay, EntriesStay
<1>11. /\ Apart(RecordQueues(r), CallQueues(call[t]), NoHandle)
       /\ Contents(RecordQueues(r), CallQueues(call[t]), NoHandle) \subseteq liveQueues
       /\ RecordQueues(r) = <<r.queue_client_server, r.queue_server_client>>
       /\ NoHandle \notin liveQueues
  BY <1>1, NearHeld, Typed DEF RecordQueues
<1>12. TradesQueues(t, s, c, r)
  <2> DEFINE a == r.queue_client_server
             b == r.queue_server_client
             o == IF first THEN g0.queue_server_client ELSE g0.queue_client_server
  <2>1. /\ Contents(RecordQueues(r), CallQueues(call[t]), NoHandle)
              = {a, b, q, o} \ {NoHandle}
        /\ Contents(RecordQueues(r), CallQueues(c), NoHandle) = {a, b, o} \ {NoHandle}
    <3>1. /\ {g0.queue_client_server, g0.queue_server_client} = {q, o}
          /\ {got.queue_client_server, got.queue_server_client} = {NoHandle, o}
      BY <1>5, <1>6
    <3>2. Contents(RecordQueues(r), CallQueues(call[t]), NoHandle)
             = ({a, b} \cup {g0.queue_client_server, g0.queue_server_client}) \ {NoHandle}
      <4> HIDE DEF s, g0, r
      <4> QED
        BY <1>1, <1>11 DEF Contents
    <3>3. Contents(RecordQueues(r), CallQueues(c), NoHandle)
             = ({a, b} \cup {got.queue_client_server, got.queue_server_client}) \ {NoHandle}
      <4> HIDE DEF s, got, r, c
      <4> QED
        BY <1>8, <1>11 DEF Contents
    <3> HIDE DEF a, b, q, o
    <3> QED
      BY <3>1, <3>2, <3>3
  <2>2. q # NoHandle => q \notin {a, b, o}
    BY <1>1, <1>11 DEF Apart
  <2>3. Apart(RecordQueues(r), CallQueues(c), NoHandle)
    BY <1>1, <1>5, <1>8, <1>11 DEF Apart
  <2> HIDE DEF a, b, o, q
  <2>4. liveQueues' = (liveQueues \ ({a, b, q, o} \ {NoHandle}))
                         \cup ({a, b, o} \ {NoHandle})
    BY <1>2, <1>11, <2>1, <2>2
  <2> QED
    BY <2>1, <2>2, <2>3, <2>4 DEF TradesQueues, Trades
<1>13. Feeds(t, s, c, r)
  BY <1>1, <1>3, <1>4, <1>5, <1>6, FeedsStay
<1>14. /\ c.pc \in DestroyPcs \ {"take", "release", "dropClient"} /\ c.pc # "dropSelf"
       /\ call[t].pc \in DestroyPcs \ {"take", "release", "dropSelf"}
  BY <1>0, <1>4 DEF DestroyPcs
<1> QED
  BY <1>2, <1>3, <1>4, <1>7, <1>10, <1>12, <1>13, <1>14, DropStep

\* A destroy clears the entries that it took.
LEMMA DropMonitorOwns ==
  ASSUME IInv, IInv', OwnInv, NEW t \in Threads, DropMonitor(t)
  PROVE  OwnInv'
<1>0. call[t].pc = "dropMonitor"
  BY DEF DropMonitor
<1> DEFINE s == call[t].slot
           r == Records[s]
           g0 == call[t].got
           got == [g0 EXCEPT !.client_index = NoIndex, !.server_index = NoIndex]
           c == [call[t] EXCEPT !.pc = IF call[t].full THEN "retire" ELSE "dropSelf",
                                !.got = got]
<1>1. /\ call[t] \in Call /\ s \in Slots /\ g0 \in Runtime /\ Shape(t, call[t])
      /\ DestroyShape(t, call[t])
      /\ CallTasks(call[t]) = <<NoHandle, g0.HandlerClient, g0.HandlerServer>>
      /\ CallQueues(call[t]) = <<NoHandle, g0.queue_client_server, g0.queue_server_client>>
      /\ CallEntries(call[t]) = <<NoIndex, g0.client_index, g0.server_index>>
  BY <1>0, DestroyHolds DEF DestroyPcs
<1>2. /\ call' = [call EXCEPT ![t] = c]
      /\ ClearEntries({g0.client_index, g0.server_index})
      /\ UNCHANGED <<inUse, runtime, tasks, liveQueues>>
  <2>1. call[t] \in Call /\ g0 \in Runtime /\ call \in [Threads -> Call]
    BY <1>1, Typed
  <2>2. call' = [call EXCEPT ![t] = c]
    <3>1. call' = [call EXCEPT ![t].pc = IF call[t].full THEN "retire" ELSE "dropSelf",
                               ![t].got.client_index = NoIndex,
                               ![t].got.server_index = NoIndex]
      BY DEF DropMonitor
    <3> QED
      BY <2>1, <3>1 DEF Call, Runtime
  <2> QED
    BY <2>2 DEF DropMonitor, registryVars, kernelVars
<1>3. /\ c.pc = (IF call[t].full THEN "retire" ELSE "dropSelf")
      /\ c.slot = s /\ c.full = call[t].full /\ c.got = got /\ c.task = call[t].task
  BY <1>1 DEF Call
<1>4. /\ got.HandlerClient = g0.HandlerClient /\ got.HandlerServer = g0.HandlerServer
      /\ got.queue_client_server = g0.queue_client_server
      /\ got.queue_server_client = g0.queue_server_client
      /\ got.client_index = NoIndex /\ got.server_index = NoIndex
  BY <1>1 DEF Runtime
<1>5. /\ call[t].task = NoHandle
      /\ {g0.HandlerClient, g0.HandlerServer} \subseteq {NoHandle, t}
      /\ g0.queue_client_server = NoHandle /\ g0.queue_server_client = NoHandle
  BY <1>0, <1>1 DEF DestroyShape
<1> HIDE DEF c, got
<1>6. Shape(t, c)
  <2>1. DestroyShape(t, c)
    BY <1>0, <1>1, <1>3, <1>4, <1>5 DEF DestroyShape
  <2> QED
    BY <1>3, <2>1 DEF Shape, WorkingPcs, CreatePcs, RollbackPcs, DestroyPcs
<1>7. /\ CallTasks(c) = CallTasks(call[t]) /\ CallQueues(c) = CallQueues(call[t])
      /\ CallEntries(c) = <<NoIndex, NoIndex, NoIndex>>
  BY <1>1, <1>3, <1>4, <1>5 DEF CallTasks, CallQueues, CallEntries
<1>8. /\ Active' = Active \ {g0.client_index, g0.server_index}
      /\ \A i \in Active : monitor'[i] = monitor[i] \/ i \in OwnEntries(t)
  BY <1>1, <1>2, ClearedEntries DEF OwnEntries
<1>9. TradesTasks(t, s, c, r) /\ TradesQueues(t, s, c, r)
  BY <1>1, <1>2, <1>7, TasksStay, QueuesStay
<1>10. TradesEntries(t, s, c, r)
  <2> DEFINE a == r.client_index
             b == r.server_index
             x == g0.client_index
             y == g0.server_index
  <2>1. /\ Apart(RecordEntries(r), CallEntries(call[t]), NoIndex)
        /\ Contents(RecordEntries(r), CallEntries(call[t]), NoIndex) \subseteq Active
        /\ RecordEntries(r) = <<a, b>>
        /\ NoIndex \notin Active
    BY <1>1, NearHeld, Typed DEF RecordEntries
  <2> HIDE DEF a, b, x, y
  <2>2. /\ CallEntries(call[t]) = <<NoIndex, x, y>>
        /\ Active' = Active \ {x, y}
    BY <1>1, <1>8 DEF x, y
  <2>3. /\ Contents(RecordEntries(r), CallEntries(call[t]), NoIndex)
              = {a, b, x, y} \ {NoIndex}
        /\ Contents(RecordEntries(r), CallEntries(c), NoIndex) = {a, b} \ {NoIndex}
    BY <1>7, <2>1, <2>2 DEF Contents
  <2>4. /\ x # NoIndex => x \notin {a, b}
        /\ y # NoIndex => y \notin {a, b}
        /\ Apart(RecordEntries(r), CallEntries(c), NoIndex)
    BY <1>7, <2>1, <2>2 DEF Apart
  <2> QED
    BY <2>1, <2>2, <2>3, <2>4 DEF TradesEntries, Trades
<1>11. Feeds(t, s, c, r)
  BY <1>1, <1>2, <1>3, <1>4, <1>5, FeedsStay
<1>12. /\ c.pc \in DestroyPcs \ {"take", "release", "dropClient"}
       /\ c.pc = "dropSelf" => ~call[t].full
       /\ call[t].pc \in DestroyPcs \ {"take", "release", "dropSelf"}
  BY <1>0, <1>3 DEF DestroyPcs
<1> QED
  BY <1>2, <1>3, <1>6, <1>8, <1>9, <1>10, <1>11, <1>12, DropStep

\* A full destroy gives the slot back.
LEMMA ReleaseSlotOwns ==
  ASSUME IInv, IInv', OwnInv, NEW t \in Threads, ReleaseSlot(t)
  PROVE  OwnInv'
<1>0. call[t].pc = "release"
  BY DEF ReleaseSlot
<1> DEFINE c == [call[t] EXCEPT !.pc = "dropSelf"]
<1>1. /\ call[t] \in Call /\ Shape(t, call[t]) /\ DestroyShape(t, call[t])
  BY <1>0, DestroyHolds DEF DestroyPcs
<1>2. /\ call[t].full /\ call[t].task = NoHandle
      /\ {call[t].got.HandlerClient, call[t].got.HandlerServer} \subseteq {NoHandle, t}
  BY <1>0, <1>1 DEF DestroyShape
<1>3. Works(call[t])
  BY <1>0, <1>2 DEF Works, DestroyPcs
<1>4. IsEmpty(Records[call[t].slot])
  BY <1>0, <1>3 DEF OwnInv, WorkShaped, WorkRecord, DestroyPcs
<1>5. /\ call' = [call EXCEPT ![t] = c] /\ ReleaseRuntime(call[t].slot)
      /\ UNCHANGED <<tasks, liveQueues, monitor>>
  BY DEF ReleaseSlot, Goto, kernelVars, monitorVars
<1>6. /\ c.pc = "dropSelf" /\ c.slot = call[t].slot /\ c.full = call[t].full
      /\ c.got = call[t].got /\ c.task = NoHandle
  BY <1>1, <1>2 DEF Call
<1> HIDE DEF c
<1>7. ~Works(c) /\ ~Engaged(t, c)
  BY <1>6 DEF Works, Engaged, WorkingPcs, CreatePcs, RollbackPcs, DestroyPcs
<1>8. Shape(t, c)
  BY <1>0, <1>1, <1>2, <1>6
  DEF Shape, DestroyShape, WorkingPcs, CreatePcs, RollbackPcs, DestroyPcs
<1>9. /\ CallTasks(c) = CallTasks(call[t]) /\ CallQueues(c) = CallQueues(call[t])
      /\ CallEntries(c) = CallEntries(call[t])
  BY <1>0, <1>2, <1>6 DEF CallTasks, CallQueues, CallEntries
<1> QED
  BY <1>2, <1>3, <1>4, <1>5, <1>6, <1>7, <1>8, <1>9, SlotGoes

\* A task that tore its own pair down deletes itself; an application thread
\* returns.
LEMMA DropSelfOwns ==
  ASSUME IInv, IInv', OwnInv, NEW t \in Threads, DropSelf(t)
  PROVE  OwnInv'
<1>0. call[t].pc = "dropSelf"
  BY DEF DropSelf
<1> DEFINE s == call[t].slot
           r == Records[s]
           g0 == call[t].got
           self == {t} \cap {g0.HandlerClient, g0.HandlerServer}
<1>1. /\ call[t] \in Call /\ s \in Slots /\ g0 \in Runtime
      /\ DestroyShape(t, call[t]) /\ ~Unindexed(call[t])
      /\ CallTasks(call[t]) = <<NoHandle, g0.HandlerClient, g0.HandlerServer>>
      /\ CallQueues(call[t]) = <<NoHandle, g0.queue_client_server, g0.queue_server_client>>
      /\ CallEntries(call[t]) = <<NoIndex, g0.client_index, g0.server_index>>
  BY <1>0, DestroyHolds DEF DestroyPcs
<1>2. /\ {g0.HandlerClient, g0.HandlerServer} \subseteq {NoHandle, t}
      /\ CallQueues(call[t]) = <<NoHandle, NoHandle, NoHandle>>
      /\ CallEntries(call[t]) = <<NoIndex, NoIndex, NoIndex>>
  BY <1>0, <1>1 DEF DestroyShape
<1>3. self \subseteq TaskHandles
  BY <1>1, ManagerAssumption DEF Runtime, Threads
<1>4. /\ call' = [call EXCEPT ![t] = IdleCall]
      /\ UNCHANGED <<inUse, runtime, liveQueues, monitor>>
      /\ tasks' = [x \in TaskHandles |-> IF x \in self THEN DeadTask ELSE tasks[x]]
  BY DEF DropSelf, Return, registryVars, monitorVars
<1>5. /\ LiveTasks' = LiveTasks \ self /\ Active' = Active
      /\ \A g \in TaskHandles \ self : tasks'[g] = tasks[g]
  BY <1>4 DEF LiveTasks, Active, DeadTask
<1>6. ~Works(call[t]) /\ ~Works(IdleCall) /\ ~Engaged(t, IdleCall)
      /\ ~Unindexed(IdleCall) /\ Shape(t, IdleCall)
  BY <1>0, Blank
  DEF Works, Engaged, Unindexed, Shape, WorkingPcs, CreatePcs, RollbackPcs, DestroyPcs
<1>7. Moves(t, s, IdleCall, r) /\ Untouched(s, r)
  BY <1>1, <1>4, <1>6, RecordKept
<1>8. Respects(t, s, IdleCall, r)
  BY <1>6, <1>7, Blank DEF Respects
<1>9. /\ CallTasks(IdleCall) = <<NoHandle, NoHandle, NoHandle>>
      /\ CallQueues(IdleCall) = CallQueues(call[t])
      /\ CallEntries(IdleCall) = CallEntries(call[t])
  BY <1>2, Blank DEF CallTasks, CallQueues, CallEntries, IsEmpty
<1>10. TradesQueues(t, s, IdleCall, r) /\ TradesEntries(t, s, IdleCall, r)
  BY <1>1, <1>4, <1>5, <1>9, QueuesStay, EntriesStay
<1>11. /\ Apart(RecordTasks(r), CallTasks(call[t]), NoHandle)
       /\ Contents(RecordTasks(r), CallTasks(call[t]), NoHandle) \subseteq LiveTasks
       /\ RecordTasks(r) = <<r.HandlerClient, r.HandlerServer>>
       /\ NoHandle \notin TaskHandles /\ LiveTasks \subseteq TaskHandles
  BY <1>1, NearHeld, Typed DEF RecordTasks
<1>12. \A g \in {r.HandlerClient, r.HandlerServer} \ {NoHandle} :
          g \in TaskHandles /\ g \notin self
  BY <1>1, <1>11 DEF Apart, Contents
<1>13. TradesTasks(t, s, IdleCall, r)
  <2> DEFINE a == r.HandlerClient
             b == r.HandlerServer
  <2>1. /\ Contents(RecordTasks(r), CallTasks(call[t]), NoHandle)
              = ({a, b} \ {NoHandle}) \cup self
        /\ Contents(RecordTasks(r), CallTasks(IdleCall), NoHandle) = {a, b} \ {NoHandle}
    <3>1. {g0.HandlerClient, g0.HandlerServer} \ {NoHandle} = self
      BY <1>2, <1>3, <1>11
    <3>2. Contents(RecordTasks(r), CallTasks(call[t]), NoHandle)
             = ({a, b} \cup {g0.HandlerClient, g0.HandlerServer}) \ {NoHandle}
      BY <1>1, <1>11 DEF Contents
    <3>3. Contents(RecordTasks(r), CallTasks(IdleCall), NoHandle) = {a, b} \ {NoHandle}
      BY <1>9, <1>11 DEF Contents
    <3> HIDE DEF a, b, self
    <3> QED
      BY <3>1, <3>2, <3>3
  <2>2. Apart(RecordTasks(r), CallTasks(IdleCall), NoHandle)
    BY <1>9, <1>11 DEF Apart
  <2> HIDE DEF self
  <2> QED
    BY <1>5, <1>11, <1>12, <2>1, <2>2 DEF TradesTasks, Trades
<1>14. Feeds(t, s, IdleCall, r)
  <2>1. RecordFeeds(tasks, s, r)
    BY <1>1 DEF OwnInv, TasksFed
  <2>2. RecordFeeds(tasks', s, r)
    BY <1>5, <1>12, <2>1 DEF RecordFeeds, Uses
  <2>3. IdleCall.slot # s
    BY <1>1, Blank, Typed
  <2>4. \A g \in TaskHandles : tasks'[g] = tasks[g] \/ g \notin LiveTasks'
    BY <1>5
  <2> QED
    BY <2>2, <2>3, <2>4 DEF Feeds
<1>15. Links(t, s, IdleCall, r)
  BY <1>4, <1>6, Blank DEF Links
<1> QED
  BY <1>1, <1>7, <1>8, <1>10, <1>13, <1>14, <1>15, StepKeeps DEF Steps

-----------------------------------------------------------------------------
(* The invariant.                                                          *)

\* Nothing is alive and nobody is in a call.
NothingOwned ==
    /\ inUse = {} /\ liveQueues = {} /\ LiveTasks = {} /\ Active = {}
    /\ \A t \in Threads : call[t] = IdleCall

\* Then nothing is held and nobody works.
LEMMA NothingOwns == NothingOwned => OwnInv
<1> SUFFICES ASSUME NothingOwned PROVE OwnInv
  OBVIOUS
<1>1. /\ inUse = {} /\ liveQueues = {}
      /\ \A t \in Threads : call[t] = IdleCall
  BY DEF NothingOwned
<1>2. LiveTasks = {} /\ Active = {}
  BY DEF NothingOwned
<1>3. \A s \in Slots : Records[s] = Nothing
  BY <1>1 DEF Records, RecordOf
<1>4. \A t : Shape(t, IdleCall) /\ ~Works(IdleCall) /\ ~Engaged(t, IdleCall)
  BY Blank DEF Works, Engaged, Shape, WorkingPcs, CreatePcs, RollbackPcs, DestroyPcs
<1>5. CallsShaped /\ WorkShaped /\ OneEngaged /\ MarkedIsWorked
  BY <1>1, <1>3, <1>4, Blank DEF CallsShaped, WorkShaped, OneEngaged, MarkedIsWorked
<1>6. ASSUME NEW none, NEW recs, NEW locs,
             \A s \in Slots : recs[s] = <<none, none>>,
             \A t \in Threads : locs[t] = <<none, none, none>>
      PROVE  HeldOnce(recs, locs, {}, none)
  <2>1. \A p \in Places : Content(recs, locs, p) = none
    <3> SUFFICES ASSUME NEW p \in Places PROVE Content(recs, locs, p) = none
      OBVIOUS
    <3>1. CASE p \in {"slot"} \X Slots \X (1..2)
      <4>1. p[1] = "slot" /\ p[2] \in Slots /\ p[3] \in {1, 2}
        BY <3>1
      <4> QED
        BY <1>6, <4>1 DEF Content
    <3>2. CASE p \in {"thread"} \X Threads \X (1..3)
      <4>1. p[1] = "thread" /\ p[2] \in Threads /\ p[3] \in {1, 2, 3}
        BY <3>2
      <4> QED
        BY <1>6, <4>1 DEF Content
    <3> QED
      BY <3>1, <3>2 DEF Places
  <2> QED
    BY <2>1 DEF HeldOnce
<1>7. /\ RecordTasks(Nothing) = <<NoHandle, NoHandle>>
      /\ RecordQueues(Nothing) = <<NoHandle, NoHandle>>
      /\ RecordEntries(Nothing) = <<NoIndex, NoIndex>>
      /\ CallTasks(IdleCall) = <<NoHandle, NoHandle, NoHandle>>
      /\ CallQueues(IdleCall) = <<NoHandle, NoHandle, NoHandle>>
      /\ CallEntries(IdleCall) = <<NoIndex, NoIndex, NoIndex>>
  BY Blank
  DEF IsEmpty, RecordTasks, RecordQueues, RecordEntries, CallTasks, CallQueues,
      CallEntries
<1>8. TasksHeld
  BY <1>1, <1>2, <1>3, <1>6, <1>7 DEF TasksHeld
<1>9. QueuesHeld
  BY <1>1, <1>2, <1>3, <1>6, <1>7 DEF QueuesHeld
<1>10. EntriesHeld
  BY <1>1, <1>2, <1>3, <1>6, <1>7 DEF EntriesHeld
<1>11. NoSlot \notin Slots
  BY DEF NoSlot, Slots
<1>12. TasksFed
  BY <1>1, <1>3, <1>11, Blank DEF TasksFed, RecordFeeds, IsEmpty
<1>13. PairsLinked
  BY <1>1, <1>3, Blank DEF PairsLinked, Linked, HalfLinked, IsEmpty
<1> QED
  BY <1>5, <1>8, <1>9, <1>10, <1>12, <1>13 DEF OwnInv

LEMMA InitOwns == Init => OwnInv
<1> SUFFICES ASSUME Init PROVE NothingOwned
  BY NothingOwns
<1>1. /\ inUse = {} /\ liveQueues = {}
      /\ \A t \in Threads : call[t] = IdleCall
      /\ \A h \in TaskHandles : ~tasks[h].alive
      /\ \A i \in Indices : ~monitor[i].is_active
  BY DEF Init, InitRegistry, InitMonitor, DeadTask, ZeroEntry
<1> QED
  BY <1>1 DEF NothingOwned, LiveTasks, Active

\* The invariant speaks of the variables only.
LEMMA StutterOwns ==
  ASSUME OwnInv, UNCHANGED vars
  PROVE  OwnInv'
<1>1. UNCHANGED <<inUse, runtime, monitor, tasks, liveQueues, call>>
  BY DEF vars, registryVars, monitorVars, kernelVars
<1>2. Records' = Records
  BY <1>1 DEF Records, RecordOf
<1>3. LiveTasks' = LiveTasks /\ Active' = Active
  BY <1>1 DEF LiveTasks, Active
<1>4. TasksHeld' /\ QueuesHeld' /\ EntriesHeld'
  BY <1>1, <1>2, <1>3 DEF OwnInv, TasksHeld, QueuesHeld, EntriesHeld
<1>5. CallsShaped' /\ WorkShaped' /\ OneEngaged' /\ MarkedIsWorked'
  BY <1>1, <1>2 DEF OwnInv, CallsShaped, WorkShaped, OneEngaged, MarkedIsWorked
<1>6. TasksFed' /\ PairsLinked'
  BY <1>1, <1>2 DEF OwnInv, TasksFed, PairsLinked
<1> QED
  BY <1>4, <1>5, <1>6 DEF OwnInv

\* The calls that clear what they do not hold.
ForeignOps == {"remove", "release", "init"}

\* A destroy that starts.
LEMMA DestroyOwns ==
  ASSUME IInv, IInv', OwnInv, TakesUndisturbed, NEW t \in Threads,
         \/ \E s \in Slots, mode \in Modes : Destroy(t, s, mode)
         \/ \E mode \in Modes : DestroySelf(t, mode)
         \/ DestroyFound(t)
  PROVE  OwnInv'
<1>1. \A s : InUseAndOwned(s) => s \in Slots
  BY Typed DEF InUseAndOwned
<1>2. CASE \E s \in Slots, mode \in Modes : Destroy(t, s, mode)
  <2>1. PICK s \in Slots, mode \in Modes : Destroy(t, s, mode)
    BY <1>2
  <2>2. AboutToTake(t, s, mode) /\ TakeRuntime(t, s, mode) /\ call[t].pc = "idle"
    BY <2>1 DEF Destroy, AboutToTake, MayCall, Idle
  <2> QED
    BY <2>2, TakeOwns DEF TakesUndisturbed
<1>3. CASE \E mode \in Modes : DestroySelf(t, mode)
  <2>1. PICK mode \in Modes : DestroySelf(t, mode)
    BY <1>3
  <2> DEFINE s == tasks[t].pvParameters
  <2>2. AboutToTake(t, s, mode) /\ TakeRuntime(t, s, mode) /\ call[t].pc = "idle"
    BY <2>1 DEF DestroySelf, AboutToTake, Idle, WorkingPcs
  <2> HIDE DEF s
  <2> QED
    BY <1>1, <2>2, TakeOwns DEF TakesUndisturbed
<1>4. CASE DestroyFound(t)
  <2>1. /\ call[t].pc = "take" /\ TakeRuntime(t, call[t].slot, call[t].mode)
        /\ call[t].mode \in Modes
    BY <1>4, Typed DEF DestroyFound, Call
  <2>2. AboutToTake(t, call[t].slot, call[t].mode)
    BY <2>1 DEF AboutToTake
  <2> QED
    BY <1>1, <2>1, <2>2, TakeOwns DEF TakesUndisturbed
<1> QED
  BY <1>2, <1>3, <1>4

\* Only a full destroy retires its slot.
LEMMA RetireOwns ==
  ASSUME IInv, IInv', OwnInv, NEW t \in Threads, Retire(t)
  PROVE  OwnInv'
<1>1. call[t].full
  BY DestroyHolds DEF Retire, DestroyShape, DestroyPcs
<1> QED
  BY <1>1, MarkOwns

\* Every step keeps the invariant, if pairs are taken undisturbed.
LEMMA NextOwns ==
  ASSUME IInv, IInv', OwnInv, TakesUndisturbed, Ops \cap ForeignOps = {}, [Next]_vars
  PROVE  OwnInv'
<1>1. CASE UNCHANGED vars
  BY <1>1, StutterOwns
<1>2. ASSUME NEW t \in Threads, Begin(t) PROVE OwnInv'
  <2>1. ~ \E i \in Indices : RemoveMonitoredTask(t, i)
    BY DEF ForeignOps, RemoveMonitoredTask, MayCall
  <2>2. ~ \E s \in Slots : ReleasePointer(t, s)
    BY DEF ForeignOps, ReleasePointer, MayCall
  <2>3. ~InitStore(t)
    BY DEF ForeignOps, InitStore, MayCall
  <2> QED
    BY <1>2, <2>1, <2>2, <2>3, ReserveOwns, DestroyOwns, LookupOwns DEF Begin
<1>3. ASSUME NEW t \in Threads, Continue(t) PROVE OwnInv'
  <2>1. CASE Create(t)
    BY <2>1, InitRuntimeOwns, AssignPairIdOwns, CreationStepFailsOwns, CreateQueueOwns,
       FindEntryOwns, SpawnTaskOwns, RecordTaskOwns, LoseRaceOwns, StoreHandleOwns,
       StoreIndexOwns, LinkEntryOwns, LinkPeerEntryOwns DEF Create
  <2>2. CASE Rollback(t)
    BY <2>2, MarkOwns, UndoTaskOwns, UndoQueueOwns, UndoMonitorOwns, UndoSlotOwns
    DEF Rollback
  <2>3. CASE Teardown(t)
    <3>1. ~InitChunks(t)
      BY DEF InitChunks, OwnInv, CallsShaped, Shape
    <3> QED
      BY <2>3, <3>1, DestroyOwns, DropTaskOwns, DropQueueOwns, DropMonitorOwns,
         RetireOwns, ReleaseSlotOwns, DropSelfOwns DEF Teardown
  <2> QED
    BY <1>3, <2>1, <2>2, <2>3 DEF Continue
<1> QED
  BY <1>1, <1>2, <1>3 DEF Next

\* As long as nobody takes a pair on which another thread is at work, whatever
\* the threads create and tear down, the records and the locals agree with what
\* is alive.
THEOREM UndisturbedPairsAreOwned ==
  ASSUME Ops \cap ForeignOps = {}
  PROVE  Spec /\ []TakesUndisturbed => []OwnInv
<1>1. OwnInv /\ IInv /\ IInv' /\ TakesUndisturbed /\ [Next]_vars => OwnInv'
  BY NextOwns
<1> QED
  BY <1>1, InitOwns, InvariantHolds, PTL DEF Spec

-----------------------------------------------------------------------------
(* The disciplines under which nobody takes a pair another is at work on.  *)

\* The next step of thread t may delete task h.
Deletes(t, h) ==
    \/ call[t].pc = "lose" /\ h = call[t].task
    \/ /\ call[t].pc \in {"undoServer", "undoClient"}
       /\ h \in {Built(t).HandlerClient, Built(t).HandlerServer}
    \/ /\ call[t].pc \in {"dropClient", "dropServer"}
       /\ h \in {call[t].got.HandlerClient, call[t].got.HandlerServer}

\* Whatever the disciplines, a thread changes no call but its own, except that a
\* task may be deleted in the middle of its call.
LEMMA CallsElsewhere ==
  ASSUME IInv, NEW t \in Threads, Begin(t) \/ Continue(t), NEW u \in Threads \ {t}
  PROVE  call'[u] = call[u] \/ (call'[u] = IdleCall /\ Deletes(t, u))
<1>1. call \in [Threads -> Call]
  BY Typed
<1>3. CASE Begin(t)
  <2>1. CASE Reserve(t)
    BY <1>1, <2>1 DEF Reserve
  <2>2. ASSUME NEW s, NEW mode, TakeRuntime(t, s, mode) PROVE call'[u] = call[u]
    BY <1>1, <2>2 DEF TakeRuntime, Return
  <2>3. CASE \E i \in Indices, mode \in Modes : LookupForDestroy(t, i, mode)
    BY <1>1, <2>3 DEF LookupForDestroy
  <2>4. CASE InitStore(t)
    BY <1>1, <2>4 DEF InitStore, ResetStore, Goto
  <2> QED
    BY <1>3, <2>1, <2>2, <2>3, <2>4
    DEF Begin, Destroy, DestroySelf, RemoveMonitoredTask, ReleasePointer
<1>4. CASE Create(t)
  <2>1. CASE LoseRace(t)
    BY <1>1, <2>1 DEF LoseRace, Deletes
  <2>2. CASE LinkEntry(t) \/ LinkPeerEntry(t)
    BY <1>1, <2>2 DEF LinkEntry, LinkPeerEntry, Complete, Return
  <2>3. CASE RecordTask(t) \/ StoreHandle(t) \/ StoreIndex(t) \/ FindEntry(t)
    BY <1>1, <2>3 DEF RecordTask, StoreHandle, StoreIndex, FindEntry, Goto
  <2>4. CASE SpawnTask(t)
    BY <1>1, <2>4 DEF SpawnTask
  <2>5. CASE InitRuntime(t) \/ AssignPairId(t) \/ CreationStepFails(t)
             \/ \E q \in QueueHandles : CreateQueue(t, q)
    BY <1>1, <2>5 DEF InitRuntime, AssignPairId, CreationStepFails, CreateQueue, Goto
  <2> QED
    BY <1>4, <2>1, <2>2, <2>3, <2>4, <2>5 DEF Create
<1>5. CASE Rollback(t)
  <2>1. CASE UndoTask(t)
    BY <2>1 DEF UndoTask, Deletes
  <2> QED
    BY <1>1, <1>5, <2>1
    DEF Rollback, MarkCleaning, UndoQueue, UndoMonitor, UndoSlot, Goto, Return
<1>6. CASE Teardown(t)
  <2>1. CASE DestroyFound(t)
    BY <1>1, <2>1 DEF DestroyFound, TakeRuntime, Return
  <2>2. CASE DropTask(t)
    BY <2>2 DEF DropTask, Deletes
  <2>3. CASE DropQueue(t) \/ DropMonitor(t)
    BY <1>1, <2>3 DEF DropQueue, DropMonitor
  <2>4. CASE Retire(t) \/ ReleaseSlot(t) \/ DropSelf(t) \/ InitChunks(t)
    BY <1>1, <2>4 DEF Retire, ReleaseSlot, DropSelf, InitChunks, Goto, Return
  <2> QED
    BY <1>6, <2>1, <2>2, <2>3, <2>4 DEF Teardown
<1> QED
  BY <1>3, <1>4, <1>5, <1>6 DEF Continue

\* A step that leads the call of thread t from the locals c on to d: the thread
\* comes to nothing it was not at before.
GoesOn(t, c, d) ==
    /\ c.pc # "idle" /\ d.pc # "take"
    /\ d.pc \in DestroyPcs => c.pc \in DestroyPcs
    /\ Works(d) => Works(c)
    /\ Engaged(t, d) => Engaged(t, c) /\ d.slot = c.slot

\* It frees no slot but the one it worked on, and hands no pair to its caller
\* but the one it has built.
GivesUpOwn(t, c, d) ==
    \/ UNCHANGED <<inUse, pointers>>
    \/ /\ Works(c) /\ ~Engaged(t, d)
       /\ inUse' = inUse \ {c.slot}
       /\ pointers' = pointers
    \/ /\ Works(c) /\ ~Engaged(t, d) /\ t \in Callers
       /\ inUse' = inUse
       /\ pointers' = [pointers EXCEPT ![t] = @ \cup {c.slot}]

\* A step within a call that moves the program counter.
LEMMA PcMoves ==
  ASSUME NEW t \in Threads, NEW c, NEW d, c.pc \notin {"idle", "take"},
         d.pc # "take", d.slot = c.slot, d.full = c.full,
         d.pc \in WorkingPcs => c.pc \in WorkingPcs,
         d.pc \in DestroyPcs => c.pc \in DestroyPcs \ {"dropSelf"}
  PROVE  GoesOn(t, c, d)
BY DEF GoesOn, Works, Engaged, WorkingPcs, CreatePcs, RollbackPcs, DestroyPcs

\* A call that returns.
LEMMA Returns ==
  ASSUME NEW t \in Threads, NEW c, c.pc # "idle"
  PROVE  GoesOn(t, c, IdleCall) /\ ~Engaged(t, IdleCall)
BY Blank DEF GoesOn, Works, Engaged, WorkingPcs, CreatePcs, RollbackPcs, DestroyPcs

\* A creation keeps to its slot until it hands the pair over.
LEMMA CreateGoesOn ==
  ASSUME IInv, OwnInv, NEW t \in Threads, Create(t)
  PROVE  GoesOn(t, call[t], call'[t]) /\ GivesUpOwn(t, call[t], call'[t])
<1> DEFINE c == call[t]
           d == call'[t]
<1>1. call \in [Threads -> Call] /\ c \in Call
  BY Typed
<1>2. ASSUME d.pc \in WorkingPcs, c.pc \in WorkingPcs, d.slot = c.slot, d.full = c.full,
             UNCHANGED <<inUse, pointers>>
      PROVE  GoesOn(t, c, d) /\ GivesUpOwn(t, c, d)
  <2> HIDE DEF c, d
  <2> QED
    BY <1>2, PcMoves DEF GivesUpOwn, WorkingPcs, CreatePcs, RollbackPcs, DestroyPcs
<1>3. ASSUME Complete(t), c.pc \in WorkingPcs, inUse' = inUse
      PROVE  GoesOn(t, c, d) /\ GivesUpOwn(t, c, d)
  <2>1. d = IdleCall /\ Works(c) /\ t \in Callers /\ c.pc # "idle"
    BY <1>1, <1>3, BuiltOK
    DEF Complete, Return, Works, WorkingPcs, CreatePcs, RollbackPcs
  <2>2. GoesOn(t, c, d) /\ ~Engaged(t, d)
    BY <2>1, Returns
  <2>3. UNCHANGED pointers \/ pointers' = [pointers EXCEPT ![t] = @ \cup {c.slot}]
    BY <1>3 DEF Complete
  <2> HIDE DEF c, d
  <2> QED
    BY <1>3, <2>1, <2>2, <2>3 DEF GivesUpOwn
<1>4. CASE InitRuntime(t) \/ AssignPairId(t)
  <2>1. /\ d.pc \in WorkingPcs /\ c.pc \in WorkingPcs
        /\ d.slot = c.slot /\ d.full = c.full
    BY <1>1, <1>4 DEF InitRuntime, AssignPairId, Goto, Call, WorkingPcs, CreatePcs
  <2>2. UNCHANGED <<inUse, pointers>>
    BY <1>4 DEF InitRuntime, AssignPairId, Store, WriteRuntime, AssignNextPairId
  <2> QED
    BY <1>2, <2>1, <2>2
<1>5. CASE CreationStepFails(t)
  <2>1. c.pc \in WorkingPcs
    BY <1>5, ManagerAssumption DEF CreationStepFails, Exhausted, WorkingPcs, CreatePcs
  <2>2. d.pc \in WorkingPcs /\ d.slot = c.slot /\ d.full = c.full
    BY <1>1, <1>5 DEF CreationStepFails, Goto, Call, WorkingPcs, RollbackPcs
  <2>3. UNCHANGED <<inUse, pointers>>
    BY <1>5 DEF CreationStepFails, registryVars
  <2> QED
    BY <1>2, <2>1, <2>2, <2>3
<1>6. CASE \E q \in QueueHandles : CreateQueue(t, q)
  <2>1. /\ d.pc \in WorkingPcs /\ c.pc \in WorkingPcs
        /\ d.slot = c.slot /\ d.full = c.full
    BY <1>1, <1>6 DEF CreateQueue, Goto, Call, WorkingPcs, CreatePcs
  <2>2. UNCHANGED <<inUse, pointers>>
    BY <1>6 DEF CreateQueue, Store, WriteRuntime
  <2> QED
    BY <1>2, <2>1, <2>2
<1>7. CASE FindEntry(t)
  <2>1. /\ d.pc \in WorkingPcs /\ c.pc \in WorkingPcs
        /\ d.slot = c.slot /\ d.full = c.full
    BY <1>1, <1>7 DEF FindEntry, Call, WorkingPcs, CreatePcs
  <2> QED
    BY <1>2, <1>7, <2>1 DEF FindEntry, registryVars
<1>8. CASE SpawnTask(t)
  <2>1. /\ d.pc \in WorkingPcs /\ c.pc \in WorkingPcs
        /\ d.slot = c.slot /\ d.full = c.full
    BY <1>1, <1>8 DEF SpawnTask, Call, WorkingPcs, CreatePcs
  <2> QED
    BY <1>2, <1>8, <2>1 DEF SpawnTask, registryVars
<1>9. CASE RecordTask(t)
  <2>1. /\ d.pc \in WorkingPcs /\ c.pc \in WorkingPcs
        /\ d.slot = c.slot /\ d.full = c.full
    BY <1>1, <1>9 DEF RecordTask, Goto, Call, WorkingPcs, CreatePcs
  <2> QED
    BY <1>2, <1>9, <2>1 DEF RecordTask, registryVars
<1>10. CASE LoseRace(t)
  <2>1. c.task # t
    <3>1. t \in Callers /\ c.task \in TaskHandles \cup {NoHandle}
      BY <1>1, <1>10, BuiltOK DEF LoseRace, CreatePcs, Call
    <3> QED
      BY <3>1, ManagerAssumption
  <2>2. /\ d.pc \in WorkingPcs /\ c.pc \in WorkingPcs
        /\ d.slot = c.slot /\ d.full = c.full
    BY <1>1, <1>10, <2>1 DEF LoseRace, Call, WorkingPcs, CreatePcs, RollbackPcs
  <2> QED
    BY <1>2, <1>10, <2>2 DEF LoseRace, registryVars
<1>11. CASE StoreHandle(t) \/ StoreIndex(t)
  <2>1. /\ d.pc \in WorkingPcs /\ c.pc \in WorkingPcs
        /\ d.slot = c.slot /\ d.full = c.full
    BY <1>1, <1>11 DEF StoreHandle, StoreIndex, Call, WorkingPcs, CreatePcs
  <2>2. UNCHANGED <<inUse, pointers>>
    BY <1>11 DEF StoreHandle, StoreIndex, Store, WriteRuntime
  <2> QED
    BY <1>2, <2>1, <2>2
<1>12. CASE LinkEntry(t)
  <2>1. c.pc \in WorkingPcs /\ inUse' = inUse
    BY <1>12 DEF LinkEntry, WorkingPcs, CreatePcs, registryVars
  <2>2. CASE Complete(t)
    BY <1>3, <2>1, <2>2
  <2>3. CASE ~Complete(t)
    <3>1. d.pc \in WorkingPcs /\ d.slot = c.slot /\ d.full = c.full /\ UNCHANGED pointers
      BY <1>1, <1>12, <2>3 DEF LinkEntry, Call, WorkingPcs, CreatePcs
    <3> QED
      BY <1>2, <2>1, <3>1
  <2> QED
    BY <2>2, <2>3
<1>13. CASE LinkPeerEntry(t)
  BY <1>3, <1>13 DEF LinkPeerEntry, WorkingPcs, CreatePcs, registryVars
<1> QED
  BY <1>4, <1>5, <1>6, <1>7, <1>8, <1>9, <1>10, <1>11, <1>12, <1>13 DEF Create

\* A roll-back keeps to its slot until it frees it.
LEMMA RollbackGoesOn ==
  ASSUME IInv, OwnInv, NEW t \in Threads, Rollback(t)
  PROVE  GoesOn(t, call[t], call'[t]) /\ GivesUpOwn(t, call[t], call'[t])
<1> DEFINE c == call[t]
           d == call'[t]
<1>1. call \in [Threads -> Call] /\ c \in Call
  BY Typed
<1>2. c.pc \in RollbackPcs /\ Works(c) /\ c.pc # "idle" /\ c.slot \in Slots
  <2>1. c.pc \in RollbackPcs
    BY DEF Rollback, MarkCleaning, UndoTask, UndoQueue, UndoMonitor, UndoSlot,
           RollbackPcs
  <2> QED
    BY <2>1, BuiltOK DEF Works, WorkingPcs, RollbackPcs
<1>3. CASE UndoSlot(t)
  <2>1. d = IdleCall /\ pointers' = pointers
    BY <1>1, <1>3 DEF UndoSlot, Return
  <2>2. inUse' = inUse \/ inUse' = inUse \ {c.slot}
    BY <1>3 DEF UndoSlot, ReleaseRuntime, registryVars
  <2>3. GoesOn(t, c, IdleCall) /\ ~Engaged(t, IdleCall)
    BY <1>2, Returns
  <2>4. GoesOn(t, c, d) /\ GivesUpOwn(t, c, d)
    <3> HIDE DEF c, d
    <3> QED
      BY <1>2, <2>1, <2>2, <2>3 DEF GivesUpOwn
  <2> QED
    BY <2>4
<1>4. CASE ~UndoSlot(t)
  <2>1. /\ d.pc \in RollbackPcs
        /\ d.slot = c.slot /\ d.full = c.full
    <3>1. CASE UndoTask(t)
      BY <1>1, <3>1 DEF UndoTask, Call, RollbackPcs
    <3>2. CASE ~UndoTask(t)
      BY <1>1, <1>4, <3>2
      DEF Rollback, MarkCleaning, UndoQueue, UndoMonitor, Goto, Call, RollbackPcs
    <3> QED
      BY <3>1, <3>2
  <2>2. UNCHANGED <<inUse, pointers>>
    BY <1>4 DEF Rollback, MarkCleaning, UndoTask, UndoQueue, UndoMonitor, Store,
                WriteRuntime, MarkRuntime, registryVars
  <2>3. GoesOn(t, c, d) /\ GivesUpOwn(t, c, d)
    <3> HIDE DEF c, d
    <3> QED
      BY <1>2, <2>1, <2>2, PcMoves
      DEF GivesUpOwn, WorkingPcs, CreatePcs, RollbackPcs, DestroyPcs
  <2> QED
    BY <2>3
<1> QED
  BY <1>3, <1>4

\* A destroy keeps to its slot until it frees it.
LEMMA TeardownGoesOn ==
  ASSUME IInv, OwnInv, NEW t \in Threads, Teardown(t), call[t].pc # "take"
  PROVE  GoesOn(t, call[t], call'[t]) /\ GivesUpOwn(t, call[t], call'[t])
<1> DEFINE c == call[t]
           d == call'[t]
<1>1. call \in [Threads -> Call] /\ c \in Call
  BY Typed
<1>2. ~InitChunks(t) /\ ~DestroyFound(t)
  BY DEF InitChunks, DestroyFound, OwnInv, CallsShaped, Shape
<1>3. c.pc \in DestroyPcs \ {"take"}
  BY <1>2 DEF Teardown, DropTask, DropQueue, DropMonitor, Retire, ReleaseSlot, DropSelf,
              DestroyPcs
<1>4. CASE DropSelf(t)
  <2>1. d = IdleCall /\ UNCHANGED <<inUse, pointers>>
    BY <1>1, <1>4 DEF DropSelf, Return, registryVars
  <2>2. GoesOn(t, c, IdleCall)
    BY <1>3, Returns DEF DestroyPcs
  <2>3. GoesOn(t, c, d) /\ GivesUpOwn(t, c, d)
    <3> HIDE DEF c, d
    <3> QED
      BY <2>1, <2>2 DEF GivesUpOwn
  <2> QED
    BY <2>3
<1>5. CASE ~DropSelf(t)
  <2>1. /\ c.pc # "dropSelf" /\ d.pc \in DestroyPcs \ {"take"}
        /\ d.slot = c.slot /\ d.full = c.full
    <3>1. CASE DropTask(t)
      BY <1>1, <3>1 DEF DropTask, Call, DestroyPcs
    <3>2. CASE DropQueue(t) \/ DropMonitor(t)
      BY <1>1, <3>2 DEF DropQueue, DropMonitor, Call, DestroyPcs
    <3>3. CASE Retire(t) \/ ReleaseSlot(t)
      BY <1>1, <3>3 DEF Retire, ReleaseSlot, Goto, Call, DestroyPcs
    <3> QED
      BY <1>2, <1>5, <3>1, <3>2, <3>3 DEF Teardown
  <2>2. GoesOn(t, c, d)
    <3> HIDE DEF c, d
    <3> QED
      BY <1>3, <2>1, PcMoves DEF WorkingPcs, CreatePcs, RollbackPcs, DestroyPcs
  <2>3. GivesUpOwn(t, c, d)
    <3>1. CASE ReleaseSlot(t)
      <4>1. c.full /\ c.pc = "release" /\ d.pc = "dropSelf"
        BY <1>1, <3>1, DestroyHolds DEF ReleaseSlot, Goto, DestroyShape, DestroyPcs, Call
      <4>2. pointers' = pointers /\ (inUse' = inUse \/ inUse' = inUse \ {c.slot})
        BY <3>1 DEF ReleaseSlot, ReleaseRuntime, registryVars
      <4>3. Works(c) /\ ~Engaged(t, d)
        <5> HIDE DEF c, d
        <5> QED
          BY <4>1 DEF Works, Engaged, WorkingPcs, CreatePcs, RollbackPcs, DestroyPcs
      <4> HIDE DEF c, d
      <4> QED
        BY <4>2, <4>3 DEF GivesUpOwn
    <3>2. CASE ~ReleaseSlot(t)
      BY <1>2, <1>5, <3>2
      DEF Teardown, DropTask, DropQueue, DropMonitor, Retire, MarkRuntime, registryVars,
          GivesUpOwn
    <3> QED
      BY <3>1, <3>2
  <2> QED
    BY <2>2, <2>3
<1> QED
  BY <1>4, <1>5

\* What a thread that keeps to the disciplines starts.
LEMMA Begins ==
  ASSUME OwnersOnly \/ TasksOnly, NEW t \in Threads, Begin(t)
  PROVE  \/ Reserve(t)
         \/ /\ OwnersOnly /\ t \in Callers
            /\ \E s \in Slots, mode \in Modes : s \in pointers[t] /\ Destroy(t, s, mode)
         \/ /\ TasksOnly /\ t \in TaskHandles
            /\ \E mode \in Modes : DestroySelf(t, mode)
<1>1. /\ "destroyStale" \notin Ops /\ "destroyIndex" \notin Ops
      /\ "destroyOwnIndex" \notin Ops /\ "remove" \notin Ops /\ "release" \notin Ops
      /\ "init" \notin Ops
      /\ "destroyOwn" \in Ops => OwnersOnly
      /\ "destroySelf" \in Ops => TasksOnly
  BY DEF OwnersOnly, TasksOnly
<1>2. CASE \E s \in Slots, mode \in Modes : Destroy(t, s, mode)
  BY <1>1, <1>2 DEF Destroy, MayCall
<1>3. CASE \E mode \in Modes : DestroySelf(t, mode)
  BY <1>1, <1>3 DEF DestroySelf, LiveTasks
<1> QED
  BY <1>1, <1>2, <1>3
  DEF Begin, MayCall, LookupForDestroy, RemoveMonitoredTask, ReleasePointer, InitStore

\* A destroy that starts is engaged on its slot, or is over.
LEMMA Takes ==
  ASSUME IInv, NEW t \in Threads, NEW s, NEW mode, TakeRuntime(t, s, mode)
  PROVE  /\ call'[t].pc \in {"idle", "dropClient"}
         /\ call'[t].pc = "dropClient" => call'[t].slot = s
         /\ call'[t].full => FullTeardown(s, mode)
         /\ call'[t].pc = "idle" => ~Engaged(t, call'[t])
         /\ inUse' = inUse
<1>1. call \in [Threads -> Call]
  BY Typed
<1>2. CASE call' = [call EXCEPT ![t] = IdleCall]
  <2>1. call'[t] = IdleCall
    BY <1>1, <1>2
  <2> QED
    BY <2>1, Blank
    DEF TakeRuntime, TakePair, TakeClient, registryVars, Engaged, Works, WorkingPcs,
        CreatePcs, RollbackPcs, DestroyPcs
<1>3. CASE call' # [call EXCEPT ![t] = IdleCall]
  <2>1. \E got : call' = [call EXCEPT ![t] = [IdleCall EXCEPT
              !.pc = "dropClient", !.slot = s, !.full = FullTeardown(s, mode),
              !.got = got]]
    BY <1>3 DEF TakeRuntime, Return
  <2>2. /\ call'[t].pc = "dropClient" /\ call'[t].slot = s
        /\ call'[t].full = FullTeardown(s, mode)
    BY <1>1, <2>1 DEF IdleCall
  <2> QED
    BY <1>3, <2>2 DEF TakeRuntime, TakePair, TakeClient, Return
<1> QED
  BY <1>2, <1>3

\* A reservation.
LEMMA Reserves ==
  ASSUME IInv, NEW t \in Threads, Reserve(t)
  PROVE  /\ t \in Callers /\ pointers' = pointers
         /\ call'[t].pc = "init" /\ call'[t].slot \notin inUse
         /\ inUse' = inUse \cup {call'[t].slot}
<1>1. call \in [Threads -> Call]
  BY Typed
<1>2. PICK kind \in Kinds, s \in Slots :
         /\ ReserveRuntime(s)
         /\ call' = [call EXCEPT ![t] = [IdleCall EXCEPT !.pc = "init",
                                             !.kind = kind, !.slot = s]]
  BY DEF Reserve
<1>3. s \notin inUse
  BY <1>2, ReserveFresh DEF IInv
<1>4. call'[t].pc = "init" /\ call'[t].slot = s
  BY <1>1, <1>2 DEF IdleCall
<1> QED
  BY <1>2, <1>3, <1>4 DEF Reserve, MayCall, ReserveRuntime

\* The pairs an application thread may tear down stay complete, and its own.
LEMMA PointersStayOwn ==
  ASSUME IInv, OwnInv, PointersOwn, NEW t \in Threads,
         \A u \in Threads \ {t} : call'[u] = call[u] \/ call'[u] = IdleCall,
         \/ /\ GoesOn(t, call[t], call'[t])
            /\ GivesUpOwn(t, call[t], call'[t])
         \/ Reserve(t)
         \/ /\ t \in Callers
            /\ \E s \in Slots, mode \in Modes : s \in pointers[t] /\ Destroy(t, s, mode)
  PROVE  PointersOwn'
<1>1. /\ call \in [Threads -> Call]
      /\ pointers \in [Callers -> SUBSET Slots]
      /\ Callers \subseteq Threads
      /\ ~Works(IdleCall) /\ \A u : ~Engaged(u, IdleCall)
  BY Typed, Blank
  DEF IInv, KernelInv, Threads, Engaged, Works, WorkingPcs, CreatePcs, RollbackPcs, DestroyPcs
<1>2. \A u \in Threads \ {t} :
         /\ Works(call'[u]) => Works(call[u]) /\ call'[u].slot = call[u].slot
         /\ Engaged(u, call'[u]) => Engaged(u, call[u]) /\ call'[u].slot = call[u].slot
  BY <1>1
<1>3. \A u \in Threads : Works(call[u]) => Engaged(u, call[u])
  BY DEF Engaged
<1>4. \A u \in Threads : Works(call'[u]) => Engaged(u, call'[u])
  BY DEF Engaged
<1>5. CASE GoesOn(t, call[t], call'[t]) /\ GivesUpOwn(t, call[t], call'[t])
  <2> DEFINE c == call[t]
             d == call'[t]
  <2>1. /\ Works(d) => Works(c) /\ d.slot = c.slot
        /\ Engaged(t, d) => Engaged(t, c) /\ d.slot = c.slot
    BY <1>4, <1>5 DEF GoesOn
  <2>2. \A u \in Threads :
         /\ Works(call'[u]) => Works(call[u]) /\ call'[u].slot = call[u].slot
         /\ Engaged(u, call'[u]) => Engaged(u, call[u]) /\ call'[u].slot = call[u].slot
    BY <1>2, <2>1
  <2>3. CASE UNCHANGED <<inUse, pointers>>
    BY <2>2, <2>3 DEF PointersOwn
  <2>4. CASE Works(c) /\ inUse' = inUse \ {c.slot} /\ pointers' = pointers
    BY <2>2, <2>4 DEF PointersOwn
  <2>5. CASE /\ Works(c) /\ ~Engaged(t, d) /\ t \in Callers
             /\ inUse' = inUse
             /\ pointers' = [pointers EXCEPT ![t] = @ \cup {c.slot}]
    <3>1. /\ c.slot \in inUse
          /\ \A u \in Threads \ {t} : Engaged(u, call[u]) => call[u].slot # c.slot
      BY <1>3, <2>5 DEF OwnInv, OneEngaged
    <3>2. \A a \in Callers : c.slot \notin pointers[a]
      BY <2>5 DEF PointersOwn
    <3>3. \A a \in Callers : pointers'[a] = IF a = t THEN pointers[a] \cup {c.slot}
                                            ELSE pointers[a]
      BY <1>1, <2>5
    <3> SUFFICES ASSUME NEW a \in Callers, NEW s \in pointers'[a]
                 PROVE  /\ s \in inUse'
                        /\ \A b \in Callers \ {a} : s \notin pointers'[b]
                        /\ \A u \in Threads :
                              /\ Works(call'[u]) => call'[u].slot # s
                              /\ Engaged(u, call'[u]) /\ call'[u].slot = s => u = a
      BY DEF PointersOwn
    <3>4. CASE s = c.slot
      <4>1. a = t
        BY <3>2, <3>3, <3>4
      <4>2. \A u \in Threads : Engaged(u, call'[u]) => call'[u].slot # s
        BY <1>2, <2>5, <3>1, <3>4
      <4> QED
        BY <1>4, <2>5, <3>1, <3>2, <3>3, <3>4, <4>1, <4>2
    <3>5. CASE s # c.slot
      <4>1. s \in pointers[a]
        BY <3>3, <3>5
      <4>2. \A b \in Callers \ {a} : s \notin pointers'[b]
        <5>1. \A b \in Callers \ {a} : s \notin pointers[b]
          BY <4>1 DEF PointersOwn
        <5> QED
          BY <3>3, <3>5, <5>1
      <4> QED
        BY <2>2, <2>5, <4>1, <4>2 DEF PointersOwn
    <3> QED
      BY <3>4, <3>5
  <2> QED
    BY <1>5, <2>3, <2>4, <2>5 DEF GivesUpOwn
<1>6. CASE Reserve(t)
  <2>1. /\ pointers' = pointers /\ call'[t].slot \notin inUse
        /\ inUse' = inUse \cup {call'[t].slot}
    BY <1>6, Reserves
  <2>2. \A a \in Callers : \A s \in pointers[a] : s \in inUse /\ call'[t].slot # s
    BY <2>1 DEF PointersOwn
  <2> QED
    BY <1>2, <2>1, <2>2 DEF PointersOwn
<1>7. CASE /\ t \in Callers
           /\ \E s \in Slots, mode \in Modes : s \in pointers[t] /\ Destroy(t, s, mode)
  <2>1. PICK s \in Slots, mode \in Modes : s \in pointers[t] /\ Destroy(t, s, mode)
    BY <1>7
  <2>2. /\ call'[t].pc \in {"idle", "dropClient"}
        /\ call'[t].pc = "dropClient" => call'[t].slot = s
        /\ call'[t].full => FullTeardown(s, mode)
        /\ call'[t].pc = "idle" => ~Engaged(t, call'[t])
        /\ inUse' = inUse
    BY <2>1, Takes DEF Destroy
  <2>3. /\ \A a \in Callers : pointers'[a] \subseteq pointers[a]
        /\ FullTeardown(s, mode) => s \notin pointers'[t]
    BY <1>1, <1>7, <2>1 DEF Destroy
  <2>4. Engaged(t, call'[t]) => call'[t].slot = s
    BY <2>2
  <2>5. Works(call'[t]) => call'[t].slot = s /\ FullTeardown(s, mode)
    BY <1>4, <2>2, <2>4 DEF Works, WorkingPcs, CreatePcs, RollbackPcs
  <2> HIDE <2>2
  <2> SUFFICES ASSUME NEW a \in Callers, NEW x \in pointers'[a]
               PROVE  /\ x \in inUse'
                      /\ \A b \in Callers \ {a} : x \notin pointers'[b]
                      /\ \A u \in Threads :
                            /\ Works(call'[u]) => call'[u].slot # x
                            /\ Engaged(u, call'[u]) /\ call'[u].slot = x => u = a
    BY DEF PointersOwn
  <2>6. x \in pointers[a] /\ \A b \in Callers \ {a} : x \notin pointers[b]
    BY <2>3 DEF PointersOwn
  <2>7. x = s => a = t
    BY <1>7, <2>1, <2>6
  <2>8. \A u \in Threads : Works(call'[u]) => call'[u].slot # x
    BY <1>2, <2>3, <2>5, <2>6, <2>7 DEF PointersOwn
  <2>9. \A u \in Threads : Engaged(u, call'[u]) /\ call'[u].slot = x => u = a
    BY <1>2, <2>4, <2>6, <2>7 DEF PointersOwn
  <2>10. x \in inUse'
    BY <2>2, <2>6 DEF PointersOwn
  <2> QED
    BY <2>3, <2>6, <2>8, <2>9, <2>10
<1> QED
  BY <1>5, <1>6, <1>7

\* Where a live task is held.
LEMMA Whereabouts ==
  ASSUME OwnInv, NEW h \in LiveTasks
  PROVE  \/ \E s \in Slots : h \in {Records[s].HandlerClient, Records[s].HandlerServer}
         \/ \E u \in Threads : h \in {call[u].task, call[u].got.HandlerClient,
                                      call[u].got.HandlerServer}
<1> DEFINE recs == [s \in Slots |-> RecordTasks(Records[s])]
           locs == [u \in Threads |-> CallTasks(call[u])]
<1>1. PICK p \in Places : Content(recs, locs, p) = h
  BY DEF OwnInv, TasksHeld, HeldOnce
<1>2. CASE p \in {"slot"} \X Slots \X (1..2)
  <2>1. p[1] = "slot" /\ p[2] \in Slots /\ p[3] \in {1, 2}
    BY <1>2
  <2>2. h = RecordTasks(Records[p[2]])[p[3]]
    BY <1>1, <2>1 DEF Content
  <2> QED
    BY <2>1, <2>2 DEF RecordTasks
<1>3. CASE p \in {"thread"} \X Threads \X (1..3)
  <2>1. p[1] = "thread" /\ p[2] \in Threads /\ p[3] \in {1, 2, 3}
    BY <1>3
  <2>2. h = CallTasks(call[p[2]])[p[3]]
    BY <1>1, <2>1 DEF Content
  <2> QED
    BY <2>1, <2>2 DEF CallTasks
<1> QED
  BY <1>2, <1>3 DEF Places

\* An idle task, with no application thread in the middle of a destroy, is in
\* the record of its pair, or with a thread that works on its pair and has not
\* come to it.
LEMMA IdleTaskIsHeld ==
  ASSUME IInv, OwnInv, \A c \in Callers : call[c].pc \notin DestroyPcs,
         NEW h \in LiveTasks, Idle(h)
  PROVE  \/ /\ tasks[h].pvParameters \in Slots
            /\ h \in {Records[tasks[h].pvParameters].HandlerClient,
                      Records[tasks[h].pvParameters].HandlerServer}
         \/ \E u \in Threads \ {h} :
               /\ Works(call[u]) /\ call[u].slot = tasks[h].pvParameters
               /\ call[u].pc \in DestroyPcs => call[u].pc \in {"dropClient", "dropServer"}
<1>1. h \in TaskHandles /\ h \in Threads /\ h # NoHandle /\ call[h] = IdleCall
  <2>1. h \in TaskHandles /\ h \in Threads /\ h # NoHandle
    BY Typed DEF LiveTasks, Threads
  <2>2. Shape(h, call[h])
    BY <2>1 DEF OwnInv, CallsShaped
  <2> QED
    BY <2>1, <2>2 DEF Shape, Idle
<1>2. CASE \E s \in Slots : h \in {Records[s].HandlerClient, Records[s].HandlerServer}
  BY <1>1, <1>2 DEF OwnInv, TasksFed, RecordFeeds, Uses
<1>3. ASSUME NEW u \in Threads, h \in {call[u].task, call[u].got.HandlerClient,
                                       call[u].got.HandlerServer}
      PROVE  /\ u # h /\ Works(call[u]) /\ call[u].slot = tasks[h].pvParameters
             /\ call[u].pc \in DestroyPcs => call[u].pc \in {"dropClient", "dropServer"}
  <2>1. u # h
    BY <1>1, <1>3, Blank DEF IsEmpty
  <2>2. Shape(u, call[u]) /\ call[u] \in Call
    BY Typed DEF OwnInv, CallsShaped
  <2>3. call[u].pc # "idle"
    BY <1>1, <1>3, <2>2, Blank DEF IsEmpty, Shape
  <2>4. call[u].pc \in DestroyPcs =>
           /\ u \notin Callers
           /\ call[u].pc \in {"dropClient", "dropServer"}
    BY <1>1, <1>3, <2>1, <2>2 DEF Shape, DestroyShape
  <2>5. Works(call[u])
    <3>1. call[u].full \/ Engaged(u, call[u])
      BY <1>1, <1>3, <2>1, FedByRecord
    <3>2. call[u].full => call[u].pc \in DestroyPcs
      <4>1. call[u].pc \in {"idle", "initRegistry"} \cup CreatePcs \cup RollbackPcs
                              \cup DestroyPcs
        BY <2>2 DEF Call
      <4>2. call[u].pc \in CreatePcs => ~call[u].full
        BY <2>2 DEF Shape, CreateShape, WorkingPcs
      <4>3. call[u].pc \in RollbackPcs => ~call[u].full
        BY <2>2 DEF Shape, CreateShape, WorkingPcs
      <4> QED
        BY <2>2, <2>3, <4>1, <4>2, <4>3 DEF Shape
    <3> QED
      BY <2>4, <3>1, <3>2 DEF Engaged, Works
  <2>6. call[u].slot \in Slots
    BY <2>2, <2>3, Typed DEF Shape, IInv, CallInv, WellShaped
  <2>7. call[u].slot = tasks[h].pvParameters
    BY <1>1, <1>3, <2>1, <2>6 DEF OwnInv, TasksFed, CallFeeds, Uses
  <2> QED
    BY <2>1, <2>4, <2>5, <2>7
<1> QED
  BY <1>2, <1>3, Whereabouts

\* Under each of the disciplines, whoever takes a pair takes it undisturbed.
LEMMA DisciplinesSuffice ==
  ASSUME IInv, OwnInv, ApartInv, CallersKeepApart
  PROVE  TakesUndisturbed
<1> SUFFICES ASSUME NEW t \in Threads, NEW s \in Slots, NEW mode \in Modes,
                    AboutToTake(t, s, mode), InUseAndOwned(s),
                    runtime[s].lifecycle_state # "CLEANING"
             PROVE  MayTake(t, s, mode)
  BY DEF TakesUndisturbed
<1>1. /\ Callers \cap TaskHandles = {} /\ Threads = Callers \cup TaskHandles
      /\ \A u : ~Engaged(u, IdleCall)
      /\ \A u \in Threads : Idle(u) => call[u] = IdleCall
  BY ManagerAssumption, Blank
  DEF Threads, Engaged, Works, WorkingPcs, CreatePcs, RollbackPcs, DestroyPcs, OwnInv,
      CallsShaped, Shape, Idle
<1>2. CASE OwnersOnly
  <2>1. t \in Callers /\ s \in pointers[t] /\ PointersOwn
    BY <1>2 DEF OwnersOnly, AboutToTake, MayCall, ApartInv
  <2> QED
    BY <1>1, <2>1 DEF MayTake, Alone, PointersOwn
<1>3. CASE OneCallerOnly
  <2>1. \A h \in TaskHandles : ~Engaged(h, call[h])
    BY <1>1, <1>3 DEF ApartInv
  <2>2. t \in Callers
    <3>1. call[t].pc = "take" => t \notin TaskHandles
      BY DEF OwnInv, CallsShaped, Shape, DestroyShape, DestroyPcs
    <3> QED
      BY <1>1, <1>3, <3>1 DEF AboutToTake, OneCallerOnly, MayCall
  <2>3. \A u \in Threads \ {t} : u \in TaskHandles
    BY <1>1, <1>3, <2>2 DEF OneCallerOnly
  <2> QED
    BY <1>1, <2>1, <2>2, <2>3 DEF MayTake, Alone
<1>4. CASE TasksOnly
  <2>1. /\ t \in LiveTasks /\ Idle(t) /\ s = tasks[t].pvParameters
        /\ \A c \in Callers : call[c].slot = s => call[c].pc \notin WorkingPcs
        /\ mode = "PAIR" \/ t = runtime[s].HandlerClient
    BY <1>4 DEF TasksOnly, AboutToTake, MayCall, ApartInv
  <2>2. \A c \in Callers : call[c].pc \notin DestroyPcs
    BY <1>4 DEF ApartInv
  <2>3. \A u \in Threads : call[u].slot = s /\ Works(call[u]) =>
           call[u].full /\ call[u].pc \in DestroyPcs \ {"dropSelf"}
    BY <2>1, Typed DEF Works, WorkingPcs, IInv, CallInv, WellShaped
  <2>4. Records[s] = runtime[s] /\ s \in Slots
    BY <2>3, Typed
    DEF Records, RecordOf, InUseAndOwned, Unindexed, Works, WorkingPcs, CreatePcs,
        RollbackPcs, DestroyPcs
  <2>5. \A u \in Threads : call[u].slot = s => ~Works(call[u])
    <3> SUFFICES ASSUME NEW u \in Threads, call[u].slot = s, Works(call[u])
                 PROVE  FALSE
      OBVIOUS
    <3>1. \A v \in Threads : Works(call[v]) /\ call[v].slot = s =>
             IsEmpty(runtime[s]) /\ call[v].pc = "release"
      BY <2>3, <2>4 DEF OwnInv, WorkShaped, WorkRecord
    <3>2. t \notin {runtime[s].HandlerClient, runtime[s].HandlerServer}
      BY <2>1, <3>1, Typed DEF IsEmpty
    <3>3. PICK v \in Threads :
             /\ Works(call[v]) /\ call[v].slot = s
             /\ call[v].pc \in DestroyPcs => call[v].pc \in {"dropClient", "dropServer"}
      BY <2>1, <2>2, <2>4, <3>2, IdleTaskIsHeld
    <3> QED
      BY <3>1, <3>3 DEF DestroyPcs
  <2>6. t \in {runtime[s].HandlerClient, runtime[s].HandlerServer}
    BY <2>1, <2>2, <2>4, <2>5, IdleTaskIsHeld
  <2>7. Alone(t, s)
    BY <2>2, <2>5 DEF Alone, Engaged
  <2> QED
    BY <2>1, <2>6, <2>7 DEF MayTake, FullTeardown
<1> QED
  BY <1>2, <1>3, <1>4 DEF CallersKeepApart

\* Nobody is in a call to begin with.
LEMMA InitApart == Init => ApartInv
<1> SUFFICES ASSUME Init PROVE ApartInv
  OBVIOUS
<1>1. \A t \in Threads : call[t] = IdleCall
  BY DEF Init
<1>2. \A c \in Callers : pointers[c] = {}
  BY DEF Init
<1>3. Callers \subseteq Threads /\ TaskHandles \subseteq Threads
  BY DEF Threads
<1> QED
  BY <1>1, <1>2, <1>3, Blank DEF ApartInv, Idle, DestroyPcs, PointersOwn

\* Every step a thread takes within a call, but for the one that takes a pair it
\* has looked up.
LEMMA ContinueGoesOn ==
  ASSUME IInv, OwnInv, NEW t \in Threads, Continue(t), call[t].pc # "take"
  PROVE  GoesOn(t, call[t], call'[t]) /\ GivesUpOwn(t, call[t], call'[t])
BY CreateGoesOn, RollbackGoesOn, TeardownGoesOn DEF Continue

\* Every step keeps the threads apart.
LEMMA NextApart ==
  ASSUME IInv, OwnInv, ApartInv, CallersKeepApart, [Next]_vars
  PROVE  ApartInv'
<1>1. CASE UNCHANGED vars
  BY <1>1 DEF vars, registryVars, ApartInv, PointersOwn, Idle
<1>2. ASSUME NEW t \in Threads, Begin(t) \/ Continue(t) PROVE ApartInv'
  <2>1. \A u \in Threads \ {t} : call'[u] = call[u] \/ call'[u] = IdleCall
    BY <1>2, CallsElsewhere
  <2>2. /\ Callers \cap TaskHandles = {} /\ Threads = Callers \cup TaskHandles
        /\ IdleCall.pc = "idle"
    BY ManagerAssumption, Blank DEF Threads
  <2>3. Continue(t) => call[t].pc # "idle"
    BY ContinueGoesOn DEF GoesOn
  <2>4. OwnersOnly \/ OneCallerOnly => \A h \in TaskHandles : Idle(h)'
    <3> SUFFICES ASSUME OwnersOnly \/ OneCallerOnly, NEW h \in TaskHandles
                 PROVE  call'[h].pc = "idle"
      BY DEF Idle
    <3>1. "destroySelf" \in Ops => t \notin TaskHandles \/ Continue(t)
      BY DEF OwnersOnly, OneCallerOnly
    <3>2. t \notin TaskHandles
      <4>1. Continue(t) => t \notin TaskHandles
        BY <2>3 DEF ApartInv, Idle
      <4>2. Begin(t) => t \notin TaskHandles
        BY <2>2, <3>1
        DEF Begin, Reserve, Destroy, DestroySelf, LookupForDestroy, RemoveMonitoredTask,
            ReleasePointer, InitStore, MayCall, OwnersOnly, OneCallerOnly
      <4> QED
        BY <1>2, <4>1, <4>2
    <3> QED
      BY <2>1, <2>2, <3>2 DEF ApartInv, Idle
  <2>5. OwnersOnly \/ TasksOnly => \A u \in Threads : call'[u].pc # "take"
    <3> SUFFICES ASSUME OwnersOnly \/ TasksOnly PROVE call'[t].pc # "take"
      BY <2>1, <2>2 DEF ApartInv
    <3>1. CASE Continue(t)
      BY <3>1, ContinueGoesOn DEF ApartInv, GoesOn
    <3>2. CASE Begin(t)
      BY <3>2, Begins, Reserves, Takes DEF Destroy, DestroySelf
    <3> QED
      BY <1>2, <3>1, <3>2
  <2>6. TasksOnly => \A c \in Callers : call'[c].pc \notin DestroyPcs
    <3> SUFFICES ASSUME TasksOnly, t \in Callers PROVE call'[t].pc \notin DestroyPcs
      BY <2>1, <2>2 DEF ApartInv, DestroyPcs
    <3>1. CASE Continue(t)
      BY <3>1, ContinueGoesOn DEF ApartInv, GoesOn
    <3>2. CASE Begin(t)
      <4>1. "destroyOwn" \notin Ops
        BY DEF TasksOnly
      <4>2. Reserve(t)
        BY <2>2, <3>2, <4>1, Begins DEF Destroy, MayCall, TasksOnly
      <4> QED
        BY <4>2, Reserves DEF DestroyPcs
    <3> QED
      BY <1>2, <3>1, <3>2
  <2>7. OwnersOnly => PointersOwn'
    <3> SUFFICES ASSUME OwnersOnly PROVE PointersOwn'
      OBVIOUS
    <3>1. CASE Continue(t)
      <4>1. GoesOn(t, call[t], call'[t]) /\ GivesUpOwn(t, call[t], call'[t])
        BY <3>1, ContinueGoesOn DEF ApartInv
      <4> QED
        BY <2>1, <4>1, PointersStayOwn DEF ApartInv
    <3>2. CASE Begin(t)
      <4>1. "destroySelf" \notin Ops
        BY DEF OwnersOnly
      <4>2. \/ Reserve(t)
            \/ /\ t \in Callers
               /\ \E s \in Slots, mode \in Modes : s \in pointers[t] /\ Destroy(t, s, mode)
        BY <3>2, <4>1, Begins DEF DestroySelf
      <4> QED
        BY <2>1, <4>2, PointersStayOwn DEF ApartInv
    <3> QED
      BY <1>2, <3>1, <3>2
  <2> QED
    BY <2>4, <2>5, <2>6, <2>7 DEF ApartInv
<1> QED
  BY <1>1, <1>2 DEF Next

\* Threads that keep apart never take a pair another is at work on, so whatever
\* is alive has one holder.
THEOREM PairsAreOwned ==
  ASSUME CallersKeepApart
  PROVE  Spec => []OwnInv
<1>1. Ops \cap ForeignOps = {}
  BY DEF CallersKeepApart, OwnersOnly, TasksOnly, OneCallerOnly, ForeignOps
<1>2. /\ IInv /\ IInv' /\ OwnInv /\ ApartInv /\ [Next]_vars => OwnInv' /\ ApartInv'
  BY <1>1, DisciplinesSuffice, NextOwns, NextApart
<1> QED
  BY <1>2, InitOwns, InitApart, InvariantHolds, PTL DEF Spec

-----------------------------------------------------------------------------
(* What the invariant means for the properties of TaskManager.             *)

\* The places that hold x, each under its name.
Holders(recs, locs, x, names) ==
    {<<names[1], s>> : s \in {s \in Slots : recs[s][1] = x}}
    \cup {<<names[2], s>> : s \in {s \in Slots : recs[s][2] = x}}
    \cup {<<names[3], t>> : t \in {t \in Threads : locs[t][1] = x}}
    \cup {<<names[4], t>> : t \in {t \in Threads : locs[t][2] = x}}
    \cup {<<names[5], t>> : t \in {t \in Threads : locs[t][3] = x}}

\* One place holds what is alive, and none holds what is not.
LEMMA OneHolder ==
  ASSUME NEW recs, NEW locs, NEW live, NEW none, HeldOnce(recs, locs, live, none),
         NEW x, x # none, NEW names
  PROVE  Cardinality(Holders(recs, locs, x, names)) = IF x \in live THEN 1 ELSE 0
<1> DEFINE S1 == {s \in Slots : recs[s][1] = x}
           S2 == {s \in Slots : recs[s][2] = x}
           T1 == {t \in Threads : locs[t][1] = x}
           T2 == {t \in Threads : locs[t][2] = x}
           T3 == {t \in Threads : locs[t][3] = x}
           H == {<<names[1], s>> : s \in S1} \cup {<<names[2], s>> : s \in S2}
                \cup {<<names[3], t>> : t \in T1} \cup {<<names[4], t>> : t \in T2}
                \cup {<<names[5], t>> : t \in T3}
           At(p) == p \in Places /\ Content(recs, locs, p) = x
<1>1. /\ \A s \in Slots, j \in {1, 2} : At(<<"slot", s, j>>) <=> recs[s][j] = x
      /\ \A t \in Threads, j \in {1, 2, 3} : At(<<"thread", t, j>>) <=> locs[t][j] = x
  BY DEF Places, Content
<1>2. \A p, q : At(p) /\ At(q) => p = q
  BY DEF HeldOnce
<1>3. CASE x \notin live
  <2>1. \A p : ~At(p)
    BY <1>3 DEF HeldOnce
  <2> HIDE DEF At
  <2>2. S1 = {} /\ S2 = {} /\ T1 = {} /\ T2 = {} /\ T3 = {}
    BY <1>1, <2>1
  <2>3. H = {}
    BY <2>2
  <2>4. Cardinality(H) = 0
    BY <2>3, FS_EmptySet
  <2> QED
    BY <1>3, <2>4 DEF Holders
<1>4. CASE x \in live
  <2>1. PICK p : At(p)
    BY <1>4 DEF HeldOnce
  <2>2. \/ \E s \in Slots : p = <<"slot", s, 1>>
        \/ \E s \in Slots : p = <<"slot", s, 2>>
        \/ \E t \in Threads : p = <<"thread", t, 1>>
        \/ \E t \in Threads : p = <<"thread", t, 2>>
        \/ \E t \in Threads : p = <<"thread", t, 3>>
    BY <2>1 DEF Places
  <2> HIDE DEF At
  <2>3. /\ \A s \in Slots, j \in {1, 2} :
              recs[s][j] = x <=> p[1] = "slot" /\ p[2] = s /\ p[3] = j
        /\ \A t \in Threads, j \in {1, 2, 3} :
              locs[t][j] = x <=> p[1] = "thread" /\ p[2] = t /\ p[3] = j
    <3>1. /\ \A s \in Slots, j \in {1, 2} : recs[s][j] = x <=> p = <<"slot", s, j>>
          /\ \A t \in Threads, j \in {1, 2, 3} : locs[t][j] = x <=> p = <<"thread", t, j>>
      <4>1. \A q : At(q) <=> p = q
        BY <1>2, <2>1
      <4> QED
        BY <1>1, <4>1
    <3>2. PICK k, y, n : p = <<k, y, n>>
      BY <2>2
    <3>3. \A u, v, w : p = <<u, v, w>> <=> p[1] = u /\ p[2] = v /\ p[3] = w
      BY <3>2
    <3> QED
      BY <3>1, <3>3
  <2>4. \E y : H = {y}
    <3>1. ASSUME NEW s \in Slots, p = <<"slot", s, 1>> PROVE H = {<<names[1], s>>}
      <4>1. S1 = {s} /\ S2 = {} /\ T1 = {} /\ T2 = {} /\ T3 = {}
        BY <2>3, <3>1
      <4> HIDE DEF S1, S2, T1, T2, T3
      <4>2. \A y : y \in H <=> y = <<names[1], s>>
        BY <4>1
      <4> HIDE DEF H
      <4> QED
        BY <4>2
    <3>2. ASSUME NEW s \in Slots, p = <<"slot", s, 2>> PROVE H = {<<names[2], s>>}
      <4>1. S1 = {} /\ S2 = {s} /\ T1 = {} /\ T2 = {} /\ T3 = {}
        BY <2>3, <3>2
      <4> HIDE DEF S1, S2, T1, T2, T3
      <4>2. \A y : y \in H <=> y = <<names[2], s>>
        BY <4>1
      <4> HIDE DEF H
      <4> QED
        BY <4>2
    <3>3. ASSUME NEW t \in Threads, p = <<"thread", t, 1>> PROVE H = {<<names[3], t>>}
      <4>1. S1 = {} /\ S2 = {} /\ T1 = {t} /\ T2 = {} /\ T3 = {}
        BY <2>3, <3>3
      <4> HIDE DEF S1, S2, T1, T2, T3
      <4>2. \A y : y \in H <=> y = <<names[3], t>>
        BY <4>1
      <4> HIDE DEF H
      <4> QED
        BY <4>2
    <3>4. ASSUME NEW t \in Threads, p = <<"thread", t, 2>> PROVE H = {<<names[4], t>>}
      <4>1. S1 = {} /\ S2 = {} /\ T1 = {} /\ T2 = {t} /\ T3 = {}
        BY <2>3, <3>4
      <4> HIDE DEF S1, S2, T1, T2, T3
      <4>2. \A y : y \in H <=> y = <<names[4], t>>
        BY <4>1
      <4> HIDE DEF H
      <4> QED
        BY <4>2
    <3>5. ASSUME NEW t \in Threads, p = <<"thread", t, 3>> PROVE H = {<<names[5], t>>}
      <4>1. S1 = {} /\ S2 = {} /\ T1 = {} /\ T2 = {} /\ T3 = {t}
        BY <2>3, <3>5
      <4> HIDE DEF S1, S2, T1, T2, T3
      <4>2. \A y : y \in H <=> y = <<names[5], t>>
        BY <4>1
      <4> HIDE DEF H
      <4> QED
        BY <4>2
    <3> HIDE DEF H
    <3> QED
      BY <2>2, <3>1, <3>2, <3>3, <3>4, <3>5
  <2> HIDE DEF H
  <2>5. Cardinality(H) = 1
    BY <2>4, FS_Singleton
  <2> QED
    BY <1>4, <2>5 DEF H, Holders
<1> QED
  BY <1>3, <1>4

\* Nothing is held in the record of a slot that is not in use, and the fields
\* but for the indices are those of the record.
LEMMA RecordsRead ==
  ASSUME IInv, NEW s \in Slots
  PROVE  /\ s \notin inUse => IsEmpty(Records[s])
         /\ s \in inUse => /\ Records[s].HandlerClient = runtime[s].HandlerClient
                           /\ Records[s].HandlerServer = runtime[s].HandlerServer
                           /\ Records[s].queue_client_server = runtime[s].queue_client_server
                           /\ Records[s].queue_server_client = runtime[s].queue_server_client
         /\ s \in Indexed => Records[s] = runtime[s]
         /\ s \notin Indexed => Records[s].client_index = NoIndex
                                /\ Records[s].server_index = NoIndex
<1>1. runtime[s] \in Runtime
  BY Typed
<1>2. s \in Indexed <=> s \in inUse /\ ~ \E t \in Threads :
                           call[t].slot = s /\ Unindexed(call[t])
  BY DEF Indexed, Unindexed
<1> QED
  BY <1>1, <1>2, Blank DEF Records, RecordOf, WithoutIndices, Runtime, IsEmpty

\* Every live task has one holder.
LEMMA TasksCounted ==
  ASSUME IInv, OwnInv
  PROVE  TasksHaveOneHolder
<1> SUFFICES ASSUME NEW h \in TaskHandles
             PROVE  Cardinality(TaskHolders(h)) = IF h \in LiveTasks THEN 1 ELSE 0
  BY DEF TasksHaveOneHolder
<1> DEFINE recs == [s \in Slots |-> RecordTasks(Records[s])]
           locs == [t \in Threads |-> CallTasks(call[t])]
<1>1. h # NoHandle /\ HeldOnce(recs, locs, LiveTasks, NoHandle)
  BY Typed DEF OwnInv, TasksHeld
<1>2. /\ {<<"HandlerClient", s>> : s \in {s \in inUse : runtime[s].HandlerClient = h}}
            = {<<"HandlerClient", s>> : s \in {s \in Slots : recs[s][1] = h}}
      /\ {<<"HandlerServer", s>> : s \in {s \in inUse : runtime[s].HandlerServer = h}}
            = {<<"HandlerServer", s>> : s \in {s \in Slots : recs[s][2] = h}}
  <2>1. /\ {s \in inUse : runtime[s].HandlerClient = h} = {s \in Slots : recs[s][1] = h}
        /\ {s \in inUse : runtime[s].HandlerServer = h} = {s \in Slots : recs[s][2] = h}
    BY <1>1, RecordsRead, Typed DEF RecordTasks, IsEmpty
  <2> QED
    BY <2>1, Zenon
<1>3. /\ {<<"task", t>> : t \in {t \in Threads : call[t].task = h}}
            = {<<"task", t>> : t \in {t \in Threads : locs[t][1] = h}}
      /\ {<<"client", t>> : t \in {t \in Threads : call[t].got.HandlerClient = h}}
            = {<<"client", t>> : t \in {t \in Threads : locs[t][2] = h}}
      /\ {<<"server", t>> : t \in {t \in Threads : call[t].got.HandlerServer = h}}
            = {<<"server", t>> : t \in {t \in Threads : locs[t][3] = h}}
  BY DEF CallTasks
<1> DEFINE names == <<"HandlerClient", "HandlerServer", "task", "client", "server">>
<1> HIDE DEF recs, locs
<1>4. TaskHolders(h) = Holders(recs, locs, h, names)
  BY <1>2, <1>3 DEF TaskHolders, Holders
<1> HIDE DEF names
<1> QED
  BY <1>1, <1>4, OneHolder

\* Every live queue has one holder.
LEMMA QueuesCounted ==
  ASSUME IInv, OwnInv
  PROVE  QueuesHaveOneHolder
<1> SUFFICES ASSUME NEW q \in QueueHandles
             PROVE  Cardinality(QueueHolders(q)) = IF q \in liveQueues THEN 1 ELSE 0
  BY DEF QueuesHaveOneHolder
<1> DEFINE recs == [s \in Slots |-> RecordQueues(Records[s])]
           locs == [t \in Threads |-> CallQueues(call[t])]
<1>1. q # NoHandle /\ HeldOnce(recs, locs, liveQueues, NoHandle)
  BY Typed DEF OwnInv, QueuesHeld
<1>2. /\ {s \in inUse : runtime[s].queue_client_server = q} = {s \in Slots : recs[s][1] = q}
      /\ {s \in inUse : runtime[s].queue_server_client = q} = {s \in Slots : recs[s][2] = q}
  BY <1>1, RecordsRead, Typed DEF RecordQueues, IsEmpty
<1>3. /\ {} = {t \in Threads : locs[t][1] = q}
      /\ {t \in Threads : call[t].got.queue_client_server = q} = {t \in Threads : locs[t][2] = q}
      /\ {t \in Threads : call[t].got.queue_server_client = q} = {t \in Threads : locs[t][3] = q}
  BY <1>1 DEF CallQueues
<1> DEFINE names == <<"cs", "sc", "none", "gotcs", "gotsc">>
<1> HIDE DEF recs, locs
<1>4. QueueHolders(q) = Holders(recs, locs, q, names)
  BY <1>2, <1>3 DEF QueueHolders, Holders
<1> HIDE DEF names
<1> QED
  BY <1>1, <1>4, OneHolder

\* Every active entry has one holder.
LEMMA EntriesCounted ==
  ASSUME IInv, OwnInv
  PROVE  EntriesHaveOneHolder
<1> SUFFICES ASSUME NEW i \in Indices
             PROVE  Cardinality(EntryHolders(i)) = IF i \in Active THEN 1 ELSE 0
  BY DEF EntriesHaveOneHolder
<1> DEFINE recs == [s \in Slots |-> RecordEntries(Records[s])]
           locs == [t \in Threads |-> CallEntries(call[t])]
<1>1. i # NoIndex /\ HeldOnce(recs, locs, Active, NoIndex)
  BY Typed DEF OwnInv, EntriesHeld
<1>2. /\ {s \in Indexed : runtime[s].client_index = i} = {s \in Slots : recs[s][1] = i}
      /\ {s \in Indexed : runtime[s].server_index = i} = {s \in Slots : recs[s][2] = i}
  <2>1. Indexed \subseteq Slots
    BY Typed DEF Indexed
  <2> QED
    BY <1>1, <2>1, RecordsRead DEF RecordEntries
<1>3. /\ {t \in Threads : call[t].pc \in {"handle", "index"} /\ call[t].idx = i}
            = {t \in Threads : locs[t][1] = i}
      /\ {t \in Threads : call[t].got.client_index = i} = {t \in Threads : locs[t][2] = i}
      /\ {t \in Threads : call[t].got.server_index = i} = {t \in Threads : locs[t][3] = i}
  BY <1>1 DEF CallEntries
<1> DEFINE names == <<"client_index", "server_index", "idx", "client", "server">>
<1> HIDE DEF recs, locs
<1>4. EntryHolders(i) = Holders(recs, locs, i, names)
  BY <1>2, <1>3 DEF EntryHolders, Holders
<1> HIDE DEF names
<1> QED
  BY <1>1, <1>4, OneHolder

\* A live task is held together with its queues, so they are alive.
LEMMA QueuesOutlive ==
  ASSUME IInv, OwnInv
  PROVE  NoTaskOutlivesItsQueues
<1> SUFFICES ASSUME NEW h \in LiveTasks, Idle(h)
             PROVE  tasks[h].queues \subseteq liveQueues
  BY DEF NoTaskOutlivesItsQueues
<1>1. h \in TaskHandles /\ h \in Threads /\ h # NoHandle /\ tasks[h].queues \subseteq QueueHandles
  BY Typed DEF Threads, IInv, KernelInv, Task
<1>2. \A u \in Threads, s \in Slots :
         /\ QueuesOf(Records[s]) \ {NoHandle} \subseteq liveQueues
         /\ QueuesOf(call[u].got) \ {NoHandle} \subseteq liveQueues
  BY NearHeld DEF Contents, RecordQueues, CallQueues, QueuesOf
<1>3. CASE \E s \in Slots : h \in {Records[s].HandlerClient, Records[s].HandlerServer}
  <2>1. PICK s \in Slots : tasks[h].queues \subseteq QueuesOf(Records[s])
    BY <1>1, <1>3 DEF OwnInv, TasksFed, RecordFeeds, Uses
  <2> QED
    BY <1>1, <1>2, <2>1, Typed
<1>4. ASSUME NEW u \in Threads, h \in {call[u].task, call[u].got.HandlerClient,
                                       call[u].got.HandlerServer}
      PROVE  tasks[h].queues \subseteq liveQueues
  <2>1. Shape(u, call[u]) /\ Shape(h, call[h])
    BY <1>1 DEF OwnInv, CallsShaped
  <2>2. u # h /\ call[u].pc \notin {"idle", "initRegistry"}
    BY <1>1, <1>4, <2>1, Blank DEF Shape, Idle, IsEmpty
  <2>3. call[u].slot \in Slots
    BY <2>2 DEF IInv, CallInv, WellShaped
  <2>4. \/ tasks[h].queues \subseteq QueuesOf(Records[call[u].slot])
        \/ tasks[h].queues \subseteq QueuesOf(call[u].got)
    BY <1>1, <1>4, <2>2, <2>3 DEF OwnInv, TasksFed, CallFeeds, Uses
  <2> QED
    BY <1>1, <1>2, <2>3, <2>4, Typed
<1> QED
  BY <1>3, <1>4, Whereabouts

\* Whoever works on a slot is engaged on it, alone.
LEMMA WorkersAlone ==
  ASSUME OwnInv
  PROVE  SlotHasOneWorker
<1>1. \A t : WorksOn(t) <=> Works(call[t])
  BY DEF WorksOn, Works, WorkingPcs
<1> QED
  BY <1>1 DEF SlotHasOneWorker, OwnInv, OneEngaged, Engaged

\* A pair that nobody works on is linked.
LEMMA SettledAreLinked ==
  ASSUME IInv, OwnInv
  PROVE  LinkageAgrees
<1> SUFFICES ASSUME NEW s \in inUse, Settled(s), runtime[s].client_index # NoIndex
             PROVE  Linked(monitor, runtime[s])
  BY DEF LinkageAgrees, Linked, HalfLinked
<1>1. s \in Slots /\ Records[s] = runtime[s]
  BY Typed, RecordsRead DEF Settled, Indexed
<1> QED
  BY <1>1 DEF OwnInv, PairsLinked, Settled

\* The properties the runs check of pairs that are created and torn down.
PairsSound ==
    /\ TasksHaveOneHolder /\ QueuesHaveOneHolder /\ EntriesHaveOneHolder
    /\ NoTaskOutlivesItsQueues /\ SlotHasOneWorker /\ LinkageAgrees

\* All of the properties follow.
LEMMA OwnedIsSound == IInv /\ OwnInv => PairsSound
BY TasksCounted, QueuesCounted, EntriesCounted, QueuesOutlive, WorkersAlone,
   SettledAreLinked DEF PairsSound

-----------------------------------------------------------------------------
(* The theorems.                                                           *)

\* Whatever the calls (but for the three that clear what they do not hold), in
\* every behaviour in which nobody takes a pair another thread is at work on,
\* pairs are sound: the one thing the two mutexes leave to the callers.
THEOREM UndisturbedPairsAreSound ==
  ASSUME Ops \cap ForeignOps = {}
  PROVE  Spec /\ []TakesUndisturbed => []PairsSound
BY UndisturbedPairsAreOwned, InvariantHolds, OwnedIsSound, PTL

\* Threads that keep apart take pairs undisturbed.
THEOREM ApartIsUndisturbed ==
  ASSUME CallersKeepApart
  PROVE  Spec => []TakesUndisturbed
<1>1. Ops \cap ForeignOps = {}
  BY DEF CallersKeepApart, OwnersOnly, TasksOnly, OneCallerOnly, ForeignOps
<1>2. /\ IInv /\ IInv' /\ OwnInv /\ ApartInv /\ [Next]_vars => OwnInv' /\ ApartInv'
  BY <1>1, DisciplinesSuffice, NextOwns, NextApart
<1>3. IInv /\ OwnInv /\ ApartInv => TakesUndisturbed
  BY DisciplinesSuffice
<1> QED
  BY <1>2, <1>3, InitOwns, InitApart, InvariantHolds, PTL DEF Spec

\* No task is leaked or deleted twice.
THEOREM TasksAreHeldOnce ==
  ASSUME CallersKeepApart
  PROVE  Spec => []TasksHaveOneHolder
BY PairsAreOwned, InvariantHolds, TasksCounted, PTL

\* No queue is leaked or deleted twice.
THEOREM QueuesAreHeldOnce ==
  ASSUME CallersKeepApart
  PROVE  Spec => []QueuesHaveOneHolder
BY PairsAreOwned, InvariantHolds, QueuesCounted, PTL

\* No two pairs share a monitor entry, and none is orphaned.
THEOREM EntriesAreHeldOnce ==
  ASSUME CallersKeepApart
  PROVE  Spec => []EntriesHaveOneHolder
BY PairsAreOwned, InvariantHolds, EntriesCounted, PTL

\* A running task never finds its queues deleted.
THEOREM QueuesOutliveTasks ==
  ASSUME CallersKeepApart
  PROVE  Spec => []NoTaskOutlivesItsQueues
BY PairsAreOwned, InvariantHolds, QueuesOutlive, PTL

\* A slot has one builder or one destroyer.
THEOREM SlotsHaveOneWorker ==
  ASSUME CallersKeepApart
  PROVE  Spec => []SlotHasOneWorker
BY PairsAreOwned, WorkersAlone, PTL

\* The record of a built pair and its two entries name each other.
THEOREM BuiltPairsAreLinked ==
  ASSUME CallersKeepApart
  PROVE  Spec => []LinkageAgrees
BY PairsAreOwned, InvariantHolds, SettledAreLinked, PTL

\* The slot of a pair under construction is not freed, which it may be by a
\* thread that does not keep apart.
THEOREM BuildersKeepTheirSlots ==
  ASSUME CallersKeepApart
  PROVE  Spec => []BuilderKeepsSlot
<1>1. OwnInv => BuilderKeepsSlot
  BY DEF BuilderKeepsSlot, OwnInv, OneEngaged, Engaged, Works, WorkingPcs
<1> QED
  BY <1>1, PairsAreOwned, PTL
=============================================================================
