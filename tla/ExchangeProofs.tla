----------------------------- MODULE ExchangeProofs -----------------------------
(***************************************************************************)
(* The safety properties of PairExchange, for every specification, queue   *)
(* depth, name limit and set of faults, and that each of its steps is a    *)
(* step of RequestReply or none.                                           *)
(***************************************************************************)
EXTENDS PairExchange, SequenceTheorems, TLAPS

\* Where the application is in its call, and what is then in its locals and
\* in the record.
CallShape ==
    /\ app.pc = "idle" => app = IdleApp
    /\ app.pc # "idle" => pair.in_use
    /\ (app.pc = "idle" /\ pair.in_use) \/ app.pc \in DestroyPcs => spec = NoSpec
    /\ ~pair.in_use => pair = FreePair
    /\ pair.in_use => pair.queue_depth > 0
    /\ app.pc \notin DestroyPcs => app.got = NothingGot
    /\ app.pc \in CreatePcs => spec # NoSpec /\ IsValid(spec)

CreateShape ==
    /\ app.pc = "cs" => pair.queues = {}
    /\ app.pc = "sc" => pair.queues = {"cs"}
    /\ app.pc \in {"cs", "sc"} => app.role = "client"
    /\ app.pc \in {"cs", "sc", "spawn", "record", "lose"} =>
          app.role \notin pair.handles /\ (app.role = "client" => pair.handles = {})
    /\ app.pc \in {"index", "link"} /\ app.role = "client" =>
          "server" \notin pair.handles
    /\ app.pc = "undoClient" => "server" \notin pair.handles
    /\ app.pc \in {"undoQueues", "undoMonitor"} => pair.handles = {}
    /\ app.pc = "undoMonitor" => pair.queues = {}

DestroyShape ==
    app.pc \in DestroyPcs =>
        /\ "client" \notin pair.handles
        /\ app.pc # "dropClient" => "client" \notin app.got.handles
        /\ app.pc = "dropQueues" => app.got.handles = {}
        /\ IF app.full
           THEN /\ pair.handles = {} /\ pair.queues = {} /\ pair.index = NoIndices
                /\ app.pc = "dropMonitor" => app.got.handles = {}
           ELSE /\ app.pc \in {"dropClient", "dropMonitor"}
                /\ app.got.queues = {}
                /\ app.got.handles \subseteq {"client"}
                /\ app.got.entries \subseteq {"client"} /\ pair.index["client"] = -1

\* Every task, queue and entry is held by the record or by the call.
HeldTasks == pair.handles \cup app.got.handles
                 \cup (IF app.pc \in {"record", "lose"} THEN {app.role} ELSE {})

TasksAreHeld == \A r \in Roles : body[r].pc # "none" => r \in HeldTasks

QueuesAreHeld ==
    exists = pair.queues \cup (IF app.pc = "dropMonitor" THEN {} ELSE app.got.queues)

EntriesAreHeld ==
    /\ pair.in_use => \A r \in Roles : pair.index[r] \in {-1, OwnIndex(r)}
    /\ monitor = {r \in Roles : pair.in_use /\ pair.index[r] >= 0}
                     \cup app.got.entries
                     \cup (IF app.pc = "index" THEN {app.role} ELSE {})

\* A body past its start has both queues, and they exist.
Exchanging(r) == body[r].pc \in {"send", "receive", "lookup", "enter", "exit"}

BodiesHaveQueues ==
    \A r \in Roles :
        /\ body[r].got \subseteq exists
        /\ ~Alive(r) => body[r].got = {}
        /\ Exchanging(r) => body[r].got = Queues

\* At most one message is under way: a request, a request being served or an
\* answer; and none while the client is not waiting for it.
OneInFlight ==
    \/ content["cs"] = <<>> /\ content["sc"] = <<>>
    \/ Len(content["cs"]) = 1 /\ content["sc"] = <<>> /\ body["server"].pc # "send"
    \/ content["cs"] = <<>> /\ Len(content["sc"]) = 1 /\ body["server"].pc # "send"

NoneInFlight ==
    content["cs"] = <<>> /\ content["sc"] = <<>> /\ body["server"].pc # "send"

NotWaiting == Alive("client") /\ body["client"].pc # "receive"

\* The client has yet to be created.
Unstarted == app.pc \in {"cs", "sc"} \/ (app.pc = "spawn" /\ app.role = "client")

Carried ==
    LET v == body["client"].value
    IN  body["client"].pc = "receive" =>
            /\ content["cs"] # <<>> => Head(content["cs"]) = v
            /\ body["server"].pc = "send" => body["server"].value = v
            /\ content["sc"] # <<>> => Head(content["sc"]) = Answer(pair.code, v)

Conversation ==
    /\ OneInFlight
    /\ NotWaiting \/ Unstarted => NoneInFlight
    /\ Carried
    /\ \A q \in Queues : content[q] # <<>> => q \in exists

ExchangeInv ==
    /\ ExchangeTypeOK
    /\ CallShape /\ CreateShape /\ DestroyShape
    /\ TasksAreHeld /\ QueuesAreHeld /\ EntriesAreHeld
    /\ BodiesHaveQueues /\ ReportsUnderOwnIndex
    /\ Conversation

-----------------------------------------------------------------------------
(* Two steps whose effect on records needs a word of its own.              *)

LEMMA NewPairIsPair ==
    ASSUME NEW s \in Spec_t, IsValid(s)
    PROVE  /\ Resolved(s) \in Spec_t
           /\ NewPair(Resolved(s)) \in Pair_t
           /\ NewPair(Resolved(s)).queue_depth > 0
  BY DEF Spec_t, IsValid, Resolved, NewPair, Pair_t, NoIndices, Roles, HostLabels, Queues

LEMMA ReserveEffect ==
    ASSUME ExchangeTypeOK, CallShape, Reserve
    PROVE  /\ UNCHANGED <<exists, content, body, holder, monitor>>
           /\ app.pc = "idle" /\ ~pair.in_use
           /\ \/ /\ app' = [IdleApp EXCEPT !.pc = "cs"]
                 /\ pair' \in Pair_t
                 /\ pair'.in_use /\ pair'.queue_depth > 0
                 /\ pair'.queues = {} /\ pair'.handles = {}
                 /\ pair'.index = NoIndices
                 /\ IsValid(spec) /\ UNCHANGED <<spec, creation>>
              \/ UNCHANGED <<pair, app>> /\ spec' = NoSpec /\ creation' = "runtime-slot"
<1>1. app.pc = "idle" /\ ~pair.in_use /\ app = IdleApp
  BY DEF Reserve, CallShape
<1>2. CASE pair' = NewPair(Resolved(spec)) /\ Goto("cs") /\ UNCHANGED <<spec, creation>>
  <2>1. spec \in Spec_t /\ IsValid(spec)
    BY DEF Reserve, ExchangeTypeOK
  <2>2. pair' \in Pair_t /\ pair'.queue_depth > 0
    BY <1>2, <2>1, NewPairIsPair
  <2>3. /\ pair'.in_use /\ pair'.queues = {} /\ pair'.handles = {}
        /\ pair'.index = NoIndices
    BY <1>2 DEF NewPair
  <2>4. app' = [IdleApp EXCEPT !.pc = "cs"]
    BY <1>1, <1>2 DEF Goto
  <2> QED
    BY <1>1, <1>2, <2>1, <2>2, <2>3, <2>4 DEF Reserve, kernelVars
<1>3. CASE UNCHANGED <<pair, app>> /\ spec' = NoSpec /\ creation' = "runtime-slot"
  BY <1>1, <1>3 DEF Reserve, kernelVars
<1> QED
  BY <1>2, <1>3 DEF Reserve

LEMMA LinkEntriesEffect ==
    ASSUME ExchangeTypeOK, LinkEntries
    PROVE  /\ UNCHANGED <<pair, exists, content, body, holder, monitor>>
           /\ app.pc = "link" /\ app \in App_t
           /\ \/ /\ app.role = "client" /\ UNCHANGED <<spec, creation>>
                 /\ app' = [pc |-> "spawn", role |-> "server", full |-> app.full,
                            got |-> app.got]
              \/ app' = IdleApp /\ spec' = NoSpec /\ creation' = "none"
<1>1. CASE app.role = "client" /\ app' = [app EXCEPT !.pc = "spawn", !.role = "server"]
              /\ UNCHANGED <<spec, creation>>
  BY <1>1 DEF LinkEntries, ExchangeTypeOK, App_t, kernelVars
<1>2. CASE app' = IdleApp /\ spec' = NoSpec /\ creation' = "none"
  BY <1>2 DEF LinkEntries, ExchangeTypeOK, kernelVars
<1> QED
  BY <1>1, <1>2 DEF LinkEntries


-----------------------------------------------------------------------------
(* What the steps of the bodies do to the body that takes them.            *)

LEMMA Initials ==
    /\ IdleApp \in App_t
    /\ FreePair \in Pair_t
    /\ NoBody \in Body_t
<1>1. IdleApp \in App_t
  BY DEF IdleApp, App_t, Got_t, NothingGot, Roles
<1>2. FreePair \in Pair_t
  BY DEF FreePair, Pair_t, Codes, AllBodies, Roles, NullName, Name_t
<1>3. NoBody \in Body_t
  BY ExchangeAssumption DEF NoBody, Body_t, BodyPcs, Requests
<1> QED
  BY <1>1, <1>2, <1>3

LEMMA BodyBecomes ==
    ASSUME ExchangeTypeOK, NEW r \in Roles, NEW b \in Body_t, Become(r, b)
    PROVE  /\ body' \in [Roles -> Body_t]
           /\ body'[r] = b
           /\ \A x \in Roles : x # r => body'[x] = body[x]
  BY DEF ExchangeTypeOK, Become

LEMMA ReadFirstEffect ==
    ASSUME ExchangeTypeOK, NEW r \in Roles, ReadFirst(r)
    PROVE  /\ body' \in [Roles -> Body_t]
           /\ \A x \in Roles : x # r => body'[x] = body[x]
           /\ body'[r].pc = "readSecond" /\ body'[r].got = pair.queues \cap {"cs"}
           /\ body'[r].value = body[r].value /\ body'[r].index = body[r].index
<1> DEFINE b == [body[r] EXCEPT !.pc = "readSecond", !.got = pair.queues \cap {"cs"}]
<1>1. /\ b \in Body_t
      /\ b.pc = "readSecond" /\ b.got = pair.queues \cap {"cs"}
      /\ b.value = body[r].value /\ b.index = body[r].index
  BY DEF ExchangeTypeOK, Body_t, BodyPcs, Pair_t
<1>2. Become(r, b)
  BY DEF ReadFirst
<1> HIDE DEF b
<1> QED
  BY <1>1, <1>2, BodyBecomes

LEMMA ReadSecondEffect ==
    ASSUME ExchangeTypeOK, NEW r \in Roles, ReadSecond(r)
    PROVE  LET got == body[r].got \cup (pair.queues \cap {"sc"})
           IN  /\ body' \in [Roles -> Body_t]
               /\ \A x \in Roles : x # r => body'[x] = body[x]
               /\ body'[r].got = got
               /\ body'[r].pc = IF got # Queues THEN "missing"
                                ELSE IF r = "client" THEN "send" ELSE "receive"
               /\ body'[r].value = body[r].value /\ body'[r].index = body[r].index
<1> DEFINE got == body[r].got \cup (pair.queues \cap {"sc"})
           pc == IF got # Queues THEN "missing"
                 ELSE IF r = "client" THEN "send" ELSE "receive"
           b == [body[r] EXCEPT !.got = got, !.pc = pc]
<1>0. got \in SUBSET Queues /\ pc \in BodyPcs
  BY DEF ExchangeTypeOK, Body_t, BodyPcs, Pair_t
<1>2. Become(r, b)
  BY DEF ReadSecond
<1> HIDE DEF got, pc
<1>1. /\ b \in Body_t
      /\ b.pc = pc /\ b.got = got
      /\ b.value = body[r].value /\ b.index = body[r].index
  BY <1>0 DEF ExchangeTypeOK, Body_t
<1> HIDE DEF b
<1>3. /\ body' \in [Roles -> Body_t]
      /\ \A x \in Roles : x # r => body'[x] = body[x]
      /\ body'[r].got = got /\ body'[r].pc = pc
      /\ body'[r].value = body[r].value /\ body'[r].index = body[r].index
  BY <1>1, <1>2, BodyBecomes
<1> QED
  BY <1>3 DEF got, pc

LEMMA SendEffect ==
    ASSUME ExchangeTypeOK, NEW r \in Roles, Send(r)
    PROVE  /\ body' \in [Roles -> Body_t]
           /\ \A x \in Roles : x # r => body'[x] = body[x]
           /\ body'[r].pc = IF r = "client" THEN "receive" ELSE NextRound(r)
           /\ body'[r].value = IF r = "client" THEN Outgoing(r) ELSE 0
           /\ body'[r].got = body[r].got /\ body'[r].index = body[r].index
<1>1. NextRound(r) \in {"lookup", "receive", "rest", "send"}
  BY DEF NextRound
<1>2. Outgoing("client") \in Requests /\ 0 \in Requests
  BY ExchangeAssumption DEF Outgoing, Requests, ExchangeTypeOK, Body_t, Roles
<1>3. Become(r, AfterSend(r))
  BY DEF Send
<1>4. CASE r = "client"
  <2> DEFINE b == [body[r] EXCEPT !.pc = "receive", !.value = Outgoing(r)]
  <2>1. /\ b \in Body_t
        /\ b.pc = "receive" /\ b.value = Outgoing(r)
        /\ b.got = body[r].got /\ b.index = body[r].index
    BY <1>2, <1>4 DEF ExchangeTypeOK, Body_t, BodyPcs
  <2>2. Become(r, b)
    BY <1>3, <1>4 DEF AfterSend
  <2> HIDE DEF b
  <2> QED
    BY <1>4, <2>1, <2>2, BodyBecomes
<1>5. CASE r # "client"
  <2> DEFINE b == [body[r] EXCEPT !.pc = NextRound(r), !.value = 0]
  <2>1. /\ b \in Body_t
        /\ b.pc = NextRound(r) /\ b.value = 0
        /\ b.got = body[r].got /\ b.index = body[r].index
    BY <1>1, <1>2 DEF ExchangeTypeOK, Body_t, BodyPcs
  <2>2. Become(r, b)
    BY <1>3, <1>5 DEF AfterSend
  <2> HIDE DEF b
  <2> QED
    BY <1>5, <2>1, <2>2, BodyBecomes
<1> QED
  BY <1>4, <1>5

LEMMA ReceiveEffect ==
    ASSUME ExchangeTypeOK, NEW r \in Roles, Receive(r)
    PROVE  /\ body' \in [Roles -> Body_t]
           /\ \A x \in Roles : x # r => body'[x] = body[x]
           /\ body'[r].pc = IF r = "server" THEN "send" ELSE NextRound(r)
           /\ body'[r].value = IF r = "server" THEN Head(content["cs"])
                               ELSE body[r].value
           /\ body'[r].got = body[r].got /\ body'[r].index = body[r].index
<1>1. NextRound(r) \in {"lookup", "receive", "rest", "send"}
  BY DEF NextRound
<1>2. Become(r, AfterReceive(r, Head(content[InQueue(r)])))
  BY DEF Receive
<1>4. CASE r = "server"
  <2> DEFINE m == Head(content["cs"])
             b == [body[r] EXCEPT !.pc = "send", !.value = m]
  <2>0. m \in Requests
    BY <1>4 DEF Receive, InQueue, ExchangeTypeOK
  <2>2. Become(r, b)
    BY <1>2, <1>4 DEF AfterReceive, InQueue
  <2> HIDE DEF m
  <2>1. /\ b \in Body_t
        /\ b.pc = "send" /\ b.value = m
        /\ b.got = body[r].got /\ b.index = body[r].index
    BY <2>0 DEF ExchangeTypeOK, Body_t, BodyPcs
  <2> HIDE DEF b
  <2>3. /\ body' \in [Roles -> Body_t]
        /\ \A x \in Roles : x # r => body'[x] = body[x]
        /\ body'[r].pc = "send" /\ body'[r].value = m
        /\ body'[r].got = body[r].got /\ body'[r].index = body[r].index
    BY <2>1, <2>2, BodyBecomes
  <2> QED
    BY <1>4, <2>3 DEF m
<1>5. CASE r # "server"
  <2> DEFINE b == [body[r] EXCEPT !.pc = NextRound(r)]
  <2>1. /\ b \in Body_t
        /\ b.pc = NextRound(r) /\ b.value = body[r].value
        /\ b.got = body[r].got /\ b.index = body[r].index
    BY <1>1 DEF ExchangeTypeOK, Body_t, BodyPcs
  <2>2. Become(r, b)
    BY <1>2, <1>5 DEF AfterReceive
  <2> HIDE DEF b
  <2> QED
    BY <1>5, <2>1, <2>2, BodyBecomes
<1> QED
  BY <1>4, <1>5

LEMMA LookUpIndexEffect ==
    ASSUME ExchangeTypeOK, NEW r \in Roles, LookUpIndex(r)
    PROVE  /\ body' \in [Roles -> Body_t]
           /\ \A x \in Roles : x # r => body'[x] = body[x]
           /\ body'[r].pc = "enter" /\ body'[r].index = pair.index[r]
           /\ body'[r].got = body[r].got /\ body'[r].value = body[r].value
<1> DEFINE b == [body[r] EXCEPT !.pc = "enter", !.index = pair.index[r]]
<1>1. /\ b \in Body_t
      /\ b.pc = "enter" /\ b.index = pair.index[r]
      /\ b.got = body[r].got /\ b.value = body[r].value
  BY DEF ExchangeTypeOK, Body_t, BodyPcs, Pair_t
<1>2. Become(r, b)
  BY DEF LookUpIndex
<1> HIDE DEF b
<1> QED
  BY <1>1, <1>2, BodyBecomes

LEMMA EnterMonitorEffect ==
    ASSUME ExchangeTypeOK, NEW r \in Roles, EnterMonitor(r)
    PROVE  /\ body' \in [Roles -> Body_t]
           /\ \A x \in Roles : x # r => body'[x] = body[x]
           /\ body'[r].pc = "exit" /\ body'[r].index = body[r].index
           /\ body'[r].got = body[r].got /\ body'[r].value = body[r].value
<1> DEFINE b == [body[r] EXCEPT !.pc = "exit"]
<1>1. /\ b \in Body_t
      /\ b.pc = "exit" /\ b.index = body[r].index
      /\ b.got = body[r].got /\ b.value = body[r].value
  BY DEF ExchangeTypeOK, Body_t, BodyPcs
<1>2. Become(r, b)
  BY DEF EnterMonitor
<1> HIDE DEF b
<1> QED
  BY <1>1, <1>2, BodyBecomes

LEMMA ExitMonitorEffect ==
    ASSUME ExchangeTypeOK, NEW r \in Roles, ExitMonitor(r)
    PROVE  /\ body' \in [Roles -> Body_t]
           /\ \A x \in Roles : x # r => body'[x] = body[x]
           /\ body'[r].pc = IF r = "client" THEN "send" ELSE "receive"
           /\ body'[r].index = -1
           /\ body'[r].got = body[r].got /\ body'[r].value = body[r].value
<1> DEFINE pc == IF r = "client" THEN "send" ELSE "receive"
           b == [body[r] EXCEPT !.pc = pc, !.index = -1]
<1>0. pc \in BodyPcs
  BY DEF BodyPcs
<1>2. Become(r, b)
  BY DEF ExitMonitor, AfterReport
<1> HIDE DEF pc
<1>1. /\ b \in Body_t
      /\ b.pc = pc /\ b.index = -1
      /\ b.got = body[r].got /\ b.value = body[r].value
  BY <1>0 DEF ExchangeTypeOK, Body_t
<1> HIDE DEF b
<1>3. /\ body' \in [Roles -> Body_t]
      /\ \A x \in Roles : x # r => body'[x] = body[x]
      /\ body'[r].pc = pc /\ body'[r].index = -1
      /\ body'[r].got = body[r].got /\ body'[r].value = body[r].value
  BY <1>1, <1>2, BodyBecomes
<1> QED
  BY <1>3 DEF pc

\* A task that is deleted, by itself or by another, or created.
LEMMA NewBody ==
    ASSUME ExchangeTypeOK, NEW r \in Roles, NEW pc \in BodyPcs,
           Become(r, [NoBody EXCEPT !.pc = pc])
    PROVE  /\ body' \in [Roles -> Body_t]
           /\ \A x \in Roles : x # r => body'[x] = body[x]
           /\ body'[r].pc = pc /\ body'[r].got = {}
           /\ body'[r].value = 0 /\ body'[r].index = -1
<1> DEFINE b == [NoBody EXCEPT !.pc = pc]
<1>1. /\ b \in Body_t
      /\ b.pc = pc /\ b.got = {} /\ b.value = 0 /\ b.index = -1
  BY Initials DEF NoBody, Body_t
<1> HIDE DEF b
<1> QED
  BY <1>1, BodyBecomes DEF b

LEMMA DeleteEffect ==
    ASSUME ExchangeTypeOK, NEW r \in Roles, Delete(r)
    PROVE  /\ body' \in [Roles -> Body_t]
           /\ \A x \in Roles : x # r => body'[x] = body[x]
           /\ body'[r].pc = "none" /\ body'[r].got = {}
<1>1. [NoBody EXCEPT !.pc = "none"] = NoBody
  BY DEF NoBody
<1>2. "none" \in BodyPcs
  BY DEF BodyPcs
<1> QED
  BY <1>1, <1>2, NewBody DEF Delete

LEMMA DeleteSelfEffect ==
    ASSUME ExchangeTypeOK, NEW r \in Roles, DeleteSelf(r)
    PROVE  /\ body' \in [Roles -> Body_t]
           /\ \A x \in Roles : x # r => body'[x] = body[x]
           /\ body'[r].pc = "gone" /\ body'[r].got = {}
<1>1. "gone" \in BodyPcs
  BY DEF BodyPcs
<1> QED
  BY <1>1, NewBody DEF DeleteSelf

LEMMA SpawnEffect ==
    ASSUME ExchangeTypeOK, Spawn
    PROVE  /\ body' \in [Roles -> Body_t]
           /\ \A x \in Roles : x # app.role => body'[x] = body[x]
           /\ body'[app.role].pc \in {"rest", "readFirst"}
           /\ body'[app.role].got = {}
           /\ body'[app.role].value = 0 /\ body'[app.role].index = -1
<1>1. FirstPc \in {"rest", "readFirst"} /\ FirstPc \in BodyPcs
  BY DEF FirstPc, BodyPcs
<1>2. app.role \in Roles
  BY DEF ExchangeTypeOK, App_t
<1> QED
  BY <1>1, <1>2, NewBody DEF Spawn

-----------------------------------------------------------------------------
(* What teardown and the exchange do to records and queues.                *)

Modes == {"PAIR", "CLIENT_ONLY"}

\* A full teardown takes everything, a client-only one the client's part.
LEMMA TakeEffect ==
    ASSUME ExchangeTypeOK, NEW mode \in Modes, Take(mode)
    PROVE  /\ app.pc = "idle" /\ pair.in_use
           /\ app' \in App_t /\ pair' \in Pair_t
           /\ app'.pc = "dropClient"
           /\ pair'.in_use /\ pair'.queue_depth = pair.queue_depth
           /\ pair'.code = pair.code /\ pair'.app_type = pair.app_type
           /\ \/ /\ app'.full
                 /\ app'.got = [handles |-> pair.handles, queues |-> pair.queues,
                                entries |-> {r \in Roles : pair.index[r] >= 0}]
                 /\ pair'.handles = {} /\ pair'.queues = {}
                 /\ pair'.index = NoIndices
              \/ /\ ~app'.full
                 /\ app'.got = [handles |-> pair.handles \cap {"client"}, queues |-> {},
                                entries |-> {r \in {"client"} : pair.index[r] >= 0}]
                 /\ pair'.handles = pair.handles \ {"client"}
                 /\ pair'.queues = pair.queues
                 /\ pair'.index = [pair.index EXCEPT !["client"] = -1]
<1> DEFINE full == \/ mode = "PAIR"
                   \/ "server" \notin pair.handles /\ pair.index["server"] < 0
           roles == IF full THEN Roles ELSE {"client"}
           got == [handles |-> pair.handles \cap roles,
                   queues  |-> IF full THEN pair.queues ELSE {},
                   entries |-> {r \in roles : pair.index[r] >= 0}]
           index == [r \in Roles |-> IF r \in roles THEN -1 ELSE pair.index[r]]
<1>1. /\ app.pc = "idle" /\ pair.in_use
      /\ app' = [IdleApp EXCEPT !.pc = "dropClient", !.full = full, !.got = got]
      /\ pair' = [pair EXCEPT !.handles = pair.handles \ roles, !.index = index,
                              !.queues = IF full THEN {} ELSE pair.queues]
  BY DEF Take
<1>2. /\ full \in BOOLEAN /\ got \in Got_t
      /\ index \in [Roles -> {-1, 0, 1, 2}]
      /\ pair \in Pair_t /\ IdleApp \in App_t
  BY Initials DEF Roles, ExchangeTypeOK, Pair_t, Got_t
<1>3. /\ full => roles = Roles /\ index = NoIndices
      /\ ~full => roles = {"client"} /\ index = [pair.index EXCEPT !["client"] = -1]
  BY <1>2 DEF NoIndices, Pair_t, Roles
<1>6. /\ got.handles = pair.handles \cap roles
      /\ got.queues = IF full THEN pair.queues ELSE {}
      /\ got.entries = {r \in roles : pair.index[r] >= 0}
      /\ got = [handles |-> got.handles, queues |-> got.queues, entries |-> got.entries]
  OBVIOUS
<1>7. pair.handles \subseteq Roles
  BY <1>2 DEF Pair_t
<1> HIDE DEF full, got, index, roles
<1>4. /\ app' \in App_t /\ app'.pc = "dropClient" /\ app'.full = full /\ app'.got = got
  BY <1>1, <1>2 DEF App_t, DestroyPcs
<1>5. /\ pair' \in Pair_t
      /\ pair'.in_use = pair.in_use /\ pair'.queue_depth = pair.queue_depth
      /\ pair'.code = pair.code /\ pair'.app_type = pair.app_type
      /\ pair'.handles = pair.handles \ roles /\ pair'.index = index
      /\ pair'.queues = IF full THEN {} ELSE pair.queues
  BY <1>1, <1>2 DEF Pair_t
<1>8. CASE full
  <2>1. /\ pair'.handles = {} /\ pair'.queues = {} /\ pair'.index = NoIndices
        /\ got = [handles |-> pair.handles, queues |-> pair.queues,
                  entries |-> {r \in Roles : pair.index[r] >= 0}]
    BY <1>3, <1>5, <1>6, <1>7, <1>8
  <2> QED
    BY <1>1, <1>4, <1>5, <1>8, <2>1
<1>9. CASE ~full
  <2>1. /\ pair'.handles = pair.handles \ {"client"} /\ pair'.queues = pair.queues
        /\ pair'.index = [pair.index EXCEPT !["client"] = -1]
        /\ got = [handles |-> pair.handles \cap {"client"}, queues |-> {},
                  entries |-> {r \in {"client"} : pair.index[r] >= 0}]
    BY <1>3, <1>5, <1>6, <1>9
  <2> QED
    BY <1>1, <1>4, <1>5, <1>9, <2>1
<1> QED
  BY <1>2, <1>8, <1>9

LEMMA DropTaskEffect ==
    ASSUME ExchangeTypeOK, NEW r \in Roles, DropTask(r)
    PROVE  /\ app' \in App_t
           /\ app.pc = IF r = "server" THEN "dropServer" ELSE "dropClient"
           /\ app'.pc = IF r = "server" THEN "dropQueues"
                        ELSE IF app.full THEN "dropServer" ELSE "dropMonitor"
           /\ app'.full = app.full
           /\ app'.got.handles = app.got.handles \ {r}
           /\ app'.got.queues = app.got.queues /\ app'.got.entries = app.got.entries
<1> DEFINE pc == IF r = "server" THEN "dropQueues"
                 ELSE IF app.full THEN "dropServer" ELSE "dropMonitor"
           got == [app.got EXCEPT !.handles = app.got.handles \ {r}]
<1>1. app \in App_t /\ app.got \in Got_t
  BY DEF ExchangeTypeOK, App_t
<1>2. /\ got \in Got_t /\ got.handles = app.got.handles \ {r}
      /\ got.queues = app.got.queues /\ got.entries = app.got.entries
      /\ pc \in DestroyPcs
  BY <1>1 DEF Got_t, DestroyPcs
<1>3. app' = [app EXCEPT !.pc = pc, !.got = got]
  BY <1>1 DEF DropTask, App_t
<1> HIDE DEF pc, got
<1>4. app' \in App_t /\ app'.pc = pc /\ app'.full = app.full /\ app'.got = got
  BY <1>1, <1>2, <1>3 DEF App_t
<1> QED
  BY <1>2, <1>4 DEF pc, DropTask

LEMMA EmptyIsTyped ==
    /\ <<>> \in Seq(Messages) /\ <<>> \in Seq(Requests)
  OBVIOUS

LEMMA RequestsAreMessages == Requests \subseteq Messages
  BY ExchangeAssumption DEF Requests, Messages

LEMMA QueuesEmptied ==
    ASSUME ExchangeTypeOK, NEW qs, DeleteQueues(qs)
    PROVE  /\ content' \in [Queues -> Seq(Messages)] /\ content'["cs"] \in Seq(Requests)
           /\ \A q \in Queues : content'[q] = <<>> \/ (q \notin qs /\ content'[q] = content[q])
<1>1. "cs" \in Queues
  BY DEF Queues
<1> QED
  BY <1>1, EmptyIsTyped DEF DeleteQueues, ExchangeTypeOK

LEMMA SendContent ==
    ASSUME ExchangeTypeOK, NEW r \in Roles, Send(r)
    PROVE  /\ content' \in [Queues -> Seq(Messages)] /\ content'["cs"] \in Seq(Requests)
           /\ content'[InQueue(r)] = content[InQueue(r)]
           /\ HasRoom(OutQueue(r)) =>
                 content'[OutQueue(r)] = Append(content[OutQueue(r)], Outgoing(r))
           /\ ~HasRoom(OutQueue(r)) => content' = content
<1>1. OutQueue(r) \in Queues /\ InQueue(r) \in Queues /\ InQueue(r) # OutQueue(r)
  BY DEF OutQueue, InQueue, Queues
<1>2. r = "client" => Outgoing(r) \in Requests
  BY ExchangeAssumption DEF Outgoing, Requests, ExchangeTypeOK, Body_t
<1>3. Outgoing(r) \in Messages
  <2>1. CASE r = "client"
    BY <1>2, <2>1, RequestsAreMessages
  <2>2. CASE r # "client"
    <3>1. body[r].value \in Requests
      BY DEF ExchangeTypeOK, Body_t
    <3> QED
      BY <2>2, <3>1, ExchangeAssumption DEF Outgoing, Answer, Requests, Messages
  <2> QED
    BY <2>1, <2>2
<1>4. /\ content \in [Queues -> Seq(Messages)] /\ content["cs"] \in Seq(Requests)
      /\ content' = [content EXCEPT ![OutQueue(r)] =
             IF HasRoom(OutQueue(r)) THEN Append(content[OutQueue(r)], Outgoing(r))
             ELSE content[OutQueue(r)]]
  BY <1>1 DEF Send, ExchangeTypeOK
<1>5. CASE HasRoom(OutQueue(r))
  <2> DEFINE m == Append(content[OutQueue(r)], Outgoing(r))
  <2>1. content[OutQueue(r)] \in Seq(Messages)
    BY <1>1, <1>4
  <2>2. m \in Seq(Messages)
    BY <1>3, <2>1
  <2>3. r = "client" => OutQueue(r) = "cs" /\ m \in Seq(Requests)
    BY <1>2, <1>4 DEF OutQueue
  <2>4. r # "client" => OutQueue(r) # "cs"
    BY DEF OutQueue
  <2>5. content' = [content EXCEPT ![OutQueue(r)] = m]
    BY <1>4, <1>5
  <2> HIDE DEF m
  <2>6. content' \in [Queues -> Seq(Messages)] /\ content'["cs"] \in Seq(Requests)
    BY <1>1, <1>4, <2>2, <2>3, <2>4, <2>5
  <2>7. content'[InQueue(r)] = content[InQueue(r)] /\ content'[OutQueue(r)] = m
    BY <1>1, <1>4, <2>5
  <2> QED
    BY <1>5, <2>6, <2>7 DEF m
<1>6. CASE ~HasRoom(OutQueue(r))
  <2>1. content' = content
    BY <1>1, <1>4, <1>6
  <2> QED
    BY <1>4, <1>6, <2>1
<1> QED
  BY <1>5, <1>6

LEMMA ReceiveContent ==
    ASSUME ExchangeTypeOK, NEW r \in Roles, Receive(r)
    PROVE  /\ content' \in [Queues -> Seq(Messages)] /\ content'["cs"] \in Seq(Requests)
           /\ content'[InQueue(r)] = Tail(content[InQueue(r)])
           /\ content[InQueue(r)] # <<>>
           /\ content'[OutQueue(r)] = content[OutQueue(r)]
<1>1. OutQueue(r) \in Queues /\ InQueue(r) \in Queues /\ InQueue(r) # OutQueue(r)
  BY DEF OutQueue, InQueue, Queues
<1>2. /\ content \in [Queues -> Seq(Messages)] /\ content["cs"] \in Seq(Requests)
      /\ content[InQueue(r)] # <<>>
      /\ content' = [content EXCEPT ![InQueue(r)] = Tail(content[InQueue(r)])]
  BY <1>1 DEF Receive, ExchangeTypeOK
<1>3. Tail(content[InQueue(r)]) \in Seq(Messages)
  BY <1>1, <1>2
<1>4. InQueue(r) = "cs" => Tail(content[InQueue(r)]) \in Seq(Requests)
  BY <1>2
<1> HIDE DEF InQueue, OutQueue
<1> QED
  BY <1>1, <1>2, <1>3, <1>4

LEMMA FailureTyped ==
    /\ \A pc : FailureAt(pc) \in Failures
    /\ TaskFailure \in Failures
  BY DEF FailureAt, TaskFailure, Failures


-----------------------------------------------------------------------------
(* What the steps of a call do to its locals and to the record, a field at *)
(* a time.                                                                 *)

LEMMA Blank ==
    /\ IdleApp.pc = "idle" /\ IdleApp.role = "client" /\ IdleApp.got = NothingGot
    /\ NothingGot.handles = {} /\ NothingGot.queues = {} /\ NothingGot.entries = {}
    /\ ~FreePair.in_use /\ FreePair.handles = {} /\ FreePair.queues = {}
  BY DEF IdleApp, NothingGot, FreePair

LEMMA GotoEffect ==
    ASSUME ExchangeTypeOK, NEW pc, Goto(pc)
    PROVE  app'.pc = pc /\ app'.role = app.role /\ app'.full = app.full /\ app'.got = app.got
  BY DEF ExchangeTypeOK, App_t, Goto

LEMMA CreateQueueEffect ==
    ASSUME ExchangeTypeOK, NEW q \in Queues, CreateQueue(q)
    PROVE  /\ app.pc = q
           /\ app'.pc = IF q = "cs" THEN "sc" ELSE "spawn"
           /\ app'.role = app.role /\ app'.full = app.full /\ app'.got = app.got
           /\ pair'.in_use = pair.in_use /\ pair'.handles = pair.handles
           /\ pair'.index = pair.index /\ pair'.code = pair.code
           /\ pair'.queue_depth = pair.queue_depth
           /\ pair'.app_type = pair.app_type
           /\ pair'.queues = pair.queues \cup {q}
           /\ exists' = exists \cup {q}
           /\ content'[q] = <<>>
           /\ \A x \in Queues : x # q => content'[x] = content[x]
           /\ UNCHANGED <<spec, creation, body, holder, monitor>>
<1>1. /\ app.pc = q
      /\ app'.pc = IF q = "cs" THEN "sc" ELSE "spawn"
      /\ app'.role = app.role /\ app'.full = app.full /\ app'.got = app.got
  BY GotoEffect DEF CreateQueue
<1>2. /\ pair'.in_use = pair.in_use /\ pair'.handles = pair.handles
      /\ pair'.index = pair.index /\ pair'.code = pair.code
      /\ pair'.queue_depth = pair.queue_depth
      /\ pair'.app_type = pair.app_type
      /\ pair'.queues = pair.queues \cup {q}
  BY DEF CreateQueue, ExchangeTypeOK, Pair_t
<1>3. /\ exists' = exists \cup {q}
      /\ UNCHANGED <<spec, creation, body, holder, monitor>>
  BY DEF CreateQueue
<1>4. /\ content'[q] = <<>>
      /\ \A x \in Queues : x # q => content'[x] = content[x]
  BY DEF CreateQueue, ExchangeTypeOK
<1> QED
  BY <1>1, <1>2, <1>3, <1>4

LEMMA RecordTaskEffect ==
    ASSUME ExchangeTypeOK, RecordTask
    PROVE  /\ app.pc = "record" /\ app.role \in Roles
           /\ app'.role = app.role /\ app'.full = app.full /\ app'.got = app.got
           /\ pair'.in_use = pair.in_use /\ pair'.queues = pair.queues
           /\ pair'.index = pair.index /\ pair'.code = pair.code
           /\ pair'.queue_depth = pair.queue_depth
           /\ pair'.app_type = pair.app_type
           /\ \/ /\ app'.pc = "index"
                 /\ pair'.handles = pair.handles \cup {app.role}
                 /\ monitor' = monitor \cup {app.role}
              \/ app'.pc = "lose" /\ UNCHANGED <<pair, monitor>>
           /\ UNCHANGED <<spec, creation, exists, content, body, holder>>
<1>1. app.pc = "record" /\ app.role \in Roles
  BY DEF RecordTask, ExchangeTypeOK, App_t
<1>2. UNCHANGED <<spec, creation, exists, content, body, holder>>
  BY DEF RecordTask, kernelVars
<1>3. CASE Goto("lose") /\ UNCHANGED <<monitor, pair>>
  BY <1>1, <1>2, <1>3, GotoEffect
<1>4. CASE /\ Goto("index")
           /\ monitor' = monitor \cup {app.role}
           /\ pair' = [pair EXCEPT !.handles = pair.handles \cup {app.role}]
  <2>1. /\ pair'.in_use = pair.in_use /\ pair'.queues = pair.queues
        /\ pair'.index = pair.index /\ pair'.code = pair.code
        /\ pair'.queue_depth = pair.queue_depth
        /\ pair'.app_type = pair.app_type
        /\ pair'.handles = pair.handles \cup {app.role}
    BY <1>4 DEF ExchangeTypeOK, Pair_t
  <2> QED
    BY <1>1, <1>2, <1>4, <2>1, GotoEffect
<1> QED
  BY <1>3, <1>4 DEF RecordTask

LEMMA StoreIndexEffect ==
    ASSUME ExchangeTypeOK, StoreIndex
    PROVE  /\ app.pc = "index" /\ app.role \in Roles
           /\ app'.pc = "link"
           /\ app'.role = app.role /\ app'.full = app.full /\ app'.got = app.got
           /\ pair'.in_use = pair.in_use /\ pair'.queues = pair.queues
           /\ pair'.handles = pair.handles /\ pair'.code = pair.code
           /\ pair'.queue_depth = pair.queue_depth
           /\ pair'.app_type = pair.app_type
           /\ pair'.index[app.role] = OwnIndex(app.role)
           /\ \A x \in Roles : x # app.role => pair'.index[x] = pair.index[x]
           /\ UNCHANGED <<spec, creation, exists, content, body, holder, monitor>>
<1>1. /\ app.pc = "index" /\ app.role \in Roles /\ app'.pc = "link"
      /\ app'.role = app.role /\ app'.full = app.full /\ app'.got = app.got
  BY GotoEffect DEF StoreIndex, ExchangeTypeOK, App_t
<1>2. UNCHANGED <<spec, creation, exists, content, body, holder, monitor>>
  BY DEF StoreIndex, kernelVars
<1>3. /\ pair'.in_use = pair.in_use /\ pair'.queues = pair.queues
      /\ pair'.handles = pair.handles /\ pair'.code = pair.code
      /\ pair'.queue_depth = pair.queue_depth
      /\ pair'.app_type = pair.app_type
      /\ pair'.index = [pair.index EXCEPT ![app.role] = OwnIndex(app.role)]
  BY DEF StoreIndex, ExchangeTypeOK, Pair_t
<1>4. pair.index \in [Roles -> {-1, 0, 1, 2}]
  BY DEF ExchangeTypeOK, Pair_t
<1> QED
  BY <1>1, <1>2, <1>3, <1>4

LEMMA UndoTaskEffect ==
    ASSUME ExchangeTypeOK, NEW r \in Roles, UndoTask(r)
    PROVE  /\ app.pc = IF r = "server" THEN "undoServer" ELSE "undoClient"
           /\ app'.pc = IF r = "server" THEN "undoClient" ELSE "undoQueues"
           /\ app'.role = app.role /\ app'.full = app.full /\ app'.got = app.got
           /\ pair'.in_use = pair.in_use /\ pair'.queues = pair.queues
           /\ pair'.index = pair.index /\ pair'.code = pair.code
           /\ pair'.queue_depth = pair.queue_depth
           /\ pair'.app_type = pair.app_type
           /\ pair'.handles = pair.handles \ {r}
           /\ UNCHANGED <<spec, creation, exists, content, holder, monitor>>
<1>1. /\ app.pc = IF r = "server" THEN "undoServer" ELSE "undoClient"
      /\ app'.pc = IF r = "server" THEN "undoClient" ELSE "undoQueues"
      /\ app'.role = app.role /\ app'.full = app.full /\ app'.got = app.got
  BY GotoEffect DEF UndoTask
<1>2. UNCHANGED <<spec, creation, exists, content, holder, monitor>>
  BY DEF UndoTask
<1>3. /\ pair'.in_use = pair.in_use /\ pair'.queues = pair.queues
      /\ pair'.index = pair.index /\ pair'.code = pair.code
      /\ pair'.queue_depth = pair.queue_depth
      /\ pair'.app_type = pair.app_type
      /\ pair'.handles = pair.handles \ {r}
  BY DEF UndoTask, ExchangeTypeOK, Pair_t
<1> QED
  BY <1>1, <1>2, <1>3

LEMMA UndoQueuesEffect ==
    ASSUME ExchangeTypeOK, UndoQueues
    PROVE  /\ app.pc = "undoQueues" /\ app'.pc = "undoMonitor"
           /\ app'.role = app.role /\ app'.full = app.full /\ app'.got = app.got
           /\ pair'.in_use = pair.in_use /\ pair'.handles = pair.handles
           /\ pair'.index = pair.index /\ pair'.code = pair.code
           /\ pair'.queue_depth = pair.queue_depth
           /\ pair'.app_type = pair.app_type
           /\ pair'.queues = {}
           /\ exists' = exists \ pair.queues
           /\ UNCHANGED <<spec, creation, body, holder, monitor>>
<1>1. /\ app.pc = "undoQueues" /\ app'.pc = "undoMonitor"
      /\ app'.role = app.role /\ app'.full = app.full /\ app'.got = app.got
  BY GotoEffect DEF UndoQueues
<1>2. exists' = exists \ pair.queues /\ UNCHANGED <<spec, creation, body, holder, monitor>>
  BY DEF UndoQueues, DeleteQueues
<1>3. /\ pair'.in_use = pair.in_use /\ pair'.handles = pair.handles
      /\ pair'.index = pair.index /\ pair'.code = pair.code
      /\ pair'.queue_depth = pair.queue_depth
      /\ pair'.app_type = pair.app_type
      /\ pair'.queues = {}
  BY DEF UndoQueues, ExchangeTypeOK, Pair_t
<1> QED
  BY <1>1, <1>2, <1>3


\* Whatever the application fills is a specification.
LEMMA CommonTyped ==
    ASSUME NEW type \in {"LOCAL", "ENRICHED"}, NEW name \in Name_t,
           NEW client \in Codes, NEW server \in Codes,
           NEW cs \in Nat, NEW ss \in Nat, NEW period \in Nat,
           NEW p, p.queue_depth \in Nat, p.message_size \in Nat
    PROVE  InitCommon(type, name, client, server, cs, ss, period, p) \in Spec_t
  BY DEF InitCommon, Defaults, Spec_t, HostLabels

LEMMA ArgumentsTyped ==
    /\ TaskNames \subseteq Name_t /\ Stacks \subseteq Nat /\ Periods \subseteq Nat
    /\ Bodies \cup {"NULL"} \subseteq Codes
    /\ \A p \in PairSpecs \cup {DefaultPair} :
          p.queue_depth \in Nat /\ p.message_size \in Nat
<1>1. Bodies \cup {"NULL"} \subseteq Codes
  BY SpecAssumption DEF Codes
<1>2. ASSUME NEW p \in PairSpecs
      PROVE  p.queue_depth \in Nat /\ p.message_size \in Nat
  <2>1. p.queue_depth \in Depths /\ p.message_size \in {0, 4}
    BY DEF PairSpecs
  <2>2. Depths \subseteq Nat
    BY SpecAssumption
  <2>3. p.message_size \in Nat
    BY <2>1
  <2> QED
    BY <2>1, <2>2, <2>3
<1>3. DefaultPair.queue_depth \in Nat /\ DefaultPair.message_size \in Nat
  BY DEF DefaultPair
<1> QED
  BY <1>1, <1>2, <1>3, SpecAssumption

LEMMA FieldsTyped ==
    ASSUME NEW s \in Spec_t, NEW deadline \in Nat, NEW label \in HostLabels
    PROVE  /\ [s EXCEPT !.deadline_ms = deadline, !.local_host_label = label] \in Spec_t
           /\ [s EXCEPT !.deadline_ms = deadline] \in Spec_t
           /\ [s EXCEPT !.local_host_label = label] \in Spec_t
  BY DEF Spec_t

LEMMA ExamplesTyped == \A e \in Examples : ExampleSpec(e) \in Spec_t
<1>0. \A length \in Nat : PlainName(length) \in Name_t
  BY DEF PlainName, Name_t
<1>1. \A b \in AllBodies : \A name \in Name_t :
          Enriched(name, b, b, 2048, 2048, 1000, DefaultPair) \in Spec_t
  BY CommonTyped, ArgumentsTyped DEF Enriched, Codes
<1>2. AdvancedSpec \in Spec_t
  <2> DEFINE s == Enriched(PlainName(12), "advanced", "advanced", 2048, 2048, 1000, DefaultPair)
  <2>1. s \in Spec_t
    BY <1>0, <1>1 DEF AllBodies
  <2>2. AdvancedSpec = [s EXCEPT !.deadline_ms = 1200]
    BY DEF AdvancedSpec
  <2> HIDE DEF s
  <2> QED
    BY <2>1, <2>2 DEF Spec_t
<1>3. /\ HappySpec \in Spec_t /\ HelloSpec \in Spec_t
      /\ SensorSpec \in Spec_t /\ RuntimeApiSpec \in Spec_t
  BY <1>0, <1>1 DEF HappySpec, HelloSpec, SensorSpec, RuntimeApiSpec, AllBodies
<1> QED
  BY <1>2, <1>3, SpecAssumption DEF ExampleSpec

LEMMA FillTyped ==
    ASSUME spec \in Spec_t \cup {NoSpec}, FillSpec
    PROVE  spec' \in Spec_t /\ creation' = creation
<1>1. CASE FillFields
  <2>1. PICK name \in TaskNames, b \in Bodies, s \in Stacks, p \in PairSpecs,
             label \in HostLabels, period \in Periods, deadline \in Periods :
          Fill([Enriched(name, b, b, s, s, period, p) EXCEPT
                   !.deadline_ms = deadline, !.local_host_label = label])
    BY <1>1 DEF FillFields
  <2>2. Enriched(name, b, b, s, s, period, p) \in Spec_t
    BY ArgumentsTyped, CommonTyped DEF Enriched
  <2>3. [Enriched(name, b, b, s, s, period, p) EXCEPT
             !.deadline_ms = deadline, !.local_host_label = label] \in Spec_t
    BY <2>2, FieldsTyped, ArgumentsTyped
  <2> QED
    BY <2>1, <2>3 DEF Fill
<1>2. CASE FillEnriched
  <2>1. PICK name \in TaskNames, client \in Bodies \cup {"NULL"},
             cs \in Stacks, ss \in Stacks, period \in Periods, p \in PairSpecs :
          \E server \in {client, "NULL"} :
              Fill(Enriched(name, client, server, cs, ss, period, p))
    BY <1>2 DEF FillEnriched
  <2>2. PICK server \in {client, "NULL"} :
              Fill(Enriched(name, client, server, cs, ss, period, p))
    BY <2>1
  <2>3. Enriched(name, client, server, cs, ss, period, p) \in Spec_t
    BY ArgumentsTyped, CommonTyped DEF Enriched, Codes
  <2> QED
    BY <2>2, <2>3 DEF Fill
<1>3. CASE FillLocal
  <2>1. PICK name \in TaskNames, code \in Bodies \cup {"NULL"}, s \in Stacks,
             period \in Periods, p \in PairSpecs :
          Fill(Local(name, code, s, period, p))
    BY <1>3 DEF FillLocal
  <2>2. Local(name, code, s, period, p) \in Spec_t
    BY ArgumentsTyped, CommonTyped DEF Local
  <2> QED
    BY <2>1, <2>2 DEF Fill
<1>4. CASE FillFromExample
  BY <1>4, ExamplesTyped DEF FillFromExample, Fill
<1>5. CASE SetDeadline
  <2>1. PICK deadline \in Periods : spec' = [spec EXCEPT !.deadline_ms = deadline]
    BY <1>5 DEF SetDeadline
  <2>2. spec \in Spec_t /\ "NULL" \in HostLabels
    BY <1>5 DEF SetDeadline, HostLabels
  <2> QED
    BY <1>5, <2>1, <2>2, FieldsTyped, ArgumentsTyped DEF SetDeadline
<1>6. CASE SetLocalHostLabel
  <2>1. PICK label \in HostLabels :
           spec' = [spec EXCEPT !.local_host_label =
                       IF label = "NULL" THEN "LOCAL_RUNTIME" ELSE label]
    BY <1>6 DEF SetLocalHostLabel
  <2>2. (IF label = "NULL" THEN "LOCAL_RUNTIME" ELSE label) \in HostLabels
    BY DEF HostLabels
  <2> QED
    BY <1>6, <2>1, <2>2, FieldsTyped DEF SetLocalHostLabel
<1> QED
  BY <1>1, <1>2, <1>3, <1>4, <1>5, <1>6 DEF FillSpec


-----------------------------------------------------------------------------
(* Types, a variable at a time.                                            *)

\* The locals of a call.
LEMMA AppTyped ==
    ASSUME ExchangeInv, [ExchangeNext]_exchangeVars
    PROVE  (app \in App_t)'
<1>1. CASE Reserve
  <2>1. [IdleApp EXCEPT !.pc = "cs"] \in App_t
    BY Initials DEF App_t, CreatePcs
  <2> QED
    BY <1>1, <2>1, ReserveEffect DEF ExchangeInv, ExchangeTypeOK
<1>2. ASSUME NEW q \in Queues, CreateQueue(q) PROVE (app \in App_t)'
  BY <1>2 DEF CreateQueue, Goto, ExchangeInv, ExchangeTypeOK, App_t,
       CreatePcs, RollbackPcs, DestroyPcs
<1>3. CASE StepFails
  BY <1>3 DEF StepFails, Goto, ExchangeInv, ExchangeTypeOK, App_t, CreatePcs,
       RollbackPcs, DestroyPcs
<1>4. CASE Spawn
  BY <1>4 DEF Spawn, Goto, NoBody, ExchangeInv, ExchangeTypeOK, App_t,
       CreatePcs, RollbackPcs, DestroyPcs
<1>5. CASE RecordTask
  BY <1>5 DEF RecordTask, Goto, ExchangeInv, ExchangeTypeOK, App_t,
       CreatePcs, RollbackPcs, DestroyPcs
<1>6. CASE LoseEntry
  BY <1>6 DEF LoseEntry, Goto, Delete, NoBody, ExchangeInv, ExchangeTypeOK,
       App_t, CreatePcs, RollbackPcs, DestroyPcs
<1>7. CASE StoreIndex
  BY <1>7 DEF StoreIndex, Goto, ExchangeInv, ExchangeTypeOK, App_t,
       CreatePcs, RollbackPcs, DestroyPcs
<1>8. CASE LinkEntries
  <2>1. [pc |-> "spawn", role |-> "server", full |-> app.full,
         got |-> app.got] \in App_t
    BY DEF ExchangeInv, ExchangeTypeOK, App_t, CreatePcs, Roles
  <2> QED
    BY <1>8, <2>1, LinkEntriesEffect, Initials DEF ExchangeInv
<1>9. ASSUME NEW r \in Roles, UndoTask(r) PROVE (app \in App_t)'
  BY <1>9 DEF UndoTask, Goto, Delete, NoBody, ExchangeInv, ExchangeTypeOK,
       App_t, CreatePcs, RollbackPcs, DestroyPcs
<1>10. CASE UndoQueues
  BY <1>10 DEF UndoQueues, Goto, DeleteQueues, ExchangeInv, ExchangeTypeOK,
       App_t, CreatePcs, RollbackPcs, DestroyPcs
<1>11. CASE UndoMonitor
  BY <1>11, Initials DEF UndoMonitor
<1>12. CASE Take("PAIR")
  BY <1>12, TakeEffect DEF ExchangeInv, Modes
<1>13. CASE Take("CLIENT_ONLY")
  BY <1>13, TakeEffect DEF ExchangeInv, Modes
<1>14. ASSUME NEW r \in Roles, DropTask(r) PROVE (app \in App_t)'
  BY <1>14, DropTaskEffect DEF ExchangeInv
<1>15. CASE DropQueues
  BY <1>15 DEF DropQueues, Goto, DeleteQueues, ExchangeInv, ExchangeTypeOK,
       App_t, CreatePcs, RollbackPcs, DestroyPcs
<1>16. CASE DropMonitor
  BY <1>16, Initials DEF DropMonitor
<1>17. ASSUME FillTheSpec \/ Refuse \/ (\E r \in Roles : ReadFirst(r))
     \/ (\E r \in Roles : ReadSecond(r))
     \/ (\E r \in Roles : DeleteSelf(r)) \/ (\E r \in Roles : Send(r))
     \/ (\E r \in Roles : Receive(r)) \/ (\E r \in Roles : LookUpIndex(r))
     \/ (\E r \in Roles : EnterMonitor(r)) \/ (\E r \in Roles : ExitMonitor(r))
      PROVE  UNCHANGED <<app>>
  BY <1>17 DEF FillTheSpec, Refuse, ReadFirst, ReadSecond, DeleteSelf, Send,
       Receive, LookUpIndex, EnterMonitor, ExitMonitor, kernelVars
<1>18. CASE UNCHANGED <<app>>
  BY <1>18 DEF ExchangeInv, ExchangeTypeOK, App_t, CreatePcs, RollbackPcs,
       DestroyPcs
<1> QED
  BY <1>1, <1>2, <1>3, <1>4, <1>5, <1>6, <1>7, <1>8, <1>9, <1>10, <1>11,
       <1>12, <1>13, <1>14, <1>15, <1>16, <1>17, <1>18
     DEF ExchangeNext, AppStep, AppContinue, BodyStep, exchangeVars

\* The runtime record.
LEMMA PairTyped ==
    ASSUME ExchangeInv, [ExchangeNext]_exchangeVars
    PROVE  (pair \in Pair_t)'
<1>1. CASE Reserve
  BY <1>1, ReserveEffect DEF ExchangeInv, ExchangeTypeOK
<1>2. ASSUME NEW q \in Queues, CreateQueue(q) PROVE (pair \in Pair_t)'
  BY <1>2 DEF CreateQueue, Goto, ExchangeInv, ExchangeTypeOK, Pair_t
<1>3. CASE RecordTask
  <2>1. app.role \in Roles
    BY DEF ExchangeInv, ExchangeTypeOK, App_t
  <2>2. [pair EXCEPT !.handles = pair.handles \cup {app.role}] \in Pair_t
    BY <2>1 DEF ExchangeInv, ExchangeTypeOK, Pair_t
  <2> QED
    BY <1>3, <2>2 DEF RecordTask, ExchangeInv, ExchangeTypeOK
<1>4. CASE StoreIndex
  <2>1. app.role \in Roles /\ OwnIndex(app.role) \in {-1, 0, 1, 2}
    BY DEF ExchangeInv, ExchangeTypeOK, App_t, OwnIndex
  <2> QED
    BY <1>4, <2>1 DEF StoreIndex, ExchangeInv, ExchangeTypeOK, Pair_t
<1>5. ASSUME NEW r \in Roles, UndoTask(r) PROVE (pair \in Pair_t)'
  BY <1>5 DEF UndoTask, Goto, Delete, NoBody, ExchangeInv, ExchangeTypeOK,
       Pair_t
<1>6. CASE UndoQueues
  BY <1>6 DEF UndoQueues, Goto, DeleteQueues, ExchangeInv, ExchangeTypeOK,
       Pair_t
<1>7. CASE UndoMonitor
  BY <1>7, Initials DEF UndoMonitor
<1>8. CASE Take("PAIR")
  BY <1>8, TakeEffect DEF ExchangeInv, Modes
<1>9. CASE Take("CLIENT_ONLY")
  BY <1>9, TakeEffect DEF ExchangeInv, Modes
<1>10. CASE DropMonitor
  BY <1>10, Initials DEF DropMonitor, ExchangeInv, ExchangeTypeOK
<1>11. ASSUME FillTheSpec \/ Refuse \/ StepFails \/ Spawn \/ LoseEntry
     \/ LinkEntries \/ DropQueues \/ (\E r \in Roles : DropTask(r))
     \/ (\E r \in Roles : ReadFirst(r))
     \/ (\E r \in Roles : ReadSecond(r))
     \/ (\E r \in Roles : DeleteSelf(r)) \/ (\E r \in Roles : Send(r))
     \/ (\E r \in Roles : Receive(r)) \/ (\E r \in Roles : LookUpIndex(r))
     \/ (\E r \in Roles : EnterMonitor(r)) \/ (\E r \in Roles : ExitMonitor(r))
      PROVE  UNCHANGED <<pair>>
  BY <1>11 DEF FillTheSpec, Refuse, StepFails, Spawn, LoseEntry, LinkEntries,
       DropTask, DropQueues, ReadFirst, ReadSecond, DeleteSelf, Send,
       Receive, LookUpIndex, EnterMonitor, ExitMonitor, kernelVars
<1>12. CASE UNCHANGED <<pair>>
  BY <1>12 DEF ExchangeInv, ExchangeTypeOK, Pair_t
<1> QED
  BY <1>1, <1>2, <1>3, <1>4, <1>5, <1>6, <1>7, <1>8, <1>9, <1>10, <1>11, <1>12
     DEF ExchangeNext, AppStep, AppContinue, BodyStep, exchangeVars

\* The tasks.
LEMMA BodyTyped ==
    ASSUME ExchangeInv, [ExchangeNext]_exchangeVars
    PROVE  (body \in [Roles -> Body_t])'
<1>1. CASE Spawn
  BY <1>1, SpawnEffect DEF ExchangeInv
<1>2. CASE LoseEntry
  BY <1>2, DeleteEffect DEF LoseEntry, ExchangeInv, ExchangeTypeOK, App_t
<1>3. ASSUME NEW r \in Roles, UndoTask(r) PROVE (body \in [Roles -> Body_t])'
  BY <1>3, DeleteEffect DEF UndoTask, ExchangeInv, ExchangeTypeOK
<1>4. ASSUME NEW r \in Roles, DropTask(r) PROVE (body \in [Roles -> Body_t])'
  BY <1>4, DeleteEffect DEF DropTask, ExchangeInv, ExchangeTypeOK
<1>5. ASSUME NEW r \in Roles, ReadFirst(r) PROVE (body \in [Roles -> Body_t])'
  BY <1>5, ReadFirstEffect DEF ExchangeInv
<1>6. ASSUME NEW r \in Roles, ReadSecond(r) PROVE (body \in [Roles -> Body_t])'
  BY <1>6, ReadSecondEffect DEF ExchangeInv
<1>7. ASSUME NEW r \in Roles, DeleteSelf(r) PROVE (body \in [Roles -> Body_t])'
  BY <1>7, DeleteSelfEffect DEF ExchangeInv
<1>8. ASSUME NEW r \in Roles, Send(r) PROVE (body \in [Roles -> Body_t])'
  BY <1>8, SendEffect DEF ExchangeInv
<1>9. ASSUME NEW r \in Roles, Receive(r) PROVE (body \in [Roles -> Body_t])'
  BY <1>9, ReceiveEffect DEF ExchangeInv
<1>10. ASSUME NEW r \in Roles,
     LookUpIndex(r) PROVE (body \in [Roles -> Body_t])'
  BY <1>10, LookUpIndexEffect DEF ExchangeInv
<1>11. ASSUME NEW r \in Roles,
     EnterMonitor(r) PROVE (body \in [Roles -> Body_t])'
  BY <1>11, EnterMonitorEffect DEF ExchangeInv
<1>12. ASSUME NEW r \in Roles,
     ExitMonitor(r) PROVE (body \in [Roles -> Body_t])'
  BY <1>12, ExitMonitorEffect DEF ExchangeInv
<1>13. ASSUME FillTheSpec \/ Refuse \/ Reserve \/ StepFails \/ RecordTask
     \/ StoreIndex \/ LinkEntries \/ UndoQueues \/ UndoMonitor
     \/ Take("PAIR") \/ Take("CLIENT_ONLY") \/ DropQueues \/ DropMonitor
     \/ (\E q \in Queues : CreateQueue(q))
      PROVE  UNCHANGED <<body>>
  BY <1>13 DEF FillTheSpec, Refuse, Reserve, CreateQueue, StepFails,
       RecordTask, StoreIndex, LinkEntries, UndoQueues, UndoMonitor, Take,
       DropQueues, DropMonitor, kernelVars
<1>14. CASE UNCHANGED <<body>>
  BY <1>14 DEF ExchangeInv, ExchangeTypeOK
<1> QED
  BY <1>1, <1>2, <1>3, <1>4, <1>5, <1>6, <1>7, <1>8, <1>9, <1>10, <1>11,
       <1>12, <1>13, <1>14
     DEF ExchangeNext, AppStep, AppContinue, BodyStep, exchangeVars

\* The messages.
LEMMA ContentTyped ==
    ASSUME ExchangeInv, [ExchangeNext]_exchangeVars
    PROVE  (content \in [Queues -> Seq(Messages)] /\ content["cs"] \in Seq(Requests))'
<1>1. ASSUME NEW q \in Queues,
     CreateQueue(q) PROVE (content \in [Queues -> Seq(Messages)] /\ content["cs"] \in Seq(Requests))'
  BY <1>1, EmptyIsTyped DEF CreateQueue, ExchangeInv, ExchangeTypeOK
<1>2. CASE UndoQueues
  BY <1>2, QueuesEmptied DEF UndoQueues, ExchangeInv, ExchangeTypeOK
<1>3. CASE DropQueues
  BY <1>3, QueuesEmptied DEF DropQueues, ExchangeInv, ExchangeTypeOK
<1>4. ASSUME NEW r \in Roles,
     Send(r) PROVE (content \in [Queues -> Seq(Messages)] /\ content["cs"] \in Seq(Requests))'
  BY <1>4, SendContent DEF ExchangeInv
<1>5. ASSUME NEW r \in Roles,
     Receive(r) PROVE (content \in [Queues -> Seq(Messages)] /\ content["cs"] \in Seq(Requests))'
  BY <1>5, ReceiveContent DEF ExchangeInv
<1>6. ASSUME FillTheSpec \/ Refuse \/ Reserve \/ StepFails \/ Spawn
     \/ RecordTask \/ LoseEntry \/ StoreIndex \/ LinkEntries
     \/ UndoMonitor \/ Take("PAIR") \/ Take("CLIENT_ONLY") \/ DropMonitor
     \/ (\E r \in Roles : UndoTask(r)) \/ (\E r \in Roles : DropTask(r))
     \/ (\E r \in Roles : ReadFirst(r))
     \/ (\E r \in Roles : ReadSecond(r))
     \/ (\E r \in Roles : DeleteSelf(r))
     \/ (\E r \in Roles : LookUpIndex(r))
     \/ (\E r \in Roles : EnterMonitor(r)) \/ (\E r \in Roles : ExitMonitor(r))
      PROVE  UNCHANGED <<content>>
  BY <1>6 DEF FillTheSpec, Refuse, Reserve, StepFails, Spawn, RecordTask,
       LoseEntry, StoreIndex, LinkEntries, UndoTask, UndoMonitor, Take,
       DropTask, DropMonitor, ReadFirst, ReadSecond, DeleteSelf, LookUpIndex,
       EnterMonitor, ExitMonitor, kernelVars
<1>7. CASE UNCHANGED <<content>>
  BY <1>7 DEF ExchangeInv, ExchangeTypeOK
<1> QED
  BY <1>1, <1>2, <1>3, <1>4, <1>5, <1>6, <1>7
     DEF ExchangeNext, AppStep, AppContinue, BodyStep, exchangeVars

\* The specification and the outcome.
LEMMA SpecTyped ==
    ASSUME ExchangeInv, [ExchangeNext]_exchangeVars
    PROVE  (spec \in Spec_t \cup {NoSpec} /\ creation \in Failures)'
<1>1. CASE FillTheSpec
  BY <1>1, FillTyped DEF FillTheSpec, ExchangeInv, ExchangeTypeOK
<1>2. CASE Refuse
  BY <1>2 DEF Refuse, ExchangeInv, ExchangeTypeOK, Failures
<1>3. CASE Reserve
  BY <1>3, ReserveEffect DEF ExchangeInv, ExchangeTypeOK, Failures
<1>4. CASE StepFails
  BY <1>4, FailureTyped DEF StepFails, ExchangeInv, ExchangeTypeOK
<1>5. CASE LoseEntry
  BY <1>5, FailureTyped DEF LoseEntry, ExchangeInv, ExchangeTypeOK
<1>6. CASE LinkEntries
  BY <1>6, LinkEntriesEffect DEF ExchangeInv, ExchangeTypeOK, Failures
<1>7. CASE UndoMonitor
  BY <1>7 DEF UndoMonitor, IdleApp, FreePair, ExchangeInv, ExchangeTypeOK,
       Failures
<1>8. ASSUME Spawn \/ RecordTask \/ StoreIndex \/ UndoQueues
     \/ Take("PAIR") \/ Take("CLIENT_ONLY") \/ DropQueues \/ DropMonitor
     \/ (\E q \in Queues : CreateQueue(q))
     \/ (\E r \in Roles : UndoTask(r)) \/ (\E r \in Roles : DropTask(r))
     \/ (\E r \in Roles : ReadFirst(r))
     \/ (\E r \in Roles : ReadSecond(r))
     \/ (\E r \in Roles : DeleteSelf(r)) \/ (\E r \in Roles : Send(r))
     \/ (\E r \in Roles : Receive(r)) \/ (\E r \in Roles : LookUpIndex(r))
     \/ (\E r \in Roles : EnterMonitor(r)) \/ (\E r \in Roles : ExitMonitor(r))
      PROVE  UNCHANGED <<spec, creation>>
  BY <1>8 DEF CreateQueue, Spawn, RecordTask, StoreIndex, UndoTask,
       UndoQueues, Take, DropTask, DropQueues, DropMonitor, ReadFirst,
       ReadSecond, DeleteSelf, Send, Receive, LookUpIndex, EnterMonitor,
       ExitMonitor, kernelVars
<1>9. CASE UNCHANGED <<spec, creation>>
  BY <1>9 DEF ExchangeInv, ExchangeTypeOK, Failures
<1> QED
  BY <1>1, <1>2, <1>3, <1>4, <1>5, <1>6, <1>7, <1>8, <1>9
     DEF ExchangeNext, AppStep, AppContinue, BodyStep, exchangeVars

\* The rest.
LEMMA SetsTyped ==
    ASSUME ExchangeInv, [ExchangeNext]_exchangeVars
    PROVE  (exists \subseteq Queues /\ monitor \subseteq Roles /\ holder \in Roles \cup {"none"})'
<1>1. ASSUME NEW q \in Queues,
     CreateQueue(q) PROVE (exists \subseteq Queues /\ monitor \subseteq Roles /\ holder \in Roles \cup {"none"})'
  BY <1>1 DEF CreateQueue, Goto, ExchangeInv, ExchangeTypeOK
<1>2. CASE RecordTask
  <2>1. app.role \in Roles
    BY DEF ExchangeInv, ExchangeTypeOK, App_t
  <2> QED
    BY <1>2, <2>1 DEF RecordTask, ExchangeInv, ExchangeTypeOK, kernelVars
<1>3. CASE UndoQueues
  BY <1>3 DEF UndoQueues, Goto, DeleteQueues, ExchangeInv, ExchangeTypeOK
<1>4. CASE UndoMonitor
  BY <1>4 DEF UndoMonitor, ExchangeInv, ExchangeTypeOK, kernelVars
<1>5. CASE DropQueues
  BY <1>5 DEF DropQueues, Goto, DeleteQueues, ExchangeInv, ExchangeTypeOK
<1>6. CASE DropMonitor
  BY <1>6 DEF DropMonitor, ExchangeInv, ExchangeTypeOK, kernelVars
<1>7. ASSUME NEW r \in Roles,
     EnterMonitor(r) PROVE (exists \subseteq Queues /\ monitor \subseteq Roles /\ holder \in Roles \cup {"none"})'
  BY <1>7 DEF EnterMonitor, ExchangeInv, ExchangeTypeOK
<1>8. ASSUME NEW r \in Roles,
     ExitMonitor(r) PROVE (exists \subseteq Queues /\ monitor \subseteq Roles /\ holder \in Roles \cup {"none"})'
  BY <1>8 DEF ExitMonitor, ExchangeInv, ExchangeTypeOK
<1>9. ASSUME FillTheSpec \/ Refuse \/ Reserve \/ StepFails \/ Spawn
     \/ LoseEntry \/ StoreIndex \/ LinkEntries \/ Take("PAIR")
     \/ Take("CLIENT_ONLY") \/ (\E r \in Roles : UndoTask(r))
     \/ (\E r \in Roles : DropTask(r)) \/ (\E r \in Roles : ReadFirst(r))
     \/ (\E r \in Roles : ReadSecond(r))
     \/ (\E r \in Roles : DeleteSelf(r)) \/ (\E r \in Roles : Send(r))
     \/ (\E r \in Roles : Receive(r)) \/ (\E r \in Roles : LookUpIndex(r))
      PROVE  UNCHANGED <<exists, monitor, holder>>
  BY <1>9 DEF FillTheSpec, Refuse, Reserve, StepFails, Spawn, LoseEntry,
       StoreIndex, LinkEntries, UndoTask, Take, DropTask, ReadFirst,
       ReadSecond, DeleteSelf, Send, Receive, LookUpIndex, kernelVars
<1>10. CASE UNCHANGED <<exists, monitor, holder>>
  BY <1>10 DEF ExchangeInv, ExchangeTypeOK
<1> QED
  BY <1>1, <1>2, <1>3, <1>4, <1>5, <1>6, <1>7, <1>8, <1>9, <1>10
     DEF ExchangeNext, AppStep, AppContinue, BodyStep, exchangeVars


-----------------------------------------------------------------------------
(* The shape of the calls.                                                 *)

\* The call and the record stay in step.
LEMMA CallStep ==
    ASSUME ExchangeInv, [ExchangeNext]_exchangeVars
    PROVE  CallShape'
<1>1. CASE FillTheSpec
  BY <1>1 DEF FillTheSpec, Fill, ExchangeInv, CallShape, IdleApp, FreePair,
       NothingGot, CreatePcs, RollbackPcs, DestroyPcs, App_t, Pair_t,
       ExchangeTypeOK, IsValid
<1>2. CASE Refuse
  BY <1>2 DEF Refuse, ExchangeInv, CallShape, IdleApp, FreePair, NothingGot,
       CreatePcs, RollbackPcs, DestroyPcs, App_t, Pair_t, ExchangeTypeOK,
       IsValid
<1>3. CASE Reserve
  <2>1. CASE app' = [IdleApp EXCEPT !.pc = "cs"] /\ pair'.in_use
             /\ pair'.queue_depth > 0 /\ IsValid(spec) /\ UNCHANGED spec
    <3>1. app'.pc = "cs" /\ app'.got = NothingGot
      BY <2>1 DEF IdleApp
    <3> QED
      BY <1>3, <2>1, <3>1, ReserveEffect DEF CallShape, CreatePcs,
           DestroyPcs, Reserve
  <2>2. CASE UNCHANGED <<pair, app>>
    BY <1>3, <2>2, ReserveEffect DEF ExchangeInv, CallShape, CreatePcs,
         DestroyPcs
  <2> QED
    BY <1>3, <2>1, <2>2, ReserveEffect DEF ExchangeInv
<1>4. ASSUME NEW q \in Queues, CreateQueue(q) PROVE CallShape'
  <2>1. pair' = [pair EXCEPT !.queues = pair.queues \cup {q}] /\ app.pc = q
    BY <1>4 DEF CreateQueue
  <2>2. /\ pair'.in_use = pair.in_use /\ pair'.queue_depth = pair.queue_depth
        /\ app'.pc \in {"sc", "spawn"} /\ app'.got = app.got
    BY <1>4, <2>1 DEF CreateQueue, Goto, ExchangeInv, ExchangeTypeOK, App_t,
         Pair_t
  <2>3. app.pc \in CreatePcs /\ app.pc # "idle" /\ app.pc \notin DestroyPcs
    BY <2>1 DEF Queues, CreatePcs, DestroyPcs
  <2> QED
    BY <1>4, <2>2, <2>3 DEF CreateQueue, ExchangeInv, CallShape, CreatePcs,
         DestroyPcs
<1>5. CASE StepFails
  BY <1>5 DEF StepFails, Goto, ExchangeInv, CallShape, IdleApp, FreePair,
       NothingGot, CreatePcs, RollbackPcs, DestroyPcs, App_t, Pair_t,
       ExchangeTypeOK, IsValid
<1>6. CASE Spawn
  BY <1>6 DEF Spawn, Goto, NoBody, ExchangeInv, CallShape, IdleApp, FreePair,
       NothingGot, CreatePcs, RollbackPcs, DestroyPcs, App_t, Pair_t,
       ExchangeTypeOK, IsValid
<1>7. CASE RecordTask
  BY <1>7 DEF RecordTask, Goto, ExchangeInv, CallShape, IdleApp, FreePair,
       NothingGot, CreatePcs, RollbackPcs, DestroyPcs, App_t, Pair_t,
       ExchangeTypeOK, IsValid
<1>8. CASE LoseEntry
  BY <1>8 DEF LoseEntry, Goto, Delete, NoBody, ExchangeInv, CallShape,
       IdleApp, FreePair, NothingGot, CreatePcs, RollbackPcs, DestroyPcs,
       App_t, Pair_t, ExchangeTypeOK, IsValid
<1>9. CASE StoreIndex
  BY <1>9 DEF StoreIndex, Goto, ExchangeInv, CallShape, IdleApp, FreePair,
       NothingGot, CreatePcs, RollbackPcs, DestroyPcs, App_t, Pair_t,
       ExchangeTypeOK, IsValid
<1>10. CASE LinkEntries
  <2>1. CASE app' = [pc |-> "spawn", role |-> "server", full |-> app.full,
                     got |-> app.got] /\ UNCHANGED spec
    BY <1>10, <2>1, LinkEntriesEffect DEF ExchangeInv, CallShape, CreatePcs,
         DestroyPcs
  <2>2. CASE app' = IdleApp /\ spec' = NoSpec
    <3>1. app'.pc = "idle" /\ app'.got = NothingGot
      BY <2>2 DEF IdleApp
    <3> QED
      BY <1>10, <2>2, <3>1, LinkEntriesEffect DEF ExchangeInv, CallShape,
           CreatePcs
  <2> QED
    BY <1>10, <2>1, <2>2, LinkEntriesEffect DEF ExchangeInv
<1>11. ASSUME NEW r \in Roles, UndoTask(r) PROVE CallShape'
  BY <1>11 DEF UndoTask, Goto, Delete, NoBody, ExchangeInv, CallShape,
       IdleApp, FreePair, NothingGot, CreatePcs, RollbackPcs, DestroyPcs,
       App_t, Pair_t, ExchangeTypeOK, IsValid
<1>12. CASE UndoQueues
  BY <1>12 DEF UndoQueues, Goto, DeleteQueues, ExchangeInv, CallShape,
       IdleApp, FreePair, NothingGot, CreatePcs, RollbackPcs, DestroyPcs,
       App_t, Pair_t, ExchangeTypeOK, IsValid
<1>13. CASE UndoMonitor
  BY <1>13 DEF UndoMonitor, IdleApp, FreePair, ExchangeInv, CallShape,
       NothingGot, CreatePcs, RollbackPcs, DestroyPcs, App_t, Pair_t,
       ExchangeTypeOK, IsValid
<1>14. CASE Take("PAIR")
  <2>1. /\ app'.pc = "dropClient" /\ pair'.in_use /\ pair'.queue_depth = pair.queue_depth
        /\ app.pc = "idle" /\ pair.in_use /\ spec' = spec
    BY <1>14, TakeEffect DEF ExchangeInv, Modes, Take
  <2> QED
    BY <2>1 DEF ExchangeInv, CallShape, CreatePcs, DestroyPcs
<1>15. CASE Take("CLIENT_ONLY")
  <2>1. /\ app'.pc = "dropClient" /\ pair'.in_use /\ pair'.queue_depth = pair.queue_depth
        /\ app.pc = "idle" /\ pair.in_use /\ spec' = spec
    BY <1>15, TakeEffect DEF ExchangeInv, Modes, Take
  <2> QED
    BY <2>1 DEF ExchangeInv, CallShape, CreatePcs, DestroyPcs
<1>16. ASSUME NEW r \in Roles, DropTask(r) PROVE CallShape'
  <2>1. /\ app'.pc \in {"dropServer", "dropQueues", "dropMonitor"}
        /\ app.pc \in {"dropClient", "dropServer"}
        /\ UNCHANGED <<pair, spec>>
    BY <1>16, DropTaskEffect DEF ExchangeInv, DropTask
  <2> QED
    BY <2>1 DEF ExchangeInv, CallShape, CreatePcs, DestroyPcs
<1>17. CASE DropQueues
  BY <1>17 DEF DropQueues, Goto, DeleteQueues, ExchangeInv, CallShape,
       IdleApp, FreePair, NothingGot, CreatePcs, RollbackPcs, DestroyPcs,
       App_t, Pair_t, ExchangeTypeOK, IsValid
<1>18. CASE DropMonitor
  <2>1. app'.pc = "idle" /\ app'.got = NothingGot
    BY <1>18 DEF DropMonitor, IdleApp
  <2>2. app.pc = "dropMonitor" /\ spec' = spec /\ app' = IdleApp
    BY <1>18 DEF DropMonitor
  <2>3. CASE app.full
    <3>1. pair' = FreePair /\ ~pair'.in_use
      BY <1>18, <2>3 DEF DropMonitor, FreePair
    <3> QED
      BY <2>1, <2>2, <3>1 DEF CallShape, CreatePcs, DestroyPcs
  <2>4. CASE ~app.full
    <3>1. pair' = pair
      BY <1>18, <2>4 DEF DropMonitor
    <3> QED
      BY <2>1, <2>2, <3>1 DEF ExchangeInv, CallShape, CreatePcs, DestroyPcs
  <2> QED
    BY <2>3, <2>4
<1>19. ASSUME (\E r \in Roles : ReadFirst(r))
     \/ (\E r \in Roles : ReadSecond(r))
     \/ (\E r \in Roles : DeleteSelf(r)) \/ (\E r \in Roles : Send(r))
     \/ (\E r \in Roles : Receive(r)) \/ (\E r \in Roles : LookUpIndex(r))
     \/ (\E r \in Roles : EnterMonitor(r)) \/ (\E r \in Roles : ExitMonitor(r))
      PROVE  UNCHANGED <<app, pair, spec>>
  BY <1>19 DEF ReadFirst, ReadSecond, DeleteSelf, Send, Receive, LookUpIndex,
       EnterMonitor, ExitMonitor, kernelVars
<1>20. CASE UNCHANGED <<app, pair, spec>>
  BY <1>20 DEF ExchangeInv, CallShape, IdleApp, FreePair, NothingGot,
       CreatePcs, RollbackPcs, DestroyPcs, App_t, Pair_t, ExchangeTypeOK,
       IsValid
<1> QED
  BY <1>1, <1>2, <1>3, <1>4, <1>5, <1>6, <1>7, <1>8, <1>9, <1>10, <1>11,
       <1>12, <1>13, <1>14, <1>15, <1>16, <1>17, <1>18, <1>19, <1>20
     DEF ExchangeNext, AppStep, AppContinue, BodyStep, exchangeVars

\* What a creation and its roll-back have done so far.
LEMMA CreateStep ==
    ASSUME ExchangeInv, [ExchangeNext]_exchangeVars
    PROVE  CreateShape'
<1>1. CASE Reserve
  BY <1>1, ReserveEffect DEF ExchangeInv, CallShape, IdleApp, FreePair,
       NothingGot, CreatePcs, RollbackPcs, DestroyPcs, App_t, Pair_t,
       ExchangeTypeOK, CreateShape, Roles, Queues
<1>2. ASSUME NEW q \in Queues, CreateQueue(q) PROVE CreateShape'
  BY <1>2 DEF CreateQueue, Goto, ExchangeInv, CallShape, IdleApp, FreePair,
       NothingGot, CreatePcs, RollbackPcs, DestroyPcs, App_t, Pair_t,
       ExchangeTypeOK, CreateShape, Roles, Queues
<1>3. CASE StepFails
  BY <1>3 DEF StepFails, Goto, ExchangeInv, CallShape, IdleApp, FreePair,
       NothingGot, CreatePcs, RollbackPcs, DestroyPcs, App_t, Pair_t,
       ExchangeTypeOK, CreateShape, Roles, Queues
<1>4. CASE Spawn
  BY <1>4 DEF Spawn, Goto, NoBody, ExchangeInv, CallShape, IdleApp, FreePair,
       NothingGot, CreatePcs, RollbackPcs, DestroyPcs, App_t, Pair_t,
       ExchangeTypeOK, CreateShape, Roles, Queues
<1>5. CASE RecordTask
  <2>1. app.pc = "record" /\ app.role \in Roles
    BY <1>5 DEF RecordTask, ExchangeInv, ExchangeTypeOK, App_t
  <2>2. CASE app' = [app EXCEPT !.pc = "index"]
             /\ pair' = [pair EXCEPT !.handles = pair.handles \cup {app.role}]
    <3>1. app'.pc = "index" /\ app'.role = app.role
      BY <2>2 DEF ExchangeInv, ExchangeTypeOK, App_t
    <3>2. pair'.handles = pair.handles \cup {app.role}
      BY <2>2 DEF ExchangeInv, ExchangeTypeOK, Pair_t
    <3>3. app.role = "client" => pair.handles = {}
      BY <2>1 DEF ExchangeInv, CreateShape
    <3> QED
      BY <3>1, <3>2, <3>3 DEF CreateShape
  <2>3. CASE app' = [app EXCEPT !.pc = "lose"] /\ pair' = pair
    BY <2>1, <2>3 DEF ExchangeInv, ExchangeTypeOK, App_t, CreateShape
  <2> QED
    BY <1>5, <2>2, <2>3 DEF RecordTask, Goto
<1>6. CASE LoseEntry
  BY <1>6 DEF LoseEntry, Goto, Delete, NoBody, ExchangeInv, CallShape,
       IdleApp, FreePair, NothingGot, CreatePcs, RollbackPcs, DestroyPcs,
       App_t, Pair_t, ExchangeTypeOK, CreateShape, Roles, Queues
<1>7. CASE StoreIndex
  BY <1>7 DEF StoreIndex, Goto, ExchangeInv, CallShape, IdleApp, FreePair,
       NothingGot, CreatePcs, RollbackPcs, DestroyPcs, App_t, Pair_t,
       ExchangeTypeOK, CreateShape, Roles, Queues
<1>8. CASE LinkEntries
  <2>1. CASE app' = [pc |-> "spawn", role |-> "server", full |-> app.full,
                     got |-> app.got]
    <3>1. app'.pc = "spawn" /\ app'.role = "server"
      BY <2>1
    <3>2. app.pc = "link" /\ pair' = pair
      BY <1>8, LinkEntriesEffect DEF ExchangeInv
    <3>3. app.role = "client"
      BY <1>8, <2>1 DEF LinkEntries, IdleApp
    <3>4. "server" \notin pair.handles
      BY <3>2, <3>3 DEF ExchangeInv, CreateShape
    <3> QED
      BY <3>1, <3>2, <3>4 DEF CreateShape
  <2>2. CASE app' = IdleApp
    BY <1>8, <2>2, LinkEntriesEffect DEF ExchangeInv, CreateShape, IdleApp
  <2> QED
    BY <1>8, <2>1, <2>2, LinkEntriesEffect DEF ExchangeInv
<1>9. ASSUME NEW r \in Roles, UndoTask(r) PROVE CreateShape'
  BY <1>9 DEF UndoTask, Goto, Delete, NoBody, ExchangeInv, CallShape,
       IdleApp, FreePair, NothingGot, CreatePcs, RollbackPcs, DestroyPcs,
       App_t, Pair_t, ExchangeTypeOK, CreateShape, Roles, Queues
<1>10. CASE UndoQueues
  BY <1>10 DEF UndoQueues, Goto, DeleteQueues, ExchangeInv, CallShape,
       IdleApp, FreePair, NothingGot, CreatePcs, RollbackPcs, DestroyPcs,
       App_t, Pair_t, ExchangeTypeOK, CreateShape, Roles, Queues
<1>11. CASE UndoMonitor
  BY <1>11 DEF UndoMonitor, IdleApp, FreePair, ExchangeInv, CallShape,
       NothingGot, CreatePcs, RollbackPcs, DestroyPcs, App_t, Pair_t,
       ExchangeTypeOK, CreateShape, Roles, Queues
<1>12. CASE Take("PAIR")
  <2>1. app'.pc = "dropClient"
    BY <1>12, TakeEffect DEF ExchangeInv, Modes
  <2> QED
    BY <2>1 DEF CreateShape
<1>13. CASE Take("CLIENT_ONLY")
  <2>1. app'.pc = "dropClient"
    BY <1>13, TakeEffect DEF ExchangeInv, Modes
  <2> QED
    BY <2>1 DEF CreateShape
<1>14. ASSUME NEW r \in Roles, DropTask(r) PROVE CreateShape'
  <2>1. app'.pc \in {"dropServer", "dropQueues", "dropMonitor"}
    BY <1>14, DropTaskEffect DEF ExchangeInv
  <2> QED
    BY <2>1 DEF CreateShape
<1>15. CASE DropQueues
  BY <1>15 DEF DropQueues, Goto, DeleteQueues, ExchangeInv, CallShape,
       IdleApp, FreePair, NothingGot, CreatePcs, RollbackPcs, DestroyPcs,
       App_t, Pair_t, ExchangeTypeOK, CreateShape, Roles, Queues
<1>16. CASE DropMonitor
  BY <1>16 DEF DropMonitor, IdleApp, FreePair, ExchangeInv, CallShape,
       NothingGot, CreatePcs, RollbackPcs, DestroyPcs, App_t, Pair_t,
       ExchangeTypeOK, CreateShape, Roles, Queues
<1>17. ASSUME FillTheSpec \/ Refuse \/ (\E r \in Roles : ReadFirst(r))
     \/ (\E r \in Roles : ReadSecond(r))
     \/ (\E r \in Roles : DeleteSelf(r)) \/ (\E r \in Roles : Send(r))
     \/ (\E r \in Roles : Receive(r)) \/ (\E r \in Roles : LookUpIndex(r))
     \/ (\E r \in Roles : EnterMonitor(r)) \/ (\E r \in Roles : ExitMonitor(r))
      PROVE  UNCHANGED <<app, pair>>
  BY <1>17 DEF FillTheSpec, Refuse, ReadFirst, ReadSecond, DeleteSelf, Send,
       Receive, LookUpIndex, EnterMonitor, ExitMonitor, kernelVars
<1>18. CASE UNCHANGED <<app, pair>>
  BY <1>18 DEF ExchangeInv, CallShape, IdleApp, FreePair, NothingGot,
       CreatePcs, RollbackPcs, DestroyPcs, App_t, Pair_t, ExchangeTypeOK,
       CreateShape, Roles, Queues
<1> QED
  BY <1>1, <1>2, <1>3, <1>4, <1>5, <1>6, <1>7, <1>8, <1>9, <1>10, <1>11,
       <1>12, <1>13, <1>14, <1>15, <1>16, <1>17, <1>18
     DEF ExchangeNext, AppStep, AppContinue, BodyStep, exchangeVars

\* What a destroy has done so far.
LEMMA DestroyStep ==
    ASSUME ExchangeInv, [ExchangeNext]_exchangeVars
    PROVE  DestroyShape'
<1>1. CASE Reserve
  BY <1>1, ReserveEffect DEF ExchangeInv, CallShape, IdleApp, FreePair,
       NothingGot, CreatePcs, RollbackPcs, DestroyPcs, App_t, Pair_t,
       ExchangeTypeOK, DestroyShape, Got_t, Roles, Queues, NoIndices
<1>2. ASSUME NEW q \in Queues, CreateQueue(q) PROVE DestroyShape'
  BY <1>2 DEF CreateQueue, Goto, ExchangeInv, CallShape, IdleApp, FreePair,
       NothingGot, CreatePcs, RollbackPcs, DestroyPcs, App_t, Pair_t,
       ExchangeTypeOK, DestroyShape, Got_t, Roles, Queues, NoIndices
<1>3. CASE StepFails
  BY <1>3 DEF StepFails, Goto, ExchangeInv, CallShape, IdleApp, FreePair,
       NothingGot, CreatePcs, RollbackPcs, DestroyPcs, App_t, Pair_t,
       ExchangeTypeOK, DestroyShape, Got_t, Roles, Queues, NoIndices
<1>4. CASE Spawn
  BY <1>4 DEF Spawn, Goto, NoBody, ExchangeInv, CallShape, IdleApp, FreePair,
       NothingGot, CreatePcs, RollbackPcs, DestroyPcs, App_t, Pair_t,
       ExchangeTypeOK, DestroyShape, Got_t, Roles, Queues, NoIndices
<1>5. CASE RecordTask
  BY <1>5 DEF RecordTask, Goto, ExchangeInv, CallShape, IdleApp, FreePair,
       NothingGot, CreatePcs, RollbackPcs, DestroyPcs, App_t, Pair_t,
       ExchangeTypeOK, DestroyShape, Got_t, Roles, Queues, NoIndices
<1>6. CASE LoseEntry
  BY <1>6 DEF LoseEntry, Goto, Delete, NoBody, ExchangeInv, CallShape,
       IdleApp, FreePair, NothingGot, CreatePcs, RollbackPcs, DestroyPcs,
       App_t, Pair_t, ExchangeTypeOK, DestroyShape, Got_t, Roles, Queues,
       NoIndices
<1>7. CASE StoreIndex
  BY <1>7 DEF StoreIndex, Goto, ExchangeInv, CallShape, IdleApp, FreePair,
       NothingGot, CreatePcs, RollbackPcs, DestroyPcs, App_t, Pair_t,
       ExchangeTypeOK, DestroyShape, Got_t, Roles, Queues, NoIndices
<1>8. CASE LinkEntries
  BY <1>8, LinkEntriesEffect DEF ExchangeInv, CallShape, IdleApp, FreePair,
       NothingGot, CreatePcs, RollbackPcs, DestroyPcs, App_t, Pair_t,
       ExchangeTypeOK, DestroyShape, Got_t, Roles, Queues, NoIndices
<1>9. ASSUME NEW r \in Roles, UndoTask(r) PROVE DestroyShape'
  BY <1>9 DEF UndoTask, Goto, Delete, NoBody, ExchangeInv, CallShape,
       IdleApp, FreePair, NothingGot, CreatePcs, RollbackPcs, DestroyPcs,
       App_t, Pair_t, ExchangeTypeOK, DestroyShape, Got_t, Roles, Queues,
       NoIndices
<1>10. CASE UndoQueues
  BY <1>10 DEF UndoQueues, Goto, DeleteQueues, ExchangeInv, CallShape,
       IdleApp, FreePair, NothingGot, CreatePcs, RollbackPcs, DestroyPcs,
       App_t, Pair_t, ExchangeTypeOK, DestroyShape, Got_t, Roles, Queues,
       NoIndices
<1>11. CASE UndoMonitor
  BY <1>11 DEF UndoMonitor, IdleApp, FreePair, ExchangeInv, CallShape,
       NothingGot, CreatePcs, RollbackPcs, DestroyPcs, App_t, Pair_t,
       ExchangeTypeOK, DestroyShape, Got_t, Roles, Queues, NoIndices
<1>12. CASE Take("PAIR")
  <2>1. /\ pair.handles \subseteq Roles
        /\ pair.index \in [Roles -> {-1, 0, 1, 2}] /\ "client" \in Roles
    BY DEF ExchangeInv, ExchangeTypeOK, Pair_t, Roles
  <2>2. app'.pc = "dropClient"
    BY <1>12, TakeEffect DEF ExchangeInv, Modes
  <2>3. CASE /\ app'.full
             /\ pair'.handles = {} /\ pair'.queues = {}
             /\ pair'.index = NoIndices
    BY <2>2, <2>3 DEF DestroyShape
  <2>4. CASE /\ ~app'.full
             /\ app'.got = [handles |-> pair.handles \cap {"client"},
                  queues |-> {},
                            entries |-> {r \in {"client"} : pair.index[r] >= 0}]
             /\ pair'.handles = pair.handles \ {"client"}
             /\ pair'.index = [pair.index EXCEPT !["client"] = -1]
    <3>1. /\ app'.got.handles \subseteq {"client"} /\ app'.got.queues = {}
          /\ app'.got.entries \subseteq {"client"}
      BY <2>4
    <3>2. pair'.index["client"] = -1 /\ "client" \notin pair'.handles
      BY <2>1, <2>4
    <3> QED
      BY <2>2, <2>4, <3>1, <3>2 DEF DestroyShape
  <2> QED
    BY <1>12, <2>3, <2>4, TakeEffect DEF ExchangeInv, Modes
<1>13. CASE Take("CLIENT_ONLY")
  <2>1. /\ pair.handles \subseteq Roles
        /\ pair.index \in [Roles -> {-1, 0, 1, 2}] /\ "client" \in Roles
    BY DEF ExchangeInv, ExchangeTypeOK, Pair_t, Roles
  <2>2. app'.pc = "dropClient"
    BY <1>13, TakeEffect DEF ExchangeInv, Modes
  <2>3. CASE /\ app'.full
             /\ pair'.handles = {} /\ pair'.queues = {}
             /\ pair'.index = NoIndices
    BY <2>2, <2>3 DEF DestroyShape
  <2>4. CASE /\ ~app'.full
             /\ app'.got = [handles |-> pair.handles \cap {"client"},
                  queues |-> {},
                            entries |-> {r \in {"client"} : pair.index[r] >= 0}]
             /\ pair'.handles = pair.handles \ {"client"}
             /\ pair'.index = [pair.index EXCEPT !["client"] = -1]
    <3>1. /\ app'.got.handles \subseteq {"client"} /\ app'.got.queues = {}
          /\ app'.got.entries \subseteq {"client"}
      BY <2>4
    <3>2. pair'.index["client"] = -1 /\ "client" \notin pair'.handles
      BY <2>1, <2>4
    <3> QED
      BY <2>2, <2>4, <3>1, <3>2 DEF DestroyShape
  <2> QED
    BY <1>13, <2>3, <2>4, TakeEffect DEF ExchangeInv, Modes
<1>14. ASSUME NEW r \in Roles, DropTask(r) PROVE DestroyShape'
  <2>0. pair' = pair
    BY <1>14 DEF DropTask
  <2>1. app.pc \in DestroyPcs /\ app'.pc # "dropClient"
    BY <1>14, DropTaskEffect DEF ExchangeInv, DestroyPcs
  <2>2. app.got.handles \subseteq Roles
    BY DEF ExchangeInv, ExchangeTypeOK, App_t, Got_t
  <2> QED
    BY <1>14, <2>0, <2>1, <2>2, DropTaskEffect DEF ExchangeInv, DestroyShape,
         Roles
<1>15. CASE DropQueues
  BY <1>15 DEF DropQueues, Goto, DeleteQueues, ExchangeInv, CallShape,
       IdleApp, FreePair, NothingGot, CreatePcs, RollbackPcs, DestroyPcs,
       App_t, Pair_t, ExchangeTypeOK, DestroyShape, Got_t, Roles, Queues,
       NoIndices
<1>16. CASE DropMonitor
  BY <1>16 DEF DropMonitor, IdleApp, FreePair, ExchangeInv, CallShape,
       NothingGot, CreatePcs, RollbackPcs, DestroyPcs, App_t, Pair_t,
       ExchangeTypeOK, DestroyShape, Got_t, Roles, Queues, NoIndices
<1>17. ASSUME FillTheSpec \/ Refuse \/ (\E r \in Roles : ReadFirst(r))
     \/ (\E r \in Roles : ReadSecond(r))
     \/ (\E r \in Roles : DeleteSelf(r)) \/ (\E r \in Roles : Send(r))
     \/ (\E r \in Roles : Receive(r)) \/ (\E r \in Roles : LookUpIndex(r))
     \/ (\E r \in Roles : EnterMonitor(r)) \/ (\E r \in Roles : ExitMonitor(r))
      PROVE  UNCHANGED <<app, pair>>
  BY <1>17 DEF FillTheSpec, Refuse, ReadFirst, ReadSecond, DeleteSelf, Send,
       Receive, LookUpIndex, EnterMonitor, ExitMonitor, kernelVars
<1>18. CASE UNCHANGED <<app, pair>>
  BY <1>18 DEF ExchangeInv, CallShape, IdleApp, FreePair, NothingGot,
       CreatePcs, RollbackPcs, DestroyPcs, App_t, Pair_t, ExchangeTypeOK,
       DestroyShape, Got_t, Roles, Queues, NoIndices
<1> QED
  BY <1>1, <1>2, <1>3, <1>4, <1>5, <1>6, <1>7, <1>8, <1>9, <1>10, <1>11,
       <1>12, <1>13, <1>14, <1>15, <1>16, <1>17, <1>18
     DEF ExchangeNext, AppStep, AppContinue, BodyStep, exchangeVars


-----------------------------------------------------------------------------
(* Who holds the tasks, the queues and the entries.                        *)

\* No task is forgotten.
LEMMA TasksStep ==
    ASSUME ExchangeInv, [ExchangeNext]_exchangeVars
    PROVE  TasksAreHeld'
<1>1. CASE Reserve
  <2>1. HeldTasks = {}
    BY <1>1, ReserveEffect, Blank DEF ExchangeInv, CallShape, HeldTasks
  <2>2. UNCHANGED body
    BY <1>1, ReserveEffect DEF ExchangeInv
  <2> QED
    BY <2>1, <2>2 DEF ExchangeInv, TasksAreHeld
<1>2. ASSUME NEW q \in Queues, CreateQueue(q) PROVE TasksAreHeld'
  BY <1>2, CreateQueueEffect DEF ExchangeInv, TasksAreHeld, HeldTasks, Queues
<1>3. CASE StepFails
  BY <1>3, GotoEffect DEF ExchangeInv, TasksAreHeld, HeldTasks, StepFails,
       kernelVars
<1>4. CASE Spawn
  <2>1. app.pc = "spawn" /\ UNCHANGED pair
    BY <1>4 DEF Spawn
  <2>2. app'.pc = "record" /\ app'.role = app.role /\ app'.got = app.got
    BY <1>4, GotoEffect DEF Spawn, ExchangeInv
  <2>3. \A x \in Roles : x # app.role => body'[x] = body[x]
    BY <1>4, SpawnEffect DEF ExchangeInv
  <2> QED
    BY <2>1, <2>2, <2>3 DEF ExchangeInv, TasksAreHeld, HeldTasks
<1>5. CASE RecordTask
  BY <1>5, RecordTaskEffect DEF ExchangeInv, TasksAreHeld, HeldTasks
<1>6. CASE LoseEntry
  <2>1. app.pc = "lose" /\ app.role \in Roles /\ UNCHANGED pair
    BY <1>6 DEF LoseEntry, ExchangeInv, ExchangeTypeOK, App_t
  <2>2. app'.got = app.got
    BY <1>6, GotoEffect DEF LoseEntry, ExchangeInv
  <2>3. /\ body'[app.role].pc = "none"
        /\ \A x \in Roles : x # app.role => body'[x] = body[x]
    BY <1>6, <2>1, DeleteEffect DEF LoseEntry, ExchangeInv
  <2> QED
    BY <2>1, <2>2, <2>3 DEF ExchangeInv, TasksAreHeld, HeldTasks
<1>7. CASE StoreIndex
  BY <1>7, StoreIndexEffect DEF ExchangeInv, TasksAreHeld, HeldTasks,
       StoreIndex
<1>8. CASE LinkEntries
  <2>1. UNCHANGED <<pair, body>> /\ app.pc = "link" /\ app'.got = app.got
    BY <1>8, LinkEntriesEffect, Blank DEF ExchangeInv, CallShape, DestroyPcs
  <2> QED
    BY <2>1 DEF ExchangeInv, TasksAreHeld, HeldTasks
<1>9. ASSUME NEW r \in Roles, UndoTask(r) PROVE TasksAreHeld'
  <2>1. /\ app'.got = app.got /\ app.pc \in {"undoServer", "undoClient"}
        /\ pair'.handles = pair.handles \ {r}
    BY <1>9, UndoTaskEffect DEF ExchangeInv
  <2>2. /\ \A x \in Roles : x # r => body'[x] = body[x]
        /\ r \in pair.handles => body'[r].pc = "none"
        /\ r \notin pair.handles => UNCHANGED body
    BY <1>9, DeleteEffect DEF UndoTask, ExchangeInv
  <2>3. r \in pair.handles \/ r \notin app.got.handles => body'[r].pc = "none"
    BY <2>1, <2>2 DEF ExchangeInv, TasksAreHeld, HeldTasks
  <2> QED
    BY <2>1, <2>2, <2>3 DEF ExchangeInv, TasksAreHeld, HeldTasks
<1>10. CASE UndoQueues
  BY <1>10, UndoQueuesEffect DEF ExchangeInv, TasksAreHeld, HeldTasks
<1>11. CASE UndoMonitor
  <2>1. app.pc = "undoMonitor" /\ UNCHANGED body
    BY <1>11 DEF UndoMonitor, kernelVars
  <2>2. HeldTasks = {}
    BY <2>1, Blank DEF ExchangeInv, CallShape, CreateShape, DestroyPcs,
         HeldTasks
  <2> QED
    BY <2>1, <2>2 DEF ExchangeInv, TasksAreHeld
<1>12. CASE Take("PAIR")
  <2>1. /\ app.pc = "idle" /\ app.got = NothingGot /\ UNCHANGED body
        /\ pair.handles \subseteq Roles
    BY <1>12, Blank DEF Take, kernelVars, ExchangeInv, CallShape,
         ExchangeTypeOK, Pair_t
  <2>2. pair.handles = pair'.handles \cup app'.got.handles
    BY <1>12, <2>1, TakeEffect DEF ExchangeInv, Modes
  <2> QED
    BY <2>1, <2>2, Blank DEF ExchangeInv, TasksAreHeld, HeldTasks
<1>13. CASE Take("CLIENT_ONLY")
  <2>1. /\ app.pc = "idle" /\ app.got = NothingGot /\ UNCHANGED body
        /\ pair.handles \subseteq Roles
    BY <1>13, Blank DEF Take, kernelVars, ExchangeInv, CallShape,
         ExchangeTypeOK, Pair_t
  <2>2. pair.handles = pair'.handles \cup app'.got.handles
    BY <1>13, <2>1, TakeEffect DEF ExchangeInv, Modes
  <2> QED
    BY <2>1, <2>2, Blank DEF ExchangeInv, TasksAreHeld, HeldTasks
<1>14. ASSUME NEW r \in Roles, DropTask(r) PROVE TasksAreHeld'
  <2>1. /\ app'.got.handles = app.got.handles \ {r} /\ UNCHANGED pair
        /\ app.pc \in {"dropServer", "dropClient"}
    BY <1>14, DropTaskEffect DEF ExchangeInv, DropTask
  <2>2. /\ \A x \in Roles : x # r => body'[x] = body[x]
        /\ r \in app.got.handles => body'[r].pc = "none"
        /\ r \notin app.got.handles => UNCHANGED body
    BY <1>14, DeleteEffect DEF DropTask, ExchangeInv
  <2> QED
    BY <2>1, <2>2 DEF ExchangeInv, TasksAreHeld, HeldTasks
<1>15. CASE DropQueues
  BY <1>15, GotoEffect DEF ExchangeInv, TasksAreHeld, HeldTasks, DropQueues
<1>16. CASE DropMonitor
  <2>1. /\ app.pc = "dropMonitor" /\ UNCHANGED body
        /\ app'.got = NothingGot /\ app'.pc = "idle"
        /\ app.full \/ UNCHANGED pair
    BY <1>16, Blank DEF DropMonitor, kernelVars
  <2>2. app.full => HeldTasks = {}
    BY <2>1 DEF ExchangeInv, DestroyShape, DestroyPcs, HeldTasks
  <2>3. app.got.handles = {}
    BY <2>1 DEF ExchangeInv, DestroyShape, DestroyPcs
  <2> QED
    BY <2>1, <2>2, <2>3, Blank DEF ExchangeInv, TasksAreHeld, HeldTasks
<1>17. ASSUME NEW r \in Roles, ReadFirst(r) PROVE TasksAreHeld'
  <2>1. /\ body[r].pc # "none"
        /\ \A x \in Roles : x # r => body'[x] = body[x]
        /\ UNCHANGED <<pair, app>>
    BY <1>17, ReadFirstEffect DEF ExchangeInv, ReadFirst
  <2> QED
    BY <2>1 DEF ExchangeInv, TasksAreHeld, HeldTasks
<1>18. ASSUME NEW r \in Roles, ReadSecond(r) PROVE TasksAreHeld'
  <2>1. /\ body[r].pc # "none"
        /\ \A x \in Roles : x # r => body'[x] = body[x]
        /\ UNCHANGED <<pair, app>>
    BY <1>18, ReadSecondEffect DEF ExchangeInv, ReadSecond
  <2> QED
    BY <2>1 DEF ExchangeInv, TasksAreHeld, HeldTasks
<1>19. ASSUME NEW r \in Roles, DeleteSelf(r) PROVE TasksAreHeld'
  <2>1. /\ body[r].pc # "none"
        /\ \A x \in Roles : x # r => body'[x] = body[x]
        /\ UNCHANGED <<pair, app>>
    BY <1>19, DeleteSelfEffect DEF ExchangeInv, DeleteSelf
  <2> QED
    BY <2>1 DEF ExchangeInv, TasksAreHeld, HeldTasks
<1>20. ASSUME NEW r \in Roles, Send(r) PROVE TasksAreHeld'
  <2>1. /\ body[r].pc # "none"
        /\ \A x \in Roles : x # r => body'[x] = body[x]
        /\ UNCHANGED <<pair, app>>
    BY <1>20, SendEffect DEF ExchangeInv, Send
  <2> QED
    BY <2>1 DEF ExchangeInv, TasksAreHeld, HeldTasks
<1>21. ASSUME NEW r \in Roles, Receive(r) PROVE TasksAreHeld'
  <2>1. /\ body[r].pc # "none"
        /\ \A x \in Roles : x # r => body'[x] = body[x]
        /\ UNCHANGED <<pair, app>>
    BY <1>21, ReceiveEffect DEF ExchangeInv, Receive
  <2> QED
    BY <2>1 DEF ExchangeInv, TasksAreHeld, HeldTasks
<1>22. ASSUME NEW r \in Roles, LookUpIndex(r) PROVE TasksAreHeld'
  <2>1. /\ body[r].pc # "none"
        /\ \A x \in Roles : x # r => body'[x] = body[x]
        /\ UNCHANGED <<pair, app>>
    BY <1>22, LookUpIndexEffect DEF ExchangeInv, LookUpIndex
  <2> QED
    BY <2>1 DEF ExchangeInv, TasksAreHeld, HeldTasks
<1>23. ASSUME NEW r \in Roles, EnterMonitor(r) PROVE TasksAreHeld'
  <2>1. /\ body[r].pc # "none"
        /\ \A x \in Roles : x # r => body'[x] = body[x]
        /\ UNCHANGED <<pair, app>>
    BY <1>23, EnterMonitorEffect DEF ExchangeInv, EnterMonitor
  <2> QED
    BY <2>1 DEF ExchangeInv, TasksAreHeld, HeldTasks
<1>24. ASSUME NEW r \in Roles, ExitMonitor(r) PROVE TasksAreHeld'
  <2>1. /\ body[r].pc # "none"
        /\ \A x \in Roles : x # r => body'[x] = body[x]
        /\ UNCHANGED <<pair, app>>
    BY <1>24, ExitMonitorEffect DEF ExchangeInv, ExitMonitor
  <2> QED
    BY <2>1 DEF ExchangeInv, TasksAreHeld, HeldTasks
<1>25. ASSUME FillTheSpec \/ Refuse
      PROVE  UNCHANGED <<body, pair, app>>
  BY <1>25 DEF FillTheSpec, Refuse, kernelVars
<1>26. CASE UNCHANGED <<body, pair, app>>
  BY <1>26 DEF ExchangeInv, TasksAreHeld, HeldTasks
<1> QED
  BY <1>1, <1>2, <1>3, <1>4, <1>5, <1>6, <1>7, <1>8, <1>9, <1>10, <1>11,
       <1>12, <1>13, <1>14, <1>15, <1>16, <1>17, <1>18, <1>19, <1>20, <1>21,
       <1>22, <1>23, <1>24, <1>25, <1>26
     DEF ExchangeNext, AppStep, AppContinue, BodyStep, exchangeVars

\* No queue is forgotten.
LEMMA QueuesStep ==
    ASSUME ExchangeInv, [ExchangeNext]_exchangeVars
    PROVE  QueuesAreHeld'
<1>1. CASE Reserve
  <2>1. UNCHANGED exists /\ app.pc = "idle" /\ app.got = NothingGot
    BY <1>1, ReserveEffect, Blank DEF ExchangeInv, CallShape, DestroyPcs
  <2>2. exists = pair.queues
    BY <2>1, Blank DEF ExchangeInv, QueuesAreHeld
  <2>3. pair.queues = {}
    BY <1>1, ReserveEffect, Blank DEF ExchangeInv, CallShape
  <2>4. pair'.queues = {} /\ app'.got.queues = {}
    BY <1>1, <2>1, <2>3, ReserveEffect, Blank DEF ExchangeInv, IdleApp
  <2> QED
    BY <2>1, <2>2, <2>3, <2>4 DEF QueuesAreHeld
<1>2. ASSUME NEW q \in Queues, CreateQueue(q) PROVE QueuesAreHeld'
  BY <1>2, CreateQueueEffect DEF ExchangeInv, QueuesAreHeld, Queues
<1>3. CASE StepFails
  BY <1>3, GotoEffect DEF ExchangeInv, QueuesAreHeld, StepFails, kernelVars
<1>4. CASE Spawn
  BY <1>4, GotoEffect DEF ExchangeInv, QueuesAreHeld, Spawn
<1>5. CASE RecordTask
  BY <1>5, RecordTaskEffect DEF ExchangeInv, QueuesAreHeld
<1>6. CASE LoseEntry
  BY <1>6, GotoEffect DEF ExchangeInv, QueuesAreHeld, LoseEntry
<1>7. CASE StoreIndex
  BY <1>7, StoreIndexEffect DEF ExchangeInv, QueuesAreHeld
<1>8. CASE LinkEntries
  <2>1. /\ UNCHANGED <<pair, exists>> /\ app.pc = "link" /\ app'.got = app.got
        /\ app.got = NothingGot
    BY <1>8, LinkEntriesEffect, Blank DEF ExchangeInv, CallShape, DestroyPcs
  <2> QED
    BY <2>1, Blank DEF ExchangeInv, QueuesAreHeld
<1>9. ASSUME NEW r \in Roles, UndoTask(r) PROVE QueuesAreHeld'
  <2>1. /\ UNCHANGED exists /\ pair'.queues = pair.queues /\ app'.got = app.got
        /\ app.pc # "dropMonitor" /\ app'.pc # "dropMonitor"
    BY <1>9, UndoTaskEffect DEF ExchangeInv
  <2> QED
    BY <2>1 DEF ExchangeInv, QueuesAreHeld
<1>10. CASE UndoQueues
  <2>1. app.got = NothingGot
    BY <1>10 DEF UndoQueues, ExchangeInv, CallShape, DestroyPcs
  <2> QED
    BY <1>10, <2>1, Blank, UndoQueuesEffect DEF ExchangeInv, QueuesAreHeld
<1>11. CASE UndoMonitor
  <2>1. app.pc = "undoMonitor" /\ UNCHANGED exists /\ pair' = FreePair /\ app' = IdleApp
    BY <1>11 DEF UndoMonitor, kernelVars
  <2>2. pair.queues = {} /\ app.got = NothingGot
    BY <2>1 DEF ExchangeInv, CallShape, CreateShape, DestroyPcs
  <2> QED
    BY <2>1, <2>2, Blank DEF ExchangeInv, QueuesAreHeld
<1>12. CASE Take("PAIR")
  <2>1. /\ app.pc = "idle" /\ app.got = NothingGot /\ UNCHANGED exists
    BY <1>12 DEF Take, kernelVars, ExchangeInv, CallShape, DestroyPcs
  <2>2. pair.queues = pair'.queues \cup app'.got.queues /\ app'.pc = "dropClient"
    BY <1>12, <2>1, TakeEffect DEF ExchangeInv, Modes
  <2> QED
    BY <2>1, <2>2, Blank DEF ExchangeInv, QueuesAreHeld
<1>13. CASE Take("CLIENT_ONLY")
  <2>1. /\ app.pc = "idle" /\ app.got = NothingGot /\ UNCHANGED exists
    BY <1>13 DEF Take, kernelVars, ExchangeInv, CallShape, DestroyPcs
  <2>2. pair.queues = pair'.queues \cup app'.got.queues /\ app'.pc = "dropClient"
    BY <1>13, <2>1, TakeEffect DEF ExchangeInv, Modes
  <2> QED
    BY <2>1, <2>2, Blank DEF ExchangeInv, QueuesAreHeld
<1>14. ASSUME NEW r \in Roles, DropTask(r) PROVE QueuesAreHeld'
  <2>0. UNCHANGED <<pair, exists>>
    BY <1>14 DEF DropTask
  <2>1. /\ app'.got.queues = app.got.queues
        /\ app.pc # "dropMonitor" /\ app.pc \in DestroyPcs
        /\ app'.pc = "dropMonitor" => ~app.full
    BY <1>14, DropTaskEffect DEF ExchangeInv, DestroyPcs
  <2>2. ~app.full => app.got.queues = {}
    BY <2>1 DEF ExchangeInv, DestroyShape
  <2> QED
    BY <2>0, <2>1, <2>2 DEF ExchangeInv, QueuesAreHeld
<1>15. CASE DropQueues
  <2>1. /\ UNCHANGED pair /\ exists' = exists \ app.got.queues /\ app.pc = "dropQueues"
        /\ app'.pc = "dropMonitor"
    BY <1>15, GotoEffect DEF ExchangeInv, DropQueues, DeleteQueues
  <2>2. pair.queues = {}
    BY <2>1 DEF ExchangeInv, DestroyShape, DestroyPcs
  <2> QED
    BY <2>1, <2>2 DEF ExchangeInv, QueuesAreHeld
<1>16. CASE DropMonitor
  <2>1. /\ app.pc = "dropMonitor" /\ UNCHANGED exists /\ app' = IdleApp
        /\ pair' = IF app.full THEN FreePair ELSE pair
    BY <1>16 DEF DropMonitor, kernelVars
  <2>2. exists = pair.queues /\ (app.full => pair.queues = {})
    BY <2>1 DEF ExchangeInv, QueuesAreHeld, DestroyShape, DestroyPcs
  <2> QED
    BY <2>1, <2>2, Blank DEF QueuesAreHeld
<1>17. ASSUME FillTheSpec \/ Refuse \/ (\E r \in Roles : ReadFirst(r))
     \/ (\E r \in Roles : ReadSecond(r))
     \/ (\E r \in Roles : DeleteSelf(r)) \/ (\E r \in Roles : Send(r))
     \/ (\E r \in Roles : Receive(r)) \/ (\E r \in Roles : LookUpIndex(r))
     \/ (\E r \in Roles : EnterMonitor(r)) \/ (\E r \in Roles : ExitMonitor(r))
      PROVE  UNCHANGED <<exists, pair, app>>
  BY <1>17 DEF FillTheSpec, Refuse, ReadFirst, ReadSecond, DeleteSelf, Send,
       Receive, LookUpIndex, EnterMonitor, ExitMonitor, kernelVars
<1>18. CASE UNCHANGED <<exists, pair, app>>
  BY <1>18 DEF ExchangeInv, QueuesAreHeld
<1> QED
  BY <1>1, <1>2, <1>3, <1>4, <1>5, <1>6, <1>7, <1>8, <1>9, <1>10, <1>11,
       <1>12, <1>13, <1>14, <1>15, <1>16, <1>17, <1>18
     DEF ExchangeNext, AppStep, AppContinue, BodyStep, exchangeVars


\* Whose tasks are certainly gone.
LEMMA NoTasks ==
    ASSUME ExchangeInv,
           \/ ~pair.in_use
           \/ app.pc \in {"undoQueues", "undoMonitor", "dropQueues"}
           \/ app.pc = "dropMonitor" /\ app.full
    PROVE  \A r \in Roles : body[r].pc = "none" /\ body[r].got = {}
<1>1. HeldTasks = {}
  <2>1. CASE ~pair.in_use
    BY <2>1, Blank DEF ExchangeInv, CallShape, HeldTasks
  <2>2. CASE app.pc \in {"undoQueues", "undoMonitor"}
    BY <2>2, Blank DEF ExchangeInv, CallShape, CreateShape, DestroyPcs, HeldTasks
  <2>3. CASE app.pc = "dropQueues"
    <3>1. app.pc \in DestroyPcs /\ app.full
      BY <2>3 DEF ExchangeInv, DestroyShape, DestroyPcs
    <3> QED
      BY <2>3, <3>1 DEF ExchangeInv, DestroyShape, HeldTasks
  <2>4. CASE app.pc = "dropMonitor" /\ app.full
    BY <2>4 DEF ExchangeInv, DestroyShape, DestroyPcs, HeldTasks
  <2> QED
    BY <2>1, <2>2, <2>3, <2>4
<1> QED
  BY <1>1 DEF ExchangeInv, TasksAreHeld, BodiesHaveQueues, Alive

LEMMA ClientIsGone ==
    ASSUME ExchangeInv, app.pc = "dropMonitor"
    PROVE  body["client"].pc = "none"
<1>1. "client" \notin HeldTasks
  BY DEF ExchangeInv, DestroyShape, DestroyPcs, HeldTasks
<1> QED
  BY <1>1 DEF ExchangeInv, TasksAreHeld, Roles

LEMMA AliveHasRecord ==
    ASSUME ExchangeInv, NEW r \in Roles, body[r].pc # "none"
    PROVE  pair.in_use
  BY NoTasks

\* No entry is forgotten, and none is cleared that is somebody else's.
LEMMA EntriesStep ==
    ASSUME ExchangeInv, [ExchangeNext]_exchangeVars
    PROVE  EntriesAreHeld'
<1>1. CASE Reserve
  <2>1. /\ UNCHANGED monitor /\ app.pc = "idle" /\ app.got = NothingGot /\ ~pair.in_use
    BY <1>1, ReserveEffect, Blank DEF ExchangeInv, CallShape, DestroyPcs
  <2>2. monitor = {}
    BY <2>1, Blank DEF ExchangeInv, EntriesAreHeld
  <2>3. CASE UNCHANGED <<pair, app>>
    BY <2>1, <2>3 DEF ExchangeInv, EntriesAreHeld
  <2>4. CASE pair'.index = NoIndices /\ app' = [IdleApp EXCEPT !.pc = "cs"]
    <3>1. app'.pc = "cs" /\ app'.got = NothingGot
      BY <2>4 DEF IdleApp
    <3> QED
      BY <2>1, <2>2, <2>4, <3>1, Blank DEF EntriesAreHeld, NoIndices
  <2> QED
    BY <1>1, <2>3, <2>4, ReserveEffect DEF ExchangeInv
<1>2. ASSUME NEW q \in Queues, CreateQueue(q) PROVE EntriesAreHeld'
  BY <1>2, CreateQueueEffect DEF ExchangeInv, EntriesAreHeld, Queues
<1>3. CASE StepFails
  BY <1>3, GotoEffect DEF ExchangeInv, EntriesAreHeld, StepFails, kernelVars
<1>4. CASE Spawn
  BY <1>4, GotoEffect DEF ExchangeInv, EntriesAreHeld, Spawn
<1>5. CASE RecordTask
  BY <1>5, RecordTaskEffect DEF ExchangeInv, EntriesAreHeld
<1>6. CASE LoseEntry
  BY <1>6, GotoEffect DEF ExchangeInv, EntriesAreHeld, LoseEntry
<1>7. CASE StoreIndex
  <2>1. /\ app.pc = "index" /\ app'.pc = "link" /\ app.role \in Roles
        /\ app'.got = app.got /\ UNCHANGED monitor
        /\ pair'.in_use = pair.in_use
        /\ pair'.index[app.role] = OwnIndex(app.role)
        /\ \A x \in Roles : x # app.role => pair'.index[x] = pair.index[x]
    BY <1>7, StoreIndexEffect DEF ExchangeInv
  <2>2. pair.in_use /\ OwnIndex(app.role) >= 0
    BY <2>1 DEF ExchangeInv, CallShape, OwnIndex
  <2> QED
    BY <2>1, <2>2 DEF ExchangeInv, EntriesAreHeld
<1>8. CASE LinkEntries
  <2>1. /\ UNCHANGED <<pair, monitor>> /\ app.pc = "link" /\ app'.got = app.got
        /\ app'.pc # "index"
    BY <1>8, LinkEntriesEffect, Blank DEF ExchangeInv, CallShape, DestroyPcs
  <2> QED
    BY <2>1, Blank DEF ExchangeInv, EntriesAreHeld
<1>9. ASSUME NEW r \in Roles, UndoTask(r) PROVE EntriesAreHeld'
  <2>1. /\ UNCHANGED monitor /\ pair'.index = pair.index /\ app'.got = app.got
        /\ pair'.in_use = pair.in_use
        /\ app.pc # "index" /\ app'.pc # "index"
    BY <1>9, UndoTaskEffect DEF ExchangeInv
  <2> QED
    BY <2>1 DEF ExchangeInv, EntriesAreHeld
<1>10. CASE UndoQueues
  BY <1>10, UndoQueuesEffect DEF ExchangeInv, EntriesAreHeld
<1>11. CASE UndoMonitor
  <2>1. /\ app.pc = "undoMonitor" /\ pair' = FreePair /\ app' = IdleApp
        /\ monitor' = monitor \ {r \in Roles : pair.index[r] >= 0}
    BY <1>11 DEF UndoMonitor
  <2>2. monitor \subseteq {r \in Roles : pair.index[r] >= 0}
    BY <2>1, Blank DEF ExchangeInv, CallShape, EntriesAreHeld, DestroyPcs
  <2> QED
    BY <2>1, <2>2, Blank DEF EntriesAreHeld
<1>12. CASE Take("PAIR")
  <2>1. /\ app.pc = "idle" /\ app.got = NothingGot /\ UNCHANGED monitor
        /\ pair.in_use /\ pair'.in_use /\ app'.pc = "dropClient"
    BY <1>12, TakeEffect DEF Modes, Take, ExchangeInv, CallShape, DestroyPcs
  <2>2. pair.index \in [Roles -> {-1, 0, 1, 2}]
    BY DEF ExchangeInv, ExchangeTypeOK, Pair_t
  <2>3. /\ monitor = {r \in Roles : pair.index[r] >= 0}
        /\ \A r \in Roles : pair.index[r] \in {-1, OwnIndex(r)}
    BY <2>1, Blank DEF ExchangeInv, EntriesAreHeld
  <2>4. CASE /\ pair'.index = NoIndices
             /\ app'.got = [handles |-> pair.handles, queues |-> pair.queues,
                            entries |-> {r \in Roles : pair.index[r] >= 0}]
    <3>1. app'.got.entries = {r \in Roles : pair.index[r] >= 0}
      BY <2>4
    <3> QED
      BY <2>1, <2>3, <2>4, <3>1 DEF EntriesAreHeld, NoIndices
  <2>5. CASE /\ pair'.index = [pair.index EXCEPT !["client"] = -1]
             /\ app'.got = [handles |-> pair.handles \cap {"client"},
                  queues |-> {},
                            entries |-> {r \in {"client"} : pair.index[r] >= 0}]
    <3>1. app'.got.entries = {r \in {"client"} : pair.index[r] >= 0}
      BY <2>5
    <3>2. /\ pair'.index["client"] = -1
          /\ \A r \in Roles : r # "client" => pair'.index[r] = pair.index[r]
      BY <2>2, <2>5 DEF Roles
    <3>3. "client" \in Roles
      BY DEF Roles
    <3> QED
      BY <2>1, <2>3, <3>1, <3>2, <3>3 DEF EntriesAreHeld
  <2> QED
    BY <1>12, <2>4, <2>5, TakeEffect DEF ExchangeInv, Modes
<1>13. CASE Take("CLIENT_ONLY")
  <2>1. /\ app.pc = "idle" /\ app.got = NothingGot /\ UNCHANGED monitor
        /\ pair.in_use /\ pair'.in_use /\ app'.pc = "dropClient"
    BY <1>13, TakeEffect DEF Modes, Take, ExchangeInv, CallShape, DestroyPcs
  <2>2. pair.index \in [Roles -> {-1, 0, 1, 2}]
    BY DEF ExchangeInv, ExchangeTypeOK, Pair_t
  <2>3. /\ monitor = {r \in Roles : pair.index[r] >= 0}
        /\ \A r \in Roles : pair.index[r] \in {-1, OwnIndex(r)}
    BY <2>1, Blank DEF ExchangeInv, EntriesAreHeld
  <2>4. CASE /\ pair'.index = NoIndices
             /\ app'.got = [handles |-> pair.handles, queues |-> pair.queues,
                            entries |-> {r \in Roles : pair.index[r] >= 0}]
    <3>1. app'.got.entries = {r \in Roles : pair.index[r] >= 0}
      BY <2>4
    <3> QED
      BY <2>1, <2>3, <2>4, <3>1 DEF EntriesAreHeld, NoIndices
  <2>5. CASE /\ pair'.index = [pair.index EXCEPT !["client"] = -1]
             /\ app'.got = [handles |-> pair.handles \cap {"client"},
                  queues |-> {},
                            entries |-> {r \in {"client"} : pair.index[r] >= 0}]
    <3>1. app'.got.entries = {r \in {"client"} : pair.index[r] >= 0}
      BY <2>5
    <3>2. /\ pair'.index["client"] = -1
          /\ \A r \in Roles : r # "client" => pair'.index[r] = pair.index[r]
      BY <2>2, <2>5 DEF Roles
    <3>3. "client" \in Roles
      BY DEF Roles
    <3> QED
      BY <2>1, <2>3, <3>1, <3>2, <3>3 DEF EntriesAreHeld
  <2> QED
    BY <1>13, <2>4, <2>5, TakeEffect DEF ExchangeInv, Modes
<1>14. ASSUME NEW r \in Roles, DropTask(r) PROVE EntriesAreHeld'
  <2>1. UNCHANGED <<pair, monitor>>
    BY <1>14 DEF DropTask
  <2>2. /\ app'.got.entries = app.got.entries
        /\ app.pc # "index" /\ app'.pc # "index"
    BY <1>14, DropTaskEffect DEF ExchangeInv
  <2> QED
    BY <2>1, <2>2 DEF ExchangeInv, EntriesAreHeld
<1>15. CASE DropQueues
  BY <1>15, GotoEffect DEF ExchangeInv, EntriesAreHeld, DropQueues
<1>16. CASE DropMonitor
  <2>1. /\ app.pc = "dropMonitor" /\ app' = IdleApp
        /\ monitor' = monitor \ app.got.entries
        /\ pair' = IF app.full THEN FreePair ELSE pair
    BY <1>16 DEF DropMonitor
  <2>2. /\ monitor = {r \in Roles : pair.in_use /\ pair.index[r] >= 0} \cup app.got.entries
        /\ pair.in_use /\ \A r \in Roles : pair.index[r] \in {-1, OwnIndex(r)}
    BY <2>1 DEF ExchangeInv, CallShape, EntriesAreHeld
  <2>3. CASE app.full
    <3>1. pair.index = NoIndices
      BY <2>1, <2>3 DEF ExchangeInv, DestroyShape, DestroyPcs
    <3>2. monitor' = {}
      BY <2>1, <2>2, <3>1 DEF NoIndices
    <3> QED
      BY <2>1, <2>3, <3>2, Blank DEF EntriesAreHeld
  <2>4. CASE ~app.full
    <3>1. \A r \in app.got.entries : r = "client" /\ pair.index[r] = -1
      BY <2>1, <2>4 DEF ExchangeInv, DestroyShape, DestroyPcs
    <3>2. monitor' = {r \in Roles : pair.in_use /\ pair.index[r] >= 0}
      BY <2>1, <2>2, <3>1
    <3> QED
      BY <2>1, <2>2, <2>4, <3>2, Blank DEF EntriesAreHeld
  <2> QED
    BY <2>3, <2>4
<1>17. ASSUME FillTheSpec \/ Refuse \/ (\E r \in Roles : ReadFirst(r))
     \/ (\E r \in Roles : ReadSecond(r))
     \/ (\E r \in Roles : DeleteSelf(r)) \/ (\E r \in Roles : Send(r))
     \/ (\E r \in Roles : Receive(r)) \/ (\E r \in Roles : LookUpIndex(r))
     \/ (\E r \in Roles : EnterMonitor(r)) \/ (\E r \in Roles : ExitMonitor(r))
      PROVE  UNCHANGED <<monitor, pair, app>>
  BY <1>17 DEF FillTheSpec, Refuse, ReadFirst, ReadSecond, DeleteSelf, Send,
       Receive, LookUpIndex, EnterMonitor, ExitMonitor, kernelVars
<1>18. CASE UNCHANGED <<monitor, pair, app>>
  BY <1>18 DEF ExchangeInv, EntriesAreHeld
<1> QED
  BY <1>1, <1>2, <1>3, <1>4, <1>5, <1>6, <1>7, <1>8, <1>9, <1>10, <1>11,
       <1>12, <1>13, <1>14, <1>15, <1>16, <1>17, <1>18
     DEF ExchangeNext, AppStep, AppContinue, BodyStep, exchangeVars

\* A task keeps its queues while it runs.
LEMMA BodiesStep ==
    ASSUME ExchangeInv, [ExchangeNext]_exchangeVars
    PROVE  BodiesHaveQueues'
<1>1. ASSUME NEW q \in Queues, CreateQueue(q) PROVE BodiesHaveQueues'
  BY <1>1, CreateQueueEffect DEF ExchangeInv, BodiesHaveQueues, Exchanging,
       Alive
<1>2. CASE Spawn
  <2>1. /\ \A x \in Roles : x # app.role => body'[x] = body[x]
        /\ body'[app.role].pc \in {"rest",
             "readFirst"} /\ body'[app.role].got = {}
        /\ UNCHANGED exists
    BY <1>2, SpawnEffect DEF ExchangeInv, Spawn
  <2> QED
    BY <2>1 DEF ExchangeInv, BodiesHaveQueues, Exchanging, Alive
<1>3. CASE LoseEntry
  <2>1. app.role \in Roles /\ UNCHANGED exists
    BY <1>3 DEF LoseEntry, ExchangeInv, ExchangeTypeOK, App_t
  <2> QED
    BY <1>3, <2>1, DeleteEffect
       DEF LoseEntry, ExchangeInv, BodiesHaveQueues, Exchanging, Alive
<1>4. ASSUME NEW r \in Roles, UndoTask(r) PROVE BodiesHaveQueues'
  BY <1>4, DeleteEffect DEF UndoTask, ExchangeInv, BodiesHaveQueues,
       Exchanging, Alive
<1>5. CASE UndoQueues
  BY <1>5, NoTasks, UndoQueuesEffect DEF ExchangeInv, BodiesHaveQueues,
       Exchanging, Alive
<1>6. ASSUME NEW r \in Roles, DropTask(r) PROVE BodiesHaveQueues'
  BY <1>6, DeleteEffect DEF DropTask, ExchangeInv, BodiesHaveQueues,
       Exchanging, Alive
<1>7. CASE DropQueues
  <2>1. app.pc = "dropQueues" /\ UNCHANGED body
    BY <1>7 DEF DropQueues
  <2> QED
    BY <2>1, NoTasks DEF BodiesHaveQueues, Exchanging
<1>8. ASSUME NEW r \in Roles, ReadFirst(r) PROVE BodiesHaveQueues'
  <2>1. /\ \A x \in Roles : x # r => body'[x] = body[x]
        /\ body'[r].pc = "readSecond" /\ body'[r].got \subseteq pair.queues
        /\ UNCHANGED exists
    BY <1>8, ReadFirstEffect DEF ExchangeInv, ReadFirst
  <2>2. pair.queues \subseteq exists
    BY DEF ExchangeInv, QueuesAreHeld
  <2> QED
    BY <2>1, <2>2 DEF ExchangeInv, BodiesHaveQueues, Exchanging, Alive
<1>9. ASSUME NEW r \in Roles, ReadSecond(r) PROVE BodiesHaveQueues'
  <2>1. /\ \A x \in Roles : x # r => body'[x] = body[x]
        /\ body'[r].got \subseteq body[r].got \cup pair.queues
        /\ body'[r].pc = IF body'[r].got # Queues THEN "missing"
                         ELSE IF r = "client" THEN "send" ELSE "receive"
        /\ UNCHANGED exists
    BY <1>9, ReadSecondEffect DEF ExchangeInv, ReadSecond
  <2>2. pair.queues \subseteq exists
    BY DEF ExchangeInv, QueuesAreHeld
  <2> QED
    BY <2>1, <2>2 DEF ExchangeInv, BodiesHaveQueues, Exchanging, Alive
<1>10. ASSUME NEW r \in Roles, DeleteSelf(r) PROVE BodiesHaveQueues'
  BY <1>10, DeleteSelfEffect DEF DeleteSelf, ExchangeInv, BodiesHaveQueues,
       Exchanging, Alive
<1>11. ASSUME NEW r \in Roles, Send(r) PROVE BodiesHaveQueues'
  <2>1. /\ \A x \in Roles : x # r => body'[x] = body[x]
        /\ body'[r].got = body[r].got
        /\ body[r].pc = "send" /\ body'[r].pc \notin {"none", "gone"}
        /\ UNCHANGED exists
    BY <1>11, SendEffect DEF ExchangeInv, Send, NextRound
  <2> QED
    BY <2>1 DEF ExchangeInv, BodiesHaveQueues, Exchanging, Alive
<1>12. ASSUME NEW r \in Roles, Receive(r) PROVE BodiesHaveQueues'
  <2>1. /\ \A x \in Roles : x # r => body'[x] = body[x]
        /\ body'[r].got = body[r].got
        /\ body[r].pc = "receive" /\ body'[r].pc \notin {"none", "gone"}
        /\ UNCHANGED exists
    BY <1>12, ReceiveEffect DEF ExchangeInv, Receive, InQueue, NextRound
  <2> QED
    BY <2>1 DEF ExchangeInv, BodiesHaveQueues, Exchanging, Alive
<1>13. ASSUME NEW r \in Roles, LookUpIndex(r) PROVE BodiesHaveQueues'
  BY <1>13, LookUpIndexEffect DEF LookUpIndex, ExchangeInv, BodiesHaveQueues,
       Exchanging, Alive
<1>14. ASSUME NEW r \in Roles, EnterMonitor(r) PROVE BodiesHaveQueues'
  BY <1>14, EnterMonitorEffect DEF EnterMonitor, ExchangeInv,
       BodiesHaveQueues, Exchanging, Alive
<1>15. ASSUME NEW r \in Roles, ExitMonitor(r) PROVE BodiesHaveQueues'
  BY <1>15, ExitMonitorEffect DEF ExitMonitor, ExchangeInv, BodiesHaveQueues,
       Exchanging, Alive
<1>16. ASSUME FillTheSpec \/ Refuse \/ Reserve \/ StepFails \/ RecordTask
     \/ StoreIndex \/ LinkEntries \/ UndoMonitor \/ Take("PAIR")
     \/ Take("CLIENT_ONLY") \/ DropMonitor
      PROVE  UNCHANGED <<body, exists>>
  BY <1>16 DEF FillTheSpec, Refuse, Reserve, StepFails, RecordTask,
       StoreIndex, LinkEntries, UndoMonitor, Take, DropMonitor, kernelVars
<1>17. CASE UNCHANGED <<body, exists>>
  BY <1>17 DEF ExchangeInv, BodiesHaveQueues, Exchanging, Alive
<1> QED
  BY <1>1, <1>2, <1>3, <1>4, <1>5, <1>6, <1>7, <1>8, <1>9, <1>10, <1>11,
       <1>12, <1>13, <1>14, <1>15, <1>16, <1>17
     DEF ExchangeNext, AppStep, AppContinue, BodyStep, exchangeVars

\* An index a task has read stays its own.
LEMMA ReportsStep ==
    ASSUME ExchangeInv, [ExchangeNext]_exchangeVars
    PROVE  ReportsUnderOwnIndex'
<1>1. CASE Spawn
  BY <1>1, SpawnEffect DEF Spawn, ExchangeInv, ReportsUnderOwnIndex
<1>2. CASE RecordTask
  BY <1>2, RecordTaskEffect DEF ExchangeInv, ReportsUnderOwnIndex
<1>3. CASE LoseEntry
  <2>1. app.role \in Roles /\ UNCHANGED monitor
    BY <1>3 DEF LoseEntry, ExchangeInv, ExchangeTypeOK, App_t
  <2> QED
    BY <1>3, <2>1, DeleteEffect DEF LoseEntry, ExchangeInv,
         ReportsUnderOwnIndex
<1>4. ASSUME NEW r \in Roles, UndoTask(r) PROVE ReportsUnderOwnIndex'
  BY <1>4, DeleteEffect DEF UndoTask, ExchangeInv, ReportsUnderOwnIndex
<1>5. CASE UndoMonitor
  <2>1. app.pc = "undoMonitor" /\ UNCHANGED body
    BY <1>5 DEF UndoMonitor, kernelVars
  <2> QED
    BY <2>1, NoTasks DEF ReportsUnderOwnIndex
<1>6. ASSUME NEW r \in Roles, DropTask(r) PROVE ReportsUnderOwnIndex'
  BY <1>6, DeleteEffect DEF DropTask, ExchangeInv, ReportsUnderOwnIndex
<1>7. CASE DropMonitor
  <2>1. /\ app.pc = "dropMonitor" /\ UNCHANGED body
        /\ monitor' = monitor \ app.got.entries
    BY <1>7 DEF DropMonitor, kernelVars
  <2>2. CASE app.full
    BY <2>1, <2>2, NoTasks DEF ReportsUnderOwnIndex
  <2>3. CASE ~app.full
    <3>1. app.got.entries \subseteq {"client"}
      BY <2>1, <2>3 DEF ExchangeInv, DestroyShape, DestroyPcs
    <3> QED
      BY <2>1, <3>1, ClientIsGone DEF ExchangeInv, ReportsUnderOwnIndex
  <2> QED
    BY <2>2, <2>3
<1>8. ASSUME NEW r \in Roles, ReadFirst(r) PROVE ReportsUnderOwnIndex'
  BY <1>8, ReadFirstEffect DEF ReadFirst, ExchangeInv, ReportsUnderOwnIndex,
       NextRound
<1>9. ASSUME NEW r \in Roles, ReadSecond(r) PROVE ReportsUnderOwnIndex'
  BY <1>9, ReadSecondEffect DEF ReadSecond, ExchangeInv,
       ReportsUnderOwnIndex, NextRound
<1>10. ASSUME NEW r \in Roles, DeleteSelf(r) PROVE ReportsUnderOwnIndex'
  BY <1>10, DeleteSelfEffect DEF DeleteSelf, ExchangeInv,
       ReportsUnderOwnIndex, NextRound
<1>11. ASSUME NEW r \in Roles, Send(r) PROVE ReportsUnderOwnIndex'
  BY <1>11, SendEffect DEF Send, ExchangeInv, ReportsUnderOwnIndex, NextRound
<1>12. ASSUME NEW r \in Roles, Receive(r) PROVE ReportsUnderOwnIndex'
  BY <1>12, ReceiveEffect DEF Receive, InQueue, ExchangeInv,
       ReportsUnderOwnIndex, NextRound
<1>13. ASSUME NEW r \in Roles, LookUpIndex(r) PROVE ReportsUnderOwnIndex'
  <2>1. /\ \A x \in Roles : x # r => body'[x] = body[x]
        /\ body'[r].index = pair.index[r] /\ body[r].pc = "lookup"
        /\ UNCHANGED monitor
    BY <1>13, LookUpIndexEffect DEF ExchangeInv, LookUpIndex
  <2>2. pair.in_use
    BY <2>1, AliveHasRecord
  <2>3. pair.index[r] # -1 => pair.index[r] = OwnIndex(r) /\ r \in monitor
    BY <2>2 DEF ExchangeInv, EntriesAreHeld, OwnIndex
  <2> QED
    BY <2>1, <2>3 DEF ExchangeInv, ReportsUnderOwnIndex
<1>14. ASSUME NEW r \in Roles, EnterMonitor(r) PROVE ReportsUnderOwnIndex'
  BY <1>14, EnterMonitorEffect DEF EnterMonitor, ExchangeInv,
       ReportsUnderOwnIndex, NextRound
<1>15. ASSUME NEW r \in Roles, ExitMonitor(r) PROVE ReportsUnderOwnIndex'
  BY <1>15, ExitMonitorEffect DEF ExitMonitor, ExchangeInv,
       ReportsUnderOwnIndex, NextRound
<1>16. ASSUME FillTheSpec \/ Refuse \/ Reserve \/ StepFails \/ StoreIndex
     \/ LinkEntries \/ UndoQueues \/ Take("PAIR") \/ Take("CLIENT_ONLY")
     \/ DropQueues \/ (\E q \in Queues : CreateQueue(q))
      PROVE  UNCHANGED <<body, monitor>>
  BY <1>16 DEF FillTheSpec, Refuse, Reserve, CreateQueue, StepFails,
       StoreIndex, LinkEntries, UndoQueues, Take, DropQueues, kernelVars
<1>17. CASE UNCHANGED <<body, monitor>>
  BY <1>17 DEF ExchangeInv, ReportsUnderOwnIndex
<1> QED
  BY <1>1, <1>2, <1>3, <1>4, <1>5, <1>6, <1>7, <1>8, <1>9, <1>10, <1>11,
       <1>12, <1>13, <1>14, <1>15, <1>16, <1>17
     DEF ExchangeNext, AppStep, AppContinue, BodyStep, exchangeVars


-----------------------------------------------------------------------------
(* The conversation of the two tasks.                                      *)

\* Most steps neither send nor take a message: the tasks they touch end up
\* outside the exchange, or stay where they were in it.
LEMMA Quiet ==
    ASSUME ExchangeInv, UNCHANGED <<content, exists>>,
           NotWaiting' => NotWaiting \/ Unstarted,
           Unstarted' => Unstarted,
           body'["client"].pc = "receive" =>
               body'["client"] = body["client"] /\ pair'.code = pair.code,
           body'["server"].pc = "send" => body'["server"] = body["server"]
    PROVE  Conversation'
<1>1. OneInFlight'
  BY DEF ExchangeInv, Conversation, OneInFlight
<1>2. NotWaiting' \/ Unstarted' => NoneInFlight'
  <2>1. NotWaiting' \/ Unstarted' => NotWaiting \/ Unstarted
    OBVIOUS
  <2> QED
    BY <2>1 DEF ExchangeInv, Conversation, NoneInFlight
<1>3. Carried'
  BY DEF ExchangeInv, Conversation, Carried, Answer
<1>4. \A q \in Queues : content'[q] # <<>> => q \in exists'
  BY DEF ExchangeInv, Conversation
<1> QED
  BY <1>1, <1>2, <1>3, <1>4 DEF Conversation

\* Before its client there is no task.
LEMMA UnstartedHasNoTask ==
    ASSUME ExchangeInv, Unstarted
    PROVE  \A r \in Roles : body[r].pc = "none"
<1>1. HeldTasks = {}
  <2>1. app.role = "client" /\ app.got = NothingGot /\ pair.handles = {}
    BY DEF Unstarted, ExchangeInv, CallShape, CreateShape, DestroyPcs
  <2> QED
    BY <2>1, Blank DEF Unstarted, HeldTasks
<1> QED
  BY <1>1 DEF ExchangeInv, TasksAreHeld

\* No task, nothing said.
LEMMA Silence ==
    ASSUME ExchangeInv, ~pair.in_use
    PROVE  NoneInFlight
<1>1. exists = {}
  BY Blank DEF ExchangeInv, QueuesAreHeld, CallShape
<1>2. content["cs"] = <<>> /\ content["sc"] = <<>>
  BY <1>1 DEF ExchangeInv, Conversation, Queues
<1> QED
  BY <1>2, NoTasks DEF NoneInFlight, Roles

\* Queues go when nobody uses them.
LEMMA QueuesGo ==
    ASSUME ExchangeInv, NEW qs, DeleteQueues(qs), UNCHANGED body,
           app.pc \in {"undoQueues", "dropQueues"}, ~Unstarted'
    PROVE  Conversation'
<1>1. body["client"].pc = "none" /\ body["server"].pc = "none"
  BY NoTasks DEF Roles
<1>2. \A q \in Queues : content'[q] = <<>> \/ (q \notin qs /\ content'[q] = content[q])
  BY QueuesEmptied DEF ExchangeInv
<1>3. OneInFlight'
  BY <1>1, <1>2 DEF ExchangeInv, Conversation, OneInFlight, Queues
<1>4. ~NotWaiting' /\ Carried'
  BY <1>1 DEF NotWaiting, Carried, Alive
<1>5. \A q \in Queues : content'[q] # <<>> => q \in exists'
  BY <1>2 DEF DeleteQueues, ExchangeInv, Conversation
<1> QED
  BY <1>3, <1>4, <1>5 DEF Conversation

LEMMA SendConversation ==
    ASSUME ExchangeInv, NEW r \in Roles, Send(r)
    PROVE  Conversation'
<1>1. /\ body[r].pc = "send" /\ UNCHANGED <<exists, pair, app>>
      /\ \A x \in Roles : x # r => body'[x] = body[x]
      /\ "client" \in Roles /\ "server" \in Roles /\ "client" # "server"
  BY SendEffect DEF Send, ExchangeInv, Roles
<1>2. pair.queue_depth > 0 /\ pair.queue_depth \in Nat
  BY <1>1, AliveHasRecord DEF ExchangeInv, CallShape, ExchangeTypeOK, Pair_t
<1>3. exists = Queues
  BY <1>1 DEF ExchangeInv, BodiesHaveQueues, Exchanging, ExchangeTypeOK
<1>4. ~Unstarted' /\ ~Unstarted
  <2>1. ~Unstarted
    BY <1>1, UnstartedHasNoTask
  <2> QED
    BY <1>1, <2>1 DEF Unstarted
<1>5. \A q \in Queues : content'[q] # <<>> => q \in exists'
  BY <1>1, <1>3
<1>6. CASE r = "client"
  <2>1. NoneInFlight
    BY <1>1, <1>6 DEF ExchangeInv, Conversation, NotWaiting, Alive
  <2>2. HasRoom("cs") /\ InQueue(r) = "sc" /\ OutQueue(r) = "cs"
    BY <1>2, <1>6, <2>1 DEF HasRoom, NoneInFlight, InQueue, OutQueue
  <2>3. /\ content'["cs"] = Append(content["cs"], Outgoing("client"))
        /\ content'["sc"] = content["sc"]
    BY <1>6, <2>2, SendContent DEF ExchangeInv
  <2>4. content'["cs"] = <<Outgoing("client")>> /\ content'["sc"] = <<>>
    BY <2>1, <2>3 DEF NoneInFlight
  <2>5. /\ body'["client"].pc = "receive" /\ body'["client"].value = Outgoing("client")
        /\ body'["server"] = body["server"]
    BY <1>1, <1>6, SendEffect DEF ExchangeInv
  <2>6. OneInFlight' /\ ~NotWaiting'
    BY <2>1, <2>4, <2>5 DEF OneInFlight, NoneInFlight, NotWaiting
  <2>7. Carried'
    BY <2>1, <2>4, <2>5 DEF Carried, NoneInFlight
  <2> QED
    BY <1>4, <1>5, <2>6, <2>7 DEF Conversation
<1>7. CASE r = "server"
  <2>1. /\ content["cs"] = <<>> /\ content["sc"] = <<>>
        /\ ~NotWaiting
    BY <1>1, <1>7 DEF ExchangeInv, Conversation, OneInFlight, NoneInFlight
  <2>2. HasRoom("sc") /\ InQueue(r) = "cs" /\ OutQueue(r) = "sc"
    BY <1>2, <1>7, <2>1 DEF HasRoom, InQueue, OutQueue
  <2> DEFINE a == Answer(pair.code, body["server"].value)
  <2>3. Outgoing(r) = a
    BY <1>7 DEF Outgoing
  <2> HIDE DEF a
  <2>4. /\ content'["sc"] = Append(content["sc"], a)
        /\ content'["cs"] = content["cs"]
    BY <2>2, <2>3, SendContent DEF ExchangeInv
  <2>5. content'["sc"] = <<a>> /\ content'["cs"] = <<>>
    BY <2>1, <2>4
  <2>6. /\ body'["server"].pc \in {"lookup", "receive"}
        /\ body'["client"] = body["client"]
    BY <1>1, <1>7, SendEffect DEF ExchangeInv, NextRound
  <2>7. OneInFlight' /\ ~NotWaiting'
    BY <2>1, <2>5, <2>6 DEF OneInFlight, NotWaiting, Alive
  <2>8. Carried'
    <3>1. body["client"].pc = "receive" => a = Answer(pair.code, body["client"].value)
      BY <1>1, <1>7 DEF a, ExchangeInv, Conversation, Carried
    <3> QED
      BY <1>1, <2>5, <2>6, <3>1 DEF Carried, Answer
  <2> QED
    BY <1>4, <1>5, <2>7, <2>8 DEF Conversation
<1> QED
  BY <1>6, <1>7 DEF Roles

LEMMA TailOfOne ==
    ASSUME NEW S, NEW s \in Seq(S), Len(s) = 1
    PROVE  Tail(s) = <<>>
<1>1. Tail(s) \in Seq(S) /\ Len(Tail(s)) = 0
  OBVIOUS
<1> QED
  BY <1>1, EmptySeq

LEMMA ReceiveConversation ==
    ASSUME ExchangeInv, NEW r \in Roles, Receive(r)
    PROVE  Conversation'
<1>1. /\ body[r].pc = "receive" /\ UNCHANGED <<exists, pair, app>>
      /\ \A x \in Roles : x # r => body'[x] = body[x]
      /\ "client" \in Roles /\ "server" \in Roles /\ "client" # "server"
      /\ content[InQueue(r)] # <<>>
  BY ReceiveEffect DEF Receive, InQueue, ExchangeInv, Roles
<1>2. /\ content["cs"] \in Seq(Requests) /\ content["sc"] \in Seq(Messages)
      /\ content'["cs"] \in Seq(Requests) /\ content'["sc"] \in Seq(Messages)
  <2>1. content' \in [Queues -> Seq(Messages)] /\ content'["cs"] \in Seq(Requests)
    BY ReceiveContent DEF ExchangeInv
  <2> QED
    BY <2>1 DEF ExchangeInv, ExchangeTypeOK, Queues
<1>3. exists = Queues
  BY <1>1 DEF ExchangeInv, BodiesHaveQueues, Exchanging, ExchangeTypeOK
<1>4. ~Unstarted' /\ ~Unstarted
  <2>1. ~Unstarted
    BY <1>1, UnstartedHasNoTask
  <2> QED
    BY <1>1, <2>1 DEF Unstarted
<1>5. \A q \in Queues : content'[q] # <<>> => q \in exists'
  BY <1>1, <1>3
<1>6. CASE r = "client"
  <2>1. /\ content["cs"] = <<>> /\ Len(content["sc"]) = 1 /\ body["server"].pc # "send"
    BY <1>1, <1>6 DEF InQueue, ExchangeInv, Conversation, OneInFlight
  <2>2. InQueue(r) = "sc" /\ OutQueue(r) = "cs"
    BY <1>6 DEF InQueue, OutQueue
  <2>3. content'["sc"] = Tail(content["sc"]) /\ content'["cs"] = content["cs"]
    BY <2>2, ReceiveContent DEF ExchangeInv
  <2>4. content'["sc"] = <<>> /\ content'["cs"] = <<>>
    BY <1>2, <2>1, <2>3, TailOfOne
  <2>5. body'["client"].pc # "receive" /\ body'["server"] = body["server"]
    BY <1>1, <1>6, ReceiveEffect DEF ExchangeInv, NextRound
  <2>6. OneInFlight' /\ NoneInFlight' /\ Carried'
    BY <2>1, <2>4, <2>5 DEF OneInFlight, NoneInFlight, Carried
  <2> QED
    BY <1>5, <2>6 DEF Conversation
<1>7. CASE r = "server"
  <2>1. /\ content["sc"] = <<>> /\ Len(content["cs"]) = 1 /\ ~NotWaiting
    BY <1>1, <1>7 DEF InQueue, ExchangeInv, Conversation, OneInFlight, NoneInFlight
  <2>2. InQueue(r) = "cs" /\ OutQueue(r) = "sc"
    BY <1>7 DEF InQueue, OutQueue
  <2>3. content'["cs"] = Tail(content["cs"]) /\ content'["sc"] = content["sc"]
    BY <2>2, ReceiveContent DEF ExchangeInv
  <2>4. content'["sc"] = <<>> /\ content'["cs"] = <<>>
    BY <1>2, <2>1, <2>3, TailOfOne
  <2>5. /\ body'["server"].pc = "send" /\ body'["server"].value = Head(content["cs"])
        /\ body'["client"] = body["client"]
    BY <1>1, <1>7, ReceiveEffect DEF ExchangeInv
  <2>6. OneInFlight' /\ ~NotWaiting'
    BY <2>1, <2>4, <2>5 DEF OneInFlight, NotWaiting, Alive
  <2>7. Carried'
    BY <1>1, <1>7, <2>4, <2>5 DEF InQueue, Carried, ExchangeInv, Conversation
  <2> QED
    BY <1>4, <1>5, <2>6, <2>7 DEF Conversation
<1> QED
  BY <1>6, <1>7 DEF Roles

\* Every step keeps to the conversation.
LEMMA ConversationStep ==
    ASSUME ExchangeInv, [ExchangeNext]_exchangeVars
    PROVE  Conversation'
<1>1. CASE Reserve
  <2>1. ~pair.in_use /\ UNCHANGED <<content, exists, body>>
    BY <1>1, ReserveEffect DEF ExchangeInv
  <2>2. NoneInFlight /\ \A r \in Roles : body[r].pc = "none"
    BY <2>1, NoTasks, Silence
  <2>3. NoneInFlight' /\ OneInFlight' /\ Carried'
    BY <2>1, <2>2 DEF NoneInFlight, OneInFlight, Carried, Roles
  <2> QED
    BY <2>1, <2>3 DEF ExchangeInv, Conversation
<1>2. ASSUME NEW q \in Queues, CreateQueue(q) PROVE Conversation'
  <2>1. Unstarted /\ UNCHANGED body
    BY <1>2, CreateQueueEffect DEF Unstarted, ExchangeInv, Queues
  <2>2. NoneInFlight /\ \A r \in Roles : body[r].pc = "none"
    BY <2>1, UnstartedHasNoTask DEF ExchangeInv, Conversation
  <2>3. \A x \in Queues : content'[x] = <<>>
    BY <1>2, <2>2, CreateQueueEffect DEF NoneInFlight, ExchangeInv, Queues
  <2> QED
    BY <2>1, <2>2, <2>3
       DEF Conversation, NoneInFlight, OneInFlight, Carried, Roles, Queues
<1>3. CASE StepFails
  <2>1. UNCHANGED <<content, exists, body, pair>> /\ ~Unstarted'
    BY <1>3, GotoEffect DEF StepFails, kernelVars, ExchangeInv, Unstarted
  <2> QED
    BY <2>1, Quiet DEF NotWaiting, Alive
<1>4. CASE Spawn
  <2>1. /\ \A x \in Roles : x # app.role => body'[x] = body[x]
        /\ body'[app.role].pc \in {"rest", "readFirst"}
        /\ UNCHANGED <<content, exists, pair>> /\ app.pc = "spawn"
        /\ app.role \in Roles
    BY <1>4, SpawnEffect DEF ExchangeInv, ExchangeTypeOK, App_t, Spawn
  <2>2. ~Unstarted'
    BY <1>4, GotoEffect DEF Spawn, ExchangeInv, Unstarted
  <2>3. app.role = "client" => Unstarted
    BY <2>1 DEF Unstarted
  <2> QED
    BY <2>1, <2>2, <2>3, Quiet DEF NotWaiting, Alive, Roles
<1>5. CASE RecordTask
  <2>1. UNCHANGED <<content, exists,
       body>> /\ pair'.code = pair.code /\ ~Unstarted'
    BY <1>5, RecordTaskEffect DEF ExchangeInv, Unstarted
  <2> QED
    BY <2>1, Quiet DEF NotWaiting, Alive
<1>6. CASE LoseEntry
  <2>1. /\ UNCHANGED <<content, exists, pair>> /\ app.role \in Roles
        /\ Delete(app.role) /\ app'.pc = "undoServer"
    BY <1>6, GotoEffect DEF LoseEntry, ExchangeInv, ExchangeTypeOK, App_t
  <2>2. /\ \A x \in Roles : x # app.role => body'[x] = body[x]
        /\ body'[app.role].pc = "none"
    BY <2>1, DeleteEffect DEF ExchangeInv
  <2> QED
    BY <2>1, <2>2, Quiet DEF NotWaiting, Unstarted, Alive, Roles
<1>7. CASE StoreIndex
  <2>1. UNCHANGED <<content, exists,
       body>> /\ pair'.code = pair.code /\ ~Unstarted'
    BY <1>7, StoreIndexEffect DEF ExchangeInv, Unstarted
  <2> QED
    BY <2>1, Quiet DEF NotWaiting, Alive
<1>8. CASE LinkEntries
  <2>1. UNCHANGED <<content, exists, body, pair>> /\ ~Unstarted'
    BY <1>8, LinkEntriesEffect, Blank DEF ExchangeInv, Unstarted
  <2> QED
    BY <2>1, Quiet DEF NotWaiting, Alive
<1>9. ASSUME NEW r \in Roles, UndoTask(r) PROVE Conversation'
  <2>1. /\ UNCHANGED <<content, exists>> /\ pair'.code = pair.code
        /\ app'.pc \in {"undoClient", "undoQueues"}
    BY <1>9, UndoTaskEffect DEF ExchangeInv
  <2>2. /\ \A x \in Roles : x # r => body'[x] = body[x]
        /\ body'[r].pc = "none" \/ body'[r] = body[r]
    BY <1>9, DeleteEffect DEF UndoTask, ExchangeInv
  <2> QED
    BY <2>1, <2>2, Quiet DEF NotWaiting, Unstarted, Alive, Roles
<1>10. CASE UndoQueues
  <2>1. /\ app.pc = "undoQueues" /\ UNCHANGED body /\ DeleteQueues(pair.queues)
        /\ app'.pc = "undoMonitor"
    BY <1>10, GotoEffect DEF UndoQueues, ExchangeInv
  <2> QED
    BY <2>1, QueuesGo DEF Unstarted
<1>11. CASE UndoMonitor
  <2>1. app.pc = "undoMonitor" /\ UNCHANGED <<content, exists,
       body>> /\ app'.pc = "idle"
    BY <1>11, Blank DEF UndoMonitor, kernelVars
  <2> QED
    BY <2>1, NoTasks, Quiet DEF NotWaiting, Unstarted, Alive, Roles
<1>12. CASE Take("PAIR")
  <2>1. UNCHANGED <<content, exists,
       body>> /\ pair'.code = pair.code /\ ~Unstarted'
    BY <1>12, TakeEffect DEF ExchangeInv, Unstarted, Modes, Take, kernelVars
  <2> QED
    BY <2>1, Quiet DEF NotWaiting, Alive
<1>13. CASE Take("CLIENT_ONLY")
  <2>1. UNCHANGED <<content, exists,
       body>> /\ pair'.code = pair.code /\ ~Unstarted'
    BY <1>13, TakeEffect DEF ExchangeInv, Unstarted, Modes, Take, kernelVars
  <2> QED
    BY <2>1, Quiet DEF NotWaiting, Alive
<1>14. ASSUME NEW r \in Roles, DropTask(r) PROVE Conversation'
  <2>1. UNCHANGED <<content, exists, pair>>
    BY <1>14 DEF DropTask
  <2>2. app'.pc \in {"dropServer", "dropQueues", "dropMonitor"}
    BY <1>14, DropTaskEffect DEF ExchangeInv
  <2>3. /\ \A x \in Roles : x # r => body'[x] = body[x]
        /\ body'[r].pc = "none" \/ body'[r] = body[r]
    BY <1>14, DeleteEffect DEF DropTask, ExchangeInv
  <2> QED
    BY <2>1, <2>2, <2>3, Quiet DEF NotWaiting, Unstarted, Alive, Roles
<1>15. CASE DropQueues
  <2>1. /\ app.pc = "dropQueues" /\ UNCHANGED body /\ DeleteQueues(app.got.queues)
        /\ app'.pc = "dropMonitor"
    BY <1>15, GotoEffect DEF DropQueues, ExchangeInv
  <2> QED
    BY <2>1, QueuesGo DEF Unstarted
<1>16. CASE DropMonitor
  <2>1. /\ app.pc = "dropMonitor" /\ UNCHANGED <<content, exists, body>>
        /\ app'.pc = "idle" /\ body["client"].pc = "none"
    BY <1>16, Blank, ClientIsGone DEF DropMonitor, kernelVars
  <2> QED
    BY <2>1, Quiet DEF NotWaiting, Unstarted, Alive
<1>17. ASSUME NEW r \in Roles, ReadFirst(r) PROVE Conversation'
  <2>1. /\ \A x \in Roles : x # r => body'[x] = body[x]
        /\ body'[r].pc # "send" \/ r = "client"
        /\ r = "client" => /\ body[r].pc \notin {"none", "receive"}
                           /\ body'[r].pc # "receive"
                           /\ body[r].pc = "gone" => body'[r].pc = "gone"
        /\ UNCHANGED <<content, exists, pair, app>>
    BY <1>17, ReadFirstEffect DEF ExchangeInv, ReadFirst
  <2> QED
    BY <2>1, Quiet DEF NotWaiting, Unstarted, Alive, Roles
<1>18. ASSUME NEW r \in Roles, ReadSecond(r) PROVE Conversation'
  <2>1. /\ \A x \in Roles : x # r => body'[x] = body[x]
        /\ body'[r].pc # "send" \/ r = "client"
        /\ r = "client" => /\ body[r].pc \notin {"none", "receive"}
                           /\ body'[r].pc # "receive"
                           /\ body[r].pc = "gone" => body'[r].pc = "gone"
        /\ UNCHANGED <<content, exists, pair, app>>
    BY <1>18, ReadSecondEffect DEF ExchangeInv, ReadSecond
  <2> QED
    BY <2>1, Quiet DEF NotWaiting, Unstarted, Alive, Roles
<1>19. ASSUME NEW r \in Roles, DeleteSelf(r) PROVE Conversation'
  <2>1. /\ \A x \in Roles : x # r => body'[x] = body[x]
        /\ body'[r].pc # "send" \/ r = "client"
        /\ r = "client" => /\ body[r].pc \notin {"none", "receive"}
                           /\ body'[r].pc # "receive"
                           /\ body[r].pc = "gone" => body'[r].pc = "gone"
        /\ UNCHANGED <<content, exists, pair, app>>
    BY <1>19, DeleteSelfEffect DEF ExchangeInv, DeleteSelf
  <2> QED
    BY <2>1, Quiet DEF NotWaiting, Unstarted, Alive, Roles
<1>20. ASSUME NEW r \in Roles, Send(r) PROVE Conversation'
  BY <1>20, SendConversation
<1>21. ASSUME NEW r \in Roles, Receive(r) PROVE Conversation'
  BY <1>21, ReceiveConversation
<1>22. ASSUME NEW r \in Roles, LookUpIndex(r) PROVE Conversation'
  <2>1. /\ \A x \in Roles : x # r => body'[x] = body[x]
        /\ body'[r].pc # "send" \/ r = "client"
        /\ r = "client" => /\ body[r].pc \notin {"none", "receive"}
                           /\ body'[r].pc # "receive"
                           /\ body[r].pc = "gone" => body'[r].pc = "gone"
        /\ UNCHANGED <<content, exists, pair, app>>
    BY <1>22, LookUpIndexEffect DEF ExchangeInv, LookUpIndex
  <2> QED
    BY <2>1, Quiet DEF NotWaiting, Unstarted, Alive, Roles
<1>23. ASSUME NEW r \in Roles, EnterMonitor(r) PROVE Conversation'
  <2>1. /\ \A x \in Roles : x # r => body'[x] = body[x]
        /\ body'[r].pc # "send" \/ r = "client"
        /\ r = "client" => /\ body[r].pc \notin {"none", "receive"}
                           /\ body'[r].pc # "receive"
                           /\ body[r].pc = "gone" => body'[r].pc = "gone"
        /\ UNCHANGED <<content, exists, pair, app>>
    BY <1>23, EnterMonitorEffect DEF ExchangeInv, EnterMonitor
  <2> QED
    BY <2>1, Quiet DEF NotWaiting, Unstarted, Alive, Roles
<1>24. ASSUME NEW r \in Roles, ExitMonitor(r) PROVE Conversation'
  <2>1. /\ \A x \in Roles : x # r => body'[x] = body[x]
        /\ body'[r].pc # "send" \/ r = "client"
        /\ r = "client" => /\ body[r].pc \notin {"none", "receive"}
                           /\ body'[r].pc # "receive"
                           /\ body[r].pc = "gone" => body'[r].pc = "gone"
        /\ UNCHANGED <<content, exists, pair, app>>
    BY <1>24, ExitMonitorEffect DEF ExchangeInv, ExitMonitor
  <2> QED
    BY <2>1, Quiet DEF NotWaiting, Unstarted, Alive, Roles
<1>25. ASSUME FillTheSpec \/ Refuse
      PROVE  UNCHANGED <<content, body, exists, app, pair>>
  BY <1>25 DEF FillTheSpec, Refuse, kernelVars
<1>26. CASE UNCHANGED <<content, body, exists, app, pair>>
  BY <1>26 DEF ExchangeInv, Conversation, OneInFlight, NoneInFlight,
       NotWaiting, Unstarted, Carried, Alive
<1> QED
  BY <1>1, <1>2, <1>3, <1>4, <1>5, <1>6, <1>7, <1>8, <1>9, <1>10, <1>11,
       <1>12, <1>13, <1>14, <1>15, <1>16, <1>17, <1>18, <1>19, <1>20, <1>21,
       <1>22, <1>23, <1>24, <1>25, <1>26
     DEF ExchangeNext, AppStep, AppContinue, BodyStep, exchangeVars


-----------------------------------------------------------------------------
(* The invariant.                                                          *)

LEMMA ExchangeInitially == ExchangeInit => ExchangeInv
<1> SUFFICES ASSUME ExchangeInit PROVE ExchangeInv
  OBVIOUS
<1>1. /\ spec = NoSpec /\ pair = FreePair /\ exists = {} /\ monitor = {}
      /\ content = [q \in Queues |-> <<>>]
      /\ body = [r \in Roles |-> NoBody]
      /\ app = IdleApp
  BY DEF ExchangeInit
<1>2. ExchangeTypeOK
  <2>1. content \in [Queues -> Seq(Messages)] /\ content["cs"] \in Seq(Requests)
    BY <1>1, EmptyIsTyped DEF Queues
  <2> QED
    BY <1>1, <2>1, Initials DEF ExchangeInit, ExchangeTypeOK, Failures
<1>3. CallShape
  BY <1>1, Blank DEF CallShape, CreatePcs, DestroyPcs
<1>4. CreateShape /\ DestroyShape
  BY <1>1, Blank DEF CreateShape, DestroyShape, DestroyPcs
<1>5. \A r \in Roles : /\ body[r].pc = "none" /\ body[r].got = {}
  BY <1>1 DEF NoBody
<1>6. TasksAreHeld /\ BodiesHaveQueues /\ ReportsUnderOwnIndex
  BY <1>5 DEF TasksAreHeld, BodiesHaveQueues, ReportsUnderOwnIndex, Exchanging
<1>7. QueuesAreHeld
  BY <1>1, Blank DEF QueuesAreHeld
<1>8. EntriesAreHeld
  BY <1>1, Blank DEF EntriesAreHeld
<1>9. Conversation
  <2>1. NoneInFlight /\ Carried /\ \A q \in Queues : content[q] = <<>>
    BY <1>1, <1>5 DEF NoneInFlight, Carried, Queues, Roles
  <2> QED
    BY <2>1 DEF Conversation, NoneInFlight, OneInFlight
<1> QED
  BY <1>2, <1>3, <1>4, <1>6, <1>7, <1>8, <1>9 DEF ExchangeInv

LEMMA ExchangeInductive ==
    ExchangeInv /\ [ExchangeNext]_exchangeVars => ExchangeInv'
<1> SUFFICES ASSUME ExchangeInv, [ExchangeNext]_exchangeVars PROVE ExchangeInv'
  OBVIOUS
<1>1. ExchangeTypeOK'
  BY AppTyped, PairTyped, BodyTyped, ContentTyped, SpecTyped, SetsTyped
     DEF ExchangeTypeOK
<1>2. CallShape' /\ CreateShape' /\ DestroyShape'
  BY CallStep, CreateStep, DestroyStep
<1>3. TasksAreHeld' /\ QueuesAreHeld' /\ EntriesAreHeld'
  BY TasksStep, QueuesStep, EntriesStep
<1>4. BodiesHaveQueues' /\ ReportsUnderOwnIndex' /\ Conversation'
  BY BodiesStep, ReportsStep, ConversationStep
<1> QED
  BY <1>1, <1>2, <1>3, <1>4 DEF ExchangeInv

LEMMA ExchangeInvariant == ExchangeSpec => []ExchangeInv
  BY ExchangeInitially, ExchangeInductive, PTL DEF ExchangeSpec

-----------------------------------------------------------------------------
(* What follows from it.                                                   *)

\* Records, tasks, queues and locals keep their types in every reachable state.
THEOREM ExchangeTypes == ExchangeSpec => []ExchangeTypeOK
<1>1. ExchangeInv => ExchangeTypeOK
  BY DEF ExchangeInv
<1> QED
  BY <1>1, ExchangeInvariant, PTL

\* A body about to send finds room, for every queue depth a specification may
\* give: eaPort_NO_WAIT loses nothing, eaPort_WAIT_FOREVER never waits.
THEOREM SendsAlwaysFit == ExchangeSpec => []SendsFit
<1>1. ExchangeInv => SendsFit
  <2> SUFFICES ASSUME ExchangeInv, NEW r \in Roles, body[r].pc = "send"
               PROVE  HasRoom(OutQueue(r))
    BY DEF SendsFit
  <2>1. pair.queue_depth > 0 /\ pair.queue_depth \in Nat
    BY AliveHasRecord DEF ExchangeInv, CallShape, ExchangeTypeOK, Pair_t
  <2>2. r = "client" => content["cs"] = <<>>
    BY DEF ExchangeInv, Conversation, NotWaiting, NoneInFlight, Alive
  <2>3. r = "server" => content["sc"] = <<>>
    BY DEF ExchangeInv, Conversation, OneInFlight
  <2> QED
    BY <2>1, <2>2, <2>3 DEF HasRoom, OutQueue, Roles
<1> QED
  BY <1>1, ExchangeInvariant, PTL

\* A client takes the answer to the request it made, through every creation,
\* failure and teardown.
THEOREM AnswersAlwaysMatch == ExchangeSpec => []AnswersMatch
<1>1. ExchangeInv => AnswersMatch
  BY DEF ExchangeInv, Conversation, Carried, AnswersMatch
<1> QED
  BY <1>1, ExchangeInvariant, PTL

\* No task outlives its runtime record or the queues it has read from it.
THEOREM RecordsOutliveBodies == ExchangeSpec => []RecordOutlivesBodies
<1>1. ExchangeInv => RecordOutlivesBodies
  BY AliveHasRecord DEF ExchangeInv, BodiesHaveQueues, RecordOutlivesBodies, Alive
<1> QED
  BY <1>1, ExchangeInvariant, PTL

\* A task reports under its own active entry or not at all.
THEOREM ReportsStayOwn == ExchangeSpec => []ReportsUnderOwnIndex
<1>1. ExchangeInv => ReportsUnderOwnIndex
  BY DEF ExchangeInv
<1> QED
  BY <1>1, ExchangeInvariant, PTL

\* A failed creation and a full teardown leave nothing behind.
THEOREM NothingStays == ExchangeSpec => []NothingIsLeft
<1>1. ExchangeInv => NothingIsLeft
  <2> SUFFICES ASSUME ExchangeInv, ~pair.in_use
               PROVE  exists = {} /\ monitor = {} /\ \A r \in Roles : ~Alive(r)
    BY DEF NothingIsLeft
  <2>1. pair.queues = {} /\ app.got = NothingGot /\ app.pc = "idle"
    BY Blank DEF ExchangeInv, CallShape, DestroyPcs
  <2> QED
    BY <2>1, NoTasks, Blank DEF ExchangeInv, QueuesAreHeld, EntriesAreHeld, Alive
<1> QED
  BY <1>1, ExchangeInvariant, PTL

\* What passes edge_task_spec_is_valid passes the creation's own checks, and
\* is complete after the defaults are resolved.
THEOREM AcceptedIsComplete == ExchangeSpec => []AcceptedSpecIsComplete
<1>1. ExchangeInv => AcceptedSpecIsComplete
  <2> SUFFICES ASSUME ExchangeInv, app.pc \in CreatePcs
               PROVE  /\ CreationAccepts(Resolved(spec))
                      /\ Resolved(spec).deadline_ms > 0
                      /\ Resolved(spec).local_host_label # "NULL"
    BY DEF AcceptedSpecIsComplete
  <2>1. spec \in Spec_t /\ IsValid(spec)
    BY DEF ExchangeInv, CallShape, ExchangeTypeOK
  <2> QED
    BY <2>1 DEF Spec_t, IsValid, Resolved, CreationAccepts
<1> QED
  BY <1>1, ExchangeInvariant, PTL

\* Which entries the offloader takes for clients: a pair's client exactly when
\* CONFIG_EA_MAX_TASK_NAME_LEN leaves room for its "-cl-" or for one the
\* application put into the name itself, its server exactly in the latter case;
\* and the two names differ exactly when there is room for the letter that
\* tells the kinds of suffix apart.
THEOREM NamesThatFit ==
    ASSUME NEW n \in Name_t, n.mark <= n.length + 1
    PROVE  LET client == EntryName(n, "client")
               server == EntryName(n, "server")
               Marked == n.mark \in 1..(NameLimit - 1)
           IN  /\ IsClientTask(client) <=> Marked \/ n.length + 4 < NameLimit
               /\ IsClientTask(server) <=> Marked
               /\ client # server <=> n.length + 2 < NameLimit
<1>1. NameLimit \in Nat \ {0} /\ n.length \in Nat /\ n.mark \in Nat
  BY SpecAssumption DEF Name_t
<1> DEFINE k == Kept(n)
           client == EntryName(n, "client")
           server == EntryName(n, "server")
<1>2. /\ client = [base |-> n, kept |-> k,
                   seg |-> IF k >= n.length + 2 THEN "client" ELSE "cut off"]
      /\ server = [base |-> n, kept |-> k,
                   seg |-> IF k >= n.length + 2 THEN "server" ELSE "cut off"]
  BY DEF EntryName
<1>3. /\ k \in Nat
      /\ n.mark \in 1..k <=> n.mark \in 1..(NameLimit - 1)
      /\ k >= n.length + 2 <=> n.length + 2 < NameLimit
      /\ n.length + 4 <= k <=> n.length + 4 < NameLimit
  BY <1>1 DEF Kept
<1> HIDE DEF k, client, server
<1>4. client # server <=> k >= n.length + 2
  <2>1. CASE k >= n.length + 2
    <3>1. client.seg = "client" /\ server.seg = "server"
      BY <1>2, <2>1
    <3> QED
      BY <2>1, <3>1
  <2>2. CASE ~(k >= n.length + 2)
    BY <1>2, <2>2
  <2> QED
    BY <2>1, <2>2
<1>5. /\ client.base = n /\ client.kept = k
      /\ client.seg = "client" <=> k >= n.length + 2
      /\ server.base = n /\ server.kept = k /\ server.seg # "client"
  BY <1>2
<1>6. /\ IsClientTask(client) <=>
            n.mark \in 1..k \/ (k >= n.length + 2 /\ n.length + 4 <= k)
      /\ IsClientTask(server) <=> n.mark \in 1..k
  BY <1>5 DEF IsClientTask
<1>7. n.length + 4 <= k => k >= n.length + 2
  BY <1>1, <1>3
<1>8. /\ IsClientTask(client) <=> n.mark \in 1..(NameLimit - 1) \/ n.length + 4 < NameLimit
      /\ IsClientTask(server) <=> n.mark \in 1..(NameLimit - 1)
      /\ client # server <=> n.length + 2 < NameLimit
  BY <1>3, <1>4, <1>6, <1>7
<1> QED
  BY <1>8 DEF client, server

-----------------------------------------------------------------------------
(* The exchange takes turns: each step is a step of RequestReply, or none  *)
(* it can see.                                                             *)

TurnsTaken == <<ExchangeTurn, ExchangeNumber>>

\* Nothing a client that waits, or does not, can tell.
SameClient ==
    /\ body'["client"].pc = "receive" <=> body["client"].pc = "receive"
    /\ body'["client"].value = body["client"].value
    /\ content'["sc"] = content["sc"]
    /\ pair'.code = pair.code

TurnStep == [Promise!TurnNext]_TurnsTaken

LEMMA QuietTurn ==
    ASSUME IsOpen' => IsOpen, IsOpen' => SameClient
    PROVE  TurnStep
<1>1. CASE IsOpen'
  <2>1. IsOpen /\ SameClient
    BY <1>1
  <2>2. ExchangeNumber' = ExchangeNumber
    BY <1>1, <2>1 DEF ExchangeNumber, SameClient
  <2>3. ExchangeTurn' = ExchangeTurn
    BY <1>1, <2>1 DEF ExchangeTurn, SameClient, Answer
  <2> QED
    BY <2>2, <2>3 DEF TurnStep, TurnsTaken
<1>2. CASE ~IsOpen' /\ ~IsOpen
  BY <1>2 DEF TurnStep, TurnsTaken, ExchangeTurn, ExchangeNumber
<1>3. CASE ~IsOpen' /\ IsOpen
  <2>1. ExchangeTurn # "closed" /\ ExchangeTurn' = "closed" /\ ExchangeNumber' = 0
    BY <1>3 DEF ExchangeTurn, ExchangeNumber
  <2> QED
    BY <2>1 DEF TurnStep, Promise!TurnNext, Promise!Close
<1> QED
  BY <1>1, <1>2, <1>3

\* A step of the application that leaves the client and its answers alone.
LEMMA CallTurn ==
    ASSUME body'["client"] = body["client"],
           content'["sc"] = content["sc"],
           pair'.code = pair.code, pair'.app_type = pair.app_type,
           app'.pc \in ({"idle"} \cup CreatePcs) \ {"lose"} =>
               app.pc \in ({"idle"} \cup CreatePcs) \ {"lose"}
    PROVE  TurnStep
<1>1. IsOpen' => IsOpen
  BY DEF IsOpen, Alive
<1> QED
  BY <1>1, QuietTurn DEF SameClient

\* A step that leaves no client.
LEMMA NoClientTurn ==
    ASSUME body'["client"].pc \in {"none", "gone"}
    PROVE  TurnStep
<1>1. ~IsOpen'
  BY DEF IsOpen, Alive
<1> QED
  BY <1>1, QuietTurn

\* A step of the server, or a step of the client that is none of the three.
LEMMA BodyTurn ==
    ASSUME ExchangeInv, UNCHANGED <<pair, app, content>>,
           NEW r \in Roles,
           \A x \in Roles : x # r => body'[x] = body[x],
           body[r].pc \notin {"none", "gone"},
           r = "client" => /\ body[r].pc # "receive" /\ body'[r].pc # "receive"
                           /\ body'[r].value = body[r].value
    PROVE  TurnStep
<1>1. CASE r = "client"
  <2>1. SameClient /\ (IsOpen' => IsOpen)
    BY <1>1 DEF SameClient, IsOpen, Alive
  <2> QED
    BY <2>1, QuietTurn
<1>2. CASE r = "server"
  <2>1. body'["client"] = body["client"]
    BY <1>2 DEF Roles
  <2> QED
    BY <2>1, CallTurn
<1> QED
  BY <1>1, <1>2 DEF Roles

LEMMA SendTurn ==
    ASSUME ExchangeInv, NEW r \in Roles, Send(r)
    PROVE  TurnStep
<1>1. /\ body[r].pc = "send" /\ UNCHANGED <<exists, pair, app>>
      /\ \A x \in Roles : x # r => body'[x] = body[x]
      /\ "client" \in Roles /\ "server" \in Roles
  BY SendEffect DEF Send, ExchangeInv, Roles
<1>2. pair.queue_depth > 0 /\ pair.queue_depth \in Nat
  BY <1>1, AliveHasRecord DEF ExchangeInv, CallShape, ExchangeTypeOK, Pair_t
<1>3. CASE r = "client"
  <2>1. NoneInFlight
    BY <1>1, <1>3 DEF ExchangeInv, Conversation, NotWaiting, Alive
  <2>2. /\ body'["client"].pc = "receive" /\ body'["client"].value = Outgoing("client")
        /\ content'["sc"] = <<>>
    <3>1. content'["sc"] = content["sc"]
      BY <1>3, SendContent DEF ExchangeInv, InQueue
    <3> QED
      BY <1>1, <1>3, <2>1, <3>1, SendEffect DEF ExchangeInv, NoneInFlight
  <2>3. IsOpen' <=> IsOpen
    BY <1>1, <1>3, <2>2 DEF IsOpen, Alive
  <2>4. CASE IsOpen
    <3>1. ExchangeTurn = "client" /\ ExchangeTurn' = "server"
      BY <1>1, <1>3, <2>2, <2>3, <2>4 DEF ExchangeTurn
    <3>2. ExchangeNumber' = (ExchangeNumber + 1) % Window
      BY <2>2, <2>3, <2>4 DEF ExchangeNumber, Outgoing
    <3> QED
      BY <3>1, <3>2 DEF TurnStep, Promise!TurnNext, Promise!Ask
  <2>5. CASE ~IsOpen
    BY <2>3, <2>5, QuietTurn
  <2> QED
    BY <2>4, <2>5
<1>4. CASE r = "server"
  <2> DEFINE a == Answer(pair.code, body["server"].value)
  <2>1. content["sc"] = <<>> /\ ~NotWaiting
    BY <1>1, <1>4 DEF ExchangeInv, Conversation, OneInFlight, NoneInFlight
  <2>2. Outgoing(r) = a
    BY <1>4 DEF Outgoing
  <2>3. body["client"].pc = "receive" => a = Answer(pair.code, body["client"].value)
    BY <1>1, <1>4 DEF ExchangeInv, Conversation, Carried
  <2>4. HasRoom("sc") /\ OutQueue(r) = "sc"
    BY <1>2, <1>4, <2>1 DEF HasRoom, OutQueue
  <2> HIDE DEF a
  <2>5. content'["sc"] = Append(content["sc"], a)
    BY <2>2, <2>4, SendContent DEF ExchangeInv
  <2>6. content'["sc"] # <<>> /\ Head(content'["sc"]) = a
    BY <2>1, <2>5
  <2>7. body'["client"] = body["client"]
    BY <1>1, <1>4
  <2>8. IsOpen' <=> IsOpen
    BY <1>1, <2>7 DEF IsOpen, Alive
  <2>9. CASE IsOpen
    <3>1. body["client"].pc = "receive"
      BY <2>1, <2>9 DEF NotWaiting, IsOpen
    <3>2. ExchangeTurn = "server"
      BY <2>1, <2>9, <3>1 DEF ExchangeTurn
    <3>3. ExchangeTurn' = "reply"
      BY <1>1, <2>3, <2>6, <2>7, <2>8, <2>9, <3>1 DEF ExchangeTurn, Answer
    <3>4. ExchangeNumber' = ExchangeNumber
      BY <2>7, <2>8 DEF ExchangeNumber
    <3> QED
      BY <3>2, <3>3, <3>4 DEF TurnStep, Promise!TurnNext, Promise!Serve
  <2>10. CASE ~IsOpen
    BY <2>8, <2>10, QuietTurn
  <2> QED
    BY <2>9, <2>10
<1> QED
  BY <1>3, <1>4 DEF Roles

LEMMA ReceiveTurn ==
    ASSUME ExchangeInv, NEW r \in Roles, Receive(r)
    PROVE  TurnStep
<1>1. /\ body[r].pc = "receive" /\ UNCHANGED <<exists, pair, app>>
      /\ \A x \in Roles : x # r => body'[x] = body[x]
      /\ "client" \in Roles /\ "server" \in Roles
      /\ content[InQueue(r)] # <<>>
  BY ReceiveEffect DEF Receive, InQueue, ExchangeInv, Roles
<1>2. CASE r = "client"
  <2>1. /\ content["sc"] # <<>>
        /\ Head(content["sc"]) = Answer(pair.code, body["client"].value)
    BY <1>1, <1>2 DEF InQueue, ExchangeInv, Conversation, Carried
  <2>2. /\ body'["client"].pc \in {"lookup", "rest", "send"}
        /\ body'["client"].value = body["client"].value
    BY <1>1, <1>2, ReceiveEffect DEF ExchangeInv, NextRound
  <2>3. IsOpen' <=> IsOpen
    BY <1>1, <1>2, <2>2 DEF IsOpen, Alive
  <2>4. CASE IsOpen
    <3>1. ExchangeTurn = "reply" /\ ExchangeTurn' = "client"
      BY <1>1, <1>2, <2>1, <2>2, <2>3, <2>4 DEF ExchangeTurn
    <3>2. ExchangeNumber' = ExchangeNumber
      BY <2>2, <2>3 DEF ExchangeNumber
    <3> QED
      BY <3>1, <3>2 DEF TurnStep, Promise!TurnNext, Promise!Take
  <2>5. CASE ~IsOpen
    BY <2>3, <2>5, QuietTurn
  <2> QED
    BY <2>4, <2>5
<1>3. CASE r = "server"
  <2>1. body'["client"] = body["client"]
    BY <1>1, <1>3
  <2>2. content'["sc"] = content["sc"]
    BY <1>3, ReceiveContent DEF ExchangeInv, OutQueue
  <2> QED
    BY <1>1, <2>1, <2>2, CallTurn
<1> QED
  BY <1>2, <1>3 DEF Roles

\* Every step is a turn or none.
LEMMA EveryStepIsATurn ==
    ASSUME ExchangeInv, [ExchangeNext]_exchangeVars
    PROVE  TurnStep
<1>1. CASE Reserve
  <2>1. ~pair.in_use /\ UNCHANGED body
    BY <1>1, ReserveEffect DEF ExchangeInv
  <2>2. body'["client"].pc = "none"
    BY <2>1, NoTasks DEF Roles
  <2> QED
    BY <2>2, NoClientTurn
<1>2. ASSUME NEW q \in Queues, CreateQueue(q) PROVE TurnStep
  <2>1. Unstarted /\ UNCHANGED body
    BY <1>2, CreateQueueEffect DEF Unstarted, ExchangeInv, Queues
  <2>2. body'["client"].pc = "none"
    BY <2>1, UnstartedHasNoTask DEF Roles
  <2> QED
    BY <2>2, NoClientTurn
<1>3. CASE StepFails
  <2>1. /\ body'["client"] = body["client"] /\ content'["sc"] = content["sc"]
        /\ pair'.code = pair.code /\ pair'.app_type = pair.app_type
    BY <1>3, GotoEffect DEF StepFails, kernelVars, ExchangeInv
  <2>2. app'.pc \in ({"idle"} \cup CreatePcs) \ {"lose"} =>
            app.pc \in ({"idle"} \cup CreatePcs) \ {"lose"}
    BY <1>3, GotoEffect DEF StepFails, kernelVars, ExchangeInv, CreatePcs
  <2> QED
    BY <2>1, <2>2, CallTurn
<1>4. CASE Spawn
  <2>1. /\ \A x \in Roles : x # app.role => body'[x] = body[x]
        /\ body'[app.role].pc \in {"rest",
             "readFirst"} /\ body'[app.role].value = 0
        /\ UNCHANGED <<content, exists, pair>> /\ app.pc = "spawn"
        /\ app.role \in Roles
    BY <1>4, SpawnEffect DEF ExchangeInv, ExchangeTypeOK, App_t, Spawn
  <2>2. app'.pc = "record"
    BY <1>4, GotoEffect DEF Spawn, ExchangeInv
  <2>3. CASE app.role = "client"
    <3>1. ~IsOpen
      <4>1. Unstarted
        BY <2>1, <2>3 DEF Unstarted
      <4> QED
        BY <4>1, UnstartedHasNoTask DEF IsOpen, Alive, Roles
    <3>2. CASE IsOpen'
      <4>1. ExchangeTurn = "closed" /\ ExchangeTurn' = "client" /\ ExchangeNumber' = 0
        BY <2>1, <2>3, <3>1, <3>2 DEF ExchangeTurn, ExchangeNumber
      <4> QED
        BY <4>1 DEF TurnStep, Promise!TurnNext, Promise!Open
    <3>3. CASE ~IsOpen'
      BY <3>3, QuietTurn
    <3> QED
      BY <3>2, <3>3
  <2>4. CASE app.role = "server"
    <3>1. body'["client"] = body["client"]
      BY <2>1, <2>4 DEF Roles
    <3> QED
      BY <2>1, <2>2, <3>1, CallTurn DEF CreatePcs
  <2> QED
    BY <2>1, <2>3, <2>4 DEF Roles
<1>5. CASE RecordTask
  <2>1. /\ body'["client"] = body["client"] /\ content'["sc"] = content["sc"]
        /\ pair'.code = pair.code /\ pair'.app_type = pair.app_type
    BY <1>5, RecordTaskEffect DEF ExchangeInv
  <2>2. app'.pc \in ({"idle"} \cup CreatePcs) \ {"lose"} =>
            app.pc \in ({"idle"} \cup CreatePcs) \ {"lose"}
    BY <1>5, RecordTaskEffect DEF ExchangeInv, CreatePcs
  <2> QED
    BY <2>1, <2>2, CallTurn
<1>6. CASE LoseEntry
  <2>1. app'.pc = "undoServer"
    BY <1>6, GotoEffect DEF LoseEntry, ExchangeInv
  <2>2. ~IsOpen'
    BY <2>1 DEF IsOpen, CreatePcs
  <2> QED
    BY <2>2, QuietTurn
<1>7. CASE StoreIndex
  <2>1. /\ body'["client"] = body["client"] /\ content'["sc"] = content["sc"]
        /\ pair'.code = pair.code /\ pair'.app_type = pair.app_type
    BY <1>7, StoreIndexEffect DEF ExchangeInv
  <2>2. app'.pc \in ({"idle"} \cup CreatePcs) \ {"lose"} =>
            app.pc \in ({"idle"} \cup CreatePcs) \ {"lose"}
    BY <1>7, StoreIndexEffect DEF ExchangeInv, CreatePcs
  <2> QED
    BY <2>1, <2>2, CallTurn
<1>8. CASE LinkEntries
  <2>1. /\ body'["client"] = body["client"] /\ content'["sc"] = content["sc"]
        /\ pair'.code = pair.code /\ pair'.app_type = pair.app_type
    BY <1>8, LinkEntriesEffect, Blank DEF ExchangeInv
  <2>2. app'.pc \in ({"idle"} \cup CreatePcs) \ {"lose"} =>
            app.pc \in ({"idle"} \cup CreatePcs) \ {"lose"}
    BY <1>8, LinkEntriesEffect, Blank DEF ExchangeInv, CreatePcs
  <2> QED
    BY <2>1, <2>2, CallTurn
<1>9. ASSUME NEW r \in Roles, UndoTask(r) PROVE TurnStep
  <2>1. app'.pc \in {"undoClient", "undoQueues"}
    BY <1>9, UndoTaskEffect DEF ExchangeInv
  <2>2. ~IsOpen'
    BY <2>1 DEF IsOpen, CreatePcs
  <2> QED
    BY <2>2, QuietTurn
<1>10. CASE UndoQueues
  <2>1. app'.pc = "undoMonitor"
    BY <1>10, UndoQueuesEffect DEF ExchangeInv
  <2>2. ~IsOpen'
    BY <2>1 DEF IsOpen, CreatePcs
  <2> QED
    BY <2>2, QuietTurn
<1>11. CASE UndoMonitor
  <2>1. app.pc = "undoMonitor" /\ UNCHANGED body
    BY <1>11 DEF UndoMonitor, kernelVars
  <2>2. body'["client"].pc = "none"
    BY <2>1, NoTasks DEF Roles
  <2> QED
    BY <2>2, NoClientTurn
<1>12. CASE Take("PAIR")
  <2>1. /\ body'["client"] = body["client"] /\ content'["sc"] = content["sc"]
        /\ pair'.code = pair.code /\ pair'.app_type = pair.app_type
    BY <1>12, TakeEffect DEF ExchangeInv, Modes, Take, kernelVars
  <2>2. app'.pc \in ({"idle"} \cup CreatePcs) \ {"lose"} =>
            app.pc \in ({"idle"} \cup CreatePcs) \ {"lose"}
    BY <1>12, TakeEffect DEF ExchangeInv, Modes, Take, kernelVars, CreatePcs
  <2> QED
    BY <2>1, <2>2, CallTurn
<1>13. CASE Take("CLIENT_ONLY")
  <2>1. /\ body'["client"] = body["client"] /\ content'["sc"] = content["sc"]
        /\ pair'.code = pair.code /\ pair'.app_type = pair.app_type
    BY <1>13, TakeEffect DEF ExchangeInv, Modes, Take, kernelVars
  <2>2. app'.pc \in ({"idle"} \cup CreatePcs) \ {"lose"} =>
            app.pc \in ({"idle"} \cup CreatePcs) \ {"lose"}
    BY <1>13, TakeEffect DEF ExchangeInv, Modes, Take, kernelVars, CreatePcs
  <2> QED
    BY <2>1, <2>2, CallTurn
<1>14. ASSUME NEW r \in Roles, DropTask(r) PROVE TurnStep
  <2>1. app'.pc \in {"dropServer", "dropQueues", "dropMonitor"}
    BY <1>14, DropTaskEffect DEF ExchangeInv
  <2>2. ~IsOpen'
    BY <2>1 DEF IsOpen, CreatePcs
  <2> QED
    BY <2>2, QuietTurn
<1>15. CASE DropQueues
  <2>1. app'.pc = "dropMonitor"
    BY <1>15, GotoEffect DEF DropQueues, ExchangeInv
  <2>2. ~IsOpen'
    BY <2>1 DEF IsOpen, CreatePcs
  <2> QED
    BY <2>2, QuietTurn
<1>16. CASE DropMonitor
  <2>1. app.pc = "dropMonitor" /\ UNCHANGED body
    BY <1>16 DEF DropMonitor, kernelVars
  <2>2. body'["client"].pc = "none"
    BY <2>1, ClientIsGone
  <2> QED
    BY <2>2, NoClientTurn
<1>17. ASSUME NEW r \in Roles, ReadFirst(r) PROVE TurnStep
  <2>1. /\ \A x \in Roles : x # r => body'[x] = body[x]
        /\ body[r].pc \notin {"none", "gone"}
        /\ r = "client" => /\ body[r].pc # "receive" /\ body'[r].pc # "receive"
                           /\ body'[r].value = body[r].value
        /\ UNCHANGED <<content, pair, app>>
    BY <1>17, ReadFirstEffect DEF ExchangeInv, ReadFirst
  <2> QED
    BY <2>1, BodyTurn
<1>18. ASSUME NEW r \in Roles, ReadSecond(r) PROVE TurnStep
  <2>1. /\ \A x \in Roles : x # r => body'[x] = body[x]
        /\ body[r].pc \notin {"none", "gone"}
        /\ r = "client" => /\ body[r].pc # "receive" /\ body'[r].pc # "receive"
                           /\ body'[r].value = body[r].value
        /\ UNCHANGED <<content, pair, app>>
    BY <1>18, ReadSecondEffect DEF ExchangeInv, ReadSecond
  <2> QED
    BY <2>1, BodyTurn
<1>19. ASSUME NEW r \in Roles, DeleteSelf(r) PROVE TurnStep
  <2>1. /\ \A x \in Roles : x # r => body'[x] = body[x]
        /\ body'[r].pc = "gone"
        /\ UNCHANGED <<content, pair, app>>
    BY <1>19, DeleteSelfEffect DEF ExchangeInv, DeleteSelf
  <2>2. CASE r = "client"
    BY <2>1, <2>2, NoClientTurn
  <2>3. CASE r = "server"
    <3>1. body'["client"] = body["client"]
      BY <2>1, <2>3 DEF Roles
    <3> QED
      BY <2>1, <3>1, CallTurn
  <2> QED
    BY <2>2, <2>3 DEF Roles
<1>20. ASSUME NEW r \in Roles, Send(r) PROVE TurnStep
  BY <1>20, SendTurn
<1>21. ASSUME NEW r \in Roles, Receive(r) PROVE TurnStep
  BY <1>21, ReceiveTurn
<1>22. ASSUME NEW r \in Roles, LookUpIndex(r) PROVE TurnStep
  <2>1. /\ \A x \in Roles : x # r => body'[x] = body[x]
        /\ body[r].pc \notin {"none", "gone"}
        /\ r = "client" => /\ body[r].pc # "receive" /\ body'[r].pc # "receive"
                           /\ body'[r].value = body[r].value
        /\ UNCHANGED <<content, pair, app>>
    BY <1>22, LookUpIndexEffect DEF ExchangeInv, LookUpIndex
  <2> QED
    BY <2>1, BodyTurn
<1>23. ASSUME NEW r \in Roles, EnterMonitor(r) PROVE TurnStep
  <2>1. /\ \A x \in Roles : x # r => body'[x] = body[x]
        /\ body[r].pc \notin {"none", "gone"}
        /\ r = "client" => /\ body[r].pc # "receive" /\ body'[r].pc # "receive"
                           /\ body'[r].value = body[r].value
        /\ UNCHANGED <<content, pair, app>>
    BY <1>23, EnterMonitorEffect DEF ExchangeInv, EnterMonitor
  <2> QED
    BY <2>1, BodyTurn
<1>24. ASSUME NEW r \in Roles, ExitMonitor(r) PROVE TurnStep
  <2>1. /\ \A x \in Roles : x # r => body'[x] = body[x]
        /\ body[r].pc \notin {"none", "gone"}
        /\ r = "client" => /\ body[r].pc # "receive" /\ body'[r].pc # "receive"
                           /\ body'[r].value = body[r].value
        /\ UNCHANGED <<content, pair, app>>
    BY <1>24, ExitMonitorEffect DEF ExchangeInv, ExitMonitor
  <2> QED
    BY <2>1, BodyTurn
<1>25. ASSUME FillTheSpec \/ Refuse
      PROVE  UNCHANGED <<body, content, pair, app>>
  BY <1>25 DEF FillTheSpec, Refuse, kernelVars
<1>26. CASE UNCHANGED <<body, content, pair, app>>
  BY <1>26 DEF TurnStep, TurnsTaken, ExchangeTurn, ExchangeNumber, IsOpen,
       Alive, Answer
<1> QED
  BY <1>1, <1>2, <1>3, <1>4, <1>5, <1>6, <1>7, <1>8, <1>9, <1>10, <1>11,
       <1>12, <1>13, <1>14, <1>15, <1>16, <1>17, <1>18, <1>19, <1>20, <1>21,
       <1>22, <1>23, <1>24, <1>25, <1>26
     DEF ExchangeNext, AppStep, AppContinue, BodyStep, exchangeVars

\* The exchange over queues, tasks and runtime record implements the abstract
\* one: its client asks, its server answers that request and no other, and the
\* client takes the answer before it asks again.  (That it does so in the end
\* is KeepsPromise.)
THEOREM ExchangeTakesTurns == ExchangeSpec => Promise!TurnSafety
<1>1. ExchangeInit => Promise!TurnInit
  BY Initials DEF ExchangeInit, Promise!TurnInit, ExchangeTurn, ExchangeNumber,
      IsOpen, Alive, NoBody, Roles
<1>2. ExchangeInv /\ [ExchangeNext]_exchangeVars => [Promise!TurnNext]_(Promise!turnVars)
  BY EveryStepIsATurn DEF TurnStep, TurnsTaken, Promise!turnVars
<1> QED
  BY <1>1, <1>2, ExchangeInvariant, PTL DEF ExchangeSpec, Promise!TurnSafety

-----------------------------------------------------------------------------
(* Names that leave room for their kind.                                   *)

\* Name n leaves room for "-cl-".
NameFits(n) == n.length + 4 < NameLimit /\ n.mark <= n.length + 1

\* Every name that is chosen leaves room for the four characters.
NamesFit ==
    /\ \A n \in TaskNames : NameFits(n)
    /\ \A e \in Examples : NameFits(ExampleSpec(e).task_name)

\* The specification and the record hold such names.
NameInv ==
    /\ spec # NoSpec => NameFits(spec.task_name)
    /\ pair.in_use => NameFits(pair.task_name)

\* Whatever way a specification is filled, its name is one of those.
LEMMA FilledNameFits ==
    ASSUME NamesFit, ExchangeTypeOK, NameInv, FillSpec
    PROVE  spec' # NoSpec => NameFits(spec'.task_name)
<1> USE DEF Fill, Enriched, Local, InitCommon, Defaults, NamesFit
<1>1. CASE FillFields
  <2>1. PICK name \in TaskNames, b \in Bodies, s \in Stacks, p \in PairSpecs,
             label \in HostLabels, period, deadline \in Periods :
                Fill([Enriched(name, b, b, s, s, period, p) EXCEPT
                         !.deadline_ms = deadline, !.local_host_label = label])
    BY <1>1 DEF FillFields
  <2>2. spec'.task_name = name
    BY <2>1
  <2> QED
    BY <2>2
<1>2. CASE FillEnriched
  <2>1. PICK name \in TaskNames, client \in Bodies \cup {"NULL"},
             cs, ss \in Stacks, period \in Periods, p \in PairSpecs :
                \E server \in {client, "NULL"} :
                    Fill(Enriched(name, client, server, cs, ss, period, p))
    BY <1>2 DEF FillEnriched
  <2>2. spec'.task_name = name
    BY <2>1
  <2> QED
    BY <2>2
<1>3. CASE FillLocal
  <2>1. PICK name \in TaskNames, code \in Bodies \cup {"NULL"}, s \in Stacks,
             period \in Periods, p \in PairSpecs :
                Fill(Local(name, code, s, period, p))
    BY <1>3 DEF FillLocal
  <2>2. spec'.task_name = name
    BY <2>1
  <2> QED
    BY <2>2
<1>4. CASE FillFromExample
  BY <1>4 DEF FillFromExample
<1>5. CASE SetDeadline \/ SetLocalHostLabel
  <2>1. spec \in Spec_t /\ NameFits(spec.task_name)
    BY <1>5 DEF SetDeadline, SetLocalHostLabel, ExchangeTypeOK, NameInv
  <2>2. spec'.task_name = spec.task_name
    BY <1>5, <2>1 DEF SetDeadline, SetLocalHostLabel, Spec_t
  <2> QED
    BY <2>1, <2>2
<1> QED
  BY <1>1, <1>2, <1>3, <1>4, <1>5 DEF FillSpec

\* A name reaches the record from the specification and stays as it was.
LEMMA NameKept ==
    ASSUME ExchangeTypeOK, [ExchangeNext]_exchangeVars, pair'.in_use
    PROVE  \/ /\ pair.in_use /\ pair'.task_name = pair.task_name
           \/ spec # NoSpec /\ pair'.task_name = spec.task_name
<1>0. pair \in Pair_t /\ ~FreePair.in_use
  BY DEF ExchangeTypeOK, FreePair
<1>1. CASE Reserve
  BY <1>0, <1>1 DEF Reserve, NewPair, Resolved, Spec_t, ExchangeTypeOK
<1>2. ASSUME NEW q \in Queues, CreateQueue(q) PROVE pair'.in_use => pair.in_use /\ pair'.task_name = pair.task_name
  BY <1>0, <1>2 DEF CreateQueue, Pair_t
<1>3. CASE RecordTask \/ StoreIndex
  BY <1>0, <1>3 DEF RecordTask, StoreIndex, Pair_t
<1>4. ASSUME NEW r \in Roles, UndoTask(r) PROVE pair'.in_use => pair.in_use /\ pair'.task_name = pair.task_name
  BY <1>0, <1>4 DEF UndoTask, Pair_t
<1>5. CASE UndoQueues \/ UndoMonitor \/ DropMonitor
  BY <1>0, <1>5 DEF UndoQueues, UndoMonitor, DropMonitor, Pair_t
<1>6. ASSUME NEW mode, Take(mode) PROVE pair'.in_use => pair.in_use /\ pair'.task_name = pair.task_name
  BY <1>0, <1>6 DEF Take, Pair_t
<1>7. CASE UNCHANGED pair
  BY <1>7
<1> QED
  BY <1>1, <1>2, <1>3, <1>4, <1>5, <1>6, <1>7
  DEF ExchangeNext, AppStep, AppContinue, BodyStep, FillTheSpec, Refuse, StepFails,
      Spawn, LoseEntry, LinkEntries, DropTask, DropQueues, ReadFirst, ReadSecond,
      DeleteSelf, Send, Receive, LookUpIndex, EnterMonitor, ExitMonitor, exchangeVars

\* NameInv is inductive.
LEMMA NameNext ==
    ASSUME NamesFit, ExchangeTypeOK, NameInv, [ExchangeNext]_exchangeVars
    PROVE  NameInv'
<1>1. spec' # NoSpec => NameFits(spec'.task_name)
  <2>1. CASE FillTheSpec
    BY <2>1, FilledNameFits DEF FillTheSpec
  <2>2. ASSUME spec' = spec \/ spec' = NoSpec PROVE spec' # NoSpec => NameFits(spec'.task_name)
    BY <2>2 DEF NameInv
  <2> QED
    BY <2>1, <2>2
    DEF ExchangeNext, AppStep, AppContinue, BodyStep, Refuse, Reserve, CreateQueue,
        StepFails, Spawn, RecordTask, LoseEntry, StoreIndex, LinkEntries, UndoTask,
        UndoQueues, UndoMonitor, Take, DropTask, DropQueues, DropMonitor, ReadFirst,
        ReadSecond, DeleteSelf, Send, Receive, LookUpIndex, EnterMonitor, ExitMonitor,
        exchangeVars
<1>2. pair'.in_use => NameFits(pair'.task_name)
  BY NameKept DEF NameInv
<1> QED
  BY <1>1, <1>2 DEF NameInv

\* When every name leaves room for them, the names of a built pair tell its
\* client from its server, and the client is a candidate for the offloader.
THEOREM ClientsAreFound ==
    ASSUME NamesFit
    PROVE  ExchangeSpec => []ClientsAreCandidates
<1>1. ExchangeInit => NameInv
  BY DEF ExchangeInit, NameInv, FreePair
<1>2. ExchangeInv /\ NameInv /\ [ExchangeNext]_exchangeVars => NameInv'
  BY NameNext DEF ExchangeInv
<1>3. ExchangeInv /\ NameInv => ClientsAreCandidates
  <2> SUFFICES ASSUME ExchangeInv, NameInv, BuiltPair
               PROVE  LET client == EntryName(pair.task_name, "client")
                      IN  /\ client # EntryName(pair.task_name, "server")
                          /\ IsClientTask(client)
    BY DEF ClientsAreCandidates
  <2> DEFINE n == pair.task_name
  <2>1. n \in Name_t /\ NameFits(n)
    BY DEF BuiltPair, NameInv, ExchangeInv, ExchangeTypeOK, Pair_t
  <2> HIDE DEF n
  <2>2. n.length + 4 < NameLimit /\ n.length + 2 < NameLimit /\ n.mark <= n.length + 1
    BY <2>1, SpecAssumption DEF NameFits, Name_t
  <2> QED
    BY <2>1, <2>2, NamesThatFit DEF n
<1> QED
  BY <1>1, <1>2, <1>3, ExchangeInvariant, PTL DEF ExchangeSpec
===============================================================================
