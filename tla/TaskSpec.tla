------------------------------- MODULE TaskSpec -------------------------------
(***************************************************************************)
(* The task specification builder of core/task_manager.c and the names it  *)
(* leads to.  An application fills an edge_task_spec_t with an initialiser *)
(* and setters, or field by field, and has a pair created from it.  What   *)
(* the kernel schedules with (priority, core, weights, WCET) is left out;  *)
(* of a name what truncation and the search for "-cl-" depend on is kept.  *)
(***************************************************************************)
EXTENDS Integers

CONSTANTS NoSpec,       \* the application has no specification at hand
          NameLimit,    \* CONFIG_EA_MAX_TASK_NAME_LEN
          TaskNames,    \* names applications choose
          Bodies,       \* pairs of task functions they pass
          Stacks,       \* stack depths
          Periods,      \* periods and deadlines, in ms
          Depths,       \* queue depths
          Examples      \* examples of the repository that run as they are

VARIABLES spec,       \* the edge_task_spec_t being filled
          creation    \* failure_reason of the last creation

AllBodies == {"happy", "advanced", "hello", "sensor", "idle", "metered"}

\* A task name: NULL unless given, its number of characters, and how many of
\* "<name>-" there are up to the end of the first "-cl-" in it, 0 without one.
Name_t == [given : BOOLEAN, length : Nat, mark : Nat]

NullName == [given |-> FALSE, length |-> 0, mark |-> 0]
EmptyName == [given |-> TRUE, length |-> 0, mark |-> 0]
PlainName(length) == [given |-> TRUE, length |-> length, mark |-> 0]
MarkedName(length, mark) == [given |-> TRUE, length |-> length, mark |-> mark]

ASSUME SpecAssumption ==
    /\ NameLimit \in Nat \ {0}
    /\ TaskNames \subseteq Name_t /\ Stacks \subseteq Nat
    /\ \A n \in TaskNames : n.mark <= n.length + 1
    /\ Periods \subseteq Nat /\ Depths \subseteq Nat
    /\ Bodies \subseteq AllBodies
    /\ Examples \subseteq {"happy", "hello", "advanced", "sensor", "runtimeApi"}

-----------------------------------------------------------------------------
(* edge_task_spec_t                                                        *)

Codes == AllBodies \cup {"NULL"}
HostLabels == {"NULL", "LOCAL_RUNTIME", "OTHER"}   \* "NULL" is also ""

Spec_t == [task_name          : Name_t,
           client_task_code   : Codes,
           server_task_code   : Codes,
           client_stack_depth : Nat,
           server_stack_depth : Nat,
           app_type           : {"LOCAL", "ENRICHED"},
           queue_depth        : Nat,
           message_size       : Nat,
           local_host_label   : HostLabels,
           period_ms          : Nat,
           deadline_ms        : Nat]

\* edge_task_pair_spec_t: depth and message size; none given is NULL.
PairSpecs == [queue_depth : Depths, message_size : {0, 4}]
DefaultPair == [queue_depth |-> 1, message_size |-> 4]

\* edge_task_spec_init
Defaults ==
    [task_name          |-> NullName, client_task_code   |-> "NULL",
     server_task_code   |-> "NULL",   client_stack_depth |-> 0,
     server_stack_depth |-> 0,        app_type           |-> "LOCAL",
     queue_depth        |-> 1,        message_size       |-> 4,
     local_host_label   |-> "LOCAL_RUNTIME",
     period_ms          |-> 0,        deadline_ms        |-> 0]

\* edge_task_spec_init_common
InitCommon(type, name, client, server, clientStack, serverStack, period, pair) ==
    [Defaults EXCEPT !.task_name = name,
                     !.client_task_code = client,
                     !.server_task_code = server,
                     !.client_stack_depth = clientStack,
                     !.server_stack_depth = serverStack,
                     !.period_ms = period,
                     !.deadline_ms = period,
                     !.app_type = type,
                     !.queue_depth = pair.queue_depth,
                     !.message_size = pair.message_size]

\* edge_task_spec_init_enriched
Enriched(name, client, server, clientStack, serverStack, period, pair) ==
    InitCommon("ENRICHED", name, client, server, clientStack, serverStack,
               period, pair)

\* edge_task_spec_init_local: one function and one stack stand for both.
Local(name, code, stack, period, pair) ==
    InitCommon("LOCAL", name, code, code, stack, stack, period, pair)

-----------------------------------------------------------------------------
(* The specifications of the examples, none of them named with a "-cl-".   *)

HappySpec ==
    Enriched(PlainName(9), "happy", "happy", 2048, 2048, 1000, DefaultPair)
HelloSpec ==
    Enriched(PlainName(10), "hello", "hello", 2048, 2048, 1000, DefaultPair)
SensorSpec ==
    Enriched(PlainName(10), "sensor", "sensor", 2048, 2048, 1000, DefaultPair)
RuntimeApiSpec ==
    Enriched(PlainName(10), "idle", "idle", 2048, 2048, 1000, DefaultPair)

\* Filled field by field; an initialiser would do the same, but for the deadline.
AdvancedSpec ==
    [Enriched(PlainName(12), "advanced", "advanced", 2048, 2048, 1000, DefaultPair) EXCEPT
        !.deadline_ms = 1200]

ExampleSpec(e) == CASE e = "happy"      -> HappySpec
                    [] e = "hello"      -> HelloSpec
                    [] e = "advanced"   -> AdvancedSpec
                    [] e = "sensor"     -> SensorSpec
                    [] e = "runtimeApi" -> RuntimeApiSpec

-----------------------------------------------------------------------------
(* Validation and what is handed on.                                       *)

IsValid(s) ==
    /\ s.task_name.given /\ s.task_name.length > 0
    /\ s.client_task_code # "NULL" /\ s.server_task_code # "NULL"
    /\ s.client_stack_depth > 0 /\ s.server_stack_depth > 0
    /\ s.queue_depth > 0 /\ s.message_size > 0
    /\ s.period_ms > 0

\* Mutant: a deadline of 0 is handed on.
ResolveLabelOnly(s) ==
    [s EXCEPT !.local_host_label = IF @ = "NULL" THEN "LOCAL_RUNTIME" ELSE @]

\* edge_task_spec_resolve_deadline_ms, and the label of edge_task_create_from_spec_impl
Resolved(s) ==
    [s EXCEPT !.deadline_ms = IF @ = 0 THEN s.period_ms ELSE @,
              !.local_host_label = IF @ = "NULL" THEN "LOCAL_RUNTIME" ELSE @]

\* The checks CreateEATaskPinnedToCoreEx makes for itself: a name may be empty.
CreationAccepts(s) ==
    /\ s.task_name.given
    /\ s.client_task_code # "NULL" /\ s.server_task_code # "NULL"
    /\ s.queue_depth > 0 /\ s.message_size > 0

-----------------------------------------------------------------------------
(* Names.  snprintf keeps NameLimit - 1 characters of "<name>-cl-<core>",  *)
(* "<name>-sv-<core>" or "<name>-lc-<core>"; core is one digit.            *)

Segments == {"client", "server", "unique"}

\* Mutant: room is kept for two terminating zeros.
KeptShort(name) ==
    IF name.length + 6 < NameLimit THEN name.length + 5 ELSE NameLimit - 2

\* The number of characters kept.
Kept(name) ==
    IF name.length + 5 < NameLimit THEN name.length + 5 ELSE NameLimit - 1

\* Two kinds of suffix differ in their second character at the earliest.
EntryName(name, seg) ==
    [base |-> name,
     kept |-> Kept(name),
     seg  |-> IF Kept(name) >= name.length + 2 THEN seg ELSE "cut off"]

\* is_client_task: strstr finds "-cl-" in what is kept, be it a client's suffix
\* or part of the name the application chose.
IsClientTask(n) ==
    \/ n.base.mark \in 1..n.kept
    \/ n.seg = "client" /\ n.base.length + 4 <= n.kept

-----------------------------------------------------------------------------
(* The application fills a specification.  An initialiser forgets what was *)
(* there, so filling one once is no restriction.                           *)

Fill(s) ==
    /\ spec = NoSpec
    /\ spec' = s
    /\ UNCHANGED creation

\* edge_task_spec_init followed by assignments, as the advanced example does.
FillFields ==
    \E name \in TaskNames, b \in Bodies, s \in Stacks, p \in PairSpecs,
       label \in HostLabels, period, deadline \in Periods :
        Fill([Enriched(name, b, b, s, s, period, p) EXCEPT
                 !.deadline_ms = deadline, !.local_host_label = label])

FillEnriched ==
    \E name \in TaskNames, client \in Bodies \cup {"NULL"},
       cs, ss \in Stacks, period \in Periods, p \in PairSpecs :
        \E server \in {client, "NULL"} :
            Fill(Enriched(name, client, server, cs, ss, period, p))

FillLocal ==
    \E name \in TaskNames, code \in Bodies \cup {"NULL"}, s \in Stacks,
       period \in Periods, p \in PairSpecs :
        Fill(Local(name, code, s, period, p))

FillFromExample == \E e \in Examples : Fill(ExampleSpec(e))

\* edge_task_spec_set_deadline_ms
SetDeadline ==
    /\ spec # NoSpec
    /\ \E deadline \in Periods : spec' = [spec EXCEPT !.deadline_ms = deadline]
    /\ UNCHANGED creation

\* edge_task_spec_set_local_host_label
SetLocalHostLabel ==
    /\ spec # NoSpec
    /\ \E label \in HostLabels :
          spec' = [spec EXCEPT !.local_host_label =
                      IF label = "NULL" THEN "LOCAL_RUNTIME" ELSE label]
    /\ UNCHANGED creation

FillSpec ==
    \/ FillFields \/ FillEnriched \/ FillLocal \/ FillFromExample
    \/ SetDeadline \/ SetLocalHostLabel
===============================================================================
