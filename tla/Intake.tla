------------------------------- MODULE Intake -------------------------------
(***************************************************************************)
(* From a callback to an EventStream: the export tasks of a callback       *)
(* handler put events on a queue or a Kafka topic, and calls of            *)
(* EventStream.from_queue(), from_async_queue() or from_kafka() read them. *)
(*                                                                         *)
(* What was put is never forgotten here: `log' holds every item in order,  *)
(* `head' how many of them are gone for the calls to come, because they    *)
(* were taken off the queue or their offset was committed for the group.   *)
(* A topic has one partition, and the calls of one group do not overlap.   *)
(*                                                                         *)
(* The exporter is the application's, and so are the stop markers: a value *)
(* on the queue, or a message equal to `sentinel' on the topic.            *)
(***************************************************************************)
EXTENDS Callbacks

CONSTANTS
  Setup,      \* how the application is put together: the framework, where its
              \*   events go, max_messages and skip_errors of its calls, and
              \*   (bounds) how many items that are no events there may be and
              \*   how many calls read them
  NoLimit,    \* max_messages is None
  Call,       \* calls of the readers, numbered as they are made
  Capacity    \* maxsize of the queue

ASSUME IntakeAssumption ==
  /\ Setup \subseteq [family : {"langchain", "llamaindex"},
                     transport : {"queue", "async", "group", "anonymous"},
                     max : Nat, skip : BOOLEAN, others : Nat, calls : Nat]
  /\ NoLimit \in Nat /\ Call \subseteq Nat \ {0}
  /\ Capacity \in Nat \ {0}

VARIABLES
  setup,      \* the member of Setup
  log,        \* every item ever put: [type, event]
  head,       \* items that are gone for later calls
  call        \* the state of each call

vars == <<handlerVars, mishaps, tasks, loop, setup, log, head, call>>

transport == setup.transport
Kafka == transport \in {"group", "anonymous"}

\* `malformed' decodes as text but is no event, `garbled' does not decode.
Item == [type : {"event", "stop", "malformed", "garbled"}, event : Nat]

Fresh == [at |-> "idle", got |-> <<>>, pos |-> 0, saved |-> TRUE]

Init ==
  /\ CallbacksInit
  /\ setup \in Setup
  /\ family = setup.family
  /\ log = <<>>
  /\ head = 0
  /\ call = [c \in Call |-> Fresh]

----------------------------------------------------------------------------
\* The event loop.  It runs tasks only while no callback occupies its thread.

LoopFree == loop /\ frame[LoopThread] = Idle

HasRoom == Kafka \/ Len(log) - head < Capacity

Others == Cardinality({i \in DOMAIN log : log[i].type # "event"})

PutItem(type, n) ==
  /\ HasRoom
  /\ log' = Append(log, [type |-> type, event |-> n])
  /\ UNCHANGED <<handlerVars, mishaps, loop, setup, head, call>>

\* The tasks of a handler may end in any order.
ExportDone(n) ==
  /\ LoopFree
  /\ n \in tasks
  /\ tasks' = tasks \ {n}
  /\ PutItem("event", n)

\* The error of a task that nobody awaits is dropped.
ExportFails(n) ==
  /\ LoopFree
  /\ n \in tasks
  /\ Mishap
  /\ tasks' = tasks \ {n}
  /\ UNCHANGED <<handlerVars, loop, setup, log, head, call>>

\* asyncio.run() ends: it cancels the tasks that are left, readers included.
LoopEnds ==
  /\ LoopFree
  /\ Mishap
  /\ loop' = FALSE
  /\ tasks' = {}
  /\ call' = [c \in Call |->
       IF transport = "async" /\ call[c].at = "reading"
         THEN [call[c] EXCEPT !.at = "cancelled"] ELSE call[c]]
  /\ UNCHANGED <<handlerVars, setup, log, head>>

PutStop ==
  /\ Others < setup.others
  /\ PutItem("stop", 0)
  /\ UNCHANGED tasks

\* Another producer of the topic.
PutOther(type) ==
  /\ Kafka
  /\ Others < setup.others
  /\ PutItem(type, 0)
  /\ UNCHANGED tasks

----------------------------------------------------------------------------
\* The readers.  got holds the positions in the log of the events collected.

Quietly == UNCHANGED <<handlerVars, tasks, loop, setup, log>>

Become(c, state) == call' = [call EXCEPT ![c] = state]

Begin(c) ==
  /\ call[c].at = "idle"
  /\ c <= setup.calls
  /\ \A d \in {d \in Call : d < c} :
       IF Kafka THEN call[d].at \notin {"idle", "reading"} ELSE call[d].at # "idle"
  /\ transport = "async" => loop
  /\ Become(c, [at |-> "reading", got |-> <<>>,
                pos |-> IF transport = "anonymous" THEN 0 ELSE head, saved |-> TRUE])
  /\ UNCHANGED <<head, mishaps>> /\ Quietly

Reading(c, transports) == call[c].at = "reading" /\ transport \in transports

\* Mutant of Ends: the reader takes the stop marker for one more item.
EndsNever(item) == FALSE

Ends(item) == item.type = "stop"

\* One item off the queue; the calls of from_async_queue() run on the loop.
TakeItem(c) ==
  /\ Reading(c, {"queue", "async"})
  /\ transport = "async" => LoopFree
  /\ head < Len(log)
  /\ head' = head + 1
  /\ Become(c, IF Ends(log[head + 1]) THEN [call[c] EXCEPT !.at = "returned"]
               ELSE [call[c] EXCEPT !.got = Append(@, head + 1)])
  /\ UNCHANGED mishaps /\ Quietly

\* queue.Empty: from_queue() returns what it has.
QueueEmpty(c) ==
  /\ Reading(c, {"queue"})
  /\ head = Len(log)
  /\ Become(c, [call[c] EXCEPT !.at = "returned"])
  /\ UNCHANGED <<head, mishaps>> /\ Quietly

\* The task that awaits from_async_queue() is cancelled: its list is dropped.
Cancel(c) ==
  /\ Reading(c, {"async"})
  /\ Mishap
  /\ Become(c, [call[c] EXCEPT !.at = "cancelled"])
  /\ UNCHANGED head /\ Quietly

----------------------------------------------------------------------------
\* from_kafka().  pos is the position of the consumer, head the offset that
\* is committed for the group; without a group nothing is ever committed.

\* Mutant of Leave: close() commits before the last message counts as read.
LeaveShort(c, state) ==
  \/ /\ Become(c, state)
     /\ head' = IF transport = "group" /\ state.pos > 0 THEN state.pos - 1 ELSE head
     /\ UNCHANGED mishaps
  \/ /\ transport = "group" /\ Mishap
     /\ Become(c, [state EXCEPT !.saved = FALSE])
     /\ UNCHANGED head

\* Mutant of Leave: it commits the position after the next one.
LeaveAhead(c, state) ==
  /\ Become(c, state)
  /\ head' = IF transport = "group" THEN state.pos + 1 ELSE head
  /\ UNCHANGED mishaps

\* finally: consumer.close(), which commits the position unless it cannot.
Leave(c, state) ==
  \/ /\ Become(c, state)
     /\ head' = IF transport = "group" THEN state.pos ELSE head
     /\ UNCHANGED mishaps
  \/ /\ transport = "group" /\ Mishap
     /\ Become(c, [state EXCEPT !.saved = FALSE])
     /\ UNCHANGED head

Stay(c, state) == Become(c, state) /\ UNCHANGED <<head, mishaps>>

\* Mutant of Full: the limit is taken as if it were one more.
FullOneLater(state) == Len(state.got) > setup.max

\* max_messages is looked at after an event was appended.
Full(state) == Len(state.got) >= setup.max

\* One round of the loop over the consumer.
Poll(c) ==
  LET next == [call[c] EXCEPT !.pos = @ + 1]
      item == log[next.pos]
      more == [next EXCEPT !.got = Append(@, next.pos)]
  IN  /\ Reading(c, {"group", "anonymous"})
      /\ call[c].pos < Len(log)
      /\ item.type # "garbled"
      /\ \/ /\ item.type = "stop"
            /\ Leave(c, [next EXCEPT !.at = "returned"])
         \/ /\ item.type = "event" /\ Full(more)
            /\ Leave(c, [more EXCEPT !.at = "returned"])
         \/ /\ item.type = "event" /\ ~Full(more)
            /\ Stay(c, more)
         \/ /\ item.type = "malformed" /\ setup.skip
            /\ Stay(c, next)
         \/ /\ item.type = "malformed" /\ ~setup.skip
            /\ Leave(c, [next EXCEPT !.at = "raised"])
      /\ Quietly

\* No message within poll_timeout_ms.
PollTimesOut(c) ==
  /\ Reading(c, {"group", "anonymous"})
  /\ Leave(c, [call[c] EXCEPT !.at = "returned"])
  /\ Quietly

\* value_deserializer runs in the iterator, outside the try: skip_errors does
\* not skip what it raises.  A fetch decodes its messages before it yields
\* the first one, so the call may end at any position up to the bad one.
PollChokes(c) ==
  /\ Reading(c, {"group", "anonymous"})
  /\ \E i \in call[c].pos + 1 .. Len(log) : log[i].type = "garbled"
  /\ Leave(c, [call[c] EXCEPT !.at = "raised"])
  /\ Quietly

\* enable_auto_commit: before it fetches, the consumer commits its position.
AutoCommit(c) ==
  /\ Reading(c, {"group"})
  /\ head < call[c].pos
  /\ head' = call[c].pos
  /\ UNCHANGED <<call, mishaps>> /\ Quietly

\* The process of a reader dies.
Crash(c) ==
  /\ Reading(c, {"group", "anonymous"})
  /\ Mishap
  /\ Become(c, [call[c] EXCEPT !.at = "crashed", !.saved = FALSE])
  /\ UNCHANGED head /\ Quietly

----------------------------------------------------------------------------
Callbacks == Callback /\ UNCHANGED <<setup, log, head, call>>

Reader(c) ==
  \/ TakeItem(c) \/ QueueEmpty(c)
  \/ Poll(c) \/ PollTimesOut(c) \/ PollChokes(c)

Next ==
  \/ Callbacks
  \/ \E n \in tasks : ExportDone(n) \/ ExportFails(n)
  \/ LoopEnds
  \/ PutStop
  \/ \E type \in {"malformed", "garbled"} : PutOther(type)
  \/ \E c \in Call : Begin(c) \/ Reader(c) \/ Cancel(c) \/ AutoCommit(c) \/ Crash(c)

Spec == Init /\ [][Next]_vars

\* The readers and the event loop run; a thread that entered a callback gets
\* on with it; the application puts its stop markers.  Nothing makes the
\* framework start or end a run, the application clear or cancel.
FairSpec ==
  /\ Spec
  /\ \A c \in Call : WF_vars(Reader(c))
  /\ WF_vars(PutStop)
  /\ WF_vars((EventStartEmits(LoopThread) \/ EventEndEmits(LoopThread))
                /\ UNCHANGED <<setup, log, head, call>>)

----------------------------------------------------------------------------
TypeOK ==
  /\ CallbacksTypeOK
  /\ setup \in Setup
  /\ log \in Seq(Item)
  /\ head \in 0 .. Len(log)
  /\ call \in [Call ->
       [at : {"idle", "reading", "returned", "raised", "cancelled", "crashed"},
        got : Seq(DOMAIN log), pos : 0 .. Len(log), saved : BOOLEAN]]

\* The positions a call has collected events from.
Got(c) == {call[c].got[k] : k \in DOMAIN call[c].got}

EventAt(i) == log[i].type = "event"

\* A duration_ms in an event of LlamaIndex is measured from the start of the
\* run that ended, and on_event_start() finds the start it stored, unless the
\* run shared its id with another one or clear_events() was called meanwhile.
DurationsPair ==
  /\ \A i \in DOMAIN made :
       (family = "llamaindex" /\ made[i].run \notin crossed)
         => made[i].since = made[i].run
  /\ keyError \subseteq crossed

\* No reader skips an event: what is gone from the queue, or committed for the
\* group, was collected by a call.
NothingSkipped == \A i \in 1 .. head : EventAt(i) => \E c \in Call : i \in Got(c)

\* Two calls collect the same event only if there is no group, or the offset of
\* one of them was not saved.
ReadOnce ==
  \A c, d \in Call : (c # d /\ Got(c) \cap Got(d) # {}) =>
    \/ transport = "anonymous"
    \/ transport = "group" /\ ~(call[c].saved /\ call[d].saved)

\* A call collects events in the order they were put.  One of from_kafka()
\* leaves out none between its first event and its position, and returns at
\* most max_messages of them, but one if that is 0.
InOrderWithoutGaps ==
  \A c \in Call :
    LET got == call[c].got
    IN  /\ \A j, k \in DOMAIN got : j < k => got[j] < got[k]
        /\ Kafka => \A i \in DOMAIN log :
             (EventAt(i) /\ got # <<>> /\ i > got[1] /\ i <= call[c].pos) => i \in Got(c)
        /\ Kafka => Len(got) <= setup.max \/ Len(got) <= 1

\* Every event that left the queue, or was committed for a group, is accounted
\* for: no reader skips one, reads one that another has, or reorders them.
Accounted == NothingSkipped /\ ReadOnce /\ InOrderWithoutGaps

Delivered == {log[i].event : i \in UNION {Got(c) : c \in {d \in Call : call[d].at = "returned"}}}

InReading(i) == \E c \in Call : call[c].at = "reading" /\ i \in Got(c)

\* Events whose export was skipped, failed or cancelled, and those that were
\* read by calls that came to nothing.
Lost ==
  LET stored == {i \in DOMAIN log : EventAt(i)}
  IN  (DOMAIN made \ (tasks \cup {log[i].event : i \in stored}))
      \cup ({log[i].event : i \in {j \in stored : j <= head /\ ~InReading(j)}} \ Delivered)

Handed == INSTANCE Handover WITH made <- Len(made), delivered <- Delivered, lost <- Lost

\* End to end, callbacks, tasks, transport and readers implement Handover: a
\* returned event is never taken back, a lost one never turns up.
ImplementsHandover == Handed!Spec

\* With a stop marker for each call, every call of a reader ends.
CallsEnd ==
  setup.others >= setup.calls => <>[](\A c \in Call : call[c].at # "reading")
=============================================================================
