----------------------------- MODULE Callbacks ------------------------------
(***************************************************************************)
(* The callback handlers for LangChain and LlamaIndex.  The framework      *)
(* calls a handler from any thread when a run starts and when it ends; the *)
(* handler makes an event of it and, on the thread of the running loop,    *)
(* creates a task that exports the event and that nobody awaits.           *)
(*                                                                         *)
(* A LangChain callback touches the shared state once.  The LlamaIndex     *)
(* handler keeps start times in a dictionary without a lock: it stores the *)
(* start and reads it again for the event, and pops it before it makes the *)
(* event of the end, so other threads run in between.  A start time is the *)
(* number of the run that stored it.                                       *)
(***************************************************************************)
EXTENDS Naturals, Sequences, FiniteSets

CONSTANTS
  Thread,      \* threads the framework calls the handler from
  LoopThread,  \* the one that runs the event loop
  Id,          \* event ids of LlamaIndex; the default "" is one of them
  Quiet,       \* kinds of run that make no event (embedding, retrieve)
  Reported,    \* kinds that do (llm, function_call, query; llm, tool)
  MaxRuns,     \* bound: runs that each framework starts
  MaxMishaps   \* bound: calls of clear_events(), failures and cancellations

ASSUME CallbacksAssumption ==
  /\ LoopThread \in Thread
  /\ Quiet \cap Reported = {}
  /\ MaxRuns \in [{"langchain", "llamaindex"} -> Nat]
  /\ MaxMishaps \in Nat

VARIABLES
  family,    \* "langchain" or "llamaindex"
  runs,      \* the runs of the framework: [id, kind, open]
  starts,    \* _starts: starts[id] is a run, 0 for no entry
  frame,     \* frame[t]: the callback that thread t is in the middle of
  made,      \* history: every event made: [what, run, since]
  events,    \* _events: numbers of events
  tasks,     \* events whose export task is pending
  loop,      \* is the event loop running
  keyError,  \* runs whose on_event_start() raised KeyError
  crossed,   \* history: runs that shared their id with an open run, or were
             \*   open when clear_events() was called
  mishaps    \* how many of those bounded by MaxMishaps there were

handlerVars == <<family, runs, starts, frame, made, events, keyError, crossed>>

Idle == [op |-> "none", run |-> 0, since |-> 0]

CallbacksInit ==
  /\ family \in {"langchain", "llamaindex"}
  /\ runs = <<>>
  /\ starts = [id \in Id |-> 0]
  /\ frame = [t \in Thread |-> Idle]
  /\ made = <<>>
  /\ events = <<>>
  /\ tasks = {}
  /\ loop = TRUE
  /\ keyError = {}
  /\ crossed = {}
  /\ mishaps = 0

Mishap == mishaps < MaxMishaps /\ mishaps' = mishaps + 1

Open == {r \in DOMAIN runs : runs[r].open}

\* _make_event(): the event is kept, and exported if this thread runs the loop.
MakeEvent(t, what, r, since) ==
  /\ made' = Append(made, [what |-> what, run |-> r, since |-> since])
  /\ events' = Append(events, Len(made) + 1)
  /\ tasks' = IF t = LoopThread /\ loop THEN tasks \cup {Len(made) + 1} ELSE tasks

NoEvent == UNCHANGED <<made, events, tasks>>

\* The framework starts a run.
NewRun(id, kind) ==
  /\ Len(runs) < MaxRuns[family]
  /\ runs' = Append(runs, [id |-> id, kind |-> kind, open |-> TRUE])

\* on_llm_start() and on_tool_start(); a run id of LangChain is a fresh UUID.
LangchainStart(t) ==
  /\ family = "langchain"
  /\ \E id \in Id, kind \in Reported : NewRun(id, kind)
  /\ MakeEvent(t, "started", Len(runs) + 1, 0)
  /\ UNCHANGED <<family, starts, frame, keyError, crossed, mishaps, loop>>

\* on_llm_end(), on_llm_error(), on_tool_end() and on_tool_error()
LangchainEnd(t, r) ==
  /\ family = "langchain"
  /\ r \in Open
  /\ runs' = [runs EXCEPT ![r].open = FALSE]
  /\ \E what \in {"completed", "error"} : MakeEvent(t, what, r, 0)
  /\ UNCHANGED <<family, starts, frame, keyError, crossed, mishaps, loop>>

\* on_event_start() up to the store: self._starts[event_id] = time.time()
EventStart(t) ==
  /\ family = "llamaindex"
  /\ frame[t] = Idle
  /\ \E id \in Id, kind \in Quiet \cup Reported :
       LET r == Len(runs) + 1
           sharing == {q \in Open : runs[q].id = id}
       IN  /\ NewRun(id, kind)
           /\ starts' = [starts EXCEPT ![id] = r]
           /\ frame' = [frame EXCEPT ![t] = [op |-> "start", run |-> r, since |-> 0]]
           /\ crossed' = crossed \cup sharing \cup (IF sharing = {} THEN {} ELSE {r})
  /\ NoEvent
  /\ UNCHANGED <<family, keyError, mishaps, loop>>

\* The rest of it: the event, with the start read from the dictionary again.
EventStartEmits(t) ==
  LET r == frame[t].run
      since == starts[runs[r].id]
  IN  /\ frame[t].op = "start"
      /\ frame' = [frame EXCEPT ![t] = Idle]
      /\ \/ /\ runs[r].kind \in Quiet
            /\ NoEvent /\ UNCHANGED keyError
         \/ /\ runs[r].kind \in Reported /\ since # 0
            /\ MakeEvent(t, "started", r, since) /\ UNCHANGED keyError
         \/ /\ runs[r].kind \in Reported /\ since = 0
            /\ keyError' = keyError \cup {r} /\ NoEvent
      /\ UNCHANGED <<family, runs, starts, crossed, mishaps, loop>>

\* self._starts.pop(event_id, None)
Popped(id) == [starts EXCEPT ![id] = 0]

\* Mutant of StartOf: the entry of whatever run is the latest.
StartOfLatest(r) == Len(runs)

StartOf(r) == starts[runs[r].id]

\* on_event_end() up to the pop; the framework ends a run whose start returned.
EventEnd(t, r) ==
  /\ family = "llamaindex"
  /\ frame[t] = Idle
  /\ r \in Open
  /\ \A u \in Thread : frame[u].run # r
  /\ runs' = [runs EXCEPT ![r].open = FALSE]
  /\ starts' = Popped(runs[r].id)
  /\ frame' = [frame EXCEPT ![t] = [op |-> "end", run |-> r, since |-> StartOf(r)]]
  /\ NoEvent
  /\ UNCHANGED <<family, keyError, crossed, mishaps, loop>>

\* The rest of it: duration_ms is measured from the popped start, or is None.
EventEndEmits(t) ==
  LET r == frame[t].run
  IN  /\ frame[t].op = "end"
      /\ frame' = [frame EXCEPT ![t] = Idle]
      /\ IF runs[r].kind \in Reported
           THEN MakeEvent(t, "completed", r, frame[t].since)
           ELSE NoEvent
      /\ UNCHANGED <<family, runs, starts, keyError, crossed, mishaps, loop>>

\* clear_events(): of LangChain the events, of LlamaIndex the starts as well.
ClearEvents(t) ==
  /\ frame[t] = Idle
  /\ Mishap
  /\ events' = <<>>
  /\ IF family = "llamaindex"
       THEN /\ starts' = [id \in Id |-> 0]
            /\ crossed' = crossed \cup Open
       ELSE UNCHANGED <<starts, crossed>>
  /\ UNCHANGED <<family, runs, frame, made, keyError, tasks, loop>>

Callback ==
  \E t \in Thread :
    \/ LangchainStart(t)
    \/ \E r \in Open : LangchainEnd(t, r)
    \/ EventStart(t)
    \/ EventStartEmits(t)
    \/ \E r \in Open : EventEnd(t, r)
    \/ EventEndEmits(t)
    \/ ClearEvents(t)

CallbacksTypeOK ==
  /\ family \in {"langchain", "llamaindex"}
  /\ runs \in Seq([id : Id, kind : Quiet \cup Reported, open : BOOLEAN])
  /\ starts \in [Id -> 0 .. Len(runs)]
  /\ frame \in [Thread -> [op : {"none", "start", "end"}, run : 0 .. Len(runs),
                           since : 0 .. Len(runs)]]
  /\ made \in Seq([what : {"started", "completed", "error"}, run : DOMAIN runs,
                   since : 0 .. Len(runs)])
  /\ events \in Seq(DOMAIN made)
  /\ tasks \subseteq DOMAIN made
  /\ loop \in BOOLEAN
  /\ keyError \cup crossed \subseteq DOMAIN runs
  /\ mishaps \in 0 .. MaxMishaps
=============================================================================
