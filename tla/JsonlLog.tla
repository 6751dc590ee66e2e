------------------------------ MODULE JsonlLog ------------------------------
(***************************************************************************)
(* A JSONL audit file: JSONLExporter writes it, one exporter after the     *)
(* other, a crash may end a process between any two writes, and the three  *)
(* readers of stream.py (from_file, iter_file, aiter_file) read it back.   *)
(*                                                                         *)
(* The lock of the exporter is not a step of its own: export() and         *)
(* export_batch() never await while they hold it, so each call runs from   *)
(* its first to its last write without another coroutine in between.       *)
(*                                                                         *)
(* The text of an event is two fragments, so that a file can end inside    *)
(* it.  The file object buffers; what it has buffered reaches the file     *)
(* piece by piece, when the io module likes or when it is told to flush.   *)
(***************************************************************************)
EXTENDS Integers, Sequences, FiniteSets

CONSTANTS
  Event,           \* the events the application exports
  Unserialisable,  \* those whose to_json() raises SerializationError
  SplitsLine,      \* those whose text has U+2028, U+2029 or U+0085 in it
  MidCharacter,    \* those whose first fragment ends inside a character
  Newline,         \* the line terminator
  Mode,            \* modes an exporter is constructed with: "a", "w"
  MaxBatch,        \* bound: events of one export_batch()
  MaxCalls,        \* bound: calls of export() and export_batch()
  MaxFaults        \* bound: crashes and failing writes

ASSUME LogAssumption ==
  /\ Unserialisable \cup SplitsLine \cup MidCharacter \subseteq Event
  /\ Newline \notin Event \X {1, 2}
  /\ Mode \subseteq {"a", "w"}
  /\ MaxBatch \in Nat /\ MaxCalls \in Nat /\ MaxFaults \in Nat

VARIABLES
  disk,      \* the file: fragments and newlines
  buffer,    \* what the file object has not written yet
  mode,      \* _mode
  file,      \* _file: "none", "open", or "stale" once close() has failed
  closed,    \* _closed; also while the process is down
  accepted,  \* history: exports that returned and were not flushed yet
  durable,   \* history: exports that returned and were flushed without an error
  exposed,   \* history: exports that had returned, not flushed, when a write failed
  calls,
  faults

vars == <<disk, buffer, mode, file, closed, accepted, durable, exposed, calls, faults>>

Fragment == (Event \X {1, 2}) \cup {Newline}

\* fh.write(event.to_json()); fh.write("\n")
Line(e) == << <<e, 1>>, <<e, 2>>, Newline >>

\* Mutant of Written: the newline separates lines and does not end them.
WrittenUnterminated(es) ==
  [k \in 1..(3 * Len(es) - 1) |-> Line(es[(k + 2) \div 3])[((k + 2) % 3) + 1]]

\* One line after the other: fragment k belongs to line (k + 2) \div 3.
Written(es) == [k \in 1..(3 * Len(es)) |-> Line(es[(k + 2) \div 3])[((k + 2) % 3) + 1]]

\* What one call may be given; no event is given to two calls.
Batch ==
  {es \in UNION {[1..n -> Event] : n \in 1..MaxBatch} :
     \A m, n \in DOMAIN es : m # n => es[m] # es[n]}

Init ==
  /\ disk = <<>>
  /\ buffer = <<>>
  /\ mode \in Mode
  /\ file = "none"
  /\ closed = FALSE
  /\ accepted = {}
  /\ durable = {}
  /\ exposed = {}
  /\ calls = 0
  /\ faults = 0

-----------------------------------------------------------------------------
(* The exporter. *)

\* Mutant of EnsureOpen: a closed exporter is not refused.
EnsureOpenAlways ==
  /\ file' = "open"
  /\ IF file = "none" /\ mode = "w"
     THEN disk' = <<>> /\ durable' = {}
     ELSE UNCHANGED <<disk, durable>>

\* _ensure_open(): the first call opens the file, and with mode "w" empties
\* it.  A closed exporter raises RuntimeError, and nothing changes.
EnsureOpen ==
  /\ ~closed
  /\ file' = "open"
  /\ IF file = "none" /\ mode = "w"
     THEN disk' = <<>> /\ durable' = {}
     ELSE UNCHANGED <<disk, durable>>

\* Writing es line by line.  When to_json() raises for the event after the
\* n-th, the lines before it stay.
WriteAll(es) ==
  /\ calls < MaxCalls
  /\ calls' = calls + 1
  /\ \A k \in DOMAIN es : es[k] \notin accepted \cup durable
  /\ EnsureOpen
  /\ \E n \in 0..Len(es) :
       /\ \A k \in 1..n : es[k] \notin Unserialisable
       /\ n < Len(es) => es[n + 1] \in Unserialisable
       /\ buffer' = buffer \o Written(SubSeq(es, 1, n))
       /\ IF n = Len(es)
          THEN /\ accepted' = accepted \cup {es[k] : k \in DOMAIN es}
               /\ exposed' = exposed \ {es[k] : k \in DOMAIN es}
          ELSE UNCHANGED <<accepted, exposed>>
  /\ UNCHANGED <<mode, closed, faults>>

Export(e) == WriteAll(<<e>>)

\* An empty batch returns 0 and does not open the file.
ExportBatch(es) == Len(es) > 0 /\ WriteAll(es)

\* A write raises OSError (no space left): the io module keeps some prefix of
\* what it had and was given, and drops the rest, which may hold lines of calls
\* that have returned.  This call raises.
ExportFails(es) ==
  /\ calls < MaxCalls /\ faults < MaxFaults
  /\ calls' = calls + 1
  /\ faults' = faults + 1
  /\ \A k \in DOMAIN es : es[k] \notin accepted \cup durable \cup Unserialisable
  /\ EnsureOpen
  /\ LET whole == buffer \o Written(es)
     IN \E n \in 0..(Len(whole) - 1) : buffer' = SubSeq(whole, 1, n)
  /\ exposed' = exposed \cup accepted
  /\ UNCHANGED <<mode, closed, accepted>>

\* The buffer is full, or partly so: n fragments of it are written.
Spill(n) ==
  /\ n \in 1..Len(buffer)
  /\ disk' = disk \o SubSeq(buffer, 1, n)
  /\ buffer' = SubSeq(buffer, n + 1, Len(buffer))
  /\ UNCHANGED <<mode, file, closed, accepted, durable, exposed, calls, faults>>

WriteOut ==
  /\ disk' = disk \o buffer
  /\ buffer' = <<>>
  /\ durable' = durable \cup accepted
  /\ accepted' = {}

Flush ==
  /\ file = "open"
  /\ WriteOut
  /\ UNCHANGED <<mode, file, closed, exposed, calls, faults>>

\* flush() raises: what it had to write is on the disk up to m, and what the io
\* module keeps is there for a later flush().  The exporter stays open.
FlushFails ==
  /\ file = "open" /\ buffer # <<>> /\ faults < MaxFaults
  /\ faults' = faults + 1
  /\ \E n \in 0..Len(buffer) : \E m \in 0..n :
       /\ disk' = disk \o SubSeq(buffer, 1, m)
       /\ buffer' = SubSeq(buffer, m + 1, n)
  /\ exposed' = exposed \cup accepted
  /\ UNCHANGED <<mode, file, closed, accepted, durable, calls>>

\* Mutant of Close: the handle is dropped without a flush.
CloseUnflushed ==
  /\ ~closed
  /\ closed' = TRUE
  /\ file' = "none"
  /\ buffer' = <<>>
  /\ durable' = durable \cup accepted
  /\ accepted' = {}
  /\ UNCHANGED <<disk, mode, exposed, calls, faults>>

Close ==
  /\ ~closed
  /\ closed' = TRUE
  /\ file' = "none"
  /\ WriteOut
  /\ UNCHANGED <<mode, exposed, calls, faults>>

\* flush() raises inside close(): the handle is closed all the same, with some
\* of the buffer written, but _file keeps it.
CloseFails ==
  /\ ~closed /\ file = "open" /\ faults < MaxFaults
  /\ faults' = faults + 1
  /\ closed' = TRUE
  /\ file' = "stale"
  /\ \E n \in 0..Len(buffer) : disk' = disk \o SubSeq(buffer, 1, n)
  /\ buffer' = <<>>
  /\ accepted' = {}
  /\ UNCHANGED <<mode, durable, exposed, calls>>

\* The process is killed: what was buffered is gone.
Crash ==
  /\ ~closed /\ faults < MaxFaults
  /\ faults' = faults + 1
  /\ closed' = TRUE
  /\ file' = "none"
  /\ buffer' = <<>>
  /\ accepted' = {}
  /\ UNCHANGED <<disk, mode, durable, exposed, calls>>

\* A new exporter on the same path, after the last one was closed or died.
Construct ==
  /\ closed
  /\ closed' = FALSE
  /\ file' = "none"
  /\ mode' \in Mode
  /\ UNCHANGED <<disk, buffer, accepted, durable, exposed, calls, faults>>

Next ==
  \/ \E e \in Event : Export(e)
  \/ \E es \in Batch : ExportBatch(es) \/ ExportFails(es)
  \/ \E n \in 1..Len(buffer) : Spill(n)
  \/ Flush \/ FlushFails \/ Close \/ CloseFails
  \/ Crash \/ Construct

Spec == Init /\ [][Next]_vars

-----------------------------------------------------------------------------
(* The readers. *)

\* The text of an event fills the line that starts at position i.
WholeAt(i) ==
  /\ i > 1 => disk[i - 1] = Newline
  /\ i + 1 <= Len(disk)
  /\ disk[i] # Newline /\ disk[i][2] = 1
  /\ disk[i + 1] = <<disk[i][1], 2>>
  /\ i + 2 <= Len(disk) => disk[i + 2] = Newline

Whole == {i \in DOMAIN disk : WholeAt(i)}

\* The non-blank lines that are something else, each by its first position.
Malformed ==
  {i \in DOMAIN disk : /\ disk[i] # Newline
                       /\ i > 1 => disk[i - 1] = Newline
                       /\ ~WholeAt(i)}

\* The file is text: no character is cut off in it.
Decodable ==
  \A i \in DOMAIN disk :
    disk[i] # Newline /\ disk[i][2] = 1 /\ disk[i][1] \in MidCharacter =>
      i < Len(disk) /\ disk[i + 1] = <<disk[i][1], 2>>

\* What a reader yields, by the first positions of the lines.  Decoding happens
\* in the `for` statement, outside the `try`.
FromFile(skip_errors) ==
  IF ~Decodable \/ (Malformed # {} /\ ~skip_errors)
  THEN [raised |-> TRUE, lines |-> {}]
  ELSE [raised |-> FALSE, lines |-> Whole]

\* str.splitlines() also ends a line at U+2028, U+2029 and U+0085, which
\* to_json() writes as they are.
SplitByReader == {i \in Whole : disk[i][1] \in SplitsLine}

AiterFile(skip_errors) ==
  IF ~Decodable \/ (Malformed \cup SplitByReader # {} /\ ~skip_errors)
  THEN [raised |-> TRUE, lines |-> {}]
  ELSE [raised |-> FALSE, lines |-> Whole \ SplitByReader]

-----------------------------------------------------------------------------
TypeOK ==
  /\ disk \in Seq(Fragment) /\ buffer \in Seq(Fragment)
  /\ mode \in Mode
  /\ file \in {"none", "open", "stale"}
  /\ closed \in BOOLEAN
  /\ closed \/ file = "none" => buffer = <<>>
  /\ accepted \subseteq Event /\ durable \subseteq Event /\ exposed \subseteq Event
  /\ calls \in 0..MaxCalls /\ faults \in 0..MaxFaults

\* What was exported and flushed is read back, whatever crashes and failing
\* writes came before and after, up to one event for each of them: the first
\* line after an unterminated one is glued to it and lost (jsonl.py:121-124).
\* Exempt is what still was in the buffer when another call's write failed: any
\* number of events whose export() had returned may be dropped then, and a
\* later flush() returns all the same (jsonl.py:159).
LossIsBounded ==
  LET read == FromFile(TRUE) IN
  ~read.raised =>
    Cardinality((durable \ exposed) \ {disk[i][1] : i \in read.lines}) <= faults

\* At most one line for each crash or failing write is malformed, and the one
\* that is being written: a reader that skips errors skips no more.
MalformedIsBounded ==
  Cardinality(Malformed) <= faults + (IF buffer = <<>> THEN 0 ELSE 1)

\* stream.py:519, aiter_file() is the "Async generator equivalent of
\* :func:`iter_file`": it yields the same events of the same file.
AiterAgrees == AiterFile(TRUE) = FromFile(TRUE)

\* stream.py:127-128, "When ``True``, silently skip malformed lines instead of
\* raising": with skip_errors no content of the file makes a reader raise.
SkipErrorsSkips == ~FromFile(TRUE).raised
=============================================================================
