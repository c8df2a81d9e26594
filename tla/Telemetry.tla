------------------------------ MODULE Telemetry ------------------------------
(***************************************************************************)
(* Capability telemetry (observability.py): every model, tool or MCP call  *)
(* ends with a bounded event that goes to one sink: a bounded list, a      *)
(* bounded file that the threads of a process share, or a PostgreSQL table *)
(* that replicas share.  Metrics, logs and traces are left out.            *)
(*                                                                         *)
(* The events of an operation are numbered by a context variable, which a  *)
(* task or thread gets a copy of when it is started.                       *)
(***************************************************************************)
EXTENDS Naturals, Sequences

CONSTANTS Tracer,          \* the tasks and threads of one operation (request)
          ParentOf,        \* the one that starts it; itself where the request starts
          CapabilityOf,    \* the model, tool or server that each calls
          MaxLines,        \* max_events, or max_bytes / the size of an event
          Retention,       \* retention_days
          MaxOutcomes,     \* bound of the calls each makes
          MaxDay,          \* bound of the clock
          NoTracer

ASSUME TelemetryAssumption == /\ {MaxLines, Retention} \subseteq Nat \ {0}
                              /\ {MaxOutcomes, MaxDay} \subseteq Nat
                              /\ ParentOf \in [Tracer -> Tracer] /\ NoTracer \notin Tracer

VARIABLES sink,            \* the kind of the sink
          numbering,       \* numbering[w]: _telemetry_sequence in the context of w
          ended,           \* ended[w]: how many calls of w have ended
          event,           \* event[w]: the event that w is recording
          sinking,         \* sinking[w]: where w is in record
          sinkLock, lines, \* _lock; the events in the list or the file, oldest first
          temporary,       \* the temporary file
          rows, day,       \* the rows of the table; the date
          recorded         \* the events recorded, in order, and when (ghost)

telemetryVars == <<sink, numbering, ended, event, sinking, sinkLock, lines, temporary, rows,
                   day, recorded>>

\* An event's id is made of its number and capability (and its operation).
NoEvent == [number |-> 0, capability |-> "none", by |-> NoTracer]

TelemetryInit ==
    /\ sink \in {"list", "file", "table"}
    /\ numbering = [w \in Tracer |-> 0]
    /\ ended = [w \in Tracer |-> 0]
    /\ event = [w \in Tracer |-> NoEvent]
    /\ sinking = [w \in Tracer |-> IF ParentOf[w] = w THEN "idle" ELSE "unborn"]
    /\ sinkLock = NoTracer
    /\ lines = <<>> /\ temporary = <<>> /\ rows = {} /\ day = 0 /\ recorded = <<>>

Sinks(w, place) == sinking' = [sinking EXCEPT ![w] = place]
sinkOnly == UNCHANGED <<sink, numbering, ended, day>>

\* A task or thread starts with a copy of its parent's context.
StartTracer(w) ==
    /\ sinking[w] = "unborn" /\ sinking[ParentOf[w]] = "idle"
    /\ numbering' = [numbering EXCEPT ![w] = numbering[ParentOf[w]]]
    /\ Sinks(w, "idle")
    /\ UNCHANGED <<sink, ended, event, sinkLock, lines, temporary, rows, day, recorded>>

\* Mutant: the context keeps its number.
NextNumberSame(w) == 1
\* _record_capability: the number of the next event.
NextNumber(w) == numbering[w] + 1

EndSpan(w) ==
    /\ sinking[w] = "idle" /\ ended[w] < MaxOutcomes
    /\ numbering' = [numbering EXCEPT ![w] = NextNumber(w)]
    /\ ended' = [ended EXCEPT ![w] = @ + 1]
    /\ event' = [event EXCEPT ![w] = [number |-> NextNumber(w), capability |-> CapabilityOf[w],
                                      by |-> w]]
    /\ Sinks(w, "record")
    /\ UNCHANGED <<sink, sinkLock, lines, temporary, rows, day, recorded>>

NewestLines(q) == IF Len(q) <= MaxLines THEN q ELSE SubSeq(q, Len(q) - MaxLines + 1, Len(q))
LeaveSink(w) == event' = [event EXCEPT ![w] = NoEvent] /\ Sinks(w, "idle")
Recorded(w) == recorded' = Append(recorded, [event |-> event[w], on |-> day]) /\ LeaveSink(w)

\* InMemoryCapabilityTelemetrySink.record, under its lock.
RecordInList(w) ==
    /\ sinking[w] = "record" /\ sink = "list"
    /\ lines' = NewestLines(Append(lines, event[w]))
    /\ Recorded(w) /\ UNCHANGED <<sinkLock, temporary, rows>> /\ sinkOnly

Fresh(all) == {row \in all : row.on + Retention >= day}
SameId(e, f) == e.number = f.number /\ e.capability = f.capability

\* PostgresCapabilityTelemetrySink.record: an event whose id is there is dropped
\* (ON CONFLICT DO NOTHING), and old rows are deleted.
RecordInTable(w) ==
    /\ sinking[w] = "record" /\ sink = "table"
    /\ rows' = Fresh(IF \E row \in rows : SameId(row.event, event[w]) THEN rows
                     ELSE rows \cup {[event |-> event[w], on |-> day]})
    /\ Recorded(w) /\ UNCHANGED <<sinkLock, lines, temporary>> /\ sinkOnly

\* prune, and delete_tenant.
PruneTable ==
    /\ sink = "table"
    /\ \/ rows' = Fresh(rows) /\ UNCHANGED recorded
       \/ rows' = {} /\ recorded' = <<>>
    /\ UNCHANGED <<event, sinking, sinkLock, lines, temporary>> /\ sinkOnly

SinkFree == sinkLock = NoTracer

\* JsonlCapabilityTelemetrySink.record: the lock, then the size of the file.
LockFile(w) ==
    /\ sinking[w] = "record" /\ sink = "file" /\ SinkFree
    /\ sinkLock' = w
    /\ Sinks(w, IF Len(lines) < MaxLines THEN "append" ELSE "compact")
    /\ UNCHANGED <<event, lines, temporary, rows, recorded>> /\ sinkOnly

AppendLine(w) ==
    /\ sinking[w] = "append"
    /\ lines' = Append(lines, event[w])
    /\ sinkLock' = NoTracer
    /\ Recorded(w) /\ UNCHANGED <<temporary, rows>> /\ sinkOnly

\* _compact: the newest lines go to the temporary file, which replaces the file.
WriteTemporary(w) ==
    /\ sinking[w] = "compact"
    /\ temporary' = NewestLines(Append(lines, event[w]))
    /\ Sinks(w, "replace")
    /\ UNCHANGED <<event, sinkLock, lines, rows, recorded>> /\ sinkOnly
ReplaceFile(w) ==
    /\ sinking[w] = "replace"
    /\ lines' = temporary /\ temporary' = <<>>
    /\ sinkLock' = NoTracer
    /\ Recorded(w) /\ UNCHANGED rows /\ sinkOnly

\* The file or the database fails, or the schema is not valid: the event is lost
\* (or only its fsync), and the call it is about is not disturbed.  A line that is
\* written in part is left out.
SinkFails(w) ==
    /\ sink # "list" /\ sinking[w] \notin {"unborn", "idle"}
    /\ \/ LeaveSink(w) /\ UNCHANGED <<lines, recorded>>
       \/ sinking[w] = "append" /\ lines' = Append(lines, event[w]) /\ Recorded(w)
    /\ temporary' = IF sinking[w] = "replace" THEN <<>> ELSE temporary
    /\ sinkLock' = IF sinkLock = w THEN NoTracer ELSE sinkLock
    /\ UNCHANGED rows /\ sinkOnly

NextDay == /\ sink = "table" /\ day < MaxDay /\ day' = day + 1
           /\ UNCHANGED <<sink, numbering, ended, event, sinking, sinkLock, lines, temporary,
                          rows, recorded>>

TelemetryNext ==
    \/ \E w \in Tracer :
         \/ StartTracer(w) \/ EndSpan(w) \/ RecordInList(w) \/ RecordInTable(w)
         \/ LockFile(w) \/ AppendLine(w) \/ WriteTemporary(w) \/ ReplaceFile(w) \/ SinkFails(w)
    \/ PruneTable \/ NextDay

Event == [number : Nat, capability : {"none"} \cup {CapabilityOf[w] : w \in Tracer},
          by : Tracer \cup {NoTracer}]
TelemetryTypeOK ==
    /\ numbering \in [Tracer -> Nat] /\ ended \in [Tracer -> 0 .. MaxOutcomes]
    /\ event \in [Tracer -> Event]
    /\ sinking \in [Tracer -> {"unborn", "idle", "record", "append", "compact", "replace"}]
    /\ sinkLock \in Tracer \cup {NoTracer}
    /\ {lines, temporary} \subseteq Seq(Event) /\ day \in 0 .. MaxDay
    /\ rows \subseteq [event : Event, on : 0 .. MaxDay]

\* Only w calls its capability.
Separate(w) == \A u \in Tracer \ {w} : CapabilityOf[u] # CapabilityOf[w]

\* The list and the file always hold the newest events that were recorded, in
\* order, and at most MaxLines, however appends and compactions by several threads
\* interleave; in the table, no event that is younger than the retention is missing
\* (unless two tasks of one operation call the same capability).
TelemetryIsKept ==
    /\ sink # "table" =>
         /\ Len(lines) <= MaxLines
         /\ Len(recorded) >= Len(lines)
         /\ \A i \in DOMAIN lines :
                recorded[Len(recorded) - Len(lines) + i].event = lines[i]
         /\ Len(recorded) >= MaxLines => Len(lines) = MaxLines
    /\ sink = "table" =>
         \A i \in DOMAIN recorded :
             Separate(recorded[i].event.by) /\ recorded[i].on + Retention >= day
                 => recorded[i] \in rows
=============================================================================
