------------------------------ MODULE A2aTask ------------------------------
(***************************************************************************)
(* One A2A task served by several runtime replicas that share a database:  *)
(* message/send, tasks/cancel and the durable event stream (a2a.py,        *)
(* a2a_ownership.py, a2a_task_store.py, a2a_event_relay.py).               *)
(*                                                                         *)
(* Every await of the code is a step boundary.  A lease is live until it   *)
(* expires, which may happen at any moment; replicas whose clocks differ   *)
(* see no more than that.  The executor puts protocol events into the      *)
(* queue of the A2A SDK, and the SDK's consumer saves the task for each of *)
(* them, later.                                                            *)
(***************************************************************************)
EXTENDS Naturals, Sequences, FiniteSets

CONSTANTS Req,        \* the requests
          Mixes,      \* the kinds they may be of, each a [Req -> Kinds]
          Replica,    \* runtime processes
          Nobody,     \* the owner_id of a released row, and of a dead process
          MaxFaults   \* bound on crashes, shutdowns, stalls and timeouts

Kinds == {"send", "cancel", "stream"}
Terminal == {"completed", "failed", "canceled"}
Events == {"submitted", "artifact"} \cup Terminal

ASSUME MixesAssumption == Mixes \subseteq [Req -> Kinds]
ASSUME NobodyAssumption == Nobody \notin Replica
ASSUME FaultsAssumption == MaxFaults \in Nat

VARIABLES
    row,      \* the ownership row; state "absent" before the first acquire
    task,     \* the state of the durable task snapshot, or "none"
    log,      \* the durable events, in sequence
    req,      \* req[q]: the state of request q
    calls,    \* the requests that called the agent
    written,  \* the fence of the last durable write
    faults

vars == <<row, task, log, req, calls, written, faults>>

Executing == {"check1", "invoke", "invoking", "check2", "bind", "check3", "checkExc"}
Cleaning == {"cancelled", "finally", "drain", "release"}
Finalizing == {"reclaimed", "finalTask", "finalSave", "finalRelease", "closing"}
Waiting == {"waitTask", "waitRow", "waitAcquire"}
Canceling == {"requesting", "cancelGet", "remoteTask", "remoteRow", "remoteAcquire"}
Relaying == {"relayRow", "relayRead"}
Busy == {"acquire", "owner"} \cup Executing \cup Cleaning \cup Finalizing
        \cup Waiting \cup Canceling \cup Relaying
Done == {"answered", "ended", "error", "crashed"}

ReqState ==
    [pc : {"new"} \cup Busy \cup Done, kind : Kinds, rep : Replica, fence : Nat,
     lent : BOOLEAN,           \* it writes under the fence of another execution
     queue : Seq(Events),      \* the SDK's event queue of its execution
     broken : BOOLEAN,         \* a save was refused: the consumer has stopped
     beat : {"off", "on", "raised"},
     cancel : BOOLEAN,         \* cancel_requested of its ownership snapshot
     home : SUBSET Req,        \* the executions it found active on its replica
     seen : {"none", "running", "released", "absent"} \cup Terminal,
     term : {"released"} \cup Terminal,
     told : {"none"} \cup Terminal,
     got : Nat]

TypeOK ==
    /\ row \in [owner : Replica \cup {Nobody}, fence : Nat, live : BOOLEAN, cancel : BOOLEAN,
                state : {"absent", "running", "released"} \cup Terminal]
    /\ task \in {"none", "submitted"} \cup Terminal
    /\ log \in Seq([fence : Nat, event : Events])
    /\ req \in [Req -> ReqState]
    /\ calls \subseteq Req
    /\ written \in Nat
    /\ faults \in 0..MaxFaults

-----------------------------------------------------------------------------
\* Helpers

\* Request q changes its state to s; it only moves on to p.
Become(q, s) == req' = [req EXCEPT ![q] = s]
Go(q, p) == req' = [req EXCEPT ![q].pc = p]
Others == <<row, task, log, calls, written, faults>>

\* q's owner_id and fence are those of a running row.
Owns(q) == row.state = "running" /\ row.owner = req[q].rep /\ row.fence = req[q].fence

\* Mutant: the fence is not compared.
OwnsLiveOfReplica(q) == row.state = "running" /\ row.owner = req[q].rep /\ row.live

\* ... and the lease has not expired: what run_if_owned asks.
OwnsLive(q) == Owns(q) /\ row.live

\* _ownership_stop_reason.
StopReason(q) ==
    IF ~OwnsLive(q) THEN "lost" ELSE IF row.cancel THEN "canceled" ELSE "none"

\* Mutant: a running row may be taken, whether its lease is live or not.
AcquirableWhenLive == row.state \in {"absent", "released", "running"}

\* A row nobody holds: new, released, or running on an expired lease.
Acquirable == row.state \in {"absent", "released"} \/ (row.state = "running" /\ ~row.live)

\* Mutant: a reclaimed row keeps its fence.
TakenSameFence(q) ==
    [row EXCEPT !.owner = req[q].rep, !.fence = IF row.state = "absent" THEN 1 ELSE @,
                !.live = TRUE, !.state = "running"]

\* The row as acquire leaves it for q.
Taken(q) ==
    [row EXCEPT !.owner = req[q].rep, !.fence = @ + 1, !.live = TRUE, !.state = "running"]

\* The row as release leaves it: by owner and fence, whatever its state.
MayRelease(q) == row.owner = req[q].rep /\ row.fence = req[q].fence
Released(q, s) ==
    [row EXCEPT !.owner = Nobody, !.live = FALSE, !.state = s,
                !.cancel = IF s = "released" THEN FALSE ELSE req[q].cancel]

\* q leaves the try block: its heartbeat task is cancelled.
ToFinally(q, term) ==
    [req[q] EXCEPT !.pc = "finally", !.term = term, !.beat = IF @ = "on" THEN "off" ELSE @]
\* ... after putting one or two protocol events into its queue.
Publish(q, events, term) ==
    [ToFinally(q, term) EXCEPT !.queue = @ \o events]

\* The event of q that is saved with the task, and the log with it appended.
NextEvent(q) == Head(req[q].queue)
Appended(q) == Append(log, [fence |-> req[q].fence, event |-> NextEvent(q)])

\* read_after: the events after the cursor of q.
After(q) == SubSeq(log, req[q].got + 1, Len(log))

\* CancelledError strikes the execution q.  One that is not in its try block
\* any more is cut short and never releases its lease.
Interrupted(q) ==
    CASE req[q].pc \in Executing \ {"checkExc"} -> [req[q] EXCEPT !.pc = "cancelled"]
      [] req[q].pc \in {"checkExc", "cancelled"} -> ToFinally(q, "released")
      [] OTHER -> [req[q] EXCEPT !.pc = "ended"]

-----------------------------------------------------------------------------
Init ==
    /\ row = [owner |-> Nobody, fence |-> 0, live |-> FALSE, cancel |-> FALSE,
              state |-> "absent"]
    /\ task = "none"
    /\ log = <<>>
    /\ \E mix \in Mixes, at \in [Req -> Replica] :
         req = [q \in Req |->
                  [pc |-> "new", kind |-> mix[q], rep |-> at[q], fence |-> 0, lent |-> FALSE,
                   queue |-> <<>>, broken |-> FALSE, beat |-> "off", cancel |-> FALSE,
                   home |-> {}, seen |-> "none", term |-> "released", told |-> "none",
                   got |-> 0]]
    /\ calls = {}
    /\ written = 0
    /\ faults = 0

\* The SDK has the task active on replica r: one execution, or one cancellation
\* of a task nobody executes there.
Active(r) ==
    {p \in Req : req[p].rep = r /\ req[p].kind # "stream"
                 /\ (req[p].pc \in Busy \/ req[p].queue # <<>>)}

\* message/send: the SDK starts an executor unless it has the task active.
ReceiveSend(q) ==
    /\ req[q].pc = "new" /\ req[q].kind = "send"
    /\ Active(req[q].rep) = {}
    /\ Go(q, "acquire")
    /\ UNCHANGED Others

\* tasks/cancel of a task that is not terminal: the SDK cancels the local
\* producer, if there is one, before it calls the executor.
ReceiveCancel(q) ==
    /\ req[q].pc = "new" /\ req[q].kind = "cancel"
    /\ task = "submitted"
    /\ \A p \in Active(req[q].rep) : req[p].kind = "send"
    /\ req' = [p \in Req |->
                 IF p = q THEN [req[q] EXCEPT !.pc = "requesting", !.home = Active(req[q].rep)]
                 ELSE IF p \in Active(req[q].rep) /\ req[p].pc \in Busy THEN Interrupted(p)
                 ELSE req[p]]
    /\ UNCHANGED Others

\* A subscription to a durable task that is not active on this replica.
ReceiveStream(q) ==
    /\ req[q].pc = "new" /\ req[q].kind = "stream"
    /\ task # "none"
    /\ Active(req[q].rep) = {}
    /\ Go(q, "relayRow")
    /\ UNCHANGED Others

-----------------------------------------------------------------------------
\* message/send: claim the task or wait for its owner

\* acquire succeeds; a row that existed is reclaimed.
AcquireGranted(q) ==
    /\ req[q].pc \in {"acquire", "waitAcquire", "remoteAcquire"}
    /\ Acquirable
    /\ row' = Taken(q)
    /\ Become(q, [req[q] EXCEPT !.fence = row.fence + 1, !.cancel = row.cancel,
                    !.pc = IF @ = "remoteAcquire" THEN "finalTask"
                           ELSE IF row.state = "absent" THEN "owner" ELSE "reclaimed"])
    /\ UNCHANGED <<task, log, calls, written, faults>>

AcquireRefused(q) ==
    /\ req[q].pc \in {"acquire", "waitAcquire", "remoteAcquire"}
    /\ ~Acquirable
    /\ Go(q, IF req[q].pc = "remoteAcquire" THEN "remoteTask" ELSE "waitTask")
    /\ UNCHANGED Others

\* A request that lost reads the task: a terminal one is replayed to it ...
WaitReadTask(q) ==
    /\ req[q].pc = "waitTask"
    /\ Become(q, IF task \in Terminal
                 THEN [req[q] EXCEPT !.pc = "answered", !.told = task]
                 ELSE [req[q] EXCEPT !.pc = "waitRow"])
    /\ UNCHANGED Others

\* ... otherwise it reads the row: a released one it tries to acquire, and a
\* terminal one makes it replay the snapshot it has, which is not terminal and
\* which the fenced store refuses when it is not the durable one any more.
WaitReadRow(q) ==
    /\ req[q].pc = "waitRow"
    /\ Go(q, CASE row.state = "released" -> "waitAcquire"
               [] row.state \in Terminal -> "error"
               [] OTHER -> "waitTask")
    /\ UNCHANGED Others

-----------------------------------------------------------------------------
\* Finalizing a task whose owner is gone

\* Mutants: a terminal snapshot is finalized again; the final state is not set.
FinalizesAgain(q) ==
    /\ req[q].pc \in {"reclaimed", "finalTask"}
    /\ Become(q, IF task = "none"
                 THEN [req[q] EXCEPT !.pc = IF @ = "reclaimed" THEN "owner" ELSE "error"]
                 ELSE [req[q] EXCEPT !.pc = "finalSave",
                         !.term = IF req[q].kind = "cancel" \/ req[q].cancel
                                  THEN "canceled" ELSE "failed"])
    /\ UNCHANGED Others

FinalizesUnset(q) ==
    /\ req[q].pc \in {"reclaimed", "finalTask"}
    /\ Become(q, CASE task = "none" ->
                        [req[q] EXCEPT !.pc = IF @ = "reclaimed" THEN "owner" ELSE "error"]
                   [] task \in Terminal -> [req[q] EXCEPT !.pc = "closing", !.term = task]
                   [] OTHER -> [req[q] EXCEPT !.pc = "finalSave"])
    /\ UNCHANGED Others

\* A reclaimed task is read.  Without a snapshot a send executes it, and a
\* cancel fails; a terminal snapshot closes the row; any other is finalized.
ReadReclaimed(q) ==
    /\ req[q].pc \in {"reclaimed", "finalTask"}
    /\ Become(q, CASE task = "none" ->
                        [req[q] EXCEPT !.pc = IF @ = "reclaimed" THEN "owner" ELSE "error"]
                   [] task \in Terminal -> [req[q] EXCEPT !.pc = "closing", !.term = task]
                   [] OTHER -> [req[q] EXCEPT !.pc = "finalSave",
                                  !.term = IF req[q].kind = "cancel" \/ req[q].cancel
                                           THEN "canceled" ELSE "failed"])
    /\ UNCHANGED Others

\* The row of a terminal task is closed, if it still can be; the task is
\* replayed whatever release answers.
CloseReclaimed(q) ==
    /\ req[q].pc = "closing"
    /\ row' = IF MayRelease(q) THEN Released(q, req[q].term) ELSE row
    /\ Become(q, [req[q] EXCEPT !.pc = "answered", !.told = req[q].term])
    /\ UNCHANGED <<task, log, calls, written, faults>>

\* The final state is saved under the fence, without a protocol event.
FinalSave(q) ==
    /\ req[q].pc = "finalSave"
    /\ IF OwnsLive(q)
       THEN /\ task' = req[q].term
            /\ written' = req[q].fence
            /\ Go(q, "finalRelease")
       ELSE /\ Go(q, "error")
            /\ UNCHANGED <<task, written>>
    /\ UNCHANGED <<row, log, calls, faults>>

FinalRelease(q) ==
    /\ req[q].pc = "finalRelease"
    /\ IF MayRelease(q)
       THEN /\ row' = Released(q, req[q].term)
            /\ Become(q, [req[q] EXCEPT !.pc = "answered", !.told = req[q].term])
       ELSE /\ Go(q, "error")
            /\ UNCHANGED row
    /\ UNCHANGED <<task, log, calls, written, faults>>

-----------------------------------------------------------------------------
\* message/send: execute the task

\* The owner queues the initial task event and starts its heartbeat.
Start(q) ==
    /\ req[q].pc = "owner"
    /\ Become(q, [req[q] EXCEPT !.pc = "check1", !.beat = "on",
                                !.queue = Append(@, "submitted")])
    /\ UNCHANGED Others

\* _ownership_stop_reason says stop: a lost lease ends the execution silently,
\* a cancellation is published.
CheckStops(q) ==
    /\ req[q].pc \in {"check1", "check2", "check3", "checkExc"}
    /\ StopReason(q) # "none"
    /\ Become(q, IF StopReason(q) = "lost" THEN ToFinally(q, "released")
                 ELSE Publish(q, <<"canceled">>, "canceled"))
    /\ UNCHANGED Others

\* It says go on: with the agent's answer, which may be an error or come with
\* a session to bind, or with its exception.
CheckPasses(q) ==
    /\ StopReason(q) = "none"
    /\ \/ req[q].pc = "check1" /\ Go(q, "invoke")
       \/ req[q].pc = "check2" /\ Become(q, Publish(q, <<"failed">>, "failed"))
       \/ req[q].pc = "check2" /\ (Go(q, "bind") \/ Go(q, "check3"))
       \/ req[q].pc = "check3" /\ Become(q, Publish(q, <<"artifact", "completed">>, "completed"))
       \/ req[q].pc = "checkExc" /\ Become(q, Publish(q, <<"failed">>, "failed"))
    /\ UNCHANGED Others

\* The agent is called: from here on its side effects may have happened.
Invoke(q) ==
    /\ req[q].pc = "invoke"
    /\ calls' = calls \cup {q}
    /\ Go(q, "invoking")
    /\ UNCHANGED <<row, task, log, written, faults>>

InvokeEnds(q) ==
    /\ req[q].pc = "invoking"
    /\ Go(q, "check2") \/ Go(q, "checkExc")
    /\ UNCHANGED Others

BindSession(q) ==
    /\ req[q].pc = "bind"
    /\ Become(q, IF Owns(q) THEN [req[q] EXCEPT !.pc = "check3"] ELSE ToFinally(q, "released"))
    /\ UNCHANGED Others

\* CancelledError was raised in the try block: the row says whether it means a
\* cancellation of the task.
Cancelled(q) ==
    /\ req[q].pc = "cancelled"
    /\ Become(q, ToFinally(q, IF row.cancel THEN "canceled" ELSE "released"))
    /\ UNCHANGED Others

\* finally: the exception of a heartbeat that raised comes up here; otherwise an
\* execution without an outcome reads the flag once more.
Finally(q) ==
    /\ req[q].pc = "finally"
    /\ Become(q, IF req[q].beat = "raised" THEN [req[q] EXCEPT !.pc = "ended"]
                 ELSE [req[q] EXCEPT !.pc = "drain",
                         !.term = IF @ = "released" /\ row.cancel THEN "canceled" ELSE @])
    /\ UNCHANGED Others

\* Mutant: release does not wait for the queue.
ReleaseUndrained(q) ==
    /\ req[q].pc = "drain"
    /\ Go(q, "release")
    /\ UNCHANGED Others

\* The queue is drained ...
Drained(q) ==
    /\ req[q].pc = "drain"
    /\ req[q].queue = <<>> /\ ~req[q].broken
    /\ Go(q, "release")
    /\ UNCHANGED Others

\* ... or is not, in time: the lease is left to expire.
DrainTimeout(q) ==
    /\ req[q].pc = "drain"
    /\ IF req[q].broken THEN UNCHANGED faults ELSE faults < MaxFaults /\ faults' = faults + 1
    /\ Go(q, "ended")
    /\ UNCHANGED <<row, task, log, calls, written>>

Release(q) ==
    /\ req[q].pc = "release"
    /\ row' = IF MayRelease(q) THEN Released(q, req[q].term) ELSE row
    /\ Go(q, "ended")
    /\ UNCHANGED <<task, log, calls, written, faults>>

-----------------------------------------------------------------------------
\* The SDK's consumer and the heartbeat task

\* The consumer saves the task and appends the event under the fence, in one
\* transaction; it stops at a terminal event, and when the save is refused.
Consume(q) ==
    /\ req[q].queue # <<>>
    /\ LET event == NextEvent(q) IN
       IF OwnsLive(q)
       THEN /\ task' = IF event = "artifact" THEN task ELSE event
            /\ log' = Appended(q)
            /\ written' = req[q].fence
            /\ Become(q, IF event \in Terminal
                         THEN [req[q] EXCEPT !.queue = <<>>, !.told = event]
                         ELSE [req[q] EXCEPT !.queue = Tail(@)])
       ELSE /\ Become(q, [req[q] EXCEPT !.broken = TRUE, !.queue = <<>>])
            /\ UNCHANGED <<task, log, written>>
    /\ UNCHANGED <<row, calls, faults>>

\* heartbeat extends the lease of the running row it matches, expired or not.
Heartbeat(q) ==
    /\ req[q].beat = "on"
    /\ ~OwnsLive(q)
    /\ IF Owns(q)
       THEN row' = [row EXCEPT !.live = TRUE] /\ UNCHANGED req
       ELSE req' = [req EXCEPT ![q].beat = "off"] /\ UNCHANGED row
    /\ UNCHANGED <<task, log, calls, written, faults>>

\* A database error ends the heartbeat task.
HeartbeatRaises(q) ==
    /\ req[q].beat = "on"
    /\ faults < MaxFaults
    /\ faults' = faults + 1
    /\ req' = [req EXCEPT ![q].beat = "raised"]
    /\ UNCHANGED <<row, task, log, calls, written>>

-----------------------------------------------------------------------------
\* tasks/cancel

RequestCancel(q) ==
    /\ req[q].pc = "requesting"
    /\ row' = IF row.state = "running" THEN [row EXCEPT !.cancel = TRUE] ELSE row
    /\ Go(q, "cancelGet")
    /\ UNCHANGED <<task, log, calls, written, faults>>

\* This replica owns the row: the cancellation is published under its fence,
\* through the queue of the execution, which takes no event any more once the
\* producer has ended, or through a queue of its own.  Otherwise the request
\* waits for the owner.
CancelGet(q) ==
    /\ req[q].pc = "cancelGet"
    /\ LET open == {p \in req[q].home : req[p].pc \in Busy /\ ~req[p].broken
                                         /\ req[p].told = "none"}
       IN  IF row.owner # req[q].rep THEN Go(q, "remoteTask")
           ELSE IF req[q].home = {}
           THEN Become(q, [req[q] EXCEPT !.pc = "ended", !.fence = row.fence, !.lent = TRUE,
                                         !.queue = <<"canceled">>])
           ELSE req' = [p \in Req |->
                          IF p = q THEN [req[q] EXCEPT !.pc = "ended"]
                          ELSE IF p \in open THEN [req[p] EXCEPT !.queue = Append(@, "canceled")]
                          ELSE req[p]]
    /\ UNCHANGED Others

RemoteReadTask(q) ==
    /\ req[q].pc = "remoteTask"
    /\ Become(q, IF task \in Terminal
                 THEN [req[q] EXCEPT !.pc = "answered", !.told = task]
                 ELSE [req[q] EXCEPT !.pc = "remoteRow"])
    /\ UNCHANGED Others

\* The owner is gone: take over.  Otherwise poll again until the deadline.
RemoteReadRow(q) ==
    /\ req[q].pc = "remoteRow"
    /\ IF row.owner # req[q].rep /\ (row.state # "running" \/ ~row.live)
       THEN Go(q, "remoteAcquire")
       ELSE Go(q, "remoteTask") \/ Go(q, "error")
    /\ UNCHANGED Others

-----------------------------------------------------------------------------
\* The event relay

\* The ownership row is read before every page ...
RelayReadRow(q) ==
    /\ req[q].pc = "relayRow"
    /\ Become(q, [req[q] EXCEPT !.pc = "relayRead", !.seen = row.state])
    /\ UNCHANGED Others

\* ... then the events after the cursor.  A terminal event ends the stream, and
\* so does an empty page of a task that nobody was executing.
RelayReadPage(q) ==
    /\ req[q].pc = "relayRead"
    /\ IF After(q) # <<>>
       THEN LET event == Head(After(q)).event IN
            Become(q, IF event \in Terminal
                      THEN [req[q] EXCEPT !.got = @ + 1, !.told = event, !.pc = "answered"]
                      ELSE [req[q] EXCEPT !.got = @ + 1, !.seen = "none", !.pc = "relayRow"])
       ELSE Become(q, IF req[q].seen = "running"
                      THEN [req[q] EXCEPT !.pc = "relayRow", !.seen = "none"]
                      ELSE [req[q] EXCEPT !.pc = "ended"])
    /\ UNCHANGED Others

\* No event before the deadline.
RelayTimeout(q) ==
    /\ req[q].pc = "relayRead"
    /\ After(q) = <<>> /\ req[q].seen = "running"
    /\ Become(q, [req[q] EXCEPT !.pc = "error"])
    /\ UNCHANGED Others

-----------------------------------------------------------------------------
\* Faults

\* The lease expires: that of an owner that does not beat, or that is stalled.
Expire ==
    /\ row.live
    /\ row' = [row EXCEPT !.live = FALSE]
    /\ IF \E q \in Req : req[q].beat = "on" /\ Owns(q)
       THEN faults < MaxFaults /\ faults' = faults + 1
       ELSE UNCHANGED faults
    /\ UNCHANGED <<task, log, req, calls, written>>

\* The runtime shuts down: the producer is cancelled.
Shutdown(q) ==
    /\ req[q].pc \in Executing
    /\ faults < MaxFaults
    /\ faults' = faults + 1
    /\ Become(q, Interrupted(q))
    /\ UNCHANGED <<row, task, log, calls, written>>

\* A replica dies; its successor has another owner_id.
Crash(r) ==
    /\ faults < MaxFaults
    /\ faults' = faults + 1
    /\ req' = [q \in Req |-> IF req[q].rep = r /\ req[q].pc # "new"
                             THEN [req[q] EXCEPT !.pc = IF @ \in Done THEN @ ELSE "crashed",
                                                 !.beat = "off", !.queue = <<>>]
                             ELSE req[q]]
    /\ row' = IF row.owner = r THEN [row EXCEPT !.owner = Nobody] ELSE row
    /\ UNCHANGED <<task, log, calls, written>>

Proceed(q) ==
    \/ ReceiveSend(q) \/ ReceiveCancel(q) \/ ReceiveStream(q)
    \/ AcquireGranted(q) \/ AcquireRefused(q) \/ WaitReadTask(q) \/ WaitReadRow(q)
    \/ ReadReclaimed(q) \/ CloseReclaimed(q) \/ FinalSave(q) \/ FinalRelease(q)
    \/ Start(q) \/ CheckStops(q) \/ CheckPasses(q) \/ Invoke(q) \/ InvokeEnds(q)
    \/ BindSession(q) \/ Cancelled(q) \/ Finally(q) \/ Drained(q) \/ DrainTimeout(q)
    \/ Release(q)
    \/ RequestCancel(q) \/ CancelGet(q) \/ RemoteReadTask(q) \/ RemoteReadRow(q)
    \/ RelayReadRow(q) \/ RelayReadPage(q) \/ RelayTimeout(q)

Next ==
    \/ \E q \in Req : Proceed(q) \/ Consume(q) \/ Heartbeat(q) \/ HeartbeatRaises(q)
                    \/ Shutdown(q)
    \/ Expire
    \/ \E r \in Replica : Crash(r)

Spec == Init /\ [][Next]_vars

-----------------------------------------------------------------------------
\* A terminal task is never changed again: a late completion, failure or
\* cancellation of an owner that was fenced out does not get through.
TerminalIsFinal == [][(task \in Terminal) => (task' = task)]_vars

\* Whoever is told the outcome of the task, by its own execution, by a replay of
\* the snapshot, by finalizing it or by a stream, is told what the durable task
\* says, then and ever after.
AnswersAgree == \A q \in Req : req[q].told # "none" => req[q].told = task

\* A row that says completed or failed belongs to a task that says so: the
\* executor releases its lease after the terminal event is durable.
OutcomeIsDurable == row.state \in {"completed", "failed"} => task = row.state

\* A stream does not end empty-handed on the row of a completed task: by the
\* time the row says so, its next page holds the completed event.
StreamsAreComplete ==
    \A q \in Req : (req[q].kind = "stream" /\ req[q].pc = "ended") =>
      req[q].seen # "completed"

\* A terminal ownership row never stands for a task that is not terminal.
ClosedRowMeansTerminalTask == row.state \in Terminal => task \in Terminal

\* The agent is called at most once for a task.
CalledOnce == Cardinality(calls) <= 1

\* The ownership store and the fenced task store keep the promise of
\* FencingToken; a local cancellation writes under the token of the execution.
Fencing == INSTANCE FencingToken
             WITH Client <- Req, Resource <- {"task"},
                  KeyOf <- [q \in Req |-> "task"],
                  newest <- [t \in {"task"} |-> row.fence],
                  token <- [q \in Req |-> IF req[q].lent THEN 0 ELSE req[q].fence],
                  accepted <- [t \in {"task"} |-> written]

FencingSpec == Fencing!Spec

\* The request that was granted the row last.
Holder == CHOOSE q \in Req : ~req[q].lent /\ req[q].fence = row.fence

\* To the requests the row of a running task is a lease on it, also when its
\* owner has died, until it expires.
Leases == INSTANCE LeaseTable
            WITH Client <- Req, Resource <- {"task"}, Nobody <- Nobody,
                 owner <- [t \in {"task"} |-> IF row.state = "running" THEN Holder ELSE Nobody],
                 live <- [t \in {"task"} |-> row.state = "running" /\ row.live],
                 relying <- {q \in Req : req[q].fence > 0 /\ req[q].pc \in Busy}

LeaseSpec == Leases!Spec
=============================================================================
