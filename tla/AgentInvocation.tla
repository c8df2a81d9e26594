--------------------------- MODULE AgentInvocation ---------------------------
(***************************************************************************)
(* Requests to an agent runtime: the rate limit in front of the routes,    *)
(* then _invoke or stream_invoke of the ADK or LangGraph agent, which      *)
(* resolves the session, loads memory, runs the model and saves the        *)
(* exchange; and remember, by which the embedding application writes       *)
(* memory.  Requests run on any number of replicas and interleave at each  *)
(* await; those that use a SQL store also at each transaction.  The limit   *)
(* is part of the ADK service; the LangGraph agent, and remember, are      *)
(* called by an application that embeds them with stores of its choice.    *)
(***************************************************************************)
EXTENDS RateLimit, SessionStore, MemoryStore

CONSTANTS Req, NoSession, NoUser,
          FirstSession, FirstUser,  \* the session that exists at the start, its owner
          Asks,          \* Asks[c]: what the requests may be, in set-up c
          MaxFaults      \* bound on disconnections and deaths of replicas

Kinds == {"invoke", "stream", "remember"}
Ask == [kind : Kinds, user : User, sid : SessionId \cup {NoSession}]

ASSUME AsksAssumption == Asks \in [Configs -> SUBSET [Req -> Ask]]
ASSUME FirstAssumption == FirstSession \in SessionId /\ FirstUser \in User
ASSUME FaultsAssumption == MaxFaults \in Nat

ASSUME RouteAssumption == Route = {"invoke", "stream"}
ASSUME MessageAssumption == Message = Req \X {"user", "assistant"}
ASSUME NoneAssumption == NoSession \notin SessionId /\ NoUser \notin User

VARIABLES req,       \* req[r]: the state of request r
          answers,   \* answers[s]: the requests on session s that were answered, in order
          faults

vars == <<config, now, window, session, stored, entries, req, answers, faults>>

\* Before a session has been loaded.
NoCopy == [owner |-> NoUser, active |-> 0, revision |-> 0,
           history |-> <<>>, events |-> <<>>]

Active == {"limit", "consume", "resolve", "purge", "ensure", "recall", "search", "start",
           "view", "save", "model", "commit", "store", "enforce"}
Done == {"limited", "notFound", "denied", "conflict", "failed", "answered", "remembered", "gone"}

Entry == [id : Req, user : User, at : Nat, made : Nat]

Asked(r) == <<r, "user">>
Answered(r) == <<r, "assistant">>

Request == [pc : {"new"} \cup Active \cup Done, then : Active \cup Done,
            kind : Kinds, user : User, sid : SessionId \cup {NoSession},
            at : Nat, window : Nat, admitted : BOOLEAN,
            copy : Session \cup {NoCopy}, view : Session \cup {NoCopy},
            events : Seq(Message), seen : Seq(Message), recalled : SUBSET Entry,
            before : Nat, mixed : BOOLEAN]

TypeOK ==
    /\ config \in Configs /\ now \in 0..MaxClock
    /\ window \in [Route -> [id : Nat, count : Nat]]
    /\ session \in [SessionId -> Session]
    /\ \A s \in SessionId : /\ Len(session[s].history) <= MaxHistory
                            /\ Len(session[s].events) <= EventBound
    /\ stored \subseteq SessionId
    /\ entries \subseteq Entry
    /\ req \in [Req -> Request]
    /\ answers \in [SessionId -> Seq(Req)] /\ faults \in 0..MaxFaults

-----------------------------------------------------------------------------
\* Helpers

Become(r, s) == req' = [req EXCEPT ![r] = s]
Go(r, p) == req' = [req EXCEPT ![r].pc = p]
Stores == <<config, now, window, session, stored, entries, answers, faults>>

\* Request r becomes rq.  If this saves or deletes its session, every other
\* request that is using the session is told so, for the properties below.
Tell(r, rq) ==
    req' = [q \in Req |->
        IF q = r THEN rq
        ELSE IF /\ <<session', stored'>> # <<session, stored>>
                /\ req[q].sid = rq.sid /\ req[q].pc \in Active
             THEN [req[q] EXCEPT !.mixed = TRUE]
             ELSE req[q]]

\* The request is over, with outcome p; what it held is garbage.
Ended(r, p) == [req[r] EXCEPT !.pc = p, !.copy = NoCopy, !.view = NoCopy, !.events = <<>>]

\* A lookup found no session, and takes request r to rq.  An expired session is
\* deleted; a SQL provider does so in a transaction of its own.
NotFoundThen(r, rq) ==
    LET s == req[r].sid
    IN IF Durable /\ s \in stored
       THEN Become(r, [rq EXCEPT !.pc = "purge", !.then = rq.pc]) /\ UNCHANGED stored
       ELSE stored' = stored \ {s} /\ Tell(r, rq)

\* The session object that the invocation r works on.
Held(r) == IF Durable THEN req[r].copy ELSE session[req[r].sid]

\* Where _invoke goes once it has its session, and once it has its context.
AfterResolve == IF config.runtime = "adk" THEN "ensure"
                ELSE IF config.memory = "off" THEN "start" ELSE "recall"
AfterEnsure == IF config.memory = "off" THEN "start" ELSE "recall"

-----------------------------------------------------------------------------
\* FirstSession was created by an invocation that failed before its model ran.
Init ==
    /\ SetupInit /\ LimitInit
    /\ session = [s \in SessionId |-> Fresh(FirstUser)]
    /\ stored = {FirstSession} /\ entries = {}
    /\ \E asks \in Asks[config] :
         req = [r \in Req |-> [pc |-> "new", then |-> "limited", kind |-> asks[r].kind, user |-> asks[r].user,
                              sid |-> asks[r].sid, at |-> 0, window |-> 0, admitted |-> FALSE,
                              copy |-> NoCopy, view |-> NoCopy, events |-> <<>>, seen |-> <<>>,
                              recalled |-> {}, before |-> 0, mixed |-> FALSE]]
    /\ answers = [s \in SessionId |-> <<>>] /\ faults = 0

\* An HTTP request arrives; or remember is called, which makes the entry.
Receive(r) ==
    /\ req[r].pc = "new" /\ req[r].kind # "remember"
    /\ Go(r, IF config.limiter = "off" THEN "resolve" ELSE "limit")
    /\ UNCHANGED Stores

Remember(r) ==
    /\ req[r].pc = "new" /\ req[r].kind = "remember"
    /\ config.memory # "off"
    /\ Become(r, [req[r] EXCEPT !.pc = "store", !.at = now,
                     !.before = Cardinality({q \in Req : req[q].kind = "remember" /\ req[q].pc # "new"})])
    /\ UNCHANGED Stores

-----------------------------------------------------------------------------
\* RateLimitMiddleware

Decide(r, w) ==
    Become(r, [req[r] EXCEPT !.pc = IF Admits(w) THEN "resolve" ELSE "limited", !.at = 0,
                     !.admitted = Admits(w), !.window = w.id])

\* The event loop runs the local limiter without a break.
LimitLocally(r) ==
    /\ req[r].pc = "limit" /\ config.limiter = "memory"
    /\ CheckLocal(req[r].kind)
    /\ Decide(r, LocalWindow(req[r].kind))
    /\ UNCHANGED <<config, now, session, stored, entries, answers, faults>>

\* The shared limiter reads the clock, and counts in a later transaction.
ReadClock(r) ==
    /\ req[r].pc = "limit" /\ config.limiter = "sql"
    /\ Become(r, [req[r] EXCEPT !.pc = "consume", !.at = now])
    /\ UNCHANGED Stores

Consume(r) ==
    /\ req[r].pc = "consume"
    /\ CheckShared(req[r].kind, req[r].at)
    /\ Decide(r, SharedWindow(req[r].kind, req[r].at))
    /\ UNCHANGED <<config, now, session, stored, entries, answers, faults>>

-----------------------------------------------------------------------------
\* Session resolution

\* A request without a session id creates a session under a new id.
CreateSession(r, s) ==
    /\ req[r].pc = "resolve" /\ req[r].sid = NoSession
    /\ s \notin stored /\ \A q \in Req : req[q].sid # s
    /\ session' = [session EXCEPT ![s] = Fresh(req[r].user)]
    /\ stored' = stored \cup {s}
    /\ Become(r, [req[r] EXCEPT !.sid = s, !.before = Len(answers[s]), !.pc = AfterResolve,
                     !.copy = IF Durable THEN Fresh(req[r].user) ELSE NoCopy])
    /\ UNCHANGED <<config, now, window, entries, answers, faults>>

NotFound(r) ==
    /\ req[r].pc = "resolve" /\ req[r].sid # NoSession /\ ~Found(req[r].sid)
    /\ UNCHANGED <<config, now, window, session, entries, answers, faults>>
    /\ NotFoundThen(r, Ended(r, "notFound"))

\* _delete_raw
Purge(r) ==
    /\ req[r].pc = "purge"
    /\ stored' = stored \ {req[r].sid}
    /\ UNCHANGED <<config, now, window, session, entries, answers, faults>>
    /\ Tell(r, [req[r] EXCEPT !.pc = req[r].then, !.then = "limited"])

Denied(r) ==
    /\ req[r].pc = "resolve" /\ req[r].sid # NoSession
    /\ Found(req[r].sid) /\ ~OwnedBy(req[r].sid, req[r].user)
    /\ Become(r, Ended(r, "denied"))
    /\ UNCHANGED Stores

Resolve(r) ==
    LET s == req[r].sid
    IN /\ req[r].pc = "resolve" /\ s # NoSession
       /\ Found(s) /\ OwnedBy(s, req[r].user)
       /\ Become(r, [req[r] EXCEPT !.copy = IF Durable THEN session[s] ELSE NoCopy,
                        !.before = Len(answers[s]), !.mixed = FALSE, !.pc = AfterResolve])
       /\ UNCHANGED Stores

\* The ADK session service looks the session up again.  If it is gone,
\* create_session raises, outside the try block.
Ensure(r) ==
    LET s == req[r].sid
    IN /\ req[r].pc = "ensure"
       /\ UNCHANGED <<config, now, window, session, entries, answers, faults>>
       /\ IF Found(s)
          THEN Go(r, AfterEnsure) /\ UNCHANGED stored
          ELSE NotFoundThen(r, Ended(r, "failed"))

-----------------------------------------------------------------------------
\* Memory: the context of an invocation, and remember

Recall(r) ==
    /\ req[r].pc = "recall"
    /\ entries' = Enforced(req[r].user)
    /\ Go(r, "search")
    /\ UNCHANGED <<config, now, window, session, stored, answers, faults>>

Search(r) ==
    /\ req[r].pc = "search"
    /\ Become(r, [req[r] EXCEPT !.recalled = Of(entries, req[r].user), !.pc = "start"])
    /\ UNCHANGED Stores

Store(r) ==
    /\ req[r].pc = "store"
    /\ entries' = entries \cup {[id |-> r, user |-> req[r].user, at |-> req[r].at,
                                 made |-> req[r].before]}
    /\ Go(r, "enforce")
    /\ UNCHANGED <<config, now, window, session, stored, answers, faults>>

Enforce(r) ==
    /\ req[r].pc = "enforce"
    /\ entries' = Enforced(req[r].user)
    /\ Go(r, "remembered")
    /\ UNCHANGED <<config, now, window, session, stored, answers, faults>>

-----------------------------------------------------------------------------
\* The run of the model

\* LangGraph builds its messages from the history of the session it holds.
StartGraph(r) ==
    /\ req[r].pc = "start" /\ config.runtime = "langgraph"
    /\ Become(r, [req[r] EXCEPT !.seen = Held(r).history, !.pc = "model"])
    /\ UNCHANGED Stores

\* The ADK runner loads the events once, and appends the user's message.
StartRunner(r) ==
    LET s == req[r].sid
        events == Append(session[s].events, Asked(r))
    IN /\ req[r].pc = "start" /\ config.runtime = "adk"
       /\ UNCHANGED <<config, now, window, session, entries, answers, faults>>
       /\ IF Found(s)
          THEN /\ Become(r, [req[r] EXCEPT !.events = events, !.seen = events, !.pc = "view"])
               /\ UNCHANGED stored
          ELSE NotFoundThen(r, Ended(r, "failed"))

\* What follows the event that has been appended last.
AfterEvent(r) == IF Answered(r) \in {req[r].events[i] : i \in DOMAIN req[r].events}
                 THEN "commit" ELSE "model"

\* _persist_events returns when the session is gone.
PersistNothing(r) ==
    /\ req[r].pc = "view" /\ ~Found(req[r].sid)
    /\ UNCHANGED <<config, now, window, session, entries, answers, faults>>
    /\ NotFoundThen(r, [req[r] EXCEPT !.pc = AfterEvent(r), !.mixed = TRUE])

\* In memory it changes and saves the shared object.
PersistShared(r) ==
    LET s == req[r].sid
    IN /\ req[r].pc = "view" /\ Found(s) /\ ~Durable
       /\ SaveShared(s, WithEvents(session[s], req[r].events))
       /\ Tell(r, [req[r] EXCEPT !.pc = AfterEvent(r), !.view = NoCopy])
       /\ UNCHANGED <<config, now, window, entries, answers, faults>>

\* With SQL it loads a view of its own and saves it in another transaction;
\* the object that _invoke holds is not touched.
LoadView(r) ==
    LET s == req[r].sid
    IN /\ req[r].pc = "view" /\ Found(s) /\ Durable
       /\ Become(r, [req[r] EXCEPT !.view = WithEvents(session[s], req[r].events), !.pc = "save"])
       /\ UNCHANGED Stores

SaveView(r) ==
    LET s == req[r].sid
    IN /\ req[r].pc = "save"
       /\ \/ /\ SaveCopy(s, req[r].view)
             /\ Tell(r, [req[r] EXCEPT !.pc = AfterEvent(r), !.view = NoCopy])
          \/ /\ ~Unchanged(s, req[r].view)
             /\ Become(r, Ended(r, "conflict"))
             /\ UNCHANGED <<session, stored>>
       /\ UNCHANGED <<config, now, window, entries, answers, faults>>

\* The model produces the final response, or fails, or takes too long.
ModelAnswers(r) ==
    /\ req[r].pc = "model"
    /\ IF config.runtime = "adk"
       THEN Become(r, [req[r] EXCEPT !.events = Append(@, Answered(r)), !.pc = "view"])
       ELSE Go(r, "commit")
    /\ UNCHANGED Stores

ModelFails(r) == req[r].pc = "model" /\ Become(r, Ended(r, "failed")) /\ UNCHANGED Stores

\* The exchange is added to the session that _invoke holds, and saved.
Exchange(r) == <<Asked(r), Answered(r)>>

CommitShared(r) ==
    LET s == req[r].sid
    IN /\ req[r].pc = "commit" /\ ~Durable
       /\ SaveShared(s, WithMessages(session[s], Exchange(r)))
       /\ Tell(r, Ended(r, "answered"))
       /\ answers' = [answers EXCEPT ![s] = Append(@, r)]
       /\ UNCHANGED <<config, now, window, entries, faults>>

CommitCopy(r) ==
    LET s == req[r].sid
        copy == WithMessages(req[r].copy, Exchange(r))
    IN /\ req[r].pc = "commit" /\ Durable
       /\ \/ /\ SaveCopy(s, copy)
             /\ Tell(r, Ended(r, "answered"))
             /\ answers' = [answers EXCEPT ![s] = Append(@, r)]
          \/ /\ ~Unchanged(s, copy)
             /\ Become(r, Ended(r, "conflict"))
             /\ UNCHANGED <<session, stored, answers>>
       /\ UNCHANGED <<config, now, window, entries, faults>>

\* The client of a stream disconnects, or the replica of a request dies.
Disappear(r) ==
    /\ req[r].pc \in Active
    /\ faults < MaxFaults /\ faults' = faults + 1
    /\ Become(r, Ended(r, "gone"))
    /\ UNCHANGED <<config, now, window, session, stored, entries, answers>>

TimePasses == Tick /\ UNCHANGED <<window, session, stored, entries, req, answers, faults>>

Next ==
    \/ \E r \in Req :
         \/ Receive(r) \/ Remember(r)
         \/ LimitLocally(r) \/ ReadClock(r) \/ Consume(r)
         \/ \E s \in SessionId : CreateSession(r, s)
         \/ NotFound(r) \/ Purge(r) \/ Denied(r) \/ Resolve(r) \/ Ensure(r)
         \/ Recall(r) \/ Search(r) \/ Store(r) \/ Enforce(r)
         \/ StartGraph(r) \/ StartRunner(r)
         \/ PersistNothing(r) \/ PersistShared(r) \/ LoadView(r) \/ SaveView(r)
         \/ ModelAnswers(r) \/ ModelFails(r)
         \/ CommitShared(r) \/ CommitCopy(r)
         \/ Disappear(r)
    \/ TimePasses

Spec == Init /\ [][Next]_vars

-----------------------------------------------------------------------------
\* Properties

\* The exchanges of the requests in the sequence q, as messages.
Said(q) == [i \in 1..2 * Len(q) |-> IF i % 2 = 1 THEN Asked(q[(i + 1) \div 2])
                                               ELSE Answered(q[i \div 2])]
In(m, q) == \E i \in DOMAIN q : q[i] = m
Ran(r) == req[r].pc \in {"model", "commit", "answered"}

\* The history of a session is exactly the exchanges that were answered, in the
\* order of the answers, up to max_history_messages: no concurrent save loses
\* or repeats one, and none is kept of a request that was told of an error.
AnswersAreRemembered ==
    \A s \in SessionId : session[s].history = Newest(Said(answers[s]), MaxHistory)

\* A LangGraph model is given a state of the conversation that is no older than
\* the moment its request found the session.
ContextIsCurrent ==
    config.runtime = "langgraph" =>
        \A r \in Req : Ran(r) =>
            \E k \in req[r].before..Len(answers[req[r].sid]) :
                req[r].seen = Newest(Said(SubSeq(answers[req[r].sid], 1, k)), MaxHistory)

\* An ADK model on in-memory sessions sees the latest earlier answer of the
\* session, unless the list of events is full of what requests that got no answer
\* have left after it, or requests on the session overlapped, or it expired under
\* one: then the events that one runner holds replace what the other has saved.
SequentialContext ==
    config.runtime = "adk" /\ ~Durable =>
        \A r \in Req :
            LET s == req[r].sid
                earlier == SubSeq(answers[s], 1, req[r].before)
                seen == req[r].seen
            IN Ran(r) /\ (\A q \in Req : req[q].sid = s => ~req[q].mixed) /\ earlier # <<>>
               => \/ In(Answered(earlier[Len(earlier)]), seen)
                  \/ /\ Len(seen) > EventBound
                     /\ \A i \in DOMAIN seen : ~In(seen[i][1], earlier)

\* What reaches the model of a request, history and memory, comes from requests
\* of the same caller.
ContextIsOwn ==
    \A r \in Req :
        /\ \A i \in DOMAIN req[r].seen : req[req[r].seen[i][1]].user = req[r].user
        /\ \A e \in req[r].recalled : e.user = req[r].user

\* session.py:52: a request is refused with session_concurrent_update only if
\* another one saved or deleted the session while it ran.
ConflictMeansConcurrentWriter ==
    \A r \in Req : req[r].pc = "conflict" => req[r].mixed

\* The requests of the window in which r was counted that were admitted.
AdmittedWith(r) ==
    {q \in Req : /\ req[q].admitted /\ req[q].kind = req[r].kind
                 /\ req[q].window = req[r].window}

\* A request is only refused by the limit when Capacity others of its window
\* were admitted, whatever the order in which transactions reach the table.
RejectedOnlyWhenFull ==
    \A r \in Req : req[r].pc = "limited" => Cardinality(AdmittedWith(r)) >= Capacity

\* At most Capacity requests of a key are admitted in a window.
WithinBudget ==
    \A r \in Req : req[r].admitted => Cardinality(AdmittedWith(r)) <= Capacity

\* ... as the limiter of a process keeps to it (rate_limit.py:3): its windows
\* of a key begin one after another.
LocalBudgetIsKept == config.limiter = "memory" => WithinBudget

\* memory.py:135: what remember has stored stays until the retention has passed
\* or max_entries entries of the user that were made later have been stored.
RememberedIsKept ==
    \A r \in Req : req[r].pc = "remembered" =>
        \/ \E e \in entries : e.id = r
        \/ now - req[r].at >= Retention
        \/ Cardinality({q \in Req : /\ req[q].kind = "remember" /\ req[q].user = req[r].user
                                   /\ req[q].before > req[r].before}) >= MaxEntries
LocalMemoryIsKept == config.memory = "memory" => RememberedIsKept
=============================================================================
