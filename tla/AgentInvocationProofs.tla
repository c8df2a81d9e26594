------------------------ MODULE AgentInvocationProofs ------------------------
(***************************************************************************)
(* Theorems about AgentInvocation and the stores it extends, for any       *)
(* number of requests, callers and sessions, in every set-up.              *)
(***************************************************************************)
EXTENDS AgentInvocation, FiniteSetTheorems, SequenceTheorems, TLAPS

-----------------------------------------------------------------------------
\* The inductive invariant

\* The request works on a session; the purge of a SQL provider may be on the way.
Running == {"ensure", "recall", "search", "start", "view", "save", "model", "commit"}
Uses(s) == s.pc \in Running \/ (s.pc = "purge" /\ s.then \in Running)

\* The messages of requests by u.
Own(u) == {m \in Message : req[m[1]].user = u}

\* c is a session of u, within the bounds, with messages of u's only.
SessionOf(c, u) ==
    /\ c \in Session /\ c.owner = u
    /\ c.history \in Seq(Own(u)) /\ Len(c.history) <= MaxHistory
    /\ c.events \in Seq(Own(u)) /\ Len(c.events) <= EventBound

PlaceOK(s) ==
    /\ s.kind = "remember" => s.pc \in {"new", "store", "enforce", "remembered", "gone"}
    /\ s.pc \in {"store", "enforce", "remembered"} => s.kind = "remember"
    /\ s.pc = "purge" => Durable /\ s.then \in {"notFound", "failed", "model", "commit"}
    /\ s.pc = "save" => Durable /\ s.view # NoCopy

\* A request works on a session of its caller; with SQL it holds a copy.
HoldsOK(s) ==
    /\ Uses(s) => /\ s.sid \in SessionId /\ session[s.sid].owner = s.user
                  /\ Durable => s.copy # NoCopy
    /\ s.pc = "purge" => s.sid \in SessionId

\* What a request has, it has from requests of its caller.
OwnOK(s) ==
    /\ s.copy = NoCopy \/ SessionOf(s.copy, s.user)
    /\ s.view = NoCopy \/ SessionOf(s.view, s.user)
    /\ s.events \in Seq(Own(s.user)) /\ s.seen \in Seq(Own(s.user))
    /\ \A e \in s.recalled : e.user = s.user

RequestOK(s) == PlaceOK(s) /\ HoldsOK(s) /\ OwnOK(s)
Requests == \A r \in Req : RequestOK(req[r])
Sessions == \A s \in SessionId : SessionOf(session[s], session[s].owner)

Begun == {q \in Req : req[q].pc # "new"}

OwnInv == TypeOK /\ IsFiniteSet(Begun) /\ Requests /\ Sessions

\* An answered request has its exchange in its session's history; the history is
\* the newest of the exchanges.
AnswersOK == \A s \in SessionId : \A i \in DOMAIN answers[s] :
    req[answers[s][i]].sid = s /\ req[answers[s][i]].pc = "answered"

Exchanges(s, n) == Newest(Said(SubSeq(answers[s], 1, n)), MaxHistory)

\* A copy is the session as it was when it was loaded; a save with its revision
\* finds the same history.
SameHistory(c, s) == /\ c.revision <= session[s].revision
                     /\ c.revision = session[s].revision => c.history = session[s].history
LoadedOK(s) ==
    /\ s.pc = "answered" => s.sid \in SessionId
    /\ config.runtime = "langgraph" => /\ s.pc \notin {"ensure", "view", "save"}
                                       /\ s.pc = "purge" => s.then = "notFound"
    /\ Uses(s) => s.before \in 0 .. Len(answers[s.sid])
    /\ Uses(s) /\ Durable => /\ SameHistory(s.copy, s.sid)
                             /\ s.copy.history = Exchanges(s.sid, s.before)
    /\ s.pc = "save" => SameHistory(s.view, s.sid)

\* ContextIsCurrent, for one request.
Seen(s) == s.pc \in {"model", "commit", "answered"}
ContextOK(s) == config.runtime = "langgraph" /\ Seen(s) =>
    \E k \in s.before .. Len(answers[s.sid]) : s.seen = Exchanges(s.sid, k)

HistoryInv == /\ AnswersAreRemembered /\ AnswersOK
              /\ \A r \in Req : LoadedOK(req[r]) /\ ContextOK(req[r])

\* The requests that were admitted in window i of key k.
AdmittedIn(k, i) == {q \in Req : req[q].admitted /\ req[q].kind = k /\ req[q].window = i}
LimitInv ==
    /\ \A r \in Req : req[r].pc \in {"new", "limit", "consume"} => ~req[r].admitted
    /\ \A k \in Route : window[k].count > 0 =>
           \/ Cardinality(AdmittedIn(k, window[k].id)) >= Capacity
           \/ Cardinality(AdmittedIn(k, window[k].id)) >= window[k].count
    /\ RejectedOnlyWhenFull

\* The windows of the limiter of a process: they begin one after another, and
\* the one that is on has counted whom it admitted.
BudgetInv == config.limiter = "memory" =>
    /\ \A r \in Req : /\ req[r].pc # "consume"
                      /\ req[r].admitted => /\ req[r].kind \in Route
                                            /\ window[req[r].kind].count > 0
                                            /\ req[r].window <= window[req[r].kind].id
    /\ \A k \in Route : /\ window[k].id <= now
                        /\ Cardinality(AdmittedIn(k, window[k].id)) <= window[k].count
    /\ WithinBudget

\* The requests by which the caller of r remembered something after r.
After(r) == {q \in Req : /\ req[q].kind = "remember" /\ req[q].user = req[r].user
                         /\ req[q].before > req[r].before}
KeptOK(r) == \/ \E e \in entries : e.id = r
             \/ now - req[r].at >= Retention
             \/ Cardinality(After(r)) >= MaxEntries
EntryInv ==
    /\ \A r \in Req : req[r].pc = "new" => req[r].before = 0
    /\ \A e \in entries : /\ e.user = req[e.id].user /\ e.at = req[e.id].at
                          /\ e.made = req[e.id].before
                          /\ req[e.id].kind = "remember" /\ req[e.id].pc \notin {"new", "store"}
    /\ config.memory = "memory" =>
         \A r \in Req : req[r].pc \in {"enforce", "remembered"} => KeptOK(r)

\* Nobody who works on session y, or did, was interfered with.
Waiting(s) == s.pc \in {"new", "limit", "consume", "resolve"}
Undisturbed(y) == \A q \in Req : req[q].sid = y /\ ~Waiting(req[q]) => ~req[q].mixed

\* Only requests that have started their runner have an answer in a list of events.
Started(r) == ~Waiting(req[r]) /\ req[r].pc \notin {"ensure", "recall", "search", "start"}
OnlyStarted(q) == \A r \in Req : In(Answered(r), q) => Started(r)

\* The list q holds the last answer of the requests a and after it nothing of
\* theirs; or nothing of theirs, and has at least n elements.
Recent(q, a, n) == \E i \in 0 .. Len(q) :
    /\ IF i = 0 THEN Len(q) >= n ELSE q[i] = Answered(a[Len(a)])
    /\ \A j \in i + 1 .. Len(q) : ~In(q[j][1], a)

\* The runner of s has its session's events, as they are saved in list, and one
\* more when it is about to save it.
HasAnswered(r) == In(Answered(r), req[r].events)
EventsOK(r, list) == LET own == req[r].events
  IN /\ req[r].pc = "view" /\ ~HasAnswered(r) => own = Append(list, Asked(r))
     /\ req[r].pc = "view" /\ HasAnswered(r) =>
            \E q \in Seq(Message) : own = Append(q, Answered(r)) /\ list = Newest(q, EventBound)
     /\ req[r].pc = "model" => ~HasAnswered(r) /\ list = Newest(own, EventBound)
     /\ req[r].pc = "commit" => \E q \in Seq(Message) :
            own = Append(q, Answered(r)) /\ list = Newest(own, EventBound)
RunnerOK(r, y) ==
  LET earlier == SubSeq(answers[y], 1, req[r].before)
  IN /\ Uses(req[r]) => req[r].before = Len(answers[y]) /\ EventsOK(r, session[y].events)
     /\ req[r].pc = "answered" => req[r].before \in 0 .. Len(answers[y])
     /\ (req[r].pc = "view" \/ Ran(r)) /\ earlier # <<>> => Recent(req[r].seen, earlier, EventBound + 1)

\* r has saved events into its session, and goes on.
HasSaved(r) == req[r].pc \in {"model", "commit"} \/ (req[r].pc = "view" /\ HasAnswered(r))
SessionOK(y) ==
    /\ \A r \in Req : req[r].sid = y => RunnerOK(r, y)
    /\ \A q, r \in Req : req[q].sid = y /\ req[r].sid = y /\ HasSaved(q) /\ HasSaved(r) => q = r
    /\ answers[y] # <<>> => Recent(session[y].events, answers[y], EventBound)

OnAdk == config.runtime = "adk" /\ ~Durable
ListsOK == /\ \A q \in Req : OnlyStarted(req[q].events)
           /\ \A y \in SessionId : OnlyStarted(session[y].events)
SequentialInv ==
    OnAdk => ListsOK /\ \A y \in SessionId : Undisturbed(y) => SessionOK(y)

-----------------------------------------------------------------------------
\* Sequences

\* The newest n of a sequence are the last of it, n if it has as many.
LEMMA NewestOf ==
  ASSUME NEW S, NEW q \in Seq(S), NEW n \in Nat \ {0}
  PROVE  /\ Newest(q, n) \in Seq(S)
         /\ Len(Newest(q, n)) = IF Len(q) <= n THEN Len(q) ELSE n
         /\ \A i \in 1 .. Len(Newest(q, n)) :
                /\ Len(q) - Len(Newest(q, n)) + i \in 1 .. Len(q)
                /\ Newest(q, n)[i] = q[Len(q) - Len(Newest(q, n)) + i]
<1>1. Len(q) \in Nat /\ DOMAIN q = 1 .. Len(q) /\ \A i \in 1 .. Len(q) : q[i] \in S
  BY LenProperties, ElementOfSeq
<1>2. CASE Len(q) <= n
  BY <1>1, <1>2 DEF Newest
<1>3. CASE ~(Len(q) <= n)
  <2> DEFINE m == Len(q) - n + 1
             r == SubSeq(q, m, Len(q))
  <2>1. /\ m \in 1 .. Len(q) /\ m \in Int /\ Len(q) \in Int /\ Len(q) - m + 1 = n
        /\ \A i \in m .. Len(q) : q[i] \in S
    BY <1>1, <1>3
  <2> HIDE DEF m
  <2>2. /\ r \in Seq(S) /\ Len(r) = IF m <= Len(q) THEN Len(q) - m + 1 ELSE 0
        /\ \A i \in 1 .. Len(q) - m + 1 : r[i] = q[m + i - 1]
    BY <2>1, SubSeqProperties
  <2> HIDE DEF r
  <2>3. r \in Seq(S) /\ Len(r) = n
    BY <1>1, <2>1, <2>2
  <2>4. ASSUME NEW i \in 1 .. n
        PROVE  Len(q) - n + i \in 1 .. Len(q) /\ r[i] = q[Len(q) - n + i]
    <3>1. Len(q) - n + i \in 1 .. Len(q) /\ m + i - 1 = Len(q) - n + i /\ i \in 1 .. Len(q) - m + 1
      BY <1>1, <1>3, <2>1, <2>4 DEF m
    <3> QED
      BY <2>2, <3>1
  <2>5. Newest(q, n) = r
    BY <1>3 DEF Newest, r, m
  <2> QED
    BY <1>3, <2>3, <2>4, <2>5
<1> QED
  BY <1>2, <1>3

LEMMA NewestFits ==
  ASSUME NEW S, NEW q \in Seq(S), NEW n \in Nat \ {0}
  PROVE  Newest(q, n) \in Seq(S) /\ Len(Newest(q, n)) <= n
<1>1. Len(q) \in Nat
  BY LenProperties
<1> QED
  BY <1>1, NewestOf

LEMMA Bounds == MaxHistory \in Nat \ {0} /\ EventBound \in Nat \ {0} /\ EventBound >= 2
<1>1. MaxHistory \in Nat \ {0} /\ MinEvents \in Nat \ {0}
  BY SessionAssumption
<1> QED
  BY <1>1 DEF EventBound

-----------------------------------------------------------------------------
\* Types, and whose is what

\* Two sequences of u's messages, one after the other, are of u's messages.
LEMMA OwnMessages ==
  ASSUME req \in [Req -> Request], NEW r \in Req
  PROVE  Asked(r) \in Own(req[r].user) /\ Answered(r) \in Own(req[r].user)
  BY MessageAssumption DEF Own, Asked, Answered

LEMMA OwnAreMessages ==
  ASSUME NEW u, NEW q \in Seq(Own(u)) PROVE q \in Seq(Message)
<1>1. Own(u) \subseteq Message
  BY DEF Own
<1> QED
  BY <1>1

\* A step of r, or none of a request, leaves every request its kind and caller.
Same(q) == req'[q] = req[q] \/ req'[q] = [req[q] EXCEPT !.mixed = TRUE]
StepsTo(r, s) == req' \in [Req -> Request] /\ req'[r] = s /\ \A q \in Req \ {r} : Same(q)

LEMMA StepBecomes ==
  ASSUME req \in [Req -> Request], NEW r \in Req, NEW s \in Request, Become(r, s) \/ Tell(r, s)
  PROVE  StepsTo(r, s)
<1>1. ASSUME NEW q \in Req PROVE [req[q] EXCEPT !.mixed = TRUE] \in Request
  <2>1. req[q] \in Request
    OBVIOUS
  <2> QED
    BY <2>1 DEF Request
<1>2. CASE Become(r, s)
  BY <1>2 DEF Become, StepsTo, Same
<1>3. CASE Tell(r, s)
  BY <1>1, <1>3 DEF Tell, StepsTo, Same
<1> QED
  BY <1>2, <1>3

LEMMA OwnStays ==
  ASSUME req \in [Req -> Request], NEW r \in Req, NEW s \in Request, StepsTo(r, s),
         s.user = req[r].user
  PROVE  \A u : Own(u)' = Own(u)
<1>1. \A q \in Req : req'[q].user = req[q].user
  <2> SUFFICES ASSUME NEW q \in Req PROVE req'[q].user = req[q].user
    OBVIOUS
  <2>1. q = r \/ Same(q)
    BY DEF StepsTo
  <2>2. req[q] \in Request
    OBVIOUS
  <2>3. Same(q) => req'[q].user = req[q].user
    BY <2>2 DEF Same, Request
  <2> QED
    BY <2>1, <2>3 DEF StepsTo
<1>2. \A m \in Message : m[1] \in Req
  BY MessageAssumption
<1> QED
  BY <1>1, <1>2 DEF Own

\* s may follow on what r is.
Follows(r, s) ==
    /\ s \in Request /\ s.kind = req[r].kind /\ s.user = req[r].user
    /\ RequestOK(s)

LEMMA RequestTyped ==
  ASSUME OwnInv, NEW r \in Req
  PROVE  req[r] \in Request /\ RequestOK(req[r]) /\ req \in [Req -> Request]
  BY DEF OwnInv, TypeOK, Requests

LEMMA NowTyped == OwnInv => now \in Nat
  BY ClockAssumption DEF OwnInv, TypeOK

\* As long as the sessions that the others use keep their owners.
LEMMA OthersKeep ==
  ASSUME OwnInv, NEW r \in Req, NEW s \in Request, StepsTo(r, s), s.user = req[r].user,
         config' = config, \A u : Own(u)' = Own(u), NEW q \in Req \ {r},
         Uses(req[q]) => session'[req[q].sid].owner = session[req[q].sid].owner
  PROVE  RequestOK(req[q])'
<1>1. req[q] \in Request /\ RequestOK(req[q]) /\ Same(q)
  BY RequestTyped DEF StepsTo
<1>2. \/ req'[q] = req[q]
      \/ req'[q] = [req[q] EXCEPT !.mixed = TRUE]
  BY <1>1 DEF Same
<1>3. /\ req'[q].pc = req[q].pc /\ req'[q].then = req[q].then /\ req'[q].kind = req[q].kind
      /\ req'[q].user = req[q].user /\ req'[q].sid = req[q].sid /\ req'[q].copy = req[q].copy
      /\ req'[q].view = req[q].view /\ req'[q].events = req[q].events
      /\ req'[q].seen = req[q].seen /\ req'[q].recalled = req[q].recalled
  BY <1>1, <1>2 DEF Request
<1>4. RequestOK(req[q])
  BY <1>1
<1>5. Uses(req[q])' = Uses(req[q])
  BY <1>3 DEF Uses
<1>6. PlaceOK(req[q])'
  BY <1>3, <1>4 DEF RequestOK, PlaceOK, Durable, NoCopy
<1>7. HoldsOK(req[q])'
  BY <1>3, <1>4, <1>5 DEF RequestOK, HoldsOK, Durable, NoCopy
<1>8. OwnOK(req[q])'
  BY <1>3, <1>4 DEF RequestOK, OwnOK, SessionOf, NoCopy
<1> QED
  BY <1>6, <1>7, <1>8 DEF RequestOK

\* A step that leaves the sessions alone.
LEMMA QuietStep ==
  ASSUME OwnInv, NEW r \in Req, NEW s, Follows(r, s), Become(r, s) \/ Tell(r, s),
         UNCHANGED <<config, session>>
  PROVE  req' \in [Req -> Request] /\ Requests' /\ Sessions'
<1>1. s \in Request /\ s.user = req[r].user /\ RequestOK(s)
  BY DEF Follows
<1>2. StepsTo(r, s)
  BY <1>1, StepBecomes, RequestTyped
<1>3. \A u : Own(u)' = Own(u)
  BY <1>1, <1>2, OwnStays, RequestTyped
<1>4. RequestOK(s)'
  BY <1>1, <1>3 DEF RequestOK, PlaceOK, HoldsOK, OwnOK, Uses, SessionOf, Durable
<1>5. RequestOK(req[r])'
  BY <1>2, <1>4 DEF StepsTo
<1>6. \A q \in Req \ {r} : RequestOK(req[q])'
  BY <1>1, <1>2, <1>3, OthersKeep
<1>7. Sessions'
  BY <1>3 DEF OwnInv, Sessions, SessionOf
<1> QED
  BY <1>2, <1>5, <1>6, <1>7 DEF Requests, StepsTo

\* r goes on, and keeps what it has.
LEMMA GoesOn ==
  ASSUME OwnInv, NEW r \in Req, NEW s \in Request,
         s.kind = req[r].kind, s.user = req[r].user, s.sid = req[r].sid, s.copy = req[r].copy,
         s.view = req[r].view, s.events = req[r].events, s.seen = req[r].seen,
         s.recalled = req[r].recalled, PlaceOK(s), Uses(s) => Uses(req[r]),
         s.pc = "purge" => s.sid \in SessionId
  PROVE  Follows(r, s)
<1>1. RequestOK(req[r])
  BY RequestTyped
<1>2. HoldsOK(s)
  BY <1>1 DEF RequestOK, HoldsOK
<1>3. OwnOK(s)
  BY <1>1 DEF RequestOK, OwnOK
<1> QED
  BY <1>2, <1>3 DEF Follows, RequestOK

\* Empty sequences have no messages of anybody else.
LEMMA EndedFollows ==
  ASSUME OwnInv, NEW r \in Req, NEW p \in Done \ {"remembered"},
         p = "gone" \/ req[r].kind # "remember"
  PROVE  Follows(r, Ended(r, p)) /\ Ended(r, p).pc = p /\ Ended(r, p).sid = req[r].sid
<1> DEFINE o == req[r]
           s == Ended(r, p)
<1>1. o \in Request /\ RequestOK(o)
  BY RequestTyped
<1>2. /\ s.pc = p /\ s.then = o.then /\ s.kind = o.kind /\ s.user = o.user /\ s.sid = o.sid
      /\ s.copy = NoCopy /\ s.view = NoCopy /\ s.events = <<>> /\ s.seen = o.seen
      /\ s.recalled = o.recalled
  BY <1>1 DEF Request, Ended
<1>3. s \in Request
  <2>1. p \in {"new"} \cup Active \cup Done /\ NoCopy \in Session \cup {NoCopy}
        /\ <<>> \in Seq(Message)
    OBVIOUS
  <2>2. s = [o EXCEPT !.pc = p, !.copy = NoCopy, !.view = NoCopy, !.events = <<>>]
    BY DEF Ended
  <2> HIDE DEF s, o
  <2> QED
    BY <1>1, <2>1, <2>2 DEF Request
<1>4. RequestOK(o)
  BY <1>1
<1> HIDE DEF o, s
<1>5. p \notin Running /\ p \notin {"new", "store", "enforce", "purge", "save"}
  BY DEF Done, Running
<1>6. PlaceOK(s)
  BY <1>2, <1>5 DEF PlaceOK, o
<1>7. HoldsOK(s) /\ OwnOK(s)
  BY <1>2, <1>4, <1>5 DEF RequestOK, HoldsOK, OwnOK, Uses
<1> QED
  BY <1>2, <1>3, <1>6, <1>7 DEF Follows, RequestOK, o, s

-----------------------------------------------------------------------------
\* Steps that leave the sessions alone

Steps(r) == \E s : Follows(r, s) /\ (Become(r, s) \/ Tell(r, s))

\* A step to s that changes neither what r holds nor what it has seen.
LEMMA PlainStep ==
  ASSUME OwnInv, NEW r \in Req, NEW s, s \in Request, Become(r, s) \/ Tell(r, s),
         s.kind = req[r].kind, s.user = req[r].user, s.sid = req[r].sid, s.copy = req[r].copy,
         s.view = req[r].view, s.events = req[r].events, s.seen = req[r].seen,
         s.recalled = req[r].recalled, PlaceOK(s), Uses(s) => Uses(req[r]),
         s.pc = "purge" => s.sid \in SessionId
  PROVE  Steps(r)
  BY GoesOn DEF Steps

LEMMA WindowTypes ==
  ASSUME OwnInv, NEW k \in Route, NEW at \in Nat
  PROVE  /\ LocalWindow(k) \in [id : Nat, count : Nat] /\ SharedWindow(k, at) \in [id : Nat, count : Nat]
         /\ CheckLocal(k) \/ CheckShared(k, at) => window' \in [Route -> [id : Nat, count : Nat]]
<1> DEFINE W == [id : Nat, count : Nat]
<1>1. WindowSeconds \in Nat \ {0}
  BY CapacityAssumption
<1>2. at \div WindowSeconds \in Nat
  BY <1>1
<1>3. now \in Nat /\ window \in [Route -> W] /\ window[k] \in W
  BY ClockAssumption DEF OwnInv, TypeOK
<1>4. [window[k] EXCEPT !.count = @ + 1] \in W
  BY <1>3
<1>5. LocalWindow(k) \in W
  BY <1>3, <1>4 DEF LocalWindow
<1>6. SharedWindow(k, at) \in W
  BY <1>2, <1>3 DEF SharedWindow
<1> DEFINE w == SharedWindow(k, at)
<1>7. CheckLocal(k) => window' \in [Route -> W]
  BY <1>3, <1>5 DEF CheckLocal
<1>8. ASSUME CheckShared(k, at) PROVE window' \in [Route -> W]
  <2> DEFINE v == [window EXCEPT ![k] = w]
  <2>1. v \in [Route -> W]
    BY <1>3, <1>6
  <2> HIDE DEF v, w
  <2>2. NoWindow \in W
    BY DEF NoWindow
  <2>3. Pruned(v, at) \in [Route -> W]
    BY <2>1, <2>2 DEF Pruned
  <2> QED
    BY <1>8, <2>3 DEF CheckShared, v, w
<1> QED
  BY <1>5, <1>6, <1>7, <1>8

\* A request is kind of a route unless it remembers.
LEMMA RouteOf ==
  ASSUME OwnInv, NEW r \in Req, req[r].pc \in {"limit", "consume", "resolve"}
  PROVE  req[r].kind \in Route
<1>1. req[r] \in Request /\ PlaceOK(req[r])
  BY RequestTyped DEF RequestOK
<1> QED
  BY <1>1, RouteAssumption DEF Request, PlaceOK, Kinds

LEMMA LimitMoves ==
  ASSUME OwnInv, NEW r \in Req, LimitLocally(r) \/ ReadClock(r) \/ Consume(r)
  PROVE  Steps(r) /\ window' \in [Route -> [id : Nat, count : Nat]]
<1>0. req[r] \in Request /\ PlaceOK(req[r]) /\ now \in Nat /\ window \in [Route -> [id : Nat, count : Nat]]
  BY RequestTyped, ClockAssumption DEF RequestOK, OwnInv, TypeOK
<1>1. req[r].kind \in Route /\ req[r].pc \in {"limit", "consume"} /\ req[r].at \in Nat
  BY <1>0, RouteOf DEF LimitLocally, ReadClock, Consume, Request
<1>2. req[r].kind # "remember"
  BY <1>1, RouteAssumption
<1>3. CASE ReadClock(r)
  <2> DEFINE s == [req[r] EXCEPT !.pc = "consume", !.at = now]
  <2>1. s \in Request
    BY <1>0 DEF Request, Active
  <2>2. PlaceOK(s) /\ ~Uses(s)
    BY <1>0, <1>2 DEF Request, PlaceOK, Uses, Running
  <2> QED
    BY <1>0, <1>3, <2>1, <2>2, PlainStep DEF ReadClock, Request, Stores
<1>4. ASSUME NEW w \in [id : Nat, count : Nat], Decide(r, w) PROVE Steps(r)
  <2> DEFINE p == IF Admits(w) THEN "resolve" ELSE "limited"
             s == [req[r] EXCEPT !.pc = p, !.at = 0, !.admitted = Admits(w), !.window = w.id]
  <2>1. Admits(w) \in BOOLEAN /\ p \in {"resolve", "limited"} /\ w.id \in Nat
    BY DEF Admits
  <2> HIDE DEF p
  <2>2. s \in Request
    BY <1>0, <2>1 DEF Request, Active, Done
  <2>3. PlaceOK(s) /\ ~Uses(s)
    BY <1>0, <1>2, <2>1 DEF Request, PlaceOK, Uses, Running
  <2>4. /\ s.pc = p /\ s.kind = req[r].kind /\ s.user = req[r].user /\ s.sid = req[r].sid
        /\ s.copy = req[r].copy /\ s.view = req[r].view /\ s.events = req[r].events
        /\ s.seen = req[r].seen /\ s.recalled = req[r].recalled
    BY <1>0 DEF Request
  <2>5. Become(r, s)
    BY <1>4 DEF Decide, p
  <2> HIDE DEF s
  <2> QED
    BY <2>1, <2>2, <2>3, <2>4, <2>5, PlainStep
<1>5. CASE LimitLocally(r)
  BY <1>1, <1>4, <1>5, WindowTypes DEF LimitLocally
<1>6. CASE Consume(r)
  BY <1>1, <1>4, <1>6, WindowTypes DEF Consume
<1> QED
  BY <1>0, <1>3, <1>5, <1>6 DEF ReadClock, Stores

LEMMA ArrivalMoves ==
  ASSUME OwnInv, NEW r \in Req, Receive(r) \/ Remember(r)
  PROVE  Steps(r)
<1>0. req[r] \in Request /\ PlaceOK(req[r]) /\ now \in Nat
  BY RequestTyped, ClockAssumption DEF RequestOK, OwnInv, TypeOK
<1>1. CASE Receive(r)
  <2> DEFINE p == IF config.limiter = "off" THEN "resolve" ELSE "limit"
             s == [req[r] EXCEPT !.pc = p]
  <2>1. p \in {"resolve", "limit"}
    OBVIOUS
  <2>2. req[r].kind # "remember" /\ Become(r, s)
    BY <1>0, <1>1 DEF Receive, Go, Become
  <2> HIDE DEF p
  <2>3. s \in Request
    BY <1>0, <2>1 DEF Request, Active
  <2>4. /\ s.pc = p /\ s.kind = req[r].kind /\ s.user = req[r].user /\ s.sid = req[r].sid
        /\ s.copy = req[r].copy /\ s.view = req[r].view /\ s.events = req[r].events
        /\ s.seen = req[r].seen /\ s.recalled = req[r].recalled
    BY <1>0 DEF Request
  <2> HIDE DEF s
  <2>5. PlaceOK(s) /\ ~Uses(s) /\ s.pc # "purge"
    BY <2>1, <2>2, <2>4 DEF PlaceOK, Uses, Running
  <2> QED
    BY <2>2, <2>3, <2>4, <2>5, PlainStep
<1>2. CASE Remember(r)
  <2> DEFINE older == {q \in Req : req[q].kind = "remember" /\ req[q].pc # "new"}
             n == Cardinality(older)
             s == [req[r] EXCEPT !.pc = "store", !.at = now, !.before = n]
  <2>1. older \subseteq Begun /\ IsFiniteSet(Begun)
    BY DEF OwnInv, Begun
  <2>2. n \in Nat
    BY <2>1, FS_Subset, FS_CardinalityType
  <2>3. req[r].kind = "remember" /\ Become(r, s)
    BY <1>2 DEF Remember
  <2> HIDE DEF n
  <2>4. s \in Request
    BY <1>0, <2>2 DEF Request, Active
  <2>5. /\ s.pc = "store" /\ s.kind = req[r].kind /\ s.user = req[r].user /\ s.sid = req[r].sid
        /\ s.copy = req[r].copy /\ s.view = req[r].view /\ s.events = req[r].events
        /\ s.seen = req[r].seen /\ s.recalled = req[r].recalled
    BY <1>0 DEF Request
  <2> HIDE DEF s
  <2>6. PlaceOK(s) /\ ~Uses(s)
    BY <2>3, <2>5 DEF PlaceOK, Uses, Running
  <2> QED
    BY <2>3, <2>4, <2>5, <2>6, PlainStep
<1> QED
  BY <1>1, <1>2

-----------------------------------------------------------------------------
\* The sessions that a request may hold

LEMMA SessionsOfUsers ==
  ASSUME OwnInv, NEW s \in SessionId
  PROVE  SessionOf(session[s], session[s].owner) /\ session[s].owner \in User /\ session[s] # NoCopy
<1>1. session[s] \in Session /\ SessionOf(session[s], session[s].owner)
  BY DEF OwnInv, TypeOK, Sessions
<1>2. session[s].owner \in User
  BY <1>1 DEF Session
<1> QED
  BY <1>1, <1>2, NoneAssumption DEF NoCopy

LEMMA EventsKeepOwner ==
  ASSUME NEW u, NEW c, SessionOf(c, u), NEW es \in Seq(Own(u))
  PROVE  SessionOf(WithEvents(c, es), u)
<1>1. c \in Session /\ c.owner = u /\ c.history \in Seq(Own(u)) /\ Len(c.history) <= MaxHistory
  BY DEF SessionOf
<1> DEFINE n == Newest(es, EventBound)
<1>2. n \in Seq(Own(u)) /\ Len(n) <= EventBound
  BY Bounds, NewestFits
<1>3. n \in Seq(Message)
  BY <1>2, OwnAreMessages
<1> HIDE DEF n
<1> DEFINE d == [c EXCEPT !.events = n]
<1>4. d \in Session /\ d.owner = c.owner /\ d.history = c.history /\ d.events = n
  BY <1>1, <1>3 DEF Session
<1>5. WithEvents(c, es) = d
  BY DEF WithEvents, n
<1> HIDE DEF d
<1> QED
  BY <1>1, <1>2, <1>4, <1>5 DEF SessionOf

LEMMA MessagesKeepOwner ==
  ASSUME NEW u, NEW c, SessionOf(c, u), NEW ms \in Seq(Own(u)), now \in Nat
  PROVE  SessionOf(WithMessages(c, ms), u)
<1>1. c \in Session /\ c.owner = u /\ c.history \in Seq(Own(u)) /\ c.events \in Seq(Own(u))
      /\ Len(c.events) <= EventBound
  BY DEF SessionOf
<1> DEFINE n == Newest(c.history \o ms, MaxHistory)
<1>2. c.history \o ms \in Seq(Own(u))
  BY <1>1, ConcatProperties
<1>3. n \in Seq(Own(u)) /\ Len(n) <= MaxHistory
  BY <1>2, Bounds, NewestFits
<1>4. n \in Seq(Message)
  BY <1>3, OwnAreMessages
<1>5. WithMessages(c, ms) = [c EXCEPT !.history = n, !.active = now]
  BY DEF WithMessages
<1> HIDE DEF n
<1> DEFINE d == [c EXCEPT !.history = n, !.active = now]
<1>6. d \in Session /\ d.owner = c.owner /\ d.history = n /\ d.events = c.events
  BY <1>1, <1>4 DEF Session
<1> HIDE DEF d
<1>7. WithMessages(c, ms) = d
  BY <1>5 DEF d
<1> QED
  BY <1>1, <1>3, <1>6, <1>7 DEF SessionOf

LEMMA SavedKeepsOwner ==
  ASSUME NEW u, NEW c, SessionOf(c, u), now \in Nat
  PROVE  /\ SessionOf(Saved(c), u) /\ Saved(c).history = c.history /\ Saved(c).events = c.events
         /\ Saved(c).revision = c.revision + 1
<1>1. c \in Session
  BY DEF SessionOf
<1> DEFINE n == c.revision + 1
           d == [c EXCEPT !.active = now, !.revision = n]
<1>2. n \in Nat
  BY <1>1 DEF Session
<1>3. Saved(c) = d
  BY DEF Saved
<1> HIDE DEF n
<1>4. d \in Session
  BY <1>1, <1>2 DEF Session
<1>5. d.owner = c.owner /\ d.history = c.history /\ d.events = c.events /\ d.revision = n
  BY <1>1 DEF Session
<1> HIDE DEF d
<1> QED
  BY <1>3, <1>4, <1>5 DEF SessionOf, n

\* What r works on, if it does.
LEMMA HeldIsOwn ==
  ASSUME OwnInv, NEW r \in Req, Uses(req[r])
  PROVE  /\ req[r].sid \in SessionId /\ session[req[r].sid].owner = req[r].user
         /\ SessionOf(session[req[r].sid], req[r].user) /\ SessionOf(Held(r), req[r].user)
         /\ Durable => req[r].copy # NoCopy /\ SessionOf(req[r].copy, req[r].user)
<1>1. HoldsOK(req[r]) /\ OwnOK(req[r])
  BY RequestTyped DEF RequestOK
<1>2. /\ req[r].sid \in SessionId /\ session[req[r].sid].owner = req[r].user
      /\ Durable => req[r].copy # NoCopy /\ SessionOf(req[r].copy, req[r].user)
  BY <1>1 DEF HoldsOK, OwnOK
<1> QED
  BY <1>2, SessionsOfUsers DEF Held

\* rq may follow on r, after the session has been looked up in vain.
LEMMA LookupFails ==
  ASSUME OwnInv, NEW r \in Req, NEW rq, Follows(r, rq), rq.sid = req[r].sid, rq.sid \in SessionId,
         rq.pc \in {"notFound", "failed", "model", "commit"}, NotFoundThen(r, rq)
  PROVE  Steps(r) /\ stored' \subseteq stored
<1>0. rq \in Request /\ rq.kind = req[r].kind /\ rq.user = req[r].user
      /\ PlaceOK(rq) /\ HoldsOK(rq) /\ OwnOK(rq)
  BY DEF Follows, RequestOK
<1>1. CASE ~(Durable /\ req[r].sid \in stored)
  BY <1>1 DEF NotFoundThen, Steps
<1>2. CASE Durable /\ req[r].sid \in stored
  <2> DEFINE s == [rq EXCEPT !.pc = "purge", !.then = rq.pc]
  <2>1. Become(r, s) /\ UNCHANGED stored
    BY <1>2 DEF NotFoundThen
  <2>2. s \in Request
    BY <1>0 DEF Request, Active, Done
  <2>3. /\ s.pc = "purge" /\ s.then = rq.pc /\ s.kind = rq.kind /\ s.user = rq.user
        /\ s.sid = rq.sid /\ s.copy = rq.copy /\ s.view = rq.view /\ s.events = rq.events
        /\ s.seen = rq.seen /\ s.recalled = rq.recalled
    BY <1>0 DEF Request
  <2> HIDE DEF s
  <2>4. PlaceOK(s)
    BY <1>0, <1>2, <2>3 DEF PlaceOK
  <2>5. HoldsOK(s)
    BY <1>0, <2>3 DEF HoldsOK, Uses, Running
  <2>6. OwnOK(s)
    BY <1>0, <2>3 DEF OwnOK
  <2> QED
    BY <1>0, <2>1, <2>2, <2>3, <2>4, <2>5, <2>6 DEF Steps, Follows, RequestOK
<1> QED
  BY <1>1, <1>2

LEMMA EndMoves ==
  ASSUME OwnInv, NEW r \in Req, NEW p \in Done \ {"remembered"},
         p = "gone" \/ req[r].pc \in Running \cup {"resolve"}, Become(r, Ended(r, p))
  PROVE  Steps(r)
<1>1. PlaceOK(req[r])
  BY RequestTyped DEF RequestOK
<1>2. p = "gone" \/ req[r].kind # "remember"
  BY <1>1 DEF PlaceOK, Running
<1> QED
  BY <1>2, EndedFollows DEF Steps

LEMMA LookupMoves ==
  ASSUME OwnInv, NEW r \in Req, NotFound(r) \/ Purge(r) \/ Denied(r) \/ Ensure(r)
  PROVE  Steps(r) /\ stored' \subseteq stored
<1>0. req[r] \in Request /\ PlaceOK(req[r]) /\ HoldsOK(req[r])
  BY RequestTyped DEF RequestOK
<1>1. CASE NotFound(r)
  <2>1. req[r].pc = "resolve" /\ req[r].sid \in SessionId /\ NotFoundThen(r, Ended(r, "notFound"))
    BY <1>0, <1>1 DEF NotFound, Request
  <2>2. req[r].kind # "remember"
    BY <1>0, <2>1 DEF PlaceOK
  <2>3. /\ Follows(r, Ended(r, "notFound")) /\ Ended(r, "notFound").pc = "notFound"
        /\ Ended(r, "notFound").sid = req[r].sid
    BY <2>2, EndedFollows DEF Done
  <2> QED
    BY <2>1, <2>3, LookupFails
<1>2. CASE Purge(r)
  <2> DEFINE s == [req[r] EXCEPT !.pc = req[r].then, !.then = "limited"]
  <2>1. req[r].pc = "purge" /\ Tell(r, s) /\ stored' \subseteq stored
    BY <1>2 DEF Purge
  <2>2. req[r].then \in {"notFound", "failed", "model", "commit"} /\ req[r].kind # "remember"
    BY <1>0, <2>1 DEF PlaceOK
  <2>3. s \in Request
    BY <1>0 DEF Request, Active, Done
  <2>4. /\ s.pc = req[r].then /\ s.kind = req[r].kind /\ s.user = req[r].user /\ s.sid = req[r].sid
        /\ s.copy = req[r].copy /\ s.view = req[r].view /\ s.events = req[r].events
        /\ s.seen = req[r].seen /\ s.recalled = req[r].recalled
    BY <1>0 DEF Request
  <2> HIDE DEF s
  <2>5. PlaceOK(s) /\ (Uses(s) => Uses(req[r])) /\ s.pc # "purge"
    BY <2>1, <2>2, <2>4 DEF PlaceOK, Uses, Running
  <2> QED
    BY <2>1, <2>3, <2>4, <2>5, PlainStep
<1>3. CASE Denied(r)
  BY <1>3, EndMoves DEF Denied, Done, Stores
<1>4. CASE Ensure(r)
  <2>1. req[r].pc = "ensure" /\ Uses(req[r]) /\ req[r].sid \in SessionId /\ req[r].kind # "remember"
    BY <1>0, <1>4 DEF Ensure, HoldsOK, PlaceOK, Uses, Running
  <2>2. CASE Found(req[r].sid)
    <3> DEFINE p == AfterEnsure
               s == [req[r] EXCEPT !.pc = p]
    <3>1. p \in {"start", "recall"} /\ Become(r, s) /\ UNCHANGED stored
      BY <1>4, <2>2 DEF Ensure, AfterEnsure, Go, Become
    <3> HIDE DEF p
    <3>2. s \in Request
      BY <1>0, <3>1 DEF Request, Active
    <3>3. /\ s.pc = p /\ s.kind = req[r].kind /\ s.user = req[r].user /\ s.sid = req[r].sid
          /\ s.copy = req[r].copy /\ s.view = req[r].view /\ s.events = req[r].events
          /\ s.seen = req[r].seen /\ s.recalled = req[r].recalled
      BY <1>0 DEF Request
    <3> HIDE DEF s
    <3>4. PlaceOK(s) /\ s.pc # "purge"
      BY <2>1, <3>1, <3>3 DEF PlaceOK
    <3> QED
      BY <2>1, <3>1, <3>2, <3>3, <3>4, PlainStep
  <2>3. CASE ~Found(req[r].sid)
    <3>1. NotFoundThen(r, Ended(r, "failed"))
      BY <1>4, <2>3 DEF Ensure
    <3>2. /\ Follows(r, Ended(r, "failed")) /\ Ended(r, "failed").pc = "failed"
          /\ Ended(r, "failed").sid = req[r].sid
      BY <2>1, EndedFollows DEF Done
    <3> QED
      BY <2>1, <3>1, <3>2, LookupFails
  <2> QED
    BY <2>2, <2>3
<1> QED
  BY <1>1, <1>2, <1>3, <1>4

\* The session is loaded: it is the caller's.
LEMMA ResolveMoves ==
  ASSUME OwnInv, NEW r \in Req, Resolve(r)
  PROVE  Steps(r)
<1>0. req[r] \in Request /\ RequestOK(req[r])
  BY RequestTyped
<1> DEFINE x == req[r].sid
           c == IF Durable THEN session[x] ELSE NoCopy
           n == Len(answers[x])
           p == AfterResolve
           s == [req[r] EXCEPT !.copy = c, !.before = n, !.mixed = FALSE, !.pc = p]
<1>1. /\ req[r].pc = "resolve" /\ x \in SessionId /\ session[x].owner = req[r].user
      /\ Become(r, s) /\ UNCHANGED Stores
  BY <1>0 DEF Resolve, Request, OwnedBy
<1>2. SessionOf(session[x], req[r].user) /\ session[x] # NoCopy /\ session[x] \in Session
  BY <1>1, SessionsOfUsers DEF SessionOf
<1>3. c \in Session \cup {NoCopy} /\ (c = NoCopy \/ SessionOf(c, req[r].user))
      /\ (Durable => c # NoCopy)
  BY <1>2
<1>4. answers[x] \in Seq(Req)
  BY <1>1 DEF OwnInv, TypeOK
<1>5. n \in Nat
  BY <1>4, LenProperties
<1>6. p \in {"ensure", "start", "recall"}
  BY DEF AfterResolve
<1> HIDE DEF c, n, p
<1>7. s \in Request
  BY <1>0, <1>3, <1>5, <1>6 DEF Request, Active
<1>8. /\ s.pc = p /\ s.kind = req[r].kind /\ s.user = req[r].user /\ s.sid = req[r].sid
      /\ s.copy = c /\ s.view = req[r].view /\ s.events = req[r].events
      /\ s.seen = req[r].seen /\ s.recalled = req[r].recalled
  BY <1>0 DEF Request
<1> HIDE DEF s
<1>9. PlaceOK(s)
  BY <1>0, <1>1, <1>6, <1>8 DEF PlaceOK, RequestOK
<1>10. HoldsOK(s)
  BY <1>1, <1>3, <1>6, <1>8 DEF HoldsOK
<1>11. OwnOK(s)
  BY <1>0, <1>3, <1>8 DEF OwnOK, RequestOK
<1> QED
  BY <1>1, <1>7, <1>8, <1>9, <1>10, <1>11 DEF Steps, Follows, RequestOK

\* r goes to p, and that is all that changes of it.
LEMMA GoStep ==
  ASSUME OwnInv, NEW r \in Req, NEW p \in Active \cup Done, Go(r, p), p # "purge",
         PlaceOK(req[r]) => PlaceOK([req[r] EXCEPT !.pc = p]), p \in Running => Uses(req[r])
  PROVE  Steps(r)
<1>0. req[r] \in Request /\ PlaceOK(req[r])
  BY RequestTyped DEF RequestOK
<1> DEFINE s == [req[r] EXCEPT !.pc = p]
<1>1. Become(r, s)
  BY DEF Go, Become
<1>2. s \in Request
  BY <1>0 DEF Request
<1>3. /\ s.pc = p /\ s.kind = req[r].kind /\ s.user = req[r].user /\ s.sid = req[r].sid
      /\ s.copy = req[r].copy /\ s.view = req[r].view /\ s.events = req[r].events
      /\ s.seen = req[r].seen /\ s.recalled = req[r].recalled
  BY <1>0 DEF Request
<1>4. PlaceOK(s)
  BY <1>0
<1> HIDE DEF s
<1>5. Uses(s) => Uses(req[r])
  BY <1>3 DEF Uses
<1> QED
  BY <1>1, <1>2, <1>3, <1>4, <1>5, PlainStep

LEMMA EnforcedKeeps == \A u : Enforced(u) \subseteq entries
  BY DEF Enforced

LEMMA MemoryMoves ==
  ASSUME OwnInv, NEW r \in Req, Recall(r) \/ Search(r) \/ Store(r) \/ Enforce(r)
  PROVE  Steps(r) /\ entries' \subseteq Entry
<1>0. req[r] \in Request /\ RequestOK(req[r]) /\ entries \subseteq Entry
  BY RequestTyped DEF OwnInv, TypeOK
<1>1. CASE Recall(r)
  <2>1. Uses(req[r]) /\ Go(r, "search") /\ entries' \subseteq entries
    BY <1>1, EnforcedKeeps DEF Recall, Uses, Running
  <2>2. PlaceOK(req[r]) => PlaceOK([req[r] EXCEPT !.pc = "search"])
    BY <1>0, <1>1 DEF Recall, PlaceOK, Request
  <2> QED
    BY <1>0, <2>1, <2>2, GoStep DEF Active
<1>2. CASE Search(r)
  <2> DEFINE m == Of(entries, req[r].user)
             s == [req[r] EXCEPT !.recalled = m, !.pc = "start"]
  <2>1. Become(r, s) /\ req[r].pc = "search" /\ entries' = entries
    BY <1>2 DEF Search, Stores
  <2>2. m \subseteq Entry /\ \A e \in m : e.user = req[r].user
    BY <1>0 DEF Of
  <2> HIDE DEF m
  <2>3. s \in Request
    BY <1>0, <2>2 DEF Request, Active
  <2>4. /\ s.pc = "start" /\ s.kind = req[r].kind /\ s.user = req[r].user /\ s.sid = req[r].sid
        /\ s.copy = req[r].copy /\ s.view = req[r].view /\ s.events = req[r].events
        /\ s.seen = req[r].seen /\ s.recalled = m
    BY <1>0 DEF Request
  <2> HIDE DEF s
  <2>5. PlaceOK(s) /\ Uses(req[r])
    BY <1>0, <2>1, <2>4 DEF PlaceOK, RequestOK, Uses, Running
  <2>6. HoldsOK(s)
    BY <1>0, <2>4, <2>5 DEF HoldsOK, RequestOK
  <2>7. OwnOK(s)
    BY <1>0, <2>2, <2>4 DEF OwnOK, RequestOK
  <2> QED
    BY <1>0, <2>1, <2>3, <2>4, <2>5, <2>6, <2>7 DEF Steps, Follows, RequestOK
<1>3. CASE Store(r)
  <2> DEFINE e == [id |-> r, user |-> req[r].user, at |-> req[r].at, made |-> req[r].before]
  <2>1. entries' = entries \cup {e} /\ Go(r, "enforce") /\ req[r].pc = "store"
    BY <1>3 DEF Store
  <2>2. e \in Entry
    BY <1>0 DEF Request, Entry
  <2>3. PlaceOK(req[r]) => PlaceOK([req[r] EXCEPT !.pc = "enforce"])
    BY <1>0, <2>1 DEF PlaceOK, Request
  <2> HIDE DEF e
  <2> QED
    BY <1>0, <2>1, <2>2, <2>3, GoStep DEF Active, Running
<1>4. CASE Enforce(r)
  <2>1. Go(r, "remembered") /\ entries' \subseteq entries /\ req[r].pc = "enforce"
    BY <1>4, EnforcedKeeps DEF Enforce
  <2>2. PlaceOK(req[r]) => PlaceOK([req[r] EXCEPT !.pc = "remembered"])
    BY <1>0, <2>1 DEF PlaceOK, Request
  <2> QED
    BY <1>0, <2>1, <2>2, GoStep DEF Done, Running
<1> QED
  BY <1>1, <1>2, <1>3, <1>4

\* A step by which r gets new events or sees a list of messages.
LEMMA MessageStep ==
  ASSUME OwnInv, NEW r \in Req, NEW s \in Request, Become(r, s), Uses(req[r]), s.pc \in Running \ {"save"},
         s.kind = req[r].kind, s.user = req[r].user, s.sid = req[r].sid, s.copy = req[r].copy,
         s.view = req[r].view, s.recalled = req[r].recalled,
         s.events \in Seq(Own(req[r].user)), s.seen \in Seq(Own(req[r].user))
  PROVE  Steps(r)
<1>0. RequestOK(req[r])
  BY RequestTyped
<1>1. PlaceOK(s) /\ HoldsOK(s)
  BY <1>0 DEF RequestOK, PlaceOK, HoldsOK, Uses, Running
<1>2. OwnOK(s)
  BY <1>0 DEF RequestOK, OwnOK
<1> QED
  BY <1>1, <1>2 DEF Steps, Follows, RequestOK

LEMMA StartMoves ==
  ASSUME OwnInv, NEW r \in Req, StartGraph(r) \/ StartRunner(r)
  PROVE  Steps(r) /\ stored' \subseteq stored
<1>0. req[r] \in Request /\ RequestOK(req[r]) /\ req[r].pc = "start" /\ Uses(req[r])
      /\ req[r].kind # "remember" /\ req[r].events \in Seq(Own(req[r].user))
  BY RequestTyped DEF StartGraph, StartRunner, Uses, Running, RequestOK, PlaceOK, OwnOK
<1>1. CASE StartGraph(r)
  <2> DEFINE h == Held(r).history
             s == [req[r] EXCEPT !.seen = h, !.pc = "model"]
  <2>1. h \in Seq(Own(req[r].user))
    BY <1>0, HeldIsOwn DEF SessionOf
  <2>2. h \in Seq(Message)
    BY <2>1, OwnAreMessages
  <2>3. Become(r, s) /\ stored' = stored
    BY <1>1 DEF StartGraph, Stores
  <2> HIDE DEF h
  <2>4. s \in Request
    BY <1>0, <2>2 DEF Request, Active
  <2>5. /\ s.pc = "model" /\ s.kind = req[r].kind /\ s.user = req[r].user /\ s.sid = req[r].sid
        /\ s.copy = req[r].copy /\ s.view = req[r].view /\ s.events = req[r].events
        /\ s.seen = h /\ s.recalled = req[r].recalled
    BY <1>0 DEF Request
  <2> HIDE DEF s
  <2> QED
    BY <1>0, <2>1, <2>3, <2>4, <2>5, MessageStep DEF Running
<1>2. CASE StartRunner(r)
  <2>1. CASE Found(req[r].sid)
    <3> DEFINE h == Append(session[req[r].sid].events, Asked(r))
               s == [req[r] EXCEPT !.events = h, !.seen = h, !.pc = "view"]
    <3>1. session[req[r].sid].events \in Seq(Own(req[r].user)) /\ Asked(r) \in Own(req[r].user)
      BY <1>0, HeldIsOwn, OwnMessages, RequestTyped DEF SessionOf
    <3>2. h \in Seq(Own(req[r].user))
      BY <3>1, AppendProperties
    <3>3. h \in Seq(Message)
      BY <3>2, OwnAreMessages
    <3>4. Become(r, s) /\ stored' = stored
      BY <1>2, <2>1 DEF StartRunner
    <3> HIDE DEF h
    <3>5. s \in Request
      BY <1>0, <3>3 DEF Request, Active
    <3>6. /\ s.pc = "view" /\ s.kind = req[r].kind /\ s.user = req[r].user /\ s.sid = req[r].sid
          /\ s.copy = req[r].copy /\ s.view = req[r].view /\ s.events = h
          /\ s.seen = h /\ s.recalled = req[r].recalled
      BY <1>0 DEF Request
    <3> HIDE DEF s
    <3> QED
      BY <1>0, <3>2, <3>4, <3>5, <3>6, MessageStep DEF Running
  <2>2. CASE ~Found(req[r].sid)
    <3>1. NotFoundThen(r, Ended(r, "failed")) /\ req[r].sid \in SessionId
      BY <1>0, <1>2, <2>2, HeldIsOwn DEF StartRunner
    <3>2. /\ Follows(r, Ended(r, "failed")) /\ Ended(r, "failed").pc = "failed"
          /\ Ended(r, "failed").sid = req[r].sid
      BY <1>0, EndedFollows DEF Done
    <3> QED
      BY <3>1, <3>2, LookupFails
  <2> QED
    BY <2>1, <2>2
<1> QED
  BY <1>1, <1>2

LEMMA AfterEventIs == \A r : AfterEvent(r) \in {"commit", "model"}
  BY DEF AfterEvent

LEMMA ModelMoves ==
  ASSUME OwnInv, NEW r \in Req, ModelAnswers(r) \/ ModelFails(r) \/ Disappear(r)
  PROVE  Steps(r)
<1>0. req[r] \in Request /\ RequestOK(req[r])
  BY RequestTyped
<1>1. CASE ModelAnswers(r)
  <2>0. req[r].pc = "model" /\ Uses(req[r]) /\ req[r].events \in Seq(Own(req[r].user))
        /\ req[r].seen \in Seq(Own(req[r].user)) /\ Answered(r) \in Own(req[r].user)
    BY <1>0, <1>1, OwnMessages, RequestTyped DEF ModelAnswers, Uses, Running, RequestOK, OwnOK
  <2>1. CASE config.runtime = "adk"
    <3> DEFINE h == Append(req[r].events, Answered(r))
               s == [req[r] EXCEPT !.events = h, !.pc = "view"]
    <3>1. h \in Seq(Own(req[r].user))
      BY <2>0, AppendProperties
    <3>2. h \in Seq(Message)
      BY <3>1, OwnAreMessages
    <3>3. Become(r, s)
      BY <1>1, <2>1 DEF ModelAnswers, Become
    <3> HIDE DEF h
    <3>4. s \in Request
      BY <1>0, <3>2 DEF Request, Active
    <3>5. /\ s.pc = "view" /\ s.kind = req[r].kind /\ s.user = req[r].user /\ s.sid = req[r].sid
          /\ s.copy = req[r].copy /\ s.view = req[r].view /\ s.events = h
          /\ s.seen = req[r].seen /\ s.recalled = req[r].recalled
      BY <1>0 DEF Request
    <3> HIDE DEF s
    <3> QED
      BY <2>0, <3>1, <3>3, <3>4, <3>5, MessageStep DEF Running
  <2>2. CASE config.runtime # "adk"
    <3>1. Go(r, "commit")
      BY <1>1, <2>2 DEF ModelAnswers
    <3>2. PlaceOK(req[r]) => PlaceOK([req[r] EXCEPT !.pc = "commit"])
      BY <1>0, <2>0 DEF PlaceOK, Request
    <3> QED
      BY <2>0, <3>1, <3>2, GoStep DEF Active
  <2> QED
    BY <2>1, <2>2
<1>2. CASE ModelFails(r)
  BY <1>2, EndMoves DEF ModelFails, Done, Running
<1>3. CASE Disappear(r)
  BY <1>3, EndMoves DEF Disappear, Done
<1> QED
  BY <1>1, <1>2, <1>3

\* The steps of _persist_events that save nothing.
LEMMA PersistMoves ==
  ASSUME OwnInv, NEW r \in Req, PersistNothing(r) \/ LoadView(r)
  PROVE  Steps(r) /\ stored' \subseteq stored
<1>0. req[r] \in Request /\ RequestOK(req[r]) /\ req[r].pc = "view" /\ Uses(req[r])
      /\ req[r].kind # "remember" /\ req[r].events \in Seq(Own(req[r].user))
  BY RequestTyped DEF PersistNothing, LoadView, Uses, Running, RequestOK, PlaceOK, OwnOK
<1>1. CASE PersistNothing(r)
  <2> DEFINE p == AfterEvent(r)
             s == [req[r] EXCEPT !.pc = p, !.mixed = TRUE]
  <2>1. p \in {"commit", "model"}
    BY AfterEventIs
  <2>2. NotFoundThen(r, s)
    BY <1>1 DEF PersistNothing
  <2> HIDE DEF p
  <2>3. s \in Request
    BY <1>0, <2>1 DEF Request, Active
  <2>4. /\ s.pc = p /\ s.kind = req[r].kind /\ s.user = req[r].user /\ s.sid = req[r].sid
        /\ s.copy = req[r].copy /\ s.view = req[r].view /\ s.events = req[r].events
        /\ s.seen = req[r].seen /\ s.recalled = req[r].recalled
    BY <1>0 DEF Request
  <2> HIDE DEF s
  <2>5. PlaceOK(s) /\ s.pc # "purge"
    BY <1>0, <2>1, <2>4 DEF PlaceOK
  <2>6. Follows(r, s)
    BY <1>0, <2>3, <2>4, <2>5, GoesOn
  <2>7. req[r].sid \in SessionId
    BY <1>0, HeldIsOwn
  <2> QED
    BY <2>1, <2>2, <2>4, <2>6, <2>7, LookupFails
<1>2. CASE LoadView(r)
  <2> DEFINE v == WithEvents(session[req[r].sid], req[r].events)
             s == [req[r] EXCEPT !.view = v, !.pc = "save"]
  <2>1. SessionOf(v, req[r].user)
    BY <1>0, HeldIsOwn, EventsKeepOwner
  <2>2. Become(r, s) /\ Durable /\ stored' = stored
    BY <1>2 DEF LoadView, Stores
  <2>3. v \in Session /\ v # NoCopy
    <3>1. v \in Session /\ v.owner \in User
      BY <2>1 DEF SessionOf, Session
    <3> QED
      BY <3>1, NoneAssumption DEF NoCopy
  <2> HIDE DEF v
  <2>4. s \in Request
    BY <1>0, <2>3 DEF Request, Active
  <2>5. /\ s.pc = "save" /\ s.kind = req[r].kind /\ s.user = req[r].user /\ s.sid = req[r].sid
        /\ s.copy = req[r].copy /\ s.view = v /\ s.events = req[r].events
        /\ s.seen = req[r].seen /\ s.recalled = req[r].recalled
    BY <1>0 DEF Request
  <2> HIDE DEF s
  <2>6. PlaceOK(s)
    BY <1>0, <2>2, <2>3, <2>5 DEF PlaceOK
  <2>7. HoldsOK(s)
    BY <1>0, <2>5 DEF HoldsOK, RequestOK, Uses
  <2>8. OwnOK(s)
    BY <1>0, <2>1, <2>5 DEF OwnOK, RequestOK
  <2> QED
    BY <2>2, <2>4, <2>5, <2>6, <2>7, <2>8 DEF Steps, Follows, RequestOK
<1> QED
  BY <1>1, <1>2

-----------------------------------------------------------------------------
\* Steps that change a session

\* A step of r that saves n, of the same owner, as session x.
SavesTo(r, x, n) == /\ x \in SessionId /\ SessionOf(n, session[x].owner)
                    /\ session' = [session EXCEPT ![x] = n]
                    /\ Steps(r)

LEMMA SaveStep ==
  ASSUME OwnInv, NEW r \in Req, NEW x, NEW n, SavesTo(r, x, n), UNCHANGED config
  PROVE  /\ req' \in [Req -> Request] /\ Requests' /\ Sessions'
         /\ session' \in [SessionId -> Session]
<1>0. session \in [SessionId -> Session] /\ n \in Session /\ x \in SessionId
      /\ SessionOf(n, session[x].owner) /\ session' = [session EXCEPT ![x] = n]
  BY DEF OwnInv, TypeOK, SavesTo, SessionOf
<1>1. session' \in [SessionId -> Session] /\ session'[x] = n
      /\ \A y \in SessionId : y # x => session'[y] = session[y]
  BY <1>0
<1>2. \A y \in SessionId : session'[y].owner = session[y].owner
  BY <1>0, <1>1 DEF SessionOf
<1>3. PICK s : Follows(r, s) /\ (Become(r, s) \/ Tell(r, s))
  BY DEF SavesTo, Steps
<1>4. s \in Request /\ s.user = req[r].user /\ RequestOK(s)
  BY <1>3 DEF Follows
<1>5. StepsTo(r, s)
  BY <1>3, <1>4, StepBecomes, RequestTyped
<1>6. \A u : Own(u)' = Own(u)
  BY <1>4, <1>5, OwnStays, RequestTyped
<1>7. RequestOK(s)'
  BY <1>2, <1>4, <1>6 DEF RequestOK, PlaceOK, HoldsOK, OwnOK, Uses, SessionOf, Durable
<1>8. RequestOK(req[r])'
  BY <1>5, <1>7 DEF StepsTo
<1>9. \A q \in Req \ {r} : RequestOK(req[q])'
  <2> SUFFICES ASSUME NEW q \in Req \ {r} PROVE RequestOK(req[q])'
    OBVIOUS
  <2>1. Uses(req[q]) => session'[req[q].sid].owner = session[req[q].sid].owner
    BY <1>2, HeldIsOwn
  <2> QED
    BY <1>4, <1>5, <1>6, <2>1, OthersKeep
<1>10. Sessions'
  BY <1>0, <1>1, <1>2, <1>6 DEF OwnInv, Sessions, SessionOf
<1> QED
  BY <1>1, <1>5, <1>8, <1>9, <1>10 DEF Requests, StepsTo

\* What _persist_events and the commit make of the session they save.
LEMMA PersistSaves ==
  ASSUME OwnInv, NEW r \in Req, PersistShared(r)
  PROVE  LET x == req[r].sid
         IN  /\ SavesTo(r, x, Saved(WithEvents(session[x], req[r].events)))
             /\ stored' = stored \cup {x} /\ req'[r].pc = AfterEvent(r)
<1> DEFINE x == req[r].sid
           n == Saved(WithEvents(session[x], req[r].events))
           p == AfterEvent(r)
           s == [req[r] EXCEPT !.pc = p, !.view = NoCopy]
<1>0. /\ req[r] \in Request /\ RequestOK(req[r]) /\ req[r].pc = "view" /\ Uses(req[r])
      /\ req[r].kind # "remember" /\ req[r].events \in Seq(Own(req[r].user))
      /\ now \in Nat
  BY RequestTyped, NowTyped DEF PersistShared, Uses, Running, RequestOK, PlaceOK, OwnOK
<1>1. x \in SessionId /\ session[x].owner = req[r].user /\ SessionOf(session[x], req[r].user)
  BY <1>0, HeldIsOwn
<1>2. SessionOf(n, session[x].owner)
  BY <1>0, <1>1, EventsKeepOwner, SavedKeepsOwner
<1>3. session' = [session EXCEPT ![x] = n] /\ stored' = stored \cup {x} /\ Tell(r, s)
  BY DEF PersistShared, SaveShared
<1>4. p \in {"commit", "model"}
  BY AfterEventIs
<1> HIDE DEF n, p
<1>5. s \in Request
  BY <1>0, <1>4 DEF Request, Active
<1>6. /\ s.pc = p /\ s.kind = req[r].kind /\ s.user = req[r].user /\ s.sid = req[r].sid
      /\ s.copy = req[r].copy /\ s.view = NoCopy /\ s.events = req[r].events
      /\ s.seen = req[r].seen /\ s.recalled = req[r].recalled
  BY <1>0 DEF Request
<1> HIDE DEF s
<1>7. PlaceOK(s)
  BY <1>0, <1>4, <1>6 DEF PlaceOK
<1>8. HoldsOK(s)
  BY <1>0, <1>6 DEF HoldsOK, RequestOK, Uses
<1>9. OwnOK(s)
  BY <1>0, <1>6 DEF OwnOK, RequestOK
<1>10. Steps(r) /\ StepsTo(r, s)
  BY <1>3, <1>5, <1>6, <1>7, <1>8, <1>9, StepBecomes, RequestTyped DEF Steps, Follows, RequestOK
<1> QED
  BY <1>1, <1>2, <1>3, <1>6, <1>10 DEF SavesTo, StepsTo, n, p

LEMMA ViewSaves ==
  ASSUME OwnInv, NEW r \in Req, SaveView(r)
  PROVE  /\ \/ SavesTo(r, req[r].sid, Saved(req[r].view)) /\ Unchanged(req[r].sid, req[r].view)
               /\ req'[r].pc = AfterEvent(r)
            \/ Steps(r) /\ UNCHANGED session /\ req'[r].pc = "conflict"
         /\ stored' = stored
<1> DEFINE x == req[r].sid
           n == Saved(req[r].view)
           p == AfterEvent(r)
           s == [req[r] EXCEPT !.pc = p, !.view = NoCopy]
<1>0. /\ req[r] \in Request /\ RequestOK(req[r]) /\ req[r].pc = "save" /\ Uses(req[r])
      /\ req[r].kind # "remember" /\ SessionOf(req[r].view, req[r].user) /\ now \in Nat
  BY RequestTyped, NowTyped DEF SaveView, Uses, Running, RequestOK, PlaceOK, OwnOK
<1>1. x \in SessionId /\ session[x].owner = req[r].user
  BY <1>0, HeldIsOwn
<1>2. CASE SaveCopy(x, req[r].view) /\ Tell(r, s)
  <2>1. SessionOf(n, session[x].owner)
    BY <1>0, <1>1, SavedKeepsOwner
  <2>2. session' = [session EXCEPT ![x] = n] /\ stored' = stored /\ Unchanged(x, req[r].view)
    BY <1>2 DEF SaveCopy
  <2>3. p \in {"commit", "model"}
    BY AfterEventIs
  <2> HIDE DEF n, p
  <2>4. s \in Request
    BY <1>0, <2>3 DEF Request, Active
  <2>5. /\ s.pc = p /\ s.kind = req[r].kind /\ s.user = req[r].user /\ s.sid = req[r].sid
        /\ s.copy = req[r].copy /\ s.view = NoCopy /\ s.events = req[r].events
        /\ s.seen = req[r].seen /\ s.recalled = req[r].recalled
    BY <1>0 DEF Request
  <2>6. Tell(r, s)
    BY <1>2 DEF p
  <2> HIDE DEF s
  <2>7. PlaceOK(s)
    BY <1>0, <2>3, <2>5 DEF PlaceOK
  <2>8. HoldsOK(s)
    BY <1>0, <2>5 DEF HoldsOK, RequestOK, Uses
  <2>9. OwnOK(s)
    BY <1>0, <2>5 DEF OwnOK, RequestOK
  <2>10. Steps(r) /\ StepsTo(r, s)
    BY <2>4, <2>5, <2>6, <2>7, <2>8, <2>9, StepBecomes, RequestTyped DEF Steps, Follows, RequestOK
  <2> QED
    BY <1>1, <2>1, <2>2, <2>5, <2>10 DEF SavesTo, StepsTo, n, p
<1>3. CASE Become(r, Ended(r, "conflict")) /\ UNCHANGED <<session, stored>>
  <2>1. /\ Follows(r, Ended(r, "conflict")) /\ Ended(r, "conflict").pc = "conflict"
    BY <1>0, EndedFollows DEF Done
  <2>2. StepsTo(r, Ended(r, "conflict"))
    BY <1>3, <2>1, StepBecomes, RequestTyped DEF Follows
  <2> QED
    BY <1>3, <2>1, <2>2 DEF Steps, StepsTo
<1> QED
  BY <1>2, <1>3 DEF SaveView

\* The exchange of r, as two messages of its caller.
LEMMA ExchangeIsOwn ==
  ASSUME OwnInv, NEW r \in Req
  PROVE  /\ Exchange(r) \in Seq(Own(req[r].user)) /\ Len(Exchange(r)) = 2
         /\ Exchange(r)[1] = Asked(r) /\ Exchange(r)[2] = Answered(r)
  BY OwnMessages, RequestTyped DEF Exchange

LEMMA CommitSaves ==
  ASSUME OwnInv, NEW r \in Req, CommitShared(r) \/ CommitCopy(r)
  PROVE  LET x == req[r].sid
             n == Saved(WithMessages(Held(r), Exchange(r)))
         IN  /\ req[r].pc = "commit"
             /\ \/ /\ SavesTo(r, x, n) /\ Tell(r, Ended(r, "answered")) /\ req'[r].pc = "answered"
                   /\ answers' = [answers EXCEPT ![x] = Append(answers[x], r)]
                   /\ Durable => Unchanged(x, req[r].copy) /\ stored' = stored
                \/ Steps(r) /\ UNCHANGED <<session, answers, stored>> /\ req'[r].pc = "conflict"
             /\ stored' \subseteq stored \cup {x}
<1> DEFINE x == req[r].sid
           m == WithMessages(Held(r), Exchange(r))
           n == Saved(m)
<1>0. /\ req[r] \in Request /\ RequestOK(req[r]) /\ req[r].pc = "commit" /\ Uses(req[r])
      /\ req[r].kind # "remember" /\ now \in Nat
  BY RequestTyped, NowTyped DEF CommitShared, CommitCopy, Uses, Running, RequestOK, PlaceOK
<1>1. x \in SessionId /\ session[x].owner = req[r].user /\ SessionOf(Held(r), req[r].user)
  BY <1>0, HeldIsOwn
<1>2. SessionOf(n, session[x].owner)
  BY <1>0, <1>1, ExchangeIsOwn, MessagesKeepOwner, SavedKeepsOwner
<1>3. ASSUME Tell(r, Ended(r, "answered")) PROVE Steps(r) /\ req'[r].pc = "answered"
  <2>1. Follows(r, Ended(r, "answered")) /\ Ended(r, "answered").pc = "answered"
    BY <1>0, EndedFollows DEF Done
  <2>2. StepsTo(r, Ended(r, "answered"))
    BY <1>3, <2>1, StepBecomes, RequestTyped DEF Follows
  <2> QED
    BY <1>3, <2>1, <2>2 DEF Steps, StepsTo
<1>4. CASE CommitShared(r)
  <2>1. /\ ~Durable /\ SaveShared(x, WithMessages(session[x], Exchange(r)))
        /\ Tell(r, Ended(r, "answered")) /\ answers' = [answers EXCEPT ![x] = Append(answers[x], r)]
    BY <1>4 DEF CommitShared
  <2>2. Held(r) = session[x]
    BY <2>1 DEF Held
  <2>3. session' = [session EXCEPT ![x] = n] /\ stored' = stored \cup {x}
    BY <2>1, <2>2 DEF SaveShared
  <2> QED
    BY <1>0, <1>1, <1>2, <1>3, <2>1, <2>3 DEF SavesTo
<1>5. CASE CommitCopy(r)
  <2>0. Durable /\ Held(r) = req[r].copy
    BY <1>5 DEF CommitCopy, Held
  <2>1. m.revision = req[r].copy.revision
    <3>1. req[r].copy \in Session
      BY <1>1, <2>0 DEF SessionOf
    <3> QED
      BY <2>0, <3>1 DEF WithMessages, Session
  <2>2. Unchanged(x, m) <=> Unchanged(x, req[r].copy)
    BY <2>1 DEF Unchanged
  <2>3. CASE /\ SaveCopy(x, m) /\ Tell(r, Ended(r, "answered"))
             /\ answers' = [answers EXCEPT ![x] = Append(@, r)]
    <3>1. session' = [session EXCEPT ![x] = n] /\ stored' = stored /\ Unchanged(x, req[r].copy)
      BY <2>2, <2>3 DEF SaveCopy
    <3>2. answers' = [answers EXCEPT ![x] = Append(answers[x], r)]
      BY <2>3
    <3> HIDE DEF m, n
    <3> QED
      BY <1>0, <1>1, <1>2, <1>3, <2>3, <3>1, <3>2 DEF SavesTo, n, m
  <2>4. CASE Become(r, Ended(r, "conflict")) /\ UNCHANGED <<session, stored, answers>>
    <3>1. Follows(r, Ended(r, "conflict")) /\ Ended(r, "conflict").pc = "conflict"
      BY <1>0, EndedFollows DEF Done
    <3>2. StepsTo(r, Ended(r, "conflict"))
      BY <2>4, <3>1, StepBecomes, RequestTyped DEF Follows
    <3> QED
      BY <1>0, <2>4, <3>1, <3>2 DEF Steps, StepsTo
  <2> QED
    BY <1>5, <2>0, <2>3, <2>4 DEF CommitCopy
<1> QED
  BY <1>4, <1>5

\* A session that is created belongs to its request, and nobody else has its id.
LEMMA CreateSaves ==
  ASSUME OwnInv, NEW r \in Req, NEW x \in SessionId, CreateSession(r, x)
  PROVE  /\ req' \in [Req -> Request] /\ Requests' /\ Sessions'
         /\ session' \in [SessionId -> Session] /\ \A q \in Req \ {r} : Same(q)
<1> DEFINE u == req[r].user
           f == Fresh(u)
           c == IF Durable THEN f ELSE NoCopy
           n == Len(answers[x])
           p == AfterResolve
           z == [req[r] EXCEPT !.sid = x, !.before = n, !.pc = p, !.copy = c]
<1>0. /\ req[r] \in Request /\ RequestOK(req[r]) /\ req[r].pc = "resolve" /\ now \in Nat
      /\ session' = [session EXCEPT ![x] = f] /\ Become(r, z) /\ config' = config
      /\ \A q \in Req : req[q].sid # x
  BY RequestTyped, NowTyped DEF CreateSession
<1>1. u \in User
  BY <1>0, NoneAssumption DEF Request
<1>2. f \in Session /\ f.owner = u /\ SessionOf(f, u)
  BY <1>0, <1>1, Bounds DEF Fresh, SessionOf, Session
<1>3. f # NoCopy
  BY <1>1, <1>2, NoneAssumption DEF NoCopy
<1>4. n \in Nat
  <2>1. answers[x] \in Seq(Req)
    BY DEF OwnInv, TypeOK
  <2> QED
    BY <2>1, LenProperties
<1>5. p \in {"ensure", "start", "recall"} /\ c \in Session \cup {NoCopy}
      /\ (c = NoCopy \/ SessionOf(c, u)) /\ (Durable => c # NoCopy)
  BY <1>2, <1>3 DEF AfterResolve
<1> HIDE DEF f, c, n, p
<1>6. z \in Request
  BY <1>0, <1>4, <1>5 DEF Request, Active
<1>7. PICK s \in Request : s = z
  BY <1>6
<1>8. /\ s.pc = p /\ s.kind = req[r].kind /\ s.user = u /\ s.sid = x
      /\ s.copy = c /\ s.view = req[r].view /\ s.events = req[r].events
      /\ s.seen = req[r].seen /\ s.recalled = req[r].recalled
  BY <1>0, <1>7 DEF Request
<1>9. StepsTo(r, s)
  BY <1>0, <1>7, StepBecomes, RequestTyped
<1> HIDE DEF z
<1>10. session \in [SessionId -> Session]
  BY DEF OwnInv, TypeOK
<1>11. /\ session' \in [SessionId -> Session] /\ session'[x] = f
       /\ \A y \in SessionId : y # x => session'[y] = session[y]
  BY <1>0, <1>2, <1>10
<1>12. \A v : Own(v)' = Own(v)
  BY <1>8, <1>9, OwnStays, RequestTyped
<1>13. PlaceOK(s) /\ OwnOK(s)
  BY <1>0, <1>5, <1>8 DEF PlaceOK, OwnOK, RequestOK
<1>14. PlaceOK(s)' /\ OwnOK(s)'
  BY <1>0, <1>12, <1>13 DEF PlaceOK, OwnOK, SessionOf, Durable
<1>15. HoldsOK(s)'
  BY <1>0, <1>2, <1>5, <1>8, <1>11 DEF HoldsOK, Durable
<1>16. RequestOK(req[r])'
  BY <1>9, <1>14, <1>15 DEF RequestOK, StepsTo
<1>17. \A q \in Req \ {r} : RequestOK(req[q])'
  <2> SUFFICES ASSUME NEW q \in Req \ {r} PROVE RequestOK(req[q])'
    OBVIOUS
  <2>1. Uses(req[q]) => session'[req[q].sid].owner = session[req[q].sid].owner
    BY <1>0, <1>11, HeldIsOwn
  <2> QED
    BY <1>0, <1>8, <1>9, <1>12, <2>1, OthersKeep
<1>18. Sessions'
  BY <1>2, <1>11, <1>12 DEF OwnInv, Sessions, SessionOf
<1> QED
  BY <1>9, <1>11, <1>16, <1>17, <1>18 DEF Requests, StepsTo

-----------------------------------------------------------------------------
\* Every step keeps the types, and what is whose

LEMMA BegunGrows ==
  ASSUME OwnInv, NEW r \in Req, \A q \in Req \ {r} : Same(q)
  PROVE  IsFiniteSet(Begun)' /\ Begun' \subseteq Begun \cup {r}
<1>1. \A q \in Req \ {r} : req'[q].pc = req[q].pc
  <2> SUFFICES ASSUME NEW q \in Req \ {r} PROVE req'[q].pc = req[q].pc
    OBVIOUS
  <2>1. req[q] \in Request /\ Same(q)
    BY RequestTyped
  <2> QED
    BY <2>1 DEF Same, Request
<1>2. Begun' \subseteq Begun \cup {r}
  BY <1>1 DEF Begun
<1>3. IsFiniteSet(Begun \cup {r})
  BY FS_AddElement DEF OwnInv
<1> QED
  BY <1>2, <1>3, FS_Subset

LEMMA Lengths ==
  ASSUME Sessions', session' \in [SessionId -> Session]
  PROVE  \A s \in SessionId : /\ Len(session'[s].history) <= MaxHistory
                              /\ Len(session'[s].events) <= EventBound
  BY DEF Sessions, SessionOf, EventBound

\* The stores that a step leaves alone or changes within their types.
StoresTyped ==
    /\ config' = config /\ now' \in 0 .. MaxClock
    /\ window' \in [Route -> [id : Nat, count : Nat]]
    /\ stored' \subseteq SessionId /\ entries' \subseteq Entry
    /\ answers' \in [SessionId -> Seq(Req)] /\ faults' \in 0 .. MaxFaults

LEMMA InvAfter ==
  ASSUME OwnInv, NEW r \in Req, req' \in [Req -> Request], \A q \in Req \ {r} : Same(q),
         Requests', Sessions', session' \in [SessionId -> Session], StoresTyped
  PROVE  OwnInv'
<1>1. IsFiniteSet(Begun)'
  BY BegunGrows
<1>2. config' \in Configs
  BY DEF OwnInv, TypeOK, StoresTyped
<1>3. TypeOK'
  BY <1>2, Lengths DEF TypeOK, StoresTyped, EventBound
<1> QED
  BY <1>1, <1>3 DEF OwnInv

LEMMA QuietKeeps ==
  ASSUME OwnInv, NEW r \in Req, Steps(r), session' = session, StoresTyped
  PROVE  OwnInv'
<1>1. PICK s : Follows(r, s) /\ (Become(r, s) \/ Tell(r, s))
  BY DEF Steps
<1>2. StepsTo(r, s)
  BY <1>1, StepBecomes, RequestTyped DEF Follows
<1>3. req' \in [Req -> Request] /\ Requests' /\ Sessions'
  BY <1>1, QuietStep DEF StoresTyped
<1>4. session' \in [SessionId -> Session]
  BY DEF OwnInv, TypeOK
<1> QED
  BY <1>2, <1>3, <1>4, InvAfter DEF StepsTo

LEMMA SaveKeeps ==
  ASSUME OwnInv, NEW r \in Req, NEW x, NEW n, SavesTo(r, x, n), StoresTyped
  PROVE  OwnInv'
<1>1. PICK s : Follows(r, s) /\ (Become(r, s) \/ Tell(r, s))
  BY DEF Steps, SavesTo
<1>2. StepsTo(r, s)
  BY <1>1, StepBecomes, RequestTyped DEF Follows
<1>3. req' \in [Req -> Request] /\ Requests' /\ Sessions' /\ session' \in [SessionId -> Session]
  BY SaveStep DEF StoresTyped
<1> QED
  BY <1>2, <1>3, InvAfter DEF StepsTo

\* The stores as they are.
LEMMA StoresAre ==
  ASSUME OwnInv
  PROVE  /\ now \in 0 .. MaxClock /\ window \in [Route -> [id : Nat, count : Nat]]
         /\ stored \subseteq SessionId /\ entries \subseteq Entry
         /\ answers \in [SessionId -> Seq(Req)] /\ faults \in 0 .. MaxFaults
  BY DEF OwnInv, TypeOK

LEMMA OwnStarts == Init => OwnInv
<1> SUFFICES ASSUME Init PROVE OwnInv
  OBVIOUS
<1>1. now = 0 /\ config \in Configs /\ session = [s \in SessionId |-> Fresh(FirstUser)]
      /\ stored = {FirstSession} /\ entries = {} /\ faults = 0
      /\ answers = [s \in SessionId |-> <<>>] /\ window = [k \in Route |-> NoWindow]
  BY DEF Init, SetupInit, LimitInit
<1>2. 0 \in 0 .. MaxClock /\ 0 \in 0 .. MaxFaults /\ MaxHistory \in Nat /\ EventBound \in Nat
  BY Bounds, ClockAssumption, FaultsAssumption
<1>3. FirstSession \in SessionId /\ FirstUser \in User /\ NoWindow \in [id : Nat, count : Nat]
  BY FirstAssumption DEF NoWindow
<1>4. ASSUME NEW s \in SessionId
      PROVE  /\ session[s] \in Session /\ session[s].owner \in User
             /\ session[s].history = <<>> /\ session[s].events = <<>>
  BY <1>1, <1>3 DEF Session, Fresh
<1>5. PICK asks \in Asks[config] :
         req = [r \in Req |-> [pc |-> "new", then |-> "limited", kind |-> asks[r].kind, user |-> asks[r].user,
                              sid |-> asks[r].sid, at |-> 0, window |-> 0, admitted |-> FALSE,
                              copy |-> NoCopy, view |-> NoCopy, events |-> <<>>, seen |-> <<>>,
                              recalled |-> {}, before |-> 0, mixed |-> FALSE]]
  BY DEF Init
<1>6. asks \in [Req -> Ask]
  BY <1>1, <1>5, AsksAssumption
<1>7. ASSUME NEW r \in Req
      PROVE  /\ req[r] \in Request /\ req[r].pc = "new" /\ req[r].copy = NoCopy
             /\ req[r].view = NoCopy /\ req[r].events = <<>> /\ req[r].seen = <<>>
             /\ req[r].recalled = {}
  <2>1. /\ asks[r].kind \in Kinds /\ asks[r].user \in User /\ asks[r].sid \in SessionId \cup {NoSession}
    BY <1>6 DEF Ask
  <2> DEFINE k == asks[r].kind
             u == asks[r].user
             x == asks[r].sid
  <2> HIDE DEF k, u, x
  <2>2. req[r] = [pc |-> "new", then |-> "limited", kind |-> k, user |-> u,
                  sid |-> x, at |-> 0, window |-> 0, admitted |-> FALSE,
                  copy |-> NoCopy, view |-> NoCopy, events |-> <<>>, seen |-> <<>>,
                  recalled |-> {}, before |-> 0, mixed |-> FALSE]
    BY <1>5 DEF k, u, x
  <2>3. k \in Kinds /\ u \in User /\ x \in SessionId \cup {NoSession}
    BY <2>1 DEF k, u, x
  <2>4. NoCopy \in Session \cup {NoCopy} /\ <<>> \in Seq(Message) /\ {} \in SUBSET Entry
        /\ "new" \in {"new"} \cup Active \cup Done /\ "limited" \in Active \cup Done
    BY DEF Done
  <2> QED
    BY <2>2, <2>3, <2>4 DEF Request
<1>8. req \in [Req -> Request]
  BY <1>5, <1>7
<1>9. TypeOK
  <2>1. session \in [SessionId -> Session] /\ answers \in [SessionId -> Seq(Req)]
        /\ window \in [Route -> [id : Nat, count : Nat]]
    BY <1>1, <1>3, <1>4
  <2>2. \A s \in SessionId : /\ Len(session[s].history) <= MaxHistory
                             /\ Len(session[s].events) <= EventBound
    BY <1>2, <1>4
  <2> QED
    BY <1>1, <1>2, <1>3, <1>8, <2>1, <2>2 DEF TypeOK
<1>10. Begun = {}
  BY <1>7 DEF Begun
<1>11. Requests
  <2> SUFFICES ASSUME NEW r \in Req PROVE RequestOK(req[r])
    BY DEF Requests
  <2>1. PlaceOK(req[r]) /\ HoldsOK(req[r])
    BY <1>7 DEF PlaceOK, HoldsOK, Uses, Running
  <2>2. <<>> \in Seq(Own(req[r].user))
    OBVIOUS
  <2>3. OwnOK(req[r])
    BY <1>7, <2>2 DEF OwnOK
  <2> QED
    BY <2>1, <2>3 DEF RequestOK
<1>12. Sessions
  <2> SUFFICES ASSUME NEW s \in SessionId PROVE SessionOf(session[s], session[s].owner)
    BY DEF Sessions
  <2> DEFINE u == session[s].owner
             c == session[s]
  <2>1. c \in Session /\ c.owner = u /\ c.history = <<>> /\ c.events = <<>>
    BY <1>4
  <2> HIDE DEF u, c
  <2>2. <<>> \in Seq(Own(u)) /\ Len(<<>>) = 0
    OBVIOUS
  <2>3. SessionOf(c, u)
    BY <1>2, <2>1, <2>2 DEF SessionOf
  <2> QED
    BY <2>3 DEF c, u
<1> QED
  BY <1>9, <1>10, <1>11, <1>12, FS_EmptySet DEF OwnInv

LEMMA StillOwn ==
  ASSUME OwnInv, UNCHANGED <<config, window, session, stored, entries, req, answers, faults>>,
         now' \in 0 .. MaxClock
  PROVE  OwnInv'
<1>1. TypeOK'
  BY DEF OwnInv, TypeOK
<1>2. Begun' = Begun /\ \A u : Own(u)' = Own(u)
  BY DEF Begun, Own
<1>3. Sessions'
  BY <1>2 DEF OwnInv, Sessions, SessionOf
<1>4. Requests'
  <2> SUFFICES ASSUME NEW q \in Req PROVE RequestOK(req[q])'
    BY DEF Requests
  <2>1. RequestOK(req[q])
    BY RequestTyped
  <2>2. PlaceOK(req[q])' /\ HoldsOK(req[q])'
    BY <2>1 DEF RequestOK, PlaceOK, HoldsOK, Uses, Durable
  <2>3. OwnOK(req[q])'
    BY <1>2, <2>1 DEF RequestOK, OwnOK, SessionOf
  <2> QED
    BY <2>2, <2>3 DEF RequestOK
<1> QED
  BY <1>1, <1>2, <1>3, <1>4 DEF OwnInv

LEMMA OwnKept == OwnInv /\ [Next]_vars => OwnInv'
<1> SUFFICES ASSUME OwnInv, [Next]_vars PROVE OwnInv'
  OBVIOUS
<1> USE StoresAre
<1>1. CASE TimePasses
  <2>1. now' \in 0 .. MaxClock
    BY <1>1, ClockAssumption DEF TimePasses, Tick
  <2> QED
    BY <1>1, <2>1, StillOwn DEF TimePasses, Tick
<1>2. CASE UNCHANGED vars
  BY <1>2, StillOwn DEF vars
<1>3. ASSUME NEW r \in Req, LimitLocally(r) \/ ReadClock(r) \/ Consume(r) PROVE OwnInv'
  <2>1. Steps(r) /\ window' \in [Route -> [id : Nat, count : Nat]]
    BY <1>3, LimitMoves
  <2> QED
    BY <1>3, <2>1, QuietKeeps DEF LimitLocally, ReadClock, Consume, Stores, StoresTyped
<1>4. ASSUME NEW r \in Req, Receive(r) \/ Remember(r) PROVE OwnInv'
  BY <1>4, ArrivalMoves, QuietKeeps DEF Receive, Remember, Stores, StoresTyped
<1>5. ASSUME NEW r \in Req, NEW s \in SessionId, CreateSession(r, s) PROVE OwnInv'
  <2>1. StoresTyped
    BY <1>5 DEF CreateSession, StoresTyped
  <2> QED
    BY <1>5, <2>1, CreateSaves, InvAfter
<1>6. ASSUME NEW r \in Req, NotFound(r) \/ Purge(r) \/ Denied(r) \/ Ensure(r) PROVE OwnInv'
  <2>1. Steps(r) /\ stored' \subseteq stored
    BY <1>6, LookupMoves
  <2> QED
    BY <1>6, <2>1, QuietKeeps DEF NotFound, Purge, Denied, Ensure, Stores, StoresTyped
<1>7. ASSUME NEW r \in Req, Resolve(r) PROVE OwnInv'
  BY <1>7, ResolveMoves, QuietKeeps DEF Resolve, Stores, StoresTyped
<1>8. ASSUME NEW r \in Req, Recall(r) \/ Search(r) \/ Store(r) \/ Enforce(r) PROVE OwnInv'
  <2>1. Steps(r) /\ entries' \subseteq Entry
    BY <1>8, MemoryMoves
  <2> QED
    BY <1>8, <2>1, QuietKeeps DEF Recall, Search, Store, Enforce, Stores, StoresTyped
<1>9. ASSUME NEW r \in Req, StartGraph(r) \/ StartRunner(r) PROVE OwnInv'
  <2>1. Steps(r) /\ stored' \subseteq stored
    BY <1>9, StartMoves
  <2> QED
    BY <1>9, <2>1, QuietKeeps DEF StartGraph, StartRunner, Stores, StoresTyped
<1>10. ASSUME NEW r \in Req, PersistNothing(r) \/ LoadView(r) PROVE OwnInv'
  <2>1. Steps(r) /\ stored' \subseteq stored
    BY <1>10, PersistMoves
  <2> QED
    BY <1>10, <2>1, QuietKeeps DEF PersistNothing, LoadView, Stores, StoresTyped
<1>11. ASSUME NEW r \in Req, PersistShared(r) PROVE OwnInv'
  <2> DEFINE x == req[r].sid
             n == Saved(WithEvents(session[x], req[r].events))
  <2>1. SavesTo(r, x, n) /\ stored' = stored \cup {x}
    BY <1>11, PersistSaves
  <2> HIDE DEF n, x
  <2>2. x \in SessionId
    BY <2>1 DEF SavesTo
  <2>3. StoresTyped
    BY <1>11, <2>1, <2>2 DEF PersistShared, StoresTyped
  <2> QED
    BY <2>1, <2>3, SaveKeeps
<1>12. ASSUME NEW r \in Req, SaveView(r) PROVE OwnInv'
  <2>1. StoresTyped
    BY <1>12, ViewSaves DEF SaveView, StoresTyped
  <2> QED
    BY <1>12, <2>1, ViewSaves, SaveKeeps, QuietKeeps
<1>13. ASSUME NEW r \in Req, CommitShared(r) \/ CommitCopy(r) PROVE OwnInv'
  <2> DEFINE x == req[r].sid
             n == Saved(WithMessages(Held(r), Exchange(r)))
  <2>1. /\ \/ /\ SavesTo(r, x, n) /\ answers' = [answers EXCEPT ![x] = Append(answers[x], r)]
           \/ Steps(r) /\ UNCHANGED <<session, answers>>
        /\ stored' \subseteq stored \cup {x}
    BY <1>13, CommitSaves
  <2>2. UNCHANGED <<config, now, window, entries, faults>> /\ req[r].pc = "commit"
    BY <1>13 DEF CommitShared, CommitCopy
  <2>3. x \in SessionId
    BY <2>2, HeldIsOwn DEF Uses, Running
  <2> HIDE DEF n, x
  <2>4. answers' \in [SessionId -> Seq(Req)]
    <3>1. answers[x] \in Seq(Req)
      BY <2>3
    <3>2. Append(answers[x], r) \in Seq(Req)
      BY <3>1, AppendProperties
    <3> QED
      BY <2>1, <3>2
  <2>5. StoresTyped
    BY <2>1, <2>2, <2>3, <2>4 DEF StoresTyped
  <2> QED
    BY <2>1, <2>5, SaveKeeps, QuietKeeps
<1>14. ASSUME NEW r \in Req, ModelAnswers(r) \/ ModelFails(r) \/ Disappear(r) PROVE OwnInv'
  <2>1. faults' \in 0 .. MaxFaults
    BY <1>14, FaultsAssumption DEF ModelAnswers, ModelFails, Disappear, Stores
  <2> QED
    BY <1>14, <2>1, ModelMoves, QuietKeeps DEF ModelAnswers, ModelFails, Disappear, Stores, StoresTyped
<1> QED
  BY <1>1, <1>2, <1>3, <1>4, <1>5, <1>6, <1>7, <1>8, <1>9, <1>10, <1>11, <1>12, <1>13, <1>14 DEF Next

\* Whatever the stores and the requests hold, sessions, copies, views, events and
\* entries, was said by or for the caller it belongs to, and is within its bounds.
THEOREM OwnInvariant == Spec => []OwnInv
<1>1. Init => OwnInv
  BY OwnStarts
<1>2. OwnInv /\ [Next]_vars => OwnInv'
  BY OwnKept
<1> QED
  BY <1>1, <1>2, PTL DEF Spec

\* The stores and the requests keep their types, and the lists of messages
\* their bounds.
THEOREM TypeCorrect == Spec => []TypeOK
<1>1. OwnInv => TypeOK
  BY DEF OwnInv
<1> QED
  BY <1>1, OwnInvariant, PTL

\* What reaches the model of a request, history, events and memory, comes from
\* requests of its caller, in every set-up and whoever shares the stores.
THEOREM ContextStaysOwn == Spec => []ContextIsOwn
<1>1. OwnInv => ContextIsOwn
  <2> SUFFICES ASSUME OwnInv, NEW r \in Req
               PROVE  /\ \A i \in DOMAIN req[r].seen : req[req[r].seen[i][1]].user = req[r].user
                      /\ \A e \in req[r].recalled : e.user = req[r].user
    BY DEF ContextIsOwn
  <2>1. req[r].seen \in Seq(Own(req[r].user)) /\ \A e \in req[r].recalled : e.user = req[r].user
    BY RequestTyped DEF RequestOK, OwnOK
  <2>2. \A i \in DOMAIN req[r].seen : req[r].seen[i] \in Own(req[r].user)
    BY <2>1
  <2> QED
    BY <2>1, <2>2 DEF Own
<1> QED
  BY <1>1, OwnInvariant, PTL

-----------------------------------------------------------------------------
\* Sequences that grow

\* The oldest elements can be dropped before or after others are added.
LEMMA NewestGrows ==
  ASSUME NEW S, NEW q \in Seq(S), NEW e \in Seq(S), NEW n \in Nat \ {0}
  PROVE  Newest(Newest(q, n) \o e, n) = Newest(q \o e, n)
<1> DEFINE m == Newest(q, n)
           a == m \o e
           b == q \o e
           x == Newest(a, n)
           y == Newest(b, n)
<1>1. Len(q) \in Nat /\ Len(e) \in Nat
  BY LenProperties
<1>2. CASE Len(q) <= n
  BY <1>2 DEF Newest
<1>3. CASE ~(Len(q) <= n)
  <2>1. /\ m \in Seq(S) /\ Len(m) = n
        /\ \A i \in 1 .. n : m[i] = q[Len(q) - n + i]
    BY <1>3, NewestOf
  <2> HIDE DEF m
  <2>2. /\ a \in Seq(S) /\ Len(a) = n + Len(e)
        /\ \A i \in 1 .. n + Len(e) : a[i] = IF i <= n THEN m[i] ELSE e[i - n]
    BY <2>1, ConcatProperties
  <2>3. /\ b \in Seq(S) /\ Len(b) = Len(q) + Len(e)
        /\ \A i \in 1 .. Len(q) + Len(e) : b[i] = IF i <= Len(q) THEN q[i] ELSE e[i - Len(q)]
    BY ConcatProperties
  <2> HIDE DEF a, b
  <2>4. /\ x \in Seq(S) /\ Len(x) = n /\ \A i \in 1 .. n : x[i] = a[Len(e) + i]
    <3>0. /\ x \in Seq(S) /\ Len(x) = IF Len(a) <= n THEN Len(a) ELSE n
          /\ \A i \in 1 .. Len(x) : x[i] = a[Len(a) - Len(x) + i]
      <4>1. a \in Seq(S)
        BY <2>2
      <4> QED
        BY <4>1, NewestOf
    <3> HIDE DEF x
    <3>1. Len(x) = n
      BY <1>1, <1>3, <2>2, <3>0
    <3>2. x \in Seq(S) /\ \A i \in 1 .. n : x[i] = a[Len(a) - n + i]
      BY <3>0, <3>1
    <3>3. Len(a) - n = Len(e)
      BY <1>1, <2>2
    <3> QED
      BY <3>1, <3>2, <3>3
  <2>5. /\ y \in Seq(S) /\ Len(y) = n /\ \A i \in 1 .. n : y[i] = b[Len(q) - n + Len(e) + i]
    <3>0. /\ y \in Seq(S) /\ Len(y) = IF Len(b) <= n THEN Len(b) ELSE n
          /\ \A i \in 1 .. Len(y) : y[i] = b[Len(b) - Len(y) + i]
      BY <2>3, NewestOf
    <3> HIDE DEF y
    <3>1. Len(y) = n
      BY <1>1, <1>3, <2>3, <3>0
    <3>2. y \in Seq(S) /\ \A i \in 1 .. n : y[i] = b[Len(b) - n + i]
      BY <3>0, <3>1
    <3>3. Len(b) - n = Len(q) - n + Len(e)
      BY <1>1, <2>3
    <3> QED
      BY <3>1, <3>2, <3>3
  <2> HIDE DEF x, y
  <2>6. \A i \in 1 .. n : x[i] = y[i]
    <3> SUFFICES ASSUME NEW i \in 1 .. n PROVE x[i] = y[i]
      OBVIOUS
    <3>1. x[i] = a[Len(e) + i] /\ y[i] = b[Len(q) - n + Len(e) + i]
      BY <2>4, <2>5
    <3>2. CASE Len(e) + i <= n
      <4>1. a[Len(e) + i] = q[Len(q) - n + (Len(e) + i)]
        BY <1>1, <2>1, <2>2, <3>2
      <4>2. b[Len(q) - n + Len(e) + i] = q[Len(q) - n + Len(e) + i]
        BY <1>1, <1>3, <2>3, <3>2
      <4>3. Len(q) - n + (Len(e) + i) = Len(q) - n + Len(e) + i
        BY <1>1
      <4> QED
        BY <3>1, <4>1, <4>2, <4>3
    <3>3. CASE ~(Len(e) + i <= n)
      <4>1. a[Len(e) + i] = e[Len(e) + i - n]
        BY <1>1, <2>2, <3>3
      <4>2. b[Len(q) - n + Len(e) + i] = e[Len(q) - n + Len(e) + i - Len(q)]
        <5>1. Len(q) - n + Len(e) + i \in 1 .. Len(q) + Len(e) /\ ~(Len(q) - n + Len(e) + i <= Len(q))
          BY <1>1, <1>3, <3>3
        <5> QED
          BY <2>3, <5>1
      <4>3. Len(q) - n + Len(e) + i - Len(q) = Len(e) + i - n
        BY <1>1
      <4> QED
        BY <3>1, <4>1, <4>2, <4>3
    <3> QED
      BY <3>2, <3>3
  <2>7. x = y
    BY <2>4, <2>5, <2>6, SeqEqual
  <2> QED
    BY <2>7 DEF x, y, a, b, m
<1> QED
  BY <1>2, <1>3

LEMMA SaidIs ==
  ASSUME NEW q \in Seq(Req)
  PROVE  /\ Said(q) \in Seq(Message) /\ Len(Said(q)) = 2 * Len(q)
         /\ \A i \in 1 .. 2 * Len(q) :
              Said(q)[i] = IF i % 2 = 1 THEN Asked(q[(i + 1) \div 2]) ELSE Answered(q[i \div 2])
<1> DEFINE n == 2 * Len(q)
           e(i) == IF i % 2 = 1 THEN Asked(q[(i + 1) \div 2]) ELSE Answered(q[i \div 2])
<1>1. Len(q) \in Nat /\ n \in Nat
  BY LenProperties
<1>2. ASSUME NEW i \in 1 .. n PROVE e(i) \in Message
  <2>1. i % 2 = 1 => (i + 1) \div 2 \in 1 .. Len(q)
    BY <1>1
  <2>2. i % 2 # 1 => i \div 2 \in 1 .. Len(q)
    BY <1>1
  <2>3. \A j \in 1 .. Len(q) : Asked(q[j]) \in Message /\ Answered(q[j]) \in Message
    BY ElementOfSeq, MessageAssumption DEF Asked, Answered
  <2> QED
    BY <2>1, <2>2, <2>3
<1> HIDE DEF n
<1>3. Said(q) = [i \in 1 .. n |-> e(i)]
  BY DEF Said, n
<1> HIDE DEF e
<1>4. Said(q) \in Seq(Message) /\ Len(Said(q)) = n /\ \A i \in 1 .. n : Said(q)[i] = e(i)
  BY <1>1, <1>2, <1>3
<1> QED
  BY <1>4 DEF e, n

LEMMA SaidGrows ==
  ASSUME NEW q \in Seq(Req), NEW r \in Req
  PROVE  Said(Append(q, r)) = Said(q) \o Exchange(r)
<1> DEFINE a == Append(q, r)
           n == Len(q)
           s == Said(q)
           t == Said(a)
           e == Exchange(r)
           b == s \o e
<1>1. n \in Nat
  BY LenProperties
<1>2. /\ a \in Seq(Req) /\ Len(a) = n + 1 /\ a[n + 1] = r
      /\ \A i \in 1 .. n : a[i] = q[i]
  BY AppendProperties
<1> HIDE DEF a
<1>3. /\ s \in Seq(Message) /\ Len(s) = 2 * n
      /\ \A i \in 1 .. 2 * n :
           s[i] = IF i % 2 = 1 THEN Asked(q[(i + 1) \div 2]) ELSE Answered(q[i \div 2])
  BY SaidIs
<1>4. /\ t \in Seq(Message) /\ Len(t) = 2 * (n + 1)
      /\ \A i \in 1 .. 2 * (n + 1) :
           t[i] = IF i % 2 = 1 THEN Asked(a[(i + 1) \div 2]) ELSE Answered(a[i \div 2])
  BY <1>2, SaidIs
<1>5. e \in Seq(Message) /\ Len(e) = 2 /\ e[1] = Asked(r) /\ e[2] = Answered(r)
  BY MessageAssumption DEF Exchange, Asked, Answered
<1> HIDE DEF s, t, e
<1>6. /\ b \in Seq(Message) /\ Len(b) = 2 * n + 2
      /\ \A i \in 1 .. 2 * n + 2 : b[i] = IF i <= 2 * n THEN s[i] ELSE e[i - 2 * n]
  <2>1. /\ b \in Seq(Message) /\ Len(b) = Len(s) + Len(e)
        /\ \A i \in 1 .. Len(s) + Len(e) : b[i] = IF i <= Len(s) THEN s[i] ELSE e[i - Len(s)]
    BY <1>3, <1>5, ConcatProperties
  <2> QED
    BY <1>3, <1>5, <2>1
<1> HIDE DEF b, n
<1>7. \A i \in 1 .. 2 * (n + 1) : t[i] = b[i]
  <2> SUFFICES ASSUME NEW i \in 1 .. 2 * (n + 1) PROVE t[i] = b[i]
    OBVIOUS
  <2>1. CASE i <= 2 * n
    <3>1. i % 2 = 1 => a[(i + 1) \div 2] = q[(i + 1) \div 2]
      BY <1>1, <1>2, <2>1
    <3>2. i % 2 # 1 => a[i \div 2] = q[i \div 2]
      BY <1>1, <1>2, <2>1
    <3>3. t[i] = s[i]
      BY <1>1, <1>3, <1>4, <2>1, <3>1, <3>2
    <3> QED
      BY <1>1, <1>6, <2>1, <3>3
  <2>2. CASE i = 2 * n + 1
    <3>1. i % 2 = 1 /\ (i + 1) \div 2 = n + 1 /\ i - 2 * n = 1 /\ ~(i <= 2 * n)
      BY <1>1, <2>2
    <3>2. t[i] = Asked(r)
      BY <1>2, <1>4, <3>1
    <3>3. b[i] = e[1]
      BY <1>1, <1>6, <3>1
    <3> QED
      BY <1>5, <3>2, <3>3
  <2>3. CASE i = 2 * n + 2
    <3>1. i % 2 # 1 /\ i \div 2 = n + 1 /\ i - 2 * n = 2 /\ ~(i <= 2 * n)
      BY <1>1, <2>3
    <3>2. t[i] = Answered(r)
      BY <1>2, <1>4, <3>1
    <3>3. b[i] = e[2]
      BY <1>1, <1>6, <3>1
    <3> QED
      BY <1>5, <3>2, <3>3
  <2> QED
    BY <1>1, <2>1, <2>2, <2>3
<1>8. t = b
  <2>1. Len(t) = Len(b)
    BY <1>1, <1>4, <1>6
  <2> QED
    BY <1>4, <1>6, <1>7, <2>1, SeqEqual
<1> QED
  BY <1>8 DEF t, b, s, e, a, n

\* What a sequence began with, it still begins with after it has grown.
LEMMA Prefixes ==
  ASSUME NEW S, NEW q \in Seq(S), NEW e \in S
  PROVE  /\ SubSeq(q, 1, Len(q)) = q
         /\ \A k \in 0 .. Len(q) : SubSeq(Append(q, e), 1, k) = SubSeq(q, 1, k)
<1> DEFINE n == Len(q)
           a == Append(q, e)
<1>1. n \in Nat /\ \A i \in 1 .. n : q[i] \in S
  BY LenProperties, ElementOfSeq
<1>2. /\ a \in Seq(S) /\ Len(a) = n + 1 /\ \A i \in 1 .. n : a[i] = q[i]
  BY AppendProperties
<1> HIDE DEF a, n
<1>3. ASSUME NEW k \in 0 .. n
      PROVE  /\ SubSeq(q, 1, k) \in Seq(S) /\ Len(SubSeq(q, 1, k)) = k
             /\ \A i \in 1 .. k : SubSeq(q, 1, k)[i] = q[i]
             /\ SubSeq(a, 1, k) = SubSeq(q, 1, k)
  <2> DEFINE x == SubSeq(q, 1, k)
             y == SubSeq(a, 1, k)
  <2>1. 1 \in Int /\ k \in Int /\ k - 1 + 1 = k /\ (IF 1 <= k THEN k - 1 + 1 ELSE 0) = k
        /\ \A i \in 1 .. k : 1 + i - 1 = i /\ i \in 1 .. n
    BY <1>1
  <2>2. (\A i \in 1 .. k : q[i] \in S) /\ (\A i \in 1 .. k : a[i] \in S)
    BY <1>1, <1>2, <2>1
  <2>3. x \in Seq(S) /\ Len(x) = k /\ \A i \in 1 .. k - 1 + 1 : x[i] = q[1 + i - 1]
    BY <2>1, <2>2, SubSeqProperties
  <2>4. y \in Seq(S) /\ Len(y) = k /\ \A i \in 1 .. k - 1 + 1 : y[i] = a[1 + i - 1]
    BY <2>1, <2>2, SubSeqProperties
  <2> HIDE DEF x, y
  <2>5. \A i \in 1 .. k : x[i] = q[i] /\ y[i] = x[i]
    BY <1>2, <2>1, <2>3, <2>4
  <2>6. y = x
    BY <2>3, <2>4, <2>5, SeqEqual
  <2> QED
    BY <2>3, <2>5, <2>6 DEF x, y
<1>4. SubSeq(q, 1, n) = q
  <2>1. n \in 0 .. n
    BY <1>1
  <2>2. SubSeq(q, 1, n) \in Seq(S) /\ Len(SubSeq(q, 1, n)) = Len(q) /\ \A i \in 1 .. n : SubSeq(q, 1, n)[i] = q[i]
    BY <1>3, <2>1 DEF n
  <2> QED
    BY <2>2, SeqEqual DEF n
<1> QED
  BY <1>3, <1>4 DEF a, n

-----------------------------------------------------------------------------
\* A session's history is what was answered

\* What a step of r may do to the session y.
Saves(y) == /\ session'[y].history = session[y].history /\ answers'[y] = answers[y]
            /\ session'[y].revision \in {session[y].revision, session[y].revision + 1}
Adds(r, y) == /\ req'[r].sid = y /\ req'[r].pc = "answered"
              /\ answers'[y] = Append(answers[y], r)
              /\ session'[y].history = Newest(session[y].history \o Exchange(r), MaxHistory)
              /\ session'[y].revision = session[y].revision + 1
Opens(y) == /\ \A q \in Req : req[q].sid # y
            /\ session'[y].history = <<>> /\ answers'[y] = answers[y]
Grows(r, y) == Saves(y) \/ Adds(r, y) \/ Opens(y)

LEMMA ExchangesStay ==
  ASSUME OwnInv, NEW r \in Req, NEW y \in SessionId, Grows(r, y)
  PROVE  /\ answers[y] \in Seq(Req) /\ Len(answers[y]) \in Nat
         /\ Len(answers'[y]) \in Nat /\ Len(answers[y]) <= Len(answers'[y])
         /\ \A k \in 0 .. Len(answers[y]) : Exchanges(y, k)' = Exchanges(y, k)
<1>1. answers[y] \in Seq(Req)
  BY DEF OwnInv, TypeOK
<1>2. Len(answers[y]) \in Nat
  BY <1>1, LenProperties
<1>3. CASE answers'[y] = answers[y]
  BY <1>1, <1>2, <1>3 DEF Exchanges
<1>4. CASE answers'[y] = Append(answers[y], r)
  <2>1. Len(answers'[y]) = Len(answers[y]) + 1
    BY <1>1, <1>4, AppendProperties
  <2>2. \A k \in 0 .. Len(answers[y]) : SubSeq(answers'[y], 1, k) = SubSeq(answers[y], 1, k)
    BY <1>1, <1>4, Prefixes
  <2>3. Len(answers'[y]) \in Nat /\ Len(answers[y]) <= Len(answers'[y])
    BY <1>2, <2>1
  <2>4. \A k \in 0 .. Len(answers[y]) : Exchanges(y, k)' = Exchanges(y, k)
    BY <2>2 DEF Exchanges
  <2> QED
    BY <1>1, <1>2, <2>3, <2>4
<1> QED
  BY <1>3, <1>4 DEF Grows, Saves, Adds, Opens

LEMMA SessionTyped ==
  ASSUME OwnInv, NEW y \in SessionId
  PROVE  /\ session[y] \in Session /\ session[y].revision \in Nat /\ session[y].history \in Seq(Message)
  BY DEF OwnInv, TypeOK, Session

LEMMA SameStays ==
  ASSUME OwnInv, NEW r \in Req, NEW y \in SessionId, Saves(y) \/ Adds(r, y),
         NEW d \in Session, SameHistory(d, y)
  PROVE  SameHistory(d, y)'
<1>1. d.revision \in Nat /\ session[y].revision \in Nat
  BY SessionTyped DEF Session
<1>2. d.revision <= session[y].revision
      /\ (d.revision = session[y].revision => d.history = session[y].history)
  BY DEF SameHistory
<1>3. \/ session'[y].revision = session[y].revision /\ session'[y].history = session[y].history
      \/ session'[y].revision = session[y].revision + 1
  BY DEF Saves, Adds
<1>4. d.revision <= session'[y].revision
      /\ (d.revision = session'[y].revision => d.history = session'[y].history)
  BY <1>1, <1>2, <1>3
<1> QED
  BY <1>4 DEF SameHistory

\* What the others have loaded stays good, and what they have seen.
LEMMA OthersHistory ==
  ASSUME OwnInv, HistoryInv, NEW r \in Req, NEW q \in Req, Same(q), config' = config,
         \A y \in SessionId : Grows(r, y)
  PROVE  LoadedOK(req[q])' /\ ContextOK(req[q])'
<1>1. req[q] \in Request /\ HoldsOK(req[q]) /\ PlaceOK(req[q])
  BY RequestTyped DEF RequestOK
<1>2. LoadedOK(req[q]) /\ ContextOK(req[q])
  BY DEF HistoryInv
<1>3. PICK y, c, v, b, x : /\ y = req[q].sid /\ c = req[q].copy /\ v = req[q].view
                           /\ b = req[q].before /\ x = req[q].seen
  OBVIOUS
<1>4. /\ req'[q].pc = req[q].pc /\ req'[q].then = req[q].then /\ req'[q].sid = y
      /\ req'[q].copy = c /\ req'[q].view = v /\ req'[q].seen = x /\ req'[q].before = b
  BY <1>1, <1>3 DEF Same, Request
<1>5. Uses(req[q])' = Uses(req[q]) /\ Seen(req[q])' = Seen(req[q])
  BY <1>4 DEF Uses, Seen
<1>6. Uses(req[q]) \/ req[q].pc \in {"answered", "save"} => y \in SessionId
  BY <1>1, <1>2, <1>3 DEF HoldsOK, LoadedOK, Uses, Running
<1>7. b \in Nat
  BY <1>1, <1>3 DEF Request
<1>8. ASSUME y \in SessionId
      PROVE  /\ Len(answers[y]) \in Nat /\ Len(answers'[y]) \in Nat
             /\ Len(answers[y]) <= Len(answers'[y])
             /\ \A k \in 0 .. Len(answers[y]) : Exchanges(y, k)' = Exchanges(y, k)
  BY <1>8, ExchangesStay
<1>9. y \in SessionId => Saves(y) \/ Adds(r, y)
  BY <1>3 DEF Grows, Opens
<1>10. LoadedOK(req[q])'
  <2>1. /\ Uses(req[q]) => b \in 0 .. Len(answers[y])
        /\ Uses(req[q]) /\ Durable => SameHistory(c, y) /\ c.history = Exchanges(y, b)
        /\ req[q].pc = "save" => SameHistory(v, y)
    BY <1>2, <1>3 DEF LoadedOK
  <2>2. /\ Uses(req[q]) /\ Durable => c \in Session
        /\ req[q].pc = "save" => v \in Session
    BY <1>1, <1>3 DEF HoldsOK, PlaceOK, Request
  <2>3. Uses(req[q]) => b \in 0 .. Len(answers'[y])
    BY <1>6, <1>7, <1>8, <2>1
  <2>4. Uses(req[q]) /\ Durable => SameHistory(c, y)' /\ c.history = Exchanges(y, b)'
    BY <1>6, <1>8, <1>9, <2>1, <2>2, SameStays
  <2>5. req[q].pc = "save" => SameHistory(v, y)'
    BY <1>6, <1>9, <2>1, <2>2, SameStays
  <2> DEFINE z == req'[q]
  <2>6. /\ z.pc = "answered" => z.sid \in SessionId
        /\ config'.runtime = "langgraph" => /\ z.pc \notin {"ensure", "view", "save"}
                                            /\ z.pc = "purge" => z.then = "notFound"
    BY <1>2, <1>3, <1>4 DEF LoadedOK
  <2>7. Durable' = Durable
    BY DEF Durable
  <2> QED
    BY <1>4, <1>5, <2>3, <2>4, <2>5, <2>6, <2>7 DEF LoadedOK, SameHistory, Exchanges
<1>11. ContextOK(req[q])'
  <2> SUFFICES ASSUME config.runtime = "langgraph", Seen(req[q])
               PROVE  \E k \in b .. Len(answers'[y]) : x = Exchanges(y, k)'
    BY <1>4, <1>5 DEF ContextOK, Exchanges
  <2>1. y \in SessionId
    BY <1>6 DEF Seen, Uses, Running
  <2>2. PICK k \in b .. Len(answers[y]) : x = Exchanges(y, k)
    BY <1>2, <1>3 DEF ContextOK
  <2>3. k \in 0 .. Len(answers[y]) /\ k \in b .. Len(answers'[y])
    BY <1>7, <1>8, <2>1, <2>2
  <2> QED
    BY <1>8, <2>1, <2>2, <2>3
<1> QED
  BY <1>10, <1>11

\* It suffices to look at r, and at what becomes of the sessions.
LEMMA HistoryAfter ==
  ASSUME OwnInv, HistoryInv, NEW r \in Req, req[r].pc # "answered", \A q \in Req \ {r} : Same(q),
         config' = config, \A y \in SessionId : Grows(r, y),
         LoadedOK(req[r])', ContextOK(req[r])'
  PROVE  HistoryInv'
<1>1. \A q \in Req : LoadedOK(req[q])' /\ ContextOK(req[q])'
  BY OthersHistory
<1>2. \A q \in Req \ {r} : req'[q].sid = req[q].sid /\ req'[q].pc = req[q].pc
  <2> SUFFICES ASSUME NEW q \in Req \ {r} PROVE req'[q].sid = req[q].sid /\ req'[q].pc = req[q].pc
    OBVIOUS
  <2>1. req[q] \in Request /\ Same(q)
    BY RequestTyped
  <2> QED
    BY <2>1 DEF Same, Request
<1>3. ASSUME NEW y \in SessionId
      PROVE  /\ session'[y].history = Newest(Said(answers'[y]), MaxHistory)
             /\ \A i \in DOMAIN answers'[y] :
                  req'[answers'[y][i]].sid = y /\ req'[answers'[y][i]].pc = "answered"
  <2> DEFINE a == answers[y]
  <2>1. a \in Seq(Req) /\ Len(a) \in Nat /\ DOMAIN a = 1 .. Len(a)
    BY LenProperties DEF OwnInv, TypeOK
  <2>2. session[y].history = Newest(Said(a), MaxHistory)
    BY DEF HistoryInv, AnswersAreRemembered
  <2>3. \A i \in 1 .. Len(a) : a[i] \in Req /\ req[a[i]].sid = y /\ req[a[i]].pc = "answered"
    BY <2>1, ElementOfSeq DEF HistoryInv, AnswersOK
  <2>4. \A i \in 1 .. Len(a) : req'[a[i]].sid = y /\ req'[a[i]].pc = "answered"
    BY <1>2, <2>3
  <2>5. CASE Saves(y)
    BY <2>1, <2>2, <2>4, <2>5 DEF Saves
  <2>6. CASE Adds(r, y)
    <3> DEFINE b == Append(a, r)
    <3>1. answers'[y] = b /\ session'[y].history = Newest(session[y].history \o Exchange(r), MaxHistory)
          /\ req'[r].sid = y /\ req'[r].pc = "answered"
      BY <2>6 DEF Adds
    <3>2. Said(b) = Said(a) \o Exchange(r) /\ Said(a) \in Seq(Message) /\ Exchange(r) \in Seq(Message)
      <4>1. Exchange(r) \in Seq(Message)
        BY MessageAssumption DEF Exchange, Asked, Answered
      <4> QED
        BY <2>1, <4>1, SaidGrows, SaidIs
    <3>3. session'[y].history = Newest(Said(b), MaxHistory)
      BY <2>2, <3>1, <3>2, NewestGrows, Bounds
    <3>4. /\ b \in Seq(Req) /\ Len(b) = Len(a) + 1 /\ b[Len(a) + 1] = r
          /\ \A i \in 1 .. Len(a) : b[i] = a[i]
      BY <2>1, AppendProperties
    <3> HIDE DEF b, a
    <3>5. DOMAIN b = 1 .. Len(a) + 1
      BY <3>4, LenProperties
    <3>6. \A i \in DOMAIN b : req'[b[i]].sid = y /\ req'[b[i]].pc = "answered"
      BY <2>1, <2>4, <3>1, <3>4, <3>5
    <3> QED
      BY <3>1, <3>3, <3>6
  <2>7. CASE Opens(y)
    <3>1. Len(a) = 0
      BY <2>1, <2>3, <2>7 DEF Opens
    <3>2. a = <<>>
      BY <2>1, <3>1
    <3>3. Said(a) \in Seq(Message) /\ Len(Said(a)) = 0
      BY <2>1, <3>1, SaidIs
    <3>4. Said(a) = <<>>
      BY <3>3
    <3>5. Newest(<<>>, MaxHistory) = <<>>
      BY Bounds DEF Newest
    <3> QED
      BY <2>1, <2>4, <2>7, <3>4, <3>5 DEF Opens
  <2> QED
    BY <2>5, <2>6, <2>7 DEF Grows
<1> QED
  BY <1>1, <1>3 DEF HistoryInv, AnswersAreRemembered, AnswersOK

LEMMA StepsAlone ==
  ASSUME OwnInv, NEW r \in Req, Steps(r)
  PROVE  \A q \in Req \ {r} : Same(q)
<1>1. PICK s : Follows(r, s) /\ (Become(r, s) \/ Tell(r, s))
  BY DEF Steps
<1>2. StepsTo(r, s)
  BY <1>1, StepBecomes, RequestTyped DEF Follows
<1> QED
  BY <1>2 DEF StepsTo

\* r loads nothing, and is given no history.
Plain(r) ==
    /\ req[r].pc # "answered" /\ req'[r].pc \notin {"answered", "save"}
    /\ Uses(req'[r]) => /\ Uses(req[r]) /\ req'[r].sid = req[r].sid
                        /\ req'[r].copy = req[r].copy /\ req'[r].before = req[r].before
    /\ config.runtime = "langgraph" =>
         /\ req'[r].pc \notin {"ensure", "view"} /\ (req'[r].pc = "purge" => req'[r].then = "notFound")
         /\ Seen(req'[r]) => Seen(req[r]) /\ req'[r].seen = req[r].seen

LEMMA StillHistory ==
  ASSUME OwnInv, HistoryInv, NEW r \in Req, Steps(r), req[r].pc # "answered",
         UNCHANGED <<config, session, answers>>, LoadedOK(req'[r]), ContextOK(req'[r])
  PROVE  HistoryInv'
<1>1. PICK z : z = req'[r]
  OBVIOUS
<1>2. LoadedOK(z) /\ ContextOK(z)
  BY <1>1
<1>3. LoadedOK(z)' /\ ContextOK(z)'
  BY <1>2 DEF LoadedOK, ContextOK, SameHistory, Exchanges, Seen, Uses, Durable
<1>4. LoadedOK(req[r])' /\ ContextOK(req[r])'
  BY <1>1, <1>3
<1>5. \A y \in SessionId : Grows(r, y)
  BY DEF Grows, Saves
<1> QED
  BY <1>4, <1>5, StepsAlone, HistoryAfter

LEMMA PlainHistory ==
  ASSUME OwnInv, HistoryInv, NEW r \in Req, Steps(r), Plain(r), UNCHANGED <<config, session, answers>>
  PROVE  HistoryInv'
<1>1. LoadedOK(req[r]) /\ ContextOK(req[r])
  BY DEF HistoryInv
<1>2. LoadedOK(req'[r])
  BY <1>1 DEF Plain, LoadedOK
<1>3. ContextOK(req'[r])
  BY <1>1 DEF Plain, ContextOK, Seen, Uses, Running
<1> QED
  BY <1>2, <1>3, StillHistory DEF Plain

\* What Become and Tell make of r.
LEMMA Becomes ==
  ASSUME OwnInv, NEW r \in Req, NEW s, Become(r, s) \/ Tell(r, s)
  PROVE  req'[r] = s
  BY RequestTyped DEF Become, Tell

LEMMA GoIs ==
  ASSUME OwnInv, NEW r \in Req, NEW p, Go(r, p)
  PROVE  /\ req'[r].pc = p /\ req'[r].sid = req[r].sid /\ req'[r].copy = req[r].copy
         /\ req'[r].before = req[r].before /\ req'[r].seen = req[r].seen
<1> DEFINE s == [req[r] EXCEPT !.pc = p]
<1>1. req[r] \in Request
  BY RequestTyped
<1>2. /\ s.pc = p /\ s.sid = req[r].sid /\ s.copy = req[r].copy
      /\ s.before = req[r].before /\ s.seen = req[r].seen
  BY <1>1 DEF Request
<1>3. Become(r, s)
  BY DEF Go, Become
<1>4. req'[r] = s
  BY <1>3, Becomes
<1> HIDE DEF s
<1> QED
  BY <1>2, <1>4

LEMMA PlainMoves ==
  ASSUME OwnInv, HistoryInv, NEW r \in Req,
         \/ Receive(r) \/ Remember(r) \/ LimitLocally(r) \/ ReadClock(r) \/ Consume(r)
         \/ Recall(r) \/ Search(r) \/ Store(r) \/ Enforce(r)
  PROVE  Plain(r)
<1>1. req[r] \in Request
  BY RequestTyped
<1>2. \A p : Go(r, p) => /\ req'[r].pc = p /\ req'[r].sid = req[r].sid
                         /\ req'[r].copy = req[r].copy /\ req'[r].before = req[r].before
  BY GoIs
<1>3. CASE Receive(r) \/ Recall(r) \/ Store(r) \/ Enforce(r)
  BY <1>2, <1>3 DEF Receive, Recall, Store, Enforce, Plain, Uses, Running, Seen
<1>4. CASE Remember(r)
  <2> DEFINE n == Cardinality({q \in Req : req[q].kind = "remember" /\ req[q].pc # "new"})
             s == [req[r] EXCEPT !.pc = "store", !.at = now, !.before = n]
  <2>1. Become(r, s) /\ req[r].pc = "new"
    BY <1>4 DEF Remember
  <2> HIDE DEF n
  <2>2. s.pc = "store"
    BY <1>1 DEF Request
  <2>3. req'[r] = s
    BY <2>1, Becomes
  <2> HIDE DEF s
  <2> QED
    BY <2>1, <2>2, <2>3 DEF Plain, Uses, Running, Seen
<1>5. CASE ReadClock(r)
  <2>1. req'[r].pc = "consume"
    BY <1>1, <1>5, Becomes DEF ReadClock, Request
  <2> QED
    BY <1>5, <2>1 DEF ReadClock, Plain, Uses, Running, Seen
<1>6. ASSUME NEW w, Decide(r, w), req[r].pc \in {"limit", "consume"} PROVE Plain(r)
  <2> DEFINE p == IF Admits(w) THEN "resolve" ELSE "limited"
             s == [req[r] EXCEPT !.pc = p, !.at = 0, !.admitted = Admits(w), !.window = w.id]
  <2>1. Become(r, s)
    BY <1>6 DEF Decide
  <2>2. p \in {"resolve", "limited"}
    OBVIOUS
  <2> HIDE DEF p
  <2>3. req'[r].pc = p
    BY <1>1, <2>1, Becomes DEF Request
  <2> QED
    BY <1>6, <2>2, <2>3 DEF Plain, Uses, Running, Seen
<1>7. CASE LimitLocally(r) \/ Consume(r)
  BY <1>6, <1>7 DEF LimitLocally, Consume
<1>8. CASE Search(r)
  <2> DEFINE m == Of(entries, req[r].user)
             s == [req[r] EXCEPT !.recalled = m, !.pc = "start"]
  <2>1. Become(r, s) /\ req[r].pc = "search"
    BY <1>8 DEF Search
  <2> HIDE DEF m
  <2>2. s.pc = "start" /\ s.sid = req[r].sid /\ s.copy = req[r].copy /\ s.before = req[r].before
    BY <1>1 DEF Request
  <2>3. req'[r] = s
    BY <2>1, Becomes
  <2> HIDE DEF s
  <2> QED
    BY <2>1, <2>2, <2>3 DEF Plain, Uses, Running, Seen
<1> QED
  BY <1>3, <1>4, <1>5, <1>7, <1>8

\* r ends, or goes on to rq after its session has been looked up in vain.
LEMMA EndedIs ==
  ASSUME OwnInv, NEW r \in Req, NEW p
  PROVE  Ended(r, p).pc = p
  BY RequestTyped DEF Ended, Request

LEMMA PlainEnd ==
  ASSUME OwnInv, NEW r \in Req, NEW p \in Done \ {"answered"}, Become(r, Ended(r, p)),
         req[r].pc # "answered"
  PROVE  Plain(r)
<1>1. req'[r].pc = p
  BY Becomes, EndedIs
<1> QED
  BY <1>1 DEF Plain, Uses, Running, Seen, Done

LEMMA PlainLookup ==
  ASSUME OwnInv, NEW r \in Req, NEW p \in {"notFound", "failed"}, NotFoundThen(r, Ended(r, p)),
         req[r].pc # "answered", config.runtime = "langgraph" => p = "notFound"
  PROVE  Plain(r)
<1>1. Ended(r, p).pc = p
  BY EndedIs
<1>2. CASE Tell(r, Ended(r, p))
  BY <1>1, <1>2, Becomes DEF Plain, Uses, Running, Seen
<1>3. CASE Become(r, [Ended(r, p) EXCEPT !.pc = "purge", !.then = Ended(r, p).pc])
  <2> DEFINE s == [Ended(r, p) EXCEPT !.pc = "purge", !.then = p]
  <2>1. s.pc = "purge" /\ s.then = p
    BY RequestTyped DEF Ended, Request
  <2>2. req'[r] = s
    BY <1>1, <1>3, Becomes
  <2> HIDE DEF s
  <2> QED
    BY <2>1, <2>2 DEF Plain, Uses, Running, Seen
<1> QED
  BY <1>2, <1>3 DEF NotFoundThen

LEMMA PlainEnds ==
  ASSUME OwnInv, HistoryInv, NEW r \in Req,
         \/ NotFound(r) \/ Purge(r) \/ Denied(r) \/ Ensure(r) \/ StartRunner(r)
         \/ PersistNothing(r) \/ ModelAnswers(r) \/ ModelFails(r) \/ Disappear(r)
  PROVE  Plain(r)
<1>1. req[r] \in Request /\ PlaceOK(req[r]) /\ LoadedOK(req[r])
  BY RequestTyped DEF RequestOK, HistoryInv
<1>2. \A p : Go(r, p) => /\ req'[r].pc = p /\ req'[r].sid = req[r].sid
                         /\ req'[r].copy = req[r].copy /\ req'[r].before = req[r].before
                         /\ req'[r].seen = req[r].seen
  BY GoIs
<1>3. CASE NotFound(r)
  BY <1>3, PlainLookup DEF NotFound
<1>4. CASE Purge(r)
  <2> DEFINE s == [req[r] EXCEPT !.pc = req[r].then, !.then = "limited"]
  <2>1. req[r].pc = "purge" /\ Tell(r, s)
    BY <1>4 DEF Purge
  <2>2. /\ s.pc = req[r].then /\ s.sid = req[r].sid /\ s.copy = req[r].copy
        /\ s.before = req[r].before
    BY <1>1 DEF Request
  <2>3. req'[r] = s
    BY <2>1, Becomes
  <2> HIDE DEF s
  <2> QED
    BY <1>1, <2>1, <2>2, <2>3 DEF PlaceOK, LoadedOK, Plain, Uses, Running, Seen
<1>5. CASE Denied(r)
  BY <1>5, PlainEnd DEF Denied, Done
<1>6. CASE Ensure(r)
  <2>1. config.runtime # "langgraph" /\ req[r].pc = "ensure"
    BY <1>1, <1>6 DEF Ensure, LoadedOK
  <2>2. CASE Found(req[r].sid)
    <3>1. Go(r, AfterEnsure) /\ AfterEnsure \in {"start", "recall"}
      BY <1>6, <2>2 DEF Ensure, AfterEnsure
    <3> QED
      BY <1>2, <2>1, <3>1 DEF Plain, Uses, Running
  <2>3. CASE ~Found(req[r].sid)
    BY <1>6, <2>1, <2>3, PlainLookup DEF Ensure
  <2> QED
    BY <2>2, <2>3
<1>7. CASE StartRunner(r)
  <2>1. config.runtime # "langgraph" /\ req[r].pc = "start"
    BY <1>7 DEF StartRunner
  <2>2. CASE Found(req[r].sid)
    <3> DEFINE h == Append(session[req[r].sid].events, Asked(r))
               s == [req[r] EXCEPT !.events = h, !.seen = h, !.pc = "view"]
    <3>1. Become(r, s)
      BY <1>7, <2>2 DEF StartRunner
    <3> HIDE DEF h
    <3>2. s.pc = "view" /\ s.sid = req[r].sid /\ s.copy = req[r].copy /\ s.before = req[r].before
      BY <1>1 DEF Request
    <3>3. req'[r] = s
      BY <3>1, Becomes
    <3> HIDE DEF s
    <3> QED
      BY <2>1, <3>2, <3>3 DEF Plain, Uses, Running
  <2>3. CASE ~Found(req[r].sid)
    BY <1>7, <2>1, <2>3, PlainLookup DEF StartRunner
  <2> QED
    BY <2>2, <2>3
<1>8. CASE PersistNothing(r)
  <2> DEFINE p == AfterEvent(r)
             s == [req[r] EXCEPT !.pc = p, !.mixed = TRUE]
  <2>1. p \in {"commit", "model"}
    BY AfterEventIs
  <2>2. NotFoundThen(r, s) /\ req[r].pc = "view" /\ config.runtime # "langgraph"
    BY <1>1, <1>8 DEF PersistNothing, LoadedOK
  <2> HIDE DEF p
  <2>3. /\ s.pc = p /\ s.sid = req[r].sid /\ s.copy = req[r].copy /\ s.before = req[r].before
    BY <1>1 DEF Request
  <2> DEFINE t == [s EXCEPT !.pc = "purge", !.then = s.pc]
  <2>4. t.pc = "purge" /\ t.sid = req[r].sid /\ t.copy = req[r].copy /\ t.before = req[r].before
    BY <1>1 DEF Request
  <2>5. req'[r] = s \/ req'[r] = t
    BY <2>2, Becomes DEF NotFoundThen
  <2> HIDE DEF s, t
  <2> QED
    BY <2>1, <2>2, <2>3, <2>4, <2>5 DEF Plain, Uses, Running
<1>9. CASE ModelAnswers(r)
  <2>1. CASE config.runtime = "adk"
    <3> DEFINE h == Append(req[r].events, Answered(r))
               s == [req[r] EXCEPT !.events = h, !.pc = "view"]
    <3>1. Become(r, s) /\ req[r].pc = "model"
      BY <1>9, <2>1 DEF ModelAnswers, Become
    <3> HIDE DEF h
    <3>2. s.pc = "view" /\ s.sid = req[r].sid /\ s.copy = req[r].copy /\ s.before = req[r].before
      BY <1>1 DEF Request
    <3>3. req'[r] = s
      BY <3>1, Becomes
    <3> HIDE DEF s
    <3> QED
      BY <2>1, <3>1, <3>2, <3>3 DEF Plain, Uses, Running
  <2>2. CASE config.runtime # "adk"
    BY <1>2, <1>9, <2>2 DEF ModelAnswers, Plain, Uses, Running, Seen
  <2> QED
    BY <2>1, <2>2
<1>10. CASE ModelFails(r)
  BY <1>10, PlainEnd DEF ModelFails, Done
<1>11. CASE Disappear(r)
  BY <1>11, PlainEnd DEF Disappear, Active, Done
<1> QED
  BY <1>3, <1>4, <1>5, <1>6, <1>7, <1>8, <1>9, <1>10, <1>11

\* The exchanges of all answered requests are the history.
LEMMA FullHistory ==
  ASSUME OwnInv, HistoryInv, NEW x \in SessionId
  PROVE  /\ Len(answers[x]) \in Nat /\ answers[x] \in Seq(Req)
         /\ Exchanges(x, Len(answers[x])) = session[x].history
<1>1. answers[x] \in Seq(Req)
  BY DEF OwnInv, TypeOK
<1>2. Len(answers[x]) \in Nat /\ SubSeq(answers[x], 1, Len(answers[x])) = answers[x]
  <2>1. CASE Req = {}
    <3>1. Len(answers[x]) \in Nat
      BY <1>1, LenProperties
    <3>2. Len(answers[x]) = 0
      BY <1>1, <2>1, <3>1, ElementOfSeq
    <3> QED
      BY <1>1, <3>1, <3>2
  <2>2. CASE \E r : r \in Req
    BY <1>1, <2>2, LenProperties, Prefixes
  <2> QED
    BY <2>1, <2>2
<1>3. session[x].history = Newest(Said(answers[x]), MaxHistory)
  BY DEF HistoryInv, AnswersAreRemembered
<1> QED
  BY <1>1, <1>2, <1>3 DEF Exchanges

LEMMA ResolveHistory ==
  ASSUME OwnInv, HistoryInv, NEW r \in Req, Resolve(r)
  PROVE  HistoryInv'
<1>0. req[r] \in Request
  BY RequestTyped
<1> DEFINE x == req[r].sid
           c == IF Durable THEN session[x] ELSE NoCopy
           n == Len(answers[x])
           p == AfterResolve
           s == [req[r] EXCEPT !.copy = c, !.before = n, !.mixed = FALSE, !.pc = p]
<1>1. req[r].pc = "resolve" /\ x \in SessionId /\ Become(r, s) /\ UNCHANGED Stores
  BY <1>0 DEF Resolve, Request
<1>2. p \in {"ensure", "start", "recall"} /\ (config.runtime = "langgraph" => p # "ensure")
  BY DEF AfterResolve
<1>3. /\ n \in 0 .. n /\ (Durable => SameHistory(c, x) /\ c.history = Exchanges(x, n))
  <2>1. n \in Nat /\ Exchanges(x, n) = session[x].history /\ session[x].revision \in Nat
    BY <1>1, FullHistory, SessionTyped
  <2> QED
    BY <2>1 DEF SameHistory
<1> HIDE DEF c, n, p
<1>4. /\ s.pc = p /\ s.sid = x /\ s.copy = c /\ s.before = n
  BY <1>0 DEF Request
<1>5. req'[r] = s
  BY <1>1, Becomes
<1> HIDE DEF s
<1>6. LoadedOK(req'[r])
  BY <1>2, <1>3, <1>4, <1>5 DEF LoadedOK, n
<1>7. ContextOK(req'[r])
  BY <1>2, <1>4, <1>5 DEF ContextOK, Seen
<1> QED
  BY <1>1, <1>6, <1>7, ResolveMoves, StillHistory DEF Stores

\* A LangGraph model is given the history of the session that the request holds.
LEMMA StartHistory ==
  ASSUME OwnInv, HistoryInv, NEW r \in Req, StartGraph(r)
  PROVE  HistoryInv'
<1>0. req[r] \in Request /\ Uses(req[r]) /\ LoadedOK(req[r])
  BY RequestTyped DEF HistoryInv, StartGraph, Uses, Running
<1> DEFINE x == req[r].sid
           h == Held(r).history
           s == [req[r] EXCEPT !.seen = h, !.pc = "model"]
<1>1. req[r].pc = "start" /\ x \in SessionId /\ Become(r, s) /\ UNCHANGED Stores
  BY <1>0, HeldIsOwn DEF StartGraph
<1>2. \E k \in req[r].before .. Len(answers[x]) : h = Exchanges(x, k)
  <2>1. req[r].before \in 0 .. Len(answers[x]) /\ Len(answers[x]) \in Nat
    BY <1>0, <1>1, FullHistory DEF LoadedOK
  <2>2. CASE Durable
    <3>1. h = Exchanges(x, req[r].before)
      BY <1>0, <2>2 DEF LoadedOK, Held
    <3> QED
      BY <2>1, <3>1
  <2>3. CASE ~Durable
    <3>1. h = Exchanges(x, Len(answers[x]))
      BY <1>1, <2>3, FullHistory DEF Held
    <3> QED
      BY <2>1, <3>1
  <2> QED
    BY <2>2, <2>3
<1> HIDE DEF h
<1>3. /\ s.pc = "model" /\ s.sid = x /\ s.copy = req[r].copy /\ s.before = req[r].before
      /\ s.seen = h
  BY <1>0 DEF Request
<1>4. req'[r] = s
  BY <1>1, Becomes
<1> HIDE DEF s
<1>5. LoadedOK(req'[r])
  BY <1>0, <1>3, <1>4 DEF LoadedOK, Uses, Running
<1>6. ContextOK(req'[r])
  BY <1>2, <1>3, <1>4 DEF ContextOK
<1> QED
  BY <1>1, <1>5, <1>6, StartMoves, StillHistory DEF Stores

LEMMA ViewHistory ==
  ASSUME OwnInv, HistoryInv, NEW r \in Req, LoadView(r)
  PROVE  HistoryInv'
<1>0. req[r] \in Request /\ Uses(req[r]) /\ LoadedOK(req[r])
  BY RequestTyped DEF HistoryInv, LoadView, Uses, Running
<1> DEFINE x == req[r].sid
           v == WithEvents(session[x], req[r].events)
           s == [req[r] EXCEPT !.view = v, !.pc = "save"]
<1>1. req[r].pc = "view" /\ x \in SessionId /\ Become(r, s) /\ UNCHANGED Stores
  BY <1>0, HeldIsOwn DEF LoadView
<1>2. v.revision = session[x].revision /\ v.history = session[x].history
      /\ session[x].revision \in Nat
  BY <1>1, SessionTyped DEF WithEvents, Session
<1>3. SameHistory(v, x)
  BY <1>2 DEF SameHistory
<1> HIDE DEF v
<1>4. /\ s.pc = "save" /\ s.sid = x /\ s.copy = req[r].copy /\ s.before = req[r].before
      /\ s.view = v
  BY <1>0 DEF Request
<1>5. req'[r] = s
  BY <1>1, Becomes
<1> HIDE DEF s
<1>6. LoadedOK(req'[r])
  BY <1>0, <1>1, <1>3, <1>4, <1>5 DEF LoadedOK, Uses, Running
<1>7. ContextOK(req'[r])
  BY <1>4, <1>5 DEF ContextOK, Seen
<1> QED
  BY <1>1, <1>6, <1>7, PersistMoves, StillHistory DEF Stores

\* A save of session x; nothing happens to the others.
LEMMA SaveHistory ==
  ASSUME OwnInv, HistoryInv, NEW r \in Req, req[r].pc # "answered", UNCHANGED config,
         NEW x, NEW n, SavesTo(r, x, n), n.revision = session[x].revision + 1,
         \/ answers' = answers /\ n.history = session[x].history
         \/ /\ req'[r].sid = x /\ req'[r].pc = "answered"
            /\ answers' = [answers EXCEPT ![x] = Append(answers[x], r)]
            /\ n.history = Newest(session[x].history \o Exchange(r), MaxHistory),
         LoadedOK(req[r])', ContextOK(req[r])'
  PROVE  HistoryInv'
<1>1. session \in [SessionId -> Session] /\ answers \in [SessionId -> Seq(Req)] /\ x \in SessionId
      /\ session' = [session EXCEPT ![x] = n] /\ Steps(r)
  BY DEF OwnInv, TypeOK, SavesTo
<1>2. ASSUME NEW y \in SessionId, y # x PROVE Grows(r, y)
  BY <1>1, <1>2 DEF Grows, Saves
<1>3. Grows(r, x)
  BY <1>1 DEF Grows, Saves, Adds
<1> QED
  BY <1>1, <1>2, <1>3, StepsAlone, HistoryAfter

LEMMA SavedIs ==
  ASSUME NEW c \in Session
  PROVE  /\ Saved(c).history = c.history /\ Saved(c).revision = c.revision + 1
         /\ \A es : WithEvents(c, es).history = c.history /\ WithEvents(c, es).revision = c.revision
         /\ \A ms : /\ WithMessages(c, ms).history = Newest(c.history \o ms, MaxHistory)
                    /\ WithMessages(c, ms).revision = c.revision
<1>1. Saved(c).history = c.history /\ Saved(c).revision = c.revision + 1
  BY DEF Saved, Session
<1>2. \A es : WithEvents(c, es).history = c.history /\ WithEvents(c, es).revision = c.revision
  BY DEF WithEvents, Session
<1>3. ASSUME NEW ms
      PROVE  /\ WithMessages(c, ms).history = Newest(c.history \o ms, MaxHistory)
             /\ WithMessages(c, ms).revision = c.revision
  <2> DEFINE h == Newest(c.history \o ms, MaxHistory)
             d == [c EXCEPT !.history = h, !.active = now]
  <2>1. WithMessages(c, ms) = d
    BY DEF WithMessages
  <2> HIDE DEF h
  <2>2. d.history = h /\ d.revision = c.revision
    BY DEF Session
  <2> QED
    BY <2>1, <2>2 DEF h
<1> QED
  BY <1>1, <1>2, <1>3

\* The ADK runtime saves the events; the history and what r holds stay.
LEMMA EventsHistory ==
  ASSUME OwnInv, HistoryInv, NEW r \in Req, UNCHANGED <<config, answers>>, config.runtime # "langgraph",
         Uses(req[r]), req'[r].pc \in {"commit", "model"}, req'[r].sid = req[r].sid,
         req'[r].copy = req[r].copy, req'[r].before = req[r].before,
         NEW n, SavesTo(r, req[r].sid, n),
         n.history = session[req[r].sid].history, n.revision = session[req[r].sid].revision + 1
  PROVE  HistoryInv'
<1>1. PICK x, z : x = req[r].sid /\ z = req'[r]
  OBVIOUS
<1>2. x \in SessionId /\ session' = [session EXCEPT ![x] = n] /\ z.sid = x /\ z.copy = req[r].copy
      /\ z.before = req[r].before /\ z.pc \in {"commit", "model"}
  BY <1>1 DEF SavesTo
<1>3. /\ req[r] \in Request /\ LoadedOK(req[r]) /\ HoldsOK(req[r]) /\ req[r].pc # "answered"
  BY RequestTyped DEF RequestOK, HistoryInv, Uses, Running
<1>4. session \in [SessionId -> Session]
  BY DEF OwnInv, TypeOK
<1>5. Saves(x)
  BY <1>1, <1>2, <1>4 DEF Saves
<1>6. z.before \in 0 .. Len(answers'[x])
  BY <1>1, <1>2, <1>3 DEF LoadedOK
<1>7. ASSUME Durable PROVE SameHistory(z.copy, x)' /\ z.copy.history = Exchanges(x, z.before)'
  <2>1. z.copy \in Session /\ SameHistory(z.copy, x) /\ z.copy.history = Exchanges(x, z.before)
    BY <1>1, <1>2, <1>3, <1>7 DEF LoadedOK, HoldsOK, Request
  <2>2. SameHistory(z.copy, x)'
    BY <1>2, <1>5, <2>1, SameStays
  <2>3. Exchanges(x, z.before)' = Exchanges(x, z.before)
    BY DEF Exchanges
  <2> QED
    BY <2>1, <2>2, <2>3
<1>8. LoadedOK(z)' /\ ContextOK(z)'
  BY <1>2, <1>6, <1>7 DEF LoadedOK, ContextOK, Durable, SameHistory, Exchanges
<1>9. LoadedOK(req[r])' /\ ContextOK(req[r])'
  BY <1>1, <1>8
<1> QED
  BY <1>1, <1>3, <1>9, SaveHistory

LEMMA PersistHistory ==
  ASSUME OwnInv, HistoryInv, NEW r \in Req, PersistShared(r)
  PROVE  HistoryInv'
<1> DEFINE x == req[r].sid
           p == AfterEvent(r)
           s == [req[r] EXCEPT !.pc = p, !.view = NoCopy]
           c == WithEvents(session[x], req[r].events)
           n == Saved(c)
<1>1. req[r] \in Request /\ Uses(req[r]) /\ LoadedOK(req[r]) /\ req[r].pc = "view"
  BY RequestTyped DEF HistoryInv, PersistShared, Uses, Running
<1>2. config.runtime # "langgraph"
  BY <1>1 DEF LoadedOK
<1>3. SavesTo(r, x, n) /\ Tell(r, s) /\ UNCHANGED <<config, answers>>
  BY PersistSaves DEF PersistShared
<1>4. n.history = session[x].history /\ n.revision = session[x].revision + 1
  <2>1. SessionOf(session[x], req[r].user) /\ req[r].events \in Seq(Own(req[r].user))
    BY <1>1, HeldIsOwn, RequestTyped DEF RequestOK, OwnOK
  <2>2. session[x] \in Session /\ c \in Session
    BY <2>1, EventsKeepOwner DEF SessionOf
  <2> QED
    BY <2>2, SavedIs
<1>5. p \in {"commit", "model"}
  BY AfterEventIs
<1> HIDE DEF n, p
<1>6. s.pc = p /\ s.sid = x /\ s.copy = req[r].copy /\ s.before = req[r].before
  BY <1>1 DEF Request
<1>7. req'[r] = s
  BY <1>3, Becomes
<1> HIDE DEF s
<1> QED
  BY <1>1, <1>2, <1>3, <1>4, <1>5, <1>6, <1>7, EventsHistory

LEMMA ViewSaveHistory ==
  ASSUME OwnInv, HistoryInv, NEW r \in Req, SaveView(r)
  PROVE  HistoryInv'
<1> DEFINE x == req[r].sid
           v == req[r].view
           p == AfterEvent(r)
           s == [req[r] EXCEPT !.pc = p, !.view = NoCopy]
           n == Saved(v)
<1>1. req[r] \in Request /\ Uses(req[r]) /\ LoadedOK(req[r]) /\ req[r].pc = "save" /\ PlaceOK(req[r])
  BY RequestTyped DEF HistoryInv, SaveView, Uses, Running, RequestOK
<1>2. config.runtime # "langgraph" /\ v \in Session /\ SameHistory(v, x)
  BY <1>1 DEF LoadedOK, PlaceOK, Request
<1>3. UNCHANGED <<config, answers>>
  BY DEF SaveView
<1>4. CASE SavesTo(r, x, n) /\ Unchanged(x, v) /\ req'[r].pc = p
  <2>1. Tell(r, s)
    <3>1. p # "conflict"
      BY AfterEventIs
    <3>2. Ended(r, "conflict").pc = "conflict"
      BY EndedIs
    <3>3. Become(r, Ended(r, "conflict")) => req'[r].pc = "conflict"
      BY <3>2, Becomes
    <3> QED
      BY <1>4, <3>1, <3>3 DEF SaveView
  <2>2. n.history = session[x].history /\ n.revision = session[x].revision + 1
    BY <1>2, <1>4, SavedIs DEF SameHistory, Unchanged
  <2>3. p \in {"commit", "model"}
    BY AfterEventIs
  <2> HIDE DEF n, p
  <2>4. s.pc = p /\ s.sid = x /\ s.copy = req[r].copy /\ s.before = req[r].before
    BY <1>1 DEF Request
  <2>5. req'[r] = s
    BY <2>1, Becomes
  <2> HIDE DEF s
  <2> QED
    BY <1>1, <1>2, <1>3, <1>4, <2>2, <2>3, <2>4, <2>5, EventsHistory
<1>5. CASE Steps(r) /\ UNCHANGED session /\ req'[r].pc = "conflict"
  <2>1. Plain(r)
    BY <1>1, <1>5 DEF Plain, Uses, Running, Seen
  <2> QED
    BY <1>3, <1>5, <2>1, PlainHistory
<1> QED
  BY <1>4, <1>5, ViewSaves

\* The exchange is saved with a history that nobody has changed since it was loaded.
LEMMA CommitHistory ==
  ASSUME OwnInv, HistoryInv, NEW r \in Req, CommitShared(r) \/ CommitCopy(r)
  PROVE  HistoryInv'
<1>0. PICK x : x = req[r].sid
  OBVIOUS
<1> DEFINE m == WithMessages(Held(r), Exchange(r))
           n == Saved(m)
<1>1. req[r] \in Request /\ Uses(req[r]) /\ LoadedOK(req[r]) /\ ContextOK(req[r]) /\ req[r].pc = "commit"
      /\ config' = config /\ now \in Nat
  BY RequestTyped, NowTyped DEF HistoryInv, CommitShared, CommitCopy, Uses, Running, RequestOK
<1>2. x \in SessionId /\ session[x] \in Session /\ SessionOf(Held(r), req[r].user) /\ Held(r) \in Session
  BY <1>0, <1>1, HeldIsOwn DEF SessionOf
<1>3. CASE /\ SavesTo(r, x, n) /\ Tell(r, Ended(r, "answered")) /\ req'[r].pc = "answered"
           /\ answers' = [answers EXCEPT ![x] = Append(answers[x], r)]
           /\ Durable => Unchanged(x, req[r].copy)
  <2>1. Held(r).history = session[x].history /\ Held(r).revision = session[x].revision
    BY <1>0, <1>1, <1>3 DEF LoadedOK, SameHistory, Unchanged, Held
  <2>2. m \in Session
    BY <1>1, <1>2, ExchangeIsOwn, MessagesKeepOwner DEF SessionOf
  <2>3. /\ n.history = Newest(session[x].history \o Exchange(r), MaxHistory)
        /\ n.revision = session[x].revision + 1
    BY <1>2, <2>1, <2>2, SavedIs
  <2>4. PICK z : z = req'[r]
    OBVIOUS
  <2>5. z.pc = "answered" /\ z.sid = x /\ z.before = req[r].before /\ z.seen = req[r].seen
    <3>1. z = Ended(r, "answered")
      BY <1>3, <2>4, Becomes
    <3> QED
      BY <1>0, <1>1, <3>1 DEF Ended, Request
  <2>6. LoadedOK(z)'
    BY <1>2, <2>5 DEF LoadedOK, Uses, Running
  <2>7. /\ Len(answers[x]) \in Nat /\ Len(answers'[x]) \in Nat /\ Len(answers[x]) <= Len(answers'[x])
        /\ \A k \in 0 .. Len(answers[x]) : Exchanges(x, k)' = Exchanges(x, k)
    <3>1. Grows(r, x)
      <4>1. session'[x] = n /\ answers'[x] = Append(answers[x], r)
        BY <1>2, <1>3 DEF SavesTo, OwnInv, TypeOK
      <4> HIDE DEF n
      <4> QED
        BY <2>3, <2>4, <2>5, <4>1 DEF Grows, Adds
    <3> QED
      BY <1>2, <3>1, ExchangesStay
  <2>8. ContextOK(z)'
    <3> SUFFICES ASSUME config.runtime = "langgraph"
                 PROVE  \E k \in z.before .. Len(answers'[x]) : z.seen = Exchanges(x, k)'
      BY <1>1, <2>5 DEF ContextOK, Exchanges
    <3>1. PICK k \in req[r].before .. Len(answers[x]) : req[r].seen = Exchanges(x, k)
      BY <1>0, <1>1 DEF ContextOK, Seen
    <3>2. req[r].before \in Nat
      BY <1>1 DEF Request
    <3>3. k \in 0 .. Len(answers[x]) /\ k \in z.before .. Len(answers'[x])
      BY <2>5, <2>7, <3>1, <3>2
    <3> QED
      BY <2>5, <2>7, <3>1, <3>3
  <2>9. LoadedOK(req[r])' /\ ContextOK(req[r])'
    BY <2>4, <2>6, <2>8
  <2> HIDE DEF n
  <2> QED
    BY <1>1, <1>3, <2>3, <2>4, <2>5, <2>9, SaveHistory
<1>4. CASE Steps(r) /\ UNCHANGED <<session, answers>> /\ req'[r].pc = "conflict"
  <2>1. Plain(r)
    BY <1>1, <1>4 DEF Plain, Uses, Running, Seen
  <2> QED
    BY <1>1, <1>4, <2>1, PlainHistory
<1> QED
  BY <1>0, <1>3, <1>4, CommitSaves

\* Nobody has had the id of a session that is created.
LEMMA CreateHistory ==
  ASSUME OwnInv, HistoryInv, NEW r \in Req, NEW x \in SessionId, CreateSession(r, x)
  PROVE  HistoryInv'
<1> DEFINE f == Fresh(req[r].user)
           c == IF Durable THEN f ELSE NoCopy
           n == Len(answers[x])
           p == AfterResolve
           s == [req[r] EXCEPT !.sid = x, !.before = n, !.pc = p, !.copy = c]
<1>0. /\ req[r] \in Request /\ req[r].pc = "resolve" /\ session \in [SessionId -> Session]
      /\ session' = [session EXCEPT ![x] = f] /\ Become(r, s) /\ UNCHANGED <<config, answers>>
      /\ \A q \in Req : req[q].sid # x
  BY RequestTyped DEF CreateSession, OwnInv, TypeOK
<1>1. answers[x] \in Seq(Req) /\ Len(answers[x]) = 0 /\ answers[x] = <<>>
  <2>1. answers[x] \in Seq(Req)
    BY DEF OwnInv, TypeOK
  <2>2. Len(answers[x]) \in Nat /\ DOMAIN answers[x] = 1 .. Len(answers[x])
    BY <2>1, LenProperties
  <2>3. \A i \in 1 .. Len(answers[x]) : FALSE
    BY <1>0, <2>1, <2>2, ElementOfSeq DEF HistoryInv, AnswersOK
  <2>4. Len(answers[x]) = 0
    BY <2>2, <2>3
  <2> QED
    BY <2>1, <2>4
<1>2. f.history = <<>> /\ f.revision = 0
  BY DEF Fresh
<1>3. session[x].history = <<>> /\ Exchanges(x, 0) = <<>>
  <2>0. <<>> \in Seq(Req) /\ Len(<<>>) = 0
    OBVIOUS
  <2>1. Said(<<>>) \in Seq(Message) /\ Len(Said(<<>>)) = 2 * Len(<<>>)
    BY <2>0, SaidIs
  <2>2. Said(<<>>) = <<>>
    BY <2>1
  <2>3. Newest(<<>>, MaxHistory) = <<>> /\ SubSeq(<<>>, 1, 0) = <<>>
    BY Bounds DEF Newest
  <2> QED
    BY <1>1, <2>2, <2>3 DEF HistoryInv, AnswersAreRemembered, Exchanges
<1>4. session'[x] = f /\ \A y \in SessionId : y # x => session'[y] = session[y]
  BY <1>0
<1>5. \A y \in SessionId : Grows(r, y)
  BY <1>0, <1>2, <1>4 DEF Grows, Opens, Saves
<1>6. p \in {"ensure", "start", "recall"} /\ (config.runtime = "langgraph" => p # "ensure")
      /\ (Durable => c.history = <<>> /\ c.revision = 0) /\ n = 0
  BY <1>1, <1>2 DEF AfterResolve
<1> HIDE DEF f, c, n, p
<1>7. s.pc = p /\ s.sid = x /\ s.copy = c /\ s.before = n
  BY <1>0 DEF Request
<1>8. PICK z : z = s
  OBVIOUS
<1>9. PICK d : d = c
  OBVIOUS
<1>10. z.pc = p /\ z.sid = x /\ z.copy = d /\ z.before = 0 /\ z = req'[r]
  BY <1>0, <1>6, <1>7, <1>8, <1>9, Becomes
<1> HIDE DEF s
<1>11. Exchanges(x, 0)' = <<>>
  BY <1>0, <1>3 DEF Exchanges
<1>12. Durable => SameHistory(d, x)' /\ d.history = <<>>
  BY <1>2, <1>4, <1>6, <1>9 DEF SameHistory
<1>13. LoadedOK(z)' /\ ContextOK(z)'
  BY <1>0, <1>1, <1>6, <1>10, <1>11, <1>12 DEF LoadedOK, ContextOK, Seen, Durable, SameHistory, Exchanges
<1>14. LoadedOK(req[r])' /\ ContextOK(req[r])'
  BY <1>10, <1>13
<1> QED
  BY <1>0, <1>5, <1>14, CreateSaves, HistoryAfter

LEMMA HistoryStarts == Init => HistoryInv
<1> SUFFICES ASSUME Init PROVE HistoryInv
  OBVIOUS
<1>1. session = [s \in SessionId |-> Fresh(FirstUser)] /\ answers = [s \in SessionId |-> <<>>]
  BY DEF Init
<1>2. \A r \in Req : req[r].pc = "new"
  BY DEF Init
<1>3. \A s \in SessionId : session[s].history = <<>> /\ answers[s] = <<>>
  BY <1>1 DEF Fresh
<1>4. Said(<<>>) = <<>>
  <2>1. <<>> \in Seq(Req) /\ Len(<<>>) = 0
    OBVIOUS
  <2>2. Said(<<>>) \in Seq(Message) /\ Len(Said(<<>>)) = 2 * Len(<<>>)
    BY <2>1, SaidIs
  <2> QED
    BY <2>1, <2>2
<1>5. Newest(<<>>, MaxHistory) = <<>>
  BY Bounds DEF Newest
<1>6. AnswersAreRemembered
  BY <1>3, <1>4, <1>5 DEF AnswersAreRemembered
<1>7. AnswersOK
  BY <1>3 DEF AnswersOK
<1>8. \A r \in Req : LoadedOK(req[r]) /\ ContextOK(req[r])
  BY <1>2 DEF LoadedOK, ContextOK, Uses, Running, Seen
<1> QED
  BY <1>6, <1>7, <1>8 DEF HistoryInv

\* A step that no request takes.
LEMMA IdleHistory ==
  ASSUME HistoryInv, UNCHANGED <<config, session, answers, req>>
  PROVE  HistoryInv'
<1>1. AnswersAreRemembered' /\ AnswersOK'
  BY DEF HistoryInv, AnswersAreRemembered, AnswersOK
<1>2. ASSUME NEW q \in Req PROVE LoadedOK(req[q])' /\ ContextOK(req[q])'
  <2>1. LoadedOK(req[q]) /\ ContextOK(req[q])
    BY DEF HistoryInv
  <2>2. PICK z : z = req[q]
    OBVIOUS
  <2>3. LoadedOK(z)' /\ ContextOK(z)'
    BY <2>1, <2>2 DEF LoadedOK, ContextOK, SameHistory, Exchanges, Seen, Uses, Durable
  <2> QED
    BY <2>2, <2>3
<1> QED
  BY <1>1, <1>2 DEF HistoryInv

LEMMA HistoryKept == OwnInv /\ HistoryInv /\ [Next]_vars => HistoryInv'
<1> SUFFICES ASSUME OwnInv, HistoryInv, [Next]_vars PROVE HistoryInv'
  OBVIOUS
<1>1. CASE TimePasses \/ UNCHANGED vars
  BY <1>1, IdleHistory DEF TimePasses, Tick, vars
<1>2. ASSUME NEW r \in Req, LimitLocally(r) \/ ReadClock(r) \/ Consume(r) PROVE HistoryInv'
  BY <1>2, PlainMoves, LimitMoves, PlainHistory DEF LimitLocally, ReadClock, Consume, Stores
<1>3. ASSUME NEW r \in Req, Receive(r) \/ Remember(r) PROVE HistoryInv'
  BY <1>3, PlainMoves, ArrivalMoves, PlainHistory DEF Receive, Remember, Stores
<1>4. ASSUME NEW r \in Req, Recall(r) \/ Search(r) \/ Store(r) \/ Enforce(r) PROVE HistoryInv'
  BY <1>4, PlainMoves, MemoryMoves, PlainHistory DEF Recall, Search, Store, Enforce, Stores
<1>5. ASSUME NEW r \in Req, NotFound(r) \/ Purge(r) \/ Denied(r) \/ Ensure(r) PROVE HistoryInv'
  BY <1>5, PlainEnds, LookupMoves, PlainHistory DEF NotFound, Purge, Denied, Ensure, Stores
<1>6. ASSUME NEW r \in Req, StartRunner(r) \/ PersistNothing(r) PROVE HistoryInv'
  BY <1>6, PlainEnds, StartMoves, PersistMoves, PlainHistory DEF StartRunner, PersistNothing
<1>7. ASSUME NEW r \in Req, ModelAnswers(r) \/ ModelFails(r) \/ Disappear(r) PROVE HistoryInv'
  BY <1>7, PlainEnds, ModelMoves, PlainHistory DEF ModelAnswers, ModelFails, Disappear, Stores
<1>8. ASSUME NEW r \in Req, NEW s \in SessionId, CreateSession(r, s) PROVE HistoryInv'
  BY <1>8, CreateHistory
<1>9. ASSUME NEW r \in Req, \/ Resolve(r) \/ StartGraph(r) \/ LoadView(r) \/ PersistShared(r)
                            \/ SaveView(r) \/ CommitShared(r) \/ CommitCopy(r)
      PROVE  HistoryInv'
  BY <1>9, ResolveHistory, StartHistory, ViewHistory, PersistHistory, ViewSaveHistory, CommitHistory
<1> QED
  BY <1>1, <1>2, <1>3, <1>4, <1>5, <1>6, <1>7, <1>8, <1>9 DEF Next

\* A copy that a request holds is the session as it was at a number of answers
\* that is not above the present one; a copy with the present revision is the
\* present session.  So a save that passes the comparison of revisions loses
\* nothing.
THEOREM HistoryInvariant == Spec => []HistoryInv
<1>1. Init => HistoryInv
  BY HistoryStarts
<1>2. OwnInv /\ HistoryInv /\ [Next]_vars => HistoryInv'
  BY HistoryKept
<1> QED
  BY <1>1, <1>2, OwnInvariant, PTL DEF Spec

\* The history of a session is exactly the exchanges that were answered, up to
\* max_history_messages: with the shared object of the in-memory provider and with
\* the revisions of the SQL providers, whatever overlaps, expires or dies.
THEOREM NothingIsLost == Spec => []AnswersAreRemembered
<1>1. HistoryInv => AnswersAreRemembered
  BY DEF HistoryInv
<1> QED
  BY <1>1, HistoryInvariant, PTL

\* A LangGraph model is given a state of the conversation that is no older than
\* the moment its request found the session.
THEOREM ContextStaysCurrent == Spec => []ContextIsCurrent
<1>1. HistoryInv => ContextIsCurrent
  BY DEF HistoryInv, ContextOK, ContextIsCurrent, Exchanges, Seen, Ran
<1> QED
  BY <1>1, HistoryInvariant, PTL

-----------------------------------------------------------------------------
\* Steps of neither the limit nor remember

\* s is r as the limit and the memory know it.
Keeps(r, s) == /\ s.kind = req[r].kind /\ s.user = req[r].user /\ s.at = req[r].at
               /\ s.admitted = req[r].admitted /\ s.window = req[r].window
Elsewhere(r) ==
    /\ Keeps(r, req'[r])
    /\ req[r].pc \in Active
    /\ req'[r].pc \notin {"new", "limit", "consume", "limited", "store", "enforce", "remembered"}
    /\ req[r].kind = "remember" => req'[r].before = req[r].before

LEMMA EndedKeeps ==
  ASSUME OwnInv, NEW r \in Req, NEW p
  PROVE  Keeps(r, Ended(r, p)) /\ Ended(r, p).pc = p /\ Ended(r, p).before = req[r].before
<1>1. req[r] \in Request
  BY RequestTyped
<1> QED
  BY <1>1 DEF Keeps, Ended, Request

LEMMA ElsewhereEnd ==
  ASSUME OwnInv, NEW r \in Req, req[r].pc \in Active,
         NEW p \in {"notFound", "denied", "failed", "conflict", "gone", "answered"},
         Become(r, Ended(r, p)) \/ Tell(r, Ended(r, p))
  PROVE  Elsewhere(r)
<1>1. req'[r] = Ended(r, p)
  BY Becomes
<1> QED
  BY <1>1, EndedKeeps DEF Elsewhere

LEMMA ElsewhereLookup ==
  ASSUME OwnInv, NEW r \in Req, req[r].pc \in Active, NEW s, Keeps(r, s), NotFoundThen(r, s),
         s \in Request, s.pc \in {"notFound", "failed", "model", "commit"}, req[r].kind # "remember"
  PROVE  Elsewhere(r)
<1> DEFINE t == [s EXCEPT !.pc = "purge", !.then = s.pc]
<1>1. Keeps(r, t) /\ t.pc = "purge"
  BY DEF Request, Keeps
<1>2. req'[r] = s \/ req'[r] = t
  BY Becomes DEF NotFoundThen
<1> HIDE DEF t
<1> QED
  BY <1>1, <1>2 DEF Elsewhere

\* A step to s, which differs from what r is in other respects.
LEMMA ElsewhereStep ==
  ASSUME OwnInv, NEW r \in Req, NEW s, Become(r, s) \/ Tell(r, s), Keeps(r, s),
         req[r].pc \in Active, req[r].kind # "remember",
         s.pc \in Running \/ (req[r].pc = "purge" /\ s.pc \in {"notFound", "failed"})
  PROVE  Elsewhere(r)
<1>1. req'[r] = s
  BY Becomes
<1> QED
  BY <1>1 DEF Elsewhere, Running

LEMMA ElsewhereEarly ==
  ASSUME OwnInv, NEW r \in Req,
         \/ NotFound(r) \/ Purge(r) \/ Denied(r) \/ Resolve(r) \/ Ensure(r)
         \/ Recall(r) \/ Search(r) \/ StartGraph(r) \/ StartRunner(r) \/ Disappear(r)
         \/ \E x \in SessionId : CreateSession(r, x)
  PROVE  Elsewhere(r)
<1>1. req[r] \in Request /\ PlaceOK(req[r])
  BY RequestTyped DEF RequestOK
<1>2. CASE Disappear(r)
  BY <1>2, ElsewhereEnd DEF Disappear
<1>3. ASSUME ~Disappear(r)
      PROVE  req[r].pc \in Active /\ req[r].kind # "remember"
  BY <1>1, <1>3 DEF PlaceOK, NotFound, Purge, Denied, Resolve, Ensure, Recall, Search,
       StartGraph, StartRunner, CreateSession, Active
<1>4. ASSUME ~Disappear(r), NEW p \in {"notFound", "failed"}, NotFoundThen(r, Ended(r, p))
      PROVE  Elsewhere(r)
  <2>1. Keeps(r, Ended(r, p)) /\ Ended(r, p).pc = p
    BY EndedKeeps
  <2>2. Ended(r, p) \in Request
    BY <1>3, <1>4, EndedFollows DEF Follows, Done
  <2> QED
    BY <1>3, <1>4, <2>1, <2>2, ElsewhereLookup
<1>5. ASSUME ~Disappear(r), NEW p \in Running, Go(r, p) PROVE Elsewhere(r)
  <2> DEFINE s == [req[r] EXCEPT !.pc = p]
  <2>1. Become(r, s) /\ Keeps(r, s) /\ s.pc = p
    BY <1>1, <1>5 DEF Go, Become, Keeps, Request
  <2> HIDE DEF s
  <2> QED
    BY <1>3, <1>5, <2>1, ElsewhereStep
<1>6. CASE NotFound(r)
  BY <1>2, <1>4, <1>6 DEF NotFound
<1>7. CASE Purge(r)
  <2> DEFINE s == [req[r] EXCEPT !.pc = req[r].then, !.then = "limited"]
  <2>1. req[r].pc = "purge" /\ Tell(r, s)
    BY <1>7 DEF Purge
  <2>2. Keeps(r, s) /\ s.pc \in {"notFound", "failed", "model", "commit"}
    BY <1>1, <2>1 DEF Keeps, Request, PlaceOK
  <2> HIDE DEF s
  <2> QED
    BY <1>2, <1>3, <2>1, <2>2, ElsewhereStep DEF Running
<1>8. CASE Denied(r)
  BY <1>2, <1>3, <1>8, ElsewhereEnd DEF Denied
<1>9. CASE Resolve(r)
  <2> DEFINE x == req[r].sid
             c == IF Durable THEN session[x] ELSE NoCopy
             n == Len(answers[x])
             p == AfterResolve
             s == [req[r] EXCEPT !.copy = c, !.before = n, !.mixed = FALSE, !.pc = p]
  <2>1. Become(r, s) /\ p \in Running
    BY <1>9 DEF Resolve, AfterResolve, Running
  <2> HIDE DEF c, n, p
  <2>2. Keeps(r, s) /\ s.pc = p
    BY <1>1 DEF Keeps, Request
  <2> HIDE DEF s
  <2> QED
    BY <1>2, <1>3, <2>1, <2>2, ElsewhereStep
<1>10. CASE Ensure(r)
  BY <1>2, <1>4, <1>5, <1>10 DEF Ensure, AfterEnsure, Running
<1>11. CASE Recall(r)
  BY <1>2, <1>5, <1>11 DEF Recall, Running
<1>12. CASE Search(r)
  <2> DEFINE m == Of(entries, req[r].user)
             s == [req[r] EXCEPT !.recalled = m, !.pc = "start"]
  <2>1. Become(r, s)
    BY <1>12 DEF Search
  <2> HIDE DEF m
  <2>2. Keeps(r, s) /\ s.pc = "start"
    BY <1>1 DEF Keeps, Request
  <2> HIDE DEF s
  <2> QED
    BY <1>2, <1>3, <2>1, <2>2, ElsewhereStep DEF Running
<1>13. CASE StartGraph(r)
  <2> DEFINE h == Held(r).history
             s == [req[r] EXCEPT !.seen = h, !.pc = "model"]
  <2>1. Become(r, s)
    BY <1>13 DEF StartGraph
  <2> HIDE DEF h
  <2>2. Keeps(r, s) /\ s.pc = "model"
    BY <1>1 DEF Keeps, Request
  <2> HIDE DEF s
  <2> QED
    BY <1>2, <1>3, <2>1, <2>2, ElsewhereStep DEF Running
<1>14. CASE StartRunner(r)
  <2> DEFINE h == Append(session[req[r].sid].events, Asked(r))
             s == [req[r] EXCEPT !.events = h, !.seen = h, !.pc = "view"]
  <2>1. Become(r, s) \/ NotFoundThen(r, Ended(r, "failed"))
    BY <1>14 DEF StartRunner
  <2> HIDE DEF h
  <2>2. Keeps(r, s) /\ s.pc = "view"
    BY <1>1 DEF Keeps, Request
  <2> HIDE DEF s
  <2> QED
    BY <1>2, <1>3, <1>4, <2>1, <2>2, ElsewhereStep DEF Running
<1>15. ASSUME NEW x \in SessionId, CreateSession(r, x) PROVE Elsewhere(r)
  <2> DEFINE c == IF Durable THEN Fresh(req[r].user) ELSE NoCopy
             n == Len(answers[x])
             p == AfterResolve
             s == [req[r] EXCEPT !.sid = x, !.before = n, !.pc = p, !.copy = c]
  <2>1. Become(r, s) /\ p \in Running
    BY <1>15 DEF CreateSession, AfterResolve, Running
  <2> HIDE DEF c, n, p
  <2>2. Keeps(r, s) /\ s.pc = p
    BY <1>1 DEF Keeps, Request
  <2> HIDE DEF s
  <2> QED
    BY <1>2, <1>3, <1>15, <2>1, <2>2, ElsewhereStep
<1> QED
  BY <1>2, <1>6, <1>7, <1>8, <1>9, <1>10, <1>11, <1>12, <1>13, <1>14, <1>15

LEMMA ElsewhereLate ==
  ASSUME OwnInv, NEW r \in Req,
         \/ PersistNothing(r) \/ PersistShared(r) \/ LoadView(r) \/ SaveView(r)
         \/ ModelAnswers(r) \/ ModelFails(r) \/ CommitShared(r) \/ CommitCopy(r)
  PROVE  Elsewhere(r)
<1>1. req[r] \in Request /\ PlaceOK(req[r])
  BY RequestTyped DEF RequestOK
<1>2. req[r].pc \in Active /\ req[r].kind # "remember"
  BY <1>1 DEF PlaceOK, PersistNothing, PersistShared, LoadView, SaveView, ModelAnswers,
       ModelFails, CommitShared, CommitCopy, Active
<1> DEFINE p == AfterEvent(r)
<1>3. p \in {"commit", "model"}
  BY AfterEventIs
<1>4. CASE PersistNothing(r)
  <2> DEFINE s == [req[r] EXCEPT !.pc = p, !.mixed = TRUE]
  <2>1. NotFoundThen(r, s)
    BY <1>4 DEF PersistNothing
  <2> HIDE DEF p
  <2>2. Keeps(r, s) /\ s.pc = p /\ s \in Request
    BY <1>1, <1>3 DEF Keeps, Request, Active
  <2> HIDE DEF s
  <2> QED
    BY <1>2, <1>3, <2>1, <2>2, ElsewhereLookup
<1>5. CASE PersistShared(r) \/ SaveView(r)
  <2> DEFINE s == [req[r] EXCEPT !.pc = p, !.view = NoCopy]
  <2>1. Tell(r, s) \/ Become(r, Ended(r, "conflict"))
    BY <1>5 DEF PersistShared, SaveView
  <2> HIDE DEF p
  <2>2. Keeps(r, s) /\ s.pc = p
    BY <1>1 DEF Keeps, Request
  <2> HIDE DEF s
  <2> QED
    BY <1>2, <1>3, <2>1, <2>2, ElsewhereStep, ElsewhereEnd DEF Running
<1>6. CASE LoadView(r)
  <2> DEFINE v == WithEvents(session[req[r].sid], req[r].events)
             s == [req[r] EXCEPT !.view = v, !.pc = "save"]
  <2>1. Become(r, s)
    BY <1>6 DEF LoadView
  <2> HIDE DEF v
  <2>2. Keeps(r, s) /\ s.pc = "save"
    BY <1>1 DEF Keeps, Request
  <2> HIDE DEF s
  <2> QED
    BY <1>2, <2>1, <2>2, ElsewhereStep DEF Running
<1>7. CASE ModelAnswers(r)
  <2> DEFINE h == Append(req[r].events, Answered(r))
             s == [req[r] EXCEPT !.events = h, !.pc = "view"]
             t == [req[r] EXCEPT !.pc = "commit"]
  <2>1. Become(r, s) \/ Become(r, t)
    BY <1>7 DEF ModelAnswers, Become, Go
  <2> HIDE DEF h
  <2>2. Keeps(r, s) /\ s.pc = "view" /\ Keeps(r, t) /\ t.pc = "commit"
    BY <1>1 DEF Keeps, Request
  <2> HIDE DEF s, t
  <2> QED
    BY <1>2, <2>1, <2>2, ElsewhereStep DEF Running
<1>8. CASE ModelFails(r)
  BY <1>2, <1>8, ElsewhereEnd DEF ModelFails
<1>9. CASE CommitShared(r) \/ CommitCopy(r)
  BY <1>2, <1>9, ElsewhereEnd DEF CommitShared, CommitCopy
<1> QED
  BY <1>4, <1>5, <1>6, <1>7, <1>8, <1>9

-----------------------------------------------------------------------------
\* The limit

\* What the limit knows of the others stays.
LEMMA OthersKnown ==
  ASSUME OwnInv, NEW q \in Req, Same(q)
  PROVE  /\ req'[q].pc = req[q].pc /\ req'[q].kind = req[q].kind /\ req'[q].user = req[q].user
         /\ req'[q].at = req[q].at /\ req'[q].before = req[q].before
         /\ req'[q].admitted = req[q].admitted /\ req'[q].window = req[q].window
<1>1. req[q] \in Request
  BY RequestTyped
<1> QED
  BY <1>1 DEF Same, Request

LEMMA AdmittedFinite ==
  ASSUME OwnInv, LimitInv, NEW k, NEW i
  PROVE  IsFiniteSet(AdmittedIn(k, i)) /\ Cardinality(AdmittedIn(k, i)) \in Nat
<1>1. AdmittedIn(k, i) \subseteq Begun
  BY DEF AdmittedIn, Begun, LimitInv
<1> QED
  BY <1>1, FS_Subset, FS_CardinalityType DEF OwnInv

LEMMA WithIsIn == \A r \in Req : AdmittedWith(r) = AdmittedIn(req[r].kind, req[r].window)
  BY DEF AdmittedWith, AdmittedIn

\* ... after the step.
AdmittedNext(k, i) == {q \in Req : req'[q].admitted /\ req'[q].kind = k /\ req'[q].window = i}

LEMMA LimitNext ==
  ASSUME \A q \in Req : req'[q].pc \in {"new", "limit", "consume"} => ~req'[q].admitted,
         \A k \in Route : window'[k].count > 0 =>
             \/ Cardinality(AdmittedNext(k, window'[k].id)) >= Capacity
             \/ Cardinality(AdmittedNext(k, window'[k].id)) >= window'[k].count,
         \A q \in Req : req'[q].pc = "limited" =>
             Cardinality(AdmittedNext(req'[q].kind, req'[q].window)) >= Capacity
  PROVE  LimitInv'
<1>1. \A k : AdmittedIn(k, window[k].id)' = AdmittedNext(k, window'[k].id)
  BY DEF AdmittedIn, AdmittedNext
<1>2. \A q : AdmittedWith(q)' = AdmittedNext(req'[q].kind, req'[q].window)
  BY DEF AdmittedWith, AdmittedNext
<1>3. RejectedOnlyWhenFull'
  BY <1>2 DEF RejectedOnlyWhenFull
<1> QED
  BY <1>1, <1>3 DEF LimitInv

\* A step that counts nobody.
LEMMA LimitQuiet ==
  ASSUME OwnInv, LimitInv, NEW r \in Req, \A q \in Req \ {r} : Same(q), UNCHANGED window,
         req'[r].kind = req[r].kind, req'[r].admitted = req[r].admitted,
         req'[r].window = req[r].window, req'[r].pc # "limited",
         req'[r].pc \in {"new", "limit", "consume"} => req[r].pc \in {"new", "limit", "consume"}
  PROVE  LimitInv'
<1>1. \A q \in Req : /\ req'[q].kind = req[q].kind /\ req'[q].admitted = req[q].admitted
                     /\ req'[q].window = req[q].window
  BY OthersKnown
<1>2. \A k, i : AdmittedNext(k, i) = AdmittedIn(k, i)
  BY <1>1 DEF AdmittedIn, AdmittedNext
<1>3. ASSUME NEW q \in Req, req'[q].pc \in {"new", "limit", "consume"} PROVE ~req'[q].admitted
  BY <1>1, <1>3, OthersKnown DEF LimitInv
<1>4. ASSUME NEW k \in Route, window'[k].count > 0
      PROVE  \/ Cardinality(AdmittedNext(k, window'[k].id)) >= Capacity
             \/ Cardinality(AdmittedNext(k, window'[k].id)) >= window'[k].count
  BY <1>2, <1>4 DEF LimitInv
<1>5. ASSUME NEW q \in Req, req'[q].pc = "limited"
      PROVE  Cardinality(AdmittedNext(req'[q].kind, req'[q].window)) >= Capacity
  <2>1. req[q].pc = "limited"
    BY <1>5, OthersKnown
  <2>2. Cardinality(AdmittedIn(req[q].kind, req[q].window)) >= Capacity
    BY <2>1, WithIsIn DEF LimitInv, RejectedOnlyWhenFull
  <2> QED
    BY <1>1, <1>2, <2>2
<1> QED
  BY <1>3, <1>4, <1>5, LimitNext

\* A request that is counted as the first of a window, or as the next one.
LEMMA LimitCounts ==
  ASSUME OwnInv, LimitInv, NEW r \in Req, req[r].pc \in {"limit", "consume"},
         \A q \in Req \ {r} : Same(q), NEW k \in Route, req[r].kind = k,
         NEW w \in [id : Nat, count : Nat],
         \/ w.count = 1
         \/ window[k].count > 0 /\ w.id = window[k].id /\ w.count = window[k].count + 1,
         req'[r].kind = k, req'[r].window = w.id, req'[r].admitted = Admits(w),
         req'[r].pc = IF Admits(w) THEN "resolve" ELSE "limited",
         \A j \in Route : window'[j] = NoWindow \/ window'[j] = IF j = k THEN w ELSE window[j]
  PROVE  LimitInv'
<1>1. ~req[r].admitted
  BY DEF LimitInv
<1>2. \A q \in Req \ {r} : /\ req'[q].kind = req[q].kind /\ req'[q].admitted = req[q].admitted
                           /\ req'[q].window = req[q].window /\ req'[q].pc = req[q].pc
  BY OthersKnown
<1>3. Capacity \in Nat \ {0} /\ w.count \in Nat /\ window[k].count \in Nat
  BY CapacityAssumption DEF OwnInv, TypeOK
<1>4. ASSUME NEW j, NEW i
      PROVE  /\ AdmittedNext(j, i) = IF Admits(w) /\ j = k /\ i = w.id
                                    THEN AdmittedIn(j, i) \cup {r} ELSE AdmittedIn(j, i)
             /\ r \notin AdmittedIn(j, i)
  BY <1>1, <1>2 DEF AdmittedIn, AdmittedNext
<1>5. ASSUME NEW j, NEW i
      PROVE  /\ Cardinality(AdmittedNext(j, i)) \in Nat /\ Cardinality(AdmittedIn(j, i)) \in Nat
             /\ Cardinality(AdmittedNext(j, i)) =
                  Cardinality(AdmittedIn(j, i)) + IF Admits(w) /\ j = k /\ i = w.id THEN 1 ELSE 0
  <2>1. IsFiniteSet(AdmittedIn(j, i)) /\ Cardinality(AdmittedIn(j, i)) \in Nat
    BY AdmittedFinite
  <2>2. Cardinality(AdmittedIn(j, i) \cup {r}) = Cardinality(AdmittedIn(j, i)) + 1
    BY <1>4, <2>1, FS_AddElement
  <2>3. CASE Admits(w) /\ j = k /\ i = w.id
    <3>1. AdmittedNext(j, i) = AdmittedIn(j, i) \cup {r}
      BY <1>4, <2>3
    <3> QED
      BY <2>1, <2>2, <2>3, <3>1
  <2>4. CASE ~(Admits(w) /\ j = k /\ i = w.id)
    <3>1. AdmittedNext(j, i) = AdmittedIn(j, i)
      BY <1>4, <2>4
    <3> QED
      BY <2>1, <2>4, <3>1
  <2> QED
    BY <2>3, <2>4
<1>6. \/ Cardinality(AdmittedNext(k, w.id)) >= Capacity
      \/ Cardinality(AdmittedNext(k, w.id)) >= w.count
  <2>1. CASE w.count = 1
    BY <1>3, <1>5, <2>1 DEF Admits
  <2>2. CASE window[k].count > 0 /\ w.id = window[k].id /\ w.count = window[k].count + 1
    <3>1. \/ Cardinality(AdmittedIn(k, w.id)) >= Capacity
          \/ Cardinality(AdmittedIn(k, w.id)) >= window[k].count
      BY <2>2 DEF LimitInv
    <3> QED
      BY <1>3, <1>5, <2>2, <3>1 DEF Admits
  <2> QED
    BY <2>1, <2>2
<1>7. ~Admits(w) => Cardinality(AdmittedNext(k, w.id)) >= Capacity
  BY <1>3, <1>5, <1>6 DEF Admits
<1>8. ASSUME NEW q \in Req, req'[q].pc \in {"new", "limit", "consume"} PROVE ~req'[q].admitted
  BY <1>2, <1>8 DEF LimitInv
<1>9. ASSUME NEW j \in Route, window'[j].count > 0
      PROVE  \/ Cardinality(AdmittedNext(j, window'[j].id)) >= Capacity
             \/ Cardinality(AdmittedNext(j, window'[j].id)) >= window'[j].count
  <2>1. window'[j] = IF j = k THEN w ELSE window[j]
    BY <1>9 DEF NoWindow
  <2>2. CASE j = k
    BY <1>6, <2>1, <2>2
  <2>3. CASE j # k
    <3>1. \/ Cardinality(AdmittedIn(j, window[j].id)) >= Capacity
          \/ Cardinality(AdmittedIn(j, window[j].id)) >= window[j].count
      BY <1>9, <2>1, <2>3 DEF LimitInv
    <3> QED
      BY <1>4, <2>1, <2>3, <3>1
  <2> QED
    BY <2>2, <2>3
<1>10. ASSUME NEW q \in Req, req'[q].pc = "limited"
       PROVE  Cardinality(AdmittedNext(req'[q].kind, req'[q].window)) >= Capacity
  <2>1. CASE q = r
    BY <1>7, <1>10, <2>1
  <2>2. CASE q # r
    <3>1. req[q].pc = "limited" /\ req'[q].kind = req[q].kind /\ req'[q].window = req[q].window
      BY <1>2, <1>10, <2>2
    <3>2. Cardinality(AdmittedIn(req[q].kind, req[q].window)) >= Capacity
      BY <3>1, WithIsIn DEF LimitInv, RejectedOnlyWhenFull
    <3>3. PICK j, i : j = req[q].kind /\ i = req[q].window
      OBVIOUS
    <3>4. Cardinality(AdmittedNext(j, i)) >= Capacity
      BY <1>3, <1>5, <3>2, <3>3
    <3> QED
      BY <3>1, <3>3, <3>4
  <2> QED
    BY <2>1, <2>2
<1> QED
  BY <1>8, <1>9, <1>10, LimitNext

\* What the limiters make of a window.
LEMMA WindowMoves ==
  ASSUME OwnInv, NEW k \in Route, NEW at \in Nat
  PROVE  /\ \/ LocalWindow(k).count = 1
            \/ /\ window[k].count > 0 /\ LocalWindow(k).id = window[k].id
               /\ LocalWindow(k).count = window[k].count + 1
         /\ \/ SharedWindow(k, at).count = 1
            \/ /\ window[k].count > 0 /\ SharedWindow(k, at).id = window[k].id
               /\ SharedWindow(k, at).count = window[k].count + 1
         /\ CheckLocal(k) => \A j \in Route : window'[j] = IF j = k THEN LocalWindow(k) ELSE window[j]
         /\ CheckShared(k, at) =>
              \A j \in Route : \/ window'[j] = NoWindow
                               \/ window'[j] = IF j = k THEN SharedWindow(k, at) ELSE window[j]
<1>1. window \in [Route -> [id : Nat, count : Nat]]
  BY DEF OwnInv, TypeOK
<1>2. window[k] \in [id : Nat, count : Nat] /\ window[k].count \in Nat
  BY <1>1
<1>3. \/ LocalWindow(k).count = 1
      \/ /\ window[k].count > 0 /\ LocalWindow(k).id = window[k].id
         /\ LocalWindow(k).count = window[k].count + 1
  <2>1. CASE window[k].count = 0 \/ now - window[k].id >= WindowSeconds
    BY <2>1 DEF LocalWindow
  <2>2. CASE ~(window[k].count = 0 \/ now - window[k].id >= WindowSeconds)
    BY <1>2, <2>2 DEF LocalWindow
  <2> QED
    BY <2>1, <2>2
<1>4. \/ SharedWindow(k, at).count = 1
      \/ /\ window[k].count > 0 /\ SharedWindow(k, at).id = window[k].id
         /\ SharedWindow(k, at).count = window[k].count + 1
  BY <1>2 DEF SharedWindow
<1> DEFINE v == [window EXCEPT ![k] = SharedWindow(k, at)]
<1>5. \A j \in Route : v[j] = IF j = k THEN SharedWindow(k, at) ELSE window[j]
  BY <1>1
<1> HIDE DEF v
<1>6. \A j \in Route : Pruned(v, at)[j] = NoWindow \/ Pruned(v, at)[j] = v[j]
  BY DEF Pruned
<1>7. CheckShared(k, at) => window' = Pruned(v, at)
  BY DEF CheckShared, v
<1>8. CheckLocal(k) => \A j \in Route : window'[j] = IF j = k THEN LocalWindow(k) ELSE window[j]
  BY <1>1 DEF CheckLocal
<1> QED
  BY <1>3, <1>4, <1>5, <1>6, <1>7, <1>8

LEMMA LimitMovesOn ==
  ASSUME OwnInv, LimitInv, NEW r \in Req, LimitLocally(r) \/ Consume(r)
  PROVE  LimitInv'
<1>1. PICK k, at : k = req[r].kind /\ at = req[r].at
  OBVIOUS
<1>2. req[r] \in Request /\ req[r].pc \in {"limit", "consume"} /\ k \in Route /\ at \in Nat
  BY <1>1, RequestTyped, RouteOf DEF LimitLocally, Consume, Request
<1>3. \A q \in Req \ {r} : Same(q)
  BY LimitMoves, StepsAlone
<1>4. ASSUME NEW w \in [id : Nat, count : Nat], Decide(r, w),
             \/ w.count = 1
             \/ window[k].count > 0 /\ w.id = window[k].id /\ w.count = window[k].count + 1,
             \A j \in Route : window'[j] = NoWindow \/ window'[j] = IF j = k THEN w ELSE window[j]
      PROVE  LimitInv'
  <2> DEFINE p == IF Admits(w) THEN "resolve" ELSE "limited"
             s == [req[r] EXCEPT !.pc = p, !.at = 0, !.admitted = Admits(w), !.window = w.id]
  <2>1. Become(r, s)
    BY <1>4 DEF Decide
  <2> HIDE DEF p
  <2>2. s.pc = p /\ s.kind = k /\ s.admitted = Admits(w) /\ s.window = w.id
    BY <1>1, <1>2 DEF Request
  <2>3. req'[r] = s
    BY <2>1, Becomes
  <2> HIDE DEF s
  <2> QED
    BY <1>1, <1>2, <1>3, <1>4, <2>2, <2>3, LimitCounts DEF p
<1>5. CASE LimitLocally(r)
  <2>1. CheckLocal(k) /\ Decide(r, LocalWindow(k))
    BY <1>1, <1>5 DEF LimitLocally
  <2>2. LocalWindow(k) \in [id : Nat, count : Nat]
    BY <1>2, WindowTypes
  <2>3. /\ \/ LocalWindow(k).count = 1
           \/ /\ window[k].count > 0 /\ LocalWindow(k).id = window[k].id
              /\ LocalWindow(k).count = window[k].count + 1
        /\ \A j \in Route : window'[j] = IF j = k THEN LocalWindow(k) ELSE window[j]
    BY <1>2, <2>1, WindowMoves
  <2> QED
    BY <1>4, <2>1, <2>2, <2>3
<1>6. CASE Consume(r)
  <2>1. CheckShared(k, at) /\ Decide(r, SharedWindow(k, at))
    BY <1>1, <1>6 DEF Consume
  <2>2. SharedWindow(k, at) \in [id : Nat, count : Nat]
    BY <1>2, WindowTypes
  <2>3. /\ \/ SharedWindow(k, at).count = 1
           \/ /\ window[k].count > 0 /\ SharedWindow(k, at).id = window[k].id
              /\ SharedWindow(k, at).count = window[k].count + 1
        /\ \A j \in Route : \/ window'[j] = NoWindow
                            \/ window'[j] = IF j = k THEN SharedWindow(k, at) ELSE window[j]
    BY <1>2, <2>1, WindowMoves
  <2> QED
    BY <1>4, <2>1, <2>2, <2>3
<1> QED
  BY <1>5, <1>6

\* A step of r that counts nobody.
Quiet(r) ==
    /\ \A q \in Req \ {r} : Same(q)
    /\ UNCHANGED <<config, now, window>>
    /\ req'[r].kind = req[r].kind /\ req'[r].admitted = req[r].admitted
    /\ req'[r].window = req[r].window /\ req'[r].pc # "limited"
    /\ req'[r].pc \in {"new", "limit", "consume"} => req[r].pc \in {"new", "limit"}
    /\ req'[r].pc = "consume" => config.limiter = "sql"

LEMMA QuietElsewhere ==
  ASSUME NEW r \in Req, Elsewhere(r), UNCHANGED <<config, now, window>>, \A q \in Req \ {r} : Same(q)
  PROVE  Quiet(r)
  BY DEF Quiet, Elsewhere, Keeps

\* The steps before the limit, and those of remember.
LEMMA QuietBefore ==
  ASSUME OwnInv, NEW r \in Req,
         Receive(r) \/ Remember(r) \/ ReadClock(r) \/ Store(r) \/ Enforce(r)
  PROVE  Quiet(r)
<1>1. req[r] \in Request
  BY RequestTyped
<1>2. \A q \in Req \ {r} : Same(q)
  BY ArrivalMoves, LimitMoves, MemoryMoves, StepsAlone
<1>3. UNCHANGED <<config, now, window>>
  BY DEF Receive, Remember, ReadClock, Store, Enforce, Stores
<1>4. ASSUME NEW s, Become(r, s), s.kind = req[r].kind, s.admitted = req[r].admitted,
             s.window = req[r].window, s.pc \notin {"new", "limited"},
             s.pc \in {"limit", "consume"} => req[r].pc \in {"new", "limit"},
             s.pc = "consume" => config.limiter = "sql"
      PROVE  Quiet(r)
  <2>1. req'[r] = s
    BY <1>4, Becomes
  <2> QED
    BY <1>2, <1>3, <1>4, <2>1 DEF Quiet
<1>5. ASSUME NEW p \in {"resolve", "limit", "enforce", "remembered"}, Go(r, p),
             p = "limit" => req[r].pc = "new"
      PROVE  Quiet(r)
  <2> DEFINE s == [req[r] EXCEPT !.pc = p]
  <2>1. /\ s.pc = p /\ s.kind = req[r].kind /\ s.admitted = req[r].admitted
        /\ s.window = req[r].window /\ Become(r, s)
    BY <1>1, <1>5 DEF Request, Go, Become
  <2> HIDE DEF s
  <2> QED
    BY <1>4, <1>5, <2>1
<1>6. CASE Receive(r)
  BY <1>5, <1>6 DEF Receive
<1>7. CASE Remember(r)
  <2> DEFINE n == Cardinality({q \in Req : req[q].kind = "remember" /\ req[q].pc # "new"})
             s == [req[r] EXCEPT !.pc = "store", !.at = now, !.before = n]
  <2>1. Become(r, s)
    BY <1>7 DEF Remember
  <2> HIDE DEF n
  <2>2. /\ s.pc = "store" /\ s.kind = req[r].kind /\ s.admitted = req[r].admitted
        /\ s.window = req[r].window
    BY <1>1 DEF Request
  <2> HIDE DEF s
  <2> QED
    BY <1>4, <2>1, <2>2
<1>8. CASE ReadClock(r)
  <2> DEFINE s == [req[r] EXCEPT !.pc = "consume", !.at = now]
  <2>1. Become(r, s) /\ req[r].pc = "limit" /\ config.limiter = "sql"
    BY <1>8 DEF ReadClock
  <2>2. /\ s.pc = "consume" /\ s.kind = req[r].kind /\ s.admitted = req[r].admitted
        /\ s.window = req[r].window
    BY <1>1 DEF Request
  <2> HIDE DEF s
  <2> QED
    BY <1>4, <2>1, <2>2
<1>9. CASE Store(r) \/ Enforce(r)
  BY <1>5, <1>9 DEF Store, Enforce
<1> QED
  BY <1>6, <1>7, <1>8, <1>9

\* What the limits have to look at.
LEMMA LimitSteps ==
  ASSUME OwnInv, [Next]_vars
  PROVE  \/ TimePasses \/ UNCHANGED vars
         \/ \E r \in Req : LimitLocally(r) \/ Consume(r) \/ Quiet(r)
<1>1. ASSUME NEW r \in Req, Receive(r) \/ Remember(r) \/ ReadClock(r) \/ Store(r) \/ Enforce(r)
      PROVE  Quiet(r)
  BY <1>1, QuietBefore
<1>2. ASSUME NEW r \in Req, NEW x \in SessionId, CreateSession(r, x) PROVE Quiet(r)
  BY <1>2, ElsewhereEarly, CreateSaves, QuietElsewhere DEF CreateSession
<1>3. ASSUME NEW r \in Req, \/ NotFound(r) \/ Purge(r) \/ Denied(r) \/ Resolve(r) \/ Ensure(r)
                            \/ Recall(r) \/ Search(r)
      PROVE  Quiet(r)
  <2>1. \A q \in Req \ {r} : Same(q)
    BY <1>3, LookupMoves, ResolveMoves, MemoryMoves, StepsAlone
  <2>2. UNCHANGED <<config, now, window>>
    BY <1>3 DEF NotFound, Purge, Denied, Resolve, Ensure, Recall, Search, Stores
  <2> QED
    BY <1>3, <2>1, <2>2, ElsewhereEarly, QuietElsewhere
<1>4. ASSUME NEW r \in Req, StartGraph(r) \/ StartRunner(r) \/ Disappear(r) PROVE Quiet(r)
  <2>1. \A q \in Req \ {r} : Same(q)
    BY <1>4, StartMoves, ModelMoves, StepsAlone
  <2>2. UNCHANGED <<config, now, window>>
    BY <1>4 DEF StartGraph, StartRunner, Disappear, Stores
  <2> QED
    BY <1>4, <2>1, <2>2, ElsewhereEarly, QuietElsewhere
<1>5. ASSUME NEW r \in Req, \/ PersistNothing(r) \/ PersistShared(r) \/ LoadView(r) \/ SaveView(r)
                            \/ ModelAnswers(r) \/ ModelFails(r) \/ CommitShared(r) \/ CommitCopy(r)
      PROVE  Quiet(r)
  <2>1. \A q \in Req \ {r} : Same(q)
    BY <1>5, PersistMoves, PersistSaves, ViewSaves, ModelMoves, CommitSaves, StepsAlone DEF SavesTo
  <2>2. UNCHANGED <<config, now, window>>
    BY <1>5 DEF PersistNothing, PersistShared, LoadView, SaveView, ModelAnswers, ModelFails,
         CommitShared, CommitCopy, Stores
  <2> QED
    BY <1>5, <2>1, <2>2, ElsewhereLate, QuietElsewhere
<1> QED
  BY <1>1, <1>2, <1>3, <1>4, <1>5 DEF Next

LEMMA LimitStarts == Init => LimitInv
<1> SUFFICES ASSUME Init PROVE LimitInv
  OBVIOUS
<1>1. \A r \in Req : req[r].pc = "new" /\ req[r].admitted = FALSE
  BY DEF Init
<1>2. \A k \in Route : window[k].count = 0
  BY DEF Init, LimitInit, NoWindow
<1> QED
  BY <1>1, <1>2 DEF LimitInv, RejectedOnlyWhenFull

LEMMA IdleLimit == ASSUME LimitInv, UNCHANGED <<req, window>> PROVE LimitInv'
  BY DEF LimitInv, RejectedOnlyWhenFull, AdmittedIn, AdmittedWith

LEMMA LimitKept == OwnInv /\ LimitInv /\ [Next]_vars => LimitInv'
<1> SUFFICES ASSUME OwnInv, LimitInv, [Next]_vars PROVE LimitInv'
  OBVIOUS
<1>1. CASE TimePasses \/ UNCHANGED vars
  BY <1>1, IdleLimit DEF TimePasses, vars
<1>2. ASSUME NEW r \in Req, LimitLocally(r) \/ Consume(r) PROVE LimitInv'
  BY <1>2, LimitMovesOn
<1>3. ASSUME NEW r \in Req, Quiet(r) PROVE LimitInv'
  BY <1>3, LimitQuiet DEF Quiet
<1> QED
  BY <1>1, <1>2, <1>3, LimitSteps

\* The count of a window is covered by requests that were admitted in it, or
\* Capacity requests were: the count never runs ahead of what it counts.
THEOREM LimitInvariant == Spec => []LimitInv
<1>1. Init => LimitInv
  BY LimitStarts
<1>2. OwnInv /\ LimitInv /\ [Next]_vars => LimitInv'
  BY LimitKept
<1> QED
  BY <1>1, <1>2, OwnInvariant, PTL DEF Spec

\* A request is refused by the limit only if Capacity others of its window were
\* admitted, in whatever order the transactions that read the clock reach the
\* shared table, and although a window that was deleted can come back.
THEOREM RefusalsAreDue == Spec => []RejectedOnlyWhenFull
<1>1. LimitInv => RejectedOnlyWhenFull
  BY DEF LimitInv
<1> QED
  BY <1>1, LimitInvariant, PTL

-----------------------------------------------------------------------------
\* The budget of a process

LEMMA AdmittedCount ==
  ASSUME OwnInv, LimitInv, NEW k, NEW i, NEW r \in Req, ~req[r].admitted
  PROVE  /\ Cardinality(AdmittedIn(k, i)) \in Nat
         /\ Cardinality(AdmittedIn(k, i) \cup {r}) = Cardinality(AdmittedIn(k, i)) + 1
<1>1. r \notin AdmittedIn(k, i)
  BY DEF AdmittedIn
<1> QED
  BY <1>1, AdmittedFinite, FS_AddElement

LEMMA BudgetNext ==
  ASSUME config'.limiter = "memory" =>
             /\ \A q \in Req :
                  /\ req'[q].pc # "consume"
                  /\ req'[q].admitted => /\ req'[q].kind \in Route
                                         /\ window'[req'[q].kind].count > 0
                                         /\ req'[q].window <= window'[req'[q].kind].id
                                         /\ Cardinality(AdmittedNext(req'[q].kind, req'[q].window))
                                              <= Capacity
             /\ \A k \in Route : /\ window'[k].id <= now'
                                 /\ Cardinality(AdmittedNext(k, window'[k].id)) <= window'[k].count
  PROVE  BudgetInv'
<1>1. \A k : AdmittedIn(k, window[k].id)' = AdmittedNext(k, window'[k].id)
  BY DEF AdmittedIn, AdmittedNext
<1>2. \A q : AdmittedWith(q)' = AdmittedNext(req'[q].kind, req'[q].window)
  BY DEF AdmittedWith, AdmittedNext
<1>3. config'.limiter = "memory" => WithinBudget'
  BY <1>2 DEF WithinBudget
<1> QED
  BY <1>1, <1>3 DEF BudgetInv

LEMMA BudgetQuiet ==
  ASSUME OwnInv, BudgetInv, NEW r \in Req, Quiet(r)
  PROVE  BudgetInv'
<1> SUFFICES ASSUME config.limiter = "memory" PROVE BudgetInv'
  BY BudgetNext DEF Quiet
<1>1. \A q \in Req : /\ req'[q].kind = req[q].kind /\ req'[q].admitted = req[q].admitted
                     /\ req'[q].window = req[q].window
  BY OthersKnown DEF Quiet
<1>2. \A q \in Req : req'[q].pc # "consume"
  BY OthersKnown DEF Quiet, BudgetInv
<1>3. \A k, i : AdmittedNext(k, i) = AdmittedIn(k, i)
  BY <1>1 DEF AdmittedIn, AdmittedNext
<1>4. ASSUME NEW q \in Req, req'[q].admitted
      PROVE  /\ req'[q].kind \in Route /\ window'[req'[q].kind].count > 0
             /\ req'[q].window <= window'[req'[q].kind].id
             /\ Cardinality(AdmittedNext(req'[q].kind, req'[q].window)) <= Capacity
  <2>1. req[q].admitted /\ window' = window
    BY <1>1, <1>4 DEF Quiet
  <2>2. Cardinality(AdmittedIn(req[q].kind, req[q].window)) <= Capacity
    BY <2>1, WithIsIn DEF BudgetInv, WithinBudget
  <2> QED
    BY <1>1, <1>3, <2>1, <2>2 DEF BudgetInv
<1>5. \A k \in Route : /\ window'[k].id <= now'
                      /\ Cardinality(AdmittedNext(k, window'[k].id)) <= window'[k].count
  BY <1>3 DEF Quiet, BudgetInv
<1> QED
  BY <1>2, <1>4, <1>5, BudgetNext

\* A window begins when the one before it is over, so later than it began.
LEMMA LocalWindowIs ==
  ASSUME OwnInv, NEW k \in Route
  PROVE  \/ /\ LocalWindow(k).count = 1 /\ LocalWindow(k).id = now
            /\ window[k].count = 0 \/ window[k].id < now
         \/ /\ window[k].count > 0 /\ LocalWindow(k).id = window[k].id
            /\ LocalWindow(k).count = window[k].count + 1
<1>1. window[k] \in [id : Nat, count : Nat] /\ window[k].count \in Nat /\ window[k].id \in Nat
  BY DEF OwnInv, TypeOK
<1>2. now \in Nat /\ WindowSeconds \in Nat \ {0}
  BY NowTyped, CapacityAssumption
<1>3. CASE window[k].count = 0 \/ now - window[k].id >= WindowSeconds
  BY <1>1, <1>2, <1>3 DEF LocalWindow
<1>4. CASE ~(window[k].count = 0 \/ now - window[k].id >= WindowSeconds)
  BY <1>1, <1>4 DEF LocalWindow
<1> QED
  BY <1>3, <1>4

LEMMA BudgetStarts == Init => BudgetInv
<1> SUFFICES ASSUME Init PROVE BudgetInv
  OBVIOUS
<1>1. \A r \in Req : req[r].pc = "new" /\ req[r].admitted = FALSE
  BY DEF Init
<1>2. \A k \in Route : window[k].count = 0 /\ window[k].id = 0
  BY DEF Init, LimitInit, NoWindow
<1>3. now = 0
  BY DEF Init, SetupInit
<1>4. \A k \in Route : AdmittedIn(k, window[k].id) = {}
  BY <1>1 DEF AdmittedIn
<1>5. \A k \in Route : Cardinality(AdmittedIn(k, window[k].id)) = 0
  BY <1>4, FS_EmptySet
<1>6. \A k \in Route : /\ window[k].id <= now
                      /\ Cardinality(AdmittedIn(k, window[k].id)) <= window[k].count
  BY <1>2, <1>3, <1>5
<1> QED
  BY <1>1, <1>6 DEF BudgetInv, WithinBudget

\* The request that the limiter of a process has counted.
LEMMA BudgetCounts ==
  ASSUME OwnInv, LimitInv, BudgetInv, NEW r \in Req, LimitLocally(r)
  PROVE  BudgetInv'
<1> DEFINE k == req[r].kind
           w == LocalWindow(k)
           p == IF Admits(w) THEN "resolve" ELSE "limited"
           s == [req[r] EXCEPT !.pc = p, !.at = 0, !.admitted = Admits(w), !.window = w.id]
<1>1. /\ config.limiter = "memory" /\ config' = config /\ now' = now
      /\ req[r].pc = "limit" /\ CheckLocal(k) /\ Become(r, s)
  BY DEF LimitLocally, Decide
<1>2. req[r] \in Request /\ k \in Route /\ w \in [id : Nat, count : Nat] /\ ~req[r].admitted
  BY <1>1, RequestTyped, RouteOf, WindowTypes DEF LimitInv
<1>3. /\ w.id \in Nat /\ w.count \in Nat /\ Admits(w) = (w.count <= Capacity) /\ Capacity \in Nat \ {0}
      /\ now \in Nat
  BY <1>2, NowTyped, CapacityAssumption DEF Admits
<1>4. \A j \in Route : window[j].id \in Nat /\ window[j].count \in Nat
  BY DEF OwnInv, TypeOK
<1>5. \/ w.count = 1 /\ w.id = now /\ (window[k].count = 0 \/ window[k].id < now)
      \/ window[k].count > 0 /\ w.id = window[k].id /\ w.count = window[k].count + 1
  BY <1>2, LocalWindowIs
<1>6. \A j \in Route : window'[j] = IF j = k THEN w ELSE window[j]
  BY <1>1, <1>2, WindowMoves
<1>7. req'[r] = s
  BY <1>1, Becomes
<1>8. s.pc = p /\ s.kind = k /\ s.admitted = Admits(w) /\ s.window = w.id /\ p # "consume"
  BY <1>2 DEF Request
<1>9. \A q \in Req \ {r} : /\ req'[q].kind = req[q].kind /\ req'[q].admitted = req[q].admitted
                           /\ req'[q].window = req[q].window /\ req'[q].pc = req[q].pc
  BY LimitMoves, StepsAlone, OthersKnown
<1> HIDE DEF s, p, w, k
<1>10. ASSUME NEW j, NEW i
       PROVE  AdmittedNext(j, i) = IF Admits(w) /\ j = k /\ i = w.id
                                   THEN AdmittedIn(j, i) \cup {r} ELSE AdmittedIn(j, i)
  BY <1>2, <1>7, <1>8, <1>9 DEF AdmittedIn, AdmittedNext
<1>11. ASSUME w.count = 1, w.id = now, window[k].count = 0 \/ window[k].id < now
       PROVE  AdmittedIn(k, w.id) = {}
  <2> SUFFICES ASSUME NEW q \in AdmittedIn(k, w.id) PROVE FALSE
    OBVIOUS
  <2>1. q \in Req /\ req[q].admitted /\ req[q].kind = k /\ req[q].window = now
    BY <1>11 DEF AdmittedIn
  <2>2. window[k].count > 0 /\ now <= window[k].id
    BY <1>1, <2>1 DEF BudgetInv
  <2> QED
    BY <1>2, <1>3, <1>4, <1>11, <2>2
<1>12. /\ Cardinality(AdmittedIn(k, w.id)) \in Nat
       /\ Cardinality(AdmittedIn(k, w.id) \cup {r}) = Cardinality(AdmittedIn(k, w.id)) + 1
  BY <1>2, AdmittedCount
<1>13. Cardinality(AdmittedIn(k, w.id)) + 1 <= w.count
  <2>1. CASE w.count = 1 /\ w.id = now /\ (window[k].count = 0 \/ window[k].id < now)
    BY <1>11, <2>1, FS_EmptySet
  <2>2. CASE window[k].count > 0 /\ w.id = window[k].id /\ w.count = window[k].count + 1
    <3>1. Cardinality(AdmittedIn(k, w.id)) <= window[k].count
      BY <1>1, <1>2, <2>2 DEF BudgetInv
    <3> QED
      BY <1>2, <1>4, <1>12, <2>2, <3>1
  <2> QED
    BY <1>5, <2>1, <2>2
<1>14. /\ Cardinality(AdmittedNext(k, w.id)) \in Nat /\ Cardinality(AdmittedNext(k, w.id)) <= w.count
       /\ Admits(w) => Cardinality(AdmittedNext(k, w.id)) <= Capacity
  <2>1. \/ AdmittedNext(k, w.id) = AdmittedIn(k, w.id) \cup {r}
        \/ AdmittedNext(k, w.id) = AdmittedIn(k, w.id)
    BY <1>10
  <2>2. \/ Cardinality(AdmittedNext(k, w.id)) = Cardinality(AdmittedIn(k, w.id)) + 1
        \/ Cardinality(AdmittedNext(k, w.id)) = Cardinality(AdmittedIn(k, w.id))
    BY <1>12, <2>1
  <2>3. Cardinality(AdmittedNext(k, w.id)) \in Nat /\ Cardinality(AdmittedNext(k, w.id)) <= w.count
    BY <1>3, <1>12, <1>13, <2>2
  <2>4. Admits(w) => w.count <= Capacity
    BY <1>3
  <2> QED
    BY <1>3, <2>3, <2>4
<1>15. ASSUME NEW q \in Req, q # r, req'[q].admitted
       PROVE  /\ req'[q].kind \in Route /\ window'[req'[q].kind].count > 0
              /\ req'[q].window <= window'[req'[q].kind].id
              /\ Cardinality(AdmittedNext(req'[q].kind, req'[q].window)) <= Capacity
  <2>1. req'[q].kind = req[q].kind /\ req'[q].window = req[q].window /\ req[q].admitted
    BY <1>9, <1>15
  <2>2. /\ req[q].kind \in Route /\ window[req[q].kind].count > 0
        /\ req[q].window <= window[req[q].kind].id
        /\ Cardinality(AdmittedIn(req[q].kind, req[q].window)) <= Capacity
    BY <1>1, <2>1, WithIsIn DEF BudgetInv, WithinBudget
  <2>3. req[q].window \in Nat /\ window[req[q].kind].id <= now
    BY <1>1, <2>2, RequestTyped DEF BudgetInv, Request
  <2>4. window'[req[q].kind].count > 0 /\ req[q].window <= window'[req[q].kind].id
    <3>1. CASE req[q].kind = k
      BY <1>2, <1>3, <1>4, <1>5, <1>6, <2>2, <2>3, <3>1
    <3>2. CASE req[q].kind # k
      BY <1>6, <2>2, <3>2
    <3> QED
      BY <3>1, <3>2
  <2>5. Cardinality(AdmittedNext(req[q].kind, req[q].window)) <= Capacity
    <3>1. CASE Admits(w) /\ req[q].kind = k /\ req[q].window = w.id
      BY <1>14, <3>1
    <3>2. CASE ~(Admits(w) /\ req[q].kind = k /\ req[q].window = w.id)
      BY <1>10, <2>2, <3>2
    <3> QED
      BY <3>1, <3>2
  <2> QED
    BY <2>1, <2>2, <2>4, <2>5
<1>16. req'[r].admitted => /\ req'[r].kind \in Route /\ window'[req'[r].kind].count > 0
                          /\ req'[r].window <= window'[req'[r].kind].id
                          /\ Cardinality(AdmittedNext(req'[r].kind, req'[r].window)) <= Capacity
  <2>1. req'[r].kind = k /\ req'[r].window = w.id /\ req'[r].admitted = Admits(w) /\ window'[k] = w
    BY <1>2, <1>6, <1>7, <1>8
  <2>2. w.count > 0
    BY <1>2, <1>3, <1>4, <1>5
  <2> QED
    BY <1>2, <1>3, <1>14, <2>1, <2>2
<1>17. \A j \in Route : /\ window'[j].id <= now'
                       /\ Cardinality(AdmittedNext(j, window'[j].id)) <= window'[j].count
  <2> SUFFICES ASSUME NEW j \in Route
               PROVE  /\ window'[j].id <= now'
                      /\ Cardinality(AdmittedNext(j, window'[j].id)) <= window'[j].count
    OBVIOUS
  <2>1. window[j].id <= now /\ Cardinality(AdmittedIn(j, window[j].id)) <= window[j].count
    BY <1>1 DEF BudgetInv
  <2>2. CASE j = k
    BY <1>1, <1>3, <1>5, <1>6, <1>14, <2>1, <2>2
  <2>3. CASE j # k
    BY <1>1, <1>6, <1>10, <2>1, <2>3
  <2> QED
    BY <2>2, <2>3
<1>18. \A q \in Req : req'[q].pc # "consume"
  BY <1>1, <1>7, <1>8, <1>9 DEF BudgetInv
<1> QED
  BY <1>15, <1>16, <1>17, <1>18, BudgetNext

LEMMA BudgetPasses ==
  ASSUME OwnInv, BudgetInv, TimePasses \/ UNCHANGED vars
  PROVE  BudgetInv'
<1>1. UNCHANGED <<config, req, window>> /\ now \in Nat /\ now' \in Nat /\ now <= now'
  BY NowTyped DEF TimePasses, Tick, vars
<1>2. \A k, i : AdmittedNext(k, i) = AdmittedIn(k, i)
  BY <1>1 DEF AdmittedIn, AdmittedNext
<1>3. \A q \in Req : AdmittedWith(q) = AdmittedIn(req[q].kind, req[q].window)
  BY WithIsIn
<1>4. \A k \in Route : window[k].id \in Nat
  BY DEF OwnInv, TypeOK
<1>5. config.limiter = "memory" => \A k \in Route : window'[k].id <= now'
  BY <1>1, <1>4 DEF BudgetInv
<1> QED
  BY <1>1, <1>2, <1>3, <1>5, BudgetNext DEF BudgetInv, WithinBudget

LEMMA BudgetKept == OwnInv /\ LimitInv /\ BudgetInv /\ [Next]_vars => BudgetInv'
<1> SUFFICES ASSUME OwnInv, LimitInv, BudgetInv, [Next]_vars PROVE BudgetInv'
  OBVIOUS
<1>1. ASSUME NEW r \in Req, Consume(r) PROVE BudgetInv'
  <2>1. config.limiter # "memory" /\ config' = config
    BY <1>1 DEF Consume, BudgetInv
  <2> QED
    BY <2>1 DEF BudgetInv
<1>2. ASSUME NEW r \in Req, LimitLocally(r) PROVE BudgetInv'
  BY <1>2, BudgetCounts
<1>3. ASSUME NEW r \in Req, Quiet(r) PROVE BudgetInv'
  BY <1>3, BudgetQuiet
<1>4. CASE TimePasses \/ UNCHANGED vars
  BY <1>4, BudgetPasses
<1> QED
  BY <1>1, <1>2, <1>3, <1>4, LimitSteps

\* The windows of the limiter of a process begin one after another, and the one
\* that is on has counted every request that it admitted.
THEOREM BudgetInvariant == Spec => []BudgetInv
<1>1. Init => BudgetInv
  BY BudgetStarts
<1>2. OwnInv /\ LimitInv /\ BudgetInv /\ [Next]_vars => BudgetInv'
  BY BudgetKept
<1> QED
  BY <1>1, <1>2, OwnInvariant, LimitInvariant, PTL DEF Spec

\* A process admits at most Capacity requests of a key in a window.
THEOREM LocalBudgetStays == Spec => []LocalBudgetIsKept
<1>1. BudgetInv => LocalBudgetIsKept
  BY DEF BudgetInv, LocalBudgetIsKept
<1> QED
  BY <1>1, BudgetInvariant, PTL

-----------------------------------------------------------------------------
\* What is remembered

LEMMA AfterFinite ==
  ASSUME OwnInv, EntryInv, NEW r \in Req
  PROVE  IsFiniteSet(After(r)) /\ Cardinality(After(r)) \in Nat
<1>1. ASSUME NEW q \in After(r) PROVE q \in Begun
  <2>1. q \in Req /\ req[q].before > req[r].before /\ req[r].before \in Nat
    BY RequestTyped DEF After, Request
  <2>2. req[q].before # 0
    BY <2>1
  <2> QED
    BY <2>1, <2>2 DEF EntryInv, Begun
<1>2. After(r) \subseteq Begun
  BY <1>1
<1> QED
  BY <1>2, FS_Subset, FS_CardinalityType DEF OwnInv

\* An entry tells whose it is; two entries are of two requests.
LEMMA EnforceKeeps ==
  ASSUME OwnInv, EntryInv, config.memory = "memory", NEW r \in Req, NEW u,
         NEW e \in entries, e.id = r, e \notin Enforced(u)
  PROVE  now - req[r].at >= Retention \/ Cardinality(After(r)) >= MaxEntries
<1> DEFINE kept == {d \in entries : ~(d.user = u /\ Outdated(d))}
           newer == {f \in Of(kept, e.user) : f.made > e.made}
<1>1. e.user = req[r].user /\ e.at = req[r].at /\ e.made = req[r].before
  BY DEF EntryInv
<1>2. Enforced(u) = {d \in kept : ~(d.user = u /\ BeyondLimit(d, kept))}
  BY DEF Enforced
<1>3. CASE Outdated(e)
  BY <1>1, <1>3 DEF Outdated
<1>4. CASE ~Outdated(e)
  <2>1. e \in kept /\ BeyondLimit(e, kept)
    BY <1>2, <1>4
  <2>2. Cardinality(newer) >= MaxEntries
    BY <2>1 DEF BeyondLimit, Newer
  <2> DEFINE g == [f \in newer |-> f.id]
  <2>3. ASSUME NEW f \in newer
        PROVE  f \in entries /\ f.id \in After(r)
    <3>1. f \in entries /\ f.user = e.user /\ f.made > e.made
      BY DEF Of
    <3>2. f.id \in Req
      BY <3>1 DEF OwnInv, TypeOK, Entry
    <3>3. f.user = req[f.id].user /\ f.made = req[f.id].before /\ req[f.id].kind = "remember"
      BY <3>1 DEF EntryInv
    <3> QED
      BY <1>1, <3>1, <3>2, <3>3 DEF After
  <2>4. ASSUME NEW f \in newer, NEW h \in newer, f.id = h.id
        PROVE  f = h
    <3>1. f \in entries /\ h \in entries
      BY <2>3
    <3>2. f \in Entry /\ h \in Entry
      BY <3>1 DEF OwnInv, TypeOK
    <3>3. f.user = h.user /\ f.at = h.at /\ f.made = h.made
      BY <2>4, <3>1 DEF EntryInv
    <3> QED
      BY <2>4, <3>2, <3>3 DEF Entry
  <2> HIDE DEF newer
  <2>5. g \in Injection(newer, After(r))
    BY <2>3, <2>4 DEF Injection, IsInjective
  <2>6. IsFiniteSet(newer) /\ Cardinality(newer) <= Cardinality(After(r))
    BY <2>5, AfterFinite, FS_Injection
  <2>7. Cardinality(newer) \in Nat /\ MaxEntries \in Nat
    BY <2>6, FS_CardinalityType, MemoryAssumption
  <2> QED
    BY <2>2, <2>6, <2>7, AfterFinite
<1> QED
  BY <1>3, <1>4

\* What the caller of r has remembered after r, it still has.
LEMMA AfterGrows ==
  ASSUME OwnInv, OwnInv', EntryInv, NEW r \in Req, req[r].pc # "new",
         \A q \in Req : /\ req'[q].kind = req[q].kind /\ req'[q].user = req[q].user
                        /\ req'[q].pc = "new" => req'[q].before = 0
                        /\ req[q].kind = "remember" /\ req[q].pc # "new" => req'[q].before = req[q].before,
         req[r].kind = "remember"
  PROVE  /\ Cardinality(After(r)) \in Nat /\ Cardinality(After(r)') \in Nat
         /\ Cardinality(After(r)) <= Cardinality(After(r)')
<1>1. /\ \A q \in Req : req[q].before \in Nat /\ req'[q].before \in Nat
      /\ IsFiniteSet(Begun')
  <2>1. \A q \in Req : req[q] \in Request /\ req'[q] \in Request
    BY DEF OwnInv, TypeOK
  <2> QED
    BY <2>1 DEF Request, OwnInv
<1>2. ASSUME NEW q \in Req, req[q].before > req[r].before PROVE req[q].pc # "new"
  BY <1>1, <1>2 DEF EntryInv
<1>3. ASSUME NEW q \in Req, req'[q].before > req'[r].before PROVE req'[q].pc # "new"
  BY <1>1, <1>3
<1>4. After(r) \subseteq After(r)'
  BY <1>2 DEF After
<1>5. After(r)' \subseteq Begun'
  BY <1>3 DEF After, Begun
<1>6. IsFiniteSet(After(r)')
  BY <1>1, <1>5, FS_Subset
<1> QED
  BY <1>4, <1>6, AfterFinite, FS_Subset, FS_CardinalityType

\* It suffices to look at r, and at what becomes of the entries.
LEMMA EntryAfter ==
  ASSUME OwnInv, OwnInv', EntryInv, NEW r \in Req, \A q \in Req \ {r} : Same(q),
         UNCHANGED <<config, now>>, req'[r].kind = req[r].kind, req'[r].user = req[r].user,
         req'[r].pc # "new", req'[r].pc = "store" => req[r].pc = "new",
         req[r].kind = "remember" /\ req[r].pc # "new" =>
             req'[r].before = req[r].before /\ req'[r].at = req[r].at,
         \/ entries' = entries \/ \E u : entries' = Enforced(u)
         \/ /\ req[r].pc = "store" /\ req'[r].pc = "enforce"
            /\ entries' = entries \cup {[id |-> r, user |-> req[r].user, at |-> req[r].at,
                                         made |-> req[r].before]},
         req'[r].pc \in {"enforce", "remembered"} =>
             \/ req[r].pc = "enforce"
             \/ req[r].pc = "store" /\ \E e \in entries' : e.id = r
  PROVE  EntryInv'
<1> DEFINE new == [id |-> r, user |-> req[r].user, at |-> req[r].at, made |-> req[r].before]
<1>1. \A q \in Req \ {r} : /\ req'[q].pc = req[q].pc /\ req'[q].kind = req[q].kind
                           /\ req'[q].user = req[q].user /\ req'[q].at = req[q].at
                           /\ req'[q].before = req[q].before
  BY OthersKnown
<1>2. \A q \in Req : req'[q].pc = "new" => req'[q].before = 0
  BY <1>1 DEF EntryInv
<1>3. ASSUME NEW e \in entries
      PROVE  /\ e.user = req'[e.id].user /\ e.at = req'[e.id].at /\ e.made = req'[e.id].before
             /\ req'[e.id].kind = "remember" /\ req'[e.id].pc \notin {"new", "store"}
  <2>1. e.id \in Req
    BY DEF OwnInv, TypeOK, Entry
  <2>2. /\ e.user = req[e.id].user /\ e.at = req[e.id].at /\ e.made = req[e.id].before
        /\ req[e.id].kind = "remember" /\ req[e.id].pc \notin {"new", "store"}
    BY DEF EntryInv
  <2>3. CASE e.id = r
    BY <2>2, <2>3
  <2>4. CASE e.id # r
    BY <1>1, <2>1, <2>2, <2>4
  <2> QED
    BY <2>3, <2>4
<1>4. ASSUME req[r].pc = "store", req'[r].pc = "enforce"
      PROVE  /\ new.user = req'[new.id].user /\ new.at = req'[new.id].at
             /\ new.made = req'[new.id].before
             /\ req'[new.id].kind = "remember" /\ req'[new.id].pc \notin {"new", "store"}
  <2>1. req[r].kind = "remember"
    BY <1>4, RequestTyped DEF RequestOK, PlaceOK
  <2> QED
    BY <1>4, <2>1
<1>5. ASSUME NEW e \in entries'
      PROVE  /\ e.user = req'[e.id].user /\ e.at = req'[e.id].at /\ e.made = req'[e.id].before
             /\ req'[e.id].kind = "remember" /\ req'[e.id].pc \notin {"new", "store"}
  <2>1. e \in entries \/ (e = new /\ req[r].pc = "store" /\ req'[r].pc = "enforce")
    BY EnforcedKeeps
  <2> QED
    BY <1>3, <1>4, <2>1
<1>6. ASSUME config.memory = "memory", NEW q \in Req, req'[q].pc \in {"enforce", "remembered"}
      PROVE  \/ \E e \in entries' : e.id = q
             \/ now - req'[q].at >= Retention
             \/ Cardinality(After(q)') >= MaxEntries
  <2>1. CASE q = r /\ req[r].pc = "store" /\ \E e \in entries' : e.id = r
    BY <2>1
  <2>2. CASE req[q].pc \in {"enforce", "remembered"}
    <3>1. req[q].kind = "remember" /\ req[q].pc # "new"
      BY <2>2, RequestTyped DEF RequestOK, PlaceOK
    <3>2. req'[q].at = req[q].at /\ req'[q].before = req[q].before
      BY <1>1, <3>1
    <3>3. \/ \E e \in entries' : e.id = q
          \/ now - req[q].at >= Retention
          \/ Cardinality(After(q)) >= MaxEntries
      <4>1. \/ \E e \in entries : e.id = q
            \/ now - req[q].at >= Retention
            \/ Cardinality(After(q)) >= MaxEntries
        BY <1>6, <2>2 DEF EntryInv, KeptOK
      <4> SUFFICES ASSUME NEW e \in entries, e.id = q, e \notin entries'
                   PROVE  now - req[q].at >= Retention \/ Cardinality(After(q)) >= MaxEntries
        BY <4>1
      <4>2. PICK u : entries' = Enforced(u)
        OBVIOUS
      <4> QED
        BY <1>6, <4>2, EnforceKeeps
    <3>4. /\ Cardinality(After(q)) \in Nat /\ Cardinality(After(q)') \in Nat
          /\ Cardinality(After(q)) <= Cardinality(After(q)')
      <4>1. \A p \in Req : /\ req'[p].kind = req[p].kind /\ req'[p].user = req[p].user
                           /\ req[p].kind = "remember" /\ req[p].pc # "new" => req'[p].before = req[p].before
        BY <1>1
      <4> QED
        BY <1>2, <3>1, <4>1, AfterGrows
    <3>5. MaxEntries \in Nat
      BY MemoryAssumption
    <3>6. Cardinality(After(q)) >= MaxEntries => Cardinality(After(q)') >= MaxEntries
      BY <3>4, <3>5
    <3> QED
      BY <3>2, <3>3, <3>6
  <2>3. req[q].pc \in {"enforce", "remembered"} \/ (q = r /\ req[r].pc = "store" /\ \E e \in entries' : e.id = r)
    BY <1>1, <1>6
  <2> QED
    BY <2>1, <2>2, <2>3
<1>7. ASSUME config.memory = "memory", NEW q \in Req, req'[q].pc \in {"enforce", "remembered"}
      PROVE  KeptOK(q)'
  BY <1>6, <1>7 DEF KeptOK, After
<1> HIDE DEF new
<1>9. (\A q \in Req : req[q].pc = "new" => req[q].before = 0)'
  BY <1>2
<1>10. (\A e \in entries : /\ e.user = req[e.id].user /\ e.at = req[e.id].at
                          /\ e.made = req[e.id].before
                          /\ req[e.id].kind = "remember" /\ req[e.id].pc \notin {"new", "store"})'
  BY <1>5
<1>11. (config.memory = "memory" =>
         \A q \in Req : req[q].pc \in {"enforce", "remembered"} => KeptOK(q))'
  BY <1>7
<1> QED
  BY <1>9, <1>10, <1>11 DEF EntryInv

LEMMA EntryElsewhere ==
  ASSUME OwnInv, OwnInv', EntryInv, NEW r \in Req, Elsewhere(r), \A q \in Req \ {r} : Same(q),
         UNCHANGED <<config, now>>, entries' = entries \/ \E u : entries' = Enforced(u)
  PROVE  EntryInv'
<1>1. /\ Keeps(r, req'[r]) /\ req'[r].pc \notin {"new", "store", "enforce", "remembered"}
      /\ req[r].kind = "remember" => req'[r].before = req[r].before
  BY DEF Elsewhere
<1> QED
  BY <1>1, EntryAfter DEF Keeps

\* The steps up to the limit's decision.
LEMMA EntryLimit ==
  ASSUME OwnInv, OwnInv', EntryInv, NEW r \in Req,
         Receive(r) \/ LimitLocally(r) \/ ReadClock(r) \/ Consume(r)
  PROVE  EntryInv'
<1>1. /\ req[r] \in Request /\ req[r].kind # "remember"
  BY RequestTyped, RouteOf, RouteAssumption DEF Receive, LimitLocally, ReadClock, Consume
<1>2. \A q \in Req \ {r} : Same(q)
  BY ArrivalMoves, LimitMoves, StepsAlone
<1>3. UNCHANGED <<config, now, entries>>
  BY DEF Receive, LimitLocally, ReadClock, Consume, Stores
<1>4. ASSUME NEW s, Become(r, s), s.kind = req[r].kind, s.user = req[r].user,
             s.pc \in {"resolve", "limited", "limit", "consume"}
      PROVE  EntryInv'
  <2>1. req'[r] = s
    BY <1>4, Becomes
  <2> QED
    BY <1>1, <1>2, <1>3, <1>4, <2>1, EntryAfter
<1>5. CASE Receive(r)
  <2> DEFINE p == IF config.limiter = "off" THEN "resolve" ELSE "limit"
             s == [req[r] EXCEPT !.pc = p]
  <2>1. Become(r, s) /\ p \in {"resolve", "limit"}
    BY <1>5 DEF Receive, Go, Become
  <2> HIDE DEF p
  <2>2. s.pc = p /\ s.kind = req[r].kind /\ s.user = req[r].user
    BY <1>1 DEF Request
  <2> HIDE DEF s
  <2> QED
    BY <1>4, <2>1, <2>2
<1>6. CASE ReadClock(r)
  <2> DEFINE s == [req[r] EXCEPT !.pc = "consume", !.at = now]
  <2>1. Become(r, s)
    BY <1>6 DEF ReadClock
  <2>2. s.pc = "consume" /\ s.kind = req[r].kind /\ s.user = req[r].user
    BY <1>1 DEF Request
  <2> HIDE DEF s
  <2> QED
    BY <1>4, <2>1, <2>2
<1>7. ASSUME NEW w, Decide(r, w) PROVE EntryInv'
  <2> DEFINE p == IF Admits(w) THEN "resolve" ELSE "limited"
             s == [req[r] EXCEPT !.pc = p, !.at = 0, !.admitted = Admits(w), !.window = w.id]
  <2>1. Become(r, s) /\ p \in {"resolve", "limited"}
    BY <1>7 DEF Decide
  <2> HIDE DEF p
  <2>2. s.pc = p /\ s.kind = req[r].kind /\ s.user = req[r].user
    BY <1>1 DEF Request
  <2> HIDE DEF s
  <2> QED
    BY <1>4, <2>1, <2>2
<1>8. CASE LimitLocally(r) \/ Consume(r)
  BY <1>7, <1>8 DEF LimitLocally, Consume
<1> QED
  BY <1>5, <1>6, <1>8

\* remember makes the entry, stores it and enforces the bounds.
LEMMA EntryMade ==
  ASSUME OwnInv, OwnInv', EntryInv, NEW r \in Req, Remember(r) \/ Store(r) \/ Enforce(r)
  PROVE  EntryInv'
<1>1. req[r] \in Request
  BY RequestTyped
<1>2. \A q \in Req \ {r} : Same(q)
  BY ArrivalMoves, MemoryMoves, StepsAlone
<1>3. UNCHANGED <<config, now>>
  BY DEF Remember, Store, Enforce, Stores
<1>4. CASE Remember(r)
  <2> DEFINE n == Cardinality({q \in Req : req[q].kind = "remember" /\ req[q].pc # "new"})
             s == [req[r] EXCEPT !.pc = "store", !.at = now, !.before = n]
  <2>1. Become(r, s) /\ req[r].pc = "new" /\ entries' = entries
    BY <1>4 DEF Remember, Stores
  <2> HIDE DEF n
  <2>2. s.pc = "store" /\ s.kind = req[r].kind /\ s.user = req[r].user
    BY <1>1 DEF Request
  <2>3. req'[r] = s
    BY <2>1, Becomes
  <2> HIDE DEF s
  <2> QED
    BY <1>2, <1>3, <2>1, <2>2, <2>3, EntryAfter
<1>5. ASSUME NEW p, Go(r, p)
      PROVE  /\ req'[r].pc = p /\ req'[r].kind = req[r].kind /\ req'[r].user = req[r].user
             /\ req'[r].at = req[r].at /\ req'[r].before = req[r].before
  <2> DEFINE s == [req[r] EXCEPT !.pc = p]
  <2>1. Become(r, s)
    BY <1>5 DEF Go, Become
  <2>2. /\ s.pc = p /\ s.kind = req[r].kind /\ s.user = req[r].user
        /\ s.at = req[r].at /\ s.before = req[r].before
    BY <1>1 DEF Request
  <2>3. req'[r] = s
    BY <2>1, Becomes
  <2> HIDE DEF s
  <2> QED
    BY <2>2, <2>3
<1>6. CASE Store(r)
  <2> DEFINE e == [id |-> r, user |-> req[r].user, at |-> req[r].at, made |-> req[r].before]
  <2>1. Go(r, "enforce") /\ entries' = entries \cup {e} /\ req[r].pc = "store"
    BY <1>6 DEF Store
  <2>2. \E d \in entries' : d.id = r
    <3>1. e \in entries' /\ e.id = r
      BY <2>1
    <3> HIDE DEF e
    <3> QED
      BY <3>1
  <2>3. /\ req'[r].pc = "enforce" /\ req'[r].kind = req[r].kind /\ req'[r].user = req[r].user
        /\ req'[r].at = req[r].at /\ req'[r].before = req[r].before
    BY <1>5, <2>1
  <2> QED
    BY <1>2, <1>3, <2>1, <2>2, <2>3, EntryAfter
<1>7. CASE Enforce(r)
  <2>1. Go(r, "remembered") /\ entries' = Enforced(req[r].user) /\ req[r].pc = "enforce"
    BY <1>7 DEF Enforce
  <2> QED
    BY <1>2, <1>3, <1>5, <2>1, EntryAfter
<1> QED
  BY <1>4, <1>6, <1>7

LEMMA EntryStarts == Init => EntryInv
<1> SUFFICES ASSUME Init PROVE EntryInv
  OBVIOUS
<1>1. \A r \in Req : req[r].pc = "new" /\ req[r].before = 0
  BY DEF Init
<1> QED
  BY <1>1 DEF Init, EntryInv

\* Time only makes entries older.
LEMMA IdleEntry ==
  ASSUME OwnInv, EntryInv, UNCHANGED <<config, entries, req>>, now' \in Nat, now' >= now
  PROVE  EntryInv'
<1>1. ASSUME NEW r \in Req, now - req[r].at >= Retention PROVE now' - req[r].at >= Retention
  <2>1. now \in Nat /\ req[r].at \in Nat /\ Retention \in Nat
    BY NowTyped, RequestTyped, MemoryAssumption DEF Request
  <2> QED
    BY <1>1, <2>1
<1>2. \A r \in Req : KeptOK(r) => KeptOK(r)'
  BY <1>1 DEF KeptOK, After
<1> QED
  BY <1>2 DEF EntryInv

LEMMA EntryKept == OwnInv /\ OwnInv' /\ EntryInv /\ [Next]_vars => EntryInv'
<1> SUFFICES ASSUME OwnInv, OwnInv', EntryInv, [Next]_vars PROVE EntryInv'
  OBVIOUS
<1>1. CASE TimePasses \/ UNCHANGED vars
  <2>1. now \in Nat
    BY NowTyped
  <2>2. now' \in Nat /\ now' >= now
    BY <1>1, <2>1 DEF TimePasses, Tick, vars
  <2> QED
    BY <1>1, <2>2, IdleEntry DEF TimePasses, Tick, vars
<1>2. ASSUME NEW r \in Req, \/ Receive(r) \/ Remember(r) \/ ReadClock(r) \/ Store(r) \/ Enforce(r)
                            \/ LimitLocally(r) \/ Consume(r)
      PROVE  EntryInv'
  BY <1>2, EntryLimit, EntryMade
<1>3. ASSUME NEW r \in Req, NEW x \in SessionId, CreateSession(r, x) PROVE EntryInv'
  BY <1>3, ElsewhereEarly, CreateSaves, EntryElsewhere DEF CreateSession
<1>4. ASSUME NEW r \in Req, \/ NotFound(r) \/ Purge(r) \/ Denied(r) \/ Resolve(r) \/ Ensure(r)
                            \/ Recall(r) \/ Search(r)
      PROVE  EntryInv'
  <2>1. \A q \in Req \ {r} : Same(q)
    BY <1>4, LookupMoves, ResolveMoves, MemoryMoves, StepsAlone
  <2>2. UNCHANGED <<config, now>> /\ (entries' = entries \/ entries' = Enforced(req[r].user))
    BY <1>4 DEF NotFound, Purge, Denied, Resolve, Ensure, Recall, Search, Stores
  <2> QED
    BY <1>4, <2>1, <2>2, ElsewhereEarly, EntryElsewhere
<1>5. ASSUME NEW r \in Req, StartGraph(r) \/ StartRunner(r) \/ Disappear(r) PROVE EntryInv'
  <2>1. \A q \in Req \ {r} : Same(q)
    BY <1>5, StartMoves, ModelMoves, StepsAlone
  <2>2. UNCHANGED <<config, now, entries>>
    BY <1>5 DEF StartGraph, StartRunner, Disappear, Stores
  <2> QED
    BY <1>5, <2>1, <2>2, ElsewhereEarly, EntryElsewhere
<1>6. ASSUME NEW r \in Req, \/ PersistNothing(r) \/ PersistShared(r) \/ LoadView(r) \/ SaveView(r)
                            \/ ModelAnswers(r) \/ ModelFails(r) \/ CommitShared(r) \/ CommitCopy(r)
      PROVE  EntryInv'
  <2>1. \A q \in Req \ {r} : Same(q)
    BY <1>6, PersistMoves, PersistSaves, ViewSaves, ModelMoves, CommitSaves, StepsAlone DEF SavesTo
  <2>2. UNCHANGED <<config, now, entries>>
    BY <1>6 DEF PersistNothing, PersistShared, LoadView, SaveView, ModelAnswers, ModelFails,
         CommitShared, CommitCopy, Stores
  <2> QED
    BY <1>6, <2>1, <2>2, ElsewhereLate, EntryElsewhere
<1> QED
  BY <1>1, <1>2, <1>3, <1>4, <1>5, <1>6 DEF Next

\* Each entry belongs to one request that remembered it, and one that is missing
\* has expired or has been followed by max_entries others of its caller.
THEOREM EntryInvariant == Spec => []EntryInv
<1>1. Init => EntryInv
  BY EntryStarts
<1>2. OwnInv /\ OwnInv' /\ EntryInv /\ [Next]_vars => EntryInv'
  BY EntryKept
<1> QED
  BY <1>1, <1>2, OwnInvariant, PTL DEF Spec

\* What remember has stored with the in-memory provider stays until the retention
\* has passed, or its caller has remembered max_entries things since.
THEOREM LocalMemoryStays == Spec => []LocalMemoryIsKept
<1>1. EntryInv => LocalMemoryIsKept
  BY DEF EntryInv, KeptOK, After, LocalMemoryIsKept, RememberedIsKept
<1> QED
  BY <1>1, EntryInvariant, PTL

-----------------------------------------------------------------------------
\* Lists of events

LEMMA RecentGrows ==
  ASSUME NEW q \in Seq(Message), NEW m \in Message, NEW a, NEW n \in Nat, Recent(q, a, n), ~In(m[1], a)
  PROVE  Recent(Append(q, m), a, n + 1)
<1> DEFINE b == Append(q, m)
<1>1. Len(q) \in Nat /\ Len(b) = Len(q) + 1 /\ b[Len(q) + 1] = m /\ \A j \in 1 .. Len(q) : b[j] = q[j]
  BY LenProperties, AppendProperties
<1>2. PICK i \in 0 .. Len(q) :
          /\ IF i = 0 THEN Len(q) >= n ELSE q[i] = Answered(a[Len(a)])
          /\ \A j \in i + 1 .. Len(q) : ~In(q[j][1], a)
  BY DEF Recent
<1> HIDE DEF b
<1>3. i \in 0 .. Len(b)
  BY <1>1
<1>4. IF i = 0 THEN Len(b) >= n + 1 ELSE b[i] = Answered(a[Len(a)])
  BY <1>1, <1>2
<1>5. ASSUME NEW j \in i + 1 .. Len(b) PROVE ~In(b[j][1], a)
  <2>1. j = Len(q) + 1 \/ j \in i + 1 .. Len(q)
    BY <1>1
  <2>2. CASE j = Len(q) + 1
    BY <1>1, <2>2
  <2>3. CASE j \in i + 1 .. Len(q)
    <3>1. j \in 1 .. Len(q)
      BY <2>3
    <3> QED
      BY <1>1, <1>2, <2>3, <3>1
  <2> QED
    BY <2>1, <2>2, <2>3
<1> QED
  BY <1>3, <1>4, <1>5 DEF Recent, b

LEMMA RecentAnswer ==
  ASSUME NEW q \in Seq(Message), NEW a, NEW n \in Nat, Answered(a[Len(a)]) \in Message
  PROVE  Recent(Append(q, Answered(a[Len(a)])), a, n)
<1> DEFINE m == Answered(a[Len(a)])
           b == Append(q, m)
<1> HIDE DEF m
<1>1. Len(q) \in Nat /\ Len(b) = Len(q) + 1 /\ b[Len(q) + 1] = m
  BY LenProperties, AppendProperties DEF m
<1> HIDE DEF b
<1>2. Len(b) \in 0 .. Len(b) /\ Len(b) # 0 /\ b[Len(b)] = m /\ \A j \in Len(b) + 1 .. Len(b) : FALSE
  BY <1>1
<1>3. Recent(b, a, n)
  BY <1>2 DEF Recent, m
<1> QED
  BY <1>3 DEF b, m

LEMMA RecentFewer ==
  ASSUME NEW q \in Seq(Message), NEW a, NEW n \in Nat, Recent(q, a, n + 1)
  PROVE  Recent(q, a, n)
<1>1. Len(q) \in Nat
  BY LenProperties
<1> QED
  BY <1>1 DEF Recent

LEMMA RecentNewest ==
  ASSUME NEW q \in Seq(Message), NEW a, NEW n \in Nat \ {0}, Recent(q, a, n)
  PROVE  Recent(Newest(q, n), a, n)
<1> DEFINE b == Newest(q, n)
<1>1. /\ Len(q) \in Nat /\ Len(b) = (IF Len(q) <= n THEN Len(q) ELSE n)
      /\ \A i \in 1 .. Len(b) : b[i] = q[Len(q) - Len(b) + i]
  BY LenProperties, NewestOf
<1>2. PICK i \in 0 .. Len(q) :
          /\ IF i = 0 THEN Len(q) >= n ELSE q[i] = Answered(a[Len(a)])
          /\ \A j \in i + 1 .. Len(q) : ~In(q[j][1], a)
  BY DEF Recent
<1> HIDE DEF b
<1> DEFINE d == Len(q) - Len(b)
           k == IF i <= d THEN 0 ELSE i - d
<1>3. d \in Nat /\ Len(b) \in Nat /\ i \in Nat /\ k \in 0 .. Len(b)
  BY <1>1
<1>4. IF k = 0 THEN Len(b) >= n ELSE b[k] = Answered(a[Len(a)])
  <2>1. CASE i <= d
    BY <1>1, <1>2, <1>3, <2>1
  <2>2. CASE ~(i <= d)
    <3>1. k = i - d /\ k \in 1 .. Len(b) /\ d + k = i /\ i # 0
      BY <1>3, <2>2
    <3>2. b[k] = q[i]
      BY <1>1, <3>1
    <3> QED
      BY <1>2, <1>3, <3>1, <3>2
  <2> QED
    BY <2>1, <2>2
<1>5. ASSUME NEW j \in k + 1 .. Len(b) PROVE ~In(b[j][1], a)
  <2>0. j \in Int /\ j >= k + 1 /\ j <= Len(b) /\ d + Len(b) = Len(q) /\ d + k >= i
    BY <1>1, <1>3
  <2>1. j \in 1 .. Len(b) /\ d + j \in i + 1 .. Len(q)
    <3>1. k \in Nat
      BY <1>3
    <3> HIDE DEF d, k
    <3> QED
      BY <1>1, <1>3, <2>0, <3>1
  <2>2. b[j] = q[d + j]
    BY <1>1, <2>1
  <2> QED
    BY <1>2, <2>1, <2>2
<1> QED
  BY <1>3, <1>4, <1>5 DEF Recent, b

\* To save the newest, add one and save again is to add it and save once.
LEMMA SavedAgain ==
  ASSUME NEW q \in Seq(Message), NEW m \in Message, NEW n \in Nat \ {0}
  PROVE  /\ Append(q, m) \in Seq(Message) /\ Newest(q, n) \in Seq(Message)
         /\ Newest(Append(Newest(q, n), m), n) = Newest(Append(q, m), n)
<1>1. Newest(q, n) \in Seq(Message)
  BY NewestOf
<1>2. \A z \in Seq(Message) : Append(z, m) = z \o <<m>> /\ Append(z, m) \in Seq(Message)
  OBVIOUS
<1>3. <<m>> \in Seq(Message)
  OBVIOUS
<1>4. Newest(Newest(q, n) \o <<m>>, n) = Newest(q \o <<m>>, n)
  BY <1>3, NewestGrows
<1> QED
  BY <1>1, <1>2, <1>4

LEMMA NewestHas ==
  ASSUME NEW q \in Seq(Message), NEW n \in Nat \ {0}, NEW m, In(m, Newest(q, n))
  PROVE  In(m, q)
<1> DEFINE b == Newest(q, n)
<1>1. b \in Seq(Message) /\ DOMAIN q = 1 .. Len(q)
      /\ \A i \in 1 .. Len(b) : Len(q) - Len(b) + i \in 1 .. Len(q) /\ b[i] = q[Len(q) - Len(b) + i]
  BY LenProperties, NewestOf
<1> HIDE DEF b
<1>2. DOMAIN b = 1 .. Len(b)
  BY <1>1, LenProperties
<1>3. PICK i \in DOMAIN b : b[i] = m
  BY DEF In, b
<1> QED
  BY <1>1, <1>2, <1>3 DEF In

\* What is in a list with one more.
LEMMA AppendHas ==
  ASSUME NEW S, NEW q \in Seq(S), NEW e \in S, NEW m
  PROVE  In(m, Append(q, e)) <=> In(m, q) \/ m = e
<1> DEFINE b == Append(q, e)
<1>1. /\ Len(q) \in Nat /\ DOMAIN q = 1 .. Len(q) /\ DOMAIN b = 1 .. Len(q) + 1
      /\ b[Len(q) + 1] = e /\ \A j \in 1 .. Len(q) : b[j] = q[j]
  BY LenProperties, AppendProperties
<1> HIDE DEF b
<1>2. In(m, q) => In(m, b)
  BY <1>1 DEF In
<1>3. m = e => In(m, b)
  <2>1. Len(q) + 1 \in DOMAIN b
    BY <1>1
  <2> QED
    BY <1>1, <2>1 DEF In
<1>4. In(m, b) => In(m, q) \/ m = e
  BY <1>1 DEF In
<1> QED
  BY <1>2, <1>3, <1>4 DEF b

-----------------------------------------------------------------------------
\* A session as the ADK runners that nobody disturbs see it

\* r stays with its session, and stays disturbed if it was.
Remains(r) == ~Waiting(req[r]) => /\ ~Waiting(req'[r]) /\ req'[r].sid = req[r].sid
                                  /\ req[r].mixed => req'[r].mixed

LEMMA SameRequest ==
  ASSUME OwnInv, NEW q \in Req, Same(q)
  PROVE  /\ req'[q].pc = req[q].pc /\ req'[q].then = req[q].then /\ req'[q].sid = req[q].sid
         /\ req'[q].before = req[q].before /\ req'[q].events = req[q].events
         /\ req'[q].seen = req[q].seen /\ (req[q].mixed => req'[q].mixed)
<1>1. req[q] \in Request
  BY RequestTyped
<1>2. \/ req'[q] = req[q]
      \/ req'[q] = [req[q] EXCEPT !.mixed = TRUE]
  BY DEF Same
<1> QED
  BY <1>1, <1>2 DEF Request

LEMMA UndisturbedBefore ==
  ASSUME OwnInv, NEW r \in Req, \A q \in Req \ {r} : Same(q), Remains(r), NEW y, Undisturbed(y)'
  PROVE  Undisturbed(y)
<1> SUFFICES ASSUME NEW q \in Req, req[q].sid = y, ~Waiting(req[q]) PROVE ~req[q].mixed
  BY DEF Undisturbed
<1>1. CASE q = r
  BY <1>1 DEF Undisturbed, Remains, Waiting
<1>2. CASE q # r
  <2>1. req'[q].pc = req[q].pc /\ req'[q].sid = req[q].sid /\ (req[q].mixed => req'[q].mixed)
    BY <1>2, SameRequest
  <2> QED
    BY <2>1 DEF Undisturbed, Waiting
<1> QED
  BY <1>1, <1>2

\* What a request knows of its session stays true while the session does.
LEMMA OthersRun ==
  ASSUME OwnInv, NEW q \in Req, Same(q), NEW y, RunnerOK(q, y),
         session'[y].events = session[y].events, answers'[y] = answers[y]
  PROVE  RunnerOK(q, y)'
<1>1. /\ req'[q].pc = req[q].pc /\ req'[q].then = req[q].then /\ req'[q].before = req[q].before
      /\ req'[q].events = req[q].events /\ req'[q].seen = req[q].seen
  BY SameRequest
<1>2. EventBound' = EventBound /\ HasAnswered(q)' = HasAnswered(q)
  BY <1>1 DEF EventBound, HasAnswered, In
<1>3. EventsOK(q, session[y].events) => EventsOK(q, session[y].events)'
  BY <1>1, <1>2 DEF EventsOK, Newest
<1>4. Uses(req[q])' = Uses(req[q]) /\ Ran(q)' = Ran(q)
  BY <1>1 DEF Uses, Ran
<1>5. ASSUME (req'[q].pc = "view" \/ Ran(q)'), SubSeq(answers'[y], 1, req'[q].before) # <<>>
      PROVE  Recent(req'[q].seen, SubSeq(answers'[y], 1, req'[q].before), EventBound + 1)
  BY <1>1, <1>4, <1>5 DEF RunnerOK
<1> QED
  BY <1>1, <1>2, <1>3, <1>4, <1>5 DEF RunnerOK

LEMMA OneMoves ==
  ASSUME OwnInv, NEW r \in Req, \A q \in Req \ {r} : Same(q), Remains(r), NEW y,
         session'[y].events = session[y].events, answers'[y] = answers[y],
         Undisturbed(y) => SessionOK(y),
         req'[r].sid = y /\ SessionOK(y) =>
             RunnerOK(r, y)' /\ (HasSaved(r)' => req[r].sid = y /\ HasSaved(r))
  PROVE  Undisturbed(y)' => SessionOK(y)'
<1> SUFFICES ASSUME Undisturbed(y)' PROVE SessionOK(y)'
  OBVIOUS
<1>1. SessionOK(y)
  BY UndisturbedBefore
<1>2. ASSUME NEW q \in Req, q # r
      PROVE  req'[q].sid = req[q].sid /\ HasSaved(q)' = HasSaved(q)
  <2>1. req'[q].pc = req[q].pc /\ req'[q].sid = req[q].sid /\ req'[q].events = req[q].events
    BY <1>2, SameRequest
  <2> QED
    BY <2>1 DEF HasSaved, HasAnswered, In
<1>3. ASSUME NEW q \in Req, req'[q].sid = y PROVE RunnerOK(q, y)'
  <2>1. CASE q = r
    BY <1>1, <1>3, <2>1
  <2>2. CASE q # r
    BY <1>1, <1>2, <1>3, <2>2, OthersRun DEF SessionOK
  <2> QED
    BY <2>1, <2>2
<1>4. ASSUME NEW q \in Req, req'[q].sid = y, HasSaved(q)'
      PROVE  req[q].sid = y /\ HasSaved(q)
  BY <1>1, <1>2, <1>4
<1>5. \A p, q \in Req : req'[p].sid = y /\ req'[q].sid = y /\ HasSaved(p)' /\ HasSaved(q)' => p = q
  BY <1>1, <1>4 DEF SessionOK
<1>6. answers'[y] # <<>> => Recent(session'[y].events, answers'[y], EventBound)
  BY <1>1 DEF SessionOK
<1>7. EventBound' = EventBound
  BY DEF EventBound
<1> QED
  BY <1>3, <1>5, <1>6, <1>7 DEF SessionOK

-----------------------------------------------------------------------------
\* Steps that leave the events alone

Aside(r) ==
    /\ Remains(r) /\ req'[r].pc \notin {"view", "model", "commit", "answered"}
    /\ Uses(req'[r]) => \/ req'[r].before = Len(answers[req'[r].sid])
                        \/ Uses(req[r]) /\ req'[r].sid = req[r].sid /\ req'[r].before = req[r].before
    /\ Started(r) => Started(r)'
    /\ req'[r].events \in {req[r].events, <<>>}

LEMMA AsideRuns ==
  ASSUME OwnInv, NEW r \in Req, \A q \in Req \ {r} : Same(q), Aside(r), NEW y,
         session'[y].events = session[y].events, answers'[y] = answers[y],
         Undisturbed(y) => SessionOK(y)
  PROVE  Undisturbed(y)' => SessionOK(y)'
<1>1. ASSUME req'[r].sid = y, SessionOK(y) PROVE RunnerOK(r, y)'
  <2>1. Uses(req[r])' => req'[r].before = Len(answers'[y])
    BY <1>1 DEF Aside, SessionOK, RunnerOK, Uses
  <2>2. req'[r].pc \notin {"view", "model", "commit", "answered"}
    BY DEF Aside
  <2> QED
    BY <2>1, <2>2 DEF RunnerOK, EventsOK, Ran
<1>2. ~HasSaved(r)'
  BY DEF Aside, HasSaved
<1> QED
  BY <1>1, <1>2, OneMoves DEF Aside

LEMMA GoAside ==
  ASSUME OwnInv, NEW r \in Req, NEW p, Go(r, p), req[r].pc # "purge",
         p \notin {"view", "model", "commit", "answered", "purge"},
         \/ p \notin Running \cup {"new", "limit", "consume", "resolve"}
         \/ Waiting(req[r]) /\ p \notin Running
         \/ req[r].pc \in {"ensure", "recall", "search"} /\ p \in {"recall", "search", "start"}
  PROVE  Aside(r)
<1> DEFINE s == [req[r] EXCEPT !.pc = p]
<1>1. req[r] \in Request
  BY RequestTyped
<1>2. /\ s.pc = p /\ s.sid = req[r].sid /\ s.mixed = req[r].mixed
      /\ s.before = req[r].before /\ s.events = req[r].events
  BY <1>1 DEF Request
<1>3. Become(r, s)
  BY DEF Go, Become
<1>4. req'[r] = s
  BY <1>3, Becomes
<1> HIDE DEF s
<1> QED
  BY <1>2, <1>4 DEF Aside, Remains, Waiting, Started, Uses, Running

LEMMA EndAside ==
  ASSUME OwnInv, NEW r \in Req, NEW p \in {"notFound", "denied", "failed", "conflict", "gone"},
         Become(r, Ended(r, p)) \/ Tell(r, Ended(r, p))
  PROVE  Aside(r)
<1> DEFINE s == Ended(r, p)
<1>1. req[r] \in Request
  BY RequestTyped
<1>2. s.pc = p /\ s.sid = req[r].sid /\ s.mixed = req[r].mixed /\ s.events = <<>>
  BY <1>1 DEF Request, Ended
<1>3. req'[r] = s
  BY Becomes
<1> HIDE DEF s
<1> QED
  BY <1>2, <1>3 DEF Aside, Remains, Waiting, Started, Uses, Running

LEMMA AsideSteps ==
  ASSUME OwnInv, OnAdk, NEW r \in Req,
         \/ Receive(r) \/ Remember(r) \/ LimitLocally(r) \/ ReadClock(r) \/ Consume(r)
         \/ NotFound(r) \/ Purge(r) \/ Denied(r) \/ Resolve(r) \/ Ensure(r)
         \/ Recall(r) \/ Search(r) \/ Store(r) \/ Enforce(r)
         \/ StartGraph(r) \/ ModelFails(r) \/ Disappear(r)
  PROVE  Aside(r)
<1>1. req[r] \in Request /\ PlaceOK(req[r])
  BY RequestTyped DEF RequestOK
<1>2. ~Purge(r) /\ ~StartGraph(r)
  BY <1>1 DEF PlaceOK, Purge, StartGraph, OnAdk
<1>3. CASE Receive(r) \/ Recall(r) \/ Store(r) \/ Enforce(r)
  <2>1. PICK p \in {"resolve", "limit", "search", "enforce", "remembered"} :
            /\ Go(r, p)
            /\ \/ req[r].pc = "new" /\ p \in {"resolve", "limit"}
               \/ req[r].pc = "recall" /\ p = "search"
               \/ req[r].pc \in {"store", "enforce"} /\ p \in {"enforce", "remembered"}
    BY <1>3 DEF Receive, Recall, Store, Enforce
  <2> QED
    BY <2>1, GoAside DEF Waiting, Running
<1>4. CASE Ensure(r)
  <2>1. CASE Go(r, AfterEnsure)
    <3>1. PICK p \in {"start", "recall"} : Go(r, p)
      BY <2>1 DEF AfterEnsure
    <3> QED
      BY <1>4, <3>1, GoAside DEF Ensure
  <2>2. CASE Tell(r, Ended(r, "failed"))
    BY <2>2, EndAside
  <2> QED
    BY <1>4, <2>1, <2>2 DEF Ensure, NotFoundThen, OnAdk
<1>5. CASE NotFound(r) \/ Denied(r) \/ ModelFails(r) \/ Disappear(r)
  <2>1. \E p \in {"notFound", "denied", "failed", "gone"} : Become(r, Ended(r, p)) \/ Tell(r, Ended(r, p))
    BY <1>5 DEF NotFound, NotFoundThen, Denied, ModelFails, Disappear, OnAdk
  <2> QED
    BY <2>1, EndAside
<1>6. CASE Remember(r)
  <2> DEFINE n == Cardinality({q \in Req : req[q].kind = "remember" /\ req[q].pc # "new"})
             s == [req[r] EXCEPT !.pc = "store", !.at = now, !.before = n]
  <2>1. Become(r, s) /\ req[r].pc = "new"
    BY <1>6 DEF Remember
  <2> HIDE DEF n
  <2>2. s.pc = "store" /\ s.events = req[r].events
    BY <1>1 DEF Request
  <2>3. req'[r] = s
    BY <2>1, Becomes
  <2> HIDE DEF s
  <2> QED
    BY <2>1, <2>2, <2>3 DEF Aside, Remains, Waiting, Started, Uses, Running
<1>7. CASE ReadClock(r)
  <2> DEFINE s == [req[r] EXCEPT !.pc = "consume", !.at = now]
  <2>1. Become(r, s) /\ req[r].pc = "limit"
    BY <1>7 DEF ReadClock
  <2>2. s.pc = "consume" /\ s.events = req[r].events
    BY <1>1 DEF Request
  <2>3. req'[r] = s
    BY <2>1, Becomes
  <2> HIDE DEF s
  <2> QED
    BY <2>1, <2>2, <2>3 DEF Aside, Remains, Waiting, Started, Uses, Running
<1>8. ASSUME NEW w, Decide(r, w), req[r].pc \in {"limit", "consume"} PROVE Aside(r)
  <2> DEFINE p == IF Admits(w) THEN "resolve" ELSE "limited"
             s == [req[r] EXCEPT !.pc = p, !.at = 0, !.admitted = Admits(w), !.window = w.id]
  <2>1. Become(r, s)
    BY <1>8 DEF Decide
  <2>2. p \in {"resolve", "limited"}
    OBVIOUS
  <2> HIDE DEF p
  <2>3. s.pc = p /\ s.events = req[r].events
    BY <1>1 DEF Request
  <2>4. req'[r] = s
    BY <2>1, Becomes
  <2> HIDE DEF s
  <2> QED
    BY <1>8, <2>2, <2>3, <2>4 DEF Aside, Remains, Waiting, Started, Uses, Running
<1>9. CASE LimitLocally(r) \/ Consume(r)
  BY <1>8, <1>9 DEF LimitLocally, Consume
<1>10. CASE Search(r)
  <2> DEFINE m == Of(entries, req[r].user)
             s == [req[r] EXCEPT !.recalled = m, !.pc = "start"]
  <2>1. Become(r, s) /\ req[r].pc = "search"
    BY <1>10 DEF Search
  <2> HIDE DEF m
  <2>2. /\ s.pc = "start" /\ s.sid = req[r].sid /\ s.events = req[r].events
        /\ s.before = req[r].before /\ s.mixed = req[r].mixed
    BY <1>1 DEF Request
  <2>3. req'[r] = s
    BY <2>1, Becomes
  <2> HIDE DEF s
  <2> QED
    BY <2>1, <2>2, <2>3 DEF Aside, Remains, Waiting, Started, Uses, Running
<1>11. CASE Resolve(r)
  <2> DEFINE x == req[r].sid
             c == IF Durable THEN session[x] ELSE NoCopy
             n == Len(answers[x])
             s == [req[r] EXCEPT !.copy = c, !.before = n, !.mixed = FALSE, !.pc = "ensure"]
  <2>1. Become(r, s) /\ req[r].pc = "resolve"
    BY <1>11 DEF Resolve, AfterResolve, OnAdk
  <2> HIDE DEF c, n
  <2>2. s.pc = "ensure" /\ s.sid = req[r].sid /\ s.events = req[r].events /\ s.before = n
    BY <1>1 DEF Request
  <2>3. req'[r] = s
    BY <2>1, Becomes
  <2> HIDE DEF s
  <2> QED
    BY <2>1, <2>2, <2>3 DEF Aside, Remains, Waiting, Started, Uses, Running, n
<1> QED
  BY <1>2, <1>3, <1>4, <1>5, <1>6, <1>7, <1>9, <1>10, <1>11

\* Answers in lists of events stay answers of requests that have started.
LEMMA StartedStays ==
  ASSUME OwnInv, NEW r \in Req, \A q \in Req \ {r} : Same(q), Started(r) => Started(r)'
  PROVE  \A l : OnlyStarted(l) => OnlyStarted(l)'
<1>1. ASSUME NEW q \in Req, Started(q) PROVE Started(q)'
  <2>1. CASE q = r
    BY <1>1, <2>1
  <2>2. CASE q # r
    <3>1. req'[q].pc = req[q].pc
      BY <2>2, SameRequest
    <3> QED
      BY <1>1, <3>1 DEF Started, Waiting
  <2> QED
    BY <2>1, <2>2
<1> SUFFICES ASSUME NEW l, OnlyStarted(l) PROVE OnlyStarted(l)'
  OBVIOUS
<1>2. ASSUME NEW q \in Req, In(Answered(q), l) PROVE Started(q)'
  BY <1>1, <1>2 DEF OnlyStarted
<1> QED
  BY <1>2 DEF OnlyStarted

\* The lists after a step of r: r has one of the lists there were, or another that
\* is shown to be right.
LEMMA ListsStay ==
  ASSUME OwnInv, ListsOK, NEW r \in Req, \A q \in Req \ {r} : Same(q), Started(r) => Started(r)',
         OnlyStarted(req[r].events)',
         \A y \in SessionId : session'[y].events = session[y].events \/ OnlyStarted(session[y].events)'
  PROVE  ListsOK'
<1>1. \A l : OnlyStarted(l) => OnlyStarted(l)'
  BY StartedStays
<1>2. ASSUME NEW q \in Req PROVE OnlyStarted(req[q].events)'
  <2>1. CASE q = r
    BY <2>1
  <2>2. CASE q # r
    <3>1. PICK l : l = req[q].events
      OBVIOUS
    <3>2. OnlyStarted(l)'
      BY <1>1, <3>1 DEF ListsOK
    <3>3. req'[q].events = l
      BY <2>2, <3>1, SameRequest
    <3> QED
      BY <3>2, <3>3 DEF OnlyStarted
  <2> QED
    BY <2>1, <2>2
<1>3. ASSUME NEW y \in SessionId PROVE OnlyStarted(session[y].events)'
  <2>1. CASE OnlyStarted(session[y].events)'
    BY <2>1
  <2>2. CASE session'[y].events = session[y].events
    <3>1. PICK l : l = session[y].events
      OBVIOUS
    <3>2. OnlyStarted(l)'
      BY <1>1, <3>1 DEF ListsOK
    <3> QED
      BY <2>2, <3>1, <3>2 DEF OnlyStarted
  <2> QED
    BY <2>1, <2>2
<1> QED
  BY <1>2, <1>3 DEF ListsOK

LEMMA NobodyIn == OnlyStarted(<<>>)
  BY DEF OnlyStarted, In

LEMMA AsideKeeps ==
  ASSUME OwnInv, OnAdk, SequentialInv, NEW r \in Req, \A q \in Req \ {r} : Same(q), Aside(r),
         UNCHANGED <<config, session, answers>>
  PROVE  SequentialInv'
<1>1. ListsOK /\ \A y \in SessionId : Undisturbed(y) => SessionOK(y)
  BY DEF SequentialInv
<1>2. \A y \in SessionId : Undisturbed(y)' => SessionOK(y)'
  BY <1>1, AsideRuns
<1>3. Started(r) => Started(r)'
  BY DEF Aside
<1>4. \A l : OnlyStarted(l) => OnlyStarted(l)'
  BY <1>3, StartedStays
<1>5. PICK l : l = req'[r].events
  OBVIOUS
<1>6. OnlyStarted(l)
  BY <1>1, <1>5, NobodyIn DEF Aside, ListsOK
<1>7. OnlyStarted(req[r].events)'
  BY <1>4, <1>5, <1>6 DEF OnlyStarted
<1>8. ListsOK'
  BY <1>1, <1>3, <1>7, ListsStay
<1> QED
  BY <1>2, <1>8 DEF SequentialInv

\* A step of r that concerns no other session than x, and may change its events
\* to l, or what r has to e.
LEMMA OneSession ==
  ASSUME OwnInv, OnAdk, SequentialInv, NEW r \in Req, \A q \in Req \ {r} : Same(q),
         Started(r) => Started(r)', NEW x \in SessionId, req'[r].sid = x, Remains(r),
         \A y \in SessionId \ {x} : session'[y] = session[y] /\ answers'[y] = answers[y],
         OnlyStarted(req[r].events)',
         session'[x].events = session[x].events \/ OnlyStarted(session[x].events)',
         UNCHANGED config, Undisturbed(x)' => SessionOK(x)'
  PROVE  SequentialInv'
<1>1. ListsOK /\ \A y \in SessionId : Undisturbed(y) => SessionOK(y)
  BY DEF SequentialInv
<1>2. \A y \in SessionId : session'[y].events = session[y].events \/ OnlyStarted(session[y].events)'
  BY DEF OnlyStarted
<1>3. ListsOK'
  BY <1>1, <1>2, ListsStay
<1>4. ASSUME NEW y \in SessionId \ {x} PROVE Undisturbed(y)' => SessionOK(y)'
  BY <1>1, <1>4, OneMoves
<1> QED
  BY <1>3, <1>4 DEF SequentialInv

\* The events of r go on with a message of its own.
LEMMA ListGrows ==
  ASSUME OwnInv, NEW r \in Req, \A q \in Req \ {r} : Same(q), Started(r)', NEW l \in Seq(Message),
         NEW m \in {Asked(r), Answered(r)}, OnlyStarted(l), req'[r].events = Append(l, m)
  PROVE  OnlyStarted(req[r].events)'
<1>1. OnlyStarted(l)'
  BY StartedStays
<1>2. m \in Message
  BY MessageAssumption DEF Asked, Answered
<1> SUFFICES ASSUME NEW q \in Req, In(Answered(q), Append(l, m)) PROVE Started(q)'
  BY DEF OnlyStarted
<1>3. In(Answered(q), l) \/ Answered(q) = m
  BY <1>2, AppendHas
<1>4. Answered(q) = m => q = r
  BY DEF Asked, Answered
<1> QED
  BY <1>1, <1>3, <1>4 DEF OnlyStarted

\* Who is not answered is not among the answered.
LEMMA NotAnswered ==
  ASSUME OwnInv, HistoryInv, NEW r \in Req, req[r].pc # "answered", NEW y \in SessionId
  PROVE  ~In(r, answers[y])
<1>1. \A i \in DOMAIN answers[y] : req[answers[y][i]].pc = "answered"
  BY DEF HistoryInv, AnswersOK
<1> QED
  BY <1>1 DEF In

LEMMA AnswersTyped ==
  ASSUME OwnInv, NEW y \in SessionId
  PROVE  /\ answers[y] \in Seq(Req) /\ Len(answers[y]) \in Nat
         /\ SubSeq(answers[y], 1, Len(answers[y])) = answers[y]
<1>1. answers[y] \in Seq(Req)
  BY DEF OwnInv, TypeOK
<1>2. \A e \in Req : SubSeq(answers[y], 1, Len(answers[y])) = answers[y]
  BY <1>1, Prefixes
<1>3. Len(answers[y]) \in Nat
  BY <1>1, LenProperties
<1>4. SubSeq(answers[y], 1, Len(answers[y])) = answers[y]
  BY <1>1, <1>3
<1> QED
  BY <1>1, <1>3, <1>4

-----------------------------------------------------------------------------
\* Steps of the runner

\* The runner loads the events and appends the user's message.
LEMMA RunnerStarts ==
  ASSUME OwnInv, HistoryInv, OnAdk, SequentialInv, NEW r \in Req, StartRunner(r),
         \A q \in Req \ {r} : Same(q)
  PROVE  SequentialInv'
<1>x. PICK x : x = req[r].sid
  OBVIOUS
<1> USE <1>x
<1> DEFINE l == session[x].events
           e == Append(l, Asked(r))
           s == [req[r] EXCEPT !.events = e, !.seen = e, !.pc = "view"]
<1>0. req[r] \in Request /\ req[r].pc = "start" /\ UNCHANGED <<config, session, answers>>
  BY RequestTyped DEF StartRunner
<1>1. Uses(req[r])
  BY <1>0 DEF Uses, Running
<1>2. CASE Tell(r, Ended(r, "failed"))
  BY <1>0, <1>2, EndAside, AsideKeeps
<1>3. CASE Become(r, s)
  <2>1. x \in SessionId /\ l \in Seq(Message)
    BY <1>1, HeldIsOwn, OwnAreMessages DEF SessionOf
  <2>2. ListsOK /\ (Undisturbed(x) => SessionOK(x))
    BY <2>1 DEF SequentialInv
  <2>3. OnlyStarted(l) /\ ~In(Answered(r), l)
    BY <1>0, <2>1, <2>2 DEF ListsOK, OnlyStarted, Started
  <2>4. Asked(r) \in Message /\ Asked(r)[1] = r /\ Asked(r) # Answered(r)
    BY MessageAssumption DEF Asked, Answered
  <2>5. e \in Seq(Message) /\ ~In(Answered(r), e)
    BY <2>1, <2>3, <2>4, AppendHas, AppendProperties
  <2> HIDE DEF l
  <2>6. /\ s.pc = "view" /\ s.sid = x /\ s.mixed = req[r].mixed /\ s.before = req[r].before
        /\ s.events = e /\ s.seen = e
    <3> HIDE DEF e
    <3> QED
      BY <1>0, <2>5 DEF Request
  <2>7. req'[r] = s
    BY <1>3, Becomes
  <2> HIDE DEF s, e
  <2>8. Started(r)' /\ Remains(r)
    BY <1>0, <2>6, <2>7 DEF Started, Remains, Waiting
  <2>9. OnlyStarted(req[r].events)'
    BY <2>1, <2>3, <2>6, <2>7, <2>8, ListGrows DEF e
  <2>10. ASSUME SessionOK(x) PROVE RunnerOK(r, x)' /\ ~HasSaved(r)'
    <3>1. RunnerOK(r, x) /\ req[r].before = Len(answers[x])
      BY <1>1, <2>10 DEF SessionOK, RunnerOK
    <3>2. answers[x] # <<>> => Recent(e, answers[x], EventBound + 1)
      <4>1. answers[x] # <<>> => Recent(l, answers[x], EventBound)
        BY <2>10 DEF SessionOK, l
      <4>2. ~In(Asked(r)[1], answers[x])
        BY <1>0, <2>1, <2>4, NotAnswered
      <4> QED
        BY <2>1, <2>4, <4>1, <4>2, Bounds, RecentGrows DEF e
    <3>3. SubSeq(answers[x], 1, req[r].before) = answers[x]
      BY <2>1, <3>1, AnswersTyped
    <3>4. ~HasAnswered(r)' /\ EventBound' = EventBound
      BY <2>5, <2>6, <2>7 DEF HasAnswered, EventBound
    <3>5. EventsOK(r, session[x].events)'
      BY <1>0, <2>6, <2>7, <3>4 DEF EventsOK, e, l
    <3>6. /\ req'[r].before = Len(answers'[x])
          /\ answers'[x] # <<>> => Recent(req'[r].seen, SubSeq(answers'[x], 1, req'[r].before), EventBound + 1)
          /\ SubSeq(answers'[x], 1, req'[r].before) = answers'[x]
      BY <1>0, <2>6, <2>7, <3>1, <3>2, <3>3
    <3>7. req'[r].pc = "view"
      BY <2>6, <2>7
    <3> QED
      BY <3>4, <3>5, <3>6, <3>7 DEF RunnerOK, HasSaved
  <2>11. Undisturbed(x)' => SessionOK(x)'
    BY <1>0, <2>2, <2>8, <2>10, OneMoves
  <2> QED
    BY <1>0, <2>1, <2>6, <2>7, <2>8, <2>9, <2>11, OneSession
<1> QED
  BY <1>2, <1>3 DEF StartRunner, NotFoundThen, OnAdk

\* The model answers: the runner has its answer to append.
LEMMA RunnerAnswers ==
  ASSUME OwnInv, OnAdk, SequentialInv, NEW r \in Req, ModelAnswers(r), \A q \in Req \ {r} : Same(q)
  PROVE  SequentialInv'
<1>x. PICK x : x = req[r].sid
  OBVIOUS
<1> USE <1>x
<1> DEFINE e == req[r].events
           f == Append(e, Answered(r))
           s == [req[r] EXCEPT !.events = f, !.pc = "view"]
<1>0. /\ req[r] \in Request /\ req[r].pc = "model" /\ UNCHANGED <<config, session, answers>>
      /\ Become(r, s)
  BY RequestTyped DEF ModelAnswers, OnAdk, Stores
<1>1. Uses(req[r])
  BY <1>0 DEF Uses, Running
<1>2. x \in SessionId /\ e \in Seq(Message) /\ Answered(r) \in Message
  BY <1>0, <1>1, HeldIsOwn, MessageAssumption DEF Request, Answered
<1>3. ListsOK /\ (Undisturbed(x) => SessionOK(x))
  BY <1>2 DEF SequentialInv
<1>4. OnlyStarted(e)
  BY <1>3 DEF ListsOK
<1>5. f \in Seq(Message) /\ In(Answered(r), f)
  BY <1>2, AppendHas, AppendProperties
<1> HIDE DEF e
<1>6. /\ s.pc = "view" /\ s.sid = x /\ s.mixed = req[r].mixed /\ s.before = req[r].before
      /\ s.events = f /\ s.seen = req[r].seen
  <2> HIDE DEF f
  <2> QED
    BY <1>0, <1>5 DEF Request
<1>7. req'[r] = s
  BY <1>0, Becomes
<1> HIDE DEF s, f
<1>8. Started(r)' /\ Remains(r)
  BY <1>0, <1>6, <1>7 DEF Started, Remains, Waiting
<1>9. OnlyStarted(req[r].events)'
  BY <1>2, <1>4, <1>6, <1>7, <1>8, ListGrows DEF f
<1>10. ASSUME SessionOK(x) PROVE RunnerOK(r, x)' /\ HasSaved(r)
  <2>1. RunnerOK(r, x) /\ req[r].before = Len(answers[x]) /\ EventsOK(r, session[x].events)
    BY <1>1, <1>10 DEF SessionOK, RunnerOK
  <2>2. session[x].events = Newest(e, EventBound)
    BY <1>0, <2>1 DEF EventsOK, e
  <2>3. HasAnswered(r)' /\ EventBound' = EventBound
    BY <1>5, <1>6, <1>7 DEF HasAnswered, EventBound
  <2>4. \E q \in Seq(Message) : f = Append(q, Answered(r)) /\ session[x].events = Newest(q, EventBound)
    BY <1>2, <2>2 DEF f
  <2>5. req'[r].pc = "view" /\ req'[r].events = f /\ session' = session
    BY <1>0, <1>6, <1>7
  <2>6. EventsOK(r, session[x].events)'
    BY <2>3, <2>4, <2>5 DEF EventsOK
  <2>7. LET a == SubSeq(answers[x], 1, req[r].before)
        IN a # <<>> => Recent(req[r].seen, a, EventBound + 1)
    BY <1>0, <2>1 DEF RunnerOK, Ran
  <2>8. req'[r].before = Len(answers'[x])
    BY <1>0, <1>6, <1>7, <2>1
  <2>9. LET a == SubSeq(answers'[x], 1, req'[r].before)
        IN a # <<>> => Recent(req'[r].seen, a, EventBound + 1)
    BY <1>0, <1>6, <1>7, <2>7
  <2> QED
    BY <1>0, <2>3, <2>5, <2>6, <2>8, <2>9 DEF RunnerOK, HasSaved
<1>11. Undisturbed(x)' => SessionOK(x)'
  BY <1>0, <1>3, <1>8, <1>10, OneMoves
<1> QED
  BY <1>0, <1>2, <1>6, <1>7, <1>8, <1>9, <1>11, OneSession

\* If r saves or deletes the session of q, which q uses, then q has been disturbed.
LEMMA NobodyElse ==
  ASSUME OwnInv, OnAdk, NEW r \in Req, NEW s, Tell(r, s), session' # session \/ stored' # stored,
         NEW q \in Req \ {r}, req[q].sid = s.sid, NEW y, y = s.sid, Undisturbed(y)'
  PROVE  ~Uses(req[q]) /\ ~HasSaved(q) /\ req[q].pc \notin {"view", "model", "commit"}
<1>1. req[q] \in Request /\ PlaceOK(req[q])
  BY RequestTyped DEF RequestOK
<1>2. Uses(req[q]) => req[q].pc \in Running
  BY <1>1 DEF PlaceOK, Uses, OnAdk
<1>3. HasSaved(q) \/ req[q].pc \in {"view", "model", "commit"} => req[q].pc \in Running
  BY DEF HasSaved, Running
<1>4. ASSUME req[q].pc \in Running PROVE FALSE
  <2>1. req[q].pc \in Active
    BY <1>4 DEF Running, Active
  <2>2. req'[q] = [req[q] EXCEPT !.mixed = TRUE]
    BY <2>1 DEF Tell
  <2>3. req'[q].mixed /\ req'[q].pc = req[q].pc /\ req'[q].sid = y
    BY <1>1, <2>2 DEF Request
  <2>4. ~Waiting(req'[q])
    BY <1>4, <2>3 DEF Waiting, Running
  <2> QED
    BY <2>3, <2>4 DEF Undisturbed, Waiting
<1> QED
  BY <1>2, <1>3, <1>4

\* Of a request that does not use its session only its own answer is known.
LEMMA OthersRest ==
  ASSUME OwnInv, NEW q \in Req, Same(q), NEW y, RunnerOK(q, y), ~Uses(req[q]),
         req[q].pc \notin {"view", "model", "commit"}, ~HasSaved(q),
         NEW n \in Nat, NEW m \in Nat, n = Len(answers[y]), m = Len(answers'[y]), n <= m,
         \A k \in 0 .. n : SubSeq(answers'[y], 1, k) = SubSeq(answers[y], 1, k)
  PROVE  RunnerOK(q, y)' /\ ~HasSaved(q)'
<1>1. /\ req'[q].pc = req[q].pc /\ req'[q].then = req[q].then /\ req'[q].before = req[q].before
      /\ req'[q].events = req[q].events /\ req'[q].seen = req[q].seen
  BY SameRequest
<1>2. EventBound' = EventBound /\ HasAnswered(q)' = HasAnswered(q) /\ ~Uses(req[q])' /\ ~HasSaved(q)'
  BY <1>1 DEF EventBound, HasAnswered, In, Uses, HasSaved
<1>3. req'[q].pc = "answered" => req'[q].before \in 0 .. m /\ req[q].before \in 0 .. n
  BY <1>1 DEF RunnerOK
<1>4. ASSUME req'[q].pc = "answered", SubSeq(answers'[y], 1, req'[q].before) # <<>>
      PROVE  Recent(req'[q].seen, SubSeq(answers'[y], 1, req'[q].before), EventBound + 1)
  <2>1. req[q].before \in 0 .. n /\ SubSeq(answers'[y], 1, req[q].before) = SubSeq(answers[y], 1, req[q].before)
    BY <1>3, <1>4
  <2>2. req[q].pc = "answered"
    BY <1>1, <1>4
  <2>3. Recent(req[q].seen, SubSeq(answers[y], 1, req[q].before), EventBound + 1)
    BY <1>1, <1>4, <2>1, <2>2 DEF RunnerOK, Ran
  <2> QED
    BY <1>1, <2>1, <2>3
<1>5. (req'[q].pc = "view" \/ Ran(q)') => req'[q].pc = "answered"
  BY <1>1 DEF Ran
<1> QED
  BY <1>2, <1>3, <1>4, <1>5 DEF RunnerOK

\* _persist_events returns when the session is gone: r is disturbed.
LEMMA NothingPersists ==
  ASSUME OwnInv, OnAdk, SequentialInv, NEW r \in Req, PersistNothing(r), \A q \in Req \ {r} : Same(q)
  PROVE  SequentialInv'
<1>x. PICK x : x = req[r].sid
  OBVIOUS
<1> USE <1>x
<1> DEFINE p == AfterEvent(r)
           s == [req[r] EXCEPT !.pc = p, !.mixed = TRUE]
<1>1. /\ req[r] \in Request /\ req[r].pc = "view" /\ Tell(r, s)
      /\ UNCHANGED <<config, session, answers>>
  BY RequestTyped DEF PersistNothing, NotFoundThen, OnAdk
<1>2. Uses(req[r]) /\ p \in {"commit", "model"}
  BY <1>1, AfterEventIs DEF Uses, Running
<1> HIDE DEF p
<1>3. s.pc = p /\ s.mixed /\ s.sid = x /\ s.events = req[r].events
  BY <1>1 DEF Request
<1>4. req'[r] = s
  BY <1>1, Becomes
<1> HIDE DEF s
<1>5. x \in SessionId
  BY <1>2, HeldIsOwn
<1>6. Started(r) /\ Started(r)' /\ Remains(r) /\ ~Undisturbed(x)'
  BY <1>1, <1>2, <1>3, <1>4 DEF Started, Remains, Waiting, Undisturbed
<1>7. OnlyStarted(req[r].events)'
  <2>1. PICK l : l = req[r].events
    OBVIOUS
  <2>2. OnlyStarted(l)
    BY <2>1 DEF SequentialInv, ListsOK
  <2>3. OnlyStarted(l)'
    BY <1>6, <2>2, StartedStays
  <2> QED
    BY <1>3, <1>4, <2>1, <2>3 DEF OnlyStarted
<1> QED
  BY <1>1, <1>3, <1>4, <1>5, <1>6, <1>7, OneSession

\* _persist_events replaces the session's events by the newest of the runner's.
LEMMA EventsPersist ==
  ASSUME OwnInv, HistoryInv, OnAdk, SequentialInv, NEW r \in Req, PersistShared(r),
         \A q \in Req \ {r} : Same(q)
  PROVE  SequentialInv'
<1>x. PICK x : x = req[r].sid
  OBVIOUS
<1>e. PICK e : e = req[r].events
  OBVIOUS
<1>l. PICK l : l = Newest(e, EventBound)
  OBVIOUS
<1> USE <1>x, <1>e
<1> DEFINE p == AfterEvent(r)
           s == [req[r] EXCEPT !.pc = p, !.view = NoCopy]
<1>1. /\ req[r] \in Request /\ req[r].pc = "view" /\ Tell(r, s)
      /\ session' = [session EXCEPT ![x] = Saved(WithEvents(session[x], e))]
      /\ UNCHANGED <<config, answers>>
  BY RequestTyped DEF PersistShared, SaveShared
<1>2. Uses(req[r])
  BY <1>1 DEF Uses, Running
<1>3. p = IF HasAnswered(r) THEN "commit" ELSE "model"
  BY DEF AfterEvent, HasAnswered, In
<1> HIDE DEF p
<1>4. s.pc = p /\ s.mixed = req[r].mixed /\ s.sid = x /\ s.events = e /\ s.before = req[r].before
      /\ s.seen = req[r].seen
  BY <1>1 DEF Request
<1>5. req'[r] = s
  BY <1>1, Becomes
<1> HIDE DEF s
<1>6. x \in SessionId /\ session[x] \in Session /\ e \in Seq(Message)
      /\ session \in [SessionId -> Session]
  BY <1>1, <1>2, HeldIsOwn DEF SessionOf, Request, OwnInv, TypeOK
<1>7. /\ session'[x].events = l /\ session'[x].revision = session[x].revision + 1
      /\ \A y \in SessionId \ {x} : session'[y] = session[y]
  BY <1>1, <1>6, <1>l DEF Session, Saved, WithEvents
<1>8. session' # session
  <2>1. session[x].revision \in Nat
    BY <1>6 DEF Session
  <2> QED
    BY <1>7, <2>1
<1>9. Started(r) /\ Started(r)' /\ Remains(r)
  BY <1>1, <1>3, <1>4, <1>5 DEF Started, Remains, Waiting
<1>10. OnlyStarted(e)' /\ OnlyStarted(e)
  <2>1. OnlyStarted(e)
    BY DEF SequentialInv, ListsOK
  <2> QED
    BY <1>9, <2>1, StartedStays
<1>11. OnlyStarted(req[r].events)'
  BY <1>4, <1>5, <1>10 DEF OnlyStarted
<1>12. OnlyStarted(session[x].events)'
  <2>1. \A m : In(m, l) => In(m, e)
    BY <1>6, <1>l, Bounds, NewestHas
  <2> QED
    BY <1>7, <1>10, <2>1 DEF OnlyStarted
<1>13. ASSUME Undisturbed(x)' PROVE SessionOK(x)'
  <2>1. SessionOK(x)
    BY <1>6, <1>9, <1>13, UndisturbedBefore DEF SequentialInv
  <2>2. RunnerOK(r, x) /\ req[r].before = Len(answers[x]) /\ EventsOK(r, session[x].events)
    BY <1>2, <2>1 DEF SessionOK, RunnerOK
  <2>3. /\ EventBound \in Nat \ {0} /\ EventBound' = EventBound
        /\ HasAnswered(r)' = HasAnswered(r)
    BY <1>4, <1>5, Bounds DEF EventBound, HasAnswered, In
  <2>4. PICK b : b = session[x].events
    OBVIOUS
  <2>5. b \in Seq(Message) /\ Asked(r) \in Message /\ Answered(r) \in Message
        /\ Asked(r)[1] = r /\ Answered(r)[1] = r
    BY <1>6, <2>4, MessageAssumption DEF Session, Asked, Answered
  <2>6. \E m \in Message : m[1] = r /\ l = Newest(Append(b, m), EventBound)
    <3>1. CASE HasAnswered(r)
      <4>1. PICK q \in Seq(Message) : e = Append(q, Answered(r)) /\ b = Newest(q, EventBound)
        BY <1>1, <2>2, <2>4, <3>1 DEF EventsOK
      <4>2. l = Newest(Append(b, Answered(r)), EventBound)
        BY <1>l, <2>3, <2>5, <4>1, SavedAgain
      <4> QED
        BY <2>5, <4>2
    <3>2. CASE ~HasAnswered(r)
      <4>1. e = Append(b, Asked(r))
        BY <1>1, <2>2, <2>4, <3>2 DEF EventsOK
      <4> QED
        BY <1>l, <2>5, <4>1
    <3> QED
      BY <3>1, <3>2
  <2>7. answers[x] # <<>> => Recent(l, answers[x], EventBound)
    <3>1. PICK m \in Message : m[1] = r /\ l = Newest(Append(b, m), EventBound)
      BY <2>6
    <3>2. ~In(m[1], answers[x])
      BY <1>1, <1>6, <3>1, NotAnswered
    <3> SUFFICES ASSUME answers[x] # <<>> PROVE Recent(l, answers[x], EventBound)
      OBVIOUS
    <3>3. Recent(b, answers[x], EventBound)
      BY <2>1, <2>4 DEF SessionOK
    <3>4. Recent(Append(b, m), answers[x], EventBound + 1)
      BY <2>3, <2>5, <3>2, <3>3, RecentGrows
    <3>5. Append(b, m) \in Seq(Message)
      BY <2>5
    <3>6. Recent(Append(b, m), answers[x], EventBound)
      BY <2>3, <3>4, <3>5, RecentFewer
    <3> QED
      BY <2>3, <3>1, <3>5, <3>6, RecentNewest
  <2>8. EventsOK(r, session[x].events)'
    <3>1. CASE HasAnswered(r)
      <4>1. \E q \in Seq(Message) : e = Append(q, Answered(r))
        BY <1>1, <2>2, <3>1 DEF EventsOK
      <4>2. req'[r].pc = "commit" /\ req'[r].events = e /\ session'[x].events = Newest(e, EventBound)
        BY <1>3, <1>4, <1>5, <1>7, <1>l, <3>1
      <4> QED
        BY <2>3, <4>1, <4>2 DEF EventsOK
    <3>2. CASE ~HasAnswered(r)
      <4>1. req'[r].pc = "model" /\ req'[r].events = e /\ session'[x].events = Newest(e, EventBound)
        BY <1>3, <1>4, <1>5, <1>7, <1>l, <3>2
      <4> QED
        BY <2>3, <3>2, <4>1 DEF EventsOK
    <3> QED
      BY <3>1, <3>2
  <2>9. RunnerOK(r, x)'
    <3>1. LET a == SubSeq(answers[x], 1, req[r].before)
          IN a # <<>> => Recent(req[r].seen, a, EventBound + 1)
      BY <1>1, <2>2 DEF RunnerOK
    <3>2. req'[r].before = Len(answers'[x]) /\ req'[r].pc \in {"model", "commit"}
      BY <1>1, <1>3, <1>4, <1>5, <2>2
    <3>3. LET a == SubSeq(answers'[x], 1, req'[r].before)
          IN a # <<>> => Recent(req'[r].seen, a, EventBound + 1)
      BY <1>1, <1>4, <1>5, <3>1
    <3> QED
      BY <2>3, <2>8, <3>2, <3>3 DEF RunnerOK
  <2>10. ASSUME NEW q \in Req \ {r}, req'[q].sid = x PROVE RunnerOK(q, x)' /\ ~HasSaved(q)'
    <3>1. req[q].sid = x /\ Same(q)
      BY <2>10, SameRequest
    <3>2. ~Uses(req[q]) /\ ~HasSaved(q) /\ req[q].pc \notin {"view", "model", "commit"}
      BY <1>1, <1>4, <1>8, <1>13, <3>1, NobodyElse
    <3>3. RunnerOK(q, x)
      BY <2>1, <3>1 DEF SessionOK
    <3>4. Len(answers[x]) \in Nat /\ answers' = answers
      BY <1>1, <1>6, AnswersTyped
    <3> QED
      BY <3>1, <3>2, <3>3, <3>4, OthersRest
  <2> QED
    BY <1>1, <1>7, <2>3, <2>7, <2>9, <2>10 DEF SessionOK
<1> QED
  BY <1>1, <1>4, <1>5, <1>6, <1>7, <1>9, <1>11, <1>12, <1>13, OneSession

\* The exchange is added to the history; the events end with the answer already.
LEMMA ExchangeCommits ==
  ASSUME OwnInv, OnAdk, SequentialInv, NEW r \in Req, CommitShared(r), \A q \in Req \ {r} : Same(q)
  PROVE  SequentialInv'
<1>x. PICK x : x = req[r].sid
  OBVIOUS
<1>e. PICK e : e = req[r].events
  OBVIOUS
<1>l. PICK l : l = session[x].events
  OBVIOUS
<1>a. PICK a : a = answers[x]
  OBVIOUS
<1> USE <1>x, <1>e, <1>l, <1>a
<1> DEFINE s == Ended(r, "answered")
<1>1. /\ req[r] \in Request /\ req[r].pc = "commit" /\ Tell(r, s)
      /\ session' = [session EXCEPT ![x] = Saved(WithMessages(session[x], Exchange(r)))]
      /\ answers' = [answers EXCEPT ![x] = Append(a, r)] /\ UNCHANGED config
  BY RequestTyped DEF CommitShared, SaveShared
<1>2. Uses(req[r])
  BY <1>1 DEF Uses, Running
<1>3. s.pc = "answered" /\ s.mixed = req[r].mixed /\ s.sid = x /\ s.events = <<>>
      /\ s.before = req[r].before /\ s.seen = req[r].seen
  BY <1>1 DEF Request, Ended
<1>4. req'[r] = s
  BY <1>1, Becomes
<1> HIDE DEF s
<1>5. /\ x \in SessionId /\ session[x] \in Session /\ e \in Seq(Message)
      /\ session \in [SessionId -> Session] /\ answers \in [SessionId -> Seq(Req)]
      /\ a \in Seq(Req) /\ Len(a) \in Nat
  BY <1>1, <1>2, HeldIsOwn, AnswersTyped DEF SessionOf, Request, OwnInv, TypeOK
<1>6. /\ session'[x].events = l /\ session'[x].revision = session[x].revision + 1
      /\ \A y \in SessionId \ {x} : session'[y] = session[y]
  BY <1>1, <1>5 DEF Session, Saved, WithMessages
<1>7. session' # session
  <2>1. session[x].revision \in Nat
    BY <1>5 DEF Session
  <2> QED
    BY <1>6, <2>1
<1>8. answers'[x] = Append(a, r) /\ \A y \in SessionId \ {x} : answers'[y] = answers[y]
  BY <1>1, <1>5
<1>9. Started(r) /\ Started(r)' /\ Remains(r)
  BY <1>1, <1>3, <1>4 DEF Started, Remains, Waiting
<1>10. OnlyStarted(req[r].events)'
  BY <1>3, <1>4, NobodyIn DEF OnlyStarted, In
<1>11. ASSUME Undisturbed(x)' PROVE SessionOK(x)'
  <2>1. SessionOK(x)
    BY <1>5, <1>9, <1>11, UndisturbedBefore DEF SequentialInv
  <2>2. RunnerOK(r, x) /\ req[r].before = Len(a) /\ EventsOK(r, l)
    BY <1>2, <2>1 DEF SessionOK, RunnerOK
  <2>3. EventBound \in Nat \ {0} /\ EventBound' = EventBound
    BY Bounds DEF EventBound
  <2>4. /\ Append(a, r) \in Seq(Req) /\ Len(Append(a, r)) = Len(a) + 1
        /\ Append(a, r)[Len(a) + 1] = r
        /\ \A k \in 0 .. Len(a) : SubSeq(Append(a, r), 1, k) = SubSeq(a, 1, k)
    BY <1>5, AppendProperties, Prefixes
  <2>5. Recent(l, Append(a, r), EventBound)
    <3>1. PICK q \in Seq(Message) : e = Append(q, Answered(r)) /\ l = Newest(e, EventBound)
      BY <1>1, <2>2 DEF EventsOK
    <3>2. PICK b : b = Append(a, r)
      OBVIOUS
    <3>3. b[Len(b)] = r /\ Answered(b[Len(b)]) \in Message
      BY <2>4, <3>2, MessageAssumption DEF Answered
    <3>4. Recent(Append(q, Answered(b[Len(b)])), b, EventBound)
      BY <2>3, <3>3, RecentAnswer
    <3>5. Recent(e, b, EventBound)
      BY <3>1, <3>3, <3>4
    <3> QED
      BY <1>5, <2>3, <3>1, <3>2, <3>5, RecentNewest
  <2>6. RunnerOK(r, x)'
    <3>1. LET c == SubSeq(a, 1, req[r].before)
          IN c # <<>> => Recent(req[r].seen, c, EventBound + 1)
      BY <1>1, <2>2 DEF RunnerOK, Ran
    <3>2. req'[r].before = Len(a) /\ Len(answers'[x]) = Len(a) + 1 /\ req'[r].pc = "answered"
      BY <1>3, <1>4, <1>8, <2>2, <2>4
    <3>3. SubSeq(answers'[x], 1, req'[r].before) = SubSeq(a, 1, req[r].before)
      BY <1>5, <1>8, <2>2, <2>4, <3>2
    <3>4. LET c == SubSeq(answers'[x], 1, req'[r].before)
          IN c # <<>> => Recent(req'[r].seen, c, EventBound + 1)
      BY <1>3, <1>4, <3>1, <3>3
    <3>5. req'[r].before \in 0 .. Len(answers'[x])
      BY <1>5, <3>2
    <3>6. ~Uses(req[r])'
      BY <3>2 DEF Uses, Running
    <3> QED
      BY <2>3, <3>4, <3>5, <3>6 DEF RunnerOK
  <2>7. ASSUME NEW q \in Req \ {r}, req'[q].sid = x PROVE RunnerOK(q, x)' /\ ~HasSaved(q)'
    <3>1. req[q].sid = x /\ Same(q)
      BY <2>7, SameRequest
    <3>2. ~Uses(req[q]) /\ ~HasSaved(q) /\ req[q].pc \notin {"view", "model", "commit"}
      BY <1>1, <1>3, <1>7, <1>11, <3>1, NobodyElse
    <3>3. RunnerOK(q, x)
      BY <2>1, <3>1 DEF SessionOK
    <3>4. /\ Len(a) \in Nat /\ Len(a) + 1 \in Nat /\ Len(a) <= Len(a) + 1
          /\ Len(answers'[x]) = Len(a) + 1
          /\ \A k \in 0 .. Len(a) : SubSeq(answers'[x], 1, k) = SubSeq(answers[x], 1, k)
      BY <1>5, <1>8, <2>4
    <3> QED
      BY <3>1, <3>2, <3>3, <3>4, OthersRest
  <2>8. Recent(session'[x].events, answers'[x], EventBound)
    BY <1>6, <1>8, <2>5
  <2> QED
    BY <2>3, <2>6, <2>7, <2>8 DEF SessionOK
<1> QED
  BY <1>1, <1>3, <1>4, <1>5, <1>6, <1>8, <1>9, <1>10, <1>11, OneSession

\* A new session has no past.
LEMMA SessionOpens ==
  ASSUME OwnInv, HistoryInv, OnAdk, SequentialInv, NEW r \in Req, NEW x \in SessionId,
         CreateSession(r, x), \A q \in Req \ {r} : Same(q)
  PROVE  SequentialInv'
<1> DEFINE c == IF Durable THEN Fresh(req[r].user) ELSE NoCopy
           n == Len(answers[x])
           s == [req[r] EXCEPT !.sid = x, !.before = n, !.pc = "ensure", !.copy = c]
<1>1. /\ req[r] \in Request /\ req[r].pc = "resolve" /\ \A q \in Req : req[q].sid # x
      /\ session' = [session EXCEPT ![x] = Fresh(req[r].user)]
      /\ Become(r, s) /\ UNCHANGED <<config, answers>>
  BY RequestTyped DEF CreateSession, AfterResolve, OnAdk
<1> HIDE DEF c, n
<1>2. s.pc = "ensure" /\ s.sid = x /\ s.before = n /\ s.events = req[r].events
  BY <1>1 DEF Request
<1>3. req'[r] = s
  BY <1>1, Becomes
<1> HIDE DEF s
<1>4. session \in [SessionId -> Session]
  BY DEF OwnInv, TypeOK
<1>5. session'[x].events = <<>> /\ \A y \in SessionId \ {x} : session'[y] = session[y]
  BY <1>1, <1>4 DEF Fresh
<1>6. ~Started(r) /\ Remains(r)
  BY <1>1 DEF Started, Remains, Waiting
<1>7. OnlyStarted(req[r].events)'
  <2>1. PICK l : l = req[r].events
    OBVIOUS
  <2>2. OnlyStarted(l)
    BY <2>1 DEF SequentialInv, ListsOK
  <2>3. OnlyStarted(l)'
    BY <1>6, <2>2, StartedStays
  <2> QED
    BY <1>2, <1>3, <2>1, <2>3 DEF OnlyStarted
<1>8. OnlyStarted(session[x].events)'
  BY <1>5 DEF OnlyStarted, In
<1>9. answers'[x] = <<>>
  <2>1. answers[x] \in Seq(Req) /\ Len(answers[x]) \in Nat
    BY AnswersTyped
  <2>2. \A i \in DOMAIN answers[x] : FALSE
    <3>1. \A i \in DOMAIN answers[x] : answers[x][i] \in Req /\ req[answers[x][i]].sid = x
      BY <2>1, ElementOfSeq, LenProperties DEF HistoryInv, AnswersOK
    <3> QED
      BY <1>1, <3>1
  <2>3. Len(answers[x]) = 0
    <3>1. DOMAIN answers[x] = 1 .. Len(answers[x])
      BY <2>1, LenProperties
    <3>2. 1 \notin 1 .. Len(answers[x])
      BY <2>2, <3>1
    <3> QED
      BY <2>1, <3>2
  <2> QED
    BY <1>1, <2>1, <2>3, EmptySeq
<1>10. \A q \in Req \ {r} : req'[q].sid # x
  BY <1>1, SameRequest
<1>11. RunnerOK(r, x)' /\ ~HasSaved(r)'
  <2>1. req'[r].pc = "ensure" /\ req'[r].before = Len(answers'[x])
    BY <1>1, <1>2, <1>3 DEF n
  <2> QED
    BY <2>1 DEF RunnerOK, EventsOK, Ran, HasSaved
<1>12. SessionOK(x)'
  BY <1>9, <1>10, <1>11 DEF SessionOK
<1> QED
  BY <1>1, <1>2, <1>3, <1>5, <1>6, <1>7, <1>8, <1>12, OneSession

LEMMA SequentialStarts == Init => SequentialInv
<1> SUFFICES ASSUME Init PROVE SequentialInv
  OBVIOUS
<1>1. \A r \in Req : req[r].pc = "new" /\ req[r].events = <<>>
  BY DEF Init
<1>2. \A y \in SessionId : session[y].events = <<>> /\ answers[y] = <<>>
  BY DEF Init, Fresh
<1>3. ListsOK
  BY <1>1, <1>2, NobodyIn DEF ListsOK
<1>4. ASSUME NEW y \in SessionId PROVE SessionOK(y)
  <2>1. \A r \in Req : RunnerOK(r, y) /\ ~HasSaved(r)
    BY <1>1 DEF RunnerOK, Uses, Running, Ran, HasSaved
  <2> QED
    BY <1>2, <2>1 DEF SessionOK
<1> QED
  BY <1>3, <1>4 DEF SequentialInv

LEMMA IdleSequential ==
  ASSUME SequentialInv, UNCHANGED <<config, session, req, answers>>
  PROVE  SequentialInv'
<1>1. CASE ~OnAdk
  BY <1>1 DEF SequentialInv, OnAdk, Durable
<1>2. CASE OnAdk
  <2>1. ListsOK /\ \A y \in SessionId : Undisturbed(y) => SessionOK(y)
    BY <1>2 DEF SequentialInv
  <2>2. ListsOK'
    BY <2>1 DEF ListsOK, OnlyStarted, Started, Waiting, In
  <2>3. EventBound' = EventBound
    BY DEF EventBound
  <2>4. \A y \in SessionId : Undisturbed(y)' = Undisturbed(y)
    BY DEF Undisturbed, Waiting
  <2>5. ASSUME NEW y \in SessionId, SessionOK(y) PROVE SessionOK(y)'
    <3>1. \A r \in Req : /\ RunnerOK(r, y) => RunnerOK(r, y)'
                         /\ HasSaved(r)' = HasSaved(r)
      BY <2>3 DEF RunnerOK, EventsOK, HasAnswered, HasSaved, Uses, Ran, In
    <3> QED
      BY <2>3, <2>5, <3>1 DEF SessionOK
  <2> QED
    BY <2>1, <2>2, <2>4, <2>5 DEF SequentialInv
<1> QED
  BY <1>1, <1>2

LEMMA SequentialKept == OwnInv /\ HistoryInv /\ SequentialInv /\ [Next]_vars => SequentialInv'
<1> SUFFICES ASSUME OwnInv, HistoryInv, SequentialInv, [Next]_vars PROVE SequentialInv'
  OBVIOUS
<1>1. CASE TimePasses \/ UNCHANGED vars
  BY <1>1, IdleSequential DEF TimePasses, Tick, vars
<1> SUFFICES ASSUME Next, ~TimePasses PROVE SequentialInv'
  BY <1>1
<1>2. config' = config
  <2>1. PICK r \in Req :
            \/ Receive(r) \/ Remember(r) \/ LimitLocally(r) \/ ReadClock(r) \/ Consume(r)
            \/ \E x \in SessionId : CreateSession(r, x)
            \/ NotFound(r) \/ Purge(r) \/ Denied(r) \/ Resolve(r) \/ Ensure(r)
            \/ Recall(r) \/ Search(r) \/ Store(r) \/ Enforce(r) \/ StartGraph(r) \/ StartRunner(r)
            \/ PersistNothing(r) \/ PersistShared(r) \/ LoadView(r) \/ SaveView(r)
            \/ ModelAnswers(r) \/ ModelFails(r) \/ CommitShared(r) \/ CommitCopy(r) \/ Disappear(r)
    BY DEF Next
  <2>2. CASE \/ Receive(r) \/ Remember(r) \/ LimitLocally(r) \/ ReadClock(r) \/ Consume(r)
             \/ \E x \in SessionId : CreateSession(r, x)
             \/ NotFound(r) \/ Purge(r) \/ Denied(r) \/ Resolve(r) \/ Ensure(r)
    BY <2>2 DEF Receive, Remember, LimitLocally, ReadClock, Consume, CreateSession, NotFound,
       Purge, Denied, Resolve, Ensure, Stores
  <2>3. CASE \/ Recall(r) \/ Search(r) \/ Store(r) \/ Enforce(r) \/ StartGraph(r) \/ StartRunner(r)
             \/ PersistNothing(r) \/ PersistShared(r) \/ LoadView(r) \/ SaveView(r)
             \/ ModelAnswers(r) \/ ModelFails(r) \/ CommitShared(r) \/ CommitCopy(r) \/ Disappear(r)
    BY <2>3 DEF Recall, Search, Store, Enforce, StartGraph, StartRunner, PersistNothing,
       PersistShared, LoadView, SaveView, ModelAnswers, ModelFails, CommitShared, CommitCopy,
       Disappear, Stores
  <2> QED
    BY <2>1, <2>2, <2>3
<1>3. CASE ~OnAdk
  BY <1>2, <1>3 DEF SequentialInv, OnAdk, Durable
<1> SUFFICES ASSUME OnAdk PROVE SequentialInv'
  BY <1>3
<1>4. ASSUME NEW r \in Req, NEW x \in SessionId, CreateSession(r, x) PROVE SequentialInv'
  BY <1>4, CreateSaves, SessionOpens DEF CreateSession
<1>5. ASSUME NEW r \in Req,
             \/ Receive(r) \/ Remember(r) \/ LimitLocally(r) \/ ReadClock(r) \/ Consume(r)
             \/ NotFound(r) \/ Purge(r) \/ Denied(r) \/ Resolve(r) \/ Ensure(r)
             \/ Recall(r) \/ Search(r) \/ Store(r) \/ Enforce(r)
             \/ StartGraph(r) \/ ModelFails(r) \/ Disappear(r)
      PROVE  SequentialInv'
  <2>1. Steps(r)
    BY <1>5, ArrivalMoves, LimitMoves, LookupMoves, ResolveMoves, MemoryMoves, StartMoves, ModelMoves
  <2>2. UNCHANGED <<session, answers>>
    BY <1>5 DEF Receive, Remember, LimitLocally, ReadClock, Consume, NotFound, Purge, Denied,
       Resolve, Ensure, Recall, Search, Store, Enforce, StartGraph, ModelFails, Disappear, Stores
  <2> QED
    BY <1>2, <1>5, <2>1, <2>2, StepsAlone, AsideSteps, AsideKeeps
<1>6. ASSUME NEW r \in Req, StartRunner(r) PROVE SequentialInv'
  BY <1>6, StartMoves, StepsAlone, RunnerStarts
<1>7. ASSUME NEW r \in Req, ModelAnswers(r) PROVE SequentialInv'
  BY <1>7, ModelMoves, StepsAlone, RunnerAnswers
<1>8. ASSUME NEW r \in Req, PersistNothing(r) PROVE SequentialInv'
  BY <1>8, PersistMoves, StepsAlone, NothingPersists
<1>9. ASSUME NEW r \in Req, PersistShared(r) PROVE SequentialInv'
  BY <1>9, PersistSaves, StepsAlone, EventsPersist DEF SavesTo
<1>10. ASSUME NEW r \in Req, CommitShared(r) PROVE SequentialInv'
  <2>1. req'[r].pc = "answered"
    BY <1>10, Becomes, EndedIs DEF CommitShared
  <2>2. Steps(r)
    BY <1>10, <2>1, CommitSaves DEF SavesTo
  <2> QED
    BY <1>10, <2>2, StepsAlone, ExchangeCommits
<1>11. ASSUME NEW r \in Req, LoadView(r) \/ SaveView(r) \/ CommitCopy(r) PROVE FALSE
  <2>1. PlaceOK(req[r])
    BY RequestTyped DEF RequestOK
  <2> QED
    BY <1>11, <2>1 DEF LoadView, SaveView, CommitCopy, PlaceOK, OnAdk
<1> QED
  BY <1>4, <1>5, <1>6, <1>7, <1>8, <1>9, <1>10, <1>11 DEF Next

\* While nobody interferes with a session, the runner's list of events and the
\* session's are the same but for what the runner is about to append; and the list
\* holds the last answer unless later events have filled it.
THEOREM SequentialInvariant == Spec => []SequentialInv
<1>1. Init => SequentialInv
  BY SequentialStarts
<1>2. OwnInv /\ HistoryInv /\ SequentialInv /\ [Next]_vars => SequentialInv'
  BY SequentialKept
<1> QED
  BY <1>1, <1>2, OwnInvariant, HistoryInvariant, PTL DEF Spec

\* An ADK model on in-memory sessions sees the latest earlier answer of the
\* session, unless requests overlapped, the session expired under one, or events
\* of unanswered requests have filled the list since.
THEOREM ContextStaysSequential == Spec => []SequentialContext
<1>1. OwnInv /\ HistoryInv /\ SequentialInv => SequentialContext
  <2> SUFFICES ASSUME OwnInv, HistoryInv, SequentialInv, OnAdk, NEW r \in Req, Ran(r),
                      \A q \in Req : req[q].sid = req[r].sid => ~req[q].mixed,
                      NEW earlier, earlier = SubSeq(answers[req[r].sid], 1, req[r].before),
                      earlier # <<>>
               PROVE  \/ In(Answered(earlier[Len(earlier)]), req[r].seen)
                      \/ /\ Len(req[r].seen) > EventBound
                         /\ \A i \in DOMAIN req[r].seen : ~In(req[r].seen[i][1], earlier)
    BY DEF SequentialContext, OnAdk
  <2>1. req[r].sid \in SessionId
    <3>1. Ran(r) => Uses(req[r]) \/ req[r].pc = "answered"
      BY DEF Ran, Uses, Running
    <3> QED
      BY <3>1, HeldIsOwn DEF HistoryInv, LoadedOK
  <2>2. SessionOK(req[r].sid)
    BY <2>1 DEF SequentialInv, Undisturbed
  <2>3. Recent(req[r].seen, earlier, EventBound + 1)
    BY <2>2 DEF SessionOK, RunnerOK
  <2>4. /\ Len(req[r].seen) \in Nat /\ DOMAIN req[r].seen = 1 .. Len(req[r].seen)
        /\ EventBound \in Nat
    BY RequestTyped, Bounds, LenProperties DEF Request
  <2>5. PICK i \in 0 .. Len(req[r].seen) :
            /\ IF i = 0 THEN Len(req[r].seen) >= EventBound + 1
                        ELSE req[r].seen[i] = Answered(earlier[Len(earlier)])
            /\ \A j \in i + 1 .. Len(req[r].seen) : ~In(req[r].seen[j][1], earlier)
    BY <2>3 DEF Recent
  <2>6. CASE i = 0
    BY <2>4, <2>5, <2>6
  <2>7. CASE i # 0
    <3>1. req[r].seen[i] = Answered(earlier[Len(earlier)])
      BY <2>5, <2>7
    <3>2. i \in 1 .. Len(req[r].seen)
      BY <2>4, <2>7
    <3>3. In(Answered(earlier[Len(earlier)]), req[r].seen)
      BY <2>4, <3>1, <3>2 DEF In
    <3> QED
      BY <3>3
  <2> QED
    BY <2>6, <2>7
<1> QED
  BY <1>1, OwnInvariant, HistoryInvariant, SequentialInvariant, PTL
=============================================================================
