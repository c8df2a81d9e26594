---------------------------- MODULE A2aTaskProofs ----------------------------
(***************************************************************************)
(* Proofs about A2A task ownership and execution, for any number of        *)
(* requests, replicas and faults.                                          *)
(***************************************************************************)
EXTENDS A2aTask, SequenceTheorems, TLAPS

-----------------------------------------------------------------------------
\* Queues of events

HasTerminal(s) == \E i \in 1 .. Len(s) : s[i] \in Terminal

\* e is the first terminal event of s.
Ends(s, e) == /\ e \in Terminal
              /\ \E i \in 1 .. Len(s) : s[i] = e /\ \A j \in 1 .. (i - 1) : s[j] \notin Terminal

\* An event that is put behind others does not change the first terminal one.
LEMMA AppendedQueue ==
    ASSUME NEW s \in Seq(Events), NEW e \in Events
    PROVE  /\ Append(s, e) \in Seq(Events) /\ Append(s, e) # <<>>
           /\ HasTerminal(Append(s, e)) => HasTerminal(s) \/ e \in Terminal
           /\ \A t \in Events : Ends(s, t) => Ends(Append(s, e), t)
<1>1. /\ Append(s, e) \in Seq(Events) /\ Len(Append(s, e)) = Len(s) + 1 /\ Len(s) \in Nat
      /\ Append(s, e)[Len(s) + 1] = e /\ \A j \in 1 .. Len(s) : Append(s, e)[j] = s[j]
  OBVIOUS
<1>2. \A t \in Events : Ends(s, t) => Ends(Append(s, e), t)
  <2> SUFFICES ASSUME NEW t \in Events, Ends(s, t) PROVE Ends(Append(s, e), t)
    OBVIOUS
  <2>1. PICK i \in 1 .. Len(s) : s[i] = t /\ \A j \in 1 .. (i - 1) : s[j] \notin Terminal
    BY DEF Ends
  <2>2. i \in 1 .. Len(Append(s, e)) /\ \A j \in 1 .. (i - 1) : j \in 1 .. Len(s)
    BY <1>1
  <2> QED
    BY <1>1, <2>1, <2>2 DEF Ends
<1> QED
  BY <1>1, <1>2 DEF HasTerminal

\* The outcome of an execution is the first terminal event that it queues.
LEMMA PublishedQueue ==
    ASSUME NEW s \in Seq(Events), ~HasTerminal(s)
    PROVE  /\ s \o <<"failed">> \in Seq(Events) /\ s \o <<"canceled">> \in Seq(Events)
           /\ s \o <<"artifact", "completed">> \in Seq(Events)
           /\ Ends(s \o <<"failed">>, "failed")
           /\ Ends(s \o <<"artifact", "completed">>, "completed")
<1>1. \A e \in Terminal : <<e>> \in Seq(Events) /\ s \o <<e>> \in Seq(Events) /\ Ends(s \o <<e>>, e)
  <2> TAKE e \in Terminal
  <2>1. <<e>> \in Seq(Events) /\ s \o <<e>> \in Seq(Events) /\ Len(s \o <<e>>) = Len(s) + 1
    BY DEF Events
  <2>2. (s \o <<e>>)[Len(s) + 1] = e /\ \A j \in 1 .. Len(s) : (s \o <<e>>)[j] = s[j]
    BY <2>1
  <2> QED
    BY <2>1, <2>2 DEF Ends, HasTerminal
<1>2. s \o <<"artifact", "completed">> \in Seq(Events) /\ Ends(s \o <<"artifact", "completed">>, "completed")
  <2> DEFINE t == s \o <<"artifact", "completed">>
  <2>1. t \in Seq(Events) /\ Len(t) = Len(s) + 2
    BY DEF Events, Terminal
  <2>2. t[Len(s) + 1] = "artifact" /\ t[Len(s) + 2] = "completed" /\ \A j \in 1 .. Len(s) : t[j] = s[j]
    OBVIOUS
  <2> HIDE DEF t
  <2>3. \A j \in 1 .. (Len(s) + 2 - 1) : t[j] \notin Terminal
    BY <2>2 DEF HasTerminal, Terminal
  <2>4. Ends(t, "completed")
    BY <2>1, <2>2, <2>3 DEF Ends, Terminal
  <2> QED
    BY <2>1, <2>4 DEF t
<1> QED
  BY <1>1, <1>2 DEF Terminal

\* The consumer meets the first terminal event first.
LEMMA ConsumedQueue ==
    ASSUME NEW s \in Seq(Events), s # <<>>
    PROVE  /\ Head(s) \in Events /\ Tail(s) \in Seq(Events) /\ Len(Tail(s)) = Len(s) - 1
           /\ Head(s) \in Terminal => HasTerminal(s)
           /\ HasTerminal(Tail(s)) => HasTerminal(s)
           /\ \A t \in Events : Ends(s, t) /\ Head(s) \in Terminal => Head(s) = t
           /\ \A t \in Events : Ends(s, t) /\ Head(s) \notin Terminal => Ends(Tail(s), t)
<1>1. /\ Len(s) \in Nat /\ Len(s) > 0 /\ Head(s) = s[1] /\ s[1] \in Events
      /\ Tail(s) \in Seq(Events) /\ Len(Tail(s)) = Len(s) - 1
      /\ \A i \in 1 .. Len(Tail(s)) : Tail(s)[i] = s[i + 1]
  OBVIOUS
<1>2. \A t \in Events : Ends(s, t) /\ Head(s) \notin Terminal => Ends(Tail(s), t)
  <2> SUFFICES ASSUME NEW t \in Events, Ends(s, t), Head(s) \notin Terminal PROVE Ends(Tail(s), t)
    OBVIOUS
  <2>1. PICK i \in 1 .. Len(s) : s[i] = t /\ \A j \in 1 .. (i - 1) : s[j] \notin Terminal
    BY DEF Ends
  <2>2. i # 1 /\ i - 1 \in 1 .. Len(Tail(s)) /\ Tail(s)[i - 1] = t
    BY <1>1, <2>1 DEF Ends
  <2>3. \A j \in 1 .. (i - 1 - 1) : Tail(s)[j] \notin Terminal
    BY <1>1, <2>1
  <2> QED
    BY <2>2, <2>3 DEF Ends
<1> QED
  BY <1>1, <1>2 DEF HasTerminal, Ends

-----------------------------------------------------------------------------
\* The inductive invariant

\* s, the state of a request, may still write; has the row; waits to cancel; is
\* the only one that its replica's SDK has active; is active there.
Writer(s) == s.told = "none" /\ (s.pc \in {"owner", "finalSave"} \cup Executing \cup Cleaning
                                 \/ s.queue # <<>>)
Has(s) == row.state = "running" /\ row.owner = s.rep /\ row.fence = s.fence
Asks(s) == s.pc \in {"requesting", "cancelGet"}
Solo(s) == (Asks(s) /\ s.home = {}) \/ (s.lent /\ s.queue # <<>>)
Holds(s) == s.kind # "stream" /\ (s.pc \in Busy \/ s.queue # <<>>)

\* The term that s is about to write into the row is the event that it queued.
Settles(s) ==
    s.term \in {"completed", "failed"} =>
        /\ s.pc \in {"finally", "drain"} /\ ~s.broken => s.told = s.term \/ Ends(s.queue, s.term)
        /\ s.pc = "release" => s.told = s.term

ShapeOK(s) ==
    /\ s.kind = "stream" => s.pc \in {"new", "answered", "ended", "error", "crashed"} \cup Relaying
                            /\ s.queue = <<>>
    /\ s.pc \in Relaying => s.kind = "stream"
    /\ Asks(s) => s.kind = "cancel"
    /\ s.pc = "new" \/ Asks(s) \/ s.kind = "stream" => s.fence = 0
    /\ s.lent => s.kind = "cancel" /\ s.pc \in Done
    /\ s.queue # <<>> => s.pc \in Executing \cup Cleaning \cup Done
    /\ HasTerminal(s.queue) => s.pc \in Cleaning \cup Done
    /\ s.told # "none" => s.queue = <<>> /\ s.pc \in Cleaning \cup Done
    /\ s.pc \in {"finalSave", "closing", "finalRelease"} => s.term \in Terminal
    /\ s.pc = "finalSave" => s.term # "completed"
    /\ Settles(s)

\* The stream s has not read past the terminal event.
StreamOK(s) ==
    /\ s.got <= Len(log)
    /\ s.kind = "stream" /\ s.got > 0 /\ log[s.got].event \in Terminal => s.pc = "answered"
    /\ s.seen \in Terminal => s.seen = row.state
    /\ s.kind = "stream" /\ s.pc = "ended" => s.seen # "completed"

ReqOK(s) ==
    /\ ShapeOK(s) /\ StreamOK(s)
    /\ s.fence <= row.fence
    \* who may still write an outcome does so before there is one
    /\ Writer(s) /\ Has(s) => task \notin Terminal
    /\ Asks(s) /\ s.home = {} /\ row.owner = s.rep => task \notin Terminal
    /\ s.told # "none" => s.told = task
    /\ s.pc \in {"closing", "finalRelease"} => s.term = task

\* Fences are issued once; the newest was issued to a request.
FencesOK ==
    /\ \A p, q \in Req : p # q /\ ~req[p].lent /\ ~req[q].lent /\ req[p].fence = req[q].fence =>
           req[p].fence = 0
    /\ row.fence > 0 => \E q \in Req : ~req[q].lent /\ req[q].fence = row.fence

\* Executions that a cancellation found active are not in their try block any more.
HomesOK == \A c \in Req : Asks(req[c]) => \A p \in req[c].home : req[p].pc \in Cleaning \cup Done

AloneOK == \A c, p \in Req : Solo(req[c]) /\ Holds(req[p]) /\ req[p].rep = req[c].rep => p = c

RowOK ==
    /\ row.state = "absent" => row.owner = Nobody /\ task = "none"
    /\ row.state = "running" => row.fence > 0
    /\ row.state \in Terminal => row.owner = Nobody
    /\ row.state \in {"completed", "failed"} => task = row.state
    /\ written <= row.fence

LogOK ==
    /\ \A i \in 1 .. Len(log) : log[i].event \in Terminal => task = log[i].event
    /\ task = "completed" => Len(log) > 0 /\ log[Len(log)].event = "completed"

TaskInv == TypeOK /\ (\A q \in Req : ReqOK(req[q])) /\ FencesOK /\ HomesOK /\ AloneOK /\ RowOK /\ LogOK

-----------------------------------------------------------------------------
\* Steps of one request that leave the task, the log and the row's owner alone

\* The request q may become s: it keeps what identifies it, does not begin to
\* cancel, and becomes active where nobody is only.
MayBecome(q, s) ==
    /\ s.kind = req[q].kind /\ s.rep = req[q].rep /\ s.fence = req[q].fence
    /\ s.lent = req[q].lent
    /\ req[q].pc \in Cleaning \cup Done => s.pc \in Cleaning \cup Done
    /\ Asks(s) => Asks(req[q]) /\ s.home = req[q].home
    /\ s.lent /\ s.queue # <<>> => req[q].queue # <<>>
    /\ Holds(s) => Holds(req[q]) \/ \A p \in Req : ~(Holds(req[p]) /\ req[p].rep = s.rep)

SameRow == /\ row'.state = row.state /\ row'.owner = row.owner /\ row'.fence = row.fence
           /\ UNCHANGED <<task, log, written>>

\* Several requests may change at once.  One that becomes active finds nobody alone,
\* one that becomes alone finds nobody active; a cancellation borrows a fence.
MayChange(p, s) ==
    /\ s \in ReqState /\ s.kind = req[p].kind /\ s.rep = req[p].rep
    /\ \/ s.fence = req[p].fence /\ s.lent = req[p].lent
       \/ s.lent /\ req[p].fence = 0
    /\ Solo(s) => Solo(req[p]) \/ \A r \in Req : ~(Holds(req[r]) /\ req[r].rep = s.rep)
    /\ Holds(s) => Holds(req[p]) \/ \A r \in Req : ~(Solo(req[r]) /\ req[r].rep = s.rep)

NewlyHolds(p) == Holds(req'[p]) /\ ~Holds(req[p])

\* A request that is alone on its replica is active there.
LEMMA SoloHolds == ASSUME NEW s, ShapeOK(s), Solo(s) PROVE Holds(s)
  BY DEF Solo, Holds, Asks, ShapeOK, Busy, Canceling

\* The owner may die meanwhile, or the row be released.
RowMoves ==
    /\ row'.fence = row.fence
    /\ \/ row'.state = row.state /\ row'.owner \in {row.owner, Nobody}
       \/ /\ row.state \notin Terminal \cup {"absent"} /\ row'.owner = Nobody
          /\ row'.state \in {"released"} \cup Terminal
          /\ row'.state \in {"completed", "failed"} => task = row'.state

\* Several requests may move at once, as when a replica dies.
LEMMA Moves ==
    ASSUME TaskInv, TypeOK', HomesOK', RowMoves, UNCHANGED <<task, log, written>>,
           \A p \in Req : ReqOK(req'[p]) /\ MayChange(p, req'[p]),
           \A p, c \in Req : NewlyHolds(p) /\ NewlyHolds(c) => p = c
    PROVE  TaskInv'
<1>1. (\A p \in Req : ReqOK(req[p]))'
  <2>1. \A p \in Req : req'[p].rep # Nobody
    BY NobodyAssumption DEF MayChange, ReqState
  <2> QED
    BY <2>1 DEF RowMoves, ReqOK, StreamOK, Has, ShapeOK, Settles, Ends, HasTerminal, Writer, Asks
<1>2. FencesOK'
  <2>1. \A p \in Req : ~req'[p].lent => req'[p].fence = req[p].fence /\ ~req[p].lent
    BY DEF MayChange
  <2>2. \A p \in Req : ~req[p].lent /\ req[p].fence > 0 => ~req'[p].lent /\ req'[p].fence = req[p].fence
    BY DEF MayChange
  <2> QED
    BY <2>1, <2>2 DEF TaskInv, FencesOK, RowMoves
<1>3. AloneOK'
  <2> SUFFICES ASSUME NEW c \in Req, NEW p \in Req, Solo(req'[c]), Holds(req'[p]),
                      req'[p].rep = req'[c].rep
               PROVE  p = c
    BY DEF AloneOK, Solo, Holds, Asks
  <2>1. Holds(req'[c])
    BY SoloHolds DEF ReqOK
  <2>2. Solo(req[c]) => Holds(req[c])
    BY SoloHolds DEF TaskInv, ReqOK
  <2>3. req[p].rep = req[c].rep /\ req[c].rep = req'[c].rep
    BY DEF MayChange
  <2>4. CASE Solo(req[c]) /\ Holds(req[p])
    BY <2>3, <2>4 DEF TaskInv, AloneOK
  <2>5. CASE Solo(req[c]) /\ ~Holds(req[p])
    BY <2>2, <2>3, <2>5 DEF MayChange
  <2>6. CASE ~Solo(req[c])
    <3>1. ~Holds(req[c]) /\ ~Holds(req[p])
      BY <2>3, <2>6 DEF MayChange
    <3> QED
      BY <2>1, <3>1 DEF NewlyHolds
  <2> QED
    BY <2>4, <2>5, <2>6
<1>4. RowOK' /\ LogOK'
  BY DEF TaskInv, RowOK, LogOK, RowMoves, Terminal
<1> QED
  BY <1>1, <1>2, <1>3, <1>4 DEF TaskInv

\* One request moves.
LEMMA Move ==
    ASSUME TaskInv, NEW q \in Req, NEW s \in ReqState, req' = [req EXCEPT ![q] = s],
           SameRow, TypeOK', ReqOK(s), MayBecome(q, s)
    PROVE  TaskInv'
<1>1. req'[q] = s /\ \A p \in Req \ {q} : req'[p] = req[p]
  BY DEF TaskInv, TypeOK
<1>2. \A p \in Req : ReqOK(req'[p])
  BY <1>1 DEF TaskInv
<1>3. HomesOK'
  <2> SUFFICES ASSUME NEW c \in Req, Asks(req'[c]), NEW p \in req'[c].home
               PROVE  req'[p].pc \in Cleaning \cup Done
    BY DEF HomesOK, Asks
  <2>1. Asks(req[c]) /\ req'[c].home = req[c].home
    BY <1>1 DEF MayBecome
  <2>2. p \in Req /\ req[p].pc \in Cleaning \cup Done
    BY <2>1 DEF TaskInv, HomesOK, TypeOK, ReqState
  <2> QED
    BY <1>1, <2>2 DEF MayBecome
<1>4. \A p \in Req : MayChange(p, req'[p])
  <2>1. MayChange(q, s)
    <3>1. Solo(s) => Solo(req[q])
      BY DEF MayBecome, Solo
    <3>2. \A r \in Req : Solo(req[r]) => Holds(req[r])
      BY SoloHolds DEF TaskInv, ReqOK
    <3> QED
      BY <3>1, <3>2 DEF MayBecome, MayChange
  <2>2. \A p \in Req \ {q} : MayChange(p, req[p])
    BY DEF MayChange, TaskInv, TypeOK
  <2> QED
    BY <1>1, <2>1, <2>2
<1>5. \A p, c \in Req : NewlyHolds(p) /\ NewlyHolds(c) => p = c
  BY <1>1 DEF NewlyHolds
<1>6. RowMoves /\ UNCHANGED <<task, log, written>>
  BY DEF SameRow, RowMoves
<1>7. \A p \in Req : ReqOK(req'[p]) /\ MayChange(p, req'[p])
  BY <1>2, <1>4
<1> QED
  BY <1>3, <1>5, <1>6, <1>7, Moves

\* ... and with it the flags of the row, the calls and the faults may change.
LEMMA Plain ==
    ASSUME TaskInv, NEW q \in Req, NEW s \in ReqState, Become(q, s),
           SameRow, row' \in [owner : Replica \cup {Nobody}, fence : Nat, live : BOOLEAN,
                              cancel : BOOLEAN,
                              state : {"absent", "running", "released"} \cup Terminal],
           calls' \subseteq Req, faults' \in 0 .. MaxFaults,
           ReqOK(s), MayBecome(q, s)
    PROVE  TaskInv'
<1>1. TypeOK'
  BY DEF TaskInv, TypeOK, Become, SameRow
<1> QED
  BY <1>1, Move DEF Become

\* What a step that leaves the others alone satisfies.
LEMMA Unmoved ==
    ASSUME TaskInv, UNCHANGED Others
    PROVE  /\ SameRow /\ calls' \subseteq Req /\ faults' \in 0 .. MaxFaults
           /\ row' \in [owner : Replica \cup {Nobody}, fence : Nat, live : BOOLEAN,
                        cancel : BOOLEAN,
                        state : {"absent", "running", "released"} \cup Terminal]
  BY DEF TaskInv, TypeOK, Others, SameRow

\* Every change of a field that some step makes.
LEMMA ReqFields ==
    ASSUME NEW r \in ReqState
    PROVE  /\ \A p \in {"new"} \cup Busy \cup Done : [r EXCEPT !.pc = p] \in ReqState
           /\ \A t \in {"released"} \cup Terminal : [r EXCEPT !.term = t] \in ReqState
           /\ \A t \in {"none"} \cup Terminal : [r EXCEPT !.told = t] \in ReqState
           /\ \A w \in Seq(Events) : [r EXCEPT !.queue = w] \in ReqState
           /\ \A b \in {"off", "on", "raised"} : [r EXCEPT !.beat = b] \in ReqState
           /\ \A x \in {"none", "running", "released", "absent"} \cup Terminal :
                  [r EXCEPT !.seen = x] \in ReqState
           /\ \A n \in Nat : [r EXCEPT !.got = n] \in ReqState /\ [r EXCEPT !.fence = n] \in ReqState
           /\ \A b \in BOOLEAN : /\ [r EXCEPT !.cancel = b] \in ReqState
                                 /\ [r EXCEPT !.broken = b] \in ReqState
                                 /\ [r EXCEPT !.lent = b] \in ReqState
           /\ \A h \in SUBSET Req : [r EXCEPT !.home = h] \in ReqState
<1>1. \A p \in {"new"} \cup Busy \cup Done : [r EXCEPT !.pc = p] \in ReqState
  BY DEF ReqState
<1>2. /\ \A t \in {"released"} \cup Terminal : [r EXCEPT !.term = t] \in ReqState
      /\ \A t \in {"none"} \cup Terminal : [r EXCEPT !.told = t] \in ReqState
  BY DEF ReqState
<1>3. \A w \in Seq(Events) : [r EXCEPT !.queue = w] \in ReqState
  BY DEF ReqState
<1>4. /\ \A b \in {"off", "on", "raised"} : [r EXCEPT !.beat = b] \in ReqState
      /\ \A h \in SUBSET Req : [r EXCEPT !.home = h] \in ReqState
  BY DEF ReqState
<1>5. \A x \in {"none", "running", "released", "absent"} \cup Terminal : [r EXCEPT !.seen = x] \in ReqState
  BY DEF ReqState
<1>6. \A n \in Nat : [r EXCEPT !.got = n] \in ReqState /\ [r EXCEPT !.fence = n] \in ReqState
  BY DEF ReqState
<1>7. \A b \in BOOLEAN : /\ [r EXCEPT !.cancel = b] \in ReqState
                       /\ [r EXCEPT !.broken = b] \in ReqState
                       /\ [r EXCEPT !.lent = b] \in ReqState
  BY DEF ReqState
<1> QED
  BY <1>1, <1>2, <1>3, <1>4, <1>5, <1>6, <1>7

\* The values that the steps use.
LEMMA Values ==
    /\ {"acquire", "owner"} \subseteq Busy /\ Done = {"answered", "ended", "error", "crashed"}
    /\ Executing \subseteq Busy /\ Cleaning \subseteq Busy /\ Finalizing \subseteq Busy
    /\ Waiting \subseteq Busy /\ Canceling \subseteq Busy /\ Relaying \subseteq Busy
    /\ Terminal = {"completed", "failed", "canceled"}
  BY DEF Busy, Done, Terminal

\* All but pc, term, queue and beat.
Alike(s, r) ==
    /\ s.kind = r.kind /\ s.rep = r.rep /\ s.fence = r.fence /\ s.lent = r.lent
    /\ s.broken = r.broken /\ s.cancel = r.cancel /\ s.home = r.home
    /\ s.seen = r.seen /\ s.told = r.told /\ s.got = r.got

\* An execution that leaves its try block, with nothing or with events published.
LEMMA ToFinallyFields ==
    ASSUME NEW q \in Req, req[q] \in ReqState, NEW t \in {"released"} \cup Terminal
    PROVE  /\ ToFinally(q, t) \in ReqState
           /\ ToFinally(q, t).pc = "finally" /\ ToFinally(q, t).term = t
           /\ ToFinally(q, t).queue = req[q].queue /\ Alike(ToFinally(q, t), req[q])
<1> DEFINE b == IF req[q].beat = "on" THEN "off" ELSE req[q].beat
<1>1. ToFinally(q, t) = [req[q] EXCEPT !.pc = "finally", !.term = t, !.beat = b]
  BY DEF ToFinally
<1>2. b \in {"off", "on", "raised"}
  BY DEF ReqState
<1> HIDE DEF b
<1>3. ToFinally(q, t) \in ReqState
  <2>1. [req[q] EXCEPT !.pc = "finally"] \in ReqState
    BY ReqFields, Values DEF Cleaning
  <2>2. [[req[q] EXCEPT !.pc = "finally"] EXCEPT !.term = t] \in ReqState
    BY <2>1, ReqFields
  <2> QED
    BY <1>1, <1>2, <2>2, ReqFields
<1>4. /\ ToFinally(q, t).pc = "finally" /\ ToFinally(q, t).term = t
      /\ ToFinally(q, t).queue = req[q].queue /\ Alike(ToFinally(q, t), req[q])
  BY <1>1 DEF ReqState, Alike
<1> QED
  BY <1>3, <1>4

\* ... with the events that it puts into its queue.
LEMMA PublishFields ==
    ASSUME NEW q \in Req, req[q] \in ReqState, NEW t \in Terminal, NEW e,
           req[q].queue \o e \in Seq(Events)
    PROVE  /\ Publish(q, e, t) \in ReqState
           /\ Publish(q, e, t).pc = "finally" /\ Publish(q, e, t).term = t
           /\ Publish(q, e, t).queue = req[q].queue \o e
           /\ Alike(Publish(q, e, t), req[q])
<1> DEFINE s == ToFinally(q, t)
<1>1. /\ s \in ReqState /\ s.queue = req[q].queue /\ s.pc = "finally" /\ s.term = t
      /\ Alike(s, req[q])
  BY ToFinallyFields
<1>2. Publish(q, e, t) = [s EXCEPT !.queue = req[q].queue \o e]
  BY <1>1 DEF Publish
<1> HIDE DEF s
<1> QED
  BY <1>1, <1>2 DEF ReqState, Alike

\* Whoever is refused the row waits.
LEMMA AcquireRefusedKeeps == ASSUME TaskInv, NEW q \in Req, AcquireRefused(q) PROVE TaskInv'
<1>1. req[q] \in ReqState /\ ReqOK(req[q])
  BY DEF TaskInv, TypeOK
<1>2. PICK p \in {"remoteTask", "waitTask"} : Go(q, p) /\ (p = "remoteTask" <=> req[q].pc = "remoteAcquire")
  BY <1>1 DEF AcquireRefused
<1> DEFINE s == [req[q] EXCEPT !.pc = p]
<1>3. s \in ReqState
  BY <1>1, <1>2, ReqFields, Values DEF Executing, Cleaning, Finalizing, Waiting, Canceling, Relaying
<1>4. ReqOK(s)
  BY <1>1, <1>2 DEF AcquireRefused, ReqOK, ShapeOK, StreamOK, Settles, Has, Asks, Writer,
     ReqState, Busy, Executing, Cleaning, Finalizing, Waiting, Canceling, Relaying, Done
<1>5. MayBecome(q, s)
  BY <1>1, <1>2 DEF AcquireRefused, MayBecome, Asks, Holds, ReqOK, ShapeOK, ReqState, Busy, Executing, Cleaning, Finalizing, Waiting, Canceling, Relaying, Done
<1> QED
  BY <1>3, <1>4, <1>5, <1>2, Plain, Unmoved DEF AcquireRefused, Go, Become

\* A replay tells the outcome of the task.
LEMMA WaitReadTaskKeeps == ASSUME TaskInv, NEW q \in Req, WaitReadTask(q) PROVE TaskInv'
<1>1. req[q] \in ReqState /\ ReqOK(req[q])
  BY DEF TaskInv, TypeOK
<1> DEFINE s == IF task \in Terminal
                 THEN [req[q] EXCEPT !.pc = "answered", !.told = task]
                 ELSE [req[q] EXCEPT !.pc = "waitRow"]
<1>3. s \in ReqState
  BY <1>1, ReqFields, Values DEF Executing, Cleaning, Finalizing, Waiting, Canceling, Relaying
<1>4. ReqOK(s)
  BY <1>1 DEF WaitReadTask, ReqOK, ShapeOK, StreamOK, Settles, Has, Asks, Writer,
     ReqState, Busy, Executing, Cleaning, Finalizing, Waiting, Canceling, Relaying, Done
<1>5. MayBecome(q, s)
  BY <1>1 DEF WaitReadTask, MayBecome, Asks, Holds, ReqOK, ShapeOK, ReqState, Busy, Executing, Cleaning, Finalizing, Waiting, Canceling, Relaying, Done
<1> QED
  BY <1>3, <1>4, <1>5, Plain, Unmoved DEF WaitReadTask, Go, Become

\* Waiting changes nothing.
LEMMA WaitReadRowKeeps == ASSUME TaskInv, NEW q \in Req, WaitReadRow(q) PROVE TaskInv'
<1>1. req[q] \in ReqState /\ ReqOK(req[q])
  BY DEF TaskInv, TypeOK
<1>2. PICK p \in {"waitAcquire", "error", "waitTask"} : Go(q, p)
  BY <1>1 DEF WaitReadRow
<1> DEFINE s == [req[q] EXCEPT !.pc = p]
<1>3. s \in ReqState
  BY <1>1, <1>2, ReqFields, Values DEF Executing, Cleaning, Finalizing, Waiting, Canceling, Relaying
<1>4. ReqOK(s)
  BY <1>1, <1>2 DEF WaitReadRow, ReqOK, ShapeOK, StreamOK, Settles, Has, Asks, Writer,
     ReqState, Busy, Executing, Cleaning, Finalizing, Waiting, Canceling, Relaying, Done
<1>5. MayBecome(q, s)
  BY <1>1, <1>2 DEF WaitReadRow, MayBecome, Asks, Holds, ReqOK, ShapeOK, ReqState, Busy, Executing, Cleaning, Finalizing, Waiting, Canceling, Relaying, Done
<1> QED
  BY <1>3, <1>4, <1>5, <1>2, Plain, Unmoved DEF WaitReadRow, Go, Become

\* The first event of an execution is not terminal.
LEMMA StartKeeps == ASSUME TaskInv, NEW q \in Req, Start(q) PROVE TaskInv'
<1>1. req[q] \in ReqState /\ ReqOK(req[q])
  BY DEF TaskInv, TypeOK
<1> DEFINE s == [req[q] EXCEPT !.pc = "check1", !.beat = "on",
                                !.queue = Append(@, "submitted")]
<1>q. /\ Append(req[q].queue, "submitted") \in Seq(Events)
      /\ ~HasTerminal(Append(req[q].queue, "submitted"))
  BY <1>1, AppendedQueue DEF Start, ReqState, Events, Terminal, ReqOK, ShapeOK, Executing, Cleaning, Done
<1>3. s \in ReqState
  BY <1>1, <1>q, ReqFields, Values DEF Executing, Cleaning, Finalizing, Waiting, Canceling, Relaying
<1>4. ReqOK(s)
  BY <1>1, <1>q DEF Start, ReqOK, ShapeOK, StreamOK, Settles, Has, Asks, Writer,
     ReqState, Busy, Executing, Cleaning, Finalizing, Waiting, Canceling, Relaying, Done
<1>5. MayBecome(q, s)
  BY <1>1, <1>q DEF Start, MayBecome, Asks, Holds, ReqOK, ShapeOK, ReqState, Busy, Executing, Cleaning, Finalizing, Waiting, Canceling, Relaying, Done
<1> QED
  BY <1>3, <1>4, <1>5, Plain, Unmoved DEF Start, Go, Become

\* The agent's answer or exception.
LEMMA InvokeEndsKeeps == ASSUME TaskInv, NEW q \in Req, InvokeEnds(q) PROVE TaskInv'
<1>1. req[q] \in ReqState /\ ReqOK(req[q])
  BY DEF TaskInv, TypeOK
<1>2. PICK p \in {"check2", "checkExc"} : Go(q, p)
  BY <1>1 DEF InvokeEnds
<1> DEFINE s == [req[q] EXCEPT !.pc = p]
<1>3. s \in ReqState
  BY <1>1, <1>2, ReqFields, Values DEF Executing, Cleaning, Finalizing, Waiting, Canceling, Relaying
<1>4. ReqOK(s)
  BY <1>1, <1>2 DEF InvokeEnds, ReqOK, ShapeOK, StreamOK, Settles, Has, Asks, Writer,
     ReqState, Busy, Executing, Cleaning, Finalizing, Waiting, Canceling, Relaying, Done
<1>5. MayBecome(q, s)
  BY <1>1, <1>2 DEF InvokeEnds, MayBecome, Asks, Holds, ReqOK, ShapeOK, ReqState, Busy, Executing, Cleaning, Finalizing, Waiting, Canceling, Relaying, Done
<1> QED
  BY <1>3, <1>4, <1>5, <1>2, Plain, Unmoved DEF InvokeEnds, Go, Become

\* bind_session goes on or ends the execution.
LEMMA BindSessionKeeps == ASSUME TaskInv, NEW q \in Req, BindSession(q) PROVE TaskInv'
<1>1. req[q] \in ReqState /\ ReqOK(req[q])
  BY DEF TaskInv, TypeOK
<1> DEFINE s == IF Owns(q) THEN [req[q] EXCEPT !.pc = "check3"] ELSE ToFinally(q, "released")
<1>q. /\ ToFinally(q, "released") \in ReqState
      /\ ToFinally(q, "released").pc = "finally" /\ ToFinally(q, "released").term = "released"
      /\ ToFinally(q, "released").queue = req[q].queue /\ Alike(ToFinally(q, "released"), req[q])
  BY <1>1, ToFinallyFields DEF Terminal
<1>3. s \in ReqState
  BY <1>1, <1>q, ReqFields, Values DEF Executing, Cleaning, Finalizing, Waiting, Canceling, Relaying
<1>4. ReqOK(s)
  BY <1>1, <1>q DEF BindSession, ReqOK, ShapeOK, StreamOK, Settles, Has, Asks, Writer,
     ReqState, Busy, Executing, Cleaning, Finalizing, Waiting, Canceling, Relaying, Done, Alike
<1>5. MayBecome(q, s)
  BY <1>1, <1>q DEF BindSession, MayBecome, Asks, Holds, ReqOK, ShapeOK, ReqState, Busy, Executing, Cleaning, Finalizing, Waiting, Canceling, Relaying, Done, Alike
<1> QED
  BY <1>3, <1>4, <1>5, Plain, Unmoved DEF BindSession, Go, Become

\* A cancelled execution publishes no outcome.
LEMMA CancelledKeeps == ASSUME TaskInv, NEW q \in Req, Cancelled(q) PROVE TaskInv'
<1>1. req[q] \in ReqState /\ ReqOK(req[q])
  BY DEF TaskInv, TypeOK
<1> DEFINE s == ToFinally(q, IF row.cancel THEN "canceled" ELSE "released")
<1>q. /\ ToFinally(q, IF row.cancel THEN "canceled" ELSE "released") \in ReqState
      /\ ToFinally(q, IF row.cancel THEN "canceled" ELSE "released").pc = "finally" /\ ToFinally(q, IF row.cancel THEN "canceled" ELSE "released").term = IF row.cancel THEN "canceled" ELSE "released"
      /\ ToFinally(q, IF row.cancel THEN "canceled" ELSE "released").queue = req[q].queue /\ Alike(ToFinally(q, IF row.cancel THEN "canceled" ELSE "released"), req[q])
  BY <1>1, ToFinallyFields DEF Terminal
<1>3. s \in ReqState
  BY <1>1, <1>q, ReqFields, Values DEF Executing, Cleaning, Finalizing, Waiting, Canceling, Relaying
<1>4. ReqOK(s)
  BY <1>1, <1>q DEF Cancelled, ReqOK, ShapeOK, StreamOK, Settles, Has, Asks, Writer,
     ReqState, Busy, Executing, Cleaning, Finalizing, Waiting, Canceling, Relaying, Done, Alike
<1>5. MayBecome(q, s)
  BY <1>1, <1>q DEF Cancelled, MayBecome, Asks, Holds, ReqOK, ShapeOK, ReqState, Busy, Executing, Cleaning, Finalizing, Waiting, Canceling, Relaying, Done, Alike
<1> QED
  BY <1>3, <1>4, <1>5, Plain, Unmoved DEF Cancelled, Go, Become

\* A drained queue has told the outcome.
LEMMA DrainedKeeps == ASSUME TaskInv, NEW q \in Req, Drained(q) PROVE TaskInv'
<1>1. req[q] \in ReqState /\ ReqOK(req[q])
  BY DEF TaskInv, TypeOK
<1> DEFINE s == [req[q] EXCEPT !.pc = "release"]
<1>q. \A e : ~Ends(<<>>, e)
  BY DEF Ends
<1>3. s \in ReqState
  BY <1>1, <1>q, ReqFields, Values DEF Executing, Cleaning, Finalizing, Waiting, Canceling, Relaying
<1>4. ReqOK(s)
  BY <1>1, <1>q DEF Drained, ReqOK, ShapeOK, StreamOK, Settles, Has, Asks, Writer,
     ReqState, Busy, Executing, Cleaning, Finalizing, Waiting, Canceling, Relaying, Done
<1>5. MayBecome(q, s)
  BY <1>1, <1>q DEF Drained, MayBecome, Asks, Holds, ReqOK, ShapeOK, ReqState, Busy, Executing, Cleaning, Finalizing, Waiting, Canceling, Relaying, Done
<1> QED
  BY <1>3, <1>4, <1>5, Plain, Unmoved DEF Drained, Go, Become

\* A replay tells the outcome of the task.
LEMMA RemoteReadTaskKeeps == ASSUME TaskInv, NEW q \in Req, RemoteReadTask(q) PROVE TaskInv'
<1>1. req[q] \in ReqState /\ ReqOK(req[q])
  BY DEF TaskInv, TypeOK
<1> DEFINE s == IF task \in Terminal
                 THEN [req[q] EXCEPT !.pc = "answered", !.told = task]
                 ELSE [req[q] EXCEPT !.pc = "remoteRow"]
<1>3. s \in ReqState
  BY <1>1, ReqFields, Values DEF Executing, Cleaning, Finalizing, Waiting, Canceling, Relaying
<1>4. ReqOK(s)
  BY <1>1 DEF RemoteReadTask, ReqOK, ShapeOK, StreamOK, Settles, Has, Asks, Writer,
     ReqState, Busy, Executing, Cleaning, Finalizing, Waiting, Canceling, Relaying, Done
<1>5. MayBecome(q, s)
  BY <1>1 DEF RemoteReadTask, MayBecome, Asks, Holds, ReqOK, ShapeOK, ReqState, Busy, Executing, Cleaning, Finalizing, Waiting, Canceling, Relaying, Done
<1> QED
  BY <1>3, <1>4, <1>5, Plain, Unmoved DEF RemoteReadTask, Go, Become

\* Waiting changes nothing.
LEMMA RemoteReadRowKeeps == ASSUME TaskInv, NEW q \in Req, RemoteReadRow(q) PROVE TaskInv'
<1>1. req[q] \in ReqState /\ ReqOK(req[q])
  BY DEF TaskInv, TypeOK
<1>2. PICK p \in {"remoteAcquire", "remoteTask", "error"} : Go(q, p)
  BY <1>1 DEF RemoteReadRow
<1> DEFINE s == [req[q] EXCEPT !.pc = p]
<1>3. s \in ReqState
  BY <1>1, <1>2, ReqFields, Values DEF Executing, Cleaning, Finalizing, Waiting, Canceling, Relaying
<1>4. ReqOK(s)
  BY <1>1, <1>2 DEF RemoteReadRow, ReqOK, ShapeOK, StreamOK, Settles, Has, Asks, Writer,
     ReqState, Busy, Executing, Cleaning, Finalizing, Waiting, Canceling, Relaying, Done
<1>5. MayBecome(q, s)
  BY <1>1, <1>2 DEF RemoteReadRow, MayBecome, Asks, Holds, ReqOK, ShapeOK, ReqState, Busy, Executing, Cleaning, Finalizing, Waiting, Canceling, Relaying, Done
<1> QED
  BY <1>3, <1>4, <1>5, <1>2, Plain, Unmoved DEF RemoteReadRow, Go, Become

\* A stream sees the state of the row.
LEMMA RelayReadRowKeeps == ASSUME TaskInv, NEW q \in Req, RelayReadRow(q) PROVE TaskInv'
<1>1. req[q] \in ReqState /\ ReqOK(req[q])
  BY DEF TaskInv, TypeOK
<1> DEFINE s == [req[q] EXCEPT !.pc = "relayRead", !.seen = row.state]
<1>q. row.state \in {"none", "running", "released", "absent"} \cup Terminal
  BY DEF TaskInv, TypeOK
<1>3. s \in ReqState
  BY <1>1, <1>q, ReqFields, Values DEF Executing, Cleaning, Finalizing, Waiting, Canceling, Relaying
<1>4. ReqOK(s)
  BY <1>1, <1>q DEF RelayReadRow, ReqOK, ShapeOK, StreamOK, Settles, Has, Asks, Writer,
     ReqState, Busy, Executing, Cleaning, Finalizing, Waiting, Canceling, Relaying, Done
<1>5. MayBecome(q, s)
  BY <1>1, <1>q DEF RelayReadRow, MayBecome, Asks, Holds, ReqOK, ShapeOK, ReqState, Busy, Executing, Cleaning, Finalizing, Waiting, Canceling, Relaying, Done
<1> QED
  BY <1>3, <1>4, <1>5, Plain, Unmoved DEF RelayReadRow, Go, Become

\* A stream gives up.
LEMMA RelayTimeoutKeeps == ASSUME TaskInv, NEW q \in Req, RelayTimeout(q) PROVE TaskInv'
<1>1. req[q] \in ReqState /\ ReqOK(req[q])
  BY DEF TaskInv, TypeOK
<1> DEFINE s == [req[q] EXCEPT !.pc = "error"]
<1>3. s \in ReqState
  BY <1>1, ReqFields, Values DEF Executing, Cleaning, Finalizing, Waiting, Canceling, Relaying
<1>4. ReqOK(s)
  BY <1>1 DEF RelayTimeout, ReqOK, ShapeOK, StreamOK, Settles, Has, Asks, Writer,
     ReqState, Busy, Executing, Cleaning, Finalizing, Waiting, Canceling, Relaying, Done
<1>5. MayBecome(q, s)
  BY <1>1 DEF RelayTimeout, MayBecome, Asks, Holds, ReqOK, ShapeOK, ReqState, Busy, Executing, Cleaning, Finalizing, Waiting, Canceling, Relaying, Done
<1> QED
  BY <1>3, <1>4, <1>5, Plain, Unmoved DEF RelayTimeout, Go, Become

\* Only a task without an outcome is executed or finalized.
LEMMA ReadReclaimedKeeps == ASSUME TaskInv, NEW q \in Req, ReadReclaimed(q) PROVE TaskInv'
<1>1. /\ req[q] \in ReqState /\ ReqOK(req[q])
      /\ req[q].pc \in {"reclaimed", "finalTask"} /\ UNCHANGED Others
  BY DEF TaskInv, TypeOK, ReadReclaimed
<1>2. ASSUME NEW p \in {"owner", "error", "closing", "finalSave"},
             NEW t \in {"released"} \cup Terminal, Become(q, [req[q] EXCEPT !.pc = p, !.term = t]),
             p = "owner" => task \notin Terminal,
             p = "closing" => task \in Terminal /\ t = task,
             p = "finalSave" => task \notin Terminal /\ t \in Terminal \ {"completed"}
      PROVE  TaskInv'
  <2> DEFINE s == [req[q] EXCEPT !.pc = p, !.term = t]
  <2>1. s \in ReqState
    BY <1>1, ReqFields, Values DEF Finalizing
  <2>2. ReqOK(s)
    BY <1>1, <1>2 DEF ReqOK, ShapeOK, StreamOK, Settles, Has, Asks, Writer, ReqState, Executing,
       Cleaning, Relaying, Done
  <2>3. MayBecome(q, s)
    BY <1>1, <1>2 DEF MayBecome, Asks, Holds, ReqOK, ShapeOK, ReqState, Busy, Cleaning, Finalizing, Done
  <2> QED
    BY <1>1, <1>2, <2>1, <2>2, <2>3, Plain, Unmoved
<1>3. CASE task = "none"
  <2> DEFINE p == IF req[q].pc = "reclaimed" THEN "owner" ELSE "error"
  <2>1. Become(q, [req[q] EXCEPT !.pc = p])
    BY <1>3 DEF ReadReclaimed, Terminal
  <2>2. [req[q] EXCEPT !.pc = p] = [req[q] EXCEPT !.pc = p, !.term = req[q].term]
    BY <1>1 DEF ReqState
  <2>3. p \in {"owner", "error"} /\ req[q].term \in {"released"} \cup Terminal
    BY <1>1 DEF ReqState
  <2> HIDE DEF p
  <2> QED
    BY <1>2, <1>3, <2>1, <2>2, <2>3, Values
<1>4. CASE task \in Terminal
  BY <1>2, <1>4 DEF ReadReclaimed, Terminal
<1>5. CASE task \notin Terminal /\ task # "none"
  <2> DEFINE t == IF req[q].kind = "cancel" \/ req[q].cancel THEN "canceled" ELSE "failed"
  <2>1. Become(q, [req[q] EXCEPT !.pc = "finalSave", !.term = t])
    BY <1>5 DEF ReadReclaimed
  <2>2. t \in Terminal \ {"completed"}
    BY DEF Terminal
  <2> HIDE DEF t
  <2> QED
    BY <1>2, <1>5, <2>1, <2>2
<1> QED
  BY <1>3, <1>4, <1>5

\* The outcome that an execution publishes is the term it will release with.
LEMMA PublishKeeps ==
    ASSUME TaskInv, NEW q \in Req, NEW t \in Terminal, NEW e, UNCHANGED Others,
           req[q].pc \in Executing, req[q].queue \o e \in Seq(Events),
           t # "canceled" => Ends(req[q].queue \o e, t), Become(q, Publish(q, e, t))
    PROVE  TaskInv'
<1> DEFINE s == Publish(q, e, t)
<1>1. req[q] \in ReqState /\ ReqOK(req[q])
  BY DEF TaskInv, TypeOK
<1>2. /\ s \in ReqState /\ s.pc = "finally" /\ s.term = t /\ s.queue = req[q].queue \o e
      /\ Alike(s, req[q])
  BY <1>1, PublishFields
<1> HIDE DEF s
<1>3. req[q].told = "none" /\ req[q].kind # "stream" /\ ~req[q].lent
  BY <1>1 DEF ReqOK, ShapeOK, Executing, Cleaning, Relaying, Done
<1>4. ReqOK(s)
  BY <1>1, <1>2, <1>3 DEF ReqOK, ShapeOK, StreamOK, Settles, Has, Asks, Writer, Alike, Executing,
     Cleaning, Relaying, Done, Terminal
<1>5. MayBecome(q, s)
  BY <1>1, <1>2, <1>3 DEF MayBecome, Asks, Holds, Alike, Busy, Cleaning, Done
<1> QED
  BY <1>2, <1>4, <1>5, Plain, Unmoved DEF s

\* A check that stops an execution, or ends it with its outcome, or lets it go on.
LEMMA ChecksKeep ==
    ASSUME TaskInv, NEW q \in Req, CheckStops(q) \/ CheckPasses(q) PROVE TaskInv'
<1>1. /\ req[q] \in ReqState /\ ReqOK(req[q]) /\ req[q].pc \in Executing /\ UNCHANGED Others
  BY DEF TaskInv, TypeOK, CheckStops, CheckPasses, Executing
<1>2. ~HasTerminal(req[q].queue) /\ req[q].queue \in Seq(Events)
  BY <1>1 DEF ReqOK, ShapeOK, ReqState, Executing, Cleaning, Done
<1>3. CASE Become(q, Publish(q, <<"canceled">>, "canceled"))
  BY <1>1, <1>2, <1>3, PublishedQueue, PublishKeeps DEF Terminal
<1>4. CASE Become(q, Publish(q, <<"failed">>, "failed"))
  BY <1>1, <1>2, <1>4, PublishedQueue, PublishKeeps DEF Terminal
<1>5. CASE Become(q, Publish(q, <<"artifact", "completed">>, "completed"))
  BY <1>1, <1>2, <1>5, PublishedQueue, PublishKeeps DEF Terminal
<1>6. CASE Become(q, ToFinally(q, "released"))
  <2> DEFINE s == ToFinally(q, "released")
  <2>1. /\ s \in ReqState /\ s.pc = "finally" /\ s.term = "released" /\ s.queue = req[q].queue
        /\ Alike(s, req[q])
    BY <1>1, ToFinallyFields
  <2> HIDE DEF s
  <2>2. ReqOK(s)
    BY <1>1, <2>1 DEF ReqOK, ShapeOK, StreamOK, Settles, Has, Asks, Writer, Alike, Executing,
       Cleaning, Relaying, Done
  <2>3. MayBecome(q, s)
    BY <1>1, <2>1 DEF MayBecome, Asks, Holds, ReqOK, ShapeOK, Alike, Busy, Executing, Cleaning, Done
  <2> QED
    BY <1>1, <1>6, <2>1, <2>2, <2>3, Plain, Unmoved DEF s
<1>7. ASSUME NEW p \in Executing, Go(q, p) PROVE TaskInv'
  <2> DEFINE s == [req[q] EXCEPT !.pc = p]
  <2>1. s \in ReqState
    BY <1>1, ReqFields, Values
  <2>2. ReqOK(s)
    BY <1>1 DEF ReqOK, ShapeOK, StreamOK, Settles, Has, Asks, Writer, ReqState, Executing,
       Cleaning, Relaying, Done
  <2>3. MayBecome(q, s)
    BY <1>1 DEF MayBecome, Asks, Holds, ReqOK, ShapeOK, ReqState, Busy, Executing, Cleaning, Relaying, Done
  <2> QED
    BY <1>1, <1>7, <2>1, <2>2, <2>3, Plain, Unmoved DEF Go, Become
<1> QED
  BY <1>3, <1>4, <1>5, <1>6, <1>7 DEF CheckStops, CheckPasses, Executing

\* finally keeps the outcome that was published.
LEMMA FinallyKeeps == ASSUME TaskInv, NEW q \in Req, Finally(q) PROVE TaskInv'
<1>1. /\ req[q] \in ReqState /\ ReqOK(req[q]) /\ req[q].pc = "finally" /\ UNCHANGED Others
  BY DEF TaskInv, TypeOK, Finally
<1>2. PICK p \in {"ended", "drain"}, t \in {"released"} \cup Terminal :
          /\ Become(q, [req[q] EXCEPT !.pc = p, !.term = t])
          /\ t = req[q].term \/ t = "canceled"
  <2> DEFINE t == IF req[q].term = "released" /\ row.cancel THEN "canceled" ELSE req[q].term
  <2>1. [req[q] EXCEPT !.pc = "ended"] = [req[q] EXCEPT !.pc = "ended", !.term = req[q].term]
    BY <1>1 DEF ReqState
  <2>2. req[q].term \in {"released"} \cup Terminal /\ t \in {"released"} \cup Terminal
    BY <1>1 DEF ReqState, Terminal
  <2>3. Become(q, [req[q] EXCEPT !.pc = "ended"]) \/ Become(q, [req[q] EXCEPT !.pc = "drain", !.term = t])
    BY DEF Finally
  <2>4. t = req[q].term \/ t = "canceled"
    OBVIOUS
  <2> HIDE DEF t
  <2> QED
    BY <2>1, <2>2, <2>3, <2>4
<1> DEFINE s == [req[q] EXCEPT !.pc = p, !.term = t]
<1>3. s \in ReqState
  BY <1>1, ReqFields, Values DEF Cleaning
<1>4. ReqOK(s)
  BY <1>1, <1>2 DEF ReqOK, ShapeOK, StreamOK, Settles, Has, Asks, Writer, ReqState, Executing,
     Cleaning, Relaying, Done
<1>5. MayBecome(q, s)
  BY <1>1, <1>2 DEF MayBecome, Asks, Holds, ReqOK, ShapeOK, ReqState, Busy, Cleaning, Relaying, Done
<1> QED
  BY <1>1, <1>2, <1>3, <1>4, <1>5, Plain, Unmoved

-----------------------------------------------------------------------------
\* Steps that also change the flags of the row, the calls or the faults

\* The agent is called by an execution that is in its try block.
LEMMA InvokeKeeps == ASSUME TaskInv, NEW q \in Req, Invoke(q) PROVE TaskInv'
<1>1. req[q] \in ReqState /\ ReqOK(req[q])
  BY DEF TaskInv, TypeOK
<1> DEFINE s == [req[q] EXCEPT !.pc = "invoking"]
<1>2. s \in ReqState
  BY <1>1, ReqFields, Values DEF Executing
<1>3. ReqOK(s)
  BY <1>1 DEF Invoke, ReqOK, ShapeOK, StreamOK, Settles, Has, Asks, Writer, ReqState, Executing,
     Cleaning, Relaying, Done
<1>4. MayBecome(q, s)
  BY <1>1 DEF Invoke, MayBecome, Asks, Holds, ReqOK, ShapeOK, ReqState, Busy, Executing, Cleaning,
     Relaying, Done
<1>5. TypeOK'
  BY <1>2 DEF Invoke, TaskInv, TypeOK, Go
<1> QED
  BY <1>2, <1>3, <1>4, <1>5, Move DEF Invoke, Go, SameRow

\* An execution whose queue is not drained in time leaves its lease to expire.
LEMMA DrainTimeoutKeeps == ASSUME TaskInv, NEW q \in Req, DrainTimeout(q) PROVE TaskInv'
<1>1. req[q] \in ReqState /\ ReqOK(req[q])
  BY DEF TaskInv, TypeOK
<1> DEFINE s == [req[q] EXCEPT !.pc = "ended"]
<1>2. s \in ReqState
  BY <1>1, ReqFields, Values
<1>3. ReqOK(s)
  BY <1>1 DEF DrainTimeout, ReqOK, ShapeOK, StreamOK, Settles, Has, Asks, Writer, ReqState, Executing,
     Cleaning, Relaying, Done
<1>4. MayBecome(q, s)
  BY <1>1 DEF DrainTimeout, MayBecome, Asks, Holds, ReqOK, ShapeOK, ReqState, Busy, Executing, Cleaning,
     Relaying, Done
<1>5. TypeOK'
  BY <1>2, FaultsAssumption DEF DrainTimeout, TaskInv, TypeOK, Go
<1> QED
  BY <1>2, <1>3, <1>4, <1>5, Move DEF DrainTimeout, Go, SameRow

\* A heartbeat extends the lease of its owner, or stops, or fails.
LEMMA HeartbeatKeeps ==
    ASSUME TaskInv, NEW q \in Req, Heartbeat(q) \/ HeartbeatRaises(q) PROVE TaskInv'
<1>1. req[q] \in ReqState /\ ReqOK(req[q])
  BY DEF TaskInv, TypeOK
<1>2. PICK b \in {"off", "on", "raised"} : req' = [req EXCEPT ![q].beat = b]
  <2>1. [req[q] EXCEPT !.beat = req[q].beat] = req[q] /\ req[q].beat \in {"off", "on", "raised"}
    BY <1>1 DEF ReqState
  <2>2. req = [req EXCEPT ![q] = req[q]]
    BY DEF TaskInv, TypeOK
  <2>3. req' = req => req' = [req EXCEPT ![q].beat = req[q].beat]
    BY <2>1, <2>2
  <2> QED
    BY <2>1, <2>3 DEF Heartbeat, HeartbeatRaises
<1> DEFINE s == [req[q] EXCEPT !.beat = b]
<1>3. s \in ReqState
  BY <1>1, ReqFields
<1>4. ReqOK(s)
  BY <1>1 DEF ReqOK, ShapeOK, StreamOK, Settles, Has, Asks, Writer, ReqState
<1>5. MayBecome(q, s)
  BY <1>1 DEF MayBecome, Asks, Holds, ReqState
<1>6. SameRow
  BY DEF Heartbeat, HeartbeatRaises, SameRow, TaskInv, TypeOK
<1>7. TypeOK'
  <2>1. faults' \in 0 .. MaxFaults
    BY FaultsAssumption DEF Heartbeat, HeartbeatRaises, TaskInv, TypeOK
  <2>2. req' \in [Req -> ReqState]
    BY <1>2, <1>3 DEF TaskInv, TypeOK
  <2> QED
    BY <2>1, <2>2 DEF Heartbeat, HeartbeatRaises, TaskInv, TypeOK
<1> QED
  BY <1>2, <1>3, <1>4, <1>5, <1>6, <1>7, Move

\* The flag of a running row is set.
LEMMA RequestCancelKeeps == ASSUME TaskInv, NEW q \in Req, RequestCancel(q) PROVE TaskInv'
<1>1. req[q] \in ReqState /\ ReqOK(req[q])
  BY DEF TaskInv, TypeOK
<1> DEFINE s == [req[q] EXCEPT !.pc = "cancelGet"]
<1>2. s \in ReqState
  BY <1>1, ReqFields, Values DEF Canceling
<1>3. ReqOK(s)
  BY <1>1 DEF RequestCancel, ReqOK, ShapeOK, StreamOK, Settles, Has, Asks, Writer, ReqState, Executing,
     Cleaning, Relaying, Done
<1>4. MayBecome(q, s)
  BY <1>1 DEF RequestCancel, MayBecome, Asks, Holds, ReqOK, ShapeOK, ReqState, Busy, Executing, Cleaning,
     Relaying, Canceling, Done
<1>5. SameRow
  BY DEF RequestCancel, SameRow, TaskInv, TypeOK
<1>6. TypeOK'
  BY <1>2 DEF RequestCancel, TaskInv, TypeOK, Go
<1> QED
  BY <1>2, <1>3, <1>4, <1>5, <1>6, Move DEF RequestCancel, Go

\* The lease expires: nothing in the invariant depends on it.
LEMMA ExpireKeeps == ASSUME TaskInv, Expire PROVE TaskInv'
<1>1. /\ row'.owner = row.owner /\ row'.fence = row.fence /\ row'.state = row.state
      /\ UNCHANGED <<task, log, req, calls, written>>
  BY DEF Expire, TaskInv, TypeOK
<1>2. TypeOK'
  <2>1. faults' \in 0 .. MaxFaults
    BY FaultsAssumption DEF Expire, TaskInv, TypeOK
  <2> QED
    BY <2>1 DEF Expire, TaskInv, TypeOK
<1>3. (\A q \in Req : ReqOK(req[q]))'
  BY <1>1 DEF TaskInv, ReqOK, StreamOK, Has, ShapeOK, Settles, Ends, HasTerminal, Writer, Asks
<1>4. FencesOK' /\ HomesOK' /\ AloneOK' /\ RowOK' /\ LogOK'
  BY <1>1 DEF TaskInv, FencesOK, HomesOK, AloneOK, RowOK, LogOK, Solo, Holds, Asks
<1> QED
  BY <1>2, <1>3, <1>4 DEF TaskInv

\* CancelledError ends a request, or takes an execution out of its try block.
LEMMA InterruptedFields ==
    ASSUME TaskInv, NEW q \in Req, req[q].pc \in Busy, req[q].kind # "stream", ~Asks(req[q])
    PROVE  /\ Interrupted(q) \in ReqState /\ ReqOK(Interrupted(q)) /\ MayBecome(q, Interrupted(q))
           /\ Interrupted(q).pc \in Cleaning \cup Done
<1>1. req[q] \in ReqState /\ ReqOK(req[q])
  BY DEF TaskInv, TypeOK
<1>2. ASSUME NEW p \in {"cancelled", "ended"}, p = "cancelled" => req[q].pc \in Executing
      PROVE  LET s == [req[q] EXCEPT !.pc = p]
             IN  s \in ReqState /\ ReqOK(s) /\ MayBecome(q, s) /\ s.pc \in Cleaning \cup Done
  <2> DEFINE s == [req[q] EXCEPT !.pc = p]
  <2>1. s \in ReqState
    BY <1>1, ReqFields, Values DEF Cleaning
  <2>2. ReqOK(s)
    BY <1>1, <1>2 DEF ReqOK, ShapeOK, StreamOK, Settles, Has, Asks, Writer, ReqState, Executing,
       Cleaning, Relaying, Done
  <2>3. MayBecome(q, s)
    BY <1>1, <1>2 DEF MayBecome, Asks, Holds, ReqOK, ShapeOK, ReqState, Busy, Executing, Cleaning, Done
  <2>4. s.pc \in Cleaning \cup Done
    BY <1>1 DEF ReqState, Cleaning, Done
  <2> QED
    BY <2>1, <2>2, <2>3, <2>4
<1>3. CASE req[q].pc \in {"checkExc", "cancelled"}
  <2> DEFINE s == ToFinally(q, "released")
  <2>1. /\ s \in ReqState /\ s.pc = "finally" /\ s.term = "released" /\ s.queue = req[q].queue
        /\ Alike(s, req[q])
    BY <1>1, ToFinallyFields
  <2>2. Interrupted(q) = s
    BY <1>3 DEF Interrupted
  <2> HIDE DEF s
  <2>3. ReqOK(s)
    BY <1>1, <1>3, <2>1 DEF ReqOK, ShapeOK, StreamOK, Settles, Has, Asks, Writer, Alike, Executing,
       Cleaning, Relaying, Done
  <2>4. MayBecome(q, s)
    BY <1>1, <1>3, <2>1 DEF MayBecome, Asks, Holds, ReqOK, ShapeOK, Alike, Busy, Executing, Cleaning, Done
  <2> QED
    BY <2>1, <2>2, <2>3, <2>4 DEF Cleaning
<1>4. CASE req[q].pc \in Executing \ {"checkExc"}
  BY <1>2, <1>4 DEF Interrupted, Executing
<1>5. CASE req[q].pc \notin Executing \cup {"cancelled"}
  BY <1>2, <1>5 DEF Interrupted, Executing
<1> QED
  BY <1>3, <1>4, <1>5 DEF Executing

\* A shutdown interrupts one execution.
LEMMA ShutdownKeeps == ASSUME TaskInv, NEW q \in Req, Shutdown(q) PROVE TaskInv'
<1>1. req[q].pc \in Busy /\ req[q].kind # "stream" /\ ~Asks(req[q])
  BY DEF Shutdown, TaskInv, ReqOK, ShapeOK, Asks, Busy, Executing, Relaying, Done
<1>2. Interrupted(q) \in ReqState /\ ReqOK(Interrupted(q)) /\ MayBecome(q, Interrupted(q))
  BY <1>1, InterruptedFields
<1>3. TypeOK'
  BY <1>2, FaultsAssumption DEF Shutdown, Become, TaskInv, TypeOK
<1> QED
  BY <1>2, <1>3, Move DEF Shutdown, Become, SameRow

-----------------------------------------------------------------------------
\* Arrivals, the local cancellation and crashes

\* A send or a subscription begins where the SDK has nothing active.
LEMMA ReceiveKeeps ==
    ASSUME TaskInv, NEW q \in Req, ReceiveSend(q) \/ ReceiveStream(q) PROVE TaskInv'
<1>1. req[q] \in ReqState /\ ReqOK(req[q]) /\ req[q].pc = "new" /\ UNCHANGED Others
  BY DEF TaskInv, TypeOK, ReceiveSend, ReceiveStream
<1>2. PICK p \in {"acquire", "relayRow"} :
          Go(q, p) /\ (p = "relayRow" <=> req[q].kind = "stream")
  BY DEF ReceiveSend, ReceiveStream
<1> DEFINE s == [req[q] EXCEPT !.pc = p]
<1>3. s \in ReqState
  BY <1>1, ReqFields, Values DEF Relaying
<1>4. ReqOK(s)
  BY <1>1, <1>2 DEF ReqOK, ShapeOK, StreamOK, Settles, Has, Asks, Writer, ReqState, Executing,
     Cleaning, Relaying, Done
<1>5. \A r \in Req : ~(Holds(req[r]) /\ req[r].rep = req[q].rep)
  BY DEF ReceiveSend, ReceiveStream, Active, Holds
<1>6. MayBecome(q, s)
  BY <1>1, <1>2, <1>5 DEF MayBecome, Asks, ReqOK, ShapeOK, ReqState, Cleaning, Executing, Done
<1> QED
  BY <1>1, <1>2, <1>3, <1>4, <1>6, Plain, Unmoved DEF Go, Become

\* A cancellation interrupts what it finds active; if nothing is, it is alone.
LEMMA ReceiveCancelKeeps == ASSUME TaskInv, NEW q \in Req, ReceiveCancel(q) PROVE TaskInv'
<1> DEFINE home == Active(req[q].rep)
           s == [req[q] EXCEPT !.pc = "requesting", !.home = home]
<1>1. /\ req \in [Req -> ReqState] /\ \A p \in Req : ReqOK(req[p])
      /\ req[q].pc = "new" /\ req[q].kind = "cancel" /\ task = "submitted"
      /\ \A p \in home : req[p].kind = "send"
      /\ home \subseteq Req /\ q \notin home
  BY DEF TaskInv, TypeOK, ReceiveCancel, Active
<1>2. /\ req' \in [Req -> {req'[p] : p \in Req}] /\ req'[q] = s
      /\ \A p \in home : req[p].pc \in Busy => req'[p] = Interrupted(p)
      /\ \A p \in Req \ {q} : p \notin home \/ req[p].pc \notin Busy => req'[p] = req[p]
  BY <1>1 DEF ReceiveCancel
<1>3. \A p \in home : ~Asks(req[p]) /\ p \in Req
  BY <1>1 DEF ReqOK, ShapeOK, Asks
<1>4. \A p \in home : req[p].pc \in Busy =>
          Interrupted(p) \in ReqState /\ ReqOK(Interrupted(p)) /\ MayBecome(p, Interrupted(p))
              /\ Interrupted(p).pc \in Cleaning \cup Done
  BY <1>1, <1>3, InterruptedFields
<1>5. \A p \in home : req[p].pc \notin Busy => req[p].pc \in Cleaning \cup Done
  <2> TAKE p \in home
  <2>1. p \in Req /\ (req[p].pc \in Busy \/ req[p].queue # <<>>)
    BY <1>1 DEF Active
  <2> QED
    BY <1>1, <2>1 DEF ReqOK, ShapeOK, Busy
<1>6. s \in ReqState /\ s.home = home /\ s.kind = "cancel" /\ s.rep = req[q].rep
      /\ s.fence = req[q].fence /\ s.lent = req[q].lent /\ s.queue = req[q].queue
  <2>1. home \in SUBSET Req /\ req[q] \in ReqState
    BY <1>1
  <2>2. [req[q] EXCEPT !.pc = "requesting"] \in ReqState
    BY <2>1, ReqFields, Values DEF Canceling
  <2>3. s \in ReqState
    BY <2>1, <2>2, ReqFields
  <2> QED
    BY <1>1, <2>1, <2>3 DEF ReqState
<1>7. ReqOK(s)
  <2>1. /\ s.pc = "requesting" /\ s.told = req[q].told /\ s.got = req[q].got
        /\ s.seen = req[q].seen /\ s.term = req[q].term
    BY <1>1 DEF ReqState
  <2>2. ShapeOK(req[q]) /\ StreamOK(req[q]) /\ req[q].fence <= row.fence
    BY <1>1 DEF ReqOK
  <2>3. ShapeOK(s)
    BY <1>1, <1>6, <2>1, <2>2 DEF ShapeOK, Settles, Asks, Executing, Cleaning, Relaying, Done
  <2>4. StreamOK(s)
    BY <1>1, <1>6, <2>1, <2>2 DEF StreamOK
  <2>5. ~Writer(s) /\ s.told = "none" /\ task \notin Terminal
    BY <1>1, <1>6, <2>1, <2>2 DEF ShapeOK, Writer, Executing, Cleaning, Done, Terminal
  <2> QED
    BY <1>6, <2>1, <2>2, <2>3, <2>4, <2>5 DEF ReqOK
<1>8. home = {} => \A r \in Req : ~(Holds(req[r]) /\ req[r].rep = s.rep)
  BY <1>6 DEF Active, Holds
<1>9. ~Holds(req[q]) /\ ~Solo(req[q])
  BY <1>1 DEF Holds, Solo, Asks, ReqOK, ShapeOK, Busy, Executing, Cleaning, Finalizing, Waiting,
     Canceling, Relaying, Done
<1> HIDE DEF s, home
<1>10. \A p \in Req \ {q} : /\ req'[p] \in ReqState /\ ReqOK(req'[p]) /\ MayBecome(p, req'[p])
                            /\ Asks(req'[p]) => Asks(req[p]) /\ req'[p].home = req[p].home
  <2> TAKE p \in Req \ {q}
  <2>1. CASE p \in home /\ req[p].pc \in Busy
    BY <1>2, <1>4, <2>1 DEF MayBecome
  <2>2. CASE p \notin home \/ req[p].pc \notin Busy
    BY <1>1, <1>2, <2>2 DEF MayBecome
  <2> QED
    BY <2>1, <2>2
<1>11. \A p \in home : req'[p].pc \in Cleaning \cup Done
  BY <1>1, <1>2, <1>4, <1>5
<1>12. HomesOK'
  <2> SUFFICES ASSUME NEW c \in Req, Asks(req'[c]), NEW p \in req'[c].home
               PROVE  req'[p].pc \in Cleaning \cup Done
    BY DEF HomesOK, Asks
  <2>1. CASE c = q
    BY <1>2, <1>6, <1>11, <2>1
  <2>2. CASE c # q
    <3>1. p \in req[c].home /\ Asks(req[c]) /\ p \in Req
      BY <1>1, <1>10, <2>2 DEF ReqState
    <3>2. req[p].pc \in Cleaning \cup Done
      BY <3>1 DEF TaskInv, HomesOK
    <3>3. p # q
      BY <1>1, <3>2 DEF Cleaning, Done
    <3> QED
      BY <1>10, <3>1, <3>2, <3>3 DEF MayBecome
  <2> QED
    BY <2>1, <2>2
<1>13. \A p \in Req : ReqOK(req'[p]) /\ MayChange(p, req'[p])
  <2>1. MayChange(q, s)
    <3>1. Solo(s) => home = {}
      BY <1>1, <1>6 DEF Solo, ReqOK, ShapeOK, Done
    <3>2. \A r \in Req : ~(Solo(req[r]) /\ req[r].rep = s.rep)
      <4> SUFFICES ASSUME NEW r \in Req, Solo(req[r]), req[r].rep = s.rep PROVE FALSE
        OBVIOUS
      <4>1. Holds(req[r]) /\ req[r].kind = "cancel"
        BY <1>1, SoloHolds DEF ReqOK, ShapeOK, Solo
      <4>2. r \in home
        BY <1>6, <4>1 DEF home, Active, Holds
      <4> QED
        BY <1>1, <4>1, <4>2
    <3> QED
      BY <1>1, <1>6, <1>8, <1>9, <3>1, <3>2 DEF MayChange
  <2>2. \A p \in Req \ {q} : MayChange(p, req'[p])
    <3>1. \A r \in Req : Solo(req[r]) => Holds(req[r])
      BY <1>1, SoloHolds DEF ReqOK
    <3>2. \A p \in Req \ {q} : Solo(req'[p]) => Solo(req[p])
      BY <1>10 DEF MayBecome, Solo
    <3> QED
      BY <1>10, <3>1, <3>2 DEF MayBecome, MayChange
  <2> QED
    BY <1>2, <1>7, <1>10, <2>1, <2>2
<1>14. \A p \in Req \ {q} : Holds(req'[p]) => Holds(req[p])
  <2> TAKE p \in Req \ {q}
  <2>1. CASE p \in home /\ req[p].pc \in Busy
    BY <1>1, <1>2, <1>10, <2>1 DEF Holds, MayBecome
  <2>2. CASE p \notin home \/ req[p].pc \notin Busy
    BY <1>2, <2>2
  <2> QED
    BY <2>1, <2>2
<1>15. \A p, c \in Req : NewlyHolds(p) /\ NewlyHolds(c) => p = c
  BY <1>14 DEF NewlyHolds
<1>16. TypeOK'
  <2>1. req' \in [Req -> ReqState]
    BY <1>2, <1>6, <1>10
  <2> QED
    BY <2>1 DEF TaskInv, TypeOK, ReceiveCancel, Others
<1>17. RowMoves /\ UNCHANGED <<task, log, written>>
  BY DEF ReceiveCancel, Others, RowMoves
<1> QED
  BY <1>12, <1>13, <1>15, <1>16, <1>17, Moves

\* A cancellation on the owning replica publishes through the execution it found, or
\* borrows the fence of the row when it is alone.
LEMMA CancelGetKeeps == ASSUME TaskInv, NEW q \in Req, CancelGet(q) PROVE TaskInv'
<1> DEFINE open == {p \in req[q].home : req[p].pc \in Busy /\ ~req[p].broken /\ req[p].told = "none"}
           gone == [req[q] EXCEPT !.pc = "ended"]
           lent == [req[q] EXCEPT !.pc = "ended", !.fence = row.fence, !.lent = TRUE,
                                  !.queue = <<"canceled">>]
<1>1. /\ req \in [Req -> ReqState] /\ \A p \in Req : ReqOK(req[p])
      /\ req[q].pc = "cancelGet" /\ Asks(req[q]) /\ UNCHANGED Others /\ row.fence \in Nat
      /\ req[q].home \subseteq Req
  BY DEF TaskInv, TypeOK, CancelGet, Asks, ReqState
<1>2. req[q].kind = "cancel" /\ req[q].fence = 0 /\ req[q].told = "none" /\ ~req[q].lent
      /\ req[q].queue = <<>>
  BY <1>1 DEF ReqOK, ShapeOK, Asks, Executing, Cleaning, Done, ReqState
<1>3. CASE row.owner # req[q].rep
  <2> DEFINE s == [req[q] EXCEPT !.pc = "remoteTask"]
  <2>1. s \in ReqState
    BY <1>1, ReqFields, Values DEF Canceling
  <2>2. ReqOK(s)
    BY <1>1, <1>2 DEF ReqOK, ShapeOK, StreamOK, Settles, Has, Asks, Writer, ReqState, Executing,
       Cleaning, Relaying, Done
  <2>3. MayBecome(q, s)
    BY <1>1, <1>2 DEF MayBecome, Asks, Holds, ReqState, Busy, Canceling, Cleaning, Done
  <2> QED
    BY <1>1, <1>3, <2>1, <2>2, <2>3, Plain, Unmoved DEF CancelGet, Go, Become
<1>4. CASE row.owner = req[q].rep
  <2>1. gone \in ReqState /\ ReqOK(gone) /\ MayBecome(q, gone)
    <3>1. gone \in ReqState
      BY <1>1, ReqFields, Values
    <3>2. ReqOK(gone)
      BY <1>1, <1>2 DEF ReqOK, ShapeOK, StreamOK, Settles, Has, Asks, Writer, ReqState, Executing,
         Cleaning, Relaying, Done
    <3>3. MayBecome(q, gone)
      BY <1>1, <1>2 DEF MayBecome, Asks, Holds, ReqState, Busy, Canceling, Cleaning, Done
    <3> QED
      BY <3>1, <3>2, <3>3
  <2>2. ASSUME req[q].home = {} PROVE lent \in ReqState /\ ReqOK(lent) /\ MayChange(q, lent)
    <3>1. <<"canceled">> \in Seq(Events) /\ <<"canceled">> # <<>>
      BY DEF Events, Terminal
    <3>2. lent \in ReqState
      <4>1. [gone EXCEPT !.fence = row.fence] \in ReqState
        BY <1>1, <2>1, ReqFields
      <4>2. [[gone EXCEPT !.fence = row.fence] EXCEPT !.lent = TRUE] \in ReqState
        BY <4>1, ReqFields
      <4> QED
        BY <3>1, <4>2, ReqFields
    <3>3. ReqOK(lent)
      BY <1>1, <1>2, <1>4, <2>2, <3>1 DEF ReqOK, ShapeOK, StreamOK, Settles, Has, Asks, Writer, ReqState,
         Executing, Cleaning, Relaying, Done
    <3>4. MayChange(q, lent)
      BY <1>1, <1>2, <2>2, <3>2 DEF MayChange, Asks, Solo, Holds, ReqState, Busy, Canceling, Done
    <3> QED
      BY <3>2, <3>3, <3>4
  <2>3. \A p \in open : LET s == [req[p] EXCEPT !.queue = Append(@, "canceled")]
                        IN  s \in ReqState /\ ReqOK(s) /\ MayBecome(p, s)
    <3> TAKE p \in open
    <3> DEFINE s == [req[p] EXCEPT !.queue = Append(req[p].queue, "canceled")]
    <3>1. /\ p \in Req /\ req[p].pc \in Cleaning /\ req[p].told = "none"
          /\ req[p] \in ReqState /\ ReqOK(req[p])
      BY <1>1 DEF TaskInv, HomesOK, Busy, Cleaning, Done, Executing, Finalizing, Waiting, Canceling,
         Relaying
    <3>2. /\ Append(req[p].queue, "canceled") \in Seq(Events)
          /\ Append(req[p].queue, "canceled") # <<>>
          /\ \A t \in Events : Ends(req[p].queue, t) => Ends(Append(req[p].queue, "canceled"), t)
      BY <3>1, AppendedQueue DEF ReqState, Events, Terminal
    <3>3. s \in ReqState
      BY <3>1, <3>2, ReqFields
    <3>4. ReqOK(s)
      BY <3>1, <3>2 DEF ReqOK, ShapeOK, StreamOK, Settles, Has, Asks, Writer, ReqState,
         Executing, Cleaning, Relaying, Done, Events, Terminal
    <3>5. MayBecome(p, s)
      BY <3>1 DEF MayBecome, Asks, Holds, ReqOK, ShapeOK, ReqState, Busy, Cleaning, Relaying, Done
    <3> QED
      BY <3>3, <3>4, <3>5
  <2> HIDE DEF open, lent, gone
  <2>4. \A p \in Req \ {q} : /\ req'[p] \in ReqState /\ ReqOK(req'[p]) /\ MayBecome(p, req'[p])
                             /\ p \notin open => req'[p] = req[p]
    <3> TAKE p \in Req \ {q}
    <3>1. CASE req[q].home = {}
      <4>1. req'[p] = req[p]
        BY <1>1, <1>4, <3>1 DEF CancelGet, Become
      <4> QED
        BY <1>1, <4>1 DEF MayBecome
    <3>2. CASE req[q].home # {}
      <4>1. req'[p] = IF p \in open THEN [req[p] EXCEPT !.queue = Append(@, "canceled")] ELSE req[p]
        BY <1>4, <3>2 DEF CancelGet, open
      <4>2. CASE p \in open
        BY <2>3, <4>1, <4>2
      <4>3. CASE p \notin open
        BY <1>1, <4>1, <4>3 DEF MayBecome
      <4> QED
        BY <4>2, <4>3
    <3> QED
      BY <3>1, <3>2
  <2>5. req'[q] \in ReqState /\ ReqOK(req'[q]) /\ MayChange(q, req'[q]) /\ req'[q].pc = "ended"
    <3>1. CASE req[q].home = {}
      <4>1. req'[q] = lent
        BY <1>1, <1>4, <3>1 DEF CancelGet, Become, lent
      <4>2. lent.pc = "ended"
        BY <1>1 DEF lent, ReqState
      <4> QED
        BY <2>2, <3>1, <4>1, <4>2
    <3>2. CASE req[q].home # {}
      <4>1. req'[q] = gone
        BY <1>4, <3>2 DEF CancelGet, gone
      <4>2. gone.pc = "ended" /\ gone.queue = <<>> /\ ~Solo(gone) /\ ~Holds(gone)
        BY <1>1, <1>2 DEF gone, ReqState, Solo, Asks, Holds, Busy, Executing, Cleaning, Finalizing,
           Waiting, Canceling, Relaying
      <4> QED
        BY <2>1, <4>1, <4>2 DEF MayBecome, MayChange
    <3> QED
      BY <3>1, <3>2
  <2>6. req' \in [Req -> ReqState]
    <3>1. \E f : req' = [p \in Req |-> f[p]]
      <4>1. CASE req[q].home = {}
        <5>1. req' = [p \in Req |-> req'[p]]
          BY <1>1, <1>4, <4>1 DEF CancelGet, Become
        <5> QED
          BY <5>1
      <4>2. CASE req[q].home # {}
        <5>1. req' = [p \in Req |-> req'[p]]
          BY <1>4, <4>2 DEF CancelGet
        <5> QED
          BY <5>1
      <4> QED
        BY <4>1, <4>2
    <3> QED
      BY <2>4, <2>5, <3>1
  <2>7. \A p \in Req : MayChange(p, req'[p])
    <3>1. \A r \in Req : Solo(req[r]) => Holds(req[r])
      BY <1>1, SoloHolds DEF ReqOK
    <3>2. \A p \in Req \ {q} : Solo(req'[p]) => Solo(req[p])
      BY <2>4 DEF MayBecome, Solo
    <3> QED
      BY <2>4, <2>5, <3>1, <3>2 DEF MayBecome, MayChange
  <2>8. HomesOK'
    <3> SUFFICES ASSUME NEW c \in Req, Asks(req'[c]), NEW p \in req'[c].home
                 PROVE  req'[p].pc \in Cleaning \cup Done
      BY DEF HomesOK, Asks
    <3>1. c # q
      BY <2>5 DEF Asks
    <3>2. Asks(req[c]) /\ p \in req[c].home /\ p \in Req
      BY <1>1, <2>4, <3>1 DEF MayBecome, ReqState
    <3>3. req[p].pc \in Cleaning \cup Done
      BY <3>2 DEF TaskInv, HomesOK
    <3> QED
      BY <2>4, <2>5, <3>2, <3>3 DEF MayBecome, Done
  <2>9. \A p, c \in Req : NewlyHolds(p) /\ NewlyHolds(c) => p = c
    <3>1. \A p \in Req \ {q} : ~NewlyHolds(p)
      <4> TAKE p \in Req \ {q}
      <4>1. CASE p \in open
        <5>1. req[p].pc \in Busy /\ req'[p].kind = req[p].kind
          BY <2>4, <4>1 DEF open, MayBecome
        <5> QED
          BY <5>1 DEF NewlyHolds, Holds
      <4>2. CASE p \notin open
        BY <2>4, <4>2 DEF NewlyHolds
      <4> QED
        BY <4>1, <4>2
    <3> QED
      BY <3>1
  <2>10. TypeOK' /\ RowMoves /\ UNCHANGED <<task, log, written>>
    BY <1>1, <2>6 DEF TaskInv, TypeOK, Others, RowMoves
  <2>11. \A p \in Req : ReqOK(req'[p]) /\ MayChange(p, req'[p])
    BY <2>4, <2>5, <2>7
  <2> QED
    BY <2>8, <2>9, <2>10, <2>11, Moves
<1> QED
  BY <1>3, <1>4

\* A crash leaves nobody active on its replica, and the row without an owner.
LEMMA CrashKeeps == ASSUME TaskInv, NEW r \in Replica, Crash(r) PROVE TaskInv'
<1>1. req \in [Req -> ReqState] /\ \A p \in Req : ReqOK(req[p])
  BY DEF TaskInv, TypeOK
<1>2. \A p \in Req : \/ req'[p] = req[p]
                     \/ req'[p] = [req[p] EXCEPT !.pc = IF @ \in Done THEN @ ELSE "crashed",
                                                 !.beat = "off", !.queue = <<>>]
  BY DEF Crash
<1>3. \A p \in Req : /\ req'[p] \in ReqState /\ ReqOK(req'[p]) /\ MayBecome(p, req'[p])
                     /\ Holds(req'[p]) => Holds(req[p])
  <2> TAKE p \in Req
  <2>1. CASE req'[p] = req[p]
    BY <1>1, <2>1 DEF MayBecome
  <2>2. ASSUME NEW pc \in Done, req[p].pc \in Done => pc = req[p].pc,
               req'[p] = [req[p] EXCEPT !.pc = pc, !.beat = "off", !.queue = <<>>],
               req[p].pc \notin Done => pc = "crashed"
        PROVE  req'[p] \in ReqState /\ ReqOK(req'[p]) /\ MayBecome(p, req'[p]) /\ ~Holds(req'[p])
    <3> DEFINE s == [req[p] EXCEPT !.pc = pc, !.beat = "off", !.queue = <<>>]
    <3>0. <<>> \in Seq(Events) /\ ~HasTerminal(<<>>) /\ \A e : ~Ends(<<>>, e)
      BY DEF HasTerminal, Ends
    <3>1. s \in ReqState
      <4>1. [req[p] EXCEPT !.pc = pc] \in ReqState
        BY <1>1, ReqFields
      <4>2. [[req[p] EXCEPT !.pc = pc] EXCEPT !.beat = "off"] \in ReqState
        BY <4>1, ReqFields
      <4> QED
        BY <3>0, <4>2, ReqFields
    <3>2. ReqOK(s)
      BY <1>1, <2>2, <3>0 DEF ReqOK, ShapeOK, StreamOK, Settles, Has, Asks, Writer, ReqState,
         Executing, Cleaning, Relaying, Done
    <3>3. ~Holds(s) /\ ~Asks(s)
      BY <1>1 DEF Holds, Asks, ReqState, Busy, Executing, Cleaning, Finalizing, Waiting, Canceling,
         Relaying, Done
    <3>4. MayBecome(p, s)
      BY <1>1, <3>3 DEF MayBecome, ReqState
    <3> QED
      BY <2>2, <3>1, <3>2, <3>3, <3>4
  <2>3. CASE req'[p] = [req[p] EXCEPT !.pc = IF @ \in Done THEN @ ELSE "crashed",
                                      !.beat = "off", !.queue = <<>>]
    <3> DEFINE pc == IF req[p].pc \in Done THEN req[p].pc ELSE "crashed"
    <3>1. pc \in Done /\ (req[p].pc \in Done => pc = req[p].pc) /\ (req[p].pc \notin Done => pc = "crashed")
      BY DEF Done
    <3>2. req'[p] = [req[p] EXCEPT !.pc = pc, !.beat = "off", !.queue = <<>>]
      BY <2>3
    <3> HIDE DEF pc
    <3> QED
      BY <2>2, <3>1, <3>2
  <2> QED
    BY <1>2, <2>1, <2>3
<1>4. TypeOK'
  <2>1. req' \in [Req -> ReqState]
    BY <1>3 DEF Crash
  <2>2. faults' \in 0 .. MaxFaults
    <3>1. faults' = faults + 1 /\ faults < MaxFaults /\ faults \in 0 .. MaxFaults
      BY DEF Crash, TaskInv, TypeOK
    <3> QED
      BY <3>1, FaultsAssumption
  <2> QED
    BY <2>1, <2>2 DEF Crash, TaskInv, TypeOK
<1>5. RowMoves /\ UNCHANGED <<task, log, written>>
  BY DEF Crash, RowMoves, TaskInv, TypeOK
<1>6. \A p \in Req : ReqOK(req'[p]) /\ MayChange(p, req'[p])
  <2>1. \A p \in Req : Solo(req[p]) => Holds(req[p])
    BY <1>1, SoloHolds DEF ReqOK
  <2>2. \A p \in Req : Solo(req'[p]) => Solo(req[p])
    BY <1>3 DEF MayBecome, Solo
  <2> QED
    BY <1>3, <2>1, <2>2 DEF MayBecome, MayChange
<1>7. HomesOK'
  <2> SUFFICES ASSUME NEW c \in Req, Asks(req'[c]), NEW p \in req'[c].home
               PROVE  req'[p].pc \in Cleaning \cup Done
    BY DEF HomesOK, Asks
  <2>1. Asks(req[c]) /\ p \in req[c].home /\ p \in Req
    BY <1>1, <1>3 DEF MayBecome, ReqState
  <2> QED
    BY <1>3, <2>1 DEF TaskInv, HomesOK, MayBecome
<1>8. \A p, c \in Req : NewlyHolds(p) /\ NewlyHolds(c) => p = c
  BY <1>3 DEF NewlyHolds
<1> QED
  BY <1>4, <1>5, <1>6, <1>7, <1>8, Moves

-----------------------------------------------------------------------------
\* The relay

\* A stream reads the next event, or ends on an empty page.
LEMMA RelayReadPageKeeps == ASSUME TaskInv, NEW q \in Req, RelayReadPage(q) PROVE TaskInv'
<1>1. /\ req[q] \in ReqState /\ ReqOK(req[q]) /\ req[q].pc = "relayRead" /\ UNCHANGED Others
      /\ log \in Seq([fence : Nat, event : Events])
  BY DEF TaskInv, TypeOK, RelayReadPage
<1>2. req[q].kind = "stream" /\ req[q].got \in Nat /\ req[q].got <= Len(log) /\ Len(log) \in Nat
  <2>1. req[q].kind = "stream"
    BY <1>1 DEF ReqOK, ShapeOK, Relaying
  <2> QED
    BY <1>1, <2>1 DEF ReqState, ReqOK, StreamOK
<1>3. After(q) # <<>> => req[q].got + 1 <= Len(log) /\ Head(After(q)) = log[req[q].got + 1]
  <2> DEFINE n == req[q].got + 1
  <2>1. n \in Nat /\ n > 0 /\ Len(log) \in Nat /\ After(q) = SubSeq(log, n, Len(log))
    BY <1>2 DEF After
  <2> HIDE DEF n
  <2>2. CASE n > Len(log)
    BY <2>1, <2>2
  <2>3. CASE n <= Len(log)
    <3>1. Len(SubSeq(log, n, Len(log))) > 0 /\ SubSeq(log, n, Len(log))[1] = log[n]
      BY <1>1, <2>1, <2>3
    <3>2. Head(After(q)) = log[n]
      BY <2>1, <3>1
    <3> QED
      BY <2>3, <3>2 DEF n
  <2> QED
    BY <2>1, <2>2, <2>3
<1>4. After(q) = <<>> => req[q].got = Len(log)
  <2>1. req[q].got + 1 <= Len(log) => Len(After(q)) = Len(log) - req[q].got
    <3> DEFINE n == req[q].got + 1
    <3>1. After(q) = SubSeq(log, n, Len(log)) /\ n \in Nat /\ n > 0 /\ req[q].got = n - 1
      BY <1>2 DEF After
    <3> HIDE DEF n
    <3>2. n <= Len(log) => Len(SubSeq(log, n, Len(log))) = Len(log) - (n - 1)
      BY <1>1, <1>2, <3>1
    <3> QED
      BY <3>1, <3>2 DEF n
  <2> QED
    BY <1>2, <2>1
<1>5. ASSUME NEW p \in {"relayRow", "answered", "ended"}, NEW n \in Nat,
             NEW t \in {"none"} \cup Terminal, NEW x \in {"none", "running", "released", "absent"} \cup Terminal,
             Become(q, [req[q] EXCEPT !.pc = p, !.got = n, !.told = t, !.seen = x]),
             n <= Len(log), n > 0 /\ log[n].event \in Terminal => p = "answered",
             t # "none" => t = task /\ p = "answered",
             x \in Terminal => x = req[q].seen, p = "ended" => x # "completed"
      PROVE  TaskInv'
  <2> DEFINE s == [req[q] EXCEPT !.pc = p, !.got = n, !.told = t, !.seen = x]
  <2>1. s \in ReqState
    <3>1. [req[q] EXCEPT !.pc = p] \in ReqState
      BY <1>1, ReqFields, Values DEF Relaying
    <3>2. [[req[q] EXCEPT !.pc = p] EXCEPT !.got = n] \in ReqState
      BY <3>1, ReqFields
    <3>3. [[[req[q] EXCEPT !.pc = p] EXCEPT !.got = n] EXCEPT !.told = t] \in ReqState
      BY <3>2, ReqFields
    <3> QED
      BY <3>3, ReqFields
  <2>2. ReqOK(s)
    BY <1>1, <1>2, <1>5 DEF ReqOK, ShapeOK, StreamOK, Settles, Has, Asks, Writer, ReqState, Executing,
       Cleaning, Relaying, Done
  <2>3. MayBecome(q, s)
    BY <1>1, <1>2 DEF MayBecome, Asks, Holds, ReqOK, ShapeOK, ReqState, Busy, Cleaning, Done
  <2> QED
    BY <1>1, <1>5, <2>1, <2>2, <2>3, Plain, Unmoved
<1>6. req[q].told = "none" /\ req[q].seen \in {"none", "running", "released", "absent"} \cup Terminal
  BY <1>1 DEF ReqOK, ShapeOK, ReqState, Cleaning, Done
<1>7. ASSUME After(q) # <<>> PROVE TaskInv'
  <2> DEFINE n == req[q].got + 1
             event == log[n].event
  <2>1. n \in Nat /\ n <= Len(log) /\ Head(After(q)).event = event
    BY <1>2, <1>3, <1>7
  <2>2. CASE event \in Terminal
    <3>1. event = task
      BY <2>1, <2>2, <1>2 DEF TaskInv, LogOK
    <3>2. Become(q, [req[q] EXCEPT !.got = n, !.told = event, !.pc = "answered"])
      BY <1>7, <2>1, <2>2 DEF RelayReadPage
    <3>3. [req[q] EXCEPT !.got = n, !.told = event, !.pc = "answered"]
              = [req[q] EXCEPT !.pc = "answered", !.got = n, !.told = event, !.seen = req[q].seen]
      BY <1>1 DEF ReqState
    <3> HIDE DEF event, n
    <3> QED
      BY <1>5, <1>6, <2>1, <2>2, <3>1, <3>2, <3>3
  <2>3. CASE event \notin Terminal
    <3>1. Become(q, [req[q] EXCEPT !.got = n, !.seen = "none", !.pc = "relayRow"])
      BY <1>7, <2>1, <2>3 DEF RelayReadPage
    <3>2. [req[q] EXCEPT !.got = n, !.seen = "none", !.pc = "relayRow"]
              = [req[q] EXCEPT !.pc = "relayRow", !.got = n, !.told = "none", !.seen = "none"]
      BY <1>1, <1>6 DEF ReqState
    <3>3. n > 0 /\ log[n].event \in Terminal => "relayRow" = "answered"
      BY <2>3
    <3> HIDE DEF event, n
    <3> QED
      BY <1>5, <2>1, <3>1, <3>2, <3>3, Values
  <2> QED
    BY <2>2, <2>3
<1>8. ASSUME After(q) = <<>> PROVE TaskInv'
  <2>1. req[q].got > 0 => log[req[q].got].event \notin Terminal
    BY <1>1, <1>2 DEF ReqOK, StreamOK
  <2>2. CASE req[q].seen = "running"
    <3>1. Become(q, [req[q] EXCEPT !.pc = "relayRow", !.seen = "none"])
      BY <1>8, <2>2 DEF RelayReadPage
    <3>2. [req[q] EXCEPT !.pc = "relayRow", !.seen = "none"]
              = [req[q] EXCEPT !.pc = "relayRow", !.got = req[q].got, !.told = "none", !.seen = "none"]
      BY <1>1, <1>6 DEF ReqState
    <3>3. req[q].got > 0 /\ log[req[q].got].event \in Terminal => "relayRow" = "answered"
      BY <2>1
    <3>4. "none" \in Terminal => "none" = req[q].seen
      BY Values
    <3> QED
      BY <1>2, <1>5, <3>1, <3>2, <3>3, <3>4
  <2>3. CASE req[q].seen # "running"
    \* the row of a completed task, read before this page, has the event in the log
    <3>1. req[q].seen # "completed"
      <4>1. SUFFICES ASSUME req[q].seen = "completed" PROVE FALSE
        OBVIOUS
      <4>2. row.state = "completed"
        BY <1>1, <4>1 DEF ReqOK, StreamOK, Terminal
      <4>3. Len(log) > 0 /\ log[Len(log)].event = "completed"
        BY <4>2 DEF TaskInv, RowOK, LogOK
      <4> QED
        BY <1>4, <1>8, <2>1, <4>3 DEF Terminal
    <3>2. Become(q, [req[q] EXCEPT !.pc = "ended"])
      BY <1>8, <2>3 DEF RelayReadPage
    <3>3. [req[q] EXCEPT !.pc = "ended"]
              = [req[q] EXCEPT !.pc = "ended", !.got = req[q].got, !.told = "none", !.seen = req[q].seen]
      BY <1>1, <1>6 DEF ReqState
    <3>4. Become(q, [req[q] EXCEPT !.pc = "ended", !.got = req[q].got, !.told = "none",
                                   !.seen = req[q].seen])
      BY <3>2, <3>3
    <3>5. ~(req[q].got > 0 /\ log[req[q].got].event \in Terminal)
      BY <2>1
    <3> QED
      BY <1>2, <1>5, <1>6, <3>1, <3>4, <3>5
  <2> QED
    BY <2>2, <2>3
<1> QED
  BY <1>7, <1>8

-----------------------------------------------------------------------------
\* Acquiring and releasing the row

\* An acquired row has a fence that nobody had.
LEMMA AcquireGrantedKeeps == ASSUME TaskInv, NEW q \in Req, AcquireGranted(q) PROVE TaskInv'
<1> DEFINE to == IF req[q].pc = "remoteAcquire" THEN "finalTask"
                 ELSE IF row.state = "absent" THEN "owner" ELSE "reclaimed"
           s == [req[q] EXCEPT !.fence = row.fence + 1, !.cancel = row.cancel, !.pc = to]
<1>1. /\ req \in [Req -> ReqState] /\ \A p \in Req : ReqOK(req[p])
      /\ req[q].pc \in {"acquire", "waitAcquire", "remoteAcquire"}
      /\ row.state \notin Terminal /\ row.fence \in Nat /\ row.cancel \in BOOLEAN
      /\ UNCHANGED <<task, log, calls, written, faults>>
  BY DEF TaskInv, TypeOK, AcquireGranted, Acquirable, Terminal
<1>2. /\ req[q].kind # "stream" /\ ~req[q].lent /\ req[q].queue = <<>> /\ req[q].told = "none"
  BY <1>1 DEF ReqOK, ShapeOK, Executing, Cleaning, Relaying, Done, ReqState
<1>3. /\ row'.owner = req[q].rep /\ row'.fence = row.fence + 1 /\ row'.state = "running"
      /\ row' \in [owner : Replica \cup {Nobody}, fence : Nat, live : BOOLEAN, cancel : BOOLEAN,
                   state : {"absent", "running", "released"} \cup Terminal]
  <2>1. row' = [row EXCEPT !.owner = req[q].rep, !.fence = row.fence + 1, !.live = TRUE, !.state = "running"]
    BY DEF AcquireGranted, Taken
  <2>2. req[q].rep \in Replica
    BY <1>1 DEF ReqState
  <2>3. row \in [owner : Replica \cup {Nobody}, fence : Nat, live : BOOLEAN, cancel : BOOLEAN,
                  state : {"absent", "running", "released"} \cup Terminal]
    BY DEF TaskInv, TypeOK
  <2>4. row.fence + 1 \in Nat
    BY <1>1
  <2> QED
    BY <2>1, <2>2, <2>3, <2>4
<1>4. to \in {"finalTask", "owner", "reclaimed"} /\ (to = "owner" => row.state = "absent")
  OBVIOUS
<1>5. req' = [req EXCEPT ![q] = s]
  BY DEF AcquireGranted, Become
<1> HIDE DEF to
<1>6. /\ s \in ReqState /\ s.pc = to /\ s.fence = row.fence + 1 /\ s.kind = req[q].kind
      /\ s.rep = req[q].rep /\ s.lent = req[q].lent /\ s.queue = <<>> /\ s.told = "none"
      /\ s.home = req[q].home /\ s.got = req[q].got /\ s.seen = req[q].seen
  <2>1. [req[q] EXCEPT !.fence = row.fence + 1] \in ReqState
    <3>1. row.fence + 1 \in Nat /\ req[q] \in ReqState
      BY <1>1
    <3> QED
      BY <3>1, ReqFields
  <2>2. [[req[q] EXCEPT !.fence = row.fence + 1] EXCEPT !.cancel = row.cancel] \in ReqState
    BY <1>1, <2>1, ReqFields
  <2>3. s \in ReqState
    BY <1>4, <2>2, ReqFields, Values DEF Finalizing
  <2> QED
    BY <1>1, <1>2, <2>3 DEF ReqState
<1> HIDE DEF s
<1>7. req'[q] = s /\ (\A p \in Req \ {q} : req'[p] = req[p]) /\ req' \in [Req -> ReqState]
  BY <1>1, <1>5, <1>6
<1>8. TypeOK'
  BY <1>1, <1>3, <1>7 DEF TaskInv, TypeOK
<1>9. Holds(req[q]) /\ Holds(s) /\ ~Asks(s) /\ ~Solo(s)
  BY <1>1, <1>2, <1>4, <1>6 DEF Holds, Asks, Solo, Busy, Finalizing, Waiting, Canceling
<1>10. (\A p \in Req : ReqOK(req[p]))'
  <2>1. ShapeOK(s)
    BY <1>2, <1>4, <1>6, <1>9 DEF ShapeOK, Settles, HasTerminal, Relaying
  <2>2. ReqOK(req[q])'
    <3>1. s.pc = "owner" => task = "none"
      BY <1>4, <1>6 DEF TaskInv, RowOK
    <3>2. StreamOK(req[q])'
      BY <1>1, <1>2, <1>3, <1>6, <1>7 DEF ReqOK, StreamOK
    <3> QED
      BY <1>1, <1>3, <1>4, <1>6, <1>7, <1>9, <2>1, <3>1, <3>2 DEF ReqOK, StreamOK, Has, Writer, Asks,
         ShapeOK, Settles, Ends, HasTerminal, Executing, Cleaning, Terminal
  <2>3. ASSUME NEW p \in Req \ {q} PROVE ReqOK(req[p])'
    <3>1. ReqOK(req[p]) /\ req'[p] = req[p] /\ req[p] \in ReqState
      BY <1>1, <1>7
    <3>2. req[p].fence < row'.fence
      BY <1>1, <1>3, <3>1 DEF ReqOK, ReqState
    <3>3. ~(Asks(req[p]) /\ req[p].home = {} /\ row'.owner = req[p].rep)
      BY <1>3, <1>9 DEF TaskInv, AloneOK, Solo
    <3>4. StreamOK(req[p])'
      BY <1>1, <1>3, <3>1 DEF ReqOK, StreamOK
    <3>5. ~Has(req[p])'
      BY <3>1, <3>2 DEF Has, ReqState
    <3>6. /\ ShapeOK(req[p])' /\ req'[p].fence <= row'.fence
          /\ (Asks(req[p]) /\ req[p].home = {} /\ row.owner = req[p].rep => task \notin Terminal)'
          /\ (req[p].told # "none" => req[p].told = task)'
          /\ (req[p].pc \in {"closing", "finalRelease"} => req[p].term = task)'
      BY <1>1, <1>3, <3>1, <3>2, <3>3 DEF ReqOK, ShapeOK, Settles, Ends, HasTerminal, Asks, ReqState
    <3> QED
      BY <3>4, <3>5, <3>6 DEF ReqOK
  <2> QED
    BY <2>2, <2>3
<1>11. FencesOK'
  <2>1. \A p \in Req : req[p].fence <= row.fence /\ req[p].fence \in Nat
    BY <1>1 DEF ReqOK, ReqState
  <2> QED
    BY <1>1, <1>2, <1>3, <1>6, <1>7, <2>1 DEF TaskInv, FencesOK
<1>12. HomesOK'
  <2> SUFFICES ASSUME NEW c \in Req, Asks(req'[c]), NEW p \in req'[c].home
               PROVE  req'[p].pc \in Cleaning \cup Done
    BY DEF HomesOK, Asks
  <2>1. c # q /\ Asks(req[c]) /\ p \in req[c].home /\ p \in Req
    BY <1>1, <1>7, <1>9 DEF ReqState
  <2>2. req[p].pc \in Cleaning \cup Done
    BY <2>1 DEF TaskInv, HomesOK
  <2>3. p # q
    BY <1>1, <2>2 DEF Cleaning, Done
  <2> QED
    BY <1>7, <2>1, <2>2, <2>3
<1>13. AloneOK'
  <2> SUFFICES ASSUME NEW c \in Req, NEW p \in Req, Solo(req'[c]), Holds(req'[p]),
                      req'[p].rep = req'[c].rep
               PROVE  p = c
    BY DEF AloneOK, Solo, Holds, Asks
  <2>1. Solo(req[c]) /\ Holds(req[p]) /\ req[p].rep = req[c].rep
    BY <1>6, <1>7, <1>9
  <2> QED
    BY <2>1 DEF TaskInv, AloneOK
<1>14. RowOK' /\ LogOK'
  BY <1>1, <1>3 DEF TaskInv, RowOK, LogOK, Terminal, TypeOK
<1> QED
  BY <1>8, <1>10, <1>11, <1>12, <1>13, <1>14 DEF TaskInv

\* A release ends the running lease of the request that releases.
LEMMA ReleasedKeeps ==
    ASSUME TaskInv, NEW q \in Req, NEW t \in {"released"} \cup Terminal,
           row' = (IF MayRelease(q) THEN Released(q, t) ELSE row),
           t \in {"completed", "failed"} => task = t,
           NEW s \in ReqState, Become(q, s), ReqOK(s), MayBecome(q, s),
           UNCHANGED <<task, log, calls, written, faults>>
    PROVE  TaskInv'
<1>1. /\ req \in [Req -> ReqState] /\ \A p \in Req : ReqOK(req[p])
      /\ req'[q] = s /\ (\A p \in Req \ {q} : req'[p] = req[p]) /\ req' \in [Req -> ReqState]
  BY DEF TaskInv, TypeOK, Become
<1>2. row \in [owner : Replica \cup {Nobody}, fence : Nat, live : BOOLEAN, cancel : BOOLEAN,
               state : {"absent", "running", "released"} \cup Terminal]
  BY DEF TaskInv, TypeOK
<1>3. req[q].cancel \in BOOLEAN /\ req[q].rep \in Replica
  BY <1>1 DEF ReqState
<1>4. RowMoves
  <2>1. CASE MayRelease(q)
    <3>1. row.owner # Nobody
      BY <1>3, <2>1, NobodyAssumption DEF MayRelease
    <3>2. row.state \notin Terminal \cup {"absent"}
      BY <3>1 DEF TaskInv, RowOK
    <3>3. row'.owner = Nobody /\ row'.state = t /\ row'.fence = row.fence
      BY <1>2, <2>1 DEF Released
    <3> QED
      BY <3>2, <3>3 DEF RowMoves
  <2>2. CASE ~MayRelease(q)
    BY <2>2 DEF RowMoves
  <2> QED
    BY <2>1, <2>2
<1>5. row' \in [owner : Replica \cup {Nobody}, fence : Nat, live : BOOLEAN, cancel : BOOLEAN,
                state : {"absent", "running", "released"} \cup Terminal]
  <2> DEFINE b == IF t = "released" THEN FALSE ELSE req[q].cancel
  <2>1. Released(q, t) = [row EXCEPT !.owner = Nobody, !.live = FALSE, !.state = t, !.cancel = b]
    BY DEF Released
  <2>2. b \in BOOLEAN
    BY <1>3
  <2> HIDE DEF b
  <2> QED
    BY <1>2, <2>1, <2>2
<1>6. TypeOK'
  BY <1>1, <1>5 DEF TaskInv, TypeOK
<1>7. HomesOK'
  <2> SUFFICES ASSUME NEW c \in Req, Asks(req'[c]), NEW p \in req'[c].home
               PROVE  req'[p].pc \in Cleaning \cup Done
    BY DEF HomesOK, Asks
  <2>1. Asks(req[c]) /\ p \in req[c].home /\ p \in Req
    BY <1>1 DEF MayBecome, ReqState
  <2> QED
    BY <1>1, <2>1 DEF TaskInv, HomesOK, MayBecome
<1>8. \A p \in Req : ReqOK(req'[p]) /\ MayChange(p, req'[p])
  <2>1. \A p \in Req : Solo(req[p]) => Holds(req[p])
    BY <1>1, SoloHolds DEF ReqOK
  <2>2. Solo(s) => Solo(req[q])
    BY DEF MayBecome, Solo
  <2>3. MayChange(q, s)
    BY <2>1, <2>2 DEF MayBecome, MayChange
  <2> QED
    BY <1>1, <2>3 DEF MayChange
<1>9. \A p, c \in Req : NewlyHolds(p) /\ NewlyHolds(c) => p = c
  BY <1>1 DEF NewlyHolds
<1> QED
  BY <1>4, <1>6, <1>7, <1>8, <1>9, Moves

\* The row of a task that has an outcome is closed with it.
LEMMA CloseReclaimedKeeps == ASSUME TaskInv, NEW q \in Req, CloseReclaimed(q) PROVE TaskInv'
<1>1. /\ req[q] \in ReqState /\ ReqOK(req[q]) /\ req[q].pc = "closing"
      /\ req[q].term \in Terminal /\ req[q].term = task
  BY DEF TaskInv, TypeOK, CloseReclaimed, ReqOK, ShapeOK
<1> DEFINE s == [req[q] EXCEPT !.pc = "answered", !.told = req[q].term]
<1>2. s \in ReqState
  BY <1>1, ReqFields, Values
<1>3. ReqOK(s)
  BY <1>1 DEF ReqOK, ShapeOK, StreamOK, Settles, Has, Asks, Writer, ReqState, Executing,
     Cleaning, Relaying, Done
<1>4. MayBecome(q, s)
  BY <1>1 DEF MayBecome, Asks, Holds, ReqOK, ShapeOK, ReqState, Busy, Cleaning, Done
<1> QED
  BY <1>1, <1>2, <1>3, <1>4, ReleasedKeeps DEF CloseReclaimed

\* ... and so is that of a task which was just finalized.
LEMMA FinalReleaseKeeps == ASSUME TaskInv, NEW q \in Req, FinalRelease(q) PROVE TaskInv'
<1>1. /\ req[q] \in ReqState /\ ReqOK(req[q]) /\ req[q].pc = "finalRelease"
      /\ req[q].term \in Terminal /\ req[q].term = task
  BY DEF TaskInv, TypeOK, FinalRelease, ReqOK, ShapeOK
<1>2. CASE MayRelease(q)
  <2> DEFINE s == [req[q] EXCEPT !.pc = "answered", !.told = req[q].term]
  <2>1. s \in ReqState
    BY <1>1, ReqFields, Values
  <2>2. ReqOK(s)
    BY <1>1 DEF ReqOK, ShapeOK, StreamOK, Settles, Has, Asks, Writer, ReqState, Executing,
       Cleaning, Relaying, Done
  <2>3. MayBecome(q, s)
    BY <1>1 DEF MayBecome, Asks, Holds, ReqOK, ShapeOK, ReqState, Busy, Cleaning, Done
  <2> QED
    BY <1>1, <1>2, <2>1, <2>2, <2>3, ReleasedKeeps DEF FinalRelease
<1>3. CASE ~MayRelease(q)
  <2> DEFINE s == [req[q] EXCEPT !.pc = "error"]
  <2>1. s \in ReqState
    BY <1>1, ReqFields, Values
  <2>2. ReqOK(s)
    BY <1>1 DEF ReqOK, ShapeOK, StreamOK, Settles, Has, Asks, Writer, ReqState, Executing,
       Cleaning, Relaying, Done
  <2>3. MayBecome(q, s)
    BY <1>1 DEF MayBecome, Asks, Holds, ReqOK, ShapeOK, ReqState, Busy, Cleaning, Done
  <2> QED
    BY <1>1, <1>3, <2>1, <2>2, <2>3, ReleasedKeeps DEF FinalRelease, Go, Become
<1> QED
  BY <1>2, <1>3

\* An execution releases after its outcome was saved.
LEMMA ReleaseKeeps == ASSUME TaskInv, NEW q \in Req, Release(q) PROVE TaskInv'
<1>1. /\ req[q] \in ReqState /\ ReqOK(req[q]) /\ req[q].pc = "release"
      /\ req[q].term \in {"released"} \cup Terminal
      /\ req[q].term \in {"completed", "failed"} => task = req[q].term
  BY DEF TaskInv, TypeOK, Release, ReqOK, ShapeOK, Settles, ReqState
<1> DEFINE s == [req[q] EXCEPT !.pc = "ended"]
<1>2. s \in ReqState
  BY <1>1, ReqFields, Values
<1>3. ReqOK(s)
  BY <1>1 DEF ReqOK, ShapeOK, StreamOK, Settles, Has, Asks, Writer, ReqState, Executing,
     Cleaning, Relaying, Done
<1>4. MayBecome(q, s)
  BY <1>1 DEF MayBecome, Asks, Holds, ReqOK, ShapeOK, ReqState, Busy, Cleaning, Done
<1> QED
  BY <1>1, <1>2, <1>3, <1>4, ReleasedKeeps DEF Release, Go, Become

-----------------------------------------------------------------------------
\* Writing the task

\* Nobody else can write under the lease of the row, and there is no outcome yet.
LEMMA OnlyWriter ==
    ASSUME TaskInv, NEW q \in Req, Writer(req[q]), Has(req[q])
    PROVE  /\ task \notin Terminal /\ ~Asks(req[q])
           /\ \A p \in Req \ {q} :
                /\ ~(Writer(req[p]) /\ Has(req[p]))
                /\ ~(Asks(req[p]) /\ req[p].home = {} /\ row.owner = req[p].rep)
           /\ \A p \in Req : req[p].told = "none" /\ req[p].pc \notin {"closing", "finalRelease"}
<1>1. req \in [Req -> ReqState] /\ \A p \in Req : ReqOK(req[p])
  BY DEF TaskInv, TypeOK
<1>2. task \notin Terminal
  BY <1>1 DEF ReqOK
<1>3. \A p \in Req : Writer(req[p]) => Holds(req[p]) /\ ~Asks(req[p])
  BY <1>1 DEF ReqOK, ShapeOK, Writer, Holds, Asks, Busy, Executing, Cleaning, Finalizing, Relaying, Done
<1>4. \A p \in Req : Solo(req[p]) /\ req[p].rep = req[q].rep => p = q
  BY <1>3 DEF TaskInv, AloneOK
<1>5. ASSUME NEW p \in Req \ {q}, Writer(req[p]), Has(req[p]) PROVE FALSE
  <2>1. req[p].fence = req[q].fence /\ req[p].rep = req[q].rep /\ req[p].fence > 0
    BY <1>5 DEF Has, TaskInv, RowOK
  <2>2. req[p].lent \/ req[q].lent
    BY <2>1 DEF TaskInv, FencesOK
  <2>3. CASE req[p].lent
    <3>1. Solo(req[p])
      BY <1>1, <1>5, <2>3 DEF Solo, Writer, ReqOK, ShapeOK, Executing, Cleaning, Done
    <3> QED
      BY <1>4, <1>5, <2>1, <3>1
  <2>4. CASE req[q].lent
    <3>1. Solo(req[q])
      BY <1>1, <2>4 DEF Solo, Writer, ReqOK, ShapeOK, Executing, Cleaning, Done
    <3> QED
      BY <1>3, <1>5, <2>1, <3>1 DEF TaskInv, AloneOK
  <2> QED
    BY <2>2, <2>3, <2>4
<1>6. ASSUME NEW p \in Req \ {q}, Asks(req[p]), req[p].home = {}, row.owner = req[p].rep PROVE FALSE
  BY <1>4, <1>6 DEF Solo, Has
<1>7. \A p \in Req : req[p].told \in {"none"} \cup Terminal /\ req[p].term \in {"released"} \cup Terminal
  BY <1>1 DEF ReqState
<1> QED
  BY <1>1, <1>2, <1>3, <1>5, <1>6, <1>7 DEF ReqOK, ShapeOK

\* A save under the lease of the row: the task, and an event with it or none.
LEMMA WriteKeeps ==
    ASSUME TaskInv, NEW q \in Req, Writer(req[q]), Has(req[q]), NEW e \in Events,
           NEW s \in ReqState, Become(q, s), MayBecome(q, s), ShapeOK(s),
           s.got = req[q].got, s.seen = req[q].seen,
           UNCHANGED <<row, calls, faults>>, written' = req[q].fence,
           task' \in {"none", "submitted"} \cup Terminal,
           \/ log' = log /\ task' # "completed"
           \/ /\ log' = Append(log, [fence |-> req[q].fence, event |-> e])
              /\ (e \in Terminal => task' = e) /\ (task' = "completed" => e = "completed"),
           Writer(s) => task' \notin Terminal, s.told # "none" => s.told = task',
           s.pc \in {"closing", "finalRelease"} => s.term = task'
    PROVE  TaskInv'
<1>1. /\ req \in [Req -> ReqState] /\ \A p \in Req : ReqOK(req[p])
      /\ req'[q] = s /\ (\A p \in Req \ {q} : req'[p] = req[p]) /\ req' \in [Req -> ReqState]
      /\ log \in Seq([fence : Nat, event : Events])
  BY DEF TaskInv, TypeOK, Become
<1>2. req[q].fence = row.fence /\ row.fence \in Nat /\ row.fence > 0 /\ row.state = "running"
  BY DEF Has, TaskInv, RowOK, TypeOK
<1>3. /\ task \notin Terminal /\ ~Asks(req[q])
      /\ \A p \in Req \ {q} :
           /\ ~(Writer(req[p]) /\ Has(req[p]))
           /\ ~(Asks(req[p]) /\ req[p].home = {} /\ row.owner = req[p].rep)
      /\ \A p \in Req : req[p].told = "none" /\ req[p].pc \notin {"closing", "finalRelease"}
  BY OnlyWriter
<1>4. /\ Len(log) \in Nat /\ Len(log') \in Nat /\ Len(log) <= Len(log')
      /\ log' \in Seq([fence : Nat, event : Events])
      /\ \A i \in 1 .. Len(log) : log'[i] = log[i] /\ log[i].event \notin Terminal
      /\ \A i \in 1 .. Len(log') : log'[i].event \in Terminal => task' = log'[i].event
      /\ task' = "completed" => Len(log') > 0 /\ log'[Len(log')].event = "completed"
  <2> DEFINE w == [fence |-> req[q].fence, event |-> e]
  <2>1. \A i \in 1 .. Len(log) : log[i].event \notin Terminal
    BY <1>3 DEF TaskInv, LogOK
  <2>2. w \in [fence : Nat, event : Events] /\ w.event = e
    BY <1>2
  <2> HIDE DEF w
  <2>3. CASE log' = log
    BY <1>1, <2>1, <2>3
  <2>4. CASE log' = Append(log, w)
    <3>1. /\ Len(log') = Len(log) + 1 /\ log'[Len(log) + 1] = w /\ Len(log) \in Nat
          /\ \A i \in 1 .. Len(log) : log'[i] = log[i]
          /\ log' \in Seq([fence : Nat, event : Events])
      BY <1>1, <2>2, <2>4
    <3>2. log' # log
      BY <3>1
    <3>3. (e \in Terminal => task' = e) /\ (task' = "completed" => e = "completed")
      BY <3>2
    <3>4. \A i \in 1 .. Len(log') : i \in 1 .. Len(log) \/ i = Len(log) + 1
      BY <3>1
    <3> QED
      BY <2>1, <2>2, <3>1, <3>3, <3>4
  <2> QED
    BY <2>3, <2>4 DEF w
<1>5. TypeOK'
  BY <1>1, <1>2, <1>4 DEF TaskInv, TypeOK
<1>6. Holds(req[q]) /\ req[q].kind # "stream" /\ s.kind # "stream" /\ ~Asks(s)
  BY <1>1, <1>2, <1>3 DEF MayBecome, ReqOK, ShapeOK, Writer, Holds, Busy, Executing, Cleaning, Finalizing,
     Relaying, Done
<1>7. (\A p \in Req : ReqOK(req[p]))'
  <2>1. StreamOK(req[q])' /\ ShapeOK(req[q])'
    BY <1>1, <1>4, <1>6 DEF ReqOK, StreamOK, ReqState, ShapeOK, Settles, Ends, HasTerminal, Asks
  <2>2. ReqOK(req[q])'
    BY <1>1, <1>2, <1>6, <2>1 DEF MayBecome, ReqOK, Asks, Writer
  <2>3. ASSUME NEW p \in Req \ {q} PROVE ReqOK(req[p])'
    <3>1. ReqOK(req[p]) /\ req'[p] = req[p] /\ req[p] \in ReqState
      BY <1>1
    <3>2. StreamOK(req[p])'
      <4>1. req[p].got \in Nat /\ req[p].got <= Len(log) /\ row' = row
        BY <3>1 DEF ReqOK, StreamOK, ReqState
      <4>2. req[p].got > 0 => log'[req[p].got] = log[req[p].got]
        BY <1>4, <4>1
      <4> QED
        BY <1>4, <3>1, <4>1, <4>2 DEF ReqOK, StreamOK
    <3> QED
      BY <1>3, <3>1, <3>2 DEF ReqOK, ShapeOK, Settles, Ends, HasTerminal, Asks, Writer, Has
  <2> QED
    BY <2>2, <2>3
<1>8. FencesOK'
  <2>1. \A p \in Req : req'[p].lent = req[p].lent /\ req'[p].fence = req[p].fence
    BY <1>1 DEF MayBecome
  <2>2. FencesOK /\ row' = row
    BY DEF TaskInv
  <2> QED
    BY <2>1, <2>2 DEF FencesOK
<1>9. HomesOK'
  <2> SUFFICES ASSUME NEW c \in Req, Asks(req'[c]), NEW p \in req'[c].home
               PROVE  req'[p].pc \in Cleaning \cup Done
    BY DEF HomesOK, Asks
  <2>1. Asks(req[c]) /\ p \in req[c].home /\ p \in Req
    BY <1>1 DEF MayBecome, ReqState
  <2> QED
    BY <1>1, <2>1 DEF TaskInv, HomesOK, MayBecome
<1>10. AloneOK'
  <2> SUFFICES ASSUME NEW c \in Req, NEW p \in Req, Solo(req'[c]), Holds(req'[p]),
                      req'[p].rep = req'[c].rep
               PROVE  p = c
    BY DEF AloneOK, Solo, Holds, Asks
  <2>1. Solo(req[c]) /\ Holds(req[p]) /\ req[p].rep = req[c].rep
    BY <1>1, <1>6 DEF MayBecome, Solo
  <2> QED
    BY <2>1 DEF TaskInv, AloneOK
<1>11. RowOK' /\ LogOK'
  BY <1>2, <1>4 DEF TaskInv, RowOK, LogOK, Terminal
<1> QED
  BY <1>5, <1>7, <1>8, <1>9, <1>10, <1>11 DEF TaskInv

\* A reclaimed task is saved as failed or canceled before it has an outcome.
LEMMA FinalSaveKeeps == ASSUME TaskInv, NEW q \in Req, FinalSave(q) PROVE TaskInv'
<1>1. /\ req[q] \in ReqState /\ ReqOK(req[q]) /\ req[q].pc = "finalSave"
      /\ req[q].term \in Terminal \ {"completed"} /\ req[q].queue = <<>>
      /\ UNCHANGED <<row, log, calls, faults>>
  BY DEF TaskInv, TypeOK, FinalSave, ReqOK, ShapeOK, Executing, Cleaning, Done
<1>2. CASE OwnsLive(q)
  <2> DEFINE s == [req[q] EXCEPT !.pc = "finalRelease"]
  <2>1. s \in ReqState
    BY <1>1, ReqFields, Values DEF Finalizing
  <2>2. /\ ShapeOK(s) /\ MayBecome(q, s) /\ ~Writer(s) /\ s.told = "none"
        /\ s.got = req[q].got /\ s.seen = req[q].seen /\ s.term = req[q].term
        /\ s.pc = "finalRelease"
    BY <1>1 DEF ReqOK, ShapeOK, Settles, MayBecome, Asks, Holds, Writer, ReqState, Busy, Executing,
       Cleaning, Finalizing, Relaying, Done
  <2>3. /\ Become(q, s) /\ task' = req[q].term /\ written' = req[q].fence /\ Has(req[q])
        /\ Writer(req[q])
    BY <1>1, <1>2 DEF FinalSave, Go, Become, OwnsLive, Owns, Has, Writer, ReqOK, ShapeOK, Cleaning, Done
  <2>4. "artifact" \in Events
    BY DEF Events
  <2> HIDE DEF s
  <2> QED
    BY <1>1, <2>1, <2>2, <2>3, <2>4, WriteKeeps
<1>3. CASE ~OwnsLive(q)
  <2> DEFINE s == [req[q] EXCEPT !.pc = "error"]
  <2>1. s \in ReqState
    BY <1>1, ReqFields, Values
  <2>2. ReqOK(s)
    BY <1>1 DEF ReqOK, ShapeOK, StreamOK, Settles, Has, Asks, Writer, ReqState, Executing,
       Cleaning, Relaying, Done
  <2>3. MayBecome(q, s)
    BY <1>1 DEF MayBecome, Asks, Holds, ReqOK, ShapeOK, ReqState, Busy, Cleaning, Done
  <2>4. UNCHANGED Others /\ Become(q, s)
    BY <1>1, <1>3 DEF FinalSave, Others, Go, Become
  <2> QED
    BY <2>1, <2>2, <2>3, <2>4, Plain, Unmoved
<1> QED
  BY <1>2, <1>3

\* The consumer saves the task and its event, or stops for good.
LEMMA ConsumeKeeps == ASSUME TaskInv, NEW q \in Req, Consume(q) PROVE TaskInv'
<1> DEFINE e == NextEvent(q)
<1>1. /\ req[q] \in ReqState /\ ReqOK(req[q]) /\ req[q].queue # <<>> /\ req[q].queue \in Seq(Events)
      /\ req[q].told = "none" /\ req[q].pc \in Executing \cup Cleaning \cup Done
      /\ task \in {"none", "submitted"} \cup Terminal
      /\ UNCHANGED <<row, calls, faults>>
  BY DEF TaskInv, TypeOK, Consume, ReqOK, ShapeOK, ReqState
<1>2. /\ e \in Events /\ Tail(req[q].queue) \in Seq(Events)
      /\ e \in Terminal => HasTerminal(req[q].queue)
      /\ HasTerminal(Tail(req[q].queue)) => HasTerminal(req[q].queue)
      /\ \A t \in Events : Ends(req[q].queue, t) /\ e \in Terminal => e = t
      /\ \A t \in Events : Ends(req[q].queue, t) /\ e \notin Terminal => Ends(Tail(req[q].queue), t)
  BY <1>1, ConsumedQueue DEF NextEvent
<1>3. ASSUME OwnsLive(q) PROVE TaskInv'
  <2>1. /\ task' = (IF e = "artifact" THEN task ELSE e) /\ written' = req[q].fence
        /\ log' = Append(log, [fence |-> req[q].fence, event |-> e])
        /\ Writer(req[q]) /\ Has(req[q])
    BY <1>1, <1>3 DEF Consume, Appended, Writer, Has, OwnsLive, Owns
  <2>2. task \notin Terminal
    BY <2>1, OnlyWriter
  <2>3. /\ task' \in {"none", "submitted"} \cup Terminal /\ (e \in Terminal => task' = e)
        /\ (task' = "completed" => e = "completed") /\ (e \notin Terminal => task' \notin Terminal)
    BY <1>1, <1>2, <2>1, <2>2 DEF Events, Terminal
  <2>4. CASE e \in Terminal
    <3> DEFINE s == [req[q] EXCEPT !.queue = <<>>, !.told = e]
    <3>1. s \in ReqState
      <4>1. <<>> \in Seq(Events)
        OBVIOUS
      <4>2. [req[q] EXCEPT !.queue = <<>>] \in ReqState
        BY <1>1, <4>1, ReqFields
      <4> QED
        BY <2>4, <4>2, ReqFields
    <3>2. Become(q, s)
      BY <1>3, <2>4 DEF Consume
    <3>3. /\ s.queue = <<>> /\ s.told = e /\ s.pc = req[q].pc /\ s.term = req[q].term
          /\ s.broken = req[q].broken /\ Alike([s EXCEPT !.told = "none"], req[q])
          /\ s.kind = req[q].kind /\ s.rep = req[q].rep /\ s.fence = req[q].fence
          /\ s.lent = req[q].lent /\ s.home = req[q].home /\ s.got = req[q].got /\ s.seen = req[q].seen
      BY <1>1 DEF ReqState, Alike
    <3>4. e # "none" /\ HasTerminal(req[q].queue) /\ ~HasTerminal(<<>>)
      BY <1>2, <2>4 DEF Terminal, HasTerminal
    <3>5. req[q].pc \in Cleaning \cup Done
      BY <1>1, <3>4 DEF ReqOK, ShapeOK
    <3>6. Settles(s)
      <4>1. Settles(req[q])
        BY <1>1 DEF ReqOK, ShapeOK
      <4>2. req[q].term \in {"completed", "failed"} => req[q].term \in Events
        BY DEF Events, Terminal
      <4> QED
        BY <1>1, <1>2, <2>4, <3>3, <4>1, <4>2 DEF Settles, Terminal
    <3> HIDE DEF s
    <3>7. ShapeOK(s)
      BY <1>1, <3>3, <3>4, <3>5, <3>6 DEF ReqOK, ShapeOK, Asks, Relaying, Cleaning, Done
    <3>8. MayBecome(q, s)
      BY <1>1, <3>3, <3>5 DEF MayBecome, Asks, Holds, Cleaning, Done
    <3>9. ~Writer(s) /\ s.told = task' /\ s.pc \notin {"closing", "finalRelease"}
      BY <2>3, <2>4, <3>3, <3>4, <3>5 DEF Writer, Cleaning, Done
    <3> QED
      BY <1>1, <1>2, <2>1, <2>3, <3>1, <3>2, <3>3, <3>7, <3>8, <3>9, WriteKeeps
  <2>5. CASE e \notin Terminal
    <3> DEFINE s == [req[q] EXCEPT !.queue = Tail(req[q].queue)]
    <3>1. s \in ReqState
      BY <1>1, <1>2, ReqFields
    <3>2. Become(q, s)
      BY <1>3, <2>5 DEF Consume
    <3>3. /\ s.queue = Tail(req[q].queue) /\ s.told = "none" /\ s.pc = req[q].pc
          /\ s.term = req[q].term /\ s.broken = req[q].broken
          /\ s.kind = req[q].kind /\ s.rep = req[q].rep /\ s.fence = req[q].fence
          /\ s.lent = req[q].lent /\ s.home = req[q].home /\ s.got = req[q].got /\ s.seen = req[q].seen
      BY <1>1 DEF ReqState
    <3>4. Settles(s)
      <4>1. Settles(req[q])
        BY <1>1 DEF ReqOK, ShapeOK
      <4>2. req[q].term \in {"completed", "failed"} => req[q].term \in Events
        BY DEF Events, Terminal
      <4> QED
        BY <1>1, <1>2, <2>5, <3>3, <4>1, <4>2 DEF Settles, Terminal
    <3> HIDE DEF s
    <3>5. ShapeOK(s)
      BY <1>1, <1>2, <3>3, <3>4 DEF ReqOK, ShapeOK, Asks, Relaying, Cleaning, Done
    <3>6. MayBecome(q, s)
      BY <1>1, <3>3 DEF MayBecome, Asks, Holds
    <3>7. task' \notin Terminal /\ s.pc \notin {"closing", "finalRelease"}
      BY <1>1, <2>3, <2>5, <3>3 DEF Executing, Cleaning, Done
    <3> QED
      BY <1>1, <1>2, <2>1, <2>3, <3>1, <3>2, <3>3, <3>5, <3>6, <3>7, WriteKeeps
  <2> QED
    BY <2>4, <2>5
<1>4. ASSUME ~OwnsLive(q) PROVE TaskInv'
  <2> DEFINE s == [req[q] EXCEPT !.broken = TRUE, !.queue = <<>>]
  <2>1. s \in ReqState
    <3>1. [req[q] EXCEPT !.broken = TRUE] \in ReqState
      BY <1>1, ReqFields
    <3>2. <<>> \in Seq(Events)
      OBVIOUS
    <3> QED
      BY <3>1, <3>2, ReqFields
  <2>2. /\ s.queue = <<>> /\ s.told = "none" /\ s.pc = req[q].pc /\ s.broken
        /\ s.term = req[q].term
        /\ s.kind = req[q].kind /\ s.rep = req[q].rep /\ s.fence = req[q].fence
        /\ s.lent = req[q].lent /\ s.home = req[q].home /\ s.got = req[q].got /\ s.seen = req[q].seen
    BY <1>1 DEF ReqState
  <2>3. Become(q, s) /\ UNCHANGED Others
    BY <1>1, <1>4 DEF Consume, Others
  <2> HIDE DEF s
  <2>4. ~HasTerminal(<<>>)
    BY DEF HasTerminal
  <2>5. Settles(s)
    BY <1>1, <2>2 DEF ReqOK, ShapeOK, Settles
  <2>6. ReqOK(s)
    BY <1>1, <2>2, <2>4, <2>5 DEF ReqOK, ShapeOK, StreamOK, Has, Asks, Writer, Executing, Cleaning,
       Relaying, Done
  <2>7. MayBecome(q, s)
    BY <1>1, <2>2 DEF MayBecome, Asks, Holds
  <2> QED
    BY <2>1, <2>3, <2>6, <2>7, Plain, Unmoved
<1> QED
  BY <1>3, <1>4

-----------------------------------------------------------------------------
\* The invariant holds in every reachable state

\* In the initial states nobody has done anything.
LEMMA Initially == ASSUME Init PROVE TaskInv
<1>1. PICK mix \in Mixes, at \in [Req -> Replica] :
        req = [q \in Req |->
                  [pc |-> "new", kind |-> mix[q], rep |-> at[q], fence |-> 0, lent |-> FALSE,
                   queue |-> <<>>, broken |-> FALSE, beat |-> "off", cancel |-> FALSE,
                   home |-> {}, seen |-> "none", term |-> "released", told |-> "none",
                   got |-> 0]]
  BY DEF Init
<1>2. \A q \in Req : req[q] \in ReqState /\ req[q].pc = "new" /\ req[q].fence = 0
         /\ ~req[q].lent /\ req[q].queue = <<>> /\ req[q].told = "none" /\ req[q].got = 0
         /\ req[q].term = "released" /\ req[q].seen = "none"
  BY <1>1, MixesAssumption DEF ReqState
<1>3. /\ row = [owner |-> Nobody, fence |-> 0, live |-> FALSE, cancel |-> FALSE, state |-> "absent"]
      /\ task = "none" /\ log = <<>> /\ calls = {} /\ written = 0 /\ faults = 0
  BY DEF Init
<1>4. TypeOK
  <2>1. req \in [Req -> ReqState]
    BY <1>1, <1>2
  <2>2. log \in Seq([fence : Nat, event : Events]) /\ faults \in 0 .. MaxFaults
    BY <1>3, FaultsAssumption
  <2> QED
    BY <1>3, <2>1, <2>2 DEF TypeOK
<1>5. \A q \in Req : ReqOK(req[q])
  <2> TAKE q \in Req
  <2>1. ShapeOK(req[q])
    BY <1>2 DEF ShapeOK, Settles, HasTerminal, Asks, Relaying, Executing, Cleaning, Done
  <2>2. StreamOK(req[q])
    BY <1>2, <1>3 DEF StreamOK, Terminal
  <2> QED
    BY <1>2, <1>3, <2>1, <2>2 DEF ReqOK, Asks, Terminal
<1>6. HomesOK /\ AloneOK
  BY <1>2 DEF HomesOK, AloneOK, Solo, Asks
<1>7. FencesOK /\ RowOK /\ LogOK
  BY <1>2, <1>3 DEF FencesOK, RowOK, LogOK, Terminal
<1> QED
  BY <1>4, <1>5, <1>6, <1>7 DEF TaskInv

\* Every step keeps it.
LEMMA InvStep == ASSUME TaskInv, [Next]_vars PROVE TaskInv'
<1>1. ASSUME NEW q \in Req, Proceed(q) PROVE TaskInv'
  BY <1>1, ReceiveKeeps, ReceiveCancelKeeps, AcquireGrantedKeeps, AcquireRefusedKeeps, WaitReadTaskKeeps,
     WaitReadRowKeeps, ReadReclaimedKeeps, CloseReclaimedKeeps, FinalSaveKeeps, FinalReleaseKeeps,
     StartKeeps, ChecksKeep, InvokeKeeps, InvokeEndsKeeps, BindSessionKeeps, CancelledKeeps,
     FinallyKeeps, DrainedKeeps, DrainTimeoutKeeps, ReleaseKeeps, RequestCancelKeeps, CancelGetKeeps,
     RemoteReadTaskKeeps, RemoteReadRowKeeps, RelayReadRowKeeps, RelayReadPageKeeps, RelayTimeoutKeeps
     DEF Proceed
<1>2. ASSUME NEW q \in Req, Consume(q) \/ Heartbeat(q) \/ HeartbeatRaises(q) \/ Shutdown(q)
      PROVE  TaskInv'
  BY <1>2, ConsumeKeeps, HeartbeatKeeps, ShutdownKeeps
<1>3. CASE Expire
  BY <1>3, ExpireKeeps
<1>4. ASSUME NEW r \in Replica, Crash(r) PROVE TaskInv'
  BY <1>4, CrashKeeps
<1>5. CASE UNCHANGED vars
  <2>1. TypeOK'
    BY <1>5 DEF TaskInv, TypeOK, vars
  <2>2. (\A q \in Req : ReqOK(req[q]))'
    BY <1>5 DEF TaskInv, ReqOK, ShapeOK, StreamOK, Settles, Ends, HasTerminal, Writer, Has, Asks, vars
  <2>3. (FencesOK /\ RowOK /\ LogOK)'
    BY <1>5 DEF TaskInv, FencesOK, RowOK, LogOK, vars
  <2>4. (HomesOK /\ AloneOK)'
    BY <1>5 DEF TaskInv, HomesOK, AloneOK, Solo, Holds, Asks, vars
  <2> QED
    BY <2>1, <2>2, <2>3, <2>4 DEF TaskInv
<1> QED
  BY <1>1, <1>2, <1>3, <1>4, <1>5 DEF Next

\* Every reachable state of any number of requests, replicas and faults has it.
THEOREM TaskInvariant == Spec => []TaskInv
<1>1. Init => TaskInv
  BY Initially
<1>2. TaskInv /\ [Next]_vars => TaskInv'
  BY InvStep
<1> QED
  BY <1>1, <1>2, PTL DEF Spec

\* The row, the task, the log and every request always have their types: no
\* handler writes a state that another one does not expect.
THEOREM TypeCorrect == Spec => []TypeOK
<1>1. TaskInv => TypeOK
  BY DEF TaskInv
<1> QED
  BY <1>1, TaskInvariant, PTL

\* Whoever is told the outcome of a task is told what the durable task says.
THEOREM AnswersAlwaysAgree == Spec => []AnswersAgree
<1>1. TaskInv => AnswersAgree
  BY DEF TaskInv, ReqOK, AnswersAgree
<1> QED
  BY <1>1, TaskInvariant, PTL

\* An ownership row that says completed or failed has a task that says so.
THEOREM DurableOutcome == Spec => []OutcomeIsDurable
<1>1. TaskInv => OutcomeIsDurable
  BY DEF TaskInv, RowOK, OutcomeIsDurable
<1> QED
  BY <1>1, TaskInvariant, PTL

\* A stream that saw the row of a completed task does not end without its event.
THEOREM StreamsDeliver == Spec => []StreamsAreComplete
<1>1. TaskInv => StreamsAreComplete
  BY DEF TaskInv, ReqOK, StreamOK, StreamsAreComplete
<1> QED
  BY <1>1, TaskInvariant, PTL

-----------------------------------------------------------------------------
\* What a step does to the task and to the fences

Still == /\ UNCHANGED <<task, written>> /\ row'.fence = row.fence
         /\ \A p \in Req : req'[p].fence = req[p].fence /\ req'[p].lent = req[p].lent

Saves(q) == /\ Writer(req[q]) /\ Has(req[q])
            /\ written' = req[q].fence /\ row' = row
            /\ \A p \in Req : req'[p].fence = req[p].fence /\ req'[p].lent = req[p].lent

Fenced(q, s) == s.fence = req[q].fence /\ s.lent = req[q].lent

\* A request that becomes s keeps its fence.
LEMMA StillBecome ==
    ASSUME TaskInv, NEW q \in Req, NEW s, Become(q, s), Fenced(q, s)
    PROVE  \A p \in Req : req'[p].fence = req[p].fence /\ req'[p].lent = req[p].lent
  BY DEF TaskInv, TypeOK, Become, Fenced

\* Nobody but an owner that saves changes the task, and nobody but a request that
\* acquires the row or borrows its fence changes the fences.
LEMMA StepShape ==
    ASSUME TaskInv, [Next]_vars
    PROVE  \/ Still
           \/ \E q \in Req : AcquireGranted(q) \/ CancelGet(q) \/ Saves(q)
<1>1. /\ req \in [Req -> ReqState] /\ (\A p \in Req : ReqOK(req[p]))
      /\ row \in [owner : Replica \cup {Nobody}, fence : Nat, live : BOOLEAN, cancel : BOOLEAN,
                   state : {"absent", "running", "released"} \cup Terminal]
  BY DEF TaskInv, TypeOK
<1>2. ASSUME NEW q \in Req, NEW p, Go(q, p)
      PROVE  \A r \in Req : req'[r].fence = req[r].fence /\ req'[r].lent = req[r].lent
  BY <1>1, <1>2 DEF Go, ReqState
<1>3. UNCHANGED Others => UNCHANGED <<task, written>> /\ row'.fence = row.fence
  BY DEF Others
<1>4. ASSUME NEW q \in Req, NEW p, Go(q, p), UNCHANGED <<task, written>>, row'.fence = row.fence
      PROVE  Still
  BY <1>2, <1>4 DEF Still
<1>5. ASSUME NEW q \in Req, NEW s, Become(q, s), Fenced(q, s), UNCHANGED <<task, written>>,
             row'.fence = row.fence
      PROVE  Still
  BY <1>5, StillBecome DEF Still
<1>6. ASSUME NEW q \in Req, ReceiveSend(q) \/ ReceiveStream(q) \/ InvokeEnds(q) \/ Drained(q) PROVE Still
  BY <1>3, <1>4, <1>6 DEF ReceiveSend, ReceiveStream, InvokeEnds, Drained
<1>7. ASSUME NEW q \in Req, AcquireRefused(q) PROVE Still
  BY <1>3, <1>4, <1>7 DEF AcquireRefused
<1>8. ASSUME NEW q \in Req, WaitReadRow(q) PROVE Still
  BY <1>3, <1>4, <1>8 DEF WaitReadRow
<1>9. ASSUME NEW q \in Req, RemoteReadRow(q) PROVE Still
  BY <1>3, <1>4, <1>9 DEF RemoteReadRow
<1>10. ASSUME NEW q \in Req, Invoke(q) \/ DrainTimeout(q) PROVE Still
  BY <1>4, <1>10 DEF Invoke, DrainTimeout
<1>11. ASSUME NEW q \in Req, WaitReadTask(q) PROVE Still
  <2> DEFINE s1 == [req[q] EXCEPT !.pc = "answered", !.told = task]
             s2 == [req[q] EXCEPT !.pc = "waitRow"]
  <2>1. Fenced(q, s1) /\ Fenced(q, s2)
    BY <1>1 DEF Fenced, ReqState
  <2> HIDE DEF s1, s2
  <2>2. Become(q, s1) \/ Become(q, s2)
    BY <1>11 DEF WaitReadTask, s1, s2
  <2> QED
    BY <1>3, <1>5, <1>11, <2>1, <2>2 DEF WaitReadTask
<1>12. ASSUME NEW q \in Req, RemoteReadTask(q) PROVE Still
  <2> DEFINE s1 == [req[q] EXCEPT !.pc = "answered", !.told = task]
             s2 == [req[q] EXCEPT !.pc = "remoteRow"]
  <2>1. Fenced(q, s1) /\ Fenced(q, s2)
    BY <1>1 DEF Fenced, ReqState
  <2> HIDE DEF s1, s2
  <2>2. Become(q, s1) \/ Become(q, s2)
    BY <1>12 DEF RemoteReadTask, s1, s2
  <2> QED
    BY <1>3, <1>5, <1>12, <2>1, <2>2 DEF RemoteReadTask
<1>13. ASSUME NEW q \in Req, ReadReclaimed(q) PROVE Still
  <2> DEFINE s1 == [req[q] EXCEPT !.pc = IF @ = "reclaimed" THEN "owner" ELSE "error"]
             s2 == [req[q] EXCEPT !.pc = "closing", !.term = task]
             s3 == [req[q] EXCEPT !.pc = "finalSave",
                                       !.term = IF req[q].kind = "cancel" \/ req[q].cancel THEN "canceled" ELSE "failed"]
  <2>1. Fenced(q, s1) /\ Fenced(q, s2) /\ Fenced(q, s3)
    BY <1>1 DEF Fenced, ReqState
  <2> HIDE DEF s1, s2, s3
  <2>2. Become(q, s1) \/ Become(q, s2) \/ Become(q, s3)
    BY <1>13 DEF ReadReclaimed, s1, s2, s3
  <2> QED
    BY <1>3, <1>5, <1>13, <2>1, <2>2 DEF ReadReclaimed
<1>14. ASSUME NEW q \in Req, Start(q) PROVE Still
  <2> DEFINE s1 == [req[q] EXCEPT !.pc = "check1", !.beat = "on", !.queue = Append(@, "submitted")]
  <2>1. Fenced(q, s1)
    BY <1>1 DEF Fenced, ReqState
  <2> HIDE DEF s1
  <2>2. Become(q, s1)
    BY <1>14 DEF Start, s1
  <2> QED
    BY <1>3, <1>5, <1>14, <2>1, <2>2 DEF Start
<1>15. ASSUME NEW q \in Req, RelayReadRow(q) PROVE Still
  <2> DEFINE s1 == [req[q] EXCEPT !.pc = "relayRead", !.seen = row.state]
  <2>1. Fenced(q, s1)
    BY <1>1 DEF Fenced, ReqState
  <2> HIDE DEF s1
  <2>2. Become(q, s1)
    BY <1>15 DEF RelayReadRow, s1
  <2> QED
    BY <1>3, <1>5, <1>15, <2>1, <2>2 DEF RelayReadRow
<1>16. ASSUME NEW q \in Req, RelayReadPage(q) PROVE Still
  <2> DEFINE s1 == [req[q] EXCEPT !.got = @ + 1, !.told = Head(After(q)).event, !.pc = "answered"]
             s2 == [req[q] EXCEPT !.got = @ + 1, !.seen = "none", !.pc = "relayRow"]
             s3 == [req[q] EXCEPT !.pc = "relayRow", !.seen = "none"]
             s4 == [req[q] EXCEPT !.pc = "ended"]
  <2>1. Fenced(q, s1) /\ Fenced(q, s2) /\ Fenced(q, s3) /\ Fenced(q, s4)
    BY <1>1 DEF Fenced, ReqState
  <2> HIDE DEF s1, s2, s3, s4
  <2>2. Become(q, s1) \/ Become(q, s2) \/ Become(q, s3) \/ Become(q, s4)
    BY <1>16 DEF RelayReadPage, s1, s2, s3, s4
  <2> QED
    BY <1>3, <1>5, <1>16, <2>1, <2>2 DEF RelayReadPage
<1>17. ASSUME NEW q \in Req, RelayTimeout(q) PROVE Still
  <2> DEFINE s == [req[q] EXCEPT !.pc = "error"]
  <2>1. Fenced(q, s)
    BY <1>1 DEF Fenced, ReqState
  <2> QED
    BY <1>3, <1>5, <1>17, <2>1 DEF RelayTimeout
<1>18. \A q \in Req : \A t : Fenced(q, ToFinally(q, t))
  BY <1>1 DEF Fenced, ToFinally, ReqState
<1>19. \A q \in Req : \A e, t : Fenced(q, Publish(q, e, t))
  BY <1>1 DEF Fenced, Publish, ToFinally, ReqState
<1>20. ASSUME NEW q \in Req, CheckStops(q) PROVE Still
  BY <1>3, <1>5, <1>18, <1>19, <1>20 DEF CheckStops
<1>21. ASSUME NEW q \in Req, CheckPasses(q) PROVE Still
  BY <1>3, <1>4, <1>5, <1>19, <1>21 DEF CheckPasses
<1>22. ASSUME NEW q \in Req, BindSession(q) PROVE Still
  <2> DEFINE s1 == [req[q] EXCEPT !.pc = "check3"]
  <2>1. Fenced(q, s1)
    BY <1>1 DEF Fenced, ReqState
  <2> HIDE DEF s1
  <2>2. Become(q, s1) \/ Become(q, ToFinally(q, "released"))
    BY <1>22 DEF BindSession, s1
  <2> QED
    BY <1>3, <1>5, <1>18, <1>22, <2>1, <2>2 DEF BindSession
<1>23. ASSUME NEW q \in Req, Cancelled(q) PROVE Still
  BY <1>3, <1>5, <1>18, <1>23 DEF Cancelled
<1>24. ASSUME NEW q \in Req, Finally(q) PROVE Still
  <2> DEFINE s1 == [req[q] EXCEPT !.pc = "ended"]
             s2 == [req[q] EXCEPT !.pc = "drain",
                                       !.term = IF @ = "released" /\ row.cancel THEN "canceled" ELSE @]
  <2>1. Fenced(q, s1) /\ Fenced(q, s2)
    BY <1>1 DEF Fenced, ReqState
  <2> HIDE DEF s1, s2
  <2>2. Become(q, s1) \/ Become(q, s2)
    BY <1>24 DEF Finally, s1, s2
  <2> QED
    BY <1>3, <1>5, <1>24, <2>1, <2>2 DEF Finally
<1>25. ASSUME NEW q \in Req, NEW t PROVE Released(q, t).fence = row.fence
  BY <1>1 DEF Released
<1>26. ASSUME NEW q \in Req, CloseReclaimed(q) PROVE Still
  <2> DEFINE s1 == [req[q] EXCEPT !.pc = "answered", !.told = req[q].term]
  <2>1. Fenced(q, s1)
    BY <1>1 DEF Fenced, ReqState
  <2> HIDE DEF s1
  <2>2. Become(q, s1)
    BY <1>26 DEF CloseReclaimed, s1
  <2> QED
    BY <1>5, <1>25, <1>26, <2>1, <2>2 DEF CloseReclaimed
<1>27. ASSUME NEW q \in Req, FinalRelease(q) PROVE Still
  <2> DEFINE s1 == [req[q] EXCEPT !.pc = "answered", !.told = req[q].term]
  <2>1. Fenced(q, s1)
    BY <1>1 DEF Fenced, ReqState
  <2> HIDE DEF s1
  <2>2. Become(q, s1) \/ Go(q, "error")
    BY <1>27 DEF FinalRelease, s1
  <2> QED
    BY <1>4, <1>5, <1>25, <1>27, <2>1, <2>2 DEF FinalRelease
<1>28. ASSUME NEW q \in Req, Release(q) PROVE Still
  BY <1>4, <1>25, <1>28 DEF Release
<1>29. ASSUME NEW q \in Req, RequestCancel(q) PROVE Still
  BY <1>1, <1>4, <1>29 DEF RequestCancel
<1>30. ASSUME NEW q \in Req, Heartbeat(q) PROVE Still
  <2>1. row'.fence = row.fence /\ UNCHANGED <<task, written>>
    BY <1>1, <1>30 DEF Heartbeat
  <2>2. \A p \in Req : req'[p].fence = req[p].fence /\ req'[p].lent = req[p].lent
    <3>1. CASE UNCHANGED req
      BY <3>1
    <3>2. CASE req' = [req EXCEPT ![q].beat = "off"]
      BY <1>1, <3>2 DEF ReqState
    <3> QED
      BY <1>30, <3>1, <3>2 DEF Heartbeat
  <2> QED
    BY <2>1, <2>2 DEF Still
<1>31. ASSUME NEW q \in Req, HeartbeatRaises(q) PROVE Still
  BY <1>1, <1>31 DEF HeartbeatRaises, Still, ReqState
<1>32. \A q \in Req : Fenced(q, Interrupted(q))
  BY <1>1, <1>18 DEF Interrupted, Fenced, ReqState
<1>33. ASSUME NEW q \in Req, Shutdown(q) PROVE Still
  BY <1>5, <1>32, <1>33 DEF Shutdown
<1>34. ASSUME NEW q \in Req, ReceiveCancel(q) PROVE Still
  <2>1. \A p \in Req : req'[p].fence = req[p].fence /\ req'[p].lent = req[p].lent
    <3> TAKE p \in Req
    <3> DEFINE asking == [req[q] EXCEPT !.pc = "requesting", !.home = Active(req[q].rep)]
    <3>1. asking.fence = req[q].fence /\ asking.lent = req[q].lent
      BY <1>1 DEF ReqState
    <3>2. (p = q /\ req'[p] = asking) \/ req'[p] = Interrupted(p) \/ req'[p] = req[p]
      BY <1>34 DEF ReceiveCancel
    <3>3. Interrupted(p).fence = req[p].fence /\ Interrupted(p).lent = req[p].lent
      BY <1>32 DEF Fenced
    <3> HIDE DEF asking
    <3> QED
      BY <3>1, <3>2, <3>3
  <2> QED
    BY <1>3, <1>34, <2>1 DEF ReceiveCancel, Still
<1>35. ASSUME NEW q \in Req, FinalSave(q) PROVE Still \/ Saves(q)
  <2>1. \A p \in Req : req'[p].fence = req[p].fence /\ req'[p].lent = req[p].lent
    BY <1>2, <1>35 DEF FinalSave
  <2>2. OwnsLive(q) => Writer(req[q]) /\ Has(req[q])
    BY <1>1, <1>35 DEF FinalSave, OwnsLive, Owns, Has, Writer, ReqOK, ShapeOK, Cleaning, Done
  <2> QED
    BY <1>35, <2>1, <2>2 DEF FinalSave, Still, Saves
<1>36. ASSUME NEW q \in Req, Consume(q) PROVE Still \/ Saves(q)
  <2> DEFINE s1 == [req[q] EXCEPT !.queue = <<>>, !.told = NextEvent(q)]
             s2 == [req[q] EXCEPT !.queue = Tail(@)]
             s3 == [req[q] EXCEPT !.broken = TRUE, !.queue = <<>>]
  <2>9. Fenced(q, s1) /\ Fenced(q, s2) /\ Fenced(q, s3)
    BY <1>1 DEF Fenced, ReqState
  <2> HIDE DEF s1, s2, s3
  <2>1. \E s \in {s1, s2, s3} : Become(q, s) /\ Fenced(q, s)
    BY <1>36, <2>9 DEF Consume, s1, s2, s3
  <2>2. \A p \in Req : req'[p].fence = req[p].fence /\ req'[p].lent = req[p].lent
    BY <2>1, StillBecome
  <2>3. OwnsLive(q) => Writer(req[q]) /\ Has(req[q])
    BY <1>1, <1>36 DEF Consume, OwnsLive, Owns, Has, Writer, ReqOK, ShapeOK
  <2> QED
    BY <1>36, <2>2, <2>3 DEF Consume, Still, Saves
<1>37. CASE Expire
  BY <1>37 DEF Expire, Still, TaskInv, TypeOK
<1>38. ASSUME NEW r \in Replica, Crash(r) PROVE Still
  <2>1. \A p \in Req : req'[p].fence = req[p].fence /\ req'[p].lent = req[p].lent
    <3> TAKE p \in Req
    <3>1. CASE req'[p] = req[p]
      BY <3>1
    <3> DEFINE to == IF req[p].pc \in Done THEN req[p].pc ELSE "crashed"
    <3>2. CASE req'[p] = [req[p] EXCEPT !.pc = to, !.beat = "off", !.queue = <<>>]
      BY <1>1, <3>2 DEF ReqState
    <3> QED
      BY <1>38, <3>1, <3>2 DEF Crash
  <2> QED
    BY <1>1, <1>38, <2>1 DEF Crash, Still
<1>39. CASE UNCHANGED vars
  BY <1>39 DEF vars, Still
<1>40. ASSUME NEW q \in Req, Proceed(q)
       PROVE  Still \/ AcquireGranted(q) \/ CancelGet(q) \/ Saves(q)
  BY <1>6, <1>7, <1>8, <1>9, <1>10, <1>11, <1>12, <1>13, <1>14, <1>15, <1>16, <1>17, <1>20, <1>21,
     <1>22, <1>23, <1>24, <1>26, <1>27, <1>28, <1>29, <1>34, <1>35, <1>40 DEF Proceed
<1> QED
  BY <1>30, <1>31, <1>33, <1>36, <1>37, <1>38, <1>39, <1>40 DEF Next

\* An outcome of the task is never changed again, whoever comes too late.
THEOREM OutcomeIsFinal == Spec => TerminalIsFinal
<1>1. ASSUME TaskInv, [Next]_vars, task \in Terminal PROVE task' = task
  <2>1. ASSUME NEW q \in Req, AcquireGranted(q) \/ CancelGet(q) PROVE task' = task
    BY <2>1 DEF AcquireGranted, CancelGet, Others
  <2>2. ASSUME NEW q \in Req, Saves(q) PROVE FALSE
    BY <1>1, <2>2, OnlyWriter DEF Saves
  <2> QED
    BY <1>1, <2>1, <2>2, StepShape DEF Still
<1>2. TaskInv /\ [Next]_vars => [(task \in Terminal) => (task' = task)]_vars
  BY <1>1
<1> QED
  BY <1>2, TaskInvariant, PTL DEF Spec, TerminalIsFinal

\* The ownership row and the fenced task store implement the fencing token: acquire
\* issues a token, a save is accepted under the newest one, which a cancellation
\* borrows from the execution that has it, and every other step stutters.
THEOREM ImplementsFencing == Spec => FencingSpec
<1>1. Init => Fencing!Init
  BY DEF Init, Fencing!Init
<1>2. ASSUME TaskInv, [Next]_vars PROVE [Fencing!Next]_Fencing!fencingVars
  <2>1. /\ req \in [Req -> ReqState] /\ (\A p \in Req : ReqOK(req[p])) /\ row.fence \in Nat
        /\ written \in Nat
    BY <1>2 DEF TaskInv, TypeOK
  <2>2. ASSUME Still PROVE UNCHANGED Fencing!fencingVars
    BY <2>2 DEF Still, Fencing!fencingVars
  <2>3. ASSUME NEW q \in Req, AcquireGranted(q) PROVE Fencing!Issue(q)
    <3>1. req[q].pc \in {"acquire", "waitAcquire", "remoteAcquire"} /\ ~req[q].lent
      BY <2>1, <2>3 DEF AcquireGranted, ReqOK, ShapeOK, Done, ReqState
    <3>2. row'.fence = row.fence + 1 /\ written' = written
      BY <1>2, <2>3 DEF AcquireGranted, Taken, TaskInv, TypeOK
    <3>3. /\ req'[q].fence = row.fence + 1 /\ ~req'[q].lent
          /\ \A p \in Req \ {q} : req'[p] = req[p]
      BY <2>1, <2>3, <3>1 DEF AcquireGranted, Become, ReqState
    <3> QED
      BY <3>1, <3>2, <3>3 DEF Fencing!Issue
  <2>4. ASSUME NEW q \in Req, CancelGet(q) PROVE UNCHANGED Fencing!fencingVars
    <3>1. row' = row /\ written' = written
      BY <2>4 DEF CancelGet, Others
    <3>2. ~req[q].lent /\ req[q].fence = 0
      BY <2>1, <2>4 DEF CancelGet, ReqOK, ShapeOK, Asks, Done, ReqState
    <3>3. \A p \in Req : (IF req'[p].lent THEN 0 ELSE req'[p].fence)
                            = (IF req[p].lent THEN 0 ELSE req[p].fence)
      <4>1. \A p \in Req \ {q} : req'[p].fence = req[p].fence /\ req'[p].lent = req[p].lent
        <5> TAKE p \in Req \ {q}
        <5>1. CASE req'[p] = req[p]
          BY <5>1
        <5>2. CASE req'[p] = [req[p] EXCEPT !.queue = Append(@, "canceled")]
          BY <2>1, <5>2 DEF ReqState
        <5> QED
          BY <2>1, <2>4, <5>1, <5>2 DEF CancelGet, Go, Become
      <4>2. req'[q].lent \/ (~req'[q].lent /\ req'[q].fence = 0)
        <5>1. CASE req'[q] \in {[req[q] EXCEPT !.pc = "remoteTask"], [req[q] EXCEPT !.pc = "ended"]}
          BY <2>1, <3>2, <5>1 DEF ReqState
        <5>2. CASE req'[q] = [req[q] EXCEPT !.pc = "ended", !.fence = row.fence, !.lent = TRUE,
                                            !.queue = <<"canceled">>]
          BY <2>1, <5>2 DEF ReqState
        <5> QED
          BY <2>1, <2>4, <5>1, <5>2 DEF CancelGet, Go, Become
      <4> QED
        BY <3>2, <4>1, <4>2
    <3> QED
      BY <3>1, <3>3 DEF Fencing!fencingVars
  <2>5. ASSUME NEW q \in Req, Saves(q) PROVE \E p \in Req : Fencing!Accept(p)
    <3>1. req[q].fence = row.fence /\ row.fence > 0
      BY <1>2, <2>5 DEF Saves, Has, TaskInv, RowOK
    <3>2. PICK p \in Req : ~req[p].lent /\ req[p].fence = row.fence
      BY <1>2, <3>1 DEF TaskInv, FencesOK
    <3>3. Fencing!Accept(p)
      BY <2>5, <3>1, <3>2 DEF Saves, Fencing!Accept
    <3> QED
      BY <3>3
  <2> QED
    BY <1>2, <2>2, <2>3, <2>4, <2>5, StepShape DEF Fencing!Next
<1> QED
  BY <1>1, <1>2, TaskInvariant, PTL DEF Spec, FencingSpec, Fencing!Spec

-----------------------------------------------------------------------------
\* The row as a lease

\* Where a request tries to get the row, and where its heartbeat task runs.
Acquirers == {"acquire"} \cup Waiting \cup {"remoteTask", "remoteRow", "remoteAcquire"}
Trying == Executing \cup {"cancelled"}

\* Who tries to get the row was never granted it, a heartbeat task does not
\* outlive the try block of its execution, and a released row has no owner.
LeasesOK ==
    /\ \A q \in Req : /\ req[q].pc \in Acquirers => req[q].fence = 0
                      /\ req[q].beat = "on" => req[q].pc \in Trying
    /\ row.state = "released" => row.owner = Nobody

\* Where a request that is in the state r may go.
Moved(r, s) ==
    /\ s.pc \in Busy => r.pc \in Busy \cup {"new"}
    /\ s.pc \in Acquirers => r.pc \in Acquirers \cup {"new", "requesting", "cancelGet"}
    /\ s.beat = "on" => s.pc \in Trying

AllMoved == \A p \in Req : Moved(req[p], req'[p])

\* It goes to the place t of a try block only if it keeps, or starts, its beat there.
MayGo(q, t) ==
    /\ t \in Busy => req[q].pc \in Busy \cup {"new"}
    /\ t \in Acquirers => req[q].pc \in Acquirers \cup {"new", "requesting", "cancelGet"}
    /\ req[q].pc \in Trying => t \in Trying

LEMMA StaysMoved ==
    ASSUME LeasesOK, NEW q \in Req
    PROVE  Moved(req[q], req[q])
  BY DEF LeasesOK, Moved

LEMMA BecomeMoves ==
    ASSUME TaskInv, LeasesOK, NEW q \in Req, NEW s, Become(q, s), Moved(req[q], s)
    PROVE  AllMoved
  BY StaysMoved DEF AllMoved, Become, TaskInv, TypeOK

LEMMA GoMoves ==
    ASSUME TaskInv, LeasesOK, NEW q \in Req, NEW t, Go(q, t), MayGo(q, t)
    PROVE  AllMoved
<1> DEFINE s == [req[q] EXCEPT !.pc = t]
<1>1. s.pc = t /\ s.beat = req[q].beat
  BY DEF TaskInv, TypeOK, ReqState
<1>2. Become(q, s)
  BY DEF Go, Become
<1> HIDE DEF s
<1>3. Moved(req[q], s)
  BY <1>1 DEF Moved, MayGo, LeasesOK
<1> QED
  BY <1>2, <1>3, BecomeMoves

\* Leaving the try block, and being struck by CancelledError.
LEMMA LeavesTry ==
    ASSUME TaskInv, LeasesOK, NEW q \in Req, req[q].pc \in Busy
    PROVE  /\ \A t : Moved(req[q], ToFinally(q, t))
           /\ \A e, t : Moved(req[q], Publish(q, e, t))
           /\ Moved(req[q], Interrupted(q))
<1>1. req[q] \in ReqState
  BY DEF TaskInv, TypeOK
<1>2. ASSUME NEW t
      PROVE  ToFinally(q, t).pc = "finally" /\ ToFinally(q, t).beat # "on"
  BY <1>1 DEF ToFinally, ReqState
<1>3. ASSUME NEW e, NEW t
      PROVE  Publish(q, e, t).pc = "finally" /\ Publish(q, e, t).beat # "on"
  BY <1>1 DEF Publish, ToFinally, ReqState
<1>4. "finally" \notin Acquirers
  BY DEF Acquirers, Waiting
<1>5. Moved(req[q], Interrupted(q))
  <2>1. ASSUME NEW t \in {"cancelled", "ended"}, Interrupted(q) = [req[q] EXCEPT !.pc = t],
               t = "ended" => req[q].pc \notin Trying
        PROVE  Moved(req[q], Interrupted(q))
    <3>1. Interrupted(q).pc = t /\ Interrupted(q).beat = req[q].beat
      BY <1>1, <2>1 DEF ReqState
    <3> QED
      BY <2>1, <3>1 DEF Moved, Acquirers, Waiting, Trying, LeasesOK
  <2>2. CASE Interrupted(q) = ToFinally(q, "released")
    BY <1>2, <1>4, <2>2 DEF Moved
  <2> QED
    BY <2>1, <2>2 DEF Interrupted, Trying, Executing
<1> QED
  BY <1>2, <1>3, <1>4, <1>5 DEF Moved

\* Every step takes the requests where they may go.
LEMMA StepMoves ==
    ASSUME TaskInv, LeasesOK, [Next]_vars
    PROVE  AllMoved
<1>1. /\ req \in [Req -> ReqState] /\ (\A p \in Req : ReqOK(req[p]))
  BY DEF TaskInv, TypeOK
<1>2. ASSUME NEW q \in Req, NEW s, Become(q, s), Moved(req[q], s) PROVE AllMoved
  BY <1>2, BecomeMoves
<1>3. ASSUME NEW q \in Req, NEW t, Go(q, t), MayGo(q, t) PROVE AllMoved
  BY <1>3, GoMoves
<1>4. ASSUME NEW q \in Req, ReceiveSend(q) \/ ReceiveStream(q) PROVE AllMoved
  <2>1. PICK t \in {"acquire", "relayRow"} : Go(q, t) /\ req[q].pc = "new"
    BY <1>4 DEF ReceiveSend, ReceiveStream
  <2>2. MayGo(q, t)
    BY <2>1 DEF MayGo, Trying, Executing
  <2> QED
    BY <1>3, <2>1, <2>2
<1>5. ASSUME NEW q \in Req, AcquireRefused(q) \/ WaitReadRow(q) PROVE AllMoved
  <2>1. PICK t \in Acquirers \cup {"error"} : Go(q, t) /\ req[q].pc \in Acquirers
    BY <1>5 DEF AcquireRefused, WaitReadRow, Acquirers, Waiting
  <2>2. MayGo(q, t)
    BY <2>1 DEF MayGo, Trying, Executing, Acquirers, Waiting, Busy, Canceling
  <2> QED
    BY <1>3, <2>1, <2>2
<1>6. ASSUME NEW q \in Req, RemoteReadRow(q) \/ RequestCancel(q) PROVE AllMoved
  <2>1. PICK t \in {"remoteAcquire", "remoteTask", "error", "cancelGet"} :
          /\ Go(q, t) /\ req[q].pc \in {"remoteRow", "requesting"}
          /\ t = "cancelGet" => req[q].pc = "requesting"
    BY <1>6 DEF RemoteReadRow, RequestCancel
  <2>2. MayGo(q, t)
    BY <2>1 DEF MayGo, Trying, Executing, Acquirers, Waiting, Busy, Canceling
  <2> QED
    BY <1>3, <2>1, <2>2
<1>7. ASSUME NEW q \in Req, Invoke(q) \/ InvokeEnds(q) PROVE AllMoved
  <2>1. PICK t \in Executing : Go(q, t) /\ req[q].pc \in Executing
    BY <1>7 DEF Invoke, InvokeEnds, Executing
  <2>2. MayGo(q, t)
    BY <2>1 DEF MayGo, Trying, Executing, Acquirers, Waiting, Busy
  <2> QED
    BY <1>3, <2>1, <2>2
<1>8. ASSUME NEW q \in Req, Drained(q) \/ DrainTimeout(q) \/ Release(q) PROVE AllMoved
  <2>1. PICK t \in {"release", "ended"} : Go(q, t) /\ req[q].pc \in {"drain", "release"}
    BY <1>8 DEF Drained, DrainTimeout, Release
  <2>2. MayGo(q, t)
    BY <2>1 DEF MayGo, Trying, Executing, Acquirers, Waiting, Busy, Cleaning
  <2> QED
    BY <1>3, <2>1, <2>2
<1>9. ASSUME NEW q \in Req, FinalSave(q) PROVE AllMoved
  <2>1. PICK t \in {"finalRelease", "error"} : Go(q, t) /\ req[q].pc = "finalSave"
    BY <1>9 DEF FinalSave
  <2>2. MayGo(q, t)
    BY <2>1 DEF MayGo, Trying, Executing, Acquirers, Waiting, Busy, Finalizing
  <2> QED
    BY <1>3, <2>1, <2>2
<1>10. ASSUME NEW q \in Req, NEW s, NEW t, Become(q, s), s.pc = t, s.beat = req[q].beat, MayGo(q, t)
       PROVE  AllMoved
  BY <1>2, <1>10 DEF Moved, MayGo, LeasesOK
<1>11. ASSUME NEW q \in Req, WaitReadTask(q) \/ RemoteReadTask(q) PROVE AllMoved
  <2> DEFINE s1 == [req[q] EXCEPT !.pc = "answered", !.told = task]
             s2 == [req[q] EXCEPT !.pc = "waitRow"]
             s3 == [req[q] EXCEPT !.pc = "remoteRow"]
  <2>1. /\ s1.pc = "answered" /\ s2.pc = "waitRow" /\ s3.pc = "remoteRow"
        /\ \A s \in {s1, s2, s3} : s.beat = req[q].beat
    BY <1>1 DEF ReqState
  <2> HIDE DEF s1, s2, s3
  <2>2. PICK s \in {s1, s2, s3} : Become(q, s)
    BY <1>11 DEF WaitReadTask, RemoteReadTask, s1, s2, s3
  <2>3. req[q].pc \in {"waitTask", "remoteTask"}
    BY <1>11 DEF WaitReadTask, RemoteReadTask
  <2>4. MayGo(q, s.pc)
    BY <2>1, <2>3 DEF MayGo, Trying, Executing, Acquirers, Waiting, Busy, Canceling
  <2> QED
    BY <1>10, <2>1, <2>2, <2>4
<1>12. ASSUME NEW q \in Req, AcquireGranted(q) PROVE AllMoved
  <2> DEFINE t == IF req[q].pc = "remoteAcquire" THEN "finalTask"
                  ELSE IF row.state = "absent" THEN "owner" ELSE "reclaimed"
             s == [req[q] EXCEPT !.fence = row.fence + 1, !.cancel = row.cancel, !.pc = t]
  <2>1. s.pc = t /\ s.beat = req[q].beat
    BY <1>1 DEF ReqState
  <2>2. Become(q, s) /\ req[q].pc \in {"acquire", "waitAcquire", "remoteAcquire"}
    BY <1>12 DEF AcquireGranted, Become
  <2>3. t \in {"finalTask", "owner", "reclaimed"}
    OBVIOUS
  <2> HIDE DEF t, s
  <2>4. MayGo(q, t)
    BY <2>2, <2>3 DEF MayGo, Trying, Executing, Acquirers, Waiting, Busy, Canceling
  <2> QED
    BY <1>10, <2>1, <2>2, <2>4
<1>13. ASSUME NEW q \in Req, ReadReclaimed(q) PROVE AllMoved
  <2> DEFINE s1 == [req[q] EXCEPT !.pc = IF @ = "reclaimed" THEN "owner" ELSE "error"]
             s2 == [req[q] EXCEPT !.pc = "closing", !.term = task]
             s3 == [req[q] EXCEPT !.pc = "finalSave",
                                  !.term = IF req[q].kind = "cancel" \/ req[q].cancel THEN "canceled" ELSE "failed"]
  <2>1. \A s \in {s1, s2, s3} : s.beat = req[q].beat /\ s.pc \in {"owner", "error", "closing", "finalSave"}
    BY <1>1 DEF ReqState
  <2> HIDE DEF s1, s2, s3
  <2>2. PICK s \in {s1, s2, s3} : Become(q, s)
    BY <1>13 DEF ReadReclaimed, s1, s2, s3
  <2>3. req[q].pc \in {"reclaimed", "finalTask"}
    BY <1>13 DEF ReadReclaimed
  <2>4. MayGo(q, s.pc)
    BY <2>1, <2>3 DEF MayGo, Trying, Executing, Acquirers, Waiting, Busy, Finalizing
  <2> QED
    BY <1>10, <2>1, <2>2, <2>4
<1>14. ASSUME NEW q \in Req, CloseReclaimed(q) \/ FinalRelease(q) PROVE AllMoved
  <2> DEFINE s1 == [req[q] EXCEPT !.pc = "answered", !.told = req[q].term]
             s2 == [req[q] EXCEPT !.pc = "error"]
  <2>1. \A s \in {s1, s2} : s.beat = req[q].beat /\ s.pc \in {"answered", "error"}
    BY <1>1 DEF ReqState
  <2>2. Go(q, "error") => Become(q, s2)
    BY DEF Go, Become
  <2> HIDE DEF s1, s2
  <2>3. PICK s \in {s1, s2} : Become(q, s)
    BY <1>14, <2>2 DEF CloseReclaimed, FinalRelease, s1
  <2>4. req[q].pc \in {"closing", "finalRelease"}
    BY <1>14 DEF CloseReclaimed, FinalRelease
  <2>5. MayGo(q, s.pc)
    BY <2>1, <2>4 DEF MayGo, Trying, Executing, Acquirers, Waiting, Busy, Finalizing, Cleaning, Canceling, Relaying
  <2> QED
    BY <1>10, <2>1, <2>3, <2>5
<1>15. ASSUME NEW q \in Req, Start(q) PROVE AllMoved
  <2> DEFINE s == [req[q] EXCEPT !.pc = "check1", !.beat = "on", !.queue = Append(@, "submitted")]
  <2>1. s.pc = "check1"
    BY <1>1 DEF ReqState
  <2> HIDE DEF s
  <2>2. Become(q, s) /\ req[q].pc = "owner"
    BY <1>15 DEF Start, s
  <2>3. Moved(req[q], s)
    BY <2>1, <2>2 DEF Moved, Trying, Executing, Acquirers, Waiting, Busy
  <2> QED
    BY <1>2, <2>2, <2>3
<1>16. ASSUME NEW q \in Req, RelayReadRow(q) \/ RelayReadPage(q) \/ RelayTimeout(q) PROVE AllMoved
  <2> DEFINE s1 == [req[q] EXCEPT !.got = @ + 1, !.told = Head(After(q)).event, !.pc = "answered"]
             s2 == [req[q] EXCEPT !.got = @ + 1, !.seen = "none", !.pc = "relayRow"]
             s3 == [req[q] EXCEPT !.pc = "relayRow", !.seen = "none"]
             s4 == [req[q] EXCEPT !.pc = "ended"]
             s5 == [req[q] EXCEPT !.pc = "relayRead", !.seen = row.state]
             s6 == [req[q] EXCEPT !.pc = "error"]
  <2>1. /\ s1.beat = req[q].beat /\ s2.beat = req[q].beat /\ s3.beat = req[q].beat
        /\ s1.pc = "answered" /\ s2.pc = "relayRow" /\ s3.pc = "relayRow"
    BY <1>1 DEF ReqState
  <2>2. /\ s4.beat = req[q].beat /\ s5.beat = req[q].beat /\ s6.beat = req[q].beat
        /\ s4.pc = "ended" /\ s5.pc = "relayRead" /\ s6.pc = "error"
    BY <1>1 DEF ReqState
  <2> HIDE DEF s1, s2, s3, s4, s5, s6
  <2>3. PICK s \in {s1, s2, s3, s4, s5, s6} : Become(q, s)
    BY <1>16 DEF RelayReadRow, RelayReadPage, RelayTimeout, s1, s2, s3, s4, s5, s6
  <2>4. req[q].pc \in {"relayRow", "relayRead"}
    BY <1>16 DEF RelayReadRow, RelayReadPage, RelayTimeout
  <2>5. s.beat = req[q].beat /\ s.pc \in {"answered", "relayRow", "ended", "relayRead", "error"}
    BY <2>1, <2>2
  <2>6. MayGo(q, s.pc)
    BY <2>4, <2>5 DEF MayGo, Trying, Executing, Acquirers, Waiting, Busy, Relaying
  <2> QED
    BY <1>10, <2>3, <2>5, <2>6
<1>17. ASSUME NEW q \in Req, CheckStops(q) \/ Cancelled(q) \/ Shutdown(q) PROVE AllMoved
  <2>1. req[q].pc \in Busy
    BY <1>17 DEF CheckStops, Cancelled, Shutdown, Busy, Executing, Cleaning
  <2> QED
    BY <1>2, <1>17, <2>1, LeavesTry DEF CheckStops, Cancelled, Shutdown
<1>18. ASSUME NEW q \in Req, CheckPasses(q) PROVE AllMoved
  <2>1. req[q].pc \in Executing
    BY <1>18 DEF CheckPasses, Executing
  <2>2. CASE \E t \in Executing : Go(q, t)
    BY <1>3, <2>1, <2>2 DEF MayGo, Trying, Executing, Acquirers, Waiting, Busy
  <2>3. CASE \E e, t : Become(q, Publish(q, e, t))
    BY <1>2, <2>1, <2>3, LeavesTry DEF Busy
  <2> QED
    BY <1>18, <2>2, <2>3 DEF CheckPasses, Executing
<1>19. ASSUME NEW q \in Req, BindSession(q) PROVE AllMoved
  <2> DEFINE s == [req[q] EXCEPT !.pc = "check3"]
  <2>1. s.pc = "check3" /\ s.beat = req[q].beat
    BY <1>1 DEF ReqState
  <2> HIDE DEF s
  <2>2. req[q].pc = "bind" /\ (Become(q, s) \/ Become(q, ToFinally(q, "released")))
    BY <1>19 DEF BindSession, s
  <2>3. MayGo(q, "check3") /\ req[q].pc \in Busy
    BY <2>2 DEF MayGo, Trying, Executing, Acquirers, Waiting, Busy
  <2> QED
    BY <1>2, <1>10, <2>1, <2>2, <2>3, LeavesTry
<1>20. ASSUME NEW q \in Req, Finally(q) PROVE AllMoved
  <2> DEFINE s1 == [req[q] EXCEPT !.pc = "ended"]
             s2 == [req[q] EXCEPT !.pc = "drain",
                                  !.term = IF @ = "released" /\ row.cancel THEN "canceled" ELSE @]
  <2>1. \A s \in {s1, s2} : s.beat = req[q].beat /\ s.pc \in {"ended", "drain"}
    BY <1>1 DEF ReqState
  <2> HIDE DEF s1, s2
  <2>2. PICK s \in {s1, s2} : Become(q, s)
    BY <1>20 DEF Finally, s1, s2
  <2>3. req[q].pc = "finally"
    BY <1>20 DEF Finally
  <2>4. MayGo(q, s.pc)
    BY <2>1, <2>3 DEF MayGo, Trying, Executing, Acquirers, Waiting, Busy, Cleaning
  <2> QED
    BY <1>10, <2>1, <2>2, <2>4
<1>21. ASSUME NEW q \in Req, NEW s, Become(q, s), s.pc = req[q].pc,
              s.beat = req[q].beat \/ s.beat # "on"
       PROVE  AllMoved
  BY <1>2, <1>21, StaysMoved DEF Moved
<1>22. ASSUME NEW q \in Req, Consume(q) PROVE AllMoved
  <2> DEFINE s1 == [req[q] EXCEPT !.queue = <<>>, !.told = NextEvent(q)]
             s2 == [req[q] EXCEPT !.queue = Tail(@)]
             s3 == [req[q] EXCEPT !.broken = TRUE, !.queue = <<>>]
  <2>1. \A s \in {s1, s2, s3} : s.beat = req[q].beat /\ s.pc = req[q].pc
    BY <1>1 DEF ReqState
  <2> HIDE DEF s1, s2, s3
  <2>2. \E s \in {s1, s2, s3} : Become(q, s)
    BY <1>22 DEF Consume, s1, s2, s3
  <2> QED
    BY <1>21, <2>1, <2>2
<1>23. ASSUME NEW q \in Req, Heartbeat(q) \/ HeartbeatRaises(q) PROVE AllMoved
  <2> DEFINE s1 == [req[q] EXCEPT !.beat = "off"]
             s2 == [req[q] EXCEPT !.beat = "raised"]
  <2>1. \A s \in {s1, s2} : s.beat # "on" /\ s.pc = req[q].pc
    BY <1>1 DEF ReqState
  <2>2. UNCHANGED req \/ Become(q, s1) \/ Become(q, s2)
    BY <1>23 DEF Heartbeat, HeartbeatRaises, Become
  <2> HIDE DEF s1, s2
  <2> QED
    BY <1>21, <2>1, <2>2, StaysMoved DEF AllMoved
<1>24. ASSUME NEW q \in Req, ReceiveCancel(q) PROVE AllMoved
  <2> SUFFICES ASSUME NEW p \in Req PROVE Moved(req[p], req'[p])
    BY DEF AllMoved
  <2> DEFINE s == [req[q] EXCEPT !.pc = "requesting", !.home = Active(req[q].rep)]
  <2>1. s.pc = "requesting" /\ s.beat = req[q].beat
    BY <1>1 DEF ReqState
  <2>2. req[q].pc = "new"
    BY <1>24 DEF ReceiveCancel
  <2>3. (p = q /\ req'[p] = s) \/ req'[p] = req[p] \/ (req'[p] = Interrupted(p) /\ req[p].pc \in Busy)
    BY <1>24 DEF ReceiveCancel
  <2> HIDE DEF s
  <2>4. Moved(req[q], s)
    BY <2>1, <2>2 DEF Moved, LeasesOK, Trying, Executing, Acquirers, Waiting
  <2> QED
    BY <2>3, <2>4, StaysMoved, LeavesTry
<1>25. ASSUME NEW q \in Req, CancelGet(q) PROVE AllMoved
  <2> SUFFICES ASSUME NEW p \in Req PROVE Moved(req[p], req'[p])
    BY DEF AllMoved
  <2> DEFINE s1 == [req[q] EXCEPT !.pc = "remoteTask"]
             s2 == [req[q] EXCEPT !.pc = "ended", !.fence = row.fence, !.lent = TRUE,
                                  !.queue = <<"canceled">>]
             s3 == [req[q] EXCEPT !.pc = "ended"]
             s4 == [req[p] EXCEPT !.queue = Append(@, "canceled")]
  <2>1. /\ s1.pc = "remoteTask" /\ s2.pc = "ended" /\ s3.pc = "ended" /\ s4.pc = req[p].pc
        /\ s1.beat = req[q].beat /\ s2.beat = req[q].beat /\ s3.beat = req[q].beat
        /\ s4.beat = req[p].beat
    BY <1>1 DEF ReqState
  <2>2. req[q].pc = "cancelGet"
    BY <1>25 DEF CancelGet
  <2>3. (p = q /\ req'[p] \in {s1, s2, s3}) \/ req'[p] = req[p] \/ req'[p] = s4
    BY <1>1, <1>25 DEF CancelGet, Go, Become
  <2> HIDE DEF s1, s2, s3, s4
  <2>4. \A s \in {s1, s2, s3} : Moved(req[q], s)
    BY <2>1, <2>2 DEF Moved, LeasesOK, Trying, Executing, Acquirers, Waiting, Busy, Canceling
  <2>5. Moved(req[p], s4)
    BY <2>1, StaysMoved DEF Moved
  <2> QED
    BY <2>3, <2>4, <2>5, StaysMoved
<1>26. ASSUME NEW r \in Replica, Crash(r) PROVE AllMoved
  <2> SUFFICES ASSUME NEW p \in Req PROVE Moved(req[p], req'[p])
    BY DEF AllMoved
  <2> DEFINE t == IF req[p].pc \in Done THEN req[p].pc ELSE "crashed"
             s == [req[p] EXCEPT !.pc = t, !.beat = "off", !.queue = <<>>]
  <2>1. s.pc = t /\ s.beat = "off"
    BY <1>1 DEF ReqState
  <2>2. req'[p] = req[p] \/ req'[p] = s
    BY <1>26 DEF Crash
  <2>3. t \in Done
    BY DEF Done
  <2> HIDE DEF s, t
  <2>4. Moved(req[p], s)
    BY <2>1, <2>3 DEF Moved, Done, Acquirers, Waiting, Busy, Executing, Cleaning, Finalizing, Canceling, Relaying
  <2> QED
    BY <2>2, <2>4, StaysMoved
<1>27. CASE Expire \/ UNCHANGED vars
  BY <1>27, StaysMoved DEF Expire, vars, AllMoved
<1>28. ASSUME NEW q \in Req, Proceed(q) PROVE AllMoved
  BY <1>4, <1>5, <1>6, <1>7, <1>8, <1>9, <1>11, <1>12, <1>13, <1>14, <1>15, <1>16, <1>17, <1>18,
     <1>19, <1>20, <1>24, <1>25, <1>28 DEF Proceed
<1> QED
  BY <1>17, <1>22, <1>23, <1>26, <1>27, <1>28 DEF Next

\* q gives the row up.
GaveUp(q) ==
    /\ req[q].pc \in {"closing", "finalRelease", "release"} /\ MayRelease(q)
    /\ \E t \in {"released"} \cup Terminal : row' = Released(q, t)
    /\ req'[q].pc \in Done
    /\ \A p \in Req \ {q} : req'[p] = req[p]

\* Where the row's state and expiry stay as they are.
SameLease ==
    /\ row'.state = row.state /\ row'.live = row.live /\ row'.fence = row.fence
    /\ row'.owner \in {row.owner, Nobody}

\* Nobody but a request that acquires, releases or renews the row, and time,
\* changes the lease.
LEMMA LeaseShape ==
    ASSUME TaskInv, [Next]_vars
    PROVE  \/ SameLease
           \/ \E q \in Req : AcquireGranted(q) \/ GaveUp(q) \/ (Heartbeat(q) /\ Owns(q))
           \/ Expire
<1>1. /\ req \in [Req -> ReqState]
      /\ row \in [owner : Replica \cup {Nobody}, fence : Nat, live : BOOLEAN, cancel : BOOLEAN,
                   state : {"absent", "running", "released"} \cup Terminal]
  BY DEF TaskInv, TypeOK
<1>2. row' = row => SameLease
  BY DEF SameLease
<1>3. ASSUME NEW q \in Req, CloseReclaimed(q) \/ FinalRelease(q) \/ Release(q)
      PROVE  SameLease \/ GaveUp(q)
  <2>1. /\ req[q].pc \in {"closing", "finalRelease", "release"}
        /\ req[q].term \in {"released"} \cup Terminal
    BY <1>1, <1>3 DEF CloseReclaimed, FinalRelease, Release, ReqState
  <2>2. row' = row \/ (MayRelease(q) /\ row' = Released(q, req[q].term))
    BY <1>3 DEF CloseReclaimed, FinalRelease, Release
  <2>3. req'[q].pc \in Done /\ \A p \in Req \ {q} : req'[p] = req[p]
    <3> DEFINE s == [req[q] EXCEPT !.pc = "answered", !.told = req[q].term]
    <3>1. s.pc = "answered"
      BY <1>1 DEF ReqState
    <3> HIDE DEF s
    <3>2. CASE Become(q, s)
      BY <1>1, <3>1, <3>2 DEF Become, Done
    <3>3. CASE Go(q, "ended") \/ Go(q, "error")
      BY <1>1, <3>3 DEF Go, Done, ReqState
    <3> QED
      BY <1>3, <3>2, <3>3 DEF CloseReclaimed, FinalRelease, Release, s
  <2> QED
    BY <1>2, <2>1, <2>2, <2>3 DEF GaveUp
<1>4. ASSUME NEW q \in Req, RequestCancel(q) PROVE SameLease
  BY <1>1, <1>4 DEF RequestCancel, SameLease
<1>5. ASSUME NEW q \in Req, Heartbeat(q), ~Owns(q) PROVE SameLease
  BY <1>2, <1>5 DEF Heartbeat
<1>6. ASSUME NEW r \in Replica, Crash(r) PROVE SameLease
  BY <1>1, <1>6 DEF Crash, SameLease
<1>7. ASSUME NEW q \in Req, Proceed(q)
      PROVE  row' = row \/ AcquireGranted(q) \/ RequestCancel(q)
             \/ CloseReclaimed(q) \/ FinalRelease(q) \/ Release(q)
  <2>1. CASE ReceiveSend(q) \/ ReceiveCancel(q) \/ ReceiveStream(q) \/ AcquireRefused(q)
             \/ WaitReadTask(q) \/ WaitReadRow(q) \/ ReadReclaimed(q) \/ Start(q) \/ CheckStops(q)
    BY <2>1 DEF Others, ReceiveSend, ReceiveCancel, ReceiveStream, AcquireRefused, WaitReadTask,
       WaitReadRow, ReadReclaimed, Start, CheckStops
  <2>2. CASE CheckPasses(q) \/ InvokeEnds(q) \/ BindSession(q) \/ Cancelled(q) \/ Finally(q)
             \/ Drained(q) \/ CancelGet(q) \/ RemoteReadTask(q) \/ RemoteReadRow(q)
             \/ RelayReadRow(q) \/ RelayReadPage(q) \/ RelayTimeout(q)
    BY <2>2 DEF Others, CheckPasses, InvokeEnds, BindSession, Cancelled, Finally, Drained,
       CancelGet, RemoteReadTask, RemoteReadRow, RelayReadRow, RelayReadPage, RelayTimeout
  <2>3. CASE Invoke(q) \/ DrainTimeout(q) \/ FinalSave(q)
    BY <2>3 DEF Invoke, DrainTimeout, FinalSave
  <2> QED
    BY <1>7, <2>1, <2>2, <2>3 DEF Proceed
<1>8. ASSUME NEW q \in Req, Consume(q) \/ HeartbeatRaises(q) \/ Shutdown(q) PROVE row' = row
  BY <1>8 DEF Consume, HeartbeatRaises, Shutdown
<1>9. CASE UNCHANGED vars
  BY <1>2, <1>9 DEF vars
<1> QED
  BY <1>2, <1>3, <1>4, <1>5, <1>6, <1>7, <1>8, <1>9 DEF Next

\* Nobody gets a fence but the one that is granted the row, and who borrows it.
LEMMA FencesMove ==
    ASSUME TaskInv, [Next]_vars, ~\E q \in Req : AcquireGranted(q)
    PROVE  /\ row'.fence = row.fence
           /\ \A p \in Req :
                \/ req'[p].fence = req[p].fence /\ req'[p].lent = req[p].lent
                \/ req[p].fence = 0 /\ req'[p].lent /\ req'[p].pc = "ended"
<1>1. req \in [Req -> ReqState] /\ \A p \in Req : ReqOK(req[p])
  BY DEF TaskInv, TypeOK
<1>2. CASE Still \/ \E q \in Req : Saves(q)
  BY <1>2 DEF Still, Saves
<1>3. ASSUME NEW q \in Req, CancelGet(q)
      PROVE  /\ row'.fence = row.fence
             /\ \A p \in Req :
                  \/ req'[p].fence = req[p].fence /\ req'[p].lent = req[p].lent
                  \/ req[p].fence = 0 /\ req'[p].lent /\ req'[p].pc = "ended"
  <2>1. row' = row /\ req[q].fence = 0
    BY <1>1, <1>3 DEF CancelGet, Others, ReqOK, ShapeOK, Asks
  <2> SUFFICES ASSUME NEW p \in Req
               PROVE  \/ req'[p].fence = req[p].fence /\ req'[p].lent = req[p].lent
                      \/ req[p].fence = 0 /\ req'[p].lent /\ req'[p].pc = "ended"
    BY <2>1
  <2> DEFINE s1 == [req[q] EXCEPT !.pc = "remoteTask"]
             s2 == [req[q] EXCEPT !.pc = "ended", !.fence = row.fence, !.lent = TRUE,
                                  !.queue = <<"canceled">>]
             s3 == [req[q] EXCEPT !.pc = "ended"]
             s4 == [req[p] EXCEPT !.queue = Append(@, "canceled")]
  <2>2. /\ s1.fence = req[q].fence /\ s1.lent = req[q].lent
        /\ s3.fence = req[q].fence /\ s3.lent = req[q].lent
        /\ s4.fence = req[p].fence /\ s4.lent = req[p].lent
        /\ s2.pc = "ended" /\ s2.lent
    BY <1>1 DEF ReqState
  <2>3. (p = q /\ req'[p] \in {s1, s2, s3}) \/ req'[p] = req[p] \/ req'[p] = s4
    BY <1>1, <1>3 DEF CancelGet, Go, Become
  <2> HIDE DEF s1, s2, s3, s4
  <2> QED
    BY <2>1, <2>2, <2>3
<1> QED
  BY <1>2, <1>3, StepShape

\* The invariant of the lease.
LEMMA LeasesStep ==
    ASSUME TaskInv, TaskInv', LeasesOK, [Next]_vars
    PROVE  LeasesOK'
<1>1. AllMoved
  BY StepMoves
<1>2. ASSUME NEW q \in Req PROVE req'[q].beat = "on" => req'[q].pc \in Trying
  BY <1>1 DEF AllMoved, Moved
<1>3. ASSUME NEW q \in Req, req'[q].pc \in Acquirers PROVE req'[q].fence = 0
  <2>1. req[q].fence = 0 /\ (req[q].pc \in Acquirers \cup {"new", "requesting", "cancelGet"})
    BY <1>1, <1>3 DEF AllMoved, Moved, LeasesOK, TaskInv, ReqOK, ShapeOK, Asks
  <2>2. ASSUME NEW p \in Req, AcquireGranted(p) PROVE req'[q] = req[q] \/ p = q
    BY <2>2 DEF AcquireGranted, Become, TaskInv, TypeOK
  <2>3. ~AcquireGranted(q)
    <3> SUFFICES ASSUME AcquireGranted(q) PROVE FALSE
      OBVIOUS
    <3> DEFINE t == IF req[q].pc = "remoteAcquire" THEN "finalTask"
                    ELSE IF row.state = "absent" THEN "owner" ELSE "reclaimed"
               s == [req[q] EXCEPT !.fence = row.fence + 1, !.cancel = row.cancel, !.pc = t]
    <3>1. s.pc = t /\ req \in [Req -> ReqState]
      BY DEF TaskInv, TypeOK, ReqState
    <3>2. t \in {"finalTask", "owner", "reclaimed"} /\ Become(q, s)
      BY DEF AcquireGranted, Become
    <3> HIDE DEF s, t
    <3> QED
      BY <1>3, <3>1, <3>2 DEF Become, Acquirers, Waiting
  <2>4. "ended" \notin Acquirers
    BY DEF Acquirers, Waiting
  <2> QED
    BY <1>3, <2>1, <2>2, <2>3, <2>4, FencesMove
<1>4. row'.state = "released" => row'.owner = Nobody
  <2>1. row \in [owner : Replica \cup {Nobody}, fence : Nat, live : BOOLEAN, cancel : BOOLEAN,
                 state : {"absent", "running", "released"} \cup Terminal]
    BY DEF TaskInv, TypeOK
  <2>2. CASE SameLease
    BY <2>2 DEF SameLease, LeasesOK
  <2>3. ASSUME NEW q \in Req, AcquireGranted(q) PROVE row'.state = "running"
    BY <2>1, <2>3 DEF AcquireGranted, Taken
  <2>4. ASSUME NEW q \in Req, GaveUp(q) PROVE row'.owner = Nobody
    BY <2>1, <2>4 DEF GaveUp, Released
  <2>5. ASSUME NEW q \in Req, Heartbeat(q), Owns(q) PROVE row'.state = "running"
    BY <2>1, <2>5 DEF Heartbeat, Owns
  <2>6. CASE Expire
    BY <2>1, <2>6 DEF Expire, LeasesOK
  <2> QED
    BY <2>2, <2>3, <2>4, <2>5, <2>6, LeaseShape
<1> QED
  BY <1>2, <1>3, <1>4 DEF LeasesOK

\* The lease's invariant holds beside that of the task.
THEOREM LeasesInvariant == Spec => [](TaskInv /\ LeasesOK)
<1>1. ASSUME Init PROVE LeasesOK
  <2>1. \A q \in Req : req[q].pc = "new" /\ req[q].beat = "off" /\ req[q].fence = 0
    BY <1>1 DEF Init
  <2>2. row.state = "absent"
    BY <1>1 DEF Init
  <2> QED
    BY <2>1, <2>2 DEF LeasesOK
<1>2. TaskInv /\ TaskInv' /\ LeasesOK /\ [Next]_vars => LeasesOK'
  BY LeasesStep
<1> QED
  BY <1>1, <1>2, TaskInvariant, PTL DEF Spec

\* The newest fence is that of one request.
LEMMA HolderIs ==
    ASSUME TaskInv, NEW q \in Req, ~req[q].lent, req[q].fence = row.fence, row.fence > 0
    PROVE  Holder = q
<1>1. \A p \in Req : (~req[p].lent /\ req[p].fence = row.fence) <=> p = q
  BY DEF TaskInv, FencesOK
<1> QED
  BY <1>1 DEF Holder

LEMMA HolderIsNext ==
    ASSUME TaskInv', NEW q \in Req, ~req'[q].lent, req'[q].fence = row'.fence, row'.fence > 0
    PROVE  Holder' = q
<1>1. \A p \in Req : (~req'[p].lent /\ req'[p].fence = row'.fence) <=> p = q
  BY DEF TaskInv, FencesOK
<1> QED
  BY <1>1 DEF Holder

\* The row of a running task is a lease, as a LeaseTable has it: it is granted
\* when it is not live, renewed by the heartbeat of its owner also when it has
\* expired, and given up by its owner only.  A fence that a cancellation borrows
\* is no lease.
THEOREM ImplementsLeases == Spec => LeaseSpec
<1> DEFINE owns == [t \in {"task"} |-> IF row.state = "running" THEN Holder ELSE Nobody]
           lives == [t \in {"task"} |-> row.state = "running" /\ row.live]
           relies == {q \in Req : req[q].fence > 0 /\ req[q].pc \in Busy}
<1>1. ASSUME Init PROVE Leases!Init
  <2>1. \A q \in Req : req[q].fence = 0
    BY <1>1 DEF Init
  <2>2. row.state = "absent"
    BY <1>1 DEF Init
  <2>3. relies = {}
    BY <2>1
  <2>4. owns = [t \in {"task"} |-> Nobody]
    BY <2>2
  <2>5. lives = [t \in {"task"} |-> FALSE]
    <3>1. (row.state = "running" /\ row.live) = FALSE
      BY <2>2
    <3> QED
      BY <3>1
  <2> QED
    BY <2>3, <2>4, <2>5 DEF Leases!Init
<1>2. ASSUME TaskInv, LeasesOK, TaskInv', [Next]_vars PROVE [Leases!Next]_Leases!leaseVars
  <2>1. /\ req \in [Req -> ReqState] /\ (\A p \in Req : ReqOK(req[p])) /\ row.fence \in Nat
        /\ row \in [owner : Replica \cup {Nobody}, fence : Nat, live : BOOLEAN, cancel : BOOLEAN,
                     state : {"absent", "running", "released"} \cup Terminal]
        /\ row.state = "running" => row.fence > 0
    BY <1>2 DEF TaskInv, TypeOK, RowOK
  <2>2. AllMoved
    BY <1>2, StepMoves
  <2>3. ASSUME NEW q \in Req, ~AcquireGranted(q), \A p \in Req : ~AcquireGranted(p),
               req'[q].fence > 0, req'[q].pc \in Busy
        PROVE  req[q].fence > 0 /\ req[q].pc \in Busy
    <3>1. req'[q].fence = req[q].fence
      BY <1>2, <2>3, FencesMove DEF Busy, Executing, Cleaning, Finalizing, Waiting, Canceling, Relaying
    <3>2. req[q].pc # "new"
      BY <2>1, <2>3, <3>1 DEF ReqOK, ShapeOK, ReqState
    <3> QED
      BY <2>2, <2>3, <3>1, <3>2 DEF AllMoved, Moved
  <2>4. ASSUME row'.fence = row.fence, row.state = "running", \A p \in Req : ~AcquireGranted(p)
        PROVE  Holder' = Holder
    <3>1. PICK q \in Req : ~req[q].lent /\ req[q].fence = row.fence
      BY <1>2, <2>1, <2>4 DEF TaskInv, FencesOK
    <3>2. ~req'[q].lent /\ req'[q].fence = row'.fence
      BY <1>2, <2>1, <2>4, <3>1, FencesMove
    <3> QED
      BY <1>2, <2>1, <2>4, <3>1, <3>2, HolderIs, HolderIsNext
  <2>5. ASSUME NEW q \in Req, AcquireGranted(q) PROVE Leases!Next
    <3>1. /\ req[q].pc \in {"acquire", "waitAcquire", "remoteAcquire"} /\ ~req[q].lent
          /\ ~(row.state = "running" /\ row.live)
      BY <2>1, <2>5 DEF AcquireGranted, Acquirable, ReqOK, ShapeOK, Done, Terminal
    <3>2. req[q].fence = 0
      BY <1>2, <3>1 DEF LeasesOK, Acquirers, Waiting
    <3>3. row'.state = "running" /\ row'.fence = row.fence + 1 /\ row'.live
      BY <2>1, <2>5 DEF AcquireGranted, Taken
    <3>4. /\ req'[q].fence = row.fence + 1 /\ ~req'[q].lent /\ req'[q].pc \in Busy
          /\ \A p \in Req \ {q} : req'[p] = req[p]
      <4> DEFINE t == IF req[q].pc = "remoteAcquire" THEN "finalTask"
                      ELSE IF row.state = "absent" THEN "owner" ELSE "reclaimed"
                 s == [req[q] EXCEPT !.fence = row.fence + 1, !.cancel = row.cancel, !.pc = t]
      <4>1. s.pc = t /\ s.fence = row.fence + 1 /\ s.lent = req[q].lent
        BY <2>1 DEF ReqState
      <4>2. t \in Busy /\ Become(q, s)
        BY <2>5 DEF AcquireGranted, Become, Busy, Finalizing
      <4> HIDE DEF s, t
      <4> QED
        BY <2>1, <3>1, <4>1, <4>2 DEF Become
    <3>5. Holder' = q
      BY <1>2, <2>1, <3>3, <3>4, HolderIsNext
    <3>6. q \notin relies /\ relies' = relies \cup {q}
      BY <2>1, <3>2, <3>4
    <3>7. owns' = [owns EXCEPT !["task"] = q]
      BY <3>3, <3>5
    <3>8. lives' = [lives EXCEPT !["task"] = TRUE] /\ ~lives["task"]
      BY <3>1, <3>3
    <3>9. Leases!Dated("task")
      BY <3>8 DEF Leases!Dated
    <3>10. Leases!Grant(q, "task")
      BY <3>6, <3>7, <3>8, <3>9 DEF Leases!Grant
    <3> QED
      BY <3>10 DEF Leases!Next
  <2>6. ASSUME NEW q \in Req, GaveUp(q) PROVE Leases!Next
    <3>1. /\ req[q].pc \in {"closing", "finalRelease", "release"}
          /\ row.owner = req[q].rep /\ row.fence = req[q].fence
      BY <2>6 DEF GaveUp, MayRelease
    <3>2. ~req[q].lent /\ row.owner # Nobody
      BY <2>1, <3>1, NobodyAssumption DEF ReqOK, ShapeOK, Done, ReqState
    <3>3. row.state = "running"
      BY <1>2, <2>1, <3>2 DEF LeasesOK, TaskInv, RowOK
    <3>4. Holder = q
      BY <1>2, <2>1, <3>1, <3>2, <3>3, HolderIs
    <3>5. row'.state # "running"
      BY <2>1, <2>6 DEF GaveUp, Released, Terminal
    <3>6. /\ req'[q].pc \notin Busy /\ req[q].pc \in Busy /\ req[q].fence > 0
          /\ \A p \in Req \ {q} : req'[p] = req[p]
      BY <2>1, <2>6, <3>1, <3>3 DEF GaveUp, Done, Busy, Executing, Cleaning, Finalizing, Waiting,
         Canceling, Relaying
    <3>7. q \in relies /\ relies' = relies \ {q}
      BY <3>6
    <3>8. owns["task"] = q /\ owns' = [owns EXCEPT !["task"] = Nobody]
      BY <3>3, <3>4, <3>5
    <3>9. lives' = [lives EXCEPT !["task"] = FALSE]
      BY <3>5
    <3>10. Leases!GiveUp(q, "task")
      BY <3>7, <3>8, <3>9 DEF Leases!GiveUp
    <3> QED
      BY <3>10 DEF Leases!Next
  <2>7. ASSUME NEW q \in Req, Heartbeat(q), Owns(q) PROVE Leases!Next
    <3>1. /\ req[q].pc \in Trying /\ row.state = "running" /\ row.fence = req[q].fence
          /\ req' = req
      BY <1>2, <2>7 DEF Heartbeat, Owns, LeasesOK
    <3>2. ~req[q].lent /\ req[q].pc \in Busy
      BY <2>1, <3>1 DEF ReqOK, ShapeOK, Trying, Done, Busy, Executing, Cleaning
    <3>3. Holder = q
      BY <1>2, <2>1, <3>1, <3>2, HolderIs
    <3>4. row'.state = "running" /\ row'.fence = row.fence /\ row'.live
      BY <2>1, <2>7, <3>1 DEF Heartbeat
    <3>5. Holder' = q
      BY <1>2, <2>1, <3>1, <3>2, <3>4, HolderIsNext
    <3>6. q \in relies /\ relies' = relies
      BY <2>1, <3>1, <3>2
    <3>7. owns["task"] = q /\ owns' = owns
      BY <3>1, <3>3, <3>4, <3>5
    <3>8. lives' = [lives EXCEPT !["task"] = TRUE]
      BY <3>4
    <3>9. Leases!Dated("task")
      BY <3>8 DEF Leases!Dated
    <3>10. Leases!Renew(q, "task")
      BY <3>6, <3>7, <3>9 DEF Leases!Renew
    <3> QED
      BY <3>10 DEF Leases!Next
  <2>8. ASSUME Expire, \A p \in Req : ~AcquireGranted(p) PROVE Leases!Next
    <3>1. row'.state = row.state /\ row'.fence = row.fence /\ ~row'.live /\ req' = req
      BY <2>1, <2>8 DEF Expire
    <3>2. owns' = owns
      BY <2>4, <2>8, <3>1
    <3>3. lives' \in [{"task"} -> BOOLEAN] /\ \A t \in {"task"} : lives'[t] => lives[t]
      BY <2>1, <3>1
    <3>4. relies' = relies
      BY <3>1
    <3>5. Leases!Lapse
      BY <3>2, <3>3, <3>4 DEF Leases!Lapse
    <3> QED
      BY <3>5 DEF Leases!Next
  <2>9. ASSUME SameLease, \A p \in Req : ~AcquireGranted(p) PROVE Leases!Next
    <3>1. relies' \subseteq relies
      BY <2>3, <2>9
    <3>2. owns' = owns
      BY <2>4, <2>9 DEF SameLease
    <3>3. lives' = lives
      BY <2>9 DEF SameLease
    <3>4. Leases!Abandon
      BY <3>1, <3>2, <3>3 DEF Leases!Abandon
    <3> QED
      BY <3>4 DEF Leases!Next
  <2> QED
    BY <1>2, <2>5, <2>6, <2>7, <2>8, <2>9, LeaseShape
<1>3. TaskInv /\ LeasesOK /\ (TaskInv /\ LeasesOK)' /\ [Next]_vars => [Leases!Next]_Leases!leaseVars
  BY <1>2
<1> QED
  BY <1>1, <1>3, LeasesInvariant, PTL DEF Spec, LeaseSpec, Leases!Spec
=============================================================================
