---------------------------- MODULE SessionStore ----------------------------
(***************************************************************************)
(* Conversation sessions: the in-memory SessionManager of session.py and   *)
(* the SQL providers (sqlite_session.py, postgres_session.py), which       *)
(* compare a revision when they save.                                      *)
(*                                                                         *)
(* The in-memory provider hands out the object it keeps, so session[s] is  *)
(* that object and all callers share it, also after it has been deleted.   *)
(* The SQL providers hand out copies, and session[s] is the row.           *)
(***************************************************************************)
EXTENDS RuntimeSetup, Sequences

CONSTANTS SessionId,
          User,            \* the owners: (user_id, tenant_id)
          Message,         \* the messages and events
          Ttl,             \* ttl_seconds
          MaxHistory,      \* max_history_messages
          MinEvents        \* _MIN_EVENTS

ASSUME SessionAssumption == {Ttl, MaxHistory, MinEvents} \subseteq Nat \ {0}

VARIABLES session,         \* session[s]: the object or row of s
          stored           \* the ids that are in the dictionary or table

Session == [owner : User, active : Nat, revision : Nat,
            history : Seq(Message), events : Seq(Message)]

Durable == config.sessions = "sql"

\* Mutant: one element too many.
NewestOneMore(q, n) == IF Len(q) <= n + 1 THEN q ELSE SubSeq(q, Len(q) - n, Len(q))
\* The last n elements of q.
Newest(q, n) == IF Len(q) <= n THEN q ELSE SubSeq(q, Len(q) - n + 1, Len(q))

Fresh(u) == [owner |-> u, active |-> now, revision |-> 0,
             history |-> <<>>, events |-> <<>>]

\* Mutant: the bound drops the newest messages.
WithMessagesOldest(s, ms) == [s EXCEPT !.history = SubSeq(@ \o ms, 1, MaxHistory), !.active = now]

\* Session.add_message, once for each of the messages ms.
WithMessages(s, ms) == [s EXCEPT !.history = Newest(@ \o ms, MaxHistory), !.active = now]

EventBound == IF MinEvents > 2 * MaxHistory THEN MinEvents ELSE 2 * MaxHistory

\* Mutant: the oldest two events are kept.
WithEventsFirst(s, es) == [s EXCEPT !.events = SubSeq(es, 1, IF Len(es) < 2 THEN Len(es) ELSE 2)]
\* _persist_events: the event list of the framework, bounded, replaces the stored one.
WithEvents(s, es) == [s EXCEPT !.events = Newest(es, EventBound)]

Expired(s) == now - session[s].active >= Ttl
Found(s) == s \in stored /\ ~Expired(s)

\* Mutant: the owner is not compared.
OwnedByAnybody(s, u) == u \in User
OwnedBy(s, u) == session[s].owner = u

\* Mutant: the revision is not compared.
UnchangedOrOld(s, copy) == s \in stored
\* The UPDATE of the SQL providers finds its row: nobody saved or deleted it.
Unchanged(s, copy) == s \in stored /\ session[s].revision = copy.revision

\* A session as save leaves it.
Saved(copy) == [copy EXCEPT !.active = now, !.revision = @ + 1]

\* save of a copy by a SQL provider.
SaveCopy(s, copy) == Unchanged(s, copy) /\ session' = [session EXCEPT ![s] = Saved(copy)]
                     /\ UNCHANGED stored

\* save of the shared object, changed to new, by the in-memory provider: it is
\* put into the dictionary again.
SaveShared(s, new) == session' = [session EXCEPT ![s] = Saved(new)]
                      /\ stored' = stored \cup {s}
=============================================================================
