------------------------------ MODULE GraphRun ------------------------------
(***************************************************************************)
(* The turns of one conversation with a LangGraph agent (runtime.py of the *)
(* LangGraph runtime) over the in-memory session provider: the loop of     *)
(* model and tools, with or without a checkpointer, which keeps the        *)
(* messages of the conversation beside the session's history.              *)
(*                                                                         *)
(* LangGraph is external.  With a checkpointer a run starts from the       *)
(* newest checkpoint of its thread and saves one after each node; a node   *)
(* that raises saves none.                                                 *)
(***************************************************************************)
EXTENDS Naturals, Sequences

CONSTANTS Turn,            \* the requests of the conversation
          FirstTurn,       \* the one that has no session_id and creates the session
          MaxIterations,   \* max_iterations, or _DEFAULT_MAX_TOOL_ITERATIONS
          MaxChat          \* max_history_messages

ASSUME GraphAssumption == /\ FirstTurn \in Turn
                          /\ {MaxIterations, MaxChat} \subseteq Nat \ {0}

VARIABLES checkpoints,     \* there is a checkpointer
          chat,            \* the history of the session
          thread,          \* External: the newest checkpoint: messages, model_calls
          turn,            \* turn[t]: its place and the state of its graph
          overlapped       \* two turns have run at the same time (ghost)

graphVars == <<checkpoints, chat, thread, turn, overlapped>>

Said == Turn \X {"user", "call", "result", "answer"} \X (0 .. MaxIterations)
Places == {"new", "memory", "load", "model", "tools", "commit",
           "answered", "iterations", "failed", "gone"}
Over == {"answered", "iterations", "failed", "gone"}

GraphInit ==
    /\ checkpoints \in BOOLEAN
    /\ chat = <<>>
    /\ thread = [messages |-> <<>>, calls |-> 0]
    /\ turn = [t \in Turn |-> [at |-> "new", messages |-> <<>>, calls |-> 0, made |-> 0]]
    /\ overlapped = FALSE

Says(t, what) == <<t, what, turn[t].made>>
\* Mutant: one message too many is kept.
NewlyOneMore(q, n) == IF Len(q) <= n + 1 THEN q ELSE SubSeq(q, Len(q) - n, Len(q))
\* The newest n messages.
Newly(q, n) == IF Len(q) <= n THEN q ELSE SubSeq(q, Len(q) - n + 1, Len(q))
TurnTo(t, place) == turn' = [turn EXCEPT ![t].at = place]
\* The turn is over, after it has called the model made times.
TurnEnds(t, place, made) ==
    turn' = [turn EXCEPT ![t] = [at |-> place, messages |-> <<>>, calls |-> 0, made |-> made]]

\* The graph of t goes to place with message m, and a checkpoint is saved.
NodeEnds(t, place, m, calls) ==
    LET messages == Append(turn[t].messages, m) IN
    /\ turn' = [turn EXCEPT ![t].at = place, ![t].messages = messages, ![t].calls = calls,
                            ![t].made = IF m[2] \in {"call", "answer"} THEN @ + 1 ELSE @]
    /\ thread' = IF checkpoints THEN [messages |-> messages, calls |-> calls] ELSE thread
    /\ UNCHANGED <<checkpoints, chat, overlapped>>

\* invoke or stream_invoke, _resolve_session.  The caller knows the session_id from
\* the first turn's osa.started event, or its response.
StartTurn(t) ==
    /\ turn[t].at = "new"
    /\ t # FirstTurn => turn[FirstTurn].at \notin {"new", "memory"}
    /\ TurnTo(t, "memory")
    /\ overlapped' = (overlapped \/ \E u \in Turn : turn[u].at \notin Over \cup {"new"})
    /\ UNCHANGED <<checkpoints, chat, thread>>

\* Mutant: the history is given to a graph that has it in its checkpoint.
HistoryAlways(t) == chat
\* _initial_state: the history that the input of the graph repeats.
HistoryFor(t) == IF checkpoints /\ t # FirstTurn THEN <<>> ELSE chat

\* _load_memory_context has ended; the instruction is left out.
BuildInput(t) ==
    /\ turn[t].at = "memory"
    /\ turn' = [turn EXCEPT ![t].at = "load",
                            ![t].messages = Append(HistoryFor(t), Says(t, "user"))]
    /\ UNCHANGED <<checkpoints, chat, thread, overlapped>>

\* _initial_state: model_calls of the input.
InputCalls == 0

\* The graph starts: the input is added to the newest checkpoint.
LoadThread(t) ==
    /\ turn[t].at = "load"
    /\ LET messages == thread.messages \o turn[t].messages IN
       /\ turn' = [turn EXCEPT ![t].at = "model", ![t].messages = messages, ![t].calls = InputCalls]
       /\ thread' = IF checkpoints THEN [messages |-> messages, calls |-> InputCalls] ELSE thread
    /\ UNCHANGED <<checkpoints, chat, overlapped>>

\* model_node and route_after_model.
ModelAnswersTurn(t) ==
    /\ turn[t].at = "model"
    /\ NodeEnds(t, "commit", Says(t, "answer"), turn[t].calls + 1)
ModelAsksForTools(t) ==
    /\ turn[t].at = "model" /\ turn[t].calls + 1 < MaxIterations
    /\ NodeEnds(t, "tools", Says(t, "call"), turn[t].calls + 1)
IterationLimit(t) ==
    /\ turn[t].at = "model" /\ turn[t].calls + 1 >= MaxIterations
    /\ TurnEnds(t, "iterations", turn[t].made + 1)
    /\ UNCHANGED <<checkpoints, chat, thread, overlapped>>

\* The ToolNode; a tool that fails or times out has an error as its result.
ToolsReturn(t) ==
    /\ turn[t].at = "tools"
    /\ NodeEnds(t, "model", Says(t, "result"), turn[t].calls)

\* The model or the graph raises, or the invocation runs out of time; or the
\* answer is empty, which is found when its checkpoint is saved.
TurnFails(t) ==
    /\ turn[t].at \in {"model", "tools", "commit"}
    /\ TurnEnds(t, "failed", 0)
    /\ UNCHANGED <<checkpoints, chat, thread, overlapped>>

\* The consumer of a stream goes away at a yield; or invoke is cancelled.
TurnAbandoned(t) ==
    /\ turn[t].at \in {"memory", "load", "model", "tools", "commit"}
    /\ TurnEnds(t, "gone", 0)
    /\ UNCHANGED <<checkpoints, chat, thread, overlapped>>

\* The exchange is added to the session, which is saved.
CommitTurn(t) ==
    /\ turn[t].at = "commit"
    /\ chat' = Newly(chat \o <<<<t, "user", 0>>, turn[t].messages[Len(turn[t].messages)]>>, MaxChat)
    /\ TurnEnds(t, "answered", 0)
    /\ UNCHANGED <<checkpoints, thread, overlapped>>

GraphNext ==
    \E t \in Turn :
        \/ StartTurn(t) \/ BuildInput(t) \/ LoadThread(t) \/ ModelAnswersTurn(t)
        \/ ModelAsksForTools(t) \/ IterationLimit(t) \/ ToolsReturn(t) \/ TurnFails(t)
        \/ TurnAbandoned(t) \/ CommitTurn(t)

GraphTypeOK ==
    /\ {checkpoints, overlapped} \subseteq BOOLEAN
    /\ chat \in Seq(Said) /\ Len(chat) <= MaxChat
    /\ thread.messages \in Seq(Said) /\ thread.calls \in Nat
    /\ \A t \in Turn : /\ turn[t].at \in Places /\ turn[t].messages \in Seq(Said)
                       /\ {turn[t].calls, turn[t].made} \subseteq 0 .. MaxIterations

\* What a model is given has no message twice, and, as long as no two turns
\* overlap, all of the history: the checkpoint and the session do not diverge, nor
\* repeat each other, whatever turns failed in between.
HistorySeenOnce ==
    \A t \in Turn : turn[t].at = "model" =>
        LET messages == turn[t].messages IN
        /\ \A i, j \in DOMAIN messages : messages[i] = messages[j] => i = j
        /\ ~overlapped => \A i \in DOMAIN chat : \E j \in DOMAIN messages : messages[j] = chat[i]
=============================================================================
