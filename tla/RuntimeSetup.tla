---------------------------- MODULE RuntimeSetup ----------------------------
(***************************************************************************)
(* What an agent runtime is started with, and the clock it reads.          *)
(* The operator's environment and the agent's definition select the        *)
(* framework and one provider for each store; none changes at run time.    *)
(***************************************************************************)
EXTENDS Naturals

CONSTANTS Configs,      \* the set-ups that are explored
          MaxClock      \* bound on the clock

Setups == [runtime : {"adk", "langgraph"},
           sessions : {"memory", "sql"},
           limiter : {"off", "memory", "sql"},
           memory : {"off", "memory", "sql"}]

ASSUME ConfigsAssumption == Configs \subseteq Setups
ASSUME ClockAssumption == MaxClock \in Nat

VARIABLES config,       \* the set-up
          now           \* the wall clock of every process and of the database

SetupInit == config \in Configs /\ now = 0

\* Time passes.
Tick == now < MaxClock /\ now' = now + 1 /\ UNCHANGED config
=============================================================================
