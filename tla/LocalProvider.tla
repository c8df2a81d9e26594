---------------------------- MODULE LocalProvider ----------------------------
(***************************************************************************)
(* LocalDeploymentProvider of deployment.py: deployments as subprocesses.  *)
(* deploy runs under a lock and waits for the process to become healthy;   *)
(* restart stops the deployment first, without the lock, then deploys and  *)
(* gives the new process the old id; stop and status never suspend.        *)
(*                                                                         *)
(* DeploymentService lets deployments of one agent wait for each other,    *)
(* and likewise stop and restart of one deployment, but a deploy and a     *)
(* restart overlap.  A terminated process is taken to exit.                *)
(***************************************************************************)
EXTENDS Naturals, FiniteSets

CONSTANTS MaxDeployments,  \* bound of the deployments made; their ids are 1, 2, ... (uuid4)
          Caller,          \* the calls of the provider
          Orders,          \* what the callers ask, to choose from
          NoCaller

VARIABLES made,            \* the number of deployments made
          dep,             \* dep[d]: status, and the process that is kept for d
          order,           \* order[c]: the operation and the deployment it is for
          step,            \* step[c]: what c waits for
          deployLock,      \* the caller in deploy
          result           \* result[c]: the deployment or the error c got

localVars == <<made, dep, order, step, deployLock, result>>

DepRow == [status : {"unknown", "starting", "running", "stopped", "failed"},
           process : {"none", "young", "healthy", "exited"}]
Unknown == [status |-> "unknown", process |-> "none"]
Slot == 1 .. MaxDeployments
NoSlot == 0
KeyError == MaxDeployments + 1

\* of: the deployment, 0 where the operation names none.
Operation == {"deploy", "restart", "stop", "status", "shutdown"}
ASSUME LocalAssumption ==
    /\ MaxDeployments \in Nat /\ NoCaller \notin Caller
    /\ Orders \subseteq [Caller -> [op : Operation, of : Nat]]

LocalInit ==
    /\ made = 0
    /\ dep = [d \in Slot |-> Unknown]
    /\ order \in Orders
    /\ step = [c \in Caller |-> "new"]
    /\ deployLock = NoCaller
    /\ result = [c \in Caller |-> NoSlot]

Alive(d) == dep[d].process \in {"young", "healthy"}
Known(d) == d \in Slot /\ dep[d].status # "unknown"

Return(c, d) == /\ step' = [step EXCEPT ![c] = "done"]
                /\ result' = [result EXCEPT ![c] = d]
                /\ deployLock' = IF deployLock = c THEN NoCaller ELSE deployLock
Wait(c, for) == step' = [step EXCEPT ![c] = for] /\ UNCHANGED result

\* The deployment c starts again; NoSlot for a deploy.
Target(c) == IF order[c].op = "restart" THEN order[c].of ELSE NoSlot

\* The end of restart: the new deployment d takes the id that was restarted.
Rekeyed(c, rows, d) ==
    IF Target(c) \in {NoSlot, d} THEN rows
    ELSE [rows EXCEPT ![Target(c)] = rows[d], ![d] = Unknown]
ReturnDeployed(c, rows, d) ==
    /\ dep' = Rekeyed(c, rows, d)
    /\ Return(c, IF Target(c) = NoSlot THEN d ELSE Target(c))

\* Mutant: deploy does not wait for the lock.
LockFreeAlways(c) == TRUE
LockFree(c) == deployLock = NoCaller

\* stop: the process is terminated and waited for.
Stopped(rows, d) == [rows EXCEPT ![d] = [status |-> "stopped", process |-> "none"]]

\* _deploy, up to the wait for the start: a running deployment is returned as it
\* is; a spawn may fail.
DeployBody(c, rows) ==
    \/ /\ \E d \in Slot : rows[d].status = "running" /\ ReturnDeployed(c, rows, d)
       /\ UNCHANGED made
    \/ /\ \A d \in Slot : rows[d].status # "running"
       /\ made < MaxDeployments /\ made' = made + 1
       /\ LET d == made' IN
               \/ ReturnDeployed(c, [rows EXCEPT ![d] = [status |-> "failed", process |-> "none"]], d)
               \/ /\ dep' = [rows EXCEPT ![d] = [status |-> "starting", process |-> "young"]]
                  /\ step' = [step EXCEPT ![c] = "startup"]
                  /\ result' = [result EXCEPT ![c] = d]
                  /\ deployLock' = c

LocalDeploy(c) ==
    /\ step[c] = "new" /\ order[c].op = "deploy"
    /\ \/ LockFree(c) /\ DeployBody(c, dep)
       \/ ~LockFree(c) /\ Wait(c, "lock") /\ UNCHANGED <<made, dep, deployLock>>
    /\ UNCHANGED order

LocalRestart(c) ==
    /\ step[c] = "new" /\ order[c].op = "restart"
    /\ \/ ~Known(Target(c)) /\ Return(c, KeyError) /\ UNCHANGED <<made, dep>>
       \/ Known(Target(c)) /\ LockFree(c) /\ DeployBody(c, Stopped(dep, Target(c)))
       \/ /\ Known(Target(c)) /\ ~LockFree(c)
          /\ dep' = Stopped(dep, Target(c))
          /\ Wait(c, "lock") /\ UNCHANGED <<made, deployLock>>
    /\ UNCHANGED order

LocalAcquire(c) ==
    /\ step[c] = "lock" /\ LockFree(c)
    /\ DeployBody(c, dep)
    /\ UNCHANGED order

\* _await_startup returns: healthy, exited, stopped meanwhile, or out of time (_reap).
LocalStarted(c) ==
    /\ step[c] = "startup"
    /\ LET d == result[c] IN
       \/ /\ dep[d].process = "healthy"
          /\ ReturnDeployed(c, [dep EXCEPT ![d].status = "running"], d)
       \/ /\ dep[d].process # "healthy"
          /\ ReturnDeployed(c, [dep EXCEPT ![d] = [status |-> "failed", process |-> "none"]], d)
    /\ UNCHANGED <<made, order>>

LocalStop(c) ==
    /\ step[c] = "new" /\ order[c].op = "stop"
    /\ \/ ~Known(order[c].of) /\ Return(c, KeyError) /\ UNCHANGED dep
       \/ Known(order[c].of) /\ dep' = Stopped(dep, order[c].of) /\ Return(c, order[c].of)
    /\ UNCHANGED <<made, order>>

\* status (and list_deployments): a process that has exited fails its deployment.
LocalStatus(c) ==
    /\ step[c] = "new" /\ order[c].op = "status"
    /\ \/ ~Known(order[c].of) /\ Return(c, KeyError) /\ UNCHANGED dep
       \/ /\ Known(order[c].of) /\ Return(c, order[c].of)
          /\ dep' = IF dep[order[c].of] = [status |-> "running", process |-> "exited"]
                    THEN [dep EXCEPT ![order[c].of] = [status |-> "failed", process |-> "none"]]
                    ELSE dep
    /\ UNCHANGED <<made, order>>

LocalShutdown(c) ==
    /\ step[c] = "new" /\ order[c].op = "shutdown"
    /\ dep' = [d \in Slot |-> IF dep[d].status \in {"running", "starting"}
                              THEN [status |-> "stopped", process |-> "none"] ELSE dep[d]]
    /\ Return(c, NoSlot)
    /\ UNCHANGED <<made, order>>

\* External: the subprocess.
ProcessHealthy(d) == /\ dep[d].process = "young" /\ dep' = [dep EXCEPT ![d].process = "healthy"]
                     /\ UNCHANGED <<made, order, step, deployLock, result>>
ProcessExits(d) == /\ Alive(d) /\ dep' = [dep EXCEPT ![d].process = "exited"]
                   /\ UNCHANGED <<made, order, step, deployLock, result>>

LocalNext ==
    \/ \E c \in Caller : \/ LocalDeploy(c) \/ LocalRestart(c) \/ LocalAcquire(c)
                         \/ LocalStarted(c) \/ LocalStop(c) \/ LocalStatus(c) \/ LocalShutdown(c)
    \/ \E d \in Slot : ProcessHealthy(d) \/ ProcessExits(d)

LocalTypeOK ==
    /\ made \in 0 .. MaxDeployments
    /\ dep \in [Slot -> DepRow]
    /\ step \in [Caller -> {"new", "lock", "startup", "done"}]
    /\ deployLock \in Caller \cup {NoCaller}
    /\ result \in [Caller -> Slot \cup {NoSlot, KeyError}]

\* One agent never has two processes: neither a deploy beside a restart nor a
\* restart of an older deployment starts a twin.
OneProcess == Cardinality({d \in Slot : Alive(d)}) <= 1
=============================================================================
