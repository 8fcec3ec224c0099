------------------------------- MODULE KillDemo -------------------------------
(***************************************************************************)
(* Killing a worker in the live demo: POST /api/demo/kill-worker of the    *)
(* control plane, Docker's restart policy and the safety-net restart, and  *)
(* what ContainerStatus.tsx and SystemInfo.tsx show of the containers.     *)
(*                                                                         *)
(* The calls of docker block the control plane's event loop, so that the   *)
(* handler is one step up to its await of the visitor's country.           *)
(***************************************************************************)
EXTENDS Naturals, FiniteSets

CONSTANTS
  Worker,        \* ckpt-worker-0 and ckpt-worker-1
  RestartAlways, \* Docker restarts a killed container by itself (Linux)
  Faults,        \* docker kill and docker start may time out
  None,          \* no data yet
  MaxKills       \* bound on the kills

KillAssumption == Cardinality(Worker) = 2 /\ {RestartAlways, Faults} \subseteq BOOLEAN /\ MaxKills \in Nat

VARIABLES
  container,  \* "running" or "exited"
  run,        \* "active" or "FAILED"
  lookups,    \* handlers that wait for the country
  nets,       \* tasks that restart the containers after 5 s
  kills,
  data,       \* ContainerStatus: state by container, or None
  system      \* SystemInfo: container_count, or None

vars == <<container, run, lookups, nets, kills, data, system>>

Running == {c \in Worker : container[c] = "running"}

Init ==
  /\ container = [c \in Worker |-> "running"] /\ run = "active"
  /\ lookups = 0 /\ nets = 0 /\ kills = 0 /\ data = None /\ system = None
-----------------------------------------------------------------------------
Call(c) == container[c] = "running" /\ kills < MaxKills /\ kills' = kills + 1
\* docker kill of c succeeds, the one of the other worker does not time out; the run
\* is failed, its workers are marked dead and their leases cleared.
demo_kill_worker(c) ==
  /\ Call(c) /\ container' = [w \in Worker |-> "exited"]
  /\ run' = "FAILED" /\ lookups' = lookups + 1
  /\ UNCHANGED <<nets, data, system>>

\* subprocess.TimeoutExpired, 504: one of the calls took more than 10 s.
KillTimesOut(c) ==
  /\ Faults /\ Call(c)
  /\ \E victims \in {{}, {c}, Worker} :
       container' = [w \in Worker |-> IF w \in victims THEN "exited" ELSE container[w]]
  /\ UNCHANGED <<run, lookups, nets, data, system>>

\* The country is known; _restart is scheduled.
ScheduleRestart ==
  /\ lookups > 0 /\ lookups' = lookups - 1 /\ nets' = nets + 1
  /\ UNCHANGED <<container, run, kills, data, system>>

Started(set) ==
  /\ nets > 0 /\ nets' = nets - 1
  /\ container' = [w \in Worker |-> IF w \in set THEN "running" ELSE container[w]]
  /\ UNCHANGED <<run, lookups, kills, data, system>>
restart_OnlyVictim == \E c \in Worker : Started({c})
\* docker start of both; after a timeout the rest is not done.
restart == Started(Worker) \/ (Faults /\ (Started({}) \/ \E c \in Worker : Started({c})))

\* restart: always
DockerRestarts(c) ==
  /\ RestartAlways /\ container[c] = "exited"
  /\ container' = [container EXCEPT ![c] = "running"]
  /\ UNCHANGED <<run, lookups, nets, kills, data, system>>

\* The restarted workers register, load the checkpoint and resume the run.
Resume ==
  /\ run = "FAILED" /\ Running = Worker /\ run' = "active"
  /\ UNCHANGED <<container, lookups, nets, kills, data, system>>
-----------------------------------------------------------------------------
\* demo_containers: docker ps -a, or an empty list when docker does not answer.
PollContainers == data' = container /\ UNCHANGED <<container, run, lookups, nets, kills, system>>
ContainersFail == Faults /\ data' = [c \in {} |-> "running"] /\ UNCHANGED <<container, run, lookups, nets, kills, system>>

\* demo_system_info: docker ps -q counts running containers, of the workers here.
PollSystem == system' = Cardinality(Running) /\ UNCHANGED <<container, run, lookups, nets, kills, data>>

\* The list of the panel: the colour of each container, or "Waiting for container data...".
Dots == IF data = None THEN {} ELSE {<<c, IF data[c] = "running" THEN "ok" ELSE "err">> : c \in DOMAIN data}
-----------------------------------------------------------------------------
Next ==
  \/ ScheduleRestart \/ restart \/ Resume \/ PollContainers \/ ContainersFail \/ PollSystem
  \/ \E c \in Worker : demo_kill_worker(c) \/ KillTimesOut(c) \/ DockerRestarts(c)

Spec == Init /\ [][Next]_vars
-----------------------------------------------------------------------------
\* Types.
TypeOK ==
  /\ container \in [Worker -> {"running", "exited"}] /\ run \in {"active", "FAILED"}
  /\ kills \in 0..MaxKills /\ {lookups, nets} \subseteq Nat /\ lookups + nets <= kills
  /\ Dots \subseteq Worker \X {"ok", "err"}

\* A run that is shown as active has its workers up: a kill fails the run at once,
\* and it resumes only when both are back.
ActiveIsUp == run = "active" => Running = Worker

\* It holds together with the type of what it is about.
KillInv == ActiveIsUp /\ container \in [Worker -> {"running", "exited"}]

\* The run is active and both panels agree with Docker.
PanelsAgree == run = "active" /\ Dots = Worker \X {"ok"} /\ system = Cardinality(Worker)
=============================================================================
