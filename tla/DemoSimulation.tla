--------------------------- MODULE DemoSimulation ---------------------------
(***************************************************************************)
(* The browser-only recovery demo, frontend/src/pages/DemoPage.tsx: a      *)
(* simulated trainer that counts steps, saves every SaveEvery of them, is  *)
(* killed by a click and is brought back by two timers.                    *)
(*                                                                         *)
(* What makes it hard is React's scheduling.  An interval queues an update *)
(* of the step; a later render applies it; the effect that writes the      *)
(* checkpoint of that step runs later still, with the values it closed     *)
(* over.  A click handler runs between any two of these with the values of *)
(* the last render, and its own render first runs the effect that is still *)
(* pending.  LateEffects says whether a click may come in that window      *)
(* (react-dom 18 with createRoot allows it).                               *)
(***************************************************************************)
EXTENDS Integers, Sequences

CONSTANTS
  Worker,      \* sim-worker-0, sim-worker-1
  None,        \* null
  TickStep,    \* steps per interval tick: 5
  LogEvery,    \* a log line every 25 steps
  SaveEvery,   \* a checkpoint every 50 steps
  TimelineCap, \* entries kept of the timeline: 18
  LogCap,      \* lines kept of the log: 14
  LateEffects, \* a handler may run before the effect of the last render
  MaxStep,     \* bound on the step counter
  MaxQueued,   \* bound on the ticks queued and not yet rendered
  MaxElapsed   \* bound on the tenths of a second counted during recovery

DemoAssumption ==
  /\ None \notin Worker /\ None \notin Nat /\ Worker # {}
  /\ {TickStep, LogEvery, SaveEvery, TimelineCap, LogCap} \subseteq Nat \ {0}
  /\ {MaxStep, MaxQueued, MaxElapsed} \subseteq Nat
  /\ LateEffects \in BOOLEAN

VARIABLES
  phase, step, checkpoints, timeline, logs,               \* useState
  killedWorker, killStep, restoredStep, recoverySeconds,  \* useState
  lastCheckpointRef, lastLogStepRef, nextEventIdRef,      \* useRef
  timers,   \* recoveryTimersRef: pending timeouts, with the step they closed over
  queued,   \* ticks queued by the interval, not yet rendered
  effect    \* the training effect of the last render, if it has not run yet

refs == <<lastCheckpointRef, lastLogStepRef, nextEventIdRef>>
feed == <<checkpoints, timeline, logs>>
kill == <<killedWorker, killStep, restoredStep>>
vars == <<phase, step, feed, kill, recoverySeconds, refs, timers, queued, effect>>

SimulationPhase == {"idle", "running", "failed", "recovering", "recovered"}
RECOVERY_SECONDS == 32   \* tenths of a second, setRecoverySeconds(3.2)

\* Nothing to run: what the effect does when the page is not training.
NoEffect == [training |-> FALSE, step |-> 0]

Values(s) == {s[i] : i \in 1..Len(s)}

Slice_OneMore(s, n) == SubSeq(s, IF Len(s) > n THEN Len(s) - n ELSE 1, Len(s))
\* array.slice(-n)
Slice(s, n) == SubSeq(s, IF Len(s) > n THEN Len(s) - n + 1 ELSE 1, Len(s))

isTraining == phase \in {"running", "recovered"}

Entry(id, label) == [id |-> id, label |-> label]
addEvent(tl, id, label) == Slice(Append(tl, Entry(id, label)), TimelineCap)
addLog(lg, line) == Slice(Append(lg, line), LogCap)
Line(tag, n) == [tag |-> tag, step |-> n]

InitialLogs == <<Line("initialized", 0), Line("no backend", 0), Line("workers started", 0)>>

Init ==
  /\ phase = "idle" /\ step = 0
  /\ checkpoints = <<>> /\ timeline = <<>> /\ logs = <<>>
  /\ killedWorker = None /\ killStep = None /\ restoredStep = None
  /\ recoverySeconds = 0
  /\ lastCheckpointRef = 0 /\ lastLogStepRef = 0 /\ nextEventIdRef = 0
  /\ timers = {} /\ queued = 0 /\ effect = NoEffect
-----------------------------------------------------------------------------
\* The training effect: on the closure e, from the lists and refs it finds.
RoundDown(n, every) == (n \div every) * every

Logs(e, last) == e.training /\ e.step # 0 /\ RoundDown(e.step, LogEvery) > last

Saves(e, last) ==
  /\ e.training /\ e.step # 0
  /\ RoundDown(e.step, SaveEvery) >= SaveEvery
  /\ RoundDown(e.step, SaveEvery) > last

TrainingEffect(e, ckpts, tl, lg, lastCkpt, lastLog, id) ==
  LET logStep == RoundDown(e.step, LogEvery)
      ckptStep == RoundDown(e.step, SaveEvery)
      lg1 == IF Logs(e, lastLog) THEN addLog(lg, Line("step", logStep)) ELSE lg
      saves == Saves(e, lastCkpt)
  IN /\ lastLogStepRef' = IF Logs(e, lastLog) THEN logStep ELSE lastLog
     /\ lastCheckpointRef' = IF saves THEN ckptStep ELSE lastCkpt
     /\ checkpoints' = IF saves THEN Append(ckpts, ckptStep) ELSE ckpts
     /\ timeline' = IF saves THEN addEvent(tl, id, Line("saved", ckptStep)) ELSE tl
     /\ nextEventIdRef' = IF saves THEN id + 1 ELSE id
     /\ logs' = IF saves THEN addLog(lg1, Line("committed", ckptStep)) ELSE lg1

\* A handler may run now: effects are late, or the last render's has run.
Settled == LateEffects \/ effect = NoEffect

\* The interval of a training page.
Tick ==
  /\ isTraining /\ queued < MaxQueued /\ step + (queued + 1) * TickStep <= MaxStep
  /\ queued' = queued + 1
  /\ UNCHANGED <<phase, step, feed, kill, recoverySeconds, refs, timers, effect>>

\* React renders the queued ticks; the effect of the previous render has run.
Render ==
  /\ queued > 0 /\ effect = NoEffect
  /\ step' = step + queued * TickStep
  /\ queued' = 0
  /\ effect' = [training |-> isTraining, step |-> step']
  /\ UNCHANGED <<phase, feed, kill, recoverySeconds, refs, timers>>

RunEffect ==
  /\ effect # NoEffect
  /\ TrainingEffect(effect, checkpoints, timeline, logs,
                    lastCheckpointRef, lastLogStepRef, nextEventIdRef)
  /\ effect' = NoEffect
  /\ UNCHANGED <<phase, step, kill, recoverySeconds, timers, queued>>

\* The interval that counts the seconds of a failure.
Elapse ==
  /\ phase \in {"failed", "recovering"} /\ recoverySeconds < MaxElapsed
  /\ recoverySeconds' = recoverySeconds + 1
  /\ UNCHANGED <<phase, step, feed, kill, refs, timers, queued, effect>>
-----------------------------------------------------------------------------
\* startSimulation: clears the timers and resets every state and ref; then the pending
\* effect of the old run.
startSimulation ==
  /\ Settled
  /\ phase' = "running" /\ step' = 0 /\ queued' = 0 /\ timers' = {}
  /\ killedWorker' = None /\ killStep' = None /\ restoredStep' = None
  /\ recoverySeconds' = 0
  /\ TrainingEffect(effect, <<>>, <<Entry(0, Line("started", 0))>>, InitialLogs, 0, 0, 1)
  /\ effect' = NoEffect

latestCheckpoint == checkpoints[Len(checkpoints)]
canKill == phase = "running" /\ checkpoints # <<>>

\* A kill at step `at' whose two timeouts, 900 ms and 3200 ms, restore `target'.
\* The handler sees the lists of the last render; its render runs the pending effect.
Killed(w, at, target) ==
  /\ canKill /\ Settled
  /\ timers' = {[at |-> "detect", target |-> target], [at |-> "restore", target |-> target]}
  /\ phase' = "failed"
  /\ killedWorker' = w /\ killStep' = at /\ restoredStep' = None
  /\ recoverySeconds' = 0
  /\ TrainingEffect(effect, checkpoints, addEvent(timeline, nextEventIdRef, Line("killed", step)),
                    addLog(logs, Line("failure", step)),
                    lastCheckpointRef, lastLogStepRef, nextEventIdRef + 1)
  /\ effect' = NoEffect
  /\ UNCHANGED <<step, queued>>
Kill_FirstSave(w) == Killed(w, step, checkpoints[1])

killSimulatedWorker(w) == Killed(w, step, latestCheckpoint)

\* The 900 ms timeout; `left' are the timers that stay.
Detected(t, left) ==
  /\ t.at = "detect"
  /\ timers' = left
  /\ phase' = "recovering"
  /\ timeline' = addEvent(timeline, nextEventIdRef, Line("detected", 0))
  /\ nextEventIdRef' = nextEventIdRef + 1
  /\ logs' = addLog(logs, Line("loading", t.target))
  /\ UNCHANGED <<step, checkpoints, kill, recoverySeconds, lastCheckpointRef,
                 lastLogStepRef, queued, effect>>
Detect_ClearsAll == \E t \in timers : Detected(t, {})
DetectTimeout == \E t \in timers : Detected(t, timers \ {t})

\* The 3200 ms timeout.  Timeouts fire in the order of their delays; a tick that
\* is still queued is overwritten.
Restored(t) ==
  /\ t.at = "restore" /\ \A u \in timers : u.at = "restore"
  /\ timers' = timers \ {t}
  /\ step' = t.target /\ queued' = 0 /\ restoredStep' = t.target
  /\ phase' = "recovered"
  /\ recoverySeconds' = RECOVERY_SECONDS
  /\ timeline' = addEvent(timeline, nextEventIdRef, Line("resumed", t.target))
  /\ nextEventIdRef' = nextEventIdRef + 1
  /\ logs' = addLog(logs, Line("complete", t.target))
  /\ effect' = [training |-> TRUE, step |-> t.target]
  /\ UNCHANGED <<checkpoints, killedWorker, killStep, lastCheckpointRef, lastLogStepRef>>

RestoreTimeout == \E t \in timers : Restored(t)

\* The page is left: the cleanup clears the timers, and the state is gone.
Leave ==
  /\ phase # "idle"
  /\ phase' = "idle" /\ step' = 0
  /\ checkpoints' = <<>> /\ timeline' = <<>> /\ logs' = <<>>
  /\ killedWorker' = None /\ killStep' = None /\ restoredStep' = None
  /\ recoverySeconds' = 0
  /\ lastCheckpointRef' = 0 /\ lastLogStepRef' = 0 /\ nextEventIdRef' = 0
  /\ timers' = {} /\ queued' = 0 /\ effect' = NoEffect

Visitor == startSimulation \/ Leave \/ \E w \in Worker : killSimulatedWorker(w)
Browser == Tick \/ Render \/ RunEffect \/ Elapse \/ DetectTimeout \/ RestoreTimeout
Next == Visitor \/ Browser

Spec == Init /\ [][Next]_vars
-----------------------------------------------------------------------------
\* What the page shows, as functions of its state.

\* The position of the phase in PIPELINE.
pipelineIndex == CASE phase = "failed" -> 1 [] phase = "recovering" -> 2
                   [] phase = "recovered" -> 3 [] OTHER -> 0

\* The dots of SimulationPipeline.
SimulationPipeline ==
  [i \in 0..3 |-> IF i = pipelineIndex THEN "active" ELSE IF i < pipelineIndex THEN "past" ELSE "ahead"]

hasFailed == phase \in {"failed", "recovering", "recovered"}

\* The status each of the three StageCards is given, and the badge it then has.
Stages ==
  << IF phase = "idle" THEN "active" ELSE "complete",
     IF phase = "idle" THEN "waiting" ELSE IF hasFailed THEN "complete" ELSE "active",
     IF phase = "recovered" THEN "complete"
       ELSE IF phase \in {"failed", "recovering"} THEN "active" ELSE "waiting" >>
StageCard(number) == IF Stages[number] = "complete" THEN "done" ELSE "numbered"

phaseLabel == CASE phase = "idle" -> "READY" [] phase = "running" -> "RUNNING" [] phase = "failed" -> "FAILED"
                [] phase = "recovering" -> "RECOVERING" [] phase = "recovered" -> "RESUMED"

\* The card of a worker: how it is shown, the step on it, and what its button says.
Interrupted == phase \in {"failed", "recovering"}
isKilled(w) == killedWorker = w /\ Interrupted
isPaused(w) == killedWorker # w /\ Interrupted
displayedStep(w) == IF (isKilled(w) \/ isPaused(w)) /\ killStep # None THEN killStep ELSE step
KillButton(w) == CASE isKilled(w) -> "stopped" [] isPaused(w) -> "paused" [] canKill -> "kill"
                   [] phase = "recovered" -> "restart to run again" [] OTHER -> "waiting for save"

\* The banner during a failure: the checkpoint it says is being restored.
Banner == IF phase = "recovering" /\ checkpoints # <<>> THEN latestCheckpoint ELSE None

\* The metric cards: step, checkpoints, active workers.
Metrics == [step |-> step, checkpoints |-> Len(checkpoints), active |-> IF Interrupted THEN 0 ELSE 2]

\* The card shown after a recovery.
RecoveredCard == [shown |-> phase = "recovered", from |-> restoredStep, interruptedAt |-> killStep]

\* The timeline panel, by the keys of its entries.
TimelinePanel == [i \in DOMAIN timeline |-> timeline[i].id]

\* The storage panel lists the newest six checkpoints, newest first.
StorageList ==
  [i \in 1..(IF Len(checkpoints) < 6 THEN Len(checkpoints) ELSE 6) |-> checkpoints[Len(checkpoints) + 1 - i]]
-----------------------------------------------------------------------------
Tag == {"initialized", "no backend", "workers started", "started", "step", "saved", "committed",
        "killed", "failure", "detected", "loading", "resumed", "complete"}
LogLine == [tag : Tag, step : Nat]

\* Every variable has its type, and the two feeds stay within their caps.
TypeOK ==
  /\ phase \in SimulationPhase /\ step \in Nat
  /\ checkpoints \in Seq(Nat)
  /\ timeline \in Seq([id : Nat, label : LogLine]) /\ Len(timeline) <= TimelineCap
  /\ logs \in Seq(LogLine) /\ Len(logs) <= (IF LogCap > 3 THEN LogCap ELSE 3)
  /\ killedWorker \in Worker \cup {None}
  /\ {killStep, restoredStep} \subseteq Nat \cup {None}
  /\ {recoverySeconds, lastCheckpointRef, lastLogStepRef, nextEventIdRef} \subseteq Nat
  /\ timers \subseteq [at : {"detect", "restore"}, target : Nat]
  /\ queued \in 0..MaxQueued
  /\ effect \in [training : BOOLEAN, step : Nat]

Increasing(s) == \A i, j \in 1..Len(s) : i < j => s[i] < s[j]

\* Steps replayed after a recovery are neither saved nor logged a second time
\* (lastCheckpointRef and lastLogStepRef outlive the recovery), whatever
\* restarts and kills raced the effects: the checkpoints of a run increase, and
\* the storage panel lists them newest first.
SavesIncrease ==
  /\ Increasing(checkpoints)
  /\ \A i, j \in 1..Len(logs) : i < j /\ logs[i].tag = "step" /\ logs[j].tag = "step"
                                => logs[i].step < logs[j].step
  /\ \A i, j \in DOMAIN StorageList : i < j => StorageList[i] > StorageList[j]

\* The timers of a killed run never reach the run started after it: only an
\* interrupted page has timers, they restore one step, which is a checkpoint of
\* this run, and an interrupted page always has the timer that ends it.
TimersBelongToRun ==
  /\ Interrupted <=> timers # {}
  /\ \A t \in timers : t.target \in Values(checkpoints)
  /\ phase = "recovering" => \A t \in timers : t.at = "restore"
  /\ Interrupted => \E t \in timers : t.at = "restore"

\* The keys of the timeline are unique and below the next id, so that React
\* never confuses two entries (nextEventIdRef is reset by a restart).
TimelineKeysUnique ==
  \A i, j \in DOMAIN TimelinePanel : /\ TimelinePanel[i] < nextEventIdRef
                                      /\ i < j => TimelinePanel[i] < TimelinePanel[j]

\* What the page shows of a failure fits together: one worker stopped and the
\* others paused, all at the step of the kill, and no active worker; the recovered
\* card names a saved step; the stages never say more than the pipeline.
ScreenConsistent ==
  /\ Interrupted => /\ killedWorker \in Worker /\ killStep \in Nat
                    /\ \A w \in Worker : displayedStep(w) = killStep
                    /\ \A w \in Worker : KillButton(w) = "stopped" <=> w = killedWorker
  /\ (\E w \in Worker : KillButton(w) = "kill") => Metrics.active = 2 /\ Metrics.checkpoints > 0
  /\ RecoveredCard.shown => RecoveredCard.from \in Values(checkpoints)
  /\ phaseLabel = "RESUMED" => \A number \in 1..3 : StageCard(number) = "done"
  /\ StageCard(3) = "done" <=> SimulationPipeline[3] = "active"
  /\ phaseLabel \in {"FAILED", "RECOVERING"} <=> \A w \in Worker : KillButton(w) \in {"stopped", "paused"}

\* All of it: however clicks and effects raced, a recovery is one from a save of this run,
\* and the page says so.
RecoversFromASave == SavesIncrease /\ TimersBelongToRun /\ TimelineKeysUnique /\ ScreenConsistent

\* The counter only moves back when the run is restarted or the page left, or to
\* the checkpoint a recovery restores, never further and never otherwise.
CounterMovesBackOnlyToASave ==
  step' < step => \/ step' = 0 /\ timers' = {} /\ restoredStep' = None
                  \/ /\ phase' = "recovered" /\ Interrupted
                     /\ step' = restoredStep' /\ step' \in Values(checkpoints)

\* When effects run before the next click, a recovery loses less than one save
\* interval, never jumps ahead, and restores what the banner announced.
LosesLessThanOneInterval ==
  /\ phase = "recovered" => /\ restoredStep <= killStep
                            /\ killStep - restoredStep < SaveEvery
                            /\ step >= restoredStep
  /\ phase = "recovering" => \A t \in timers : Banner = t.target

\* Inductive, whatever a click overtakes: the refs bound what is listed, at most one
\* timeout of each kind is pending, and what the page shows of a failure is set.
DemoInv ==
  /\ TypeOK /\ SavesIncrease /\ TimersBelongToRun /\ TimelineKeysUnique
  /\ \A c \in Values(checkpoints) : c <= lastCheckpointRef
  /\ \A line \in Values(logs) : line.tag = "step" => line.step <= lastLogStepRef
  /\ \A t, u \in timers : t.at = u.at => t = u
  /\ Interrupted => killedWorker \in Worker /\ killStep \in Nat
  /\ phase = "recovered" => restoredStep \in Values(checkpoints)

\* Inductive when effects run before the next click: the newest checkpoint is the step of
\* the last render rounded down, and stays the newest during an interruption.
PromptInv ==
  /\ checkpoints # <<>> => lastCheckpointRef = latestCheckpoint
  /\ phase = "running" => /\ RoundDown(step, SaveEvery) >= lastCheckpointRef
                          /\ effect = NoEffect => RoundDown(step, SaveEvery) = lastCheckpointRef
                          /\ effect # NoEffect => effect = [training |-> TRUE, step |-> step]
  /\ Interrupted => /\ ~effect.training
                    /\ killStep >= lastCheckpointRef /\ killStep - lastCheckpointRef < SaveEvery
                    /\ \A t \in timers : t.target = latestCheckpoint
  /\ LosesLessThanOneInterval
-----------------------------------------------------------------------------
(* What the repository says of this code and the code does not keep: see README.md. *)

\* DemoPage.tsx:350: "The demo restores the last save point and continues the
\* simulated training counter."  The step restored is the newest in the list.
RestoresLastSavePoint ==
  [][phase = "recovering" /\ phase' = "recovered" => restoredStep' = latestCheckpoint]_vars

\* DemoPage.tsx:525: "The first simulated save point appears at step 50."
FirstSavePoint == checkpoints # <<>> => checkpoints[1] = SaveEvery /\ (step >= SaveEvery)
=============================================================================
