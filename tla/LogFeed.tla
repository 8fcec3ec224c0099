------------------------------- MODULE LogFeed -------------------------------
(***************************************************************************)
(* The training curve of the live demo: the workers' logs (train.py), the  *)
(* stream of GET /api/demo/logs, the hook useLogParser.ts that reads steps,*)
(* checkpoints and recoveries out of it, and what TrainingLossChart.tsx    *)
(* and CheckpointProof.tsx show of them.                                   *)
(*                                                                         *)
(* A connection starts with the last lines of every container and follows  *)
(* them from there, each at its own pace.  When it ends, the EventSource   *)
(* connects again and is sent those last lines once more.  A line is its   *)
(* kind and its step.                                                      *)
(***************************************************************************)
EXTENDS Integers, Sequences, FiniteSets

CONSTANTS
  Worker, Rank0,  \* the containers, and the one of rank 0
  MaxStep,        \* bound on the steps
  CkptEvery,      \* --checkpoint-every, in steps that are logged (--log-every)
  TailLines,      \* tail=30
  MAX_LOSS, MAX_CKPT, MAX_RESTORE, \* caps of the lists (500, 50, 10)
  MaxCrashes,     \* bound on the recoveries
  MaxBreaks       \* bound on the connections that end

LogAssumption ==
  /\ Rank0 \in Worker /\ {MaxStep, TailLines, MaxCrashes, MaxBreaks} \subseteq Nat
  /\ {CkptEvery, MAX_LOSS, MAX_CKPT, MAX_RESTORE} \subseteq Nat \ {0}

VARIABLES
  log,        \* the lines each container has written
  step,       \* the training step of each worker
  saved,      \* step of the last checkpoint, 0 if there is none
  active,     \* the prop `active'
  open,       \* the EventSource is connected
  pos,        \* lines of each container sent on this connection, or skipped by it
  seenSteps, lossHistory, checkpointMarkers, recoveryMarkers,
  crashes, breaks

training == <<log, step, saved, crashes>>
parsed == <<seenSteps, lossHistory, checkpointMarkers, recoveryMarkers>>
vars == <<training, active, open, pos, parsed, breaks>>

Line(kind, n) == [kind |-> kind, step |-> n]

Init ==
  /\ log = [w \in Worker |-> <<>>] /\ step = [w \in Worker |-> 0] /\ saved = 0
  /\ active = FALSE /\ open = FALSE /\ pos = [w \in Worker |-> 0]
  /\ seenSteps = {} /\ lossHistory = <<>> /\ checkpointMarkers = <<>> /\ recoveryMarkers = <<>>
  /\ crashes = 0 /\ breaks = 0
-----------------------------------------------------------------------------
\* The training loop: every step is logged, rank 0 saves and logs checkpoints.
\* The barrier of a checkpoint step keeps the workers within one interval.
Train(w) ==
  /\ step[w] < MaxStep
  /\ \A v \in Worker : step[w] \div CkptEvery <= step[v] \div CkptEvery
  /\ LET n == step[w] + 1
         saves == w = Rank0 /\ n % CkptEvery = 0
     IN /\ step' = [step EXCEPT ![w] = n]
        /\ saved' = IF saves THEN n ELSE saved
        /\ log' = [log EXCEPT ![w] = @ \o <<Line("loss", n)>> \o (IF saves THEN <<Line("ckpt", n)>> ELSE <<>>)]
  /\ UNCHANGED <<active, open, pos, parsed, crashes, breaks>>

\* The group is restarted and loads the last checkpoint.
Recover ==
  /\ crashes < MaxCrashes /\ crashes' = crashes + 1
  /\ step' = [w \in Worker |-> saved]
  /\ log' = [w \in Worker |-> IF saved > 0 THEN Append(log[w], Line("restore", saved)) ELSE log[w]]
  /\ UNCHANGED <<saved, active, open, pos, parsed, breaks>>
-----------------------------------------------------------------------------
\* The connection.

SkipTo(w) == IF Len(log[w]) > TailLines THEN Len(log[w]) - TailLines ELSE 0
\* demo_logs: docker logs --tail --follow, for each container.
Connect ==
  /\ active /\ ~open /\ open' = TRUE
  /\ pos' = [w \in Worker |-> SkipTo(w)]
  /\ UNCHANGED <<training, active, parsed, breaks>>
\* The stream ends or breaks; the EventSource connects again by itself.
Break ==
  /\ open /\ breaks < MaxBreaks /\ breaks' = breaks + 1 /\ open' = FALSE
  /\ UNCHANGED <<training, active, pos, parsed>>

\* The prop changes: the effect closes the stream or opens one; all lists are kept.
SetActive ==
  /\ breaks < MaxBreaks /\ breaks' = IF active THEN breaks + 1 ELSE breaks
  /\ active' = ~active /\ open' = FALSE
  /\ UNCHANGED <<training, pos, parsed>>
-----------------------------------------------------------------------------
\* es.onmessage

\* prev.slice(-(MAX - 1)) and the new element.
Push(list, max, x) == Append(SubSeq(list, IF Len(list) < max THEN 1 ELSE Len(list) - max + 2, Len(list)), x)

Parsed(l, markers) ==
  \/ /\ l.kind = "loss" /\ l.step \notin seenSteps
     /\ seenSteps' = seenSteps \cup {l.step} /\ lossHistory' = Push(lossHistory, MAX_LOSS, l.step)
     /\ UNCHANGED <<checkpointMarkers, recoveryMarkers>>
  \/ l.kind = "loss" /\ l.step \in seenSteps /\ UNCHANGED parsed
  \/ /\ l.kind = "ckpt" /\ checkpointMarkers' = markers
     /\ UNCHANGED <<seenSteps, lossHistory, recoveryMarkers>>
  \/ /\ l.kind = "restore" /\ recoveryMarkers' = Push(recoveryMarkers, MAX_RESTORE, l.step)
     /\ UNCHANGED <<seenSteps, lossHistory, checkpointMarkers>>
Parse_NewestFirst(l) ==
  LET n == Len(checkpointMarkers) IN
  Parsed(l, <<l.step>> \o SubSeq(checkpointMarkers, 1, IF n < MAX_CKPT THEN n ELSE MAX_CKPT - 1))
Parse(l) == Parsed(l, Push(checkpointMarkers, MAX_CKPT, l.step))

\* The reader of one container has its next line, which is sent and parsed.
Deliver(w) ==
  /\ open /\ pos[w] < Len(log[w])
  /\ pos' = [pos EXCEPT ![w] = @ + 1]
  /\ Parse(log[w][pos[w] + 1])
  /\ UNCHANGED <<training, active, open, breaks>>
-----------------------------------------------------------------------------
Next == \/ Recover \/ Connect \/ Break \/ SetActive
        \/ \E w \in Worker : Train(w) \/ Deliver(w)

Spec == Init /\ [][Next]_vars
-----------------------------------------------------------------------------
\* What is shown.

Distance(a, b) == IF a < b THEN b - a ELSE a - b
Closer(n, best, p) == IF Distance(p, n) < Distance(best, n) THEN p ELSE best
\* TrainingLossChart: the point whose loss a marker is drawn at.
findLoss(n) ==
  LET best[i \in DOMAIN lossHistory] ==
        IF i = 1 THEN lossHistory[1] ELSE Closer(n, best[i - 1], lossHistory[i])
  IN best[Len(lossHistory)]

\* The dots of the chart, once there is a curve to put them on.
Dots == IF lossHistory = <<>> THEN {} ELSE
  {findLoss(checkpointMarkers[i]) : i \in DOMAIN checkpointMarkers}
    \cup {findLoss(recoveryMarkers[i]) : i \in DOMAIN recoveryMarkers}
TrainingLossChart == [line |-> lossHistory, dots |-> Dots]

\* CheckpointProof: "Latest Checkpoint".
latest == IF checkpointMarkers = <<>> THEN 0 ELSE checkpointMarkers[Len(checkpointMarkers)]

\* LogStream's HIGHLIGHT_PATTERNS: they match the lines of a step and of a saved
\* checkpoint, and not "Restored from runtime checkpoint".
isHighlighted(l) == l.kind \in {"loss", "ckpt"}
-----------------------------------------------------------------------------
Steps == 1..MaxStep
LogLine == [kind : {"loss", "ckpt", "restore"}, step : Steps]

\* Types and caps; what is listed has been logged by a worker.
TypeOK ==
  /\ step \in [Worker -> 0..MaxStep] /\ saved \in 0..MaxStep /\ active \in BOOLEAN /\ open \in BOOLEAN
  /\ log \in [Worker -> Seq(LogLine)] /\ pos \in [Worker -> Nat] /\ \A w \in Worker : pos[w] <= Len(log[w])
  /\ lossHistory \in Seq(Steps) /\ checkpointMarkers \in Seq(Steps) /\ recoveryMarkers \in Seq(Steps)
  /\ seenSteps \subseteq Steps
  /\ Len(lossHistory) <= MAX_LOSS /\ Len(checkpointMarkers) <= MAX_CKPT /\ Len(recoveryMarkers) <= MAX_RESTORE
  /\ crashes \in 0..MaxCrashes /\ breaks \in 0..MaxBreaks

\* A step is on the curve once, although two workers log it, the group repeats it
\* after a recovery, a new connection sends it again, and the list forgets it.
StepsOnce == \A i, j \in DOMAIN lossHistory : i # j => lossHistory[i] # lossHistory[j]

\* It holds because every point of the curve has been seen.
CurveInv == lossHistory \in Seq(seenSteps) /\ StepsOnce

\* A marker is drawn at the closest point of the curve, in whatever order the
\* points came in, and never off the curve.
DrawnAtClosest ==
  /\ TrainingLossChart.dots \subseteq {lossHistory[i] : i \in DOMAIN lossHistory}
  /\ lossHistory # <<>> => \A n \in Steps : \A i \in DOMAIN lossHistory :
       Distance(findLoss(n), n) <= Distance(lossHistory[i], n)

\* Once rank 0's log is read, the checkpoint shown as latest is the last one saved,
\* whatever was repeated, by a recovery or by a new connection, or skipped before.
\* It needs a tail that reaches back to the last checkpoint.
TailReaches == CkptEvery * (MaxCrashes + 1) <= TailLines
CaughtUpIsSaved == TailReaches /\ open /\ pos[Rank0] = Len(log[Rank0]) => latest = saved

\* It holds because the lines after that of the last checkpoint are those of the steps
\* since, and at most an interval of them for every recovery.
NoneSaved(w) == \A i \in DOMAIN log[w] : log[w][i].kind # "ckpt"
LastSaved(j) ==
  /\ log[Rank0][j] = Line("ckpt", saved)
  /\ \A i \in (j + 1)..Len(log[Rank0]) : log[Rank0][i].kind # "ckpt"
SavedInv ==
  /\ saved % CkptEvery = 0 /\ saved <= step[Rank0] /\ step[Rank0] < saved + CkptEvery
  /\ \A w \in Worker \ {Rank0} : NoneSaved(w)
  /\ \/ saved = 0 /\ checkpointMarkers = <<>> /\ NoneSaved(Rank0)
     \/ \E j \in DOMAIN log[Rank0] :
          /\ LastSaved(j) /\ Len(log[Rank0]) - j <= step[Rank0] - saved + crashes * CkptEvery
          /\ TailReaches /\ open => pos[Rank0] < j \/ latest = saved

\* Every line of a container is read, or the stream is gone.
AllRead(w) == ~open \/ pos[w] = Len(log[w])
-----------------------------------------------------------------------------
(* What the repository says of this code and the code does not keep: see README.md. *)

\* CheckpointProof.tsx:16 "Latest Checkpoint": no other listed one is newer.
LatestCheckpoint == \A i \in DOMAIN checkpointMarkers : checkpointMarkers[i] <= latest

\* LogStream.tsx:90 "restored from checkpoint" is one of the messages to look for.
RestoreIsHighlighted ==
  \A w \in Worker : \A i \in 1..pos[w] : log[w][i].kind = "restore" => isHighlighted(log[w][i])
=============================================================================
