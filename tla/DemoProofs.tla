------------------------------ MODULE DemoProofs ------------------------------
(***************************************************************************)
(* Proofs about the demo page, DemoSimulation, for every step size, save   *)
(* interval and cap of its lists, and any number of ticks and clicks.      *)
(***************************************************************************)
EXTENDS DemoSimulation, SequenceTheorems, TLAPS

TimelineEntry == [id : Nat, label : LogLine]

\* The lists and refs the training effect writes, as the effect finds them: the refs
\* bound what is listed, and each list is in order.
KeysOK(tl, id) ==
  /\ tl \in Seq(TimelineEntry) /\ Len(tl) <= TimelineCap /\ id \in Nat
  /\ \A i, j \in 1..Len(tl) : tl[i].id < id /\ (i < j => tl[i].id < tl[j].id)
LinesOK(lg, last) ==
  /\ lg \in Seq(LogLine) /\ Len(lg) <= (IF LogCap > 3 THEN LogCap ELSE 3) /\ last \in Nat
  /\ \A i \in 1..Len(lg) : lg[i].tag = "step" => lg[i].step <= last
  /\ \A i, j \in 1..Len(lg) : i < j /\ lg[i].tag = "step" /\ lg[j].tag = "step" => lg[i].step < lg[j].step
SavesOK(ckpts, last) ==
  /\ ckpts \in Seq(Nat) /\ Increasing(ckpts) /\ last \in Nat
  /\ \A i \in 1..Len(ckpts) : ckpts[i] <= last

\* array.slice(-n) keeps the end of a list.
LEMMA SliceFacts ==
  ASSUME NEW S, NEW s \in Seq(S), NEW n \in Nat \ {0}
  PROVE  /\ Slice(s, n) \in Seq(S) /\ Len(Slice(s, n)) <= n
         /\ \E k \in Nat : /\ Len(Slice(s, n)) + k = Len(s)
                           /\ \A i \in 1..Len(Slice(s, n)) : Slice(s, n)[i] = s[i + k]
  <1> DEFINE k == IF Len(s) > n THEN Len(s) - n ELSE 0
  <1>1. Len(s) \in Nat /\ k \in Nat /\ k + 1 \in Nat /\ k <= Len(s)
    OBVIOUS
  <1>2. Slice(s, n) = SubSeq(s, k + 1, Len(s))
    BY <1>1 DEF Slice
  <1>3. /\ SubSeq(s, k + 1, Len(s)) \in Seq(S)
        /\ Len(SubSeq(s, k + 1, Len(s))) = Len(s) - k
        /\ \A i \in 1..Len(s) - k : SubSeq(s, k + 1, Len(s))[i] = s[i + k]
    <2> HIDE DEF k
    <2>1. k + 1 \in 1..Len(s) + 1 /\ Len(s) \in (k + 1) - 1 .. Len(s)
      BY <1>1
    <2>2. /\ SubSeq(s, k + 1, Len(s)) \in Seq(S)
          /\ Len(SubSeq(s, k + 1, Len(s))) = IF k + 1 <= Len(s) THEN Len(s) - (k + 1) + 1 ELSE 0
          /\ \A i \in 1..Len(s) - (k + 1) + 1 : SubSeq(s, k + 1, Len(s))[i] = s[k + 1 + i - 1]
      BY <2>1, SubSeqProperties
    <2> QED
      BY <1>1, <2>2
  <1>4. Len(s) - k <= n
    BY <1>1
  <1> HIDE DEF k
  <1> QED
    BY <1>1, <1>2, <1>3, <1>4

\* A new entry of the timeline gets a new key.
LEMMA AddEventKeys ==
  ASSUME DemoAssumption, NEW tl, NEW id, KeysOK(tl, id), NEW label \in LogLine
  PROVE  KeysOK(addEvent(tl, id, label), id + 1)
  <1> DEFINE e == Entry(id, label)
             app == Append(tl, e)
             new == Slice(app, TimelineCap)
  <1>1. tl \in Seq(TimelineEntry) /\ id \in Nat /\ Len(tl) \in Nat /\ TimelineCap \in Nat \ {0}
    BY DEF KeysOK, DemoAssumption
  <1>2. e \in TimelineEntry /\ e.id = id
    BY <1>1 DEF Entry, TimelineEntry
  <1> HIDE DEF e
  <1>3. /\ app \in Seq(TimelineEntry) /\ Len(app) = Len(tl) + 1 /\ app[Len(tl) + 1] = e
        /\ \A i \in 1..Len(tl) : app[i] = tl[i]
    BY <1>1, <1>2
  <1> HIDE DEF app
  <1>4. \A i \in 1..Len(app) : app[i].id \in Nat
    <2>1. \A i \in 1..Len(app) : app[i] \in TimelineEntry
      BY <1>3, ElementOfSeq
    <2> QED
      BY <2>1 DEF TimelineEntry
  <1>5. \A i, j \in 1..Len(app) : app[i].id < id + 1 /\ (i < j => app[i].id < app[j].id)
    <2> TAKE i, j \in 1..Len(app)
    <2>1. i \in 1..Len(tl) \/ i = Len(tl) + 1
      BY <1>1, <1>3
    <2>2. j \in 1..Len(tl) \/ j = Len(tl) + 1
      BY <1>1, <1>3
    <2>3. \A m \in 1..Len(tl) : app[m].id < id
      BY <1>3 DEF KeysOK
    <2>4. app[Len(tl) + 1].id = id
      BY <1>2, <1>3
    <2>5. \A m, l \in 1..Len(tl) : m < l => app[m].id < app[l].id
      BY <1>3 DEF KeysOK
    <2> QED
      BY <1>1, <1>4, <2>1, <2>2, <2>3, <2>4, <2>5
  <1>6. /\ new \in Seq(TimelineEntry) /\ Len(new) <= TimelineCap
        /\ \E k \in Nat : Len(new) + k = Len(app) /\ \A i \in 1..Len(new) : new[i] = app[i + k]
    BY <1>1, <1>3, SliceFacts
  <1>7. new = addEvent(tl, id, label)
    BY DEF addEvent, app, e
  <1> HIDE DEF new
  <1>8. PICK k \in Nat : Len(new) + k = Len(app) /\ \A i \in 1..Len(new) : new[i] = app[i + k]
    BY <1>6
  <1>9. \A i \in 1..Len(new) : i + k \in 1..Len(app)
    BY <1>3, <1>6, <1>8
  <1>10. \A i, j \in 1..Len(new) : new[i].id < id + 1 /\ (i < j => new[i].id < new[j].id)
    BY <1>5, <1>6, <1>8, <1>9
  <1> QED
    BY <1>1, <1>6, <1>7, <1>10 DEF KeysOK

\* A new line leaves the lines about steps in order if it is later than they are.
LEMMA AddLogLines ==
  ASSUME DemoAssumption, NEW lg, NEW last, LinesOK(lg, last), NEW line \in LogLine, NEW later \in Nat,
         later >= last, line.tag = "step" => line.step > last /\ line.step <= later
  PROVE  LinesOK(addLog(lg, line), later)
  <1> DEFINE app == Append(lg, line)
             new == Slice(app, LogCap)
  <1>1. lg \in Seq(LogLine) /\ last \in Nat /\ Len(lg) \in Nat /\ LogCap \in Nat \ {0}
    BY DEF LinesOK, DemoAssumption
  <1>2. /\ app \in Seq(LogLine) /\ Len(app) = Len(lg) + 1 /\ app[Len(lg) + 1] = line
        /\ \A i \in 1..Len(lg) : app[i] = lg[i]
    BY <1>1
  <1> HIDE DEF app
  <1>3. \A i \in 1..Len(app) : app[i].step \in Nat
    <2>1. \A i \in 1..Len(app) : app[i] \in LogLine
      BY <1>2, ElementOfSeq
    <2> QED
      BY <2>1 DEF LogLine
  <1>4. \A i \in 1..Len(app) : app[i].tag = "step" => app[i].step <= later
    <2> TAKE i \in 1..Len(app)
    <2>1. CASE i \in 1..Len(lg)
      BY <1>1, <1>2, <1>3, <2>1 DEF LinesOK
    <2>2. CASE i = Len(lg) + 1
      BY <1>2, <2>2
    <2> QED
      BY <1>1, <1>2, <2>1, <2>2
  <1>5. \A i, j \in 1..Len(app) : i < j /\ app[i].tag = "step" /\ app[j].tag = "step" => app[i].step < app[j].step
    <2> SUFFICES ASSUME NEW i \in 1..Len(app), NEW j \in 1..Len(app), i < j,
                        app[i].tag = "step", app[j].tag = "step"
                 PROVE  app[i].step < app[j].step
      OBVIOUS
    <2>1. i \in 1..Len(lg)
      BY <1>1, <1>2
    <2>2. CASE j \in 1..Len(lg)
      BY <1>2, <2>1, <2>2 DEF LinesOK
    <2>3. CASE j = Len(lg) + 1
      <3>1. app[i].step <= last
        BY <1>2, <2>1 DEF LinesOK
      <3> QED
        BY <1>1, <1>2, <1>3, <2>3, <3>1
    <2> QED
      BY <1>1, <1>2, <2>2, <2>3
  <1>6. /\ new \in Seq(LogLine) /\ Len(new) <= LogCap
        /\ \E k \in Nat : Len(new) + k = Len(app) /\ \A i \in 1..Len(new) : new[i] = app[i + k]
    BY <1>1, <1>2, SliceFacts
  <1>7. new = addLog(lg, line)
    BY DEF addLog, app
  <1> HIDE DEF new
  <1>8. PICK k \in Nat : Len(new) + k = Len(app) /\ \A i \in 1..Len(new) : new[i] = app[i + k]
    BY <1>6
  <1>9. \A i \in 1..Len(new) : i + k \in 1..Len(app)
    BY <1>2, <1>6, <1>8
  <1>10. \A i \in 1..Len(new) : new[i].tag = "step" => new[i].step <= later
    BY <1>4, <1>8, <1>9
  <1>11. \A i, j \in 1..Len(new) : i < j /\ new[i].tag = "step" /\ new[j].tag = "step" => new[i].step < new[j].step
    <2> SUFFICES ASSUME NEW i \in 1..Len(new), NEW j \in 1..Len(new), i < j,
                        new[i].tag = "step", new[j].tag = "step"
                 PROVE  new[i].step < new[j].step
      OBVIOUS
    <2>1. new[i] = app[i + k] /\ new[j] = app[j + k] /\ i + k < j + k
      BY <1>8
    <2> QED
      BY <1>5, <1>9, <2>1
  <1>12. Len(new) <= (IF LogCap > 3 THEN LogCap ELSE 3)
    BY <1>1, <1>6
  <1> QED
    BY <1>6, <1>7, <1>10, <1>11, <1>12 DEF LinesOK

\* Rounding down to a multiple: at most n, by less than one interval, and monotone.
LEMMA RoundDownFacts ==
  ASSUME NEW n \in Nat, NEW every \in Nat \ {0}
  PROVE  /\ RoundDown(n, every) \in Nat /\ RoundDown(n, every) <= n
         /\ n - RoundDown(n, every) < every
         /\ RoundDown(n, every) < every => RoundDown(n, every) = 0
  <1> DEFINE q == n \div every
  <1>1. q \in Nat /\ every * q <= n /\ n < every * q + every
    OBVIOUS
  <1>2. q >= 1 => every * q >= every
    BY <1>1
  <1> HIDE DEF q
  <1>3. q = 0 => q * every = 0
    OBVIOUS
  <1>4. q * every = every * q /\ q * every \in Nat
    BY <1>1
  <1>5. RoundDown(n, every) = q * every
    BY DEF RoundDown, q
  <1> QED
    BY <1>1, <1>2, <1>3, <1>4, <1>5

\* More steps round down to no less.
LEMMA RoundDownMonotone ==
  ASSUME NEW m \in Nat, NEW n \in Nat, NEW every \in Nat \ {0}, m <= n
  PROVE  RoundDown(m, every) <= RoundDown(n, every)
  <1> DEFINE p == m \div every
             q == n \div every
  <1>1. p \in Nat /\ every * p <= m
    OBVIOUS
  <1>2. q \in Nat /\ n < every * q + every
    OBVIOUS
  <1> HIDE DEF p, q
  <1>3. every * p < every * (q + 1)
    BY <1>1, <1>2
  <1>4. p < q + 1
    <2> SUFFICES ASSUME p >= q + 1 PROVE FALSE
      BY <1>1, <1>2
    <2>1. every * p >= every * (q + 1)
      BY <1>1, <1>2
    <2> QED
      BY <1>1, <1>2, <1>3, <2>1
  <1>5. p <= q
    BY <1>1, <1>2, <1>4
  <1>6. p * every <= q * every
    BY <1>1, <1>2, <1>5
  <1> QED
    BY <1>6 DEF RoundDown, p, q

\* A checkpoint that is later than all of them goes to the end of the list.
LEMMA AppendSave ==
  ASSUME NEW ckpts, NEW last, SavesOK(ckpts, last), NEW c \in Nat, c > last
  PROVE  /\ SavesOK(Append(ckpts, c), c) /\ Values(ckpts) \subseteq Values(Append(ckpts, c))
         /\ Append(ckpts, c)[Len(Append(ckpts, c))] = c /\ Append(ckpts, c) # <<>>
  <1> DEFINE app == Append(ckpts, c)
  <1>1. ckpts \in Seq(Nat) /\ last \in Nat /\ Len(ckpts) \in Nat
    BY DEF SavesOK
  <1>2. /\ app \in Seq(Nat) /\ Len(app) = Len(ckpts) + 1 /\ app[Len(ckpts) + 1] = c
        /\ \A i \in 1..Len(ckpts) : app[i] = ckpts[i]
    BY <1>1
  <1> HIDE DEF app
  <1>3. \A i \in 1..Len(ckpts) : ckpts[i] \in Nat /\ ckpts[i] <= last
    BY <1>1, ElementOfSeq DEF SavesOK
  <1>4. \A i \in 1..Len(app) : app[i] <= c
    <2> TAKE i \in 1..Len(app)
    <2>1. i \in 1..Len(ckpts) \/ i = Len(ckpts) + 1
      BY <1>1, <1>2
    <2> QED
      BY <1>1, <1>2, <1>3, <2>1
  <1>5. Increasing(app)
    <2> SUFFICES ASSUME NEW i \in 1..Len(app), NEW j \in 1..Len(app), i < j PROVE app[i] < app[j]
      BY DEF Increasing
    <2>1. i \in 1..Len(ckpts)
      BY <1>1, <1>2
    <2>2. CASE j \in 1..Len(ckpts)
      BY <1>2, <2>1, <2>2 DEF SavesOK, Increasing
    <2>3. CASE j = Len(ckpts) + 1
      BY <1>1, <1>2, <1>3, <2>1, <2>3
    <2> QED
      BY <1>1, <1>2, <2>2, <2>3
  <1>6. Values(ckpts) \subseteq Values(app)
    <2>1. \A i \in 1..Len(ckpts) : i \in 1..Len(app) /\ app[i] = ckpts[i]
      BY <1>1, <1>2
    <2> QED
      BY <2>1 DEF Values
  <1>7. SavesOK(app, c)
    BY <1>2, <1>4, <1>5 DEF SavesOK
  <1>8. app # <<>>
    BY <1>1, <1>2
  <1> QED
    BY <1>2, <1>6, <1>7, <1>8 DEF app

\* The training effect, on whatever it closed over, leaves every list in order.
LEMMA EffectKeepsOrder ==
  ASSUME DemoAssumption, NEW e \in [training : BOOLEAN, step : Nat],
         NEW ckpts, NEW tl, NEW lg, NEW lastCkpt, NEW lastLog, NEW id,
         SavesOK(ckpts, lastCkpt), KeysOK(tl, id), LinesOK(lg, lastLog),
         TrainingEffect(e, ckpts, tl, lg, lastCkpt, lastLog, id)
  PROVE  /\ SavesOK(checkpoints', lastCheckpointRef') /\ KeysOK(timeline', nextEventIdRef')
         /\ LinesOK(logs', lastLogStepRef') /\ Values(ckpts) \subseteq Values(checkpoints')
  <1> DEFINE logStep == RoundDown(e.step, LogEvery)
             ckptStep == RoundDown(e.step, SaveEvery)
             lg1 == IF Logs(e, lastLog) THEN addLog(lg, Line("step", logStep)) ELSE lg
             newLog == IF Logs(e, lastLog) THEN logStep ELSE lastLog
  <1>1. e.step \in Nat /\ logStep \in Nat /\ ckptStep \in Nat
    <2>1. e.step \in Nat /\ LogEvery \in Nat \ {0} /\ SaveEvery \in Nat \ {0}
      BY DEF DemoAssumption
    <2> QED
      BY <2>1, RoundDownFacts
  <1>2. lastCkpt \in Nat /\ lastLog \in Nat /\ id \in Nat
    BY DEF SavesOK, KeysOK, LinesOK
  <1>3. /\ lastLogStepRef' = newLog
        /\ lastCheckpointRef' = IF Saves(e, lastCkpt) THEN ckptStep ELSE lastCkpt
        /\ checkpoints' = IF Saves(e, lastCkpt) THEN Append(ckpts, ckptStep) ELSE ckpts
        /\ timeline' = IF Saves(e, lastCkpt) THEN addEvent(tl, id, Line("saved", ckptStep)) ELSE tl
        /\ nextEventIdRef' = IF Saves(e, lastCkpt) THEN id + 1 ELSE id
        /\ logs' = IF Saves(e, lastCkpt) THEN addLog(lg1, Line("committed", ckptStep)) ELSE lg1
    BY DEF TrainingEffect
  <1> HIDE DEF logStep, ckptStep
  <1>4. Logs(e, lastLog) => logStep > lastLog
    BY DEF Logs, logStep
  <1>5. Saves(e, lastCkpt) => ckptStep > lastCkpt /\ e.training
    BY DEF Saves, ckptStep
  <1>6. LinesOK(lg1, newLog) /\ newLog \in Nat
    <2>1. CASE Logs(e, lastLog)
      <3> DEFINE line == Line("step", logStep)
      <3>1. line \in LogLine /\ line.step = logStep
        BY <1>1 DEF Line, LogLine, Tag
      <3> HIDE DEF line
      <3>2. LinesOK(addLog(lg, line), logStep)
        BY <1>1, <1>2, <1>4, <2>1, <3>1, AddLogLines
      <3> QED
        BY <1>1, <2>1, <3>2 DEF line
    <2>2. CASE ~Logs(e, lastLog)
      BY <1>2, <2>2
    <2> QED
      BY <2>1, <2>2
  <1> HIDE DEF lg1, newLog
  <1>7. CASE Saves(e, lastCkpt)
    <2> DEFINE line == Line("committed", ckptStep)
               saved == Line("saved", ckptStep)
    <2>1. line \in LogLine /\ line.tag # "step" /\ saved \in LogLine
      BY <1>1 DEF Line, LogLine, Tag
    <2> HIDE DEF line, saved
    <2>2. LinesOK(addLog(lg1, line), newLog)
      BY <1>6, <2>1, AddLogLines
    <2>3. KeysOK(addEvent(tl, id, saved), id + 1)
      BY <2>1, AddEventKeys
    <2>4. /\ SavesOK(Append(ckpts, ckptStep), ckptStep) /\ Values(ckpts) \subseteq Values(Append(ckpts, ckptStep))
          /\ Append(ckpts, ckptStep)[Len(Append(ckpts, ckptStep))] = ckptStep /\ Append(ckpts, ckptStep) # <<>>
      BY <1>1, <1>5, <1>7, AppendSave
    <2> QED
      BY <1>3, <1>5, <1>7, <2>2, <2>3, <2>4 DEF line, saved, ckptStep
  <1>8. CASE ~Saves(e, lastCkpt)
    BY <1>3, <1>6, <1>8
  <1> QED
    BY <1>7, <1>8
-----------------------------------------------------------------------------
\* DemoInv in two parts: the lists with their refs, and the rest.
Lists == /\ SavesOK(checkpoints, lastCheckpointRef) /\ KeysOK(timeline, nextEventIdRef)
         /\ LinesOK(logs, lastLogStepRef)
Types == /\ phase \in SimulationPhase /\ step \in Nat /\ recoverySeconds \in Nat
         /\ killedWorker \in Worker \cup {None} /\ {killStep, restoredStep} \subseteq Nat \cup {None}
         /\ timers \subseteq [at : {"detect", "restore"}, target : Nat]
         /\ queued \in 0..MaxQueued /\ effect \in [training : BOOLEAN, step : Nat]
Recovery == /\ TimersBelongToRun /\ \A t, u \in timers : t.at = u.at => t = u
            /\ Interrupted => killedWorker \in Worker /\ killStep \in Nat
            /\ phase = "recovered" => restoredStep \in Values(checkpoints)

\* The parts make up the invariant; the storage panel lists an increasing sequence
\* backwards.
LEMMA PartsMakeInv ==
  ASSUME DemoAssumption, Lists, Types, Recovery PROVE DemoInv
  <1>1. TypeOK
    BY DEF TypeOK, Lists, Types, SavesOK, KeysOK, LinesOK, TimelineEntry
  <1>2. \A i, j \in DOMAIN StorageList : i < j => StorageList[i] > StorageList[j]
    <2> SUFFICES ASSUME NEW i \in DOMAIN StorageList, NEW j \in DOMAIN StorageList, i < j
                 PROVE  StorageList[i] > StorageList[j]
      OBVIOUS
    <2>1. checkpoints \in Seq(Nat) /\ Len(checkpoints) \in Nat
      BY <1>1 DEF TypeOK
    <2>2. DOMAIN StorageList = 1..(IF Len(checkpoints) < 6 THEN Len(checkpoints) ELSE 6)
      BY DEF StorageList
    <2>3. i \in 1..Len(checkpoints) /\ j \in 1..Len(checkpoints)
      BY <2>1, <2>2
    <2> DEFINE a == Len(checkpoints) + 1 - i
               b == Len(checkpoints) + 1 - j
    <2>4. a \in 1..Len(checkpoints) /\ b \in 1..Len(checkpoints) /\ b < a
      BY <2>1, <2>3
    <2>5. StorageList[i] = checkpoints[a] /\ StorageList[j] = checkpoints[b]
      BY <2>2 DEF StorageList
    <2> HIDE DEF a, b
    <2>6. checkpoints[b] < checkpoints[a]
      BY <2>4 DEF Lists, SavesOK, Increasing
    <2>7. checkpoints[a] \in Nat /\ checkpoints[b] \in Nat
      BY <2>1, <2>4, ElementOfSeq
    <2> QED
      BY <2>5, <2>6, <2>7
  <1>3. SavesIncrease
    BY <1>2 DEF SavesIncrease, Lists, SavesOK, LinesOK
  <1>4. TimelineKeysUnique
    <2>1. DOMAIN timeline = 1..Len(timeline)
      BY LenProperties DEF Lists, KeysOK
    <2> QED
      BY <2>1 DEF TimelineKeysUnique, TimelinePanel, Lists, KeysOK
  <1>5. /\ \A c \in Values(checkpoints) : c <= lastCheckpointRef
        /\ \A line \in Values(logs) : line.tag = "step" => line.step <= lastLogStepRef
    BY DEF Values, Lists, SavesOK, LinesOK
  <1> QED
    BY <1>1, <1>3, <1>4, <1>5 DEF DemoInv, Recovery

\* What the lists start with.
LEMMA EmptyLists ==
  ASSUME DemoAssumption
  PROVE  SavesOK(<<>>, 0) /\ KeysOK(<<>>, 0) /\ LinesOK(<<>>, 0)
  BY EmptySeq DEF SavesOK, KeysOK, LinesOK, Increasing, DemoAssumption

\* The page is empty when it is opened.
LEMMA DemoInit ==
  ASSUME DemoAssumption, Init PROVE Lists /\ Types /\ Recovery
  <1>1. Lists
    BY EmptyLists DEF Init, Lists
  <1>2. Types
    BY DEF Init, Types, SimulationPhase, NoEffect, DemoAssumption
  <1> QED
    BY <1>1, <1>2 DEF Init, Recovery, TimersBelongToRun, Interrupted

\* Lines and keys of what is listed at a restart.
LEMMA RestartLists ==
  ASSUME DemoAssumption
  PROVE  /\ SavesOK(<<>>, 0) /\ KeysOK(<<Entry(0, Line("started", 0))>>, 1)
         /\ LinesOK(InitialLogs, 0)
  <1>1. LinesOK(InitialLogs, 0)
    <2> DEFINE x == Line("initialized", 0)
               y == Line("no backend", 0)
               z == Line("workers started", 0)
    <2>1. {x, y, z} \subseteq LogLine /\ x.tag # "step" /\ y.tag # "step" /\ z.tag # "step"
      BY DEF Line, LogLine, Tag
    <2>2. InitialLogs = <<x, y, z>>
      BY DEF InitialLogs
    <2> HIDE DEF x, y, z
    <2>3. /\ InitialLogs \in Seq(LogLine) /\ Len(InitialLogs) = 3
          /\ \A i \in 1..Len(InitialLogs) : InitialLogs[i].tag # "step"
      BY <2>1, <2>2
    <2>4. 3 <= (IF LogCap > 3 THEN LogCap ELSE 3)
      BY DEF DemoAssumption
    <2> QED
      BY <2>3, <2>4 DEF LinesOK
  <1>2. KeysOK(<<Entry(0, Line("started", 0))>>, 1)
    <2> DEFINE e == Entry(0, Line("started", 0))
    <2>1. e \in TimelineEntry /\ e.id = 0
      BY DEF Entry, Line, LogLine, Tag, TimelineEntry
    <2> HIDE DEF e
    <2>2. <<e>> \in Seq(TimelineEntry) /\ Len(<<e>>) = 1 /\ \A i \in 1..1 : <<e>>[i] = e
      BY <2>1
    <2>3. 1 <= TimelineCap
      BY DEF DemoAssumption
    <2>4. KeysOK(<<e>>, 1)
      BY <2>1, <2>2, <2>3 DEF KeysOK
    <2> QED
      BY <2>4 DEF e
  <1> QED
    BY <1>1, <1>2, EmptyLists

\* A click on start or restart: the timeouts of the old run are gone, and the pending
\* effect of the old run finds the lists of the new one.
LEMMA DemoStart ==
  ASSUME DemoAssumption, Lists, Types, Recovery, startSimulation PROVE Lists' /\ Types' /\ Recovery'
  <1>1. effect \in [training : BOOLEAN, step : Nat]
    BY DEF Types
  <1>2. TrainingEffect(effect, <<>>, <<Entry(0, Line("started", 0))>>, InitialLogs, 0, 0, 1)
    BY DEF startSimulation
  <1>3. Lists'
    BY <1>1, <1>2, RestartLists, EffectKeepsOrder DEF Lists
  <1>4. Types'
    BY DEF startSimulation, Types, SimulationPhase, NoEffect, DemoAssumption
  <1>5. Recovery'
    BY DEF startSimulation, Recovery, TimersBelongToRun, Interrupted
  <1> QED
    BY <1>3, <1>4, <1>5

\* The page is left.
LEMMA DemoLeave ==
  ASSUME DemoAssumption, Leave PROVE Lists' /\ Types' /\ Recovery'
  <1>1. Lists'
    BY EmptyLists DEF Leave, Lists
  <1>2. Types'
    BY DEF Leave, Types, SimulationPhase, NoEffect, DemoAssumption
  <1> QED
    BY <1>1, <1>2 DEF Leave, Recovery, TimersBelongToRun, Interrupted

\* The newest checkpoint is one of them.
LEMMA LatestIsListed ==
  ASSUME Lists, checkpoints # <<>>
  PROVE  latestCheckpoint \in Values(checkpoints) /\ latestCheckpoint \in Nat
  <1>1. checkpoints \in Seq(Nat)
    BY DEF Lists, SavesOK
  <1>2. Len(checkpoints) \in 1..Len(checkpoints)
    BY <1>1, EmptySeq
  <1>3. checkpoints[Len(checkpoints)] \in Nat
    BY <1>1, <1>2, ElementOfSeq
  <1> QED
    BY <1>2, <1>3 DEF latestCheckpoint, Values

\* A kill: its timeouts aim at a checkpoint of this run, which the pending effect keeps.
LEMMA DemoKill ==
  ASSUME DemoAssumption, Lists, Types, Recovery, NEW w \in Worker, killSimulatedWorker(w)
  PROVE  Lists' /\ Types' /\ Recovery'
  <1> DEFINE line == Line("killed", step)
             fail == Line("failure", step)
             d == [at |-> "detect", target |-> latestCheckpoint]
             r == [at |-> "restore", target |-> latestCheckpoint]
  <1>1. /\ checkpoints # <<>> /\ timers' = {d, r} /\ phase' = "failed"
        /\ killedWorker' = w /\ killStep' = step /\ restoredStep' = None /\ recoverySeconds' = 0
        /\ effect' = NoEffect /\ UNCHANGED <<step, queued>>
        /\ TrainingEffect(effect, checkpoints, addEvent(timeline, nextEventIdRef, line), addLog(logs, fail),
                          lastCheckpointRef, lastLogStepRef, nextEventIdRef + 1)
    BY DEF killSimulatedWorker, Killed, canKill
  <1>2. step \in Nat /\ effect \in [training : BOOLEAN, step : Nat]
    BY DEF Types
  <1>3. line \in LogLine /\ fail \in LogLine /\ fail.tag # "step"
    BY <1>2 DEF Line, LogLine, Tag
  <1>4. latestCheckpoint \in Values(checkpoints) /\ latestCheckpoint \in Nat
    BY <1>1, LatestIsListed
  <1>5. /\ {d, r} \subseteq [at : {"detect", "restore"}, target : Nat]
        /\ d.at = "detect" /\ r.at = "restore" /\ d.target = latestCheckpoint /\ r.target = latestCheckpoint
    BY <1>4
  <1> HIDE DEF line, fail, d, r
  <1>6. KeysOK(addEvent(timeline, nextEventIdRef, line), nextEventIdRef + 1)
    BY <1>3, AddEventKeys DEF Lists
  <1>7. LinesOK(addLog(logs, fail), lastLogStepRef)
    <2>1. lastLogStepRef \in Nat /\ lastLogStepRef >= lastLogStepRef
      BY DEF Lists, LinesOK
    <2> QED
      BY <1>3, <2>1, AddLogLines DEF Lists
  <1>8. Lists' /\ Values(checkpoints) \subseteq Values(checkpoints)'
    <2>1. SavesOK(checkpoints, lastCheckpointRef)
      BY DEF Lists
    <2>2. /\ SavesOK(checkpoints', lastCheckpointRef') /\ KeysOK(timeline', nextEventIdRef')
          /\ LinesOK(logs', lastLogStepRef') /\ Values(checkpoints) \subseteq Values(checkpoints')
      BY <1>1, <1>2, <1>6, <1>7, <2>1, EffectKeepsOrder
    <2> QED
      BY <2>2 DEF Lists, Values
  <1>9. Types'
    BY <1>1, <1>2, <1>5 DEF Types, SimulationPhase, NoEffect
  <1>10. Recovery'
    <2>1. Interrupted'
      BY <1>1 DEF Interrupted
    <2>2. TimersBelongToRun'
      BY <1>1, <1>4, <1>5, <1>8, <2>1 DEF TimersBelongToRun
    <2> QED
      BY <1>1, <1>2, <1>5, <2>2 DEF Recovery
  <1> QED
    BY <1>8, <1>9, <1>10

\* The 900 ms timeout: only the one that restores is left.
LEMMA DemoDetect ==
  ASSUME DemoAssumption, Lists, Types, Recovery, DetectTimeout PROVE Lists' /\ Types' /\ Recovery'
  <1>1. PICK t \in timers : Detected(t, timers \ {t})
    BY DEF DetectTimeout
  <1>2. t.at = "detect" /\ t \in [at : {"detect", "restore"}, target : Nat]
    BY <1>1 DEF Detected, Types
  <1>3. /\ timers' = timers \ {t} /\ phase' = "recovering"
        /\ timeline' = addEvent(timeline, nextEventIdRef, Line("detected", 0))
        /\ nextEventIdRef' = nextEventIdRef + 1 /\ logs' = addLog(logs, Line("loading", t.target))
        /\ UNCHANGED <<step, checkpoints, killedWorker, killStep, restoredStep, recoverySeconds,
                       lastCheckpointRef, lastLogStepRef, queued, effect>>
    BY <1>1 DEF Detected, kill
  <1>4. Lists'
    <2> DEFINE line == Line("loading", t.target)
               label == Line("detected", 0)
    <2>1. line \in LogLine /\ line.tag # "step" /\ label \in LogLine
      BY <1>2 DEF Line, LogLine, Tag
    <2> HIDE DEF line, label
    <2>2. lastLogStepRef \in Nat /\ lastLogStepRef >= lastLogStepRef
      BY DEF Lists, LinesOK
    <2>3. LinesOK(addLog(logs, line), lastLogStepRef)
      BY <2>1, <2>2, AddLogLines DEF Lists
    <2>4. KeysOK(addEvent(timeline, nextEventIdRef, label), nextEventIdRef + 1)
      BY <2>1, AddEventKeys DEF Lists
    <2>5. SavesOK(checkpoints, lastCheckpointRef)'
      BY <1>3 DEF Lists, SavesOK, Increasing
    <2> QED
      BY <1>3, <2>3, <2>4, <2>5 DEF Lists, line, label
  <1>5. Types'
    BY <1>3 DEF Types, SimulationPhase
  <1>6. Recovery'
    <2>1. Interrupted /\ Interrupted'
      BY <1>3 DEF Interrupted, Recovery, TimersBelongToRun
    <2>2. \A u \in timers' : u.at = "restore" /\ u \in timers
      BY <1>2, <1>3 DEF Recovery, Types
    <2>3. \E u \in timers' : u.at = "restore"
      BY <1>2, <1>3, <2>1 DEF Recovery, TimersBelongToRun
    <2>4. TimersBelongToRun'
      BY <1>3, <2>1, <2>2, <2>3 DEF TimersBelongToRun, Recovery, Values
    <2> QED
      BY <1>3, <2>1, <2>2, <2>4 DEF Recovery
  <1> QED
    BY <1>4, <1>5, <1>6

\* The 3200 ms timeout: it was the last one, and its step is a checkpoint of this run.
LEMMA DemoRestore ==
  ASSUME DemoAssumption, Lists, Types, Recovery, RestoreTimeout PROVE Lists' /\ Types' /\ Recovery'
  <1>1. PICK t \in timers : Restored(t)
    BY DEF RestoreTimeout
  <1>2. /\ t.at = "restore" /\ \A u \in timers : u.at = "restore"
        /\ t \in [at : {"detect", "restore"}, target : Nat]
    BY <1>1 DEF Restored, Types
  <1>3. /\ timers' = timers \ {t} /\ step' = t.target /\ queued' = 0 /\ restoredStep' = t.target
        /\ phase' = "recovered" /\ recoverySeconds' = RECOVERY_SECONDS
        /\ timeline' = addEvent(timeline, nextEventIdRef, Line("resumed", t.target))
        /\ nextEventIdRef' = nextEventIdRef + 1 /\ logs' = addLog(logs, Line("complete", t.target))
        /\ effect' = [training |-> TRUE, step |-> t.target]
        /\ UNCHANGED <<checkpoints, killedWorker, killStep, lastCheckpointRef, lastLogStepRef>>
    BY <1>1 DEF Restored
  <1>4. Lists'
    <2> DEFINE line == Line("complete", t.target)
               label == Line("resumed", t.target)
    <2>1. line \in LogLine /\ line.tag # "step" /\ label \in LogLine
      BY <1>2 DEF Line, LogLine, Tag
    <2> HIDE DEF line, label
    <2>2. lastLogStepRef \in Nat /\ lastLogStepRef >= lastLogStepRef
      BY DEF Lists, LinesOK
    <2>3. LinesOK(addLog(logs, line), lastLogStepRef)
      BY <2>1, <2>2, AddLogLines DEF Lists
    <2>4. KeysOK(addEvent(timeline, nextEventIdRef, label), nextEventIdRef + 1)
      BY <2>1, AddEventKeys DEF Lists
    <2>5. SavesOK(checkpoints, lastCheckpointRef)'
      BY <1>3 DEF Lists, SavesOK, Increasing
    <2> QED
      BY <1>3, <2>3, <2>4, <2>5 DEF Lists, line, label
  <1>5. Types'
    BY <1>2, <1>3 DEF Types, SimulationPhase, RECOVERY_SECONDS, DemoAssumption
  <1>6. Recovery'
    <2>1. timers' = {}
      BY <1>2, <1>3 DEF Recovery
    <2>2. t.target \in Values(checkpoints)
      BY <1>1 DEF Recovery, TimersBelongToRun
    <2> QED
      BY <1>3, <2>1, <2>2 DEF Recovery, TimersBelongToRun, Interrupted, Values
  <1> QED
    BY <1>4, <1>5, <1>6

\* The training effect runs by itself.
LEMMA DemoEffect ==
  ASSUME DemoAssumption, Lists, Types, Recovery, RunEffect PROVE Lists' /\ Types' /\ Recovery'
  <1>1. /\ TrainingEffect(effect, checkpoints, timeline, logs, lastCheckpointRef, lastLogStepRef, nextEventIdRef)
        /\ effect' = NoEffect
        /\ UNCHANGED <<phase, step, killedWorker, killStep, restoredStep, recoverySeconds, timers, queued>>
    BY DEF RunEffect, kill
  <1>2. /\ effect \in [training : BOOLEAN, step : Nat] /\ SavesOK(checkpoints, lastCheckpointRef)
        /\ KeysOK(timeline, nextEventIdRef) /\ LinesOK(logs, lastLogStepRef)
    BY DEF Types, Lists
  <1>3. /\ SavesOK(checkpoints', lastCheckpointRef') /\ KeysOK(timeline', nextEventIdRef')
        /\ LinesOK(logs', lastLogStepRef') /\ Values(checkpoints) \subseteq Values(checkpoints')
    BY <1>1, <1>2, EffectKeepsOrder
  <1>4. Lists' /\ Values(checkpoints) \subseteq Values(checkpoints)'
    BY <1>3 DEF Lists, Values
  <1>5. Types'
    BY <1>1 DEF Types, NoEffect
  <1>6. Recovery'
    BY <1>1, <1>4 DEF Recovery, TimersBelongToRun, Interrupted
  <1> QED
    BY <1>4, <1>5, <1>6

\* The intervals and a render change no list.
LEMMA DemoTick ==
  ASSUME DemoAssumption, Lists, Types, Recovery, Tick \/ Render \/ Elapse \/ UNCHANGED vars
  PROVE  Lists' /\ Types' /\ Recovery'
  <1>1. UNCHANGED <<phase, checkpoints, timeline, logs, killedWorker, killStep, restoredStep,
                    lastCheckpointRef, lastLogStepRef, nextEventIdRef, timers>>
    BY DEF Tick, Render, Elapse, vars, feed, kill, refs
  <1>2. Lists'
    BY <1>1 DEF Lists, SavesOK, KeysOK, LinesOK, Increasing
  <1>3. Recovery'
    BY <1>1 DEF Recovery, TimersBelongToRun, Interrupted, Values
  <1>4. step \in Nat /\ queued \in 0..MaxQueued /\ recoverySeconds \in Nat /\ TickStep \in Nat /\ MaxQueued \in Nat
    BY DEF Types, DemoAssumption
  <1>5. step' \in Nat /\ queued' \in 0..MaxQueued /\ recoverySeconds' \in Nat
    <2>1. CASE Tick
      BY <1>4, <2>1 DEF Tick
    <2>2. CASE Render
      <3>1. queued * TickStep \in Nat
        BY <1>4
      <3> QED
        BY <1>4, <2>2, <3>1 DEF Render
    <2>3. CASE Elapse
      BY <1>4, <2>3 DEF Elapse
    <2>4. CASE UNCHANGED vars
      BY <1>4, <2>4 DEF vars
    <2> QED
      BY <2>1, <2>2, <2>3, <2>4
  <1>6. effect' \in [training : BOOLEAN, step : Nat]
    <2>1. CASE Render
      <3>1. effect' = [training |-> isTraining, step |-> step'] /\ isTraining \in BOOLEAN
        BY <2>1 DEF Render, isTraining
      <3> HIDE DEF isTraining
      <3> QED
        BY <1>5, <3>1
    <2>2. CASE ~Render
      BY <2>2 DEF Tick, Elapse, vars, Types
    <2> QED
      BY <2>1, <2>2
  <1>7. Types'
    BY <1>1, <1>5, <1>6 DEF Types
  <1> QED
    BY <1>2, <1>3, <1>7

\* Every step keeps the parts of the invariant.
LEMMA DemoNext ==
  ASSUME DemoAssumption, Lists, Types, Recovery, [Next]_vars
  PROVE  Lists' /\ Types' /\ Recovery'
  BY DemoStart, DemoLeave, DemoKill, DemoDetect, DemoRestore, DemoEffect, DemoTick
     DEF Next, Visitor, Browser

\* The lists, the timeouts and what is shown of a failure, whatever click overtakes
\* whatever effect.
THEOREM DemoInvariant ==
  ASSUME DemoAssumption PROVE Spec => []DemoInv
  <1>1. Init => Lists /\ Types /\ Recovery
    BY DemoInit
  <1>2. Lists /\ Types /\ Recovery /\ [Next]_vars => Lists' /\ Types' /\ Recovery'
    BY DemoNext
  <1>3. Lists /\ Types /\ Recovery => DemoInv
    BY PartsMakeInv
  <1> QED
    BY <1>1, <1>2, <1>3, PTL DEF Spec
-----------------------------------------------------------------------------
\* The label of a worker's button, by the phase of the page.
LEMMA ButtonLabels ==
  ASSUME DemoInv, NEW w
  PROVE  /\ Interrupted => KillButton(w) = IF killedWorker = w THEN "stopped" ELSE "paused"
         /\ ~Interrupted => /\ KillButton(w) \in {"kill", "restart to run again", "waiting for save"}
                            /\ KillButton(w) = "kill" => canKill
  <1>1. CASE Interrupted
    <2>1. CASE killedWorker = w
      BY <1>1, <2>1 DEF KillButton, isKilled, isPaused, Interrupted, canKill
    <2>2. CASE killedWorker # w
      BY <1>1, <2>2 DEF KillButton, isKilled, isPaused, Interrupted, canKill
    <2> QED
      BY <1>1, <2>1, <2>2
  <1>2. CASE ~Interrupted
    <2>1. ~isKilled(w) /\ ~isPaused(w)
      BY <1>2 DEF isKilled, isPaused
    <2>2. CASE canKill
      BY <1>2, <2>1, <2>2 DEF KillButton, canKill
    <2>3. CASE phase = "recovered"
      BY <1>2, <2>1, <2>3 DEF KillButton, canKill
    <2>4. CASE ~canKill /\ phase # "recovered"
      BY <1>2, <2>1, <2>4 DEF KillButton
    <2> QED
      BY <1>2, <2>2, <2>3, <2>4
  <1> QED
    BY <1>1, <1>2

\* What the page shows of a failure follows from the invariant.
LEMMA ScreenFollows ==
  ASSUME DemoAssumption, DemoInv PROVE ScreenConsistent
  <1>1. phase \in SimulationPhase /\ checkpoints \in Seq(Nat) /\ Worker # {} /\ None \notin Nat
    BY DEF DemoInv, TypeOK, DemoAssumption
  <1>2. ASSUME Interrupted
        PROVE  /\ killedWorker \in Worker /\ killStep \in Nat
               /\ \A w \in Worker : displayedStep(w) = killStep
               /\ \A w \in Worker : KillButton(w) = "stopped" <=> w = killedWorker
    <2>1. killedWorker \in Worker /\ killStep \in Nat /\ killStep # None
      BY <1>1, <1>2 DEF DemoInv
    <2>2. \A w \in Worker : displayedStep(w) = killStep
      BY <1>2, <2>1 DEF displayedStep, isKilled, isPaused
    <2>3. \A w \in Worker : KillButton(w) = "stopped" <=> w = killedWorker
      <3> TAKE w \in Worker
      <3>1. KillButton(w) = IF killedWorker = w THEN "stopped" ELSE "paused"
        BY <1>2, ButtonLabels
      <3> QED
        BY <3>1
    <2> QED
      BY <2>1, <2>2, <2>3
  <1>3. ASSUME NEW w \in Worker, KillButton(w) = "kill" PROVE Metrics.active = 2 /\ Metrics.checkpoints > 0
    <2>1. ~Interrupted
      <3>1. Interrupted => KillButton(w) = IF killedWorker = w THEN "stopped" ELSE "paused"
        BY ButtonLabels
      <3> QED
        BY <1>3, <3>1
    <2>2. canKill
      BY <1>3, <2>1, ButtonLabels
    <2>3. Len(checkpoints) > 0
      BY <1>1, <2>2, EmptySeq DEF canKill
    <2> QED
      BY <2>1, <2>3 DEF Metrics
  <1>4. RecoveredCard.shown => RecoveredCard.from \in Values(checkpoints)
    BY DEF RecoveredCard, DemoInv
  <1>5. phaseLabel = CASE phase = "idle" -> "READY" [] phase = "running" -> "RUNNING" [] phase = "failed" -> "FAILED"
                       [] phase = "recovering" -> "RECOVERING" [] phase = "recovered" -> "RESUMED"
    BY DEF phaseLabel
  <1>6. /\ phaseLabel = "RESUMED" <=> phase = "recovered"
        /\ phaseLabel \in {"FAILED", "RECOVERING"} <=> Interrupted
    BY <1>1, <1>5 DEF SimulationPhase, Interrupted
  <1>7. /\ Stages[1] = IF phase = "idle" THEN "active" ELSE "complete"
        /\ Stages[2] = IF phase = "idle" THEN "waiting" ELSE IF hasFailed THEN "complete" ELSE "active"
        /\ Stages[3] = IF phase = "recovered" THEN "complete"
                       ELSE IF phase \in {"failed", "recovering"} THEN "active" ELSE "waiting"
    BY DEF Stages
  <1>8. phaseLabel = "RESUMED" => \A number \in 1..3 : StageCard(number) = "done"
    <2> SUFFICES ASSUME phase = "recovered", NEW number \in 1..3 PROVE Stages[number] = "complete"
      BY <1>6 DEF StageCard
    <2>1. number = 1 \/ number = 2 \/ number = 3
      OBVIOUS
    <2> QED
      BY <1>7, <2>1 DEF hasFailed
  <1>9. StageCard(3) = "done" <=> SimulationPipeline[3] = "active"
    <2>1. StageCard(3) = "done" <=> phase = "recovered"
      BY <1>7 DEF StageCard
    <2>2. pipelineIndex = 3 <=> phase = "recovered"
      BY DEF pipelineIndex
    <2>3. SimulationPipeline[3] = "active" <=> 3 = pipelineIndex
      BY DEF SimulationPipeline
    <2> QED
      BY <2>1, <2>2, <2>3
  <1>10. Interrupted <=> \A w \in Worker : KillButton(w) \in {"stopped", "paused"}
    <2>1. ASSUME Interrupted, NEW w \in Worker PROVE KillButton(w) \in {"stopped", "paused"}
      <3>1. KillButton(w) = IF killedWorker = w THEN "stopped" ELSE "paused"
        BY <2>1, ButtonLabels
      <3> QED
        BY <3>1
    <2>2. ASSUME ~Interrupted, NEW w \in Worker PROVE KillButton(w) \notin {"stopped", "paused"}
      <3>1. KillButton(w) \in {"kill", "restart to run again", "waiting for save"}
        BY <2>2, ButtonLabels
      <3> QED
        BY <3>1
    <2> QED
      BY <1>1, <2>1, <2>2
  <1> QED
    BY <1>2, <1>3, <1>4, <1>6, <1>8, <1>9, <1>10 DEF ScreenConsistent

\* All the page promises follows from the invariant.
LEMMA InvRecovers ==
  ASSUME DemoAssumption, DemoInv PROVE RecoversFromASave
  BY ScreenFollows DEF DemoInv, RecoversFromASave

\* DemoPage: whatever click overtakes the effect of a render, save points increase, a
\* pending timeout restores a save of the run on the screen, no two entries of the timeline
\* share a key, and buttons, banner and cards agree.
THEOREM RecoveryIsFromASave ==
  ASSUME DemoAssumption PROVE Spec => []RecoversFromASave
  <1>1. DemoInv => RecoversFromASave
    BY InvRecovers
  <1> QED
    BY <1>1, DemoInvariant, PTL

\* What a step may do to the counter.
LEMMA CounterStep ==
  ASSUME DemoAssumption, DemoInv, [Next]_vars PROVE CounterMovesBackOnlyToASave
  <1>1. step \in Nat /\ queued \in Nat /\ TickStep \in Nat
    BY DEF DemoInv, TypeOK, DemoAssumption
  <1>2. CASE UNCHANGED step
    BY <1>1, <1>2 DEF CounterMovesBackOnlyToASave
  <1>3. CASE Render
    <2>1. queued * TickStep \in Nat
      BY <1>1
    <2> QED
      BY <1>1, <1>3, <2>1 DEF Render, CounterMovesBackOnlyToASave
  <1>4. CASE startSimulation
    BY <1>4 DEF startSimulation, CounterMovesBackOnlyToASave
  <1>5. CASE Leave
    BY <1>5 DEF Leave, CounterMovesBackOnlyToASave
  <1>6. CASE RestoreTimeout
    <2>1. PICK t \in timers : Restored(t)
      BY <1>6 DEF RestoreTimeout
    <2>2. Interrupted /\ t.target \in Values(checkpoints)
      BY <2>1 DEF DemoInv, TimersBelongToRun
    <2> QED
      BY <2>1, <2>2 DEF Restored, CounterMovesBackOnlyToASave
  <1> QED
    BY <1>2, <1>3, <1>4, <1>5, <1>6
       DEF Next, Visitor, Browser, killSimulatedWorker, Killed, DetectTimeout, Detected, Tick, RunEffect, Elapse, vars

\* The counter moves back only on a restart, on leaving, or to the save a recovery
\* restores.
THEOREM CounterMovesBack ==
  ASSUME DemoAssumption PROVE Spec => [][CounterMovesBackOnlyToASave]_vars
  <1>1. DemoInv /\ [Next]_vars => CounterMovesBackOnlyToASave
    BY CounterStep
  <1> QED
    BY <1>1, DemoInvariant, PTL DEF Spec
-----------------------------------------------------------------------------
\* What the training effect saves.
LEMMA EffectSaves ==
  ASSUME DemoAssumption, NEW e \in [training : BOOLEAN, step : Nat], NEW ckpts \in Seq(Nat),
         NEW tl, NEW lg, NEW lastCkpt, NEW lastLog, NEW id,
         TrainingEffect(e, ckpts, tl, lg, lastCkpt, lastLog, id)
  PROVE  /\ Saves(e, lastCkpt) => /\ e.training /\ checkpoints' # <<>>
                                  /\ lastCheckpointRef' = RoundDown(e.step, SaveEvery)
                                  /\ checkpoints'[Len(checkpoints')] = lastCheckpointRef'
         /\ ~Saves(e, lastCkpt) => checkpoints' = ckpts /\ lastCheckpointRef' = lastCkpt
  <1> DEFINE c == RoundDown(e.step, SaveEvery)
             app == Append(ckpts, c)
  <1>1. /\ lastCheckpointRef' = IF Saves(e, lastCkpt) THEN c ELSE lastCkpt
        /\ checkpoints' = IF Saves(e, lastCkpt) THEN app ELSE ckpts
    BY DEF TrainingEffect
  <1>2. c \in Nat
    BY RoundDownFacts DEF DemoAssumption
  <1> HIDE DEF c
  <1>3. app # <<>> /\ app[Len(app)] = c
    BY <1>2
  <1>4. Saves(e, lastCkpt) => e.training
    BY DEF Saves
  <1> HIDE DEF app
  <1> QED
    BY <1>1, <1>3, <1>4 DEF c

\* With effects that run before the next click, every step keeps PromptInv.
LEMMA PromptStep ==
  ASSUME DemoAssumption, ~LateEffects, DemoInv, PromptInv, [Next]_vars PROVE PromptInv'
  <1>1. /\ step \in Nat /\ queued \in Nat /\ TickStep \in Nat /\ SaveEvery \in Nat \ {0}
        /\ lastCheckpointRef \in Nat /\ phase \in SimulationPhase /\ checkpoints \in Seq(Nat)
        /\ effect \in [training : BOOLEAN, step : Nat] /\ None \notin Nat
    BY DEF DemoInv, TypeOK, DemoAssumption
  <1>2. ~NoEffect.training /\ \A n : [training |-> TRUE, step |-> n] # NoEffect
    <2> SUFFICES ASSUME NEW n PROVE [training |-> TRUE, step |-> n].training # NoEffect.training
      BY DEF NoEffect
    <2> QED
      BY DEF NoEffect
  <1>3. Settled => effect = NoEffect
    BY DEF Settled
  <1>4. CASE Tick \/ Elapse \/ UNCHANGED vars
    <2>1. UNCHANGED <<phase, step, checkpoints, lastCheckpointRef, killStep, restoredStep, timers, effect>>
      BY <1>4 DEF Tick, Elapse, vars, feed, kill, refs
    <2> QED
      BY <2>1 DEF PromptInv, latestCheckpoint, Interrupted, LosesLessThanOneInterval, Banner
  <1>5. CASE Render
    <2>1. /\ step' = step + queued * TickStep /\ effect = NoEffect
          /\ effect' = [training |-> isTraining, step |-> step']
          /\ UNCHANGED <<phase, checkpoints, lastCheckpointRef, killStep, restoredStep, timers>>
      BY <1>5 DEF Render, feed, kill, refs
    <2>2. queued * TickStep \in Nat
      BY <1>1
    <2>3. step' \in Nat /\ step' >= step
      BY <1>1, <2>1, <2>2
    <2>4. checkpoints' # <<>> => lastCheckpointRef' = latestCheckpoint'
      BY <2>1 DEF PromptInv, latestCheckpoint
    <2>5. ASSUME phase' = "running"
          PROVE  /\ RoundDown(step', SaveEvery) >= lastCheckpointRef'
                 /\ effect' = [training |-> TRUE, step |-> step'] /\ effect' # NoEffect
      <3>1. RoundDown(step, SaveEvery) <= RoundDown(step', SaveEvery)
        BY <1>1, <2>3, RoundDownMonotone
      <3>2. RoundDown(step, SaveEvery) = lastCheckpointRef
        BY <2>1, <2>5 DEF PromptInv
      <3>3. isTraining = TRUE
        BY <2>1, <2>5 DEF isTraining
      <3>4. effect' = [training |-> TRUE, step |-> step']
        BY <2>1, <3>3
      <3>5. RoundDown(step', SaveEvery) \in Nat
        BY <1>1, <2>3, RoundDownFacts
      <3> QED
        BY <1>1, <1>2, <2>1, <3>1, <3>2, <3>4, <3>5
    <2>6. ASSUME Interrupted'
          PROVE  /\ ~effect'.training /\ killStep' >= lastCheckpointRef' /\ killStep' - lastCheckpointRef' < SaveEvery
                 /\ \A t \in timers' : t.target = latestCheckpoint'
      <3>1. Interrupted /\ isTraining = FALSE
        BY <2>1, <2>6 DEF Interrupted, isTraining
      <3>2. effect'.training = FALSE
        BY <2>1, <3>1
      <3> QED
        BY <2>1, <3>1, <3>2 DEF PromptInv, latestCheckpoint
    <2>7. LosesLessThanOneInterval'
      <3>1. phase = "recovered" => restoredStep \in Nat
        BY <1>1, ElementOfSeq DEF DemoInv, Values
      <3>2. phase = "recovered" => step' >= restoredStep
        BY <1>1, <2>3, <3>1 DEF PromptInv, LosesLessThanOneInterval
      <3> QED
        BY <2>1, <3>2 DEF PromptInv, LosesLessThanOneInterval, Banner, latestCheckpoint
    <2> QED
      BY <2>4, <2>5, <2>6, <2>7 DEF PromptInv
  <1>6. CASE RunEffect
    <2>1. /\ effect # NoEffect /\ effect' = NoEffect
          /\ TrainingEffect(effect, checkpoints, timeline, logs, lastCheckpointRef, lastLogStepRef, nextEventIdRef)
          /\ UNCHANGED <<phase, step, killStep, restoredStep, timers>>
      BY <1>6 DEF RunEffect, kill
    <2>2. /\ Saves(effect, lastCheckpointRef) =>
               /\ effect.training /\ checkpoints' # <<>>
               /\ lastCheckpointRef' = RoundDown(effect.step, SaveEvery)
               /\ checkpoints'[Len(checkpoints')] = lastCheckpointRef'
          /\ ~Saves(effect, lastCheckpointRef) => checkpoints' = checkpoints /\ lastCheckpointRef' = lastCheckpointRef
      BY <1>1, <2>1, EffectSaves
    <2>3. checkpoints' # <<>> => lastCheckpointRef' = latestCheckpoint'
      BY <2>2 DEF PromptInv, latestCheckpoint
    <2>4. ASSUME phase' = "running" PROVE RoundDown(step', SaveEvery) = lastCheckpointRef'
      <3> DEFINE d == RoundDown(step, SaveEvery)
      <3>1. effect = [training |-> TRUE, step |-> step] /\ d >= lastCheckpointRef
        BY <2>1, <2>4 DEF PromptInv
      <3>2. effect.training /\ effect.step = step
        BY <3>1
      <3>3. d \in Nat /\ d <= step /\ (d < SaveEvery => d = 0)
        BY <1>1, RoundDownFacts
      <3>4. Saves(effect, lastCheckpointRef) <=> step # 0 /\ d >= SaveEvery /\ d > lastCheckpointRef
        BY <3>2 DEF Saves
      <3> HIDE DEF d
      <3>5. Saves(effect, lastCheckpointRef) => lastCheckpointRef' = d
        BY <2>2, <3>2 DEF d
      <3>6. ~Saves(effect, lastCheckpointRef) => lastCheckpointRef = d
        BY <1>1, <3>1, <3>3, <3>4
      <3> QED
        BY <2>1, <2>2, <3>5, <3>6 DEF d
    <2>5. ASSUME Interrupted'
          PROVE  /\ ~effect'.training /\ killStep' >= lastCheckpointRef' /\ killStep' - lastCheckpointRef' < SaveEvery
                 /\ \A t \in timers' : t.target = latestCheckpoint'
      <3>1. Interrupted
        BY <2>1, <2>5 DEF Interrupted
      <3>2. checkpoints' = checkpoints /\ lastCheckpointRef' = lastCheckpointRef
        BY <2>2, <3>1 DEF PromptInv
      <3> QED
        BY <1>2, <2>1, <3>1, <3>2 DEF PromptInv, latestCheckpoint
    <2>6. LosesLessThanOneInterval'
      <3>1. phase = "recovering" => checkpoints' = checkpoints
        BY <2>2 DEF PromptInv, Interrupted
      <3> QED
        BY <2>1, <3>1 DEF PromptInv, LosesLessThanOneInterval, Banner, latestCheckpoint
    <2>7. phase' = "running" => RoundDown(step', SaveEvery) >= lastCheckpointRef'
      <3>1. RoundDown(step', SaveEvery) \in Nat
        BY <1>1, <2>1, RoundDownFacts
      <3> QED
        BY <2>4, <3>1
    <2> QED
      BY <2>1, <2>3, <2>4, <2>5, <2>6, <2>7 DEF PromptInv
  <1>7. CASE startSimulation
    <2>1. /\ phase' = "running" /\ step' = 0 /\ effect = NoEffect /\ effect' = NoEffect
          /\ TrainingEffect(effect, <<>>, <<Entry(0, Line("started", 0))>>, InitialLogs, 0, 0, 1)
      BY <1>3, <1>7 DEF startSimulation
    <2>2. ~Saves(effect, 0)
      BY <1>2, <2>1 DEF Saves
    <2>3. checkpoints' = <<>> /\ lastCheckpointRef' = 0
      <3>1. <<>> \in Seq(Nat)
        OBVIOUS
      <3> QED
        BY <1>1, <2>1, <2>2, <3>1, EffectSaves
    <2>4. RoundDown(0, SaveEvery) = 0
      BY <1>1, RoundDownFacts
    <2> QED
      BY <2>1, <2>3, <2>4 DEF PromptInv, Interrupted, LosesLessThanOneInterval
  <1>8. CASE Leave
    BY <1>8 DEF Leave, PromptInv, Interrupted, LosesLessThanOneInterval
  <1>9. ASSUME NEW w \in Worker, killSimulatedWorker(w) PROVE PromptInv'
    <2>1. /\ phase = "running" /\ checkpoints # <<>> /\ effect = NoEffect /\ effect' = NoEffect
          /\ phase' = "failed" /\ killStep' = step
          /\ timers' = {[at |-> "detect", target |-> latestCheckpoint], [at |-> "restore", target |-> latestCheckpoint]}
          /\ TrainingEffect(effect, checkpoints, addEvent(timeline, nextEventIdRef, Line("killed", step)),
                            addLog(logs, Line("failure", step)),
                            lastCheckpointRef, lastLogStepRef, nextEventIdRef + 1)
      BY <1>3, <1>9 DEF killSimulatedWorker, Killed, canKill
    <2>2. ~Saves(effect, lastCheckpointRef)
      BY <1>2, <2>1 DEF Saves
    <2>3. checkpoints' = checkpoints /\ lastCheckpointRef' = lastCheckpointRef
      BY <1>1, <2>1, <2>2, EffectSaves
    <2>4. RoundDown(step, SaveEvery) = lastCheckpointRef /\ lastCheckpointRef = latestCheckpoint
      BY <2>1 DEF PromptInv
    <2>5. killStep' >= lastCheckpointRef' /\ killStep' - lastCheckpointRef' < SaveEvery
      BY <1>1, <2>1, <2>3, <2>4, RoundDownFacts
    <2>6. latestCheckpoint' = latestCheckpoint
      BY <2>3 DEF latestCheckpoint
    <2>7. \A t \in timers' : t.target = latestCheckpoint'
      BY <2>1, <2>6
    <2>8. ~effect'.training
      BY <1>2, <2>1
    <2> QED
      BY <2>1, <2>3, <2>4, <2>5, <2>6, <2>7, <2>8 DEF PromptInv, LosesLessThanOneInterval
  <1>10. CASE DetectTimeout
    <2>1. PICK t \in timers : Detected(t, timers \ {t})
      BY <1>10 DEF DetectTimeout
    <2>2. /\ timers' = timers \ {t} /\ phase' = "recovering"
          /\ UNCHANGED <<step, checkpoints, killStep, lastCheckpointRef, effect>>
      BY <2>1 DEF Detected, kill
    <2>3. Interrupted /\ t.target \in Values(checkpoints)
      BY <2>1 DEF DemoInv, TimersBelongToRun
    <2>4. checkpoints # <<>>
      BY <2>3 DEF Values
    <2>5. latestCheckpoint' = latestCheckpoint
      BY <2>2 DEF latestCheckpoint
    <2>6. \A u \in timers' : u.target = latestCheckpoint'
      BY <2>2, <2>3, <2>5 DEF PromptInv
    <2>7. LosesLessThanOneInterval'
      BY <2>2, <2>4, <2>6 DEF LosesLessThanOneInterval, Banner
    <2> QED
      BY <2>2, <2>3, <2>5, <2>6, <2>7 DEF PromptInv
  <1>11. CASE RestoreTimeout
    <2>1. PICK t \in timers : Restored(t)
      BY <1>11 DEF RestoreTimeout
    <2>2. /\ phase' = "recovered" /\ step' = t.target /\ restoredStep' = t.target
          /\ UNCHANGED <<checkpoints, killStep, lastCheckpointRef>>
      BY <2>1 DEF Restored
    <2>3. Interrupted /\ t.target \in Values(checkpoints)
      BY <2>1 DEF DemoInv, TimersBelongToRun
    <2>4. checkpoints # <<>>
      BY <2>3 DEF Values
    <2>5. t.target = lastCheckpointRef /\ killStep >= lastCheckpointRef /\ killStep - lastCheckpointRef < SaveEvery
      BY <2>1, <2>3, <2>4 DEF PromptInv
    <2>6. killStep \in Nat
      BY <2>3 DEF DemoInv
    <2>7. LosesLessThanOneInterval'
      BY <1>1, <2>2, <2>5, <2>6 DEF LosesLessThanOneInterval
    <2>8. ~Interrupted' /\ phase' # "running"
      BY <2>2 DEF Interrupted
    <2>9. checkpoints' # <<>> => lastCheckpointRef' = latestCheckpoint'
      BY <2>2 DEF PromptInv, latestCheckpoint
    <2> QED
      BY <2>2, <2>7, <2>8, <2>9 DEF PromptInv
  <1> QED
    BY <1>4, <1>5, <1>6, <1>7, <1>8, <1>9, <1>10, <1>11 DEF Next, Visitor, Browser

\* Nothing is lost yet when the page is opened.
LEMMA PromptInit == Init => PromptInv
  BY DEF Init, PromptInv, Interrupted, LosesLessThanOneInterval

\* DemoPage: when effects run before the next click, a recovery loses less than one save
\* interval, never jumps ahead, and restores what the banner announced; for every interval
\* and however many ticks are rendered at once.
THEOREM LosesLittle ==
  ASSUME DemoAssumption, ~LateEffects PROVE Spec => []LosesLessThanOneInterval
  <1>1. Init => PromptInv
    BY PromptInit
  <1>2. DemoInv /\ PromptInv /\ [Next]_vars => PromptInv'
    BY PromptStep
  <1>3. PromptInv => LosesLessThanOneInterval
    BY DEF PromptInv
  <1> QED
    BY <1>1, <1>2, <1>3, DemoInvariant, PTL DEF Spec
=============================================================================
