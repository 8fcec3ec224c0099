------------------------------ MODULE WebPages ------------------------------
(***************************************************************************)
(* The pages of the web console.  The router of App.tsx mounts one page at *)
(* a time, and a page that is not mounted has no state: a behaviour is one *)
(* visit, the variables of the other pages are None, and what a page calls *)
(* `checkpoints', `loading' or `error' is its own.                         *)
(*                                                                         *)
(* Each visit has its own instance of the page's module; what it may use   *)
(* and how often is a function of the visit.                               *)
(***************************************************************************)
EXTENDS Integers, FiniteSets

CONSTANTS
  Visits,              \* the visits that are made
  None, Failed, NotOk, Rejected,
  \* for each visit
  Runs, Starts,        \* runs, and the states they may be in when the console is opened
  Slots,               \* calls or rounds in flight
  Workers, Changes, Faults,
  \* CheckpointBrowser
  MaxCkpt,
  \* DemoSimulation
  TickStep, LogEvery, SaveEvery, TimelineCap, LogCap, MaxStep, MaxQueued, MaxElapsed,
  \* AppShell
  Paths, Height, Hosted, MaxMoves, MaxClicks

VARIABLES
  visit,
  \* shared by name
  checkpoints, loading, error, faults, rounds,
  \* RunConsole
  runState, version, ckpts, route, list, run, modal, calls,
  \* CheckpointBrowser
  made, state, deleted, expanded,
  \* MetricsPages
  clock, etcdUp, dataplane, status, lag, all, committed, saves, shown,
  \* DemoSimulation
  phase, step, timeline, logs, killedWorker, killStep, restoredStep, recoverySeconds,
  lastCheckpointRef, lastLogStepRef, nextEventIdRef, timers, queued, effect,
  \* AppShell
  path, prevPath, scrollPositions, scrollY, chunks, menuOpen, panel, wide, html, stored,
  desktop, mobile, left, moves, clicks

feeds == <<loading, error, faults>>
console == <<runState, version, ckpts, route, list, run, modal, calls>>
browser == <<made, state, deleted, expanded>>
metrics == <<clock, etcdUp, dataplane, status, lag, all, committed, saves, shown>>
demo == <<phase, step, timeline, logs, killedWorker, killStep, restoredStep, recoverySeconds,
          lastCheckpointRef, lastLogStepRef, nextEventIdRef, timers, queued, effect>>
shell == <<path, prevPath, scrollPositions, scrollY, chunks, menuOpen, panel, wide, html, stored,
           desktop, mobile, left, moves, clicks>>
vars == <<visit, checkpoints, feeds, rounds, console, browser, metrics, demo, shell>>

consoleVars == <<checkpoints, feeds, console>>
browserVars == <<checkpoints, feeds, rounds, browser>>
metricsVars == <<feeds, rounds, metrics>>
demoVars == <<checkpoints, demo>>
-----------------------------------------------------------------------------
\* One operator: runs as Starts has them; the same with other bounds; and a history that
\* jumps between the pages of two runs.
Console == INSTANCE RunConsoleProofs WITH HistoryJumps <- FALSE, Run <- Runs["console"],
  Slot <- Slots["console"], MaxChanges <- Changes["console"], MaxFaults <- Faults["console"]
TwoRuns == INSTANCE RunConsoleProofs WITH HistoryJumps <- FALSE, Run <- Runs["two runs"],
  Slot <- Slots["two runs"], MaxChanges <- Changes["two runs"], MaxFaults <- Faults["two runs"]
Jumps == INSTANCE RunConsoleProofs WITH HistoryJumps <- TRUE, Run <- Runs["jumps"],
  Slot <- Slots["jumps"], MaxChanges <- Changes["jumps"], MaxFaults <- Faults["jumps"]
Browser == INSTANCE CheckpointBrowser WITH Run <- Runs["browser"], Slot <- Slots["browser"],
  MaxFaults <- Faults["browser"]
\* One round at a time, or overlapping ones; the control plane changes, calls fail.
Health == INSTANCE PagesProofs WITH Page <- "HealthPage", Worker <- Workers["health"],
  Slot <- Slots["health"], MaxChanges <- Changes["health"], MaxFaults <- Faults["health"]
Overlap == INSTANCE PagesProofs WITH Page <- "HealthPage", Worker <- Workers["overlap"],
  Slot <- Slots["overlap"], MaxChanges <- Changes["overlap"], MaxFaults <- Faults["overlap"]
Performance == INSTANCE PagesProofs WITH Page <- "PerformancePage", Worker <- Workers["performance"],
  Slot <- Slots["performance"], MaxChanges <- Changes["performance"], MaxFaults <- Faults["performance"]
\* With effects that a click may overtake, and without.
Demo == INSTANCE DemoProofs WITH LateEffects <- TRUE, Worker <- Workers["demo"]
Prompt == INSTANCE DemoProofs WITH LateEffects <- FALSE, Worker <- Workers["prompt"], MaxQueued <- 1
Shell == INSTANCE AppShell WITH Page <- Paths

OneAtATime(v) == \A s, t \in Slots[v] : s = t

ASSUME PagesAssumption ==
  /\ Console!ConsoleAssumption /\ TwoRuns!ConsoleAssumption /\ Jumps!ConsoleAssumption
  /\ Starts["console"] \subseteq Console!RunState \cup {Console!RL!NoRun}
  /\ Starts["two runs"] \subseteq TwoRuns!RunState \cup {TwoRuns!RL!NoRun}
  /\ Starts["jumps"] \subseteq Jumps!RunState \cup {Jumps!RL!NoRun}
  /\ Browser!BrowserAssumption
  /\ Health!PageAssumption /\ Overlap!PageAssumption /\ Performance!PageAssumption
  /\ OneAtATime("health")
  /\ Demo!DemoAssumption /\ Prompt!DemoAssumption
  /\ Shell!ShellAssumption
-----------------------------------------------------------------------------
NoFeed == loading = None /\ error = None /\ faults = None
NoConsole == /\ runState = None /\ version = None /\ ckpts = None /\ route = None /\ list = None
             /\ run = None /\ modal = None /\ calls = None
NoBrowser == made = None /\ state = None /\ deleted = None /\ expanded = None
NoMetrics == /\ clock = None /\ etcdUp = None /\ dataplane = None /\ status = None /\ lag = None
             /\ all = None /\ committed = None /\ saves = None /\ shown = None
NoDemo == /\ phase = None /\ step = None /\ timeline = None /\ logs = None /\ killedWorker = None
          /\ killStep = None /\ restoredStep = None /\ recoverySeconds = None
          /\ lastCheckpointRef = None /\ lastLogStepRef = None /\ nextEventIdRef = None
          /\ timers = None /\ queued = None /\ effect = None
NoShell == /\ path = None /\ prevPath = None /\ scrollPositions = None /\ scrollY = None
           /\ chunks = None /\ menuOpen = None /\ panel = None /\ wide = None /\ html = None
           /\ stored = None /\ desktop = None /\ mobile = None /\ left = None /\ moves = None
           /\ clicks = None

On(v) == visit = v

Init ==
  /\ visit \in Visits
  /\ \/ /\ \/ On("console") /\ Console!InitFrom(Starts["console"])
           \/ On("two runs") /\ TwoRuns!InitFrom(Starts["two runs"])
           \/ On("jumps") /\ Jumps!InitFrom(Starts["jumps"])
        /\ rounds = None /\ NoBrowser /\ NoMetrics /\ NoDemo /\ NoShell
     \/ /\ On("browser") /\ Browser!Init
        /\ NoConsole /\ NoMetrics /\ NoDemo /\ NoShell
     \/ /\ \/ On("health") /\ Health!Init
           \/ On("overlap") /\ Overlap!Init
           \/ On("performance") /\ Performance!Init
        /\ checkpoints = None /\ NoConsole /\ NoBrowser /\ NoDemo /\ NoShell
     \/ /\ \/ On("demo") /\ Demo!Init
           \/ On("prompt") /\ Prompt!Init
        /\ rounds = None /\ NoFeed /\ NoConsole /\ NoBrowser /\ NoMetrics /\ NoShell
     \/ /\ On("shell") /\ Shell!Init
        /\ checkpoints = None /\ rounds = None
        /\ NoFeed /\ NoConsole /\ NoBrowser /\ NoMetrics /\ NoDemo

ConsoleStep ==
  \/ On("console") /\ Console!Next
  \/ On("two runs") /\ TwoRuns!Next
  \/ On("jumps") /\ Jumps!Next
BrowserStep == On("browser") /\ Browser!Next
MetricsStep ==
  \/ On("health") /\ Health!Next
  \/ On("overlap") /\ Overlap!Next
  \/ On("performance") /\ Performance!Next
DemoStep ==
  \/ On("demo") /\ Demo!Next
  \/ On("prompt") /\ Prompt!Next
ShellStep == On("shell") /\ Shell!Next

Next ==
  \/ ConsoleStep /\ UNCHANGED <<visit, rounds, browser, metrics, demo, shell>>
  \/ BrowserStep /\ UNCHANGED <<visit, console, metrics, demo, shell>>
  \/ MetricsStep /\ UNCHANGED <<visit, checkpoints, console, browser, demo, shell>>
  \/ DemoStep /\ UNCHANGED <<visit, feeds, rounds, console, browser, metrics, shell>>
  \/ ShellStep /\ UNCHANGED <<visit, checkpoints, feeds, rounds, console, browser, metrics, demo>>

Spec == Init /\ [][Next]_vars

\* Intervals fire, the server answers, continuations run, and React runs what it has
\* scheduled; nobody has to click, and no call has to fail.
FairSpec ==
  /\ Spec
  /\ \A s \in Slots["jumps"] :
       /\ WF_consoleVars(On("jumps") /\ Jumps!Poll(s)) /\ WF_consoleVars(On("jumps") /\ Jumps!Answer(s))
       /\ WF_consoleVars(On("jumps") /\ Jumps!Continue(s))
  /\ \A s \in Slots["browser"] :
       /\ WF_browserVars(On("browser") /\ Browser!Poll(s)) /\ WF_browserVars(On("browser") /\ Browser!AnswerRuns(s))
       /\ WF_browserVars(On("browser") /\ Browser!Store(s))
       /\ \A r \in Runs["browser"] : WF_browserVars(On("browser") /\ Browser!AnswerList(s, r))
  /\ \A s \in Slots["overlap"] :
       /\ WF_metricsVars(On("overlap") /\ Overlap!Poll(s))
       /\ WF_metricsVars(On("overlap") /\ (Overlap!Catch(s) \/ Overlap!Store(s)))
       /\ \A p \in Overlap!Parts : WF_metricsVars(On("overlap") /\ Overlap!Answer(s, p))
  /\ \A s \in Slots["performance"] :
       /\ WF_metricsVars(On("performance") /\ Performance!Poll(s))
       /\ WF_metricsVars(On("performance") /\ (Performance!Catch(s) \/ Performance!Store(s)))
       /\ \A p \in Performance!Parts : WF_metricsVars(On("performance") /\ Performance!Answer(s, p))
  /\ WF_demoVars(On("demo") /\ Demo!Render) /\ WF_demoVars(On("demo") /\ Demo!RunEffect)
  /\ WF_demoVars(On("demo") /\ Demo!DetectTimeout) /\ WF_demoVars(On("demo") /\ Demo!RestoreTimeout)
  /\ WF_shell(On("shell") /\ Shell!Redirect)
-----------------------------------------------------------------------------
(* Safety.  The pages' modules comment on their own properties in detail. *)

\* Every page's state is well typed: what useState, useRef, the intervals and the
\* calls in flight may hold.
TypeOK ==
  /\ On("console") => Console!TypeOK
  /\ On("two runs") => TwoRuns!TypeOK
  /\ On("browser") => Browser!TypeOK
  /\ On("health") => Health!TypeOK
  /\ On("performance") => Performance!TypeOK
  /\ On("demo") => Demo!TypeOK
  /\ On("shell") => Shell!TypeOK

\* RunsPage, RunDetailPage, NewRunModal: what an operator does goes to the run that is
\* displayed, also when answers for another run are still on the way; it is sent once;
\* and it is accepted if the run has not changed since it was displayed, except for three
\* buttons the server never honours.
ActsOnWhatItShows ==
  /\ On("console") => Console!OfferedIsAccepted /\ Console!ConsoleInv
  /\ On("two runs") => TwoRuns!OfferedIsAccepted /\ TwoRuns!ActsOnWhatItShows /\ TwoRuns!ConsoleInv
  /\ On("jumps") => Jumps!ConsoleInv
\* What a page shows as saved is stored: a checkpoint labelled "Saved" is committed at the
\* server now, however old the answer; and the theme shown is the one in localStorage,
\* whichever of two buttons was clicked and however stale it is.
SavedIsSaved ==
  /\ On("console") => Console!SavedIsSaved
  /\ On("two runs") => TwoRuns!SavedIsSaved
  /\ On("browser") => Browser!SavedIsSaved
  /\ On("shell") => Shell!StoredIsShown
\* Once its spinner is gone a page shows an error or everything it requires, however
\* rounds overlapped, failed or broke off half-way; checkpoints newest first, and bars
\* within their track although the counts they compare are not taken at once.  The menu
\* marks the page that is shown.
NothingMissing ==
  /\ On("console") => Console!NeverBlank
  /\ On("two runs") => TwoRuns!NeverBlank
  /\ On("browser") => Browser!NewestFirst /\ Browser!BrowserInv
  /\ On("overlap") => Overlap!WatchInv
  /\ On("health") => Health!WatchInv /\ Health!OneRoundInv /\ Health!BarsInRange
  /\ On("performance") => Performance!WatchInv /\ Performance!BarsInRange
  /\ On("shell") => Shell!MarksThePage /\ Shell!ShellInv
\* DemoPage: save points increase whatever click overtakes the effect of a render, a
\* pending timeout belongs to the recovery on the screen, buttons, banner and cards agree,
\* no two entries of the timeline share a key; and when effects run before the next click
\* a recovery loses less than one interval.
RecoversFromASave ==
  /\ On("demo") => Demo!RecoversFromASave /\ Demo!DemoInv
  /\ On("prompt") => Prompt!LosesLessThanOneInterval /\ Prompt!PromptInv

\* Whatever is clicked on however old a display, every step of a run is one of
\* RunLifecycle's.
RunFollowsLifecycle ==
  [][/\ On("console") => Console!RunFollowsLifecycle
     /\ On("two runs") => TwoRuns!RunFollowsLifecycle]_vars
\* While rounds do not overlap, the health page replaces nothing by something older and a
\* round that ends without an error is all it shows; the demo's counter moves back only on
\* a restart or to the save a recovery restores.
NeverGoesBack ==
  [][/\ On("health") => Health!NeverGoesBack /\ Health!EndsAsOneRound
     /\ On("demo") => Demo!CounterMovesBackOnlyToASave]_vars
\* What the visitor left is found again: rows stay open or closed when a poll moves them,
\* a page is shown where it was left if the page it was left for was high enough and it
\* has its full height at once, and a change of the path leaves no menu open.
KeepsItsPlace ==
  [][/\ On("browser") => Browser!RowsKeepTheirState
     /\ On("shell") => Shell!ShownWhereLeft /\ Shell!MenuEnds]_vars
-----------------------------------------------------------------------------
(* Liveness *)

\* A page that stays open ends up showing what the server holds, or an outage that lasts,
\* although old answers may overwrite new ones on the way: the list of runs, a run's page
\* also after a jump from another run's, the checkpoints, the metrics.
PagesCatchUp ==
  /\ <>[](On("jumps") => route = "runs") => <>[](On("jumps") => Jumps!ListIsCurrent)
  /\ \A r \in Runs["jumps"] : <>[](On("jumps") => route = r) => <>[](On("jumps") => Jumps!DetailIsCurrent(r))
  /\ <>[](On("browser") => Browser!ListIsCurrent)
  /\ <>[](On("overlap") => etcdUp) => <>[](On("overlap") => Overlap!PageIsCurrent)
  /\ <>[](On("overlap") => ~etcdUp) => <>[](On("overlap") => error)
  /\ <>[](On("performance") => etcdUp) => <>[](On("performance") => Performance!PageIsCurrent)
\* A killed worker of the demo comes back unless the visitor restarts or leaves; on the
\* hosted site a visit to an operator page ends elsewhere, and loads none of its modules.
NoVisitIsStuck ==
  /\ (On("demo") /\ phase = "failed") ~> (On("demo") /\ phase \in {"recovered", "running", "idle"})
  /\ Hosted => (On("shell") /\ path \in Shell!Operator)
       ~> (On("shell") /\ path \notin Shell!Operator /\ chunks = {})
=============================================================================
