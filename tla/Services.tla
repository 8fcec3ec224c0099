------------------------------ MODULE Services ------------------------------
(***************************************************************************)
(* The streams and the demo endpoints of the control plane, each with the  *)
(* panel that shows it, the retention loop, and the data plane's streaming *)
(* write.  They share neither state nor locks: a behaviour follows one of  *)
(* them, `service', and the variables of the others are None; constants    *)
(* and variables have the names they have in the modules, and what is      *)
(* called the same in two modules is one variable here.                    *)
(*                                                                         *)
(* Each service has one instance of its module per question, with the      *)
(* bounds that let its interesting cases happen.                           *)
(***************************************************************************)
EXTENDS Integers, FiniteSets, Sequences

CONSTANTS
  Watched,             \* the services that are followed
  None, Error, Due,
  \* EventFeed
  Run, Conn, QueueMax, MAX_EVENTS, MaxEvents, MaxBreaks,
  \* LogFeed
  Worker, Rank0, MaxStep, CkptEvery, TailLines, MAX_LOSS, MAX_CKPT, MAX_RESTORE, MaxCrashes,
  \* LogPane
  MAX_LINES, View, Near, MaxMessages, MaxScrolls,
  \* Visitors
  Tab, StaleAfter, MAX_FEED, MAX_LISTED, MaxFlight, MaxLost, MaxMoves,
  \* KillDemo
  RestartAlways, MaxKills,
  \* Retention
  Ckpt, Owner, keep_committed_per_run, keep_runs, orphan_grace, UploadTime, ListTime, Batch,
  MaxTime, LastWrite, MaxFaults,
  \* PrefixRange
  MaxByte, MaxLen,
  \* StoragePanel
  Keys, MaxKeys, MaxClicks, MaxWrites,
  \* ShardStream
  Calls, max_depth, MULTIPART_PART_SIZE, ChannelSize, ChunkSizes, MaxBytes, MaxChunks, MaxResets

VARIABLES
  service,
  \* shared by name
  open, breaks, flight, faults,
  \* EventFeed
  published, subs, wire, runId, es, arrived, events, missed,
  \* LogFeed
  log, step, saved, active, pos, seenSteps, lossHistory, checkpointMarkers, recoveryMarkers, crashes,
  \* LogPane
  queued, nextScrolled, lines, userScrolled, effect, scrollTop, event, received, scrolls,
  \* Visitors
  due, visitors, feed, answers, shown, items, announced, repeated, lost, moves,
  \* KillDemo
  container, run, lookups, nets, kills, data, system,
  \* Retention
  now, runState, updated, objects, record, pc, listing, listedAt, victims, todo, dropped,
  \* PrefixRange
  prefix, keys,
  \* StoragePanel
  bucket, files, truncated, expandedManifest, manifestContent, clicks, writes,
  \* ShardStream
  queue_depth, gauge, metric, handler, held, sent, channel, writer, answer, store, sidecar, resets

eventFeed == <<published, subs, wire, runId, es, arrived, events, missed>>
logFeed == <<log, step, saved, active, pos, seenSteps, lossHistory, checkpointMarkers,
             recoveryMarkers, crashes>>
logPane == <<queued, nextScrolled, lines, userScrolled, effect, scrollTop, event, received, scrolls>>
visits == <<due, visitors, feed, answers, shown, items, announced, repeated, lost, moves>>
killDemo == <<container, run, lookups, nets, kills, data, system>>
storagePanel == <<bucket, files, truncated, expandedManifest, manifestContent, clicks, writes>>
retention == <<now, runState, updated, objects, record, pc, listing, listedAt, victims, todo, dropped>>
shardStream == <<queue_depth, gauge, metric, handler, held, sent, channel, writer, answer, store,
                 sidecar, resets>>
range == <<prefix, keys>>

eventVars == <<eventFeed, breaks>>
logVars == <<logFeed, open, breaks>>
visitVars == <<visits, open, flight>>
storageVars == <<storagePanel, flight>>
retentionVars == <<retention, faults>>
streamVars == <<shardStream, faults>>
vars == <<service, open, breaks, flight, faults, eventFeed, logFeed, logPane, visits, killDemo,
          storagePanel, retention, shardStream, range>>
-----------------------------------------------------------------------------
Events == INSTANCE EventFeed
Parser == INSTANCE LogFeed
Pane == INSTANCE LogPane
\* Requests that overtake each other; requests that take less than an interval.
Race == INSTANCE Visitors WITH Prompt <- FALSE
Watchers == INSTANCE Visitors WITH Prompt <- TRUE
Kill == INSTANCE KillDemo WITH Faults <- FALSE
Passes == INSTANCE Retention
Prefixes == INSTANCE PrefixRange
\* A tail that does not reach the last checkpoint.
Logs == INSTANCE LogFeed WITH MaxStep <- 3, CkptEvery <- 2, TailLines <- 2, MAX_LOSS <- 3,
  MAX_CKPT <- 2, MAX_RESTORE <- 1, MaxCrashes <- 1, MaxBreaks <- 1
\* Docker that does not restart, and one that does but times out.
SafetyNet == INSTANCE KillDemo WITH RestartAlways <- FALSE, Faults <- FALSE, MaxKills <- 6
Timeouts == INSTANCE KillDemo WITH RestartAlways <- TRUE, Faults <- TRUE, MaxKills <- 3
\* Loads that overtake each other and fail; one load at a time; a bucket that changes.
Storage == INSTANCE StoragePanel WITH Faults <- TRUE
OneLoad == INSTANCE StoragePanel WITH Faults <- FALSE, MaxFlight <- 1, MaxClicks <- MaxClicks + 2, MaxWrites <- 0
Listing == INSTANCE StoragePanel WITH Faults <- FALSE, MaxFlight <- 1, MaxClicks <- 1
\* One stream in chunks of any size; then two calls of one shard.
Parts == INSTANCE ShardStreamProofs
TwoCalls == INSTANCE ShardStreamProofs WITH Calls <- Tab, MULTIPART_PART_SIZE <- 1,
  ChannelSize <- 1, ChunkSizes <- {1, 2}, MaxBytes <- 2, MaxChunks <- 2
Stream == INSTANCE ShardStream WITH Calls <- Tab, MULTIPART_PART_SIZE <- 1,
  ChannelSize <- 1, ChunkSizes <- {1}, MaxBytes <- 2, MaxChunks <- 2, MaxResets <- 0

ASSUME ServicesAssumption ==
  /\ Events!FeedAssumption /\ Parser!LogAssumption /\ Pane!PaneAssumption
  /\ Race!VisitorsAssumption /\ Watchers!VisitorsAssumption
  /\ Kill!KillAssumption /\ Passes!RetentionAssumption /\ Prefixes!RangeAssumption
  \* 45 s are three intervals: enough for one lost ping.
  /\ MaxLost + 2 <= StaleAfter
  /\ Logs!LogAssumption
  /\ SafetyNet!KillAssumption /\ Timeouts!KillAssumption
  /\ Storage!StorageAssumption /\ OneLoad!StorageAssumption /\ Listing!StorageAssumption
  /\ Parts!StreamAssumption /\ TwoCalls!StreamAssumption /\ Stream!StreamAssumption
-----------------------------------------------------------------------------
NoEvents == /\ published = None /\ subs = None /\ wire = None /\ runId = None /\ es = None
            /\ arrived = None /\ events = None /\ missed = None
NoLogs == /\ log = None /\ step = None /\ saved = None /\ active = None /\ pos = None
          /\ seenSteps = None /\ lossHistory = None /\ checkpointMarkers = None
          /\ recoveryMarkers = None /\ crashes = None
NoPane == /\ queued = None /\ nextScrolled = None /\ lines = None /\ userScrolled = None
          /\ effect = None /\ scrollTop = None /\ event = None /\ received = None
          /\ scrolls = None
NoVisits == /\ due = None /\ visitors = None /\ feed = None /\ answers = None /\ shown = None
            /\ items = None /\ announced = None /\ repeated = None /\ lost = None /\ moves = None
NoKills == /\ container = None /\ run = None /\ lookups = None /\ nets = None /\ kills = None
           /\ data = None /\ system = None
NoStorage == /\ bucket = None /\ files = None /\ truncated = None /\ expandedManifest = None
             /\ manifestContent = None /\ clicks = None /\ writes = None
NoRetention == /\ now = None /\ runState = None /\ updated = None /\ objects = None
               /\ record = None /\ pc = None /\ listing = None /\ listedAt = None
               /\ victims = None /\ todo = None /\ dropped = None
NoStream == /\ queue_depth = None /\ gauge = None /\ metric = None /\ handler = None
            /\ held = None /\ sent = None /\ channel = None /\ writer = None /\ answer = None
            /\ store = None /\ sidecar = None /\ resets = None
NoRange == /\ prefix = None /\ keys = None

On(v) == service = v

Init ==
  /\ service \in Watched
  /\ \/ /\ \/ On("events") /\ Events!Init
        /\ open = None /\ flight = None /\ faults = None
        /\ NoLogs /\ NoPane /\ NoVisits /\ NoKills /\ NoStorage /\ NoRetention /\ NoStream /\ NoRange
     \/ /\ \/ On("parser") /\ Parser!Init
           \/ On("logs") /\ Logs!Init
        /\ flight = None /\ faults = None
        /\ NoEvents /\ NoPane /\ NoVisits /\ NoKills /\ NoStorage /\ NoRetention /\ NoStream /\ NoRange
     \/ /\ \/ On("pane") /\ Pane!Init
        /\ open = None /\ breaks = None /\ flight = None /\ faults = None
        /\ NoEvents /\ NoLogs /\ NoVisits /\ NoKills /\ NoStorage /\ NoRetention /\ NoStream /\ NoRange
     \/ /\ \/ On("race") /\ Race!Init
           \/ On("watchers") /\ Watchers!Init
        /\ breaks = None /\ faults = None
        /\ NoEvents /\ NoLogs /\ NoPane /\ NoKills /\ NoStorage /\ NoRetention /\ NoStream /\ NoRange
     \/ /\ \/ On("kill") /\ Kill!Init
           \/ On("safety net") /\ SafetyNet!Init
           \/ On("timeouts") /\ Timeouts!Init
        /\ open = None /\ breaks = None /\ flight = None /\ faults = None
        /\ NoEvents /\ NoLogs /\ NoPane /\ NoVisits /\ NoStorage /\ NoRetention /\ NoStream /\ NoRange
     \/ /\ \/ On("storage") /\ Storage!Init
           \/ On("one load") /\ OneLoad!Init
           \/ On("listing") /\ Listing!Init
        /\ open = None /\ breaks = None /\ faults = None
        /\ NoEvents /\ NoLogs /\ NoPane /\ NoVisits /\ NoKills /\ NoRetention /\ NoStream /\ NoRange
     \/ /\ \/ On("passes") /\ Passes!Init
        /\ open = None /\ breaks = None /\ flight = None
        /\ NoEvents /\ NoLogs /\ NoPane /\ NoVisits /\ NoKills /\ NoStorage /\ NoStream /\ NoRange
     \/ /\ \/ On("parts") /\ Parts!Init
           \/ On("two calls") /\ TwoCalls!Init
           \/ On("stream") /\ Stream!Init
        /\ open = None /\ breaks = None /\ flight = None
        /\ NoEvents /\ NoLogs /\ NoPane /\ NoVisits /\ NoKills /\ NoStorage /\ NoRetention /\ NoRange
     \/ /\ On("prefixes") /\ Prefixes!Init
        /\ open = None /\ breaks = None /\ flight = None /\ faults = None
        /\ NoEvents /\ NoLogs /\ NoPane /\ NoVisits /\ NoKills /\ NoStorage /\ NoRetention /\ NoStream

EventStep ==
  \/ On("events") /\ Events!Next
LogStep ==
  \/ On("parser") /\ Parser!Next
  \/ On("logs") /\ Logs!Next
PaneStep ==
  \/ On("pane") /\ Pane!Next
VisitStep ==
  \/ On("race") /\ Race!Next
  \/ On("watchers") /\ Watchers!Next
KillStep ==
  \/ On("kill") /\ Kill!Next
  \/ On("safety net") /\ SafetyNet!Next
  \/ On("timeouts") /\ Timeouts!Next
StorageStep ==
  \/ On("storage") /\ Storage!Next
  \/ On("one load") /\ OneLoad!Next
  \/ On("listing") /\ Listing!Next
RetentionStep ==
  \/ On("passes") /\ Passes!Next
StreamStep ==
  \/ On("parts") /\ Parts!Next
  \/ On("two calls") /\ TwoCalls!Next
  \/ On("stream") /\ Stream!Next
RangeStep ==
  On("prefixes") /\ Prefixes!Next

Next ==
  \/ EventStep /\ UNCHANGED <<service, open, flight, faults, logFeed, logPane, visits,
                         killDemo, storagePanel, retention, shardStream, range>>
  \/ LogStep /\ UNCHANGED <<service, flight, faults, eventFeed, logPane, visits, killDemo,
                       storagePanel, retention, shardStream, range>>
  \/ PaneStep /\ UNCHANGED <<service, open, breaks, flight, faults, eventFeed, logFeed,
                        visits, killDemo, storagePanel, retention, shardStream, range>>
  \/ VisitStep /\ UNCHANGED <<service, breaks, faults, eventFeed, logFeed, logPane, killDemo,
                         storagePanel, retention, shardStream, range>>
  \/ KillStep /\ UNCHANGED <<service, open, breaks, flight, faults, eventFeed, logFeed,
                        logPane, visits, storagePanel, retention, shardStream, range>>
  \/ StorageStep /\ UNCHANGED <<service, open, breaks, faults, eventFeed, logFeed, logPane,
                           visits, killDemo, retention, shardStream, range>>
  \/ RetentionStep /\ UNCHANGED <<service, open, breaks, flight, eventFeed, logFeed, logPane,
                             visits, killDemo, storagePanel, shardStream, range>>
  \/ StreamStep /\ UNCHANGED <<service, open, breaks, flight, eventFeed, logFeed, logPane,
                          visits, killDemo, storagePanel, retention, range>>
  \/ RangeStep /\ UNCHANGED <<service, open, breaks, flight, faults, eventFeed, logFeed,
                         logPane, visits, killDemo, storagePanel, retention, shardStream>>

Spec == Init /\ [][Next]_vars

\* Tasks and threads are scheduled, connections are made again, sockets and intervals go
\* on, storage and docker answer.  Nobody has to publish, click, kill or write.
FairSpec ==
  /\ Spec
  /\ WF_eventVars(On("events") /\ Events!Receive)
  /\ WF_eventVars(On("events") /\ \E c \in Conn : Events!run_events(c))
  /\ \A c \in Conn :
       /\ WF_eventVars(On("events") /\ Events!Stream(c))
       /\ WF_eventVars(On("events") /\ Events!Yield(c))
       /\ WF_eventVars(On("events") /\ Events!Unsubscribe(c))
  /\ WF_logVars(On("logs") /\ Logs!Connect)
  /\ \A w \in Worker : WF_logVars(On("logs") /\ Logs!Deliver(w))
  /\ WF_logPane(On("pane") /\ Pane!Commit)
  /\ WF_logPane(On("pane") /\ Pane!AutoScroll)
  /\ WF_logPane(On("pane") /\ Pane!handleScroll)
  /\ WF_visitVars(On("watchers") /\ Watchers!Tick)
  /\ \A t \in Tab :
       /\ WF_visitVars(On("watchers") /\ Watchers!Ping(t))
       /\ WF_visitVars(On("watchers") /\ \E x \in answers : x.tab = t /\ Watchers!Receive(x))
       /\ WF_visitVars(On("watchers") /\ \E r \in flight : r.tab = t /\ (Watchers!Lookup(r) \/ Watchers!Register(r)))
  /\ WF_killDemo(On("safety net") /\ SafetyNet!ScheduleRestart)
  /\ WF_killDemo(On("safety net") /\ SafetyNet!restart)
  /\ WF_killDemo(On("safety net") /\ SafetyNet!Resume)
  /\ WF_killDemo(On("safety net") /\ SafetyNet!PollContainers)
  /\ WF_killDemo(On("safety net") /\ SafetyNet!PollSystem)
  /\ \A w \in Worker : WF_killDemo(On("timeouts") /\ Timeouts!DockerRestarts(w))
  /\ WF_storageVars(On("listing") /\ Listing!demo_storage)
  /\ WF_storageVars(On("listing") /\ \E i \in DOMAIN flight : Listing!Loaded(i) \/ Listing!NotFound(i))
  /\ WF_retentionVars(On("passes") /\ Passes!Pass)
  /\ WF_retentionVars(On("passes") /\ Passes!Tick)
  /\ \A c \in Tab :
       /\ WF_streamVars(On("stream") /\ Stream!Client(c))
       /\ WF_streamVars(On("stream") /\ Stream!Handler(c))
       /\ WF_streamVars(On("stream") /\ Stream!Writer(c))
-----------------------------------------------------------------------------
(* Safety.  The modules of the services comment on their own properties in detail. *)

\* The state of every service is well typed: queues, lists and feeds within their caps.
TypeOK ==
  /\ On("events") => Events!TypeOK
  /\ On("parser") => Parser!TypeOK
  /\ On("pane") => Pane!TypeOK
  /\ On("race") => Race!TypeOK
  /\ On("kill") => Kill!TypeOK
  /\ On("storage") => Storage!TypeOK
  /\ On("passes") => Passes!TypeOK
  /\ On("parts") => Parts!TypeOK

\* publish_event, useEventStream: what reaches the page is of its run, in the order of
\* publication and without duplicates, across reconnections and changes of the run; and a
\* gap is always explained: the page was not connected, the subscriber's queue was full,
\* or the event was lost with a connection.
GapsAreExplained == On("events") => Events!InOrderOnce /\ Events!GapsAreExplained /\ Events!FeedInv

\* The demo's panels: a visit is announced once, although two pings of a session can wait
\* for the country at the same time; a tab is not dropped for one lost ping; a run shown as
\* active has its workers up; a step is on the curve once, although two workers log it, the
\* group repeats it after a recovery and a new connection sends it again; and at rest the
\* button of the log pane is offered exactly when the end is out of sight.
PanelsAreTrue ==
  /\ On("race") => Race!AnnouncedOnce /\ Race!AnnouncedInv
  /\ On("watchers") => Watchers!OpenIsKept /\ Watchers!KeptInv
  /\ On("kill") => Kill!ActiveIsUp /\ Kill!KillInv
  /\ On("parser") => Parser!StepsOnce /\ Parser!CurveInv
  /\ On("pane") => Pane!ButtonWhenAway /\ Pane!PaneInv

\* TrainingLossChart, CheckpointProof, StorageBrowser: markers are at the closest point;
\* once rank 0's log is read the checkpoint shown as latest is the last one saved, if the
\* tail reaches back to it; every listed file is drawn, under its checkpoint; and an opened
\* manifest, one load at a time, is that of its file.
DrawnAsRead ==
  /\ On("parser") => Parser!DrawnAtClosest /\ Parser!CaughtUpIsSaved /\ Parser!SavedInv
  /\ On("storage") => Storage!EveryFileOnce
  /\ On("one load") => OneLoad!OpenedIsOwn /\ OneLoad!OwnInv

\* RetentionManager: a run that every pass found active, or found to be the newest
\* failure, has its newest committed checkpoint complete, and its uploads within the grace
\* period, although a pass decides on a listing that is old and its batches fail halfway.
KeepsLatest == On("passes") => Passes!KeepsLatest /\ Passes!UploadsHaveGrace /\ Passes!RetentionInv
\* Metadata is removed only after the shards it describes, whichever batch fails.
MetadataOutlivesShards == [][On("passes") => Passes!MetadataOutlivesShards]_vars

\* write_shard: no byte is lost or moved between the hash and the parts, wherever chunks
\* end, and only the last part is short; a client that is told success has its whole stream
\* stored under the checksum it is told, even if another call of the shard was dropped or
\* failed at any point; a call without a storage error leaves nothing behind; and the
\* depth counts the handlers past their increment, the dropped ones included.
WritesAreWhole ==
  /\ On("parts") => Parts!BufferIsWhole /\ Parts!OnlyTheLastIsShort /\ Parts!StreamInv
  /\ On("two calls") => /\ TwoCalls!KeysAreDigests /\ TwoCalls!AnsweredIsStored
                        /\ TwoCalls!NothingLeftBehind /\ TwoCalls!DepthAccounts /\ TwoCalls!StreamInv

\* EtcdKVStore.get_prefix finds exactly the keys that start with the prefix, as the
\* in-memory store does, also when its last bytes or all of them are 0xFF.
RangeIsPrefix == On("prefixes") => Prefixes!RangeIsPrefix
-----------------------------------------------------------------------------
(* Liveness *)

\* Every event of the page's run that is not missed for one of the three reasons arrives,
\* and the queue of a stream whose client is gone is removed from the subscribers.
EventsArrive ==
  /\ \A r \in Run, n \in 1..MaxEvents :
       (On("events") /\ Events!Awaited(r, n)) ~> (On("events") /\ Events!Resolved(r, n))
  /\ \A c \in Conn :
       (On("events") /\ Events!Abandoned(c)) ~> (On("events") /\ ~Events!Abandoned(c))
\* The panels catch up: every line of a container is read or the stream is gone; the log
\* pane comes to rest with its end in sight or the button offered; every tab shows how many
\* there are; killed workers come back, by the safety net alone also when kills overlap, or
\* by Docker's policy alone when docker times out, and the panels show it; the storage
\* panel lists the bucket.
PanelsCatchUp ==
  /\ \A w \in Worker : []<>(On("logs") => Logs!AllRead(w))
  /\ \A w \in Worker : 
       (On("timeouts") /\ container[w] = "exited") ~> (On("timeouts") /\ container[w] = "running")
  /\ <>[](/\ On("pane") => Pane!AtRest
          /\ On("watchers") => Watchers!Agreed
          /\ On("safety net") => SafetyNet!PanelsAgree
          /\ On("listing") => Listing!ListsTheBucket)
\* When the runs have come to rest, storage shrinks to what the configuration allows,
\* whatever deletions failed.
StorageIsBounded == <>[](On("passes") => Passes!WithinLimits)
\* Every admitted call is answered: the handler never waits for room in a channel nobody
\* empties, nor the writer for a stream nobody ends.  As long as the server drops no call,
\* a refused client finds room later.
EveryCallEnds ==
  /\ \A c \in Tab : (On("stream") /\ Stream!Open(c)) ~> (On("stream") /\ ~Stream!Open(c))
  /\ []<>(On("stream") => queue_depth < max_depth)
=============================================================================
