------------------------------ MODULE EventFeed ------------------------------
(***************************************************************************)
(* The stream of run events: _publish_event and GET /api/runs/{id}/events  *)
(* of rest.py, and the browser side, useEventStream.ts, which              *)
(* RunDetailPage.tsx repeats.                                              *)
(*                                                                         *)
(* Every connection has a queue of its own on the server.  An event that   *)
(* finds a queue full is dropped for that subscriber.  The browser's       *)
(* EventSource reconnects by itself when its connection breaks and asks    *)
(* for nothing it missed: events have no ids.  Events of a run are         *)
(* numbered here in the order they are published.                          *)
(***************************************************************************)
EXTENDS Naturals, Sequences, FiniteSets

CONSTANTS
  Run,        \* run ids, all of them created
  Conn,       \* connections: names, and the bound on their number
  None,       \* null
  QueueMax,   \* maxsize of a queue (256)
  MAX_EVENTS, \* cap of the list (200)
  MaxEvents,  \* bound on the events published per run
  MaxBreaks   \* bound on the connections that end

FeedAssumption ==
  /\ QueueMax \in Nat \ {0} /\ MAX_EVENTS \in Nat \ {0} /\ MaxEvents \in Nat /\ MaxBreaks \in Nat
  /\ None \notin Run \cup Conn

VARIABLES
  published,  \* number of events of each run
  subs,       \* the subscriber queues, one per connection
  wire,       \* what is written to a connection and not yet read
  runId,      \* the run of the mounted page, None when there is no page
  es,         \* connection of the page's EventSource, None while it connects
  arrived,    \* events dispatched to the EventSource since the page was mounted
  events,     \* the list on the page
  missed,     \* events of the run published before the page or while it was not
              \* connected, dropped, or lost with a connection
  breaks

vars == <<published, subs, wire, runId, es, arrived, events, missed, breaks>>

\* The names the server gives to the events it publishes, in a run's life.
ServerNames == {"run_created", "run_started", "run_cancelled", "run_completed", "checkpoint_started",
                "checkpoint_committed", "run_resumed", "run_failed"}
\* The names the page listens to; an event without a listener is dispatched to nobody.
Listened == {"message", "state_change", "checkpoint", "error_event"}

NoSub == [run |-> None, queue |-> <<>>, streaming |-> FALSE, up |-> FALSE]

Init ==
  /\ published = [r \in Run |-> 0]
  /\ subs = [c \in Conn |-> NoSub] /\ wire = [c \in Conn |-> <<>>]
  /\ runId = None /\ es = None /\ arrived = <<>> /\ events = <<>> /\ missed = {} /\ breaks = 0
-----------------------------------------------------------------------------
\* The server.

Offered_Unbounded(c, e) == [subs[c] EXCEPT !.queue = Append(@, e)]
\* queue.put_nowait for one subscriber; QueueFull is logged and forgotten.
Offered(c, e) ==
  IF Len(subs[c].queue) < QueueMax THEN [subs[c] EXCEPT !.queue = Append(@, e)] ELSE subs[c]

publish_event(r, name) ==
  /\ published[r] < MaxEvents
  /\ LET e == [run |-> r, n |-> published[r] + 1, listed |-> name \in Listened] IN
     /\ published' = [published EXCEPT ![r] = e.n]
     /\ subs' = [c \in Conn |-> IF subs[c].run = r THEN Offered(c, e) ELSE subs[c]]
     /\ missed' = IF runId = r /\ (es = None \/ Len(subs[es].queue) = QueueMax)
                  THEN missed \cup {e.n} ELSE missed
  /\ UNCHANGED <<wire, runId, es, arrived, events, breaks>>

\* The handler: the queue is registered before the stream starts.
run_events(c) ==
  /\ runId # None /\ es = None /\ subs[c] = NoSub /\ wire[c] = <<>>
  /\ subs' = [subs EXCEPT ![c] = [run |-> runId, queue |-> <<>>, streaming |-> FALSE, up |-> TRUE]]
  /\ es' = c
  /\ UNCHANGED <<published, wire, runId, arrived, events, missed, breaks>>

Stream_WhenQueued(c) ==
  /\ subs[c].run # None /\ subs[c].up /\ ~subs[c].streaming /\ Len(subs[c].queue) > 1
  /\ subs' = [subs EXCEPT ![c].streaming = TRUE]
  /\ UNCHANGED <<published, wire, runId, es, arrived, events, missed, breaks>>
\* event_stream: the first step of the generator, then one event after another.
Stream(c) ==
  /\ subs[c].run # None /\ subs[c].up /\ ~subs[c].streaming
  /\ subs' = [subs EXCEPT ![c].streaming = TRUE]
  /\ UNCHANGED <<published, wire, runId, es, arrived, events, missed, breaks>>
Yield(c) ==
  /\ subs[c].streaming /\ subs[c].queue # <<>>
  /\ subs' = [subs EXCEPT ![c].queue = Tail(@)]
  /\ wire' = [wire EXCEPT ![c] = IF subs[c].up THEN Append(@, Head(subs[c].queue)) ELSE @]
  /\ UNCHANGED <<published, runId, es, arrived, events, missed, breaks>>

\* The server notices that the client is gone and cancels the stream: the finally
\* block removes the queue.  A generator that never started has no finally to run.
Unsubscribe(c) ==
  /\ subs[c].run # None /\ ~subs[c].up /\ subs[c].streaming
  /\ subs' = [subs EXCEPT ![c] = NoSub]
  /\ UNCHANGED <<published, wire, runId, es, arrived, events, missed, breaks>>
-----------------------------------------------------------------------------
\* The browser.

\* The socket is gone on both sides; what was on the wire is lost.
Disconnected == IF es = None THEN subs ELSE [subs EXCEPT ![es].up = FALSE]
Lost == IF es = None THEN wire ELSE [wire EXCEPT ![es] = <<>>]
LostNumbers == IF es = None THEN {} ELSE
  {wire[es][i].n : i \in DOMAIN wire[es]} \cup {subs[es].queue[i].n : i \in DOMAIN subs[es].queue}

Ending == breaks < MaxBreaks /\ breaks' = breaks + 1
Before(r) == IF r = None THEN {} ELSE 1..published[r]
\* A new page opens an EventSource; it starts with an empty list.
Mount(r) ==
  /\ runId = None /\ runId' = r /\ missed' = Before(r) /\ arrived' = <<>> /\ events' = <<>>
  /\ UNCHANGED <<published, subs, wire, es, breaks>>

Changed(r, conn, s, w) ==
  /\ runId # None /\ r # runId /\ Ending
  /\ runId' = r /\ es' = conn /\ subs' = s /\ wire' = w
  /\ missed' = Before(r) /\ arrived' = <<>>
  /\ UNCHANGED <<published, events>>
ChangeRun_KeepsSource(r) == Changed(r, es, subs, wire)
\* The page gets another run, or none (it is unmounted): es.close().  The list is
\* not emptied when the page stays.
ChangeRun(r) == Changed(r, None, Disconnected, Lost)

\* The connection breaks; EventSource reconnects (run_events).
Break ==
  /\ es # None /\ Ending
  /\ subs' = Disconnected /\ wire' = Lost /\ es' = None /\ missed' = missed \cup LostNumbers
  /\ UNCHANGED <<published, runId, arrived, events>>

Pushed(e) == Append(SubSeq(events, IF Len(events) < MAX_EVENTS THEN 1 ELSE 2, Len(events)), e)
Receive ==
  /\ es # None /\ wire[es] # <<>>
  /\ LET e == Head(wire[es]) IN
     /\ arrived' = Append(arrived, e)
     /\ events' = IF e.listed THEN Pushed(e) ELSE events
  /\ wire' = [wire EXCEPT ![es] = Tail(@)]
  /\ UNCHANGED <<published, subs, runId, es, missed, breaks>>
-----------------------------------------------------------------------------
Next ==
  \/ \E r \in Run, name \in ServerNames : publish_event(r, name)
  \/ \E c \in Conn : run_events(c) \/ Stream(c) \/ Yield(c) \/ Unsubscribe(c)
  \/ \E r \in Run : Mount(r) \/ ChangeRun(r)
  \/ ChangeRun(None) \/ Break \/ Receive

Spec == Init /\ [][Next]_vars
-----------------------------------------------------------------------------
\* The panel of RunDetailPage, scrolled to its end after every change.
EventPanel == IF events = <<>> THEN "Waiting for events..." ELSE events[Len(events)]

Event == [run : Run, n : 1..MaxEvents, listed : BOOLEAN]
Numbers(seq) == {seq[i].n : i \in DOMAIN seq}

Subscriber == [run : Run \cup {None}, queue : Seq(Event), streaming : BOOLEAN, up : BOOLEAN]

\* Types; a subscriber that reads nothing never holds more than a queue of events,
\* also when its client is gone, so that publishing neither waits nor grows.
TypeOK ==
  /\ published \in [Run -> 0..MaxEvents] /\ runId \in Run \cup {None} /\ es \in Conn \cup {None}
  /\ subs \in [Conn -> Subscriber] /\ wire \in [Conn -> Seq(Event)]
  /\ \A c \in Conn : Len(subs[c].queue) <= QueueMax
  /\ arrived \in Seq(Event) /\ events \in Seq(Event) /\ Len(events) <= MAX_EVENTS
  /\ missed \subseteq 1..MaxEvents /\ breaks \in 0..MaxBreaks

\* What reaches the page is of its run, in the order of publication and without
\* duplicates, across reconnections and changes of the run.
InOrderOnce ==
  \A i \in DOMAIN arrived :
    /\ arrived[i].run = runId
    /\ \A j \in DOMAIN arrived : i < j => arrived[i].n < arrived[j].n

\* A gap is always explained: an event before the last one that arrived is there,
\* or it was published while the page was not connected, found the queue full, or
\* was lost with a connection.
GapsAreExplained ==
  arrived # <<>> => 1..arrived[Len(arrived)].n \subseteq Numbers(arrived) \cup missed

\* Why these hold.  Only the page's connection is up, and it subscribes to the page's run.
OneSource ==
  /\ \A c \in Conn : (subs[c].up => c = es) /\ (c # es => wire[c] = <<>>)
  /\ es # None => subs[es].up /\ subs[es].run = runId
  /\ runId = None => es = None /\ arrived = <<>>

\* What is on its way to the page, on the wire and in the subscriber's queue.
OnWire == IF es = None THEN <<>> ELSE wire[es]
Queued == IF es = None THEN <<>> ELSE subs[es].queue

Ordered(s) == \A i, j \in DOMAIN s : i < j => s[i].n < s[j].n
Precedes(s, t) == \A i \in DOMAIN s, j \in DOMAIN t : s[i].n < t[j].n
PublishedOf(s) == \A i \in DOMAIN s : s[i].run = runId /\ s[i].n <= published[runId]

\* Page, wire and queue hold the events of the run in one order, and whatever was
\* published is in one of them or missed.
InOneLine ==
  /\ Ordered(arrived) /\ Ordered(OnWire) /\ Ordered(Queued)
  /\ Precedes(arrived, OnWire) /\ Precedes(arrived, Queued) /\ Precedes(OnWire, Queued)
  /\ PublishedOf(arrived) /\ PublishedOf(OnWire) /\ PublishedOf(Queued)
  /\ runId # None =>
       1..published[runId] \subseteq Numbers(arrived) \cup Numbers(OnWire) \cup Numbers(Queued) \cup missed

FeedInv == TypeOK /\ OneSource /\ InOneLine

\* Event n of run r is due on the page, and it is there, missed in one of these ways,
\* or the page is of another run.
Awaited(r, n) == runId = r /\ published[r] >= n
Resolved(r, n) == runId # r \/ n \in Numbers(arrived) \cup missed

\* The client of a stream is gone and its queue is still among the subscribers.
Abandoned(c) == subs[c].streaming /\ ~subs[c].up
-----------------------------------------------------------------------------
(* What the repository says of this code and the code does not keep: see README.md. *)

\* useEventStream.ts:8 "subscribes to a Server-Sent Events stream for run lifecycle
\* events. Returns the accumulated event list": an event that arrives is listed.
ArrivedIsListed == arrived # <<>> => EventPanel # "Waiting for events..."
=============================================================================
