------------------------------- MODULE Visitors -------------------------------
(***************************************************************************)
(* Who is watching the demo: the pings of VisitorStats.tsx, the table of   *)
(* visitors and the activity feed of the control plane, and the list of    *)
(* ActivityFeed.tsx.                                                       *)
(*                                                                         *)
(* Time passes in the 15 s of the pages' interval; the age of a visitor is *)
(* the number of intervals since the control plane heard of it.  A session *)
(* is the tab whose sessionStorage keeps it.                               *)
(***************************************************************************)
EXTENDS Naturals, Sequences, FiniteSets

CONSTANTS
  Tab,
  StaleAfter, \* 45 s, in intervals: 3
  MAX_FEED, MAX_LISTED, \* 50 and 15
  Prompt,     \* requests take less than an interval
  MaxFlight,  \* bound on the requests under way
  MaxLost,    \* bound on the pings that are lost
  MaxMoves    \* bound on the tabs opened and closed

VisitorsAssumption ==
  /\ IsFiniteSet(Tab) /\ Prompt \in BOOLEAN /\ {StaleAfter, MAX_FEED, MAX_LISTED} \subseteq Nat \ {0}
  /\ {MaxFlight, MaxLost, MaxMoves} \subseteq Nat

VARIABLES
  open, due,  \* tabs shown, and those whose interval is over
  flight,     \* requests: the tab, whether the country is being looked up, and
              \* whether the tab was unknown when that began
  visitors,   \* age of each session, or Gone
  feed,       \* _ACTIVITY_FEED: the tabs that joined, newest first
  answers, shown, \* totals on their way, and shown (0: nothing yet)
  items,      \* what ActivityFeed lists
  announced, repeated, \* history: visits announced, and whether one was announced again
  lost, moves

server == <<visitors, feed, announced, repeated>>
vars == <<open, due, flight, server, answers, shown, items, lost, moves>>

Gone == StaleAfter + 2
Init ==
  /\ open = {} /\ due = {} /\ flight = {} /\ answers = {} /\ items = <<>> /\ feed = <<>>
  /\ visitors = [t \in Tab |-> Gone] /\ shown = [t \in Tab |-> 0]
  /\ announced = {} /\ repeated = FALSE /\ lost = 0 /\ moves = 0
-----------------------------------------------------------------------------
Open(t) ==
  /\ t \notin open /\ moves < MaxMoves /\ moves' = moves + 1
  /\ open' = open \cup {t} /\ due' = due \cup {t} /\ shown' = [shown EXCEPT ![t] = 0]
  /\ UNCHANGED <<flight, server, answers, items, lost>>
\* clearInterval; requests under way reach the control plane all the same.
Close(t) ==
  /\ t \in open /\ moves < MaxMoves /\ moves' = moves + 1
  /\ open' = open \ {t} /\ due' = due \ {t} /\ answers' = {a \in answers : a.tab # t}
  /\ UNCHANGED <<flight, server, shown, items, lost>>

\* 15 s pass.
Older(age) == IF age > StaleAfter THEN age ELSE age + 1
Tick ==
  /\ due = {} /\ due' = open /\ (Prompt => flight = {})
  /\ visitors' = [t \in Tab |-> Older(visitors[t])]
  /\ UNCHANGED <<open, flight, feed, announced, repeated, answers, shown, items, lost, moves>>

Request(t, i) == [nr |-> i, tab |-> t, lookup |-> FALSE, new |-> FALSE]
FreeNr == CHOOSE i \in 1..MaxFlight : \A r \in flight : r.nr # i
Ping(t) ==
  /\ t \in due /\ due' = due \ {t}
  /\ \/ Cardinality(flight) < MaxFlight /\ flight' = flight \cup {Request(t, FreeNr)} /\ UNCHANGED lost
     \/ lost < MaxLost /\ lost' = lost + 1 /\ UNCHANGED flight
  /\ UNCHANGED <<open, server, answers, shown, items, moves>>

\* demo_visitor_ping up to the await of _lookup_country.
Lookup(r) ==
  /\ ~r.lookup
  /\ flight' = (flight \ {r}) \cup {[r EXCEPT !.lookup = TRUE, !.new = visitors[r.tab] = Gone]}
  /\ UNCHANGED <<open, due, server, answers, shown, items, lost, moves>>
-----------------------------------------------------------------------------
\* A visitor heard of 45 s ago may or may not be older than that by now.
clean_stale_visitors(table, known) ==
  \E old \in SUBSET {t \in Tab : table[t] \in StaleAfter..StaleAfter + 1} :
    /\ {t \in Tab : table[t] = StaleAfter + 1} \subseteq old
    /\ visitors' = [t \in Tab |-> IF t \in old THEN Gone ELSE table[t]]
    /\ announced' = known \ old

\* insert(0, ...) and pop().
add_activity(t) == feed' = SubSeq(<<t>> \o feed, 1, IF Len(feed) < MAX_FEED THEN Len(feed) + 1 ELSE MAX_FEED)

Answer(t) == [tab |-> t, total |-> Cardinality({u \in Tab : visitors'[u] # Gone})]
Registered(r, isNew) ==
  /\ r.lookup /\ flight' = flight \ {r}
  /\ IF isNew THEN add_activity(r.tab) ELSE UNCHANGED feed
  /\ repeated' = (repeated \/ (isNew /\ r.tab \in announced))
  /\ clean_stale_visitors([visitors EXCEPT ![r.tab] = 0], IF isNew THEN announced \cup {r.tab} ELSE announced)
  /\ answers' = IF r.tab \in open THEN answers \cup {Answer(r.tab)} ELSE answers
  /\ UNCHANGED <<open, due, shown, items, lost, moves>>
Register_NewBeforeLookup(r) == Registered(r, r.new)
\* demo_visitor_ping after the await.
Register(r) == Registered(r, visitors[r.tab] = Gone)

\* ActivityFeed's poll of demo_activity_feed.
PollActivity ==
  /\ clean_stale_visitors(visitors, announced)
  /\ items' = SubSeq(feed, 1, IF Len(feed) < MAX_LISTED THEN Len(feed) ELSE MAX_LISTED)
  /\ UNCHANGED <<open, due, flight, feed, repeated, answers, shown, lost, moves>>

\* setData
Receive(a) ==
  /\ answers' = answers \ {a} /\ shown' = [shown EXCEPT ![a.tab] = a.total]
  /\ UNCHANGED <<open, due, flight, server, items, lost, moves>>
-----------------------------------------------------------------------------
Next ==
  \/ Tick \/ PollActivity
  \/ \E t \in Tab : Open(t) \/ Close(t) \/ Ping(t)
  \/ \E r \in flight : Lookup(r) \/ Register(r)
  \/ \E a \in answers : Receive(a)

Spec == Init /\ [][Next]_vars
-----------------------------------------------------------------------------
\* Types; the feed is capped.
TypeOK ==
  /\ due \subseteq open /\ open \subseteq Tab /\ visitors \in [Tab -> 0..Gone]
  /\ {feed, items} \subseteq Seq(Tab) /\ Len(feed) <= MAX_FEED /\ Len(items) <= MAX_LISTED
  /\ shown \in [Tab -> 0..Cardinality(Tab)] /\ \A a \in answers : a.tab \in open /\ a.total \in 1..Cardinality(Tab)
  /\ IsFiniteSet(flight) /\ Cardinality(flight) <= MaxFlight /\ repeated \in BOOLEAN
  /\ announced \subseteq Tab /\ lost \in 0..MaxLost /\ moves \in 0..MaxMoves

\* A visit is announced once, although two pings of a session can wait for the
\* country at the same time: "is watching" is repeated only after a removal.
AnnouncedOnce == ~repeated

\* A tab that had an answer is not dropped because of one lost ping while it is
\* open, as long as requests take less than an interval.
OpenIsKept == \A t \in open : shown[t] # 0 => visitors[t] # Gone

\* Why these hold.  A visit that was announced is in the table.
Requests == \A r \in flight : "tab" \in DOMAIN r /\ r.tab \in Tab
AnnouncedInv ==
  /\ visitors \in [Tab -> 0..Gone] /\ announced \subseteq {t \in Tab : visitors[t] # Gone}
  /\ Requests /\ AnnouncedOnce

\* A tab that had an answer was heard of in this interval or the last one, but for the
\* intervals whose pings were lost.
Answered(t) == shown[t] # 0 \/ \E a \in answers : a.tab = t
Pending(t) == t \in due \/ \E r \in flight : r.tab = t
KeptInv ==
  /\ visitors \in [Tab -> 0..Gone] /\ DOMAIN shown = Tab /\ lost \in 0..MaxLost /\ Requests
  /\ \A a \in answers : a.tab \in open
  /\ open \subseteq Tab /\ due \subseteq open
  /\ \A t \in open : Answered(t) => visitors[t] <= (IF Pending(t) THEN lost + 1 ELSE lost)

\* Every tab shows how many there are.
Agreed == \A t \in open : shown[t] = Cardinality(open)
=============================================================================
