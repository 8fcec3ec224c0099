------------------------------- MODULE LogPane -------------------------------
(***************************************************************************)
(* The pane of LogStream.tsx: it follows the end of the log until the user *)
(* scrolls away, and offers a button to go back.  (What is sent to it is   *)
(* LogFeed's subject.)                                                     *)
(*                                                                         *)
(* React renders queued updates in one commit and runs the effects of a    *)
(* commit later, before the next one.  The browser announces a changed     *)
(* scrollTop with an event of a later frame.  Heights are counted in lines.*)
(***************************************************************************)
EXTENDS Naturals

CONSTANTS
  MAX_LINES, \* 150
  View,      \* lines that fit in the pane
  Near,      \* the 40 px that still count as the bottom
  MaxMessages, MaxScrolls \* bounds on messages and on the user's scrolling

PaneAssumption ==
  {MAX_LINES, View, Near} \subseteq Nat \ {0} /\ {MaxMessages, MaxScrolls} \subseteq Nat

VARIABLES
  queued,       \* lines received and not yet rendered
  nextScrolled, \* the last setUserScrolled
  lines, userScrolled, \* the rendered state
  effect,       \* the effect of the last commit has not run
  scrollTop,
  event,        \* a scroll event is due
  received, scrolls

vars == <<queued, nextScrolled, lines, userScrolled, effect, scrollTop, event, received, scrolls>>

Smaller(a, b) == IF a < b THEN a ELSE b
\* scrollHeight - clientHeight, as far as scrollTop goes.
Bottom == IF lines > View THEN lines - View ELSE 0

Init ==
  /\ queued = 0 /\ nextScrolled = FALSE /\ lines = 0 /\ userScrolled = FALSE
  /\ effect = TRUE /\ scrollTop = 0 /\ event = FALSE /\ received = 0 /\ scrolls = 0
-----------------------------------------------------------------------------
\* es.onmessage
Message ==
  /\ received < MaxMessages /\ received' = received + 1 /\ queued' = queued + 1
  /\ UNCHANGED <<nextScrolled, lines, userScrolled, effect, scrollTop, event, scrolls>>

\* [...prev.slice(-(MAX_LINES - 1)), data] and the flag; [lines, userScrolled] have changed.
Commit ==
  /\ ~effect /\ (queued > 0 \/ nextScrolled # userScrolled)
  /\ lines' = Smaller(lines + queued, MAX_LINES) /\ queued' = 0
  /\ userScrolled' = nextScrolled /\ effect' = TRUE
  /\ UNCHANGED <<nextScrolled, scrollTop, event, received, scrolls>>

ScrollTo(y) == scrollTop' = y /\ event' = (event \/ y # scrollTop)

\* The effect, with the flag of its commit.
AutoScroll ==
  /\ effect /\ effect' = FALSE
  /\ IF userScrolled THEN UNCHANGED <<scrollTop, event>> ELSE ScrollTo(Bottom)
  /\ UNCHANGED <<queued, nextScrolled, lines, userScrolled, received, scrolls>>

\* The wheel, a key or the scroll bar.
UserScrolls(y) ==
  /\ scrolls < MaxScrolls /\ scrolls' = scrolls + 1
  /\ y # scrollTop /\ ScrollTo(y)
  /\ UNCHANGED <<queued, nextScrolled, lines, userScrolled, effect, received>>

atBottom == Bottom - scrollTop < Near
handleScroll ==
  /\ event /\ event' = FALSE /\ nextScrolled' = ~atBottom
  /\ UNCHANGED <<queued, lines, userScrolled, effect, scrollTop, received, scrolls>>

\* "Scroll to latest logs"
ScrollToLatest ==
  /\ userScrolled /\ lines > 0
  /\ nextScrolled' = FALSE /\ ScrollTo(Bottom)
  /\ UNCHANGED <<queued, lines, userScrolled, effect, received, scrolls>>
-----------------------------------------------------------------------------
Next == \/ Message \/ Commit \/ AutoScroll \/ handleScroll \/ ScrollToLatest
        \/ \E y \in 0..Bottom : UserScrolls(y)

Spec == Init /\ [][Next]_vars
-----------------------------------------------------------------------------
\* Types; the pane holds at most MAX_LINES lines.
TypeOK ==
  /\ lines \in 0..MAX_LINES /\ scrollTop \in 0..Bottom
  /\ {nextScrolled, userScrolled, effect, event} \subseteq BOOLEAN
  /\ queued \in 0..MaxMessages /\ received \in 0..MaxMessages /\ scrolls \in 0..MaxScrolls

Settled == queued = 0 /\ nextScrolled = userScrolled /\ ~effect /\ ~event

\* Once everything is rendered and handled, in whatever order commits, effects and
\* scroll events came, the button is offered exactly when the end is out of sight.
ButtonWhenAway == Settled => (userScrolled <=> ~atBottom)

\* Why this holds: unless a scroll event is due, the pane counts as scrolled away only
\* when it is, and always when it is unless the pending effect goes back to the end.
FlagIsRight ==
  ~event => /\ nextScrolled => ~atBottom
            /\ userScrolled \/ ~effect => atBottom \/ nextScrolled
PaneInv == TypeOK /\ queued <= received /\ FlagIsRight

\* Nothing is under way, and the end is in sight or the button is offered.
AtRest == Settled /\ (userScrolled \/ atBottom)
-----------------------------------------------------------------------------
(* What the repository says of this code and the code does not keep: see README.md. *)

\* LogStream.tsx:64 "Detect if user scrolled away from bottom".  A message
\* between the effect and its scroll event makes the pane itself seem scrolled.
ScrolledByUser == userScrolled => scrolls > 0
=============================================================================
