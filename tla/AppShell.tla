------------------------------- MODULE AppShell -------------------------------
(***************************************************************************)
(* The shell around the pages (App.tsx, ThemeToggle.tsx and the script in  *)
(* index.html): routes and the redirect of the operator pages, the saved   *)
(* scroll positions, the mobile menu, and the two theme buttons.           *)
(*                                                                         *)
(* A navigation is one step: React commits the new page, the browser cuts  *)
(* the scroll position to the height of what is shown then, and the effect *)
(* of the changed pathname, scheduled by the commit, runs before the user's*)
(* next event.  Heights and positions are counted in screens.              *)
(***************************************************************************)
EXTENDS Naturals

CONSTANTS
  Page,     \* the paths that are visited
  Height,   \* how far each of them can be scrolled
  Hosted,   \* the hostname is none of LOCAL_RUNTIME_HOSTS
  MaxMoves, \* bound on navigations and reloads
  MaxClicks \* bound on theme clicks, menu clicks and changes of the width

ShellAssumption ==
  /\ "/" \in Page /\ "/demo" \in Page /\ Height \in [Page -> Nat]
  /\ Hosted \in BOOLEAN /\ MaxMoves \in Nat /\ MaxClicks \in Nat

VARIABLES
  path, prevPath, scrollPositions, scrollY,
  chunks,      \* operator pages whose module has been loaded
  menuOpen, panel, \* the state, and the panel: "out", "in" or "leaving" (exit animation)
  wide,        \* the window has the width of a desktop
  html, stored, \* the class of the document, and localStorage's theme
  desktop, mobile, \* the state `dark' of the two theme buttons
  left,        \* history: where each page was left, and for how high a page
  moves, clicks

scroll == <<path, prevPath, scrollPositions, scrollY, chunks, left>>
menu == <<menuOpen, panel>>
theme == <<html, stored, desktop, mobile>>
vars == <<scroll, menu, theme, wide, moves, clicks>>

\* lazy(...) and localOperatorRoute.
Operator == {"/runs", "/runs/1", "/checkpoints", "/health", "/performance"}
mobileNavItems == {"/", "/how-it-works", "/demo", "/try-locally", "/benchmarks"}

\* What the routes render for p: nothing before the redirect, the fallback until
\* the module is there.
Routed(p, have) == IF p \in Operator /\ (Hosted \/ p \notin have) THEN 0 ELSE Height[p]
Cut(y, room) == IF y < room THEN y ELSE room

Init ==
  /\ path \in Page /\ prevPath = path /\ scrollY = 0
  /\ scrollPositions = [p \in Page |-> 0] /\ left = [p \in Page |-> [at |-> 0, room |-> 0]]
  /\ chunks = {} /\ menuOpen = FALSE /\ panel = "out" /\ wide \in BOOLEAN
  /\ stored \in {"none", "light", "dark"} /\ html = (stored = "dark")
  /\ desktop = html /\ mobile = html
  /\ moves = 0 /\ clicks = 0
-----------------------------------------------------------------------------
\* Scrolling and navigation.

\* The body does not scroll while the menu is open.
locked == menuOpen
Scroll(y) ==
  /\ ~locked /\ y # scrollY /\ scrollY' = y
  /\ UNCHANGED <<path, prevPath, scrollPositions, chunks, left, menu, theme, wide, moves, clicks>>

\* The panel starts its exit animation.
SlideOut == panel' = IF panel = "in" THEN "leaving" ELSE panel

\* The effect of [location.pathname], for page p scrolled to y.
SaveAndRestore(p, y) ==
  /\ scrollPositions' = [scrollPositions EXCEPT ![prevPath] = y]
  /\ scrollY' = Cut(scrollPositions'[p], Routed(p, chunks))
  /\ prevPath' = p /\ menuOpen' = FALSE

Goto(p) ==
  /\ path' = p /\ left' = [left EXCEPT ![path] = [at |-> scrollY, room |-> Routed(p, chunks)]]
  /\ SaveAndRestore(p, Cut(scrollY, Routed(p, chunks)))
  /\ IF menuOpen /\ ~menuOpen' THEN SlideOut ELSE UNCHANGED panel
  /\ UNCHANGED <<chunks, theme, wide, clicks>>

\* A link, the address bar or the history leads to p.
Navigate(p) == moves < MaxMoves /\ moves' = moves + 1 /\ p # path /\ Goto(p)

\* <Navigate to="/demo" replace />
localOperatorRoute(p) == Hosted /\ p \in Operator
Redirect == localOperatorRoute(path) /\ Goto("/demo") /\ UNCHANGED moves

\* The module of an operator page arrives.
Loaded ==
  /\ path \in Operator \ chunks /\ ~Hosted /\ chunks' = chunks \cup {path}
  /\ UNCHANGED <<path, prevPath, scrollPositions, scrollY, left, menu, theme, wide, moves, clicks>>
-----------------------------------------------------------------------------
\* The menu.

Click == clicks < MaxClicks /\ clicks' = clicks + 1

\* The hamburger button; a panel that comes in anew reads the document's class.
ToggleMenu ==
  /\ Click /\ ~wide /\ menuOpen' = ~menuOpen
  /\ IF menuOpen THEN SlideOut ELSE panel' = "in"
  /\ mobile' = IF panel = "out" THEN html ELSE mobile
  /\ UNCHANGED <<scroll, html, stored, desktop, wide, moves>>
\* The backdrop, or a link to the page that is shown.
CloseMenu ==
  /\ ~wide /\ menuOpen /\ menuOpen' = FALSE /\ SlideOut
  /\ UNCHANGED <<scroll, theme, wide, moves, clicks>>
PanelGone == panel = "leaving" /\ panel' = "out" /\ UNCHANGED <<scroll, theme, menuOpen, wide, moves, clicks>>
Resize == Click /\ wide' = ~wide /\ UNCHANGED <<scroll, menu, theme, moves>>
-----------------------------------------------------------------------------
\* The theme.

\* One of the buttons is clicked; the other keeps its state.
toggle(dark) ==
  /\ html' = ~dark /\ stored' = IF dark THEN "light" ELSE "dark"
  /\ UNCHANGED <<scroll, menu, wide, moves>>
ToggleDesktop == Click /\ wide /\ toggle(desktop) /\ desktop' = ~desktop /\ UNCHANGED mobile
ToggleMobile == Click /\ ~wide /\ panel # "out" /\ toggle(mobile) /\ mobile' = ~mobile /\ UNCHANGED desktop

\* The page is loaded again; the browser may restore the scroll position first.
Reload ==
  /\ moves < MaxMoves /\ moves' = moves + 1
  /\ html' = (stored = "dark") /\ desktop' = html' /\ mobile' = html'
  /\ menuOpen' = FALSE /\ panel' = "out" /\ chunks' = {}
  /\ \E y \in {0, Cut(scrollY, Routed(path, {}))} :
       /\ scrollY' = y /\ scrollPositions' = [[p \in Page |-> 0] EXCEPT ![path] = y]
  /\ left' = [p \in Page |-> [at |-> 0, room |-> 0]] /\ prevPath' = path
  /\ UNCHANGED <<path, stored, wide, clicks>>
-----------------------------------------------------------------------------
Next ==
  \/ Redirect \/ Loaded \/ ToggleMenu \/ CloseMenu \/ PanelGone \/ Resize
  \/ ToggleDesktop \/ ToggleMobile \/ Reload
  \/ \E p \in Page : Navigate(p)
  \/ \E y \in 0..Routed(path, chunks) : Scroll(y)

Spec == Init /\ [][Next]_vars
-----------------------------------------------------------------------------
\* The marked items of the navigation.
StartsWith(p, q) == p = q \/ q = "/" \/ (p = "/runs/1" /\ q = "/runs")
isActive(q) == IF q = "/" THEN path = "/" ELSE StartsWith(path, q)
-----------------------------------------------------------------------------
\* Types; the position is one the page has.
TypeOK ==
  /\ path \in Page /\ prevPath = path /\ scrollY \in 0..Routed(path, chunks)
  /\ scrollPositions \in [Page -> Nat] /\ chunks \subseteq Operator
  /\ panel \in {"out", "in", "leaving"} /\ {menuOpen, wide, html, desktop, mobile} \subseteq BOOLEAN
  /\ stored \in {"none", "light", "dark"} /\ (menuOpen => panel = "in")
  /\ moves \in 0..MaxMoves /\ clicks \in 0..MaxClicks

Arrives == path' # path
\* A page is shown where it was left, if the page it was left for was high enough
\* and it has its full height at once.  A page not left before starts at the top.
ShownWhereLeft ==
  Arrives /\ left[path'].at <= left[path'].room /\ Routed(path', chunks) = Height[path']
    => scrollY' = left[path'].at

\* The effect of a changed path leaves no menu open, also when the history moved.
MenuEnds == Arrives => ~menuOpen'

\* What is stored is what is shown, whichever of the two buttons is clicked and
\* however stale it is: a reload does not change the theme.
StoredIsShown == html = (stored = "dark")

\* Inductive: the position saved for a page that is not shown is where it was left, cut to
\* the height of the page it was left for.
ShellInv ==
  /\ TypeOK /\ StoredIsShown
  /\ left \in [Page -> [at : Nat, room : Nat]] /\ \A p \in Page : left[p].at <= Height[p]
  /\ \A p \in Page \ {path} : scrollPositions[p] = Cut(left[p].at, left[p].room)

\* The item of the page shown is marked, and no other.
MarksThePage == \A q \in mobileNavItems : isActive(q) <=> q = path
-----------------------------------------------------------------------------
(* What the repository says of this code and the code does not keep: see README.md. *)

\* App.tsx:71 "Save scroll position before leaving, restore when arriving".
RestoredOnArrival == [][
  Arrives /\ path' \notin Operator => scrollY' = left[path'].at]_vars

\* ThemeToggle.tsx:19 the title says which mode the button switches to.
TitleIsTrue == (wide => desktop = html) /\ (~wide /\ menuOpen => mobile = html)

\* App.tsx:84 "Lock body scroll when menu is open": the menu is part of the mobile
\* navigation, App.tsx:156 "visible only on mobile".
LockedByMenuShown == locked => ~wide
=============================================================================
