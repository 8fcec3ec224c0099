----------------------------- MODULE RunConsole -----------------------------
(***************************************************************************)
(* The operator console on runs: frontend/src/pages/RunsPage.tsx and       *)
(* RunDetailPage.tsx, against the run endpoints of the control plane.      *)
(*                                                                         *)
(* A page fetches when it is mounted, every five seconds and after an      *)
(* action; nothing limits the fetches in flight, cancels one, or drops an  *)
(* answer that was overtaken.  The detail page asks for the run and for    *)
(* its checkpoints, and stores the two answers in two steps.  Each slot    *)
(* holds one call of the browser, from the request to its continuation.    *)
(* The server is RunLifecycle, one instance per run, moved by this console *)
(* and by everybody else.                                                  *)
(***************************************************************************)
EXTENDS Integers, Sequences, FiniteSets

CONSTANTS
  Run,          \* run ids
  None,         \* null
  Failed,       \* the outcome of a call that is refused or lost
  Slot,         \* calls in flight: names, and the bound on their number
  HistoryJumps, \* the browser history may jump from one run's page to another's
  MaxChanges,   \* bound on the changes of the runs' states
  MaxFaults     \* bound on calls that fail

ConsoleAssumption ==
  /\ None \notin Run /\ None # Failed /\ {"runs", "elsewhere"} \cap Run = {}
  /\ HistoryJumps \in BOOLEAN /\ MaxChanges \in Nat /\ MaxFaults \in Nat

VARIABLES
  \* the server
  runState,  \* state of each run, NoRun before it is created
  version,   \* number of changes of each run: tells an old answer from a new one
  ckpts,     \* states of the run's checkpoints, oldest first
  \* the browser
  route,     \* "runs", a run (its detail page), or "elsewhere"
  list,      \* RunsPage: runs, or None before the first answer
  run,       \* RunDetailPage: run, or None
  checkpoints, \* RunDetailPage: checkpoints
  loading, error,  \* of the page on the route
  modal,     \* RunsPage: "closed", "open", "submitting", "refused" (open, with an error)
  calls,     \* what each slot is doing
  faults

server == <<runState, version, ckpts>>
page == <<route, list, run, checkpoints, loading, error, modal>>
vars == <<server, page, calls, faults>>

Life(r) == INSTANCE RunLifecycle WITH runState <- runState[r]
RL == INSTANCE RunLifecycle WITH runState <- None

\* types.ts RunState, what RUN_STATE_CONFIG has a style for.
RunState == {"CREATED", "RUNNING", "CHECKPOINTING", "COMMITTED",
             "FAILED", "RECOVERING", "CANCELLED", "COMPLETED"}
CheckpointState == {"PENDING", "IN_PROGRESS", "COMMITTED", "FAILED"}

Snapshot(r) == [id |-> r, state |-> runState[r], version |-> version[r]]
Existing == {r \in Run : runState[r] # RL!NoRun}

Idle == [kind |-> "idle"]
Free == {s \in Slot : calls[s] = Idle}
ListCall(answer) == [kind |-> "list", answer |-> answer]
ListFetch == ListCall(None)
DetailFetch(r) == [kind |-> "detail", id |-> r, run |-> None, ckpts |-> None, stored |-> FALSE]

InitFrom(starts) ==
  /\ runState \in [Run -> starts] /\ version = [r \in Run |-> 0]
  /\ ckpts = [r \in Run |-> IF runState[r] = "CHECKPOINTING" THEN <<"IN_PROGRESS">> ELSE <<>>]
  /\ route = "elsewhere" /\ list = None /\ run = None /\ checkpoints = <<>>
  /\ loading = TRUE /\ error = FALSE /\ modal = "closed"
  /\ calls = [s \in Slot |-> Idle] /\ faults = 0
\* No run exists; another console may have created runs before this one is opened.
Init == InitFrom({RL!NoRun})
-----------------------------------------------------------------------------
\* The server: what a change of a run's state does to its checkpoints.

\* commit_run commits the newest record IN_PROGRESS; recovery fails them all.
CommitNewest(seq) == [i \in 1..Len(seq) |->
  IF seq[i] = "IN_PROGRESS" /\ \A j \in i + 1..Len(seq) : seq[j] # "IN_PROGRESS" THEN "COMMITTED" ELSE seq[i]]
FailAll_CommittedToo(seq) == [i \in 1..Len(seq) |-> "FAILED"]
FailAll(seq) == [i \in 1..Len(seq) |-> IF seq[i] = "IN_PROGRESS" THEN "FAILED" ELSE seq[i]]

\* The bound on changes, with those that requests on their way may still make.
Pending(kind) == {s \in Slot : calls[s].kind = kind /\ calls[s].result = None}
Room(r) == version[r] + Cardinality({s \in Pending("post") : calls[s].id = r}) < MaxChanges
RoomToCreate == Cardinality(Pending("create")) < Cardinality(Run \ Existing)

Moved(r, s) ==
  /\ runState' = [runState EXCEPT ![r] = s]
  /\ version' = [version EXCEPT ![r] = @ + 1]
  /\ \E c \in CASE s = "CHECKPOINTING" -> {Append(ckpts[r], "IN_PROGRESS")}
                [] s = "COMMITTED" -> {CommitNewest(ckpts[r])}
                [] s = "FAILED" -> {ckpts[r], FailAll(ckpts[r])}
                [] OTHER -> {ckpts[r]} : ckpts' = [ckpts EXCEPT ![r] = c]

\* Workers, recovery and other clients.
OthersMove(r) ==
  /\ r \in Existing /\ Room(r)
  /\ \E s \in RunState : RL!can_transition(runState[r], s) /\ Moved(r, s)
  /\ UNCHANGED <<page, calls, faults>>

\* start_run, cancel_run, trigger_checkpoint, resume_run: the state asked for.
Target(action, st) ==
  CASE action = "start" -> "RUNNING" [] action = "cancel" -> "CANCELLED"
    [] action = "checkpoint" -> "CHECKPOINTING"
    [] action = "resume" /\ st = "FAILED" -> "RECOVERING"
    [] OTHER -> "RUNNING"
\* resume is accepted, and changes nothing, when the run is already RUNNING.
NoOp(action, st) == action = "resume" /\ st = "RUNNING"
Accepted_ResumeAlways(action, st) == action = "resume" \/ RL!can_transition(st, Target(action, st))
Accepted(action, st) == NoOp(action, st) \/ RL!can_transition(st, Target(action, st))
-----------------------------------------------------------------------------
\* Mounting, polling and leaving.

\* A page that is left: its fetches have no effect any more, its posts go on.
Unmounted == [s \in Slot |-> IF calls[s].kind \in {"list", "detail"} THEN Idle
                             ELSE IF calls[s] = Idle THEN Idle
                             ELSE [calls[s] EXCEPT !.owner = "gone"]]

Fresh == list' = None /\ run' = None /\ checkpoints' = <<>> /\ loading' = TRUE /\ error' = FALSE /\ modal' = "closed"

OpenRuns ==
  /\ route # "runs"
  /\ \E s \in Slot : Unmounted[s] = Idle /\ calls' = [Unmounted EXCEPT ![s] = ListFetch]
  /\ route' = "runs" /\ Fresh
  /\ UNCHANGED <<server, faults>>

Mounts(r, kept) ==
  /\ r \in Existing /\ route # r
  /\ \E s \in Slot : kept[s] = Idle /\ calls' = [kept EXCEPT ![s] = DetailFetch(r)]
  /\ route' = r
  /\ UNCHANGED <<server, faults>>

\* The detail page of r, from another page: a new instance of RunDetailPage.
OpenRun(r) == route \notin Run /\ Mounts(r, Unmounted) /\ Fresh

\* The same instance gets another id: nothing is reset, nothing is cancelled.
JumpToRun(r) ==
  /\ HistoryJumps /\ route \in Run /\ Mounts(r, calls)
  /\ UNCHANGED <<list, run, checkpoints, loading, error, modal>>

Leave ==
  /\ route # "elsewhere" /\ route' = "elsewhere" /\ Fresh
  /\ calls' = Unmounted
  /\ UNCHANGED <<server, faults>>

\* The interval of the page.
Poll(s) ==
  /\ s \in Free /\ route # "elsewhere"
  /\ calls' = [calls EXCEPT ![s] = IF route = "runs" THEN ListFetch ELSE DetailFetch(route)]
  /\ UNCHANGED <<server, page, faults>>
-----------------------------------------------------------------------------
\* Answers and their continuations.

AnswerList(s) ==
  /\ calls[s].kind = "list" /\ calls[s].answer = None
  /\ calls' = [calls EXCEPT ![s].answer = [r \in Existing |-> Snapshot(r)]]
  /\ UNCHANGED <<server, page, faults>>

AnswerRun(s) ==
  /\ calls[s].kind = "detail" /\ calls[s].run = None
  /\ calls' = [calls EXCEPT ![s].run = Snapshot(calls[s].id)]
  /\ UNCHANGED <<server, page, faults>>

AnswerCheckpoints(s) ==
  /\ calls[s].kind = "detail" /\ calls[s].ckpts = None
  /\ calls' = [calls EXCEPT ![s].ckpts = ckpts[calls[s].id]]
  /\ UNCHANGED <<server, page, faults>>

\* A GET that is refused or lost.
FetchFails(s) ==
  /\ faults < MaxFaults /\ faults' = faults + 1
  /\ \/ calls[s].kind = "list" /\ calls[s].answer = None /\ calls' = [calls EXCEPT ![s].answer = Failed]
     \/ calls[s].kind = "detail" /\ calls[s].run = None /\ calls' = [calls EXCEPT ![s].run = Failed]
     \/ calls[s].kind = "detail" /\ calls[s].ckpts = None /\ calls' = [calls EXCEPT ![s].ckpts = Failed]
  /\ UNCHANGED <<server, page>>

\* fetchRuns after the answer.
StoreRuns(s) ==
  /\ calls[s].kind = "list" /\ calls[s].answer # None
  /\ error' = (calls[s].answer = Failed)
  /\ list' = IF calls[s].answer = Failed THEN list ELSE calls[s].answer
  /\ loading' = FALSE
  /\ calls' = [calls EXCEPT ![s] = Idle]
  /\ UNCHANGED <<server, route, run, checkpoints, modal, faults>>

RunStored(s, data) ==
  /\ calls[s].kind = "detail" /\ ~calls[s].stored
  /\ {calls[s].run, calls[s].ckpts} \cap {None, Failed} = {}
  /\ run' = data
  /\ calls' = [calls EXCEPT ![s].stored = TRUE]
  /\ UNCHANGED <<server, route, list, checkpoints, loading, error, modal, faults>>
StoreRun_FirstOnly(s) == RunStored(s, IF run = None THEN calls[s].run ELSE run)

\* fetchData after both answers: setRun, then, after another await, setCheckpoints.
StoreRun(s) == RunStored(s, calls[s].run)

StoreCheckpoints(s) ==
  /\ calls[s].kind = "detail" /\ calls[s].stored
  /\ checkpoints' = calls[s].ckpts
  /\ error' = FALSE /\ loading' = FALSE
  /\ calls' = [calls EXCEPT ![s] = Idle]
  /\ UNCHANGED <<server, route, list, run, modal, faults>>

\* A rejected fetch ends the round at once, a bad status when both answers are in.
DetailFails(s) ==
  /\ calls[s].kind = "detail" /\ Failed \in {calls[s].run, calls[s].ckpts}
  /\ error' = TRUE /\ loading' = FALSE
  /\ calls' = [calls EXCEPT ![s] = Idle]
  /\ UNCHANGED <<server, route, list, run, checkpoints, modal, faults>>
-----------------------------------------------------------------------------
\* Actions of the operator.

RunsButtons_StartWhileRunning(st) ==
  (IF st \in {"CREATED", "COMMITTED", "RUNNING"} THEN {"start"} ELSE {})
    \cup (IF st \in {"RUNNING", "CHECKPOINTING", "RECOVERING"} THEN {"cancel"} ELSE {})
RunsButtons(st) ==
  (IF st \in {"CREATED", "COMMITTED"} THEN {"start"} ELSE {})
    \cup (IF st \in {"RUNNING", "CHECKPOINTING", "RECOVERING"} THEN {"cancel"} ELSE {})

DetailButtons(st) ==
  RunsButtons(st)
    \cup (IF st \in {"RUNNING", "CHECKPOINTING"} THEN {"checkpoint"} ELSE {})
    \cup (IF st \in {"FAILED", "CANCELLED"} THEN {"resume"} ELSE {})

Post(id, action, shown) ==
  [kind |-> "post", owner |-> "page", id |-> id, action |-> action, shown |-> shown, result |-> None]

\* RunsPage.postAction, on a row of the table.
ClickRow(s) ==
  /\ s \in Free /\ route = "runs" /\ ~loading /\ list # None
  /\ \E r \in DOMAIN list : \E a \in RunsButtons(list[r].state) :
       Room(r) /\ calls' = [calls EXCEPT ![s] = Post(r, a, list[r])]
  /\ UNCHANGED <<server, page, faults>>

\* RunDetailPage.postAction: on the run of the URL, by what is displayed.
ClickDetail(s) ==
  /\ s \in Free /\ route \in Run /\ ~loading /\ run # None /\ Room(route)
  /\ \E a \in DetailButtons(run.state) : calls' = [calls EXCEPT ![s] = Post(route, a, run)]
  /\ UNCHANGED <<server, page, faults>>

HandlePost(s) ==
  /\ calls[s].kind = "post" /\ calls[s].result = None
  /\ LET r == calls[s].id  a == calls[s].action  st == runState[r]
     IN \/ /\ Accepted(a, st)
           /\ IF NoOp(a, st) THEN UNCHANGED server ELSE Moved(r, Target(a, st))
           /\ calls' = [calls EXCEPT ![s].result = "ok"]
        \/ /\ ~Accepted(a, st) /\ UNCHANGED server
           /\ calls' = [calls EXCEPT ![s].result = "refused"]
  /\ UNCHANGED <<page, faults>>

\* The request is lost before the server has it, or its answer afterwards.
PostFails(s) ==
  /\ faults < MaxFaults /\ faults' = faults + 1
  /\ calls[s].kind \in {"post", "create"} /\ calls[s].result \in {None, "ok"}
  /\ calls' = [calls EXCEPT ![s].result = Failed]
  /\ UNCHANGED <<server, page>>

\* After the answer: the page fetches again, or alerts.
PostReturns(s) ==
  /\ calls[s].kind = "post" /\ calls[s].result # None
  /\ calls' = [calls EXCEPT ![s] =
                 IF calls[s].result # "ok" \/ calls[s].owner = "gone" THEN Idle
                 ELSE IF route = "runs" THEN ListFetch ELSE DetailFetch(calls[s].id)]
  /\ UNCHANGED <<server, page, faults>>
-----------------------------------------------------------------------------
\* NewRunModal.

OpenModal ==
  /\ route = "runs" /\ modal = "closed" /\ modal' = "open"
  /\ UNCHANGED <<server, route, list, run, checkpoints, loading, error, calls, faults>>

\* The modal instance is gone; what it sent goes on.
ModalGone(cs) == [s \in Slot |-> IF cs[s].kind = "create" /\ cs[s].owner = "modal"
                                 THEN [cs[s] EXCEPT !.owner = "page"] ELSE cs[s]]

CloseModal ==
  /\ route = "runs" /\ modal # "closed" /\ modal' = "closed"
  /\ calls' = ModalGone(calls)
  /\ UNCHANGED <<server, route, list, run, checkpoints, loading, error, faults>>

\* A number field, parseInt(..) || default: what is no number and 0 become the
\* default, a negative number is kept.
NumberField(typed, default) == IF typed \in {None, 0} THEN default ELSE typed
Typed == {None, -1, 0, 1}
Forms == {[name |-> n, num_workers |-> NumberField(w, 1), checkpoint_interval_steps |-> NumberField(i, 100)] :
            n \in {"blank", "given", "over 256 characters"}, w \in Typed, i \in Typed}

\* What the server takes: the constraints of its RunConfig, else status 422.
RunConfig(form) ==
  /\ form.name = "given"
  /\ form.num_workers > 0 /\ form.checkpoint_interval_steps > 0

\* Create Run is enabled when the name is not blank and nothing is being submitted.
Submittable == {f \in Forms : f.name # "blank" /\ modal \in {"open", "refused"}}
SubmitRun(s) ==
  /\ s \in Free /\ modal' = "submitting" /\ RoomToCreate
  /\ \E form \in Submittable :
       calls' = [calls EXCEPT ![s] = [kind |-> "create", owner |-> "modal", valid |-> RunConfig(form), result |-> None]]
  /\ UNCHANGED <<server, route, list, run, checkpoints, loading, error, faults>>

CreateRun(s) ==
  /\ calls[s].kind = "create" /\ calls[s].result = None
  /\ \/ /\ calls[s].valid
        /\ \E r \in Run \ Existing : Moved(r, "CREATED")
        /\ calls' = [calls EXCEPT ![s].result = "ok"]
     \/ /\ ~calls[s].valid /\ UNCHANGED server
        /\ calls' = [calls EXCEPT ![s].result = "refused"]
  /\ UNCHANGED <<page, faults>>

\* onCreated fetches the runs; onClose closes whatever modal is open now; an
\* error is shown by the modal that submitted, if it is still there.
CreateReturns(s) ==
  /\ calls[s].kind = "create" /\ calls[s].result # None
  /\ LET ok == calls[s].result = "ok"  owner == calls[s].owner IN
     \/ /\ ok /\ owner # "gone"
        /\ calls' = [ModalGone(calls) EXCEPT ![s] = ListFetch]
        /\ modal' = "closed"
     \/ /\ ~ok \/ owner = "gone"
        /\ calls' = [calls EXCEPT ![s] = Idle]
        /\ modal' = IF owner = "modal" THEN "refused" ELSE modal
  /\ UNCHANGED <<server, route, list, run, checkpoints, loading, error, faults>>
-----------------------------------------------------------------------------
Navigate == OpenRuns \/ Leave \/ \E r \in Run : OpenRun(r) \/ JumpToRun(r)
Operator(s) == ClickRow(s) \/ ClickDetail(s) \/ SubmitRun(s)
Answer(s) == AnswerList(s) \/ AnswerRun(s) \/ AnswerCheckpoints(s) \/ HandlePost(s) \/ CreateRun(s)
Continue(s) == StoreRuns(s) \/ StoreRun(s) \/ StoreCheckpoints(s) \/ DetailFails(s)
                 \/ PostReturns(s) \/ CreateReturns(s)

Next ==
  \/ Navigate \/ OpenModal \/ CloseModal
  \/ \E r \in Run : OthersMove(r)
  \/ \E s \in Slot : Poll(s) \/ Operator(s) \/ Answer(s) \/ Continue(s) \/ FetchFails(s) \/ PostFails(s)

SpecFrom(starts) == InitFrom(starts) /\ [][Next]_vars
Spec == SpecFrom({RL!NoRun})
-----------------------------------------------------------------------------
\* What the pages show.

\* RunsPage: banner, spinner, empty state and table.
RunsScreen ==
  (IF error THEN {"error"} ELSE {}) \cup (IF loading THEN {"loading"} ELSE {})
    \cup (IF ~loading /\ ~error /\ (list = None \/ DOMAIN list = {}) THEN {"empty"} ELSE {})
    \cup (IF ~loading /\ list # None /\ DOMAIN list # {} THEN {"table"} ELSE {})

\* RunDetailPage: its early returns, or the run.
DetailScreen == IF loading THEN "loading" ELSE IF error /\ run = None THEN "error"
                ELSE IF run = None THEN "blank" ELSE "run"

\* The badges; a state without a style would be shown as CREATED.
RunBadge(st) == IF st \in RunState THEN st ELSE "CREATED"
CkptBadge(st) == CASE st = "IN_PROGRESS" -> "Saving..." [] st = "COMMITTED" -> "Saved" [] OTHER -> st

\* The checkpoint history of RunDetailPage: the badge of each row.
HistoryTable == [i \in DOMAIN checkpoints |-> CkptBadge(checkpoints[i])]
-----------------------------------------------------------------------------
Shown == [id : Run, state : RunState, version : Nat]
IsRows(x) == \E S \in SUBSET Run : x \in [S -> Shown]
Result == {None, "ok", "refused", Failed}
DetailCall == [kind : {"detail"}, id : Run, run : {None, Failed} \cup Shown,
               ckpts : {None, Failed} \cup Seq(CheckpointState), stored : BOOLEAN]
PostCall == [kind : {"post"}, owner : {"page", "gone"}, id : Run, shown : Shown, result : Result,
             action : {"start", "cancel", "checkpoint", "resume"}]
CreateCall == [kind : {"create"}, owner : {"modal", "page", "gone"}, valid : BOOLEAN, result : Result]
IsCall(c) ==
  \/ c = Idle \/ c \in DetailCall \cup PostCall \cup CreateCall
  \/ c.kind = "list" /\ c = ListCall(c.answer) /\ (c.answer \in {None, Failed} \/ IsRows(c.answer))

\* Types; the state of a run that is displayed always has a style (RUN_STATE_CONFIG).
TypeOK ==
  /\ runState \in [Run -> RunState \cup {RL!NoRun}]
  /\ version \in [Run -> Nat] /\ ckpts \in [Run -> Seq(CheckpointState)]
  /\ route \in Run \cup {"runs", "elsewhere"}
  /\ list = None \/ IsRows(list)
  /\ run \in {None} \cup Shown /\ checkpoints \in Seq(CheckpointState)
  /\ loading \in BOOLEAN /\ error \in BOOLEAN /\ modal \in {"closed", "open", "submitting", "refused"}
  /\ calls = [s \in Slot |-> calls[s]] /\ \A s \in Slot : IsCall(calls[s])
  /\ faults \in 0..MaxFaults

\* Without jumps in the history, the detail page shows the run of its URL, and an
\* action goes to the run whose state offered it: no fetch of an earlier page is
\* ever stored by a later one.
ActsOnWhatItShows ==
  /\ route \in Run /\ run # None => run.id = route
  /\ \A s \in Slot : calls[s].kind = "post" => calls[s].id = calls[s].shown.id

\* Buttons the server never honours, even when the display is up to date.
DeadButtons == {<<"CHECKPOINTING", "checkpoint">>, <<"CHECKPOINTING", "cancel">>, <<"CANCELLED", "resume">>}

\* An action on a run that has not changed since it was displayed is accepted,
\* except for exactly those three: the buttons of both pages follow
\* VALID_TRANSITIONS otherwise.
OfferedIsAccepted ==
  \A s \in Slot :
    calls[s].kind = "post" /\ calls[s].result = None /\ calls[s].id = calls[s].shown.id
      /\ calls[s].shown.version = version[calls[s].id]
    => (Accepted(calls[s].action, runState[calls[s].id])
          <=> <<calls[s].shown.state, calls[s].action>> \notin DeadButtons)

\* Neither page is ever blank, whatever rounds overlap, fail or are stored in pieces,
\* and a run is labelled "Created" only when that was its state.
NeverBlank ==
  /\ route \in Run => DetailScreen # "blank"
  /\ route = "runs" => RunsScreen # {}
  /\ run # None /\ RunBadge(run.state) = "CREATED" => run.state = "CREATED"

\* Without jumps in the history, a checkpoint listed as "Saved" on the page of a run
\* is one of that run's and is committed at the server now, however old the answer
\* that is displayed and whatever failed since (the removal of old checkpoints by
\* the retention manager is not an action of this module).
SavedIsSaved ==
  route \in Run => \A i \in DOMAIN HistoryTable :
    HistoryTable[i] = "Saved" => i \in DOMAIN ckpts[route] /\ ckpts[route][i] = "COMMITTED"

OfModal(c) == c.kind = "create" /\ c.owner = "modal"
\* A modal submits once: while its request is out its button is disabled.
SubmitsOnce ==
  /\ \A s, t \in Slot : OfModal(calls[s]) /\ OfModal(calls[t]) => s = t
  /\ modal = "submitting" <=> \E s \in Slot : OfModal(calls[s])

\* The properties above rest on what may be on its way.  A snapshot of a run, wherever
\* it is kept, is not newer than the run, and if the run has not changed since it shows
\* its state; a committed checkpoint of an answer is committed at the server.
Faithful(x) ==
  /\ x.id \in Existing /\ x.version <= version[x.id]
  /\ x.version = version[x.id] => x.state = runState[x.id]
FaithfulRows(rows) == \A r \in DOMAIN rows : rows[r].id = r /\ Faithful(rows[r])
Keeps(old, new) == \A i \in DOMAIN old : old[i] = "COMMITTED" => i \in DOMAIN new /\ new[i] = "COMMITTED"

\* A call in flight belongs to the page on the route, or its page is gone.
CallInv(c) ==
  /\ c.kind = "list" => route = "runs" /\ (c.answer \notin {None, Failed} => FaithfulRows(c.answer))
  /\ c.kind = "detail" =>
       /\ c.id \in Existing /\ (HistoryJumps \/ route = c.id)
       /\ c.run \notin {None, Failed} => c.run.id = c.id /\ Faithful(c.run)
       /\ c.ckpts \notin {None, Failed} => Keeps(c.ckpts, ckpts[c.id])
       /\ c.stored => run # None /\ c.ckpts \notin {None, Failed}
  /\ c.kind = "post" =>
       /\ c.id \in Existing /\ (HistoryJumps \/ c.id = c.shown.id)
       /\ Faithful(c.shown) /\ c.action \in DetailButtons(c.shown.state)
       /\ HistoryJumps \/ c.owner = "gone" \/ route \in {"runs", c.id}
  /\ c.kind = "create" => c.owner = "gone" \/ route = "runs"
PageInv ==
  /\ route \in Run => route \in Existing
  /\ modal # "closed" => route = "runs"
  /\ list # None => FaithfulRows(list)
  /\ run # None => Faithful(run) /\ (HistoryJumps \/ route \notin Run \/ run.id = route)
  /\ HistoryJumps \/ (route \in Run => Keeps(checkpoints, ckpts[route]))
  /\ route \in Run /\ ~loading /\ run = None => error

ConsoleInv == TypeOK /\ PageInv /\ SubmitsOnce /\ \A s \in Slot : CallInv(calls[s])

\* Whatever is clicked on however old a display, every run follows its lifecycle.
RunFollowsLifecycle == \A r \in Run : [Life(r)!Next]_(runState[r])

\* An operator who stays on the list ends up seeing the runs as they are, even
\* though old answers may overwrite new ones on the way.
ListIsCurrent == list # None /\ \A r \in Existing : r \in DOMAIN list /\ list[r] = Snapshot(r)

\* So does one who stays on a run's page, also after a jump from another run's.
DetailIsCurrent(r) == run = Snapshot(r) /\ checkpoints = ckpts[r]
-----------------------------------------------------------------------------
(* What the repository says of this code and the code does not keep: see README.md. *)

\* rest.py:740: "the worker will call resume() again after loading the checkpoint
\* to go RECOVERING -> RUNNING": no request of the console ends a recovery.
WorkerEndsRecovery ==
  [][\A r \in Run : runState[r] = "RECOVERING" /\ runState'[r] = "RUNNING" => calls' = calls]_vars
=============================================================================
