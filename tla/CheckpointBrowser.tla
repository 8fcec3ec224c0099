-------------------------- MODULE CheckpointBrowser --------------------------
(***************************************************************************)
(* frontend/src/pages/CheckpointBrowser.tsx against GET /api/runs and      *)
(* GET /api/runs/{id}/checkpoints.                                         *)
(*                                                                         *)
(* A round first asks for the runs and then, for each of them at once, for *)
(* its checkpoints; a call of the second kind that fails counts as an      *)
(* empty list, and no error is shown.  Rounds overlap, as on every polled  *)
(* page.  A checkpoint is a number, its place in the order of creation;    *)
(* the state of a row (expanded or not) belongs to its checkpoint, which   *)
(* is the row's key.                                                       *)
(***************************************************************************)
EXTENDS Naturals, Sequences, FiniteSets

CONSTANTS
  Run,        \* runs, all of them created
  MaxCkpt,    \* bound on the checkpoints that are created
  Slot,       \* rounds in flight: names, and the bound on their number
  None,       \* no round, no answer yet
  Failed,     \* a call refused or thrown
  MaxFaults   \* bound on the calls that fail

BrowserAssumption == MaxCkpt \in Nat /\ MaxFaults \in Nat

VARIABLES
  made,       \* checkpoints created so far, and of which run
  state,      \* state of each
  deleted,    \* those retention has deleted
  rounds,     \* what each slot is doing
  checkpoints, loading, error, \* the page
  expanded,   \* the rows that are expanded
  faults

server == <<made, state, deleted>>
vars == <<server, rounds, checkpoints, loading, error, expanded, faults>>

Ckpt == 1..MaxCkpt
Existing == DOMAIN made \ deleted
Info(c) == [id |-> c, run |-> made[c], state |-> state[c]]
Rows == {checkpoints[i].id : i \in DOMAIN checkpoints}

Init ==
  /\ made = <<>> /\ state = <<>> /\ deleted = {}
  /\ rounds = [s \in Slot |-> None]
  /\ checkpoints = <<>> /\ loading = TRUE /\ error = FALSE
  /\ expanded = {} /\ faults = 0
-----------------------------------------------------------------------------
\* The server.
Create(r) ==
  /\ Len(made) < MaxCkpt
  /\ made' = Append(made, r) /\ state' = Append(state, "IN_PROGRESS")
  /\ UNCHANGED <<deleted, rounds, checkpoints, loading, error, expanded, faults>>
Finish(c) ==
  /\ c \in Existing /\ state[c] = "IN_PROGRESS"
  /\ \E st \in {"COMMITTED", "FAILED"} : state' = [state EXCEPT ![c] = st]
  /\ UNCHANGED <<made, deleted, rounds, checkpoints, loading, error, expanded, faults>>
Retire(c) ==
  /\ c \in Existing /\ state[c] # "IN_PROGRESS" /\ deleted' = deleted \cup {c}
  /\ UNCHANGED <<made, state, rounds, checkpoints, loading, error, expanded, faults>>
-----------------------------------------------------------------------------
\* fetchAll.

\* The first request: no list is asked for yet.
Poll(s) ==
  /\ rounds[s] = None /\ rounds' = [rounds EXCEPT ![s] = [runs |-> None, lists |-> <<>>]]
  /\ UNCHANGED <<server, checkpoints, loading, error, expanded, faults>>

AnswerRuns(s) ==
  /\ rounds[s] # None /\ rounds[s].runs = None
  /\ rounds' = [rounds EXCEPT ![s] = [runs |-> Run, lists |-> [r \in Run |-> None]]]
  /\ UNCHANGED <<server, checkpoints, loading, error, expanded, faults>>

\* The runs cannot be had: an error, and the old rows stay.
RunsFail(s) ==
  /\ faults < MaxFaults /\ faults' = faults + 1
  /\ rounds[s] # None /\ rounds[s].runs = None
  /\ rounds' = [rounds EXCEPT ![s] = None] /\ error' = TRUE /\ loading' = FALSE
  /\ UNCHANGED <<server, checkpoints, expanded>>

Listed(s, r, answer) ==
  /\ rounds[s] # None /\ r \in DOMAIN rounds[s].lists /\ rounds[s].lists[r] = None
  /\ rounds' = [rounds EXCEPT ![s].lists[r] = answer]
  /\ UNCHANGED <<server, checkpoints, loading, error, expanded>>
AnswerList(s, r) == Listed(s, r, {Info(c) : c \in {d \in Existing : made[d] = r}}) /\ UNCHANGED faults
\* if (!res.ok) return []; catch { return []; }: see Flat.
ListFails(s, r) == faults < MaxFaults /\ faults' = faults + 1 /\ Listed(s, r, Failed)

Flat(lists) == UNION {lists[r] : r \in {q \in DOMAIN lists : lists[q] # Failed}}
Newer(a, b) == b.id < a.id
\* allCkpts.sort by created_at, newest first.
Sorted(infos) ==
  CHOOSE seq \in UNION {[1..n -> infos] : n \in 0..MaxCkpt} :
    /\ {seq[i] : i \in DOMAIN seq} = infos
    /\ \A i, j \in DOMAIN seq : i < j => Newer(seq[i], seq[j])

Kept_Position(old, new) ==
  {new[i].id : i \in {j \in DOMAIN new \cap DOMAIN old : old[j].id \in expanded}}
\* What React keeps of the rows' state: by key, for the rows that are still there.
Kept(old, new) == expanded \cap {new[i].id : i \in DOMAIN new}

Shows(s, infos) ==
  /\ rounds[s] # None /\ rounds[s].runs # None
  /\ None \notin {rounds[s].lists[r] : r \in Run}
  /\ checkpoints' = Sorted(infos) /\ expanded' = Kept(checkpoints, checkpoints')
  /\ error' = FALSE /\ loading' = FALSE
  /\ rounds' = [rounds EXCEPT ![s] = None]
  /\ UNCHANGED <<server, faults>>
\* All lists are in.
Store(s) == rounds[s] # None /\ Shows(s, Flat(rounds[s].lists))

\* A click on a row.
Toggle(c) ==
  /\ ~loading /\ c \in Rows
  /\ expanded' = IF c \in expanded THEN expanded \ {c} ELSE expanded \cup {c}
  /\ UNCHANGED <<server, rounds, checkpoints, loading, error, faults>>
-----------------------------------------------------------------------------
Next ==
  \/ \E r \in Run : Create(r)
  \/ \E c \in Ckpt : Finish(c) \/ Retire(c) \/ Toggle(c)
  \/ \E s \in Slot : Poll(s) \/ AnswerRuns(s) \/ RunsFail(s) \/ Store(s)
  \/ \E s \in Slot, r \in Run : AnswerList(s, r) \/ ListFails(s, r)

Spec == Init /\ [][Next]_vars
-----------------------------------------------------------------------------
\* What is displayed.

\* components/ui.tsx CkptBadge.
CkptBadge(st) == CASE st = "IN_PROGRESS" -> "Saving..." [] st = "COMMITTED" -> "Saved" [] OTHER -> st

Cards == [total |-> Len(checkpoints),
          committed |-> Cardinality({i \in DOMAIN checkpoints : checkpoints[i].state = "COMMITTED"})]
Screen ==
  (IF error THEN {"error"} ELSE {}) \cup (IF loading THEN {"loading"} ELSE {})
    \cup (IF ~loading /\ checkpoints = <<>> /\ ~error THEN {"No checkpoints found across any run."} ELSE {})
    \cup (IF ~loading /\ checkpoints # <<>> THEN {"table"} ELSE {})
\* CheckpointRow: what a row shows, with its details below when it is expanded.
CheckpointRow(i) == [badge |-> CkptBadge(checkpoints[i].state), details |-> checkpoints[i].id \in expanded]
-----------------------------------------------------------------------------
CkptState == {"IN_PROGRESS", "COMMITTED", "FAILED"}
CkptInfo == [id : Ckpt, run : Run, state : CkptState]

\* Types; only rows that exist are expanded, and the page is never blank.
TypeOK ==
  /\ made \in Seq(Run) /\ Len(made) <= MaxCkpt /\ state \in Seq(CkptState) /\ Len(state) = Len(made)
  /\ deleted \subseteq DOMAIN made /\ expanded \subseteq Rows
  /\ \A i \in DOMAIN checkpoints : checkpoints[i] \in CkptInfo
  /\ \A s \in Slot : rounds[s] # None =>
       \A r \in DOMAIN rounds[s].lists : rounds[s].lists[r] \in {None, Failed} \/ rounds[s].lists[r] \subseteq CkptInfo
  /\ {loading, error} \subseteq BOOLEAN /\ Screen # {} /\ faults \in 0..MaxFaults

\* Rows are listed newest first and once each, although the lists of the runs are
\* answered at different times and by overlapping rounds.
NewestFirst ==
  \A i, j \in DOMAIN checkpoints : i < j => checkpoints[j].id < checkpoints[i].id

\* A row that says Saved is a committed checkpoint, however old the answer it comes
\* from: a checkpoint that leaves COMMITTED only does so by being deleted.
SavedIsSaved ==
  \A i \in DOMAIN checkpoints :
    CheckpointRow(i).badge = "Saved" => state[checkpoints[i].id] = "COMMITTED"

\* Inductive: what a call or the page holds of a checkpoint was so once, and a list has
\* the checkpoints of the run it was asked for, once each.
Known(x) ==
  /\ x \in CkptInfo /\ x.id \in DOMAIN made /\ x.run = made[x.id]
  /\ x.state = "COMMITTED" => state[x.id] = "COMMITTED"
ListOK(r, l) ==
  \/ l \in {None, Failed}
  \/ (\A x \in l : Known(x) /\ x.run = r) /\ (\A x, y \in l : x.id = y.id => x = y)
RoundOK(v) ==
  \/ v = None
  \/ v = [runs |-> None, lists |-> <<>>]
  \/ /\ v = [runs |-> Run, lists |-> v.lists] /\ v.lists = [r \in Run |-> v.lists[r]]
     /\ \A r \in Run : ListOK(r, v.lists[r])
BrowserInv ==
  /\ TypeOK /\ NewestFirst /\ checkpoints \in Seq(CkptInfo) /\ \A i \in DOMAIN checkpoints : Known(checkpoints[i])
  /\ rounds = [s \in Slot |-> rounds[s]] /\ \A s \in Slot : RoundOK(rounds[s])

\* A poll that moves rows neither opens nor closes one: the details stay with the
\* checkpoint the operator opened.
RowsKeepTheirState ==
  checkpoints' # checkpoints => expanded' = {c \in expanded : \E i \in DOMAIN checkpoints' : checkpoints'[i].id = c}

\* Once the server is quiet and calls stop failing, the page lists what exists: a
\* list that failed silently comes back, a deleted checkpoint goes.
ListIsCurrent ==
  /\ checkpoints = Sorted({Info(c) : c \in Existing})
  /\ Cards = [total |-> Cardinality(Existing), committed |-> Cardinality({c \in Existing : state[c] = "COMMITTED"})]
-----------------------------------------------------------------------------
(* What the repository says of this code and the code does not keep: see README.md. *)

\* CheckpointBrowser.tsx:127 "No checkpoints found across any run.": the page says
\* so only when every run was asked and answered.
EmptyMeansAsked ==
  [][\A s \in Slot : rounds[s] # None /\ rounds'[s] = None
       /\ (~loading' /\ checkpoints' = <<>> /\ ~error')
       => \A r \in Run : rounds[s].lists[r] # Failed]_vars
=============================================================================
