------------------------------- MODULE Retention -------------------------------
(***************************************************************************)
(* The retention manager, controlplane/retention.py: a pass lists the      *)
(* bucket, reads the runs, decides, deletes objects in batches and then    *)
(* the records of the checkpoints it deleted.  It runs in a thread of its  *)
(* own while runs are trained, checkpointed, failed and resumed.           *)
(*                                                                         *)
(* A checkpoint is two objects, its shards and its manifest.  Every write  *)
(* and every transition of a run has a time of its own.                    *)
(***************************************************************************)
EXTENDS Naturals, FiniteSets

CONSTANTS
  Run, Ckpt,
  Owner,                  \* run of each checkpoint
  None,
  keep_committed_per_run, keep_runs,
  orphan_grace,           \* ticks
  UploadTime, ListTime,   \* bounds on the time from the shards of a checkpoint to its
                          \* manifest, and from the listing of a pass to its decision
  Batch,                  \* objects per delete_objects (1000)
  MaxTime,                \* bound on the clock
  LastWrite,              \* time after which runs do nothing more
  MaxFaults               \* bound on the delete calls that fail

RetentionAssumption ==
  /\ Owner \in [Ckpt -> Run] /\ IsFiniteSet(Run) /\ IsFiniteSet(Ckpt)
  /\ {keep_committed_per_run, keep_runs, Batch} \subseteq Nat \ {0}
  /\ UploadTime + ListTime <= orphan_grace /\ LastWrite <= MaxTime /\ MaxTime > 0
  /\ {orphan_grace, UploadTime, ListTime, MaxTime, LastWrite, MaxFaults} \subseteq Nat
  /\ None \notin [state : {"IN_PROGRESS", "COMMITTED", "FAILED"}, at : Nat]

VARIABLES
  now,
  runState, updated,  \* state of each run, and the time of its last transition
  objects,            \* LastModified of each object, by <<checkpoint, kind>>
  record,             \* metadata of each checkpoint: None, or its state and since when
  pc,                 \* the pass: "idle", "listed", "deleting"
  listing, listedAt,  \* the objects as they were listed, and when
  victims,            \* to_delete: the checkpoints
  todo,               \* delete_items that are still to be deleted
  dropped,            \* history: runs that were neither active nor the newest
                      \* failed one when some pass read them
  faults

training == <<runState, updated>>
pass == <<pc, listing, listedAt, victims, todo, dropped>>
vars == <<now, training, objects, record, pass, faults>>

RL == INSTANCE RunLifecycle WITH runState <- None

Manifest(c) == <<c, "_manifest.json">>
Shards(c) == <<c, "shards">>
Of(c) == {Manifest(c), Shards(c)}
NoObjects == [o \in {} |-> 0]
Without(f, gone) == [o \in DOMAIN f \ gone |-> f[o]]
At(state) == [state |-> state, at |-> now]
In(c, state) == record[c] # None /\ record[c].state = state
Put(o) == [x \in DOMAIN objects \cup {o} |-> IF x = o THEN now ELSE objects[x]]

Init ==
  /\ now = 1 /\ runState = [r \in Run |-> "RUNNING"] /\ updated = [r \in Run |-> 0]
  /\ objects = NoObjects /\ record = [c \in Ckpt |-> None]
  /\ pc = "idle" /\ listing = NoObjects /\ listedAt = 0 /\ victims = {} /\ todo = {} /\ dropped = {} /\ faults = 0
-----------------------------------------------------------------------------
\* The runs.

TimePasses(limit) == now < limit /\ now' = now + 1 /\ (pc = "listed" => now < listedAt + ListTime)
Works == TimePasses(LastWrite)
Moves(r, s) ==
  /\ RL!can_transition(runState[r], s)
  /\ runState' = [runState EXCEPT ![r] = s] /\ updated' = [updated EXCEPT ![r] = now]

\* The first shard of a new checkpoint of a run.
Upload(c) ==
  /\ Works /\ record[c] = None /\ Of(c) \cap DOMAIN objects = {} /\ c \notin victims
  /\ Moves(Owner[c], "CHECKPOINTING")
  /\ record' = [record EXCEPT ![c] = At("IN_PROGRESS")] /\ objects' = Put(Shards(c))
  /\ UNCHANGED <<pass, faults>>

\* The manifest, then the record and the run.  The commit comes within
\* UploadTime of the shards.
Commit(c) ==
  /\ Works /\ In(c, "IN_PROGRESS") /\ Shards(c) \in DOMAIN objects
  /\ now <= objects[Shards(c)] + UploadTime
  /\ Moves(Owner[c], "COMMITTED")
  /\ record' = [record EXCEPT ![c] = At("COMMITTED")] /\ objects' = Put(Manifest(c))
  /\ UNCHANGED <<pass, faults>>

\* Every other transition; recovery and cancellation abandon what is in progress.
Transition(r, s) ==
  /\ s \notin {"CHECKPOINTING", "COMMITTED"} /\ Works /\ Moves(r, s)
  /\ record' = [c \in Ckpt |-> IF Owner[c] = r /\ In(c, "IN_PROGRESS") THEN At("FAILED") ELSE record[c]]
  /\ UNCHANGED <<objects, pass, faults>>

Tick == TimePasses(MaxTime) /\ UNCHANGED <<training, objects, record, pass, faults>>
-----------------------------------------------------------------------------
\* What a pass decides, from its listing and from the runs as they are then.

Listed == {c \in Ckpt : Of(c) \cap DOMAIN listing # {}}
LastModified(c) == LET times == {listing[o] : o \in Of(c) \cap DOMAIN listing}
                   IN CHOOSE t \in times : \A u \in times : u <= t
ListedRuns == {Owner[c] : c \in Listed}
RunRecency == [r \in ListedRuns |->
  LET times == {LastModified(c) : c \in {x \in Listed : Owner[x] = r}}
  IN CHOOSE t \in times : \A u \in times : u <= t]
Newest(S, time, n) == {x \in S : Cardinality({y \in S : time[y] > time[x]}) < n}

active_states == {"RUNNING", "CHECKPOINTING", "COMMITTED", "RECOVERING"}
active_run_ids == {r \in Run : runState[r] \in active_states}
failed_runs == {r \in Run : runState[r] = "FAILED"}
recoverable_failed_run_ids == {r \in failed_runs : \A q \in failed_runs : updated[q] <= updated[r]}

retained_run_ids ==
  active_run_ids \cup recoverable_failed_run_ids \cup Newest(ListedRuns, RunRecency, keep_runs)

Committed(r) == {c \in Listed : Owner[c] = r /\ Manifest(c) \in DOMAIN listing}
Orphans_Never(r) == {}
Orphans(r) == {c \in Listed : Owner[c] = r /\ Manifest(c) \notin DOMAIN listing}

\* committed[: keep_committed_per_run], newest first.
Kept_Oldest(r) ==
  {c \in Committed(r) : Cardinality({d \in Committed(r) : LastModified(d) < LastModified(c)}) < keep_committed_per_run}
Kept(r) == Newest(Committed(r), [c \in Listed |-> LastModified(c)], keep_committed_per_run)

to_delete ==
  {c \in Listed : \/ Owner[c] \notin retained_run_ids
                  \/ c \in Committed(Owner[c]) \ Kept(Owner[c])
                  \/ c \in Orphans(Owner[c]) /\ LastModified(c) + orphan_grace < now}
-----------------------------------------------------------------------------
\* run_once

List ==
  /\ pc = "idle" /\ pc' = "listed" /\ listing' = objects /\ listedAt' = now
  /\ UNCHANGED <<now, training, objects, record, victims, todo, dropped, faults>>

Decide ==
  /\ pc = "listed" /\ pc' = "deleting"
  /\ victims' = to_delete
  /\ todo' = (UNION {Of(c) : c \in to_delete}) \cap DOMAIN listing
  /\ dropped' = dropped \cup (Run \ (active_run_ids \cup recoverable_failed_run_ids))
  /\ UNCHANGED <<now, training, objects, record, listing, listedAt, faults>>

\* A batch holds the manifest of a checkpoint before its shards, as the keys are listed.
Batches == {b \in SUBSET todo : /\ Cardinality(b) <= Batch
                                /\ \A c \in victims : Shards(c) \in b => Manifest(c) \notin todo \ b}

DeleteBatch ==
  /\ pc = "deleting" /\ todo # {}
  /\ \E b \in Batches \ {{}} : todo' = todo \ b /\ objects' = Without(objects, b)
  /\ UNCHANGED <<now, training, record, pc, listing, listedAt, victims, dropped, faults>>

\* Some objects of the batch are reported as errors, or the call raises: the pass is over.
Fails(next, left) ==
  /\ pc = "deleting" /\ todo # {} /\ faults < MaxFaults /\ faults' = faults + 1
  /\ \E b \in Batches : \E done \in SUBSET b : objects' = Without(objects, done)
  /\ pc' = next /\ todo' = {} /\ victims' = left
  /\ UNCHANGED <<now, training, record, listing, listedAt, dropped>>
DeleteFails_Ignored == Fails("deleting", victims)
DeleteFails == Fails("idle", {})

\* The metadata of each deleted checkpoint.
delete_checkpoint(c) ==
  /\ pc = "deleting" /\ todo = {} /\ c \in victims
  /\ record' = [record EXCEPT ![c] = None] /\ victims' = victims \ {c}
  /\ UNCHANGED <<now, training, objects, pc, listing, listedAt, todo, dropped, faults>>

Finish ==
  /\ pc = "deleting" /\ todo = {} /\ victims = {} /\ pc' = "idle"
  /\ UNCHANGED <<now, training, objects, record, listing, listedAt, victims, todo, dropped, faults>>
-----------------------------------------------------------------------------
Pass == List \/ Decide \/ DeleteBatch \/ (\E c \in Ckpt : delete_checkpoint(c)) \/ Finish
Next ==
  \/ Pass \/ DeleteFails \/ Tick
  \/ \E c \in Ckpt : Upload(c) \/ Commit(c)
  \/ \E r \in Run, s \in RL!RunStates : Transition(r, s)

Spec == Init /\ [][Next]_vars
-----------------------------------------------------------------------------
Object == UNION {Of(c) : c \in Ckpt}
Timed(f) == DOMAIN f \subseteq Object /\ \A o \in DOMAIN f : f[o] \in 1..MaxTime

\* Types; what is still to be deleted belongs to checkpoints given up, and was listed.
TypeOK ==
  /\ now \in 1..MaxTime /\ listedAt \in 0..now /\ runState \in [Run -> RL!RunStates] /\ updated \in [Run -> 0..MaxTime]
  /\ Timed(objects) /\ Timed(listing)
  /\ record \in [Ckpt -> {None} \cup [state : {"IN_PROGRESS", "COMMITTED", "FAILED"}, at : 1..MaxTime]]
  /\ pc \in {"idle", "listed", "deleting"} /\ victims \subseteq Ckpt /\ dropped \subseteq Run
  /\ pc # "deleting" => victims = {}
  /\ todo \subseteq DOMAIN listing \cap (UNION {Of(c) : c \in victims}) /\ faults \in 0..MaxFaults

\* A run that every pass found active, or found to be the newest failure, has its
\* newest committed checkpoint complete: with listings that are old when the runs
\* are read, commits and failures during the pass, and batches that fail halfway.
KeepsLatest ==
  \A c \in Ckpt :
    /\ Owner[c] \notin dropped /\ In(c, "COMMITTED")
    /\ \A d \in Ckpt : Owner[d] = Owner[c] /\ In(d, "COMMITTED") => record[d].at <= record[c].at
    => Of(c) \subseteq DOMAIN objects

\* An upload of such a run that is younger than the grace period is left alone,
\* although it has no manifest.
UploadsHaveGrace ==
  \A c \in Ckpt : Owner[c] \notin dropped /\ In(c, "IN_PROGRESS") /\ now <= record[c].at + orphan_grace
    => Shards(c) \in DOMAIN objects

\* Metadata is removed only after the shards it describes: a batch that fails, in
\* part or whole, leaves the metadata of all of them.
MetadataOutlivesShards ==
  \A c \in Ckpt : record[c] # None /\ record'[c] = None => Shards(c) \notin DOMAIN objects'

\* Why KeepsLatest holds, in four parts.  Safe: no pass has given up the run of c.
Safe(c) == Owner[c] \notin dropped
Newer(d, c) == Owner[d] = Owner[c] /\ In(d, "COMMITTED") /\ record[d].at > record[c].at

\* Writes are in the past, and no two commits have the same time.
StampsArePast ==
  /\ \A o \in DOMAIN objects : objects[o] < now
  /\ \A c \in Ckpt : record[c] # None => record[c].at < now
  /\ \A c, d \in Ckpt : In(c, "COMMITTED") /\ In(d, "COMMITTED") /\ record[c].at = record[d].at => c = d

\* The time of an object is that of the record it belongs to.
ObjectsMatchRecords ==
  \A c \in Ckpt :
    /\ In(c, "IN_PROGRESS") => Manifest(c) \notin DOMAIN objects
    /\ In(c, "IN_PROGRESS") /\ Shards(c) \in DOMAIN objects => objects[Shards(c)] = record[c].at
    /\ Safe(c) /\ Manifest(c) \in DOMAIN objects => In(c, "COMMITTED") /\ objects[Manifest(c)] = record[c].at
    /\ Of(c) \subseteq DOMAIN objects => objects[Shards(c)] < objects[Manifest(c)]

\* Between listing and decision what was listed stays, and a manifest that was not
\* listed is younger than the listing and close to its shards.
ListingIsRecent ==
  pc = "listed" =>
    /\ listedAt <= now /\ now <= listedAt + ListTime
    /\ \A o \in DOMAIN listing : o \in DOMAIN objects /\ objects[o] = listing[o]
    /\ \A c \in Listed : Shards(c) \in DOMAIN objects => Shards(c) \in DOMAIN listing
    /\ \A c \in Ckpt : Safe(c) /\ Of(c) \subseteq DOMAIN objects /\ Manifest(c) \notin DOMAIN listing
         => record[c].at >= listedAt /\ record[c].at <= objects[Shards(c)] + UploadTime

\* What a pass deletes: its objects are still to be deleted or gone, and of a run it
\* keeps only old uploads and commits with a newer one that stays.
VictimsAreSpare ==
  pc = "deleting" => \A c \in victims :
    /\ Shards(c) \in DOMAIN objects => Shards(c) \in todo
    /\ Safe(c) /\ Manifest(c) \in DOMAIN objects => Manifest(c) \in todo
    /\ Safe(c) /\ In(c, "IN_PROGRESS") => record[c].at + orphan_grace < now
    /\ Safe(c) /\ In(c, "COMMITTED") => \E d \in Ckpt \ victims : Newer(d, c)

RetentionInv ==
  /\ TypeOK /\ StampsArePast /\ ObjectsMatchRecords /\ ListingIsRecent /\ VictimsAreSpare
  /\ KeepsLatest /\ UploadsHaveGrace

\* Storage holds what the configuration allows: a number of commits per run, no
\* abandoned upload, and a number of runs besides the active and the newest failed ones.
WithinLimits ==
  LET stored(r) == {c \in Ckpt : Owner[c] = r /\ Of(c) \cap DOMAIN objects # {}}
      kept == {r \in Run : stored(r) # {}}
  IN /\ \A r \in Run : Cardinality(stored(r)) <= keep_committed_per_run
     /\ \A c \in Ckpt : Shards(c) \in DOMAIN objects => Manifest(c) \in DOMAIN objects
     /\ Cardinality(kept \ (active_run_ids \cup recoverable_failed_run_ids)) <= keep_runs
-----------------------------------------------------------------------------
(* What the repository says of this code and the code does not keep: see README.md. *)

\* retention.py:3 "The manifest is the checkpoint commit signal": where there is a
\* manifest, there are the shards it lists.
CommitSignal == \A c \in Ckpt : Manifest(c) \in DOMAIN objects => Shards(c) \in DOMAIN objects
=============================================================================
