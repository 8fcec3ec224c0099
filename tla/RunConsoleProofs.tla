--------------------------- MODULE RunConsoleProofs ---------------------------
(***************************************************************************)
(* Proofs about RunConsole for any number of runs and of calls in flight,  *)
(* any number of changes and of failures.                                  *)
(***************************************************************************)
EXTENDS RunConsole, SequenceTheorems, TLAPS

ServerType ==
  /\ runState \in [Run -> RunState \cup {RL!NoRun}]
  /\ version \in [Run -> Nat] /\ ckpts \in [Run -> Seq(CheckpointState)]
PageType ==
  /\ route \in Run \cup {"runs", "elsewhere"}
  /\ list = None \/ IsRows(list)
  /\ run \in {None} \cup Shown /\ checkpoints \in Seq(CheckpointState)
  /\ loading \in BOOLEAN /\ error \in BOOLEAN /\ modal \in {"closed", "open", "submitting", "refused"}
CallsType == calls = [s \in Slot |-> calls[s]] /\ \A s \in Slot : IsCall(calls[s])
CallsInv == \A s \in Slot : CallInv(calls[s])

\* The parts of the invariant.
LEMMA Parts ==
  /\ ConsoleInv => /\ ServerType /\ PageType /\ CallsType /\ faults \in 0..MaxFaults
                   /\ PageInv /\ SubmitsOnce /\ CallsInv
  /\ ServerType' /\ PageType' /\ CallsType' /\ faults' \in 0..MaxFaults
       /\ PageInv' /\ SubmitsOnce' /\ CallsInv' => ConsoleInv'
  BY DEF ConsoleInv, TypeOK, ServerType, PageType, CallsType, CallsInv

\* What a call of each kind looks like.
LEMMA Kinds ==
  ASSUME NEW c, IsCall(c)
  PROVE  /\ c.kind = "list" => c = ListCall(c.answer) /\ (c.answer \in {None, Failed} \/ IsRows(c.answer))
         /\ c.kind = "detail" => c \in DetailCall
         /\ c.kind = "post" => c \in PostCall
         /\ c.kind = "create" => c \in CreateCall
         /\ c.kind \in {"list", "detail", "post", "create"} \/ c = Idle
  <1>1. CASE c = Idle
    BY <1>1 DEF Idle
  <1>2. CASE c \in DetailCall
    BY <1>2 DEF DetailCall
  <1>3. CASE c \in PostCall
    BY <1>3 DEF PostCall
  <1>4. CASE c \in CreateCall
    BY <1>4 DEF CreateCall
  <1>5. CASE c.kind = "list" /\ c = ListCall(c.answer) /\ (c.answer \in {None, Failed} \/ IsRows(c.answer))
    BY <1>5
  <1> QED
    BY <1>1, <1>2, <1>3, <1>4, <1>5 DEF IsCall

\* New calls are calls.
LEMMA NewCalls ==
  /\ IsCall(Idle) /\ IsCall(ListFetch)
  /\ \A r \in Run : IsCall(DetailFetch(r)) /\ DetailFetch(r) \in DetailCall
  /\ \A r \in Run, x \in Shown, a \in {"start", "cancel", "checkpoint", "resume"} :
       IsCall(Post(r, a, x)) /\ Post(r, a, x) \in PostCall
  <1>1. IsCall(Idle)
    BY DEF IsCall
  <1>2. IsCall(ListFetch)
    BY DEF IsCall, ListFetch, ListCall
  <1>3. ASSUME NEW r \in Run PROVE DetailFetch(r) \in DetailCall
    BY DEF DetailCall, DetailFetch
  <1>4. ASSUME NEW r \in Run, NEW x \in Shown, NEW a \in {"start", "cancel", "checkpoint", "resume"}
        PROVE  Post(r, a, x) \in PostCall
    BY DEF Post, PostCall, Result
  <1> QED
    BY <1>1, <1>2, <1>3, <1>4 DEF IsCall

\* Calls stay calls while they are answered and their pages go.
LEMMA DetailUpdate ==
  ASSUME NEW c \in DetailCall, NEW x
  PROVE  /\ x \in {None, Failed} \cup Shown => [c EXCEPT !.run = x] \in DetailCall
         /\ x \in {None, Failed} \cup Seq(CheckpointState) => [c EXCEPT !.ckpts = x] \in DetailCall
         /\ [c EXCEPT !.stored = TRUE] \in DetailCall
  BY DEF DetailCall

\* The same of posts.
LEMMA PostUpdate ==
  ASSUME NEW c \in PostCall, NEW x
  PROVE  /\ x \in Result => [c EXCEPT !.result = x] \in PostCall
         /\ x \in {"page", "gone"} => [c EXCEPT !.owner = x] \in PostCall
  BY DEF PostCall

\* The same of submitted forms.
LEMMA CreateUpdate ==
  ASSUME NEW c \in CreateCall, NEW x
  PROVE  /\ x \in Result => [c EXCEPT !.result = x] \in CreateCall
         /\ x \in {"modal", "page", "gone"} => [c EXCEPT !.owner = x] \in CreateCall
  BY DEF CreateCall
-----------------------------------------------------------------------------
\* What the server never does: forget a run, change one without a new version, or lose
\* a committed checkpoint.
Grows ==
  \A r \in Run : /\ runState[r] # RL!NoRun => runState'[r] # RL!NoRun
                 /\ version[r] <= version'[r]
                 /\ version[r] = version'[r] => runState'[r] = runState[r]
                 /\ Keeps(ckpts[r], ckpts'[r])

\* A committed checkpoint stays where it is in the list of the run's checkpoints.
LEMMA CheckpointSteps ==
  ASSUME NEW q \in Seq(CheckpointState)
  PROVE  /\ Append(q, "IN_PROGRESS") \in Seq(CheckpointState) /\ Keeps(q, Append(q, "IN_PROGRESS"))
         /\ CommitNewest(q) \in Seq(CheckpointState) /\ Keeps(q, CommitNewest(q))
         /\ FailAll(q) \in Seq(CheckpointState) /\ Keeps(q, FailAll(q))
         /\ Keeps(q, q)
  <1>1. Len(q) \in Nat /\ DOMAIN q = 1..Len(q) /\ \A i \in 1..Len(q) : q[i] \in CheckpointState
    OBVIOUS
  <1>2. Append(q, "IN_PROGRESS") \in Seq(CheckpointState) /\ Keeps(q, Append(q, "IN_PROGRESS"))
    BY DEF CheckpointState, Keeps
  <1>3. CommitNewest(q) \in [1..Len(q) -> CheckpointState] /\ Keeps(q, CommitNewest(q))
    BY <1>1 DEF CheckpointState, Keeps, CommitNewest
  <1>4. FailAll(q) \in [1..Len(q) -> CheckpointState] /\ Keeps(q, FailAll(q))
    BY <1>1 DEF CheckpointState, Keeps, FailAll
  <1>5. [1..Len(q) -> CheckpointState] \subseteq Seq(CheckpointState)
    BY <1>1, SeqDef
  <1>6. Keeps(q, q)
    BY DEF Keeps
  <1> QED
    BY <1>2, <1>3, <1>4, <1>5, <1>6

\* Every change of a run keeps the server's promises and types.
LEMMA MovedGrows ==
  ASSUME ServerType, NEW r \in Run, NEW s \in RunState, Moved(r, s)
  PROVE  ServerType' /\ Grows
  <1>1. PICK c : /\ c \in {Append(ckpts[r], "IN_PROGRESS"), CommitNewest(ckpts[r]), FailAll(ckpts[r]), ckpts[r]}
                 /\ ckpts' = [ckpts EXCEPT ![r] = c]
    <2>1. \E c \in CASE s = "CHECKPOINTING" -> {Append(ckpts[r], "IN_PROGRESS")}
                [] s = "COMMITTED" -> {CommitNewest(ckpts[r])}
                [] s = "FAILED" -> {ckpts[r], FailAll(ckpts[r])}
                [] OTHER -> {ckpts[r]} : ckpts' = [ckpts EXCEPT ![r] = c]
      BY DEF Moved
    <2> QED
      BY <2>1
  <1>2. ckpts[r] \in Seq(CheckpointState)
    BY DEF ServerType
  <1>3. c \in Seq(CheckpointState) /\ Keeps(ckpts[r], c)
    BY <1>1, <1>2, CheckpointSteps
  <1>4. /\ ckpts' \in [Run -> Seq(CheckpointState)]
        /\ \A x \in Run : Keeps(ckpts[x], ckpts'[x])
    <2>1. ASSUME NEW x \in Run PROVE Keeps(ckpts[x], ckpts'[x])
      <3>1. CASE x = r
        BY <1>1, <1>3, <3>1 DEF ServerType
      <3>2. CASE x # r
        BY <1>1, <3>2 DEF ServerType, Keeps
      <3> QED
        BY <3>1, <3>2
    <2> QED
      BY <1>1, <1>3, <2>1 DEF ServerType
  <1>5. s # RL!NoRun
    BY DEF RunState, RL!NoRun
  <1>6. /\ runState' \in [Run -> RunState \cup {RL!NoRun}] /\ version' \in [Run -> Nat]
        /\ \A x \in Run : /\ runState[x] # RL!NoRun => runState'[x] # RL!NoRun
                          /\ version[x] <= version'[x]
                          /\ version[x] = version'[x] => runState'[x] = runState[x]
    BY <1>5 DEF Moved, ServerType
  <1> QED
    BY <1>4, <1>6 DEF ServerType, Grows

\* Nor does a step that leaves the server alone break them.
LEMMA StillGrows ==
  ASSUME ServerType, UNCHANGED server PROVE ServerType' /\ Grows
  BY DEF ServerType, server, Grows, Keeps

\* What is known of checkpoints carries over.
LEMMA KeepsTransitive ==
  ASSUME NEW a, NEW b, NEW c, Keeps(a, b), Keeps(b, c) PROVE Keeps(a, c)
  BY DEF Keeps

\* A snapshot that is faithful stays faithful: an old one only gets older.
LEMMA FaithfulKept ==
  ASSUME ServerType, ServerType', Grows
  PROVE  /\ \A x \in Shown : Faithful(x) => Faithful(x)'
         /\ \A rows : IsRows(rows) /\ FaithfulRows(rows) => FaithfulRows(rows)'
         /\ Existing \subseteq Existing'
  <1>1. Existing \subseteq Existing'
    BY DEF Grows, Existing
  <1>2. ASSUME NEW x \in Shown, Faithful(x) PROVE Faithful(x)'
    <2>1. x.id \in Run /\ x.version \in Nat
      BY DEF Shown
    <2>2. version[x.id] \in Nat /\ version'[x.id] \in Nat
      BY <2>1 DEF ServerType
    <2> QED
      BY <1>1, <1>2, <2>1, <2>2 DEF Grows, Faithful
  <1>3. ASSUME NEW rows, IsRows(rows), FaithfulRows(rows) PROVE FaithfulRows(rows)'
    <2>1. \A r \in DOMAIN rows : rows[r] \in Shown /\ rows[r].id = r /\ Faithful(rows[r])
      BY <1>3 DEF IsRows, FaithfulRows
    <2> QED
      BY <1>2, <2>1 DEF FaithfulRows
  <1> QED
    BY <1>1, <1>2, <1>3

\* A call that a step leaves alone, on the page that stays, is as it was.
LEMMA SlotKept ==
  ASSUME ServerType, ServerType', Grows, NEW t \in Slot, IsCall(calls[t]), CallInv(calls[t]),
         calls'[t] = calls[t], route' = route, run # None => run' # None
  PROVE  CallInv(calls[t])'
  <1> DEFINE c == calls[t]
  <1>1. calls'[t] = c
    OBVIOUS
  <1>2. CASE c.kind = "list"
    <2>1. /\ route' = "runs"
          /\ c.answer \notin {None, Failed} => FaithfulRows(c.answer) /\ IsRows(c.answer)
      BY <1>2, Kinds DEF CallInv
    <2>2. c.answer \notin {None, Failed} => FaithfulRows(calls[t].answer)'
      BY <1>1, <2>1, FaithfulKept DEF FaithfulRows, Faithful
    <2> QED
      BY <1>2, <2>1, <2>2 DEF CallInv
  <1>3. CASE c.kind = "detail"
    <2>1. c \in DetailCall
      BY <1>3, Kinds
    <2>2. /\ c.id \in Existing /\ (HistoryJumps \/ route = c.id)
          /\ c.run \notin {None, Failed} => c.run.id = c.id /\ Faithful(c.run)
          /\ c.ckpts \notin {None, Failed} => Keeps(c.ckpts, ckpts[c.id])
          /\ c.stored => run # None /\ c.ckpts \notin {None, Failed}
      BY <1>3 DEF CallInv
    <2>3. c.id \in Run /\ c.run \in {None, Failed} \cup Shown
      BY <2>1 DEF DetailCall
    <2>4. c.run \notin {None, Failed} => Faithful(calls[t].run)'
      BY <2>2, <2>3, FaithfulKept DEF Faithful
    <2>5. c.ckpts \notin {None, Failed} => Keeps(c.ckpts, ckpts'[c.id])
      BY <2>2, <2>3, KeepsTransitive DEF Grows
    <2>6. c.id \in Existing'
      BY <2>2, FaithfulKept
    <2> QED
      BY <1>3, <2>2, <2>4, <2>5, <2>6 DEF CallInv
  <1>4. CASE c.kind = "post"
    <2>1. c \in PostCall
      BY <1>4, Kinds
    <2>2. c.shown \in Shown
      BY <2>1 DEF PostCall
    <2>3. /\ c.id \in Existing /\ (HistoryJumps \/ c.id = c.shown.id)
          /\ Faithful(c.shown) /\ c.action \in DetailButtons(c.shown.state)
          /\ HistoryJumps \/ c.owner = "gone" \/ route \in {"runs", c.id}
      BY <1>4 DEF CallInv
    <2>4. Faithful(calls[t].shown)'
      BY <2>2, <2>3, FaithfulKept DEF Faithful
    <2>5. c.id \in Existing'
      BY <2>3, FaithfulKept
    <2> QED
      BY <1>4, <2>3, <2>4, <2>5 DEF CallInv
  <1>5. CASE c.kind = "create"
    BY <1>5 DEF CallInv
  <1>6. CASE c = Idle
    BY <1>6 DEF CallInv, Idle
  <1> QED
    BY <1>2, <1>3, <1>4, <1>5, <1>6, Kinds

\* A page that a step leaves alone is as it was.
LEMMA PageKept ==
  ASSUME ServerType, ServerType', Grows, PageType, PageInv, UNCHANGED page
  PROVE  PageType' /\ PageInv'
  <1>1. PageType'
    BY DEF PageType, page, IsRows
  <1>2. /\ route' = route /\ list' = list /\ run' = run /\ checkpoints' = checkpoints
        /\ loading' = loading /\ error' = error /\ modal' = modal
    BY DEF page
  <1>3. list # None => FaithfulRows(list)'
    BY <1>2, FaithfulKept DEF PageType, PageInv, FaithfulRows, Faithful
  <1>4. run # None => Faithful(run)' /\ (HistoryJumps \/ route \notin Run \/ run.id = route)
    BY <1>2, FaithfulKept DEF PageType, PageInv, Faithful
  <1>5. HistoryJumps \/ (route \in Run => Keeps(checkpoints, ckpts'[route]))
    BY KeepsTransitive DEF PageInv, Grows
  <1>6. route \in Run => route \in Existing'
    BY FaithfulKept DEF PageInv
  <1> QED
    BY <1>1, <1>2, <1>3, <1>4, <1>5, <1>6 DEF PageInv

\* A step that neither opens, closes nor answers a modal leaves it with what it sent.
LEMMA SubmitsKept ==
  ASSUME SubmitsOnce, modal' = modal, \A t \in Slot : OfModal(calls[t])' <=> OfModal(calls[t])
  PROVE  SubmitsOnce'
  BY DEF SubmitsOnce

\* A step that changes one call, on a page that is not left and whose modal it does not
\* touch: what is left to show is about that call.
LEMMA OneCall ==
  ASSUME ConsoleInv, ServerType', Grows, PageType', PageInv', faults' \in 0..MaxFaults,
         route' = route, modal' = modal, run # None => run' # None,
         NEW s \in Slot, NEW c, calls' = [calls EXCEPT ![s] = c],
         IsCall(c), CallInv(calls[s])', OfModal(c) <=> OfModal(calls[s])
  PROVE  ConsoleInv'
  <1>1. ServerType /\ CallsType /\ SubmitsOnce /\ CallsInv
    BY Parts
  <1>2. calls'[s] = c /\ \A t \in Slot : t # s => calls'[t] = calls[t]
    BY <1>1 DEF CallsType
  <1>3. CallsType'
    BY <1>1, <1>2 DEF CallsType, IsCall, IsRows
  <1>4. ASSUME NEW t \in Slot PROVE CallInv(calls[t])'
    <2>1. CASE t = s
      BY <2>1
    <2>2. CASE t # s
      BY <1>1, <1>2, <2>2, SlotKept DEF CallsType, CallsInv
    <2> QED
      BY <2>1, <2>2
  <1>5. ASSUME NEW t \in Slot PROVE OfModal(calls[t])' <=> OfModal(calls[t])
    BY <1>2 DEF OfModal
  <1>6. SubmitsOnce'
    BY <1>1, <1>5, SubmitsKept
  <1>7. CallsInv'
    BY <1>4 DEF CallsInv
  <1> QED
    BY <1>3, <1>6, <1>7, Parts

\* What the server answers about a run.
LEMMA Snapshots ==
  ASSUME ServerType, NEW r \in Existing
  PROVE  Snapshot(r) \in Shown /\ Snapshot(r).id = r /\ Faithful(Snapshot(r))
  BY DEF ServerType, Existing, Snapshot, Shown, Faithful

\* A call, by itself and in its place in the invariant.
LEMMA CallFacts ==
  ASSUME ConsoleInv, NEW s \in Slot
  PROVE  /\ ServerType /\ PageType /\ CallsType /\ PageInv /\ faults \in 0..MaxFaults
         /\ IsCall(calls[s]) /\ CallInv(calls[s])
  BY Parts DEF CallsType, CallsInv

\* The same of the server and of the page when a step changes neither.
LEMMA Untouched ==
  ASSUME ConsoleInv, UNCHANGED server, UNCHANGED page
  PROVE  /\ ServerType' /\ Grows /\ PageType' /\ PageInv' /\ Existing' = Existing
         /\ route' = route /\ modal' = modal /\ run' = run
  <1>1. ServerType /\ PageType /\ PageInv
    BY Parts
  <1>2. ServerType' /\ Grows
    BY <1>1, StillGrows
  <1>3. PageType' /\ PageInv'
    BY <1>1, <1>2, PageKept
  <1> QED
    BY <1>2, <1>3 DEF page, server, Existing

\* The answer to fetchRuns.
LEMMA AnswerListInv ==
  ASSUME ConsoleInv, NEW s \in Slot, AnswerList(s) PROVE ConsoleInv'
  <1> DEFINE rows == [r \in Existing |-> Snapshot(r)]
             d == ListCall(rows)
  <1>1. UNCHANGED server /\ UNCHANGED page /\ faults' = faults
    BY DEF AnswerList
  <1>2. IsRows(rows) /\ \A r \in Existing : rows[r] \in Shown /\ rows[r].id = r /\ Faithful(rows[r])
    BY CallFacts, Snapshots DEF IsRows, Existing
  <1>3. calls[s].kind = "list" /\ calls[s] = ListCall(calls[s].answer) /\ route = "runs"
    BY CallFacts, Kinds DEF AnswerList, CallInv
  <1>4. calls' = [calls EXCEPT ![s] = d]
    <2>1. calls' = [calls EXCEPT ![s] = [calls[s] EXCEPT !.answer = rows]]
      BY DEF AnswerList
    <2> HIDE DEF rows
    <2>2. \A a : [ListCall(a) EXCEPT !.answer = rows] = ListCall(rows)
      BY DEF ListCall
    <2>3. [calls[s] EXCEPT !.answer = rows] = d
      BY <1>3, <2>2
    <2> QED
      BY <2>1, <2>3
  <1>5. IsCall(d)
    BY <1>2 DEF IsCall, ListCall
  <1>6. calls'[s] = d /\ d.kind = "list" /\ d.answer = rows
    BY <1>4, CallFacts DEF CallsType, ListCall
  <1> HIDE DEF d
  <1>7. FaithfulRows(calls[s].answer)'
    <2>1. \A r \in DOMAIN rows : rows[r].id = r /\ Faithful(rows[r])
      BY <1>2
    <2> HIDE DEF rows
    <2> QED
      BY <1>1, <1>6, <2>1 DEF FaithfulRows, Faithful, server, Existing
  <1>8. CallInv(calls[s])'
    BY <1>1, <1>3, <1>6, <1>7, Untouched DEF CallInv
  <1>9. OfModal(d) <=> OfModal(calls[s])
    BY <1>3, <1>6 DEF OfModal
  <1> QED
    BY <1>1, <1>4, <1>5, <1>8, <1>9, Untouched, CallFacts, OneCall

\* The two answers to fetchData, in either order, and a fetch that fails.
LEMMA AnswerDetailInv ==
  ASSUME ConsoleInv, NEW s \in Slot, AnswerRun(s) \/ AnswerCheckpoints(s) PROVE ConsoleInv'
  <1> DEFINE c == calls[s]
  <1>1. UNCHANGED server /\ UNCHANGED page /\ faults' = faults /\ c.kind = "detail"
    BY DEF AnswerRun, AnswerCheckpoints
  <1>2. c \in DetailCall
    BY <1>1, CallFacts, Kinds
  <1>3. /\ c.id \in Existing /\ (HistoryJumps \/ route = c.id)
        /\ c.run \notin {None, Failed} => c.run.id = c.id /\ Faithful(c.run)
        /\ c.ckpts \notin {None, Failed} => Keeps(c.ckpts, ckpts[c.id])
        /\ c.stored => run # None /\ c.ckpts \notin {None, Failed}
    BY <1>1, CallFacts DEF CallInv
  <1>4. c.id \in Run
    BY <1>2 DEF DetailCall
  <1>5. CASE AnswerRun(s)
    <2> DEFINE x == Snapshot(c.id)
               d == [c EXCEPT !.run = x]
    <2>1. x \in Shown /\ x.id = c.id /\ Faithful(x)
      BY <1>3, CallFacts, Snapshots
    <2>2. calls' = [calls EXCEPT ![s] = d]
      BY <1>5 DEF AnswerRun
    <2> HIDE DEF x
    <2>3. d \in DetailCall
      BY <1>2, <2>1, DetailUpdate
    <2>4. d.kind = "detail" /\ d.id = c.id /\ d.run = x /\ d.ckpts = c.ckpts /\ d.stored = c.stored
      BY <1>2 DEF DetailCall
    <2> HIDE DEF d
    <2>5. calls'[s] = d
      BY <2>2, CallFacts DEF CallsType
    <2>6. Faithful(calls[s].run)'
      BY <1>1, <2>1, <2>4, <2>5 DEF Faithful, server, Existing
    <2>7. CallInv(calls[s])'
      BY <1>1, <1>3, <2>1, <2>4, <2>5, <2>6, Untouched DEF CallInv, server
    <2>8. IsCall(d) /\ (OfModal(d) <=> OfModal(calls[s]))
      BY <1>1, <2>3, <2>4 DEF IsCall, OfModal
    <2> QED
      BY <1>1, <2>2, <2>7, <2>8, Untouched, CallFacts, OneCall
  <1>6. CASE AnswerCheckpoints(s)
    <2> DEFINE x == ckpts[c.id]
               d == [c EXCEPT !.ckpts = x]
    <2>1. x \in Seq(CheckpointState) /\ Keeps(x, x)
      BY <1>4, CallFacts DEF ServerType, Keeps
    <2>2. calls' = [calls EXCEPT ![s] = d] /\ c.ckpts = None
      BY <1>6 DEF AnswerCheckpoints
    <2>3. d \in DetailCall
      BY <1>2, <2>1, DetailUpdate
    <2>4. d.kind = "detail" /\ d.id = c.id /\ d.run = c.run /\ d.ckpts = x /\ d.stored = c.stored
      BY <1>2 DEF DetailCall
    <2>5. ~d.stored
      BY <1>3, <2>2, <2>4
    <2> HIDE DEF d
    <2>6. calls'[s] = d
      BY <2>2, CallFacts DEF CallsType
    <2>7. c.run \notin {None, Failed} => Faithful(calls[s].run)'
      BY <1>1, <1>3, <2>4, <2>6 DEF Faithful, server, Existing
    <2>8. CallInv(calls[s])'
      BY <1>1, <1>3, <2>1, <2>4, <2>5, <2>6, <2>7, Untouched DEF CallInv, server
    <2>9. IsCall(d) /\ (OfModal(d) <=> OfModal(calls[s]))
      BY <1>1, <2>3, <2>4 DEF IsCall, OfModal
    <2> QED
      BY <1>1, <2>2, <2>8, <2>9, Untouched, CallFacts, OneCall
  <1> QED
    BY <1>5, <1>6

\* fetchRuns or one of the calls of fetchData is refused or lost.
LEMMA FetchFailsInv ==
  ASSUME ConsoleAssumption, ConsoleInv, NEW s \in Slot, FetchFails(s) PROVE ConsoleInv'
  <1> DEFINE c == calls[s]
  <1>1. UNCHANGED server /\ UNCHANGED page /\ faults < MaxFaults /\ faults' = faults + 1
    BY DEF FetchFails
  <1>2. faults' \in 0..MaxFaults
    BY <1>1, CallFacts DEF ConsoleAssumption
  <1>3. SUFFICES ASSUME NEW d, calls' = [calls EXCEPT ![s] = d], IsCall(d), calls'[s] = d => CallInv(calls[s])',
                        OfModal(d) <=> OfModal(c)
                 PROVE  ConsoleInv'
    <2>1. CASE c.kind = "list" /\ calls' = [calls EXCEPT ![s].answer = Failed]
      <3>1. c = ListCall(c.answer) /\ route = "runs"
        BY <2>1, CallFacts, Kinds DEF CallInv
      <3>2. \A a : [ListCall(a) EXCEPT !.answer = Failed] = ListCall(Failed)
        BY DEF ListCall
      <3>3. calls' = [calls EXCEPT ![s] = ListCall(Failed)]
        BY <2>1, <3>1, <3>2
      <3>4. IsCall(ListCall(Failed)) /\ (OfModal(ListCall(Failed)) <=> OfModal(c))
        BY <2>1 DEF IsCall, ListCall, OfModal
      <3>5. calls'[s] = ListCall(Failed) => CallInv(calls[s])'
        BY <1>1, <3>1, Untouched DEF CallInv, ListCall
      <3> QED
        BY <1>3, <3>3, <3>4, <3>5
    <2>2. CASE c.kind = "detail" /\ c.run = None /\ calls' = [calls EXCEPT ![s].run = Failed]
      <3> DEFINE d == [c EXCEPT !.run = Failed]
      <3>1. c \in DetailCall /\ calls' = [calls EXCEPT ![s] = d]
        BY <2>2, CallFacts, Kinds
      <3>2. d \in DetailCall
        BY <3>1, DetailUpdate
      <3>3. d.kind = "detail" /\ d.id = c.id /\ d.run = Failed /\ d.ckpts = c.ckpts /\ d.stored = c.stored
        BY <3>1 DEF DetailCall
      <3> HIDE DEF d
      <3>4. calls'[s] = d => CallInv(calls[s])'
        BY <1>1, <2>2, <3>3, CallFacts, Untouched DEF CallInv, server
      <3>5. IsCall(d) /\ (OfModal(d) <=> OfModal(c))
        BY <2>2, <3>2, <3>3 DEF IsCall, OfModal
      <3> QED
        BY <1>3, <3>1, <3>4, <3>5
    <2>3. CASE c.kind = "detail" /\ c.ckpts = None /\ calls' = [calls EXCEPT ![s].ckpts = Failed]
      <3> DEFINE d == [c EXCEPT !.ckpts = Failed]
      <3>1. c \in DetailCall /\ calls' = [calls EXCEPT ![s] = d]
        BY <2>3, CallFacts, Kinds
      <3>2. d \in DetailCall
        BY <3>1, DetailUpdate
      <3>3. d.kind = "detail" /\ d.id = c.id /\ d.run = c.run /\ d.ckpts = Failed /\ d.stored = c.stored
        BY <3>1 DEF DetailCall
      <3> HIDE DEF d
      <3>4. calls'[s] = d /\ c.run \notin {None, Failed} => Faithful(calls[s].run)'
        BY <1>1, <2>3, <3>3, CallFacts DEF CallInv, Faithful, server, Existing
      <3>5. calls'[s] = d => CallInv(calls[s])'
        BY <1>1, <2>3, <3>3, <3>4, CallFacts, Untouched DEF CallInv, server
      <3>6. IsCall(d) /\ (OfModal(d) <=> OfModal(c))
        BY <2>3, <3>2, <3>3 DEF IsCall, OfModal
      <3> QED
        BY <1>3, <3>1, <3>5, <3>6
    <2> QED
      BY <2>1, <2>2, <2>3 DEF FetchFails
  <1>4. calls'[s] = d
    BY <1>3, CallFacts DEF CallsType
  <1> QED
    BY <1>1, <1>2, <1>3, <1>4, Untouched, OneCall

\* A poll: a fetch of the page on the route.
LEMMA PollInv ==
  ASSUME ConsoleAssumption, ConsoleInv, NEW s \in Slot, Poll(s) PROVE ConsoleInv'
  <1> DEFINE d == IF route = "runs" THEN ListFetch ELSE DetailFetch(route)
  <1>1. /\ UNCHANGED server /\ UNCHANGED page /\ faults' = faults /\ calls[s] = Idle
        /\ route # "elsewhere" /\ calls' = [calls EXCEPT ![s] = d]
    BY DEF Poll, Free
  <1>2. route = "runs" \/ route \in Existing
    BY <1>1, CallFacts DEF PageType, PageInv
  <1>3. IsCall(d)
    BY <1>2, NewCalls DEF Existing
  <1>4. calls'[s] = d
    BY <1>1, CallFacts DEF CallsType
  <1>5. CallInv(calls[s])'
    BY <1>1, <1>2, <1>4, Untouched DEF CallInv, ListFetch, ListCall, DetailFetch
  <1>6. OfModal(d) <=> OfModal(calls[s])
    BY <1>1 DEF OfModal, Idle, ListFetch, ListCall, DetailFetch
  <1> QED
    BY <1>1, <1>3, <1>5, <1>6, Untouched, CallFacts, OneCall

\* A click on a button of a page: a post for the run that is displayed.
LEMMA ClickInv ==
  ASSUME ConsoleInv, NEW s \in Slot, ClickRow(s) \/ ClickDetail(s) PROVE ConsoleInv'
  <1>1. UNCHANGED server /\ UNCHANGED page /\ faults' = faults /\ calls[s] = Idle
    BY DEF ClickRow, ClickDetail, Free
  <1>2. PICK r, a, x : /\ r \in Existing /\ x \in Shown /\ Faithful(x) /\ (HistoryJumps \/ r = x.id)
                       /\ a \in DetailButtons(x.state) /\ route \in {"runs", r}
                       /\ calls' = [calls EXCEPT ![s] = Post(r, a, x)]
    <2>1. CASE ClickRow(s)
      <3>1. PICK r \in DOMAIN list : \E a \in RunsButtons(list[r].state) :
                                       calls' = [calls EXCEPT ![s] = Post(r, a, list[r])]
        BY <2>1 DEF ClickRow
      <3>2. list # None /\ route = "runs" /\ list[r] \in Shown
        BY <2>1, CallFacts DEF ClickRow, PageType, IsRows
      <3>3. list[r].id = r /\ Faithful(list[r])
        BY <3>2, CallFacts DEF PageInv, FaithfulRows
      <3>4. r \in Existing
        BY <3>3 DEF Faithful
      <3> QED
        BY <3>1, <3>2, <3>3, <3>4 DEF DetailButtons
    <2>2. CASE ClickDetail(s)
      <3>1. /\ route \in Run /\ run # None
            /\ \E a \in DetailButtons(run.state) : calls' = [calls EXCEPT ![s] = Post(route, a, run)]
        BY <2>2 DEF ClickDetail
      <3>2. run \in Shown /\ Faithful(run) /\ (HistoryJumps \/ route = run.id) /\ route \in Existing
        BY <3>1, CallFacts DEF PageType, PageInv
      <3> QED
        BY <3>1, <3>2
    <2> QED
      BY <2>1, <2>2
  <1>3. a \in {"start", "cancel", "checkpoint", "resume"}
    BY <1>2 DEF DetailButtons, RunsButtons
  <1> DEFINE d == Post(r, a, x)
  <1>4. IsCall(d) /\ r \in Run
    BY <1>2, <1>3, NewCalls DEF Existing
  <1>5. d.kind = "post" /\ d.owner = "page" /\ d.id = r /\ d.action = a /\ d.shown = x
    BY DEF Post
  <1>6. calls'[s] = d
    BY <1>2, CallFacts DEF CallsType
  <1>7. OfModal(d) <=> OfModal(calls[s])
    BY <1>1, <1>5 DEF OfModal, Idle
  <1> HIDE DEF d
  <1>8. Faithful(calls[s].shown)'
    BY <1>1, <1>2, <1>5, <1>6 DEF Faithful, server, Existing
  <1>9. CallInv(calls[s])'
    BY <1>1, <1>2, <1>5, <1>6, <1>8, Untouched DEF CallInv
  <1>10. calls' = [calls EXCEPT ![s] = d]
    BY <1>2 DEF d
  <1> QED
    BY <1>1, <1>4, <1>7, <1>9, <1>10, Untouched, CallFacts, OneCall

\* A post or a submitted form gets its result, whatever that did at the server.
LEMMA ResultInv ==
  ASSUME ConsoleInv, ServerType', Grows, UNCHANGED page, faults' \in 0..MaxFaults,
         NEW s \in Slot, calls[s].kind \in {"post", "create"},
         NEW x \in Result, calls' = [calls EXCEPT ![s].result = x]
  PROVE  ConsoleInv'
  <1> DEFINE c == calls[s]
             d == [c EXCEPT !.result = x]
  <1>1. PageType' /\ PageInv' /\ route' = route /\ modal' = modal /\ run' = run
    BY CallFacts, PageKept DEF page
  <1>2. calls' = [calls EXCEPT ![s] = d] /\ calls'[s] = d
    BY CallFacts DEF CallsType
  <1>3. CASE c.kind = "post"
    <2>1. c \in PostCall
      BY <1>3, CallFacts, Kinds
    <2>2. d \in PostCall /\ d.kind = "post" /\ d.id = c.id /\ d.owner = c.owner /\ d.action = c.action /\ d.shown = c.shown
      BY <2>1, PostUpdate DEF PostCall
    <2> HIDE DEF d
    <2>3. /\ c.id \in Existing /\ (HistoryJumps \/ c.id = c.shown.id)
          /\ Faithful(c.shown) /\ c.action \in DetailButtons(c.shown.state)
          /\ HistoryJumps \/ c.owner = "gone" \/ route \in {"runs", c.id}
      BY <1>3, CallFacts DEF CallInv
    <2>4. c.shown \in Shown
      BY <2>1 DEF PostCall
    <2>5. Faithful(calls[s].shown)' /\ c.id \in Existing'
      BY <1>2, <2>2, <2>3, <2>4, CallFacts, FaithfulKept DEF Faithful
    <2>6. CallInv(calls[s])'
      BY <1>1, <1>2, <2>2, <2>3, <2>5 DEF CallInv
    <2>7. IsCall(d) /\ (OfModal(d) <=> OfModal(c))
      BY <1>3, <2>2 DEF IsCall, OfModal
    <2> QED
      BY <1>1, <1>2, <2>6, <2>7, OneCall
  <1>4. CASE c.kind = "create"
    <2>1. c \in CreateCall
      BY <1>4, CallFacts, Kinds
    <2>2. d \in CreateCall /\ d.kind = "create" /\ d.owner = c.owner
      BY <2>1, CreateUpdate DEF CreateCall
    <2> HIDE DEF d
    <2>3. CallInv(calls[s])'
      BY <1>1, <1>2, <1>4, <2>2, CallFacts DEF CallInv
    <2>4. IsCall(d) /\ (OfModal(d) <=> OfModal(c))
      BY <1>4, <2>2 DEF IsCall, OfModal
    <2> QED
      BY <1>1, <1>2, <2>3, <2>4, OneCall
  <1> QED
    BY <1>3, <1>4

\* The server handles a post.
LEMMA HandlePostInv ==
  ASSUME ConsoleInv, NEW s \in Slot, HandlePost(s) PROVE ConsoleInv'
  <1> DEFINE r == calls[s].id  a == calls[s].action
  <1>1. calls[s].kind = "post" /\ UNCHANGED page /\ faults' = faults
    BY DEF HandlePost
  <1>2. r \in Run
    BY <1>1, CallFacts, Kinds DEF PostCall
  <1>3. Target(a, runState[r]) \in RunState
    BY DEF Target, RunState
  <1>4. ServerType' /\ Grows
    <2>1. CASE UNCHANGED server
      BY <2>1, CallFacts, StillGrows
    <2>2. CASE Moved(r, Target(a, runState[r]))
      BY <1>2, <1>3, <2>2, CallFacts, MovedGrows
    <2> QED
      BY <2>1, <2>2 DEF HandlePost
  <1>5. \E x \in Result : calls' = [calls EXCEPT ![s].result = x]
    BY DEF HandlePost, Result
  <1> QED
    BY <1>1, <1>4, <1>5, CallFacts, ResultInv

\* It creates a run, or refuses to.
LEMMA CreateRunInv ==
  ASSUME ConsoleInv, NEW s \in Slot, CreateRun(s) PROVE ConsoleInv'
  <1>1. calls[s].kind = "create" /\ UNCHANGED page /\ faults' = faults
    BY DEF CreateRun
  <1>2. ServerType' /\ Grows
    <2>1. CASE UNCHANGED server
      BY <2>1, CallFacts, StillGrows
    <2>2. ASSUME NEW r \in Run, Moved(r, "CREATED") PROVE ServerType' /\ Grows
      BY <2>2, CallFacts, MovedGrows, "CREATED" \in RunState DEF RunState
    <2> QED
      BY <2>1, <2>2 DEF CreateRun
  <1>3. \E x \in Result : calls' = [calls EXCEPT ![s].result = x]
    BY DEF CreateRun, Result
  <1> QED
    BY <1>1, <1>2, <1>3, CallFacts, ResultInv

\* A post is lost, or its answer.
LEMMA PostFailsInv ==
  ASSUME ConsoleAssumption, ConsoleInv, NEW s \in Slot, PostFails(s) PROVE ConsoleInv'
  <1>1. /\ UNCHANGED server /\ UNCHANGED page /\ faults < MaxFaults /\ faults' = faults + 1
        /\ calls[s].kind \in {"post", "create"} /\ calls' = [calls EXCEPT ![s].result = Failed]
    BY DEF PostFails
  <1>2. faults' \in 0..MaxFaults
    BY <1>1, CallFacts DEF ConsoleAssumption
  <1>3. Failed \in Result
    BY DEF Result
  <1> QED
    BY <1>1, <1>2, <1>3, Untouched, ResultInv

\* After the answer to a post: the page that sent it, if it is there, fetches again.
LEMMA PostReturnsInv ==
  ASSUME ConsoleInv, NEW s \in Slot, PostReturns(s) PROVE ConsoleInv'
  <1> DEFINE c == calls[s]
             d == IF c.result # "ok" \/ c.owner = "gone" THEN Idle
                  ELSE IF route = "runs" THEN ListFetch ELSE DetailFetch(c.id)
  <1>1. /\ UNCHANGED server /\ UNCHANGED page /\ faults' = faults /\ c.kind = "post"
        /\ calls' = [calls EXCEPT ![s] = d]
    BY DEF PostReturns
  <1>2. /\ c.id \in Existing
        /\ HistoryJumps \/ c.owner = "gone" \/ route \in {"runs", c.id}
    BY <1>1, CallFacts DEF CallInv
  <1>3. IsCall(d)
    BY <1>2, NewCalls DEF Existing
  <1>4. calls'[s] = d
    BY <1>1, CallFacts DEF CallsType
  <1>5. CallInv(calls[s])'
    BY <1>1, <1>2, <1>4, Untouched DEF CallInv, Idle, ListFetch, ListCall, DetailFetch
  <1>6. OfModal(d) <=> OfModal(c)
    BY <1>1 DEF OfModal, Idle, ListFetch, ListCall, DetailFetch
  <1> QED
    BY <1>1, <1>3, <1>5, <1>6, Untouched, CallFacts, OneCall

\* fetchRuns stores its answer or shows its failure.
LEMMA StoreRunsInv ==
  ASSUME ConsoleAssumption, ConsoleInv, NEW s \in Slot, StoreRuns(s) PROVE ConsoleInv'
  <1> DEFINE c == calls[s]
  <1>1. /\ UNCHANGED server /\ UNCHANGED <<route, run, checkpoints, modal, faults>>
        /\ c.kind = "list" /\ c.answer # None /\ error' = (c.answer = Failed) /\ loading' = FALSE
        /\ list' = IF c.answer = Failed THEN list ELSE c.answer
        /\ calls' = [calls EXCEPT ![s] = Idle]
    BY DEF StoreRuns
  <1>2. ServerType' /\ Grows
    BY <1>1, CallFacts, StillGrows
  <1>3. route = "runs" /\ route \notin Run
    BY <1>1, CallFacts DEF CallInv, ConsoleAssumption
  <1>4. c.answer # Failed => IsRows(c.answer) /\ FaithfulRows(c.answer)
    BY <1>1, CallFacts, Kinds DEF CallInv
  <1>5. PageType'
    BY <1>1, <1>4, CallFacts DEF PageType, IsRows
  <1>6. list' # None => FaithfulRows(list)'
    <2>1. list' # None => FaithfulRows(list')
      BY <1>1, <1>4, CallFacts DEF PageInv
    <2> QED
      BY <1>1, <2>1 DEF FaithfulRows, Faithful, server, Existing
  <1>7. run' # None => Faithful(run)'
    BY <1>1, CallFacts DEF PageInv, Faithful, server, Existing
  <1>8. PageInv'
    BY <1>1, <1>3, <1>6, <1>7 DEF PageInv
  <1>9. calls'[s] = Idle
    BY <1>1, CallFacts DEF CallsType
  <1>10. CallInv(calls[s])'
    BY <1>9 DEF CallInv, Idle
  <1>11. IsCall(Idle) /\ (OfModal(Idle) <=> OfModal(c))
    BY <1>1, NewCalls DEF OfModal, Idle
  <1> QED
    BY <1>1, <1>2, <1>5, <1>8, <1>10, <1>11, CallFacts, OneCall

\* fetchData stores the run.
LEMMA StoreRunInv ==
  ASSUME ConsoleInv, NEW s \in Slot, StoreRun(s) PROVE ConsoleInv'
  <1> DEFINE c == calls[s]
             d == [c EXCEPT !.stored = TRUE]
  <1>1. /\ UNCHANGED server /\ UNCHANGED <<route, list, checkpoints, loading, error, modal, faults>>
        /\ c.kind = "detail" /\ c.run \notin {None, Failed} /\ c.ckpts \notin {None, Failed}
        /\ run' = c.run /\ calls' = [calls EXCEPT ![s] = d]
    BY DEF StoreRun, RunStored
  <1>2. ServerType' /\ Grows /\ Existing' = Existing
    BY <1>1, CallFacts, StillGrows DEF Existing, server
  <1>3. c \in DetailCall
    BY <1>1, CallFacts, Kinds
  <1>4. /\ c.id \in Existing /\ (HistoryJumps \/ route = c.id)
        /\ c.run.id = c.id /\ Faithful(c.run) /\ Keeps(c.ckpts, ckpts[c.id])
    BY <1>1, CallFacts DEF CallInv
  <1>5. d \in DetailCall /\ d.kind = "detail" /\ d.id = c.id /\ d.run = c.run /\ d.ckpts = c.ckpts
    BY <1>3, DetailUpdate DEF DetailCall
  <1> HIDE DEF d
  <1>6. PageType'
    BY <1>1, <1>3, CallFacts DEF PageType, DetailCall, IsRows
  <1>7. list' # None => FaithfulRows(list)'
    BY <1>1, CallFacts DEF PageInv, FaithfulRows, Faithful, server, Existing
  <1>8. Faithful(run)'
    BY <1>1, <1>4 DEF Faithful, server, Existing
  <1>9. PageInv'
    BY <1>1, <1>2, <1>4, <1>7, <1>8, CallFacts DEF PageInv, server
  <1>10. calls'[s] = d
    BY <1>1, CallFacts DEF CallsType
  <1>11. Faithful(calls[s].run)'
    BY <1>1, <1>4, <1>5, <1>10 DEF Faithful, server, Existing
  <1>12. CallInv(calls[s])'
    BY <1>1, <1>2, <1>4, <1>5, <1>10, <1>11 DEF CallInv, server
  <1>13. IsCall(d) /\ (OfModal(d) <=> OfModal(c))
    BY <1>1, <1>5 DEF IsCall, OfModal
  <1>14. run' # None
    BY <1>1
  <1> QED
    BY <1>1, <1>2, <1>6, <1>9, <1>12, <1>13, <1>14, CallFacts, OneCall

\* The end of fetchData: it stores the checkpoints, or shows its failure.
LEMMA DetailEndsInv ==
  ASSUME ConsoleInv, NEW s \in Slot, StoreCheckpoints(s) \/ DetailFails(s) PROVE ConsoleInv'
  <1> DEFINE c == calls[s]
  <1>1. /\ UNCHANGED server /\ UNCHANGED <<route, list, run, modal, faults>>
        /\ c.kind = "detail" /\ loading' = FALSE /\ error' \in BOOLEAN
        /\ calls' = [calls EXCEPT ![s] = Idle]
        /\ \/ checkpoints' = checkpoints /\ error' = TRUE
           \/ checkpoints' = c.ckpts /\ c.stored
    BY DEF StoreCheckpoints, DetailFails
  <1>2. ServerType' /\ Grows /\ Existing' = Existing
    BY <1>1, CallFacts, StillGrows DEF Existing, server
  <1>3. c \in DetailCall
    BY <1>1, CallFacts, Kinds
  <1>4. c.stored => /\ run # None /\ c.ckpts \in Seq(CheckpointState)
                    /\ HistoryJumps \/ route = c.id
                    /\ Keeps(c.ckpts, ckpts[c.id])
    BY <1>1, <1>3, CallFacts DEF CallInv, DetailCall
  <1>5. PageType'
    BY <1>1, <1>4, CallFacts DEF PageType, IsRows
  <1>6. list' # None => FaithfulRows(list)'
    BY <1>1, CallFacts DEF PageInv, FaithfulRows, Faithful, server, Existing
  <1>7. run' # None => Faithful(run)'
    BY <1>1, CallFacts DEF PageInv, Faithful, server, Existing
  <1>8. HistoryJumps \/ (route \in Run => Keeps(checkpoints, ckpts[route])')
    BY <1>1, <1>4, CallFacts DEF PageInv, server, Keeps
  <1>9. PageInv'
    BY <1>1, <1>2, <1>4, <1>6, <1>7, <1>8, CallFacts DEF PageInv
  <1>10. calls'[s] = Idle
    BY <1>1, CallFacts DEF CallsType
  <1>11. CallInv(calls[s])'
    BY <1>10 DEF CallInv, Idle
  <1>12. IsCall(Idle) /\ (OfModal(Idle) <=> OfModal(c))
    BY <1>1, NewCalls DEF OfModal, Idle
  <1> QED
    BY <1>1, <1>2, <1>5, <1>9, <1>11, <1>12, CallFacts, OneCall
-----------------------------------------------------------------------------
\* What is left of a call whose page is left.
LEMMA GoneInv ==
  ASSUME ConsoleInv, UNCHANGED server, NEW t \in Slot, calls'[t] = Unmounted[t]
  PROVE  IsCall(calls'[t]) /\ CallInv(calls[t])' /\ ~OfModal(calls'[t])
  <1> DEFINE c == calls[t]
             d == [c EXCEPT !.owner = "gone"]
  <1>1. /\ c.kind \in {"list", "detail"} \/ c = Idle => calls'[t] = Idle
        /\ c.kind \in {"post", "create"} /\ c # Idle => calls'[t] = d
    BY DEF Unmounted
  <1>2. CASE calls'[t] = Idle
    BY <1>2, NewCalls DEF CallInv, OfModal, Idle
  <1>3. CASE c.kind = "post"
    <2>1. c \in PostCall /\ c # Idle
      BY <1>3, CallFacts, Kinds DEF Idle
    <2>2. d \in PostCall /\ d.kind = "post" /\ d.id = c.id /\ d.owner = "gone" /\ d.action = c.action /\ d.shown = c.shown
      BY <2>1, PostUpdate DEF PostCall
    <2>3. calls'[t] = d
      BY <1>1, <1>3, <2>1
    <2> HIDE DEF d
    <2>4. /\ c.id \in Existing /\ (HistoryJumps \/ c.id = c.shown.id)
          /\ Faithful(c.shown) /\ c.action \in DetailButtons(c.shown.state)
      BY <1>3, CallFacts DEF CallInv
    <2>5. Faithful(calls[t].shown)' /\ c.id \in Existing'
      BY <2>2, <2>3, <2>4 DEF Faithful, server, Existing
    <2> QED
      BY <2>2, <2>3, <2>4, <2>5 DEF CallInv, IsCall, OfModal
  <1>4. CASE c.kind = "create"
    <2>1. c \in CreateCall /\ c # Idle
      BY <1>4, CallFacts, Kinds DEF Idle
    <2>2. d \in CreateCall /\ d.kind = "create" /\ d.owner = "gone"
      BY <2>1, CreateUpdate DEF CreateCall
    <2>3. calls'[t] = d
      BY <1>1, <1>4, <2>1
    <2> HIDE DEF d
    <2> QED
      BY <2>2, <2>3 DEF CallInv, IsCall, OfModal
  <1> QED
    BY <1>1, <1>2, <1>3, <1>4, CallFacts, Kinds

\* A page that is mounted: nothing is stored yet, and of what the page before it sent
\* only posts are left, which are nobody's.
LEMMA FreshInv ==
  ASSUME ConsoleAssumption, ConsoleInv, UNCHANGED server, faults' = faults, Fresh,
         route' \in Existing \cup {"runs", "elsewhere"}, calls' = [t \in Slot |-> calls'[t]],
         \A t \in Slot : \/ calls'[t] = Unmounted[t]
                         \/ IsCall(calls'[t]) /\ CallInv(calls[t])' /\ ~OfModal(calls'[t])
  PROVE  ConsoleInv'
  <1>1. ServerType /\ faults \in 0..MaxFaults
    BY Parts
  <1>2. ServerType' /\ Existing' = Existing
    BY <1>1, StillGrows DEF Existing, server
  <1>f. /\ list' = None /\ run' = None /\ checkpoints' = <<>> /\ modal' = "closed"
        /\ loading' = TRUE /\ loading' /\ error' = FALSE /\ route' \in Run \cup {"runs", "elsewhere"}
        /\ route' \in Run => route' \in Existing
    BY DEF Fresh, Existing, ConsoleAssumption
  <1>3. PageType'
    <2>1. checkpoints' \in Seq(CheckpointState)
      BY <1>f
    <2>2. loading' \in BOOLEAN /\ error' \in BOOLEAN
      BY <1>f
    <2> QED
      BY <1>f, <2>1, <2>2 DEF PageType
  <1>4. PageInv'
    <2>1. Keeps(checkpoints, ckpts[route])'
      BY DEF Fresh, Keeps
    <2> QED
      BY <1>2, <1>f, <2>1 DEF PageInv
  <1>5. \A t \in Slot : IsCall(calls'[t]) /\ CallInv(calls[t])' /\ ~OfModal(calls'[t])
    BY GoneInv
  <1>6. CallsType' /\ CallsInv'
    BY <1>5 DEF CallsType, CallsInv, IsCall, IsRows
  <1>7. SubmitsOnce'
    BY <1>5 DEF SubmitsOnce, Fresh, OfModal
  <1> QED
    BY <1>1, <1>2, <1>3, <1>4, <1>6, <1>7, Parts

\* The visitor moves between the pages.
LEMMA OpenPageInv ==
  ASSUME ConsoleAssumption, ConsoleInv, OpenRuns \/ Leave \/ \E r \in Run : OpenRun(r) PROVE ConsoleInv'
  <1>1. UNCHANGED server /\ faults' = faults /\ Fresh /\ CallsType
    BY Parts DEF OpenRuns, Leave, OpenRun, Mounts
  <1>2. CASE Leave
    BY <1>1, <1>2, FreshInv DEF Leave, Unmounted
  <1>3. CASE OpenRuns
    <2>1. PICK s \in Slot : calls' = [Unmounted EXCEPT ![s] = ListFetch] /\ route' = "runs"
      BY <1>3 DEF OpenRuns
    <2>2. calls'[s] = ListFetch /\ \A t \in Slot : t # s => calls'[t] = Unmounted[t]
      BY <2>1 DEF Unmounted
    <2>3. IsCall(calls'[s]) /\ CallInv(calls[s])' /\ ~OfModal(calls'[s])
      BY <2>1, <2>2, NewCalls DEF CallInv, OfModal, ListFetch, ListCall
    <2>4. calls' = [t \in Slot |-> calls'[t]]
      BY <2>1 DEF Unmounted
    <2> QED
      BY <1>1, <2>1, <2>2, <2>3, <2>4, FreshInv
  <1>4. ASSUME NEW r \in Run, OpenRun(r) PROVE ConsoleInv'
    <2>1. PICK s \in Slot : calls' = [Unmounted EXCEPT ![s] = DetailFetch(r)] /\ route' = r /\ r \in Existing
      BY <1>4 DEF OpenRun, Mounts
    <2>2. calls'[s] = DetailFetch(r) /\ \A t \in Slot : t # s => calls'[t] = Unmounted[t]
      BY <2>1 DEF Unmounted
    <2>3. IsCall(calls'[s]) /\ CallInv(calls[s])' /\ ~OfModal(calls'[s])
      BY <1>1, <2>1, <2>2, NewCalls DEF CallInv, OfModal, DetailFetch, server, Existing
    <2>4. calls' = [t \in Slot |-> calls'[t]]
      BY <2>1 DEF Unmounted
    <2> QED
      BY <1>1, <2>1, <2>2, <2>3, <2>4, FreshInv
  <1> QED
    BY <1>2, <1>3, <1>4

\* The history jumps from one run's page to another's: what is displayed and what is in
\* flight stays, and only what does not depend on the route is still known of it.
LEMMA JumpInv ==
  ASSUME ConsoleAssumption, ConsoleInv, NEW r \in Run, JumpToRun(r) PROVE ConsoleInv'
  <1>1. /\ HistoryJumps /\ route \in Run /\ route' = r /\ r \in Existing
        /\ UNCHANGED server /\ UNCHANGED <<list, run, checkpoints, loading, error, modal, faults>>
    BY DEF JumpToRun, Mounts
  <1>2. PICK s \in Slot : calls[s] = Idle /\ calls' = [calls EXCEPT ![s] = DetailFetch(r)]
    BY DEF JumpToRun, Mounts
  <1>3. ServerType' /\ Grows /\ Existing' = Existing
    BY <1>1, Parts, StillGrows DEF Existing, server
  <1>4. PageType'
    BY <1>1, Parts DEF PageType, IsRows
  <1>5. list' # None => FaithfulRows(list)'
    BY <1>1, Parts DEF PageInv, FaithfulRows, Faithful, server, Existing
  <1>6. run' # None => Faithful(run)'
    BY <1>1, Parts DEF PageInv, Faithful, server, Existing
  <1>7. modal' = "closed" /\ "runs" \notin Run
    BY <1>1, Parts DEF PageInv, ConsoleAssumption
  <1>8. PageInv'
    BY <1>1, <1>3, <1>5, <1>6, <1>7, Parts DEF PageInv
  <1>9. calls'[s] = DetailFetch(r) /\ \A t \in Slot : t # s => calls'[t] = calls[t]
    BY <1>2, Parts DEF CallsType
  <1>10. CallsType'
    BY <1>2, <1>9, Parts, NewCalls DEF CallsType, IsCall, IsRows
  <1>11. ASSUME NEW t \in Slot PROVE CallInv(calls[t])'
    <2>1. CASE t = s
      BY <1>1, <1>3, <1>9, <2>1 DEF CallInv, DetailFetch
    <2>2. CASE t # s
      <3> DEFINE c == calls[t]
      <3>1. calls'[t] = c
        BY <1>9, <2>2
      <3>2. CallInv(c) /\ c.kind # "list" /\ (c.kind = "create" => c.owner = "gone")
        BY <1>1, <1>7, CallFacts DEF CallInv
      <3> HIDE DEF c
      <3>3. CASE c.kind = "detail"
        <4>1. c.run \notin {None, Failed} => Faithful(calls[t].run)'
          BY <1>1, <3>1, <3>2, <3>3 DEF CallInv, Faithful, server, Existing
        <4> QED
          BY <1>1, <1>3, <3>1, <3>2, <3>3, <4>1 DEF CallInv, server
      <3>4. CASE c.kind = "post"
        <4>1. Faithful(calls[t].shown)'
          BY <1>1, <3>1, <3>2, <3>4 DEF CallInv, Faithful, server, Existing
        <4> QED
          BY <1>1, <1>3, <3>1, <3>2, <3>4, <4>1 DEF CallInv
      <3>5. CASE c.kind \notin {"detail", "post"}
        BY <3>1, <3>2, <3>5 DEF CallInv
      <3> QED
        BY <3>3, <3>4, <3>5
    <2> QED
      BY <2>1, <2>2
  <1>12. SubmitsOnce'
    <2>1. \A t \in Slot : OfModal(calls[t])' <=> OfModal(calls[t])
      BY <1>2, <1>9 DEF OfModal, Idle, DetailFetch
    <2> QED
      BY <1>1, <2>1, Parts, SubmitsKept
  <1> QED
    BY <1>1, <1>3, <1>4, <1>8, <1>10, <1>11, <1>12, Parts DEF CallsInv

\* A run changes without this console.
LEMMA OthersMoveInv ==
  ASSUME ConsoleInv, NEW r \in Run, OthersMove(r) PROVE ConsoleInv'
  <1>1. UNCHANGED page /\ calls' = calls /\ faults' = faults
    BY DEF OthersMove
  <1>2. ServerType' /\ Grows
    <2>1. PICK s \in RunState : Moved(r, s)
      BY DEF OthersMove
    <2> QED
      BY <2>1, Parts, MovedGrows
  <1>3. PageType' /\ PageInv' /\ route' = route /\ run' = run /\ modal' = modal
    BY <1>1, <1>2, Parts, PageKept DEF page
  <1>4. ASSUME NEW t \in Slot PROVE CallInv(calls[t])'
    BY <1>1, <1>2, <1>3, CallFacts, SlotKept
  <1>5. CallsType' /\ CallsInv'
    BY <1>1, <1>4, Parts DEF CallsType, CallsInv, IsCall, IsRows
  <1>6. SubmitsOnce'
    BY <1>1, <1>3, Parts, SubmitsKept DEF OfModal
  <1> QED
    BY <1>1, <1>2, <1>3, <1>5, <1>6, Parts
-----------------------------------------------------------------------------
\* A step of the modal: the page behind it stays as it is.
LEMMA ModalInv ==
  ASSUME ConsoleInv, UNCHANGED server, UNCHANGED <<route, list, run, checkpoints, loading, error, faults>>,
         modal' \in {"closed", "open", "submitting", "refused"}, modal' # "closed" => route = "runs",
         calls' = [t \in Slot |-> calls'[t]],
         \A t \in Slot : calls'[t] = calls[t] \/ (IsCall(calls'[t]) /\ CallInv(calls[t])'),
         SubmitsOnce'
  PROVE  ConsoleInv'
  <1>1. ServerType' /\ Grows /\ Existing' = Existing
    BY Parts, StillGrows DEF Existing, server
  <1>2. PageType'
    BY Parts DEF PageType, IsRows
  <1>3. list' # None => FaithfulRows(list)'
    BY Parts DEF PageInv, FaithfulRows, Faithful, server, Existing
  <1>4. run' # None => Faithful(run)'
    BY Parts DEF PageInv, Faithful, server, Existing
  <1>5. PageInv'
    BY <1>1, <1>3, <1>4, Parts DEF PageInv, server
  <1>6. ASSUME NEW t \in Slot PROVE CallInv(calls[t])' /\ IsCall(calls'[t])
    <2>1. CASE calls'[t] = calls[t]
      BY <1>1, <2>1, CallFacts, SlotKept
    <2> QED
      BY <2>1
  <1>7. CallsType' /\ CallsInv'
    BY <1>6 DEF CallsType, CallsInv, IsCall, IsRows
  <1> QED
    BY <1>1, <1>2, <1>5, <1>7, Parts

\* What a modal that is gone sent belongs to its page.
LEMMA ModalGoneFacts ==
  ASSUME ConsoleInv, NEW t \in Slot
  PROVE  LET d == ModalGone(calls)[t] IN
         /\ d = calls[t] \/ (d \in CreateCall /\ d.owner = "page" /\ d.kind = "create" /\ route = "runs")
         /\ ~OfModal(d)
  <1> DEFINE c == calls[t]
             d == [c EXCEPT !.owner = "page"]
  <1>1. CASE OfModal(c)
    <2>1. c \in CreateCall /\ route = "runs"
      BY <1>1, CallFacts, Kinds DEF OfModal, CallInv
    <2>2. d \in CreateCall /\ d.owner = "page" /\ d.kind = "create"
      BY <2>1, CreateUpdate DEF CreateCall
    <2>3. ModalGone(calls)[t] = d
      BY <1>1 DEF ModalGone, OfModal
    <2> HIDE DEF d
    <2> QED
      BY <2>1, <2>2, <2>3 DEF OfModal
  <1>2. CASE ~OfModal(c)
    BY <1>2 DEF ModalGone, OfModal
  <1> QED
    BY <1>1, <1>2

\* The modal is opened and closed.
LEMMA OpenCloseInv ==
  ASSUME ConsoleInv, OpenModal \/ CloseModal PROVE ConsoleInv'
  <1>1. CASE OpenModal
    <2>1. /\ UNCHANGED server /\ UNCHANGED <<route, list, run, checkpoints, loading, error, calls, faults>>
          /\ route = "runs" /\ modal = "closed" /\ modal' = "open"
      BY <1>1 DEF OpenModal
    <2>2. SubmitsOnce'
      BY <2>1, Parts DEF SubmitsOnce, OfModal
    <2>3. calls' = [t \in Slot |-> calls'[t]]
      BY <2>1, Parts DEF CallsType
    <2> QED
      BY <2>1, <2>2, <2>3, ModalInv
  <1>2. CASE CloseModal
    <2>1. /\ UNCHANGED server /\ UNCHANGED <<route, list, run, checkpoints, loading, error, faults>>
          /\ route = "runs" /\ modal' = "closed" /\ calls' = ModalGone(calls)
      BY <1>2 DEF CloseModal
    <2>2. ASSUME NEW t \in Slot
          PROVE  /\ calls'[t] = calls[t] \/ (IsCall(calls'[t]) /\ CallInv(calls[t])')
                 /\ ~OfModal(calls'[t])
      BY <2>1, ModalGoneFacts DEF IsCall, CallInv
    <2>3. SubmitsOnce'
      BY <2>1, <2>2 DEF SubmitsOnce, OfModal
    <2>4. calls' = [t \in Slot |-> calls'[t]]
      BY <2>1 DEF ModalGone
    <2> QED
      BY <2>1, <2>2, <2>3, <2>4, ModalInv
  <1> QED
    BY <1>1, <1>2

\* The form is submitted.
LEMMA SubmitInv ==
  ASSUME ConsoleInv, NEW s \in Slot, SubmitRun(s) PROVE ConsoleInv'
  <1>1. /\ UNCHANGED server /\ UNCHANGED <<route, list, run, checkpoints, loading, error, faults>>
        /\ calls[s] = Idle /\ modal' = "submitting" /\ modal \in {"open", "refused"}
    BY DEF SubmitRun, Submittable, Free
  <1>2. PICK form : calls' = [calls EXCEPT ![s] = [kind |-> "create", owner |-> "modal", valid |-> RunConfig(form), result |-> None]]
    BY DEF SubmitRun
  <1> DEFINE d == [kind |-> "create", owner |-> "modal", valid |-> RunConfig(form), result |-> None]
  <1>3. route = "runs" /\ \A t \in Slot : ~OfModal(calls[t])
    BY <1>1, Parts DEF PageInv, SubmitsOnce
  <1>4. RunConfig(form) \in BOOLEAN
    BY DEF RunConfig
  <1>5. d \in CreateCall /\ OfModal(d) /\ d.kind = "create"
    BY <1>4 DEF CreateCall, OfModal, Result
  <1>6. calls'[s] = d /\ \A t \in Slot : t # s => calls'[t] = calls[t]
    BY <1>2, Parts DEF CallsType
  <1>7. calls' = [t \in Slot |-> calls'[t]]
    BY <1>2, Parts DEF CallsType
  <1> HIDE DEF d
  <1>8. IsCall(calls'[s]) /\ CallInv(calls[s])'
    BY <1>1, <1>3, <1>5, <1>6 DEF IsCall, CallInv
  <1>9. SubmitsOnce'
    BY <1>1, <1>3, <1>5, <1>6 DEF SubmitsOnce, OfModal
  <1> QED
    BY <1>1, <1>3, <1>6, <1>7, <1>8, <1>9, ModalInv

\* The answer to a submitted form.
LEMMA CreateReturnsInv ==
  ASSUME ConsoleInv, NEW s \in Slot, CreateReturns(s) PROVE ConsoleInv'
  <1> DEFINE c == calls[s]
  <1>1. /\ UNCHANGED server /\ UNCHANGED <<route, list, run, checkpoints, loading, error, faults>>
        /\ c.kind = "create"
    BY DEF CreateReturns
  <1>2. c.owner = "gone" \/ route = "runs"
    BY <1>1, CallFacts DEF CallInv
  <1>3. CASE c.owner # "gone" /\ calls' = [ModalGone(calls) EXCEPT ![s] = ListFetch] /\ modal' = "closed"
    <2>1. calls'[s] = ListFetch /\ \A t \in Slot : t # s => calls'[t] = ModalGone(calls)[t]
      BY <1>3 DEF ModalGone
    <2>2. IsCall(calls'[s]) /\ CallInv(calls[s])' /\ ~OfModal(calls'[s])
      BY <1>1, <1>2, <1>3, <2>1, NewCalls DEF CallInv, OfModal, ListFetch, ListCall
    <2>3. ASSUME NEW t \in Slot
          PROVE  /\ calls'[t] = calls[t] \/ (IsCall(calls'[t]) /\ CallInv(calls[t])')
                 /\ ~OfModal(calls'[t])
      <3>1. CASE t # s
        BY <1>1, <2>1, <3>1, ModalGoneFacts DEF IsCall, CallInv
      <3> QED
        BY <2>2, <3>1
    <2>4. SubmitsOnce'
      BY <1>3, <2>3 DEF SubmitsOnce, OfModal
    <2>5. calls' = [t \in Slot |-> calls'[t]]
      BY <1>3 DEF ModalGone
    <2> QED
      BY <1>1, <1>3, <2>3, <2>4, <2>5, ModalInv
  <1>4. CASE calls' = [calls EXCEPT ![s] = Idle] /\ modal' = IF c.owner = "modal" THEN "refused" ELSE modal
    <2>1. calls'[s] = Idle /\ \A t \in Slot : t # s => calls'[t] = calls[t]
      BY <1>4, Parts DEF CallsType
    <2>2. IsCall(calls'[s]) /\ CallInv(calls[s])' /\ ~OfModal(calls'[s])
      BY <2>1, NewCalls DEF CallInv, OfModal, Idle
    <2>3. SubmitsOnce'
      <3>1. CASE c.owner = "modal"
        <4>1. \A t \in Slot : ~OfModal(calls'[t])
          BY <1>1, <2>1, <2>2, <3>1, Parts DEF SubmitsOnce, OfModal
        <4> QED
          BY <1>4, <3>1, <4>1 DEF SubmitsOnce, OfModal
      <3>2. CASE c.owner # "modal"
        <4>1. \A t \in Slot : OfModal(calls[t])' <=> OfModal(calls[t])
          BY <2>1, <2>2, <3>2 DEF OfModal
        <4> QED
          BY <1>4, <3>2, <4>1, Parts, SubmitsKept
      <3> QED
        BY <3>1, <3>2
    <2>4. calls' = [t \in Slot |-> calls'[t]]
      BY <1>4, Parts DEF CallsType
    <2>5. modal' \in {"closed", "open", "submitting", "refused"} /\ (modal' # "closed" => route = "runs")
      BY <1>2, <1>4, Parts DEF PageType, PageInv
    <2> QED
      BY <1>1, <2>1, <2>2, <2>3, <2>4, <2>5, ModalInv
  <1> QED
    BY <1>3, <1>4 DEF CreateReturns
-----------------------------------------------------------------------------
\* It holds when the console is opened, whatever runs there are.
LEMMA InitInv ==
  ASSUME ConsoleAssumption, NEW starts, starts \subseteq RunState \cup {RL!NoRun}, InitFrom(starts)
  PROVE  ConsoleInv
  <1>1. ServerType
    <2>1. runState \in [Run -> RunState \cup {RL!NoRun}]
      BY DEF InitFrom
    <2>2. version \in [Run -> Nat]
      BY DEF InitFrom
    <2>3. <<"IN_PROGRESS">> \in Seq(CheckpointState) /\ <<>> \in Seq(CheckpointState)
      BY DEF CheckpointState
    <2>4. ckpts \in [Run -> Seq(CheckpointState)]
      BY <2>3 DEF InitFrom
    <2> QED
      BY <2>1, <2>2, <2>4 DEF ServerType
  <1>2. /\ route = "elsewhere" /\ list = None /\ run = None /\ checkpoints = <<>>
        /\ loading = TRUE /\ error = FALSE /\ modal = "closed"
        /\ calls = [s \in Slot |-> Idle] /\ faults = 0
    BY DEF InitFrom
  <1>3. PageType
    <2>1. checkpoints \in Seq(CheckpointState)
      BY <1>2
    <2> QED
      BY <1>2, <2>1 DEF PageType
  <1>4. PageInv
    BY <1>2 DEF PageInv, ConsoleAssumption
  <1>5. \A s \in Slot : IsCall(calls[s]) /\ CallInv(calls[s]) /\ ~OfModal(calls[s])
    BY <1>2, NewCalls DEF CallInv, OfModal, Idle
  <1>6. CallsType /\ CallsInv /\ SubmitsOnce
    BY <1>2, <1>5 DEF CallsType, CallsInv, SubmitsOnce
  <1>7. faults \in 0..MaxFaults
    BY <1>2 DEF ConsoleAssumption
  <1> QED
    BY <1>1, <1>3, <1>4, <1>6, <1>7
       DEF ConsoleInv, TypeOK, ServerType, PageType, CallsType, CallsInv

\* Every step keeps it.
LEMMA NextInv ==
  ASSUME ConsoleAssumption, ConsoleInv, [Next]_vars PROVE ConsoleInv'
  <1>1. CASE UNCHANGED vars
    <2>1. UNCHANGED server /\ UNCHANGED page /\ calls' = calls /\ faults' = faults
      BY <1>1 DEF vars
    <2>2. ServerType' /\ Grows /\ PageType' /\ PageInv' /\ route' = route /\ modal' = modal /\ run' = run
      BY <2>1, Untouched
    <2>3. ASSUME NEW t \in Slot PROVE CallInv(calls[t])'
      BY <2>1, <2>2, CallFacts, SlotKept
    <2>4. CallsType' /\ CallsInv'
      BY <2>1, <2>3, Parts DEF CallsType, CallsInv, IsCall, IsRows
    <2>5. SubmitsOnce'
      BY <2>1, <2>2, Parts, SubmitsKept DEF OfModal
    <2> QED
      BY <2>1, <2>2, <2>4, <2>5, Parts
  <1>2. CASE Navigate
    BY <1>2, OpenPageInv, JumpInv DEF Navigate
  <1>3. CASE OpenModal \/ CloseModal
    BY <1>3, OpenCloseInv
  <1>4. ASSUME NEW r \in Run, OthersMove(r) PROVE ConsoleInv'
    BY <1>4, OthersMoveInv
  <1>5. ASSUME NEW s \in Slot, Poll(s) \/ Operator(s) PROVE ConsoleInv'
    BY <1>5, PollInv, ClickInv, SubmitInv DEF Operator
  <1>6. ASSUME NEW s \in Slot, Answer(s) PROVE ConsoleInv'
    BY <1>6, AnswerListInv, AnswerDetailInv, HandlePostInv, CreateRunInv DEF Answer
  <1>7. ASSUME NEW s \in Slot, Continue(s) PROVE ConsoleInv'
    BY <1>7, StoreRunsInv, StoreRunInv, DetailEndsInv, PostReturnsInv, CreateReturnsInv DEF Continue
  <1>8. ASSUME NEW s \in Slot, FetchFails(s) \/ PostFails(s) PROVE ConsoleInv'
    BY <1>8, FetchFailsInv, PostFailsInv
  <1> QED
    BY <1>1, <1>2, <1>3, <1>4, <1>5, <1>6, <1>7, <1>8 DEF Next

\* The inductive invariant: whichever runs exist when the console is opened, what the
\* pages hold and what is on its way to them belongs to the page on the route, shows a
\* state the run was in, and lists as committed only what is.
THEOREM Invariant ==
  ASSUME ConsoleAssumption, NEW CONSTANT starts, starts \subseteq RunState \cup {RL!NoRun}
  PROVE  SpecFrom(starts) => []ConsoleInv
  <1>1. InitFrom(starts) => ConsoleInv
    BY InitInv
  <1>2. ConsoleInv /\ [Next]_vars => ConsoleInv'
    BY NextInv
  <1> QED
    BY <1>1, <1>2, PTL DEF SpecFrom

\* Without jumps in the history, what a page shows and what it sent is of one run.
LEMMA InvActs ==
  ASSUME ~HistoryJumps, ConsoleInv PROVE ActsOnWhatItShows
  BY DEF ConsoleInv, PageInv, CallInv, ActsOnWhatItShows

\* Without jumps in the history, a checkpoint listed as "Saved" is committed.
LEMMA InvSaved ==
  ASSUME ~HistoryJumps, ConsoleInv PROVE SavedIsSaved
  <1>1. SUFFICES ASSUME route \in Run, NEW i \in DOMAIN HistoryTable, HistoryTable[i] = "Saved"
                 PROVE  i \in DOMAIN ckpts[route] /\ ckpts[route][i] = "COMMITTED"
    BY DEF SavedIsSaved
  <1>2. i \in DOMAIN checkpoints /\ CkptBadge(checkpoints[i]) = "Saved"
    BY <1>1 DEF HistoryTable
  <1>3. checkpoints[i] \in CheckpointState
    BY <1>2 DEF ConsoleInv, TypeOK
  <1>4. checkpoints[i] = "COMMITTED"
    BY <1>2, <1>3 DEF CkptBadge, CheckpointState
  <1> QED
    BY <1>1, <1>2, <1>4 DEF ConsoleInv, PageInv, Keeps

\* The buttons of a run by its state, against VALID_TRANSITIONS.
LEMMA ButtonsFollowTheTable ==
  ASSUME NEW st \in RunState, NEW a \in DetailButtons(st)
  PROVE  Accepted(a, st) <=> <<st, a>> \notin DeadButtons
  <1>1. a \in {"start", "cancel", "checkpoint", "resume"}
    BY DEF DetailButtons, RunsButtons
  <1> USE DEF DetailButtons, RunsButtons, Accepted, NoOp, Target, DeadButtons,
              RL!can_transition, RL!VALID_TRANSITIONS, RL!RunStates
  <1>2. CASE st \in {"CREATED", "COMMITTED"}
    BY <1>1, <1>2
  <1>3. CASE st = "RUNNING"
    BY <1>1, <1>3
  <1>4. CASE st = "CHECKPOINTING"
    BY <1>1, <1>4
  <1>5. CASE st \in {"RECOVERING", "COMPLETED"}
    BY <1>1, <1>5
  <1>6. CASE st \in {"FAILED", "CANCELLED"}
    BY <1>1, <1>6
  <1> QED
    BY <1>2, <1>3, <1>4, <1>5, <1>6 DEF RunState

\* An action on a run that has not changed since it was displayed.
LEMMA InvOffered ==
  ASSUME ConsoleInv PROVE OfferedIsAccepted
  <1>1. SUFFICES ASSUME NEW s \in Slot, calls[s].kind = "post", calls[s].id = calls[s].shown.id,
                        calls[s].shown.version = version[calls[s].id]
                 PROVE  Accepted(calls[s].action, runState[calls[s].id])
                          <=> <<calls[s].shown.state, calls[s].action>> \notin DeadButtons
    BY DEF OfferedIsAccepted
  <1>2. calls[s].shown.state \in RunState
    BY <1>1, CallFacts, Kinds DEF PostCall, Shown
  <1>3. /\ calls[s].shown.state = runState[calls[s].id]
        /\ calls[s].action \in DetailButtons(calls[s].shown.state)
    BY <1>1, CallFacts DEF CallInv, Faithful
  <1> QED
    BY <1>2, <1>3, ButtonsFollowTheTable

\* What either page shows.
LEMMA InvScreens ==
  ASSUME ConsoleInv PROVE NeverBlank
  <1>1. route \in Run => DetailScreen # "blank"
    BY DEF ConsoleInv, PageInv, DetailScreen
  <1>2. route = "runs" => RunsScreen # {}
    BY DEF RunsScreen
  <1>3. run # None => run.state \in RunState
    BY DEF ConsoleInv, TypeOK, Shown
  <1> QED
    BY <1>1, <1>2, <1>3 DEF NeverBlank, RunBadge

\* A step of the console, or of anybody else, moves runs as RunLifecycle does.
LEMMA LifecycleStep ==
  ASSUME ConsoleInv, [Next]_vars PROVE RunFollowsLifecycle
  <1> SUFFICES ASSUME NEW x \in Run PROVE [Life(x)!Next]_(runState[x])
    BY DEF RunFollowsLifecycle
  <1>1. ServerType
    BY Parts
  <1>2. ASSUME NEW r \in Run, NEW s \in RunState, Moved(r, s),
               runState[r] # RL!NoRun, RL!can_transition(runState[r], s)
        PROVE  [Life(x)!Next]_(runState[x])
    <2>1. runState'[r] = s /\ \A y \in Run : y # r => runState'[y] = runState[y]
      BY <1>1, <1>2 DEF Moved, ServerType
    <2>2. runState[r] \in RunState \cup {RL!NoRun}
      BY <1>1 DEF ServerType
    <2>3. CASE x = r
      BY <1>2, <2>1, <2>2, <2>3
         DEF Life!Next, Life!Transition, Life!RunStates, Life!can_transition, Life!VALID_TRANSITIONS,
             RL!NoRun, RL!can_transition, RL!VALID_TRANSITIONS, RL!RunStates, RunState
    <2>4. CASE x # r
      BY <2>1, <2>4
    <2> QED
      BY <2>3, <2>4
  <1>3. CASE UNCHANGED server
    BY <1>3 DEF server
  <1>4. ASSUME NEW r \in Run, OthersMove(r) PROVE [Life(x)!Next]_(runState[x])
    BY <1>2, <1>4 DEF OthersMove, Existing
  <1>5. ASSUME NEW s \in Slot, HandlePost(s) PROVE [Life(x)!Next]_(runState[x])
    <2> DEFINE r == calls[s].id  a == calls[s].action  st == runState[r]
    <2>1. calls[s].kind = "post" /\ Target(a, st) \in RunState
      BY <1>5 DEF HandlePost, Target, RunState
    <2>2. r \in Run /\ st # RL!NoRun
      BY <2>1, CallFacts, Kinds DEF PostCall, CallInv, Existing
    <2>3. CASE Accepted(a, st) /\ ~NoOp(a, st) /\ Moved(r, Target(a, st))
      <3>1. RL!can_transition(st, Target(a, st))
        BY <2>3 DEF Accepted
      <3> QED
        BY <1>2, <2>1, <2>2, <2>3, <3>1
    <2> QED
      BY <1>3, <1>5, <2>3 DEF HandlePost
  <1>6. ASSUME NEW s \in Slot, CreateRun(s) PROVE [Life(x)!Next]_(runState[x])
    <2>1. ASSUME NEW r \in Run \ Existing, Moved(r, "CREATED") PROVE [Life(x)!Next]_(runState[x])
      <3>1. r \in Run /\ runState[r] = RL!NoRun
        BY DEF Existing
      <3>2. runState'[r] = "CREATED" /\ \A y \in Run : y # r => runState'[y] = runState[y]
        BY <1>1, <2>1 DEF Moved, ServerType
      <3>3. CASE x = r
        BY <3>1, <3>2, <3>3 DEF Life!Next, Life!Create, Life!NoRun, RL!NoRun
      <3>4. CASE x # r
        BY <3>2, <3>4
      <3> QED
        BY <3>3, <3>4
    <2> QED
      BY <1>3, <1>6, <2>1 DEF CreateRun
  <1>7. CASE Navigate \/ OpenModal \/ CloseModal \/ UNCHANGED vars
    BY <1>3, <1>7 DEF Navigate, OpenRuns, Leave, OpenRun, JumpToRun, Mounts, OpenModal, CloseModal, vars
  <1>8. ASSUME NEW s \in Slot, Poll(s) \/ Operator(s) \/ Continue(s) \/ FetchFails(s) \/ PostFails(s)
        PROVE  UNCHANGED server
    BY <1>8 DEF Poll, Operator, ClickRow, ClickDetail, SubmitRun, Continue, StoreRuns, StoreRun, RunStored,
                StoreCheckpoints, DetailFails, PostReturns, CreateReturns, FetchFails, PostFails
  <1>9. ASSUME NEW s \in Slot, AnswerList(s) \/ AnswerRun(s) \/ AnswerCheckpoints(s) PROVE UNCHANGED server
    BY <1>9 DEF AnswerList, AnswerRun, AnswerCheckpoints
  <1> QED
    BY <1>3, <1>4, <1>5, <1>6, <1>7, <1>8, <1>9 DEF Next, Answer
-----------------------------------------------------------------------------
\* Without jumps in the history, RunDetailPage shows the run of its URL and an action of
\* either page goes to the run whose state offered it, whatever is still on its way from
\* an earlier page.
THEOREM ActionsReachTheirRun ==
  ASSUME ConsoleAssumption, ~HistoryJumps, NEW CONSTANT starts, starts \subseteq RunState \cup {RL!NoRun}
  PROVE  SpecFrom(starts) => []ActsOnWhatItShows
  <1>1. ConsoleInv => ActsOnWhatItShows
    BY InvActs
  <1> QED
    BY <1>1, Invariant, PTL

\* Without jumps in the history, a checkpoint that RunDetailPage lists as "Saved" is
\* committed at the server now.
THEOREM SavedCheckpointsStay ==
  ASSUME ConsoleAssumption, ~HistoryJumps, NEW CONSTANT starts, starts \subseteq RunState \cup {RL!NoRun}
  PROVE  SpecFrom(starts) => []SavedIsSaved
  <1>1. ConsoleInv => SavedIsSaved
    BY InvSaved
  <1> QED
    BY <1>1, Invariant, PTL

\* An action on a run that has not changed since it was displayed is accepted by the
\* server, except for the three buttons it never honours; a form is submitted once; and
\* neither page is ever blank.
THEOREM ButtonsAndScreens ==
  ASSUME ConsoleAssumption, NEW CONSTANT starts, starts \subseteq RunState \cup {RL!NoRun}
  PROVE  SpecFrom(starts) => [](OfferedIsAccepted /\ SubmitsOnce /\ NeverBlank)
  <1>1. ConsoleInv => OfferedIsAccepted /\ SubmitsOnce /\ NeverBlank
    BY InvOffered, InvScreens DEF ConsoleInv
  <1> QED
    BY <1>1, Invariant, PTL

\* Whatever is clicked, however old the display, every run follows RunLifecycle.
THEOREM RunsFollowTheirLifecycle ==
  ASSUME ConsoleAssumption, NEW CONSTANT starts, starts \subseteq RunState \cup {RL!NoRun}
  PROVE  SpecFrom(starts) => [][RunFollowsLifecycle]_vars
  <1>1. ConsoleInv /\ [Next]_vars => RunFollowsLifecycle
    BY LifecycleStep
  <1> QED
    BY <1>1, Invariant, PTL DEF SpecFrom
=============================================================================
