---------------------------- MODULE WebPagesProofs ----------------------------
(***************************************************************************)
(* The properties of WebPages for every value of its constants.  A         *)
(* behaviour is one visit: each of its steps is one of the visited page's  *)
(* module, and keeps the invariant of that module.  The invariants of the  *)
(* console, the metrics pages and the demo are proved in modules of their  *)
(* own, those of the checkpoint browser and the shell here.                *)
(***************************************************************************)
EXTENDS WebPages, Sequences, FiniteSetTheorems, TLAPS

(* The checkpoint browser. *)

\* A finite set of checkpoints, once each, can be listed newest first.
LEMMA SortedExists ==
  ASSUME Browser!BrowserAssumption, NEW infos, \A x \in infos : x.id \in Browser!Ckpt,
         \A x, y \in infos : x.id = y.id => x = y
  PROVE  /\ Browser!Sorted(infos) \in UNION {[1..n -> infos] : n \in 0..MaxCkpt}
         /\ {Browser!Sorted(infos)[i] : i \in DOMAIN Browser!Sorted(infos)} = infos
         /\ \A i, j \in DOMAIN Browser!Sorted(infos) :
              i < j => Browser!Newer(Browser!Sorted(infos)[i], Browser!Sorted(infos)[j])
  <1> DEFINE ids == [x \in infos |-> x.id]
             n == Cardinality(infos)
             From(x) == {y \in infos : y.id >= x.id}
             rank == [x \in infos |-> Cardinality(From(x))]
             seq == [i \in 1..n |-> CHOOSE x \in infos : rank[x] = i]
  <1>0. MaxCkpt \in Nat /\ \A x \in infos : x.id \in Nat /\ 1 <= x.id /\ x.id <= MaxCkpt
    BY DEF Browser!BrowserAssumption, Browser!Ckpt
  <1>1. ids \in Injection(infos, 1..MaxCkpt)
    BY <1>0 DEF Injection, IsInjective
  <1>2. IsFiniteSet(1..MaxCkpt) /\ Cardinality(1..MaxCkpt) = MaxCkpt
    BY <1>0, FS_Interval
  <1>3. IsFiniteSet(infos) /\ n \in Nat /\ n <= MaxCkpt
    BY <1>1, <1>2, FS_Injection, FS_CardinalityType
  <1>4. \A x \in infos : From(x) \in SUBSET infos /\ x \in From(x) /\ IsFiniteSet(From(x))
    BY <1>0, <1>3, FS_Subset
  <1>5. \A x \in infos : rank[x] \in 1..n
    <2> SUFFICES ASSUME NEW x \in infos PROVE Cardinality(From(x)) \in 1..n
      OBVIOUS
    <2>1. Cardinality(From(x)) \in Nat /\ Cardinality(From(x)) <= n
      BY <1>3, <1>4, FS_Subset, FS_CardinalityType
    <2>2. Cardinality(From(x)) # 0
      BY <1>4, FS_EmptySet
    <2> QED
      BY <1>3, <2>1, <2>2
  <1>6. \A x, y \in infos : x.id < y.id => rank[y] < rank[x]
    <2> SUFFICES ASSUME NEW x \in infos, NEW y \in infos, x.id < y.id
                 PROVE  Cardinality(From(y)) < Cardinality(From(x))
      OBVIOUS
    <2>1. From(y) \in SUBSET From(x) /\ x \notin From(y) /\ x \in From(x)
      BY <1>0
    <2>2. Cardinality(From(y)) <= Cardinality(From(x)) /\ Cardinality(From(x)) # Cardinality(From(y))
      BY <1>4, <2>1, FS_Subset
    <2>3. Cardinality(From(y)) \in Nat /\ Cardinality(From(x)) \in Nat
      BY <1>4, FS_CardinalityType
    <2> QED
      BY <2>2, <2>3
  <1> HIDE DEF n, From
  <1>7. rank \in Injection(infos, 1..n)
    <2>1. rank \in [infos -> 1..n]
      BY <1>5
    <2>2. ASSUME NEW x \in infos, NEW y \in infos, rank[x] = rank[y] PROVE x = y
      <3>1. rank[x] \in Nat
        BY <1>3, <1>5
      <3>2. ~(x.id < y.id) /\ ~(y.id < x.id)
        BY <1>6, <2>2, <3>1
      <3> QED
        BY <1>0, <3>2
    <2> HIDE DEF rank
    <2> QED
      BY <2>1, <2>2 DEF Injection, IsInjective
  <1>8. IsFiniteSet(1..n) /\ Cardinality(1..n) = n
    BY <1>3, FS_Interval
  <1>9. rank \in Surjection(infos, 1..n)
    BY <1>7, <1>8, FS_Injection DEF n
  <1> HIDE DEF rank
  <1>10. \A i \in 1..n : seq[i] \in infos /\ rank[seq[i]] = i
    BY <1>9 DEF Surjection
  <1>11. seq \in [1..n -> infos] /\ DOMAIN seq = 1..n
    BY <1>10
  <1> HIDE DEF seq
  <1>12. {seq[i] : i \in DOMAIN seq} = infos
    <2>1. ASSUME NEW x \in infos PROVE \E i \in 1..n : x = seq[i]
      <3>1. rank[x] \in 1..n /\ rank[seq[rank[x]]] = rank[x] /\ seq[rank[x]] \in infos
        BY <1>5, <1>10
      <3>2. x = seq[rank[x]]
        BY <1>7, <3>1 DEF Injection, IsInjective
      <3> QED
        BY <3>1, <3>2
    <2> QED
      BY <1>11, <2>1
  <1>13. \A i, j \in DOMAIN seq : i < j => Browser!Newer(seq[i], seq[j])
    <2> SUFFICES ASSUME NEW i \in 1..n, NEW j \in 1..n, i < j PROVE seq[j].id < seq[i].id
      BY <1>11 DEF Browser!Newer
    <2>1. seq[i] \in infos /\ seq[j] \in infos /\ rank[seq[i]] = i /\ rank[seq[j]] = j
      BY <1>10
    <2>2. seq[i].id \in Nat /\ seq[j].id \in Nat /\ i \in Nat /\ j \in Nat
      BY <1>0, <1>3, <2>1
    <2>3. ~(seq[i].id < seq[j].id)
      BY <1>6, <2>1, <2>2
    <2>4. seq[i].id # seq[j].id
      BY <2>1, <2>2
    <2> QED
      BY <2>2, <2>3, <2>4
  <1>14. seq \in UNION {[1..m -> infos] : m \in 0..MaxCkpt}
    BY <1>0, <1>3, <1>11
  <1> QED
    BY <1>12, <1>13, <1>14 DEF Browser!Sorted

\* The page opens in its invariant.
LEMMA BrowserInit == ASSUME Browser!BrowserAssumption, Browser!Init PROVE Browser!BrowserInv
  <1>1. made = <<>> /\ state = <<>> /\ checkpoints = <<>> /\ deleted = {} /\ expanded = {} /\ faults = 0
        /\ loading = TRUE /\ error = FALSE
    BY DEF Browser!Init
  <1>2. \A s \in Slots["browser"] : rounds[s] = None
    BY DEF Browser!Init
  <1>3. rounds = [s \in Slots["browser"] |-> rounds[s]]
    BY DEF Browser!Init
  <1>4. made \in Seq(Runs["browser"]) /\ Len(made) <= MaxCkpt /\ state \in Seq(Browser!CkptState)
        /\ Len(state) = Len(made)
        /\ DOMAIN checkpoints = {} /\ checkpoints \in Seq(Browser!CkptInfo)
    BY <1>1 DEF Browser!BrowserAssumption
  <1>5. Browser!Screen # {}
    BY <1>1 DEF Browser!Screen
  <1>6. Browser!TypeOK
    <2>1. {loading, error} \subseteq BOOLEAN
      BY <1>1
    <2>2. faults \in 0..Faults["browser"]
      BY <1>1 DEF Browser!BrowserAssumption
    <2>3. \A i \in DOMAIN checkpoints : checkpoints[i] \in Browser!CkptInfo
      BY <1>4
    <2> QED
      BY <1>1, <1>2, <1>4, <1>5, <2>1, <2>2, <2>3 DEF Browser!TypeOK
  <1> QED
    BY <1>2, <1>3, <1>4, <1>6 DEF Browser!BrowserInv, Browser!NewestFirst, Browser!RoundOK

\* The table, a message or the spinner.
LEMMA BrowserNeverBlank == ASSUME {loading', error'} \subseteq BOOLEAN PROVE Browser!Screen' # {}
  <1>1. CASE loading'
    BY <1>1 DEF Browser!Screen
  <1>2. CASE ~loading' /\ error'
    BY <1>2 DEF Browser!Screen
  <1>3. CASE ~loading' /\ ~error'
    BY <1>3 DEF Browser!Screen
  <1> QED
    BY <1>1, <1>2, <1>3

\* What the server does to a checkpoint leaves true what was known of it.
LEMMA KnownStays ==
  ASSUME Browser!TypeOK, Browser!TypeOK', Len(made) <= Len(made'), \A c \in DOMAIN made : made'[c] = made[c],
         \A c \in DOMAIN made : state[c] = "COMMITTED" => state'[c] = "COMMITTED",
         NEW x, Browser!Known(x)
  PROVE  Browser!Known(x)'
  <1>1. DOMAIN made \subseteq DOMAIN made'
    BY DEF Browser!TypeOK
  <1> QED
    BY <1>1 DEF Browser!Known, Browser!CkptInfo, Browser!Ckpt, Browser!CkptState

\* A round keeps what it holds while what it knows stays true.
LEMMA RoundStays ==
  ASSUME NEW v, Browser!RoundOK(v), \A x : Browser!Known(x) => Browser!Known(x)'
  PROVE  Browser!RoundOK(v)'
  BY DEF Browser!RoundOK, Browser!ListOK

\* The types of the rounds follow from what they hold.
LEMMA RoundTypes ==
  ASSUME NEW v, v # None, Browser!RoundOK(v), NEW r \in DOMAIN v.lists
  PROVE  v.lists[r] \in {None, Failed} \/ v.lists[r] \subseteq Browser!CkptInfo
  <1>1. CASE v = [runs |-> None, lists |-> <<>>]
    <2>1. v.lists = <<>>
      BY <1>1
    <2> QED
      BY <2>1
  <1>2. CASE v.lists = [q \in Runs["browser"] |-> v.lists[q]]
             /\ \A q \in Runs["browser"] : Browser!ListOK(q, v.lists[q])
    <2>1. r \in Runs["browser"] /\ Browser!ListOK(r, v.lists[r])
      BY <1>2
    <2> QED
      BY <2>1 DEF Browser!ListOK, Browser!Known
  <1> QED
    BY <1>1, <1>2 DEF Browser!RoundOK

\* A step of the server.
LEMMA ServerStep ==
  ASSUME Browser!BrowserAssumption, Browser!BrowserInv,
         made' \in Seq(Runs["browser"]), Len(made') <= MaxCkpt, state' \in Seq(Browser!CkptState),
         Len(state') = Len(made'),
         Len(made) <= Len(made'), \A c \in DOMAIN made : made'[c] = made[c],
         \A c \in DOMAIN made : state[c] = "COMMITTED" => state'[c] = "COMMITTED",
         deleted' \subseteq DOMAIN made',
         UNCHANGED <<rounds, checkpoints, loading, error, expanded, faults>>
  PROVE  Browser!BrowserInv'
  <1>1. Browser!TypeOK'
    BY DEF Browser!BrowserInv, Browser!TypeOK, Browser!Rows, Browser!Screen, Browser!CkptInfo, Browser!Ckpt
  <1>2. \A x : Browser!Known(x) => Browser!Known(x)'
    BY <1>1, KnownStays DEF Browser!BrowserInv
  <1>3. \A s \in Slots["browser"] : Browser!RoundOK(rounds[s])'
    BY <1>2, RoundStays DEF Browser!BrowserInv
  <1> QED
    BY <1>1, <1>2, <1>3 DEF Browser!BrowserInv, Browser!NewestFirst

\* A step of a round.
LEMMA RoundStep ==
  ASSUME Browser!BrowserInv, UNCHANGED <<Browser!server, checkpoints, expanded>>,
         faults' \in 0..Faults["browser"],
         {loading', error'} \subseteq BOOLEAN,
         NEW s \in Slots["browser"], NEW v, Browser!RoundOK(v), rounds' = [rounds EXCEPT ![s] = v]
  PROVE  Browser!BrowserInv'
  <1>1. UNCHANGED <<made, state, deleted>>
    BY DEF Browser!server
  <1>2. rounds' = [t \in Slots["browser"] |-> IF t = s THEN v ELSE rounds[t]]
    BY DEF Browser!BrowserInv
  <1>3. \A t \in Slots["browser"] : Browser!RoundOK(rounds'[t])
    BY <1>2 DEF Browser!BrowserInv
  <1>4. \A w : Browser!RoundOK(w)' <=> Browser!RoundOK(w)
    BY <1>1 DEF Browser!RoundOK, Browser!ListOK, Browser!Known, Browser!CkptInfo, Browser!Ckpt
  <1>5. \A t \in Slots["browser"] : Browser!RoundOK(rounds[t])'
    BY <1>3, <1>4
  <1>6. \A t \in Slots["browser"] : rounds'[t] # None =>
          \A r \in DOMAIN rounds'[t].lists : rounds'[t].lists[r] \in {None, Failed}
              \/ rounds'[t].lists[r] \subseteq Browser!CkptInfo
    BY <1>3, RoundTypes
  <1>7. (Browser!Screen # {})'
    BY BrowserNeverBlank
  <1>8. Browser!TypeOK'
    BY <1>1, <1>6, <1>7 DEF Browser!BrowserInv, Browser!TypeOK, Browser!Rows, Browser!CkptInfo, Browser!Ckpt
  <1>9. \A i \in DOMAIN checkpoints' : Browser!Known(checkpoints[i])'
    BY <1>1 DEF Browser!BrowserInv, Browser!Known, Browser!CkptInfo, Browser!Ckpt
  <1> QED
    BY <1>2, <1>5, <1>8, <1>9 DEF Browser!BrowserInv, Browser!NewestFirst, Browser!CkptInfo

\* The answers of a round that is complete, once each.
LEMMA FlatOK ==
  ASSUME NEW ls, \A r \in Runs["browser"] : Browser!ListOK(r, ls[r]) /\ ls[r] # None,
         ls = [r \in Runs["browser"] |-> ls[r]]
  PROVE  (\A x \in Browser!Flat(ls) : Browser!Known(x)) /\ (\A x, y \in Browser!Flat(ls) : x.id = y.id => x = y)
  <1>1. ASSUME NEW x \in Browser!Flat(ls)
        PROVE  \E r \in Runs["browser"] : x \in ls[r] /\ Browser!Known(x) /\ x.run = r
                 /\ \A y \in ls[r] : x.id = y.id => x = y
    <2>1. PICK r \in DOMAIN ls : ls[r] # Failed /\ x \in ls[r]
      BY <1>1 DEF Browser!Flat
    <2>2. r \in Runs["browser"]
      BY <2>1
    <2> QED
      BY <2>1, <2>2 DEF Browser!ListOK
  <1>2. ASSUME NEW x \in Browser!Flat(ls), NEW y \in Browser!Flat(ls), x.id = y.id PROVE x = y
    <2>1. PICK r \in Runs["browser"] : x \in ls[r] /\ Browser!Known(x) /\ x.run = r
               /\ \A z \in ls[r] : x.id = z.id => x = z
      BY <1>1
    <2>2. PICK q \in Runs["browser"] : y \in ls[q] /\ Browser!Known(y) /\ y.run = q
      BY <1>1
    <2>3. r = q
      BY <1>2, <2>1, <2>2 DEF Browser!Known
    <2> QED
      BY <1>2, <2>1, <2>2, <2>3
  <1> QED
    BY <1>1, <1>2

\* A round ends: the rows are replaced.
LEMMA StoreStep ==
  ASSUME Browser!BrowserAssumption, Browser!BrowserInv, NEW s \in Slots["browser"], Browser!Store(s)
  PROVE  Browser!BrowserInv' /\ Browser!RowsKeepTheirState
  <1> DEFINE ls == rounds[s].lists
             seq == Browser!Sorted(Browser!Flat(ls))
  <1>1. /\ rounds[s] # None /\ rounds[s].runs # None /\ None \notin {ls[r] : r \in Runs["browser"]}
        /\ checkpoints' = seq /\ expanded' = Browser!Kept(checkpoints, checkpoints')
        /\ error' = FALSE /\ loading' = FALSE /\ rounds' = [rounds EXCEPT ![s] = None]
        /\ UNCHANGED <<made, state, deleted, faults>>
    BY DEF Browser!Store, Browser!Shows, Browser!server
  <1>2. rounds[s] # [runs |-> None, lists |-> <<>>]
    BY <1>1
  <1>3. ls = [r \in Runs["browser"] |-> ls[r]] /\ \A r \in Runs["browser"] : Browser!ListOK(r, ls[r])
    BY <1>1, <1>2 DEF Browser!BrowserInv, Browser!RoundOK
  <1> HIDE DEF ls
  <1>4. \A r \in Runs["browser"] : Browser!ListOK(r, ls[r]) /\ ls[r] # None
    BY <1>1, <1>3
  <1>5. (\A x \in Browser!Flat(ls) : Browser!Known(x)) /\ (\A x, y \in Browser!Flat(ls) : x.id = y.id => x = y)
    BY <1>3, <1>4, FlatOK
  <1>6. \A x \in Browser!Flat(ls) : x.id \in Browser!Ckpt
    BY <1>5 DEF Browser!Known, Browser!CkptInfo
  <1>7. /\ seq \in UNION {[1..n -> Browser!Flat(ls)] : n \in 0..MaxCkpt}
        /\ \A i, j \in DOMAIN seq : i < j => Browser!Newer(seq[i], seq[j])
    BY <1>5, <1>6, SortedExists
  <1> HIDE DEF seq
  <1>8. PICK n \in 0..MaxCkpt : seq \in [1..n -> Browser!Flat(ls)]
    BY <1>7
  <1>9. n \in Nat /\ DOMAIN seq = 1..n
        /\ \A i \in 1..n : seq[i] \in Browser!Flat(ls) /\ Browser!Known(seq[i]) /\ seq[i] \in Browser!CkptInfo
    BY <1>5, <1>8 DEF Browser!BrowserAssumption, Browser!Known
  <1>10. seq \in Seq(Browser!CkptInfo)
    <2>1. seq \in [1..n -> Browser!CkptInfo]
      BY <1>8, <1>9
    <2> QED
      BY <1>9, <2>1
  <1>11. Browser!NewestFirst'
    BY <1>1, <1>7 DEF Browser!NewestFirst, Browser!Newer
  <1>12. \A i \in DOMAIN checkpoints' : Browser!Known(checkpoints[i])'
    BY <1>1, <1>9 DEF Browser!Known, Browser!CkptInfo, Browser!Ckpt
  <1>13. rounds' = [t \in Slots["browser"] |-> IF t = s THEN None ELSE rounds[t]]
    BY <1>1 DEF Browser!BrowserInv
  <1>14. \A t \in Slots["browser"] : Browser!RoundOK(rounds'[t])
    BY <1>13 DEF Browser!BrowserInv, Browser!RoundOK
  <1>15. \A w : Browser!RoundOK(w)' <=> Browser!RoundOK(w)
    BY <1>1 DEF Browser!RoundOK, Browser!ListOK, Browser!Known, Browser!CkptInfo, Browser!Ckpt
  <1>16. \A t \in Slots["browser"] : Browser!RoundOK(rounds[t])'
    BY <1>14, <1>15
  <1>17. \A t \in Slots["browser"] : rounds'[t] # None =>
           \A r \in DOMAIN rounds'[t].lists : rounds'[t].lists[r] \in {None, Failed}
              \/ rounds'[t].lists[r] \subseteq Browser!CkptInfo
    BY <1>14, RoundTypes
  <1>18. {loading', error'} \subseteq BOOLEAN
    BY <1>1
  <1>19. expanded' \subseteq Browser!Rows'
    BY <1>1 DEF Browser!Kept, Browser!Rows
  <1>20. \A i \in DOMAIN checkpoints' : checkpoints'[i] \in Browser!CkptInfo
    BY <1>1, <1>9
  <1>21. Browser!TypeOK'
    BY <1>1, <1>17, <1>18, <1>19, <1>20, BrowserNeverBlank
    DEF Browser!BrowserInv, Browser!TypeOK, Browser!CkptInfo, Browser!Ckpt
  <1>22. Browser!RowsKeepTheirState
    BY <1>1 DEF Browser!RowsKeepTheirState, Browser!Kept
  <1>23. checkpoints' \in Seq(Browser!CkptInfo)
    BY <1>1, <1>10
  <1>24. rounds' = [t \in Slots["browser"] |-> rounds'[t]]
    BY <1>13
  <1> QED
    BY <1>11, <1>12, <1>16, <1>21, <1>22, <1>23, <1>24 DEF Browser!BrowserInv, Browser!CkptInfo, Browser!Ckpt

\* Every step of the browser or its server keeps the invariant and the state of the rows.
LEMMA BrowserNext ==
  ASSUME Browser!BrowserAssumption, Browser!BrowserInv, [Browser!Next]_(Browser!vars)
  PROVE  Browser!BrowserInv' /\ Browser!RowsKeepTheirState
  <1>0. /\ made \in Seq(Runs["browser"]) /\ Len(made) <= MaxCkpt /\ state \in Seq(Browser!CkptState)
        /\ Len(state) = Len(made)
        /\ deleted \subseteq DOMAIN made /\ faults \in 0..Faults["browser"] /\ Faults["browser"] \in Nat
        /\ MaxCkpt \in Nat
        /\ {loading, error} \subseteq BOOLEAN /\ loading \in BOOLEAN /\ error \in BOOLEAN
    BY DEF Browser!BrowserInv, Browser!TypeOK, Browser!BrowserAssumption
  <1>a. checkpoints' = checkpoints => Browser!RowsKeepTheirState
    BY DEF Browser!RowsKeepTheirState
  <1>b. faults < Faults["browser"] /\ faults' = faults + 1 => faults' \in 0..Faults["browser"]
    BY <1>0
  <1>1. ASSUME NEW r \in Runs["browser"], Browser!Create(r)
        PROVE  Browser!BrowserInv' /\ Browser!RowsKeepTheirState
    <2>1. /\ Len(made) < MaxCkpt /\ made' = Append(made, r) /\ state' = Append(state, "IN_PROGRESS")
          /\ UNCHANGED <<deleted, rounds, checkpoints, loading, error, expanded, faults>>
      BY <1>1 DEF Browser!Create
    <2>2. made' \in Seq(Runs["browser"]) /\ Len(made') = Len(made) + 1
          /\ \A c \in DOMAIN made : made'[c] = made[c]
      BY <1>0, <2>1
    <2>3. "IN_PROGRESS" \in Browser!CkptState
      BY DEF Browser!CkptState
    <2>4. state' \in Seq(Browser!CkptState) /\ Len(state') = Len(made')
          /\ \A c \in DOMAIN made : state'[c] = state[c]
      BY <1>0, <2>1, <2>2, <2>3
    <2>5. deleted' \subseteq DOMAIN made' /\ Len(made') <= MaxCkpt /\ Len(made) <= Len(made')
      BY <1>0, <2>1, <2>2
    <2> QED
      BY <1>a, <2>1, <2>2, <2>4, <2>5, ServerStep
  <1>2. ASSUME NEW c \in Browser!Ckpt, Browser!Finish(c)
        PROVE  Browser!BrowserInv' /\ Browser!RowsKeepTheirState
    <2>1. PICK st \in {"COMMITTED", "FAILED"} : state' = [state EXCEPT ![c] = st]
      BY <1>2 DEF Browser!Finish
    <2>2. /\ c \in DOMAIN made /\ state[c] = "IN_PROGRESS"
          /\ UNCHANGED <<made, deleted, rounds, checkpoints, loading, error, expanded, faults>>
      BY <1>2 DEF Browser!Finish, Browser!Existing
    <2>3. st \in Browser!CkptState
      BY DEF Browser!CkptState
    <2>4. state' \in Seq(Browser!CkptState) /\ Len(state') = Len(state)
          /\ \A d \in DOMAIN made : d # c => state'[d] = state[d]
      BY <1>0, <2>1, <2>2, <2>3
    <2>5. \A d \in DOMAIN made : state[d] = "COMMITTED" => state'[d] = "COMMITTED"
      BY <2>2, <2>4
    <2>6. Len(made) <= Len(made')
      BY <1>0, <2>2
    <2> QED
      BY <1>0, <1>a, <2>2, <2>4, <2>5, <2>6, ServerStep
  <1>3. ASSUME NEW c \in Browser!Ckpt, Browser!Retire(c)
        PROVE  Browser!BrowserInv' /\ Browser!RowsKeepTheirState
    <2>1. /\ c \in DOMAIN made /\ deleted' = deleted \cup {c}
          /\ UNCHANGED <<made, state, rounds, checkpoints, loading, error, expanded, faults>>
      BY <1>3 DEF Browser!Retire, Browser!Existing
    <2>2. Len(made) <= Len(made') /\ deleted' \subseteq DOMAIN made'
      BY <1>0, <2>1
    <2> QED
      BY <1>0, <1>a, <2>1, <2>2, ServerStep
  <1>4. ASSUME NEW c \in Browser!Ckpt, Browser!Toggle(c)
        PROVE  Browser!BrowserInv' /\ Browser!RowsKeepTheirState
    <2>1. /\ c \in Browser!Rows /\ expanded' = (IF c \in expanded THEN expanded \ {c} ELSE expanded \cup {c})
          /\ UNCHANGED <<made, state, deleted, rounds, checkpoints, loading, error, faults>>
      BY <1>4 DEF Browser!Toggle, Browser!server
    <2>2. expanded' \subseteq Browser!Rows'
      BY <2>1 DEF Browser!BrowserInv, Browser!TypeOK, Browser!Rows
    <2>3. Browser!TypeOK'
      BY <2>1, <2>2 DEF Browser!BrowserInv, Browser!TypeOK, Browser!Screen, Browser!CkptInfo, Browser!Ckpt
    <2>4. \A x : Browser!Known(x)' <=> Browser!Known(x)
      BY <2>1 DEF Browser!Known, Browser!CkptInfo, Browser!Ckpt
    <2>5. \A s \in Slots["browser"] : Browser!RoundOK(rounds[s])'
      BY <2>1, <2>4, RoundStays DEF Browser!BrowserInv
    <2> QED
      BY <1>a, <2>1, <2>3, <2>4, <2>5 DEF Browser!BrowserInv, Browser!NewestFirst
  <1>5. ASSUME NEW s \in Slots["browser"], Browser!Poll(s)
        PROVE  Browser!BrowserInv' /\ Browser!RowsKeepTheirState
    <2> DEFINE v == [runs |-> None, lists |-> <<>>]
    <2>1. rounds' = [rounds EXCEPT ![s] = v]
          /\ UNCHANGED <<Browser!server, checkpoints, loading, error, expanded, faults>>
      BY <1>5 DEF Browser!Poll
    <2>2. Browser!RoundOK(v)
      BY DEF Browser!RoundOK
    <2> HIDE DEF v
    <2> QED
      BY <1>0, <1>a, <2>1, <2>2, RoundStep
  <1>6. ASSUME NEW s \in Slots["browser"], Browser!AnswerRuns(s)
        PROVE  Browser!BrowserInv' /\ Browser!RowsKeepTheirState
    <2> DEFINE v == [runs |-> Runs["browser"], lists |-> [r \in Runs["browser"] |-> None]]
    <2>1. rounds' = [rounds EXCEPT ![s] = v]
          /\ UNCHANGED <<Browser!server, checkpoints, loading, error, expanded, faults>>
      BY <1>6 DEF Browser!AnswerRuns
    <2>2. Browser!RoundOK(v)
      BY DEF Browser!RoundOK, Browser!ListOK
    <2> HIDE DEF v
    <2> QED
      BY <1>0, <1>a, <2>1, <2>2, RoundStep
  <1>7. ASSUME NEW s \in Slots["browser"], Browser!RunsFail(s)
        PROVE  Browser!BrowserInv' /\ Browser!RowsKeepTheirState
    <2>1. /\ rounds' = [rounds EXCEPT ![s] = None] /\ UNCHANGED <<Browser!server, checkpoints, expanded>>
          /\ error' = TRUE /\ loading' = FALSE /\ faults' \in 0..Faults["browser"]
      BY <1>7, <1>b DEF Browser!RunsFail
    <2>2. Browser!RoundOK(None) /\ {loading', error'} \subseteq BOOLEAN
      BY <2>1 DEF Browser!RoundOK
    <2> QED
      BY <1>a, <2>1, <2>2, RoundStep
  <1>8. ASSUME NEW s \in Slots["browser"], Browser!Store(s)
        PROVE  Browser!BrowserInv' /\ Browser!RowsKeepTheirState
    BY <1>8, StoreStep
  <1>9. ASSUME NEW s \in Slots["browser"], NEW r \in Runs["browser"], NEW answer,
               Browser!ListOK(r, answer), Browser!Listed(s, r, answer), faults' \in 0..Faults["browser"]
        PROVE  Browser!BrowserInv' /\ Browser!RowsKeepTheirState
    <2> DEFINE ls == rounds[s].lists
               v == [runs |-> Runs["browser"], lists |-> [ls EXCEPT ![r] = answer]]
    <2>1. /\ rounds[s] # None /\ r \in DOMAIN ls
          /\ UNCHANGED <<Browser!server, checkpoints, loading, error, expanded>>
          /\ rounds' = [rounds EXCEPT ![s].lists[r] = answer]
      BY <1>9 DEF Browser!Listed
    <2>2. rounds[s] # [runs |-> None, lists |-> <<>>]
      <3> SUFFICES ASSUME rounds[s] = [runs |-> None, lists |-> <<>>] PROVE FALSE
        OBVIOUS
      <3>1. ls = <<>>
        OBVIOUS
      <3> QED
        BY <2>1, <3>1
    <2>3. rounds[s] = [runs |-> Runs["browser"], lists |-> ls] /\ ls = [q \in Runs["browser"] |-> ls[q]]
          /\ \A q \in Runs["browser"] : Browser!ListOK(q, ls[q])
      BY <2>1, <2>2 DEF Browser!BrowserInv, Browser!RoundOK
    <2>4. rounds' = [rounds EXCEPT ![s] = [rounds[s] EXCEPT !.lists = [ls EXCEPT ![r] = answer]]]
      BY <2>1
    <2> HIDE DEF ls
    <2>5. [rounds[s] EXCEPT !.lists = [ls EXCEPT ![r] = answer]] = v
      BY <2>3
    <2>6. v.lists = [q \in Runs["browser"] |-> IF q = r THEN answer ELSE ls[q]]
          /\ v = [runs |-> Runs["browser"], lists |-> v.lists]
      BY <2>3
    <2>7. rounds' = [rounds EXCEPT ![s] = v]
      BY <2>4, <2>5
    <2> HIDE DEF v
    <2>8. v.lists = [q \in Runs["browser"] |-> v.lists[q]]
          /\ \A q \in Runs["browser"] : Browser!ListOK(q, v.lists[q])
      BY <1>9, <2>3, <2>6
    <2>9. Browser!RoundOK(v)
      BY <2>6, <2>8 DEF Browser!RoundOK
    <2> QED
      BY <1>0, <1>9, <1>a, <2>1, <2>7, <2>9, RoundStep
  <1>10. ASSUME NEW s \in Slots["browser"], NEW r \in Runs["browser"], Browser!AnswerList(s, r)
         PROVE  Browser!BrowserInv' /\ Browser!RowsKeepTheirState
    <2> DEFINE answer == {Browser!Info(c) : c \in {d \in Browser!Existing : made[d] = r}}
    <2>1. Browser!Listed(s, r, answer) /\ faults' \in 0..Faults["browser"]
      BY <1>0, <1>10 DEF Browser!AnswerList
    <2>2. ASSUME NEW c \in Browser!Existing, made[c] = r
          PROVE  Browser!Known(Browser!Info(c)) /\ Browser!Info(c).run = r /\ Browser!Info(c).id = c
      <3>1. c \in DOMAIN made /\ c \in DOMAIN state /\ c \in Browser!Ckpt
        BY <1>0, <2>2 DEF Browser!Existing, Browser!Ckpt
      <3>2. made[c] \in Runs["browser"] /\ state[c] \in Browser!CkptState
        BY <1>0, <3>1
      <3>3. Browser!Info(c) = [id |-> c, run |-> made[c], state |-> state[c]]
        BY DEF Browser!Info
      <3> QED
        BY <2>2, <3>1, <3>2, <3>3 DEF Browser!Known, Browser!CkptInfo
    <2>3. Browser!ListOK(r, answer)
      BY <2>2 DEF Browser!ListOK
    <2> HIDE DEF answer
    <2> QED
      BY <1>9, <2>1, <2>3
  <1>11. ASSUME NEW s \in Slots["browser"], NEW r \in Runs["browser"], Browser!ListFails(s, r)
         PROVE  Browser!BrowserInv' /\ Browser!RowsKeepTheirState
    <2>1. Browser!Listed(s, r, Failed) /\ faults' \in 0..Faults["browser"]
      BY <1>11, <1>b DEF Browser!ListFails
    <2>2. Browser!ListOK(r, Failed)
      BY DEF Browser!ListOK
    <2> QED
      BY <1>9, <2>1, <2>2
  <1>12. CASE UNCHANGED Browser!vars
    <2>1. UNCHANGED <<made, state, deleted, rounds, checkpoints, loading, error, expanded, faults>>
          /\ Len(made) <= Len(made')
      BY <1>0, <1>12 DEF Browser!vars, Browser!server
    <2> QED
      BY <1>0, <1>a, <2>1, ServerStep
  <1> QED
    BY <1>1, <1>2, <1>3, <1>4, <1>5, <1>6, <1>7, <1>8, <1>10, <1>11, <1>12 DEF Browser!Next

\* CkptBadge says Saved of a committed checkpoint only.
LEMMA BrowserSaved == ASSUME Browser!BrowserInv PROVE Browser!SavedIsSaved
  <1> SUFFICES ASSUME NEW i \in DOMAIN checkpoints, Browser!CheckpointRow(i).badge = "Saved"
               PROVE  state[checkpoints[i].id] = "COMMITTED"
    BY DEF Browser!SavedIsSaved
  <1>1. Browser!CkptBadge(checkpoints[i].state) = "Saved" /\ Browser!Known(checkpoints[i])
    BY DEF Browser!CheckpointRow, Browser!BrowserInv
  <1>2. checkpoints[i].state \in Browser!CkptState
    BY <1>1 DEF Browser!Known, Browser!CkptInfo
  <1>3. checkpoints[i].state = "COMMITTED"
    BY <1>1, <1>2 DEF Browser!CkptBadge, Browser!CkptState
  <1> QED
    BY <1>1, <1>3 DEF Browser!Known
-----------------------------------------------------------------------------
(* The shell. *)

\* How far a page can be scrolled, and a position cut to that.
LEMMA ShellHeight ==
  ASSUME Shell!ShellAssumption, NEW p \in Paths, NEW have
  PROVE  Shell!Routed(p, have) \in Nat /\ Shell!Routed(p, have) <= Height[p] /\ Height[p] \in Nat
  <1>1. Height[p] \in Nat
    BY DEF Shell!ShellAssumption
  <1> QED
    BY <1>1 DEF Shell!Routed

\* A position cut to the height of a page.
LEMMA ShellCut ==
  ASSUME NEW y \in Nat, NEW room \in Nat
  PROVE  Shell!Cut(y, room) \in Nat /\ Shell!Cut(y, room) \in 0..room /\ Shell!Cut(y, room) <= y
         /\ (y <= room => Shell!Cut(y, room) = y)
  BY DEF Shell!Cut

\* The shell starts in its invariant.
LEMMA ShellInit ==
  ASSUME Shell!ShellAssumption, Shell!Init PROVE Shell!ShellInv
  <1>1. Shell!TypeOK
    <2>1. scrollY = 0 /\ path \in Paths /\ prevPath = path /\ Shell!Routed(path, chunks) \in Nat
      BY ShellHeight DEF Shell!Init
    <2>2. scrollPositions \in [Paths -> Nat]
      BY DEF Shell!Init
    <2>3. {menuOpen, wide, html, desktop, mobile} \subseteq BOOLEAN
      <3>1. html \in BOOLEAN /\ desktop = html /\ mobile = html /\ menuOpen = FALSE /\ wide \in BOOLEAN
        BY DEF Shell!Init
      <3> QED
        BY <3>1
    <2>4. moves \in 0..MaxMoves /\ clicks \in 0..MaxClicks
      BY DEF Shell!Init, Shell!ShellAssumption
    <2>5. scrollY \in 0..Shell!Routed(path, chunks)
      BY <2>1
    <2>6. chunks \subseteq Shell!Operator /\ panel \in {"out", "in", "leaving"}
          /\ stored \in {"none", "light", "dark"} /\ (menuOpen => panel = "in")
      BY DEF Shell!Init
    <2> QED
      BY <2>1, <2>2, <2>3, <2>4, <2>5, <2>6 DEF Shell!TypeOK
  <1>2. \A p \in Paths : left[p] = [at |-> 0, room |-> 0] /\ scrollPositions[p] = 0
    BY DEF Shell!Init
  <1>3. \A p \in Paths : left[p].at = 0 /\ left[p].room = 0 /\ Height[p] \in Nat
    BY ShellHeight DEF Shell!Init
  <1>5. Shell!Cut(0, 0) = 0
    BY DEF Shell!Cut
  <1>6. ASSUME NEW p \in Paths PROVE left[p].at <= Height[p]
    <2>1. left[p].at = 0 /\ Height[p] \in Nat
      BY <1>3
    <2> QED
      BY <2>1
  <1>7. \A p \in Paths : scrollPositions[p] = Shell!Cut(left[p].at, left[p].room)
    BY <1>2, <1>3, <1>5
  <1>4. left \in [Paths -> [at : Nat, room : Nat]]
    BY DEF Shell!Init
  <1> QED
    BY <1>1, <1>4, <1>6, <1>7 DEF Shell!ShellInv, Shell!StoredIsShown, Shell!Init

\* A step that leaves the positions and the page alone.
LEMMA ShellQuiet ==
  ASSUME Shell!ShellAssumption, Shell!ShellInv, Shell!TypeOK', Shell!StoredIsShown',
         UNCHANGED <<path, scrollPositions, left>>
  PROVE  Shell!ShellInv'
  BY DEF Shell!ShellInv, Shell!Cut

\* The way to another page.
LEMMA ShellGoto ==
  ASSUME Shell!ShellAssumption, Shell!ShellInv, NEW p \in Paths, p # path, Shell!Goto(p),
         moves' \in 0..MaxMoves
  PROVE  Shell!ShellInv' /\ Shell!ShownWhereLeft /\ Shell!MenuEnds
  <1> DEFINE room == Shell!Routed(p, chunks)
  <1>1. /\ path \in Paths /\ prevPath = path /\ scrollY \in Nat /\ scrollY <= Height[path]
        /\ room \in Nat /\ room <= Height[p] /\ Height[p] \in Nat /\ Height[path] \in Nat
    <2>1. path \in Paths /\ prevPath = path /\ scrollY \in 0..Shell!Routed(path, chunks)
      BY DEF Shell!ShellInv, Shell!TypeOK
    <2>2. Shell!Routed(path, chunks) \in Nat /\ Shell!Routed(path, chunks) <= Height[path]
          /\ Height[path] \in Nat
      BY <2>1, ShellHeight
    <2> QED
      BY <2>1, <2>2, ShellHeight
  <1>2. /\ path' = p /\ prevPath' = p /\ menuOpen' = FALSE
        /\ left' = [left EXCEPT ![path] = [at |-> scrollY, room |-> room]]
        /\ scrollPositions' = [scrollPositions EXCEPT ![path] = Shell!Cut(scrollY, room)]
        /\ scrollY' = Shell!Cut(scrollPositions'[p], room)
        /\ chunks' = chunks
    BY <1>1 DEF Shell!Goto, Shell!SaveAndRestore
  <1>3. Shell!Cut(scrollY, room) \in Nat /\ scrollPositions \in [Paths -> Nat]
    BY <1>1, ShellCut DEF Shell!ShellInv, Shell!TypeOK
  <1> HIDE DEF room
  <1>4. /\ scrollPositions' \in [Paths -> Nat] /\ scrollPositions'[p] = scrollPositions[p]
        /\ scrollPositions'[path] = Shell!Cut(scrollY, room)
        /\ \A q \in Paths \ {path} : scrollPositions'[q] = scrollPositions[q]
    BY <1>1, <1>2, <1>3
  <1>5. /\ left' \in [Paths -> [at : Nat, room : Nat]] /\ left'[p] = left[p]
        /\ left'[path] = [at |-> scrollY, room |-> room]
        /\ \A q \in Paths \ {path} : left'[q] = left[q]
    BY <1>1, <1>2 DEF Shell!ShellInv
  <1>6. scrollY' \in 0..room
    <2>1. scrollPositions'[p] \in Nat
      BY <1>4
    <2> QED
      BY <1>1, <1>2, <2>1, ShellCut
  <1>7. Shell!TypeOK'
    <2>1. scrollY' \in 0..Shell!Routed(p, chunks)
      BY <1>6 DEF room
    <2>2. scrollY' \in (0..Shell!Routed(path, chunks))'
      BY <1>2, <2>1 DEF Shell!Routed
    <2>3. panel' \in {"out", "in", "leaving"}
      BY <1>2 DEF Shell!Goto, Shell!SlideOut, Shell!ShellInv, Shell!TypeOK
    <2>4. UNCHANGED <<wide, html, desktop, mobile, stored, clicks>>
      BY DEF Shell!Goto, Shell!theme
    <2> QED
      BY <1>2, <1>4, <2>2, <2>3, <2>4 DEF Shell!ShellInv, Shell!TypeOK
  <1>8. Shell!ShellInv'
    <2>1. \A q \in Paths : left'[q].at <= Height[q]
      BY <1>1, <1>5 DEF Shell!ShellInv
    <2>2. \A q \in Paths \ {p} : scrollPositions'[q] = Shell!Cut(left'[q].at, left'[q].room)
      BY <1>4, <1>5 DEF Shell!ShellInv
    <2>3. Shell!StoredIsShown'
      BY DEF Shell!Goto, Shell!theme, Shell!ShellInv, Shell!StoredIsShown
    <2> QED
      BY <1>2, <1>5, <1>7, <2>1, <2>2, <2>3 DEF Shell!ShellInv, Shell!Cut
  <1>9. Shell!ShownWhereLeft
    <2> SUFFICES ASSUME left[p].at <= left[p].room, Shell!Routed(p, chunks) = Height[p]
                 PROVE  scrollY' = left[p].at
      BY <1>2 DEF Shell!ShownWhereLeft
    <2>1. left[p].at \in Nat /\ left[p].room \in Nat /\ left[p].at <= Height[p]
      BY DEF Shell!ShellInv
    <2>2. scrollPositions[p] = left[p].at
      BY <1>2, <2>1, ShellCut DEF Shell!ShellInv
    <2>3. room = Height[p]
      BY DEF room
    <2>4. scrollY' = Shell!Cut(left[p].at, room) /\ left[p].at <= room
      BY <1>2, <1>4, <2>1, <2>2, <2>3
    <2> QED
      BY <1>1, <2>1, <2>4, ShellCut
  <1> QED
    BY <1>2, <1>8, <1>9 DEF Shell!MenuEnds

\* The page is loaded again.
LEMMA ShellReload ==
  ASSUME Shell!ShellAssumption, Shell!ShellInv, Shell!Reload PROVE Shell!ShellInv'
  <1>1. /\ path' = path /\ prevPath' = path /\ chunks' = {} /\ stored' = stored /\ wide' = wide
        /\ clicks' = clicks
        /\ html' = (stored = "dark") /\ desktop' = html' /\ mobile' = html'
        /\ menuOpen' = FALSE /\ panel' = "out" /\ moves < MaxMoves /\ moves' = moves + 1
        /\ left' = [p \in Paths |-> [at |-> 0, room |-> 0]]
    BY DEF Shell!Reload
  <1>2. path \in Paths /\ scrollY \in Nat /\ Shell!Routed(path, {}) \in Nat
    <2>1. path \in Paths /\ scrollY \in 0..Shell!Routed(path, chunks)
      BY DEF Shell!ShellInv, Shell!TypeOK
    <2> QED
      BY <2>1, ShellHeight
  <1>3. PICK y \in {0, Shell!Cut(scrollY, Shell!Routed(path, {}))} :
          scrollY' = y /\ scrollPositions' = [[p \in Paths |-> 0] EXCEPT ![path] = y]
    BY DEF Shell!Reload
  <1>4. y \in 0..Shell!Routed(path, {})
    BY <1>2, <1>3, ShellCut
  <1>5. scrollY' \in (0..Shell!Routed(path, chunks))'
    BY <1>1, <1>3, <1>4 DEF Shell!Routed
  <1>6. scrollPositions' \in [Paths -> Nat] /\ \A p \in Paths \ {path} : scrollPositions'[p] = 0
    BY <1>2, <1>3, <1>4
  <1>7. \A p \in Paths : left'[p].at = 0 /\ left'[p].room = 0 /\ Height[p] \in Nat
    BY <1>1, ShellHeight
  <1>13. Shell!Cut(0, 0) = 0
    BY DEF Shell!Cut
  <1>8. left' \in [Paths -> [at : Nat, room : Nat]]
    BY <1>1
  <1>9. moves' \in 0..MaxMoves
    BY <1>1 DEF Shell!ShellInv, Shell!TypeOK, Shell!ShellAssumption
  <1>10. Shell!TypeOK'
    BY <1>1, <1>2, <1>5, <1>6, <1>9 DEF Shell!ShellInv, Shell!TypeOK
  <1>11. Shell!StoredIsShown'
    BY <1>1 DEF Shell!StoredIsShown
  <1>12. \A p \in Paths \ {path} : scrollPositions'[p] = Shell!Cut(left'[p].at, left'[p].room)
    BY <1>6, <1>7, <1>13
  <1>14. \A p \in Paths : left'[p].at <= Height[p]
    BY <1>7
  <1> QED
    BY <1>1, <1>8, <1>10, <1>11, <1>12, <1>14 DEF Shell!ShellInv, Shell!Cut

\* Every step of the shell keeps its invariant, and a change of the path is one of ShellGoto.
LEMMA ShellNext ==
  ASSUME Shell!ShellAssumption, Shell!ShellInv, [Shell!Next]_(Shell!vars)
  PROVE  Shell!ShellInv' /\ Shell!ShownWhereLeft /\ Shell!MenuEnds
  <1> USE DEF Shell!Click
  <1>0. Shell!TypeOK /\ Shell!StoredIsShown /\ moves \in 0..MaxMoves /\ clicks \in 0..MaxClicks
        /\ MaxMoves \in Nat /\ MaxClicks \in Nat
    BY DEF Shell!ShellInv, Shell!TypeOK, Shell!ShellAssumption
  <1>a. clicks < MaxClicks /\ clicks' = clicks + 1 => clicks' \in 0..MaxClicks
    BY <1>0
  <1>b. moves < MaxMoves /\ moves' = moves + 1 => moves' \in 0..MaxMoves
    BY <1>0
  <1>c. path' = path => Shell!ShownWhereLeft /\ Shell!MenuEnds
    BY DEF Shell!ShownWhereLeft, Shell!MenuEnds, Shell!Arrives
  <1>d. ASSUME UNCHANGED Shell!scroll, Shell!TypeOK', Shell!StoredIsShown'
        PROVE  Shell!ShellInv' /\ Shell!ShownWhereLeft /\ Shell!MenuEnds
    BY <1>c, <1>d, ShellQuiet DEF Shell!scroll
  <1>e. UNCHANGED <<path, chunks>> => (Shell!Routed(path, chunks))' = Shell!Routed(path, chunks)
    BY DEF Shell!Routed
  <1>1. CASE Shell!Redirect
    <2>1. "/demo" \in Paths /\ "/demo" # path /\ Shell!Goto("/demo") /\ moves' \in 0..MaxMoves
      BY <1>0, <1>1 DEF Shell!Redirect, Shell!localOperatorRoute, Shell!Operator, Shell!ShellAssumption
    <2> QED
      BY <2>1, ShellGoto
  <1>2. ASSUME NEW p \in Paths, Shell!Navigate(p)
        PROVE  Shell!ShellInv' /\ Shell!ShownWhereLeft /\ Shell!MenuEnds
    BY <1>2, <1>b, ShellGoto DEF Shell!Navigate
  <1>3. CASE Shell!Loaded
    <2>1. /\ UNCHANGED <<path, prevPath, scrollPositions, scrollY, left, menuOpen, panel>>
          /\ UNCHANGED <<html, stored, desktop, mobile, wide, moves, clicks>>
          /\ path \in Shell!Operator /\ path \notin chunks /\ ~Hosted /\ chunks' = chunks \cup {path}
      BY <1>3 DEF Shell!Loaded, Shell!menu, Shell!theme
    <2>2. scrollY = 0 /\ path \in Paths
      BY <1>0, <2>1 DEF Shell!TypeOK, Shell!Routed
    <2>3. (Shell!Routed(path, chunks))' \in Nat
      BY <2>1, <2>2, ShellHeight DEF Shell!Routed
    <2>4. scrollY' \in (0..Shell!Routed(path, chunks))'
      BY <2>1, <2>2, <2>3
    <2>5. chunks' \subseteq Shell!Operator
      BY <1>0, <2>1 DEF Shell!TypeOK
    <2>6. Shell!TypeOK'
      BY <1>0, <2>1, <2>4, <2>5 DEF Shell!TypeOK
    <2>7. Shell!StoredIsShown'
      BY <1>0, <2>1 DEF Shell!StoredIsShown
    <2> QED
      BY <1>c, <2>1, <2>6, <2>7, ShellQuiet
  <1>4. ASSUME NEW y \in 0..Shell!Routed(path, chunks), Shell!Scroll(y)
        PROVE  Shell!ShellInv' /\ Shell!ShownWhereLeft /\ Shell!MenuEnds
    <2>1. /\ UNCHANGED <<path, prevPath, scrollPositions, chunks, left, menuOpen, panel>>
          /\ UNCHANGED <<html, stored, desktop, mobile, wide, moves, clicks>>
          /\ scrollY' = y
      BY <1>4 DEF Shell!Scroll, Shell!menu, Shell!theme
    <2>2. scrollY' \in (0..Shell!Routed(path, chunks))'
      BY <2>1, <1>e
    <2>3. Shell!TypeOK'
      BY <1>0, <2>1, <2>2 DEF Shell!TypeOK
    <2>4. Shell!StoredIsShown'
      BY <1>0, <2>1 DEF Shell!StoredIsShown
    <2> QED
      BY <1>c, <2>1, <2>3, <2>4, ShellQuiet
  \* What the other steps leave alone, and what they may change.
  <1>f. ASSUME UNCHANGED Shell!scroll, clicks' \in 0..MaxClicks, UNCHANGED moves,
               panel' \in {"out", "in", "leaving"}, menuOpen' => panel' = "in",
               menuOpen' \in BOOLEAN, wide' \in BOOLEAN, html' \in BOOLEAN,
               desktop' \in BOOLEAN, mobile' \in BOOLEAN,
               stored' \in {"none", "light", "dark"}, Shell!StoredIsShown'
        PROVE  Shell!ShellInv' /\ Shell!ShownWhereLeft /\ Shell!MenuEnds
    <2>1. UNCHANGED <<path, prevPath, scrollPositions, scrollY, chunks, left>>
      BY <1>f DEF Shell!scroll
    <2>2. scrollY' \in (0..Shell!Routed(path, chunks))'
      BY <1>0, <2>1, <1>e DEF Shell!TypeOK
    <2>3. Shell!TypeOK'
      BY <1>0, <1>f, <2>1, <2>2 DEF Shell!TypeOK
    <2> QED
      BY <1>d, <1>f, <2>3
  <1>g. /\ menuOpen \in BOOLEAN /\ wide \in BOOLEAN /\ html \in BOOLEAN /\ desktop \in BOOLEAN
        /\ mobile \in BOOLEAN
        /\ panel \in {"out", "in", "leaving"} /\ (menuOpen => panel = "in")
        /\ stored \in {"none", "light", "dark"}
        /\ html = (stored = "dark")
    BY <1>0 DEF Shell!TypeOK, Shell!StoredIsShown
  <1>5. CASE Shell!ToggleMenu
    <2>1. /\ UNCHANGED Shell!scroll /\ UNCHANGED <<html, stored, desktop, wide, moves>>
          /\ clicks' \in 0..MaxClicks
          /\ menuOpen' = ~menuOpen /\ mobile' = (IF panel = "out" THEN html ELSE mobile)
          /\ panel' = IF menuOpen THEN (IF panel = "in" THEN "leaving" ELSE panel) ELSE "in"
      BY <1>5, <1>a DEF Shell!ToggleMenu, Shell!SlideOut
    <2>2. mobile' \in BOOLEAN /\ menuOpen' \in BOOLEAN
      BY <2>1, <1>g
    <2>3. panel' \in {"out", "in", "leaving"} /\ (menuOpen' => panel' = "in")
      BY <2>1, <1>g
    <2>4. Shell!StoredIsShown'
      BY <1>0, <2>1 DEF Shell!StoredIsShown
    <2> QED
      BY <1>f, <1>g, <2>1, <2>2, <2>3, <2>4
  <1>6. CASE Shell!CloseMenu
    <2>1. /\ UNCHANGED Shell!scroll /\ UNCHANGED <<html, stored, desktop, mobile, wide, moves, clicks>>
          /\ menuOpen' = FALSE /\ panel' = IF panel = "in" THEN "leaving" ELSE panel
      BY <1>6 DEF Shell!CloseMenu, Shell!SlideOut, Shell!theme
    <2>2. Shell!StoredIsShown'
      BY <1>0, <2>1 DEF Shell!StoredIsShown
    <2>3. panel' \in {"out", "in", "leaving"}
      BY <2>1, <1>g
    <2> QED
      BY <1>0, <1>f, <1>g, <2>1, <2>2, <2>3
  <1>7. CASE Shell!PanelGone
    <2>1. /\ UNCHANGED Shell!scroll
          /\ UNCHANGED <<html, stored, desktop, mobile, menuOpen, wide, moves, clicks>>
          /\ panel = "leaving" /\ panel' = "out"
      BY <1>7 DEF Shell!PanelGone, Shell!theme
    <2>2. Shell!StoredIsShown'
      BY <1>0, <2>1 DEF Shell!StoredIsShown
    <2>3. ~menuOpen'
      BY <1>g, <2>1
    <2> QED
      BY <1>0, <1>f, <1>g, <2>1, <2>2, <2>3
  <1>8. CASE Shell!Resize
    <2>1. /\ UNCHANGED Shell!scroll /\ UNCHANGED <<html, stored, desktop, mobile, menuOpen, panel, moves>>
          /\ wide' = ~wide /\ clicks' \in 0..MaxClicks
      BY <1>8, <1>a DEF Shell!Resize, Shell!theme, Shell!menu
    <2>2. Shell!StoredIsShown'
      BY <1>0, <2>1 DEF Shell!StoredIsShown
    <2>3. wide' \in BOOLEAN
      BY <1>g, <2>1
    <2> QED
      BY <1>0, <1>f, <1>g, <2>1, <2>2, <2>3
  <1>h. ASSUME NEW dark \in BOOLEAN, Shell!toggle(dark)
        PROVE  UNCHANGED Shell!scroll /\ UNCHANGED <<menuOpen, panel, wide, moves>>
               /\ html' \in BOOLEAN /\ stored' \in {"none", "light", "dark"} /\ Shell!StoredIsShown'
    <2>1. html' = ~dark /\ stored' = (IF dark THEN "light" ELSE "dark")
          /\ UNCHANGED <<Shell!scroll, Shell!menu, wide, moves>>
      BY <1>h DEF Shell!toggle
    <2>2. CASE dark
      BY <2>1, <2>2 DEF Shell!StoredIsShown, Shell!menu
    <2>3. CASE ~dark
      BY <2>1, <2>3 DEF Shell!StoredIsShown, Shell!menu
    <2> QED
      BY <2>2, <2>3
  <1>9. CASE Shell!ToggleDesktop
    <2>1. Shell!toggle(desktop) /\ clicks' \in 0..MaxClicks /\ desktop' = ~desktop /\ mobile' = mobile
      BY <1>9, <1>a DEF Shell!ToggleDesktop
    <2>2. desktop' \in BOOLEAN
      BY <1>g, <2>1
    <2> QED
      BY <1>f, <1>g, <1>h, <2>1, <2>2
  <1>10. CASE Shell!ToggleMobile
    <2>1. Shell!toggle(mobile) /\ clicks' \in 0..MaxClicks /\ mobile' = ~mobile /\ desktop' = desktop
      BY <1>10, <1>a DEF Shell!ToggleMobile
    <2>2. mobile' \in BOOLEAN
      BY <1>g, <2>1
    <2> QED
      BY <1>f, <1>g, <1>h, <2>1, <2>2
  <1>11. CASE Shell!Reload
    <2>1. path' = path
      BY <1>11 DEF Shell!Reload
    <2> QED
      BY <1>11, <1>c, <2>1, ShellReload
  <1>12. CASE UNCHANGED Shell!vars
    <2>1. UNCHANGED Shell!scroll
          /\ UNCHANGED <<menuOpen, panel, html, stored, desktop, mobile, wide, moves, clicks>>
      BY <1>12 DEF Shell!vars, Shell!menu, Shell!theme
    <2>2. Shell!StoredIsShown'
      BY <1>0, <2>1 DEF Shell!StoredIsShown
    <2> QED
      BY <1>0, <1>f, <1>g, <2>1, <2>2
  <1> QED
    BY <1>1, <1>2, <1>3, <1>4, <1>5, <1>6, <1>7, <1>8, <1>9, <1>10, <1>11, <1>12 DEF Shell!Next
-----------------------------------------------------------------------------
(* The pages together. *)

\* The inductive invariants of the pages.
PagesInv ==
  /\ On("console") => Console!ConsoleInv
  /\ On("two runs") => TwoRuns!ConsoleInv
  /\ On("jumps") => Jumps!ConsoleInv
  /\ On("browser") => Browser!BrowserInv
  /\ On("health") => Health!WatchInv /\ Health!OneRoundInv
  /\ On("overlap") => Overlap!WatchInv
  /\ On("performance") => Performance!WatchInv
  /\ On("demo") => Demo!Lists /\ Demo!Types /\ Demo!Recovery
  /\ On("prompt") => Prompt!Lists /\ Prompt!Types /\ Prompt!Recovery /\ Prompt!PromptInv
  /\ On("shell") => Shell!ShellInv

\* A visit starts in an initial state of its page's module.
LEMMA StartOf ==
  ASSUME Init
  PROVE  /\ On("console") => Console!InitFrom(Starts["console"])
         /\ On("two runs") => TwoRuns!InitFrom(Starts["two runs"])
         /\ On("jumps") => Jumps!InitFrom(Starts["jumps"])
         /\ On("browser") => Browser!Init
         /\ On("health") => Health!Init
         /\ On("overlap") => Overlap!Init
         /\ On("performance") => Performance!Init
         /\ On("demo") => Demo!Init
         /\ On("prompt") => Prompt!Init
         /\ On("shell") => Shell!Init
  BY DEF Init, On

\* Every step is one of the page that is visited, or changes nothing.
LEMMA StepKinds ==
  ASSUME [Next]_vars
  PROVE  /\ visit' = visit
         /\ ConsoleStep \/ BrowserStep \/ MetricsStep \/ DemoStep \/ ShellStep \/ UNCHANGED vars
  BY DEF Next, vars

\* What a step is to the page that is visited.
LEMMA StepOf ==
  ASSUME [Next]_vars
  PROVE  /\ visit' = visit
         /\ On("console") => [Console!Next]_(Console!vars)
         /\ On("two runs") => [TwoRuns!Next]_(TwoRuns!vars)
         /\ On("jumps") => [Jumps!Next]_(Jumps!vars)
         /\ On("browser") => [Browser!Next]_(Browser!vars)
         /\ On("health") => [Health!Next]_(Health!vars)
         /\ On("overlap") => [Overlap!Next]_(Overlap!vars)
         /\ On("performance") => [Performance!Next]_(Performance!vars)
         /\ On("demo") => [Demo!Next]_(Demo!vars)
         /\ On("prompt") => [Prompt!Next]_(Prompt!vars)
         /\ On("shell") => [Shell!Next]_(Shell!vars)
  <1>0. visit' = visit
    BY StepKinds
  <1>1. CASE ConsoleStep
    BY <1>0, <1>1 DEF ConsoleStep, On
  <1>2. CASE BrowserStep
    BY <1>0, <1>2 DEF BrowserStep, On
  <1>3. CASE MetricsStep
    BY <1>0, <1>3 DEF MetricsStep, On
  <1>4. CASE DemoStep
    BY <1>0, <1>4 DEF DemoStep, On
  <1>5. CASE ShellStep
    BY <1>0, <1>5 DEF ShellStep, On
  <1>6. CASE UNCHANGED vars
    <2>1. UNCHANGED Console!vars /\ UNCHANGED TwoRuns!vars /\ UNCHANGED Jumps!vars
      BY <1>6 DEF vars, feeds, console, Console!vars, Console!server, Console!page,
                  TwoRuns!vars, TwoRuns!server, TwoRuns!page, Jumps!vars, Jumps!server, Jumps!page
    <2>2. UNCHANGED Health!vars /\ UNCHANGED Overlap!vars /\ UNCHANGED Performance!vars
      BY <1>6 DEF vars, feeds, metrics, Health!vars, Health!server, Health!page, Overlap!vars,
                  Overlap!server, Overlap!page, Performance!vars, Performance!server, Performance!page
    <2>3. UNCHANGED Demo!vars /\ UNCHANGED Prompt!vars
      BY <1>6 DEF vars, demo, Demo!vars, Demo!feed, Demo!kill, Demo!refs,
                  Prompt!vars, Prompt!feed, Prompt!kill, Prompt!refs
    <2>4. UNCHANGED Browser!vars /\ UNCHANGED Shell!vars
      BY <1>6 DEF vars, feeds, browser, shell, Browser!vars, Browser!server,
                  Shell!vars, Shell!scroll, Shell!menu, Shell!theme
    <2> QED
      BY <1>0, <2>1, <2>2, <2>3, <2>4
  <1> QED
    BY <1>1, <1>2, <1>3, <1>4, <1>5, <1>6, StepKinds

\* A visit starts in the invariant of its page.
LEMMA PagesInit == Init => PagesInv
  <1> SUFFICES ASSUME Init PROVE PagesInv
    OBVIOUS
  <1> USE PagesAssumption DEF PagesAssumption
  <1>1. On("console") => Console!ConsoleInv
    BY StartOf, Console!InitInv
  <1>2. On("two runs") => TwoRuns!ConsoleInv
    BY StartOf, TwoRuns!InitInv
  <1>3. On("jumps") => Jumps!ConsoleInv
    BY StartOf, Jumps!InitInv
  <1>4. On("health") => Health!WatchInv /\ Health!OneRoundInv
    BY StartOf, Health!WatchInit, Health!OneRoundInit
  <1>5. On("overlap") => Overlap!WatchInv
    BY StartOf, Overlap!WatchInit
  <1>6. On("performance") => Performance!WatchInv
    BY StartOf, Performance!WatchInit
  <1>7. On("demo") => Demo!Lists /\ Demo!Types /\ Demo!Recovery
    BY StartOf, Demo!DemoInit
  <1>8. On("prompt") => Prompt!Lists /\ Prompt!Types /\ Prompt!Recovery /\ Prompt!PromptInv
    BY StartOf, Prompt!DemoInit, Prompt!PromptInit
  <1>9. On("browser") => Browser!BrowserInv
    BY StartOf, BrowserInit
  <1>10. On("shell") => Shell!ShellInv
    BY StartOf, ShellInit
  <1> QED
    BY <1>1, <1>2, <1>3, <1>4, <1>5, <1>6, <1>7, <1>8, <1>9, <1>10 DEF PagesInv

\* A step keeps the invariant of the page that is visited.
LEMMA PagesNext == PagesInv /\ [Next]_vars => PagesInv'
  <1> SUFFICES ASSUME PagesInv, [Next]_vars PROVE PagesInv'
    OBVIOUS
  <1> USE PagesAssumption DEF PagesAssumption
  <1>0. \A v : On(v)' => On(v)
    BY StepOf DEF On
  <1>1. On("console") => Console!ConsoleInv'
    BY StepOf, Console!NextInv DEF PagesInv
  <1>2. On("two runs") => TwoRuns!ConsoleInv'
    BY StepOf, TwoRuns!NextInv DEF PagesInv
  <1>3. On("jumps") => Jumps!ConsoleInv'
    BY StepOf, Jumps!NextInv DEF PagesInv
  <1>4. On("health") => Health!WatchInv' /\ Health!OneRoundInv'
    BY StepOf, Health!WatchStep, Health!OneRoundStep DEF PagesInv, OneAtATime
  <1>5. On("overlap") => Overlap!WatchInv'
    BY StepOf, Overlap!WatchStep DEF PagesInv
  <1>6. On("performance") => Performance!WatchInv'
    BY StepOf, Performance!WatchStep DEF PagesInv
  <1>7. On("demo") => Demo!Lists' /\ Demo!Types' /\ Demo!Recovery'
    BY StepOf, Demo!DemoNext DEF PagesInv
  <1>8. On("prompt") => Prompt!Lists' /\ Prompt!Types' /\ Prompt!Recovery' /\ Prompt!PromptInv'
    BY StepOf, Prompt!DemoNext, Prompt!PartsMakeInv, Prompt!PromptStep DEF PagesInv
  <1>9. On("browser") => Browser!BrowserInv'
    BY StepOf, BrowserNext DEF PagesInv
  <1>10. On("shell") => Shell!ShellInv'
    BY StepOf, ShellNext DEF PagesInv
  <1> QED
    BY <1>0, <1>1, <1>2, <1>3, <1>4, <1>5, <1>6, <1>7, <1>8, <1>9, <1>10 DEF PagesInv

\* The inductive invariant of the pages holds, for every value of their constants.
THEOREM PagesInvariant == Spec => []PagesInv
  BY PagesInit, PagesNext, PTL DEF Spec

\* RunsPage, RunDetailPage, NewRunModal: what an operator does goes to the run that is
\* displayed, is sent once, and is accepted if the run has not changed since, except for
\* three buttons the server never honours; for any number of runs, calls in flight, changes
\* and failures.
THEOREM ActionsReachWhatIsShown == Spec => []ActsOnWhatItShows
  <1>1. PagesInv => ActsOnWhatItShows
    BY Console!InvOffered, TwoRuns!InvOffered, TwoRuns!InvActs DEF PagesInv, ActsOnWhatItShows
  <1> QED
    BY <1>1, PagesInvariant, PTL

\* What the visited page holds is well typed, whatever overlaps, fails or comes late.
THEOREM PagesAreTyped == Spec => []TypeOK
  <1>1. PagesInv => TypeOK
    <2>1. PagesInv => (On("demo") => Demo!TypeOK)
      BY PagesAssumption, Demo!PartsMakeInv DEF PagesInv, PagesAssumption, Demo!DemoInv
    <2> QED
      BY <2>1 DEF PagesInv, TypeOK, Console!ConsoleInv, TwoRuns!ConsoleInv, Browser!BrowserInv,
                  Health!WatchInv, Performance!WatchInv, Shell!ShellInv
  <1> QED
    BY <1>1, PagesInvariant, PTL

\* CkptBadge: what a page shows as saved is committed at the server now, however old the
\* answer; ThemeToggle: the theme shown is the one that is stored.
THEOREM SavedIsStored == Spec => []SavedIsSaved
  <1>1. PagesInv => SavedIsSaved
    BY Console!InvSaved, TwoRuns!InvSaved, BrowserSaved DEF PagesInv, SavedIsSaved, Shell!ShellInv
  <1> QED
    BY <1>1, PagesInvariant, PTL

\* Once the spinner is gone a page shows an error or all it requires, rows newest first,
\* bars within their track, and the item of the menu that belongs to it; for any number of
\* overlapping rounds and failing calls.
THEOREM NothingIsMissing == Spec => []NothingMissing
  <1>1. PagesInv => NothingMissing
    <2>1. Shell!MarksThePage
      BY DEF Shell!MarksThePage, Shell!mobileNavItems, Shell!isActive, Shell!StartsWith
    <2>2. PagesInv => (On("console") => Console!NeverBlank) /\ (On("two runs") => TwoRuns!NeverBlank)
      BY Console!InvScreens, TwoRuns!InvScreens DEF PagesInv
    <2>3. PagesInv => (On("health") => Health!BarsInRange) /\ (On("performance") => Performance!BarsInRange)
      BY PagesAssumption, Health!InvBars, Performance!InvBars DEF PagesInv, PagesAssumption
    <2> QED
      BY <2>1, <2>2, <2>3 DEF PagesInv, NothingMissing, Browser!BrowserInv
  <1> QED
    BY <1>1, PagesInvariant, PTL

\* DemoPage: save points increase, a pending timeout restores a save of the run on the
\* screen, buttons, banner and cards agree and keys are unique, whatever click overtakes
\* whatever effect; and a recovery loses less than one interval when none does.
THEOREM RecoveryIsFromASave == Spec => []RecoversFromASave
  <1>1. PagesInv => RecoversFromASave
    BY PagesAssumption, Demo!PartsMakeInv, Demo!InvRecovers
    DEF PagesInv, RecoversFromASave, PagesAssumption, Prompt!PromptInv
  <1> QED
    BY <1>1, PagesInvariant, PTL

\* Whatever is clicked on however old a display, runs move as RunLifecycle does.
THEOREM RunsKeepToTheLifecycle == Spec => RunFollowsLifecycle
  <1> DEFINE Moves == /\ On("console") => Console!RunFollowsLifecycle
                      /\ On("two runs") => TwoRuns!RunFollowsLifecycle
  <1>1. PagesInv /\ [Next]_vars => Moves
    BY StepOf, Console!LifecycleStep, TwoRuns!LifecycleStep DEF PagesInv
  <1> HIDE DEF Moves
  <1>2. Spec => [][Moves]_vars
    BY <1>1, PagesInvariant, PTL DEF Spec
  <1> QED
    BY <1>2 DEF RunFollowsLifecycle, Moves

\* While rounds do not overlap, HealthPage replaces nothing by something older, and a round
\* that ends without an error is all it shows; the demo's counter moves back only on a
\* restart or to the save a recovery restores.
THEOREM NothingGoesBack == Spec => NeverGoesBack
  <1> DEFINE Ahead == /\ On("health") => Health!NeverGoesBack /\ Health!EndsAsOneRound
                      /\ On("demo") => Demo!CounterMovesBackOnlyToASave
  <1>1. PagesInv /\ [Next]_vars => Ahead
    BY PagesAssumption, StepOf, Health!NeverOlderStep, Health!EndsStep, Demo!PartsMakeInv, Demo!CounterStep
    DEF PagesInv, PagesAssumption, OneAtATime
  <1> HIDE DEF Ahead
  <1>2. Spec => [][Ahead]_vars
    BY <1>1, PagesInvariant, PTL DEF Spec
  <1> QED
    BY <1>2 DEF NeverGoesBack, Ahead

\* A poll that moves the rows of the checkpoint browser neither opens nor closes one; a page
\* is shown where it was left, if the page it was left for was high enough and it has its
\* full height at once; a change of the path leaves no menu open.
THEOREM PlacesAreKept == Spec => KeepsItsPlace
  <1> DEFINE Places == /\ On("browser") => Browser!RowsKeepTheirState
                       /\ On("shell") => Shell!ShownWhereLeft /\ Shell!MenuEnds
  <1>1. PagesInv /\ [Next]_vars => Places
    BY PagesAssumption, StepOf, BrowserNext, ShellNext DEF PagesInv, PagesAssumption
  <1> HIDE DEF Places
  <1>2. Spec => [][Places]_vars
    BY <1>1, PagesInvariant, PTL DEF Spec
  <1> QED
    BY <1>2 DEF KeepsItsPlace, Places
=============================================================================
