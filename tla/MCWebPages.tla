------------------------------ MODULE MCWebPages ------------------------------
(* WebPages for TLC: what each visit may use, and how often. *)
EXTENDS WebPages, TLC

CONSTANTS r1, r2, s1, s2, w1, w2

AllVisits == {"console", "two runs", "jumps", "browser", "health", "overlap", "performance",
              "demo", "prompt", "shell"}

\* One run in any state, or two of which there may be none or both; then two that jumps
\* lead from one to the other.
SomeRuns == [v \in AllVisits |-> IF v = "console" THEN {r1} ELSE {r1, r2}]
SomeStarts == [v \in AllVisits |->
  CASE v = "console" -> {"NONE", "CREATED", "RUNNING", "CHECKPOINTING", "FAILED", "CANCELLED"}
    [] v = "two runs" -> {"NONE", "RUNNING"}
    [] OTHER -> {"RUNNING"}]
\* Two calls or rounds at once, where they are to overlap.
SomeSlots == [v \in AllVisits |->
  IF v \in {"console", "two runs", "jumps", "overlap"} THEN {s1, s2} ELSE {s1}]
SomeWorkers == [v \in AllVisits |-> IF v \in {"demo", "prompt"} THEN {w1, w2} ELSE {w1}]
SomeChanges == [v \in AllVisits |->
  CASE v \in {"console", "health"} -> 2 [] v = "performance" -> 4 [] OTHER -> 1]
SomeFaults == [v \in AllVisits |-> CASE v = "health" -> 2 [] v = "jumps" -> 0 [] OTHER -> 1]

\* For liveness: all that may overlap does, and the metrics change and fail less.
OneRun == [v \in AllVisits |-> IF v = "browser" THEN {r1} ELSE {r1, r2}]
TwoSlots == [v \in AllVisits |-> IF v = "health" THEN {s1} ELSE {s1, s2}]
OneChange == [v \in AllVisits |-> 1]
FewFaults == [v \in AllVisits |-> IF v \in {"browser", "performance"} THEN 1 ELSE 0]

\* Two long pages and a short one; one operator page and one run of it.
SomePaths == {"/", "/demo", "/benchmarks", "/runs", "/runs/1"}
Heights == [p \in SomePaths |-> CASE p = "/" -> 3 [] p = "/benchmarks" -> 1 [] OTHER -> 2]

Interchangeable == Permutations({s1, s2}) \cup Permutations({w1, w2})
=============================================================================
