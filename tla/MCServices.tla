------------------------------ MODULE MCServices ------------------------------
(* Services for TLC. *)
EXTENDS Services, TLC

CONSTANTS r1, r2, c1, c2, c3, w0, w1, a, b

\* Two checkpoints of one run and one of another.
Owners == [c \in Ckpt |-> IF c = c3 THEN r2 ELSE r1]
\* Two checkpoints of one run and one of another, a file more than one listing holds.
File(r, c, n) == [run |-> r, ckpt |-> c, name |-> n]
Files == <<File("r1", "c1", "_manifest.json"), File("r1", "c1", "shard.bin"),
           File("r1", "c2", "_manifest.json"), File("r2", "c1", "shard.bin")>>

Interchangeable == Permutations(Tab) \cup Permutations({c1, c2})
=============================================================================
