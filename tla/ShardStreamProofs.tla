-------------------------- MODULE ShardStreamProofs --------------------------
(***************************************************************************)
(* Proofs about the streaming write: for any number of calls of a shard,   *)
(* sizes of chunks, parts and channel, and storage errors and resets       *)
(* wherever they come.                                                     *)
(***************************************************************************)
EXTENDS ShardStream, FiniteSetTheorems, SequenceTheorems, TLAPS

-----------------------------------------------------------------------------
(* Slices. *)

\* The bytes of a slice are as many as it is long.
LEMMA BytesType ==
  ASSUME NEW a \in Nat, NEW n \in Nat
  PROVE  Bytes(a, n) \in Seq(Nat) /\ Len(Bytes(a, n)) = n
  BY DEF Bytes

\* An empty slice has no bytes.
LEMMA NoBytes == \A a : Bytes(a, 0) = <<>>
  BY DEF Bytes

\* A slice that begins where another ends continues it.
LEMMA BytesJoin ==
  ASSUME NEW a \in Nat, NEW n \in Nat
  PROVE  Bytes(0, a) \o Bytes(a, n) = Bytes(0, a + n)
  <1>1. /\ Bytes(0, a) \in Seq(Nat) /\ Len(Bytes(0, a)) = a
        /\ Bytes(a, n) \in Seq(Nat) /\ Len(Bytes(a, n)) = n
        /\ Bytes(0, a + n) \in Seq(Nat) /\ Len(Bytes(0, a + n)) = a + n
    BY BytesType
  <1> DEFINE s == Bytes(0, a) \o Bytes(a, n)
  <1>2. /\ s \in Seq(Nat) /\ Len(s) = a + n
        /\ \A i \in 1..(a + n) : s[i] = IF i <= a THEN Bytes(0, a)[i] ELSE Bytes(a, n)[i - a]
    <2> DEFINE x == Bytes(0, a)
               y == Bytes(a, n)
    <2> HIDE DEF x, y
    <2>1. /\ x \o y \in Seq(Nat) /\ Len(x \o y) = Len(x) + Len(y)
          /\ \A i \in 1..(Len(x) + Len(y)) : (x \o y)[i] = IF i <= Len(x) THEN x[i] ELSE y[i - Len(x)]
      BY <1>1, ConcatProperties DEF x, y
    <2> QED
      BY <1>1, <2>1 DEF x, y
  <1> HIDE DEF s
  <1>3. ASSUME NEW i \in 1..(a + n) PROVE s[i] = Bytes(0, a + n)[i]
    <2>0. i \in Nat /\ (i <= a \/ i > a)
      OBVIOUS
    <2>1. CASE i <= a
      <3>1. s[i] = Bytes(0, a)[i]
        BY <1>2, <2>1
      <3> QED
        BY <2>1, <3>1 DEF Bytes
    <2>2. CASE i > a
      <3>1. s[i] = Bytes(a, n)[i - a]
        BY <1>2, <2>2
      <3> QED
        BY <2>2, <3>1 DEF Bytes
    <2> QED
      BY <2>0, <2>1, <2>2
  <1> QED
    BY <1>1, <1>2, <1>3, SeqEqual DEF s

\* Concatenation may be regrouped.
LEMMA Regroup ==
  ASSUME NEW s \in Seq(Nat), NEW t \in Seq(Nat), NEW u \in Seq(Nat)
  PROVE  s \o (t \o u) = (s \o t) \o u
  BY ConcatAssociative

Item == Slice \cup {Error}

\* A slice put at the end continues a line.
LEMMA LineGrows ==
  ASSUME NEW q \in Seq(Item), NEW x \in Item, NEW a \in Nat, NEW b \in Nat, StreamAssumption,
         InTurn(q, a), UpTo(q, a, b), q # <<>> => q[Len(q)] # Error, x # Error => x.from = b
  PROVE  /\ Append(q, x) \in Seq(Item) /\ Append(q, x) # <<>> /\ Append(q, x)[Len(Append(q, x))] = x
         /\ InTurn(Append(q, x), a)
         /\ \A e : (x # Error => End(x) = e) => UpTo(Append(q, x), a, e)
  <1> DEFINE p == Append(q, x)
             n == Len(q)
  <1>1. p \in Seq(Item) /\ Len(p) = n + 1 /\ p[n + 1] = x /\ (\A i \in 1..n : p[i] = q[i]) /\ n \in Nat
    OBVIOUS
  <1>2. p # <<>> /\ p[Len(p)] = x
    BY <1>1
  <1>3. q = <<>> <=> n = 0
    OBVIOUS
  <1>4. p[1] # Error => p[1].from = a
    BY <1>1, <1>3 DEF InTurn, UpTo
  <1>5. ASSUME NEW i \in 1..n PROVE p[i] # Error /\ (p[i + 1] # Error => p[i + 1].from = End(p[i]))
    <2>1. CASE i = n
      BY <1>1, <1>3, <2>1 DEF UpTo
    <2>2. CASE i # n
      <3>1. i \in 1..(n - 1) /\ p[i] = q[i] /\ p[i + 1] = q[i + 1]
        BY <1>1, <2>2
      <3> QED
        BY <3>1 DEF InTurn
    <2> QED
      BY <2>1, <2>2
  <1> HIDE DEF p
  <1>6. InTurn(p, a)
    BY <1>1, <1>4, <1>5 DEF InTurn
  <1>7. \A e : (x # Error => End(x) = e) => UpTo(p, a, e)
    BY <1>2 DEF UpTo
  <1> QED
    BY <1>1, <1>2, <1>6, <1>7 DEF p

\* What is behind the first slice of a line begins where that ends.
LEMMA LineMoves ==
  ASSUME NEW q \in Seq(Item), q # <<>>, q[1] # Error, NEW a \in Nat, StreamAssumption, InTurn(q, a)
  PROVE  /\ Tail(q) \in Seq(Item) /\ q[1] \in Slice /\ q[1].from = a /\ End(q[1]) \in Nat
         /\ InTurn(Tail(q), End(q[1]))
         /\ Tail(q) # <<>> => Tail(q)[Len(Tail(q))] = q[Len(q)]
         /\ \A e : UpTo(q, a, e) => UpTo(Tail(q), End(q[1]), e)
  <1> DEFINE p == Tail(q)
             n == Len(q)
  <1>1. n \in Nat /\ n > 0 /\ p \in Seq(Item) /\ Len(p) = n - 1 /\ \A i \in 1..(n - 1) : p[i] = q[i + 1]
    OBVIOUS
  <1>2. q[1] \in Slice /\ q[1].from = a /\ End(q[1]) \in Nat
    BY DEF InTurn, Item, Slice, End
  <1>3. p = <<>> <=> n = 1
    <2> HIDE DEF p
    <2>1. p = <<>> <=> Len(p) = 0
      BY <1>1
    <2> QED
      BY <1>1, <2>1
  <1>4. p # <<>> => p[Len(p)] = q[n]
    BY <1>1, <1>3
  <1>5. p # <<>> => 1 \in 1..(n - 1) /\ p[1] = q[2]
    BY <1>1, <1>3
  <1>6. p # <<>> /\ p[1] # Error => p[1].from = End(q[1])
    BY <1>5 DEF InTurn
  <1>7. ASSUME NEW i \in 1..(n - 2) PROVE p[i] # Error /\ (p[i + 1] # Error => p[i + 1].from = End(p[i]))
    <2>1. p[i] = q[i + 1] /\ p[i + 1] = q[i + 2] /\ i + 1 \in 1..(n - 1)
      BY <1>1
    <2> QED
      BY <2>1 DEF InTurn
  <1> HIDE DEF p
  <1>8. InTurn(p, End(q[1]))
    BY <1>1, <1>6, <1>7 DEF InTurn
  <1>9. ASSUME NEW e, UpTo(q, a, e) PROVE UpTo(p, End(q[1]), e)
    BY <1>1, <1>3, <1>4, <1>9 DEF UpTo
  <1> QED
    BY <1>1, <1>2, <1>4, <1>8, <1>9 DEF p

\* What is left of the first slice begins where the bytes taken from it end.
LEMMA LineIsCut ==
  ASSUME NEW q \in Seq(Slice), q # <<>>, NEW a \in Nat, StreamAssumption, InTurn(q, a),
         NEW n \in Nat, n < q[1].len
  PROVE  LET p == [q EXCEPT ![1] = [from |-> q[1].from + n, len |-> q[1].len - n]] IN
         /\ p \in Seq(Slice) /\ p # <<>> /\ InTurn(p, a + n) /\ \A e : UpTo(q, a, e) => UpTo(p, a + n, e)
  <1> DEFINE x == [from |-> q[1].from + n, len |-> q[1].len - n]
             p == [q EXCEPT ![1] = x]
  <1>0. q[1] \in Slice /\ Error \notin Slice /\ 1 \in 1..Len(q)
    BY DEF StreamAssumption
  <1>1. x \in Slice /\ End(x) = End(q[1]) /\ q[1].from = a /\ x.from = a + n /\ x # Error
    BY <1>0 DEF Slice, End, InTurn
  <1>2. p \in Seq(Slice) /\ Len(p) = Len(q) /\ p[1] = x /\ \A i \in 2..Len(q) : p[i] = q[i]
    BY <1>0, <1>1
  <1> HIDE DEF x, p
  <1>3. p # <<>>
    BY <1>0, <1>2
  <1>4. ASSUME NEW i \in 1..(Len(p) - 1) PROVE p[i] # Error /\ (p[i + 1] # Error => p[i + 1].from = End(p[i]))
    <2>1. p[i + 1] = q[i + 1] /\ i \in 1..(Len(q) - 1)
      BY <1>2
    <2>2. q[i] # Error /\ (q[i + 1] # Error => q[i + 1].from = End(q[i]))
      BY <2>1 DEF InTurn
    <2>3. End(p[i]) = End(q[i]) /\ p[i] # Error
      BY <1>1, <1>2, <2>1, <2>2
    <2> QED
      BY <2>1, <2>2, <2>3
  <1>5. InTurn(p, a + n)
    BY <1>1, <1>2, <1>4 DEF InTurn
  <1>6. End(p[Len(p)]) = End(q[Len(q)]) /\ q[Len(q)] # Error
    BY <1>0, <1>1, <1>2
  <1>7. \A e : UpTo(q, a, e) => UpTo(p, a + n, e)
    BY <1>3, <1>6 DEF UpTo
  <1> QED
    BY <1>2, <1>3, <1>5, <1>7 DEF p, x

-----------------------------------------------------------------------------
(* One call. *)

CallInv(c) ==
  /\ Line(c) /\ Progress(c) /\ ((writer[c].at = "none") <=> (sent[c].chunks = 0))
  /\ Whole(writer[c]) /\ Parted(writer[c]) /\ Sized(writer[c]) /\ InStorage(writer[c], store)

\* A stored shard stays.
StoreGrows == \A x : [key |-> x, body |-> x] \in store => [key |-> x, body |-> x] \in store'

Same(d) ==
  /\ handler'[d] = handler[d] /\ held'[d] = held[d] /\ sent'[d] = sent[d]
  /\ channel'[d] = channel[d] /\ writer'[d] = writer[d] /\ answer'[d] = answer[d]

\* What is known of a writer depends on its own state, and on the store.
LEMMA WriterSame ==
  ASSUME NEW d \in Calls, CallInv(d), StoreGrows, writer'[d] = writer[d]
  PROVE  /\ Whole(writer[d])' /\ Parted(writer[d])' /\ Sized(writer[d])' /\ InStorage(writer[d], store)'
  <1>1. Whole(writer[d])'
    BY DEF CallInv, Whole, InTurn, UpTo, End
  <1>2. Parted(writer[d])' /\ Sized(writer[d])'
    BY DEF CallInv, Parted, Sized, Full
  <1>3. InStorage(writer[d], store)'
    BY DEF CallInv, InStorage, StoreGrows
  <1> QED
    BY <1>1, <1>2, <1>3

\* A call none of whose variables changes keeps its part of the invariant.
LEMMA CallSame ==
  ASSUME NEW d \in Calls, CallInv(d), StoreGrows, Same(d)
  PROVE  CallInv(d)'
  <1>1. /\ Whole(writer[d])' /\ Parted(writer[d])' /\ Sized(writer[d])' /\ InStorage(writer[d], store)'
    BY WriterSame DEF Same
  <1>2. Line(d)'
    BY DEF CallInv, Same, Line, HoldsSender, InTurn, UpTo, End
  <1>3. Progress(d)'
    BY DEF CallInv, Same, Progress
  <1> QED
    BY <1>1, <1>2, <1>3 DEF CallInv, Same

\* A turn of take_part's loop moves bytes from the front of the buffer to the part.
LEMMA Taking ==
  ASSUME StreamAssumption, NEW q \in Seq(Slice), q # <<>>, NEW body \in Seq(Nat), NEW old \in Seq(Nat),
         NEW all \in Nat, NEW size \in Nat, Len(old) < size, size <= all - Len(body),
         body \o old = Bytes(0, Len(body) + Len(old)),
         InTurn(q, Len(body) + Len(old)), UpTo(q, Len(body) + Len(old), all)
  PROVE  LET x == q[1]
             take == Least(size - Len(old), x.len)
             new == old \o Bytes(x.from, take)
             rest == IF take = x.len THEN Tail(q)
                     ELSE [q EXCEPT ![1] = [from |-> x.from + take, len |-> x.len - take]] IN
         /\ new \in Seq(Nat) /\ rest \in Seq(Slice) /\ Len(new) \in Nat /\ Len(new) <= size
         /\ body \o new = Bytes(0, Len(body) + Len(new))
         /\ InTurn(rest, Len(body) + Len(new)) /\ UpTo(rest, Len(body) + Len(new), all)
         /\ Len(new) < size => rest # <<>>
  <1> DEFINE x == q[1]
             m == Len(body) + Len(old)
             take == Least(size - Len(old), x.len)
             y == Bytes(x.from, take)
             new == old \o y
             cut == [q EXCEPT ![1] = [from |-> x.from + take, len |-> x.len - take]]
             rest == IF take = x.len THEN Tail(q) ELSE cut
  <1>1. Len(body) \in Nat /\ Len(old) \in Nat /\ m \in Nat /\ q \in Seq(Item)
    BY DEF Item
  <1>2. x \in Slice /\ x # Error
    BY DEF StreamAssumption
  <1>3. x.from = m /\ x.len \in Nat /\ End(x) = m + x.len
    BY <1>1, <1>2 DEF InTurn, Slice, End
  <1>4. take \in Nat /\ take <= x.len /\ Len(old) + take <= size
    BY <1>1, <1>3 DEF Least
  <1>5. y = Bytes(m, take) /\ y \in Seq(Nat) /\ Len(y) = take
    BY <1>1, <1>3, <1>4, BytesType
  <1> HIDE DEF y, take
  <1>6. new \in Seq(Nat) /\ Len(new) = Len(old) + take
    BY <1>5, ConcatProperties
  <1>7. body \o new = Bytes(0, m + take)
    <2>1. body \o new = (body \o old) \o y
      BY <1>5, Regroup
    <2>2. Bytes(0, m) \o Bytes(m, take) = Bytes(0, m + take)
      BY <1>1, <1>4, BytesJoin
    <2> QED
      BY <1>5, <2>1, <2>2
  <1>8. rest \in Seq(Slice) /\ InTurn(rest, m + take) /\ UpTo(rest, m + take, all)
    <2>1. CASE take = x.len
      <3>1. Tail(q) \in Seq(Slice)
        OBVIOUS
      <3>2. InTurn(Tail(q), End(x)) /\ UpTo(Tail(q), End(x), all)
        BY <1>1, <1>2, LineMoves
      <3> QED
        BY <1>3, <2>1, <3>1, <3>2
    <2>2. CASE take # x.len
      <3>1. take < x.len
        BY <1>3, <1>4, <2>2
      <3> HIDE DEF m
      <3>2. InTurn(q, m) /\ UpTo(q, m, all)
        BY DEF m
      <3>3. cut \in Seq(Slice) /\ InTurn(cut, m + take) /\ UpTo(cut, m + take, all)
        BY <1>1, <1>4, <3>1, <3>2, LineIsCut
      <3> QED
        BY <2>2, <3>3
    <2> QED
      BY <2>1, <2>2
  <1> HIDE DEF new, rest
  <1>9. m + take = Len(body) + Len(new) /\ Len(new) \in Nat
    BY <1>1, <1>4, <1>6
  <1>10. Len(new) < size => rest # <<>>
    BY <1>1, <1>8, <1>9 DEF UpTo
  <1> QED
    BY <1>4, <1>6, <1>7, <1>8, <1>9, <1>10 DEF new, rest, y, take

\* A turn of take_part moves bytes from the buffer to the part and keeps the stream whole.
LEMMA TakePart ==
  ASSUME StreamAssumption, NEW v \in WriterTask, Whole(v), NEW size \in Nat,
         Len(v.part) < size, v.buffered_chunks # <<>>, size <= v.buffered_bytes
  PROVE  LET w == take_part(v, size) IN
         /\ w \in WriterTask
         /\ w = [v EXCEPT !.part = w.part, !.buffered_chunks = w.buffered_chunks]
         /\ Len(w.part) \in Nat /\ Len(w.part) <= size
         /\ w.body \o w.part = Bytes(0, Len(w.body) + Len(w.part))
         /\ InTurn(w.buffered_chunks, Len(w.body) + Len(w.part))
         /\ UpTo(w.buffered_chunks, Len(w.body) + Len(w.part), Len(w.hashed))
         /\ Len(w.part) < size => w.buffered_chunks # <<>>
  <1> DEFINE q == v.buffered_chunks
             old == v.part
             body == v.body
             all == Len(v.hashed)
             x == q[1]
             take == Least(size - Len(old), x.len)
             new == old \o Bytes(x.from, take)
             rest == IF take = x.len THEN Tail(q)
                     ELSE [q EXCEPT ![1] = [from |-> x.from + take, len |-> x.len - take]]
             w == take_part(v, size)
  <1>1. /\ q \in Seq(Slice) /\ body \in Seq(Nat) /\ old \in Seq(Nat) /\ all \in Nat
        /\ size <= all - Len(body) /\ q # <<>> /\ Len(old) < size
    BY DEF WriterTask, Whole
  <1>2. /\ body \o old = Bytes(0, Len(body) + Len(old))
        /\ InTurn(q, Len(body) + Len(old)) /\ UpTo(q, Len(body) + Len(old), all)
    BY DEF Whole
  <1>3. w = [v EXCEPT !.part = new, !.buffered_chunks = rest]
    BY DEF take_part
  <1> HIDE DEF q, old, body, all
  <1>4. /\ new \in Seq(Nat) /\ rest \in Seq(Slice) /\ Len(new) \in Nat /\ Len(new) <= size
        /\ body \o new = Bytes(0, Len(body) + Len(new))
        /\ InTurn(rest, Len(body) + Len(new)) /\ UpTo(rest, Len(body) + Len(new), all)
        /\ Len(new) < size => rest # <<>>
    BY <1>1, <1>2, Taking
  <1> HIDE DEF new, rest
  <1>5. /\ w \in WriterTask /\ w.part = new /\ w.buffered_chunks = rest /\ w.body = v.body /\ w.hashed = v.hashed
        /\ w = [v EXCEPT !.part = w.part, !.buffered_chunks = w.buffered_chunks]
    BY <1>3, <1>4 DEF WriterTask
  <1> QED
    BY <1>4, <1>5 DEF body, all

-----------------------------------------------------------------------------
(* The steps of one call. *)

HandlerAt == Streaming \cup {"new", "refused", "admitted", "failed", "ok", "dropped"}
Typed ==
  /\ handler \in [Calls -> HandlerAt]
  /\ held \in [Calls -> Slice \cup {None}] /\ sent \in [Calls -> [bytes : Nat, chunks : Nat]]
  /\ channel \in [Calls -> Seq(Item)] /\ writer \in [Calls -> WriterTask]
  /\ answer \in [Calls -> Seq(Nat) \cup {None}] /\ store \subseteq [key : Seq(Nat), body : Seq(Nat)]
  /\ faults \in 0..MaxFaults /\ resets \in 0..MaxResets

Inv == Typed /\ KeysAreDigests /\ \A c \in Calls : CallInv(c)

\* A step of call c.
StepOf(c) ==
  /\ Typed' /\ KeysAreDigests' /\ StoreGrows /\ CallInv(c)'
  /\ \A d \in Calls \ {c} : Same(d)

\* A step of one call keeps the invariant of all.
LEMMA StepKeeps ==
  ASSUME Inv, NEW c \in Calls, StepOf(c)
  PROVE  Inv'
  <1>1. ASSUME NEW d \in Calls PROVE CallInv(d)'
    BY CallSame DEF Inv, StepOf
  <1> QED
    BY <1>1 DEF Inv, StepOf

\* The invariant holds before any call has come.
LEMMA InvInit ==
  ASSUME StreamAssumption, Init
  PROVE  Inv
  <1>1. NoWriter \in WriterTask /\ Len(<<>>) = 0 /\ <<>> \o <<>> = <<>>
    BY DEF NoWriter, WriterTask, Stage, Filling, Finished
  <1>2. Typed
    BY <1>1 DEF Init, Typed, HandlerAt, Item, StreamAssumption
  <1>3. Whole(NoWriter) /\ Parted(NoWriter) /\ Sized(NoWriter) /\ InStorage(NoWriter, store)
    <2>1. Whole(NoWriter)
      BY <1>1, NoBytes DEF Whole, NoWriter, InTurn, UpTo
    <2>2. Parted(NoWriter) /\ Sized(NoWriter) /\ InStorage(NoWriter, store)
      BY DEF Parted, Sized, InStorage, NoWriter, Full, Filling, Finished
    <2> QED
      BY <2>1, <2>2
  <1>4. ASSUME NEW c \in Calls PROVE CallInv(c)
    <2>1. writer[c] = NoWriter /\ handler[c] = "new" /\ sent[c] = [bytes |-> 0, chunks |-> 0] /\ channel[c] = <<>>
      BY DEF Init
    <2>2. writer[c].at = "none"
      BY <2>1 DEF NoWriter
    <2>3. Line(c) /\ Progress(c)
      BY <2>1, <2>2 DEF Line, Progress, Filling, Finished
    <2> QED
      BY <1>3, <2>1, <2>2, <2>3 DEF CallInv
  <1>5. KeysAreDigests
    BY DEF Init, KeysAreDigests
  <1> QED
    BY <1>2, <1>4, <1>5 DEF Inv

\* A step of the handler alone leaves the writer and the store as they are.
LEMMA HandlerSteps ==
  ASSUME Inv, NEW c \in Calls, Typed', UNCHANGED <<writer, store>>, \A d \in Calls \ {c} : Same(d),
         sent'[c].chunks = sent[c].chunks, Line(c)', Progress(c)'
  PROVE  StepOf(c)
  <1>1. StoreGrows /\ KeysAreDigests'
    BY DEF StoreGrows, Inv, KeysAreDigests
  <1>2. CallInv(c)'
    BY <1>1, WriterSame DEF Inv, CallInv
  <1> QED
    BY <1>1, <1>2 DEF StepOf

\* Where a handler goes.
LEMMA Goes ==
  ASSUME Typed, NEW c \in Calls, NEW at \in HandlerAt, Goto(c, at)
  PROVE  /\ handler' \in [Calls -> HandlerAt] /\ handler'[c] = at
         /\ \A d \in Calls \ {c} : handler'[d] = handler[d]
  BY DEF Typed, Goto

\* Before the first chunk there is no writer.
LEMMA Admission ==
  ASSUME StreamAssumption, Inv, NEW c \in Calls,
         Test(c) \/ increment(c) \/ EmptyStream(c) \/ LoadDepth(c) \/ SetGauge(c)
  PROVE  StepOf(c)
  <1>0. UNCHANGED <<held, sent, channel, writer, answer, store, faults, resets>>
    BY DEF Test, increment, EmptyStream, LoadDepth, SetGauge, stream, objects
  <1>1. /\ handler' \in [Calls -> HandlerAt] /\ \A d \in Calls \ {c} : handler'[d] = handler[d]
        /\ \/ handler'[c] = handler[c]
           \/ writer[c].at = "none" /\ handler'[c] \in {"refused", "admitted", "first", "failed"}
    <2>0. Typed /\ (handler[c] \in {"new", "admitted", "first"} => writer[c].at = "none")
      BY DEF Inv, CallInv, Progress
    <2>1. {"refused", "admitted", "first", "failed"} \subseteq HandlerAt
      BY DEF HandlerAt, Streaming
    <2>2. CASE Test(c)
      BY <2>0, <2>1, <2>2, Goes DEF Test
    <2>3. CASE increment(c)
      BY <2>0, <2>1, <2>3, Goes DEF increment
    <2>4. CASE EmptyStream(c)
      BY <2>0, <2>1, <2>4, Goes DEF EmptyStream
    <2>5. CASE LoadDepth(c) \/ SetGauge(c)
      <3>1. handler' = handler
        BY <2>5 DEF LoadDepth, SetGauge
      <3> QED
        BY <2>0, <3>1 DEF Typed
    <2> QED
      BY <2>2, <2>3, <2>4, <2>5
  <1>2. Typed'
    BY <1>0, <1>1 DEF Inv, Typed
  <1>3. \A d \in Calls \ {c} : Same(d)
    BY <1>0, <1>1 DEF Same
  <1>4. Progress(c)'
    BY <1>0, <1>1 DEF Inv, CallInv, Progress
  <1>5. Line(c)'
    BY <1>0, <1>1 DEF Inv, CallInv, Line, Filling, Finished, HoldsSender, InTurn, UpTo, End
  <1> QED
    BY <1>0, <1>2, <1>3, <1>4, <1>5, HandlerSteps

\* stream.next() yields a chunk, which begins where the last one ended.
LEMMA ChunkSteps ==
  ASSUME StreamAssumption, Inv, NEW c \in Calls, NEW size \in ChunkSizes, Chunk(c, size)
  PROVE  StepOf(c)
  <1> DEFINE n == sent[c].bytes
             x == [from |-> n, len |-> size]
             v == writer[c]
             w == writer'[c]
  <1>0. /\ Typed /\ CallInv(c) /\ size \in Nat /\ n \in Nat /\ sent[c].chunks \in Nat /\ v \in WriterTask
        /\ x \in Slice /\ End(x) = n + size /\ x # None
    <2>1. /\ Typed /\ CallInv(c) /\ size \in Nat /\ n \in Nat /\ sent[c].chunks \in Nat /\ v \in WriterTask
      BY DEF Inv, Typed, StreamAssumption
    <2>2. x \in Slice /\ End(x) = n + size
      BY <2>1 DEF Slice, End
    <2> QED
      BY <2>1, <2>2 DEF StreamAssumption
  <1>1. /\ handler' \in [Calls -> HandlerAt] /\ handler'[c] = "send" /\ handler[c] \in {"first", "next"}
        /\ \A d \in Calls \ {c} : handler'[d] = handler[d]
    BY <1>0, Goes DEF Chunk, HandlerAt, Streaming
  <1>2. /\ held' \in [Calls -> Slice \cup {None}] /\ held'[c] = x
        /\ \A d \in Calls \ {c} : held'[d] = held[d]
    BY <1>0 DEF Chunk, Typed
  <1>3. /\ sent' \in [Calls -> [bytes : Nat, chunks : Nat]] /\ sent'[c].bytes = n + size /\ sent'[c].chunks = sent[c].chunks + 1
        /\ \A d \in Calls \ {c} : sent'[d] = sent[d]
    BY <1>0 DEF Chunk, Typed
  <1>4. UNCHANGED <<channel, answer, store, faults, resets>>
    BY DEF Chunk, objects
  <1>5. /\ writer' \in [Calls -> WriterTask] /\ w = [v EXCEPT !.at = IF handler[c] = "first" THEN "create" ELSE v.at]
        /\ \A d \in Calls \ {c} : writer'[d] = writer[d]
    <2>1. [v EXCEPT !.at = IF handler[c] = "first" THEN "create" ELSE v.at] \in WriterTask
      BY <1>0 DEF WriterTask, Stage, Filling
    <2> QED
      BY <1>0, <2>1 DEF Chunk, Typed
  <1>6. Typed' /\ \A d \in Calls \ {c} : Same(d)
    BY <1>0, <1>1, <1>2, <1>3, <1>4, <1>5 DEF Typed, Same
  <1>7. StoreGrows /\ KeysAreDigests'
    BY <1>4 DEF StoreGrows, Inv, KeysAreDigests
  <1>8. CASE handler[c] = "first"
    <2>1. v = NoWriter /\ n = 0 /\ channel[c] = <<>>
      BY <1>0, <1>8 DEF CallInv, Progress
    <2>2. w = [NoWriter EXCEPT !.at = "create"]
      BY <1>5, <1>8, <2>1
    <2>3. /\ w.at = "create" /\ w.hashed = <<>> /\ w.part = <<>> /\ w.body = <<>> /\ w.buffered_chunks = <<>>
          /\ w.buffered_bytes = 0 /\ w.completed_parts = <<>> /\ ~w.upload /\ ~w.staged
      BY <2>2 DEF NoWriter
    <2> HIDE DEF w
    <2>4. Whole(w)
      <3>1. Len(<<>>) = 0 /\ <<>> \o <<>> = <<>>
        OBVIOUS
      <3> QED
        BY <2>3, <3>1, NoBytes DEF Whole, InTurn, UpTo
    <2>5. Parted(w) /\ Sized(w)
      BY <2>3 DEF Parted, Sized, Full, Filling, Finished, StreamAssumption
    <2>6. InStorage(writer[c], store)'
      BY <2>3 DEF InStorage, w
    <2>7. Line(c)'
      BY <1>0, <1>1, <1>2, <1>3, <1>4, <2>1, <2>3 DEF Line, InTurn, UpTo, Filling, Finished, w
    <2>8. Progress(c)'
      BY <1>1, <2>3 DEF Progress, w
    <2>9. Whole(writer[c])' /\ Parted(writer[c])' /\ Sized(writer[c])'
      BY <2>4, <2>5 DEF w, Whole, Parted, Sized, InTurn, UpTo, End, Full
    <2> QED
      BY <1>0, <1>3, <1>6, <1>7, <2>3, <2>6, <2>7, <2>8, <2>9 DEF CallInv, StepOf, w
  <1>9. CASE handler[c] = "next"
    <2>1. w = v
      BY <1>0, <1>5, <1>9 DEF WriterTask
    <2>2. v.at # "none" /\ v.at \notin Finished
      BY <1>0, <1>9 DEF CallInv, Progress, Line, HoldsSender
    <2>3. Progress(c)'
      BY <1>0, <1>1, <2>1, <2>2 DEF Progress
    <2>4. Line(c)'
      BY <1>0, <1>1, <1>2, <1>3, <1>4, <1>9, <2>1, <2>2 DEF CallInv, Line, HoldsSender, InTurn, UpTo, End
    <2>5. CallInv(c)'
      BY <1>0, <1>3, <1>7, <2>1, <2>2, <2>3, <2>4, WriterSame DEF CallInv
    <2> QED
      BY <1>6, <1>7, <2>5 DEF StepOf
  <1> QED
    BY <1>1, <1>8, <1>9

\* chunk_tx.send, of a chunk or of an error; the end of the stream; a future that is dropped.
LEMMA SendSteps ==
  ASSUME StreamAssumption, Inv, NEW c \in Calls, Send(c) \/ BadChunk(c) \/ EndOfStream(c) \/ Reset(c)
  PROVE  StepOf(c)
  <1> DEFINE q == channel[c]
             v == writer[c]
             all == Len(v.hashed)
             next == IF handler[c] = "send" THEN held[c].from ELSE sent[c].bytes
  <1>0. /\ Typed /\ CallInv(c) /\ q \in Seq(Item) /\ v \in WriterTask /\ all \in Nat /\ sent[c].bytes \in Nat
        /\ Error \in Item /\ Error \notin Slice /\ None \notin Slice
    <2>1. Typed /\ CallInv(c) /\ q \in Seq(Item) /\ v \in WriterTask /\ sent[c].bytes \in Nat
      BY DEF Inv, Typed
    <2>2. v.hashed \in Seq(Nat)
      BY <2>1 DEF WriterTask
    <2>3. Error \in Item /\ Error \notin Slice /\ None \notin Slice
      BY DEF Item, StreamAssumption
    <2> QED
      BY <2>1, <2>2, <2>3
  <1>1. /\ UNCHANGED <<sent, writer, answer, store, faults>>
        /\ handler[c] \in {"first", "send", "next", "join"} /\ (handler[c] \in {"first", "join"} => Reset(c))
        /\ resets' \in 0..MaxResets
        /\ held' \in [Calls -> Slice \cup {None}] /\ \A d \in Calls \ {c} : held'[d] = held[d]
    <2>1. /\ UNCHANGED <<sent, writer, answer, store, faults>>
          /\ handler[c] \in {"first", "send", "next", "join"} /\ (handler[c] \in {"first", "join"} => Reset(c))
          /\ held' = held \/ held' = [held EXCEPT ![c] = None]
      BY DEF Send, BadChunk, EndOfStream, Reset, stream, objects, Open, Streaming
    <2>2. held' \in [Calls -> Slice \cup {None}] /\ \A d \in Calls \ {c} : held'[d] = held[d]
      BY <1>0, <2>1 DEF Typed
    <2>3. resets \in 0..MaxResets /\ MaxResets \in Nat /\ (resets' = resets \/ (resets < MaxResets /\ resets' = resets + 1))
      <3>1. resets \in 0..MaxResets /\ MaxResets \in Nat
        BY <1>0 DEF Typed, StreamAssumption
      <3>2. resets' = resets \/ (resets < MaxResets /\ resets' = resets + 1)
        <4>1. CASE Send(c)
          BY <4>1 DEF Send, depths, stream, objects
        <4>2. CASE BadChunk(c)
          BY <4>2 DEF BadChunk, depths, stream, objects
        <4>3. CASE EndOfStream(c)
          BY <4>3 DEF EndOfStream, depths, stream, objects
        <4>4. CASE Reset(c)
          BY <4>4 DEF Reset
        <4> QED
          BY <4>1, <4>2, <4>3, <4>4
      <3> QED
        BY <3>1, <3>2
    <2> QED
      BY <2>1, <2>2, <2>3
  <1>2. ASSUME HoldsSender(c)
        PROVE  /\ v.at # "none" /\ v.at \notin Finished /\ next \in Nat
               /\ v.at \in Filling => InTurn(q, all) /\ UpTo(q, all, next) /\ (q # <<>> => q[Len(q)] # Error)
               /\ handler[c] = "send" => held[c] \in Slice /\ End(held[c]) = sent[c].bytes
    <2>1. /\ v.at # "none" /\ v.at \notin Finished
          /\ v.at \in Filling => InTurn(q, all) /\ UpTo(q, all, next) /\ (q # <<>> => q[Len(q)] # Error)
      BY <1>0, <1>2 DEF CallInv, Line, Progress, HoldsSender
    <2>2. handler[c] = "send" => held[c] \in Slice /\ End(held[c]) = sent[c].bytes
      BY <1>0 DEF CallInv, Line, Typed
    <2> QED
      BY <1>0, <1>2, <2>1, <2>2 DEF HoldsSender, Slice
  \* What is appended to the channel, and where the handler goes.
  <1>3. /\ channel' \in [Calls -> Seq(Item)] /\ handler' \in [Calls -> HandlerAt]
        /\ \A d \in Calls \ {c} : channel'[d] = channel[d] /\ handler'[d] = handler[d]
        /\ \/ /\ handler[c] = "send" /\ Receiving(c) /\ handler'[c] = "next" /\ channel'[c] = Append(q, held[c])
           \/ /\ HoldsSender(c) /\ ~Receiving(c) /\ channel'[c] = q /\ handler'[c] = "join"
           \/ /\ handler[c] = "next" /\ Receiving(c) /\ channel'[c] = Append(q, Error) /\ handler'[c] \in {"join", "dropped"}
           \/ /\ handler[c] = "next" /\ channel'[c] = q /\ handler'[c] = "join"
           \/ /\ channel'[c] = q /\ handler'[c] = "dropped"
    <2>0. {"next", "join", "dropped"} \subseteq HandlerAt
      BY DEF HandlerAt, Streaming
    <2>1. CASE Send(c)
      <3>1. handler[c] = "send" /\ held[c] \in Item
        BY <1>2, <2>1 DEF Send, HoldsSender, Item
      <3>2. CASE Receiving(c)
        <4>1. channel' = [channel EXCEPT ![c] = Append(q, held[c])] /\ Goto(c, "next")
          BY <2>1, <3>2 DEF Send, Sending
        <4>2. Append(q, held[c]) \in Seq(Item)
          BY <1>0, <3>1
        <4> QED
          BY <1>0, <2>0, <3>1, <3>2, <4>1, <4>2, Goes DEF Typed
      <3>3. CASE ~Receiving(c)
        BY <1>0, <2>0, <2>1, <3>1, <3>3, Goes DEF Send, Sending, Typed, HoldsSender
      <3> QED
        BY <3>2, <3>3
    <2>2. CASE BadChunk(c)
      <3>1. handler[c] = "next" /\ Append(q, Error) \in Seq(Item)
        BY <1>0, <2>2 DEF BadChunk
      <3>2. CASE Receiving(c)
        <4>1. channel' = [channel EXCEPT ![c] = Append(q, Error)] /\ Goto(c, "join")
          BY <2>2, <3>2 DEF BadChunk, Sending
        <4> QED
          BY <1>0, <2>0, <3>1, <3>2, <4>1, Goes DEF Typed
      <3>3. CASE ~Receiving(c)
        BY <1>0, <2>0, <2>2, <3>1, <3>3, Goes DEF BadChunk, Sending, Typed, HoldsSender
      <3> QED
        BY <3>2, <3>3
    <2>3. CASE EndOfStream(c)
      BY <1>0, <2>0, <2>3, Goes DEF EndOfStream, stream, Typed
    <2>4. CASE Reset(c)
      <3>1. handler' \in [Calls -> HandlerAt] /\ handler'[c] = "dropped" /\ \A d \in Calls \ {c} : handler'[d] = handler[d]
        BY <1>0, <2>0, <2>4, Goes DEF Reset
      <3>2. CASE UNCHANGED channel
        BY <1>0, <3>1, <3>2 DEF Typed
      <3>3. CASE channel' # channel
        <4>1. handler[c] = "next" /\ Receiving(c) /\ channel' = [channel EXCEPT ![c] = Append(q, Error)]
          BY <2>4, <3>3 DEF Reset
        <4>2. Append(q, Error) \in Seq(Item)
          BY <1>0
        <4> QED
          BY <1>0, <3>1, <4>1, <4>2 DEF Typed
      <3> QED
        BY <3>2, <3>3
    <2> QED
      BY <2>1, <2>2, <2>3, <2>4
  <1>4. Typed' /\ (\A d \in Calls \ {c} : Same(d))
    BY <1>0, <1>1, <1>3 DEF Typed, Same
  <1>5. v.at \in Stage /\ (v.at \in Filling => Receiving(c)) /\ (Receiving(c) => v.at \in Filling \cup Finished \cup {"none", "abort"})
    BY <1>0 DEF WriterTask, Stage, Receiving, Filling, Finished
  <1>6. handler'[c] \in {"next", "join", "dropped"} /\ (handler'[c] # "dropped" => HoldsSender(c))
    BY <1>3 DEF HoldsSender
  <1>7. Progress(c)'
    <2>1. CASE v.at = "none"
      <3>1. ~HoldsSender(c)
        BY <1>2, <2>1
      <3>2. handler'[c] = "dropped" /\ channel'[c] = q
        BY <1>3, <3>1 DEF HoldsSender
      <3> QED
        BY <1>0, <1>1, <2>1, <3>2 DEF CallInv, Progress
    <2>2. CASE v.at # "none"
      BY <1>1, <1>6, <2>2 DEF Progress
    <2> QED
      BY <2>1, <2>2
  <1>8. Line(c)'
    <2>1. CASE v.at \in Filling
      <3>1. InTurn(q, all)
        BY <1>0, <2>1 DEF CallInv, Line
      <3>2. CASE handler[c] = "send" /\ handler'[c] = "next" /\ channel'[c] = Append(q, held[c])
        <4>1. held[c] \in Item /\ held[c] # Error /\ next = held[c].from /\ HoldsSender(c)
          BY <1>0, <1>2, <3>2 DEF HoldsSender, Item
        <4>2. /\ InTurn(Append(q, held[c]), all) /\ UpTo(Append(q, held[c]), all, sent[c].bytes)
              /\ Append(q, held[c])[Len(Append(q, held[c]))] # Error
          <5> DEFINE x == held[c]
          <5>1. /\ InTurn(q, all) /\ UpTo(q, all, x.from) /\ (q # <<>> => q[Len(q)] # Error)
                /\ x \in Item /\ x # Error /\ x.from \in Nat /\ End(x) = sent[c].bytes
            BY <1>2, <2>1, <3>2, <4>1
          <5> HIDE DEF q, all, x
          <5>2. /\ InTurn(Append(q, x), all) /\ UpTo(Append(q, x), all, sent[c].bytes)
                /\ Append(q, x)[Len(Append(q, x))] # Error
            BY <1>0, <5>1, LineGrows
          <5> QED
            BY <5>2 DEF x
        <4>3. /\ InTurn(channel[c], all)' /\ UpTo(channel[c], all, sent[c].bytes)'
              /\ channel'[c][Len(channel'[c])] # Error
          BY <1>1, <3>2, <4>2 DEF InTurn, UpTo, End
        <4> QED
          BY <1>1, <2>1, <3>2, <4>3 DEF Line, Filling, Finished
      <3>3. CASE handler[c] = "next" /\ handler'[c] \in {"join", "dropped"} /\ channel'[c] = Append(q, Error)
        <4>1. HoldsSender(c)
          BY <3>3 DEF HoldsSender
        <4>2. /\ InTurn(Append(q, Error), all) /\ UpTo(Append(q, Error), all, sent[c].bytes)
          <5>1. InTurn(q, all) /\ UpTo(q, all, sent[c].bytes) /\ (q # <<>> => q[Len(q)] # Error)
            BY <1>2, <2>1, <3>3, <4>1
          <5> HIDE DEF q, all
          <5> QED
            BY <1>0, <5>1, LineGrows
        <4>3. /\ InTurn(channel[c], all)' /\ UpTo(channel[c], all, sent[c].bytes)'
          BY <1>1, <3>3, <4>2 DEF InTurn, UpTo, End
        <4> QED
          BY <1>1, <2>1, <3>3, <4>3 DEF Line, Filling, Finished, HoldsSender
      <3>4. CASE handler[c] = "next" /\ handler'[c] = "join" /\ channel'[c] = q
        <4>1. InTurn(q, all) /\ UpTo(q, all, sent[c].bytes)
          BY <1>2, <2>1, <3>4 DEF HoldsSender
        <4>2. /\ InTurn(channel[c], all)' /\ UpTo(channel[c], all, sent[c].bytes)'
          BY <1>1, <3>4, <4>1 DEF InTurn, UpTo, End
        <4> QED
          BY <1>1, <2>1, <3>4, <4>2 DEF Line, Filling, Finished, HoldsSender
      <3>5. CASE handler'[c] = "dropped" /\ channel'[c] = q
        <4>1. InTurn(channel[c], all)'
          BY <1>1, <3>1, <3>5 DEF InTurn, End
        <4> QED
          BY <1>1, <2>1, <3>5, <4>1 DEF Line, Filling, Finished, HoldsSender
      <3> QED
        BY <1>3, <1>5, <2>1, <3>2, <3>3, <3>4, <3>5
    <2>2. CASE v.at \in Finished
      <3>1. ~HoldsSender(c)
        BY <1>2, <2>2
      <3>2. handler'[c] = "dropped"
        BY <1>3, <3>1 DEF HoldsSender
      <3> QED
        BY <1>1, <2>2, <3>2 DEF Line, Filling, Finished, HoldsSender
    <2>3. CASE v.at \notin Filling \cup Finished
      BY <1>1, <1>6, <2>3 DEF Line
    <2> QED
      BY <2>1, <2>2, <2>3
  <1> QED
    BY <1>1, <1>4, <1>7, <1>8, HandlerSteps DEF Inv

\* writer_task.await: a writer that has written has hashed the whole stream.
LEMMA JoinSteps ==
  ASSUME StreamAssumption, Inv, NEW c \in Calls, Join(c)
  PROVE  StepOf(c)
  <1> DEFINE v == writer[c]
  <1>0. Typed /\ CallInv(c) /\ v \in WriterTask /\ v.hashed \in Seq(Nat) /\ handler[c] = "join" /\ v.at \in {"failed", "written"}
    BY DEF Inv, Typed, WriterTask, Join, Receiving
  <1>1. UNCHANGED <<held, sent, channel, writer, store, faults, resets>>
    BY DEF Join, stream, objects
  <1>2. /\ handler' \in [Calls -> HandlerAt] /\ handler'[c] = (IF v.at = "written" THEN "ok" ELSE "failed")
        /\ \A d \in Calls \ {c} : handler'[d] = handler[d]
    BY <1>0, Goes DEF Join, HandlerAt
  <1>3. /\ answer' \in [Calls -> Seq(Nat) \cup {None}] /\ (v.at = "written" => answer'[c] = v.hashed)
        /\ \A d \in Calls \ {c} : answer'[d] = answer[d]
    BY <1>0 DEF Join, Typed
  <1>4. Typed' /\ \A d \in Calls \ {c} : Same(d)
    BY <1>0, <1>1, <1>2, <1>3 DEF Typed, Same
  <1>5. Progress(c)'
    BY <1>0, <1>1, <1>2, <1>3 DEF CallInv, Progress
  <1>6. Line(c)'
    BY <1>0, <1>1, <1>2 DEF CallInv, Line, Filling, Finished, HoldsSender
  <1> QED
    BY <1>1, <1>4, <1>5, <1>6, HandlerSteps

\* A step of the writer leaves the handler as it is.
LEMMA WriterSteps ==
  ASSUME Inv, NEW c \in Calls, NEW w \in WriterTask, Becomes(c, w), w.at # "none", writer[c].at # "none",
         channel' \in [Calls -> Seq(Item)], \A d \in Calls \ {c} : channel'[d] = channel[d],
         store' \subseteq [key : Seq(Nat), body : Seq(Nat)], KeysAreDigests', StoreGrows, faults' \in 0..MaxFaults,
         writer[c].at = "failed" => w.at = "failed",
         writer[c].at = "written" => w.at = "written" /\ w.hashed = writer[c].hashed,
         Whole(w), Parted(w), Sized(w), InStorage(w, store'), Line(c)'
  PROVE  StepOf(c)
  <1>1. UNCHANGED <<handler, held, sent, answer, resets>> /\ Typed
    BY DEF Becomes, Inv
  <1>2. writer' \in [Calls -> WriterTask] /\ writer'[c] = w /\ \A d \in Calls \ {c} : writer'[d] = writer[d]
    BY <1>1 DEF Becomes, Typed
  <1>3. Typed' /\ \A d \in Calls \ {c} : Same(d)
    BY <1>1, <1>2 DEF Typed, Same
  <1>4. Whole(writer[c])' /\ Parted(writer[c])' /\ Sized(writer[c])' /\ InStorage(writer[c], store)'
    BY <1>2 DEF Whole, Parted, Sized, InStorage, InTurn, UpTo, End, Full
  <1>5. Progress(c)'
    BY <1>1, <1>2 DEF Inv, CallInv, Progress
  <1>6. (writer'[c].at = "none") <=> (sent'[c].chunks = 0)
    BY <1>1, <1>2 DEF Inv, CallInv
  <1> QED
    BY <1>3, <1>4, <1>5, <1>6 DEF StepOf, CallInv

Flagged(v, at, upload, staged, hit) == [v EXCEPT !.at = at, !.upload = upload, !.staged = staged, !.hit = hit]

\* A call of storage that moves no bytes.
LEMMA StorageSteps ==
  ASSUME StreamAssumption, Inv, NEW c \in Calls, writer[c].at \in Stage \ {"none", "failed", "written"},
         NEW at \in Stage \ {"none", "part", "last"}, NEW upload \in BOOLEAN, NEW staged \in BOOLEAN, NEW hit \in BOOLEAN,
         Becomes(c, Flagged(writer[c], at, upload, staged, hit)), UNCHANGED channel,
         store' \subseteq [key : Seq(Nat), body : Seq(Nat)], KeysAreDigests', StoreGrows, faults' \in 0..MaxFaults,
         upload => hit \/ at \in {"recv", "part", "last", "complete", "abort"},
         staged => hit \/ at \in {"promote", "clean"},
         at \in {"clean", "sidecar", "written"} => [key |-> writer[c].hashed, body |-> writer[c].hashed] \in store',
         at \in Filling => writer[c].at = "create" /\ at = "recv",
         at \in Finished => writer[c].at \in Finished \ {"last"} \/ (writer[c].at = "recv" /\ at = "complete"),
         at = "complete" => /\ writer[c].at = "recv" /\ writer[c].completed_parts # <<>> /\ writer[c].buffered_bytes = 0
                            /\ channel[c] = <<>> /\ ~HoldsSender(c)
  PROVE  StepOf(c)
  <1> DEFINE v == writer[c]
             w == Flagged(v, at, upload, staged, hit)
  <1>0. Typed /\ CallInv(c) /\ v \in WriterTask /\ channel \in [Calls -> Seq(Item)]
    BY DEF Inv, Typed
  <1>1. /\ w \in WriterTask /\ w.at = at /\ w.upload = upload /\ w.staged = staged /\ w.hit = hit
        /\ w.buffered_chunks = v.buffered_chunks /\ w.buffered_bytes = v.buffered_bytes /\ w.hashed = v.hashed
        /\ w.part = v.part /\ w.completed_parts = v.completed_parts /\ w.body = v.body
    BY <1>0 DEF WriterTask, Flagged
  <1> HIDE DEF w
  <1>2. at \notin {"none", "part", "last"}
    OBVIOUS
  <1>3. Whole(w)
    BY <1>0, <1>1, <1>2 DEF CallInv, Whole
  <1>4. Parted(w)
    <2>1. CASE at = "complete"
      <3>1. v.completed_parts # <<>> /\ Full(v.completed_parts, Len(v.completed_parts)) /\ v.completed_parts \in Seq(Nat)
        BY <1>0, <2>1 DEF CallInv, Sized, Filling, WriterTask
      <3>2. v.completed_parts[Len(v.completed_parts)] \in 1..MULTIPART_PART_SIZE
        <4> DEFINE n == Len(v.completed_parts)
        <4>1. n \in 1..n
          BY <3>1
        <4>2. MULTIPART_PART_SIZE \in Nat \ {0}
          BY DEF StreamAssumption
        <4> QED
          BY <3>1, <4>1, <4>2 DEF Full
      <3> QED
        BY <1>0, <1>1, <3>1, <3>2 DEF CallInv, Parted
    <2>2. CASE at # "complete"
      BY <1>0, <1>1, <2>2 DEF CallInv, Parted
    <2> QED
      BY <2>1, <2>2
  <1>5. Sized(w)
    <2>1. CASE at \in Filling
      BY <1>0, <1>1, <2>1 DEF CallInv, Sized, Filling, Finished
    <2>2. CASE at \in Finished
      BY <1>0, <1>1, <1>2, <2>2 DEF CallInv, Sized, Filling, Finished
    <2>3. CASE at \notin Filling \cup Finished
      BY <1>1, <1>2, <2>3 DEF Sized, Filling, Finished
    <2> QED
      BY <2>1, <2>2, <2>3
  <1>6. InStorage(w, store')
    BY <1>1 DEF InStorage
  <1>7. Line(c)'
    <2>0. UNCHANGED <<handler, held, sent, channel>> /\ writer'[c] = w
      BY <1>0 DEF Becomes, w, Typed
    <2>1. CASE at \in Filling
      <3>1. v.at \in Filling
        BY <2>1 DEF Filling
      <3> QED
        BY <1>0, <1>1, <2>0, <2>1, <3>1 DEF CallInv, Line, Filling, Finished, HoldsSender, InTurn, UpTo, End
    <2>2. CASE at \in Finished
      <3>1. CASE v.at \in Finished
        BY <1>0, <1>1, <2>0, <2>2, <3>1 DEF CallInv, Line, Filling, Finished, HoldsSender
      <3>2. CASE v.at \notin Finished
        <4>1. v.at = "recv" /\ channel[c] = <<>> /\ ~HoldsSender(c)
          BY <2>2, <3>2
        <4>2. handler[c] \in {"join", "ok"} => Len(v.hashed) = sent[c].bytes
          BY <1>0, <4>1 DEF CallInv, Line, Filling, UpTo
        <4>3. handler[c] # "send"
          BY <4>1 DEF HoldsSender
        <4> QED
          BY <1>1, <2>0, <2>2, <4>1, <4>2, <4>3 DEF Line, Filling, Finished, HoldsSender
      <3> QED
        BY <3>1, <3>2
    <2>3. CASE at \notin Filling \cup Finished
      BY <1>0, <1>1, <2>0, <2>3 DEF CallInv, Line
    <2> QED
      BY <2>1, <2>2, <2>3
  <1> QED
    BY <1>0, <1>1, <1>2, <1>3, <1>4, <1>5, <1>6, <1>7, WriterSteps DEF w

\* What a fault leaves, and what a step does that leaves the store.
LEMMA Faults ==
  ASSUME StreamAssumption, Inv, Works \/ (faults < MaxFaults /\ faults' = faults + 1)
  PROVE  faults' \in 0..MaxFaults
  <1>1. faults \in 0..MaxFaults /\ MaxFaults \in Nat
    BY DEF Inv, Typed, StreamAssumption
  <1>2. faults' = faults \/ (faults < MaxFaults /\ faults' = faults + 1)
    BY DEF Works
  <1> QED
    BY <1>1, <1>2

\* A step that leaves the store alone keeps what is said of it.
LEMMA StoreSame ==
  ASSUME Inv, UNCHANGED store
  PROVE  store' \subseteq [key : Seq(Nat), body : Seq(Nat)] /\ KeysAreDigests' /\ StoreGrows
  BY DEF Inv, Typed, KeysAreDigests, StoreGrows

\* When the parts are complete, their bytes are what was hashed.
LEMMA BodyIsHashed ==
  ASSUME Inv, NEW c \in Calls, writer[c].at \in Finished \ {"last"}
  PROVE  writer[c].hashed \in Seq(Nat) /\ writer[c].body = writer[c].hashed
  <1> DEFINE v == writer[c]
             body == v.body
             hashed == v.hashed
  <1>1. body \in Seq(Nat) /\ hashed \in Seq(Nat)
    BY DEF Inv, Typed, WriterTask
  <1>2. v.part = <<>> /\ v.buffered_bytes = 0
    BY DEF Inv, CallInv, Sized
  <1>3. hashed = Bytes(0, Len(hashed)) /\ body \o <<>> = Bytes(0, Len(body) + Len(<<>>)) /\ 0 = Len(hashed) - Len(body)
    BY <1>2 DEF Inv, CallInv, Whole
  <1> HIDE DEF body, hashed
  <1>4. body \o <<>> = body /\ Len(<<>>) = 0 /\ Len(body) \in Nat /\ Len(hashed) \in Nat
    BY <1>1, ConcatEmptySeq
  <1>5. Len(body) + Len(<<>>) = Len(hashed)
    BY <1>3, <1>4
  <1>6. body = hashed
    BY <1>3, <1>4, <1>5
  <1> QED
    BY <1>1, <1>6 DEF body, hashed

\* create_multipart_upload, complete_multipart_upload, abort_multipart_upload, delete_object
LEMMA UploadSteps ==
  ASSUME StreamAssumption, Inv, NEW c \in Calls, Create(c) \/ Complete(c) \/ Abort(c) \/ Clean(c)
  PROVE  StepOf(c)
  <1> DEFINE v == writer[c]
  <1>0. /\ v \in WriterTask /\ v.upload \in BOOLEAN /\ v.staged \in BOOLEAN /\ v.hit \in BOOLEAN
        /\ CallInv(c) /\ InStorage(v, store)
    BY DEF Inv, Typed, WriterTask, CallInv
  <1>1. UNCHANGED channel /\ UNCHANGED store
    BY DEF Create, Complete, Abort, Clean, objects
  <1>2. store' \subseteq [key : Seq(Nat), body : Seq(Nat)] /\ KeysAreDigests' /\ StoreGrows
    BY <1>1, StoreSame
  <1>3. CASE Create(c)
    <2>0. v.at = "create" /\ v.at \in Stage \ {"none", "failed", "written"} /\ {"recv", "failed"} \subseteq Stage \ {"none", "part", "last"}
          /\ "failed" \notin Filling \cup Finished /\ "recv" \notin Finished
      BY <1>3 DEF Create, At, Stage, Filling, Finished
    <2>1. CASE Works /\ Becomes(c, [v EXCEPT !.at = "recv", !.upload = TRUE])
      <3>1. Flagged(v, "recv", TRUE, v.staged, v.hit) = [v EXCEPT !.at = "recv", !.upload = TRUE]
        BY <1>0 DEF Flagged, WriterTask
      <3>2. v.staged => v.hit
        BY <1>0, <2>0 DEF InStorage
      <3>3. Becomes(c, Flagged(v, "recv", TRUE, v.staged, v.hit)) /\ faults' \in 0..MaxFaults
        BY <2>1, <3>1, Faults
      <3> QED
        BY <1>0, <1>1, <1>2, <2>0, <3>2, <3>3, StorageSteps
    <2>2. ASSUME NEW u \in BOOLEAN, Fails(c, [v EXCEPT !.at = "failed", !.upload = u]) PROVE StepOf(c)
      <3>1. Flagged(v, "failed", u, v.staged, TRUE) = [[v EXCEPT !.at = "failed", !.upload = u] EXCEPT !.hit = TRUE]
        BY <1>0 DEF Flagged, WriterTask
      <3>2. Becomes(c, Flagged(v, "failed", u, v.staged, TRUE)) /\ faults' \in 0..MaxFaults
        BY <2>2, <3>1, Faults DEF Fails
      <3> QED
        BY <1>0, <1>1, <1>2, <2>0, <3>2, StorageSteps
    <2> QED
      BY <1>3, <2>1, <2>2 DEF Create
  <1>4. CASE Complete(c)
    <2>0. v.at = "complete" /\ v.at \in Stage \ {"none", "failed", "written"} /\ {"promote", "abort"} \subseteq Stage \ {"none", "part", "last"}
          /\ v.at \in Finished \ {"last"} /\ "abort" \notin Filling \cup Finished /\ "promote" \notin Filling
      BY <1>4 DEF Complete, At, Stage, Filling, Finished
    <2>1. CASE Works /\ Becomes(c, [v EXCEPT !.at = "promote", !.upload = FALSE, !.staged = TRUE])
      <3>1. Flagged(v, "promote", FALSE, TRUE, v.hit) = [v EXCEPT !.at = "promote", !.upload = FALSE, !.staged = TRUE]
        BY <1>0 DEF Flagged, WriterTask
      <3>3. Becomes(c, Flagged(v, "promote", FALSE, TRUE, v.hit)) /\ faults' \in 0..MaxFaults
        BY <2>1, <3>1, Faults
      <3> QED
        BY <1>0, <1>1, <1>2, <2>0, <3>3, StorageSteps
    <2>2. ASSUME NEW done \in BOOLEAN, Fails(c, [v EXCEPT !.at = "abort", !.upload = ~done, !.staged = done]) PROVE StepOf(c)
      <3>1. Flagged(v, "abort", ~done, done, TRUE) = [[v EXCEPT !.at = "abort", !.upload = ~done, !.staged = done] EXCEPT !.hit = TRUE]
        BY <1>0 DEF Flagged, WriterTask
      <3>2. Becomes(c, Flagged(v, "abort", ~done, done, TRUE)) /\ faults' \in 0..MaxFaults
        BY <2>2, <3>1, Faults DEF Fails
      <3> QED
        BY <1>0, <1>1, <1>2, <2>0, <3>2, StorageSteps
    <2> QED
      BY <1>4, <2>1, <2>2 DEF Complete
  <1>5. CASE Abort(c)
    <2>0. v.at = "abort" /\ v.at \in Stage \ {"none", "failed", "written"} /\ "failed" \in Stage \ {"none", "part", "last"}
          /\ "failed" \notin Filling \cup Finished
      BY <1>5 DEF Abort, At, Stage, Filling, Finished
    <2>1. CASE Works /\ Becomes(c, [v EXCEPT !.at = "failed", !.upload = FALSE])
      <3>1. Flagged(v, "failed", FALSE, v.staged, v.hit) = [v EXCEPT !.at = "failed", !.upload = FALSE]
        BY <1>0 DEF Flagged, WriterTask
      <3>2. v.staged => v.hit
        BY <1>0, <2>0 DEF InStorage
      <3>3. Becomes(c, Flagged(v, "failed", FALSE, v.staged, v.hit)) /\ faults' \in 0..MaxFaults
        BY <2>1, <3>1, Faults
      <3> QED
        BY <1>0, <1>1, <1>2, <2>0, <3>2, <3>3, StorageSteps
    <2>2. ASSUME NEW u \in {FALSE, v.upload}, Fails(c, [v EXCEPT !.at = "failed", !.upload = u]) PROVE StepOf(c)
      <3>1. Flagged(v, "failed", u, v.staged, TRUE) = [[v EXCEPT !.at = "failed", !.upload = u] EXCEPT !.hit = TRUE]
        BY <1>0 DEF Flagged, WriterTask
      <3>2. Becomes(c, Flagged(v, "failed", u, v.staged, TRUE)) /\ faults' \in 0..MaxFaults
        BY <2>2, <3>1, Faults DEF Fails
      <3>3. u \in BOOLEAN
        BY <1>0
      <3> QED
        BY <1>0, <1>1, <1>2, <2>0, <3>2, <3>3, StorageSteps
    <2> QED
      BY <1>5, <2>1, <2>2 DEF Abort
  <1>6. CASE Clean(c)
    <2>0. v.at = "clean" /\ v.at \in Stage \ {"none", "failed", "written"} /\ {"sidecar", "failed"} \subseteq Stage \ {"none", "part", "last"}
          /\ v.at \in Finished \ {"last"} /\ "failed" \notin Filling \cup Finished /\ "sidecar" \notin Filling
      BY <1>6 DEF Clean, At, Stage, Filling, Finished
    <2>1. CASE Works /\ Becomes(c, [v EXCEPT !.at = "sidecar", !.staged = FALSE])
      <3>1. Flagged(v, "sidecar", v.upload, FALSE, v.hit) = [v EXCEPT !.at = "sidecar", !.staged = FALSE]
        BY <1>0 DEF Flagged, WriterTask
      <3>2. (v.upload => v.hit) /\ [key |-> v.hashed, body |-> v.hashed] \in store'
        BY <1>0, <1>1, <2>0 DEF InStorage
      <3>3. Becomes(c, Flagged(v, "sidecar", v.upload, FALSE, v.hit)) /\ faults' \in 0..MaxFaults
        BY <2>1, <3>1, Faults
      <3> QED
        BY <1>0, <1>1, <1>2, <2>0, <3>2, <3>3, StorageSteps
    <2>2. ASSUME NEW s \in BOOLEAN, Fails(c, [v EXCEPT !.at = "failed", !.staged = s]) PROVE StepOf(c)
      <3>1. Flagged(v, "failed", v.upload, s, TRUE) = [[v EXCEPT !.at = "failed", !.staged = s] EXCEPT !.hit = TRUE]
        BY <1>0 DEF Flagged, WriterTask
      <3>2. Becomes(c, Flagged(v, "failed", v.upload, s, TRUE)) /\ faults' \in 0..MaxFaults
        BY <2>2, <3>1, Faults DEF Fails
      <3> QED
        BY <1>0, <1>1, <1>2, <2>0, <3>2, StorageSteps
    <2> QED
      BY <1>6, <2>1, <2>2 DEF Clean
  <1> QED
    BY <1>3, <1>4, <1>5, <1>6

\* object_exists and copy_object: the key gets the bytes that were hashed, or keeps them.
LEMMA PromoteSteps ==
  ASSUME StreamAssumption, Inv, NEW c \in Calls, Promote(c)
  PROVE  StepOf(c)
  <1> DEFINE v == writer[c]
             h == v.hashed
             o == [key |-> h, body |-> h]
  <1>0. /\ v \in WriterTask /\ v.upload \in BOOLEAN /\ v.staged \in BOOLEAN /\ v.hit \in BOOLEAN
        /\ InStorage(v, store) /\ store \subseteq [key : Seq(Nat), body : Seq(Nat)] /\ KeysAreDigests
    BY DEF Inv, Typed, WriterTask, CallInv
  <1>1. /\ v.at = "promote" /\ v.at \in Stage \ {"none", "failed", "written"} /\ {"clean", "failed"} \subseteq Stage \ {"none", "part", "last"}
        /\ v.at \in Finished \ {"last"} /\ "failed" \notin Filling \cup Finished /\ "clean" \notin Filling
    BY DEF Promote, At, Stage, Filling, Finished
  <1>2. h \in Seq(Nat) /\ v.body = h /\ (v.upload => v.hit) /\ UNCHANGED channel
    BY <1>0, <1>1, BodyIsHashed DEF InStorage, Promote
  <1>3. o \in [key : Seq(Nat), body : Seq(Nat)] /\ o.key = h /\ o.body = h
    BY <1>2
  <1>4. \A x \in store : x.key = h => x = o
    BY <1>0 DEF KeysAreDigests
  <1>5. CASE UNCHANGED store /\ Fails(c, [v EXCEPT !.at = "failed"])
    <2>1. Flagged(v, "failed", v.upload, v.staged, TRUE) = [[v EXCEPT !.at = "failed"] EXCEPT !.hit = TRUE]
      BY <1>0 DEF Flagged, WriterTask
    <2>2. Becomes(c, Flagged(v, "failed", v.upload, v.staged, TRUE)) /\ faults' \in 0..MaxFaults
      BY <1>5, <2>1, Faults DEF Fails
    <2> QED
      BY <1>0, <1>1, <1>2, <1>5, <2>2, StoreSame, StorageSteps
  <1>6. ASSUME store' = store \cup {o}
        PROVE  store' \subseteq [key : Seq(Nat), body : Seq(Nat)] /\ KeysAreDigests' /\ StoreGrows /\ o \in store'
    <2>1. store' \subseteq [key : Seq(Nat), body : Seq(Nat)] /\ StoreGrows /\ o \in store'
      BY <1>0, <1>3, <1>6 DEF StoreGrows
    <2>2. KeysAreDigests'
      BY <1>0, <1>3, <1>6 DEF KeysAreDigests
    <2> QED
      BY <2>1, <2>2
  <1>7. CASE Works /\ Becomes(c, [v EXCEPT !.at = "clean"]) /\ store' = IF \E x \in store : x.key = h THEN store ELSE store \cup {o}
    <2>1. Flagged(v, "clean", v.upload, v.staged, v.hit) = [v EXCEPT !.at = "clean"]
      BY <1>0 DEF Flagged, WriterTask
    <2>2. Becomes(c, Flagged(v, "clean", v.upload, v.staged, v.hit)) /\ faults' \in 0..MaxFaults
      BY <1>7, <2>1, Faults
    <2>3. store' = store \cup {o}
      BY <1>4, <1>7
    <2> QED
      BY <1>0, <1>1, <1>2, <1>6, <2>2, <2>3, StorageSteps
  <1>8. ASSUME NEW at \in {"failed", "clean"}, Fails(c, [v EXCEPT !.at = at]), store' = {x \in store : x.key # h} \cup {o}
        PROVE  StepOf(c)
    <2>1. Flagged(v, at, v.upload, v.staged, TRUE) = [[v EXCEPT !.at = at] EXCEPT !.hit = TRUE]
      BY <1>0 DEF Flagged, WriterTask
    <2>2. Becomes(c, Flagged(v, at, v.upload, v.staged, TRUE)) /\ faults' \in 0..MaxFaults
      BY <1>8, <2>1, Faults DEF Fails
    <2>3. store' = store \cup {o}
      BY <1>4, <1>8
    <2> QED
      BY <1>0, <1>1, <1>2, <1>6, <1>8, <2>2, <2>3, StorageSteps
  <1> QED
    <2>1. Body(c) = h /\ Key(c) = h
      BY <1>2 DEF Body, Key
    <2> QED
      BY <1>5, <1>7, <1>8, <2>1 DEF Promote

\* put_object of the checksum
LEMMA SidecarSteps ==
  ASSUME StreamAssumption, Inv, NEW c \in Calls, Sidecar(c)
  PROVE  StepOf(c)
  <1> DEFINE v == writer[c]
  <1>0. /\ v \in WriterTask /\ v.upload \in BOOLEAN /\ v.staged \in BOOLEAN /\ v.hit \in BOOLEAN /\ InStorage(v, store)
    BY DEF Inv, Typed, WriterTask, CallInv
  <1>1. /\ v.at = "sidecar" /\ v.at \in Stage \ {"none", "failed", "written"} /\ {"written", "failed"} \subseteq Stage \ {"none", "part", "last"}
        /\ v.at \in Finished \ {"last"} /\ "failed" \notin Filling \cup Finished /\ "written" \notin Filling
    BY DEF Sidecar, At, Stage, Filling, Finished
  <1>2. UNCHANGED channel /\ UNCHANGED store
    BY DEF Sidecar
  <1>3. store' \subseteq [key : Seq(Nat), body : Seq(Nat)] /\ KeysAreDigests' /\ StoreGrows
    BY <1>2, StoreSame
  <1>4. (v.upload => v.hit) /\ (v.staged => v.hit) /\ [key |-> v.hashed, body |-> v.hashed] \in store'
    BY <1>0, <1>1, <1>2 DEF InStorage
  <1>5. CASE Works /\ Becomes(c, [v EXCEPT !.at = "written"])
    <2>1. Flagged(v, "written", v.upload, v.staged, v.hit) = [v EXCEPT !.at = "written"]
      BY <1>0 DEF Flagged, WriterTask
    <2>2. Becomes(c, Flagged(v, "written", v.upload, v.staged, v.hit)) /\ faults' \in 0..MaxFaults
      BY <1>5, <2>1, Faults
    <2> QED
      BY <1>0, <1>1, <1>2, <1>3, <1>4, <2>2, StorageSteps
  <1>6. CASE Fails(c, [v EXCEPT !.at = "failed"])
    <2>1. Flagged(v, "failed", v.upload, v.staged, TRUE) = [[v EXCEPT !.at = "failed"] EXCEPT !.hit = TRUE]
      BY <1>0 DEF Flagged, WriterTask
    <2>2. Becomes(c, Flagged(v, "failed", v.upload, v.staged, TRUE)) /\ faults' \in 0..MaxFaults
      BY <1>6, <2>1, Faults DEF Fails
    <2> QED
      BY <1>0, <1>1, <1>2, <1>3, <2>2, StorageSteps
  <1> QED
    BY <1>5, <1>6 DEF Sidecar

\* data.recv() yields None: everything that was sent is hashed.
LEMMA FinishSteps ==
  ASSUME StreamAssumption, Inv, NEW c \in Calls, Finish(c)
  PROVE  StepOf(c)
  <1> DEFINE v == writer[c]
             to == IF v.buffered_bytes > 0 THEN "last" ELSE IF v.completed_parts = <<>> THEN "abort" ELSE "complete"
  <1>0. /\ Typed /\ v \in WriterTask /\ v.upload \in BOOLEAN /\ v.staged \in BOOLEAN /\ v.hit \in BOOLEAN
        /\ v.buffered_bytes \in Nat /\ CallInv(c) /\ InStorage(v, store)
    BY DEF Inv, Typed, WriterTask, CallInv
  <1>1. v.at = "recv" /\ channel[c] = <<>> /\ ~HoldsSender(c) /\ UNCHANGED channel /\ UNCHANGED store /\ Works
    BY DEF Finish, At, objects
  <1>2. Becomes(c, [v EXCEPT !.at = to])
    BY DEF Finish
  <1>3. store' \subseteq [key : Seq(Nat), body : Seq(Nat)] /\ KeysAreDigests' /\ StoreGrows /\ faults' \in 0..MaxFaults
    BY <1>1, StoreSame, Faults
  <1>4. v.staged => v.hit
    BY <1>0, <1>1 DEF InStorage
  <1>5. CASE to \in {"abort", "complete"}
    <2>1. Flagged(v, to, v.upload, v.staged, v.hit) = [v EXCEPT !.at = to]
      BY <1>0 DEF Flagged, WriterTask
    <2>2. to \in Stage \ {"none", "part", "last"} /\ to \notin Filling /\ "abort" \notin Finished /\ v.at \in Stage \ {"none", "failed", "written"}
      BY <1>1, <1>5 DEF Stage, Filling, Finished
    <2>3. to = "complete" => v.completed_parts # <<>> /\ v.buffered_bytes = 0
      BY <1>0
    <2> HIDE DEF to
    <2>4. Becomes(c, Flagged(v, to, v.upload, v.staged, v.hit))
      BY <1>2, <2>1
    <2> QED
      BY <1>0, <1>1, <1>3, <1>4, <1>5, <2>2, <2>3, <2>4, StorageSteps
  <1>6. CASE to = "last"
    <2> DEFINE w == [v EXCEPT !.at = "last"]
    <2>1. /\ w \in WriterTask /\ w.at = "last" /\ w.upload = v.upload /\ w.staged = v.staged /\ w.hit = v.hit
          /\ w.buffered_chunks = v.buffered_chunks /\ w.buffered_bytes = v.buffered_bytes /\ w.hashed = v.hashed
          /\ w.part = v.part /\ w.completed_parts = v.completed_parts /\ w.body = v.body
      BY <1>0 DEF WriterTask, Stage, Finished
    <2>2. v.buffered_bytes > 0
      BY <1>6
    <2>3. Becomes(c, w)
      BY <1>2, <1>6
    <2>4. v.part = <<>> /\ v.buffered_bytes < MULTIPART_PART_SIZE /\ Full(v.completed_parts, Len(v.completed_parts))
      BY <1>0, <1>1 DEF CallInv, Sized, Filling
    <2>5. v.buffered_chunks # <<>>
      <3> DEFINE body == v.body
                 all == Len(v.hashed)
                 q == v.buffered_chunks
                 n == v.buffered_bytes
      <3>1. UpTo(q, Len(body) + Len(<<>>), all) /\ n = all - Len(body) /\ body \in Seq(Nat) /\ all \in Nat
        BY <1>0, <2>4 DEF CallInv, Whole, WriterTask
      <3>2. n > 0 /\ n \in Nat
        BY <1>0, <2>2
      <3> HIDE DEF body, all, q, n
      <3>3. q # <<>>
        BY <3>1, <3>2 DEF UpTo
      <3> QED
        BY <3>3 DEF q
    <2> HIDE DEF w
    <2>6. Whole(w)
      BY <1>0, <2>1, <2>5 DEF CallInv, Whole
    <2>7. Parted(w)
      BY <1>0, <2>1 DEF CallInv, Parted
    <2>8. Sized(w)
      BY <2>1, <2>2, <2>4 DEF Sized, Filling, Finished
    <2>9. InStorage(w, store')
      BY <1>4, <2>1 DEF InStorage
    <2>10. Line(c)'
      <3>0. UNCHANGED <<handler, held, sent, channel>> /\ writer'[c] = w
        BY <1>0, <1>1, <2>3 DEF Becomes, Typed
      <3>1. handler[c] \in {"join", "ok"} => Len(v.hashed) = sent[c].bytes
        BY <1>0, <1>1 DEF CallInv, Line, Filling, UpTo
      <3>2. handler[c] # "send"
        BY <1>1 DEF HoldsSender
      <3> QED
        BY <1>1, <2>1, <3>0, <3>1, <3>2 DEF Line, Filling, Finished, HoldsSender
    <2> QED
      BY <1>0, <1>1, <1>3, <2>1, <2>3, <2>6, <2>7, <2>8, <2>9, <2>10, WriterSteps DEF Typed
  <1> QED
    BY <1>5, <1>6

\* data.recv() yields a chunk, which is hashed and buffered, or an error.
LEMMA RecvSteps ==
  ASSUME StreamAssumption, Inv, NEW c \in Calls, Recv(c)
  PROVE  StepOf(c)
  <1> DEFINE v == writer[c]
             q == channel[c]
             x == q[1]
             bytes == v.buffered_bytes
             size == bytes + x.len
             hashed == v.hashed
             all == Len(hashed)
             line == v.buffered_chunks
             to == IF size >= MULTIPART_PART_SIZE THEN "part" ELSE "recv"
             new == hashed \o Bytes(x.from, x.len)
  <1>0. /\ Typed /\ v \in WriterTask /\ CallInv(c) /\ InStorage(v, store) /\ q \in Seq(Item) /\ q # <<>> /\ v.at = "recv"
        /\ hashed \in Seq(Nat) /\ line \in Seq(Slice) /\ v.body \in Seq(Nat) /\ all \in Nat /\ bytes \in Nat
        /\ MULTIPART_PART_SIZE \in Nat \ {0}
    <2>1. /\ Typed /\ v \in WriterTask /\ CallInv(c) /\ InStorage(v, store) /\ q \in Seq(Item) /\ q # <<>> /\ v.at = "recv"
      BY DEF Inv, Typed, CallInv, Recv, At
    <2>2. hashed \in Seq(Nat) /\ line \in Seq(Slice) /\ v.body \in Seq(Nat) /\ bytes \in Nat
      BY <2>1 DEF WriterTask
    <2>3. MULTIPART_PART_SIZE \in Nat \ {0}
      BY DEF StreamAssumption
    <2> QED
      BY <2>1, <2>2, <2>3
  <1>1. /\ channel' \in [Calls -> Seq(Item)] /\ channel'[c] = Tail(q) /\ \A d \in Calls \ {c} : channel'[d] = channel[d]
    <2>1. Tail(q) \in Seq(Item) /\ channel' = [channel EXCEPT ![c] = Tail(q)]
      BY <1>0 DEF Recv
    <2> QED
      BY <1>0, <2>1 DEF Typed
  <1>2. store' \subseteq [key : Seq(Nat), body : Seq(Nat)] /\ KeysAreDigests' /\ StoreGrows /\ faults' \in 0..MaxFaults
    BY StoreSame, Faults DEF Recv, objects
  <1>3. /\ v.staged => v.hit
        /\ v.part = <<>> /\ v.buffered_bytes < MULTIPART_PART_SIZE /\ Full(v.completed_parts, Len(v.completed_parts))
    BY <1>0 DEF InStorage, CallInv, Sized, Filling
  <1>4. Becomes(c, IF x = Error THEN [v EXCEPT !.at = "abort"]
                   ELSE [v EXCEPT !.hashed = new, !.buffered_bytes = size, !.buffered_chunks = Append(line, x), !.at = to])
    BY <1>0 DEF Recv
  <1>5. CASE x = Error
    <2> DEFINE w == [v EXCEPT !.at = "abort"]
    <2>1. /\ w \in WriterTask /\ w.at = "abort" /\ w.upload = v.upload /\ w.staged = v.staged /\ w.hit = v.hit
          /\ w.buffered_chunks = v.buffered_chunks /\ w.buffered_bytes = v.buffered_bytes /\ w.hashed = v.hashed
          /\ w.part = v.part /\ w.completed_parts = v.completed_parts /\ w.body = v.body
      BY <1>0 DEF WriterTask, Stage
    <2>2. Becomes(c, w)
      BY <1>4, <1>5
    <2> HIDE DEF w
    <2>3. Whole(w) /\ Parted(w) /\ Sized(w) /\ InStorage(w, store')
      <3>1. Whole(w)
        BY <1>0, <2>1 DEF CallInv, Whole
      <3>2. Parted(w)
        BY <1>0, <2>1 DEF CallInv, Parted
      <3>3. Sized(w) /\ InStorage(w, store')
        BY <1>3, <2>1 DEF Sized, InStorage, Filling, Finished
      <3> QED
        BY <3>1, <3>2, <3>3
    <2>4. Line(c)'
      <3>1. UNCHANGED <<handler, held, sent>> /\ writer'[c].at = "abort"
        BY <1>0, <2>1, <2>2 DEF Becomes, Typed
      <3> QED
        BY <1>0, <3>1 DEF CallInv, Line, Filling, Finished
    <2> QED
      BY <1>0, <1>1, <1>2, <2>1, <2>2, <2>3, <2>4, WriterSteps
  <1>6. CASE x # Error
    <2> DEFINE w == [v EXCEPT !.hashed = new, !.buffered_bytes = size, !.buffered_chunks = Append(line, x), !.at = to]
               at == Len(v.body)
    <2>0. InTurn(q, all) /\ (HoldsSender(c) => q[Len(q)] # Error)
          /\ (handler[c] # "dropped" => UpTo(q, all, IF handler[c] = "send" THEN held[c].from ELSE sent[c].bytes))
          /\ (handler[c] = "send" => held[c] # None /\ End(held[c]) = sent[c].bytes)
      BY <1>0 DEF CallInv, Line, Filling
    <2>1. /\ x \in Slice /\ x.from = all /\ End(x) \in Nat /\ InTurn(Tail(q), End(x))
          /\ Tail(q) # <<>> => Tail(q)[Len(Tail(q))] = q[Len(q)]
          /\ \A e : UpTo(q, all, e) => UpTo(Tail(q), End(x), e)
      <3> HIDE DEF q, all
      <3> QED
        BY <1>0, <1>6, <2>0, LineMoves
    <2>2. x.len \in Nat /\ End(x) = all + x.len /\ size \in Nat
      BY <1>0, <2>1 DEF Slice, End
    <2>3. hashed = Bytes(0, all) /\ InTurn(line, at) /\ UpTo(line, at, all) /\ bytes = all - at /\ at \in Nat
          /\ v.body \o <<>> = Bytes(0, at)
      <3>1. hashed = Bytes(0, all) /\ InTurn(line, at + Len(<<>>)) /\ UpTo(line, at + Len(<<>>), all) /\ bytes = all - at
            /\ v.body \o <<>> = Bytes(0, at + Len(<<>>))
        BY <1>0, <1>3 DEF CallInv, Whole
      <3>2. at \in Nat /\ at + Len(<<>>) = at
        BY <1>0
      <3> QED
        BY <3>1, <3>2
    <2>4. new = Bytes(0, all + x.len) /\ new \in Seq(Nat) /\ Len(new) = all + x.len
      <3>1. new = Bytes(0, all + x.len)
        BY <1>0, <2>1, <2>2, <2>3, BytesJoin
      <3> DEFINE m == all + x.len
      <3>2. m \in Nat
        BY <1>0, <2>2
      <3> HIDE DEF m
      <3>3. Bytes(0, m) \in Seq(Nat) /\ Len(Bytes(0, m)) = m
        BY <3>2, BytesType
      <3> QED
        BY <3>1, <3>3 DEF m
    <2>5. Append(line, x) \in Seq(Slice) /\ Append(line, x) # <<>> /\ InTurn(Append(line, x), at) /\ UpTo(Append(line, x), at, all + x.len)
      <3>1. line \in Seq(Item) /\ x \in Item /\ (line # <<>> => line[Len(line)] # Error)
        BY <1>0, <2>1 DEF Item, StreamAssumption
      <3>2. Append(line, x) \in Seq(Slice)
        BY <1>0, <2>1
      <3> HIDE DEF line, x, at, all
      <3> QED
        BY <1>0, <2>1, <2>2, <2>3, <3>1, <3>2, LineGrows
    <2> HIDE DEF new, size
    <2>6. /\ w \in WriterTask /\ w.at = to /\ w.upload = v.upload /\ w.staged = v.staged /\ w.hit = v.hit
          /\ w.buffered_chunks = Append(line, x) /\ w.buffered_bytes = size /\ w.hashed = new
          /\ w.part = v.part /\ w.completed_parts = v.completed_parts /\ w.body = v.body
      BY <1>0, <2>2, <2>4, <2>5 DEF WriterTask, Stage, Filling
    <2>7. Becomes(c, w)
      BY <1>4, <1>6
    <2> HIDE DEF w
    <2>8. Whole(w)
      <3>0. Len(w.body) + Len(w.part) = at + Len(<<>>) /\ Len(<<>>) = 0
        BY <1>3, <2>6
      <3>1. Len(w.body) + Len(w.part) = at /\ size = (all + x.len) - at
        <4> DEFINE n == x.len
        <4> HIDE DEF at, all, bytes, n
        <4>1. all \in Nat /\ bytes \in Nat /\ n \in Nat /\ at \in Nat /\ bytes = all - at
          BY <1>0, <2>2, <2>3 DEF n
        <4>2. size = bytes + n
          BY DEF size, n
        <4>3. size = (all + n) - at
          BY <4>1, <4>2
        <4>4. at + 0 = at
          BY <4>1
        <4>5. Len(w.body) + Len(w.part) = at
          BY ONLY <3>0, <4>4, Zenon
        <4> QED
          BY <4>3, <4>5 DEF n
      <3>2. w.body \o w.part = Bytes(0, at)
        BY <1>3, <2>3, <2>6
      <3> HIDE DEF all, x, line, at
      <3>3. w.hashed = Bytes(0, Len(w.hashed)) /\ Len(w.hashed) = all + x.len
        BY <2>4, <2>6
      <3>4. at = Len(w.body)
        BY <2>6 DEF at
      <3> QED
        BY <2>5, <2>6, <3>1, <3>2, <3>3, <3>4 DEF Whole
    <2>9. Parted(w)
      BY <1>0, <2>6 DEF CallInv, Parted
    <2>10. Sized(w)
      <3>1. Len(<<>>) = 0
        OBVIOUS
      <3> QED
        BY <1>0, <1>3, <2>2, <2>6, <3>1 DEF Sized, Filling, Finished
    <2>11. InStorage(w, store')
      BY <1>3, <2>6 DEF InStorage
    <2>12. Line(c)'
      <3>1. UNCHANGED <<handler, held, sent>> /\ writer'[c] = w
        BY <1>0, <2>7 DEF Becomes, Typed
      <3>2. to \in Filling /\ to \notin Finished
        BY DEF Filling, Finished
      <3>3. Len(writer'[c].hashed) = End(x) /\ writer'[c].at = to
        BY <2>2, <2>4, <2>6, <3>1
      <3>4. InTurn(Tail(q), End(x)) /\ (HoldsSender(c) /\ Tail(q) # <<>> => Tail(q)[Len(Tail(q))] # Error)
            /\ (handler[c] # "dropped" => UpTo(Tail(q), End(x), IF handler[c] = "send" THEN held[c].from ELSE sent[c].bytes))
        BY <2>0, <2>1
      <3> DEFINE e == End(x)
      <3> HIDE DEF to, e
      <3>5. /\ (handler[c] = "send" => held[c] # None /\ End(held[c]) = sent[c].bytes)'
            /\ InTurn(channel'[c], e) /\ (HoldsSender(c) /\ channel'[c] # <<>> => channel'[c][Len(channel'[c])] # Error)
            /\ (handler'[c] # "dropped" => UpTo(channel'[c], e, IF handler'[c] = "send" THEN held'[c].from ELSE sent'[c].bytes))
        BY <1>1, <2>0, <3>1, <3>4 DEF e, End
      <3>6. Len(writer'[c].hashed) = e
        BY <3>3 DEF e
      <3> QED
        BY <3>1, <3>2, <3>3, <3>5, <3>6 DEF Line, HoldsSender, InTurn, UpTo, End
    <2>13. to # "none"
      OBVIOUS
    <2> QED
      BY <1>0, <1>1, <1>2, <2>6, <2>7, <2>8, <2>9, <2>10, <2>11, <2>12, <2>13, WriterSteps
  <1> QED
    BY <1>5, <1>6

\* The line of a call whose writer neither receives nor sees the end.
LEMMA LineStays ==
  ASSUME NEW c \in Calls, CallInv(c), UNCHANGED <<handler, held, sent, channel>>, writer'[c].hashed = writer[c].hashed,
         writer'[c].at \in Filling => writer[c].at \in Filling,
         writer'[c].at \in Finished => writer[c].at \in Finished
  PROVE  Line(c)'
  BY DEF CallInv, Line, HoldsSender, InTurn, UpTo, End

\* take_part, and upload_part once the part is full.
LEMMA UploadedSteps ==
  ASSUME StreamAssumption, Inv, NEW c \in Calls, writer[c].at \in {"part", "last"}, NEW size \in Nat,
         NEW after \in {"part", "recv", "complete"}, Uploaded(c, size, after),
         writer[c].at = "part" => /\ size = MULTIPART_PART_SIZE
                                  /\ after = IF writer[c].buffered_bytes - MULTIPART_PART_SIZE >= MULTIPART_PART_SIZE
                                             THEN "part" ELSE "recv",
         writer[c].at = "last" => size = writer[c].buffered_bytes /\ after = "complete"
  PROVE  StepOf(c)
  <1> DEFINE v == writer[c]
             t == take_part(v, size)
             n == v.buffered_bytes
  <1>0. /\ Typed /\ v \in WriterTask /\ CallInv(c) /\ InStorage(v, store) /\ Whole(v) /\ Parted(v) /\ Sized(v)
        /\ n \in Nat /\ v.completed_parts \in Seq(Nat)
    BY DEF Inv, Typed, CallInv, WriterTask
  <1>1. MULTIPART_PART_SIZE \in Nat \ {0}
    BY DEF StreamAssumption
  <1>2. /\ v.buffered_chunks # <<>> /\ Len(v.part) < size /\ size <= n /\ size \in 1..MULTIPART_PART_SIZE
        /\ Full(v.completed_parts, Len(v.completed_parts))
    <2>1. v.buffered_chunks # <<>> /\ Full(v.completed_parts, Len(v.completed_parts))
      BY <1>0 DEF Whole, Sized, Filling
    <2>2. Len(v.part) < size /\ size <= n /\ size <= MULTIPART_PART_SIZE
      BY <1>0, <1>1 DEF Sized
    <2>3. Len(v.part) \in Nat
      BY <1>0 DEF WriterTask
    <2> QED
      BY <1>1, <2>1, <2>2, <2>3
  <1>3. UNCHANGED channel /\ UNCHANGED store
    BY DEF Uploaded, objects
  <1>4. store' \subseteq [key : Seq(Nat), body : Seq(Nat)] /\ KeysAreDigests' /\ StoreGrows /\ channel' \in [Calls -> Seq(Item)]
    BY <1>0, <1>3, StoreSame DEF Typed
  <1>5. /\ t \in WriterTask /\ t = [v EXCEPT !.part = t.part, !.buffered_chunks = t.buffered_chunks]
        /\ Len(t.part) \in Nat /\ Len(t.part) <= size
        /\ t.body \o t.part = Bytes(0, Len(t.body) + Len(t.part))
        /\ InTurn(t.buffered_chunks, Len(t.body) + Len(t.part))
        /\ UpTo(t.buffered_chunks, Len(t.body) + Len(t.part), Len(t.hashed))
        /\ Len(t.part) < size => t.buffered_chunks # <<>>
    BY <1>0, <1>2, TakePart
  <1>6. /\ \/ Len(t.part) < size /\ Works /\ Becomes(c, t)
           \/ /\ Len(t.part) = size /\ Works
              /\ Becomes(c, [t EXCEPT !.buffered_bytes = t.buffered_bytes - size, !.part = <<>>, !.at = after,
                                      !.completed_parts = Append(t.completed_parts, size), !.body = t.body \o t.part])
           \/ Len(t.part) = size /\ Fails(c, [t EXCEPT !.at = "abort"])
    BY DEF Uploaded
  <1> HIDE DEF t
  <1>7. /\ t.at = v.at /\ t.upload = v.upload /\ t.staged = v.staged /\ t.hit = v.hit
        /\ t.buffered_bytes = n /\ t.hashed = v.hashed /\ t.completed_parts = v.completed_parts /\ t.body = v.body
    BY <1>0, <1>5 DEF WriterTask
  <1>8. v.staged => v.hit
    BY <1>0 DEF InStorage
  <1>9. ASSUME NEW w, Becomes(c, w) PROVE writer'[c] = w /\ UNCHANGED <<handler, held, sent, channel>>
    BY <1>0, <1>3, <1>9 DEF Becomes, Typed
  <1>10. v.hashed = Bytes(0, Len(v.hashed)) /\ n = Len(v.hashed) - Len(v.body)
    BY <1>0 DEF Whole
  <1>11. CASE Len(t.part) < size /\ Works /\ Becomes(c, t)
    <2>1. faults' \in 0..MaxFaults
      BY <1>11, Faults
    <2>2. Whole(t)
      BY <1>5, <1>7, <1>10, <1>11 DEF Whole
    <2>3. Parted(t)
      BY <1>0, <1>7 DEF Parted
    <2>4. Sized(t)
      <3>1. Len(t.part) < size
        BY <1>11
      <3> QED
        BY <1>0, <1>1, <1>2, <1>7, <3>1 DEF Sized, Filling, Finished
    <2>5. InStorage(t, store')
      BY <1>7, <1>8 DEF InStorage
    <2>6. Line(c)'
      BY <1>0, <1>7, <1>9, <1>11, LineStays
    <2> QED
      BY <1>4, <1>3, <1>5, <1>7, <1>11, <2>1, <2>2, <2>3, <2>4, <2>5, <2>6, WriterSteps
  <1>12. CASE Len(t.part) = size /\ Fails(c, [t EXCEPT !.at = "abort"])
    <2> DEFINE w == [[t EXCEPT !.at = "abort"] EXCEPT !.hit = TRUE]
    <2>0. Becomes(c, w) /\ faults' \in 0..MaxFaults
      BY <1>12, Faults DEF Fails
    <2>1. /\ w \in WriterTask /\ w.at = "abort" /\ w.upload = v.upload /\ w.staged = v.staged /\ w.hit
          /\ w.buffered_chunks = t.buffered_chunks /\ w.buffered_bytes = n /\ w.hashed = v.hashed
          /\ w.part = t.part /\ w.completed_parts = v.completed_parts /\ w.body = t.body
      BY <1>5, <1>7 DEF WriterTask, Stage
    <2> HIDE DEF w
    <2>2. Whole(w)
      BY <1>5, <1>7, <1>10, <2>1 DEF Whole
    <2>3. Parted(w)
      BY <1>0, <2>1 DEF Parted
    <2>4. Sized(w) /\ InStorage(w, store')
      BY <2>1 DEF Sized, InStorage, Filling, Finished
    <2>5. Line(c)'
      <3>1. writer'[c] = w /\ UNCHANGED <<handler, held, sent, channel>>
        BY <1>9, <2>0
      <3> QED
        BY <1>0, <2>1, <3>1, LineStays DEF Filling, Finished
    <2> QED
      BY <1>4, <1>3, <2>0, <2>1, <2>2, <2>3, <2>4, <2>5, WriterSteps
  <1>13. CASE /\ Len(t.part) = size /\ Works
              /\ Becomes(c, [t EXCEPT !.buffered_bytes = t.buffered_bytes - size, !.part = <<>>, !.at = after,
                                      !.completed_parts = Append(t.completed_parts, size), !.body = t.body \o t.part])
    <2> DEFINE m == n - size
               body == t.body \o t.part
               parts == Append(v.completed_parts, size)
               w == [t EXCEPT !.buffered_bytes = m, !.part = <<>>, !.at = after, !.completed_parts = parts, !.body = body]
    <2>0. Becomes(c, w) /\ faults' \in 0..MaxFaults
      BY <1>7, <1>13, Faults
    <2>1. m \in Nat
      BY <1>0, <1>2
    <2>2. /\ body \in Seq(Nat) /\ Len(body) = Len(t.body) + Len(t.part) /\ Len(t.body) \in Nat /\ Len(body) \in Nat
      <3> DEFINE x == t.body
                 y == t.part
      <3>1. x \in Seq(Nat) /\ y \in Seq(Nat)
        BY <1>5 DEF WriterTask
      <3> HIDE DEF x, y
      <3>2. x \o y \in Seq(Nat) /\ Len(x \o y) = Len(x) + Len(y) /\ Len(x) \in Nat /\ Len(x \o y) \in Nat
        BY <3>1, ConcatProperties, LenProperties
      <3> QED
        BY <3>2 DEF x, y
    <2>3. parts \in Seq(Nat) /\ Len(parts) = Len(v.completed_parts) + 1 /\ parts[Len(parts)] = size /\ parts # <<>>
          /\ \A i \in 1..Len(v.completed_parts) : parts[i] = v.completed_parts[i]
      BY <1>0
    <2> HIDE DEF m, body, parts
    <2>4. /\ w \in WriterTask /\ w.at = after /\ w.upload = v.upload /\ w.staged = v.staged /\ w.hit = v.hit
          /\ w.buffered_chunks = t.buffered_chunks /\ w.buffered_bytes = m /\ w.hashed = v.hashed
          /\ w.part = <<>> /\ w.completed_parts = parts /\ w.body = body
      <3>1. after \in Stage /\ t \in WriterTask /\ <<>> \in Seq(Nat)
        BY <1>5 DEF Stage, Filling, Finished
      <3>2. w \in WriterTask
        BY <2>1, <2>2, <2>3, <3>1 DEF WriterTask
      <3>3. /\ w.at = after /\ w.upload = t.upload /\ w.staged = t.staged /\ w.hit = t.hit
            /\ w.buffered_chunks = t.buffered_chunks /\ w.buffered_bytes = m /\ w.hashed = t.hashed
            /\ w.part = <<>> /\ w.completed_parts = parts /\ w.body = body
        BY <3>1 DEF WriterTask
      <3> QED
        BY <1>7, <3>2, <3>3
    <2> HIDE DEF w
    <2>5. Len(<<>>) = 0 /\ body \o <<>> = body /\ Len(body) + 0 = Len(body)
      BY <2>2, ConcatEmptySeq
    <2>6. m = Len(v.hashed) - Len(body)
      <3> DEFINE all == Len(v.hashed)
                 uploaded == Len(t.body)
      <3>1. all \in Nat /\ uploaded \in Nat /\ n = all - uploaded /\ Len(body) = uploaded + size
        <4>1. v.hashed \in Seq(Nat)
          BY <1>0 DEF WriterTask
        <4> QED
          BY <1>7, <1>10, <1>13, <2>2, <4>1
      <3> HIDE DEF all, uploaded
      <3>2. m = all - Len(body)
        BY <1>0, <3>1 DEF m
      <3> QED
        BY <3>2 DEF all
    <2>7. /\ body = Bytes(0, Len(body)) /\ InTurn(t.buffered_chunks, Len(body)) /\ UpTo(t.buffered_chunks, Len(body), Len(v.hashed))
      BY <1>5, <1>7, <2>2 DEF body
    <2>8. after = "part" => t.buffered_chunks # <<>>
      <3>1. SUFFICES ASSUME after = "part", t.buffered_chunks = <<>> PROVE FALSE
        OBVIOUS
      <3>2. Len(body) = Len(v.hashed)
        BY <2>7, <3>1 DEF UpTo
      <3>3. m >= MULTIPART_PART_SIZE
        BY <3>1 DEF m
      <3>4. m = 0
        <4>1. Len(body) \in Nat
          BY <2>2
        <4>2. m = Len(body) - Len(body)
          BY ONLY <2>6, <3>2, Zenon
        <4> QED
          BY <4>1, <4>2
      <3> QED
        BY <1>1, <3>3, <3>4
    <2>9. Whole(w)
      <3>1. Len(w.body) + Len(w.part) = Len(body) /\ w.body \o w.part = body
        BY <2>4, <2>5
      <3> QED
        BY <1>10, <2>4, <2>6, <2>7, <2>8, <3>1 DEF Whole
    <2>10. Parted(w)
      <3>1. Len(parts) - 1 = Len(v.completed_parts)
        BY <1>0, <2>3
      <3>2. Full(parts, Len(parts) - 1)
        BY <1>2, <2>3, <3>1 DEF Full
      <3> QED
        BY <1>2, <2>3, <2>4, <3>2 DEF Parted
    <2>11. Sized(w)
      <3>1. after = "recv" => m < MULTIPART_PART_SIZE
        BY <1>0, <1>1, <2>1 DEF m
      <3>2. after = "part" => m >= MULTIPART_PART_SIZE
        BY <1>0, <1>1, <2>1 DEF m
      <3>3. after = "complete" => m = 0
        BY <1>0 DEF m
      <3>4. after \in {"recv", "part"} => Full(parts, Len(parts))
        <4>1. SUFFICES ASSUME after \in {"recv", "part"}, NEW i \in 1..Len(parts) PROVE parts[i] = MULTIPART_PART_SIZE
          BY DEF Full
        <4>2. size = MULTIPART_PART_SIZE
          BY <4>1
        <4>3. CASE i = Len(parts)
          BY <2>3, <4>2, <4>3
        <4>4. CASE i # Len(parts)
          <5>1. i \in 1..Len(v.completed_parts)
            BY <1>0, <2>3, <4>4
          <5> QED
            BY <1>2, <2>3, <5>1 DEF Full
        <4> QED
          BY <4>3, <4>4
      <3> QED
        BY <1>1, <2>4, <2>5, <3>1, <3>2, <3>3, <3>4 DEF Sized, Filling, Finished
    <2>12. InStorage(w, store')
      BY <1>8, <2>4 DEF InStorage
    <2>13. Line(c)'
      <3>1. writer'[c] = w /\ UNCHANGED <<handler, held, sent, channel>>
        BY <1>9, <2>0
      <3>2. (after \in Filling => v.at \in Filling) /\ (after \in Finished => v.at \in Finished)
        BY DEF Filling, Finished
      <3> QED
        BY <1>0, <2>4, <3>1, <3>2, LineStays
    <2> QED
      BY <1>4, <1>3, <2>0, <2>4, <2>9, <2>10, <2>11, <2>12, <2>13, WriterSteps
  <1> QED
    BY <1>6, <1>11, <1>12, <1>13

\* Full parts, and what is left.
LEMMA PartSteps ==
  ASSUME StreamAssumption, Inv, NEW c \in Calls, Part(c) \/ LastPart(c)
  PROVE  StepOf(c)
  <1>0. MULTIPART_PART_SIZE \in Nat /\ writer[c].buffered_bytes \in Nat
    BY DEF Inv, Typed, WriterTask, StreamAssumption
  <1>1. CASE Part(c)
    BY <1>0, <1>1, UploadedSteps DEF Part, At
  <1>2. CASE LastPart(c)
    BY <1>0, <1>2, UploadedSteps DEF LastPart, At
  <1> QED
    BY <1>1, <1>2

\* Each step of a client, a handler, a writer or a reset keeps the invariant.
LEMMA InvNext ==
  ASSUME StreamAssumption, Inv, [Next]_vars
  PROVE  Inv'
  <1>1. CASE UNCHANGED vars
    <2>1. UNCHANGED <<handler, held, sent, channel, writer, answer, store, faults, resets>>
      BY <1>1 DEF vars, depths, stream, objects
    <2>2. Typed' /\ KeysAreDigests' /\ StoreGrows /\ \A d \in Calls : Same(d)
      BY <2>1 DEF Inv, Typed, KeysAreDigests, StoreGrows, Same
    <2>3. ASSUME NEW d \in Calls PROVE CallInv(d)'
      BY <2>2, CallSame DEF Inv
    <2> QED
      BY <2>2, <2>3 DEF Inv
  <1>2. CASE Next
    <2>1. PICK c \in Calls : Client(c) \/ Handler(c) \/ Writer(c) \/ Reset(c)
      BY <1>2 DEF Next
    <2>2. CASE Client(c)
      BY <2>2, ChunkSteps, Admission, SendSteps, StepKeeps DEF Client
    <2>3. CASE Handler(c)
      BY <2>3, Admission, SendSteps, JoinSteps, StepKeeps DEF Handler
    <2>4. CASE Writer(c)
      BY <2>4, UploadSteps, RecvSteps, FinishSteps, PartSteps, PromoteSteps, SidecarSteps, StepKeeps DEF Writer
    <2>5. CASE Reset(c)
      BY <2>5, SendSteps, StepKeeps
    <2> QED
      BY <2>1, <2>2, <2>3, <2>4, <2>5
  <1> QED
    BY <1>1, <1>2

-----------------------------------------------------------------------------
(* The queue depth. *)

Counting == {c \in Calls : Open(c) \/ handler[c] = "dropped"}

\* A handler is counted from its increment to its decrement, or for good.
LEMMA DepthStep ==
  ASSUME StreamAssumption, Typed, queue_depth = Cardinality(Counting), [Next]_vars
  PROVE  queue_depth' = Cardinality(Counting')
  <1>0. IsFiniteSet(Calls) /\ IsFiniteSet(Counting) /\ Counting \subseteq Calls /\ Cardinality(Counting) \in Nat
    BY FS_Subset, FS_CardinalityType DEF StreamAssumption, Counting
  <1>1. ASSUME UNCHANGED queue_depth, \A d \in Calls : d \in Counting' <=> d \in Counting
        PROVE  queue_depth' = Cardinality(Counting')
    <2>1. Counting' = Counting
      BY <1>1 DEF Counting
    <2> QED
      BY <1>1, <2>1
  <1>2. CASE UNCHANGED vars
    BY <1>1, <1>2 DEF vars, depths, Counting, Open
  <1>3. CASE Next
    <2>1. PICK c \in Calls : Client(c) \/ Handler(c) \/ Writer(c) \/ Reset(c)
      BY <1>3 DEF Next
    \* Where the handler goes, and what that does to the counter.
    <2>2. ASSUME NEW at \in HandlerAt, Goto(c, at)
          PROVE  \A d \in Calls : d \in Counting' <=> (IF d = c THEN at \in Streaming \cup {"dropped"} ELSE d \in Counting)
      BY <2>2, Goes DEF Counting, Open
    <2>3. ASSUME handler[c] \notin Streaming \cup {"dropped"}, NEW at \in Streaming, Goto(c, at), queue_depth' = queue_depth + 1
          PROVE  queue_depth' = Cardinality(Counting')
      <3>1. c \notin Counting
        BY <2>3 DEF Counting, Open
      <3>2. Counting' = Counting \cup {c}
        BY <2>2, <2>3 DEF Counting, HandlerAt
      <3> QED
        BY <1>0, <2>3, <3>1, <3>2, FS_AddElement
    <2>4. ASSUME handler[c] \in Streaming, NEW at \in {"failed", "ok"}, Goto(c, at), queue_depth' = queue_depth - 1
          PROVE  queue_depth' = Cardinality(Counting')
      <3>1. c \in Counting
        BY <2>4 DEF Counting, Open
      <3>2. Counting' = Counting \ {c}
        BY <2>2, <2>4 DEF Counting, HandlerAt, Streaming
      <3> QED
        BY <1>0, <2>4, <3>1, <3>2, FS_RemoveElement
    <2>5. ASSUME NEW at \in HandlerAt, Goto(c, at), UNCHANGED queue_depth,
                 (handler[c] \in Streaming \cup {"dropped"}) <=> (at \in Streaming \cup {"dropped"})
          PROVE  queue_depth' = Cardinality(Counting')
      <3>1. c \in Counting <=> at \in Streaming \cup {"dropped"}
        BY <2>5 DEF Counting, Open
      <3> QED
        BY <1>1, <2>2, <2>5, <3>1
    <2>6. ASSUME UNCHANGED <<queue_depth, handler>> PROVE queue_depth' = Cardinality(Counting')
      BY <1>1, <2>6 DEF Counting, Open
    <2>7. CASE Test(c)
      BY <2>5, <2>7 DEF Test, depths, HandlerAt, Streaming
    <2>8. CASE increment(c)
      BY <2>3, <2>8 DEF increment, Counted, Streaming
    <2>9. CASE EmptyStream(c)
      <3>1. queue_depth' = queue_depth - 1
        BY <1>0, <2>9 DEF EmptyStream, Counted
      <3> QED
        BY <2>4, <2>9, <3>1 DEF EmptyStream, Streaming
    <2>10. CASE Join(c)
      <3>1. queue_depth' = queue_depth - 1
        BY <1>0, <2>10 DEF Join, Counted
      <3> QED
        BY <2>4, <2>10, <3>1 DEF Join, Streaming
    <2>11. ASSUME NEW size \in ChunkSizes, Chunk(c, size) PROVE queue_depth' = Cardinality(Counting')
      BY <2>5, <2>11 DEF Chunk, depths, HandlerAt, Streaming
    <2>12. CASE Send(c)
      BY <2>5, <2>12 DEF Send, Sending, depths, HandlerAt, Streaming
    <2>13. CASE BadChunk(c)
      BY <2>5, <2>13 DEF BadChunk, Sending, depths, HandlerAt, Streaming
    <2>14. CASE EndOfStream(c)
      BY <2>5, <2>14 DEF EndOfStream, depths, HandlerAt, Streaming
    <2>15. CASE Reset(c)
      BY <2>5, <2>15 DEF Reset, Open, depths, HandlerAt, Streaming
    <2>16. CASE LoadDepth(c) \/ SetGauge(c)
      BY <2>6, <2>16 DEF LoadDepth, SetGauge
    <2>17. CASE Writer(c)
      <3>1. \E w : Becomes(c, w)
        BY <2>17 DEF Writer, Create, Recv, Finish, Part, LastPart, Uploaded, Complete, Abort, Promote, Clean, Sidecar, Fails
      <3> QED
        BY <2>6, <3>1 DEF Becomes, depths
    <2> QED
      BY <2>1, <2>7, <2>8, <2>9, <2>10, <2>11, <2>12, <2>13, <2>14, <2>15, <2>16, <2>17 DEF Client, Handler
  <1> QED
    BY <1>2, <1>3

-----------------------------------------------------------------------------
(* The invariant. *)

\* StreamInv is the invariant of the steps above and the count of the handlers.
LEMMA StreamParts ==
  ASSUME StreamAssumption
  PROVE  StreamInv <=> Inv /\ queue_depth = Cardinality(Counting)
  <1>1. DepthAccounts <=> queue_depth = Cardinality(Counting)
    BY DEF DepthAccounts, Counting
  <1>2. queue_depth = Cardinality(Counting) => queue_depth \in 0..Cardinality(Calls)
    <2>1. Cardinality(Counting) \in Nat /\ Cardinality(Calls) \in Nat /\ Cardinality(Counting) <= Cardinality(Calls)
      BY FS_Subset, FS_CardinalityType DEF StreamAssumption, Counting
    <2> QED
      BY <2>1
  <1>3. TypeOK <=> /\ Typed /\ queue_depth \in 0..Cardinality(Calls)
                   /\ \A c \in Calls : (writer[c].at = "none") <=> (sent[c].chunks = 0)
    BY DEF TypeOK, Typed, HandlerAt, Item
  <1> QED
    BY <1>1, <1>2, <1>3 DEF StreamInv, Inv, CallInv, BufferIsWhole, OnlyTheLastIsShort

\* It holds before any call has come.
LEMMA StreamInit ==
  ASSUME StreamAssumption, Init
  PROVE  StreamInv
  <1>1. Counting = {} /\ queue_depth = 0
    BY DEF Init, Counting, Open, Streaming
  <1> QED
    BY <1>1, InvInit, StreamParts, FS_EmptySet

\* Every step keeps it.
LEMMA StreamNext ==
  ASSUME StreamAssumption, StreamInv, [Next]_vars
  PROVE  StreamInv'
  <1>1. Inv /\ queue_depth = Cardinality(Counting)
    BY StreamParts
  <1>2. Inv' /\ queue_depth' = Cardinality(Counting')
    BY <1>1, InvNext, DepthStep DEF Inv
  <1>3. queue_depth' \in 0..Cardinality(Calls)
    <2>1. Counting' \subseteq Calls
      BY DEF Counting
    <2>2. Cardinality(Counting') \in Nat /\ Cardinality(Calls) \in Nat /\ Cardinality(Counting') <= Cardinality(Calls)
      BY <2>1, FS_Subset, FS_CardinalityType DEF StreamAssumption
    <2> QED
      BY <1>2, <2>2
  <1>4. TypeOK'
    BY <1>2, <1>3 DEF TypeOK, Inv, Typed, CallInv, HandlerAt, Item
  <1>5. DepthAccounts'
    BY <1>2 DEF DepthAccounts, Counting
  <1> QED
    BY <1>2, <1>4, <1>5 DEF StreamInv, Inv, CallInv, BufferIsWhole, OnlyTheLastIsShort

\* What a client is told, and what is left behind, follow from where the writer is.
LEMMA StreamHolds ==
  ASSUME StreamAssumption, StreamInv
  PROVE  AnsweredIsStored /\ NothingLeftBehind
  <1>1. ASSUME NEW c \in Calls, Ok(c)
        PROVE  answer[c] = [i \in 1..sent[c].bytes |-> i] /\ [key |-> answer[c], body |-> answer[c]] \in store
    <2> DEFINE n == sent[c].bytes
    <2>1. n \in Nat /\ writer[c].at = "written" /\ answer[c] = writer[c].hashed
      BY <1>1 DEF StreamInv, TypeOK, Progress, Ok
    <2>2. Len(writer[c].hashed) = n /\ [key |-> answer[c], body |-> answer[c]] \in store
      BY <1>1, <2>1 DEF StreamInv, Line, InStorage, Finished, Ok
    <2>3. answer[c] = Bytes(0, n)
      BY <2>1, <2>2 DEF StreamInv, BufferIsWhole, Whole
    <2> HIDE DEF n
    <2>4. Bytes(0, n) = [i \in 1..n |-> i]
      BY <2>1 DEF Bytes
    <2> QED
      BY <2>2, <2>3, <2>4 DEF n
  <1>2. ASSUME NEW c \in Calls, Idle(c), ~writer[c].hit PROVE ~writer[c].upload /\ ~writer[c].staged
    BY <1>2 DEF StreamInv, InStorage, Idle, Receiving
  <1> QED
    BY <1>1, <1>2 DEF AnsweredIsStored, NothingLeftBehind

\* A streaming write keeps its bytes whole: the queue depth counts the handlers, nothing is
\* lost or moved between the client, the channel, the buffer and the parts, only the last
\* part is short, an object's key is the digest of its bytes, a client that is told success
\* has its whole stream under the checksum it is told, and a call that met no storage error
\* leaves nothing else.
THEOREM StreamIsWhole ==
  ASSUME StreamAssumption
  PROVE  Spec => [](StreamInv /\ AnsweredIsStored /\ NothingLeftBehind)
  <1>1. Init => StreamInv
    BY StreamInit
  <1>2. StreamInv /\ [Next]_vars => StreamInv'
    BY StreamNext
  <1>3. StreamInv => AnsweredIsStored /\ NothingLeftBehind
    BY StreamHolds
  <1> QED
    BY <1>1, <1>2, <1>3, PTL DEF Spec
=============================================================================
