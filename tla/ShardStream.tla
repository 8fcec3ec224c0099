----------------------------- MODULE ShardStream -----------------------------
(***************************************************************************)
(* The WriteShard calls of the data plane: the admission by queue depth    *)
(* and the handler (grpc_service.rs, backpressure.rs), the bounded channel *)
(* to a writer task of its own, and the multipart upload with its running  *)
(* checksum (checkpoint/writer.rs).  All calls carry the same shard, as    *)
(* retries do.                                                             *)
(*                                                                         *)
(* The bytes of a stream are numbered, so a digest is the sequence it is   *)
(* computed over; a chunk is a slice of the stream, as a Bytes is.  When a *)
(* client resets its stream, or its process dies, the server drops the     *)
(* handler's future at the await it is in; the task it spawned goes on.    *)
(***************************************************************************)
EXTENDS Integers, FiniteSets, Sequences

CONSTANTS
  Calls,
  max_depth,           \* config.backpressure_queue_depth
  MULTIPART_PART_SIZE,
  ChannelSize,         \* mpsc::channel(8)
  ChunkSizes, MaxBytes, MaxChunks, \* what the clients send
  MaxFaults, MaxResets, \* bounds on storage errors and on broken streams
  Error, None, Due

Slice == [from : Nat, len : Nat]
StreamAssumption ==
  /\ IsFiniteSet(Calls) /\ {Error, None} \cap Slice = {}
  /\ {max_depth, MULTIPART_PART_SIZE, ChannelSize} \subseteq Nat \ {0}
  /\ ChunkSizes \subseteq Nat /\ {MaxBytes, MaxChunks, MaxFaults, MaxResets} \subseteq Nat

VARIABLES
  queue_depth,
  gauge,    \* BACKPRESSURE_QUEUE_DEPTH
  metric,   \* call -> Due, or the depth it has loaded for the gauge
  handler,  \* call -> where its handler is, or how it ended
  held,     \* call -> the chunk being sent to the writer
  sent,     \* call -> [bytes, chunks] the client has sent
  channel,  \* call -> chunks on their way to the writer
  writer,   \* call -> the writer task
  answer,   \* call -> sha256_checksum of WriteShardResponse
  store,    \* objects [key, body] under content-addressed keys
  sidecar,  \* the .sha256 object
  faults, resets

depths == <<queue_depth, gauge, metric>>
stream == <<held, sent, channel>>
objects == <<store, sidecar>>
vars == <<depths, handler, stream, writer, answer, objects, faults, resets>>

\* The bytes of a slice, and its end.
Bytes(from, len) == [i \in 1..len |-> from + i]
End(chunk) == chunk.from + chunk.len
Least(a, b) == IF a < b THEN a ELSE b

\* body: the bytes of the uploaded parts; completed_parts: their sizes
NoWriter == [at |-> "none", buffered_chunks |-> <<>>, buffered_bytes |-> 0, hashed |-> <<>>,
             part |-> <<>>, completed_parts |-> <<>>, body |-> <<>>,
             upload |-> FALSE, staged |-> FALSE, hit |-> FALSE]

\* Handlers between increment and decrement.
Streaming == {"first", "send", "next", "join"}
Open(c) == handler[c] \in Streaming
HoldsSender_Joining(c) == handler[c] \in {"send", "next", "join"}
HoldsSender(c) == handler[c] \in {"send", "next"}
Receiving(c) == writer[c].at \notin {"failed", "written"}

Init ==
  /\ queue_depth = 0 /\ gauge = 0 /\ metric = [c \in Calls |-> None] /\ handler = [c \in Calls |-> "new"]
  /\ held = [c \in Calls |-> None] /\ sent = [c \in Calls |-> [bytes |-> 0, chunks |-> 0]]
  /\ channel = [c \in Calls |-> <<>>] /\ writer = [c \in Calls |-> NoWriter]
  /\ answer = [c \in Calls |-> None] /\ store = {} /\ sidecar = None
  /\ faults = 0 /\ resets = 0
-----------------------------------------------------------------------------
Goto(c, at) == metric[c] = None /\ handler' = [handler EXCEPT ![c] = at]

Counted(c, d) ==
  /\ queue_depth' = queue_depth + d /\ metric' = [metric EXCEPT ![c] = Due] /\ UNCHANGED gauge
\* BACKPRESSURE_QUEUE_DEPTH.set(depth()): two atomic operations of the handler's thread
LoadDepth(c) ==
  /\ metric[c] = Due /\ metric' = [metric EXCEPT ![c] = queue_depth]
  /\ UNCHANGED <<queue_depth, gauge, handler, stream, writer, answer, objects, faults, resets>>
SetGauge(c) ==
  /\ metric[c] \notin {None, Due} /\ gauge' = metric[c] /\ metric' = [metric EXCEPT ![c] = None]
  /\ UNCHANGED <<queue_depth, handler, stream, writer, answer, objects, faults, resets>>

\* The depth is read here and incremented in a later instruction of the same thread.
Test(c) ==
  /\ handler[c] = "new"
  /\ Goto(c, IF queue_depth >= max_depth THEN "refused" ELSE "admitted")
  /\ UNCHANGED <<depths, stream, writer, answer, objects, faults, resets>>

increment(c) ==
  /\ handler[c] = "admitted" /\ Goto(c, "first")
  /\ Counted(c, 1)
  /\ UNCHANGED <<stream, writer, answer, objects, faults, resets>>

\* stream.next() yields a chunk; the first one starts the writer.
Chunk(c, size) ==
  /\ handler[c] \in {"first", "next"} /\ Goto(c, "send")
  /\ sent[c].bytes + size <= MaxBytes /\ sent[c].chunks < MaxChunks
  /\ held' = [held EXCEPT ![c] = [from |-> sent[c].bytes, len |-> size]]
  /\ sent' = [sent EXCEPT ![c] = [bytes |-> @.bytes + size, chunks |-> @.chunks + 1]]
  /\ writer' = [writer EXCEPT ![c].at = IF handler[c] = "first" THEN "create" ELSE @]
  /\ UNCHANGED <<depths, channel, answer, objects, faults, resets>>

\* None, or an error, instead of a first chunk.
EmptyStream(c) ==
  /\ handler[c] = "first" /\ Goto(c, "failed") /\ Counted(c, -1)
  /\ UNCHANGED <<stream, writer, answer, objects, faults, resets>>

\* chunk_tx.send: waits for room, and fails once the writer has stopped.
Sending(c, item, after) ==
  \/ /\ Receiving(c) /\ Len(channel[c]) < ChannelSize
     /\ channel' = [channel EXCEPT ![c] = Append(@, item)] /\ Goto(c, after)
  \/ /\ ~Receiving(c) /\ UNCHANGED channel /\ Goto(c, "join")
Send_Try(c) ==
  /\ handler[c] = "send" /\ held' = [held EXCEPT ![c] = None]
  /\ Goto(c, IF Receiving(c) THEN "next" ELSE "join")
  /\ channel' = [channel EXCEPT ![c] = IF Len(@) < ChannelSize THEN Append(@, held[c]) ELSE @]
  /\ UNCHANGED <<depths, sent, writer, answer, objects, faults, resets>>
Send(c) ==
  /\ handler[c] = "send" /\ Sending(c, held[c], "next")
  /\ held' = [held EXCEPT ![c] = None]
  /\ UNCHANGED <<depths, sent, writer, answer, objects, faults, resets>>
\* Metadata that changed within the stream, or an error of the stream.
BadChunk(c) ==
  /\ handler[c] = "next" /\ Sending(c, Error, "join")
  /\ UNCHANGED <<depths, held, sent, writer, answer, objects, faults, resets>>

EndOfStream(c) ==
  /\ handler[c] = "next" /\ Goto(c, "join")
  /\ UNCHANGED <<depths, stream, writer, answer, objects, faults, resets>>

\* The server drops the future: nothing after the await runs, chunk_tx is dropped.  The
\* handler may have been polled once more and have passed an error on.
Reset(c) ==
  /\ Open(c) /\ resets < MaxResets /\ resets' = resets + 1
  /\ Goto(c, "dropped") /\ held' = [held EXCEPT ![c] = None]
  /\ \/ UNCHANGED channel
     \/ /\ handler[c] = "next" /\ Receiving(c) /\ Len(channel[c]) < ChannelSize
        /\ channel' = [channel EXCEPT ![c] = Append(@, Error)]
  /\ UNCHANGED <<depths, sent, writer, answer, objects, faults>>

\* writer_task.await and the answer.
Join(c) ==
  /\ handler[c] = "join" /\ ~Receiving(c)
  /\ Goto(c, IF writer[c].at = "written" THEN "ok" ELSE "failed")
  /\ Counted(c, -1)
  /\ answer' = [answer EXCEPT ![c] = IF writer[c].at = "written" THEN writer[c].hashed ELSE None]
  /\ UNCHANGED <<stream, writer, objects, faults, resets>>
-----------------------------------------------------------------------------
\* A turn of take_part's loop: the first chunk is split, or used up and removed.
take_part(w, part_size) ==
  LET chunk == w.buffered_chunks[1]
      take == Least(part_size - Len(w.part), chunk.len) IN
  [w EXCEPT !.part = @ \o Bytes(chunk.from, take),
            !.buffered_chunks = IF take = chunk.len THEN Tail(@)
                                ELSE [@ EXCEPT ![1] = [from |-> chunk.from + take, len |-> chunk.len - take]]]

At(c, at) == writer[c].at = at
Becomes(c, w) ==
  /\ writer' = [writer EXCEPT ![c] = w]
  /\ UNCHANGED <<depths, handler, held, sent, answer, resets>>
Works == UNCHANGED faults
Fails(c, w) == faults < MaxFaults /\ faults' = faults + 1 /\ Becomes(c, [w EXCEPT !.hit = TRUE])

\* create_multipart_upload
Create(c) ==
  /\ At(c, "create") /\ UNCHANGED <<channel, objects>>
  /\ \/ Works /\ Becomes(c, [writer[c] EXCEPT !.at = "recv", !.upload = TRUE])
     \/ \E u \in BOOLEAN : Fails(c, [writer[c] EXCEPT !.at = "failed", !.upload = u])

\* data.recv() yields a chunk, to be hashed and buffered, or an error.
Recv(c) ==
  /\ At(c, "recv") /\ channel[c] # <<>>
  /\ channel' = [channel EXCEPT ![c] = Tail(@)] /\ Works /\ UNCHANGED objects
  /\ LET chunk == Head(channel[c])
         w == writer[c]
         size == w.buffered_bytes + chunk.len IN
     Becomes(c, IF chunk = Error THEN [w EXCEPT !.at = "abort"]
                ELSE [w EXCEPT !.hashed = @ \o Bytes(chunk.from, chunk.len), !.buffered_bytes = size,
                               !.buffered_chunks = Append(@, chunk),
                               !.at = IF size >= MULTIPART_PART_SIZE THEN "part" ELSE "recv"])

\* data.recv() yields None; an empty shard is an error.
Finish(c) ==
  /\ At(c, "recv") /\ channel[c] = <<>> /\ ~HoldsSender(c)
  /\ Works /\ UNCHANGED <<channel, objects>>
  /\ Becomes(c, [writer[c] EXCEPT !.at = IF writer[c].buffered_bytes > 0 THEN "last"
                                         ELSE IF writer[c].completed_parts = <<>> THEN "abort" ELSE "complete"])

\* take_part and, once it has filled the part, upload_part
Uploaded(c, size, after) ==
  LET w == take_part(writer[c], size) IN
  /\ UNCHANGED <<channel, objects>>
  /\ \/ Len(w.part) < size /\ Works /\ Becomes(c, w)
     \/ /\ Len(w.part) = size /\ Works
        /\ Becomes(c, [w EXCEPT !.buffered_bytes = @ - size, !.part = <<>>, !.at = after,
                              !.completed_parts = Append(@, size), !.body = @ \o w.part])
     \/ Len(w.part) = size /\ Fails(c, [w EXCEPT !.at = "abort"])
\* Full parts, as long as the buffer holds one
Part(c) ==
  /\ At(c, "part")
  /\ LET rest == writer[c].buffered_bytes - MULTIPART_PART_SIZE IN
     Uploaded(c, MULTIPART_PART_SIZE, IF rest >= MULTIPART_PART_SIZE THEN "part" ELSE "recv")
\* What is left
LastPart(c) == At(c, "last") /\ Uploaded(c, writer[c].buffered_bytes, "complete")

\* complete_multipart_upload; an error may come although it was applied.
Complete(c) ==
  /\ At(c, "complete") /\ UNCHANGED <<channel, objects>>
  /\ \/ Works /\ Becomes(c, [writer[c] EXCEPT !.at = "promote", !.upload = FALSE, !.staged = TRUE])
     \/ \E done \in BOOLEAN :
          Fails(c, [writer[c] EXCEPT !.at = "abort", !.upload = ~done, !.staged = done])

\* abort_multipart_upload, its result ignored
Abort(c) ==
  /\ At(c, "abort") /\ UNCHANGED <<channel, objects>>
  /\ \/ Works /\ Becomes(c, [writer[c] EXCEPT !.at = "failed", !.upload = FALSE])
     \/ \E u \in {FALSE, writer[c].upload} : Fails(c, [writer[c] EXCEPT !.at = "failed", !.upload = u])

Body(c) == writer[c].body
Key(c) == writer[c].hashed
\* object_exists, else copy_object.  An error of the first counts as absence, so an object
\* that exists is overwritten; one of the second may come although it was applied.
Promote(c) ==
  /\ At(c, "promote") /\ UNCHANGED <<channel, sidecar>>
  /\ \/ /\ Works /\ Becomes(c, [writer[c] EXCEPT !.at = "clean"])
        /\ store' = IF \E o \in store : o.key = Key(c) THEN store
                    ELSE store \cup {[key |-> Key(c), body |-> Body(c)]}
     \/ Fails(c, [writer[c] EXCEPT !.at = "failed"]) /\ UNCHANGED store
     \/ \E at \in {"failed", "clean"} :
          /\ Fails(c, [writer[c] EXCEPT !.at = at])
          /\ store' = {o \in store : o.key # Key(c)} \cup {[key |-> Key(c), body |-> Body(c)]}

\* delete_object of the staging key
Clean(c) ==
  /\ At(c, "clean") /\ UNCHANGED <<channel, objects>>
  /\ \/ Works /\ Becomes(c, [writer[c] EXCEPT !.at = "sidecar", !.staged = FALSE])
     \/ \E s \in BOOLEAN : Fails(c, [writer[c] EXCEPT !.at = "failed", !.staged = s])

\* put_object of the checksum
Sidecar(c) ==
  /\ At(c, "sidecar") /\ UNCHANGED <<channel, store>>
  /\ \/ Works /\ sidecar' = Key(c) /\ Becomes(c, [writer[c] EXCEPT !.at = "written"])
     \/ /\ Fails(c, [writer[c] EXCEPT !.at = "failed"])
        /\ sidecar' \in {sidecar, Key(c)}
-----------------------------------------------------------------------------
Client(c) == (\E size \in ChunkSizes : Chunk(c, size)) \/ EmptyStream(c) \/ BadChunk(c) \/ EndOfStream(c)
Handler(c) == Test(c) \/ increment(c) \/ LoadDepth(c) \/ SetGauge(c) \/ Send(c) \/ Join(c)
Writer(c) == \/ Create(c) \/ Recv(c) \/ Finish(c) \/ Part(c) \/ LastPart(c)
             \/ Complete(c) \/ Abort(c) \/ Promote(c) \/ Clean(c) \/ Sidecar(c)
Next == \E c \in Calls : Client(c) \/ Handler(c) \/ Writer(c) \/ Reset(c)

Spec == Init /\ [][Next]_vars
\* Tokio runs every task, storage answers, and a client ends the stream it opened.
FairSpec ==
  Spec /\ \A c \in Calls : WF_vars(Client(c)) /\ WF_vars(Handler(c)) /\ WF_vars(Writer(c))
-----------------------------------------------------------------------------
Ok(c) == handler[c] = "ok"
Idle(c) == writer[c].at = "none" \/ ~Receiving(c)

Filling == {"create", "recv", "part"}
Finished == {"last", "complete", "promote", "clean", "sidecar", "written"}
Stage == Filling \cup Finished \cup {"none", "abort", "failed"}
WriterTask ==
  [at : Stage, buffered_chunks : Seq(Slice), buffered_bytes : Nat, hashed : Seq(Nat), part : Seq(Nat),
   completed_parts : Seq(Nat), body : Seq(Nat), upload : BOOLEAN, staged : BOOLEAN, hit : BOOLEAN]

\* Types; a writer exists exactly for the streams that had a chunk.
TypeOK ==
  /\ queue_depth \in 0..Cardinality(Calls)
  /\ handler \in [Calls -> Streaming \cup {"new", "refused", "admitted", "failed", "ok", "dropped"}]
  /\ held \in [Calls -> Slice \cup {None}] /\ sent \in [Calls -> [bytes : Nat, chunks : Nat]]
  /\ channel \in [Calls -> Seq(Slice \cup {Error})] /\ writer \in [Calls -> WriterTask]
  /\ \A c \in Calls : (writer[c].at = "none") <=> (sent[c].chunks = 0)
  /\ answer \in [Calls -> Seq(Nat) \cup {None}] /\ store \subseteq [key : Seq(Nat), body : Seq(Nat)]
  /\ faults \in 0..MaxFaults /\ resets \in 0..MaxResets

\* The counter is the number of handlers past their increment, those the server dropped
\* included, and never wraps below zero.
DepthAccounts == queue_depth = Cardinality({c \in Calls : Open(c) \/ handler[c] = "dropped"})

\* The items of q are slices one after another, from a on; up to b, unless an error ends them.
InTurn(q, a) ==
  /\ q # <<>> /\ q[1] # Error => q[1].from = a
  /\ \A i \in 1..(Len(q) - 1) : q[i] # Error /\ (q[i + 1] # Error => q[i + 1].from = End(q[i]))
UpTo(q, a, b) == IF q = <<>> THEN a = b ELSE q[Len(q)] # Error => End(q[Len(q)]) = b

\* No byte is lost or moved between the hash and the parts: what is uploaded, the part that
\* is being taken and the buffered chunks are what was hashed, and buffered_bytes counts
\* what is not uploaded.  take_part never runs out of chunks.
Whole(w) ==
  LET taken == Len(w.body) + Len(w.part)
      all == Len(w.hashed) IN
  /\ w.hashed = Bytes(0, all) /\ w.body \o w.part = Bytes(0, taken)
  /\ InTurn(w.buffered_chunks, taken) /\ UpTo(w.buffered_chunks, taken, all)
  /\ w.buffered_bytes = all - Len(w.body)
  /\ w.at \in {"part", "last"} => w.buffered_chunks # <<>>
BufferIsWhole == \A c \in Calls : Whole(writer[c])

\* Storage refuses a completion with a short part anywhere but at the end.
Full(parts, n) == \A i \in 1..n : parts[i] = MULTIPART_PART_SIZE
Parted(w) ==
  LET parts == w.completed_parts IN
  /\ Full(parts, Len(parts) - 1)
  /\ w.at = "complete" => parts # <<>> /\ parts[Len(parts)] \in 1..MULTIPART_PART_SIZE
OnlyTheLastIsShort == \A c \in Calls : Parted(writer[c])

\* A content-addressed key is the digest of what is stored under it, whatever failed.
KeysAreDigests == \A o \in store : o.key = o.body

\* A client that is told success has its whole stream stored under the checksum it is
\* told, even if another call of the shard was dropped or failed at any point.
AnsweredIsStored ==
  \A c \in Calls : Ok(c) =>
    /\ answer[c] = [i \in 1..sent[c].bytes |-> i]
    /\ [key |-> answer[c], body |-> answer[c]] \in store

\* A call that meets no storage error leaves neither an open multipart upload nor a
\* staging object, however its stream ended.
NothingLeftBehind ==
  \A c \in Calls : Idle(c) /\ ~writer[c].hit => ~writer[c].upload /\ ~writer[c].staged

\* Why these hold, for each call.  Until the writer has seen the end, the channel continues
\* what was hashed up to what was sent, but for the chunk the handler still holds.
Line(c) ==
  LET q == channel[c]
      all == Len(writer[c].hashed) IN
  /\ handler[c] = "send" => held[c] # None /\ End(held[c]) = sent[c].bytes
  /\ writer[c].at \in Filling =>
       /\ InTurn(q, all) /\ (HoldsSender(c) /\ q # <<>> => q[Len(q)] # Error)
       /\ handler[c] # "dropped" => UpTo(q, all, IF handler[c] = "send" THEN held[c].from ELSE sent[c].bytes)
  /\ writer[c].at \in Finished =>
       ~HoldsSender(c) /\ (handler[c] \in {"join", "ok"} => all = sent[c].bytes)
\* How far handler and writer are.
Progress(c) ==
  LET at == writer[c].at IN
  /\ at = "none" => writer[c] = NoWriter /\ sent[c].bytes = 0 /\ channel[c] = <<>>
  /\ handler[c] \in {"new", "refused", "admitted", "first"} => at = "none"
  /\ handler[c] \in {"send", "next", "join"} => at # "none"
  /\ handler[c] = "failed" => at \in {"none", "failed"}
  /\ handler[c] = "ok" => at = "written" /\ answer[c] = writer[c].hashed
\* The buffer holds a full part only while parts are taken, and nothing in the end.
Sized(w) ==
  /\ w.at \in {"create", "recv"} => w.buffered_bytes < MULTIPART_PART_SIZE /\ w.part = <<>>
  /\ w.at = "part" => w.buffered_bytes >= MULTIPART_PART_SIZE /\ Len(w.part) < MULTIPART_PART_SIZE
  /\ w.at = "last" => Len(w.part) < w.buffered_bytes /\ w.buffered_bytes < MULTIPART_PART_SIZE
  /\ w.at \in Finished \ {"last"} => w.buffered_bytes = 0 /\ w.part = <<>>
  /\ w.at \in Filling \cup {"last"} => Full(w.completed_parts, Len(w.completed_parts))
\* What is in storage besides the shard, if nothing failed; and the shard.
InStorage(w, shards) ==
  /\ w.upload => w.hit \/ w.at \in {"recv", "part", "last", "complete", "abort"}
  /\ w.staged => w.hit \/ w.at \in {"promote", "clean"}
  /\ w.at \in {"clean", "sidecar", "written"} => [key |-> w.hashed, body |-> w.hashed] \in shards
StreamInv ==
  /\ TypeOK /\ DepthAccounts /\ BufferIsWhole /\ OnlyTheLastIsShort /\ KeysAreDigests
  /\ \A c \in Calls : Line(c) /\ Progress(c) /\ Sized(writer[c]) /\ InStorage(writer[c], store)

\* Every admitted call whose client stays is answered: the handler never waits for room
\* in a channel that nobody empties, nor the writer for a stream that nobody ends.
EveryCallEnds == \A c \in Calls : Open(c) ~> handler[c] \in {"ok", "failed", "dropped"}
-----------------------------------------------------------------------------
(* What the repository says of this code and the code does not keep: see README.md. *)

\* grpc_service.rs:53 "try again later": later there is room.
LaterThereIsRoom == []<>(queue_depth < max_depth)

\* metrics.rs:71 "Current depth of the backpressure queue": when no handler is about to
\* set it, the gauge shows the depth.
GaugeIsDepth == (\A c \in Calls : metric[c] = None) => gauge = queue_depth

\* grpc_service.rs:47 "Check backpressure before accepting work".
NeverOverfull == queue_depth <= max_depth

\* ARCHITECTURE.md:218 "shard-0.sha256 # SHA256 checksum": at rest it is the checksum of
\* a shard some client was told is stored.
SidecarDescribesTheShard ==
  (\A c \in Calls : Idle(c)) /\ (\E c \in Calls : Ok(c)) => \E c \in Calls : Ok(c) /\ answer[c] = sidecar
=============================================================================
