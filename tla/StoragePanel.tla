----------------------------- MODULE StoragePanel -----------------------------
(***************************************************************************)
(* The object-storage panel of the demo (StorageBrowser.tsx) over          *)
(* GET /api/demo/storage and /api/demo/storage/manifest: the listing it    *)
(* polls, the tree it draws, and the manifest that is opened by a click.   *)
(* A file is its run, its checkpoint and its name.                         *)
(***************************************************************************)
EXTENDS Naturals, Sequences, FiniteSets

CONSTANTS
  Keys,      \* all keys of the bucket, in the order S3 lists them
  MaxKeys,   \* 500
  None, Error, \* no content, and the content shown for a failed load
  Faults,    \* calls may be refused or lost
  MaxFlight, MaxClicks, MaxWrites \* bounds

Key == {Keys[i] : i \in DOMAIN Keys}
StorageAssumption ==
  /\ Keys \in Seq(Key) /\ None \notin Key
  /\ Faults \in BOOLEAN /\ MaxKeys \in Nat \ {0} /\ {MaxFlight, MaxClicks, MaxWrites} \subseteq Nat

VARIABLES
  bucket,  \* the keys that exist
  files, truncated, \* data.files and data.is_truncated
  expandedManifest, manifestContent,
  flight,  \* loads of a manifest that are under way
  clicks, writes

vars == <<bucket, files, truncated, expandedManifest, manifestContent, flight, clicks, writes>>

Listed == {files[i] : i \in DOMAIN files}
isManifest(k) == k.name = "_manifest.json"

Init ==
  /\ bucket \in SUBSET Key /\ files = <<>> /\ truncated = FALSE
  /\ expandedManifest = None /\ manifestContent = None /\ flight = <<>> /\ clicks = 0 /\ writes = 0
-----------------------------------------------------------------------------
\* A checkpoint is written, or a file deleted by the retention manager.
Write(k) ==
  /\ writes < MaxWrites /\ writes' = writes + 1
  /\ bucket' = IF k \in bucket THEN bucket \ {k} ELSE bucket \cup {k}
  /\ UNCHANGED <<files, truncated, expandedManifest, manifestContent, flight, clicks>>

InBucket ==
  LET first[i \in 0..Len(Keys)] ==
        IF i = 0 THEN <<>> ELSE IF Keys[i] \in bucket THEN Append(first[i - 1], Keys[i]) ELSE first[i - 1]
  IN first[Len(Keys)]
Listing(max) == SubSeq(InBucket, 1, IF Len(InBucket) < max THEN Len(InBucket) ELSE max)
Showing(list, more) ==
  /\ files' = list /\ truncated' = more
  /\ UNCHANGED <<bucket, expandedManifest, manifestContent, flight, clicks, writes>>
\* list_objects_v2
demo_storage == Showing(Listing(MaxKeys), Len(InBucket) > MaxKeys)
\* The bucket cannot be listed: an empty listing is sent.
StorageFails == Faults /\ Showing(<<>>, FALSE)

\* handleManifestClick
Click(k) ==
  /\ k \in Listed /\ isManifest(k) /\ clicks < MaxClicks /\ clicks' = clicks + 1
  /\ \/ expandedManifest = k /\ expandedManifest' = None /\ UNCHANGED flight
     \/ /\ expandedManifest # k /\ Len(flight) < MaxFlight
        /\ expandedManifest' = k /\ flight' = Append(flight, k)
  /\ UNCHANGED <<bucket, files, truncated, manifestContent, writes>>

Answered(i, content) ==
  /\ flight' = SubSeq(flight, 1, i - 1) \o SubSeq(flight, i + 1, Len(flight)) /\ manifestContent' = content
  /\ UNCHANGED <<bucket, files, truncated, expandedManifest, clicks, writes>>
\* The answer to a load: the manifest, 404 when it is gone (the content is left as
\* it is), or an exception.
Loaded(i) == flight[i] \in bucket /\ Answered(i, flight[i])
NotFound(i) == flight[i] \notin bucket /\ Answered(i, manifestContent)
LoadFails(i) == Faults /\ Answered(i, Error)
-----------------------------------------------------------------------------
Next ==
  \/ demo_storage \/ StorageFails
  \/ \E k \in Key : Write(k) \/ Click(k)
  \/ \E i \in DOMAIN flight : Loaded(i) \/ NotFound(i) \/ LoadFails(i)

Spec == Init /\ [][Next]_vars
-----------------------------------------------------------------------------
\* The two levels of buildTree: run, then checkpoint, then the files in the order of the
\* listing.
get(map, k) == IF k \in DOMAIN map THEN map[k] ELSE <<>>
set(map, k, v) == [x \in DOMAIN map \cup {k} |-> IF x = k THEN v ELSE map[x]]
push(tree, f) ==
  LET ofRun == get(tree, f.run) IN set(tree, f.run, set(ofRun, f.ckpt, Append(get(ofRun, f.ckpt), f)))
buildTree(list) ==
  LET tree[i \in 0..Len(list)] == IF i = 0 THEN <<>> ELSE push(tree[i - 1], list[i])
  IN tree[Len(list)]

\* The manifest text drawn below a file.
Drawn(k) == IF k \in Listed /\ isManifest(k) /\ expandedManifest = k THEN manifestContent ELSE None
-----------------------------------------------------------------------------
\* Types.
TypeOK ==
  /\ bucket \subseteq Key /\ files \in Seq(Key) /\ Len(files) <= MaxKeys /\ truncated \in BOOLEAN
  /\ expandedManifest \in Key \cup {None} /\ manifestContent \in Key \cup {None, Error}
  /\ flight \in Seq(Key) /\ Len(flight) <= MaxFlight /\ clicks \in 0..MaxClicks /\ writes \in 0..MaxWrites

\* Every listed file is drawn, as often as it is listed, under its run and its checkpoint.
Places(tree) ==
  UNION {UNION {{<<r, c, i>> : i \in DOMAIN tree[r][c]} : c \in DOMAIN tree[r]} : r \in DOMAIN tree}
FileAt(tree, p) == tree[p[1]][p[2]][p[3]]
Draws(tree, list, n) ==
  /\ Cardinality(Places(tree)) = n
  /\ {FileAt(tree, p) : p \in Places(tree)} = {list[i] : i \in 1..n}
  /\ \A p \in Places(tree) : FileAt(tree, p).run = p[1] /\ FileAt(tree, p).ckpt = p[2]
EveryFileOnce == Draws(buildTree(files), files, Len(files))

\* The panel lists what there is, as far as one listing goes.
ListsTheBucket == Listed = bucket \/ (truncated /\ Len(files) = MaxKeys)

\* With one load at a time, none refused, and manifests that stay, the manifest
\* drawn in the end is that of the file it is drawn below.
OpenedIsOwn == flight = <<>> => \A k \in Key : Drawn(k) \in {None, k}
\* It holds because a file can be opened only while nothing is loading.
OwnInv ==
  /\ bucket \subseteq Key /\ Listed \subseteq bucket /\ writes \in Nat
  /\ \/ flight = <<>> /\ expandedManifest \in {None, manifestContent}
     \/ \E k \in bucket : flight = <<k>> /\ expandedManifest \in {None, k}
-----------------------------------------------------------------------------
(* What the repository says of this code and the code does not keep: see README.md. *)

\* StorageBrowser.tsx:54 "Failed to load manifest": a manifest that cannot be had is
\* not replaced by another one.
FailureIsShown == flight = <<>> => \A k \in Key : Drawn(k) \in {None, Error, k}
=============================================================================
