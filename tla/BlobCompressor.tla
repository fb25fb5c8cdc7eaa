--------------------------- MODULE BlobCompressor ---------------------------
(***************************************************************************)
(* BlobCompressors of several role instances over one blob that clients    *)
(* upload and overwrite.  Each finds the blob by its polling, downloads    *)
(* it, sets the Compressed flag, and uploads what CompressStream made of   *)
(* it; every step is a call of the blob service and can fail.  The polling *)
(* around it is PollingTask: an item that fails is found again if the blob *)
(* still lacks the flag, but a poll that throws ends the polling.          *)
(***************************************************************************)
EXTENDS Integers, Sequences

CONSTANTS
  Workers,
  MaxUploads,  \* the bound on the uploads of clients
  MaxFaults    \* the budget of failed calls and crashes

ASSUME ConstantsAssumption == MaxUploads \in Nat /\ MaxFaults \in Nat

VARIABLES
  content,  \* Raw, or the parts of a gzip stream that were uploaded
  depth,    \* how many compressions the content has been through
  flag,     \* the blob's metadata has the Compressed flag
  pageBlob, \* there is a page blob in the container, too
  pc,       \* where each worker is in OnExecuting, or that its task has faulted
  held,     \* the depth of what it has downloaded, and the flag it has of it
  uploads,  \* how often clients have uploaded the blob
  faults    \* how much of the budget is spent

blobVars == <<content, depth, flag>>
vars == <<blobVars, pageBlob, pc, held, uploads, faults>>

Raw == <<"raw">>

\* The bytes a GZipStream writes for a blob, in three parts.
GZip == <<"header", "data", "trailer">>

Pieces == {SubSeq(GZip, i, j) : i \in 1..3, j \in 0..3}

Holdings == [depth : Nat, flag : BOOLEAN]
Nothing  == [depth |-> 0, flag |-> FALSE]

TypeOK ==
  /\ content \in {Raw} \cup Pieces
  /\ depth \in Nat /\ flag \in BOOLEAN /\ pageBlob \in BOOLEAN
  /\ pc \in [Workers -> {"polling", "listed", "downloaded", "flagged", "faulted"}]
  /\ held \in [Workers -> Holdings]
  /\ uploads \in 0..MaxUploads
  /\ faults \in 0..MaxFaults

Init ==
  /\ content = Raw /\ depth = 0 /\ flag = FALSE
  /\ pageBlob \in BOOLEAN
  /\ pc = [w \in Workers |-> "polling"]
  /\ held = [w \in Workers |-> Nothing]
  /\ uploads = 0 /\ faults = 0

\* A client uploads the blob anew, which replaces content and metadata.
Upload ==
  /\ uploads < MaxUploads /\ uploads' = uploads + 1
  /\ content' = Raw /\ depth' = 0 /\ flag' = FALSE
  /\ UNCHANGED <<pageBlob, pc, held, faults>>

\* Others upload a page blob into the container, and delete it again.
UploadPageBlob == pageBlob' = TRUE /\ UNCHANGED <<blobVars, pc, held, uploads, faults>>
DeletePageBlob == pageBlob' = FALSE /\ UNCHANGED <<blobVars, pc, held, uploads, faults>>
-----------------------------------------------------------------------------
(* The stream CompressStream fills: its bytes and its position.             *)

\* Stream.Write overwrites from the position on.
Written(stream, bytes) ==
  LET end == stream.position + Len(bytes)
      length == IF end > Len(stream.bytes) THEN end ELSE Len(stream.bytes)
  IN  [bytes |-> [i \in 1..length |-> IF i > stream.position /\ i <= end
                                        THEN bytes[i - stream.position]
                                        ELSE stream.bytes[i]],
       position |-> end]

\* CopyTo makes the GZipStream write the first parts; the position is set to 0;
\* what it still buffers, the trailer at least, is written by its Dispose.
CompressStream(early) ==
  LET copied  == Written([bytes |-> <<>>, position |-> 0], SubSeq(GZip, 1, early))
      rewound == [bytes |-> copied.bytes, position |-> 0]
  IN  Written(rewound, SubSeq(GZip, early + 1, Len(GZip)))

\* Mutant: the position does not count.
WholeStream(stream) == stream.bytes

\* UploadFromStream sends what lies after the position.
FromPosition(stream) == SubSeq(stream.bytes, stream.position + 1, Len(stream.bytes))
-----------------------------------------------------------------------------
(* Worker w.                                                                *)

\* The task of w ends Faulted: nothing catches what is no AggregateException.
Faults(w) == /\ pc[w] = "polling" /\ pc' = [pc EXCEPT ![w] = "faulted"]
             /\ UNCHANGED <<blobVars, pageBlob, held, uploads>>

\* ListBlobs throws a StorageException.
ListingFails(w) == Faults(w) /\ faults < MaxFaults /\ faults' = faults + 1

\* Every blob that is listed is cast to a block blob, whatever its flag.
CastFails(w) == pageBlob /\ Faults(w) /\ UNCHANGED faults

\* TryGetWork lists the blob without the flag; OnExecuting looks at the same
\* metadata again.
TryGetWork(w) ==
  /\ pc[w] = "polling" /\ ~pageBlob /\ ~flag
  /\ pc' = [pc EXCEPT ![w] = "listed"]
  /\ UNCHANGED <<blobVars, pageBlob, held, uploads, faults>>

\* DownloadToStream fetches content and metadata.
DownloadToStream(w) ==
  /\ pc[w] = "listed" /\ pc' = [pc EXCEPT ![w] = "downloaded"]
  /\ held' = [held EXCEPT ![w] = [depth |-> depth, flag |-> flag]]
  /\ UNCHANGED <<blobVars, pageBlob, uploads, faults>>

\* The worker is done with the blob, or has failed with it.
Leave(w) == /\ pc' = [pc EXCEPT ![w] = "polling"]
            /\ held' = [held EXCEPT ![w] = Nothing]

\* Mutant: Metadata[CompressedFlag] = "true".
MetadataSet(w) == TRUE

\* Mutant: the flag is not expected to be missing.
MetadataReplace(w) == held[w].flag

\* Metadata.Add throws when the flag has come with the download.
MetadataAdd(w) == ~held[w].flag

\* SetCompressedFlag, whatever has become of the blob since the download.
SetCompressedFlag(w) ==
  /\ pc[w] = "downloaded"
  /\ IF MetadataAdd(w)
       THEN /\ flag' = TRUE
            /\ held' = [held EXCEPT ![w].flag = TRUE]
            /\ pc' = [pc EXCEPT ![w] = "flagged"]
       ELSE Leave(w) /\ UNCHANGED flag
  /\ UNCHANGED <<content, depth, pageBlob, uploads, faults>>

\* The upload sends the metadata with the content.
UploadFromStream(w) ==
  /\ pc[w] = "flagged"
  /\ \E early \in 0..(Len(GZip) - 1) : content' = FromPosition(CompressStream(early))
  /\ depth' = held[w].depth + 1
  /\ flag' = held[w].flag
  /\ Leave(w)
  /\ UNCHANGED <<pageBlob, uploads, faults>>

\* A call fails before it has an effect; another item of the batch throws and
\* this one is abandoned; or the instance goes down, and a new one polls.
Fail(w) ==
  /\ pc[w] # "polling"
  /\ faults < MaxFaults /\ faults' = faults + 1
  /\ Leave(w)
  /\ UNCHANGED <<blobVars, pageBlob, uploads>>

Work(w) == \/ CastFails(w) \/ TryGetWork(w)
           \/ DownloadToStream(w) \/ SetCompressedFlag(w) \/ UploadFromStream(w)

Container == Upload \/ UploadPageBlob \/ DeletePageBlob

Next == Container \/ \E w \in Workers : Work(w) \/ ListingFails(w) \/ Fail(w)

Spec == Init /\ [][Next]_vars

\* The polling task of each worker polls until a poll throws, and goes through
\* with an item.  No listing has to fail, and nobody has to replace an instance.
FairSpec == Spec /\ \A w \in Workers : WF_vars(Work(w))
-----------------------------------------------------------------------------
(* Properties.                                                              *)

\* However many workers find the same blob, with listings however old, and
\* whatever fails, nothing is compressed that was compressed before.
NeverCompressedTwice == depth <= 1 /\ \A w \in Workers : pc[w] = "flagged" => held[w].depth = 0

\* "Upload new blobs and they will be compressed": a blob without the flag gets
\* it, and no interleaving of workers and clients leaves it to be found and
\* downloaded for ever, unless polls that threw have ended every worker.
GetsTheFlag == ~flag ~> flag \/ \A w \in Workers : pc[w] = "faulted"

\* "Keep Blobs compressed within a specific container": a blob that has the
\* flag and that no worker is about to replace has been compressed.
FlaggedIsCompressed == flag /\ (\A w \in Workers : pc[w] # "flagged") => content # Raw

\* What a worker leaves in place of the content is a gzip stream.
CompressedIsGZip == content # Raw => content = GZip
=============================================================================
