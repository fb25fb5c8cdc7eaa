------------------------ MODULE BlobCompressorProofs ------------------------
(***************************************************************************)
(* Proofs about BlobCompressor: types, that nothing is compressed a second *)
(* time, what is uploaded and that it is never the gzip stream, that a raw *)
(* blob with the flag stays so, and that every worker comes nearer to the  *)
(* flag or to a poll that ends it, for any number of workers, uploads and  *)
(* failures.                                                               *)
(***************************************************************************)
EXTENDS BlobCompressor, SequenceTheorems, TLAPS

Parts == {"header", "data", "trailer"}

\* A write from the start of a stream covers what is there as far as it goes.
LEMMA WrittenFromStart ==
  ASSUME NEW old \in Seq(Parts), NEW new \in Seq(Parts), NEW stream,
         stream = Written([bytes |-> old, position |-> 0], new)
  PROVE  /\ stream.position = Len(new) /\ stream.bytes \in Seq(Parts)
         /\ Len(stream.bytes) = IF Len(new) > Len(old) THEN Len(new) ELSE Len(old)
         /\ \A i \in 1..Len(stream.bytes) : stream.bytes[i] = IF i <= Len(new) THEN new[i] ELSE old[i]
<1> DEFINE length == IF Len(new) > Len(old) THEN Len(new) ELSE Len(old)
           bytes == [i \in 1..length |-> IF i <= Len(new) THEN new[i] ELSE old[i]]
<1>1. Len(new) \in Nat /\ Len(old) \in Nat /\ length \in Nat
  BY LenProperties
<1>2. stream.position = Len(new) /\ stream.bytes = bytes
  BY <1>1 DEF Written
<1>3. bytes \in [1..length -> Parts]
  BY <1>1, ElementOfSeq
<1>4. bytes \in Seq(Parts)
  BY <1>1, <1>3, SeqDef
<1>5. Len(bytes) = length
  BY <1>1, <1>3, <1>4, LenProperties
<1> QED BY <1>2, <1>4, <1>5

\* What is uploaded of the gzip stream when its first parts are written before
\* the rewinding and the others after it: nothing or, when only the trailer
\* comes after it, the part that the trailer does not cover.
LEMMA WhatIsUploaded ==
  ASSUME NEW early \in 0..(Len(GZip) - 1)
  PROVE  /\ FromPosition(CompressStream(early)) = IF early = 2 THEN <<"data">> ELSE <<>>
         /\ FromPosition(CompressStream(early)) \in Pieces
<1> DEFINE first == SubSeq(GZip, 1, early)
           second == SubSeq(GZip, early + 1, Len(GZip))
           copied == Written([bytes |-> <<>>, position |-> 0], first)
           stream == Written([bytes |-> copied.bytes, position |-> 0], second)
<1>1. GZip \in Seq(Parts) /\ Len(GZip) = 3 /\ early \in {0, 1, 2} /\ \A i \in 1..3 : GZip[i] \in Parts
  BY DEF GZip, Parts
<1>2. first \in Seq(Parts) /\ Len(first) = early /\ \A i \in 1..early : first[i] = GZip[i]
  <2>1. \A i \in 1..early : GZip[i] \in Parts
    BY <1>1, ElementOfSeq
  <2> QED BY <1>1, <2>1, SubSeqProperties
<1>3. second \in Seq(Parts) /\ Len(second) = 3 - early
  <2>1. \A i \in (early + 1)..3 : GZip[i] \in Parts
    BY <1>1
  <2>2. early + 1 \in Int /\ 3 \in Int /\ early + 1 <= 3 /\ 3 - (early + 1) + 1 = 3 - early
    BY <1>1
  <2> DEFINE m == early + 1
             n == 3
  <2> HIDE DEF m, n
  <2>3. SubSeq(GZip, m, n) \in Seq(Parts) /\ Len(SubSeq(GZip, m, n)) = IF m <= n THEN n - m + 1 ELSE 0
    <3>1. m \in Int /\ n \in Int /\ \A i \in m..n : GZip[i] \in Parts
      BY <2>1, <2>2 DEF m, n
    <3> QED BY <3>1, SubSeqProperties
  <2> QED BY <1>1, <2>2, <2>3 DEF m, n
<1>4. <<>> \in Seq(Parts) /\ Len(<<>>) = 0
  OBVIOUS
<1> HIDE DEF first, second
<1>5. copied.bytes \in Seq(Parts) /\ Len(copied.bytes) = early /\ \A i \in 1..early : copied.bytes[i] = GZip[i]
  <2> DEFINE old == <<>>
  <2>1. copied = Written([bytes |-> old, position |-> 0], first) /\ old \in Seq(Parts)
    BY <1>4
  <2> HIDE DEF old, copied
  <2>2. /\ copied.bytes \in Seq(Parts)
        /\ Len(copied.bytes) = IF Len(first) > Len(old) THEN Len(first) ELSE Len(old)
        /\ \A i \in 1..Len(copied.bytes) : copied.bytes[i] = IF i <= Len(first) THEN first[i] ELSE old[i]
    BY <1>2, <2>1, WrittenFromStart
  <2> QED BY <1>1, <1>2, <1>4, <2>2 DEF old
<1> HIDE DEF copied
<1>6. /\ stream.position = 3 - early /\ stream.bytes \in Seq(Parts)
      /\ Len(stream.bytes) = IF early = 2 THEN 2 ELSE 3 - early
      /\ early = 2 => stream.bytes[2] = GZip[2]
  <2> DEFINE old == copied.bytes
  <2>1. stream = Written([bytes |-> old, position |-> 0], second) /\ old \in Seq(Parts)
    BY <1>5
  <2> HIDE DEF old, stream
  <2>2. /\ stream.position = Len(second) /\ stream.bytes \in Seq(Parts)
        /\ Len(stream.bytes) = IF Len(second) > Len(old) THEN Len(second) ELSE Len(old)
        /\ \A i \in 1..Len(stream.bytes) : stream.bytes[i] = IF i <= Len(second) THEN second[i] ELSE old[i]
    BY <1>3, <2>1, WrittenFromStart
  <2> QED BY <1>1, <1>3, <1>5, <2>2 DEF old
<1>7. FromPosition(CompressStream(early)) = SubSeq(stream.bytes, stream.position + 1, Len(stream.bytes))
  BY DEF FromPosition, CompressStream, first, second, copied
<1> HIDE DEF stream
<1>8. CASE early = 2
  <2>1. FromPosition(CompressStream(early)) = SubSeq(stream.bytes, 2, 2)
    BY <1>6, <1>7, <1>8
  <2>2. SubSeq(stream.bytes, 2, 2) = SubSeq(GZip, 2, 2)
    <3>1. stream.bytes[2] \in Parts /\ GZip[2] \in Parts
      BY <1>1, <1>6, <1>8, ElementOfSeq
    <3> DEFINE s == SubSeq(stream.bytes, 2, 2)
               t == SubSeq(GZip, 2, 2)
    <3>2. s \in Seq(Parts) /\ Len(s) = 1 /\ s[1] = stream.bytes[2]
      BY <3>1, SubSeqProperties
    <3>3. t \in Seq(Parts) /\ Len(t) = 1 /\ t[1] = GZip[2]
      BY <3>1, SubSeqProperties
    <3> HIDE DEF s, t
    <3>4. s = t
      BY <1>6, <1>8, <3>2, <3>3, SeqEqual
    <3> QED BY <3>4 DEF s, t
  <2>3. SubSeq(GZip, 2, 2) = <<"data">>
    <3> DEFINE s == SubSeq(GZip, 2, 2)
               t == <<"data">>
    <3>1. GZip[2] = "data" /\ "data" \in Parts
      BY DEF GZip, Parts
    <3>2. s \in Seq(Parts) /\ Len(s) = 1 /\ s[1] = "data"
      BY <1>1, <3>1, SubSeqProperties
    <3>3. t \in Seq(Parts) /\ Len(t) = 1 /\ t[1] = "data"
      BY <3>1
    <3> HIDE DEF s, t
    <3>4. s = t
      BY <3>2, <3>3, SeqEqual
    <3> QED BY <3>4 DEF s, t
  <2>4. FromPosition(CompressStream(early)) \in Pieces
    BY <2>1, <2>2 DEF Pieces
  <2>5. FromPosition(CompressStream(early)) = <<"data">>
    BY <2>1, <2>2, <2>3
  <2> QED BY <1>8, <2>4, <2>5
<1>9. CASE early \in {0, 1}
  <2>1. FromPosition(CompressStream(early)) = <<>>
    BY <1>1, <1>6, <1>7, <1>9, SubSeqEmpty
  <2>2. SubSeq(GZip, 1, 0) = <<>>
    BY SubSeqEmpty
  <2> QED BY <1>9, <2>1, <2>2 DEF Pieces
<1> QED BY <1>1, <1>8, <1>9
-----------------------------------------------------------------------------
LEMMA NothingHeld == Nothing \in Holdings /\ Nothing.depth = 0
  BY DEF Holdings, Nothing

\* What setting the flag leaves of what is held.
LEMMA FlagSet ==
  ASSUME TypeOK, NEW w \in Workers, held' = [held EXCEPT ![w].flag = TRUE]
  PROVE  /\ held' \in [Workers -> Holdings]
         /\ held'[w].depth = held[w].depth /\ held'[w].flag = TRUE
         /\ \A v \in Workers \ {w} : held'[v] = held[v]
  BY DEF TypeOK, Holdings

\* The blob, the workers and what they hold keep their types; what lies in
\* place of the content is the raw blob or parts of a gzip stream.
THEOREM TypeCorrect == Spec => []TypeOK
<1>1. Init => TypeOK
  <2>1. Init => flag \in BOOLEAN /\ pageBlob \in BOOLEAN
    BY Zenon DEF Init
  <2> QED BY <2>1, NothingHeld, ConstantsAssumption DEF Init, TypeOK, ConstantsAssumption
<1>2. TypeOK /\ [Next]_vars => TypeOK'
  <2> SUFFICES ASSUME TypeOK, [Next]_vars PROVE TypeOK'
    OBVIOUS
  <2> USE DEF TypeOK, blobVars
  <2>1. CASE Upload
    <3>1. flag' \in BOOLEAN
      BY Zenon, <2>1 DEF Upload
    <3> QED BY <2>1, <3>1, ConstantsAssumption DEF Upload, ConstantsAssumption
  <2>2. ASSUME NEW w \in Workers, TryGetWork(w) PROVE TypeOK'
    BY <2>2 DEF TryGetWork
  <2>3. ASSUME NEW w \in Workers, DownloadToStream(w) PROVE TypeOK'
    <3>1. [depth |-> depth, flag |-> flag] \in Holdings
      BY DEF Holdings
    <3> QED BY <2>3, <3>1 DEF DownloadToStream
  <2>4. ASSUME NEW w \in Workers, SetCompressedFlag(w) PROVE TypeOK'
    <3>1. CASE MetadataAdd(w)
      BY <2>4, <3>1, FlagSet DEF SetCompressedFlag
    <3>2. CASE ~MetadataAdd(w)
      BY <2>4, <3>2, NothingHeld DEF SetCompressedFlag, Leave
    <3> QED BY <3>1, <3>2
  <2>5. ASSUME NEW w \in Workers, UploadFromStream(w) PROVE TypeOK'
    <3>1. content' \in Pieces
      BY <2>5, WhatIsUploaded DEF UploadFromStream
    <3>2. held[w].depth + 1 \in Nat /\ held[w].flag \in BOOLEAN
      BY DEF Holdings
    <3>3. depth' \in Nat /\ flag' \in BOOLEAN
      BY Zenon, <2>5, <3>2 DEF UploadFromStream
    <3> QED BY <2>5, <3>1, <3>3, NothingHeld DEF UploadFromStream, Leave
  <2>6. ASSUME NEW w \in Workers, Fail(w) PROVE TypeOK'
    BY <2>6, NothingHeld, ConstantsAssumption DEF Fail, Leave, ConstantsAssumption
  <2>7. ASSUME NEW w \in Workers, CastFails(w) \/ ListingFails(w) PROVE TypeOK'
    BY <2>7, ConstantsAssumption DEF CastFails, ListingFails, Faults, ConstantsAssumption
  <2>8. CASE UploadPageBlob \/ DeletePageBlob
    <3>1. pageBlob' \in BOOLEAN
      BY Zenon, <2>8 DEF UploadPageBlob, DeletePageBlob
    <3> QED BY <2>8, <3>1 DEF UploadPageBlob, DeletePageBlob
  <2>9. CASE UNCHANGED vars
    BY <2>9 DEF vars
  <2> QED BY <2>1, <2>2, <2>3, <2>4, <2>5, <2>6, <2>7, <2>8, <2>9 DEF Next, Container, Work
<1> QED BY <1>1, <1>2, PTL DEF Spec

\* A poll that throws ends its worker, and is nothing to the blob or to others.
LEMMA PollThrows ==
  ASSUME TypeOK, NEW w \in Workers, CastFails(w) \/ ListingFails(w)
  PROVE  /\ UNCHANGED <<content, depth, flag, held, uploads>>
         /\ pc[w] = "polling" /\ pc'[w] = "faulted"
         /\ \A v \in Workers \ {w} : pc'[v] = pc[v]
  BY DEF CastFails, ListingFails, Faults, blobVars, TypeOK

\* Page blobs come and go beside the blob.
LEMMA PageBlobsApart ==
  ASSUME UploadPageBlob \/ DeletePageBlob
  PROVE  UNCHANGED <<content, depth, flag, pc, held, uploads, faults>>
  BY DEF UploadPageBlob, DeletePageBlob, blobVars
-----------------------------------------------------------------------------
\* A blob that was compressed carries the flag, and so does every download of
\* it: SetCompressedFlag then throws, and only what was downloaded raw is
\* compressed.
DepthInv ==
  /\ depth <= 1 /\ (depth = 1 => flag = TRUE)
  /\ \A w \in Workers : /\ pc[w] = "downloaded" => held[w].depth <= 1 /\ (held[w].depth = 1 => held[w].flag = TRUE)
                        /\ pc[w] = "flagged" => held[w].depth = 0 /\ held[w].flag = TRUE

LEMMA FlagKeepsDepth ==
  ASSUME TypeOK, DepthInv, NEW w \in Workers, SetCompressedFlag(w), MetadataAdd(w)
  PROVE  DepthInv'
<1>1. /\ flag' = TRUE /\ depth' = depth /\ pc' = [pc EXCEPT ![w] = "flagged"]
      /\ held' = [held EXCEPT ![w].flag = TRUE] /\ pc[w] = "downloaded"
  BY DEF SetCompressedFlag
<1>2. held[w].depth = 0
  <2>1. held[w].depth \in Nat
    BY DEF TypeOK, Holdings
  <2>2. held[w].depth <= 1 /\ (held[w].depth = 1 => held[w].flag = TRUE)
    BY <1>1, Zenon DEF DepthInv
  <2>3. held[w].depth # 1
    BY <2>2, Zenon DEF MetadataAdd
  <2> QED BY <2>1, <2>2, <2>3
<1>3. held'[w].depth = held[w].depth /\ held'[w].flag = TRUE /\ \A v \in Workers \ {w} : held'[v] = held[v]
  BY <1>1, FlagSet
<1>4. pc'[w] = "flagged" /\ \A v \in Workers \ {w} : pc'[v] = pc[v]
  BY <1>1 DEF TypeOK
<1>5. depth' <= 1 /\ (depth' = 1 => flag' = TRUE)
  BY Zenon, <1>1 DEF DepthInv
<1> QED BY <1>2, <1>3, <1>4, <1>5 DEF DepthInv

LEMMA DepthInvariant == Spec => []DepthInv
<1>1. Init => DepthInv
  BY DEF Init, DepthInv
<1>2. TypeOK /\ DepthInv /\ [Next]_vars => DepthInv'
  <2> SUFFICES ASSUME TypeOK, DepthInv, [Next]_vars PROVE DepthInv'
    OBVIOUS
  <2> USE DEF TypeOK, DepthInv, blobVars
  <2>1. CASE Upload
    BY <2>1 DEF Upload
  <2>2. ASSUME NEW w \in Workers, TryGetWork(w) \/ DownloadToStream(w) PROVE DepthInv'
    BY <2>2 DEF TryGetWork, DownloadToStream
  <2>3. ASSUME NEW w \in Workers, SetCompressedFlag(w) PROVE DepthInv'
    <3>1. CASE MetadataAdd(w)
      BY <2>3, <3>1, FlagKeepsDepth
    <3>2. CASE ~MetadataAdd(w)
      BY <2>3, <3>2 DEF SetCompressedFlag, Leave
    <3> QED BY <3>1, <3>2
  <2>4. ASSUME NEW w \in Workers, UploadFromStream(w) \/ Fail(w) PROVE DepthInv'
    BY <2>4 DEF UploadFromStream, Fail, Leave
  <2>5. ASSUME NEW w \in Workers, CastFails(w) \/ ListingFails(w) PROVE DepthInv'
    BY <2>5, PollThrows
  <2>6. CASE UploadPageBlob \/ DeletePageBlob
    BY <2>6, PageBlobsApart
  <2>7. CASE UNCHANGED vars
    BY <2>7 DEF vars
  <2> QED BY <2>1, <2>2, <2>3, <2>4, <2>5, <2>6, <2>7 DEF Next, Container, Work
<1> QED BY <1>1, <1>2, TypeCorrect, PTL DEF Spec

\* Nothing is compressed that was compressed before, for any number of workers
\* that hold listings and downloads of any age: the flag travels with the
\* content, in the download and in the upload.
THEOREM CompressedOnce == Spec => []NeverCompressedTwice
<1>1. DepthInv => NeverCompressedTwice
  BY DEF DepthInv, NeverCompressedTwice
<1> QED BY <1>1, DepthInvariant, PTL
-----------------------------------------------------------------------------
\* What was compressed is not there any more: neither CompressedIsGZip nor any
\* other use of the blob can be saved by how much the GZipStream buffers.
ContentIsLost == /\ content = Raw <=> depth = 0
                 /\ content # Raw => content \in {<<>>, <<"data">>}

\* A raw blob that carries the flag, with no worker that would still replace it.
Abandoned == /\ flag /\ content = Raw
             /\ \A w \in Workers : /\ pc[w] # "flagged"
                                   /\ pc[w] = "downloaded" => held[w].flag

\* "Keep Blobs compressed": once abandoned, a blob stays as it is until a
\* client uploads it again, whoever polls.
StaysAbandoned == [][Abandoned => Abandoned' \/ uploads' = uploads + 1]_vars

\* How many steps w is from setting the flag of a blob that has none; a worker
\* that has faulted never will.
Distance(w) == CASE pc[w] = "faulted" -> 0
                 [] pc[w] = "flagged" -> 1
                 [] pc[w] = "downloaded" /\ ~held[w].flag -> 1
                 [] pc[w] = "listed" -> 2
                 [] pc[w] = "polling" -> 3
                 [] OTHER -> 4

\* While the flag is missing, each worker's work brings it nearer to setting
\* it or ends it, and what others do does not take that back.  A failure may, and
\* a client's upload takes the flag away; both happen a bounded number of times.
Advances(w) == ~flag /\ ~flag' => /\ Work(w) => Distance(w)' < Distance(w)
                                  /\ Distance(w)' <= Distance(w) \/ faults' = faults + 1

\* A worker ends only where a page blob is listed or a listing fails.
EndsByAPoll(w) == pc[w] # "faulted" /\ pc'[w] = "faulted" =>
                    pc[w] = "polling" /\ (pageBlob \/ faults' = faults + 1)

FlagStays == flag /\ ~flag' => uploads' = uploads + 1

FlagOrEndComesNearer == [][FlagStays /\ \A w \in Workers : Advances(w) /\ EndsByAPoll(w)]_vars

\* After the first compression the content is lost, whatever the GZipStream
\* buffers: the blob is empty or holds a piece without header and trailer, for
\* any number of workers, uploads and failures.
THEOREM ContentLost == Spec => []ContentIsLost
<1>1. Init => ContentIsLost
  BY DEF Init, ContentIsLost
<1>2. TypeOK /\ ContentIsLost /\ [Next]_vars => ContentIsLost'
  <2> SUFFICES ASSUME TypeOK, ContentIsLost, [Next]_vars PROVE ContentIsLost'
    OBVIOUS
  <2>1. CASE Upload
    BY <2>1 DEF Upload, ContentIsLost
  <2>2. ASSUME NEW w \in Workers, UploadFromStream(w) PROVE ContentIsLost'
    <3>1. PICK early \in 0..(Len(GZip) - 1) : content' = FromPosition(CompressStream(early))
      BY <2>2 DEF UploadFromStream
    <3>2. content' \in {<<>>, <<"data">>} /\ content' # Raw
      <4>1. content' = <<>> \/ content' = <<"data">>
        BY <3>1, WhatIsUploaded
      <4>2. Raw # <<>> /\ Raw # <<"data">>
        BY DEF Raw
      <4> QED BY <4>1, <4>2
    <3>3. held[w].depth \in Nat /\ depth' = held[w].depth + 1
      BY <2>2 DEF UploadFromStream, TypeOK, Holdings
    <3> QED BY <3>2, <3>3 DEF ContentIsLost
  <2>3. ASSUME NEW w \in Workers, TryGetWork(w) \/ DownloadToStream(w) \/ SetCompressedFlag(w) \/ Fail(w)
        PROVE  ContentIsLost'
    BY <2>3 DEF TryGetWork, DownloadToStream, SetCompressedFlag, Fail, blobVars, ContentIsLost
  <2>4. ASSUME NEW w \in Workers, CastFails(w) \/ ListingFails(w) PROVE ContentIsLost'
    BY <2>4, PollThrows DEF ContentIsLost
  <2>5. CASE UploadPageBlob \/ DeletePageBlob
    BY <2>5, PageBlobsApart DEF ContentIsLost
  <2>6. CASE UNCHANGED vars
    BY <2>6 DEF vars, blobVars, ContentIsLost
  <2> QED BY <2>1, <2>2, <2>3, <2>4, <2>5, <2>6 DEF Next, Container, Work
<1> QED BY <1>1, <1>2, TypeCorrect, PTL DEF Spec

\* The flag that a failed upload leaves behind keeps every worker away for
\* ever, those with an old listing too: their download brings the flag, and
\* Metadata.Add throws.
THEOREM AbandonedForEver == Spec => StaysAbandoned
<1>1. ASSUME TypeOK, [Next]_vars, Abandoned PROVE Abandoned' \/ uploads' = uploads + 1
  <2>1. /\ flag = TRUE /\ content = Raw
        /\ \A w \in Workers : pc[w] # "flagged" /\ (pc[w] = "downloaded" => held[w].flag = TRUE)
    <3>1. flag = TRUE
      BY <1>1, Zenon DEF Abandoned, TypeOK
    <3>2. \A w \in Workers : pc[w] # "flagged" /\ (pc[w] = "downloaded" => held[w].flag = TRUE)
      <4>1. \A w \in Workers : held[w].flag \in BOOLEAN
        BY <1>1 DEF TypeOK, Holdings
      <4> QED BY <1>1, <4>1, Zenon DEF Abandoned
    <3> QED BY <1>1, <3>1, <3>2 DEF Abandoned
  <2> DEFINE Waiting == /\ flag' = TRUE /\ content' = Raw
                        /\ \A v \in Workers : pc'[v] # "flagged" /\ (pc'[v] = "downloaded" => held'[v].flag = TRUE)
  <2>2. Waiting => Abandoned'
    BY Zenon DEF Abandoned
  <2>3. ASSUME NEW w \in Workers, TryGetWork(w) \/ UploadFromStream(w) PROVE FALSE
    BY <2>1, <2>3 DEF TryGetWork, UploadFromStream
  <2>4. ASSUME NEW w \in Workers, DownloadToStream(w) PROVE Waiting
    <3>1. flag' = TRUE /\ content' = Raw /\ pc' = [pc EXCEPT ![w] = "downloaded"]
      BY <2>1, <2>4 DEF DownloadToStream, blobVars
    <3>2. held' = [held EXCEPT ![w] = [depth |-> depth, flag |-> TRUE]]
      BY <2>1, <2>4 DEF DownloadToStream
    <3> QED BY <1>1, <2>1, <3>1, <3>2 DEF TypeOK
  <2>5. ASSUME NEW w \in Workers, Leave(w), UNCHANGED <<flag, content>> PROVE Waiting
    BY <1>1, <2>1, <2>5 DEF Leave, TypeOK
  <2>6. ASSUME NEW w \in Workers, SetCompressedFlag(w) PROVE Waiting
    <3>1. ~MetadataAdd(w)
      BY <2>1, <2>6, Zenon DEF SetCompressedFlag, MetadataAdd
    <3> QED BY <2>5, <2>6, <3>1 DEF SetCompressedFlag
  <2>7. ASSUME NEW w \in Workers, Fail(w) PROVE Waiting
    BY <2>5, <2>7 DEF Fail, blobVars
  <2>8. CASE Upload
    BY <2>8 DEF Upload
  <2>9. ASSUME UNCHANGED vars PROVE Waiting
    BY <2>1, <2>9 DEF vars, blobVars
  <2>10. ASSUME NEW w \in Workers, CastFails(w) \/ ListingFails(w) PROVE Waiting
    BY <1>1, <2>1, <2>10, PollThrows
  <2>11. ASSUME UploadPageBlob \/ DeletePageBlob PROVE Waiting
    BY <2>1, <2>11, PageBlobsApart
  <2> HIDE DEF Waiting
  <2> QED BY <1>1, <2>2, <2>3, <2>4, <2>6, <2>7, <2>8, <2>9, <2>10, <2>11 DEF Next, Container, Work
<1>2. TypeOK /\ [Next]_vars => [Abandoned => Abandoned' \/ uploads' = uploads + 1]_vars
  BY <1>1
<1> QED BY <1>2, TypeCorrect, PTL DEF Spec, StaysAbandoned

\* The distances by place.
LEMMA Distances ==
  ASSUME NEW w \in Workers
  PROVE  /\ pc[w] = "faulted" => Distance(w) = 0
         /\ pc[w] = "flagged" => Distance(w) = 1
         /\ pc[w] = "downloaded" => Distance(w) \in {1, 4} /\ (~held[w].flag => Distance(w) = 1) /\ (held[w].flag => Distance(w) = 4)
         /\ pc[w] = "listed" => Distance(w) = 2
         /\ pc[w] = "polling" => Distance(w) = 3
  BY DEF Distance

LEMMA DistancesNext ==
  ASSUME NEW w \in Workers
  PROVE  /\ pc'[w] = "faulted" => Distance(w)' = 0
         /\ pc'[w] = "flagged" => Distance(w)' = 1
         /\ pc'[w] = "downloaded" => Distance(w)' \in {1, 4} /\ (~held'[w].flag => Distance(w)' = 1) /\ (held'[w].flag => Distance(w)' = 4)
         /\ pc'[w] = "listed" => Distance(w)' = 2
         /\ pc'[w] = "polling" => Distance(w)' = 3
  BY DEF Distance

\* What w does while the flag is missing and stays so.
LEMMA WorkIsNearer ==
  ASSUME TypeOK, DepthInv, NEW w \in Workers, Work(w), ~flag, ~flag'
  PROVE  Distance(w)' < Distance(w)
<1>1. CASE TryGetWork(w)
  <2>1. pc[w] = "polling" /\ pc'[w] = "listed"
    BY <1>1 DEF TryGetWork, TypeOK
  <2> QED BY <2>1, Distances, DistancesNext
<1>2. CASE DownloadToStream(w)
  <2>1. pc[w] = "listed" /\ pc'[w] = "downloaded" /\ held'[w] = [depth |-> depth, flag |-> flag]
    BY <1>2 DEF DownloadToStream, TypeOK
  <2>2. held'[w].flag = flag
    BY <2>1
  <2>3. ~held'[w].flag
    BY <2>2, Zenon
  <2>4. Distance(w) = 2 /\ Distance(w)' = 1
    BY <2>1, <2>3, Distances, DistancesNext
  <2> QED BY <2>4
<1>3. CASE SetCompressedFlag(w)
  <2>1. ~MetadataAdd(w)
    BY <1>3, Zenon DEF SetCompressedFlag
  <2>2. pc[w] = "downloaded" /\ Leave(w)
    BY <1>3, <2>1 DEF SetCompressedFlag
  <2>3. pc'[w] = "polling"
    BY <2>2 DEF Leave, TypeOK
  <2>4. held[w].flag
    BY <2>1, Zenon DEF MetadataAdd
  <2>5. Distance(w) = 4 /\ Distance(w)' = 3
    BY <2>2, <2>3, <2>4, Distances, DistancesNext
  <2> QED BY <2>5
<1>4. CASE UploadFromStream(w)
  <2>1. pc[w] = "flagged" /\ flag' = held[w].flag
    BY <1>4 DEF UploadFromStream
  <2>2. held[w].flag = TRUE
    BY <2>1 DEF DepthInv
  <2> QED BY <2>1, <2>2
<1>5. CASE CastFails(w)
  BY <1>5, PollThrows, Distances, DistancesNext
<1> QED BY <1>1, <1>2, <1>3, <1>4, <1>5 DEF Work

\* Each worker's work brings it nearer to setting a missing flag or ends it by
\* a page blob, nobody takes that back but by a failure, and a flag goes away
\* only by a client's upload: whatever listings and downloads the workers hold,
\* the flag is set in the end, or polls that threw have ended them all.
THEOREM FlagOrEndComes == Spec => FlagOrEndComesNearer
<1>1. ASSUME TypeOK, TypeOK', DepthInv, [Next]_vars PROVE FlagStays
  <2> SUFFICES ASSUME flag = TRUE PROVE flag' = TRUE \/ uploads' = uploads + 1
    BY Zenon DEF FlagStays, TypeOK
  <2>1. CASE Upload
    BY <2>1 DEF Upload
  <2>2. ASSUME NEW w \in Workers, UploadFromStream(w) PROVE flag' = TRUE
    <3>1. pc[w] = "flagged" /\ flag' = held[w].flag
      BY <2>2 DEF UploadFromStream
    <3> QED BY <1>1, <3>1 DEF DepthInv
  <2>3. ASSUME NEW w \in Workers, TryGetWork(w) \/ DownloadToStream(w) \/ SetCompressedFlag(w) \/ Fail(w)
        PROVE  flag' = TRUE
    BY <2>3 DEF TryGetWork, DownloadToStream, SetCompressedFlag, Fail, blobVars
  <2>4. ASSUME NEW w \in Workers, CastFails(w) \/ ListingFails(w) PROVE flag' = TRUE
    BY <1>1, <2>4, PollThrows
  <2>5. CASE UploadPageBlob \/ DeletePageBlob
    BY <2>5, PageBlobsApart
  <2>6. CASE UNCHANGED vars
    BY <2>6 DEF vars, blobVars
  <2> QED BY <1>1, <2>1, <2>2, <2>3, <2>4, <2>5, <2>6 DEF Next, Container, Work
<1>2. ASSUME TypeOK, DepthInv, [Next]_vars, NEW v \in Workers PROVE Advances(v)
  <2> SUFFICES ASSUME ~flag, ~flag', ~Work(v)
               PROVE  Distance(v)' <= Distance(v) \/ faults' = faults + 1
    <3>1. CASE Work(v)
      <4>1. Distance(v) \in Nat /\ Distance(v)' \in Nat
        BY DEF Distance
      <4>2. ~flag /\ ~flag' => Distance(v)' < Distance(v) /\ Distance(v)' <= Distance(v)
        BY <1>2, <3>1, <4>1, WorkIsNearer
      <4> QED BY <4>2 DEF Advances
    <3> QED BY <3>1 DEF Advances
  <2> DEFINE Stays == pc'[v] = pc[v] /\ held'[v] = held[v]
  <2>1. ASSUME Stays PROVE Distance(v)' <= Distance(v)
    <3>1. Distance(v)' = Distance(v)
      BY <2>1 DEF Distance
    <3>2. Distance(v) \in Nat
      BY DEF Distance
    <3> QED BY <3>1, <3>2
  <2>2. CASE Upload
    BY <2>1, <2>2 DEF Upload
  <2>3. ASSUME NEW w \in Workers, TryGetWork(w) \/ DownloadToStream(w) \/ UploadFromStream(w) PROVE Stays
    BY <1>2, <2>3 DEF Work, TryGetWork, DownloadToStream, UploadFromStream, Leave, TypeOK
  <2>4. ASSUME NEW w \in Workers, SetCompressedFlag(w) PROVE Stays
    <3>1. w # v
      BY <2>4 DEF Work
    <3>2. CASE MetadataAdd(w)
      BY <1>2, <2>4, <3>1, <3>2, FlagSet DEF SetCompressedFlag, TypeOK
    <3>3. CASE ~MetadataAdd(w)
      BY <1>2, <2>4, <3>1, <3>3 DEF SetCompressedFlag, Leave, TypeOK
    <3> QED BY <3>2, <3>3
  <2>5. ASSUME NEW w \in Workers, Fail(w) PROVE faults' = faults + 1
    BY <2>5 DEF Fail
  <2>6. ASSUME NEW w \in Workers, CastFails(w) PROVE Stays
    <3>1. w # v
      BY <2>6 DEF Work
    <3> QED BY <1>2, <2>6, <3>1, PollThrows
  <2>7. ASSUME NEW w \in Workers, ListingFails(w) PROVE faults' = faults + 1
    BY <2>7 DEF ListingFails
  <2>8. CASE UploadPageBlob \/ DeletePageBlob
    BY <2>1, <2>8, PageBlobsApart
  <2>9. CASE UNCHANGED vars
    BY <2>1, <2>9 DEF vars
  <2> QED BY <1>2, <2>1, <2>2, <2>3, <2>4, <2>5, <2>6, <2>7, <2>8, <2>9 DEF Next, Container, Work
<1>3. ASSUME TypeOK, [Next]_vars, NEW v \in Workers PROVE EndsByAPoll(v)
  <2> SUFFICES ASSUME pc[v] # "faulted", pc'[v] = "faulted"
               PROVE  pc[v] = "polling" /\ (pageBlob \/ faults' = faults + 1)
    BY DEF EndsByAPoll
  <2>1. CASE Container \/ UNCHANGED vars
    BY <2>1 DEF Container, Upload, UploadPageBlob, DeletePageBlob, vars
  <2>2. ASSUME NEW w \in Workers,
               TryGetWork(w) \/ DownloadToStream(w) \/ SetCompressedFlag(w) \/ UploadFromStream(w) \/ Fail(w)
        PROVE  FALSE
    BY <1>3, <2>2 DEF TryGetWork, DownloadToStream, SetCompressedFlag, UploadFromStream, Fail, Leave, TypeOK
  <2>3. ASSUME NEW w \in Workers, CastFails(w) PROVE pc[v] = "polling" /\ pageBlob
    <3>1. v = w
      BY <1>3, <2>3, PollThrows
    <3>2. pc[w] = "polling" /\ pageBlob
      BY <2>3, Zenon DEF CastFails, Faults
    <3> QED BY <3>1, <3>2
  <2>4. ASSUME NEW w \in Workers, ListingFails(w) PROVE pc[v] = "polling" /\ faults' = faults + 1
    <3>1. v = w
      BY <1>3, <2>4, PollThrows
    <3>2. pc[w] = "polling" /\ faults' = faults + 1
      BY <2>4 DEF ListingFails, Faults
    <3> QED BY <3>1, <3>2
  <2> QED BY <1>3, <2>1, <2>2, <2>3, <2>4 DEF Next, Work
<1>4. TypeOK /\ TypeOK' /\ DepthInv /\ [Next]_vars
        => [FlagStays /\ \A w \in Workers : Advances(w) /\ EndsByAPoll(w)]_vars
  BY <1>1, <1>2, <1>3
<1> QED BY <1>4, TypeCorrect, DepthInvariant, PTL DEF Spec, FlagOrEndComesNearer
=============================================================================
