------------------------- MODULE SharedFilesProofs -------------------------
(***************************************************************************)
(* Theorems about SharedFiles for any number of uploads, downloads and     *)
(* deletes of one name and any limit of their size.                        *)
(***************************************************************************)
EXTENDS SharedFiles, SequenceTheorems, TLAPS

(* A file is called after the upload that created it: nobody has it open   *)
(* before, and the name is not its.                                        *)
NotMade(f) == name # f /\ (\A v \in Uploads : upload[v].fd # f)
                       /\ (\A d \in Downloads : download[d].src # f)
FreshInv == \A u \in Uploads : upload[u].pc = "idle" => NotMade(u)

(* A file that is not torn has one writer, which has written all of it; or *)
(* none, and is one whole upload if it has the name and no clean-up is     *)
(* about to remove it.                                                     *)
WriterInv ==
    \A i \in Uploads \ torn :
        /\ \A u, v \in Writers(i) : u = v
        /\ \A u \in Writers(i) : data[i] = Whole(u)
        /\ name = i /\ Workers(i) = {} => IsUpload(data[i])

(* What a download that no upload disturbed has sent is the beginning of a *)
(* whole upload, as long as it reads the file or can ask for more of it.   *)
Sole(d) ==
    /\ download[d].src # None /\ ~ download[d].mixed
    /\ download[d].open \/ download[d].src = name
Prefix(s, t) == Len(s) <= Len(t) /\ \A j \in 1 .. Len(s) : s[j] = t[j]
Reads(d) ==
    /\ Writers(download[d].src) = {}
    /\ IsUpload(data[download[d].src])
    /\ download[d].open => download[d].size = Len(data[download[d].src])
    /\ Prefix(download[d].sent, data[download[d].src])
ReadInv == \A d \in Downloads : Sole(d) => Reads(d)

(* Uploads that are under way have met, and the file that has the name     *)
(* holds nothing older than they are.                                      *)
MetInv ==
    \A u \in Uploads : Busy(u) =>
        /\ \A v \in Uploads \ {u} : Busy(v) => v \in met[u]
        /\ name # None => Range(data[name]) \ {None, u} \subseteq met[u]

IInv == TypeOK /\ FreshInv /\ WriterInv /\ ReadInv /\ MetInv

-----------------------------------------------------------------------------
(* What the type invariant says of one download.                           *)
LEMMA DownloadType ==
    ASSUME TypeOK, NEW d \in Downloads
    PROVE  /\ download[d] \in [src : Uploads \cup {None}, open : BOOLEAN,
                               size : 0 .. MaxChunks + 1,
                               sent : Seq(Uploads \cup {None}), mixed : BOOLEAN]
           /\ Len(download[d].sent) <= download[d].size
           /\ download[d].open => download[d].src \in Uploads
<1>1. download \in [Downloads -> [src : Uploads \cup {None}, open : BOOLEAN,
                                  size : 0 .. MaxChunks + 1,
                                  sent : Seq(Uploads \cup {None}), mixed : BOOLEAN]]
    BY Zenon DEF TypeOK
<1>2. /\ Len(download[d].sent) <= download[d].size
      /\ download[d].open => download[d].src # None
    BY Zenon DEF TypeOK
<1>3. QED
    BY <1>1, <1>2

(* What a write does to the chunks of a file.                              *)
LEMMA PutFacts ==
    ASSUME NEW s \in Seq(Uploads \cup {None}), NEW n \in Nat, NEW u \in Uploads,
           Len(s) <= MaxChunks + 1, n <= MaxChunks
    PROVE  /\ Put(s, n, u) \in Seq(Uploads \cup {None})
           /\ Len(Put(s, n, u)) <= MaxChunks + 1
           /\ Range(Put(s, n, u)) \subseteq Range(s) \cup {u, None}
           /\ s = [j \in 1 .. n |-> u] => Put(s, n, u) = [j \in 1 .. n + 1 |-> u]
<1> DEFINE p == Put(s, n, u)
           m == IF n + 1 > Len(s) THEN n + 1 ELSE Len(s)
<1>1. m \in Nat /\ m <= MaxChunks + 1
    BY FilesAssumption
<1>2. p = [j \in 1 .. m |->
              IF j = n + 1 THEN u ELSE IF j <= Len(s) THEN s[j] ELSE None]
    BY DEF Put
<1>3. \A j \in 1 .. m : p[j] = u \/ p[j] = None \/ (j \in 1 .. Len(s) /\ p[j] = s[j])
    BY <1>1, <1>2
<1>4. \A j \in 1 .. m : p[j] \in Uploads \cup {None}
    BY <1>3
<1>5. p \in [1 .. m -> Uploads \cup {None}]
    BY <1>2, <1>4
<1>6. p \in Seq(Uploads \cup {None}) /\ Len(p) = m
    BY <1>1, <1>5
<1>7. Range(p) \subseteq Range(s) \cup {u, None}
    BY <1>2, <1>3 DEF Range
<1>8. s = [j \in 1 .. n |-> u] => p = [j \in 1 .. n + 1 |-> u]
    <2>1. SUFFICES ASSUME s = [j \in 1 .. n |-> u] PROVE p = [j \in 1 .. n + 1 |-> u]
        OBVIOUS
    <2>2. Len(s) = n /\ \A j \in 1 .. n : s[j] = u
        BY <2>1
    <2>3. m = n + 1
        BY <2>2
    <2>4. \A j \in 1 .. n + 1 : p[j] = u
        BY <1>2, <2>2, <2>3
    <2>5. QED
        BY <1>2, <2>3, <2>4
<1>9. QED
    BY <1>1, <1>6, <1>7, <1>8

(* An acknowledged upload stays one.                                       *)
AckedStay == \A v \in Uploads : upload[v].pc = "acked" => upload'[v] = upload[v]

LEMMA UploadStays ==
    ASSUME NEW f, NEW g, AckedStay, data'[g] = data[f], IsUpload(data[f])
    PROVE  IsUpload(data[g])'
BY DEF AckedStay, IsUpload, Whole

(* The chunks of a file stay as they are, or nobody can see them any more. *)
DataStays ==
    \A f \in Uploads :
        \/ data'[f] = data[f]
        \/ data'[f] = <<>> /\ name' # f /\ Writers(f)' = {} /\ Readers(f)' = {}

LEMMA ClosedKeeps ==
    ASSUME TypeOK, Closed \/ UNCHANGED data
    PROVE  /\ DataStays
           /\ data' \in [Uploads -> Seq(Uploads \cup {None})]
           /\ \A f \in Uploads : Len(data'[f]) <= MaxChunks + 1
<1>1. CASE UNCHANGED data
    BY <1>1 DEF TypeOK, DataStays
<1>2. CASE Closed
    <2>1. \A f \in Uploads :
              \/ data'[f] = data[f]
              \/ data'[f] = <<>> /\ name' # f /\ Writers(f)' = {} /\ Readers(f)' = {}
        BY <1>2 DEF Closed, Alive
    <2>2. DOMAIN data' = Uploads /\ data' = [f \in Uploads |-> data'[f]]
        BY <1>2 DEF Closed
    <2>3. Len(<<>>) <= MaxChunks + 1 /\ <<>> \in Seq(Uploads \cup {None})
        BY FilesAssumption
    <2>4. ASSUME NEW f \in Uploads
          PROVE  data'[f] \in Seq(Uploads \cup {None}) /\ Len(data'[f]) <= MaxChunks + 1
        <3>1. data[f] \in Seq(Uploads \cup {None}) /\ Len(data[f]) <= MaxChunks + 1
            BY DEF TypeOK
        <3>2. QED
            BY <2>1, <2>3, <3>1
    <2>5. QED
        BY <2>1, <2>2, <2>4 DEF DataStays
<1>3. QED
    BY <1>1, <1>2

-----------------------------------------------------------------------------
(* What the steps that write nothing keep of each part of the invariant.   *)
LEMMA FreshKeeps ==
    ASSUME IInv, name' \in {name, None},
           \A v \in Uploads : /\ upload'[v].fd \in {upload[v].fd, None}
                              /\ upload'[v].pc = "idle" => upload[v].pc = "idle",
           \A d \in Downloads : download'[d].src \in {download[d].src, name, None}
    PROVE  FreshInv'
BY FilesAssumption DEF IInv, FreshInv, NotMade

LEMMA WriterKeeps ==
    ASSUME IInv, DataStays, AckedStay, torn \subseteq torn',
           \A v \in Uploads : upload'[v] = upload[v] \/ upload'[v].pc # "copy",
           \A f \in Uploads \ torn' : name' = f /\ Workers(f)' = {} =>
               name = f /\ (Workers(f) = {} \/ IsUpload(data[f])')
    PROVE  WriterInv'
<1>1. SUFFICES ASSUME NEW f \in Uploads, f \notin torn'
               PROVE  /\ \A u, v \in Writers(f)' : u = v
                      /\ \A u \in Writers(f)' : data'[f] = Whole(u)'
                      /\ name' = f /\ Workers(f)' = {} => IsUpload(data[f])'
    BY DEF WriterInv
<1>2. f \in Uploads \ torn
    BY <1>1
<1>3. \A u \in Writers(f)' : u \in Writers(f) /\ Whole(u)' = Whole(u)
    BY DEF Writers, Whole
<1>4. \A u, v \in Writers(f)' : u = v
    BY <1>2, <1>3 DEF IInv, WriterInv
<1>5. ASSUME NEW u \in Writers(f)' PROVE data'[f] = Whole(u)'
    <2>1. data'[f] = data[f]
        BY <1>5 DEF DataStays
    <2>2. data[f] = Whole(u)
        BY <1>2, <1>3, <1>5 DEF IInv, WriterInv
    <2>3. QED
        BY <1>3, <1>5, <2>1, <2>2
<1>6. ASSUME name' = f, Workers(f)' = {} PROVE IsUpload(data[f])'
    <2>1. CASE Workers(f) = {}
        <3>1. IsUpload(data[f])
            BY <1>1, <1>2, <1>6, <2>1 DEF IInv, WriterInv
        <3>2. data'[f] = data[f]
            BY <1>6 DEF DataStays
        <3>3. QED
            BY <3>1, <3>2, UploadStays
    <2>2. QED
        BY <1>1, <1>6, <2>1
<1>7. QED
    BY <1>4, <1>5, <1>6

LEMMA ReadKeeps ==
    ASSUME IInv, DataStays, AckedStay, name' \in {name, None},
           \A f \in Uploads : Writers(f)' \subseteq Writers(f),
           NEW d \in Downloads, Sole(d)',
           download'[d] \in {download[d], [download[d] EXCEPT !.open = FALSE]}
    PROVE  Reads(d)'
<1>0. /\ download'[d].src = download[d].src /\ download'[d].sent = download[d].sent
      /\ download'[d].size = download[d].size /\ download'[d].mixed = download[d].mixed
      /\ download'[d].open => download[d].open
    BY DEF IInv, TypeOK
<1>1. PICK f \in Uploads : download[d].src = f /\ download'[d].src = f /\ Sole(d)
    BY <1>0 DEF IInv, TypeOK, Sole
<1>2. Reads(d)
    BY <1>1 DEF IInv, ReadInv
<1>3. d \in Readers(f)' \/ name' = f
    <2>1. download'[d].open \/ name' = f
        BY <1>1 DEF Sole
    <2>2. download'[d].open => d \in Readers(f)'
        BY <1>1 DEF Readers
    <2>3. QED
        BY <2>1, <2>2
<1>4. data'[f] = data[f]
    BY <1>1, <1>3 DEF DataStays
<1>5. IsUpload(data[f])'
    BY <1>1, <1>2, <1>4, UploadStays DEF Reads
<1>6. Writers(f)' = {}
    BY <1>1, <1>2 DEF Reads
<1>7. QED
    BY <1>0, <1>1, <1>2, <1>4, <1>5, <1>6 DEF Reads, IsUpload, Prefix, Writers

LEMMA MetKeeps ==
    ASSUME IInv, DataStays, name' \in {name, None},
           \A u \in Uploads : Busy(u)' => Busy(u) /\ met'[u] = met[u]
    PROVE  MetInv'
<1>1. ASSUME NEW u \in Uploads, Busy(u)'
      PROVE  /\ \A v \in Uploads \ {u} : Busy(v)' => v \in met'[u]
             /\ name' # None => Range(data[name])' \ {None, u} \subseteq met'[u]
    <2>1. /\ \A v \in Uploads \ {u} : Busy(v) => v \in met[u]
          /\ name # None => Range(data[name]) \ {None, u} \subseteq met[u]
        BY <1>1 DEF IInv, MetInv
    <2>2. name' # None => name' = name /\ name \in Uploads
        BY DEF IInv, TypeOK
    <2>3. name' # None => data'[name'] = data[name]
        BY <2>2 DEF DataStays
    <2>4. QED
        BY <1>1, <2>1, <2>2, <2>3
<1>2. QED
    BY <1>1 DEF MetInv

-----------------------------------------------------------------------------
LEMMA InitIInv == Init => IInv
<1>1. SUFFICES ASSUME Init PROVE IInv
    OBVIOUS
<1>2. TypeOK
    <2>1. <<>> \in Seq(Uploads \cup {None}) /\ Len(<<>>) = 0
        OBVIOUS
    <2>2. data \in [Uploads -> Seq(Uploads \cup {None})] /\ \A i \in Uploads : Len(data[i]) = 0
        BY <1>1, <2>1 DEF Init
    <2>3. QED
        BY <1>1, <2>1, <2>2, FilesAssumption
        DEF Init, TypeOK, NotYet, NoFile, Busy, UploadSteps
<1>3. FreshInv /\ WriterInv /\ ReadInv /\ MetInv
    BY <1>1, FilesAssumption
    DEF Init, FreshInv, NotMade, WriterInv, Writers, ReadInv, Sole, MetInv, Busy, NotYet, NoFile
<1>4. QED
    BY <1>2, <1>3 DEF IInv

LEMMA OpenKeeps ==
    ASSUME NEW u \in Uploads, IInv, Open(u)
    PROVE  IInv'
<1>1. PICK i \in Uploads :
      /\ i \in {u, name} /\ upload[u].pc = "idle" /\ NotMade(u)
      /\ name' = i /\ data' = [data EXCEPT ![i] = <<>>]
      /\ upload' = [upload EXCEPT ![u] = [pc |-> "copy", fd |-> i, off |-> 0]]
      /\ Joins(u, i) /\ UNCHANGED deleting
    BY DEF Open, IInv, TypeOK, FreshInv
<1>2. /\ upload'[u] = [pc |-> "copy", fd |-> i, off |-> 0]
      /\ \A v \in Uploads \ {u} : upload'[v] = upload[v]
      /\ data'[i] = <<>>
      /\ \A f \in Uploads \ {i} : data'[f] = data[f]
    BY <1>1 DEF IInv, TypeOK
<1>3. /\ \A d \in Downloads :
            \/ download[d].src = i /\ download'[d] = [download[d] EXCEPT !.mixed = TRUE]
            \/ download[d].src # i /\ download'[d] = download[d]
      /\ download' = [d \in Downloads |-> download'[d]]
    BY <1>1 DEF Joins
<1>4. /\ met'[u] = {x \in Uploads : Busy(x)}
      /\ \A v \in Uploads \ {u} : Busy(v) => met'[v] = met[v] \cup {u}
    BY <1>1 DEF Joins
<1>5. AckedStay
    BY <1>1, <1>2 DEF AckedStay
<1>6. \A f \in Uploads \ {i} : Writers(f)' = Writers(f)
    BY <1>1, <1>2 DEF Writers
<1>7. TypeOK'
    <2>1. name' \in Uploads /\ deleting' \subseteq Deletes /\ torn' \subseteq Uploads
        BY <1>1 DEF IInv, TypeOK, Joins
    <2>2. /\ data' \in [Uploads -> Seq(Uploads \cup {None})]
          /\ \A f \in Uploads : Len(data'[f]) <= MaxChunks + 1
        <3>1. <<>> \in Seq(Uploads \cup {None}) /\ Len(<<>>) <= MaxChunks + 1
            BY FilesAssumption
        <3>2. QED
            BY <1>1, <1>2, <3>1 DEF IInv, TypeOK
    <2>3. /\ upload' \in [Uploads -> [pc : UploadSteps, fd : Uploads \cup {None},
                                      off : 0 .. MaxChunks + 1]]
          /\ \A v \in Uploads : Busy(v)' => upload'[v].fd # None
        BY <1>1, <1>2, FilesAssumption DEF IInv, TypeOK, UploadSteps, Busy
    <2>4. \A d \in Downloads :
             /\ download'[d] \in [src : Uploads \cup {None}, open : BOOLEAN,
                                   size : 0 .. MaxChunks + 1,
                                   sent : Seq(Uploads \cup {None}), mixed : BOOLEAN]
             /\ Len(download'[d].sent) <= download'[d].size
             /\ download'[d].open => download'[d].src # None
        <3>1. SUFFICES ASSUME NEW d \in Downloads
                       PROVE  /\ download'[d] \in [src : Uploads \cup {None}, open : BOOLEAN,
                                                    size : 0 .. MaxChunks + 1,
                                                    sent : Seq(Uploads \cup {None}),
                                                    mixed : BOOLEAN]
                              /\ Len(download'[d].sent) <= download'[d].size
                              /\ download'[d].open => download'[d].src # None
            OBVIOUS
        <3>2. /\ download[d] \in [src : Uploads \cup {None}, open : BOOLEAN,
                                  size : 0 .. MaxChunks + 1,
                                  sent : Seq(Uploads \cup {None}), mixed : BOOLEAN]
              /\ Len(download[d].sent) <= download[d].size
              /\ download[d].open => download[d].src # None
            BY DownloadType, FilesAssumption DEF IInv
        <3>3. CASE download'[d] = download[d]
            BY <3>2, <3>3
        <3>4. CASE download'[d] = [download[d] EXCEPT !.mixed = TRUE]
            BY <3>2, <3>4
        <3>5. QED
            BY <1>3, <3>3, <3>4
    <2>5. met' \in [Uploads -> SUBSET Uploads]
        BY <1>1 DEF Joins, IInv, TypeOK
    <2>6. QED
        BY <1>3, <2>1, <2>2, <2>3, <2>4, <2>5 DEF TypeOK
<1>8. FreshInv'
    <2>1. SUFFICES ASSUME NEW x \in Uploads, upload'[x].pc = "idle" PROVE NotMade(x)'
        BY DEF FreshInv
    <2>2. x # u /\ upload[x].pc = "idle" /\ NotMade(x)
        BY <1>2, <2>1 DEF IInv, FreshInv
    <2>3. i # x
        BY <1>1, <2>2 DEF NotMade
    <2>4. \A d \in Downloads : download'[d].src = download[d].src
        BY <1>3 DEF IInv, TypeOK
    <2>5. \A v \in Uploads : upload'[v].fd # x
        BY <1>2, <2>2, <2>3 DEF NotMade
    <2>6. QED
        BY <1>1, <2>2, <2>3, <2>4, <2>5 DEF NotMade
<1>9. WriterInv'
    <2>1. SUFFICES ASSUME NEW f \in Uploads, f \notin torn'
                   PROVE  /\ \A v, w \in Writers(f)' : v = w
                          /\ \A v \in Writers(f)' : data'[f] = Whole(v)'
                          /\ name' = f /\ Workers(f)' = {} => IsUpload(data[f])'
        BY DEF WriterInv
    <2>2. CASE f = i
        <3>1. Writers(i) = {}
            BY <1>1, <2>1, <2>2 DEF Joins
        <3>2. \A v \in Writers(i)' : v = u
            BY <1>2, <3>1 DEF Writers
        <3>3. Whole(u)' = <<>>
            BY <1>2 DEF Whole
        <3>4. u \in Workers(i)'
            BY <1>2 DEF Workers, Busy
        <3>5. QED
            BY <1>2, <2>2, <3>2, <3>3, <3>4
    <2>3. CASE f # i
        <3>1. f \in Uploads \ torn
            BY <1>1, <2>1, <2>3 DEF Joins
        <3>2. \A v \in Writers(f) : v # u
            BY <1>1 DEF Writers
        <3>3. \A v \in Writers(f)' : Whole(v)' = Whole(v)
            BY <1>2, <1>6, <2>3, <3>2 DEF Whole, Writers
        <3>4. QED
            BY <1>1, <1>2, <1>6, <2>3, <3>1, <3>3 DEF IInv, WriterInv
    <2>4. QED
        BY <2>2, <2>3
<1>10. ReadInv'
    <2>1. SUFFICES ASSUME NEW d \in Downloads, Sole(d)' PROVE Reads(d)'
        BY DEF ReadInv
    <2>2. download[d].src # i /\ download'[d] = download[d]
        BY <1>3, <2>1 DEF Sole, IInv, TypeOK
    <2>3. Sole(d) /\ Reads(d) /\ download[d].src \in Uploads \ {i}
        BY <1>1, <2>1, <2>2 DEF Sole, IInv, ReadInv, TypeOK
    <2>4. data'[download[d].src] = data[download[d].src]
        BY <1>2, <2>3
    <2>5. IsUpload(data[download[d].src])'
        BY <1>5, <2>2, <2>3, <2>4, UploadStays DEF Reads
    <2>6. Writers(download[d].src)' = {}
        BY <1>6, <2>2, <2>3 DEF Reads
    <2>7. QED
        BY <2>2, <2>3, <2>4, <2>5, <2>6 DEF Reads, Prefix, IsUpload, Writers
<1>11. MetInv'
    <2>1. SUFFICES ASSUME NEW v \in Uploads, Busy(v)'
                   PROVE  /\ \A x \in Uploads \ {v} : Busy(x)' => x \in met'[v]
                          /\ Range(data[name])' \ {None, v} \subseteq met'[v]
        BY DEF MetInv
    <2>2. Range(data[name])' = {}
        BY <1>1, <1>2 DEF Range
    <2>3. \A x \in Uploads \ {u} : Busy(x)' = Busy(x)
        BY <1>2 DEF Busy
    <2>4. QED
        BY <1>2, <1>4, <2>1, <2>2, <2>3 DEF IInv, MetInv
<1>12. QED
    BY <1>7, <1>8, <1>9, <1>10, <1>11 DEF IInv

(* A request that is refused opened nothing.                               *)
LEMMA RefusedKeeps ==
    ASSUME NEW u \in Uploads, IInv, Refused(u)
    PROVE  IInv'
<1>1. /\ upload' = [upload EXCEPT ![u].pc = "failed"]
      /\ upload[u].pc = "idle"
      /\ UNCHANGED <<name, data, download, deleting, torn, met>>
    BY DEF Refused
<1>2. /\ upload'[u] = [upload[u] EXCEPT !.pc = "failed"]
      /\ upload'[u].fd = upload[u].fd /\ upload'[u].pc = "failed"
      /\ \A v \in Uploads \ {u} : upload'[v] = upload[v]
    BY <1>1 DEF IInv, TypeOK
<1>3. DataStays /\ AckedStay
    <2>1. DataStays
        BY <1>1, ClosedKeeps DEF IInv
    <2>2. AckedStay
        BY <1>1, <1>2 DEF AckedStay
    <2>3. QED
        BY <2>1, <2>2
<1>4. TypeOK'
    <2>1. [upload[u] EXCEPT !.pc = "failed"] \in
              [pc : UploadSteps, fd : Uploads \cup {None}, off : 0 .. MaxChunks + 1]
        BY DEF IInv, TypeOK, UploadSteps
    <2>2. upload' \in [Uploads -> [pc : UploadSteps, fd : Uploads \cup {None},
                                  off : 0 .. MaxChunks + 1]]
        BY <1>1, <2>1 DEF IInv, TypeOK
    <2>3. \A v \in Uploads : Busy(v)' => upload'[v].fd # None
        BY <1>2 DEF IInv, TypeOK, Busy
    <2>4. QED
        BY <1>1, <2>2, <2>3 DEF IInv, TypeOK
<1>5. FreshInv'
    BY <1>1, <1>2, FreshKeeps
<1>6. \A f \in Uploads : Workers(f)' = Workers(f) /\ Writers(f)' = Writers(f)
    BY <1>1, <1>2 DEF Workers, Writers, Busy
<1>7. WriterInv'
    BY <1>1, <1>2, <1>3, <1>6, WriterKeeps
<1>8. ReadInv'
    BY <1>1, <1>3, <1>6, ReadKeeps DEF ReadInv
<1>9. MetInv'
    BY <1>1, <1>2, <1>3, MetKeeps DEF Busy
<1>10. QED
    BY <1>4, <1>5, <1>7, <1>8, <1>9 DEF IInv

(* The next chunk: the only step that writes.                              *)
LEMMA CopyKeeps ==
    ASSUME NEW u \in Uploads, IInv, Copy(u)
    PROVE  IInv'
<1> DEFINE f == upload[u].fd
           n == upload[u].off
<1>1. /\ f \in Uploads /\ n \in Nat /\ n <= MaxChunks /\ upload[u].pc = "copy"
      /\ data[f] \in Seq(Uploads \cup {None}) /\ Len(data[f]) <= MaxChunks + 1
    BY FilesAssumption DEF Copy, IInv, TypeOK, Busy
<1>2. /\ data'[f] = Put(data[f], n, u)
      /\ \A g \in Uploads \ {f} : data'[g] = data[g]
      /\ upload' = [upload EXCEPT ![u].off = n + 1]
      /\ upload'[u].pc = "copy" /\ upload'[u].fd = f /\ upload'[u].off = n + 1
      /\ \A v \in Uploads \ {u} : upload'[v] = upload[v]
      /\ UNCHANGED <<name, download, deleting, torn, met>>
    BY <1>1 DEF Copy, IInv, TypeOK
<1>3. /\ Put(data[f], n, u) \in Seq(Uploads \cup {None})
      /\ Len(Put(data[f], n, u)) <= MaxChunks + 1
      /\ Range(Put(data[f], n, u)) \subseteq Range(data[f]) \cup {u, None}
      /\ data[f] = Whole(u) => Put(data[f], n, u) = [j \in 1 .. n + 1 |-> u]
    BY <1>1, PutFacts DEF Whole
<1>4. AckedStay
    BY <1>1, <1>2 DEF AckedStay
<1>5. \A g \in Uploads : Writers(g)' = Writers(g) /\ Workers(g)' = Workers(g)
    BY <1>1, <1>2 DEF Writers, Workers, Busy
<1>6. \A v \in Uploads : Busy(v)' = Busy(v)
    BY <1>1, <1>2 DEF Busy
<1>7. TypeOK'
    <2>1. /\ data' \in [Uploads -> Seq(Uploads \cup {None})]
          /\ \A g \in Uploads : Len(data'[g]) <= MaxChunks + 1
        BY <1>1, <1>2, <1>3 DEF Copy, IInv, TypeOK
    <2>2. /\ upload' \in [Uploads -> [pc : UploadSteps, fd : Uploads \cup {None},
                                      off : 0 .. MaxChunks + 1]]
        <3>1. n + 1 \in 0 .. MaxChunks + 1
            BY <1>1, FilesAssumption
        <3>2. [upload[u] EXCEPT !.off = n + 1] \in
                  [pc : UploadSteps, fd : Uploads \cup {None}, off : 0 .. MaxChunks + 1]
            BY <3>1 DEF IInv, TypeOK
        <3>3. QED
            BY <1>2, <3>2 DEF IInv, TypeOK
    <2>3. \A v \in Uploads : Busy(v)' => upload'[v].fd # None
        BY <1>1, <1>2, <1>6, FilesAssumption DEF IInv, TypeOK
    <2>4. QED
        BY <1>2, <2>1, <2>2, <2>3 DEF IInv, TypeOK
<1>8. FreshInv'
    BY <1>1, <1>2, FreshKeeps
<1>9. WriterInv'
    <2>1. SUFFICES ASSUME NEW g \in Uploads, g \notin torn
                   PROVE  /\ \A v, w \in Writers(g)' : v = w
                          /\ \A v \in Writers(g)' : data'[g] = Whole(v)'
                          /\ name' = g /\ Workers(g)' = {} => IsUpload(data[g])'
        BY <1>2 DEF WriterInv
    <2>2. /\ \A v, w \in Writers(g) : v = w
          /\ \A v \in Writers(g) : data[g] = Whole(v)
          /\ name = g /\ Workers(g) = {} => IsUpload(data[g])
        BY <2>1 DEF IInv, WriterInv
    <2>3. CASE g = f
        <3>1. u \in Writers(f) /\ u \in Workers(f)
            BY <1>1 DEF Writers, Workers, Busy
        <3>2. data'[f] = [j \in 1 .. n + 1 |-> u]
            BY <1>2, <1>3, <2>2, <2>3, <3>1
        <3>3. data'[f] = Whole(u)'
            BY <1>2, <3>2 DEF Whole
        <3>4. QED
            BY <1>5, <2>2, <2>3, <3>1, <3>3
    <2>4. CASE g # f
        <3>1. data'[g] = data[g]
            BY <1>2, <2>4
        <3>2. \A v \in Writers(g) : Whole(v)' = Whole(v)
            BY <1>2, <2>4 DEF Writers, Whole
        <3>3. IsUpload(data[g]) => IsUpload(data[g])'
            BY <1>4, <3>1, UploadStays
        <3>4. QED
            BY <1>2, <1>5, <2>2, <3>1, <3>2, <3>3
    <2>5. QED
        BY <2>3, <2>4
<1>10. ReadInv'
    <2>1. SUFFICES ASSUME NEW d \in Downloads, Sole(d)' PROVE Reads(d)'
        BY DEF ReadInv
    <2>2. Sole(d) /\ Reads(d) /\ download'[d] = download[d] /\ download[d].src \in Uploads
        BY <1>2, <2>1 DEF Sole, IInv, ReadInv, TypeOK
    <2>3. download[d].src # f
        BY <1>1, <2>2 DEF Reads, Writers
    <2>4. data'[download[d].src] = data[download[d].src]
        BY <1>2, <2>2, <2>3
    <2>5. IsUpload(data[download[d].src])'
        BY <1>4, <2>2, <2>4, UploadStays DEF Reads
    <2>6. Writers(download[d].src)' = {}
        BY <1>5, <2>2 DEF Reads
    <2>7. QED
        BY <2>2, <2>4, <2>5, <2>6 DEF Reads, Prefix, IsUpload, Writers
<1>11. MetInv'
    <2>1. SUFFICES ASSUME NEW v \in Uploads, Busy(v)
                   PROVE  /\ \A x \in Uploads \ {v} : Busy(x) => x \in met[v]
                          /\ name # None => Range(data'[name]) \ {None, v} \subseteq met[v]
        BY <1>2, <1>6 DEF MetInv
    <2>2. /\ \A x \in Uploads \ {v} : Busy(x) => x \in met[v]
          /\ name # None => Range(data[name]) \ {None, v} \subseteq met[v]
        BY <2>1 DEF IInv, MetInv
    <2>3. v # u => u \in met[v]
        BY <1>1, <2>2 DEF Busy
    <2>4. name # None => name \in Uploads
        BY DEF IInv, TypeOK
    <2>5. CASE name = f
        BY <1>2, <1>3, <2>2, <2>3, <2>5
    <2>6. CASE name # f
        BY <1>2, <2>2, <2>4, <2>6
    <2>7. QED
        BY <2>5, <2>6
<1>12. QED
    BY <1>7, <1>8, <1>9, <1>10, <1>11 DEF IInv

(* What the end of an upload does to its own state.                        *)
LEMMA EndsFacts ==
    ASSUME NEW u \in Uploads, NEW how \in {"acked", "failed"}, IInv, Ends(u, how), Busy(u)
    PROVE  /\ upload' \in [Uploads -> [pc : UploadSteps, fd : Uploads \cup {None},
                                       off : 0 .. MaxChunks + 1]]
           /\ upload'[u].pc = how /\ upload'[u].fd = None
           /\ how = "acked" => upload'[u].off = upload[u].off
           /\ \A v \in Uploads \ {u} : upload'[v] = upload[v] /\ met'[v] = met[v]
           /\ met' \in [Uploads -> SUBSET Uploads]
           /\ AckedStay
<1>1. PICK n \in 0 .. MaxChunks + 1 :
          /\ upload' = [upload EXCEPT ![u] = [pc |-> how, fd |-> None, off |-> n]]
          /\ how = "acked" => n = upload[u].off
    <2> DEFINE m == IF how = "acked" THEN upload[u].off ELSE 0
    <2>1. m \in 0 .. MaxChunks + 1 /\ (how = "acked" => m = upload[u].off)
        BY FilesAssumption DEF IInv, TypeOK
    <2>2. upload' = [upload EXCEPT ![u] = [pc |-> how, fd |-> None, off |-> m]]
        BY DEF Ends
    <2> HIDE DEF m
    <2>3. QED
        BY <2>1, <2>2
<1>2. met' = [met EXCEPT ![u] = {}]
    BY DEF Ends
<1>3. /\ upload'[u] = [pc |-> how, fd |-> None, off |-> n]
      /\ \A v \in Uploads \ {u} : upload'[v] = upload[v] /\ met'[v] = met[v]
    BY <1>1, <1>2 DEF IInv, TypeOK
<1>4. upload' \in [Uploads -> [pc : UploadSteps, fd : Uploads \cup {None},
                              off : 0 .. MaxChunks + 1]]
    <2>1. [pc |-> how, fd |-> None, off |-> n] \in
              [pc : UploadSteps, fd : Uploads \cup {None}, off : 0 .. MaxChunks + 1]
        BY <1>1 DEF UploadSteps
    <2>2. QED
        BY <1>1, <2>1 DEF IInv, TypeOK
<1>5. AckedStay
    BY <1>3 DEF AckedStay, Busy
<1>6. met' \in [Uploads -> SUBSET Uploads]
    BY <1>2 DEF IInv, TypeOK
<1>7. QED
    BY <1>1, <1>3, <1>4, <1>5, <1>6

(* The upload is acknowledged: its file becomes a whole one.               *)
LEMMA CopyEndsKeeps ==
    ASSUME NEW u \in Uploads, IInv, CopyEnds(u)
    PROVE  IInv'
<1>1. /\ upload[u].pc = "copy" /\ Busy(u) /\ Ends(u, "acked") /\ Closed
      /\ UNCHANGED <<name, download, deleting, torn>>
    BY DEF CopyEnds, Busy
<1>2. /\ upload' \in [Uploads -> [pc : UploadSteps, fd : Uploads \cup {None},
                                  off : 0 .. MaxChunks + 1]]
      /\ upload'[u].pc = "acked" /\ upload'[u].fd = None
      /\ upload'[u].off = upload[u].off
      /\ \A v \in Uploads \ {u} : upload'[v] = upload[v] /\ met'[v] = met[v]
      /\ met' \in [Uploads -> SUBSET Uploads]
      /\ AckedStay
    BY <1>1, EndsFacts
<1>3. /\ DataStays
      /\ data' \in [Uploads -> Seq(Uploads \cup {None})]
      /\ \A f \in Uploads : Len(data'[f]) <= MaxChunks + 1
    BY <1>1, ClosedKeeps DEF IInv
<1>4. \A v \in Uploads : Busy(v)' => v # u /\ Busy(v)
    BY <1>2 DEF Busy
<1>5. TypeOK'
    BY <1>1, <1>2, <1>3, <1>4 DEF IInv, TypeOK
<1>6. FreshInv'
    BY <1>1, <1>2, FreshKeeps
<1>7. \A f \in Uploads : Writers(f)' = Writers(f) \ {u} /\ Workers(f)' = Workers(f) \ {u}
    BY <1>1, <1>2 DEF Writers, Workers, Busy
<1>8. WriterInv'
    <2>1. ASSUME NEW f \in Uploads \ torn, name = f, Workers(f)' = {}
          PROVE  Workers(f) = {} \/ IsUpload(data[f])'
        <3>1. SUFFICES ASSUME u \in Workers(f) PROVE IsUpload(data[f])'
            BY <1>7, <2>1
        <3>2. u \in Writers(f)
            BY <1>1, <3>1 DEF Workers, Writers
        <3>3. data[f] = Whole(u)
            BY <3>2 DEF IInv, WriterInv
        <3>4. data'[f] = data[f]
            BY <1>1, <1>3, <2>1 DEF DataStays
        <3>5. data'[f] = Whole(u)'
            BY <1>2, <3>3, <3>4 DEF Whole
        <3>6. QED
            BY <1>2, <3>5 DEF IsUpload
    <2>2. QED
        BY <1>1, <1>2, <1>3, <2>1, WriterKeeps
<1>9. ReadInv'
    BY <1>1, <1>2, <1>3, <1>7, ReadKeeps DEF ReadInv
<1>10. MetInv'
    BY <1>1, <1>2, <1>3, <1>4, MetKeeps
<1>11. QED
    BY <1>5, <1>6, <1>8, <1>9, <1>10 DEF IInv

(* The upload failed: it still works on its file until the name is gone.   *)
LEMMA CopyFailsKeeps ==
    ASSUME NEW u \in Uploads, IInv, CopyFails(u)
    PROVE  IInv'
<1>1. /\ upload[u].pc = "copy" /\ Closed
      /\ upload' = [upload EXCEPT ![u] = [pc |-> "remove", fd |-> upload[u].fd, off |-> 0]]
      /\ UNCHANGED <<name, download, deleting, torn, met>>
    BY DEF CopyFails, IInv, TypeOK
<1>2. /\ upload'[u] = [pc |-> "remove", fd |-> upload[u].fd, off |-> 0]
      /\ \A v \in Uploads \ {u} : upload'[v] = upload[v]
    BY <1>1 DEF IInv, TypeOK
<1>3. AckedStay
    BY <1>1, <1>2 DEF AckedStay
<1>4. /\ DataStays
      /\ data' \in [Uploads -> Seq(Uploads \cup {None})]
      /\ \A f \in Uploads : Len(data'[f]) <= MaxChunks + 1
    BY <1>1, ClosedKeeps DEF IInv
<1>5. \A v \in Uploads : Busy(v)' = Busy(v)
    BY <1>1, <1>2 DEF Busy
<1>6. TypeOK'
    <2>1. [pc |-> "remove", fd |-> upload[u].fd, off |-> 0] \in
              [pc : UploadSteps, fd : Uploads \cup {None}, off : 0 .. MaxChunks + 1]
        BY FilesAssumption DEF IInv, TypeOK, UploadSteps
    <2>2. upload' \in [Uploads -> [pc : UploadSteps, fd : Uploads \cup {None},
                                  off : 0 .. MaxChunks + 1]]
        BY <1>1, <2>1 DEF IInv, TypeOK
    <2>3. \A v \in Uploads : Busy(v)' => upload'[v].fd # None
        BY <1>1, <1>2, <1>5 DEF IInv, TypeOK, Busy
    <2>4. QED
        BY <1>1, <1>4, <2>2, <2>3 DEF IInv, TypeOK
<1>7. FreshInv'
    BY <1>1, <1>2, FreshKeeps
<1>8. \A f \in Uploads : Writers(f)' \subseteq Writers(f) /\ Workers(f)' = Workers(f)
    BY <1>1, <1>2 DEF Writers, Workers, Busy
<1>9. WriterInv'
    BY <1>1, <1>2, <1>3, <1>4, <1>8, WriterKeeps
<1>10. ReadInv'
    BY <1>1, <1>3, <1>4, <1>8, ReadKeeps DEF ReadInv
<1>11. MetInv'
    BY <1>1, <1>4, <1>5, MetKeeps
<1>12. QED
    BY <1>6, <1>7, <1>9, <1>10, <1>11 DEF IInv

(* The clean-up takes the name away, or leaves a file that is torn.        *)
LEMMA RemoveKeeps ==
    ASSUME NEW u \in Uploads, IInv, RemoveName(u) \/ RemoveFails(u)
    PROVE  IInv'
<1>1. /\ upload[u].pc = "remove" /\ Busy(u) /\ Ends(u, "failed") /\ Closed
      /\ UNCHANGED <<download, deleting>>
      /\ name' \in {name, None}
      /\ torn' \subseteq Uploads /\ torn \subseteq torn'
      /\ name' = None \/ upload[u].fd \in torn'
    BY DEF RemoveName, RemoveFails, Busy, IInv, TypeOK
<1>2. /\ upload' \in [Uploads -> [pc : UploadSteps, fd : Uploads \cup {None},
                                  off : 0 .. MaxChunks + 1]]
      /\ upload'[u].pc = "failed" /\ upload'[u].fd = None
      /\ \A v \in Uploads \ {u} : upload'[v] = upload[v] /\ met'[v] = met[v]
      /\ met' \in [Uploads -> SUBSET Uploads]
      /\ AckedStay
    BY <1>1, EndsFacts
<1>3. /\ DataStays
      /\ data' \in [Uploads -> Seq(Uploads \cup {None})]
      /\ \A f \in Uploads : Len(data'[f]) <= MaxChunks + 1
    BY <1>1, ClosedKeeps DEF IInv
<1>4. \A v \in Uploads : Busy(v)' => v # u /\ Busy(v)
    BY <1>2 DEF Busy
<1>5. TypeOK'
    BY <1>1, <1>2, <1>3, <1>4 DEF IInv, TypeOK
<1>6. FreshInv'
    BY <1>1, <1>2, FreshKeeps
<1>7. \A f \in Uploads : Writers(f)' \subseteq Writers(f)
    BY <1>2 DEF Writers
<1>8. \A v \in Uploads : upload'[v] = upload[v] \/ upload'[v].pc # "copy"
    BY <1>2
<1>9. WriterInv'
    <2>1. ASSUME NEW f \in Uploads \ torn', name' = f, Workers(f)' = {}
          PROVE  name = f /\ Workers(f) = {}
        <3>1. f # upload[u].fd /\ name = f
            BY <1>1, <2>1, FilesAssumption
        <3>2. \A v \in Workers(f) : v # u
            BY <3>1 DEF Workers
        <3>3. Workers(f) \subseteq Workers(f)'
            BY <1>2, <3>2 DEF Workers, Busy
        <3>4. QED
            BY <2>1, <3>1, <3>3
    <2>2. QED
        BY <1>1, <1>2, <1>3, <1>8, <2>1, WriterKeeps
<1>10. ReadInv'
    BY <1>1, <1>2, <1>3, <1>7, ReadKeeps DEF ReadInv
<1>11. MetInv'
    BY <1>1, <1>2, <1>3, <1>4, MetKeeps
<1>12. QED
    BY <1>5, <1>6, <1>9, <1>10, <1>11 DEF IInv

-----------------------------------------------------------------------------
(* Downloads and deletes touch no upload.                                  *)
LEMMA UploadsApart ==
    ASSUME IInv, UNCHANGED <<upload, torn, met>>, name' \in {name, None},
           Closed \/ UNCHANGED data,
           \A d \in Downloads : download'[d].src \in {download[d].src, name, None}
    PROVE  /\ FreshInv' /\ WriterInv' /\ MetInv'
           /\ DataStays /\ AckedStay /\ \A f \in Uploads : Writers(f)' = Writers(f)
           /\ data' \in [Uploads -> Seq(Uploads \cup {None})]
           /\ \A f \in Uploads : Len(data'[f]) <= MaxChunks + 1
<1>1. /\ DataStays
      /\ data' \in [Uploads -> Seq(Uploads \cup {None})]
      /\ \A f \in Uploads : Len(data'[f]) <= MaxChunks + 1
    BY ClosedKeeps DEF IInv
<1>2. AckedStay
    BY DEF AckedStay
<1>3. \A f \in Uploads : Writers(f)' = Writers(f) /\ Workers(f)' = Workers(f)
    BY DEF Writers, Workers, Busy
<1>4. FreshInv'
    BY FreshKeeps
<1>5. WriterInv'
    BY <1>1, <1>2, <1>3, WriterKeeps, FilesAssumption
<1>6. MetInv'
    BY <1>1, MetKeeps DEF Busy
<1>7. QED
    BY <1>1, <1>2, <1>3, <1>4, <1>5, <1>6

(* A response begins, to a whole request or to a Range request: what the   *)
(* client has already is a beginning of the file that has the name, unless *)
(* it is mixed.                                                            *)
Given(d, had, doubt) ==
    [src |-> name, open |-> TRUE, size |-> Len(data[name]), sent |-> had,
     mixed |-> doubt \/ Unsure]

LEMMA GivenKeeps ==
    ASSUME NEW d \in Downloads, IInv, name \in Uploads,
           NEW had \in Seq(Uploads \cup {None}), NEW doubt \in BOOLEAN,
           Len(had) <= Len(data[name]),
           doubt \/ Unsure \/ Prefix(had, data[name]),
           download' = [download EXCEPT ![d] = Given(d, had, doubt)],
           UNCHANGED <<name, data, upload, deleting, torn, met>>
    PROVE  IInv'
<1> DEFINE new == Given(d, had, doubt)
<1>0. /\ new.src = name /\ new.open /\ new.size = Len(data[name]) /\ new.sent = had
      /\ ~ new.mixed => ~ doubt /\ ~ Unsure
    BY DEF Given
<1>1. /\ download'[d] = new
      /\ \A e \in Downloads \ {d} : download'[e] = download[e]
    BY DEF IInv, TypeOK
<1>2. /\ FreshInv' /\ WriterInv' /\ MetInv'
      /\ DataStays /\ AckedStay /\ \A f \in Uploads : Writers(f)' = Writers(f)
    <2>1. \A e \in Downloads : download'[e].src \in {download[e].src, name}
        BY <1>0, <1>1
    <2>2. QED
        BY <2>1, UploadsApart
<1>3. TypeOK'
    <2>1. new \in [src : Uploads \cup {None}, open : BOOLEAN, size : 0 .. MaxChunks + 1,
                   sent : Seq(Uploads \cup {None}), mixed : BOOLEAN]
        <3>1. Len(data[name]) \in 0 .. MaxChunks + 1
            BY FilesAssumption DEF IInv, TypeOK
        <3>2. (doubt \/ Unsure) \in BOOLEAN
            BY DEF Unsure
        <3>3. QED
            BY <3>1, <3>2 DEF Given
    <2>2. Len(new.sent) <= new.size /\ new.src # None
        BY <1>0, FilesAssumption
    <2> HIDE DEF new
    <2>3. /\ download' \in [Downloads -> [src : Uploads \cup {None}, open : BOOLEAN,
                                          size : 0 .. MaxChunks + 1,
                                          sent : Seq(Uploads \cup {None}), mixed : BOOLEAN]]
          /\ \A e \in Downloads : /\ Len(download'[e].sent) <= download'[e].size
                                  /\ download'[e].open => download'[e].src # None
        <3>1. download' = [download EXCEPT ![d] = new]
            BY DEF new
        <3>2. QED
            BY <1>1, <2>1, <2>2, <3>1 DEF IInv, TypeOK
    <2>4. QED
        BY <1>1, <2>3 DEF IInv, TypeOK, Busy
<1>4. ReadInv'
    <2>1. ASSUME Sole(d)' PROVE Reads(d)'
        <3>1. name \in Uploads \ torn /\ Workers(name) = {} /\ Prefix(had, data[name])
            BY <1>0, <1>1, <2>1 DEF Sole, Unsure
        <3>2. Writers(name) = {}
            BY <3>1 DEF Writers, Workers, Busy
        <3>3. IsUpload(data[name])
            BY <3>1 DEF IInv, WriterInv
        <3>4. IsUpload(data[name])' /\ Writers(name)' = {}
            BY <1>2, <3>2, <3>3, UploadStays
        <3>5. QED
            BY <1>0, <1>1, <3>1, <3>4 DEF Reads, Prefix, IsUpload, Writers
    <2>2. ASSUME NEW e \in Downloads \ {d}, Sole(e)' PROVE Reads(e)'
        BY <1>1, <1>2, <2>2, ReadKeeps
    <2>3. QED
        BY <2>1, <2>2 DEF ReadInv
<1>5. QED
    BY <1>2, <1>3, <1>4 DEF IInv

LEMMA DownloadStartKeeps ==
    ASSUME NEW d \in Downloads, IInv, DownloadStart(d)
    PROVE  IInv'
<1>1. /\ name \in Uploads /\ <<>> \in Seq(Uploads \cup {None})
      /\ UNCHANGED <<name, data, upload, deleting, torn, met>>
    BY DEF DownloadStart, IInv, TypeOK
<1>2. data[name] \in Seq(Uploads \cup {None}) /\ Len(<<>>) <= Len(data[name])
    BY <1>1 DEF IInv, TypeOK
<1>3. Prefix(<<>>, data[name])
    BY <1>2 DEF Prefix
<1>4. download' = [download EXCEPT ![d] = Given(d, <<>>, FALSE)]
    <2>1. (FALSE \/ Unsure) = Unsure
        BY DEF Unsure
    <2>2. QED
        BY <2>1, Zenon DEF DownloadStart, Given
<1>5. QED
    BY <1>1, <1>2, <1>3, <1>4, GivenKeeps

LEMMA ResumeKeeps ==
    ASSUME NEW d \in Downloads, IInv, Resume(d)
    PROVE  IInv'
<1> DEFINE had   == download[d].sent
           doubt == download[d].mixed \/ download[d].src # name
<1>1. /\ name \in Uploads /\ had \in Seq(Uploads \cup {None}) /\ doubt \in BOOLEAN
      /\ Len(had) <= Len(data[name])
      /\ UNCHANGED <<name, data, upload, deleting, torn, met>>
    BY DEF Resume, IInv, TypeOK
<1>2. download' = [download EXCEPT ![d] = Given(d, had, doubt)]
    <2>1. download' = [download EXCEPT ![d] =
              [src |-> name, open |-> TRUE, size |-> Len(data[name]), sent |-> had,
               mixed |-> download[d].mixed \/ download[d].src # name \/ Unsure]]
        BY DEF Resume, IInv, TypeOK
    <2>2. (download[d].mixed \/ download[d].src # name \/ Unsure) = (doubt \/ Unsure)
        BY DEF Unsure, IInv, TypeOK
    <2>3. QED
        BY <2>1, <2>2, Zenon DEF Given
<1>3. ~ doubt => Prefix(had, data[name])
    BY <1>1, FilesAssumption DEF IInv, ReadInv, Sole, Reads
<1>4. QED
    BY <1>1, <1>2, <1>3, GivenKeeps

LEMMA SendChunkKeeps ==
    ASSUME NEW d \in Downloads, IInv, SendChunk(d)
    PROVE  IInv'
<1> DEFINE f == download[d].src
           s == download[d].sent
           n == Len(s) + 1
<1>1. /\ f \in Uploads /\ n \in 1 .. Len(data[f]) /\ n <= download[d].size
      /\ data[f] \in Seq(Uploads \cup {None}) /\ s \in Seq(Uploads \cup {None})
      /\ UNCHANGED <<name, data, upload, deleting, torn, met>>
    BY DEF SendChunk, More, Chunk, IInv, TypeOK
<1>2. /\ download' = [download EXCEPT ![d].sent = Append(s, data[f][n])]
      /\ download'[d] = [download[d] EXCEPT !.sent = Append(s, data[f][n])]
      /\ \A e \in Downloads \ {d} : download'[e] = download[e]
    BY DEF SendChunk, Chunk, IInv, TypeOK
<1>3. /\ download'[d].sent = Append(s, data[f][n]) /\ download'[d].src = f
      /\ download[d].open /\ download'[d].open
      /\ download'[d].size = download[d].size /\ download'[d].mixed = download[d].mixed
    BY <1>2 DEF IInv, TypeOK, SendChunk, More
<1>4. /\ FreshInv' /\ WriterInv' /\ MetInv'
      /\ DataStays /\ AckedStay /\ \A g \in Uploads : Writers(g)' = Writers(g)
    BY <1>1, <1>2, <1>3, UploadsApart
<1>5. /\ Append(s, data[f][n]) \in Seq(Uploads \cup {None})
      /\ Len(Append(s, data[f][n])) = n
      /\ \A j \in 1 .. n : Append(s, data[f][n])[j] = IF j = n THEN data[f][n] ELSE s[j]
    BY <1>1
<1>6. TypeOK'
    <2>1. [download[d] EXCEPT !.sent = Append(s, data[f][n])] \in
              [src : Uploads \cup {None}, open : BOOLEAN, size : 0 .. MaxChunks + 1,
               sent : Seq(Uploads \cup {None}), mixed : BOOLEAN]
        BY <1>5 DEF IInv, TypeOK
    <2>2. download' \in [Downloads -> [src : Uploads \cup {None}, open : BOOLEAN,
                                      size : 0 .. MaxChunks + 1,
                                      sent : Seq(Uploads \cup {None}), mixed : BOOLEAN]]
        BY <1>2, <2>1 DEF IInv, TypeOK
    <2>3. \A e \in Downloads : /\ Len(download'[e].sent) <= download'[e].size
                               /\ download'[e].open => download'[e].src # None
        BY <1>1, <1>2, <1>3, <1>5 DEF IInv, TypeOK
    <2>4. QED
        BY <1>1, <2>2, <2>3 DEF IInv, TypeOK, Busy
<1>7. ReadInv'
    <2>1. ASSUME Sole(d)' PROVE Reads(d)'
        <3>1. Sole(d) /\ Reads(d)
            BY <1>3, <2>1 DEF Sole, IInv, ReadInv
        <3>2. IsUpload(data[f])' /\ Writers(f)' = {}
            BY <1>1, <1>3, <1>4, <3>1, UploadStays DEF Reads
        <3>3. Prefix(Append(s, data[f][n]), data[f])
            BY <1>1, <1>5, <3>1 DEF Reads, Prefix
        <3>4. QED
            BY <1>1, <1>3, <3>1, <3>2, <3>3 DEF Reads, Prefix, IsUpload, Writers
    <2>2. ASSUME NEW e \in Downloads \ {d}, Sole(e)' PROVE Reads(e)'
        BY <1>1, <1>2, <1>4, <2>2, ReadKeeps
    <2>3. QED
        BY <2>1, <2>2 DEF ReadInv
<1>8. QED
    BY <1>4, <1>6, <1>7 DEF IInv

LEMMA BreaksOffKeeps ==
    ASSUME NEW d \in Downloads, IInv, BreaksOff(d)
    PROVE  IInv'
<1>1. /\ download' = [download EXCEPT ![d].open = FALSE] /\ Closed
      /\ \A e \in Downloads :
            download'[e] \in {download[e], [download[e] EXCEPT !.open = FALSE]}
      /\ UNCHANGED <<name, upload, deleting, torn, met>>
    BY DEF BreaksOff, IInv, TypeOK
<1>2. /\ FreshInv' /\ WriterInv' /\ MetInv'
      /\ DataStays /\ AckedStay /\ \A f \in Uploads : Writers(f)' = Writers(f)
      /\ data' \in [Uploads -> Seq(Uploads \cup {None})]
      /\ \A f \in Uploads : Len(data'[f]) <= MaxChunks + 1
    <2>1. \A e \in Downloads : download'[e].src = download[e].src
        BY <1>1 DEF IInv, TypeOK
    <2>2. QED
        BY <1>1, <2>1, UploadsApart
<1>3. TypeOK'
    <2>1. ASSUME NEW e \in Downloads
          PROVE  /\ download'[e] \in [src : Uploads \cup {None}, open : BOOLEAN,
                                      size : 0 .. MaxChunks + 1,
                                      sent : Seq(Uploads \cup {None}), mixed : BOOLEAN]
                 /\ Len(download'[e].sent) <= download'[e].size
                 /\ download'[e].open => download'[e].src # None
        <3>1. /\ download[e] \in [src : Uploads \cup {None}, open : BOOLEAN,
                                  size : 0 .. MaxChunks + 1,
                                  sent : Seq(Uploads \cup {None}), mixed : BOOLEAN]
              /\ Len(download[e].sent) <= download[e].size
              /\ download[e].open => download[e].src # None
            BY DownloadType, FilesAssumption DEF IInv
        <3>2. download'[e] = download[e] \/ download'[e] = [download[e] EXCEPT !.open = FALSE]
            BY <1>1
        <3>3. QED
            BY <3>1, <3>2
    <2>2. download' = [e \in Downloads |-> download'[e]]
        BY <1>1 DEF IInv, TypeOK
    <2>3. download' \in [Downloads -> [src : Uploads \cup {None}, open : BOOLEAN,
                                      size : 0 .. MaxChunks + 1,
                                      sent : Seq(Uploads \cup {None}), mixed : BOOLEAN]]
        BY <2>1, <2>2
    <2>4. QED
        BY <1>1, <1>2, <2>1, <2>3 DEF IInv, TypeOK, Busy
<1>4. ReadInv'
    BY <1>1, <1>2, ReadKeeps DEF ReadInv
<1>5. QED
    BY <1>2, <1>3, <1>4 DEF IInv

LEMMA SendEndsKeeps ==
    ASSUME NEW d \in Downloads, IInv, SendEnds(d)
    PROVE  IInv'
<1>1. /\ download' = [download EXCEPT ![d] = NoFile] /\ Closed
      /\ download'[d] = NoFile /\ NoFile.src = None
      /\ \A e \in Downloads \ {d} : download'[e] = download[e]
      /\ UNCHANGED <<name, upload, deleting, torn, met>>
    BY DEF SendEnds, IInv, TypeOK, NoFile
<1>2. /\ FreshInv' /\ WriterInv' /\ MetInv'
      /\ DataStays /\ AckedStay /\ \A f \in Uploads : Writers(f)' = Writers(f)
      /\ data' \in [Uploads -> Seq(Uploads \cup {None})]
      /\ \A f \in Uploads : Len(data'[f]) <= MaxChunks + 1
    BY <1>1, UploadsApart
<1>3. TypeOK'
    <2>1. /\ NoFile \in [src : Uploads \cup {None}, open : BOOLEAN, size : 0 .. MaxChunks + 1,
                         sent : Seq(Uploads \cup {None}), mixed : BOOLEAN]
          /\ Len(NoFile.sent) <= NoFile.size /\ ~ NoFile.open
        BY FilesAssumption DEF NoFile
    <2>2. /\ download' \in [Downloads -> [src : Uploads \cup {None}, open : BOOLEAN,
                                          size : 0 .. MaxChunks + 1,
                                          sent : Seq(Uploads \cup {None}), mixed : BOOLEAN]]
          /\ \A e \in Downloads : /\ Len(download'[e].sent) <= download'[e].size
                                  /\ download'[e].open => download'[e].src # None
        BY <1>1, <2>1 DEF IInv, TypeOK
    <2>3. QED
        BY <1>1, <1>2, <2>2 DEF IInv, TypeOK, Busy
<1>4. ReadInv'
    <2>1. ~ Sole(d)'
        BY <1>1 DEF Sole
    <2>2. ASSUME NEW e \in Downloads \ {d}, Sole(e)' PROVE Reads(e)'
        BY <1>1, <1>2, <2>2, ReadKeeps
    <2>3. QED
        BY <2>1, <2>2 DEF ReadInv
<1>5. QED
    BY <1>2, <1>3, <1>4 DEF IInv

LEMMA DeleteKeeps ==
    ASSUME NEW x \in Deletes, IInv, DeleteStart(x) \/ DeleteEnds(x)
    PROVE  IInv'
<1>1. /\ name' \in {name, None} /\ deleting' \subseteq Deletes
      /\ UNCHANGED <<upload, download, torn, met>>
      /\ Closed \/ UNCHANGED data
    BY DEF DeleteStart, DeleteEnds, IInv, TypeOK
<1>2. /\ FreshInv' /\ WriterInv' /\ MetInv'
      /\ DataStays /\ AckedStay /\ \A f \in Uploads : Writers(f)' = Writers(f)
      /\ data' \in [Uploads -> Seq(Uploads \cup {None})]
      /\ \A f \in Uploads : Len(data'[f]) <= MaxChunks + 1
    BY <1>1, UploadsApart
<1>3. TypeOK'
    BY <1>1, <1>2 DEF IInv, TypeOK, Busy
<1>4. ReadInv'
    BY <1>1, <1>2, ReadKeeps DEF ReadInv
<1>5. QED
    BY <1>2, <1>3, <1>4 DEF IInv

(* The relay dies: the files its uploads were writing are torn.            *)
LEMMA CrashKeeps ==
    ASSUME IInv, Crash
    PROVE  IInv'
<1>1. /\ met' = [u \in Uploads |-> {}] /\ download' = [d \in Downloads |-> [download[d] EXCEPT !.open = FALSE]]
      /\ deleting' = {} /\ UNCHANGED name /\ Closed
      /\ torn' = torn \cup {upload[u].fd : u \in {x \in Uploads : Busy(x)}}
    BY DEF Crash
<1>2. /\ \A u \in Uploads :
            \/ Busy(u) /\ upload'[u] = [pc |-> "failed", fd |-> None, off |-> 0]
            \/ ~ Busy(u) /\ upload'[u] = upload[u]
      /\ upload' = [u \in Uploads |-> upload'[u]]
    BY DEF Crash, NotYet
<1>3. AckedStay
    BY <1>2 DEF AckedStay, Busy
<1>4. /\ DataStays
      /\ data' \in [Uploads -> Seq(Uploads \cup {None})]
      /\ \A f \in Uploads : Len(data'[f]) <= MaxChunks + 1
    BY <1>1, ClosedKeeps DEF IInv
<1>5. \A u \in Uploads : ~ Busy(u)'
    BY <1>2 DEF Busy
<1>6. TypeOK'
    <2>1. \A u \in Uploads : upload'[u] \in [pc : UploadSteps, fd : Uploads \cup {None},
                                            off : 0 .. MaxChunks + 1]
        BY <1>2, FilesAssumption DEF IInv, TypeOK, UploadSteps
    <2>2. \A d \in Downloads :
              /\ download'[d] \in [src : Uploads \cup {None}, open : BOOLEAN,
                                    size : 0 .. MaxChunks + 1,
                                    sent : Seq(Uploads \cup {None}), mixed : BOOLEAN]
              /\ Len(download'[d].sent) <= download'[d].size /\ ~ download'[d].open
        <3>1. SUFFICES ASSUME NEW d \in Downloads
                       PROVE  /\ download'[d] \in [src : Uploads \cup {None}, open : BOOLEAN,
                                                    size : 0 .. MaxChunks + 1,
                                                    sent : Seq(Uploads \cup {None}),
                                                    mixed : BOOLEAN]
                              /\ Len(download'[d].sent) <= download'[d].size
                              /\ ~ download'[d].open
            OBVIOUS
        <3>2. /\ download[d] \in [src : Uploads \cup {None}, open : BOOLEAN,
                                  size : 0 .. MaxChunks + 1,
                                  sent : Seq(Uploads \cup {None}), mixed : BOOLEAN]
              /\ Len(download[d].sent) <= download[d].size
            BY DownloadType DEF IInv
        <3>3. download'[d] = [download[d] EXCEPT !.open = FALSE]
            BY <1>1
        <3>4. QED
            BY <3>2, <3>3
    <2>3. torn' \subseteq Uploads
        BY <1>1 DEF IInv, TypeOK
    <2>4. QED
        BY <1>1, <1>2, <1>4, <1>5, <2>1, <2>2, <2>3 DEF IInv, TypeOK
<1>7. FreshInv'
    <2>1. \A v \in Uploads : /\ upload'[v].fd \in {upload[v].fd, None}
                             /\ upload'[v].pc = "idle" => upload[v].pc = "idle"
        BY <1>2
    <2>2. \A d \in Downloads : download'[d].src = download[d].src
        BY <1>1 DEF IInv, TypeOK
    <2>3. QED
        BY <1>1, <2>1, <2>2, FreshKeeps
<1>8. WriterInv'
    <2>1. \A v \in Uploads : upload'[v] = upload[v] \/ upload'[v].pc # "copy"
        BY <1>2
    <2>2. \A f \in Uploads \ torn' : Workers(f) = {}
        BY <1>1 DEF Workers
    <2>3. QED
        BY <1>1, <1>3, <1>4, <2>1, <2>2, WriterKeeps
<1>9. ReadInv'
    <2>1. \A f \in Uploads : Writers(f)' \subseteq Writers(f)
        BY <1>5 DEF Writers, Busy
    <2>2. QED
        BY <1>1, <1>3, <1>4, <2>1, ReadKeeps DEF ReadInv
<1>10. MetInv'
    BY <1>5 DEF MetInv
<1>11. QED
    BY <1>6, <1>7, <1>8, <1>9, <1>10 DEF IInv

LEMMA StutterKeeps ==
    ASSUME IInv, UNCHANGED vars
    PROVE  IInv'
<1>1. /\ UNCHANGED <<name, data, upload, download, deleting, torn, met>>
      /\ Closed \/ UNCHANGED data
    BY DEF vars
<1>2. /\ FreshInv' /\ WriterInv' /\ MetInv'
      /\ DataStays /\ AckedStay /\ \A f \in Uploads : Writers(f)' = Writers(f)
    BY <1>1, UploadsApart
<1>3. TypeOK'
    BY <1>1 DEF IInv, TypeOK, Busy
<1>4. ReadInv'
    BY <1>1, <1>2, ReadKeeps DEF ReadInv
<1>5. QED
    BY <1>2, <1>3, <1>4 DEF IInv

LEMMA NextKeeps ==
    ASSUME IInv, [Next]_vars
    PROVE  IInv'
<1>1. ASSUME NEW u \in Uploads, Upload(u) PROVE IInv'
    BY <1>1, OpenKeeps, RefusedKeeps, CopyKeeps, CopyEndsKeeps, CopyFailsKeeps, RemoveKeeps
    DEF Upload
<1>2. ASSUME NEW d \in Downloads,
             \/ DownloadStart(d) \/ Resume(d)
             \/ SendChunk(d) \/ BreaksOff(d) \/ SendEnds(d)
      PROVE  IInv'
    BY <1>2, DownloadStartKeeps, ResumeKeeps, SendChunkKeeps, BreaksOffKeeps, SendEndsKeeps
<1>3. QED
    BY <1>1, <1>2, DeleteKeeps, CrashKeeps, StutterKeeps DEF Next

LEMMA Invariance == Spec => []IInv
<1>1. Init => IInv
    BY InitIInv
<1>2. IInv /\ [Next]_vars => IInv'
    BY NextKeeps
<1>3. QED
    BY <1>1, <1>2, PTL DEF Spec

-----------------------------------------------------------------------------
(* Every variable keeps its type, and no file grows beyond one chunk past  *)
(* the cap (the LimitReader of HandleUpload), whoever else writes to it.   *)
THEOREM FilesBounded == Spec => []TypeOK
<1>1. IInv => TypeOK
    BY DEF IInv
<1>2. QED
    BY <1>1, Invariance, PTL

(* The file that has the name is one whole acknowledged upload when nobody *)
(* works on it (HandleUpload truncates in place and removes what failed):  *)
(* the two ways in which that goes wrong, and a clean-up that fails, are   *)
(* named, and nothing else does.                                           *)
THEOREM NoRestIsServed == Spec => []QuietMeansWhole
<1>1. IInv => QuietMeansWhole
    BY DEF IInv, TypeOK, WriterInv, QuietMeansWhole
<1>2. QED
    BY <1>1, Invariance, PTL

(* A download that no upload disturbed has delivered one whole upload when *)
(* it ends as announced, and so has one that Range requests put together   *)
(* from a file that stayed the one with the name (HandleDownload).         *)
THEOREM DownloadIsWhole == Spec => SoleDownloadIsWhole
<1>1. IInv => [\A d \in Downloads :
          (SendEnds(d) /\ ~ download[d].mixed) => IsUpload(download[d].sent)]_vars
    <2>1. SUFFICES ASSUME IInv, NEW d \in Downloads, SendEnds(d), ~ download[d].mixed
                   PROVE  IsUpload(download[d].sent)
        OBVIOUS
    <2> DEFINE s == download[d].sent
               t == data[download[d].src]
    <2>2. /\ Reads(d) /\ download[d].open /\ download[d].src \in Uploads
        <3>1. download[d].open
            BY <2>1 DEF SendEnds
        <3>2. download[d].src \in Uploads
            BY <2>1, <3>1, DownloadType DEF IInv
        <3>3. Sole(d)
            BY <2>1, <3>1, <3>2, FilesAssumption DEF Sole
        <3>4. QED
            BY <2>1, <3>1, <3>2, <3>3 DEF IInv, ReadInv
    <2>3. s \in Seq(Uploads \cup {None}) /\ Len(s) <= download[d].size
          /\ download[d].size \in Nat /\ t \in Seq(Uploads \cup {None})
        <3>1. t \in Seq(Uploads \cup {None})
            BY <2>1, <2>2 DEF IInv, TypeOK
        <3>2. QED
            BY <2>1, <3>1, DownloadType DEF IInv
    <2>4. Len(s) = Len(t) /\ \A j \in 1 .. Len(s) : s[j] = t[j]
        BY <2>1, <2>2, <2>3 DEF SendEnds, More, Chunk, Reads, Prefix
    <2>5. s = t
        BY <2>3, <2>4
    <2>6. QED
        BY <2>2, <2>5 DEF Reads
<1>2. QED
    BY <1>1, Invariance, PTL DEF SoleDownloadIsWhole

(* The name that a failed upload removes is never that of the work of an   *)
(* upload that had ended before it began (the clean-up in HandleUpload).   *)
THEOREM RemovalSparesOlder == Spec => RemovalHitsOwn
<1>1. IInv => [\A u \in Uploads : (RemoveName(u) /\ name # None) =>
          \A v \in Range(data[name]) \ {None, u} : v \in met[u]]_vars
    BY DEF IInv, MetInv, RemoveName, Busy
<1>2. QED
    BY <1>1, Invariance, PTL DEF RemovalHitsOwn
=============================================================================
