---------------------------- MODULE SharedFiles ----------------------------
(***************************************************************************)
(* One file name of the shared directory (src/internal/files/files.go):    *)
(* uploads, downloads and deletes of it run in goroutines of their own,    *)
(* one per HTTP request, and no lock relates them. An upload truncates and *)
(* writes the file in place, and one that fails removes the name, whatever *)
(* it names by then.                                                       *)
(*                                                                         *)
(* A file is called after the upload that created it and holds chunks,     *)
(* each called after the upload that wrote it. A handler keeps the file it *)
(* opened when the name goes to another one or to none.                    *)
(***************************************************************************)
EXTENDS Naturals, Sequences, Functions, FiniteSets

CONSTANTS
    Uploads,     \* upload requests; each happens once and has contents of its own
    Downloads,   \* clients that download
    Deletes,     \* clients that delete
    MaxChunks,   \* MaxUploadBytes, in chunks
    None         \* no file; also the contents of a hole

ASSUME FilesAssumption ==
    /\ MaxChunks \in Nat \ {0}
    /\ None \notin Uploads

VARIABLES
    name,        \* the file that has the name, or None
    data,        \* per file: its chunks
    upload,      \* per upload: step, open file, and the chunks copied so far
    download,    \* per client: the file it reads or read last, whether a response
                 \* is under way, the size that announced, the chunks received, and
                 \* the observation that they may come from more than one upload
    deleting,    \* the deletes that have found the file and not removed it yet
    torn,        \* observation: files two uploads wrote at once, the relay died on,
                 \* or a clean-up failed to remove
    met          \* observation: per upload under way, the uploads it has overlapped

vars == <<name, data, upload, download, deleting, torn, met>>

-----------------------------------------------------------------------------
UploadSteps   == {"idle", "copy", "remove", "acked", "failed"}
NotYet  == [pc |-> "idle", fd |-> None, off |-> 0]
NoFile  == [src |-> None, open |-> FALSE, size |-> 0, sent |-> <<>>, mixed |-> FALSE]

Busy(u)     == upload[u].pc \in {"copy", "remove"}
Writers(i)  == {u \in Uploads : upload[u].pc = "copy" /\ upload[u].fd = i}
Workers(i)  == {u \in Uploads : Busy(u) /\ upload[u].fd = i}
Readers(i)  == {d \in Downloads : download[d].open /\ download[d].src = i}

(* write(2) at the writer's own offset; what another upload has truncated  *)
(* before it stays a hole.                                                 *)
Put(s, off, u) ==
    [j \in 1 .. (IF off + 1 > Len(s) THEN off + 1 ELSE Len(s)) |->
        IF j = off + 1 THEN u ELSE IF j <= Len(s) THEN s[j] ELSE None]

Whole(u) == [j \in 1 .. upload[u].off |-> u]

Init ==
    /\ name = None
    /\ data = [f \in Uploads |-> <<>>]
    /\ upload = [u \in Uploads |-> NotYet]
    /\ download = [d \in Downloads |-> NoFile]
    /\ deleting = {} /\ torn = {}
    /\ met = [u \in Uploads |-> {}]

(* What opening for upload u does to the observations.                     *)
Joins(u, i) ==
    /\ torn' = IF Writers(i) = {} THEN torn \ {i} ELSE torn \cup {i}
    /\ met' = [v \in Uploads |->
           IF v = u THEN {x \in Uploads : Busy(x)}
           ELSE IF Busy(v) THEN met[v] \cup {u} ELSE met[v]]
    /\ download' = [d \in Downloads |->
           IF download[d].src = i THEN [download[d] EXCEPT !.mixed = TRUE] ELSE download[d]]

Ends(u, how) ==
    /\ upload' = [upload EXCEPT ![u] =
           [pc |-> how, fd |-> None, off |-> IF how = "acked" THEN upload[u].off ELSE 0]]
    /\ met' = [met EXCEPT ![u] = {}]

(* A file without a name goes away when the last handler closes it.        *)
Alive(f) == f = name \/ Writers(f) \cup Readers(f) # {}
Closed   == data' = [f \in Uploads |-> IF Alive(f)' THEN data[f] ELSE <<>>]

(* Mutant of Open: an existing file is not truncated.                      *)
OpenKeeping(u) ==
    /\ upload[u].pc = "idle"
    /\ LET i == IF name = None THEN u ELSE name IN
           /\ name' = i
           /\ data' = IF name = None THEN [data EXCEPT ![i] = <<>>] ELSE data
           /\ upload' = [upload EXCEPT ![u] = [pc |-> "copy", fd |-> i, off |-> 0]]
           /\ Joins(u, i)
    /\ UNCHANGED deleting

(* os.OpenFile with O_CREATE and O_TRUNC.                                  *)
Open(u) ==
    /\ upload[u].pc = "idle"
    /\ LET i == IF name = None THEN u ELSE name IN
           /\ name' = i
           /\ data' = [data EXCEPT ![i] = <<>>]
           /\ upload' = [upload EXCEPT ![u] = [pc |-> "copy", fd |-> i, off |-> 0]]
           /\ Joins(u, i)
    /\ UNCHANGED deleting

(* Mutant of Refused: the clean-up also runs when nothing was opened.      *)
RefusedAfterAll(u) ==
    /\ upload[u].pc = "idle"
    /\ upload' = [upload EXCEPT ![u].pc = "remove"]
    /\ UNCHANGED <<name, data, download, deleting, torn, met>>

(* The request is malformed, its name is refused or the open fails.        *)
Refused(u) ==
    /\ upload[u].pc = "idle"
    /\ upload' = [upload EXCEPT ![u].pc = "failed"]
    /\ UNCHANGED <<name, data, download, deleting, torn, met>>

(* Mutant of Copy: no limit.                                               *)
CopyUnlimited(u) ==
    /\ upload[u].pc = "copy"
    /\ data' = [data EXCEPT ![upload[u].fd] = Put(@, upload[u].off, u)]
    /\ upload' = [upload EXCEPT ![u].off = @ + 1]
    /\ UNCHANGED <<name, download, deleting, torn, met>>

(* io.Copy of the next chunk; the LimitReader ends it one past the cap.    *)
Copy(u) ==
    /\ upload[u].pc = "copy" /\ upload[u].off <= MaxChunks
    /\ data' = [data EXCEPT ![upload[u].fd] = Put(@, upload[u].off, u)]
    /\ upload' = [upload EXCEPT ![u].off = @ + 1]
    /\ UNCHANGED <<name, download, deleting, torn, met>>

(* The body ends, wherever it does, within the cap: acknowledged.          *)
CopyEnds(u) ==
    /\ upload[u].pc = "copy" /\ upload[u].off <= MaxChunks
    /\ Ends(u, "acked")
    /\ UNCHANGED <<name, download, deleting, torn>>
    /\ Closed

(* Mutant of CopyFails: the error is reported and the rest left there.     *)
CopyFailsOnly(u) ==
    /\ upload[u].pc = "copy"
    /\ Ends(u, "failed")
    /\ UNCHANGED <<name, download, deleting, torn>>
    /\ Closed

(* The client goes away, the server's ReadTimeout of 30 s is over, the     *)
(* disk is full, Close fails, or it was more than the cap.                 *)
CopyFails(u) ==
    /\ upload[u].pc = "copy"
    /\ upload' = [upload EXCEPT ![u] = [pc |-> "remove", fd |-> upload[u].fd, off |-> 0]]
    /\ UNCHANGED <<name, download, deleting, torn, met>>
    /\ Closed

(* os.Remove of the name.                                                  *)
RemoveName(u) ==
    /\ upload[u].pc = "remove"
    /\ name' = None
    /\ Ends(u, "failed")
    /\ UNCHANGED <<download, deleting, torn>>
    /\ Closed

(* os.Remove fails, as on a file system that has gone read-only: nobody    *)
(* looks at its error, and the rest keeps the name.                        *)
RemoveFails(u) ==
    /\ upload[u].pc = "remove"
    /\ torn' = torn \cup {upload[u].fd}
    /\ Ends(u, "failed")
    /\ UNCHANGED <<name, download, deleting>>
    /\ Closed

-----------------------------------------------------------------------------
(* The file that has the name may hold more than one upload by now.        *)
Unsure == name \in torn \/ Workers(name) # {}

(* Lstat, open, and the size ServeContent announces.                       *)
DownloadStart(d) ==
    /\ ~ download[d].open /\ name # None
    /\ download' = [download EXCEPT ![d] =
           [src |-> name, open |-> TRUE, size |-> Len(data[name]), sent |-> <<>>,
            mixed |-> Unsure]]
    /\ UNCHANGED <<name, data, upload, deleting, torn, met>>

(* A Range request for what is missing, without If-Range: ServeContent     *)
(* serves it from the file that has the name now.                          *)
Resume(d) ==
    /\ ~ download[d].open /\ download[d].src # None /\ name # None
    /\ Len(download[d].sent) < Len(data[name])
    /\ download' = [download EXCEPT ![d] =
           [src |-> name, open |-> TRUE, size |-> Len(data[name]), sent |-> @.sent,
            mixed |-> @.mixed \/ @.src # name \/ Unsure]]
    /\ UNCHANGED <<name, data, upload, deleting, torn, met>>

Chunk(d) == Len(download[d].sent) + 1
More(d)  == download[d].open /\ Chunk(d) <= download[d].size

SendChunk(d) ==
    /\ More(d) /\ Chunk(d) <= Len(data[download[d].src])
    /\ download' = [download EXCEPT ![d].sent = Append(@, data[download[d].src][Chunk(d)])]
    /\ UNCHANGED <<name, data, upload, deleting, torn, met>>

(* The file ends before the announced size, or the connection goes: the    *)
(* client can tell, keeps what it has and may ask for the rest.            *)
BreaksOff(d) ==
    /\ More(d)
    /\ download' = [download EXCEPT ![d].open = FALSE]
    /\ UNCHANGED <<name, upload, deleting, torn, met>>
    /\ Closed

SendEnds(d) ==
    /\ download[d].open /\ ~ More(d)
    /\ download' = [download EXCEPT ![d] = NoFile]
    /\ UNCHANGED <<name, upload, deleting, torn, met>>
    /\ Closed

(* HandleDelete: Lstat finds the file, then os.Remove takes the name away, *)
(* fails, or finds that somebody has done it.                              *)
DeleteStart(x) ==
    /\ x \notin deleting /\ name # None
    /\ deleting' = deleting \cup {x}
    /\ UNCHANGED <<name, data, upload, download, torn, met>>

DeleteEnds(x) ==
    /\ x \in deleting
    /\ deleting' = deleting \ {x}
    /\ name' \in {None, name}
    /\ UNCHANGED <<upload, download, torn, met>>
    /\ Closed

(* The relay dies with all its handlers; what was written stays.           *)
Crash ==
    /\ \E u \in Uploads : Busy(u)
    /\ upload' = [u \in Uploads |->
           IF Busy(u) THEN [NotYet EXCEPT !.pc = "failed"] ELSE upload[u]]
    /\ met' = [u \in Uploads |-> {}]
    /\ download' = [d \in Downloads |-> [download[d] EXCEPT !.open = FALSE]]
    /\ deleting' = {}
    /\ torn' = torn \cup {upload[u].fd : u \in {x \in Uploads : Busy(x)}}
    /\ UNCHANGED name
    /\ Closed

Upload(u) ==
    \/ Open(u)
    \/ Refused(u) \/ Copy(u) \/ CopyEnds(u) \/ CopyFails(u)
    \/ RemoveName(u) \/ RemoveFails(u)

Next ==
    \/ \E u \in Uploads : Upload(u)
    \/ \E d \in Downloads : \/ DownloadStart(d) \/ Resume(d)
                            \/ SendChunk(d) \/ BreaksOff(d) \/ SendEnds(d)
    \/ \E x \in Deletes : DeleteStart(x) \/ DeleteEnds(x)
    \/ Crash

Spec == Init /\ [][Next]_vars

-----------------------------------------------------------------------------
(* Every variable keeps its type; no file grows beyond one past the cap.   *)
TypeOK ==
    /\ name \in Uploads \cup {None}
    /\ data \in [Uploads -> Seq(Uploads \cup {None})]
    /\ \A i \in Uploads : Len(data[i]) <= MaxChunks + 1
    /\ upload \in [Uploads -> [pc : UploadSteps, fd : Uploads \cup {None},
                               off : 0 .. MaxChunks + 1]]
    /\ \A u \in Uploads : Busy(u) => upload[u].fd # None
    /\ download \in [Downloads -> [src : Uploads \cup {None}, open : BOOLEAN,
                                   size : 0 .. MaxChunks + 1,
                                   sent : Seq(Uploads \cup {None}), mixed : BOOLEAN]]
    /\ \A d \in Downloads : /\ Len(download[d].sent) <= download[d].size
                            /\ download[d].open => download[d].src # None
    /\ deleting \subseteq Deletes
    /\ torn \subseteq Uploads /\ met \in [Uploads -> SUBSET Uploads]

(* Exactly the contents of one acknowledged upload within the cap.         *)
IsUpload(s) == \E u \in Uploads : upload[u].pc = "acked" /\ s = Whole(u)

(* When no upload is at work on it, the file that has the name is one      *)
(* acknowledged upload from its first chunk to its last: not the rest of a *)
(* failed or oversized one, not a mixture with the file it replaced.       *)
(* Something else is left by two uploads that wrote it at once, by a relay *)
(* that dies, or by a clean-up whose os.Remove fails, until an upload of   *)
(* the name that is alone with it (O_TRUNC in HandleUpload).               *)
QuietMeansWhole ==
    (name # None /\ Workers(name) = {} /\ name \notin torn) => IsUpload(data[name])

(* A download that ends with the size it announced has delivered one whole *)
(* upload, in one response or put together by Range requests after it was  *)
(* broken off, even if the name was deleted or given to another file while *)
(* a response was under way (ServeContent of a file opened once). Excepted *)
(* are a file that was torn, an upload that worked on the very file from   *)
(* the first chunk to the last, and a Range request that met another file: *)
(* nothing but If-Range tells such a client.                               *)
SoleDownloadIsWhole ==
    [][\A d \in Downloads :
          (SendEnds(d) /\ ~ download[d].mixed) => IsUpload(download[d].sent)]_vars

(* A failing upload removes the name, whatever it names by then: that is   *)
(* never the work of an upload that had ended before this one began.       *)
RemovalHitsOwn ==
    [][\A u \in Uploads : (RemoveName(u) /\ name # None) =>
          \A v \in Range(data[name]) \ {None, u} : v \in met[u]]_vars
=============================================================================
