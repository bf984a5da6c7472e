----------------------------- MODULE ImportUploads -----------------------------
(***************************************************************************)
(* The resumable upload of a portable bundle, from the browser's loop over *)
(* chunks (public/app.js) through lib/provision-import-store.js to the job *)
(* that stages the bundle for an import.                                   *)
(*                                                                         *)
(* A file is a sequence of units and a chunk is Chunk of them, so that a   *)
(* request can stop in the middle of a chunk.  A request checks the offset *)
(* against the size of the partial file, then appends while other requests *)
(* run, and one that fails cuts the file back to its own start: by name,   *)
(* whatever bears that name by then.                                       *)
(***************************************************************************)
EXTENDS Integers, Sequences

CONSTANTS
    Length,       \* of the file, in units
    Chunk,        \* units of one request
    Retries,      \* of one chunk, before the upload is paused
    Overlap,      \* TRUE: a proxy may give up on a request that still runs
    LateStop,     \* TRUE: the panel may stop between the last unit of a file and its renaming
    MaxLosses,    \* connections broken and responses lost
    MaxRestarts,  \* of the panel
    MaxExpiries   \* times a day passes without an entry of the upload changing

ASSUME ImportUploadsAssumption ==
    /\ {Length, Chunk} \subseteq Nat \ {0}
    /\ {Retries, MaxLosses, MaxRestarts, MaxExpiries} \subseteq Nat
    /\ {Overlap, LateStop} \subseteq BOOLEAN

File == [i \in 1..Length |-> i]
Missing == <<-1>>   \* the value of a file that does not exist

VARIABLES
    upload,    \* the directory of the upload: partial and stored file, whether the record names the latter, its age
    requests,  \* chunks the panel is appending; at most one whose answer the browser awaits
    client,    \* the browser: what it does, the offset of its next chunk, its attempts at that chunk
    stage,     \* the staging job
    staged,    \* the staged import
    loss,      \* whether the panel stopped or the upload expired since the browser last asked for the offset
    troubles   \* losses, restarts and expiries so far

uploadVars == <<upload, requests, client, stage, staged, loss, troubles>>

----------------------------------------------------------------------------
(* The directory *)

NoUpload == [partial |-> Missing, stored |-> Missing, recorded |-> FALSE, aged |-> FALSE]

Size(file) == IF file = Missing THEN 0 ELSE Len(file)
Content(file) == IF file = Missing THEN <<>> ELSE file

\* bundleUploadStatus().
Complete == upload.recorded /\ upload.stored # Missing

\* truncateSync also lengthens, with zeros.
Cut(file, n) ==
    IF file = Missing THEN Missing ELSE [i \in 1..n |-> IF i <= Len(file) THEN file[i] ELSE 0]

\* What a chunk at offset start leaves before anything is compared.
Cleared(u, start) ==
    IF start = 0 THEN [u EXCEPT !.partial = Missing, !.stored = Missing] ELSE u

\* renameSync(partial, destination); the record is written after it.
Renamed(u) == [u EXCEPT !.stored = u.partial, !.partial = Missing, !.aged = FALSE]

\* The file an open stream writes to is no longer called what it was.
Unlinked(rs, names) == {[r EXCEPT !.to = IF @ \in names THEN "none" ELSE @] : r \in rs}
AfterRename(rs) ==
    {[r EXCEPT !.to = IF @ = "partial" THEN "stored" ELSE "none"] : r \in rs}

----------------------------------------------------------------------------
(* The browser *)

Trouble == troubles.losses < MaxLosses /\ troubles' = [troubles EXCEPT !.losses = @ + 1]
NoTrouble == UNCHANGED troubles

Paused == [client EXCEPT !.pc = "paused"]

\* A chunk is tried again after a delay, at the same offset.
Again ==
    IF client.tries < Retries THEN [client EXCEPT !.tries = @ + 1] ELSE Paused

\* The loop's next chunk, or the request to stage what is complete.
SendsFull(at) ==
    [pc |-> IF at + Chunk <= Length THEN "sending" ELSE "finishing", at |-> at, tries |-> 0]
Sends(at) ==
    [pc |-> IF at < Length THEN "sending" ELSE "finishing", at |-> at, tries |-> 0]

End == IF client.at + Chunk < Length THEN client.at + Chunk ELSE Length

\* The answer to a chunk arrives, or its loss is noticed.
Answered == NoTrouble /\ client' = Sends(End)
Unanswered == Trouble /\ client' = Again

\* The operator selects the file: the upload goes on from the size on disk.
Opens ==
    /\ client.pc \in {"idle", "paused"}
    /\ Overlap \/ requests = {}
    /\ client' = IF Complete THEN Sends(Length)
                 ELSE IF Size(upload.partial) > Length THEN Paused
                 ELSE Sends(Size(upload.partial))
    /\ loss' = FALSE
    /\ UNCHANGED <<upload, requests, stage, staged, troubles>>

Awaited == \E r \in requests : r.awaited

\* upload(), uploadChunk() up to the first byte.
Offer(received) == client.pc = "sending" /\ ~Awaited /\ (Overlap \/ requests = {})
                   /\ received = Size(Cleared(upload, client.at).partial)

Duplicates ==
    /\ Offer(End)
    /\ Answered \/ Unanswered
    /\ upload' = Cleared(upload, client.at)
    /\ UNCHANGED <<requests, stage, staged, loss>>

AcceptsAny(received) == TRUE
Accepts(received) == received = client.at

Begins ==
    \E received \in 0..2 * Length :
        /\ Offer(received) /\ received # End /\ Accepts(received)
        /\ upload' = LET u == Cleared(upload, client.at)
                     IN  [u EXCEPT !.partial = Content(@), !.aged = @ /\ u.partial # Missing]
        /\ requests' = (IF client.at = 0 THEN Unlinked(requests, {"partial", "stored"}) ELSE requests)
                       \cup {[start |-> client.at, end |-> End, wrote |-> 0, to |-> "partial", awaited |-> TRUE]}
        /\ UNCHANGED <<client, stage, staged, loss, troubles>>

\* 409: the browser does not try such a chunk again.
Conflicts ==
    \E received \in 0..2 * Length :
        /\ Offer(received) /\ received # End /\ ~Accepts(received)
        /\ client' = Paused
        /\ UNCHANGED <<upload, requests, stage, staged, loss, troubles>>

----------------------------------------------------------------------------
(* The panel *)

Received(r) == r.start + r.wrote = r.end

\* The stream appends; one whose file was removed writes where nobody looks.
Appends(r) ==
    /\ ~Received(r)
    /\ upload' = IF r.to = "none" THEN upload
                 ELSE [upload EXCEPT ![r.to] = Append(@, File[r.start + r.wrote + 1])]
    /\ requests' = (requests \ {r}) \cup {[r EXCEPT !.wrote = @ + 1]}
    /\ UNCHANGED <<client, stage, staged, loss, troubles>>

KeepsAll(r) == upload.partial
CutsBack(r) == Cut(upload.partial, r.start)

\* The connection breaks before the chunk is whole; or a proxy answers 504 for a request that runs on.
Breaks(r) ==
    \E runsOn \in {FALSE, Overlap /\ r.awaited /\ requests = {r}} :
        /\ Received(r) => runsOn
        /\ upload' = IF runsOn THEN upload ELSE [upload EXCEPT !.partial = CutsBack(r)]
        /\ requests' = IF runsOn THEN {[r EXCEPT !.awaited = FALSE]} ELSE requests \ {r}
        /\ IF r.awaited THEN Unanswered ELSE NoTrouble /\ UNCHANGED client
        /\ UNCHANGED <<stage, staged, loss>>

\* A chunk is in the file, and the last one completes the upload.
Completes(r) ==
    LET last == r.end = Length
        gone == last /\ upload.partial = Missing
        rest == requests \ {r}
    IN  /\ Received(r)
        /\ upload' = IF last /\ ~gone THEN [Renamed(upload) EXCEPT !.recorded = TRUE] ELSE upload
        /\ requests' = IF last /\ ~gone THEN AfterRename(rest) ELSE rest
        /\ IF ~r.awaited THEN NoTrouble /\ UNCHANGED client
           ELSE IF gone THEN NoTrouble /\ client' = Again
           ELSE Answered \/ Unanswered
        /\ UNCHANGED <<stage, staged, loss>>

\* removeExpired() judges an upload by when an entry of its directory changed, which appending to a file does not do.
Ages ==
    /\ troubles.expiries < MaxExpiries /\ upload # NoUpload /\ ~upload.aged
    /\ upload' = [upload EXCEPT !.aged = TRUE]
    /\ troubles' = [troubles EXCEPT !.expiries = @ + 1]
    /\ UNCHANGED <<requests, client, stage, staged, loss>>

Expires ==
    /\ upload.aged
    /\ upload' = NoUpload /\ loss' = TRUE
    /\ requests' = Unlinked(requests, {"partial", "stored"})
    /\ UNCHANGED <<client, stage, staged, troubles>>

Renames == upload.partial # Missing /\ \E r \in requests : Received(r) /\ r.end = Length

\* The panel stops: nothing is cut back, and it may have renamed what it had no time to record.
Stops ==
    /\ troubles.restarts < MaxRestarts
    /\ troubles' = [troubles EXCEPT !.restarts = @ + 1]
    /\ \/ /\ LateStop \/ ~Renames
          /\ UNCHANGED upload
       \/ /\ Renames
          /\ upload' = Renamed(upload)
    /\ client' = IF Awaited THEN Again ELSE client
    /\ requests' = {} /\ loss' = TRUE
    /\ stage' = IF stage = "running" THEN "none" ELSE stage
    /\ UNCHANGED staged

----------------------------------------------------------------------------
(* Staging *)

\* The job's idempotency key is the upload: a second request finds the first job.
Finalizes ==
    /\ client.pc = "finishing"
    /\ stage' = IF upload.recorded /\ stage = "none" THEN "queued" ELSE stage
    /\ \/ NoTrouble /\ client' = IF upload.recorded THEN [client EXCEPT !.pc = "done"] ELSE Paused
       \/ Trouble /\ client' = Paused
    /\ UNCHANGED <<upload, requests, staged, loss>>

StageStarts ==
    /\ stage = "queued"
    /\ stage' = IF Complete THEN "running" ELSE "none"
    /\ UNCHANGED <<upload, requests, client, staged, loss, troubles>>

\* What listing, extraction and checksums may say of a file.
Checks(file) == IF file = File THEN {TRUE} ELSE BOOLEAN

\* The archive is checked, then moved, and the upload removed.
Stages ==
    /\ stage = "running" /\ stage' = "none"
    /\ \/ /\ Complete /\ TRUE \in Checks(upload.stored) /\ staged = Missing
          /\ staged' = upload.stored
          /\ upload' = NoUpload
          /\ requests' = Unlinked(requests, {"partial", "stored"})
       \/ /\ ~Complete \/ FALSE \in Checks(upload.stored) \/ staged # Missing
          /\ UNCHANGED <<upload, requests, staged>>
    /\ UNCHANGED <<client, loss, troubles>>

----------------------------------------------------------------------------
Idle == client.pc = "done" /\ requests = {} /\ stage = "none" /\ UNCHANGED uploadVars

UploadInit ==
    /\ upload = NoUpload /\ requests = {}
    /\ client = [pc |-> "idle", at |-> 0, tries |-> 0]
    /\ stage = "none" /\ staged = Missing /\ loss = FALSE
    /\ troubles = [losses |-> 0, restarts |-> 0, expiries |-> 0]

UploadNext ==
    \/ Opens \/ Duplicates \/ Begins \/ Conflicts
    \/ \E r \in requests : Appends(r) \/ Breaks(r) \/ Completes(r)
    \/ Ages \/ Expires \/ Stops
    \/ Finalizes \/ StageStarts \/ Stages
    \/ Idle

UploadSpec == UploadInit /\ [][UploadNext]_uploadVars

\* The panel goes on with what it was sent, and the operator with a paused upload.
UploadFair ==
    /\ UploadSpec
    /\ WF_uploadVars(Opens) /\ WF_uploadVars(Duplicates \/ Begins \/ Conflicts)
    /\ WF_uploadVars(\E r \in requests : Appends(r) \/ Completes(r))
    /\ WF_uploadVars(Finalizes) /\ SF_uploadVars(Finalizes /\ client'.pc = "done")

----------------------------------------------------------------------------
(* Properties *)

\* What the record calls the uploaded bundle, and what was staged from it, is the operator's file: no unit of it lost,
\* repeated, or out of place, whichever chunks were interrupted, repeated or resumed in the middle.
Intact ==
    /\ Complete => upload.stored = File
    /\ staged \in {Missing, File}

\* A chunk is refused only where the panel stopped, the upload expired or the file is there already: a broken
\* connection or a lost answer alone never makes the browser's own retry pause the upload.
RetriesAccepted == [][Conflicts => loss \/ upload.stored # Missing \/ staged # Missing]_uploadVars

\* A paused upload resumes when the same file is selected again, and in the end is handed to the staging job.
Resumes == <>(client.pc = "done")
================================================================================
