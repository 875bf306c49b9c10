----------------------------- MODULE Recording -----------------------------
(***************************************************************************)
(* POST /api/record: what happens to an upload from its arrival to the     *)
(* answer (backend/notes_routes.py, audio.py, lmtp_delivery.py), with the  *)
(* guest limiter in front of it (GuestAdmission) and the retention thread  *)
(* beside it.                                                              *)
(*                                                                         *)
(* Handlers are coroutines of one event loop.  A handler gives the loop up *)
(* only while it reads the body and while a thread runs ffmpeg.  From the  *)
(* end of the conversion to the answer (quota, files, LMTP) it keeps the   *)
(* loop: `loop' names it, and no other coroutine moves.  What still moves  *)
(* are conversion threads, the retention thread, the clock, and a crash.   *)
(***************************************************************************)
EXTENDS GuestAdmission, Integers, FiniteSetsExt

CONSTANTS OrdinaryUploads,  \* uploads of one registered user
          RawSizes,         \* sizes an uploaded body may have
          Sizes,            \* sizes the converted MP3 may have
          MaxUpload,        \* MAX_UPLOAD_BYTES
          MaxGuestUpload,   \* MAX_GUEST_UPLOAD_BYTES
          MaxNotesPerDay,   \* MAX_USER_NOTES_PER_DAY
          MaxNoteBytes,     \* MAX_USER_NOTE_BYTES
          QuotaFactor,      \* GUEST_QUOTA_FACTOR
          DaySeconds,       \* length of a UTC day
          RetentionSeconds, \* GUEST_RETENTION_HOURS, in seconds
          NoUpload          \* no handler

ASSUME UploadsDisjoint ==
    /\ OrdinaryUploads \cap Requests = {}
    /\ NoUpload \notin Requests \cup OrdinaryUploads
ASSUME OrdinaryFinite == IsFiniteSet(OrdinaryUploads)
ASSUME RecordingNumbers ==
    /\ RawSizes \subseteq Nat
    /\ Sizes \subseteq Nat \ {0}
    /\ {MaxUpload, MaxGuestUpload, MaxNotesPerDay, MaxNoteBytes, QuotaFactor,
        DaySeconds, RetentionSeconds} \subseteq Nat \ {0}

VARIABLES pc,         \* where the handler of each upload is
          reply,      \* status code it answered with
          size,       \* bytes of the converted audio; 0 before that
          outcome,    \* what the conversion thread returned or raised
          loop,       \* the handler that keeps the event loop
          created,    \* created_at, a local variable of that handler
          scan,       \* local variables of user_note_usage()
          note,       \* the note's directory
          mail,       \* the message, in the user's Maildir
          retention   \* local variables of the retention thread

uploadVars == <<pc, reply, size, outcome>>
loopVars == <<loop, created, scan>>
storeVars == <<note, mail>>
vars == <<admissionVars, uploadVars, loopVars, storeVars, retention>>

Uploads == Requests \cup OrdinaryUploads
Guest(u) == u \in Requests
OwnedWith(u) == IF Guest(u) THEN Requests ELSE OrdinaryUploads

NoNote == [dir |-> "none", audio |-> 0, meta |-> FALSE, created |-> 0,
           mtime |-> 0]
NoScan == [left |-> {}, found |-> NoUpload, count |-> 0, bytes |-> 0]
NoCleanup == [pc |-> "idle", began |-> 0, cutoff |-> 0, left |-> {},
              inspect |-> {}]

Day(t) == t \div DaySeconds
Factor(u) == IF Guest(u) THEN QuotaFactor ELSE 1
NoteLimit(u) == MaxNotesPerDay * Factor(u)
ByteLimit(u) == MaxNoteBytes * Factor(u)
UploadLimit(u) == IF Guest(u) THEN MaxGuestUpload ELSE MaxUpload

Waiting == {"reading", "converting", "converted"}
Segment == {"scan", "mkdir", "audio", "metadata", "lmtp", "quit"}
Running(u) == pc[u] \in Waiting \cup Segment

\* metadata.json gives a note its age; without it, the directory's mtime.
NoteTime(n) == IF note[n].meta THEN note[n].created ELSE note[n].mtime

-----------------------------------------------------------------------------
Init ==
    /\ AdmissionInit
    /\ pc = [u \in Uploads |-> "arrived"]
    /\ reply = [u \in Uploads |-> "none"]
    /\ size = [u \in Uploads |-> 0]
    /\ outcome = [u \in Uploads |-> "none"]
    /\ loop = NoUpload
    /\ created = 0
    /\ scan = NoScan
    /\ note = [u \in Uploads |-> NoNote]
    /\ mail = [u \in Uploads |-> "none"]
    /\ retention = NoCleanup

Step(u, from, to) ==
    /\ pc[u] = from
    /\ pc' = [pc EXCEPT ![u] = to]

\* The local variables of a handler end with it.
LocalsEnd(u) ==
    /\ size' = [size EXCEPT ![u] = 0]
    /\ outcome' = [outcome EXCEPT ![u] = "none"]
    /\ created' = 0
    /\ scan' = NoScan

\* Fault: the slot is given back only when the handler returns normally.
AnswerLeaky(u, code) ==
    /\ pc' = [pc EXCEPT ![u] = "answered"]
    /\ reply' = [reply EXCEPT ![u] = code]
    /\ LocalsEnd(u)
    /\ loop' = NoUpload
    /\ IF Guest(u) /\ code = "201" THEN Finish(u) ELSE UNCHANGED admissionVars

\* The handler returns or raises; record()'s finally clause releases the slot.
Answer(u, code) ==
    /\ pc' = [pc EXCEPT ![u] = "answered"]
    /\ reply' = [reply EXCEPT ![u] = code]
    /\ LocalsEnd(u)
    /\ loop' = NoUpload
    /\ IF Guest(u) THEN Finish(u) ELSE UNCHANGED admissionVars

-----------------------------------------------------------------------------
(* Up to the conversion: the handler may be overtaken at every await.      *)

\* No session or a disabled user (401), or not audio/webm (415).
Turn(u) == loop = NoUpload /\ pc[u] = "arrived"
RejectAtOnce(u) ==
    /\ Turn(u)
    /\ \E code \in {"401", "415"} : reply' = [reply EXCEPT ![u] = code]
    /\ pc' = [pc EXCEPT ![u] = "answered"]
    /\ UNCHANGED <<admissionVars, size, outcome, loopVars,
                   storeVars, retention>>

StartOrdinary(u) ==
    /\ Turn(u) /\ ~Guest(u)
    /\ Step(u, "arrived", "reading")
    /\ UNCHANGED <<admissionVars, reply, size, outcome, loopVars,
                   storeVars, retention>>

StartGuest(u) ==
    /\ Turn(u) /\ Guest(u)
    /\ Admit(u)
    /\ Step(u, "arrived", "reading")
    /\ UNCHANGED <<reply, size, outcome, loopVars, storeVars, retention>>

RefuseGuest(u) ==
    /\ Turn(u) /\ Guest(u)
    /\ Refuse(u)
    /\ Step(u, "arrived", "answered")
    /\ reply' = [reply EXCEPT ![u] = IF OverRate(u) THEN "429" ELSE "503"]
    /\ UNCHANGED <<size, outcome, loopVars, storeVars, retention>>

\* read_limited_upload: all chunks, up to the first that exceeds the limit.
Read(u) ==
    /\ loop = NoUpload
    /\ \E raw \in RawSizes :
         \/ /\ raw \in 1 .. UploadLimit(u)
            /\ Step(u, "reading", "converting")
            /\ UNCHANGED <<admissionVars, reply, size, outcome, loopVars>>
         \/ raw = 0 /\ pc[u] = "reading" /\ Answer(u, "400")
         \/ raw > UploadLimit(u) /\ pc[u] = "reading" /\ Answer(u, "413")
    /\ UNCHANGED <<storeVars, retention>>

\* Fault: ffmpeg runs without its timeout, and the thread may never end.
ConvertWithoutTimeout(u) ==
    /\ Step(u, "converting", "converted")
    /\ \E o \in {"none", "ok"}, s \in Sizes :
         /\ outcome' = [outcome EXCEPT ![u] = o]
         /\ size' = [size EXCEPT ![u] = s]
    /\ UNCHANGED <<admissionVars, reply, loopVars, storeVars, retention>>

(***************************************************************************)
(* The thread started by asyncio.to_thread.  ffmpeg and ffprobe have a     *)
(* timeout, so it always ends: with the MP3, AudioTooLongError,            *)
(* AudioConversionError, or the OSError of a full /tmp.                    *)
(***************************************************************************)
Convert(u) ==
    /\ Step(u, "converting", "converted")
    /\ \E o \in {"ok", "overlong", "invalid", "oserror"} :
         /\ outcome' = [outcome EXCEPT ![u] = o]
         /\ IF o = "ok"
            THEN \E s \in Sizes : size' = [size EXCEPT ![u] = s]
            ELSE UNCHANGED size
    /\ UNCHANGED <<admissionVars, reply, loopVars, storeVars,
                   retention>>

ConversionFailed(u) ==
    /\ loop = NoUpload
    /\ pc[u] = "converted"
    /\ \/ outcome[u] = "overlong" /\ Answer(u, "413")
       \/ outcome[u] = "invalid" /\ Answer(u, "422")
       \/ outcome[u] = "oserror" /\ Answer(u, "500")
    /\ UNCHANGED <<storeVars, retention>>

-----------------------------------------------------------------------------
(* From here to the answer the handler does not give up the loop.          *)

\* Notes whose directories user_note_usage() lists.
Stored(u) == {n \in OwnedWith(u) : note[n].dir = "present"}

\* Fault: the note's directory is made before the quota is checked.
EnforceQuotaLate(u) ==
    /\ loop = NoUpload
    /\ outcome[u] = "ok"
    /\ Step(u, "converted", "scan")
    /\ loop' = u
    /\ created' = now
    /\ scan' = [NoScan EXCEPT !.left = Stored(u)]
    /\ note' = [note EXCEPT ![u].dir = "present", ![u].mtime = now]
    /\ UNCHANGED <<admissionVars, reply, size, outcome, mail, retention>>

EnforceQuota(u) ==
    /\ loop = NoUpload
    /\ outcome[u] = "ok"
    /\ Step(u, "converted", "scan")
    /\ loop' = u
    /\ created' = now
    /\ scan' = [NoScan EXCEPT !.left = Stored(u)]
    /\ UNCHANGED <<admissionVars, reply, size, outcome, storeVars, retention>>

\* One directory of the listing: count the note, look for its audio.
ScanNote(u, n) ==
    /\ pc[u] = "scan" /\ scan.found = NoUpload
    /\ n \in scan.left
    /\ scan' = [scan EXCEPT
         !.left = @ \ {n},
         !.found = IF note[n].audio > 0 THEN n ELSE NoUpload,
         !.count = @ + IF note[n].meta /\ Day(note[n].created) = Day(created)
                       THEN 1 ELSE 0]
    /\ UNCHANGED <<admissionVars, uploadVars, loop, created, storeVars,
                   retention>>

\* stat() of an audio file that exists() saw; retention may have removed it.
ScanAudio(u) ==
    /\ pc[u] = "scan" /\ scan.found # NoUpload
    /\ \/ /\ note[scan.found].audio > 0
          /\ scan' = [scan EXCEPT !.found = NoUpload,
                                  !.bytes = @ + note[scan.found].audio]
          /\ UNCHANGED <<admissionVars, uploadVars, loop, created>>
       \/ /\ note[scan.found].audio = 0
          /\ Answer(u, "500")
    /\ UNCHANGED <<storeVars, retention>>

ScanDone(u) ==
    /\ pc[u] = "scan" /\ scan.found = NoUpload
    /\ scan.left = {}
OverNotes(u) == scan.count >= NoteLimit(u)
OverBytes(u) == scan.bytes + size[u] > ByteLimit(u)

QuotaExceeded(u) ==
    /\ ScanDone(u)
    /\ \/ OverNotes(u) /\ Answer(u, "429")
       \/ ~OverNotes(u) /\ OverBytes(u) /\ Answer(u, "403")
    /\ UNCHANGED <<storeVars, retention>>

\* Fault: the handler awaits between the quota check and the first write.
WithinQuotaThenAwait(u) ==
    /\ ScanDone(u)
    /\ ~OverNotes(u) /\ ~OverBytes(u)
    /\ Step(u, "scan", "mkdir")
    /\ scan' = NoScan
    /\ loop' = NoUpload
    /\ UNCHANGED <<admissionVars, reply, size, outcome, created, storeVars,
                   retention>>

WithinQuota(u) ==
    /\ ScanDone(u)
    /\ ~OverNotes(u) /\ ~OverBytes(u)
    /\ Step(u, "scan", "mkdir")
    /\ scan' = NoScan
    /\ UNCHANGED <<admissionVars, reply, size, outcome, loop, created,
                   storeVars, retention>>

\* A file operation that raises OSError ends the request with a 500.
DiskError(u) ==
    /\ pc[u] \in {"mkdir", "audio", "metadata"}
    /\ \/ pc[u] # "audio" /\ UNCHANGED note
       \/ /\ pc[u] = "audio"
          /\ \E written \in 0 .. size[u] :
               note' = [note EXCEPT ![u].audio = written, ![u].mtime = now]
    /\ Answer(u, "500")
    /\ UNCHANGED <<mail, retention>>

MakeDirectory(u) ==
    /\ Step(u, "mkdir", "audio")
    /\ note' = [note EXCEPT ![u].dir = "present", ![u].mtime = now]
    /\ UNCHANGED <<admissionVars, reply, size, outcome, loopVars,
                   mail, retention>>

WriteAudio(u) ==
    /\ Step(u, "audio", "metadata")
    /\ note' = [note EXCEPT ![u].audio = size[u], ![u].mtime = now]
    /\ UNCHANGED <<admissionVars, reply, size, outcome, loopVars,
                   mail, retention>>

WriteMetadata(u) ==
    /\ Step(u, "metadata", "lmtp")
    /\ note' = [note EXCEPT ![u].meta = TRUE, ![u].mtime = now,
                           ![u].created = created]
    /\ UNCHANGED <<admissionVars, reply, size, outcome, loopVars,
                   mail, retention>>

\* Fault: the handler delivers before it has written metadata.json.
LmtpAcceptsEarly(u) ==
    /\ \E from \in {"metadata", "lmtp"} : Step(u, from, "quit")
    /\ mail' = [mail EXCEPT ![u] = "delivered"]
    /\ UNCHANGED <<admissionVars, reply, size, outcome, loopVars,
                   note, retention>>

\* Dovecot stores the message and answers 250.
LmtpAccepts(u) ==
    /\ Step(u, "lmtp", "quit")
    /\ mail' = [mail EXCEPT ![u] = "delivered"]
    /\ UNCHANGED <<admissionVars, reply, size, outcome, loopVars,
                   note, retention>>

\* Fault: deliver_recording swallows the exception it logs.
LmtpFailsSilently(u) ==
    /\ pc[u] \in {"lmtp", "quit"}
    /\ Answer(u, "201")
    /\ UNCHANGED <<note, mail, retention>>

\* No connection (OSError), or a session that ends in an SMTPException.
LmtpFails(u) ==
    /\ pc[u] \in {"lmtp", "quit"}
    /\ Answer(u, "500")
    /\ UNCHANGED <<note, mail, retention>>

LmtpDone(u) ==
    /\ pc[u] = "quit"
    /\ Answer(u, "201")
    /\ UNCHANGED <<note, mail, retention>>

-----------------------------------------------------------------------------
(* The retention thread, as far as uploads can see it.  GuestRetention     *)
(* models it in detail.                                                    *)

\* The task sleeps first, then runs on the loop and starts a thread.
RetentionStart ==
    /\ loop = NoUpload
    /\ now > 0
    /\ retention.pc = "idle"
    /\ retention' = [retention EXCEPT !.pc = "started", !.began = now]
    /\ UNCHANGED <<admissionVars, uploadVars, loopVars, storeVars>>

\* The thread reads the guest's row and the clock, whatever the loop does.
RetentionCutoff ==
    /\ retention.pc = "started"
    /\ retention' = [retention EXCEPT !.pc = "listing", !.began = 0,
                                      !.cutoff = now - RetentionSeconds]
    /\ UNCHANGED <<admissionVars, uploadVars, loopVars, storeVars>>

Expired == {n \in Requests : /\ note[n].dir = "present"
                             /\ NoteTime(n) <= retention.cutoff}

RetentionList ==
    /\ retention.pc = "listing"
    /\ retention' = IF Expired = {}
                    THEN NoCleanup
                    ELSE [retention EXCEPT !.pc = "walking",
                                           !.left = Expired,
                                           !.inspect = Expired]
    /\ UNCHANGED <<admissionVars, uploadVars, loopVars, storeVars>>

(***************************************************************************)
(* The walk through the Maildir, before any directory goes: the message of *)
(* an expired note is removed, or it is passed over, because Dovecot       *)
(* renames it behind the listing or an OSError is logged.                  *)
(***************************************************************************)
RetentionInspect(n) ==
    /\ retention.pc = "walking" /\ n \in retention.inspect
    /\ retention' = [retention EXCEPT
         !.inspect = @ \ {n},
         !.pc = IF retention.inspect = {n} THEN "removing" ELSE @]
    /\ \/ mail[n] = "delivered" /\ mail' = [mail EXCEPT ![n] = "removed"]
       \/ UNCHANGED mail
    /\ UNCHANGED <<admissionVars, uploadVars, loopVars, note>>

\* shutil.rmtree: the files in the order of the directory, then the directory.
RetentionUnlink(n) ==
    /\ retention.pc = "removing" /\ n \in retention.left
    /\ \/ /\ note[n].audio > 0
          /\ note' = [note EXCEPT ![n].audio = 0, ![n].mtime = now]
       \/ /\ note[n].meta
          /\ note' = [note EXCEPT ![n].meta = FALSE, ![n].mtime = now]
    /\ UNCHANGED <<admissionVars, uploadVars, loopVars, mail, retention>>

\* `created' of a removed note is kept, for the properties only.
RetentionRemoveDirectory(n) ==
    /\ retention.pc = "removing" /\ n \in retention.left
    /\ note[n].audio = 0 /\ ~note[n].meta
    /\ note' = [note EXCEPT ![n].dir = "removed", ![n].mtime = 0]
    /\ retention' = IF retention.left = {n}
                    THEN NoCleanup
                    ELSE [retention EXCEPT !.left = @ \ {n}]
    /\ UNCHANGED <<admissionVars, uploadVars, loopVars, mail>>

\* An exception, in rmtree for instance; the loop logs it and sleeps again.
RetentionFails ==
    /\ retention.pc # "idle"
    /\ retention' = NoCleanup
    /\ UNCHANGED <<admissionVars, uploadVars, loopVars, storeVars>>

-----------------------------------------------------------------------------
\* A thread that is started reads the clock within the retention time, which
\* is an hour at least.
ClockTick ==
    /\ Tick
    /\ retention.pc = "started" => now' < retention.began + RetentionSeconds
    /\ UNCHANGED <<uploadVars, loopVars, storeVars, retention>>

\* The process dies and starts again: only disk and mailbox survive.
Crash ==
    /\ \E u \in Uploads : Running(u)
    /\ Restart
    /\ pc' = [u \in Uploads |-> IF Running(u) THEN "lost" ELSE pc[u]]
    /\ size' = [u \in Uploads |-> 0]
    /\ outcome' = [u \in Uploads |-> "none"]
    /\ loop' = NoUpload
    /\ created' = 0
    /\ scan' = NoScan
    /\ retention' = NoCleanup
    /\ UNCHANGED <<reply, storeVars>>

Handler(u) ==
    \/ StartOrdinary(u) \/ StartGuest(u) \/ RefuseGuest(u) \/ RejectAtOnce(u)
    \/ Read(u) \/ Convert(u) \/ ConversionFailed(u)
    \/ EnforceQuota(u) \/ ScanAudio(u) \/ QuotaExceeded(u) \/ WithinQuota(u)
    \/ \E n \in OwnedWith(u) : ScanNote(u, n)
    \/ DiskError(u) \/ MakeDirectory(u) \/ WriteAudio(u) \/ WriteMetadata(u)
    \/ LmtpAccepts(u) \/ LmtpFails(u) \/ LmtpDone(u)

Retention ==
    \/ RetentionStart \/ RetentionCutoff \/ RetentionList \/ RetentionFails
    \/ \E n \in Requests : \/ RetentionInspect(n)
                           \/ RetentionUnlink(n) \/ RetentionRemoveDirectory(n)

Next ==
    \/ ClockTick \/ Crash \/ Retention
    \/ \E u \in Uploads : Handler(u)

Spec == Init /\ [][Next]_vars

(***************************************************************************)
(* Fairness: asyncio runs every ready coroutine, the body is there before  *)
(* the handler starts, and ffmpeg and ffprobe have timeouts.  Nothing is   *)
(* assumed of the LMTP session, for which the code sets no timeout, nor of *)
(* clients, the clock, the retention thread or crashes.                    *)
(***************************************************************************)
InSession(u) == pc[u] \in {"lmtp", "quit"}
FairSpec ==
    Spec /\ \A u \in Uploads :
               WF_vars(pc[u] # "arrived" /\ ~InSession(u) /\ Handler(u))

-----------------------------------------------------------------------------
TypeOK ==
    /\ AdmissionTypeOK
    /\ pc \in [Uploads -> {"arrived", "answered", "lost"} \cup Waiting \cup Segment]
    /\ reply \in [Uploads -> {"none", "201", "400", "401", "403", "413", "415",
                              "422", "429", "500", "503"}]
    /\ size \in [Uploads -> Sizes \cup {0}]
    /\ created \in Nat
    /\ loop \in Uploads \cup {NoUpload}
    /\ \A u \in Uploads :
         /\ note[u].dir \in {"none", "present", "removed"}
         /\ note[u].audio \in UNION {0 .. s : s \in Sizes \cup {0}}
         /\ note[u].dir # "present" => note[u].audio = 0 /\ ~note[u].meta
    /\ mail \in [Uploads -> {"none", "delivered", "removed"}]

(***************************************************************************)
(* A guest slot is held exactly by the handlers that run: every early      *)
(* return, every error of reading, converting, writing or delivering gives *)
(* it back, and a crash takes it with the process.                         *)
(***************************************************************************)
SlotsMatchHandlers == InFlight = {u \in Requests : Running(u)}

(***************************************************************************)
(* No user ever has more stored notes of one UTC day than the daily quota, *)
(* however many uploads were converted at the same time.  The check reads  *)
(* the directory and the write comes later; it is safe only because the    *)
(* handler keeps the loop from the one to the other.                       *)
(***************************************************************************)
DailyQuota ==
    \A u \in Uploads, d \in 0 .. Day(MaxTime) :
        Cardinality({n \in OwnedWith(u) : note[n].meta /\ Day(note[n].created) = d})
            <= NoteLimit(u)

(***************************************************************************)
(* The audio stored for a user never exceeds the byte quota, the partial   *)
(* files of failed and interrupted uploads included.                       *)
(***************************************************************************)
StorageQuota ==
    \A u \in Uploads : MapThenSumSet(LAMBDA n : note[n].audio, OwnedWith(u))
            <= ByteLimit(u)

(***************************************************************************)
(* An upload that was refused with a 4xx or a 503 left nothing behind: no  *)
(* directory that would count against a later upload and no message.       *)
(***************************************************************************)
RejectedLeavesNothing ==
    \A u \in Uploads :
        reply[u] \notin {"none", "201", "500"} =>
            note[u].dir = "none" /\ mail[u] = "none"

(***************************************************************************)
(* 201 is a promise: the message is in the mailbox and the note on disk.   *)
(* A registered user's stay, and a guest's stay for the retention time,    *)
(* whatever the retention thread is doing with older notes.                *)
(***************************************************************************)
WithinRetention(u) == Guest(u) => now < note[u].created + RetentionSeconds
AcknowledgedIsDelivered ==
    \A u \in Uploads :
        reply[u] = "201" /\ WithinRetention(u) =>
            mail[u] = "delivered" /\ note[u].audio > 0 /\ note[u].meta

(***************************************************************************)
(* A message in the mailbox has its note on disk, after a handler that     *)
(* failed or a crash too: retention finds messages by the notes that are   *)
(* there, so a message that never had one would stay for ever.  Once a     *)
(* guest's note has expired the message may outlive it, where the walk     *)
(* passed the message over.                                                *)
(***************************************************************************)
MessageHasNote ==
    \A u \in Uploads :
        mail[u] = "delivered" /\ WithinRetention(u) =>
            note[u].dir = "present" /\ note[u].meta

(***************************************************************************)
(* Only an LMTP session that Dovecot never ends can keep an upload from    *)
(* its answer, be it the upload's own or that of a handler that keeps the  *)
(* loop: if every session ends, every upload whose handler has started is  *)
(* answered or the process crashed.                                        *)
(***************************************************************************)
SessionsEnd == \A u \in Uploads : []<>(~InSession(u))
EveryUploadAnswered ==
    SessionsEnd =>
        \A u \in Uploads : Running(u) ~> (pc[u] \in {"answered", "lost"})
=============================================================================
