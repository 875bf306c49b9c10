--------------------------- MODULE GuestRetention ---------------------------
(***************************************************************************)
(* The retention of guest recordings (backend/guest_retention.py, guest.py *)
(* from line 67): an hourly task on the event loop starts a thread that    *)
(* removes expired notes from the disk and their messages from the guest   *)
(* Maildir.  Beside it uploads write notes, Dovecot moves messages from    *)
(* new/ to cur/ when a client opens the mailbox, and the process may be    *)
(* restarted.                                                              *)
(*                                                                         *)
(* Times are ages in clock units, so that the system may run for ever.  A  *)
(* cleanup and the writing segment of an upload take less than one unit:   *)
(* the clock does not advance inside them.                                 *)
(***************************************************************************)
EXTENDS Naturals

CONSTANTS Notes,       \* note ids, each the target of one upload
          Retention,   \* GUEST_RETENTION_HOURS
          Period,      \* GUEST_RETENTION_CHECK_SECONDS
          MaxAge,      \* bound: older is not told apart
          MaxRestarts, \* bound on restarts of the backend
          MaxErrors,   \* bound on cleanups that end with an exception
          Faults,      \* subset of {"sync", "io"}
          NoNote

ASSUME RetentionPositive ==
    /\ Retention \in Nat \ {0}
    /\ Period \in Nat \ {0}
    /\ MaxRestarts \in Nat
    /\ MaxErrors \in Nat
    /\ MaxAge \in Nat
    /\ MaxAge > (1 + MaxRestarts + MaxErrors) * (Retention + Period)
    /\ NoNote \notin Notes

VARIABLES upload,    \* where the upload of each note is
          disk,      \* the note's directory and its two files
          age,       \* since created_at
          touched,   \* since the mtime of the directory
          mail,      \* the note's message in the Maildir
          sleep,     \* until the loop starts the next cleanup
          cleanup,   \* local variables of the cleanup thread
          restarts, errors

noteVars == <<upload, disk, age, touched>>
bounds == <<restarts, errors>>
retentionVars == <<noteVars, mail, sleep, cleanup, bounds>>

Absent == [dir |-> FALSE, audio |-> FALSE, meta |-> FALSE]
Asleep == [pc |-> "asleep", left |-> {}, expired |-> {}, boxes |-> {},
           box |-> "none", listing |-> {}, note |-> NoNote]
Writing == {"begun", "dir", "audio", "meta"}
LoopFree == \A n \in Notes : upload[n] \notin Writing

RetentionInit ==
    /\ upload = [n \in Notes |-> "none"]
    /\ disk = [n \in Notes |-> Absent]
    /\ age = [n \in Notes |-> 0]
    /\ touched = [n \in Notes |-> 0]
    /\ mail = [n \in Notes |-> "none"]
    /\ sleep = Period
    /\ cleanup = Asleep
    /\ restarts = 0 /\ errors = 0

-----------------------------------------------------------------------------
(* process_recording, from created_at on; it does not give up the loop.    *)

UploadBegins(n) ==
    /\ LoopFree
    /\ upload[n] = "none"
    /\ upload' = [upload EXCEPT ![n] = "begun"]
    /\ UNCHANGED <<disk, age, touched, mail, sleep, cleanup, bounds>>

UploadWrites(n) ==
    /\ \/ /\ upload[n] = "begun"
          /\ upload' = [upload EXCEPT ![n] = "dir"]
          /\ disk' = [disk EXCEPT ![n].dir = TRUE]
       \/ /\ upload[n] = "dir"
          /\ upload' = [upload EXCEPT ![n] = "audio"]
          /\ disk' = [disk EXCEPT ![n].audio = TRUE]
       \/ /\ upload[n] = "audio"
          /\ upload' = [upload EXCEPT ![n] = "meta"]
          /\ disk' = [disk EXCEPT ![n].meta = TRUE]
    /\ touched' = [touched EXCEPT ![n] = 0]
    /\ UNCHANGED <<age, mail, sleep, cleanup, bounds>>

UploadDelivers(n) ==
    /\ upload[n] = "meta"
    /\ upload' = [upload EXCEPT ![n] = "ended"]
    /\ mail' = [mail EXCEPT ![n] = "new"]
    /\ UNCHANGED <<disk, age, touched, sleep, cleanup, bounds>>

\* An OSError or a failed delivery; what was written stays.
UploadFails(n) ==
    /\ upload[n] \in Writing
    /\ upload' = [upload EXCEPT ![n] = "ended"]
    /\ UNCHANGED <<disk, age, touched, mail, sleep, cleanup, bounds>>

\* A mail client opens the mailbox: Dovecot renames the file.
DovecotMoves(n) ==
    /\ "sync" \in Faults
    /\ mail[n] = "new"
    /\ mail' = [mail EXCEPT ![n] = "cur"]
    /\ UNCHANGED <<noteVars, sleep, cleanup, bounds>>

-----------------------------------------------------------------------------
(* cleanup_expired_guest_recordings                                        *)

CleanupStarts ==
    /\ LoopFree
    /\ cleanup.pc = "asleep" /\ sleep = 0
    /\ cleanup' = [Asleep EXCEPT !.pc = "scan",
                                 !.left = {n \in Notes : disk[n].dir}]
    /\ UNCHANGED <<noteVars, mail, sleep, bounds>>

\* Fault: the limit is one unit short.
ExpiredEarly(n) == age[n] >= Retention - 1

\* Fault: a note without metadata is skipped, as the quota scan does.
ExpiredWithMetadata(n) == disk[n].meta /\ age[n] >= Retention

\* _guest_note_identity: created_at, or the age of the directory without it.
Expired(n) ==
    IF disk[n].meta THEN age[n] >= Retention ELSE touched[n] >= Retention

Sleeps ==
    /\ cleanup' = Asleep
    /\ sleep' = Period

ScanNote(n) ==
    /\ cleanup.pc = "scan" /\ n \in cleanup.left
    /\ cleanup' = [cleanup EXCEPT
         !.left = @ \ {n},
         !.expired = IF Expired(n) THEN @ \cup {n} ELSE @]
    /\ UNCHANGED <<noteVars, mail, sleep, bounds>>

\* Fault: the directories go first, the messages after them.
ScanEndsWithRmtree ==
    /\ cleanup.pc = "scan" /\ cleanup.left = {}
    /\ \/ cleanup.expired = {} /\ Sleeps
       \/ /\ cleanup.expired # {}
          /\ cleanup' = [cleanup EXCEPT !.pc = "rmtree"]
          /\ UNCHANGED sleep
    /\ UNCHANGED <<noteVars, mail, bounds>>

ScanEnds ==
    /\ cleanup.pc = "scan" /\ cleanup.left = {}
    /\ \/ cleanup.expired = {} /\ Sleeps
       \/ /\ cleanup.expired # {}
          /\ cleanup' = [cleanup EXCEPT !.pc = "walk", !.boxes = {"new", "cur"}]
          /\ UNCHANGED sleep
    /\ UNCHANGED <<noteVars, mail, bounds>>

\* remove_guest_maildir_messages: one directory at a time, each listed once.
ListBox(b) ==
    /\ cleanup.pc = "walk" /\ cleanup.listing = {}
    /\ b \in cleanup.boxes
    /\ cleanup' = [cleanup EXCEPT !.boxes = @ \ {b}, !.box = b,
                                  !.listing = {n \in Notes : mail[n] = b}]
    /\ UNCHANGED <<noteVars, mail, sleep, bounds>>

(***************************************************************************)
(* A listed message: removed when it is that of an expired note; passed    *)
(* over when it has moved away, or when an OSError is logged.              *)
(***************************************************************************)
InspectMessage(n) ==
    /\ cleanup.pc = "walk" /\ n \in cleanup.listing
    /\ cleanup' = [cleanup EXCEPT !.listing = @ \ {n}]
    /\ \/ /\ mail[n] = cleanup.box /\ n \in cleanup.expired
          /\ mail' = [mail EXCEPT ![n] = "removed"]
       \/ /\ mail[n] # cleanup.box \/ n \notin cleanup.expired \/ "io" \in Faults
          /\ UNCHANGED mail
    /\ UNCHANGED <<noteVars, sleep, bounds>>

WalkEnds ==
    /\ cleanup.pc = "walk" /\ cleanup.listing = {} /\ cleanup.boxes = {}
    /\ cleanup' = [cleanup EXCEPT !.pc = "rmtree"]
    /\ UNCHANGED <<noteVars, mail, sleep, bounds>>

\* shutil.rmtree of one note: its files in any order, then the directory.
RemovesFile(n) ==
    /\ cleanup.pc = "rmtree"
    /\ n \in cleanup.expired /\ cleanup.note \in {n, NoNote}
    /\ \E file \in {"audio", "meta"} :
         /\ disk[n][file]
         /\ disk' = [disk EXCEPT ![n][file] = FALSE]
    /\ touched' = [touched EXCEPT ![n] = 0]
    /\ cleanup' = [cleanup EXCEPT !.note = n]
    /\ UNCHANGED <<upload, age, mail, sleep, bounds>>

RemovesDirectory(n) ==
    /\ cleanup.pc = "rmtree"
    /\ n \in cleanup.expired /\ cleanup.note \in {n, NoNote}
    /\ ~disk[n].audio /\ ~disk[n].meta
    /\ disk' = [disk EXCEPT ![n] = Absent]
    /\ cleanup' = [cleanup EXCEPT !.expired = @ \ {n}, !.note = NoNote]
    /\ UNCHANGED <<upload, age, touched, mail, sleep, bounds>>

CleanupEnds ==
    /\ cleanup.pc = "rmtree" /\ cleanup.expired = {}
    /\ Sleeps
    /\ UNCHANGED <<noteVars, mail, bounds>>

\* Fault: the exception ends the task, as it would without the try.
CleanupKillsLoop ==
    /\ cleanup.pc # "asleep"
    /\ errors < MaxErrors /\ errors' = errors + 1
    /\ cleanup' = [Asleep EXCEPT !.pc = "dead"]
    /\ UNCHANGED <<noteVars, mail, sleep, restarts>>

\* An exception outside the inner try: the loop logs it and sleeps again.
CleanupFails ==
    /\ cleanup.pc # "asleep"
    /\ errors < MaxErrors /\ errors' = errors + 1
    /\ Sleeps
    /\ UNCHANGED <<noteVars, mail, restarts>>

-----------------------------------------------------------------------------
\* The loop sleeps before its first cleanup, so a restart waits a whole period.
BackendRestart ==
    /\ restarts < MaxRestarts /\ restarts' = restarts + 1
    /\ upload' = [n \in Notes |->
                    IF upload[n] \in Writing THEN "ended" ELSE upload[n]]
    /\ Sleeps
    /\ UNCHANGED <<disk, age, touched, mail, errors>>

Older(t) == IF t < MaxAge THEN t + 1 ELSE t
Exists(n) == disk[n].dir \/ mail[n] \in {"new", "cur"}

TimePasses ==
    /\ LoopFree
    /\ cleanup.pc = "asleep" /\ sleep > 0
    /\ sleep' = sleep - 1
    /\ age' = [n \in Notes |-> IF Exists(n) THEN Older(age[n]) ELSE 0]
    /\ touched' = [n \in Notes |-> IF disk[n].dir THEN Older(touched[n]) ELSE 0]
    /\ UNCHANGED <<upload, disk, mail, cleanup, bounds>>

Upload(n) ==
    \/ UploadBegins(n) \/ UploadWrites(n) \/ UploadDelivers(n) \/ UploadFails(n)

CleanupStep ==
    \/ CleanupStarts \/ ScanEnds \/ WalkEnds \/ CleanupEnds \/ CleanupFails
    \/ \E b \in {"new", "cur"} : ListBox(b)
    \/ \E n \in Notes : \/ ScanNote(n) \/ InspectMessage(n)
                        \/ RemovesFile(n) \/ RemovesDirectory(n)

RetentionNext ==
    \/ TimePasses \/ BackendRestart \/ CleanupStep
    \/ \E n \in Notes : Upload(n) \/ DovecotMoves(n)

RetentionSpec == RetentionInit /\ [][RetentionNext]_retentionVars

(***************************************************************************)
(* Fairness: the thread and the loop run, time passes, and an upload that  *)
(* has the loop ends.                                                      *)
(***************************************************************************)
RetentionFairSpec ==
    /\ RetentionSpec
    /\ WF_retentionVars(TimePasses) /\ WF_retentionVars(CleanupStep)
    /\ \A n \in Notes : WF_retentionVars(upload[n] # "none" /\ Upload(n))

-----------------------------------------------------------------------------
RetentionTypeOK ==
    /\ upload \in [Notes -> {"none", "ended"} \cup Writing]
    /\ disk \in [Notes -> [dir : BOOLEAN, audio : BOOLEAN, meta : BOOLEAN]]
    /\ \A n \in Notes : disk[n].audio \/ disk[n].meta => disk[n].dir
    /\ age \in [Notes -> 0 .. MaxAge]
    /\ touched \in [Notes -> 0 .. MaxAge]
    /\ mail \in [Notes -> {"none", "new", "cur", "removed"}]
    /\ sleep \in 0 .. Period
    /\ cleanup.pc \in {"asleep", "scan", "walk", "rmtree"}
    /\ cleanup.expired \subseteq {n \in Notes : disk[n].dir}
    /\ cleanup.note \in cleanup.expired \cup {NoNote}

(***************************************************************************)
(* No file and no message of a note goes before the note is as old as the  *)
(* retention promises, however the cleanup meets a note that is being      *)
(* written or one that an earlier cleanup has half removed.                *)
(***************************************************************************)
OnlyExpiredRemoved ==
    [][\A n \in Notes :
         \/ disk[n].audio /\ ~disk'[n].audio
         \/ mail[n] # "removed" /\ mail'[n] = "removed"
         => age[n] >= Retention]_retentionVars

(***************************************************************************)
(* While no client has opened the mailbox and the message is still in      *)
(* new/, it goes before its note, whatever cuts the cleanup off in         *)
(* between; only an OSError that the walk logs may keep it.                *)
(***************************************************************************)
UnopenedMessageGoesWithNote ==
    \A n \in Notes : mail[n] = "new" => disk[n].dir

(***************************************************************************)
(* "scheduled for deletion after 24 hours; hourly cleanup can take         *)
(* approximately one additional hour" (index.html): the directory of a     *)
(* note, complete or not, is gone by then.  A restart or an exception that *)
(* cuts a cleanup off may cost that time once more, for rmtree renews the  *)
(* mtime by which a directory without metadata.json is dated.              *)
(***************************************************************************)
RemovedInTime ==
    \A n \in Notes :
        disk[n].dir =>
            age[n] <= (1 + restarts + errors) * (Retention + Period)

(***************************************************************************)
(* Every directory of a guest note goes in the end, after any finite       *)
(* number of restarts and failed cleanups.                                 *)
(***************************************************************************)
EventuallyRemoved == \A n \in Notes : disk[n].dir ~> ~disk[n].dir
=============================================================================
