-------------------------- MODULE RecordingProofs --------------------------
(***************************************************************************)
(* What the answer to an upload means, proved for any number of uploads,   *)
(* any sizes, limits and retention time, and crashes at any step.          *)
(*                                                                         *)
(* The argument has two halves.  A handler that writes keeps the loop, so  *)
(* there is one of them, and what it has written so far follows from where *)
(* it is.  Retention moves beside it, but its thread is started only while *)
(* the loop is free and reads the clock within the retention time: its     *)
(* cutoff is older than the note of any handler that writes by then or     *)
(* later, so the two never meet on a note.  The daily quota, at the end,   *)
(* adds what the scan has counted to that.                                 *)
(***************************************************************************)
EXTENDS Recording, GuestAdmissionProofs

NoteRecords == [dir : {"none", "present", "removed"}, audio : Nat,
                meta : BOOLEAN, created : Nat, mtime : Nat]

Codes == {"none", "201", "400", "401", "403", "413", "415", "422", "429",
          "500", "503"}

HandlerTypes ==
    /\ pc \in [Uploads -> {"arrived", "answered", "lost"} \cup Waiting \cup Segment]
    /\ reply \in [Uploads -> Codes]
    /\ size \in [Uploads -> Nat]
    /\ outcome \in [Uploads -> {"none", "ok", "overlong", "invalid", "oserror"}]
    /\ loop \in Uploads \cup {NoUpload}
    /\ created \in Nat

Cleanups == [pc : {"idle", "started", "listing", "walking", "removing"},
             began : Nat, cutoff : Int, left : SUBSET Requests,
             inspect : SUBSET Requests]

StoreTypes ==
    /\ note \in [Uploads -> NoteRecords]
    /\ mail \in [Uploads -> {"none", "delivered", "removed"}]
    /\ retention \in Cleanups

\* The loop is kept by the one handler that is in the segment.
LoopHeld == \A u \in Uploads : pc[u] \in Segment <=> loop = u

\* The slot of the limiter belongs to the handlers that run.
Slots == \A u \in Requests : phase[u] = "active" <=> Running(u)

\* What a handler has written is what its place says.
Progress ==
    \A u \in Uploads :
        /\ pc[u] \in {"arrived", "scan", "mkdir"} \cup Waiting =>
               note[u] = NoNote /\ mail[u] = "none"
        /\ pc[u] \in {"audio", "metadata", "lmtp"} => mail[u] = "none"
        /\ pc[u] \in {"audio", "metadata", "lmtp", "quit"} =>
               note[u].dir = "present"
        /\ pc[u] \in {"metadata", "lmtp", "quit"} => note[u].audio > 0
        /\ pc[u] \in {"lmtp", "quit"} => note[u].meta
        /\ pc[u] = "quit" => mail[u] = "delivered"
        /\ pc[u] \in Segment \/ outcome[u] = "ok" => size[u] > 0

\* What the answer says is what there is.
Replies ==
    \A u \in Uploads :
        /\ reply[u] # "none" <=> pc[u] = "answered"
        /\ reply[u] \notin {"none", "201", "500"} =>
               note[u] = NoNote /\ mail[u] = "none"
        /\ reply[u] = "201" /\ WithinRetention(u) =>
               mail[u] = "delivered" /\ note[u].audio > 0 /\ note[u].meta

\* A message has its metadata, and metadata has its directory.
Contents ==
    \A u \in Uploads :
        /\ mail[u] = "delivered" /\ WithinRetention(u) => note[u].meta
        /\ note[u].meta => note[u].dir = "present"

\* The cleanup has its cutoff.
Cutting == retention.pc \in {"listing", "walking", "removing"}

\* A cleanup holds only notes that the retention no longer protects.
Aging ==
    /\ \A u \in Uploads :
           note[u].dir = "present" => /\ note[u].created <= note[u].mtime
                                      /\ note[u].mtime <= now
    /\ Cutting => retention.cutoff + RetentionSeconds <= now
    /\ retention.inspect \subseteq retention.left
    /\ retention.pc # "walking" => retention.inspect = {}
    /\ \A n \in retention.left : ~WithinRetention(n)

\* A cleanup never meets a note that is being written.
Apart ==
    /\ created <= now
    /\ retention.pc = "started" =>
           /\ retention.began <= now /\ now < retention.began + RetentionSeconds
           /\ loop # NoUpload => retention.began <= created
    /\ Cutting => retention.cutoff < now
    /\ Cutting /\ loop # NoUpload => retention.cutoff < created
    /\ loop # NoUpload /\ note[loop].dir = "present" => created <= NoteTime(loop)
    /\ \A n \in retention.left : /\ pc[n] \in {"answered", "lost"}
                                 /\ note[n].dir = "present"

RecordingInv ==
    /\ AdmissionTypeOK
    /\ HandlerTypes
    /\ StoreTypes
    /\ LoopHeld
    /\ Slots
    /\ Progress
    /\ Replies
    /\ Contents
    /\ Apart
    /\ Aging

-----------------------------------------------------------------------------
(* Steps of a handler.                                                     *)

\* Nothing has happened yet.
LEMMA RecordingInitial == Init => RecordingInv
BY UploadsDisjoint
DEF Init, AdmissionInit, RecordingInv, AdmissionTypeOK, Phases, HandlerTypes,
    StoreTypes, Cleanups, Codes, NoteRecords, NoNote, NoCleanup, Uploads,
    Waiting, Segment,
    LoopHeld, Slots, Running, Progress, Replies, Contents, Apart, Cutting, Aging

\* From the arrival to the converted audio: nothing is stored.
LEMMA BeforeTheLoop ==
    ASSUME RecordingInv, NEW u \in Uploads,
           \/ StartOrdinary(u) \/ StartGuest(u) \/ RefuseGuest(u)
           \/ RejectAtOnce(u) \/ Convert(u)
           \/ Read(u) /\ pc'[u] # "answered"
    PROVE  RecordingInv'
<1> USE UploadsDisjoint, RecordingNumbers
    DEF RecordingInv, HandlerTypes, Uploads, Turn, Step
<1>1. UNCHANGED <<now, loop, created, note, mail, retention>>
  BY DEF StartOrdinary, StartGuest, RefuseGuest, RejectAtOnce, Convert, Read,
         Admit, Refuse, Answer, admissionVars, loopVars, storeVars
<1>2. /\ pc' = [pc EXCEPT ![u] = pc'[u]]
      /\ \/ pc[u] = "arrived" /\ pc'[u] \in {"reading", "answered"}
         \/ pc[u] = "reading" /\ pc'[u] = "converting"
         \/ pc[u] = "converting" /\ pc'[u] = "converted"
  BY DEF StartOrdinary, StartGuest, RefuseGuest, RejectAtOnce, Convert, Read,
      Answer
<1>3. /\ reply' = [reply EXCEPT ![u] = reply'[u]]
      /\ reply'[u] \in Codes \ {"201", "500"}
      /\ reply'[u] # "none" <=> pc'[u] = "answered"
  BY DEF StartOrdinary, StartGuest, RefuseGuest, RejectAtOnce, Convert, Read,
      Answer,
         Replies, Codes
<1>4. /\ size' \in [Uploads -> Nat]
      /\ outcome' \in [Uploads -> {"none", "ok", "overlong", "invalid", "oserror"}]
      /\ \A v \in Uploads : outcome'[v] = "ok" => size'[v] > 0
      /\ \A v \in Uploads \ {u} : size'[v] = size[v]
  BY DEF StartOrdinary, StartGuest, RefuseGuest, RejectAtOnce, Convert, Read,
      Answer,
         Progress
<1>5. AdmissionTypeOK'
  BY DEF StartOrdinary, StartGuest, RefuseGuest, RejectAtOnce, Convert, Read,
      Answer,
         AdmissionTypeOK, Phases, Admit, Refuse, admissionVars
<1>6. HandlerTypes'
  BY <1>1, <1>2, <1>3, <1>4 DEF Waiting, Segment
<1>7. StoreTypes'
  BY <1>1 DEF StoreTypes, Cleanups
<1>8. LoopHeld'
  BY <1>1, <1>2 DEF LoopHeld, Segment
<1>9. Slots'
  BY <1>2 DEF Slots, Running, Waiting, Segment, StartOrdinary, StartGuest,
      RefuseGuest,
         RejectAtOnce, Convert, Read, Answer, AdmissionTypeOK, Admit, Refuse,
         admissionVars, Guest
<1>10. Progress'
  BY <1>1, <1>2, <1>4 DEF Progress, Waiting, Segment
<1>11. Replies'
  BY <1>1, <1>2, <1>3 DEF Replies, Progress, Waiting, WithinRetention
<1>12. Contents' /\ Apart' /\ Aging'
  BY <1>1, <1>2 DEF Contents, Apart, Cutting, NoteTime, StoreTypes, Cleanups,
      Aging, WithinRetention
<1> QED
  BY <1>5, <1>6, <1>7, <1>8, <1>9, <1>10, <1>11, <1>12

\* The quota check: nothing is stored, and created_at is later than any cutoff.
LEMMA CheckingTheQuota ==
    ASSUME RecordingInv, NEW u \in Uploads,
           \/ EnforceQuota(u) \/ WithinQuota(u)
           \/ \E n \in OwnedWith(u) : ScanNote(u, n)
           \/ ScanAudio(u) /\ pc'[u] # "answered"
    PROVE  RecordingInv'
<1> USE UploadsDisjoint DEF RecordingInv, HandlerTypes, Step
<1>1. UNCHANGED <<admissionVars, reply, size, outcome, note, mail, retention>>
  BY DEF EnforceQuota, WithinQuota, ScanNote, ScanAudio, Answer, storeVars,
      uploadVars
<1>2. \/ /\ pc[u] = "converted" /\ outcome[u] = "ok" /\ loop = NoUpload
         /\ pc' = [pc EXCEPT ![u] = "scan"]
         /\ loop' = u /\ created' = now
      \/ /\ pc[u] = "scan"
         /\ pc' = [pc EXCEPT ![u] = "mkdir"] \/ pc' = pc
         /\ UNCHANGED <<loop, created>>
  BY DEF EnforceQuota, WithinQuota, ScanNote, ScanAudio, ScanDone, Answer,
      uploadVars
<1>3. AdmissionTypeOK' /\ HandlerTypes' /\ StoreTypes'
  BY <1>1, <1>2 DEF AdmissionTypeOK, StoreTypes, Cleanups, admissionVars,
      Waiting, Segment, Uploads
<1>4. LoopHeld' /\ Slots'
  BY <1>1, <1>2 DEF LoopHeld, Slots, Running, Waiting, Segment, Uploads,
      admissionVars
<1>5. Progress' /\ Replies' /\ Contents' /\ Aging'
  BY <1>1, <1>2 DEF Progress, Replies, Contents, Waiting, Segment, Aging,
      WithinRetention, Cutting, admissionVars
<1>6. Apart'
  <2>1. note[u].dir = "none" /\ loop' = u
    BY <1>2 DEF Progress, NoNote, LoopHeld, Segment, Waiting
  <2>2. now \in Nat /\ now' = now /\ retention' = retention /\ note' = note
    BY <1>1 DEF AdmissionTypeOK, admissionVars
  <2>3. /\ created' <= now
        /\ Cutting => retention.cutoff < created'
        /\ retention.pc = "started" => retention.began <= created'
    <3>1. CASE created' = now
      BY <2>2, <3>1 DEF Apart, Cutting
    <3>2. CASE loop = u /\ created' = created
      BY <2>2, <3>2, UploadsDisjoint DEF Apart, Cutting, Uploads
    <3> QED
      BY <1>2, <2>1, <3>1, <3>2 DEF LoopHeld, Segment
  <2>4. \A n \in retention.left : n # u
    BY <1>2 DEF Apart, Cutting
  <2> QED
    BY <1>1, <1>2, <2>1, <2>2, <2>3, <2>4
       DEF Apart, Cutting, StoreTypes, Cleanups, Uploads
<1> QED
  BY <1>3, <1>4, <1>5, <1>6

\* The three files and the LMTP session, by the handler that keeps the loop.
LEMMA Storing ==
    ASSUME RecordingInv, NEW u \in Uploads,
           MakeDirectory(u) \/ WriteAudio(u) \/ WriteMetadata(u) \/ LmtpAccepts(u)
    PROVE  RecordingInv'
<1> USE RecordingNumbers DEF RecordingInv, HandlerTypes, Step
<1>1. /\ UNCHANGED <<admissionVars, reply, size, outcome, loop, created, retention>>
      /\ loop = u /\ pc[u] \in Segment
      /\ pc' = [pc EXCEPT ![u] = pc'[u]] /\ pc'[u] \in Segment
  BY DEF MakeDirectory, WriteAudio, WriteMetadata, LmtpAccepts, loopVars,
      LoopHeld, Segment
<1>2. note[u] \in NoteRecords /\ now \in Nat /\ size[u] \in Nat /\ created \in Nat
  BY DEF StoreTypes, Cleanups, AdmissionTypeOK
<1>3. \A m \in Uploads \ {u} : note'[m] = note[m] /\ mail'[m] = mail[m]
  BY DEF MakeDirectory, WriteAudio, WriteMetadata, LmtpAccepts, StoreTypes,
      Cleanups
<1>4. PICK r \in NoteRecords :
        /\ note' = [note EXCEPT ![u] = r]
        /\ r.dir = "present"
        /\ pc'[u] \in {"metadata", "lmtp", "quit"} => r.audio > 0
        /\ pc'[u] \in {"lmtp", "quit"} => r.meta
        /\ ~r.meta => r.mtime = now
        /\ r.created <= r.mtime /\ r.mtime <= now
        /\ \/ ~r.meta \/ r.created = created
           \/ note[u].dir = "present" /\ note[u].meta /\ r.created = note[u].created
  <2>1. CASE MakeDirectory(u)
    <3> DEFINE r == [note[u] EXCEPT !.dir = "present", !.mtime = now]
    <3>1. r \in NoteRecords
      BY <1>2 DEF NoteRecords
    <3>2. note' = [note EXCEPT ![u] = r] /\ pc'[u] = "audio"
      BY <2>1 DEF MakeDirectory, StoreTypes, Cleanups
    <3>3. ~note[u].meta /\ note[u].created = 0
      BY <2>1 DEF MakeDirectory, Progress, NoNote
    <3>4. /\ r.dir = "present" /\ ~r.meta /\ r.mtime = now
          /\ r.created <= r.mtime /\ r.mtime <= now
      BY <1>2, <3>3 DEF NoteRecords
    <3> HIDE DEF r
    <3> QED
      BY <3>1, <3>2, <3>4
  <2>2. CASE WriteAudio(u)
    <3> DEFINE r == [note[u] EXCEPT !.audio = size[u], !.mtime = now]
    <3>1. r \in NoteRecords /\ size[u] > 0 /\ note[u].dir = "present"
      BY <1>1, <1>2, <2>2 DEF NoteRecords, Progress, WriteAudio
    <3>2. note' = [note EXCEPT ![u] = r] /\ pc'[u] = "metadata"
      BY <2>2 DEF WriteAudio, StoreTypes, Cleanups
    <3>3. note[u].created <= now
      BY <1>2, <3>1 DEF Aging, NoteRecords
    <3>4. /\ r.dir = "present" /\ r.audio > 0 /\ r.mtime = now
          /\ r.meta = note[u].meta /\ r.created = note[u].created
          /\ r.created <= r.mtime /\ r.mtime <= now
      BY <1>2, <3>1, <3>3 DEF NoteRecords
    <3> HIDE DEF r
    <3> QED
      BY <3>1, <3>2, <3>4
  <2>3. CASE WriteMetadata(u)
    <3> DEFINE r == [note[u] EXCEPT !.meta = TRUE, !.mtime = now, !.created = created]
    <3>1. r \in NoteRecords /\ note[u].audio > 0 /\ note[u].dir = "present"
      BY <1>2, <2>3 DEF NoteRecords, Progress, WriteMetadata
    <3>2. note' = [note EXCEPT ![u] = r] /\ pc'[u] = "lmtp"
      BY <2>3 DEF WriteMetadata, StoreTypes, Cleanups
    <3>3. created <= now
      BY DEF Apart
    <3>4. /\ r.dir = "present" /\ r.audio > 0 /\ r.meta /\ r.created = created
          /\ r.created <= r.mtime /\ r.mtime <= now
      BY <1>2, <3>1, <3>3 DEF NoteRecords
    <3> HIDE DEF r
    <3> QED
      BY <3>1, <3>2, <3>4
  <2>4. CASE LmtpAccepts(u)
    <3>1. note' = [note EXCEPT ![u] = note[u]] /\ pc'[u] = "quit"
      BY <2>4 DEF LmtpAccepts, StoreTypes, Cleanups
    <3>2. note[u].audio > 0 /\ note[u].meta /\ note[u].dir = "present"
      BY <2>4 DEF LmtpAccepts, Progress
    <3>3. note[u].created <= note[u].mtime /\ note[u].mtime <= now
      BY <3>2 DEF Aging
    <3> QED
      BY <1>2, <3>1, <3>2, <3>3
  <2> QED
    BY <2>1, <2>2, <2>3, <2>4
<1>11. /\ mail' \in [Uploads -> {"none", "delivered", "removed"}]
       /\ mail'[u] = IF pc'[u] = "quit" THEN "delivered" ELSE mail[u]
       /\ pc[u] # "quit" /\ mail[u] = "none"
  BY DEF MakeDirectory, WriteAudio, WriteMetadata, LmtpAccepts, StoreTypes,
      Cleanups, Progress
<1>12. StoreTypes'
  BY <1>1, <1>4, <1>11 DEF StoreTypes, Cleanups
<1>5. AdmissionTypeOK' /\ HandlerTypes'
  BY <1>1 DEF AdmissionTypeOK, admissionVars
<1>6. LoopHeld' /\ Slots'
  BY <1>1 DEF LoopHeld, Slots, Running, admissionVars, Uploads
<1>7. Progress'
  BY <1>1, <1>3, <1>4, <1>11
     DEF Progress, MakeDirectory, WriteAudio, WriteMetadata, LmtpAccepts,
         StoreTypes, Cleanups,
         Segment, Waiting
<1>8. Replies'
  BY <1>1, <1>3 DEF Replies, Segment, WithinRetention, admissionVars
<1>9. Contents'
  <2>1. \A m \in Uploads \ {u} :
          WithinRetention(m)' <=> WithinRetention(m)
    BY <1>1, <1>3 DEF WithinRetention, admissionVars
  <2> QED
    BY <1>3, <1>4, <1>11, <2>1
       DEF Contents, StoreTypes, Cleanups, MakeDirectory, WriteAudio,
           WriteMetadata, LmtpAccepts
<1>13. Aging'
  <2>1. u \notin retention.left /\ retention.left \subseteq Uploads
    BY <1>1 DEF Apart, Segment, StoreTypes, Cleanups, Uploads
  <2> QED
    BY <1>1, <1>3, <1>4, <2>1
       DEF Aging, Cutting, WithinRetention, admissionVars, StoreTypes
<1>10. Apart'
  <2>1. retention.cutoff \in Int /\ note'[u] = r /\ r.created \in Nat /\ r.mtime \in Nat
    BY <1>4 DEF StoreTypes, Cleanups, NoteRecords
  <2>2. u \notin retention.left
    BY <1>1 DEF Apart, Cutting, Segment
  <2>3. created <= NoteTime(u)'
    <3>1. created <= now
      BY DEF Apart, Cutting
    <3>2. note[u].dir = "present" /\ note[u].meta => created <= note[u].created
      BY <1>1, UploadsDisjoint DEF Apart, Cutting, NoteTime, Uploads
    <3> QED
      BY <1>2, <1>4, <2>1, <3>1, <3>2 DEF NoteTime
  <2> QED
    BY <1>1, <1>3, <2>2, <2>3
       DEF Apart, Cutting, StoreTypes, Cleanups, admissionVars, Uploads
<1> QED
  BY <1>12, <1>5, <1>6, <1>7, <1>8, <1>9, <1>10, <1>13

(***************************************************************************)
(* The end of every handler.  What it needs is that the answer says the    *)
(* truth about the note and the message of this upload.                    *)
(***************************************************************************)
LEMMA AnswerKeeps ==
    ASSUME RecordingInv, NEW u \in Uploads, NEW code \in Codes \ {"none"},
           Running(u), loop \in {NoUpload, u}, Answer(u, code),
           UNCHANGED <<mail, retention>>, StoreTypes',
           \A n \in Uploads \ {u} : note'[n] = note[n],
           code \notin {"201", "500"} => note'[u] = NoNote /\ mail[u] = "none",
           code = "201" => /\ note'[u].audio > 0 /\ note'[u].meta
                           /\ mail[u] = "delivered",
           mail[u] = "delivered" => note'[u].meta,
           note'[u].meta => note'[u].dir = "present",
           note'[u].dir = "present" => /\ note'[u].created <= note'[u].mtime
                                       /\ note'[u].mtime <= now
    PROVE  RecordingInv'
<1> USE UploadsDisjoint DEF RecordingInv, HandlerTypes, Uploads, Running,
        Waiting, Segment, Answer, LocalsEnd, Guest
<1>1. /\ pc' = [pc EXCEPT ![u] = "answered"]
      /\ reply' = [reply EXCEPT ![u] = code]
      /\ loop' = NoUpload /\ created' = 0
      /\ now' = now
  BY DEF Finish, admissionVars
<1>2. AdmissionTypeOK'
  BY DEF Finish, admissionVars, AdmissionTypeOK, Phases
<1>3. HandlerTypes'
  BY <1>1
<1>4. LoopHeld'
  BY <1>1 DEF LoopHeld
<1>5. Slots'
  BY <1>1 DEF Slots, Finish, admissionVars, AdmissionTypeOK
<1>6. Progress'
  BY <1>1 DEF Progress
<1>10. \A n \in Uploads \ {u} : WithinRetention(n)' <=> WithinRetention(n)
  BY <1>1 DEF WithinRetention
<1>7. Replies'
  BY <1>1, <1>10 DEF Replies
<1>8. Contents'
  BY <1>10 DEF Contents
<1>9. Apart'
  BY <1>1 DEF Apart, Cutting, LoopHeld, StoreTypes, Cleanups, AdmissionTypeOK
<1>11. Aging'
  <2>1. u \notin retention.left /\ retention.left \subseteq Uploads
    BY DEF Apart, StoreTypes, Cleanups
  <2> QED
    BY <1>1, <1>10, <2>1 DEF Aging, Cutting
<1> QED
  BY <1>2, <1>3, <1>4, <1>5, <1>6, <1>7, <1>8, <1>9, <1>11

\* The answers that leave the disk alone.
LEMMA HandlerAnswers ==
    ASSUME RecordingInv, NEW u \in Uploads,
           \/ Read(u) /\ pc'[u] = "answered"
           \/ ConversionFailed(u) \/ QuotaExceeded(u)
           \/ ScanAudio(u) /\ pc'[u] = "answered"
           \/ LmtpFails(u) \/ LmtpDone(u)
    PROVE  RecordingInv'
<1> USE DEF RecordingInv, HandlerTypes, Uploads
<1>1. /\ UNCHANGED <<note, mail, retention>>
      /\ Running(u) /\ loop \in {NoUpload, u}
  BY DEF Read, ConversionFailed, QuotaExceeded, ScanAudio, LmtpFails, LmtpDone,
      ScanDone,
         storeVars, LoopHeld, Segment, Running, Waiting, Step, Answer
<1>2. PICK code \in Codes \ {"none"} :
        /\ Answer(u, code)
        /\ code \notin {"201", "500"} => pc[u] \in {"reading", "converted", "scan"}
        /\ code = "201" => pc[u] = "quit"
  BY <1>1 DEF Read, ConversionFailed, QuotaExceeded, ScanAudio, LmtpFails,
      LmtpDone, ScanDone, Codes, Step, uploadVars
<1>3. StoreTypes'
  BY <1>1 DEF StoreTypes, Cleanups
<1> QED
  BY <1>1, <1>2, <1>3, AnswerKeeps
  DEF Progress, Contents, Aging, Running, Waiting, Segment

\* A failed write leaves a partial file, but never a message.
LEMMA DiskErrorStep ==
    ASSUME RecordingInv, NEW u \in Uploads, DiskError(u)
    PROVE  RecordingInv'
<1> USE RecordingNumbers DEF RecordingInv, HandlerTypes, Uploads
<1>1. Answer(u, "500") /\ UNCHANGED <<mail, retention>> /\ Running(u) /\ loop = u
  BY DEF DiskError, LoopHeld, Segment, Running
<1>2. \/ note' = note
      \/ \E written \in Nat :
           note' = [note EXCEPT ![u] = [@ EXCEPT !.audio = written, !.mtime = now]]
  <2>1. CASE pc[u] # "audio"
    BY <2>1 DEF DiskError
  <2>2. CASE pc[u] = "audio"
    <3>1. PICK written \in 0 .. size[u] :
            note' = [note EXCEPT ![u].audio = written, ![u].mtime = now]
      BY <2>2 DEF DiskError
    <3>2. written \in Nat
      OBVIOUS
    <3> QED
      BY <3>1, <3>2
  <2> QED
    BY <2>1, <2>2
<1>3. note' \in [Uploads -> NoteRecords] /\ \A n \in Uploads \ {u} : note'[n] = note[n]
  <2>1. ASSUME NEW written \in Nat
        PROVE  [note[u] EXCEPT !.audio = written, !.mtime = now] \in NoteRecords
    <3>1. note[u] \in NoteRecords /\ now \in Nat
      BY DEF StoreTypes, Cleanups, AdmissionTypeOK
    <3> QED
      BY <3>1 DEF NoteRecords
  <2>2. note \in [Uploads -> NoteRecords]
    BY DEF StoreTypes
  <2>3. CASE note' = note
    BY <2>2, <2>3
  <2>4. ASSUME NEW written \in Nat,
               note' = [note EXCEPT ![u] = [@ EXCEPT !.audio = written, !.mtime = now]]
        PROVE  /\ note' \in [Uploads -> NoteRecords]
               /\ \A n \in Uploads \ {u} : note'[n] = note[n]
    <3> DEFINE partial == [note[u] EXCEPT !.audio = written, !.mtime = now]
    <3>1. partial \in NoteRecords
      BY <2>1
    <3>2. note' = [note EXCEPT ![u] = partial]
      BY <2>2, <2>4
    <3> HIDE DEF partial
    <3> QED
      BY <2>2, <3>1, <3>2
  <2> QED
    BY <1>2, <2>3, <2>4
<1>5. StoreTypes'
  BY <1>1, <1>3 DEF StoreTypes, Cleanups
<1>6. note'[u].meta => note'[u].dir = "present"
  <2>1. note[u].dir = "present" \/ ~note[u].meta
    BY DEF Contents
  <2>2. note[u] \in NoteRecords
    BY DEF StoreTypes, Cleanups
  <2>3. ASSUME NEW written \in Nat,
               note' = [note EXCEPT ![u] = [@ EXCEPT !.audio = written, !.mtime = now]]
        PROVE  note'[u].dir = note[u].dir /\ note'[u].meta = note[u].meta
    BY <2>2, <2>3 DEF StoreTypes, Cleanups, NoteRecords
  <2>4. CASE note' = note
    BY <2>1, <2>4
  <2>5. CASE \E written \in Nat :
          note' = [note EXCEPT ![u] = [@ EXCEPT !.audio = written, !.mtime = now]]
    BY <2>1, <2>3, <2>5
  <2> QED
    BY <1>2, <2>4, <2>5
<1>4. mail[u] # "delivered"
  BY DEF DiskError, Progress
<1>7. note'[u].dir = "present" => /\ note'[u].created <= note'[u].mtime
                                 /\ note'[u].mtime <= now
  <2>1. note \in [Uploads -> NoteRecords] /\ now \in Nat
    BY DEF StoreTypes, AdmissionTypeOK
  <2>2. ASSUME NEW written \in Nat,
               note' = [note EXCEPT ![u] = [@ EXCEPT !.audio = written, !.mtime = now]]
        PROVE  /\ note'[u].created = note[u].created
               /\ note'[u].mtime = now /\ note'[u].dir = note[u].dir
    BY <2>1, <2>2 DEF NoteRecords
  <2>3. note[u].dir = "present" => note[u].created <= now
    BY <2>1 DEF Aging, NoteRecords
  <2>4. CASE note' = note
    BY <2>4 DEF Aging
  <2>5. ASSUME NEW written \in Nat,
               note' = [note EXCEPT ![u] = [@ EXCEPT !.audio = written, !.mtime = now]]
        PROVE  note'[u].dir = "present" => /\ note'[u].created <= note'[u].mtime
                                           /\ note'[u].mtime <= now
    <3>1. /\ note'[u].created = note[u].created
          /\ note'[u].mtime = now /\ note'[u].dir = note[u].dir
      BY <2>2, <2>5
    <3> QED
      BY <2>1, <2>3, <3>1
  <2> QED
    BY <1>2, <2>4, <2>5
<1> QED
  BY <1>1, <1>3, <1>4, <1>5, <1>6, <1>7, AnswerKeeps DEF Codes

-----------------------------------------------------------------------------
(* Steps of the retention thread, the clock and a crash.                   *)

\* The thread is started while the loop is free.
LEMMA CleanupBegins ==
    ASSUME RecordingInv, RetentionStart
    PROVE  RecordingInv'
<1> USE DEF RecordingInv, RetentionStart
<1>1. now \in Nat /\ now < now + RetentionSeconds
  BY RecordingNumbers DEF AdmissionTypeOK
<1>2. retention' \in Cleanups
  BY <1>1 DEF StoreTypes, Cleanups
<1>3. AdmissionTypeOK' /\ HandlerTypes' /\ StoreTypes'
  BY <1>2 DEF AdmissionTypeOK, HandlerTypes, StoreTypes, Cleanups,
              admissionVars, uploadVars, loopVars, storeVars
<1>4. LoopHeld' /\ Slots' /\ Progress' /\ Replies' /\ Contents'
  BY DEF LoopHeld, Slots, Running, Progress, Replies, Contents, admissionVars,
         uploadVars, loopVars, storeVars, WithinRetention
<1>5. Apart'
  BY <1>1 DEF Apart, Cutting, StoreTypes, Cleanups, admissionVars, uploadVars,
              loopVars, storeVars
<1>6. Aging'
  BY DEF Aging, Cutting, WithinRetention, StoreTypes, Cleanups, admissionVars,
         storeVars
<1> QED
  BY <1>3, <1>4, <1>5, <1>6

\* Whoever writes by now began after the thread, within the retention time.
LEMMA CleanupReadsClock ==
    ASSUME RecordingInv, RetentionCutoff
    PROVE  RecordingInv'
<1> USE DEF RecordingInv, RetentionCutoff
<1>1. /\ now \in Nat /\ RetentionSeconds \in Nat \ {0}
      /\ now - RetentionSeconds \in Int /\ retention.began \in Nat
      /\ now - RetentionSeconds < retention.began
  BY RecordingNumbers DEF AdmissionTypeOK, Apart, Cutting, StoreTypes, Cleanups
<1>2. retention' \in Cleanups /\ retention'.cutoff = now - RetentionSeconds
  BY <1>1 DEF StoreTypes, Cleanups
<1>3. AdmissionTypeOK' /\ HandlerTypes' /\ StoreTypes'
  BY <1>2 DEF AdmissionTypeOK, HandlerTypes, StoreTypes, Cleanups,
              admissionVars, uploadVars, loopVars, storeVars
<1>4. LoopHeld' /\ Slots' /\ Progress' /\ Replies' /\ Contents'
  BY DEF LoopHeld, Slots, Running, Progress, Replies, Contents, admissionVars,
         uploadVars, loopVars, storeVars, WithinRetention
<1>5. loop # NoUpload => now - RetentionSeconds < created
  BY <1>1 DEF Apart, Cutting, HandlerTypes
<1>6. Apart'
  BY <1>1, <1>2, <1>5
     DEF Apart, Cutting, NoteTime, StoreTypes, Cleanups, admissionVars,
         uploadVars, loopVars, storeVars
<1>7. Aging'
  BY <1>1, <1>2 DEF Aging, Cutting, WithinRetention, StoreTypes, Cleanups,
                    admissionVars, storeVars
<1> QED
  BY <1>3, <1>4, <1>6, <1>7

\* The notes found expired are not those of the handler that writes.
LEMMA CleanupLists ==
    ASSUME RecordingInv, RetentionList
    PROVE  RecordingInv'
<1> USE DEF RecordingInv
<1>1. /\ UNCHANGED <<admissionVars, uploadVars, loopVars, storeVars>>
      /\ retention.pc = "listing"
  BY DEF RetentionList
<1>2. \A n \in Expired :
        /\ n \in Requests /\ n \in Uploads /\ note[n].dir = "present"
        /\ pc[n] \in {"answered", "lost"}
  <2> SUFFICES ASSUME NEW n \in Expired
               PROVE  pc[n] \in {"answered", "lost"}
    BY DEF Expired, Uploads
  <2>1. n \in Uploads /\ note[n].dir = "present" /\ NoteTime(n) <= retention.cutoff
    BY DEF Expired, Uploads
  <2>2. pc[n] \notin Segment
    <3> SUFFICES ASSUME loop = n PROVE FALSE
      BY <2>1 DEF LoopHeld
    <3>1. retention.cutoff < created /\ created <= NoteTime(n)
      BY <1>1, <2>1, UploadsDisjoint DEF Apart, Cutting, Uploads
    <3>2. NoteTime(n) \in Int /\ retention.cutoff \in Int /\ created \in Int
      BY <2>1 DEF NoteTime, HandlerTypes, StoreTypes, Cleanups, NoteRecords
    <3> QED
      BY <2>1, <3>1, <3>2
  <2>3. pc[n] \notin {"arrived"} \cup Waiting
    BY <2>1 DEF Progress, NoNote
  <2> QED
    BY <2>1, <2>2, <2>3 DEF HandlerTypes
<1>3. \A n \in Expired : ~WithinRetention(n)
  <2> SUFFICES ASSUME NEW n \in Expired PROVE ~WithinRetention(n)
    OBVIOUS
  <2>1. /\ n \in Requests /\ n \in Uploads /\ note[n].dir = "present"
        /\ NoteTime(n) <= retention.cutoff
    BY <1>2 DEF Expired
  <2>2. /\ note[n].created \in Int /\ note[n].mtime \in Int
        /\ retention.cutoff \in Int /\ now \in Int /\ RetentionSeconds \in Int
    BY <2>1, RecordingNumbers
    DEF StoreTypes, Cleanups, NoteRecords, AdmissionTypeOK
  <2>3. note[n].created <= note[n].mtime
    BY <2>1 DEF Aging
  <2>4. note[n].created <= retention.cutoff
    BY <2>1, <2>2, <2>3 DEF NoteTime
  <2>5. retention.cutoff + RetentionSeconds <= now
    BY <1>1 DEF Aging, Cutting
  <2> QED
    BY <2>1, <2>2, <2>4, <2>5 DEF WithinRetention, Guest
<1>4. /\ retention' \in Cleanups /\ retention'.left \subseteq Expired
      /\ retention'.inspect \subseteq retention'.left
      /\ retention'.pc # "walking" => retention'.inspect = {}
      /\ retention'.pc # "started"
      /\ (Cutting' => Cutting /\ retention'.cutoff = retention.cutoff)
  <2>1. CASE Expired = {}
    BY <2>1 DEF RetentionList, NoCleanup, Cleanups, Cutting
  <2>2. CASE Expired # {}
    <3>1. Expired \in SUBSET Requests
      BY <1>2
    <3> QED
      BY <1>1, <2>2, <3>1 DEF RetentionList, StoreTypes, Cleanups, Cutting
  <2> QED
    BY <2>1, <2>2
<1>5. AdmissionTypeOK' /\ HandlerTypes' /\ StoreTypes'
  BY <1>1, <1>4 DEF AdmissionTypeOK, HandlerTypes, StoreTypes, admissionVars,
                    uploadVars, loopVars, storeVars
<1>6. LoopHeld' /\ Slots' /\ Progress' /\ Replies' /\ Contents'
  BY <1>1 DEF LoopHeld, Slots, Running, Progress, Replies, Contents,
              WithinRetention, admissionVars, uploadVars, loopVars, storeVars
<1>7. Apart'
  BY <1>1, <1>2, <1>4
     DEF Apart, Cutting, NoteTime, uploadVars, loopVars, admissionVars, storeVars
<1>8. Aging'
  BY <1>1, <1>3, <1>4
     DEF Aging, WithinRetention, admissionVars, storeVars
<1> QED
  BY <1>5, <1>6, <1>7, <1>8

\* A message goes, or stays behind: its note has expired.
LEMMA CleanupInspects ==
    ASSUME RecordingInv, NEW n \in Requests, RetentionInspect(n)
    PROVE  RecordingInv'
<1> USE DEF RecordingInv, RetentionInspect
<1>1. /\ UNCHANGED <<admissionVars, uploadVars, loopVars, note>>
      /\ n \in retention.left /\ n \in Uploads
      /\ pc[n] \in {"answered", "lost"} /\ ~WithinRetention(n)
      /\ note[n].dir = "present"
  BY DEF Apart, Aging, Uploads
<1>2. /\ mail' \in [Uploads -> {"none", "delivered", "removed"}]
      /\ \A u \in Uploads : mail'[u] = mail[u] \/ u = n
      /\ mail'[n] = mail[n] \/ mail[n] = "delivered"
  BY DEF StoreTypes
<1>3. /\ retention' \in Cleanups
      /\ retention'.left = retention.left
      /\ retention'.inspect \subseteq retention.inspect
      /\ retention'.pc # "walking" => retention'.inspect = {}
      /\ retention'.pc # "started" /\ Cutting
      /\ retention'.cutoff = retention.cutoff
  BY DEF StoreTypes, Cleanups, Cutting
<1>4. AdmissionTypeOK' /\ HandlerTypes' /\ StoreTypes'
  BY <1>1, <1>2, <1>3 DEF AdmissionTypeOK, HandlerTypes, StoreTypes,
                          admissionVars, uploadVars, loopVars
<1>5. LoopHeld' /\ Slots'
  BY <1>1 DEF LoopHeld, Slots, Running, admissionVars, uploadVars, loopVars
<1>6. \A u \in Uploads : WithinRetention(u)' <=> WithinRetention(u)
  BY <1>1 DEF WithinRetention, admissionVars
<1>7. Progress' /\ Contents'
  BY <1>1, <1>2, <1>6 DEF Progress, Contents, Waiting, Segment, uploadVars
<1>8. Replies'
  BY <1>1, <1>2, <1>6 DEF Replies, NoNote, uploadVars
<1>9. Apart'
  BY <1>1, <1>3
     DEF Apart, Cutting, NoteTime, uploadVars, loopVars, admissionVars
<1>10. Aging'
  BY <1>1, <1>3 DEF Aging, WithinRetention, admissionVars
<1> QED
  BY <1>4, <1>5, <1>7, <1>8, <1>9, <1>10

\* A cleanup that is cut off holds nothing any more.
LEMMA CleanupFails ==
    ASSUME RecordingInv, RetentionFails
    PROVE  RecordingInv'
<1> USE DEF RecordingInv, RetentionFails
<1>1. /\ retention' \in Cleanups
      /\ retention'.left = {} /\ retention'.inspect = {}
      /\ retention'.pc = "idle"
  BY DEF NoCleanup, Cleanups
<1>2. AdmissionTypeOK' /\ HandlerTypes' /\ StoreTypes'
  BY <1>1 DEF AdmissionTypeOK, HandlerTypes, StoreTypes, admissionVars,
              uploadVars, loopVars, storeVars
<1>3. LoopHeld' /\ Slots' /\ Progress' /\ Replies' /\ Contents'
  BY DEF LoopHeld, Slots, Running, Progress, Replies, Contents, WithinRetention,
         admissionVars, uploadVars, loopVars, storeVars
<1>4. Apart' /\ Aging'
  BY <1>1 DEF Apart, Aging, Cutting, NoteTime, WithinRetention, admissionVars,
              uploadVars, loopVars, storeVars
<1> QED
  BY <1>2, <1>3, <1>4

\* A file or a directory goes that has expired and whose handler has ended.
LEMMA CleanupRemoves ==
    ASSUME RecordingInv, NEW n \in Requests,
           RetentionUnlink(n) \/ RetentionRemoveDirectory(n)
    PROVE  RecordingInv'
<1> USE DEF RecordingInv
<1>1. /\ UNCHANGED <<admissionVars, uploadVars, loopVars, mail>>
      /\ n \in retention.left /\ n \in Uploads
      /\ pc[n] \in {"answered", "lost"} /\ ~WithinRetention(n)
      /\ note[n].dir = "present"
  BY DEF RetentionUnlink, RetentionRemoveDirectory, Apart, Aging, Uploads
<1>2. /\ note[n] \in NoteRecords /\ now \in Nat
      /\ note[n].created <= note[n].mtime /\ note[n].mtime <= now
  BY <1>1 DEF StoreTypes, AdmissionTypeOK, Aging
<1>12. note[n].created \in Nat /\ note[n].created <= now
  <2>1. note[n].created \in Nat /\ note[n].mtime \in Nat
    BY <1>2 DEF NoteRecords
  <2> QED
    BY <1>2, <2>1
<1>3. PICK r \in NoteRecords :
        /\ note' = [note EXCEPT ![n] = r]
        /\ r.dir = "present" \/ ~r.meta
        /\ r.dir = "present" \/ n \notin retention'.left
        /\ r.dir = "present" => r.created <= r.mtime /\ r.mtime <= now
        /\ r.created = note[n].created
  <2>1. CASE RetentionUnlink(n)
    <3> DEFINE r1 == [note[n] EXCEPT !.audio = 0, !.mtime = now]
    <3> DEFINE r2 == [note[n] EXCEPT !.meta = FALSE, !.mtime = now]
    <3>1. /\ r1 \in NoteRecords /\ r1.dir = "present"
          /\ r1.created = note[n].created
          /\ r1.mtime = now
      BY <1>1, <1>2 DEF NoteRecords
    <3>2. /\ r2 \in NoteRecords /\ r2.dir = "present"
          /\ r2.created = note[n].created
          /\ r2.mtime = now
      BY <1>1, <1>2 DEF NoteRecords
    <3>3. note' = [note EXCEPT ![n] = r1] \/ note' = [note EXCEPT ![n] = r2]
      BY <2>1 DEF RetentionUnlink, StoreTypes, Cleanups
    <3> HIDE DEF r1, r2
    <3>5. /\ r1.created <= r1.mtime /\ r1.mtime <= now
          /\ r2.created <= r2.mtime /\ r2.mtime <= now
      BY <1>2, <1>12, <3>1, <3>2
    <3> QED
      BY <3>1, <3>2, <3>3, <3>5, Zenon
  <2>2. CASE RetentionRemoveDirectory(n)
    <3> DEFINE gone == [note[n] EXCEPT !.dir = "removed", !.mtime = 0]
    <3>1. /\ gone \in NoteRecords /\ ~gone.meta /\ gone.dir = "removed"
          /\ gone.created = note[n].created
      BY <1>2, <2>2 DEF RetentionRemoveDirectory, NoteRecords
    <3>2. note' = [note EXCEPT ![n] = gone] /\ n \notin retention'.left
      BY <2>2 DEF RetentionRemoveDirectory, NoCleanup, StoreTypes, Cleanups
    <3> HIDE DEF gone
    <3> QED
      BY <3>1, <3>2, Zenon
  <2> QED
    BY <2>1, <2>2
<1>4. retention' \in Cleanups /\ retention'.left \subseteq retention.left
      /\ retention'.pc # "started"
      /\ (Cutting' => Cutting /\ retention'.cutoff = retention.cutoff)
  BY DEF RetentionUnlink, RetentionRemoveDirectory, StoreTypes, Cleanups,
         NoCleanup, Cutting
<1>5. AdmissionTypeOK' /\ HandlerTypes' /\ StoreTypes'
  BY <1>1, <1>3, <1>4 DEF AdmissionTypeOK, HandlerTypes, StoreTypes, Cleanups,
                          admissionVars, uploadVars, loopVars
<1>6. LoopHeld' /\ Slots'
  BY <1>1 DEF LoopHeld, Slots, Running, admissionVars, uploadVars, loopVars
<1>10. \A u \in Uploads : WithinRetention(u)' <=> WithinRetention(u)
  BY <1>1, <1>3 DEF WithinRetention, admissionVars, StoreTypes
<1>7. Progress' /\ Contents'
  BY <1>1, <1>3, <1>10 DEF Progress, Contents, Waiting, Segment, uploadVars,
      StoreTypes
<1>8. Replies'
  <2>1. note[n] # NoNote
    BY <1>1 DEF NoNote
  <2> QED
    BY <1>1, <1>3, <1>10, <2>1 DEF Replies, uploadVars, StoreTypes
<1>9. Apart'
  <2>1. loop # n
    BY <1>1 DEF LoopHeld, Segment
  <2> QED
    BY <1>1, <1>3, <1>4, <2>1
       DEF Apart, Cutting, NoteTime, uploadVars, loopVars, admissionVars,
           StoreTypes,
           Cleanups, HandlerTypes
<1>11. Aging'
  <2>1. retention'.inspect = {}
    BY DEF RetentionUnlink, RetentionRemoveDirectory, NoCleanup, StoreTypes,
           Cleanups, Aging, Apart
  <2> QED
    BY <1>1, <1>3, <1>4, <1>10, <2>1
       DEF Aging, admissionVars, StoreTypes, Cleanups, Uploads
<1> QED
  BY <1>5, <1>6, <1>7, <1>8, <1>9, <1>11

\* Notes and cutoffs are in the past already.
LEMMA TimePasses ==
    ASSUME RecordingInv, ClockTick
    PROVE  RecordingInv'
<1> USE DEF RecordingInv, ClockTick, Tick
<1>1. now \in Nat /\ now' = now + 1 /\ RetentionSeconds \in Nat
  BY RecordingNumbers DEF AdmissionTypeOK
<1>2. \A u \in Uploads : note[u].created \in Nat /\ note[u].mtime \in Nat
  BY DEF StoreTypes, NoteRecords
<1>3. \A u \in Uploads : WithinRetention(u)' => WithinRetention(u)
  BY <1>1, <1>2 DEF WithinRetention, storeVars
<1>4. AdmissionTypeOK' /\ HandlerTypes' /\ StoreTypes'
  BY DEF AdmissionTypeOK, HandlerTypes, StoreTypes, Cleanups, uploadVars,
         loopVars, storeVars
<1>5. LoopHeld' /\ Slots' /\ Progress' /\ Replies' /\ Contents'
  BY <1>3 DEF LoopHeld, Slots, Running, Progress, Replies, Contents,
              uploadVars, loopVars, storeVars
<1>6. Apart'
  BY DEF Apart, Cutting, NoteTime, AdmissionTypeOK, HandlerTypes, StoreTypes,
         Cleanups, uploadVars, loopVars, storeVars
<1>7. Aging'
  <2>1. retention.left \subseteq Uploads /\ retention.cutoff \in Int
    BY DEF StoreTypes, Cleanups, Uploads
  <2> QED
    BY <1>1, <1>2, <1>3, <2>1 DEF Aging, Cutting, storeVars
<1> QED
  BY <1>4, <1>5, <1>6, <1>7

\* Handlers, slots and cleanup go together; disk and mailbox stay.
LEMMA ProcessDies ==
    ASSUME RecordingInv, Crash
    PROVE  RecordingInv'
<1> USE UploadsDisjoint DEF RecordingInv, Crash, Restart
<1>1. AdmissionTypeOK'
  BY DEF AdmissionTypeOK, Phases
<1>2. HandlerTypes' /\ StoreTypes'
  BY DEF HandlerTypes, StoreTypes, Cleanups, storeVars, NoCleanup
<1>3. LoopHeld'
  BY DEF LoopHeld, Running, Uploads, Waiting, Segment, HandlerTypes
<1>4. Slots'
  BY DEF Slots, Running, Waiting, Segment, Admitted, Uploads, AdmissionTypeOK,
      HandlerTypes
<1>5. Progress' /\ Replies' /\ Contents'
  BY DEF Progress, Replies, Contents, Running, Waiting, Segment, HandlerTypes,
      storeVars, WithinRetention
<1>6. Apart' /\ Aging'
  BY DEF Apart, Aging, Cutting, AdmissionTypeOK, NoCleanup, storeVars
<1> QED
  BY <1>1, <1>2, <1>3, <1>4, <1>5, <1>6

\* RecordingInv is inductive.
LEMMA RecordingStep == RecordingInv /\ [Next]_vars => RecordingInv'
<1> SUFFICES ASSUME RecordingInv, [Next]_vars PROVE RecordingInv'
  OBVIOUS
<1>1. ASSUME NEW u \in Uploads, Handler(u) PROVE RecordingInv'
  BY <1>1, BeforeTheLoop, CheckingTheQuota, Storing, HandlerAnswers,
      DiskErrorStep
     DEF Handler
<1>2. CASE Retention
  BY <1>2, CleanupBegins, CleanupReadsClock, CleanupLists, CleanupInspects,
     CleanupRemoves, CleanupFails
     DEF Retention
<1>3. CASE UNCHANGED vars
  BY <1>3 DEF vars, RecordingInv, AdmissionTypeOK, HandlerTypes, StoreTypes,
      Cleanups, LoopHeld,
       Slots, Running, Progress, Replies, Contents, Apart, Cutting, NoteTime,
       Aging, WithinRetention, admissionVars,
       uploadVars, loopVars, storeVars
<1> QED
  BY <1>1, <1>2, <1>3, TimePasses, ProcessDies DEF Next

-----------------------------------------------------------------------------
\* Type correctness of the pipeline, and the invariant that carries it.
THEOREM RecordingInvariant == Spec => []RecordingInv
<1> QED
  BY RecordingInitial, RecordingStep, PTL DEF Spec

\* A guest slot is held exactly by the handlers that run.
THEOREM SlotsAlwaysMatchHandlers == Spec => []SlotsMatchHandlers
<1>1. RecordingInv => SlotsMatchHandlers
  BY DEF RecordingInv, Slots, SlotsMatchHandlers, InFlight
<1> QED
  BY <1>1, RecordingInvariant, PTL

\* What a 4xx or a 503 refused has left nothing behind.
THEOREM RejectedAlwaysClean == Spec => []RejectedLeavesNothing
<1>1. RecordingInv => RejectedLeavesNothing
  BY DEF RecordingInv, Replies, RejectedLeavesNothing, NoNote
<1> QED
  BY <1>1, RecordingInvariant, PTL

\* 201 is a promise: note and message are there, a guest's for the retention
\* time, whatever a cleanup is removing beside it.
THEOREM AcknowledgedAlwaysDelivered == Spec => []AcknowledgedIsDelivered
<1>1. RecordingInv => AcknowledgedIsDelivered
  BY DEF RecordingInv, Replies, AcknowledgedIsDelivered
<1> QED
  BY <1>1, RecordingInvariant, PTL

\* No message without the note by which retention will find it, as long as
\* that note has not expired.
THEOREM MessageAlwaysHasNote == Spec => []MessageHasNote
<1>1. RecordingInv => MessageHasNote
  BY DEF RecordingInv, Contents, MessageHasNote
<1> QED
  BY <1>1, RecordingInvariant, PTL

(***************************************************************************)
(* The pipeline uses the limiter only as GuestAdmission allows: a slot is  *)
(* given back once, by the handler that has it, on every path.             *)
(***************************************************************************)
THEOREM RecordingUsesAdmission == Spec => AdmissionSpec
<1>1. Init => AdmissionInit
  BY DEF Init
<1>2. [Next]_vars => [AdmissionNext]_admissionVars
  BY DEF Next, Handler, Retention, vars, AdmissionNext, StartOrdinary,
      StartGuest,
         RefuseGuest, RejectAtOnce, Read, Convert, ConversionFailed,
         EnforceQuota,
         ScanNote, ScanAudio, QuotaExceeded, WithinQuota, DiskError,
         MakeDirectory,
         WriteAudio, WriteMetadata, LmtpAccepts, LmtpFails, LmtpDone,
         RetentionStart, RetentionCutoff,
         RetentionList, RetentionInspect, RetentionUnlink,
         RetentionRemoveDirectory, RetentionFails, ClockTick,
         Crash,
         Answer, Guest
<1> QED
  BY <1>1, <1>2, PTL DEF Spec, AdmissionSpec

\* So the rolling windows and the concurrency limit hold for real uploads.
THEOREM UploadsKeepGuestLimits == Spec => [](RollingWindow /\ ConcurrencyBounded)
<1> QED
  BY RecordingUsesAdmission, AdmissionKeepsLimits, PTL

-----------------------------------------------------------------------------
(***************************************************************************)
(* The daily quota.  The handler that scans has counted what it has left   *)
(* behind: retention may take notes away meanwhile, but nobody adds one.   *)
(* From the check to the write there is therefore room for one note.       *)
(***************************************************************************)

\* The notes, among those of nt, that user u made on day d.
DayNotes(nt, u, d) == {n \in OwnedWith(u) : nt[n].meta /\ Day(nt[n].created) = d}

Scans == [left : SUBSET Uploads, found : Uploads \cup {NoUpload}, count : Nat,
          bytes : Nat]

Counted ==
    /\ \A u \in Uploads :
         /\ pc[u] = "scan" =>
              Cardinality(DayNotes(note, u, Day(created)) \ scan.left) <= scan.count
         /\ pc[u] \in {"mkdir", "audio", "metadata"} =>
              Cardinality(DayNotes(note, u, Day(created))) < NoteLimit(u)

QuotaInv ==
    /\ scan \in Scans
    /\ Counted
    /\ \A u \in Uploads : \A d : Cardinality(DayNotes(note, u, d)) <= NoteLimit(u)

\* The daily limit of a user is a number.
LEMMA NoteLimitIsNat == \A u \in Uploads : NoteLimit(u) \in Nat
BY RecordingNumbers DEF NoteLimit, Factor

\* A subset of a user's notes of a day is finite, and no larger than it.
LEMMA DayNotesSubset ==
    ASSUME NEW u \in Uploads, NEW S \in SUBSET OwnedWith(u), NEW T \in SUBSET S
    PROVE  /\ IsFiniteSet(S)
           /\ Cardinality(S) \in Nat /\ Cardinality(T) \in Nat
           /\ Cardinality(T) <= Cardinality(S)
<1>1. IsFiniteSet(OwnedWith(u))
  BY RequestsFinite, OrdinaryFinite DEF OwnedWith
<1>2. IsFiniteSet(S)
  BY <1>1, FS_Subset
<1>3. IsFiniteSet(T) /\ Cardinality(T) <= Cardinality(S)
  BY <1>2, FS_Subset
<1> QED
  BY <1>2, <1>3, FS_CardinalityType

\* The local variables of the scan keep their types.
LEMMA ScanTyped ==
    RecordingInv /\ scan \in Scans /\ [Next]_vars => scan' \in Scans
<1> SUFFICES ASSUME RecordingInv, scan \in Scans, [Next]_vars PROVE scan' \in Scans
  OBVIOUS
<1>1. NoScan \in Scans
  BY DEF NoScan, Scans
<1>2. ASSUME NEW u \in Uploads, EnforceQuota(u) PROVE scan' \in Scans
  <2>1. Stored(u) \in SUBSET Uploads
    BY DEF Stored, OwnedWith, Uploads
  <2> QED
    BY <1>2, <2>1 DEF EnforceQuota, NoScan, Scans
<1>3. ASSUME NEW u \in Uploads, NEW n \in OwnedWith(u), ScanNote(u, n)
      PROVE  scan' \in Scans
  <2>1. PICK f \in Uploads \cup {NoUpload}, k \in {0, 1} :
          scan' = [scan EXCEPT !.left = @ \ {n}, !.found = f, !.count = @ + k]
    BY <1>3 DEF ScanNote, OwnedWith, Uploads
  <2>2. scan.left \ {n} \in SUBSET Uploads /\ scan.count + k \in Nat /\ scan.bytes \in Nat
    BY DEF Scans
  <2>3. scan' = [left |-> scan.left \ {n}, found |-> f, count |-> scan.count + k,
                 bytes |-> scan.bytes]
    BY <2>1 DEF Scans
  <2> QED
    BY <2>2, <2>3 DEF Scans
<1>4. ASSUME NEW u \in Uploads, ScanAudio(u) PROVE scan' \in Scans
  <2>1. scan.found \in Uploads
    BY <1>4 DEF ScanAudio, Scans
  <2>2. note[scan.found].audio \in Nat
    BY <2>1 DEF RecordingInv, StoreTypes, Cleanups, NoteRecords
  <2>3. \/ scan' = NoScan
        \/ scan' = [scan EXCEPT !.found = NoUpload,
                                !.bytes = @ + note[scan.found].audio]
    BY <1>4 DEF ScanAudio, Answer, LocalsEnd
  <2> DEFINE size1 == note[scan.found].audio
  <2>4. size1 \in Nat
    BY <2>2
  <2> HIDE DEF size1
  <2>5. [scan EXCEPT !.found = NoUpload, !.bytes = @ + size1] \in Scans
    <3>1. scan.bytes + size1 \in Nat
      BY <2>4 DEF Scans
    <3> QED
      BY <3>1 DEF Scans
  <2> QED
    BY <1>1, <2>3, <2>5 DEF size1
<1>5. CASE \/ scan' = NoScan
           \/ scan' = scan
  BY <1>1, <1>5
<1> QED
  BY <1>2, <1>3, <1>4, <1>5
     DEF Next, Handler, Retention, vars, loopVars, StartOrdinary, StartGuest,
         RefuseGuest, RejectAtOnce, Read, Convert, ConversionFailed,
         QuotaExceeded, WithinQuota, DiskError, MakeDirectory,
         WriteAudio, WriteMetadata, LmtpAccepts, LmtpFails, LmtpDone,
         RetentionStart, RetentionCutoff,
         RetentionList, RetentionInspect, RetentionUnlink,
         RetentionRemoveDirectory, RetentionFails, ClockTick,
         Crash,
         Answer, LocalsEnd

\* Steps that write no metadata: notes only go, and a scan is as it was.
LEMMA NotesOnlyGo ==
    ASSUME RecordingInv, QuotaInv,
           \A n \in Uploads : note'[n].meta =>
               note[n].meta /\ note'[n].created = note[n].created,
           scan' \in Scans,
           \A u \in Uploads :
               /\ pc'[u] \in {"scan", "mkdir", "audio", "metadata"} =>
                      created' = created
               /\ pc'[u] = "scan" => /\ pc[u] = "scan"
                                     /\ scan'.left = scan.left
                                     /\ scan'.count = scan.count
               /\ pc'[u] \in {"mkdir", "audio", "metadata"} =>
                      pc[u] \in {"mkdir", "audio", "metadata"}
    PROVE  QuotaInv'
<1>1. ASSUME NEW u \in Uploads, NEW d
      PROVE  /\ DayNotes(note', u, d) \subseteq DayNotes(note, u, d)
             /\ DayNotes(note, u, d) \subseteq OwnedWith(u)
  BY DEF DayNotes, OwnedWith, Uploads
<1>2. ASSUME NEW u \in Uploads, NEW d
      PROVE  /\ Cardinality(DayNotes(note', u, d)) \in Nat
             /\ Cardinality(DayNotes(note, u, d)) \in Nat
             /\ Cardinality(DayNotes(note', u, d)) <= Cardinality(DayNotes(note, u, d))
             /\ Cardinality(DayNotes(note', u, d) \ scan.left) \in Nat
             /\ Cardinality(DayNotes(note, u, d) \ scan.left) \in Nat
             /\ Cardinality(DayNotes(note', u, d) \ scan.left)
                  <= Cardinality(DayNotes(note, u, d) \ scan.left)
  <2>1. /\ DayNotes(note', u, d) \in SUBSET DayNotes(note, u, d)
        /\ DayNotes(note, u, d) \in SUBSET OwnedWith(u)
        /\ DayNotes(note', u, d) \ scan.left \in SUBSET (DayNotes(note, u, d) \ scan.left)
        /\ DayNotes(note, u, d) \ scan.left \in SUBSET OwnedWith(u)
    BY <1>1
  <2> QED
    BY <2>1, DayNotesSubset
<1>3. \A u \in Uploads : \A d : Cardinality(DayNotes(note', u, d)) <= NoteLimit(u)
  <2> SUFFICES ASSUME NEW u \in Uploads, NEW d
               PROVE  Cardinality(DayNotes(note', u, d)) <= NoteLimit(u)
    OBVIOUS
  <2>1. Cardinality(DayNotes(note, u, d)) <= NoteLimit(u) /\ NoteLimit(u) \in Nat
    BY NoteLimitIsNat DEF QuotaInv
  <2>2. /\ Cardinality(DayNotes(note', u, d)) <= Cardinality(DayNotes(note, u, d))
        /\ Cardinality(DayNotes(note', u, d)) \in Nat
        /\ Cardinality(DayNotes(note, u, d)) \in Nat
    BY <1>2, Zenon
  <2> QED
    BY <2>1, <2>2
<1>4. ASSUME NEW u \in Uploads, pc'[u] = "scan"
      PROVE  Cardinality(DayNotes(note', u, Day(created')) \ scan'.left) <= scan'.count
  <2>1. /\ created' = created /\ pc[u] = "scan"
        /\ scan'.left = scan.left /\ scan'.count = scan.count
    BY <1>4
  <2>2. Cardinality(DayNotes(note, u, Day(created)) \ scan.left) <= scan.count
    BY <2>1 DEF QuotaInv, Counted
  <2>3. scan.count \in Nat
    BY DEF QuotaInv, Scans
  <2> QED
    BY <2>1, <2>2, <2>3, <1>2
<1>5. ASSUME NEW u \in Uploads, pc'[u] \in {"mkdir", "audio", "metadata"}
      PROVE  Cardinality(DayNotes(note', u, Day(created'))) < NoteLimit(u)
  <2>1. created' = created /\ Cardinality(DayNotes(note, u, Day(created))) < NoteLimit(u)
    BY <1>5 DEF QuotaInv, Counted
  <2>2. NoteLimit(u) \in Nat
    BY NoteLimitIsNat
  <2> DEFINE d == Day(created)
  <2>3. /\ Cardinality(DayNotes(note', u, d)) <= Cardinality(DayNotes(note, u, d))
        /\ Cardinality(DayNotes(note', u, d)) \in Nat
        /\ Cardinality(DayNotes(note, u, d)) \in Nat
    BY <1>2, Zenon
  <2> QED
    BY <2>1, <2>2, <2>3
<1> QED
  BY <1>3, <1>4, <1>5 DEF QuotaInv, Counted

\* The listing contains every note that has metadata.
LEMMA ScanBegins ==
    ASSUME RecordingInv, QuotaInv, scan' \in Scans, NEW u \in Uploads, EnforceQuota(u)
    PROVE  QuotaInv'
<1>1. /\ pc' = [pc EXCEPT ![u] = "scan"] /\ note' = note /\ created' = now
      /\ scan'.left = Stored(u) /\ scan'.count = 0
  BY DEF EnforceQuota, Step, storeVars, NoScan
<1>2. ASSUME NEW v \in Uploads, v # u
      PROVE  pc'[v] \notin Segment
  BY <1>1, <1>2, UploadsDisjoint
     DEF EnforceQuota, RecordingInv, HandlerTypes, LoopHeld, Uploads
<1>3. DayNotes(note, u, Day(now)) \ Stored(u) = {}
  BY DEF DayNotes, Stored, RecordingInv, Contents, OwnedWith, Uploads
<1>4. Cardinality(DayNotes(note', u, Day(created')) \ scan'.left) <= scan'.count
  BY <1>1, <1>3, FS_EmptySet
<1> QED
  BY <1>1, <1>2, <1>4 DEF QuotaInv, Counted, RecordingInv, HandlerTypes, Segment

\* A note that leaves the list is counted, if it is one of the day.
LEMMA ScanCounts ==
    ASSUME RecordingInv, QuotaInv, scan' \in Scans, NEW u \in Uploads,
           NEW n \in OwnedWith(u), ScanNote(u, n)
    PROVE  QuotaInv'
<1>1. /\ pc' = pc /\ note' = note /\ created' = created /\ pc[u] = "scan"
      /\ scan'.left = scan.left \ {n} /\ n \in scan.left
  BY DEF ScanNote, uploadVars, storeVars, QuotaInv, Scans
<1>2. \A v \in Uploads \ {u} : pc[v] \notin Segment
  BY <1>1, UploadsDisjoint DEF RecordingInv, LoopHeld, Segment, Uploads
<1> DEFINE ours == DayNotes(note, u, Day(created))
           counted == ours \ scan.left
           counted1 == ours \ (scan.left \ {n})
<1>3. /\ Cardinality(counted) <= scan.count
      /\ scan.count \in Nat
  BY <1>1 DEF QuotaInv, Counted, Scans
<1>4. counted \in SUBSET OwnedWith(u) /\ counted1 \in SUBSET OwnedWith(u)
  BY DEF DayNotes
<1>5. /\ IsFiniteSet(counted) /\ Cardinality(counted) \in Nat
      /\ Cardinality(counted1) \in Nat
  BY <1>4, DayNotesSubset
<1>6. CASE n \in ours
  <2>1. scan'.count = scan.count + 1
    BY <1>6 DEF ScanNote, DayNotes, QuotaInv, Scans
  <2>2. counted1 = counted \cup {n} /\ n \notin counted
    BY <1>1, <1>6
  <2>3. Cardinality(counted1) = Cardinality(counted) + 1
    BY <1>5, <2>2, FS_AddElement
  <2>4. Cardinality(counted1) <= scan'.count /\ scan'.count \in Nat
    BY <1>3, <1>5, <2>1, <2>3
  <2> QED
    BY <1>1, <1>2, <2>4 DEF QuotaInv, Counted, Segment
<1>7. CASE n \notin ours
  <2>1. scan'.count = scan.count
    BY <1>3, <1>7 DEF ScanNote, DayNotes, QuotaInv, Scans
  <2>2. counted1 = counted
    BY <1>7
  <2>3. Cardinality(counted1) <= scan'.count /\ scan'.count \in Nat
    BY <1>3, <2>1, <2>2
  <2> QED
    BY <1>1, <1>2, <2>3 DEF QuotaInv, Counted, Segment
<1> QED
  BY <1>6, <1>7

\* The check has seen everything: there is room for one note of this day.
LEMMA ScanEnds ==
    ASSUME RecordingInv, QuotaInv, scan' \in Scans, NEW u \in Uploads, WithinQuota(u)
    PROVE  QuotaInv'
<1>1. /\ pc[u] = "scan" /\ pc' = [pc EXCEPT ![u] = "mkdir"]
      /\ note' = note /\ created' = created
      /\ scan.left = {} /\ scan'.count = 0 /\ ~(scan.count >= NoteLimit(u))
  BY DEF WithinQuota, ScanDone, OverNotes, Step, storeVars, NoScan
<1>2. \A v \in Uploads \ {u} : pc[v] \notin Segment
  BY <1>1, UploadsDisjoint DEF RecordingInv, LoopHeld, Segment, Uploads
<1> DEFINE ours == DayNotes(note, u, Day(created))
<1>3. Cardinality(ours \ scan.left) <= scan.count /\ scan.count \in Nat
  BY <1>1 DEF QuotaInv, Counted, Scans
<1>4. ours \ scan.left = ours
  BY <1>1
<1>5. Cardinality(ours) \in Nat /\ NoteLimit(u) \in Nat
  BY DayNotesSubset, NoteLimitIsNat DEF DayNotes
<1>6. Cardinality(ours) < NoteLimit(u)
  BY <1>1, <1>3, <1>4, <1>5
<1> QED
  BY <1>1, <1>2, <1>6 DEF QuotaInv, Counted, Segment, RecordingInv, HandlerTypes

\* The one step that adds a note.
LEMMA NoteAdded ==
    ASSUME RecordingInv, QuotaInv, scan' \in Scans, NEW u \in Uploads, WriteMetadata(u)
    PROVE  QuotaInv'
<1>1. /\ pc[u] = "metadata" /\ pc' = [pc EXCEPT ![u] = "lmtp"]
      /\ created' = created /\ scan' = scan
      /\ \A n \in Uploads \ {u} : note'[n] = note[n]
      /\ note'[u].created = created
  BY DEF WriteMetadata, Step, loopVars, RecordingInv, StoreTypes, Cleanups,
      NoteRecords
<1>2. \A v \in Uploads \ {u} : pc[v] \notin Segment
  BY <1>1, UploadsDisjoint DEF RecordingInv, LoopHeld, Segment, Uploads
<1>3. Cardinality(DayNotes(note, u, Day(created))) < NoteLimit(u)
  BY <1>1 DEF QuotaInv, Counted
<1>4. ASSUME NEW v \in Uploads, NEW d
      PROVE  Cardinality(DayNotes(note', v, d)) <= NoteLimit(v)
  <2>1. /\ Cardinality(DayNotes(note, v, d)) <= NoteLimit(v)
        /\ NoteLimit(v) \in Nat
    BY NoteLimitIsNat DEF QuotaInv
  <2>2. /\ DayNotes(note, v, d) \in SUBSET OwnedWith(v)
        /\ DayNotes(note', v, d) \in SUBSET OwnedWith(v)
    BY DEF DayNotes
  <2>3. /\ IsFiniteSet(DayNotes(note, v, d))
        /\ Cardinality(DayNotes(note, v, d)) \in Nat
        /\ Cardinality(DayNotes(note', v, d)) \in Nat
    BY <2>2, DayNotesSubset
  <2>4. CASE u \in OwnedWith(v) /\ d = Day(created)
    <3>1. OwnedWith(v) = OwnedWith(u) /\ NoteLimit(v) = NoteLimit(u)
      BY <2>4, UploadsDisjoint DEF OwnedWith, Guest, Uploads, NoteLimit, Factor
    <3>2. Cardinality(DayNotes(note, v, d)) < NoteLimit(v)
      BY <1>3, <2>4, <3>1 DEF DayNotes
    <3>3. DayNotes(note', v, d) \in SUBSET (DayNotes(note, v, d) \cup {u})
      BY <1>1 DEF DayNotes, OwnedWith, Uploads
    <3>4. Cardinality(DayNotes(note', v, d)) <= Cardinality(DayNotes(note, v, d)) + 1
      BY <2>3, <3>3, CountWithOneMore
    <3> QED
      BY <2>1, <2>3, <3>2, <3>4
  <2>5. CASE ~(u \in OwnedWith(v) /\ d = Day(created))
    <3>1. DayNotes(note', v, d) \in SUBSET DayNotes(note, v, d)
      BY <1>1, <2>5 DEF DayNotes, OwnedWith, Uploads
    <3>2. Cardinality(DayNotes(note', v, d)) <= Cardinality(DayNotes(note, v, d))
      BY <2>2, <3>1, DayNotesSubset
    <3> QED
      BY <2>1, <2>3, <3>2
  <2> QED
    BY <2>4, <2>5
<1> QED
  BY <1>1, <1>2, <1>4 DEF QuotaInv, Counted, Segment, RecordingInv, HandlerTypes

\* Once a handler has answered nobody keeps the loop, so nobody scans or writes.
LEMMA AnswersKeepQuota ==
    ASSUME RecordingInv, RecordingInv', QuotaInv, scan' \in Scans, NEW u \in Uploads,
           \/ Read(u) /\ pc'[u] = "answered"
           \/ ConversionFailed(u) \/ QuotaExceeded(u)
           \/ ScanAudio(u) /\ pc'[u] = "answered"
           \/ LmtpFails(u) \/ LmtpDone(u) \/ DiskError(u)
    PROVE  QuotaInv'
<1>1. \E code : Answer(u, code)
  BY DEF Read, Step, ConversionFailed, QuotaExceeded, ScanAudio, uploadVars,
      LmtpFails,
         LmtpDone, DiskError, RecordingInv, HandlerTypes
<1>2. loop' = NoUpload /\ scan'.count = 0
  BY <1>1 DEF Answer, LocalsEnd, NoScan
<1>3. \A v \in Uploads : pc'[v] \notin Segment
  BY <1>2, UploadsDisjoint DEF RecordingInv, LoopHeld, Uploads
<1>4. \A n \in Uploads : /\ note'[n].meta = note[n].meta
                         /\ note'[n].created = note[n].created
  <2>1. \/ note' = note
        \/ \E written : note' = [note EXCEPT ![u].audio = written, ![u].mtime = now]
    BY DEF Read, ConversionFailed, QuotaExceeded, ScanAudio, storeVars,
        LmtpFails,
           LmtpDone, DiskError
  <2>2. ASSUME NEW written,
               note' = [note EXCEPT ![u].audio = written, ![u].mtime = now]
        PROVE  \A n \in Uploads : /\ note'[n].meta = note[n].meta
                                  /\ note'[n].created = note[n].created
    BY <2>2 DEF RecordingInv, StoreTypes, Cleanups, NoteRecords
  <2> QED
    BY <2>1, <2>2
<1> QED
  BY <1>2, <1>3, <1>4, NotesOnlyGo DEF Segment

\* QuotaInv is inductive relative to RecordingInv.
LEMMA QuotaStep ==
    RecordingInv /\ QuotaInv /\ [Next]_vars => QuotaInv'
<1> SUFFICES ASSUME RecordingInv, QuotaInv, [Next]_vars PROVE QuotaInv'
  OBVIOUS
<1>1. RecordingInv' /\ scan' \in Scans
  BY RecordingStep, ScanTyped DEF QuotaInv
<1>2. ASSUME NEW u \in Uploads,
             \/ StartOrdinary(u) \/ StartGuest(u) \/ RefuseGuest(u) \/ RejectAtOnce(u)
             \/ Convert(u) \/ LmtpAccepts(u)
             \/ Read(u) /\ pc'[u] # "answered"
             \/ ScanAudio(u) /\ pc'[u] # "answered"
      PROVE  QuotaInv'
  <2>1. note' = note /\ created' = created
    BY <1>2 DEF StartOrdinary, StartGuest, RefuseGuest, RejectAtOnce, Convert,
        LmtpAccepts,
         Read, ScanAudio, Answer, Step, loopVars, storeVars, RecordingInv,
         HandlerTypes
  <2>2. CASE ScanAudio(u) /\ pc'[u] # "answered"
    <3>1. pc' = pc /\ scan'.left = scan.left /\ scan'.count = scan.count
      BY <2>2 DEF ScanAudio, Answer, uploadVars, RecordingInv, HandlerTypes,
          QuotaInv, Scans
    <3> QED
      BY <1>1, <2>1, <3>1, NotesOnlyGo
  <2>3. CASE ~(ScanAudio(u) /\ pc'[u] # "answered")
    <3>1. /\ scan' = scan
          /\ pc' = [pc EXCEPT ![u] = pc'[u]]
          /\ pc'[u] \notin {"scan", "mkdir", "audio", "metadata"}
      BY <1>2, <2>3
         DEF StartOrdinary, StartGuest, RefuseGuest, RejectAtOnce, Convert,
         LmtpAccepts, Read, Answer, Step, Turn, loopVars, RecordingInv,
         HandlerTypes
    <3> QED
      BY <1>1, <2>1, <3>1, NotesOnlyGo DEF RecordingInv, HandlerTypes
  <2> QED
    BY <2>2, <2>3
<1>3. ASSUME NEW u \in Uploads, MakeDirectory(u) \/ WriteAudio(u)
      PROVE  QuotaInv'
  <2>1. /\ created' = created /\ scan' = scan
        /\ pc[u] \in {"mkdir", "audio"}
        /\ pc' = [pc EXCEPT ![u] = pc'[u]] /\ pc'[u] \in {"audio", "metadata"}
    BY <1>3 DEF MakeDirectory, WriteAudio, Step, loopVars, RecordingInv,
        HandlerTypes
  <2>2. \A n \in Uploads : /\ note'[n].meta = note[n].meta
                           /\ note'[n].created = note[n].created
    BY <1>3 DEF MakeDirectory, WriteAudio, RecordingInv, StoreTypes, Cleanups,
        NoteRecords
  <2> QED
    BY <1>1, <2>1, <2>2, NotesOnlyGo DEF RecordingInv, HandlerTypes
<1>4. CASE Retention
  <2>1. pc' = pc /\ created' = created /\ scan' = scan
    BY <1>4 DEF Retention, RetentionStart, RetentionCutoff, RetentionList,
                RetentionInspect, RetentionUnlink, RetentionFails,
                RetentionRemoveDirectory, uploadVars, loopVars
  <2>2. ASSUME NEW n \in Uploads
        PROVE  note'[n].meta => note[n].meta /\ note'[n].created = note[n].created
    <3>1. CASE \/ RetentionStart \/ RetentionCutoff \/ RetentionList
               \/ RetentionFails \/ \E m \in Requests : RetentionInspect(m)
      BY <3>1 DEF RetentionStart, RetentionCutoff, RetentionList,
                  RetentionFails, RetentionInspect, storeVars
    <3>4. note \in [Uploads -> NoteRecords]
      BY DEF RecordingInv, StoreTypes
    <3>2. ASSUME NEW m \in Requests, RetentionUnlink(m)
          PROVE  note'[n].meta => note[n].meta /\ note'[n].created = note[n].created
      BY <3>2, <3>4 DEF RetentionUnlink, NoteRecords
    <3>3. ASSUME NEW m \in Requests, RetentionRemoveDirectory(m)
          PROVE  note'[n].meta => note[n].meta /\ note'[n].created = note[n].created
      BY <3>3 DEF RetentionRemoveDirectory, NoNote, RecordingInv, StoreTypes,
          Cleanups, NoteRecords
    <3> QED
      BY <1>4, <3>1, <3>2, <3>3 DEF Retention
  <2> QED
    BY <1>1, <2>1, <2>2, NotesOnlyGo
<1>5. CASE ClockTick \/ UNCHANGED vars
  <2>1. pc' = pc /\ created' = created /\ scan' = scan /\ note' = note
    BY <1>5 DEF ClockTick, vars, uploadVars, loopVars, storeVars
  <2> QED
    BY <1>1, <2>1, NotesOnlyGo
<1>6. CASE Crash
  <2>1. note' = note /\ loop' = NoUpload
    BY <1>6 DEF Crash, storeVars
  <2>2. \A v \in Uploads : pc'[v] \notin Segment
    BY <1>1, <2>1, UploadsDisjoint DEF RecordingInv, LoopHeld, Uploads
  <2> QED
    BY <1>1, <2>1, <2>2, NotesOnlyGo DEF Segment
<1>7. ASSUME NEW u \in Uploads, Handler(u) PROVE QuotaInv'
  BY <1>1, <1>2, <1>3, <1>7, ScanBegins, ScanCounts, ScanEnds, NoteAdded,
     AnswersKeepQuota DEF Handler
<1> QED
  BY <1>4, <1>5, <1>6, <1>7 DEF Next

\* There are no notes at first.
LEMMA QuotaInitial == Init => QuotaInv
<1> SUFFICES ASSUME Init PROVE QuotaInv
  OBVIOUS
<1>1. \A u, d : DayNotes(note, u, d) = {}
  BY DEF Init, NoNote, DayNotes, OwnedWith, Uploads
<1>2. \A u \in Uploads : NoteLimit(u) \in Nat
  BY NoteLimitIsNat
<1> QED
  BY <1>1, <1>2, FS_EmptySet DEF Init, NoScan, QuotaInv, Counted, Scans

(***************************************************************************)
(* No user ever has more notes of one UTC day than the quota allows,       *)
(* whatever uploads run at the same time and whatever retention removes.   *)
(***************************************************************************)
THEOREM DailyQuotaAlwaysKept == Spec => []DailyQuota
<1>1. Init => RecordingInv /\ QuotaInv
  BY RecordingInitial, QuotaInitial
<1>2. (RecordingInv /\ QuotaInv) /\ [Next]_vars => (RecordingInv /\ QuotaInv)'
  BY RecordingStep, QuotaStep
<1>3. QuotaInv => DailyQuota
  BY DEF QuotaInv, DailyQuota, DayNotes
<1> QED
  BY <1>1, <1>2, <1>3, PTL DEF Spec
-----------------------------------------------------------------------------
(***************************************************************************)
(* The byte quota.  What a fold over a set of notes adds up is defined by  *)
(* recursion, and its facts are proved by induction: a counterexample      *)
(* would have a minimal subset that is one.                                *)
(***************************************************************************)

\* The bytes of audio that the notes of T hold, as nt has them.
Bytes(nt, T) == MapThenSumSet(LAMBDA n : nt[n].audio, T)

\* Any set of notes with their audio.
Sized(nt, T) == IsFiniteSet(T) /\ \A n \in T : nt[n].audio \in Nat

\* The note of T that the fold takes out next.
Taken(T) == CHOOSE n \in T : TRUE

\* h gives every subset of T its sum.
AddsUp(h, nt, T) ==
    h = [t \in SUBSET T |->
           IF t = {} THEN 0 ELSE nt[Taken(t)].audio + h[t \ {Taken(t)}]]
Adder(nt, T) == CHOOSE h : AddsUp(h, nt, T)

\* If some subset of a finite set is in B, one is of which no smaller subset is.
LEMMA MinimalSubset ==
    ASSUME NEW T, IsFiniteSet(T), NEW B \in SUBSET (SUBSET T), B # {}
    PROVE  \E s \in B : \A r \in SUBSET s : r # s => r \notin B
<1>1. B \subseteq FiniteSubsetsOf(T)
  BY FS_Subset DEF FiniteSubsetsOf
<1>2. PICK s \in B : \A r \in B : ~(<<r, s>> \in StrictSubsetOrdering(T))
  BY <1>1, FS_StrictSubsetOrderingWellFounded, WFMin
<1>3. \A r \in B : ~(r \subseteq s /\ r # s)
  BY <1>2 DEF StrictSubsetOrdering
<1> QED
  BY <1>3

\* What is in a set does not depend on the set it is a subset of.
LEMMA AddsUpOnce ==
    ASSUME NEW nt, NEW S, NEW T, IsFiniteSet(T), NEW h, AddsUp(h, nt, T),
           NEW g, AddsUp(g, nt, S), S \in SUBSET T
    PROVE  \A s \in SUBSET S : g[s] = h[s]
<1> DEFINE B == {s \in SUBSET S : g[s] # h[s]}
<1>1. SUFFICES ASSUME B # {} PROVE FALSE
  OBVIOUS
<1>2. IsFiniteSet(S)
  BY FS_Subset
<1>3. PICK s \in B : \A r \in SUBSET s : r # s => r \notin B
  <2>1. B \in SUBSET (SUBSET S)
    OBVIOUS
  <2> HIDE DEF B
  <2> QED
    BY <1>1, <1>2, <2>1, MinimalSubset
<1>4. CASE s = {}
  BY <1>4, <1>3 DEF AddsUp
<1>5. CASE s # {}
  <2> DEFINE r == s \ {Taken(s)}
  <2>1. Taken(s) \in s
    BY <1>5 DEF Taken
  <2>2. r \in SUBSET s /\ r # s /\ r \in SUBSET S
    BY <2>1
  <2>3. g[r] = h[r]
    BY <1>3, <2>2
  <2>4. g[s] = nt[Taken(s)].audio + g[r] /\ h[s] = nt[Taken(s)].audio + h[r]
    BY <1>5 DEF AddsUp
  <2> QED
    BY <2>3, <2>4
<1> QED
  BY <1>4, <1>5

\* The function that MapThenFoldSet defines exists.
LEMMA AdderAddsUp ==
    ASSUME NEW nt, NEW T, IsFiniteSet(T)
    PROVE  AddsUp(Adder(nt, T), nt, T)
<1> DEFINE B == {s \in SUBSET T : ~\E h : AddsUp(h, nt, s)}
<1>1. SUFFICES ASSUME B # {} PROVE FALSE
  BY DEF Adder
<1>2. PICK s \in B : \A r \in SUBSET s : r # s => r \notin B
  <2>1. B \in SUBSET (SUBSET T)
    OBVIOUS
  <2> HIDE DEF B
  <2> QED
    BY <1>1, <2>1, MinimalSubset
<1> DEFINE below == {r \in SUBSET s : r # s}
           h == [t \in SUBSET s |->
                   IF t = {} THEN 0
                   ELSE nt[Taken(t)].audio
                          + Adder(nt, t \ {Taken(t)})[t \ {Taken(t)}]]
<1>3. \A r \in below : AddsUp(Adder(nt, r), nt, r)
  BY <1>2 DEF Adder
<1>4. ASSUME NEW t \in below PROVE h[t] = Adder(nt, t)[t]
  <2>1. CASE t = {}
    BY <1>3, <1>4, <2>1 DEF AddsUp
  <2>2. CASE t # {}
    <3> DEFINE q == t \ {Taken(t)}
    <3>1. q \in SUBSET t /\ q \in below
      BY <1>4, <2>2 DEF Taken
    <3>2. AddsUp(Adder(nt, t), nt, t) /\ AddsUp(Adder(nt, q), nt, q)
      BY <1>3, <1>4, <3>1
    <3>3. Adder(nt, t)[t] = nt[Taken(t)].audio + Adder(nt, t)[q]
      BY <2>2, <3>2 DEF AddsUp
    <3>4. IsFiniteSet(t)
      BY <1>2, FS_Subset
    <3>5. Adder(nt, q)[q] = Adder(nt, t)[q]
      BY <3>1, <3>2, <3>4, AddsUpOnce
    <3> QED
      BY <1>4, <2>2, <3>3, <3>5
  <2> QED
    BY <2>1, <2>2
<1>5. AddsUp(h, nt, s)
  <2>1. ASSUME NEW t \in SUBSET s, t # {}
        PROVE  h[t \ {Taken(t)}] = Adder(nt, t \ {Taken(t)})[t \ {Taken(t)}]
    <3>1. t \ {Taken(t)} \in below
      BY <2>1 DEF Taken
    <3> HIDE DEF h, below
    <3> QED
      BY <1>4, <3>1
  <2> QED
    BY <2>1 DEF AddsUp
<1> QED
  BY <1>2, <1>5

\* The equation of the fold.
LEMMA BytesTaken ==
    ASSUME NEW nt, NEW T, IsFiniteSet(T)
    PROVE  /\ T = {} => Bytes(nt, T) = 0
           /\ T # {} => /\ Taken(T) \in T
                        /\ Bytes(nt, T) = nt[Taken(T)].audio
                                            + Bytes(nt, T \ {Taken(T)})
<1>1. \A S : Bytes(nt, S) = Adder(nt, S)[S]
  BY DEF Bytes, MapThenSumSet, MapThenFoldSet, Adder, AddsUp, Taken
<1>2. AddsUp(Adder(nt, T), nt, T)
  BY AdderAddsUp
<1>3. CASE T = {}
  BY <1>1, <1>2, <1>3 DEF AddsUp
<1>4. CASE T # {}
  <2> DEFINE S == T \ {Taken(T)}
  <2>1. Taken(T) \in T
    BY <1>4 DEF Taken
  <2>2. IsFiniteSet(S) /\ S \in SUBSET T
    BY FS_Subset
  <2>3. AddsUp(Adder(nt, S), nt, S)
    BY <2>2, AdderAddsUp
  <2>4. Adder(nt, S)[S] = Adder(nt, T)[S]
    <3>1. PICK g, h : g = Adder(nt, S) /\ h = Adder(nt, T)
      OBVIOUS
    <3>2. \A s \in SUBSET S : g[s] = h[s]
      <4>1. AddsUp(g, nt, S) /\ AddsUp(h, nt, T)
        BY <1>2, <2>3, <3>1
      <4> HIDE DEF S
      <4> QED
        BY <2>2, <4>1, AddsUpOnce
    <3> QED
      BY <3>1, <3>2
  <2>5. Adder(nt, T)[T] = nt[Taken(T)].audio + Adder(nt, T)[S]
    BY <1>2, <1>4 DEF AddsUp
  <2> QED
    BY <1>1, <1>4, <2>1, <2>4, <2>5
<1> QED
  BY <1>3, <1>4

\* A sum of sizes is a size.
LEMMA BytesType ==
    ASSUME NEW nt, NEW T, Sized(nt, T)
    PROVE  Bytes(nt, T) \in Nat
<1> DEFINE B == {s \in SUBSET T : Bytes(nt, s) \notin Nat}
<1>1. SUFFICES ASSUME B # {} PROVE FALSE
  OBVIOUS
<1>2. PICK s \in B : \A r \in SUBSET s : r # s => r \notin B
  <2>1. B \in SUBSET (SUBSET T) /\ IsFiniteSet(T)
    BY DEF Sized
  <2> HIDE DEF B
  <2> QED
    BY <1>1, <2>1, MinimalSubset
<1>3. IsFiniteSet(s)
  BY FS_Subset DEF Sized
<1>4. CASE s = {}
  <2>1. Bytes(nt, s) = 0
    BY <1>3, <1>4, BytesTaken
  <2> QED
    BY <1>2, <2>1
<1>5. CASE s # {}
  <2>1. Taken(s) \in s /\ Bytes(nt, s) = nt[Taken(s)].audio + Bytes(nt, s \ {Taken(s)})
    BY <1>3, <1>5, BytesTaken
  <2>2. Bytes(nt, s \ {Taken(s)}) \in Nat /\ nt[Taken(s)].audio \in Nat
    BY <1>2, <2>1 DEF Sized
  <2>3. Bytes(nt, s) \in Nat
    BY <2>1, <2>2
  <2> QED
    BY <1>2, <2>3
<1> QED
  BY <1>4, <1>5

\* Any note may be taken out of the sum, not only the one the fold takes.
LEMMA BytesOneOut ==
    ASSUME NEW nt, NEW T, Sized(nt, T), NEW n \in T
    PROVE  Bytes(nt, T) = nt[n].audio + Bytes(nt, T \ {n})
<1> DEFINE Out(s, m) == Bytes(nt, s) = nt[m].audio + Bytes(nt, s \ {m})
           B == {s \in SUBSET T : \E m \in s : ~Out(s, m)}
<1>1. SUFFICES ASSUME B # {} PROVE FALSE
  OBVIOUS
<1>2. PICK s \in B : \A r \in SUBSET s : r # s => r \notin B
  <2>1. B \in SUBSET (SUBSET T) /\ IsFiniteSet(T)
    BY DEF Sized
  <2> HIDE DEF B
  <2> QED
    BY <1>1, <2>1, MinimalSubset
<1>3. PICK m \in s : ~Out(s, m)
  BY <1>2
<1> DEFINE c == Taken(s)
<1>4. /\ c \in s
      /\ Bytes(nt, s) = nt[c].audio + Bytes(nt, s \ {c})
  <2>1. IsFiniteSet(s)
    BY FS_Subset DEF Sized
  <2> QED
    BY <1>3, <2>1, BytesTaken
<1>5. c # m
  BY <1>3, <1>4
<1>6. Out(s \ {c}, m) /\ Out(s \ {m}, c)
  <2>1. s \ {c} \notin B /\ s \ {m} \notin B
    BY <1>2, <1>3, <1>4
  <2> HIDE DEF Out
  <2> QED
    BY <1>2, <1>3, <1>4, <1>5, <2>1
<1>7. (s \ {c}) \ {m} = (s \ {m}) \ {c}
  OBVIOUS
<1>8. /\ nt[c].audio \in Nat /\ nt[m].audio \in Nat
      /\ Bytes(nt, (s \ {c}) \ {m}) \in Nat
  <2>1. (s \ {c}) \ {m} \in SUBSET T /\ c \in T /\ m \in T
    BY <1>2, <1>3, <1>4
  <2>2. Sized(nt, (s \ {c}) \ {m})
    BY <2>1, FS_Subset DEF Sized
  <2> QED
    BY <2>1, <2>2, BytesType DEF Sized
<1>9. Out(s, m)
  <2> DEFINE rest == Bytes(nt, (s \ {c}) \ {m})
             a == nt[c].audio
             b == nt[m].audio
  <2>1. /\ Bytes(nt, s) = a + (b + rest)
        /\ Bytes(nt, s \ {m}) = a + rest
    BY <1>4, <1>6, <1>7
  <2>2. a \in Nat /\ b \in Nat /\ rest \in Nat
    BY <1>8
  <2> HIDE DEF rest, a, b
  <2>3. a + (b + rest) = b + (a + rest)
    BY <2>2
  <2> QED
    BY <2>1, <2>3 DEF b
<1> QED
  BY <1>3, <1>9

\* Where no note has grown, the sum has not grown.
LEMMA BytesMonotone ==
    ASSUME NEW nt, NEW nt1, NEW T, Sized(nt, T), Sized(nt1, T),
           \A n \in T : nt1[n].audio <= nt[n].audio
    PROVE  Bytes(nt1, T) <= Bytes(nt, T)
<1> DEFINE B == {s \in SUBSET T : ~(Bytes(nt1, s) <= Bytes(nt, s))}
<1>1. SUFFICES ASSUME B # {} PROVE FALSE
  OBVIOUS
<1>2. PICK s \in B : \A r \in SUBSET s : r # s => r \notin B
  <2>1. B \in SUBSET (SUBSET T) /\ IsFiniteSet(T)
    BY DEF Sized
  <2> HIDE DEF B
  <2> QED
    BY <1>1, <2>1, MinimalSubset
<1>3. IsFiniteSet(s)
  BY FS_Subset DEF Sized
<1>4. CASE s = {}
  <2>1. Bytes(nt1, s) = 0 /\ Bytes(nt, s) = 0
    BY <1>3, <1>4, BytesTaken
  <2> QED
    BY <1>2, <2>1
<1>5. CASE s # {}
  <2> DEFINE c == Taken(s)
             r == s \ {c}
  <2>1. /\ c \in s
        /\ Bytes(nt, s) = nt[c].audio + Bytes(nt, r)
        /\ Bytes(nt1, s) = nt1[c].audio + Bytes(nt1, r)
    BY <1>3, <1>5, BytesTaken
  <2>2. Bytes(nt1, r) <= Bytes(nt, r)
    BY <1>2, <2>1
  <2>3. Sized(nt, r) /\ Sized(nt1, r)
    BY <1>2, FS_Subset DEF Sized
  <2>4. /\ nt1[c].audio <= nt[c].audio
        /\ nt1[c].audio \in Nat /\ nt[c].audio \in Nat
        /\ Bytes(nt1, r) \in Nat /\ Bytes(nt, r) \in Nat
    BY <1>2, <2>1, <2>3, BytesType DEF Sized
  <2>5. Bytes(nt1, s) <= Bytes(nt, s)
    BY <2>1, <2>2, <2>4
  <2> QED
    BY <1>2, <2>5
<1> QED
  BY <1>4, <1>5

\* Notes without audio hold no bytes.
LEMMA BytesOfNothing ==
    ASSUME NEW nt, NEW T, IsFiniteSet(T), \A n \in T : nt[n].audio = 0
    PROVE  Bytes(nt, T) = 0
<1> DEFINE B == {s \in SUBSET T : Bytes(nt, s) # 0}
<1>1. SUFFICES ASSUME B # {} PROVE FALSE
  OBVIOUS
<1>2. PICK s \in B : \A r \in SUBSET s : r # s => r \notin B
  <2>1. B \in SUBSET (SUBSET T)
    OBVIOUS
  <2> HIDE DEF B
  <2> QED
    BY <1>1, <2>1, MinimalSubset
<1>3. IsFiniteSet(s)
  BY FS_Subset
<1>4. CASE s = {}
  BY <1>2, <1>3, <1>4, BytesTaken
<1>5. CASE s # {}
  <2>1. /\ Taken(s) \in s
        /\ Bytes(nt, s) = nt[Taken(s)].audio + Bytes(nt, s \ {Taken(s)})
    BY <1>3, <1>5, BytesTaken
  <2>2. Bytes(nt, s \ {Taken(s)}) = 0 /\ nt[Taken(s)].audio = 0
    BY <1>2, <2>1
  <2> QED
    BY <1>2, <2>1, <2>2
<1> QED
  BY <1>4, <1>5

\* The notes of the owner of u that a scan has behind it.
Seen(u) == OwnedWith(u) \ (scan.left \cup {scan.found})

\* What a scan has added up, and what its check leaves room for.
Weighed ==
    \A u \in Uploads :
        /\ pc[u] = "scan" => Bytes(note, Seen(u)) <= scan.bytes
        /\ pc[u] \in {"mkdir", "audio"} =>
               Bytes(note, OwnedWith(u)) + size[u] <= ByteLimit(u)

AudioInDirectory == \A u \in Uploads : note[u].audio > 0 => note[u].dir = "present"

ByteInv ==
    /\ Weighed
    /\ AudioInDirectory
    /\ \A u \in Uploads : Bytes(note, OwnedWith(u)) <= ByteLimit(u)

LEMMA ByteLimitIsNat == \A u \in Uploads : ByteLimit(u) \in Nat
BY RecordingNumbers DEF ByteLimit, Factor

\* The notes of one owner can be added up.
LEMMA OwnedSized ==
    ASSUME StoreTypes, NEW u \in Uploads, NEW T \in SUBSET OwnedWith(u)
    PROVE  Sized(note, T) /\ Bytes(note, T) \in Nat
<1>1. IsFiniteSet(OwnedWith(u))
  BY RequestsFinite, OrdinaryFinite DEF OwnedWith
<1>2. IsFiniteSet(T)
  BY <1>1, FS_Subset
<1>3. \A n \in T : note[n].audio \in Nat
  BY DEF StoreTypes, NoteRecords, OwnedWith, Uploads
<1> QED
  BY <1>2, <1>3, BytesType DEF Sized

\* The same of the next state.
LEMMA OwnedSizedNext ==
    ASSUME StoreTypes', NEW u \in Uploads, NEW T \in SUBSET OwnedWith(u)
    PROVE  Sized(note', T) /\ Bytes(note', T) \in Nat
<1>1. IsFiniteSet(OwnedWith(u))
  BY RequestsFinite, OrdinaryFinite DEF OwnedWith
<1>2. IsFiniteSet(T)
  BY <1>1, FS_Subset
<1>3. \A n \in T : note'[n].audio \in Nat
  BY DEF StoreTypes, NoteRecords, OwnedWith, Uploads
<1> QED
  BY <1>2, <1>3, BytesType DEF Sized

\* Steps that write no audio: the sums only shrink, and a scan is as it was.
LEMMA BytesOnlyGo ==
    ASSUME RecordingInv, RecordingInv', ByteInv, scan \in Scans, AudioInDirectory',
           \A n \in Uploads : note'[n].audio <= note[n].audio,
           \A u \in Uploads :
               /\ pc'[u] = "scan" => pc[u] = "scan" /\ scan' = scan
               /\ pc'[u] \in {"mkdir", "audio"} =>
                      pc[u] \in {"mkdir", "audio"} /\ size'[u] = size[u]
    PROVE  ByteInv'
<1>1. ASSUME NEW u \in Uploads, NEW T \in SUBSET OwnedWith(u)
      PROVE  /\ Bytes(note', T) <= Bytes(note, T)
             /\ Bytes(note', T) \in Nat /\ Bytes(note, T) \in Nat
  <2>1. /\ Sized(note, T) /\ Bytes(note, T) \in Nat
        /\ Sized(note', T) /\ Bytes(note', T) \in Nat
    BY OwnedSized, OwnedSizedNext DEF RecordingInv
  <2>2. \A n \in T : note'[n].audio <= note[n].audio
    BY DEF OwnedWith, Uploads
  <2> QED
    BY <2>1, <2>2, BytesMonotone
<1>2. ASSUME NEW u \in Uploads, pc'[u] = "scan"
      PROVE  Bytes(note', Seen(u)') <= scan'.bytes
  <2>1. Seen(u)' = Seen(u) /\ Seen(u) \in SUBSET OwnedWith(u)
    BY <1>2 DEF Seen
  <2>2. Bytes(note, Seen(u)) <= scan.bytes /\ scan' = scan /\ scan.bytes \in Nat
    BY <1>2 DEF ByteInv, Weighed, Scans
  <2>3. /\ Bytes(note', Seen(u)) <= Bytes(note, Seen(u))
        /\ Bytes(note', Seen(u)) \in Nat /\ Bytes(note, Seen(u)) \in Nat
    BY <1>1, <2>1
  <2> QED
    BY <2>1, <2>2, <2>3
<1>3. ASSUME NEW u \in Uploads, pc'[u] \in {"mkdir", "audio"}
      PROVE  Bytes(note', OwnedWith(u)) + size'[u] <= ByteLimit(u)
  <2>1. /\ Bytes(note, OwnedWith(u)) + size[u] <= ByteLimit(u)
        /\ size'[u] = size[u] /\ size[u] \in Nat
    BY <1>3 DEF ByteInv, Weighed, RecordingInv, HandlerTypes
  <2>2. /\ Bytes(note', OwnedWith(u)) <= Bytes(note, OwnedWith(u))
        /\ Bytes(note', OwnedWith(u)) \in Nat /\ Bytes(note, OwnedWith(u)) \in Nat
    BY <1>1
  <2> QED
    BY <2>1, <2>2, ByteLimitIsNat
<1>4. ASSUME NEW u \in Uploads
      PROVE  Bytes(note', OwnedWith(u)) <= ByteLimit(u)
  <2>1. Bytes(note, OwnedWith(u)) <= ByteLimit(u)
    BY DEF ByteInv
  <2>2. /\ Bytes(note', OwnedWith(u)) <= Bytes(note, OwnedWith(u))
        /\ Bytes(note', OwnedWith(u)) \in Nat /\ Bytes(note, OwnedWith(u)) \in Nat
    BY <1>1
  <2> QED
    BY <2>1, <2>2, ByteLimitIsNat
<1> QED
  BY <1>2, <1>3, <1>4 DEF ByteInv, Weighed

\* A note that is not listed holds no bytes.
LEMMA WeighingBegins ==
    ASSUME RecordingInv, RecordingInv', ByteInv, NEW u \in Uploads, EnforceQuota(u)
    PROVE  ByteInv'
<1>1. /\ pc' = [pc EXCEPT ![u] = "scan"] /\ note' = note
      /\ scan'.left = Stored(u) /\ scan'.bytes = 0
  BY DEF EnforceQuota, Step, storeVars, NoScan
<1>2. \A v \in Uploads \ {u} : pc'[v] \notin Segment
  BY <1>1, UploadsDisjoint
     DEF EnforceQuota, RecordingInv, HandlerTypes, LoopHeld, Uploads
<1>3. \A n \in Seen(u)' : note[n].audio = 0
  <2>1. ASSUME NEW n \in Seen(u)' PROVE note[n].audio = 0
    <3>1. n \in OwnedWith(u) /\ n \notin Stored(u) /\ n \in Uploads
      BY <1>1, <2>1 DEF Seen, OwnedWith, Uploads
    <3>2. note[n].dir # "present"
      BY <3>1 DEF Stored
    <3>3. note[n].audio \in Nat
      BY <3>1 DEF RecordingInv, StoreTypes, NoteRecords
    <3> QED
      BY <3>1, <3>2, <3>3 DEF ByteInv, AudioInDirectory
  <2> QED
    BY <2>1
<1>4. Seen(u)' \in SUBSET OwnedWith(u)
  BY DEF Seen
<1>5. Bytes(note, Seen(u)') = 0
  BY <1>3, <1>4, OwnedSized, BytesOfNothing DEF Sized, RecordingInv
<1> QED
  BY <1>1, <1>2, <1>5
     DEF ByteInv, Weighed, AudioInDirectory, RecordingInv, HandlerTypes, Segment

\* A note without audio adds nothing; one with audio is weighed next.
LEMMA NoteLooked ==
    ASSUME RecordingInv, ByteInv, scan \in Scans, NEW u \in Uploads,
           NEW n \in OwnedWith(u), ScanNote(u, n)
    PROVE  ByteInv'
<1>1. /\ pc' = pc /\ note' = note /\ size' = size /\ pc[u] = "scan"
      /\ scan'.left = scan.left \ {n} /\ n \in scan.left /\ scan.found = NoUpload
      /\ scan'.found = IF note[n].audio > 0 THEN n ELSE NoUpload
      /\ scan'.bytes = scan.bytes
  BY DEF ScanNote, uploadVars, storeVars, Scans
<1>2. \A v \in Uploads \ {u} : pc[v] \notin Segment
  BY <1>1, UploadsDisjoint DEF RecordingInv, LoopHeld, Segment, Uploads
<1>3. Bytes(note, Seen(u)) <= scan.bytes
  BY <1>1 DEF ByteInv, Weighed
<1>4. n \in Uploads /\ NoUpload \notin OwnedWith(u)
  BY UploadsDisjoint DEF OwnedWith, Uploads
<1>5. CASE note[n].audio > 0
  <2>1. Seen(u)' = Seen(u)
    BY <1>1, <1>4, <1>5 DEF Seen
  <2> QED
    BY <1>1, <1>2, <1>3, <2>1 DEF ByteInv, Weighed, AudioInDirectory, Segment
<1>6. CASE ~(note[n].audio > 0)
  <2>1. Seen(u)' = Seen(u) \cup {n} /\ Seen(u) = Seen(u)' \ {n}
    BY <1>1, <1>4, <1>6 DEF Seen
  <2>2. Seen(u)' \in SUBSET OwnedWith(u) /\ Seen(u) \in SUBSET OwnedWith(u)
    BY DEF Seen
  <2>3. Sized(note, Seen(u)') /\ Bytes(note, Seen(u)) \in Nat
    BY <2>2, OwnedSized DEF RecordingInv
  <2>4. note[n].audio = 0
    BY <1>4, <1>6 DEF RecordingInv, StoreTypes, NoteRecords
  <2>5. Bytes(note, Seen(u)') = note[n].audio + Bytes(note, Seen(u))
    BY <2>1, <2>3, BytesOneOut
  <2>6. Bytes(note, Seen(u)') <= scan'.bytes
    BY <1>1, <1>3, <2>3, <2>4, <2>5
  <2> QED
    BY <1>1, <1>2, <2>6 DEF ByteInv, Weighed, AudioInDirectory, Segment
<1> QED
  BY <1>5, <1>6

\* The audio that was found is weighed as it is now.
LEMMA NoteWeighed ==
    ASSUME RecordingInv, ByteInv, scan \in Scans, NEW u \in Uploads,
           ScanAudio(u), pc'[u] # "answered"
    PROVE  ByteInv'
<1> DEFINE n == scan.found
<1>1. /\ pc' = pc /\ note' = note /\ size' = size /\ pc[u] = "scan"
      /\ scan'.left = scan.left /\ n # NoUpload
      /\ scan'.found = NoUpload
      /\ scan'.bytes = scan.bytes + note[n].audio
  BY DEF ScanAudio, Answer, uploadVars, storeVars, Scans, RecordingInv, HandlerTypes
<1>2. \A v \in Uploads \ {u} : pc[v] \notin Segment
  BY <1>1, UploadsDisjoint DEF RecordingInv, LoopHeld, Segment, Uploads
<1>3. Bytes(note, Seen(u)) <= scan.bytes /\ scan.bytes \in Nat
  BY <1>1 DEF ByteInv, Weighed, Scans
<1>4. n \in Uploads /\ note[n].audio \in Nat
  BY <1>1 DEF Scans, RecordingInv, StoreTypes, NoteRecords
<1>5. Seen(u)' \in SUBSET OwnedWith(u) /\ Seen(u) \in SUBSET OwnedWith(u)
  BY DEF Seen
<1>6. /\ Sized(note, Seen(u)') /\ Bytes(note, Seen(u)) \in Nat
  BY <1>5, OwnedSized DEF RecordingInv
<1>7. NoUpload \notin OwnedWith(u)
  BY UploadsDisjoint DEF OwnedWith
<1>8. CASE n \in Seen(u)'
  <2>1. Seen(u) = Seen(u)' \ {n}
    BY <1>1, <1>7, <1>8 DEF Seen
  <2>2. Bytes(note, Seen(u)') = note[n].audio + Bytes(note, Seen(u))
    BY <1>6, <1>8, <2>1, BytesOneOut
  <2>3. Bytes(note, Seen(u)') <= scan'.bytes
    BY <1>1, <1>3, <1>4, <1>6, <2>2
  <2> QED
    BY <1>1, <1>2, <2>3 DEF ByteInv, Weighed, AudioInDirectory, Segment
<1>9. CASE n \notin Seen(u)'
  <2>1. Seen(u) = Seen(u)'
    BY <1>1, <1>7, <1>9 DEF Seen
  <2>2. Bytes(note, Seen(u)') <= scan'.bytes
    BY <1>1, <1>3, <1>4, <1>6, <2>1
  <2> QED
    BY <1>1, <1>2, <2>2 DEF ByteInv, Weighed, AudioInDirectory, Segment
<1> QED
  BY <1>8, <1>9

\* The check has weighed everything: there is room for this audio.
LEMMA WeighingEnds ==
    ASSUME RecordingInv, ByteInv, scan \in Scans, NEW u \in Uploads, WithinQuota(u)
    PROVE  ByteInv'
<1>1. /\ pc[u] = "scan" /\ pc' = [pc EXCEPT ![u] = "mkdir"]
      /\ note' = note /\ size' = size
      /\ scan.left = {} /\ scan.found = NoUpload
      /\ ~(scan.bytes + size[u] > ByteLimit(u))
  BY DEF WithinQuota, ScanDone, OverBytes, Step, storeVars
<1>2. \A v \in Uploads \ {u} : pc[v] \notin Segment
  BY <1>1, UploadsDisjoint DEF RecordingInv, LoopHeld, Segment, Uploads
<1>3. Seen(u) = OwnedWith(u)
  BY <1>1, UploadsDisjoint DEF Seen, OwnedWith
<1>4. Bytes(note, OwnedWith(u)) <= scan.bytes /\ scan.bytes \in Nat
  BY <1>1, <1>3 DEF ByteInv, Weighed, Scans
<1>5. size[u] \in Nat /\ ByteLimit(u) \in Nat /\ Bytes(note, OwnedWith(u)) \in Nat
  BY OwnedSized, ByteLimitIsNat DEF RecordingInv, HandlerTypes
<1>6. Bytes(note, OwnedWith(u)) + size[u] <= ByteLimit(u)
  BY <1>1, <1>4, <1>5
<1> QED
  BY <1>1, <1>2, <1>6
     DEF ByteInv, Weighed, AudioInDirectory, Segment, RecordingInv, HandlerTypes

(***************************************************************************)
(* The only audio that is ever written, whole or in part: it fits in the   *)
(* room that the check has left, because nobody else has written since.    *)
(***************************************************************************)
LEMMA WrittenFits ==
    ASSUME RecordingInv, RecordingInv', ByteInv, NEW u \in Uploads, pc[u] = "audio",
           NEW w \in 0 .. size[u], note'[u].audio = w,
           \A n \in Uploads \ {u} : note'[n] = note[n]
    PROVE  \A v \in Uploads : Bytes(note', OwnedWith(v)) <= ByteLimit(v)
<1> SUFFICES ASSUME NEW v \in Uploads
             PROVE  Bytes(note', OwnedWith(v)) <= ByteLimit(v)
  OBVIOUS
<1> DEFINE all == OwnedWith(v)
           others == OwnedWith(v) \ {u}
<1>1. /\ Sized(note, all) /\ Bytes(note, all) \in Nat
      /\ Sized(note, others) /\ Bytes(note, others) \in Nat
  BY OwnedSized DEF RecordingInv
<1>2. /\ Sized(note', all) /\ Bytes(note', all) \in Nat
      /\ Sized(note', others) /\ Bytes(note', others) \in Nat
  BY OwnedSizedNext DEF RecordingInv
<1>3. Bytes(note', others) <= Bytes(note, others)
  <2>1. \A n \in others : note'[n].audio <= note[n].audio
    BY <1>1 DEF OwnedWith, Uploads, Sized
  <2> HIDE DEF others
  <2> QED
    BY <1>1, <1>2, <2>1, BytesMonotone
<1>4. CASE u \in all
  <2>1. all = OwnedWith(u) /\ ByteLimit(v) = ByteLimit(u)
    BY <1>4, UploadsDisjoint DEF OwnedWith, Guest, Uploads, ByteLimit, Factor
  <2>2. Bytes(note, all) + size[u] <= ByteLimit(v)
    BY <2>1 DEF ByteInv, Weighed
  <2>3. /\ Bytes(note, all) = note[u].audio + Bytes(note, others)
        /\ Bytes(note', all) = w + Bytes(note', others)
    BY <1>1, <1>2, <1>4, BytesOneOut
  <2>4. /\ note[u].audio \in Nat /\ size[u] \in Nat /\ ByteLimit(v) \in Nat
        /\ w \in Nat /\ w <= size[u]
    BY ByteLimitIsNat DEF RecordingInv, HandlerTypes, StoreTypes, NoteRecords
  <2> QED
    BY <1>1, <1>2, <1>3, <2>2, <2>3, <2>4
<1>5. CASE u \notin all
  <2>1. all = others
    BY <1>5
  <2>2. Bytes(note, all) <= ByteLimit(v)
    BY DEF ByteInv
  <2> QED
    BY <1>1, <1>2, <1>3, <2>1, <2>2, ByteLimitIsNat
<1> QED
  BY <1>4, <1>5

\* The writing steps themselves; the handler has nothing left to check.
LEMMA AudioWritten ==
    ASSUME RecordingInv, RecordingInv', ByteInv, NEW u \in Uploads,
           WriteAudio(u) \/ (DiskError(u) /\ pc[u] = "audio")
    PROVE  ByteInv'
<1>1. pc[u] = "audio" /\ note[u].dir = "present"
  BY DEF WriteAudio, Step, RecordingInv, Progress
<1>2. PICK w \in 0 .. size[u] :
        note' = [note EXCEPT ![u].audio = w, ![u].mtime = now]
  <2>1. size[u] \in Nat
    BY DEF RecordingInv, HandlerTypes
  <2>2. CASE WriteAudio(u)
    <3>1. /\ size[u] \in 0 .. size[u]
          /\ note' = [note EXCEPT ![u].audio = size[u], ![u].mtime = now]
      BY <2>1, <2>2 DEF WriteAudio
    <3> QED
      BY <3>1
  <2>3. CASE DiskError(u)
    BY <1>1, <2>3 DEF DiskError
  <2> QED
    BY <2>2, <2>3
<1>3. /\ note'[u].audio = w /\ note'[u].dir = note[u].dir
      /\ \A n \in Uploads \ {u} : note'[n] = note[n]
  BY <1>2 DEF RecordingInv, StoreTypes, NoteRecords
<1>4. \A v \in Uploads : pc'[v] \notin {"scan", "mkdir", "audio"}
  <2>1. \A v \in Uploads \ {u} : pc[v] \notin Segment
    BY <1>1, UploadsDisjoint DEF RecordingInv, LoopHeld, Segment, Uploads
  <2>2. \E to \in {"metadata", "answered"} : pc' = [pc EXCEPT ![u] = to]
    BY DEF WriteAudio, DiskError, Answer, Step
  <2> QED
    BY <2>1, <2>2 DEF RecordingInv, HandlerTypes, Segment
<1>5. AudioInDirectory'
  BY <1>1, <1>3 DEF ByteInv, AudioInDirectory
<1>6. \A v \in Uploads : Bytes(note', OwnedWith(v)) <= ByteLimit(v)
  BY <1>1, <1>3, WrittenFits
<1> QED
  BY <1>4, <1>5, <1>6 DEF ByteInv, Weighed

\* Retention takes audio away, and the directory only after it.
LEMMA RetentionKeepsBytes ==
    ASSUME RecordingInv, RecordingInv', ByteInv, scan \in Scans, Retention
    PROVE  ByteInv'
<1>1. pc' = pc /\ scan' = scan /\ size' = size
  BY DEF Retention, RetentionStart, RetentionCutoff, RetentionList,
         RetentionInspect, RetentionUnlink, RetentionRemoveDirectory,
         RetentionFails, uploadVars, loopVars
<1>2. ASSUME NEW n \in Uploads
      PROVE  /\ note'[n].audio <= note[n].audio
             /\ note'[n].audio > 0 => note'[n].dir = note[n].dir
  <2>1. note[n].audio \in Nat
    BY DEF RecordingInv, StoreTypes, NoteRecords
  <2>2. CASE \/ RetentionStart \/ RetentionCutoff \/ RetentionList
             \/ RetentionFails \/ \E m \in Requests : RetentionInspect(m)
    <3>1. note' = note
      BY <2>2 DEF RetentionStart, RetentionCutoff, RetentionList,
                  RetentionFails, RetentionInspect, storeVars
    <3> QED
      BY <2>1, <3>1
  <2>3. ASSUME NEW m \in Requests, RetentionUnlink(m)
        PROVE  /\ note'[n].audio <= note[n].audio
               /\ note'[n].audio > 0 => note'[n].dir = note[n].dir
    BY <2>1, <2>3 DEF RetentionUnlink, RecordingInv, StoreTypes, NoteRecords
  <2>4. ASSUME NEW m \in Requests, RetentionRemoveDirectory(m)
        PROVE  /\ note'[n].audio <= note[n].audio
               /\ note'[n].audio > 0 => note'[n].dir = note[n].dir
    BY <2>1, <2>4 DEF RetentionRemoveDirectory, NoNote, RecordingInv, StoreTypes,
        NoteRecords
  <2> QED
    BY <2>2, <2>3, <2>4 DEF Retention
<1>3. AudioInDirectory'
  <2>1. ASSUME NEW n \in Uploads, note'[n].audio > 0
        PROVE  note'[n].dir = "present"
    <3>1. note[n].audio \in Nat /\ note'[n].audio \in Nat
      BY DEF RecordingInv, StoreTypes, NoteRecords
    <3>2. note[n].audio > 0
      BY <1>2, <2>1, <3>1
    <3> QED
      BY <1>2, <2>1, <3>2 DEF ByteInv, AudioInDirectory
  <2> QED
    BY <2>1 DEF AudioInDirectory
<1> QED
  BY <1>1, <1>2, <1>3, BytesOnlyGo

\* The other steps write no audio.
LEMMA OthersKeepBytes ==
    ASSUME RecordingInv, RecordingInv', ByteInv, scan \in Scans,
           \A n \in Uploads : /\ note'[n].audio = note[n].audio
                              /\ note[n].dir = "present" => note'[n].dir = "present",
           \A u \in Uploads :
               /\ pc'[u] = "scan" => pc[u] = "scan" /\ scan' = scan
               /\ pc'[u] \in {"mkdir", "audio"} =>
                      pc[u] \in {"mkdir", "audio"} /\ size'[u] = size[u]
    PROVE  ByteInv'
<1>1. \A n \in Uploads : note'[n].audio <= note[n].audio
  BY DEF RecordingInv, StoreTypes, NoteRecords
<1>2. AudioInDirectory'
  BY DEF ByteInv, AudioInDirectory
<1> QED
  BY <1>1, <1>2, BytesOnlyGo

\* A handler that has answered neither scans nor writes.
LEMMA AnswersKeepBytes ==
    ASSUME RecordingInv, RecordingInv', ByteInv, scan \in Scans, NEW u \in Uploads,
           \/ Read(u) /\ pc'[u] = "answered"
           \/ ConversionFailed(u) \/ QuotaExceeded(u)
           \/ ScanAudio(u) /\ pc'[u] = "answered"
           \/ LmtpFails(u) \/ LmtpDone(u)
           \/ DiskError(u) /\ pc[u] # "audio"
    PROVE  ByteInv'
<1>1. \E code : Answer(u, code)
  BY DEF Read, Step, ConversionFailed, QuotaExceeded, ScanAudio, uploadVars,
         LmtpFails, LmtpDone, DiskError, RecordingInv, HandlerTypes
<1>2. note' = note
  BY DEF Read, ConversionFailed, QuotaExceeded, ScanAudio, storeVars, LmtpFails,
         LmtpDone, DiskError
<1>3. loop' = NoUpload
  BY <1>1 DEF Answer
<1>4. \A v \in Uploads : pc'[v] \notin Segment
  BY <1>3, UploadsDisjoint DEF RecordingInv, LoopHeld, Uploads
<1> QED
  BY <1>2, <1>4, OthersKeepBytes DEF Segment

\* ByteInv is inductive relative to RecordingInv and the type of the scan.
LEMMA BytesStep ==
    RecordingInv /\ scan \in Scans /\ ByteInv /\ [Next]_vars => ByteInv'
<1> SUFFICES ASSUME RecordingInv, scan \in Scans, ByteInv, [Next]_vars PROVE ByteInv'
  OBVIOUS
<1>1. RecordingInv'
  BY RecordingStep
<1>2. ASSUME NEW u \in Uploads,
             \/ StartOrdinary(u) \/ StartGuest(u) \/ RefuseGuest(u) \/ RejectAtOnce(u)
             \/ Convert(u) \/ LmtpAccepts(u)
             \/ Read(u) /\ pc'[u] # "answered"
      PROVE  ByteInv'
  <2>1. note' = note /\ scan' = scan
    BY <1>2 DEF StartOrdinary, StartGuest, RefuseGuest, RejectAtOnce, Convert,
        LmtpAccepts, Read, Answer, Step, loopVars, storeVars, RecordingInv,
        HandlerTypes
  <2>2. /\ pc' = [pc EXCEPT ![u] = pc'[u]]
        /\ pc'[u] \notin {"scan", "mkdir", "audio"}
    BY <1>2 DEF StartOrdinary, StartGuest, RefuseGuest, RejectAtOnce, Convert,
        LmtpAccepts, Read, Answer, Step, Turn, RecordingInv, HandlerTypes
  <2>3. \A v \in Uploads \ {u} : size'[v] = size[v]
    BY <1>2 DEF StartOrdinary, StartGuest, RefuseGuest, RejectAtOnce, Convert,
        LmtpAccepts, Read, Answer, LocalsEnd, RecordingInv, HandlerTypes
  <2> QED
    BY <1>1, <2>1, <2>2, <2>3, OthersKeepBytes DEF RecordingInv, HandlerTypes
<1>3. ASSUME NEW u \in Uploads, MakeDirectory(u) \/ WriteMetadata(u)
      PROVE  ByteInv'
  <2>1. /\ size' = size /\ scan' = scan
        /\ pc[u] \in {"mkdir", "metadata"}
        /\ pc' = [pc EXCEPT ![u] = pc'[u]] /\ pc'[u] \in {"audio", "lmtp"}
        /\ pc[u] = "metadata" => pc'[u] = "lmtp"
    BY <1>3 DEF MakeDirectory, WriteMetadata, Step, loopVars, RecordingInv,
        HandlerTypes
  <2>2. \A n \in Uploads :
          /\ note'[n].audio = note[n].audio
          /\ note[n].dir = "present" => note'[n].dir = "present"
    BY <1>3 DEF MakeDirectory, WriteMetadata, RecordingInv, StoreTypes, NoteRecords
  <2> QED
    BY <1>1, <2>1, <2>2, OthersKeepBytes DEF RecordingInv, HandlerTypes
<1>4. CASE Retention
  BY <1>1, <1>4, RetentionKeepsBytes
<1>5. CASE ClockTick \/ UNCHANGED vars
  <2>1. pc' = pc /\ size' = size /\ scan' = scan /\ note' = note
    BY <1>5 DEF ClockTick, vars, uploadVars, loopVars, storeVars
  <2> QED
    BY <1>1, <2>1, OthersKeepBytes
<1>6. CASE Crash
  <2>1. note' = note /\ loop' = NoUpload
    BY <1>6 DEF Crash, storeVars
  <2>2. \A v \in Uploads : pc'[v] \notin Segment
    BY <1>1, <2>1, UploadsDisjoint DEF RecordingInv, LoopHeld, Uploads
  <2> QED
    BY <1>1, <2>1, <2>2, OthersKeepBytes DEF Segment
<1>7. ASSUME NEW u \in Uploads, Handler(u) PROVE ByteInv'
  BY <1>1, <1>2, <1>3, <1>7, WeighingBegins, NoteLooked, NoteWeighed, WeighingEnds,
     AudioWritten, AnswersKeepBytes DEF Handler
<1> QED
  BY <1>4, <1>5, <1>6, <1>7 DEF Next

\* Nothing is stored at first.
LEMMA BytesInitial == Init => ByteInv
<1> SUFFICES ASSUME Init PROVE ByteInv
  OBVIOUS
<1>1. \A n \in Uploads : note[n].audio = 0
  BY DEF Init, NoNote
<1>2. ASSUME NEW u \in Uploads
      PROVE  Bytes(note, OwnedWith(u)) = 0
  <2>1. IsFiniteSet(OwnedWith(u)) /\ \A n \in OwnedWith(u) : note[n].audio = 0
    BY <1>1, RequestsFinite, OrdinaryFinite DEF OwnedWith, Uploads
  <2> QED
    BY <2>1, BytesOfNothing
<1>3. \A u \in Uploads : Bytes(note, OwnedWith(u)) <= ByteLimit(u)
  BY <1>2, ByteLimitIsNat
<1> QED
  BY <1>1, <1>3 DEF Init, ByteInv, Weighed, AudioInDirectory

(***************************************************************************)
(* The audio of a user never exceeds the byte quota, the partial files of  *)
(* failed and interrupted uploads included, however many uploads wait for  *)
(* the check and whatever retention removes while it counts.               *)
(***************************************************************************)
THEOREM StorageQuotaAlwaysKept == Spec => []StorageQuota
<1> DEFINE Inv == RecordingInv /\ QuotaInv /\ ByteInv
<1>1. Init => Inv
  BY RecordingInitial, QuotaInitial, BytesInitial
<1>2. Inv /\ [Next]_vars => Inv'
  BY RecordingStep, QuotaStep, BytesStep DEF QuotaInv
<1>3. Inv => StorageQuota
  BY DEF ByteInv, StorageQuota, Bytes
<1> QED
  BY <1>1, <1>2, <1>3, PTL DEF Spec

-----------------------------------------------------------------------------
(* Types, now that audio is known to lie in directories only.              *)

\* Sizes are those of converted audio, and no file is longer than one.
AudioSizes == UNION {0 .. s : s \in Sizes \cup {0}}
Converted ==
    /\ size \in [Uploads -> Sizes \cup {0}]
    /\ \A u \in Uploads : note[u].audio \in AudioSizes

LEMMA PartsAreAudioSizes ==
    \A s \in Sizes \cup {0} : \A part \in 0 .. s : part \in AudioSizes
BY DEF AudioSizes

LEMMA ZeroIsAudioSize == 0 \in AudioSizes /\ \A s \in Sizes \cup {0} : s \in AudioSizes
<1>1. \A s \in Sizes \cup {0} : 0 \in 0 .. s /\ s \in 0 .. s
  BY RecordingNumbers
<1> QED
  BY <1>1, PartsAreAudioSizes

LEMMA HandlerKeepsConverted ==
    ASSUME RecordingInv, Converted, NEW u \in Uploads, Handler(u)
    PROVE  Converted'
<1>0. note \in [Uploads -> NoteRecords]
  BY DEF RecordingInv, StoreTypes
<1>1. size' \in [Uploads -> Sizes \cup {0}]
  <2>1. \/ size' = size
        \/ \E s \in Sizes \cup {0} : size' = [size EXCEPT ![u] = s]
    BY DEF Handler, StartOrdinary, StartGuest, RefuseGuest, RejectAtOnce, Read,
       Convert, ConversionFailed, EnforceQuota, ScanAudio, QuotaExceeded,
       WithinQuota, ScanNote, DiskError, MakeDirectory, WriteAudio,
       WriteMetadata, LmtpAccepts, LmtpFails, LmtpDone, Answer, LocalsEnd,
       uploadVars
  <2> QED
    BY <2>1 DEF Converted
<1>2. CASE UNCHANGED note
  BY <1>1, <1>2 DEF Converted
<1>3. CASE DiskError(u)
  <2>1. CASE UNCHANGED note
    BY <1>2, <2>1
  <2>2. CASE \E written \in 0 .. size[u] :
               note' = [note EXCEPT ![u].audio = written, ![u].mtime = now]
    <3>1. PICK written \in 0 .. size[u] :
            note' = [note EXCEPT ![u].audio = written, ![u].mtime = now]
      BY <2>2
    <3>2. written \in AudioSizes
      BY <3>1, PartsAreAudioSizes DEF Converted
    <3>3. \A v \in Uploads : note'[v].audio = IF v = u THEN written ELSE note[v].audio
      BY <1>0, <3>1 DEF NoteRecords
    <3> QED
      BY <1>1, <3>2, <3>3 DEF Converted
  <2> QED
    BY <1>3, <2>1, <2>2 DEF DiskError
<1>4. CASE WriteAudio(u)
  <2>1. \A v \in Uploads : note'[v].audio = IF v = u THEN size[u] ELSE note[v].audio
    BY <1>0, <1>4 DEF WriteAudio, NoteRecords
  <2>2. size[u] \in AudioSizes
    BY ZeroIsAudioSize DEF Converted
  <2> QED
    BY <1>1, <2>1, <2>2 DEF Converted
<1>5. CASE MakeDirectory(u) \/ WriteMetadata(u)
  <2>1. \A v \in Uploads : note'[v].audio = note[v].audio
    BY <1>0, <1>5 DEF MakeDirectory, WriteMetadata, NoteRecords
  <2> QED
    BY <1>1, <2>1 DEF Converted
<1> QED
  BY <1>2, <1>3, <1>4, <1>5
  DEF Handler, StartOrdinary, StartGuest, RefuseGuest, RejectAtOnce, Read,
      Convert, ConversionFailed, EnforceQuota, ScanAudio, QuotaExceeded,
      WithinQuota, ScanNote, LmtpAccepts, LmtpFails, LmtpDone, storeVars

LEMMA ConvertedStep ==
    ASSUME RecordingInv, Converted, [Next]_vars
    PROVE  Converted'
<1>0. note \in [Uploads -> NoteRecords]
  BY DEF RecordingInv, StoreTypes
<1>1. CASE UNCHANGED <<size, note>>
  BY <1>1 DEF Converted
<1>2. CASE Crash
  BY <1>2 DEF Crash, storeVars, Converted
<1>3. ASSUME NEW n \in Requests, RetentionUnlink(n) \/ RetentionRemoveDirectory(n)
      PROVE  Converted'
  <2>1. size' = size /\ n \in Uploads
    BY <1>3 DEF RetentionUnlink, RetentionRemoveDirectory, uploadVars, Uploads
  <2>2. \A v \in Uploads : note'[v].audio \in {note[v].audio, 0}
    BY <1>0, <1>3, <2>1
    DEF RetentionUnlink, RetentionRemoveDirectory, NoNote, NoteRecords
  <2> QED
    BY <2>1, <2>2, ZeroIsAudioSize DEF Converted
<1>4. CASE \/ ClockTick \/ RetentionStart \/ RetentionCutoff \/ RetentionList
           \/ RetentionFails \/ \E n \in Requests : RetentionInspect(n)
  BY <1>1, <1>4
  DEF ClockTick, RetentionStart, RetentionCutoff, RetentionList,
      RetentionFails, RetentionInspect, uploadVars, storeVars
<1>5. CASE UNCHANGED vars
  BY <1>1, <1>5 DEF vars, uploadVars, storeVars
<1> QED
  BY <1>2, <1>3, <1>4, <1>5, HandlerKeepsConverted DEF Next, Retention

(***************************************************************************)
(* What a handler, the disk and the mailbox may hold: a file is never      *)
(* longer than a conversion result, and files are in directories.          *)
(***************************************************************************)
THEOREM RecordingTyped == Spec => []TypeOK
<1> DEFINE Inv == RecordingInv /\ QuotaInv /\ ByteInv /\ Converted
<1>1. Init => Inv
  <2>1. Init => Converted
    BY ZeroIsAudioSize DEF Init, Converted, NoNote
  <2> QED
    BY <2>1, RecordingInitial, QuotaInitial, BytesInitial
<1>2. Inv /\ [Next]_vars => Inv'
  BY RecordingStep, QuotaStep, BytesStep, ConvertedStep DEF QuotaInv
<1>3. Inv => TypeOK
  <2> SUFFICES ASSUME Inv PROVE TypeOK
    OBVIOUS
  <2>1. note \in [Uploads -> NoteRecords]
    BY DEF RecordingInv, StoreTypes
  <2>2. \A u \in Uploads :
          /\ note[u].dir \in {"none", "present", "removed"}
          /\ note[u].dir # "present" => note[u].audio = 0 /\ ~note[u].meta
    BY <2>1 DEF NoteRecords, RecordingInv, Contents, ByteInv, AudioInDirectory
  <2>3. \A u \in Uploads : note[u].audio \in UNION {0 .. s : s \in Sizes \cup {0}}
    BY DEF Converted, AudioSizes
  <2> QED
    BY <2>2, <2>3
    DEF TypeOK, RecordingInv, HandlerTypes, StoreTypes, Codes, Converted
<1> QED
  BY <1>1, <1>2, <1>3, PTL DEF Spec
=============================================================================
