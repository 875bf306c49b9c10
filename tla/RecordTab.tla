------------------------------ MODULE RecordTab ------------------------------
(***************************************************************************)
(* frontend/src/components/record-tab/record-tab.ts: the recorder of the   *)
(* portal.  JavaScript handlers run to completion; between two of them any *)
(* other event may come first: a click, the answer to getUserMedia(), the  *)
(* "stop" event that MediaRecorder.stop() queues, the end of an upload, a  *)
(* timer, or the end of the session (reset) and a new one (setEnabled).    *)
(*                                                                         *)
(* An attempt is one press of the record button: the stream it asks for,   *)
(* the MediaRecorder made from it and the upload of what that recorded.    *)
(***************************************************************************)
EXTENDS Naturals, FiniteSets

CONSTANTS Attempts,
          Supported,   \* whether the browser records WebM audio
          MaxResets,   \* bound on the ends of sessions
          NoAttempt

ASSUME RecordTabConstants ==
    /\ NoAttempt \notin Attempts
    /\ Supported \in BOOLEAN
    /\ MaxResets \in Nat

VARIABLES enabled,
          generation,  \* lifecycleGeneration
          state,       \* recorderState, and with it the button
          recorder,    \* this.recorder, by its attempt
          stream,      \* this.stream
          interval,    \* progressInterval, by the attempt that set it
          intervals,   \* intervals the browser runs
          confirm,     \* the cancel confirmation and its two timers
          discarded,   \* discardedRecorders
          phase,       \* how far each attempt is
          gen,         \* recordingGeneration of each attempt
          live         \* whether the tracks of its stream are on

recorderVars == <<enabled, generation, state, recorder, stream, interval,
                  intervals, confirm, discarded, phase, gen, live>>
timers == <<interval, intervals>>

Recording(a) == a # NoAttempt /\ phase[a] = "recording"

RecorderInit ==
    /\ enabled = FALSE
    /\ generation = 0
    /\ state = "disabled"
    /\ recorder = NoAttempt /\ stream = NoAttempt
    /\ interval = NoAttempt /\ intervals = {}
    /\ confirm = "closed"
    /\ discarded = {}
    /\ phase = [a \in Attempts |-> "none"]
    /\ gen = [a \in Attempts |-> 0]
    /\ live = [a \in Attempts |-> FALSE]

\* setState; every state but recording closes the confirmation.
SetState(s) ==
    /\ state' = s
    /\ confirm' = IF s = "recording" THEN confirm ELSE "closed"

Idle == IF enabled THEN "idle" ELSE "disabled"

StopRecordingProgress ==
    /\ intervals' = intervals \ {interval}
    /\ interval' = NoAttempt

\* stopRecording: the recorder turns inactive now, its event comes later.
StopFrom(phases) ==
    /\ phase' = [phases EXCEPT ![recorder] = "stopping"]
    /\ StopRecordingProgress

-----------------------------------------------------------------------------
(* The session                                                             *)

\* setEnabled(true); a browser that cannot record stays disabled, with a message.
Enable ==
    /\ ~enabled /\ Supported
    /\ enabled' = TRUE
    /\ IF state = "disabled" THEN SetState("idle") ELSE UNCHANGED <<state, confirm>>
    /\ UNCHANGED <<generation, recorder, stream, timers, discarded, phase, gen, live>>

ResetFrom(phases) ==
    /\ generation < MaxResets
    /\ generation' = generation + 1
    /\ enabled' = FALSE
    /\ \/ /\ Recording(recorder)
          /\ StopFrom(phases)
          /\ UNCHANGED <<stream, live>>
       \/ /\ ~Recording(recorder)
          /\ phase' = phases
          /\ stream' = NoAttempt
          /\ live' = [a \in Attempts |-> live[a] /\ a # stream]
          /\ UNCHANGED timers
    /\ SetState("disabled")
    /\ UNCHANGED <<recorder, discarded, gen>>

ResetRecorder == ResetFrom(phase)

-----------------------------------------------------------------------------
(* toggleRecording                                                         *)

ButtonEnabled == state \in {"idle", "recording"}

ClickStop ==
    /\ ButtonEnabled /\ enabled
    /\ Recording(recorder)
    /\ StopFrom(phase)
    /\ UNCHANGED <<enabled, generation, state, recorder, stream, confirm,
                   discarded, gen, live>>

ClickStart(a) ==
    /\ ButtonEnabled /\ enabled
    /\ ~Recording(recorder)
    /\ phase[a] = "none"
    /\ phase' = [phase EXCEPT ![a] = "asking"]
    /\ gen' = [gen EXCEPT ![a] = generation]
    /\ SetState("requesting")
    /\ UNCHANGED <<enabled, generation, recorder, stream, timers, discarded, live>>

\* Fault: only whether somebody is signed in is asked after the prompt.
GrantedStale(a) ==
    /\ phase[a] = "asking"
    /\ \/ /\ ~enabled
          /\ phase' = [phase EXCEPT ![a] = "dropped"]
          /\ UNCHANGED <<state, recorder, stream, timers, confirm, live>>
       \/ /\ enabled
          /\ phase' = [phase EXCEPT ![a] = "recording"]
          /\ live' = [live EXCEPT ![a] = TRUE]
          /\ stream' = a /\ recorder' = a
          /\ interval' = a /\ intervals' = intervals \cup {a}
          /\ SetState("recording")
    /\ UNCHANGED <<enabled, generation, discarded, gen>>

\* getUserMedia() resolves: a stream of an ended session is stopped at once.
Granted(a) ==
    /\ phase[a] = "asking"
    /\ \/ /\ ~enabled \/ gen[a] # generation
          /\ phase' = [phase EXCEPT ![a] = "dropped"]
          /\ UNCHANGED <<state, recorder, stream, timers, confirm, live>>
       \/ /\ enabled /\ gen[a] = generation
          /\ phase' = [phase EXCEPT ![a] = "recording"]
          /\ live' = [live EXCEPT ![a] = TRUE]
          /\ stream' = a /\ recorder' = a
          /\ interval' = a /\ intervals' = intervals \cup {a}
          /\ SetState("recording")
    /\ UNCHANGED <<enabled, generation, discarded, gen>>

\* Fault: the stream is not stopped when the recorder cannot be made.
NotGrantedLeaky(a) ==
    /\ phase[a] = "asking"
    /\ phase' = [phase EXCEPT ![a] = "dropped"]
    /\ live' = [live EXCEPT ![a] = TRUE]
    /\ IF gen[a] = generation THEN SetState("idle") ELSE UNCHANGED <<state, confirm>>
    /\ UNCHANGED <<enabled, generation, recorder, stream, timers, discarded, gen>>

\* It rejects, or MediaRecorder's constructor throws; or, later, start().
NotGranted(a) ==
    /\ phase[a] = "asking"
    /\ phase' = [phase EXCEPT ![a] = "dropped"]
    /\ IF gen[a] = generation THEN SetState("idle") ELSE UNCHANGED <<state, confirm>>
    /\ \/ UNCHANGED <<recorder, stream>>
       \/ enabled /\ gen[a] = generation /\ recorder' = a /\ stream' = a
    /\ UNCHANGED <<enabled, generation, timers, discarded, gen, live>>

\* The microphone is unplugged: the recorder stops by itself.
TracksEnd(a) ==
    /\ phase[a] = "recording"
    /\ phase' = [phase EXCEPT ![a] = "stopping"]
    /\ live' = [live EXCEPT ![a] = FALSE]
    /\ UNCHANGED <<enabled, generation, state, recorder, stream, timers, confirm,
                   discarded, gen>>

\* The callback of an interval that finds 30 seconds gone.
IntervalFires ==
    /\ intervals # {}
    /\ Recording(recorder)
    /\ StopFrom(phase)
    /\ UNCHANGED <<enabled, generation, state, recorder, stream, confirm,
                   discarded, gen, live>>

-----------------------------------------------------------------------------
(* The cancel confirmation: closed, armed, enabled (600 ms later), or late *)
(* (600 ms later without a recording).                                     *)

ArmCancellation ==
    /\ state = "recording" /\ Recording(recorder)
    /\ confirm = "closed"
    /\ confirm' = "armed"
    /\ UNCHANGED <<enabled, generation, state, recorder, stream, timers, discarded,
                   phase, gen, live>>

EnableDiscard ==
    /\ confirm = "armed"
    /\ confirm' = IF Recording(recorder) THEN "enabled" ELSE "late"
    /\ UNCHANGED <<enabled, generation, state, recorder, stream, timers, discarded,
                   phase, gen, live>>

\* The button, or the timer after 4.6 seconds.
ContinueRecording ==
    /\ confirm # "closed"
    /\ confirm' = "closed"
    /\ UNCHANGED <<enabled, generation, state, recorder, stream, timers, discarded,
                   phase, gen, live>>

DiscardRecording ==
    /\ confirm = "enabled"
    /\ Recording(recorder)
    /\ discarded' = discarded \cup {recorder}
    /\ confirm' = "closed"
    /\ StopFrom(phase)
    /\ UNCHANGED <<enabled, generation, state, recorder, stream, gen, live>>

-----------------------------------------------------------------------------
(* handleStop                                                              *)

Release(a) ==
    /\ StopRecordingProgress
    /\ live' = [live EXCEPT ![a] = FALSE]
    /\ stream' = IF stream = a THEN NoAttempt ELSE stream
    /\ recorder' = IF recorder = a THEN NoAttempt ELSE recorder

\* Fault: only the recorder that is still this.recorder is uploaded.
StopEventOfCurrent(a) ==
    /\ phase[a] = "stopping"
    /\ Release(a)
    /\ \/ /\ a \in discarded \/ ~enabled \/ gen[a] # generation \/ recorder # a
          /\ phase' = [phase EXCEPT ![a] = "dropped"]
          /\ SetState(Idle)
       \/ /\ a \notin discarded /\ enabled /\ gen[a] = generation /\ recorder = a
          /\ phase' = [phase EXCEPT ![a] = "uploading"]
          /\ SetState("uploading")
    /\ discarded' = discarded \ {a}
    /\ UNCHANGED <<enabled, generation, gen>>

StopEvent(a) ==
    /\ phase[a] = "stopping"
    /\ Release(a)
    /\ \/ /\ a \in discarded \/ ~enabled \/ gen[a] # generation
          /\ phase' = [phase EXCEPT ![a] = "dropped"]
          /\ SetState(Idle)
       \/ /\ a \notin discarded /\ enabled /\ gen[a] = generation
          /\ phase' = [phase EXCEPT ![a] = "uploading"]
          /\ SetState("uploading")
    /\ discarded' = discarded \ {a}
    /\ UNCHANGED <<enabled, generation, gen>>

\* The upload ends, well or not; the result is shown to whoever is signed in.
UploadEnds(a) ==
    /\ phase[a] = "uploading"
    /\ phase' = [phase EXCEPT ![a] = "uploaded"]
    /\ IF enabled THEN SetState("idle") ELSE UNCHANGED <<state, confirm>>
    /\ UNCHANGED <<enabled, generation, recorder, stream, timers, discarded, gen, live>>

\* It ends with a 401: ApiClient has ended the session before the catch.
UploadUnauthorized(a) ==
    /\ phase[a] = "uploading"
    /\ ResetFrom([phase EXCEPT ![a] = "uploaded"])

Session == Enable \/ ResetRecorder
Confirmation ==
    ArmCancellation \/ EnableDiscard \/ ContinueRecording \/ DiscardRecording

RecorderNext ==
    \/ Session \/ ClickStop \/ IntervalFires \/ Confirmation
    \/ \E a \in Attempts : \/ ClickStart(a) \/ Granted(a) \/ NotGranted(a)
                           \/ TracksEnd(a) \/ StopEvent(a)
                           \/ UploadEnds(a) \/ UploadUnauthorized(a)

RecorderSpec == RecorderInit /\ [][RecorderNext]_recorderVars

(***************************************************************************)
(* Fairness: the browser delivers queued events and runs its intervals.    *)
(* Nothing is assumed of the user, the permission prompt or the network.   *)
(***************************************************************************)
RecorderFairSpec ==
    /\ RecorderSpec
    /\ WF_recorderVars(IntervalFires)
    /\ \A a \in Attempts : WF_recorderVars(StopEvent(a))

-----------------------------------------------------------------------------
RecorderTypeOK ==
    /\ enabled \in BOOLEAN
    /\ generation \in 0 .. MaxResets
    /\ state \in {"disabled", "idle", "requesting", "recording", "uploading"}
    /\ state = "disabled" <=> ~enabled
    /\ {recorder, stream, interval} \subseteq Attempts \cup {NoAttempt}
    /\ intervals \subseteq Attempts /\ discarded \subseteq Attempts
    /\ confirm \in {"closed", "armed", "enabled", "late"}
    /\ confirm # "closed" => state = "recording"
    /\ phase \in [Attempts -> {"none", "asking", "recording", "stopping",
                               "uploading", "uploaded", "dropped"}]
    /\ gen \in [Attempts -> 0 .. MaxResets]
    /\ live \in [Attempts -> BOOLEAN]

(***************************************************************************)
(* No stream stays open without a recorder that will release it, whichever *)
(* way the attempt ended: refused, thrown, stale, discarded, unplugged.    *)
(***************************************************************************)
NoOpenStreamWithoutRecorder ==
    \A a \in Attempts : live[a] => phase[a] \in {"recording", "stopping"}

(***************************************************************************)
(* What the page records, it records for the user who pressed the button:  *)
(* a permission given after that user's session ended, even in the next    *)
(* session, starts no recorder, and the end of a session leaves none on    *)
(* that the page still controls.                                           *)
(***************************************************************************)
RecordsForThisSession ==
    Recording(recorder) => enabled /\ gen[recorder] = generation

(***************************************************************************)
(* A recording that was stopped and not discarded is uploaded, unless the  *)
(* session ends first, whatever is clicked before the stop event comes.    *)
(***************************************************************************)
StoppedIsUploaded ==
    \A a \in Attempts :
        phase[a] = "stopping" /\ a \notin discarded
        ~> phase[a] \in {"uploading", "uploaded"} \/ gen[a] # generation
=============================================================================
