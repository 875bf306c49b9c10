------------------------- MODULE GuestUploadLimiter -------------------------
(***************************************************************************)
(* backend/guest.py, class GuestUploadLimiter, as record() in              *)
(* backend/notes_routes.py drives it: acquire() when a guest upload        *)
(* starts, release() in the finally clause when it ends.  All calls run on *)
(* the event loop, so each is one atomic step.                             *)
(*                                                                         *)
(* An entry of a deque is written as the upload whose start it records;    *)
(* the float stored by the code is startedAt of that upload.  A session    *)
(* that the code's dict does not hold is mapped to the empty sequence:     *)
(* _prune_sessions deletes every empty deque and acquire() never stores    *)
(* one, so the two are the same.                                           *)
(***************************************************************************)
EXTENDS Integers, Sequences, FiniteSets

CONSTANTS Requests, Sessions, PerSessionLimit, GlobalLimit, WindowSeconds,
          ConcurrentLimit, MaxTime

\* config.py refuses to start unless each control is at least 1.
ASSUME LimiterLimits ==
    /\ PerSessionLimit \in Nat \ {0}
    /\ GlobalLimit \in Nat \ {0}
    /\ WindowSeconds \in Nat \ {0}
    /\ ConcurrentLimit \in Nat \ {0}
ASSUME LimiterRequests == IsFiniteSet(Requests)
ASSUME LimiterTime == MaxTime \in Nat

VARIABLES now, session, phase, startedAt,  \* see GuestAdmission
          globalAttempts,   \* _global_attempts
          sessionAttempts,  \* _session_attempts
          active            \* _active

vars == <<now, session, phase, startedAt,
          globalAttempts, sessionAttempts, active>>

\* The limiter's promise, over the variables that callers can observe.
Admission == INSTANCE GuestAdmission

\* Fault: an entry exactly at the cutoff is kept.
PruneLate(attempts, cutoff) ==
    LET kept == {i \in DOMAIN attempts : startedAt[attempts[i]] >= cutoff}
    IN  IF kept = {}
        THEN <<>>
        ELSE LET first == CHOOSE i \in kept : \A j \in kept : i <= j
             IN  SubSeq(attempts, first, Len(attempts))

\* _prune: drop entries from the left until the first one after the cutoff.
Prune(attempts, cutoff) ==
    LET kept == {i \in DOMAIN attempts : startedAt[attempts[i]] > cutoff}
    IN  IF kept = {}
        THEN <<>>
        ELSE LET first == CHOOSE i \in kept : \A j \in kept : i <= j
             IN  SubSeq(attempts, first, Len(attempts))

cutoff == now - WindowSeconds
PrunedGlobal == Prune(globalAttempts, cutoff)
PrunedSessions == [s \in Sessions |-> Prune(sessionAttempts[s], cutoff)]

-----------------------------------------------------------------------------
Init ==
    /\ Admission!AdmissionInit
    /\ globalAttempts = <<>>
    /\ sessionAttempts = [s \in Sessions |-> <<>>]
    /\ active = 0

Tick ==
    /\ Admission!Tick
    /\ UNCHANGED <<globalAttempts, sessionAttempts, active>>

\* acquire() prunes before it tests, so a refusal changes the deques too.
RateLimited(r) ==
    \/ Len(PrunedSessions[session[r]]) >= PerSessionLimit
    \/ Len(PrunedGlobal) >= GlobalLimit

Acquire(r) ==
    /\ phase[r] = "new"
    /\ ~RateLimited(r)
    /\ active < ConcurrentLimit
    /\ sessionAttempts' =
         [PrunedSessions EXCEPT ![session[r]] = Append(@, r)]
    /\ globalAttempts' = Append(PrunedGlobal, r)
    /\ active' = active + 1
    /\ startedAt' = [startedAt EXCEPT ![r] = now]
    /\ phase' = [phase EXCEPT ![r] = "active"]
    /\ UNCHANGED <<now, session>>

\* GuestUploadRateLimited (429) or, the rates being fine, GuestUploadBusy (503).
AcquireRefused(r) ==
    /\ phase[r] = "new"
    /\ \/ /\ RateLimited(r)
          /\ phase' = [phase EXCEPT ![r] = "limited"]
       \/ /\ ~RateLimited(r)
          /\ active >= ConcurrentLimit
          /\ phase' = [phase EXCEPT ![r] = "busy"]
    /\ globalAttempts' = PrunedGlobal
    /\ sessionAttempts' = PrunedSessions
    /\ UNCHANGED <<now, session, startedAt, active>>

\* record()'s finally clause; release() raises when _active is below 1.
Release(r) ==
    /\ phase[r] = "active"
    /\ active >= 1
    /\ active' = active - 1
    /\ phase' = [phase EXCEPT ![r] = "done"]
    /\ UNCHANGED <<now, session, startedAt, globalAttempts, sessionAttempts>>

\* The limiter lives in the backend process and starts empty with it.
Restart ==
    /\ Admission!Restart
    /\ globalAttempts' = <<>>
    /\ sessionAttempts' = [s \in Sessions |-> <<>>]
    /\ active' = 0

Next ==
    \/ Tick
    \/ Restart
    \/ \E r \in Requests : Acquire(r) \/ AcquireRefused(r) \/ Release(r)

Spec == Init /\ [][Next]_vars

-----------------------------------------------------------------------------
TypeOK ==
    /\ Admission!AdmissionTypeOK
    /\ globalAttempts \in Seq(Requests)
    /\ sessionAttempts \in [Sessions -> Seq(Requests)]
    /\ active \in Nat

(***************************************************************************)
(* The counter is the number of uploads between acquire and release, so    *)
(* release() never raises and no slot leaks, whatever order the uploads    *)
(* end in.                                                                 *)
(***************************************************************************)
SlotsMatchInFlight ==
    /\ active = Cardinality(Admission!InFlight)
    /\ active <= ConcurrentLimit

Entries(attempts) == {attempts[i] : i \in DOMAIN attempts}

(***************************************************************************)
(* The deques hold exactly the starts they must: every start still inside  *)
(* the window is in the global deque and in the deque of its session, and  *)
(* a session's deque holds nothing of another session.  A start lost from  *)
(* one deque would let an upload through that the other counts.            *)
(***************************************************************************)
DequesHoldWindow ==
    /\ Admission!StartedIn(now) \subseteq Entries(globalAttempts)
    /\ Entries(globalAttempts) \subseteq Admission!Admitted
    /\ \A s \in Sessions :
         /\ Admission!StartedBy(s, now) \subseteq Entries(sessionAttempts[s])
         /\ Entries(sessionAttempts[s]) \subseteq
              {r \in Admission!Admitted : session[r] = s}

(***************************************************************************)
(* The rolling window itself (see GuestAdmission), of the deque limiter.   *)
(***************************************************************************)
RollingWindow == Admission!RollingWindow

(***************************************************************************)
(* Every behaviour of the limiter is one the promise allows: an acquire    *)
(* that succeeds is admitted, one that raises was over a real limit and    *)
(* reports the right one.                                                  *)
(***************************************************************************)
ImplementsAdmission == Admission!AdmissionSpec
=============================================================================
