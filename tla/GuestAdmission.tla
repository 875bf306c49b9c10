--------------------------- MODULE GuestAdmission ---------------------------
(***************************************************************************)
(* What the guest upload limiter promises, with no data structure: within  *)
(* any window of WindowSeconds at most PerSessionLimit uploads of one      *)
(* session and GlobalLimit uploads of all sessions start, at most          *)
(* ConcurrentLimit are in progress, and an upload is refused only when one *)
(* of these limits is really reached.  GuestUploadLimiter implements it    *)
(* with the deques and the counter of backend/guest.py; Recording composes *)
(* it with the upload pipeline of backend/notes_routes.py.                 *)
(***************************************************************************)
EXTENDS Naturals, FiniteSets

CONSTANTS Requests,         \* guest uploads that may arrive
          Sessions,         \* values of the session's login_nonce
          PerSessionLimit,  \* GUEST_UPLOADS_PER_WINDOW
          GlobalLimit,      \* GUEST_GLOBAL_UPLOADS_PER_WINDOW
          WindowSeconds,    \* GUEST_UPLOAD_WINDOW_SECONDS
          ConcurrentLimit,  \* GUEST_CONCURRENT_UPLOADS
          MaxTime           \* bound on the clock

\* config.py refuses to start unless each control is at least 1.
ASSUME LimitsPositive ==
    /\ PerSessionLimit \in Nat \ {0}
    /\ GlobalLimit \in Nat \ {0}
    /\ WindowSeconds \in Nat \ {0}
    /\ ConcurrentLimit \in Nat \ {0}
ASSUME RequestsFinite == IsFiniteSet(Requests)
ASSUME MaxTimeNat == MaxTime \in Nat

VARIABLES now,        \* time.monotonic(), in whole seconds
          session,    \* the session each upload belongs to
          phase,      \* how far each upload got
          startedAt   \* when it was admitted; 0 before that

admissionVars == <<now, session, phase, startedAt>>

\* "lost": started before the last restart, which the limiter has forgotten.
Phases == {"new", "active", "done", "limited", "busy", "lost"}

Admitted == {r \in Requests : phase[r] \in {"active", "done"}}
InFlight == {r \in Requests : phase[r] = "active"}

\* The uploads that started in the window (t - WindowSeconds, t].
StartedIn(t) ==
    {r \in Admitted : startedAt[r] + WindowSeconds > t /\ startedAt[r] <= t}
StartedBy(s, t) == {r \in StartedIn(t) : session[r] = s}

OverRate(r) ==
    \/ Cardinality(StartedBy(session[r], now)) >= PerSessionLimit
    \/ Cardinality(StartedIn(now)) >= GlobalLimit
OverConcurrency == Cardinality(InFlight) >= ConcurrentLimit

-----------------------------------------------------------------------------
AdmissionInit ==
    /\ now = 0
    /\ session \in [Requests -> Sessions]
    /\ phase = [r \in Requests |-> "new"]
    /\ startedAt = [r \in Requests |-> 0]

Tick ==
    /\ now < MaxTime
    /\ now' = now + 1
    /\ UNCHANGED <<session, phase, startedAt>>

Admit(r) ==
    /\ phase[r] = "new"
    /\ ~OverRate(r)
    /\ ~OverConcurrency
    /\ phase' = [phase EXCEPT ![r] = "active"]
    /\ startedAt' = [startedAt EXCEPT ![r] = now]
    /\ UNCHANGED <<now, session>>

\* The rate limits are tested before the concurrency limit.
Refuse(r) ==
    /\ phase[r] = "new"
    /\ OverRate(r) \/ OverConcurrency
    /\ phase' = [phase EXCEPT ![r] = IF OverRate(r) THEN "limited" ELSE "busy"]
    /\ UNCHANGED <<now, session, startedAt>>

Finish(r) ==
    /\ phase[r] = "active"
    /\ phase' = [phase EXCEPT ![r] = "done"]
    /\ UNCHANGED <<now, session, startedAt>>

\* The limits are process-local: a restart starts the counting anew.
Restart ==
    /\ phase' = [r \in Requests |->
                   IF r \in Admitted THEN "lost" ELSE phase[r]]
    /\ UNCHANGED <<now, session, startedAt>>

AdmissionNext ==
    \/ Tick
    \/ Restart
    \/ \E r \in Requests : Admit(r) \/ Refuse(r) \/ Finish(r)

AdmissionSpec == AdmissionInit /\ [][AdmissionNext]_admissionVars

-----------------------------------------------------------------------------
AdmissionTypeOK ==
    /\ now \in Nat
    /\ session \in [Requests -> Sessions]
    /\ phase \in [Requests -> Phases]
    /\ startedAt \in [Requests -> Nat]

(***************************************************************************)
(* No window of WindowSeconds, wherever it ends, holds more starts of one  *)
(* session than PerSessionLimit or more starts in all than GlobalLimit:    *)
(* the "rolling window" of GuestUploadLimiter.acquire.  A limiter that     *)
(* counted per fixed period would pass a test inside one period and let    *)
(* twice the limit through across its border.  Starts that a restart has   *)
(* made the process forget are not counted, as OPERATING.md says.          *)
(***************************************************************************)
RollingWindow ==
    \A t \in 0 .. MaxTime :
        /\ Cardinality(StartedIn(t)) <= GlobalLimit
        /\ \A s \in Sessions : Cardinality(StartedBy(s, t)) <= PerSessionLimit

\* At most ConcurrentLimit guest uploads are between acquire and release.
ConcurrencyBounded == Cardinality(InFlight) <= ConcurrentLimit
=============================================================================
