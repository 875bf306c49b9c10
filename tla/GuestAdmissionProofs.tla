------------------------ MODULE GuestAdmissionProofs ------------------------
(***************************************************************************)
(* The promise of the guest limiter, proved for any set of uploads and     *)
(* sessions, any limits, any window and any length of run.                 *)
(***************************************************************************)
EXTENDS GuestAdmission, FiniteSetTheorems, TLAPS

\* No start lies in the future; with it, the bounds are inductive.
StartsInPast == \A r \in Admitted : startedAt[r] <= now

AdmissionInv ==
    /\ AdmissionTypeOK
    /\ now <= MaxTime
    /\ StartsInPast
    /\ ConcurrencyBounded
    /\ RollingWindow

\* Every set of uploads that the bounds count is finite.
LEMMA CountsFinite ==
    /\ IsFiniteSet(Admitted) /\ IsFiniteSet(InFlight)
    /\ \A t : IsFiniteSet(StartedIn(t))
    /\ \A s, t : IsFiniteSet(StartedBy(s, t))
<1>1. \A S \in SUBSET Requests : IsFiniteSet(S)
  BY RequestsFinite, FS_Subset
<1>2. /\ Admitted \in SUBSET Requests
      /\ InFlight \in SUBSET Requests
      /\ \A t : StartedIn(t) \in SUBSET Requests
      /\ \A s, t : StartedBy(s, t) \in SUBSET Requests
  BY DEF Admitted, InFlight, StartedIn, StartedBy
<1> QED
  BY <1>1, <1>2

\* A subset of a finite set and one more element: the count grows by one at most.
LEMMA CountWithOneMore ==
    ASSUME NEW S, IsFiniteSet(S), NEW x, NEW T \in SUBSET (S \cup {x})
    PROVE  /\ Cardinality(T) \in Nat
           /\ Cardinality(S) \in Nat
           /\ Cardinality(T) <= Cardinality(S) + 1
<1>1. IsFiniteSet(S \cup {x}) /\ Cardinality(S \cup {x}) <= Cardinality(S) + 1
      /\ Cardinality(S) \in Nat
  BY FS_AddElement, FS_CardinalityType
<1>2. IsFiniteSet(T) /\ Cardinality(T) <= Cardinality(S \cup {x})
  BY <1>1, FS_Subset
<1>3. Cardinality(T) \in Nat /\ Cardinality(S \cup {x}) \in Nat
  BY <1>1, <1>2, FS_CardinalityType
<1> QED
  BY <1>1, <1>2, <1>3

LEMMA AdmissionInitial == AdmissionInit => AdmissionInv
<1> SUFFICES ASSUME AdmissionInit PROVE AdmissionInv
  OBVIOUS
<1>1. AdmissionTypeOK
  BY DEF AdmissionInit, AdmissionTypeOK, Phases
<1>2. Admitted = {} /\ InFlight = {}
  BY DEF AdmissionInit, Admitted, InFlight
<1>3. \A s, t : StartedIn(t) = {} /\ StartedBy(s, t) = {}
  BY <1>2 DEF StartedIn, StartedBy
<1>4. StartsInPast /\ now <= MaxTime
  BY <1>2, MaxTimeNat DEF StartsInPast, AdmissionInit
<1>5. ConcurrencyBounded /\ RollingWindow
  BY <1>2, <1>3, FS_EmptySet, LimitsPositive DEF ConcurrencyBounded, RollingWindow
<1> QED
  BY <1>1, <1>4, <1>5 DEF AdmissionInv

LEMMA TypeStep == AdmissionTypeOK /\ [AdmissionNext]_admissionVars => AdmissionTypeOK'
<1> SUFFICES ASSUME AdmissionTypeOK, [AdmissionNext]_admissionVars
             PROVE  AdmissionTypeOK'
  OBVIOUS
<1> USE DEF AdmissionTypeOK, Phases
<1>1. CASE Tick
  BY <1>1 DEF Tick
<1>2. CASE Restart
  BY <1>2 DEF Restart
<1>3. ASSUME NEW r \in Requests, Admit(r) \/ Refuse(r) \/ Finish(r)
      PROVE  AdmissionTypeOK'
  BY <1>3 DEF Admit, Refuse, Finish
<1>4. CASE UNCHANGED admissionVars
  BY <1>4 DEF admissionVars
<1> QED
  BY <1>1, <1>2, <1>3, <1>4 DEF AdmissionNext

(***************************************************************************)
(* The step that can fill a window.  A window that ends now or later holds *)
(* after the step only starts of the window that ends now, which was not   *)
(* full, and the new one; an earlier window is as it was.                  *)
(***************************************************************************)
LEMMA AdmitKeepsWindow ==
    ASSUME AdmissionInv, NEW r \in Requests, Admit(r)
    PROVE  RollingWindow'
<1>1. /\ Admitted' = Admitted \cup {r} /\ r \notin Admitted
      /\ now' = now /\ session' = session
      /\ startedAt' = [startedAt EXCEPT ![r] = now]
  BY DEF AdmissionInv, AdmissionTypeOK, Admit, Admitted
<1>2. \A q \in Requests : startedAt[q] \in Nat /\ startedAt'[q] \in Nat
  BY <1>1 DEF AdmissionInv, AdmissionTypeOK
<1>3. now \in Nat /\ WindowSeconds \in Nat
  BY LimitsPositive DEF AdmissionInv, AdmissionTypeOK
<1>4. \A q \in Admitted : q \in Requests /\ q # r /\ startedAt'[q] = startedAt[q]
  BY <1>1 DEF AdmissionInv, AdmissionTypeOK, Admitted
<1>5. startedAt'[r] = now
  BY <1>1 DEF AdmissionInv, AdmissionTypeOK
<1>6. PICK own \in Sessions : own = session[r]
  BY DEF AdmissionInv, AdmissionTypeOK
<1>7. ASSUME NEW t \in 0 .. MaxTime
      PROVE  /\ Cardinality(StartedIn(t)') <= GlobalLimit
             /\ \A s \in Sessions : Cardinality(StartedBy(s, t)') <= PerSessionLimit
  <2>1. CASE t < now
    <3>1. StartedIn(t)' = StartedIn(t)
      BY <1>1, <1>3, <1>4, <1>5, <2>1, MaxTimeNat DEF StartedIn
    <3>2. \A s : StartedBy(s, t)' = StartedBy(s, t)
      BY <3>1, <1>1 DEF StartedBy
    <3> QED
      BY <3>1, <3>2 DEF AdmissionInv, RollingWindow
  <2>2. CASE t >= now
    <3>1. StartedIn(t)' \subseteq StartedIn(now) \cup {r}
      BY <1>1, <1>2, <1>3, <1>4, <2>2, MaxTimeNat
         DEF StartedIn, AdmissionInv, StartsInPast
    <3>2. ASSUME NEW s \in Sessions, s # own
          PROVE  StartedBy(s, t)' \subseteq StartedBy(s, now)
      BY <3>1, <3>2, <1>1, <1>6 DEF StartedBy
    <3>3. StartedBy(own, t)' \subseteq StartedBy(own, now) \cup {r}
      BY <3>1, <1>1 DEF StartedBy
    <3>4. Cardinality(StartedIn(now)) < GlobalLimit
          /\ Cardinality(StartedBy(own, now)) < PerSessionLimit
      BY <1>6, LimitsPositive, CountsFinite, FS_CardinalityType DEF Admit, OverRate
    <3>5. Cardinality(StartedIn(t)') <= GlobalLimit
      <4>1. /\ Cardinality(StartedIn(t)') \in Nat
            /\ Cardinality(StartedIn(now)) \in Nat
            /\ Cardinality(StartedIn(t)') <= Cardinality(StartedIn(now)) + 1
        BY <3>1, CountWithOneMore, CountsFinite
      <4> QED
        BY <4>1, <3>4, LimitsPositive
    <3>6. Cardinality(StartedBy(own, t)') <= PerSessionLimit
      BY <3>3, <3>4, CountWithOneMore, CountsFinite, LimitsPositive
    <3>7. ASSUME NEW s \in Sessions, s # own
          PROVE  Cardinality(StartedBy(s, t)') <= PerSessionLimit
      <4>1. now \in 0 .. MaxTime
        BY <1>3, MaxTimeNat DEF AdmissionInv
      <4>2. Cardinality(StartedBy(s, now)) <= PerSessionLimit
        BY <4>1 DEF AdmissionInv, RollingWindow
      <4>3. StartedBy(s, t)' \subseteq StartedBy(s, now)
        BY <3>2, <3>7
      <4>4. Cardinality(StartedBy(s, t)') <= Cardinality(StartedBy(s, now))
            /\ IsFiniteSet(StartedBy(s, t)')
        BY <4>3, FS_Subset, CountsFinite
      <4>5. Cardinality(StartedBy(s, t)') \in Nat /\ Cardinality(StartedBy(s, now)) \in Nat
        BY <4>4, CountsFinite, FS_CardinalityType
      <4> QED
        BY <4>2, <4>4, <4>5, LimitsPositive
    <3> QED
      BY <3>5, <3>6, <3>7
  <2> QED
    BY <2>1, <2>2, <1>3, MaxTimeNat
<1> QED
  BY <1>7 DEF RollingWindow

\* The steps that start nothing leave every window as it is, or empty it.
LEMMA OthersKeepWindow ==
    ASSUME AdmissionInv, AdmissionTypeOK',
           \/ Tick \/ Restart \/ UNCHANGED admissionVars
           \/ \E r \in Requests : Refuse(r) \/ Finish(r)
    PROVE  RollingWindow'
<1>1. CASE Restart
  <2>1. Admitted' = {}
    BY <1>1 DEF Restart, Admitted, AdmissionInv, AdmissionTypeOK
  <2>2. \A s, t : StartedIn(t)' = {} /\ StartedBy(s, t)' = {}
    BY <2>1 DEF StartedIn, StartedBy
  <2> QED
    BY <2>2, FS_EmptySet, LimitsPositive DEF RollingWindow
<1>2. CASE ~Restart
  <2>1. Admitted' = Admitted /\ session' = session /\ startedAt' = startedAt
    BY <1>2 DEF Tick, Refuse, Finish, admissionVars, Admitted,
                AdmissionInv, AdmissionTypeOK
  <2>2. \A s, t : StartedIn(t)' = StartedIn(t) /\ StartedBy(s, t)' = StartedBy(s, t)
    BY <2>1 DEF StartedIn, StartedBy
  <2> QED
    BY <2>2 DEF AdmissionInv, RollingWindow
<1> QED
  BY <1>1, <1>2

\* The number of uploads in flight grows only when it is below the limit.
LEMMA ConcurrencyStep ==
    AdmissionInv /\ [AdmissionNext]_admissionVars => ConcurrencyBounded'
<1> SUFFICES ASSUME AdmissionInv, [AdmissionNext]_admissionVars
             PROVE  ConcurrencyBounded'
  OBVIOUS
<1>1. ASSUME NEW r \in Requests, Admit(r)
      PROVE  ConcurrencyBounded'
  <2>1. InFlight' \subseteq InFlight \cup {r}
    BY <1>1 DEF Admit, InFlight, AdmissionInv, AdmissionTypeOK
  <2>2. Cardinality(InFlight) < ConcurrentLimit
    BY <1>1, LimitsPositive, CountsFinite, FS_CardinalityType
       DEF Admit, OverConcurrency
  <2> QED
    BY <2>1, <2>2, CountWithOneMore, CountsFinite, LimitsPositive
       DEF ConcurrencyBounded
<1>2. CASE ~\E r \in Requests : Admit(r)
  <2>1. InFlight' \subseteq InFlight
    BY <1>2 DEF AdmissionNext, Tick, Restart, Refuse, Finish, admissionVars,
                InFlight, Admitted, AdmissionInv, AdmissionTypeOK
  <2>2. Cardinality(InFlight') <= Cardinality(InFlight) /\ IsFiniteSet(InFlight')
    BY <2>1, FS_Subset, CountsFinite
  <2>3. Cardinality(InFlight') \in Nat /\ Cardinality(InFlight) \in Nat
    BY <2>2, CountsFinite, FS_CardinalityType
  <2> QED
    BY <2>2, <2>3, LimitsPositive DEF ConcurrencyBounded, AdmissionInv
<1> QED
  BY <1>1, <1>2

LEMMA AdmissionStep ==
    AdmissionInv /\ [AdmissionNext]_admissionVars => AdmissionInv'
<1> SUFFICES ASSUME AdmissionInv, [AdmissionNext]_admissionVars
             PROVE  AdmissionInv'
  OBVIOUS
<1>1. AdmissionTypeOK'
  BY TypeStep DEF AdmissionInv
<1>2. (now <= MaxTime)' /\ now <= now'
  BY MaxTimeNat DEF AdmissionInv, AdmissionTypeOK, AdmissionNext, Tick, Restart,
                    Admit, Refuse, Finish, admissionVars
<1>3. StartsInPast'
  BY <1>1, <1>2, MaxTimeNat
     DEF AdmissionInv, AdmissionTypeOK, StartsInPast, Admitted, AdmissionNext,
         Tick, Restart, Admit, Refuse, Finish, admissionVars
<1>4. ConcurrencyBounded'
  BY ConcurrencyStep
<1>5. RollingWindow'
  BY <1>1, AdmitKeepsWindow, OthersKeepWindow DEF AdmissionNext
<1> QED
  BY <1>1, <1>2, <1>3, <1>4, <1>5 DEF AdmissionInv

\* The inductive invariant holds in every reachable state.
THEOREM AdmissionInvariant == AdmissionSpec => []AdmissionInv
<1> QED
  BY AdmissionInitial, AdmissionStep, PTL DEF AdmissionSpec

(***************************************************************************)
(* In every reachable state, no window of WindowSeconds holds more starts  *)
(* than the limits of GuestUploadLimiter.acquire allow, and no more than   *)
(* ConcurrentLimit uploads are in progress.                                *)
(***************************************************************************)
THEOREM AdmissionKeepsLimits == AdmissionSpec => [](RollingWindow /\ ConcurrencyBounded)
<1>1. AdmissionInv => RollingWindow /\ ConcurrencyBounded
  BY DEF AdmissionInv
<1> QED
  BY <1>1, AdmissionInvariant, PTL
=============================================================================
