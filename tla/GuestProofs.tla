---------------------------- MODULE GuestProofs ----------------------------
(***************************************************************************)
(* What the backend does with guests.  First the limiter of                *)
(* backend/guest.py: it implements the promise of GuestAdmission, for any  *)
(* uploads, sessions, limits and window.                                   *)
(*                                                                         *)
(* The argument: each deque lists, without repetition and in the order of  *)
(* their starts, uploads of the set it stands for, and misses none that    *)
(* is still inside the window.  So a pruned deque holds exactly the starts *)
(* in the window, and its length is the number the promise speaks of.      *)
(*                                                                         *)
(* Then the retention of what they uploaded (GuestRetention), for any      *)
(* notes, retention, period and number of interruptions.                   *)
(***************************************************************************)
EXTENDS GuestUploadLimiter, GuestRetention, FiniteSetTheorems,
        SequenceTheorems, TLAPS

\* attempts is the deque of the uploads S, up to what has left the window.
Tracks(attempts, S, start, from) ==
    /\ attempts \in Seq(Requests)
    /\ \A i \in 1 .. Len(attempts) : attempts[i] \in S
    /\ \A i, j \in 1 .. Len(attempts) :
         i < j => /\ attempts[i] # attempts[j]
                  /\ start[attempts[i]] <= start[attempts[j]]
    /\ \A r \in S : start[r] > from =>
         \E i \in 1 .. Len(attempts) : attempts[i] = r

\* What is left of such a deque once everything up to the cutoff is gone.
Pruned(attempts, S, start, from) ==
    /\ Tracks(attempts, S, start, from)
    /\ \A i \in 1 .. Len(attempts) : start[attempts[i]] > from

OfSession(s) == {r \in Admission!Admitted : session[r] = s}

LimiterInv ==
    /\ TypeOK
    /\ \A r \in Admission!Admitted : startedAt[r] <= now
    /\ active = Cardinality(Admission!InFlight)
    /\ active <= ConcurrentLimit
    /\ Tracks(globalAttempts, Admission!Admitted, startedAt, cutoff)
    /\ \A s \in Sessions :
         Tracks(sessionAttempts[s], OfSession(s), startedAt, cutoff)

-----------------------------------------------------------------------------
\* A nonempty set of naturals has a least element.
LEMMA LeastElement ==
    ASSUME NEW T \in SUBSET Nat, T # {}
    PROVE  \E x \in T : \A y \in T : x <= y
<1>1. PICK x \in T : \A y \in T : ~(<<y, x>> \in OpToRel(<, Nat))
  BY WFMin, NatLessThanWellFounded
<1>2. \A y \in T : ~(y < x)
  BY <1>1 DEF OpToRel
<1> QED
  BY <1>2

\* _prune keeps the entries after the cutoff, all of them and nothing else.
LEMMA PruneKeepsWindow ==
    ASSUME startedAt \in [Requests -> Nat], now \in Nat,
           NEW S \in SUBSET Requests, NEW attempts,
           Tracks(attempts, S, startedAt, cutoff)
    PROVE  Pruned(Prune(attempts, cutoff), S, startedAt, cutoff)
<1> DEFINE kept == {i \in DOMAIN attempts : startedAt[attempts[i]] > cutoff}
           p == Prune(attempts, cutoff)
<1>1. attempts \in Seq(Requests) /\ DOMAIN attempts = 1 .. Len(attempts)
      /\ Len(attempts) \in Nat /\ cutoff \in Int
  BY LimiterLimits DEF Tracks, cutoff
<1>2. CASE kept = {}
  <2>1. p = <<>>
    BY <1>2 DEF Prune
  <2> QED
    BY <2>1, <1>1, <1>2 DEF Pruned, Tracks
<1>3. CASE kept # {}
  <2> DEFINE first == CHOOSE i \in kept : \A j \in kept : i <= j
  <2>1. first \in kept /\ \A j \in kept : first <= j
    <3>1. kept \in SUBSET Nat
      BY <1>1
    <3>2. \E i \in kept : \A j \in kept : i <= j
      BY <3>1, <1>3, LeastElement
    <3> QED
      BY <3>2
  <2>2. p = SubSeq(attempts, first, Len(attempts))
    BY <1>3 DEF Prune
  <2>3. first \in 1 .. Len(attempts)
    BY <1>1, <2>1
  <2> HIDE DEF first, p
  <2>4. /\ p \in Seq(Requests)
        /\ Len(p) = Len(attempts) - first + 1
        /\ \A i \in 1 .. Len(p) : p[i] = attempts[first + i - 1]
    BY <1>1, <2>2, <2>3, SubSeqProperties
  <2>5. \A i \in 1 .. Len(p) : first + i - 1 \in 1 .. Len(attempts)
    BY <1>1, <2>3, <2>4
  <2> DEFINE n == Len(attempts)
             m == Len(p)
  <2>a. n \in Nat /\ first \in Nat \ {0} /\ m \in Nat /\ m = n - first + 1
    BY <1>1, <2>3, <2>4
  <2>6. \A i \in 1 .. Len(p) : p[i] \in S
    BY <2>4, <2>5 DEF Tracks
  <2>7. \A i, j \in 1 .. Len(p) :
          i < j => p[i] # p[j] /\ startedAt[p[i]] <= startedAt[p[j]]
    <3>1. SUFFICES ASSUME NEW i \in 1 .. Len(p), NEW j \in 1 .. Len(p), i < j
                   PROVE  p[i] # p[j] /\ startedAt[p[i]] <= startedAt[p[j]]
      OBVIOUS
    <3>2. /\ first + i - 1 \in 1 .. Len(attempts)
          /\ first + j - 1 \in 1 .. Len(attempts)
          /\ first + i - 1 < first + j - 1
      <4>1. i \in 1 .. m /\ j \in 1 .. m /\ i < j
        BY <3>1
      <4> HIDE DEF n, m
      <4>2. first + i - 1 < first + j - 1
        BY <4>1, <2>a
      <4> QED
        BY <4>2, <2>5, <3>1 DEF m
    <3>3. p[i] = attempts[first + i - 1] /\ p[j] = attempts[first + j - 1]
      BY <2>4
    <3> QED
      BY <3>2, <3>3 DEF Tracks
  <2>8. \A r \in S : startedAt[r] > cutoff => \E i \in 1 .. Len(p) : p[i] = r
    <3>1. SUFFICES ASSUME NEW r \in S, startedAt[r] > cutoff
                   PROVE  \E i \in 1 .. Len(p) : p[i] = r
      OBVIOUS
    <3>2. PICK k \in 1 .. Len(attempts) : attempts[k] = r
      BY <3>1 DEF Tracks
    <3>3. first <= k
      BY <1>1, <2>1, <3>1, <3>2
    <3>4. k - first + 1 \in 1 .. Len(p) /\ p[k - first + 1] = r
      <4>1. k \in 1 .. n
        BY <3>2
      <4>2. k - first + 1 \in 1 .. m /\ first + (k - first + 1) - 1 = k
        <5> HIDE DEF n, m
        <5> QED
          BY <4>1, <3>3, <2>a
      <4> QED
        BY <4>2, <2>4, <3>2
    <3> QED
      BY <3>4
  <2>9. \A i \in 1 .. Len(p) : startedAt[p[i]] > cutoff
    <3>1. SUFFICES ASSUME NEW i \in 1 .. Len(p)
                   PROVE  startedAt[p[i]] > cutoff
      OBVIOUS
    <3>2. startedAt[attempts[first]] > cutoff
      BY <2>1
    <3>3. /\ attempts[first] \in Requests /\ attempts[first + i - 1] \in Requests
          /\ p[i] = attempts[first + i - 1]
      <4>1. first + i - 1 \in 1 .. Len(attempts)
        BY <2>5
      <4>2. p[i] = attempts[first + i - 1]
        BY <2>4
      <4>3. \A k \in 1 .. Len(attempts) : attempts[k] \in Requests
        BY <1>1
      <4> QED
        BY <4>1, <4>2, <4>3, <2>3
    <3>4. startedAt[attempts[first]] <= startedAt[attempts[first + i - 1]]
      <4> DEFINE k == first + i - 1
      <4>1. k \in 1 .. n /\ (k = first \/ first < k)
        <5>1. i \in 1 .. m
          OBVIOUS
        <5> HIDE DEF n, m
        <5> QED
          BY <5>1, <2>a
      <4>2. CASE k = first
        BY <3>3, <4>2
      <4>3. CASE first < k
        <5>1. \A x \in 1 .. Len(attempts) :
                first < x => startedAt[attempts[first]] <= startedAt[attempts[x]]
          BY <2>3 DEF Tracks
        <5> QED
          BY <4>1, <4>3, <5>1
      <4> QED
        BY <4>1, <4>2, <4>3
    <3>5. /\ startedAt[attempts[first]] \in Nat
          /\ startedAt[attempts[first + i - 1]] \in Nat
      BY <3>3
    <3> QED
      BY <1>1, <3>2, <3>3, <3>4, <3>5
  <2> QED
    BY <2>4, <2>6, <2>7, <2>8, <2>9 DEF Pruned, Tracks, p
<1> QED
  BY <1>2, <1>3

\* The length of a pruned deque is the number of uploads in the window.
LEMMA PrunedCounts ==
    ASSUME NEW S \in SUBSET Requests, NEW start, NEW from, NEW p,
           Pruned(p, S, start, from)
    PROVE  /\ Len(p) = Cardinality({r \in S : start[r] > from})
           /\ Len(p) \in Nat
<1> DEFINE W == {r \in S : start[r] > from}
           n == Len(p)
<1>1. p \in Seq(Requests) /\ n \in Nat /\ DOMAIN p = 1 .. n
  BY DEF Pruned, Tracks
<1>2. \A i \in 1 .. n : p[i] \in W
  BY DEF Pruned, Tracks
<1>3. \A r \in W : \E i \in 1 .. n : p[i] = r
  BY DEF Pruned, Tracks
<1>4. \A i, j \in 1 .. n : i < j => p[i] # p[j]
  BY DEF Pruned, Tracks
<1> HIDE DEF W, n
<1>5. p \in [1 .. n -> W]
  BY <1>1, <1>2 DEF n
<1>6. \A i, j \in 1 .. n : p[i] = p[j] => i = j
  <2>1. SUFFICES ASSUME NEW i \in 1 .. n, NEW j \in 1 .. n, p[i] = p[j], i # j
                 PROVE  FALSE
    OBVIOUS
  <2>2. i < j \/ j < i
    BY <1>1, <2>1
  <2> QED
    BY <1>4, <2>1, <2>2
<1>7. p \in Bijection(1 .. n, W)
  BY <1>3, <1>5, <1>6 DEF Bijection, Injection, Surjection, IsInjective
<1>8. IsFiniteSet(1 .. n) /\ Cardinality(1 .. n) = n
  BY <1>1, FS_Interval
<1>9. Cardinality(W) = n
  BY <1>7, <1>8, FS_Bijection DEF ExistsBijection
<1> QED
  BY <1>1, <1>9 DEF W, n

\* A start appended to a deque keeps its order, its entries are still distinct.
LEMMA AppendTracks ==
    ASSUME NEW S \in SUBSET Requests, NEW start \in [Requests -> Nat],
           NEW from, NEW p, NEW r \in Requests \ S, NEW t \in Nat,
           Tracks(p, S, start, from),
           \A q \in S : start[q] <= t
    PROVE  Tracks(Append(p, r), S \cup {r}, [start EXCEPT ![r] = t], from)
<1> DEFINE a == Append(p, r)
           n == Len(p)
           later == [start EXCEPT ![r] = t]
<1>1. p \in Seq(Requests) /\ n \in Nat
  BY DEF Tracks
<1>2. /\ a \in Seq(Requests)
      /\ Len(a) = n + 1
      /\ \A i \in 1 .. n : a[i] = p[i]
      /\ a[n + 1] = r
  BY <1>1, AppendProperties
<1>3. later[r] = t /\ \A q \in S : later[q] = start[q]
  OBVIOUS
<1>4. \A i \in 1 .. n : p[i] \in S
  BY DEF Tracks
<1> HIDE DEF a, n, later
<1>5. \A i \in 1 .. n + 1 : i = n + 1 \/ i \in 1 .. n
  BY <1>1
<1>6. \A i \in 1 .. Len(a) : a[i] \in S \cup {r}
  BY <1>2, <1>4, <1>5
<1>7. ASSUME NEW i \in 1 .. Len(a), NEW j \in 1 .. Len(a), i < j
      PROVE  a[i] # a[j] /\ later[a[i]] <= later[a[j]]
  <2>1. i \in 1 .. n
    BY <1>1, <1>2, <1>7
  <2>2. a[i] = p[i] /\ p[i] \in S
    BY <1>2, <1>4, <2>1
  <2>3. CASE j = n + 1
    BY <1>2, <1>3, <2>2, <2>3
  <2>4. CASE j \in 1 .. n
    <3>1. p[i] # p[j] /\ start[p[i]] <= start[p[j]]
      BY <1>7, <2>1, <2>4 DEF Tracks, n
    <3> QED
      BY <1>2, <1>3, <1>4, <2>2, <2>4, <3>1
  <2> QED
    BY <1>2, <1>5, <2>3, <2>4
<1>8. ASSUME NEW q \in S \cup {r}, later[q] > from
      PROVE  \E i \in 1 .. Len(a) : a[i] = q
  <2>1. CASE q = r
    BY <1>1, <1>2, <2>1
  <2>2. CASE q \in S
    <3>1. PICK i \in 1 .. n : p[i] = q
      BY <1>3, <1>8, <2>2 DEF Tracks, n
    <3>2. i \in 1 .. Len(a) /\ a[i] = q
      BY <1>1, <1>2, <3>1
    <3> QED
      BY <3>2
  <2> QED
    BY <2>1, <2>2
<1>9. Tracks(a, S \cup {r}, later, from)
  BY <1>2, <1>6, <1>7, <1>8 DEF Tracks
<1> QED
  BY <1>9 DEF a, later

\* As the cutoff moves on, a deque may hold too much, never too little.
LEMMA TracksLater ==
    ASSUME NEW S \in SUBSET Requests, NEW start \in [Requests -> Nat],
           NEW from \in Int, NEW to \in Int, from <= to, NEW p,
           Tracks(p, S, start, from)
    PROVE  Tracks(p, S, start, to)
BY DEF Tracks

-----------------------------------------------------------------------------
\* What the type invariant says of the arguments of the lemmas above.
LEMMA Typed ==
    ASSUME TypeOK
    PROVE  /\ now \in Nat /\ cutoff \in Int
           /\ session \in [Requests -> Sessions]
           /\ phase \in [Requests -> Admission!Phases]
           /\ startedAt \in [Requests -> Nat]
           /\ Admission!Admitted \in SUBSET Requests
           /\ \A s : OfSession(s) \in SUBSET Requests
           /\ IsFiniteSet(Admission!InFlight)
<1>1. now \in Nat /\ cutoff \in Int
  BY LimiterLimits DEF TypeOK, Admission!AdmissionTypeOK, cutoff
<1>2. Admission!InFlight \in SUBSET Requests
  BY DEF Admission!InFlight
<1> QED
  BY <1>1, <1>2, LimiterRequests, FS_Subset
     DEF TypeOK, Admission!AdmissionTypeOK, Admission!Admitted, OfSession

\* Pruning every deque, as acquire() does first, leaves exactly the window.
LEMMA PruneAll ==
    ASSUME LimiterInv
    PROVE  /\ Pruned(PrunedGlobal, Admission!Admitted, startedAt, cutoff)
           /\ \A s \in Sessions :
                Pruned(PrunedSessions[s], OfSession(s), startedAt, cutoff)
<1>1. TypeOK
  BY DEF LimiterInv
<1> QED
  BY <1>1, Typed, PruneKeepsWindow
     DEF LimiterInv, PrunedGlobal, PrunedSessions

LEMMA LimiterInitial == Init => LimiterInv
<1> SUFFICES ASSUME Init PROVE LimiterInv
  OBVIOUS
<1>1. Admission!Admitted = {} /\ Admission!InFlight = {}
      /\ \A s : OfSession(s) = {}
  BY DEF Init, Admission!AdmissionInit, Admission!Admitted, Admission!InFlight,
         OfSession
<1>2. TypeOK
  BY DEF Init, TypeOK, Admission!AdmissionInit, Admission!AdmissionTypeOK,
         Admission!Phases
<1>3. \A start, from : Tracks(<<>>, {}, start, from)
  BY DEF Tracks
<1>4. globalAttempts = <<>> /\ \A s \in Sessions : sessionAttempts[s] = <<>>
  BY DEF Init
<1>5. Tracks(globalAttempts, Admission!Admitted, startedAt, cutoff)
  BY <1>1, <1>3, <1>4
<1>6. \A s \in Sessions : Tracks(sessionAttempts[s], OfSession(s), startedAt, cutoff)
  BY <1>1, <1>3, <1>4
<1>7. active = Cardinality(Admission!InFlight) /\ active <= ConcurrentLimit
  BY <1>1, FS_EmptySet, LimiterLimits DEF Init
<1> QED
  BY <1>1, <1>2, <1>5, <1>6, <1>7 DEF LimiterInv

LEMMA AcquireStep ==
    ASSUME LimiterInv, NEW r \in Requests, Acquire(r)
    PROVE  LimiterInv'
<1> DEFINE A == Admission!Admitted
           F == Admission!InFlight
<1>1. TypeOK
  BY DEF LimiterInv
<1>2. /\ phase' = [phase EXCEPT ![r] = "active"]
      /\ startedAt' = [startedAt EXCEPT ![r] = now]
      /\ now' = now /\ session' = session /\ active' = active + 1
      /\ sessionAttempts' =
           [PrunedSessions EXCEPT ![session[r]] = Append(@, r)]
      /\ globalAttempts' = Append(PrunedGlobal, r)
      /\ phase[r] = "new" /\ active < ConcurrentLimit
  BY DEF Acquire
<1>3. cutoff' = cutoff
  BY <1>2 DEF cutoff
<1>4. /\ A' = A \cup {r} /\ r \notin A
      /\ F' = F \cup {r} /\ r \notin F
  BY <1>1, <1>2, Typed DEF Admission!Admitted, Admission!InFlight
<1>5. \A s : OfSession(s)' = IF s = session[r] THEN OfSession(s) \cup {r}
                             ELSE OfSession(s)
  BY <1>2, <1>4 DEF OfSession
<1>6. /\ Pruned(PrunedGlobal, A, startedAt, cutoff)
      /\ \A s \in Sessions :
           Pruned(PrunedSessions[s], OfSession(s), startedAt, cutoff)
  BY PruneAll
<1>7. Tracks(globalAttempts', A', startedAt', cutoff')
  <2>1. \A q \in A : startedAt[q] <= now
    BY DEF LimiterInv
  <2> QED
    BY <1>1, <1>2, <1>3, <1>4, <1>6, <2>1, Typed, AppendTracks DEF Pruned
<1>8. ASSUME NEW s \in Sessions
      PROVE  Tracks(sessionAttempts'[s], OfSession(s)', startedAt', cutoff')
  <2>1. sessionAttempts'[s] = IF s = session[r] THEN Append(PrunedSessions[s], r)
                              ELSE PrunedSessions[s]
    BY <1>2 DEF PrunedSessions
  <2>2. Tracks(PrunedSessions[s], OfSession(s), startedAt, cutoff)
    BY <1>6 DEF Pruned
  <2>3. OfSession(s) \in SUBSET Requests /\ r \notin OfSession(s)
        /\ \A q \in OfSession(s) : startedAt[q] <= now
    BY <1>1, <1>4, Typed DEF OfSession, LimiterInv
  <2>4. CASE s = session[r]
    <3>1. Tracks(Append(PrunedSessions[s], r), OfSession(s) \cup {r},
                 [startedAt EXCEPT ![r] = now], cutoff)
      BY <1>1, <2>2, <2>3, Typed, AppendTracks
    <3>2. OfSession(s)' = OfSession(s) \cup {r}
      BY <1>5, <2>4
    <3> QED
      BY <1>2, <1>3, <2>1, <2>4, <3>1, <3>2
  <2>5. CASE s # session[r]
    <3>1. \A q \in OfSession(s) : startedAt'[q] = startedAt[q]
      BY <1>1, <1>2, <2>3, Typed
    <3> QED
      BY <1>3, <1>5, <2>1, <2>2, <2>5, <3>1 DEF Tracks
  <2> QED
    BY <2>4, <2>5
<1>9. active' = Cardinality(F') /\ active' <= ConcurrentLimit
  <2>1. active = Cardinality(F) /\ active \in Nat /\ IsFiniteSet(F)
    BY <1>1, Typed DEF LimiterInv, TypeOK
  <2>2. Cardinality(F \cup {r}) = Cardinality(F) + 1
    BY <1>4, <2>1, FS_AddElement
  <2> QED
    BY <1>2, <1>4, <2>1, <2>2, LimiterLimits
<1>10. \A q \in A' : startedAt'[q] <= now'
  BY <1>1, <1>2, <1>4, Typed DEF LimiterInv
<1>11. TypeOK'
  <2>1. /\ globalAttempts' \in Seq(Requests)
        /\ \A s \in Sessions : sessionAttempts'[s] \in Seq(Requests)
    BY <1>7, <1>8 DEF Tracks
  <2>2. sessionAttempts' = [s \in Sessions |-> sessionAttempts'[s]]
    BY <1>2 DEF PrunedSessions
  <2>3. Admission!AdmissionTypeOK'
    BY <1>1, <1>2, Typed DEF Admission!AdmissionTypeOK, Admission!Phases
  <2>4. active' \in Nat
    BY <1>1, <1>2 DEF TypeOK
  <2> QED
    BY <2>1, <2>2, <2>3, <2>4 DEF TypeOK
<1> QED
  BY <1>7, <1>8, <1>9, <1>10, <1>11 DEF LimiterInv

LEMMA RefusedStep ==
    ASSUME LimiterInv, NEW r \in Requests, AcquireRefused(r)
    PROVE  LimiterInv'
<1>1. TypeOK
  BY DEF LimiterInv
<1>2. /\ \E p \in {"limited", "busy"} : phase' = [phase EXCEPT ![r] = p]
      /\ phase[r] = "new"
      /\ UNCHANGED <<now, session, startedAt, active>>
      /\ globalAttempts' = PrunedGlobal /\ sessionAttempts' = PrunedSessions
  BY DEF AcquireRefused
<1>3. /\ cutoff' = cutoff
      /\ Admission!Admitted' = Admission!Admitted
      /\ Admission!InFlight' = Admission!InFlight
  BY <1>1, <1>2, Typed DEF cutoff, Admission!Admitted, Admission!InFlight
<1>4. \A s : OfSession(s)' = OfSession(s)
  BY <1>2, <1>3 DEF OfSession
<1>5. /\ Tracks(globalAttempts', Admission!Admitted', startedAt', cutoff')
      /\ \A s \in Sessions :
           Tracks(sessionAttempts'[s], OfSession(s)', startedAt', cutoff')
  BY <1>2, <1>3, <1>4, PruneAll DEF Pruned
<1>6. TypeOK'
  <2>1. /\ globalAttempts' \in Seq(Requests)
        /\ \A s \in Sessions : sessionAttempts'[s] \in Seq(Requests)
    BY <1>5 DEF Tracks
  <2>2. sessionAttempts' = [s \in Sessions |-> sessionAttempts'[s]]
    BY <1>2 DEF PrunedSessions
  <2>3. Admission!AdmissionTypeOK'
    BY <1>1, <1>2, Typed DEF Admission!AdmissionTypeOK, Admission!Phases
  <2> QED
    BY <1>1, <1>2, <2>1, <2>2, <2>3 DEF TypeOK
<1> QED
  BY <1>2, <1>3, <1>5, <1>6 DEF LimiterInv

LEMMA ReleaseStep ==
    ASSUME LimiterInv, NEW r \in Requests, Release(r)
    PROVE  LimiterInv'
<1> DEFINE F == Admission!InFlight
<1>1. TypeOK
  BY DEF LimiterInv
<1>2. /\ phase' = [phase EXCEPT ![r] = "done"] /\ phase[r] = "active"
      /\ active' = active - 1
      /\ UNCHANGED <<now, session, startedAt, globalAttempts, sessionAttempts>>
  BY DEF Release
<1>3. /\ cutoff' = cutoff
      /\ Admission!Admitted' = Admission!Admitted
      /\ F' = F \ {r} /\ r \in F
  BY <1>1, <1>2, Typed DEF cutoff, Admission!Admitted, Admission!InFlight
<1>4. \A s : OfSession(s)' = OfSession(s)
  BY <1>2, <1>3 DEF OfSession
<1>5. active' = Cardinality(F') /\ active' \in Nat /\ active' <= ConcurrentLimit
  <2>1. active = Cardinality(F) /\ active \in Nat /\ IsFiniteSet(F)
        /\ active <= ConcurrentLimit
    BY <1>1, Typed DEF LimiterInv, TypeOK
  <2>2. Cardinality(F') = Cardinality(F) - 1 /\ IsFiniteSet(F')
    BY <1>3, <2>1, FS_RemoveElement
  <2>3. Cardinality(F') \in Nat
    BY <2>2, FS_CardinalityType
  <2> QED
    BY <1>2, <2>1, <2>2, <2>3, LimiterLimits
<1>6. TypeOK'
  <2>1. Admission!AdmissionTypeOK'
    BY <1>1, <1>2, Typed DEF Admission!AdmissionTypeOK, Admission!Phases
  <2> QED
    BY <1>1, <1>2, <1>5, <2>1 DEF TypeOK
<1> QED
  BY <1>2, <1>3, <1>4, <1>5, <1>6 DEF LimiterInv

LEMMA RestartStep == ASSUME LimiterInv, Restart PROVE LimiterInv'
<1>1. TypeOK
  BY DEF LimiterInv
<1>2. /\ globalAttempts' = <<>> /\ active' = 0
      /\ sessionAttempts' = [s \in Sessions |-> <<>>]
      /\ UNCHANGED <<now, session, startedAt>>
  BY DEF Restart, Admission!Restart
<1>3. Admission!Admitted' = {} /\ Admission!InFlight' = {}
  BY <1>1 DEF Restart, Admission!Restart, Admission!Admitted, Admission!InFlight
<1>4. \A s : OfSession(s)' = {}
  BY <1>3 DEF OfSession
<1>5. \A start, from : Tracks(<<>>, {}, start, from)
  BY DEF Tracks
<1>6. Tracks(globalAttempts', Admission!Admitted', startedAt', cutoff')
  BY <1>2, <1>3, <1>5
<1>7. \A s \in Sessions :
        Tracks(sessionAttempts'[s], OfSession(s)', startedAt', cutoff')
  <2>1. \A s \in Sessions : sessionAttempts'[s] = <<>>
    BY <1>2
  <2> QED
    BY <1>4, <1>5, <2>1
<1>8. active' = Cardinality(Admission!InFlight') /\ active' <= ConcurrentLimit
  BY <1>2, <1>3, FS_EmptySet, LimiterLimits
<1>9. TypeOK'
  <2>1. Admission!AdmissionTypeOK'
    BY <1>1, <1>2, Typed
       DEF Admission!AdmissionTypeOK, Admission!Phases, Restart, Admission!Restart
  <2> QED
    BY <1>2, <2>1 DEF TypeOK
<1> QED
  BY <1>3, <1>6, <1>7, <1>8, <1>9 DEF LimiterInv

LEMMA TickStep == ASSUME LimiterInv, Tick PROVE LimiterInv'
<1>1. TypeOK
  BY DEF LimiterInv
<1>2. /\ now' = now + 1
      /\ UNCHANGED <<session, phase, startedAt, globalAttempts,
                     sessionAttempts, active>>
  BY DEF Tick, Admission!Tick
<1>3. cutoff' \in Int /\ cutoff <= cutoff'
  BY <1>1, <1>2, Typed, LimiterLimits DEF cutoff
<1>4. /\ Admission!Admitted' = Admission!Admitted
      /\ Admission!InFlight' = Admission!InFlight
  BY <1>2 DEF Admission!Admitted, Admission!InFlight
<1>5. \A s : OfSession(s)' = OfSession(s)
  BY <1>2, <1>4 DEF OfSession
<1>6. Tracks(globalAttempts', Admission!Admitted', startedAt', cutoff')
  BY <1>1, <1>2, <1>3, <1>4, Typed, TracksLater DEF LimiterInv
<1>7. ASSUME NEW s \in Sessions
      PROVE  Tracks(sessionAttempts'[s], OfSession(s)', startedAt', cutoff')
  <2>1. Tracks(sessionAttempts[s], OfSession(s), startedAt, cutoff')
    BY <1>1, <1>3, Typed, TracksLater DEF LimiterInv
  <2> QED
    BY <1>2, <1>5, <2>1
<1>8. TypeOK' /\ \A q \in Admission!Admitted' : startedAt'[q] <= now'
  BY <1>1, <1>2, <1>4, Typed DEF TypeOK, Admission!AdmissionTypeOK, LimiterInv
<1> QED
  BY <1>2, <1>4, <1>6, <1>7, <1>8 DEF LimiterInv

LEMMA LimiterStep == LimiterInv /\ [Next]_vars => LimiterInv'
<1> SUFFICES ASSUME LimiterInv, [Next]_vars PROVE LimiterInv'
  OBVIOUS
<1>1. CASE UNCHANGED vars
  <2>1. cutoff' = cutoff /\ TypeOK' = TypeOK
        /\ Admission!Admitted' = Admission!Admitted
        /\ Admission!InFlight' = Admission!InFlight
    BY <1>1 DEF vars, cutoff, TypeOK, Admission!AdmissionTypeOK,
                Admission!Admitted, Admission!InFlight
  <2>2. \A s : OfSession(s)' = OfSession(s)
    BY <1>1, <2>1 DEF vars, OfSession
  <2> QED
    BY <1>1, <2>1, <2>2 DEF vars, LimiterInv
<1> QED
  BY <1>1, TickStep, RestartStep, AcquireStep, RefusedStep, ReleaseStep DEF Next

\* The inductive invariant, and with it type correctness and the slot count.
THEOREM LimiterInvariant == Spec => []LimiterInv
<1> QED
  BY LimiterInitial, LimiterStep, PTL DEF Spec

(***************************************************************************)
(* The counter _active is the number of uploads between acquire() and      *)
(* release() and stays within the limit, for any limits and any uploads:   *)
(* release() never raises and no slot is lost.                             *)
(***************************************************************************)
THEOREM SlotsAlwaysMatch == Spec => [](TypeOK /\ SlotsMatchInFlight)
<1>1. LimiterInv => TypeOK /\ SlotsMatchInFlight
  BY DEF LimiterInv, SlotsMatchInFlight
<1> QED
  BY <1>1, LimiterInvariant, PTL

\* The deques never miss a start that is still in the window.
THEOREM DequesAlwaysHoldWindow == Spec => []DequesHoldWindow
<1>1. LimiterInv => DequesHoldWindow
  <2> SUFFICES ASSUME LimiterInv PROVE DequesHoldWindow
    OBVIOUS
  <2>1. TypeOK
    BY DEF LimiterInv
  <2>2. \A a, S : Tracks(a, S, startedAt, cutoff) =>
          /\ Entries(a) \subseteq S
          /\ \A q \in S : startedAt[q] > cutoff => q \in Entries(a)
    BY DEF Tracks, Entries
  <2>3. \A q \in Admission!StartedIn(now) :
          q \in Admission!Admitted /\ startedAt[q] > cutoff
    BY <2>1, Typed, LimiterLimits DEF Admission!StartedIn, cutoff
  <2>4. /\ Admission!StartedIn(now) \subseteq Entries(globalAttempts)
        /\ Entries(globalAttempts) \subseteq Admission!Admitted
    BY <2>2, <2>3 DEF LimiterInv
  <2>5. ASSUME NEW s \in Sessions
        PROVE  /\ Admission!StartedBy(s, now) \subseteq Entries(sessionAttempts[s])
               /\ Entries(sessionAttempts[s]) \subseteq OfSession(s)
    BY <2>2, <2>3 DEF LimiterInv, Admission!StartedBy, OfSession
  <2> QED
    BY <2>4, <2>5 DEF DequesHoldWindow, OfSession
<1> QED
  BY <1>1, LimiterInvariant, PTL

-----------------------------------------------------------------------------
\* A pruned deque is as long as the number of starts the promise counts.
LEMMA WindowCounts ==
    ASSUME LimiterInv, NEW s \in Sessions
    PROVE  /\ Len(PrunedGlobal) = Cardinality(Admission!StartedIn(now))
           /\ Len(PrunedSessions[s]) = Cardinality(Admission!StartedBy(s, now))
<1>1. TypeOK /\ \A q \in Admission!Admitted : startedAt[q] <= now
  BY DEF LimiterInv
<1>2. Admission!StartedIn(now) = {q \in Admission!Admitted : startedAt[q] > cutoff}
  BY <1>1, Typed, LimiterLimits DEF Admission!StartedIn, cutoff
<1>3. Admission!StartedBy(s, now) = {q \in OfSession(s) : startedAt[q] > cutoff}
  BY <1>2 DEF Admission!StartedBy, OfSession
<1> QED
  BY <1>1, <1>2, <1>3, Typed, PruneAll, PrunedCounts

\* The instance counts as this module does.
LEMMA SameCount == \A S : Admission!Cardinality(S) = Cardinality(S)
BY DEF Cardinality, Admission!Cardinality

\* Each step of the limiter is a step of the promise, or none.
LEMMA StepImplements ==
    LimiterInv /\ [Next]_vars => [Admission!AdmissionNext]_(Admission!admissionVars)
<1> SUFFICES ASSUME LimiterInv, [Next]_vars
             PROVE  [Admission!AdmissionNext]_(Admission!admissionVars)
  OBVIOUS
<1>1. ASSUME NEW r \in Requests
      PROVE  /\ RateLimited(r) <=> Admission!OverRate(r)
             /\ active >= ConcurrentLimit <=> Admission!OverConcurrency
  <2>1. session[r] \in Sessions
    BY Typed DEF LimiterInv
  <2> QED
    BY <2>1, WindowCounts, SameCount
       DEF RateLimited, Admission!OverRate, Admission!OverConcurrency, LimiterInv
<1>2. active \in Nat /\ ConcurrentLimit \in Nat
  BY LimiterLimits DEF LimiterInv, TypeOK
<1>3. CASE Tick
  BY <1>3 DEF Tick, Admission!AdmissionNext
<1>4. CASE Restart
  BY <1>4 DEF Restart, Admission!AdmissionNext
<1>5. ASSUME NEW r \in Requests, Acquire(r)
      PROVE  Admission!Admit(r)
  BY <1>1, <1>2, <1>5 DEF Acquire, Admission!Admit
<1>6. ASSUME NEW r \in Requests, AcquireRefused(r)
      PROVE  Admission!Refuse(r)
  BY <1>1, <1>6 DEF AcquireRefused, Admission!Refuse
<1>7. ASSUME NEW r \in Requests, Release(r)
      PROVE  Admission!Finish(r)
  BY <1>7 DEF Release, Admission!Finish
<1>8. CASE UNCHANGED vars
  BY <1>8 DEF vars, Admission!admissionVars
<1> QED
  BY <1>3, <1>4, <1>5, <1>6, <1>7, <1>8 DEF Next, Admission!AdmissionNext

(***************************************************************************)
(* The deque limiter implements the abstract one: it admits, refuses and   *)
(* names the reason exactly as a limiter that counted the starts of the    *)
(* rolling window would.                                                   *)
(***************************************************************************)
THEOREM LimiterImplementsAdmission == Spec => ImplementsAdmission
<1>1. Init => Admission!AdmissionInit
  BY DEF Init
<1> QED
  BY <1>1, LimiterInvariant, StepImplements, PTL
     DEF Spec, ImplementsAdmission, Admission!AdmissionSpec

-----------------------------------------------------------------------------
\* The theorems about the promise, for the instance that is implemented here.
Promise == INSTANCE GuestAdmissionProofs

(***************************************************************************)
(* What is proved of the promise holds of the deques: in no window of      *)
(* WindowSeconds do more uploads start than GUEST_UPLOADS_PER_WINDOW and   *)
(* GUEST_GLOBAL_UPLOADS_PER_WINDOW allow.                                  *)
(***************************************************************************)
THEOREM LimiterKeepsWindow == Spec => []RollingWindow
<1>0. Promise!IsFiniteSet(Requests)
  BY LimiterRequests DEF Promise!IsFiniteSet, IsFiniteSet
<1>1. Promise!AdmissionSpec => [](Promise!RollingWindow /\ Promise!ConcurrencyBounded)
  BY <1>0, Promise!AdmissionKeepsLimits, LimiterLimits, LimiterRequests, LimiterTime, PTL
<1>2. Admission!AdmissionInit => Promise!AdmissionInit
  BY DEF Admission!AdmissionInit, Promise!AdmissionInit
<1>3. \A S : Promise!Cardinality(S) = Admission!Cardinality(S)
  BY DEF Promise!Cardinality, Admission!Cardinality
<1>4. /\ Promise!Admitted = Admission!Admitted
      /\ Promise!InFlight = Admission!InFlight
      /\ \A t : Promise!StartedIn(t) = Admission!StartedIn(t)
      /\ \A s, t : Promise!StartedBy(s, t) = Admission!StartedBy(s, t)
  BY DEF Promise!Admitted, Admission!Admitted, Promise!InFlight,
         Admission!InFlight, Promise!StartedIn, Admission!StartedIn,
         Promise!StartedBy, Admission!StartedBy
<1>5. [Admission!AdmissionNext]_(Admission!admissionVars)
      => [Promise!AdmissionNext]_(Promise!admissionVars)
  BY <1>3, <1>4
     DEF Admission!AdmissionNext, Promise!AdmissionNext,
         Admission!admissionVars, Promise!admissionVars,
         Admission!Tick, Promise!Tick, Admission!Restart, Promise!Restart,
         Admission!Admit, Promise!Admit, Admission!Refuse, Promise!Refuse,
         Admission!Finish, Promise!Finish, Admission!OverRate, Promise!OverRate,
         Admission!OverConcurrency, Promise!OverConcurrency
<1>6. Promise!RollingWindow => RollingWindow
  BY <1>3, <1>4 DEF Promise!RollingWindow, RollingWindow, Admission!RollingWindow
<1> QED
  BY <1>1, <1>2, <1>5, <1>6, LimiterImplementsAdmission, PTL
     DEF ImplementsAdmission, Admission!AdmissionSpec, Promise!AdmissionSpec

-----------------------------------------------------------------------------
(***************************************************************************)
(* Guest retention.  A cleanup starts while the loop is free, and a note   *)
(* is listed only then: what it finds expired is the note of an upload     *)
(* that has ended, and stays as old as it was found, because the clock     *)
(* rests until the thread has ended.  So uploads that begin beside it      *)
(* touch other notes.  Between two cleanups a note grows older by a period *)
(* at most, and a cleanup that is not cut off leaves nothing expired.      *)
(***************************************************************************)

NoteFiles == [dir : BOOLEAN, audio : BOOLEAN, meta : BOOLEAN]

Boxes == {"new", "cur"}

CleanupLocals ==
    [pc : {"asleep", "scan", "walk", "rmtree"}, left : SUBSET Notes,
     expired : SUBSET Notes, boxes : SUBSET Boxes, box : Boxes \cup {"none"},
     listing : SUBSET Notes, note : Notes \cup {NoNote}]

RetentionTypes ==
    /\ upload \in [Notes -> {"none", "ended"} \cup Writing]
    /\ disk \in [Notes -> NoteFiles]
    /\ age \in [Notes -> 0 .. MaxAge]
    /\ touched \in [Notes -> 0 .. MaxAge]
    /\ mail \in [Notes -> {"none", "new", "cur", "removed"}]
    /\ sleep \in 0 .. Period
    /\ cleanup \in CleanupLocals
    /\ restarts \in Nat /\ errors \in Nat

\* What an upload has written by where it is; it is as young as its note.
Stages ==
    \A n \in Notes :
        /\ disk[n].audio \/ disk[n].meta => disk[n].dir
        /\ upload[n] = "none" => ~disk[n].dir
        /\ upload[n] \in {"dir", "audio", "meta"} => disk[n].dir
        /\ upload[n] # "ended" => mail[n] = "none" /\ age[n] = 0
        /\ touched[n] <= age[n]

\* What the cleanup has found: notes of ended uploads, old enough to go.
Found ==
    /\ cleanup.pc = "asleep" => cleanup = Asleep
    /\ cleanup.pc # "scan" => cleanup.left = {}
    /\ cleanup.left \cap cleanup.expired = {}
    /\ cleanup.note \in cleanup.expired \cup {NoNote}
    /\ \A n \in cleanup.left \cup cleanup.expired :
         disk[n].dir /\ upload[n] = "ended"
    /\ \A n \in cleanup.expired : age[n] >= Retention

RetentionInv == RetentionTypes /\ Stages /\ Found

LEMMA RetentionInitial == RetentionInit => RetentionInv
BY RetentionPositive
DEF RetentionInit, RetentionInv, RetentionTypes, Stages, Found, NoteFiles, Boxes,
    CleanupLocals, Absent, Asleep, Writing

\* Steps of an upload: they touch its note only, which no cleanup has found.
LEMMA UploadKeepsRetention ==
    ASSUME RetentionInv, NEW n \in Notes, Upload(n)
    PROVE  RetentionInv'
<1> USE DEF RetentionInv
<1>1. /\ UNCHANGED <<age, sleep, cleanup, restarts, errors>>
      /\ upload' = [upload EXCEPT ![n] = upload'[n]]
      /\ upload[n] \notin {"ended"} /\ upload'[n] \in {"ended"} \cup Writing
  BY DEF Upload, UploadBegins, UploadWrites, UploadDelivers, UploadFails, bounds,
         Writing, RetentionTypes
<1>2. /\ disk' \in [Notes -> NoteFiles]
      /\ \A m \in Notes \ {n} : disk'[m] = disk[m]
      /\ disk[n].dir => disk'[n].dir
      /\ upload'[n] \in {"dir", "audio", "meta"} => disk'[n].dir
      /\ disk'[n].audio \/ disk'[n].meta => disk'[n].dir
  <2>1. CASE UploadWrites(n)
    <3>1. PICK kind \in {"dir", "audio", "meta"} :
            /\ disk' = [disk EXCEPT ![n] = [disk[n] EXCEPT ![kind] = TRUE]]
            /\ upload'[n] = kind
            /\ kind # "dir" => disk[n].dir
      BY <2>1 DEF UploadWrites, RetentionTypes, Stages, NoteFiles
    <3>2. /\ disk[n] \in NoteFiles
          /\ disk'[n] = [disk[n] EXCEPT ![kind] = TRUE]
          /\ \A m \in Notes \ {n} : disk'[m] = disk[m]
      BY <3>1 DEF RetentionTypes
    <3>3. /\ disk'[n] \in NoteFiles
          /\ disk[n].dir => disk'[n].dir
          /\ disk'[n].dir
      <4>1. CASE kind = "dir"
        BY <3>2, <4>1 DEF NoteFiles
      <4>2. CASE kind = "audio"
        <5>1. disk[n].dir
          BY <3>1, <4>2
        <5> QED
          BY <3>2, <4>2, <5>1 DEF NoteFiles
      <4>3. CASE kind = "meta"
        <5>1. disk[n].dir
          BY <3>1, <4>3
        <5> QED
          BY <3>2, <4>3, <5>1 DEF NoteFiles
      <4> QED
        BY <4>1, <4>2, <4>3
    <3> QED
      BY <3>1, <3>2, <3>3 DEF RetentionTypes
  <2>2. CASE UploadBegins(n) \/ UploadDelivers(n) \/ UploadFails(n)
    BY <2>2
    DEF UploadBegins, UploadDelivers, UploadFails, RetentionTypes, Stages
  <2> QED
    BY <2>1, <2>2 DEF Upload
<1>3. /\ touched' \in [Notes -> 0 .. MaxAge]
      /\ \A m \in Notes : touched'[m] = touched[m] \/ touched'[m] = 0
  BY RetentionPositive
     DEF Upload, UploadBegins, UploadWrites, UploadDelivers, UploadFails,
         RetentionTypes
<1>4. /\ mail' \in [Notes -> {"none", "new", "cur", "removed"}]
      /\ \A m \in Notes \ {n} : mail'[m] = mail[m]
      /\ mail'[n] = "none" \/ upload'[n] = "ended"
  BY DEF Upload, UploadBegins, UploadWrites, UploadDelivers, UploadFails,
         RetentionTypes, Stages
<1>5. RetentionTypes'
  BY <1>1, <1>2, <1>3, <1>4 DEF RetentionTypes
<1>6. Stages'
  BY <1>1, <1>2, <1>3, <1>4 DEF Stages, RetentionTypes, Writing
<1>7. Found'
  <2>1. n \notin cleanup.left \cup cleanup.expired
    BY <1>1 DEF Found
  <2>2. cleanup.left \cup cleanup.expired \subseteq Notes
    BY DEF RetentionTypes, CleanupLocals
  <2> QED
    BY <1>1, <1>2, <2>1, <2>2 DEF Found, RetentionTypes
<1> QED
  BY <1>5, <1>6, <1>7

\* A message that a client moves stays the message of its note.
LEMMA DovecotKeepsRetention ==
    ASSUME RetentionInv, NEW n \in Notes, DovecotMoves(n)
    PROVE  RetentionInv'
<1>1. /\ UNCHANGED <<upload, disk, age, touched, sleep, cleanup, restarts, errors>>
      /\ mail' \in [Notes -> {"none", "new", "cur", "removed"}]
      /\ \A m \in Notes : mail[m] = "none" => mail'[m] = "none"
  BY DEF DovecotMoves, noteVars, bounds, RetentionInv, RetentionTypes
<1> QED
  BY <1>1 DEF RetentionInv, RetentionTypes, Stages, Found, Writing

\* Steps of the cleanup that look: only its local variables change.
Looks ==
    \/ CleanupStarts \/ WalkEnds
    \/ \E b \in Boxes : ListBox(b)
    \/ \E n \in Notes : ScanNote(n)
    \/ ScanEnds /\ cleanup.expired # {}

\* Steps of the cleanup that go back to sleep.
Rests ==
    /\ Sleeps
    /\ cleanup.pc # "asleep"
    /\ UNCHANGED <<upload, disk, age, touched, mail>>
    /\ restarts' \in Nat /\ errors' \in Nat

LEMMA CleanupSplits ==
    ASSUME RetentionInv, CleanupStep
    PROVE  \/ Looks /\ UNCHANGED <<upload, disk, age, touched, mail, sleep,
                                   restarts, errors>>
           \/ Rests
           \/ \E n \in Notes : \/ InspectMessage(n) \/ RemovesFile(n)
                               \/ RemovesDirectory(n)
<1> USE DEF RetentionInv, RetentionTypes, noteVars, bounds, Boxes
<1>1. CASE CleanupStarts
  BY <1>1 DEF CleanupStarts, Looks
<1>2. CASE ScanEnds
  BY <1>2 DEF ScanEnds, Looks, Rests
<1>3. CASE WalkEnds
  BY <1>3 DEF WalkEnds, Looks
<1>4. CASE CleanupEnds
  BY <1>4 DEF CleanupEnds, Rests
<1>5. CASE CleanupFails
  BY <1>5 DEF CleanupFails, Rests
<1>6. CASE \E b \in {"new", "cur"} : ListBox(b)
  BY <1>6 DEF ListBox, Looks
<1>7. CASE \E n \in Notes : ScanNote(n)
  BY <1>7 DEF ScanNote, Looks
<1>8. CASE \E n \in Notes : \/ InspectMessage(n) \/ RemovesFile(n)
                            \/ RemovesDirectory(n)
  BY <1>8
<1> QED
  BY <1>1, <1>2, <1>3, <1>4, <1>5, <1>6, <1>7, <1>8 DEF CleanupStep

\* A directory dated by its mtime is at least as old as that says.
LEMMA ExpiredIsOld ==
    ASSUME RetentionInv, NEW n \in Notes, Expired(n)
    PROVE  age[n] >= Retention
<1>1. age[n] \in Nat /\ touched[n] \in Nat /\ touched[n] <= age[n]
  BY RetentionPositive DEF RetentionInv, RetentionTypes, Stages
<1> QED
  BY <1>1, RetentionPositive DEF Expired

LEMMA LooksKeepRetention ==
    ASSUME RetentionInv, Looks,
           UNCHANGED <<upload, disk, age, touched, mail, sleep, restarts, errors>>
    PROVE  RetentionInv'
<1> USE DEF RetentionInv
<1>1. Stages'
  BY DEF Stages, Writing
<1>2. ASSUME cleanup' \in CleanupLocals PROVE RetentionTypes'
  BY <1>2 DEF RetentionTypes
<1>3. CASE CleanupStarts
  <2>1. cleanup' = [pc |-> "scan", left |-> {n \in Notes : disk[n].dir},
                    expired |-> {}, boxes |-> {}, box |-> "none",
                    listing |-> {}, note |-> NoNote]
    BY <1>3 DEF CleanupStarts, Asleep
  <2>2. cleanup' \in CleanupLocals
    BY <2>1 DEF CleanupLocals, Boxes
  <2>3. \A n \in Notes : disk[n].dir => upload[n] = "ended"
    BY <1>3 DEF CleanupStarts, LoopFree, Stages, Writing, RetentionTypes
  <2>4. Found'
    BY <2>1, <2>3 DEF Found
  <2> QED
    BY <1>1, <1>2, <2>2, <2>4
<1>4. CASE \E n \in Notes : ScanNote(n)
  <2>1. PICK n \in Notes : ScanNote(n)
    BY <1>4
  <2>2. PICK more \in SUBSET {n} :
          /\ cleanup' = [cleanup EXCEPT !.left = @ \ {n}, !.expired = @ \cup more]
          /\ more # {} => Expired(n)
    <3>1. CASE Expired(n)
      BY <2>1, <3>1 DEF ScanNote, RetentionTypes, CleanupLocals
    <3>2. CASE ~Expired(n)
      BY <2>1, <3>2 DEF ScanNote, RetentionTypes, CleanupLocals
    <3> QED
      BY <3>1, <3>2
  <2>3. /\ cleanup' \in CleanupLocals
        /\ cleanup'.pc = "scan" /\ cleanup.pc = "scan" /\ n \in cleanup.left
        /\ cleanup'.left = cleanup.left \ {n}
        /\ cleanup'.expired = cleanup.expired \cup more
        /\ cleanup'.note = cleanup.note
    <3>1. cleanup.pc = "scan" /\ n \in cleanup.left
      BY <2>1 DEF ScanNote
    <3>2. cleanup \in CleanupLocals /\ more \subseteq Notes
      BY <2>2 DEF RetentionTypes
    <3> QED
      BY <2>2, <3>1, <3>2 DEF CleanupLocals
  <2>4. more # {} => age[n] >= Retention
    BY <2>2, ExpiredIsOld
  <2>5. Found'
    BY <2>2, <2>3, <2>4 DEF Found
  <2> QED
    BY <1>1, <1>2, <2>3, <2>5
<1>5. CASE \/ WalkEnds \/ (\E b \in Boxes : ListBox(b))
           \/ (ScanEnds /\ cleanup.expired # {})
  <2>1. /\ cleanup' \in CleanupLocals
        /\ cleanup'.pc \in {"walk", "rmtree"}
        /\ cleanup'.left = {} /\ cleanup.left = {}
        /\ cleanup'.expired = cleanup.expired
        /\ cleanup'.note = cleanup.note
    <3>0. cleanup \in CleanupLocals
      BY DEF RetentionTypes
    <3>1. CASE WalkEnds
      BY <3>0, <3>1 DEF WalkEnds, CleanupLocals, Found
    <3>2. CASE \E b \in Boxes : ListBox(b)
      <4>1. PICK b \in Boxes : ListBox(b)
        BY <3>2
      <4>2. /\ cleanup.pc = "walk"
            /\ cleanup' = [cleanup EXCEPT !.boxes = @ \ {b}, !.box = b,
                             !.listing = {n \in Notes : mail[n] = b}]
        BY <4>1 DEF ListBox
      <4> QED
        BY <3>0, <4>2 DEF CleanupLocals, Found
    <3>3. CASE ScanEnds /\ cleanup.expired # {}
      <4>1. /\ cleanup.left = {}
            /\ cleanup' = [cleanup EXCEPT !.pc = "walk", !.boxes = Boxes]
        BY <3>3 DEF ScanEnds, Boxes
      <4> QED
        BY <3>0, <4>1 DEF CleanupLocals, Found
    <3> QED
      BY <1>5, <3>1, <3>2, <3>3
  <2>2. Found'
    BY <2>1 DEF Found
  <2> QED
    BY <1>1, <1>2, <2>1, <2>2
<1> QED
  BY <1>3, <1>4, <1>5 DEF Looks

LEMMA AsleepIsType ==
    /\ Asleep \in CleanupLocals
    /\ Asleep.pc = "asleep" /\ Asleep.left = {} /\ Asleep.expired = {}
    /\ Asleep.note = NoNote
BY DEF Asleep, CleanupLocals, Boxes

LEMMA RestsKeepRetention ==
    ASSUME RetentionInv, Rests PROVE RetentionInv'
<1>1. RetentionTypes' /\ Stages'
  BY AsleepIsType, RetentionPositive
  DEF RetentionInv, RetentionTypes, Stages, Rests, Sleeps, Writing
<1>2. Found'
  BY AsleepIsType DEF Rests, Sleeps, Found
<1> QED
  BY <1>1, <1>2 DEF RetentionInv

\* What a cleanup takes away: of expired notes only, whose uploads are over.
LEMMA RemovalsKeepRetention ==
    ASSUME RetentionInv, NEW n \in Notes,
           InspectMessage(n) \/ RemovesFile(n) \/ RemovesDirectory(n)
    PROVE  RetentionInv'
<1> USE DEF RetentionInv, noteVars, bounds
<1>1. CASE InspectMessage(n)
  <2>1. /\ cleanup' = [cleanup EXCEPT !.listing = @ \ {n}]
        /\ UNCHANGED <<upload, disk, age, touched, sleep, restarts, errors>>
        /\ cleanup.pc = "walk"
    BY <1>1 DEF InspectMessage
  <2>2. /\ cleanup' \in CleanupLocals
        /\ cleanup'.pc = cleanup.pc /\ cleanup'.left = cleanup.left
        /\ cleanup'.expired = cleanup.expired /\ cleanup'.note = cleanup.note
    BY <2>1 DEF RetentionTypes, CleanupLocals
  <2>3. \/ UNCHANGED mail
        \/ mail' = [mail EXCEPT ![n] = "removed"] /\ upload[n] = "ended"
    BY <1>1 DEF InspectMessage, Found
  <2>4. /\ mail' \in [Notes -> {"none", "new", "cur", "removed"}]
        /\ \A m \in Notes : mail'[m] = mail[m] \/ upload[m] = "ended"
    BY <2>3 DEF RetentionTypes
  <2>5. RetentionTypes' /\ Stages'
    BY <2>1, <2>2, <2>4 DEF RetentionTypes, Stages
  <2>6. Found'
    BY <2>1, <2>2 DEF Found
  <2> QED
    BY <2>5, <2>6
<1>2. CASE RemovesFile(n)
  <2>1. PICK file \in {"audio", "meta"} :
          /\ disk' = [disk EXCEPT ![n] = [disk[n] EXCEPT ![file] = FALSE]]
          /\ disk[n][file]
    BY <1>2 DEF RemovesFile, RetentionTypes, NoteFiles
  <2>2. /\ disk[n] \in NoteFiles
        /\ disk'[n] = [disk[n] EXCEPT ![file] = FALSE]
        /\ \A m \in Notes \ {n} : disk'[m] = disk[m]
    BY <2>1 DEF RetentionTypes
  <2>3. /\ disk'[n] \in NoteFiles
        /\ disk'[n].dir = disk[n].dir
        /\ disk'[n].audio => disk[n].audio
        /\ disk'[n].meta => disk[n].meta
    <3>1. CASE file = "audio"
      BY <2>2, <3>1 DEF NoteFiles
    <3>2. CASE file = "meta"
      BY <2>2, <3>2 DEF NoteFiles
    <3> QED
      BY <3>1, <3>2
  <2>4. disk' \in [Notes -> NoteFiles]
    BY <2>1, <2>2, <2>3 DEF RetentionTypes
  <2>5. /\ touched' \in [Notes -> 0 .. MaxAge]
        /\ \A m \in Notes : touched'[m] = touched[m] \/ touched'[m] = 0
        /\ UNCHANGED <<upload, age, mail, sleep, restarts, errors>>
    BY <1>2, RetentionPositive DEF RemovesFile, RetentionTypes
  <2>6. cleanup.pc = "rmtree" /\ n \in cleanup.expired
        /\ cleanup' = [cleanup EXCEPT !.note = n]
    BY <1>2 DEF RemovesFile
  <2>7. /\ cleanup' \in CleanupLocals
        /\ cleanup'.pc = cleanup.pc /\ cleanup'.left = cleanup.left
        /\ cleanup'.expired = cleanup.expired /\ cleanup'.note = n
    BY <2>6 DEF RetentionTypes, CleanupLocals
  <2>8. RetentionTypes'
    BY <2>4, <2>5, <2>7 DEF RetentionTypes
  <2>9. Stages'
    <3>1. \A m \in Notes :
            /\ disk'[m].dir = disk[m].dir
            /\ disk'[m].audio \/ disk'[m].meta => disk[m].audio \/ disk[m].meta
      BY <2>2, <2>3
    <3>2. \A m \in Notes : touched'[m] <= age[m]
      BY <2>5 DEF Stages, RetentionTypes
    <3> QED
      BY <2>5, <3>1, <3>2 DEF Stages
  <2>10. Found'
    <3>1. cleanup.left \cup cleanup.expired \subseteq Notes
      BY DEF RetentionTypes, CleanupLocals
    <3> QED
      BY <2>2, <2>3, <2>5, <2>6, <2>7, <3>1 DEF Found
  <2> QED
    BY <2>8, <2>9, <2>10
<1>3. CASE RemovesDirectory(n)
  <2>1. /\ disk' = [disk EXCEPT ![n] = Absent]
        /\ cleanup' = [cleanup EXCEPT !.expired = @ \ {n}, !.note = NoNote]
        /\ cleanup.pc = "rmtree" /\ n \in cleanup.expired
        /\ UNCHANGED <<upload, age, touched, mail, sleep, restarts, errors>>
    BY <1>3 DEF RemovesDirectory
  <2>2. /\ Absent \in NoteFiles /\ ~Absent.dir /\ ~Absent.audio /\ ~Absent.meta
        /\ disk'[n] = Absent
        /\ \A m \in Notes \ {n} : disk'[m] = disk[m]
        /\ disk' \in [Notes -> NoteFiles]
    BY <2>1 DEF RetentionTypes, Absent, NoteFiles
  <2>3. /\ cleanup' \in CleanupLocals
        /\ cleanup'.pc = cleanup.pc /\ cleanup'.left = cleanup.left
        /\ cleanup'.expired = cleanup.expired \ {n} /\ cleanup'.note = NoNote
    BY <2>1 DEF RetentionTypes, CleanupLocals
  <2>4. RetentionTypes'
    BY <2>1, <2>2, <2>3 DEF RetentionTypes
  <2>5. Stages'
    <3>1. upload[n] = "ended"
      BY <2>1 DEF Found
    <3> QED
      BY <2>1, <2>2, <3>1 DEF Stages, RetentionTypes
  <2>6. Found'
    <3>1. cleanup.left \cup cleanup.expired \subseteq Notes /\ n \notin cleanup.left
      BY <2>1 DEF RetentionTypes, CleanupLocals, Found
    <3> QED
      BY <2>1, <2>2, <2>3, <3>1 DEF Found
  <2> QED
    BY <2>4, <2>5, <2>6
<1> QED
  BY <1>1, <1>2, <1>3

\* The uploads of a backend that restarts have ended, and so has its thread.
LEMMA RestartKeepsRetention ==
    ASSUME RetentionInv, BackendRestart PROVE RetentionInv'
<1>1. /\ UNCHANGED <<disk, age, touched, mail, errors>>
      /\ cleanup' = Asleep /\ sleep' = Period /\ restarts' = restarts + 1
      /\ upload' \in [Notes -> {"none", "ended"} \cup Writing]
      /\ \A n \in Notes :
           /\ upload'[n] = "none" => upload[n] = "none"
           /\ upload'[n] = "ended" \/ upload'[n] = "none"
           /\ upload'[n] # "ended" => upload[n] # "ended"
  BY DEF BackendRestart, Sleeps, Writing, RetentionInv, RetentionTypes
<1>2. RetentionTypes'
  BY <1>1, AsleepIsType, RetentionPositive DEF RetentionInv, RetentionTypes
<1>3. Stages'
  BY <1>1 DEF RetentionInv, Stages
<1>4. Found'
  BY <1>1, AsleepIsType DEF Found
<1> QED
  BY <1>2, <1>3, <1>4 DEF RetentionInv

\* A clock that is at its bound has lost count of neither age.
LEMMA OlderIsAge ==
    ASSUME NEW t \in 0 .. MaxAge, NEW u \in 0 .. MaxAge, t <= u
    PROVE  /\ Older(t) \in 0 .. MaxAge /\ Older(t) <= Older(u)
           /\ t <= Older(t) /\ Older(t) <= t + 1
           /\ u < MaxAge => Older(t) = t + 1
BY RetentionPositive DEF Older

LEMMA TimeKeepsRetention ==
    ASSUME RetentionInv, TimePasses PROVE RetentionInv'
<1> USE DEF RetentionInv
<1>1. /\ UNCHANGED <<upload, disk, mail, cleanup, restarts, errors>>
      /\ cleanup.pc = "asleep" /\ sleep > 0 /\ sleep' = sleep - 1
      /\ \A n \in Notes : upload[n] \notin Writing
  BY DEF TimePasses, bounds, LoopFree
<1>2. \A n \in Notes :
        /\ 0 \in 0 .. MaxAge
        /\ Older(age[n]) \in 0 .. MaxAge /\ Older(touched[n]) \in 0 .. MaxAge
        /\ Older(touched[n]) <= Older(age[n])
  <2>1. \A n \in Notes : /\ age[n] \in 0 .. MaxAge /\ touched[n] \in 0 .. MaxAge
                         /\ touched[n] <= age[n]
    BY DEF RetentionTypes, Stages
  <2> QED
    BY <2>1, OlderIsAge, RetentionPositive
<1>3. \A n \in Notes :
        /\ age'[n] = IF Exists(n) THEN Older(age[n]) ELSE 0
        /\ touched'[n] = IF disk[n].dir THEN Older(touched[n]) ELSE 0
  BY DEF TimePasses
<1>4. /\ age' \in [Notes -> 0 .. MaxAge]
      /\ touched' \in [Notes -> 0 .. MaxAge]
      /\ \A n \in Notes : touched'[n] <= age'[n]
  <2>1. age' \in [Notes -> 0 .. MaxAge]
    BY <1>2 DEF TimePasses
  <2>2. touched' \in [Notes -> 0 .. MaxAge]
    BY <1>2 DEF TimePasses
  <2>3. \A n \in Notes : touched'[n] <= age'[n]
    <3> TAKE n \in Notes
    <3>1. CASE disk[n].dir
      BY <1>2, <1>3, <3>1 DEF Exists
    <3>2. CASE ~disk[n].dir
      BY <1>2, <1>3, <2>1, <3>2
    <3> QED
      BY <3>1, <3>2
  <2> QED
    BY <2>1, <2>2, <2>3
<1>5. \A n \in Notes : upload[n] # "ended" => ~Exists(n)
  <2> SUFFICES ASSUME NEW n \in Notes, upload[n] # "ended" PROVE ~Exists(n)
    OBVIOUS
  <2>1. upload[n] = "none"
    BY <1>1 DEF RetentionTypes
  <2> QED
    BY <2>1 DEF Stages, Exists
<1>6. RetentionTypes'
  <2>1. sleep' \in 0 .. Period
    BY <1>1, RetentionPositive DEF RetentionTypes
  <2> QED
    BY <1>1, <1>4, <2>1 DEF RetentionTypes
<1>7. Stages'
  BY <1>1, <1>3, <1>4, <1>5 DEF Stages
<1>8. Found'
  BY <1>1, AsleepIsType DEF Found
<1> QED
  BY <1>6, <1>7, <1>8

LEMMA RetentionStep ==
    ASSUME RetentionInv, [RetentionNext]_retentionVars PROVE RetentionInv'
<1>1. CASE TimePasses
  BY <1>1, TimeKeepsRetention
<1>2. CASE BackendRestart
  BY <1>2, RestartKeepsRetention
<1>3. CASE CleanupStep
  BY <1>3, CleanupSplits, LooksKeepRetention, RestsKeepRetention,
     RemovalsKeepRetention
<1>4. CASE \E n \in Notes : Upload(n) \/ DovecotMoves(n)
  BY <1>4, UploadKeepsRetention, DovecotKeepsRetention
<1>5. CASE UNCHANGED retentionVars
  BY <1>5
  DEF retentionVars, noteVars, bounds, RetentionInv, RetentionTypes, Stages, Found
<1> QED
  BY <1>1, <1>2, <1>3, <1>4, <1>5 DEF RetentionNext

LEMMA RetentionAlways == RetentionSpec => []RetentionInv
<1>1. RetentionInv /\ [RetentionNext]_retentionVars => RetentionInv'
  BY RetentionStep
<1> QED
  BY RetentionInitial, <1>1, PTL DEF RetentionSpec

(***************************************************************************)
(* A note's files lie in its directory, a cleanup has only found notes     *)
(* that exist, and removes the files of one that it has found.             *)
(***************************************************************************)
THEOREM RetentionTyped == RetentionSpec => []RetentionTypeOK
<1>1. RetentionInv => RetentionTypeOK
  BY DEF RetentionInv, RetentionTypes, Stages, Found, RetentionTypeOK,
         CleanupLocals, NoteFiles
<1> QED
  BY RetentionAlways, <1>1, PTL

-----------------------------------------------------------------------------
(* What goes is old enough.                                                *)

LEMMA RemovalIsOfExpired ==
    ASSUME RetentionInv, [RetentionNext]_retentionVars, NEW n \in Notes,
           \/ disk[n].audio /\ ~disk'[n].audio
           \/ mail[n] # "removed" /\ mail'[n] = "removed"
    PROVE  age[n] >= Retention
<1> USE DEF RetentionInv
<1>1. CASE UNCHANGED <<disk, mail>>
  BY <1>1
<1>2. ASSUME NEW m \in Notes, UploadWrites(m) PROVE FALSE
  <2>1. mail' = mail /\ ~disk'[n].audio /\ disk[n].audio
    BY <1>2 DEF UploadWrites
  <2>2. PICK kind \in {"dir", "audio", "meta"} :
          disk' = [disk EXCEPT ![m] = [disk[m] EXCEPT ![kind] = TRUE]]
    BY <1>2 DEF UploadWrites, RetentionTypes, NoteFiles
  <2>3. disk[m] \in NoteFiles /\ disk[n] \in NoteFiles
    BY DEF RetentionTypes
  <2>4. disk'[n] = IF n = m THEN [disk[m] EXCEPT ![kind] = TRUE] ELSE disk[n]
    BY <2>2 DEF RetentionTypes
  <2>5. disk'[n].audio
    BY <2>1, <2>3, <2>4 DEF NoteFiles
  <2> QED
    BY <2>1, <2>5
<1>3. ASSUME NEW m \in Notes, UploadDelivers(m) \/ DovecotMoves(m) PROVE FALSE
  BY <1>3 DEF UploadDelivers, DovecotMoves, noteVars, RetentionTypes
<1>4. ASSUME NEW m \in Notes,
             InspectMessage(m) \/ RemovesFile(m) \/ RemovesDirectory(m)
      PROVE  age[n] >= Retention
  <2>1. CASE InspectMessage(m)
    <3>1. \/ mail' = mail
          \/ mail' = [mail EXCEPT ![m] = "removed"] /\ m \in cleanup.expired
      BY <2>1 DEF InspectMessage
    <3>2. disk' = disk
      BY <2>1 DEF InspectMessage, noteVars
    <3>3. n \in cleanup.expired
      BY <3>1, <3>2 DEF RetentionTypes
    <3> QED
      BY <3>3 DEF Found
  <2>2. CASE RemovesFile(m) \/ RemovesDirectory(m)
    <3>1. mail' = mail /\ m \in cleanup.expired
      BY <2>2 DEF RemovesFile, RemovesDirectory
    <3>2. disk' = [disk EXCEPT ![m] = disk'[m]]
      BY <2>2 DEF RemovesFile, RemovesDirectory, RetentionTypes
    <3>3. n = m
      BY <3>1, <3>2 DEF RetentionTypes
    <3> QED
      BY <3>1, <3>3 DEF Found
  <2> QED
    BY <1>4, <2>1, <2>2
<1>5. CASE CleanupStep
  <2>1. CASE Looks /\ UNCHANGED <<upload, disk, age, touched, mail, sleep,
                                  restarts, errors>>
    BY <1>1, <2>1
  <2>2. CASE Rests
    BY <1>1, <2>2 DEF Rests
  <2> QED
    BY <1>4, <1>5, <2>1, <2>2, CleanupSplits
<1>6. CASE TimePasses \/ BackendRestart \/ UNCHANGED retentionVars
  BY <1>1, <1>6 DEF TimePasses, BackendRestart, retentionVars, noteVars
<1>7. ASSUME NEW m \in Notes, Upload(m) \/ DovecotMoves(m)
      PROVE  age[n] >= Retention
  BY <1>1, <1>2, <1>3, <1>7 DEF Upload, UploadBegins, UploadFails
<1> QED
  BY <1>5, <1>6, <1>7 DEF RetentionNext

(***************************************************************************)
(* Whatever a cleanup meets -- a note that is being written, one that it   *)
(* or an earlier cleanup has half removed -- what it takes is as old as    *)
(* the retention promises.                                                 *)
(***************************************************************************)
THEOREM OnlyExpiredIsRemoved == RetentionSpec => OnlyExpiredRemoved
<1> DEFINE Goes(n) ==
             \/ disk[n].audio /\ ~disk'[n].audio
             \/ mail[n] # "removed" /\ mail'[n] = "removed"
<1>1. RetentionInv /\ [RetentionNext]_retentionVars
      => [\A n \in Notes : Goes(n) => age[n] >= Retention]_retentionVars
  BY RemovalIsOfExpired
<1> QED
  BY RetentionAlways, <1>1, PTL DEF RetentionSpec, OnlyExpiredRemoved

-----------------------------------------------------------------------------
(***************************************************************************)
(* A message that no client has opened is in new/ when the walk lists that *)
(* directory, and cannot have moved when its turn comes.                   *)
(***************************************************************************)

\* The walk has still to come to the message of n.
Ahead(n) ==
    \/ cleanup.pc = "scan"
    \/ /\ cleanup.pc = "walk"
       /\ \/ "new" \in cleanup.boxes
          \/ cleanup.box = "new" /\ n \in cleanup.listing

UnopenedInv ==
    \A n \in Notes : mail[n] = "new" =>
        disk[n].dir /\ (n \in cleanup.expired => Ahead(n))

LEMMA LooksKeepUnopened ==
    ASSUME RetentionInv, UnopenedInv, Looks, UNCHANGED <<disk, mail>>
    PROVE  UnopenedInv'
<1>0. cleanup \in CleanupLocals
  BY DEF RetentionInv, RetentionTypes
<1>1. CASE CleanupStarts
  BY <1>1 DEF CleanupStarts, UnopenedInv, Asleep
<1>2. CASE WalkEnds
  <2>1. \A n \in cleanup.expired : ~Ahead(n)
    BY <1>2 DEF WalkEnds, Ahead
  <2>2. cleanup'.expired = cleanup.expired
    BY <1>0, <1>2 DEF WalkEnds, CleanupLocals
  <2> QED
    BY <2>1, <2>2 DEF UnopenedInv
<1>3. ASSUME NEW b \in Boxes, ListBox(b) PROVE UnopenedInv'
  <2>1. /\ cleanup.pc = "walk" /\ cleanup.listing = {}
        /\ cleanup'.pc = "walk" /\ cleanup'.expired = cleanup.expired
        /\ cleanup'.boxes = cleanup.boxes \ {b} /\ cleanup'.box = b
        /\ cleanup'.listing = {n \in Notes : mail[n] = b}
    BY <1>0, <1>3 DEF ListBox, CleanupLocals
  <2>2. CASE b = "new"
    BY <2>1, <2>2 DEF UnopenedInv, Ahead
  <2>3. CASE b # "new"
    BY <2>1, <2>3 DEF UnopenedInv, Ahead
  <2> QED
    BY <2>2, <2>3
<1>4. ASSUME NEW m \in Notes, ScanNote(m) PROVE UnopenedInv'
  <2>1. cleanup'.pc = "scan"
    BY <1>0, <1>4 DEF ScanNote, CleanupLocals
  <2> QED
    BY <2>1 DEF UnopenedInv, Ahead
<1>5. CASE ScanEnds /\ cleanup.expired # {}
  <2>1. cleanup'.pc = "walk" /\ "new" \in cleanup'.boxes
    BY <1>0, <1>5 DEF ScanEnds, CleanupLocals
  <2> QED
    BY <2>1 DEF UnopenedInv, Ahead
<1> QED
  BY <1>1, <1>2, <1>3, <1>4, <1>5 DEF Looks

LEMMA RemovalsKeepUnopened ==
    ASSUME RetentionInv, UnopenedInv, "io" \notin Faults, NEW m \in Notes,
           InspectMessage(m) \/ RemovesFile(m) \/ RemovesDirectory(m)
    PROVE  UnopenedInv'
<1>0. /\ cleanup \in CleanupLocals
      /\ disk \in [Notes -> NoteFiles]
      /\ mail \in [Notes -> {"none", "new", "cur", "removed"}]
  BY DEF RetentionInv, RetentionTypes
<1>1. CASE InspectMessage(m)
  <2>1. /\ cleanup.pc = "walk" /\ cleanup'.pc = "walk"
        /\ cleanup'.expired = cleanup.expired /\ cleanup'.boxes = cleanup.boxes
        /\ cleanup'.box = cleanup.box /\ cleanup'.listing = cleanup.listing \ {m}
        /\ disk' = disk
    BY <1>0, <1>1 DEF InspectMessage, CleanupLocals, noteVars
  <2>2. /\ \A n \in Notes : mail'[n] = "new" => mail[n] = "new"
        /\ mail'[m] = "new" => m \notin cleanup.expired \/ cleanup.box # "new"
    BY <1>0, <1>1 DEF InspectMessage
  <2> QED
    BY <2>1, <2>2 DEF UnopenedInv, Ahead
<1>2. CASE RemovesFile(m) \/ RemovesDirectory(m)
  <2>1. /\ cleanup.pc = "rmtree" /\ mail' = mail /\ m \in cleanup.expired
        /\ cleanup'.expired \subseteq cleanup.expired
    BY <1>0, <1>2 DEF RemovesFile, RemovesDirectory, CleanupLocals
  <2>2. disk' = [disk EXCEPT ![m] = disk'[m]]
    BY <1>0, <1>2 DEF RemovesFile, RemovesDirectory
  <2>3. \A n \in cleanup.expired \cap Notes : mail[n] # "new"
    BY <2>1 DEF UnopenedInv, Ahead
  <2> QED
    BY <1>0, <2>1, <2>2, <2>3 DEF UnopenedInv
<1> QED
  BY <1>1, <1>2

LEMMA UploadKeepsUnopened ==
    ASSUME RetentionInv, UnopenedInv, NEW m \in Notes, Upload(m) \/ DovecotMoves(m)
    PROVE  UnopenedInv'
<1>0. /\ disk \in [Notes -> NoteFiles]
      /\ mail \in [Notes -> {"none", "new", "cur", "removed"}]
  BY DEF RetentionInv, RetentionTypes
<1>1. cleanup' = cleanup
  BY DEF Upload, UploadBegins, UploadWrites, UploadDelivers, UploadFails,
         DovecotMoves
<1>2. CASE UploadWrites(m)
  <2>1. PICK kind \in {"dir", "audio", "meta"} :
          disk' = [disk EXCEPT ![m] = [disk[m] EXCEPT ![kind] = TRUE]]
    BY <1>0, <1>2 DEF UploadWrites, NoteFiles
  <2>2. \A n \in Notes :
          disk'[n] = IF n = m THEN [disk[m] EXCEPT ![kind] = TRUE] ELSE disk[n]
    BY <1>0, <2>1
  <2>3. \A n \in Notes : disk[n].dir => disk'[n].dir
    BY <1>0, <2>2 DEF NoteFiles
  <2>4. mail' = mail
    BY <1>2 DEF UploadWrites
  <2> QED
    BY <1>1, <2>3, <2>4 DEF UnopenedInv, Ahead
<1>3. CASE UploadDelivers(m)
  <2>1. disk[m].dir /\ m \notin cleanup.expired
    BY <1>3 DEF UploadDelivers, RetentionInv, Stages, Found
  <2>2. disk' = disk /\ \A n \in Notes \ {m} : mail'[n] = mail[n]
    BY <1>0, <1>3 DEF UploadDelivers
  <2> QED
    BY <1>1, <2>1, <2>2 DEF UnopenedInv, Ahead
<1>4. CASE UploadBegins(m) \/ UploadFails(m) \/ DovecotMoves(m)
  <2>1. disk' = disk /\ \A n \in Notes : mail'[n] = "new" => mail[n] = "new"
    BY <1>0, <1>4 DEF UploadBegins, UploadFails, DovecotMoves, noteVars
  <2> QED
    BY <1>1, <2>1 DEF UnopenedInv, Ahead
<1> QED
  BY <1>2, <1>3, <1>4 DEF Upload

LEMMA UnopenedStep ==
    ASSUME "io" \notin Faults, RetentionInv, UnopenedInv,
           [RetentionNext]_retentionVars
    PROVE  UnopenedInv'
<1>1. CASE CleanupStep
  <2>1. CASE Rests
    BY <2>1, AsleepIsType DEF Rests, Sleeps, UnopenedInv
  <2> QED
    BY <1>1, <2>1, CleanupSplits, LooksKeepUnopened, RemovalsKeepUnopened
<1>2. CASE \E m \in Notes : Upload(m) \/ DovecotMoves(m)
  BY <1>2, UploadKeepsUnopened
<1>3. CASE BackendRestart
  BY <1>3, AsleepIsType DEF BackendRestart, Sleeps, UnopenedInv
<1>4. CASE TimePasses \/ UNCHANGED retentionVars
  BY <1>4 DEF TimePasses, retentionVars, noteVars, UnopenedInv, Ahead
<1> QED
  BY <1>1, <1>2, <1>3, <1>4 DEF RetentionNext

(***************************************************************************)
(* Unless an OSError is logged and passed over, no unopened message stays  *)
(* behind its note, however many uploads, restarts and failed cleanups.    *)
(***************************************************************************)
THEOREM UnopenedGoesFirst ==
    ASSUME "io" \notin Faults
    PROVE  RetentionSpec => []UnopenedMessageGoesWithNote
<1>1. RetentionInit => UnopenedInv
  BY DEF RetentionInit, UnopenedInv
<1>2. RetentionInv /\ UnopenedInv /\ [RetentionNext]_retentionVars => UnopenedInv'
  BY UnopenedStep
<1>3. UnopenedInv => UnopenedMessageGoesWithNote
  BY DEF UnopenedInv, UnopenedMessageGoesWithNote
<1> QED
  BY RetentionAlways, <1>1, <1>2, <1>3, PTL DEF RetentionSpec

-----------------------------------------------------------------------------
(***************************************************************************)
(* How late a note may go.  Each restart and each cleanup that is cut off  *)
(* adds a retention and a period to what is allowed: as much as a note     *)
(* whose directory rmtree has just touched can lose.                       *)
(***************************************************************************)

Round == Retention + Period
Allowance == (restarts + errors) * Round

LEMMA AllowanceGrows ==
    ASSUME restarts \in Nat, errors \in Nat
    PROVE  /\ Round \in Nat /\ Round > Retention /\ Round > Period
           /\ Allowance \in Nat
           /\ (1 + restarts + errors) * Round = Round + Allowance
           /\ restarts <= MaxRestarts /\ errors <= MaxErrors
              => Round + Allowance < MaxAge
           /\ \/ restarts' = restarts + 1 /\ errors' = errors
              \/ restarts' = restarts /\ errors' = errors + 1
              => Allowance' = Allowance + Round
           /\ restarts' = restarts /\ errors' = errors
              => Allowance' = Allowance
<1>1. Round \in Nat /\ Round > Retention /\ Round > Period
  BY RetentionPositive DEF Round
<1>2. \A a, b, c \in Nat :
        /\ a * c \in Nat
        /\ (a + 1) * c = a * c + c
        /\ a <= b => a * c <= b * c
  OBVIOUS
<1>3. /\ restarts + errors \in Nat
      /\ 1 + restarts + errors = (restarts + errors) + 1
      /\ MaxRestarts + MaxErrors \in Nat
      /\ 1 + MaxRestarts + MaxErrors = (MaxRestarts + MaxErrors) + 1
  BY RetentionPositive
<1>4. Allowance \in Nat /\ (1 + restarts + errors) * Round = Round + Allowance
  BY <1>1, <1>2, <1>3 DEF Allowance
<1>5. ASSUME restarts <= MaxRestarts, errors <= MaxErrors
      PROVE  Round + Allowance < MaxAge
  <2>1. restarts + errors <= MaxRestarts + MaxErrors
    BY <1>5, RetentionPositive
  <2>2. (restarts + errors) * Round <= (MaxRestarts + MaxErrors) * Round
    BY <1>1, <1>2, <1>3, <2>1
  <2>3. (1 + MaxRestarts + MaxErrors) * Round
        = (MaxRestarts + MaxErrors) * Round + Round
    BY <1>1, <1>2, <1>3
  <2>4. MaxAge > (1 + MaxRestarts + MaxErrors) * Round /\ MaxAge \in Nat
    BY RetentionPositive DEF Round
  <2>5. (MaxRestarts + MaxErrors) * Round \in Nat
    BY <1>1, <1>2, <1>3
  <2> QED
    BY <1>1, <1>4, <2>2, <2>3, <2>4, <2>5 DEF Allowance
<1>6. ASSUME \/ restarts' = restarts + 1 /\ errors' = errors
             \/ restarts' = restarts /\ errors' = errors + 1
      PROVE  Allowance' = Allowance + Round
  <2>1. restarts' + errors' = (restarts + errors) + 1
    BY <1>6
  <2>2. Allowance' = (restarts' + errors') * Round
    BY DEF Allowance, Round
  <2> QED
    BY <1>1, <1>2, <1>3, <2>1, <2>2 DEF Allowance
<1>7. restarts' = restarts /\ errors' = errors => Allowance' = Allowance
  BY DEF Allowance, Round
<1> QED
  BY <1>1, <1>4, <1>5, <1>6, <1>7

\* A note is due within a round of what is allowed; a cleanup that is at
\* work has still to look at it, has found it expired, or leaves it young.
DueInv ==
    /\ restarts <= MaxRestarts /\ errors <= MaxErrors
    /\ \A n \in Notes : disk[n].dir =>
         /\ cleanup.pc = "asleep" => age[n] + sleep < Round + Allowance
         /\ cleanup.pc # "asleep" =>
              /\ age[n] < Round + Allowance
              /\ \/ n \in cleanup.left \cup cleanup.expired
                 \/ age[n] < Retention + Allowance
         /\ n \notin cleanup.expired => age[n] <= touched[n] + Allowance

LEMMA NumbersInRetention ==
    ASSUME RetentionInv
    PROVE  /\ \A n \in Notes : age[n] \in Nat /\ touched[n] \in Nat
           /\ sleep \in Nat /\ sleep <= Period
           /\ restarts \in Nat /\ errors \in Nat
           /\ Retention \in Nat /\ Period \in Nat
BY RetentionPositive DEF RetentionInv, RetentionTypes

LEMMA LooksKeepDue ==
    ASSUME RetentionInv, DueInv, Looks,
           UNCHANGED <<upload, disk, age, touched, mail, sleep, restarts, errors>>
    PROVE  DueInv'
<1>0. cleanup \in CleanupLocals
  BY DEF RetentionInv, RetentionTypes
<1>00. Allowance' = Allowance /\ Allowance \in Nat /\ Round \in Nat
  BY AllowanceGrows, NumbersInRetention
<1>1. CASE CleanupStarts
  <2>1. /\ cleanup.pc = "asleep" /\ sleep = 0 /\ cleanup'.pc = "scan"
        /\ cleanup'.left = {n \in Notes : disk[n].dir} /\ cleanup'.expired = {}
    BY <1>1 DEF CleanupStarts, Asleep
  <2>2. cleanup.expired = {}
    BY <2>1, AsleepIsType DEF RetentionInv, Found
  <2> QED
    BY <1>00, <2>1, <2>2, NumbersInRetention DEF DueInv
<1>2. ASSUME NEW m \in Notes, ScanNote(m) PROVE DueInv'
  <2>1. /\ cleanup.pc = "scan" /\ cleanup'.pc = "scan"
        /\ cleanup'.left = cleanup.left \ {m}
        /\ cleanup'.expired = IF Expired(m) THEN cleanup.expired \cup {m}
                              ELSE cleanup.expired
    BY <1>0, <1>2 DEF ScanNote, CleanupLocals
  <2>2. \A n \in Notes \ {m} : n \in cleanup.expired <=> n \in cleanup'.expired
    BY <2>1
  <2>3. ASSUME ~Expired(m), disk[m].dir, m \notin cleanup.expired
        PROVE  age[m] < Retention + Allowance
    <3>1. age[m] <= touched[m] + Allowance
      BY <2>3 DEF DueInv
    <3>2. age[m] < Retention \/ touched[m] < Retention
      BY <2>3, NumbersInRetention DEF Expired
    <3> QED
      BY <1>00, <3>1, <3>2, NumbersInRetention
  <2>4. ASSUME NEW n \in Notes, disk[n].dir
        PROVE  /\ age[n] < Round + Allowance
               /\ \/ n \in cleanup'.left \cup cleanup'.expired
                  \/ age[n] < Retention + Allowance
               /\ n \notin cleanup'.expired => age[n] <= touched[n] + Allowance
    <3>1. CASE n = m
      <4>1. CASE Expired(m)
        BY <2>1, <2>4, <3>1, <4>1 DEF DueInv
      <4>2. CASE ~Expired(m)
        BY <2>1, <2>3, <2>4, <3>1, <4>2 DEF DueInv
      <4> QED
        BY <4>1, <4>2
    <3>2. CASE n # m
      BY <2>1, <2>2, <2>4, <3>2 DEF DueInv
    <3> QED
      BY <3>1, <3>2
  <2> QED
    BY <1>00, <2>1, <2>4 DEF DueInv
<1>3. ASSUME cleanup.pc # "asleep", cleanup'.pc # "asleep",
             cleanup'.left = cleanup.left, cleanup'.expired = cleanup.expired
      PROVE  DueInv'
  BY <1>00, <1>3 DEF DueInv
<1>4. CASE WalkEnds
  BY <1>0, <1>3, <1>4 DEF WalkEnds, CleanupLocals
<1>5. ASSUME NEW b \in Boxes, ListBox(b) PROVE DueInv'
  BY <1>0, <1>3, <1>5 DEF ListBox, CleanupLocals
<1>6. CASE ScanEnds /\ cleanup.expired # {}
  BY <1>0, <1>3, <1>6 DEF ScanEnds, CleanupLocals
<1> QED
  BY <1>1, <1>2, <1>4, <1>5, <1>6 DEF Looks

\* A cleanup that comes to its end leaves no note as old as the allowance.
LEMMA CompletedKeepsDue ==
    ASSUME RetentionInv, DueInv, Rests, UNCHANGED <<restarts, errors>>,
           cleanup.expired = {}, cleanup.left = {}
    PROVE  DueInv'
<1>1. Allowance' = Allowance /\ Allowance \in Nat /\ Round = Retention + Period
  BY AllowanceGrows, NumbersInRetention DEF Round
<1>2. /\ cleanup.pc # "asleep" /\ cleanup' = Asleep /\ sleep' = Period
      /\ UNCHANGED <<disk, age, touched>>
  BY DEF Rests, Sleeps
<1>3. ASSUME NEW n \in Notes, disk[n].dir
      PROVE  /\ age[n] + Period < Round + Allowance
             /\ age[n] <= touched[n] + Allowance
  BY <1>1, <1>2, <1>3, NumbersInRetention DEF DueInv
<1> QED
  BY <1>1, <1>2, <1>3, AsleepIsType DEF DueInv

\* One that is cut off, by an exception or a restart, costs a round.
LEMMA CutOffKeepsDue ==
    ASSUME RetentionInv, DueInv,
           cleanup' = Asleep, sleep' = Period,
           UNCHANGED <<disk, age, touched>>,
           restarts' <= MaxRestarts, errors' <= MaxErrors,
           \/ restarts' = restarts + 1 /\ errors' = errors
           \/ restarts' = restarts /\ errors' = errors + 1
    PROVE  DueInv'
<1>1. /\ Allowance' = Allowance + Round /\ Allowance \in Nat
      /\ Round \in Nat /\ Period < Round
  BY AllowanceGrows, NumbersInRetention
<1>2. ASSUME NEW n \in Notes, disk[n].dir PROVE age[n] < Round + Allowance
  BY <1>1, <1>2, NumbersInRetention DEF DueInv
<1>3. ASSUME NEW n \in Notes, disk[n].dir
      PROVE  /\ age[n] + Period < Round + (Allowance + Round)
             /\ age[n] <= touched[n] + (Allowance + Round)
  BY <1>1, <1>2, <1>3, NumbersInRetention
<1>4. Round' = Round
  BY DEF Round
<1> QED
  BY <1>1, <1>3, <1>4, AsleepIsType DEF DueInv

LEMMA RestsKeepDue ==
    ASSUME RetentionInv, DueInv, CleanupStep, Rests PROVE DueInv'
<1>1. CASE CleanupFails
  <2>1. /\ errors' = errors + 1 /\ restarts' = restarts /\ errors < MaxErrors
        /\ cleanup' = Asleep /\ sleep' = Period
        /\ UNCHANGED <<disk, age, touched>>
    BY <1>1 DEF CleanupFails, Sleeps, noteVars
  <2>2. errors' <= MaxErrors /\ restarts' <= MaxRestarts
    BY <2>1, NumbersInRetention, RetentionPositive DEF DueInv
  <2> QED
    BY <2>1, <2>2, CutOffKeepsDue
<1>2. CASE (ScanEnds /\ cleanup.expired = {}) \/ CleanupEnds
  <2>1. cleanup.left = {} /\ cleanup.expired = {} /\ UNCHANGED <<restarts, errors>>
    BY <1>2 DEF ScanEnds, CleanupEnds, RetentionInv, Found, bounds
  <2> QED
    BY <2>1, CompletedKeepsDue
<1>3. cleanup' = Asleep /\ cleanup.pc # "asleep"
  BY DEF Rests, Sleeps
<1>4. cleanup \in CleanupLocals
  BY DEF RetentionInv, RetentionTypes
<1>5. ASSUME Looks PROVE FALSE
  <2>1. cleanup'.pc # "asleep"
    BY <1>4, <1>5 DEF Looks, CleanupStarts, WalkEnds, ListBox, ScanNote, ScanEnds,
                      CleanupLocals, Asleep
  <2> QED
    BY <1>3, <2>1, AsleepIsType
<1>6. ASSUME NEW n \in Notes,
             InspectMessage(n) \/ RemovesFile(n) \/ RemovesDirectory(n)
      PROVE  FALSE
  <2>1. cleanup'.pc = cleanup.pc
    BY <1>4, <1>6 DEF InspectMessage, RemovesFile, RemovesDirectory, CleanupLocals
  <2> QED
    BY <1>3, <2>1, AsleepIsType
<1>7. CASE ScanEnds
  BY <1>2, <1>5, <1>7 DEF Looks
<1> QED
  BY <1>1, <1>2, <1>5, <1>6, <1>7 DEF CleanupStep, Looks, Boxes

LEMMA RemovalsKeepDue ==
    ASSUME RetentionInv, DueInv, NEW m \in Notes,
           InspectMessage(m) \/ RemovesFile(m) \/ RemovesDirectory(m)
    PROVE  DueInv'
<1>0. /\ cleanup \in CleanupLocals
      /\ disk \in [Notes -> NoteFiles]
      /\ touched \in [Notes -> 0 .. MaxAge]
  BY DEF RetentionInv, RetentionTypes
<1>1. /\ Allowance' = Allowance /\ Round' = Round
      /\ UNCHANGED <<age, sleep, restarts, errors>>
  <2>1. UNCHANGED <<age, sleep, restarts, errors>>
    BY DEF InspectMessage, RemovesFile, RemovesDirectory, noteVars, bounds
  <2> QED
    BY <2>1, AllowanceGrows, NumbersInRetention DEF Round
<1>2. /\ cleanup.pc # "asleep" /\ cleanup'.pc = cleanup.pc
      /\ cleanup'.left = cleanup.left
  BY <1>0 DEF InspectMessage, RemovesFile, RemovesDirectory, CleanupLocals
<1>3. CASE InspectMessage(m)
  <2>1. cleanup'.expired = cleanup.expired /\ UNCHANGED <<disk, touched>>
    BY <1>0, <1>3 DEF InspectMessage, CleanupLocals, noteVars
  <2> QED
    BY <1>1, <1>2, <2>1 DEF DueInv
<1>4. CASE RemovesFile(m)
  <2>1. /\ m \in cleanup.expired /\ cleanup'.expired = cleanup.expired
        /\ \A n \in Notes \ {m} : disk'[n] = disk[n] /\ touched'[n] = touched[n]
    BY <1>0, <1>4 DEF RemovesFile, CleanupLocals
  <2>2. disk[m].dir
    BY <2>1 DEF RetentionInv, Found
  <2> QED
    BY <1>1, <1>2, <2>1, <2>2 DEF DueInv
<1>5. CASE RemovesDirectory(m)
  <2>1. /\ ~disk'[m].dir /\ cleanup'.expired = cleanup.expired \ {m}
        /\ \A n \in Notes \ {m} : disk'[n] = disk[n]
        /\ touched' = touched
    BY <1>0, <1>5 DEF RemovesDirectory, CleanupLocals, Absent
  <2> QED
    BY <1>1, <1>2, <2>1 DEF DueInv
<1> QED
  BY <1>3, <1>4, <1>5

LEMMA UploadKeepsDue ==
    ASSUME RetentionInv, DueInv, NEW m \in Notes, Upload(m) \/ DovecotMoves(m)
    PROVE  DueInv'
<1>0. /\ disk \in [Notes -> NoteFiles]
      /\ touched \in [Notes -> 0 .. MaxAge]
  BY DEF RetentionInv, RetentionTypes
<1>1. /\ Allowance' = Allowance /\ Round' = Round
      /\ UNCHANGED <<age, sleep, cleanup, restarts, errors>>
  <2>1. UNCHANGED <<age, sleep, cleanup, restarts, errors>>
    BY DEF Upload, UploadBegins, UploadWrites, UploadDelivers, UploadFails,
           DovecotMoves, noteVars, bounds
  <2> QED
    BY <2>1, AllowanceGrows, NumbersInRetention DEF Round
<1>2. CASE UNCHANGED <<disk, touched>>
  BY <1>1, <1>2 DEF DueInv
<1>3. CASE UploadWrites(m)
  <2>1. \A n \in Notes \ {m} : disk'[n] = disk[n] /\ touched'[n] = touched[n]
    BY <1>0, <1>3 DEF UploadWrites
  <2>2. touched'[m] = 0
    BY <1>0, <1>3 DEF UploadWrites
  <2>3. age[m] = 0
    BY <1>3 DEF UploadWrites, RetentionInv, Stages
  <2>4. /\ sleep < Round + Allowance /\ 0 < Round + Allowance
        /\ 0 < Retention + Allowance /\ Allowance >= 0
    <3>1. /\ Allowance \in Nat /\ Round \in Nat /\ Period < Round
          /\ sleep \in Nat /\ sleep <= Period /\ Period \in Nat
      BY AllowanceGrows, NumbersInRetention
    <3>2. Retention \in Nat /\ Retention > 0
      BY RetentionPositive
    <3> QED
      BY <3>1, <3>2
  <2>5. /\ age[m] + sleep < Round + Allowance /\ age[m] < Round + Allowance
        /\ age[m] < Retention + Allowance
        /\ age[m] <= touched'[m] + Allowance
    BY <2>2, <2>3, <2>4, AllowanceGrows, NumbersInRetention
  <2> QED
    BY <1>1, <2>1, <2>5 DEF DueInv
<1> QED
  BY <1>2, <1>3
  DEF Upload, UploadBegins, UploadDelivers, UploadFails, DovecotMoves, noteVars

\* Below its bound the clock counts both ages, and the sleep down.
LEMMA TimeKeepsDue ==
    ASSUME RetentionInv, DueInv, TimePasses PROVE DueInv'
<1>1. /\ UNCHANGED <<disk, cleanup, restarts, errors>>
      /\ cleanup.pc = "asleep" /\ sleep > 0 /\ sleep' = sleep - 1
  BY DEF TimePasses, bounds
<1>2. /\ Allowance' = Allowance /\ Round' = Round
      /\ Allowance \in Nat /\ Round \in Nat
      /\ Round + Allowance < MaxAge /\ MaxAge \in Nat
  BY <1>1, AllowanceGrows, NumbersInRetention, RetentionPositive
  DEF Round, DueInv
<1>3. ASSUME NEW n \in Notes, disk[n].dir
      PROVE  /\ age'[n] + sleep' < Round + Allowance
             /\ n \notin cleanup.expired => age'[n] <= touched'[n] + Allowance
  <2>1. age[n] + sleep < Round + Allowance
    BY <1>1, <1>3 DEF DueInv
  <2>2. touched[n] <= age[n] /\ age[n] < MaxAge
    BY <1>2, <2>1, NumbersInRetention DEF RetentionInv, Stages
  <2>3. age'[n] = Older(age[n]) /\ touched'[n] = Older(touched[n])
    BY <1>3 DEF TimePasses, Exists
  <2>4. age'[n] = age[n] + 1 /\ touched'[n] = touched[n] + 1
    BY <1>2, <2>2, <2>3, NumbersInRetention DEF Older
  <2>5. n \notin cleanup.expired => age[n] <= touched[n] + Allowance
    BY <1>3 DEF DueInv
  <2> QED
    BY <1>1, <1>2, <2>1, <2>4, <2>5, NumbersInRetention
<1> QED
  BY <1>1, <1>2, <1>3 DEF DueInv

LEMMA DueStep ==
    ASSUME RetentionInv, DueInv, [RetentionNext]_retentionVars PROVE DueInv'
<1>1. CASE CleanupStep
  BY <1>1, CleanupSplits, LooksKeepDue, RestsKeepDue, RemovalsKeepDue
<1>2. CASE \E m \in Notes : Upload(m) \/ DovecotMoves(m)
  BY <1>2, UploadKeepsDue
<1>3. CASE BackendRestart
  <2>1. /\ restarts' = restarts + 1 /\ errors' = errors /\ restarts < MaxRestarts
        /\ cleanup' = Asleep /\ sleep' = Period
        /\ UNCHANGED <<disk, age, touched>>
    BY <1>3 DEF BackendRestart, Sleeps
  <2>2. restarts' <= MaxRestarts /\ errors' <= MaxErrors
    BY <2>1, NumbersInRetention, RetentionPositive DEF DueInv
  <2> QED
    BY <2>1, <2>2, CutOffKeepsDue
<1>4. CASE TimePasses
  BY <1>4, TimeKeepsDue
<1>5. CASE UNCHANGED retentionVars
  BY <1>5 DEF retentionVars, noteVars, bounds, DueInv, Allowance, Round
<1> QED
  BY <1>1, <1>2, <1>3, <1>4, <1>5 DEF RetentionNext

(***************************************************************************)
(* The directory of a note, complete or not, is gone after the retention   *)
(* and one period, and at most as much again for each restart or failed    *)
(* cleanup.                                                                *)
(***************************************************************************)
THEOREM RemovedInTimeAlways == RetentionSpec => []RemovedInTime
<1>1. RetentionInit => DueInv
  BY RetentionPositive DEF RetentionInit, DueInv, Absent, Asleep
<1>2. RetentionInv /\ DueInv /\ [RetentionNext]_retentionVars => DueInv'
  BY DueStep
<1>3. RetentionInv /\ DueInv => RemovedInTime
  <2> SUFFICES ASSUME RetentionInv, DueInv, NEW n \in Notes, disk[n].dir
               PROVE  age[n] <= (1 + restarts + errors) * (Retention + Period)
    BY DEF RemovedInTime
  <2>1. (1 + restarts + errors) * (Retention + Period) = Round + Allowance
    BY AllowanceGrows, NumbersInRetention DEF Round
  <2>2. age[n] < Round + Allowance
    BY AllowanceGrows, NumbersInRetention DEF DueInv
  <2> QED
    BY <2>1, <2>2, AllowanceGrows, NumbersInRetention
<1> QED
  BY RetentionAlways, <1>1, <1>2, <1>3, PTL DEF RetentionSpec
=============================================================================
