------------------------ MODULE CircuitBreakerProofs ------------------------
(***************************************************************************)
(* Proofs about CircuitBreaker for any number of callers, any configuration *)
(* and any horizon: type correctness, the probe accounting, the is_open    *)
(* mirror, the sliding window's incremental failure count and the          *)
(* rationing of half-open admissions.                                      *)
(***************************************************************************)
EXTENDS CircuitBreaker, TLAPS, FiniteSetTheorems, SequenceTheorems

Sample == [at : Nat, failure : BOOLEAN]

-----------------------------------------------------------------------------
(* The window operators keep their types.                                  *)

\* push returns a sequence of samples.
LEMMA PushType ==
  ASSUME NEW s \in Seq(Sample), NEW x \in Sample
  PROVE  Push(s, x) \in Seq(Sample)
<1>1. CASE Len(s) >= MaxWindowEntries
  <2>1. s # <<>>
    BY <1>1, BreakerConstants
  <2>2. Tail(s) \in Seq(Sample)
    BY <2>1, HeadTailProperties
  <2> QED  BY <1>1, <2>2 DEF Push
<1>2. CASE ~(Len(s) >= MaxWindowEntries)
  BY <1>2 DEF Push
<1> QED  BY <1>1, <1>2

\* The number of failures in a window is a natural number.
LEMMA CountFailuresType ==
  ASSUME NEW s \in Seq(Sample)
  PROVE  CountFailures(s) \in Nat
<1>1. IsFiniteSet(1 .. Len(s))
  BY FS_Interval
<1>2. {i \in DOMAIN s : s[i].failure} \in SUBSET (1 .. Len(s))
  OBVIOUS
<1>3. IsFiniteSet({i \in DOMAIN s : s[i].failure})
  BY <1>1, <1>2, FS_Subset
<1> QED  BY <1>3, FS_CardinalityType DEF CountFailures

\* evict drops between none and all of the entries, and keeps a window.
LEMMA EvictType ==
  ASSUME NEW s \in Seq(Sample), NEW t \in Nat, NEW n \in Int
  PROVE  /\ DroppedByEvict(s, t) \in 0 .. Len(s)
         /\ Evict(s, t) \in Seq(Sample)
         /\ EvictedFailures(s, n, t) \in Int
<1> DEFINE D == {i \in DOMAIN s : \A j \in 1 .. i : s[j].at < t - WindowDuration}
<1>0. Len(s) \in Nat
  OBVIOUS
<1>1. /\ IsFiniteSet(1 .. Len(s))
      /\ Cardinality(1 .. Len(s)) = IF 1 > Len(s) THEN 0 ELSE Len(s) - 1 + 1
  BY <1>0, FS_Interval
<1>2. D \in SUBSET (1 .. Len(s))
  OBVIOUS
<1>3. IsFiniteSet(D) /\ Cardinality(D) <= Len(s)
  BY <1>0, <1>1, <1>2, FS_Subset
<1>4. Cardinality(D) \in Nat
  BY <1>3, FS_CardinalityType
<1>5. DroppedByEvict(s, t) \in 0 .. Len(s)
  <2>1. DroppedByEvict(s, t) = Cardinality(D)
    BY DEF DroppedByEvict
  <2> HIDE DEF D
  <2> QED  BY <1>0, <1>3, <1>4, <2>1
<1>6. Evict(s, t) \in Seq(Sample)
  <2> DEFINE m == DroppedByEvict(s, t) + 1
  <2>1. m \in Int /\ m >= 1 /\ Len(s) \in Int
    BY <1>5
  <2>2. \A i \in m .. Len(s) : s[i] \in Sample
    BY <2>1
  <2> HIDE DEF m
  <2>3. SubSeq(s, m, Len(s)) \in Seq(Sample)
    BY <2>1, <2>2, SubSeqProperties
  <2> QED  BY <2>3 DEF Evict, m
<1>7. SubSeq(s, 1, DroppedByEvict(s, t)) \in Seq(Sample)
  <2> DEFINE k == DroppedByEvict(s, t)
  <2>1. k \in Int /\ \A i \in 1 .. k : s[i] \in Sample
    BY <1>5
  <2> HIDE DEF k
  <2>2. SubSeq(s, 1, k) \in Seq(Sample)
    BY <2>1, SubSeqProperties
  <2> QED  BY <2>2 DEF k
<1>8. EvictedFailures(s, n, t) \in Int
  <2> DEFINE w == SubSeq(s, 1, DroppedByEvict(s, t))
  <2>1. EvictedFailures(s, n, t) = n - CountFailures(w)
    BY DEF EvictedFailures
  <2>2. w \in Seq(Sample)
    BY <1>7
  <2> HIDE DEF w
  <2>3. CountFailures(w) \in Nat
    BY <2>2, CountFailuresType
  <2> QED  BY <2>1, <2>3
<1> QED  BY <1>5, <1>6, <1>8

\* A record() adds its sample to a window and leaves a window.
LEMMA AddSampleType ==
  ASSUME TypeOK, NEW c \in Callers, AddSample(c)
  PROVE  entries' \in Seq(Sample) /\ failures' \in Int
<1> DEFINE x == [at |-> stamp[c], failure |-> failed[c]]
           n == PushedFailures(entries, failures, x)
<1>1. x \in Sample /\ entries \in Seq(Sample) /\ stamp[c] \in Nat
  BY DEF TypeOK, Sample
<1>2. Push(entries, x) \in Seq(Sample)
  BY <1>1, PushType
<1>3. n \in Int
  BY DEF PushedFailures, TypeOK
<1> HIDE DEF n
<1>4. /\ Evict(Push(entries, x), stamp[c]) \in Seq(Sample)
      /\ EvictedFailures(Push(entries, x), n, stamp[c]) \in Int
  BY <1>1, <1>2, <1>3, EvictType
<1> QED  BY <1>4 DEF AddSample, n

-----------------------------------------------------------------------------
(* What the window operators count.                                        *)

\* The indices of the failures in a window.
FailureAt(s) == {i \in DOMAIN s : s[i].failure}

\* A window that is one piece followed by another has the failures of both:
\* the one fact behind the incremental count of push and evict.
LEMMA CountSplit ==
  ASSUME NEW s \in Seq(Sample), NEW u \in Seq(Sample), NEW v \in Seq(Sample),
         Len(s) = Len(u) + Len(v),
         \A i \in 1 .. Len(u) : u[i] = s[i],
         \A i \in 1 .. Len(v) : v[i] = s[Len(u) + i]
  PROVE  CountFailures(s) = CountFailures(u) + CountFailures(v)
<1> DEFINE k == Len(u)
           H == {i \in FailureAt(s) : i > k}
           f == [i \in FailureAt(v) |-> i + k]
<1>1. Len(s) \in Nat /\ k \in Nat /\ Len(v) \in Nat
  OBVIOUS
<1>2. /\ DOMAIN s = 1 .. Len(s) /\ DOMAIN u = 1 .. k /\ DOMAIN v = 1 .. Len(v)
  OBVIOUS
<1>3. IsFiniteSet(FailureAt(u)) /\ IsFiniteSet(FailureAt(v))
  <2>1. IsFiniteSet(1 .. k) /\ IsFiniteSet(1 .. Len(v))
    BY <1>1, FS_Interval
  <2>2. FailureAt(u) \in SUBSET (1 .. k) /\ FailureAt(v) \in SUBSET (1 .. Len(v))
    BY <1>2 DEF FailureAt
  <2> QED  BY <2>1, <2>2, FS_Subset
<1>4. f \in Bijection(FailureAt(v), H)
  <2>1. \A i \in FailureAt(v) : i \in 1 .. Len(v) /\ i + k \in H
    BY <1>1, <1>2 DEF FailureAt
  <2>2. f \in [FailureAt(v) -> H]
    BY <2>1
  <2>3. \A i, j \in FailureAt(v) : f[i] = f[j] => i = j
    BY <1>1, <2>1
  <2>4. \A h \in H : h - k \in FailureAt(v) /\ f[h - k] = h
    <3> SUFFICES ASSUME NEW h \in H
                 PROVE  h - k \in FailureAt(v) /\ f[h - k] = h
      OBVIOUS
    <3>1. h \in 1 .. Len(s) /\ h > k /\ s[h].failure
      BY <1>2 DEF FailureAt
    <3>2. h - k \in 1 .. Len(v) /\ k + (h - k) = h
      BY <1>1, <3>1
    <3>3. v[h - k] = s[h]
      BY <3>2
    <3>4. h - k \in FailureAt(v)
      BY <1>2, <3>1, <3>2, <3>3 DEF FailureAt
    <3> QED  BY <1>1, <3>1, <3>4
  <2>5. f \in Injection(FailureAt(v), H)
    BY <2>2, <2>3 DEF Injection, IsInjective
  <2>6. f \in Surjection(FailureAt(v), H)
    BY <2>2, <2>4 DEF Surjection
  <2> QED  BY <2>5, <2>6 DEF Bijection
<1>5. IsFiniteSet(H) /\ Cardinality(H) = Cardinality(FailureAt(v))
  <2>1. ExistsBijection(FailureAt(v), H)
    BY <1>4 DEF ExistsBijection
  <2> HIDE DEF H
  <2> QED  BY <1>3, <2>1, FS_Bijection
<1>6. FailureAt(s) = FailureAt(u) \cup H /\ FailureAt(u) \cap H = {}
  BY <1>1, <1>2 DEF FailureAt
<1>7. Cardinality(FailureAt(s)) = Cardinality(FailureAt(u)) + Cardinality(H)
  <2> HIDE DEF H
  <2>1. /\ Cardinality(FailureAt(s)) = Cardinality(FailureAt(u)) + Cardinality(H)
                                         - Cardinality(FailureAt(u) \cap H)
        /\ Cardinality(FailureAt(u) \cap H) = 0
    BY <1>3, <1>5, <1>6, FS_Union, FS_EmptySet
  <2>2. Cardinality(FailureAt(u)) \in Nat /\ Cardinality(H) \in Nat
    BY <1>3, <1>5, FS_CardinalityType
  <2> QED  BY <2>1, <2>2
<1> QED  BY <1>5, <1>7 DEF CountFailures, FailureAt

\* A window of one sample.
LEMMA CountOne ==
  ASSUME NEW x \in Sample
  PROVE  CountFailures(<<x>>) = IF x.failure THEN 1 ELSE 0
<1>1. CASE x.failure
  <2>1. {i \in DOMAIN <<x>> : <<x>>[i].failure} = {1}
    BY <1>1
  <2> QED  BY <1>1, <2>1, FS_Singleton DEF CountFailures
<1>2. CASE ~x.failure
  <2>1. {i \in DOMAIN <<x>> : <<x>>[i].failure} = {}
    BY <1>2
  <2> QED  BY <1>2, <2>1, FS_EmptySet DEF CountFailures
<1> QED  BY <1>1, <1>2

\* push keeps the count exact and the window within its cap.
LEMMA PushCounts ==
  ASSUME NEW s \in Seq(Sample), NEW x \in Sample, Len(s) <= MaxWindowEntries
  PROVE  /\ PushedFailures(s, CountFailures(s), x) = CountFailures(Push(s, x))
         /\ Len(Push(s, x)) <= MaxWindowEntries
<1> USE BreakerConstants
<1> DEFINE one(y) == IF y.failure THEN 1 ELSE 0
<1>1. ASSUME NEW w \in Seq(Sample)
      PROVE  /\ CountFailures(Append(w, x)) = CountFailures(w) + one(x)
             /\ Len(Append(w, x)) = Len(w) + 1
  <2> DEFINE a == Append(w, x)
             b == <<x>>
  <2>1. b \in Seq(Sample) /\ Len(b) = 1 /\ b[1] = x /\ CountFailures(b) = one(x)
    BY CountOne
  <2>2. /\ a \in Seq(Sample) /\ Len(a) = Len(w) + 1
        /\ \A i \in 1 .. Len(w) : a[i] = w[i]
        /\ a[Len(w) + 1] = x
    BY AppendProperties
  <2> HIDE DEF a, b
  <2>3. Len(a) = Len(w) + Len(b) /\ \A i \in 1 .. Len(b) : b[i] = a[Len(w) + i]
    BY <2>1, <2>2
  <2>4. \A i \in 1 .. Len(w) : w[i] = a[i]
    BY <2>2
  <2>5. CountFailures(a) = CountFailures(w) + CountFailures(b)
    BY <2>1, <2>2, <2>3, <2>4, CountSplit
  <2> QED  BY <2>1, <2>2, <2>5 DEF a
<1>2. CountFailures(s) \in Nat
  BY CountFailuresType
<1>3. CASE Len(s) >= MaxWindowEntries
  <2> DEFINE t == Tail(s)
             h == <<s[1]>>
  <2>1. s # <<>> /\ Len(s) \in Nat /\ Len(s) >= 1
    BY <1>3
  <2>2. /\ t \in Seq(Sample) /\ Len(t) = Len(s) - 1
        /\ \A i \in 1 .. Len(t) : t[i] = s[i + 1]
    BY <2>1, HeadTailProperties
  <2>3. s[1] \in Sample
    BY <2>1
  <2>4. h \in Seq(Sample) /\ Len(h) = 1 /\ h[1] = s[1]
    BY <2>3
  <2>5. CountFailures(h) = one(s[1])
    BY <2>3, CountOne
  <2>6. Push(s, x) = Append(t, x)
    BY <1>3 DEF Push
  <2>7. PushedFailures(s, CountFailures(s), x) = CountFailures(s) - one(s[1]) + one(x)
    BY <1>2, <1>3 DEF PushedFailures
  <2> HIDE DEF t, h
  <2>8. CountFailures(s) = CountFailures(h) + CountFailures(t)
    <3>1. Len(s) = Len(h) + Len(t)
      BY <2>1, <2>2, <2>4
    <3>2. \A i \in 1 .. Len(h) : h[i] = s[i]
      BY <2>4
    <3>3. \A i \in 1 .. Len(t) : t[i] = s[Len(h) + i]
      BY <2>2, <2>4
    <3> QED  BY <2>2, <2>4, <3>1, <3>2, <3>3, CountSplit
  <2>9. CountFailures(t) \in Nat
    BY <2>2, CountFailuresType
  <2>10. /\ CountFailures(Append(t, x)) = CountFailures(t) + one(x)
         /\ Len(Append(t, x)) = Len(s)
    BY <1>1, <2>1, <2>2
  <2> QED  BY <1>2, <2>5, <2>6, <2>7, <2>8, <2>9, <2>10
<1>4. CASE ~(Len(s) >= MaxWindowEntries)
  <2>1. Push(s, x) = Append(s, x) /\ Len(s) \in Nat
    BY <1>4 DEF Push
  <2>2. PushedFailures(s, CountFailures(s), x) = CountFailures(s) + one(x)
    BY <1>2, <1>4 DEF PushedFailures
  <2> QED  BY <1>1, <1>4, <2>1, <2>2
<1> QED  BY <1>3, <1>4

\* evict keeps the count exact and does not lengthen the window.
LEMMA EvictCounts ==
  ASSUME NEW s \in Seq(Sample), NEW t \in Nat
  PROVE  /\ EvictedFailures(s, CountFailures(s), t) = CountFailures(Evict(s, t))
         /\ Len(Evict(s, t)) <= Len(s)
<1> DEFINE d == DroppedByEvict(s, t)
           u == SubSeq(s, 1, d)
           v == SubSeq(s, d + 1, Len(s))
<1>1. d \in 0 .. Len(s) /\ Len(s) \in Nat
  <2>1. CountFailures(s) \in Int
    BY CountFailuresType
  <2>2. DroppedByEvict(s, t) \in 0 .. Len(s)
    BY <2>1, EvictType
  <2> QED  BY <2>2
<1>2. Evict(s, t) = v
  BY DEF Evict
<1>3. EvictedFailures(s, CountFailures(s), t) = CountFailures(s) - CountFailures(u)
  BY DEF EvictedFailures
<1> HIDE DEF d
<1>4. /\ u \in Seq(Sample) /\ Len(u) = d
      /\ \A i \in 1 .. d : u[i] = s[i]
  <2>1. d \in Int /\ \A i \in 1 .. d : s[i] \in Sample
    BY <1>1
  <2>2. /\ SubSeq(s, 1, d) \in Seq(Sample)
        /\ Len(SubSeq(s, 1, d)) = IF 1 <= d THEN d - 1 + 1 ELSE 0
        /\ \A i \in 1 .. d - 1 + 1 : SubSeq(s, 1, d)[i] = s[1 + i - 1]
    BY <2>1, SubSeqProperties
  <2> HIDE DEF u
  <2>3. u = SubSeq(s, 1, d)
    BY DEF u
  <2> QED  BY <1>1, <2>2, <2>3
<1>5. /\ v \in Seq(Sample) /\ Len(v) = Len(s) - d
      /\ \A i \in 1 .. Len(v) : v[i] = s[d + i]
  <2> DEFINE m == d + 1
             n == Len(s)
  <2>1. m \in Int /\ n \in Int /\ \A i \in m .. n : s[i] \in Sample
    BY <1>1
  <2>2. m = d + 1 /\ n = Len(s) /\ v = SubSeq(s, m, n)
    OBVIOUS
  <2> HIDE DEF m, n, v
  <2>3. /\ SubSeq(s, m, n) \in Seq(Sample)
        /\ Len(SubSeq(s, m, n)) = IF m <= n THEN n - m + 1 ELSE 0
        /\ \A i \in 1 .. n - m + 1 : SubSeq(s, m, n)[i] = s[m + i - 1]
    BY <2>1, SubSeqProperties
  <2> QED  BY <1>1, <2>2, <2>3
<1> HIDE DEF u, v
<1>6. CountFailures(s) = CountFailures(u) + CountFailures(v)
  <2>1. Len(s) = Len(u) + Len(v)
    BY <1>1, <1>4, <1>5
  <2>2. \A i \in 1 .. Len(u) : u[i] = s[i]
    BY <1>4
  <2>3. \A i \in 1 .. Len(v) : v[i] = s[Len(u) + i]
    BY <1>4, <1>5
  <2> QED  BY <1>4, <1>5, <2>1, <2>2, <2>3, CountSplit
<1>7. CountFailures(u) \in Nat /\ CountFailures(v) \in Nat
  BY <1>4, <1>5, CountFailuresType
<1> QED  BY <1>1, <1>2, <1>3, <1>5, <1>6, <1>7

-----------------------------------------------------------------------------
(* The inductive invariant.                                                *)

\* A caller between its store of the state and its store of the mirror holds
\* the lock, and the state is still the one it stored.
LockInv ==
  \A c \in Callers :
    /\ pc[c] = "mirror_trip" => lock = c /\ state = "Open"
    /\ pc[c] = "mirror_half_open" => lock = c /\ state = "HalfOpen"
    /\ pc[c] = "mirror_close" => lock = c /\ state = "Closed"

\* Each admission beyond the probe slots was paid for with one open_duration
\* between the start of the generation and the latest claim.
LeaseInv ==
  state = "HalfOpen" =>
    /\ genStart <= now
    /\ probes <= admits
    /\ probes = 0 => admits = 0
    /\ claim # NO_PROBE_CLAIM =>
         /\ claim - 1 <= now
         /\ (admits - probes) * OpenDuration <= (claim - 1) - genStart

IInv ==
  /\ TypeOK /\ ProbeAccounting /\ MirrorAgrees /\ LockInv /\ LeaseInv
  /\ WindowCount

\* The multiplication facts the lease argument needs.
LEMMA TimesMonotone ==
  ASSUME NEW a \in Int, NEW b \in Int, NEW d \in Nat, a <= b
  PROVE  a * d <= b * d
  OBVIOUS

\* One more lease costs one more open_duration.
LEMMA TimesStep ==
  ASSUME NEW a \in Int, NEW d \in Nat
  PROVE  (a + 1) * d = a * d + d
  OBVIOUS

-----------------------------------------------------------------------------
\* The callers, the windows and the clock have their types after every step.
LEMMA TypeStep ==
  ASSUME TypeOK, [Next]_vars
  PROVE  TypeOK'
<1> USE BreakerConstants
<1>1. CASE UNCHANGED vars
  BY <1>1 DEF TypeOK, vars, probeVars, windowVars, localVars, ghostVars
<1>2. CASE Tick
  BY <1>2 DEF TypeOK, Tick, probeVars, windowVars, localVars, ghostVars
<1>3. CASE ErrorRate
  <2>1. entries' \in Seq(Sample) /\ failures' \in Int
    BY <1>3, EvictType DEF ErrorRate, TypeOK, Sample
  <2> QED
    BY <1>3, <2>1 DEF TypeOK, ErrorRate, Sample, probeVars, localVars, ghostVars
<1>4. ASSUME NEW c \in Callers, Step(c)  PROVE TypeOK'
  <2> USE DEF TypeOK, Goto, Places, States, probeVars, windowVars, localVars,
              ghostVars, ForgetRecord
  <2>1. CASE Check(c)            BY <2>1 DEF Check
  <2>2. CASE LoadOpened(c)       BY <2>2 DEF LoadOpened
  <2>3. CASE CompareElapsed(c)   BY <2>3 DEF CompareElapsed
  <2>4. CASE CasHalfOpen(c)
    <3>1. CASE state = "Open"
      <4>1. /\ state' = "HalfOpen" /\ lock' = c /\ genStart' = now
            /\ admits' = 0 /\ Goto(c, "mirror_half_open")
            /\ UNCHANGED <<openedAt, probes, claim, fast, windowVars, now,
                           localVars>>
        BY <2>4, <3>1 DEF CasHalfOpen
      <4> QED  BY <4>1
    <3>2. CASE state # "Open"    BY <2>4, <3>2 DEF CasHalfOpen
    <3> QED  BY <3>1, <3>2
  <2>5. CASE MirrorHalfOpen(c)   BY <2>5 DEF MirrorHalfOpen
  <2>6. CASE Reevaluate(c)       BY <2>6 DEF Reevaluate
  <2>7. CASE TryHalfOpenProbe(c)
    <3>1. CASE state = "HalfOpen" /\ (SlotFree \/ LeaseExpired)
      <4>1. /\ probes' = IF SlotFree THEN probes + 1 ELSE probes
            /\ claim' = now + 1 /\ admits' = admits + 1
            /\ Goto(c, "admitted")
            /\ UNCHANGED <<state, openedAt, fast, lock, windowVars, now,
                           localVars, genStart>>
        BY <2>7, <3>1 DEF TryHalfOpenProbe
      <4> QED  BY <4>1
    <3>2. CASE ~(state = "HalfOpen" /\ (SlotFree \/ LeaseExpired))
      BY <2>7, <3>2 DEF TryHalfOpenProbe
    <3> QED  BY <3>1, <3>2
  <2>8. CASE Abandon(c)          BY <2>8 DEF Abandon
  <2>9. CASE RecordStart(c)      BY <2>9 DEF RecordStart
  <2>10. CASE RecordReadState(c) BY <2>10 DEF RecordReadState
  <2>11. CASE SampleClosed(c)
    <3>1. entries' \in Seq(Sample) /\ failures' \in Int
      BY <2>11, AddSampleType DEF SampleClosed
    <3> QED  BY <2>11, <3>1 DEF SampleClosed, Sample
  <2>12. CASE SampleOpen(c)
    <3>1. entries' \in Seq(Sample) /\ failures' \in Int
      BY <2>12, AddSampleType DEF SampleOpen
    <3> QED  BY <2>12, <3>1 DEF SampleOpen, Sample
  <2>13. CASE Trip(c)            BY <2>13 DEF Trip, NO_PROBE_CLAIM
  <2>14. CASE MirrorTrip(c)      BY <2>14 DEF MirrorTrip
  <2>15. CASE Close(c)           BY <2>15 DEF Close, NO_PROBE_CLAIM
  <2>16. CASE MirrorClose(c)     BY <2>16 DEF MirrorClose
  <2>17. CASE ClearWindow(c)     BY <2>17 DEF ClearWindow
  <2> QED
    BY <1>4, <2>1, <2>2, <2>3, <2>4, <2>5, <2>6, <2>7, <2>8, <2>9, <2>10,
       <2>11, <2>12, <2>13, <2>14, <2>15, <2>16, <2>17 DEF Step
<1> QED  BY <1>1, <1>2, <1>3, <1>4 DEF Next

-----------------------------------------------------------------------------
\* Caller steps that touch neither the probe state nor the lock, and leave
\* the caller outside the critical sections.
Quiet(c) ==
  \/ Check(c) \/ LoadOpened(c) \/ CompareElapsed(c) \/ Reevaluate(c)
  \/ Abandon(c) \/ RecordStart(c) \/ RecordReadState(c)
  \/ SampleClosed(c) \/ SampleOpen(c) \/ ClearWindow(c)

Mirrors == {"mirror_trip", "mirror_half_open", "mirror_close"}

\* What a quiet step leaves alone.
LEMMA QuietStep ==
  ASSUME TypeOK, NEW c \in Callers, Quiet(c)
  PROVE  /\ UNCHANGED <<state, openedAt, probes, claim, fast, lock, now,
                        genStart, admits>>
         /\ pc[c] \notin Mirrors
         /\ \E w \in Places \ Mirrors : pc' = [pc EXCEPT ![c] = w]
<1> USE DEF TypeOK, Goto, Places, Mirrors, States, probeVars, ghostVars
<1>1. CASE Check(c)
  BY <1>1 DEF Check
<1>2. CASE LoadOpened(c)
  BY <1>2 DEF LoadOpened
<1>3. CASE CompareElapsed(c)
  BY <1>3 DEF CompareElapsed
<1>4. CASE Reevaluate(c)
  BY <1>4 DEF Reevaluate
<1>5. CASE Abandon(c)
  BY <1>5 DEF Abandon
<1>6. CASE RecordStart(c)
  BY <1>6 DEF RecordStart
<1>7. CASE RecordReadState(c)
  BY <1>7 DEF RecordReadState
<1>8. CASE SampleClosed(c)
  BY <1>8 DEF SampleClosed
<1>9. CASE SampleOpen(c)
  BY <1>9 DEF SampleOpen
<1>10. CASE ClearWindow(c)
  BY <1>10 DEF ClearWindow
<1> QED  BY <1>1, <1>2, <1>3, <1>4, <1>5, <1>6, <1>7, <1>8, <1>9, <1>10 DEF Quiet

\* No step disturbs the probe accounting.
LEMMA ProbeStep ==
  ASSUME TypeOK, ProbeAccounting, [Next]_vars
  PROVE  ProbeAccounting'
<1> USE BreakerConstants DEF ProbeAccounting, TypeOK, NO_PROBE_CLAIM
<1>1. CASE UNCHANGED vars
  BY <1>1 DEF vars, probeVars
<1>2. CASE Tick \/ ErrorRate
  BY <1>2 DEF Tick, ErrorRate, probeVars
<1>3. ASSUME NEW c \in Callers, Step(c)  PROVE ProbeAccounting'
  <2>1. CASE Quiet(c)            BY <2>1, QuietStep
  <2>2. CASE CasHalfOpen(c)      BY <2>2 DEF CasHalfOpen
  <2>3. CASE MirrorHalfOpen(c)   BY <2>3 DEF MirrorHalfOpen
  <2>4. CASE TryHalfOpenProbe(c) BY <2>4 DEF TryHalfOpenProbe, SlotFree, LeaseExpired
  <2>5. CASE Trip(c)             BY <2>5 DEF Trip
  <2>6. CASE MirrorTrip(c)       BY <2>6 DEF MirrorTrip
  <2>7. CASE Close(c)            BY <2>7 DEF Close
  <2>8. CASE MirrorClose(c)      BY <2>8 DEF MirrorClose
  <2> QED
    BY <1>3, <2>1, <2>2, <2>3, <2>4, <2>5, <2>6, <2>7, <2>8 DEF Step, Quiet
<1> QED  BY <1>1, <1>2, <1>3 DEF Next

\* The mirror and the lock discipline that justifies it.
LEMMA MirrorStep ==
  ASSUME TypeOK, MirrorAgrees, LockInv, [Next]_vars
  PROVE  MirrorAgrees' /\ LockInv'
<1> USE BreakerConstants DEF MirrorAgrees, LockInv, TypeOK, Goto
<1>1. CASE UNCHANGED vars
  BY <1>1 DEF vars, probeVars
<1>2. CASE Tick \/ ErrorRate
  BY <1>2 DEF Tick, ErrorRate, probeVars
<1>3. ASSUME NEW c \in Callers, Step(c)  PROVE MirrorAgrees' /\ LockInv'
  <2>1. CASE Quiet(c)            BY <2>1, QuietStep DEF Mirrors
  <2>2. CASE CasHalfOpen(c)      BY <2>2 DEF CasHalfOpen
  <2>3. CASE MirrorHalfOpen(c)   BY <2>3 DEF MirrorHalfOpen
  <2>4. CASE TryHalfOpenProbe(c) BY <2>4 DEF TryHalfOpenProbe
  <2>5. CASE Trip(c)             BY <2>5 DEF Trip
  <2>6. CASE MirrorTrip(c)       BY <2>6 DEF MirrorTrip
  <2>7. CASE Close(c)            BY <2>7 DEF Close
  <2>8. CASE MirrorClose(c)      BY <2>8 DEF MirrorClose
  <2> QED
    BY <1>3, <2>1, <2>2, <2>3, <2>4, <2>5, <2>6, <2>7, <2>8 DEF Step, Quiet
<1> QED  BY <1>1, <1>2, <1>3 DEF Next

\* A takeover pays one open_duration; a fresh slot pays nothing.
LEMMA LeaseStep ==
  ASSUME TypeOK, ProbeAccounting, LeaseInv, [Next]_vars
  PROVE  LeaseInv'
<1> USE BreakerConstants DEF LeaseInv, TypeOK, NO_PROBE_CLAIM
<1>1. CASE UNCHANGED vars
  BY <1>1 DEF vars, probeVars, ghostVars
<1>2. CASE Tick \/ ErrorRate
  BY <1>2 DEF Tick, ErrorRate, probeVars, ghostVars
<1>3. ASSUME NEW c \in Callers, Step(c)  PROVE LeaseInv'
  <2>1. CASE Quiet(c)            BY <2>1, QuietStep
  <2>2. CASE CasHalfOpen(c)
    <3>1. CASE state = "Open"
      <4>1. /\ state' = "HalfOpen" /\ genStart' = now /\ admits' = 0
            /\ UNCHANGED <<probes, claim, now>>
        BY <2>2, <3>1 DEF CasHalfOpen
      <4> QED  BY <3>1, <4>1 DEF ProbeAccounting
    <3>2. CASE state # "Open"
      BY <2>2, <3>2 DEF CasHalfOpen, ghostVars
    <3> QED  BY <3>1, <3>2
  <2>3. CASE MirrorHalfOpen(c)   BY <2>3 DEF MirrorHalfOpen, ghostVars
  <2>4. CASE TryHalfOpenProbe(c)
    <3>1. CASE state = "HalfOpen" /\ SlotFree
      <4>1. /\ probes' = probes + 1 /\ claim' = now + 1 /\ admits' = admits + 1
            /\ UNCHANGED <<state, now, genStart>>
        BY <2>4, <3>1 DEF TryHalfOpenProbe
      <4>2. admits' - probes' = admits - probes
        BY <4>1
      <4>3. (admits - probes) * OpenDuration <= now - genStart
        <5>1. CASE claim # 0
          BY <3>1, <5>1
        <5>2. CASE claim = 0
          <6>1. probes = 0 /\ admits = 0
            BY <3>1, <5>2 DEF ProbeAccounting
          <6> QED  BY <3>1, <6>1
        <5> QED  BY <5>1, <5>2
      <4> QED  BY <3>1, <4>1, <4>2, <4>3
    <3>2. CASE state = "HalfOpen" /\ ~SlotFree /\ LeaseExpired
      <4>1. /\ probes' = probes /\ claim' = now + 1 /\ admits' = admits + 1
            /\ UNCHANGED <<state, now, genStart>>
        BY <2>4, <3>2 DEF TryHalfOpenProbe
      <4>2. probes # 0
        BY <3>2 DEF SlotFree
      <4>3. /\ (admits - probes) * OpenDuration <= (claim - 1) - genStart
            /\ now - (claim - 1) >= OpenDuration
        BY <3>2 DEF LeaseExpired
      <4>4. (admits - probes + 1) * OpenDuration
              = (admits - probes) * OpenDuration + OpenDuration
        BY TimesStep
      <4>5. (admits' - probes') * OpenDuration <= now - genStart
        <5>1. admits' - probes' = admits - probes + 1
          BY <4>1
        <5>2. (admits - probes) * OpenDuration \in Int
          OBVIOUS
        <5> QED  BY <4>3, <4>4, <5>1, <5>2
      <4> QED  BY <3>2, <4>1, <4>2, <4>5
    <3>3. CASE ~(state = "HalfOpen" /\ (SlotFree \/ LeaseExpired))
      BY <2>4, <3>3 DEF TryHalfOpenProbe
    <3> QED  BY <3>1, <3>2, <3>3
  <2>5. CASE Trip(c)             BY <2>5 DEF Trip
  <2>6. CASE MirrorTrip(c)       BY <2>6 DEF MirrorTrip, ghostVars
  <2>7. CASE Close(c)            BY <2>7 DEF Close
  <2>8. CASE MirrorClose(c)      BY <2>8 DEF MirrorClose, ghostVars
  <2> QED
    BY <1>3, <2>1, <2>2, <2>3, <2>4, <2>5, <2>6, <2>7, <2>8 DEF Step, Quiet
<1> QED  BY <1>1, <1>2, <1>3 DEF Next

\* The count and the cap survive every push, eviction and clear.
LEMMA WindowStep ==
  ASSUME TypeOK, WindowCount, [Next]_vars
  PROVE  WindowCount'
<1> USE DEF WindowCount
<1>1. entries \in Seq(Sample) /\ now \in Nat /\ Len(entries) \in Nat
  BY DEF TypeOK, Sample
<1>2. CASE UNCHANGED windowVars
  BY <1>2 DEF windowVars, CountFailures
<1>3. CASE ErrorRate
  <2>1. /\ EvictedFailures(entries, failures, now) = CountFailures(Evict(entries, now))
        /\ Len(Evict(entries, now)) <= Len(entries)
    BY <1>1, EvictCounts
  <2>2. Len(Evict(entries, now)) \in Nat
    BY <1>1, EvictType DEF TypeOK
  <2>3. /\ entries' = Evict(entries, now)
        /\ failures' = EvictedFailures(entries, failures, now)
    BY <1>3 DEF ErrorRate
  <2>4. CountFailures(entries)' = CountFailures(Evict(entries, now))
    BY <2>3 DEF CountFailures
  <2> QED  BY BreakerConstants, <1>1, <2>1, <2>2, <2>3, <2>4
<1>4. ASSUME NEW c \in Callers, AddSample(c)  PROVE WindowCount'
  <2> DEFINE x == [at |-> stamp[c], failure |-> failed[c]]
             p == Push(entries, x)
             n == PushedFailures(entries, failures, x)
             e == Evict(p, stamp[c])
  <2>1. x \in Sample /\ stamp[c] \in Nat
    BY DEF TypeOK, Sample
  <2>2. entries' = e /\ failures' = EvictedFailures(p, n, stamp[c])
    BY <1>4 DEF AddSample
  <2> HIDE DEF x
  <2>3. p \in Seq(Sample)
    BY <1>1, <2>1, PushType
  <2>4. n = CountFailures(p) /\ Len(p) <= MaxWindowEntries
    BY <1>1, <2>1, PushCounts
  <2> HIDE DEF p, n
  <2>5. EvictedFailures(p, n, stamp[c]) = CountFailures(e) /\ Len(e) <= Len(p)
    BY <2>1, <2>3, <2>4, EvictCounts
  <2>6. Len(e) \in Nat /\ Len(p) \in Nat
    <3>1. CountFailures(p) \in Int
      BY <2>3, CountFailuresType
    <3>2. e \in Seq(Sample)
      BY <2>1, <2>3, <3>1, EvictType
    <3> HIDE DEF e
    <3> QED  BY <2>3, <3>2
  <2> HIDE DEF e
  <2>7. CountFailures(entries)' = CountFailures(e)
    BY <2>2 DEF CountFailures
  <2> QED  BY BreakerConstants, <2>2, <2>4, <2>5, <2>6, <2>7
<1>5. ASSUME NEW c \in Callers, ClearWindow(c)  PROVE WindowCount'
  <2>1. entries' = <<>> /\ failures' = 0
    BY <1>5 DEF ClearWindow
  <2>2. {i \in DOMAIN entries' : entries'[i].failure} = {}
    BY <2>1
  <2>3. CountFailures(entries)' = 0
    BY <2>2, FS_EmptySet DEF CountFailures
  <2> QED  BY BreakerConstants, <2>1, <2>3
<1>6. ASSUME NEW c \in Callers, Step(c)  PROVE WindowCount'
  <2>1. \/ UNCHANGED windowVars \/ AddSample(c) \/ ClearWindow(c)
    BY <1>6 DEF Step, Check, LoadOpened, CompareElapsed, CasHalfOpen,
       MirrorHalfOpen, Reevaluate, TryHalfOpenProbe, Abandon, RecordStart,
       RecordReadState, SampleClosed, SampleOpen, Trip, MirrorTrip, Close,
       MirrorClose, windowVars
  <2> QED  BY <1>2, <1>4, <1>5, <2>1
<1> QED
  BY <1>2, <1>3, <1>6 DEF Next, Tick, vars, windowVars

-----------------------------------------------------------------------------
\* The inductive invariant holds of every behaviour of the breaker.
THEOREM Invariance == Spec => []IInv
<1>1. Init => IInv
  <2> SUFFICES ASSUME Init PROVE IInv
    OBVIOUS
  <2> USE BreakerConstants DEF Init, NO_PROBE_CLAIM
  <2>1. TypeOK
    <3>1. entries \in Seq([at : Nat, failure : BOOLEAN])
      OBVIOUS
    <3>2. lock \in Callers \cup {Nobody} /\ fast \in BOOLEAN /\ state \in States
      BY DEF States
    <3>3. /\ pc \in [Callers -> Places]
          /\ stamp \in [Callers -> Nat]
          /\ failed \in [Callers -> BOOLEAN]
          /\ opened \in [Callers -> Nat]
      BY DEF Places
    <3> QED  BY <3>1, <3>2, <3>3 DEF TypeOK
  <2>2. ProbeAccounting  BY DEF ProbeAccounting
  <2>3. MirrorAgrees     BY DEF MirrorAgrees
  <2>4. LockInv          BY DEF LockInv
  <2>5. LeaseInv         BY DEF LeaseInv
  <2>6. WindowCount
    <3>1. {i \in DOMAIN entries : entries[i].failure} = {} /\ Len(entries) = 0
      OBVIOUS
    <3> QED  BY <3>1, FS_EmptySet DEF WindowCount, CountFailures
  <2> QED  BY <2>1, <2>2, <2>3, <2>4, <2>5, <2>6 DEF IInv
<1>2. IInv /\ [Next]_vars => IInv'
  BY TypeStep, ProbeStep, MirrorStep, LeaseStep, WindowStep DEF IInv
<1> QED  BY <1>1, <1>2, PTL DEF Spec

\* Every variable of the breaker keeps its type.
THEOREM TypeCorrect == Spec => []TypeOK
<1>1. IInv => TypeOK
  BY DEF IInv
<1> QED  BY <1>1, Invariance, PTL

\* However check() and record() calls interleave, slots and the claim belong
\* to one half-open generation and never exceed half_open_max_probes.
THEOREM ProbesAccounted == Spec => []ProbeAccounting
<1>1. IInv => ProbeAccounting
  BY DEF IInv
<1> QED  BY <1>1, Invariance, PTL

\* is_open() agrees with the state whenever no writer holds the lock.
THEOREM MirrorCorrect == Spec => []MirrorAgrees
<1>1. IInv => MirrorAgrees
  BY DEF IInv
<1> QED  BY <1>1, Invariance, PTL

\* The incremental count is exact and the window within its cap, whatever
\* pushes, evictions and clears interleave: the rate a trip is decided on is
\* that of the samples in the window.
THEOREM WindowIsExact == Spec => []WindowCount
<1>1. IInv => WindowCount
  BY DEF IInv
<1> QED  BY <1>1, Invariance, PTL

\* A half-open generation admits half_open_max_probes plus at most one probe
\* for each open_duration it lasts, for any number of callers.
THEOREM AdmissionsRationed == Spec => []LeaseBound
<1>1. IInv => LeaseBound
  <2> SUFFICES ASSUME IInv, state = "HalfOpen"
               PROVE  (admits - MaxProbes) * OpenDuration <= now - genStart
    BY DEF LeaseBound
  <2> USE BreakerConstants DEF IInv, TypeOK
  <2>1. (admits - MaxProbes) * OpenDuration <= (admits - probes) * OpenDuration
    BY TimesMonotone DEF ProbeAccounting
  <2>2. (admits - probes) * OpenDuration <= now - genStart
    <3>1. CASE claim # NO_PROBE_CLAIM
      <4>1. /\ claim - 1 <= now
            /\ (admits - probes) * OpenDuration <= (claim - 1) - genStart
        BY <3>1 DEF LeaseInv
      <4> QED  BY <4>1
    <3>2. CASE claim = NO_PROBE_CLAIM
      <4>1. probes = 0 /\ admits = 0 /\ genStart <= now
        BY <3>2 DEF ProbeAccounting, LeaseInv
      <4> QED  BY <4>1
    <3> QED  BY <3>1, <3>2
  <2> DEFINE paid == (admits - MaxProbes) * OpenDuration
             owed == (admits - probes) * OpenDuration
             age  == now - genStart
  <2>3. paid \in Int /\ owed \in Int /\ age \in Int /\ paid <= owed /\ owed <= age
    BY <2>1, <2>2
  <2> HIDE DEF paid, owed, age
  <2>4. paid <= age
    BY <2>3
  <2> QED  BY <2>4 DEF paid, age
<1> QED  BY <1>1, Invariance, PTL
=============================================================================
