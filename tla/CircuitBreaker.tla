--------------------------- MODULE CircuitBreaker ---------------------------
(***************************************************************************)
(* The shared circuit breaker of crates/common/xai-circuit-breaker.        *)
(*                                                                         *)
(* Any number of callers share one breaker.  A caller consults check(),    *)
(* and when admitted either reports the outcome with record() or drops its *)
(* request and reports nothing.  `state' is an atomic every caller reads   *)
(* without a lock, so what check() and record() decide may be stale by the *)
(* time they act; `lock' is probe_state_lock, under which `state', the     *)
(* probe counter, the probe claim and the is_open_fast mirror are written. *)
(* One step of the model is one atomic access, or one critical section up  *)
(* to the store of `state' and one for the mirror store that follows it.   *)
(***************************************************************************)
EXTENDS Integers, Sequences, FiniteSets

CONSTANTS
  Callers,          \* threads that share the breaker
  Nobody,           \* the value of `lock' when it is free
  Enabled,          \* BreakerConfig::enabled
  MinSamples,       \* BreakerConfig::min_samples
  RateNum, RateDen, \* BreakerConfig::error_rate_threshold = RateNum / RateDen
  WindowDuration,   \* BreakerConfig::window_duration
  OpenDuration,     \* BreakerConfig::open_duration
  MaxProbes,        \* half_open_max_probes, already clamped to 1 or more
  MaxWindowEntries, \* window.rs MAX_WINDOW_ENTRIES
  MaxTime           \* bound: the clock stops here

ASSUME BreakerConstants ==
  /\ Nobody \notin Callers
  /\ Enabled \in BOOLEAN
  /\ MinSamples \in Nat /\ RateNum \in Nat /\ RateDen \in Nat \ {0}
  /\ WindowDuration \in Nat /\ OpenDuration \in Nat /\ MaxTime \in Nat
  /\ MaxProbes \in Nat \ {0} /\ MaxWindowEntries \in Nat \ {0}

VARIABLES
  state,      \* authoritative BreakerState
  openedAt,   \* opened_at_millis
  probes,     \* half_open_probes
  claim,      \* probe_claimed_at_millis: 0 is "no claim", else time + 1
  fast,       \* is_open_fast, the lock-free mirror of state = "Open"
  lock,       \* owner of probe_state_lock
  entries,    \* the sliding window, oldest push first
  failures,   \* the window's incremental failure count
  now,        \* the monotonic clock, offset from the baseline
  pc,         \* what each caller does next
  stamp,      \* the time a record() read at its start
  failed,     \* the outcome a record() carries
  opened,     \* the opened_at_millis a check_open() loaded
  genStart,   \* history: when the current half-open generation began
  admits      \* history: probes admitted in that generation

probeVars == <<state, openedAt, probes, claim, fast>>
windowVars == <<entries, failures>>
localVars == <<stamp, failed, opened>>
ghostVars == <<genStart, admits>>
vars == <<probeVars, lock, windowVars, now, pc, localVars, ghostVars>>

States == {"Closed", "Open", "HalfOpen"}
NO_PROBE_CLAIM == 0

-----------------------------------------------------------------------------
(* The sliding window.                                                     *)

CountFailures(s) == Cardinality({i \in DOMAIN s : s[i].failure})

\* push: at the cap the oldest entry makes room, whatever its age.
Push(s, sample) ==
  Append(IF Len(s) >= MaxWindowEntries THEN Tail(s) ELSE s, sample)

\* Mutant: the entry dropped at the cap stays counted.
PushedFailuresLeak(s, n, sample) == n + (IF sample.failure THEN 1 ELSE 0)

PushedFailures(s, n, sample) ==
  n - (IF Len(s) >= MaxWindowEntries /\ s[1].failure THEN 1 ELSE 0)
    + (IF sample.failure THEN 1 ELSE 0)

\* evict pops from the front and stops at the first entry that is not older
\* than the cutoff: it drops the entries with nothing younger before them.
DroppedByEvict(s, at) ==
  Cardinality({i \in DOMAIN s : \A j \in 1 .. i : s[j].at < at - WindowDuration})

Evict(s, at) == SubSeq(s, DroppedByEvict(s, at) + 1, Len(s))

EvictedFailures(s, n, at) ==
  n - CountFailures(SubSeq(s, 1, DroppedByEvict(s, at)))

\* sample_count() >= min_samples && error_rate() >= error_rate_threshold
ShouldTrip(s, n) ==
  /\ Len(s) >= MinSamples
  /\ IF Len(s) = 0 THEN RateNum = 0 ELSE n * RateDen >= RateNum * Len(s)

-----------------------------------------------------------------------------
Init ==
  /\ state = "Closed" /\ openedAt = 0 /\ probes = 0
  /\ claim = NO_PROBE_CLAIM /\ fast = FALSE /\ lock = Nobody
  /\ entries = <<>> /\ failures = 0 /\ now = 0
  /\ pc = [c \in Callers |-> "idle"]
  /\ stamp = [c \in Callers |-> 0]
  /\ failed = [c \in Callers |-> FALSE]
  /\ opened = [c \in Callers |-> 0]
  /\ genStart = 0 /\ admits = 0

Goto(c, where) == pc' = [pc EXCEPT ![c] = where]

(***************************************************************************)
(* check()                                                                 *)
(***************************************************************************)
\* check() loads the state once and takes the branch that load selects.
Check(c) ==
  /\ pc[c] = "idle"
  /\ Goto(c, IF ~Enabled \/ state = "Closed" THEN "admitted"
             ELSE IF state = "Open" THEN "load_opened" ELSE "probe")
  /\ UNCHANGED <<probeVars, lock, windowVars, now, localVars, ghostVars>>

\* check_open() loads opened_at_millis ...
LoadOpened(c) ==
  /\ pc[c] = "load_opened"
  /\ opened' = [opened EXCEPT ![c] = openedAt]
  /\ Goto(c, "elapsed")
  /\ UNCHANGED <<probeVars, lock, windowVars, now, stamp, failed, ghostVars>>

\* ... and then the clock: shed unless open_duration has elapsed.
CompareElapsed(c) ==
  /\ pc[c] = "elapsed"
  /\ Goto(c, IF now - opened[c] >= OpenDuration THEN "cas" ELSE "idle")
  /\ opened' = [opened EXCEPT ![c] = 0]
  /\ UNCHANGED <<probeVars, lock, windowVars, now, stamp, failed, ghostVars>>

\* The compare-exchange Open -> HalfOpen under the lock.
CasHalfOpen(c) ==
  /\ pc[c] = "cas"
  /\ lock = Nobody
  /\ \/ /\ state = "Open"
        /\ state' = "HalfOpen"
        /\ lock' = c
        /\ genStart' = now
        /\ admits' = 0
        /\ Goto(c, "mirror_half_open")
     \/ /\ state # "Open"
        /\ Goto(c, "reevaluate")
        /\ UNCHANGED <<state, lock, ghostVars>>
  /\ UNCHANGED <<openedAt, probes, claim, fast, windowVars, now, localVars>>

\* Mutant: the mirror is left as trip() set it.
MirrorHalfOpenForgets(c) ==
  /\ pc[c] = "mirror_half_open"
  /\ lock' = Nobody
  /\ Goto(c, "probe")
  /\ UNCHANGED <<probeVars, windowVars, now, localVars, ghostVars>>

MirrorHalfOpen(c) ==
  /\ pc[c] = "mirror_half_open"
  /\ fast' = FALSE
  /\ lock' = Nobody
  /\ Goto(c, "probe")
  /\ UNCHANGED <<state, openedAt, probes, claim, windowVars, now, localVars,
                 ghostVars>>

\* The loser of the compare-exchange looks at the state again.
Reevaluate(c) ==
  /\ pc[c] = "reevaluate"
  /\ Goto(c, IF state = "Closed" THEN "admitted"
             ELSE IF state = "HalfOpen" THEN "probe" ELSE "idle")
  /\ UNCHANGED <<probeVars, lock, windowVars, now, localVars, ghostVars>>

\* Mutant: the comparison with half_open_max_probes is off by one.
SlotFreeOffByOne == probes <= MaxProbes

SlotFree == probes < MaxProbes

\* Mutants: a claim never expires, or does so at once.
LeaseNeverExpires == FALSE
LeaseExpiredAtOnce == ~SlotFree /\ claim # NO_PROBE_CLAIM

\* Every slot is taken and the last claim has outlived its lease of
\* open_duration: it is taken over.
LeaseExpired ==
  /\ ~SlotFree
  /\ claim # NO_PROBE_CLAIM
  /\ now - (claim - 1) >= OpenDuration

\* try_half_open_probe: one critical section.
TryHalfOpenProbe(c) ==
  /\ pc[c] = "probe"
  /\ lock = Nobody
  /\ \/ /\ state = "HalfOpen" /\ (SlotFree \/ LeaseExpired)
        /\ probes' = IF SlotFree THEN probes + 1 ELSE probes
        /\ claim' = now + 1
        /\ admits' = admits + 1
        /\ Goto(c, "admitted")
     \/ /\ state # "HalfOpen" \/ ~(SlotFree \/ LeaseExpired)
        /\ Goto(c, "idle")
        /\ UNCHANGED <<probes, claim, admits>>
  /\ UNCHANGED <<state, openedAt, fast, lock, windowVars, now, localVars,
                 genStart>>

(***************************************************************************)
(* record()                                                                *)
(***************************************************************************)
\* The caller's request ends without a record(): its future was dropped, or
\* its status is one the caller does not report.
Abandon(c) ==
  /\ pc[c] = "admitted"
  /\ Goto(c, "idle")
  /\ UNCHANGED <<probeVars, lock, windowVars, now, localVars, ghostVars>>

\* record() reads the clock first ...
RecordStart(c) ==
  /\ pc[c] = "admitted"
  /\ Enabled
  /\ \E f \in BOOLEAN : failed' = [failed EXCEPT ![c] = f]
  /\ stamp' = [stamp EXCEPT ![c] = now]
  /\ Goto(c, "record")
  /\ UNCHANGED <<probeVars, lock, windowVars, now, opened, ghostVars>>

\* ... then the state, and acts on that reading whatever happens meanwhile.
RecordReadState(c) ==
  /\ pc[c] = "record"
  /\ Goto(c, IF state = "Closed" THEN "sample_closed"
             ELSE IF state = "Open" THEN "sample_open"
             ELSE IF failed[c] THEN "trip" ELSE "close")
  /\ UNCHANGED <<probeVars, lock, windowVars, now, localVars, ghostVars>>

ForgetRecord(c) ==
  /\ stamp' = [stamp EXCEPT ![c] = 0]
  /\ failed' = [failed EXCEPT ![c] = FALSE]

\* Push the sample and evict with the time record() read at its start.
AddSample(c) ==
  LET sample == [at |-> stamp[c], failure |-> failed[c]]
      pushed == Push(entries, sample)
      count  == PushedFailures(entries, failures, sample)
  IN  /\ entries' = Evict(pushed, stamp[c])
      /\ failures' = EvictedFailures(pushed, count, stamp[c])

SampleClosed(c) ==
  /\ pc[c] = "sample_closed"
  /\ AddSample(c)
  /\ Goto(c, IF ShouldTrip(entries', failures') THEN "trip" ELSE "idle")
  /\ ForgetRecord(c)
  /\ UNCHANGED <<probeVars, lock, now, opened, ghostVars>>

SampleOpen(c) ==
  /\ pc[c] = "sample_open"
  /\ AddSample(c)
  /\ Goto(c, "idle")
  /\ ForgetRecord(c)
  /\ UNCHANGED <<probeVars, lock, now, opened, ghostVars>>

\* Mutant: the Open generation is dated back by its duration.
TripDatedBack(c) ==
  /\ pc[c] = "trip" /\ lock = Nobody
  /\ lock' = c
  /\ openedAt' = now - OpenDuration
  /\ probes' = 0 /\ claim' = NO_PROBE_CLAIM /\ state' = "Open"
  /\ Goto(c, "mirror_trip")
  /\ ForgetRecord(c)
  /\ UNCHANGED <<fast, windowVars, now, opened, ghostVars>>

\* trip() opens a new generation whatever the state is by now.
Trip(c) ==
  /\ pc[c] = "trip"
  /\ lock = Nobody
  /\ lock' = c
  /\ openedAt' = now
  /\ probes' = 0
  /\ claim' = NO_PROBE_CLAIM
  /\ state' = "Open"
  /\ Goto(c, "mirror_trip")
  /\ ForgetRecord(c)
  /\ UNCHANGED <<fast, windowVars, now, opened, ghostVars>>

MirrorTrip(c) ==
  /\ pc[c] = "mirror_trip"
  /\ fast' = TRUE
  /\ lock' = Nobody
  /\ Goto(c, "idle")
  /\ UNCHANGED <<state, openedAt, probes, claim, windowVars, now, localVars,
                 ghostVars>>

\* close() publishes Closed whatever the state is by now; the window is
\* cleared afterwards, under its own lock.
Close(c) ==
  /\ pc[c] = "close"
  /\ lock = Nobody
  /\ lock' = c
  /\ state' = "Closed"
  /\ probes' = 0
  /\ claim' = NO_PROBE_CLAIM
  /\ Goto(c, "mirror_close")
  /\ ForgetRecord(c)
  /\ UNCHANGED <<openedAt, fast, windowVars, now, opened, ghostVars>>

MirrorClose(c) ==
  /\ pc[c] = "mirror_close"
  /\ fast' = FALSE
  /\ lock' = Nobody
  /\ Goto(c, "clear")
  /\ UNCHANGED <<state, openedAt, probes, claim, windowVars, now, localVars,
                 ghostVars>>

ClearWindow(c) ==
  /\ pc[c] = "clear"
  /\ entries' = <<>>
  /\ failures' = 0
  /\ Goto(c, "idle")
  /\ UNCHANGED <<probeVars, lock, now, localVars, ghostVars>>

-----------------------------------------------------------------------------
\* error_rate(): evicts against the current time, then reports the rate.
ErrorRate ==
  /\ entries' = Evict(entries, now)
  /\ failures' = EvictedFailures(entries, failures, now)
  /\ UNCHANGED <<probeVars, lock, now, pc, localVars, ghostVars>>

\* The monotonic clock advances on its own.
Tick ==
  /\ now < MaxTime
  /\ now' = now + 1
  /\ UNCHANGED <<probeVars, lock, windowVars, pc, localVars, ghostVars>>

Step(c) ==
  \/ Check(c) \/ LoadOpened(c) \/ CompareElapsed(c) \/ CasHalfOpen(c)
  \/ MirrorHalfOpen(c) \/ Reevaluate(c) \/ TryHalfOpenProbe(c)
  \/ Abandon(c) \/ RecordStart(c) \/ RecordReadState(c)
  \/ SampleClosed(c) \/ SampleOpen(c)
  \/ Trip(c) \/ MirrorTrip(c) \/ Close(c) \/ MirrorClose(c) \/ ClearWindow(c)

Next == Tick \/ ErrorRate \/ \E c \in Callers : Step(c)

Spec == Init /\ [][Next]_vars

\* Traffic keeps coming and the operating system schedules every caller.
FairSpec == Spec /\ WF_vars(Tick) /\ \A c \in Callers : WF_vars(Step(c))

-----------------------------------------------------------------------------
Places == {"idle", "load_opened", "elapsed", "cas", "mirror_half_open",
           "reevaluate", "probe", "admitted", "record", "sample_closed",
           "sample_open", "trip", "mirror_trip", "close", "mirror_close",
           "clear"}

\* Every variable has its type.
TypeOK ==
  /\ state \in States
  /\ openedAt \in Nat /\ probes \in Nat /\ claim \in Nat /\ now \in Nat
  /\ genStart \in Nat /\ admits \in Nat
  /\ fast \in BOOLEAN
  /\ lock \in Callers \cup {Nobody}
  /\ entries \in Seq([at : Nat, failure : BOOLEAN])
  /\ failures \in Int
  /\ pc \in [Callers -> Places]
  /\ stamp \in [Callers -> Nat]
  /\ failed \in [Callers -> BOOLEAN]
  /\ opened \in [Callers -> Nat]

\* Probe slots and the claim timestamp belong to one half-open generation:
\* whatever stale trip() or close() lands in between, no slot is counted
\* outside HalfOpen, none beyond half_open_max_probes, and a claim is
\* published exactly while a slot is taken (what check_open relies on when
\* it does not reset half_open_probes).
ProbeAccounting ==
  /\ probes <= MaxProbes
  /\ state # "HalfOpen" => probes = 0
  /\ (claim # NO_PROBE_CLAIM) <=> (probes > 0)

\* The lock-free is_open() mirror agrees with the state whenever no caller
\* is inside trip(), close() or the compare-exchange of check_open().
MirrorAgrees == lock = Nobody => (fast <=> state = "Open")

\* Half-open admissions are rationed by time: a generation admits its
\* half_open_max_probes and then at most one more for each open_duration it
\* has lasted, however many callers race for a slot or abandon theirs.
LeaseBound ==
  state = "HalfOpen" => (admits - MaxProbes) * OpenDuration <= now - genStart

\* The incremental failure count is the number of failures in the window
\* and the window respects its cap, under pushes stamped out of order,
\* evictions and a clear that races a push.
WindowCount ==
  /\ failures = CountFailures(entries)
  /\ Len(entries) <= MaxWindowEntries

\* No generation lasts for ever while callers keep checking: an Open one is
\* left or superseded, and a HalfOpen one is left or admits a probe even
\* when every probe it admitted was abandoned.
NoStranding ==
  \A t \in 0 .. (MaxTime - OpenDuration) :
    /\ (state = "Open" /\ openedAt = t) ~> (state # "Open" \/ openedAt # t)
    /\ (state = "HalfOpen" /\ claim = t + 1)
         ~> (state # "HalfOpen" \/ \E c \in Callers : pc[c] = "admitted")

\* What error_rate() promises in its comment: were it called now, every
\* sample its eviction leaves in the window is at most window_duration old.
ErrorRateSeesLiveSamples ==
  LET kept == Evict(entries, now)
  IN  \A i \in DOMAIN kept : kept[i].at >= now - WindowDuration

\* The breaker leaves Open by its timer only, open_duration after the trip
\* that opened this generation.
CoolDownHonoured ==
  [][state = "Open" /\ state' = "HalfOpen" => now - openedAt >= OpenDuration]_vars
=============================================================================
