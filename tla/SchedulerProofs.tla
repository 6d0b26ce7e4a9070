-------------------------- MODULE SchedulerProofs --------------------------
(* Theorems about Scheduler, for every set of jobs and specifications. *)
EXTENDS Scheduler, TLAPS

(* Whole periods are counted with a natural quotient. *)
LEMMA DivNat ==
  ASSUME NEW a \in Nat, NEW b \in Nat, b > 0
  PROVE  a \div b \in Nat
OBVIOUS

(* next_occurrence() lies strictly after now, at the anchor or a period's multiple. *)
LEMMA NextOccurrenceLater ==
  ASSUME NEW a \in Nat, NEW i \in Nat, i > 0, NEW t \in Nat
  PROVE  /\ next_occurrence(a, i, t) \in Nat
         /\ next_occurrence(a, i, t) > t
<1>1. CASE a > t
  BY <1>1 DEF next_occurrence
<1>2. CASE a <= t
  <2> DEFINE d == t - a
             q == d \div i
  <2>1. d \in Nat
    BY <1>2
  <2>2. q \in Nat
    BY <2>1, DivNat
  <2>3. d < (q + 1) * i
    BY <2>1, <2>2
  <2>4. (q + 1) * i \in Nat
    BY <2>2
  <2>5. next_occurrence(a, i, t) = a + (q + 1) * i
    BY <1>2 DEF next_occurrence
  <2> HIDE DEF q
  <2> QED
    BY <2>3, <2>4, <2>5
<1> QED
  BY <1>1, <1>2

ValidSpecs == {s \in Specs : validate(s)}

(* The cron search answers a later time or gives up. *)
LEMMA CronLater ==
  ASSUME NEW n \in Nat, n > 0, NEW t \in Nat
  PROVE  /\ CronAfter(n, t) \in Nat \cup {None}
         /\ CronAfter(n, t) # None => CronAfter(n, t) > t
<1> DEFINE q == t \div n
<1>1. q \in Nat
  BY DivNat
<1>2. t < (q + 1) * n
  BY <1>1
<1>3. (q + 1) * n \in Nat
  BY <1>1
<1> HIDE DEF q
<1>4. CronAfter(n, t) = IF (q + 1) * n > t + CronHorizon THEN None ELSE (q + 1) * n
  BY DEF CronAfter, q
<1> QED
  BY <1>1, <1>2, <1>3, <1>4

(* A valid specification has a first occurrence or none, and its next one is later. *)
LEMMA OccurrenceTypes ==
  ASSUME NEW s \in ValidSpecs, NEW t \in Nat, NEW d \in Nat
  PROVE  /\ first_run(s, t) \in Nat \cup {None}
         /\ next_run(s, d, t) \in Nat \cup {None}
         /\ next_run(s, d, t) # None => next_run(s, d, t) > t
<1>1. /\ s.kind \in {"at", "after", "every", "cron", "event"}
      /\ s.arg \in Nat
      /\ s.kind \in {"every", "cron"} => s.arg > 0
  BY SchedulerConstants DEF ValidSpecs, validate
<1>2. CASE s.kind = "every"
  BY <1>1, <1>2, NextOccurrenceLater DEF first_run, next_run
<1>3. CASE s.kind = "cron"
  BY <1>1, <1>3, CronLater DEF first_run, next_run
<1>4. CASE s.kind \in {"at", "after", "event"}
  BY <1>1, <1>4 DEF first_run, next_run
<1> QED
  BY <1>1, <1>2, <1>3, <1>4

(* Recovery keeps a loaded row, or moves its next occurrence. *)
LEMMA RecoveredType ==
  ASSUME TypeOK, NEW j \in Jobs, Recoverable(j), NEW t \in Nat
  PROVE  Recovered(j, t) \in Entry \cup {None}
<1>1. loaded[j] \in Entry
  BY DEF TypeOK, TablesTyped, Table, Recoverable
<1>2. CASE recover(loaded[j], t) = "expired"
  <2>1. loaded[j].next \in Nat /\ loaded[j].spec \in ValidSpecs
    BY <1>1, <1>2 DEF recover, Entry, ValidSpecs
  <2>2. next_run(loaded[j].spec, loaded[j].next, t) \in Nat \cup {None}
    BY <2>1, OccurrenceTypes
  <2> QED
    BY <1>1, <1>2, <2>2 DEF Recovered, Entry
<1>3. CASE recover(loaded[j], t) # "expired"
  BY <1>1, <1>3 DEF Recovered
<1> QED
  BY <1>2, <1>3

(* A claim that goes ahead advances an entry to an entry. *)
LEMMA ClaimType ==
  ASSUME TypeOK, NEW j \in Jobs, Due(schedule[j], drv.at)
  PROVE  /\ schedule[j] \in Entry /\ schedule[j].next \in Nat
         /\ [schedule[j] EXCEPT !.next = next_run(schedule[j].spec, schedule[j].next, drv.at)]
              \in Entry
<1>1. schedule[j] \in Entry /\ schedule[j].next \in Nat /\ drv.at \in Nat
  BY DEF TypeOK, TablesTyped, DriverTyped, DriverState, Table, Due, Entry
<1>2. next_run(schedule[j].spec, schedule[j].next, drv.at) \in Nat \cup {None}
  BY <1>1, OccurrenceTypes DEF Entry, ValidSpecs
<1> QED
  BY <1>1, <1>2 DEF Entry

(* dispatch() starts at most one firing, well formed and with a run of its own. *)
LEMMA DispatchType ==
  ASSUME TypeOK, NEW e \in Entry, NEW j \in Jobs, NEW due \in Nat,
         NEW by \in {"time", "event"}, Dispatch(e, j, due, by)
  PROVE  /\ slot' \in [Jobs -> [run : Nat, owner : Principals] \cup {None}]
         /\ live' \subseteq Firing /\ fired' \subseteq Firing
         /\ asked' \subseteq Nat /\ runs' \in Nat
<1> DEFINE f == [run |-> runs + 1, job |-> j, gen |-> e.gen, due |-> due, at |-> drv.at,
                 by |-> by, kind |-> e.spec.kind]
<1>1. f \in Firing /\ runs + 1 \in Nat /\ e.owner \in Principals
  BY SchedulerConstants DEF TypeOK, DriverTyped, DriverState, ProcessTyped, Entry, Firing
<1> HIDE DEF f
<1>2. \/ UNCHANGED <<slot, live, asked, fired, runs>>
      \/ /\ runs' = runs + 1
         /\ slot' = [slot EXCEPT ![j] = [run |-> runs + 1, owner |-> e.owner]]
         /\ live' = live \cup {f} /\ fired' = fired \cup {f}
         /\ asked' \in {asked, asked \cup {runs + 1}}
  BY DEF Dispatch, f
<1>3. slot' \in [Jobs -> [run : Nat, owner : Principals] \cup {None}]
  BY <1>1, <1>2 DEF TypeOK, FiringsTyped
<1>4. live' \subseteq Firing /\ fired' \subseteq Firing
  BY <1>1, <1>2 DEF TypeOK, FiringsTyped
<1>5. asked' \subseteq Nat /\ runs' \in Nat
  BY <1>1, <1>2 DEF TypeOK, FiringsTyped, ProcessTyped
<1> QED
  BY <1>3, <1>4, <1>5

(* The type invariant is inductive: one step per action, and under it one per part
   the action can disturb. *)
LEMMA TypeStep == TypeOK /\ [Next]_vars => TypeOK'
<1> SUFFICES ASSUME TypeOK, [Next]_vars PROVE TypeOK'
  OBVIOUS
<1> USE SchedulerConstants
<1>1. ASSUME NEW p \in Principals, NEW j \in Jobs, NEW s \in Specs, NEW t \in ReadBefore,
             BeginSchedule(p, j, s, t)
      PROVE  TypeOK'
  <2>1. MutexTyped'
    <3> DEFINE e == [gen |-> gens + 1, spec |-> s, next |-> first_run(s, t),
                     owner |-> IF schedule[j] = None THEN p ELSE schedule[j].owner]
    <3>1. s \in ValidSpecs /\ t \in Nat /\ gens + 1 \in Nat
      BY <1>1 DEF TypeOK, BeginSchedule, ReadBefore, ValidSpecs, ProcessTyped
    <3>2. first_run(s, t) \in Nat \cup {None}
      BY <3>1, OccurrenceTypes
    <3>3. (IF schedule[j] = None THEN p ELSE schedule[j].owner) \in Principals
      BY DEF TypeOK, TablesTyped, Table, Entry
    <3>4. e \in Entry
      BY <3>1, <3>2, <3>3 DEF Entry, ValidSpecs
    <3> QED
      BY <1>1, <3>4 DEF TypeOK, MutexTyped, BeginSchedule, Free
  <2> QED
    BY <1>1, <2>1 DEF TypeOK, TablesTyped, DriverTyped, DriverState, FiringsTyped, ProcessTyped, BeginSchedule
<1>2. ASSUME NEW p \in Principals, NEW j \in Jobs, BeginCancel(p, j) PROVE TypeOK'
  <2>1. MutexTyped'
    BY <1>2 DEF TypeOK, MutexTyped, BeginCancel, run_slot, Free, FiringsTyped
  <2> QED
    BY <1>2, <2>1 DEF TypeOK, TablesTyped, DriverTyped, DriverState, FiringsTyped, ProcessTyped, BeginCancel
<1>3. ASSUME CommitSchedule PROVE TypeOK'
  <2>1. TablesTyped'
    BY <1>3 DEF TypeOK, TablesTyped, CommitSchedule, MutexTyped, Free, RowOf, Table
  <2>2. DriverTyped'
    BY <1>3 DEF TypeOK, CommitSchedule, DriverTyped, DriverState, NotifyOne
  <2> QED
    BY <1>3, <2>1, <2>2 DEF TypeOK, MutexTyped, FiringsTyped, ProcessTyped, CommitSchedule
<1>4. ASSUME CommitCancel PROVE TypeOK'
  <2>1. TablesTyped'
    BY <1>4 DEF TypeOK, TablesTyped, CommitCancel, MutexTyped, Free, RowOf, IsPersistent, Table
  <2>2. DriverTyped'
    BY <1>4 DEF TypeOK, CommitCancel, DriverTyped, DriverState, NotifyOne
  <2>3. FiringsTyped'
    <3>1. {e.gen : e \in {schedule[op.job]} \ {None}} \subseteq Nat
      BY <1>4 DEF TypeOK, CommitCancel, TablesTyped, Table, MutexTyped, Free, Entry
    <3>2. {f.gen : f \in {g \in fired : g.run = op.run}} \subseteq Nat
      BY DEF TypeOK, FiringsTyped, Firing
    <3>3. {op.run} \cap {f.run : f \in live} \subseteq Nat
      BY DEF TypeOK, FiringsTyped, Firing
    <3> QED
      BY <1>4, <3>1, <3>2, <3>3 DEF TypeOK, FiringsTyped, CommitCancel
  <2> QED
    BY <1>4, <2>1, <2>2, <2>3 DEF TypeOK, MutexTyped, ProcessTyped, CommitCancel
<1>5. ASSUME StoreRefuses PROVE TypeOK'
  BY <1>5 DEF TypeOK, TablesTyped, MutexTyped, DriverTyped, FiringsTyped, ProcessTyped, StoreRefuses, Free
<1>6. ASSUME Abandon PROVE TypeOK'
  <2>1. MutexTyped'
    BY <1>6 DEF TypeOK, MutexTyped, Abandon, RowOf, Free
  <2> QED
    BY <1>6, <2>1 DEF TypeOK, TablesTyped, DriverTyped, DriverState, FiringsTyped, ProcessTyped, Abandon
<1>7. ASSUME OrphanLands PROVE TypeOK'
  <2>1. TablesTyped'
    BY <1>7 DEF TypeOK, TablesTyped, OrphanLands, MutexTyped, Table
  <2> QED
    BY <1>7, <2>1 DEF TypeOK, MutexTyped, DriverTyped, DriverState, FiringsTyped, ProcessTyped, OrphanLands
<1>8. ASSUME Boot PROVE TypeOK'
  BY <1>8 DEF TypeOK, TablesTyped, MutexTyped, DriverTyped, FiringsTyped, ProcessTyped, Boot
<1>9. ASSUME Load PROVE TypeOK'
  <2>1. TablesTyped'
    BY <1>9 DEF TypeOK, TablesTyped, Load, NoJobs, Table
  <2> QED
    BY <1>9, <2>1 DEF TypeOK, MutexTyped, DriverTyped, DriverState, FiringsTyped, ProcessTyped, Load
<1>10. ASSUME NEW t \in ReadBefore, RecoverPersisted(t) PROVE TypeOK'
  <2>1. TablesTyped'
    BY <1>10, RecoveredType DEF TypeOK, TablesTyped, RecoverPersisted, ReadBefore, Expired, NoJobs, Table, ProcessTyped
  <2>2. DriverTyped'
    BY <1>10 DEF TypeOK, RecoverPersisted, DriverTyped, DriverState, Off
  <2>3. ProcessTyped'
    BY <1>10 DEF TypeOK, RecoverPersisted, ProcessTyped, ReadBefore
  <2> QED
    BY <1>10, <2>1, <2>2, <2>3 DEF TypeOK, MutexTyped, FiringsTyped, RecoverPersisted
<1>11. ASSUME NEW t \in ReadBefore, RecoveryCutShort(t) PROVE TypeOK'
  <2>1. TablesTyped'
    BY <1>11, RecoveredType DEF TypeOK, TablesTyped, RecoveryCutShort, Forget, ReadBefore, Expired, NoJobs, Table, ProcessTyped
  <2>2. MutexTyped'
    BY <1>11 DEF TypeOK, RecoveryCutShort, MutexTyped, Forget
  <2>3. DriverTyped'
    BY <1>11 DEF TypeOK, RecoveryCutShort, DriverTyped, DriverState, Forget, Off
  <2>4. FiringsTyped'
    BY <1>11 DEF TypeOK, RecoveryCutShort, FiringsTyped, Forget, NoJobs
  <2>5. ProcessTyped'
    BY <1>11 DEF TypeOK, RecoveryCutShort, ProcessTyped, Forget
  <2> QED
    BY <1>11, <2>1, <2>2, <2>3, <2>4, <2>5 DEF TypeOK, RecoveryCutShort, Forget
<1>12. ASSUME Crash PROVE TypeOK'
  <2>1. TablesTyped'
    BY <1>12 DEF TypeOK, TablesTyped, Crash, Forget, NoJobs, Table
  <2>2. MutexTyped'
    BY <1>12 DEF TypeOK, Crash, MutexTyped, Forget
  <2>3. DriverTyped'
    BY <1>12 DEF TypeOK, Crash, DriverTyped, DriverState, Forget, Off
  <2>4. FiringsTyped'
    BY <1>12 DEF TypeOK, Crash, FiringsTyped, Forget, NoJobs
  <2>5. ProcessTyped'
    BY <1>12 DEF TypeOK, Crash, ProcessTyped, Forget
  <2> QED
    BY <1>12, <2>1, <2>2, <2>3, <2>4, <2>5 DEF TypeOK, Crash, Forget
<1>13. ASSUME Stop PROVE TypeOK'
  <2>1. FiringsTyped'
    BY <1>13 DEF TypeOK, FiringsTyped, Stop, Firing
  <2> QED
    BY <1>13, <2>1 DEF TypeOK, TablesTyped, MutexTyped, DriverTyped, DriverState, ProcessTyped, Stop
<1>14. ASSUME Exit PROVE TypeOK'
  <2>1. TablesTyped'
    BY <1>14 DEF TypeOK, TablesTyped, Exit, Forget, NoJobs, Table
  <2>2. MutexTyped'
    BY <1>14 DEF TypeOK, Exit, MutexTyped, Forget
  <2>3. DriverTyped'
    BY <1>14 DEF TypeOK, Exit, DriverTyped, DriverState, Forget, Off
  <2>4. FiringsTyped'
    BY <1>14 DEF TypeOK, Exit, FiringsTyped, Forget, NoJobs
  <2>5. ProcessTyped'
    BY <1>14 DEF TypeOK, Exit, ProcessTyped, Forget
  <2> QED
    BY <1>14, <2>1, <2>2, <2>3, <2>4, <2>5 DEF TypeOK, Exit, Forget
<1>15. ASSUME NEW d \in {schedule[j].next : j \in Timed} \cup {None},
             Horizon(d)
      PROVE  TypeOK'
  <2>1. DriverTyped'
    <3>1. d \in Nat \cup {None}
      BY <1>15 DEF TypeOK, TablesTyped, Table, Entry, Timed
    <3>2. WantsEvents \in BOOLEAN
      BY DEF WantsEvents
    <3>3. drv' \in DriverState /\ drv'.pc = "select"
      BY <1>15, <3>1, <3>2 DEF Horizon, Off, DriverState
    <3> QED
      BY <1>15, <3>3 DEF TypeOK, DriverTyped, Horizon
  <2> QED
    BY <1>15, <2>1 DEF TypeOK, TablesTyped, MutexTyped, FiringsTyped, ProcessTyped, Horizon
<1>16. ASSUME WokeCancelled PROVE TypeOK'
  <2>1. DriverTyped'
    BY <1>16 DEF TypeOK, WokeCancelled, DriverTyped, DriverState, Off
  <2> QED
    BY <1>16, <2>1 DEF TypeOK, TablesTyped, MutexTyped, FiringsTyped, ProcessTyped, WokeCancelled
<1>17. ASSUME WokeRescheduled PROVE TypeOK'
  <2>1. DriverTyped'
    BY <1>17 DEF TypeOK, WokeRescheduled, DriverTyped, DriverState
  <2> QED
    BY <1>17, <2>1 DEF TypeOK, TablesTyped, MutexTyped, FiringsTyped, ProcessTyped, WokeRescheduled
<1>18. ASSUME NEW t \in ReadBefore, WokeDue(t) PROVE TypeOK'
  <2>1. DriverTyped'
    <3> DEFINE ids == {j \in Jobs : Due(schedule[j], t)}
    <3>1. ids \in SUBSET Jobs /\ t \in Nat
      BY <1>18 DEF ReadBefore, TypeOK, ProcessTyped
    <3>2. /\ drv' = [drv EXCEPT !.pc = "due", !.at = t, !.deadline = None, !.ids = ids]
          /\ UNCHANGED wake
          /\ evq' \in {evq, evq - 1} /\ (evq' = evq \/ evq > 0)
      BY <1>18 DEF WokeDue
    <3> HIDE DEF ids
    <3>3. drv \in DriverState /\ evq \in Nat /\ wake \in BOOLEAN
      BY DEF TypeOK, DriverTyped, DriverState
    <3>4. drv' \in DriverState /\ drv'.pc # "marked"
      BY <3>1, <3>2, <3>3 DEF DriverState
    <3> QED
      BY <3>2, <3>3, <3>4 DEF DriverTyped, DriverState
  <2> QED
    BY <1>18, <2>1 DEF TypeOK, TablesTyped, MutexTyped, FiringsTyped, ProcessTyped, WokeDue
<1>19. ASSUME NEW t \in ReadBefore, WokeEvent(t) PROVE TypeOK'
  <2>1. DriverTyped'
    <3> DEFINE ids == {j \in Jobs : IsEventDriven(schedule[j])}
    <3>1. ids \in SUBSET Jobs /\ t \in Nat
      BY <1>19 DEF ReadBefore, TypeOK, ProcessTyped
    <3>2. /\ drv' = [drv EXCEPT !.pc = "event", !.at = t, !.deadline = None, !.ids = ids]
          /\ UNCHANGED wake
          /\ evq' \in {evq, evq - 1} /\ (evq' = evq \/ evq > 0)
      BY <1>19 DEF WokeEvent
    <3> HIDE DEF ids
    <3>3. drv \in DriverState /\ evq \in Nat /\ wake \in BOOLEAN
      BY DEF TypeOK, DriverTyped, DriverState
    <3>4. drv' \in DriverState /\ drv'.pc # "marked"
      BY <3>1, <3>2, <3>3 DEF DriverState
    <3> QED
      BY <3>2, <3>3, <3>4 DEF DriverTyped, DriverState
  <2> QED
    BY <1>19, <2>1 DEF TypeOK, TablesTyped, MutexTyped, FiringsTyped, ProcessTyped, WokeEvent
<1>20. ASSUME NEW j \in Jobs, Claim(j) PROVE TypeOK'
  <2>1. TablesTyped'
    BY <1>20, ClaimType DEF TypeOK, TablesTyped, Claim, RecordClaim, Table
  <2>2. MutexTyped'
    BY <1>20, ClaimType, ZenonT(60) DEF TypeOK, MutexTyped, Claim, Free
  <2>3. DriverTyped'
    <3>1. drv \in DriverState /\ drv.pc = "due" /\ drv.ids \ {j} \in SUBSET Jobs
      BY <1>20 DEF TypeOK, Claim, DriverTyped, DriverState
    <3>2. \/ drv' = [drv EXCEPT !.ids = drv.ids \ {j}]
          \/ drv' = [drv EXCEPT !.ids = drv.ids \ {j}, !.failed = TRUE]
      BY <1>20, <3>1 DEF Claim, DriverState
    <3>3. drv' \in DriverState /\ drv'.pc = "due"
      BY <3>1, <3>2 DEF DriverState
    <3> QED
      BY <1>20, <3>3 DEF TypeOK, Claim, DriverTyped, DriverState
  <2>4. ProcessTyped'
    BY <1>20 DEF TypeOK, Claim, ProcessTyped
  <2> QED
    BY <1>20, <2>1, <2>2, <2>3, <2>4 DEF TypeOK, FiringsTyped, Claim
<1>21. ASSUME FinishClaim PROVE TypeOK'
  <2>1. TablesTyped'
    BY <1>21 DEF TypeOK, TablesTyped, FinishClaim, MutexTyped, Free, Table
  <2>2. FiringsTyped'
    BY <1>21, DispatchType DEF TypeOK, FiringsTyped, FinishClaim, MutexTyped, Free
  <2>3. ProcessTyped'
    BY <1>21, DispatchType DEF TypeOK, ProcessTyped, FinishClaim, MutexTyped, Free
  <2> QED
    BY <1>21, <2>1, <2>2, <2>3 DEF TypeOK, MutexTyped, DriverTyped, DriverState, FinishClaim
<1>22. ASSUME NEW j \in Jobs, MarkEvent(j) PROVE TypeOK'
  <2>1. DriverTyped'
    <3>1. schedule[j] \in Entry \cup {None} /\ drv.ids \ {j} \in SUBSET Jobs
      BY DEF TypeOK, TablesTyped, Table, DriverTyped, DriverState
    <3>2. CASE schedule[j] = None
      BY <1>22, <3>1, <3>2 DEF TypeOK, MarkEvent, DriverTyped, DriverState
    <3>3. CASE schedule[j] # None
      <4>1. [job |-> j, entry |-> schedule[j]] \in [job : Jobs, entry : Entry]
        BY <3>1, <3>3
      <4>2. drv' = [drv EXCEPT !.ids = drv.ids \ {j}, !.pc = "marked",
                               !.copy = [job |-> j, entry |-> schedule[j]]]
        BY <1>22, <3>3 DEF MarkEvent, TypeOK, DriverTyped, DriverState
      <4>3. drv' \in DriverState
        BY <3>1, <4>1, <4>2 DEF TypeOK, DriverTyped, DriverState
      <4>4. drv'.copy = [job |-> j, entry |-> schedule[j]]
        BY <4>2 DEF TypeOK, DriverTyped, DriverState
      <4> QED
        BY <1>22, <4>1, <4>3, <4>4 DEF TypeOK, MarkEvent, DriverTyped, DriverState
    <3> QED
      BY <3>2, <3>3
  <2> QED
    BY <1>22, <2>1 DEF TypeOK, TablesTyped, MutexTyped, FiringsTyped, ProcessTyped, MarkEvent
<1>23. ASSUME DispatchEvent PROVE TypeOK'
  <2>1. FiringsTyped'
    BY <1>23, DispatchType DEF TypeOK, FiringsTyped, DispatchEvent, DriverTyped, DriverState
  <2>2. ProcessTyped'
    BY <1>23, DispatchType DEF TypeOK, ProcessTyped, DispatchEvent, DriverTyped, DriverState
  <2> QED
    BY <1>23, <2>1, <2>2 DEF TypeOK, TablesTyped, MutexTyped, DriverTyped, DriverState, DispatchEvent
<1>24. ASSUME PassDone PROVE TypeOK'
  <2>1. DriverTyped'
    BY <1>24 DEF TypeOK, PassDone, DriverTyped, DriverState
  <2> QED
    BY <1>24, <2>1 DEF TypeOK, TablesTyped, MutexTyped, FiringsTyped, ProcessTyped, PassDone
<1>25. ASSUME BackoffOver PROVE TypeOK'
  <2>1. DriverTyped'
    BY <1>25 DEF TypeOK, BackoffOver, DriverTyped, DriverState
  <2> QED
    BY <1>25, <2>1 DEF TypeOK, TablesTyped, MutexTyped, FiringsTyped, ProcessTyped, BackoffOver
<1>26. ASSUME NEW f \in live, RunEnds(f) PROVE TypeOK'
  <2>1. FiringsTyped'
    BY <1>26 DEF TypeOK, FiringsTyped, RunEnds, Firing
  <2> QED
    BY <1>26, <2>1 DEF TypeOK, TablesTyped, MutexTyped, DriverTyped, DriverState, ProcessTyped, RunEnds
<1>27. ASSUME Tick PROVE TypeOK'
  BY <1>27 DEF TypeOK, TablesTyped, MutexTyped, DriverTyped, FiringsTyped, ProcessTyped, Tick
<1>28. ASSUME Publish PROVE TypeOK'
  BY <1>28 DEF TypeOK, TablesTyped, MutexTyped, DriverTyped, FiringsTyped, ProcessTyped, Publish
<1>29. CASE UNCHANGED vars
  BY <1>29 DEF TypeOK, TablesTyped, MutexTyped, DriverTyped, FiringsTyped, ProcessTyped, vars
<1> QED
  BY <1>1, <1>2, <1>3, <1>4, <1>5, <1>6, <1>7, <1>8, <1>9, <1>10, <1>11, <1>12, <1>13, <1>14, <1>15,
     <1>16, <1>17, <1>18, <1>19, <1>20, <1>21, <1>22, <1>23, <1>24, <1>25, <1>26, <1>27, <1>28, <1>29
     DEF Next, Callers, Commits, Process, Driver, Environment

(* The initial state is well typed. *)
LEMMA InitTyped == Init => TypeOK
<1> SUFFICES ASSUME Init PROVE TypeOK
  OBVIOUS
<1>1. TablesTyped /\ MutexTyped /\ FiringsTyped
  BY DEF Init, TablesTyped, MutexTyped, FiringsTyped, NoJobs, Table
<1>2. DriverTyped
  BY DEF Init, DriverTyped, DriverState, Off
<1>3. ProcessTyped
  BY DEF Init, ProcessTyped
<1> QED
  BY <1>1, <1>2, <1>3 DEF TypeOK

(* Every variable of the scheduler keeps its type, and the mutex holder always carries
   what its kind of write needs. *)
THEOREM TypeCorrect == Spec => []TypeOK
  BY InitTyped, TypeStep, PTL DEF Spec

---------------------------------------------------------------------------
(* Exclusion needs that a run id is never used twice. *)

RunsDistinct ==
  /\ live \subseteq fired
  /\ \A f \in fired : f.run <= runs
  /\ \A f, g \in fired : f.run = g.run => f = g

ExclusionInv == TypeOK /\ RunsDistinct /\ Exclusion

(* dispatch() keeps run ids distinct and never starts beside a live firing. *)
LEMMA DispatchExclusive ==
  ASSUME ExclusionInv, NEW e \in Entry, NEW j \in Jobs, NEW due \in Nat,
         NEW by \in {"time", "event"}, Dispatch(e, j, due, by)
  PROVE  RunsDistinct' /\ Exclusion'
<1> DEFINE f == [run |-> runs + 1, job |-> j, gen |-> e.gen, due |-> due, at |-> drv.at,
                 by |-> by, kind |-> e.spec.kind]
<1>1. f.run = runs + 1 /\ f.job = j /\ runs \in Nat
  BY DEF ExclusionInv, TypeOK, ProcessTyped
<1>2. CASE UNCHANGED <<slot, live, asked, fired, runs>>
  BY <1>2 DEF ExclusionInv, RunsDistinct, Exclusion
<1>3. CASE /\ slot[j] = None
           /\ runs' = runs + 1
           /\ slot' = [slot EXCEPT ![j] = [run |-> runs + 1, owner |-> e.owner]]
           /\ live' = live \cup {f} /\ fired' = fired \cup {f}
  <2> HIDE DEF f
  <2>1. \A g \in fired : g.run \in Nat
    BY DEF ExclusionInv, TypeOK, FiringsTyped, Firing
  <2>2. RunsDistinct'
    BY <1>1, <1>3, <2>1 DEF ExclusionInv, RunsDistinct
  <2>3. ASSUME NEW g \in live' PROVE slot'[g.job] # None /\ slot'[g.job].run = g.run
    <3>1. CASE g = f
      <4>1. slot'[j] = [run |-> runs + 1, owner |-> e.owner]
        BY <1>3 DEF ExclusionInv, TypeOK, FiringsTyped
      <4>2. slot'[j] \in [run : Nat, owner : Principals]
        BY <1>1, <4>1 DEF Entry
      <4> QED
        BY <1>1, <3>1, <4>1, <4>2, SchedulerConstants
    <3>2. CASE g \in live
      <4>1. g.job \in Jobs /\ g.job # j
        BY <1>3, <3>2 DEF ExclusionInv, Exclusion, TypeOK, FiringsTyped, Firing
      <4>2. slot'[g.job] = slot[g.job]
        BY <1>3, <4>1 DEF ExclusionInv, TypeOK, FiringsTyped
      <4> QED
        BY <3>2, <4>2 DEF ExclusionInv, Exclusion
    <3> QED
      BY <1>3, <3>1, <3>2
  <2> QED
    BY <2>2, <2>3 DEF Exclusion
<1> QED
  BY <1>2, <1>3 DEF Dispatch, is_running

(* Ending one firing frees its own slot and leaves the other firings theirs. *)
LEMMA RunEndsExclusive ==
  ASSUME ExclusionInv, NEW f \in live, RunEnds(f)
  PROVE  RunsDistinct' /\ Exclusion'
<1>1. RunsDistinct'
  BY DEF ExclusionInv, RunsDistinct, RunEnds
<1>2. ASSUME NEW g \in live' PROVE slot'[g.job] # None /\ slot'[g.job].run = g.run
  <2>1. g \in live /\ g # f /\ slot[g.job] # None /\ slot[g.job].run = g.run
    BY <1>2 DEF RunEnds, ExclusionInv, Exclusion
  <2>2. g.run # f.run
    BY <2>1 DEF ExclusionInv, RunsDistinct
  <2>3. g.job # f.job
    BY <2>1, <2>2 DEF ExclusionInv, Exclusion
  <2>4. slot'[g.job] = slot[g.job]
    BY <2>1, <2>3 DEF RunEnds, ExclusionInv, TypeOK, FiringsTyped, Firing
  <2> QED
    BY <2>1, <2>4
<1> QED
  BY <1>1, <1>2 DEF Exclusion

(* One step per action that starts, ends or forgets firings. *)
LEMMA ExclusionStep == ExclusionInv /\ [Next]_vars => ExclusionInv'
<1> SUFFICES ASSUME ExclusionInv, [Next]_vars PROVE ExclusionInv'
  OBVIOUS
<1>0. TypeOK'
  BY TypeStep DEF ExclusionInv
<1>1. CASE FinishClaim
  <2>1. op.entry \in Entry /\ op.job \in Jobs /\ op.due \in Nat
    BY <1>1 DEF FinishClaim, ExclusionInv, TypeOK, MutexTyped, Free
  <2> QED
    BY <1>0, <1>1, <2>1, DispatchExclusive DEF FinishClaim, ExclusionInv
<1>2. CASE DispatchEvent
  <2>1. drv.copy.entry \in Entry /\ drv.copy.job \in Jobs /\ drv.at \in Nat
    BY <1>2 DEF DispatchEvent, ExclusionInv, TypeOK, DriverTyped, DriverState
  <2> QED
    BY <1>0, <1>2, <2>1, DispatchExclusive DEF DispatchEvent, ExclusionInv
<1>3. CASE \E f \in live : RunEnds(f)
  BY <1>0, <1>3, RunEndsExclusive DEF ExclusionInv
<1>4. CASE live' = {} /\ UNCHANGED <<fired, runs>>
  BY <1>0, <1>4 DEF ExclusionInv, RunsDistinct, Exclusion
<1>5. CASE UNCHANGED <<slot, live, fired, runs>>
  BY <1>0, <1>5 DEF ExclusionInv, RunsDistinct, Exclusion
<1>6. CASE Callers \/ Commits
  BY <1>5, <1>6 DEF Callers, Commits, BeginSchedule, BeginCancel, CommitSchedule,
                    CommitCancel, StoreRefuses, Abandon
<1>7. CASE Process
  BY <1>4, <1>5, <1>7 DEF Process, Boot, Load, RecoverPersisted, RecoveryCutShort, Crash,
                          Stop, Exit, Forget
<1>8. CASE Driver
  BY <1>1, <1>2, <1>5, <1>8
     DEF Driver, Horizon, WokeCancelled, WokeRescheduled, WokeDue, WokeEvent, Claim,
         MarkEvent, PassDone, BackoffOver
<1>9. CASE Environment
  BY <1>3, <1>5, <1>9 DEF Environment, OrphanLands, Tick, Publish
<1>10. CASE UNCHANGED vars
  BY <1>5, <1>10 DEF vars
<1> QED
  BY <1>6, <1>7, <1>8, <1>9, <1>10 DEF Next

(* For every set of jobs, a job never runs beside itself: claim() and
   fire_for_event() start a firing only in a free slot, and RunGuard frees only the
   slot of the firing that ended. *)
THEOREM JobsExclusive == Spec => []Exclusion
<1>1. Init => ExclusionInv
  BY InitTyped DEF Init, ExclusionInv, RunsDistinct, Exclusion
<1>2. ExclusionInv => Exclusion
  BY DEF ExclusionInv
<1> QED
  BY <1>1, <1>2, ExclusionStep, PTL DEF Spec

---------------------------------------------------------------------------
(* At most once.  The history of what was fired is tied to what is still scheduled by
   the generation of a definition: where it lives, whether it was ever committed, and
   that its next occurrence lies after every one of its firings. *)

Running == phase \in {"running", "stopping"}

\* A definition's generation fixes its job and its specification.
At(h, j, e) == e = None \/ (e.gen \in 1..gens /\ h[e.gen] = <<j, e.spec>>)
HomedBy(h) ==
  /\ \A j \in Jobs : At(h, j, schedule[j]) /\ At(h, j, disk[j]) /\ At(h, j, loaded[j])
  /\ op.kind \in {"schedule", "claim"} => At(h, op.job, op.entry)
  /\ \A w \in orphans : At(h, w.job, w.row)
  /\ drv.pc = "marked" => At(h, drv.copy.job, drv.copy.entry)
  /\ \A f \in fired : f.gen \in 1..gens /\ h[f.gen][1] = f.job
Homed == \E h \in [Nat -> (Jobs \X Specs) \cup {None}] : HomedBy(h)

\* Only persistent definitions are ever written.
IsRow(e) == e = None \/ e.spec.persistent
RowsPersistent ==
  /\ \A j \in Jobs : IsRow(disk[j]) /\ IsRow(loaded[j])
  /\ \A w \in orphans : IsRow(w.row)

\* A definition whose write is under way, or was abandoned, has not been seen yet.
Used(g) ==
  \/ \E j \in Jobs : \/ schedule[j] # None /\ schedule[j].gen = g
                     \/ disk[j] # None /\ disk[j].gen = g
                     \/ loaded[j] # None /\ loaded[j].gen = g
  \/ drv.pc = "marked" /\ drv.copy.entry.gen = g
  \/ \E f \in fired : f.gen = g
Fresh ==
  /\ op.kind = "schedule" => ~Used(op.entry.gen)
  /\ \A w \in orphans : w.row # None =>
       /\ ~Used(w.row.gen)
       /\ op.kind = "schedule" => op.entry.gen # w.row.gen
       /\ \A v \in orphans : v.row # None /\ v.row.gen = w.row.gen => v = w

\* The driver works, and rows wait for recovery, in their phases only.
ProcessInv ==
  /\ ~Running => drv.pc = "off" /\ live = {}
  /\ phase # "loading" => loaded = NoJobs
  /\ op.kind = "claim" => drv.pc = "due"

\* Between the two halves of claim() memory is still to follow the store.
ClaimHeld ==
  op.kind = "claim" =>
    /\ schedule[op.job] # None
    /\ schedule[op.job].gen = op.entry.gen /\ schedule[op.job].spec = op.entry.spec
    /\ schedule[op.job].next = op.due /\ op.due <= drv.at
    /\ op.entry.next # None => op.entry.next > drv.at
    /\ disk[op.job] # None /\ disk[op.job].gen = op.entry.gen
         => disk[op.job] = op.entry /\ op.entry.next # None

\* What is scheduled lies after what was fired.
Ahead(e) ==
  e # None /\ e.next # None =>
    \A f \in fired : f.by = "time" /\ f.gen = e.gen => e.next > f.due /\ e.next > f.at
AllAhead == \A j \in Jobs : Ahead(schedule[j]) /\ Ahead(disk[j]) /\ Ahead(loaded[j])

OccurrenceInv ==
  /\ TypeOK /\ ProcessInv /\ Homed /\ RowsPersistent /\ Fresh /\ ClaimHeld /\ AllAhead
  /\ AtMostOnce /\ NoBacklog

(* Steps of the driver, the clock and the process that touch no table. *)
Idle ==
  /\ UNCHANGED <<schedule, disk, loaded, orphans, fired, gens>>
  /\ op' = op \/ op'.kind \in {"free", "cancel"}
  /\ drv'.pc # "marked" \/ drv' = drv
  /\ op.kind = "claim" => drv'.at = drv.at

(* They keep the invariant. *)
LEMMA IdleKeeps ==
  ASSUME OccurrenceInv, TypeOK', ProcessInv', Idle PROVE OccurrenceInv'
<1>1. Homed'
  <2>1. PICK h \in [Nat -> (Jobs \X Specs) \cup {None}] : HomedBy(h)
    BY DEF OccurrenceInv, Homed
  <2>2. HomedBy(h)'
    BY <2>1 DEF Idle, HomedBy, At
  <2> QED
    BY <2>2 DEF Homed
<1>2. RowsPersistent' /\ AllAhead' /\ AtMostOnce' /\ NoBacklog'
  BY DEF OccurrenceInv, Idle, RowsPersistent, IsRow, AllAhead, Ahead, AtMostOnce, NoBacklog
<1>3. Fresh'
  BY DEF OccurrenceInv, Idle, Fresh, Used
<1>4. ClaimHeld'
  BY DEF OccurrenceInv, Idle, ClaimHeld
<1> QED
  BY <1>1, <1>2, <1>3, <1>4 DEF OccurrenceInv

(* The driver is off, and nothing runs, outside its phases. *)
LEMMA ProcessStep == TypeOK /\ ProcessInv /\ [Next]_vars => ProcessInv'
<1> SUFFICES ASSUME TypeOK, ProcessInv, [Next]_vars PROVE ProcessInv'
  OBVIOUS
<1> USE DEF ProcessInv, Running
<1>1. CASE Callers
  BY <1>1, ZenonT(60) DEF Callers, BeginSchedule, BeginCancel, Free
<1>2. CASE Commits
  BY <1>2 DEF Commits, CommitSchedule, CommitCancel, StoreRefuses, Abandon, Free
<1>3. CASE Process
  BY <1>3 DEF Process, Boot, Load, RecoverPersisted, RecoveryCutShort, Crash, Stop, Exit,
              Forget, Free, Off
<1>4. CASE Driver
  <2>1. drv \in DriverState
    BY DEF TypeOK, DriverTyped
  <2>2. ASSUME NEW j \in Jobs, Claim(j) PROVE ProcessInv'
    BY <2>1, <2>2 DEF Claim, DriverState, Free
  <2>3. ASSUME NEW j \in Jobs, MarkEvent(j) PROVE ProcessInv'
    BY <2>1, <2>3 DEF MarkEvent, DriverState, Free
  <2>4. CASE DispatchEvent \/ FinishClaim
    BY <2>1, <2>4 DEF DispatchEvent, FinishClaim, Dispatch, DriverState, Free
  <2>5. CASE \/ \E d \in {schedule[j].next : j \in Timed} \cup {None} : Horizon(d)
             \/ WokeCancelled \/ WokeRescheduled
             \/ \E t \in ReadBefore : WokeDue(t) \/ WokeEvent(t)
             \/ PassDone \/ BackoffOver
    BY <2>1, <2>5 DEF Horizon, WokeCancelled, WokeRescheduled, WokeDue, WokeEvent,
                      PassDone, BackoffOver, DriverState, Free, Off
  <2> QED
    BY <1>4, <2>2, <2>3, <2>4, <2>5 DEF Driver
<1>5. CASE Environment
  BY <1>5 DEF Environment, OrphanLands, RunEnds, Tick, Publish
<1>6. CASE UNCHANGED vars
  BY <1>6 DEF vars
<1> QED
  BY <1>1, <1>2, <1>3, <1>4, <1>5, <1>6 DEF Next

(* A table's entry, in the shape the steps below need it. *)
LEMMA EntryFacts ==
  ASSUME NEW e \in Entry
  PROVE  e # None /\ e.gen \in Nat /\ e.next \in Nat \cup {None} /\ e.spec \in ValidSpecs
  BY SchedulerConstants DEF Entry, ValidSpecs

(* What the type invariant says of the tables, the mutex holder and the driver. *)
LEMMA TableFacts ==
  ASSUME TypeOK
  PROVE  /\ schedule \in [Jobs -> Entry \cup {None}]
         /\ disk \in [Jobs -> Entry \cup {None}] /\ loaded \in [Jobs -> Entry \cup {None}]
         /\ op.kind \in {"free", "schedule", "cancel", "claim"}
         /\ op.kind = "schedule" => op.job \in Jobs /\ op.entry \in Entry
         /\ op.kind = "cancel" => op.job \in Jobs /\ op.entry = None
         /\ op.kind = "claim" => op.job \in Jobs /\ op.entry \in Entry /\ op.due \in Nat
         /\ drv.pc = "marked" => drv.copy \in [job : Jobs, entry : Entry]
         /\ drv.at \in Nat /\ gens \in Nat
         /\ fired \subseteq Firing
         /\ orphans \subseteq [job : Jobs, row : Entry \cup {None}]
  BY DEF TypeOK, TablesTyped, Table, MutexTyped, Free, DriverTyped, DriverState,
         FiringsTyped, ProcessTyped

(* schedule(): a new generation gets its home, and nobody has seen it. *)
LEMMA BeginScheduleKeeps ==
  ASSUME OccurrenceInv, TypeOK', ProcessInv', NEW p \in Principals, NEW j \in Jobs,
         NEW s \in Specs, NEW t \in ReadBefore, BeginSchedule(p, j, s, t)
  PROVE  OccurrenceInv'
<1> USE DEF BeginSchedule
<1>1. /\ op'.kind = "schedule" /\ op'.job = j /\ op'.entry.gen = gens + 1
      /\ op'.entry.spec = s /\ op'.entry # None /\ gens \in Nat /\ gens + 1 \in Nat
  BY TableFacts, EntryFacts DEF Free, OccurrenceInv, TypeOK, MutexTyped
<1>2. Homed'
  <2>1. PICK h \in [Nat -> (Jobs \X Specs) \cup {None}] : HomedBy(h)
    BY DEF OccurrenceInv, Homed
  <2>2. PICK k \in [Nat -> (Jobs \X Specs) \cup {None}] : k = [h EXCEPT ![gens + 1] = <<j, s>>]
    BY <1>1
  <2>3. k[gens + 1] = <<j, s>> /\ \A n \in 1..gens : n \in 1..gens' /\ k[n] = h[n]
    BY <1>1, <2>2
  <2>4. ASSUME NEW i \in Jobs, NEW e, At(h, i, e)
        PROVE  e = None \/ (e.gen \in 1..gens' /\ k[e.gen] = <<i, e.spec>>)
    BY <2>3, <2>4 DEF At
  <2>5. /\ \A i \in Jobs : At(k, i, schedule[i])' /\ At(k, i, disk[i])' /\ At(k, i, loaded[i])'
        /\ \A w \in orphans' : At(k, w.job, w.row)'
    BY <2>1, <2>4, TableFacts DEF HomedBy, At, OccurrenceInv
  <2>6. /\ (op.kind \in {"schedule", "claim"} => At(k, op.job, op.entry))'
        /\ (drv.pc = "marked" => At(k, drv.copy.job, drv.copy.entry))'
    <3>1. drv.pc = "marked" => At(h, drv.copy.job, drv.copy.entry) /\ drv.copy.job \in Jobs
      BY <2>1, TableFacts DEF HomedBy, OccurrenceInv
    <3> QED
      BY <1>1, <2>3, <2>4, <3>1 DEF At
  <2>7. \A f \in fired' : f.gen \in 1..gens' /\ k[f.gen][1] = f.job
    BY <2>1, <2>3 DEF HomedBy
  <2> QED
    <3>1. HomedBy(k)'
      BY <2>5, <2>6, <2>7 DEF HomedBy
    <3> QED
      BY <3>1 DEF Homed
<1>3. RowsPersistent' /\ AllAhead' /\ AtMostOnce' /\ NoBacklog'
  BY DEF OccurrenceInv, RowsPersistent, IsRow, AllAhead, Ahead, AtMostOnce, NoBacklog
<1>4. Fresh'
  <2>1. PICK h \in [Nat -> (Jobs \X Specs) \cup {None}] : HomedBy(h)
    BY DEF OccurrenceInv, Homed
  <2>2. gens + 1 \notin 1..gens
    BY <1>1
  <2>3. ~Used(gens + 1)
    BY <2>1, <2>2, TableFacts, EntryFacts DEF OccurrenceInv, HomedBy, At, Used
  <2>4. \A w \in orphans : w.row # None => w.row.gen # gens + 1
    BY <2>1, <2>2 DEF HomedBy, At
  <2>5. op.kind = "free"
    BY DEF Free
  <2>6. \A g : Used(g)' <=> Used(g)
    BY DEF Used
  <2> QED
    BY <1>1, <2>3, <2>4, <2>5, <2>6 DEF Fresh, OccurrenceInv
<1>5. ClaimHeld'
  BY <1>1 DEF ClaimHeld
<1> QED
  BY <1>2, <1>3, <1>4, <1>5 DEF OccurrenceInv

(* schedule() commits: the new definition enters the tables unfired. *)
LEMMA CommitScheduleKeeps ==
  ASSUME OccurrenceInv, TypeOK', ProcessInv', CommitSchedule
  PROVE  OccurrenceInv'
<1> USE DEF CommitSchedule
<1> DEFINE j == op.job
           e == op.entry
<1>1. j \in Jobs /\ e \in Entry /\ e # None /\ op'.kind = "free"
  BY TableFacts, EntryFacts DEF OccurrenceInv, Free
<1>2. /\ schedule'[j] = e /\ disk'[j] \in {disk[j], None, e} /\ (disk'[j] = e => IsRow(e) \/ disk[j] = e)
      /\ \A i \in Jobs \ {j} : schedule'[i] = schedule[i] /\ disk'[i] = disk[i]
  BY <1>1, TableFacts DEF RowOf, OccurrenceInv, IsRow, IsPersistent
<1> HIDE DEF CommitSchedule
<1>3. UNCHANGED <<loaded, orphans, drv, fired, gens>>
  BY DEF CommitSchedule
<1>4. Homed'
  <2>1. PICK h \in [Nat -> (Jobs \X Specs) \cup {None}] : HomedBy(h)
    BY DEF OccurrenceInv, Homed
  <2>2. At(h, j, e)
    BY <2>1 DEF HomedBy, CommitSchedule
  <2>3. HomedBy(h)'
    <3>1. \A i \in Jobs : At(h, i, schedule[i])' /\ At(h, i, disk[i])' /\ At(h, i, loaded[i])'
      BY <1>1, <1>2, <1>3, <2>1, <2>2 DEF HomedBy, At
    <3>2. \A w \in orphans' : At(h, w.job, w.row)'
      BY <1>3, <2>1 DEF HomedBy, At
    <3>3. (drv.pc = "marked" => At(h, drv.copy.job, drv.copy.entry))'
      BY <1>3, <2>1 DEF HomedBy, At
    <3>4. \A f \in fired' : f.gen \in 1..gens' /\ h[f.gen][1] = f.job
      BY <1>3, <2>1 DEF HomedBy
    <3> QED
      BY <1>1, <3>1, <3>2, <3>3, <3>4 DEF HomedBy
  <2> QED
    BY <2>3 DEF Homed
<1>5. RowsPersistent'
  BY <1>2, <1>3 DEF OccurrenceInv, RowsPersistent, IsRow
<1>6. AllAhead'
  <2>1. \A f \in fired : f.gen # e.gen
    BY DEF OccurrenceInv, Fresh, Used, CommitSchedule
  <2>2. \A i \in Jobs : Ahead(schedule[i]) /\ Ahead(disk[i]) /\ Ahead(loaded[i])
    BY DEF OccurrenceInv, AllAhead
  <2>3. ASSUME NEW i \in Jobs PROVE Ahead(schedule[i])' /\ Ahead(disk[i])' /\ Ahead(loaded[i])'
    BY <1>2, <1>3, <2>1, <2>2 DEF Ahead
  <2> QED
    BY <2>3 DEF AllAhead
<1>7. AtMostOnce' /\ NoBacklog'
  BY <1>3 DEF OccurrenceInv, AtMostOnce, NoBacklog
<1>8. Fresh'
  <2>1. \A w \in orphans : w.row # None => w.row.gen # e.gen /\ ~Used(w.row.gen)
    BY DEF OccurrenceInv, Fresh, CommitSchedule
  <2>2. \A g : g # e.gen /\ ~Used(g) => ~Used(g)'
    BY <1>1, <1>2, <1>3 DEF Used
  <2> QED
    BY <1>1, <1>3, <2>1, <2>2 DEF OccurrenceInv, Fresh
<1>9. ClaimHeld'
  BY <1>1 DEF ClaimHeld
<1> QED
  BY <1>4, <1>5, <1>6, <1>7, <1>8, <1>9 DEF OccurrenceInv

(* Steps that only take entries away, or replace a table by another one. *)
Fewer ==
  /\ \A i \in Jobs : schedule'[i] \in {None, schedule[i]}
  /\ \A i \in Jobs : disk'[i] \in {None, disk[i]}
  /\ \A i \in Jobs : loaded'[i] \in {None, loaded[i], disk[i]}
  /\ orphans' \subseteq orphans
  /\ UNCHANGED <<fired, gens>>
  /\ op'.kind \in {"free", "cancel"} \/ (op' = op /\ op.kind # "claim")
  /\ drv'.pc # "marked" \/ drv' = drv

(* Such steps keep the invariant. *)
LEMMA FewerKeeps ==
  ASSUME OccurrenceInv, TypeOK', ProcessInv', Fewer PROVE OccurrenceInv'
<1>1. Homed'
  <2>1. PICK h \in [Nat -> (Jobs \X Specs) \cup {None}] : HomedBy(h)
    BY DEF OccurrenceInv, Homed
  <2>2. HomedBy(h)'
    <3>1. \A i \in Jobs : At(h, i, schedule[i])' /\ At(h, i, disk[i])' /\ At(h, i, loaded[i])'
      BY <2>1 DEF HomedBy, At, Fewer
    <3>2. \A w \in orphans' : At(h, w.job, w.row)'
      BY <2>1 DEF HomedBy, At, Fewer
    <3>3. (drv.pc = "marked" => At(h, drv.copy.job, drv.copy.entry))'
      BY <2>1 DEF HomedBy, At, Fewer
    <3>4. \A f \in fired' : f.gen \in 1..gens' /\ h[f.gen][1] = f.job
      BY <2>1 DEF HomedBy, Fewer
    <3>5. (op.kind \in {"schedule", "claim"} => At(h, op.job, op.entry))'
      BY <2>1 DEF HomedBy, At, Fewer
    <3> QED
      BY <3>1, <3>2, <3>3, <3>4, <3>5 DEF HomedBy
  <2> QED
    BY <2>2 DEF Homed
<1>2. RowsPersistent'
  BY DEF OccurrenceInv, Fewer, RowsPersistent, IsRow
<1>3. AllAhead'
  BY DEF OccurrenceInv, Fewer, AllAhead, Ahead
<1>4. AtMostOnce' /\ NoBacklog'
  BY DEF OccurrenceInv, Fewer, AtMostOnce, NoBacklog
<1>5. Fresh'
  <2>1. \A g : ~Used(g) => ~Used(g)'
    BY DEF Fewer, Used
  <2> QED
    BY <2>1 DEF OccurrenceInv, Fewer, Fresh
<1>6. ClaimHeld'
  BY DEF Fewer, ClaimHeld
<1> QED
  BY <1>1, <1>2, <1>3, <1>4, <1>5, <1>6 DEF OccurrenceInv

(* cancel(), load() and the end of the process are such steps. *)
LEMMA FewerSteps ==
  ASSUME OccurrenceInv,
         \/ CommitCancel \/ Load \/ Crash \/ Exit
  PROVE  Fewer
<1>1. CASE CommitCancel
  BY <1>1, TableFacts DEF CommitCancel, Fewer, OccurrenceInv, RowOf, IsPersistent, Free
<1>2. CASE Load
  <2>1. op.kind # "claim"
    BY <1>2 DEF Load, OccurrenceInv, ProcessInv, Running
  <2> QED
    BY <1>2, <2>1 DEF Load, Fewer, NoJobs
<1>3. CASE Crash \/ Exit
  BY <1>3 DEF Crash, Exit, Forget, Fewer, NoJobs, Free, Off
<1> QED
  BY <1>1, <1>2, <1>3

(* A dropped caller leaves at most one write behind, of a definition nobody has seen. *)
LEMMA AbandonKeeps ==
  ASSUME OccurrenceInv, TypeOK', ProcessInv', Abandon PROVE OccurrenceInv'
<1>1. CASE orphans' = orphans
  <2>1. Fewer
    BY <1>1 DEF Abandon, Fewer, Free
  <2> QED
    BY <2>1, FewerKeeps
<1>2. CASE orphans' = orphans \cup {[job |-> op.job, row |-> RowOf(op.entry)]}
  <2> DEFINE w == [job |-> op.job, row |-> RowOf(op.entry)]
  <2>1. w.job = op.job /\ (w.row = None \/ (op.kind = "schedule" /\ w.row = op.entry /\ IsRow(w.row)))
    BY TableFacts DEF OccurrenceInv, Abandon, RowOf, IsPersistent, IsRow
  <2> HIDE DEF w
  <2>2. /\ UNCHANGED <<schedule, disk, loaded, drv, fired, gens>> /\ op'.kind = "free"
        /\ orphans' = orphans \cup {w}
    BY <1>2 DEF Abandon, Free, w
  <2>3. Homed'
    <3>1. PICK h \in [Nat -> (Jobs \X Specs) \cup {None}] : HomedBy(h)
      BY DEF OccurrenceInv, Homed
    <3>2. At(h, w.job, w.row)
      BY <2>1, <3>1 DEF HomedBy, At
    <3>3. HomedBy(h)'
      BY <2>2, <3>1, <3>2 DEF HomedBy, At
    <3> QED
      BY <3>3 DEF Homed
  <2>4. RowsPersistent' /\ AllAhead' /\ AtMostOnce' /\ NoBacklog' /\ ClaimHeld'
    BY <2>1, <2>2
       DEF OccurrenceInv, RowsPersistent, IsRow, AllAhead, Ahead, AtMostOnce, NoBacklog, ClaimHeld
  <2>5. Fresh'
    <3>1. \A g : Used(g)' <=> Used(g)
      BY <2>2 DEF Used
    <3>2. w.row # None => ~Used(w.row.gen) /\ \A v \in orphans : v.row # None => v.row.gen # w.row.gen
      BY <2>1 DEF OccurrenceInv, Fresh
    <3> QED
      BY <2>2, <3>1, <3>2 DEF OccurrenceInv, Fresh
  <2> QED
    BY <2>3, <2>4, <2>5 DEF OccurrenceInv
<1> QED
  BY <1>1, <1>2 DEF Abandon

(* That write puts an unfired definition on disk, whatever is in memory. *)
LEMMA OrphanLandsKeeps ==
  ASSUME OccurrenceInv, TypeOK', ProcessInv', OrphanLands PROVE OccurrenceInv'
<1>1. PICK w \in orphans : /\ disk' = [disk EXCEPT ![w.job] = w.row]
                           /\ orphans' = orphans \ {w}
  BY DEF OrphanLands
<1>2. UNCHANGED <<schedule, loaded, op, drv, fired, gens>>
  BY DEF OrphanLands
<1>3. /\ w.job \in Jobs /\ w.row \in Entry \cup {None} /\ disk'[w.job] = w.row
      /\ \A i \in Jobs \ {w.job} : disk'[i] = disk[i]
  BY <1>1, TableFacts DEF OccurrenceInv
<1>4. w.row # None => /\ ~Used(w.row.gen)
                      /\ op.kind = "schedule" => op.entry.gen # w.row.gen
                      /\ \A v \in orphans' : v.row # None => v.row.gen # w.row.gen
  BY <1>1 DEF OccurrenceInv, Fresh
<1>5. Homed'
  <2>1. PICK h \in [Nat -> (Jobs \X Specs) \cup {None}] : HomedBy(h)
    BY DEF OccurrenceInv, Homed
  <2>2. At(h, w.job, w.row)
    BY <2>1 DEF HomedBy
  <2>3. \A i \in Jobs : At(h, i, schedule[i])' /\ At(h, i, disk[i])' /\ At(h, i, loaded[i])'
    BY <1>2, <1>3, <2>1, <2>2 DEF HomedBy, At
  <2>4. /\ \A v \in orphans' : At(h, v.job, v.row)'
        /\ (drv.pc = "marked" => At(h, drv.copy.job, drv.copy.entry))'
        /\ (op.kind \in {"schedule", "claim"} => At(h, op.job, op.entry))'
        /\ \A f \in fired' : f.gen \in 1..gens' /\ h[f.gen][1] = f.job
    BY <1>1, <1>2, <2>1 DEF HomedBy, At
  <2>5. HomedBy(h)'
    BY <2>3, <2>4 DEF HomedBy
  <2> QED
    BY <2>5 DEF Homed
<1>6. RowsPersistent'
  BY <1>1, <1>2, <1>3 DEF OccurrenceInv, RowsPersistent, IsRow
<1>7. AllAhead'
  <2>1. w.row # None => \A f \in fired : f.gen # w.row.gen
    BY <1>4 DEF Used
  <2>2. \A i \in Jobs : Ahead(schedule[i]) /\ Ahead(disk[i]) /\ Ahead(loaded[i])
    BY DEF OccurrenceInv, AllAhead
  <2>3. ASSUME NEW i \in Jobs PROVE Ahead(schedule[i])' /\ Ahead(disk[i])' /\ Ahead(loaded[i])'
    BY <1>2, <1>3, <2>1, <2>2 DEF Ahead
  <2> QED
    BY <2>3 DEF AllAhead
<1>8. AtMostOnce' /\ NoBacklog'
  BY <1>2 DEF OccurrenceInv, AtMostOnce, NoBacklog
<1>9. Fresh'
  <2>1. \A g : ~Used(g) /\ (w.row # None => g # w.row.gen) => ~Used(g)'
    BY <1>2, <1>3 DEF Used
  <2> QED
    BY <1>1, <1>2, <1>4, <2>1 DEF OccurrenceInv, Fresh
<1>10. ClaimHeld'
  <2> SUFFICES ASSUME op.kind = "claim" PROVE ClaimHeld'
    BY <1>2 DEF ClaimHeld
  <2>1. w.row # None => w.row.gen # op.entry.gen
    BY <1>4, TableFacts DEF OccurrenceInv, ClaimHeld, Used
  <2> QED
    BY <1>2, <1>3, <2>1, TableFacts DEF OccurrenceInv, ClaimHeld
<1> QED
  BY <1>5, <1>6, <1>7, <1>8, <1>9, <1>10 DEF OccurrenceInv

(* Recovery keeps a row, drops it, or moves it to a later occurrence. *)
LEMMA RecoveredLater ==
  ASSUME TypeOK, NEW j \in Jobs, Recoverable(j), NEW t \in Nat, Recovered(j, t) # None
  PROVE  /\ Recovered(j, t) \in Entry /\ loaded[j] \in Entry
         /\ Recovered(j, t).gen = loaded[j].gen /\ Recovered(j, t).spec = loaded[j].spec
         /\ Recovered(j, t).next = loaded[j].next
              \/ (/\ loaded[j].next \in Nat /\ Recovered(j, t).next \in Nat
                  /\ loaded[j].next < Recovered(j, t).next /\ t < Recovered(j, t).next)
<1>1. loaded[j] \in Entry
  BY DEF TypeOK, TablesTyped, Table, Recoverable
<1>2. CASE recover(loaded[j], t) = "expired"
  <2>1. loaded[j].next \in Nat /\ loaded[j].spec \in ValidSpecs /\ loaded[j].next < t
    BY <1>1, <1>2, SchedulerConstants DEF recover, Entry, ValidSpecs
  <2> DEFINE n == next_run(loaded[j].spec, loaded[j].next, t)
  <2>2. n \in Nat \cup {None} /\ (n # None => n > t)
    BY <2>1, OccurrenceTypes
  <2>3. n # None /\ Recovered(j, t) = [loaded[j] EXCEPT !.next = n]
    BY <1>2 DEF Recovered
  <2> HIDE DEF n
  <2> QED
    BY <1>1, <2>1, <2>2, <2>3 DEF Entry
<1>3. CASE recover(loaded[j], t) # "expired"
  BY <1>1, <1>3 DEF Recovered
<1> QED
  BY <1>2, <1>3

(* recover_persisted(), to the end or cut short: no row goes back in time. *)
LEMMA RecoveryKeeps ==
  ASSUME OccurrenceInv, TypeOK', ProcessInv', NEW t \in ReadBefore,
         RecoverPersisted(t) \/ RecoveryCutShort(t)
  PROVE  OccurrenceInv'
<1>1. t \in Nat
  BY DEF ReadBefore, OccurrenceInv, TypeOK, ProcessTyped
<1> DEFINE From(e, j) == Recoverable(j) /\ e = Recovered(j, t)
<1>2. /\ \A j \in Jobs : schedule'[j] \in {None, schedule[j]} \/ From(schedule'[j], j)
      /\ \A j \in Jobs : disk'[j] = disk[j] \/ From(disk'[j], j)
      /\ loaded' = NoJobs /\ orphans' \subseteq orphans /\ UNCHANGED <<fired, gens>>
      /\ op'.kind = "free" /\ drv'.pc # "marked"
  BY DEF RecoverPersisted, RecoveryCutShort, Forget, Expired, NoJobs, Off, Free
<1>3. \A e : \A j \in Jobs : From(e, j) /\ e # None =>
        /\ e \in Entry /\ loaded[j] \in Entry /\ e.gen = loaded[j].gen /\ e.spec = loaded[j].spec
        /\ e.next = loaded[j].next
             \/ (loaded[j].next \in Nat /\ e.next \in Nat /\ loaded[j].next < e.next)
  BY <1>1, RecoveredLater DEF OccurrenceInv
<1> HIDE DEF From
<1>4. Homed'
  <2>1. PICK h \in [Nat -> (Jobs \X Specs) \cup {None}] : HomedBy(h)
    BY DEF OccurrenceInv, Homed
  <2>2. ASSUME NEW j \in Jobs, NEW e, From(e, j) PROVE At(h, j, e)
    BY <1>3, <2>1, <2>2, EntryFacts DEF HomedBy, At
  <2>3. \A i \in Jobs : At(h, i, schedule[i])' /\ At(h, i, disk[i])' /\ At(h, i, loaded[i])'
    BY <1>2, <2>1, <2>2 DEF HomedBy, At, NoJobs
  <2>4. /\ \A v \in orphans' : At(h, v.job, v.row)'
        /\ \A f \in fired' : f.gen \in 1..gens' /\ h[f.gen][1] = f.job
    BY <1>2, <2>1 DEF HomedBy, At
  <2>5. HomedBy(h)'
    BY <1>2, <2>3, <2>4 DEF HomedBy
  <2> QED
    BY <2>5 DEF Homed
<1>5. RowsPersistent'
  <2>1. ASSUME NEW j \in Jobs, NEW e, From(e, j) PROVE IsRow(e)
    BY <1>3, <2>1, EntryFacts DEF OccurrenceInv, RowsPersistent, IsRow
  <2> QED
    BY <1>2, <2>1 DEF OccurrenceInv, RowsPersistent, IsRow, NoJobs
<1>6. AllAhead'
  <2>1. ASSUME NEW j \in Jobs, NEW e, From(e, j) PROVE Ahead(e)
    <3> SUFFICES ASSUME e # None, e.next # None, NEW f \in fired, f.by = "time", f.gen = e.gen
                 PROVE  e.next > f.due /\ e.next > f.at
      BY DEF Ahead
    <3>1. f.due \in Nat /\ f.at \in Nat
      BY TableFacts DEF OccurrenceInv, Firing
    <3>2. loaded[j] # None /\ loaded[j].gen = e.gen /\ loaded[j].next \in Nat \cup {None}
      BY <1>3, <2>1, EntryFacts
    <3>3. loaded[j].next # None
      BY <1>3, <2>1, EntryFacts, SchedulerConstants
    <3>4. loaded[j].next > f.due /\ loaded[j].next > f.at
      BY <3>2, <3>3 DEF OccurrenceInv, AllAhead, Ahead
    <3> QED
      BY <1>3, <2>1, <3>1, <3>2, <3>3, <3>4
  <2>2. \A i \in Jobs : Ahead(schedule[i]) /\ Ahead(disk[i]) /\ Ahead(loaded[i])
    BY DEF OccurrenceInv, AllAhead
  <2>3. ASSUME NEW i \in Jobs PROVE Ahead(schedule[i])' /\ Ahead(disk[i])' /\ Ahead(loaded[i])'
    <3>1. /\ Ahead(schedule'[i]) /\ Ahead(disk'[i]) /\ Ahead(loaded'[i])
      BY <1>2, <2>1, <2>2 DEF Ahead, NoJobs
    <3> QED
      BY <1>2, <3>1 DEF Ahead
  <2> QED
    BY <2>3 DEF AllAhead
<1>7. AtMostOnce' /\ NoBacklog'
  BY <1>2 DEF OccurrenceInv, AtMostOnce, NoBacklog
<1>8. Fresh'
  <2>1. \A e : \A j \in Jobs : From(e, j) /\ e # None => loaded[j] # None /\ loaded[j].gen = e.gen
    BY <1>3, EntryFacts
  <2>2. \A g : ~Used(g) => ~Used(g)'
    BY <1>2, <2>1 DEF Used, NoJobs
  <2> QED
    BY <1>2, <2>2 DEF OccurrenceInv, Fresh
<1>9. ClaimHeld'
  BY <1>2 DEF ClaimHeld
<1> QED
  BY <1>4, <1>5, <1>6, <1>7, <1>8, <1>9 DEF OccurrenceInv

(* The first half of claim(): nothing, or the advanced entry held and recorded. *)
Advances(j, a) ==
  /\ a.gen = schedule[j].gen /\ a.spec = schedule[j].spec
  /\ a.next # None => a.next > drv.at
  /\ op'.kind = "claim" /\ op'.job = j /\ op'.due = schedule[j].next /\ op'.entry = a
  /\ drv'.pc = "due" /\ drv'.at = drv.at
  /\ \A i \in Jobs \ {j} : disk'[i] = disk[i]
  /\ \/ IsPersistent(schedule[j]) /\ HasStore /\ disk'[j] = None /\ a.next = None
     \/ IsPersistent(schedule[j]) /\ HasStore /\ disk'[j] = a /\ a.next # None
     \/ ~(IsPersistent(schedule[j]) /\ HasStore) /\ disk'[j] = disk[j]

(* The entry was due and its successor lies after the pass's clock. *)
LEMMA ClaimFacts ==
  ASSUME TypeOK, NEW j \in Jobs, Claim(j)
  PROVE  \/ Idle
         \/ /\ schedule[j] \in Entry /\ schedule[j].next \in Nat
            /\ schedule[j].next <= drv.at /\ drv.at \in Nat
            /\ \E a \in Entry : Advances(j, a)
<1> DEFINE e == schedule[j]
           n == next_run(e.spec, e.next, drv.at)
           a == [e EXCEPT !.next = n]
<1>0. drv \in DriverState /\ drv.pc = "due" /\ op = Free
  BY DEF TypeOK, DriverTyped, Claim
<1>1. CASE UNCHANGED <<op, disk>>
  <2>1. drv'.pc = "due" /\ drv'.at = drv.at
    BY <1>0 DEF Claim, DriverState
  <2> QED
    BY <1>0, <1>1, <2>1 DEF Claim, Idle
<1>2. CASE /\ Due(e, drv.at) /\ drv' = [drv EXCEPT !.ids = @ \ {j}]
           /\ op' = [Free EXCEPT !.kind = "claim", !.job = j, !.due = e.next, !.entry = a]
           /\ RecordClaim(e, a, j)
  <2>1. /\ e \in Entry /\ e # None /\ e.next \in Nat /\ e.next <= drv.at /\ drv.at \in Nat
        /\ e.spec \in ValidSpecs
    BY <1>2, TableFacts, EntryFacts DEF Due
  <2>2. n \in Nat \cup {None} /\ (n # None => n > drv.at)
    BY <2>1, OccurrenceTypes
  <2> HIDE DEF n
  <2>3. a \in Entry /\ a.gen = e.gen /\ a.spec = e.spec /\ a.next = n
    BY <2>1, <2>2 DEF Entry
  <2>4. /\ op'.kind = "claim" /\ op'.job = j /\ op'.due = e.next /\ op'.entry = a
        /\ drv'.pc = "due" /\ drv'.at = drv.at
    BY <1>0, <1>2 DEF Free, DriverState
  <2>5. /\ \A i \in Jobs \ {j} : disk'[i] = disk[i]
        /\ \/ IsPersistent(e) /\ HasStore /\ disk'[j] = None /\ n = None
           \/ IsPersistent(e) /\ HasStore /\ disk'[j] = a /\ n # None
           \/ ~(IsPersistent(e) /\ HasStore) /\ disk'[j] = disk[j]
    BY <1>2, <2>3, TableFacts DEF RecordClaim
  <2> HIDE DEF a
  <2>6. Advances(j, a)
    BY <2>2, <2>3, <2>4, <2>5 DEF Advances
  <2> QED
    BY <2>1, <2>3, <2>6
<1> QED
  BY <1>1, <1>2 DEF Claim

(* The store is ahead of every firing before anything is dispatched. *)
LEMMA ClaimKeeps ==
  ASSUME OccurrenceInv, TypeOK', ProcessInv', NEW j \in Jobs, Claim(j) PROVE OccurrenceInv'
<1> DEFINE e == schedule[j]
<1>1. CASE Idle
  BY <1>1, IdleKeeps
<1>2. CASE /\ e \in Entry /\ e.next \in Nat /\ e.next <= drv.at /\ drv.at \in Nat
           /\ \E a \in Entry : Advances(j, a)
  <2>1. PICK advanced \in Entry : Advances(j, advanced)
    BY <1>2
  <2> DEFINE n == advanced.next
  <2>2. n \in Nat \cup {None} /\ (n # None => n > drv.at)
    BY <2>1, EntryFacts DEF Advances
  <2>3. /\ advanced.gen = e.gen /\ advanced.spec = e.spec /\ advanced # None
        /\ e # None /\ e.spec \in ValidSpecs
    BY <1>2, <2>1, EntryFacts DEF Advances
  <2>4. /\ op'.kind = "claim" /\ op'.job = j /\ op'.due = e.next /\ op'.entry = advanced
        /\ drv'.pc = "due" /\ drv'.at = drv.at
    BY <2>1 DEF Advances
  <2>5. /\ \A i \in Jobs \ {j} : disk'[i] = disk[i]
        /\ \/ IsPersistent(e) /\ HasStore /\ disk'[j] = None /\ n = None
           \/ IsPersistent(e) /\ HasStore /\ disk'[j] = advanced /\ n # None
           \/ ~(IsPersistent(e) /\ HasStore) /\ disk'[j] = disk[j]
    BY <2>1 DEF Advances
  <2>6. UNCHANGED <<schedule, loaded, orphans, fired, gens>>
    BY DEF Claim
  <2>7. PICK h \in [Nat -> (Jobs \X Specs) \cup {None}] : HomedBy(h)
    BY DEF OccurrenceInv, Homed
  <2>8. At(h, j, e) /\ At(h, j, advanced) /\ At(h, j, disk[j])
    BY <1>2, <2>3, <2>7 DEF HomedBy, At
  <2>9. Homed'
    <3>1. \A i \in Jobs : At(h, i, schedule[i])' /\ At(h, i, disk[i])' /\ At(h, i, loaded[i])'
      BY <2>5, <2>6, <2>7, <2>8 DEF HomedBy, At
    <3>2. (op.kind \in {"schedule", "claim"} => At(h, op.job, op.entry))'
      BY <2>4, <2>6, <2>8 DEF At
    <3>3. /\ \A v \in orphans' : At(h, v.job, v.row)'
          /\ \A f \in fired' : f.gen \in 1..gens' /\ h[f.gen][1] = f.job
      BY <2>6, <2>7 DEF HomedBy, At
    <3>4. HomedBy(h)'
      BY <2>4, <3>1, <3>2, <3>3 DEF HomedBy
    <3> QED
      BY <3>4 DEF Homed
  <2>10. RowsPersistent'
    BY <2>3, <2>5, <2>6 DEF OccurrenceInv, RowsPersistent, IsRow, IsPersistent
  <2>11. AllAhead'
    <3>1. \A i \in Jobs : Ahead(schedule[i]) /\ Ahead(disk[i]) /\ Ahead(loaded[i])
      BY DEF OccurrenceInv, AllAhead
    <3>2. \A f \in fired : f.by = "time" /\ f.gen = e.gen /\ n # None => n > f.due /\ n > f.at
      <4>1. \A f \in fired : f.due \in Nat /\ f.at \in Nat
        BY TableFacts DEF OccurrenceInv, Firing
      <4>2. \A f \in fired : f.by = "time" /\ f.gen = e.gen => e.next > f.due /\ e.next > f.at
        BY <1>2, <2>3, <3>1, SchedulerConstants DEF Ahead
      <4> QED
        BY <1>2, <2>3, <2>2, <4>1, <4>2
    <3>3. ASSUME NEW i \in Jobs PROVE Ahead(schedule[i])' /\ Ahead(disk[i])' /\ Ahead(loaded[i])'
      <4>1. Ahead(schedule'[i]) /\ Ahead(disk'[i]) /\ Ahead(loaded'[i])
        BY <2>3, <2>5, <2>6, <3>1, <3>2 DEF Ahead
      <4> QED
        BY <2>6, <4>1 DEF Ahead
    <3> QED
      BY <3>3 DEF AllAhead
  <2>12. AtMostOnce' /\ NoBacklog'
    BY <2>6 DEF OccurrenceInv, AtMostOnce, NoBacklog
  <2>13. Fresh'
    <3>1. \A g : ~Used(g) => ~Used(g)'
      BY <1>2, <2>3, <2>4, <2>5, <2>6 DEF Used
    <3> QED
      BY <2>4, <2>6, <3>1 DEF OccurrenceInv, Fresh
  <2>14. ClaimHeld'
    <3>1. disk'[j] # None /\ disk'[j].gen = advanced.gen => disk'[j] = advanced /\ n # None
      <4> SUFFICES ASSUME disk'[j] # None, disk'[j].gen = e.gen, disk'[j] = disk[j],
                          ~(IsPersistent(e) /\ HasStore)
                   PROVE  FALSE
        BY <2>3, <2>5
      <4>1. disk[j] # None /\ disk[j].gen = e.gen
        OBVIOUS
      <4>2. disk[j].spec = e.spec
        BY <1>2, <2>3, <2>8, <4>1 DEF At
      <4>3. e.spec.persistent
        BY <4>1, <4>2 DEF OccurrenceInv, RowsPersistent, IsRow
      <4>4. HasStore
        BY <1>2, <2>3, <4>3 DEF ValidSpecs, validate
      <4> QED
        BY <1>2, <2>3, <4>3, <4>4 DEF IsPersistent
    <3> QED
      BY <1>2, <2>2, <2>3, <2>4, <2>6, <3>1 DEF ClaimHeld
  <2> QED
    BY <2>9, <2>10, <2>11, <2>12, <2>13, <2>14 DEF OccurrenceInv
<1> QED
  BY <1>1, <1>2, ClaimFacts DEF OccurrenceInv

(* What dispatch() adds to the history. *)
LEMMA Dispatched ==
  ASSUME NEW e \in Entry, NEW j \in Jobs, NEW due \in Nat, NEW by \in {"time", "event"},
         Dispatch(e, j, due, by)
  PROVE  \/ fired' = fired
         \/ \E f : /\ fired' = fired \cup {f} /\ f.job = j /\ f.gen = e.gen /\ f.due = due
                   /\ f.at = drv.at /\ f.by = by /\ f.run = runs + 1
<1> DEFINE f == [run |-> runs + 1, job |-> j, gen |-> e.gen, due |-> due, at |-> drv.at,
                 by |-> by, kind |-> e.spec.kind]
<1>1. /\ f.job = j /\ f.gen = e.gen /\ f.due = due
      /\ f.at = drv.at /\ f.by = by /\ f.run = runs + 1
  OBVIOUS
<1>2. fired' = fired \/ fired' = fired \cup {f}
  BY DEF Dispatch
<1> HIDE DEF f
<1> QED
  BY <1>1, <1>2

(* The second half of claim(), with what the first one left. *)
LEMMA FinishFacts ==
  ASSUME OccurrenceInv, FinishClaim
  PROVE  /\ op.kind = "claim" /\ op.job \in Jobs /\ op.entry \in Entry /\ op.entry # None
         /\ op.due \in Nat /\ op.entry.next \in Nat \cup {None} /\ drv.at \in Nat
         /\ op'.kind = "free" /\ drv.pc = "due"
         /\ schedule'[op.job] = IF op.entry.next = None THEN None ELSE op.entry
         /\ \A i \in Jobs \ {op.job} : schedule'[i] = schedule[i]
         /\ UNCHANGED <<disk, loaded, orphans, drv, gens>>
         /\ \/ fired' = fired
            \/ \E f : /\ fired' = fired \cup {f} /\ f.job = op.job /\ f.gen = op.entry.gen
                      /\ f.due = op.due /\ f.at = drv.at /\ f.by = "time" /\ f.run = runs + 1
         /\ schedule[op.job] # None
         /\ schedule[op.job].gen = op.entry.gen /\ schedule[op.job].spec = op.entry.spec
         /\ schedule[op.job].next = op.due /\ op.due <= drv.at /\ op.due # None
         /\ op.entry.next # None => op.entry.next > drv.at
         /\ disk[op.job] # None /\ disk[op.job].gen = op.entry.gen
              => disk[op.job] = op.entry /\ op.entry.next # None
<1>1. /\ op.kind = "claim" /\ op.job \in Jobs /\ op.entry \in Entry /\ op.entry # None
      /\ op.due \in Nat /\ op.entry.next \in Nat \cup {None} /\ drv.at \in Nat
      /\ op'.kind = "free" /\ drv.pc = "due" /\ op.due # None
  BY TableFacts, EntryFacts, SchedulerConstants DEF OccurrenceInv, FinishClaim, Free, ProcessInv
<1>2. /\ schedule'[op.job] = IF op.entry.next = None THEN None ELSE op.entry
      /\ \A i \in Jobs \ {op.job} : schedule'[i] = schedule[i]
      /\ UNCHANGED <<disk, loaded, orphans, drv, gens>>
  BY <1>1, TableFacts DEF OccurrenceInv, FinishClaim
<1>3. \/ fired' = fired
      \/ \E f : /\ fired' = fired \cup {f} /\ f.job = op.job /\ f.gen = op.entry.gen
                /\ f.due = op.due /\ f.at = drv.at /\ f.by = "time" /\ f.run = runs + 1
  BY <1>1, Dispatched DEF FinishClaim
<1> QED
  BY <1>1, <1>2, <1>3 DEF OccurrenceInv, ClaimHeld

(* Dispatch and memory: the occurrence fired is later than all before it. *)
LEMMA FinishClaimKeeps ==
  ASSUME OccurrenceInv, TypeOK', ProcessInv', FinishClaim PROVE OccurrenceInv'
<1> DEFINE j == op.job
           e == op.entry
<1>0. /\ op.kind = "claim" /\ j \in Jobs /\ e \in Entry /\ e # None /\ op.due \in Nat
      /\ e.next \in Nat \cup {None} /\ drv.at \in Nat /\ op'.kind = "free" /\ drv.pc = "due"
  BY FinishFacts
<1>1. /\ schedule'[j] \in {None, e} /\ (schedule'[j] = e => e.next # None)
      /\ \A i \in Jobs \ {j} : schedule'[i] = schedule[i]
  BY <1>0, FinishFacts
<1>2. UNCHANGED <<disk, loaded, orphans, drv, gens>>
  BY FinishFacts
<1>3. \/ fired' = fired
      \/ \E f : /\ fired' = fired \cup {f} /\ f.job = j /\ f.gen = e.gen /\ f.due = op.due
                /\ f.at = drv.at /\ f.by = "time" /\ f.run = runs + 1
  BY FinishFacts
<1>4. /\ schedule[j] # None /\ schedule[j].gen = e.gen /\ schedule[j].spec = e.spec
      /\ schedule[j].next = op.due /\ op.due <= drv.at /\ op.due # None
      /\ e.next # None => e.next > drv.at
      /\ disk[j] # None /\ disk[j].gen = e.gen => disk[j] = e /\ e.next # None
  BY FinishFacts
<1>5. PICK h \in [Nat -> (Jobs \X Specs) \cup {None}] : HomedBy(h)
  BY DEF OccurrenceInv, Homed
<1>6. At(h, j, e)
  BY <1>0, <1>5 DEF HomedBy
<1> HIDE DEF j, e
<1>7. Homed'
  <2>1. \A i \in Jobs : At(h, i, schedule[i])' /\ At(h, i, disk[i])' /\ At(h, i, loaded[i])'
    BY <1>0, <1>1, <1>2, <1>5, <1>6 DEF HomedBy, At
  <2>2. \A v \in orphans' : At(h, v.job, v.row)'
    BY <1>2, <1>5 DEF HomedBy, At
  <2>3. e.gen \in 1..gens /\ h[e.gen][1] = j
    BY <1>0, <1>6 DEF At
  <2>4. \A f \in fired' : f.gen \in 1..gens' /\ h[f.gen][1] = f.job
    BY <1>2, <1>3, <1>5, <2>3 DEF HomedBy
  <2>5. HomedBy(h)'
    BY <1>0, <1>2, <2>1, <2>2, <2>4 DEF HomedBy
  <2> QED
    BY <2>5 DEF Homed
<1>8. RowsPersistent'
  BY <1>2 DEF OccurrenceInv, RowsPersistent, IsRow
<1>9. \A f \in fired : f.by = "time" /\ f.gen = e.gen => op.due > f.due /\ op.due > f.at
  BY <1>0, <1>4 DEF OccurrenceInv, AllAhead, Ahead
<1>10. \A f \in fired : f.due \in Nat /\ f.at \in Nat
  BY TableFacts DEF OccurrenceInv, Firing
<1>11. AllAhead'
  <2> DEFINE Later(d) ==
        d # None /\ d.next # None =>
          \A f \in fired' : f.by = "time" /\ f.gen = d.gen => d.next > f.due /\ d.next > f.at
  <2>1. \A i \in Jobs : Ahead(schedule[i]) /\ Ahead(disk[i]) /\ Ahead(loaded[i])
    BY DEF OccurrenceInv, AllAhead
  <2>2. ASSUME NEW d, d = None \/ d.gen # e.gen \/ d = e, Ahead(d) \/ d = e
        PROVE  Later(d)
    <3> SUFFICES ASSUME d # None, d.next # None, NEW f \in fired', f.by = "time", f.gen = d.gen
                 PROVE  d.next > f.due /\ d.next > f.at
      OBVIOUS
    <3>1. CASE d = e
      BY <1>0, <1>3, <1>4, <1>9, <1>10, <3>1
    <3>2. CASE d.gen # e.gen
      BY <1>3, <2>2, <3>2 DEF Ahead
    <3> QED
      BY <2>2, <3>1, <3>2
  <2> HIDE DEF Later
  <2>3. loaded = NoJobs
    BY <1>0 DEF OccurrenceInv, ProcessInv, Running
  <2>4. ASSUME NEW i \in Jobs PROVE Ahead(schedule[i])' /\ Ahead(disk[i])' /\ Ahead(loaded[i])'
    <3>1. i # j => /\ schedule[i] # None => schedule[i].gen # e.gen
                   /\ disk[i] # None => disk[i].gen # e.gen
      BY <1>0, <1>5, <1>6 DEF HomedBy, At
    <3>2. Later(schedule'[i])
      <4>1. CASE i = j
        BY <1>1, <2>2, <4>1 DEF Ahead
      <4>2. CASE i # j
        BY <1>1, <2>1, <2>2, <3>1, <4>2
      <4> QED
        BY <4>1, <4>2
    <3>3. Later(disk'[i])
      BY <1>2, <1>4, <2>1, <2>2, <3>1
    <3>4. Later(loaded'[i])
      BY <1>2, <2>3 DEF Later, NoJobs
    <3> QED
      BY <3>2, <3>3, <3>4 DEF Later, Ahead
  <2> QED
    BY <2>4 DEF AllAhead
<1>12. AtMostOnce' /\ NoBacklog'
  BY <1>0, <1>3, <1>9, <1>10 DEF OccurrenceInv, AtMostOnce, NoBacklog
<1>13. Fresh'
  <2>1. \A g : ~Used(g) => ~Used(g)'
    BY <1>0, <1>1, <1>2, <1>3, <1>4 DEF Used
  <2> QED
    BY <1>0, <1>2, <2>1 DEF OccurrenceInv, Fresh
<1>14. ClaimHeld'
  BY <1>0 DEF ClaimHeld
<1> QED
  BY <1>7, <1>8, <1>11, <1>12, <1>13, <1>14 DEF OccurrenceInv

(* fire_for_event() fires definitions that are known, and no occurrence. *)
LEMMA EventKeeps ==
  ASSUME OccurrenceInv, TypeOK', ProcessInv',
         DispatchEvent \/ \E j \in Jobs : MarkEvent(j)
  PROVE  OccurrenceInv'
<1>1. UNCHANGED <<schedule, disk, loaded, orphans, op, gens>>
  BY DEF DispatchEvent, MarkEvent
<1>2. PICK h \in [Nat -> (Jobs \X Specs) \cup {None}] : HomedBy(h)
  BY DEF OccurrenceInv, Homed
<1>3. drv \in DriverState /\ op.kind # "claim"
  BY DEF DispatchEvent, MarkEvent, OccurrenceInv, ProcessInv, TypeOK, DriverTyped
<1>4. \A i \in Jobs : At(h, i, schedule[i])' /\ At(h, i, disk[i])' /\ At(h, i, loaded[i])'
  BY <1>1, <1>2 DEF HomedBy, At
<1>5. /\ \A v \in orphans' : At(h, v.job, v.row)'
      /\ (op.kind \in {"schedule", "claim"} => At(h, op.job, op.entry))'
  BY <1>1, <1>2 DEF HomedBy, At
<1>6. RowsPersistent' /\ ClaimHeld'
  BY <1>1, <1>3 DEF OccurrenceInv, RowsPersistent, IsRow, ClaimHeld
<1>7. ASSUME NEW j \in Jobs, MarkEvent(j) PROVE OccurrenceInv'
  <2>1. CASE schedule[j] = None
    <3>1. drv'.pc = "event" /\ drv'.at = drv.at
      BY <1>3, <1>7, <2>1 DEF MarkEvent, DriverState
    <3>2. Idle
      BY <1>1, <1>7, <3>1 DEF MarkEvent, Idle
    <3> QED
      BY <3>2, IdleKeeps
  <2>2. CASE schedule[j] # None
    <3>1. drv'.pc = "marked" /\ drv'.copy.job = j /\ drv'.copy.entry = schedule[j] /\ fired' = fired
      BY <1>3, <1>7, <2>2 DEF MarkEvent, DriverState
    <3>2. Homed'
      <4>1. /\ (drv.pc = "marked" => At(h, drv.copy.job, drv.copy.entry))'
            /\ \A f \in fired' : f.gen \in 1..gens' /\ h[f.gen][1] = f.job
        BY <1>1, <1>2, <3>1 DEF HomedBy, At
      <4>2. HomedBy(h)'
        BY <1>4, <1>5, <4>1 DEF HomedBy
      <4> QED
        BY <4>2 DEF Homed
    <3>3. AllAhead' /\ AtMostOnce' /\ NoBacklog'
      BY <1>1, <3>1 DEF OccurrenceInv, AllAhead, Ahead, AtMostOnce, NoBacklog
    <3>4. Fresh'
      <4>1. \A g : ~Used(g) => ~Used(g)'
        BY <1>1, <2>2, <3>1 DEF Used
      <4> QED
        BY <1>1, <4>1 DEF OccurrenceInv, Fresh
    <3> QED
      BY <1>6, <3>2, <3>3, <3>4 DEF OccurrenceInv
  <2> QED
    BY <2>1, <2>2
<1>8. CASE DispatchEvent
  <2> DEFINE c == drv.copy
  <2>1. drv.pc = "marked" /\ c.job \in Jobs /\ c.entry \in Entry /\ c.entry # None /\ drv.at \in Nat
    BY <1>8, TableFacts, EntryFacts DEF DispatchEvent, OccurrenceInv
  <2>2. \/ fired' = fired
        \/ \E f : fired' = fired \cup {f} /\ f.job = c.job /\ f.gen = c.entry.gen /\ f.by = "event"
    <3>1. Dispatch(c.entry, c.job, drv.at, "event")
      BY <1>8 DEF DispatchEvent
    <3> QED
      BY <2>1, <3>1, Dispatched
  <2>3. drv'.pc = "event"
    BY <1>3, <1>8 DEF DispatchEvent, DriverState
  <2>4. Homed'
    <3>1. c.entry.gen \in 1..gens /\ h[c.entry.gen][1] = c.job
      BY <1>2, <2>1 DEF HomedBy, At
    <3>2. \A f \in fired' : f.gen \in 1..gens' /\ h[f.gen][1] = f.job
      BY <1>1, <1>2, <2>2, <3>1 DEF HomedBy
    <3>3. HomedBy(h)'
      BY <1>4, <1>5, <2>3, <3>2 DEF HomedBy
    <3> QED
      BY <3>3 DEF Homed
  <2>5. AllAhead' /\ AtMostOnce' /\ NoBacklog'
    BY <1>1, <2>2 DEF OccurrenceInv, AllAhead, Ahead, AtMostOnce, NoBacklog
  <2>6. Fresh'
    <3>1. \A g : ~Used(g) => ~Used(g)'
      BY <1>1, <2>1, <2>2, <2>3 DEF Used
    <3> QED
      BY <1>1, <3>1 DEF OccurrenceInv, Fresh
  <2> QED
    BY <1>6, <2>4, <2>5, <2>6 DEF OccurrenceInv
<1> QED
  BY <1>7, <1>8

(* The driver's other steps move only the driver. *)
LEMMA DriverIdles ==
  ASSUME OccurrenceInv,
         \/ \E d \in {schedule[j].next : j \in Timed} \cup {None} : Horizon(d)
         \/ WokeCancelled \/ WokeRescheduled
         \/ \E t \in ReadBefore : WokeDue(t) \/ WokeEvent(t)
         \/ PassDone \/ BackoffOver
  PROVE  Idle /\ UNCHANGED <<acked, booted, phase>> /\ (Running' => Running)
<1>1. drv \in DriverState /\ (op.kind = "claim" => drv.pc = "due")
  BY DEF OccurrenceInv, TypeOK, DriverTyped, ProcessInv
<1>2. UNCHANGED <<schedule, disk, loaded, orphans, fired, gens, op, acked, booted, phase>>
  BY DEF Horizon, WokeCancelled, WokeRescheduled, WokeDue, WokeEvent, PassDone, BackoffOver
<1>3. op.kind # "claim"
  BY <1>1 DEF Horizon, WokeCancelled, WokeRescheduled, WokeDue, WokeEvent, PassDone, BackoffOver
<1>4. drv'.pc # "marked"
  <2>1. CASE \E d \in {schedule[j].next : j \in Timed} \cup {None} : Horizon(d)
    BY <2>1 DEF Horizon, Off
  <2>2. CASE WokeCancelled
    BY <2>2 DEF WokeCancelled, Off
  <2>3. CASE WokeRescheduled \/ BackoffOver
    BY <1>1, <2>3 DEF WokeRescheduled, BackoffOver, DriverState
  <2>4. CASE PassDone
    BY <1>1, <2>4 DEF PassDone, DriverState
  <2>5. ASSUME NEW t \in ReadBefore, WokeDue(t) PROVE drv'.pc = "due"
    BY <1>1, <2>5 DEF WokeDue, DriverState
  <2>6. ASSUME NEW t \in ReadBefore, WokeEvent(t) PROVE drv'.pc = "event"
    BY <1>1, <2>6 DEF WokeEvent, DriverState
  <2> QED
    BY <2>1, <2>2, <2>3, <2>4, <2>5, <2>6
<1> QED
  BY <1>2, <1>3, <1>4 DEF Idle, Running

(* One step per action. *)
LEMMA OccurrenceStep == OccurrenceInv /\ [Next]_vars => OccurrenceInv'
<1> SUFFICES ASSUME OccurrenceInv, [Next]_vars PROVE OccurrenceInv'
  OBVIOUS
<1>1. TypeOK' /\ ProcessInv'
  BY TypeStep, ProcessStep DEF OccurrenceInv
<1>2. CASE Idle
  BY <1>1, <1>2, IdleKeeps
<1>3. CASE Callers
  <2>1. ASSUME NEW p \in Principals, NEW j \in Jobs, BeginCancel(p, j) PROVE Idle
    BY <2>1 DEF BeginCancel, Idle, Free
  <2> QED
    BY <1>1, <1>2, <1>3, <2>1, BeginScheduleKeeps DEF Callers
<1>4. CASE Commits
  <2>1. CASE StoreRefuses
    BY <1>2, <2>1 DEF StoreRefuses, Idle, Free
  <2> QED
    BY <1>1, <1>4, <2>1, CommitScheduleKeeps, AbandonKeeps, FewerSteps, FewerKeeps DEF Commits
<1>5. CASE Process
  <2>1. CASE Boot \/ Stop
    BY <1>2, <2>1 DEF Boot, Stop, Idle
  <2> QED
    BY <1>1, <1>5, <2>1, RecoveryKeeps, FewerSteps, FewerKeeps DEF Process
<1>6. CASE Driver
  <2>1. CASE \/ \E d \in {schedule[j].next : j \in Timed} \cup {None} : Horizon(d)
             \/ WokeCancelled \/ WokeRescheduled
             \/ \E t \in ReadBefore : WokeDue(t) \/ WokeEvent(t)
             \/ PassDone \/ BackoffOver
    BY <1>2, <2>1, DriverIdles
  <2> QED
    BY <1>1, <1>6, <2>1, ClaimKeeps, FinishClaimKeeps, EventKeeps DEF Driver
<1>7. CASE Environment
  <2>1. CASE Tick \/ Publish \/ \E f \in live : RunEnds(f)
    BY <1>2, <2>1 DEF Tick, Publish, RunEnds, Idle
  <2> QED
    BY <1>1, <1>7, <2>1, OrphanLandsKeeps DEF Environment
<1>8. CASE UNCHANGED vars
  BY <1>2, <1>8 DEF vars, Idle
<1> QED
  BY <1>3, <1>4, <1>5, <1>6, <1>7, <1>8 DEF Next

(* Nothing is scheduled and nothing was fired at first. *)
LEMMA InitOccurrences == Init => OccurrenceInv
<1> SUFFICES ASSUME Init PROVE OccurrenceInv
  OBVIOUS
<1>1. Homed
  <2>1. [g \in Nat |-> None] \in [Nat -> (Jobs \X Specs) \cup {None}]
    OBVIOUS
  <2>2. HomedBy([g \in Nat |-> None])
    BY DEF Init, HomedBy, At, NoJobs, Free, Off
  <2> QED
    BY <2>1, <2>2 DEF Homed
<1>2. ProcessInv /\ RowsPersistent /\ Fresh /\ ClaimHeld /\ AllAhead /\ AtMostOnce /\ NoBacklog
  BY DEF Init, ProcessInv, RowsPersistent, IsRow, Fresh, ClaimHeld, AllAhead, Ahead,
         AtMostOnce, NoBacklog, NoJobs, Free, Off, Running
<1> QED
  BY <1>1, <1>2, InitTyped DEF OccurrenceInv

(* For every set of jobs, with crashes, restarts, refused writes, dropped callers and calls
   before start() is done: claim() dispatches no occurrence of a definition twice, and never
   one that was already past when an earlier one was claimed. *)
THEOREM FiredOnce == Spec => [](AtMostOnce /\ NoBacklog)
<1>1. OccurrenceInv => AtMostOnce /\ NoBacklog
  BY DEF OccurrenceInv
<1> QED
  BY <1>1, InitOccurrences, OccurrenceStep, PTL DEF Spec

---------------------------------------------------------------------------
(* Cancelled, and stale, definitions.  What cancel() acknowledged must be gone from
   every place a firing can come from; that needs calls to wait for start(). *)

\* Every slot belongs to a live firing.
SlotHeld == \A j \in Jobs : slot[j] # None => \E f \in live : f.job = j /\ f.run = slot[j].run

\* cancel() read the slot before its write: a timed firing of the job is that run.
CancelHeld ==
  op.kind = "cancel" =>
    /\ op.run # None => op.run <= runs
    /\ \A f \in live : f.by = "time" /\ f.job = op.job => f.run = op.run
    /\ \A f \in fired : f.run = op.run => f.job = op.job

\* Before start() is done nothing is scheduled and the rows read are those on disk.
Before ==
  ~Running => /\ schedule = NoJobs /\ op = Free /\ orphans = {}
              /\ phase = "loading" => loaded = disk

\* An acknowledged definition is nowhere.
Gone ==
  /\ acked \subseteq 1..gens
  /\ \A j \in Jobs : /\ schedule[j] # None => schedule[j].gen \notin acked
                     /\ disk[j] # None => disk[j].gen \notin acked
  /\ op.kind \in {"schedule", "claim"} => op.entry.gen \notin acked
  /\ \A w \in orphans : w.row # None => w.row.gen \notin acked

\* A row memory does not know is of a definition that never ran.
DiskFollows ==
  Running => \A j \in Jobs : disk[j] # None =>
    \/ schedule[j] # None /\ schedule[j].gen = disk[j].gen
    \/ /\ \A f \in fired : f.gen # disk[j].gen
       /\ drv.pc = "marked" => drv.copy.entry.gen # disk[j].gen

\* What recovery found, and let stand, is within the window.
CatchUp ==
  Running =>
    /\ booted.gens <= gens
    /\ op.kind = "schedule" => op.entry.gen > booted.gens
    /\ \A j \in Jobs :
         schedule[j] # None /\ schedule[j].gen <= booted.gens /\ schedule[j].next # None
           => schedule[j].next + Window >= booted.at

Settled == Gone /\ DiskFollows /\ CatchUp
CancelInv ==
  OccurrenceInv /\ ExclusionInv /\ SlotHeld /\ CancelHeld /\ Before /\ Settled
  /\ CancelReachesFiring

(* A generation is found under one job and with one specification. *)
LEMMA SameHome ==
  ASSUME OccurrenceInv
  PROVE  /\ \A i, k \in Jobs : schedule[i] # None /\ disk[k] # None
              /\ schedule[i].gen = disk[k].gen => i = k /\ schedule[i].spec = disk[k].spec
         /\ \A i, k \in Jobs : schedule[i] # None /\ schedule[k] # None
              /\ schedule[i].gen = schedule[k].gen => i = k
         /\ \A i, k \in Jobs : disk[i] # None /\ disk[k] # None
              /\ disk[i].gen = disk[k].gen => i = k
         /\ \A i \in Jobs, f \in fired : schedule[i] # None /\ schedule[i].gen = f.gen => f.job = i
         /\ \A i \in Jobs, f \in fired : disk[i] # None /\ disk[i].gen = f.gen => f.job = i
         /\ \A f, g \in fired : f.gen = g.gen => f.job = g.job
<1>1. PICK h \in [Nat -> (Jobs \X Specs) \cup {None}] : HomedBy(h)
  BY DEF OccurrenceInv, Homed
<1>2. \A i \in Jobs : schedule[i] # None =>
        h[schedule[i].gen][1] = i /\ h[schedule[i].gen][2] = schedule[i].spec
  BY <1>1 DEF HomedBy, At
<1>3. \A i \in Jobs : disk[i] # None =>
        h[disk[i].gen][1] = i /\ h[disk[i].gen][2] = disk[i].spec
  BY <1>1 DEF HomedBy, At
<1>4. \A f \in fired : h[f.gen][1] = f.job
  BY <1>1 DEF HomedBy
<1>5. ASSUME NEW i \in Jobs, NEW k \in Jobs, schedule[i] # None, disk[k] # None,
             schedule[i].gen = disk[k].gen
      PROVE  i = k /\ schedule[i].spec = disk[k].spec
  BY <1>2, <1>3, <1>5
<1>6. ASSUME NEW i \in Jobs, NEW k \in Jobs, schedule[i] # None, schedule[k] # None,
             schedule[i].gen = schedule[k].gen
      PROVE  i = k
  BY <1>2, <1>6
<1>7. ASSUME NEW i \in Jobs, NEW k \in Jobs, disk[i] # None, disk[k] # None,
             disk[i].gen = disk[k].gen
      PROVE  i = k
  BY <1>3, <1>7
<1>8. ASSUME NEW i \in Jobs, NEW f \in fired
      PROVE  /\ schedule[i] # None /\ schedule[i].gen = f.gen => f.job = i
             /\ disk[i] # None /\ disk[i].gen = f.gen => f.job = i
  BY <1>2, <1>3, <1>4
<1>9. ASSUME NEW f \in fired, NEW g \in fired, f.gen = g.gen PROVE f.job = g.job
  BY <1>4, <1>9
<1> QED
  BY <1>5, <1>6, <1>7, <1>8, <1>9

(* A scheduled definition that has a row is persistent, and there is a store. *)
LEMMA RowNeedsStore ==
  ASSUME OccurrenceInv, NEW j \in Jobs, disk[j] # None
  PROVE  /\ HasStore
         /\ schedule[j] # None /\ schedule[j].gen = disk[j].gen => IsPersistent(schedule[j])
<1>1. disk[j].spec \in ValidSpecs /\ disk[j].spec.persistent
  BY TableFacts, EntryFacts DEF OccurrenceInv, RowsPersistent, IsRow
<1>2. HasStore
  BY <1>1 DEF ValidSpecs, validate
<1> QED
  BY <1>1, <1>2, SameHome DEF IsPersistent

(* Generations are handed out one by one. *)
LEMMA GenBounds ==
  ASSUME OccurrenceInv
  PROVE  /\ \A i \in Jobs : schedule[i] # None => schedule[i].gen \in 1..gens
         /\ \A f \in fired : f.gen \in 1..gens
  BY DEF OccurrenceInv, Homed, HomedBy, At

(* With calls waiting for start(), the process is silent until recovery is over. *)
LEMMA BeforeStep ==
  ASSUME OccurrenceInv, Before, [Next]_vars, EarlyCalls = FALSE PROVE Before'
<1>1. CASE Running' /\ Running
  BY <1>1 DEF Before
<1>2. CASE ~Running /\ UNCHANGED <<phase, schedule, op, orphans, loaded, disk>>
  BY <1>2 DEF Before, Running
<1>3. CASE Forget
  BY <1>3 DEF Forget, Before, Running
<1>4. op # Free => Running
  BY DEF Before
<1>5. drv.pc # "off" => Running
  BY DEF OccurrenceInv, ProcessInv
<1>6. CASE Callers
  BY <1>1, <1>6 DEF Callers, BeginSchedule, BeginCancel, Serving, Running
<1>7. CASE Commits
  <2>1. op # Free /\ phase' = phase
    BY <1>7 DEF Commits, CommitSchedule, CommitCancel, StoreRefuses, Abandon, Free
  <2> QED
    BY <1>1, <1>4, <2>1 DEF Running
<1>8. CASE Process
  <2>1. CASE Load
    <3>1. HasStore \/ disk = NoJobs
      BY RowNeedsStore, TableFacts DEF OccurrenceInv, NoJobs
    <3> QED
      BY <2>1, <3>1 DEF Load, Before, Running
  <2>2. CASE Boot \/ Stop \/ \E t \in ReadBefore : RecoverPersisted(t)
    BY <2>2 DEF Boot, Stop, RecoverPersisted, Before, Running
  <2> QED
    BY <1>3, <1>8, <2>1, <2>2 DEF Process, Crash, Exit, RecoveryCutShort
<1>9. CASE Driver
  <2>1. phase' = phase
    BY <1>9 DEF Driver, Horizon, WokeCancelled, WokeRescheduled, WokeDue, WokeEvent, Claim,
                FinishClaim, MarkEvent, DispatchEvent, PassDone, BackoffOver
  <2>2. drv.pc # "off" \/ op # Free
    <3>1. CASE FinishClaim
      BY <3>1 DEF FinishClaim, Free
    <3> QED
      BY <1>9, <3>1 DEF Driver, Horizon, WokeCancelled, WokeRescheduled, WokeDue, WokeEvent,
                Claim, MarkEvent, DispatchEvent, PassDone, BackoffOver
  <2> QED
    BY <1>1, <1>4, <1>5, <2>1, <2>2 DEF Running
<1>10. CASE Environment
  <2>1. CASE OrphanLands
    BY <1>1, <2>1 DEF OrphanLands, Before, Running
  <2>2. CASE (\E f \in live : RunEnds(f)) \/ Tick \/ Publish
    BY <1>1, <1>2, <2>2 DEF RunEnds, Tick, Publish, Running
  <2> QED
    BY <1>10, <2>1, <2>2 DEF Environment
<1>11. CASE UNCHANGED vars
  BY <1>1, <1>2, <1>11 DEF vars, Running
<1> QED
  BY <1>6, <1>7, <1>8, <1>9, <1>10, <1>11 DEF Next

(* dispatch() takes a free slot for the firing it starts. *)
LEMMA DispatchSlot ==
  ASSUME TypeOK, NEW e \in Entry, NEW j \in Jobs, NEW due \in Nat, NEW by \in {"time", "event"},
         Dispatch(e, j, due, by)
  PROVE  \/ UNCHANGED <<slot, live, asked, fired, runs>>
         \/ \E f : /\ f.job = j /\ f.gen = e.gen /\ f.by = by /\ f.run = runs + 1
                   /\ live' = live \cup {f} /\ fired' = fired \cup {f} /\ runs' = runs + 1
                   /\ asked \subseteq asked'
                   /\ slot'[j].run = f.run /\ \A i \in Jobs \ {j} : slot'[i] = slot[i]
<1> DEFINE f == [run |-> runs + 1, job |-> j, gen |-> e.gen, due |-> due, at |-> drv.at,
                 by |-> by, kind |-> e.spec.kind]
<1>1. f.job = j /\ f.gen = e.gen /\ f.by = by /\ f.run = runs + 1
  OBVIOUS
<1>2. \/ UNCHANGED <<slot, live, asked, fired, runs>>
      \/ /\ live' = live \cup {f} /\ fired' = fired \cup {f} /\ runs' = runs + 1
         /\ asked \subseteq asked'
         /\ slot' = [slot EXCEPT ![j] = [run |-> f.run, owner |-> e.owner]]
  BY DEF Dispatch
<1> HIDE DEF f
<1> QED
  BY <1>1, <1>2 DEF TypeOK, FiringsTyped

(* RunGuard frees a slot with the firing it belongs to. *)
LEMMA SlotStep ==
  ASSUME ExclusionInv, SlotHeld, [Next]_vars PROVE SlotHeld'
<1>0. TypeOK
  BY DEF ExclusionInv
<1>1. ASSUME NEW e \in Entry, NEW j \in Jobs, NEW due \in Nat, NEW by \in {"time", "event"},
             Dispatch(e, j, due, by)
      PROVE  SlotHeld'
  BY <1>0, <1>1, DispatchSlot DEF SlotHeld
<1>2. CASE FinishClaim
  <2>1. op.entry \in Entry /\ op.job \in Jobs /\ op.due \in Nat
    BY <1>0, <1>2, TableFacts DEF FinishClaim
  <2> QED
    BY <1>1, <1>2, <2>1 DEF FinishClaim
<1>3. CASE DispatchEvent
  <2>1. drv.copy.entry \in Entry /\ drv.copy.job \in Jobs /\ drv.at \in Nat
    BY <1>0, <1>3, TableFacts DEF DispatchEvent
  <2> QED
    BY <1>1, <1>3, <2>1 DEF DispatchEvent
<1>4. ASSUME NEW f \in live, RunEnds(f) PROVE SlotHeld'
  <2>1. f.job \in Jobs /\ slot[f.job] # None /\ slot[f.job].run = f.run
    BY <1>0 DEF TypeOK, FiringsTyped, Firing, ExclusionInv, Exclusion
  <2>2. slot' = [slot EXCEPT ![f.job] = None] /\ live' = live \ {f}
    BY <1>4, <2>1 DEF RunEnds
  <2>3. \A i \in Jobs : slot'[i] = IF i = f.job THEN None ELSE slot[i]
    BY <1>0, <2>1, <2>2 DEF TypeOK, FiringsTyped
  <2> QED
    BY <2>2, <2>3 DEF SlotHeld
<1>5. CASE slot' = NoJobs \/ UNCHANGED <<slot, live>>
  BY <1>5 DEF SlotHeld, NoJobs
<1>6. CASE Callers \/ Commits
  BY <1>5, <1>6 DEF Callers, Commits, BeginSchedule, BeginCancel, CommitSchedule,
                    CommitCancel, StoreRefuses, Abandon
<1>7. CASE Process
  BY <1>5, <1>7 DEF Process, Boot, Load, RecoverPersisted, RecoveryCutShort, Crash,
                    Stop, Exit, Forget
<1>8. CASE Driver
  BY <1>2, <1>3, <1>5, <1>8
     DEF Driver, Horizon, WokeCancelled, WokeRescheduled, WokeDue, WokeEvent, Claim,
         MarkEvent, PassDone, BackoffOver
<1>9. CASE Environment
  BY <1>4, <1>5, <1>9 DEF Environment, OrphanLands, Tick, Publish
<1>10. CASE UNCHANGED vars
  BY <1>5, <1>10 DEF vars
<1> QED
  BY <1>6, <1>7, <1>8, <1>9, <1>10 DEF Next

(* Only an event can start a firing between cancel()'s look at the slot and its commit. *)
LEMMA CancelHeldStep ==
  ASSUME OccurrenceInv, ExclusionInv, SlotHeld, CancelHeld, [Next]_vars PROVE CancelHeld'
<1>0. /\ TypeOK /\ runs \in Nat /\ live \subseteq fired
      /\ \A f \in fired : f.run \in Nat /\ f.run <= runs /\ f.job \in Jobs
  BY DEF ExclusionInv, RunsDistinct, TypeOK, ProcessTyped, FiringsTyped, Firing
<1>1. CASE op'.kind # "cancel"
  BY <1>1 DEF CancelHeld
<1>2. CASE op' = op /\ live' \subseteq live /\ UNCHANGED <<fired, runs>>
  BY <1>2 DEF CancelHeld
<1>3. ASSUME NEW p \in Principals, NEW j \in Jobs, BeginCancel(p, j) PROVE CancelHeld'
  <2>1. /\ op'.job = j /\ op'.run = run_slot(j) /\ UNCHANGED <<live, fired, runs>>
    BY <1>3 DEF BeginCancel, Free
  <2>2. CASE slot[j] = None
    <3>1. op'.run = None
      BY <2>1, <2>2 DEF run_slot
    <3>2. \A f \in live : f.job # j
      BY <2>2 DEF ExclusionInv, Exclusion
    <3> QED
      BY <1>0, <2>1, <3>1, <3>2, SchedulerConstants DEF CancelHeld
  <2>3. CASE slot[j] # None
    <3>1. op'.run = slot[j].run
      BY <2>1, <2>3 DEF run_slot
    <3>2. PICK g \in live : g.job = j /\ g.run = slot[j].run
      BY <2>3 DEF SlotHeld
    <3>3. \A f \in live : f.job = j => f.run = slot[j].run
      BY DEF ExclusionInv, Exclusion
    <3>4. \A f \in fired : f.run = slot[j].run => f = g
      BY <1>0, <3>2 DEF ExclusionInv, RunsDistinct
    <3> QED
      BY <1>0, <2>1, <3>1, <3>2, <3>3, <3>4 DEF CancelHeld
  <2> QED
    BY <2>2, <2>3
<1>4. CASE DispatchEvent
  <2>1. drv.copy.entry \in Entry /\ drv.copy.job \in Jobs /\ drv.at \in Nat
    BY <1>0, <1>4, TableFacts DEF DispatchEvent
  <2>2. \/ UNCHANGED <<slot, live, asked, fired, runs>>
        \/ \E f : /\ f.by = "event" /\ f.run = runs + 1
                  /\ live' = live \cup {f} /\ fired' = fired \cup {f} /\ runs' = runs + 1
    BY <1>0, <1>4, <2>1, DispatchSlot DEF DispatchEvent
  <2>3. CASE UNCHANGED <<slot, live, asked, fired, runs>>
    BY <1>2, <1>4, <2>3 DEF DispatchEvent
  <2>4. ASSUME NEW f, f.by = "event", f.run = runs + 1,
               live' = live \cup {f}, fired' = fired \cup {f}, runs' = runs + 1
        PROVE  CancelHeld'
    <3>1. op' = op
      BY <1>4 DEF DispatchEvent
    <3> SUFFICES ASSUME op.kind = "cancel" PROVE CancelHeld'
      BY <3>1 DEF CancelHeld
    <3>2. op.run \in Nat \cup {None}
      BY <1>0 DEF TypeOK, MutexTyped, Free
    <3>3. op.run # None => op.run <= runs
      BY DEF CancelHeld
    <3>4. f.run # op.run
      BY <1>0, <2>4, <3>2, <3>3, SchedulerConstants
    <3> QED
      BY <1>0, <2>4, <3>1, <3>2, <3>3, <3>4 DEF CancelHeld
  <2> QED
    BY <2>2, <2>3, <2>4
<1>5. CASE Callers \/ Commits
  <2>1. CASE Commits
    BY <1>1, <2>1 DEF Commits, CommitSchedule, CommitCancel, StoreRefuses, Abandon, Free
  <2>2. ASSUME NEW p \in Principals, NEW j \in Jobs, NEW s \in Specs, NEW t \in ReadBefore,
               BeginSchedule(p, j, s, t)
        PROVE  op'.kind # "cancel"
    BY <2>2 DEF BeginSchedule, Free
  <2> QED
    BY <1>1, <1>3, <1>5, <2>1, <2>2 DEF Callers
<1>6. CASE Process
  BY <1>1, <1>2, <1>6 DEF Process, Boot, Load, RecoverPersisted, RecoveryCutShort, Crash,
                    Stop, Exit, Forget, Free
<1>7. CASE Driver
  <2>1. CASE FinishClaim
    BY <1>1, <2>1 DEF FinishClaim, Free
  <2>2. ASSUME NEW j \in Jobs, Claim(j) PROVE CancelHeld'
    <3>1. op' = op \/ op'.kind # "cancel"
      BY <2>2 DEF Claim, Free
    <3> QED
      BY <1>1, <1>2, <2>2, <3>1 DEF Claim
  <2>3. CASE \/ \E d \in {schedule[j].next : j \in Timed} \cup {None} : Horizon(d)
             \/ WokeCancelled \/ WokeRescheduled \/ PassDone \/ BackoffOver
             \/ \E t \in ReadBefore : WokeDue(t) \/ WokeEvent(t)
             \/ \E j \in Jobs : MarkEvent(j)
    BY <1>2, <2>3 DEF Horizon, WokeCancelled, WokeRescheduled, WokeDue, WokeEvent,
         MarkEvent, PassDone, BackoffOver
  <2> QED
    BY <1>4, <1>7, <2>1, <2>2, <2>3 DEF Driver
<1>8. CASE Environment
  BY <1>2, <1>8 DEF Environment, OrphanLands, RunEnds, Tick, Publish
<1>9. CASE UNCHANGED vars
  BY <1>2, <1>9 DEF vars
<1> QED
  BY <1>5, <1>6, <1>7, <1>8, <1>9 DEF Next

(* Steps that touch no table settle nothing and unsettle nothing. *)
LEMMA IdleSettled ==
  ASSUME CancelInv, Idle, UNCHANGED <<acked, booted>>, Running' => Running PROVE Settled'
<1>1. Gone /\ DiskFollows /\ CatchUp
  BY DEF CancelInv, Settled
<1>2. Gone'
  BY <1>1 DEF Idle, Gone
<1>3. DiskFollows'
  BY <1>1 DEF Idle, DiskFollows
<1>4. CatchUp'
  BY <1>1 DEF Idle, CatchUp
<1> QED
  BY <1>2, <1>3, <1>4 DEF Settled

(* A new generation was never acknowledged and is younger than the boot. *)
LEMMA BeginScheduleSettled ==
  ASSUME CancelInv, NEW p \in Principals, NEW j \in Jobs, NEW s \in Specs,
         NEW t \in ReadBefore, BeginSchedule(p, j, s, t)
  PROVE  Settled'
<1>1. /\ op'.kind = "schedule" /\ op'.entry.gen = gens + 1 /\ gens' = gens + 1 /\ gens \in Nat
      /\ UNCHANGED <<schedule, disk, orphans, drv, fired, acked, booted, phase>>
  BY TableFacts DEF BeginSchedule, Free, CancelInv, OccurrenceInv
<1>2. Gone /\ DiskFollows /\ CatchUp /\ booted.gens \in Nat
  BY DEF CancelInv, Settled, OccurrenceInv, TypeOK, ProcessTyped
<1>3. Gone'
  BY <1>1, <1>2 DEF Gone
<1>4. DiskFollows'
  BY <1>1, <1>2 DEF DiskFollows, Running
<1>5. CatchUp'
  BY <1>1, <1>2 DEF CatchUp, Running
<1> QED
  BY <1>3, <1>4, <1>5 DEF Settled

(* A commit that does not write finds no row of the definition it replaces. *)
LEMMA Unwritten ==
  ASSUME OccurrenceInv, op.job \in Jobs, ~NeedsWrite(op), disk[op.job] # None,
         schedule[op.job] # None
  PROVE  schedule[op.job].gen # disk[op.job].gen
  BY RowNeedsStore DEF NeedsWrite

(* schedule() commits over a row of its own, or over none that ran. *)
LEMMA CommitScheduleSettled ==
  ASSUME CancelInv, CommitSchedule PROVE Settled'
<1> DEFINE j == op.job
           e == op.entry
<1>1. op.kind = "schedule" /\ j \in Jobs /\ e \in Entry /\ e # None /\ op'.kind = "free"
  BY TableFacts, EntryFacts DEF CancelInv, OccurrenceInv, Free, CommitSchedule
<1>2. /\ schedule'[j] = e /\ \A i \in Jobs \ {j} : schedule'[i] = schedule[i] /\ disk'[i] = disk[i]
      /\ \/ NeedsWrite(op) /\ disk'[j] \in {None, e}
         \/ ~NeedsWrite(op) /\ disk'[j] = disk[j]
  BY <1>1, TableFacts DEF RowOf, CancelInv, OccurrenceInv, CommitSchedule
<1>3. UNCHANGED <<orphans, drv, fired, gens, acked, booted, phase>>
  BY DEF CommitSchedule
<1>4. Gone /\ DiskFollows /\ CatchUp /\ OccurrenceInv
  BY DEF CancelInv, Settled
<1>5. ~NeedsWrite(op) /\ disk[j] # None => schedule[j] = None \/ schedule[j].gen # disk[j].gen
  BY <1>1, <1>4, Unwritten
<1> HIDE DEF j, e
<1>6. e.gen \notin acked /\ (Running => e.gen > booted.gens)
  BY <1>1, <1>4 DEF Gone, CatchUp, e
<1>7. Gone'
  BY <1>1, <1>2, <1>3, <1>4, <1>6 DEF Gone
<1>8. DiskFollows'
  <2> SUFFICES ASSUME Running, NEW i \in Jobs, disk'[i] # None
               PROVE  \/ schedule'[i] # None /\ schedule'[i].gen = disk'[i].gen
                      \/ /\ \A f \in fired : f.gen # disk'[i].gen
                         /\ drv.pc = "marked" => drv.copy.entry.gen # disk'[i].gen
    BY <1>3 DEF DiskFollows, Running
  <2> QED
    BY <1>1, <1>2, <1>4, <1>5 DEF DiskFollows
<1>9. CatchUp'
  <2>1. booted.gens \in Nat /\ e.gen \in Nat
    BY <1>1, <1>4, EntryFacts DEF OccurrenceInv, TypeOK, ProcessTyped
  <2> QED
    BY <1>1, <1>2, <1>3, <1>4, <1>6, <2>1 DEF CatchUp, Running
<1> QED
  BY <1>7, <1>8, <1>9 DEF Settled

(* Cancel takes the definition, and those of the run it stops, from every place. *)
LEMMA CommitCancelSettled ==
  ASSUME CancelInv, CommitCancel PROVE Settled'
<1> DEFINE j == op.job
<1>1. op.kind = "cancel" /\ j \in Jobs /\ op.entry = None /\ op'.kind = "free" /\ op # Free
  BY TableFacts DEF CancelInv, OccurrenceInv, Free, CommitCancel
<1>2. /\ schedule'[j] = None /\ \A i \in Jobs \ {j} : schedule'[i] = schedule[i] /\ disk'[i] = disk[i]
      /\ \/ NeedsWrite(op) /\ disk'[j] = None
         \/ ~NeedsWrite(op) /\ disk'[j] = disk[j]
  BY <1>1, TableFacts DEF RowOf, IsPersistent, CancelInv, OccurrenceInv, CommitCancel
<1>3. UNCHANGED <<orphans, drv, fired, gens, booted, phase>>
  BY DEF CommitCancel
<1>4. Gone /\ DiskFollows /\ CatchUp /\ OccurrenceInv /\ Running
  BY <1>1 DEF CancelInv, Settled, Before
<1>5. ~NeedsWrite(op) /\ disk[j] # None => schedule[j] = None \/ schedule[j].gen # disk[j].gen
  BY <1>1, <1>4, Unwritten
<1>6. ASSUME NEW g \in acked'
      PROVE  \/ g \in acked
             \/ schedule[j] # None /\ g = schedule[j].gen
             \/ \E f \in fired : f.job = j /\ f.gen = g
  <2>1. \A f \in fired : f.run = op.run => f.job = j
    BY <1>1 DEF CancelInv, CancelHeld
  <2> QED
    BY <1>6, <2>1 DEF CommitCancel
<1>7. ASSUME NEW i \in Jobs, disk'[i] # None PROVE disk'[i].gen \notin acked'
  <2>1. disk'[i] = disk[i] /\ disk[i] # None
    BY <1>2, <1>7
  <2>2. disk[i].gen \notin acked
    BY <1>4, <2>1 DEF Gone
  <2>3. CASE i = j
    <3>1. schedule[j] = None \/ schedule[j].gen # disk[j].gen
      BY <1>2, <1>5, <1>7, <2>1, <2>3
    <3>2. \A f \in fired : f.gen # disk[j].gen
      BY <1>1, <1>4, <2>1, <2>3, <3>1 DEF DiskFollows
    <3> QED
      BY <1>6, <2>1, <2>2, <2>3, <3>1, <3>2
  <2>4. CASE i # j
    <3>1. schedule[j] # None => schedule[j].gen # disk[i].gen
      BY <1>1, <1>4, <2>1, <2>4, SameHome
    <3>2. \A f \in fired : f.job = j => f.gen # disk[i].gen
      BY <1>1, <1>4, <2>1, <2>4, SameHome
    <3> QED
      BY <1>6, <2>1, <2>2, <3>1, <3>2
  <2> QED
    BY <2>3, <2>4
<1>8. ASSUME NEW i \in Jobs, schedule'[i] # None PROVE schedule'[i].gen \notin acked'
  <2>1. i # j /\ schedule'[i] = schedule[i] /\ schedule[i] # None
    BY <1>2, <1>8
  <2>2. schedule[i].gen \notin acked
    BY <1>4, <2>1 DEF Gone
  <2>3. schedule[j] # None => schedule[j].gen # schedule[i].gen
    BY <1>1, <1>4, <2>1, SameHome
  <2>4. \A f \in fired : f.job = j => f.gen # schedule[i].gen
    BY <1>1, <1>4, <2>1, SameHome
  <2> QED
    BY <1>6, <2>1, <2>2, <2>3, <2>4
<1>9. ASSUME NEW w \in orphans', w.row # None PROVE w.row.gen \notin acked'
  <2>1. w \in orphans /\ ~Used(w.row.gen) /\ w.row.gen \notin acked
    BY <1>3, <1>4, <1>9 DEF OccurrenceInv, Fresh, Gone
  <2> QED
    BY <1>1, <1>6, <2>1 DEF Used
<1>10. acked' \subseteq 1..gens'
  BY <1>1, <1>3, <1>4, <1>6, GenBounds DEF Gone
<1>11. Gone'
  BY <1>1, <1>7, <1>8, <1>9, <1>10 DEF Gone
<1>12. DiskFollows'
  <2> SUFFICES ASSUME NEW i \in Jobs, disk'[i] # None
               PROVE  \/ schedule'[i] # None /\ schedule'[i].gen = disk'[i].gen
                      \/ /\ \A f \in fired : f.gen # disk'[i].gen
                         /\ drv.pc = "marked" => drv.copy.entry.gen # disk'[i].gen
    BY <1>3 DEF DiskFollows, Running
  <2> QED
    BY <1>1, <1>2, <1>4, <1>5 DEF DiskFollows
<1>13. CatchUp'
  <2> HIDE DEF j
  <2> QED
    BY <1>1, <1>2, <1>3, <1>4 DEF CatchUp, Running
<1> QED
  BY <1>11, <1>12, <1>13 DEF Settled

(* A dropped write carries a definition nobody cancelled. *)
LEMMA AbandonSettled ==
  ASSUME CancelInv, Abandon PROVE Settled'
<1>1. /\ UNCHANGED <<schedule, disk, drv, fired, gens, acked, booted, phase>> /\ op'.kind = "free"
      /\ orphans' \subseteq orphans \cup {[job |-> op.job, row |-> RowOf(op.entry)]}
  BY DEF Abandon, Free
<1>2. Gone /\ DiskFollows /\ CatchUp
  BY DEF CancelInv, Settled
<1>3. RowOf(op.entry) # None => op.kind = "schedule" /\ RowOf(op.entry) = op.entry
  BY TableFacts DEF Abandon, RowOf, IsPersistent, CancelInv, OccurrenceInv
<1>4. Gone'
  BY <1>1, <1>2, <1>3 DEF Gone
<1>5. DiskFollows' /\ CatchUp'
  BY <1>1, <1>2 DEF DiskFollows, CatchUp, Running
<1> QED
  BY <1>4, <1>5 DEF Settled

(* When it lands, its row belongs to a definition that never ran. *)
LEMMA OrphanLandsSettled ==
  ASSUME CancelInv, OrphanLands PROVE Settled'
<1>1. PICK w \in orphans : /\ disk' = [disk EXCEPT ![w.job] = w.row]
                           /\ orphans' = orphans \ {w}
  BY DEF OrphanLands
<1>2. UNCHANGED <<schedule, op, drv, fired, gens, acked, booted, phase>>
  BY DEF OrphanLands
<1>3. /\ w.job \in Jobs /\ disk'[w.job] = w.row
      /\ \A i \in Jobs \ {w.job} : disk'[i] = disk[i]
  BY <1>1, TableFacts DEF CancelInv, OccurrenceInv
<1>4. w.row # None => ~Used(w.row.gen)
  BY <1>1 DEF CancelInv, OccurrenceInv, Fresh
<1>5. Gone /\ DiskFollows /\ CatchUp
  BY DEF CancelInv, Settled
<1>6. Gone'
  BY <1>1, <1>2, <1>3, <1>5 DEF Gone
<1>7. DiskFollows'
  BY <1>2, <1>3, <1>4, <1>5 DEF DiskFollows, Running, Used
<1>8. CatchUp'
  BY <1>2, <1>5 DEF CatchUp, Running
<1> QED
  BY <1>6, <1>7, <1>8 DEF Settled

(* Recovery starts from the rows on disk, and drops or moves the stale ones. *)
LEMMA RecoverySettled ==
  ASSUME CancelInv, NEW t \in ReadBefore, RecoverPersisted(t) \/ RecoveryCutShort(t)
  PROVE  Settled'
<1>1. t \in Nat /\ OccurrenceInv /\ TypeOK
  BY DEF ReadBefore, CancelInv, OccurrenceInv, TypeOK, ProcessTyped
<1>2. schedule = NoJobs /\ loaded = disk /\ orphans = {}
  BY DEF RecoverPersisted, RecoveryCutShort, CancelInv, Before, Running
<1>3. Gone
  BY DEF CancelInv, Settled
<1>4. ASSUME NEW j \in Jobs, Recoverable(j), Recovered(j, t) # None
      PROVE  Recovered(j, t).gen \notin acked
  BY <1>1, <1>2, <1>3, <1>4, RecoveredLater, EntryFacts DEF Gone
<1>5. CASE RecoveryCutShort(t)
  <2>1. /\ schedule' = NoJobs /\ orphans' = {} /\ op'.kind = "free" /\ ~Running'
        /\ UNCHANGED <<gens, acked>>
    BY <1>5 DEF RecoveryCutShort, Forget, Running, Free
  <2>2. \A j \in Jobs : disk'[j] = disk[j] \/ (Recoverable(j) /\ disk'[j] = Recovered(j, t))
    BY <1>5 DEF RecoveryCutShort, Expired
  <2>3. Gone'
    BY <1>3, <1>4, <2>1, <2>2 DEF Gone, NoJobs
  <2> QED
    BY <2>1, <2>3 DEF Settled, DiskFollows, CatchUp
<1>6. CASE RecoverPersisted(t)
  <2>1. /\ orphans' = {} /\ op'.kind = "free" /\ booted' = [at |-> t, gens |-> gens]
        /\ UNCHANGED <<gens, acked>>
    BY <1>2, <1>6 DEF RecoverPersisted, Free
  <2>2. \A j \in Jobs : Recoverable(j) <=> disk[j] # None
    BY <1>2 DEF Recoverable, NoJobs
  <2>3. \A j \in Jobs : schedule'[j] = IF disk[j] # None THEN Recovered(j, t) ELSE None
    BY <1>2, <1>6, <2>2 DEF RecoverPersisted, NoJobs
  <2>4. \A j \in Jobs : disk'[j] = schedule'[j]
    BY <1>2, <1>6, <2>2, <2>3 DEF RecoverPersisted, Expired, Recovered
  <2>5. Gone'
    BY <1>3, <1>4, <2>1, <2>2, <2>3, <2>4 DEF Gone
  <2>6. DiskFollows'
    BY <2>4 DEF DiskFollows
  <2>7. ASSUME NEW j \in Jobs, schedule'[j] # None, schedule'[j].next # None
        PROVE  schedule'[j].next + Window >= t
    <3>1. disk[j] # None /\ schedule'[j] = Recovered(j, t) /\ Recoverable(j)
      BY <2>2, <2>3, <2>7
    <3>2. CASE recover(loaded[j], t) = "expired"
      <4>1. /\ Recovered(j, t).next = loaded[j].next
               \/ (Recovered(j, t).next \in Nat /\ t < Recovered(j, t).next)
            /\ Recovered(j, t) \in Entry
        BY <1>1, <2>7, <3>1, RecoveredLater
      <4>2. loaded[j].next \in Nat /\ loaded[j].spec \in ValidSpecs
        BY <1>1, <3>1, <3>2, TableFacts, EntryFacts DEF recover, Recoverable
      <4> DEFINE n == next_run(loaded[j].spec, loaded[j].next, t)
      <4>3. n \in Nat \cup {None} /\ (n # None => n > t)
        BY <1>1, <4>2, OccurrenceTypes
      <4>4. loaded[j] \in Entry
        BY <1>1, <3>1, TableFacts DEF Recoverable
      <4>5. n # None /\ Recovered(j, t) = [loaded[j] EXCEPT !.next = n]
        BY <2>7, <3>1, <3>2 DEF Recovered
      <4> HIDE DEF n
      <4>6. schedule'[j].next = n
        BY <3>1, <4>4, <4>5 DEF Entry
      <4> QED
        BY <1>1, <4>3, <4>5, <4>6, SchedulerConstants
    <3>3. CASE recover(loaded[j], t) # "expired"
      <4>1. schedule'[j] = loaded[j] /\ loaded[j].next \in Nat
        BY <1>1, <2>7, <3>1, <3>3, TableFacts, EntryFacts DEF Recovered, Recoverable
      <4>2. loaded[j].next > t \/ t - loaded[j].next <= Window
        BY <2>7, <3>3, <4>1, SchedulerConstants DEF recover
      <4> QED
        BY <1>1, <4>1, <4>2, SchedulerConstants
    <3> QED
      BY <3>2, <3>3
  <2>8. CatchUp'
    <3>1. booted'.gens = gens /\ booted'.at = t /\ gens \in Nat
      BY <1>1, <2>1, TableFacts
    <3> QED
      BY <2>1, <2>7, <3>1 DEF CatchUp
  <2> QED
    BY <2>5, <2>6, <2>8 DEF Settled
<1> QED
  BY <1>5, <1>6

(* The recorded row is the scheduled definition's. *)
LEMMA ClaimSettled ==
  ASSUME CancelInv, NEW j \in Jobs, Claim(j) PROVE Settled'
<1>1. UNCHANGED <<schedule, orphans, fired, gens, acked, booted, phase>> /\ OccurrenceInv /\ TypeOK
  BY DEF Claim, CancelInv, OccurrenceInv
<1>2. CASE Idle
  BY <1>1, <1>2, IdleSettled DEF Running
<1>3. CASE schedule[j] \in Entry /\ \E a \in Entry : Advances(j, a)
  <2>1. PICK a \in Entry : Advances(j, a)
    BY <1>3
  <2>2. /\ a # None /\ schedule[j] # None /\ a.gen = schedule[j].gen
        /\ op'.kind = "claim" /\ op'.entry = a /\ drv'.pc = "due"
        /\ disk'[j] \in {None, a, disk[j]} /\ \A i \in Jobs \ {j} : disk'[i] = disk[i]
    BY <1>3, <2>1, EntryFacts DEF Advances
  <2>3. Gone /\ DiskFollows /\ CatchUp
    BY DEF CancelInv, Settled
  <2>4. Gone'
    BY <1>1, <2>2, <2>3 DEF Gone
  <2>5. DiskFollows'
    BY <1>1, <2>2, <2>3 DEF DiskFollows, Running
  <2>6. CatchUp'
    BY <1>1, <2>2, <2>3 DEF CatchUp, Running
  <2> QED
    BY <2>4, <2>5, <2>6 DEF Settled
<1> QED
  BY <1>1, <1>2, <1>3, ClaimFacts

(* Memory takes the row, or forgets a spent definition whose row is gone. *)
LEMMA FinishClaimSettled ==
  ASSUME CancelInv, FinishClaim PROVE Settled'
<1> DEFINE j == op.job
           e == op.entry
<1>1. OccurrenceInv /\ UNCHANGED <<acked, booted, phase>>
  BY DEF CancelInv, FinishClaim
<1>2. /\ op.kind = "claim" /\ j \in Jobs /\ e \in Entry /\ e # None /\ op.due \in Nat /\ op.due # None
      /\ op'.kind = "free" /\ drv.pc = "due" /\ drv.at \in Nat
      /\ schedule'[j] = IF e.next = None THEN None ELSE e
      /\ \A i \in Jobs \ {j} : schedule'[i] = schedule[i]
      /\ UNCHANGED <<disk, orphans, drv, gens>>
  BY <1>1, FinishFacts
<1>3. fired' = fired \/ \E f : fired' = fired \cup {f} /\ f.gen = e.gen
  BY <1>1, FinishFacts
<1>4. /\ schedule[j] # None /\ schedule[j].gen = e.gen
      /\ schedule[j].next = op.due /\ op.due <= drv.at
      /\ e.next # None => e.next > drv.at
      /\ disk[j] # None /\ disk[j].gen = e.gen => disk[j] = e /\ e.next # None
  BY <1>1, FinishFacts
<1>5. Gone /\ DiskFollows /\ CatchUp
  BY DEF CancelInv, Settled
<1> HIDE DEF j, e
<1>6. e.gen \notin acked
  BY <1>2, <1>5 DEF Gone, e
<1>7. Gone'
  BY <1>1, <1>2, <1>5, <1>6 DEF Gone
<1>8. DiskFollows'
  <2> SUFFICES ASSUME Running, NEW i \in Jobs, disk[i] # None
               PROVE  \/ schedule'[i] # None /\ schedule'[i].gen = disk[i].gen
                      \/ /\ \A f \in fired' : f.gen # disk[i].gen
                         /\ drv.pc = "marked" => drv.copy.entry.gen # disk[i].gen
    BY <1>1, <1>2 DEF DiskFollows, Running
  <2>1. \/ schedule[i] # None /\ schedule[i].gen = disk[i].gen
        \/ \A f \in fired : f.gen # disk[i].gen
    BY <1>5 DEF DiskFollows
  <2>2. CASE i # j
    <3>1. disk[i].gen # e.gen
      BY <1>1, <1>2, <1>4, <2>2, SameHome
    <3> QED
      BY <1>2, <1>3, <2>1, <2>2, <3>1
  <2>3. CASE i = j
    <3>1. CASE disk[j].gen = e.gen
      BY <1>2, <1>4, <2>3, <3>1
    <3>2. CASE disk[j].gen # e.gen
      BY <1>2, <1>3, <1>4, <2>1, <2>3, <3>2
    <3> QED
      BY <3>1, <3>2
  <2> QED
    BY <2>2, <2>3
<1>9. CatchUp'
  <2> SUFFICES ASSUME Running, NEW i \in Jobs, schedule'[i] # None, schedule'[i].gen <= booted.gens,
                      schedule'[i].next # None
               PROVE  schedule'[i].next + Window >= booted.at
    BY <1>1, <1>2, <1>5 DEF CatchUp, Running
  <2>1. CASE i # j
    BY <1>2, <1>5, <2>1 DEF CatchUp
  <2>2. CASE i = j
    <3>1. schedule'[j] = e /\ e.next # None /\ e.next \in Nat
      BY <1>2, <2>2, EntryFacts
    <3>2. op.due + Window >= booted.at
      BY <1>2, <1>4, <1>5, <2>2, <3>1 DEF CatchUp
    <3>3. booted.at \in Nat
      BY <1>1 DEF OccurrenceInv, TypeOK, ProcessTyped
    <3> QED
      BY <1>2, <1>4, <2>2, <3>1, <3>2, <3>3, SchedulerConstants
  <2> QED
    BY <2>1, <2>2
<1> QED
  BY <1>7, <1>8, <1>9 DEF Settled

(* An event fires definitions that are scheduled, or were when they were copied. *)
LEMMA EventSettled ==
  ASSUME CancelInv, DispatchEvent \/ \E j \in Jobs : MarkEvent(j) PROVE Settled'
<1>1. UNCHANGED <<schedule, disk, orphans, op, gens, acked, booted, phase>> /\ OccurrenceInv
  BY DEF DispatchEvent, MarkEvent, CancelInv
<1>2. Gone /\ DiskFollows /\ CatchUp /\ drv \in DriverState
  BY DEF CancelInv, Settled, OccurrenceInv, TypeOK, DriverTyped
<1>3. Gone' /\ CatchUp'
  BY <1>1, <1>2 DEF Gone, CatchUp, Running
<1>4. ASSUME NEW j \in Jobs, MarkEvent(j) PROVE DiskFollows'
  <2>1. fired' = fired
    BY <1>4 DEF MarkEvent
  <2>2. drv'.pc = "event" \/ (schedule[j] # None /\ drv'.copy.entry = schedule[j])
    BY <1>2, <1>4 DEF MarkEvent, DriverState
  <2> QED
    BY <1>1, <1>2, <2>1, <2>2, SameHome DEF DiskFollows, Running
<1>5. CASE DispatchEvent
  <2>1. /\ drv.copy.entry \in Entry /\ drv.copy.job \in Jobs /\ drv.at \in Nat
        /\ drv.pc = "marked"
    BY <1>1, <1>5, TableFacts DEF DispatchEvent, OccurrenceInv
  <2>2. fired' = fired \/ \E f : fired' = fired \cup {f} /\ f.gen = drv.copy.entry.gen
    <3>1. Dispatch(drv.copy.entry, drv.copy.job, drv.at, "event")
      BY <1>5 DEF DispatchEvent
    <3> QED
      BY <2>1, <3>1, Dispatched
  <2>3. drv'.pc = "event"
    BY <1>2, <1>5 DEF DispatchEvent, DriverState
  <2>4. ASSUME Running, NEW i \in Jobs, disk[i] # None
        PROVE  \/ schedule[i] # None /\ schedule[i].gen = disk[i].gen
               \/ \A f \in fired' : f.gen # disk[i].gen
    <3>1. CASE schedule[i] # None /\ schedule[i].gen = disk[i].gen
      BY <3>1
    <3>2. CASE /\ \A f \in fired : f.gen # disk[i].gen
               /\ drv.copy.entry.gen # disk[i].gen
      BY <2>2, <3>2
    <3> QED
      BY <1>2, <2>1, <2>4, <3>1, <3>2 DEF DiskFollows
  <2>5. Running' <=> Running
    BY <1>1 DEF Running
  <2> QED
    BY <1>1, <1>3, <2>3, <2>4, <2>5 DEF Settled, DiskFollows
<1> QED
  BY <1>3, <1>4, <1>5 DEF Settled

(* One step per action. *)
LEMMA SettledStep ==
  ASSUME CancelInv, [Next]_vars, EarlyCalls = FALSE PROVE Settled'
<1>1. CASE Idle /\ UNCHANGED <<acked, booted>> /\ (Running' => Running)
  BY <1>1, IdleSettled
<1>2. CASE Callers
  <2>1. ASSUME NEW p \in Principals, NEW j \in Jobs, BeginCancel(p, j) PROVE Settled'
    BY <1>1, <2>1 DEF BeginCancel, Idle, Free, Running
  <2> QED
    BY <1>2, <2>1, BeginScheduleSettled DEF Callers
<1>3. CASE Commits
  <2>1. CASE StoreRefuses
    BY <1>1, <2>1 DEF StoreRefuses, Idle, Free, Running
  <2> QED
    BY <1>3, <2>1, CommitScheduleSettled, CommitCancelSettled, AbandonSettled DEF Commits
<1>4. CASE Process
  <2>1. Gone
    BY DEF CancelInv, Settled
  <2>2. CASE Boot \/ Stop
    BY <1>1, <2>2 DEF Boot, Stop, Idle, Running
  <2>3. CASE Load
    BY <2>1, <2>3 DEF Load, Settled, Gone, DiskFollows, CatchUp, Running
  <2>4. CASE Crash \/ Exit
    <3>1. /\ schedule' = NoJobs /\ op'.kind = "free" /\ orphans' = {} /\ ~Running'
          /\ UNCHANGED <<disk, acked, gens>>
      BY <2>4 DEF Crash, Exit, Forget, Running, Free
    <3>2. Gone'
      BY <2>1, <3>1 DEF Gone, NoJobs
    <3> QED
      BY <3>1, <3>2 DEF Settled, DiskFollows, CatchUp
  <2> QED
    BY <1>4, <2>2, <2>3, <2>4, RecoverySettled DEF Process
<1>5. CASE Driver
  <2>1. CASE \/ \E d \in {schedule[j].next : j \in Timed} \cup {None} : Horizon(d)
             \/ WokeCancelled \/ WokeRescheduled
             \/ \E t \in ReadBefore : WokeDue(t) \/ WokeEvent(t)
             \/ PassDone \/ BackoffOver
    BY <1>1, <2>1, DriverIdles DEF CancelInv
  <2> QED
    BY <1>5, <2>1, ClaimSettled, FinishClaimSettled, EventSettled DEF Driver
<1>6. CASE Environment
  <2>1. CASE Tick \/ Publish \/ \E f \in live : RunEnds(f)
    BY <1>1, <2>1 DEF Tick, Publish, RunEnds, Idle, Running
  <2> QED
    BY <1>6, <2>1, OrphanLandsSettled DEF Environment
<1>7. CASE UNCHANGED vars
  BY <1>1, <1>7 DEF vars, Idle, Running
<1> QED
  BY <1>2, <1>3, <1>4, <1>5, <1>6, <1>7 DEF Next

(* cancel() asks the timed firing it found, and none can start behind it. *)
LEMMA ReachesStep ==
  ASSUME CancelInv, [Next]_vars PROVE CancelReachesFiring'
<1>0. /\ TypeOK /\ OccurrenceInv /\ live \subseteq fired /\ CancelReachesFiring /\ Gone
      /\ \A f \in live : f.job \in Jobs
  BY DEF CancelInv, OccurrenceInv, ExclusionInv, RunsDistinct, Settled, TypeOK, FiringsTyped, Firing
<1>1. CASE live' = {} \/ (UNCHANGED <<live, acked>> /\ asked \subseteq asked')
  BY <1>0, <1>1 DEF CancelReachesFiring
<1>2. CASE FinishClaim
  <2>1. op.kind = "claim" /\ op.entry \in Entry /\ op.job \in Jobs /\ op.due \in Nat
    BY <1>0, <1>2, FinishFacts
  <2>2. \/ UNCHANGED <<slot, live, asked, fired, runs>>
        \/ \E f : f.gen = op.entry.gen /\ live' = live \cup {f} /\ asked \subseteq asked'
    BY <1>0, <1>2, <2>1, DispatchSlot DEF FinishClaim
  <2>3. op.entry.gen \notin acked /\ acked' = acked
    BY <1>0, <1>2, <2>1 DEF Gone, FinishClaim
  <2> QED
    BY <1>0, <2>2, <2>3 DEF CancelReachesFiring
<1>3. CASE DispatchEvent
  <2>1. drv.copy.entry \in Entry /\ drv.copy.job \in Jobs /\ drv.at \in Nat
    BY <1>0, <1>3, TableFacts DEF DispatchEvent
  <2>2. \/ UNCHANGED <<slot, live, asked, fired, runs>>
        \/ \E f : f.by = "event" /\ live' = live \cup {f} /\ asked \subseteq asked'
    BY <1>0, <1>3, <2>1, DispatchSlot DEF DispatchEvent
  <2>3. acked' = acked
    BY <1>3 DEF DispatchEvent
  <2> QED
    BY <1>0, <2>2, <2>3 DEF CancelReachesFiring
<1>4. CASE CommitCancel
  <2> SUFFICES ASSUME NEW f \in live, f.by = "time", f.gen \in acked' PROVE f.run \in asked'
    BY <1>4 DEF CommitCancel, CancelReachesFiring
  <2>1. CASE f.gen \in acked
    BY <1>0, <1>4, <2>1 DEF CommitCancel, CancelReachesFiring
  <2>2. CASE f.job = op.job
    <3>1. f.run = op.run
      BY <1>4, <2>2 DEF CancelInv, CancelHeld, CommitCancel
    <3> QED
      BY <1>4, <3>1 DEF CommitCancel
  <2>3. CASE schedule[op.job] # None /\ f.gen = schedule[op.job].gen
    <3>1. op.job \in Jobs
      BY <1>0, <1>4, TableFacts DEF CommitCancel
    <3> QED
      BY <1>0, <2>2, <2>3, <3>1, SameHome
  <2>4. ASSUME NEW g \in fired, g.run = op.run, f.gen = g.gen PROVE f.job = op.job
    <3>1. g.job = op.job
      BY <1>4, <2>4 DEF CancelInv, CancelHeld, CommitCancel
    <3> QED
      BY <1>0, <2>4, <3>1, SameHome
  <2> QED
    BY <1>4, <2>1, <2>2, <2>3, <2>4 DEF CommitCancel
<1>5. ASSUME NEW f \in live, RunEnds(f) PROVE CancelReachesFiring'
  <2>1. /\ live' = live \ {f} /\ asked' = asked \ {f.run} /\ acked' = acked
    BY <1>5 DEF RunEnds
  <2>2. \A g \in live \ {f} : g.run # f.run
    BY <1>0 DEF CancelInv, ExclusionInv, RunsDistinct
  <2> QED
    BY <1>0, <2>1, <2>2 DEF CancelReachesFiring
<1>6. CASE Callers \/ Commits
  BY <1>1, <1>4, <1>6 DEF Callers, Commits, BeginSchedule, BeginCancel, CommitSchedule,
                          StoreRefuses, Abandon
<1>7. CASE Process
  BY <1>1, <1>7 DEF Process, Boot, Load, RecoverPersisted, RecoveryCutShort, Crash,
                    Stop, Exit, Forget
<1>8. CASE Driver
  BY <1>1, <1>2, <1>3, <1>8
     DEF Driver, Horizon, WokeCancelled, WokeRescheduled, WokeDue, WokeEvent, Claim,
         MarkEvent, PassDone, BackoffOver
<1>9. CASE Environment
  BY <1>1, <1>5, <1>9 DEF Environment, OrphanLands, Tick, Publish
<1>10. CASE UNCHANGED vars
  BY <1>1, <1>10 DEF vars
<1> QED
  BY <1>6, <1>7, <1>8, <1>9, <1>10 DEF Next

(* The invariant is inductive when calls wait for start(). *)
LEMMA CancelStep ==
  ASSUME EarlyCalls = FALSE PROVE CancelInv /\ [Next]_vars => CancelInv'
<1> SUFFICES ASSUME CancelInv, [Next]_vars PROVE CancelInv'
  OBVIOUS
<1> QED
  BY OccurrenceStep, ExclusionStep, SlotStep, CancelHeldStep, BeforeStep, SettledStep, ReachesStep
     DEF CancelInv

(* Nothing was cancelled at first. *)
LEMMA InitCancel == Init => CancelInv
<1> SUFFICES ASSUME Init PROVE CancelInv
  OBVIOUS
<1>1. OccurrenceInv /\ ExclusionInv
  BY InitOccurrences, InitTyped DEF Init, ExclusionInv, RunsDistinct, Exclusion
<1>2. SlotHeld /\ CancelHeld /\ Before /\ CancelReachesFiring
  BY DEF Init, SlotHeld, CancelHeld, Before, CancelReachesFiring, NoJobs, Free
<1>3. Settled
  BY DEF Init, Settled, Gone, DiskFollows, CatchUp, Running, NoJobs, Free
<1> QED
  BY <1>1, <1>2, <1>3 DEF CancelInv

(* Which firings a step adds, and what the entry it fires looked like. *)
LEMMA NewFirings ==
  ASSUME CancelInv, [Next]_vars, NEW f \in fired' \ fired, f.by = "time"
  PROVE  /\ phase' = phase /\ Running /\ booted' = booted
         /\ f.gen \notin acked
         /\ f.gen <= booted.gens => f.due + Window >= booted.at
<1>0. OccurrenceInv /\ Gone /\ CatchUp
  BY DEF CancelInv, Settled
<1>1. CASE FinishClaim
  <2>1. /\ f.gen = op.entry.gen /\ f.due = op.due
        /\ op.kind = "claim" /\ op.job \in Jobs /\ drv.pc = "due" /\ op.due # None
        /\ schedule[op.job] # None /\ schedule[op.job].gen = op.entry.gen
        /\ schedule[op.job].next = op.due
    BY <1>0, <1>1, FinishFacts
  <2>2. Running
    BY <1>0, <2>1 DEF OccurrenceInv, ProcessInv
  <2> QED
    BY <1>0, <1>1, <2>1, <2>2 DEF FinishClaim, Gone, CatchUp
<1>2. CASE DispatchEvent
  <2>1. drv.copy.entry \in Entry /\ drv.copy.job \in Jobs /\ drv.at \in Nat
    BY <1>0, <1>2, TableFacts DEF DispatchEvent, OccurrenceInv
  <2>2. \/ fired' = fired
        \/ \E g : fired' = fired \cup {g} /\ g.by = "event"
    <3>1. Dispatch(drv.copy.entry, drv.copy.job, drv.at, "event")
      BY <1>2 DEF DispatchEvent
    <3> QED
      BY <2>1, <3>1, Dispatched
  <2> QED
    BY <2>2
<1>3. CASE fired' = fired
  BY <1>3
<1> QED
  BY <1>1, <1>2, <1>3
     DEF Next, Callers, Commits, BeginSchedule, BeginCancel, CommitSchedule, CommitCancel,
         StoreRefuses, Abandon, Process, Boot, Load, RecoverPersisted, RecoveryCutShort, Crash,
         Stop, Exit, Forget, Driver, Horizon, WokeCancelled, WokeRescheduled, WokeDue, WokeEvent,
         Claim, MarkEvent, PassDone, BackoffOver, Environment, OrphanLands, RunEnds, Tick,
         Publish, vars

(* When calls wait for start(), no timed occurrence of a definition starts once cancel() has
   returned Ok(true) for it, whatever crashes, restarts and dropped callers follow. *)
THEOREM CancelledForGood ==
  ASSUME EarlyCalls = FALSE PROVE Spec => CancelledStaysCancelled
<1>1. CancelInv /\ [Next]_vars
        => [\A f \in fired' \ fired : f.by = "time" => f.gen \notin acked]_vars
  BY NewFirings
<1> QED
  BY <1>1, InitCancel, CancelStep, PTL DEF Spec, CancelledStaysCancelled

(* When calls wait for start(), a process never runs an occurrence that was older than the
   catch-up window when recover() saw it. *)
THEOREM StaleDropped ==
  ASSUME EarlyCalls = FALSE PROVE Spec => StaleNeverRuns
<1>1. CancelInv /\ [Next]_vars
        => [\A f \in fired' \ fired :
              f.by = "time" /\ f.gen <= booted.gens => f.due + Window >= booted.at]_vars
  BY NewFirings
<1> QED
  BY <1>1, InitCancel, CancelStep, PTL DEF Spec, StaleNeverRuns

---------------------------------------------------------------------------
(* Memory and disk.  Between the halves of claim() the row is one step ahead. *)

MirrorHeld ==
  /\ orphans = {}
  /\ Running => \A j \in Jobs : disk[j] =
       IF op.kind = "claim" /\ op.job = j
       THEN (IF op.entry.next = None THEN None ELSE RowOf(op.entry))
       ELSE RowOf(schedule[j])

(* With no dropped caller, every commit writes what memory then holds. *)
LEMMA MirrorStep ==
  ASSUME Abandonable = FALSE, EarlyCalls = FALSE, CancelInv, MirrorHeld, [Next]_vars
  PROVE  MirrorHeld'
<1>0. OccurrenceInv /\ TypeOK /\ Before
  BY DEF CancelInv, OccurrenceInv
<1>1. orphans' = {}
  BY DEF MirrorHeld, Next, Callers, Commits, BeginSchedule, BeginCancel, CommitSchedule, CommitCancel,
         StoreRefuses, Abandon, Process, Boot, Load, RecoverPersisted, RecoveryCutShort, Crash,
         Stop, Exit, Forget, Driver, Horizon, WokeCancelled, WokeRescheduled, WokeDue, WokeEvent,
         Claim, FinishClaim, MarkEvent, DispatchEvent, PassDone, BackoffOver, Environment,
         OrphanLands, RunEnds, Tick, Publish, vars
<1>2. CASE ~Running'
  BY <1>1, <1>2 DEF MirrorHeld
<1>3. CASE /\ Running' => Running
           /\ UNCHANGED <<schedule, disk>>
           /\ op' = op \/ (op.kind # "claim" /\ op'.kind # "claim")
  BY <1>1, <1>3 DEF MirrorHeld, RowOf, IsPersistent
<1>4. CASE Callers
  <2>1. op.kind = "free" /\ op'.kind # "claim" /\ UNCHANGED <<schedule, disk, phase>>
    <3>1. ASSUME NEW p \in Principals, NEW j \in Jobs, BeginCancel(p, j)
          PROVE  op.kind = "free" /\ op'.kind = "cancel" /\ UNCHANGED <<schedule, disk, phase>>
      BY <3>1 DEF BeginCancel, Free
    <3>2. ASSUME NEW p \in Principals, NEW j \in Jobs, NEW s \in Specs, NEW t \in ReadBefore,
                 BeginSchedule(p, j, s, t)
          PROVE  op.kind = "free" /\ op'.kind = "schedule" /\ UNCHANGED <<schedule, disk, phase>>
      BY <3>2 DEF BeginSchedule, Free
    <3> QED
      BY <1>4, <3>1, <3>2 DEF Callers
  <2> QED
    BY <1>3, <2>1 DEF Running
<1>5. CASE Commits
  <2>1. CASE StoreRefuses
    BY <1>3, <2>1 DEF StoreRefuses, Free, Running
  <2>2. CASE CommitSchedule \/ CommitCancel
    <3> DEFINE j == op.job
    <3>1. /\ op.kind # "claim" /\ op'.kind = "free" /\ phase' = phase /\ j \in Jobs
          /\ op.entry \in Entry \cup {None}
      BY <1>0, <2>2, TableFacts DEF CommitSchedule, CommitCancel, Free
    <3>2. /\ schedule'[j] = op.entry
          /\ disk'[j] = IF NeedsWrite(op) THEN RowOf(op.entry) ELSE disk[j]
          /\ \A i \in Jobs \ {j} : schedule'[i] = schedule[i] /\ disk'[i] = disk[i]
      BY <1>0, <2>2, <3>1, TableFacts DEF CommitSchedule, CommitCancel
    <3>3. IsPersistent(op.entry) => HasStore
      BY <3>1, EntryFacts DEF IsPersistent, ValidSpecs, validate
    <3>4. ~NeedsWrite(op) => RowOf(op.entry) = None /\ (disk[j] # None => ~IsPersistent(schedule[j]))
      BY <1>0, <3>1, <3>3, RowNeedsStore DEF NeedsWrite, RowOf
    <3>5. Running => \A i \in Jobs : disk[i] = RowOf(schedule[i])
      BY <3>1 DEF MirrorHeld
    <3>6. Running => disk'[j] = RowOf(schedule'[j])
      BY <3>1, <3>2, <3>4, <3>5 DEF RowOf
    <3>7. Running => \A i \in Jobs : disk'[i] = RowOf(schedule'[i])
      BY <3>2, <3>5, <3>6
    <3> QED
      BY <1>1, <3>1, <3>7 DEF MirrorHeld, Running, RowOf, IsPersistent
  <2>3. CASE Abandon
    BY <2>3 DEF Abandon
  <2> QED
    BY <1>5, <2>1, <2>2, <2>3 DEF Commits
<1>6. CASE Process
  <2>1. CASE Stop
    BY <1>3, <2>1 DEF Stop, Running
  <2>2. ASSUME NEW t \in ReadBefore, RecoverPersisted(t) PROVE MirrorHeld'
    <3>1. schedule = NoJobs /\ loaded = disk /\ op' = Free /\ t \in Nat
      BY <1>0, <2>2 DEF RecoverPersisted, Before, Running, ReadBefore, TypeOK, ProcessTyped
    <3>2. \A j \in Jobs : Recoverable(j) <=> disk[j] # None
      BY <3>1 DEF Recoverable, NoJobs
    <3>3. \A j \in Jobs : schedule'[j] = IF disk[j] # None THEN Recovered(j, t) ELSE None
      BY <2>2, <3>1, <3>2 DEF RecoverPersisted, NoJobs
    <3>4. \A j \in Jobs : disk'[j] = schedule'[j]
      BY <2>2, <3>1, <3>2, <3>3 DEF RecoverPersisted, Expired, Recovered
    <3>5. ASSUME NEW j \in Jobs, disk[j] # None, Recovered(j, t) # None
          PROVE  Recovered(j, t).spec.persistent
      <4>1. Recovered(j, t).spec = disk[j].spec
        BY <1>0, <3>1, <3>2, <3>5, RecoveredLater
      <4> QED
        BY <1>0, <3>5, <4>1 DEF OccurrenceInv, RowsPersistent, IsRow
    <3>6. \A j \in Jobs : disk'[j] = RowOf(schedule'[j])
      BY <3>3, <3>4, <3>5 DEF RowOf, IsPersistent
    <3> QED
      BY <1>1, <3>1, <3>6 DEF MirrorHeld, Free, RowOf, IsPersistent
  <2>3. CASE Boot \/ Load \/ Crash \/ Exit \/ \E t \in ReadBefore : RecoveryCutShort(t)
    BY <1>2, <2>3 DEF Boot, Load, Crash, Exit, RecoveryCutShort, Forget, Running
  <2> QED
    BY <1>6, <2>1, <2>2, <2>3 DEF Process
<1>7. CASE Driver
  <2>1. ASSUME NEW j \in Jobs, Claim(j) PROVE MirrorHeld'
    <3>1. op.kind = "free" /\ UNCHANGED <<schedule, phase>>
      BY <2>1 DEF Claim, Free
    <3>2. CASE UNCHANGED <<op, disk>>
      BY <1>3, <3>1, <3>2 DEF Running
    <3>3. CASE schedule[j] \in Entry /\ \E a \in Entry : Advances(j, a)
      <4>1. PICK a \in Entry : Advances(j, a)
        BY <3>3
      <4>2. Running => \A i \in Jobs : disk[i] = RowOf(schedule[i])
        BY <3>1 DEF MirrorHeld
      <4>3. /\ a # None /\ a.spec = schedule[j].spec /\ schedule[j] # None
            /\ (IsPersistent(schedule[j]) => HasStore)
        BY <3>3, <4>1, EntryFacts DEF Advances, IsPersistent, ValidSpecs, validate
      <4>4. Running => disk'[j] = IF a.next = None THEN None ELSE RowOf(a)
        BY <4>1, <4>2, <4>3 DEF Advances, RowOf, IsPersistent
      <4>5. op'.kind = "claim" /\ op'.job = j /\ op'.entry = a /\ \A i \in Jobs \ {j} : disk'[i] = disk[i]
        BY <4>1 DEF Advances
      <4> QED
        BY <1>1, <3>1, <4>2, <4>4, <4>5 DEF MirrorHeld, Running, RowOf, IsPersistent
    <3>4. CASE Idle
      <4>1. op' = op \/ op'.kind \in {"free", "cancel"}
        BY <3>4 DEF Idle
      <4> QED
        BY <1>3, <3>1, <3>4, <4>1 DEF Idle, Running
    <3> QED
      BY <1>0, <2>1, <3>3, <3>4, ClaimFacts
  <2>2. CASE FinishClaim
    <3> DEFINE j == op.job
    <3>1. /\ op.kind = "claim" /\ j \in Jobs /\ op'.kind = "free" /\ disk' = disk /\ phase' = phase
          /\ schedule'[j] = IF op.entry.next = None THEN None ELSE op.entry
          /\ \A i \in Jobs \ {j} : schedule'[i] = schedule[i]
      BY <1>0, <2>2, FinishFacts DEF FinishClaim
    <3>2. Running => disk[j] = RowOf(schedule'[j])
      BY <3>1 DEF MirrorHeld, RowOf, IsPersistent
    <3>3. Running => \A i \in Jobs : disk[i] = RowOf(schedule'[i])
      BY <3>1, <3>2 DEF MirrorHeld
    <3> QED
      BY <1>1, <3>1, <3>3 DEF MirrorHeld, Running, RowOf, IsPersistent
  <2>3. CASE \/ \E d \in {schedule[j].next : j \in Timed} \cup {None} : Horizon(d)
             \/ WokeCancelled \/ WokeRescheduled \/ PassDone \/ BackoffOver
             \/ \E t \in ReadBefore : WokeDue(t) \/ WokeEvent(t)
             \/ DispatchEvent \/ \E j \in Jobs : MarkEvent(j)
    BY <1>3, <2>3 DEF Horizon, WokeCancelled, WokeRescheduled, WokeDue, WokeEvent,
         MarkEvent, DispatchEvent, PassDone, BackoffOver, Running
  <2> QED
    BY <1>7, <2>1, <2>2, <2>3 DEF Driver
<1>8. CASE Environment
  <2>1. CASE OrphanLands
    BY <2>1 DEF OrphanLands, MirrorHeld
  <2>2. CASE Tick \/ Publish \/ \E f \in live : RunEnds(f)
    BY <1>3, <2>2 DEF Tick, Publish, RunEnds, Running
  <2> QED
    BY <1>8, <2>1, <2>2 DEF Environment
<1>9. CASE UNCHANGED vars
  BY <1>3, <1>9 DEF vars, Running
<1> QED
  BY <1>4, <1>5, <1>6, <1>7, <1>8, <1>9 DEF Next

(* When calls wait for start() and callers wait for their writes, memory and disk hold the
   same definitions whenever the mutex is free, and cancel() reaches every timed firing of
   what it cancelled. *)
THEOREM TablesHonest ==
  ASSUME EarlyCalls = FALSE, Abandonable = FALSE PROVE Spec => []TableIsHonest
<1>1. Init => CancelInv /\ MirrorHeld
  BY InitCancel DEF Init, MirrorHeld, Running
<1>2. (CancelInv /\ MirrorHeld) /\ [Next]_vars => (CancelInv /\ MirrorHeld)'
  BY CancelStep, MirrorStep
<1>3. CancelInv /\ MirrorHeld => TableIsHonest
  BY DEF CancelInv, OccurrenceInv, MirrorHeld, TableIsHonest, Mirror, Running, Free
<1> QED
  BY <1>1, <1>2, <1>3, PTL DEF Spec

============================================================================
