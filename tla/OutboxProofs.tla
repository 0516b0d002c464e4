---------------------------- MODULE OutboxProofs ----------------------------
(***************************************************************************)
(* Proofs about Outbox, for any sets of events and of job ids and any      *)
(* limits on tries, retries and faults.                                    *)
(***************************************************************************)
EXTENDS Outbox, TLAPS

-----------------------------------------------------------------------------
(* The inductive invariant                                                 *)

Publishing == Listeners \cup {"mark"}   \* past the read of the row

\* Every job, waiting or reserved, is for a stored row, and each attempt it has
\* ended ended in a fault.
JobsAccounted ==
  /\ \A j \in jobs : Stored(j.event) /\ j.tries <= faults[j.event]
  /\ running # Idle => /\ Stored(running.event)
                       /\ running.tries <= faults[running.event] + 1
  /\ \A e \in swept : Stored(e)

\* No row is written before its change is committed.
RowsFollowChanges ==
  \A e \in Events : writer[e] = "before" => row[e] = Absent

\* The row that is being published says so: nobody else writes it meanwhile.
RowIsProcessing ==
  running.step \in Publishing => row[running.event] = "PROCESSING"

\* How often a listener has run for the event in the publication that counts: the
\* one that is under way, or the one that marked the row.
At(e, steps) == running.event = e /\ running.step \in steps

DispatchRuns(e) == IF row[e] = "PUBLISHED" \/ At(e, {"mark"}) THEN 2
                   ELSE IF At(e, {"notify", "discovered"}) THEN 1 ELSE 0

NotifyRuns(e) == IF row[e] = "PUBLISHED" \/ At(e, {"discovered", "mark"}) THEN 1 ELSE 0

\* Beyond those runs there is, for each fault, at most a publication wasted.
EffectsAccounted ==
  \A e \in Events :
    /\ DispatchRuns(e) <= sent[e] /\ sent[e] <= DispatchRuns(e) + 2 * faults[e]
    /\ NotifyRuns(e) <= notified[e] /\ notified[e] <= NotifyRuns(e) + faults[e]

OutboxInv ==
  /\ TypeOK
  /\ RowsFollowChanges
  /\ JobsAccounted
  /\ RowIsProcessing
  /\ EffectsAccounted
  /\ StrandedOnlyByFault

\* The steps of publishById are spelled out wherever they matter.
USE DEF Listeners, Dispatches

-----------------------------------------------------------------------------
(* Type correctness                                                        *)

\* What the worker holds is a reserved job, or nothing.
LEMMA RunningFields ==
  ASSUME running \in Reserved \cup {Idle}
  PROVE  /\ running # Idle <=> running.step # "idle"
         /\ running # Idle => /\ running \in Reserved
                              /\ running.id \in JobIds
                              /\ running.event \in Events
                              /\ running.tries \in 1..MaxTries
                              /\ running.step \in {"read", "mark"} \cup Listeners
BY DEF Reserved, Idle

\* The types survive every step: one case per action.
LEMMA TypeStep == TypeOK /\ [Next]_vars => TypeOK'
<1> SUFFICES ASSUME TypeOK, [Next]_vars PROVE TypeOK'
  OBVIOUS
<1> USE OutboxAssumption DEF TypeOK, writerVars, rowVars, effectVars, OutboxStatus
<1>a. /\ running # Idle <=> running.step # "idle"
      /\ running # Idle => /\ running \in Reserved
                           /\ running.id \in JobIds
                           /\ running.event \in Events
                           /\ running.tries \in 1..MaxTries
  BY RunningFields
<1>b. running # Idle => RunningJob \in Job
  BY <1>a DEF RunningJob, Job
<1>1. CASE UNCHANGED vars
  BY <1>1 DEF vars
<1>2. ASSUME NEW e \in Changes, Change(e) PROVE TypeOK'
  BY <1>2 DEF Change, Events
<1>3. ASSUME NEW e \in Records, Record(e) PROVE TypeOK'
  BY <1>3 DEF Record, Events
<1>4. ASSUME NEW e \in Events, WriterCommits(e) PROVE TypeOK'
  BY <1>4 DEF WriterCommits, AddEvent, Enqueue, Dispatch, NewJob, Job
<1>5. ASSUME NEW e \in Events, WriterCrash(e) PROVE TypeOK'
  BY <1>5 DEF WriterCrash
<1>6. ASSUME NEW e \in Events, SweepDispatches(e) PROVE TypeOK'
  BY <1>6 DEF SweepDispatches, NewJob, Job
<1>7. CASE SweepReads
  BY <1>7 DEF SweepReads
<1>8. ASSUME NEW j \in jobs, ReserveJob(j) PROVE TypeOK'
  BY <1>8 DEF ReserveJob, TriesLeft, Job, Reserved
<1>9. CASE Publish
  <2>1. running # Idle
    BY <1>9, <1>a DEF Publish, PublishReturns, MarkProcessing, DispatchToSocket,
                      CreateNotifications, MarkPublished
  <2> QED
    BY <1>9, <1>a, <2>1 DEF Publish, PublishReturns, MarkProcessing, DispatchToSocket,
                            CreateNotifications, MarkPublished, Reserved
<1>10. CASE PublishFails
  BY <1>10, <1>a, <1>b DEF PublishFails, CountFault, Released
<1>11. CASE WorkerCrash
  BY <1>11, <1>a, <1>b DEF WorkerCrash, CountFault
<1> QED
  BY <1>1, <1>2, <1>3, <1>4, <1>5, <1>6, <1>7, <1>8, <1>9, <1>10, <1>11 DEF Next

\* The initial state is well typed.
LEMMA TypeInit == Init => TypeOK
BY OutboxAssumption DEF Init, TypeOK, OutboxStatus

\* Every reachable state is well typed; in particular no job is ever tried more
\* than MaxTries times.
THEOREM TypeCorrect == Spec => []TypeOK
BY TypeInit, TypeStep, PTL DEF Spec

-----------------------------------------------------------------------------
(* The invariant                                                           *)

\* What an action of the worker works on, when it is in the middle of an event.
LEMMA InTheMiddle ==
  ASSUME OutboxInv, running # Idle
  PROVE  /\ running.event \in Events
         /\ running.tries \in 1..MaxTries
         /\ Stored(running.event)
         /\ running.tries <= faults[running.event] + 1
         /\ \A e \in Events : faults[e] \in Nat /\ sent[e] \in Nat /\ notified[e] \in Nat
BY RunningFields DEF OutboxInv, TypeOK, JobsAccounted

\* Rows keep following the changes.
LEMMA RowsStep == OutboxInv /\ [Next]_vars => RowsFollowChanges'
<1> SUFFICES ASSUME OutboxInv, [Next]_vars PROVE RowsFollowChanges'
  OBVIOUS
<1> USE DEF OutboxInv, TypeOK, RowsFollowChanges, writerVars, rowVars, effectVars
<1>1. CASE UNCHANGED vars
  BY <1>1 DEF vars
<1>2. CASE \E e \in Changes : Change(e)
  BY <1>2 DEF Change
<1>3. CASE \E e \in Records : Record(e)
  BY <1>3 DEF Record
<1>4. CASE \E e \in Events : WriterCommits(e) \/ WriterCrash(e) \/ SweepDispatches(e)
  BY <1>4 DEF WriterCommits, AddEvent, Enqueue, Dispatch, WriterCrash, SweepDispatches
<1>5. CASE SweepReads \/ \E j \in jobs : ReserveJob(j)
  BY <1>5 DEF SweepReads, ReserveJob
<1>6. CASE Publish \/ PublishFails \/ WorkerCrash
  <2>1. running # Idle /\ running.event \in Events /\ Stored(running.event)
    BY <1>6, RunningFields
    DEF Publish, PublishReturns, MarkProcessing, DispatchToSocket, CreateNotifications,
        MarkPublished, PublishFails, WorkerCrash, JobsAccounted
  <2> QED
    BY <1>6, <2>1
    DEF Stored, Publish, PublishReturns, MarkProcessing, DispatchToSocket,
        CreateNotifications, MarkPublished, PublishFails, WorkerCrash
<1> QED
  BY <1>1, <1>2, <1>3, <1>4, <1>5, <1>6 DEF Next

\* Jobs stay accounted for.
LEMMA JobsStep == OutboxInv /\ [Next]_vars => JobsAccounted'
<1> SUFFICES ASSUME OutboxInv, [Next]_vars PROVE JobsAccounted'
  OBVIOUS
<1> USE OutboxAssumption
    DEF OutboxInv, TypeOK, JobsAccounted, Stored, Absent, writerVars, rowVars, effectVars
<1>a. running # Idle => /\ running.event \in Events
                        /\ running.tries \in 1..MaxTries
                        /\ faults[running.event] \in Nat
  BY RunningFields
<1>1. CASE UNCHANGED vars
  BY <1>1 DEF vars
<1>2. ASSUME NEW e \in Changes, Change(e) PROVE JobsAccounted'
  BY <1>2 DEF Change
<1>3. ASSUME NEW e \in Records, Record(e) PROVE JobsAccounted'
  BY <1>3 DEF Record, Events
<1>4. ASSUME NEW e \in Events, WriterCommits(e) PROVE JobsAccounted'
  <2>1. CASE AddEvent(e)
    BY <2>1 DEF AddEvent
  <2>2. CASE Enqueue(e)
    BY <2>2 DEF Enqueue
  <2>3. CASE Dispatch(e)
    <3>1. PICK id \in JobIds : jobs' = jobs \cup {NewJob(id, e)}
      BY <2>3 DEF Dispatch
    <3> QED
      BY <2>3, <3>1 DEF Dispatch, NewJob
  <2> QED
    BY <1>4, <2>1, <2>2, <2>3 DEF WriterCommits
<1>5. ASSUME NEW e \in Events, WriterCrash(e) PROVE JobsAccounted'
  BY <1>5 DEF WriterCrash
<1>6. ASSUME NEW e \in Events, SweepDispatches(e) PROVE JobsAccounted'
  BY <1>6 DEF SweepDispatches, NewJob
<1>7. CASE SweepReads
  BY <1>7 DEF SweepReads
<1>8. ASSUME NEW j \in jobs, ReserveJob(j) PROVE JobsAccounted'
  BY <1>8 DEF ReserveJob, Idle, Job
<1>9. CASE Publish
  <2>1. running # Idle
    BY <1>9, RunningFields DEF Publish, PublishReturns, MarkProcessing, DispatchToSocket,
                               CreateNotifications, MarkPublished
  <2>2. CASE PublishReturns
    BY <2>2 DEF PublishReturns
  <2>3. CASE MarkProcessing
    <3>1. /\ running'.event = running.event
          /\ running'.tries = running.tries
      BY <1>a, <2>1, <2>3, RunningFields DEF MarkProcessing, Reserved
    <3> QED
      BY <1>a, <2>1, <2>3, <3>1 DEF MarkProcessing
  <2>4. CASE DispatchToSocket \/ CreateNotifications
    <3>1. /\ running'.event = running.event
          /\ running'.tries = running.tries
      BY <1>a, <2>1, <2>4, RunningFields DEF DispatchToSocket, CreateNotifications, Reserved
    <3> QED
      BY <1>a, <2>1, <2>4, <3>1 DEF DispatchToSocket, CreateNotifications
  <2>5. CASE MarkPublished
    BY <1>a, <2>1, <2>5 DEF MarkPublished
  <2> QED
    BY <1>9, <2>2, <2>3, <2>4, <2>5 DEF Publish
<1>10. CASE PublishFails
  <2>1. running # Idle
    BY <1>10, RunningFields DEF PublishFails
  <2> QED
    BY <1>10, <1>a, <2>1 DEF PublishFails, CountFault, Released, RunningJob, Job
<1>11. CASE WorkerCrash
  BY <1>11, <1>a DEF WorkerCrash, CountFault, RunningJob, Job
<1> QED
  BY <1>1, <1>2, <1>3, <1>4, <1>5, <1>6, <1>7, <1>8, <1>9, <1>10, <1>11 DEF Next

\* A row that is being published keeps saying so.
LEMMA RowStep == OutboxInv /\ [Next]_vars => RowIsProcessing'
<1> SUFFICES ASSUME OutboxInv, [Next]_vars PROVE RowIsProcessing'
  OBVIOUS
<1> USE DEF OutboxInv, TypeOK, RowIsProcessing, Publishing, writerVars, rowVars, effectVars
<1>a. running.step \in Publishing => running \in Reserved /\ running.event \in Events
  BY RunningFields
<1>1. CASE UNCHANGED vars
  BY <1>1 DEF vars
<1>2. ASSUME NEW e \in Changes, Change(e) PROVE RowIsProcessing'
  BY <1>2 DEF Change
<1>3. ASSUME NEW e \in Records, Record(e) PROVE RowIsProcessing'
  <2>1. running.step \in Publishing => running.event # e
    BY <1>3, RunningFields DEF Record, JobsAccounted, RowsFollowChanges, Stored, Events
  <2> QED
    BY <1>3, <1>a, <2>1 DEF Record, Events
<1>4. ASSUME NEW e \in Events, WriterCommits(e) PROVE RowIsProcessing'
  BY <1>4, <1>a DEF WriterCommits, AddEvent, Enqueue, Dispatch, Absent
<1>5. ASSUME NEW e \in Events, WriterCrash(e) \/ SweepDispatches(e) PROVE RowIsProcessing'
  BY <1>5 DEF WriterCrash, SweepDispatches
<1>6. CASE SweepReads
  BY <1>6 DEF SweepReads
<1>7. ASSUME NEW j \in jobs, ReserveJob(j) PROVE RowIsProcessing'
  BY <1>7 DEF ReserveJob, Idle
<1>8. CASE PublishReturns \/ MarkPublished \/ PublishFails \/ WorkerCrash
  BY <1>8 DEF PublishReturns, MarkPublished, PublishFails, WorkerCrash, Idle
<1>9. CASE MarkProcessing
  <2>1. running \in Reserved /\ running.event \in Events
    BY <1>9, RunningFields DEF MarkProcessing
  <2>2. running'.event = running.event
    BY <1>9, <2>1 DEF MarkProcessing, Reserved
  <2> QED
    BY <1>9, <2>1, <2>2 DEF MarkProcessing
<1>10. CASE DispatchToSocket \/ CreateNotifications
  <2>1. running'.event = running.event
    BY <1>10, <1>a DEF DispatchToSocket, CreateNotifications, Reserved
  <2> QED
    BY <1>10, <2>1 DEF DispatchToSocket, CreateNotifications
<1> QED
  BY <1>1, <1>2, <1>3, <1>4, <1>5, <1>6, <1>7, <1>8, <1>9, <1>10 DEF Next, Publish

\* The counters keep up with the faults: a listener that runs moves the event past
\* it, and what moves the event back is a fault.
LEMMA EffectsStep == OutboxInv /\ [Next]_vars => EffectsAccounted'
<1> SUFFICES ASSUME OutboxInv, [Next]_vars, NEW e \in Events
             PROVE  /\ DispatchRuns(e)' <= sent'[e]
                    /\ sent'[e] <= DispatchRuns(e)' + 2 * faults'[e]
                    /\ NotifyRuns(e)' <= notified'[e]
                    /\ notified'[e] <= NotifyRuns(e)' + faults'[e]
  BY DEF EffectsAccounted
<1> DEFINE Goal == /\ DispatchRuns(e)' <= sent'[e]
                   /\ sent'[e] <= DispatchRuns(e)' + 2 * faults'[e]
                   /\ NotifyRuns(e)' <= notified'[e]
                   /\ notified'[e] <= NotifyRuns(e)' + faults'[e]
<1>a. /\ DispatchRuns(e) <= sent[e] /\ sent[e] <= DispatchRuns(e) + 2 * faults[e]
      /\ NotifyRuns(e) <= notified[e] /\ notified[e] <= NotifyRuns(e) + faults[e]
      /\ sent[e] \in Nat /\ notified[e] \in Nat /\ faults[e] \in Nat
  BY DEF OutboxInv, EffectsAccounted, TypeOK
\* Most steps leave the counters alone, and the event as far as it was.
<1>b. ASSUME UNCHANGED <<sent, notified, faults>>,
             DispatchRuns(e)' = DispatchRuns(e), NotifyRuns(e)' = NotifyRuns(e)
      PROVE  Goal
  BY <1>a, <1>b
\* A fault puts the event back to the start, and pays for what it wasted.
<1>f. ASSUME row'[e] # "PUBLISHED", running'.step = "idle", faults'[e] = faults[e] + 1,
             (DispatchRuns(e) <= 1 /\ sent'[e] = sent[e] + 1) \/ sent'[e] = sent[e],
             notified'[e] = notified[e]
      PROVE  Goal
  <2>1. DispatchRuns(e)' = 0 /\ NotifyRuns(e)' = 0
    BY <1>f DEF DispatchRuns, NotifyRuns, At
  <2>2. DispatchRuns(e) \in 0..2 /\ NotifyRuns(e) \in 0..1
    BY DEF DispatchRuns, NotifyRuns
  <2> HIDE DEF DispatchRuns, NotifyRuns
  <2> QED
    BY <1>a, <1>f, <2>1, <2>2
<1> USE DEF DispatchRuns, NotifyRuns, At, writerVars, rowVars, effectVars
<1>c. row \in [Events -> OutboxStatus \cup {Absent}]
  BY DEF OutboxInv, TypeOK
<1>1. CASE UNCHANGED vars
  BY <1>1, <1>b DEF vars
<1>2. ASSUME NEW d \in Changes, Change(d) PROVE Goal
  BY <1>2, <1>b DEF Change
<1>3. ASSUME NEW d \in Records, Record(d) PROVE Goal
  <2>1. row[e] # "PUBLISHED" \/ e # d
    BY <1>3 DEF Record, OutboxInv, RowsFollowChanges, Absent
  <2> QED
    BY <1>3, <1>b, <1>c, <2>1 DEF Record, Events
<1>4. ASSUME NEW d \in Events, WriterCommits(d) PROVE Goal
  BY <1>4, <1>b, <1>c DEF WriterCommits, AddEvent, Enqueue, Dispatch, Absent
<1>5. ASSUME NEW d \in Events, WriterCrash(d) \/ SweepDispatches(d) PROVE Goal
  BY <1>5, <1>b DEF WriterCrash, SweepDispatches
<1>6. CASE SweepReads
  BY <1>6, <1>b DEF SweepReads
<1>7. ASSUME NEW j \in jobs, ReserveJob(j) PROVE Goal
  <2>1. running.step = "idle" /\ running'.step \in {"idle", "read"}
    BY <1>7 DEF ReserveJob, Idle
  <2> QED
    BY <1>7, <1>b, <2>1 DEF ReserveJob
<1> DEFINE w == running.event
<1>e. running' = Idle => running'.step = "idle"
  BY DEF Idle
<1>d. running.step # "idle" =>
        /\ running \in Reserved
        /\ w \in Events
        /\ sent \in [Events -> Nat]
        /\ notified \in [Events -> Nat]
        /\ faults \in [Events -> Nat]
        /\ running.step \in Publishing => row[w] = "PROCESSING"
  BY RunningFields DEF OutboxInv, TypeOK, RowIsProcessing
<1> USE DEF Publishing
<1>8. CASE PublishReturns
  BY <1>8, <1>b, <1>e DEF PublishReturns
<1>9. CASE MarkProcessing
  <2>1. running'.event = w /\ running'.step = "registered"
    BY <1>9, <1>d DEF MarkProcessing, Reserved
  <2> QED
    BY <1>9, <1>b, <1>c, <1>d, <2>1 DEF MarkProcessing, NothingToPublish
<1>10. CASE DispatchToSocket
  <2>1. /\ running'.event = w
        /\ running'.step = IF running.step = "registered" THEN "notify" ELSE "mark"
    BY <1>10, <1>d DEF DispatchToSocket, Reserved
  <2> QED
    BY <1>10, <1>a, <1>d, <2>1 DEF DispatchToSocket
<1>11. CASE CreateNotifications
  <2>1. running'.event = w /\ running'.step = "discovered"
    BY <1>11, <1>d DEF CreateNotifications, Reserved
  <2> QED
    BY <1>11, <1>a, <1>d, <2>1 DEF CreateNotifications
<1>12. CASE MarkPublished
  BY <1>12, <1>b, <1>c, <1>d, <1>e DEF MarkPublished
<1>13. CASE PublishFails
  <2>1. CASE e = w
    <3>1. row'[e] # "PUBLISHED" /\ running'.step = "idle"
      BY <1>13, <1>c, <1>d, <1>e, <2>1 DEF PublishFails
    <3>2. faults'[e] = faults[e] + 1 /\ notified'[e] = notified[e]
      BY <1>13, <1>d, <2>1 DEF PublishFails, CountFault
    <3>3. (DispatchRuns(e) <= 1 /\ sent'[e] = sent[e] + 1) \/ sent'[e] = sent[e]
      BY <1>13, <1>d, <2>1 DEF PublishFails
    <3> QED
      BY <1>f, <3>1, <3>2, <3>3
  <2>2. CASE e # w
    BY <1>13, <1>a, <1>c, <1>d, <1>e, <2>2 DEF PublishFails, CountFault
  <2> QED
    BY <2>1, <2>2
<1>14. CASE WorkerCrash
  <2>1. running.step # "idle"
    BY <1>14, RunningFields DEF WorkerCrash, OutboxInv, TypeOK
  <2>2. CASE e = w /\ row[e] # "PUBLISHED"
    BY <1>14, <1>d, <1>e, <1>f, <2>1, <2>2 DEF WorkerCrash, CountFault
  <2>3. CASE e # w \/ row[e] = "PUBLISHED"
    BY <1>14, <1>a, <1>d, <1>e, <2>1, <2>3 DEF WorkerCrash, CountFault
  <2> QED
    BY <2>2, <2>3
<1> QED
  BY <1>1, <1>2, <1>3, <1>4, <1>5, <1>6, <1>7, <1>8, <1>9, <1>10, <1>11, <1>12, <1>13, <1>14
  DEF Next, Publish

\* A stored, unpublished event keeps something that will carry it further, unless
\* a fault explains why not.
LEMMA StrandedStep == OutboxInv /\ [Next]_vars => StrandedOnlyByFault'
<1> SUFFICES ASSUME OutboxInv, [Next]_vars, NEW e \in Events,
                    Stored(e)', row'[e] # "PUBLISHED",
                    \A j \in jobs' : j.event # e,
                    running' # Idle => running'.event # e
             PROVE  writer'[e] \in {"after", "died"} \/ faults'[e] >= MaxTries
  BY DEF StrandedOnlyByFault
<1> DEFINE Goal == writer'[e] \in {"after", "died"} \/ faults'[e] >= MaxTries
<1> USE OutboxAssumption DEF Stored, writerVars, rowVars, effectVars
<1>a. /\ TypeOK
      /\ faults \in [Events -> Nat]
      /\ row \in [Events -> OutboxStatus \cup {Absent}]
      /\ writer \in [Events -> {"before", "after", "ended", "died"}]
      /\ MaxTries \in Nat
  BY DEF OutboxInv, TypeOK
\* The event was in the same case before the step.
<1>b. ASSUME row[e] # Absent, row[e] # "PUBLISHED", \A j \in jobs : j.event # e,
             running # Idle => running.event # e,
             UNCHANGED <<writer, faults>>
      PROVE  Goal
  BY <1>b DEF OutboxInv, StrandedOnlyByFault
<1>1. CASE UNCHANGED vars
  BY <1>1, <1>b DEF vars
<1>2. ASSUME NEW d \in Changes, Change(d) PROVE Goal
  <2>1. CASE e = d
    BY <1>a, <1>2, <2>1 DEF Change
  <2>2. CASE e # d
    BY <1>a, <1>2, <2>2 DEF Change, OutboxInv, StrandedOnlyByFault
  <2> QED
    BY <2>1, <2>2
<1>3. ASSUME NEW d \in Records, Record(d) PROVE Goal
  <2>1. CASE e = d
    BY <1>a, <1>3, <2>1 DEF Record
  <2>2. CASE e # d
    BY <1>a, <1>3, <2>2 DEF Record, OutboxInv, StrandedOnlyByFault
  <2> QED
    BY <2>1, <2>2
<1>4. ASSUME NEW d \in Events, AddEvent(d) PROVE Goal
  BY <1>4, <1>b DEF AddEvent
<1>5. ASSUME NEW d \in Events, Enqueue(d) PROVE Goal
  <2>1. CASE e = d
    BY <1>5, <2>1 DEF Enqueue
  <2>2. CASE e # d
    BY <1>a, <1>b, <1>5, <2>2 DEF Enqueue
  <2> QED
    BY <2>1, <2>2
<1>6. ASSUME NEW d \in Events, Dispatch(d) PROVE Goal
  <2>1. PICK id \in JobIds : jobs' = jobs \cup {NewJob(id, d)}
    BY <1>6 DEF Dispatch
  <2>2. e # d
    <3>1. NewJob(id, d) \in jobs' /\ NewJob(id, d).event = d
      BY <2>1 DEF NewJob
    <3> QED
      BY <3>1
  <2> QED
    BY <1>a, <1>6, <2>1, <2>2 DEF Dispatch, OutboxInv, StrandedOnlyByFault
<1>7. ASSUME NEW d \in Events, WriterCrash(d) PROVE Goal
  <2>1. CASE e = d
    BY <1>a, <1>7, <2>1 DEF WriterCrash
  <2>2. CASE e # d
    BY <1>a, <1>7, <2>2 DEF WriterCrash, OutboxInv, StrandedOnlyByFault
  <2> QED
    BY <2>1, <2>2
<1>8. ASSUME NEW d \in Events, SweepDispatches(d) PROVE Goal
  BY <1>8, <1>b DEF SweepDispatches
<1>9. CASE SweepReads
  BY <1>9, <1>b DEF SweepReads
<1>10. ASSUME NEW j \in jobs, ReserveJob(j) PROVE Goal
  <2>1. CASE j.event # e
    BY <1>10, <1>b, <2>1 DEF ReserveJob
  <2>2. CASE j.event = e
    <3>1. ~TriesLeft(j)
      BY <1>10, <2>2 DEF ReserveJob, Idle
    <3>2. j.tries \in Nat /\ j.tries <= faults[e]
      BY <1>a, <2>2 DEF OutboxInv, TypeOK, JobsAccounted, Job
    <3> QED
      BY <1>a, <1>10, <3>1, <3>2 DEF ReserveJob, TriesLeft
  <2> QED
    BY <2>1, <2>2
<1>c. running # Idle => /\ running \in Reserved
                        /\ running.event \in Events
                        /\ running.tries \in 1..MaxTries
                        /\ running.tries <= faults[running.event] + 1
  BY RunningFields DEF OutboxInv, TypeOK, JobsAccounted
<1>d. Idle.step = "idle"
  BY DEF Idle
<1>11. CASE PublishReturns
  <2>1. running # Idle
    BY <1>11, <1>d DEF PublishReturns
  <2>2. running.event # e
    BY <1>11, <2>1 DEF PublishReturns, NothingToPublish
  <2> QED
    BY <1>11, <1>b, <2>2 DEF PublishReturns
<1>12. CASE MarkProcessing \/ DispatchToSocket \/ CreateNotifications
  <2>1. running # Idle
    BY <1>12, <1>d DEF MarkProcessing, DispatchToSocket, CreateNotifications
  <2>2. running' # Idle /\ running'.event = running.event
    BY <1>12, <1>c, <1>d, <2>1
    DEF MarkProcessing, DispatchToSocket, CreateNotifications, Reserved
  <2>3. row[e] = row'[e]
    BY <1>12, <1>a, <2>2 DEF MarkProcessing, DispatchToSocket, CreateNotifications
  <2> QED
    BY <1>12, <1>b, <2>2, <2>3 DEF MarkProcessing, DispatchToSocket, CreateNotifications
<1>13. CASE MarkPublished
  <2>1. running.event # e
    BY <1>13, <1>a DEF MarkPublished
  <2> QED
    BY <1>13, <1>a, <1>b, <2>1 DEF MarkPublished
<1>14. CASE PublishFails \/ WorkerCrash
  <2>1. running # Idle
    BY <1>14, <1>d DEF PublishFails, WorkerCrash
  <2>2. CASE running.event # e
    <3>1. row[e] = row'[e] /\ faults'[e] = faults[e]
      BY <1>14, <1>a, <1>c, <2>1, <2>2 DEF PublishFails, WorkerCrash, CountFault
    <3> QED
      BY <1>14, <2>2, <3>1 DEF PublishFails, WorkerCrash, OutboxInv, StrandedOnlyByFault
  <2>3. CASE running.event = e
    <3>1. running.tries = MaxTries
      <4>1. RunningJob.event = e
        BY <2>3 DEF RunningJob
      <4>2. RunningJob \notin jobs'
        BY <4>1
      <4> QED
        BY <1>14, <1>a, <1>c, <2>1, <4>2 DEF PublishFails, WorkerCrash, Released
    <3>2. faults'[e] = faults[e] + 1
      BY <1>14, <1>a, <2>3 DEF PublishFails, WorkerCrash, CountFault
    <3> QED
      BY <1>a, <1>c, <2>1, <2>3, <3>1, <3>2
  <2> QED
    BY <2>2, <2>3
<1> QED
  BY <1>1, <1>2, <1>3, <1>4, <1>5, <1>6, <1>7, <1>8, <1>9, <1>10, <1>11, <1>12, <1>13, <1>14
  DEF Next, WriterCommits, Publish

\* The initial state satisfies the invariant.
LEMMA InvInit == Init => OutboxInv
<1> SUFFICES ASSUME Init PROVE OutboxInv
  OBVIOUS
<1> USE DEF Init, Idle
<1>1. TypeOK
  BY TypeInit
<1>2. RowsFollowChanges /\ JobsAccounted
  BY DEF RowsFollowChanges, JobsAccounted
<1>3. RowIsProcessing
  BY DEF RowIsProcessing, Publishing
<1>4. EffectsAccounted
  BY DEF EffectsAccounted, DispatchRuns, NotifyRuns, At, Absent
<1>5. StrandedOnlyByFault
  BY DEF StrandedOnlyByFault, Stored
<1> QED
  BY <1>1, <1>2, <1>3, <1>4, <1>5 DEF OutboxInv

\* The invariant holds in every reachable state.
LEMMA OutboxInvariant == Spec => []OutboxInv
<1>1. OutboxInv /\ [Next]_vars => OutboxInv'
  BY TypeStep, RowsStep, JobsStep, RowStep, EffectsStep, StrandedStep DEF OutboxInv
<1> QED
  BY <1>1, InvInit, PTL DEF Spec

-----------------------------------------------------------------------------
(* Theorems                                                                *)

\* A row marked PUBLISHED has gone through every listener, the doubled one twice.
THEOREM PublishedWasSent == Spec => []PublishedReachedEveryone
<1>1. OutboxInv => PublishedReachedEveryone
  BY DEF OutboxInv, TypeOK, EffectsAccounted, DispatchRuns, NotifyRuns, PublishedReachedEveryone
<1> QED
  BY <1>1, OutboxInvariant, PTL

\* Without a fault an event goes out at most twice, for the doubled listener, and is
\* notified at most once, however many jobs it has; each fault adds at most as much.
THEOREM ExtraNeedsFault == Spec => []ExtraOnlyAfterFault
<1>1. OutboxInv => ExtraOnlyAfterFault
  <2> SUFFICES ASSUME OutboxInv, NEW e \in Events
               PROVE  sent[e] <= 2 * (1 + faults[e]) /\ notified[e] <= 1 + faults[e]
    BY DEF ExtraOnlyAfterFault
  <2>1. DispatchRuns(e) \in 0..2 /\ NotifyRuns(e) \in 0..1
    BY DEF DispatchRuns, NotifyRuns
  <2> QED
    BY <2>1 DEF OutboxInv, TypeOK, EffectsAccounted
<1> QED
  BY <1>1, OutboxInvariant, PTL

\* An event stays behind only because its writer died or its job failed MaxTries
\* times.
THEOREM StrandedNeedsFault == Spec => []StrandedOnlyByFault
<1>1. OutboxInv => StrandedOnlyByFault
  BY DEF OutboxInv
<1> QED
  BY <1>1, OutboxInvariant, PTL

\* Nothing happens to a published event any more.
THEOREM PublishedStays == Spec => PublishedIsFinal
<1> DEFINE Final == \A e \in Events : row[e] = "PUBLISHED" =>
                      row'[e] = "PUBLISHED" /\ sent'[e] = sent[e] /\ notified'[e] = notified[e]
<1>1. OutboxInv /\ [Next]_vars => Final
  <2> SUFFICES ASSUME OutboxInv, [Next]_vars, NEW e \in Events, row[e] = "PUBLISHED"
               PROVE  /\ row'[e] = "PUBLISHED"
                      /\ sent'[e] = sent[e]
                      /\ notified'[e] = notified[e]
    OBVIOUS
  <2> USE DEF writerVars, rowVars, effectVars
  <2>1. running.step \in Publishing => running.event # e
    BY DEF OutboxInv, RowIsProcessing
  <2>2. writer[e] # "before"
    BY DEF OutboxInv, RowsFollowChanges, Absent
  <2>3. /\ row \in [Events -> OutboxStatus \cup {Absent}]
        /\ sent \in [Events -> Nat]
        /\ notified \in [Events -> Nat]
    BY DEF OutboxInv, TypeOK
  <2>4. CASE UNCHANGED vars
    BY <2>4 DEF vars
  <2>5. CASE \/ \E d \in Changes : Change(d)
             \/ \E d \in Events : WriterCrash(d) \/ SweepDispatches(d)
             \/ SweepReads
             \/ \E j \in jobs : ReserveJob(j)
             \/ WorkerCrash
    BY <2>5 DEF Change, WriterCrash, SweepDispatches, SweepReads, ReserveJob, WorkerCrash
  <2>6. ASSUME NEW d \in Records, Record(d)
        PROVE  UNCHANGED <<sent, notified>> /\ row'[e] = row[e]
    BY <2>2, <2>3, <2>6 DEF Record, Events
  <2>7. ASSUME NEW d \in Events, WriterCommits(d)
        PROVE  UNCHANGED <<sent, notified>> /\ row'[e] = row[e]
    BY <2>3, <2>7 DEF WriterCommits, AddEvent, Enqueue, Dispatch, Absent
  <2>8. CASE PublishReturns
    BY <2>8 DEF PublishReturns
  <2>9. CASE MarkProcessing
    BY <2>3, <2>9 DEF MarkProcessing, NothingToPublish
  <2>10. CASE DispatchToSocket \/ CreateNotifications \/ MarkPublished \/ PublishFails
    BY <2>1, <2>3, <2>10 DEF DispatchToSocket, CreateNotifications, MarkPublished,
                             PublishFails, Publishing
  <2> QED
    BY <2>4, <2>5, <2>6, <2>7, <2>8, <2>9, <2>10 DEF Next, Publish
<1> HIDE DEF Final
<1>2. Spec => [][Final]_vars
  BY <1>1, OutboxInvariant, PTL DEF Spec
<1> QED
  BY <1>2 DEF Final, PublishedIsFinal

=============================================================================
