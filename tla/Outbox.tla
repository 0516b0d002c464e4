------------------------------- MODULE Outbox -------------------------------
(***************************************************************************)
(* The transactional outbox: how a committed change of the domain becomes  *)
(* a socket message and notifications.  A change reaches outbox_events in  *)
(* one of two ways: recordEvent stores the row in the transaction of the   *)
(* change, Order::transitionTo leaves it to OrderStatusChangedHandler,     *)
(* which runs after the commit.  A queue job then publishes the row.       *)
(* A process may die between any two commits.                              *)
(***************************************************************************)
EXTENDS Naturals, Functions

CONSTANTS
  Changes,     \* order status changes, announced after their commit
  Records,     \* events recorded in the transaction of their change
  JobIds,      \* bound on the publishing jobs that exist at a time
  MaxTries,    \* queue:work --tries
  MaxRetries,  \* markRetryAfterFailure's $maxRetries
  MaxFaults    \* bound on the failures and crashes met publishing

ASSUME OutboxAssumption ==
  /\ Changes \cap Records = {}
  /\ MaxTries \in Nat \ {0}
  /\ MaxRetries \in Nat \ {0}
  /\ MaxFaults \in Nat

Events == Changes \cup Records

OutboxStatus == {"PENDING", "PROCESSING", "PUBLISHED", "FAILED"}
Absent       == "ABSENT"   \* the row does not exist yet

VARIABLES
  writer,    \* the process that makes the change: before, after its commit, ended
  history,   \* the events with their row in order_events
  row,       \* outbox_events.status
  retries,   \* outbox_events.retry_count
  jobs,      \* the waiting PublishOutboxEventJobs, with their attempts
  running,   \* the job the queue worker has reserved, and where it is
  swept,     \* what outbox:process has selected and not yet dispatched
  sent,      \* times a listener let the event out: with a socket message, or with two
             \* milestone coupons, as the listener of that event is doubled too
  notified,  \* times a listener created the notifications
  faults     \* failures and crashes met publishing the event

writerVars == <<writer, history>>
rowVars    == <<row, retries>>
effectVars == <<sent, notified>>
vars == <<writerVars, rowVars, jobs, running, swept, effectVars, faults>>

Idle == [step |-> "idle"]

Job == [id : JobIds, event : Events, tries : 0..MaxTries]

\* The listeners of OutboxEventPublished, in their order: the two that boot
\* registers and, as Laravel discovers the typed handles of app/Listeners and
\* nothing turns that off, DispatchLaravelEventFromOutbox once more.
Dispatches == {"registered", "discovered"}
Listeners  == Dispatches \cup {"notify"}

\* publishById: about to read the row, to run a listener, to mark the row
Reserved == [id : JobIds, event : Events, tries : 1..MaxTries,
             step : {"read", "mark"} \cup Listeners]

TypeOK ==
  /\ writer \in [Events -> {"before", "after", "ended", "died"}]
  /\ history \subseteq Events
  /\ row \in [Events -> OutboxStatus \cup {Absent}]
  /\ retries \in [Events -> Nat]
  /\ jobs \subseteq Job
  /\ running \in Reserved \cup {Idle}
  /\ swept \subseteq Events
  /\ sent \in [Events -> Nat]
  /\ notified \in [Events -> Nat]
  /\ faults \in [Events -> Nat]

Init ==
  /\ writer = [e \in Events |-> "before"]
  /\ history = {}
  /\ row = [e \in Events |-> Absent]
  /\ retries = [e \in Events |-> 0]
  /\ jobs = {}
  /\ running = Idle
  /\ swept = {}
  /\ sent = [e \in Events |-> 0]
  /\ notified = [e \in Events |-> 0]
  /\ faults = [e \in Events |-> 0]

-----------------------------------------------------------------------------
(* The writers                                                             *)

\* Order::transitionTo: the status is committed, the handlers come after it.
Change(e) ==
  /\ writer[e] = "before"
  /\ writer' = [writer EXCEPT ![e] = "after"]
  /\ UNCHANGED <<history, rowVars, jobs, running, swept, effectVars, faults>>

\* OrderStatusChangedHandler: a row of order_events, in a commit of its own...
AddEvent(e) ==
  /\ writer[e] = "after"
  /\ e \notin history
  /\ history' = history \cup {e}
  /\ UNCHANGED <<writer, rowVars, jobs, running, swept, effectVars, faults>>

\* ... and then the row of outbox_events, in another.
Enqueue(e) ==
  /\ writer[e] = "after"
  /\ e \in history
  /\ row[e] = Absent
  /\ row' = [row EXCEPT ![e] = "PENDING"]
  /\ UNCHANGED <<writerVars, retries, jobs, running, swept, effectVars, faults>>

\* recordEvent: the change and both rows, in one transaction
Record(e) ==
  /\ writer[e] = "before"
  /\ writer' = [writer EXCEPT ![e] = "after"]
  /\ history' = history \cup {e}
  /\ row' = [row EXCEPT ![e] = "PENDING"]
  /\ UNCHANGED <<retries, jobs, running, swept, effectVars, faults>>

NewJob(id, e) == [id |-> id, event |-> e, tries |-> 0]

FreeId(id) ==
  /\ \A j \in jobs : j.id # id
  /\ running # Idle => running.id # id

\* the job of enqueue, which reaches the queue after the commit of the row
Dispatch(e) ==
  /\ writer[e] = "after"
  /\ row[e] # Absent
  /\ writer' = [writer EXCEPT ![e] = "ended"]
  /\ \E id \in JobIds : FreeId(id) /\ jobs' = jobs \cup {NewJob(id, e)}
  /\ UNCHANGED <<history, rowVars, running, swept, effectVars, faults>>

\* The process dies, or its handler fails, with the change committed.
WriterCrash(e) ==
  /\ writer[e] = "after"
  /\ writer' = [writer EXCEPT ![e] = "died"]
  /\ UNCHANGED <<history, rowVars, jobs, running, swept, effectVars, faults>>

-----------------------------------------------------------------------------
(* outbox:process, a command that nothing schedules.  What it selects may  *)
(* be published before it is dispatched.                                   *)

SweepReads ==
  /\ swept = {}
  /\ swept' \in SUBSET {e \in Events : row[e] = "PENDING"}
  /\ UNCHANGED <<writerVars, rowVars, jobs, running, effectVars, faults>>

SweepDispatches(e) ==
  /\ e \in swept
  /\ swept' = swept \ {e}
  /\ \E id \in JobIds : FreeId(id) /\ jobs' = jobs \cup {NewJob(id, e)}
  /\ UNCHANGED <<writerVars, rowVars, running, effectVars, faults>>

-----------------------------------------------------------------------------
(* The queue worker: one process, one job at a time                        *)

\* Mutant: off by one.
TriesLeftOffByOne(j) == j.tries <= MaxTries

TriesLeft(j) == j.tries < MaxTries

\* An attempt counts from its start, so a job that killed the worker is not
\* tried for ever: it is dropped, and the row is left as it is.
ReserveJob(j) ==
  /\ running = Idle
  /\ j \in jobs
  /\ jobs' = jobs \ {j}
  /\ running' = IF TriesLeft(j)
                THEN [id |-> j.id, event |-> j.event, tries |-> j.tries + 1, step |-> "read"]
                ELSE Idle
  /\ UNCHANGED <<writerVars, rowVars, swept, effectVars, faults>>

\* Mutant: a row that failed is left alone, one that was published is not.
AlreadyFailed(e) == row[e] \in {Absent, "FAILED"}

\* Mutant: a row somebody is processing is left alone too.
AlreadyTaken(e) == row[e] \in {Absent, "PROCESSING", "PUBLISHED"}

\* publishById: no such row, or nothing left to do
NothingToPublish(e) == row[e] \in {Absent, "PUBLISHED"}

PublishReturns ==
  /\ running.step = "read"
  /\ NothingToPublish(running.event)
  /\ running' = Idle
  /\ UNCHANGED <<writerVars, rowVars, jobs, swept, effectVars, faults>>

MarkProcessing ==
  /\ running.step = "read"
  /\ ~NothingToPublish(running.event)
  /\ row' = [row EXCEPT ![running.event] = "PROCESSING"]
  /\ running' = [running EXCEPT !.step = "registered"]
  /\ UNCHANGED <<writerVars, retries, jobs, swept, effectVars, faults>>

\* DispatchLaravelEventFromOutbox, by either of its registrations
DispatchToSocket ==
  /\ running.step \in Dispatches
  /\ sent' = [sent EXCEPT ![running.event] = @ + 1]
  /\ running' = [running EXCEPT !.step = IF @ = "registered" THEN "notify" ELSE "mark"]
  /\ UNCHANGED <<writerVars, rowVars, jobs, swept, notified, faults>>

\* CreateNotificationFromOutboxEventHandler is one transaction.
CreateNotifications ==
  /\ running.step = "notify"
  /\ notified' = [notified EXCEPT ![running.event] = @ + 1]
  /\ running' = [running EXCEPT !.step = "discovered"]
  /\ UNCHANGED <<writerVars, rowVars, jobs, swept, sent, faults>>

\* Mutant: the row is marked without waiting for the notifications.
MarkPublishedEarly ==
  /\ running.step \in {"notify", "mark"}
  /\ row' = [row EXCEPT ![running.event] = "PUBLISHED"]
  /\ running' = Idle
  /\ UNCHANGED <<writerVars, retries, jobs, swept, effectVars, faults>>

MarkPublished ==
  /\ running.step = "mark"
  /\ row' = [row EXCEPT ![running.event] = "PUBLISHED"]
  /\ running' = Idle
  /\ UNCHANGED <<writerVars, retries, jobs, swept, effectVars, faults>>

RunningJob == [id |-> running.id, event |-> running.event, tries |-> running.tries]

CountFault(e) ==
  /\ SumFunction(faults) < MaxFaults
  /\ faults' = [faults EXCEPT ![e] = @ + 1]

\* Mutant: the last attempt is not made.
ReleasedOffByOne == IF running.tries + 1 < MaxTries THEN {RunningJob} ELSE {}

\* after an exception: back into the queue, unless that was the last attempt
Released == IF running.tries < MaxTries THEN {RunningJob} ELSE {}

\* A listener throws, or the mark fails: markRetryAfterFailure, and the queue's
\* bookkeeping.  A dispatch may have reached some sockets before it failed.
PublishFails ==
  LET e == running.event
      n == retries[e] + 1
  IN  /\ running.step \in Listeners \cup {"mark"}
      /\ CountFault(e)
      /\ retries' = [retries EXCEPT ![e] = n]
      /\ row' = [row EXCEPT ![e] = IF n >= MaxRetries THEN "FAILED" ELSE "PENDING"]
      /\ \/ UNCHANGED sent
         \/ running.step \in Dispatches /\ sent' = [sent EXCEPT ![e] = @ + 1]
      /\ jobs' = jobs \cup Released
      /\ running' = Idle
      /\ UNCHANGED <<writerVars, swept, notified>>

\* The worker dies: the job is reserved again later, the row is left as it is.
WorkerCrash ==
  /\ running # Idle
  /\ CountFault(running.event)
  /\ jobs' = jobs \cup {RunningJob}
  /\ running' = Idle
  /\ UNCHANGED <<writerVars, rowVars, swept, effectVars>>

-----------------------------------------------------------------------------
WriterCommits(e) == AddEvent(e) \/ Enqueue(e) \/ Dispatch(e)

Publish ==
  \/ PublishReturns
  \/ MarkProcessing
  \/ DispatchToSocket
  \/ CreateNotifications
  \/ MarkPublished

Next ==
  \/ \E e \in Changes : Change(e)
  \/ \E e \in Records : Record(e)
  \/ \E e \in Events : WriterCommits(e) \/ WriterCrash(e) \/ SweepDispatches(e)
  \/ SweepReads
  \/ \E j \in jobs : ReserveJob(j)
  \/ Publish
  \/ PublishFails
  \/ WorkerCrash

Spec == Init /\ [][Next]_vars

-----------------------------------------------------------------------------
(* Safety                                                                  *)

Stored(e) == row[e] # Absent

\* What is marked PUBLISHED went through every listener, the doubled one twice,
\* whatever failures and restarts came before the mark.
PublishedReachedEveryone ==
  \A e \in Events : row[e] = "PUBLISHED" => sent[e] >= 2 /\ notified[e] >= 1

\* For the doubled listener an event is let out twice, and for the other one customers
\* are notified once; each failure or crash repeats that at most once more.
\* Never does the writer queueing the event beside outbox:process, or a job that
\* outlives the publication.
ExtraOnlyAfterFault ==
  \A e \in Events : sent[e] <= 2 * (1 + faults[e]) /\ notified[e] <= 1 + faults[e]

\* A stored event that no job and no process will carry further lost its job to
\* a crash of its writer, or used up the attempts of one.
StrandedOnlyByFault ==
  \A e \in Events :
    (/\ Stored(e) /\ row[e] # "PUBLISHED"
     /\ \A j \in jobs : j.event # e
     /\ running # Idle => running.event # e)
      => writer[e] \in {"after", "died"} \/ faults[e] >= MaxTries

\* A published event stays published, and nothing about it goes out again.
PublishedIsFinal ==
  [][\A e \in Events : row[e] = "PUBLISHED" =>
       row'[e] = "PUBLISHED" /\ sent'[e] = sent[e] /\ notified'[e] = notified[e]]_vars

-----------------------------------------------------------------------------
(* Liveness: living writers end, and the worker keeps taking jobs.  Nobody *)
(* runs outbox:process, and nothing has to fail.                           *)

Fairness ==
  /\ \A e \in Events : WF_vars(WriterCommits(e))
  /\ \A e \in Events : WF_vars(\E j \in jobs : j.event = e /\ ReserveJob(j))
  /\ WF_vars(Publish)

FairSpec == Spec /\ Fairness

\* A stored event is published in the end, unless its writer died before the
\* dispatch or the failures used up the attempts of a job: a crash of the worker
\* that leaves the row PROCESSING does not stop it.
EventuallyPublished ==
  \A e \in Events :
    Stored(e) ~> row[e] = "PUBLISHED" \/ writer[e] = "died" \/ faults[e] >= MaxTries

-----------------------------------------------------------------------------
(* Claims of the report that the code does not keep                        *)

\* A status change that is committed has its audit event and its outbox row, or
\* a living process about to store them.
ChangeKeepsItsEvent ==
  \A e \in Events :
    writer[e] \in {"ended", "died"} => e \in history /\ Stored(e)

=============================================================================
