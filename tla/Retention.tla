------------------------------- MODULE Retention -------------------------------
(***************************************************************************)
(* The partitions of notification_deliveries over the days: where an insert*)
(* lands, the maintenance job that creates partitions ahead, archives the  *)
(* terminal rows of an aged one and drops it, and the rows that may still  *)
(* be unfinished then.  internal/scheduler/jobs.go, migrations/000002 and  *)
(* 000004.                                                                 *)
(*                                                                         *)
(* Days are numbers, a partition is its day.  A delivery is scheduled for  *)
(* the day `due` and ends at most Horizon days after it (the retry         *)
(* horizon); it may be cancelled earlier.                                  *)
(***************************************************************************)
EXTENDS Integers

CONSTANTS Deliveries,
          RetentionDays,  \* Config.RetentionDays
          PreCreateDays,  \* Config.PreCreateDays
          SendAhead,      \* how many days ahead send_at may lie; the API sets no limit
          Horizon,        \* days from due to a terminal status: all retries
          LastDay         \* bound: the last day of a behaviour

ASSUME RetentionAssumption ==
    /\ RetentionDays \in Nat \ {0} /\ PreCreateDays \in Nat \ {0}
    /\ SendAhead \subseteq Nat /\ Horizon \in Nat /\ LastDay \in Nat

VARIABLES today,
          partitions,  \* days that have a dated partition
          place,       \* where the row of a delivery is
          created,     \* the day of created_at
          due,         \* the day of send_at
          terminal,    \* the deliveries that are SENT, FAILED or CANCELLED
          job,         \* the maintenance job: its statement, its today, the index
                       \* of its loop, and whether a creation of the loop failed
          copied,      \* rows its open transaction has inserted into the archive
          lastCreate,  \* the day of the last loop of creations without an error
          lastDrop,    \* the day of the last finished archive and drop
          missed       \* a day went by without one

rowVars == <<place, created, due, terminal>>
vars == <<today, partitions, rowVars, job, copied, lastCreate, lastDrop, missed>>

Job(step, day, i, loop) == [step |-> step, today |-> day, i |-> i, loop |-> loop]
Idle == Job("idle", 0, 0, "clean")

\* The migrations create the default partition only.
Init ==
    /\ today = 0
    /\ partitions = {}
    /\ place = [d \in Deliveries |-> "none"]
    /\ created = [d \in Deliveries |-> 0]
    /\ due = [d \in Deliveries |-> 0]
    /\ terminal = {}
    /\ job = Idle
    /\ copied = {}
    /\ lastCreate = -1 /\ lastDrop = -1
    /\ missed = FALSE

Stored(d) == place[d] \in {"dated", "default"}
Live(d) == Stored(d) /\ d \notin terminal
InDefault(day) == {d \in Deliveries : place[d] = "default" /\ created[d] = day}
InDated(day) == {d \in Deliveries : place[d] = "dated" /\ created[d] = day}

-----------------------------------------------------------------------------
\* "Default partition is a safety net so inserts never fail".
insertDelivery(d, ahead) ==
    /\ place[d] = "none"
    /\ place' = [place EXCEPT ![d] = IF today \in partitions THEN "dated" ELSE "default"]
    /\ created' = [created EXCEPT ![d] = today]
    /\ due' = [due EXCEPT ![d] = today + ahead]
    /\ UNCHANGED <<today, partitions, terminal, job, copied, lastCreate, lastDrop, missed>>

\* MarkSent, MarkFailed or CancelRequest.  Where the row is gone they write
\* nothing.
End(d) ==
    /\ Live(d)
    /\ terminal' = terminal \cup {d}
    /\ UNCHANGED <<today, partitions, place, created, due, job, copied, lastCreate,
                   lastDrop, missed>>

\* Every delivery ends within Horizon days of its due day.
nextDay ==
    /\ today < LastDay
    /\ \A d \in Deliveries : Live(d) => today < due[d] + Horizon
    /\ today' = today + 1
    /\ missed' = IF lastDrop = today THEN missed ELSE TRUE
    /\ UNCHANGED <<partitions, rowVars, job, copied, lastCreate, lastDrop>>

-----------------------------------------------------------------------------
\* maintainPartitions reads the clock once.
maintainPartitions ==
    /\ job.step = "idle"
    /\ job' = Job("create", today, 0, "clean")
    /\ UNCHANGED <<today, partitions, rowVars, copied, lastCreate, lastDrop, missed>>

\* Mutant: i < PreCreateDays.
CreateDaysShort == PreCreateDays - 1

CreateDays == PreCreateDays

\* What follows a creation, whether it failed or not.
AfterCreate(loop) ==
    job' = IF job.i < CreateDays THEN Job("create", job.today, job.i + 1, loop)
                                 ELSE Job("archive", job.today, 0, "clean")

\* create_delivery_partition.  It creates nothing when the default partition
\* already has rows of that day.
CreateDeliveryPartition ==
    LET day == job.today + job.i
    IN  /\ job.step = "create"
        /\ partitions' = IF InDefault(day) = {} THEN partitions \cup {day} ELSE partitions
        /\ AfterCreate(job.loop)
        /\ lastCreate' = IF job.i = CreateDays /\ job.loop = "clean"
                         THEN job.today ELSE lastCreate
        /\ UNCHANGED <<today, rowVars, copied, lastDrop, missed>>

\* The error is logged and the loop goes on.
createFails ==
    /\ job.step = "create"
    /\ AfterCreate("failed")
    /\ UNCHANGED <<today, partitions, rowVars, copied, lastCreate, lastDrop, missed>>

\* Mutant: the window is a day shorter.
dropDayEarly == job.today - RetentionDays

\* Mutant: the window is a day longer.
dropDayLate == job.today - (RetentionDays + 2)

dropDay == job.today - (RetentionDays + 1)

\* archive_and_drop_partition, first half: INSERT ... SELECT of what is
\* terminal in the statement's snapshot.
archivePartition ==
    /\ job.step = "archive"
    /\ IF dropDay \in partitions
       THEN /\ copied' = InDated(dropDay) \cap terminal
            /\ job' = Job("drop", job.today, 0, "clean")
            /\ UNCHANGED lastDrop
       ELSE /\ job' = Idle
            /\ lastDrop' = job.today
            /\ UNCHANGED copied
    /\ UNCHANGED <<today, partitions, rowVars, lastCreate, missed>>

\* Mutant: the table is dropped and its rows stay where they were.
dropPartitionDetached ==
    /\ job.step = "drop"
    /\ partitions' = partitions \ {dropDay}
    /\ copied' = {}
    /\ job' = Idle
    /\ lastDrop' = job.today
    /\ UNCHANGED <<today, rowVars, lastCreate, missed>>

\* Second half: DROP TABLE takes every row that is left, and commits.
dropPartition ==
    /\ job.step = "drop"
    /\ partitions' = partitions \ {dropDay}
    /\ place' = [d \in Deliveries |->
                    IF d \notin InDated(dropDay) THEN place[d]
                    ELSE IF d \in copied THEN "archive" ELSE "lost"]
    /\ copied' = {}
    /\ job' = Idle
    /\ lastDrop' = job.today
    /\ UNCHANGED <<today, created, due, terminal, lastCreate, missed>>

\* The scheduler stops, or archive_and_drop_partition fails and is rolled back.
maintenanceFails ==
    /\ job # Idle
    /\ job' = Idle
    /\ copied' = {}
    /\ UNCHANGED <<today, partitions, rowVars, lastCreate, lastDrop, missed>>

Maintenance ==
    \/ maintainPartitions
    \/ CreateDeliveryPartition
    \/ createFails
    \/ archivePartition
    \/ dropPartition
    \/ maintenanceFails

Next ==
    \/ \E d \in Deliveries, ahead \in SendAhead : insertDelivery(d, ahead)
    \/ \E d \in Deliveries : End(d)
    \/ Maintenance
    \/ nextDay

Spec == Init /\ [][Next]_vars

-----------------------------------------------------------------------------
\* A delivery whose send_at lies as far ahead as any and which uses all of its
\* retries ends inside the retention window.
RetentionCovers == \A ahead \in SendAhead : ahead + Horizon <= RetentionDays

JobStates ==
    [step : {"idle", "create", "archive", "drop"}, today : Nat, i : 0..PreCreateDays,
     loop : {"clean", "failed"}]

\* Every variable has its shape, and a row outside the default partition and
\* the archive is in the partition of its day.
TypeOK ==
    /\ today \in Nat
    /\ partitions \subseteq Int
    /\ place \in [Deliveries -> {"none", "dated", "default", "archive", "lost"}]
    /\ created \in [Deliveries -> Nat] /\ due \in [Deliveries -> Nat]
    /\ terminal \subseteq Deliveries /\ copied \subseteq Deliveries
    /\ job \in JobStates
    /\ lastCreate \in Int /\ lastDrop \in Int /\ missed \in BOOLEAN
    /\ \A d \in Deliveries : place[d] = "dated" => created[d] \in partitions

\* No delivery disappears: with a window that covers sends and retries, what
\* the drop takes was copied to the archive, even when the job is interrupted,
\* runs late or works with yesterday's date while deliveries end around it.
NoneLost == RetentionCovers => \A d \in Deliveries : place[d] # "lost"

\* Retention reclaims: as long as no day goes by without a finished run, no
\* partition is older than the window and the day of grace.
AgedAreDropped ==
    ~missed => \A day \in partitions : day >= today - (RetentionDays + 1)

\* Partitions are created ahead: a run whose statements succeeded covers the next
\* PreCreateDays days also when none follows it, except for a day the default
\* partition got rows of.
CreatedAhead ==
    lastCreate >= 0 /\ today <= lastCreate + PreCreateDays =>
        today \in partitions \/ InDefault(today) # {}

\* "Rows older than the retention window are guaranteed terminal in practice": what
\* archive_and_drop_partition takes without a copy had reached its end.
DroppedAreTerminal == \A d \in Deliveries : place[d] = "lost" => d \in terminal
=============================================================================
