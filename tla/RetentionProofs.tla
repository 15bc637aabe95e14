---------------------------- MODULE RetentionProofs ----------------------------
(***************************************************************************)
(* What the partitions of notification_deliveries keep, for any number of  *)
(* deliveries and any settings: proofs about Retention.                    *)
(***************************************************************************)
EXTENDS Retention, TLAPS

\* Rows are made on a day that has come, due as far ahead as the API lets them
\* be, and unfinished for no longer than the retry horizon.
RowInv ==
    \A d \in Deliveries :
        /\ place[d] # "none" =>
              created[d] <= today /\ \E ahead \in SendAhead : due[d] = created[d] + ahead
        /\ Live(d) => today <= due[d] + Horizon

\* The job's date is past or present, and no run has finished for a later one.
JobInv ==
    /\ job.today <= today
    /\ lastDrop <= today /\ lastCreate <= today
    /\ job.step # "idle" => lastDrop <= job.today

\* Between the two halves of archive_and_drop_partition the copy stays complete.
CopyInv == RetentionCovers /\ job.step = "drop" => copied = InDated(dropDay)

\* The daily rhythm: a run that started yesterday may still be going on, none
\* that started earlier, and today's run has left nothing of the aged day.
RhythmInv ==
    ~missed =>
        /\ job.step # "idle" => job.today >= today - 1
        /\ \A day \in partitions : day >= today - (RetentionDays + 1)
        /\ lastDrop = today => \A day \in partitions : day >= today - RetentionDays

\* A day rows of which are kept apart, or cannot be because the default
\* partition has some.
Covered(day) == day \in partitions \/ InDefault(day) # {}

\* From today on, all days of the last clean loop are covered, and of the one
\* that is going on those it has passed.
AheadInv ==
    \A day \in Int : day >= today =>
        /\ lastCreate >= 0 /\ lastCreate <= day /\ day <= lastCreate + PreCreateDays =>
               Covered(day)
        /\ /\ job.step = "create" /\ job.loop = "clean"
           /\ job.today <= day /\ day < job.today + job.i
           => Covered(day)

Inv == TypeOK /\ RowInv /\ JobInv /\ CopyInv /\ RhythmInv /\ AheadInv /\ NoneLost

-----------------------------------------------------------------------------
\* A job that has not started is a job.
LEMMA IdleType == Idle \in JobStates
    BY RetentionAssumption DEF Job, Job, Idle, JobStates

\* The invariant holds after the migrations.
LEMMA InitInv == Init => Inv
<1> SUFFICES ASSUME Init PROVE Inv
    OBVIOUS
<1> USE RetentionAssumption
<1>1. TypeOK
  <2>1. job \in JobStates
    BY IdleType DEF Init
  <2>2. missed \in BOOLEAN
    BY DEF Init
  <2> QED
    BY <2>1, <2>2 DEF Init, TypeOK, JobStates
<1>2. RowInv /\ JobInv /\ CopyInv /\ NoneLost
    BY DEF Init, RowInv, JobInv, CopyInv, NoneLost, Job, Idle, Live, Stored
<1>3. RhythmInv /\ AheadInv
    BY DEF Init, RhythmInv, AheadInv, Job, Idle
<1> QED
    BY <1>1, <1>2, <1>3 DEF Inv

\* An insert lands in the partition of its day or in the default one, never in
\* one that is being dropped.
LEMMA InsertInv ==
    ASSUME Inv, NEW d \in Deliveries, NEW ahead \in SendAhead, insertDelivery(d, ahead)
    PROVE  Inv'
<1> USE RetentionAssumption DEF insertDelivery
<1>1. TypeOK'
    BY DEF Inv, TypeOK, JobStates
<1>2. RowInv'
    BY DEF Inv, TypeOK, JobStates, RowInv, Live, Stored
<1>3. JobInv' /\ RhythmInv'
    BY DEF Inv, JobInv, RhythmInv
<1>4. dropDay < today
    BY DEF Inv, TypeOK, JobStates, JobInv, dropDay
<1>5. CopyInv'
    BY <1>4 DEF Inv, TypeOK, JobStates, CopyInv, InDated, dropDay
<1>6. \A day : InDefault(day) \subseteq InDefault(day)'
    BY DEF InDefault, Inv, TypeOK, JobStates
<1>7. AheadInv'
    BY <1>6 DEF Inv, AheadInv, Covered
<1>8. NoneLost'
    BY DEF Inv, TypeOK, JobStates, NoneLost
<1> QED
    BY <1>1, <1>2, <1>3, <1>5, <1>7, <1>8 DEF Inv

\* Ending a delivery only makes it terminal.
LEMMA EndInv ==
    ASSUME Inv, NEW d \in Deliveries, End(d)
    PROVE  Inv'
<1> USE DEF End
<1>1. TypeOK' /\ JobInv' /\ RhythmInv' /\ NoneLost'
    BY DEF Inv, TypeOK, JobStates, JobInv, RhythmInv, NoneLost
<1>2. RowInv'
    BY DEF Inv, RowInv, Live, Stored
<1>3. CopyInv' /\ AheadInv'
    BY DEF Inv, CopyInv, AheadInv, Covered, InDated, InDefault, dropDay
<1> QED
    BY <1>1, <1>2, <1>3 DEF Inv

\* A day passes: the job may fall behind by it.
LEMMA DayInv ==
    ASSUME Inv, nextDay
    PROVE  Inv'
<1> USE RetentionAssumption DEF rowVars
<1>1. TypeOK' /\ NoneLost'
  <2>1. missed' \in BOOLEAN
    BY DEF nextDay, Inv, TypeOK, JobStates
  <2>2. today' \in Nat /\ UNCHANGED <<partitions, place, created, due, terminal, job, copied,
                                      lastCreate, lastDrop>>
    BY DEF nextDay, Inv, TypeOK, JobStates
  <2> QED
    BY <2>1, <2>2 DEF Inv, TypeOK, JobStates, NoneLost
<1>2. RowInv'
    BY DEF nextDay, Inv, TypeOK, JobStates, RowInv, Live, Stored
<1>3. JobInv'
    BY DEF nextDay, Inv, TypeOK, JobStates, JobInv
<1>4. RhythmInv'
    BY DEF nextDay, Inv, TypeOK, JobStates, JobInv, RhythmInv
<1>5. CopyInv'
    BY DEF nextDay, Inv, CopyInv, InDated, dropDay
<1>6. AheadInv'
    BY DEF nextDay, Inv, TypeOK, JobStates, AheadInv, Covered, InDefault
<1> QED
    BY <1>1, <1>2, <1>3, <1>4, <1>5, <1>6 DEF Inv

\* maintainPartitions reads the clock.
LEMMA StartInv ==
    ASSUME Inv, maintainPartitions
    PROVE  Inv'
<1> USE RetentionAssumption DEF maintainPartitions, rowVars, Job, Idle
<1>1. TypeOK' /\ NoneLost' /\ JobInv'
  <2>1. job' \in JobStates
    BY DEF Inv, TypeOK, JobStates
  <2> QED
    BY <2>1 DEF Inv, TypeOK, JobStates, NoneLost, JobInv, JobStates
<1>2. RowInv'
    BY DEF Inv, RowInv, Live, Stored
<1>3. RhythmInv'
    BY DEF Inv, TypeOK, JobStates, RhythmInv
<1>4. CopyInv'
    BY DEF Inv, TypeOK, JobStates, CopyInv
<1>5. AheadInv'
    BY DEF Inv, TypeOK, JobStates, AheadInv, Covered, InDefault
<1> QED
    BY <1>1, <1>2, <1>3, <1>4, <1>5 DEF Inv

\* A creation, failed or not, changes neither the rows nor the job's date.
LEMMA CreateInv ==
    ASSUME Inv, CreateDeliveryPartition \/ createFails
    PROVE  Inv'
<1> USE RetentionAssumption DEF rowVars, Job, Idle, CreateDays
<1>1. /\ job.step = "create"
      /\ job' \in JobStates /\ job'.today = job.today /\ job'.step \in {"create", "archive"}
      /\ job'.step = "create" =>
            job'.i = job.i + 1 /\ (job'.loop = "clean" => job.loop = "clean")
      /\ UNCHANGED <<today, place, created, due, terminal, copied, lastDrop, missed>>
  <2>1. PICK loop \in {"clean", "failed"} : AfterCreate(loop) /\ loop \in {job.loop, "failed"}
    BY DEF Inv, TypeOK, JobStates, CreateDeliveryPartition, createFails
  <2>2. CASE job.i < PreCreateDays
    BY <2>1, <2>2 DEF Inv, TypeOK, JobStates, AfterCreate, CreateDeliveryPartition, createFails
  <2>3. CASE ~(job.i < PreCreateDays)
    BY <2>1, <2>3 DEF Inv, TypeOK, JobStates, AfterCreate, CreateDeliveryPartition, createFails
  <2> QED
    BY <2>2, <2>3
<1>2. /\ partitions \subseteq partitions'
      /\ partitions' \subseteq partitions \cup {job.today + job.i}
    BY DEF CreateDeliveryPartition, createFails
<1>3. TypeOK'
    BY <1>1, <1>2 DEF Inv, TypeOK, JobStates, CreateDeliveryPartition, createFails
<1>4. RowInv' /\ NoneLost'
    BY <1>1 DEF Inv, RowInv, NoneLost, Live, Stored
<1>5. JobInv' /\ CopyInv'
    BY <1>1 DEF Inv, TypeOK, JobStates, JobInv, CopyInv, CreateDeliveryPartition, createFails
<1>6. RhythmInv'
    BY <1>1, <1>2 DEF Inv, TypeOK, JobStates, JobInv, RhythmInv
<1>7. \A day : Covered(day) => Covered(day)'
    BY <1>1, <1>2 DEF Covered, InDefault
<1>8. ASSUME CreateDeliveryPartition PROVE \A day : day = job.today + job.i => Covered(day)'
    BY <1>1, <1>8 DEF CreateDeliveryPartition, Covered, InDefault
<1>9. AheadInv'
  <2>1. CASE CreateDeliveryPartition
    <3> SUFFICES ASSUME NEW day \in Int, day >= today
                 PROVE  /\ lastCreate' >= 0 /\ lastCreate' <= day
                           /\ day <= lastCreate' + PreCreateDays => Covered(day)'
                        /\ job'.step = "create" /\ job'.loop = "clean" /\ job'.today <= day
                           /\ day < job'.today + job'.i => Covered(day)'
        BY <1>1 DEF AheadInv
    <3>1. job.loop = "clean" /\ job.today <= day /\ day <= job.today + job.i => Covered(day)'
        BY <1>1, <1>7, <1>8, <2>1 DEF Inv, TypeOK, JobStates, AheadInv
    <3> QED
        BY <1>1, <1>7, <2>1, <3>1
           DEF Inv, TypeOK, JobStates, AheadInv, CreateDeliveryPartition, AfterCreate
  <2>2. CASE createFails
    BY <1>1, <1>7, <2>2 DEF Inv, TypeOK, JobStates, AheadInv, createFails, AfterCreate
  <2> QED
    BY <2>1, <2>2
<1> QED
    BY <1>3, <1>4, <1>5, <1>6, <1>9 DEF Inv

\* All rows of an aged partition are terminal when it is copied: otherwise one
\* of them were still live more than RetentionDays after it was made.
LEMMA AgedTerminal ==
    ASSUME Inv, RetentionCovers, NEW d \in InDated(dropDay)
    PROVE  d \in terminal
<1> USE RetentionAssumption
<1> SUFFICES ASSUME d \notin terminal PROVE FALSE
    OBVIOUS
<1>1. d \in Deliveries /\ place[d] = "dated" /\ created[d] = dropDay
    BY DEF InDated
<1>2. PICK ahead \in SendAhead : due[d] = created[d] + ahead
    BY <1>1 DEF Inv, RowInv
<1>3. today <= due[d] + Horizon
    BY <1>1 DEF Inv, RowInv, Live, Stored
<1>4. ahead \in Nat /\ ahead + Horizon <= RetentionDays
    BY DEF RetentionCovers
<1> QED
    BY <1>1, <1>2, <1>3, <1>4 DEF Inv, TypeOK, JobStates, JobInv, dropDay

\* INSERT ... SELECT copies everything there is.
LEMMA ArchiveInv ==
    ASSUME Inv, archivePartition
    PROVE  Inv'
<1> USE RetentionAssumption DEF archivePartition, rowVars, Job, Idle
<1>1. TypeOK' /\ NoneLost' /\ JobInv'
    BY DEF Inv, TypeOK, JobStates, NoneLost, JobInv, InDated
<1>2. RowInv'
    BY DEF Inv, RowInv, Live, Stored
<1>3. RhythmInv'
    BY DEF Inv, TypeOK, JobStates, JobInv, RhythmInv, dropDay
<1>4. CopyInv'
    BY AgedTerminal DEF Inv, TypeOK, JobStates, CopyInv, InDated, dropDay, RetentionCovers
<1>5. AheadInv'
    BY DEF Inv, TypeOK, JobStates, AheadInv, Covered, InDefault
<1> QED
    BY <1>1, <1>2, <1>3, <1>4, <1>5 DEF Inv

\* DROP TABLE takes the rows that were copied and no others.
LEMMA DropInv ==
    ASSUME Inv, dropPartition
    PROVE  Inv'
<1> USE RetentionAssumption
<1>1. TypeOK'
  <2>1. job' \in JobStates
    BY IdleType DEF dropPartition
  <2>2. place' \in [Deliveries -> {"none", "dated", "default", "archive", "lost"}]
    BY DEF dropPartition, Job, Idle, Inv, TypeOK, JobStates
  <2>3. \A d \in Deliveries : place'[d] = "dated" => created[d] \in partitions'
    BY DEF dropPartition, Job, Idle, Inv, TypeOK, JobStates, InDated
  <2>4. partitions' \subseteq Int /\ copied' \subseteq Deliveries
    BY DEF dropPartition, Inv, TypeOK, JobStates
  <2>5. lastDrop' \in Int
    BY DEF dropPartition, Inv, TypeOK, JobStates
  <2>6. UNCHANGED <<today, created, due, terminal, lastCreate, missed>>
    BY DEF dropPartition
  <2> QED
    BY <2>1, <2>2, <2>3, <2>4, <2>5, <2>6 DEF Inv, TypeOK, JobStates
<1>2. RowInv' /\ JobInv' /\ CopyInv'
    BY DEF dropPartition, Job, Idle, Inv, TypeOK, JobStates, RowInv, JobInv, CopyInv, Live,
           Stored, InDated
<1>3. RhythmInv'
    BY DEF dropPartition, Job, Idle, Inv, TypeOK, JobStates, JobInv, RhythmInv, dropDay
<1>4. \A day : InDefault(day) \subseteq InDefault(day)'
    BY DEF dropPartition, Job, Idle, Inv, TypeOK, JobStates, InDefault, InDated
<1>5. dropDay < today
    BY DEF dropPartition, Job, Idle, Inv, TypeOK, JobStates, JobInv, dropDay
<1>6. AheadInv'
    BY <1>4, <1>5 DEF dropPartition, Job, Idle, Inv, TypeOK, JobStates, AheadInv, Covered, dropDay
<1>7. NoneLost'
    BY DEF dropPartition, Job, Idle, Inv, TypeOK, JobStates, NoneLost, CopyInv, RetentionCovers
<1> QED
    BY <1>1, <1>2, <1>3, <1>6, <1>7 DEF Inv

\* A failed run leaves nothing behind.
LEMMA FailInv ==
    ASSUME Inv, maintenanceFails
    PROVE  Inv'
<1> USE RetentionAssumption DEF maintenanceFails, rowVars, Job, Idle
<1>1. TypeOK' /\ NoneLost' /\ JobInv'
    BY DEF Inv, TypeOK, JobStates, NoneLost, JobInv
<1>2. RowInv'
    BY DEF Inv, RowInv, Live, Stored
<1>3. RhythmInv' /\ CopyInv'
    BY DEF Inv, TypeOK, JobStates, RhythmInv, CopyInv
<1>4. AheadInv'
    BY DEF Inv, TypeOK, JobStates, AheadInv, Covered, InDefault
<1> QED
    BY <1>1, <1>2, <1>3, <1>4 DEF Inv

-----------------------------------------------------------------------------
\* The invariant is inductive.
LEMMA Inductive == Spec => []Inv
<1>1. Inv /\ [Next]_vars => Inv'
  <2> SUFFICES ASSUME Inv, [Next]_vars PROVE Inv'
      OBVIOUS
  <2>1. CASE UNCHANGED vars
      BY <2>1 DEF vars, rowVars, Inv, TypeOK, JobStates, RowInv, JobInv, CopyInv, RhythmInv,
                  AheadInv, NoneLost, Live, Stored, Covered, InDated, InDefault, dropDay
  <2>2. CASE Next
      BY <2>2, InsertInv, EndInv, DayInv, StartInv, CreateInv, ArchiveInv, DropInv, FailInv
         DEF Next, Maintenance
  <2> QED
      BY <2>1, <2>2
<1> QED
    BY <1>1, InitInv, PTL DEF Spec

\* Every variable keeps its type, and a row of a dated partition is in the one
\* of its day, whatever the job creates and drops.
THEOREM RetentionTypes == Spec => []TypeOK
<1>1. Inv => TypeOK
    BY DEF Inv
<1> QED
    BY <1>1, Inductive, PTL

\* With a window that covers the furthest send_at and all retries, archiving
\* and dropping loses no delivery, however the job is delayed or interrupted.
THEOREM NothingLost == Spec => []NoneLost
<1>1. Inv => NoneLost
    BY DEF Inv
<1> QED
    BY <1>1, Inductive, PTL

\* While a run finishes every day, aged partitions are gone a day after the
\* window.
THEOREM AgedDropped == Spec => []AgedAreDropped
<1>1. Inv => AgedAreDropped
    BY DEF Inv, RhythmInv, AgedAreDropped
<1> QED
    BY <1>1, Inductive, PTL

\* Inserts of the next PreCreateDays days find their partition, although none
\* of the runs that should follow the last one happens.
THEOREM PartitionsAhead == Spec => []CreatedAhead
<1>1. Inv => CreatedAhead
  <2> SUFFICES ASSUME Inv, lastCreate >= 0, today <= lastCreate + PreCreateDays
               PROVE  Covered(today)
      BY DEF CreatedAhead, Covered
  <2> QED
      BY RetentionAssumption DEF Inv, TypeOK, JobStates, JobInv, AheadInv
<1> QED
    BY <1>1, Inductive, PTL
=============================================================================
