---------------------------------- MODULE Pool ----------------------------------
(***************************************************************************)
(* One worker process from start to exit: the reader, the channel, the     *)
(* goroutines it feeds, and the order in which everything is taken down    *)
(* when the context is cancelled.  Worker.Run and readLoop in              *)
(* internal/worker/worker.go, Queue.Read in internal/adapters/redis,       *)
(* run in cmd/worker/main.go.  What process does with a message is the     *)
(* module Worker.                                                          *)
(*                                                                         *)
(* pc is where the main goroutine stands:                                  *)
(*    ensure  creating the consumer groups                                 *)
(*    check   at the top of readLoop       read     in XREADGROUP          *)
(*    backoff in the second after a failed read                            *)
(*    feed    offering the head of held to the channel                     *)
(*    close   readLoop has returned        wait     in wg.Wait             *)
(*    stopped Run has returned             exited   connections are closed *)
(***************************************************************************)
EXTENDS Integers, SequencesExt

CONSTANTS Messages,     \* entries of the streams
          Poison,       \* those that do not decode
          Streams,      \* the streams this worker drains, in priority order
          StreamOf,     \* the stream of an entry
          Goroutines,   \* Config.Concurrency of them
          BatchSize     \* Config.BatchSize

ASSUME PoolAssumption ==
    /\ Poison \subseteq Messages
    /\ Goroutines # {} /\ IsFiniteSet(Goroutines)
    /\ Streams \in Seq(ToSet(Streams))
    /\ BatchSize \in Nat \ {0}
    /\ StreamOf \in [Messages -> ToSet(Streams)]

VARIABLES stop,       \* the context is cancelled
          pc,
          unread,     \* per stream, the entries the group has not handed out
          pending,    \* handed out and not acknowledged
          dead,       \* poison entries published to the dead-letter stream
          held,       \* what readLoop has not offered of its last read
          jobs,       \* the channel
          closed,     \* close(jobs)
          working,    \* the message a goroutine processes: {} or one
          returned,   \* the goroutines whose range loop ended
          published,  \* history: entries the relay has added
          swallowed,  \* history: entries handed out by a read that failed
          processed   \* history: messages process has returned from

readerVars == <<pc, held>>
queueVars == <<unread, pending, dead, published, swallowed>>
poolVars == <<jobs, closed, working, returned, processed>>
vars == <<stop, readerVars, queueVars, poolVars>>

\* Mutant: room for a whole read.
ChannelSizeBatch == BatchSize * Len(Streams)

\* make(chan domain.StreamMessage, w.cfg.Concurrency)
ChannelSize == Cardinality(Goroutines)

Init ==
    /\ stop = FALSE
    /\ pc = "ensure"
    /\ unread = [s \in ToSet(Streams) |-> <<>>]
    /\ pending = {} /\ dead = {} /\ published = {} /\ swallowed = {}
    /\ held = <<>> /\ jobs = <<>>
    /\ closed = FALSE
    /\ working = [g \in Goroutines |-> {}]
    /\ returned = {} /\ processed = {}

-----------------------------------------------------------------------------
\* SIGTERM or an interrupt.
Signal == ~stop /\ stop' = TRUE /\ UNCHANGED <<readerVars, queueVars, poolVars>>

\* XADD by the relay.
Publish(m) ==
    /\ m \notin published
    /\ published' = published \cup {m}
    /\ unread' = [unread EXCEPT ![StreamOf[m]] = Append(@, m)]
    /\ UNCHANGED <<stop, readerVars, pending, dead, swallowed, poolVars>>

Goto(label) == pc' = label /\ UNCHANGED held

\* Run: without its groups the worker does not start.
EnsureGroups ==
    /\ pc = "ensure"
    /\ Goto("check") \/ Goto("stopped")
    /\ UNCHANGED <<stop, queueVars, poolVars>>

CheckContext ==
    /\ pc = "check"
    /\ Goto(IF stop THEN "close" ELSE "read")
    /\ UNCHANGED <<stop, queueVars, poolVars>>

\* XREADGROUP COUNT n hands out up to n entries of every stream.
Taken(s) == SubSeq(unread[s], 1, Min({BatchSize, Len(unread[s])}))

\* In the order of the streams.
Batch == FlattenSeq([i \in DOMAIN Streams |-> Taken(Streams[i])])

HandOut ==
    unread' = [s \in DOMAIN unread |->
                  SubSeq(unread[s], Len(Taken(s)) + 1, Len(unread[s]))]

\* The errors of the publish and of the acknowledgement are ignored.
dropPoison(entries) ==
    \E parked, unacked \in SUBSET (Poison \cap entries) :
        /\ dead' = dead \cup parked
        /\ pending' = pending \cup (entries \ Poison) \cup unacked

\* The entries that decode, in their order.
Decoded(entries) ==
    FlattenSeq([i \in DOMAIN entries |->
                   IF entries[i] \in Poison THEN <<>> ELSE <<entries[i]>>])

\* No entry within BlockTime is an empty batch.
Read ==
    /\ pc = "read"
    /\ HandOut
    /\ dropPoison(ToSet(Batch))
    /\ held' = Decoded(Batch)
    /\ pc' = "feed"
    /\ UNCHANGED <<stop, published, swallowed, poolVars>>

\* The answer is lost, perhaps because the context was cancelled: Redis may
\* have handed the entries out.
ReadFails ==
    /\ pc = "read"
    /\ \/ /\ HandOut
          /\ pending' = pending \cup ToSet(Batch)
          /\ swallowed' = swallowed \cup ToSet(Batch)
       \/ UNCHANGED <<unread, pending, swallowed>>
    /\ Goto(IF stop THEN "close" ELSE "backoff")
    /\ UNCHANGED <<stop, dead, published, poolVars>>

\* select between the context and the timer; either may win when both are ready.
Backoff ==
    /\ pc = "backoff"
    /\ Goto("check") \/ (stop /\ Goto("close"))
    /\ UNCHANGED <<stop, queueVars, poolVars>>

\* The loop over the batch ends.
Fed ==
    /\ pc = "feed"
    /\ held = <<>>
    /\ Goto("check")
    /\ UNCHANGED <<stop, queueVars, poolVars>>

\* case jobs <- msg
Send ==
    /\ pc = "feed"
    /\ held # <<>>
    /\ Len(jobs) < ChannelSize
    /\ jobs' = Append(jobs, Head(held))
    /\ held' = Tail(held)
    /\ UNCHANGED <<stop, pc, queueVars, closed, working, returned, processed>>

\* case <-ctx.Done(): the rest of the batch is left to the pending list.
Abandon ==
    /\ pc = "feed"
    /\ held # <<>>
    /\ stop
    /\ Goto("close")
    /\ UNCHANGED <<stop, queueVars, poolVars>>

\* Mutant: the channel stays open.
CloseJobsForgotten ==
    /\ pc = "close"
    /\ Goto("wait")
    /\ UNCHANGED <<stop, queueVars, poolVars>>

CloseJobs ==
    /\ pc = "close"
    /\ closed' = TRUE
    /\ Goto("wait")
    /\ UNCHANGED <<stop, queueVars, jobs, working, returned, processed>>

\* Mutant: an empty channel is taken for a finished pool.
AllReturnedEarly == jobs = <<>>

\* The counter of the wait group is zero.
AllReturned == returned = Goroutines

Wait ==
    /\ pc = "wait"
    /\ AllReturned
    /\ Goto("stopped")
    /\ UNCHANGED <<stop, queueVars, poolVars>>

\* cmd/worker: the deferred closes of Redis and Postgres.
Exit ==
    /\ pc = "stopped"
    /\ Goto("exited")
    /\ UNCHANGED <<stop, queueVars, poolVars>>

Reader ==
    EnsureGroups \/ CheckContext \/ Read \/ ReadFails \/ Backoff \/ Fed \/ Send
        \/ Abandon \/ CloseJobs \/ Wait \/ Exit

-----------------------------------------------------------------------------
\* Mutant: the message is acknowledged when it is taken.
TakeAndAck(g) ==
    /\ working[g] = {} /\ g \notin returned
    /\ jobs # <<>>
    /\ working' = [working EXCEPT ![g] = {Head(jobs)}]
    /\ jobs' = Tail(jobs)
    /\ pending' = pending \ {Head(jobs)}
    /\ UNCHANGED <<stop, readerVars, unread, dead, published, swallowed, closed, returned,
                   processed>>

\* Mutant: a goroutine stops taking messages when the context is cancelled.
TakeUnlessStopped(g) ==
    /\ working[g] = {} /\ g \notin returned
    /\ jobs # <<>> /\ ~stop
    /\ working' = [working EXCEPT ![g] = {Head(jobs)}]
    /\ jobs' = Tail(jobs)
    /\ UNCHANGED <<stop, readerVars, queueVars, closed, returned, processed>>

\* for msg := range jobs
Take(g) ==
    /\ working[g] = {} /\ g \notin returned
    /\ jobs # <<>>
    /\ working' = [working EXCEPT ![g] = {Head(jobs)}]
    /\ jobs' = Tail(jobs)
    /\ UNCHANGED <<stop, readerVars, queueVars, closed, returned, processed>>

\* process runs with a context that is never cancelled; its deferred Ack may
\* fail.
process(g) ==
    /\ working[g] # {}
    /\ processed' = processed \cup working[g]
    /\ pending' = pending \ working[g] \/ UNCHANGED pending
    /\ working' = [working EXCEPT ![g] = {}]
    /\ UNCHANGED <<stop, readerVars, unread, dead, published, swallowed, jobs, closed,
                   returned>>

\* The channel is closed and drained.
Return(g) ==
    /\ working[g] = {} /\ g \notin returned
    /\ closed /\ jobs = <<>>
    /\ returned' = returned \cup {g}
    /\ UNCHANGED <<stop, readerVars, queueVars, jobs, closed, working, processed>>

Goroutine(g) == Take(g) \/ process(g) \/ Return(g)

Next ==
    \/ Signal
    \/ \E m \in Messages : Publish(m)
    \/ Reader
    \/ \E g \in Goroutines : Goroutine(g)

\* The runtime schedules every goroutine, and every call process makes ends:
\* the wait for a token and the provider call have their time limits.
Spec == Init /\ [][Next]_vars /\ WF_vars(Reader) /\ \A g \in Goroutines : WF_vars(Goroutine(g))

-----------------------------------------------------------------------------
\* The channel holds at most as many messages as there are goroutines, and a
\* goroutine one.
TypeOK ==
    /\ Len(jobs) <= Cardinality(Goroutines)
    /\ \A g \in Goroutines : Cardinality(working[g]) <= 1
    /\ pc \in {"ensure", "check", "read", "backoff", "feed", "close", "wait", "stopped",
               "exited"}
    /\ stop \in BOOLEAN /\ closed \in BOOLEAN
    /\ returned \subseteq Goroutines
    /\ UNION {pending, dead, published, swallowed, processed} \subseteq Messages

\* "drains in-flight work and returns": when Run has returned nothing is in the
\* channel or being processed, so the connections are closed under nobody, and
\* the only entries left unprocessed are those the reader never offered and
\* those a failed read swallowed.
Drained ==
    pc \in {"stopped", "exited"} =>
        /\ jobs = <<>> /\ \A g \in Goroutines : working[g] = {}
        /\ pending \ (processed \cup Poison) \subseteq ToSet(held) \cup swallowed

\* At least once: an entry that decodes leaves the pending list only after
\* process has returned from it.
AckedAfterProcess ==
    \A m \in published \ Poison :
        \/ m \in pending \cup processed
        \/ m \in ToSet(unread[StreamOf[m]])

\* What is in the channel is processed, also when the context is cancelled
\* while it waits there.
FedIsProcessed == \A m \in Messages : (m \in ToSet(jobs)) ~> (m \in processed)

\* After a signal the worker exits, whatever it was doing.
StopExits == stop ~> (pc = "exited")
=============================================================================
