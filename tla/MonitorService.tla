--------------------------- MODULE MonitorService ---------------------------
(***************************************************************************)
(* The monitor service (monitors/monitor.go): callers count, a timer       *)
(* collects every counter into an event payload, and every collectCount    *)
(* collections the queued payloads are handed to a new goroutine that      *)
(* posts them and puts back what was not accepted.  Stop() flushes.        *)
(*                                                                         *)
(* Processes: the callers (one atomic step per method call), the timer     *)
(* callback collect(), the goroutine running Stop(), and the goroutines    *)
(* started by postEvents().  ms.lock is held from the first counter of a   *)
(* collection to the end of the post, so that counters may change between  *)
(* two snapshots of one payload while the queue may not.                   *)
(*                                                                         *)
(* Payloads are numbered in the order they are created; eventPayloads and  *)
(* the goroutines' copies hold those numbers as the code holds pointers.   *)
(***************************************************************************)
EXTENDS Counter, Sequences, FiniteSetsExt

CONSTANTS
    Counters,       \* the counters callers may create
    Monitors,       \* the monitors callers may create
    Cumalative,     \* the counters created with cumalative = true
    IgnoreZero,     \* the counters created with ignoreZeroSnapshots = true
    WithAttribs,    \* the counters created by NewCounterWithAttribs
    CollectCount,   \* NewMonitorService's collectCount
    Amounts,        \* arguments of Set, Add and SetInc
    Senders,        \* bound: goroutines posting at the same time
    MaxCalls,       \* bound: method calls on counters and monitors
    MaxPayloads,    \* bound: payloads ever created
    StopWaits,      \* does ExecTimer.Stop() wait for a running callback?
    LostReplies     \* may a post fail after events were accepted upstream?

ASSUME CollectCountAssumption == CollectCount \in Nat \ {0}
ASSUME BoundsAssumption == MaxCalls \in Nat /\ MaxPayloads \in Nat
ASSUME AmountsAssumption == Amounts \subseteq Int
ASSUME FlagsAssumption == StopWaits \in BOOLEAN /\ LostReplies \in BOOLEAN

VARIABLES
    ctr,            \* the counters
    monitors,       \* ms.monitors, in the order they were created
    counters,       \* Monitor.counters of each monitor
    lock,           \* ms.lock: "free", or "timer" / "stop" during a collection
    todo,           \* per monitor, the counters the lock holder has still to collect
    snapshots,      \* counter snapshots of the payload being built
    payloads,       \* the snapshots of every payload created
    nPayloads,      \* number of payloads created
    eventPayloads,  \* ms.eventPayloads: the queue
    sendCountdown,  \* ms.sendCountdown
    sender,         \* the goroutines of postEvents
    timer,          \* ms.snapshotTimer
    callback,       \* the run of collect() the timer has started, if any
    stopPC,         \* where Stop() is
    received,       \* upstream: payloads accepted
    panicked,       \* a call panicked; the process is gone
    counted,        \* history: what the callers made each counter count
    calls,          \* number of calls made, for MaxCalls
    wanted,         \* history: counters added and not deleted since
    overlapped,     \* history: two posts were once in flight together
    requeued,       \* history: a post once failed
    duplicated      \* history: payloads upstream accepted twice

callerVars == <<ctr, counted, monitors, counters, calls, wanted, panicked>>
collectVars == <<lock, todo, snapshots, payloads, nPayloads, sendCountdown>>
threadVars == <<timer, callback, stopPC>>
upstreamVars == <<received, duplicated>>
vars == <<callerVars, collectVars, threadVars, upstreamVars,
          eventPayloads, sender, overlapped, requeued>>

PayloadIds == 1..MaxPayloads
Snapshot == [ctr : Counters, value : Int]
Idle == [pc |-> "idle", batch |-> <<>>]

Init ==
    /\ ctr = [c \in Counters |-> NewCounter(c \in Cumalative, c \in IgnoreZero)]
    /\ counted = [c \in Counters |-> 0]
    /\ monitors = <<>>
    /\ counters = [m \in Monitors |-> <<>>]
    /\ lock = "free"
    /\ todo = <<>>
    /\ snapshots = <<>>
    /\ payloads = [p \in PayloadIds |-> <<>>]
    /\ nPayloads = 0
    /\ eventPayloads = <<>>
    /\ sendCountdown = CollectCount - 1
    /\ sender = [s \in Senders |-> Idle]
    /\ timer = "nil"
    /\ callback = "none"
    /\ stopPC = "none"
    /\ received = {}
    /\ panicked = FALSE
    /\ calls = 0
    /\ wanted = [m \in Monitors |-> {}]
    /\ overlapped = FALSE
    /\ requeued = FALSE
    /\ duplicated = {}

-----------------------------------------------------------------------------
(***************************************************************************)
(* Calls on counters.  They take counterLock only, so they may fall        *)
(* between any two steps of a collection.                                  *)
(***************************************************************************)
Call == ~panicked /\ calls < MaxCalls /\ calls' = calls + 1

Update(c, new, count) ==
    /\ Call
    /\ ctr' = [ctr EXCEPT ![c] = new]
    /\ counted' = [counted EXCEPT ![c] = count]
    /\ UNCHANGED <<monitors, counters, wanted, panicked, collectVars, threadVars,
                   upstreamVars, eventPayloads, sender, overlapped, requeued>>

CounterCall(c) ==
    \/ Update(c, Inc(ctr[c]), counted[c] + ctr[c].incBy)
    \/ \E v \in Amounts : \/ Update(c, Add(ctr[c], v), counted[c] + v)
                          \/ Update(c, Set(ctr[c], v), v)
                          \/ Update(c, SetInc(ctr[c], v), counted[c])

\* NewCounter leaves the attribute map nil and writing to a nil map panics;
\* for the other counters only labels change.
AddAttribute(c) ==
    /\ Call
    /\ panicked' = (c \notin WithAttribs)
    /\ UNCHANGED <<ctr, counted, monitors, counters, wanted, collectVars, threadVars,
                   upstreamVars, eventPayloads, sender, overlapped, requeued>>

-----------------------------------------------------------------------------
(***************************************************************************)
(* Calls on the service and its monitors; they take ms.lock.               *)
(***************************************************************************)
NewMonitor(m) ==
    /\ ~panicked
    /\ lock = "free"
    /\ m \notin Range(monitors)
    /\ monitors' = Append(monitors, m)
    /\ UNCHANGED <<ctr, counted, counters, calls, wanted, panicked, collectVars, threadVars,
                   upstreamVars, eventPayloads, sender, overlapped, requeued>>

AddCounter(m, c) ==
    /\ Call
    /\ lock = "free"
    /\ m \in Range(monitors)
    /\ counters' = [counters EXCEPT ![m] = Append(@, c)]
    /\ wanted' = [wanted EXCEPT ![m] = @ \cup {c}]
    /\ UNCHANGED <<ctr, counted, monitors, panicked, collectVars, threadVars,
                   upstreamVars, eventPayloads, sender, overlapped, requeued>>

\* Closes the gap at the last occurrence of c and drops the last element; it
\* drops the last element even when c does not occur.
WithoutCounter(list, c) ==
    LET n  == Len(list)
        at == {i \in 1..n : list[i] = c}
        i0 == IF at = {} THEN n ELSE Max(at)
    IN  [i \in 1..n - 1 |-> IF i < i0 THEN list[i] ELSE list[i + 1]]

\* On an empty list the code slices to a negative length and panics.
DeleteCounter(m, c) ==
    /\ Call
    /\ lock = "free"
    /\ m \in Range(monitors)
    /\ IF counters[m] = <<>>
       THEN panicked' = TRUE /\ UNCHANGED counters
       ELSE /\ counters' = [counters EXCEPT ![m] = WithoutCounter(@, c)]
            /\ UNCHANGED panicked
    /\ wanted' = [wanted EXCEPT ![m] = @ \ {c}]
    /\ UNCHANGED <<ctr, counted, monitors, collectVars, threadVars,
                   upstreamVars, eventPayloads, sender, overlapped, requeued>>

-----------------------------------------------------------------------------
(***************************************************************************)
(* Start, the timer, and the first half of Stop.  ExecTimer is a library:  *)
(* it calls collect() again one interval after collect() returned, and     *)
(* Stop() ends that, with or without waiting for a running call            *)
(* (StopWaits).  Start is called before any other Start or after Stop.     *)
(***************************************************************************)
Start ==
    /\ ~panicked
    /\ timer # "running" /\ callback = "none" /\ stopPC \in {"none", "done"}
    /\ timer' = "running"
    /\ stopPC' = "none"
    /\ UNCHANGED <<callerVars, collectVars, callback, upstreamVars,
                   eventPayloads, sender, overlapped, requeued>>

Tick ==
    /\ ~panicked
    /\ timer = "running" /\ callback = "none"
    /\ callback' = "fired"
    /\ UNCHANGED <<callerVars, collectVars, timer, stopPC, upstreamVars,
                   eventPayloads, sender, overlapped, requeued>>

Stop ==
    /\ ~panicked
    /\ stopPC = "none"
    /\ timer' = IF timer = "running" THEN "stopped" ELSE timer
    /\ stopPC' = "timer"
    /\ UNCHANGED <<callerVars, collectVars, callback, upstreamVars,
                   eventPayloads, sender, overlapped, requeued>>

TimerStopped ==
    /\ ~panicked
    /\ stopPC = "timer"
    /\ StopWaits => callback = "none"
    /\ stopPC' = "wait"
    /\ UNCHANGED <<callerVars, collectVars, timer, callback, upstreamVars,
                   eventPayloads, sender, overlapped, requeued>>

\* Faulty variant of AllSent: Wait() does not wait.
AllSentUnchecked == TRUE

\* What sendWG.Wait() waits for.
AllSent == \A s \in Senders : sender[s] = Idle

\* sendWG.Wait(), before and after the final post.
SendersDone ==
    /\ ~panicked
    /\ AllSent
    /\ \/ stopPC = "wait" /\ stopPC' = "lock"
       \/ stopPC = "waitLast" /\ stopPC' = "done"
    /\ UNCHANGED <<callerVars, collectVars, timer, callback, upstreamVars,
                   eventPayloads, sender, overlapped, requeued>>

-----------------------------------------------------------------------------
(***************************************************************************)
(* A collection by h, the timer callback or Stop(): lock, collectEvents,   *)
(* then post or count down, unlock.                                        *)
(***************************************************************************)
AtLock(h) == IF h = "timer" THEN callback = "fired" ELSE stopPC = "lock"

\* The bounds are guards here, where the holder has nothing locked yet.
BeginCollect(h) ==
    /\ ~panicked
    /\ lock = "free" /\ AtLock(h)
    /\ nPayloads < MaxPayloads
    /\ \E s \in Senders : sender[s] = Idle
    /\ lock' = h
    /\ todo' = [i \in DOMAIN monitors |-> counters[monitors[i]]]
    /\ snapshots' = <<>>
    /\ callback' = IF h = "timer" THEN "collecting" ELSE callback
    /\ stopPC' = IF h = "stop" THEN "collecting" ELSE stopPC
    /\ UNCHANGED <<callerVars, payloads, nPayloads, sendCountdown, timer,
                   upstreamVars, eventPayloads, sender, overlapped, requeued>>

CollectCounter ==
    /\ ~panicked
    /\ lock # "free" /\ todo # <<>> /\ Head(todo) # <<>>
    /\ LET c == Head(Head(todo)) IN
       /\ snapshots' = IF HasSnapshot(ctr[c])
                       THEN Append(snapshots, [ctr |-> c, value |-> ctr[c].value])
                       ELSE snapshots
       /\ ctr' = [ctr EXCEPT ![c] = AfterCollect(@)]
    /\ todo' = [todo EXCEPT ![1] = Tail(@)]
    /\ UNCHANGED <<counted, monitors, counters, calls, wanted, panicked, lock, payloads,
                   nPayloads, sendCountdown, threadVars, upstreamVars,
                   eventPayloads, sender, overlapped, requeued>>

CollectNextMonitor ==
    /\ ~panicked
    /\ lock # "free" /\ todo # <<>> /\ Head(todo) = <<>>
    /\ todo' = Tail(todo)
    /\ UNCHANGED <<callerVars, lock, snapshots, payloads, nPayloads, sendCountdown,
                   threadVars, upstreamVars, eventPayloads, sender, overlapped, requeued>>

\* The queue with the payload just built, if it has any snapshot.
Collected ==
    IF snapshots = <<>> THEN eventPayloads ELSE Append(eventPayloads, nPayloads + 1)

AddPayload ==
    /\ payloads' = IF snapshots = <<>> THEN payloads
                   ELSE [payloads EXCEPT ![nPayloads + 1] = snapshots]
    /\ nPayloads' = IF snapshots = <<>> THEN nPayloads ELSE nPayloads + 1
    /\ snapshots' = <<>>

\* postEvents: a goroutine of its own gets the queue.
PostEvents(queue) ==
    /\ \E s \in Senders :
          /\ sender[s] = Idle
          /\ sender' = [sender EXCEPT ![s] = [pc |-> "posting", batch |-> queue]]
    /\ eventPayloads' = <<>>
    /\ overlapped' = (overlapped \/ \E s \in Senders : sender[s] # Idle)

\* Faulty variants of NextCountdown: off by one, never reset, never counted.
CountdownTooLong == IF sendCountdown = 0 THEN CollectCount ELSE sendCountdown - 1
CountdownNotReset == sendCountdown - 1
CountdownStuck == IF sendCountdown = 0 THEN CollectCount - 1 ELSE sendCountdown

NextCountdown == IF sendCountdown = 0 THEN CollectCount - 1 ELSE sendCountdown - 1

EndCollect ==
    /\ ~panicked
    /\ lock = "timer" /\ todo = <<>>
    /\ AddPayload
    /\ IF sendCountdown = 0
       THEN PostEvents(Collected)
       ELSE eventPayloads' = Collected /\ UNCHANGED <<sender, overlapped>>
    /\ sendCountdown' = NextCountdown
    /\ lock' = "free"
    /\ callback' = "none"
    /\ UNCHANGED <<callerVars, todo, timer, stopPC, upstreamVars, requeued>>

\* Faulty variant of EndStopCollect: ms.lock is kept while Stop() waits.
EndStopCollectLocked ==
    /\ ~panicked
    /\ stopPC = "collecting" /\ todo = <<>>
    /\ AddPayload
    /\ PostEvents(Collected)
    /\ stopPC' = "waitLast"
    /\ UNCHANGED <<callerVars, lock, todo, sendCountdown, timer, callback, upstreamVars, requeued>>

EndStopCollect ==
    /\ ~panicked
    /\ lock = "stop" /\ todo = <<>>
    /\ AddPayload
    /\ PostEvents(Collected)
    /\ lock' = "free"
    /\ stopPC' = "waitLast"
    /\ UNCHANGED <<callerVars, todo, sendCountdown, timer, callback, upstreamVars, requeued>>

-----------------------------------------------------------------------------
(***************************************************************************)
(* A goroutine of postEvents.  The outcome of PostMeasurementEvents is any *)
(* the interface allows: all accepted, an error, or a list of the events   *)
(* that failed, in the order they were given (events.go).  An error may    *)
(* hide events D that were accepted, when replies can be lost.             *)
(***************************************************************************)
Accept(D) ==
    /\ received' = received \cup D
    /\ duplicated' = duplicated \cup (received \cap D)

SendDone(s) ==
    /\ ~panicked
    /\ sender[s].pc = "posting"
    /\ Accept(Range(sender[s].batch))
    /\ sender' = [sender EXCEPT ![s] = Idle]
    /\ UNCHANGED <<callerVars, collectVars, threadVars, eventPayloads, overlapped, requeued>>

PutBack(s, failed) ==
    /\ sender' = [sender EXCEPT ![s] = [pc |-> "requeue", batch |-> failed]]
    /\ requeued' = TRUE
    /\ UNCHANGED <<callerVars, collectVars, threadVars, eventPayloads, overlapped>>

SendError(s) ==
    /\ ~panicked
    /\ sender[s].pc = "posting" /\ sender[s].batch # <<>>
    /\ \E D \in SUBSET Range(sender[s].batch) :
          /\ ~LostReplies => D = {}
          /\ Accept(D)
    /\ PutBack(s, sender[s].batch)

\* The events that failed are some of the batch, n of them, in its order.
SendPartial(s) ==
    /\ ~panicked
    /\ sender[s].pc = "posting"
    /\ LET batch == sender[s].batch IN
       \E n \in DOMAIN batch : \E f \in [1..n -> DOMAIN batch] :
          /\ \A i, j \in 1..n : i < j => f[i] < f[j]
          /\ LET failed == [i \in 1..n |-> batch[f[i]]] IN
             /\ Accept(Range(batch) \ Range(failed))
             /\ PutBack(s, failed)

\* Faulty variants of Requeued: at the end, and in place of the queue.
RequeuedLast(batch) == eventPayloads \o batch
RequeuedOnly(batch) == batch

\* The queue with a batch put back in front.
Requeued(batch) == batch \o eventPayloads

Requeue(s) ==
    /\ ~panicked
    /\ sender[s].pc = "requeue"
    /\ lock = "free"
    /\ eventPayloads' = Requeued(sender[s].batch)
    /\ sender' = [sender EXCEPT ![s] = Idle]
    /\ UNCHANGED <<callerVars, collectVars, threadVars, upstreamVars, overlapped, requeued>>

-----------------------------------------------------------------------------
Caller ==
    \/ \E c \in Counters : CounterCall(c) \/ AddAttribute(c)
    \/ \E m \in Monitors :
          \/ NewMonitor(m)
          \/ \E c \in Counters : AddCounter(m, c) \/ DeleteCounter(m, c)

Service ==
    \/ Start \/ Tick \/ Stop \/ TimerStopped \/ SendersDone
    \/ \E h \in {"timer", "stop"} : BeginCollect(h)
    \/ CollectCounter \/ CollectNextMonitor \/ EndCollect \/ EndStopCollect

Sending ==
    \E s \in Senders : SendDone(s) \/ SendError(s) \/ SendPartial(s) \/ Requeue(s)

Next == Caller \/ Service \/ Sending

Spec == Init /\ [][Next]_vars

-----------------------------------------------------------------------------
(***************************************************************************)
(* Fairness.  A running goroutine keeps running; the mutex hands itself to *)
(* a waiter that keeps asking (Go's mutex starves nobody), hence SF; the   *)
(* timer fires; a post returns.                                            *)
(***************************************************************************)
Progress ==
    /\ WF_vars(Tick) /\ WF_vars(TimerStopped) /\ WF_vars(SendersDone)
    /\ \A h \in {"timer", "stop"} : SF_vars(BeginCollect(h))
    /\ WF_vars(CollectCounter) /\ WF_vars(CollectNextMonitor)
    /\ WF_vars(EndCollect) /\ WF_vars(EndStopCollect)
    /\ \A s \in Senders : /\ WF_vars(SendDone(s) \/ SendError(s) \/ SendPartial(s))
                          /\ SF_vars(Requeue(s))

FairSpec == Spec /\ Progress

\* Upstream: an event that is posted again and again is accepted some time.
Delivers(p) == \E s \in Senders : p \in Range(sender[s].batch) /\ SendDone(s)
RecoveringSpec == FairSpec /\ \A p \in PayloadIds : SF_vars(Delivers(p))

-----------------------------------------------------------------------------
(***************************************************************************)
(* Properties.                                                             *)
(***************************************************************************)

\* Type invariant: every variable has the type of the Go field it stands for.
TypeOK ==
    /\ ctr \in [Counters -> CounterType]
    /\ counted \in [Counters -> Int]
    /\ monitors \in Seq(Monitors)
    /\ counters \in [Monitors -> Seq(Counters)]
    /\ lock \in {"free", "timer", "stop"}
    /\ todo \in Seq(Seq(Counters))
    /\ snapshots \in Seq(Snapshot)
    /\ payloads \in [PayloadIds -> Seq(Snapshot)]
    /\ nPayloads \in 0..MaxPayloads
    /\ eventPayloads \in Seq(PayloadIds)
    /\ sendCountdown \in 0..CollectCount - 1
    /\ sender \in [Senders -> [pc : {"idle", "posting", "requeue"}, batch : Seq(PayloadIds)]]
    /\ timer \in {"nil", "running", "stopped"}
    /\ callback \in {"none", "fired", "collecting"}
    /\ stopPC \in {"none", "timer", "wait", "lock", "collecting", "waitLast", "done"}
    /\ received \in SUBSET PayloadIds
    /\ duplicated \in SUBSET PayloadIds
    /\ panicked \in BOOLEAN /\ overlapped \in BOOLEAN /\ requeued \in BOOLEAN
    /\ calls \in 0..MaxCalls
    /\ wanted \in [Monitors -> SUBSET Counters]

\* The payloads the service still has: queued, or with a goroutine.
Held == Range(eventPayloads) \cup UNION {Range(sender[s].batch) : s \in Senders}

\* Whatever posts fail, wholly or in part, and however collections, posts, put
\* backs and Stop() interleave, every payload collectEvents() ever created is
\* queued, with a posting goroutine, or accepted upstream.
NoPayloadLost == Held \cup received = 1..nPayloads

\* The copy made by postEvents() and the put back never leave a payload in two
\* places, or twice in one: no goroutine posts what another one has.
HeldOnce ==
    /\ IsInjective(eventPayloads)
    /\ \A s \in Senders :
          /\ IsInjective(sender[s].batch)
          /\ Range(sender[s].batch) \cap Range(eventPayloads) = {}
          /\ \A t \in Senders \ {s} : Range(sender[s].batch) \cap Range(sender[t].batch) = {}

\* When an error reply means that nothing was accepted, retries never deliver
\* a payload a second time, and never will: nothing accepted is still held.
AcceptedOnce == ~LostReplies => duplicated = {} /\ Held \cap received = {}

\* The payloads are accounted for: none is lost, none is in two places, and none
\* accepted twice, over any interleaving of collections, posts and put backs.
Accounting == NoPayloadLost /\ HeldOnce /\ AcceptedOnce

\* The sum of a counter's snapshots in a list of snapshots, and in payloads.
Total(n, amount) ==
    LET sum[i \in 0..n] == IF i = 0 THEN 0 ELSE sum[i - 1] + amount[i]
    IN  sum[n]
SumOf(list, c) ==
    Total(Len(list), [i \in DOMAIN list |-> IF list[i].ctr = c THEN list[i].value ELSE 0])
SumIn(P, c) ==
    Total(MaxPayloads, [p \in PayloadIds |-> IF p \in P THEN SumOf(payloads[p], c) ELSE 0])

\* Get() returns what callers counted, whatever was collected in between:
\* Set() on a counter whose value was partly collected still sets the total.
GetIsCount == \A c \in Counters : Get(ctr[c]) = counted[c]

\* What callers counted on a cumulative counter is, at every moment, what
\* upstream was told plus what is held plus what is not yet collected, even
\* for calls made while a collection or a failing post is under way.
NothingMiscounted ==
    ~LostReplies =>
        \A c \in Counters \cap Cumalative :
            counted[c] = SumIn(received, c) + SumIn(Held, c) + SumOf(snapshots, c) + ctr[c].value

Increasing(q) == \A i, j \in DOMAIN q : i < j => q[i] < q[j]

\* As long as no two posts were in flight together, the queue and what a
\* goroutine holds are in collection order, older payloads with the goroutine.
InCollectionOrder ==
    ~overlapped =>
        /\ Increasing(eventPayloads)
        /\ \A s \in Senders :
              /\ Increasing(sender[s].batch)
              /\ \A p \in Range(sender[s].batch), q \in Range(eventPayloads) : p < q

\* Until a post fails the queue never holds more than the collections made
\* since the last post, as NewMonitorService documents for collectCount.
QueueWithinCollectCount ==
    ~requeued => Len(eventPayloads) + sendCountdown < CollectCount

\* When Stop() returns (and the timer waits for its callback), no goroutine
\* of the service is left: none is posting, and none can touch the counters.
StopQuiesces ==
    StopWaits /\ stopPC = "done" =>
        callback = "none" /\ lock = "free" /\ \A s \in Senders : sender[s] = Idle

\* Stop() returns: it cannot block for ever on the timer, on the goroutines
\* it waits for (which need ms.lock to put events back), or on ms.lock.
StopReturns == stopPC = "timer" ~> (stopPC = "done" \/ panicked)

\* While the service runs, every payload is accepted in the end if upstream
\* accepts what it is sent often enough.
EventuallyDelivered ==
    <>[](timer = "running" /\ ~panicked) =>
        \A p \in PayloadIds : p <= nPayloads ~> p \in received

\* NewMonitorService: the monitor collects metrics from all counters; a counter
\* that was added and not deleted stays in its monitor's list.
RegisteredStayRegistered == \A m \in Monitors : wanted[m] \subseteq Range(counters[m])

\* The service implements the abstract outbox: Held and received follow
\* EventOutbox whatever the queue, the goroutines and the locks do.
Outbox == INSTANCE EventOutbox WITH
              Events <- PayloadIds, held <- Held, accepted <- received
OutboxSpec == Outbox!Spec
=============================================================================
