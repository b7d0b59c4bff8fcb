------------------------ MODULE MonitorServiceProofs ------------------------
(***************************************************************************)
(* Proofs about MonitorService, for every choice of counters, monitors,    *)
(* posting goroutines, collectCount and bounds: type correctness; that no  *)
(* payload is lost, held twice or accepted twice; that the service         *)
(* implements EventOutbox; what Stop() leaves behind; the size and the     *)
(* order of the queue; what a counter's Get() returns; and that nothing    *)
(* that was counted is missing from the payloads or in two of them.        *)
(***************************************************************************)
EXTENDS MonitorService, LoopTheorems

(***************************************************************************)
(* Facts about counters and sequences.                                     *)
(***************************************************************************)

\* The methods of counter.go return a counter.
LEMMA CounterMethodsType ==
    ASSUME NEW c \in CounterType, NEW v \in Int
    PROVE  /\ Inc(c) \in CounterType
           /\ Add(c, v) \in CounterType
           /\ Set(c, v) \in CounterType
           /\ SetInc(c, v) \in CounterType
           /\ AfterCollect(c) \in CounterType
  <1>1. Inc(c) \in CounterType
    BY DEF CounterType, Inc
  <1>2. Add(c, v) \in CounterType
    BY DEF CounterType, Add
  <1>3. Set(c, v) \in CounterType
    BY DEF CounterType, Set
  <1>4. SetInc(c, v) \in CounterType
    BY DEF CounterType, SetInc
  <1>5. AfterCollect(c) \in CounterType
    <2>1. CASE HasSnapshot(c) /\ c.cumalative
      <3>1. AfterCollect(c) = [cumalative |-> c.cumalative,
                               ignoreZeroSnapshots |-> c.ignoreZeroSnapshots,
                               incBy |-> c.incBy, value |-> 0,
                               cumalativeValue |-> c.cumalativeValue + c.value]
        BY <2>1, Zenon DEF CounterType, AfterCollect
      <3> QED BY <3>1 DEF CounterType
    <2>2. CASE ~(HasSnapshot(c) /\ c.cumalative)
      BY <2>2 DEF AfterCollect
    <2> QED BY <2>1, <2>2
  <1> QED BY <1>1, <1>2, <1>3, <1>4, <1>5

\* Appending a payload adds it to the payloads in the queue, and keeps them
\* distinct if it is new.
LEMMA AppendRange ==
    ASSUME NEW S, NEW q \in Seq(S), NEW e \in S
    PROVE  /\ Append(q, e) \in Seq(S)
           /\ Range(Append(q, e)) = Range(q) \cup {e}
           /\ IsInjective(q) /\ e \notin Range(q) => IsInjective(Append(q, e))
  <1> DEFINE r == Append(q, e)
  <1>1. /\ r \in Seq(S) /\ Len(q) \in Nat
        /\ DOMAIN q = 1..Len(q) /\ DOMAIN r = 1..Len(q) + 1
        /\ \A i \in 1..Len(q) : r[i] = q[i]
        /\ r[Len(q) + 1] = e
    OBVIOUS
  <1> HIDE DEF r
  <1>2. Range(r) = Range(q) \cup {e}
    BY <1>1 DEF Range
  <1>3. IsInjective(q) /\ e \notin Range(q) => IsInjective(r)
    BY <1>1 DEF Range, IsInjective
  <1> QED BY <1>1, <1>2, <1>3 DEF r

\* Putting a batch back in front of the queue keeps all of both, and keeps
\* payloads distinct if the two have none in common.
LEMMA ConcatRange ==
    ASSUME NEW S, NEW q \in Seq(S), NEW r \in Seq(S)
    PROVE  /\ q \o r \in Seq(S)
           /\ Range(q \o r) = Range(q) \cup Range(r)
           /\ IsInjective(q) /\ IsInjective(r) /\ Range(q) \cap Range(r) = {}
                => IsInjective(q \o r)
  <1> DEFINE c == q \o r
  <1>1. /\ c \in Seq(S) /\ Len(q) \in Nat /\ Len(r) \in Nat
        /\ DOMAIN q = 1..Len(q) /\ DOMAIN r = 1..Len(r) /\ DOMAIN c = 1..Len(q) + Len(r)
        /\ \A i \in 1..Len(q) : c[i] = q[i]
        /\ \A i \in 1..Len(r) : c[Len(q) + i] = r[i]
        /\ \A i \in 1..Len(q) + Len(r) : i > Len(q) => i - Len(q) \in 1..Len(r) /\ c[i] = r[i - Len(q)]
    OBVIOUS
  <1> HIDE DEF c
  <1>2. \A i \in DOMAIN c : /\ i <= Len(q) => c[i] \in Range(q)
                            /\ i > Len(q) => c[i] \in Range(r)
    <2> TAKE i \in DOMAIN c
    <2>1. ASSUME i <= Len(q) PROVE c[i] \in Range(q)
      BY <1>1, <2>1 DEF Range
    <2>2. ASSUME i > Len(q) PROVE c[i] \in Range(r)
      <3>1. i - Len(q) \in DOMAIN r /\ c[i] = r[i - Len(q)]
        BY <1>1, <2>2
      <3> QED BY <3>1 DEF Range
    <2> QED BY <2>1, <2>2
  <1>3. Range(c) = Range(q) \cup Range(r)
    <2>1. \A x \in Range(c) : x \in Range(q) \cup Range(r)
      <3> TAKE x \in Range(c)
      <3>1. PICK i \in DOMAIN c : x = c[i]
        BY DEF Range
      <3>2. i \in Int /\ Len(q) \in Int
        BY <1>1
      <3> QED BY <1>2, <3>1, <3>2
    <2>2. \A i \in DOMAIN q : q[i] \in Range(c)
      BY <1>1 DEF Range
    <2>3. \A i \in DOMAIN r : r[i] \in Range(c)
      <3> TAKE i \in DOMAIN r
      <3>1. Len(q) + i \in DOMAIN c /\ c[Len(q) + i] = r[i]
        BY <1>1
      <3> QED BY <3>1 DEF Range
    <2> QED BY <2>1, <2>2, <2>3, Zenon DEF Range
  <1>4. IsInjective(q) /\ IsInjective(r) /\ Range(q) \cap Range(r) = {} => IsInjective(c)
    <2> SUFFICES ASSUME IsInjective(q), IsInjective(r), Range(q) \cap Range(r) = {},
                        NEW a \in DOMAIN c, NEW b \in DOMAIN c, c[a] = c[b]
                 PROVE  a = b
      BY DEF IsInjective
    <2>1. CASE a <= Len(q) /\ b <= Len(q)
      BY <1>1, <2>1 DEF IsInjective
    <2>2. CASE a > Len(q) /\ b > Len(q)
      <3>1. /\ a - Len(q) \in DOMAIN r /\ c[a] = r[a - Len(q)]
            /\ b - Len(q) \in DOMAIN r /\ c[b] = r[b - Len(q)]
        BY <1>1, <2>2
      <3>2. a - Len(q) = b - Len(q)
        BY <3>1, Zenon DEF IsInjective
      <3> QED BY <1>1, <3>2
    <2>3. a \in Int /\ b \in Int /\ Len(q) \in Int
      BY <1>1
    <2>4. CASE a <= Len(q) /\ b > Len(q)
      BY <1>2, <2>4
    <2>5. CASE a > Len(q) /\ b <= Len(q)
      BY <1>2, <2>5
    <2> QED BY <2>1, <2>2, <2>3, <2>4, <2>5, SMTT(20)
  <1> QED BY <1>1, <1>3, <1>4 DEF c

\* The failed events of a batch, picked by increasing positions, are some of
\* its events, and distinct if those are.
LEMMA PickRange ==
    ASSUME NEW S, NEW q \in Seq(S), NEW n \in DOMAIN q, NEW f \in [1..n -> DOMAIN q],
           \A i, j \in 1..n : i < j => f[i] < f[j]
    PROVE  /\ [i \in 1..n |-> q[f[i]]] \in Seq(S)
           /\ Range([i \in 1..n |-> q[f[i]]]) \subseteq Range(q)
           /\ IsInjective(q) => IsInjective([i \in 1..n |-> q[f[i]]])
  <1> DEFINE p == [i \in 1..n |-> q[f[i]]]
  <1>1. n \in Nat /\ DOMAIN q = 1..Len(q) /\ Len(q) \in Nat
    OBVIOUS
  <1>2. p \in Seq(S)
    <2>1. \A i \in 1..n : q[f[i]] \in S
      BY <1>1
    <2> QED BY <1>1, <2>1
  <1>3. Range(p) \subseteq Range(q)
    BY DEF Range
  <1>4. IsInjective(q) => IsInjective(p)
    BY <1>1 DEF IsInjective
  <1> QED BY <1>2, <1>3, <1>4

\* DeleteCounter leaves a list of counters that is one shorter.
LEMMA WithoutCounterType ==
    ASSUME NEW S, NEW q \in Seq(S), q # <<>>, NEW c
    PROVE  /\ WithoutCounter(q, c) \in Seq(S)
           /\ Len(WithoutCounter(q, c)) = Len(q) - 1
  <1> DEFINE i0 == IF {i \in 1..Len(q) : q[i] = c} = {} THEN Len(q)
                   ELSE Max({i \in 1..Len(q) : q[i] = c})
             w == [i \in 1..Len(q) - 1 |-> IF i < i0 THEN q[i] ELSE q[i + 1]]
  <1>1. Len(q) \in Nat \ {0}
    OBVIOUS
  <1>2. \A i \in 1..Len(q) - 1 : w[i] \in S
    <2> HIDE DEF i0
    <2> QED BY <1>1
  <1>3. w \in Seq(S) /\ Len(w) = Len(q) - 1
    <2> HIDE DEF i0
    <2>1. Len(q) - 1 \in Nat
      BY <1>1
    <2>2. w \in [1..Len(q) - 1 -> S]
      BY <1>2
    <2> HIDE DEF w
    <2> QED BY <2>1, <2>2
  <1> QED BY <1>3 DEF WithoutCounter

-----------------------------------------------------------------------------
(***************************************************************************)
(* Type correctness.  It rests on the lock: whoever is collecting holds    *)
(* ms.lock, and there is room for the payload being built.                 *)
(***************************************************************************)
LockInv ==
    /\ lock = "timer" <=> callback = "collecting"
    /\ lock = "stop" <=> stopPC = "collecting"
    /\ lock # "free" => nPayloads < MaxPayloads

TypeInv == TypeOK /\ LockInv

\* The initial state is well typed.
LEMMA TypeInit == Init => TypeInv
  <1> SUFFICES ASSUME Init PROVE TypeInv
    OBVIOUS
  <1> USE CollectCountAssumption, BoundsAssumption DEF Init
  <1>1. ctr \in [Counters -> CounterType]
    BY DEF CounterType, NewCounter
  <1>2. /\ monitors \in Seq(Monitors) /\ todo \in Seq(Seq(Counters)) /\ snapshots \in Seq(Snapshot)
        /\ eventPayloads \in Seq(PayloadIds)
    OBVIOUS
  <1>3. counters \in [Monitors -> Seq(Counters)] /\ payloads \in [PayloadIds -> Seq(Snapshot)]
    OBVIOUS
  <1>4. sender \in [Senders -> [pc : {"idle", "posting", "requeue"}, batch : Seq(PayloadIds)]]
    BY DEF Idle
  <1>5. /\ counted \in [Counters -> Int] /\ wanted \in [Monitors -> SUBSET Counters]
        /\ nPayloads \in 0..MaxPayloads /\ calls \in 0..MaxCalls
        /\ sendCountdown \in 0..CollectCount - 1
    OBVIOUS
  <1>6. LockInv
    BY DEF LockInv
  <1> QED BY <1>1, <1>2, <1>3, <1>4, <1>5, <1>6, Zenon DEF TypeInv, TypeOK

\* A call on a counter or a monitor keeps everything well typed.
LEMMA TypeCaller == TypeInv /\ Caller => TypeInv'
  <1> SUFFICES ASSUME TypeInv, Caller PROVE TypeInv'
    OBVIOUS
  <1> USE BoundsAssumption DEF TypeInv, TypeOK, LockInv, Call, callerVars, collectVars,
                               threadVars, upstreamVars
  <1>1. ASSUME NEW c \in Counters, CounterCall(c) PROVE TypeInv'
    <2>1. ASSUME NEW new \in CounterType, NEW count \in Int, Update(c, new, count)
          PROVE  TypeInv'
      <3>1. ctr' \in [Counters -> CounterType] /\ counted' \in [Counters -> Int]
        BY <2>1, Zenon DEF Update
      <3>2. calls' \in 0..MaxCalls
        <4>1. calls \in 0..MaxCalls /\ calls < MaxCalls /\ calls' = calls + 1 /\ MaxCalls \in Nat
          BY <2>1, Zenon DEF Update
        <4> HIDE DEF TypeInv
        <4> QED BY <4>1, SMTT(30)
      <3> QED BY <2>1, <3>1, <3>2, ZenonT(30) DEF Update
    <2>2. ctr[c] \in CounterType /\ ctr[c].incBy \in Int /\ counted[c] \in Int
      BY DEF CounterType
    <2> HIDE DEF TypeInv
    <2>3. CASE Update(c, Inc(ctr[c]), counted[c] + ctr[c].incBy)
      <3>1. Inc(ctr[c]) \in CounterType /\ counted[c] + ctr[c].incBy \in Int
        BY <2>2, CounterMethodsType
      <3> QED BY <2>1, <2>3, <3>1
    <2>4. ASSUME NEW v \in Amounts,
                 \/ Update(c, Add(ctr[c], v), counted[c] + v)
                 \/ Update(c, Set(ctr[c], v), v)
                 \/ Update(c, SetInc(ctr[c], v), counted[c])
          PROVE  TypeInv'
      <3>1. v \in Int
        BY AmountsAssumption
      <3>2. /\ Add(ctr[c], v) \in CounterType /\ Set(ctr[c], v) \in CounterType
            /\ SetInc(ctr[c], v) \in CounterType
        BY <2>2, <3>1, CounterMethodsType, Zenon
      <3>3. counted[c] + v \in Int
        BY <2>2, <3>1
      <3> QED BY <2>1, <2>2, <2>4, <3>1, <3>2, <3>3, SMTT(20)
    <2> QED BY <1>1, <2>3, <2>4 DEF CounterCall
  <1>2. ASSUME NEW c \in Counters, AddAttribute(c) PROVE TypeInv'
    BY <1>2, SMTT(30) DEF AddAttribute
  <1>3. ASSUME NEW m \in Monitors, NewMonitor(m) PROVE TypeInv'
    BY <1>3 DEF NewMonitor
  <1>4. ASSUME NEW m \in Monitors, NEW c \in Counters, AddCounter(m, c) PROVE TypeInv'
    BY <1>4 DEF AddCounter
  <1>5. ASSUME NEW m \in Monitors, NEW c \in Counters, DeleteCounter(m, c) PROVE TypeInv'
    <2>1. counters[m] # <<>> => WithoutCounter(counters[m], c) \in Seq(Counters)
      BY WithoutCounterType
    <2>2. counters' \in [Monitors -> Seq(Counters)] /\ panicked' \in BOOLEAN
      <3>1. CASE counters[m] = <<>>
        BY <1>5, <3>1 DEF DeleteCounter
      <3>2. CASE counters[m] # <<>>
        BY <1>5, <2>1, <3>2, Zenon DEF DeleteCounter
      <3> QED BY <3>1, <3>2
    <2>3. wanted' \in [Monitors -> SUBSET Counters]
      BY <1>5 DEF DeleteCounter
    <2> QED BY <1>5, <2>2, <2>3 DEF DeleteCounter
  <1> QED BY <1>1, <1>2, <1>3, <1>4, <1>5, Zenon DEF Caller

\* Start, Stop, the timer and the collections keep everything well typed: a
\* payload gets a number that is in range because room was reserved at the lock.
LEMMA TypeService == TypeInv /\ Service => TypeInv'
  <1> SUFFICES ASSUME TypeInv, Service PROVE TypeInv'
    OBVIOUS
  <1> USE CollectCountAssumption, BoundsAssumption
      DEF TypeInv, TypeOK, LockInv, callerVars, collectVars, threadVars, upstreamVars
  <1>1. CASE Start \/ Tick \/ Stop \/ TimerStopped
    <2>1. CASE Start
      BY <2>1, ZenonT(30) DEF Start
    <2>2. CASE Tick
      BY <2>2, ZenonT(30) DEF Tick
    <2>3. CASE Stop
      BY <2>3, ZenonT(30) DEF Stop
    <2>4. CASE TimerStopped
      BY <2>4, ZenonT(30) DEF TimerStopped
    <2> QED BY <1>1, <2>1, <2>2, <2>3, <2>4, Zenon
  <1>2. CASE SendersDone
    BY <1>2 DEF SendersDone
  <1>3. ASSUME NEW h \in {"timer", "stop"}, BeginCollect(h) PROVE TypeInv'
    <2>1. todo' \in Seq(Seq(Counters))
      <3>1. todo' = [i \in DOMAIN monitors |-> counters[monitors[i]]]
        BY <1>3 DEF BeginCollect
      <3>2. DOMAIN monitors = 1..Len(monitors) /\ Len(monitors) \in Nat
        OBVIOUS
      <3>3. \A i \in 1..Len(monitors) : counters[monitors[i]] \in Seq(Counters)
        BY <3>2
      <3> QED BY <3>1, <3>2, <3>3
    <2>2. LockInv'
      BY <1>3, SMTT(30) DEF BeginCollect, AtLock
    <2> QED BY <1>3, <2>1, <2>2 DEF BeginCollect
  <1>4. CASE CollectCounter
    <2> DEFINE c == Head(Head(todo))
    <2>1. todo[1] \in Seq(Counters) /\ todo[1] # <<>> /\ c = todo[1][1] /\ c \in Counters
      <3>1. todo \in Seq(Seq(Counters)) /\ todo # <<>> /\ Head(todo) # <<>>
        BY <1>4, Zenon DEF CollectCounter
      <3> HIDE DEF TypeInv
      <3>2. Head(todo) = todo[1] /\ todo[1] \in Seq(Counters)
        BY <3>1
      <3> QED BY <3>1, <3>2
    <2> HIDE DEF c
    <2>2. ctr[c] \in CounterType /\ AfterCollect(ctr[c]) \in CounterType
      BY <2>1, CounterMethodsType, SMTT(30)
    <2>3. ctr' \in [Counters -> CounterType]
      BY <1>4, <2>1, <2>2 DEF CollectCounter, c
    <2>4. snapshots' \in Seq(Snapshot)
      <3>1. [ctr |-> c, value |-> ctr[c].value] \in Snapshot
        BY <2>1, <2>2, Zenon DEF Snapshot, CounterType
      <3>2. /\ snapshots \in Seq(Snapshot)
            /\ \/ snapshots' = snapshots
               \/ snapshots' = Append(snapshots, [ctr |-> c, value |-> ctr[c].value])
        BY <1>4, Zenon DEF CollectCounter, c
      <3> HIDE DEF TypeInv
      <3> QED BY <3>1, <3>2, AppendRange
    <2>5. todo' \in Seq(Seq(Counters))
      <3>1. Tail(todo[1]) \in Seq(Counters)
        BY <2>1
      <3>2. 1 \in DOMAIN todo
        BY <1>4 DEF CollectCounter
      <3> QED BY <1>4, <3>1, <3>2 DEF CollectCounter
    <2> QED BY <1>4, <2>3, <2>4, <2>5, ZenonT(30) DEF CollectCounter
  <1>5. CASE CollectNextMonitor
    <2>1. todo' \in Seq(Seq(Counters))
      <3>1. todo \in Seq(Seq(Counters)) /\ todo # <<>> /\ todo' = Tail(todo)
        BY <1>5, Zenon DEF CollectNextMonitor
      <3> HIDE DEF TypeInv
      <3> QED BY <3>1
    <2> QED BY <1>5, <2>1, Zenon DEF CollectNextMonitor
  <1>6. ASSUME lock # "free", AddPayload
        PROVE  /\ payloads' \in [PayloadIds -> Seq(Snapshot)]
               /\ nPayloads' \in 0..MaxPayloads
               /\ snapshots' \in Seq(Snapshot)
               /\ Collected \in Seq(PayloadIds)
    <2>1. nPayloads + 1 \in PayloadIds
      BY <1>6 DEF PayloadIds
    <2> QED BY <1>6, <2>1, AppendRange DEF AddPayload, Collected
  <1>7. ASSUME NEW queue \in Seq(PayloadIds), PostEvents(queue)
        PROVE  /\ sender' \in [Senders -> [pc : {"idle", "posting", "requeue"}, batch : Seq(PayloadIds)]]
               /\ eventPayloads' \in Seq(PayloadIds)
               /\ overlapped' \in BOOLEAN
    BY <1>7 DEF PostEvents
  <1>8. CASE EndCollect
    <2>1. lock # "free" /\ AddPayload
      BY <1>8 DEF EndCollect
    <2>2. /\ sender' \in [Senders -> [pc : {"idle", "posting", "requeue"}, batch : Seq(PayloadIds)]]
          /\ eventPayloads' \in Seq(PayloadIds)
          /\ overlapped' \in BOOLEAN
          /\ sendCountdown' \in 0..CollectCount - 1
      BY <1>6, <1>7, <1>8, <2>1 DEF EndCollect, NextCountdown
    <2>3. LockInv'
      BY <1>8 DEF EndCollect
    <2> QED BY <1>6, <1>8, <2>1, <2>2, <2>3, ZenonT(30) DEF EndCollect
  <1>9. CASE EndStopCollect
    <2>1. lock # "free" /\ AddPayload
      BY <1>9 DEF EndStopCollect
    <2>2. /\ sender' \in [Senders -> [pc : {"idle", "posting", "requeue"}, batch : Seq(PayloadIds)]]
          /\ eventPayloads' \in Seq(PayloadIds)
          /\ overlapped' \in BOOLEAN
      BY <1>6, <1>7, <1>9, <2>1 DEF EndStopCollect
    <2>3. LockInv'
      BY <1>9 DEF EndStopCollect
    <2> QED BY <1>6, <1>9, <2>1, <2>2, <2>3 DEF EndStopCollect
  <1> QED BY <1>1, <1>2, <1>3, <1>4, <1>5, <1>8, <1>9, Zenon DEF Service

SenderType == [Senders -> [pc : {"idle", "posting", "requeue"}, batch : Seq(PayloadIds)]]

\* A step that leaves counters, monitors, the collection and the threads alone
\* keeps everything well typed if it does so for the queue, the goroutines of
\* postEvents and what upstream has.
LEMMA TypeFrame ==
  ASSUME TypeInv, UNCHANGED <<callerVars, collectVars, threadVars>>,
         sender' \in SenderType, eventPayloads' \in Seq(PayloadIds),
         received' \in SUBSET PayloadIds, duplicated' \in SUBSET PayloadIds,
         overlapped' \in BOOLEAN, requeued' \in BOOLEAN
  PROVE  TypeInv'
  <1>1. LockInv'
    BY Zenon DEF TypeInv, LockInv, callerVars, collectVars, threadVars
  <1>2. TypeOK'
    BY Zenon DEF TypeInv, TypeOK, callerVars, collectVars, threadVars, SenderType
  <1> QED BY <1>1, <1>2, Zenon DEF TypeInv

\* The goroutines of postEvents keep everything well typed.
LEMMA TypeSending == TypeInv /\ Sending => TypeInv'
  <1> SUFFICES ASSUME TypeInv, NEW s \in Senders,
                      SendDone(s) \/ SendError(s) \/ SendPartial(s) \/ Requeue(s)
               PROVE  TypeInv'
    BY DEF Sending
  <1> DEFINE batch == sender[s].batch
  <1>0. /\ sender \in SenderType /\ eventPayloads \in Seq(PayloadIds)
        /\ received \in SUBSET PayloadIds /\ duplicated \in SUBSET PayloadIds
        /\ overlapped \in BOOLEAN /\ requeued \in BOOLEAN
    BY Zenon DEF TypeInv, TypeOK, SenderType
  <1>10. [sender EXCEPT ![s] = Idle] \in SenderType
    <2>1. Idle \in [pc : {"idle", "posting", "requeue"}, batch : Seq(PayloadIds)]
      BY DEF Idle
    <2> QED BY <1>0, <2>1 DEF SenderType
  <1>1. batch \in Seq(PayloadIds) /\ Range(batch) \subseteq PayloadIds
    <2>1. batch \in Seq(PayloadIds)
      BY <1>0 DEF SenderType
    <2> QED BY <2>1 DEF Range
  <1>2. ASSUME NEW D \in SUBSET PayloadIds, Accept(D)
        PROVE  received' \in SUBSET PayloadIds /\ duplicated' \in SUBSET PayloadIds
    BY <1>0, <1>2 DEF Accept
  <1>3. ASSUME NEW failed \in Seq(PayloadIds), NEW D \in SUBSET PayloadIds,
               Accept(D), PutBack(s, failed)
        PROVE  TypeInv'
    <2>1. received' \in SUBSET PayloadIds /\ duplicated' \in SUBSET PayloadIds
      BY <1>2, <1>3, Zenon
    <2>2. [sender EXCEPT ![s] = [pc |-> "requeue", batch |-> failed]] \in SenderType
      BY <1>0, <1>3 DEF SenderType
    <2> QED BY <1>0, <1>3, <2>1, <2>2, TypeFrame, Zenon DEF PutBack
  <1>4. CASE SendDone(s)
    <2>1. received' \in SUBSET PayloadIds /\ duplicated' \in SUBSET PayloadIds
      BY <1>1, <1>2, <1>4, Zenon DEF SendDone
    <2> QED BY <1>0, <1>10, <1>4, <2>1, TypeFrame, Zenon DEF SendDone
  <1>5. CASE SendError(s)
    <2> PICK D \in SUBSET Range(batch) : Accept(D)
      BY <1>5 DEF SendError
    <2> QED BY <1>1, <1>3, <1>5, Zenon DEF SendError
  <1>6. CASE SendPartial(s)
    <2> PICK n \in DOMAIN batch : \E f \in [1..n -> DOMAIN batch] :
              /\ \A i, j \in 1..n : i < j => f[i] < f[j]
              /\ Accept(Range(batch) \ Range([i \in 1..n |-> batch[f[i]]]))
              /\ PutBack(s, [i \in 1..n |-> batch[f[i]]])
      BY <1>6, Zenon DEF SendPartial
    <2> PICK f \in [1..n -> DOMAIN batch] :
              /\ \A i, j \in 1..n : i < j => f[i] < f[j]
              /\ Accept(Range(batch) \ Range([i \in 1..n |-> batch[f[i]]]))
              /\ PutBack(s, [i \in 1..n |-> batch[f[i]]])
      BY Zenon
    <2>1. [i \in 1..n |-> batch[f[i]]] \in Seq(PayloadIds)
      <3> HIDE DEF batch, TypeInv
      <3> QED BY <1>1, PickRange, Zenon
    <2> QED BY <1>1, <1>3, <2>1, Zenon
  <1>7. CASE Requeue(s)
    <2>1. batch \o eventPayloads \in Seq(PayloadIds)
      BY <1>0, <1>1
    <2> QED BY <1>0, <1>10, <1>7, <2>1, TypeFrame, Zenon DEF Requeue, Requeued, upstreamVars
  <1> QED BY <1>4, <1>5, <1>6, <1>7, Zenon

\* TypeInv is inductive (used by every theorem below).
LEMMA TypeStep == TypeInv /\ [Next]_vars => TypeInv'
  <1> SUFFICES ASSUME TypeInv, [Next]_vars PROVE TypeInv'
    OBVIOUS
  <1>1. CASE Next
    BY <1>1, TypeCaller, TypeService, TypeSending DEF Next
  <1>2. CASE UNCHANGED vars
    <2>1. /\ sender \in SenderType /\ eventPayloads \in Seq(PayloadIds)
          /\ received \in SUBSET PayloadIds /\ duplicated \in SUBSET PayloadIds
          /\ overlapped \in BOOLEAN /\ requeued \in BOOLEAN
      BY Zenon DEF TypeInv, TypeOK, SenderType
    <2> QED BY <1>2, <2>1, TypeFrame, Zenon DEF vars, upstreamVars
  <1> QED BY <1>1, <1>2

\* Type correctness, for every value of the constants: TypeOK is an invariant
\* of the service.
THEOREM TypeCorrect == Spec => []TypeOK
BY TypeInit, TypeStep, PTL DEF Spec, TypeInv

-----------------------------------------------------------------------------
(***************************************************************************)
(* Accounting of payloads.  NoPayloadLost is not inductive by itself: that *)
(* a goroutine which is done takes nothing else away needs HeldOnce, and   *)
(* that a new payload is new needs NoPayloadLost.  The three invariants    *)
(* are therefore proved together; each action's effect on Held is stated   *)
(* first, and reused for the refinement of EventOutbox.                    *)
(***************************************************************************)
accountVars == <<eventPayloads, sender, received, duplicated, nPayloads>>

\* Initially nothing was created, nothing is held, nothing is accepted.
LEMMA AccountingInit == Init => Accounting
  <1> SUFFICES ASSUME Init PROVE Accounting
    OBVIOUS
  <1>1. eventPayloads = <<>> /\ \A s \in Senders : sender[s].batch = <<>>
    BY DEF Init, Idle
  <1>2. Range(<<>>) = {} /\ IsInjective(<<>>)
    BY DEF Range, IsInjective
  <1>3. Held = {}
    BY <1>1, <1>2 DEF Held
  <1>4. received = {} /\ duplicated = {} /\ nPayloads = 0
    BY DEF Init
  <1>5. NoPayloadLost
    BY <1>3, <1>4 DEF NoPayloadLost
  <1> QED BY <1>1, <1>2, <1>3, <1>4, <1>5, SMTT(20) DEF Accounting, HeldOnce, AcceptedOnce

\* Steps that touch neither queue, goroutines nor upstream keep the accounts.
LEMMA AccountingFrame == Accounting /\ UNCHANGED accountVars => Accounting'
BY DEF Accounting, accountVars, NoPayloadLost, HeldOnce, AcceptedOnce, Held

\* The payload a collection built is the only change to Held, whether it is
\* queued or handed to a goroutine together with the queue.
LEMMA CollectEffect ==
    ASSUME TypeInv, Accounting, EndCollect \/ EndStopCollect
    PROVE  /\ Held' = Held \cup nPayloads + 1..nPayloads'
           /\ nPayloads' = nPayloads \/ nPayloads' = nPayloads + 1
           /\ HeldOnce'
  <1> DEFINE New == nPayloads + 1..nPayloads'
  <1>1. AddPayload /\ lock # "free"
    BY DEF EndCollect, EndStopCollect
  <1>2. nPayloads \in Nat /\ nPayloads + 1 \in PayloadIds
    BY <1>1, BoundsAssumption DEF TypeInv, TypeOK, LockInv, PayloadIds
  <1>3. (nPayloads' = nPayloads \/ nPayloads' = nPayloads + 1)
    BY <1>1 DEF AddPayload
  <1>4. nPayloads + 1 \notin Held
    BY <1>2 DEF Accounting, NoPayloadLost
  <1>5. /\ Range(Collected) = Range(eventPayloads) \cup New
        /\ IsInjective(Collected)
        /\ New \cap Held = {}
    <2>1. IsInjective(eventPayloads) /\ nPayloads + 1 \notin Range(eventPayloads)
      BY <1>4 DEF Accounting, HeldOnce, Held
    <2>2. CASE snapshots = <<>>
      BY <1>1, <1>2, <2>1, <2>2 DEF AddPayload, Collected
    <2>3. CASE snapshots # <<>>
      <3>1. New = {nPayloads + 1}
        BY <1>1, <1>2, <2>3 DEF AddPayload
      <3>2. Collected = Append(eventPayloads, nPayloads + 1) /\ eventPayloads \in Seq(PayloadIds)
        BY <2>3 DEF Collected, TypeInv, TypeOK
      <3> QED BY <1>2, <1>4, <2>1, <3>1, <3>2, AppendRange, SMTT(20)
    <2> QED BY <2>2, <2>3
  <1> HIDE DEF New
  <1>6. CASE eventPayloads' = Collected /\ sender' = sender
    <2>1. Held' = Held \cup New
      BY <1>5, <1>6 DEF Held
    <2>2. \A s \in Senders : Range(sender[s].batch) \cap Range(Collected) = {}
      BY <1>5 DEF Accounting, HeldOnce, Held
    <2>3. HeldOnce'
      BY <1>5, <1>6, <2>2 DEF Accounting, HeldOnce
    <2> QED BY <1>3, <2>1, <2>3 DEF New
  <1>7. CASE PostEvents(Collected)
    <2>1. PICK s \in Senders :
             /\ sender[s] = Idle
             /\ sender' = [sender EXCEPT ![s] = [pc |-> "posting", batch |-> Collected]]
      BY <1>7, Zenon DEF PostEvents
    <2>2. eventPayloads' = <<>> /\ Range(<<>>) = {} /\ IsInjective(<<>>)
      BY <1>7 DEF PostEvents, Range, IsInjective
    <2>3. Range(sender[s].batch) = {}
      BY <2>1, <2>2 DEF Idle
    <2>4. /\ sender'[s].batch = Collected
          /\ \A t \in Senders \ {s} : sender'[t] = sender[t]
      BY <2>1 DEF TypeInv, TypeOK
    <2>5. Held' = Held \cup New
      <3>1. Held' = UNION {Range(sender'[t].batch) : t \in Senders}
        BY <2>2 DEF Held
      <3>2. \A e : e \in Held' <=> \E t \in Senders : e \in Range(sender'[t].batch)
        BY <3>1
      <3>3. \A e : e \in Held <=> \/ e \in Range(eventPayloads)
                                  \/ \E t \in Senders : e \in Range(sender[t].batch)
        BY DEF Held
      <3> QED BY <1>5, <2>3, <2>4, <3>2, <3>3, SMTT(20)
    <2>6. HeldOnce'
      <3>1. \A t \in Senders \ {s} : Range(sender[t].batch) \cap Range(Collected) = {}
        BY <1>5 DEF Accounting, HeldOnce, Held
      <3> QED BY <1>5, <2>2, <2>4, <3>1 DEF Accounting, HeldOnce
    <2> QED BY <1>3, <2>5, <2>6 DEF New
  <1> QED BY <1>6, <1>7 DEF EndCollect, EndStopCollect

\* A goroutine whose batch changes to one of its payloads' subsets changes
\* Held by exactly what it drops, because no one else holds its payloads.
LEMMA ShrinkEffect ==
    ASSUME TypeInv, Accounting, NEW s \in Senders, NEW pc, NEW rest \in Seq(PayloadIds),
           sender' = [sender EXCEPT ![s] = [pc |-> pc, batch |-> rest]],
           eventPayloads' = eventPayloads,
           Range(rest) \subseteq Range(sender[s].batch), IsInjective(rest)
    PROVE  /\ Held' = Held \ (Range(sender[s].batch) \ Range(rest))
           /\ HeldOnce'
  <1>1. /\ sender'[s].batch = rest
        /\ \A t \in Senders \ {s} : sender'[t] = sender[t]
    BY DEF TypeInv, TypeOK
  <1>2. HeldOnce'
    BY <1>1, SMTT(60) DEF Accounting, HeldOnce
  <1>3. \A e : e \in Held <=> \/ e \in Range(eventPayloads)
                              \/ \E t \in Senders : e \in Range(sender[t].batch)
    BY DEF Held
  <1>4. \A e : e \in Held' <=> \/ e \in Range(eventPayloads)
                               \/ \E t \in Senders : e \in Range(sender'[t].batch)
    BY DEF Held
  <1>5. \A e \in Range(sender[s].batch) :
           /\ e \notin Range(eventPayloads)
           /\ \A t \in Senders \ {s} : e \notin Range(sender[t].batch)
    BY Zenon DEF Accounting, HeldOnce
  <1>6. Held' \subseteq Held \ (Range(sender[s].batch) \ Range(rest))
    <2> SUFFICES ASSUME NEW e \in Held'
                 PROVE  e \in Held \ (Range(sender[s].batch) \ Range(rest))
      OBVIOUS
    <2>1. CASE e \in Range(eventPayloads)
      BY <1>3, <1>5, <2>1
    <2>2. ASSUME NEW t \in Senders, e \in Range(sender'[t].batch)
          PROVE  e \in Held \ (Range(sender[s].batch) \ Range(rest))
      <3>1. CASE t = s
        BY <1>1, <1>3, <2>2, <3>1
      <3>2. CASE t # s
        BY <1>1, <1>3, <1>5, <2>2, <3>2, SMTT(20)
      <3> QED BY <3>1, <3>2
    <2> QED BY <1>4, <2>1, <2>2
  <1>7. Held \ (Range(sender[s].batch) \ Range(rest)) \subseteq Held'
    BY <1>1, <1>3, <1>4
  <1> QED BY <1>2, <1>6, <1>7, SMTT(30)

\* SendDone: the whole batch is accepted and no longer held.
LEMMA SendDoneEffect ==
    ASSUME TypeInv, Accounting, NEW s \in Senders, SendDone(s)
    PROVE  /\ Held' = Held \ Range(sender[s].batch)
           /\ Accept(Range(sender[s].batch))
           /\ nPayloads' = nPayloads /\ HeldOnce'
  <1>1. <<>> \in Seq(PayloadIds) /\ Range(<<>>) = {} /\ IsInjective(<<>>)
    BY DEF Range, IsInjective
  <1>2. /\ sender' = [sender EXCEPT ![s] = [pc |-> "idle", batch |-> <<>>]]
        /\ eventPayloads' = eventPayloads /\ nPayloads' = nPayloads
        /\ Accept(Range(sender[s].batch))
    BY DEF SendDone, Idle, collectVars
  <1>3. /\ Held' = Held \ (Range(sender[s].batch) \ Range(<<>>))
        /\ HeldOnce'
    BY <1>1, <1>2, ShrinkEffect, Zenon
  <1> QED BY <1>1, <1>2, <1>3

\* SendError: everything stays held; upstream may know some of it already.
LEMMA SendErrorEffect ==
    ASSUME TypeInv, Accounting, NEW s \in Senders, SendError(s)
    PROVE  /\ Held' = Held
           /\ \E D \in SUBSET Range(sender[s].batch) : (~LostReplies => D = {}) /\ Accept(D)
           /\ nPayloads' = nPayloads /\ HeldOnce'
  <1>1. /\ sender' = [sender EXCEPT ![s] = [pc |-> "requeue", batch |-> sender[s].batch]]
        /\ eventPayloads' = eventPayloads /\ nPayloads' = nPayloads
    BY DEF SendError, PutBack, collectVars
  <1>2. sender[s].batch \in Seq(PayloadIds) /\ IsInjective(sender[s].batch)
    BY DEF TypeInv, TypeOK, Accounting, HeldOnce
  <1>3. /\ Held' = Held \ (Range(sender[s].batch) \ Range(sender[s].batch))
        /\ HeldOnce'
    BY <1>1, <1>2, ShrinkEffect, Zenon
  <1> QED BY <1>1, <1>3 DEF SendError

\* SendPartial: what did not fail is accepted and no longer held.
LEMMA SendPartialEffect ==
    ASSUME TypeInv, Accounting, NEW s \in Senders, SendPartial(s)
    PROVE  /\ \E A \in SUBSET Range(sender[s].batch) : Held' = Held \ A /\ Accept(A)
           /\ nPayloads' = nPayloads /\ HeldOnce'
  <1> DEFINE batch == sender[s].batch
  <1>1. batch \in Seq(PayloadIds) /\ IsInjective(batch)
    BY DEF TypeInv, TypeOK, Accounting, HeldOnce
  <1>2. PICK n \in DOMAIN batch : \E f \in [1..n -> DOMAIN batch] :
           /\ \A i, j \in 1..n : i < j => f[i] < f[j]
           /\ Accept(Range(batch) \ Range([i \in 1..n |-> batch[f[i]]]))
           /\ PutBack(s, [i \in 1..n |-> batch[f[i]]])
    BY Zenon DEF SendPartial
  <1>3. PICK f \in [1..n -> DOMAIN batch] :
           /\ \A i, j \in 1..n : i < j => f[i] < f[j]
           /\ Accept(Range(batch) \ Range([i \in 1..n |-> batch[f[i]]]))
           /\ PutBack(s, [i \in 1..n |-> batch[f[i]]])
    BY <1>2, Zenon
  <1> DEFINE failed == [i \in 1..n |-> batch[f[i]]]
  <1>4. failed \in Seq(PayloadIds) /\ Range(failed) \subseteq Range(batch) /\ IsInjective(failed)
    <2>1. \A i, j \in 1..n : i < j => f[i] < f[j]
      BY <1>3
    <2> HIDE DEF batch
    <2>2. [i \in 1..n |-> batch[f[i]]] \in Seq(PayloadIds)
      BY <1>1, <2>1, PickRange, Zenon
    <2>3. Range([i \in 1..n |-> batch[f[i]]]) \subseteq Range(batch)
      BY DEF Range
    <2>4. IsInjective([i \in 1..n |-> batch[f[i]]])
      BY <1>1, <2>1, PickRange, Zenon
    <2> QED BY <2>2, <2>3, <2>4, SMTT(30)
  <1>5. /\ Accept(Range(batch) \ Range(failed))
        /\ sender' = [sender EXCEPT ![s] = [pc |-> "requeue", batch |-> failed]]
        /\ eventPayloads' = eventPayloads /\ nPayloads' = nPayloads
    BY <1>3 DEF PutBack, collectVars
  <1> HIDE DEF failed
  <1>6. Held' = Held \ (Range(batch) \ Range(failed)) /\ HeldOnce'
    BY <1>4, <1>5, ShrinkEffect, Zenon
  <1>7. Range(batch) \ Range(failed) \in SUBSET Range(batch)
    BY Zenon
  <1> QED BY <1>5, <1>6, <1>7

\* Requeue: the payloads only change place.
LEMMA RequeueEffect ==
    ASSUME TypeInv, Accounting, NEW s \in Senders, Requeue(s)
    PROVE  /\ Held' = Held
           /\ received' = received /\ duplicated' = duplicated
           /\ nPayloads' = nPayloads /\ HeldOnce'
  <1> DEFINE batch == sender[s].batch
  <1>1. batch \in Seq(PayloadIds) /\ eventPayloads \in Seq(PayloadIds)
    BY DEF TypeInv, TypeOK
  <1>2. IsInjective(batch) /\ IsInjective(eventPayloads) /\ Range(batch) \cap Range(eventPayloads) = {}
    BY DEF Accounting, HeldOnce
  <1>3. /\ eventPayloads' = batch \o eventPayloads
        /\ sender'[s].batch = <<>>
        /\ \A t \in Senders \ {s} : sender'[t] = sender[t]
        /\ received' = received /\ duplicated' = duplicated /\ nPayloads' = nPayloads
    BY DEF TypeInv, TypeOK, Requeue, Requeued, Idle, collectVars, upstreamVars
  <1>4. /\ Range(eventPayloads') = Range(batch) \cup Range(eventPayloads)
        /\ IsInjective(eventPayloads')
    <2> HIDE DEF batch
    <2> QED BY <1>1, <1>2, <1>3, ConcatRange
  <1>5. Range(<<>>) = {} /\ IsInjective(<<>>)
    BY DEF Range, IsInjective
  <1>6. HeldOnce'
    BY <1>3, <1>4, <1>5, Zenon DEF Accounting, HeldOnce
  <1>7. Held' = Held
    <2>1. \A e : e \in Held <=> \/ e \in Range(eventPayloads)
                                \/ \E t \in Senders : e \in Range(sender[t].batch)
      BY DEF Held
    <2>2. \A e : e \in Held' <=> \/ e \in Range(eventPayloads')
                                 \/ \E t \in Senders : e \in Range(sender'[t].batch)
      BY DEF Held
    <2> QED BY <1>3, <1>4, <1>5, <2>1, <2>2, Zenon
  <1> QED BY <1>3, <1>6, <1>7

\* What upstream accepts was held, so accepting it (and then holding it no
\* longer, when replies are not lost) keeps the accounts.
LEMMA AcceptEffect ==
    ASSUME Accounting, NEW A, A \subseteq Held, Accept(A), nPayloads' = nPayloads, HeldOnce',
           \/ Held' = Held \ A
           \/ Held' = Held /\ (~LostReplies => A = {})
    PROVE  Accounting'
  <1>1. received' = received \cup A /\ duplicated' = duplicated \cup (received \cap A)
    BY DEF Accept
  <1>2. NoPayloadLost'
    BY <1>1 DEF Accounting, NoPayloadLost
  <1>3. AcceptedOnce'
    BY <1>1 DEF Accounting, AcceptedOnce
  <1> QED BY <1>2, <1>3 DEF Accounting

\* Every step keeps the accounts.
LEMMA AccountingStep == TypeInv /\ Accounting /\ [Next]_vars => Accounting'
  <1> SUFFICES ASSUME TypeInv, Accounting, [Next]_vars PROVE Accounting'
    OBVIOUS
  <1>1. ASSUME UNCHANGED accountVars PROVE Accounting'
    BY <1>1, AccountingFrame
  <1>2. CASE UNCHANGED vars
    BY <1>1, <1>2 DEF vars, accountVars, collectVars, upstreamVars
  <1>3. CASE Caller
    <2>1. UNCHANGED accountVars
      BY <1>3, ZenonT(30) DEF Caller, CounterCall, Update, AddAttribute, NewMonitor, AddCounter,
                  DeleteCounter, accountVars, collectVars, upstreamVars
    <2> QED BY <1>1, <2>1
  <1>4. CASE EndCollect \/ EndStopCollect
    <2>1. received' = received /\ duplicated' = duplicated
      BY <1>4 DEF EndCollect, EndStopCollect, upstreamVars
    <2>2. /\ Held' = Held \cup nPayloads + 1..nPayloads'
          /\ nPayloads' = nPayloads \/ nPayloads' = nPayloads + 1
          /\ HeldOnce'
      BY <1>4, CollectEffect
    <2>3. nPayloads \in Nat
      BY DEF TypeInv, TypeOK
    <2>4. NoPayloadLost'
      BY <2>1, <2>2, <2>3 DEF Accounting, NoPayloadLost
    <2>5. AcceptedOnce'
      BY <2>1, <2>2, <2>3 DEF Accounting, AcceptedOnce, NoPayloadLost
    <2> QED BY <2>2, <2>4, <2>5 DEF Accounting
  <1>5. CASE Service /\ ~(EndCollect \/ EndStopCollect)
    <2>1. UNCHANGED accountVars
      BY <1>5, ZenonT(30) DEF Service, Start, Tick, Stop, TimerStopped, SendersDone, BeginCollect,
                  CollectCounter, CollectNextMonitor, accountVars, collectVars, upstreamVars
    <2> QED BY <1>1, <2>1
  <1>6. ASSUME NEW s \in Senders, SendDone(s) \/ SendError(s) \/ SendPartial(s) \/ Requeue(s)
        PROVE  Accounting'
    <2>1. Range(sender[s].batch) \subseteq Held
      BY DEF Held
    <2>2. CASE SendDone(s)
      BY <2>1, <2>2, SendDoneEffect, AcceptEffect
    <2>3. CASE SendError(s)
      <3>1. PICK D \in SUBSET Range(sender[s].batch) : (~LostReplies => D = {}) /\ Accept(D)
        BY <2>3, SendErrorEffect
      <3>2. D \subseteq Held
        BY <2>1
      <3>3. Held' = Held /\ nPayloads' = nPayloads /\ HeldOnce'
        BY <2>3, SendErrorEffect
      <3> QED BY <3>1, <3>2, <3>3, AcceptEffect
    <2>4. CASE SendPartial(s)
      <3>1. PICK A \in SUBSET Range(sender[s].batch) : Held' = Held \ A /\ Accept(A)
        BY <2>4, SendPartialEffect
      <3>2. A \subseteq Held
        BY <2>1
      <3>3. nPayloads' = nPayloads /\ HeldOnce'
        BY <2>4, SendPartialEffect
      <3> QED BY <3>1, <3>2, <3>3, AcceptEffect
    <2>5. CASE Requeue(s)
      BY <2>5, RequeueEffect DEF Accounting, NoPayloadLost, AcceptedOnce
    <2> QED BY <1>6, <2>2, <2>3, <2>4, <2>5
  <1> QED BY <1>2, <1>3, <1>4, <1>5, <1>6, SMTT(20) DEF Next, Sending

\* No payload is ever lost: whatever fails and however the timer, Stop and any
\* number of posting goroutines interleave, every payload created is queued,
\* being posted, or accepted upstream.  None is ever in two places, so no two
\* goroutines post the same one; and if an error reply means that nothing was
\* accepted, none is accepted twice, however often posts are retried.
THEOREM PayloadsSafe == Spec => []Accounting
BY TypeInit, TypeStep, AccountingInit, AccountingStep, PTL DEF Spec

-----------------------------------------------------------------------------
(***************************************************************************)
(* The service implements EventOutbox.                                     *)
(***************************************************************************)

\* Every step of the service submits a payload, transmits some, or leaves what
\* is held and accepted alone.
LEMMA OutboxStep ==
    TypeInv /\ Accounting /\ [Next]_vars => [Outbox!Next]_<<Held, received>>
  <1> SUFFICES ASSUME TypeInv, Accounting, [Next]_vars,
                      ~(Held' = Held /\ received' = received)
               PROVE  Outbox!Next
    OBVIOUS
  <1>1. ~UNCHANGED accountVars
    BY DEF accountVars, Held
  <1>2. CASE UNCHANGED vars
    BY <1>1, <1>2 DEF vars, accountVars, collectVars, upstreamVars
  <1>3. CASE Caller
    BY <1>1, <1>3, ZenonT(30) DEF Caller, CounterCall, Update, AddAttribute, NewMonitor, AddCounter,
                      DeleteCounter, accountVars, collectVars, upstreamVars
  <1>4. CASE EndCollect \/ EndStopCollect
    <2>1. received' = received
      BY <1>4 DEF EndCollect, EndStopCollect, upstreamVars
    <2>2. /\ Held' = Held \cup nPayloads + 1..nPayloads'
          /\ nPayloads' = nPayloads \/ nPayloads' = nPayloads + 1
      BY <1>4, CollectEffect
    <2>3. nPayloads \in Nat /\ nPayloads' \in 0..MaxPayloads
      <3>1. TypeInv'
        BY TypeStep, Zenon
      <3> QED BY <3>1, BoundsAssumption DEF TypeInv, TypeOK
    <2>4. nPayloads' = nPayloads + 1 /\ Held' = Held \cup {nPayloads + 1}
      BY <2>1, <2>2, <2>3
    <2>5. nPayloads + 1 \in PayloadIds /\ nPayloads + 1 \notin Held \cup received
      BY <2>3, <2>4, BoundsAssumption DEF Accounting, NoPayloadLost, PayloadIds
    <2>6. Outbox!Submit(nPayloads + 1)
      BY <2>1, <2>4, <2>5 DEF Outbox!Submit
    <2> QED BY <2>5, <2>6 DEF Outbox!Next
  <1>5. CASE Service /\ ~(EndCollect \/ EndStopCollect)
    BY <1>1, <1>5, ZenonT(30) DEF Service, Start, Tick, Stop, TimerStopped, SendersDone, BeginCollect,
                      CollectCounter, CollectNextMonitor, accountVars, collectVars, upstreamVars
  <1>6. ASSUME NEW s \in Senders, SendDone(s) \/ SendError(s) \/ SendPartial(s) \/ Requeue(s)
        PROVE  Outbox!Next
    <2>1. Range(sender[s].batch) \subseteq Held
      BY DEF Held
    <2>2. ASSUME NEW A \in SUBSET Range(sender[s].batch), Held' = Held \ A, Accept(A)
          PROVE  Outbox!Next
      <3>1. A \in SUBSET Held /\ Outbox!Transmit(A, A)
        BY <2>1, <2>2 DEF Outbox!Transmit, Accept
      <3> QED BY <3>1 DEF Outbox!Next
    <2>3. CASE SendDone(s)
      BY <2>2, <2>3, SendDoneEffect
    <2>4. CASE SendError(s)
      <3>1. PICK D \in SUBSET Range(sender[s].batch) : (~LostReplies => D = {}) /\ Accept(D)
        BY <2>4, SendErrorEffect
      <3>2. Held' = Held
        BY <2>4, SendErrorEffect
      <3>3. D \in SUBSET Held /\ {} \in SUBSET Held /\ Outbox!Transmit(D, {})
        BY <2>1, <3>1, <3>2 DEF Outbox!Transmit, Accept
      <3> QED BY <3>3 DEF Outbox!Next
    <2>5. CASE SendPartial(s)
      BY <2>2, <2>5, SendPartialEffect
    <2>6. CASE Requeue(s)
      BY <2>6, RequeueEffect
    <2> QED BY <1>6, <2>3, <2>4, <2>5, <2>6, SMTT(20)
  <1> QED BY <1>2, <1>3, <1>4, <1>5, <1>6, SMTT(20) DEF Next, Sending

\* The monitor service implements the abstract outbox: every event submitted is
\* kept until upstream accepted it, and accepted once if no reply is lost.
THEOREM ImplementsOutbox == Spec => OutboxSpec
  <1>1. Init => Outbox!Init
    <2> SUFFICES ASSUME Init PROVE Outbox!Init
      OBVIOUS
    <2>1. eventPayloads = <<>> /\ received = {} /\ \A s \in Senders : sender[s].batch = <<>>
      BY DEF Init, Idle
    <2>2. Range(<<>>) = {}
      BY SMTT(30) DEF Range
    <2> QED BY <2>1, <2>2 DEF Outbox!Init, Held
  <1> QED BY <1>1, TypeInit, TypeStep, AccountingInit, AccountingStep, OutboxStep, PTL
          DEF Spec, OutboxSpec, Outbox!Spec

-----------------------------------------------------------------------------
(***************************************************************************)
(* Stop() leaves nothing running.  After the timer's Stop() has waited for *)
(* the callback there is none, so the only goroutine sendWG.Wait() can     *)
(* miss is the one Stop() starts itself, and it waits for that one too.    *)
(***************************************************************************)
StopInv ==
    StopWaits =>
        /\ stopPC # "none" => timer # "running"
        /\ stopPC \in {"wait", "lock", "collecting", "waitLast", "done"} => callback = "none"
        /\ stopPC \in {"lock", "collecting", "done"} => \A s \in Senders : sender[s] = Idle

\* StopInv is inductive.
LEMMA StopStep == TypeInv /\ StopInv /\ [Next]_vars => StopInv'
  <1> SUFFICES ASSUME TypeInv, StopInv, [Next]_vars, StopWaits PROVE StopInv'
    BY FlagsAssumption DEF StopInv
  <1> USE DEF StopInv
  <1>1. CASE UNCHANGED vars
    BY <1>1 DEF vars, threadVars
  <1>2. CASE Caller
    <2>1. UNCHANGED <<threadVars, sender>>
      BY <1>2, Zenon DEF Caller, CounterCall, Update, AddAttribute, NewMonitor, AddCounter,
         DeleteCounter
    <2> QED BY <2>1, SMTT(30) DEF threadVars
  <1>3. CASE Start \/ Tick \/ Stop \/ TimerStopped \/ SendersDone
    BY <1>3 DEF Start, Tick, Stop, TimerStopped, SendersDone, AllSent
  <1>4. ASSUME NEW h \in {"timer", "stop"}, BeginCollect(h) PROVE StopInv'
    BY <1>4, ZenonT(30) DEF BeginCollect, AtLock
  <1>5. CASE CollectCounter \/ CollectNextMonitor
    BY <1>5 DEF CollectCounter, CollectNextMonitor, threadVars
  <1>6. CASE EndCollect
    <2>1. callback = "collecting"
      BY <1>6 DEF EndCollect, TypeInv, LockInv
    <2> QED BY <1>6, <2>1 DEF EndCollect, TypeInv, TypeOK
  <1>7. CASE EndStopCollect
    <2>1. stopPC = "collecting"
      BY <1>7 DEF EndStopCollect, TypeInv, LockInv
    <2> QED BY <1>7, <2>1 DEF EndStopCollect
  <1>8. ASSUME NEW s \in Senders, SendDone(s) \/ SendError(s) \/ SendPartial(s) \/ Requeue(s)
        PROVE  StopInv'
    <2>1. sender[s].pc # "idle" /\ UNCHANGED threadVars
      BY <1>8, Zenon DEF SendDone, SendError, SendPartial, Requeue, PutBack
    <2>2. sender[s] # Idle
      BY <2>1, SMTT(30) DEF Idle
    <2> QED BY <2>1, <2>2 DEF threadVars
  <1> QED BY <1>1, <1>2, <1>3, <1>4, <1>5, <1>6, <1>7, <1>8, ZenonT(30) DEF Next, Service, Sending

\* When Stop() returns, the service is quiet: no callback, no lock held, no
\* goroutine, provided the timer's Stop() waits for its callback.
THEOREM StopIsQuiet == Spec => []StopQuiesces
  <1>1. Init => StopInv
    BY DEF Init, StopInv
  <1>2. TypeInv /\ StopInv => StopQuiesces
    BY DEF TypeInv, TypeOK, LockInv, StopInv, StopQuiesces
  <1> QED BY <1>1, <1>2, TypeInit, TypeStep, StopStep, PTL DEF Spec

-----------------------------------------------------------------------------
(***************************************************************************)
(* The size of the queue.                                                  *)
(***************************************************************************)

\* QueueWithinCollectCount is inductive once one knows that no goroutine is
\* about to put something back as long as no post failed.
QueueInv ==
    /\ QueueWithinCollectCount
    /\ ~requeued => \A s \in Senders : sender[s].pc # "requeue"

\* Every step keeps the queue within its documented size.
LEMMA QueueStep == TypeInv /\ QueueInv /\ [Next]_vars => QueueInv'
  <1> SUFFICES ASSUME TypeInv, QueueInv, [Next]_vars PROVE QueueInv'
    OBVIOUS
  <1>1. ASSUME UNCHANGED <<eventPayloads, sender, sendCountdown, requeued>> PROVE QueueInv'
    BY <1>1 DEF QueueInv, QueueWithinCollectCount
  <1>2. CASE UNCHANGED vars
    BY <1>1, <1>2 DEF vars, collectVars
  <1>3. CASE Caller
    <2>1. UNCHANGED <<eventPayloads, sender, sendCountdown, requeued>>
      BY <1>3, ZenonT(30) DEF Caller, CounterCall, Update, AddAttribute, NewMonitor, AddCounter,
                  DeleteCounter, collectVars
    <2> QED BY <1>1, <2>1
  <1>4. CASE Service /\ ~(EndCollect \/ EndStopCollect)
    <2>1. UNCHANGED <<eventPayloads, sender, sendCountdown, requeued>>
      BY <1>4, ZenonT(30) DEF Service, Start, Tick, Stop, TimerStopped, SendersDone, BeginCollect,
                  CollectCounter, CollectNextMonitor, collectVars
    <2> QED BY <1>1, <2>1
  <1>5. ASSUME requeued' = requeued, NEW queue, PostEvents(queue),
               sendCountdown' \in Nat, sendCountdown' < CollectCount
        PROVE  QueueInv'
    <2>1. eventPayloads' = <<>> /\ Len(<<>>) = 0
      <3>1. eventPayloads' = <<>>
        BY <1>5, Zenon DEF PostEvents
      <3> QED BY <3>1
    <2>2. \A s \in Senders : sender'[s].pc = "requeue" => sender[s].pc = "requeue"
      <3>1. PICK s \in Senders :
               sender' = [sender EXCEPT ![s] = [pc |-> "posting", batch |-> queue]]
        BY <1>5, Zenon DEF PostEvents
      <3>2. \A t \in Senders : t # s => sender'[t] = sender[t]
        BY <3>1, Zenon DEF TypeInv, TypeOK
      <3>3. sender'[s].pc = "posting"
        BY <3>1, Zenon DEF TypeInv, TypeOK
      <3>4. sender'[s].pc # "requeue"
        BY <3>3
      <3> QED BY <3>2, <3>4, Zenon
    <2> QED BY <1>5, <2>1, <2>2 DEF QueueInv, QueueWithinCollectCount
  <1>6. CASE EndCollect
    <2>1. sendCountdown \in 0..CollectCount - 1 /\ CollectCount \in Nat \ {0}
      BY CollectCountAssumption DEF TypeInv, TypeOK
    <2>2. CASE sendCountdown = 0
      BY <1>5, <1>6, <2>1, <2>2, SMTT(20) DEF EndCollect, NextCountdown
    <2>3. CASE sendCountdown # 0
      <3>1. /\ eventPayloads' = Collected /\ sendCountdown' = sendCountdown - 1
            /\ sender' = sender /\ requeued' = requeued
        BY <1>6, <2>3 DEF EndCollect, NextCountdown
      <3>2. /\ Len(eventPayloads) \in Nat
            /\ Len(Collected) = Len(eventPayloads) \/ Len(Collected) = Len(eventPayloads) + 1
        BY DEF Collected, TypeInv, TypeOK
      <3> QED BY <2>1, <2>3, <3>1, <3>2 DEF QueueInv, QueueWithinCollectCount
    <2> QED BY <2>2, <2>3
  <1>7. CASE EndStopCollect
    <2>1. /\ sendCountdown' = sendCountdown /\ requeued' = requeued /\ PostEvents(Collected)
          /\ sendCountdown \in Nat /\ sendCountdown < CollectCount
      BY <1>7, CollectCountAssumption DEF EndStopCollect, TypeInv, TypeOK
    <2> QED BY <1>5, <2>1
  <1>8. ASSUME NEW s \in Senders, SendDone(s) \/ SendError(s) \/ SendPartial(s) \/ Requeue(s)
        PROVE  QueueInv'
    <2>1. CASE SendDone(s)
      <3>1. /\ UNCHANGED <<eventPayloads, sendCountdown, requeued>>
            /\ \A t \in Senders : sender'[t].pc = "requeue" => sender[t].pc = "requeue"
        BY <2>1 DEF SendDone, Idle, collectVars, TypeInv, TypeOK
      <3> QED BY <3>1, SMTT(30) DEF QueueInv, QueueWithinCollectCount
    <2>2. CASE SendError(s) \/ SendPartial(s)
      <3>1. requeued'
        BY <2>2, Zenon DEF SendError, SendPartial, PutBack
      <3> QED BY <3>1 DEF QueueInv, QueueWithinCollectCount
    <2>3. CASE Requeue(s)
      <3>1. sender[s].pc = "requeue" /\ requeued' = requeued
        BY <2>3 DEF Requeue
      <3> QED BY <3>1 DEF QueueInv, QueueWithinCollectCount
    <2> QED BY <1>8, <2>1, <2>2, <2>3
  <1> QED BY <1>2, <1>3, <1>4, <1>6, <1>7, <1>8, SMTT(20) DEF Next, Sending

\* The queue stays within collectCount as long as posts succeed.
THEOREM QueueBounded == Spec => []QueueWithinCollectCount
  <1>1. Init => QueueInv
    BY CollectCountAssumption DEF Init, Idle, QueueInv, QueueWithinCollectCount
  <1>2. QueueInv => QueueWithinCollectCount
    BY DEF QueueInv
  <1> QED BY <1>1, <1>2, TypeInit, TypeStep, QueueStep, PTL DEF Spec

-----------------------------------------------------------------------------
(***************************************************************************)
(* Order of the queue.                                                     *)
(***************************************************************************)

\* A payload newer than the whole queue goes to its end.
LEMMA AppendIncreasing ==
    ASSUME NEW q \in Seq(Nat), NEW e \in Nat, Increasing(q), \A x \in Range(q) : x < e
    PROVE  Increasing(Append(q, e))
  <1> DEFINE r == Append(q, e)
  <1>1. /\ Len(q) \in Nat
        /\ DOMAIN q = 1..Len(q) /\ DOMAIN r = 1..Len(q) + 1
        /\ \A i \in 1..Len(q) : r[i] = q[i]
        /\ r[Len(q) + 1] = e
    OBVIOUS
  <1> HIDE DEF r
  <1>2. Increasing(r)
    BY <1>1 DEF Increasing, Range
  <1> QED BY <1>2 DEF r

\* Older payloads go back in front.
LEMMA ConcatIncreasing ==
    ASSUME NEW q \in Seq(Nat), NEW r \in Seq(Nat), Increasing(q), Increasing(r),
           \A x \in Range(q), y \in Range(r) : x < y
    PROVE  Increasing(q \o r)
  <1> DEFINE c == q \o r
  <1>1. /\ Len(q) \in Nat /\ Len(r) \in Nat
        /\ DOMAIN q = 1..Len(q) /\ DOMAIN r = 1..Len(r) /\ DOMAIN c = 1..Len(q) + Len(r)
        /\ \A i \in 1..Len(q) : c[i] = q[i]
        /\ \A i \in 1..Len(q) + Len(r) : i > Len(q) => i - Len(q) \in 1..Len(r) /\ c[i] = r[i - Len(q)]
    OBVIOUS
  <1> HIDE DEF c
  <1>2. SUFFICES ASSUME NEW i \in DOMAIN c, NEW j \in DOMAIN c, i < j PROVE c[i] < c[j]
    BY SMTT(30) DEF Increasing, c
  <1>3. CASE j <= Len(q)
    BY <1>1, <1>2, <1>3 DEF Increasing
  <1>4. CASE i <= Len(q) /\ j > Len(q)
    <2>1. i \in DOMAIN q /\ c[i] = q[i]
      BY <1>1, <1>4
    <2>2. j - Len(q) \in DOMAIN r /\ c[j] = r[j - Len(q)]
      BY <1>1, <1>4, SMTT(30)
    <2>3. c[i] \in Range(q) /\ c[j] \in Range(r)
      BY <2>1, <2>2 DEF Range
    <2> QED BY <2>3
  <1>5. CASE i > Len(q)
    <2>1. i \in 1..Len(q) + Len(r) /\ j \in 1..Len(q) + Len(r) /\ j > Len(q)
      BY <1>1, <1>2, <1>5
    <2>2. i - Len(q) \in DOMAIN r /\ c[i] = r[i - Len(q)]
      BY <1>1, <1>5, <2>1
    <2>3. j - Len(q) \in DOMAIN r /\ c[j] = r[j - Len(q)]
      BY <1>1, <2>1
    <2>4. i - Len(q) < j - Len(q)
      BY <1>1, <1>2, <2>1
    <2> QED BY <2>2, <2>3, <2>4 DEF Increasing
  <1> QED BY <1>1, <1>3, <1>4, <1>5

\* The failed events of a batch in order are in order.
LEMMA PickIncreasing ==
    ASSUME NEW q \in Seq(Nat), NEW n \in DOMAIN q, NEW f \in [1..n -> DOMAIN q],
           \A i, j \in 1..n : i < j => f[i] < f[j], Increasing(q)
    PROVE  Increasing([i \in 1..n |-> q[f[i]]])
BY Zenon DEF Increasing

\* What is queued or with a goroutine is older than the payload being built.
LEMMA HeldIsOld ==
    ASSUME TypeInv, Accounting
    PROVE  /\ \A p \in Held : p \in Nat /\ p < nPayloads + 1
           /\ Range(eventPayloads) \subseteq Held
           /\ \A s \in Senders : Range(sender[s].batch) \subseteq Held
  <1>1. nPayloads \in Nat /\ Held \subseteq 1..nPayloads
    BY DEF TypeInv, TypeOK, Accounting, NoPayloadLost
  <1>2. \A p \in Held : p \in Nat /\ p < nPayloads + 1
    BY <1>1
  <1>3. /\ Range(eventPayloads) \subseteq Held
        /\ \A s \in Senders : Range(sender[s].batch) \subseteq Held
    BY DEF Held
  <1> QED BY <1>2, <1>3

\* Sequences of payloads are sequences of naturals.
LEMMA PayloadSeqs == Seq(PayloadIds) \subseteq Seq(Nat)
BY BoundsAssumption DEF PayloadIds

\* InCollectionOrder is inductive once one knows that, unless posts overlapped,
\* one goroutine at most is at work.
OrderInv ==
    /\ InCollectionOrder
    /\ ~overlapped => \A s, t \in Senders : sender[s] # Idle /\ sender[t] # Idle => s = t

\* The payload a collection builds ends up last, in the queue or in the batch.
LEMMA CollectOrder ==
    ASSUME TypeInv, Accounting, OrderInv, EndCollect \/ EndStopCollect
    PROVE  OrderInv'
  <1> SUFFICES ASSUME ~overlapped' PROVE OrderInv'
    BY DEF OrderInv, InCollectionOrder
  <1>0. ~overlapped
    BY Zenon DEF EndCollect, EndStopCollect, PostEvents
  <1>1. /\ Increasing(Collected)
        /\ Range(Collected) \subseteq Range(eventPayloads) \cup {nPayloads + 1}
    <2>1. CASE snapshots = <<>>
      BY <1>0, <2>1 DEF Collected, OrderInv, InCollectionOrder
    <2>2. CASE snapshots # <<>>
      <3>1. /\ eventPayloads \in Seq(Nat) /\ nPayloads + 1 \in Nat
            /\ Collected = Append(eventPayloads, nPayloads + 1)
        BY <2>2, PayloadSeqs DEF Collected, TypeInv, TypeOK
      <3>2. Increasing(eventPayloads) /\ \A x \in Range(eventPayloads) : x < nPayloads + 1
        BY <1>0, HeldIsOld DEF OrderInv, InCollectionOrder
      <3>3. Increasing(Collected)
        BY <3>1, <3>2, AppendIncreasing
      <3>4. Range(Collected) = Range(eventPayloads) \cup {nPayloads + 1}
        BY <3>1, AppendRange
      <3> QED BY <3>3, <3>4
    <2> QED BY <2>1, <2>2
  <1>2. CASE eventPayloads' = Collected /\ sender' = sender
    <2>1. \A s \in Senders : \A p, q :
            p \in Range(sender[s].batch) /\ q \in Range(Collected) => p < q
      BY <1>0, <1>1, HeldIsOld DEF OrderInv, InCollectionOrder
    <2> QED BY <1>0, <1>1, <1>2, <2>1, SMTT(20) DEF OrderInv, InCollectionOrder
  <1>3. CASE PostEvents(Collected)
    <2>1. PICK s \in Senders :
             /\ sender[s] = Idle
             /\ sender' = [sender EXCEPT ![s] = [pc |-> "posting", batch |-> Collected]]
      BY <1>3, Zenon DEF PostEvents
    <2>2. /\ eventPayloads' = <<>> /\ Range(<<>>) = {} /\ Increasing(<<>>)
          /\ \A t \in Senders : sender[t] = Idle
      <3>1. overlapped' = (overlapped \/ \E t \in Senders : sender[t] # Idle)
        BY <1>3 DEF PostEvents
      <3>2. Range(<<>>) = {} /\ Increasing(<<>>)
        BY DEF Range, Increasing
      <3> QED BY <1>3, <3>1, <3>2, Zenon DEF PostEvents
    <2>3. /\ sender'[s].batch = Collected
          /\ \A t \in Senders \ {s} : sender'[t] = Idle /\ sender'[t].batch = <<>>
      BY <2>1, <2>2 DEF TypeInv, TypeOK, Idle
    <2> QED BY <1>1, <2>2, <2>3 DEF OrderInv, InCollectionOrder
  <1> QED BY <1>2, <1>3 DEF EndCollect, EndStopCollect

\* Every step keeps the order.
LEMMA OrderStep == TypeInv /\ Accounting /\ OrderInv /\ [Next]_vars => OrderInv'
  <1> SUFFICES ASSUME TypeInv, Accounting, OrderInv, [Next]_vars PROVE OrderInv'
    OBVIOUS
  <1>1. ASSUME UNCHANGED <<eventPayloads, sender, overlapped>> PROVE OrderInv'
    BY <1>1 DEF OrderInv, InCollectionOrder
  <1>2. CASE UNCHANGED vars
    BY <1>1, <1>2 DEF vars
  <1>3. CASE Caller
    <2>1. UNCHANGED <<eventPayloads, sender, overlapped>>
      BY <1>3, Zenon DEF Caller, CounterCall, Update, AddAttribute, NewMonitor, AddCounter,
         DeleteCounter
    <2> QED BY <1>1, <2>1, SMTT(30)
  <1>4. CASE EndCollect \/ EndStopCollect
    BY <1>4, CollectOrder
  <1>5. CASE Service /\ ~(EndCollect \/ EndStopCollect)
    <2>1. UNCHANGED <<eventPayloads, sender, overlapped>>
      BY <1>5, Zenon DEF Service, Start, Tick, Stop, TimerStopped, SendersDone, BeginCollect,
                  CollectCounter, CollectNextMonitor
    <2> QED BY <1>1, <2>1, SMTT(30)
  <1>6. ASSUME NEW s \in Senders, SendDone(s) \/ SendError(s) \/ SendPartial(s) \/ Requeue(s)
        PROVE  OrderInv'
    <2> DEFINE batch == sender[s].batch
    <2>0. sender[s] # Idle /\ batch \in Seq(PayloadIds) /\ batch \in Seq(Nat)
      <3>1. sender[s].pc \in {"posting", "requeue"}
        BY <1>6, Zenon DEF SendDone, SendError, SendPartial, Requeue
      <3>2. sender[s] # Idle
        BY <3>1 DEF Idle
      <3>3. batch \in Seq(PayloadIds)
        BY DEF TypeInv, TypeOK
      <3> QED BY <3>2, <3>3, PayloadSeqs, SMTT(30)
    <2>1. ASSUME NEW r, NEW rest, r.batch = rest, sender' = [sender EXCEPT ![s] = r],
                 UNCHANGED <<eventPayloads, overlapped>>,
                 Range(rest) \subseteq Range(batch), Increasing(batch) => Increasing(rest)
          PROVE  OrderInv'
      <3>1. sender'[s] = r /\ \A t \in Senders \ {s} : sender'[t] = sender[t]
        BY <2>1 DEF TypeInv, TypeOK
      <3> QED BY <2>0, <2>1, <3>1 DEF OrderInv, InCollectionOrder
    <2>2. CASE SendDone(s)
      <3>1. Range(<<>>) = {} /\ Increasing(<<>>) /\ Idle.batch = <<>>
        BY DEF Range, Increasing, Idle
      <3> QED BY <2>1, <2>2, <3>1, Zenon DEF SendDone
    <2>3. CASE SendError(s)
      <3>1. [pc |-> "requeue", batch |-> batch].batch = batch
        OBVIOUS
      <3> QED BY <2>1, <2>3, <3>1, Zenon DEF SendError, PutBack
    <2>4. CASE SendPartial(s)
      <3>1. PICK n \in DOMAIN batch : \E f \in [1..n -> DOMAIN batch] :
               /\ \A i, j \in 1..n : i < j => f[i] < f[j]
               /\ PutBack(s, [i \in 1..n |-> batch[f[i]]])
        BY <2>4, Zenon DEF SendPartial
      <3>2. PICK f \in [1..n -> DOMAIN batch] :
               /\ \A i, j \in 1..n : i < j => f[i] < f[j]
               /\ PutBack(s, [i \in 1..n |-> batch[f[i]]])
        BY <3>1, Zenon
      <3> DEFINE failed == [i \in 1..n |-> batch[f[i]]]
      <3>3. Range(failed) \subseteq Range(batch) /\ (Increasing(batch) => Increasing(failed))
        <4>1. \A i, j \in 1..n : i < j => f[i] < f[j]
          BY <3>2
        <4> HIDE DEF batch
        <4>2. Range(failed) \subseteq Range(batch)
          BY DEF Range
        <4>3. Increasing(batch) => Increasing([i \in 1..n |-> batch[f[i]]])
          BY <2>0, <4>1, PickIncreasing, Zenon
        <4> QED BY <4>2, <4>3
      <3>4. sender' = [sender EXCEPT ![s] = [pc |-> "requeue", batch |-> failed]]
        BY <3>2 DEF PutBack
      <3>5. UNCHANGED <<eventPayloads, overlapped>>
        BY <3>2 DEF PutBack
      <3> HIDE DEF failed, batch
      <3>6. [pc |-> "requeue", batch |-> failed].batch = failed
        OBVIOUS
      <3> QED BY <2>1, <3>3, <3>4, <3>5, <3>6, Zenon
    <2>5. CASE Requeue(s)
      <3> SUFFICES ASSUME ~overlapped PROVE OrderInv'
        BY <2>5 DEF Requeue, OrderInv, InCollectionOrder
      <3>1. /\ sender'[s] = Idle /\ \A t \in Senders \ {s} : sender'[t] = sender[t]
            /\ eventPayloads' = batch \o eventPayloads
        BY <2>5 DEF Requeue, Requeued, TypeInv, TypeOK
      <3>2. \A t \in Senders \ {s} : sender[t] = Idle
        BY <2>0 DEF OrderInv
      <3>3. Idle.batch = <<>> /\ Range(<<>>) = {} /\ Increasing(<<>>)
        BY DEF Idle, Range, Increasing
      <3>4. Increasing(batch \o eventPayloads)
        <4>1. /\ eventPayloads \in Seq(Nat) /\ Increasing(batch) /\ Increasing(eventPayloads)
              /\ \A x \in Range(batch), y \in Range(eventPayloads) : x < y
          BY PayloadSeqs DEF TypeInv, TypeOK, OrderInv, InCollectionOrder
        <4> HIDE DEF batch
        <4> QED BY <2>0, <4>1, ConcatIncreasing
      <3>5. \A t \in Senders : sender'[t] = Idle
        BY <3>1, <3>2
      <3> HIDE DEF batch
      <3> QED BY <3>1, <3>3, <3>4, <3>5 DEF OrderInv, InCollectionOrder
    <2> QED BY <1>6, <2>2, <2>3, <2>4, <2>5, SMTT(20)
  <1> QED BY <1>2, <1>3, <1>4, <1>5, <1>6, SMTT(20) DEF Next, Sending

\* Collection order: until two posts overlap, retries never reorder payloads.
THEOREM OrderKept == Spec => []InCollectionOrder
  <1>1. Init => OrderInv
    BY DEF Init, OrderInv, InCollectionOrder, Idle, Increasing, Range
  <1>2. OrderInv => InCollectionOrder
    BY DEF OrderInv
  <1> QED BY <1>1, <1>2, TypeInit, TypeStep, AccountingInit, AccountingStep, OrderStep, PTL DEF Spec

-----------------------------------------------------------------------------
(***************************************************************************)
(* What Get() returns.                                                     *)
(***************************************************************************)

\* The counter methods and what they do to Get(): a collection does nothing.
LEMMA CounterMethodsGet ==
    ASSUME NEW c \in CounterType, NEW v \in Int
    PROVE  /\ Get(Inc(c)) = Get(c) + c.incBy
           /\ Get(Add(c, v)) = Get(c) + v
           /\ Get(SetInc(c, v)) = Get(c)
           /\ Get(AfterCollect(c)) = Get(c)
           /\ c.cumalative \/ c.cumalativeValue = 0 => Get(Set(c, v)) = v
  <1>1. /\ Get(Inc(c)) = Get(c) + c.incBy
        /\ Get(Add(c, v)) = Get(c) + v
        /\ Get(SetInc(c, v)) = Get(c)
    BY DEF CounterType, Get, Inc, Add, SetInc
  <1>2. Get(AfterCollect(c)) = Get(c)
    <2>1. CASE HasSnapshot(c) /\ c.cumalative
      BY <2>1 DEF CounterType, AfterCollect, Get
    <2>2. CASE ~(HasSnapshot(c) /\ c.cumalative)
      BY <2>2 DEF AfterCollect
    <2> QED BY <2>1, <2>2
  <1>3. c.cumalative \/ c.cumalativeValue = 0 => Get(Set(c, v)) = v
    BY DEF CounterType, Get, Set
  <1> QED BY <1>1, <1>2, <1>3

\* Set() relies on a counter that is not cumulative never being moved over.
GetInv ==
    /\ GetIsCount
    /\ \A c \in Counters : ctr[c].cumalative \/ ctr[c].cumalativeValue = 0

\* The methods keep a counter that is not cumulative from being moved over.
LEMMA CounterMethodsFlag ==
    ASSUME NEW c \in CounterType, NEW v \in Int, c.cumalative \/ c.cumalativeValue = 0,
           NEW d \in {Inc(c), Add(c, v), Set(c, v), SetInc(c, v), AfterCollect(c)}
    PROVE  d.cumalative \/ d.cumalativeValue = 0
BY Zenon DEF CounterType, Inc, Add, Set, SetInc, AfterCollect

\* Every step keeps Get() in line with what was counted.
LEMMA GetStep == TypeInv /\ GetInv /\ [Next]_vars => GetInv'
  <1> SUFFICES ASSUME TypeInv, GetInv, [Next]_vars PROVE GetInv'
    OBVIOUS
  <1>1. ASSUME UNCHANGED <<ctr, counted>> PROVE GetInv'
    BY <1>1 DEF GetInv, GetIsCount
  <1>2. ASSUME NEW c \in Counters, NEW d,
               ctr' = [ctr EXCEPT ![c] = d], Get(d) = counted'[c],
               \A b \in Counters \ {c} : counted'[b] = counted[b],
               d.cumalative \/ d.cumalativeValue = 0
        PROVE  GetInv'
    <2>1. ctr'[c] = d /\ \A b \in Counters \ {c} : ctr'[b] = ctr[b]
      BY <1>2 DEF TypeInv, TypeOK
    <2> QED BY <1>2, <2>1 DEF GetInv, GetIsCount
  <1>3. ASSUME NEW c \in Counters, CounterCall(c) PROVE GetInv'
    <2>1. /\ ctr[c] \in CounterType /\ ctr[c].incBy \in Int /\ 1 \in Int
          /\ Get(ctr[c]) = counted[c] /\ (ctr[c].cumalative \/ ctr[c].cumalativeValue = 0)
      BY SMTT(30) DEF TypeInv, TypeOK, CounterType, GetInv, GetIsCount
    <2>2. ASSUME NEW d, NEW count, Update(c, d, count), Get(d) = count,
                 d.cumalative \/ d.cumalativeValue = 0
          PROVE  GetInv'
      <3>1. counted'[c] = count /\ \A b \in Counters \ {c} : counted'[b] = counted[b]
        BY <2>2 DEF Update, TypeInv, TypeOK
      <3> QED BY <1>2, <2>2, <3>1, Zenon DEF Update
    <2>3. CASE Update(c, Inc(ctr[c]), counted[c] + ctr[c].incBy)
      <3>1. Get(Inc(ctr[c])) = counted[c] + ctr[c].incBy
        BY <2>1, CounterMethodsGet, Zenon
      <3>2. Inc(ctr[c]).cumalative \/ Inc(ctr[c]).cumalativeValue = 0
        BY <2>1, CounterMethodsFlag, SMTT(30)
      <3> QED BY <2>2, <2>3, <3>1, <3>2, ZenonT(30)
    <2>4. ASSUME NEW v \in Amounts,
                 \/ Update(c, Add(ctr[c], v), counted[c] + v)
                 \/ Update(c, Set(ctr[c], v), v)
                 \/ Update(c, SetInc(ctr[c], v), counted[c])
          PROVE  GetInv'
      <3>1. v \in Int
        BY AmountsAssumption
      <3>2. /\ Get(Add(ctr[c], v)) = counted[c] + v
            /\ Get(Set(ctr[c], v)) = v
            /\ Get(SetInc(ctr[c], v)) = counted[c]
        <4>1. /\ Get(Add(ctr[c], v)) = Get(ctr[c]) + v
              /\ Get(SetInc(ctr[c], v)) = Get(ctr[c])
              /\ ctr[c].cumalative \/ ctr[c].cumalativeValue = 0 => Get(Set(ctr[c], v)) = v
          BY <2>1, <3>1, CounterMethodsGet, Zenon
        <4> QED BY <2>1, <4>1, Zenon
      <3>3. \A d \in {Add(ctr[c], v), Set(ctr[c], v), SetInc(ctr[c], v)} :
               d.cumalative \/ d.cumalativeValue = 0
        BY <2>1, <3>1, CounterMethodsFlag, SMTT(30)
      <3> QED BY <2>2, <2>4, <3>2, <3>3, Zenon
    <2> QED BY <1>3, <2>3, <2>4 DEF CounterCall
  <1>4. CASE CollectCounter
    <2> DEFINE c == Head(Head(todo))
    <2>1. c \in Counters
      BY <1>4, SMTT(60) DEF CollectCounter, TypeInv, TypeOK
    <2>2. ctr[c] \in CounterType /\ (ctr[c].cumalative \/ ctr[c].cumalativeValue = 0) /\ 1 \in Int
      BY <2>1 DEF TypeInv, TypeOK, GetInv
    <2>3. Get(AfterCollect(ctr[c])) = counted[c]
      BY <2>1, <2>2, CounterMethodsGet DEF GetInv, GetIsCount
    <2>4. AfterCollect(ctr[c]).cumalative \/ AfterCollect(ctr[c]).cumalativeValue = 0
      BY <2>2, CounterMethodsFlag
    <2>5. ctr' = [ctr EXCEPT ![c] = AfterCollect(ctr[c])] /\ counted' = counted
      BY <1>4 DEF CollectCounter
    <2> HIDE DEF c
    <2> QED BY <1>2, <2>1, <2>3, <2>4, <2>5, Zenon
  <1>5. ASSUME ~CollectCounter, ~\E c \in Counters : CounterCall(c)
        PROVE  UNCHANGED <<ctr, counted>>
    BY <1>5, Zenon DEF Next, vars, callerVars, Caller, AddAttribute, NewMonitor, AddCounter, DeleteCounter,
                Service, Start, Tick, Stop, TimerStopped, SendersDone, BeginCollect,
                CollectNextMonitor, EndCollect, EndStopCollect, Sending, SendDone, SendError,
                SendPartial, PutBack, Requeue
  <1> QED BY <1>1, <1>3, <1>4, <1>5

\* Get() always returns what the callers counted, for every kind of counter.
THEOREM GetCorrect == Spec => []GetIsCount
  <1>1. Init => GetInv
    BY SMTT(60) DEF Init, GetInv, GetIsCount, Get, NewCounter
  <1>2. GetInv => GetIsCount
    BY DEF GetInv
  <1> QED BY <1>1, <1>2, TypeInit, TypeStep, GetStep, PTL DEF Spec

-----------------------------------------------------------------------------
(***************************************************************************)
(* Nothing is miscounted.  The property is about sums over snapshots and   *)
(* payloads, so first what Total computes, by induction over its terms.    *)
(***************************************************************************)

\* s holds the sums of the first amounts.
Sums(s, n, amount) ==
    /\ s \in [0..n -> Int]
    /\ s[0] = 0
    /\ \A i \in 1..n : s[i] = s[i - 1] + amount[i]

\* There are such sums.
LEMMA SumsExist ==
    ASSUME NEW n \in Nat, NEW amount \in [1..n -> Int]
    PROVE  \E s : Sums(s, n, amount)
  <1> DEFINE next == [i \in 1..n |-> [x \in Int |-> x + amount[i]]]
  <1>1. \A i \in 1..n : \A x \in Int : x + amount[i] \in Int
    <2> HIDE DEF next
    <2> QED OBVIOUS
  <1>2. /\ next \in [1..n -> [Int -> Int]]
        /\ \A i \in 1..n : \A x \in Int : next[i][x] = x + amount[i]
    BY <1>1, Zenon
  <1> HIDE DEF next
  <1>3. 0 \in Int
    OBVIOUS
  <1>4. PICK s : Loop(s, 0, next, n, Int)
    BY <1>2, <1>3, LoopExists, Zenon
  <1>5. s \in [0..n -> Int] /\ s[0] = 0 /\ \A i \in 1..n : s[i] = next[i][s[i - 1]]
    BY <1>4, Zenon DEF Loop
  <1>6. ASSUME NEW i \in 1..n PROVE s[i] = s[i - 1] + amount[i]
    <2>1. i - 1 \in 0..n
      OBVIOUS
    <2>2. s[i - 1] \in Int
      BY <1>5, <2>1, Zenon
    <2> QED BY <1>2, <1>5, <2>2, Zenon
  <1>7. Sums(s, n, amount)
    BY <1>5, <1>6, Zenon DEF Sums
  <1> QED BY <1>7, Zenon

\* The total is the last of them.
LEMMA TotalIs ==
    ASSUME NEW n \in Nat, NEW amount, NEW s, Sums(s, n, amount)
    PROVE  Total(n, amount) = s[n] /\ s[n] \in Int
  <1> DEFINE Raw(u) == u = [i \in 0..n |-> IF i = 0 THEN 0 ELSE u[i - 1] + amount[i]]
             t == CHOOSE u : Raw(u)
  <1>1. s \in [0..n -> Int] /\ s[0] = 0 /\ \A i \in 1..n : s[i] = s[i - 1] + amount[i]
    BY Zenon DEF Sums
  <1>2. 0 \in 0..n /\ n \in 0..n /\ \A i \in 1..n : i \in 0..n /\ i # 0
    OBVIOUS
  <1>3. ASSUME NEW i \in 0..n
        PROVE  s[i] = IF i = 0 THEN 0 ELSE s[i - 1] + amount[i]
    <2>1. CASE i = 0
      BY <1>1, <2>1, Zenon
    <2>2. CASE i # 0
      <3>1. i \in 1..n
        BY <2>2
      <3> QED BY <1>1, <2>2, <3>1, Zenon
    <2> QED BY <2>1, <2>2
  <1>4. Raw(s)
    BY <1>1, <1>3, Zenon
  <1>5. Raw(t)
    BY <1>4, Zenon
  <1>6. Total(n, amount) = t[n]
    BY Zenon DEF Total
  <1> HIDE DEF t
  <1>7. \A i \in 0..n : t[i] = IF i = 0 THEN 0 ELSE t[i - 1] + amount[i]
    BY <1>5, Zenon
  <1> DEFINE W == {i \in 0..n : t[i] = s[i]}
  <1>8. 0 \in W /\ \A i \in 1..n : i - 1 \in W => i \in W
    BY <1>2, <1>3, <1>7, Zenon
  <1> HIDE DEF W
  <1>9. \A i \in 0..n : i \in W
    BY <1>8, AllRounds, Zenon
  <1> QED BY <1>1, <1>2, <1>6, <1>9, Zenon DEF W

\* A total is a number.
LEMMA TotalType ==
    ASSUME NEW n \in Nat, NEW amount \in [1..n -> Int]
    PROVE  Total(n, amount) \in Int
BY SumsExist, TotalIs, Zenon

\* The total of the sums of two amounts each is the sum of their totals.
LEMMA TotalAdd ==
    ASSUME NEW n \in Nat, NEW a \in [1..n -> Int], NEW b \in [1..n -> Int], NEW c,
           \A i \in 1..n : c[i] = a[i] + b[i]
    PROVE  Total(n, c) = Total(n, a) + Total(n, b)
  <1>1. PICK s : Sums(s, n, a)
    BY SumsExist, Zenon
  <1>2. PICK t : Sums(t, n, b)
    BY SumsExist, Zenon
  <1> DEFINE u == [i \in 0..n |-> s[i] + t[i]]
  <1>3. \A i \in 0..n : s[i] \in Int /\ t[i] \in Int
    BY <1>1, <1>2, Zenon DEF Sums
  <1>4. 0 \in 0..n /\ n \in 0..n /\ \A i \in 1..n : i \in 0..n /\ i - 1 \in 0..n
    OBVIOUS
  <1>5. u \in [0..n -> Int] /\ \A i \in 0..n : u[i] = s[i] + t[i]
    <2>1. \A i \in 0..n : s[i] + t[i] \in Int
      BY <1>3
    <2> QED BY <2>1, Zenon
  <1> HIDE DEF u
  <1>6. u[0] = 0
    <2>1. u[0] = s[0] + t[0] /\ s[0] = 0 /\ t[0] = 0
      BY <1>1, <1>2, <1>4, <1>5, Zenon DEF Sums
    <2> QED BY <2>1
  <1>7. ASSUME NEW i \in 1..n PROVE u[i] = u[i - 1] + c[i]
    <2>1. s[i] = s[i - 1] + a[i] /\ t[i] = t[i - 1] + b[i]
      BY <1>1, <1>2, Zenon DEF Sums
    <2>2. u[i] = s[i] + t[i] /\ u[i - 1] = s[i - 1] + t[i - 1] /\ c[i] = a[i] + b[i]
      BY <1>4, <1>5, Zenon
    <2>3. s[i - 1] \in Int /\ t[i - 1] \in Int /\ a[i] \in Int /\ b[i] \in Int
      BY <1>3, <1>4, Zenon
    <2> QED BY <2>1, <2>2, <2>3
  <1>8. Sums(u, n, c)
    BY <1>5, <1>6, <1>7, Zenon DEF Sums
  <1>9. Total(n, c) = u[n] /\ Total(n, a) = s[n] /\ Total(n, b) = t[n]
    BY <1>1, <1>2, <1>8, TotalIs, Zenon
  <1> QED BY <1>4, <1>5, <1>9, Zenon

\* One more amount.
LEMMA TotalNext ==
    ASSUME NEW n \in Nat, NEW a, NEW b \in [1..n + 1 -> Int], \A i \in 1..n : a[i] = b[i]
    PROVE  Total(n + 1, b) = Total(n, a) + b[n + 1]
  <1>1. n + 1 \in Nat
    OBVIOUS
  <1>2. PICK s : Sums(s, n + 1, b)
    BY <1>1, SumsExist, Zenon
  <1> DEFINE t == [i \in 0..n |-> s[i]]
  <1>3. /\ 0 \in 0..n /\ n \in 0..n /\ n + 1 \in 1..n + 1 /\ (n + 1) - 1 = n
        /\ \A i \in 0..n : i \in 0..n + 1
        /\ \A i \in 1..n : i \in 0..n /\ i - 1 \in 0..n /\ i \in 1..n + 1
    OBVIOUS
  <1>4. t \in [0..n -> Int] /\ \A i \in 0..n : t[i] = s[i]
    BY <1>2, <1>3, Zenon DEF Sums
  <1> HIDE DEF t
  <1>5. Sums(t, n, a)
    BY <1>2, <1>3, <1>4, Zenon DEF Sums
  <1>6. Total(n + 1, b) = s[n + 1] /\ Total(n, a) = t[n]
    BY <1>1, <1>2, <1>5, TotalIs, Zenon
  <1>7. s[n + 1] = s[n] + b[n + 1]
    BY <1>2, <1>3, Zenon DEF Sums
  <1> QED BY <1>3, <1>4, <1>6, <1>7, Zenon

\* The total of nothing.
LEMMA TotalNone ==
    ASSUME NEW n \in Nat, NEW amount, \A i \in 1..n : amount[i] = 0
    PROVE  Total(n, amount) = 0
  <1> DEFINE s == [i \in 0..n |-> 0]
  <1>1. /\ 0 \in Int /\ 0 = 0 + 0 /\ 0 \in 0..n /\ n \in 0..n
        /\ \A i \in 1..n : i \in 0..n /\ i - 1 \in 0..n
    OBVIOUS
  <1>2. s \in [0..n -> Int] /\ \A i \in 0..n : s[i] = 0
    BY <1>1, Zenon
  <1> HIDE DEF s
  <1>3. Sums(s, n, amount)
    BY <1>1, <1>2, Zenon DEF Sums
  <1> QED BY <1>1, <1>2, <1>3, TotalIs, Zenon

\* The total of a single amount.
LEMMA TotalOne ==
    ASSUME NEW n \in Nat, NEW k \in 1..n, NEW x \in Int
    PROVE  Total(n, [i \in 1..n |-> IF i = k THEN x ELSE 0]) = x
  <1> DEFINE amount == [i \in 1..n |-> IF i = k THEN x ELSE 0]
  <1>0. \A i \in 1..n : amount[i] = IF i = k THEN x ELSE 0
    BY Zenon
  <1> HIDE DEF amount
  <1> DEFINE s == [i \in 0..n |-> IF i < k THEN 0 ELSE x]
  <1>1. 0 \in Int /\ 0 \in 0..n /\ n \in 0..n /\ 0 < k /\ ~(n < k)
    OBVIOUS
  <1>2. s \in [0..n -> Int] /\ \A i \in 0..n : s[i] = IF i < k THEN 0 ELSE x
    BY <1>1, Zenon
  <1> HIDE DEF s
  <1>3. s[0] = 0 /\ s[n] = x
    BY <1>1, <1>2, Zenon
  <1>4. ASSUME NEW i \in 1..n PROVE s[i] = s[i - 1] + amount[i]
    <2>1. i \in 0..n /\ i - 1 \in 0..n
      OBVIOUS
    <2>2. /\ s[i] = IF i < k THEN 0 ELSE x
          /\ s[i - 1] = IF i - 1 < k THEN 0 ELSE x
          /\ amount[i] = IF i = k THEN x ELSE 0
      BY <1>0, <1>2, <2>1, Zenon
    <2>3. /\ i < k => i - 1 < k /\ i # k
          /\ i = k => i - 1 < k /\ ~(i < k)
          /\ i < k \/ i = k \/ (~(i < k) /\ i # k /\ ~(i - 1 < k))
      OBVIOUS
    <2>4. 0 = 0 + 0 /\ x = 0 + x /\ x = x + 0
      OBVIOUS
    <2> QED BY <2>2, <2>3, <2>4, Zenon
  <1>5. Sums(s, n, amount)
    BY <1>2, <1>3, <1>4, Zenon DEF Sums
  <1> QED BY <1>3, <1>5, TotalIs, Zenon DEF amount

\* What the snapshots of a list count for a counter.
AmountsOf(list, c) == [i \in DOMAIN list |-> IF list[i].ctr = c THEN list[i].value ELSE 0]

\* They are numbers, one for every snapshot.
LEMMA AmountsOfType ==
    ASSUME NEW list \in Seq(Snapshot), NEW c
    PROVE  /\ Len(list) \in Nat
           /\ AmountsOf(list, c) \in [1..Len(list) -> Int]
           /\ SumOf(list, c) = Total(Len(list), AmountsOf(list, c))
  <1>1. Len(list) \in Nat /\ DOMAIN list = 1..Len(list)
    OBVIOUS
  <1>2. \A i \in 1..Len(list) : list[i] \in Snapshot
    OBVIOUS
  <1>3. \A i \in 1..Len(list) : list[i].value \in Int
    BY <1>2 DEF Snapshot
  <1>4. 0 \in Int
    OBVIOUS
  <1>5. AmountsOf(list, c) \in [1..Len(list) -> Int]
    BY <1>1, <1>3, <1>4, Zenon DEF AmountsOf
  <1> QED BY <1>1, <1>5, Zenon DEF SumOf, AmountsOf

\* The sum over a list is a number, and none over the empty one.
LEMMA SumOfType ==
    ASSUME NEW c
    PROVE  /\ \A list \in Seq(Snapshot) : SumOf(list, c) \in Int
           /\ SumOf(<<>>, c) = 0
  <1>1. ASSUME NEW list \in Seq(Snapshot) PROVE SumOf(list, c) \in Int
    <2>1. /\ Len(list) \in Nat /\ AmountsOf(list, c) \in [1..Len(list) -> Int]
          /\ SumOf(list, c) = Total(Len(list), AmountsOf(list, c))
      BY AmountsOfType, Zenon
    <2>2. Total(Len(list), AmountsOf(list, c)) \in Int
      BY <2>1, TotalType, Zenon
    <2> QED BY <2>1, <2>2, Zenon
  <1>2. Len(<<>>) = 0 /\ <<>> \in Seq(Snapshot) /\ 0 \in Nat /\ \A i \in 1..0 : FALSE
    OBVIOUS
  <1>3. SumOf(<<>>, c) = 0
    BY <1>2, AmountsOfType, TotalNone, Zenon
  <1> QED BY <1>1, <1>3, Zenon

\* One more snapshot.
LEMMA SumOfAppend ==
    ASSUME NEW list \in Seq(Snapshot), NEW e \in Snapshot, NEW c
    PROVE  SumOf(Append(list, e), c) = SumOf(list, c) + IF e.ctr = c THEN e.value ELSE 0
  <1> DEFINE n == Len(list)
             longer == Append(list, e)
             a == AmountsOf(list, c)
             b == AmountsOf(longer, c)
  <1>1. /\ longer \in Seq(Snapshot) /\ Len(longer) = n + 1 /\ n \in Nat
        /\ DOMAIN list = 1..n /\ DOMAIN longer = 1..n + 1
        /\ longer[n + 1] = e
    OBVIOUS
  <1>2. \A i \in 1..n : longer[i] = list[i]
    OBVIOUS
  <1>3. n + 1 \in 1..n + 1 /\ \A i \in 1..n : i \in 1..n + 1
    BY <1>1
  <1> HIDE DEF longer, n
  <1>4. b \in [1..n + 1 -> Int] /\ SumOf(longer, c) = Total(n + 1, b)
    BY <1>1, AmountsOfType, Zenon
  <1>5. SumOf(list, c) = Total(n, a)
    BY AmountsOfType, Zenon DEF n
  <1>6. \A i \in 1..n : a[i] = b[i]
    BY <1>1, <1>2, <1>3, Zenon DEF AmountsOf
  <1>7. b[n + 1] = IF e.ctr = c THEN e.value ELSE 0
    BY <1>1, <1>3, Zenon DEF AmountsOf
  <1> HIDE DEF a, b
  <1>8. Total(n + 1, b) = Total(n, a) + b[n + 1]
    BY <1>1, <1>4, <1>6, TotalNext, Zenon
  <1> QED BY <1>4, <1>5, <1>7, <1>8, Zenon DEF longer

\* What payloads with these contents count for a counter, and SumIn of them.
AmountsIn(contents, P, c) ==
    [p \in PayloadIds |-> IF p \in P THEN SumOf(contents[p], c) ELSE 0]
SumFrom(contents, P, c) == Total(MaxPayloads, AmountsIn(contents, P, c))

\* They are numbers, one for every payload.
LEMMA AmountsInType ==
    ASSUME NEW contents \in [PayloadIds -> Seq(Snapshot)], NEW P, NEW c
    PROVE  /\ AmountsIn(contents, P, c) \in [1..MaxPayloads -> Int]
           /\ MaxPayloads \in Nat
           /\ SumFrom(contents, P, c) \in Int
  <1>1. \A p \in PayloadIds : SumOf(contents[p], c) \in Int
    BY SumOfType, Zenon
  <1>2. 0 \in Int
    OBVIOUS
  <1>3. AmountsIn(contents, P, c) \in [1..MaxPayloads -> Int] /\ MaxPayloads \in Nat
    BY <1>1, <1>2, BoundsAssumption, Zenon DEF AmountsIn, PayloadIds
  <1> QED BY <1>3, TotalType, Zenon DEF SumFrom

\* Payloads without one in common add up.
LEMMA SumFromUnion ==
    ASSUME NEW contents \in [PayloadIds -> Seq(Snapshot)], NEW P, NEW Q, P \cap Q = {}, NEW c
    PROVE  SumFrom(contents, P \cup Q, c) = SumFrom(contents, P, c) + SumFrom(contents, Q, c)
  <1> DEFINE a == AmountsIn(contents, P, c)
             b == AmountsIn(contents, Q, c)
             d == AmountsIn(contents, P \cup Q, c)
  <1>1. /\ a \in [1..MaxPayloads -> Int] /\ b \in [1..MaxPayloads -> Int] /\ MaxPayloads \in Nat
    BY AmountsInType, Zenon
  <1>2. ASSUME NEW p \in 1..MaxPayloads PROVE d[p] = a[p] + b[p]
    <2>1. /\ a[p] = IF p \in P THEN SumOf(contents[p], c) ELSE 0
          /\ b[p] = IF p \in Q THEN SumOf(contents[p], c) ELSE 0
          /\ d[p] = IF p \in P \cup Q THEN SumOf(contents[p], c) ELSE 0
      BY Zenon DEF AmountsIn, PayloadIds
    <2>2. SumOf(contents[p], c) \in Int
      BY SumOfType, Zenon DEF PayloadIds
    <2> HIDE DEF a, b, d
    <2>3. \A x \in Int : x = x + 0 /\ x = 0 + x
      OBVIOUS
    <2>4. 0 = 0 + 0
      OBVIOUS
    <2> QED BY <2>1, <2>2, <2>3, <2>4, Zenon
  <1> HIDE DEF a, b, d
  <1>3. Total(MaxPayloads, d) = Total(MaxPayloads, a) + Total(MaxPayloads, b)
    BY <1>1, <1>2, TotalAdd, Zenon
  <1> QED BY <1>3, Zenon DEF SumFrom, a, b, d

\* No payloads.
LEMMA SumFromNone ==
    ASSUME NEW contents, NEW c
    PROVE  SumFrom(contents, {}, c) = 0
  <1>1. \A p \in 1..MaxPayloads : AmountsIn(contents, {}, c)[p] = 0
    BY Zenon DEF AmountsIn, PayloadIds
  <1> QED BY <1>1, BoundsAssumption, TotalNone, Zenon DEF SumFrom

\* One more payload.
LEMMA SumFromNext ==
    ASSUME NEW contents \in [PayloadIds -> Seq(Snapshot)], NEW list \in Seq(Snapshot),
           NEW n \in Nat, n + 1 \in PayloadIds, NEW c
    PROVE  SumFrom([contents EXCEPT ![n + 1] = list], 1..n + 1, c)
               = SumFrom(contents, 1..n, c) + SumOf(list, c)
  <1> DEFINE new == [contents EXCEPT ![n + 1] = list]
             a == AmountsIn(contents, 1..n, c)
             b == [p \in PayloadIds |-> IF p = n + 1 THEN SumOf(list, c) ELSE 0]
             d == AmountsIn(new, 1..n + 1, c)
  <1>1. a \in [1..MaxPayloads -> Int] /\ MaxPayloads \in Nat
    BY AmountsInType, Zenon
  <1>2. SumOf(list, c) \in Int /\ 0 \in Int /\ n + 1 \in 1..MaxPayloads
    <2>1. SumOf(list, c) \in Int
      BY SumOfType, Zenon
    <2>2. 0 \in Int
      OBVIOUS
    <2> QED BY <2>1, <2>2, Zenon DEF PayloadIds
  <1>3. /\ b \in [1..MaxPayloads -> Int]
        /\ \A p \in 1..MaxPayloads : b[p] = IF p = n + 1 THEN SumOf(list, c) ELSE 0
    BY <1>2, Zenon DEF PayloadIds
  <1>4. new[n + 1] = list /\ \A p \in PayloadIds : p # n + 1 => new[p] = contents[p]
    BY Zenon
  <1> HIDE DEF b, new
  <1>5. ASSUME NEW p \in 1..MaxPayloads PROVE d[p] = a[p] + b[p]
    <2>1. /\ a[p] = IF p \in 1..n THEN SumOf(contents[p], c) ELSE 0
          /\ d[p] = IF p \in 1..n + 1 THEN SumOf(new[p], c) ELSE 0
      BY Zenon DEF AmountsIn, PayloadIds
    <2>2. /\ p \in 1..n + 1 <=> p \in 1..n \/ p = n + 1
          /\ p = n + 1 => p \notin 1..n
      OBVIOUS
    <2>3. SumOf(contents[p], c) \in Int
      BY SumOfType, Zenon DEF PayloadIds
    <2>4. \A x \in Int : x = x + 0 /\ x = 0 + x
      OBVIOUS
    <2> HIDE DEF a, d
    <2>5. CASE p = n + 1
      BY <1>2, <1>3, <1>4, <2>1, <2>2, <2>4, <2>5, Zenon
    <2>6. CASE p # n + 1
      <3>1. new[p] = contents[p]
        BY <1>4, <2>6, Zenon DEF PayloadIds
      <3> QED BY <1>2, <1>3, <2>1, <2>2, <2>3, <2>4, <2>6, <3>1, Zenon
    <2> QED BY <2>5, <2>6
  <1> HIDE DEF a, d
  <1>6. Total(MaxPayloads, d) = Total(MaxPayloads, a) + Total(MaxPayloads, b)
    BY <1>1, <1>3, <1>5, TotalAdd, Zenon
  <1>7. Total(MaxPayloads, b) = SumOf(list, c)
    <2>1. b = [p \in 1..MaxPayloads |-> IF p = n + 1 THEN SumOf(list, c) ELSE 0]
      BY Zenon DEF b, PayloadIds
    <2> QED BY <1>1, <1>2, <2>1, TotalOne, Zenon
  <1> QED BY <1>6, <1>7, Zenon DEF SumFrom, a, d, new

(***************************************************************************)
(* Everything moved over from a cumulative counter is in a payload or in   *)
(* the snapshots of the payload being built, whoever has the payloads.     *)
(***************************************************************************)
MovedInv ==
    /\ lock = "free" => snapshots = <<>>
    /\ \A c \in Counters \cap Cumalative :
          /\ ctr[c].cumalative
          /\ ctr[c].cumalativeValue = SumFrom(payloads, 1..nPayloads, c) + SumOf(snapshots, c)

\* Initially nothing was moved over.
LEMMA MovedInit == Init => MovedInv
  <1> SUFFICES ASSUME Init, NEW c \in Counters \cap Cumalative
               PROVE  /\ snapshots = <<>>
                      /\ ctr[c].cumalative
                      /\ ctr[c].cumalativeValue
                            = SumFrom(payloads, 1..nPayloads, c) + SumOf(snapshots, c)
    BY Zenon DEF MovedInv, Init
  <1>1. snapshots = <<>> /\ nPayloads = 0 /\ ctr[c] = NewCounter(c \in Cumalative, c \in IgnoreZero)
    BY Zenon DEF Init
  <1>2. ctr[c].cumalative /\ ctr[c].cumalativeValue = 0
    <2>1. /\ NewCounter(c \in Cumalative, c \in IgnoreZero).cumalative = (c \in Cumalative)
          /\ NewCounter(c \in Cumalative, c \in IgnoreZero).cumalativeValue = 0
      BY DEF NewCounter
    <2> QED BY <1>1, <2>1, Zenon
  <1>3. 1..0 = {} /\ 0 = 0 + 0
    OBVIOUS
  <1> QED BY <1>1, <1>2, <1>3, SumFromNone, SumOfType, Zenon

\* A step that moves nothing over.
LEMMA MovedFrame ==
    ASSUME MovedInv, UNCHANGED <<payloads, nPayloads, snapshots>>,
           lock' = "free" => snapshots = <<>>,
           \A c \in Counters : /\ ctr'[c].cumalative = ctr[c].cumalative
                               /\ ctr'[c].cumalativeValue = ctr[c].cumalativeValue
    PROVE  MovedInv'
BY Zenon DEF MovedInv

\* The callers' methods leave what was moved over alone.
LEMMA CounterMethodsMove ==
    ASSUME NEW c \in CounterType, NEW v,
           NEW d \in {Inc(c), Add(c, v), Set(c, v), SetInc(c, v)}
    PROVE  d.cumalative = c.cumalative /\ d.cumalativeValue = c.cumalativeValue
BY Zenon DEF CounterType, Inc, Add, Set, SetInc

\* What a call does to the counters.
LEMMA CallMoved ==
    ASSUME TypeInv, MovedInv, NEW c \in Counters, CounterCall(c)
    PROVE  MovedInv'
  <1>1. PICK d, v : /\ ctr' = [ctr EXCEPT ![c] = d]
                    /\ d \in {Inc(ctr[c]), Add(ctr[c], v), Set(ctr[c], v), SetInc(ctr[c], v)}
    BY Zenon DEF CounterCall, Update
  <1>2. ctr \in [Counters -> CounterType]
    BY Zenon DEF TypeInv, TypeOK
  <1>3. ctr[c] \in CounterType
    BY <1>2, Zenon
  <1>4. d.cumalative = ctr[c].cumalative /\ d.cumalativeValue = ctr[c].cumalativeValue
    BY <1>1, <1>3, CounterMethodsMove
  <1>5. \A b \in Counters : ctr'[b] = IF b = c THEN d ELSE ctr[b]
    BY <1>1, <1>2, Zenon
  <1>6. UNCHANGED <<payloads, nPayloads, snapshots, lock>>
    BY Zenon DEF CounterCall, Update, collectVars
  <1>7. lock' = "free" => snapshots = <<>>
    BY <1>6, Zenon DEF MovedInv
  <1>8. \A b \in Counters : /\ ctr'[b].cumalative = ctr[b].cumalative
                            /\ ctr'[b].cumalativeValue = ctr[b].cumalativeValue
    BY <1>4, <1>5, Zenon
  <1> QED BY <1>6, <1>7, <1>8, MovedFrame, Zenon

\* A counter that is collected moves over what its snapshot has.
LEMMA CollectMoved ==
    ASSUME TypeInv, MovedInv, CollectCounter
    PROVE  MovedInv'
  <1> DEFINE c == Head(Head(todo))
             e == [ctr |-> c, value |-> ctr[c].value]
  <1>1. c \in Counters
    <2>1. todo \in Seq(Seq(Counters)) /\ todo # <<>> /\ Head(todo) # <<>>
      BY Zenon DEF CollectCounter, TypeInv, TypeOK
    <2>2. Head(todo) \in Seq(Counters)
      BY <2>1
    <2> DEFINE h == Head(todo)
    <2> HIDE DEF h
    <2>3. h \in Seq(Counters) /\ h # <<>> => Head(h) \in Counters
      OBVIOUS
    <2> QED BY <2>1, <2>2, <2>3, Zenon DEF h
  <1>2. /\ snapshots' = IF HasSnapshot(ctr[c]) THEN Append(snapshots, e) ELSE snapshots
        /\ ctr' = [ctr EXCEPT ![c] = AfterCollect(ctr[c])]
        /\ lock' = lock /\ payloads' = payloads /\ nPayloads' = nPayloads /\ lock # "free"
    BY Zenon DEF CollectCounter
  <1> HIDE DEF c
  <1>3. /\ ctr \in [Counters -> CounterType] /\ snapshots \in Seq(Snapshot)
        /\ payloads \in [PayloadIds -> Seq(Snapshot)]
    BY Zenon DEF TypeInv, TypeOK
  <1>4. ctr[c] \in CounterType
    BY <1>1, <1>3, Zenon
  <1>5. ctr[c].value \in Int /\ ctr[c].cumalativeValue \in Int
    BY <1>4 DEF CounterType
  <1>6. e \in Snapshot /\ e.ctr = c /\ e.value = ctr[c].value
    BY <1>1, <1>5 DEF Snapshot
  <1> HIDE DEF e
  <1>7. \A b \in Counters : ctr'[b] = IF b = c THEN AfterCollect(ctr[c]) ELSE ctr[b]
    BY <1>2, <1>3, Zenon
  <1>8. lock' # "free"
    BY <1>2, Zenon
  <1>9. ASSUME NEW b \in Counters \cap Cumalative
        PROVE  /\ ctr'[b].cumalative
               /\ ctr'[b].cumalativeValue
                     = SumFrom(payloads', 1..nPayloads', b) + SumOf(snapshots', b)
    <2> DEFINE sum == SumFrom(payloads, 1..nPayloads, b)
               old == SumOf(snapshots, b)
    <2>1. ctr[b].cumalative /\ ctr[b].cumalativeValue = sum + old
      BY Zenon DEF MovedInv
    <2>2. sum \in Int /\ old \in Int
      BY <1>3, AmountsInType, SumOfType, Zenon
    <2>3. SumFrom(payloads', 1..nPayloads', b) = sum
      BY <1>2, Zenon
    <2>4. CASE ~HasSnapshot(ctr[c])
      <3>1. AfterCollect(ctr[c]) = ctr[c] /\ snapshots' = snapshots
        BY <1>2, <2>4, Zenon DEF AfterCollect
      <3> QED BY <1>7, <2>1, <2>3, <3>1, Zenon
    <2>5. CASE HasSnapshot(ctr[c])
      <3>1. SumOf(snapshots', b) = old + IF c = b THEN ctr[c].value ELSE 0
        <4>1. SumOf(snapshots', b) = SumOf(Append(snapshots, e), b)
          BY <1>2, <2>5, Zenon
        <4>2. SumOf(Append(snapshots, e), b) = old + IF e.ctr = b THEN e.value ELSE 0
          BY <1>3, <1>6, SumOfAppend, Zenon
        <4> QED BY <1>6, <4>1, <4>2, Zenon
      <3>2. CASE b = c
        <4>1. AfterCollect(ctr[c]).cumalative /\ AfterCollect(ctr[c]).cumalativeValue
                 = ctr[c].cumalativeValue + ctr[c].value
          BY <1>4, <2>1, <2>5, <3>2, Zenon DEF AfterCollect, CounterType
        <4>2. ctr'[b].cumalative /\ ctr'[b].cumalativeValue = (sum + old) + ctr[c].value
          BY <1>7, <2>1, <3>2, <4>1, Zenon
        <4>3. SumOf(snapshots', b) = old + ctr[c].value
          BY <3>1, <3>2, Zenon
        <4>4. (sum + old) + ctr[c].value = sum + (old + ctr[c].value)
          <5> HIDE DEF sum, old
          <5> QED BY <1>5, <2>2
        <4> QED BY <2>3, <4>2, <4>3, <4>4, Zenon
      <3>3. CASE b # c
        <4>1. SumOf(snapshots', b) = old + 0 /\ ctr'[b] = ctr[b]
          BY <1>7, <3>1, <3>3, Zenon
        <4>2. old + 0 = old
          <5> HIDE DEF sum, old
          <5> QED BY <2>2
        <4> QED BY <2>1, <2>3, <4>1, <4>2, Zenon
      <3> QED BY <3>2, <3>3
    <2> QED BY <2>4, <2>5
  <1> QED BY <1>8, <1>9, Zenon DEF MovedInv

\* A payload that is added has all snapshots that were taken.
LEMMA AddMoved ==
    ASSUME TypeInv, MovedInv, AddPayload, ctr' = ctr, lock # "free"
    PROVE  MovedInv'
  <1>1. /\ snapshots \in Seq(Snapshot) /\ payloads \in [PayloadIds -> Seq(Snapshot)]
        /\ nPayloads \in 0..MaxPayloads
    BY Zenon DEF TypeInv, TypeOK
  <1>2. nPayloads < MaxPayloads
    BY Zenon DEF TypeInv, LockInv
  <1>3. nPayloads \in Nat /\ nPayloads + 1 \in PayloadIds
    BY <1>1, <1>2, BoundsAssumption DEF PayloadIds
  <1>4. snapshots' = <<>>
    BY Zenon DEF AddPayload
  <1>5. ASSUME NEW c \in Counters \cap Cumalative
        PROVE  /\ ctr'[c].cumalative
               /\ ctr'[c].cumalativeValue
                     = SumFrom(payloads', 1..nPayloads', c) + SumOf(snapshots', c)
    <2> DEFINE sum == SumFrom(payloads', 1..nPayloads', c)
    <2>1. /\ ctr'[c].cumalative
          /\ ctr'[c].cumalativeValue = SumFrom(payloads, 1..nPayloads, c) + SumOf(snapshots, c)
      BY Zenon DEF MovedInv
    <2>2. CASE snapshots = <<>>
      <3>1. payloads' = payloads /\ nPayloads' = nPayloads
        BY <2>2, Zenon DEF AddPayload
      <3> QED BY <1>4, <2>1, <2>2, <3>1, Zenon
    <2>3. CASE snapshots # <<>>
      <3>1. payloads' = [payloads EXCEPT ![nPayloads + 1] = snapshots] /\ nPayloads' = nPayloads + 1
        BY <2>3, Zenon DEF AddPayload
      <3>2. sum = SumFrom(payloads, 1..nPayloads, c) + SumOf(snapshots, c)
        BY <1>1, <1>3, <3>1, SumFromNext, Zenon
      <3>3. SumOf(snapshots', c) = 0
        BY <1>4, SumOfType, Zenon
      <3>4. SumFrom(payloads, 1..nPayloads, c) \in Int /\ SumOf(snapshots, c) \in Int
        BY <1>1, AmountsInType, SumOfType, Zenon
      <3>5. \A x, y \in Int : x + y = (x + y) + 0
        OBVIOUS
      <3> QED BY <2>1, <3>2, <3>3, <3>4, <3>5, Zenon
    <2> QED BY <2>2, <2>3
  <1> QED BY <1>4, <1>5, Zenon DEF MovedInv

\* Every step keeps what was moved over accounted for.
LEMMA MovedStep == TypeInv /\ MovedInv /\ [Next]_vars => MovedInv'
  <1> SUFFICES ASSUME TypeInv, MovedInv, [Next]_vars PROVE MovedInv'
    OBVIOUS
  <1>1. ASSUME UNCHANGED <<ctr, payloads, nPayloads, snapshots, lock>> PROVE MovedInv'
    BY <1>1, Zenon DEF MovedInv
  <1>2. CASE UNCHANGED vars
    BY <1>1, <1>2, Zenon DEF vars, callerVars, collectVars
  <1>3. CASE Caller
    <2>1. ASSUME NEW c \in Counters, CounterCall(c) PROVE MovedInv'
      BY <2>1, CallMoved, Zenon
    <2>2. ASSUME NEW c \in Counters, AddAttribute(c) PROVE MovedInv'
      BY <1>1, <2>2, Zenon DEF AddAttribute, collectVars
    <2>3. ASSUME NEW m \in Monitors, NewMonitor(m) PROVE MovedInv'
      BY <1>1, <2>3, Zenon DEF NewMonitor, collectVars
    <2>4. ASSUME NEW m \in Monitors, NEW c \in Counters, AddCounter(m, c) PROVE MovedInv'
      BY <1>1, <2>4, Zenon DEF AddCounter, collectVars
    <2>5. ASSUME NEW m \in Monitors, NEW c \in Counters, DeleteCounter(m, c) PROVE MovedInv'
      BY <1>1, <2>5, Zenon DEF DeleteCounter, collectVars
    <2> QED BY <1>3, <2>1, <2>2, <2>3, <2>4, <2>5, Zenon DEF Caller
  <1>4. CASE Start \/ Tick \/ Stop \/ TimerStopped \/ SendersDone
    BY <1>1, <1>4, Zenon DEF Start, Tick, Stop, TimerStopped, SendersDone, callerVars, collectVars
  <1>5. ASSUME NEW h \in {"timer", "stop"}, BeginCollect(h) PROVE MovedInv'
    <2>1. snapshots' = <<>> /\ UNCHANGED <<ctr, payloads, nPayloads>> /\ lock = "free"
      BY <1>5, Zenon DEF BeginCollect, callerVars
    <2>2. snapshots = <<>>
      BY <2>1, Zenon DEF MovedInv
    <2> QED BY <2>1, <2>2, MovedFrame, Zenon
  <1>6. CASE CollectCounter
    BY <1>6, CollectMoved, Zenon
  <1>7. CASE CollectNextMonitor
    BY <1>1, <1>7, Zenon DEF CollectNextMonitor, callerVars
  <1>8. CASE EndCollect
    <2>1. AddPayload /\ ctr' = ctr /\ lock = "timer"
      BY <1>8, Zenon DEF EndCollect, callerVars
    <2>2. lock # "free"
      BY <2>1
    <2> QED BY <2>1, <2>2, AddMoved, Zenon
  <1>9. CASE EndStopCollect
    <2>1. AddPayload /\ ctr' = ctr /\ lock = "stop"
      BY <1>9, Zenon DEF EndStopCollect, callerVars
    <2>2. lock # "free"
      BY <2>1
    <2> QED BY <2>1, <2>2, AddMoved, Zenon
  <1>10. ASSUME NEW s \in Senders, SendDone(s) \/ SendError(s) \/ SendPartial(s) \/ Requeue(s)
         PROVE  MovedInv'
    <2>1. UNCHANGED callerVars /\ UNCHANGED collectVars
      BY <1>10, Zenon DEF SendDone, SendError, SendPartial, Requeue, PutBack
    <2> QED BY <1>1, <2>1, Zenon DEF callerVars, collectVars
  <1> QED BY <1>2, <1>3, <1>4, <1>5, <1>6, <1>7, <1>8, <1>9, <1>10, Zenon DEF Next, Service, Sending

\* What the callers counted is what was accepted, is held, is being collected or
\* is yet to be collected: the payloads are there once each, and hold all that
\* was moved over.
LEMMA CountedIsThere == TypeInv /\ Accounting /\ GetInv /\ MovedInv => NothingMiscounted
  <1> SUFFICES ASSUME TypeInv, Accounting, GetInv, MovedInv, ~LostReplies,
                      NEW c \in Counters \cap Cumalative
               PROVE  counted[c] = SumIn(received, c) + SumIn(Held, c) + SumOf(snapshots, c)
                                       + ctr[c].value
    BY Zenon DEF NothingMiscounted
  <1> DEFINE a == SumFrom(payloads, received, c)
             b == SumFrom(payloads, Held, c)
             s == SumOf(snapshots, c)
             all == SumFrom(payloads, 1..nPayloads, c)
  <1>1. /\ payloads \in [PayloadIds -> Seq(Snapshot)] /\ snapshots \in Seq(Snapshot)
        /\ ctr \in [Counters -> CounterType]
    BY Zenon DEF TypeInv, TypeOK
  <1>2. Held \cup received = 1..nPayloads /\ Held \cap received = {}
    BY Zenon DEF Accounting, NoPayloadLost, AcceptedOnce
  <1>3. received \cap Held = {} /\ received \cup Held = 1..nPayloads
    BY <1>2, Zenon
  <1>4. all = a + b
    <2>1. SumFrom(payloads, received \cup Held, c) = a + b
      BY <1>1, <1>3, SumFromUnion
    <2> QED BY <1>3, <2>1, Zenon
  <1>5. a \in Int /\ b \in Int /\ s \in Int
    BY <1>1, AmountsInType, SumOfType, Zenon
  <1>6. ctr[c].cumalativeValue = all + s
    BY Zenon DEF MovedInv
  <1>7. counted[c] = ctr[c].value + ctr[c].cumalativeValue
    <2>1. Get(ctr[c]) = counted[c]
      BY Zenon DEF GetInv, GetIsCount
    <2> QED BY <2>1, Zenon DEF Get
  <1>8. ctr[c].value \in Int
    <2>1. ctr[c] \in CounterType
      BY <1>1, Zenon
    <2> QED BY <2>1 DEF CounterType
  <1>9. SumIn(received, c) = a /\ SumIn(Held, c) = b
    BY Zenon DEF SumIn, SumFrom, AmountsIn
  <1> HIDE DEF a, b, s, all
  <1>10. counted[c] = a + b + s + ctr[c].value
    BY <1>4, <1>5, <1>6, <1>7, <1>8
  <1> QED BY <1>9, <1>10, Zenon DEF s

\* Nothing that was counted on a cumulative counter is missing or reported twice,
\* over any interleaving of calls, collections, failing posts and Stop().
THEOREM NothingLostOrTwice == Spec => []NothingMiscounted
  <1>1. Init => GetInv
    BY SMTT(60) DEF Init, GetInv, GetIsCount, Get, NewCounter
  <1> QED BY <1>1, TypeInit, TypeStep, AccountingInit, AccountingStep, GetStep,
             MovedInit, MovedStep, CountedIsThere, PTL DEF Spec
=============================================================================
