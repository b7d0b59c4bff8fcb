-------------------------- MODULE VpnSessionProofs --------------------------
(***************************************************************************)
(* Proofs about VpnSession, for any answers and texts, and any number of   *)
(* directions, bytes and tunnels.                                          *)
(***************************************************************************)
EXTENDS VpnSession, LoopTheorems

-----------------------------------------------------------------------------
(* The inductive invariant.                                                *)

Readings == [tunnel : 0 .. MaxTunnels, count : [Directions -> 0 .. MaxBytes]]
Shows == [tunnel : 0 .. MaxTunnels, count : 0 .. MaxBytes]

\* The types that TypeOK leaves out.
MoreTypes ==
    /\ tunnels \in 0 .. MaxTunnels
    /\ tunnel \in BOOLEAN /\ file \in BOOLEAN /\ kept \in BOOLEAN /\ replaced \in BOOLEAN
    /\ bytes \in [Directions -> 0 .. MaxBytes]
    /\ counter \in [Directions -> CounterType]
    /\ reading \in [Timers -> Seq(Readings)]
    /\ seen \in [Directions -> Shows]

\* How far a call of Connect or Disconnect is.  Of the timers that run one at
\* most is not forgotten.
CallInv ==
    /\ pc # "idle" => client
    /\ pc = "install" => file /\ (tunnel => kept)
    /\ pc \in {"ctrl", "startTimer"} => tunnels >= 1
    /\ running \subseteq {metricsTimer} \/ replaced
    /\ pc = "uninstall" => running = {} \/ replaced

\* Without a client nothing has been installed, read or shown, so that the
\* counters a new client begins with forget nothing.
FreshInv ==
    ~client => /\ tunnels = 0 /\ running = {}
               /\ \A t \in Timers : reading[t] = <<>>
               /\ \A d \in Directions : seen[d].count = 0

\* What a callback has read and not recorded yet, or recorded last, is of a
\* tunnel that was installed, and if it is the one at hand not more than went
\* through it.
CountInv ==
    /\ \A t \in Timers : reading[t] # <<>> =>
          /\ reading[t][1].tunnel <= tunnels
          /\ reading[t][1].tunnel = tunnels =>
                \A d \in Directions : reading[t][1].count[d] <= bytes[d]
    /\ \A d \in Directions : counter[d].cumalative /\ seen[d].tunnel <= tunnels

IInv == /\ TypeOK /\ MoreTypes /\ CallInv /\ FreshInv /\ CountInv
        /\ NothingLeftBehind /\ ShowsWhatWasRead

-----------------------------------------------------------------------------
(* Counters.                                                                *)

\* A new counter shows 0, and a cumulative one what it was last set to,
\* whatever was collected before and will be afterwards.
LEMMA CounterFacts ==
    /\ NewCounter(TRUE, TRUE) \in CounterType /\ Get(NewCounter(TRUE, TRUE)) = 0
    /\ NewCounter(TRUE, TRUE).cumalative
    /\ \A c \in CounterType, v \in Int : c.cumalative =>
          /\ Set(c, v) \in CounterType /\ Set(c, v).cumalative /\ Get(Set(c, v)) = v
    /\ \A c \in CounterType : c.cumalative =>
          /\ AfterCollect(c) \in CounterType /\ AfterCollect(c).cumalative
          /\ Get(AfterCollect(c)) = Get(c)
<1>1. /\ NewCounter(TRUE, TRUE) \in CounterType /\ Get(NewCounter(TRUE, TRUE)) = 0
      /\ NewCounter(TRUE, TRUE).cumalative
    BY DEF NewCounter, CounterType, Get
<1>2. ASSUME NEW c \in CounterType, NEW v \in Int, c.cumalative
      PROVE  Set(c, v) \in CounterType /\ Set(c, v).cumalative /\ Get(Set(c, v)) = v
    BY <1>2 DEF Set, CounterType, Get
<1>3. ASSUME NEW c \in CounterType, c.cumalative
      PROVE  /\ AfterCollect(c) \in CounterType /\ AfterCollect(c).cumalative
             /\ Get(AfterCollect(c)) = Get(c)
  <2>1. CASE HasSnapshot(c)
    <3>1. AfterCollect(c) = [cumalative |-> c.cumalative,
                             ignoreZeroSnapshots |-> c.ignoreZeroSnapshots, incBy |-> c.incBy,
                             value |-> 0, cumalativeValue |-> c.cumalativeValue + c.value]
        BY <1>3, <2>1, Zenon DEF CounterType, AfterCollect
    <3> QED BY <1>3, <3>1 DEF CounterType, Get
  <2>2. CASE ~HasSnapshot(c)
    BY <1>3, <2>2, Zenon DEF AfterCollect
  <2> QED BY <2>1, <2>2
<1> QED BY <1>1, <1>2, <1>3, ZenonT(30)

-----------------------------------------------------------------------------
(* The operations on the configuration.                                     *)

\* What they leave alone.
restVars == <<pc, deferred, returned, kept, file, tunnel, tunnels, bytes, metricsTimer,
              running, replaced, reading, seen>>

\* They keep the invariant if the configuration and the new counters are right.
LEMMA ConfigFrame ==
    ASSUME IInv, UNCHANGED restVars,
           session' \in BOOLEAN, client' \in BOOLEAN, data' # NoData => session',
           config' # <<>> => data' # NoData /\ ~client', client => client',
           counter' \in [Directions -> CounterType],
           \A d \in Directions : counter'[d].cumalative /\ Get(counter'[d]) = seen[d].count
    PROVE  IInv'
<1>1. UNCHANGED <<pc, deferred, returned, kept, file, tunnel, tunnels, bytes, metricsTimer,
                  running, replaced, reading, seen>>
    BY Zenon DEF restVars
<1>2. TypeOK'
    BY <1>1 DEF IInv, TypeOK
<1>3. MoreTypes'
    BY <1>1, Zenon DEF IInv, MoreTypes
<1>4. CallInv' /\ FreshInv' /\ NothingLeftBehind'
    BY <1>1, Zenon DEF IInv, CallInv, FreshInv, NothingLeftBehind
<1>5. CountInv'
    BY <1>1, Zenon DEF IInv, CountInv
<1>6. ShowsWhatWasRead'
    BY <1>1, Zenon DEF IInv, ShowsWhatWasRead, Get
<1> QED BY <1>2, <1>3, <1>4, <1>5, <1>6, Zenon DEF IInv

\* They keep the invariant.
LEMMA ConfigStep ==
    ASSUME IInv, NewVPNConfigData \/ NewConfigFromTarget \/ Delete \/ NewClient
    PROVE  IInv'
<1>1. /\ session \in BOOLEAN /\ client \in BOOLEAN
      /\ data # NoData => session
      /\ config # <<>> => data # NoData /\ ~client
      /\ counter \in [Directions -> CounterType]
      /\ \A d \in Directions : counter[d].cumalative /\ Get(counter[d]) = seen[d].count
    BY Zenon DEF IInv, TypeOK, MoreTypes, CountInv, ShowsWhatWasRead
<1>2. CASE NewVPNConfigData
  <2>1. /\ session' = TRUE /\ config = <<>> /\ ~client
        /\ UNCHANGED config /\ UNCHANGED client /\ UNCHANGED counter /\ UNCHANGED restVars
    BY <1>2, Zenon DEF NewVPNConfigData, metricVars, callVars, tunnelVars, timerVars, restVars
  <2>2. /\ session' \in BOOLEAN /\ client' \in BOOLEAN
        /\ data' # NoData => session'
        /\ config' # <<>> => data' # NoData /\ ~client'
        /\ client => client'
    BY <1>1, <2>1, Zenon
  <2>3. /\ counter' \in [Directions -> CounterType]
        /\ \A d \in Directions : counter'[d].cumalative /\ Get(counter'[d]) = seen[d].count
    BY <1>1, <2>1, Zenon
  <2> QED BY <2>1, <2>2, <2>3, ConfigFrame, Zenon
<1>3. CASE NewConfigFromTarget
  <2>1. /\ data # NoData /\ ~client
        /\ UNCHANGED session /\ UNCHANGED data /\ UNCHANGED client
        /\ UNCHANGED counter /\ UNCHANGED restVars
    BY <1>3, Zenon DEF NewConfigFromTarget, metricVars, callVars, tunnelVars, timerVars, restVars
  <2>2. /\ session' \in BOOLEAN /\ client' \in BOOLEAN
        /\ data' # NoData => session'
        /\ config' # <<>> => data' # NoData /\ ~client'
        /\ client => client'
    BY <1>1, <2>1, Zenon
  <2>3. /\ counter' \in [Directions -> CounterType]
        /\ \A d \in Directions : counter'[d].cumalative /\ Get(counter'[d]) = seen[d].count
    BY <1>1, <2>1, Zenon
  <2> QED BY <2>1, <2>2, <2>3, ConfigFrame, Zenon
<1>4. CASE Delete
  <2>1. /\ session' \in {FALSE, session} /\ data' = NoData /\ config' = <<>>
        /\ UNCHANGED client /\ UNCHANGED counter /\ UNCHANGED restVars
    BY <1>4, Zenon DEF Delete, metricVars, callVars, tunnelVars, timerVars, restVars
  <2>2. /\ session' \in BOOLEAN /\ client' \in BOOLEAN
        /\ data' # NoData => session'
        /\ config' # <<>> => data' # NoData /\ ~client'
        /\ client => client'
    BY <1>1, <2>1, Zenon
  <2>3. /\ counter' \in [Directions -> CounterType]
        /\ \A d \in Directions : counter'[d].cumalative /\ Get(counter'[d]) = seen[d].count
    BY <1>1, <2>1, Zenon
  <2> QED BY <2>1, <2>2, <2>3, ConfigFrame, Zenon
<1>5. CASE NewClient
  <2>1. ~client /\ data # NoData
    BY <1>1, <1>5, Zenon DEF NewClient
  <2>2. \A d \in Directions : seen[d].count = 0
    BY <2>1, Zenon DEF IInv, FreshInv
  <2>3. /\ counter' \in [Directions -> CounterType]
        /\ \A d \in Directions : counter'[d].cumalative /\ Get(counter'[d]) = seen[d].count
    BY <1>5, <2>2, CounterFacts, ZenonT(30) DEF NewClient
  <2>4. /\ client' = TRUE /\ config' = <<>>
        /\ UNCHANGED session /\ UNCHANGED restVars
    BY <1>5, Zenon DEF NewClient, callVars, tunnelVars, timerVars, restVars
  <2>5. /\ session' \in BOOLEAN /\ client' \in BOOLEAN
        /\ data' # NoData => session'
        /\ config' # <<>> => data' # NoData /\ ~client'
        /\ client => client'
    BY <1>1, <2>1, <2>4, Zenon
  <2> QED BY <2>3, <2>4, <2>5, ConfigFrame, Zenon
<1> QED BY <1>2, <1>3, <1>4, <1>5

-----------------------------------------------------------------------------
(* Connect and Disconnect.                                                  *)

\* What a step of them that installs nothing leaves alone, and what is left to
\* show of it.
LEMMA CallFrame ==
    ASSUME IInv, client,
           UNCHANGED <<session, data, config, client, tunnels, bytes, reading, counter, seen>>,
           pc' \in {"idle", "install", "ctrl", "startTimer", "stopTimer", "uninstall"},
           returned' \in {"none", "connected", "failed", "disconnected", "notDisconnected"},
           tunnel' => file',
           running' \subseteq 1 .. tunnels, metricsTimer' \in 0 .. tunnels,
           tunnel' \in BOOLEAN, file' \in BOOLEAN, kept' \in BOOLEAN, replaced' \in BOOLEAN,
           CallInv', NothingLeftBehind'
    PROVE  IInv'
<1>1. TypeOK'
    BY Zenon DEF IInv, TypeOK
<1>2. MoreTypes'
    BY Zenon DEF IInv, MoreTypes
<1>3. FreshInv' /\ CountInv' /\ ShowsWhatWasRead'
    BY Zenon DEF IInv, FreshInv, CountInv, ShowsWhatWasRead, Get
<1> QED BY <1>1, <1>2, <1>3, Zenon DEF IInv

\* The file is written.
LEMMA ConnectStep ==
    ASSUME IInv, Connect
    PROVE  IInv'
<1>1. /\ pc = "idle" /\ client /\ kept' = tunnel
      /\ UNCHANGED <<session, data, config, client, tunnels, bytes, reading, counter, seen>>
      /\ UNCHANGED <<tunnel, metricsTimer, running, replaced>>
    BY Zenon DEF Connect, Idle, configVars, metricVars, timerVars
<1>2. \/ pc' = "idle" /\ returned' = "failed" /\ file' = file
      \/ pc' = "install" /\ returned' = returned /\ file' = TRUE
    BY Zenon DEF Connect, Returns
<1>3. /\ returned \in {"none", "connected", "failed", "disconnected", "notDisconnected"}
      /\ tunnel => file
      /\ running \subseteq 1 .. tunnels /\ metricsTimer \in 0 .. tunnels
      /\ tunnel \in BOOLEAN /\ file \in BOOLEAN /\ replaced \in BOOLEAN
      /\ running \subseteq {metricsTimer} \/ replaced
    BY Zenon DEF IInv, TypeOK, MoreTypes, CallInv
<1>4. CallInv' /\ NothingLeftBehind'
    BY <1>1, <1>2, <1>3 DEF CallInv, NothingLeftBehind
<1>5. tunnel' => file'
    BY <1>1, <1>2, <1>3, Zenon
<1> QED BY <1>1, <1>2, <1>3, <1>4, <1>5, CallFrame, ZenonT(30)

\* The tunnel service is installed, and its counts begin at 0.
LEMMA InstallStep ==
    ASSUME IInv, Install
    PROVE  IInv'
<1>1. /\ pc = "install" /\ UNCHANGED <<session, data, config, client, reading, counter, seen>>
      /\ UNCHANGED <<kept, file, metricsTimer, running, replaced>>
    BY Zenon DEF Install, configVars, metricVars, timerVars
<1>2. /\ returned \in {"none", "connected", "failed", "disconnected", "notDisconnected"}
      /\ tunnel => file
      /\ running \subseteq 1 .. tunnels /\ metricsTimer \in 0 .. tunnels
      /\ tunnel \in BOOLEAN /\ file \in BOOLEAN /\ kept \in BOOLEAN /\ replaced \in BOOLEAN
      /\ running \subseteq {metricsTimer} \/ replaced
      /\ tunnels \in 0 .. MaxTunnels
    BY Zenon DEF IInv, TypeOK, MoreTypes, CallInv
<1>3. client /\ file /\ (tunnel => kept)
    BY <1>1 DEF IInv, CallInv
<1>4. CASE Returns("failed") /\ UNCHANGED <<tunnel, tunnels, bytes>>
  <2>1. CallInv' /\ NothingLeftBehind'
    BY <1>1, <1>2, <1>3, <1>4 DEF CallInv, NothingLeftBehind, Returns
  <2> QED BY <1>1, <1>2, <1>3, <1>4, <2>1, CallFrame DEF Returns
<1>5. CASE /\ ~tunnel /\ tunnels < MaxTunnels /\ tunnel' = TRUE /\ tunnels' = tunnels + 1
           /\ bytes' = [d \in Directions |-> 0] /\ pc' = "ctrl" /\ UNCHANGED <<deferred, returned>>
  <2>1. /\ tunnels' \in 0 .. MaxTunnels /\ tunnels' >= 1 /\ tunnels' > tunnels
        /\ running \subseteq 1 .. tunnels' /\ metricsTimer \in 0 .. tunnels'
    BY <1>2, <1>5, TunnelsAssumption
  <2>2. bytes' \in [Directions -> 0 .. MaxBytes]
    BY <1>5, TunnelsAssumption
  <2>3. CallInv' /\ NothingLeftBehind' /\ FreshInv'
    BY <1>1, <1>2, <1>3, <1>5, <2>1 DEF CallInv, NothingLeftBehind, FreshInv
  <2>4. TypeOK'
    <3>1. \A d \in Directions : counter[d] \in CounterType /\ bytes'[d] \in 0 .. MaxBytes
        BY <2>2 DEF IInv, TypeOK
    <3>2. pc' \in {"idle", "install", "ctrl", "startTimer", "stopTimer", "uninstall"}
        BY <1>5
    <3> QED BY <1>1, <1>2, <1>3, <1>5, <2>1, <3>1, <3>2, Zenon DEF IInv, TypeOK
  <2>5. MoreTypes'
    BY <1>1, <1>2, <1>5, <2>1, <2>2, Zenon DEF IInv, MoreTypes
  <2>6. ASSUME NEW n, n \in 0 .. MaxTunnels, n <= tunnels PROVE n <= tunnels' /\ n # tunnels'
    BY <1>2, <1>5, <2>6
  <2>7. CountInv'
    <3>1. ASSUME NEW t \in Timers, reading[t] # <<>>
          PROVE  reading[t][1].tunnel <= tunnels' /\ reading[t][1].tunnel # tunnels'
      <4>1. reading[t] \in Seq(Readings) /\ reading[t][1].tunnel <= tunnels
        BY <3>1 DEF IInv, MoreTypes, CountInv
      <4>2. reading[t][1] \in Readings
        BY <3>1, <4>1
      <4>3. reading[t][1].tunnel \in 0 .. MaxTunnels
        BY <4>2 DEF Readings
      <4> QED BY <2>6, <4>1, <4>3
    <3>2. ASSUME NEW d \in Directions PROVE counter[d].cumalative /\ seen[d].tunnel <= tunnels'
      <4>1. seen[d] \in Shows /\ counter[d].cumalative /\ seen[d].tunnel <= tunnels
        BY DEF IInv, MoreTypes, CountInv
      <4> QED BY <2>6, <4>1 DEF Shows
    <3> QED BY <1>1, <3>1, <3>2, Zenon DEF CountInv
  <2>8. ShowsWhatWasRead'
    <3>1. ASSUME NEW d \in Directions PROVE Get(counter[d]) = seen[d].count /\ seen[d].tunnel # tunnels'
      <4>1. seen[d] \in Shows /\ Get(counter[d]) = seen[d].count /\ seen[d].tunnel <= tunnels
        BY Zenon DEF IInv, MoreTypes, CountInv, ShowsWhatWasRead
      <4> QED BY <2>6, <4>1 DEF Shows
    <3> QED BY <1>1, <3>1, Zenon DEF ShowsWhatWasRead, Get
  <2> QED BY <2>3, <2>4, <2>5, <2>7, <2>8, Zenon DEF IInv
<1> QED BY <1>4, <1>5, Zenon DEF Install

\* The control client is made or Connect fails; the tunnel was installed.
LEMMA NewCtrlClientStep ==
    ASSUME IInv, NewCtrlClient
    PROVE  IInv'
<1>1. /\ pc = "ctrl"
      /\ UNCHANGED <<session, data, config, client, tunnels, bytes, reading, counter, seen>>
      /\ UNCHANGED <<kept, file, tunnel, metricsTimer, running, replaced>>
      /\ \/ pc' = "startTimer" /\ returned' = returned
         \/ pc' = "stopTimer" /\ returned' = "failed"
    BY Zenon DEF NewCtrlClient, Deferred, configVars, metricVars, timerVars, tunnelVars
<1>2. /\ returned \in {"none", "connected", "failed", "disconnected", "notDisconnected"}
      /\ tunnel => file
      /\ running \subseteq 1 .. tunnels /\ metricsTimer \in 0 .. tunnels
      /\ tunnel \in BOOLEAN /\ file \in BOOLEAN /\ kept \in BOOLEAN /\ replaced \in BOOLEAN
      /\ running \subseteq {metricsTimer} \/ replaced
    BY Zenon DEF IInv, TypeOK, MoreTypes, CallInv
<1>3. client /\ tunnels >= 1
    BY <1>1 DEF IInv, CallInv
<1>4. CallInv' /\ NothingLeftBehind'
    BY <1>1, <1>2, <1>3 DEF CallInv, NothingLeftBehind
<1> QED BY <1>1, <1>2, <1>3, <1>4, CallFrame

\* The timer is set, and a timer that runs is forgotten.
LEMMA StartTimerStep ==
    ASSUME IInv, StartTimer
    PROVE  IInv'
<1>1. /\ pc = "startTimer" /\ metricsTimer' = tunnels
      /\ replaced' = (replaced \/ metricsTimer \in running)
      /\ UNCHANGED <<session, data, config, client, tunnels, bytes, reading, counter, seen>>
      /\ UNCHANGED <<kept, file, tunnel>>
      /\ returned' = "connected"
      /\ \/ running' = running \cup {tunnels} /\ pc' = "idle"
         \/ running' = running /\ pc' = "stopTimer"
    BY Zenon DEF StartTimer, Deferred, Returns, configVars, metricVars, tunnelVars
<1>2. /\ returned \in {"none", "connected", "failed", "disconnected", "notDisconnected"}
      /\ tunnel => file
      /\ running \subseteq 1 .. tunnels /\ metricsTimer \in 0 .. tunnels
      /\ tunnel \in BOOLEAN /\ file \in BOOLEAN /\ kept \in BOOLEAN /\ replaced \in BOOLEAN
      /\ running \subseteq {metricsTimer} \/ replaced
    BY Zenon DEF IInv, TypeOK, MoreTypes, CallInv
<1>3. client /\ tunnels >= 1 /\ tunnels \in 0 .. MaxTunnels
    BY <1>1 DEF IInv, CallInv, MoreTypes
<1>4. running' \subseteq 1 .. tunnels /\ metricsTimer' \in 0 .. tunnels
  <2>1. tunnels \in Nat /\ tunnels \in 1 .. tunnels /\ tunnels \in 0 .. tunnels
    BY <1>3, TunnelsAssumption
  <2>2. running' \subseteq running \cup {tunnels}
    BY <1>1, Zenon
  <2> QED BY <1>1, <1>2, <2>1, <2>2, Zenon
<1>5. CallInv' /\ NothingLeftBehind'
  <2>1. running = {} \/ replaced'
    BY <1>1, <1>2, ZenonT(30)
  <2>2. running' \subseteq {metricsTimer'} \/ replaced'
    BY <1>1, <2>1
  <2> QED BY <1>1, <1>3, <2>2 DEF CallInv, NothingLeftBehind
<1>6. replaced' \in BOOLEAN
    BY <1>1, <1>2
<1> QED BY <1>1, <1>2, <1>3, <1>4, <1>5, <1>6, CallFrame

\* Disconnect begins.
LEMMA DisconnectStep ==
    ASSUME IInv, Disconnect
    PROVE  IInv'
<1>1. /\ client /\ pc' = "stopTimer" /\ returned' = returned
      /\ UNCHANGED <<session, data, config, client, tunnels, bytes, reading, counter, seen>>
      /\ UNCHANGED <<kept, file, tunnel, metricsTimer, running, replaced>>
    BY Zenon DEF Disconnect, configVars, metricVars, timerVars, tunnelVars
<1>2. /\ returned \in {"none", "connected", "failed", "disconnected", "notDisconnected"}
      /\ tunnel => file
      /\ running \subseteq 1 .. tunnels /\ metricsTimer \in 0 .. tunnels
      /\ tunnel \in BOOLEAN /\ file \in BOOLEAN /\ kept \in BOOLEAN /\ replaced \in BOOLEAN
      /\ running \subseteq {metricsTimer} \/ replaced
    BY Zenon DEF IInv, TypeOK, MoreTypes, CallInv
<1>3. CallInv' /\ NothingLeftBehind'
    BY <1>1, <1>2 DEF CallInv, NothingLeftBehind
<1> QED BY <1>1, <1>2, <1>3, CallFrame

\* The timer is stopped: none is left, but those that were forgotten.
LEMMA StopTimerStep ==
    ASSUME IInv, StopTimer
    PROVE  IInv'
<1>1. /\ pc = "stopTimer" /\ pc' = "uninstall" /\ returned' = returned
      /\ running' = running \ {metricsTimer}
      /\ UNCHANGED <<session, data, config, client, tunnels, bytes, reading, counter, seen>>
      /\ UNCHANGED <<kept, file, tunnel, metricsTimer, replaced>>
    BY Zenon DEF StopTimer, configVars, metricVars, tunnelVars
<1>2. /\ returned \in {"none", "connected", "failed", "disconnected", "notDisconnected"}
      /\ tunnel => file
      /\ running \subseteq 1 .. tunnels /\ metricsTimer \in 0 .. tunnels
      /\ tunnel \in BOOLEAN /\ file \in BOOLEAN /\ kept \in BOOLEAN /\ replaced \in BOOLEAN
      /\ running \subseteq {metricsTimer} \/ replaced
    BY Zenon DEF IInv, TypeOK, MoreTypes, CallInv
<1>3. client
    BY <1>1 DEF IInv, CallInv
<1>4. running' \subseteq 1 .. tunnels /\ (running' = {} \/ replaced)
    BY <1>1, <1>2
<1>5. CallInv' /\ NothingLeftBehind'
    BY <1>1, <1>2, <1>3, <1>4 DEF CallInv, NothingLeftBehind
<1> QED BY <1>1, <1>2, <1>3, <1>4, <1>5, CallFrame

\* The service is removed, or wireguard.exe fails.
LEMMA UninstallStep ==
    ASSUME IInv, Uninstall
    PROVE  IInv'
<1>1. /\ pc = "uninstall" /\ pc' = "idle"
      /\ returned' \in {returned, "disconnected", "notDisconnected"}
      /\ \/ tunnel' = FALSE /\ file' = FALSE /\ kept' = kept
         \/ tunnel' = tunnel /\ file' = file /\ kept' = TRUE
      /\ UNCHANGED <<session, data, config, client, tunnels, bytes, reading, counter, seen>>
      /\ UNCHANGED <<metricsTimer, running, replaced>>
    BY Zenon DEF Uninstall, Returns, configVars, metricVars, timerVars
<1>2. /\ returned \in {"none", "connected", "failed", "disconnected", "notDisconnected"}
      /\ tunnel => file
      /\ running \subseteq 1 .. tunnels /\ metricsTimer \in 0 .. tunnels
      /\ tunnel \in BOOLEAN /\ file \in BOOLEAN /\ kept \in BOOLEAN /\ replaced \in BOOLEAN
      /\ running \subseteq {metricsTimer} \/ replaced
    BY Zenon DEF IInv, TypeOK, MoreTypes, CallInv
<1>3. client /\ (running = {} \/ replaced)
    BY <1>1 DEF IInv, CallInv
<1>4. CallInv' /\ NothingLeftBehind'
    BY <1>1, <1>2, <1>3 DEF CallInv, NothingLeftBehind
<1>5. /\ tunnel' => file'
      /\ tunnel' \in BOOLEAN /\ file' \in BOOLEAN /\ kept' \in BOOLEAN
  <2>1. CASE tunnel' = FALSE /\ file' = FALSE /\ kept' = kept
    BY <1>2, <2>1, Zenon
  <2>2. CASE tunnel' = tunnel /\ file' = file /\ kept' = TRUE
    BY <1>2, <2>2, Zenon
  <2> QED BY <1>1, <2>1, <2>2, Zenon
<1>6. returned' \in {"none", "connected", "failed", "disconnected", "notDisconnected"}
    BY <1>1, <1>2
<1> QED BY <1>1, <1>2, <1>3, <1>4, <1>5, <1>6, CallFrame

-----------------------------------------------------------------------------
(* The metrics and the tunnel.                                              *)

\* What the metrics leave alone.
restOfMetrics == <<session, data, config, client, pc, deferred, returned, kept, file, tunnel,
                   tunnels, bytes, metricsTimer, running, replaced>>

\* What is left to show of a step of the metrics.
LEMMA MetricsFrame ==
    ASSUME IInv, client, UNCHANGED restOfMetrics,
           reading' \in [Timers -> Seq(Readings)], counter' \in [Directions -> CounterType],
           seen' \in [Directions -> Shows], CountInv', ShowsWhatWasRead'
    PROVE  IInv'
<1>0. UNCHANGED <<session, data, config, client, pc, deferred, returned, kept, file, tunnel,
                  tunnels, bytes, metricsTimer, running, replaced>>
    BY Zenon DEF restOfMetrics
<1>1. TypeOK'
  <2>1. \A d \in Directions : counter'[d] \in CounterType
    OBVIOUS
  <2> QED BY <1>0, <2>1, Zenon DEF IInv, TypeOK
<1>2. MoreTypes'
    BY <1>0, Zenon DEF IInv, MoreTypes
<1>3. CallInv' /\ NothingLeftBehind'
    BY <1>0, Zenon DEF IInv, CallInv, NothingLeftBehind
<1>4. FreshInv'
    BY <1>0, Zenon DEF FreshInv
<1> QED BY <1>1, <1>2, <1>3, <1>4, Zenon DEF IInv

\* A callback reads the counts of the tunnel at hand.
LEMMA ReadStep ==
    ASSUME IInv, NEW t \in Timers, Read(t)
    PROVE  IInv'
<1>1. /\ t \in running /\ reading' = [reading EXCEPT ![t] = <<BytesTransmitted>>]
      /\ UNCHANGED restOfMetrics /\ UNCHANGED <<counter, seen>>
    BY Zenon DEF Read, restOfMetrics, unchangedByMetrics, configVars, callVars, tunnelVars,
                 timerVars
<1>2. UNCHANGED <<client, tunnels, bytes>>
    BY <1>1, Zenon DEF restOfMetrics
<1>3. /\ reading \in [Timers -> Seq(Readings)] /\ counter \in [Directions -> CounterType]
      /\ seen \in [Directions -> Shows] /\ tunnels \in 0 .. MaxTunnels
      /\ bytes \in [Directions -> 0 .. MaxBytes]
    BY Zenon DEF IInv, MoreTypes
<1>4. client
    BY <1>1, Zenon DEF IInv, FreshInv, TypeOK
<1>5. BytesTransmitted \in Readings /\ BytesTransmitted.tunnel = tunnels
      /\ BytesTransmitted.count = bytes
    BY <1>3 DEF BytesTransmitted, Readings
<1>6. reading' \in [Timers -> Seq(Readings)]
    BY <1>1, <1>3, <1>5
<1>7. CountInv'
  <2>1. ASSUME NEW u \in Timers, reading'[u] # <<>>
        PROVE  /\ reading'[u][1].tunnel <= tunnels
               /\ reading'[u][1].tunnel = tunnels =>
                     \A d \in Directions : reading'[u][1].count[d] <= bytes[d]
    <3>1. CASE u = t
      <4>1. reading'[u][1] = BytesTransmitted
        BY <1>1, <1>3, <3>1
      <4>2. \A d \in Directions : bytes[d] <= bytes[d]
        BY <1>3, TunnelsAssumption
      <4>3. tunnels <= tunnels
        BY <1>3, TunnelsAssumption
      <4> QED BY <1>5, <4>1, <4>2, <4>3, Zenon
    <3>2. CASE u # t
      <4>1. reading'[u] = reading[u]
        BY <1>1, <1>3, <3>2
      <4> QED BY <2>1, <4>1, Zenon DEF IInv, CountInv
    <3> QED BY <3>1, <3>2
  <2> QED BY <1>1, <1>2, <2>1, Zenon DEF IInv, CountInv
<1>8. ShowsWhatWasRead'
    BY <1>1, <1>2, Zenon DEF IInv, ShowsWhatWasRead, Get
<1> QED BY <1>1, <1>3, <1>4, <1>6, <1>7, <1>8, MetricsFrame, Zenon

\* What was read is recorded, by then perhaps of a tunnel that is gone.
LEMMA RecordStep ==
    ASSUME IInv, NEW t \in Timers, Record(t)
    PROVE  IInv'
<1> DEFINE read == reading[t][1]
           recorded(d) == read.count[d] > 0
<1>1. /\ reading[t] # <<>> /\ reading' = [reading EXCEPT ![t] = <<>>]
      /\ counter' = [d \in Directions |-> IF recorded(d) THEN Set(counter[d], read.count[d])
                                          ELSE counter[d]]
      /\ seen' = [d \in Directions |->
                     IF recorded(d) THEN [tunnel |-> read.tunnel, count |-> read.count[d]]
                     ELSE seen[d]]
    BY Zenon DEF Record
<1>2. UNCHANGED restOfMetrics
    BY Zenon DEF Record, restOfMetrics, unchangedByMetrics, configVars, callVars, tunnelVars,
                 timerVars
<1>3. UNCHANGED <<client, tunnels, bytes>>
    BY <1>2, Zenon DEF restOfMetrics
<1>4. /\ reading \in [Timers -> Seq(Readings)] /\ counter \in [Directions -> CounterType]
      /\ seen \in [Directions -> Shows]
    BY Zenon DEF IInv, MoreTypes
<1>5. client
    BY <1>1, Zenon DEF IInv, FreshInv
<1>6. /\ read \in Readings /\ read.tunnel <= tunnels
      /\ read.tunnel = tunnels => \A d \in Directions : read.count[d] <= bytes[d]
  <2>1. read \in Readings
    BY <1>1, <1>4
  <2> QED BY <1>1, <2>1, Zenon DEF IInv, CountInv
<1>7. read.tunnel \in 0 .. MaxTunnels /\ \A d \in Directions : read.count[d] \in 0 .. MaxBytes
    BY <1>6 DEF Readings
<1> HIDE DEF read
<1>8. ASSUME NEW d \in Directions
      PROVE  /\ counter'[d] \in CounterType /\ counter'[d].cumalative
             /\ seen'[d] \in Shows /\ seen'[d].tunnel <= tunnels
             /\ Get(counter'[d]) = seen'[d].count
             /\ seen'[d].tunnel = tunnels => seen'[d].count <= bytes[d]
  <2>1. CASE recorded(d)
    <3>1. /\ counter'[d] = Set(counter[d], read.count[d])
          /\ seen'[d] = [tunnel |-> read.tunnel, count |-> read.count[d]]
        BY <1>1, <2>1, Zenon
    <3>2. read.count[d] \in Int /\ read.count[d] \in 0 .. MaxBytes
        BY <1>7, TunnelsAssumption
    <3>3. counter[d] \in CounterType /\ counter[d].cumalative
        BY <1>4, Zenon DEF IInv, CountInv
    <3>4. /\ counter'[d] \in CounterType /\ counter'[d].cumalative
          /\ Get(counter'[d]) = read.count[d]
        BY <3>1, <3>2, <3>3, CounterFacts
    <3>5. seen'[d] \in Shows /\ seen'[d].tunnel = read.tunnel /\ seen'[d].count = read.count[d]
        BY <1>7, <3>1 DEF Shows
    <3> QED BY <1>6, <3>4, <3>5
  <2>2. CASE ~recorded(d)
    <3>1. counter'[d] = counter[d] /\ seen'[d] = seen[d]
        BY <1>1, <2>2, Zenon
    <3> QED BY <1>4, <3>1, Zenon DEF IInv, CountInv, ShowsWhatWasRead, Get
  <2> QED BY <2>1, <2>2, Zenon
<1>9. /\ counter' \in [Directions -> CounterType] /\ seen' \in [Directions -> Shows]
      /\ reading' \in [Timers -> Seq(Readings)]
  <2>1. counter' \in [Directions -> CounterType]
    BY <1>1, <1>8, Zenon
  <2>2. seen' \in [Directions -> Shows]
    BY <1>1, <1>8, Zenon
  <2>3. reading' \in [Timers -> Seq(Readings)]
    BY <1>1, <1>4
  <2> QED BY <2>1, <2>2, <2>3
<1>10. CountInv'
  <2>1. ASSUME NEW u \in Timers, reading'[u] # <<>> PROVE reading'[u] = reading[u]
    BY <1>1, <1>4, <2>1
  <2> QED BY <1>3, <1>8, <2>1, Zenon DEF IInv, CountInv
<1>11. ShowsWhatWasRead'
    BY <1>3, <1>8, Zenon DEF ShowsWhatWasRead, Get
<1> QED BY <1>2, <1>5, <1>9, <1>10, <1>11, MetricsFrame, Zenon

\* A counter is collected and shows what it did.
LEMMA CollectStep ==
    ASSUME IInv, NEW d \in Directions, Collect(d)
    PROVE  IInv'
<1>1. /\ client /\ counter' = [counter EXCEPT ![d] = AfterCollect(@)]
      /\ UNCHANGED <<reading, seen>>
    BY Zenon DEF Collect
<1>2. UNCHANGED restOfMetrics
    BY Zenon DEF Collect, restOfMetrics, unchangedByMetrics, configVars, callVars, tunnelVars,
                 timerVars
<1>3. UNCHANGED <<client, tunnels, bytes>>
    BY <1>2, Zenon DEF restOfMetrics
<1>4. /\ reading \in [Timers -> Seq(Readings)] /\ counter \in [Directions -> CounterType]
      /\ seen \in [Directions -> Shows]
    BY Zenon DEF IInv, MoreTypes
<1>5. ASSUME NEW e \in Directions
      PROVE  /\ counter'[e] \in CounterType /\ counter'[e].cumalative
             /\ Get(counter'[e]) = Get(counter[e])
  <2>1. counter[e] \in CounterType /\ counter[e].cumalative
    BY <1>4, Zenon DEF IInv, CountInv
  <2>2. counter'[e] = counter[e] \/ counter'[e] = AfterCollect(counter[e])
    BY <1>1, <1>4, Zenon
  <2> QED BY <2>1, <2>2, CounterFacts, Zenon
<1>6. counter' \in [Directions -> CounterType]
    BY <1>1, <1>4, <1>5, Zenon
<1>7. CountInv'
    BY <1>1, <1>3, <1>5, Zenon DEF IInv, CountInv
<1>8. ShowsWhatWasRead'
  <2>1. \A e \in Directions : Get(counter'[e]) = seen[e].count
    BY <1>5, Zenon DEF IInv, ShowsWhatWasRead
  <2> QED BY <1>1, <1>3, <2>1, Zenon DEF IInv, ShowsWhatWasRead, Get
<1> QED BY <1>1, <1>2, <1>4, <1>6, <1>7, <1>8, MetricsFrame, Zenon

\* A step that changes only what goes through the tunnel, and whether it is there.
LEMMA TunnelStep ==
    ASSUME IInv, TunnelGone \/ \E d \in Directions : Traffic(d)
    PROVE  IInv'
<1>1. /\ UNCHANGED <<session, data, config, client, pc, returned, kept, file, tunnels>>
      /\ UNCHANGED <<metricsTimer, running, replaced, reading, counter, seen>>
      /\ tunnel /\ tunnel' \in {tunnel, FALSE}
    BY Zenon DEF TunnelGone, Traffic, configVars, callVars, timerVars, metricVars
<1>2. /\ bytes \in [Directions -> 0 .. MaxBytes] /\ seen \in [Directions -> Shows]
      /\ reading \in [Timers -> Seq(Readings)]
    BY Zenon DEF IInv, MoreTypes
<1>3. /\ bytes' \in [Directions -> 0 .. MaxBytes]
      /\ \A d \in Directions : bytes[d] <= bytes'[d]
  <2>1. CASE TunnelGone
    BY <1>2, <2>1, TunnelsAssumption DEF TunnelGone
  <2>2. CASE \E d \in Directions : Traffic(d)
    <3>1. PICK d \in Directions : bytes[d] < MaxBytes /\ bytes' = [bytes EXCEPT ![d] = @ + 1]
        BY <2>2, Zenon DEF Traffic
    <3>2. bytes[d] \in 0 .. MaxBytes /\ bytes[d] + 1 \in 0 .. MaxBytes
        BY <1>2, <3>1, TunnelsAssumption
    <3> QED BY <1>2, <3>1, <3>2, TunnelsAssumption
  <2> QED BY <2>1, <2>2
<1>4. ASSUME NEW n \in 0 .. MaxBytes, NEW d \in Directions, n <= bytes[d]
      PROVE  n <= bytes'[d]
    BY <1>2, <1>3, <1>4, TunnelsAssumption
<1>5. TypeOK'
  <2>1. \A d \in Directions : bytes'[d] \in 0 .. MaxBytes
    BY <1>3
  <2>2. tunnel' => file' /\ client'
    BY <1>1, Zenon DEF IInv, TypeOK
  <2> QED BY <1>1, <2>1, <2>2, Zenon DEF IInv, TypeOK
<1>6. MoreTypes'
  <2>1. tunnel' \in BOOLEAN
    BY <1>1, Zenon DEF IInv, MoreTypes
  <2> QED BY <1>1, <1>3, <2>1, Zenon DEF IInv, MoreTypes
<1>7. CallInv' /\ FreshInv' /\ NothingLeftBehind'
    BY <1>1, Zenon DEF IInv, CallInv, FreshInv, NothingLeftBehind
<1>8. CountInv'
  <2>1. ASSUME NEW t \in Timers, reading[t] # <<>>, NEW d \in Directions
        PROVE  reading[t][1].count[d] \in 0 .. MaxBytes
    <3>1. reading[t][1] \in Readings
        BY <1>2, <2>1
    <3> QED BY <3>1 DEF Readings
  <2> QED BY <1>1, <1>4, <2>1, Zenon DEF IInv, CountInv
<1>9. ShowsWhatWasRead'
  <2>1. \A d \in Directions : seen[d].count \in 0 .. MaxBytes
    BY <1>2 DEF Shows
  <2> QED BY <1>1, <1>4, <2>1, Zenon DEF IInv, ShowsWhatWasRead, Get
<1> QED BY <1>5, <1>6, <1>7, <1>8, <1>9, Zenon DEF IInv

-----------------------------------------------------------------------------
(* The theorems.                                                            *)

\* A step that leaves everything but the errors and the control client alone.
LEMMA NothingStep ==
    ASSUME IInv, UNCHANGED restOfMetrics, UNCHANGED <<reading, counter, seen>>
    PROVE  IInv'
<1>1. UNCHANGED <<session, data, config, client, pc, deferred, returned, kept, file, tunnel,
                  tunnels, bytes, metricsTimer, running, replaced>>
    BY Zenon DEF restOfMetrics
<1>2. TypeOK'
    BY <1>1, ZenonT(30) DEF IInv, TypeOK
<1>3. MoreTypes'
    BY <1>1, ZenonT(30) DEF IInv, MoreTypes
<1>4. CallInv' /\ FreshInv' /\ NothingLeftBehind'
    BY <1>1, Zenon DEF IInv, CallInv, FreshInv, NothingLeftBehind
<1>5. CountInv' /\ ShowsWhatWasRead'
    BY <1>1, Zenon DEF IInv, CountInv, ShowsWhatWasRead, Get
<1> QED BY <1>2, <1>3, <1>4, <1>5, Zenon DEF IInv

\* The inductive invariant holds in every reachable state.
LEMMA Invariance == Spec => []IInv
<1>1. Init => IInv
  <2> SUFFICES ASSUME Init PROVE IInv
    OBVIOUS
  <2>1. 0 \in 0 .. MaxBytes /\ 0 \in 0 .. MaxTunnels
    BY TunnelsAssumption
  <2>2. /\ counter \in [Directions -> CounterType]
        /\ \A d \in Directions : counter[d].cumalative /\ Get(counter[d]) = 0
    BY CounterFacts, ZenonT(30) DEF Init
  <2>3. bytes \in [Directions -> 0 .. MaxBytes]
    BY <2>1 DEF Init
  <2>4. seen \in [Directions -> Shows] /\ \A d \in Directions : seen[d].count = 0 /\ seen[d].tunnel = 0
    BY <2>1 DEF Init, Shows
  <2>5. reading \in [Timers -> Seq(Readings)] /\ \A t \in Timers : reading[t] = <<>>
    BY DEF Init
  <2>6. TypeOK
    <3>1. running \subseteq 1 .. tunnels /\ metricsTimer \in 0 .. tunnels
        BY DEF Init
    <3>2. \A d \in Directions : counter[d] \in CounterType /\ bytes[d] \in 0 .. MaxBytes
        BY <2>2, <2>3
    <3> QED BY <3>1, <3>2, Zenon DEF Init, TypeOK
  <2>7. MoreTypes
    BY <2>1, <2>2, <2>3, <2>4, <2>5, Zenon DEF Init, MoreTypes
  <2>8. CallInv /\ FreshInv /\ NothingLeftBehind
    BY <2>4, <2>5 DEF Init, CallInv, FreshInv, NothingLeftBehind
  <2>9. CountInv
    <3>1. 0 <= tunnels
        BY DEF Init
    <3> QED BY <2>2, <2>4, <2>5, <3>1, Zenon DEF CountInv
  <2>10. ShowsWhatWasRead
    <3>1. \A d \in Directions : 0 <= bytes[d]
        BY DEF Init
    <3> QED BY <2>2, <2>4, <3>1, Zenon DEF ShowsWhatWasRead
  <2> QED BY <2>6, <2>7, <2>8, <2>9, <2>10, Zenon DEF IInv
<1>2. IInv /\ [Next]_vars => IInv'
  <2>1. ASSUME NEW t \in Timers, ReadFails(t) \/ ReadOfNil(t)
        PROVE  UNCHANGED restOfMetrics /\ UNCHANGED <<reading, counter, seen>>
    BY <2>1, Zenon DEF ReadFails, ReadOfNil, restOfMetrics, unchangedByMetrics, configVars,
                       callVars, tunnelVars, timerVars, metricVars
  <2>2. IInv /\ Next => IInv'
    BY <2>1, ConfigStep, ConnectStep, InstallStep, NewCtrlClientStep, StartTimerStep,
       DisconnectStep, StopTimerStep, UninstallStep, NothingStep, ReadStep, RecordStep,
       CollectStep, TunnelStep, Zenon DEF Next
  <2>3. IInv /\ UNCHANGED vars => IInv'
    <3>1. UNCHANGED vars => UNCHANGED restOfMetrics /\ UNCHANGED <<reading, counter, seen>>
        BY Zenon DEF vars, restOfMetrics, configVars, callVars, tunnelVars, timerVars, metricVars
    <3> QED BY <3>1, NothingStep, Zenon
  <2> QED BY <2>2, <2>3, Zenon
<1> QED BY <1>1, <1>2, PTL DEF Spec

\* Type correctness: the tunnel service has its file and its client, and every
\* timer a tunnel that was installed.
THEOREM TypeCorrect == Spec => []TypeOK
<1>1. IInv => TypeOK
    BY Zenon DEF IInv
<1> QED BY <1>1, Invariance, PTL

\* A Connect that fails leaves no tunnel of its own, and Disconnect no timer that
\* was not forgotten.
THEOREM NothingLeft == Spec => []NothingLeftBehind
<1>1. IInv => NothingLeftBehind
    BY Zenon DEF IInv
<1> QED BY <1>1, Invariance, PTL

\* The client's counts are those read last, over collections, tunnels and timers,
\* and never more than went through the tunnel at hand.
THEOREM CountsTruthful == Spec => []ShowsWhatWasRead
<1>1. IInv => ShowsWhatWasRead
    BY Zenon DEF IInv
<1> QED BY <1>1, Invariance, PTL

-----------------------------------------------------------------------------
(* The loop of the parser.                                                  *)

\* f holds what has been parsed after every line.
Scans(f, text, N) ==
    f = [i \in 0 .. N |->
            IF i = 0 THEN NewConfig
            ELSE CHOOSE q \in {ConfigLine(p, text[i]) : p \in {f[i - 1]}} : TRUE]

\* There is such a function.
LEMMA ScansExist ==
    ASSUME NEW text, NEW N \in Nat
    PROVE  \E f : Scans(f, text, N)
<1> DEFINE W == {n \in 0 .. N : \E f : Scans(f, text, n)}
           Line(f, n) == CHOOSE q \in {ConfigLine(p, text[n]) : p \in {f[n - 1]}} : TRUE
<1>1. 0 \in W
  <2> DEFINE f == [i \in 0 .. 0 |-> NewConfig]
  <2>1. f = [i \in 0 .. 0 |-> IF i = 0 THEN NewConfig ELSE Line(f, i)]
    <3>1. \A i \in 0 .. 0 : i = 0
        OBVIOUS
    <3> QED BY <3>1, Zenon
  <2>2. Scans(f, text, 0)
    BY <2>1, Zenon DEF Scans
  <2>3. 0 \in 0 .. N
    OBVIOUS
  <2> QED BY <2>2, <2>3, Zenon
<1>2. ASSUME NEW n \in 1 .. N, n - 1 \in W PROVE n \in W
  <2>1. PICK f : Scans(f, text, n - 1)
    BY <1>2, Zenon
  <2> DEFINE g == [i \in 0 .. n |-> IF i = n THEN Line(f, n) ELSE f[i]]
  <2>2. \A i \in 0 .. n - 1 : f[i] = IF i = 0 THEN NewConfig ELSE Line(f, i)
    BY <2>1, Zenon DEF Scans
  <2>3. /\ \A i \in 0 .. n : i = n \/ i \in 0 .. n - 1
        /\ \A i \in 0 .. n : i # 0 => i - 1 \in 0 .. n /\ i - 1 # n
        /\ n # 0 /\ n \in 0 .. n /\ n \in 0 .. N
    OBVIOUS
  <2>4. \A i \in 0 .. n : i # 0 => g[i - 1] = f[i - 1]
    BY <2>3, Zenon
  <2>5. \A i \in 0 .. n : i # 0 => Line(g, i) = Line(f, i)
    BY <2>4, Zenon
  <2>6. \A i \in 0 .. n : g[i] = IF i = n THEN Line(f, n) ELSE f[i]
    BY Zenon
  <2>7. g = [i \in 0 .. n |-> g[i]]
    BY Zenon
  <2> HIDE DEF g
  <2>8. \A i \in 0 .. n : g[i] = IF i = 0 THEN NewConfig ELSE Line(g, i)
    <3> HIDE DEF Line
    <3> QED BY <2>2, <2>3, <2>5, <2>6, Zenon
  <2>9. Scans(g, text, n)
    BY <2>7, <2>8, Zenon DEF Scans
  <2> QED BY <2>3, <2>9, Zenon
<1> HIDE DEF W
<1>3. \A n \in 0 .. N : n \in W
    BY <1>1, <1>2, AllRounds, Zenon
<1>4. N \in W
    BY <1>3
<1> QED BY <1>4, Zenon DEF W

\* What is parsed after the last line comes from the empty configuration line by line.
LineByLine(f, text, N) ==
    /\ f[0] = NewConfig
    /\ \A n \in 1 .. N : f[n] = ConfigLine(f[n - 1], text[n])

\* So it is what the parser's loop makes of the text.
LEMMA ScannedIs ==
    ASSUME NEW text, NEW N \in Nat, Len(text) = N
    PROVE  \E f : LineByLine(f, text, N) /\ Scanned(ConfigLine, NewConfig, text) = f[N]
<1> DEFINE f == CHOOSE f : Scans(f, text, N)
<1>1. Scans(f, text, N)
    BY ScansExist, Zenon
<1>2. Scanned(ConfigLine, NewConfig, text) = f[N]
    BY Zenon DEF Scanned, Scans
<1> HIDE DEF f
<1>3. \A n \in 0 .. N : f[n] = IF n = 0 THEN NewConfig
          ELSE CHOOSE q \in {ConfigLine(p, text[n]) : p \in {f[n - 1]}} : TRUE
    BY <1>1, Zenon DEF Scans
<1>4. 0 \in 0 .. N /\ \A n \in 1 .. N : n \in 0 .. N /\ n # 0
    OBVIOUS
<1>5. ASSUME NEW x, NEW line
      PROVE  (CHOOSE q \in {ConfigLine(p, line) : p \in {x}} : TRUE) = ConfigLine(x, line)
    BY Zenon
<1>6. LineByLine(f, text, N)
    BY <1>3, <1>4, <1>5, Zenon DEF LineByLine
<1> QED BY <1>2, <1>6, Zenon

-----------------------------------------------------------------------------
(* Lines and sections.                                                      *)

\* The maximum of a set is the one that no other exceeds.
LEMMA MaxIs ==
    ASSUME NEW S \in SUBSET Nat, NEW m \in S, \A y \in S : m >= y
    PROVE  Max(S) = m
<1>1. Max(S) \in S /\ \A y \in S : Max(S) >= y
    BY Zenon DEF Max
<1>2. Max(S) \in Nat /\ Max(S) >= m /\ m >= Max(S) /\ m \in Nat
    BY <1>1, Zenon
<1> QED BY <1>2

\* The section of a line begins with it, or is that of the line before.
LEMMA SectionIs ==
    ASSUME NEW text, NEW N \in Nat
    PROVE  /\ SectionOf(text, 0) = 0
           /\ \A n \in 0 .. N : SectionOf(text, n) \in 0 .. n
           /\ \A n \in 1 .. N : SectionOf(text, n) =
                  IF text[n].bracket # nil THEN n ELSE SectionOf(text, n - 1)
<1> DEFINE B(n) == {0} \cup {j \in 1 .. n : text[j].bracket # nil}
           W == {n \in 0 .. N : SectionOf(text, n) \in B(n) /\ \A y \in B(n) : SectionOf(text, n) >= y}
<1>1. \A n \in 0 .. N : B(n) \in SUBSET Nat /\ SectionOf(text, n) = Max(B(n))
    BY DEF SectionOf
<1>2. SectionOf(text, 0) = 0
  <2>1. B(0) \in SUBSET Nat /\ 0 \in B(0) /\ \A y \in B(0) : 0 >= y
    OBVIOUS
  <2>2. SectionOf(text, 0) = Max(B(0))
    BY <1>1
  <2> HIDE DEF B
  <2> QED BY <2>1, <2>2, MaxIs, Zenon
<1>3. 0 \in W
    BY <1>2
<1>4. ASSUME NEW n \in 1 .. N, n - 1 \in W
      PROVE  n \in W /\ SectionOf(text, n) = IF text[n].bracket # nil THEN n ELSE SectionOf(text, n - 1)
  <2> DEFINE s == IF text[n].bracket # nil THEN n ELSE SectionOf(text, n - 1)
  <2>1. SectionOf(text, n - 1) \in B(n - 1) /\ \A y \in B(n - 1) : SectionOf(text, n - 1) >= y
    BY <1>4, Zenon
  <2>2. s \in B(n) /\ \A y \in B(n) : s >= y
    <3>1. CASE text[n].bracket # nil
        BY <3>1
    <3>2. CASE text[n].bracket = nil
      <4>1. B(n) = B(n - 1)
        <5>1. \A j \in 1 .. n : j = n \/ j \in 1 .. n - 1
            OBVIOUS
        <5>2. \A j \in 1 .. n - 1 : j \in 1 .. n
            OBVIOUS
        <5> QED BY <3>2, <5>1, <5>2, Zenon
      <4> HIDE DEF B
      <4> QED BY <2>1, <3>2, <4>1, Zenon
    <3> QED BY <3>1, <3>2
  <2>3. n \in 0 .. N
    OBVIOUS
  <2>4. B(n) \in SUBSET Nat /\ SectionOf(text, n) = Max(B(n))
    BY <1>1, <2>3, Zenon
  <2>5. SectionOf(text, n) = s
    <3> HIDE DEF B, s
    <3> QED BY <2>2, <2>4, MaxIs, Zenon
  <2> HIDE DEF B, s
  <2>6. n \in W
    BY <2>2, <2>3, <2>5, Zenon
  <2> QED BY <2>5, <2>6, Zenon DEF s
<1> HIDE DEF W
<1>5. \A n \in 0 .. N : n \in W
    BY <1>3, <1>4, AllRounds, Zenon
<1>6. ASSUME NEW n \in 0 .. N PROVE SectionOf(text, n) \in 0 .. n
  <2>1. SectionOf(text, n) \in B(n)
    BY <1>5, Zenon DEF W
  <2>2. \A y \in B(n) : y \in 0 .. n
    OBVIOUS
  <2> HIDE DEF B
  <2> QED BY <2>1, <2>2, Zenon
<1>7. ASSUME NEW n \in 1 .. N
      PROVE  SectionOf(text, n) = IF text[n].bracket # nil THEN n ELSE SectionOf(text, n - 1)
  <2>1. n - 1 \in 0 .. N
    OBVIOUS
  <2> QED BY <1>4, <1>5, <2>1, Zenon
<1> QED BY <1>2, <1>6, <1>7, Zenon

\* Those of the lines that are among the first n.
First(lines, n) == {i \in lines : i <= n}

\* One line more.
LEMMA FirstNext ==
    ASSUME NEW N \in Nat, NEW lines \in SUBSET (1 .. N), NEW n \in 1 .. N
    PROVE  /\ UpTo(First(lines, n - 1), n - 1)
           /\ n \in lines => First(lines, n) = First(lines, n - 1) \cup {n}
           /\ n \notin lines => First(lines, n) = First(lines, n - 1)
<1>1. \A i \in lines : i <= n <=> i <= n - 1 \/ i = n
    OBVIOUS
<1>2. UpTo(First(lines, n - 1), n - 1)
    BY DEF First, UpTo
<1>3. n <= n
    OBVIOUS
<1>4. n \in lines => First(lines, n) = First(lines, n - 1) \cup {n}
    BY <1>1, <1>3, Zenon DEF First
<1>5. n \notin lines => First(lines, n) = First(lines, n - 1)
    BY <1>1, Zenon DEF First
<1> QED BY <1>2, <1>4, <1>5, Zenon

\* None are among the first 0, and all among the first N.
LEMMA FirstEnds ==
    ASSUME NEW N \in Nat, NEW lines \in SUBSET (1 .. N)
    PROVE  First(lines, 0) = {} /\ First(lines, N) = lines
<1>1. \A i \in lines : ~(i <= 0) /\ i <= N
    OBVIOUS
<1> QED BY <1>1, Zenon DEF First

\* The value of the last line.
LEMMA LastNext ==
    ASSUME NEW text, NEW n \in Nat, NEW lines, UpTo(lines, n - 1)
    PROVE  LastValue(text, lines \cup {n}) = ValueAt(text, n)
<1> DEFINE S == lines \cup {n}
<1>1. S \in SUBSET Nat /\ n \in S /\ \A y \in S : n >= y
    BY DEF UpTo
<1>2. S # {}
    BY <1>1, Zenon
<1> HIDE DEF S
<1>3. Max(S) = n
    BY <1>1, MaxIs, Zenon
<1> QED BY <1>2, <1>3, Zenon DEF LastValue, S

-----------------------------------------------------------------------------
(* What a line does to what has been parsed.                                *)

\* What is parsed of a text whose values are in U as they are written and as they
\* are converted, their parts in V, and the addresses of hosts in H.
PeerConfigs(U, V) ==
    [PublicKey : U, AllowedIPs : Seq(V), Endpoint : U, PersistentKeepaliveInterval : U]
Configs(U, V, H) ==
    [PrivateKey : U, tunAddress : U, tunDNS : U, peerAddresses : Seq(H),
     isDefaultRoute : BOOLEAN, Peers : Seq(PeerConfigs(U, V)), peerConfig : PeerConfigs(U, V),
     topic : {"Interface", "Peer", nil}, err : BOOLEAN]
ValueIn(key, value, U, V, H) ==
    /\ value \in U /\ Parse(key, value) \in U
    /\ Parse(key, value) \in Seq(V) /\ Parse(key, value)[1].ip \in H

\* The topic has no such key, or the value does not parse.
Bad(topic, key, value) ==
    \/ topic = "Interface" /\ key \notin {"PrivateKey", "Address", "DNS"}
    \/ topic = "Interface" /\ key = "PrivateKey" /\ value[1] = Garbled
    \/ topic = "Peer" /\ key \notin {"PublicKey", "AllowedIPs", "Endpoint", "PersistentKeepalive"}
    \/ topic = "Peer" /\ ~Parses(key, value)

\* The peer with a further attribute, its value converted.
With(p, key, value) ==
    [PublicKey |-> IF key = "PublicKey" THEN value ELSE p.PublicKey,
     AllowedIPs |-> IF key = "AllowedIPs" THEN p.AllowedIPs \o value ELSE p.AllowedIPs,
     Endpoint |-> IF key = "Endpoint" THEN value ELSE p.Endpoint,
     PersistentKeepaliveInterval |->
         IF key = "PersistentKeepalive" THEN value ELSE p.PersistentKeepaliveInterval]

\* What concerns the peers is left alone.
SamePeers(c, d) ==
    /\ d.Peers = c.Peers /\ d.peerConfig = c.peerConfig /\ d.topic = c.topic
    /\ d.isDefaultRoute = c.isDefaultRoute

\* A line of a section.
LEMMA SectionLineIs ==
    ASSUME NEW U, NEW V, NEW H, <<>> \in U, NEW c \in Configs(U, V, H), NEW name
    PROVE  /\ SectionLine(c, name) \in Configs(U, V, H)
           /\ SectionLine(c, name).err = c.err
           /\ SectionLine(c, name).topic = IF name \in {"Interface", "Peer"} THEN name ELSE nil
           /\ SectionLine(c, name).Peers = WithPeer(c).Peers
           /\ SectionLine(c, name).peerConfig = IF c.topic = "Peer" THEN PeerConfig ELSE c.peerConfig
           /\ SectionLine(c, name).isDefaultRoute = c.isDefaultRoute
<1>1. PeerConfig \in PeerConfigs(U, V)
    BY DEF PeerConfig, PeerConfigs
<1>2. CASE c.topic = "Peer"
  <2> DEFINE w == [c EXCEPT !.Peers = Append(@, c.peerConfig), !.peerConfig = PeerConfig]
  <2>1. WithPeer(c) = w
    BY <1>2, Zenon DEF WithPeer
  <2>2. Append(c.Peers, c.peerConfig) \in Seq(PeerConfigs(U, V))
    BY DEF Configs
  <2>3. w \in Configs(U, V, H) /\ w.err = c.err /\ w.peerConfig = PeerConfig
        /\ w.isDefaultRoute = c.isDefaultRoute
    BY <1>1, <2>2, ZenonT(30) DEF Configs
  <2> HIDE DEF w
  <2> QED BY <1>2, <2>1, <2>3, Zenon DEF SectionLine, Configs
<1>3. CASE c.topic # "Peer"
    BY <1>1, <1>3 DEF SectionLine, WithPeer, Configs
<1> QED BY <1>2, <1>3

\* An attribute of the interface.
LEMMA InterfaceAttribIs ==
    ASSUME NEW U, NEW V, NEW H, NEW c \in Configs(U, V, H), ~c.err, c.topic = "Interface",
           NEW key, NEW value, ValueIn(key, value, U, V, H)
    PROVE  /\ InterfaceAttrib(c, key, value) \in Configs(U, V, H)
           /\ InterfaceAttrib(c, key, value).err <=> Bad("Interface", key, value)
           /\ SamePeers(c, InterfaceAttrib(c, key, value))
<1> USE DEF InterfaceAttrib, Configs, ValueIn, Bad, SamePeers
<1>1. CASE key = "PrivateKey"
    BY <1>1, Zenon
<1>2. CASE key = "Address"
    BY <1>2
<1>3. CASE key = "DNS"
    BY <1>3, Zenon
<1>4. CASE key \notin {"PrivateKey", "Address", "DNS"}
    BY <1>4, Zenon
<1> QED BY <1>1, <1>2, <1>3, <1>4

\* An attribute of a peer.
LEMMA PeerAttribIs ==
    ASSUME NEW U, NEW V, NEW H, NEW c \in Configs(U, V, H), ~c.err, c.topic = "Peer",
           NEW key, NEW value, ValueIn(key, value, U, V, H)
    PROVE  LET d == PeerAttrib(c, key, value)
               parsed == Parse(key, value)
           IN  /\ d \in Configs(U, V, H)
               /\ d.err <=> Bad("Peer", key, value)
               /\ ~d.err => /\ d.Peers = c.Peers /\ d.topic = "Peer"
                            /\ d.peerConfig = With(c.peerConfig, key, parsed)
                            /\ d.isDefaultRoute = IF key = "AllowedIPs" /\ DefaultRoute \in Range(value)
                                                  THEN TRUE ELSE c.isDefaultRoute
<1> DEFINE d == PeerAttrib(c, key, value)
           parsed == Parse(key, value)
<1>1. c.peerConfig \in PeerConfigs(U, V) /\ c.Peers \in Seq(PeerConfigs(U, V))
      /\ c.isDefaultRoute \in BOOLEAN /\ c.peerAddresses \in Seq(H)
    BY DEF Configs
<1>2. parsed \in U /\ parsed \in Seq(V) /\ parsed[1].ip \in H
    BY DEF ValueIn
<1>4. CASE ~Parses(key, value)
  <2>1. d = [c EXCEPT !.err = TRUE]
    BY <1>4, Zenon DEF PeerAttrib
  <2>2. d \in Configs(U, V, H) /\ d.err
    BY <2>1, Zenon DEF Configs
  <2>3. Bad("Peer", key, value)
    BY <1>4, Zenon DEF Bad
  <2> QED BY <2>2, <2>3, Zenon
<1>5. CASE Parses(key, value) /\ key = "PublicKey"
  <2> DEFINE p == With(c.peerConfig, key, parsed)
  <2>1. p \in PeerConfigs(U, V)
    BY <1>1, <1>2, <1>5 DEF PeerConfigs, With
  <2>2. ~Bad("Peer", key, value)
    BY <1>5 DEF Bad
  <2>3. p = [c.peerConfig EXCEPT !.PublicKey = parsed]
    BY <1>1, <1>5 DEF PeerConfigs, With
  <2>4. d = [c EXCEPT !.peerConfig.PublicKey = parsed]
    BY <1>5 DEF PeerAttrib
  <2>5. d = [c EXCEPT !.peerConfig = p]
    BY <2>3, <2>4, Zenon
  <2> HIDE DEF p, d, parsed
  <2>6. d \in Configs(U, V, H)
    BY <1>1, <1>2, <2>1, <2>5 DEF Configs
  <2>7. /\ d.err = c.err /\ d.Peers = c.Peers /\ d.topic = c.topic /\ d.peerConfig = p
        /\ d.isDefaultRoute = c.isDefaultRoute
    BY <2>5, Zenon DEF Configs
  <2>8. key # "AllowedIPs"
    BY <1>5
  <2>9. ~d.err /\ d.topic = "Peer"
    BY <2>7
  <2> QED BY <2>2, <2>6, <2>7, <2>8, <2>9, Zenon DEF p, d, parsed
<1>6. CASE Parses(key, value) /\ key = "AllowedIPs"
  <2> DEFINE p == With(c.peerConfig, key, parsed)
  <2>1. p \in PeerConfigs(U, V)
    BY <1>1, <1>2, <1>6 DEF PeerConfigs, With
  <2>2. ~Bad("Peer", key, value)
    BY <1>6 DEF Bad
  <2>3. p = [c.peerConfig EXCEPT !.AllowedIPs = @ \o parsed]
    <3>1. p = [PublicKey |-> c.peerConfig.PublicKey, AllowedIPs |-> c.peerConfig.AllowedIPs \o parsed,
               Endpoint |-> c.peerConfig.Endpoint,
               PersistentKeepaliveInterval |-> c.peerConfig.PersistentKeepaliveInterval]
        BY <1>6 DEF With
    <3> HIDE DEF p
    <3>2. ASSUME NEW q \in PeerConfigs(U, V), NEW v
          PROVE  [q EXCEPT !.AllowedIPs = v] =
                     [PublicKey |-> q.PublicKey, AllowedIPs |-> v, Endpoint |-> q.Endpoint,
                      PersistentKeepaliveInterval |-> q.PersistentKeepaliveInterval]
        BY SMT DEF PeerConfigs
    <3> QED BY <1>1, <3>1, <3>2, Zenon
  <2>4. d = [c EXCEPT !.peerConfig.AllowedIPs = @ \o parsed,
                      !.isDefaultRoute = @ \/ DefaultRoute \in Range(value)]
    BY <1>6 DEF PeerAttrib
  <2>5. d = [c EXCEPT !.peerConfig = p, !.isDefaultRoute = @ \/ DefaultRoute \in Range(value)]
    BY <2>3, <2>4, Zenon
  <2> HIDE DEF p, d, parsed
  <2>6. d \in Configs(U, V, H)
    BY <1>1, <1>2, <2>1, <2>5, Zenon DEF Configs
  <2>7. /\ d.err = c.err /\ d.Peers = c.Peers /\ d.topic = c.topic /\ d.peerConfig = p
        /\ d.isDefaultRoute = (c.isDefaultRoute \/ DefaultRoute \in Range(value))
    BY <2>5, Zenon DEF Configs
  <2>8. d.isDefaultRoute = IF key = "AllowedIPs" /\ DefaultRoute \in Range(value)
                           THEN TRUE ELSE c.isDefaultRoute
    BY <1>1, <1>6, <2>7, Zenon
  <2>9. ~d.err /\ d.topic = "Peer"
    BY <2>7
  <2> QED BY <2>2, <2>6, <2>7, <2>8, <2>9, Zenon DEF p, d, parsed
<1>7. CASE Parses(key, value) /\ key = "Endpoint"
  <2> DEFINE p == With(c.peerConfig, key, parsed)
  <2>1. p \in PeerConfigs(U, V)
    BY <1>1, <1>2, <1>7 DEF PeerConfigs, With
  <2>2. ~Bad("Peer", key, value)
    BY <1>7 DEF Bad
  <2>3. p = [c.peerConfig EXCEPT !.Endpoint = parsed]
    BY <1>1, <1>7 DEF PeerConfigs, With
  <2>4. d = [c EXCEPT !.peerConfig.Endpoint = parsed, !.peerAddresses = Append(@, parsed[1].ip)]
    BY <1>7 DEF PeerAttrib
  <2>5. d = [c EXCEPT !.peerConfig = p, !.peerAddresses = Append(@, parsed[1].ip)]
    BY <2>3, <2>4, Zenon
  <2> HIDE DEF p, d, parsed
  <2>6. d \in Configs(U, V, H)
    <3>1. Append(c.peerAddresses, parsed[1].ip) \in Seq(H)
        BY <1>1, <1>2
    <3> QED BY <2>1, <2>5, <3>1, Zenon DEF Configs
  <2>7. /\ d.err = c.err /\ d.Peers = c.Peers /\ d.topic = c.topic /\ d.peerConfig = p
        /\ d.isDefaultRoute = c.isDefaultRoute
    BY <2>5, Zenon DEF Configs
  <2>8. key # "AllowedIPs"
    BY <1>7
  <2>9. ~d.err /\ d.topic = "Peer"
    BY <2>7
  <2> QED BY <2>2, <2>6, <2>7, <2>8, <2>9, Zenon DEF p, d, parsed
<1>8. CASE Parses(key, value) /\ key = "PersistentKeepalive"
  <2> DEFINE p == With(c.peerConfig, key, parsed)
  <2>1. p \in PeerConfigs(U, V)
    BY <1>1, <1>2, <1>8 DEF PeerConfigs, With
  <2>2. ~Bad("Peer", key, value)
    BY <1>8 DEF Bad
  <2>3. p = [c.peerConfig EXCEPT !.PersistentKeepaliveInterval = parsed]
    <3>1. p = [PublicKey |-> c.peerConfig.PublicKey, AllowedIPs |-> c.peerConfig.AllowedIPs,
               Endpoint |-> c.peerConfig.Endpoint,
               PersistentKeepaliveInterval |-> parsed]
        BY <1>8 DEF With
    <3> HIDE DEF p
    <3>2. ASSUME NEW q \in PeerConfigs(U, V)
          PROVE  [q EXCEPT !.PersistentKeepaliveInterval = parsed] =
                     [PublicKey |-> q.PublicKey, AllowedIPs |-> q.AllowedIPs, Endpoint |-> q.Endpoint,
                      PersistentKeepaliveInterval |-> parsed]
        BY SMT DEF PeerConfigs
    <3> QED BY <1>1, <3>1, <3>2, Zenon
  <2>4. d = [c EXCEPT !.peerConfig.PersistentKeepaliveInterval = parsed]
    BY <1>8 DEF PeerAttrib
  <2>5. d = [c EXCEPT !.peerConfig = p]
    BY <2>3, <2>4, Zenon
  <2> HIDE DEF p, d, parsed
  <2>6. d \in Configs(U, V, H)
    BY <1>1, <1>2, <2>1, <2>5 DEF Configs
  <2>7. /\ d.err = c.err /\ d.Peers = c.Peers /\ d.topic = c.topic /\ d.peerConfig = p
        /\ d.isDefaultRoute = c.isDefaultRoute
    BY <2>5, Zenon DEF Configs
  <2>8. key # "AllowedIPs"
    BY <1>8
  <2>9. ~d.err /\ d.topic = "Peer"
    BY <2>7
  <2> QED BY <2>2, <2>6, <2>7, <2>8, <2>9, Zenon DEF p, d, parsed
<1>9. CASE /\ Parses(key, value)
           /\ key \notin {"PublicKey", "AllowedIPs", "Endpoint", "PersistentKeepalive"}
  <2>1. d = [c EXCEPT !.err = TRUE]
    BY <1>9 DEF PeerAttrib
  <2>2. d \in Configs(U, V, H) /\ d.err
    BY <2>1, Zenon DEF Configs
  <2>3. Bad("Peer", key, value)
    BY <1>9, Zenon DEF Bad
  <2> QED BY <2>2, <2>3, Zenon
<1> QED BY <1>4, <1>5, <1>6, <1>7, <1>8, <1>9, Zenon

\* The peers with the one whose section has not ended.
AllPeers(c) == IF c.topic = "Peer" THEN Append(c.Peers, c.peerConfig) ELSE c.Peers

\* What a line does: d is what has been parsed after it, and c before.
AfterSection(c, d, name) ==
    /\ d.topic = IF name \in {"Interface", "Peer"} THEN name ELSE nil
    /\ d.Peers = AllPeers(c)
    /\ d.peerConfig = IF c.topic = "Peer" THEN PeerConfig ELSE c.peerConfig
    /\ d.isDefaultRoute = c.isDefaultRoute

AfterAttrib(c, d, key, value) ==
    /\ d.Peers = c.Peers /\ d.topic = "Peer"
    /\ d.peerConfig = With(c.peerConfig, key, Parse(key, value))
    /\ d.isDefaultRoute = IF key = "AllowedIPs" /\ DefaultRoute \in Range(value)
                          THEN TRUE ELSE c.isDefaultRoute

AfterLine(c, d, line) ==
    /\ d.err <=> \/ c.err
                 \/ line.bracket = nil /\ line.key # "" /\ Bad(c.topic, line.key, line.value)
    /\ ~d.err /\ line.bracket # nil => AfterSection(c, d, line.bracket)
    /\ ~d.err /\ line.bracket = nil /\ line.key # "" /\ c.topic = "Peer" =>
          AfterAttrib(c, d, line.key, line.value)
    /\ ~d.err /\ line.bracket = nil /\ (line.key = "" \/ c.topic # "Peer") => SamePeers(c, d)

\* The peer whose section ends is added.
LEMMA WithPeerIs ==
    ASSUME NEW U, NEW V, NEW H, NEW c \in Configs(U, V, H)
    PROVE  WithPeer(c).Peers = AllPeers(c) /\ WithPeer(c).err = c.err
           /\ WithPeer(c).isDefaultRoute = c.isDefaultRoute
    BY DEF WithPeer, AllPeers, Configs

\* What every line does.
LEMMA ConfigLineIs ==
    ASSUME NEW U, NEW V, NEW H, <<>> \in U, NEW c \in Configs(U, V, H), NEW line,
           ValueIn(line.key, line.value, U, V, H)
    PROVE  /\ ConfigLine(c, line) \in Configs(U, V, H)
           /\ AfterLine(c, ConfigLine(c, line), line)
<1> DEFINE d == ConfigLine(c, line)
           b == line.bracket
           key == line.key
           value == line.value
<1>1. c.topic \in {"Interface", "Peer", nil} /\ c.err \in BOOLEAN
    BY DEF Configs
<1>2. CASE c.err
  <2>1. d = c
    BY <1>2, Zenon DEF ConfigLine
  <2> HIDE DEF d
  <2>2. d.err = TRUE /\ c.err = TRUE
    BY <1>1, <1>2, <2>1
  <2>3. AfterLine(c, d, line)
    BY <2>2, Zenon DEF AfterLine
  <2>4. d \in Configs(U, V, H)
    BY <2>1
  <2> QED BY <2>3, <2>4, Zenon DEF d
<1>3. CASE ~c.err /\ b # nil
  <2>1. d = SectionLine(c, b)
    BY <1>3, Zenon DEF ConfigLine
  <2>2. /\ d \in Configs(U, V, H) /\ d.err = c.err
        /\ AfterSection(c, d, b)
    <3> DEFINE e == SectionLine(c, b)
    <3>1. WithPeer(c).Peers = AllPeers(c)
      BY WithPeerIs, Zenon
    <3>2. e \in Configs(U, V, H) /\ e.err = c.err /\ e.Peers = WithPeer(c).Peers
      BY SectionLineIs
    <3>3. e.topic = IF b \in {"Interface", "Peer"} THEN b ELSE nil
      BY SectionLineIs
    <3>4. /\ e.peerConfig = IF c.topic = "Peer" THEN PeerConfig ELSE c.peerConfig
          /\ e.isDefaultRoute = c.isDefaultRoute
      BY SectionLineIs
    <3> HIDE DEF d, e
    <3>5. d = e
      BY <2>1, Zenon DEF e
    <3> QED BY <3>1, <3>2, <3>3, <3>4, <3>5 DEF AfterSection
  <2> HIDE DEF d
  <2>3. ~d.err
    BY <1>3, <2>2
  <2> QED BY <1>3, <2>2, <2>3, Zenon DEF AfterLine, d
<1>4. CASE ~c.err /\ b = nil /\ (key = "" \/ c.topic = nil)
  <2>1. d = c
    BY <1>4, Zenon DEF ConfigLine, nil
  <2>2. ~Bad(nil, key, value)
    BY DEF Bad, nil
  <2>3. SamePeers(c, c)
    BY Zenon DEF SamePeers
  <2>4. nil # "Peer"
    BY DEF nil
  <2> HIDE DEF d
  <2> QED BY <1>4, <2>1, <2>2, <2>3, <2>4, Zenon DEF AfterLine, d
<1>5. CASE ~c.err /\ b = nil /\ key # "" /\ c.topic = "Interface"
  <2>1. d = InterfaceAttrib(c, key, value)
    BY <1>5, Zenon DEF ConfigLine
  <2>2. /\ d \in Configs(U, V, H) /\ SamePeers(c, d)
        /\ d.err <=> Bad("Interface", key, value)
    BY <1>5, <2>1, InterfaceAttribIs, Zenon
  <2>3. "Interface" # "Peer"
    OBVIOUS
  <2> HIDE DEF d
  <2> QED BY <1>5, <2>2, <2>3, Zenon DEF AfterLine, d
<1>6. CASE ~c.err /\ b = nil /\ key # "" /\ c.topic = "Peer"
  <2>1. d = PeerAttrib(c, key, value)
    BY <1>6, Zenon DEF ConfigLine
  <2>2. /\ d \in Configs(U, V, H)
        /\ d.err <=> Bad("Peer", key, value)
        /\ ~d.err => AfterAttrib(c, d, key, value)
    <3> DEFINE e == PeerAttrib(c, key, value)
    <3>1. /\ e \in Configs(U, V, H)
          /\ e.err <=> Bad("Peer", key, value)
          /\ ~e.err => /\ e.Peers = c.Peers /\ e.topic = "Peer"
                       /\ e.peerConfig = With(c.peerConfig, key, Parse(key, value))
                       /\ e.isDefaultRoute = IF key = "AllowedIPs" /\ DefaultRoute \in Range(value)
                                             THEN TRUE ELSE c.isDefaultRoute
      BY <1>6, PeerAttribIs, Zenon
    <3> HIDE DEF d, e, key, value
    <3>2. d = e
      BY <2>1, Zenon DEF e
    <3> QED BY <3>1, <3>2, Zenon DEF AfterAttrib
  <2> HIDE DEF d
  <2> QED BY <1>6, <2>2, Zenon DEF AfterLine, d
<1> QED BY <1>1, <1>2, <1>3, <1>4, <1>5, <1>6, Zenon

-----------------------------------------------------------------------------
(* What the first lines of a text describe.                                 *)

\* A function over the lines is a sequence as long as the text.
LEMMA LinesLen ==
    ASSUME NEW N \in Nat, NEW g, g = [i \in 1 .. N |-> g[i]]
    PROVE  Len(g) = N
<1> DEFINE S == {g[i] : i \in 1 .. N}
<1>1. \A i \in 1 .. N : g[i] \in S
    OBVIOUS
<1>2. DOMAIN g = 1 .. N
    BY Zenon
<1>3. g \in [1 .. N -> S]
    BY <1>1, Zenon
<1> HIDE DEF S
<1>4. g \in Seq(S)
    BY <1>3
<1> QED BY <1>2, <1>4

\* All the values of no lines, and of one line more.
LEMMA AllNext ==
    ASSUME NEW text, NEW N \in Nat, DOMAIN text = 1 .. N
    PROVE  /\ AllValues(text, {}) = <<>>
           /\ \A lines : \A n \in 1 .. N : UpTo(lines, n - 1) =>
                 AllValues(text, lines \cup {n}) = AllValues(text, lines) \o ValueAt(text, n)
<1> DEFINE g == [i \in DOMAIN text |-> ValueAt(text, i)]
<1>1. g = [i \in 1 .. N |-> g[i]] /\ \A n \in 1 .. N : g[n] = ValueAt(text, n)
    BY Zenon
<1>2. \A lines : AllValues(text, lines) = Joined(g, lines)
    BY Zenon DEF AllValues
<1> HIDE DEF g
<1>3. Len(g) = N
    BY <1>1, LinesLen, Zenon
<1>4. Joined(g, {}) = <<>>
    BY <1>3, JoinedNone, Zenon
<1>5. ASSUME NEW lines, NEW n \in 1 .. N, UpTo(lines, n - 1)
      PROVE  Joined(g, lines \cup {n}) = Joined(g, lines) \o g[n]
    BY <1>3, <1>5, JoinedNext, Zenon
<1>6. ASSUME NEW lines, NEW n \in 1 .. N, UpTo(lines, n - 1)
      PROVE  AllValues(text, lines \cup {n}) = AllValues(text, lines) \o ValueAt(text, n)
  <2>1. /\ AllValues(text, lines \cup {n}) = Joined(g, lines \cup {n})
        /\ AllValues(text, lines) = Joined(g, lines) /\ g[n] = ValueAt(text, n)
    BY <1>1, <1>2, Zenon
  <2>2. Joined(g, lines \cup {n}) = Joined(g, lines) \o g[n]
    BY <1>5, <1>6, Zenon
  <2> QED BY <2>1, <2>2, Zenon
<1>7. AllValues(text, {}) = <<>>
    BY <1>2, <1>4, Zenon
<1> QED BY <1>6, <1>7, Zenon

\* The peer that the first n lines describe in the section at line s.
DescribedBy(text, s, n) ==
    [PublicKey |-> LastValue(text, First(LinesOf(text, s, "PublicKey"), n)),
     AllowedIPs |-> AllValues(text, First(LinesOf(text, s, "AllowedIPs"), n)),
     Endpoint |-> LastValue(text, First(LinesOf(text, s, "Endpoint"), n)),
     PersistentKeepaliveInterval |->
         LastValue(text, First(LinesOf(text, s, "PersistentKeepalive"), n))]

\* What a line adds to a section: an attribute if it is a line of the section.
LEMMA DescribedNext ==
    ASSUME NEW text, NEW N \in Nat, DOMAIN text = 1 .. N, NEW n \in 1 .. N, NEW s
    PROVE  DescribedBy(text, s, n) =
               IF text[n].bracket = nil /\ SectionOf(text, n) = s
               THEN With(DescribedBy(text, s, n - 1), text[n].key, ValueAt(text, n))
               ELSE DescribedBy(text, s, n - 1)
<1> DEFINE L(key) == LinesOf(text, s, key)
           here == text[n].bracket = nil /\ SectionOf(text, n) = s
<1>1. ASSUME NEW key
      PROVE  /\ L(key) \in SUBSET (1 .. N)
             /\ n \in L(key) <=> here /\ text[n].key = key
    BY Zenon DEF LinesOf
<1>2. ASSUME NEW key, here, text[n].key = key
      PROVE  /\ LastValue(text, First(L(key), n)) = ValueAt(text, n)
             /\ AllValues(text, First(L(key), n)) =
                    AllValues(text, First(L(key), n - 1)) \o ValueAt(text, n)
  <2>1. First(L(key), n) = First(L(key), n - 1) \cup {n} /\ UpTo(First(L(key), n - 1), n - 1)
    <3>1. L(key) \in SUBSET (1 .. N) /\ n \in L(key)
        BY <1>1, <1>2, Zenon
    <3> HIDE DEF L
    <3>2. UpTo(First(L(key), n - 1), n - 1)
        BY <3>1, FirstNext, Zenon
    <3>3. First(L(key), n) = First(L(key), n - 1) \cup {n}
        BY <3>1, FirstNext
    <3> QED BY <3>2, <3>3, Zenon
  <2> DEFINE F == First(L(key), n - 1)
  <2> HIDE DEF F, L
  <2>2. n \in Nat /\ UpTo(F, n - 1)
    BY <2>1 DEF F
  <2>3. LastValue(text, F \cup {n}) = ValueAt(text, n)
    BY <2>2, LastNext, Zenon
  <2>4. AllValues(text, F \cup {n}) = AllValues(text, F) \o ValueAt(text, n)
    BY <2>2, AllNext, Zenon
  <2>5. First(L(key), n) = F \cup {n}
    BY <2>1, Zenon DEF F
  <2> QED BY <2>3, <2>4, <2>5, Zenon DEF F
<1>3. ASSUME NEW key, ~here \/ text[n].key # key
      PROVE  First(L(key), n) = First(L(key), n - 1)
  <2>1. L(key) \in SUBSET (1 .. N) /\ n \notin L(key)
    BY <1>1, <1>3, Zenon
  <2> DEFINE lines == L(key)
  <2> HIDE DEF L, lines
  <2>2. lines \in SUBSET (1 .. N) /\ n \notin lines
    BY <2>1, Zenon DEF lines
  <2>3. First(lines, n) = First(lines, n - 1)
    BY <2>2, FirstNext, ZenonT(30)
  <2> QED BY <2>3, Zenon DEF lines
<1>4. CASE ~here
    BY <1>3, <1>4, Zenon DEF DescribedBy
<1>5. CASE here
  <2> DEFINE p == DescribedBy(text, s, n - 1)
             v == ValueAt(text, n)
  <2>1. /\ p.PublicKey = LastValue(text, First(L("PublicKey"), n - 1))
        /\ p.AllowedIPs = AllValues(text, First(L("AllowedIPs"), n - 1))
        /\ p.Endpoint = LastValue(text, First(L("Endpoint"), n - 1))
        /\ p.PersistentKeepaliveInterval =
               LastValue(text, First(L("PersistentKeepalive"), n - 1))
    BY DEF DescribedBy
  <2> HIDE DEF p, L
  <2>2. ASSUME NEW key
        PROVE  LastValue(text, First(L(key), n)) =
                   IF text[n].key = key THEN v ELSE LastValue(text, First(L(key), n - 1))
    BY <1>2, <1>3, <1>5, Zenon
  <2>3. ASSUME NEW key
        PROVE  AllValues(text, First(L(key), n)) =
                   IF text[n].key = key THEN AllValues(text, First(L(key), n - 1)) \o v
                   ELSE AllValues(text, First(L(key), n - 1))
    BY <1>2, <1>3, <1>5, Zenon
  <2>4. DescribedBy(text, s, n) = With(p, text[n].key, v)
    <3>1. DescribedBy(text, s, n) =
            [PublicKey |-> LastValue(text, First(L("PublicKey"), n)),
             AllowedIPs |-> AllValues(text, First(L("AllowedIPs"), n)),
             Endpoint |-> LastValue(text, First(L("Endpoint"), n)),
             PersistentKeepaliveInterval |-> LastValue(text, First(L("PersistentKeepalive"), n))]
        BY Zenon DEF DescribedBy, L
    <3> QED BY <2>1, <2>2, <2>3, <3>1, Zenon DEF With
  <2> QED BY <1>5, <2>4, Zenon DEF p
<1> QED BY <1>4, <1>5, Zenon

\* The lines up to the one that begins a section describe nothing of it, and all the
\* lines describe what the text does.
LEMMA DescribedEnds ==
    ASSUME NEW text, NEW N \in Nat, DOMAIN text = 1 .. N
    PROVE  /\ \A n \in 1 .. N : text[n].bracket # nil => DescribedBy(text, n, n) = PeerConfig
           /\ \A s : DescribedBy(text, s, N) = DescribedPeer(text, s)
<1>1. ASSUME NEW n \in 1 .. N, text[n].bracket # nil
      PROVE  DescribedBy(text, n, n) = PeerConfig
  <2>1. ASSUME NEW key PROVE First(LinesOf(text, n, key), n) = {}
    <3>1. ASSUME NEW i \in 1 .. N, i <= n, text[i].bracket = nil PROVE SectionOf(text, i) # n
      <4>1. i # n
        BY <1>1, <3>1, Zenon
      <4>2. SectionOf(text, i) \in 0 .. i
        <5>1. i \in 0 .. N
            OBVIOUS
        <5> QED BY <5>1, SectionIs, Zenon
      <4> QED BY <3>1, <4>1, <4>2
    <3> QED BY <3>1, Zenon DEF First, LinesOf
  <2>2. LastValue(text, {}) = <<>> /\ AllValues(text, {}) = <<>>
    BY AllNext, Zenon DEF LastValue
  <2> QED BY <2>1, <2>2, Zenon DEF DescribedBy, PeerConfig
<1>2. ASSUME NEW s PROVE DescribedBy(text, s, N) = DescribedPeer(text, s)
  <2>1. ASSUME NEW key PROVE First(LinesOf(text, s, key), N) = LinesOf(text, s, key)
    <3>1. LinesOf(text, s, key) \in SUBSET (1 .. N)
        BY Zenon DEF LinesOf
    <3> QED BY <3>1, FirstEnds, Zenon
  <2> QED BY <2>1, Zenon DEF DescribedBy, DescribedPeer
<1> QED BY <1>1, <1>2, Zenon

-----------------------------------------------------------------------------
(* The sections of the peers among the first lines of a text.               *)

PeerLines(text) == {i \in DOMAIN text : text[i].bracket = "Peer"}
SectionsBy(text, n) == Joined([i \in DOMAIN text |-> <<i>>], First(PeerLines(text), n))

\* A line adds a section if it begins one.
LEMMA SectionsNext ==
    ASSUME NEW text, NEW N \in Nat, DOMAIN text = 1 .. N
    PROVE  /\ SectionsBy(text, 0) = <<>>
           /\ SectionsBy(text, N) = PeerSections(text)
           /\ \A n \in 0 .. N : SectionsBy(text, n) \in Seq(1 .. N)
           /\ \A n \in 1 .. N :
                 SectionsBy(text, n) = IF text[n].bracket = "Peer"
                                       THEN Append(SectionsBy(text, n - 1), n)
                                       ELSE SectionsBy(text, n - 1)
<1> DEFINE g == [i \in DOMAIN text |-> <<i>>]
           L == PeerLines(text)
<1>1. g = [i \in 1 .. N |-> g[i]] /\ \A n \in 1 .. N : g[n] = <<n>>
    BY Zenon
<1>2. L \in SUBSET (1 .. N) /\ \A n \in 1 .. N : n \in L <=> text[n].bracket = "Peer"
    BY Zenon DEF PeerLines
<1>3. \A n : SectionsBy(text, n) = Joined(g, First(L, n))
    BY Zenon DEF SectionsBy
<1>4. PeerSections(text) = Joined(g, L)
    BY Zenon DEF PeerSections, PeerLines
<1> HIDE DEF g, L
<1>5. Len(g) = N
    BY <1>1, LinesLen, Zenon
<1>6. First(L, 0) = {} /\ First(L, N) = L
    BY <1>2, FirstEnds, Zenon
<1>7. SectionsBy(text, 0) = <<>>
  <2>1. Joined(g, {}) = <<>>
    BY <1>5, JoinedNone, Zenon
  <2> QED BY <1>3, <1>6, <2>1, Zenon
<1>8. SectionsBy(text, N) = PeerSections(text)
    BY <1>3, <1>4, <1>6, Zenon
<1>9. ASSUME NEW n PROVE SectionsBy(text, n) \in Seq(1 .. N)
  <2>1. \A i \in 1 .. N : g[i] \in Seq(1 .. N)
    <3>1. \A i \in 1 .. N : <<i>> \in Seq(1 .. N)
        OBVIOUS
    <3> QED BY <1>1, <3>1, Zenon
  <2>2. Joined(g, First(L, n)) \in Seq(1 .. N)
    BY <1>5, <2>1, JoinedType, Zenon
  <2> QED BY <1>3, <2>2, Zenon
<1>10. ASSUME NEW n \in 1 .. N
       PROVE  SectionsBy(text, n) = IF text[n].bracket = "Peer" THEN Append(SectionsBy(text, n - 1), n)
                                    ELSE SectionsBy(text, n - 1)
  <2>1. CASE text[n].bracket = "Peer"
    <3>1. n \in L
        BY <1>2, <2>1, Zenon
    <3>2. UpTo(First(L, n - 1), n - 1)
        BY <1>2, FirstNext, Zenon
    <3>3. First(L, n) = First(L, n - 1) \cup {n}
        BY <1>2, <3>1, FirstNext
    <3> DEFINE F == First(L, n - 1)
    <3> HIDE DEF F
    <3>4. Joined(g, F \cup {n}) = Joined(g, F) \o g[n]
        BY <1>5, <3>2, JoinedNext, Zenon DEF F
    <3>5. SectionsBy(text, n) = SectionsBy(text, n - 1) \o <<n>>
        BY <1>1, <1>3, <3>3, <3>4, Zenon DEF F
    <3>6. SectionsBy(text, n - 1) \in Seq(1 .. N)
        BY <1>9, Zenon
    <3> QED BY <2>1, <3>5, <3>6
  <2>2. CASE text[n].bracket # "Peer"
    <3>1. n \notin L
        BY <1>2, <2>2, Zenon
    <3>2. First(L, n) = First(L, n - 1)
        BY <1>2, <3>1, FirstNext
    <3> QED BY <1>3, <2>2, <3>2, Zenon
  <2> QED BY <2>1, <2>2, Zenon
<1> QED BY <1>7, <1>8, <1>9, <1>10, Zenon

\* What the section at line s is about.
TopicOf(text, s) ==
    IF s = 0 THEN nil
    ELSE IF text[s].bracket \in {"Interface", "Peer"} THEN text[s].bracket ELSE nil

\* The last of the peers' sections is the one the lines are in, if that is a peer's,
\* and the others began before it.
InLast(ss, s, topic) ==
    /\ topic = "Peer" => Len(ss) > 0 /\ ss[Len(ss)] = s
    /\ \A k \in 1 .. Len(ss) : topic # "Peer" \/ k < Len(ss) => ss[k] < s

\* So it is after every line.
LEMMA SectionsInLast ==
    ASSUME NEW text, NEW N \in Nat, DOMAIN text = 1 .. N
    PROVE  \A n \in 0 .. N :
              InLast(SectionsBy(text, n), SectionOf(text, n), TopicOf(text, SectionOf(text, n)))
<1> DEFINE Q(n) == InLast(SectionsBy(text, n), SectionOf(text, n), TopicOf(text, SectionOf(text, n)))
           W == {n \in 0 .. N : Q(n)}
<1>1. 0 \in W
  <2>1. SectionsBy(text, 0) = <<>> /\ SectionOf(text, 0) = 0
    BY SectionsNext, SectionIs, Zenon
  <2>2. TopicOf(text, 0) # "Peer"
    BY DEF TopicOf, nil
  <2>3. InLast(<<>>, 0, TopicOf(text, 0))
    BY <2>2 DEF InLast
  <2>4. 0 \in 0 .. N
    OBVIOUS
  <2> QED BY <2>1, <2>3, <2>4, Zenon
<1>2. ASSUME NEW n \in 1 .. N, n - 1 \in W PROVE n \in W
  <2>1. n \in 0 .. N /\ n - 1 \in 0 .. N
    OBVIOUS
  <2>2. PICK s \in 0 .. n - 1 : s = SectionOf(text, n - 1)
    BY <2>1, SectionIs, Zenon
  <2>3. PICK ss \in Seq(1 .. N) : ss = SectionsBy(text, n - 1)
    BY <2>1, SectionsNext, Zenon
  <2>4. InLast(ss, s, TopicOf(text, s))
    BY <1>2, <2>2, <2>3, Zenon
  <2>5. SectionOf(text, n) = IF text[n].bracket # nil THEN n ELSE s
    BY <2>2, SectionIs, Zenon
  <2>6. SectionsBy(text, n) = IF text[n].bracket = "Peer" THEN Append(ss, n) ELSE ss
    BY <2>3, SectionsNext, Zenon
  <2>7. CASE text[n].bracket = "Peer"
    <3>1. InLast(Append(ss, n), n, TopicOf(text, n))
      <4>1. \A k \in 1 .. Len(ss) : ss[k] < n
        BY <2>4 DEF InLast
      <4>2. TopicOf(text, n) = "Peer"
        BY <2>7 DEF TopicOf
      <4> QED BY <4>1, <4>2 DEF InLast
    <3>2. text[n].bracket # nil
        BY <2>7 DEF nil
    <3> QED BY <2>1, <2>5, <2>6, <2>7, <3>1, <3>2, Zenon
  <2>8. CASE text[n].bracket # nil /\ text[n].bracket # "Peer"
    <3>1. TopicOf(text, n) # "Peer"
        BY <2>8 DEF TopicOf, nil
    <3>2. InLast(ss, n, TopicOf(text, n))
        BY <2>4, <3>1 DEF InLast
    <3> QED BY <2>1, <2>5, <2>6, <2>8, <3>2, Zenon
  <2>9. CASE text[n].bracket = nil
    <3>1. text[n].bracket # "Peer"
        BY <2>9 DEF nil
    <3> QED BY <2>1, <2>4, <2>5, <2>6, <2>9, <3>1, Zenon
  <2> QED BY <2>7, <2>8, <2>9, Zenon
<1> HIDE DEF W
<1>3. \A n \in 0 .. N : n \in W
    BY <1>1, <1>2, AllRounds, Zenon
<1> QED BY <1>3, Zenon DEF W

\* A line is one the parser refuses.
LEMMA UnsupportedIs ==
    ASSUME NEW text, NEW i
    PROVE  Unsupported(text, i) <=>
               /\ text[i].bracket = nil /\ text[i].key # ""
               /\ Bad(TopicOf(text, SectionOf(text, i)), text[i].key, text[i].value)
<1> DEFINE s == SectionOf(text, i)
           key == text[i].key
           value == text[i].value
<1> HIDE DEF s, key, value
<1>1. ~Bad(nil, key, value)
    BY DEF Bad, nil
<1>2. CASE s = 0
  <2>1. TopicOf(text, s) = nil
    BY <1>2, Zenon DEF TopicOf
  <2>2. ~Unsupported(text, i)
    BY <1>2, Zenon DEF Unsupported, s
  <2> QED BY <1>1, <2>1, <2>2, Zenon DEF s, key, value
<1>3. CASE s # 0
  <2>1. Bad(TopicOf(text, s), key, value) <=> Bad(text[s].bracket, key, value)
    BY <1>1, <1>3 DEF TopicOf, Bad, nil
  <2>2. Unsupported(text, i) <=> text[i].bracket = nil /\ key # "" /\ Bad(text[s].bracket, key, value)
    BY <1>3, Zenon DEF Unsupported, Bad, s, key, value
  <2> QED BY <2>1, <2>2, Zenon DEF s, key, value
<1> QED BY <1>2, <1>3, Zenon

\* A line is one that sets the default route.
LEMMA WritesIs ==
    ASSUME NEW text, NEW i
    PROVE  WritesDefaultRoute(text, i) <=>
               /\ text[i].bracket = nil /\ text[i].key = "AllowedIPs"
               /\ TopicOf(text, SectionOf(text, i)) = "Peer"
               /\ DefaultRoute \in Range(text[i].value)
<1> DEFINE s == SectionOf(text, i)
<1>1. TopicOf(text, s) = "Peer" <=> s # 0 /\ text[s].bracket = "Peer"
    BY DEF TopicOf, nil
<1> HIDE DEF s
<1> QED BY <1>1, Zenon DEF WritesDefaultRoute, s

-----------------------------------------------------------------------------
(* What has been parsed of a text.                                          *)

Described(text, n, ps) ==
    /\ Len(ps) = Len(SectionsBy(text, n))
    /\ \A k \in 1 .. Len(ps) : ps[k] = DescribedBy(text, SectionsBy(text, n)[k], n)

RouteBy(text, n) == \E i \in 1 .. n : WritesDefaultRoute(text, i)

\* One line more.
LEMMA RouteNext ==
    ASSUME NEW text, NEW N \in Nat, NEW n \in 1 .. N
    PROVE  RouteBy(text, n) <=> RouteBy(text, n - 1) \/ WritesDefaultRoute(text, n)
<1>1. /\ n \in 1 .. n
      /\ \A i \in 1 .. n : i \in 1 .. n - 1 \/ i = n
      /\ \A i \in 1 .. n - 1 : i \in 1 .. n
    OBVIOUS
<1> QED BY <1>1, Zenon DEF RouteBy

\* After n lines, none of which was refused.
ParsedBy(text, n, c) ==
    /\ c.topic = TopicOf(text, SectionOf(text, n))
    /\ c.topic # "Peer" => c.peerConfig = PeerConfig
    /\ Described(text, n, AllPeers(c))
    /\ c.isDefaultRoute <=> RouteBy(text, n)

\* A line that begins a section.
LEMMA ParsedSection ==
    ASSUME NEW text, NEW N \in Nat, DOMAIN text = 1 .. N, NEW n \in 1 .. N,
           NEW U, NEW V, NEW H, NEW c \in Configs(U, V, H), NEW d \in Configs(U, V, H),
           ParsedBy(text, n - 1, c), text[n].bracket # nil, AfterSection(c, d, text[n].bracket)
    PROVE  ParsedBy(text, n, d)
<1> DEFINE ps == AllPeers(c)
<1>1. n - 1 \in 0 .. N /\ n # 0
    OBVIOUS
<1>2. SectionOf(text, n) = n
    BY SectionIs, Zenon
<1>3. d.topic = TopicOf(text, n) /\ (d.topic = "Peer" <=> text[n].bracket = "Peer")
    BY <1>1 DEF AfterSection, TopicOf, nil
<1>4. d.peerConfig = PeerConfig /\ d.Peers = ps /\ d.isDefaultRoute = c.isDefaultRoute
    BY Zenon DEF AfterSection, ParsedBy
<1>5. ps \in Seq(PeerConfigs(U, V))
    BY DEF AllPeers, Configs
<1>6. PICK ss \in Seq(1 .. N) : ss = SectionsBy(text, n - 1)
    BY <1>1, SectionsNext, Zenon
<1>7. SectionsBy(text, n) = IF d.topic = "Peer" THEN Append(ss, n) ELSE ss
    BY <1>3, <1>6, SectionsNext, Zenon
<1>8. AllPeers(d) = IF d.topic = "Peer" THEN Append(ps, PeerConfig) ELSE ps
    BY <1>4, Zenon DEF AllPeers
<1> HIDE DEF ps
<1>9. Len(ps) = Len(ss) /\ \A k \in 1 .. Len(ps) : ps[k] = DescribedBy(text, ss[k], n)
  <2>1. Len(ps) = Len(ss) /\ \A k \in 1 .. Len(ps) : ps[k] = DescribedBy(text, ss[k], n - 1)
    BY <1>6, Zenon DEF ParsedBy, Described, ps
  <2>2. \A s : DescribedBy(text, s, n) = DescribedBy(text, s, n - 1)
    BY DescribedNext, Zenon
  <2> QED BY <2>1, <2>2, Zenon
<1>10. DescribedBy(text, n, n) = PeerConfig
    BY DescribedEnds, Zenon
<1>11. Described(text, n, AllPeers(d))
  <2>1. CASE d.topic = "Peer"
    <3>1. AllPeers(d) = Append(ps, PeerConfig) /\ SectionsBy(text, n) = Append(ss, n)
        BY <1>7, <1>8, <2>1, Zenon
    <3>2. \A k \in 1 .. Len(ps) + 1 :
             Append(ps, PeerConfig)[k] = DescribedBy(text, Append(ss, n)[k], n)
        BY <1>5, <1>6, <1>9, <1>10
    <3>3. Len(Append(ps, PeerConfig)) = Len(ps) + 1 /\ Len(Append(ss, n)) = Len(ps) + 1
        BY <1>5, <1>6, <1>9
    <3> QED BY <3>1, <3>2, <3>3, Zenon DEF Described
  <2>2. CASE d.topic # "Peer"
    <3>1. AllPeers(d) = ps /\ SectionsBy(text, n) = ss
        BY <1>7, <1>8, <2>2, Zenon
    <3> QED BY <1>9, <3>1, Zenon DEF Described
  <2> QED BY <2>1, <2>2, Zenon
<1>12. ~WritesDefaultRoute(text, n)
    BY Zenon DEF WritesDefaultRoute
<1>13. RouteBy(text, n) <=> RouteBy(text, n - 1)
    BY <1>12, RouteNext, Zenon
<1>14. d.isDefaultRoute <=> RouteBy(text, n)
  <2>1. c.isDefaultRoute <=> RouteBy(text, n - 1)
    BY Zenon DEF ParsedBy
  <2> QED BY <1>4, <1>13, <2>1
<1> QED BY <1>2, <1>3, <1>4, <1>11, <1>14, Zenon DEF ParsedBy

\* A line that is not of a peer, or sets nothing.
SetsNone(c, key) == key = "" \/ c.topic # "Peer"

\* It leaves the peers as they are.
LEMMA ParsedSame ==
    ASSUME NEW text, NEW N \in Nat, DOMAIN text = 1 .. N, NEW n \in 1 .. N,
           NEW U, NEW V, NEW H, NEW c \in Configs(U, V, H), NEW d \in Configs(U, V, H),
           ParsedBy(text, n - 1, c), text[n].bracket = nil,
           SetsNone(c, text[n].key), SamePeers(c, d)
    PROVE  ParsedBy(text, n, d)
<1> DEFINE ps == AllPeers(c)
           s == SectionOf(text, n - 1)
           ss == SectionsBy(text, n - 1)
<1>1. n - 1 \in 0 .. N /\ nil # "Peer"
    BY DEF nil
<1>2. SectionOf(text, n) = s
    BY SectionIs, Zenon
<1>3. SectionsBy(text, n) = ss
    BY <1>1, SectionsNext, Zenon
<1>4. AllPeers(d) = ps
    BY Zenon DEF AllPeers, SamePeers
<1>5. Len(ps) = Len(ss) /\ \A k \in 1 .. Len(ps) : ps[k] = DescribedBy(text, ss[k], n - 1)
    BY Zenon DEF ParsedBy, Described
<1> HIDE DEF ps, s, ss
<1>6. ASSUME NEW k \in 1 .. Len(ss) PROVE DescribedBy(text, ss[k], n) = DescribedBy(text, ss[k], n - 1)
  <2>1. CASE text[n].key = ""
    <3> DEFINE p == DescribedBy(text, ss[k], n - 1)
    <3>1. \A v : With(p, "", v) = p
        BY DEF With, DescribedBy
    <3> HIDE DEF p
    <3> QED BY <2>1, <3>1, DescribedNext, Zenon DEF p
  <2>2. CASE c.topic # "Peer"
    <3>1. ss[k] < s
      <4>1. InLast(ss, s, c.topic)
        BY <1>1, SectionsInLast, Zenon DEF ParsedBy, ss, s
      <4> QED BY <2>2, <4>1, Zenon DEF InLast
    <3>2. s \in 0 .. n - 1
        BY <1>1, SectionIs, Zenon DEF s
    <3>3. ss[k] # s
        BY <3>1, <3>2
    <3> QED BY <1>2, <3>3, DescribedNext, Zenon
  <2> QED BY <2>1, <2>2, Zenon DEF SetsNone
<1>7. Described(text, n, AllPeers(d))
    BY <1>3, <1>4, <1>5, <1>6, Zenon DEF Described
<1>8. d.topic = TopicOf(text, SectionOf(text, n)) /\ d.topic = c.topic /\ d.peerConfig = c.peerConfig
    BY <1>2, Zenon DEF ParsedBy, SamePeers, s
<1>9. d.isDefaultRoute <=> RouteBy(text, n)
  <2>1. c.isDefaultRoute <=> RouteBy(text, n - 1)
    BY Zenon DEF ParsedBy
  <2>2. d.isDefaultRoute = c.isDefaultRoute
    BY Zenon DEF SamePeers
  <2>3. ~WritesDefaultRoute(text, n)
    <3>1. text[n].key # "AllowedIPs" \/ TopicOf(text, SectionOf(text, n)) # "Peer"
        BY <1>8, Zenon DEF SetsNone
    <3> QED BY <3>1, WritesIs, Zenon
  <2>4. RouteBy(text, n) <=> RouteBy(text, n - 1)
    BY <2>3, RouteNext, Zenon
  <2> QED BY <2>1, <2>2, <2>4
<1> QED BY <1>7, <1>8, <1>9, Zenon DEF ParsedBy

\* A line that sets an attribute of a peer.
LEMMA ParsedAttrib ==
    ASSUME NEW text, NEW N \in Nat, DOMAIN text = 1 .. N, NEW n \in 1 .. N,
           NEW U, NEW V, NEW H, NEW c \in Configs(U, V, H), NEW d \in Configs(U, V, H),
           ParsedBy(text, n - 1, c), text[n].bracket = nil, c.topic = "Peer",
           AfterAttrib(c, d, text[n].key, text[n].value)
    PROVE  ParsedBy(text, n, d)
<1> DEFINE qs == c.Peers
           p == c.peerConfig
           s == SectionOf(text, n - 1)
           key == text[n].key
           value == text[n].value
           q == With(p, key, Parse(key, value))
<1>1. n - 1 \in 0 .. N /\ nil # "Peer"
    BY DEF nil
<1>2. SectionOf(text, n) = s
    BY SectionIs, Zenon
<1>3. PICK ss \in Seq(1 .. N) : ss = SectionsBy(text, n - 1)
    BY <1>1, SectionsNext, Zenon
<1>4. SectionsBy(text, n) = ss
    BY <1>1, <1>3, SectionsNext, Zenon
<1>5. AllPeers(c) = Append(qs, p) /\ AllPeers(d) = Append(qs, q) /\ d.topic = "Peer"
    BY Zenon DEF AllPeers, AfterAttrib
<1>6. qs \in Seq(PeerConfigs(U, V))
    BY DEF Configs
<1>9. d.isDefaultRoute = IF key = "AllowedIPs" /\ DefaultRoute \in Range(value)
                         THEN TRUE ELSE c.isDefaultRoute
    BY Zenon DEF AfterAttrib
<1>10. InLast(ss, s, "Peer")
    BY <1>1, <1>3, SectionsInLast, Zenon DEF ParsedBy
<1>11. /\ Len(Append(qs, p)) = Len(ss)
       /\ \A k \in 1 .. Len(ss) : Append(qs, p)[k] = DescribedBy(text, ss[k], n - 1)
    BY <1>3, <1>5, Zenon DEF ParsedBy, Described
<1>12. \A t : DescribedBy(text, t, n) = IF t = s THEN With(DescribedBy(text, t, n - 1), key, Parse(key, value))
                                        ELSE DescribedBy(text, t, n - 1)
    BY <1>2, DescribedNext, Zenon DEF ValueAt
<1>13. s \in 0 .. n - 1
    BY <1>1, SectionIs, Zenon
<1> HIDE DEF qs, p, s, key, value, q
<1>14. Len(ss) = Len(qs) + 1 /\ Len(Append(qs, q)) = Len(ss)
    BY <1>6, <1>11
<1>15. ASSUME NEW k \in 1 .. Len(ss) PROVE Append(qs, q)[k] = DescribedBy(text, ss[k], n)
  <2>1. CASE k = Len(ss)
    <3>1. Append(qs, q)[k] = q /\ Append(qs, p)[k] = p
        BY <1>6, <1>14, <2>1
    <3>2. ss[k] = s
        BY <1>10, <2>1, Zenon DEF InLast
    <3> QED BY <1>11, <1>12, <3>1, <3>2, Zenon DEF q
  <2>2. CASE k # Len(ss)
    <3>1. Append(qs, q)[k] = Append(qs, p)[k] /\ k < Len(ss)
        BY <1>6, <1>14, <2>2
    <3>2. ss[k] < s
        BY <1>10, <3>1, Zenon DEF InLast
    <3>3. ss[k] # s
        BY <1>13, <3>2
    <3> QED BY <1>11, <1>12, <3>1, <3>3, Zenon
  <2> QED BY <2>1, <2>2, Zenon
<1>16. Described(text, n, AllPeers(d))
    BY <1>4, <1>5, <1>14, <1>15, Zenon DEF Described
<1>17. d.isDefaultRoute <=> RouteBy(text, n)
  <2>1. c.isDefaultRoute <=> RouteBy(text, n - 1)
    BY Zenon DEF ParsedBy
  <2>2. WritesDefaultRoute(text, n) <=> key = "AllowedIPs" /\ DefaultRoute \in Range(value)
    <3>1. TopicOf(text, SectionOf(text, n)) = "Peer"
        BY <1>2, Zenon DEF ParsedBy, s
    <3> QED BY <3>1, WritesIs, Zenon DEF key, value
  <2>3. RouteBy(text, n) <=> RouteBy(text, n - 1) \/ WritesDefaultRoute(text, n)
    BY RouteNext, Zenon
  <2>4. CASE key = "AllowedIPs" /\ DefaultRoute \in Range(value)
    BY <1>9, <2>2, <2>3, <2>4
  <2>5. CASE ~(key = "AllowedIPs" /\ DefaultRoute \in Range(value))
    BY <1>9, <2>1, <2>2, <2>3, <2>5
  <2> QED BY <2>4, <2>5
<1>18. d.topic = TopicOf(text, SectionOf(text, n))
    BY <1>2, <1>5, Zenon DEF ParsedBy, s
<1> QED BY <1>5, <1>16, <1>17, <1>18, Zenon DEF ParsedBy

-----------------------------------------------------------------------------
(* What is parsed of a text is what it describes.                           *)

\* What has been parsed after n lines.
ParsedTo(text, n, c) ==
    /\ c.err <=> \E i \in 1 .. n : Unsupported(text, i)
    /\ ~c.err => ParsedBy(text, n, c)

\* Nothing has been parsed of the first 0 lines.
LEMMA ParsedNone ==
    ASSUME NEW text, NEW N \in Nat, DOMAIN text = 1 .. N, NEW U, NEW V, NEW H, <<>> \in U
    PROVE  NewConfig \in Configs(U, V, H) /\ ParsedTo(text, 0, NewConfig)
<1>1. NewConfig \in Configs(U, V, H)
    BY DEF NewConfig, PeerConfig, Configs, PeerConfigs
<1>2. ~NewConfig.err /\ NewConfig.topic = nil /\ nil # "Peer" /\ NewConfig.peerConfig = PeerConfig
      /\ NewConfig.Peers = <<>> /\ ~NewConfig.isDefaultRoute
    BY DEF NewConfig, nil
<1>3. SectionOf(text, 0) = 0 /\ SectionsBy(text, 0) = <<>> /\ TopicOf(text, 0) = nil
    BY SectionIs, SectionsNext, Zenon DEF TopicOf
<1>4. AllPeers(NewConfig) = <<>>
    BY <1>2, Zenon DEF AllPeers
<1>5. Described(text, 0, <<>>) /\ ~RouteBy(text, 0)
    BY <1>3 DEF Described, RouteBy
<1>6. ParsedBy(text, 0, NewConfig)
    BY <1>2, <1>3, <1>4, <1>5, Zenon DEF ParsedBy
<1>7. ~\E i \in 1 .. 0 : Unsupported(text, i)
    OBVIOUS
<1> QED BY <1>1, <1>2, <1>6, <1>7, Zenon DEF ParsedTo

\* A line more.
LEMMA ParsedNext ==
    ASSUME NEW text, NEW N \in Nat, DOMAIN text = 1 .. N, NEW n \in 1 .. N,
           NEW U, NEW V, NEW H, <<>> \in U, NEW c \in Configs(U, V, H),
           ValueIn(text[n].key, text[n].value, U, V, H), ParsedTo(text, n - 1, c)
    PROVE  /\ ConfigLine(c, text[n]) \in Configs(U, V, H)
           /\ ParsedTo(text, n, ConfigLine(c, text[n]))
<1> DEFINE d == ConfigLine(c, text[n])
<1>1. d \in Configs(U, V, H) /\ AfterLine(c, d, text[n])
    BY ConfigLineIs, Zenon
<1> HIDE DEF d
<1>2. (\E i \in 1 .. n : Unsupported(text, i)) <=> \/ \E i \in 1 .. n - 1 : Unsupported(text, i)
                                                  \/ Unsupported(text, n)
  <2>1. /\ n \in 1 .. n
        /\ \A i \in 1 .. n : i \in 1 .. n - 1 \/ i = n
        /\ \A i \in 1 .. n - 1 : i \in 1 .. n
    OBVIOUS
  <2> QED BY <2>1, Zenon
<1>3. ~c.err => (Unsupported(text, n) <=> /\ text[n].bracket = nil /\ text[n].key # ""
                                          /\ Bad(c.topic, text[n].key, text[n].value))
  <2>1. SUFFICES ASSUME ~c.err
                 PROVE  Unsupported(text, n) <=> /\ text[n].bracket = nil /\ text[n].key # ""
                                                 /\ Bad(c.topic, text[n].key, text[n].value)
    BY Zenon
  <2>2. c.topic = TopicOf(text, SectionOf(text, n - 1))
    BY <2>1, Zenon DEF ParsedTo, ParsedBy
  <2>3. text[n].bracket = nil => SectionOf(text, n) = SectionOf(text, n - 1)
    BY SectionIs, Zenon
  <2> QED BY <2>2, <2>3, UnsupportedIs, Zenon
<1>4. d.err <=> \E i \in 1 .. n : Unsupported(text, i)
    BY <1>1, <1>2, <1>3, Zenon DEF AfterLine, ParsedTo
<1>5. ASSUME ~d.err PROVE ParsedBy(text, n, d)
  <2>1. ~c.err
    BY <1>1, <1>5, Zenon DEF AfterLine
  <2>2. ParsedBy(text, n - 1, c)
    BY <2>1, Zenon DEF ParsedTo
  <2>3. CASE text[n].bracket # nil
    <3>1. AfterSection(c, d, text[n].bracket)
        BY <1>1, <1>5, <2>3, Zenon DEF AfterLine
    <3> QED BY <1>1, <2>2, <2>3, <3>1, ParsedSection, Zenon
  <2>4. CASE text[n].bracket = nil /\ text[n].key # "" /\ c.topic = "Peer"
    <3>1. AfterAttrib(c, d, text[n].key, text[n].value)
        BY <1>1, <1>5, <2>4, Zenon DEF AfterLine
    <3> QED BY <1>1, <2>2, <2>4, <3>1, ParsedAttrib, Zenon
  <2>5. CASE text[n].bracket = nil /\ SetsNone(c, text[n].key)
    <3>1. SamePeers(c, d)
        BY <1>1, <1>5, <2>5, Zenon DEF AfterLine, SetsNone
    <3> QED BY <1>1, <2>2, <2>5, <3>1, ParsedSame, Zenon
  <2> QED BY <2>3, <2>4, <2>5, Zenon DEF SetsNone
<1>6. ParsedTo(text, n, d)
    BY <1>4, <1>5, Zenon DEF ParsedTo
<1> QED BY <1>1, <1>6, Zenon DEF d

\* The parts of a text.
ValuesOf(text) ==
    {<<>>} \cup {text[i].value : i \in DOMAIN text} \cup {ValueAt(text, i) : i \in DOMAIN text}
PartsOf(text) == UNION {Range(ValueAt(text, i)) : i \in DOMAIN text}
HostsOf(text) == {ValueAt(text, i)[1].ip : i \in DOMAIN text}

\* The values of a text are made of its parts.
LEMMA TextValues ==
    ASSUME NEW text, IsText(text), NEW i \in DOMAIN text
    PROVE  ValueIn(text[i].key, text[i].value, ValuesOf(text), PartsOf(text), HostsOf(text))
<1> DEFINE v == text[i].value
           p == ValueAt(text, i)
<1>1. v \in ValuesOf(text) /\ p \in ValuesOf(text) /\ p[1].ip \in HostsOf(text)
    BY Zenon DEF ValuesOf, HostsOf
<1>2. \A x \in Range(p) : x \in PartsOf(text)
    BY Zenon DEF PartsOf
<1>3. v \in Seq(Range(v))
    BY Zenon DEF IsText
<1>4. p = [k \in DOMAIN v |-> p[k]] /\ \A k \in DOMAIN v : p[k] \in Range(p)
    BY Zenon DEF ValueAt, Parse, Range
<1>5. p = Parse(text[i].key, v)
    BY Zenon DEF ValueAt
<1> HIDE DEF v, p
<1>6. Len(v) \in Nat /\ DOMAIN v = 1 .. Len(v)
    BY <1>3
<1>7. p \in [1 .. Len(v) -> PartsOf(text)]
    BY <1>2, <1>4, <1>6, Zenon
<1>8. p \in Seq(PartsOf(text))
    BY <1>6, <1>7
<1> QED BY <1>1, <1>5, <1>8, Zenon DEF ValueIn, v

\* The peers are those that the sections describe, unless a line is refused.
IsDescribed(text, c) ==
    /\ c.err <=> \E i \in DOMAIN text : Unsupported(text, i)
    /\ ~c.err => /\ c.Peers = [k \in DOMAIN PeerSections(text) |->
                                  DescribedPeer(text, PeerSections(text)[k])]
                 /\ c.isDefaultRoute <=> \E i \in DOMAIN text : WritesDefaultRoute(text, i)

\* What the parser makes of a text is what the text describes, however many lines.
THEOREM ParserIsRight ==
    ASSUME NEW text, IsText(text)
    PROVE  IsDescribed(text, newWireguardConfigFromTarget(text))
<1> DEFINE U == ValuesOf(text)
           V == PartsOf(text)
           H == HostsOf(text)
<1>1. PICK N \in Nat : N = Len(text) /\ DOMAIN text = 1 .. N
    BY Zenon DEF IsText
<1>2. <<>> \in U
    BY Zenon DEF ValuesOf
<1>3. \A n \in 1 .. N : ValueIn(text[n].key, text[n].value, U, V, H)
    BY <1>1, TextValues, Zenon
<1> HIDE DEF U, V, H
<1>4. PICK f : LineByLine(f, text, N) /\ Scanned(ConfigLine, NewConfig, text) = f[N]
    BY <1>1, ScannedIs, Zenon
<1> DEFINE W == {n \in 0 .. N : f[n] \in Configs(U, V, H) /\ ParsedTo(text, n, f[n])}
<1>5. 0 \in W
  <2>1. 0 \in 0 .. N /\ f[0] = NewConfig
    BY <1>4 DEF LineByLine
  <2>2. NewConfig \in Configs(U, V, H) /\ ParsedTo(text, 0, NewConfig)
    BY <1>1, <1>2, ParsedNone, Zenon
  <2> QED BY <2>1, <2>2, Zenon
<1>6. ASSUME NEW n \in 1 .. N, n - 1 \in W PROVE n \in W
  <2>1. n \in 0 .. N
    OBVIOUS
  <2>2. f[n] = ConfigLine(f[n - 1], text[n])
    BY <1>4, Zenon DEF LineByLine
  <2>3. f[n - 1] \in Configs(U, V, H) /\ ParsedTo(text, n - 1, f[n - 1])
    BY <1>6, Zenon
  <2>4. /\ ConfigLine(f[n - 1], text[n]) \in Configs(U, V, H)
        /\ ParsedTo(text, n, ConfigLine(f[n - 1], text[n]))
    BY <1>1, <1>2, <1>3, <2>3, ParsedNext, Zenon
  <2> QED BY <2>1, <2>2, <2>4, Zenon
<1> HIDE DEF W
<1>7. \A n \in 0 .. N : n \in W
    BY <1>5, <1>6, AllRounds, Zenon
<1>8. N \in W
    BY <1>7
<1>9. PICK c \in Configs(U, V, H) : c = f[N] /\ ParsedTo(text, N, c)
    BY <1>8, Zenon DEF W
<1> DEFINE w == WithPeer(c)
<1>10. newWireguardConfigFromTarget(text) = w
    BY <1>4, <1>9, Zenon DEF newWireguardConfigFromTarget
<1>11. w.Peers = AllPeers(c) /\ w.err = c.err /\ w.isDefaultRoute = c.isDefaultRoute
    BY WithPeerIs, Zenon
<1> HIDE DEF w
<1>12. w.err <=> \E i \in DOMAIN text : Unsupported(text, i)
  <2>1. c.err <=> \E i \in 1 .. N : Unsupported(text, i)
    BY <1>9, Zenon DEF ParsedTo
  <2>2. w.err <=> c.err
    BY <1>11
  <2> QED BY <1>1, <2>1, <2>2, Zenon
<1>13. ASSUME ~w.err
       PROVE  /\ w.Peers = [k \in DOMAIN PeerSections(text) |->
                                DescribedPeer(text, PeerSections(text)[k])]
              /\ w.isDefaultRoute <=> \E i \in DOMAIN text : WritesDefaultRoute(text, i)
  <2>1. ~c.err
    BY <1>11, <1>13
  <2>2. ParsedBy(text, N, c)
    BY <1>9, <2>1, Zenon DEF ParsedTo
  <2>3. PICK ps \in Seq(PeerConfigs(U, V)) : ps = AllPeers(c)
    <3>1. AllPeers(c) \in Seq(PeerConfigs(U, V))
        BY DEF AllPeers, Configs
    <3> QED BY <3>1, Zenon
  <2>4. PICK ss \in Seq(1 .. N) : ss = PeerSections(text) /\ ss = SectionsBy(text, N)
    <3>1. N \in 0 .. N
        OBVIOUS
    <3> QED BY <1>1, <3>1, SectionsNext, Zenon
  <2>5. Len(ps) = Len(ss) /\ \A k \in 1 .. Len(ps) : ps[k] = DescribedPeer(text, ss[k])
    <3>1. Len(ps) = Len(ss) /\ \A k \in 1 .. Len(ps) : ps[k] = DescribedBy(text, ss[k], N)
      <4>1. Described(text, N, ps)
        BY <2>2, <2>3, Zenon DEF ParsedBy
      <4> QED BY <2>4, <4>1, Zenon DEF Described
    <3>2. \A s : DescribedBy(text, s, N) = DescribedPeer(text, s)
        BY <1>1, DescribedEnds, Zenon
    <3> QED BY <3>1, <3>2, Zenon
  <2>6. DOMAIN ps = 1 .. Len(ps) /\ DOMAIN ss = 1 .. Len(ps)
    BY <2>5
  <2>7. ps = [k \in DOMAIN ps |-> ps[k]]
    OBVIOUS
  <2>8. ps = [k \in DOMAIN ss |-> DescribedPeer(text, ss[k])]
    BY <2>5, <2>6, <2>7, Zenon
  <2>9. c.isDefaultRoute <=> RouteBy(text, N)
    BY <2>2, Zenon DEF ParsedBy
  <2>10. w.isDefaultRoute <=> \E i \in DOMAIN text : WritesDefaultRoute(text, i)
    <3>1. w.isDefaultRoute <=> RouteBy(text, N)
        BY <1>11, <2>9
    <3> QED BY <1>1, <3>1, Zenon DEF RouteBy
  <2>11. w.Peers = ps
    BY <1>11, <2>3, Zenon
  <2> QED BY <2>4, <2>8, <2>10, <2>11, Zenon
<1> QED BY <1>10, <1>12, <1>13, Zenon DEF IsDescribed

-----------------------------------------------------------------------------
(* The text of an answer.                                                   *)

\* Lines of a text that is written one part after the other.
Follows(x, y, z) ==
    /\ Len(z) = Len(x) + Len(y)
    /\ \A i \in 1 .. Len(x) : z[i] = x[i]
    /\ \A i \in Len(x) + 1 .. Len(x) + Len(y) : z[i] = y[i - Len(x)]

\* Two parts, one after the other.
LEMMA Pieces ==
    ASSUME NEW S, NEW x \in Seq(S), NEW y \in Seq(S)
    PROVE  x \o y \in Seq(S) /\ Follows(x, y, x \o y)
    BY DEF Follows

\* The lines of an answer: DNS takes a line, and the subnets, if there are any.
DataLines(a, text, j, N) ==
    /\ Len(text) = N /\ DOMAIN text = 1 .. N
    /\ text[1] = Section("Interface") /\ text[2] = Attrib("PrivateKey", <<a.privateKey>>)
    /\ text[3] = Attrib("Address", <<Network(a.Address)>>)
    /\ j = IF a.DNS = nil THEN 3 ELSE 4
    /\ a.DNS # nil => text[4] = Attrib("DNS", <<a.DNS>>)
    /\ text[j + 1] = Section("Peer")
    /\ text[j + 2] = Attrib("PublicKey", <<a.PeerPublicKey>>)
    /\ text[j + 3] = EndpointLine(a.PeerEndpoint)
    /\ text[j + 4] = Attrib("PersistentKeepalive", <<a.KeepAlivePing>>)
    /\ N = IF a.AllowedSubnets = <<>> THEN j + 4 ELSE j + 5
    /\ a.AllowedSubnets # <<>> => text[j + 5] = Attrib("AllowedIPs", a.AllowedSubnets)

\* Data writes these lines.
LEMMA DataIs ==
    ASSUME NEW a
    PROVE  \E j \in {3, 4} : \E N \in Nat : DataLines(a, Data(a), j, N)
<1> DEFINE l1 == Section("Interface")
           l2 == Attrib("PrivateKey", <<a.privateKey>>)
           l3 == Attrib("Address", <<Network(a.Address)>>)
           l4 == Attrib("DNS", <<a.DNS>>)
           l5 == Section("Peer")
           l6 == Attrib("PublicKey", <<a.PeerPublicKey>>)
           l7 == EndpointLine(a.PeerEndpoint)
           l8 == Attrib("PersistentKeepalive", <<a.KeepAlivePing>>)
           l9 == Attrib("AllowedIPs", a.AllowedSubnets)
           S == {l1, l2, l3, l4, l5, l6, l7, l8, l9}
           p == <<l1, l2, l3>>
           q == IF a.DNS # nil THEN <<l4>> ELSE <<>>
           r == <<l5, l6, l7, l8>>
           t == IF a.AllowedSubnets # <<>> THEN <<l9>> ELSE <<>>
           j == IF a.DNS = nil THEN 3 ELSE 4
           N == IF a.AllowedSubnets = <<>> THEN j + 4 ELSE j + 5
<1>1. Data(a) = ((p \o q) \o r) \o t
    BY Zenon DEF Data, Optional
<1>2. \A x \in {l1, l2, l3, l4, l5, l6, l7, l8, l9} : x \in S
    BY Zenon
<1> HIDE DEF l1, l2, l3, l4, l5, l6, l7, l8, l9
<1>3. /\ p \in Seq(S) /\ Len(p) = 3 /\ p[1] = l1 /\ p[2] = l2 /\ p[3] = l3
    OBVIOUS
<1>4. /\ r \in Seq(S) /\ Len(r) = 4 /\ r[1] = l5 /\ r[2] = l6 /\ r[3] = l7 /\ r[4] = l8
    OBVIOUS
<1>5. ASSUME NEW x \in S
      PROVE  <<x>> \in Seq(S) /\ Len(<<x>>) = 1 /\ <<x>>[1] = x /\ <<>> \in Seq(S) /\ Len(<<>>) = 0
    OBVIOUS
<1>6. /\ q \in Seq(S)
      /\ a.DNS = nil => j = 3 /\ Len(q) = 0
      /\ a.DNS # nil => j = 4 /\ Len(q) = 1 /\ q[1] = l4
    BY <1>2, <1>5, Zenon
<1>7. /\ t \in Seq(S)
      /\ a.AllowedSubnets = <<>> => N = j + 4 /\ Len(t) = 0
      /\ a.AllowedSubnets # <<>> => N = j + 5 /\ Len(t) = 1 /\ t[1] = l9
    BY <1>2, <1>5, Zenon
<1> DEFINE pq == p \o q
           pqr == pq \o r
           all == pqr \o t
<1> HIDE DEF S, p, q, r, t, j, N
<1>8. /\ pq \in Seq(S) /\ Len(pq) = j
      /\ pq[1] = l1 /\ pq[2] = l2 /\ pq[3] = l3 /\ (a.DNS # nil => pq[4] = l4)
  <2>1. pq \in Seq(S) /\ Follows(p, q, pq)
    BY <1>3, <1>6, Pieces, Zenon
  <2> HIDE DEF pq
  <2>2. CASE a.DNS = nil
    BY <1>3, <1>6, <2>1, <2>2 DEF Follows
  <2>3. CASE a.DNS # nil
    BY <1>3, <1>6, <2>1, <2>3 DEF Follows
  <2> QED BY <2>2, <2>3
<1> HIDE DEF pq
<1>9. /\ pqr \in Seq(S) /\ Len(pqr) = j + 4
      /\ pqr[1] = l1 /\ pqr[2] = l2 /\ pqr[3] = l3 /\ (a.DNS # nil => pqr[4] = l4)
      /\ pqr[j + 1] = l5 /\ pqr[j + 2] = l6 /\ pqr[j + 3] = l7 /\ pqr[j + 4] = l8
  <2>1. pqr \in Seq(S) /\ Follows(pq, r, pqr)
    BY <1>4, <1>8, Pieces, Zenon
  <2> HIDE DEF pqr
  <2>2. Len(pqr) = j + 4 /\ \A i \in 1 .. j : pqr[i] = pq[i]
    BY <1>4, <1>6, <1>8, <2>1 DEF Follows
  <2>3. ASSUME NEW i \in 1 .. 4 PROVE pqr[j + i] = r[i]
    <3>1. j + i \in Len(pq) + 1 .. Len(pq) + Len(r) /\ (j + i) - Len(pq) = i
        BY <1>4, <1>6, <1>8
    <3> QED BY <2>1, <3>1, Zenon DEF Follows
  <2>4. /\ 1 \in 1 .. 4 /\ 2 \in 1 .. 4 /\ 3 \in 1 .. 4 /\ 4 \in 1 .. 4
        /\ 1 \in 1 .. j /\ 2 \in 1 .. j /\ 3 \in 1 .. j /\ (a.DNS # nil => 4 \in 1 .. j)
    BY <1>6
  <2> QED BY <1>4, <1>8, <2>1, <2>2, <2>3, <2>4, Zenon
<1> HIDE DEF pqr
<1>10. /\ all \in Seq(S) /\ Len(all) = N /\ DOMAIN all = 1 .. N
       /\ all[1] = l1 /\ all[2] = l2 /\ all[3] = l3 /\ (a.DNS # nil => all[4] = l4)
       /\ all[j + 1] = l5 /\ all[j + 2] = l6 /\ all[j + 3] = l7 /\ all[j + 4] = l8
       /\ a.AllowedSubnets # <<>> => all[j + 5] = l9
  <2>1. all \in Seq(S) /\ Follows(pqr, t, all)
    BY <1>7, <1>9, Pieces, Zenon
  <2> HIDE DEF all
  <2>2. j \in {3, 4}
    BY <1>6
  <2>3. Len(all) = N /\ DOMAIN all = 1 .. N /\ \A i \in 1 .. j + 4 : all[i] = pqr[i]
    <3>1. Len(all) = (j + 4) + Len(t) /\ \A i \in 1 .. j + 4 : all[i] = pqr[i]
        BY <1>9, <2>1, Zenon DEF Follows
    <3>2. Len(all) = N
      <4>1. Len(all) = (j + 4) + Len(t)
        BY <3>1, Zenon
      <4>2. CASE a.AllowedSubnets = <<>>
        <5>1. N = j + 4 /\ Len(t) = 0
            BY <1>7, <4>2, Zenon
        <5> QED BY <2>2, <4>1, <5>1
      <4>3. CASE a.AllowedSubnets # <<>>
        <5>1. N = j + 5 /\ Len(t) = 1
            BY <1>7, <4>3, Zenon
        <5> QED BY <2>2, <4>1, <5>1
      <4> QED BY <4>2, <4>3, Zenon
    <3>3. DOMAIN all = 1 .. Len(all)
        BY <2>1
    <3> QED BY <3>1, <3>2, <3>3, Zenon
  <2>4. a.AllowedSubnets # <<>> => all[j + 5] = t[1]
    <3>1. ASSUME a.AllowedSubnets # <<>>
          PROVE  j + 5 \in Len(pqr) + 1 .. Len(pqr) + Len(t) /\ (j + 5) - Len(pqr) = 1
      <4>1. Len(pqr) = j + 4 /\ Len(t) = 1
        BY <1>7, <1>9, <3>1, Zenon
      <4> QED BY <2>2, <4>1
    <3> QED BY <2>1, <3>1, Zenon DEF Follows
  <2>5. /\ 1 \in 1 .. j + 4 /\ 2 \in 1 .. j + 4 /\ 3 \in 1 .. j + 4 /\ 4 \in 1 .. j + 4
        /\ j + 1 \in 1 .. j + 4 /\ j + 2 \in 1 .. j + 4 /\ j + 3 \in 1 .. j + 4
        /\ j + 4 \in 1 .. j + 4
    BY <2>2
  <2> QED BY <1>7, <1>9, <2>1, <2>3, <2>4, <2>5, Zenon
<1>11. Data(a) = all
    BY <1>1, Zenon DEF all, pqr, pq
<1> HIDE DEF all
<1>12. DataLines(a, all, j, N)
    BY <1>10, Zenon DEF DataLines, j, N, l1, l2, l3, l4, l5, l6, l7, l8, l9
<1>13. j \in {3, 4} /\ N \in Nat
    BY <1>6, <1>7
<1> QED BY <1>11, <1>12, <1>13, Zenon

\* What Data writes of an answer is a text.
LEMMA DataIsText ==
    ASSUME NEW a \in Answers
    PROVE  IsText(Data(a))
<1> DEFINE Fine(line) == line.value \in Seq(Range(line.value))
<1>1. PICK j \in {3, 4}, N \in Nat : DataLines(a, Data(a), j, N)
    BY DataIs, Zenon
<1> DEFINE text == Data(a)
<1> HIDE DEF text
<1>2. DataLines(a, text, j, N)
    BY <1>1, Zenon DEF text
<1>3. \A name : Fine(Section(name))
    BY DEF Section
<1>4. \A key, x : Fine(Attrib(key, <<x>>))
  <2> SUFFICES ASSUME NEW key, NEW x PROVE <<x>> \in Seq(Range(<<x>>))
    BY Zenon DEF Attrib
  <2>1. x \in Range(<<x>>)
    BY DEF Range
  <2> QED BY <2>1
<1>5. Fine(EndpointLine(a.PeerEndpoint))
  <2> DEFINE x == Endpoint(a.PeerEndpoint)
  <2>1. EndpointLine(a.PeerEndpoint).value = <<x>>
    BY DEF EndpointLine
  <2> HIDE DEF x
  <2>2. x \in Range(<<x>>)
    BY DEF Range
  <2>3. <<x>> \in Seq(Range(<<x>>))
    BY <2>2
  <2> QED BY <2>1, <2>3, Zenon
<1>6. Fine(Attrib("AllowedIPs", a.AllowedSubnets))
  <2>1. a.AllowedSubnets \in Seq(Range(a.AllowedSubnets))
    BY AnswersAssumption, Zenon
  <2>2. Attrib("AllowedIPs", a.AllowedSubnets).value = a.AllowedSubnets
    BY DEF Attrib
  <2> QED BY <2>1, <2>2, Zenon
<1> HIDE DEF Fine
<1>7. ASSUME NEW i \in 1 .. N PROVE Fine(text[i])
  <2>1. \/ i = 1 \/ i = 2 \/ i = 3 \/ (a.DNS # nil /\ i = 4)
        \/ i = j + 1 \/ i = j + 2 \/ i = j + 3 \/ i = j + 4
        \/ (a.AllowedSubnets # <<>> /\ i = j + 5)
    BY <1>2 DEF DataLines
  <2>2. Fine(text[1]) /\ Fine(text[2]) /\ Fine(text[3]) /\ (a.DNS # nil => Fine(text[4]))
    BY <1>2, <1>3, <1>4, Zenon DEF DataLines
  <2>3. Fine(text[j + 1]) /\ Fine(text[j + 2]) /\ Fine(text[j + 3]) /\ Fine(text[j + 4])
    BY <1>2, <1>3, <1>4, <1>5, Zenon DEF DataLines
  <2>4. a.AllowedSubnets # <<>> => Fine(text[j + 5])
    BY <1>2, <1>6, Zenon DEF DataLines
  <2> QED BY <2>1, <2>2, <2>3, <2>4, Zenon
<1>8. Len(text) \in Nat /\ DOMAIN text = 1 .. Len(text) /\ DOMAIN text = 1 .. N
    BY <1>2, Zenon DEF DataLines
<1>9. IsText(text)
    BY <1>7, <1>8, Zenon DEF IsText, Fine
<1> QED BY <1>9, Zenon DEF text

\* What has been parsed, with no error.
Parsed(key, address, dns, hosts, route, peers, peer, topic) ==
    [PrivateKey |-> key, tunAddress |-> address, tunDNS |-> dns, peerAddresses |-> hosts,
     isDefaultRoute |-> route, Peers |-> peers, peerConfig |-> peer, topic |-> topic, err |-> FALSE]
Peer(key, ips, endpoint, interval) ==
    [PublicKey |-> key, AllowedIPs |-> ips, Endpoint |-> endpoint,
     PersistentKeepaliveInterval |-> interval]

\* A line makes d of c.
Gives(c, line, d) == ConfigLine(c, line) = d

\* The lines up to the section of the peer.
LEMMA InterfaceLines ==
    ASSUME NEW key, NEW address, NEW dns, NEW hosts, NEW route, NEW peers, NEW peer, NEW v
    PROVE  LET C(k, a, d, topic) == Parsed(k, a, d, hosts, route, peers, peer, topic)
           IN  /\ Gives(C(key, address, dns, nil), Section("Interface"),
                        C(key, address, dns, "Interface"))
               /\ v[1] # Garbled => Gives(C(key, address, dns, "Interface"), Attrib("PrivateKey", v),
                                          C(v, address, dns, "Interface"))
               /\ Gives(C(key, address, dns, "Interface"), Attrib("Address", v),
                        C(key, v, dns, "Interface"))
               /\ Gives(C(key, address, dns, "Interface"), Attrib("DNS", v),
                        C(key, address, v, "Interface"))
               /\ Gives(C(key, address, dns, "Interface"), Section("Peer"),
                        C(key, address, dns, "Peer"))
<1> DEFINE C(k, a, d, topic) == Parsed(k, a, d, hosts, route, peers, peer, topic)
<1> USE DEF Gives, ConfigLine, Parsed, nil
<1>1. Gives(C(key, address, dns, nil), Section("Interface"), C(key, address, dns, "Interface"))
    BY Zenon DEF Section, SectionLine, WithPeer
<1>2. v[1] # Garbled => Gives(C(key, address, dns, "Interface"), Attrib("PrivateKey", v),
                              C(v, address, dns, "Interface"))
    BY Zenon DEF Attrib, InterfaceAttrib
<1>3. Gives(C(key, address, dns, "Interface"), Attrib("Address", v), C(key, v, dns, "Interface"))
    BY Zenon DEF Attrib, InterfaceAttrib
<1>4. Gives(C(key, address, dns, "Interface"), Attrib("DNS", v), C(key, address, v, "Interface"))
    BY Zenon DEF Attrib, InterfaceAttrib
<1>5. Gives(C(key, address, dns, "Interface"), Section("Peer"), C(key, address, dns, "Peer"))
    BY Zenon DEF Section, SectionLine, WithPeer
<1> QED BY <1>1, <1>2, <1>3, <1>4, <1>5, Zenon

\* A value of one part.
LEMMA ParseOne ==
    ASSUME NEW key, NEW x
    PROVE  /\ Parse(key, <<x>>) = <<Converted(key, x)>>
           /\ Parses(key, <<x>>) <=> Converts(key, x)
<1> DEFINE v == <<x>>
<1>1. DOMAIN v = {1} /\ v[1] = x
    OBVIOUS
<1>2. \A y : [i \in {1} |-> y] = <<y>>
    OBVIOUS
<1> HIDE DEF v
<1>3. Parse(key, v) = [i \in {1} |-> Converted(key, x)]
    BY <1>1, Zenon DEF Parse
<1>4. Parse(key, v) = <<Converted(key, x)>>
    BY <1>2, <1>3, Zenon
<1>5. Parses(key, v) <=> Converts(key, x)
    BY <1>1, Zenon DEF Parses
<1> QED BY <1>4, <1>5, Zenon DEF v

\* The lines of a peer, with values that parse.
LEMMA PeerLinesGive ==
    ASSUME NEW key, NEW address, NEW dns, NEW hosts, NEW route \in BOOLEAN, NEW peers,
           NEW k, NEW ips, NEW e, NEW t, NEW name, NEW v, Parses(name, v), NEW w, w = Parse(name, v)
    PROVE  LET C(h, r, peer) == Parsed(key, address, dns, h, r, peers, peer, "Peer")
               c == C(hosts, route, Peer(k, ips, e, t))
           IN  /\ name = "PublicKey" =>
                     Gives(c, Attrib(name, v), C(hosts, route, Peer(w, ips, e, t)))
               /\ name = "Endpoint" =>
                     Gives(c, Attrib(name, v), C(Append(hosts, w[1].ip), route, Peer(k, ips, w, t)))
               /\ name = "PersistentKeepalive" =>
                     Gives(c, Attrib(name, v), C(hosts, route, Peer(k, ips, e, w)))
               /\ name = "AllowedIPs" =>
                     Gives(c, Attrib(name, v),
                           C(hosts, route \/ DefaultRoute \in Range(v), Peer(k, ips \o w, e, t)))
<1> DEFINE C(h, r, peer) == Parsed(key, address, dns, h, r, peers, peer, "Peer")
           p == Peer(k, ips, e, t)
           c == C(hosts, route, p)
<1>1. ASSUME name # "" PROVE ConfigLine(c, Attrib(name, v)) = PeerAttrib(c, name, v)
  <2> HIDE DEF p
  <2> QED BY <1>1, Zenon DEF ConfigLine, Parsed, Attrib, nil
<1>2. name \in {"PublicKey", "Endpoint", "PersistentKeepalive", "AllowedIPs"} => name # ""
    BY Zenon
<1>3. name = "PublicKey" => PeerAttrib(c, name, v) = C(hosts, route, Peer(w, ips, e, t))
    BY Zenon DEF PeerAttrib, Parsed, Peer
<1>4. name = "Endpoint" =>
          PeerAttrib(c, name, v) = C(Append(hosts, w[1].ip), route, Peer(k, ips, w, t))
    BY Zenon DEF PeerAttrib, Parsed, Peer
<1>5. name = "PersistentKeepalive" =>
          PeerAttrib(c, name, v) = C(hosts, route, Peer(k, ips, e, w))
    BY Zenon DEF PeerAttrib, Parsed, Peer
<1>6. name = "AllowedIPs" =>
          PeerAttrib(c, name, v)
              = C(hosts, route \/ DefaultRoute \in Range(v), Peer(k, ips \o w, e, t))
    BY Zenon DEF PeerAttrib, Parsed, Peer
<1> QED BY <1>1, <1>2, <1>3, <1>4, <1>5, <1>6, Zenon DEF Gives

\* The configuration has what was answered, converted.
Has(a, c) ==
    /\ c.PrivateKey = <<a.privateKey>> /\ c.tunAddress = <<Network(a.Address)>>
    /\ c.tunDNS = IF a.DNS = nil THEN <<>> ELSE <<a.DNS>>
    /\ c.peerAddresses = <<Addresses[a.PeerEndpoint.host]>>
    /\ c.isDefaultRoute <=> DefaultRoute \in Range(a.AllowedSubnets)
    /\ c.Peers = <<[PublicKey |-> <<a.PeerPublicKey>>,
                    AllowedIPs |-> [i \in DOMAIN a.AllowedSubnets |-> ParseCIDR(a.AllowedSubnets[i])],
                    Endpoint |-> <<[ip |-> Addresses[a.PeerEndpoint.host],
                                    port |-> a.PeerEndpoint.port]>>,
                    PersistentKeepaliveInterval |-> <<[nanoseconds |-> a.KeepAlivePing]>>]>>

IsAnswer(a, c) ==
    /\ c.err <=> a.PeerEndpoint.host \notin DOMAIN Addresses
    /\ ~c.err => Has(a, c)

\* A host that does not resolve is an error.
LEMMA HostUnknown ==
    ASSUME NEW a \in Answers, ~a.PeerEndpoint.ipv6, a.PeerEndpoint.host \notin DOMAIN Addresses
    PROVE  newWireguardConfigFromTarget(Data(a)).err
<1> DEFINE text == Data(a)
           c == newWireguardConfigFromTarget(text)
           e == Endpoint(a.PeerEndpoint)
<1>1. PICK j \in {3, 4}, N \in Nat : DataLines(a, text, j, N)
    BY DataIs, Zenon
<1>2. IsDescribed(text, c)
    BY DataIsText, ParserIsRight, Zenon
<1> HIDE DEF text, c
<1>3. /\ DOMAIN text = 1 .. N /\ j + 1 \in 1 .. N /\ j + 2 \in 1 .. N /\ j + 3 \in 1 .. N
      /\ j + 1 = (j + 2) - 1 /\ j + 2 = (j + 3) - 1 /\ j + 1 # 0
    BY <1>1 DEF DataLines
<1>4. /\ text[j + 1].bracket = "Peer" /\ text[j + 2].bracket = nil /\ "Peer" # nil
      /\ text[j + 3].bracket = nil /\ text[j + 3].key = "Endpoint" /\ "Endpoint" # ""
      /\ text[j + 3].value = <<e>>
  <2> HIDE DEF e
  <2>1. /\ text[j + 1] = Section("Peer") /\ text[j + 2] = Attrib("PublicKey", <<a.PeerPublicKey>>)
        /\ text[j + 3] = EndpointLine(a.PeerEndpoint)
    BY <1>1, Zenon DEF DataLines
  <2>2. /\ EndpointLine(a.PeerEndpoint).bracket = nil /\ EndpointLine(a.PeerEndpoint).key = "Endpoint"
        /\ EndpointLine(a.PeerEndpoint).value = <<e>>
    BY Zenon DEF EndpointLine, e
  <2>3. /\ Section("Peer").bracket = "Peer"
        /\ Attrib("PublicKey", <<a.PeerPublicKey>>).bracket = nil
    BY Zenon DEF Section, Attrib
  <2>4. "Peer" # nil /\ "Endpoint" # ""
    BY DEF nil
  <2> QED BY <2>1, <2>2, <2>3, <2>4, Zenon
<1>5. SectionOf(text, j + 3) = j + 1
  <2>1. \A n \in 1 .. N : SectionOf(text, n) = IF text[n].bracket # nil THEN n ELSE SectionOf(text, n - 1)
    BY SectionIs, Zenon
  <2> QED BY <1>3, <1>4, <2>1
<1>6. ~Parses("Endpoint", <<e>>)
  <2>1. e.host = a.PeerEndpoint.host
    BY DEF Endpoint
  <2> HIDE DEF e
  <2>2. ~Converts("Endpoint", e)
    BY <2>1, Zenon DEF Converts
  <2> QED BY <2>2, ParseOne, Zenon
<1> HIDE DEF e
<1>7. Unsupported(text, j + 3)
    BY <1>3, <1>4, <1>5, <1>6, Zenon DEF Unsupported
<1>8. c.err
    BY <1>2, <1>3, <1>7, Zenon DEF IsDescribed
<1> QED BY <1>8, Zenon DEF c, text

\* With a host that resolves all of the answer is in the configuration.
LEMMA HostKnown ==
    ASSUME NEW a \in Answers, ~a.PeerEndpoint.ipv6, a.PeerEndpoint.host \in DOMAIN Addresses
    PROVE  /\ ~newWireguardConfigFromTarget(Data(a)).err
           /\ Has(a, newWireguardConfigFromTarget(Data(a)))
<1> DEFINE text == Data(a)
           key == <<a.privateKey>>
           net == <<Network(a.Address)>>
           name == <<a.DNS>>
           dns == IF a.DNS = nil THEN <<>> ELSE name
           pk == <<a.PeerPublicKey>>
           end == <<Endpoint(a.PeerEndpoint)>>
           e == <<ResolveUDPAddr(Endpoint(a.PeerEndpoint))>>
           host == Addresses[a.PeerEndpoint.host]
           ping == <<a.KeepAlivePing>>
           t == <<Duration(a.KeepAlivePing)>>
           xs == a.AllowedSubnets
           nets == [i \in DOMAIN xs |-> ParseCIDR(xs[i])]
           C(d, h, r, peer, topic) == Parsed(key, net, d, h, r, <<>>, peer, topic)
<1>1. PICK j \in {3, 4}, N \in Nat : DataLines(a, text, j, N)
    BY DataIs, Zenon
<1>2. /\ key[1] # Garbled
      /\ Parses("PublicKey", pk) /\ pk = Parse("PublicKey", pk)
      /\ Parses("Endpoint", end) /\ e = Parse("Endpoint", end)
      /\ Parses("PersistentKeepalive", ping) /\ t = Parse("PersistentKeepalive", ping)
      /\ Parses("AllowedIPs", xs) /\ nets = Parse("AllowedIPs", xs)
  <2>1. key[1] # Garbled
    BY AnswersAssumption
  <2>2. Parses("PublicKey", pk) /\ pk = Parse("PublicKey", pk)
    <3>1. Converts("PublicKey", a.PeerPublicKey)
        BY AnswersAssumption, "PublicKey" # "Endpoint", Zenon DEF Converts
    <3>2. Converted("PublicKey", a.PeerPublicKey) = a.PeerPublicKey
        BY Zenon DEF Converted
    <3> QED BY <3>1, <3>2, ParseOne, Zenon
  <2>3. Parses("Endpoint", end) /\ e = Parse("Endpoint", end)
    <3> DEFINE x == Endpoint(a.PeerEndpoint)
    <3>1. x # Garbled /\ x.host = a.PeerEndpoint.host
        BY AnswersAssumption DEF Endpoint
    <3> HIDE DEF x
    <3>2. Converts("Endpoint", x)
        BY <3>1, Zenon DEF Converts
    <3>3. Converted("Endpoint", x) = ResolveUDPAddr(x)
        BY Zenon DEF Converted
    <3> QED BY <3>2, <3>3, ParseOne, Zenon DEF x
  <2>4. Parses("PersistentKeepalive", ping) /\ t = Parse("PersistentKeepalive", ping)
    <3>1. Converts("PersistentKeepalive", a.KeepAlivePing)
        BY AnswersAssumption, "PersistentKeepalive" # "Endpoint", Zenon DEF Converts
    <3>2. Converted("PersistentKeepalive", a.KeepAlivePing) = Duration(a.KeepAlivePing)
        BY Zenon DEF Converted
    <3> QED BY <3>1, <3>2, ParseOne, Zenon
  <2>5. Parses("AllowedIPs", xs) /\ nets = Parse("AllowedIPs", xs)
    <3>1. \A i \in DOMAIN xs : xs[i] # Garbled
        BY AnswersAssumption, Zenon DEF Range
    <3>2. "AllowedIPs" # "Endpoint"
        OBVIOUS
    <3>3. Parses("AllowedIPs", xs)
        BY <3>1, <3>2, Zenon DEF Parses, Converts
    <3>4. \A x : Converted("AllowedIPs", x) = ParseCIDR(x)
        BY Zenon DEF Converted
    <3> QED BY <3>3, <3>4, Zenon DEF Parse
  <2> QED BY <2>1, <2>2, <2>3, <2>4, <2>5, Zenon
<1>3. nets \in Seq(Range(nets)) /\ (xs = <<>> => nets = <<>>)
  <2>1. xs \in Seq(Range(xs))
    BY AnswersAssumption, Zenon
  <2> HIDE DEF xs
  <2>2. Len(xs) \in Nat /\ DOMAIN xs = 1 .. Len(xs)
    BY <2>1
  <2>3. nets \in [1 .. Len(xs) -> Range(nets)]
    BY <2>2, Zenon DEF Range
  <2>4. xs = <<>> => nets = <<>>
    BY <2>2
  <2> HIDE DEF nets
  <2> QED BY <2>2, <2>3, <2>4
<1>4. EndpointLine(a.PeerEndpoint) = Attrib("Endpoint", end)
    BY DEF EndpointLine, Attrib
<1>5. e[1].ip = host
    BY DEF ResolveUDPAddr, Endpoint
<1> HIDE DEF text
<1>6. PICK f : LineByLine(f, text, N) /\ Scanned(ConfigLine, NewConfig, text) = f[N]
  <2>1. Len(text) = N
    BY <1>1, Zenon DEF DataLines
  <2> QED BY <2>1, ScannedIs, Zenon
<1>7. ASSUME NEW n \in 1 .. N, NEW m, m = n - 1, NEW line, text[n] = line
      PROVE  f[n] = ConfigLine(f[m], line)
    BY <1>6, <1>7, Zenon DEF LineByLine
<1>8. /\ 1 \in 1 .. N /\ 0 = 1 - 1 /\ 2 \in 1 .. N /\ 1 = 2 - 1 /\ 3 \in 1 .. N /\ 2 = 3 - 1
      /\ 4 \in 1 .. N /\ 3 = 4 - 1
      /\ j + 1 \in 1 .. N /\ j = (j + 1) - 1 /\ j + 2 \in 1 .. N /\ j + 1 = (j + 2) - 1
      /\ j + 3 \in 1 .. N /\ j + 2 = (j + 3) - 1 /\ j + 4 \in 1 .. N /\ j + 3 = (j + 4) - 1
      /\ N = j + 5 => j + 5 \in 1 .. N /\ j + 4 = (j + 5) - 1
  <2>1. N \in {j + 4, j + 5}
    BY <1>1, Zenon DEF DataLines
  <2> QED BY <2>1
<1> DEFINE none == Peer(<<>>, <<>>, <<>>, <<>>)
           peer == Peer(pk, nets, e, t)
<1>9. f[0] = Parsed(<<>>, <<>>, <<>>, <<>>, FALSE, <<>>, none, nil)
  <2>1. NewConfig = Parsed(<<>>, <<>>, <<>>, <<>>, FALSE, <<>>, none, nil)
    BY Zenon DEF NewConfig, PeerConfig, Parsed, Peer
  <2> QED BY <1>6, <2>1, Zenon DEF LineByLine
<1> HIDE DEF key, net, name, pk, end, e, host, ping, t, xs, nets
<1>10. f[3] = C(<<>>, <<>>, FALSE, none, "Interface")
  <2> HIDE DEF none
  <2>1. f[1] = Parsed(<<>>, <<>>, <<>>, <<>>, FALSE, <<>>, none, "Interface")
    <3>1. f[1] = ConfigLine(f[0], Section("Interface"))
        BY <1>1, <1>7, <1>8 DEF DataLines
    <3>2. Gives(Parsed(<<>>, <<>>, <<>>, <<>>, FALSE, <<>>, none, nil), Section("Interface"),
              Parsed(<<>>, <<>>, <<>>, <<>>, FALSE, <<>>, none, "Interface"))
        BY InterfaceLines, Zenon
    <3> QED BY <1>9, <3>1, <3>2, Zenon DEF Gives
  <2>2. f[2] = Parsed(key, <<>>, <<>>, <<>>, FALSE, <<>>, none, "Interface")
    <3>1. f[2] = ConfigLine(f[1], Attrib("PrivateKey", key))
        BY <1>1, <1>7, <1>8 DEF DataLines, key
    <3>2. Gives(Parsed(<<>>, <<>>, <<>>, <<>>, FALSE, <<>>, none, "Interface"),
                Attrib("PrivateKey", key),
                Parsed(key, <<>>, <<>>, <<>>, FALSE, <<>>, none, "Interface"))
        BY <1>2, InterfaceLines, Zenon
    <3> QED BY <2>1, <3>1, <3>2, Zenon DEF Gives
  <2>3. f[3] = ConfigLine(f[2], Attrib("Address", net))
    BY <1>1, <1>7, <1>8 DEF DataLines, net
  <2>4. Gives(Parsed(key, <<>>, <<>>, <<>>, FALSE, <<>>, none, "Interface"), Attrib("Address", net),
          C(<<>>, <<>>, FALSE, none, "Interface"))
    BY InterfaceLines, Zenon
  <2> QED BY <2>2, <2>3, <2>4, Zenon DEF Gives
<1>11. f[j] = C(dns, <<>>, FALSE, none, "Interface")
  <2> HIDE DEF none
  <2>1. CASE a.DNS = nil
    <3>1. j = 3
        BY <1>1, <2>1, Zenon DEF DataLines
    <3> QED BY <1>10, <2>1, <3>1, Zenon
  <2>2. CASE a.DNS # nil
    <3>1. j = 4 /\ f[4] = ConfigLine(f[3], Attrib("DNS", name))
        BY <1>1, <1>7, <1>8, <2>2 DEF DataLines, name
    <3>2. f[4] = C(name, <<>>, FALSE, none, "Interface")
      <4>1. Gives(C(<<>>, <<>>, FALSE, none, "Interface"), Attrib("DNS", name),
              C(name, <<>>, FALSE, none, "Interface"))
        BY InterfaceLines, Zenon
      <4> QED BY <1>10, <3>1, <4>1, Zenon DEF Gives
    <3> QED BY <2>2, <3>1, <3>2, Zenon
  <2> QED BY <2>1, <2>2, Zenon
<1> HIDE DEF dns
<1>12. f[j + 1] = C(dns, <<>>, FALSE, none, "Peer")
  <2> HIDE DEF none
  <2>1. f[j + 1] = ConfigLine(f[j], Section("Peer"))
    BY <1>1, <1>7, <1>8 DEF DataLines
  <2>2. Gives(C(dns, <<>>, FALSE, none, "Interface"), Section("Peer"),
          C(dns, <<>>, FALSE, none, "Peer"))
    BY InterfaceLines, Zenon
  <2> QED BY <1>11, <2>1, <2>2, Zenon DEF Gives
<1>13. f[j + 2] = C(dns, <<>>, FALSE, Peer(pk, <<>>, <<>>, <<>>), "Peer")
  <2>1. f[j + 2] = ConfigLine(f[j + 1], Attrib("PublicKey", pk))
    BY <1>1, <1>7, <1>8 DEF DataLines, pk
  <2>2. Gives(C(dns, <<>>, FALSE, none, "Peer"), Attrib("PublicKey", pk),
          C(dns, <<>>, FALSE, Peer(pk, <<>>, <<>>, <<>>), "Peer"))
    BY <1>2, PeerLinesGive, Zenon
  <2> QED BY <1>12, <2>1, <2>2, Zenon DEF Gives
<1>14. f[j + 3] = C(dns, <<host>>, FALSE, Peer(pk, <<>>, e, <<>>), "Peer")
  <2>1. f[j + 3] = ConfigLine(f[j + 2], Attrib("Endpoint", end))
    BY <1>1, <1>4, <1>7, <1>8 DEF DataLines
  <2>2. f[j + 3] = C(dns, Append(<<>>, e[1].ip), FALSE, Peer(pk, <<>>, e, <<>>), "Peer")
    <3>1. Gives(C(dns, <<>>, FALSE, Peer(pk, <<>>, <<>>, <<>>), "Peer"), Attrib("Endpoint", end),
              C(dns, Append(<<>>, e[1].ip), FALSE, Peer(pk, <<>>, e, <<>>), "Peer"))
        BY <1>2, PeerLinesGive, Zenon
    <3> QED BY <1>13, <2>1, <3>1, Zenon DEF Gives
  <2>3. Append(<<>>, host) = <<host>>
    OBVIOUS
  <2> QED BY <1>5, <2>2, <2>3, ZenonT(30)
<1>15. f[j + 4] = C(dns, <<host>>, FALSE, Peer(pk, <<>>, e, t), "Peer")
  <2>1. f[j + 4] = ConfigLine(f[j + 3], Attrib("PersistentKeepalive", ping))
    BY <1>1, <1>7, <1>8 DEF DataLines, ping
  <2>2. Gives(C(dns, <<host>>, FALSE, Peer(pk, <<>>, e, <<>>), "Peer"),
              Attrib("PersistentKeepalive", ping),
              C(dns, <<host>>, FALSE, Peer(pk, <<>>, e, t), "Peer"))
    BY <1>2, PeerLinesGive, Zenon
  <2> QED BY <1>14, <2>1, <2>2, Zenon DEF Gives
<1>16. f[N] = C(dns, <<host>>, DefaultRoute \in Range(xs), peer, "Peer")
  <2>1. CASE xs = <<>>
    <3>1. N = j + 4
        BY <1>1, <2>1, Zenon DEF DataLines, xs
    <3>2. (DefaultRoute \in Range(<<>>)) = FALSE
        BY DEF Range
    <3> QED BY <1>3, <1>15, <2>1, <3>1, <3>2, Zenon
  <2>2. CASE xs # <<>>
    <3>1. N = j + 5
        BY <1>1, <2>2, Zenon DEF DataLines, xs
    <3>2. f[j + 5] = ConfigLine(f[j + 4], Attrib("AllowedIPs", xs))
        BY <1>1, <1>7, <1>8, <2>2, <3>1 DEF DataLines, xs
    <3>3. f[j + 5] = C(dns, <<host>>, FALSE \/ DefaultRoute \in Range(xs),
                       Peer(pk, <<>> \o nets, e, t), "Peer")
      <4>1. Gives(C(dns, <<host>>, FALSE, Peer(pk, <<>>, e, t), "Peer"), Attrib("AllowedIPs", xs),
              C(dns, <<host>>, FALSE \/ DefaultRoute \in Range(xs),
                Peer(pk, <<>> \o nets, e, t), "Peer"))
        <5>1. Parses("AllowedIPs", xs) /\ nets = Parse("AllowedIPs", xs) /\ FALSE \in BOOLEAN
            BY <1>2, Zenon
        <5> HIDE DEF peer, none
        <5> QED BY <5>1, PeerLinesGive, ZenonT(30)
      <4> QED BY <1>15, <3>2, <4>1, Zenon DEF Gives
    <3>4. <<>> \o nets = nets
      <4>1. ASSUME NEW S, NEW x \in Seq(S) PROVE <<>> \o x = x
        OBVIOUS
      <4> QED BY <1>3, <4>1, Zenon
    <3>5. (FALSE \/ DefaultRoute \in Range(xs)) = (DefaultRoute \in Range(xs))
        OBVIOUS
    <3> QED BY <3>1, <3>3, <3>4, <3>5, Zenon
  <2> QED BY <2>1, <2>2, Zenon
<1> DEFINE route == DefaultRoute \in Range(xs)
           w == Parsed(key, net, dns, <<host>>, route, <<peer>>, PeerConfig, "Peer")
<1>17. WithPeer(C(dns, <<host>>, route, peer, "Peer")) = w
  <2> HIDE DEF peer, route
  <2>1. Append(<<>>, peer) = <<peer>>
    OBVIOUS
  <2> QED BY <2>1, Zenon DEF WithPeer, Parsed
<1>18. newWireguardConfigFromTarget(text) = w
    BY <1>6, <1>16, <1>17, Zenon DEF newWireguardConfigFromTarget
<1>19. ~w.err /\ Has(a, w)
  <2>1. /\ ~w.err /\ w.PrivateKey = key /\ w.tunAddress = net /\ w.tunDNS = dns
        /\ w.peerAddresses = <<host>> /\ w.Peers = <<peer>>
    BY Zenon DEF Parsed
  <2>2. w.isDefaultRoute <=> DefaultRoute \in Range(xs)
    BY Zenon DEF Parsed
  <2>3. e = <<[ip |-> host, port |-> a.PeerEndpoint.port]>>
    BY DEF e, host, ResolveUDPAddr, Endpoint
  <2>4. t = <<[nanoseconds |-> a.KeepAlivePing]>>
    BY Zenon DEF t, Duration
  <2> HIDE DEF w
  <2> QED BY <2>1, <2>2, <2>3, <2>4, Zenon DEF Has, Peer, key, net, name, dns, pk, host, xs, nets
<1> QED BY <1>18, <1>19, Zenon DEF text

\* What a node answers survives being written as a text and parsed again, unless
\* its host does not resolve.
THEOREM AnswerSurvives ==
    ASSUME NEW a \in Answers, ~a.PeerEndpoint.ipv6
    PROVE  IsAnswer(a, newWireguardConfigFromTarget(Data(a)))
    BY HostKnown, HostUnknown, Zenon DEF IsAnswer

-----------------------------------------------------------------------------
(* The configuration in every state.                                        *)

\* The contents are a text, that of the answer if there is one, and the
\* configuration was parsed from it.
ContentsInv ==
    /\ IsText(data.text)
    /\ data.answer # <<>> =>
          /\ data.VPNType = "wireguard"
          /\ \E a \in Answers : data.answer = <<a>> /\ data.text = Data(a)
    /\ config # <<>> /\ data.VPNType = "wireguard" =>
          config = <<newWireguardConfigFromTarget(data.text)>>

\* Every step keeps it.
LEMMA ContentsStep == ContentsInv /\ [Next]_vars => ContentsInv'
<1> SUFFICES ASSUME ContentsInv, [Next]_vars PROVE ContentsInv'
    OBVIOUS
<1>1. ASSUME NEW kind, NEW type, NEW text, IsText(text), config' = <<>>,
             data' = ConfigData(kind, <<>>, type, text)
      PROVE  ContentsInv'
  <2>1. data'.text = text /\ data'.answer = <<>>
    BY <1>1 DEF ConfigData
  <2> QED BY <1>1, <2>1, Zenon DEF ContentsInv
<1>2. IsText(<<>>)
    BY DEF IsText
<1>3. ASSUME UNCHANGED <<data, config>> PROVE ContentsInv'
    BY <1>3, Zenon DEF ContentsInv
<1>4. CASE NewVPNConfigData
  <2>1. config' = <<>> /\ UNCHANGED config
    BY <1>4, Zenon DEF NewVPNConfigData
  <2>2. ASSUME NEW a \in Answers, data' = ConfigData("dynamic", <<a>>, "wireguard", Data(a))
        PROVE  ContentsInv'
    <3>1. data'.text = Data(a) /\ data'.answer = <<a>> /\ data'.VPNType = "wireguard"
        BY <2>2 DEF ConfigData
    <3>2. IsText(Data(a))
        BY DataIsText, Zenon
    <3> QED BY <2>1, <3>1, <3>2, Zenon DEF ContentsInv
  <2>3. ASSUME newStaticConfigData PROVE ContentsInv'
    <3>1. ASSUME NEW text \in Texts, data' = ConfigData("static", <<>>, "wireguard", text)
          PROVE  ContentsInv'
        BY <1>1, <2>1, <3>1, TextsAssumption, Zenon
    <3>2. ASSUME data' = ConfigData("static", <<>>, "openvpn", <<>>) PROVE ContentsInv'
        BY <1>1, <1>2, <2>1, <3>2, Zenon
    <3>3. ASSUME UNCHANGED data PROVE ContentsInv'
        BY <1>3, <2>1, <3>3, Zenon
    <3> QED BY <2>3, <3>1, <3>2, <3>3, Zenon DEF newStaticConfigData
  <2>4. ASSUME UNCHANGED data PROVE ContentsInv'
    BY <1>3, <2>1, <2>4, Zenon
  <2> QED BY <1>4, <2>2, <2>3, <2>4, Zenon DEF NewVPNConfigData
<1>5. CASE NewConfigFromTarget
  <2>1. /\ UNCHANGED data
        /\ data.VPNType = "wireguard" => config' = <<newWireguardConfigFromTarget(data.text)>>
    BY <1>5, Zenon DEF NewConfigFromTarget
  <2> QED BY <2>1, Zenon DEF ContentsInv
<1>6. CASE Delete
  <2>1. config' = <<>> /\ data' = ConfigData("none", <<>>, nil, <<>>)
    BY <1>6, Zenon DEF Delete, NoData
  <2> QED BY <1>1, <1>2, <2>1, Zenon
<1>7. CASE NewClient
  <2>1. config' = <<>> /\ data' = ConfigData(data.kind, <<>>, data.VPNType, <<>>)
    BY <1>7, Zenon DEF NewClient
  <2> QED BY <1>1, <1>2, <2>1, Zenon
<1>8. CASE Connect \/ Install \/ NewCtrlClient \/ StartTimer \/ Disconnect \/ StopTimer \/ Uninstall
  <2>1. UNCHANGED configVars
    BY <1>8, Zenon DEF Connect, Install, NewCtrlClient, StartTimer, Disconnect, StopTimer, Uninstall
  <2> QED BY <1>3, <2>1, Zenon DEF configVars
<1>9. CASE \E t \in Timers : ReadFails(t) \/ Read(t) \/ ReadOfNil(t) \/ Record(t)
  <2>1. UNCHANGED configVars
    BY <1>9, Zenon DEF ReadFails, Read, ReadOfNil, Record, unchangedByMetrics
  <2> QED BY <1>3, <2>1, Zenon DEF configVars
<1>10. CASE TunnelGone \/ \E d \in Directions : Collect(d) \/ Traffic(d)
  <2>1. UNCHANGED configVars
    BY <1>10, Zenon DEF TunnelGone, Collect, Traffic, unchangedByMetrics
  <2> QED BY <1>3, <2>1, Zenon DEF configVars
<1>11. CASE UNCHANGED vars
    BY <1>3, <1>11, Zenon DEF vars, configVars
<1> QED BY <1>4, <1>5, <1>6, <1>7, <1>8, <1>9, <1>10, <1>11, Zenon DEF Next

\* It is an invariant.
LEMMA ContentsInvariance == Spec => []ContentsInv
<1>1. Init => ContentsInv
  <2> SUFFICES ASSUME Init PROVE ContentsInv
    OBVIOUS
  <2>1. config = <<>> /\ data.text = <<>> /\ data.answer = <<>>
    BY DEF Init, NoData, ConfigData
  <2>2. IsText(<<>>)
    BY DEF IsText
  <2> QED BY <2>1, <2>2, Zenon DEF ContentsInv
<1> QED BY <1>1, ContentsStep, PTL DEF Spec

\* Whatever is downloaded, answered or deleted meanwhile, NewConfigFromTarget makes
\* of a text the peers its sections describe, the last one included and none with
\* attributes of another, and an error if and only if a line is not supported.
THEOREM ParsedAsWritten == Spec => []ConfigIsTheText
<1>1. ContentsInv => ConfigIsTheText
  <2> SUFFICES ASSUME ContentsInv, config # <<>>, data.VPNType = "wireguard"
               PROVE  IsDescribed(data.text, config[1])
    BY Zenon DEF ConfigIsTheText, IsDescribed
  <2>1. IsText(data.text) /\ config = <<newWireguardConfigFromTarget(data.text)>>
    BY Zenon DEF ContentsInv
  <2>2. config[1] = newWireguardConfigFromTarget(data.text)
    BY <2>1
  <2> QED BY <2>1, <2>2, ParserIsRight, Zenon
<1> QED BY <1>1, ContentsInvariance, PTL

\* What a node answered comes through being written as a text by Data and parsed
\* by NewConfigFromTarget: all its subnets, without their host bits, and the
\* endpoint resolved, or an error when it does not resolve.
THEOREM AnswerKept == Spec => []ConfigIsTheAnswer
<1>1. ContentsInv => ConfigIsTheAnswer
  <2> SUFFICES ASSUME ContentsInv, config # <<>>, data.answer # <<>>,
                      ~data.answer[1].PeerEndpoint.ipv6
               PROVE  IsAnswer(data.answer[1], config[1])
    BY Zenon DEF ConfigIsTheAnswer, IsAnswer, Has
  <2>1. /\ config = <<newWireguardConfigFromTarget(data.text)>>
        /\ \E a \in Answers : data.answer = <<a>> /\ data.text = Data(a)
    BY Zenon DEF ContentsInv
  <2>2. PICK a \in Answers : data.answer = <<a>> /\ data.text = Data(a)
    BY <2>1, Zenon
  <2>3. config[1] = newWireguardConfigFromTarget(Data(a)) /\ data.answer[1] = a
    BY <2>1, <2>2
  <2>4. IsAnswer(a, newWireguardConfigFromTarget(Data(a)))
    <3>1. ~a.PeerEndpoint.ipv6
        BY <2>3, Zenon
    <3> QED BY <3>1, AnswerSurvives, Zenon
  <2> QED BY <2>3, <2>4, Zenon
<1> QED BY <1>1, ContentsInvariance, PTL
=============================================================================
