------------------------ MODULE TailscaleDaemonProofs ------------------------
(***************************************************************************)
(* Proofs about TailscaleDaemon, for any names, peers, devices and answers *)
(* of the device, and about the parser of that answer.                     *)
(***************************************************************************)
EXTENDS TailscaleDaemon, LoopTheorems

-----------------------------------------------------------------------------
(* The inductive invariant.                                                *)

\* The types that TypeOK leaves out.
MoreTypes ==
    /\ server \in {"none", "running", "returned", "done"}
    /\ stop \in {"idle", "timer", "cancel", "wait", "done"}
    /\ failed \in BOOLEAN /\ LocalBackend \in BOOLEAN /\ timer \in BOOLEAN
    /\ "at" \in DOMAIN status /\ status = [f \in DOMAIN status |-> status[f]]

\* What Start has done by the time it is at each of its steps.  The server's
\* goroutine may have overwritten err; a call that failed is then taken for one
\* that did not, and Start ends in a panic rather than in a wrong result.
StartInv ==
    /\ pc = "call" => called \in DOMAIN AfterCall
    /\ pc = "check" => called # "none"
    /\ pc \in {"idle", "listen"} => server = "none"
    /\ err # nil => failed \/ server \in {"returned", "done"}
    /\ pc \in {"idle", "listen", "tun", "router", "dns", "newEngine"} => ~failed
    /\ pc = "call" => ~failed \/ panicked \/ called = "newStore"
    /\ pc = "netstack" => ~failed \/ panicked
    /\ pc \in {"check", "call", "netstack"} /\ ~failed => setter # "none"
    /\ pc = "check" /\ called = "NewLocalBackend" /\ ~failed => LocalBackend
    /\ pc = "netstack" /\ ~failed => LocalBackend

\* How far a Stop that was called after Start had returned is.
StopInv ==
    /\ calm => pc \in {"ok", "error"}
    /\ stop \in {"cancel", "wait", "done"} /\ calm => ~timer
    /\ stop = "done" /\ calm => server \in {"none", "done"}

IInv == TypeOK /\ MoreTypes /\ StartInv /\ StartIsTruthful /\ StopInv

-----------------------------------------------------------------------------
(* The steps of Start.                                                      *)

\* What no step of Start changes.
LEMMA StartFrame ==
    ASSUME IInv, unchangedByStart,
           pc' \in {"idle", "listen", "tun", "router", "dns", "newEngine", "call", "check",
                    "netstack", "ok", "error"},
           called' \in DOMAIN AfterCall \cup {"none", "NewLocalBackend"},
           attempt' \in DOMAIN tunname,
           open' \subseteq {"Tun", "Router", "DNS"},
           open' # {} => pc' \in {"router", "dns", "newEngine"},
           err' \in {nil, "error"},
           exit' = IF server' \in {"running", "returned"} THEN 1 ELSE 0,
           server' \in {"none", "running", "returned", "done"},
           failed' \in BOOLEAN, LocalBackend' \in BOOLEAN, timer' \in BOOLEAN
    PROVE  TypeOK' /\ MoreTypes'
<1>1. UNCHANGED <<mx, check, ping, stop, status>>
    BY Zenon DEF unchangedByStart, stopVars
<1>2. TypeOK'
    BY <1>1, ZenonT(30) DEF IInv, TypeOK
<1>3. MoreTypes'
    BY <1>1, ZenonT(30) DEF IInv, MoreTypes
<1> QED BY <1>2, <1>3

\* A Stop that was called after Start had returned is not met by a step of it.
LEMMA StopFrame ==
    ASSUME IInv, unchangedByStart, pc \notin {"ok", "error"}
    PROVE  StopInv'
    BY Zenon DEF IInv, StopInv, unchangedByStart, stopVars

\* The names are numbered from 1 on, and there is a next one before the last.
LEMMA Names ==
    ASSUME NEW i \in DOMAIN tunname
    PROVE  1 \in DOMAIN tunname /\ (i < Len(tunname) => i + 1 \in DOMAIN tunname)
<1>1. Len(tunname) \in Nat \ {0} /\ DOMAIN tunname = 1 .. Len(tunname)
    BY TunnameAssumption
<1> QED BY <1>1

\* A name that is given up, the last one or not.
LEMMA AttemptStep ==
    ASSUME IInv, AttemptFails, pc \in {"tun", "router", "dns", "newEngine"}, unchangedByStart,
           UNCHANGED <<serverVars, LocalBackend, setter, timer, panicked>>
    PROVE  IInv'
<1>1. /\ attempt \in DOMAIN tunname /\ called \in DOMAIN AfterCall \cup {"none", "NewLocalBackend"}
      /\ err \in {nil, "error"} /\ exit = IF server \in {"running", "returned"} THEN 1 ELSE 0
      /\ server \in {"none", "running", "returned", "done"}
      /\ failed \in BOOLEAN /\ LocalBackend \in BOOLEAN /\ timer \in BOOLEAN
    BY Zenon DEF IInv, TypeOK, MoreTypes
<1>2. UNCHANGED <<server, exit, LocalBackend, setter, timer, panicked>> /\ open' = {}
    BY Zenon DEF AttemptFails, serverVars
<1>3. CASE attempt < Len(tunname) /\ attempt' = attempt + 1 /\ pc' = "tun"
           /\ UNCHANGED <<called, err, failed>>
  <2>1. TypeOK' /\ MoreTypes'
    BY <1>1, <1>2, <1>3, Names, StartFrame
  <2>2. StartInv' /\ StartIsTruthful'
    BY <1>2, <1>3 DEF IInv, StartInv, StartIsTruthful
  <2>3. StopInv'
    BY StopFrame
  <2> QED BY <2>1, <2>2, <2>3, Zenon DEF IInv
<1>4. CASE Returned("createEngine", FALSE) /\ UNCHANGED attempt
  <2>1. TypeOK' /\ MoreTypes'
    BY <1>1, <1>2, <1>4, StartFrame DEF Returned, AfterCall
  <2>2. StartInv' /\ StartIsTruthful'
    BY <1>2, <1>4, ZenonT(30) DEF IInv, StartInv, StartIsTruthful, Returned, nil
  <2>3. StopInv'
    BY StopFrame
  <2> QED BY <2>1, <2>2, <2>3, Zenon DEF IInv
<1> QED BY <1>3, <1>4, Zenon DEF AttemptFails

\* What tryEngine opens, on the way to the engine.
LEMMA OpenedStep ==
    ASSUME IInv, NEW what \in SUBSET {"Tun", "Router", "DNS"}, NEW next \in {"router", "dns", "newEngine"},
           Opened(what, next), pc \in {"tun", "router", "dns"}, unchangedByStart,
           UNCHANGED <<serverVars, LocalBackend, setter, timer, panicked>>
    PROVE  IInv'
<1>1. /\ attempt \in DOMAIN tunname /\ called \in DOMAIN AfterCall \cup {"none", "NewLocalBackend"}
      /\ err \in {nil, "error"} /\ exit = IF server \in {"running", "returned"} THEN 1 ELSE 0
      /\ server \in {"none", "running", "returned", "done"} /\ open \subseteq {"Tun", "Router", "DNS"}
      /\ failed \in BOOLEAN /\ LocalBackend \in BOOLEAN /\ timer \in BOOLEAN
    BY Zenon DEF IInv, TypeOK, MoreTypes
<1>2. /\ UNCHANGED <<server, exit, LocalBackend, setter, timer, panicked, called, attempt, err, failed>>
      /\ open' = open \cup what /\ pc' = next
    BY Zenon DEF Opened, serverVars
<1>3. TypeOK' /\ MoreTypes'
    BY <1>1, <1>2, StartFrame
<1>4. StartInv' /\ StartIsTruthful'
    BY <1>2 DEF IInv, StartInv, StartIsTruthful
<1>5. StopInv'
    BY StopFrame
<1> QED BY <1>3, <1>4, <1>5, Zenon DEF IInv

\* Every step of Start keeps the invariant.
LEMMA StartStep ==
    ASSUME IInv, \/ Start \/ Listen \/ OpenTun \/ OpenRouter \/ OpenDNS \/ NewEngine
                 \/ Call \/ CheckErr \/ StartNetstack
    PROVE  IInv'
<1>1. /\ attempt \in DOMAIN tunname /\ called \in DOMAIN AfterCall \cup {"none", "NewLocalBackend"}
      /\ err \in {nil, "error"} /\ exit = IF server \in {"running", "returned"} THEN 1 ELSE 0
      /\ server \in {"none", "running", "returned", "done"} /\ open \subseteq {"Tun", "Router", "DNS"}
      /\ open # {} => pc \in {"router", "dns", "newEngine"}
      /\ failed \in BOOLEAN /\ LocalBackend \in BOOLEAN /\ timer \in BOOLEAN
    BY Zenon DEF IInv, TypeOK, MoreTypes
<1>2. 1 \in DOMAIN tunname
    BY <1>1, Names
<1>3. CASE Start
  <2>1. TypeOK' /\ MoreTypes'
    <3>1. unchangedByStart /\ UNCHANGED <<server, exit, LocalBackend>> /\ pc = "idle"
        BY <1>3, Zenon DEF Start, serverVars
    <3>2. \/ /\ pc' = "error" /\ called' = "none" /\ attempt' = 1 /\ err' = nil /\ failed' = TRUE
             /\ UNCHANGED <<open, timer>>
          \/ pc' = "listen" /\ timer' = TRUE /\ UNCHANGED <<called, attempt, open, err, failed>>
        BY <1>3, Zenon DEF Start, StartFails, StartReturns
    <3> QED BY <1>1, <1>2, <3>1, <3>2, StartFrame, ZenonT(30)
  <2>2. StartInv' /\ StartIsTruthful'
    BY <1>3 DEF IInv, StartInv, StartIsTruthful, Start, StartFails, StartReturns, serverVars, nil
  <2>3. StopInv'
    BY <1>3, StopFrame DEF Start
  <2> QED BY <2>1, <2>2, <2>3, Zenon DEF IInv
<1>4. CASE Listen
  <2>1. TypeOK' /\ MoreTypes'
    <3>1. unchangedByStart /\ UNCHANGED <<LocalBackend, timer>>
        BY <1>4, Zenon DEF Listen
    <3>2. server = "none"
        BY <1>4 DEF Listen, IInv, StartInv
    <3>3. \/ /\ pc' = "error" /\ called' = "none" /\ attempt' = 1 /\ err' = nil /\ failed' = TRUE
             /\ UNCHANGED <<open, server, exit>>
          \/ /\ pc' = "tun" /\ server' = "running" /\ exit' = exit + 1
             /\ UNCHANGED <<called, attempt, open, err, failed>>
        BY <1>4, Zenon DEF Listen, StartFails, StartReturns, serverVars
    <3>4. exit' = IF server' \in {"running", "returned"} THEN 1 ELSE 0
        BY <1>1, <3>2, <3>3
    <3>5. open = {}
        BY <1>1, <1>4 DEF Listen
    <3> QED BY <1>1, <1>2, <3>1, <3>3, <3>4, <3>5, StartFrame, ZenonT(30)
  <2>2. StartInv' /\ StartIsTruthful'
    BY <1>4 DEF IInv, StartInv, StartIsTruthful, Listen, StartFails, StartReturns, serverVars, nil
  <2>3. StopInv'
    BY <1>4, StopFrame DEF Listen
  <2> QED BY <2>1, <2>2, <2>3, Zenon DEF IInv
<1>5. CASE OpenTun
    BY <1>5, AttemptStep, OpenedStep DEF OpenTun
<1>6. CASE OpenRouter
    BY <1>6, AttemptStep, OpenedStep DEF OpenRouter
<1>7. CASE OpenDNS
    BY <1>7, AttemptStep, OpenedStep DEF OpenDNS
<1>8. CASE NewEngine
  <2>1. CASE AttemptFails /\ UNCHANGED setter
    BY <1>8, <2>1, AttemptStep DEF NewEngine
  <2>2. CASE /\ Returned("createEngine", TRUE) /\ open' = {} /\ setter' = "lock" /\ UNCHANGED attempt
    <3>1. TypeOK' /\ MoreTypes'
        BY <1>1, <1>8, <2>2, StartFrame DEF NewEngine, Returned, serverVars, AfterCall
    <3>2. StartInv' /\ StartIsTruthful'
        BY <1>8, <2>2 DEF IInv, StartInv, StartIsTruthful, NewEngine, Returned, serverVars, nil
    <3>3. StopInv'
        BY <1>8, StopFrame DEF NewEngine
    <3> QED BY <3>1, <3>2, <3>3, Zenon DEF IInv
  <2> QED BY <1>8, <2>1, <2>2, Zenon DEF NewEngine
<1>9. CASE Call /\ failed
  <2>1. /\ UNCHANGED <<pc, called, attempt, open, err, failed, LocalBackend, server, exit, setter, timer>>
        /\ unchangedByStart /\ panicked' = TRUE /\ pc = "call"
    BY <1>9, Zenon DEF Call, serverVars
  <2>2. TypeOK' /\ MoreTypes'
    BY <1>1, <2>1, StartFrame, ZenonT(30) DEF IInv, TypeOK
  <2>3. StartInv' /\ StartIsTruthful'
    BY <1>9, <2>1, ZenonT(30) DEF IInv, StartInv, StartIsTruthful
  <2>4. StopInv'
    BY <2>1, StopFrame
  <2> QED BY <2>2, <2>3, <2>4, Zenon DEF IInv
<1>12. CASE Call /\ ~failed
  <2>0. called \in {"createEngine", "newNetstack", "newStore"}
        /\ AfterCall[called] \in {"newNetstack", "newStore", "NewLocalBackend"}
    BY <1>12 DEF Call, IInv, StartInv, AfterCall
  <2>1. PICK ok \in BOOLEAN :
          /\ Returned(AfterCall[called], ok)
          /\ LocalBackend' = (LocalBackend \/ (ok /\ AfterCall[called] = "NewLocalBackend"))
    BY <1>12, Zenon DEF Call
  <2>2. TypeOK' /\ MoreTypes'
    <3>1. called' \in DOMAIN AfterCall \cup {"none", "NewLocalBackend"}
        BY <2>0, <2>1 DEF Returned, AfterCall
    <3> QED BY <1>1, <1>12, <2>1, <3>1, StartFrame DEF Call, Returned, serverVars
  <2>3. StartInv' /\ StartIsTruthful'
    BY <1>12, <2>0, <2>1, ZenonT(30) DEF IInv, StartInv, StartIsTruthful, Call, Returned, serverVars, nil
  <2>4. StopInv'
    BY <1>12, StopFrame DEF Call
  <2> QED BY <2>2, <2>3, <2>4, Zenon DEF IInv
<1>10. CASE CheckErr
  <2>1. TypeOK' /\ MoreTypes'
    BY <1>1, <1>2, <1>10, StartFrame DEF CheckErr, StartReturns, serverVars
  <2>2. StartInv' /\ StartIsTruthful'
    BY <1>1, <1>10 DEF IInv, StartInv, StartIsTruthful, CheckErr, StartReturns, serverVars, nil, AfterCall
  <2>3. StopInv'
    BY <1>10, StopFrame DEF CheckErr
  <2> QED BY <2>1, <2>2, <2>3, Zenon DEF IInv
<1>11. CASE StartNetstack
  <2>1. TypeOK' /\ MoreTypes'
    BY <1>1, <1>2, <1>11, StartFrame, ZenonT(30) DEF StartNetstack, StartFails, StartReturns, serverVars
  <2>2. StartInv' /\ StartIsTruthful'
    BY <1>11 DEF IInv, StartInv, StartIsTruthful, StartNetstack, StartFails, StartReturns, serverVars, nil
  <2>3. StopInv'
    BY <1>11, StopFrame DEF StartNetstack
  <2> QED BY <2>1, <2>2, <2>3, Zenon DEF IInv
<1> QED BY <1>3, <1>4, <1>5, <1>6, <1>7, <1>8, <1>9, <1>10, <1>11, <1>12, Zenon

-----------------------------------------------------------------------------
(* The other goroutines, Stop and the status.                               *)

\* The types are those of some of the variables.
LEMMA TypeFrame ==
    ASSUME IInv, UNCHANGED <<pc, called, attempt, open, err, failed, server, exit, LocalBackend,
                             mx, timer, check, ping, stop, status>>
    PROVE  TypeOK' /\ MoreTypes'
<1>1. TypeOK'
    BY SMT DEF IInv, TypeOK
<1>2. MoreTypes'
    BY SMT DEF IInv, MoreTypes
<1> QED BY <1>1, <1>2

\* The goroutines that Start leaves behind keep the invariant: the server's may
\* write err, and it is counted until it is gone.
LEMMA GoroutineStep ==
    ASSUME IInv, ServerReturns \/ ServerDone \/ SetDevice
    PROVE  IInv'
<1>1. CASE ServerReturns
  <2>1. TypeOK' /\ MoreTypes'
    BY <1>1 DEF IInv, TypeOK, MoreTypes, ServerReturns, deviceVars, checkVars, stopVars, nil
  <2>2. StartInv' /\ StartIsTruthful' /\ StopInv'
    BY <1>1 DEF IInv, TypeOK, MoreTypes, StartInv, StartIsTruthful, StopInv, ServerReturns,
                deviceVars, checkVars, stopVars, nil
  <2> QED BY <2>1, <2>2, Zenon DEF IInv
<1>2. CASE ServerDone
  <2>1. TypeOK' /\ MoreTypes'
    BY <1>2 DEF IInv, TypeOK, MoreTypes, ServerDone, startVars, deviceVars, checkVars, stopVars
  <2>2. StartInv' /\ StartIsTruthful' /\ StopInv'
    BY <1>2 DEF IInv, StartInv, StartIsTruthful, StopInv, ServerDone, startVars,
                deviceVars, checkVars, stopVars
  <2> QED BY <2>1, <2>2, Zenon DEF IInv
<1>3. CASE SetDevice
  <2>a. UNCHANGED <<pc, called, attempt, open, err, failed, server, exit, LocalBackend, mx, timer,
                    check, ping, stop, status>>
    BY <1>3, Zenon DEF SetDevice, startVars, serverVars, checkVars, stopVars
  <2>1. TypeOK' /\ MoreTypes'
    BY <2>a, TypeFrame
  <2>2. StartInv' /\ StartIsTruthful' /\ StopInv'
    BY <1>3 DEF IInv, StartInv, StartIsTruthful, StopInv, SetDevice, startVars, serverVars,
                checkVars, stopVars
  <2> QED BY <2>1, <2>2, Zenon DEF IInv
<1> QED BY <1>1, <1>2, <1>3

\* What the node check, Stop and the status leave alone of Start.
LEMMA OthersFrame ==
    ASSUME IInv, UNCHANGED <<startVars, serverVars, LocalBackend, deviceVars, panicked>>
    PROVE  StartInv' /\ StartIsTruthful'
    BY Zenon DEF IInv, StartInv, StartIsTruthful, startVars, serverVars, deviceVars

\* The node check and its pings keep the invariant.
LEMMA CheckStep ==
    ASSUME IInv, \/ NodeCheck \/ LockCheck \/ CheckPeers
                 \/ \E p \in Peers : Lookup(p) \/ PingOver(p) \/ Deadline(p) \/ PingFails(p)
    PROVE  IInv'
<1>1. unchangedByCheck
    BY Zenon DEF NodeCheck, LockCheck, CheckPeers, Lookup, PingOver, Deadline, PingFails
<1>2. StartInv' /\ StartIsTruthful'
    BY <1>1, OthersFrame, Zenon DEF unchangedByCheck
<1>3. StopInv' /\ MoreTypes'
    BY <1>1, Zenon DEF IInv, StopInv, MoreTypes, unchangedByCheck, startVars, serverVars, stopVars
<1>4. /\ mx = "check" <=> check = "peers"
      /\ mx = "stop" <=> stop \in {"timer", "cancel", "wait"}
      /\ check \in {"idle", "lock", "peers"}
      /\ ping \in [Peers -> {"none", "lookup", "live", "deadline", "cancelled"}]
    BY Zenon DEF IInv, TypeOK
<1>5. stop' = stop
    BY <1>1, Zenon DEF unchangedByCheck, stopVars
<1>6. SUFFICES
        /\ mx' = "check" <=> check' = "peers"
        /\ mx' = "stop" <=> stop \in {"timer", "cancel", "wait"}
        /\ check' \in {"idle", "lock", "peers"}
        /\ ping' \in [Peers -> {"none", "lookup", "live", "deadline", "cancelled"}]
  <2>1. UNCHANGED <<pc, called, attempt, open, err, server, exit, status>>
    BY <1>1, Zenon DEF unchangedByCheck, startVars, serverVars
  <2>2. TypeOK'
    BY <1>5, <1>6, <2>1, SMTT(30) DEF IInv, TypeOK
  <2> QED BY <1>2, <1>3, <2>2, Zenon DEF IInv
<1>7. CASE NodeCheck \/ LockCheck
    BY <1>4, <1>7 DEF NodeCheck, LockCheck
<1>8. CASE CheckPeers
    BY <1>4, <1>8 DEF CheckPeers
<1>9. CASE \E p \in Peers : Lookup(p) \/ PingOver(p) \/ Deadline(p) \/ PingFails(p)
    BY <1>4, <1>9 DEF Lookup, PingOver, Deadline, PingFails
<1> QED BY <1>7, <1>8, <1>9

\* The steps of Stop keep the invariant: the mutex is its own from the first to
\* the last, and the last waits until exit is 0.
LEMMA StopStep ==
    ASSUME IInv, Stop \/ StopTimer \/ Cancel \/ StopReturns
    PROVE  IInv'
<1>1. unchangedByStop
    BY Zenon DEF Stop, StopTimer, Cancel, StopReturns
<1>2. StartInv' /\ StartIsTruthful'
    BY <1>1, OthersFrame, Zenon DEF unchangedByStop
<1>3. /\ mx = "check" <=> check = "peers"
      /\ mx = "stop" <=> stop \in {"timer", "cancel", "wait"}
      /\ ping \in [Peers -> {"none", "lookup", "live", "deadline", "cancelled"}]
      /\ exit = IF server \in {"running", "returned"} THEN 1 ELSE 0
      /\ server \in {"none", "running", "returned", "done"} /\ timer \in BOOLEAN
      /\ stop \in {"idle", "timer", "cancel", "wait", "done"}
      /\ calm => pc \in {"ok", "error"}
      /\ stop \in {"cancel", "wait", "done"} /\ calm => ~timer
      /\ stop = "done" /\ calm => server \in {"none", "done"}
    BY Zenon DEF IInv, TypeOK, MoreTypes, StopInv
<1>4. UNCHANGED <<pc, server, exit, check>>
    BY <1>1, Zenon DEF unchangedByStop, startVars, serverVars
<1>5. SUFFICES
        /\ mx' = "check" <=> check = "peers"
        /\ mx' = "stop" <=> stop' \in {"timer", "cancel", "wait"}
        /\ ping' \in [Peers -> {"none", "lookup", "live", "deadline", "cancelled"}]
        /\ timer' \in BOOLEAN /\ stop' \in {"idle", "timer", "cancel", "wait", "done"}
        /\ calm' => pc \in {"ok", "error"}
        /\ stop' \in {"cancel", "wait", "done"} /\ calm' => ~timer'
        /\ stop' = "done" /\ calm' => server \in {"none", "done"}
  <2>1. TypeOK'
    <3>1. UNCHANGED <<called, attempt, open, err, status>>
        BY <1>1, Zenon DEF unchangedByStop, startVars
    <3> QED BY <1>4, <1>5, <3>1, SMTT(30) DEF IInv, TypeOK
  <2>2. MoreTypes'
    BY <1>1, <1>4, <1>5, Zenon DEF IInv, MoreTypes, unchangedByStop, startVars
  <2>3. StopInv'
    BY <1>4, <1>5, Zenon DEF StopInv
  <2> QED BY <1>2, <2>1, <2>2, <2>3, Zenon DEF IInv
<1>6. CASE Stop
    BY <1>3, <1>6, ZenonT(30) DEF Stop
<1>7. CASE StopTimer
    BY <1>3, <1>7, ZenonT(30) DEF StopTimer
<1>8. CASE Cancel
    BY <1>3, <1>8 DEF Cancel
<1>9. CASE StopReturns
    BY <1>3, <1>9 DEF StopReturns
<1> QED BY <1>6, <1>7, <1>8, <1>9

\* A status call keeps the invariant.
LEMMA StatusStep ==
    ASSUME IInv, AskDevice \/ ReadStatus \/ StatusEnds
    PROVE  IInv'
<1>1. unchangedByStatus
    BY Zenon DEF AskDevice, ReadStatus, StatusEnds
<1>2. StartInv' /\ StartIsTruthful'
    BY <1>1, OthersFrame, Zenon DEF unchangedByStatus
<1>3. /\ status.at \in {"idle", "reading", "returned"}
      /\ "at" \in DOMAIN status /\ status = [f \in DOMAIN status |-> status[f]]
    BY Zenon DEF IInv, TypeOK, MoreTypes
<1>4. SUFFICES /\ status'.at \in {"idle", "reading", "returned"}
               /\ "at" \in DOMAIN status' /\ status' = [f \in DOMAIN status' |-> status'[f]]
  <2>1. UNCHANGED <<pc, called, attempt, open, err, failed, server, exit, LocalBackend, mx, timer,
                    check, ping, stop, calm>>
    BY <1>1, Zenon DEF unchangedByStatus, startVars, serverVars, checkVars, stopVars
  <2>2. TypeOK'
    BY <1>4, <2>1 DEF IInv, TypeOK
  <2>3. MoreTypes'
    BY <1>4, <2>1 DEF IInv, MoreTypes
  <2>4. StopInv'
    BY <2>1, Zenon DEF IInv, StopInv
  <2> QED BY <1>2, <2>2, <2>3, <2>4, Zenon DEF IInv
<1>5. CASE AskDevice
  <2>1. PICK d, lines :
          status' = [at |-> "reading", d |-> d, lines |-> lines, rest |-> lines, dp |-> NewParser]
    BY <1>5, Zenon DEF AskDevice
  <2> QED BY <2>1
<1>6. CASE ReadStatus
  <2>1. PICK n, dp : status' = [status EXCEPT !.rest = SubSeq(@, n + 1, Len(@)), !.dp = dp,
                                              !.at = IF dp.done THEN "returned" ELSE @]
    BY <1>6, Zenon DEF ReadStatus
  <2> QED BY <1>3, <2>1, ZenonT(30)
<1>7. CASE StatusEnds
    BY <1>3, <1>7 DEF StatusEnds
<1> QED BY <1>5, <1>6, <1>7

-----------------------------------------------------------------------------
(* The theorems.                                                            *)

\* The inductive invariant holds in every reachable state.
LEMMA Invariance == Spec => []IInv
<1>1. Init => IInv
  <2> SUFFICES ASSUME Init PROVE IInv
    OBVIOUS
  <2>1. 1 \in DOMAIN tunname
    <3>1. Len(tunname) \in Nat \ {0} /\ DOMAIN tunname = 1 .. Len(tunname)
        BY TunnameAssumption
    <3> QED BY <3>1
  <2>2. TypeOK
    BY <2>1 DEF Init, TypeOK
  <2>3. MoreTypes
    BY ZenonT(30) DEF Init, MoreTypes
  <2>4. StartInv /\ StartIsTruthful /\ StopInv
    BY DEF Init, StartInv, StartIsTruthful, StopInv
  <2> QED BY <2>2, <2>3, <2>4, Zenon DEF IInv
<1>2. IInv /\ [Next]_vars => IInv'
  <2>1. IInv /\ Next => IInv'
    BY StartStep, GoroutineStep, CheckStep, StopStep, StatusStep, Zenon DEF Next
  <2>2. IInv /\ UNCHANGED vars => IInv'
    <3> SUFFICES ASSUME IInv, UNCHANGED vars PROVE IInv'
        OBVIOUS
    <3>1. UNCHANGED <<startVars, serverVars, LocalBackend, deviceVars, panicked>>
        BY Zenon DEF vars
    <3>2. UNCHANGED <<pc, called, attempt, open, err, failed, server, exit, LocalBackend, mx, timer,
                      check, ping, stop, calm, status>>
        BY Zenon DEF vars, startVars, serverVars, checkVars, stopVars
    <3>3. StopInv'
        BY <3>2, Zenon DEF IInv, StopInv
    <3> QED BY <3>1, <3>2, <3>3, OthersFrame, TypeFrame DEF IInv
  <2> QED BY <2>1, <2>2, Zenon
<1> QED BY <1>1, <1>2, PTL DEF Spec

\* Type correctness: exit counts the server's goroutine, the mutex has one
\* keeper, and tryEngine leaves nothing open.
THEOREM TypeCorrect == Spec => []TypeOK
<1>1. IInv => TypeOK
    BY Zenon DEF IInv
<1> QED BY <1>1, Invariance, PTL

\* Start's result: nil only with a backend and an engine and after no failure,
\* an error only after one or after the server returned.
THEOREM StartTruthful == Spec => []StartIsTruthful
<1>1. IInv => StartIsTruthful
    BY Zenon DEF IInv
<1> QED BY <1>1, Invariance, PTL

\* A Stop called after Start had returned has, when it returns, waited for the
\* server, and the timer is stopped.
THEOREM StopWaits == Spec => []StopWaitsForServer
<1>1. IInv => StopWaitsForServer
    BY DEF IInv, StopInv, StopWaitsForServer
<1> QED BY <1>1, Invariance, PTL

-----------------------------------------------------------------------------
(* The status of the device.                                                *)
(*                                                                          *)
(* First the loop of its parser: what parseDevice makes of lines, by        *)
(* induction over them.                                                     *)

\* The lines that a device may write, and those that end the parsing.
Keys ==
    {"", "not one =", "errno", "private_key", "listen_port", "fwmark", "public_key",
     "preshared_key", "protocol_version", "endpoint", "last_handshake_time_sec",
     "last_handshake_time_nsec", "tx_bytes", "rx_bytes", "persistent_keepalive_interval",
     "allowed_ip"}
LineType == [key : Keys, value : Nat \cup {Garbled}]

\* f is the function that ParseLines defines.
Scans(f, start, lines, N) ==
    f = [i \in 0 .. N |->
            IF i = 0 THEN start
            ELSE CHOOSE q \in {ParseLine(p, lines[i]) : p \in {f[i - 1]}} : TRUE]

\* There is such a function.
LEMMA ScansExist ==
    ASSUME NEW start, NEW lines, NEW N \in Nat
    PROVE  \E f : Scans(f, start, lines, N)
<1> DEFINE W == {n \in 0 .. N : \E f : Scans(f, start, lines, n)}
           Parsing(f, n) == CHOOSE q \in {ParseLine(p, lines[n]) : p \in {f[n - 1]}} : TRUE
<1>1. 0 \in W
  <2> DEFINE f == [i \in 0 .. 0 |-> start]
  <2>1. f = [i \in 0 .. 0 |-> IF i = 0 THEN start ELSE Parsing(f, i)]
    <3>1. \A i \in 0 .. 0 : i = 0
        OBVIOUS
    <3> QED BY <3>1, Zenon
  <2>2. Scans(f, start, lines, 0)
    BY <2>1, Zenon DEF Scans
  <2>3. 0 \in 0 .. N
    OBVIOUS
  <2> QED BY <2>2, <2>3, Zenon
<1>2. ASSUME NEW n \in 1 .. N, n - 1 \in W PROVE n \in W
  <2>1. PICK f : Scans(f, start, lines, n - 1)
    BY <1>2, Zenon
  <2> DEFINE g == [i \in 0 .. n |-> IF i = n THEN Parsing(f, n) ELSE f[i]]
  <2>2. \A i \in 0 .. n - 1 : f[i] = IF i = 0 THEN start ELSE Parsing(f, i)
    BY <2>1, Zenon DEF Scans
  <2>3. /\ \A i \in 0 .. n : i = n \/ i \in 0 .. n - 1
        /\ \A i \in 0 .. n : i # 0 => i - 1 \in 0 .. n /\ i - 1 # n
        /\ n # 0 /\ n \in 0 .. n /\ n \in 0 .. N
    OBVIOUS
  <2>4. \A i \in 0 .. n : i # 0 => g[i - 1] = f[i - 1]
    BY <2>3, Zenon
  <2>5. \A i \in 0 .. n : i # 0 => Parsing(g, i) = Parsing(f, i)
    BY <2>4, Zenon
  <2>6. \A i \in 0 .. n : g[i] = IF i = n THEN Parsing(f, n) ELSE f[i]
    BY Zenon
  <2>7. g = [i \in 0 .. n |-> g[i]]
    BY Zenon
  <2> HIDE DEF g
  <2>8. \A i \in 0 .. n : g[i] = IF i = 0 THEN start ELSE Parsing(g, i)
    <3> HIDE DEF Parsing
    <3> QED BY <2>2, <2>3, <2>5, <2>6, Zenon
  <2>9. Scans(g, start, lines, n)
    BY <2>7, <2>8, Zenon DEF Scans
  <2> QED BY <2>3, <2>9, Zenon
<1> HIDE DEF W
<1>3. \A n \in 0 .. N : n \in W
    BY <1>1, <1>2, AllRounds, Zenon
<1>4. N \in W
    BY <1>3
<1> QED BY <1>4, Zenon DEF W

\* What is parsed after each of the first N lines comes from start line by line.
LineByLine(f, start, lines, N) ==
    /\ f[0] = start
    /\ \A n \in 1 .. N : f[n] = ParseLine(f[n - 1], lines[n])

\* So it is what the parser's loop makes of the lines.
LEMMA ParseIs ==
    ASSUME NEW start, NEW lines, NEW N \in Nat, Len(lines) = N
    PROVE  \E f : LineByLine(f, start, lines, N) /\ ParseLines(start, lines) = f[N]
<1> DEFINE f == CHOOSE f : Scans(f, start, lines, N)
<1>1. Scans(f, start, lines, N)
    BY ScansExist, Zenon
<1>2. ParseLines(start, lines) = f[N]
    BY Zenon DEF ParseLines, Scanned, Scans
<1> HIDE DEF f
<1>3. \A n \in 0 .. N : f[n] = IF n = 0 THEN start
          ELSE CHOOSE q \in {ParseLine(p, lines[n]) : p \in {f[n - 1]}} : TRUE
    BY <1>1, Zenon DEF Scans
<1>4. 0 \in 0 .. N /\ \A n \in 1 .. N : n \in 0 .. N /\ n # 0
    OBVIOUS
<1>5. ASSUME NEW x, NEW line
      PROVE  (CHOOSE q \in {ParseLine(p, line) : p \in {x}} : TRUE) = ParseLine(x, line)
    BY Zenon
<1>6. LineByLine(f, start, lines, N)
    BY <1>3, <1>4, <1>5, Zenon DEF LineByLine
<1> QED BY <1>2, <1>6, Zenon

\* That there is such a function, by a name to refer to it.
ParsesAll(start, lines, N) ==
    \E f : LineByLine(f, start, lines, N) /\ ParseLines(start, lines) = f[N]

\* There always is.
LEMMA ParseRuns ==
    ASSUME NEW start, NEW lines, NEW N \in Nat, Len(lines) = N
    PROVE  ParsesAll(start, lines, N)
    BY ParseIs, Zenon DEF ParsesAll

\* There is one such result only.
LEMMA ParseOnly ==
    ASSUME NEW start, NEW lines, NEW N \in Nat, Len(lines) = N,
           NEW g, LineByLine(g, start, lines, N)
    PROVE  ParseLines(start, lines) = g[N]
<1>1. PICK f : LineByLine(f, start, lines, N) /\ ParseLines(start, lines) = f[N]
    BY ParseIs, Zenon
<1> DEFINE W == {n \in 0 .. N : f[n] = g[n]}
<1>2. 0 \in W
  <2>1. 0 \in 0 .. N
    OBVIOUS
  <2> QED BY <1>1, <2>1, Zenon DEF LineByLine
<1>3. ASSUME NEW n \in 1 .. N, n - 1 \in W PROVE n \in W
  <2>1. n \in 0 .. N
    OBVIOUS
  <2> QED BY <1>1, <1>3, <2>1, Zenon DEF LineByLine
<1> HIDE DEF W
<1>4. \A n \in 0 .. N : n \in W
    BY <1>2, <1>3, AllRounds, Zenon
<1>5. N \in W
    BY <1>4
<1> QED BY <1>1, <1>5, Zenon DEF W

\* No line leaves the parser as it is.
LEMMA ParseNone ==
    ASSUME NEW dp
    PROVE  ParseLines(dp, <<>>) = dp
<1>1. PICK f : LineByLine(f, dp, <<>>, 0) /\ ParseLines(dp, <<>>) = f[0]
  <2>1. 0 \in Nat /\ Len(<<>>) = 0
    OBVIOUS
  <2> QED BY <2>1, ParseIs, Zenon
<1> QED BY <1>1, Zenon DEF LineByLine

\* A set that no line leads out of is not left.
LEMMA ParseStays ==
    ASSUME NEW X, NEW dp \in X, NEW lines, NEW N \in Nat, Len(lines) = N,
           \A x \in X : \A n \in 1 .. N : ParseLine(x, lines[n]) \in X
    PROVE  ParseLines(dp, lines) \in X
<1>1. PICK f : LineByLine(f, dp, lines, N) /\ ParseLines(dp, lines) = f[N]
    BY ParseIs, Zenon
<1> DEFINE W == {n \in 0 .. N : f[n] \in X}
<1>2. 0 \in W
  <2>1. 0 \in 0 .. N
    OBVIOUS
  <2> QED BY <1>1, <2>1, Zenon DEF LineByLine
<1>3. ASSUME NEW n \in 1 .. N, n - 1 \in W PROVE n \in W
  <2>1. n \in 0 .. N
    OBVIOUS
  <2> QED BY <1>1, <1>3, <2>1, Zenon DEF LineByLine
<1> HIDE DEF W
<1>4. \A n \in 0 .. N : n \in W
    BY <1>2, <1>3, AllRounds, Zenon
<1>5. N \in W
    BY <1>4
<1> QED BY <1>1, <1>5, Zenon DEF W

\* Lines that are read in two parts are parsed as in one.
LEMMA ParseParts ==
    ASSUME NEW dp, NEW s \in Seq(LineType), NEW t \in Seq(LineType)
    PROVE  ParseLines(dp, s \o t) = ParseLines(ParseLines(dp, s), t)
<1> DEFINE m == Len(s)
           k == Len(t)
           st == s \o t
<1>1. m \in Nat /\ k \in Nat /\ m + k \in Nat /\ Len(st) = m + k
    OBVIOUS
<1>2. PICK f : LineByLine(f, dp, s, m) /\ ParseLines(dp, s) = f[m]
    BY <1>1, ParseIs, Zenon
<1>3. PICK g : LineByLine(g, f[m], t, k) /\ ParseLines(f[m], t) = g[k]
    BY <1>1, ParseIs, Zenon
<1> DEFINE h == [n \in 0 .. m + k |-> IF n <= m THEN f[n] ELSE g[n - m]]
<1>a. \A n \in 1 .. m : st[n] = s[n]
    OBVIOUS
<1>b. \A n \in 1 .. k : st[m + n] = t[n]
    OBVIOUS
<1> HIDE DEF m, k, st
<1>4. h[0] = dp
  <2>1. 0 \in 0 .. m + k /\ 0 <= m
    BY <1>1
  <2> QED BY <1>2, <2>1, Zenon DEF LineByLine
<1>5. ASSUME NEW n \in 1 .. m + k PROVE h[n] = ParseLine(h[n - 1], st[n])
  <2>1. n \in 0 .. m + k /\ n - 1 \in 0 .. m + k
    BY <1>1
  <2>2. CASE n <= m
    <3>1. n \in 1 .. m /\ n - 1 <= m
        BY <1>1, <2>2
    <3>2. h[n] = f[n] /\ h[n - 1] = f[n - 1]
        BY <2>1, <2>2, <3>1, Zenon
    <3>3. f[n] = ParseLine(f[n - 1], s[n])
        BY <1>2, <3>1, Zenon DEF LineByLine
    <3> HIDE DEF h
    <3> QED BY <1>a, <3>1, <3>2, <3>3, Zenon
  <2>3. CASE ~(n <= m)
    <3>1. PICK i \in 1 .. k : i = n - m /\ n = m + i
        BY <1>1, <2>3
    <3>2. st[n] = t[i] /\ h[n] = g[i]
        BY <1>b, <2>1, <2>3, <3>1, Zenon
    <3>3. h[n - 1] = g[i - 1]
      <4>1. CASE i = 1
        <5>1. n - 1 = m /\ n - 1 <= m /\ i - 1 = 0
            BY <1>1, <3>1, <4>1
        <5>2. h[n - 1] = f[m] /\ g[0] = f[m]
            BY <1>3, <2>1, <5>1, Zenon DEF LineByLine
        <5> HIDE DEF h
        <5> QED BY <5>1, <5>2, Zenon
      <4>2. CASE i # 1
        <5>1. ~(n - 1 <= m) /\ (n - 1) - m = i - 1
            BY <1>1, <3>1, <4>2
        <5> QED BY <2>1, <5>1, Zenon
      <4> QED BY <4>1, <4>2
    <3>4. g[i] = ParseLine(g[i - 1], t[i])
        BY <1>3, Zenon DEF LineByLine
    <3> HIDE DEF h
    <3> QED BY <3>2, <3>3, <3>4, Zenon
  <2> QED BY <2>2, <2>3
<1>6. h[m + k] = g[k]
  <2>1. m + k \in 0 .. m + k
    BY <1>1
  <2>2. CASE k = 0
    <3>1. m + k = m /\ m + k <= m
        BY <1>1, <2>2
    <3>2. h[m + k] = f[m + k]
        BY <2>1, <3>1, Zenon
    <3> HIDE DEF h
    <3> QED BY <1>3, <2>2, <3>1, <3>2, Zenon DEF LineByLine
  <2>3. CASE k # 0
    <3>1. ~(m + k <= m) /\ (m + k) - m = k
        BY <1>1, <2>3
    <3> QED BY <2>1, <3>1, Zenon
  <2> QED BY <2>2, <2>3
<1> HIDE DEF h
<1>7. LineByLine(h, dp, st, m + k)
    BY <1>4, <1>5, Zenon DEF LineByLine
<1>8. ParseLines(dp, st) = h[m + k]
    BY <1>1, <1>7, ParseOnly, Zenon
<1> QED BY <1>2, <1>3, <1>6, <1>8, Zenon DEF st

-----------------------------------------------------------------------------
(* What one line does.                                                      *)

\* The parser, between two lines.
ParserType ==
    [d : DeviceType, err : BOOLEAN, hsSec : Nat, hsNano : Nat, done : BOOLEAN]

\* The last of several is changed, and it is as if it had been added so.
LEMMA LastChanged ==
    ASSUME NEW ps \in Seq(PeerType), NEW q \in PeerType, NEW r \in PeerType
    PROVE  /\ Len(Append(ps, q)) = Len(ps) + 1
           /\ Append(ps, q)[Len(ps) + 1] = q
           /\ [Append(ps, q) EXCEPT ![Len(ps) + 1] = r] = Append(ps, r)
<1> DEFINE n == Len(ps) + 1
           a == Append(ps, q)
           b == Append(ps, r)
           e == [a EXCEPT ![n] = r]
<1>1. n \in Nat /\ n \in 1 .. n
    OBVIOUS
<1>2. a \in [1 .. n -> PeerType] /\ Len(a) = n /\ a[n] = q /\ b \in [1 .. n -> PeerType] /\ b[n] = r
  <2>1. a \in Seq(PeerType) /\ b \in Seq(PeerType) /\ Len(a) = n /\ Len(b) = n
        /\ a[n] = q /\ b[n] = r
    OBVIOUS
  <2>2. \A s \in Seq(PeerType) : s \in [1 .. Len(s) -> PeerType]
    OBVIOUS
  <2> HIDE DEF a, b
  <2> QED BY <2>1, <2>2, Zenon
<1>3. \A i \in 1 .. n : i # n => a[i] = b[i]
    OBVIOUS
<1> HIDE DEF a, b, n
<1>4. e \in [1 .. n -> PeerType] /\ \A i \in 1 .. n : e[i] = IF i = n THEN r ELSE a[i]
    BY <1>1, <1>2
<1> HIDE DEF e
<1>5. e = b
    BY <1>2, <1>3, <1>4
<1> QED BY <1>2, <1>5, Zenon DEF a, b, e, n

\* Fails and Parsed, the parsing of a value.
LEMMA ValueParsed ==
    ASSUME NEW dp \in ParserType, NEW v \in Nat \cup {Garbled}
    PROVE  /\ Fails(dp, v) \in BOOLEAN /\ Parsed(dp, v) \in Nat
           /\ dp.err => Fails(dp, v)
           /\ v = Garbled => Fails(dp, v)
           /\ ~dp.err /\ v # Garbled => ~Fails(dp, v) /\ Parsed(dp, v) = v
    BY DEF ParserType, Fails, Parsed

\* The last peer, and the device with another one in its place.
CurPeer(dp) == dp.d.Peers[Len(dp.d.Peers)]
WithCurPeer(dp, q) ==
    [dp.d EXCEPT !.Peers = [dp.d.Peers EXCEPT ![Len(dp.d.Peers)] = q]]

\* The keys whose values go to the last peer.
OtherPeerKeys == {"last_handshake_time_sec", "last_handshake_time_nsec", "allowed_ip"}
PeerKeys == DOMAIN PeerField \cup OtherPeerKeys

\* The keys are all different.
LEMMA KeysApart ==
    /\ \A k \in DOMAIN PeerField : k \notin OtherPeerKeys
    /\ \A k \in PeerKeys : k \notin {"errno", "public_key", "endpoint", "", "not one ="}
    /\ \A k \in DOMAIN DeviceField :
          k \notin PeerKeys \cup {"errno", "public_key", "endpoint", "", "not one ="}
    BY Zenon DEF PeerField, OtherPeerKeys, PeerKeys, DeviceField

\* What parsing a line may do to the parser.
MayBecome(dp, new) ==
    /\ new \in ParserType
    /\ dp.err => new.err
    /\ dp.d.Peers # <<>> => new.d.Peers # <<>>

\* peerParse never clears an error, and notices a value that should be parsed and
\* cannot.
LEMMA PeerParseType ==
    ASSUME NEW dp \in ParserType, NEW key \in Keys, NEW v \in Nat \cup {Garbled},
           dp.d.Peers # <<>>
    PROVE  /\ MayBecome(dp, peerParse(dp, key, v))
           /\ peerParse(dp, key, v).done = dp.done
           /\ key \in PeerKeys /\ v = Garbled => peerParse(dp, key, v).err
<1> DEFINE ps == dp.d.Peers
           new == peerParse(dp, key, v)
<1>0. \A k \in DOMAIN PeerField : k \notin OtherPeerKeys
    BY KeysApart, Zenon
<1>1. /\ ps \in Seq(PeerType) /\ CurPeer(dp) \in PeerType /\ Len(ps) \in 1 .. Len(ps)
      /\ dp.d \in DeviceType
    BY DEF ParserType, DeviceType, CurPeer
<1>2. /\ Parsed(dp, v) \in Nat /\ Fails(dp, v) \in BOOLEAN /\ (dp.err => Fails(dp, v))
      /\ (v = Garbled => Fails(dp, v))
    BY ValueParsed, Zenon
<1>3. ASSUME NEW q \in PeerType
      PROVE  WithCurPeer(dp, q) \in DeviceType /\ WithCurPeer(dp, q).Peers # <<>>
  <2> DEFINE rs == [ps EXCEPT ![Len(ps)] = q]
  <2>1. rs \in Seq(PeerType) /\ rs # <<>>
    BY <1>1
  <2>2. WithCurPeer(dp, q) = [dp.d EXCEPT !.Peers = rs]
    BY DEF WithCurPeer
  <2> HIDE DEF rs
  <2> QED BY <1>1, <2>1, <2>2, SMTT(20) DEF DeviceType
<1>4. CASE key \in DOMAIN PeerField
  <2> DEFINE q == [CurPeer(dp) EXCEPT ![PeerField[key]] = Parsed(dp, v)]
  <2>1. q \in PeerType
    <3>1. PeerField[key] \in {"PresharedKey", "ProtocolVersion", "TransmitBytes", "ReceiveBytes",
                              "PersistentKeepaliveInterval"}
        BY <1>4 DEF PeerField
    <3> DEFINE f == PeerField[key]
    <3> HIDE DEF f
    <3>2. [CurPeer(dp) EXCEPT ![f] = Parsed(dp, v)] \in PeerType
        BY <1>1, <1>2, <3>1, Zenon DEF PeerType, f
    <3> QED BY <3>2 DEF f
  <2>2. new = [dp EXCEPT !.d = WithCurPeer(dp, q), !.err = Fails(dp, v)]
    BY <1>0, <1>4 DEF peerParse, WithCurPeer, CurPeer, OtherPeerKeys
  <2> HIDE DEF q
  <2> QED BY <1>2, <1>3, <2>1, <2>2, Zenon DEF ParserType, MayBecome
<1>5. CASE key = "last_handshake_time_sec"
  <2>1. new = [dp EXCEPT !.hsSec = Parsed(dp, v), !.err = Fails(dp, v)]
    BY <1>0, <1>5 DEF peerParse, WithCurPeer, CurPeer, OtherPeerKeys
  <2> QED BY <1>2, <2>1, Zenon DEF ParserType, MayBecome
<1>6. CASE key = "last_handshake_time_nsec"
  <2> DEFINE q == [CurPeer(dp) EXCEPT !.LastHandshakeTime =
                      IF dp.hsSec > 0 /\ Parsed(dp, v) > 0 THEN <<dp.hsSec, Parsed(dp, v)>> ELSE @]
  <2>1. q \in PeerType
    <3>1. CurPeer(dp).LastHandshakeTime \in Nat \X Nat
        BY <1>1 DEF PeerType
    <3>2. (IF dp.hsSec > 0 /\ Parsed(dp, v) > 0 THEN <<dp.hsSec, Parsed(dp, v)>>
           ELSE CurPeer(dp).LastHandshakeTime) \in Nat \X Nat
        BY <1>2, <3>1 DEF ParserType
    <3> QED BY <1>1, <3>2, Zenon DEF PeerType
  <2>2. new = [dp EXCEPT !.hsNano = Parsed(dp, v), !.err = Fails(dp, v), !.d = WithCurPeer(dp, q)]
    BY <1>0, <1>6 DEF peerParse, WithCurPeer, CurPeer, OtherPeerKeys
  <2> HIDE DEF q
  <2> QED BY <1>2, <1>3, <2>1, <2>2, Zenon DEF ParserType, MayBecome
<1>7. CASE key = "allowed_ip"
  <2> DEFINE q == [CurPeer(dp) EXCEPT !.AllowedIPs = IF Fails(dp, v) THEN @
                                                     ELSE Append(@, Parsed(dp, v))]
  <2>1. q \in PeerType
    <3>1. CurPeer(dp).AllowedIPs \in Seq(Nat)
        BY <1>1 DEF PeerType
    <3>2. (IF Fails(dp, v) THEN CurPeer(dp).AllowedIPs
           ELSE Append(CurPeer(dp).AllowedIPs, Parsed(dp, v))) \in Seq(Nat)
        BY <1>2, <3>1
    <3> QED BY <1>1, <3>2, Zenon DEF PeerType
  <2>2. new = [dp EXCEPT !.err = Fails(dp, v), !.d = WithCurPeer(dp, q)]
    BY <1>0, <1>7 DEF peerParse, WithCurPeer, CurPeer, OtherPeerKeys
  <2> HIDE DEF q
  <2> QED BY <1>2, <1>3, <2>1, <2>2, Zenon DEF ParserType, MayBecome
<1>8. CASE key \notin PeerKeys
  <2>1. new = dp
    BY <1>0, <1>8 DEF peerParse, PeerKeys, OtherPeerKeys
  <2> QED BY <1>8, <2>1, Zenon DEF MayBecome
<1> QED BY <1>4, <1>5, <1>6, <1>7, <1>8, Zenon DEF PeerKeys, OtherPeerKeys

\* Where a line with this key is parsed, in the device or in a peer.
IsParsed(dp, key) ==
    \/ key = "public_key"
    \/ key \in DOMAIN DeviceField /\ dp.d.Peers = <<>>
    \/ key \in PeerKeys /\ dp.d.Peers # <<>>

\* Parse never clears an error, takes no peer away, begins one at a public key
\* only, and notices a value that should be parsed and cannot.
LEMMA ParseType ==
    ASSUME NEW dp \in ParserType, NEW key \in Keys, NEW v \in Nat \cup {Garbled}
    PROVE  /\ MayBecome(dp, Parse(dp, key, v))
           /\ Parse(dp, key, v).done = dp.done
           /\ dp.d.Peers = <<>> /\ key # "public_key" => Parse(dp, key, v).d.Peers = <<>>
           /\ key = "public_key" => Parse(dp, key, v).d.Peers # <<>>
           /\ IsParsed(dp, key) /\ v = Garbled => Parse(dp, key, v).err
           /\ key = "endpoint" => Parse(dp, key, v) = dp
<1> DEFINE new == Parse(dp, key, v)
<1>0. /\ \A k \in PeerKeys : k \notin {"errno", "public_key", "endpoint", "", "not one ="}
      /\ \A k \in DOMAIN DeviceField :
          k \notin PeerKeys \cup {"errno", "public_key", "endpoint", "", "not one ="}
    BY KeysApart, Zenon
<1>1. dp.d \in DeviceType /\ dp.d.Peers \in Seq(PeerType) /\ dp.err \in BOOLEAN
    BY DEF ParserType, DeviceType
<1>2. /\ Parsed(dp, v) \in Nat /\ Fails(dp, v) \in BOOLEAN /\ (dp.err => Fails(dp, v))
      /\ (v = Garbled => Fails(dp, v))
    BY ValueParsed, Zenon
<1>3. CASE key = "errno"
  <2>1. new = [dp EXCEPT !.err = dp.err \/ v # 0]
    BY <1>0, <1>3, Zenon DEF Parse
  <2>2. ~IsParsed(dp, key)
    BY <1>0, <1>3, Zenon DEF IsParsed
  <2> QED BY <1>1, <1>3, <2>1, <2>2, Zenon DEF ParserType, MayBecome
<1>4. CASE key = "public_key"
  <2> DEFINE ps == Append(dp.d.Peers, NewPeer(Parsed(dp, v)))
             e == [dp.d EXCEPT !.Peers = ps]
  <2>1. new = [dp EXCEPT !.d = e, !.err = Fails(dp, v)]
    BY <1>0, <1>4, Zenon DEF Parse
  <2>2. ps \in Seq(PeerType) /\ ps # <<>>
    <3>1. NewPeer(Parsed(dp, v)) \in PeerType
      <4>1. <<0, 0>> \in Nat \X Nat /\ <<>> \in Seq(Nat)
        OBVIOUS
      <4> QED BY <1>2, <4>1 DEF NewPeer, PeerType
    <3> QED BY <1>1, <3>1, SMTT(20)
  <2> HIDE DEF ps
  <2>3. e \in DeviceType /\ e.Peers # <<>>
    BY <1>1, <2>2, SMTT(20) DEF DeviceType
  <2> HIDE DEF e
  <2> QED BY <1>2, <1>4, <2>1, <2>3, Zenon DEF ParserType, MayBecome
<1>5. CASE key \notin {"errno", "public_key"} /\ dp.d.Peers # <<>>
  <2>1. new = peerParse(dp, key, v)
    BY <1>5 DEF Parse
  <2>2. key = "endpoint" => peerParse(dp, key, v) = dp
    <3>1. "endpoint" \notin DOMAIN PeerField
        BY DEF PeerField
    <3> QED BY <3>1 DEF peerParse
  <2>3. IsParsed(dp, key) => key \in PeerKeys
    BY <1>5, Zenon DEF IsParsed
  <2>4. /\ MayBecome(dp, peerParse(dp, key, v))
        /\ peerParse(dp, key, v).done = dp.done
        /\ key \in PeerKeys /\ v = Garbled => peerParse(dp, key, v).err
    BY <1>5, PeerParseType, Zenon
  <2> QED BY <1>5, <2>1, <2>2, <2>3, <2>4, Zenon
<1>6. CASE key \in DOMAIN DeviceField /\ dp.d.Peers = <<>>
  <2>0. key \notin {"errno", "public_key", "endpoint"}
    BY <1>0, <1>6, Zenon
  <2> DEFINE f == DeviceField[key]
             e == [dp.d EXCEPT ![f] = Parsed(dp, v)]
  <2>1. new = [dp EXCEPT !.d = e, !.err = Fails(dp, v)]
    BY <1>6, <2>0 DEF Parse
  <2>2. f \in {"PrivateKey", "ListenPort", "FirewallMark"}
    BY <1>6 DEF DeviceField
  <2> HIDE DEF f
  <2>3. e \in DeviceType /\ e.Peers = <<>>
    BY <1>1, <1>2, <1>6, <2>2 DEF DeviceType
  <2> HIDE DEF e
  <2> QED BY <1>2, <1>6, <2>0, <2>1, <2>3, Zenon DEF ParserType, MayBecome
<1>7. CASE key \notin {"errno", "public_key"} /\ key \notin DOMAIN DeviceField /\ dp.d.Peers = <<>>
  <2>1. new = dp
    BY <1>7 DEF Parse
  <2>2. ~IsParsed(dp, key)
    BY <1>7, Zenon DEF IsParsed
  <2> QED BY <1>7, <2>1, <2>2, Zenon DEF MayBecome
<1> QED BY <1>3, <1>4, <1>5, <1>6, <1>7, Zenon

\* The same of a line, which may also end the parsing.
LEMMA ParseLineType ==
    ASSUME NEW dp \in ParserType, NEW line \in LineType
    PROVE  /\ MayBecome(dp, ParseLine(dp, line))
           /\ dp.done => ParseLine(dp, line) = dp
           /\ ~dp.done /\ line = InvalidLine => ParseLine(dp, line).err
           /\ ~dp.done /\ line \notin {EmptyLine, InvalidLine} =>
                 /\ ParseLine(dp, line) = Parse(dp, line.key, line.value)
                 /\ ~ParseLine(dp, line).done
<1>0. line.key \in Keys /\ line.value \in Nat \cup {Garbled} /\ dp.done \in BOOLEAN
    BY DEF LineType, ParserType
<1>1. CASE dp.done
    BY <1>1 DEF ParseLine, MayBecome
<1>2. CASE ~dp.done /\ line = EmptyLine
  <2>1. EmptyLine # InvalidLine
    BY Zenon DEF EmptyLine, InvalidLine, Line
  <2>2. ParseLine(dp, line) = [dp EXCEPT !.done = TRUE]
    BY <1>2, <2>1 DEF ParseLine
  <2> QED BY <1>2, <2>1, <2>2, Zenon DEF MayBecome, ParserType
<1>3. CASE ~dp.done /\ line = InvalidLine
  <2>1. EmptyLine # InvalidLine
    BY Zenon DEF EmptyLine, InvalidLine, Line
  <2>2. ParseLine(dp, line) = [dp EXCEPT !.done = TRUE, !.err = TRUE]
    BY <1>3, <2>1 DEF ParseLine
  <2> QED BY <1>3, <2>2, Zenon DEF MayBecome, ParserType
<1>4. CASE ~dp.done /\ line \notin {EmptyLine, InvalidLine}
  <2>1. ParseLine(dp, line) = Parse(dp, line.key, line.value)
    BY <1>4 DEF ParseLine
  <2>2. \A k \in Keys : \A v \in Nat \cup {Garbled} :
            MayBecome(dp, Parse(dp, k, v)) /\ Parse(dp, k, v).done = dp.done
    BY ParseType, Zenon
  <2> QED BY <1>0, <1>4, <2>1, <2>2, Zenon
<1> QED BY <1>0, <1>1, <1>2, <1>3, <1>4, Zenon

-----------------------------------------------------------------------------
(* What the lines of a peer do.                                             *)

\* The device h with other peers.
WithPeers(h, ps) == [h EXCEPT !.Peers = ps]

\* No error so far, and the device h has the peers ps.
Clean(dp, h, ps) ==
    dp \in ParserType /\ ~dp.err /\ ~dp.done /\ dp.d = WithPeers(h, ps)

\* The line of a value that parses is not one that ends the parsing.
LEMMA GoodLine ==
    ASSUME NEW key \in Keys, key # "", key # "not one =", NEW v \in Nat
    PROVE  /\ Line(key, v) \in LineType /\ Line(key, v) \notin {EmptyLine, InvalidLine}
           /\ Line(key, v).key = key /\ Line(key, v).value = v
           /\ v # Garbled
    BY GarbledAssumption, Zenon DEF Line, EmptyLine, InvalidLine, LineType

\* With one more there is one.
LEMMA NotNone ==
    ASSUME NEW ps \in Seq(PeerType), NEW q \in PeerType
    PROVE  Append(ps, q) # <<>>
<1>1. Len(Append(ps, q)) = Len(ps) + 1
    BY LastChanged, Zenon
<1>2. Len(ps) \in Nat /\ Len(<<>>) = 0
    OBVIOUS
<1>3. Len(Append(ps, q)) # Len(<<>>)
    BY <1>1, <1>2
<1> QED BY <1>3, Zenon

\* A public key begins a peer.
LEMMA PeerBegins ==
    ASSUME NEW h \in DeviceType, NEW ps \in Seq(PeerType), NEW dp, Clean(dp, h, ps), NEW v \in Nat
    PROVE  Clean(ParseLine(dp, Line("public_key", v)), h, Append(ps, NewPeer(v)))
<1> DEFINE line == Line("public_key", v)
           new == ParseLine(dp, line)
<1>0. line \in LineType /\ line \notin {EmptyLine, InvalidLine} /\ line.key = "public_key"
      /\ line.value = v /\ v # Garbled
  <2>1. "public_key" \in Keys /\ "public_key" # "" /\ "public_key" # "not one ="
    BY DEF Keys
  <2> QED BY <2>1, GoodLine, Zenon
<1> HIDE DEF line
<1>1. dp \in ParserType /\ ~dp.err /\ ~dp.done /\ dp.d = WithPeers(h, ps)
    BY Zenon DEF Clean
<1>2. new = Parse(dp, line.key, line.value) /\ ~new.done /\ new \in ParserType
    BY <1>0, <1>1, ParseLineType, Zenon DEF MayBecome
<1>3. ~Fails(dp, v) /\ Parsed(dp, v) = v
    BY <1>0, <1>1 DEF Fails, Parsed
<1>4. dp.d.Peers = ps
      /\ [dp.d EXCEPT !.Peers = Append(ps, NewPeer(v))] = WithPeers(h, Append(ps, NewPeer(v)))
    BY <1>1, Zenon DEF WithPeers, DeviceType
<1>5. "public_key" \notin DOMAIN DeviceField
    BY DEF DeviceField
<1>6. new = [dp EXCEPT !.d = [dp.d EXCEPT !.Peers = Append(ps, NewPeer(v))], !.err = FALSE]
  <2>1. Parse(dp, "public_key", v) =
          [dp EXCEPT !.d = [dp.d EXCEPT !.Peers = Append(dp.d.Peers, NewPeer(Parsed(dp, v)))],
                     !.err = Fails(dp, v)]
    BY <1>5 DEF Parse
  <2>2. new = Parse(dp, "public_key", v)
    BY <1>0, <1>2, Zenon
  <2>3. Fails(dp, v) = FALSE
    BY <1>3, <1>1 DEF Fails, ParserType
  <2> QED BY <1>3, <1>4, <2>1, <2>2, <2>3, Zenon
<1> HIDE DEF new
<1>7. ~new.err /\ new.d = WithPeers(h, Append(ps, NewPeer(v)))
    BY <1>1, <1>4, <1>6 DEF ParserType
<1> QED BY <1>2, <1>7, Zenon DEF Clean, new, line

\* A line is for the last peer, and its value parses.
GoesToPeer(dp, key, v, h, ps, q) ==
    /\ ParseLine(dp, Line(key, v)) = peerParse(dp, key, v)
    /\ ParseLine(dp, Line(key, v)) \in ParserType /\ ~ParseLine(dp, Line(key, v)).done
    /\ ~Fails(dp, v) /\ Parsed(dp, v) = v
    /\ CurPeer(dp) = q
    /\ \A r \in PeerType : WithCurPeer(dp, r) = WithPeers(h, Append(ps, r))

\* With a peer begun, a line of another key is for it.
LEMMA ForThePeer ==
    ASSUME NEW h \in DeviceType, NEW ps \in Seq(PeerType), NEW q \in PeerType,
           NEW dp, Clean(dp, h, Append(ps, q)), NEW v \in Nat,
           NEW key \in Keys \ {"", "not one =", "errno", "public_key"}
    PROVE  GoesToPeer(dp, key, v, h, ps, q)
<1> DEFINE line == Line(key, v)
           new == ParseLine(dp, line)
<1>0. line \in LineType /\ line \notin {EmptyLine, InvalidLine} /\ line.key = key
      /\ line.value = v /\ v # Garbled
    BY GoodLine, Zenon
<1>1. dp \in ParserType /\ ~dp.err /\ ~dp.done /\ dp.d = WithPeers(h, Append(ps, q))
    BY Zenon DEF Clean
<1>2. new = Parse(dp, line.key, line.value) /\ ~new.done /\ new \in ParserType
  <2> HIDE DEF line
  <2> QED BY <1>0, <1>1, ParseLineType, Zenon DEF MayBecome
<1>3. ~Fails(dp, v) /\ Parsed(dp, v) = v
    BY <1>0, <1>1, Zenon DEF Fails, Parsed
<1>4. dp.d.Peers = Append(ps, q)
    BY <1>1, Zenon DEF WithPeers, DeviceType
<1>5. Append(ps, q) # <<>>
    BY NotNone, Zenon
<1>6. Parse(dp, key, v) = peerParse(dp, key, v)
    BY <1>4, <1>5, Zenon DEF Parse
<1>7. CurPeer(dp) = q
  <2>1. /\ Len(Append(ps, q)) = Len(ps) + 1
        /\ Append(ps, q)[Len(ps) + 1] = q
    BY LastChanged, Zenon
  <2> QED BY <1>4, <2>1, Zenon DEF CurPeer
<1>8. ASSUME NEW r \in PeerType PROVE WithCurPeer(dp, r) = WithPeers(h, Append(ps, r))
  <2>1. /\ Len(Append(ps, q)) = Len(ps) + 1
        /\ [Append(ps, q) EXCEPT ![Len(ps) + 1] = r] = Append(ps, r)
    BY LastChanged, Zenon
  <2>2. WithCurPeer(dp, r) = [dp.d EXCEPT !.Peers = Append(ps, r)]
    BY <1>4, <2>1, Zenon DEF WithCurPeer
  <2> QED BY <1>1, <2>2, Zenon DEF WithPeers, DeviceType
<1> QED BY <1>0, <1>2, <1>3, <1>6, <1>7, <1>8, Zenon DEF GoesToPeer

\* A number of the last peer.
LEMMA NumberLine ==
    ASSUME NEW h \in DeviceType, NEW ps \in Seq(PeerType), NEW q \in PeerType,
           NEW dp, Clean(dp, h, Append(ps, q)), NEW v \in Nat, NEW key \in DOMAIN PeerField
    PROVE  Clean(ParseLine(dp, Line(key, v)), h, Append(ps, [q EXCEPT ![PeerField[key]] = v]))
<1> DEFINE new == ParseLine(dp, Line(key, v))
           r == [q EXCEPT ![PeerField[key]] = v]
<1>0. key \notin OtherPeerKeys
    BY KeysApart, Zenon
<1>1. key \in Keys \ {"", "not one =", "errno", "public_key"}
    BY Zenon DEF PeerField, Keys
<1>2. /\ new = peerParse(dp, key, v) /\ new \in ParserType /\ ~new.done
      /\ ~Fails(dp, v) /\ Parsed(dp, v) = v /\ CurPeer(dp) = q
      /\ \A x \in PeerType : WithCurPeer(dp, x) = WithPeers(h, Append(ps, x))
  <2>1. GoesToPeer(dp, key, v, h, ps, q)
    BY <1>1, ForThePeer, Zenon
  <2> QED BY <2>1, Zenon DEF GoesToPeer
<1>3. Fails(dp, v) = FALSE
    BY <1>2 DEF Fails, Clean, ParserType
<1>4. r \in PeerType
  <2>1. PeerField[key] \in {"PresharedKey", "ProtocolVersion", "TransmitBytes", "ReceiveBytes",
                            "PersistentKeepaliveInterval"}
    BY DEF PeerField
  <2> DEFINE f == PeerField[key]
  <2> HIDE DEF f
  <2>2. [q EXCEPT ![f] = v] \in PeerType
    BY <2>1, Zenon DEF PeerType, f
  <2> QED BY <2>2 DEF f
<1>5. new = [dp EXCEPT
                !.d = WithCurPeer(dp, [CurPeer(dp) EXCEPT ![PeerField[key]] = Parsed(dp, v)]),
                !.err = Fails(dp, v)]
    BY <1>0, <1>2 DEF peerParse, WithCurPeer, CurPeer, OtherPeerKeys
<1>6. new = [dp EXCEPT !.d = WithCurPeer(dp, r), !.err = FALSE]
    BY <1>2, <1>3, <1>5, Zenon
<1>7. new.d = WithCurPeer(dp, r) /\ new.err = FALSE
  <2> HIDE DEF r, new
  <2> QED BY <1>6 DEF Clean, ParserType
<1> HIDE DEF new
<1>8. Clean(new, h, Append(ps, r))
    BY <1>2, <1>4, <1>7, Zenon DEF Clean
<1> QED BY <1>8 DEF new

\* The endpoint of a peer is not looked at.
LEMMA EndpointLine ==
    ASSUME NEW dp \in ParserType, ~dp.done, NEW v \in Nat \cup {Garbled}
    PROVE  ParseLine(dp, Line("endpoint", v)) = dp
<1> DEFINE line == Line("endpoint", v)
<1>1. line \in LineType /\ line.key = "endpoint" /\ line.value = v
    BY DEF Line, LineType, Keys
<1>2. line \notin {EmptyLine, InvalidLine}
    BY Zenon DEF Line, EmptyLine, InvalidLine
<1>3. "endpoint" \in Keys
    BY DEF Keys
<1> HIDE DEF line
<1>4. ParseLine(dp, line) = Parse(dp, line.key, line.value)
    BY <1>1, <1>2, ParseLineType, Zenon
<1>5. Parse(dp, "endpoint", v) = dp
    BY <1>3, ParseType, Zenon
<1> QED BY <1>1, <1>4, <1>5, Zenon DEF line

\* The seconds of a handshake have been read.
HasSeconds(dp, v, h, ps) == Clean(dp, h, ps) /\ dp.hsSec = v

\* The seconds of the last handshake are kept until its nanoseconds come.
LEMMA SecondsLine ==
    ASSUME NEW h \in DeviceType, NEW ps \in Seq(PeerType), NEW q \in PeerType,
           NEW dp, Clean(dp, h, Append(ps, q)), NEW v \in Nat
    PROVE  HasSeconds(ParseLine(dp, Line("last_handshake_time_sec", v)), v, h, Append(ps, q))
<1> DEFINE key == "last_handshake_time_sec"
           new == ParseLine(dp, Line(key, v))
<1>0. \A k \in DOMAIN PeerField : k \notin OtherPeerKeys
    BY KeysApart, Zenon
<1>1. key \in Keys \ {"", "not one =", "errno", "public_key"}
    BY DEF Keys
<1>2. /\ new = peerParse(dp, key, v) /\ new \in ParserType /\ ~new.done
      /\ ~Fails(dp, v) /\ Parsed(dp, v) = v
  <2>1. GoesToPeer(dp, key, v, h, ps, q)
    BY <1>1, ForThePeer, Zenon
  <2> QED BY <2>1, Zenon DEF GoesToPeer
<1>3. new = [dp EXCEPT !.hsSec = Parsed(dp, v), !.err = Fails(dp, v)]
    BY <1>0, <1>2 DEF peerParse, OtherPeerKeys
<1> HIDE DEF new
<1>4. new.hsSec = v /\ ~new.err /\ new.d = dp.d
    BY <1>2, <1>3, Zenon DEF Clean, ParserType
<1>5. Clean(new, h, Append(ps, q))
    BY <1>2, <1>4, Zenon DEF Clean
<1> QED BY <1>4, <1>5, Zenon DEF new, HasSeconds

\* Then both are the peer's, if there was a handshake.
LEMMA NanosLine ==
    ASSUME NEW h \in DeviceType, NEW ps \in Seq(PeerType), NEW q \in PeerType,
           NEW dp, Clean(dp, h, Append(ps, q)), NEW v \in Nat
    PROVE  Clean(ParseLine(dp, Line("last_handshake_time_nsec", v)), h,
                 Append(ps, [q EXCEPT !.LastHandshakeTime =
                                 IF dp.hsSec > 0 /\ v > 0 THEN <<dp.hsSec, v>> ELSE @]))
<1> DEFINE key == "last_handshake_time_nsec"
           new == ParseLine(dp, Line(key, v))
           r == [q EXCEPT !.LastHandshakeTime =
                     IF dp.hsSec > 0 /\ v > 0 THEN <<dp.hsSec, v>> ELSE @]
<1>0. \A k \in DOMAIN PeerField : k \notin OtherPeerKeys
    BY KeysApart, Zenon
<1>1. key \in Keys \ {"", "not one =", "errno", "public_key"}
    BY DEF Keys
<1>2. /\ new = peerParse(dp, key, v) /\ new \in ParserType /\ ~new.done
      /\ ~Fails(dp, v) /\ Parsed(dp, v) = v /\ CurPeer(dp) = q
      /\ \A x \in PeerType : WithCurPeer(dp, x) = WithPeers(h, Append(ps, x))
  <2>1. GoesToPeer(dp, key, v, h, ps, q)
    BY <1>1, ForThePeer, Zenon
  <2> QED BY <2>1, Zenon DEF GoesToPeer
<1>3. Fails(dp, v) = FALSE
    BY <1>2 DEF Fails, Clean, ParserType
<1>4. r \in PeerType
  <2>1. q.LastHandshakeTime \in Nat \X Nat
    BY DEF PeerType
  <2>2. (IF dp.hsSec > 0 /\ v > 0 THEN <<dp.hsSec, v>> ELSE q.LastHandshakeTime) \in Nat \X Nat
    BY <2>1 DEF Clean, ParserType
  <2> QED BY <2>2, Zenon DEF PeerType
<1>5. new = [dp EXCEPT !.hsNano = Parsed(dp, v), !.err = Fails(dp, v),
                       !.d = WithCurPeer(dp, [CurPeer(dp) EXCEPT !.LastHandshakeTime =
                          IF dp.hsSec > 0 /\ Parsed(dp, v) > 0
                          THEN <<dp.hsSec, Parsed(dp, v)>> ELSE @])]
    BY <1>0, <1>2, Zenon DEF peerParse, WithCurPeer, CurPeer, OtherPeerKeys
<1>6. new = [dp EXCEPT !.hsNano = v, !.err = FALSE, !.d = WithCurPeer(dp, r)]
    BY <1>2, <1>3, <1>5, Zenon
<1>7. new.d = WithCurPeer(dp, r) /\ new.err = FALSE
  <2> HIDE DEF r, new
  <2> QED BY <1>6 DEF Clean, ParserType
<1> HIDE DEF new
<1>8. Clean(new, h, Append(ps, r))
    BY <1>2, <1>4, <1>7, Zenon DEF Clean
<1> QED BY <1>8 DEF new

\* An allowed network is added to the peer's.
LEMMA NetworkLine ==
    ASSUME NEW h \in DeviceType, NEW ps \in Seq(PeerType), NEW q \in PeerType,
           NEW dp, Clean(dp, h, Append(ps, q)), NEW v \in Nat
    PROVE  Clean(ParseLine(dp, Line("allowed_ip", v)), h,
                 Append(ps, [q EXCEPT !.AllowedIPs = Append(@, v)]))
<1> DEFINE key == "allowed_ip"
           new == ParseLine(dp, Line(key, v))
           r == [q EXCEPT !.AllowedIPs = Append(@, v)]
<1>0. \A k \in DOMAIN PeerField : k \notin OtherPeerKeys
    BY KeysApart, Zenon
<1>1. key \in Keys \ {"", "not one =", "errno", "public_key"}
    BY DEF Keys
<1>2. /\ new = peerParse(dp, key, v) /\ new \in ParserType /\ ~new.done
      /\ ~Fails(dp, v) /\ Parsed(dp, v) = v /\ CurPeer(dp) = q
      /\ \A x \in PeerType : WithCurPeer(dp, x) = WithPeers(h, Append(ps, x))
  <2>1. GoesToPeer(dp, key, v, h, ps, q)
    BY <1>1, ForThePeer, Zenon
  <2> QED BY <2>1, Zenon DEF GoesToPeer
<1>3. Fails(dp, v) = FALSE
    BY <1>2 DEF Fails, Clean, ParserType
<1>4. r \in PeerType
  <2>1. Append(q.AllowedIPs, v) \in Seq(Nat)
    BY DEF PeerType
  <2> QED BY <2>1, Zenon DEF PeerType
<1>5. new = [dp EXCEPT !.err = Fails(dp, v),
                       !.d = WithCurPeer(dp, [CurPeer(dp) EXCEPT !.AllowedIPs =
                                IF Fails(dp, v) THEN @ ELSE Append(@, Parsed(dp, v))])]
    BY <1>0, <1>2, Zenon DEF peerParse, WithCurPeer, CurPeer, OtherPeerKeys
<1>6. new = [dp EXCEPT !.err = FALSE, !.d = WithCurPeer(dp, r)]
    BY <1>2, <1>3, <1>5, Zenon
<1>7. new.d = WithCurPeer(dp, r) /\ new.err = FALSE
  <2> HIDE DEF r, new
  <2> QED BY <1>6 DEF Clean, ParserType
<1> HIDE DEF new
<1>8. Clean(new, h, Append(ps, r))
    BY <1>2, <1>4, <1>7, Zenon DEF Clean
<1> QED BY <1>8 DEF new

-----------------------------------------------------------------------------
(* What all the lines of a peer do.                                         *)

\* The lines of a peer, those before its networks and those of its networks.
PeerHead(p) ==
    <<Line("public_key", p.PublicKey), Line("preshared_key", p.PresharedKey),
      Line("protocol_version", p.ProtocolVersion), Line("endpoint", 1),
      Line("last_handshake_time_sec", p.LastHandshakeTime[1]),
      Line("last_handshake_time_nsec", p.LastHandshakeTime[2]),
      Line("tx_bytes", p.TransmitBytes), Line("rx_bytes", p.ReceiveBytes),
      Line("persistent_keepalive_interval", p.PersistentKeepaliveInterval)>>

PeerNetworks(p) == [i \in DOMAIN p.AllowedIPs |-> Line("allowed_ip", p.AllowedIPs[i])]

\* The peer as it is shown.
ShownPeer(p) ==
    [p EXCEPT !.LastHandshakeTime = IF @[1] > 0 /\ @[2] > 0 THEN @ ELSE <<0, 0>>]

\* A peer as far as it has been read.
Read(key, psk, version, hs, tx, rx, keep, ips) ==
    [PublicKey |-> key, PresharedKey |-> psk, ProtocolVersion |-> version,
     LastHandshakeTime |-> hs, TransmitBytes |-> tx, ReceiveBytes |-> rx,
     PersistentKeepaliveInterval |-> keep, AllowedIPs |-> ips]

\* It is a peer.
LEMMA ReadType ==
    ASSUME NEW key \in Nat, NEW psk \in Nat, NEW version \in Nat, NEW hs \in Nat \X Nat,
           NEW tx \in Nat, NEW rx \in Nat, NEW keep \in Nat, NEW ips \in Seq(Nat)
    PROVE  Read(key, psk, version, hs, tx, rx, keep, ips) \in PeerType
    BY DEF Read, PeerType

\* A peer with another handshake and other networks, field by field.
LEMMA PeerFields ==
    ASSUME NEW p \in PeerType, NEW x, NEW y
    PROVE  [[p EXCEPT !.LastHandshakeTime = x] EXCEPT !.AllowedIPs = y]
             = Read(p.PublicKey, p.PresharedKey, p.ProtocolVersion, x, p.TransmitBytes,
                    p.ReceiveBytes, p.PersistentKeepaliveInterval, y)
<1> DEFINE ips == p.AllowedIPs
           q == Read(p.PublicKey, p.PresharedKey, p.ProtocolVersion, p.LastHandshakeTime,
                     p.TransmitBytes, p.ReceiveBytes, p.PersistentKeepaliveInterval, ips)
<1>1. p = q
    BY SMT DEF PeerType, Read
<1> DEFINE r == Read(p.PublicKey, p.PresharedKey, p.ProtocolVersion, x, p.TransmitBytes,
                     p.ReceiveBytes, p.PersistentKeepaliveInterval, y)
           s == Read(p.PublicKey, p.PresharedKey, p.ProtocolVersion, x, p.TransmitBytes,
                     p.ReceiveBytes, p.PersistentKeepaliveInterval, ips)
<1>2. [q EXCEPT !.LastHandshakeTime = x] = s /\ [s EXCEPT !.AllowedIPs = y] = r
    BY DEF Read
<1> HIDE DEF q, r, s
<1>3. [[p EXCEPT !.LastHandshakeTime = x] EXCEPT !.AllowedIPs = y] = r
    BY <1>1, <1>2, Zenon
<1> QED BY <1>3, Zenon DEF r

\* The lines of a peer before its networks.
LEMMA PeerHeadRead ==
    ASSUME NEW h \in DeviceType, NEW ps \in Seq(PeerType), NEW dp, Clean(dp, h, ps),
           NEW p \in PeerType
    PROVE  Clean(ParseLines(dp, PeerHead(p)), h,
                 Append(ps, [ShownPeer(p) EXCEPT !.AllowedIPs = <<>>]))
<1> DEFINE key == p.PublicKey
           psk == p.PresharedKey
           version == p.ProtocolVersion
           hs == p.LastHandshakeTime
           tx == p.TransmitBytes
           rx == p.ReceiveBytes
           keep == p.PersistentKeepaliveInterval
           hss == IF hs[1] > 0 /\ hs[2] > 0 THEN <<hs[1], hs[2]>> ELSE <<0, 0>>
           zz == <<0, 0>>
           lines == PeerHead(p)
           none == <<>>
<1>1. /\ key \in Nat /\ psk \in Nat /\ version \in Nat /\ hs \in Nat \X Nat /\ hs[1] \in Nat
      /\ hs[2] \in Nat /\ tx \in Nat /\ rx \in Nat /\ keep \in Nat
    BY DEF PeerType
<1>2. zz \in Nat \X Nat /\ hss \in Nat \X Nat /\ 0 \in Nat /\ none \in Seq(Nat)
    BY <1>1
<1>3. [ShownPeer(p) EXCEPT !.AllowedIPs = <<>>] = Read(key, psk, version, hss, tx, rx, keep, none)
  <2>1. hs = <<hs[1], hs[2]>>
    BY <1>1
  <2>2. hss = IF hs[1] > 0 /\ hs[2] > 0 THEN hs ELSE <<0, 0>>
    BY <2>1, Zenon
  <2>3. ShownPeer(p) = [p EXCEPT !.LastHandshakeTime = hss]
    BY <2>2, Zenon DEF ShownPeer
  <2> HIDE DEF hss
  <2>4. [[p EXCEPT !.LastHandshakeTime = hss] EXCEPT !.AllowedIPs = none]
          = Read(key, psk, version, hss, tx, rx, keep, none)
    BY PeerFields, Zenon
  <2> QED BY <2>3, <2>4, Zenon
<1>4. NewPeer(key) = Read(key, 0, 0, zz, 0, 0, 0, none)
    BY Zenon DEF NewPeer, Read
<1>5. /\ 9 \in Nat /\ Len(lines) = 9
      /\ 1 \in 1 .. 9 /\ 2 \in 1 .. 9 /\ 3 \in 1 .. 9 /\ 4 \in 1 .. 9 /\ 5 \in 1 .. 9
      /\ 6 \in 1 .. 9 /\ 7 \in 1 .. 9 /\ 8 \in 1 .. 9 /\ 9 \in 1 .. 9
      /\ 1 - 1 = 0 /\ 2 - 1 = 1 /\ 3 - 1 = 2 /\ 4 - 1 = 3 /\ 5 - 1 = 4 /\ 6 - 1 = 5
      /\ 7 - 1 = 6 /\ 8 - 1 = 7 /\ 9 - 1 = 8
    BY DEF PeerHead
<1>6. /\ lines[1] = Line("public_key", key) /\ lines[2] = Line("preshared_key", psk)
      /\ lines[3] = Line("protocol_version", version) /\ lines[4] = Line("endpoint", 1)
      /\ lines[5] = Line("last_handshake_time_sec", hs[1])
      /\ lines[6] = Line("last_handshake_time_nsec", hs[2])
      /\ lines[7] = Line("tx_bytes", tx) /\ lines[8] = Line("rx_bytes", rx)
      /\ lines[9] = Line("persistent_keepalive_interval", keep)
    BY Zenon DEF PeerHead
<1>7. /\ "preshared_key" \in DOMAIN PeerField /\ "protocol_version" \in DOMAIN PeerField
      /\ "tx_bytes" \in DOMAIN PeerField /\ "rx_bytes" \in DOMAIN PeerField
      /\ "persistent_keepalive_interval" \in DOMAIN PeerField
    BY DEF PeerField
<1>r. /\ PeerField["preshared_key"] = "PresharedKey"
      /\ PeerField["protocol_version"] = "ProtocolVersion"
      /\ PeerField["tx_bytes"] = "TransmitBytes" /\ PeerField["rx_bytes"] = "ReceiveBytes"
      /\ PeerField["persistent_keepalive_interval"] = "PersistentKeepaliveInterval"
    BY DEF PeerField
<1> HIDE DEF key, psk, version, hs, tx, rx, keep, lines, none
<1>8. PICK f : LineByLine(f, dp, lines, 9) /\ ParseLines(dp, lines) = f[9]
  <2>1. 9 \in Nat /\ Len(lines) = 9
    BY <1>5, Zenon
  <2> QED BY <2>1, ParseIs, Zenon
<1>9. /\ f[0] = dp
      /\ f[1] = ParseLine(f[0], lines[1]) /\ f[2] = ParseLine(f[1], lines[2])
      /\ f[3] = ParseLine(f[2], lines[3]) /\ f[4] = ParseLine(f[3], lines[4])
      /\ f[5] = ParseLine(f[4], lines[5]) /\ f[6] = ParseLine(f[5], lines[6])
      /\ f[7] = ParseLine(f[6], lines[7]) /\ f[8] = ParseLine(f[7], lines[8])
      /\ f[9] = ParseLine(f[8], lines[9])
    BY <1>5, <1>8, Zenon DEF LineByLine
<1> HIDE DEF hss, zz
<1>n. ASSUME NEW k \in DOMAIN PeerField, NEW q \in PeerType, NEW x, Clean(x, h, Append(ps, q)),
             NEW v \in Nat
      PROVE  Clean(ParseLine(x, Line(k, v)), h, Append(ps, [q EXCEPT ![PeerField[k]] = v]))
    BY <1>n, NumberLine, Zenon
<1>11. Clean(f[1], h, Append(ps, Read(key, 0, 0, zz, 0, 0, 0, none)))
    BY <1>1, <1>4, <1>6, <1>9, PeerBegins, Zenon
<1>12. Clean(f[2], h, Append(ps, Read(key, psk, 0, zz, 0, 0, 0, none)))
  <2> DEFINE q == Read(key, 0, 0, zz, 0, 0, 0, none)
  <2>1. q \in PeerType
    BY <1>1, <1>2, ReadType, Zenon
  <2>2. [q EXCEPT ![PeerField["preshared_key"]] = psk]
          = Read(key, psk, 0, zz, 0, 0, 0, none)
    <3>1. [q EXCEPT !.PresharedKey = psk] = Read(key, psk, 0, zz, 0, 0, 0, none)
        BY DEF Read
    <3> QED BY <1>r, <3>1, Zenon
  <2> HIDE DEF q
  <2>3. Clean(f[1], h, Append(ps, q))
    BY <1>11, Zenon DEF q
  <2>4. Clean(ParseLine(f[1], Line("preshared_key", psk)), h,
              Append(ps, [q EXCEPT ![PeerField["preshared_key"]] = psk]))
    BY <1>1, <1>7, <1>n, <2>1, <2>3
  <2> QED BY <1>6, <1>9, <2>2, <2>4, Zenon
<1>13. Clean(f[3], h, Append(ps, Read(key, psk, version, zz, 0, 0, 0, none)))
  <2> DEFINE q == Read(key, psk, 0, zz, 0, 0, 0, none)
  <2>1. q \in PeerType
    BY <1>1, <1>2, ReadType, Zenon
  <2>2. [q EXCEPT ![PeerField["protocol_version"]] = version]
          = Read(key, psk, version, zz, 0, 0, 0, none)
    <3>1. [q EXCEPT !.ProtocolVersion = version] = Read(key, psk, version, zz, 0, 0, 0, none)
        BY DEF Read
    <3> QED BY <1>r, <3>1, Zenon
  <2> HIDE DEF q
  <2>3. Clean(f[2], h, Append(ps, q))
    BY <1>12, Zenon DEF q
  <2>4. Clean(ParseLine(f[2], Line("protocol_version", version)), h,
              Append(ps, [q EXCEPT ![PeerField["protocol_version"]] = version]))
    BY <1>1, <1>7, <1>n, <2>1, <2>3
  <2> QED BY <1>6, <1>9, <2>2, <2>4, Zenon
<1> DEFINE q3 == Read(key, psk, version, zz, 0, 0, 0, none)
<1>q. q3 \in PeerType
    BY <1>1, <1>2, ReadType, Zenon
<1>14. f[4] = f[3]
  <2>1. f[3] \in ParserType /\ ~f[3].done /\ 1 \in Nat \cup {Garbled}
    BY <1>13 DEF Clean
  <2> QED BY <1>6, <1>9, <2>1, EndpointLine, Zenon
<1>15. Clean(f[5], h, Append(ps, q3)) /\ f[5].hsSec = hs[1]
  <2>1. Clean(f[4], h, Append(ps, q3))
    BY <1>13, <1>14, Zenon
  <2> HIDE DEF q3
  <2>2. /\ Clean(ParseLine(f[4], Line("last_handshake_time_sec", hs[1])), h, Append(ps, q3))
        /\ ParseLine(f[4], Line("last_handshake_time_sec", hs[1])).hsSec = hs[1]
    <3> DEFINE x == f[4]
               v == hs[1]
    <3>1. Clean(x, h, Append(ps, q3)) /\ v \in Nat
        BY <1>1, <2>1, Zenon
    <3> HIDE DEF x, v
    <3>2. HasSeconds(ParseLine(x, Line("last_handshake_time_sec", v)), v, h, Append(ps, q3))
        BY <1>q, <3>1, SecondsLine, Zenon
    <3> QED BY <3>2, Zenon DEF x, v, HasSeconds
  <2> QED BY <1>6, <1>9, <2>2, Zenon
<1>16. Clean(f[6], h, Append(ps, Read(key, psk, version, hss, 0, 0, 0, none)))
  <2>1. [q3 EXCEPT !.LastHandshakeTime =
             IF f[5].hsSec > 0 /\ hs[2] > 0 THEN <<f[5].hsSec, hs[2]>> ELSE @]
          = Read(key, psk, version, hss, 0, 0, 0, none)
    <3>1. q3.LastHandshakeTime = <<0, 0>>
        BY DEF Read, zz
    <3>2. hss = IF f[5].hsSec > 0 /\ hs[2] > 0 THEN <<f[5].hsSec, hs[2]>> ELSE q3.LastHandshakeTime
        BY <1>15, <3>1, Zenon DEF hss
    <3>3. [q3 EXCEPT !.LastHandshakeTime = hss] = Read(key, psk, version, hss, 0, 0, 0, none)
        BY DEF Read
    <3> QED BY <3>2, <3>3, Zenon
  <2> HIDE DEF q3
  <2>2. Clean(ParseLine(f[5], Line("last_handshake_time_nsec", hs[2])), h,
              Append(ps, [q3 EXCEPT !.LastHandshakeTime =
                        IF f[5].hsSec > 0 /\ hs[2] > 0 THEN <<f[5].hsSec, hs[2]>> ELSE @]))
    BY <1>1, <1>15, <1>q, NanosLine
  <2> QED BY <1>6, <1>9, <2>1, <2>2, Zenon
<1> HIDE DEF q3
<1>17. Clean(f[7], h, Append(ps, Read(key, psk, version, hss, tx, 0, 0, none)))
  <2> DEFINE q == Read(key, psk, version, hss, 0, 0, 0, none)
  <2>1. q \in PeerType
    BY <1>1, <1>2, ReadType, Zenon
  <2>2. [q EXCEPT ![PeerField["tx_bytes"]] = tx]
          = Read(key, psk, version, hss, tx, 0, 0, none)
    <3>1. [q EXCEPT !.TransmitBytes = tx] = Read(key, psk, version, hss, tx, 0, 0, none)
        BY DEF Read
    <3> QED BY <1>r, <3>1, Zenon
  <2> HIDE DEF q
  <2>3. Clean(f[6], h, Append(ps, q))
    BY <1>16, Zenon DEF q
  <2>4. Clean(ParseLine(f[6], Line("tx_bytes", tx)), h,
              Append(ps, [q EXCEPT ![PeerField["tx_bytes"]] = tx]))
    BY <1>1, <1>7, <1>n, <2>1, <2>3
  <2> QED BY <1>6, <1>9, <2>2, <2>4, Zenon
<1>18. Clean(f[8], h, Append(ps, Read(key, psk, version, hss, tx, rx, 0, none)))
  <2> DEFINE q == Read(key, psk, version, hss, tx, 0, 0, none)
  <2>1. q \in PeerType
    BY <1>1, <1>2, ReadType, Zenon
  <2>2. [q EXCEPT ![PeerField["rx_bytes"]] = rx]
          = Read(key, psk, version, hss, tx, rx, 0, none)
    <3>1. [q EXCEPT !.ReceiveBytes = rx] = Read(key, psk, version, hss, tx, rx, 0, none)
        BY DEF Read
    <3> QED BY <1>r, <3>1, Zenon
  <2> HIDE DEF q
  <2>3. Clean(f[7], h, Append(ps, q))
    BY <1>17, Zenon DEF q
  <2>4. Clean(ParseLine(f[7], Line("rx_bytes", rx)), h,
              Append(ps, [q EXCEPT ![PeerField["rx_bytes"]] = rx]))
    BY <1>1, <1>7, <1>n, <2>1, <2>3
  <2> QED BY <1>6, <1>9, <2>2, <2>4, Zenon
<1>19. Clean(f[9], h, Append(ps, Read(key, psk, version, hss, tx, rx, keep, none)))
  <2> DEFINE q == Read(key, psk, version, hss, tx, rx, 0, none)
  <2>1. q \in PeerType
    BY <1>1, <1>2, ReadType, Zenon
  <2>2. [q EXCEPT ![PeerField["persistent_keepalive_interval"]] = keep]
          = Read(key, psk, version, hss, tx, rx, keep, none)
    <3>1. [q EXCEPT !.PersistentKeepaliveInterval = keep]
            = Read(key, psk, version, hss, tx, rx, keep, none)
        BY DEF Read
    <3> QED BY <1>r, <3>1, Zenon
  <2> HIDE DEF q
  <2>3. Clean(f[8], h, Append(ps, q))
    BY <1>18, Zenon DEF q
  <2>4. Clean(ParseLine(f[8], Line("persistent_keepalive_interval", keep)), h,
              Append(ps, [q EXCEPT ![PeerField["persistent_keepalive_interval"]] = keep]))
    BY <1>1, <1>7, <1>n, <2>1, <2>3
  <2> QED BY <1>6, <1>9, <2>2, <2>4, Zenon
<1> QED BY <1>3, <1>8, <1>19, Zenon DEF lines

\* The lines of a peer are lines.
LEMMA PeerLinesType ==
    ASSUME NEW p \in PeerType
    PROVE  /\ PeerHead(p) \in Seq(LineType) /\ PeerNetworks(p) \in Seq(LineType)
           /\ LinesOfPeer(p) = PeerHead(p) \o PeerNetworks(p)
           /\ Len(PeerHead(p)) = 9 /\ Len(PeerNetworks(p)) = Len(p.AllowedIPs)
<1>1. /\ p.PublicKey \in Nat /\ p.PresharedKey \in Nat /\ p.ProtocolVersion \in Nat
      /\ p.LastHandshakeTime[1] \in Nat /\ p.LastHandshakeTime[2] \in Nat
      /\ p.TransmitBytes \in Nat /\ p.ReceiveBytes \in Nat
      /\ p.PersistentKeepaliveInterval \in Nat /\ p.AllowedIPs \in Seq(Nat)
    BY DEF PeerType
<1>2. ASSUME NEW key \in Keys, NEW v \in Nat PROVE Line(key, v) \in LineType
    BY DEF Line, LineType
<1>3. /\ Line("public_key", p.PublicKey) \in LineType
      /\ Line("preshared_key", p.PresharedKey) \in LineType
      /\ Line("protocol_version", p.ProtocolVersion) \in LineType
      /\ Line("endpoint", 1) \in LineType
      /\ Line("last_handshake_time_sec", p.LastHandshakeTime[1]) \in LineType
      /\ Line("last_handshake_time_nsec", p.LastHandshakeTime[2]) \in LineType
      /\ Line("tx_bytes", p.TransmitBytes) \in LineType
      /\ Line("rx_bytes", p.ReceiveBytes) \in LineType
      /\ Line("persistent_keepalive_interval", p.PersistentKeepaliveInterval) \in LineType
    BY <1>1, <1>2, Zenon DEF Keys
<1>4. PeerHead(p) \in Seq(LineType) /\ Len(PeerHead(p)) = 9
    BY <1>3 DEF PeerHead
<1>5. PeerNetworks(p) \in Seq(LineType) /\ Len(PeerNetworks(p)) = Len(p.AllowedIPs)
  <2> DEFINE ips == p.AllowedIPs
  <2>1. ips \in Seq(Nat) /\ DOMAIN ips = 1 .. Len(ips) /\ Len(ips) \in Nat
    BY <1>1
  <2> HIDE DEF ips
  <2>a. "allowed_ip" \in Keys /\ \A i \in 1 .. Len(ips) : ips[i] \in Nat
    BY <2>1 DEF Keys
  <2>2. \A i \in 1 .. Len(ips) : Line("allowed_ip", ips[i]) \in LineType
    BY <1>2, <2>a, Zenon
  <2>3. [i \in 1 .. Len(ips) |-> Line("allowed_ip", ips[i])] \in Seq(LineType)
    BY <2>1, <2>2
  <2>4. Len([i \in 1 .. Len(ips) |-> Line("allowed_ip", ips[i])]) = Len(ips)
    BY <2>1
  <2>5. PeerNetworks(p) = [i \in 1 .. Len(ips) |-> Line("allowed_ip", ips[i])]
    BY <2>1, Zenon DEF PeerNetworks, ips
  <2> QED BY <2>3, <2>4, <2>5, Zenon DEF ips
<1>6. LinesOfPeer(p) = PeerHead(p) \o PeerNetworks(p)
    BY Zenon DEF LinesOfPeer, PeerHead, PeerNetworks
<1> QED BY <1>4, <1>5, <1>6, Zenon

\* A peer as it is shown is one.
LEMMA ShownPeerType ==
    ASSUME NEW p \in PeerType
    PROVE  ShownPeer(p) \in PeerType /\ ShownPeer(p).AllowedIPs = p.AllowedIPs
<1> DEFINE hs == IF p.LastHandshakeTime[1] > 0 /\ p.LastHandshakeTime[2] > 0
                 THEN p.LastHandshakeTime ELSE <<0, 0>>
<1>1. hs \in Nat \X Nat
    BY DEF PeerType
<1>2. ShownPeer(p) = [p EXCEPT !.LastHandshakeTime = hs]
    BY Zenon DEF ShownPeer
<1> HIDE DEF hs
<1> QED BY <1>1, <1>2, Zenon DEF PeerType

\* The networks of a peer.
LEMMA NetworksRead ==
    ASSUME NEW h \in DeviceType, NEW ps \in Seq(PeerType), NEW q \in PeerType, NEW dp,
           Clean(dp, h, Append(ps, [q EXCEPT !.AllowedIPs = <<>>])),
           NEW p \in PeerType, q.AllowedIPs = p.AllowedIPs
    PROVE  Clean(ParseLines(dp, PeerNetworks(p)), h, Append(ps, q))
<1> DEFINE s == p.AllowedIPs
           N == Len(s)
           lines == PeerNetworks(p)
           With(n) == [q EXCEPT !.AllowedIPs = SubSeq(s, 1, n)]
<1>1. s \in Seq(Nat) /\ N \in Nat /\ Len(lines) = N
  <2>1. s \in Seq(Nat)
    BY DEF PeerType
  <2>2. N \in Nat
    BY <2>1
  <2> QED BY <2>1, <2>2, PeerLinesType, Zenon
<1>2. \A n \in 1 .. N : lines[n] = Line("allowed_ip", s[n]) /\ s[n] \in Nat
    BY <1>1 DEF PeerNetworks
<1>3. /\ SubSeq(s, 1, 0) = <<>> /\ SubSeq(s, 1, N) = s
      /\ \A n \in 1 .. N : SubSeq(s, 1, n) = Append(SubSeq(s, 1, n - 1), s[n])
      /\ \A n \in 0 .. N : SubSeq(s, 1, n) \in Seq(Nat)
    BY <1>1, SMTT(20)
<1> HIDE DEF s, N, lines
<1>4. PICK f : LineByLine(f, dp, lines, N) /\ ParseLines(dp, lines) = f[N]
    BY <1>1, ParseIs, Zenon
<1>5. \A n \in 0 .. N : With(n) \in PeerType
    BY <1>3, Zenon DEF PeerType
<1>6. With(N) = q
    BY <1>3 DEF PeerType, s
<1>7. ASSUME NEW n \in 1 .. N
      PROVE  [With(n - 1) EXCEPT !.AllowedIPs = Append(@, s[n])] = With(n)
  <2>1. SubSeq(s, 1, n) = Append(SubSeq(s, 1, n - 1), s[n])
    BY <1>3
  <2> DEFINE a == SubSeq(s, 1, n - 1)
             b == SubSeq(s, 1, n)
  <2> HIDE DEF a, b
  <2>2. [[q EXCEPT !.AllowedIPs = a] EXCEPT !.AllowedIPs = Append(@, s[n])]
          = [q EXCEPT !.AllowedIPs = Append(a, s[n])]
    BY Zenon DEF PeerType
  <2> QED BY <2>1, <2>2, Zenon DEF a, b
<1> DEFINE W == {n \in 0 .. N : Clean(f[n], h, Append(ps, With(n)))}
<1>8. 0 \in W
  <2>1. 0 \in 0 .. N
    BY <1>1
  <2>2. f[0] = dp
    BY <1>4, Zenon DEF LineByLine
  <2> QED BY <1>3, <2>1, <2>2, Zenon
<1> HIDE DEF With
<1>9. ASSUME NEW n \in 1 .. N, n - 1 \in W PROVE n \in W
  <2>1. n \in 0 .. N /\ n - 1 \in 0 .. N
    BY <1>1
  <2>2. f[n] = ParseLine(f[n - 1], lines[n])
    BY <1>4, Zenon DEF LineByLine
  <2> DEFINE r == With(n - 1)
             x == f[n - 1]
             v == s[n]
  <2>3. r \in PeerType /\ Clean(x, h, Append(ps, r)) /\ v \in Nat
    BY <1>2, <1>5, <1>9, <2>1, Zenon
  <2>4. /\ f[n] = ParseLine(x, Line("allowed_ip", v))
        /\ [r EXCEPT !.AllowedIPs = Append(@, v)] = With(n)
    BY <1>2, <1>7, <2>2, Zenon
  <2> HIDE DEF r, x, v
  <2>5. Clean(ParseLine(x, Line("allowed_ip", v)), h,
              Append(ps, [r EXCEPT !.AllowedIPs = Append(@, v)]))
    BY <2>3, NetworkLine
  <2> QED BY <2>1, <2>4, <2>5, Zenon
<1>10. \A n \in 0 .. N : n \in W
  <2> HIDE DEF W
  <2> QED BY <1>1, <1>8, <1>9, AllRounds, Zenon
<1>11. N \in 0 .. N
    BY <1>1
<1> QED BY <1>4, <1>6, <1>10, <1>11, Zenon DEF lines

\* All the lines of a peer: it is added as it is shown.
LEMMA PeerRead ==
    ASSUME NEW h \in DeviceType, NEW ps \in Seq(PeerType), NEW dp, Clean(dp, h, ps),
           NEW p \in PeerType
    PROVE  Clean(ParseLines(dp, LinesOfPeer(p)), h, Append(ps, ShownPeer(p)))
<1> DEFINE q == ShownPeer(p)
           x == ParseLines(dp, PeerHead(p))
<1>1. q \in PeerType /\ q.AllowedIPs = p.AllowedIPs
    BY ShownPeerType, Zenon
<1>2. Clean(x, h, Append(ps, [q EXCEPT !.AllowedIPs = <<>>]))
    BY PeerHeadRead, Zenon
<1>3. ParseLines(dp, LinesOfPeer(p)) = ParseLines(x, PeerNetworks(p))
  <2> DEFINE a == PeerHead(p)
             b == PeerNetworks(p)
  <2>1. a \in Seq(LineType) /\ b \in Seq(LineType) /\ LinesOfPeer(p) = a \o b
    BY PeerLinesType, Zenon
  <2> HIDE DEF a, b
  <2>2. ParseLines(dp, a \o b) = ParseLines(ParseLines(dp, a), b)
    BY <2>1, ParseParts
  <2> QED BY <2>1, <2>2, Zenon DEF a, b
<1> HIDE DEF q, x
<1>4. Clean(ParseLines(x, PeerNetworks(p)), h, Append(ps, q))
    BY <1>1, <1>2, NetworksRead, Zenon
<1> QED BY <1>3, <1>4, Zenon DEF q

-----------------------------------------------------------------------------
(* What all the lines of a device do.                                       *)

\* The lines before those of the peers, and the lines of each peer.
DeviceHead(d) ==
    <<Line("private_key", d.PrivateKey), Line("listen_port", d.ListenPort)>>
    \o (IF d.FirewallMark = 0 THEN <<>> ELSE <<Line("fwmark", d.FirewallMark)>>)

LinesOfPeers(d) == [i \in DOMAIN d.Peers |-> LinesOfPeer(d.Peers[i])]

\* A device, field by field.
Device(key, port, mark, ps) ==
    [PrivateKey |-> key, ListenPort |-> port, FirewallMark |-> mark, Peers |-> ps]

\* A line of the device itself.
LEMMA DeviceLine ==
    ASSUME NEW a \in Nat, NEW b \in Nat, NEW c \in Nat, NEW dp,
           Clean(dp, Device(a, b, c, <<>>), <<>>), NEW v \in Nat
    PROVE  /\ Clean(ParseLine(dp, Line("private_key", v)), Device(v, b, c, <<>>), <<>>)
           /\ Clean(ParseLine(dp, Line("listen_port", v)), Device(a, v, c, <<>>), <<>>)
           /\ Clean(ParseLine(dp, Line("fwmark", v)), Device(a, b, v, <<>>), <<>>)
<1>1. /\ dp \in ParserType /\ ~dp.err /\ ~dp.done
      /\ dp.d = WithPeers(Device(a, b, c, <<>>), <<>>)
    BY Zenon DEF Clean
<1>2. \A x, y, z : WithPeers(Device(x, y, z, <<>>), <<>>) = Device(x, y, z, <<>>)
    BY DEF WithPeers, Device
<1>3. dp.d = Device(a, b, c, <<>>) /\ dp.d.Peers = <<>>
    BY <1>1, <1>2 DEF Device
<1>4. ASSUME NEW key \in DOMAIN DeviceField
      PROVE  LET new == ParseLine(dp, Line(key, v)) IN
             /\ new \in ParserType /\ ~new.done /\ ~new.err
             /\ new.d = [dp.d EXCEPT ![DeviceField[key]] = v]
  <2> DEFINE line == Line(key, v)
             new == ParseLine(dp, line)
  <2>1. key \in Keys /\ key \notin {"", "not one =", "errno", "public_key"}
    BY Zenon DEF DeviceField, Keys
  <2>2. line \in LineType /\ line \notin {EmptyLine, InvalidLine} /\ line.key = key
        /\ line.value = v /\ v # Garbled
    BY <2>1, GoodLine, Zenon
  <2>3. new = Parse(dp, line.key, line.value) /\ ~new.done /\ new \in ParserType
    <3> HIDE DEF line
    <3> QED BY <1>1, <2>2, ParseLineType, Zenon DEF MayBecome
  <2>4. ~Fails(dp, v) /\ Parsed(dp, v) = v
    BY <1>1, <2>2 DEF Fails, Parsed
  <2>5. Parse(dp, key, v) = [dp EXCEPT !.d = [dp.d EXCEPT ![DeviceField[key]] = Parsed(dp, v)],
                                       !.err = Fails(dp, v)]
    BY <1>3, <2>1, Zenon DEF Parse
  <2>6. new = Parse(dp, key, v)
    BY <2>2, <2>3, Zenon
  <2> HIDE DEF new, line
  <2>7. new.d = [dp.d EXCEPT ![DeviceField[key]] = Parsed(dp, v)] /\ new.err = Fails(dp, v)
    BY <1>1, <2>5, <2>6 DEF ParserType
  <2>8. ~new.err /\ new.d = [dp.d EXCEPT ![DeviceField[key]] = v]
    BY <2>4, <2>7, Zenon
  <2> QED BY <2>3, <2>8, Zenon DEF new, line
<1>5. /\ DeviceField["private_key"] = "PrivateKey" /\ DeviceField["listen_port"] = "ListenPort"
      /\ DeviceField["fwmark"] = "FirewallMark"
    BY DEF DeviceField
<1>6. /\ [Device(a, b, c, <<>>) EXCEPT !["PrivateKey"] = v] = Device(v, b, c, <<>>)
      /\ [Device(a, b, c, <<>>) EXCEPT !["ListenPort"] = v] = Device(a, v, c, <<>>)
      /\ [Device(a, b, c, <<>>) EXCEPT !["FirewallMark"] = v] = Device(a, b, v, <<>>)
  <2> DEFINE none == <<>>
  <2> HIDE DEF none
  <2>1. [Device(a, b, c, none) EXCEPT !.PrivateKey = v] = Device(v, b, c, none)
    BY DEF Device
  <2>2. [Device(a, b, c, none) EXCEPT !.ListenPort = v] = Device(a, v, c, none)
    BY DEF Device
  <2>3. [Device(a, b, c, none) EXCEPT !.FirewallMark = v] = Device(a, b, v, none)
    BY DEF Device
  <2> QED BY <2>1, <2>2, <2>3, Zenon DEF none
<1>7. ASSUME NEW key \in DOMAIN DeviceField, NEW x, NEW y, NEW z,
             [dp.d EXCEPT ![DeviceField[key]] = v] = Device(x, y, z, <<>>)
      PROVE  Clean(ParseLine(dp, Line(key, v)), Device(x, y, z, <<>>), <<>>)
  <2> DEFINE new == ParseLine(dp, Line(key, v))
             e == Device(x, y, z, <<>>)
  <2>1. new \in ParserType /\ ~new.done /\ ~new.err /\ new.d = e
    BY <1>4, <1>7, Zenon
  <2>2. e = WithPeers(e, <<>>)
    BY <1>2, Zenon
  <2> HIDE DEF new, e
  <2>3. Clean(new, e, <<>>)
    BY <2>1, <2>2, Zenon DEF Clean
  <2> QED BY <2>3, Zenon DEF new, e
<1>8. /\ [dp.d EXCEPT ![DeviceField["private_key"]] = v] = Device(v, b, c, <<>>)
      /\ [dp.d EXCEPT ![DeviceField["listen_port"]] = v] = Device(a, v, c, <<>>)
      /\ [dp.d EXCEPT ![DeviceField["fwmark"]] = v] = Device(a, b, v, <<>>)
    BY <1>3, <1>5, <1>6, Zenon
<1>9. /\ "private_key" \in DOMAIN DeviceField /\ "listen_port" \in DOMAIN DeviceField
      /\ "fwmark" \in DOMAIN DeviceField
    BY DEF DeviceField
<1> QED BY <1>7, <1>8, <1>9, Zenon

\* The parser at its beginning.
LEMMA BeginsClean == Clean(NewParser, Device(0, 0, 0, <<>>), <<>>)
<1>1. <<>> \in Seq(PeerType)
    OBVIOUS
<1> QED BY <1>1 DEF Clean, NewParser, WithPeers, Device, ParserType, DeviceType

\* The lines before the peers.
LEMMA HeadRead ==
    ASSUME NEW d \in DeviceType
    PROVE  Clean(ParseLines(NewParser, DeviceHead(d)),
                 Device(d.PrivateKey, d.ListenPort, d.FirewallMark, <<>>), <<>>)
<1> DEFINE a == d.PrivateKey
           b == d.ListenPort
           c == d.FirewallMark
           lines == DeviceHead(d)
           two == <<Line("private_key", a), Line("listen_port", b)>>
<1>1. a \in Nat /\ b \in Nat /\ c \in Nat /\ 0 \in Nat
    BY DEF DeviceType
<1> HIDE DEF a, b, c
<1>2. Clean(NewParser, Device(0, 0, 0, <<>>), <<>>)
    BY BeginsClean
<1>3. Clean(ParseLine(NewParser, Line("private_key", a)), Device(a, 0, 0, <<>>), <<>>)
    BY <1>1, <1>2, DeviceLine, Zenon
<1>4. Clean(ParseLine(ParseLine(NewParser, Line("private_key", a)), Line("listen_port", b)),
            Device(a, b, 0, <<>>), <<>>)
    BY <1>1, <1>3, DeviceLine, Zenon
<1>5. CASE c = 0
  <2>1. lines = two \o <<>>
    BY <1>5 DEF DeviceHead, a, b, c
  <2>2. /\ Len(lines) = 2 /\ lines[1] = Line("private_key", a) /\ lines[2] = Line("listen_port", b)
        /\ 2 \in Nat /\ 1 \in 1 .. 2 /\ 2 \in 1 .. 2 /\ 1 - 1 = 0 /\ 2 - 1 = 1
    BY <2>1
  <2> HIDE DEF lines
  <2>3. PICK f : LineByLine(f, NewParser, lines, 2) /\ ParseLines(NewParser, lines) = f[2]
    BY <2>2, ParseIs, Zenon
  <2>4. f[0] = NewParser /\ f[1] = ParseLine(f[0], lines[1]) /\ f[2] = ParseLine(f[1], lines[2])
    BY <2>2, <2>3, Zenon DEF LineByLine
  <2> QED BY <1>4, <1>5, <2>2, <2>3, <2>4, Zenon DEF a, b, c, lines
<1>6. CASE c # 0
  <2>1. lines = two \o <<Line("fwmark", c)>>
    BY <1>6 DEF DeviceHead, a, b, c
  <2>2. /\ Len(lines) = 3 /\ lines[1] = Line("private_key", a) /\ lines[2] = Line("listen_port", b)
        /\ lines[3] = Line("fwmark", c)
        /\ 3 \in Nat /\ 1 \in 1 .. 3 /\ 2 \in 1 .. 3 /\ 3 \in 1 .. 3
        /\ 1 - 1 = 0 /\ 2 - 1 = 1 /\ 3 - 1 = 2
    BY <2>1
  <2> HIDE DEF lines
  <2>3. PICK f : LineByLine(f, NewParser, lines, 3) /\ ParseLines(NewParser, lines) = f[3]
    <3>1. 3 \in Nat /\ Len(lines) = 3
        BY <2>2, Zenon
    <3> QED BY <3>1, ParseIs, Zenon
  <2>4. /\ f[0] = NewParser /\ f[1] = ParseLine(f[0], lines[1]) /\ f[2] = ParseLine(f[1], lines[2])
        /\ f[3] = ParseLine(f[2], lines[3])
    BY <2>2, <2>3, Zenon DEF LineByLine
  <2>5. Clean(f[2], Device(a, b, 0, <<>>), <<>>)
    BY <1>4, <2>2, <2>4, Zenon
  <2>6. Clean(f[3], Device(a, b, c, <<>>), <<>>)
    <3>1. Clean(ParseLine(f[2], Line("fwmark", c)), Device(a, b, c, <<>>), <<>>)
        BY <1>1, <2>5, DeviceLine, Zenon
    <3> QED BY <2>2, <2>4, <3>1, Zenon
  <2> QED BY <2>3, <2>6, Zenon DEF a, b, c, lines
<1> QED BY <1>5, <1>6, Zenon

\* The lines of a device itself, and those of its peers.
OfDevice == {l \in LineType : l.key \in DOMAIN DeviceField /\ l.value \in Nat}
OfPeer ==
    {l \in LineType : l.key \in PeerKeys \cup {"public_key", "endpoint"} /\ l.value \in Nat}

\* Lines of peers begin with a public key.
WithKeyFirst(lines) == lines \in Seq(OfPeer) /\ (lines = <<>> \/ lines[1].key = "public_key")

\* As many lines as a peer has before its networks.
LEMMA NineLines ==
    ASSUME NEW S, NEW a \in S, NEW b \in S, NEW c \in S, NEW d \in S, NEW e \in S,
           NEW f \in S, NEW g \in S, NEW h \in S, NEW i \in S
    PROVE  <<a, b, c, d, e, f, g, h, i>> \in Seq(S)
    OBVIOUS

\* All the lines of a peer are a peer's.
LEMMA PeerLines ==
    ASSUME NEW p \in PeerType
    PROVE  LinesOfPeer(p) \in Seq(OfPeer) /\ LinesOfPeer(p)[1].key = "public_key"
<1> DEFINE a == PeerHead(p)
           b == PeerNetworks(p)
<1>1. /\ LinesOfPeer(p) = a \o b /\ Len(a) = 9 /\ Len(b) = Len(p.AllowedIPs)
      /\ a \in Seq(LineType) /\ b \in Seq(LineType)
    BY PeerLinesType, Zenon
<1>2. /\ p.PublicKey \in Nat /\ p.PresharedKey \in Nat /\ p.ProtocolVersion \in Nat
      /\ p.LastHandshakeTime[1] \in Nat /\ p.LastHandshakeTime[2] \in Nat
      /\ p.TransmitBytes \in Nat /\ p.ReceiveBytes \in Nat
      /\ p.PersistentKeepaliveInterval \in Nat /\ p.AllowedIPs \in Seq(Nat)
    BY DEF PeerType
<1>3. ASSUME NEW key \in PeerKeys \cup {"public_key", "endpoint"}, NEW v \in Nat
      PROVE  Line(key, v) \in OfPeer
    BY Zenon DEF Line, LineType, OfPeer, PeerKeys, OtherPeerKeys, PeerField, Keys
<1>4. /\ Line("public_key", p.PublicKey) \in OfPeer
      /\ Line("preshared_key", p.PresharedKey) \in OfPeer
      /\ Line("protocol_version", p.ProtocolVersion) \in OfPeer
      /\ Line("endpoint", 1) \in OfPeer
      /\ Line("last_handshake_time_sec", p.LastHandshakeTime[1]) \in OfPeer
      /\ Line("last_handshake_time_nsec", p.LastHandshakeTime[2]) \in OfPeer
      /\ Line("tx_bytes", p.TransmitBytes) \in OfPeer
      /\ Line("rx_bytes", p.ReceiveBytes) \in OfPeer
      /\ Line("persistent_keepalive_interval", p.PersistentKeepaliveInterval) \in OfPeer
    BY <1>2, <1>3, Zenon DEF PeerKeys, OtherPeerKeys, PeerField
<1>5. a \in Seq(OfPeer) /\ a[1] = Line("public_key", p.PublicKey)
  <2>1. a \in Seq(OfPeer)
    BY <1>4, NineLines, Zenon DEF PeerHead
  <2> QED BY <2>1, Zenon DEF PeerHead
<1>6. b \in Seq(OfPeer)
  <2> DEFINE ips == p.AllowedIPs
  <2>1. ips \in Seq(Nat) /\ DOMAIN ips = 1 .. Len(ips) /\ Len(ips) \in Nat
    BY <1>2
  <2> HIDE DEF ips
  <2>2. "allowed_ip" \in PeerKeys /\ \A i \in 1 .. Len(ips) : ips[i] \in Nat
    BY <2>1 DEF PeerKeys, OtherPeerKeys
  <2>3. \A i \in 1 .. Len(ips) : Line("allowed_ip", ips[i]) \in OfPeer
    BY <1>3, <2>2, Zenon
  <2>4. [i \in 1 .. Len(ips) |-> Line("allowed_ip", ips[i])] \in Seq(OfPeer)
    BY <2>1, <2>3
  <2>5. b = [i \in 1 .. Len(ips) |-> Line("allowed_ip", ips[i])]
    BY <2>1, Zenon DEF PeerNetworks, ips
  <2> QED BY <2>4, <2>5, Zenon
<1> HIDE DEF a, b
<1>7. (a \o b) \in Seq(OfPeer) /\ (a \o b)[1] = a[1]
  <2>1. (a \o b) \in Seq(OfPeer)
    BY <1>5, <1>6
  <2>2. \A i \in 1 .. Len(a) : (a \o b)[i] = a[i]
    BY <1>5, <1>6
  <2>3. 1 \in 1 .. Len(a)
    BY <1>1
  <2> QED BY <2>1, <2>2, <2>3, Zenon
<1>8. Line("public_key", p.PublicKey).key = "public_key"
    BY DEF Line
<1> QED BY <1>1, <1>5, <1>7, <1>8, Zenon

\* The peers up to the n-th, as they are shown.
ShownPeers(d, n) == [i \in 1 .. n |-> ShownPeer(d.Peers[i])]

\* The lines of all the peers.
LEMMA PeersRead ==
    ASSUME NEW d \in DeviceType, NEW h \in DeviceType, NEW dp, Clean(dp, h, <<>>)
    PROVE  LET lines == Joined(LinesOfPeers(d), DOMAIN d.Peers)
           IN  /\ WithKeyFirst(lines)
               /\ Clean(ParseLines(dp, lines), h, ShownPeers(d, Len(d.Peers)))
<1> DEFINE ps == d.Peers
           N == Len(ps)
           seqs == LinesOfPeers(d)
<1>1. /\ ps \in Seq(PeerType) /\ N \in Nat /\ DOMAIN ps = 1 .. N
      /\ \A i \in 1 .. N : ps[i] \in PeerType
    BY DEF DeviceType
<1>2. Len(seqs) = N /\ \A i \in 1 .. N : seqs[i] = LinesOfPeer(ps[i])
  <2>1. seqs = [i \in 1 .. N |-> LinesOfPeer(ps[i])]
    BY <1>1, Zenon DEF LinesOfPeers
  <2> HIDE DEF N, ps, seqs
  <2> QED BY <1>1, <2>1
<1>3. PICK f : JoinRounds(f, seqs, DOMAIN ps, N) /\ Joined(seqs, DOMAIN ps) = f[N]
  <2> DEFINE at == DOMAIN ps
  <2>1. N \in Nat /\ Len(seqs) = N
    BY <1>1, <1>2, Zenon
  <2> HIDE DEF N, ps, seqs, at
  <2>2. \E f : JoinRounds(f, seqs, at, N) /\ Joined(seqs, at) = f[N]
    BY <2>1, JoinedRounds
  <2> QED BY <2>2, Zenon DEF at
<1>4. /\ ShownPeers(d, 0) = <<>>
      /\ \A n \in 0 .. N : ShownPeers(d, n) \in Seq(PeerType)
      /\ \A n \in 1 .. N : ShownPeers(d, n) = Append(ShownPeers(d, n - 1), ShownPeer(ps[n]))
  <2>1. \A i \in 1 .. N : ShownPeer(ps[i]) \in PeerType
    BY <1>1, ShownPeerType, Zenon
  <2>2. ShownPeers(d, 0) = <<>>
    BY DEF ShownPeers
  <2>3. ASSUME NEW n \in 0 .. N PROVE ShownPeers(d, n) \in Seq(PeerType)
    BY <1>1, <2>1 DEF ShownPeers
  <2>4. ASSUME NEW n \in 1 .. N
        PROVE  ShownPeers(d, n) = Append(ShownPeers(d, n - 1), ShownPeer(ps[n]))
    BY <1>1, <2>1 DEF ShownPeers
  <2> QED BY <2>2, <2>3, <2>4
<1> DEFINE W == {n \in 0 .. N : /\ WithKeyFirst(f[n])
                                /\ Clean(ParseLines(dp, f[n]), h, ShownPeers(d, n))}
<1> HIDE DEF N, ps, seqs
<1>5. 0 \in W
  <2>1. 0 \in 0 .. N /\ <<>> \in Seq(OfPeer)
    BY <1>1
  <2>2. f[0] = <<>>
    BY <1>3, Zenon DEF JoinRounds
  <2>3. WithKeyFirst(f[0])
    BY <2>1, <2>2, Zenon DEF WithKeyFirst
  <2>4. ParseLines(dp, f[0]) = dp
    BY <2>2, ParseNone, Zenon
  <2> QED BY <1>4, <2>1, <2>3, <2>4, Zenon
<1>6. ASSUME NEW n \in 1 .. N, n - 1 \in W PROVE n \in W
  <2> DEFINE p == ps[n]
             s == f[n - 1]
             t == LinesOfPeer(p)
             before == ShownPeers(d, n - 1)
  <2>1. /\ n \in 0 .. N /\ n - 1 \in 0 .. N /\ p \in PeerType
    BY <1>1
  <2>2. f[n] = s \o t
    BY <1>1, <1>2, <1>3, Zenon DEF JoinRounds
  <2>3. WithKeyFirst(s) /\ Clean(ParseLines(dp, s), h, before) /\ before \in Seq(PeerType)
    BY <1>4, <1>6, <2>1, Zenon
  <2>4. t \in Seq(OfPeer) /\ t[1].key = "public_key"
    BY <2>1, PeerLines, Zenon
  <2>5. ShownPeers(d, n) = Append(before, ShownPeer(p))
    BY <1>4, Zenon
  <2>6. Clean(ParseLines(ParseLines(dp, s), t), h, Append(before, ShownPeer(p)))
    <3> HIDE DEF before, p
    <3> QED BY <2>1, <2>3, PeerRead, Zenon
  <2> HIDE DEF before, p, s, t
  <2>7. WithKeyFirst(s \o t)
    BY <2>3, <2>4 DEF WithKeyFirst
  <2>8. ParseLines(dp, s \o t) = ParseLines(ParseLines(dp, s), t)
    <3>1. s \in Seq(LineType) /\ t \in Seq(LineType)
        BY <2>3, <2>4 DEF WithKeyFirst, OfPeer
    <3> QED BY <3>1, ParseParts
  <2> QED BY <2>1, <2>2, <2>5, <2>6, <2>7, <2>8, Zenon
<1>7. \A n \in 0 .. N : n \in W
  <2> HIDE DEF W
  <2> QED BY <1>1, <1>5, <1>6, AllRounds, Zenon
<1>8. N \in 0 .. N
    BY <1>1
<1>9. WithKeyFirst(f[N]) /\ Clean(ParseLines(dp, f[N]), h, ShownPeers(d, N))
    BY <1>7, <1>8, Zenon
<1> QED BY <1>3, <1>9, Zenon DEF N, ps, seqs

\* The lines before those of the peers are the device's.
LEMMA HeadLines ==
    ASSUME NEW d \in DeviceType
    PROVE  DeviceHead(d) \in Seq(OfDevice)
<1>1. d.PrivateKey \in Nat /\ d.ListenPort \in Nat /\ d.FirewallMark \in Nat
    BY DEF DeviceType
<1>2. ASSUME NEW key \in DOMAIN DeviceField, NEW v \in Nat PROVE Line(key, v) \in OfDevice
    BY Zenon DEF Line, LineType, OfDevice, DeviceField, Keys
<1>3. /\ Line("private_key", d.PrivateKey) \in OfDevice
      /\ Line("listen_port", d.ListenPort) \in OfDevice
      /\ Line("fwmark", d.FirewallMark) \in OfDevice
    BY <1>1, <1>2 DEF DeviceField
<1> DEFINE s == <<Line("private_key", d.PrivateKey), Line("listen_port", d.ListenPort)>>
           t == IF d.FirewallMark = 0 THEN <<>> ELSE <<Line("fwmark", d.FirewallMark)>>
<1>4. s \in Seq(OfDevice) /\ t \in Seq(OfDevice)
    BY <1>3
<1>5. DeviceHead(d) = s \o t
    BY Zenon DEF DeviceHead
<1> HIDE DEF s, t
<1> QED BY <1>4, <1>5

\* What the parser makes of the device: a handshake has both its parts.
Shown(d) ==
    [d EXCEPT !.Peers = [i \in DOMAIN d.Peers |->
        [d.Peers[i] EXCEPT !.LastHandshakeTime = IF @[1] > 0 /\ @[2] > 0 THEN @
                                                 ELSE <<0, 0>>]]]

\* What a device writes is read as it is, but for handshakes that are not whole.
LEMMA DeviceRead ==
    ASSUME NEW d \in DeviceType
    PROVE  Clean(ParseLines(NewParser, IpcGet(d)), Shown(d), Shown(d).Peers)
<1> DEFINE a == DeviceHead(d)
           b == Joined(LinesOfPeers(d), DOMAIN d.Peers)
           h == Device(d.PrivateKey, d.ListenPort, d.FirewallMark, <<>>)
           x == ParseLines(NewParser, a)
<1>1. IpcGet(d) = a \o b
    BY Zenon DEF IpcGet, DeviceHead, LinesOfPeers
<1>2. Clean(x, h, <<>>)
    BY HeadRead, Zenon
<1>3. h \in DeviceType
    BY DEF DeviceType, Device
<1>4. WithKeyFirst(b) /\ Clean(ParseLines(x, b), h, ShownPeers(d, Len(d.Peers)))
  <2> HIDE DEF x, h
  <2> QED BY <1>2, <1>3, PeersRead, Zenon
<1>5. ParseLines(NewParser, IpcGet(d)) = ParseLines(x, b)
  <2>1. a \in Seq(LineType) /\ b \in Seq(LineType)
    <3>1. a \in Seq(OfDevice) /\ b \in Seq(OfPeer)
        BY <1>4, HeadLines, Zenon DEF WithKeyFirst
    <3> HIDE DEF a, b
    <3> QED BY <3>1 DEF OfDevice, OfPeer
  <2>2. ParseLines(NewParser, a \o b) = ParseLines(ParseLines(NewParser, a), b)
    <3> HIDE DEF a, b
    <3> QED BY <2>1, ParseParts
  <2> QED BY <1>1, <2>2, Zenon
<1> DEFINE ps == d.Peers
           N == Len(ps)
<1>6. ps \in Seq(PeerType) /\ DOMAIN ps = 1 .. N
    BY DEF DeviceType
<1>7. Shown(d) = [d EXCEPT !.Peers = ShownPeers(d, N)]
    BY <1>6, Zenon DEF Shown, ShownPeers, ShownPeer
<1> DEFINE qs == ShownPeers(d, N)
<1> HIDE DEF qs
<1>8. WithPeers(h, qs) = [d EXCEPT !.Peers = qs]
    BY DEF WithPeers, Device, DeviceType
<1>9. Shown(d).Peers = qs
    BY <1>7 DEF DeviceType, qs
<1>10. WithPeers(Shown(d), Shown(d).Peers) = WithPeers(h, qs)
  <2>1. Shown(d) = [d EXCEPT !.Peers = qs]
    BY <1>7, Zenon DEF qs
  <2>2. [[d EXCEPT !.Peers = qs] EXCEPT !.Peers = qs] = [d EXCEPT !.Peers = qs]
    BY Zenon DEF DeviceType
  <2> QED BY <1>8, <1>9, <2>1, <2>2, Zenon DEF WithPeers
<1> HIDE DEF x, b, h
<1> QED BY <1>4, <1>5, <1>9, <1>10, Zenon DEF Clean, qs

\* A handshake that is kept is the peer's, and one that is not kept is none or
\* one on a full second.
LEMMA PeerShows ==
    ASSUME NEW p \in PeerType
    PROVE  ShowsPeer(ShownPeer(p), p)
<1> DEFINE hs == p.LastHandshakeTime
           zz == <<0, 0>>
<1>1. hs \in Nat \X Nat /\ hs[1] \in Nat /\ hs[2] \in Nat /\ hs = <<hs[1], hs[2]>>
    BY DEF PeerType
<1>2. [p EXCEPT !.LastHandshakeTime = hs] = p
    BY Zenon DEF PeerType
<1>3. CASE hs[1] > 0 /\ hs[2] > 0
  <2>1. ShownPeer(p) = [p EXCEPT !.LastHandshakeTime = hs]
    BY <1>3, Zenon DEF ShownPeer
  <2> QED BY <1>2, <2>1, Zenon DEF ShowsPeer
<1>4. CASE ~(hs[1] > 0 /\ hs[2] > 0)
  <2>1. ShownPeer(p) = [p EXCEPT !.LastHandshakeTime = zz]
    BY <1>4, Zenon DEF ShownPeer
  <2>2. hs[1] = 0 \/ hs[2] = 0
    BY <1>1, <1>4
  <2>3. CASE hs = zz
    BY <1>2, <2>1, <2>3, Zenon DEF ShowsPeer
  <2>4. CASE hs # zz
    BY <2>1, <2>2, <2>4, Zenon DEF ShowsPeer, OnFullSecond
  <2> QED BY <2>3, <2>4, Zenon
<1> QED BY <1>3, <1>4, Zenon

\* So what the parser makes of the device shows it.
LEMMA ShownShows ==
    ASSUME NEW d \in DeviceType
    PROVE  Shows(Shown(d), d)
<1> DEFINE ps == d.Peers
           qs == [i \in DOMAIN ps |-> ShownPeer(ps[i])]
<1>1. Shown(d) = [d EXCEPT !.Peers = qs]
    BY Zenon DEF Shown, ShownPeer
<1>2. DOMAIN qs = DOMAIN ps /\ \A i \in DOMAIN ps : qs[i] = ShownPeer(ps[i])
    OBVIOUS
<1>3. \A i \in DOMAIN ps : ps[i] \in PeerType
  <2>1. ps \in Seq(PeerType)
    BY DEF DeviceType
  <2> HIDE DEF ps
  <2> QED BY <2>1
<1> HIDE DEF qs
<1>4. [d EXCEPT !.Peers = qs].Peers = qs
    BY Zenon DEF DeviceType
<1>5. \A i \in DOMAIN ps : ShowsPeer(qs[i], ps[i])
    BY <1>2, <1>3, PeerShows, Zenon
<1> QED BY <1>1, <1>2, <1>4, <1>5, Zenon DEF Shows

\* What any device writes is read as that device, peer by peer, with all its keys,
\* counts and networks and without an error: parseDevice inverts IpcGetOperation,
\* but for a handshake on a full second, which is shown as none.
THEOREM ReadsBack ==
    \A d \in DeviceType : /\ ~ParseLines(NewParser, IpcGet(d)).err
                          /\ Shows(ParseLines(NewParser, IpcGet(d)).d, d)
<1> SUFFICES ASSUME NEW d \in DeviceType
             PROVE  /\ ~ParseLines(NewParser, IpcGet(d)).err
                    /\ Shows(ParseLines(NewParser, IpcGet(d)).d, d)
    OBVIOUS
<1>1. Clean(ParseLines(NewParser, IpcGet(d)), Shown(d), Shown(d).Peers)
    BY DeviceRead, Zenon
<1>2. WithPeers(Shown(d), Shown(d).Peers) = Shown(d)
    BY Zenon DEF WithPeers, Shown, DeviceType
<1>3. ~ParseLines(NewParser, IpcGet(d)).err /\ ParseLines(NewParser, IpcGet(d)).d = Shown(d)
    BY <1>1, <1>2, Zenon DEF Clean
<1> QED BY <1>3, ShownShows, Zenon

-----------------------------------------------------------------------------
(* Lines that are not as the device should have written them.               *)

\* The lines of a device come before those of its peers, and the first of those
\* begins one.
DeviceFirst(w, m) ==
    /\ w \in Seq(LineType) /\ m \in 0 .. Len(w)
    /\ \A n \in 1 .. m : w[n] \in OfDevice
    /\ \A n \in m + 1 .. Len(w) : w[n] \in OfPeer
    /\ m + 1 \in 1 .. Len(w) => w[m + 1].key = "public_key"

\* So a device writes them.
LEMMA WrittenDeviceFirst ==
    ASSUME NEW d \in DeviceType
    PROVE  \E m \in Nat : DeviceFirst(IpcGet(d), m)
<1> DEFINE a == DeviceHead(d)
           b == Joined(LinesOfPeers(d), DOMAIN d.Peers)
           h == Device(d.PrivateKey, d.ListenPort, d.FirewallMark, <<>>)
           w == a \o b
           m == Len(a)
<1>1. IpcGet(d) = w
    BY Zenon DEF IpcGet, DeviceHead, LinesOfPeers
<1>2. a \in Seq(OfDevice)
    BY HeadLines, Zenon
<1>3. WithKeyFirst(b)
  <2>1. h \in DeviceType
    BY DEF DeviceType, Device
  <2>2. Clean(ParseLines(NewParser, a), h, <<>>)
    BY HeadRead, Zenon
  <2> QED BY <2>1, <2>2, PeersRead, Zenon
<1> HIDE DEF a, b
<1>4. b \in Seq(OfPeer) /\ (b = <<>> \/ b[1].key = "public_key")
    BY <1>3, Zenon DEF WithKeyFirst
<1>5. a \in Seq(LineType) /\ b \in Seq(LineType)
    BY <1>2, <1>4 DEF OfDevice, OfPeer
<1>6. w \in Seq(LineType) /\ m \in Nat /\ Len(b) \in Nat /\ Len(w) = m + Len(b)
    BY <1>5
<1>7. /\ \A n \in 1 .. m : w[n] = a[n] /\ a[n] \in OfDevice
      /\ \A n \in m + 1 .. Len(w) : w[n] = b[n - m] /\ n - m \in 1 .. Len(b) /\ b[n - m] \in OfPeer
    BY <1>2, <1>4, <1>5, <1>6
<1>8. ASSUME m + 1 \in 1 .. Len(w) PROVE w[m + 1].key = "public_key"
  <2>1. m + 1 \in m + 1 .. Len(w) /\ (m + 1) - m = 1 /\ Len(b) # 0
    BY <1>6, <1>8
  <2>2. b # <<>>
    BY <2>1
  <2>3. w[m + 1] = b[(m + 1) - m]
    BY <1>7, <2>1, Zenon
  <2> QED BY <1>4, <2>1, <2>2, <2>3, Zenon
<1>9. m \in 0 .. Len(w)
    BY <1>6
<1> HIDE DEF w, m
<1>10. DeviceFirst(w, m)
    BY <1>6, <1>7, <1>8, <1>9, Zenon DEF DeviceFirst
<1> QED BY <1>1, <1>6, <1>10, Zenon

\* What a line that is a pair does.
Takes(dp, line, new) ==
    /\ new \in ParserType /\ ~new.done
    /\ dp.d.Peers # <<>> => new.d.Peers # <<>>
    /\ dp.d.Peers = <<>> /\ line.key # "public_key" => new.d.Peers = <<>>
    /\ line.key = "public_key" => new.d.Peers # <<>>
    /\ IsParsed(dp, line.key) /\ line.value = Garbled => new.err

\* Every pair does so.
LEMMA PairTaken ==
    ASSUME NEW dp \in ParserType, ~dp.done, NEW line \in LineType,
           line \notin {EmptyLine, InvalidLine}
    PROVE  Takes(dp, line, ParseLine(dp, line))
<1> DEFINE key == line.key
           v == line.value
           new == ParseLine(dp, line)
<1>1. key \in Keys /\ v \in Nat \cup {Garbled}
    BY DEF LineType
<1>2. new = Parse(dp, key, v) /\ ~new.done
    BY ParseLineType, Zenon
<1> HIDE DEF key, v, new
<1>3. /\ MayBecome(dp, Parse(dp, key, v))
      /\ dp.d.Peers = <<>> /\ key # "public_key" => Parse(dp, key, v).d.Peers = <<>>
      /\ key = "public_key" => Parse(dp, key, v).d.Peers # <<>>
      /\ IsParsed(dp, key) /\ v = Garbled => Parse(dp, key, v).err
    BY <1>1, ParseType, Zenon
<1>4. Takes(dp, line, new)
    BY <1>2, <1>3, Zenon DEF Takes, MayBecome, key, v
<1> QED BY <1>4, Zenon DEF new

\* Where the parser is after n lines.
Reached(x, n, m) ==
    /\ x \in ParserType /\ ~x.done
    /\ n <= m => x.d.Peers = <<>>
    /\ n > m => x.d.Peers # <<>>

\* A line that a device writes is a pair.
LEMMA GoodPair ==
    ASSUME NEW line \in OfDevice \cup OfPeer
    PROVE  /\ line \in LineType /\ line \notin {EmptyLine, InvalidLine} /\ line.value \in Nat
           /\ line \in OfDevice => line.key # "public_key"
<1>1. line \in LineType /\ line.value \in Nat
    BY DEF OfDevice, OfPeer
<1>2. line.key \in DOMAIN DeviceField \cup PeerKeys \cup {"public_key", "endpoint"}
    BY DEF OfDevice, OfPeer
<1>3. line.key # "" /\ line.key # "not one ="
    BY <1>2, Zenon DEF DeviceField, PeerKeys, OtherPeerKeys, PeerField
<1>4. EmptyLine.key = "" /\ InvalidLine.key = "not one ="
    BY DEF EmptyLine, InvalidLine, Line
<1>5. line \in OfDevice => line.key # "public_key"
    BY DEF OfDevice, DeviceField
<1> QED BY <1>1, <1>3, <1>4, <1>5, Zenon

\* Up to the first line that is not as written, the parser is at the device's own
\* lines or has a peer begun, as the device meant it.
LEMMA PrefixReached ==
    ASSUME NEW w, NEW m \in Nat, DeviceFirst(w, m), NEW lines,
           NEW k \in 1 .. Len(w), \A n \in 1 .. k - 1 : lines[n] = w[n],
           NEW f, LineByLine(f, NewParser, lines, Len(w))
    PROVE  \A n \in 0 .. k - 1 : Reached(f[n], n, m)
<1> DEFINE N == Len(w)
           K == k - 1
           W == {n \in 0 .. K : Reached(f[n], n, m)}
<1>1. N \in Nat /\ K \in Nat /\ K < N /\ w \in Seq(LineType) /\ m \in 0 .. N
    BY DEF DeviceFirst
<1>2. 0 \in W
  <2>1. 0 \in 0 .. K /\ 0 <= m /\ ~(0 > m)
    BY <1>1
  <2>2. f[0] = NewParser
    BY Zenon DEF LineByLine
  <2>3. NewParser \in ParserType /\ ~NewParser.done
    BY BeginsClean, Zenon DEF Clean
  <2>4. NewParser.d.Peers = <<>>
    BY DEF NewParser
  <2> QED BY <2>1, <2>2, <2>3, <2>4, Zenon DEF Reached
<1>3. ASSUME NEW n \in 1 .. K, n - 1 \in W PROVE n \in W
  <2> DEFINE x == f[n - 1]
             line == w[n]
             new == f[n]
  <2>1. n \in 0 .. K /\ n \in 1 .. N /\ n \in 1 .. k - 1
    BY <1>1
  <2>2. Reached(x, n - 1, m)
    BY <1>3, Zenon
  <2>3. new = ParseLine(x, line)
    BY <2>1, Zenon DEF LineByLine
  <2>4. /\ n <= m => line \in OfDevice
        /\ n > m => line \in OfPeer
        /\ n - 1 = m => line.key = "public_key"
    <3>1. CASE n <= m
      <4>1. n \in 1 .. m /\ n - 1 # m /\ ~(n > m)
        BY <1>1, <3>1
      <4> QED BY <4>1, Zenon DEF DeviceFirst
    <3>2. CASE n > m
      <4>1. n \in m + 1 .. Len(w) /\ ~(n <= m) /\ (n - 1 = m => n = m + 1)
        BY <1>1, <2>1, <3>2
      <4> QED BY <2>1, <4>1, Zenon DEF DeviceFirst
    <3>3. n <= m \/ n > m
        BY <1>1
    <3> QED BY <3>1, <3>2, <3>3, Zenon
  <2>5. /\ line \in OfDevice \cup OfPeer
        /\ n <= m \/ n > m
        /\ n <= m => n - 1 <= m
        /\ n > m => n - 1 > m \/ n - 1 = m
        /\ ~(n <= m /\ n > m)
    BY <1>1, <2>4
  <2> HIDE DEF x, line, new
  <2>6. /\ line \in LineType /\ line \notin {EmptyLine, InvalidLine}
        /\ line \in OfDevice => line.key # "public_key"
    BY <2>5, GoodPair, Zenon
  <2>7. Takes(x, line, new)
    BY <2>2, <2>3, <2>6, PairTaken, Zenon DEF Reached
  <2>8. Reached(new, n, m)
    BY <2>2, <2>4, <2>5, <2>6, <2>7, Zenon DEF Reached, Takes
  <2> QED BY <2>1, <2>8, Zenon DEF new
<1>4. \A n \in 0 .. K : n \in W
  <2> HIDE DEF W, K
  <2> QED BY <1>1, <1>2, <1>3, AllRounds, Zenon
<1> QED BY <1>4, Zenon

\* The line k of lines is one that the parser has to complain about.
Bad(lines, w, k) ==
    \/ lines[k] = InvalidLine
    \/ lines[k] = [w[k] EXCEPT !.value = Garbled] /\ w[k].key # "endpoint"

\* An error is the last word, wherever the bad line is.
LEMMA BadLineNoticed ==
    ASSUME NEW w, NEW m \in Nat, DeviceFirst(w, m), NEW lines \in Seq(LineType),
           Len(lines) = Len(w), NEW k \in 1 .. Len(w),
           \A n \in 1 .. k - 1 : lines[n] = w[n], Bad(lines, w, k)
    PROVE  ParseLines(NewParser, lines).err
<1> DEFINE N == Len(w)
<1>1. N \in Nat /\ w \in Seq(LineType) /\ m \in 0 .. N /\ k \in Nat /\ k - 1 \in 0 .. k - 1
      /\ \A n \in 1 .. N : lines[n] \in LineType /\ w[n] \in LineType
    BY DEF DeviceFirst
<1>2. PICK f : LineByLine(f, NewParser, lines, N) /\ ParseLines(NewParser, lines) = f[N]
  <2> HIDE DEF N
  <2>1. N \in Nat /\ Len(lines) = N
    BY <1>1, Zenon DEF N
  <2>2. ParsesAll(NewParser, lines, N)
    BY <2>1, ParseRuns, Zenon
  <2> QED BY <2>2, Zenon DEF ParsesAll
<1>3. Reached(f[k - 1], k - 1, m)
  <2>1. \A n \in 0 .. k - 1 : Reached(f[n], n, m)
    BY <1>2, PrefixReached, Zenon
  <2> QED BY <1>1, <2>1, Zenon
<1>4. f[k] \in ParserType /\ f[k].err
  <2> DEFINE x == f[k - 1]
             line == lines[k]
             new == f[k]
  <2>1. x \in ParserType /\ ~x.done /\ line \in LineType
    BY <1>1, <1>3, Zenon DEF Reached
  <2>2. new = ParseLine(x, line)
    BY <1>2, Zenon DEF LineByLine
  <2> HIDE DEF x, new
  <2>3. CASE line = InvalidLine
    <3> HIDE DEF line
    <3> QED BY <2>1, <2>2, <2>3, ParseLineType, Zenon DEF MayBecome, x, new
  <2>4. CASE line = [w[k] EXCEPT !.value = Garbled] /\ w[k].key # "endpoint"
    <3> DEFINE l == w[k]
    <3>1. l \in OfDevice \cup OfPeer /\ (k <= m => l \in OfDevice) /\ (k > m => l \in OfPeer)
          /\ (k = m + 1 => l.key = "public_key") /\ (k <= m \/ k > m)
      <4>1. CASE k <= m
        <5>1. k \in 1 .. m /\ ~(k > m) /\ k # m + 1
            BY <1>1, <4>1
        <5> QED BY <4>1, <5>1, Zenon DEF DeviceFirst
      <4>2. CASE k > m
        <5>1. k \in m + 1 .. Len(w) /\ ~(k <= m)
            BY <1>1, <4>2
        <5> QED BY <4>2, <5>1, Zenon DEF DeviceFirst
      <4>3. k <= m \/ k > m
        BY <1>1
      <4> QED BY <4>1, <4>2, <4>3, Zenon
    <3>2. l \in LineType /\ l.key # "endpoint" /\ line = [l EXCEPT !.value = Garbled]
        BY <1>1, <2>4, Zenon
    <3> HIDE DEF l, line
    <3>3. line.key = l.key /\ line.value = Garbled
        BY <3>2 DEF LineType
    <3>4. line \notin {EmptyLine, InvalidLine}
      <4>1. EmptyLine.value = 0 /\ InvalidLine.value = 0
        BY DEF EmptyLine, InvalidLine, Line
      <4>2. Garbled # 0
        BY GarbledAssumption
      <4> QED BY <3>3, <4>1, <4>2, Zenon
    <3>5. IsParsed(x, line.key)
      <4>1. CASE k <= m
        <5>1. k - 1 <= m
            BY <1>1, <4>1
        <5>2. x.d.Peers = <<>> /\ l \in OfDevice
            BY <1>3, <3>1, <4>1, <5>1, Zenon DEF Reached, x
        <5>3. l.key \in DOMAIN DeviceField
            BY <5>2, Zenon DEF OfDevice
        <5> QED BY <3>3, <5>2, <5>3, Zenon DEF IsParsed
      <4>2. CASE k = m + 1
        BY <3>1, <3>3, <4>2, Zenon DEF IsParsed
      <4>3. CASE k > m /\ k # m + 1
        <5>1. k - 1 > m
            BY <1>1, <4>3
        <5>2. x.d.Peers # <<>> /\ l \in OfPeer
            BY <1>3, <3>1, <4>3, <5>1, Zenon DEF Reached, x
        <5>3. l.key \in PeerKeys \/ l.key = "public_key"
            BY <3>2, <5>2, Zenon DEF OfPeer
        <5> QED BY <3>3, <5>2, <5>3, Zenon DEF IsParsed
      <4> QED BY <3>1, <4>1, <4>2, <4>3, Zenon
    <3>6. Takes(x, line, new)
      <4>1. line \in LineType
        BY <2>1, Zenon
      <4> QED BY <2>1, <2>2, <3>4, <4>1, PairTaken, Zenon
    <3> QED BY <3>3, <3>5, <3>6, Zenon DEF Takes, new
  <2> QED BY <2>3, <2>4, Zenon DEF Bad
<1> DEFINE W == {n \in 0 .. N : n >= k => f[n] \in ParserType /\ f[n].err}
<1>5. 0 \in W
    BY <1>1
<1>6. ASSUME NEW n \in 1 .. N, n - 1 \in W PROVE n \in W
  <2>1. n \in 0 .. N /\ (n >= k => n = k \/ n - 1 >= k) /\ n - 1 \in 0 .. N
    BY <1>1
  <2>2. f[n] = ParseLine(f[n - 1], lines[n]) /\ lines[n] \in LineType
    BY <1>1, <1>2, Zenon DEF LineByLine
  <2>3. ASSUME n - 1 >= k PROVE f[n] \in ParserType /\ f[n].err
    <3>1. f[n - 1] \in ParserType /\ f[n - 1].err
        BY <1>6, <2>3, Zenon
    <3>2. MayBecome(f[n - 1], ParseLine(f[n - 1], lines[n]))
        BY <2>2, <3>1, ParseLineType, Zenon
    <3> QED BY <2>2, <3>1, <3>2, Zenon DEF MayBecome
  <2> QED BY <1>4, <2>1, <2>3, Zenon
<1>7. \A n \in 0 .. N : n \in W
  <2> HIDE DEF W, N
  <2> QED BY <1>1, <1>5, <1>6, AllRounds, Zenon
<1>8. N \in 0 .. N /\ N >= k
    BY <1>1
<1> QED BY <1>2, <1>7, <1>8, Zenon

\* The value of an endpoint makes no difference.
LEMMA EndpointIgnored ==
    ASSUME NEW w, NEW m \in Nat, DeviceFirst(w, m), NEW k \in 1 .. Len(w), w[k].key = "endpoint"
    PROVE  ParseLines(NewParser, [w EXCEPT ![k].value = Garbled]) = ParseLines(NewParser, w)
<1> DEFINE N == Len(w)
           lines == [w EXCEPT ![k].value = Garbled]
<1>1. N \in Nat /\ w \in Seq(LineType) /\ k \in Nat /\ k - 1 \in 0 .. k - 1 /\ w[k] \in LineType
    BY DEF DeviceFirst
<1>2. /\ Len(lines) = N /\ \A n \in 1 .. N : n # k => lines[n] = w[n]
      /\ lines[k] = [w[k] EXCEPT !.value = Garbled]
    BY <1>1
<1>3. PICK f : LineByLine(f, NewParser, w, N) /\ ParseLines(NewParser, w) = f[N]
  <2> HIDE DEF N
  <2>1. Len(w) = N
    BY Zenon DEF N
  <2> QED BY <1>1, <2>1, ParseIs, Zenon
<1>4. Reached(f[k - 1], k - 1, m)
  <2>1. \A n \in 0 .. k - 1 : Reached(f[n], n, m)
    BY <1>3, PrefixReached, Zenon
  <2> QED BY <1>1, <2>1, Zenon
<1> HIDE DEF lines
<1>5. ParseLine(f[k - 1], lines[k]) = ParseLine(f[k - 1], w[k])
  <2>1. /\ w[k] = Line("endpoint", w[k].value) /\ lines[k] = Line("endpoint", Garbled)
        /\ w[k].value \in Nat \cup {Garbled} /\ Garbled \in Nat \cup {Garbled}
    BY <1>1, <1>2 DEF LineType, Line
  <2>2. f[k - 1] \in ParserType /\ ~f[k - 1].done
    BY <1>4, Zenon DEF Reached
  <2>3. /\ ParseLine(f[k - 1], Line("endpoint", Garbled)) = f[k - 1]
        /\ ParseLine(f[k - 1], Line("endpoint", w[k].value)) = f[k - 1]
    BY <2>1, <2>2, EndpointLine, Zenon
  <2> QED BY <2>1, <2>3, Zenon
<1>6. LineByLine(f, NewParser, lines, N)
    BY <1>2, <1>3, <1>5, Zenon DEF LineByLine
<1>7. ParseLines(NewParser, lines) = f[N]
  <2> HIDE DEF N
  <2> QED BY <1>1, <1>2, <1>6, ParseOnly
<1> QED BY <1>3, <1>7, Zenon DEF lines

\* What a reader should make of an answer of the device.
RightOf(x, lines, d) ==
    IF AsWritten(lines, d) THEN ~x.err /\ Shows(x.d, d) ELSE x.err

\* An answer, but for the empty one, is parsed right.
LEMMA AnswerParsed ==
    ASSUME NEW d \in DeviceType, NEW lines \in Answers(d)
    PROVE  /\ lines \in Seq(LineType)
           /\ lines # <<>> => RightOf(ParseLines(NewParser, lines), lines, d)
<1> DEFINE w == IpcGet(d)
<1>1. PICK m \in Nat : DeviceFirst(w, m)
    BY WrittenDeviceFirst, Zenon
<1>2. w \in Seq(LineType) /\ DOMAIN w = 1 .. Len(w) /\ Len(w) \in Nat
      /\ \A n \in 1 .. Len(w) : w[n] \in LineType
  <2> HIDE DEF w
  <2> QED BY <1>1 DEF DeviceFirst
<1>3. \A n \in 1 .. Len(w) : w[n] \in OfDevice \cup OfPeer
  <2>1. ASSUME NEW n \in 1 .. Len(w) PROVE n \in 1 .. m \/ n \in m + 1 .. Len(w)
    BY <1>2
  <2> QED BY <1>1, <2>1, Zenon DEF DeviceFirst
<1>5. ~ParseLines(NewParser, w).err /\ Shows(ParseLines(NewParser, w).d, d)
    BY ReadsBack, Zenon
<1>6. \/ lines = w \/ lines = <<>>
      \/ \E k \in BadLines : lines = [w EXCEPT ![k] = InvalidLine]
      \/ \E k \in BadLines : lines = [w EXCEPT ![k].value = Garbled]
    BY Zenon DEF Answers
<1>7. \A k : k \notin 1 .. Len(w) => /\ [w EXCEPT ![k] = InvalidLine] = w
                                     /\ [w EXCEPT ![k].value = Garbled] = w
  <2> HIDE DEF w
  <2> QED BY <1>2
<1>8. AsWritten(lines, d) <=> \A k \in DOMAIN lines : lines[k] = w[k] \/ lines[k].key = "endpoint"
    BY Zenon DEF AsWritten
<1> HIDE DEF w
<1>9. CASE lines = w
  <2>1. AsWritten(lines, d)
    BY <1>8, <1>9, Zenon
  <2> QED BY <1>2, <1>5, <1>9, <2>1, Zenon DEF RightOf
<1>10. CASE lines = <<>>
    BY <1>10
<1>11. ASSUME NEW k \in 1 .. Len(w), lines = [w EXCEPT ![k] = InvalidLine]
       PROVE  lines \in Seq(LineType) /\ RightOf(ParseLines(NewParser, lines), lines, d)
  <2>1. InvalidLine \in LineType /\ InvalidLine.key = "not one ="
    BY DEF InvalidLine, Line, LineType, Keys
  <2>2. /\ lines \in Seq(LineType) /\ Len(lines) = Len(w) /\ lines[k] = InvalidLine
        /\ k \in DOMAIN lines /\ \A n \in 1 .. k - 1 : lines[n] = w[n]
    <3> DEFINE bad == InvalidLine
    <3> HIDE DEF bad
    <3>1. bad \in LineType /\ lines = [w EXCEPT ![k] = bad]
        BY <1>11, <2>1, Zenon DEF bad
    <3>2. /\ lines \in Seq(LineType) /\ Len(lines) = Len(w) /\ lines[k] = bad
          /\ k \in DOMAIN lines /\ \A n \in 1 .. k - 1 : lines[n] = w[n]
        BY <1>2, <3>1
    <3> QED BY <3>2, Zenon DEF bad
  <2>3. ParseLines(NewParser, lines).err
    <3>1. Bad(lines, w, k)
        BY <2>2, Zenon DEF Bad
    <3> QED BY <1>1, <2>2, <3>1, BadLineNoticed, Zenon
  <2>4. lines[k] # w[k]
    BY <1>3, <2>2, GoodPair, Zenon
  <2>5. lines[k].key # "endpoint"
    BY <2>1, <2>2, Zenon
  <2>6. ~AsWritten(lines, d)
    BY <1>8, <2>2, <2>4, <2>5, Zenon
  <2> QED BY <2>2, <2>3, <2>6, Zenon DEF RightOf
<1>12. ASSUME NEW k \in 1 .. Len(w), lines = [w EXCEPT ![k].value = Garbled]
       PROVE  lines \in Seq(LineType) /\ RightOf(ParseLines(NewParser, lines), lines, d)
  <2> DEFINE bad == [w[k] EXCEPT !.value = Garbled]
  <2>1. bad \in LineType /\ bad.key = w[k].key /\ bad.value = Garbled
    BY <1>2 DEF LineType
  <2>2. lines = [w EXCEPT ![k] = bad]
    BY <1>12, Zenon
  <2> HIDE DEF bad
  <2>3. /\ lines \in Seq(LineType) /\ Len(lines) = Len(w) /\ lines[k] = bad
        /\ k \in DOMAIN lines /\ DOMAIN lines = 1 .. Len(w)
        /\ \A n \in 1 .. Len(w) : n # k => lines[n] = w[n]
        /\ \A n \in 1 .. k - 1 : lines[n] = w[n]
    BY <1>2, <2>1, <2>2
  <2>4. CASE w[k].key = "endpoint"
    <3>1. ParseLines(NewParser, lines) = ParseLines(NewParser, w)
        BY <1>1, <1>12, <2>4, EndpointIgnored, Zenon
    <3>2. AsWritten(lines, d)
        BY <1>8, <2>1, <2>3, <2>4, Zenon
    <3> QED BY <1>5, <2>3, <3>1, <3>2, Zenon DEF RightOf
  <2>5. CASE w[k].key # "endpoint"
    <3>1. ParseLines(NewParser, lines).err
      <4>1. Bad(lines, w, k)
        BY <2>3, <2>5, Zenon DEF Bad, bad
      <4> QED BY <1>1, <2>3, <4>1, BadLineNoticed, Zenon
    <3>2. lines[k] # w[k]
      <4>1. w[k].value \in Nat
        BY <1>3, GoodPair, Zenon
      <4>2. bad.value # w[k].value
        BY <2>1, <4>1, GarbledAssumption, Zenon
      <4> QED BY <2>3, <4>2, Zenon
    <3>3. ~AsWritten(lines, d)
        BY <1>8, <2>1, <2>3, <2>5, <3>2, Zenon
    <3> QED BY <2>3, <3>1, <3>3, Zenon DEF RightOf
  <2> QED BY <2>4, <2>5, Zenon
<1> QED BY <1>6, <1>7, <1>9, <1>10, <1>11, <1>12, Zenon

\* A sequence is its first k members and the others.
LEMMA CutInTwo ==
    ASSUME NEW S, NEW s \in Seq(S), NEW k \in 0 .. Len(s)
    PROVE  /\ SubSeq(s, 1, k) \in Seq(S) /\ SubSeq(s, k + 1, Len(s)) \in Seq(S)
           /\ s = SubSeq(s, 1, k) \o SubSeq(s, k + 1, Len(s))
<1> DEFINE n == Len(s)
           a == SubSeq(s, 1, k)
           b == SubSeq(s, k + 1, n)
           c == a \o b
<1>1. n \in Nat /\ k \in 0 .. n /\ k \in Nat
    OBVIOUS
<1>2. a \in Seq(S) /\ Len(a) = k /\ \A i \in 1 .. k : a[i] = s[i]
    OBVIOUS
<1>3. b \in Seq(S) /\ Len(b) = n - k /\ \A i \in 1 .. n - k : b[i] = s[k + i]
    OBVIOUS
<1> HIDE DEF a, b
<1>4. c \in Seq(S) /\ Len(c) = n /\ \A i \in 1 .. n : c[i] = IF i <= k THEN a[i] ELSE b[i - k]
    BY <1>1, <1>2, <1>3
<1> HIDE DEF c
<1>5. \A i \in 1 .. n : c[i] = s[i]
  <2> TAKE i \in 1 .. n
  <2>1. CASE i <= k
    BY <1>1, <1>2, <1>4, <2>1
  <2>2. CASE ~(i <= k)
    <3>1. i - k \in 1 .. n - k /\ k + (i - k) = i
        BY <1>1, <2>2
    <3> QED BY <1>3, <1>4, <2>2, <3>1
  <2> QED BY <2>1, <2>2
<1>6. c = s
    BY <1>4, <1>5
<1> QED BY <1>2, <1>3, <1>6, Zenon DEF a, b, c

-----------------------------------------------------------------------------
(* The calls of WireguardDevice.                                            *)

\* The call, with the device it asks and what is left to read.
StatusType ==
    [at : {"idle", "reading", "returned"}, d : DeviceType, lines : Seq(LineType),
     rest : Seq(LineType), dp : ParserType]

\* The inductive invariant: what has been parsed and the rest of the lines give
\* what all of them do, however the reads cut them.
StatusInv ==
    /\ status \in StatusType
    /\ status.at # "idle" =>
          /\ status.d \in Devices /\ status.lines \in Answers(status.d)
          /\ ParseLines(status.dp, status.rest) = ParseLines(NewParser, status.lines)
    /\ status.at = "returned" => status.dp = ParseLines(NewParser, status.lines)

\* Parsing keeps the parser's type, and a parser that has left its loop is done.
LEMMA LinesType ==
    ASSUME NEW dp \in ParserType, NEW lines \in Seq(LineType)
    PROVE  ParseLines(dp, lines) \in ParserType /\ (dp.done => ParseLines(dp, lines) = dp)
<1> DEFINE N == Len(lines)
<1>1. N \in Nat /\ Len(lines) = N /\ \A n \in 1 .. N : lines[n] \in LineType
    OBVIOUS
<1> HIDE DEF N
<1>2. ParseLines(dp, lines) \in ParserType
  <2>1. \A x \in ParserType : \A n \in 1 .. N : ParseLine(x, lines[n]) \in ParserType
    BY <1>1, ParseLineType, Zenon DEF MayBecome
  <2> QED BY <1>1, <2>1, ParseStays, Zenon
<1>3. ASSUME dp.done PROVE ParseLines(dp, lines) = dp
  <2> DEFINE X == {dp}
  <2>1. \A x \in X : \A n \in 1 .. N : ParseLine(x, lines[n]) \in X
    BY <1>1, <1>3, ParseLineType, Zenon
  <2>2. dp \in X
    OBVIOUS
  <2>3. ParseLines(dp, lines) \in X
    <3> HIDE DEF X
    <3> QED BY <1>1, <2>1, <2>2, ParseStays, Zenon
  <2> QED BY <2>3, Zenon
<1> QED BY <1>2, <1>3, Zenon

\* It holds before the first call.
LEMMA StatusInitially == Init => StatusInv
<1> SUFFICES ASSUME Init PROVE StatusInv
    OBVIOUS
<1> DEFINE none == <<>>
<1>1. NewParser \in ParserType
    BY BeginsClean, Zenon DEF Clean
<1>2. NewParser.d \in DeviceType /\ none \in Seq(LineType)
    BY <1>1 DEF ParserType
<1>3. status = [at |-> "idle", d |-> NewParser.d, lines |-> none, rest |-> none, dp |-> NewParser]
    BY Zenon DEF Init
<1> HIDE DEF none
<1> QED BY <1>1, <1>2, <1>3 DEF StatusInv, StatusType

\* Nothing has been parsed when the device has answered.
LEMMA AskStep == StatusInv /\ AskDevice => StatusInv'
<1> SUFFICES ASSUME StatusInv, AskDevice PROVE StatusInv'
    OBVIOUS
<1>0. PICK d \in Devices : \E lines \in Answers(d) :
         status' = [at |-> "reading", d |-> d, lines |-> lines, rest |-> lines, dp |-> NewParser]
    BY Zenon DEF AskDevice
<1>1. PICK lines \in Answers(d) :
         status' = [at |-> "reading", d |-> d, lines |-> lines, rest |-> lines, dp |-> NewParser]
    BY <1>0, Zenon
<1>2. NewParser \in ParserType
    BY BeginsClean, Zenon DEF Clean
<1>3. d \in DeviceType
    BY DevicesAssumption
<1>4. lines \in Seq(LineType)
    BY <1>3, AnswerParsed, Zenon
<1>5. status' \in StatusType
    BY <1>1, <1>2, <1>3, <1>4 DEF StatusType
<1>6. /\ status'.at = "reading" /\ status'.d = d /\ status'.lines = lines /\ status'.rest = lines
      /\ status'.dp = NewParser
    BY <1>1
<1>7. "reading" # "returned"
    OBVIOUS
<1> QED BY <1>5, <1>6, <1>7, Zenon DEF StatusInv

\* A read takes the first of the lines that are left; what is parsed after the
\* parser has left its loop changes nothing.
LEMMA ReadStep == StatusInv /\ ReadStatus => StatusInv'
<1> SUFFICES ASSUME StatusInv, ReadStatus PROVE StatusInv'
    OBVIOUS
<1> DEFINE s == status
           rest == s.rest
           n == Min({BufLines, Len(rest)})
           a == SubSeq(rest, 1, n)
           b == SubSeq(rest, n + 1, Len(rest))
           dp == ParseLines(s.dp, a)
<1>1. /\ s.at = "reading"
      /\ status' = [s EXCEPT !.rest = b, !.dp = dp, !.at = IF dp.done THEN "returned" ELSE @]
  <2>1. \E x \in {dp} :
           status' = [s EXCEPT !.rest = b, !.dp = x, !.at = IF x.done THEN "returned" ELSE @]
    BY Zenon DEF ReadStatus
  <2> QED BY <2>1, Zenon DEF ReadStatus
<1>2. s \in StatusType
    BY Zenon DEF StatusInv
<1>3. rest \in Seq(LineType) /\ Len(rest) \in Nat /\ s.dp \in ParserType
      /\ s.lines \in Seq(LineType)
    BY <1>2 DEF StatusType
<1>4. /\ s.d \in Devices /\ s.lines \in Answers(s.d)
      /\ ParseLines(s.dp, rest) = ParseLines(NewParser, s.lines)
  <2>1. s.at # "idle"
    BY <1>1
  <2> QED BY <2>1, Zenon DEF StatusInv
<1>5. n \in 0 .. Len(rest)
  <2> DEFINE N == Len(rest)
  <2> HIDE DEF N
  <2>1. N \in Nat /\ BufLines \in Nat
    BY <1>3, BufAssumption DEF N
  <2>2. \E x \in {BufLines, N} : \A y \in {BufLines, N} : x <= y
    BY <2>1
  <2>3. Min({BufLines, N}) \in {BufLines, N} /\ \A y \in {BufLines, N} : Min({BufLines, N}) <= y
    BY <2>2, Zenon DEF Min
  <2>4. Min({BufLines, N}) \in 0 .. N
    <3> DEFINE x == Min({BufLines, N})
    <3> HIDE DEF x
    <3>1. x \in {BufLines, N} /\ x <= N
        BY <2>3, Zenon DEF x
    <3>2. x \in 0 .. N
        BY <2>1, <3>1
    <3> QED BY <3>2, Zenon DEF x
  <2> QED BY <2>4, Zenon DEF N
<1> HIDE DEF n, rest
<1>6. a \in Seq(LineType) /\ b \in Seq(LineType) /\ rest = a \o b
  <2>1. \A k \in 0 .. Len(rest) :
          /\ SubSeq(rest, 1, k) \in Seq(LineType)
          /\ SubSeq(rest, k + 1, Len(rest)) \in Seq(LineType)
          /\ rest = SubSeq(rest, 1, k) \o SubSeq(rest, k + 1, Len(rest))
    BY <1>3, CutInTwo, Zenon
  <2> QED BY <1>5, <2>1, Zenon
<1> HIDE DEF a, b
<1>7. ParseLines(s.dp, rest) = ParseLines(dp, b)
  <2>1. ParseLines(s.dp, a \o b) = ParseLines(ParseLines(s.dp, a), b)
    BY <1>6, ParseParts
  <2> QED BY <1>6, <2>1, Zenon
<1>8. dp \in ParserType
    BY <1>3, <1>6, LinesType, Zenon
<1> HIDE DEF dp
<1>9. dp.done => dp = ParseLines(NewParser, s.lines)
    BY <1>4, <1>6, <1>7, <1>8, LinesType, Zenon
<1>10. /\ status' \in StatusType
       /\ status'.d = s.d /\ status'.lines = s.lines /\ status'.rest = b /\ status'.dp = dp
       /\ status'.at = "returned" => dp.done
    BY <1>1, <1>2, <1>6, <1>8, Zenon DEF StatusType
<1> QED BY <1>4, <1>7, <1>9, <1>10, Zenon DEF StatusInv

\* At the end of the pipe there is no line left.
LEMMA EndStep == StatusInv /\ StatusEnds => StatusInv'
<1> SUFFICES ASSUME StatusInv, StatusEnds PROVE StatusInv'
    OBVIOUS
<1> DEFINE s == status
<1>1. s.at = "reading" /\ s.rest = <<>> /\ status' = [s EXCEPT !.at = "returned"]
    BY Zenon DEF StatusEnds
<1>2. s \in StatusType
    BY Zenon DEF StatusInv
<1>3. /\ s.d \in Devices /\ s.lines \in Answers(s.d)
      /\ ParseLines(s.dp, s.rest) = ParseLines(NewParser, s.lines)
  <2>1. s.at # "idle"
    BY <1>1
  <2> QED BY <2>1, Zenon DEF StatusInv
<1>4. s.dp = ParseLines(NewParser, s.lines)
    BY <1>1, <1>3, ParseNone, Zenon
<1>5. /\ status' \in StatusType
      /\ status'.d = s.d /\ status'.lines = s.lines /\ status'.rest = s.rest /\ status'.dp = s.dp
    BY <1>1, <1>2 DEF StatusType
<1> QED BY <1>3, <1>4, <1>5, Zenon DEF StatusInv

\* Nothing else touches the call.
LEMMA StatusInvariance == Spec => []StatusInv
<1>1. Init => StatusInv
    BY StatusInitially
<1>2. StatusInv /\ [Next]_vars => StatusInv'
  <2> SUFFICES ASSUME StatusInv, [Next]_vars PROVE StatusInv'
    OBVIOUS
  <2>1. AskDevice \/ ReadStatus \/ StatusEnds \/ UNCHANGED status
    BY Zenon DEF Next, vars, Start, Listen, OpenTun, OpenRouter, OpenDNS, NewEngine, Call,
       CheckErr, StartNetstack, ServerReturns, ServerDone, SetDevice, NodeCheck, LockCheck,
       CheckPeers, Lookup, PingOver, Deadline, PingFails, Stop, StopTimer, Cancel, StopReturns,
       unchangedByStart, unchangedByCheck, unchangedByStop
  <2>2. CASE UNCHANGED status
    BY <2>2, Zenon DEF StatusInv
  <2> QED BY <2>1, <2>2, AskStep, ReadStep, EndStep, Zenon
<1> QED BY <1>1, <1>2, PTL DEF Spec

\* However the reads of the pipe cut its lines, and whatever Start, Stop and the
\* node check do meanwhile, WireguardDevice returns the device as it was asked, and
\* an error when any line was no pair or had a value that should be parsed and
\* could not be: no value that parses after it hides it.  (Not of a device that fails
\* to answer, and a handshake on a full second is shown as none.)
THEOREM StatusCorrect == Spec => []StatusIsTheDevice
<1>1. StatusInv => StatusIsTheDevice
  <2> SUFFICES ASSUME StatusInv, status.at = "returned", status.lines # <<>>
               PROVE  RightOf(status.dp, status.lines, status.d)
    BY Zenon DEF StatusIsTheDevice, RightOf
  <2>1. status.at # "idle"
    OBVIOUS
  <2>2. /\ status.d \in Devices /\ status.lines \in Answers(status.d)
        /\ status.dp = ParseLines(NewParser, status.lines)
    BY <2>1, Zenon DEF StatusInv
  <2>3. status.d \in DeviceType
    BY <2>2, DevicesAssumption
  <2> QED BY <2>2, <2>3, AnswerParsed, Zenon
<1> QED BY <1>1, StatusInvariance, PTL
=============================================================================
