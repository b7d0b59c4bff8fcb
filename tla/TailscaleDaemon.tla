---------------------------- MODULE TailscaleDaemon ----------------------------
(***************************************************************************)
(* The embedded Tailscale daemon (tailscale/tailscale_daemon.go): Start    *)
(* and the calls of run, the goroutines they leave behind, the node check  *)
(* that a timer calls and its pings, Stop, and the status of the WireGuard *)
(* device (tailscale/wireguard_device.go) read through a pipe.             *)
(*                                                                         *)
(* The Tailscale packages and utils.ExecTimer are not part of the          *)
(* repository: a call may fail, the IPN server returns when its context is *)
(* cancelled or by a failure of its own, and whether stopping a timer      *)
(* waits for the callback in progress is left open (stopWaits).            *)
(***************************************************************************)
EXTENDS DeviceParser, FiniteSetsExt

CONSTANTS
    tunname,        \* the kinds of the names in tunname: tun or userspace
    Peers,          \* nodes of the mesh
    Devices,        \* what the WireGuard device may be when it is asked
    BadLines,       \* lines of its answer that may be no pair, or have a bad value
    BufLines        \* lines that one read of the status takes

ASSUME BufAssumption == BufLines \in Nat \ {0}

ASSUME DevicesAssumption == Devices \subseteq DeviceType

\* strings.Split(defaultTunName(), ",") has at least one name.
ASSUME TunnameAssumption == tunname \in Seq({"tun", "userspace"}) /\ tunname # <<>>

VARIABLES
    pc,             \* where Start is, or what it returned
    called,         \* the call of run whose result it looks at next
    attempt,        \* the name that tryEngine is at
    open,           \* what tryEngine opened and has to close
    err,            \* of run; the goroutine of the server assigns it too
    failed,         \* history: a call that Start cannot do without failed
    server,         \* the goroutine of the IPN server
    exit,
    LocalBackend,   \* whether it is set
    wgDevice,       \* whether it is set
    setter,         \* the goroutine that sets it
    mx,             \* free, or the one that keeps it
    timer,          \* whether nodeCheckTimer runs
    stopWaits,
    check,          \* where nodeCheck is
    ping,           \* where the goroutine for each peer is
    done,           \* tsd.ctx is cancelled
    stop,           \* where Stop is
    calm,           \* history: Start had returned when Stop was called
    status,         \* the call of WireguardDevice and its pipe
    panicked

startVars == <<pc, called, attempt, open, err, failed>>
serverVars == <<server, exit>>
deviceVars == <<wgDevice, setter>>
checkVars == <<timer, check, ping>>
stopVars == <<done, stop, calm>>
vars == <<startVars, serverVars, LocalBackend, deviceVars, mx, stopWaits, checkVars,
          stopVars, status, panicked>>

nil == "nil"

Init ==
    /\ pc = "idle" /\ called = "none" /\ attempt = 1 /\ open = {}
    /\ err = nil /\ failed = FALSE
    /\ server = "none" /\ exit = 0
    /\ LocalBackend = FALSE
    /\ wgDevice = FALSE /\ setter = "none"
    /\ mx = "free"
    /\ timer = FALSE
    /\ stopWaits \in BOOLEAN
    /\ check = "idle"
    /\ ping = [p \in Peers |-> "none"]
    /\ done = FALSE /\ stop = "idle" /\ calm = FALSE
    /\ status = [at |-> "idle", d |-> NewParser.d, lines |-> <<>>, rest |-> <<>>,
                 dp |-> NewParser]
    /\ panicked = FALSE

-----------------------------------------------------------------------------
(* Start and run.                                                           *)

unchangedByStart == UNCHANGED <<wgDevice, mx, stopWaits, check, ping, stopVars, status>>

\* Start returns, and run's variables are gone.
StartReturns(result) ==
    /\ pc' = result
    /\ called' = "none" /\ attempt' = 1 /\ err' = nil
    /\ UNCHANGED open

StartFails == StartReturns("error") /\ failed' = TRUE

Start ==
    /\ ~panicked
    /\ pc = "idle"
    /\ \/ /\ StartFails
          /\ UNCHANGED timer
       \/ /\ pc' = "listen"
          /\ timer' = TRUE
          /\ UNCHANGED <<called, attempt, open, err, failed>>
    /\ unchangedByStart
    /\ UNCHANGED <<serverVars, LocalBackend, setter, panicked>>

\* What fails before the server's goroutine is started leaves the timer
\* running, what fails after it the goroutine too.
Listen ==
    /\ ~panicked
    /\ pc = "listen"
    /\ \/ /\ StartFails
          /\ UNCHANGED serverVars
       \/ /\ pc' = "tun"
          /\ exit' = exit + 1
          /\ server' = "running"
          /\ UNCHANGED <<called, attempt, open, err, failed>>
    /\ unchangedByStart
    /\ UNCHANGED <<LocalBackend, setter, timer, panicked>>

\* The call c of run has returned, and err is assigned.
Returned(c, ok) ==
    /\ pc' = "check"
    /\ called' = c
    /\ err' = IF ok THEN nil ELSE "error"
    /\ failed' = (failed \/ ~ok)

\* tryEngine returns an error, and createEngine goes on to the next name.
AttemptFails ==
    /\ open' = {}
    /\ IF attempt < Len(tunname)
       THEN /\ attempt' = attempt + 1
            /\ pc' = "tun"
            /\ UNCHANGED <<called, err, failed>>
       ELSE Returned("createEngine", FALSE) /\ UNCHANGED attempt

\* tryEngine gets as far as opened.
Opened(what, next) ==
    /\ open' = open \cup what
    /\ pc' = next
    /\ UNCHANGED <<called, attempt, err, failed>>

\* (No name that defaultTunName returns is one of a tap device.)
OpenTun ==
    /\ ~panicked
    /\ pc = "tun"
    /\ \/ tunname[attempt] = "userspace" /\ Opened({}, "newEngine")
       \/ tunname[attempt] = "tun" /\ Opened({"Tun"}, "router")
       \/ tunname[attempt] = "tun" /\ AttemptFails
    /\ unchangedByStart
    /\ UNCHANGED <<serverVars, LocalBackend, setter, timer, panicked>>

OpenRouter ==
    /\ ~panicked
    /\ pc = "router"
    /\ Opened({"Router"}, "dns") \/ AttemptFails
    /\ unchangedByStart
    /\ UNCHANGED <<serverVars, LocalBackend, setter, timer, panicked>>

\* Faulty variant of OpenDNS: a failure does not close the router.
OpenDNSKeepsRouter ==
    /\ ~panicked
    /\ pc = "dns"
    /\ \/ Opened({"DNS"}, "newEngine")
       \/ /\ attempt < Len(tunname)
          /\ attempt' = attempt + 1
          /\ open' = {"Router"}
          /\ pc' = "tun"
          /\ UNCHANGED <<called, err, failed>>
    /\ unchangedByStart
    /\ UNCHANGED <<serverVars, LocalBackend, setter, timer, panicked>>

OpenDNS ==
    /\ ~panicked
    /\ pc = "dns"
    /\ Opened({"DNS"}, "newEngine") \/ AttemptFails
    /\ unchangedByStart
    /\ UNCHANGED <<serverVars, LocalBackend, setter, timer, panicked>>

\* NewUserspaceEngine takes over what was opened, also when it fails.  A
\* goroutine waits for mx to set wgDevice.
NewEngine ==
    /\ ~panicked
    /\ pc = "newEngine"
    /\ \/ /\ AttemptFails
          /\ UNCHANGED setter
       \/ /\ Returned("createEngine", TRUE)
          /\ open' = {}
          /\ setter' = "lock"
          /\ UNCHANGED attempt
    /\ unchangedByStart
    /\ UNCHANGED <<serverVars, LocalBackend, timer, panicked>>

\* The call that follows a call of run.
AfterCall ==
    [createEngine |-> "newNetstack", newNetstack |-> "newStore",
     newStore |-> "NewLocalBackend"]

\* (Without the store, whose failure was missed, NewLocalBackend panics.)
Call ==
    /\ ~panicked
    /\ pc = "call"
    /\ panicked' = failed
    /\ \/ failed /\ UNCHANGED <<pc, called, err, failed, LocalBackend>>
       \/ /\ ~failed
          /\ \E ok \in BOOLEAN :
                /\ Returned(AfterCall[called], ok)
                /\ LocalBackend' =
                       (LocalBackend \/ (ok /\ AfterCall[called] = "NewLocalBackend"))
    /\ UNCHANGED <<attempt, open>>
    /\ unchangedByStart
    /\ UNCHANGED <<serverVars, setter, timer>>

\* run looks at err, which may be what the server returned by now: a call that
\* failed is taken for one that did not, and its nil result is used, at once or,
\* of the store, by the next call.
CheckErr ==
    /\ ~panicked
    /\ pc = "check"
    /\ panicked' = (err = nil /\ failed /\ called # "newStore")
    /\ \/ err # nil /\ StartReturns("error")
       \/ /\ err = nil
          /\ pc' = IF called = "NewLocalBackend" THEN "netstack" ELSE "call"
          /\ UNCHANGED <<called, attempt, open, err>>
    /\ UNCHANGED failed
    /\ unchangedByStart
    /\ UNCHANGED <<serverVars, LocalBackend, setter, timer>>

\* Faulty variant of StartNetstack: its error is only logged.
StartNetstackLogged ==
    /\ ~panicked
    /\ pc = "netstack"
    /\ StartReturns("ok")
    /\ failed' \in BOOLEAN
    /\ unchangedByStart
    /\ UNCHANGED <<serverVars, LocalBackend, setter, timer, panicked>>

StartNetstack ==
    /\ ~panicked
    /\ pc = "netstack"
    /\ \/ StartFails
       \/ StartReturns("ok") /\ UNCHANGED failed
    /\ unchangedByStart
    /\ UNCHANGED <<serverVars, LocalBackend, setter, timer, panicked>>

-----------------------------------------------------------------------------
(* The goroutines that Start leaves behind.                                 *)

\* The server returns nil, or an error (context.Canceled is one), into err,
\* which nobody reads once run has returned.
ServerReturns ==
    /\ ~panicked
    /\ server = "running"
    /\ server' = "returned"
    /\ err' \in IF pc \in {"ok", "error"} THEN {err} ELSE {nil, "error"}
    /\ UNCHANGED <<pc, called, attempt, open, failed, exit, LocalBackend, deviceVars, mx,
                   stopWaits, checkVars, stopVars, status, panicked>>

\* Faulty variant of ServerDone: exit.Done is not called.
ServerGone ==
    /\ ~panicked
    /\ server = "returned"
    /\ server' = "done"
    /\ UNCHANGED <<startVars, exit, LocalBackend, deviceVars, mx, stopWaits, checkVars,
                   stopVars, status, panicked>>

ServerDone ==
    /\ ~panicked
    /\ server = "returned"
    /\ server' = "done"
    /\ exit' = exit - 1
    /\ UNCHANGED <<startVars, LocalBackend, deviceVars, mx, stopWaits, checkVars,
                   stopVars, status, panicked>>

SetDevice ==
    /\ ~panicked
    /\ setter = "lock"
    /\ mx = "free"
    /\ setter' = "done"
    /\ wgDevice' = TRUE
    /\ UNCHANGED <<startVars, serverVars, LocalBackend, mx, stopWaits, checkVars,
                   stopVars, status, panicked>>

-----------------------------------------------------------------------------
(* The node check and its pings.                                            *)

unchangedByCheck ==
    UNCHANGED <<startVars, serverVars, LocalBackend, deviceVars, stopWaits, timer,
                stopVars, status, panicked>>

\* The timer calls nodeCheck, which returns when the context is cancelled.
NodeCheck ==
    /\ ~panicked
    /\ timer
    /\ check = "idle"
    /\ ~done
    /\ check' = "lock"
    /\ UNCHANGED <<mx, ping>>
    /\ unchangedByCheck

LockCheck ==
    /\ ~panicked
    /\ check = "lock"
    /\ mx = "free"
    /\ mx' = "check"
    /\ check' = "peers"
    /\ UNCHANGED ping
    /\ unchangedByCheck

\* A goroutine for every peer that is online.  Without a backend, or with one
\* that is not ready, the panic is recovered from and nothing is pinged.
\* (Bound: a peer that is still being pinged is not pinged again.)
CheckPeers ==
    /\ ~panicked
    /\ check = "peers"
    /\ check' = "idle"
    /\ mx' = "free"
    /\ \E online \in SUBSET {p \in Peers : LocalBackend /\ ping[p] = "none"} :
          ping' = [p \in Peers |-> IF p \in online THEN "lookup" ELSE ping[p]]
    /\ unchangedByCheck

\* The name of the peer is looked up, and a second is given for the ping.
Lookup(p) ==
    /\ ~panicked
    /\ ping[p] = "lookup"
    /\ ping' = [ping EXCEPT ![p] = IF done THEN "cancelled" ELSE "live"]
    /\ UNCHANGED <<check, mx>>
    /\ unchangedByCheck

\* The name does not resolve, or there is a pong.
PingOver(p) ==
    /\ ~panicked
    /\ ping[p] # "none"
    /\ ping' = [ping EXCEPT ![p] = "none"]
    /\ UNCHANGED <<check, mx>>
    /\ unchangedByCheck

\* The second is over.
Deadline(p) ==
    /\ ~panicked
    /\ ping[p] = "live"
    /\ ping' = [ping EXCEPT ![p] = "deadline"]
    /\ UNCHANGED <<check, mx>>
    /\ unchangedByCheck

\* Faulty variant of PingFails: every error is tried again.
PingFailsAlways(p) ==
    /\ ~panicked
    /\ ping[p] \in {"live", "deadline", "cancelled"}
    /\ UNCHANGED <<ping, check, mx>>
    /\ unchangedByCheck

\* Ping returns an error.  It is tried again, unless the second is over: also
\* when the context was cancelled first, which every Ping then reports.
PingFails(p) ==
    /\ ~panicked
    /\ ping[p] \in {"live", "deadline", "cancelled"}
    /\ ping' = [ping EXCEPT ![p] = IF @ = "deadline" THEN "none" ELSE @]
    /\ UNCHANGED <<check, mx>>
    /\ unchangedByCheck

-----------------------------------------------------------------------------
(* Stop, which holds mx until it returns.                                   *)

unchangedByStop ==
    UNCHANGED <<startVars, serverVars, LocalBackend, deviceVars, stopWaits, check,
                status, panicked>>

Stop ==
    /\ ~panicked
    /\ stop = "idle"
    /\ mx = "free"
    /\ mx' = "stop"
    /\ stop' = "timer"
    /\ calm' = (pc \in {"ok", "error"})
    /\ UNCHANGED <<done, timer, ping>>
    /\ unchangedByStop

StopTimer ==
    /\ ~panicked
    /\ stop = "timer"
    /\ stopWaits => check = "idle"
    /\ timer' = FALSE
    /\ stop' = "cancel"
    /\ UNCHANGED <<mx, done, calm, ping>>
    /\ unchangedByStop

Cancel ==
    /\ ~panicked
    /\ stop = "cancel"
    /\ done' = TRUE
    /\ ping' = [p \in Peers |-> IF ping[p] = "live" THEN "cancelled" ELSE ping[p]]
    /\ stop' = "wait"
    /\ UNCHANGED <<mx, calm, timer>>
    /\ unchangedByStop

\* Faulty variant of StopReturns: does not wait for the server.
ReturnAtOnce ==
    /\ ~panicked
    /\ stop = "wait"
    /\ mx' = "free"
    /\ stop' = "done"
    /\ UNCHANGED <<done, calm, timer, ping>>
    /\ unchangedByStop

StopReturns ==
    /\ ~panicked
    /\ stop = "wait"
    /\ exit = 0
    /\ mx' = "free"
    /\ stop' = "done"
    /\ UNCHANGED <<done, calm, timer, ping>>
    /\ unchangedByStop

-----------------------------------------------------------------------------
(* WireguardDevice: the device writes its lines into a pipe, a goroutine of *)
(* its own, and the parser reads them.                                      *)

unchangedByStatus ==
    UNCHANGED <<startVars, serverVars, LocalBackend, deviceVars, mx, stopWaits, checkVars,
                stopVars, panicked>>

\* What the device d writes: nothing when IpcGetOperation fails.
Answers(d) ==
    LET written == IpcGet(d)
    IN  {written, <<>>} \cup {[written EXCEPT ![k] = InvalidLine] : k \in BadLines}
                        \cup {[written EXCEPT ![k].value = Garbled] : k \in BadLines}

\* With the device not set yet, ErrNoDevice is returned.
AskDevice ==
    /\ ~panicked
    /\ status.at = "idle"
    /\ mx = "free"
    /\ wgDevice
    /\ \E d \in Devices : \E lines \in Answers(d) :
          status' = [at |-> "reading", d |-> d, lines |-> lines, rest |-> lines,
                     dp |-> NewParser]
    /\ unchangedByStatus

\* The parser leaves its loop at an empty line or one that is no pair, not at a
\* value that it cannot parse.
ReadStatus ==
    /\ ~panicked
    /\ status.at = "reading"
    /\ status.rest # <<>>
    /\ unchangedByStatus
    /\ LET n == Min({BufLines, Len(status.rest)})
       IN  \E dp \in {ParseLines(status.dp, SubSeq(status.rest, 1, n))} :
           status' = [status EXCEPT !.rest = SubSeq(@, n + 1, Len(@)), !.dp = dp,
                                    !.at = IF dp.done THEN "returned" ELSE @]

\* The goroutine has written all and closed the pipe.
StatusEnds ==
    /\ ~panicked
    /\ status.at = "reading"
    /\ status.rest = <<>>
    /\ status' = [status EXCEPT !.at = "returned"]
    /\ unchangedByStatus

-----------------------------------------------------------------------------
Next ==
    \/ Start \/ Listen \/ OpenTun \/ OpenRouter \/ OpenDNS \/ NewEngine
    \/ Call \/ CheckErr \/ StartNetstack
    \/ ServerReturns \/ ServerDone \/ SetDevice
    \/ NodeCheck \/ LockCheck \/ CheckPeers
    \/ \E p \in Peers : Lookup(p)
    \/ \E p \in Peers : PingOver(p)
    \/ \E p \in Peers : Deadline(p)
    \/ \E p \in Peers : PingFails(p)
    \/ Stop \/ StopTimer \/ Cancel \/ StopReturns
    \/ AskDevice \/ ReadStatus \/ StatusEnds

Spec == Init /\ [][Next]_vars

\* Goroutines that can run do, the server returns when its context is
\* cancelled, a lookup and a ping return, and a second passes.
FairSpec ==
    /\ Spec
    /\ WF_vars(done /\ ServerReturns) /\ WF_vars(ServerDone)
    /\ WF_vars(LockCheck) /\ WF_vars(CheckPeers)
    /\ WF_vars(StopTimer) /\ WF_vars(Cancel) /\ WF_vars(StopReturns)
    /\ \A p \in Peers : WF_vars(Lookup(p)) /\ WF_vars(Deadline(p)) /\ WF_vars(PingFails(p))
    /\ WF_vars(ReadStatus) /\ WF_vars(StatusEnds)

-----------------------------------------------------------------------------
(* Properties.                                                              *)

\* Type invariant: the places of the goroutines, exit counts the server's
\* goroutine, and mx is kept by Stop or by the node check, whichever is inside.
\* A name that tryEngine gives up leaves nothing open for the next one to find
\* in its way, and neither does createEngine when no name is left.
TypeOK ==
    /\ pc \in {"idle", "listen", "tun", "router", "dns", "newEngine", "call", "check",
               "netstack", "ok", "error"}
    /\ called \in DOMAIN AfterCall \cup {"none", "NewLocalBackend"}
    /\ attempt \in DOMAIN tunname
    /\ open \subseteq {"Tun", "Router", "DNS"}
    /\ open # {} => pc \in {"router", "dns", "newEngine"}
    /\ err \in {nil, "error"}
    /\ exit = IF server \in {"running", "returned"} THEN 1 ELSE 0
    /\ mx = "check" <=> check = "peers"
    /\ mx = "stop" <=> stop \in {"timer", "cancel", "wait"}
    /\ check \in {"idle", "lock", "peers"}
    /\ ping \in [Peers -> {"none", "lookup", "live", "deadline", "cancelled"}]
    /\ status.at \in {"idle", "reading", "returned"}

\* Start returns nil only with a backend and an engine whose device is, or will
\* be, known to the status, and after no call of it failed.  It returns an error
\* only after one did, or after the server returned, whose goroutine writes
\* the same err.
StartIsTruthful ==
    /\ pc = "ok" => ~failed /\ LocalBackend /\ setter # "none"
    /\ pc = "error" => failed \/ server \in {"returned", "done"}

\* When Stop returns, the IPN server has: also one that an unsuccessful Start
\* left behind.  (Not one that a Start still in progress adds.)
StopWaitsForServer ==
    stop = "done" /\ calm => server \in {"none", "done"} /\ ~timer

\* Whether lines are what the device d wrote, but for endpoints, whose values
\* nobody parses.
AsWritten(lines, d) ==
    LET written == IpcGet(d)
    IN  \A k \in DOMAIN lines : lines[k] = written[k] \/ lines[k].key = "endpoint"

\* The status is that of the device as it was asked, peer by peer, and an error
\* when a line was no pair or had a value that should be parsed and could not.
\* Two things are shown as they are not, and the property names them: a last
\* handshake on a full second as none (Shows), and a device that fails to answer,
\* whose error is only logged, as one without keys and peers.
StatusIsTheDevice ==
    status.at = "returned" /\ status.lines # <<>> =>
        IF AsWritten(status.lines, status.d)
        THEN ~status.dp.err /\ Shows(status.dp.d, status.d)
        ELSE status.dp.err

\* Stop waits for a callback that waits for the mutex that Stop holds.
Deadlocked == stopWaits /\ stop = "timer" /\ check = "lock"

\* Stop returns, whatever Start, the node check, its panics and the server are
\* doing, but for one case: a timer whose Stop waits for nodeCheck, when that
\* has been called and not got the mutex yet.
StopDone == stop = "timer" ~> stop = "done" \/ Deadlocked \/ panicked

\* The goroutine of a ping ends, unless the daemon was stopped within its second:
\* then it goes on pinging with a context that is cancelled.  And the goroutine
\* that writes the status ends, unless the parser returned at a line that is no
\* pair and left it with more to write.
GoroutinesEnd ==
    /\ \A p \in Peers : ping[p] # "none" ~> ping[p] \in {"none", "cancelled"} \/ panicked
    /\ status.at = "reading" ~> status.rest = <<>> \/ status.dp.done \/ panicked
=============================================================================
