------------------------------ MODULE ApiClient ------------------------------
(***************************************************************************)
(* The client of a space node's API (mycsnode/api_client.go): the key      *)
(* exchange of Authenticate, run by a background timer and by whoever      *)
(* calls it, the flag and the key it leaves behind, and the callers that   *)
(* wait for it in WaitForAuth.                                             *)
(*                                                                         *)
(* Time is counted in periods of WaitForAuth's ticker (10ms).  A point in  *)
(* time of the code is kept as what is left until it: keyLeft for          *)
(* keyTimeoutAt, timerLeft for the next call of a timer.  What has passed  *)
(* is 0.                                                                   *)
(*                                                                         *)
(* A key exchange that the node answered is a member of Exchanges.  A new  *)
(* one is any that no field refers to, so a few of them do for any number  *)
(* of exchanges.                                                           *)
(*                                                                         *)
(* rest.RestApiClient, the node and utils.ExecTimer are not part of the    *)
(* repository: a request may fail at any point, and a timer that is        *)
(* stopped finishes its present call and makes no other.                   *)
(***************************************************************************)
EXTENDS Integers, FiniteSets

CONSTANTS
    Callers,        \* goroutines that call Authenticate themselves
    Waiters,        \* goroutines that call WaitForAuth
    MaxStarts,      \* bound: calls of Start
    MaxInits,       \* bound: calls of Initialize
    Uninitialized,  \* made by NewUninitializedApiClient, not by NewApiClient
    Exchanges,      \* identities of key exchanges
    KeyLives,       \* what may be left of a key when the node's answer arrives
    RenewBefore,    \* the 50ms of AuthCallback
    authRetryTime,  \* as a number of periods
    authTimeout,    \* the value of a.authTimeout, 10000 unless overridden
    PeriodNanos,    \* nanoseconds in a period
    PeriodMillis,   \* milliseconds in a period
    MaxElapsed      \* bound: periods a waiter counts

ASSUME TimesAssumption ==
    /\ KeyLives \subseteq Nat \ {0}
    /\ RenewBefore \in Nat \ {0}
    /\ {authRetryTime, MaxElapsed} \subseteq Nat
    /\ {authTimeout, PeriodNanos, PeriodMillis} \subseteq Nat

ASSUME CountsAssumption ==
    /\ {MaxStarts, MaxInits} \subseteq Nat
    /\ Uninitialized \in BOOLEAN
    /\ Exchanges \subseteq Nat \ {0}

Timers == 1 .. MaxStarts
Procs == Timers \cup Callers

ASSUME ProcsAssumption == Timers \cap Callers = {} /\ 0 \notin Callers

Nodes == 1 .. (MaxInits + 1)

VARIABLES
    client,         \* the node behind each field, 0 for nil
    inits,          \* calls of Initialize so far
    initAt,         \* the field Initialize is about to set, or none
    mx,             \* holder of keyRefreshMutex, 0 when it is free
    isAuthenticated,
    crypt,          \* the exchange the key of a.crypt is from, 0 for nil
    AuthIDKey,      \* the exchange that a.AuthIDKey is from
    keyFrom,        \* the exchange that a.keyTimeoutAt is from
    keyLeft,
    renewer,        \* history: the goroutine that made that exchange, 0 for none
    exchanged,      \* history: the node the exchange of a.crypt was made with
    pc,             \* where a goroutine is in AuthCallback and Authenticate
    request,        \* node the request is encrypted for, node it is sent to
    timer,          \* number of the timer in a.authExecTimer, 0 for nil
    running,        \* timers that were started and not stopped
    timerLeft,
    waiter,         \* where a goroutine is in WaitForAuth
    panicked

authVars == <<mx, isAuthenticated, crypt, AuthIDKey, keyFrom, renewer, exchanged, pc, request>>
timerVars == <<timer, running, timerLeft>>
vars == <<client, inits, initAt, authVars, keyLeft, timerVars, waiter, panicked>>

Max0(n) == IF n > 0 THEN n ELSE 0

NoRequest == [for |-> 0, to |-> 0]
NotWaiting == [at |-> "idle", ticked |-> FALSE, elapsed |-> 0]

Init ==
    /\ client = LET n == IF Uninitialized THEN 0 ELSE 1
                IN  [Node |-> n, nodePublicKey |-> n, restAuthClient |-> n,
                     RestApiClient |-> n]
    /\ inits = 0 /\ initAt = "none"
    /\ mx = 0
    /\ isAuthenticated = FALSE
    /\ crypt = 0 /\ AuthIDKey = 0 /\ keyFrom = 0 /\ keyLeft = 0 /\ renewer = 0
    /\ exchanged = 1
    /\ pc = [p \in Procs |-> "idle"]
    /\ request = [p \in Procs |-> NoRequest]
    /\ timer = 0
    /\ running = {}
    /\ timerLeft = [t \in Timers |-> 0]
    /\ waiter = [i \in Waiters |-> NotWaiting]
    /\ panicked = FALSE

-----------------------------------------------------------------------------
(* Initialize, under a mutex that Authenticate does not take: its           *)
(* assignments fall between any two steps of Authenticate.                  *)

Initialize ==
    /\ ~panicked
    /\ initAt = "none"
    /\ inits < MaxInits
    /\ inits' = inits + 1
    /\ client' = [client EXCEPT !.Node = inits + 2]
    /\ initAt' = "nodePublicKey"
    /\ UNCHANGED <<authVars, keyLeft, timerVars, waiter, panicked>>

\* What Initialize sets after field f.
After(f) ==
    CASE f = "nodePublicKey" -> "restAuthClient"
      [] f = "restAuthClient" -> "RestApiClient"
      [] f = "RestApiClient" -> "none"

\* The next field is replaced, or left nil by an error, and then the ones
\* after it keep what they had.
InitializeField ==
    /\ ~panicked
    /\ initAt # "none"
    /\ \/ /\ client' = [client EXCEPT ![initAt] = inits + 1]
          /\ initAt' = After(initAt)
       \/ /\ client' = [client EXCEPT ![initAt] = 0]
          /\ initAt' = "none"
    /\ UNCHANGED <<inits, authVars, keyLeft, timerVars, waiter, panicked>>

-----------------------------------------------------------------------------
(* The timer that keeps the client authenticated.                           *)

\* A second Start forgets the timer of the first, which keeps running.
Start ==
    /\ ~panicked
    /\ timer < MaxStarts
    /\ timer' = timer + 1
    /\ running' = running \cup {timer + 1}
    /\ timerLeft' = [timerLeft EXCEPT ![timer + 1] = 0]
    /\ UNCHANGED <<client, inits, initAt, authVars, keyLeft, waiter, panicked>>

Stop ==
    /\ ~panicked
    /\ timer # 0
    /\ running' = running \ {timer}
    /\ UNCHANGED <<client, inits, initAt, authVars, keyLeft, timer, timerLeft, waiter,
                   panicked>>

\* Authenticate returns ok to its caller.  AuthCallback goes on to read
\* keyTimeoutAt, without the mutex, or returns authRetryTime to the timer.
Return(p, ok) ==
    /\ pc' = [pc EXCEPT ![p] = IF ok /\ p \in Timers THEN "authed" ELSE "idle"]
    /\ timerLeft' = IF ~ok /\ p \in Timers
                    THEN [timerLeft EXCEPT ![p] = authRetryTime]
                    ELSE timerLeft
    /\ request' = [request EXCEPT ![p] = NoRequest]
    /\ UNCHANGED <<timer, running>>

\* Faulty variant of Reschedule: renews when the key expires.
RescheduleLate(t) ==
    /\ ~panicked
    /\ pc[t] = "authed"
    /\ pc' = [pc EXCEPT ![t] = "idle"]
    /\ timerLeft' = [timerLeft EXCEPT ![t] = keyLeft]
    /\ UNCHANGED <<client, inits, initAt, mx, isAuthenticated, crypt, AuthIDKey,
                   keyFrom, renewer, keyLeft, exchanged, request, timer, running,
                   waiter, panicked>>

\* AuthCallback returns what is left until 50ms before the key expires.
Reschedule(t) ==
    /\ ~panicked
    /\ pc[t] = "authed"
    /\ pc' = [pc EXCEPT ![t] = "idle"]
    /\ timerLeft' = [timerLeft EXCEPT ![t] = Max0(keyLeft - RenewBefore)]
    /\ UNCHANGED <<client, inits, initAt, mx, isAuthenticated, crypt, AuthIDKey,
                   keyFrom, renewer, keyLeft, exchanged, request, timer, running,
                   waiter, panicked>>

-----------------------------------------------------------------------------
(* Authenticate, which holds keyRefreshMutex until it returns.              *)

\* A timer calls it when its time is up, a caller when it likes.
Called(p) ==
    /\ pc[p] = "idle"
    /\ p \in Timers => p \in running /\ timerLeft[p] = 0

\* Faulty variant of Begin: the mutex is not taken.
BeginUnlocked(p) ==
    /\ ~panicked
    /\ Called(p)
    /\ isAuthenticated' = FALSE
    /\ client.nodePublicKey # 0
    /\ pc' = [pc EXCEPT ![p] = "encrypted"]
    /\ request' = [request EXCEPT ![p] = [for |-> client.nodePublicKey, to |-> 0]]
    /\ UNCHANGED <<client, inits, initAt, mx, crypt, AuthIDKey, keyFrom, renewer,
                   keyLeft, exchanged, timerVars, waiter, panicked>>

\* The request is encrypted with the key of the node, or one of the steps up
\* to there fails.
Begin(p) ==
    /\ ~panicked
    /\ Called(p)
    /\ mx = 0
    /\ isAuthenticated' = FALSE
    /\ \/ /\ Return(p, FALSE)
          /\ UNCHANGED <<mx, panicked>>
       \/ /\ client.nodePublicKey = 0
          /\ panicked' = TRUE
          /\ UNCHANGED <<mx, pc, request, timerVars>>
       \/ /\ client.nodePublicKey # 0
          /\ mx' = p
          /\ pc' = [pc EXCEPT ![p] = "encrypted"]
          /\ request' = [request EXCEPT ![p] = [for |-> client.nodePublicKey, to |-> 0]]
          /\ UNCHANGED <<timerVars, panicked>>
    /\ UNCHANGED <<client, inits, initAt, crypt, AuthIDKey, keyFrom, renewer, keyLeft,
                   exchanged, waiter>>

Post(p) ==
    /\ ~panicked
    /\ pc[p] = "encrypted"
    /\ \/ /\ client.restAuthClient = 0
          /\ panicked' = TRUE
          /\ UNCHANGED <<pc, request>>
       \/ /\ client.restAuthClient # 0
          /\ pc' = [pc EXCEPT ![p] = "sent"]
          /\ request' = [request EXCEPT ![p].to = client.restAuthClient]
          /\ UNCHANGED panicked
    /\ UNCHANGED <<client, inits, initAt, mx, isAuthenticated, crypt, AuthIDKey,
                   keyFrom, renewer, keyLeft, exchanged, timerVars, waiter>>

\* Faulty variant of AuthFails: returns without unlocking.
AuthFailsLocked(p) ==
    /\ ~panicked
    /\ pc[p] = "sent"
    /\ mx' = mx
    /\ Return(p, FALSE)
    /\ crypt' \in {crypt, 0}
    /\ UNCHANGED <<client, inits, initAt, isAuthenticated, AuthIDKey, keyFrom, renewer,
                   keyLeft, exchanged, waiter, panicked>>

\* An HTTP error, an answer that does not decrypt or parse, another name or
\* nonce than the request's, no shared secret, or no cipher for it: then
\* a.crypt is nil.
AuthFails(p) ==
    /\ ~panicked
    /\ pc[p] = "sent"
    /\ mx' = 0
    /\ Return(p, FALSE)
    /\ crypt' \in {crypt, 0}
    /\ UNCHANGED <<client, inits, initAt, isAuthenticated, AuthIDKey, keyFrom, renewer,
                   keyLeft, exchanged, waiter, panicked>>

\* An exchange that no field refers to: the least, as they are all alike.
NewExchange ==
    LET fresh == Exchanges \ {crypt, AuthIDKey, keyFrom}
    IN  {x \in fresh : \A y \in fresh : x <= y}

\* The node can only answer what is encrypted for it.
SetCrypt(p) ==
    /\ ~panicked
    /\ pc[p] = "sent"
    /\ request[p].for = request[p].to
    /\ crypt' \in NewExchange
    /\ exchanged' = request[p].to
    /\ pc' = [pc EXCEPT ![p] = "crypt"]
    /\ UNCHANGED <<client, inits, initAt, mx, isAuthenticated, AuthIDKey, keyFrom,
                   renewer, keyLeft, request, timerVars, waiter, panicked>>

\* Faulty variant of SetKey: the key's timeout is kept from the last exchange.
SetKeyOldTimeout(p) ==
    /\ ~panicked
    /\ pc[p] = "crypt"
    /\ keyFrom' = IF keyFrom = 0 THEN crypt ELSE keyFrom
    /\ keyLeft' \in IF keyFrom = 0 THEN KeyLives ELSE {keyLeft}
    /\ renewer' = p
    /\ AuthIDKey' = crypt
    /\ isAuthenticated' = TRUE
    /\ mx' = 0
    /\ Return(p, TRUE)
    /\ UNCHANGED <<client, inits, initAt, crypt, exchanged, waiter, panicked>>

SetKey(p) ==
    /\ ~panicked
    /\ pc[p] = "crypt"
    /\ keyFrom' = crypt
    /\ keyLeft' \in KeyLives
    /\ renewer' = p
    /\ AuthIDKey' = crypt
    /\ isAuthenticated' = TRUE
    /\ mx' = 0
    /\ Return(p, TRUE)
    /\ UNCHANGED <<client, inits, initAt, crypt, exchanged, waiter, panicked>>

Reset ==
    /\ ~panicked
    /\ mx = 0
    /\ isAuthenticated' = FALSE
    /\ UNCHANGED <<client, inits, initAt, mx, crypt, AuthIDKey, keyFrom, renewer,
                   keyLeft, exchanged, pc, request, timerVars, waiter, panicked>>

-----------------------------------------------------------------------------
(* WaitForAuth.                                                             *)

\* What IsAuthenticated returns to who gets keyRefreshMutex.
IsAuthenticated == isAuthenticated /\ keyLeft > 0

unchangedByWaiters ==
    UNCHANGED <<client, inits, initAt, authVars, keyLeft, timerVars, panicked>>

WaitForAuth(i) ==
    /\ ~panicked
    /\ waiter[i].at = "idle"
    /\ mx = 0
    /\ waiter' = [waiter EXCEPT ![i] = [at |-> IF IsAuthenticated THEN "true" ELSE "wait",
                                        ticked |-> FALSE, elapsed |-> 0]]
    /\ unchangedByWaiters

\* The deadline is a.authTimeout nanoseconds after the wait began.
TimedOut(i) == waiter[i].elapsed * PeriodNanos > authTimeout

\* Faulty variant of Poll: waits for the mutex and keeps waiting.
PollForever(i) ==
    /\ ~panicked
    /\ waiter[i].at = "wait"
    /\ waiter[i].ticked
    /\ mx = 0
    /\ waiter' = [waiter EXCEPT ![i].at = IF IsAuthenticated THEN "true" ELSE "wait",
                                ![i].ticked = FALSE]
    /\ unchangedByWaiters

Poll(i) ==
    /\ ~panicked
    /\ waiter[i].at = "wait"
    /\ waiter[i].ticked
    /\ mx = 0
    /\ waiter' = [waiter EXCEPT ![i].at = IF IsAuthenticated THEN "true"
                                          ELSE IF TimedOut(i) THEN "timeout"
                                          ELSE "wait",
                                ![i].ticked = FALSE]
    /\ unchangedByWaiters

Interrupt(i) ==
    /\ ~panicked
    /\ waiter[i].at = "wait"
    /\ waiter' = [waiter EXCEPT ![i].at = "interrupted"]
    /\ unchangedByWaiters

\* The goroutine calls WaitForAuth again.
Again(i) ==
    /\ ~panicked
    /\ waiter[i].at \in {"true", "timeout", "interrupted"}
    /\ waiter' = [waiter EXCEPT ![i] = NotWaiting]
    /\ unchangedByWaiters

-----------------------------------------------------------------------------
\* A period passes.  The ticker of a waiter that has not read its last tick
\* drops the new one.
Tick ==
    /\ ~panicked
    /\ keyLeft' = Max0(keyLeft - 1)
    /\ timerLeft' = [t \in Timers |-> IF pc[t] = "idle" THEN Max0(timerLeft[t] - 1)
                                      ELSE timerLeft[t]]
    /\ waiter' = [i \in Waiters |->
                    IF waiter[i].at = "wait"
                    THEN [waiter[i] EXCEPT !.ticked = TRUE,
                             !.elapsed = IF @ < MaxElapsed THEN @ + 1 ELSE @]
                    ELSE waiter[i]]
    /\ UNCHANGED <<client, inits, initAt, authVars, timer, running, panicked>>

Next ==
    \/ Initialize \/ InitializeField
    \/ Start
    \/ Stop
    \/ \E t \in Timers : Reschedule(t)
    \/ \E p \in Procs : Begin(p)
    \/ \E p \in Procs : Post(p)
    \/ \E p \in Procs : AuthFails(p)
    \/ \E p \in Procs : SetCrypt(p)
    \/ \E p \in Procs : SetKey(p)
    \/ Reset
    \/ \E i \in Waiters : WaitForAuth(i)
    \/ \E i \in Waiters : Poll(i)
    \/ \E i \in Waiters : Interrupt(i)
    \/ \E i \in Waiters : Again(i)
    \/ Tick

Spec == Init /\ [][Next]_vars

\* Time passes, goroutines that can run do, Go's mutex starves nobody, and a
\* request returns.
Progress ==
    /\ WF_vars(Tick) /\ WF_vars(InitializeField)
    /\ \A t \in Timers : SF_vars(Begin(t)) /\ WF_vars(Reschedule(t))
    /\ \A p \in Procs : /\ WF_vars(Post(p))
                        /\ WF_vars(AuthFails(p) \/ SetCrypt(p))
                        /\ WF_vars(SetKey(p))
    /\ \A i \in Waiters : SF_vars(Poll(i))

\* A timer's exchange does not fail for ever.
Answers ==
    \A t \in Timers : /\ SF_vars(Begin(t) /\ pc'[t] = "encrypted")
                      /\ SF_vars(SetCrypt(t))

AnsweredSpec == Spec /\ Progress /\ Answers

-----------------------------------------------------------------------------
(* Properties.                                                              *)

\* Type invariant: the fields hold nodes, exchanges and times, and
\* keyRefreshMutex is held by the goroutine that is inside Authenticate.
TypeOK ==
    /\ client \in [Node : Nodes \cup {0}, nodePublicKey : Nodes \cup {0},
                   restAuthClient : Nodes \cup {0}, RestApiClient : Nodes \cup {0}]
    /\ inits \in 0 .. MaxInits
    /\ initAt \in {"none", "nodePublicKey", "restAuthClient", "RestApiClient"}
    /\ initAt # "none" => inits > 0
    /\ mx \in Procs \cup {0}
    /\ isAuthenticated \in BOOLEAN
    /\ {crypt, AuthIDKey, keyFrom} \subseteq Exchanges \cup {0}
    /\ keyLeft \in Nat
    /\ renewer \in Procs \cup {0}
    /\ exchanged \in Nodes
    /\ pc \in [Procs -> {"idle", "encrypted", "sent", "crypt", "authed"}]
    /\ request \in [Procs -> [for : Nodes \cup {0}, to : Nodes \cup {0}]]
    /\ timer \in 0 .. MaxStarts
    /\ running \subseteq Timers
    /\ timerLeft \in [Timers -> Nat]
    /\ waiter \in [Waiters -> [at : {"idle", "wait", "true", "timeout", "interrupted"},
                               ticked : BOOLEAN, elapsed : Nat]]
    /\ panicked \in BOOLEAN
    /\ \A p \in Procs : pc[p] \in {"encrypted", "sent", "crypt"} <=> mx = p

\* While the flag of Authenticate is set, the cipher, the timeout and the
\* x-auth-key header are of one and the same exchange, whatever goroutines
\* authenticated, failed to, or reset the client before.
OneExchange ==
    isAuthenticated => crypt # 0 /\ keyFrom = crypt /\ AuthIDKey = crypt

\* The key that Authenticate is about to put to use is for the node that its
\* request was made out to, even when Initialize replaced fields during the
\* exchange, and the flag is down until the other fields follow.
KeyOfItsNode ==
    \A p \in Procs : pc[p] = "crypt" => /\ crypt # 0
                                        /\ exchanged = request[p].for
                                        /\ ~isAuthenticated

\* Exchanges are kept apart, before and after the flag is set.
ExchangesApart == OneExchange /\ KeyOfItsNode

\* A timer that made the last exchange is due again before the key expires,
\* whatever other timers and callers of Authenticate did before, and for keys
\* that live shorter than the margin of AuthCallback too.
RenewalDue ==
    \A t \in running :
        renewer = t /\ pc[t] = "idle" /\ IsAuthenticated => timerLeft[t] < keyLeft

\* What an Initialize that failed may leave nil.
Usable == client.nodePublicKey # 0 /\ client.restAuthClient # 0

\* A client whose timer keeps running and whose last Initialize did not fail is
\* authenticated again and again, when the node does not refuse for ever: no
\* failure, Reset, other caller of Authenticate or change of node in the middle
\* of an exchange stops the renewal.
StaysAuthenticated ==
    \A t \in Timers : <>[](t \in running /\ Usable) => []<>IsAuthenticated

\* WaitForAuth returns, even when Authenticate holds the mutex that it polls
\* the flag under (unless a panic ends the program).
WaitReturns ==
    \A i \in Waiters : waiter[i].at = "wait" ~> waiter[i].at # "wait" \/ panicked

\* What the comment on authTimeout says: WaitForAuth gives up after
\* authTimeout milliseconds.
WaitsForTimeout ==
    \A i \in Waiters :
        waiter[i].at = "timeout" => waiter[i].elapsed * PeriodMillis >= authTimeout
=============================================================================
