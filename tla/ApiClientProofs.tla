--------------------------- MODULE ApiClientProofs ---------------------------
(***************************************************************************)
(* Proofs about ApiClient, for any number of goroutines, exchanges and     *)
(* calls and any times.                                                    *)
(***************************************************************************)
EXTENDS ApiClient, TLAPS

\* The flag is down while a goroutine is inside Authenticate.  OneExchange is
\* not inductive without it: SetCrypt replaces one of the three fields.
FlagDown == mx # 0 => ~isAuthenticated

\* A request that was sent was sent to a node.
SentTo == \A p \in Procs : pc[p] = "sent" => request[p].to \in Nodes

\* The inductive invariant.
AuthInv == TypeOK /\ OneExchange /\ KeyOfItsNode /\ FlagDown /\ SentTo

\* A clamped time is a natural number.
LEMMA Max0Type == \A n \in Int : Max0(n) \in Nat
  BY DEF Max0

\* 0 stands for no goroutine.
LEMMA ZeroIsNoProc == 0 \notin Procs
  BY ProcsAssumption, CountsAssumption DEF Procs, Timers

\* Returning from Authenticate keeps the types of what it sets.
LEMMA ReturnType ==
  ASSUME TypeOK, NEW p \in Procs, NEW ok \in BOOLEAN, Return(p, ok)
  PROVE  /\ pc' \in [Procs -> {"idle", "encrypted", "sent", "crypt", "authed"}]
         /\ pc' = [pc EXCEPT ![p] = pc'[p]]
         /\ pc'[p] \in {"idle", "authed"}
         /\ timerLeft' \in [Timers -> Nat]
         /\ timer' = timer /\ running' = running
         /\ request' \in [Procs -> [for : Nodes \cup {0}, to : Nodes \cup {0}]]
         /\ \A q \in Procs : q # p => request'[q] = request[q]
  <1>1. pc' \in [Procs -> {"idle", "encrypted", "sent", "crypt", "authed"}]
    BY DEF TypeOK, Return
  <1>2. pc' = [pc EXCEPT ![p] = pc'[p]] /\ pc'[p] \in {"idle", "authed"}
    BY DEF TypeOK, Return
  <1>3. timerLeft' \in [Timers -> Nat]
    BY TimesAssumption DEF TypeOK, Return
  <1>4. /\ request' \in [Procs -> [for : Nodes \cup {0}, to : Nodes \cup {0}]]
        /\ \A q \in Procs : q # p => request'[q] = request[q]
    BY DEF TypeOK, Return, NoRequest
  <1> QED
    BY <1>1, <1>2, <1>3, <1>4 DEF Return

LEMMA AuthInit == Init => AuthInv
  <1> SUFFICES ASSUME Init PROVE AuthInv
    OBVIOUS
  <1>1. \A n \in {0, 1} : n \in Nodes \cup {0}
    BY CountsAssumption DEF Nodes
  <1>2. client \in [Node : Nodes \cup {0}, nodePublicKey : Nodes \cup {0},
                    restAuthClient : Nodes \cup {0}, RestApiClient : Nodes \cup {0}]
    <2>1. PICK n \in {0, 1} : client = [Node |-> n, nodePublicKey |-> n,
                                        restAuthClient |-> n, RestApiClient |-> n]
      BY DEF Init
    <2> QED
      BY <1>1, <2>1
  <1>3. exchanged \in Nodes
    BY CountsAssumption DEF Init, Nodes
  <1>4. request \in [Procs -> [for : Nodes \cup {0}, to : Nodes \cup {0}]]
    BY DEF Init, NoRequest
  <1>5. inits \in 0 .. MaxInits /\ timer \in 0 .. MaxStarts
    BY CountsAssumption DEF Init
  <1>6. \A p \in Procs : pc[p] \in {"encrypted", "sent", "crypt"} <=> mx = p
    BY ZeroIsNoProc DEF Init
  <1>7. waiter \in [Waiters -> [at : {"idle", "wait", "true", "timeout", "interrupted"},
                               ticked : BOOLEAN, elapsed : Nat]]
    BY DEF Init, NotWaiting
  <1>8. TypeOK
    BY <1>2, <1>3, <1>4, <1>5, <1>6, <1>7, Zenon DEF Init, TypeOK
  <1> QED
    BY <1>8 DEF Init, AuthInv, OneExchange, KeyOfItsNode, FlagDown, SentTo

\* Steps that leave the fields of the exchange alone.
LEMMA AuthFrame ==
  ASSUME AuthInv, TypeOK', UNCHANGED <<mx, crypt, AuthIDKey, keyFrom, exchanged>>,
         \A p \in Procs : pc'[p] \in {"sent", "crypt"} =>
                            pc'[p] = pc[p] /\ request'[p] = request[p],
         isAuthenticated' => isAuthenticated
  PROVE  AuthInv'
  BY DEF AuthInv, OneExchange, KeyOfItsNode, FlagDown, SentTo, TypeOK

LEMMA OtherStep ==
  ASSUME AuthInv,
         \/ Initialize \/ InitializeField \/ Start \/ Stop \/ Reset \/ Tick
         \/ \E i \in Waiters : WaitForAuth(i) \/ Poll(i) \/ Interrupt(i) \/ Again(i)
         \/ UNCHANGED vars
  PROVE  AuthInv'
  <1> USE DEF AuthInv
  <1>1. CASE Initialize \/ InitializeField
    <2> DEFINE Field == {"Node", "nodePublicKey", "restAuthClient", "RestApiClient"}
               Client == [Node : Nodes \cup {0}, nodePublicKey : Nodes \cup {0},
                          restAuthClient : Nodes \cup {0}, RestApiClient : Nodes \cup {0}]
    <2>1. ASSUME NEW f \in Field, NEW n \in Nodes \cup {0}
          PROVE  [client EXCEPT ![f] = n] \in Client
      BY Zenon DEF TypeOK
    <2>2. /\ inits' \in 0 .. MaxInits
          /\ initAt' \in {"none", "nodePublicKey", "restAuthClient", "RestApiClient"}
          /\ initAt' # "none" => inits' > 0
      <3>1. CASE Initialize BY <3>1, CountsAssumption DEF Initialize, TypeOK
      <3>2. CASE InitializeField
        <4>1. After(initAt) \in {"none", "restAuthClient", "RestApiClient"}
          BY <3>2 DEF InitializeField, After, TypeOK
        <4> QED
          BY <3>2, <4>1 DEF InitializeField, TypeOK
      <3> QED BY <1>1, <3>1, <3>2
    <2>3. client' \in Client
      <3>1. CASE Initialize
        <4>1. inits + 2 \in Nodes
          BY <3>1, CountsAssumption DEF Initialize, TypeOK, Nodes
        <4>2. client' = [client EXCEPT !["Node"] = inits + 2]
          BY <3>1 DEF Initialize
        <4> QED
          BY <2>1, <4>1, <4>2
      <3>2. CASE InitializeField
        <4>1. inits + 1 \in Nodes /\ initAt \in Field
          BY <3>2, CountsAssumption DEF InitializeField, TypeOK, Nodes
        <4>2. \E n \in Nodes \cup {0} : client' = [client EXCEPT ![initAt] = n]
          BY <3>2, <4>1 DEF InitializeField
        <4> QED
          BY <2>1, <4>1, <4>2
      <3> QED
        BY <1>1, <3>1, <3>2
    <2>4. TypeOK'
      BY <1>1, <2>2, <2>3 DEF Initialize, InitializeField, TypeOK, authVars, timerVars
    <2> QED
      BY <1>1, <2>4, AuthFrame DEF Initialize, InitializeField, authVars
  <1>2. CASE Start
    <2>1. timer' \in 0 .. MaxStarts /\ timer + 1 \in Timers
      BY <1>2, CountsAssumption DEF Start, TypeOK, Timers
    <2>2. TypeOK'
      BY <1>2, <2>1 DEF Start, TypeOK, authVars
    <2> QED
      BY <1>2, <2>2, AuthFrame DEF Start, authVars
  <1>3. CASE Stop
    <2>1. TypeOK'
      BY <1>3 DEF Stop, TypeOK, authVars
    <2> QED
      BY <1>3, <2>1, AuthFrame DEF Stop, authVars
  <1>4. CASE Reset
    <2>1. TypeOK'
      BY <1>4, Zenon DEF Reset, TypeOK, timerVars
    <2> QED
      BY <1>4, <2>1, AuthFrame DEF Reset
  <1>5. CASE Tick
    <2>1. keyLeft' \in Nat
      <3>1. keyLeft - 1 \in Int
        BY DEF TypeOK
      <3> QED
        BY <1>5, <3>1, Max0Type, Zenon DEF Tick
    <2>2. timerLeft' \in [Timers -> Nat]
      <3>1. ASSUME NEW t \in Timers PROVE timerLeft'[t] \in Nat
        <4>1. timerLeft[t] \in Nat /\ timerLeft[t] - 1 \in Int
          BY DEF TypeOK
        <4>2. Max0(timerLeft[t] - 1) \in Nat
          BY <4>1, Max0Type
        <4>3. timerLeft'[t] \in {Max0(timerLeft[t] - 1), timerLeft[t]}
          BY <1>5, Zenon DEF Tick
        <4> QED
          BY <4>1, <4>2, <4>3
      <3> QED
        BY <1>5, <3>1, Zenon DEF Tick
    <2>3. waiter' \in [Waiters -> [at : {"idle", "wait", "true", "timeout", "interrupted"},
                                   ticked : BOOLEAN, elapsed : Nat]]
      <3>1. waiter \in [Waiters -> [at : {"idle", "wait", "true", "timeout", "interrupted"},
                                    ticked : BOOLEAN, elapsed : Nat]]
        BY DEF TypeOK
      <3>2. MaxElapsed \in Nat
        BY TimesAssumption
      <3> HIDE DEF AuthInv
      <3>3. ASSUME NEW i \in Waiters
            PROVE  waiter'[i] \in [at : {"idle", "wait", "true", "timeout", "interrupted"},
                                   ticked : BOOLEAN, elapsed : Nat]
        <4> DEFINE e == IF waiter[i].elapsed < MaxElapsed THEN waiter[i].elapsed + 1
                        ELSE waiter[i].elapsed
        <4>1. e \in Nat
          BY <3>1, <3>2
        <4>2. waiter'[i] = IF waiter[i].at = "wait"
                           THEN [waiter[i] EXCEPT !.ticked = TRUE, !.elapsed = e]
                           ELSE waiter[i]
          BY <1>5, Zenon DEF Tick
        <4> HIDE DEF e
        <4> QED
          BY <3>1, <4>1, <4>2, Zenon
      <3> QED
        BY <1>5, <3>3, Zenon DEF Tick
    <2>4. TypeOK'
      BY <1>5, <2>1, <2>2, <2>3, ZenonT(30) DEF Tick, TypeOK, authVars
    <2> QED
      BY <1>5, <2>4, AuthFrame, Zenon DEF Tick, authVars
  <1>6. CASE \E i \in Waiters : WaitForAuth(i) \/ Poll(i) \/ Interrupt(i) \/ Again(i)
    <2>1. PICK i \in Waiters : WaitForAuth(i) \/ Poll(i) \/ Interrupt(i) \/ Again(i)
      BY <1>6
    <2>2. waiter' \in [Waiters -> [at : {"idle", "wait", "true", "timeout", "interrupted"},
                                   ticked : BOOLEAN, elapsed : Nat]]
      <3>1. waiter \in [Waiters -> [at : {"idle", "wait", "true", "timeout", "interrupted"},
                                    ticked : BOOLEAN, elapsed : Nat]]
        BY DEF TypeOK
      <3> HIDE DEF AuthInv
      <3>2. CASE WaitForAuth(i) BY <3>1, <3>2 DEF WaitForAuth
      <3>3. CASE Poll(i) BY <3>1, <3>3 DEF Poll
      <3>4. CASE Interrupt(i) BY <3>1, <3>4 DEF Interrupt
      <3>5. CASE Again(i) BY <3>1, <3>5 DEF Again, NotWaiting
      <3> QED BY <2>1, <3>2, <3>3, <3>4, <3>5
    <2>3. unchangedByWaiters
      BY <2>1 DEF WaitForAuth, Poll, Interrupt, Again
    <2>4. TypeOK'
      BY <2>2, <2>3 DEF unchangedByWaiters, TypeOK, authVars, timerVars
    <2> QED
      BY <2>3, <2>4, AuthFrame DEF unchangedByWaiters, authVars
  <1>7. CASE UNCHANGED vars
    <2>1. TypeOK'
      BY <1>7 DEF vars, TypeOK, authVars, timerVars
    <2> QED
      BY <1>7, <2>1, AuthFrame DEF vars, authVars
  <1> QED
    BY <1>1, <1>2, <1>3, <1>4, <1>5, <1>6, <1>7

LEMMA AuthenticateStep ==
  ASSUME AuthInv, NEW p \in Procs,
         \/ Begin(p) \/ Post(p) \/ AuthFails(p) \/ SetCrypt(p) \/ SetKey(p)
         \/ p \in Timers /\ Reschedule(p)
  PROVE  AuthInv'
  <1> USE DEF AuthInv
  <1>0. \A q \in Procs : q # 0
    BY ZeroIsNoProc
  <1>1. CASE Begin(p)
    <2>0. mx = 0 /\ pc[p] = "idle" /\ isAuthenticated' = FALSE
      BY <1>1 DEF Begin, Called
    <2>1. CASE Return(p, FALSE) /\ UNCHANGED <<mx, panicked>>
      <3>0. /\ pc' \in [Procs -> {"idle", "encrypted", "sent", "crypt", "authed"}]
            /\ pc' = [pc EXCEPT ![p] = pc'[p]]
            /\ pc'[p] \in {"idle", "authed"}
            /\ timerLeft' \in [Timers -> Nat]
            /\ timer' = timer /\ running' = running
            /\ request' \in [Procs -> [for : Nodes \cup {0}, to : Nodes \cup {0}]]
            /\ \A q \in Procs : q # p => request'[q] = request[q]
        <4>1. Return(p, FALSE) /\ TypeOK
          BY <2>1, Zenon
        <4> QED
          BY <4>1, ReturnType, Zenon
      <3>1. TypeOK'
        <4>1. \A q \in Procs : pc'[q] \in {"encrypted", "sent", "crypt"} <=> mx' = q
          BY <1>0, <2>0, <2>1, <3>0 DEF TypeOK
        <4>2. UNCHANGED <<client, inits, initAt, crypt, AuthIDKey, keyFrom, renewer, keyLeft,
                          exchanged, waiter, mx, panicked>>
          BY <1>1, <2>1 DEF Begin
        <4> QED
          BY <2>0, <3>0, <4>1, <4>2, Zenon DEF TypeOK
      <3>2. \A q \in Procs : pc'[q] \in {"sent", "crypt"} =>
                                 pc'[q] = pc[q] /\ request'[q] = request[q]
        BY <3>0 DEF TypeOK
      <3> QED
        BY <1>1, <2>1, <3>1, <3>2, AuthFrame DEF Begin
    <2>2. CASE panicked' = TRUE /\ UNCHANGED <<mx, pc, request, timerVars>>
      <3>1. TypeOK'
        BY <1>1, <2>2, Zenon DEF Begin, TypeOK, timerVars
      <3> QED
        BY <1>1, <2>2, <3>1, AuthFrame DEF Begin
    <2>3. CASE /\ mx' = p
               /\ client.nodePublicKey # 0
               /\ pc' = [pc EXCEPT ![p] = "encrypted"]
               /\ request' = [request EXCEPT ![p] = [for |-> client.nodePublicKey, to |-> 0]]
               /\ UNCHANGED <<timerVars, panicked>>
      <3>1. request' \in [Procs -> [for : Nodes \cup {0}, to : Nodes \cup {0}]]
        BY <2>3 DEF TypeOK
      <3>2. \A q \in Procs : pc'[q] \in {"encrypted", "sent", "crypt"} <=> mx' = q
        BY <1>0, <2>0, <2>3 DEF TypeOK
      <3>3. TypeOK'
        BY <1>1, <2>0, <2>3, <3>1, <3>2, Zenon DEF Begin, TypeOK, timerVars
      <3>4. \A q \in Procs : pc'[q] \notin {"sent", "crypt"}
        BY <1>0, <2>0, <2>3 DEF TypeOK
      <3> QED
        BY <2>0, <3>3, <3>4 DEF OneExchange, KeyOfItsNode, FlagDown, SentTo
    <2> QED
      BY <1>1, <2>1, <2>2, <2>3, Zenon DEF Begin
  <1>2. CASE Post(p)
    <2>0. pc[p] = "encrypted" /\ mx = p
      BY <1>2 DEF Post, TypeOK
    <2>1. request' \in [Procs -> [for : Nodes \cup {0}, to : Nodes \cup {0}]]
      BY <1>2 DEF Post, TypeOK
    <2>2. /\ pc' \in [Procs -> {"idle", "encrypted", "sent", "crypt", "authed"}]
          /\ \A q \in Procs : q # p => pc'[q] = pc[q]
          /\ pc'[p] \in {"encrypted", "sent"}
      BY <1>2, <2>0 DEF Post, TypeOK
    <2>3. TypeOK'
      <3>1. panicked' \in BOOLEAN
        BY <1>2, Zenon DEF Post, TypeOK
      <3>2. \A q \in Procs : pc'[q] \in {"encrypted", "sent", "crypt"} <=> mx' = q
        <4>1. mx' = mx
          BY <1>2 DEF Post
        <4> QED
          BY <2>0, <2>2, <4>1 DEF TypeOK
      <3>3. UNCHANGED <<client, inits, initAt, mx, isAuthenticated, crypt, AuthIDKey, keyFrom,
                        renewer, keyLeft, exchanged, timer, running, timerLeft, waiter>>
        BY <1>2 DEF Post, timerVars
      <3> QED
        BY <2>1, <2>2, <3>1, <3>2, <3>3 DEF TypeOK
    <2>4. \A q \in Procs : pc'[q] # "crypt" /\ (pc'[q] = "sent" => q = p)
      BY <2>0, <2>2 DEF TypeOK
    <2>5. pc'[p] = "sent" => request'[p].to \in Nodes
      BY <1>2, <2>0 DEF Post, TypeOK
    <2> QED
      BY <1>2, <2>3, <2>4, <2>5 DEF Post, OneExchange, KeyOfItsNode, FlagDown, SentTo
  <1>3. CASE AuthFails(p)
    <2>0. pc[p] = "sent" /\ mx = p /\ mx' = 0 /\ ~isAuthenticated'
      BY <1>0, <1>3 DEF AuthFails, TypeOK, FlagDown
    <2>1. /\ pc' \in [Procs -> {"idle", "encrypted", "sent", "crypt", "authed"}]
          /\ \A q \in Procs : q # p => pc'[q] = pc[q]
          /\ pc'[p] \in {"idle", "authed"}
          /\ timerLeft' \in [Timers -> Nat] /\ timer' = timer /\ running' = running
          /\ request' \in [Procs -> [for : Nodes \cup {0}, to : Nodes \cup {0}]]
      <3>1. Return(p, FALSE) /\ TypeOK
        BY <1>3, Zenon DEF AuthFails
      <3>2. /\ pc' \in [Procs -> {"idle", "encrypted", "sent", "crypt", "authed"}]
            /\ pc' = [pc EXCEPT ![p] = pc'[p]]
            /\ pc'[p] \in {"idle", "authed"}
            /\ timerLeft' \in [Timers -> Nat]
            /\ timer' = timer /\ running' = running
            /\ request' \in [Procs -> [for : Nodes \cup {0}, to : Nodes \cup {0}]]
        BY <3>1, ReturnType, Zenon
      <3>3. \A q \in Procs : q # p => pc'[q] = pc[q]
        BY <3>2 DEF TypeOK
      <3> QED
        BY <3>2, <3>3
    <2>2. \A q \in Procs : pc'[q] \notin {"encrypted", "sent", "crypt"}
      BY <2>0, <2>1 DEF TypeOK
    <2>3. TypeOK'
      BY <1>0, <1>3, <2>0, <2>1, <2>2 DEF AuthFails, TypeOK
    <2> QED
      BY <2>0, <2>2, <2>3 DEF OneExchange, KeyOfItsNode, FlagDown, SentTo
  <1>4. CASE SetCrypt(p)
    <2>0. pc[p] = "sent" /\ mx = p /\ ~isAuthenticated /\ ~isAuthenticated'
      BY <1>0, <1>4 DEF SetCrypt, TypeOK, FlagDown
    <2>1. crypt' \in Exchanges /\ exchanged' = request[p].to
      BY <1>4 DEF SetCrypt, NewExchange
    <2>2. /\ pc' \in [Procs -> {"idle", "encrypted", "sent", "crypt", "authed"}]
          /\ \A q \in Procs : q # p => pc'[q] = pc[q]
          /\ pc'[p] = "crypt"
      BY <1>4 DEF SetCrypt, TypeOK
    <2>3. request[p].for = request[p].to /\ request' = request
      BY <1>4 DEF SetCrypt
    <2>4. request[p].to \in Nodes
      BY <2>0, <2>3 DEF SentTo
    <2>5. exchanged' \in Nodes /\ exchanged' = request[p].for
      BY <2>1, <2>3, <2>4 DEF TypeOK
    <2>6. TypeOK'
      BY <1>4, <2>0, <2>1, <2>2, <2>5, SMTT(30) DEF SetCrypt, TypeOK, timerVars
    <2>7. \A q \in Procs : (pc'[q] = "crypt" => q = p) /\ pc'[q] # "sent"
      BY <2>0, <2>2 DEF TypeOK
    <2>8. KeyOfItsNode'
      BY <2>0, <2>1, <2>3, <2>5, <2>7, CountsAssumption DEF KeyOfItsNode
    <2> QED
      BY <2>0, <2>6, <2>7, <2>8 DEF OneExchange, FlagDown, SentTo
  <1>5. CASE SetKey(p)
    <2>0. pc[p] = "crypt" /\ mx = p /\ mx' = 0
      BY <1>5 DEF SetKey, TypeOK
    <2>1. /\ pc' \in [Procs -> {"idle", "encrypted", "sent", "crypt", "authed"}]
          /\ \A q \in Procs : q # p => pc'[q] = pc[q]
          /\ pc'[p] \in {"idle", "authed"}
          /\ timerLeft' \in [Timers -> Nat] /\ timer' = timer /\ running' = running
          /\ request' \in [Procs -> [for : Nodes \cup {0}, to : Nodes \cup {0}]]
      <3>1. Return(p, TRUE) /\ TypeOK
        BY <1>5, Zenon DEF SetKey
      <3>2. /\ pc' \in [Procs -> {"idle", "encrypted", "sent", "crypt", "authed"}]
            /\ pc' = [pc EXCEPT ![p] = pc'[p]]
            /\ pc'[p] \in {"idle", "authed"}
            /\ timerLeft' \in [Timers -> Nat]
            /\ timer' = timer /\ running' = running
            /\ request' \in [Procs -> [for : Nodes \cup {0}, to : Nodes \cup {0}]]
        BY <3>1, ReturnType, Zenon
      <3>3. \A q \in Procs : q # p => pc'[q] = pc[q]
        BY <3>2 DEF TypeOK
      <3> QED
        BY <3>2, <3>3
    <2>2. \A q \in Procs : pc'[q] \notin {"encrypted", "sent", "crypt"}
      BY <2>0, <2>1 DEF TypeOK
    <2>3. TypeOK'
      BY <1>0, <1>5, <2>0, <2>1, <2>2, TimesAssumption, SMTT(20) DEF SetKey, TypeOK
    <2>4. OneExchange'
      BY <1>5, <2>0, SMTT(20) DEF SetKey, OneExchange, KeyOfItsNode
    <2> QED
      BY <2>0, <2>2, <2>3, <2>4 DEF KeyOfItsNode, FlagDown, SentTo
  <1>6. CASE p \in Timers /\ Reschedule(p)
    <2>1. timerLeft' \in [Timers -> Nat]
      <3>1. keyLeft - RenewBefore \in Int
        BY TimesAssumption DEF TypeOK
      <3>2. Max0(keyLeft - RenewBefore) \in Nat
        BY <3>1, Max0Type
      <3> QED
        BY <1>6, <3>2 DEF Reschedule, TypeOK
    <2>2. TypeOK'
      BY <1>6, <2>1, ZenonT(30) DEF Reschedule, TypeOK
    <2> QED
      BY <1>6, <2>2, AuthFrame, Zenon DEF Reschedule, TypeOK
  <1> QED
    BY <1>1, <1>2, <1>3, <1>4, <1>5, <1>6

LEMMA AuthStep == AuthInv /\ [Next]_vars => AuthInv'
  BY OtherStep, AuthenticateStep DEF Next, Procs

\* TypeOK holds in every reachable state: the goroutines inside Authenticate
\* exclude each other.
THEOREM TypeCorrect == Spec => []TypeOK
  <1>1. AuthInv => TypeOK
    BY DEF AuthInv
  <1> QED
    BY <1>1, AuthInit, AuthStep, PTL DEF Spec

\* The flag vouches for a cipher, a timeout and a header of one exchange, and a
\* key in the making belongs to the node it was requested for.
THEOREM ExchangesNotMixed == Spec => []ExchangesApart
  <1>1. AuthInv => ExchangesApart
    BY DEF AuthInv, ExchangesApart
  <1> QED
    BY <1>1, AuthInit, AuthStep, PTL DEF Spec

\* A step that changes none of the times, makes no timer idle and raises no
\* flag leaves the renewal due.
LEMMA RenewalFrame ==
  ASSUME RenewalDue, UNCHANGED <<keyLeft, timerLeft, renewer>>,
         running' \subseteq running,
         \A t \in running : pc'[t] = "idle" => pc[t] = "idle",
         isAuthenticated' => isAuthenticated
  PROVE  RenewalDue'
  BY DEF RenewalDue, IsAuthenticated

\* RenewalDue is inductive once one knows that the flag is down inside
\* Authenticate: a call that fails, and so sets the timer anew, leaves no key.
LEMMA RenewalStep == AuthInv /\ RenewalDue /\ [Next]_vars => RenewalDue'
  <1> SUFFICES ASSUME AuthInv, RenewalDue, [Next]_vars PROVE RenewalDue'
    OBVIOUS
  <1>0. /\ keyLeft \in Nat /\ \A t \in Timers : timerLeft[t] \in Nat
        /\ running \subseteq Timers /\ timerLeft \in [Timers -> Nat]
        /\ pc \in [Procs -> {"idle", "encrypted", "sent", "crypt", "authed"}]
        /\ Timers \subseteq Procs
    BY DEF AuthInv, TypeOK, Procs
  <1>1. CASE Initialize \/ InitializeField \/ UNCHANGED vars
    BY <1>1, RenewalFrame DEF Initialize, InitializeField, vars, authVars, timerVars
  <1>2. CASE Start
    <2>1. timer + 1 \in Timers
      BY <1>2, CountsAssumption DEF Start, AuthInv, TypeOK, Timers
    <2>2. \A t \in running' : timerLeft'[t] = IF t = timer + 1 THEN 0 ELSE timerLeft[t]
      BY <1>0, <1>2, <2>1 DEF Start
    <2>3. UNCHANGED <<keyLeft, renewer, pc, isAuthenticated>>
      BY <1>2 DEF Start, authVars
    <2>4. \A t \in running' : t \in running \/ t = timer + 1
      BY <1>2 DEF Start
    <2> QED
      BY <1>0, <2>2, <2>3, <2>4 DEF RenewalDue, IsAuthenticated
  <1>3. CASE Stop
    BY <1>3, RenewalFrame DEF Stop, authVars
  <1>4. CASE Reset
    BY <1>4 DEF Reset, RenewalDue, IsAuthenticated
  <1>5. CASE Tick
    <2>1. UNCHANGED <<renewer, pc, isAuthenticated, running>>
      BY <1>5, Zenon DEF Tick, authVars
    <2>2. keyLeft' = Max0(keyLeft - 1)
      BY <1>5, Zenon DEF Tick
    <2>3. \A t \in Timers : pc[t] = "idle" => timerLeft'[t] = Max0(timerLeft[t] - 1)
      BY <1>5, Zenon DEF Tick
    <2> QED
      BY <1>0, <2>1, <2>2, <2>3 DEF RenewalDue, IsAuthenticated, Max0
  <1>6. CASE \E i \in Waiters : WaitForAuth(i) \/ Poll(i) \/ Interrupt(i) \/ Again(i)
    <2>1. unchangedByWaiters
      BY <1>6 DEF WaitForAuth, Poll, Interrupt, Again
    <2> QED
      BY <2>1, RenewalFrame DEF unchangedByWaiters, authVars, timerVars
  <1>7. CASE \E t \in Timers : Reschedule(t)
    <2>1. PICK t \in Timers : Reschedule(t)
      BY <1>7
    <2>2. /\ UNCHANGED <<keyLeft, renewer, isAuthenticated, running>>
          /\ timerLeft' = [timerLeft EXCEPT ![t] = Max0(keyLeft - RenewBefore)]
          /\ pc' = [pc EXCEPT ![t] = "idle"]
      BY <2>1 DEF Reschedule
    <2>3. keyLeft > 0 => Max0(keyLeft - RenewBefore) < keyLeft
      BY <1>0, TimesAssumption DEF Max0
    <2>4. timerLeft'[t] = Max0(keyLeft - RenewBefore)
      BY <1>0, <2>2
    <2>5. \A u \in Timers \ {t} : timerLeft'[u] = timerLeft[u] /\ pc'[u] = pc[u]
      BY <1>0, <2>2
    <2> QED
      BY <1>0, <2>2, <2>3, <2>4, <2>5 DEF RenewalDue, IsAuthenticated
  <1>8. CASE \E p \in Procs : Begin(p) \/ Post(p) \/ AuthFails(p) \/ SetCrypt(p)
    <2>1. PICK p \in Procs : Begin(p) \/ Post(p) \/ AuthFails(p) \/ SetCrypt(p)
      BY <1>8
    <2>2. ~isAuthenticated'
      <3>1. CASE Begin(p) BY <3>1 DEF Begin
      <3>2. CASE Post(p) \/ AuthFails(p) \/ SetCrypt(p)
        <4>1. pc[p] \in {"encrypted", "sent"} /\ isAuthenticated' = isAuthenticated
          BY <3>2, Zenon DEF Post, AuthFails, SetCrypt
        <4> QED
          BY <4>1, ZeroIsNoProc DEF AuthInv, TypeOK, FlagDown
      <3> QED BY <2>1, <3>1, <3>2
    <2> QED
      BY <2>2 DEF RenewalDue, IsAuthenticated
  <1>9. CASE \E p \in Procs : SetKey(p)
    <2>1. PICK p \in Procs : SetKey(p)
      BY <1>9
    <2>2. renewer' = p /\ (p \in Timers => pc'[p] = "authed") /\ running' = running
      BY <1>0, <2>1 DEF SetKey, Return
    <2> QED
      BY <1>0, <2>2 DEF RenewalDue
  <1> QED
    BY <1>1, <1>2, <1>3, <1>4, <1>5, <1>6, <1>7, <1>8, <1>9 DEF Next

\* The timer that made the last exchange is due before its key expires.
THEOREM RenewalInTime == Spec => []RenewalDue
  <1>1. Init => RenewalDue
    BY DEF Init, RenewalDue
  <1> QED
    BY <1>1, AuthInit, AuthStep, RenewalStep, PTL DEF Spec
=============================================================================
