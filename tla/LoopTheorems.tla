---------------------------- MODULE LoopTheorems ----------------------------
(***************************************************************************)
(* What a loop over a list computes.  The models write such a loop as a    *)
(* function f of the number of rounds made, f[n] defined from f[n - 1];    *)
(* the facts here are that there is such a function, and induction over    *)
(* the rounds, for the proofs about the models.                            *)
(***************************************************************************)
EXTENDS LineScanner, WellFoundedInduction, TLAPS

\* A set of numbers that is not empty has a least one.
LEMMA LeastNat ==
    ASSUME NEW S \in SUBSET Nat, S # {}
    PROVE  \E n \in S : \A m \in S : n <= m
  <1> DEFINE R == OpToRel(<, Nat)
  <1>1. IsWellFoundedOn(R, Nat)
    BY NatLessThanWellFounded, Zenon
  <1>2. PICK x \in S : \A y \in S : ~(<<y, x>> \in R)
    <2> HIDE DEF R
    <2> QED BY <1>1, WFMin, ZenonT(30)
  <1>3. \A y \in S : y < x => <<y, x>> \in R
    BY <1>2 DEF OpToRel
  <1>4. \A y \in S : ~(y < x)
    <2> HIDE DEF R
    <2> QED BY <1>2, <1>3, ZenonT(30)
  <1> QED BY <1>4

\* What holds before the first round, and after a round if before it, holds
\* after all of them.
LEMMA AllRounds ==
    ASSUME NEW N \in Nat, NEW W, 0 \in W, \A n \in 1..N : n - 1 \in W => n \in W
    PROVE  \A n \in 0..N : n \in W
  <1> DEFINE Not == {n \in 0..N : n \notin W}
  <1>1. Not \in SUBSET Nat
    OBVIOUS
  <1>2. ASSUME Not # {} PROVE FALSE
    <2>1. PICK n \in Not : \A m \in Not : n <= m
      <3> HIDE DEF Not
      <3> QED BY <1>1, <1>2, LeastNat, ZenonT(30)
    <2>2. n \in 0..N /\ n \notin W
      BY <2>1, Zenon
    <2>3. n # 0
      BY <2>2, Zenon
    <2>4. n \in 1..N /\ n - 1 \in 0..N /\ ~(n <= n - 1)
      BY <2>2, <2>3
    <2>5. n - 1 \in W
      BY <2>1, <2>4, Zenon
    <2> QED BY <2>2, <2>4, <2>5, Zenon
  <1> QED BY <1>2, Zenon

\* f is what a loop of N rounds has after each of them; round n makes next[n][x]
\* of x.
Loop(f, start, next, N, S) ==
    /\ f \in [0..N -> S]
    /\ f[0] = start
    /\ \A n \in 1..N : f[n] = next[n][f[n - 1]]

\* Every loop has such a function.
LEMMA LoopExists ==
    ASSUME NEW N \in Nat, NEW S, NEW start \in S, NEW next \in [1..N -> [S -> S]]
    PROVE  \E f : Loop(f, start, next, N, S)
  <1> DEFINE W == {n \in 0..N : \E f : Loop(f, start, next, n, S)}
  <1>1. 0 \in W
    <2> DEFINE f == [n \in 0..0 |-> start]
    <2>1. f \in [0..0 -> S] /\ f[0] = start /\ \A n \in 1..0 : FALSE
      OBVIOUS
    <2>2. Loop(f, start, next, 0, S)
      <3> HIDE DEF f
      <3> QED BY <2>1, Zenon DEF Loop
    <2>3. 0 \in 0..N
      OBVIOUS
    <2> QED BY <2>2, <2>3, Zenon
  <1>2. ASSUME NEW n \in 1..N, n - 1 \in W PROVE n \in W
    <2>1. PICK f : Loop(f, start, next, n - 1, S)
      BY <1>2, Zenon
    <2>2. f \in [0..n - 1 -> S] /\ f[0] = start
      BY <2>1, Zenon DEF Loop
    <2> DEFINE g == [m \in 0..n |-> IF m = n THEN next[n][f[n - 1]] ELSE f[m]]
    <2>3. /\ n \in 0..n /\ 0 \in 0..n /\ 0 # n /\ n \in 0..N
          /\ \A m \in 0..n - 1 : m \in 0..n /\ m # n
          /\ n - 1 \in 0..n - 1
      OBVIOUS
    <2>4. next[n][f[n - 1]] \in S
      <3>1. f[n - 1] \in S
        BY <2>2, <2>3, Zenon
      <3> QED BY <3>1
    <2>5. g \in [0..n -> S]
      <3>1. \A m \in 0..n : m = n \/ m \in 0..n - 1
        OBVIOUS
      <3>2. \A m \in 0..n - 1 : f[m] \in S
        BY <2>2, Zenon
      <3> QED BY <2>4, <3>1, <3>2, Zenon
    <2>6. g[n] = next[n][f[n - 1]] /\ \A m \in 0..n - 1 : g[m] = f[m]
      BY <2>3, Zenon
    <2> HIDE DEF g
    <2>7. g[0] = start
      <3>1. 0 \in 0..n - 1
        OBVIOUS
      <3> QED BY <2>2, <2>6, <3>1, Zenon
    <2>8. ASSUME NEW m \in 1..n PROVE g[m] = next[m][g[m - 1]]
      <3>1. m - 1 \in 0..n - 1
        OBVIOUS
      <3>2. CASE m = n
        BY <2>6, <3>1, <3>2, Zenon
      <3>3. CASE m # n
        <4>1. m \in 1..n - 1 /\ m \in 0..n - 1
          BY <3>3
        <4>2. f[m] = next[m][f[m - 1]]
          BY <2>1, <4>1, Zenon DEF Loop
        <4> QED BY <2>6, <3>1, <4>1, <4>2, Zenon
      <3> QED BY <3>2, <3>3
    <2>9. Loop(g, start, next, n, S)
      BY <2>5, <2>7, <2>8, Zenon DEF Loop
    <2> QED BY <2>3, <2>9, Zenon
  <1> HIDE DEF W
  <1>3. \A n \in 0..N : n \in W
    BY <1>1, <1>2, AllRounds, Zenon
  <1>4. N \in W
    BY <1>3
  <1> QED BY <1>4, Zenon DEF W

-----------------------------------------------------------------------------
(* Joining sequences.                                                       *)

\* f holds what is joined of the first n sequences.
Joins(f, seqs, at, N) ==
    f = [n \in 0 .. N |->
            IF n = 0 THEN <<>>
            ELSE IF n \in at THEN f[n - 1] \o seqs[n] ELSE f[n - 1]]

\* There is such a function.
LEMMA JoinsExist ==
    ASSUME NEW seqs, NEW at, NEW N \in Nat
    PROVE  \E f : Joins(f, seqs, at, N)
<1> DEFINE W == {n \in 0 .. N : \E f : Joins(f, seqs, at, n)}
           More(f, n) == IF n \in at THEN f[n - 1] \o seqs[n] ELSE f[n - 1]
<1>1. 0 \in W
  <2> DEFINE f == [n \in 0 .. 0 |-> <<>>]
  <2>1. f = [n \in 0 .. 0 |-> IF n = 0 THEN <<>> ELSE More(f, n)]
    <3>1. \A n \in 0 .. 0 : n = 0
        OBVIOUS
    <3> QED BY <3>1, Zenon
  <2>2. Joins(f, seqs, at, 0)
    BY <2>1, Zenon DEF Joins
  <2>3. 0 \in 0 .. N
    OBVIOUS
  <2> QED BY <2>2, <2>3, Zenon
<1>2. ASSUME NEW n \in 1 .. N, n - 1 \in W PROVE n \in W
  <2>1. PICK f : Joins(f, seqs, at, n - 1)
    BY <1>2, Zenon
  <2> DEFINE g == [i \in 0 .. n |-> IF i = n THEN More(f, n) ELSE f[i]]
  <2>2. \A i \in 0 .. n - 1 : f[i] = IF i = 0 THEN <<>> ELSE More(f, i)
    BY <2>1, Zenon DEF Joins
  <2>3. /\ \A i \in 0 .. n : i = n \/ i \in 0 .. n - 1
        /\ \A i \in 0 .. n : i # 0 => i - 1 \in 0 .. n /\ i - 1 # n
        /\ n # 0 /\ n \in 0 .. n /\ n \in 0 .. N
    OBVIOUS
  <2>4. \A i \in 0 .. n : i # 0 => g[i - 1] = f[i - 1]
    BY <2>3, Zenon
  <2>6. \A i \in 0 .. n : g[i] = IF i = n THEN More(f, n) ELSE f[i]
    BY Zenon
  <2>7. g = [i \in 0 .. n |-> g[i]]
    BY Zenon
  <2> HIDE DEF g
  <2>5. \A i \in 0 .. n : i # 0 => More(g, i) = More(f, i)
    BY <2>4, Zenon
  <2>8. \A i \in 0 .. n : g[i] = IF i = 0 THEN <<>> ELSE More(g, i)
    <3> HIDE DEF More
    <3> QED BY <2>2, <2>3, <2>5, <2>6, Zenon
  <2>9. Joins(g, seqs, at, n)
    BY <2>7, <2>8, Zenon DEF Joins
  <2> QED BY <2>3, <2>9, Zenon
<1> HIDE DEF W
<1>3. \A n \in 0 .. N : n \in W
    BY <1>1, <1>2, AllRounds, Zenon
<1>4. N \in W
    BY <1>3
<1> QED BY <1>4, Zenon DEF W

\* The rounds of the loop.
JoinRounds(f, seqs, at, N) ==
    /\ f[0] = <<>>
    /\ \A n \in 1 .. N : f[n] = IF n \in at THEN f[n - 1] \o seqs[n] ELSE f[n - 1]

\* What is joined is what there is after the last round.
LEMMA JoinedRounds ==
    ASSUME NEW seqs, NEW at, NEW N \in Nat, Len(seqs) = N
    PROVE  \E f : JoinRounds(f, seqs, at, N) /\ Joined(seqs, at) = f[N]
<1> DEFINE f == CHOOSE f : Joins(f, seqs, at, N)
<1>1. Joins(f, seqs, at, N)
    BY JoinsExist, Zenon
<1>2. Joined(seqs, at) = f[N]
    BY Zenon DEF Joined, Joins
<1> HIDE DEF f
<1>3. \A n \in 0 .. N : f[n] = IF n = 0 THEN <<>>
                               ELSE IF n \in at THEN f[n - 1] \o seqs[n] ELSE f[n - 1]
    BY <1>1, Zenon DEF Joins
<1>4. 0 \in 0 .. N /\ \A n \in 1 .. N : n \in 0 .. N /\ n # 0
    OBVIOUS
<1>5. JoinRounds(f, seqs, at, N)
    BY <1>3, <1>4, Zenon DEF JoinRounds
<1> QED BY <1>2, <1>5, Zenon

\* The numbers are none after n.
UpTo(at, n) == \A m \in at : m \in 1 .. n

\* Nothing is joined after the last of at.
LEMMA JoinedUpTo ==
    ASSUME NEW seqs, NEW at, NEW N \in Nat, NEW f, JoinRounds(f, seqs, at, N),
           NEW m \in 0 .. N, UpTo(at, m)
    PROVE  f[N] = f[m]
<1> DEFINE W == {n \in 0 .. N : n >= m => f[n] = f[m]}
<1>1. 0 \in W
    BY DEF W
<1>2. ASSUME NEW n \in 1 .. N, n - 1 \in W PROVE n \in W
  <2>1. n \in 0 .. N /\ n - 1 \in 0 .. N
    OBVIOUS
  <2>2. CASE n > m
    <3>1. n - 1 >= m /\ ~(n <= m)
        BY <2>2
    <3>2. f[n] = f[n - 1]
      <4>1. n \notin at
        BY <2>2 DEF UpTo
      <4> QED BY <4>1, Zenon DEF JoinRounds
    <3> QED BY <1>2, <2>1, <3>1, <3>2, Zenon
  <2>3. CASE ~(n > m)
    <3>1. n >= m => n = m
        BY <2>3
    <3> QED BY <2>1, <3>1, Zenon
  <2> QED BY <2>2, <2>3
<1> HIDE DEF W
<1>3. \A n \in 0 .. N : n \in W
    BY <1>1, <1>2, AllRounds, Zenon
<1>4. N \in W /\ N >= m
    BY <1>3
<1> QED BY <1>4, Zenon DEF W

\* Joining none.
LEMMA JoinedNone ==
    ASSUME NEW seqs, NEW N \in Nat, Len(seqs) = N
    PROVE  Joined(seqs, {}) = <<>>
<1>1. PICK f : JoinRounds(f, seqs, {}, N) /\ Joined(seqs, {}) = f[N]
    BY JoinedRounds, Zenon
<1>2. 0 \in 0 .. N
    OBVIOUS
<1>3. f[N] = f[0]
  <2>1. UpTo({}, 0)
    BY DEF UpTo
  <2> QED BY <1>1, <1>2, <2>1, JoinedUpTo, SMT
<1> QED BY <1>1, <1>3, Zenon DEF JoinRounds

\* Joining one more, that comes after the others.
LEMMA JoinedNext ==
    ASSUME NEW seqs, NEW N \in Nat, Len(seqs) = N, NEW at, NEW n \in 1 .. N, UpTo(at, n - 1)
    PROVE  Joined(seqs, at \cup {n}) = Joined(seqs, at) \o seqs[n]
<1> DEFINE bt == at \cup {n}
<1>1. PICK f : JoinRounds(f, seqs, at, N) /\ Joined(seqs, at) = f[N]
    BY JoinedRounds, Zenon
<1>2. PICK g : JoinRounds(g, seqs, bt, N) /\ Joined(seqs, bt) = g[N]
  <2> HIDE DEF bt
  <2> QED BY JoinedRounds, Zenon
<1>3. f[N] = f[n - 1]
  <2>1. n - 1 \in 0 .. N
    OBVIOUS
  <2> QED BY <1>1, <2>1, JoinedUpTo, SMT
<1>4. g[N] = g[n]
  <2>1. n \in 0 .. N /\ n <= n
    OBVIOUS
  <2>2. UpTo(bt, n)
    BY DEF UpTo
  <2> HIDE DEF bt
  <2> QED BY <1>2, <2>1, <2>2, JoinedUpTo, SMT
<1>5. f[n - 1] = g[n - 1]
  <2> DEFINE W == {m \in 0 .. N : m <= n - 1 => f[m] = g[m]}
  <2>1. 0 \in W
    <3>1. 0 \in 0 .. N
        OBVIOUS
    <3> QED BY <1>1, <1>2, <3>1, Zenon DEF JoinRounds
  <2>2. ASSUME NEW m \in 1 .. N, m - 1 \in W PROVE m \in W
    <3>1. m \in 0 .. N /\ (m <= n - 1 => m - 1 <= n - 1 /\ m # n)
        OBVIOUS
    <3>2. ASSUME m <= n - 1 PROVE f[m] = g[m]
      <4>1. f[m - 1] = g[m - 1]
        BY <2>2, <3>1, <3>2, Zenon
      <4>2. m \in at <=> m \in bt
        BY <3>1, <3>2, Zenon
      <4> HIDE DEF bt
      <4> QED BY <1>1, <1>2, <3>1, <4>1, <4>2, Zenon DEF JoinRounds
    <3> QED BY <3>1, <3>2, Zenon
  <2> HIDE DEF W
  <2>3. \A m \in 0 .. N : m \in W
    BY <2>1, <2>2, AllRounds, Zenon
  <2>4. n - 1 \in 0 .. N /\ n - 1 <= n - 1
    OBVIOUS
  <2>5. n - 1 \in W
    BY <2>3, <2>4, Zenon
  <2> QED BY <2>4, <2>5, Zenon DEF W
<1>6. g[n] = g[n - 1] \o seqs[n]
  <2>1. n \in bt
    BY Zenon
  <2> HIDE DEF bt
  <2> QED BY <1>2, <2>1, Zenon DEF JoinRounds
<1> QED BY <1>1, <1>2, <1>3, <1>4, <1>5, <1>6, Zenon

\* What is joined are sequences of the same elements.
LEMMA JoinedType ==
    ASSUME NEW seqs, NEW N \in Nat, Len(seqs) = N, NEW at, NEW S,
           \A n \in 1 .. N : n \in at => seqs[n] \in Seq(S)
    PROVE  Joined(seqs, at) \in Seq(S)
<1>1. PICK f : JoinRounds(f, seqs, at, N) /\ Joined(seqs, at) = f[N]
    BY JoinedRounds, Zenon
<1> DEFINE W == {m \in 0 .. N : f[m] \in Seq(S)}
<1>2. 0 \in W
  <2>1. 0 \in 0 .. N /\ <<>> \in Seq(S)
    OBVIOUS
  <2> QED BY <1>1, <2>1, Zenon DEF JoinRounds
<1>3. ASSUME NEW n \in 1 .. N, n - 1 \in W PROVE n \in W
  <2>1. n \in 0 .. N
    OBVIOUS
  <2>2. n \in at => f[n - 1] \o seqs[n] \in Seq(S)
    BY <1>3
  <2> QED BY <1>1, <1>3, <2>1, <2>2, Zenon DEF JoinRounds
<1> HIDE DEF W
<1>4. \A m \in 0 .. N : m \in W
    BY <1>2, <1>3, AllRounds, Zenon
<1>5. N \in W
    BY <1>4
<1> QED BY <1>1, <1>5, Zenon DEF W
=============================================================================
