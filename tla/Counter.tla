------------------------------ MODULE Counter ------------------------------
(***************************************************************************)
(* A monitor counter (monitors/counter.go).  A counter is a record of the  *)
(* fields of the Go struct; every method runs under counterLock, so each   *)
(* one is a function from the counter before the call to the counter after *)
(* it.  Names, attributes and time stamps carry no control and are left    *)
(* out.  Values are mathematical integers: the code's int64 counts bytes,  *)
(* which stay far below 2^63.                                              *)
(***************************************************************************)
EXTENDS Integers

CounterType ==
    [cumalative : BOOLEAN, ignoreZeroSnapshots : BOOLEAN,
     incBy : Int, value : Int, cumalativeValue : Int]

NewCounter(cumalative, ignoreZeroSnapshots) ==
    [cumalative |-> cumalative, ignoreZeroSnapshots |-> ignoreZeroSnapshots,
     incBy |-> 1, value |-> 0, cumalativeValue |-> 0]

(***************************************************************************)
(* The methods.  Get reads the value and what was already collected.       *)
(***************************************************************************)
Get(c) == c.value + c.cumalativeValue

SetInc(c, incValue) == [c EXCEPT !.incBy = incValue]

\* Faulty variant of Set: forgets that earlier deltas were collected.
SetAbsolute(c, value) == [c EXCEPT !.value = value]

Set(c, value) ==
    [c EXCEPT !.value = IF c.cumalative THEN value - c.cumalativeValue ELSE value]

Inc(c) == [c EXCEPT !.value = @ + c.incBy]

Add(c, value) == [c EXCEPT !.value = @ + value]

(***************************************************************************)
(* collect() returns a snapshot unless the counter suppresses zeroes and   *)
(* is zero; only a cumulative counter then moves its value over.           *)
(***************************************************************************)
HasSnapshot(c) == ~c.ignoreZeroSnapshots \/ c.value # 0

\* Faulty variant of AfterCollect: the value is not reset.
AfterCollectNoReset(c) ==
    IF HasSnapshot(c) /\ c.cumalative
    THEN [c EXCEPT !.cumalativeValue = @ + c.value]
    ELSE c

AfterCollect(c) ==
    IF HasSnapshot(c) /\ c.cumalative
    THEN [c EXCEPT !.cumalativeValue = @ + c.value, !.value = 0]
    ELSE c
=============================================================================
