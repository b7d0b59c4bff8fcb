---------------------------- MODULE MCApiClient ----------------------------
(* The instances of ApiClient that TLC checks.                              *)
EXTENDS ApiClient

\* The fields refer to two exchanges at most, and one is new.
ThreeExchanges == 1 .. 3
=============================================================================
