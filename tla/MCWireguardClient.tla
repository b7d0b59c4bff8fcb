------------------------- MODULE MCWireguardClient -------------------------
(* WireguardClient for TLC; the .cfg files give MaxConnects. *)
EXTENDS WireguardClient
=============================================================================
