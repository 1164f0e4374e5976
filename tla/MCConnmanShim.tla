--------------------------- MODULE MCConnmanShim ----------------------------
(* An instance of ConnmanShim: a network that NetworkManager drops and lists *)
(* again under another object, and one that may send no SSID.               *)
EXTENDS ConnmanShim, TLC

CONSTANTS a1, a2, a3, home, cafe
MCNet == (a1 :> home) @@ (a2 :> home) @@ (a3 :> cafe)
=============================================================================
