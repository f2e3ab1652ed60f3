---------------------------- MODULE MCAppLifecycle ----------------------------
(* AppLifecycle for TLC: the cfg files give the constants their values.    *)
EXTENDS AppLifecycle
=============================================================================
