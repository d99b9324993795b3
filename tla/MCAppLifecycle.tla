---------------------------- MODULE MCAppLifecycle ----------------------------
(* One change of the settings, two attempts.                                *)
EXTENDS AppLifecycle
=============================================================================
