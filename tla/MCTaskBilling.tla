---------------------------- MODULE MCTaskBilling ----------------------------
(* TLC instance of TaskBilling.                                            *)
EXTENDS TaskBilling
=============================================================================
