----------------------------- MODULE MCResmgr -----------------------------
(* Small instances of Resmgr for TLC.                                      *)
EXTENDS Resmgr

CONSTANTS l1, o1, o2
=============================================================================
