---------------------------- MODULE MCBistream ----------------------------
(* Small instances of BistreamClient for TLC.                              *)
EXTENDS BistreamClient
============================================================================
