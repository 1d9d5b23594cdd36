----------------------------- MODULE MCSapWrite -----------------------------
(* Instance for TLC: two calls side by side, each with a client of its own.  *)
EXTENDS SapWrite
==============================================================================
