--------------------------- MODULE MCSysVSemaphore ---------------------------
(***************************************************************************)
(* Three processes that create, open, use, close and remove one semaphore  *)
(* with one unit, each of which may be killed at any point, over the life  *)
(* of two kernel sets.                                                     *)
(***************************************************************************)
EXTENDS SysVSemaphore
=============================================================================
