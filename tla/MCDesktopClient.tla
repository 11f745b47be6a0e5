-------------------------- MODULE MCDesktopClient --------------------------
(* frame and lost only record what has happened: no guard, and no other      *)
(* variable's next value, depends on them.  States that differ in nothing    *)
(* else need not be explored twice.                                          *)
EXTENDS DesktopClient

MCView == <<flags, pcs, reading, note, net, shown>>
=============================================================================
