------------------------------- MODULE MCTimer -------------------------------
(* Model values for Timer: the event loop, and the goroutine of a poller.   *)
EXTENDS Timer

CONSTANTS lua, poller

LuaOnly == {lua}
LuaAndPoller == {lua, poller}
=============================================================================
