----------------------------- MODULE MCEventLoop -----------------------------
(* Model values for EventLoop.                                              *)
EXTENDS EventLoop, TLC

CONSTANTS t1, t2, t3, stop, h1, h2, c1, c2

MCTasks == {t1, t2, t3, stop}
TwoTasks == {t1, t2, stop}
MCHandlers == {h1, h2}
MCClients == {c1, c2}
OneHandler == {h1}
OneClient == {c1}
MCSymmetry ==
  Permutations({t1, t2, t3}) \cup Permutations(MCHandlers) \cup Permutations(MCClients)
=============================================================================
