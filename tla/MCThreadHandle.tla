--------------------------- MODULE MCThreadHandle ---------------------------
(* A small instance of the thread objects, on one platform or the other. *)
EXTENDS WinThread

CONSTANTS h1, h2, h3

VARIABLE platform

allVars == <<vars, platform>>

PosixSteps == platform = "posix" /\ Next /\ UNCHANGED platform
WinSteps   == platform = "win" /\ WinNext /\ UNCHANGED platform

Returns == (platform = "posix" /\ CallReturns) \/ (platform = "win" /\ WinCallReturns)

\* The fairness of FairSpec on both.
BothSpec ==
  /\ (platform = "posix" /\ Init) \/ (platform = "win" /\ WinInit)
  /\ [][PosixSteps \/ WinSteps]_allVars
  /\ WF_allVars(Returns /\ UNCHANGED platform)
  /\ \A t \in Thread : WF_allVars(ThreadStep(t) /\ UNCHANGED platform)
=============================================================================
