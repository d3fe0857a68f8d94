------------------------- MODULE EventAndSemaphore -------------------------
(* An event and a semaphore that the same threads use: the semaphore under     *)
(* names of its own. What each does is in PosixEvent, WinEvent and Semaphore. *)
EXTENDS WinEvent

CONSTANTS InitCount, MaxCount

VARIABLES platform, count, waiting, left, raises, given, refused, taken

Semaphore == INSTANCE Semaphore WITH notifies <- raises

semaphoreVars == <<count, waiting, left, raises, given, refused, taken>>

\* No notification of a semaphore of POSIX is lost or counted twice
\* (posix_semaphore.hpp:63-71).
TokensConserved == Semaphore!TokensConserved

\* One of a semaphore of Windows is lost, as a whole, exactly when ReleaseSemaphore fails,
\* and the count is within the maximum (win_semaphore.hpp:91-102).
WinTokensConserved == Semaphore!WinTokensConserved
=============================================================================
