------------------------------ MODULE WinMutex ------------------------------
(***************************************************************************)
(* win_mutex.hpp: a named mutex of the system, which is there as long as       *)
(* somebody has a handle to it, knows the thread that owns it, and is          *)
(* abandoned when that thread dies.  The state of the processes (of one thread *)
(* each) is that of NamedMutex; value is 1 while nobody owns the object.      *)
(***************************************************************************)
EXTENDS NamedMutex

CONSTANT MaxDepth    \* bound: how often a process owns the object

ASSUME DepthAssumption == MaxDepth \in Nat \ {0}

VARIABLES
  depth,      \* process -> how often it owns the object its name stands for
  abandoned,  \* whether the last owner died
  leaked      \* the processes with a handle that no wrapper has any more

winVars == <<depth, abandoned, leaked>>

WinInit ==
  /\ Init
  /\ depth = [p \in Process |-> 0]
  /\ abandoned = FALSE
  /\ leaked = {}

\* The owner lets go of o, or had nothing.
Disown(p, o) ==
  /\ depth' = [depth EXCEPT ![p] = 0]
  /\ value' = IF depth[p] > 0 THEN [value EXCEPT ![o] = 1] ELSE value
  /\ abandoned' = (abandoned \/ depth[p] > 0)

\* With the last handle the object goes, and who owned it owns nothing.
LastOpen(p) == leaked \subseteq {p} /\ \A q \in Process \ {p} : handle[q] = NoObject

Vanish ==
  /\ name' = NoObject
  /\ depth' = [q \in Process |-> 0]
  /\ abandoned' = FALSE
  /\ UNCHANGED value

\* CreateMutex on a new name: the object is created, owned if lockOnCreation.
WinCreate(p, lockOnCreation) ==
  /\ pc[p] = "none" /\ name = NoObject
  /\ NewObject(p, IF lockOnCreation THEN 0 ELSE 1)
  /\ depth' = [depth EXCEPT ![p] = IF lockOnCreation THEN 1 ELSE 0]
  /\ option' \in {[option EXCEPT ![p] = o] : o \in {"create_if_nonexistent", "open_or_create"}}
  /\ Goto(p, IF lockOnCreation THEN "holding" ELSE "valid")
  /\ UNCHANGED <<unlinked, abandoned, leaked>>

\* OpenMutex, or CreateMutex on a name that exists (ERROR_ALREADY_EXISTS): both
\* open it, owned or not; create_if_nonexistent is to close it again.
WinOpen(p, creationOption) ==
  /\ pc[p] = "none" /\ name # NoObject
  /\ handle' = [handle EXCEPT ![p] = name]
  /\ option' = [option EXCEPT ![p] = creationOption]
  /\ Goto(p, IF creationOption = "create_if_nonexistent" THEN "discarding" ELSE "valid")
  /\ UNCHANGED <<name, created, value, unlinked, winVars>>

\* CloseHandle, in the destructor or the constructor: it releases nothing.
WinClose(p) ==
  /\ pc[p] \in {"valid", "holding", "discarding"}
  /\ handle' = [handle EXCEPT ![p] = NoObject]
  /\ Goto(p, "none")
  /\ IF LastOpen(p) /\ p \notin leaked THEN Vanish ELSE UNCHANGED <<name, value, depth, abandoned>>
  /\ UNCHANGED <<created, option, unlinked, leaked>>

\* A mutex assigned over one that is valid: its handle replaces the other, which
\* nobody closes.  (Both are of this name; what is assigned may also be invalid.)
AssignOver(p, valid) ==
  /\ pc[p] \in {"valid", "holding"}
  /\ leaked' = leaked \cup {p}
  /\ IF valid
       THEN UNCHANGED <<handle, pc>>
       ELSE handle' = [handle EXCEPT ![p] = NoObject] /\ Goto(p, "none")
  /\ UNCHANGED <<name, created, value, option, unlinked, depth, abandoned>>

\* The system closes the handles of a process that dies, and abandons what it owned.
WinDie(p) ==
  /\ pc[p] # "none" \/ p \in leaked
  /\ handle' = [handle EXCEPT ![p] = NoObject]
  /\ leaked' = leaked \ {p}
  /\ Goto(p, "none")
  /\ IF LastOpen(p) THEN Vanish ELSE Disown(p, name) /\ UNCHANGED name
  /\ UNCHANGED <<created, option, unlinked>>

\* Mutant: whatever is not an error is taken for the lock.
WinTakeOrTimeOut(p) ==
  /\ pc[p] \in {"valid", "locking"}
  /\ IF value[handle[p]] = 1
       THEN value' = [value EXCEPT ![handle[p]] = 0] /\ depth' = [depth EXCEPT ![p] = 1]
       ELSE UNCHANGED <<value, depth>>
  /\ Goto(p, "holding")
  /\ UNCHANGED <<name, created, handle, option, unlinked, abandoned, leaked>>

\* WaitForSingleObjectEx gives the object to whom nobody keeps it from.  Of an
\* abandoned one it returns WAIT_ABANDONED, which lock() returns as a failure.
WinTake(p) ==
  /\ pc[p] \in {"valid", "locking"}
  /\ value[handle[p]] = 1 \/ depth[p] > 0
  /\ depth[p] < MaxDepth
  /\ value' = [value EXCEPT ![handle[p]] = 0]
  /\ depth' = [depth EXCEPT ![p] = @ + 1]
  /\ abandoned' = FALSE
  /\ Goto(p, IF abandoned THEN "valid" ELSE "holding")
  /\ UNCHANGED <<name, created, handle, option, unlinked, leaked>>

\* ReleaseMutex fails unless the caller owns the object.
WinUnlock(p) ==
  /\ pc[p] = "holding"
  /\ depth[p] > 0
  /\ depth' = [depth EXCEPT ![p] = @ - 1]
  /\ value' = [value EXCEPT ![handle[p]] = IF depth[p] = 1 THEN 1 ELSE 0]
  /\ Goto(p, "valid")
  /\ UNCHANGED <<name, created, handle, option, unlinked, abandoned, leaked>>

WinNext ==
  \E p \in Process :
    \/ \E lockOnCreation \in BOOLEAN : WinCreate(p, lockOnCreation)
    \/ \E creationOption \in CreationOption : WinOpen(p, creationOption)
    \/ WinClose(p) \/ WinDie(p)
    \/ \E valid \in BOOLEAN : AssignOver(p, valid)
    \/ (CallLock(p) \/ GiveUp(p)) /\ UNCHANGED winVars
    \/ WinTake(p) \/ WinUnlock(p)

WinSpec == WinInit /\ [][WinNext]_<<vars, winVars>>

-----------------------------------------------------------------------------
\* Who was told that it has the lock owns it, as nobody else does: whoever opens,
\* closes, assigns over, dies or gives up in the meantime.  With OneHolder, its
\* unlock() does not fail.  (Not the other way round: who takes an abandoned mutex
\* owns it and is told that it does not.)
ToldMeansOwned ==
  \A p, q \in Process : Holds(p, name) /\ depth[q] > 0 => p = q
=============================================================================
