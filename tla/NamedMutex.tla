----------------------------- MODULE NamedMutex -----------------------------
(***************************************************************************)
(* A global mutex: posix_mutex.hpp, a binary semaphore, over the named        *)
(* semaphores of posix_semaphore_wrapper.hpp.  Processes construct handles on  *)
(* one name, lock and unlock through them, destroy them and die.  Each step   *)
(* is one call to the system, which keeps an object as long as somebody has   *)
(* it open, and under its name until somebody unlinks it.                    *)
(***************************************************************************)
EXTENDS Integers

CONSTANTS
  Process,    \* each has at most one handle at a time
  MaxObjects  \* bound: the semaphores ever created under the name

ASSUME MutexAssumption == MaxObjects \in Nat

Object   == 1..MaxObjects
NoObject == 0

VARIABLES
  name,      \* the object the name stands for, or NoObject
  created,   \* how many objects were created
  value,     \* object -> its count
  handle,    \* process -> handle_, or NoObject (invalid)
  option,    \* process -> the creationOption of its constructor
  pc,        \* process -> where it is
  unlinked   \* history: whether the name was ever unlinked

vars == <<name, created, value, handle, option, pc, unlinked>>

\* sync_object_creation_options
CreationOption == {"create_if_nonexistent", "open_existing", "open_or_create"}

PC == {"none", "creating", "opening", "discarding", "unlinking", "valid",
       "locking", "holding", "reading", "posting"}

Goto(p, label) == pc' = [pc EXCEPT ![p] = label]

Init ==
  /\ name = NoObject
  /\ created = 0
  /\ value = [o \in Object |-> 0]
  /\ handle = [p \in Process |-> NoObject]
  /\ option = [p \in Process |-> "open_or_create"]
  /\ pc = [p \in Process |-> "none"]
  /\ unlinked = FALSE

-----------------------------------------------------------------------------
(* The constructor, initGlobalSemaphore. *)

Construct(p, creationOption) ==
  /\ pc[p] = "none"
  /\ option' = [option EXCEPT ![p] = creationOption]
  /\ Goto(p, "creating")
  /\ UNCHANGED <<name, created, value, handle, unlinked>>

\* A new object under the name, open for p.
NewObject(p, count) ==
  /\ created < MaxObjects
  /\ created' = created + 1
  /\ name' = created + 1
  /\ value' = [value EXCEPT ![created + 1] = count]
  /\ handle' = [handle EXCEPT ![p] = created + 1]

\* sem_open with O_CREAT | O_EXCL creates; p may ask for the lock (lockOnCreation).
\* With open_existing the object that did not exist is to be released again.
CreateExclusive(p, lockOnCreation) ==
  /\ pc[p] = "creating"
  /\ name = NoObject
  /\ NewObject(p, IF lockOnCreation THEN 0 ELSE 1)
  /\ Goto(p, IF option[p] = "open_existing" THEN "discarding"
             ELSE IF lockOnCreation THEN "holding" ELSE "valid")
  /\ UNCHANGED <<option, unlinked>>

\* ... or finds that the name exists, which create_if_nonexistent leaves at that.
CreateFails(p) ==
  /\ pc[p] = "creating"
  /\ name # NoObject
  /\ Goto(p, IF option[p] = "create_if_nonexistent" THEN "none" ELSE "opening")
  /\ UNCHANGED <<name, created, value, handle, option, unlinked>>

\* Mutant: the initial count is given again to an object that exists.
OpenAndCount(p) ==
  /\ pc[p] = "opening"
  /\ name # NoObject
  /\ handle' = [handle EXCEPT ![p] = name]
  /\ value' = [value EXCEPT ![name] = 1]
  /\ Goto(p, "valid")
  /\ UNCHANGED <<name, created, option, unlinked>>

\* The second sem_open, O_CREAT alone and a count of 0: it opens the object ...
OpenExisting(p) ==
  /\ pc[p] = "opening"
  /\ name # NoObject
  /\ handle' = [handle EXCEPT ![p] = name]
  /\ Goto(p, "valid")
  /\ UNCHANGED <<name, created, value, option, unlinked>>

\* ... unless the name was unlinked since the first one.
OpenCreates(p) ==
  /\ pc[p] = "opening"
  /\ name = NoObject
  /\ NewObject(p, 0)
  /\ Goto(p, "valid")
  /\ UNCHANGED <<option, unlinked>>

-----------------------------------------------------------------------------
(* release(), in the destructor or after a failed construction. *)

Close(p) ==
  /\ pc[p] \in {"valid", "holding", "discarding"}
  /\ handle' = [handle EXCEPT ![p] = NoObject]
  /\ Goto(p, "unlinking")
  /\ UNCHANGED <<name, created, value, option, unlinked>>

\* Whatever object the name stands for by now.
Unlink(p) ==
  /\ pc[p] = "unlinking"
  /\ name' = NoObject
  /\ unlinked' = TRUE
  /\ Goto(p, "none")
  /\ UNCHANGED <<created, value, handle, option>>

\* The process dies: the system closes what it had open and unlinks nothing.
Die(p) ==
  /\ pc[p] # "none"
  /\ handle' = [handle EXCEPT ![p] = NoObject]
  /\ Goto(p, "none")
  /\ UNCHANGED <<name, created, value, option, unlinked>>

-----------------------------------------------------------------------------
(* lock, tryLock, tryLockFor and unlock. *)

CallLock(p) ==
  /\ pc[p] = "valid"
  /\ Goto(p, "locking")
  /\ UNCHANGED <<name, created, value, handle, option, unlinked>>

\* sem_wait, sem_timedwait, or sem_trywait straight from tryLock.
Take(p) ==
  /\ pc[p] \in {"valid", "locking"}
  /\ value[handle[p]] > 0
  /\ value' = [value EXCEPT ![handle[p]] = @ - 1]
  /\ Goto(p, "holding")
  /\ UNCHANGED <<name, created, handle, option, unlinked>>

\* A signal interrupts lock or tryLockFor, or the deadline of tryLockFor passes:
\* they return false.
GiveUp(p) ==
  /\ pc[p] = "locking"
  /\ Goto(p, "valid")
  /\ UNCHANGED <<name, created, value, handle, option, unlinked>>

\* unlock() by whoever holds the lock: first getValue ...
CallUnlock(p) ==
  /\ pc[p] = "holding"
  /\ Goto(p, "reading")
  /\ UNCHANGED <<name, created, value, handle, option, unlinked>>

\* "You cannot unlock a mutex more than once.": nothing is posted.
ReadValue(p) ==
  /\ pc[p] = "reading"
  /\ Goto(p, IF value[handle[p]] >= 1 THEN "valid" ELSE "posting")
  /\ UNCHANGED <<name, created, value, handle, option, unlinked>>

\* Mutant: unlock posts once for the lock and once for the creation.
PostTwice(p) ==
  /\ pc[p] = "posting"
  /\ value' = [value EXCEPT ![handle[p]] = @ + 2]
  /\ Goto(p, "valid")
  /\ UNCHANGED <<name, created, handle, option, unlinked>>

\* ... then sem_post.
Post(p) ==
  /\ pc[p] = "posting"
  /\ value' = [value EXCEPT ![handle[p]] = @ + 1]
  /\ Goto(p, "valid")
  /\ UNCHANGED <<name, created, handle, option, unlinked>>

Next ==
  \E p \in Process :
    \/ \E creationOption \in CreationOption : Construct(p, creationOption)
    \/ \E lockOnCreation \in BOOLEAN : CreateExclusive(p, lockOnCreation)
    \/ CreateFails(p) \/ OpenExisting(p) \/ OpenCreates(p)
    \/ Close(p) \/ Unlink(p) \/ Die(p)
    \/ CallLock(p) \/ Take(p) \/ GiveUp(p)
    \/ CallUnlock(p) \/ ReadValue(p) \/ Post(p)

Spec == Init /\ [][Next]_vars

-----------------------------------------------------------------------------
TypeOK ==
  /\ name \in Object \cup {NoObject}
  /\ created \in 0..MaxObjects
  /\ value \in [Object -> Nat]
  /\ handle \in [Process -> Object \cup {NoObject}]
  /\ option \in [Process -> CreationOption]
  /\ pc \in [Process -> PC]
  /\ unlinked \in BOOLEAN
  /\ \A p \in Process : handle[p] # NoObject <=>
       pc[p] \notin {"none", "creating", "opening", "unlinking"}

Holds(p, o) == handle[p] = o /\ pc[p] \in {"holding", "reading", "posting"}

\* One process holds an object, and while it does the count is zero: also when
\* the holder is the one that created it locked, when others open it at that
\* moment, when a holder dies or destroys its handle, and between the two steps
\* of unlock.
OneHolder ==
  \A o \in Object :
    /\ value[o] <= 1
    /\ \A p \in Process : Holds(p, o) => value[o] = 0
    /\ \A p, q \in Process : Holds(p, o) /\ Holds(q, o) => p = q

\* Until somebody releases a handle (or tries open_existing in vain), the name
\* is one object to all, however their constructors interleave.
NameIsOneObject ==
  ~unlinked => \A p \in Process : handle[p] # NoObject => handle[p] = name

\* So the mutex excludes, across processes, until then.
MutualExclusion ==
  ~unlinked =>
    \A p, q \in Process :
      pc[p] \in {"holding", "reading", "posting"} /\ pc[q] \in {"holding", "reading", "posting"}
        => p = q

\* Who holds the lock is never told that it unlocks a second time.
UnlockNeverRefused == [][\A p \in Process : ReadValue(p) => pc'[p] = "posting"]_vars
=============================================================================
