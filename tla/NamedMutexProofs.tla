-------------------------- MODULE NamedMutexProofs --------------------------
(***************************************************************************)
(* For any number of processes and objects: a mutex made of a named           *)
(* semaphore has one holder, and is one mutex to all until it is unlinked; a   *)
(* mutex of Windows is one mutex to all, and who is told to have it owns it.  *)
(***************************************************************************)
EXTENDS WinMutex, TLAPS

\* An object that is not created yet is not open anywhere.
CreatedOK ==
  /\ name \in 0..created
  /\ \A p \in Process : handle[p] \in 0..created

Inv == TypeOK /\ CreatedOK /\ OneHolder /\ NameIsOneObject

\* The invariant holds at the start.
LEMMA InvInit == Init => Inv
<1> SUFFICES ASSUME Init PROVE Inv
  OBVIOUS
<1> USE MutexAssumption DEF Init, NoObject
<1>1. TypeOK
  <2>1. created \in 0..MaxObjects /\ "none" \in PC /\ "open_or_create" \in CreationOption
    BY DEF CreationOption, PC
  <2>2. value \in [Object -> Nat]
    OBVIOUS
  <2> QED
    BY <2>1, <2>2 DEF TypeOK
<1>2. CreatedOK
  BY DEF CreatedOK
<1>3. OneHolder
  BY DEF OneHolder, Holds
<1>4. NameIsOneObject
  BY DEF NameIsOneObject
<1> QED
  BY <1>1, <1>2, <1>3, <1>4 DEF Inv

\* A new object is open for its creator only, and nothing else changes.
LEMMA NewObjectStep ==
  ASSUME Inv, NEW p \in Process, NEW count \in {0, 1}, NEW label,
         name = NoObject, handle[p] = NoObject, NewObject(p, count), Goto(p, label),
         label \in {"valid", "holding", "discarding"},
         label = "holding" => count = 0,
         UNCHANGED <<option, unlinked>>
  PROVE  Inv'
<1> USE MutexAssumption DEF Inv, NoObject
<1>0. created + 1 \in Object /\ created \in Nat /\ created' = created + 1 /\ name' = created + 1
  BY DEF TypeOK, NewObject, Object
<1>1. handle' = [handle EXCEPT ![p] = created + 1] /\ pc' = [pc EXCEPT ![p] = label]
  BY DEF NewObject, Goto
<1>2. value' = [value EXCEPT ![created + 1] = count]
  BY DEF NewObject
<1>3. TypeOK'
  <2>1. label \in PC
    BY DEF PC
  <2>2. \A q \in Process : handle'[q] # 0 <=>
          pc'[q] \notin {"none", "creating", "opening", "unlinking"}
    BY <1>0, <1>1 DEF TypeOK
  <2> QED
    BY <1>0, <1>1, <1>2, <2>1, <2>2 DEF TypeOK, Object
<1>4. CreatedOK'
  BY <1>0, <1>1 DEF CreatedOK, TypeOK
<1>5. \A q \in Process, o \in Object :
        Holds(q, o)' => \/ q = p /\ o = created + 1 /\ label = "holding"
                        \/ q # p /\ Holds(q, o)
  <2> SUFFICES ASSUME NEW q \in Process, NEW o \in Object, Holds(q, o)'
               PROVE  \/ q = p /\ o = created + 1 /\ label = "holding"
                      \/ q # p /\ Holds(q, o)
    OBVIOUS
  <2>1. CASE q = p
    BY <1>0, <1>1, <2>1 DEF TypeOK, Holds
  <2>2. CASE q # p
    BY <1>1, <2>2 DEF TypeOK, Holds
  <2> QED
    BY <2>1, <2>2
<1>6. \A q \in Process : ~Holds(q, created + 1)
  BY <1>0 DEF Holds, CreatedOK
<1>7. OneHolder'
  <2> SUFFICES ASSUME NEW o \in Object
               PROVE  /\ value'[o] <= 1
                      /\ \A q \in Process : Holds(q, o)' => value'[o] = 0
                      /\ \A q, r \in Process : Holds(q, o)' /\ Holds(r, o)' => q = r
    BY DEF OneHolder
  <2>1. CASE o = created + 1
    <3>1. value'[o] = count
      BY <1>2, <2>1 DEF TypeOK
    <3> QED
      BY <1>5, <1>6, <2>1, <3>1
  <2>2. CASE o # created + 1
    <3>1. value'[o] = value[o]
      BY <1>2, <2>2 DEF TypeOK
    <3> QED
      BY <1>5, <2>2, <3>1 DEF OneHolder
  <2> QED
    BY <2>1, <2>2
<1>8. NameIsOneObject'
  BY <1>0, <1>1 DEF NameIsOneObject, TypeOK
<1> QED
  BY <1>3, <1>4, <1>7, <1>8

\* A step of p that neither creates nor opens nor counts.
LEMMA QuietStep ==
  ASSUME Inv, NEW p \in Process, NEW label \in PC, Goto(p, label),
         \/ /\ handle' = handle
            /\ handle[p] = NoObject <=> label \in {"none", "creating", "opening", "unlinking"}
         \/ /\ handle' = [handle EXCEPT ![p] = NoObject]
            /\ label \in {"none", "creating", "opening", "unlinking"},
         label \in {"holding", "reading", "posting"} =>
           pc[p] \in {"holding", "reading", "posting"},
         name' \in {name, NoObject}, name' # name => unlinked',
         unlinked => unlinked', unlinked' \in BOOLEAN, option' \in [Process -> CreationOption],
         UNCHANGED <<created, value>>
  PROVE  Inv'
<1> USE MutexAssumption DEF Inv, NoObject
<1>1. pc' = [pc EXCEPT ![p] = label]
  BY DEF Goto
<1>2. handle' \in [Process -> Object \cup {NoObject}]
  BY DEF TypeOK
<1>3. TypeOK'
  <2>1. \A q \in Process : handle'[q] # NoObject <=>
          pc'[q] \notin {"none", "creating", "opening", "unlinking"}
    BY <1>1 DEF TypeOK
  <2> QED
    BY <1>1, <1>2, <2>1 DEF TypeOK
<1>4. CreatedOK'
  BY DEF CreatedOK, TypeOK
<1>5. \A q \in Process, o \in Object : Holds(q, o)' => Holds(q, o)
  BY <1>1 DEF TypeOK, Holds, Object
<1>6. OneHolder'
  BY <1>5 DEF OneHolder
<1>7. NameIsOneObject'
  BY DEF NameIsOneObject, TypeOK
<1> QED
  BY <1>3, <1>4, <1>6, <1>7

\* Every step keeps the invariant.
LEMMA InvStep == Inv /\ [Next]_vars => Inv'
<1> SUFFICES ASSUME Inv, [Next]_vars PROVE Inv'
  OBVIOUS
<1> USE MutexAssumption DEF NoObject
<1>1. ASSUME NEW p \in Process, NEW creationOption \in CreationOption,
             Construct(p, creationOption)
      PROVE  Inv'
  <2>1. handle[p] = NoObject
    BY <1>1 DEF Construct, Inv, TypeOK
  <2>2. Goto(p, "creating") /\ UNCHANGED <<name, created, value, handle, unlinked>>
    BY <1>1 DEF Construct
  <2>3. option' \in [Process -> CreationOption] /\ unlinked \in BOOLEAN
    BY <1>1 DEF Construct, Inv, TypeOK
  <2>4. "creating" \in PC
    BY DEF PC
  <2> QED
    BY <2>1, <2>2, <2>3, <2>4, QuietStep
<1>2. ASSUME NEW p \in Process, NEW lockOnCreation \in BOOLEAN,
             CreateExclusive(p, lockOnCreation)
      PROVE  Inv'
  <2>1. handle[p] = NoObject /\ name = NoObject /\ UNCHANGED <<option, unlinked>>
    BY <1>2 DEF CreateExclusive, Inv, TypeOK
  <2>2. CASE lockOnCreation
    <3>1. NewObject(p, 0)
      BY <1>2, <2>2 DEF CreateExclusive
    <3>2. Goto(p, "discarding") \/ Goto(p, "holding")
      BY <1>2, <2>2 DEF CreateExclusive
    <3> QED
      BY <2>1, <3>1, <3>2, NewObjectStep
  <2>3. CASE ~lockOnCreation
    <3>1. NewObject(p, 1)
      BY <1>2, <2>3 DEF CreateExclusive
    <3>2. Goto(p, "discarding") \/ Goto(p, "valid")
      BY <1>2, <2>3 DEF CreateExclusive
    <3> QED
      BY <2>1, <3>1, <3>2, NewObjectStep
  <2> QED
    BY <2>2, <2>3
<1>3. ASSUME NEW p \in Process, CreateFails(p) PROVE Inv'
  <2>1. handle[p] = NoObject /\ unlinked \in BOOLEAN /\ option \in [Process -> CreationOption]
    BY <1>3 DEF CreateFails, Inv, TypeOK
  <2>2. Goto(p, "none") \/ Goto(p, "opening")
    BY <1>3 DEF CreateFails
  <2>3. UNCHANGED <<name, created, value, handle, option, unlinked>>
    BY <1>3 DEF CreateFails
  <2>4. "none" \in PC /\ "opening" \in PC
    BY DEF PC
  <2> QED
    BY <2>1, <2>2, <2>3, <2>4, QuietStep
<1>4. ASSUME NEW p \in Process, OpenExisting(p) PROVE Inv'
  <2> USE <1>4 DEF OpenExisting, Goto, Inv
  <2>1. TypeOK'
    BY DEF TypeOK, PC
  <2>2. CreatedOK'
    BY DEF CreatedOK, TypeOK
  <2>3. \A q \in Process, o \in Object : Holds(q, o)' => Holds(q, o)
    BY DEF TypeOK, Holds
  <2>4. OneHolder'
    BY <2>3 DEF OneHolder
  <2>5. NameIsOneObject'
    BY DEF NameIsOneObject, TypeOK
  <2> QED
    BY <2>1, <2>2, <2>4, <2>5
<1>5. ASSUME NEW p \in Process, OpenCreates(p) PROVE Inv'
  <2>1. handle[p] = NoObject /\ name = NoObject /\ UNCHANGED <<option, unlinked>>
    BY <1>5 DEF OpenCreates, Inv, TypeOK
  <2>2. NewObject(p, 0) /\ Goto(p, "valid")
    BY <1>5 DEF OpenCreates
  <2> QED
    BY <2>1, <2>2, NewObjectStep
<1>6. ASSUME NEW p \in Process, Close(p) \/ Unlink(p) \/ Die(p) PROVE Inv'
  <2>1. unlinked \in BOOLEAN /\ option \in [Process -> CreationOption]
    BY DEF Inv, TypeOK
  <2>2. CASE Unlink(p)
    <3>1. handle[p] = NoObject
      BY <2>2 DEF Unlink, Inv, TypeOK
    <3>2. /\ Goto(p, "none") /\ name' = NoObject /\ unlinked' = TRUE
          /\ UNCHANGED <<created, value, handle, option>>
      BY <2>2 DEF Unlink
    <3>3. "none" \in PC
      BY DEF PC
    <3> QED
      BY <2>1, <3>1, <3>2, <3>3, QuietStep
  <2>3. CASE Close(p) \/ Die(p)
    <3>1. /\ handle' = [handle EXCEPT ![p] = NoObject]
          /\ UNCHANGED <<name, created, value, option, unlinked>>
      BY <2>3 DEF Close, Die
    <3>2. Goto(p, "none") \/ Goto(p, "unlinking")
      BY <2>3 DEF Close, Die
    <3>3. "none" \in PC /\ "unlinking" \in PC
      BY DEF PC
    <3> QED
      BY <2>1, <3>1, <3>2, <3>3, QuietStep
  <2> QED
    BY <1>6, <2>2, <2>3
<1>7. ASSUME NEW p \in Process, CallLock(p) \/ GiveUp(p) \/ CallUnlock(p) \/ ReadValue(p)
      PROVE  Inv'
  <2>1. handle[p] # NoObject /\ unlinked \in BOOLEAN /\ option \in [Process -> CreationOption]
    BY <1>7 DEF CallLock, GiveUp, CallUnlock, ReadValue, Inv, TypeOK
  <2>2. UNCHANGED <<name, created, value, handle, option, unlinked>>
    BY <1>7 DEF CallLock, GiveUp, CallUnlock, ReadValue
  <2>3. \/ Goto(p, "locking") \/ Goto(p, "valid")
        \/ pc[p] \in {"holding", "reading"} /\ (Goto(p, "reading") \/ Goto(p, "posting"))
    BY <1>7 DEF CallLock, GiveUp, CallUnlock, ReadValue
  <2>4. {"locking", "valid", "reading", "posting"} \subseteq PC
    BY DEF PC
  <2> QED
    BY <2>1, <2>2, <2>3, <2>4, QuietStep
<1>8. ASSUME NEW p \in Process, Take(p) PROVE Inv'
  <2> USE <1>8 DEF Take, Goto, Inv
  <2>0. handle[p] \in Object /\ value[handle[p]] = 1
    BY DEF TypeOK, OneHolder
  <2>1. TypeOK'
    BY <2>0 DEF TypeOK, PC
  <2>2. CreatedOK'
    BY DEF CreatedOK, TypeOK
  <2>3. \A q \in Process : ~Holds(q, handle[p])
    BY <2>0 DEF OneHolder
  <2>4. \A q \in Process, o \in Object :
          Holds(q, o)' => \/ q = p /\ o = handle[p]
                          \/ q # p /\ Holds(q, o)
    BY DEF TypeOK, Holds
  <2>5. value' = [value EXCEPT ![handle[p]] = 0]
    BY <2>0
  <2>6. OneHolder'
    BY <2>0, <2>3, <2>4, <2>5 DEF OneHolder, TypeOK
  <2>7. NameIsOneObject'
    BY DEF NameIsOneObject, TypeOK
  <2> QED
    BY <2>1, <2>2, <2>6, <2>7
<1>9. ASSUME NEW p \in Process, Post(p) PROVE Inv'
  <2> USE <1>9 DEF Post, Goto, Inv
  <2>0. handle[p] \in Object /\ Holds(p, handle[p]) /\ value[handle[p]] = 0
    BY DEF TypeOK, OneHolder, Holds
  <2>1. value' = [value EXCEPT ![handle[p]] = 1]
    BY <2>0
  <2>2. TypeOK'
    BY <2>0, <2>1 DEF TypeOK, PC
  <2>3. CreatedOK'
    BY DEF CreatedOK, TypeOK
  <2>4. \A q \in Process, o \in Object : Holds(q, o)' => q # p /\ Holds(q, o)
    BY <2>0 DEF TypeOK, Holds
  <2>5. \A q \in Process : ~Holds(q, handle[p])'
    BY <2>0, <2>4 DEF OneHolder
  <2>6. OneHolder'
    <3> SUFFICES ASSUME NEW o \in Object
                 PROVE  /\ value'[o] <= 1
                        /\ \A q \in Process : Holds(q, o)' => value'[o] = 0
                        /\ \A q, r \in Process : Holds(q, o)' /\ Holds(r, o)' => q = r
      BY DEF OneHolder
    <3>1. CASE o = handle[p]
      <4>1. \A q \in Process : ~Holds(q, o)'
        BY <2>4, <3>1, <2>0 DEF OneHolder
      <4> QED
        BY <2>1, <3>1, <4>1 DEF TypeOK
    <3>2. CASE o # handle[p]
      BY <2>1, <2>4, <3>2 DEF OneHolder, TypeOK
    <3> QED
      BY <3>1, <3>2
  <2>7. NameIsOneObject'
    BY DEF NameIsOneObject, TypeOK
  <2> QED
    BY <2>2, <2>3, <2>6, <2>7
<1>10. CASE UNCHANGED vars
  BY <1>10 DEF vars, Inv, TypeOK, CreatedOK, OneHolder, NameIsOneObject, Holds
<1> QED
  BY <1>1, <1>2, <1>3, <1>4, <1>5, <1>6, <1>7, <1>8, <1>9, <1>10 DEF Next

\* The count of an object and its holders never exceed one together.
THEOREM ObjectsHaveOneHolder == Spec => []OneHolder
<1>1. Inv => OneHolder
  BY DEF Inv
<1> QED
  BY <1>1, InvInit, InvStep, PTL DEF Spec

\* Until the name is unlinked, it means one object to every process.
THEOREM NamesAreObjects == Spec => []NameIsOneObject
<1>1. Inv => NameIsOneObject
  BY DEF Inv
<1> QED
  BY <1>1, InvInit, InvStep, PTL DEF Spec

\* The mutex excludes across processes until its name is unlinked.
THEOREM MutexExcludes == Spec => []MutualExclusion
<1>1. Inv => MutualExclusion
  <2> SUFFICES ASSUME Inv, ~unlinked, NEW p \in Process, NEW q \in Process,
                      pc[p] \in {"holding", "reading", "posting"},
                      pc[q] \in {"holding", "reading", "posting"}
               PROVE  p = q
    BY DEF MutualExclusion
  <2>1. handle[p] \in Object /\ handle[q] \in Object
    BY DEF Inv, TypeOK, NoObject
  <2>2. handle[p] = name /\ handle[q] = name
    BY DEF Inv, TypeOK, NameIsOneObject
  <2> QED
    BY <2>1, <2>2 DEF Inv, OneHolder, Holds
<1> QED
  BY <1>1, InvInit, InvStep, PTL DEF Spec

\* A process that holds the lock is never refused to unlock it.
THEOREM HoldersUnlock == Spec => UnlockNeverRefused
<1>1. Inv /\ [Next]_vars =>
        [\A p \in Process : ReadValue(p) => pc'[p] = "posting"]_vars
  <2> SUFFICES ASSUME Inv, NEW p \in Process, ReadValue(p)
               PROVE  pc'[p] = "posting"
    OBVIOUS
  <2>1. handle[p] \in Object /\ Holds(p, handle[p])
    BY DEF Inv, TypeOK, ReadValue, Holds, NoObject
  <2>2. value[handle[p]] = 0
    BY <2>1 DEF Inv, OneHolder
  <2> QED
    BY <2>1, <2>2 DEF Inv, TypeOK, ReadValue, Goto
<1> QED
  BY <1>1, InvInit, InvStep, PTL DEF Spec, UnlockNeverRefused

-----------------------------------------------------------------------------
(* Windows. *)

WinTypeOK ==
  /\ created \in 0..MaxObjects /\ name \in 0..created
  /\ value \in [Object -> {0, 1}]
  /\ handle \in [Process -> {NoObject, name}]
  /\ pc \in [Process -> {"none", "discarding", "valid", "locking", "holding"}]
  /\ depth \in [Process -> Nat]
  /\ leaked \subseteq Process

\* Whatever is open is the object of the name.
OpenOK ==
  /\ \A p \in Process : pc[p] # "none" => name # NoObject /\ handle[p] = name
  /\ \A p \in Process : pc[p] = "none" => handle[p] = NoObject
  /\ name = NoObject => leaked = {}

\* An object has one owner, which took it from everybody else.
OwnerOK ==
  /\ \A p \in Process : depth[p] > 0 => name # NoObject /\ value[name] = 0
  /\ \A p, q \in Process : depth[p] > 0 /\ depth[q] > 0 => p = q
  /\ \A p \in Process : pc[p] = "holding" => depth[p] > 0

WinInv == WinTypeOK /\ OpenOK /\ OwnerOK

\* Nobody has anything at the start.
LEMMA WinInvInit == WinInit => WinInv
<1> SUFFICES ASSUME WinInit PROVE WinInv
  OBVIOUS
<1> USE MutexAssumption DEF WinInit, Init, NoObject
<1>1. WinTypeOK
  <2>1. value \in [Object -> {0, 1}] /\ depth \in [Process -> Nat]
    OBVIOUS
  <2>2. handle \in [Process -> {NoObject, name}]
    OBVIOUS
  <2>3. pc \in [Process -> {"none", "discarding", "valid", "locking", "holding"}]
    OBVIOUS
  <2>4. created \in 0..MaxObjects /\ name \in 0..created
    OBVIOUS
  <2> QED
    BY <2>1, <2>2, <2>3, <2>4 DEF WinTypeOK
<1>2. OpenOK
  BY DEF OpenOK
<1>3. OwnerOK
  BY DEF OwnerOK
<1> QED
  BY <1>1, <1>2, <1>3 DEF WinInv

\* When the last handle is closed, nothing is left of the object.
LEMMA VanishStep ==
  ASSUME WinInv, NEW p \in Process, LastOpen(p), Vanish, Goto(p, "none"), leaked' = {},
         handle' = [handle EXCEPT ![p] = NoObject], UNCHANGED created
  PROVE  WinInv'
<1> USE DEF WinInv, NoObject
<1>1. \A q \in Process : handle'[q] = NoObject /\ pc'[q] = "none"
  BY DEF LastOpen, Goto, WinTypeOK, OpenOK
<1>2. WinTypeOK'
  <2>1. handle' \in [Process -> {0}]
    BY <1>1 DEF WinTypeOK
  <2>2. pc' \in [Process -> {"none", "discarding", "valid", "locking", "holding"}]
    BY DEF Goto, WinTypeOK
  <2>3. depth' \in [Process -> Nat] /\ name' \in 0..created'
    BY DEF Vanish, WinTypeOK
  <2> QED
    BY <2>1, <2>2, <2>3 DEF Vanish, WinTypeOK
<1>3. OpenOK'
  BY <1>1 DEF OpenOK, Vanish
<1>4. OwnerOK'
  BY <1>1 DEF OwnerOK, Vanish
<1> QED
  BY <1>2, <1>3, <1>4

\* A step of p that changes no owner.
LEMMA HandleStep ==
  ASSUME WinInv, NEW p \in Process, name # NoObject,
         NEW label \in {"none", "discarding", "valid", "locking"}, Goto(p, label),
         handle' = [handle EXCEPT ![p] = IF label = "none" THEN NoObject ELSE name],
         leaked' \in {leaked, leaked \cup {p}},
         UNCHANGED <<name, created, value, depth>>
  PROVE  WinInv'
<1> USE DEF WinInv, NoObject, Goto
<1>1. WinTypeOK'
  BY DEF WinTypeOK
<1>2. OpenOK'
  BY DEF WinTypeOK, OpenOK
<1>3. OwnerOK'
  BY DEF WinTypeOK, OwnerOK
<1> QED
  BY <1>1, <1>2, <1>3

\* Every step keeps the invariant.
LEMMA WinInvStep == WinInv /\ [WinNext]_<<vars, winVars>> => WinInv'
<1> SUFFICES ASSUME WinInv, [WinNext]_<<vars, winVars>> PROVE WinInv'
  OBVIOUS
<1> USE MutexAssumption DEF NoObject
<1>1. ASSUME NEW p \in Process, NEW lockOnCreation \in BOOLEAN, WinCreate(p, lockOnCreation)
      PROVE  WinInv'
  <2> USE <1>1 DEF WinCreate, NewObject, Goto, WinInv
  <2>1. created + 1 \in Object /\ \A q \in Process : pc[q] = "none" /\ handle[q] = 0
    BY DEF WinTypeOK, OpenOK, Object
  <2>2. \A q \in Process : depth[q] = 0
    BY DEF WinTypeOK, OwnerOK
  <2>3. WinTypeOK'
    BY <2>1 DEF WinTypeOK
  <2>4. OpenOK'
    BY <2>1 DEF WinTypeOK, OpenOK
  <2>5. OwnerOK'
    BY <2>1, <2>2 DEF WinTypeOK, OwnerOK
  <2> QED
    BY <2>3, <2>4, <2>5
<1>2. ASSUME NEW p \in Process, NEW creationOption \in CreationOption,
             WinOpen(p, creationOption)
      PROVE  WinInv'
  <2>1. Goto(p, "discarding") \/ Goto(p, "valid")
    BY <1>2 DEF WinOpen
  <2>2. /\ name # NoObject /\ handle' = [handle EXCEPT ![p] = name]
        /\ leaked' = leaked /\ UNCHANGED <<name, created, value, depth>>
    BY <1>2 DEF WinOpen, winVars
  <2> QED
    BY <2>1, <2>2, HandleStep
<1>3. ASSUME NEW p \in Process, WinClose(p) PROVE WinInv'
  <2>1. /\ name # NoObject /\ Goto(p, "none") /\ UNCHANGED <<created, leaked>>
        /\ handle' = [handle EXCEPT ![p] = NoObject]
    BY <1>3 DEF WinClose, WinInv, OpenOK
  <2>2. CASE LastOpen(p) /\ p \notin leaked
    <3>1. Vanish /\ leaked = {}
      BY <1>3, <2>2 DEF WinClose, LastOpen
    <3> QED
      BY <2>1, <2>2, <3>1, VanishStep
  <2>3. CASE ~(LastOpen(p) /\ p \notin leaked)
    <3>1. UNCHANGED <<name, value, depth>>
      BY <1>3, <2>3 DEF WinClose
    <3> QED
      BY <2>1, <3>1, HandleStep
  <2> QED
    BY <2>2, <2>3
<1>4. ASSUME NEW p \in Process, NEW valid \in BOOLEAN, AssignOver(p, valid)
      PROVE  WinInv'
  <2>1. /\ name # NoObject /\ leaked' = leaked \cup {p}
        /\ UNCHANGED <<name, created, value, depth>>
    BY <1>4 DEF AssignOver, WinInv, OpenOK
  <2>2. CASE valid
    <3>1. UNCHANGED <<handle, pc>>
      BY <1>4, <2>2 DEF AssignOver
    <3> QED
      BY <2>1, <3>1 DEF WinInv, WinTypeOK, OpenOK, OwnerOK
  <2>3. CASE ~valid
    <3>1. handle' = [handle EXCEPT ![p] = NoObject] /\ Goto(p, "none")
      BY <1>4, <2>3 DEF AssignOver
    <3> QED
      BY <2>1, <3>1, HandleStep
  <2> QED
    BY <2>2, <2>3
<1>5. ASSUME NEW p \in Process, WinDie(p) PROVE WinInv'
  <2>1. /\ name # NoObject /\ Goto(p, "none") /\ leaked' = leaked \ {p}
        /\ handle' = [handle EXCEPT ![p] = NoObject] /\ UNCHANGED created
    BY <1>5 DEF WinDie, WinInv, OpenOK
  <2>2. CASE LastOpen(p)
    BY <1>5, <2>1, <2>2, VanishStep DEF WinDie, LastOpen
  <2>3. CASE ~LastOpen(p)
    <3>1. /\ depth' = [depth EXCEPT ![p] = 0] /\ UNCHANGED name
          /\ value' = IF depth[p] > 0 THEN [value EXCEPT ![name] = 1] ELSE value
      BY <1>5, <2>3 DEF WinDie, Disown
    <3>2. name \in Object
      BY <2>1 DEF WinInv, WinTypeOK, Object
    <3>3. WinTypeOK'
      BY <2>1, <3>1 DEF WinInv, WinTypeOK, Goto
    <3>4. OpenOK'
      BY <2>1, <3>1 DEF WinInv, WinTypeOK, OpenOK, Goto
    <3>5. OwnerOK'
      BY <2>1, <3>1, <3>2 DEF WinInv, WinTypeOK, OwnerOK, Goto
    <3> QED
      BY <3>3, <3>4, <3>5 DEF WinInv
  <2> QED
    BY <2>2, <2>3
<1>6. ASSUME NEW p \in Process, CallLock(p) \/ GiveUp(p), UNCHANGED winVars PROVE WinInv'
  <2>1. Goto(p, "locking") \/ Goto(p, "valid")
    BY <1>6 DEF CallLock, GiveUp
  <2>2. /\ name # NoObject /\ handle[p] = name
        /\ UNCHANGED <<name, created, value, handle, depth, leaked>>
    BY <1>6 DEF CallLock, GiveUp, winVars, WinInv, OpenOK
  <2>3. handle' = [handle EXCEPT ![p] = name]
    BY <2>2 DEF WinInv, WinTypeOK
  <2> QED
    BY <2>1, <2>2, <2>3, HandleStep
<1>7. ASSUME NEW p \in Process, WinTake(p) \/ WinUnlock(p) PROVE WinInv'
  <2> USE DEF WinInv
  <2>1. handle[p] = name /\ name \in Object
    BY <1>7 DEF WinTake, WinUnlock, WinTypeOK, OpenOK, Object
  <2>2. /\ UNCHANGED <<name, created, handle, leaked>>
        /\ pc' \in {[pc EXCEPT ![p] = "valid"], [pc EXCEPT ![p] = "holding"]}
        /\ depth' \in {[depth EXCEPT ![p] = @ + 1], [depth EXCEPT ![p] = @ - 1]}
        /\ depth'[p] \in Nat
        /\ value' \in {[value EXCEPT ![name] = 0], [value EXCEPT ![name] = 1]}
        /\ pc[p] \in {"valid", "locking", "holding"}
    <3>0. depth[p] \in Nat
      BY DEF WinTypeOK
    <3>1. CASE WinTake(p)
      <4>1. pc' \in {[pc EXCEPT ![p] = "valid"], [pc EXCEPT ![p] = "holding"]}
        BY <3>1 DEF WinTake, Goto
      <4>2. depth' = [depth EXCEPT ![p] = @ + 1] /\ depth'[p] = depth[p] + 1
        BY <3>1 DEF WinTake, WinTypeOK
      <4>3. value' = [value EXCEPT ![name] = 0]
        BY <3>1, <2>1 DEF WinTake
      <4>4. UNCHANGED <<name, created, handle, leaked>> /\ pc[p] \in {"valid", "locking"}
        BY <3>1 DEF WinTake
      <4> QED
        BY <3>0, <4>1, <4>2, <4>3, <4>4
    <3>2. CASE WinUnlock(p)
      <4>1. pc' = [pc EXCEPT ![p] = "valid"]
        BY <3>2 DEF WinUnlock, Goto
      <4>2. depth' = [depth EXCEPT ![p] = @ - 1] /\ depth'[p] = depth[p] - 1 /\ depth[p] > 0
        BY <3>2 DEF WinUnlock, WinTypeOK
      <4>3. value' \in {[value EXCEPT ![name] = 0], [value EXCEPT ![name] = 1]}
        BY <3>2, <2>1 DEF WinUnlock
      <4> QED
        BY <3>0, <3>2, <4>1, <4>2, <4>3 DEF WinUnlock
    <3> QED
      BY <1>7, <3>1, <3>2
  <2>3. WinTypeOK'
    BY <2>1, <2>2 DEF WinTypeOK
  <2>4. OpenOK'
    BY <2>1, <2>2 DEF WinTypeOK, OpenOK
  <2>5. \A q \in Process \ {p} : depth[q] = 0
    <3>1. depth[p] > 0 \/ value[name] = 1
      BY <1>7, <2>1 DEF WinTake, WinUnlock, WinTypeOK
    <3> QED
      BY <3>1 DEF WinTypeOK, OwnerOK
  <2>6. OwnerOK'
    <3>1. depth'[p] > 0 => value'[name] = 0
      BY <1>7, <2>1 DEF WinTake, WinUnlock, WinTypeOK
    <3>2. pc'[p] = "holding" => depth'[p] > 0
      BY <1>7 DEF WinTake, WinUnlock, Goto, WinTypeOK
    <3>3. \A q \in Process \ {p} : depth'[q] = 0 /\ pc'[q] # "holding"
      <4> SUFFICES ASSUME NEW q \in Process \ {p} PROVE depth'[q] = 0 /\ pc'[q] # "holding"
        OBVIOUS
      <4>1. depth'[q] = depth[q] /\ pc'[q] = pc[q]
        BY <2>2 DEF WinTypeOK
      <4> QED
        BY <2>5, <4>1 DEF OwnerOK
    <3>4. \A q \in Process : depth'[q] > 0 \/ pc'[q] = "holding" => q = p
      BY <3>3
    <3> QED
      BY <2>1, <2>2, <3>1, <3>2, <3>4 DEF OwnerOK, Object
  <2> QED
    BY <2>3, <2>4, <2>6
<1>8. CASE UNCHANGED <<vars, winVars>>
  BY <1>8 DEF vars, winVars, WinInv, WinTypeOK, OpenOK, OwnerOK
<1> QED
  BY <1>1, <1>2, <1>3, <1>4, <1>5, <1>6, <1>7, <1>8 DEF WinNext

\* The invariant of Windows in force of WinSpec.
LEMMA WinInvHolds == WinSpec => []WinInv
BY WinInvInit, WinInvStep, PTL DEF WinSpec

\* On Windows too, an object has one holder, which keeps it from the others.
THEOREM WinObjectsHaveOneHolder == WinSpec => []OneHolder
<1>1. WinInv => OneHolder
  BY DEF WinInv, WinTypeOK, OpenOK, OwnerOK, OneHolder, Holds, Object, NoObject
<1> QED
  BY <1>1, WinInvHolds, PTL

\* Nothing unlinks a name there: the mutex excludes.
THEOREM WinMutexExcludes == WinSpec => []MutualExclusion
<1>1. WinInv => MutualExclusion
  BY DEF WinInv, WinTypeOK, OwnerOK, MutualExclusion
<1> QED
  BY <1>1, WinInvHolds, PTL

\* Who is told that it has the lock owns it, and nobody else does, though owners
\* die, handles leak and objects come and go with them.
THEOREM WinHoldersOwn == WinSpec => []ToldMeansOwned
<1>1. WinInv => ToldMeansOwned
  BY DEF WinInv, WinTypeOK, OwnerOK, ToldMeansOwned, Holds
<1> QED
  BY <1>1, WinInvHolds, PTL
=============================================================================
