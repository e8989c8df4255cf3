---------------------------- MODULE PropertyLock ----------------------------
(***************************************************************************)
(* The readers/writer protocol of property/property_service.c: the two     *)
(* mutexes and read_count, taken and released line by line by              *)
(* get_property, set_property and release_all_props, for one property      *)
(* whose value is two characters long.  The C library copies a value one   *)
(* character at a time (strcpy in put, strncpy in __system_property_get),  *)
(* so a value is written and read in two steps and a get that overlapped a *)
(* set would return half of each.                                          *)
(*                                                                         *)
(* struct mutex is not in the repository: it is modelled as the code uses  *)
(* it, a flag that lock waits for and unlock clears, whoever set it (the   *)
(* last reader unlocks the wmutex that the first reader locked).           *)
(***************************************************************************)
EXTENDS Integers, FiniteSets

CONSTANTS Threads,      \* the threads that call the service
          Values,       \* what a property can hold
          NoValue,      \* the property is not in the tree
          Pending,      \* see PropertyRegister
          Calls,        \* the operations the callers use
          IllegalNames  \* whether a caller may set an illegal name

ASSUME LockAssumption ==
    /\ IsFiniteSet(Threads)
    /\ NoValue \notin Values
    /\ Pending \notin Values \cup {NoValue}
    /\ Calls \subseteq {"get", "set", "release"}
    /\ IllegalNames \in BOOLEAN

VARIABLES loaded,       \* between load_all_props and release_all_props
          rmutex,       \* is rmutex locked
          wmutex,       \* is wmutex locked
          read_count,   \* the static counter of the same name
          val,          \* the two characters in the value pool
          buf,          \* per thread, the two characters a get has copied
          arg,          \* per thread, the value a set was given
          pc,           \* per thread, the next line
          leaked        \* history: a set_property returned with wmutex locked

vars == <<loaded, rmutex, wmutex, read_count, val, buf, arg, pc, leaked>>
data == <<loaded, val, buf, arg, leaked>>

Labels == {"idle", "crashed",
           "g_lock_r", "g_lock_w", "g_count", "g_unlock_r", "reading",
           "reading2", "g_relock_r", "g_leave", "g_done",
           "s_lock_w", "writing", "writing2", "s_unlock_w",
           "r_lock_r", "r_lock_w", "destroying", "r_unlock_r", "r_unlock_w"}

\* A value is its two characters.
Pairs == [1..2 -> Values \cup {NoValue}]
Both(v) == [i \in 1..2 |-> v]

Goto(t, from, to) == /\ pc[t] = from
                     /\ pc' = [pc EXCEPT ![t] = to]

LockR == ~rmutex /\ rmutex' = TRUE
LockW == ~wmutex /\ wmutex' = TRUE

\* init_property_service has loaded the files before it registers the command
\* that calls the service.
Init == /\ loaded = TRUE
        /\ rmutex = FALSE
        /\ wmutex = FALSE
        /\ read_count = 0
        /\ \E v \in Values \cup {NoValue} : val = Both(v)
        /\ buf = [t \in Threads |-> Both(NoValue)]
        /\ arg = [t \in Threads |-> NoValue]
        /\ pc = [t \in Threads |-> "idle"]
        /\ leaked = FALSE

-----------------------------------------------------------------------------
\* load_all_props: mutex_init and the two locks, the files, the two unlocks.
\* It initialises the mutexes, so a caller runs it alone, after a release.
LoadAll ==
    /\ ~loaded
    /\ \A t \in Threads : pc[t] = "idle"
    /\ loaded' = TRUE
    /\ rmutex' = FALSE
    /\ wmutex' = FALSE
    /\ leaked' = FALSE
    /\ \E v \in Values \cup {NoValue} : val' = Both(v)
    /\ UNCHANGED <<read_count, buf, arg, pc>>

-----------------------------------------------------------------------------
\* get_property
GetCall(t) ==
    /\ "get" \in Calls
    /\ Goto(t, "idle", "g_lock_r")
    /\ UNCHANGED <<data, rmutex, wmutex, read_count>>

GetLockR(t) ==
    /\ Goto(t, "g_lock_r", "g_lock_w")
    /\ LockR
    /\ UNCHANGED <<data, wmutex, read_count>>

\* if(read_count == 0) mutex_lock(&wmutex)
GetLockW(t) ==
    /\ Goto(t, "g_lock_w", "g_count")
    /\ IF read_count = 0 THEN LockW ELSE UNCHANGED wmutex
    /\ UNCHANGED <<data, rmutex, read_count>>

GetCount(t) ==
    /\ Goto(t, "g_count", "g_unlock_r")
    /\ read_count' = read_count + 1
    /\ UNCHANGED <<data, rmutex, wmutex>>

GetUnlockR(t) ==
    /\ Goto(t, "g_unlock_r", "reading")
    /\ rmutex' = FALSE
    /\ UNCHANGED <<data, wmutex, read_count>>

\* __system_property_get copies the value
GetCopy1(t) ==
    /\ Goto(t, "reading", "reading2")
    /\ buf' = [buf EXCEPT ![t][1] = val[1]]
    /\ UNCHANGED <<loaded, rmutex, wmutex, read_count, val, arg, leaked>>

GetCopy2(t) ==
    /\ Goto(t, "reading2", "g_relock_r")
    /\ buf' = [buf EXCEPT ![t][2] = val[2]]
    /\ UNCHANGED <<loaded, rmutex, wmutex, read_count, val, arg, leaked>>

\* Mutant: read_count-- without rmutex.
GetRelockRSkipped(t) ==
    /\ Goto(t, "g_relock_r", "g_leave")
    /\ UNCHANGED <<data, rmutex, wmutex, read_count>>

GetRelockR(t) ==
    /\ Goto(t, "g_relock_r", "g_leave")
    /\ LockR
    /\ UNCHANGED <<data, wmutex, read_count>>

\* Mutant: every reader unlocks wmutex, not only the last.
GetLeaveUnlocks(t) ==
    /\ Goto(t, "g_leave", "g_done")
    /\ read_count' = read_count - 1
    /\ wmutex' = FALSE
    /\ UNCHANGED <<data, rmutex>>

\* Mutant: read_count is compared with 0 before it is decremented.
GetLeaveEarlyTest(t) ==
    /\ Goto(t, "g_leave", "g_done")
    /\ read_count' = read_count - 1
    /\ wmutex' = (IF read_count = 0 THEN FALSE ELSE wmutex)
    /\ UNCHANGED <<data, rmutex>>

\* read_count--, and the last reader out unlocks wmutex
GetLeave(t) ==
    /\ Goto(t, "g_leave", "g_done")
    /\ read_count' = read_count - 1
    /\ wmutex' = (IF read_count = 1 THEN FALSE ELSE wmutex)
    /\ UNCHANGED <<data, rmutex>>

\* Mutant: the last unlock of get_property is missing.
GetDoneLeaks(t) ==
    /\ Goto(t, "g_done", "idle")
    /\ UNCHANGED <<data, rmutex, wmutex, read_count>>

GetDone(t) ==
    /\ Goto(t, "g_done", "idle")
    /\ rmutex' = FALSE
    /\ UNCHANGED <<data, wmutex, read_count>>

-----------------------------------------------------------------------------
\* set_property
SetCall(t) ==
    /\ "set" \in Calls
    /\ Goto(t, "idle", "s_lock_w")
    /\ \E v \in Values : arg' = [arg EXCEPT ![t] = v]
    /\ UNCHANGED <<loaded, rmutex, wmutex, read_count, val, buf, leaked>>

SetLockW(t) ==
    /\ Goto(t, "s_lock_w", "writing")
    /\ LockW
    /\ UNCHANGED <<data, rmutex, read_count>>

\* is_legal_property_name fails: return -1, and wmutex stays locked
SetRefuse(t) ==
    /\ IllegalNames
    /\ Goto(t, "writing", "idle")
    /\ leaked' = TRUE
    /\ arg' = [arg EXCEPT ![t] = NoValue]
    /\ UNCHANGED <<loaded, rmutex, wmutex, read_count, val, buf>>

\* __system_property_set writes nothing: the value is too long, the property is
\* read-only, or put has no room left and remaps the pool.
SetGiveUp(t) ==
    /\ Goto(t, "writing", "s_unlock_w")
    /\ UNCHANGED <<data, rmutex, wmutex, read_count>>

\* Mutant: wmutex is unlocked before the value is copied.
SetCopy1Unlocked(t) ==
    /\ loaded
    /\ Goto(t, "writing", "writing2")
    /\ val' = [val EXCEPT ![1] = arg[t]]
    /\ wmutex' = FALSE
    /\ UNCHANGED <<loaded, rmutex, read_count, buf, arg, leaked>>

\* put copies the value into the pool
SetCopy1(t) ==
    /\ loaded
    /\ Goto(t, "writing", "writing2")
    /\ val' = [val EXCEPT ![1] = arg[t]]
    /\ UNCHANGED <<loaded, rmutex, wmutex, read_count, buf, arg, leaked>>

SetCopy2(t) ==
    /\ Goto(t, "writing2", "s_unlock_w")
    /\ val' = [val EXCEPT ![2] = arg[t]]
    /\ UNCHANGED <<loaded, rmutex, wmutex, read_count, buf, arg, leaked>>

SetUnlockW(t) ==
    /\ Goto(t, "s_unlock_w", "idle")
    /\ wmutex' = FALSE
    /\ arg' = [arg EXCEPT ![t] = NoValue]
    /\ UNCHANGED <<loaded, rmutex, read_count, val, buf, leaked>>

-----------------------------------------------------------------------------
\* release_all_props
ReleaseCall(t) ==
    /\ "release" \in Calls
    /\ Goto(t, "idle", "r_lock_r")
    /\ UNCHANGED <<data, rmutex, wmutex, read_count>>

ReleaseLockR(t) ==
    /\ Goto(t, "r_lock_r", "r_lock_w")
    /\ LockR
    /\ UNCHANGED <<data, wmutex, read_count>>

ReleaseLockW(t) ==
    /\ Goto(t, "r_lock_w", "destroying")
    /\ LockW
    /\ UNCHANGED <<data, rmutex, read_count>>

\* __prop_memory_destroy: every node and the pool are freed
ReleaseDestroy(t) ==
    /\ loaded
    /\ Goto(t, "destroying", "r_unlock_r")
    /\ val' = Both(NoValue)
    /\ loaded' = FALSE
    /\ UNCHANGED <<rmutex, wmutex, read_count, buf, arg, leaked>>

ReleaseUnlockR(t) ==
    /\ Goto(t, "r_unlock_r", "r_unlock_w")
    /\ rmutex' = FALSE
    /\ UNCHANGED <<data, wmutex, read_count>>

ReleaseUnlockW(t) ==
    /\ Goto(t, "r_unlock_w", "idle")
    /\ wmutex' = FALSE
    /\ UNCHANGED <<data, rmutex, read_count>>

-----------------------------------------------------------------------------
\* A set or a release that comes after a release, or waited for it, finds no pool:
\* mp_free_all(cur_pool), which put reaches through realloc_value_memory when
\* mp_malloc returns NULL, dereferences the null cur_pool.
NoPoolCrash(t) ==
    /\ ~loaded
    /\ pc[t] \in {"writing", "destroying"}
    /\ pc' = [pc EXCEPT ![t] = "crashed"]
    /\ UNCHANGED <<data, rmutex, wmutex, read_count>>

-----------------------------------------------------------------------------
Get(t) == \/ GetCall(t) \/ GetLockR(t) \/ GetLockW(t) \/ GetCount(t)
          \/ GetUnlockR(t) \/ GetCopy1(t) \/ GetCopy2(t) \/ GetRelockR(t)
          \/ GetLeave(t) \/ GetDone(t)
Set(t) == \/ SetCall(t) \/ SetLockW(t) \/ SetRefuse(t) \/ SetGiveUp(t)
          \/ SetCopy1(t) \/ SetCopy2(t) \/ SetUnlockW(t)
Release(t) == \/ ReleaseCall(t) \/ ReleaseLockR(t) \/ ReleaseLockW(t)
              \/ ReleaseDestroy(t) \/ ReleaseUnlockR(t) \/ ReleaseUnlockW(t)

\* A thread that crashed took the whole system with it.
Next == /\ \A t \in Threads : pc[t] # "crashed"
        /\ \/ LoadAll
           \/ \E t \in Threads : Get(t) \/ Set(t) \/ Release(t) \/ NoPoolCrash(t)

Spec == Init /\ [][Next]_vars

-----------------------------------------------------------------------------
TypeOK == /\ loaded \in BOOLEAN /\ leaked \in BOOLEAN
          /\ rmutex \in BOOLEAN /\ wmutex \in BOOLEAN
          /\ read_count \in Int
          /\ val \in Pairs
          /\ buf \in [Threads -> Pairs]
          /\ arg \in [Threads -> Values \cup {NoValue}]
          /\ pc \in [Threads -> Labels]

Reading(t) == pc[t] \in {"reading", "reading2"}
Writing(t) == pc[t] \in {"writing", "writing2", "destroying"}

\* A thread that changes the tree or the pool is alone with them: no reader
\* is inside, and no other writer.
Exclusion == \A t, u \in Threads :
                Writing(t) /\ (Reading(u) \/ Writing(u)) => t = u

\* The threads read_count stands for, from the line after read_count++ up to
\* read_count--.
Counted == {t \in Threads : pc[t] \in {"g_unlock_r", "reading", "reading2",
                                       "g_relock_r", "g_leave"}}

\* A get returns a value that some set, load or release put there as a whole,
\* never the first character of one value and the second of another.
NoTornGet == \A t \in Threads :
                pc[t] \in {"g_relock_r", "g_leave", "g_done"}
                    => buf[t][1] = buf[t][2]

\* Once set_property has refused an illegal name it has returned with wmutex
\* locked, and from then on nobody reads or writes a property: the one caller's
\* error stops the service for all the threads.
RefusalStopsService ==
    leaked => \A t \in Threads : ~Reading(t) /\ ~Writing(t)

\* release_all_props takes rmutex and keeps it while it waits for wmutex.  If
\* a get is inside at that moment, the get needs rmutex to leave and the
\* release waits for the get: both are stuck for good.
ReleaseMeetsReader == /\ \E t \in Threads : pc[t] = "r_lock_w"
                      /\ Counted # {}
ReleaseDeadlock == [][ReleaseMeetsReader => ReleaseMeetsReader']_vars

\* A thread at a line that locks a mutex which is locked.
Waits(t) == \/ rmutex /\ pc[t] \in {"g_lock_r", "g_relock_r", "r_lock_r"}
            \/ wmutex /\ pc[t] \in {"s_lock_w", "r_lock_w"}
            \/ wmutex /\ pc[t] = "g_lock_w" /\ read_count = 0

\* The service stands still: somebody waits, and nobody runs who could let go of
\* a mutex.
Standstill == /\ \E t \in Threads : Waits(t)
              /\ \A t \in Threads : Waits(t) \/ pc[t] = "idle"

\* The two mutexes are taken in no order that locks everybody out, but for the two
\* errors above: gets and sets alone never stand still, nor does a release that
\* meets no reader.
NoOtherStandstill == Standstill => leaked \/ ReleaseMeetsReader

-----------------------------------------------------------------------------
(* A get has its answer once the second character is copied; the value the  *)
(* property holds is the one whose second character is in the pool.         *)
Answer(t) ==
    IF pc[t] \in {"g_lock_r", "g_lock_w", "g_count", "g_unlock_r",
                  "reading", "reading2"}
    THEN Pending
    ELSE IF buf[t][1] = buf[t][2] THEN buf[t][1] ELSE "torn"

Register == INSTANCE PropertyRegister
                WITH reg <- val[2],
                     got <- [t \in Threads |-> Answer(t)]

\* The locks make the two-step copies atomic: the protocol implements the
\* register of PropertyRegister.
ImplementsRegister == Register!RegSpec

-----------------------------------------------------------------------------
(* A thread that has entered the service keeps running, and the kernel does *)
(* not pass over a thread that waits for a mutex forever.  Nobody has to    *)
(* call the service.                                                        *)
LockStep(t) == \/ GetLockR(t) \/ GetLockW(t) \/ GetRelockR(t) \/ SetLockW(t)
               \/ ReleaseLockR(t) \/ ReleaseLockW(t)
RunStep(t) == \/ GetCount(t) \/ GetUnlockR(t) \/ GetCopy1(t) \/ GetCopy2(t)
              \/ GetLeave(t) \/ GetDone(t)
              \/ SetRefuse(t) \/ SetGiveUp(t)
              \/ SetCopy1(t) \/ SetCopy2(t) \/ SetUnlockW(t)
              \/ ReleaseDestroy(t) \/ ReleaseUnlockR(t) \/ ReleaseUnlockW(t)

FairSpec == /\ Spec
            /\ \A t \in Threads : WF_vars(RunStep(t)) /\ SF_vars(LockStep(t))

\* Nobody ever releases the properties or has set an illegal name.
Undisturbed == [](~leaked /\ \A t \in Threads : pc[t] # "r_lock_r")

\* While nobody releases the properties or sets an illegal name, a get that
\* was called returns.
GetReturns == Undisturbed => \A t \in Threads : pc[t] = "g_lock_r" ~> pc[t] = "idle"

\* A set returns too, if the readers let go of wmutex again and again: readers
\* that overlap for ever keep it locked and starve the set.
SetReturns == Undisturbed /\ []<>(Counted = {})
                => \A t \in Threads : pc[t] = "s_lock_w" ~> pc[t] = "idle"
=============================================================================
