------------------------ MODULE PropertyLock_proofs ------------------------
(***************************************************************************)
(* What PropertyLock guarantees for every set of threads and values.  The  *)
(* argument is about who holds each mutex: rmutex is held by at most one   *)
(* thread, wmutex by at most one writer, or by the readers together, or by *)
(* nobody who will ever unlock it (leaked).                                *)
(***************************************************************************)
EXTENDS PropertyLock, FiniteSetTheorems, TLAPS

\* The lines on which a thread owns rmutex, and on which it owns wmutex alone.
HoldsR(t) == pc[t] \in {"g_lock_w", "g_count", "g_unlock_r", "g_leave", "g_done",
                        "r_lock_w", "destroying", "r_unlock_r"}
HoldsW(t) == pc[t] \in {"writing", "writing2", "s_unlock_w",
                        "destroying", "r_unlock_r", "r_unlock_w"}

RInv == /\ \A t \in Threads : HoldsR(t) => rmutex
        /\ \A t, u \in Threads : HoldsR(t) /\ HoldsR(u) => t = u

\* The readers own wmutex from the lock before the first read_count++ to the
\* unlock after the last read_count--.
ReadersHoldW == read_count > 0 \/ \E t \in Threads : pc[t] = "g_count"

WInv == /\ \A t \in Threads : HoldsW(t) => wmutex /\ ~leaked /\ ~ReadersHoldW
        /\ \A t, u \in Threads : HoldsW(t) /\ HoldsW(u) => t = u
        /\ ReadersHoldW => wmutex /\ ~leaked
        /\ leaked => wmutex

CountInv == read_count = Cardinality(Counted)

\* The value is whole except between the two steps of one set, and a get that
\* has copied half of it holds the half that is still there.
DataInv == /\ \A t \in Threads : pc[t] = "writing2" => val[1] = arg[t]
           /\ (\A t \in Threads : pc[t] # "writing2") => val[1] = val[2]
           /\ \A t \in Threads : pc[t] = "reading2" => buf[t][1] = val[1]
           /\ \A t \in Threads : pc[t] # "reading2" => buf[t][1] = buf[t][2]

IInv == TypeOK /\ RInv /\ WInv /\ CountInv /\ DataInv

-----------------------------------------------------------------------------
\* The types of the variables are preserved by every line of the service.
LEMMA TypeInit == Init => TypeOK
  <1> SUFFICES ASSUME Init PROVE TypeOK
    OBVIOUS
  <1> USE DEF Init, Both, Pairs, Labels
  <1>1. loaded \in BOOLEAN /\ leaked \in BOOLEAN /\ rmutex \in BOOLEAN /\ wmutex \in BOOLEAN
    OBVIOUS
  <1>2. read_count \in Int
    OBVIOUS
  <1>3. val \in Pairs /\ buf \in [Threads -> Pairs]
    OBVIOUS
  <1>4. arg \in [Threads -> Values \cup {NoValue}] /\ pc \in [Threads -> Labels]
    OBVIOUS
  <1>5. QED
    BY <1>1, <1>2, <1>3, <1>4 DEF TypeOK

LEMMA TypeStep == TypeOK /\ [Next]_vars => TypeOK'
  <1> SUFFICES ASSUME TypeOK, [Next]_vars PROVE TypeOK'
    OBVIOUS
  <1> USE DEF TypeOK, Goto, LockR, LockW, data, Labels, Pairs
  <1>1. CASE LoadAll
    <2>1. PICK v \in Values \cup {NoValue} : val' = Both(v)
      BY <1>1 DEF LoadAll
    <2>2. val' \in Pairs
      BY <2>1 DEF Both
    <2>3. QED
      BY <1>1, <2>2 DEF LoadAll
  <1>2. ASSUME NEW t \in Threads, Get(t) PROVE TypeOK'
    <2>1. CASE GetCall(t) \/ GetLockR(t) \/ GetLockW(t)
      BY <2>1 DEF GetCall, GetLockR, GetLockW
    <2>2. CASE GetCount(t) \/ GetUnlockR(t)
      <3>1. read_count' \in Int
        BY <2>2 DEF GetCount, GetUnlockR
      <3>2. QED
        BY <2>2, <3>1 DEF GetCount, GetUnlockR
    <2>3. CASE GetCopy1(t) \/ GetCopy2(t)
      <3>1. val[1] \in Values \cup {NoValue} /\ val[2] \in Values \cup {NoValue}
        OBVIOUS
      <3>2. \A i \in 1..2, c \in Values \cup {NoValue} :
                [buf EXCEPT ![t][i] = c] \in [Threads -> Pairs]
        OBVIOUS
      <3>3. buf' \in [Threads -> Pairs]
        BY <2>3, <3>1, <3>2 DEF GetCopy1, GetCopy2
      <3>4. QED
        BY <2>3, <3>3 DEF GetCopy1, GetCopy2
    <2>4. CASE GetRelockR(t) \/ GetDone(t)
      BY <2>4 DEF GetRelockR, GetDone
    <2>5. CASE GetLeave(t)
      <3>1. read_count' \in Int
        BY <2>5 DEF GetLeave
      <3>2. wmutex' = FALSE \/ wmutex' = wmutex
        BY <2>5 DEF GetLeave
      <3>3. QED
        BY <2>5, <3>1, <3>2 DEF GetLeave
    <2>6. QED
      BY <1>2, <2>1, <2>2, <2>3, <2>4, <2>5 DEF Get
  <1>3. ASSUME NEW t \in Threads, Set(t) PROVE TypeOK'
    BY <1>3 DEF Set, SetCall, SetLockW, SetRefuse, SetGiveUp, SetCopy1, SetCopy2, SetUnlockW
  <1>4. ASSUME NEW t \in Threads, Release(t) PROVE TypeOK'
    BY <1>4 DEF Release, ReleaseCall, ReleaseLockR, ReleaseLockW,
                ReleaseDestroy, ReleaseUnlockR, ReleaseUnlockW, Both
  <1>5. ASSUME NEW t \in Threads, NoPoolCrash(t) PROVE TypeOK'
    BY <1>5 DEF NoPoolCrash
  <1>6. CASE UNCHANGED vars
    BY <1>6 DEF vars
  <1>7. QED
    BY <1>1, <1>2, <1>3, <1>4, <1>5, <1>6 DEF Next
-----------------------------------------------------------------------------
\* rmutex has one owner.
LEMMA RInit == Init => RInv
  BY DEF Init, RInv, HoldsR

LEMMA RStep == TypeOK /\ RInv /\ [Next]_vars => RInv'
  <1> SUFFICES ASSUME TypeOK, RInv, [Next]_vars PROVE RInv'
    OBVIOUS
  <1> USE DEF TypeOK, RInv, HoldsR, Goto, LockR, LockW, data, Labels
  <1>1. CASE LoadAll
    BY <1>1 DEF LoadAll
  <1>2. ASSUME NEW t \in Threads, Get(t) PROVE RInv'
    <2>1. CASE GetCall(t) \/ GetLockR(t) \/ GetLockW(t)
      BY <2>1 DEF GetCall, GetLockR, GetLockW
    <2>2. CASE GetCount(t) \/ GetUnlockR(t)
      BY <2>2 DEF GetCount, GetUnlockR
    <2>3. CASE GetCopy1(t) \/ GetCopy2(t)
      BY <2>3 DEF GetCopy1, GetCopy2
    <2>4. CASE GetRelockR(t) \/ GetDone(t)
      BY <2>4 DEF GetRelockR, GetDone
    <2>5. CASE GetLeave(t)
      BY <2>5 DEF GetLeave
    <2>6. QED
      BY <1>2, <2>1, <2>2, <2>3, <2>4, <2>5 DEF Get
  <1>3. ASSUME NEW t \in Threads, Set(t) PROVE RInv'
    BY <1>3 DEF Set, SetCall, SetLockW, SetRefuse, SetGiveUp, SetCopy1, SetCopy2, SetUnlockW
  <1>4. ASSUME NEW t \in Threads, Release(t) PROVE RInv'
    BY <1>4 DEF Release, ReleaseCall, ReleaseLockR, ReleaseLockW,
                ReleaseDestroy, ReleaseUnlockR, ReleaseUnlockW
  <1>5. ASSUME NEW t \in Threads, NoPoolCrash(t) PROVE RInv'
    BY <1>5 DEF NoPoolCrash
  <1>6. CASE UNCHANGED vars
    BY <1>6 DEF vars
  <1>7. QED
    BY <1>1, <1>2, <1>3, <1>4, <1>5, <1>6 DEF Next

-----------------------------------------------------------------------------
\* read_count is the number of threads between their read_count++ and their
\* read_count--.
LEMMA CountedFinite == IsFiniteSet(Counted) /\ Cardinality(Counted) \in Nat
  BY LockAssumption, FS_Subset, FS_CardinalityType DEF Counted

LEMMA CountInit == Init => CountInv
  BY FS_EmptySet DEF Init, CountInv, Counted

LEMMA CountStep == TypeOK /\ CountInv /\ [Next]_vars => CountInv'
  <1> SUFFICES ASSUME TypeOK, CountInv, [Next]_vars PROVE CountInv'
    OBVIOUS
  <1> USE DEF TypeOK, CountInv, Goto, LockR, LockW, data, Labels
  <1>1. ASSUME NEW t \in Threads, GetCount(t) PROVE CountInv'
    <2>1. Counted' = Counted \cup {t} /\ t \notin Counted
      BY <1>1 DEF GetCount, Counted
    <2>2. Cardinality(Counted') = Cardinality(Counted) + 1
      BY <2>1, CountedFinite, FS_AddElement
    <2>3. QED
      BY <1>1, <2>2 DEF GetCount
  <1>2. ASSUME NEW t \in Threads, GetLeave(t) PROVE CountInv'
    <2>1. Counted' = Counted \ {t} /\ t \in Counted
      BY <1>2 DEF GetLeave, Counted
    <2>2. Cardinality(Counted') = Cardinality(Counted) - 1
      BY <2>1, CountedFinite, FS_RemoveElement
    <2>3. QED
      BY <1>2, <2>2 DEF GetLeave
  <1>3. ASSUME NEW t \in Threads,
               GetCall(t) \/ GetLockR(t) \/ GetLockW(t) \/ GetUnlockR(t) \/
               GetCopy1(t) \/ GetCopy2(t) \/ GetRelockR(t) \/ GetDone(t)
        PROVE  CountInv'
    <2>1. Counted' = Counted /\ read_count' = read_count
      BY <1>3 DEF Counted, GetCall, GetLockR, GetLockW, GetUnlockR,
                  GetCopy1, GetCopy2, GetRelockR, GetDone
    <2>2. QED
      BY <2>1
  <1>4. ASSUME NEW t \in Threads, Set(t) \/ Release(t) \/ NoPoolCrash(t)
        PROVE  CountInv'
    <2>1. CASE Set(t)
      <3>1. Counted' = Counted /\ read_count' = read_count
        BY <2>1 DEF Counted, Set, SetCall, SetLockW, SetRefuse, SetGiveUp, SetCopy1,
                    SetCopy2, SetUnlockW
      <3>2. QED
        BY <3>1
    <2>2. CASE Release(t) \/ NoPoolCrash(t)
      <3>1. Counted' = Counted /\ read_count' = read_count
        BY <2>2 DEF Counted, Release, ReleaseCall, ReleaseLockR, ReleaseLockW,
                    ReleaseDestroy, ReleaseUnlockR, ReleaseUnlockW, NoPoolCrash
      <3>2. QED
        BY <3>1
    <2>3. QED
      BY <1>4, <2>1, <2>2
  <1>5. CASE LoadAll \/ UNCHANGED vars
    <2>1. Counted' = Counted /\ read_count' = read_count
      BY <1>5 DEF LoadAll, vars, Counted
    <2>2. QED
      BY <2>1
  <1>6. QED
    BY <1>1, <1>2, <1>3, <1>4, <1>5 DEF Next, Get

\* A thread that is counted makes read_count positive, and it is the only one
\* counted when read_count is one.
LEMMA CountedPositive ==
  ASSUME TypeOK, CountInv, NEW t \in Counted
  PROVE  read_count > 0 /\ (read_count = 1 => Counted = {t})
  <1>1. Cardinality(Counted \ {t}) = Cardinality(Counted) - 1
    BY CountedFinite, FS_RemoveElement
  <1>2. IsFiniteSet(Counted \ {t})
    BY CountedFinite, FS_Subset
  <1>3. Cardinality(Counted \ {t}) \in Nat
    BY <1>2, FS_CardinalityType
  <1>4. read_count > 0
    BY <1>1, <1>3, CountedFinite DEF CountInv
  <1>5. ASSUME read_count = 1 PROVE Counted = {t}
    <2>1. Cardinality(Counted \ {t}) = 0
      BY <1>1, <1>5 DEF CountInv
    <2>2. Counted \ {t} = {}
      BY <1>2, <2>1, FS_EmptySet
    <2>3. QED
      BY <2>2
  <1>6. QED
    BY <1>4, <1>5

-----------------------------------------------------------------------------
\* wmutex has one owner: a writer, or the readers that are inside.
LEMMA WInit == Init => WInv
  BY DEF Init, WInv, HoldsW, ReadersHoldW

LEMMA WStep == TypeOK /\ RInv /\ WInv /\ CountInv /\ [Next]_vars => WInv'
  <1> SUFFICES ASSUME TypeOK, RInv, WInv, CountInv, [Next]_vars PROVE WInv'
    OBVIOUS
  <1>0. read_count \in Nat
    BY CountedFinite DEF CountInv
  <1> USE DEF TypeOK, Goto, LockR, LockW, data, Labels, HoldsW, ReadersHoldW
  <1>1. CASE LoadAll
    <2>1. ~ReadersHoldW
      <3>1. Counted = {}
        BY <1>1 DEF LoadAll, Counted
      <3>2. read_count = 0
        BY <3>1, FS_EmptySet DEF CountInv
      <3>3. QED
        BY <1>1, <3>2 DEF LoadAll
    <2>2. QED
      BY <1>1, <2>1 DEF LoadAll, WInv
  <1>2. ASSUME NEW t \in Threads, GetLockW(t) PROVE WInv'
    <2>1. ReadersHoldW' /\ ~leaked' /\ wmutex'
      <3>1. CASE read_count = 0
        <4>1. ~leaked
          BY <1>2, <3>1 DEF GetLockW, WInv
        <4>2. QED
          BY <1>2, <3>1, <4>1 DEF GetLockW
      <3>2. CASE read_count # 0
        <4>1. read_count > 0
          BY <1>0, <3>2
        <4>2. QED
          BY <1>2, <3>2, <4>1 DEF GetLockW, WInv
      <3>3. QED
        BY <3>1, <3>2
    <2>2. \A u \in Threads : ~HoldsW(u)
      <3>1. CASE read_count = 0
        BY <1>2, <3>1 DEF GetLockW, WInv
      <3>2. CASE read_count # 0
        <4>1. read_count > 0
          BY <1>0, <3>2
        <4>2. QED
          BY <4>1 DEF WInv
      <3>3. QED
        BY <3>1, <3>2
    <2>3. \A u \in Threads : ~HoldsW(u)'
      BY <1>2, <2>2 DEF GetLockW
    <2>4. QED
      BY <2>1, <2>3 DEF WInv
  <1>3. ASSUME NEW t \in Threads, GetCount(t) PROVE WInv'
    <2>1. ReadersHoldW
      BY <1>3 DEF GetCount
    <2>2. wmutex /\ ~leaked /\ \A u \in Threads : ~HoldsW(u)
      BY <2>1 DEF WInv
    <2>3. wmutex' /\ ~leaked' /\ \A u \in Threads : ~HoldsW(u)'
      BY <1>3, <2>2 DEF GetCount
    <2>4. QED
      BY <2>3 DEF WInv
  <1>4. ASSUME NEW t \in Threads, GetLeave(t) PROVE WInv'
    <2>1. t \in Counted
      BY <1>4 DEF GetLeave, Counted
    <2>2. read_count > 0
      BY <2>1, CountedPositive
    <2>3. wmutex /\ ~leaked /\ \A u \in Threads : ~HoldsW(u)
      BY <2>2 DEF WInv
    <2>4. ~leaked' /\ \A u \in Threads : ~HoldsW(u)'
      BY <1>4, <2>3 DEF GetLeave
    <2>5. ReadersHoldW' => wmutex'
      <3>1. CASE read_count = 1
        <4>1. \A u \in Threads : pc[u] # "g_count"
          BY <1>4 DEF GetLeave, RInv, HoldsR
        <4>2. \A u \in Threads : pc'[u] # "g_count"
          BY <1>4, <4>1 DEF GetLeave
        <4>3. ~(read_count' > 0)
          BY <1>4, <3>1 DEF GetLeave
        <4>4. QED
          BY <4>2, <4>3
      <3>2. CASE read_count # 1
        BY <1>4, <2>3, <3>2 DEF GetLeave
      <3>3. QED
        BY <3>1, <3>2
    <2>6. QED
      BY <2>4, <2>5 DEF WInv
  <1>5. ASSUME NEW t \in Threads,
               GetCall(t) \/ GetLockR(t) \/ GetUnlockR(t) \/ GetCopy1(t) \/
               GetCopy2(t) \/ GetRelockR(t) \/ GetDone(t) \/ NoPoolCrash(t)
        PROVE  WInv'
    <2>1. /\ ReadersHoldW' <=> ReadersHoldW
          /\ \A u \in Threads : HoldsW(u)' => HoldsW(u)
          /\ leaked' = leaked /\ wmutex' = wmutex
      BY <1>5 DEF GetCall, GetLockR, GetUnlockR, GetCopy1, GetCopy2,
                  GetRelockR, GetDone, NoPoolCrash
    <2>2. QED
      BY <2>1 DEF WInv
  <1>6. ASSUME NEW t \in Threads, Set(t) PROVE WInv'
    <2>1. ReadersHoldW' <=> ReadersHoldW
      BY <1>6 DEF Set, SetCall, SetLockW, SetRefuse, SetGiveUp, SetCopy1, SetCopy2, SetUnlockW
    <2>2. CASE SetLockW(t)
      <3>1. ~wmutex /\ ~leaked /\ ~ReadersHoldW /\ \A u \in Threads : ~HoldsW(u)
        BY <2>2 DEF SetLockW, WInv
      <3>2. /\ wmutex' /\ ~leaked'
            /\ \A u \in Threads : HoldsW(u)' => u = t
        BY <2>2, <3>1 DEF SetLockW
      <3>3. QED
        BY <2>1, <3>1, <3>2 DEF WInv
    <2>3. CASE SetRefuse(t) \/ SetUnlockW(t)
      <3>1. HoldsW(t)
        BY <2>3 DEF SetRefuse, SetUnlockW
      <3>2. wmutex /\ ~leaked /\ ~ReadersHoldW /\ \A u \in Threads : HoldsW(u) => u = t
        BY <3>1 DEF WInv
      <3>3. \A u \in Threads : ~HoldsW(u)'
        BY <2>3, <3>2 DEF SetRefuse, SetUnlockW
      <3>4. leaked' => wmutex'
        BY <2>3, <3>2 DEF SetRefuse, SetUnlockW
      <3>5. QED
        BY <2>1, <3>2, <3>3, <3>4 DEF WInv
    <2>4. CASE SetCall(t) \/ SetGiveUp(t) \/ SetCopy1(t) \/ SetCopy2(t)
      <3>1. /\ leaked' = leaked /\ wmutex' = wmutex
            /\ \A u \in Threads : HoldsW(u)' => HoldsW(u)
        BY <2>4 DEF SetCall, SetGiveUp, SetCopy1, SetCopy2
      <3>2. QED
        BY <2>1, <3>1 DEF WInv
    <2>5. QED
      BY <1>6, <2>2, <2>3, <2>4 DEF Set
  <1>7. ASSUME NEW t \in Threads, Release(t) PROVE WInv'
    <2>1. ReadersHoldW' <=> ReadersHoldW
      BY <1>7 DEF Release, ReleaseCall, ReleaseLockR, ReleaseLockW,
                  ReleaseDestroy, ReleaseUnlockR, ReleaseUnlockW
    <2>2. CASE ReleaseLockW(t)
      <3>1. ~wmutex /\ ~leaked /\ ~ReadersHoldW /\ \A u \in Threads : ~HoldsW(u)
        BY <2>2 DEF ReleaseLockW, WInv
      <3>2. /\ wmutex' /\ ~leaked'
            /\ \A u \in Threads : HoldsW(u)' => u = t
        BY <2>2, <3>1 DEF ReleaseLockW
      <3>3. QED
        BY <2>1, <3>1, <3>2 DEF WInv
    <2>3. CASE ReleaseUnlockW(t)
      <3>1. HoldsW(t)
        BY <2>3 DEF ReleaseUnlockW
      <3>2. ~leaked /\ ~ReadersHoldW /\ \A u \in Threads : HoldsW(u) => u = t
        BY <3>1 DEF WInv
      <3>3. ~leaked' /\ \A u \in Threads : ~HoldsW(u)'
        BY <2>3, <3>2 DEF ReleaseUnlockW
      <3>4. QED
        BY <2>1, <3>2, <3>3 DEF WInv
    <2>4. CASE ReleaseCall(t) \/ ReleaseLockR(t) \/ ReleaseDestroy(t) \/ ReleaseUnlockR(t)
      <3>1. /\ leaked' = leaked /\ wmutex' = wmutex
            /\ \A u \in Threads : HoldsW(u)' => HoldsW(u)
        BY <2>4 DEF ReleaseCall, ReleaseLockR, ReleaseDestroy, ReleaseUnlockR
      <3>2. QED
        BY <2>1, <3>1 DEF WInv
    <2>5. QED
      BY <1>7, <2>2, <2>3, <2>4 DEF Release
  <1>8. CASE UNCHANGED vars
    BY <1>8 DEF vars, WInv
  <1>9. QED
    BY <1>1, <1>2, <1>3, <1>4, <1>5, <1>6, <1>7, <1>8 DEF Next, Get

-----------------------------------------------------------------------------
\* A thread that is inside keeps the others from changing what it copies.
LEMMA ReaderAlone ==
  ASSUME TypeOK, WInv, CountInv, NEW t \in Threads, Reading(t)
  PROVE  \A u \in Threads : ~HoldsW(u)
  <1>1. t \in Counted
    BY DEF Reading, Counted
  <1>2. read_count > 0
    BY <1>1, CountedPositive
  <1>3. QED
    BY <1>2 DEF WInv, ReadersHoldW

LEMMA DataInit == Init => DataInv
  BY DEF Init, DataInv, Both

LEMMA DataStep == TypeOK /\ WInv /\ CountInv /\ DataInv /\ [Next]_vars => DataInv'
  <1> SUFFICES ASSUME TypeOK, WInv, CountInv, DataInv, [Next]_vars PROVE DataInv'
    OBVIOUS
  <1> USE DEF TypeOK, Goto, LockR, LockW, data, Labels, Pairs
  <1>1. CASE LoadAll
    <2>1. PICK v \in Values \cup {NoValue} : val' = Both(v)
      BY <1>1 DEF LoadAll
    <2>2. val'[1] = val'[2]
      BY <2>1 DEF Both
    <2>3. \A u \in Threads : pc'[u] = "idle" /\ pc[u] = "idle" /\ buf' = buf
      BY <1>1 DEF LoadAll
    <2>4. QED
      BY <2>2, <2>3 DEF DataInv
  <1>2. ASSUME NEW t \in Threads, GetCopy1(t) PROVE DataInv'
    <2>1. buf'[t][1] = val[1] /\ \A u \in Threads : u # t => buf'[u] = buf[u]
      BY <1>2 DEF GetCopy1
    <2>2. QED
      BY <1>2, <2>1 DEF GetCopy1, DataInv
  <1>3. ASSUME NEW t \in Threads, GetCopy2(t) PROVE DataInv'
    <2>1. /\ buf'[t][1] = buf[t][1] /\ buf'[t][2] = val[2]
          /\ \A u \in Threads : u # t => buf'[u] = buf[u]
      BY <1>3 DEF GetCopy2
    <2>2. \A u \in Threads : ~HoldsW(u)
      BY <1>3, ReaderAlone DEF GetCopy2, Reading
    <2>3. val[1] = val[2]
      BY <2>2 DEF HoldsW, DataInv
    <2>4. buf[t][1] = val[1]
      BY <1>3 DEF GetCopy2, DataInv
    <2>5. QED
      BY <1>3, <2>1, <2>3, <2>4 DEF GetCopy2, DataInv
  <1>4. ASSUME NEW t \in Threads,
               GetCall(t) \/ GetLockR(t) \/ GetLockW(t) \/ GetCount(t) \/
               GetUnlockR(t) \/ GetRelockR(t) \/ GetLeave(t) \/ GetDone(t) \/
               NoPoolCrash(t)
        PROVE  DataInv'
    <2>1. /\ val' = val /\ buf' = buf /\ arg' = arg
          /\ \A u \in Threads : /\ pc'[u] = "reading2" <=> pc[u] = "reading2"
                                /\ pc'[u] = "writing2" <=> pc[u] = "writing2"
      BY <1>4 DEF GetCall, GetLockR, GetLockW, GetCount, GetUnlockR,
                  GetRelockR, GetLeave, GetDone, NoPoolCrash
    <2>2. QED
      BY <2>1 DEF DataInv
  <1>5. ASSUME NEW t \in Threads,
               SetCopy1(t) \/ SetCopy2(t) \/ ReleaseDestroy(t)
        PROVE  DataInv'
    <2>1. HoldsW(t)
      BY <1>5 DEF HoldsW, SetCopy1, SetCopy2, ReleaseDestroy
    <2>2. \A u \in Threads : pc[u] # "reading" /\ pc[u] # "reading2"
      BY <2>1, ReaderAlone DEF Reading
    <2>3. \A u \in Threads : u # t => pc[u] # "writing2"
      BY <2>1 DEF WInv, HoldsW
    <2>4. /\ \A u \in Threads : u # t => pc'[u] = pc[u]
          /\ pc'[t] # "reading2"
          /\ buf' = buf /\ arg' = arg
      BY <1>5 DEF SetCopy1, SetCopy2, ReleaseDestroy
    <2>5. CASE SetCopy1(t)
      <3>1. val'[1] = arg[t] /\ pc'[t] = "writing2"
        BY <2>5 DEF SetCopy1
      <3>2. QED
        BY <2>2, <2>3, <2>4, <3>1 DEF DataInv
    <2>6. CASE SetCopy2(t)
      <3>1. val'[1] = val[1] /\ val'[2] = arg[t] /\ pc'[t] # "writing2"
        BY <2>6 DEF SetCopy2
      <3>2. val[1] = arg[t]
        BY <2>6 DEF SetCopy2, DataInv
      <3>3. QED
        BY <2>2, <2>3, <2>4, <3>1, <3>2 DEF DataInv
    <2>7. CASE ReleaseDestroy(t)
      <3>1. val'[1] = val'[2] /\ pc'[t] # "writing2"
        BY <2>7 DEF ReleaseDestroy, Both
      <3>2. QED
        BY <2>2, <2>3, <2>4, <3>1 DEF DataInv
    <2>8. QED
      BY <1>5, <2>5, <2>6, <2>7
  <1>6. ASSUME NEW t \in Threads,
               SetCall(t) \/ SetLockW(t) \/ SetRefuse(t) \/ SetGiveUp(t) \/ SetUnlockW(t) \/
               ReleaseCall(t) \/ ReleaseLockR(t) \/ ReleaseLockW(t) \/
               ReleaseUnlockR(t) \/ ReleaseUnlockW(t)
        PROVE  DataInv'
    <2>1. /\ val' = val /\ buf' = buf
          /\ \A u \in Threads : /\ pc'[u] = "reading2" <=> pc[u] = "reading2"
                                /\ pc'[u] = "writing2" <=> pc[u] = "writing2"
                                /\ pc[u] = "writing2" => arg'[u] = arg[u]
      BY <1>6 DEF SetCall, SetLockW, SetRefuse, SetGiveUp, SetUnlockW, ReleaseCall,
                  ReleaseLockR, ReleaseLockW, ReleaseUnlockR, ReleaseUnlockW
    <2>2. QED
      BY <2>1 DEF DataInv
  <1>7. CASE UNCHANGED vars
    BY <1>7 DEF vars, DataInv
  <1>8. QED
    BY <1>1, <1>2, <1>3, <1>4, <1>5, <1>6, <1>7 DEF Next, Get, Set, Release

-----------------------------------------------------------------------------
\* The five parts together are inductive, so they hold in every state.
THEOREM Inductive == Spec => []IInv
  <1>1. Init => IInv
    BY TypeInit, RInit, WInit, CountInit, DataInit DEF IInv
  <1>2. IInv /\ [Next]_vars => IInv'
    BY TypeStep, RStep, WStep, CountStep, DataStep DEF IInv
  <1>3. QED
    BY <1>1, <1>2, PTL DEF Spec

\* Every variable keeps its type in every state of the service.
THEOREM Typing == Spec => []TypeOK
  <1>1. IInv => TypeOK
    BY DEF IInv
  <1>2. QED
    BY Inductive, <1>1, PTL

\* A thread that changes the tree or the pool is alone with them, whatever the
\* number of readers and writers that wait.
THEOREM MutualExclusion == Spec => []Exclusion
  <1>1. IInv => Exclusion
    <2> SUFFICES ASSUME IInv, NEW t \in Threads, NEW u \in Threads,
                        Writing(t), Reading(u) \/ Writing(u)
                 PROVE  t = u
      BY DEF Exclusion
    <2>1. HoldsW(t)
      BY DEF Writing, HoldsW
    <2>2. ~Reading(u)
      BY <2>1, ReaderAlone DEF IInv
    <2>3. HoldsW(u)
      BY <2>2 DEF Writing, HoldsW
    <2>4. QED
      BY <2>1, <2>3 DEF IInv, WInv
  <1>2. QED
    BY Inductive, <1>1, PTL

\* No get ever returns half of one value and half of another.
THEOREM NeverTorn == Spec => []NoTornGet
  <1>1. IInv => NoTornGet
    BY DEF IInv, DataInv, NoTornGet
  <1>2. QED
    BY Inductive, <1>1, PTL

\* After set_property has refused an illegal name, no thread is inside the
\* service any more.
THEOREM RefusalIsFatal == Spec => []RefusalStopsService
  <1>1. IInv => RefusalStopsService
    <2> SUFFICES ASSUME IInv, leaked, NEW t \in Threads
                 PROVE  ~Reading(t) /\ ~Writing(t)
      BY DEF RefusalStopsService
    <2>1. ~HoldsW(t) /\ ~ReadersHoldW
      BY DEF IInv, WInv
    <2>2. ~Writing(t)
      BY <2>1 DEF HoldsW, Writing
    <2>3. ASSUME Reading(t) PROVE FALSE
      <3>1. t \in Counted
        BY <2>3 DEF Reading, Counted
      <3>2. read_count > 0
        BY <3>1, CountedPositive DEF IInv
      <3>3. QED
        BY <2>1, <3>2 DEF ReadersHoldW
    <2>4. QED
      BY <2>2, <2>3
  <1>2. QED
    BY Inductive, <1>1, PTL

\* A release that waits for wmutex while a get is inside waits for ever, and
\* so does the get.
THEOREM ReleaseIsStuck == Spec => ReleaseDeadlock
  <1>1. IInv /\ [Next]_vars => [ReleaseMeetsReader => ReleaseMeetsReader']_vars
    <2> SUFFICES ASSUME IInv, Next, ReleaseMeetsReader PROVE ReleaseMeetsReader'
      OBVIOUS
    <2> USE DEF Goto, LockR, LockW, data, IInv, TypeOK, Labels
    <2>1. PICK r \in Threads : pc[r] = "r_lock_w"
      BY DEF ReleaseMeetsReader
    <2>2. PICK g \in Counted : TRUE
      BY DEF ReleaseMeetsReader
    <2>3. g \in Threads /\ r # g
      BY <2>1, <2>2 DEF Counted
    <2>4. wmutex
      BY <2>2, CountedPositive DEF WInv, ReadersHoldW
    <2>5. pc[g] # "g_leave"
      BY <2>1, <2>3 DEF RInv, HoldsR
    <2>6. pc'[r] = "r_lock_w" /\ g \in Counted'
      <3>1. CASE LoadAll
        BY <2>1, <3>1 DEF LoadAll
      <3>2. ASSUME NEW t \in Threads, Get(t)
            PROVE  pc'[r] = "r_lock_w" /\ g \in Counted'
        BY <2>1, <2>2, <2>3, <2>5, <3>2
           DEF Get, GetCall, GetLockR, GetLockW, GetCount, GetUnlockR, GetCopy1,
               GetCopy2, GetRelockR, GetLeave, GetDone, Counted
      <3>3. ASSUME NEW t \in Threads, Set(t) \/ Release(t) \/ NoPoolCrash(t)
            PROVE  pc'[r] = "r_lock_w" /\ g \in Counted'
        BY <2>1, <2>2, <2>3, <2>4, <3>3
           DEF Set, SetCall, SetLockW, SetRefuse, SetGiveUp, SetCopy1, SetCopy2, SetUnlockW,
               Release, ReleaseCall, ReleaseLockR, ReleaseLockW, ReleaseDestroy,
               ReleaseUnlockR, ReleaseUnlockW, NoPoolCrash, Counted
      <3>4. QED
        BY <3>1, <3>2, <3>3 DEF Next
    <2>7. QED
      BY <2>6 DEF ReleaseMeetsReader
  <1>2. QED
    BY Inductive, <1>1, PTL DEF ReleaseDeadlock, Spec

-----------------------------------------------------------------------------
(* A mutex that is locked has an owner, who runs unless it waits itself.  That *)
(* somebody owns it is the converse of RInv and WInv, which say who may own it.*)
Crashed == \E t \in Threads : pc[t] = "crashed"
OwnedR == rmutex => Crashed \/ \E t \in Threads : HoldsR(t)
OwnedW == wmutex => Crashed \/ leaked \/ ReadersHoldW \/ \E t \in Threads : HoldsW(t)

\* At first no mutex is locked.
LEMMA OwnedInit == Init => OwnedR /\ OwnedW
  BY DEF Init, OwnedR, OwnedW

\* Every line that locks rmutex makes its thread the owner, every line that ends an
\* ownership unlocks it, and no line of another thread ends it.
LEMMA OwnedRStep == TypeOK /\ OwnedR /\ [Next]_vars => OwnedR'
  <1> SUFFICES ASSUME TypeOK, OwnedR, [Next]_vars, rmutex'
               PROVE  (Crashed \/ \E t \in Threads : HoldsR(t))'
    BY DEF OwnedR
  <1> USE DEF TypeOK, Goto, LockR, LockW, data
  <1>1. ASSUME NEW t \in Threads, GetLockR(t) \/ GetRelockR(t) \/ ReleaseLockR(t)
        PROVE  HoldsR(t)'
    BY <1>1 DEF GetLockR, GetRelockR, ReleaseLockR, HoldsR
  <1>2. ASSUME NEW t \in Threads, NoPoolCrash(t) PROVE Crashed'
    BY <1>2 DEF NoPoolCrash, Crashed
  <1>3. ASSUME NEW t \in Threads,
               \/ GetCall(t) \/ GetLockW(t) \/ GetCount(t) \/ GetCopy1(t) \/ GetCopy2(t)
               \/ GetLeave(t)
        PROVE  rmutex' = rmutex /\ \A u \in Threads : /\ HoldsR(u) => HoldsR(u)'
                                                      /\ pc[u] # "crashed"
                                                         \/ pc'[u] = "crashed"
    BY <1>3 DEF GetCall, GetLockW, GetCount, GetCopy1, GetCopy2, GetLeave, HoldsR
  <1>4. ASSUME NEW t \in Threads, Set(t)
        PROVE  rmutex' = rmutex /\ \A u \in Threads : /\ HoldsR(u) => HoldsR(u)'
                                                      /\ pc[u] # "crashed"
                                                         \/ pc'[u] = "crashed"
    BY <1>4 DEF Set, SetCall, SetLockW, SetRefuse, SetGiveUp, SetCopy1, SetCopy2,
                SetUnlockW, HoldsR
  <1>5. ASSUME NEW t \in Threads,
               ReleaseCall(t) \/ ReleaseLockW(t) \/ ReleaseDestroy(t) \/ ReleaseUnlockW(t)
        PROVE  rmutex' = rmutex /\ \A u \in Threads : /\ HoldsR(u) => HoldsR(u)'
                                                      /\ pc[u] # "crashed"
                                                         \/ pc'[u] = "crashed"
    BY <1>5 DEF ReleaseCall, ReleaseLockW, ReleaseDestroy, ReleaseUnlockW, HoldsR
  <1>6. ASSUME NEW t \in Threads, GetUnlockR(t) \/ GetDone(t) \/ ReleaseUnlockR(t)
        PROVE  FALSE
    BY <1>6 DEF GetUnlockR, GetDone, ReleaseUnlockR
  <1>7. ~LoadAll
    BY DEF LoadAll
  <1>8. CASE UNCHANGED vars
    BY <1>8 DEF vars, OwnedR, Crashed, HoldsR
  <1>9. ASSUME NEW t \in Threads, Get(t) \/ Set(t) \/ Release(t) \/ NoPoolCrash(t)
        PROVE  (Crashed \/ \E u \in Threads : HoldsR(u))'
    <2>1. CASE GetLockR(t) \/ GetRelockR(t) \/ ReleaseLockR(t)
      BY <1>1, <2>1
    <2>2. CASE NoPoolCrash(t)
      BY <1>2, <2>2
    <2>3. CASE /\ rmutex' = rmutex
               /\ \A u \in Threads : /\ HoldsR(u) => HoldsR(u)'
                                     /\ pc[u] # "crashed" \/ pc'[u] = "crashed"
      BY <2>3 DEF OwnedR, Crashed
    <2>4. QED
      BY <1>3, <1>4, <1>5, <1>6, <1>9, <2>1, <2>2, <2>3 DEF Get, Release
  <1>10. QED
    BY <1>7, <1>8, <1>9 DEF Next

\* The same of wmutex, whose owner is a writer, or the readers while one of them is
\* counted, or nobody after a refusal.
LEMMA OwnedWStep == TypeOK /\ CountInv /\ OwnedW /\ [Next]_vars => OwnedW'
  <1> SUFFICES ASSUME TypeOK, CountInv, OwnedW, [Next]_vars, wmutex'
               PROVE  (Crashed \/ leaked \/ ReadersHoldW \/ \E t \in Threads : HoldsW(t))'
    BY DEF OwnedW
  <1>0. read_count \in Nat
    BY CountedFinite DEF CountInv
  <1> USE DEF TypeOK, Goto, LockR, LockW, data
  <1>1. ASSUME NEW t \in Threads, GetLockW(t) \/ GetCount(t) \/ GetLeave(t)
        PROVE  ReadersHoldW'
    <2>1. CASE GetLockW(t)
      BY <2>1 DEF GetLockW, ReadersHoldW
    <2>2. CASE GetCount(t)
      BY <1>0, <2>2 DEF GetCount, ReadersHoldW
    <2>3. CASE GetLeave(t)
      <3>1. t \in Counted
        BY <2>3 DEF GetLeave, Counted
      <3>2. read_count > 0 /\ read_count # 1
        BY <2>3, <3>1, CountedPositive DEF GetLeave
      <3>3. read_count' > 0
        BY <1>0, <2>3, <3>2 DEF GetLeave
      <3>4. QED
        BY <3>3 DEF ReadersHoldW
    <2>4. QED
      BY <1>1, <2>1, <2>2, <2>3
  <1>2. ASSUME NEW t \in Threads, SetLockW(t) \/ ReleaseLockW(t) PROVE HoldsW(t)'
    BY <1>2 DEF SetLockW, ReleaseLockW, HoldsW
  <1>3. ASSUME NEW t \in Threads, SetRefuse(t) PROVE leaked'
    BY <1>3 DEF SetRefuse
  <1>4. ASSUME NEW t \in Threads, NoPoolCrash(t) PROVE Crashed'
    BY <1>4 DEF NoPoolCrash, Crashed
  <1>5. ASSUME NEW t \in Threads,
               \/ GetCall(t) \/ GetLockR(t) \/ GetUnlockR(t) \/ GetCopy1(t)
               \/ GetCopy2(t) \/ GetRelockR(t) \/ GetDone(t)
        PROVE  /\ wmutex' = wmutex /\ leaked' = leaked /\ ReadersHoldW' = ReadersHoldW
               /\ \A u \in Threads : /\ HoldsW(u) => HoldsW(u)'
                                     /\ pc[u] # "crashed" \/ pc'[u] = "crashed"
    <2>1. /\ wmutex' = wmutex /\ leaked' = leaked /\ read_count' = read_count
          /\ \A u \in Threads : /\ HoldsW(u) => HoldsW(u)'
                                /\ pc[u] # "crashed" \/ pc'[u] = "crashed"
                                /\ pc[u] = "g_count" <=> pc'[u] = "g_count"
      BY <1>5 DEF GetCall, GetLockR, GetUnlockR, GetCopy1, GetCopy2, GetRelockR, GetDone,
                  HoldsW
    <2>2. QED
      BY <2>1 DEF ReadersHoldW
  <1>6. ASSUME NEW t \in Threads,
               \/ SetCall(t) \/ SetGiveUp(t) \/ SetCopy1(t) \/ SetCopy2(t)
               \/ ReleaseCall(t) \/ ReleaseLockR(t) \/ ReleaseDestroy(t) \/ ReleaseUnlockR(t)
        PROVE  /\ wmutex' = wmutex /\ leaked' = leaked /\ ReadersHoldW' = ReadersHoldW
               /\ \A u \in Threads : /\ HoldsW(u) => HoldsW(u)'
                                     /\ pc[u] # "crashed" \/ pc'[u] = "crashed"
    <2>1. /\ wmutex' = wmutex /\ leaked' = leaked /\ read_count' = read_count
          /\ \A u \in Threads : /\ HoldsW(u) => HoldsW(u)'
                                /\ pc[u] # "crashed" \/ pc'[u] = "crashed"
                                /\ pc[u] = "g_count" <=> pc'[u] = "g_count"
      BY <1>6 DEF SetCall, SetGiveUp, SetCopy1, SetCopy2, ReleaseCall, ReleaseLockR,
                  ReleaseDestroy, ReleaseUnlockR, HoldsW
    <2>2. QED
      BY <2>1 DEF ReadersHoldW
  <1>7. ASSUME NEW t \in Threads, SetUnlockW(t) \/ ReleaseUnlockW(t) PROVE FALSE
    BY <1>7 DEF SetUnlockW, ReleaseUnlockW
  <1>8. ~LoadAll
    BY DEF LoadAll
  <1>9. CASE UNCHANGED vars
    BY <1>9 DEF vars, OwnedW, Crashed, HoldsW, ReadersHoldW
  <1>10. ASSUME NEW t \in Threads, Get(t) \/ Set(t) \/ Release(t) \/ NoPoolCrash(t)
         PROVE  (Crashed \/ leaked \/ ReadersHoldW \/ \E u \in Threads : HoldsW(u))'
    <2>1. CASE /\ wmutex' = wmutex /\ leaked' = leaked /\ ReadersHoldW' = ReadersHoldW
               /\ \A u \in Threads : /\ HoldsW(u) => HoldsW(u)'
                                     /\ pc[u] # "crashed" \/ pc'[u] = "crashed"
      BY <2>1 DEF OwnedW, Crashed
    <2>2. CASE Get(t)
      BY <1>1, <1>5, <2>1, <2>2 DEF Get
    <2>3. CASE Set(t)
      BY <1>2, <1>3, <1>6, <1>7, <2>1, <2>3 DEF Set
    <2>4. CASE Release(t)
      BY <1>2, <1>6, <1>7, <2>1, <2>4 DEF Release
    <2>5. QED
      BY <1>4, <1>10, <2>2, <2>3, <2>4
  <1>11. QED
    BY <1>8, <1>9, <1>10 DEF Next

\* When all the threads wait or are idle, the owner of a mutex waits, and the one
\* it waits for must be a reader that is inside: so it is a release that waits.
LEMMA StandstillMeans == IInv /\ OwnedR /\ OwnedW => NoOtherStandstill
  <1> SUFFICES ASSUME IInv, OwnedR, OwnedW, Standstill, ~leaked
               PROVE  ReleaseMeetsReader
    BY DEF NoOtherStandstill
  <1>1. read_count \in Nat
    BY CountedFinite DEF IInv, CountInv
  <1>2. ~Crashed
    BY DEF Crashed, Standstill, Waits
  <1>3. ASSUME NEW t \in Threads PROVE ~HoldsW(t) /\ pc[t] # "g_count"
    BY DEF Standstill, Waits, HoldsW
  <1>4. rmutex => \E t \in Threads : /\ wmutex
                                     /\ \/ pc[t] = "r_lock_w"
                                        \/ pc[t] = "g_lock_w" /\ read_count = 0
    <2>1. ASSUME NEW t \in Threads, HoldsR(t)
          PROVE  /\ wmutex
                 /\ \/ pc[t] = "r_lock_w"
                    \/ pc[t] = "g_lock_w" /\ read_count = 0
      BY <2>1 DEF Standstill, Waits, HoldsR
    <2>2. QED
      BY <1>2, <2>1 DEF OwnedR
  <1>5. wmutex
    <2>1. PICK t \in Threads : Waits(t)
      BY DEF Standstill
    <2>2. QED
      BY <1>4, <2>1 DEF Waits
  <1>6. read_count > 0
    BY <1>2, <1>3, <1>5 DEF OwnedW, ReadersHoldW
  <1>7. PICK c \in Threads : c \in Counted
    <2>1. Counted # {}
      BY <1>6, FS_EmptySet DEF IInv, CountInv
    <2>2. QED
      BY <2>1 DEF Counted
  <1>8. rmutex
    BY <1>7 DEF Standstill, Waits, Counted
  <1>9. \E t \in Threads : pc[t] = "r_lock_w"
    BY <1>4, <1>6, <1>8
  <1>10. QED
    BY <1>7, <1>9 DEF ReleaseMeetsReader

\* No set of gets, sets and releases, of any number of threads, locks everybody
\* out of the two mutexes, unless a set has been refused or a release has met a
\* reader.
THEOREM OnlyTwoStandstills == Spec => []NoOtherStandstill
  <1>1. Init => OwnedR /\ OwnedW
    BY OwnedInit
  <1>2. IInv /\ OwnedR /\ OwnedW /\ [Next]_vars => (OwnedR /\ OwnedW)'
    BY OwnedRStep, OwnedWStep DEF IInv
  <1>3. QED
    BY Inductive, StandstillMeans, <1>1, <1>2, PTL DEF Spec

-----------------------------------------------------------------------------
(* The protocol implements the register.  A get takes its answer in GetCopy2,*)
(* a set assigns in SetCopy2; every other step of theirs leaves the register *)
(* and the answers as they are.                                              *)
LEMMA RegisterInit == Init => Register!RegInit
  BY DEF Init, Register!RegInit, Answer, Both

LEMMA RegisterStep ==
    IInv /\ IInv' /\ [Next]_vars => [Register!RegNext]_(Register!regvars)
  <1> SUFFICES ASSUME IInv, IInv', [Next]_vars
               PROVE  [Register!RegNext]_(Register!regvars)
    OBVIOUS
  <1> DEFINE got == [u \in Threads |-> Answer(u)]
  <1> USE DEF Goto, LockR, LockW, data, IInv, TypeOK, Labels, Pairs
  <1>1. CASE LoadAll
    <2>1. PICK v \in Values \cup {NoValue} : val' = Both(v)
      BY <1>1 DEF LoadAll
    <2>2. got' = got
      BY <1>1 DEF LoadAll, Answer
    <2>3. val'[2] = v
      BY <2>1 DEF Both
    <2>4. QED
      BY <2>2, <2>3 DEF Register!RegNext, Register!Assign
  <1>2. ASSUME NEW t \in Threads, GetCall(t)
        PROVE  Register!RegNext
    <2>1. got' = [got EXCEPT ![t] = Pending] /\ val' = val
      BY <1>2 DEF GetCall, Answer
    <2>2. QED
      BY <2>1 DEF Register!RegNext, Register!Ask
  <1>3. ASSUME NEW t \in Threads, GetCopy2(t)
        PROVE  Register!RegNext
    <2>1. buf'[t][1] = buf'[t][2] /\ buf'[t][2] = val[2]
      BY <1>3 DEF GetCopy2, DataInv
    <2>2. /\ Answer(t) = Pending /\ Answer(t)' = val[2]
          /\ \A u \in Threads \ {t} : Answer(u)' = Answer(u)
      BY <1>3, <2>1 DEF GetCopy2, Answer
    <2>3. val' = val
      BY <1>3 DEF GetCopy2
    <2>4. got[t] = Pending
      BY <2>2
    <2>5. got' = [got EXCEPT ![t] = val[2]]
      <3> HIDE DEF LockR, LockW, data, IInv, TypeOK, Labels, Pairs
      <3> QED
        BY <2>2, Zenon
    <2>6. QED
      BY <2>3, <2>4, <2>5 DEF Register!RegNext, Register!Answer
  <1>4. ASSUME NEW t \in Threads, SetCopy2(t) \/ ReleaseDestroy(t)
        PROVE  Register!RegNext
    <2>1. got' = got
      BY <1>4 DEF SetCopy2, ReleaseDestroy, Answer
    <2>2. \E v \in Values \cup {NoValue} : val'[2] = v
      BY <1>4 DEF SetCopy2, ReleaseDestroy, Both
    <2>3. QED
      BY <2>1, <2>2 DEF Register!RegNext, Register!Assign
  <1>5. ASSUME NEW t \in Threads,
               GetLockR(t) \/ GetLockW(t) \/ GetCount(t) \/ GetUnlockR(t) \/
               GetCopy1(t) \/ GetRelockR(t) \/ GetLeave(t) \/ GetDone(t)
        PROVE  UNCHANGED Register!regvars
    <2>1. got' = got
      <3>1. \A u \in Threads : Answer(u)' = Answer(u)
        BY <1>5 DEF GetLockR, GetLockW, GetCount, GetUnlockR, GetCopy1,
                    GetRelockR, GetLeave, GetDone, Answer
      <3>2. QED
        BY <3>1
    <2>2. val'[2] = val[2]
      BY <1>5 DEF GetLockR, GetLockW, GetCount, GetUnlockR, GetCopy1,
                  GetRelockR, GetLeave, GetDone
    <2>3. QED
      BY <2>1, <2>2 DEF Register!regvars
  <1>6. ASSUME NEW t \in Threads,
               SetCall(t) \/ SetLockW(t) \/ SetRefuse(t) \/ SetGiveUp(t) \/ SetCopy1(t) \/
               SetUnlockW(t) \/ ReleaseCall(t) \/ ReleaseLockR(t) \/
               ReleaseLockW(t) \/ ReleaseUnlockR(t) \/ ReleaseUnlockW(t) \/
               NoPoolCrash(t)
        PROVE  UNCHANGED Register!regvars
    <2>1. got' = got
      <3>1. \A u \in Threads : Answer(u)' = Answer(u)
        BY <1>6 DEF SetCall, SetLockW, SetRefuse, SetGiveUp, SetCopy1, SetUnlockW,
                    ReleaseCall, ReleaseLockR, ReleaseLockW, ReleaseUnlockR,
                    ReleaseUnlockW, NoPoolCrash, Answer
      <3>2. QED
        BY <3>1
    <2>2. val'[2] = val[2]
      BY <1>6 DEF SetCall, SetLockW, SetRefuse, SetGiveUp, SetCopy1, SetUnlockW,
                  ReleaseCall, ReleaseLockR, ReleaseLockW, ReleaseUnlockR,
                  ReleaseUnlockW, NoPoolCrash
    <2>3. QED
      BY <2>1, <2>2 DEF Register!regvars
  <1>7. CASE UNCHANGED vars
    BY <1>7 DEF vars, Register!regvars, Answer
  <1>8. QED
    BY <1>1, <1>2, <1>3, <1>4, <1>5, <1>6, <1>7 DEF Next, Get, Set, Release

\* Every behaviour of the locks, line by line, is a behaviour of the register:
\* each set takes effect at one instant, each get answers with the value of one
\* instant between its call and its return.
THEOREM Linearizable == Spec => ImplementsRegister
  <1>1. QED
    BY Inductive, RegisterInit, RegisterStep, PTL
       DEF Spec, ImplementsRegister, Register!RegSpec
=============================================================================
