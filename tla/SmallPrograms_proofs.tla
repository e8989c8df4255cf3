------------------------ MODULE SmallPrograms_proofs ------------------------
(***************************************************************************)
(* The small programs, proved for any number of addresses, threads,        *)
(* commands and descriptors: what the leak detector reports over every     *)
(* directory that earlier runs may have left, that the preloaded malloc    *)
(* calls nothing that it has not looked up, that the mplayer which the     *)
(* slave starts is never the first to read commands, and that the echo     *)
(* server with sockets loses no descriptor but those of failed accepts.    *)
(***************************************************************************)
EXTENDS MCSmallPrograms, FiniteSetTheorems, TLAPS

-----------------------------------------------------------------------------
(* The leak detector                                                        *)

DetectorTyped == /\ files \in [Pointers -> {"none", "[+]", "[-]"}]
         /\ frees \in [Pointers -> 0..2]
         /\ live \subseteq Addresses
         /\ ptrs \subseteq Pointers
         /\ program \in {"runs", "ended", "undefined"}

\* A pointer that was not freed since it was handed out is one of a live block.
UnfreedLives == program = "runs" =>
                   \A a \in Addresses \cap ptrs : frees[a] = 0 => a \in live

\* A first free takes the file away.
FreedHasNoFile == program = "runs" =>
                     \A a \in Addresses : frees[a] = 1 => files[a] = "none"

DetectorInv == DetectorTyped /\ LeaksReported /\ UnfreedLives /\ FreedHasNoFile

\* The directory and the program agree at the start, and at every start again.
LEMMA DetectorInitially == Init => DetectorInv
BY DEF Init, DetectorInv, DetectorTyped, LeaksReported, UnfreedLives, FreedHasNoFile, Pointers, NoFiles

\* The count of a pointer that is freed.
LEMMA Counts ==
    ASSUME NEW a \in Pointers, frees \in [Pointers -> 0..2], FreedOnceMore(a)
    PROVE  /\ frees' \in [Pointers -> 0..2]
           /\ frees'[a] # 0
           /\ frees[a] # 0 => frees'[a] = 2
           /\ \A b \in Pointers : b # a => frees'[b] = frees[b]
<1>1. frees[a] \in 0..2
  OBVIOUS
<1>2. frees' = [frees EXCEPT ![a] = IF frees[a] < 2 THEN frees[a] + 1 ELSE frees[a]]
  BY DEF FreedOnceMore
<1>3. (IF frees[a] < 2 THEN frees[a] + 1 ELSE frees[a]) \in 1..2
  BY <1>1
<1>4. frees[a] # 0 => (IF frees[a] < 2 THEN frees[a] + 1 ELSE frees[a]) = 2
  BY <1>1
<1> QED
  BY <1>2, <1>3, <1>4

LEMMA DetectorInductive == DetectorInv /\ [Next]_vars => DetectorInv'
<1> SUFFICES ASSUME DetectorInv, [Next]_vars PROVE DetectorInv'
  OBVIOUS
<1> USE DetectorAssumption DEF DetectorInv, DetectorTyped, LeaksReported, UnfreedLives, FreedHasNoFile
<1>1. CASE Start
  BY <1>1 DEF Start, Pointers, NoFiles
<1>2. CASE End \/ MallocFails \/ MallocCrashes
  BY <1>2 DEF End, MallocFails, MallocCrashes
<1>3. ASSUME NEW a \in Addresses, Malloc(a) PROVE DetectorInv'
  BY <1>3 DEF Malloc, Pointers
<1>4. ASSUME NEW a \in Pointers, FreeRefused(a) \/ FreeCrashes(a) PROVE DetectorInv'
  BY <1>4 DEF FreeRefused, FreeCrashes
<1>5. ASSUME NEW a \in Pointers, Free(a) PROVE DetectorInv'
  <2>1. /\ frees' \in [Pointers -> 0..2] /\ frees'[a] # 0
        /\ \A b \in Pointers : b # a => frees'[b] = frees[b]
    BY <1>5, Counts DEF Free
  <2>2. files'[a] = "none" /\ \A b \in Pointers : b # a => files'[b] = files[b]
    BY <1>5 DEF Free
  <2> QED
    BY <1>5, <2>1, <2>2 DEF Free, Pointers
<1>6. ASSUME NEW a \in Pointers, FreeReported(a) PROVE DetectorInv'
  <2>1. a \notin live
    BY <1>6 DEF FreeReported
  <2>2. a \in Addresses => frees[a] # 0
    BY <1>6, <2>1 DEF FreeReported
  <2>3. /\ frees' \in [Pointers -> 0..2] /\ frees'[a] # 0
        /\ frees[a] # 0 => frees'[a] = 2
        /\ \A b \in Pointers : b # a => frees'[b] = frees[b]
    BY <1>6, Counts DEF FreeReported
  <2>4. \A b \in Pointers : b # a => files'[b] = files[b]
    BY <1>6 DEF FreeReported
  <2>5. files' \in [Pointers -> {"none", "[+]", "[-]"}]
    BY <1>6 DEF FreeReported
  <2>6. LeaksReported'
    BY <1>6, <2>1, <2>4 DEF FreeReported, Pointers
  <2>7. UnfreedLives'
    BY <1>6, <2>3 DEF FreeReported, Pointers
  <2>8. FreedHasNoFile'
    <3> SUFFICES ASSUME NEW b \in Addresses, frees'[b] = 1 PROVE files'[b] = "none"
      BY <1>6 DEF FreeReported
    <3>1. b # a
      BY <2>2, <2>3
    <3> QED
      BY <1>6, <2>3, <2>4, <3>1 DEF FreeReported, Pointers
  <2> QED
    BY <1>6, <2>3, <2>5, <2>6, <2>7, <2>8 DEF FreeReported
<1>7. CASE UNCHANGED vars
  BY <1>7 DEF vars
<1> QED
  BY <1>1, <1>2, <1>3, <1>4, <1>5, <1>6, <1>7 DEF Next

Rest == /\ store \in BOOLEAN /\ cleaned \in BOOLEAN /\ (~store => files = NoFiles)
        /\ Nil \in ptrs
        /\ said \in {"", "Please Check", "Double Free Error"} \X Pointers

LEMMA Said == \A m \in {"", "Please Check", "Double Free Error"}, a \in Pointers :
                 <<m, a>> \in {"", "Please Check", "Double Free Error"} \X Pointers
OBVIOUS

\* Every step that makes a file makes the directory first, or has looked for it.
LEMMA RestStays == Rest /\ [Next]_vars => Rest'
<1> SUFFICES ASSUME Rest, [Next]_vars PROVE Rest'
  OBVIOUS
<1>1. Nil' = Nil /\ Nil \in Pointers /\ Pointers' = Pointers /\ NoFiles' = NoFiles
  BY DEF Pointers, NoFiles
<1>2. store' \in BOOLEAN /\ cleaned' \in BOOLEAN
  BY DEF Rest, vars, Next, Start, End, Malloc, MallocFails, MallocCrashes,
         FreeRefused, Free, FreeReported, FreeCrashes
<1>3. ~store' => files' = NoFiles
  BY DEF Rest, vars, Next, Start, End, Malloc, MallocFails, MallocCrashes,
         FreeRefused, Free, FreeReported, FreeCrashes
<1>4. Nil \in ptrs'
  BY DEF Rest, vars, Next, Start, End, Malloc, MallocFails, MallocCrashes,
         FreeRefused, Free, FreeReported, FreeCrashes
<1>5. said' \in {"", "Please Check", "Double Free Error"} \X Pointers
  <2>1. \/ said' = said \/ said' = <<"", Nil>>
        \/ \E a \in Pointers : said' = <<"Please Check", a>> \/ said' = <<"Double Free Error", a>>
    BY DEF vars, Next, Start, End, Malloc, MallocFails, MallocCrashes,
           FreeRefused, Free, FreeReported, FreeCrashes, Quiet
  <2> QED
    BY <1>1, <2>1, Said DEF Rest
<1> QED
  BY <1>1, <1>2, <1>3, <1>4, <1>5 DEF Rest

\* A directory that is not there holds no file, in every run of every program.
THEOREM DetectorTypes == Spec => []TypeOK
<1>1. Init => Rest
  <2> SUFFICES ASSUME Init PROVE Rest
    OBVIOUS
  <2>1. store \in BOOLEAN /\ cleaned \in BOOLEAN /\ (~store => files = NoFiles) /\ Nil \in ptrs
    BY DEF Init
  <2>2. said = <<"", Nil>> /\ Nil \in Pointers
    BY DEF Init, Quiet, Pointers
  <2> QED
    BY <2>1, <2>2, Said DEF Rest
<1>2. DetectorInv /\ Rest => TypeOK
  BY DEF DetectorInv, DetectorTyped, Rest, TypeOK
<1> QED
  BY <1>1, <1>2, DetectorInitially, DetectorInductive, RestStays, PTL DEF Spec

\* my_malloc and my_free keep a file that says "[+]" for every block that is not
\* freed, whatever the directory held before: no leak goes unreported.
THEOREM EveryLeakReported == Spec => []LeaksReported
<1>1. DetectorInv => LeaksReported
  BY DEF DetectorInv
<1> QED
  BY <1>1, DetectorInitially, DetectorInductive, PTL DEF Spec

\* my_free reports the second free in a row of a block and keeps it from the C
\* library: the first free has removed the file, and no other step of the
\* program, or of one before it, puts it back.
THEOREM EverySecondFreeReported == Spec => SecondFreeReported
<1> DEFINE Reported == \A a \in Addresses : frees[a] = 1 /\ frees'[a] = 2
                          => said' = <<"Double Free Error", a>> /\ program' = "runs"
<1>1. DetectorInv /\ [Next]_vars => [Reported]_vars
  <2> SUFFICES ASSUME DetectorInv, Next, NEW a \in Addresses, frees[a] = 1, frees'[a] = 2
               PROVE said' = <<"Double Free Error", a>> /\ program' = "runs"
    OBVIOUS
  <2> USE DEF DetectorInv, DetectorTyped, Pointers
  <2>1. ~Start /\ frees' # frees
    BY DEF Start
  <2>2. \A b \in Addresses : ~Malloc(b)
    BY DEF Malloc
  <2>3. ~End /\ ~MallocFails /\ ~MallocCrashes
    BY <2>1 DEF End, MallocFails, MallocCrashes
  <2>6. \A b \in Pointers : ~FreeRefused(b) /\ ~FreeCrashes(b)
    BY <2>1 DEF FreeRefused, FreeCrashes
  <2>4. ASSUME NEW b \in Pointers, Free(b) PROVE FALSE
    <3>1. \A c \in Pointers : c # b => frees'[c] = frees[c]
      BY <2>4, Counts DEF Free
    <3>2. b = a
      BY <3>1
    <3> QED
      BY <2>4, <3>2 DEF Free, FreedHasNoFile
  <2>5. ASSUME NEW b \in Pointers, FreeReported(b)
        PROVE said' = <<"Double Free Error", a>> /\ program' = "runs"
    <3>1. \A c \in Pointers : c # b => frees'[c] = frees[c]
      BY <2>5, Counts DEF FreeReported
    <3>2. b = a
      BY <3>1
    <3> QED
      BY <2>5, <3>2 DEF FreeReported
  <2> QED
    BY <2>1, <2>2, <2>3, <2>4, <2>5, <2>6 DEF Next
<1> QED
  BY <1>1, DetectorInitially, DetectorInductive, PTL DEF Spec, SecondFreeReported

\* Over a directory of its own, what a run reports has leaked: NULL gets no file,
\* and a block loses its file when it is freed.
THEOREM NothingElseReported == Spec => []OnlyLeaksReported
<1>1. Init => OnlyLeaksReported
  BY DEF Init, OnlyLeaksReported
<1>2. DetectorInv /\ OnlyLeaksReported /\ [Next]_vars => OnlyLeaksReported'
  <2> SUFFICES ASSUME DetectorInv, OnlyLeaksReported, [Next]_vars PROVE OnlyLeaksReported'
    OBVIOUS
  <2> USE DetectorAssumption DEF DetectorInv, DetectorTyped, OnlyLeaksReported, Pointers
  <2>1. CASE Start
    BY <2>1 DEF Start, NoFiles
  <2>2. CASE End \/ MallocFails \/ MallocCrashes
    BY <2>2 DEF End, MallocFails, MallocCrashes
  <2>3. ASSUME NEW a \in Addresses, Malloc(a) PROVE OnlyLeaksReported'
    BY <2>3 DEF Malloc
  <2>4. ASSUME NEW a \in Pointers, FreeRefused(a) \/ FreeCrashes(a) PROVE OnlyLeaksReported'
    BY <2>4 DEF FreeRefused, FreeCrashes
  <2>5. ASSUME NEW a \in Pointers, Free(a) \/ FreeReported(a) PROVE OnlyLeaksReported'
    BY <2>5 DEF Free, FreeReported
  <2>6. CASE UNCHANGED vars
    BY <2>6 DEF vars
  <2> QED
    BY <2>1, <2>2, <2>3, <2>4, <2>5, <2>6 DEF Next
<1> QED
  BY <1>1, <1>2, DetectorInitially, DetectorInductive, PTL DEF Spec

\* my_malloc and my_free keep a file that says "[+]" for what is not freed, over any
\* directory, and for nothing else over one of their own.
THEOREM LeaksAreTold == Spec => []FilesTellLeaks
BY EveryLeakReported, NothingElseReported, PTL DEF FilesTellLeaks

-----------------------------------------------------------------------------
(* The preloaded malloc: the lookups repeat each other's work and never     *)
(* undo it                                                                  *)

HookTyped == /\ found \in Libraries
         /\ call \in [Threads -> {"none", "malloc", "free"}]
         /\ hook_pc \in [Threads -> {"outside", "init malloc", "dlsym malloc", "init free",
                                "dlsym free", "wrapped", "library"}]

\* What was found once is found by everybody.
LookedUp == (gmalloc => "malloc" \in found) /\ (gfree => "free" \in found)

\* How far a thread is in hook_init tells what is not NULL.
ThreadOK(t) == /\ hook_pc[t] \in {"init free", "dlsym free", "wrapped"} => gmalloc
               /\ hook_pc[t] = "wrapped" => gfree
               /\ hook_pc[t] = "library" => IF call[t] = "malloc" THEN gmalloc ELSE gfree

HookInv == HookTyped /\ LookedUp /\ (hook_program = "runs" => \A t \in Threads : ThreadOK(t))

LEMMA HookInitially == Hook!Init => HookInv
BY DEF Hook!Init, HookInv, HookTyped, LookedUp, ThreadOK

\* The assumption is needed: hook_init does not test whether it has found free.
LEMMA HookInductive ==
    ASSUME \A l \in Libraries : "malloc" \in l => "free" \in l
    PROVE  HookInv /\ NeverCallsNull /\ [Hook!Next]_hook_vars => HookInv' /\ NeverCallsNull'
<1> SUFFICES ASSUME HookInv, NeverCallsNull, [Hook!Next]_hook_vars PROVE HookInv' /\ NeverCallsNull'
  OBVIOUS
<1> USE DEF HookInv, HookTyped, LookedUp, ThreadOK, NeverCallsNull, Hook!NeverCallsNull
<1>1. CASE UNCHANGED hook_vars
  BY <1>1 DEF hook_vars
<1>2. ASSUME NEW t \in Threads, Hook!CallMalloc(t) PROVE HookInv' /\ NeverCallsNull'
  BY <1>2 DEF Hook!CallMalloc, Hook!At, Hook!Go
<1>3. ASSUME NEW t \in Threads, Hook!CallFree(t) PROVE HookInv' /\ NeverCallsNull'
  BY <1>3 DEF Hook!CallFree, Hook!At, Hook!Go
<1>4. ASSUME NEW t \in Threads, Hook!Library(t) PROVE HookInv' /\ NeverCallsNull'
  BY <1>4 DEF Hook!Library, Hook!At, Hook!Go
<1>5. ASSUME NEW t \in Threads, Hook!TestMalloc(t) PROVE HookInv' /\ NeverCallsNull'
  BY <1>5 DEF Hook!TestMalloc, Hook!At, Hook!Go
<1>6. ASSUME NEW t \in Threads, Hook!LookUpMalloc(t) PROVE HookInv' /\ NeverCallsNull'
  <2>1. gmalloc' = ("malloc" \in found)
    BY <1>6 DEF Hook!LookUpMalloc
  <2>2. gmalloc' <=> "malloc" \in found
    BY <2>1
  <2>3. hook_program = "runs" /\ hook_program' = IF gmalloc' THEN hook_program ELSE "exited"
    BY <1>6 DEF Hook!LookUpMalloc, Hook!At
  <2>4. hook_pc' = [hook_pc EXCEPT ![t] = "init free"] /\ UNCHANGED <<found, gfree, call>>
    BY <1>6 DEF Hook!LookUpMalloc, Hook!Go
  <2>5. gmalloc => gmalloc'
    BY <2>2
  <2> QED
    BY <2>2, <2>3, <2>4, <2>5
<1>7. ASSUME NEW t \in Threads, Hook!TestFree(t) PROVE HookInv' /\ NeverCallsNull'
  BY <1>7 DEF Hook!TestFree, Hook!At, Hook!Go
<1>8. ASSUME NEW t \in Threads, Hook!LookUpFree(t) PROVE HookInv' /\ NeverCallsNull'
  BY <1>8 DEF Hook!LookUpFree, Hook!At, Hook!Go
<1>9. ASSUME NEW t \in Threads, Hook!Wrapped(t) PROVE HookInv' /\ NeverCallsNull'
  BY <1>9 DEF Hook!Wrapped, Hook!At, Hook!Go
<1> QED
  BY <1>1, <1>2, <1>3, <1>4, <1>5, <1>6, <1>7, <1>8, <1>9 DEF Hook!Next, Hook!HookInit

\* malloc and free of myHookLib.c call the C library's only when it is known,
\* whichever threads are looking it up, provided that a C library that has malloc
\* has free.
THEOREM NullIsNeverCalled ==
    ASSUME \A l \in Libraries : "malloc" \in l => "free" \in l
    PROVE  ProgramsSpec => []NeverCallsNull
<1>1. ProgramsInit => HookInv /\ NeverCallsNull
  BY HookInitially DEF ProgramsInit, Hook!Init, NeverCallsNull, Hook!NeverCallsNull
<1>2. [ProgramsNext]_programs_vars => [Hook!Next]_hook_vars
  BY DEF ProgramsNext, programs_vars, hook_vars
<1>3. HookInv /\ NeverCallsNull /\ [Hook!Next]_hook_vars => HookInv' /\ NeverCallsNull'
  BY HookInductive
<1> QED
  BY <1>1, <1>2, <1>3, PTL DEF ProgramsSpec

-----------------------------------------------------------------------------
(* The mplayer slave                                                        *)

\* The thread has the FIFO open only when somebody has come to read it, who may be
\* gone but was there.
ReadBefore == fd_fifo => mplayer # "absent"

\* With a FIFO the thread of mplayer_slave.c waits in open until another mplayer
\* reads it; without one its own gets no command, also if the FIFO is made later.
THEOREM AnotherReadsFirst == ProgramsSpec => NeverTheFirst
<1> USE DEF Slave!Step, Slave!Commanded, Slave!Given
<1>1. ProgramsInit => ReadBefore
  BY DEF ProgramsInit, Slave!Init, ReadBefore
<1>2. [ProgramsNext]_programs_vars => [Slave!Next]_Slave!vars
  BY DEF ProgramsNext, programs_vars, slave_vars, Slave!vars
<1>3. ReadBefore /\ [Slave!Next]_Slave!vars => ReadBefore'
  <2> SUFFICES ASSUME ReadBefore, [Slave!Next]_Slave!vars PROVE ReadBefore'
    OBVIOUS
  <2>1. CASE Slave!Thread
    BY <2>1 DEF ReadBefore, Slave!Thread, Slave!OpenMissing, Slave!Open, Slave!Popen,
                Slave!Fgets, Slave!Pclose
  <2>2. CASE Slave!MakeFifo \/ Slave!StartedElsewhere \/ Slave!Obey \/ Slave!MplayerEnds
    BY <2>2 DEF ReadBefore, Slave!MakeFifo, Slave!StartedElsewhere, Slave!Obey,
                Slave!MplayerEnds
  <2>3. ASSUME NEW c \in Slave!Commands,
               Slave!CommandLost(c) \/ Slave!Command(c) \/ Slave!CommandKills(c)
        PROVE ReadBefore'
    BY <2>3 DEF ReadBefore, Slave!CommandLost, Slave!Command, Slave!CommandKills
  <2>4. CASE UNCHANGED Slave!vars
    BY <2>4 DEF ReadBefore, Slave!vars
  <2> QED
    BY <2>1, <2>2, <2>3, <2>4 DEF Slave!Next
<1>4. ReadBefore /\ [Slave!Next]_Slave!vars
         => [Slave!Popen /\ mplayer = "absent" => ~fd_fifo]_Slave!vars
  BY DEF ReadBefore
<1> QED
  BY <1>1, <1>2, <1>3, <1>4, PTL DEF ProgramsSpec, NeverTheFirst, Slave!NeverTheFirst

-----------------------------------------------------------------------------
(* The echo server with sockets                                             *)

Open == {f \in Fds : fds[f] # "closed"}
Things == {"closed", "unbound", "client", Ephemeral} \cup Ports

SocketTypes == /\ fds \in [Fds -> Things] /\ timewait \subseteq Ports
               /\ socketFd \in Fds \cup {None} /\ clientFd \in Fds \cup {None}
               /\ port \in Ports \cup {Ephemeral} /\ failures \in Nat
               /\ socket_pc \in {"shell", "socket", "bind", "listen", "accept", "recv", "close"}

\* A client is served on a descriptor of its own.
Serving == socket_pc \in {"recv", "close"}
ClientOpen == IF Serving THEN /\ clientFd \in Fds /\ fds[clientFd] = "client"
                              /\ \A f \in Fds : fds[f] = "client" => f = clientFd
                         ELSE \A f \in Fds : fds[f] # "client"

\* The descriptor of the socket is open from socket() on, if there is one.
ServerOpen == /\ socket_pc \in {"bind", "listen", "accept", "recv", "close"} /\ socketFd # None
                   => fds[socketFd] \notin {"closed", "client"}
              /\ Serving => socketFd # None

\* What is open is what failed accepts have left, and what the command uses now.
InUse == IF Serving THEN 2
         ELSE IF socket_pc \in {"bind", "listen", "accept"} /\ socketFd # None THEN 1 ELSE 0
OpenCounted == Cardinality(Open) = failures + InUse

SocketInv == SocketTypes /\ ClientOpen /\ ServerOpen /\ OpenCounted

\* Opening and closing one descriptor.
LEMMA OpenedOne ==
    ASSUME fds \in [Fds -> Things], NEW f \in Fds, fds[f] = "closed",
           NEW x \in Things, x # "closed", fds' = [fds EXCEPT ![f] = x]
    PROVE  /\ fds' \in [Fds -> Things]
           /\ Cardinality(Open) \in Nat
           /\ Cardinality(Open') = Cardinality(Open) + 1
<1>1. IsFiniteSet(Open)
  BY SocketAssumption, FS_Subset DEF Open
<1>2. Open' = Open \cup {f} /\ f \notin Open
  BY DEF Open
<1> QED
  BY <1>1, <1>2, FS_AddElement, FS_CardinalityType

\* Two descriptors of the table that are open and not the same.
LEMMA ClosedTwo ==
    ASSUME fds \in [Fds -> Things], NEW f \in Open, NEW g \in Open, f # g,
           fds' = [fds EXCEPT ![f] = "closed", ![g] = "closed"]
    PROVE  /\ fds' \in [Fds -> Things]
           /\ Cardinality(Open) \in Nat
           /\ Cardinality(Open') = Cardinality(Open) - 2
<1>1. IsFiniteSet(Open)
  BY SocketAssumption, FS_Subset DEF Open
<1>2. Open' = (Open \ {f}) \ {g} /\ g \in Open \ {f}
  BY DEF Open
<1>3. /\ IsFiniteSet(Open \ {f}) /\ Cardinality(Open) \in Nat
      /\ Cardinality(Open \ {f}) = Cardinality(Open) - 1
  BY <1>1, FS_RemoveElement, FS_CardinalityType
<1>4. Cardinality((Open \ {f}) \ {g}) = Cardinality(Open \ {f}) - 1
  BY <1>2, <1>3, FS_RemoveElement
<1>5. fds' \in [Fds -> Things]
  BY DEF Things
<1> QED
  BY <1>2, <1>3, <1>4, <1>5

LEMMA SocketInitially == Socket!Init => SocketInv
<1> SUFFICES ASSUME Socket!Init PROVE SocketInv
  OBVIOUS
<1> USE DEF Socket!Init
<1>1. Open = {}
  BY DEF Open
<1>2. Cardinality(Open) = 0
  BY <1>1, FS_EmptySet
<1> QED
  BY <1>2 DEF SocketInv, SocketTypes, Things, ClientOpen, ServerOpen, Serving, InUse, OpenCounted

LEMMA SocketInductive == SocketInv /\ [Socket!Next]_socket_vars => SocketInv'
<1> SUFFICES ASSUME SocketInv, [Socket!Next]_socket_vars PROVE SocketInv'
  OBVIOUS
<1> USE SocketAssumption DEF SocketInv, SocketTypes, Things, Serving, Socket!At
<1>0. Cardinality(Open) \in Nat
  BY FS_Subset, FS_CardinalityType DEF Open
<1>1. ASSUME NEW p \in Ports, Socket!Command(p) PROVE SocketInv'
  BY <1>1 DEF Socket!Command, ClientOpen, ServerOpen, OpenCounted, InUse, Open
<1>2. CASE Socket!Socket
  <2>1. ASSUME NEW f \in Fds, fds[f] = "closed", socketFd' = f,
               fds' = [fds EXCEPT ![f] = "unbound"]
        PROVE SocketInv'
    <3>1. fds' \in [Fds -> Things] /\ Cardinality(Open') = Cardinality(Open) + 1
      BY <2>1, OpenedOne
    <3>2. Cardinality(Open) = failures
      BY <1>2 DEF Socket!Socket, OpenCounted, InUse
    <3>3. OpenCounted'
      BY <1>2, <2>1, <3>1, <3>2 DEF Socket!Socket, OpenCounted, InUse
    <3> QED
      BY <1>2, <2>1, <3>1, <3>3 DEF Socket!Socket, ClientOpen, ServerOpen
  <2>2. CASE socketFd' = None /\ UNCHANGED fds
    BY <1>2, <2>2 DEF Socket!Socket, ClientOpen, ServerOpen, OpenCounted, InUse, Open
  <2> QED
    BY <1>2, <2>1, <2>2 DEF Socket!Socket
<1>3. CASE Socket!Bind
  <2>1. fds' \in [Fds -> Things] /\ Open' = Open
    BY <1>3 DEF Socket!Bind, ServerOpen, Open
  <2> QED
    BY <1>3, <2>1 DEF Socket!Bind, ClientOpen, ServerOpen, OpenCounted, InUse
<1>4. CASE Socket!Listen
  <2>1. fds' \in [Fds -> Things] /\ Open' = Open
    BY <1>4 DEF Socket!Listen, ServerOpen, Open
  <2> QED
    BY <1>4, <2>1 DEF Socket!Listen, ClientOpen, ServerOpen, OpenCounted, InUse
<1>5. CASE Socket!Accept
  <2> PICK f \in Fds : fds[f] = "closed" /\ clientFd' = f /\ fds' = [fds EXCEPT ![f] = "client"]
    BY <1>5 DEF Socket!Accept
  <2>1. fds' \in [Fds -> Things] /\ Cardinality(Open') = Cardinality(Open) + 1
    BY OpenedOne
  <2>2. Cardinality(Open) = failures + 1
    BY <1>5 DEF Socket!Accept, OpenCounted, InUse
  <2>3. OpenCounted'
    BY <1>5, <2>1, <2>2 DEF Socket!Accept, OpenCounted, InUse
  <2>4. ClientOpen' /\ ServerOpen'
    BY <1>5 DEF Socket!Accept, ClientOpen, ServerOpen
  <2> QED
    BY <1>5, <2>1, <2>3, <2>4 DEF Socket!Accept
<1>6. CASE Socket!AcceptFails
  BY <1>0, <1>6 DEF Socket!AcceptFails, ClientOpen, ServerOpen, OpenCounted, InUse, Open
<1>7. CASE Socket!Echo
  BY <1>7 DEF Socket!Echo, ClientOpen, ServerOpen, OpenCounted, InUse, Open
<1>8. CASE Socket!Close
  <2>1. /\ clientFd \in Open /\ socketFd \in Open /\ clientFd # socketFd
        /\ Cardinality(Open) = failures + 2
    BY <1>8 DEF Socket!Close, ClientOpen, ServerOpen, OpenCounted, InUse, Open
  <2>2. fds' = [fds EXCEPT ![clientFd] = "closed", ![socketFd] = "closed"]
    BY <1>8 DEF Socket!Close
  <2>3. fds' \in [Fds -> Things] /\ Cardinality(Open') = Cardinality(Open) - 2
    BY <2>1, <2>2, ClosedTwo
  <2>4. \A f \in Fds : fds'[f] # "client"
    BY <1>8, <2>2 DEF Socket!Close, ClientOpen
  <2> QED
    BY <1>0, <1>8, <2>1, <2>3, <2>4 DEF Socket!Close, ClientOpen, ServerOpen, OpenCounted, InUse
<1>9. ASSUME NEW p \in Ports, Socket!Expires(p) PROVE SocketInv'
  BY <1>9 DEF Socket!Expires, ClientOpen, ServerOpen, OpenCounted, InUse, Open
<1>10. CASE UNCHANGED socket_vars
  BY <1>10 DEF socket_vars, ClientOpen, ServerOpen, OpenCounted, InUse, Open
<1> QED
  BY <1>1, <1>2, <1>3, <1>4, <1>5, <1>6, <1>7, <1>8, <1>9, <1>10 DEF Socket!Next

\* Whatever a client does and however often the command is called, with a table
\* of any size: echoserver-socket.c leaves the listening sockets of the accepts
\* that failed open, and nothing else.
THEOREM DescriptorsReturned == ProgramsSpec => []FdsReturned
<1>1. ProgramsInit => SocketInv
  BY SocketInitially DEF ProgramsInit
<1>2. [ProgramsNext]_programs_vars => [Socket!Next]_socket_vars
  BY DEF ProgramsNext, programs_vars, socket_vars
<1>3. SocketInv => FdsReturned
  <2> SUFFICES ASSUME SocketInv, socket_pc = "shell"
               PROVE  Cardinality(Open) = failures /\ \A f \in Fds : fds[f] # "client"
    <3>1. Socket!Cardinality(Open) = Cardinality(Open)
      BY Zenon DEF Socket!Cardinality, Cardinality
    <3> QED
      BY <3>1 DEF FdsReturned, Socket!FdsReturned, Open
  <2>1. InUse = 0 /\ failures \in Nat
    BY DEF SocketInv, SocketTypes, InUse, Serving
  <2> QED
    BY <2>1 DEF SocketInv, OpenCounted, ClientOpen, Serving
<1> QED
  BY <1>1, <1>2, <1>3, SocketInductive, PTL DEF ProgramsSpec
=============================================================================
