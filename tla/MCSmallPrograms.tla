-------------------------- MODULE MCSmallPrograms --------------------------
(***************************************************************************)
(* Four programs of the repository that share nothing, for one run of TLC: *)
(* the leak detector, the preloaded malloc (MallocHook), the mplayer slave *)
(* and the echo server with sockets.  One of them runs, and the others     *)
(* stay as they are: all that each of them can do is explored, and no      *)
(* product of theirs.                                                      *)
(***************************************************************************)
EXTENDS LeakDetector, FiniteSets, Sequences

CONSTANTS Threads, Libraries, MaxCommands, FifoSize, Fds, Ports, Ephemeral, None

ASSUME HookAssumption == Libraries \subseteq SUBSET {"malloc", "free"}

\* A port is none of the other things a descriptor can be.
ASSUME SocketAssumption ==
    /\ IsFiniteSet(Fds) /\ None \notin Fds
    /\ (Ports \cup {Ephemeral}) \cap {"closed", "unbound", "client"} = {}

VARIABLES which,    \* the program that runs
          found, gmalloc, gfree, call, hook_pc, hook_program,
          fifo, fd_fifo, slave_pc, alive, mplayer, queue, given,
          fds, timewait, socketFd, clientFd, port, socket_pc, failures

hook_vars == <<found, gmalloc, gfree, call, hook_pc, hook_program>>
slave_vars == <<fifo, fd_fifo, slave_pc, alive, mplayer, queue, given>>
socket_vars == <<fds, timewait, socketFd, clientFd, port, socket_pc, failures>>
programs_vars == <<which, vars, hook_vars, slave_vars, socket_vars>>

Hook == INSTANCE MallocHook WITH pc <- hook_pc, program <- hook_program
Slave == INSTANCE MplayerSlave WITH pc <- slave_pc
Socket == INSTANCE SocketServer WITH pc <- socket_pc

\* Those that do not run have nothing left of earlier runs.
ProgramsInit == /\ which \in {"detector", "hook", "slave", "socket"}
                /\ Init /\ Hook!Init /\ Slave!Init /\ Socket!Init
                /\ which # "detector" => ~store
                /\ which # "slave" => ~fifo

ProgramsNext ==
    /\ UNCHANGED which
    /\ \/ which = "detector" /\ Next /\ UNCHANGED <<hook_vars, slave_vars, socket_vars>>
       \/ which = "hook" /\ Hook!Next /\ UNCHANGED <<vars, slave_vars, socket_vars>>
       \/ which = "slave" /\ Slave!Next /\ UNCHANGED <<vars, hook_vars, socket_vars>>
       \/ which = "socket" /\ Socket!Next /\ UNCHANGED <<vars, hook_vars, slave_vars>>

ProgramsSpec == ProgramsInit /\ [][ProgramsNext]_programs_vars

\* Neither malloc nor free of myHookLib.c calls a function that was not looked up.
NeverCallsNull == Hook!NeverCallsNull

\* The mplayer that the thread of mplayer_slave.c starts is never the first that
\* reads commands.
NeverTheFirst == Slave!NeverTheFirst

\* Only a failed accept leaves a descriptor of echoserver-socket.c open.
FdsReturned == Socket!FdsReturned
=============================================================================
