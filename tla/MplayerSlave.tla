---------------------------- MODULE MplayerSlave ----------------------------
(***************************************************************************)
(* mplayerInterface/mplayer_slave.c: the thread that opens the FIFO to     *)
(* mplayer, starts it and reads its answers, and the functions that write  *)
(* commands to the FIFO.  mplayer and the kernel's FIFO are external: an   *)
(* open for writing waits for a reader, a full FIFO makes a write wait,    *)
(* and a write without a reader kills the program.  The FIFO is made by    *)
(* others, before the thread starts or at any time after.                  *)
(***************************************************************************)
EXTENDS Naturals, Sequences

CONSTANTS MaxCommands,  \* bound: commands that are given
          FifoSize      \* the commands that the FIFO holds

VARIABLES fifo,         \* whether mplayerPipe exists
          fd_fifo,      \* whether it is open (not -1)
          pc,           \* the thread's next step
          alive,        \* the program was not killed
          mplayer,      \* "absent", "reading" the FIFO, or "gone"
          queue,        \* the commands in the FIFO
          given         \* the number of commands the functions were called for

vars == <<fifo, fd_fifo, pc, alive, mplayer, queue, given>>

\* player_pause stands for all that are not player_quit.
Commands == {"quit", "pause"}

Init == /\ fifo \in BOOLEAN
        /\ fd_fifo = FALSE /\ pc = "open"
        /\ alive = TRUE /\ mplayer = "absent"
        /\ queue = <<>> /\ given = 0

-----------------------------------------------------------------------------
(* mplayer_demo_main_thread                                                 *)

Step(from, to) == alive /\ pc = from /\ pc' = to
Commanded == UNCHANGED <<fifo, alive, queue, given>>

\* There is nothing to open: fd_fifo is -1.
OpenMissing == /\ Step("open", "popen") /\ ~fifo
               /\ Commanded /\ UNCHANGED <<fd_fifo, mplayer>>

\* Mutant: open does not wait.
OpenAtOnce == /\ Step("open", "popen") /\ fifo
              /\ fd_fifo' = TRUE
              /\ Commanded /\ UNCHANGED mplayer

\* open waits until a program has the FIFO open for reading.
Open == /\ Step("open", "popen") /\ fifo /\ mplayer = "reading"
        /\ fd_fifo' = TRUE
        /\ Commanded /\ UNCHANGED mplayer

\* The command is left open in the code ("Step2: Exec mplayer command"): what
\* popen starts may be an mplayer, which reads the FIFO if there is one.
Popen == /\ Step("popen", "fgets")
         /\ mplayer' \in {mplayer, IF fifo THEN "reading" ELSE mplayer}
         /\ Commanded /\ UNCHANGED fd_fifo

\* fgets returns NULL at last, and pclose waits for the sub-process.
Fgets == Step("fgets", "pclose") /\ Commanded /\ UNCHANGED <<fd_fifo, mplayer>>
Pclose == Step("pclose", "ended") /\ Commanded /\ UNCHANGED <<fd_fifo, mplayer>>

Thread == OpenMissing \/ Open \/ Popen \/ Fgets \/ Pclose

-----------------------------------------------------------------------------
(* player_stop, player_quit and so on: from any thread, at any time          *)

Given == alive /\ given < MaxCommands /\ given' = given + 1

\* write fails, and 0 is returned as ever.
CommandLost(c) == /\ Given /\ ~fd_fifo
                  /\ UNCHANGED <<fifo, fd_fifo, pc, alive, mplayer, queue>>

Command(c) == /\ Given /\ fd_fifo /\ mplayer = "reading" /\ Len(queue) < FifoSize
              /\ queue' = Append(queue, c)
              /\ UNCHANGED <<fifo, fd_fifo, pc, alive, mplayer>>

\* SIGPIPE; what is in a FIFO that nobody has open is lost.
CommandKills(c) == /\ Given /\ fd_fifo /\ mplayer # "reading"
                   /\ alive' = FALSE
                   /\ queue' = <<>>
                   /\ UNCHANGED <<fifo, fd_fifo, pc, mplayer>>

-----------------------------------------------------------------------------
(* mplayer and its FIFO                                                     *)

\* mkfifo, by hand: whoever has not found it does not open it any more.
MakeFifo == /\ ~fifo /\ fifo' = TRUE
            /\ UNCHANGED <<fd_fifo, pc, alive, mplayer, queue, given>>

\* By hand: nobody else will, as long as the thread waits in open.
StartedElsewhere == /\ fifo /\ mplayer # "reading"
                    /\ mplayer' = "reading"
                    /\ UNCHANGED <<fifo, fd_fifo, pc, alive, queue, given>>

Obey == /\ mplayer = "reading" /\ queue # <<>>
        /\ queue' = Tail(queue)
        /\ mplayer' = IF Head(queue) = "quit" THEN "gone" ELSE mplayer
        /\ UNCHANGED <<fifo, fd_fifo, pc, alive, given>>

\* The video is over, or mplayer dies; what it left unread waits for the next one
\* as long as the program has the FIFO open.
MplayerEnds == /\ mplayer = "reading"
               /\ mplayer' = "gone"
               /\ queue' = IF alive THEN queue ELSE <<>>
               /\ UNCHANGED <<fifo, fd_fifo, pc, alive, given>>

Next == \/ Thread \/ MakeFifo \/ StartedElsewhere \/ Obey \/ MplayerEnds
        \/ \E c \in Commands : CommandLost(c) \/ Command(c) \/ CommandKills(c)

Spec == Init /\ [][Next]_vars

-----------------------------------------------------------------------------
\* The mplayer that the thread starts is never the first to read commands: where the
\* FIFO is open when it starts, another one was there before (the thread has waited
\* in open for it), and where it is not, whenever it may be made, no command
\* reaches it.
NeverTheFirst == [][Popen /\ mplayer = "absent" => ~fd_fifo]_vars
=============================================================================
