----------------------------- MODULE NetServers -----------------------------
(***************************************************************************)
(* iperf/echoserver.c (init, deinit, accept) and iperf/iperf.c: the shell  *)
(* commands that start and stop servers, over the pools and the ports of   *)
(* lwIP that they share.  The shell calls lwIP's raw functions one after   *)
(* the other, and clients come and go between any two calls.  lwIP is      *)
(* external: a pool of pcbs, a pool of listening pcbs, a port that only    *)
(* one pcb can be bound to.                                                *)
(***************************************************************************)
EXTENDS Integers, FiniteSets

CONSTANTS Pcbs, Listens,    \* the elements of the two pools
          Ports,
          None              \* NULL

ASSUME NetAssumption ==
    /\ None \notin Pcbs \cup Listens /\ Pcbs \cap Listens = {}
    /\ Ports \cap {"free", "new", "echo", "echo without es", "iperf"} = {}

VARIABLES pcbs,                 \* what each pcb is: "free", "new", a port it is
                                \* bound to, or a connection
          listens,              \* [by, port, accept] of each listening pcb, or "free"
          tcp_echoserver_pcb,   \* an element of a pool, freed or not, or None
          iperf_handler,        \* whether it is not NULL
          conn_state,           \* of the wifi
          pc,                   \* the shell's next step
          port,                 \* the argument of tcp_echoserver_init
          orderly               \* history: echoserver was started only when it did
                                \* not run, and stopped only when it did

vars == <<pcbs, listens, tcp_echoserver_pcb, iperf_handler, conn_state, pc, port,
          orderly>>

Connections == {"echo", "echo without es", "iperf"}
Free == [by |-> "free", port |-> None, accept |-> FALSE]

Init == /\ pcbs = [i \in Pcbs |-> "free"]
        /\ listens = [j \in Listens |-> Free]
        /\ tcp_echoserver_pcb = None /\ iperf_handler = FALSE
        /\ conn_state = FALSE
        /\ pc = "shell" /\ port = None
        /\ orderly = TRUE

Servers(who) == {j \in Listens : listens[j].by = who}

-----------------------------------------------------------------------------
(* lwIP                                                                     *)

Bound(p) == \/ \E i \in Pcbs : pcbs[i] = p
            \/ \E j \in Listens : listens[j].port = p

\* A free pcb or, without one, that of an echo connection, which has the lowest
\* priority (tcp_setprio) and is killed.
CanTake(i) == \/ pcbs[i] = "free"
              \/ /\ \A k \in Pcbs : pcbs[k] # "free"
                 /\ pcbs[i] \in {"echo", "echo without es"}

\* A client of the echo server; tcp_echoserver_accept refuses it without memory.
Connect(i) == /\ \E j \in Servers("echo") : listens[j].accept
              /\ CanTake(i)
              /\ pcbs' = [pcbs EXCEPT ![i] = "echo"]
              /\ UNCHANGED <<listens, tcp_echoserver_pcb, iperf_handler, conn_state, pc, port, orderly>>

\* A connection ends, in one of the ways of EchoServer or lwiperf; a poll without
\* es aborts it.
Disconnect(i) == /\ pcbs[i] \in Connections
                 /\ pcbs' = [pcbs EXCEPT ![i] = "free"]
                 /\ UNCHANGED <<listens, tcp_echoserver_pcb, iperf_handler, conn_state, pc, port, orderly>>

Wifi == /\ conn_state' = ~conn_state
        /\ UNCHANGED <<pcbs, listens, tcp_echoserver_pcb, iperf_handler, pc, port, orderly>>

-----------------------------------------------------------------------------
(* echoserver <port>: tcp_echoserver_init                                   *)

Command == pc = "shell" /\ conn_state
Stays == UNCHANGED <<iperf_handler, conn_state>>

\* Without a pcb there is no server, and the pointer is NULL.
EchoNew(p) ==
    /\ Command
    /\ \/ \E i \in Pcbs : /\ CanTake(i)
                          /\ pcbs' = [pcbs EXCEPT ![i] = "new"]
                          /\ tcp_echoserver_pcb' = i
                          /\ pc' = "bind"
       \/ /\ ~\E i \in Pcbs : CanTake(i)
          /\ tcp_echoserver_pcb' = None
          /\ UNCHANGED <<pcbs, pc>>
    /\ port' = p
    /\ orderly' = (orderly /\ Servers("echo") = {})
    /\ Stays /\ UNCHANGED listens

\* The pcb that could not be bound is freed, and the pointer still leads to it.
EchoBind ==
    /\ pc = "bind"
    /\ IF Bound(port)
          THEN pcbs' = [pcbs EXCEPT ![tcp_echoserver_pcb] = "free"] /\ pc' = "shell"
          ELSE pcbs' = [pcbs EXCEPT ![tcp_echoserver_pcb] = port] /\ pc' = "listen"
    /\ Stays /\ UNCHANGED <<listens, tcp_echoserver_pcb, port, orderly>>

\* Mutant: the listening pcb that replaces the bound one is not kept.
EchoListenKeepsOld ==
    /\ pc = "listen"
    /\ \E j \in Servers("free") :
          /\ pcbs' = [pcbs EXCEPT ![tcp_echoserver_pcb] = "free"]
          /\ listens' = [listens EXCEPT ![j] = [by |-> "echo", port |-> port, accept |-> FALSE]]
    /\ pc' = "accept"
    /\ Stays /\ UNCHANGED <<tcp_echoserver_pcb, port, orderly>>

\* tcp_listen takes a listening pcb and frees the other one; without a listening
\* pcb it returns NULL, and the other stays bound.
EchoListen ==
    /\ pc = "listen"
    /\ \/ \E j \in Servers("free") :
             /\ pcbs' = [pcbs EXCEPT ![tcp_echoserver_pcb] = "free"]
             /\ listens' = [listens EXCEPT ![j] =
                               [by |-> "echo", port |-> port, accept |-> FALSE]]
             /\ tcp_echoserver_pcb' = j
       \/ /\ Servers("free") = {}
          /\ tcp_echoserver_pcb' = None
          /\ UNCHANGED <<pcbs, listens>>
    /\ pc' = "accept"
    /\ Stays /\ UNCHANGED <<port, orderly>>

EchoAccept ==
    /\ pc = "accept"
    /\ listens' = [j \in Listens |-> IF j = tcp_echoserver_pcb
                                     THEN [listens[j] EXCEPT !.accept = TRUE] ELSE listens[j]]
    /\ pc' = "shell"
    /\ Stays /\ UNCHANGED <<pcbs, tcp_echoserver_pcb, port, orderly>>

-----------------------------------------------------------------------------
(* echoserver stop: tcp_echoserver_deinit                                   *)

\* tcp_arg, which may hit a connection, and tcp_accept.
EchoUnset ==
    /\ Command
    /\ pcbs' = [i \in Pcbs |-> IF i = tcp_echoserver_pcb /\ pcbs[i] = "echo"
                               THEN "echo without es" ELSE pcbs[i]]
    /\ listens' = [j \in Listens |-> IF j = tcp_echoserver_pcb /\ listens[j].by # "free"
                                     THEN [listens[j] EXCEPT !.accept = FALSE] ELSE listens[j]]
    /\ pc' = "close"
    /\ orderly' = (orderly /\ Servers("echo") # {})
    /\ Stays /\ UNCHANGED <<tcp_echoserver_pcb, port>>

\* tcp_close of what the pointer leads to.  NULL is an error, which the assertion
\* does not pass; a pcb that is free is freed again, and the pool is broken.
EchoClose ==
    LET at == tcp_echoserver_pcb IN
    /\ pc = "close"
    /\ pcbs' = [i \in Pcbs |-> IF i = at THEN "free" ELSE pcbs[i]]
    /\ listens' = [j \in Listens |-> IF j = at THEN Free ELSE listens[j]]
    /\ pc' = (IF at = None THEN "assert"
              ELSE IF (at \in Pcbs /\ pcbs[at] = "free") \/ at \in Servers("free") THEN "broken"
              ELSE "shell")
    /\ Stays /\ UNCHANGED <<tcp_echoserver_pcb, port, orderly>>

-----------------------------------------------------------------------------
(* iperf                                                                    *)

\* lwiperf has the server listen, or frees its pcb and returns NULL.
Served(p) ==
    \E i \in Pcbs :
       /\ CanTake(i) /\ pcbs' = [pcbs EXCEPT ![i] = "free"]
       /\ ~Bound(p)
       /\ \E j \in Servers("free") :
             listens' = [listens EXCEPT ![j] = [by |-> "iperf", port |-> p, accept |-> TRUE]]
NotServed(p) ==
    /\ \/ \E i \in Pcbs : CanTake(i) /\ pcbs' = [pcbs EXCEPT ![i] = "free"]
       \/ ~(\E i \in Pcbs : CanTake(i)) /\ UNCHANGED pcbs
    /\ (\E i \in Pcbs : CanTake(i)) => Bound(p) \/ Servers("free") = {}
    /\ UNCHANGED listens

\* Mutant: the handler is not looked at.
IperfServerAnyway(p) ==
    /\ Command
    /\ \/ Served(p) /\ iperf_handler' = TRUE
       \/ NotServed(p) /\ iperf_handler' = FALSE
    /\ UNCHANGED <<tcp_echoserver_pcb, conn_state, pc, port, orderly>>

\* iperf server; with a handler, "Iperf server is running" and nothing else.
IperfServer(p) ==
    /\ Command /\ ~iperf_handler
    /\ \/ Served(p) /\ iperf_handler' = TRUE
       \/ NotServed(p) /\ iperf_handler' = FALSE
    /\ UNCHANGED <<tcp_echoserver_pcb, conn_state, pc, port, orderly>>

\* iperf client: a connection of lwiperf's, also of one to an iperf server.
IperfConnection(i) ==
    /\ Command \/ \E j \in Servers("iperf") : listens[j].accept
    /\ CanTake(i)
    /\ pcbs' = [pcbs EXCEPT ![i] = "iperf"]
    /\ UNCHANGED <<listens, tcp_echoserver_pcb, iperf_handler, conn_state, pc, port, orderly>>

\* iperf stop: the server stops listening, the handler stays.
IperfStop ==
    /\ Command /\ iperf_handler
    /\ listens' = [j \in Listens |-> IF listens[j].by = "iperf" THEN Free ELSE listens[j]]
    /\ UNCHANGED <<pcbs, tcp_echoserver_pcb, iperf_handler, conn_state, pc, port, orderly>>

Next == \/ \E p \in Ports : EchoNew(p) \/ IperfServer(p)
        \/ EchoBind \/ EchoListen \/ EchoAccept \/ EchoUnset \/ EchoClose
        \/ IperfStop \/ Wifi
        \/ \E i \in Pcbs : Connect(i) \/ Disconnect(i) \/ IperfConnection(i)

Spec == Init /\ [][Next]_vars
-----------------------------------------------------------------------------
\* tcp_bind and tcp_listen are called with a pcb.
TypeOK ==
    /\ pcbs \in [Pcbs -> {"free", "new"} \cup Ports \cup Connections]
    /\ listens \in [Listens -> [by : {"free", "echo", "iperf"},
                                port : Ports \cup {None}, accept : BOOLEAN]]
    /\ tcp_echoserver_pcb \in IF pc \in {"bind", "listen"} THEN Pcbs
                              ELSE Pcbs \cup Listens \cup {None}
    /\ iperf_handler \in BOOLEAN /\ conn_state \in BOOLEAN
    /\ pc \in {"shell", "bind", "listen", "accept", "close", "assert", "broken"}
    /\ port \in Ports \cup {None}
    /\ orderly \in BOOLEAN

\* Whatever the order of starts and stops, of either command, no command leaves
\* a pcb behind that is neither bound nor a connection.
NoPcbLost == pc = "shell" => \A i \in Pcbs : pcbs[i] # "new"

\* There is one iperf server at most, and while there is one iperf_handler leads
\* to it, so that it can be stopped: also when its port is the echo server's.
IperfKnown == /\ Cardinality(Servers("iperf")) <= 1
              /\ Servers("iperf") # {} => iperf_handler

\* "Iperf server is running", which iperf server answers while there is a handler.
RunningMeansRuns == iperf_handler => Servers("iperf") # {}

\* As long as the commands were orderly, an echo server that runs is the one
\* that tcp_echoserver_pcb leads to, and it takes connections; and stop closes an
\* echo server: not a connection or an iperf server that has come to the same
\* place in the pool.
ServerReachable == orderly =>
    /\ pc = "shell" =>
          \A j \in Servers("echo") : tcp_echoserver_pcb = j /\ listens[j].accept
    /\ pc = "close" => tcp_echoserver_pcb \in Servers("echo")
=============================================================================
