------------------------- MODULE NetServers_proofs -------------------------
(***************************************************************************)
(* The commands that start and stop the servers, for pools of any size and *)
(* any ports, with clients that come and go between any two of their       *)
(* calls: what the shell loses, and what it can still reach.               *)
(***************************************************************************)
EXTENDS NetServers, FiniteSetTheorems, TLAPS

States == {"free", "new"} \cup Ports \cup Connections
Listening == [by : {"free", "echo", "iperf"}, port : Ports \cup {None}, accept : BOOLEAN]

\* The port of a command that has begun.
PortGiven == pc \in {"bind", "listen", "accept"} => port \in Ports

\* A pcb is new from tcp_new to tcp_bind, and the pointer leads to it.
NewIsHeld == \A i \in Pcbs : pcbs[i] = "new" => pc = "bind" /\ tcp_echoserver_pcb = i

\* One iperf server at most, and the handler knows it.
OneIperf == /\ \A j, k \in Servers("iperf") : j = k
            /\ Servers("iperf") # {} => iperf_handler

IInv == TypeOK /\ PortGiven /\ NewIsHeld /\ OneIperf

\* After orderly commands the echo server, if there is one, is the pointer's.
EchoHeld == orderly =>
    /\ pc \in {"bind", "listen"} => Servers("echo") = {}
    /\ pc \in {"shell", "accept", "close"} =>
          \A j \in Servers("echo") : tcp_echoserver_pcb = j
    /\ pc = "shell" => \A j \in Servers("echo") : listens[j].accept
    /\ pc = "close" => tcp_echoserver_pcb \in Servers("echo")

LEMMA Initially == Init => IInv /\ EchoHeld
<1> SUFFICES ASSUME Init PROVE IInv /\ EchoHeld
  OBVIOUS
<1>1. Free \in Listening
  BY DEF Free, Listening
<1>2. \A j \in Listens : listens[j].by = "free"
  BY DEF Init, Free
<1>3. \A who \in {"echo", "iperf"} : Servers(who) = {}
  BY <1>2 DEF Servers
<1> QED
  BY <1>1, <1>3, NetAssumption
     DEF Init, IInv, EchoHeld, TypeOK, PortGiven, NewIsHeld, OneIperf, Listening, Connections

-----------------------------------------------------------------------------
(* Types                                                                    *)

\* What lwIP and the clients do to the pools.
LEMMA ClientStep ==
    ASSUME IInv, NEW i \in Pcbs, Connect(i) \/ Disconnect(i) \/ IperfConnection(i)
    PROVE  IInv' /\ (EchoHeld => EchoHeld')
<1>1. PICK c \in {"free", "echo", "iperf"} :
          /\ pcbs' = [pcbs EXCEPT ![i] = c]
          /\ UNCHANGED <<listens, tcp_echoserver_pcb, iperf_handler, conn_state, pc, port, orderly>>
  BY DEF Connect, Disconnect, IperfConnection
<1>2. Servers("echo")' = Servers("echo") /\ Servers("iperf")' = Servers("iperf")
  BY <1>1 DEF Servers
<1>3. IInv'
  BY <1>1, <1>2 DEF IInv, TypeOK, PortGiven, NewIsHeld, OneIperf, Connections
<1>4. EchoHeld => EchoHeld'
  BY <1>1, <1>2 DEF EchoHeld
<1> QED
  BY <1>3, <1>4

LEMMA WifiStep == IInv /\ (Wifi \/ UNCHANGED vars) => IInv' /\ (EchoHeld => EchoHeld')
<1> SUFFICES ASSUME IInv, Wifi \/ UNCHANGED vars PROVE IInv' /\ (EchoHeld => EchoHeld')
  OBVIOUS
<1>1. /\ UNCHANGED <<pcbs, listens, tcp_echoserver_pcb, iperf_handler, pc, port, orderly>>
      /\ conn_state' \in BOOLEAN
  BY DEF Wifi, vars, IInv, TypeOK
<1>2. \A who : Servers(who)' = Servers(who)
  BY <1>1 DEF Servers
<1>3. IInv'
  BY <1>1, <1>2 DEF IInv, TypeOK, PortGiven, NewIsHeld, OneIperf
<1>4. EchoHeld => EchoHeld'
  BY <1>1, <1>2 DEF EchoHeld
<1> QED
  BY <1>3, <1>4

\* Servers after one listening pcb has changed its owner.
LEMMA OneTaken ==
    ASSUME listens \in [Listens -> Listening], NEW j \in Listens, NEW r \in Listening,
           listens' = [listens EXCEPT ![j] = r], NEW who
    PROVE  /\ listens' \in [Listens -> Listening]
           /\ Servers(who)' = IF r.by = who THEN Servers(who) \cup {j} ELSE Servers(who) \ {j}
<1>1. \A k \in Listens : listens'[k] = IF k = j THEN r ELSE listens[k]
  OBVIOUS
<1>2. listens' \in [Listens -> Listening]
  OBVIOUS
<1> QED
  BY <1>1, <1>2 DEF Servers

-----------------------------------------------------------------------------
(* echoserver <port>                                                        *)

LEMMA NewStep == ASSUME IInv, NEW p \in Ports, EchoNew(p)
                 PROVE  IInv' /\ (EchoHeld => EchoHeld')
<1>1. /\ pc = "shell" /\ port' = p /\ (orderly' => orderly /\ Servers("echo") = {}) /\ orderly' \in BOOLEAN
      /\ UNCHANGED <<listens, iperf_handler, conn_state>>
  BY DEF EchoNew, Command, Stays
<1>2. \A who \in {"echo", "iperf"} : Servers(who)' = Servers(who)
  BY <1>1 DEF Servers
<1>3. CASE \E i \in Pcbs : /\ CanTake(i)
                           /\ pcbs' = [pcbs EXCEPT ![i] = "new"]
                           /\ tcp_echoserver_pcb' = i
                           /\ pc' = "bind"
  BY <1>1, <1>2, <1>3 DEF IInv, TypeOK, PortGiven, NewIsHeld, OneIperf, EchoHeld
<1>4. CASE tcp_echoserver_pcb' = None /\ UNCHANGED <<pcbs, pc>>
  BY <1>1, <1>2, <1>4 DEF IInv, TypeOK, PortGiven, NewIsHeld, OneIperf, EchoHeld
<1> QED
  BY <1>3, <1>4 DEF EchoNew

LEMMA BindStep == IInv /\ EchoBind => IInv' /\ (EchoHeld => EchoHeld')
<1> SUFFICES ASSUME IInv, EchoBind PROVE IInv' /\ (EchoHeld => EchoHeld')
  OBVIOUS
<1>1. /\ pc = "bind" /\ tcp_echoserver_pcb \in Pcbs /\ port \in Ports
      /\ UNCHANGED <<listens, tcp_echoserver_pcb, iperf_handler, conn_state, port, orderly>>
  BY DEF EchoBind, Stays, IInv, TypeOK, PortGiven
<1>2. \A who \in {"echo", "iperf"} : Servers(who)' = Servers(who)
  BY <1>1 DEF Servers
<1>3. CASE pcbs' = [pcbs EXCEPT ![tcp_echoserver_pcb] = "free"] /\ pc' = "shell"
  BY <1>1, <1>2, <1>3 DEF IInv, TypeOK, PortGiven, NewIsHeld, OneIperf, EchoHeld
<1>4. CASE pcbs' = [pcbs EXCEPT ![tcp_echoserver_pcb] = port] /\ pc' = "listen"
  BY <1>1, <1>2, <1>4, NetAssumption
     DEF IInv, TypeOK, PortGiven, NewIsHeld, OneIperf, EchoHeld
<1> QED
  BY <1>3, <1>4 DEF EchoBind

LEMMA ListenStep == IInv /\ EchoListen => IInv' /\ (EchoHeld => EchoHeld')
<1> SUFFICES ASSUME IInv, EchoListen PROVE IInv' /\ (EchoHeld => EchoHeld')
  OBVIOUS
<1>1. /\ pc = "listen" /\ pc' = "accept" /\ tcp_echoserver_pcb \in Pcbs /\ port \in Ports
      /\ UNCHANGED <<iperf_handler, conn_state, port, orderly>>
  BY DEF EchoListen, Stays, IInv, TypeOK, PortGiven
<1>2. listens \in [Listens -> Listening]
  BY DEF IInv, TypeOK, Listening
<1>3. CASE tcp_echoserver_pcb' = None /\ UNCHANGED <<pcbs, listens>>
  BY <1>1, <1>3 DEF IInv, TypeOK, PortGiven, NewIsHeld, OneIperf, EchoHeld, Servers
<1>4. ASSUME NEW j \in Servers("free"),
             pcbs' = [pcbs EXCEPT ![tcp_echoserver_pcb] = "free"],
             listens' = [listens EXCEPT ![j] = [by |-> "echo", port |-> port, accept |-> FALSE]],
             tcp_echoserver_pcb' = j
      PROVE  IInv' /\ (EchoHeld => EchoHeld')
  <2>1. j \in Listens /\ listens[j].by = "free"
    BY DEF Servers
  <2>2. [by |-> "echo", port |-> port, accept |-> FALSE] \in Listening
    BY <1>1 DEF Listening
  <2>3. /\ listens' \in [Listens -> Listening]
        /\ Servers("echo")' = Servers("echo") \cup {j}
        /\ Servers("iperf")' = Servers("iperf") \ {j}
    BY <1>2, <1>4, <2>1, <2>2, OneTaken
  <2>4. pcbs' \in [Pcbs -> States] /\ \A i \in Pcbs : pcbs'[i] # "new"
    BY <1>1, <1>4 DEF IInv, TypeOK, NewIsHeld, States
  <2>5. TypeOK'
    BY <1>1, <1>4, <2>1, <2>3, <2>4 DEF IInv, TypeOK, Listening, States
  <2> QED
    BY <1>1, <1>4, <2>3, <2>4, <2>5 DEF IInv, PortGiven, NewIsHeld, OneIperf, EchoHeld
<1> QED
  BY <1>3, <1>4 DEF EchoListen

\* A record whose accept is set stays one of the same server.
LEMMA SetAccept ==
    ASSUME listens \in [Listens -> Listening], NEW A, NEW b \in BOOLEAN,
           listens' = [j \in Listens |-> IF j \in A THEN [listens[j] EXCEPT !.accept = b]
                                         ELSE listens[j]]
    PROVE  /\ listens' \in [Listens -> Listening]
           /\ \A j \in Listens : /\ listens'[j].by = listens[j].by
                                 /\ j \in A => listens'[j].accept = b
           /\ \A who : Servers(who)' = Servers(who)
<1>1. \A j \in Listens : listens'[j] = IF j \in A THEN [listens[j] EXCEPT !.accept = b]
                                       ELSE listens[j]
  OBVIOUS
<1>2. \A j \in Listens : listens'[j] \in Listening
  BY <1>1 DEF Listening
<1>3. \A j \in Listens : /\ listens'[j].by = listens[j].by
                         /\ j \in A => listens'[j].accept = b
  BY <1>1 DEF Listening
<1>4. \A who : Servers(who)' = Servers(who)
  BY <1>3 DEF Servers
<1> QED
  BY <1>2, <1>3, <1>4

LEMMA AcceptStep == IInv /\ EchoAccept => IInv' /\ (EchoHeld => EchoHeld')
<1> SUFFICES ASSUME IInv, EchoAccept PROVE IInv' /\ (EchoHeld => EchoHeld')
  OBVIOUS
<1>1. /\ pc = "accept" /\ pc' = "shell"
      /\ UNCHANGED <<pcbs, tcp_echoserver_pcb, iperf_handler, conn_state, port, orderly>>
  BY DEF EchoAccept, Stays
<1>2. listens \in [Listens -> Listening]
  BY DEF IInv, TypeOK, Listening
<1>3. listens' = [j \in Listens |-> IF j \in {tcp_echoserver_pcb}
                                    THEN [listens[j] EXCEPT !.accept = TRUE] ELSE listens[j]]
  BY DEF EchoAccept
<1>4. /\ listens' \in [Listens -> Listening]
      /\ \A j \in Listens : j \in {tcp_echoserver_pcb} => listens'[j].accept = TRUE
      /\ \A who : Servers(who)' = Servers(who)
  BY <1>2, <1>3, SetAccept
<1>5. TypeOK'
  BY <1>1, <1>4 DEF IInv, TypeOK, Listening
<1>6. PortGiven' /\ NewIsHeld' /\ OneIperf'
  BY <1>1, <1>4 DEF IInv, PortGiven, NewIsHeld, OneIperf
<1>7. EchoHeld => EchoHeld'
  BY <1>1, <1>4 DEF EchoHeld, Servers
<1> QED
  BY <1>5, <1>6, <1>7 DEF IInv

-----------------------------------------------------------------------------
(* echoserver stop                                                          *)

LEMMA UnsetStep == IInv /\ EchoUnset => IInv' /\ (EchoHeld => EchoHeld')
<1> SUFFICES ASSUME IInv, EchoUnset PROVE IInv' /\ (EchoHeld => EchoHeld')
  OBVIOUS
<1>1. /\ pc = "shell" /\ pc' = "close" /\ (orderly' => orderly /\ Servers("echo") # {})
      /\ orderly' \in BOOLEAN
      /\ UNCHANGED <<tcp_echoserver_pcb, iperf_handler, conn_state, port>>
  BY DEF EchoUnset, Command, Stays
<1>2. listens \in [Listens -> Listening]
  BY DEF IInv, TypeOK, Listening
<1> DEFINE A == {j \in Listens : j = tcp_echoserver_pcb /\ listens[j].by # "free"}
<1>3. listens' = [j \in Listens |-> IF j \in A THEN [listens[j] EXCEPT !.accept = FALSE]
                                    ELSE listens[j]]
  BY DEF EchoUnset
<1>4. listens' \in [Listens -> Listening] /\ \A who : Servers(who)' = Servers(who)
  BY <1>2, <1>3, SetAccept
<1>5. /\ pcbs' \in [Pcbs -> States]
      /\ \A i \in Pcbs : pcbs'[i] # "new"
  BY <1>1 DEF EchoUnset, IInv, TypeOK, NewIsHeld, States, Connections
<1>6. TypeOK'
  BY <1>1, <1>4, <1>5 DEF IInv, TypeOK, Listening, States
<1>7. PortGiven' /\ NewIsHeld' /\ OneIperf'
  BY <1>1, <1>4, <1>5 DEF IInv, PortGiven, NewIsHeld, OneIperf
<1>8. EchoHeld => EchoHeld'
  BY <1>1, <1>4 DEF EchoHeld
<1> QED
  BY <1>6, <1>7, <1>8 DEF IInv

LEMMA CloseStep == IInv /\ EchoClose => IInv' /\ (EchoHeld => EchoHeld')
<1> SUFFICES ASSUME IInv, EchoClose PROVE IInv' /\ (EchoHeld => EchoHeld')
  OBVIOUS
<1>1. /\ pc = "close" /\ pc' \in {"assert", "broken", "shell"}
      /\ pcbs' = [i \in Pcbs |-> IF i = tcp_echoserver_pcb THEN "free" ELSE pcbs[i]]
      /\ listens' = [j \in Listens |-> IF j = tcp_echoserver_pcb THEN Free ELSE listens[j]]
      /\ UNCHANGED <<tcp_echoserver_pcb, iperf_handler, conn_state, port, orderly>>
  BY DEF EchoClose, Stays
<1>2. listens \in [Listens -> Listening] /\ Free \in Listening /\ Free.by = "free"
  BY DEF IInv, TypeOK, Listening, Free
<1>3. /\ listens' \in [Listens -> Listening]
      /\ \A who \in {"echo", "iperf"} : Servers(who)' = Servers(who) \ {tcp_echoserver_pcb}
  BY <1>1, <1>2 DEF Servers
<1>4. pcbs' \in [Pcbs -> States] /\ \A i \in Pcbs : pcbs'[i] # "new"
  BY <1>1 DEF IInv, TypeOK, NewIsHeld, States
<1>5. TypeOK'
  BY <1>1, <1>3, <1>4 DEF IInv, TypeOK, Listening, States
<1>6. PortGiven' /\ NewIsHeld' /\ OneIperf'
  BY <1>1, <1>3, <1>4 DEF IInv, PortGiven, NewIsHeld, OneIperf
<1>7. EchoHeld => EchoHeld'
  BY <1>1, <1>3 DEF EchoHeld
<1> QED
  BY <1>5, <1>6, <1>7 DEF IInv

-----------------------------------------------------------------------------
(* iperf                                                                    *)

LEMMA IperfStep ==
    ASSUME IInv, \/ \E p \in Ports : IperfServer(p)
                 \/ IperfStop
    PROVE  IInv' /\ (EchoHeld => EchoHeld')
<1>1. listens \in [Listens -> Listening] /\ Free \in Listening /\ Free.by = "free"
  BY DEF IInv, TypeOK, Listening, Free
<1>2. ASSUME NEW p \in Ports, IperfServer(p) PROVE IInv' /\ (EchoHeld => EchoHeld')
  <2>1. /\ pc = "shell" /\ ~iperf_handler
        /\ UNCHANGED <<tcp_echoserver_pcb, conn_state, pc, port, orderly>>
    BY <1>2 DEF IperfServer, Command
  <2>2. Servers("iperf") = {}
    BY <2>1 DEF IInv, OneIperf
  <2>3. pcbs' \in [Pcbs -> States] /\ \A i \in Pcbs : pcbs'[i] # "new"
    BY <1>2, <2>1 DEF IperfServer, Served, NotServed, IInv, TypeOK, NewIsHeld, States
  <2>4. CASE NotServed(p) /\ iperf_handler' = FALSE
    BY <2>1, <2>2, <2>3, <2>4 DEF NotServed, IInv, TypeOK, States, PortGiven, NewIsHeld,
                                  OneIperf, EchoHeld, Servers
  <2>5. CASE Served(p) /\ iperf_handler' = TRUE
    <3> DEFINE r == [by |-> "iperf", port |-> p, accept |-> TRUE]
    <3>1. PICK j \in Servers("free") : listens' = [listens EXCEPT ![j] = r]
      BY <2>5 DEF Served
    <3>2. j \in Listens /\ r \in Listening /\ r.by = "iperf" /\ listens[j].by = "free"
      BY DEF Servers, Listening
    <3>3. /\ listens' \in [Listens -> Listening]
          /\ Servers("echo")' = Servers("echo") \ {j}
          /\ Servers("iperf")' = Servers("iperf") \cup {j}
      BY <1>1, <3>1, <3>2, OneTaken
    <3>4. j \notin Servers("echo") /\ \A k \in Listens : k # j => listens'[k] = listens[k]
      BY <1>1, <3>1, <3>2 DEF Servers
    <3>5. TypeOK'
      BY <2>1, <2>3, <2>5, <3>3 DEF IInv, TypeOK, Listening, States
    <3>6. EchoHeld => EchoHeld'
      BY <2>1, <3>3, <3>4 DEF EchoHeld, Servers
    <3> QED
      BY <2>1, <2>2, <2>3, <2>5, <3>3, <3>5, <3>6 DEF IInv, PortGiven, NewIsHeld, OneIperf
  <2> QED
    BY <1>2, <2>4, <2>5 DEF IperfServer
<1>4. CASE IperfStop
  <2>1. /\ pc = "shell"
        /\ listens' = [j \in Listens |-> IF listens[j].by = "iperf" THEN Free ELSE listens[j]]
        /\ UNCHANGED <<pcbs, tcp_echoserver_pcb, iperf_handler, conn_state, pc, port, orderly>>
    BY <1>4 DEF IperfStop, Command
  <2>2. /\ listens' \in [Listens -> Listening]
        /\ Servers("iperf")' = {} /\ Servers("echo")' = Servers("echo")
        /\ \A j \in Servers("echo") : listens'[j] = listens[j]
    BY <1>1, <2>1 DEF Servers
  <2>3. TypeOK'
    BY <2>1, <2>2 DEF IInv, TypeOK, Listening
  <2>4. PortGiven' /\ NewIsHeld' /\ OneIperf'
    BY <2>1, <2>2 DEF IInv, PortGiven, NewIsHeld, OneIperf
  <2>5. EchoHeld => EchoHeld'
    BY <2>1, <2>2 DEF EchoHeld
  <2> QED
    BY <2>3, <2>4, <2>5 DEF IInv
<1> QED
  BY <1>2, <1>4

LEMMA Inductive == IInv /\ [Next]_vars => IInv' /\ (EchoHeld => EchoHeld')
BY ClientStep, WifiStep, NewStep, BindStep, ListenStep, AcceptStep, UnsetStep, CloseStep,
   IperfStep DEF Next

-----------------------------------------------------------------------------

\* tcp_bind and tcp_listen are always called with a pcb of the pool.
THEOREM PointerTypes == Spec => []TypeOK
<1>1. IInv => TypeOK
  BY DEF IInv
<1> QED
  BY <1>1, Initially, Inductive, PTL DEF Spec

\* tcp_echoserver_init gives back the pcb that it cannot bind, and no other step
\* loses one that is neither bound nor connected.
THEOREM NoPcbIsLost == Spec => []NoPcbLost
<1>1. IInv => NoPcbLost
  BY DEF IInv, NewIsHeld, NoPcbLost
<1> QED
  BY <1>1, Initially, Inductive, PTL DEF Spec

\* cmd_iperf starts no second server, and keeps the handler of the one it started.
THEOREM IperfIsKnown == Spec => []IperfKnown
<1>1. IInv => IperfKnown
  <2> SUFFICES ASSUME IInv PROVE IperfKnown
    OBVIOUS
  <2>1. CASE Servers("iperf") = {}
    BY <2>1, FS_EmptySet DEF IperfKnown
  <2>2. ASSUME NEW j \in Servers("iperf") PROVE IperfKnown
    <3>1. Servers("iperf") = {j} /\ iperf_handler
      BY DEF IInv, OneIperf
    <3> QED
      BY <3>1, FS_Singleton DEF IperfKnown
  <2> QED
    BY <2>1, <2>2
<1> QED
  BY <1>1, Initially, Inductive, PTL DEF Spec

\* When echoserver is stopped before it is started again, the server that runs
\* can be stopped, and it takes clients; and what stop closes is that server: the
\* element of the pool it had was not given to anybody else while it was there.
THEOREM EchoReachable == Spec => []ServerReachable
<1>1. EchoHeld => ServerReachable
  BY DEF EchoHeld, ServerReachable
<1> QED
  BY <1>1, Initially, Inductive, PTL DEF Spec
=============================================================================
