---------------------------- MODULE SocketServer ----------------------------
(***************************************************************************)
(* iperf/echoserver-socket.c: the command that serves one client and       *)
(* returns, called again and again.  The sockets are external: a table of  *)
(* descriptors, ports that one socket can be bound to, and that stay       *)
(* occupied for a while (TIME_WAIT) after a connection that the server was *)
(* the first to close.                                                     *)
(***************************************************************************)
EXTENDS Naturals, FiniteSets

CONSTANTS Fds, Ports,
          Ephemeral,    \* a port the kernel chooses for a socket without one
          None          \* -1

VARIABLES fds,          \* of each descriptor: "closed", "unbound", the port it is
                        \* bound to, or "client"
          timewait,     \* the ports in TIME_WAIT
          socketFd, clientFd, port,     \* the local variables
          pc,           \* the next call
          failures      \* history: the accepts that failed on a socket

vars == <<fds, timewait, socketFd, clientFd, port, pc, failures>>

Init == /\ fds = [f \in Fds |-> "closed"] /\ timewait = {}
        /\ socketFd = None /\ clientFd = None /\ port = Ephemeral
        /\ pc = "shell" /\ failures = 0

At(from, to) == pc = from /\ pc' = to
Bound(p) == p \in timewait \/ \E f \in Fds : fds[f] = p

\* With one argument; otherwise the command prints its usage and returns.
Command(p) == /\ At("shell", "socket")
              /\ port' = p
              /\ UNCHANGED <<fds, timewait, socketFd, clientFd, failures>>

\* "Open socket failed", and on it goes.
Socket == /\ At("socket", "bind")
          /\ \/ \E f \in Fds : /\ fds[f] = "closed"
                               /\ socketFd' = f /\ fds' = [fds EXCEPT ![f] = "unbound"]
             \/ /\ \A f \in Fds : fds[f] # "closed"
                /\ socketFd' = None /\ UNCHANGED fds
          /\ UNCHANGED <<timewait, clientFd, port, failures>>

\* "Binding error", and on it goes.
Bind == /\ At("bind", "listen")
        /\ fds' = [f \in Fds |-> IF f = socketFd /\ ~Bound(port) THEN port ELSE fds[f]]
        /\ UNCHANGED <<timewait, socketFd, clientFd, port, failures>>

\* A socket that is not bound is bound to some port.
Listen == /\ At("listen", "accept")
          /\ fds' = [f \in Fds |-> IF f = socketFd /\ fds[f] = "unbound"
                                   THEN Ephemeral ELSE fds[f]]
          /\ UNCHANGED <<timewait, socketFd, clientFd, port, failures>>

\* Waits for a client.
Accept == /\ At("accept", "recv")
          /\ socketFd # None
          /\ \E f \in Fds : /\ fds[f] = "closed"
                            /\ clientFd' = f /\ fds' = [fds EXCEPT ![f] = "client"]
          /\ UNCHANGED <<timewait, socketFd, port, failures>>

\* "Accept error": no descriptor is left, a signal came, the client is gone, or
\* there is no socket.
AcceptFails == /\ At("accept", "shell")
               /\ failures' = (IF socketFd = None THEN failures ELSE failures + 1)
               /\ UNCHANGED <<fds, timewait, socketFd, clientFd, port>>

\* recv and send, whatever they return.
Echo == /\ At("recv", "close")
        /\ UNCHANGED <<fds, timewait, socketFd, clientFd, port, failures>>

\* Mutant: only the client's socket is closed.
CloseClient == /\ At("close", "shell")
               /\ fds' = [fds EXCEPT ![clientFd] = "closed"]
               /\ timewait' \in {timewait, timewait \cup (Ports \cap {fds[socketFd]})}
               /\ UNCHANGED <<socketFd, clientFd, port, failures>>

\* The client's socket and then the server's; unless the client has closed its
\* end before, the port goes to TIME_WAIT.
Close == /\ At("close", "shell")
         /\ fds' = [fds EXCEPT ![clientFd] = "closed", ![socketFd] = "closed"]
         /\ timewait' \in {timewait, timewait \cup (Ports \cap {fds[socketFd]})}
         /\ UNCHANGED <<socketFd, clientFd, port, failures>>

Expires(p) == /\ p \in timewait
              /\ timewait' = timewait \ {p}
              /\ UNCHANGED <<fds, socketFd, clientFd, port, pc, failures>>

Next == \/ Socket \/ Bind \/ Listen \/ Accept \/ AcceptFails \/ Echo \/ Close
        \/ \E p \in Ports : Command(p) \/ Expires(p)

Spec == Init /\ [][Next]_vars
-----------------------------------------------------------------------------
\* After any number of commands the only descriptors that stay open are the
\* listening sockets of the accepts that failed, also when the table is full.
FdsReturned ==
    pc = "shell" => /\ Cardinality({f \in Fds : fds[f] # "closed"}) = failures
                    /\ \A f \in Fds : fds[f] # "client"
=============================================================================
