----------------------------- MODULE EchoServer -----------------------------
(***************************************************************************)
(* iperf/echoserver.c: the callbacks of one connection after the other.    *)
(* lwIP calls them one at a time; a callback that sends goes through the   *)
(* loop of tcp_echoserver_send, one round per step.  lwIP is external:     *)
(* pbufs have reference counts, tcp_write takes a pbuf if the send buffer  *)
(* has room and may fail, the peer acknowledges.                           *)
(***************************************************************************)
EXTENDS Integers, Sequences

CONSTANTS MaxPbufs,     \* bound: pbufs that arrive
          SndBuf,       \* the pbufs that fit in the send buffer
          Window        \* the pbufs that fit in the receive window

ASSUME EchoAssumption ==
    MaxPbufs \in Nat /\ SndBuf \in Nat \ {0} /\ Window \in Nat \ {0}

VARIABLES state,        \* es->state, "none" when there is no connection
          chain,        \* the pbufs that es->p leads to
          ref,          \* the reference count of each pbuf
          unacked,      \* the number of pbufs in the send buffer
          unread,       \* the number of pbufs that were not given to tcp_recved
          pc,           \* "sending" in the loop of tcp_echoserver_send
          n,            \* the number of pbufs that have arrived
          got, echoed,  \* history: what this connection's client has sent, and been sent
          lost          \* history: the pbufs the server let go of unsent

vars == <<state, chain, ref, unacked, unread, pc, n, got, echoed, lost>>

Pbufs == 1..MaxPbufs
Chained == {chain[i] : i \in DOMAIN chain}

Init == /\ state = "none" /\ pc = "lwip"
        /\ chain = <<>> /\ unacked = 0 /\ unread = 0
        /\ ref = [p \in Pbufs |-> 0] /\ n = 0
        /\ got = <<>> /\ echoed = <<>> /\ lost = {}

\* tcp_echoserver_accept; without memory for es the connection is refused.
Accept == /\ state = "none"
          /\ state' = "accepted"
          /\ chain' = <<>> /\ unacked' = 0 /\ unread' = 0
          /\ got' = <<>> /\ echoed' = <<>>
          /\ UNCHANGED <<ref, pc, n, lost>>

-----------------------------------------------------------------------------
(* pbufs                                                                    *)

\* pbuf_free goes down the chain as long as the counts fall to 0.
PbufFree(c, r) ==
    LET down == {i \in DOMAIN c : \A j \in 1..i - 1 : r[c[j]] = 1}
    IN  [p \in Pbufs |-> IF \E i \in down : c[i] = p THEN r[p] - 1 ELSE r[p]]

\* Mutant: the rest of the chain is not referenced first.
TakenOffUnreferenced == PbufFree(chain, [ref EXCEPT ![Head(chain)] = 1])

\* The rest of the chain gets a reference, and the head is freed until it is gone.
TakenOff ==
    LET kept == IF Len(chain) > 1 THEN [ref EXCEPT ![chain[2]] = @ + 1] ELSE ref
    IN  PbufFree(chain, [kept EXCEPT ![Head(chain)] = 1])

-----------------------------------------------------------------------------
(* tcp_echoserver_send                                                      *)

Busy == UNCHANGED <<state, n, got, lost>>

\* Mutant: the whole chain (tot_len) has to fit, and not its first pbuf (len).
CanWriteAll == pc = "sending" /\ chain # <<>> /\ unacked + Len(chain) <= SndBuf

CanWrite == pc = "sending" /\ chain # <<>> /\ unacked < SndBuf

SendRound == /\ CanWrite
             /\ chain' = Tail(chain)
             /\ ref' = TakenOff
             /\ echoed' = Append(echoed, Head(chain))
             /\ unacked' = unacked + 1
             /\ unread' = unread - 1
             /\ Busy /\ UNCHANGED pc

\* tcp_write returns ERR_MEM or another error: what is left stays in es->p.
SendFails == /\ CanWrite
             /\ pc' = "lwip"
             /\ Busy /\ UNCHANGED <<chain, ref, echoed, unacked, unread>>

SendDone == /\ pc = "sending" /\ ~CanWrite
            /\ pc' = "lwip"
            /\ Busy /\ UNCHANGED <<chain, ref, echoed, unacked, unread>>

-----------------------------------------------------------------------------
(* tcp_echoserver_recv: a pbuf arrives, or a chain of two                   *)

Connected == state # "none" /\ pc = "lwip"
Arrived(k) == [i \in 1..k |-> n + i]
Referenced(k) == [p \in Pbufs |-> IF p \in n + 1..n + k THEN 1 ELSE ref[p]]

\* Mutant: after data have arrived, what is left unsent gives way to them.
RecvReplaces(k) == /\ Connected /\ state # "closing" /\ unread + k <= Window
                   /\ state' = "received" /\ pc' = "sending"
                   /\ chain' = Arrived(k)
                   /\ ref' = Referenced(k)
                   /\ n' = n + k /\ unread' = unread + k /\ got' = got \o Arrived(k)
                   /\ UNCHANGED <<unacked, echoed, lost>>

\* The first pbuf, or all before it have been sent: it is sent at once.
\* Otherwise pbuf_chain appends it, with a reference of the chain's own.
Recv(k) == /\ Connected /\ state # "closing" /\ unread + k <= Window
           /\ state' = "received"
           /\ chain' = chain \o Arrived(k)
           /\ IF chain = <<>>
                 THEN ref' = Referenced(k) /\ pc' = "sending"
                 ELSE ref' = [Referenced(k) EXCEPT ![n + 1] = 2] /\ UNCHANGED pc
           /\ n' = n + k /\ unread' = unread + k /\ got' = got \o Arrived(k)
           /\ UNCHANGED <<unacked, echoed, lost>>

\* With an error, or after the end of the stream, the pbuf is freed, and the
\* queue is forgotten.
RecvDropped(k) == /\ Connected /\ unread + k <= Window
                  /\ \/ UNCHANGED state /\ unread' = unread + k
                     \/ state = "closing" /\ UNCHANGED <<state, unread>>
                  /\ chain' = <<>>
                  /\ lost' = lost \cup Chained \cup n + 1..n + k
                  /\ n' = n + k /\ got' = got \o Arrived(k)
                  /\ UNCHANGED <<ref, unacked, pc, echoed>>

\* tcp_echoserver_connection_close: es is freed, and lwIP sends what it has.
Close == /\ state' = "none"
         /\ UNCHANGED <<chain, ref, unacked, unread, pc, n, got, echoed, lost>>

\* Mutant: the end of the stream closes the connection at once.
RecvEndCloses == /\ Connected /\ state # "closing"
                 /\ Close

\* The end of the stream: close now, or once the queue is sent.
RecvEnd == /\ Connected /\ state # "closing"
           /\ IF chain = <<>> THEN Close
              ELSE /\ state' = "closing" /\ pc' = "sending"
                   /\ UNCHANGED <<chain, ref, unacked, unread, n, got, echoed, lost>>

-----------------------------------------------------------------------------
(* The other callbacks                                                      *)

\* tcp_echoserver_sent: the peer has acknowledged some of the send buffer.
Sent(k) == /\ Connected /\ k <= unacked
           /\ unacked' = unacked - k
           /\ \/ chain # <<>> /\ pc' = "sending" /\ UNCHANGED state
              \/ chain = <<>> /\ state = "closing" /\ state' = "none" /\ UNCHANGED pc
              \/ chain = <<>> /\ state # "closing" /\ UNCHANGED <<state, pc>>
           /\ UNCHANGED <<chain, ref, unread, n, got, echoed, lost>>

\* tcp_echoserver_poll
Poll == /\ Connected
        /\ \/ /\ chain # <<>>
              /\ pc' = "sending"
              /\ UNCHANGED <<state, chain, ref, unacked, unread, n, got, echoed, lost>>
           \/ chain = <<>> /\ state = "closing" /\ Close

\* tcp_echoserver_error: lwIP has freed the pcb; es is freed, its pbufs are not.
Error == /\ Connected
         /\ state' = "none"
         /\ chain' = <<>>
         /\ lost' = lost \cup Chained
         /\ UNCHANGED <<ref, unacked, unread, pc, n, got, echoed>>

Send == SendRound \/ SendFails \/ SendDone
AnySent == \E k \in 1..SndBuf : Sent(k)
Next == \/ Accept \/ Send
        \/ \E k \in 1..2 : n + k <= MaxPbufs /\ (Recv(k) \/ RecvDropped(k))
        \/ RecvEnd \/ AnySent \/ Poll \/ Error

Spec == Init /\ [][Next]_vars

-----------------------------------------------------------------------------
Elements(s) == {s[i] : i \in DOMAIN s}

TypeOK == /\ state \in {"none", "accepted", "received", "closing"}
          /\ pc \in {"lwip", "sending"}
          /\ chain \in Seq(Pbufs) /\ got \in Seq(Pbufs) /\ echoed \in Seq(Pbufs)
          /\ ref \in [Pbufs -> Nat]
          /\ unacked \in 0..SndBuf /\ unread \in 0..Window
          /\ n \in 0..MaxPbufs
          /\ lost \subseteq Pbufs

\* Nothing that es->p leads to has been freed: not by the loop that frees the
\* head of the chain until it is gone, whatever references pbuf_chain took.
NoUseAfterFree == \A p \in Chained : ref[p] > 0

\* A pbuf that is neither queued nor forgotten with its connection is freed:
\* the additional references of pbuf_chain and of the loop are given back.
NoLeak == \A p \in Pbufs : ref[p] > 0 => p \in Chained \cup lost

\* A pbuf is freed when it is sent, and not before, and only what was forgotten
\* with its connection never is.
PbufsCounted == NoUseAfterFree /\ NoLeak

\* While nothing is lost the client is sent what it sent, in order, and what it
\* has not yet been sent is in the queue, with a window to match.
Intact == Elements(got) \cap lost = {}
Whole == state # "none" /\ Intact
InOrder == Whole => got = echoed \o chain /\ unread = Len(chain)

\* However a connection ends, what the client has sent was echoed, or it was
\* let go of: in the queue when an error struck, or when data came with one.
EndAccounts == state = "none" => Elements(got) \subseteq Elements(echoed) \cup lost

\* A connection that has lost data counts as one that has ended.
Stream == INSTANCE EchoStream WITH Packets <- Pbufs,
                                   got <- IF Intact THEN got ELSE <<>>,
                                   echoed <- IF Intact THEN echoed ELSE <<>>

\* The callbacks implement the stream of EchoStream, until data are lost: to an
\* error of the connection, or of lwIP when it hands data over.
ImplementsStream == Stream!StreamSpec

-----------------------------------------------------------------------------
(* lwIP's slow timer polls every connection, the peer acknowledges, and     *)
(* memory for tcp_write is short only now and then.                         *)
FairSpec == /\ Spec
            /\ WF_vars(Send) /\ SF_vars(SendRound)
            /\ SF_vars(AnySent) /\ SF_vars(Poll)

\* What is queued does not stay queued, although the one callback that queued
\* it returned long ago: a full send buffer and a failed tcp_write are retried.
EveryPbufLeaves == \A p \in Pbufs : p \in Chained ~> p \notin Chained

\* A connection whose client has ended its stream is closed.
Closes == state = "closing" ~> state = "none"

\* The queue drains, also when the client has gone.
Drains == EveryPbufLeaves /\ Closes
=============================================================================
