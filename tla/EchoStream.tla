----------------------------- MODULE EchoStream -----------------------------
(***************************************************************************)
(* What an echo server promises to one client after the other: the client  *)
(* gets back what it has sent, in order, until the connection ends.        *)
(***************************************************************************)
EXTENDS Naturals, Sequences

CONSTANT Packets

VARIABLES got,      \* what the server has received
          echoed    \* what it has sent back

StreamInit == got = <<>> /\ echoed = <<>>

Receive(s) == got' = got \o s /\ UNCHANGED echoed

Echo == /\ Len(echoed) < Len(got)
        /\ echoed' = Append(echoed, got[Len(echoed) + 1])
        /\ UNCHANGED got

\* The connection ends, and the next one begins.
Restart == got' = <<>> /\ echoed' = <<>>

StreamNext == Echo \/ Restart \/ \E p, q \in Packets : Receive(<<p>>) \/ Receive(<<p, q>>)

StreamSpec == StreamInit /\ [][StreamNext]_<<got, echoed>>
=============================================================================
