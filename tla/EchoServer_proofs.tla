------------------------- MODULE EchoServer_proofs -------------------------
(***************************************************************************)
(* What the callbacks of the echo server do to their pbufs, for any number *)
(* of them and any sizes of the buffers: they free what they have sent and *)
(* nothing else, and they echo in order.  Everything rests on one fact:    *)
(* the queue is always the latest pbufs that have arrived, one after the   *)
(* other, so that no pbuf is in it twice.                                  *)
(***************************************************************************)
EXTENDS EchoServer, SequenceTheorems, TLAPS

Latest == \A i \in 1..Len(chain) : chain[i] = n - Len(chain) + i
Idle == state = "none" => chain = <<>> /\ pc = "lwip"
QueueInv == /\ TypeOK /\ Latest /\ Idle /\ NoUseAfterFree /\ NoLeak
            /\ Len(chain) <= unread

-----------------------------------------------------------------------------
(* The queue                                                                *)

\* The queue as a function, and that its elements differ.
LEMMA QueueFacts ==
    ASSUME TypeOK, Latest
    PROVE  /\ Len(chain) \in Nat /\ DOMAIN chain = 1..Len(chain)
           /\ \A i \in 1..Len(chain) : chain[i] \in Pbufs
           /\ chain # <<>> => Len(chain) >= 1 /\ Head(chain) = chain[1]
           /\ chain = <<>> => Len(chain) = 0
           /\ \A i, j \in 1..Len(chain) : chain[i] = chain[j] => i = j
           /\ n \in Nat
<1>1. chain \in Seq(Pbufs) /\ n \in Nat
  BY DEF TypeOK
<1>2. Len(chain) \in Nat /\ DOMAIN chain = 1..Len(chain)
  BY <1>1, LenProperties
<1>3. \A i \in 1..Len(chain) : chain[i] \in Pbufs
  BY <1>1, ElementOfSeq
<1>4. chain # <<>> => Len(chain) >= 1 /\ Head(chain) = chain[1]
  BY <1>1, EmptySeq
<1>5. chain = <<>> => Len(chain) = 0
  OBVIOUS
<1>6. \A i, j \in 1..Len(chain) : chain[i] = chain[j] => i = j
  BY <1>1, <1>2 DEF Latest
<1> QED
  BY <1>1, <1>2, <1>3, <1>4, <1>5, <1>6

\* What arrives comes after all that has arrived.
LEMMA ArrivedFacts ==
    ASSUME TypeOK, NEW k \in 1..2, n + k <= MaxPbufs
    PROVE  /\ Arrived(k) \in Seq(Pbufs) /\ Len(Arrived(k)) = k
           /\ \A i \in 1..k : Arrived(k)[i] = n + i
           /\ n + 1..n + k \subseteq Pbufs
<1>1. n \in Nat /\ MaxPbufs \in Nat
  BY EchoAssumption DEF TypeOK
<1>2. Arrived(k) \in [1..k -> Pbufs]
  BY <1>1 DEF Arrived, Pbufs
<1>3. Arrived(k) \in Seq(Pbufs)
  BY <1>2, SeqDef
<1>4. 1..k = 1..Len(Arrived(k)) /\ Len(Arrived(k)) \in Nat
  BY <1>2, <1>3, LenProperties
<1>5. Len(Arrived(k)) = k
  BY <1>4
<1>6. n + 1..n + k \subseteq Pbufs
  BY <1>1 DEF Pbufs
<1> QED
  BY <1>3, <1>5, <1>6 DEF Arrived

\* The queue after an arrival.
LEMMA Chaining ==
    ASSUME TypeOK, Latest, NEW k \in 1..2, n + k <= MaxPbufs
    PROVE  LET c == chain \o Arrived(k) IN
           /\ c \in Seq(Pbufs) /\ Len(c) = Len(chain) + k
           /\ \A i \in 1..Len(c) : c[i] = n + k - Len(c) + i
           /\ {c[i] : i \in DOMAIN c} = Chained \cup n + 1..n + k
<1> DEFINE c == chain \o Arrived(k)
<1>1. chain \in Seq(Pbufs) /\ Len(chain) \in Nat /\ n \in Nat
  BY QueueFacts DEF TypeOK
<1>a. /\ Arrived(k) \in Seq(Pbufs) /\ Len(Arrived(k)) = k
      /\ \A i \in 1..k : Arrived(k)[i] = n + i
  BY ArrivedFacts
<1>2. /\ c \in Seq(Pbufs) /\ Len(c) = Len(chain) + k
      /\ \A i \in 1..Len(chain) + k :
            c[i] = IF i <= Len(chain) THEN chain[i] ELSE Arrived(k)[i - Len(chain)]
  BY <1>1, <1>a, ConcatProperties
<1> HIDE DEF c
<1>3. \A i \in 1..Len(c) : c[i] = IF i <= Len(chain) THEN chain[i] ELSE n + i - Len(chain)
  BY <1>1, <1>2, <1>a
<1>4. \A i \in 1..Len(c) : c[i] = n + k - Len(c) + i
  BY <1>1, <1>2, <1>3 DEF Latest
<1>5. DOMAIN c = 1..Len(c)
  BY <1>2, LenProperties
<1>6. {c[i] : i \in DOMAIN c} = Chained \cup n + 1..n + k
  <2>1. ASSUME NEW p \in {c[i] : i \in DOMAIN c} PROVE p \in Chained \cup n + 1..n + k
    BY <1>1, <1>2, <1>3, <1>5, QueueFacts DEF Chained
  <2>2. ASSUME NEW p \in Chained PROVE p \in {c[i] : i \in DOMAIN c}
    BY <1>1, <1>2, <1>3, <1>5, QueueFacts DEF Chained
  <2>3. ASSUME NEW p \in n + 1..n + k PROVE p \in {c[i] : i \in DOMAIN c}
    <3>1. p - n + Len(chain) \in 1..Len(c) /\ p - n + Len(chain) > Len(chain)
      BY <1>1, <1>2
    <3>2. c[p - n + Len(chain)] = p
      BY <1>1, <1>3, <3>1
    <3> QED
      BY <1>5, <3>1, <3>2
  <2> QED
    BY <2>1, <2>2, <2>3
<1> QED
  BY <1>2, <1>4, <1>6 DEF c

\* The queue without its head.
LEMMA Unchaining ==
    ASSUME TypeOK, Latest, chain # <<>>
    PROVE  LET c == Tail(chain) IN
           /\ c \in Seq(Pbufs) /\ Len(c) = Len(chain) - 1
           /\ \A i \in 1..Len(c) : c[i] = n - Len(c) + i
           /\ {c[i] : i \in DOMAIN c} = Chained \ {Head(chain)}
<1> DEFINE c == Tail(chain)
<1>1. chain \in Seq(Pbufs) /\ Len(chain) \in Nat /\ n \in Nat
  BY QueueFacts DEF TypeOK
<1>2. /\ c \in Seq(Pbufs) /\ Len(c) = Len(chain) - 1
      /\ \A i \in 1..Len(c) : c[i] = chain[i + 1]
  BY <1>1, HeadTailProperties
<1>5. DOMAIN c = 1..Len(c)
  BY <1>2, LenProperties
<1> HIDE DEF c
<1>4. \A i \in 1..Len(c) : c[i] = n - Len(c) + i
  BY <1>1, <1>2 DEF Latest
<1>6. {c[i] : i \in DOMAIN c} = Chained \ {Head(chain)}
  <2>1. ASSUME NEW i \in 1..Len(c) PROVE c[i] \in Chained \ {Head(chain)}
    BY <1>1, <1>2, QueueFacts DEF Chained
  <2>2. ASSUME NEW i \in 1..Len(chain), chain[i] # Head(chain)
        PROVE chain[i] \in {c[j] : j \in DOMAIN c}
    <3>1. i # 1 /\ i - 1 \in 1..Len(c)
      BY <1>1, <1>2, <2>2, QueueFacts
    <3>2. c[i - 1] = chain[i]
      BY <1>1, <1>2, <3>1
    <3> QED
      BY <1>5, <3>1, <3>2
  <2> QED
    BY <1>5, <2>1, <2>2, QueueFacts DEF Chained
<1> QED
  BY <1>2, <1>4, <1>6 DEF c

\* The reference that the next pbuf gets, and the loop that frees the head until
\* it is gone, cancel out: the head is freed and every other count is as before.
LEMMA HeadFreed ==
    ASSUME TypeOK, Latest, NoUseAfterFree, chain # <<>>
    PROVE  TakenOff = [ref EXCEPT ![Head(chain)] = 0]
<1> DEFINE kept == IF Len(chain) > 1 THEN [ref EXCEPT ![chain[2]] = @ + 1] ELSE ref
           r == [kept EXCEPT ![Head(chain)] = 1]
           down == {i \in DOMAIN chain : \A j \in 1..i - 1 : r[chain[j]] = 1}
<1>1. /\ Len(chain) \in Nat /\ Len(chain) >= 1 /\ DOMAIN chain = 1..Len(chain)
      /\ Head(chain) = chain[1]
      /\ \A i \in 1..Len(chain) : chain[i] \in Pbufs
      /\ \A i, j \in 1..Len(chain) : chain[i] = chain[j] => i = j
  BY QueueFacts
<1>2. ref \in [Pbufs -> Nat] /\ r \in [Pbufs -> Nat] /\ r[chain[1]] = 1
  <2>1. ref \in [Pbufs -> Nat]
    BY DEF TypeOK
  <2>2. kept \in [Pbufs -> Nat]
    BY <1>1, <2>1
  <2> HIDE DEF kept
  <2> QED
    BY <1>1, <2>1, <2>2
<1>3. TakenOff = [p \in Pbufs |-> IF \E i \in down : chain[i] = p THEN r[p] - 1 ELSE r[p]]
  BY DEF TakenOff, PbufFree
<1>6. ASSUME \A p \in Pbufs : TakenOff[p] = IF p = chain[1] THEN 0 ELSE ref[p]
      PROVE  TakenOff = [ref EXCEPT ![Head(chain)] = 0]
  <2>1. DOMAIN ref = Pbufs /\ TakenOff = [p \in Pbufs |-> TakenOff[p]]
    BY <1>2, <1>3
  <2>2. TakenOff = [p \in Pbufs |-> IF p = chain[1] THEN 0 ELSE ref[p]]
    BY <1>6, <2>1
  <2> QED
    BY <1>1, <1>2, <2>2
<1>4. CASE Len(chain) = 1
  <2>1. r = [ref EXCEPT ![chain[1]] = 1]
    BY <1>1, <1>4
  <2>2. down = {1}
    BY <1>1, <1>4
  <2>3. chain[1] \in Pbufs /\ \A p \in Pbufs : p # chain[1] => r[p] = ref[p]
    BY <1>1, <1>2, <2>1
  <2> HIDE DEF r, down
  <2>4. \A p \in Pbufs : TakenOff[p] = IF p = chain[1] THEN 0 ELSE ref[p]
    BY <1>2, <1>3, <2>2, <2>3
  <2> QED
    BY <1>6, <2>4
<1>5. CASE Len(chain) > 1
  <2>1. /\ 1 \in 1..Len(chain) /\ 2 \in 1..Len(chain) /\ chain[2] # chain[1]
        /\ chain[2] \in Pbufs
    BY <1>1, <1>5
  <2>2. ref[chain[2]] > 0
    BY <1>1, <2>1 DEF NoUseAfterFree, Chained
  <2>3. r = [[ref EXCEPT ![chain[2]] = ref[chain[2]] + 1] EXCEPT ![chain[1]] = 1]
    BY <1>1, <1>5
  <2>4. r[chain[2]] = ref[chain[2]] + 1 /\ r[chain[2]] # 1
    BY <1>2, <2>1, <2>2, <2>3
  <2>5. \A p \in Pbufs : p # chain[1] /\ p # chain[2] => r[p] = ref[p]
    BY <1>2, <2>3
  <2>6. 1 \in down /\ 2 \in down /\ \A i \in down : i = 1 \/ i = 2
    <3>1. \A i \in 1..Len(chain) : i > 2 => 2 \in 1..i - 1
      BY <1>1
    <3> HIDE DEF r
    <3> QED
      BY <1>1, <1>2, <2>1, <2>4, <3>1
  <2> HIDE DEF r, down
  <2>7. \A p \in Pbufs : TakenOff[p] = IF p = chain[1] THEN 0 ELSE ref[p]
    BY <1>2, <1>3, <2>1, <2>4, <2>5, <2>6
  <2> QED
    BY <1>6, <2>7
<1> QED
  BY <1>1, <1>4, <1>5

-----------------------------------------------------------------------------
(* The counts                                                               *)

LEMMA QueueInit == Init => QueueInv
<1> SUFFICES ASSUME Init PROVE QueueInv
  OBVIOUS
<1>1. <<>> \in Seq(Pbufs) /\ Len(<<>>) = 0
  BY EmptySeq
<1> QED
  BY <1>1, EchoAssumption
     DEF Init, QueueInv, TypeOK, Latest, Idle, NoUseAfterFree, NoLeak, Chained, Pbufs

\* A step of tcp_echoserver_send frees what it has sent.
LEMMA RoundStep == QueueInv /\ SendRound => QueueInv'
<1> SUFFICES ASSUME QueueInv, SendRound PROVE QueueInv'
  OBVIOUS
<1> USE DEF QueueInv
<1>1. /\ chain # <<>> /\ chain' = Tail(chain) /\ unacked < SndBuf
      /\ unacked' = unacked + 1 /\ unread' = unread - 1
      /\ echoed' = Append(echoed, Head(chain))
      /\ pc = "sending" /\ UNCHANGED <<state, n, got, lost, pc>>
  BY DEF SendRound, CanWrite, Busy
<1>2. ref' = [ref EXCEPT ![Head(chain)] = 0]
  BY <1>1, HeadFreed DEF SendRound
<1>3. /\ chain' \in Seq(Pbufs) /\ Len(chain') = Len(chain) - 1
      /\ \A i \in 1..Len(chain') : chain'[i] = n - Len(chain') + i
      /\ Chained' = Chained \ {Head(chain)}
  BY <1>1, Unchaining DEF Chained
<1>4. Len(chain) \in Nat /\ Len(chain) >= 1 /\ Head(chain) \in Pbufs
  BY <1>1, QueueFacts
<1>5. echoed' \in Seq(Pbufs)
  BY <1>1, <1>4, AppendProperties DEF TypeOK
<1>6. TypeOK'
  BY <1>1, <1>2, <1>3, <1>4, <1>5, EchoAssumption DEF TypeOK
<1>7. NoUseAfterFree' /\ NoLeak'
  BY <1>1, <1>2, <1>3, <1>4 DEF NoUseAfterFree, NoLeak, TypeOK
<1>8. Latest' /\ Idle' /\ Len(chain') <= unread'
  BY <1>1, <1>3, <1>4 DEF Latest, Idle, TypeOK
<1> QED
  BY <1>6, <1>7, <1>8

\* A pbuf that arrives has one reference, and one of pbuf_chain's if it has to wait.
LEMMA RecvStep == ASSUME QueueInv, NEW k \in 1..2, n + k <= MaxPbufs, Recv(k)
                  PROVE  QueueInv'
<1> USE DEF QueueInv
<1>1. /\ state # "none" /\ pc = "lwip" /\ unread + k <= Window
      /\ state' = "received" /\ chain' = chain \o Arrived(k)
      /\ n' = n + k /\ unread' = unread + k /\ got' = got \o Arrived(k)
      /\ pc' \in {"lwip", "sending"} /\ UNCHANGED <<unacked, echoed, lost>>
  BY DEF Recv, Connected
<1>2. /\ chain' \in Seq(Pbufs) /\ Len(chain') = Len(chain) + k
      /\ \A i \in 1..Len(chain') : chain'[i] = n + k - Len(chain') + i
      /\ Chained' = Chained \cup n + 1..n + k
  BY <1>1, Chaining DEF Chained
<1>3. n \in Nat /\ n + 1..n + k \subseteq Pbufs /\ Arrived(k) \in Seq(Pbufs)
      /\ Len(chain) \in Nat
  BY ArrivedFacts, QueueFacts
<1>4. got' \in Seq(Pbufs)
  BY <1>1, <1>3, ConcatProperties DEF TypeOK
<1>5. /\ ref' \in [Pbufs -> Nat]
      /\ \A p \in n + 1..n + k : ref'[p] > 0
      /\ \A p \in Pbufs : p \notin n + 1..n + k => ref'[p] = ref[p]
  <2>1. ref \in [Pbufs -> Nat] /\ n + 1 \in n + 1..n + k
    BY <1>3 DEF TypeOK
  <2>2. /\ Referenced(k) \in [Pbufs -> Nat]
        /\ \A p \in n + 1..n + k : Referenced(k)[p] = 1
        /\ \A p \in Pbufs : p \notin n + 1..n + k => Referenced(k)[p] = ref[p]
    BY <1>3, <2>1 DEF Referenced
  <2>3. CASE ref' = Referenced(k)
    BY <2>2, <2>3
  <2>4. CASE ref' = [Referenced(k) EXCEPT ![n + 1] = 2]
    <3>1. ref' \in [Pbufs -> Nat]
      BY <2>2, <2>4
    <3>2. \A p \in Pbufs : ref'[p] = IF p = n + 1 THEN 2 ELSE Referenced(k)[p]
      BY <2>2, <2>4
    <3>3. ASSUME NEW p \in n + 1..n + k PROVE ref'[p] > 0
      BY <1>3, <2>2, <3>2
    <3>4. ASSUME NEW p \in Pbufs, p \notin n + 1..n + k PROVE ref'[p] = ref[p]
      BY <2>1, <2>2, <3>2, <3>4
    <3> QED
      BY <3>1, <3>3, <3>4
  <2> QED
    BY <2>3, <2>4 DEF Recv
<1>6. TypeOK'
  BY <1>1, <1>2, <1>3, <1>4, <1>5, EchoAssumption DEF TypeOK
<1>7. NoUseAfterFree' /\ NoLeak'
  <2>1. ASSUME NEW p \in Chained' PROVE ref'[p] > 0
    <3>1. CASE p \in n + 1..n + k
      BY <1>5, <3>1
    <3>2. CASE p \notin n + 1..n + k
      <4>1. p \in Chained /\ p \in Pbufs
        BY <1>2, <3>2, <2>1, QueueFacts DEF Chained
      <4> QED
        BY <1>5, <3>2, <4>1 DEF NoUseAfterFree
    <3> QED
      BY <3>1, <3>2
  <2>2. ASSUME NEW p \in Pbufs, ref'[p] > 0 PROVE p \in Chained' \cup lost
    BY <1>2, <1>5, <2>2 DEF NoLeak
  <2> QED
    BY <1>1, <2>1, <2>2 DEF NoUseAfterFree, NoLeak
<1>8. Latest'
  <2>1. n' = n + k /\ n \in Nat /\ Len(chain') \in Nat
    BY <1>1, <1>2, <1>3
  <2> QED
    BY <1>2, <2>1 DEF Latest
<1>9. Idle' /\ Len(chain') <= unread'
  BY <1>1, <1>2, <1>3 DEF Idle, TypeOK
<1> QED
  BY <1>6, <1>7, <1>8, <1>9

\* A pbuf that is refused is freed, and those of the queue are lost with it.
LEMMA DroppedStep == ASSUME QueueInv, NEW k \in 1..2, n + k <= MaxPbufs, RecvDropped(k)
                     PROVE  QueueInv'
<1> USE DEF QueueInv
<1>1. n \in Nat /\ n + 1..n + k \subseteq Pbufs /\ Arrived(k) \in Seq(Pbufs)
  BY ArrivedFacts, QueueFacts
<1>2. <<>> \in Seq(Pbufs) /\ Len(<<>>) = 0 /\ DOMAIN <<>> = {}
  BY EmptySeq
<1>3. /\ state # "none" /\ pc = "lwip" /\ unread + k <= Window
      /\ state' = state /\ chain' = <<>> /\ unread' \in {unread, unread + k}
      /\ lost' = lost \cup Chained \cup n + 1..n + k
      /\ n' = n + k /\ got' = got \o Arrived(k)
      /\ UNCHANGED <<ref, unacked, pc, echoed>>
  BY DEF RecvDropped, Connected
<1>4. got' \in Seq(Pbufs) /\ Chained \subseteq Pbufs
  BY <1>1, <1>3, ConcatProperties, QueueFacts DEF TypeOK, Chained
<1>5. TypeOK'
  BY <1>1, <1>2, <1>3, <1>4, EchoAssumption DEF TypeOK
<1>6. NoUseAfterFree' /\ NoLeak'
  BY <1>2, <1>3 DEF NoUseAfterFree, NoLeak, Chained
<1>7. Latest' /\ Idle' /\ Len(chain') <= unread'
  BY <1>2, <1>3 DEF Latest, Idle, TypeOK
<1> QED
  BY <1>5, <1>6, <1>7

\* The connection is closed when its queue is empty; an error leaks its queue.
LEMMA EndStep == ASSUME QueueInv, \/ Accept \/ SendFails \/ SendDone \/ RecvEnd \/ Poll \/ Error
                                  \/ \E k \in 1..SndBuf : Sent(k)
                                  \/ UNCHANGED vars
                 PROVE  QueueInv'
<1> USE DEF QueueInv
<1>1. <<>> \in Seq(Pbufs) /\ Len(<<>>) = 0 /\ DOMAIN <<>> = {}
  BY EmptySeq
<1>2. Chained \subseteq Pbufs
  BY QueueFacts DEF Chained
<1> USE EchoAssumption DEF TypeOK, Latest, Idle, NoUseAfterFree, NoLeak
<1>3. CASE Accept
  BY <1>1, <1>3 DEF Accept, Chained
<1>4. CASE SendFails \/ SendDone
  BY <1>4 DEF SendFails, SendDone, CanWrite, Busy, Chained
<1>5. CASE RecvEnd
  BY <1>5 DEF RecvEnd, Close, Connected, Chained
<1>6. CASE Poll
  BY <1>6 DEF Poll, Close, Connected, Chained
<1>7. CASE Error
  <2>1. /\ state' = "none" /\ chain' = <<>> /\ lost' = lost \cup Chained /\ pc = "lwip"
        /\ UNCHANGED <<ref, unacked, unread, pc, n, got, echoed>>
    BY <1>7 DEF Error, Connected
  <2>2. Chained' = {}
    BY <1>1, <2>1 DEF Chained
  <2> QED
    BY <1>1, <1>2, <2>1, <2>2
<1>8. CASE \E k \in 1..SndBuf : Sent(k)
  <2> PICK k \in 1..SndBuf : Sent(k)
    BY <1>8
  <2> QED
    BY DEF Sent, Connected, Chained
<1>9. CASE UNCHANGED vars
  BY <1>9 DEF vars, Chained
<1> QED
  BY <1>3, <1>4, <1>5, <1>6, <1>7, <1>8, <1>9

LEMMA QueueInductive == QueueInv /\ [Next]_vars => QueueInv'
BY RoundStep, RecvStep, DroppedStep, EndStep DEF Next, Send, AnySent

\* tcp_echoserver_send never sends or frees a pbuf that is gone: the loop that
\* frees the head of the queue ends when the head is freed, and the reference
\* that was taken before it keeps the next one.  The references that pbuf_chain
\* and the loop take are given back: what is not freed is in the queue, or the
\* code has dropped it with its connection.
THEOREM FreedOnceAndInTime == Spec => []PbufsCounted
<1>1. QueueInv => PbufsCounted
  BY DEF QueueInv, PbufsCounted
<1> QED
  BY <1>1, QueueInit, QueueInductive, PTL DEF Spec

\* The queue never holds more than the window: what a pbuf took of it is given
\* back when the pbuf is sent, and once.
THEOREM EchoTypes == Spec => []TypeOK
<1>1. QueueInv => TypeOK
  BY DEF QueueInv
<1> QED
  BY <1>1, QueueInit, QueueInductive, PTL DEF Spec

-----------------------------------------------------------------------------
(* The order                                                                *)

LEMMA ElementsFacts ==
    ASSUME NEW S, NEW s \in Seq(S), NEW t \in Seq(S), NEW e \in S
    PROVE  /\ Elements(s \o t) = Elements(s) \cup Elements(t)
           /\ Elements(Append(s, e)) = Elements(s) \cup {e}
           /\ Elements(<<>>) = {}
<1>1. \A u \in Seq(S) : Len(u) \in Nat /\ DOMAIN u = 1..Len(u)
  BY LenProperties
<1>2. /\ s \o t \in Seq(S) /\ Len(s \o t) = Len(s) + Len(t)
      /\ \A i \in 1..Len(s) + Len(t) :
            (s \o t)[i] = IF i <= Len(s) THEN s[i] ELSE t[i - Len(s)]
  BY ConcatProperties
<1>3. Elements(s \o t) = Elements(s) \cup Elements(t)
  <2> DEFINE c == s \o t
  <2> HIDE DEF c
  <2>1. /\ DOMAIN c = 1..Len(s) + Len(t) /\ DOMAIN s = 1..Len(s) /\ DOMAIN t = 1..Len(t)
        /\ Len(s) \in Nat /\ Len(t) \in Nat
        /\ \A i \in 1..Len(s) + Len(t) : c[i] = IF i <= Len(s) THEN s[i] ELSE t[i - Len(s)]
    BY <1>1, <1>2 DEF c
  <2>2. \A i \in DOMAIN c : c[i] \in Elements(s) \cup Elements(t)
    BY <2>1 DEF Elements
  <2>3. \A i \in DOMAIN s : i \in DOMAIN c /\ c[i] = s[i]
    BY <2>1
  <2>4. \A i \in DOMAIN t : i + Len(s) \in DOMAIN c /\ c[i + Len(s)] = t[i]
    BY <2>1
  <2>5. Elements(c) = Elements(s) \cup Elements(t)
    BY <2>2, <2>3, <2>4 DEF Elements
  <2> QED
    BY <2>5 DEF c
<1>4. Elements(Append(s, e)) = Elements(s) \cup {e}
  <2>1. /\ Append(s, e) \in Seq(S) /\ Len(Append(s, e)) = Len(s) + 1
        /\ \A i \in 1..Len(s) : Append(s, e)[i] = s[i]
        /\ Append(s, e)[Len(s) + 1] = e
    BY AppendProperties
  <2> QED
    BY <1>1, <2>1 DEF Elements
<1>5. Elements(<<>>) = {}
  BY DEF Elements
<1> QED
  BY <1>3, <1>4, <1>5

\* The head of a sequence that goes to the end of the one before it.
LEMMA HeadMoves ==
    ASSUME NEW S, NEW s \in Seq(S), NEW t \in Seq(S), t # <<>>
    PROVE  Append(s, Head(t)) \o Tail(t) = s \o t
<1> DEFINE e == Head(t)
<1>1. /\ e \in S /\ e = t[1] /\ Tail(t) \in Seq(S)
      /\ Len(t) \in Nat /\ Len(t) >= 1
  BY HeadTailProperties, EmptySeq
<1>2. t = <<e>> \o Tail(t)
  <2>1. t = SubSeq(t, 1, Len(t)) /\ Tail(t) = SubSeq(t, 2, Len(t))
    BY SubSeqFull, TailIsSubSeq
  <2>2. SubSeq(t, 1, Len(t)) = <<t[1]>> \o SubSeq(t, 1 + 1, Len(t))
    BY <1>1, SubSeqRecursiveFirst
  <2> QED
    BY <1>1, <2>1, <2>2
<1>3. Append(s, e) = s \o <<e>>
  BY <1>1, AppendIsConcat
<1>4. <<e>> \in Seq(S)
  BY <1>1
<1>5. (s \o <<e>>) \o Tail(t) = s \o (<<e>> \o Tail(t))
  BY <1>1, <1>4, ConcatAssociative
<1> QED
  BY <1>2, <1>3, <1>5

\* What the client has sent is somewhere; only an error, or data that lwIP should
\* not hand over, put it among what is lost.
Accounted == Elements(got) \subseteq Elements(echoed) \cup Chained \cup lost
Past == Elements(got) \cup lost \subseteq 1..n

OrderInv == Accounted /\ Past /\ InOrder

LEMMA OrderInit == Init => OrderInv
<1> SUFFICES ASSUME Init PROVE OrderInv
  OBVIOUS
<1>1. got = <<>> /\ lost = {} /\ state = "none" /\ Elements(got) = {}
  BY DEF Init, Elements
<1> QED
  BY <1>1 DEF OrderInv, Accounted, Past, InOrder, Whole, Intact

LEMMA RoundOrder == QueueInv /\ OrderInv /\ SendRound => OrderInv'
<1> SUFFICES ASSUME QueueInv, OrderInv, SendRound PROVE OrderInv'
  OBVIOUS
<1> USE DEF QueueInv, OrderInv
<1>1. /\ chain # <<>> /\ chain' = Tail(chain) /\ unread' = unread - 1
      /\ echoed' = Append(echoed, Head(chain))
      /\ UNCHANGED <<state, n, got, lost>>
  BY DEF SendRound, CanWrite, Busy
<1>2. /\ chain \in Seq(Pbufs) /\ Len(chain') = Len(chain) - 1
      /\ Chained' = Chained \ {Head(chain)}
      /\ Head(chain) \in Pbufs
  <2>1. Len(chain') = Len(chain) - 1 /\ Chained' = Chained \ {Head(chain)}
    BY <1>1, Unchaining DEF Chained
  <2> QED
    BY <1>1, <2>1, QueueFacts DEF TypeOK
<1>3. echoed \in Seq(Pbufs) /\ Elements(echoed') = Elements(echoed) \cup {Head(chain)}
  BY <1>1, <1>2, ElementsFacts DEF TypeOK
<1>4. echoed' \o chain' = echoed \o chain
  BY <1>1, <1>2, <1>3, HeadMoves
<1>5. InOrder'
  BY <1>1, <1>2, <1>4 DEF InOrder, Whole, Intact, TypeOK
<1> QED
  BY <1>1, <1>2, <1>3, <1>5 DEF Accounted, Past

\* What arrives is added to what the client has sent.
LEMMA GotGrows ==
    ASSUME TypeOK, Latest, NEW k \in 1..2, n + k <= MaxPbufs, got' = got \o Arrived(k)
    PROVE  Elements(got') = Elements(got) \cup n + 1..n + k
<1>1. /\ n \in Nat /\ Arrived(k) \in Seq(Pbufs) /\ Len(Arrived(k)) = k
      /\ \A i \in 1..k : Arrived(k)[i] = n + i
  BY ArrivedFacts, QueueFacts
<1>2. Elements(Arrived(k)) = n + 1..n + k
  <2>1. DOMAIN Arrived(k) = 1..k
    BY <1>1, LenProperties
  <2>2. \A p \in n + 1..n + k : p - n \in 1..k /\ Arrived(k)[p - n] = p
    BY <1>1
  <2> QED
    BY <1>1, <2>1, <2>2 DEF Elements
<1> QED
  BY <1>1, <1>2, ElementsFacts DEF TypeOK

LEMMA RecvOrder == ASSUME QueueInv, OrderInv, NEW k \in 1..2, n + k <= MaxPbufs, Recv(k)
                   PROVE  OrderInv'
<1> USE DEF QueueInv, OrderInv
<1>1. /\ state # "none" /\ state' = "received" /\ chain' = chain \o Arrived(k)
      /\ n' = n + k /\ unread' = unread + k /\ got' = got \o Arrived(k)
      /\ UNCHANGED <<echoed, lost>>
  BY DEF Recv, Connected
<1>2. /\ n \in Nat /\ Arrived(k) \in Seq(Pbufs) /\ Len(Arrived(k)) = k
      /\ \A i \in 1..k : Arrived(k)[i] = n + i
      /\ Len(chain') = Len(chain) + k /\ Len(chain) \in Nat
      /\ Chained' = Chained \cup n + 1..n + k
  <2>1. Len(chain') = Len(chain) + k /\ Chained' = Chained \cup n + 1..n + k
    BY <1>1, Chaining DEF Chained
  <2>2. n \in Nat /\ Len(chain) \in Nat
    BY QueueFacts
  <2>3. /\ Arrived(k) \in Seq(Pbufs) /\ Len(Arrived(k)) = k
        /\ \A i \in 1..k : Arrived(k)[i] = n + i
    BY ArrivedFacts
  <2> QED
    BY <2>1, <2>2, <2>3
<1>3. got \in Seq(Pbufs) /\ chain \in Seq(Pbufs) /\ echoed \in Seq(Pbufs)
  BY DEF TypeOK
<1>5. Elements(got') = Elements(got) \cup n + 1..n + k
  BY <1>1, GotGrows
<1>6. Accounted' /\ Past'
  <2>1. n' = n + k /\ (n + 1..n + k) \cap 1..n = {} /\ (n + 1..n + k) \cup 1..n = 1..n + k
    BY <1>1, <1>2
  <2>2. Elements(got) \cup lost \subseteq 1..n
    BY DEF Past
  <2> QED
    BY <1>1, <1>2, <1>5, <2>1, <2>2 DEF Accounted, Past
<1>7. InOrder'
  <2> SUFFICES ASSUME Whole' PROVE got' = echoed' \o chain' /\ unread' = Len(chain')
    BY DEF InOrder
  <2>1. Whole
    BY <1>1, <1>5 DEF Whole, Intact
  <2>2. got' = (echoed \o chain) \o Arrived(k)
    BY <1>1, <2>1 DEF InOrder
  <2>a. (echoed \o chain) \o Arrived(k) = echoed \o (chain \o Arrived(k))
    BY <1>2, <1>3, ConcatAssociative
  <2>3. got' = echoed' \o chain'
    BY <1>1, <2>2, <2>a
  <2> QED
    BY <1>1, <1>2, <2>1, <2>3 DEF InOrder
<1> QED
  BY <1>6, <1>7

LEMMA DroppedOrder == ASSUME QueueInv, OrderInv, NEW k \in 1..2, n + k <= MaxPbufs, RecvDropped(k)
                      PROVE  OrderInv'
<1> USE DEF QueueInv, OrderInv
<1>1. /\ chain' = <<>>
      /\ lost' = lost \cup Chained \cup n + 1..n + k
      /\ n' = n + k /\ got' = got \o Arrived(k)
      /\ UNCHANGED echoed
  BY DEF RecvDropped
<1>2. /\ n \in Nat /\ Arrived(k) \in Seq(Pbufs) /\ Len(Arrived(k)) = k
      /\ \A i \in 1..k : Arrived(k)[i] = n + i
  BY ArrivedFacts, QueueFacts
<1>4. Elements(got') = Elements(got) \cup n + 1..n + k
  BY <1>1, GotGrows
<1>5. n + 1 \in n + 1..n + k
  BY <1>2
<1>6. ~Whole'
  BY <1>1, <1>4, <1>5 DEF Whole, Intact
<1>7. Chained \subseteq 1..n
  <2>1. \A i \in 1..Len(chain) : chain[i] \in Pbufs /\ chain[i] = n - Len(chain) + i
    BY QueueFacts DEF Latest
  <2>2. Len(chain) \in Nat /\ DOMAIN chain = 1..Len(chain)
    BY QueueFacts
  <2> QED
    BY <1>2, <2>1, <2>2 DEF Chained, Pbufs
<1>8. Past'
  <2>1. n' = n + k /\ 1..n \subseteq 1..n + k /\ n + 1..n + k \subseteq 1..n + k
    BY <1>1, <1>2
  <2>2. Elements(got) \cup lost \subseteq 1..n
    BY DEF Past
  <2> QED
    BY <1>1, <1>4, <1>7, <2>1, <2>2 DEF Past
<1> QED
  BY <1>1, <1>4, <1>6, <1>8 DEF Accounted, InOrder

LEMMA EndOrder == ASSUME QueueInv, OrderInv,
                         \/ Accept \/ SendFails \/ SendDone \/ RecvEnd \/ Poll \/ Error
                         \/ \E k \in 1..SndBuf : Sent(k)
                         \/ UNCHANGED vars
                  PROVE  OrderInv'
<1> USE DEF QueueInv, OrderInv, Accounted, Past, InOrder, Whole, Intact
<1>1. <<>> \in Seq(Pbufs) /\ Len(<<>>) = 0 /\ <<>> \o <<>> = <<>> /\ Elements(<<>>) = {}
  BY EmptySeq, ConcatEmptySeq DEF Elements
<1>2. Chained \subseteq 1..n
  <2>1. \A i \in 1..Len(chain) : chain[i] \in Pbufs /\ chain[i] = n - Len(chain) + i
    BY QueueFacts DEF Latest
  <2>2. Len(chain) \in Nat /\ DOMAIN chain = 1..Len(chain) /\ n \in Nat
    BY QueueFacts
  <2> QED
    BY <2>1, <2>2 DEF Chained, Pbufs
<1>3. CASE Accept
  <2>1. /\ got' = <<>> /\ echoed' = <<>> /\ chain' = <<>> /\ unread' = 0
        /\ UNCHANGED <<n, lost>>
    BY <1>3 DEF Accept
  <2>2. Elements(got') = {}
    BY <1>1, <2>1
  <2> QED
    BY <1>1, <2>1, <2>2
<1>4. CASE Error
  <2>1. state' = "none" /\ lost' = lost \cup Chained /\ UNCHANGED <<n, got, echoed>>
    BY <1>4 DEF Error
  <2> QED
    BY <1>2, <2>1
<1>5. CASE SendFails \/ SendDone \/ RecvEnd \/ Poll \/ UNCHANGED vars
  <2>1. UNCHANGED <<chain, unread, n, got, echoed, lost>> /\ (state' # "none" => state # "none")
    BY <1>5 DEF SendFails, SendDone, RecvEnd, Poll, Close, Connected, Busy, vars
  <2> QED
    BY <2>1 DEF Chained
<1>6. CASE \E k \in 1..SndBuf : Sent(k)
  <2>1. UNCHANGED <<chain, unread, n, got, echoed, lost>> /\ (state' # "none" => state # "none")
    BY <1>6 DEF Sent, Connected
  <2> QED
    BY <2>1 DEF Chained
<1> QED
  BY <1>3, <1>4, <1>5, <1>6

IInv == QueueInv /\ OrderInv

LEMMA Initially == Init => IInv
BY QueueInit, OrderInit DEF IInv

LEMMA Inductive == IInv /\ [Next]_vars => IInv'
BY QueueInductive, RoundOrder, RecvOrder, DroppedOrder, EndOrder DEF IInv, Next, Send, AnySent

\* What a client gets back is what it has sent, in order, and what it has not yet
\* got is in the queue, as long as the server has lost nothing of it.
THEOREM EchoesInOrder == Spec => []InOrder
<1>1. IInv => InOrder
  BY DEF IInv, OrderInv
<1> QED
  BY <1>1, Initially, Inductive, PTL DEF Spec

\* Every way a connection may end has echoed what came in, or dropped it openly.
THEOREM EndsAccounted == Spec => []EndAccounts
<1>1. IInv => EndAccounts
  <2> SUFFICES ASSUME IInv, state = "none" PROVE Elements(got) \subseteq Elements(echoed) \cup lost
    BY DEF EndAccounts
  <2>1. chain = <<>>
    BY DEF IInv, QueueInv, Idle
  <2>2. Chained = {}
    BY <2>1 DEF Chained
  <2> QED
    BY <2>2 DEF IInv, OrderInv, Accounted
<1> QED
  BY <1>1, Initially, Inductive, PTL DEF Spec

\* The callbacks implement the stream: a round of tcp_echoserver_send is an echo
\* of the next packet, a callback that queues is a receipt, a new connection or a
\* loss starts over, and every other step changes nothing that a client sees.
THEOREM Implements == Spec => ImplementsStream
<1> USE DEF IInv, QueueInv, OrderInv
<1>1. Init => Stream!StreamInit
  BY DEF Init, Stream!StreamInit
<1>2. IInv /\ [Next]_vars => [Stream!StreamNext]_<<IF Intact THEN got ELSE <<>>,
                                                   IF Intact THEN echoed ELSE <<>>>>
  <2> DEFINE g == IF Intact THEN got ELSE <<>>
             e == IF Intact THEN echoed ELSE <<>>
  <2> SUFFICES ASSUME IInv, [Next]_vars PROVE Stream!StreamNext \/ UNCHANGED <<g, e>>
    OBVIOUS
  <2>1. CASE SendRound
    <3>1. /\ chain # <<>> /\ echoed' = Append(echoed, Head(chain)) /\ got' = got
          /\ state # "none" /\ Intact' = Intact
      BY <2>1 DEF SendRound, CanWrite, Busy, Idle, Intact
    <3>2. CASE Intact
      <4>1. got = echoed \o chain
        BY <3>1, <3>2 DEF InOrder, Whole
      <4>2. /\ Len(chain) \in Nat /\ Len(chain) >= 1 /\ Head(chain) = chain[1]
            /\ echoed \in Seq(Pbufs) /\ chain \in Seq(Pbufs) /\ Len(echoed) \in Nat
        BY <3>1, QueueFacts, LenProperties DEF TypeOK
      <4>3. Len(got) = Len(echoed) + Len(chain) /\ got[Len(echoed) + 1] = chain[1]
        BY <4>1, <4>2, ConcatProperties
      <4>4. Stream!Echo
        BY <3>1, <3>2, <4>2, <4>3 DEF Stream!Echo
      <4> QED
        BY <4>4 DEF Stream!StreamNext
    <3> QED
      BY <3>1, <3>2
  <2>2. ASSUME NEW k \in 1..2, n + k <= MaxPbufs, Recv(k)
        PROVE  Stream!StreamNext \/ UNCHANGED <<g, e>>
    <3>1. got' = got \o Arrived(k) /\ UNCHANGED <<echoed, lost>>
      BY <2>2 DEF Recv
    <3>2. n \in Nat /\ n + 1 \in Pbufs /\ (k = 2 => n + 2 \in Pbufs)
      BY <2>2, EchoAssumption DEF TypeOK, Pbufs
    <3>3. /\ k = 1 => Arrived(k) = <<n + 1>>
          /\ k = 2 => Arrived(k) = <<n + 1, n + 2>>
      BY <3>2 DEF Arrived
    <3>4. Intact' = Intact
      <4>1. Elements(got') = Elements(got) \cup n + 1..n + k
        BY <2>2, GotGrows, <3>1
      <4>2. lost \cap n + 1..n + k = {}
        BY <3>2 DEF Past
      <4> QED
        BY <3>1, <4>1, <4>2 DEF Intact
    <3>5. CASE Intact /\ k = 1
      <4>1. Stream!Receive(<<n + 1>>)
        BY <3>1, <3>3, <3>4, <3>5 DEF Stream!Receive
      <4> QED
        BY <3>2, <4>1 DEF Stream!StreamNext
    <3>6. CASE Intact /\ k = 2
      <4>1. Stream!Receive(<<n + 1, n + 2>>)
        BY <3>1, <3>3, <3>4, <3>6 DEF Stream!Receive
      <4> QED
        BY <3>2, <3>6, <4>1 DEF Stream!StreamNext
    <3> QED
      BY <3>4, <3>5, <3>6
  <2>3. ASSUME NEW k \in 1..2, n + k <= MaxPbufs, RecvDropped(k)
        PROVE  Stream!Restart
    <3>1. got' = got \o Arrived(k) /\ lost' = lost \cup Chained \cup n + 1..n + k
      BY <2>3 DEF RecvDropped
    <3>2. Elements(got') = Elements(got) \cup n + 1..n + k
      BY <2>3, <3>1, GotGrows
    <3>3. n + 1 \in n + 1..n + k
      BY QueueFacts
    <3> QED
      BY <3>1, <3>2, <3>3 DEF Intact, Stream!Restart
  <2>4. CASE Accept
    <3>1. got' = <<>> /\ echoed' = <<>>
      BY <2>4 DEF Accept
    <3> QED
      BY <3>1 DEF Stream!Restart, Stream!StreamNext
  <2>5. CASE Error
    <3>1. lost \subseteq lost' /\ UNCHANGED <<got, echoed>>
      BY <2>5 DEF Error
    <3>2. Intact' => Intact
      BY <3>1 DEF Intact
    <3> QED
      BY <3>1, <3>2 DEF Stream!StreamNext, Stream!Restart
  <2>6. CASE SendFails \/ SendDone \/ RecvEnd \/ Poll \/ AnySent \/ UNCHANGED vars
    BY <2>6 DEF SendFails, SendDone, RecvEnd, Poll, Close, Busy, AnySent, Sent, vars, Intact
  <2> QED
    BY <2>1, <2>2, <2>3, <2>4, <2>5, <2>6 DEF Next, Send, Stream!StreamNext
<1> QED
  BY <1>1, <1>2, Initially, Inductive, PTL DEF Spec, ImplementsStream, Stream!StreamSpec
=============================================================================
