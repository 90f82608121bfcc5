-------------------------- MODULE EthernetIfProofs --------------------------
(***************************************************************************)
(* Proofs about EthernetIf for rings and a receive pool of any size.       *)
(***************************************************************************)
EXTENDS EthernetIf, TLAPS

\* The i-th descriptor after descriptor a in a ring of N.
Pos(N, a, i) == (a + i) % N

LEMMA PosValue ==
  ASSUME NEW N \in Nat \ {0}, NEW a \in 0..(N - 1), NEW i \in 0..N
  PROVE  Pos(N, a, i) = IF a + i < N THEN a + i ELSE a + i - N
<1>1. \A x \in 0..(N - 1) : x % N = x
  OBVIOUS
<1>2. \A x \in N..(2 * N - 1) : x % N = x - N
  OBVIOUS
<1> QED BY <1>1, <1>2 DEF Pos

LEMMA PosInRing ==
  ASSUME NEW N \in Nat \ {0}, NEW a \in 0..(N - 1), NEW i \in 0..N
  PROVE  Pos(N, a, i) \in 0..(N - 1)
BY PosValue

LEMMA PosRound ==
  ASSUME NEW N \in Nat \ {0}, NEW a \in 0..(N - 1)
  PROVE  Pos(N, a, 0) = a /\ Pos(N, a, N) = a
<1>1. 0 \in 0..N /\ N \in 0..N
  OBVIOUS
<1> QED BY <1>1, PosValue

LEMMA PosInjective ==
  ASSUME NEW N \in Nat \ {0}, NEW a \in 0..(N - 1),
         NEW i \in 0..(N - 1), NEW j \in 0..(N - 1), Pos(N, a, i) = Pos(N, a, j)
  PROVE  i = j
<1>1. i \in 0..N /\ j \in 0..N
  OBVIOUS
<1>2. Pos(N, a, i) = IF a + i < N THEN a + i ELSE a + i - N
  BY <1>1, PosValue
<1>3. Pos(N, a, j) = IF a + j < N THEN a + j ELSE a + j - N
  BY <1>1, PosValue
<1>4. (IF a + i < N THEN a + i ELSE a + i - N) = (IF a + j < N THEN a + j ELSE a + j - N)
  BY <1>2, <1>3
<1> HIDE <1>2, <1>3
<1>5. CASE a + i < N
  BY <1>4, <1>5
<1>6. CASE ~(a + i < N)
  BY <1>4, <1>6
<1> QED BY <1>5, <1>6

LEMMA PosOnto ==
  ASSUME NEW N \in Nat \ {0}, NEW a \in 0..(N - 1), NEW d \in 0..(N - 1)
  PROVE  \E i \in 0..(N - 1) : d = Pos(N, a, i)
<1>1. CASE d >= a
  <2>1. d - a \in 0..(N - 1) /\ d - a \in 0..N
    BY <1>1
  <2>2. Pos(N, a, d - a) = d
    BY <1>1, <2>1, PosValue
  <2> QED BY <2>1, <2>2
<1>2. CASE d < a
  <2>1. d - a + N \in 0..(N - 1) /\ d - a + N \in 0..N
    BY <1>2
  <2>2. Pos(N, a, d - a + N) = d
    BY <1>2, <2>1, PosValue
  <2> QED BY <2>1, <2>2
<1> QED BY <1>1, <1>2

\* One descriptor on, at the far end and at the near end.
LEMMA PosNext ==
  ASSUME NEW N \in Nat \ {0}, NEW a \in 0..(N - 1), NEW i \in 0..(N - 1)
  PROVE  /\ Pos(N, Pos(N, a, i), 1) = Pos(N, a, i + 1)
         /\ Pos(N, Pos(N, a, 1), i) = Pos(N, a, i + 1)
<1>1. i \in 0..N /\ i + 1 \in 0..N /\ 1 \in 0..N
  OBVIOUS
<1>2. Pos(N, a, i + 1) = IF a + i + 1 < N THEN a + i + 1 ELSE a + i + 1 - N
  BY <1>1, PosValue
<1>3. /\ Pos(N, a, i) = IF a + i < N THEN a + i ELSE a + i - N
      /\ Pos(N, a, 1) = IF a + 1 < N THEN a + 1 ELSE a + 1 - N
  BY <1>1, PosValue
<1>4. Pos(N, a, i) \in 0..(N - 1) /\ Pos(N, a, 1) \in 0..(N - 1)
  BY <1>1, PosInRing
<1>5. Pos(N, Pos(N, a, i), 1) = IF Pos(N, a, i) + 1 < N THEN Pos(N, a, i) + 1 ELSE Pos(N, a, i) + 1 - N
  BY <1>1, <1>4, PosValue
<1>6. Pos(N, Pos(N, a, 1), i) = IF Pos(N, a, 1) + i < N THEN Pos(N, a, 1) + i ELSE Pos(N, a, 1) + i - N
  BY <1>1, <1>4, PosValue
<1>7. Pos(N, Pos(N, a, i), 1) = Pos(N, a, i + 1)
  BY <1>2, <1>3, <1>5
<1>8. Pos(N, Pos(N, a, 1), i) = Pos(N, a, i + 1)
  BY <1>2, <1>3, <1>6
<1> QED BY <1>7, <1>8

-----------------------------------------------------------------------------
(* The receive ring.                                                       *)

\* c frames wait in the ring, from rx_index on; the other descriptors are the
\* DMA's.
RxHolds(c) ==
  /\ rx_dma = Pos(NUM_RX, rx_index, c)
  /\ \A i \in 0..(NUM_RX - 1) : rx_own[Pos(NUM_RX, rx_index, i)] <=> i >= c

RxTypes ==
  /\ rx_own \in [Rx -> BOOLEAN] /\ rx_index \in Rx /\ rx_dma \in Rx
  /\ event \in BOOLEAN /\ pool \in 0..POOL /\ cut \in BOOLEAN

\* FramesNotForgotten while the link is being set up, too.
RxServed ==
  ipc # "input" /\ ~event /\ (\E d \in Rx : ~rx_own[d]) => cut /\ \E d \in Rx : rx_own[d]

RxInv == RxTypes /\ (\E c \in 0..NUM_RX : RxHolds(c)) /\ RxServed

\* A frame arrives in a free descriptor.
LEMMA DmaReceiveInv ==
  ASSUME RxInv, DmaReceive
  PROVE  RxInv'
<1>1. NUM_RX \in Nat \ {0} /\ rx_index \in 0..(NUM_RX - 1) /\ rx_dma \in 0..(NUM_RX - 1)
  BY EthernetIfAssumption DEF RxInv, RxTypes, Rx
<1>2. PICK c \in 0..NUM_RX : RxHolds(c)
  BY DEF RxInv
<1>3. /\ rx_own[rx_dma] /\ rx_own' = [rx_own EXCEPT ![rx_dma] = FALSE]
      /\ rx_dma' = Pos(NUM_RX, rx_dma, 1) /\ event' = TRUE
      /\ UNCHANGED <<rx_index, pool, cut, ipc>>
  BY DEF DmaReceive, Pos
<1>4. c < NUM_RX
  <2>1. Pos(NUM_RX, rx_index, 0) = rx_index /\ Pos(NUM_RX, rx_index, NUM_RX) = rx_index
    BY <1>1, PosRound
  <2>2. 0 \in 0..(NUM_RX - 1)
    BY <1>1
  <2>3. rx_own[rx_index] <=> 0 >= c
    BY <1>2, <2>1, <2>2 DEF RxHolds
  <2>4. c = NUM_RX => rx_dma = rx_index
    BY <1>2, <2>1 DEF RxHolds
  <2> QED BY <1>1, <1>3, <2>3, <2>4
<1>5. c \in 0..(NUM_RX - 1) /\ c + 1 \in 0..NUM_RX
  BY <1>1, <1>4
<1>6. rx_dma' = Pos(NUM_RX, rx_index, c + 1)
  BY <1>1, <1>2, <1>3, <1>5, PosNext DEF RxHolds
<1>7. ASSUME NEW i \in 0..(NUM_RX - 1)
      PROVE  rx_own'[Pos(NUM_RX, rx_index, i)] <=> i >= c + 1
  <2> DEFINE d == Pos(NUM_RX, rx_index, i)
  <2>1. d \in Rx
    <3>1. i \in 0..NUM_RX
      BY <1>1
    <3> QED BY <1>1, <3>1, PosInRing DEF Rx
  <2>2. d = rx_dma <=> i = c
    BY <1>1, <1>2, <1>5, PosInjective DEF RxHolds
  <2>3. rx_own[d] <=> i >= c
    BY <1>2 DEF RxHolds
  <2> HIDE DEF d
  <2>4. rx_own'[d] <=> rx_own[d] /\ d # rx_dma
    BY <1>3, <2>1 DEF RxInv, RxTypes
  <2>5. rx_own'[d] <=> i >= c + 1
    BY <1>1, <2>2, <2>3, <2>4
  <2> QED BY <2>5 DEF d
<1>8. RxHolds(c + 1)'
  BY <1>3, <1>6, <1>7 DEF RxHolds
<1>9. RxTypes'
  <2>1. rx_own' \in [Rx -> BOOLEAN]
    BY <1>3 DEF RxInv, RxTypes
  <2>2. rx_dma' \in Rx
    <3>1. 1 \in 0..NUM_RX
      BY <1>1
    <3> QED BY <1>1, <1>3, <3>1, PosInRing DEF Rx
  <2> QED BY <1>3, <2>1, <2>2 DEF RxInv, RxTypes
<1>10. RxServed'
  BY <1>3 DEF RxServed
<1> QED BY <1>5, <1>8, <1>9, <1>10 DEF RxInv

\* The driver gives the descriptor of the first frame back.
LEMMA ReturnRxInv ==
  ASSUME RxInv, ~rx_own[rx_index], ReturnRxDescriptor, rx_dma' = rx_dma
  PROVE  /\ \E c \in 0..NUM_RX : RxHolds(c)'
         /\ rx_own' \in [Rx -> BOOLEAN] /\ rx_index' \in Rx
         /\ \E d \in Rx : rx_own'[d]
<1>1. NUM_RX \in Nat \ {0} /\ rx_index \in 0..(NUM_RX - 1) /\ rx_dma \in 0..(NUM_RX - 1)
  BY EthernetIfAssumption DEF RxInv, RxTypes, Rx
<1>2. PICK c \in 0..NUM_RX : RxHolds(c)
  BY DEF RxInv
<1>3. rx_own' = [rx_own EXCEPT ![rx_index] = TRUE] /\ rx_index' = Pos(NUM_RX, rx_index, 1)
  BY DEF ReturnRxDescriptor, Pos
<1>4. Pos(NUM_RX, rx_index, 0) = rx_index /\ Pos(NUM_RX, rx_index, NUM_RX) = rx_index
  BY <1>1, PosRound
<1>5. c > 0
  <2>1. 0 \in 0..(NUM_RX - 1)
    BY <1>1
  <2>2. rx_own[rx_index] <=> 0 >= c
    BY <1>2, <1>4, <2>1 DEF RxHolds
  <2> QED BY <1>1, <2>2
<1>6. c - 1 \in 0..(NUM_RX - 1) /\ c - 1 \in 0..NUM_RX /\ c - 1 + 1 = c
  BY <1>1, <1>5
<1>7. rx_dma' = Pos(NUM_RX, rx_index', c - 1)
  <2>1. Pos(NUM_RX, Pos(NUM_RX, rx_index, 1), c - 1) = Pos(NUM_RX, rx_index, c - 1 + 1)
    BY <1>1, <1>6, PosNext
  <2> QED BY <1>2, <1>3, <1>6, <2>1 DEF RxHolds
<1>8. ASSUME NEW i \in 0..(NUM_RX - 1)
      PROVE  rx_own'[Pos(NUM_RX, rx_index', i)] <=> i >= c - 1
  <2> DEFINE d == Pos(NUM_RX, rx_index', i)
  <2>1. d = Pos(NUM_RX, rx_index, i + 1)
    BY <1>1, <1>3, PosNext
  <2>2. CASE i = NUM_RX - 1
    <3>1. i + 1 = NUM_RX /\ i >= c - 1
      BY <1>1, <2>2
    <3>2. d = rx_index
      BY <1>4, <2>1, <3>1
    <3> HIDE DEF d
    <3>3. rx_own'[d]
      BY <1>3, <3>2 DEF RxInv, RxTypes
    <3> QED BY <3>1, <3>3 DEF d
  <2>3. CASE i # NUM_RX - 1
    <3>1. i + 1 \in 0..(NUM_RX - 1) /\ i + 1 \in 0..NUM_RX /\ 0 \in 0..(NUM_RX - 1) /\ i + 1 # 0
      BY <1>1, <2>3
    <3>2. rx_own[d] <=> i + 1 >= c
      BY <1>2, <2>1, <3>1 DEF RxHolds
    <3>3. d \in Rx
      BY <1>1, <2>1, <3>1, PosInRing DEF Rx
    <3>4. d # rx_index
      BY <1>1, <1>4, <2>1, <3>1, PosInjective
    <3> HIDE DEF d
    <3>5. rx_own'[d] <=> rx_own[d]
      BY <1>3, <3>3, <3>4 DEF RxInv, RxTypes
    <3>6. rx_own'[d] <=> i >= c - 1
      BY <1>1, <3>2, <3>5
    <3> QED BY <3>6 DEF d
  <2> QED BY <2>2, <2>3
<1>9. RxHolds(c - 1)'
  BY <1>7, <1>8 DEF RxHolds
<1>10. rx_own' \in [Rx -> BOOLEAN] /\ rx_own'[rx_index]
  BY <1>3 DEF RxInv, RxTypes
<1>11. rx_index' \in Rx
  <2>1. 1 \in 0..NUM_RX
    BY <1>1
  <2> QED BY <1>1, <1>3, <2>1, PosInRing DEF Rx
<1>12. \E d \in Rx : rx_own'[d]
  BY <1>10 DEF RxInv, RxTypes
<1> QED BY <1>6, <1>9, <1>10, <1>11, <1>12

\* The loop of ethernetif_input ends without a frame only at an empty ring.
LEMMA IrqExitInv ==
  ASSUME RxInv, IrqExit
  PROVE  RxInv'
<1>1. NUM_RX \in Nat \ {0} /\ rx_index \in 0..(NUM_RX - 1)
  BY EthernetIfAssumption DEF RxInv, RxTypes, Rx
<1>2. PICK c \in 0..NUM_RX : RxHolds(c)
  BY DEF RxInv
<1>3. rx_own[rx_index] /\ UNCHANGED rxVars
  BY DEF IrqExit
<1>4. c = 0
  <2>1. Pos(NUM_RX, rx_index, 0) = rx_index /\ 0 \in 0..(NUM_RX - 1)
    BY <1>1, PosRound
  <2>2. rx_own[rx_index] <=> 0 >= c
    BY <1>2, <2>1 DEF RxHolds
  <2> QED BY <1>1, <1>3, <2>2
<1>5. ASSUME NEW d \in Rx PROVE rx_own[d]
  <2>1. PICK i \in 0..(NUM_RX - 1) : d = Pos(NUM_RX, rx_index, i)
    BY <1>1, PosOnto DEF Rx
  <2>2. i >= c
    BY <1>1, <1>4
  <2> QED BY <1>2, <2>1, <2>2 DEF RxHolds
<1>6. RxTypes' /\ RxHolds(c)'
  BY <1>2, <1>3 DEF RxInv, RxTypes, RxHolds, rxVars
<1>7. RxServed'
  BY <1>3, <1>5 DEF RxServed, rxVars
<1> QED BY <1>6, <1>7 DEF RxInv

\* Steps that leave the receive ring alone.
LEMMA RxUnchanged ==
  ASSUME RxInv, UNCHANGED rxVars, ipc' # "input" => ipc # "input"
  PROVE  RxInv'
<1>1. RxTypes' /\ RxServed'
  BY DEF RxInv, RxTypes, RxServed, rxVars
<1>2. PICK c \in 0..NUM_RX : RxHolds(c)
  BY DEF RxInv
<1>3. RxHolds(c)'
  BY <1>2 DEF RxHolds, rxVars
<1> QED BY <1>1, <1>3 DEF RxInv

LEMMA RxInvInit == Init => RxInv
<1> SUFFICES ASSUME Init PROVE RxInv
  OBVIOUS
<1>1. NUM_RX \in Nat \ {0} /\ POOL \in Nat \ {0} /\ 0 \in 0..(NUM_RX - 1) /\ 0 \in 0..NUM_RX
  BY EthernetIfAssumption
<1>2. RxTypes
  <2>1. rx_own \in [Rx -> BOOLEAN] /\ event \in BOOLEAN /\ cut \in BOOLEAN
    BY DEF Init
  <2>2. rx_index \in Rx /\ rx_dma \in Rx /\ pool \in 0..POOL
    BY <1>1 DEF Init, Rx
  <2> QED BY <2>1, <2>2 DEF RxTypes
<1>3. RxHolds(0)
  <2>1. rx_dma = Pos(NUM_RX, rx_index, 0)
    BY <1>1, PosRound DEF Init
  <2>2. ASSUME NEW i \in 0..(NUM_RX - 1) PROVE rx_own[Pos(NUM_RX, rx_index, i)] /\ i >= 0
    <3>1. i \in 0..NUM_RX /\ i >= 0 /\ rx_index = 0
      BY <1>1 DEF Init
    <3>2. Pos(NUM_RX, rx_index, i) \in Rx
      BY <1>1, <3>1, PosInRing DEF Rx
    <3> QED BY <3>1, <3>2 DEF Init
  <2> QED BY <2>1, <2>2 DEF RxHolds
<1>4. RxServed
  BY DEF Init, RxServed
<1> QED BY <1>1, <1>2, <1>3, <1>4 DEF RxInv

LEMMA RxInvNext == RxInv /\ [Next]_vars => RxInv'
<1> SUFFICES ASSUME RxInv, [Next]_vars PROVE RxInv'
  OBVIOUS
<1>1. CASE DmaReceive
  BY <1>1, DmaReceiveInv
<1>2. CASE IrqExit
  BY <1>2, IrqExitInv
<1>3. CASE IrqEnter
  <2>1. PICK c \in 0..NUM_RX : RxHolds(c)
    BY DEF RxInv
  <2>2. RxHolds(c)'
    BY <1>3, <2>1 DEF IrqEnter, RxHolds
  <2>3. RxTypes' /\ RxServed'
    BY <1>3 DEF IrqEnter, RxInv, RxTypes, RxServed
  <2> QED BY <2>2, <2>3 DEF RxInv
<1>4. CASE IrqLose \/ IrqFrame \/ IrqTftp
  <2>1. /\ ~rx_own[rx_index] /\ ReturnRxDescriptor /\ rx_dma' = rx_dma /\ event' = event
    BY <1>4 DEF IrqLose, IrqFrame, IrqTftp
  <2>2. cut' \in BOOLEAN /\ pool' \in 0..POOL
    <3>1. cut' = cut \/ cut' = TRUE
      BY <1>4 DEF IrqLose, IrqFrame, IrqTftp
    <3>2. pool' = pool \/ (pool > 0 /\ pool' = pool - 1)
      BY <1>4 DEF IrqLose, IrqFrame, IrqTftp
    <3>3. cut \in BOOLEAN /\ pool \in 0..POOL /\ POOL \in Nat
      BY EthernetIfAssumption DEF RxInv, RxTypes
    <3>4. pool' \in 0..POOL
      BY <3>2, <3>3
    <3> QED BY <3>1, <3>3, <3>4
  <2>3. cut' \/ ipc' = "input"
    BY <1>4 DEF IrqLose, IrqFrame, IrqTftp, InLoop
  <2>4. /\ \E c \in 0..NUM_RX : RxHolds(c)'
        /\ rx_own' \in [Rx -> BOOLEAN] /\ rx_index' \in Rx
        /\ \E d \in Rx : rx_own'[d]
    BY <2>1, ReturnRxInv
  <2>5. RxTypes'
    BY <2>1, <2>2, <2>4 DEF RxInv, RxTypes
  <2>6. RxServed'
    BY <2>3, <2>4 DEF RxServed
  <2> QED BY <2>4, <2>5, <2>6 DEF RxInv
<1>5. CASE DmaTransmit \/ DmaSuspend
  BY <1>5, RxUnchanged DEF DmaTransmit, DmaSuspend
<1>6. CASE LinkDown \/ LinkUp \/ LinkError \/ LinkDone
  BY <1>6, RxUnchanged DEF LinkDown, LinkUp, LinkError, LinkDone
<1>7. CASE IrqSendArp \/ IrqSendTftp
  BY <1>7, RxUnchanged DEF IrqSendArp, IrqSendTftp
<1>8. CASE Main
  <2>1. UNCHANGED <<rxVars, ipc>>
    BY <1>8 DEF Main, MainStart, MainHeaders, MainHeader, MainChain, MainDrop, MainUnresolved, MainFull,
                MainGetBuffer, MainCopyHead, MainCopyTail, MainSetSize, MainReturn, MainResume
  <2> QED BY <2>1, RxUnchanged
<1>9. CASE UNCHANGED vars
  BY <1>9, RxUnchanged DEF vars
<1> QED BY <1>1, <1>2, <1>3, <1>4, <1>5, <1>6, <1>7, <1>8, <1>9 DEF Next, Irq, Dma

\* The receive interrupt is not lost: FramesNotForgotten, for every number of
\* descriptors and every size of the pool.
THEOREM FramesNotForgottenHolds == Spec => []FramesNotForgotten
<1>1. RxInv => FramesNotForgotten
  BY DEF RxInv, RxServed, FramesNotForgotten
<1> QED BY <1>1, RxInvInit, RxInvNext, PTL DEF Spec

-----------------------------------------------------------------------------
(* The transmit ring.                                                      *)

Content == Frame \cup {"none", "mixed"}

\* The ring (own, buf) holds the frames q from descriptor dma up to index; sp
\* says whether TFTP frames may have been spoilt.
RingHolds(own, buf, index, dma, q, sp) ==
  /\ Len(q) <= NUM_TX
  /\ index = Pos(NUM_TX, dma, Len(q))
  /\ \A i \in 0..(NUM_TX - 1) :
       /\ own[Pos(NUM_TX, dma, i)] <=> i < Len(q)
       /\ own[Pos(NUM_TX, dma, i)] => Carries(buf[Pos(NUM_TX, dma, i)], q[i + 1], sp)

LEMMA TxFacts ==
  /\ NUM_TX \in Nat \ {0} /\ Tx = 0..(NUM_TX - 1)
  /\ 0 \in 0..(NUM_TX - 1) /\ 0 \in Tx /\ 1 \in 0..NUM_TX
BY EthernetIfAssumption DEF Tx

\* The descriptor at index is free exactly when the ring is not full.
LEMMA RingFree ==
  ASSUME NEW own \in [Tx -> BOOLEAN], NEW buf, NEW index \in Tx, NEW dma \in Tx,
         NEW q \in Seq(Frame), NEW sp, RingHolds(own, buf, index, dma, q, sp), ~own[index]
  PROVE  Len(q) \in 0..(NUM_TX - 1)
<1>1. Pos(NUM_TX, dma, 0) = dma /\ Pos(NUM_TX, dma, NUM_TX) = dma
  BY TxFacts, PosRound
<1>2. own[dma] <=> 0 < Len(q)
  BY <1>1, TxFacts DEF RingHolds
<1>3. Len(q) = NUM_TX => index = dma
  BY <1>1 DEF RingHolds
<1>4. Len(q) \in Nat /\ Len(q) <= NUM_TX
  BY DEF RingHolds
<1> QED BY <1>2, <1>3, <1>4, TxFacts

\* A frame at index is given to the DMA.
LEMMA RingPush ==
  ASSUME NEW own \in [Tx -> BOOLEAN], NEW buf \in [Tx -> Content],
         NEW index \in Tx, NEW dma \in Tx,
         NEW q \in Seq(Frame), NEW sp, RingHolds(own, buf, index, dma, q, sp), ~own[index],
         NEW f \in Frame, NEW buf2, Carries(buf2[index], f, sp),
         \A d \in Tx : d # index => buf2[d] = buf[d]
  PROVE  RingHolds([own EXCEPT ![index] = TRUE], buf2, Pos(NUM_TX, index, 1), dma, Append(q, f), sp)
<1> DEFINE own2 == [own EXCEPT ![index] = TRUE]
           q2   == Append(q, f)
<1>1. Len(q) \in 0..(NUM_TX - 1)
  BY RingFree
<1>2. Len(q2) = Len(q) + 1 /\ q2[Len(q) + 1] = f /\ \A i \in 1..Len(q) : q2[i] = q[i]
  OBVIOUS
<1>3. Len(q2) <= NUM_TX
  BY <1>1, <1>2, TxFacts
<1>4. Pos(NUM_TX, index, 1) = Pos(NUM_TX, dma, Len(q2))
  <2>1. index = Pos(NUM_TX, dma, Len(q))
    BY DEF RingHolds
  <2>2. Pos(NUM_TX, Pos(NUM_TX, dma, Len(q)), 1) = Pos(NUM_TX, dma, Len(q) + 1)
    BY <1>1, TxFacts, PosNext
  <2> QED BY <1>2, <2>1, <2>2
<1>5. ASSUME NEW i \in 0..(NUM_TX - 1)
      PROVE  /\ own2[Pos(NUM_TX, dma, i)] <=> i < Len(q2)
             /\ own2[Pos(NUM_TX, dma, i)] => Carries(buf2[Pos(NUM_TX, dma, i)], q2[i + 1], sp)
  <2> DEFINE d == Pos(NUM_TX, dma, i)
  <2>1. d \in Tx
    <3>1. i \in 0..NUM_TX
      BY TxFacts
    <3> QED BY <3>1, TxFacts, PosInRing
  <2>2. d = index <=> i = Len(q)
    BY <1>1, TxFacts, PosInjective DEF RingHolds
  <2>3. (own[d] <=> i < Len(q)) /\ (own[d] => Carries(buf[d], q[i + 1], sp))
    BY DEF RingHolds
  <2> HIDE DEF d
  <2>4. CASE i = Len(q)
    <3>1. own2[d] /\ Carries(buf2[d], f, sp)
      BY <2>1, <2>2, <2>4
    <3>2. i < Len(q2) /\ q2[i + 1] = f
      BY <1>1, <1>2, <2>4
    <3> HIDE DEF own2, q2
    <3> QED BY <3>1, <3>2 DEF d
  <2>5. CASE i # Len(q)
    <3>1. own2[d] = own[d] /\ buf2[d] = buf[d]
      BY <2>1, <2>2, <2>5
    <3>2. i < Len(q2) <=> i < Len(q)
      BY <1>1, <1>2, <2>5
    <3>3. i < Len(q) => q2[i + 1] = q[i + 1]
      BY <1>1, <1>2
    <3> HIDE DEF own2, q2
    <3> QED BY <2>3, <3>1, <3>2, <3>3 DEF d
  <2> QED BY <2>4, <2>5
<1> HIDE DEF own2, q2
<1>6. RingHolds(own2, buf2, Pos(NUM_TX, index, 1), dma, q2, sp)
  BY <1>3, <1>4, <1>5 DEF RingHolds
<1> QED BY <1>6 DEF own2, q2

\* The DMA sends its first frame.
LEMMA RingPop ==
  ASSUME NEW own \in [Tx -> BOOLEAN], NEW buf \in [Tx -> Content],
         NEW index \in Tx, NEW dma \in Tx,
         NEW q \in Seq(Frame), NEW sp, RingHolds(own, buf, index, dma, q, sp), own[dma]
  PROVE  /\ q # <<>> /\ Tail(q) \in Seq(Frame)
         /\ RingHolds([own EXCEPT ![dma] = FALSE], [buf EXCEPT ![dma] = "none"],
                      index, Pos(NUM_TX, dma, 1), Tail(q), sp)
<1> DEFINE own2 == [own EXCEPT ![dma] = FALSE]
           buf2 == [buf EXCEPT ![dma] = "none"]
           q2   == Tail(q)
<1>1. Pos(NUM_TX, dma, 0) = dma /\ Pos(NUM_TX, dma, NUM_TX) = dma
  BY TxFacts, PosRound
<1>2. Len(q) \in 1..NUM_TX
  <2>1. own[dma] <=> 0 < Len(q)
    BY <1>1, TxFacts DEF RingHolds
  <2> QED BY <2>1, TxFacts DEF RingHolds
<1>3. /\ q # <<>> /\ q2 \in Seq(Frame) /\ Len(q2) = Len(q) - 1
      /\ \A i \in 1..(Len(q) - 1) : q2[i] = q[i + 1]
  BY <1>2
<1>4. Len(q2) <= NUM_TX
  BY <1>2, <1>3, TxFacts
<1>5. index = Pos(NUM_TX, Pos(NUM_TX, dma, 1), Len(q2))
  <2>1. Len(q) - 1 \in 0..(NUM_TX - 1) /\ Len(q) - 1 + 1 = Len(q)
    BY <1>2, TxFacts
  <2>2. Pos(NUM_TX, Pos(NUM_TX, dma, 1), Len(q) - 1) = Pos(NUM_TX, dma, Len(q) - 1 + 1)
    BY <2>1, TxFacts, PosNext
  <2> QED BY <1>3, <2>1, <2>2 DEF RingHolds
<1>6. ASSUME NEW i \in 0..(NUM_TX - 1)
      PROVE  LET d == Pos(NUM_TX, Pos(NUM_TX, dma, 1), i)
             IN  (own2[d] <=> i < Len(q2)) /\ (own2[d] => Carries(buf2[d], q2[i + 1], sp))
  <2> DEFINE d == Pos(NUM_TX, Pos(NUM_TX, dma, 1), i)
  <2>1. d = Pos(NUM_TX, dma, i + 1)
    BY TxFacts, PosNext
  <2>2. CASE i = NUM_TX - 1
    <3>1. d = dma
      <4>1. i + 1 = NUM_TX
        BY <2>2, TxFacts
      <4> QED BY <1>1, <2>1, <4>1
    <3>2. ~(i < Len(q2))
      BY <1>2, <1>3, <2>2, TxFacts
    <3> HIDE DEF d
    <3>3. ~own2[d]
      BY <3>1
    <3> HIDE DEF own2, buf2, q2
    <3> QED BY <3>2, <3>3 DEF d
  <2>3. CASE i # NUM_TX - 1
    <3>1. i + 1 \in 0..(NUM_TX - 1) /\ i + 1 \in 0..NUM_TX /\ i + 1 # 0
      BY <2>3, TxFacts
    <3>2. (own[d] <=> i + 1 < Len(q)) /\ (own[d] => Carries(buf[d], q[i + 1 + 1], sp))
      BY <2>1, <3>1 DEF RingHolds
    <3>3. d \in Tx
      BY <2>1, <3>1, TxFacts, PosInRing
    <3>4. d # dma
      BY <1>1, <2>1, <3>1, TxFacts, PosInjective
    <3> HIDE DEF d
    <3>5. own2[d] = own[d] /\ buf2[d] = buf[d]
      BY <3>3, <3>4
    <3>6. i + 1 < Len(q) <=> i < Len(q2)
      BY <1>2, <1>3, <3>1
    <3>7. i + 1 < Len(q) => q2[i + 1] = q[i + 1 + 1]
      BY <1>2, <1>3, <3>1
    <3> HIDE DEF own2, buf2, q2
    <3> QED BY <3>2, <3>5, <3>6, <3>7 DEF d
  <2> QED BY <2>2, <2>3
<1> HIDE DEF own2, buf2, q2
<1>7. RingHolds(own2, buf2, index, Pos(NUM_TX, dma, 1), q2, sp)
  BY <1>4, <1>5, <1>6 DEF RingHolds
<1> QED BY <1>3, <1>7 DEF own2, buf2, q2

\* A free descriptor's buffer is filled.
LEMMA RingWrite ==
  ASSUME NEW own \in [Tx -> BOOLEAN], NEW buf \in [Tx -> Content],
         NEW index \in Tx, NEW dma \in Tx,
         NEW q \in Seq(Frame), NEW sp, RingHolds(own, buf, index, dma, q, sp),
         NEW b \in Tx, ~own[b], NEW x
  PROVE  RingHolds(own, [buf EXCEPT ![b] = x], index, dma, q, sp)
<1> DEFINE buf2 == [buf EXCEPT ![b] = x]
<1>1. ASSUME NEW i \in 0..(NUM_TX - 1), own[Pos(NUM_TX, dma, i)]
      PROVE  buf2[Pos(NUM_TX, dma, i)] = buf[Pos(NUM_TX, dma, i)]
  <2>1. i \in 0..NUM_TX
    BY TxFacts
  <2>2. Pos(NUM_TX, dma, i) \in Tx
    BY <2>1, TxFacts, PosInRing
  <2> QED BY <1>1, <2>2
<1> HIDE DEF buf2
<1>2. RingHolds(own, buf2, index, dma, q, sp)
  BY <1>1 DEF RingHolds
<1> QED BY <1>2 DEF buf2

\* A reply written under main's hands is no news for the frames in the ring.
LEMMA RingSpoilt ==
  ASSUME NEW own, NEW buf, NEW index, NEW dma, NEW q, NEW sp, NEW sp2, sp => sp2,
         RingHolds(own, buf, index, dma, q, sp)
  PROVE  RingHolds(own, buf, index, dma, q, sp2)
BY DEF RingHolds, Carries

-----------------------------------------------------------------------------
(* Transmission by main and by the interrupt.                              *)

TxTypes ==
  /\ tx_own \in [Tx -> BOOLEAN] /\ tx_buf \in [Tx -> Content]
  /\ tx_index \in Tx /\ tx_dma \in Tx /\ tx_susp \in BOOLEAN
  /\ queue \in Seq(Frame) /\ raced \in BOOLEAN

Labels == {"idle", "udp", "ip", "eth", "check", "copyHead", "copyTail", "size",
           "return", "resume"}

ContextTypes ==
  /\ room \in [Pbuf -> 0..HEADROOM] /\ dropped \in [Pbuf -> 0..MaxDropped]
  /\ link \in {"down", "up", "hung"}
  /\ ipc \in {"idle", "input", "link"} /\ todo \in Seq(Frame)
  /\ mpc \in Labels /\ cur \in Pbuf /\ buffer \in Tx
  /\ rewritten \in BOOLEAN /\ spoiled \in BOOLEAN

\* While main fills a buffer and was not overtaken, the buffer is the one at
\* tx_index, still free, and holds what main has put there.
Window ==
  ~raced /\ InWindow =>
    /\ buffer = tx_index /\ ~tx_own[buffer]
    /\ mpc = "copyTail" => tx_buf[buffer] = "mixed"
    /\ mpc \in {"size", "return"} => Carries(tx_buf[buffer], cur, spoiled)

\* Only the TFTP pbuf is ever rewritten while main sends it.
Spoilt == rewritten => spoiled /\ cur = "tftp_p"

RingInv == ~raced => RingHolds(tx_own, tx_buf, tx_index, tx_dma, queue, spoiled)

TxInv == TxTypes /\ RingInv /\ Window /\ Spoilt

LEMMA ContextInit == Init => ContextTypes
<1> SUFFICES ASSUME Init PROVE ContextTypes
  OBVIOUS
<1>1. room \in [Pbuf -> 0..HEADROOM] /\ dropped \in [Pbuf -> 0..MaxDropped]
  BY DEF Init, HEADROOM, MaxDropped
<1>2. todo \in Seq(Frame) /\ cur \in Pbuf /\ buffer \in Tx
  BY TxFacts DEF Init, Pbuf
<1> QED BY <1>1, <1>2 DEF Init, ContextTypes, Labels

LEMMA ContextNext == ContextTypes /\ TxTypes /\ [Next]_vars => ContextTypes'
<1> SUFFICES ASSUME ContextTypes, TxTypes, [Next]_vars PROVE ContextTypes'
  OBVIOUS
<1>1. CASE Dma \/ UNCHANGED vars
  BY <1>1 DEF Dma, DmaReceive, DmaTransmit, DmaSuspend, ContextTypes, vars, pbufVars, mainVars
<1>2. CASE IrqEnter \/ IrqExit \/ IrqLose \/ LinkDown \/ LinkError \/ LinkDone
  BY <1>2 DEF IrqEnter, IrqExit, IrqLose, LinkDown, LinkError, LinkDone,
              ContextTypes, pbufVars, mainVars
<1>3. CASE IrqFrame \/ IrqTftp \/ LinkUp
  <2>1. "arp" \in Frame /\ "tftp_p" \in Frame
    BY DEF Frame, Pbuf
  <2>2. /\ <<>> \in Seq(Frame) /\ <<"arp">> \in Seq(Frame)
        /\ <<"tftp_p">> \in Seq(Frame) /\ <<"tftp_p", "tftp_p">> \in Seq(Frame)
    BY <2>1
  <2>3. todo' \in Seq(Frame)
    BY <1>3, <2>2 DEF IrqFrame, IrqTftp, LinkUp
  <2> QED BY <1>3, <2>3 DEF IrqFrame, IrqTftp, LinkUp, ContextTypes, pbufVars, mainVars
<1>4. CASE IrqSendArp \/ IrqSendTftp
  <2>1. todo' \in Seq(Frame) /\ UNCHANGED <<link, ipc, mpc, cur, buffer>>
    <3>1. todo # <<>> /\ todo' = Tail(todo) /\ UNCHANGED <<link, ipc, mpc, cur, buffer>>
      BY <1>4 DEF IrqSendArp, IrqSendTftp, mainVars
    <3> QED BY <3>1 DEF ContextTypes
  <2>2. room' \in [Pbuf -> 0..HEADROOM]
    BY <1>4 DEF IrqSendArp, IrqSendTftp, ContextTypes, pbufVars
  <2>3. dropped' \in [Pbuf -> 0..MaxDropped]
    <3>1. CASE UNCHANGED dropped
      BY <3>1 DEF ContextTypes
    <3>2. CASE dropped' = [dropped EXCEPT !["tftp_p"] = Count(@)]
      <4>1. "tftp_p" \in Pbuf /\ dropped \in [Pbuf -> 0..MaxDropped]
        BY DEF ContextTypes, Pbuf
      <4>2. Count(dropped["tftp_p"]) \in 0..MaxDropped
        BY <4>1 DEF Count, MaxDropped
      <4> QED BY <3>2, <4>1, <4>2
    <3> QED BY <1>4, <3>1, <3>2 DEF IrqSendArp, IrqSendTftp, pbufVars
  <2>4. rewritten' \in BOOLEAN /\ spoiled' \in BOOLEAN
    BY <1>4 DEF IrqSendArp, IrqSendTftp, WriteReply, ContextTypes, mainVars, pbufVars
  <2> QED BY <2>1, <2>2, <2>3, <2>4 DEF ContextTypes
<1>5. CASE Main
  <2>1. UNCHANGED <<link, ipc, todo>>
    BY <1>5 DEF Main, MainStart, MainHeaders, MainHeader, MainChain, MainDrop, MainUnresolved, MainFull,
                MainGetBuffer, MainCopyHead, MainCopyTail, MainSetSize, MainReturn, MainResume
  <2>2. mpc' \in Labels
    BY <1>5 DEF Main, MainStart, MainHeaders, MainHeader, MainChain, MainDrop, MainUnresolved, MainFull,
                MainGetBuffer, MainCopyHead, MainCopyTail, MainSetSize, MainReturn, MainResume,
                MainReturns, MainSent, Labels
  <2>3. cur' \in Pbuf
    BY <1>5 DEF Main, MainStart, MainHeaders, MainHeader, MainChain, MainDrop, MainUnresolved, MainFull,
                MainGetBuffer, MainCopyHead, MainCopyTail, MainSetSize, MainReturn, MainResume,
                MainReturns, MainSent, ContextTypes, Pbuf
  <2>4. buffer' \in Tx
    BY <1>5, TxFacts DEF Main, MainStart, MainHeaders, MainHeader, MainChain, MainDrop, MainUnresolved, MainFull,
                MainGetBuffer, MainCopyHead, MainCopyTail, MainSetSize, MainReturn, MainResume,
                MainReturns, MainSent, ContextTypes, TxTypes
  <2>5. room' \in [Pbuf -> 0..HEADROOM]
    <3>1. CASE UNCHANGED room
      BY <3>1 DEF ContextTypes
    <3>2. ASSUME NEW n \in {UDP_HLEN, IP_HLEN, ETH_HLEN}, HasRoom(cur, n),
                 room' = [room EXCEPT ![cur] = @ - n]
          PROVE  room' \in [Pbuf -> 0..HEADROOM]
      <4>1. n \in Nat /\ HEADROOM \in Nat
        BY <3>2 DEF UDP_HLEN, IP_HLEN, ETH_HLEN, HEADROOM
      <4>2. cur \in Pbuf /\ room \in [Pbuf -> 0..HEADROOM] /\ room[cur] \in 0..HEADROOM
        BY DEF ContextTypes
      <4>3. room[cur] - n \in 0..HEADROOM
        BY <3>2, <4>1, <4>2 DEF HasRoom
      <4> QED BY <3>2, <4>2, <4>3
    <3> QED BY <1>5, <3>1, <3>2 DEF Main, MainStart, MainHeaders, MainHeader, MainChain, MainDrop,
                MainUnresolved, MainFull, MainGetBuffer, MainCopyHead, MainCopyTail, MainSetSize, MainReturn,
                MainResume, pbufVars
  <2>6. dropped' \in [Pbuf -> 0..MaxDropped]
    <3>1. CASE UNCHANGED dropped
      BY <3>1 DEF ContextTypes
    <3>2. CASE dropped' = [dropped EXCEPT ![cur] = Count(@)]
      BY <3>2 DEF ContextTypes, Count, MaxDropped
    <3> QED BY <1>5, <3>1, <3>2 DEF Main, MainStart, MainHeaders, MainHeader, MainChain, MainDrop,
                MainUnresolved, MainFull, MainGetBuffer, MainCopyHead, MainCopyTail, MainSetSize, MainReturn,
                MainResume, pbufVars
  <2>7. spoiled' = spoiled
    BY <1>5 DEF Main, MainStart, MainHeaders, MainHeader, MainChain, MainDrop, MainUnresolved, MainFull,
                MainGetBuffer, MainCopyHead, MainCopyTail, MainSetSize, MainReturn, MainResume, pbufVars
  <2>8. rewritten' = rewritten \/ rewritten' = FALSE
    BY <1>5 DEF Main, MainStart, MainHeaders, MainHeader, MainChain, MainDrop, MainUnresolved, MainFull,
                MainGetBuffer, MainCopyHead, MainCopyTail, MainSetSize, MainReturn, MainResume,
                MainReturns, MainSent
  <2> QED BY <2>1, <2>2, <2>3, <2>4, <2>5, <2>6, <2>7, <2>8 DEF ContextTypes
<1> QED BY <1>1, <1>2, <1>3, <1>4, <1>5 DEF Next, Irq

\* Steps of the others, which leave main where it is; a reply may be written
\* into the pbuf it is sending.
Aside == UNCHANGED <<mpc, cur, buffer>> /\ (UNCHANGED <<rewritten, spoiled>> \/ WriteReply)

LEMMA AsideFacts ==
  ASSUME TxInv, Aside
  PROVE  /\ spoiled => spoiled'
         /\ Spoilt'
         /\ InWindow' <=> InWindow
<1>1. Spoilt /\ mpc' = mpc /\ cur' = cur
  BY DEF Aside, TxInv
<1>2. CASE rewritten' = rewritten /\ spoiled' = spoiled
  BY <1>1, <1>2 DEF Spoilt, InWindow
<1>3. CASE WriteReply
  <2>1. (spoiled => spoiled') /\ Spoilt'
    BY <1>1, <1>3, Zenon DEF WriteReply, Spoilt
  <2> QED BY <1>1, <2>1 DEF InWindow
<1> QED BY <1>2, <1>3 DEF Aside

\* Steps that leave the ring and the window of main alone.
LEMMA TxUnchanged ==
  ASSUME TxInv, UNCHANGED <<ringVars, tx_dma>>, Aside, tx_susp' \in BOOLEAN
  PROVE  TxInv'
<1>1. (spoiled => spoiled') /\ Spoilt' /\ (InWindow' <=> InWindow)
  BY AsideFacts
<1>2. RingInv'
  <2> SUFFICES ASSUME ~raced
      PROVE  RingHolds(tx_own, tx_buf, tx_index, tx_dma, queue, spoiled')
    BY DEF RingInv, ringVars
  <2>1. RingHolds(tx_own, tx_buf, tx_index, tx_dma, queue, spoiled)
    BY DEF TxInv, RingInv
  <2> QED BY <1>1, <2>1, RingSpoilt
<1>3. TxTypes'
  BY DEF TxInv, TxTypes, ringVars
<1>4. Window'
  BY <1>1 DEF TxInv, Window, ringVars, Aside, Carries
<1> QED BY <1>1, <1>2, <1>3, <1>4 DEF TxInv

\* Steps of main outside of the window.
LEMMA TxOutside ==
  ASSUME TxInv, UNCHANGED <<ringVars, tx_dma, spoiled>>, tx_susp' \in BOOLEAN, ~InWindow',
         rewritten' => rewritten /\ cur' = cur
  PROVE  TxInv'
BY DEF TxInv, TxTypes, RingInv, Window, ringVars, Spoilt

LEMMA TxInit == Init => TxInv
<1> SUFFICES ASSUME Init PROVE TxInv
  OBVIOUS
<1>1. TxTypes
  <2>1. tx_own \in [Tx -> BOOLEAN] /\ tx_buf \in [Tx -> Content]
    BY DEF Init, Content
  <2>2. raced \in BOOLEAN /\ tx_susp \in BOOLEAN
    BY DEF Init
  <2>4. queue \in Seq(Frame)
    BY DEF Init
  <2>3. tx_index \in Tx /\ tx_dma \in Tx
    BY TxFacts DEF Init
  <2> QED BY <2>1, <2>2, <2>3, <2>4 DEF TxTypes
<1>2. RingHolds(tx_own, tx_buf, tx_index, tx_dma, queue, spoiled)
  <2>1. Len(queue) = 0 /\ tx_index = Pos(NUM_TX, tx_dma, 0)
    BY TxFacts, PosRound DEF Init
  <2>2. ASSUME NEW i \in 0..(NUM_TX - 1) PROVE ~tx_own[Pos(NUM_TX, tx_dma, i)] /\ ~(i < 0)
    <3>1. i \in 0..NUM_TX /\ ~(i < 0) /\ tx_dma = 0
      BY TxFacts DEF Init
    <3>2. Pos(NUM_TX, tx_dma, i) \in Tx
      BY <3>1, TxFacts, PosInRing
    <3> QED BY <3>1, <3>2 DEF Init
  <2> QED BY <2>1, <2>2, TxFacts DEF RingHolds
<1>3. Window
  BY DEF Init, Window, InWindow
<1>4. Spoilt
  BY DEF Init, Spoilt
<1> QED BY <1>1, <1>2, <1>3, <1>4 DEF TxInv, RingInv

\* low_level_output in the interrupt.
LEMMA OutputInv ==
  ASSUME TxInv, NEW f \in Frame, Output(f), tx_dma' = tx_dma, Aside
  PROVE  TxInv'
<1>0. (spoiled => spoiled') /\ Spoilt'
  BY AsideFacts
<1>1. CASE tx_own[tx_index]
  BY <1>1, TxUnchanged DEF Output
<1>2. CASE ~tx_own[tx_index]
  <2>1. /\ tx_buf' = [tx_buf EXCEPT ![tx_index] = f]
        /\ tx_own' = [tx_own EXCEPT ![tx_index] = TRUE]
        /\ tx_index' = Pos(NUM_TX, tx_index, 1)
        /\ raced' = (raced \/ InWindow)
        /\ queue' = IF raced' THEN <<>> ELSE Append(queue, f)
        /\ tx_susp' = FALSE
    BY <1>2 DEF Output, Pos
  <2>2. f \in Content
    BY DEF Content
  <2>3. TxTypes'
    <3>1. tx_index' \in Tx
      BY <2>1, TxFacts, PosInRing DEF TxInv, TxTypes
    <3>2. queue' \in Seq(Frame)
      BY <2>1 DEF TxInv, TxTypes
    <3>3. raced' \in BOOLEAN /\ tx_susp' \in BOOLEAN /\ tx_dma' \in Tx
      BY <2>1 DEF TxInv, TxTypes, InWindow
    <3>4. tx_own' \in [Tx -> BOOLEAN] /\ tx_buf' \in [Tx -> Content]
      BY <2>1, <2>2 DEF TxInv, TxTypes
    <3> QED BY <3>1, <3>2, <3>3, <3>4 DEF TxTypes
  <2>4. ASSUME ~raced' PROVE RingHolds(tx_own, tx_buf, tx_index, tx_dma, queue, spoiled)'
    <3>1. ~raced /\ queue' = Append(queue, f) /\ tx_dma' = tx_dma
      BY <2>1, <2>4
    <3>2. RingHolds(tx_own, tx_buf, tx_index, tx_dma, queue, spoiled)
      BY <3>1 DEF TxInv, RingInv
    <3>3. Carries(tx_buf'[tx_index], f, spoiled) /\ \A d \in Tx : d # tx_index => tx_buf'[d] = tx_buf[d]
      BY <2>1 DEF TxInv, TxTypes, Carries
    <3>4. RingHolds(tx_own', tx_buf', tx_index', tx_dma, Append(queue, f), spoiled)
      BY <1>2, <2>1, <3>2, <3>3, RingPush DEF TxInv, TxTypes
    <3> QED BY <1>0, <3>1, <3>4, RingSpoilt
  <2>5. Window'
    BY <2>1, AsideFacts DEF Window
  <2> QED BY <1>0, <2>3, <2>4, <2>5 DEF TxInv, RingInv
<1> QED BY <1>1, <1>2

\* The DMA takes a frame; main's buffer, being free, is another one.
LEMMA DmaTransmitInv ==
  ASSUME TxInv, DmaTransmit
  PROVE  TxInv'
<1>1. /\ tx_own[tx_dma]
      /\ tx_own' = [tx_own EXCEPT ![tx_dma] = FALSE]
      /\ tx_buf' = [tx_buf EXCEPT ![tx_dma] = "none"]
      /\ tx_dma' = Pos(NUM_TX, tx_dma, 1)
      /\ queue' = IF raced THEN queue ELSE Tail(queue)
      /\ UNCHANGED <<tx_index, tx_susp, raced, mainVars, spoiled>>
  BY DEF DmaTransmit, Pos, pbufVars
<1>2. ASSUME ~raced
      PROVE  /\ Tail(queue) \in Seq(Frame)
             /\ RingHolds(tx_own', tx_buf', tx_index, tx_dma', Tail(queue), spoiled)
  BY <1>1, <1>2, RingPop DEF TxInv, TxTypes, RingInv
<1>3. TxTypes'
  <2>1. tx_dma' \in Tx
    BY <1>1, TxFacts, PosInRing DEF TxInv, TxTypes
  <2>2. queue' \in Seq(Frame)
    BY <1>1, <1>2 DEF TxInv, TxTypes
  <2>3. tx_own' \in [Tx -> BOOLEAN] /\ tx_buf' \in [Tx -> Content]
    BY <1>1 DEF TxInv, TxTypes, Content
  <2> QED BY <1>1, <2>1, <2>2, <2>3 DEF TxInv, TxTypes
<1>4. RingInv'
  BY <1>1, <1>2 DEF RingInv
<1>5. Window'
  <2> SUFFICES ASSUME ~raced, InWindow
      PROVE  /\ buffer' = tx_index' /\ ~tx_own'[buffer']
             /\ mpc' = "copyTail" => tx_buf'[buffer'] = "mixed"
             /\ mpc' \in {"size", "return"} => Carries(tx_buf'[buffer'], cur', spoiled')
    BY <1>1 DEF Window, InWindow, mainVars
  <2>1. buffer = tx_index /\ ~tx_own[buffer] /\ buffer \in Tx /\ buffer # tx_dma
    BY <1>1 DEF TxInv, TxTypes, Window
  <2>2. tx_own'[buffer] = tx_own[buffer] /\ tx_buf'[buffer] = tx_buf[buffer]
    BY <1>1, <2>1 DEF TxInv, TxTypes
  <2>3. UNCHANGED <<mpc, cur, buffer, tx_index, spoiled>>
    BY <1>1 DEF mainVars
  <2> QED BY <2>1, <2>2, <2>3 DEF TxInv, Window
<1>6. Spoilt'
  BY <1>1 DEF TxInv, Spoilt, mainVars
<1> QED BY <1>3, <1>4, <1>5, <1>6 DEF TxInv

\* The steps of main that fill the buffer.
LEMMA MainFillInv ==
  ASSUME TxInv, ContextTypes, MainCopyHead \/ MainCopyTail \/ MainSetSize
  PROVE  TxInv'
<1>1. /\ UNCHANGED <<tx_own, tx_index, tx_dma, tx_susp, queue, raced, cur, buffer, rewritten, spoiled>>
      /\ InWindow /\ mpc' \in {"copyTail", "size", "return"}
  BY DEF MainCopyHead, MainCopyTail, MainSetSize, MainAt, InWindow, pbufVars
<1>2. PICK b \in Tx, x \in Content :
        tx_buf' = [tx_buf EXCEPT ![b] = x] /\ b = IF MainSetSize THEN tx_index ELSE buffer
  <2>1. "mixed" \in Content /\ cur \in Content
    BY DEF ContextTypes, Content, Frame
  <2>2. \A b \in Tx : tx_buf[b] \in Content
    BY DEF TxInv, TxTypes
  <2>3. CASE MainCopyHead
    BY <2>1, <2>3 DEF MainCopyHead, MainSetSize, MainAt, ContextTypes
  <2>4. CASE MainCopyTail
    BY <2>1, <2>4 DEF MainCopyTail, MainSetSize, MainAt, ContextTypes
  <2>5. CASE MainSetSize
    BY <2>1, <2>2, <2>5 DEF MainSetSize, TxInv, TxTypes
  <2> QED BY <2>3, <2>4, <2>5
<1>3. TxTypes'
  BY <1>1, <1>2 DEF TxInv, TxTypes
<1>4. ASSUME ~raced PROVE b = buffer /\ b = tx_index /\ ~tx_own[b]
  BY <1>1, <1>2, <1>4 DEF TxInv, Window
<1>5. RingInv'
  <2>1. ASSUME ~raced PROVE RingHolds(tx_own, tx_buf', tx_index, tx_dma, queue, spoiled)
    BY <1>2, <1>4, <2>1, RingWrite DEF TxInv, TxTypes, RingInv
  <2> QED BY <1>1, <2>1 DEF RingInv
<1>6. Window'
  <2> SUFFICES ASSUME ~raced
      PROVE  /\ mpc' = "copyTail" => tx_buf'[buffer] = "mixed"
             /\ mpc' \in {"size", "return"} => Carries(tx_buf'[buffer], cur, spoiled)
    BY <1>1, <1>4 DEF Window
  <2>1. buffer = tx_index /\ tx_buf \in [Tx -> Content] /\ buffer \in Tx
    BY <1>4 DEF TxInv, TxTypes
  <2>2. CASE MainCopyHead
    BY <2>1, <2>2 DEF MainCopyHead
  <2>3. CASE MainCopyTail
    BY <1>1, <2>1, <2>3 DEF MainCopyTail, MainAt, TxInv, Window, Spoilt, Carries
  <2>4. CASE MainSetSize
    BY <1>1, <2>1, <2>4 DEF MainSetSize, MainAt, TxInv, Window
  <2> QED BY <2>2, <2>3, <2>4
<1>7. Spoilt'
  BY <1>1 DEF TxInv, Spoilt
<1> QED BY <1>3, <1>5, <1>6, <1>7 DEF TxInv

\* main hands its frame to the DMA.
LEMMA MainReturnInv ==
  ASSUME TxInv, ContextTypes, MainReturn
  PROVE  TxInv'
<1>1. /\ mpc = "return" /\ mpc' = "resume"
      /\ tx_own' = [tx_own EXCEPT ![tx_index] = TRUE]
      /\ tx_index' = Pos(NUM_TX, tx_index, 1)
      /\ queue' = IF raced THEN queue ELSE Append(queue, cur)
      /\ UNCHANGED <<tx_buf, raced, tx_dma, tx_susp, cur, rewritten, spoiled>>
  BY DEF MainReturn, MainAt, Pos, pbufVars
<1>2. cur \in Frame
  BY DEF ContextTypes, Frame
<1>3. TxTypes'
  <2>1. tx_index' \in Tx
    BY <1>1, TxFacts, PosInRing DEF TxInv, TxTypes
  <2>2. queue' \in Seq(Frame)
    BY <1>1, <1>2 DEF TxInv, TxTypes
  <2> QED BY <1>1, <2>1, <2>2 DEF TxInv, TxTypes
<1>4. RingInv'
  <2> SUFFICES ASSUME ~raced
      PROVE  RingHolds(tx_own', tx_buf, tx_index', tx_dma, Append(queue, cur), spoiled)
    BY <1>1 DEF RingInv
  <2>1. ~tx_own[tx_index] /\ Carries(tx_buf[tx_index], cur, spoiled)
    BY <1>1 DEF TxInv, Window, InWindow
  <2> QED BY <1>1, <1>2, <2>1, RingPush DEF TxInv, TxTypes, RingInv
<1>5. Window'
  BY <1>1 DEF Window, InWindow
<1>6. Spoilt'
  BY <1>1 DEF TxInv, Spoilt
<1> QED BY <1>3, <1>4, <1>5, <1>6 DEF TxInv

LEMMA TxNext == TxInv /\ ContextTypes /\ [Next]_vars => TxInv'
<1> SUFFICES ASSUME TxInv, ContextTypes, [Next]_vars PROVE TxInv'
  OBVIOUS
<1>0. tx_susp \in BOOLEAN /\ "arp" \in Frame /\ "tftp_p" \in Frame
  BY DEF TxInv, TxTypes, Frame, Pbuf
<1>1. CASE DmaReceive \/ DmaSuspend \/ UNCHANGED vars
  BY <1>0, <1>1, TxUnchanged DEF DmaReceive, DmaSuspend, vars, txVars, mainVars, pbufVars, Aside
<1>2. CASE DmaTransmit
  BY <1>2, DmaTransmitInv
<1>3. CASE IrqEnter \/ IrqExit \/ IrqLose \/ IrqFrame \/ IrqTftp
  BY <1>0, <1>3, TxUnchanged
     DEF IrqEnter, IrqExit, IrqLose, IrqFrame, IrqTftp, txVars, mainVars, pbufVars, Aside
<1>4. CASE LinkDown \/ LinkUp \/ LinkError \/ LinkDone
  BY <1>0, <1>4, TxUnchanged
     DEF LinkDown, LinkUp, LinkError, LinkDone, txVars, mainVars, pbufVars, Aside
<1>5. CASE IrqSendArp
  <2>1. Output("arp") /\ tx_dma' = tx_dma /\ Aside
    BY <1>5 DEF IrqSendArp, mainVars, pbufVars, Aside
  <2> QED BY <1>0, <2>1, OutputInv
<1>6. CASE IrqSendTftp
  <2>1. tx_dma' = tx_dma /\ Aside /\ (Output("tftp_p") \/ UNCHANGED <<ringVars, tx_susp>>)
    BY <1>6 DEF IrqSendTftp, Aside
  <2> QED BY <1>0, <2>1, OutputInv, TxUnchanged
<1>7. CASE (\E b \in Pbuf : MainStart(b)) \/ MainHeaders
  <2>1. UNCHANGED <<ringVars, tx_dma, tx_susp, spoiled>>
    BY <1>7 DEF MainStart, MainHeaders, MainHeader, MainChain, MainDrop, txVars, pbufVars
  <2>2. ~InWindow'
    BY <1>7 DEF MainStart, MainHeaders, MainHeader, MainChain, MainDrop, MainReturns, InWindow
  <2>3. rewritten' => rewritten /\ cur' = cur
    BY <1>7 DEF MainStart, MainHeaders, MainHeader, MainChain, MainDrop, MainReturns, MainAt
  <2> QED BY <1>0, <2>1, <2>2, <2>3, TxOutside
<1>8. CASE MainUnresolved \/ MainFull \/ MainResume
  <2>1. UNCHANGED <<ringVars, tx_dma, spoiled>> /\ tx_susp' \in BOOLEAN /\ ~InWindow'
    BY <1>0, <1>8 DEF MainUnresolved, MainFull, MainResume, MainReturns, MainSent, InWindow, txVars, pbufVars
  <2>2. rewritten' => rewritten /\ cur' = cur
    BY <1>8 DEF MainUnresolved, MainFull, MainResume, MainReturns, MainSent
  <2> QED BY <2>1, <2>2, TxOutside
<1>9. CASE MainGetBuffer
  <2>1. /\ ~tx_own[tx_index] /\ buffer' = tx_index /\ mpc' = "copyHead"
        /\ UNCHANGED <<ringVars, tx_dma, tx_susp, cur, rewritten, spoiled>>
    BY <1>9 DEF MainGetBuffer, txVars, pbufVars
  <2> QED BY <2>1 DEF TxInv, TxTypes, RingInv, Window, ringVars, Spoilt
<1>10. CASE MainCopyHead \/ MainCopyTail \/ MainSetSize
  BY <1>10, MainFillInv
<1>11. CASE MainReturn
  BY <1>11, MainReturnInv
<1> QED BY <1>1, <1>2, <1>3, <1>4, <1>5, <1>6, <1>7, <1>8, <1>9, <1>10, <1>11 DEF Next, Main, Irq, Dma

LEMMA TxInvariant == Spec => [](TxInv /\ ContextTypes)
<1>1. Init => TxInv /\ ContextTypes
  BY TxInit, ContextInit
<1>2. TxInv /\ ContextTypes /\ [Next]_vars => (TxInv /\ ContextTypes)'
  BY TxNext, ContextNext DEF TxInv
<1> QED BY <1>1, <1>2, PTL DEF Spec

\* Every variable keeps its type, for rings and a pool of any size.
THEOREM TypeCorrect == Spec => []TypeOK
<1>1. RxInv /\ TxInv /\ ContextTypes => TypeOK
  BY DEF RxInv, RxTypes, TxInv, TxTypes, Content, ContextTypes, Labels, TypeOK
<1>2. Spec => []RxInv
  BY RxInvInit, RxInvNext, PTL DEF Spec
<1> QED BY <1>1, <1>2, TxInvariant, PTL

\* Unless the interrupt sent inside main's window, the transmit ring is the
\* queue of the frames accepted and not yet sent, whole but for TFTP frames
\* whose pbuf the interrupt rewrote meanwhile, for rings of any size.
THEOREM RingIsQueueHolds == Spec => []RingIsQueue
<1>1. TxInv => RingIsQueue
  BY DEF TxInv, RingInv, RingHolds, RingIsQueue, Pos
<1> QED BY <1>1, TxInvariant, PTL

\* The transmit DMA never sleeps on a frame it was given, unless main is about
\* to wake it, whoever else sends, for rings of any size.
THEOREM TransmitAwakeHolds == Spec => []TransmitAwake
<1>1. Init => TransmitAwake
  BY DEF Init, TransmitAwake
<1>2. TransmitAwake /\ [Next]_vars => TransmitAwake'
  <2> SUFFICES ASSUME TransmitAwake, [Next]_vars PROVE TransmitAwake'
    OBVIOUS
  <2>1. CASE Dma \/ UNCHANGED vars
    BY <2>1 DEF Dma, DmaReceive, DmaTransmit, DmaSuspend, TransmitAwake, vars, txVars, ringVars, mainVars
  <2>2. CASE IrqEnter \/ IrqExit \/ IrqLose \/ IrqFrame \/ IrqTftp
    BY <2>2 DEF IrqEnter, IrqExit, IrqLose, IrqFrame, IrqTftp, TransmitAwake, txVars, ringVars, mainVars
  <2>3. CASE LinkDown \/ LinkUp \/ LinkError \/ LinkDone
    BY <2>3 DEF LinkDown, LinkUp, LinkError, LinkDone, TransmitAwake, txVars, ringVars, mainVars
  <2>4. CASE IrqSendArp \/ IrqSendTftp
    <3>1. tx_susp' = FALSE \/ UNCHANGED <<ringVars, tx_susp, tx_dma, mpc>>
      BY <2>4 DEF IrqSendArp, IrqSendTftp, Output, mainVars
    <3> QED BY <3>1 DEF TransmitAwake, ringVars
  <2>5. CASE MainFull \/ MainResume \/ MainReturn
    BY <2>5 DEF MainFull, MainResume, MainReturn, TransmitAwake
  <2>6. CASE (\E b \in Pbuf : MainStart(b)) \/ MainHeaders \/ MainUnresolved \/ MainGetBuffer
             \/ MainCopyHead \/ MainCopyTail \/ MainSetSize
    <3>1. UNCHANGED <<tx_own, tx_dma, tx_susp>> /\ mpc # "resume"
      BY <2>6 DEF MainStart, MainHeaders, MainHeader, MainChain, MainDrop, MainUnresolved, MainGetBuffer,
                  MainCopyHead, MainCopyTail, MainSetSize, MainAt, txVars, ringVars
    <3> QED BY <3>1 DEF TransmitAwake
  <2> QED BY <2>1, <2>2, <2>3, <2>4, <2>5, <2>6 DEF Next, Main, Irq
<1> QED BY <1>1, <1>2, PTL DEF Spec

-----------------------------------------------------------------------------
(* The room in front of the payload.                                       *)

\* Where main is between the headers of pbuf b.
Phase(b) == IF cur = b /\ mpc \in {"ip", "eth"} THEN mpc ELSE "out"

Alone ==
  {<<56, "out", 0>>, <<48, "ip", 0>>, <<28, "eth", 0>>, <<12, "out", 0>>, <<4, "ip", 0>>, <<4, "out", 1>>}

\* The room left, where main is, and how many datagrams were given up: the
\* two last cases need an interrupt between main's headers.
RoomInv ==
  /\ <<room["p"], Phase("p"), dropped["p"]>> \in Alone
  /\ <<room["tftp_p"], Phase("tftp_p"), dropped["tftp_p"]>> \in Alone \cup {<<0, "eth", 1>>, <<0, "out", 2>>}

\* Steps that touch neither pbuf.
LEMMA RoomUnchanged ==
  ASSUME RoomInv, UNCHANGED pbufVars, \A b \in Pbuf : Phase(b)' = Phase(b)
  PROVE  RoomInv'
BY DEF RoomInv, pbufVars, Pbuf

\* One of main's steps on pbuf b.
LEMMA RoomMain ==
  ASSUME RoomInv, ContextTypes, MainHeaders
  PROVE  RoomInv'
<1>1. cur \in {"p", "tftp_p"} /\ room \in [{"p", "tftp_p"} -> 0..HEADROOM]
      /\ dropped \in [{"p", "tftp_p"} -> 0..MaxDropped]
  BY DEF ContextTypes, Pbuf
<1>2. ASSUME NEW b \in {"p", "tftp_p"}, b # cur
      PROVE  UNCHANGED <<room[b], dropped[b]>> /\ Phase(b) = "out" /\ Phase(b)' = "out"
  BY <1>1, <1>2 DEF MainHeaders, MainHeader, MainChain, MainDrop, MainReturns, Phase, pbufVars
<1>3. \/ MainHeader("udp", 8, "ip") \/ MainHeader("ip", 20, "eth") \/ MainHeader("eth", 16, "check")
      \/ MainChain \/ MainDrop("ip", 20) \/ MainDrop("eth", 16)
  BY DEF MainHeaders, UDP_HLEN, IP_HLEN, ETH_HLEN
<1>4. CASE MainHeader("udp", 8, "ip")
  <2>1. /\ room[cur] >= 8 /\ room'[cur] = room[cur] - 8 /\ dropped'[cur] = dropped[cur]
        /\ Phase(cur) = "out" /\ Phase(cur)' = "ip" /\ cur' = cur
    BY <1>1, <1>4 DEF MainHeader, MainAt, HasRoom, Phase
  <2> QED BY <1>1, <1>2, <2>1 DEF RoomInv, Alone
<1>5. CASE MainHeader("ip", 20, "eth")
  <2>1. /\ room[cur] >= 20 /\ room'[cur] = room[cur] - 20 /\ dropped'[cur] = dropped[cur]
        /\ Phase(cur) = "ip" /\ Phase(cur)' = "eth" /\ cur' = cur
    BY <1>1, <1>5 DEF MainHeader, MainAt, HasRoom, Phase
  <2> QED BY <1>1, <1>2, <2>1 DEF RoomInv, Alone
<1>6. CASE MainHeader("eth", 16, "check")
  <2>1. /\ room[cur] >= 16 /\ room'[cur] = room[cur] - 16 /\ dropped'[cur] = dropped[cur]
        /\ Phase(cur) = "eth" /\ Phase(cur)' = "out" /\ cur' = cur
    BY <1>1, <1>6 DEF MainHeader, MainAt, HasRoom, Phase
  <2> QED BY <1>1, <1>2, <2>1 DEF RoomInv, Alone
<1>7. CASE MainChain
  <2>1. UNCHANGED pbufVars /\ \A b \in Pbuf : Phase(b)' = Phase(b)
    BY <1>7 DEF MainChain, MainAt, Phase
  <2> QED BY <2>1, RoomUnchanged
<1>8. CASE MainDrop("ip", 20)
  <2>1. /\ ~(room[cur] >= 20) /\ room' = room /\ dropped'[cur] = Count(dropped[cur])
        /\ Phase(cur) = "ip" /\ \A b \in Pbuf : Phase(b)' = "out"
    BY <1>1, <1>8 DEF MainDrop, MainReturns, MainAt, HasRoom, Phase
  <2> QED BY <1>1, <1>2, <2>1 DEF RoomInv, Alone, Count, MaxDropped, Pbuf
<1>9. CASE MainDrop("eth", 16)
  <2>1. /\ ~(room[cur] >= 16) /\ room' = room /\ dropped'[cur] = Count(dropped[cur])
        /\ Phase(cur) = "eth" /\ \A b \in Pbuf : Phase(b)' = "out"
    BY <1>1, <1>9 DEF MainDrop, MainReturns, MainAt, HasRoom, Phase
  <2> QED BY <1>1, <1>2, <2>1 DEF RoomInv, Alone, Count, MaxDropped, Pbuf
<1> QED BY <1>3, <1>4, <1>5, <1>6, <1>7, <1>8, <1>9

\* A reply of the interrupt.
LEMMA RoomIrq ==
  ASSUME RoomInv, ContextTypes, IrqSendTftp
  PROVE  RoomInv'
<1>1. room \in [{"p", "tftp_p"} -> 0..HEADROOM] /\ dropped \in [{"p", "tftp_p"} -> 0..MaxDropped]
  BY DEF ContextTypes, Pbuf
<1>2. PICK ok \in BOOLEAN, r \in 0..HEADROOM :
        /\ Headers("tftp_p", r, ok)
        /\ room' = [room EXCEPT !["tftp_p"] = r]
        /\ dropped' = IF ok THEN dropped ELSE [dropped EXCEPT !["tftp_p"] = Count(@)]
  BY DEF IrqSendTftp
<1>3. \A b \in Pbuf : Phase(b)' = Phase(b)
  BY DEF IrqSendTftp, mainVars, Phase
<1>4. room'["p"] = room["p"] /\ dropped'["p"] = dropped["p"] /\ room'["tftp_p"] = r
  BY <1>1, <1>2
<1>5. dropped'["tftp_p"] = IF ok THEN dropped["tftp_p"] ELSE Count(dropped["tftp_p"])
  BY <1>1, <1>2
<1>6. <<r, Phase("tftp_p"), dropped'["tftp_p"]>> \in Alone \cup {<<0, "eth", 1>>, <<0, "out", 2>>}
  BY <1>2, <1>5 DEF RoomInv, Alone, Headers, HasRoom, UDP_HLEN, IP_HLEN, ETH_HLEN, Count, MaxDropped
<1> QED BY <1>3, <1>4, <1>6 DEF RoomInv, Pbuf

LEMMA RoomNext == RoomInv /\ ContextTypes /\ [Next]_vars => RoomInv'
<1> SUFFICES ASSUME RoomInv, ContextTypes, [Next]_vars PROVE RoomInv'
  OBVIOUS
<1>1. CASE MainHeaders
  BY <1>1, RoomMain
<1>2. CASE IrqSendTftp
  BY <1>2, RoomIrq
<1>3. CASE Dma \/ IrqSendArp \/ UNCHANGED vars
  <2>1. UNCHANGED <<pbufVars, mainVars>>
    BY <1>3 DEF Dma, DmaReceive, DmaTransmit, DmaSuspend, IrqSendArp, vars
  <2> QED BY <2>1, RoomUnchanged DEF Phase, mainVars
<1>4. CASE IrqEnter \/ IrqExit \/ IrqLose \/ IrqFrame \/ IrqTftp \/ LinkDown \/ LinkUp \/ LinkError \/ LinkDone
  <2>1. UNCHANGED <<pbufVars, mainVars>>
    BY <1>4 DEF IrqEnter, IrqExit, IrqLose, IrqFrame, IrqTftp, LinkDown, LinkUp, LinkError, LinkDone
  <2> QED BY <2>1, RoomUnchanged DEF Phase, mainVars
<1>5. CASE (\E b \in Pbuf : MainStart(b)) \/ MainUnresolved \/ MainFull \/ MainGetBuffer
           \/ MainCopyHead \/ MainCopyTail \/ MainSetSize \/ MainReturn \/ MainResume
  <2>1. UNCHANGED pbufVars /\ mpc \notin {"ip", "eth"} /\ mpc' \notin {"ip", "eth"}
    BY <1>5 DEF MainStart, MainUnresolved, MainFull, MainGetBuffer, MainCopyHead, MainCopyTail,
                MainSetSize, MainReturn, MainResume, MainAt, MainReturns, MainSent
  <2> QED BY <2>1, RoomUnchanged DEF Phase
<1> QED BY <1>1, <1>2, <1>3, <1>4, <1>5 DEF Next, Main, Irq

\* One datagram of the data pbuf and at most two of the TFTP pbuf are ever
\* given up for want of room, however often they are sent.
THEOREM FewDatagramsDroppedHolds == Spec => []FewDatagramsDropped
<1>1. Init => RoomInv
  BY DEF Init, RoomInv, Alone, Phase, Pbuf, HEADROOM
<1>2. RoomInv => FewDatagramsDropped
  BY DEF RoomInv, Alone, FewDatagramsDropped
<1> QED BY <1>1, <1>2, RoomNext, TxInvariant, PTL DEF Spec

=============================================================================
