------------------------- MODULE SocketStreamProofs --------------------------
(***************************************************************************)
(* Proofs about SocketStream, for every value of its constants.  The       *)
(* inductive invariant IInv says which interval of bytes each queue holds, *)
(* where the receive window is, and which results the application's queue  *)
(* can hold.                                                               *)
(***************************************************************************)
EXTENDS QueueLemmas

Messages == {m \in [id : {"TX", "RX_DONE"}, len : Nat] : m.id = "TX" => m.len = 0}
Results == {"ok", "error", "timeout"}

\* the variables that are not queues of nodes
Scalars ==
    /\ fast_rx_ack \in BOOLEAN
    /\ mailbox \in Seq(Messages)
    /\ lw \in [at : Jobs, len : Nat]
    /\ written \in Nat /\ acked \in Nat /\ accepted \in Nat
    /\ rcv_wnd \in Nat /\ arrived \in Nat /\ got \in Nat /\ lost \in Nat
    /\ tx_size \in Nat /\ ack_size \in Nat /\ arg \in Nat
    /\ wait_tx \in BOOLEAN /\ need_close \in BOOLEAN /\ new_rx_flag \in BOOLEAN
    /\ timer \in BOOLEAN /\ left \in BOOLEAN
    /\ pc \in {"idle", "tx", "posting", "waiting", "rx", "reading"}
    /\ inbox \in Seq(Results)

\* an acknowledgement, a segment and a send are never empty, and in fast-ack mode no
\* message tells what was read
Busy ==
    /\ lw.at \in {"ack", "seg"} => lw.len > 0
    /\ pc = "tx" => arg > 0
    /\ fast_rx_ack => \A i \in 1 .. Len(mailbox) : mailbox[i].id # "RX_DONE"

\* the number of the last byte that net_lwip_tcp_sent_cb has freed
Freed == acked - IF lw.at = "ack" THEN lw.len ELSE 0

\* the send queues hold what is not freed, cut where tcp_write has got to
Sending ==
    /\ Freed \in Nat
    /\ acked <= written
    /\ Tiles(wait_ack_head, Freed, written)
    /\ Tiles(tx_head, written, accepted)

\* rx_head holds what was not read, unless bytes were lost, and then the ctrl knows
Receiving ==
    /\ Lives(rx_head)
    /\ rx_wait_size = Size(rx_head)
    /\ lost = 0 => Tiles(rx_head, got, arrived)
    /\ lost > 0 => need_close \/ lw.at = "ERROR"

\* what is missing from the receive window
Missing ==
    (IF lw.at = "seg" THEN lw.len ELSE 0)
        + (IF fast_rx_ack THEN 0 ELSE TotalLen(rx_head) + TotalLen(mailbox) + lost)

Window == rcv_wnd + Missing = TCP_WND

IsResult(r) == r # "timeout"

\* as long as no network_tx left early: without a wait the queue holds no result, in
\* a wait it holds at most one, and none before the wait is over
Waits ==
    ~left =>
        /\ pc # "waiting" => ~wait_tx
        /\ pc # "waiting" \/ wait_tx => \A i \in 1 .. Len(inbox) : ~IsResult(inbox[i])
        /\ \A i, j \in 1 .. Len(inbox) :
               IsResult(inbox[i]) /\ IsResult(inbox[j]) => i = j
        /\ \A i \in 1 .. Len(inbox) : inbox[i] = "ok" => acked = accepted

IInv == Scalars /\ Busy /\ Sending /\ Receiving /\ Window /\ Waits

-----------------------------------------------------------------------------
(* The invariant holds initially *)

LEMMA InitInv == Init => IInv
<1> SUFFICES ASSUME Init PROVE IInv OBVIOUS
<1> USE DEF Init, Idle
<1>1. Scalars
  <2>1. TCP_WND \in Nat BY StreamAssumption
  <2>2. mailbox \in Seq(Messages) /\ inbox \in Seq(Results) BY EmptySeq
  <2> QED BY <2>1, <2>2 DEF Scalars, Jobs
<1>2. Busy BY EmptySeq DEF Busy
<1>3. Sending BY TilesEmpty DEF Sending, Freed
<1>4. Receiving BY TilesEmpty, LivesSteps, SizeSteps DEF Receiving
<1>5. Window
  <2>1. \A r \in Messages : r.len \in Nat BY DEF Messages
  <2>2. <<>> \in Seq(Messages) BY EmptySeq
  <2>3. TotalLen(<<>>) = 0 BY <2>1, <2>2, TotalSteps
  <2>4. TCP_WND \in Nat BY StreamAssumption
  <2> QED BY <2>3, <2>4 DEF Window, Missing
<1>6. Waits BY EmptySeq DEF Waits
<1> QED BY <1>1, <1>2, <1>3, <1>4, <1>5, <1>6 DEF IInv

-----------------------------------------------------------------------------
(* Its parts are preserved by every step *)

\* the actions that leave the send queues and the pcb's counters alone
AppAndRx ==
    \/ TxPost \/ TxReturn \/ SocketReceive \/ ReadNode \/ ReadEnd
    \/ TimerFires \/ DropResult \/ TakeRxDone
    \/ \E n \in Sizes : NetworkTx(n) \/ NetworkRx(n)

LEMMA AppAndRxLeave ==
    AppAndRx => UNCHANGED <<tx_head, wait_ack_head, written, acked, accepted, lw>>
BY DEF AppAndRx, TxPost, TxReturn, SocketReceive, ReadNode, ReadEnd, TimerFires, DropResult,
       TakeRxDone, NetworkTx, NetworkRx, txVars, rxVars, ctrlVars

LEMMA SizesNat == \A n \in Sizes : n \in Nat /\ n > 0
BY StreamAssumption

\* net_lwip_tcp_sent_cb finds all the bytes that are acknowledged.
LEMMA AckIsHeld ==
    ASSUME Scalars, Sending, lw.at = "ack"
    PROVE  /\ Size(wait_ack_head) >= lw.len
           /\ Tiles(Acknowledge(wait_ack_head, lw.len), acked, written)
<1> DEFINE n == lw.len
<1>1. n \in Nat /\ Freed = acked - n /\ acked \in Nat /\ written \in Nat BY DEF Scalars, Freed
<1>2. Freed \in Nat /\ acked <= written /\ Tiles(wait_ack_head, Freed, written) BY DEF Sending
<1> HIDE DEF n
<1>3. Size(wait_ack_head) = written - Freed BY <1>1, <1>2, TilesAre
<1>4. n <= written - Freed /\ Freed + n = acked BY <1>1, <1>2
<1>5. Tiles(Acknowledge(wait_ack_head, n), Freed + n, written)
      BY <1>1, <1>2, <1>4, AcknowledgeTile
<1> QED BY <1>3, <1>4, <1>5 DEF n

\* net_lwip_socket_send queues all the bytes, or those of the chunks there is memory
\* for.
LEMMA SocketSendTile ==
    ASSUME IInv, SocketSend
    PROVE  /\ accepted' \in Nat /\ accepted <= accepted'
           /\ Tiles(tx_head', written, accepted')
<1>1. written \in Nat /\ accepted \in Nat BY DEF IInv, Scalars
<1>2. Tiles(tx_head, written, accepted) BY DEF IInv, Sending
<1>3. arg \in Nat /\ arg > 0 BY DEF SocketSend, IInv, Scalars, Busy
<1> DEFINE s == Chunks(arg)
           b == accepted + arg
<1>4. Tiles(s, accepted, b) BY <1>1, <1>3, ChunksTile
<1>5. CASE tx_head' = tx_head \o s /\ accepted' = b
  <2>1. Tiles(tx_head', written, accepted') BY <1>2, <1>4, <1>5, TilesConcat
  <2> QED BY <1>1, <1>3, <1>5, <2>1
<1>6. CASE \E k \in 0 .. Len(s) - 1 :
              /\ tx_head' = tx_head \o SubSeq(s, 1, k)
              /\ accepted' = accepted + Size(SubSeq(s, 1, k))
  <2>1. PICK k \in 0 .. Len(s) - 1 :
              /\ tx_head' = tx_head \o SubSeq(s, 1, k)
              /\ accepted' = accepted + Size(SubSeq(s, 1, k))
        BY <1>6
  <2> DEFINE c == Cut(s, accepted, k)
             v == SubSeq(s, 1, k)
  <2>2. s \in Seq(Node) BY <1>4 DEF Tiles, Lives
  <2> HIDE DEF s
  <2>3. k \in 0 .. Len(s) BY <2>1, <2>2
  <2>4. b \in Nat BY <1>1, <1>3
  <2> HIDE DEF b
  <2>5. c \in Nat /\ Tiles(v, accepted, c) BY <1>1, <1>4, <2>3, <2>4, TilesCut
  <2> HIDE DEF c
  <2>6. accepted <= c /\ Size(v) = c - accepted BY <1>1, <2>5, TilesAre
  <2>7. accepted' = c BY <1>1, <2>1, <2>5, <2>6
  <2>8. Tiles(tx_head \o v, written, c) BY <1>2, <2>5, TilesConcat
  <2> QED BY <2>1, <2>5, <2>6, <2>7, <2>8
<1> QED BY <1>5, <1>6 DEF SocketSend

LEMMA SendingStep ==
    ASSUME IInv, [Next]_vars
    PROVE  Sending' /\ written' \in Nat /\ accepted' \in Nat
<1> USE DEF IInv
<1>1. written \in Nat /\ acked \in Nat /\ accepted \in Nat BY DEF Scalars
<1>2. /\ Freed \in Nat /\ acked <= written
      /\ Tiles(wait_ack_head, Freed, written) /\ Tiles(tx_head, written, accepted)
      BY DEF Sending
<1>3. lw \in [at : Jobs, len : Nat] BY DEF Scalars
<1> HIDE DEF IInv
<1>4. ASSUME UNCHANGED <<tx_head, wait_ack_head, written, acked, accepted, lw>>
      PROVE  Sending' /\ written' \in Nat /\ accepted' \in Nat
      BY <1>1, <1>2, <1>4 DEF Sending, Freed
<1>5. CASE UNCHANGED vars BY <1>4, <1>5 DEF vars, txVars
<1>6. CASE AppAndRx BY <1>4, <1>6, AppAndRxLeave
<1>7. CASE SocketSend
  <2>1. accepted' \in Nat /\ Tiles(tx_head', written, accepted') BY <1>7, SocketSendTile
  <2>2. /\ wait_ack_head' = wait_ack_head /\ written' = written /\ acked' = acked /\ lw' = lw
        /\ Freed' = Freed
        BY <1>7 DEF SocketSend, Freed
  <2> QED BY <1>1, <1>2, <2>1, <2>2 DEF Sending
<1>8. CASE TakeTx \/ (\E n \in Sizes : PeerSend(n)) \/ RecvCb \/ OnLine
  <2>1. /\ UNCHANGED <<tx_head, wait_ack_head, written, acked, accepted>>
        /\ lw.at # "ack" /\ lw'.at # "ack"
        BY <1>3, <1>8 DEF TakeTx, PeerSend, RecvCb, OnLine, Begin, Idle, txVars
  <2> QED BY <1>1, <1>2, <2>1 DEF Sending, Freed
<1>9. CASE \E n \in Sizes : PeerAck(n)
  <2>1. PICK n \in Sizes : PeerAck(n) BY <1>9
  <2>2. n \in Nat BY SizesNat
  <2>3. /\ UNCHANGED <<tx_head, wait_ack_head, written, accepted>>
        /\ lw.at = "idle" /\ lw'.at = "ack" /\ lw'.len = n
        /\ acked' = acked + n /\ n <= written - acked
        BY <2>1 DEF PeerAck, Begin, Idle
  <2>4. Freed' = Freed /\ acked' <= written BY <1>1, <2>2, <2>3 DEF Freed
  <2> QED BY <1>1, <1>2, <2>3, <2>4 DEF Sending
<1>10. CASE HandleTx
  <2>1. WriteChunks(wait_ack_head) /\ UNCHANGED <<acked, accepted>>
        /\ lw.at = "tx" /\ lw'.at = "idle" BY <1>10 DEF HandleTx, Idle
  <2>2. /\ written' \in Nat /\ written <= written'
        /\ Tiles(wait_ack_head', Freed, written') /\ Tiles(tx_head', written', accepted)
        BY <1>1, <1>2, <2>1, WriteChunksTile
  <2>3. Freed' = Freed /\ acked <= written' BY <1>1, <1>2, <2>1, <2>2 DEF Freed
  <2> QED BY <1>1, <1>2, <2>1, <2>2, <2>3 DEF Sending
<1>11. CASE SentCb
  <2>1. lw.at = "ack" /\ UNCHANGED <<acked, accepted>> BY <1>11 DEF SentCb
  <2>2. /\ Size(wait_ack_head) >= lw.len
        /\ Tiles(Acknowledge(wait_ack_head, lw.len), acked, written)
        BY <2>1, AckIsHeld DEF IInv
  <2>3. WriteChunks(Acknowledge(wait_ack_head, lw.len)) /\ lw'.at = "TX_OK"
        BY <1>3, <1>11, <2>2 DEF SentCb
  <2>4. /\ written' \in Nat /\ written <= written'
        /\ Tiles(wait_ack_head', acked, written') /\ Tiles(tx_head', written', accepted)
        BY <1>1, <1>2, <2>2, <2>3, WriteChunksTile
  <2>5. Freed' = acked /\ acked <= written' BY <1>1, <1>2, <2>1, <2>3, <2>4 DEF Freed
  <2> QED BY <1>1, <2>1, <2>4, <2>5 DEF Sending
<1> QED BY <1>5, <1>6, <1>7, <1>8, <1>9, <1>10, <1>11 DEF Next, AppStep, TcpipStep, AppAndRx

\* A node that net_lwip_rx_data appends.
LEMMA SegmentNode ==
    ASSUME arrived \in Nat, NEW n \in Nat, n > 0
    PROVE  LET p == [from |-> arrived, len |-> n, read_pos |-> 0] IN
           p \in Node /\ Live(p) /\ Start(p) = arrived /\ End(p) = arrived + n
BY DEF Node, Live, Start, End

\* n bytes read of a node p in front of rx_head, as net_lwip_socket_read_data does
LEMMA CopiedBytes ==
    ASSUME Scalars, NEW p \in Node, Live(p), arg > 0
    PROVE  /\ Copied(p) \in Nat /\ Copied(p) > 0
           /\ p.read_pos + Copied(p) <= p.len
           /\ Copied(p) <= arg
BY NodeFields DEF Copied, Least, Live, Scalars

LEMMA ReceivingStep ==
    ASSUME IInv, [Next]_vars
    PROVE  Receiving' /\ rx_wait_size' \in Nat /\ got' \in Nat /\ arrived' \in Nat /\ lost' \in Nat
<1>1. arrived \in Nat /\ got \in Nat /\ lost \in Nat /\ lw \in [at : Jobs, len : Nat]
      BY DEF IInv, Scalars
<1>2. Lives(rx_head) /\ rx_wait_size = Size(rx_head) BY DEF IInv, Receiving
<1>3. lost = 0 => Tiles(rx_head, got, arrived) BY DEF IInv, Receiving
<1>4. lost > 0 => need_close \/ lw.at = "ERROR" BY DEF IInv, Receiving
<1>5. rx_wait_size \in Nat BY <1>2, SizeSteps
<1>6. ASSUME UNCHANGED <<rx_head, rx_wait_size, got, arrived, lost>>,
             need_close \/ lw.at = "ERROR" => need_close' \/ lw'.at = "ERROR"
      PROVE  Receiving' /\ rx_wait_size' \in Nat /\ got' \in Nat /\ arrived' \in Nat /\ lost' \in Nat
      BY <1>1, <1>2, <1>3, <1>4, <1>5, <1>6 DEF Receiving
<1>7. CASE UNCHANGED vars BY <1>6, <1>7 DEF vars, rxVars, ctrlVars
<1>8. CASE \/ SocketSend \/ TxPost \/ TxReturn \/ SocketReceive \/ TimerFires \/ DropResult
           \/ TakeRxDone \/ \E n \in Sizes : NetworkTx(n) \/ NetworkRx(n)
  <2>1. UNCHANGED <<rx_head, rx_wait_size, got, arrived, lost, lw>> /\ (need_close => need_close')
        BY <1>8 DEF SocketSend, TxPost, TxReturn, SocketReceive, TimerFires, DropResult,
                    TakeRxDone, NetworkTx, NetworkRx, rxVars, ctrlVars
  <2> QED BY <1>6, <2>1
<1>9. CASE TakeTx \/ HandleTx \/ SentCb \/ \E n \in Sizes : PeerAck(n) \/ PeerSend(n)
  <2>1. /\ UNCHANGED <<rx_head, rx_wait_size, got, arrived, lost>> /\ need_close' = need_close
        /\ lw.at # "ERROR"
        BY <1>9 DEF TakeTx, HandleTx, SentCb, PeerAck, PeerSend, Begin, Idle, rxVars, ctrlVars
  <2> QED BY <1>6, <2>1
<1>10. CASE OnLine
  <2>1. UNCHANGED <<rx_head, rx_wait_size, got, arrived, lost>> BY <1>10 DEF OnLine, rxVars
  <2>2. need_close => need_close' BY <1>10 DEF OnLine, OnError, OnTxOk, OnRxNew
  <2>3. lw.at = "ERROR" => need_close' BY <1>10 DEF OnLine, OnError
  <2> QED BY <1>6, <2>1, <2>2, <2>3
<1>11. CASE ReadNode
  <2> DEFINE p == Head(rx_head)
             n == Copied(p)
  <2>1. rx_head # <<>> /\ arg > 0 BY <1>11 DEF ReadNode
  <2>2. /\ rx_wait_size' = rx_wait_size - n /\ got' = p.from + p.read_pos + n
        /\ UNCHANGED <<arrived, lost, need_close, lw>>
        BY <1>11 DEF ReadNode, ctrlVars
  <2>3. \/ p.read_pos + n < p.len /\ rx_head' = ReadOff(rx_head, n)
        \/ p.read_pos + n >= p.len /\ rx_head' = Tail(rx_head)
        BY <1>11 DEF ReadNode, ReadOff
  <2>4. p \in Node /\ Live(p) /\ Lives(Tail(rx_head)) BY <1>2, <2>1, LivesSteps
  <2>5. n \in Nat /\ p.read_pos + n <= p.len BY <2>1, <2>4, CopiedBytes DEF IInv
  <2>6. p.from \in Nat /\ p.len \in Nat /\ p.read_pos \in Nat BY <2>4, NodeFields
  <2>7. Size(rx_head) = (p.len - p.read_pos) + Size(Tail(rx_head)) BY <1>2, <2>1, SizeSteps
  <2>8. Size(Tail(rx_head)) \in Nat BY <2>4, SizeSteps
  <2>9. Start(p) = p.from + p.read_pos /\ End(p) = p.from + p.len BY DEF Start, End
  <2>10. ASSUME lost = 0
         PROVE  Start(p) = got /\ Tiles(Tail(rx_head), End(p), arrived)
         BY <1>1, <1>3, <2>1, <2>10, TilesTail
  <2>11. CASE p.read_pos + n < p.len /\ rx_head' = ReadOff(rx_head, n)
    <3>1. Lives(ReadOff(rx_head, n)) BY <1>2, <2>1, <2>5, <2>11, ReadOffHead
    <3>2. Size(ReadOff(rx_head, n)) = Size(rx_head) - n BY <1>2, <2>1, <2>5, <2>11, SizeReadOff
    <3>3. lost = 0 => Tiles(ReadOff(rx_head, n), got + n, arrived)
          BY <1>3, <2>1, <2>5, <2>11, TilesReadOff
    <3> HIDE DEF p, n
    <3>4. rx_wait_size' = Size(rx_head') /\ rx_wait_size' \in Nat
          BY <1>2, <1>5, <2>2, <2>5, <2>6, <2>7, <2>8, <2>11, <3>2
    <3>5. lost = 0 => got' = got + n BY <2>2, <2>9, <2>10
    <3>6. got' \in Nat BY <2>2, <2>5, <2>6
    <3>7. lost' = 0 => Tiles(rx_head', got', arrived') BY <2>2, <2>11, <3>3, <3>5
    <3>8. lost' > 0 => need_close' \/ lw'.at = "ERROR" BY <1>4, <2>2
    <3> QED BY <1>1, <2>2, <2>11, <3>1, <3>4, <3>6, <3>7, <3>8 DEF Receiving
  <2>12. CASE p.read_pos + n >= p.len /\ rx_head' = Tail(rx_head)
    <3> HIDE DEF p, n
    <3>1. p.read_pos + n = p.len BY <2>5, <2>6, <2>12
    <3>2. rx_wait_size' = Size(rx_head') /\ rx_wait_size' \in Nat
          BY <1>2, <2>2, <2>5, <2>6, <2>7, <2>8, <2>12, <3>1
    <3>3. got' = End(p) /\ got' \in Nat BY <2>2, <2>5, <2>6, <2>9, <3>1
    <3>4. lost' = 0 => Tiles(rx_head', got', arrived') BY <2>2, <2>10, <2>12, <3>3
    <3>5. lost' > 0 => need_close' \/ lw'.at = "ERROR" BY <1>4, <2>2
    <3> QED BY <1>1, <2>2, <2>4, <2>12, <3>2, <3>3, <3>4, <3>5 DEF Receiving
  <2> QED BY <2>3, <2>11, <2>12
<1>12. CASE ReadEnd
  <2>1. UNCHANGED <<rx_head, got, arrived, lost, lw, need_close>>
        /\ rx_wait_size' = IF rx_head = <<>> THEN 0 ELSE rx_wait_size
        BY <1>12 DEF ReadEnd, ctrlVars
  <2>2. rx_wait_size' = rx_wait_size BY <1>2, <2>1, SizeSteps
  <2> QED BY <1>6, <2>1, <2>2
<1>13. CASE RecvCb
  <2> DEFINE n == lw.len
             p == [from |-> arrived, len |-> n, read_pos |-> 0]
  <2>1. lw.at = "seg" /\ arrived' = arrived + n /\ UNCHANGED <<got, need_close>>
        BY <1>13 DEF RecvCb, ctrlVars
  <2>2. n \in Nat /\ n > 0 BY <1>1, <2>1 DEF IInv, Busy
  <2>3. p \in Node /\ Live(p) /\ Start(p) = arrived /\ End(p) = arrived + n
        /\ p.len = n /\ p.read_pos = 0
        BY <1>1, <2>2, SegmentNode
  <2>4. \/ rx_head' = Append(rx_head, p) /\ rx_wait_size' = rx_wait_size + n /\ lost' = lost
        \/ /\ lost' = lost + n /\ lw'.at = "ERROR" /\ UNCHANGED <<rx_head, rx_wait_size>>
        BY <1>1, <1>13 DEF RecvCb
  <2> HIDE DEF p, n
  <2>5. CASE rx_head' = Append(rx_head, p) /\ rx_wait_size' = rx_wait_size + n /\ lost' = lost
    <3>1. Lives(Append(rx_head, p)) BY <1>2, <2>3, LivesSteps
    <3>2. Size(Append(rx_head, p)) = Size(rx_head) + (p.len - p.read_pos)
          BY <1>2, <2>3, SizeSteps
    <3>3. rx_wait_size' = Size(rx_head') /\ rx_wait_size' \in Nat
          BY <1>2, <1>5, <2>2, <2>3, <2>5, <3>2
    <3>4. lost = 0 => Tiles(Append(rx_head, p), got, arrived + n)
          BY <1>3, <2>3, TilesAppend
    <3>5. lost' > 0 => need_close' BY <1>4, <2>1, <2>5
    <3> QED BY <1>1, <2>1, <2>2, <2>5, <3>1, <3>3, <3>4, <3>5 DEF Receiving
  <2>6. CASE lost' = lost + n /\ lw'.at = "ERROR" /\ UNCHANGED <<rx_head, rx_wait_size>>
    <3>1. lost' \in Nat /\ lost' # 0 BY <1>1, <2>2, <2>6
    <3> QED BY <1>1, <1>2, <1>5, <2>1, <2>2, <2>6, <3>1 DEF Receiving
  <2> QED BY <2>4, <2>5, <2>6
<1> QED BY <1>7, <1>8, <1>9, <1>10, <1>11, <1>12, <1>13 DEF Next, AppStep, TcpipStep

LEMMA TotalReadOff ==
    ASSUME NEW nodes, Lives(nodes), nodes # <<>>,
           NEW n \in Nat, Head(nodes).read_pos + n < Head(nodes).len
    PROVE  TotalLen(ReadOff(nodes, n)) = TotalLen(nodes)
<1> DEFINE s == ReadOff(nodes, n)
<1>1. /\ Lives(s) /\ s # <<>> /\ Len(s) = Len(nodes)
      /\ Head(s) = [Head(nodes) EXCEPT !.read_pos = @ + n]
      /\ \A i \in 1 .. Len(nodes) : i # 1 => s[i] = nodes[i]
      BY ReadOffHead
<1>2. nodes \in Seq(Node) /\ s \in Seq(Node) BY <1>1 DEF Lives
<1>3. \A r \in Node : r.len \in Nat BY NodeFields
<1>4. Lengths(s) /\ Lengths(nodes) BY <1>2, <1>3, LengthsOf
<1>5. Head(nodes) \in Node /\ Head(nodes) = nodes[1] BY <1>2
<1>6. Head(s).len = nodes[1].len BY <1>1, <1>5 DEF Node
<1> HIDE DEF s
<1>7. Head(s) = s[1] BY <1>1, <1>2
<1>8. \A i \in 1 .. Len(s) : s[i].len = nodes[i].len BY <1>1, <1>6, <1>7
<1>9. TotalLen(s) = TotalLen(nodes) BY <1>1, <1>4, <1>8, TotalSame
<1> QED BY <1>9 DEF s

LEMMA MessageLen ==
    /\ \A m \in Messages : m.len \in Nat
    /\ [id |-> "TX", len |-> 0] \in Messages
    /\ \A n \in Nat : [id |-> "RX_DONE", len |-> n] \in Messages
BY DEF Messages

LEMMA WindowStep ==
    ASSUME IInv, [Next]_vars
    PROVE  Window' /\ rcv_wnd' \in Nat
<1> DEFINE seg == IF lw.at = "seg" THEN lw.len ELSE 0
           rx == TotalLen(rx_head)
           mb == TotalLen(mailbox)
<1>1. /\ rcv_wnd \in Nat /\ lost \in Nat /\ arg \in Nat
      /\ lw \in [at : Jobs, len : Nat] /\ fast_rx_ack \in BOOLEAN
      BY DEF IInv, Scalars
<1>2. rcv_wnd + (seg + (IF fast_rx_ack THEN 0 ELSE rx + mb + lost)) = TCP_WND /\ TCP_WND \in Nat
      BY StreamAssumption DEF IInv, Window, Missing
<1>3. mailbox \in Seq(Messages) /\ mb \in Nat
  <2>1. mailbox \in Seq(Messages) BY DEF IInv, Scalars
  <2> QED BY <2>1, MessageLen, TotalSteps
<1>4. Lives(rx_head) /\ rx_head \in Seq(Node) BY DEF IInv, Receiving, Lives
<1>5. \A r \in Node : r.len \in Nat BY NodeFields
<1>6. rx \in Nat BY <1>4, <1>5, TotalSteps
<1>7. seg \in Nat BY <1>1
<1>8. fast_rx_ack' = fast_rx_ack
      BY DEF Next, AppStep, TcpipStep, SocketSend, TxPost, TxReturn, SocketReceive, ReadNode,
             ReadEnd, TimerFires, DropResult, NetworkTx, NetworkRx, TakeTx, TakeRxDone, PeerAck,
             PeerSend, HandleTx, SentCb, RecvCb, OnLine, vars
<1>9. ASSUME rcv_wnd' \in Nat,
             rcv_wnd' + ((IF lw'.at = "seg" THEN lw'.len ELSE 0)
                + (IF fast_rx_ack THEN 0 ELSE TotalLen(rx_head') + TotalLen(mailbox') + lost')) = TCP_WND
      PROVE  Window' /\ rcv_wnd' \in Nat
      BY <1>8, <1>9 DEF Window, Missing
<1> HIDE DEF seg
<1>10. ASSUME UNCHANGED <<rcv_wnd, rx_head, mailbox, lost>>,
              lw' = lw \/ (lw.at # "seg" /\ lw'.at # "seg")
       PROVE  Window' /\ rcv_wnd' \in Nat
  <2>1. (IF lw'.at = "seg" THEN lw'.len ELSE 0) = seg BY <1>10 DEF seg
  <2> QED BY <1>1, <1>2, <1>9, <1>10, <2>1
<1>11. CASE UNCHANGED vars BY <1>10, <1>11 DEF vars, rxVars
<1>12. CASE \/ SocketSend \/ TxReturn \/ SocketReceive \/ ReadEnd \/ TimerFires \/ DropResult
            \/ \E n \in Sizes : NetworkTx(n) \/ NetworkRx(n)
  <2>1. UNCHANGED <<rcv_wnd, rx_head, mailbox, lost, lw>>
        BY <1>12 DEF SocketSend, TxReturn, SocketReceive, ReadEnd, TimerFires, DropResult,
                     NetworkTx, NetworkRx, rxVars
  <2> QED BY <1>10, <2>1
<1>13. CASE HandleTx \/ SentCb \/ OnLine \/ \E n \in Sizes : PeerAck(n)
  <2>1. UNCHANGED <<rcv_wnd, rx_head, mailbox, lost>> /\ lw.at # "seg" /\ lw'.at # "seg"
        BY <1>1, <1>13 DEF HandleTx, SentCb, OnLine, PeerAck, Begin, Idle, rxVars
  <2> QED BY <1>10, <2>1
<1>14. CASE TxPost
  <2>1. /\ UNCHANGED <<rcv_wnd, rx_head, lost, lw>>
        /\ mailbox' = Append(mailbox, [id |-> "TX", len |-> 0])
        BY <1>14 DEF TxPost, Post, rxVars
  <2>2. TotalLen(mailbox') = mb + 0 BY <1>3, <2>1, MessageLen, TotalSteps
  <2>3. (IF lw'.at = "seg" THEN lw'.len ELSE 0) = seg BY <2>1 DEF seg
  <2> HIDE DEF mb, rx
  <2>4. TotalLen(mailbox') = mb BY <1>3, <2>2
  <2> QED BY <1>1, <1>2, <1>9, <2>1, <2>3, <2>4 DEF rx
<1>15. CASE TakeTx
  <2>1. /\ UNCHANGED <<rcv_wnd, rx_head, lost>> /\ lw.at # "seg" /\ lw'.at # "seg"
        /\ mailbox # <<>> /\ Head(mailbox).id = "TX" /\ mailbox' = Tail(mailbox)
        BY <1>15 DEF TakeTx, Begin, Idle, rxVars
  <2>2. Head(mailbox) \in Messages BY <1>3, <2>1
  <2>3. Head(mailbox).len = 0 BY <2>1, <2>2 DEF Messages
  <2>4. mb = Head(mailbox).len + TotalLen(mailbox') BY <1>3, <2>1, MessageLen, TotalSteps
  <2>5. mailbox' \in Seq(Messages) BY <1>3, <2>1
  <2>6. TotalLen(mailbox') \in Nat BY <2>5, MessageLen, TotalSteps
  <2>7. (IF lw'.at = "seg" THEN lw'.len ELSE 0) = seg BY <2>1 DEF seg
  <2> HIDE DEF mb
  <2>8. TotalLen(mailbox') = mb BY <2>3, <2>4, <2>6
  <2> QED BY <1>1, <1>2, <1>9, <2>1, <2>7, <2>8
<1>16. CASE TakeRxDone
  <2> DEFINE n == Head(mailbox).len
  <2>1. /\ UNCHANGED <<rx_head, lost, lw>> /\ rcv_wnd' = rcv_wnd + n
        /\ mailbox # <<>> /\ mailbox' = Tail(mailbox)
        BY <1>16 DEF TakeRxDone
  <2>2. Head(mailbox) \in Messages BY <1>3, <2>1
  <2>3. n \in Nat BY <2>2, MessageLen
  <2>4. mb = n + TotalLen(mailbox') BY <1>3, <2>1, MessageLen, TotalSteps
  <2>5. mailbox' \in Seq(Messages) BY <1>3, <2>1
  <2>6. TotalLen(mailbox') \in Nat BY <2>5, MessageLen, TotalSteps
  <2>7. (IF lw'.at = "seg" THEN lw'.len ELSE 0) = seg BY <2>1 DEF seg
  <2> HIDE DEF mb, n
  <2>8. ~fast_rx_ack
    <3>1. mailbox[1].id = "RX_DONE" /\ 1 \in 1 .. Len(mailbox)
          BY <1>3, <1>16, <2>1, EmptySeq DEF TakeRxDone
    <3> QED BY <3>1 DEF IInv, Busy
  <2>9. TotalLen(rx_head') = rx BY <2>1
  <2> DEFINE m == TotalLen(mailbox')
  <2> HIDE DEF rx, m
  <2>10. m \in Nat /\ mb = n + m BY <2>4, <2>6 DEF m
  <2>11. (rcv_wnd + n) + (seg + (rx + m + lost)) = TCP_WND
         BY <1>1, <1>2, <1>3, <1>6, <1>7, <2>3, <2>8, <2>10
  <2>12. rcv_wnd' + (seg + (IF fast_rx_ack THEN 0 ELSE TotalLen(rx_head') + TotalLen(mailbox') + lost')) = TCP_WND
         BY <2>1, <2>8, <2>9, <2>11 DEF m
  <2>13. rcv_wnd' \in Nat BY <1>1, <2>1, <2>3
  <2> QED BY <1>9, <2>7, <2>12, <2>13
<1>17. CASE \E n \in Sizes : PeerSend(n)
  <2>1. PICK n \in Sizes : PeerSend(n) BY <1>17
  <2>2. n \in Nat BY SizesNat
  <2>3. /\ UNCHANGED <<rx_head, mailbox, lost>> /\ lw.at # "seg"
        /\ lw'.at = "seg" /\ lw'.len = n
        /\ n <= rcv_wnd /\ rcv_wnd' = rcv_wnd - n
        BY <2>1 DEF PeerSend, Begin, Idle
  <2>4. seg = 0 BY <2>3 DEF seg
  <2>5. TotalLen(rx_head') = rx /\ TotalLen(mailbox') = mb BY <2>3
  <2> HIDE DEF rx, mb
  <2> QED BY <1>1, <1>2, <1>3, <1>6, <1>9, <2>2, <2>3, <2>4, <2>5
<1>18. CASE ReadNode
  <2> DEFINE p == Head(rx_head)
             n == Copied(p)
  <2>1. rx_head # <<>> /\ arg > 0 BY <1>18 DEF ReadNode
  <2>2. UNCHANGED <<rcv_wnd, lost, lw>> BY <1>18 DEF ReadNode
  <2>3. \/ p.read_pos + n < p.len /\ rx_head' = ReadOff(rx_head, n) /\ mailbox' = mailbox
        \/ /\ rx_head' = Tail(rx_head)
           /\ IF fast_rx_ack THEN mailbox' = mailbox
              ELSE mailbox' = Append(mailbox, [id |-> "RX_DONE", len |-> p.len])
        BY <1>18 DEF ReadNode, ReadOff, Post
  <2>4. p \in Node /\ Live(p) BY <1>4, <2>1, LivesSteps
  <2>5. n \in Nat /\ p.len \in Nat BY <2>1, <2>4, CopiedBytes, NodeFields DEF IInv
  <2>6. (IF lw'.at = "seg" THEN lw'.len ELSE 0) = seg BY <2>2 DEF seg
  <2>7. CASE p.read_pos + n < p.len /\ rx_head' = ReadOff(rx_head, n) /\ mailbox' = mailbox
    <3>1. TotalLen(rx_head') = rx BY <1>4, <2>1, <2>5, <2>7, TotalReadOff
    <3> QED BY <1>1, <1>2, <1>9, <2>2, <2>6, <2>7, <3>1
  <2>8. CASE /\ rx_head' = Tail(rx_head)
             /\ IF fast_rx_ack THEN mailbox' = mailbox
                ELSE mailbox' = Append(mailbox, [id |-> "RX_DONE", len |-> p.len])
    <3>1. rx = p.len + TotalLen(rx_head') BY <1>4, <1>5, <2>1, <2>8, TotalSteps
    <3>2. rx_head' \in Seq(Node) BY <1>4, <2>1, <2>8
    <3>3. TotalLen(rx_head') \in Nat BY <1>5, <3>2, TotalSteps
    <3> DEFINE r == [id |-> "RX_DONE", len |-> p.len]
    <3>4. r \in Messages /\ r.len = p.len BY <2>5, MessageLen
    <3>5. ASSUME ~fast_rx_ack PROVE TotalLen(mailbox') = mb + p.len
      <4>1. mailbox' = Append(mailbox, r) BY <2>8, <3>5
      <4> HIDE DEF r
      <4>2. TotalLen(Append(mailbox, r)) = mb + r.len BY <1>3, <3>4, MessageLen, TotalSteps
      <4> QED BY <3>4, <4>1, <4>2
    <3> HIDE DEF p, rx, mb, r
    <3>6. CASE fast_rx_ack BY <1>1, <1>2, <1>9, <2>2, <2>6, <3>6
    <3>7. CASE ~fast_rx_ack
      <4> DEFINE x == TotalLen(rx_head')
                 l == p.len
      <4>1. x \in Nat /\ l \in Nat /\ rx = l + x BY <2>5, <3>1, <3>3
      <4> HIDE DEF x, l
      <4>2. rcv_wnd + (seg + (x + (mb + l) + lost)) = TCP_WND
            BY <1>1, <1>2, <1>3, <1>7, <3>7, <4>1
      <4>3. TotalLen(mailbox') = mb + l BY <3>5, <3>7 DEF l
      <4> QED BY <1>1, <1>9, <2>2, <2>6, <3>7, <4>2, <4>3 DEF x
    <3> QED BY <3>6, <3>7
  <2> QED BY <2>3, <2>7, <2>8
<1>19. CASE RecvCb
  <2> DEFINE n == lw.len
             p == [from |-> arrived, len |-> n, read_pos |-> 0]
  <2>1. /\ lw.at = "seg" /\ lw'.at # "seg" /\ mailbox' = mailbox
        /\ rcv_wnd' = IF fast_rx_ack THEN rcv_wnd + n ELSE rcv_wnd
        BY <1>1, <1>19 DEF RecvCb
  <2>2. n \in Nat /\ n > 0 BY <1>1, <2>1 DEF IInv, Busy
  <2>3. p \in Node /\ p.len = n BY <2>2, SegmentNode DEF IInv, Scalars
  <2>4. \/ rx_head' = Append(rx_head, p) /\ lost' = lost
        \/ rx_head' = rx_head /\ lost' = lost + n
        BY <1>1, <1>19 DEF RecvCb
  <2>5. seg = n BY <2>1 DEF seg
  <2>6. TotalLen(mailbox') = mb BY <2>1
  <2> HIDE DEF p, n
  <2>7. CASE rx_head' = Append(rx_head, p) /\ lost' = lost
    <3>1. TotalLen(Append(rx_head, p)) = rx + p.len BY <1>4, <1>5, <2>3, TotalSteps
    <3>2. TotalLen(rx_head') = rx + n BY <2>3, <2>7, <3>1
    <3> HIDE DEF rx, mb
    <3> QED BY <1>1, <1>2, <1>3, <1>6, <1>9, <2>1, <2>2, <2>5, <2>6, <2>7, <3>2
  <2>8. CASE rx_head' = rx_head /\ lost' = lost + n
    <3>1. TotalLen(rx_head') = rx BY <2>8
    <3> HIDE DEF rx, mb
    <3> QED BY <1>1, <1>2, <1>3, <1>6, <1>9, <2>1, <2>2, <2>5, <2>6, <2>8, <3>1
  <2> QED BY <2>4, <2>7, <2>8
<1> QED BY <1>11, <1>12, <1>13, <1>14, <1>15, <1>16, <1>17, <1>18, <1>19 DEF Next, AppStep, TcpipStep

LEMMA BusyStep ==
    ASSUME IInv, [Next]_vars
    PROVE  Busy'
<1>1. lw \in [at : Jobs, len : Nat] /\ mailbox \in Seq(Messages) BY DEF IInv, Scalars
<1>2. lw.at \in {"ack", "seg"} => lw.len > 0 BY DEF IInv, Busy
<1>3. pc = "tx" => arg > 0 BY DEF IInv, Busy
<1>4. fast_rx_ack => \A i \in 1 .. Len(mailbox) : mailbox[i].id # "RX_DONE" BY DEF IInv, Busy
<1>5. lw'.at \in {"ack", "seg"} => lw'.len > 0
  <2>1. CASE \/ UNCHANGED vars \/ AppStep \/ TimerFires \/ DropResult \/ TakeRxDone
             \/ \E n \in Sizes : NetworkTx(n) \/ NetworkRx(n)
    <3>1. lw' = lw
          BY <2>1 DEF AppStep, SocketSend, TxPost, TxReturn, SocketReceive, ReadNode, ReadEnd,
                      TimerFires, DropResult, TakeRxDone, NetworkTx, NetworkRx, vars
    <3> QED BY <1>2, <3>1
  <2>2. CASE TakeTx \/ HandleTx \/ SentCb \/ RecvCb \/ OnLine
    <3>1. lw'.at \notin {"ack", "seg"}
          BY <1>1, <2>2 DEF TakeTx, HandleTx, SentCb, RecvCb, OnLine, Begin, Idle
    <3> QED BY <3>1
  <2>3. CASE \E n \in Sizes : PeerAck(n) \/ PeerSend(n)
    <3>1. \E n \in Sizes : lw'.len = n BY <2>3 DEF PeerAck, PeerSend, Begin
    <3> QED BY <3>1, SizesNat
  <2> QED BY <2>1, <2>2, <2>3 DEF Next, TcpipStep
<1>6. pc' = "tx" => arg' > 0
  <2>1. CASE \E n \in Sizes : NetworkTx(n)
    <3>1. \E n \in Sizes : arg' = n BY <2>1 DEF NetworkTx
    <3> QED BY <3>1, SizesNat
  <2>2. CASE \/ SocketSend \/ TxPost \/ TxReturn \/ SocketReceive \/ ReadNode \/ ReadEnd
             \/ \E n \in Sizes : NetworkRx(n)
    <3>1. pc' # "tx"
          BY <2>2 DEF SocketSend, TxPost, TxReturn, SocketReceive, ReadNode, ReadEnd, NetworkRx
    <3> QED BY <3>1
  <2>3. CASE \/ UNCHANGED vars \/ TimerFires \/ DropResult \/ TcpipStep
             \/ \E n \in Sizes : PeerAck(n) \/ PeerSend(n)
    <3>1. pc' = pc /\ arg' = arg
          BY <2>3 DEF TimerFires, DropResult, TcpipStep, TakeTx, TakeRxDone, HandleTx, SentCb,
                      RecvCb, OnLine, PeerAck, PeerSend, appVars, vars
    <3> QED BY <1>3, <3>1
  <2> QED BY <2>1, <2>2, <2>3 DEF Next, AppStep
<1>7. fast_rx_ack' => \A i \in 1 .. Len(mailbox') : mailbox'[i].id # "RX_DONE"
  <2>1. CASE TakeTx \/ TakeRxDone
    <3>1. mailbox # <<>> /\ mailbox' = Tail(mailbox) /\ fast_rx_ack' = fast_rx_ack
          BY <2>1 DEF TakeTx, TakeRxDone
    <3>2. /\ Len(mailbox') = Len(mailbox) - 1
          /\ \A i \in 1 .. Len(mailbox') : mailbox'[i] = mailbox[i + 1]
          BY <1>1, <3>1, HeadTailProperties
    <3>3. Len(mailbox) \in Nat BY <1>1
    <3>4. \A i \in 1 .. Len(mailbox') : i + 1 \in 1 .. Len(mailbox) BY <3>2, <3>3
    <3> QED BY <1>4, <3>1, <3>2, <3>4
  <2>2. CASE TxPost
    <3> DEFINE m == [id |-> "TX", len |-> 0]
    <3>1. mailbox' = Append(mailbox, m) /\ fast_rx_ack' = fast_rx_ack BY <2>2 DEF TxPost, Post
    <3>2. m \in Messages /\ m.id # "RX_DONE" BY MessageLen
    <3> HIDE DEF m
    <3>3. /\ Len(Append(mailbox, m)) = Len(mailbox) + 1
          /\ \A i \in 1 .. Len(mailbox) : Append(mailbox, m)[i] = mailbox[i]
          /\ Append(mailbox, m)[Len(mailbox) + 1] = m
          BY <1>1, <3>2, AppendProperties
    <3>4. \A i \in 1 .. Len(mailbox) + 1 : i \in 1 .. Len(mailbox) \/ i = Len(mailbox) + 1
          BY <1>1
    <3> QED BY <1>4, <3>1, <3>2, <3>3, <3>4
  <2>3. CASE ReadNode
    <3>1. fast_rx_ack' = fast_rx_ack /\ (fast_rx_ack => mailbox' = mailbox)
          BY <2>3 DEF ReadNode
    <3> QED BY <1>4, <3>1
  <2>4. CASE \/ UNCHANGED vars \/ SocketSend \/ TxReturn \/ SocketReceive \/ ReadEnd
             \/ TimerFires \/ DropResult \/ HandleTx \/ SentCb \/ RecvCb \/ OnLine
             \/ \E n \in Sizes : NetworkTx(n) \/ NetworkRx(n) \/ PeerAck(n) \/ PeerSend(n)
    <3>1. mailbox' = mailbox /\ fast_rx_ack' = fast_rx_ack
          BY <2>4 DEF SocketSend, TxReturn, SocketReceive, ReadEnd, TimerFires, DropResult,
                      HandleTx, SentCb, RecvCb, OnLine, NetworkTx, NetworkRx, PeerAck, PeerSend,
                      vars
    <3> QED BY <1>4, <3>1
  <2> QED BY <2>1, <2>2, <2>3, <2>4 DEF Next, AppStep, TcpipStep
<1> QED BY <1>5, <1>6, <1>7 DEF Busy

LEMMA AppendTo ==
    ASSUME NEW S, NEW s \in Seq(S), NEW x \in S
    PROVE  /\ Append(s, x) \in Seq(S)
           /\ \A i \in 1 .. Len(Append(s, x)) :
                 \/ i \in 1 .. Len(s) /\ Append(s, x)[i] = s[i]
                 \/ i = Len(s) + 1 /\ Append(s, x)[i] = x
<1>1. /\ Append(s, x) \in Seq(S) /\ Len(Append(s, x)) = Len(s) + 1
      /\ \A i \in 1 .. Len(s) : Append(s, x)[i] = s[i]
      /\ Append(s, x)[Len(s) + 1] = x
      BY AppendProperties
<1>2. \A i \in 1 .. Len(s) + 1 : i \in 1 .. Len(s) \/ i = Len(s) + 1 BY LenProperties
<1> QED BY <1>1, <1>2

LEMMA TailOf ==
    ASSUME NEW S, NEW s \in Seq(S), s # <<>>
    PROVE  /\ Tail(s) \in Seq(S) /\ Head(s) \in S /\ Head(s) = s[1] /\ 1 \in 1 .. Len(s)
           /\ \A i \in 1 .. Len(Tail(s)) :
                 i + 1 \in 1 .. Len(s) /\ i + 1 # 1 /\ Tail(s)[i] = s[i + 1]
<1>1. /\ Tail(s) \in Seq(S) /\ Head(s) \in S /\ Len(Tail(s)) = Len(s) - 1
      /\ \A i \in 1 .. Len(Tail(s)) : Tail(s)[i] = s[i + 1]
      BY HeadTailProperties
<1>2. Len(s) \in Nat /\ Len(s) > 0 /\ Head(s) = s[1] BY EmptySeq
<1>3. \A i \in 1 .. Len(s) - 1 : i + 1 \in 1 .. Len(s) /\ i + 1 # 1 BY <1>2
<1> QED BY <1>1, <1>2, <1>3

LEMMA ScalarsStep ==
    ASSUME IInv, [Next]_vars
    PROVE  Scalars'
<1> USE DEF IInv
<1>1. Scalars BY DEF IInv
<1>2. written' \in Nat /\ accepted' \in Nat BY SendingStep
<1>3. got' \in Nat /\ arrived' \in Nat /\ lost' \in Nat BY ReceivingStep
<1>4. rcv_wnd' \in Nat BY WindowStep
<1> HIDE DEF IInv
<1>5. acked' \in Nat /\ lw' \in [at : Jobs, len : Nat]
  <2>1. acked \in Nat /\ lw \in [at : Jobs, len : Nat] BY <1>1 DEF Scalars
  <2>2. CASE \E n \in Sizes : PeerAck(n) \/ PeerSend(n)
    <3>1. \E n \in Sizes : /\ acked' = acked + n \/ acked' = acked
                           /\ \/ lw' = [at |-> "ack", len |-> n]
                              \/ lw' = [at |-> "seg", len |-> n]
          BY <2>2 DEF PeerAck, PeerSend, Begin, txVars
    <3> QED BY <2>1, <3>1, SizesNat DEF Jobs
  <2>3. CASE TakeTx \/ HandleTx \/ SentCb \/ RecvCb \/ OnLine
    <3>1. acked' = acked
          BY <2>3 DEF TakeTx, HandleTx, SentCb, RecvCb, OnLine, txVars
    <3>2. \/ lw' = [at |-> "tx", len |-> 0] \/ lw' = [at |-> "idle", len |-> 0]
          \/ lw' = [lw EXCEPT !.at = "TX_OK"] \/ lw' = [lw EXCEPT !.at = "ERROR"]
          \/ lw' = [lw EXCEPT !.at = "RX_NEW"]
          BY <2>3 DEF TakeTx, HandleTx, SentCb, RecvCb, OnLine, Begin, Idle
    <3> QED BY <2>1, <3>1, <3>2 DEF Jobs
  <2>4. CASE \/ UNCHANGED vars \/ SocketSend \/ AppAndRx
    <3>1. acked' = acked /\ lw' = lw
          BY <2>4, AppAndRxLeave DEF SocketSend, vars, txVars
    <3> QED BY <2>1, <3>1
  <2> QED BY <2>2, <2>3, <2>4 DEF Next, AppStep, TcpipStep, AppAndRx
<1>6. mailbox' \in Seq(Messages)
  <2>1. mailbox \in Seq(Messages) BY <1>1 DEF Scalars
  <2>2. CASE TakeTx \/ TakeRxDone
    <3>1. mailbox # <<>> /\ mailbox' = Tail(mailbox) BY <2>2 DEF TakeTx, TakeRxDone
    <3> QED BY <2>1, <3>1, TailOf
  <2>3. CASE TxPost
    <3>1. mailbox' = Append(mailbox, [id |-> "TX", len |-> 0]) BY <2>3 DEF TxPost, Post
    <3> QED BY <2>1, <3>1, MessageLen, AppendTo
  <2>4. CASE ReadNode
    <3> DEFINE p == Head(rx_head)
               m == [id |-> "RX_DONE", len |-> p.len]
    <3>1. rx_head # <<>> /\ (mailbox' = mailbox \/ mailbox' = Append(mailbox, m))
          BY <2>4 DEF ReadNode, Post
    <3>2. p \in Node BY <3>1, LivesSteps DEF IInv, Receiving
    <3>3. m \in Messages BY <3>2, NodeFields, MessageLen
    <3> HIDE DEF m
    <3> QED BY <2>1, <3>1, <3>3, AppendTo
  <2>5. CASE \/ UNCHANGED vars \/ SocketSend \/ TxReturn \/ SocketReceive \/ ReadEnd
             \/ TimerFires \/ DropResult \/ HandleTx \/ SentCb \/ RecvCb \/ OnLine
             \/ \E n \in Sizes : NetworkTx(n) \/ NetworkRx(n) \/ PeerAck(n) \/ PeerSend(n)
    <3>1. mailbox' = mailbox
          BY <2>5 DEF SocketSend, TxReturn, SocketReceive, ReadEnd, TimerFires, DropResult,
                      HandleTx, SentCb, RecvCb, OnLine, NetworkTx, NetworkRx, PeerAck, PeerSend,
                      vars
    <3> QED BY <2>1, <3>1
  <2> QED BY <2>2, <2>3, <2>4, <2>5 DEF Next, AppStep, TcpipStep
<1>7. inbox' \in Seq(Results)
  <2>1. inbox \in Seq(Results) BY <1>1 DEF Scalars
  <2>2. CASE TxReturn \/ DropResult
    <3>1. inbox # <<>> /\ inbox' = Tail(inbox) BY <2>2 DEF TxReturn, DropResult
    <3> QED BY <2>1, <3>1, TailOf
  <2>3. CASE TimerFires \/ OnLine
    <3>1. \/ inbox' = inbox \/ inbox' = Append(inbox, "timeout")
          \/ inbox' = Append(inbox, "ok") \/ inbox' = Append(inbox, "error")
          BY <2>3 DEF TimerFires, OnLine, OnError, OnTxOk, OnRxNew, Result, GoOn, CheckAllAck
    <3>2. "ok" \in Results /\ "error" \in Results /\ "timeout" \in Results BY DEF Results
    <3> QED BY <2>1, <3>1, <3>2, AppendTo
  <2>4. CASE \/ UNCHANGED vars \/ SocketSend \/ TxPost \/ SocketReceive \/ ReadNode \/ ReadEnd
             \/ TakeTx \/ TakeRxDone \/ HandleTx \/ SentCb \/ RecvCb
             \/ \E n \in Sizes : NetworkTx(n) \/ NetworkRx(n) \/ PeerAck(n) \/ PeerSend(n)
    <3>1. inbox' = inbox
          BY <2>4 DEF SocketSend, TxPost, SocketReceive, ReadNode, ReadEnd, TakeTx, TakeRxDone,
                      HandleTx, SentCb, RecvCb, NetworkTx, NetworkRx, PeerAck, PeerSend, vars,
                      appVars
    <3> QED BY <2>1, <3>1
  <2> QED BY <2>2, <2>3, <2>4 DEF Next, AppStep, TcpipStep
<1>8. /\ fast_rx_ack' \in BOOLEAN /\ tx_size' \in Nat /\ ack_size' \in Nat /\ arg' \in Nat
      /\ wait_tx' \in BOOLEAN /\ need_close' \in BOOLEAN /\ new_rx_flag' \in BOOLEAN
      /\ timer' \in BOOLEAN /\ left' \in BOOLEAN
      /\ pc' \in {"idle", "tx", "posting", "waiting", "rx", "reading"}
  <2>1. /\ fast_rx_ack \in BOOLEAN /\ tx_size \in Nat /\ ack_size \in Nat /\ arg \in Nat
        /\ wait_tx \in BOOLEAN /\ need_close \in BOOLEAN /\ new_rx_flag \in BOOLEAN
        /\ timer \in BOOLEAN /\ left \in BOOLEAN
        /\ pc \in {"idle", "tx", "posting", "waiting", "rx", "reading"}
        /\ lw.len \in Nat
        BY <1>1 DEF Scalars
  <2> USE DEF rxVars, ctrlVars, appVars
  <2>2. CASE UNCHANGED vars BY <2>1, <2>2 DEF vars
  <2>3. CASE SocketSend
    <3>1. /\ UNCHANGED <<fast_rx_ack, tx_size, ack_size, wait_tx, new_rx_flag, timer, left>>
          /\ arg' = arg \/ arg' = 0
          /\ need_close' = need_close \/ need_close' = TRUE
          /\ pc' = "posting" \/ pc' = "idle"
          BY <2>3 DEF SocketSend
    <3>2. arg' \in Nat /\ tx_size' \in Nat /\ ack_size' \in Nat BY <2>1, <3>1
    <3>3. /\ fast_rx_ack' \in BOOLEAN /\ wait_tx' \in BOOLEAN /\ new_rx_flag' \in BOOLEAN
          /\ need_close' \in BOOLEAN /\ timer' \in BOOLEAN /\ left' \in BOOLEAN
          BY <2>1, <3>1
    <3> QED BY <3>1, <3>2, <3>3
  <2>4. CASE TxPost
    <3>1. /\ UNCHANGED <<fast_rx_ack, ack_size, need_close, new_rx_flag>>
          /\ arg' = 0 /\ tx_size' = tx_size + arg /\ wait_tx' = TRUE
          /\ timer' = timer \/ timer' = TRUE
          /\ left' = left \/ left' = TRUE
          /\ pc' = "waiting" \/ pc' = "idle"
          BY <2>4 DEF TxPost
    <3>2. tx_size' \in Nat /\ arg' \in Nat /\ ack_size' \in Nat BY <2>1, <3>1
    <3> QED BY <2>1, <3>1, <3>2
  <2>5. CASE TxReturn BY <2>1, <2>5 DEF TxReturn
  <2>6. CASE SocketReceive BY <2>1, <2>6 DEF SocketReceive
  <2>7. CASE ReadNode
    <3> DEFINE p == Head(rx_head)
               n == Copied(p)
    <3>1. rx_head # <<>> /\ arg > 0 /\ arg' = arg - n BY <2>7 DEF ReadNode
    <3>2. p \in Node /\ Live(p) BY <3>1, LivesSteps DEF IInv, Receiving
    <3>3. n \in Nat /\ n <= arg BY <1>1, <3>1, <3>2, CopiedBytes
    <3> HIDE DEF n
    <3>4. arg' \in Nat BY <2>1, <3>1, <3>3
    <3> QED BY <2>1, <2>7, <3>4 DEF ReadNode
  <2>8. CASE ReadEnd BY <2>1, <2>8 DEF ReadEnd
  <2>9. CASE TimerFires \/ DropResult BY <2>1, <2>9 DEF TimerFires, DropResult
  <2>10. CASE TakeTx \/ TakeRxDone \/ HandleTx \/ SentCb \/ RecvCb
         BY <2>1, <2>10 DEF TakeTx, TakeRxDone, HandleTx, SentCb, RecvCb
  <2>11. CASE OnLine
    <3>1. /\ UNCHANGED <<fast_rx_ack, tx_size, arg, timer, left, pc>>
          /\ ack_size' = ack_size \/ ack_size' = ack_size + lw.len
          /\ wait_tx' = wait_tx \/ wait_tx' = FALSE
          /\ need_close' = need_close \/ need_close' = TRUE
          /\ new_rx_flag' = new_rx_flag \/ new_rx_flag' = TRUE
          BY <2>11 DEF OnLine, OnError, OnTxOk, OnRxNew, Result, GoOn
    <3>2. ack_size' \in Nat BY <2>1, <3>1
    <3> QED BY <2>1, <3>1, <3>2
  <2>12. CASE \E n \in Sizes : NetworkTx(n) \/ NetworkRx(n) \/ PeerAck(n) \/ PeerSend(n)
         BY <2>1, <2>12, SizesNat DEF NetworkTx, NetworkRx, PeerAck, PeerSend
  <2> QED BY <2>2, <2>3, <2>4, <2>5, <2>6, <2>7, <2>8, <2>9, <2>10, <2>11, <2>12
          DEF Next, AppStep, TcpipStep
<1> QED BY <1>2, <1>3, <1>4, <1>5, <1>6, <1>7, <1>8 DEF Scalars

\* When CheckAllAck is "ok", everything queued was acknowledged.
LEMMA AllAcked ==
    ASSUME Sending, lw.at # "ack", acked \in Nat, CheckAllAck = "ok"
    PROVE  acked = accepted
<1>1. wait_ack_head = <<>> /\ tx_head = <<>> BY DEF CheckAllAck
<1>2. Freed = acked BY DEF Freed
<1> QED BY <1>1, <1>2 DEF Sending, Tiles

\* What the state machine does to the wait and to the task's queue.
LEMMA OnLineResult ==
    ASSUME IInv, OnLine
    PROVE  /\ UNCHANGED <<pc, left, acked, accepted>>
           /\ \/ inbox' = inbox /\ wait_tx' = wait_tx
              \/ wait_tx /\ ~wait_tx' /\ inbox' = Append(inbox, "error")
              \/ wait_tx /\ ~wait_tx' /\ inbox' = Append(inbox, "ok") /\ acked = accepted
<1>1. UNCHANGED <<pc, left, acked, accepted>> BY DEF OnLine, txVars
<1>2. wait_tx \in BOOLEAN /\ acked \in Nat BY DEF IInv, Scalars
<1>3. ASSUME Result("error")
      PROVE  \/ inbox' = inbox /\ wait_tx' = wait_tx
             \/ wait_tx /\ ~wait_tx' /\ inbox' = Append(inbox, "error")
      BY <1>2, <1>3 DEF Result
<1>4. CASE Result("error") BY <1>1, <1>3, <1>4
<1>5. CASE lw.at = "TX_OK" /\ OnTxOk
  <2>1. CASE GoOn BY <1>1, <2>1 DEF GoOn
  <2>2. CASE wait_tx /\ Result(CheckAllAck)
    <3>1. wait_tx /\ ~wait_tx' /\ inbox' = Append(inbox, CheckAllAck) BY <2>2 DEF Result
    <3>2. CASE CheckAllAck = "error" BY <1>1, <3>1, <3>2
    <3>3. CASE CheckAllAck = "ok"
      <4>1. lw.at # "ack" BY <1>5
      <4>2. acked = accepted BY <1>2, <3>3, <4>1, AllAcked DEF IInv
      <4> QED BY <1>1, <3>1, <3>3, <4>2
    <3> QED BY <3>2, <3>3 DEF CheckAllAck
  <2> QED BY <1>5, <2>1, <2>2 DEF OnTxOk
<1>6. CASE OnRxNew
  <2>1. CASE GoOn BY <1>1, <2>1 DEF GoOn
  <2>2. CASE ~wait_tx /\ Result("ok")
    <3>1. inbox' = inbox /\ wait_tx' = wait_tx BY <1>2, <2>2 DEF Result
    <3> QED BY <1>1, <3>1
  <2> QED BY <1>6, <2>1, <2>2 DEF OnRxNew
<1> QED BY <1>4, <1>5, <1>6 DEF OnLine, OnError

LEMMA WaitsStep ==
    ASSUME IInv, [Next]_vars
    PROVE  Waits'
<1>1. /\ inbox \in Seq(Results) /\ acked \in Nat /\ written \in Nat /\ accepted \in Nat
      /\ wait_tx \in BOOLEAN /\ left \in BOOLEAN
      BY DEF IInv, Scalars
<1>2. Waits BY DEF IInv
<1>3. acked <= written /\ written <= accepted
  <2>1. acked <= written /\ Tiles(tx_head, written, accepted) BY DEF IInv, Sending
  <2> QED BY <1>1, <2>1, TilesAre
<1>4. ASSUME UNCHANGED <<inbox, wait_tx, left, acked, accepted>>,
             pc' = "waiting" <=> pc = "waiting"
      PROVE  Waits'
      BY <1>2, <1>4 DEF Waits
<1>5. CASE UNCHANGED vars
  <2>1. UNCHANGED <<inbox, wait_tx, left, acked, accepted, pc>>
        BY <1>5 DEF vars, txVars, ctrlVars, appVars
  <2> QED BY <1>4, <2>1
<1>6. CASE \/ SocketReceive \/ ReadNode \/ ReadEnd \/ TakeTx \/ TakeRxDone \/ HandleTx
           \/ SentCb \/ RecvCb
           \/ \E n \in Sizes : NetworkTx(n) \/ NetworkRx(n) \/ PeerSend(n)
  <2>1. UNCHANGED <<inbox, wait_tx, left, acked, accepted>>
        BY <1>6 DEF SocketReceive, ReadNode, ReadEnd, TakeTx, TakeRxDone, HandleTx, SentCb,
                    RecvCb, NetworkTx, NetworkRx, PeerSend, txVars, ctrlVars, appVars
  <2>2. pc' = "waiting" <=> pc = "waiting"
        BY <1>6 DEF SocketReceive, ReadNode, ReadEnd, TakeTx, TakeRxDone, HandleTx, SentCb,
                    RecvCb, NetworkTx, NetworkRx, PeerSend, appVars
  <2> QED BY <1>4, <2>1, <2>2
<1>7. CASE SocketSend
  <2>1. UNCHANGED <<inbox, wait_tx, left, acked>> /\ pc = "tx" /\ pc' # "waiting"
        BY <1>7 DEF SocketSend
  <2>2. ~left => \A i \in 1 .. Len(inbox) : ~IsResult(inbox[i]) BY <1>2, <2>1 DEF Waits
  <2>3. ~left => \A i \in 1 .. Len(inbox) : inbox[i] # "ok" BY <2>2 DEF IsResult
  <2>4. ~left => ~wait_tx BY <1>2, <2>1 DEF Waits
  <2> QED BY <2>1, <2>2, <2>3, <2>4 DEF Waits
<1>8. CASE TxPost
  <2>1. UNCHANGED <<inbox, acked, accepted>> /\ pc = "posting" BY <1>8 DEF TxPost, txVars
  <2>2. left' \/ (pc' = "waiting" /\ wait_tx' /\ left' = left) BY <1>8 DEF TxPost
  <2>3. CASE left' BY <2>3 DEF Waits
  <2>4. CASE pc' = "waiting" /\ wait_tx' /\ left' = left BY <1>2, <2>1, <2>4 DEF Waits
  <2> QED BY <2>2, <2>3, <2>4
<1>9. CASE TimerFires
  <2>1. UNCHANGED <<pc, left, wait_tx, acked, accepted>> /\ inbox' = Append(inbox, "timeout")
        BY <1>9 DEF TimerFires, txVars, ctrlVars
  <2>2. "timeout" \in Results BY DEF Results
  <2>3. \A i \in 1 .. Len(inbox') :
            \/ i \in 1 .. Len(inbox) /\ inbox'[i] = inbox[i]
            \/ inbox'[i] = "timeout"
        BY <1>1, <2>1, <2>2, AppendTo
  <2>4. \A i \in 1 .. Len(inbox') : IsResult(inbox'[i]) =>
            i \in 1 .. Len(inbox) /\ inbox'[i] = inbox[i]
        BY <2>3 DEF IsResult
  <2>5. \A i \in 1 .. Len(inbox') : inbox'[i] = "ok" => IsResult(inbox'[i]) BY DEF IsResult
  <2> QED BY <1>2, <2>1, <2>4, <2>5 DEF Waits
<1>10. CASE TxReturn \/ DropResult
  <2>1. UNCHANGED <<wait_tx, acked, accepted>> /\ inbox # <<>> /\ inbox' = Tail(inbox)
        /\ pc' = "idle"
        BY <1>10 DEF TxReturn, DropResult, txVars, ctrlVars
  <2>2. /\ Head(inbox) = inbox[1] /\ 1 \in 1 .. Len(inbox)
        /\ \A i \in 1 .. Len(inbox') :
              i + 1 \in 1 .. Len(inbox) /\ i + 1 # 1 /\ inbox'[i] = inbox[i + 1]
        BY <1>1, <2>1, TailOf
  <2>3. SUFFICES ASSUME ~left'
                 PROVE  ~wait_tx /\ \A i \in 1 .. Len(inbox') : ~IsResult(inbox'[i])
    <3>1. \A i \in 1 .. Len(inbox') : inbox'[i] = "ok" => IsResult(inbox'[i]) BY DEF IsResult
    <3> QED BY <2>1, <2>3, <3>1 DEF Waits
  <2>4. ~left BY <1>1, <1>10, <2>3 DEF TxReturn, DropResult
  <2>5. CASE DropResult
    <3>1. pc # "waiting" BY <2>5 DEF DropResult
    <3> QED BY <1>2, <2>2, <2>4, <3>1 DEF Waits
  <2>6. CASE TxReturn
    <3>1. pc = "waiting" /\ IsResult(inbox[1])
          BY <2>2, <2>3, <2>6 DEF TxReturn, IsResult
    <3>2. ~wait_tx BY <1>2, <2>2, <2>4, <3>1 DEF Waits
    <3>3. \A i \in 1 .. Len(inbox) : i # 1 => ~IsResult(inbox[i])
          BY <1>2, <2>2, <2>4, <3>1 DEF Waits
    <3> QED BY <2>2, <3>2, <3>3
  <2> QED BY <1>10, <2>5, <2>6
<1>11. CASE \E n \in Sizes : PeerAck(n)
  <2>1. PICK n \in Sizes : PeerAck(n) BY <1>11
  <2>2. n \in Nat /\ n > 0 BY SizesNat
  <2>3. UNCHANGED <<inbox, wait_tx, left, accepted, pc>> /\ n <= written - acked
        BY <2>1 DEF PeerAck, ctrlVars, appVars
  <2>4. acked # accepted BY <1>1, <1>3, <2>2, <2>3
  <2>5. ~left => \A i \in 1 .. Len(inbox) : inbox[i] # "ok" BY <1>2, <2>4 DEF Waits
  <2> QED BY <1>2, <2>3, <2>5 DEF Waits
<1>12. CASE OnLine
  <2>1. UNCHANGED <<pc, left, acked, accepted>> BY <1>12, OnLineResult
  <2>2. CASE inbox' = inbox /\ wait_tx' = wait_tx BY <1>4, <2>1, <2>2
  <2>3. CASE \/ wait_tx /\ ~wait_tx' /\ inbox' = Append(inbox, "error")
             \/ wait_tx /\ ~wait_tx' /\ inbox' = Append(inbox, "ok") /\ acked = accepted
    <3>1. PICK r \in {"error", "ok"} : inbox' = Append(inbox, r) /\ (r = "ok" => acked = accepted)
          BY <2>3
    <3>2. wait_tx /\ ~wait_tx' BY <2>3
    <3>3. r \in Results BY DEF Results
    <3>4. \A i \in 1 .. Len(inbox') :
              \/ i \in 1 .. Len(inbox) /\ inbox'[i] = inbox[i]
              \/ i = Len(inbox) + 1 /\ inbox'[i] = r
          BY <1>1, <3>1, <3>3, AppendTo
    <3>5. SUFFICES ASSUME ~left PROVE Waits' BY <2>1 DEF Waits
    <3>6. pc = "waiting" /\ \A i \in 1 .. Len(inbox) : ~IsResult(inbox[i])
          BY <1>2, <3>2, <3>5 DEF Waits
    <3>7. \A i \in 1 .. Len(inbox) : inbox[i] # "ok" BY <3>6 DEF IsResult
    <3>8. \A i \in 1 .. Len(inbox') : IsResult(inbox'[i]) => i = Len(inbox) + 1 BY <3>4, <3>6
    <3>9. \A i \in 1 .. Len(inbox') : inbox'[i] = "ok" => acked = accepted BY <3>1, <3>4, <3>7
    <3> QED BY <2>1, <3>2, <3>6, <3>8, <3>9 DEF Waits
  <2> QED BY <1>12, <2>2, <2>3, OnLineResult
<1> QED BY <1>5, <1>6, <1>7, <1>8, <1>9, <1>10, <1>11, <1>12 DEF Next, AppStep, TcpipStep

LEMMA InvStep == IInv /\ [Next]_vars => IInv'
BY ScalarsStep, BusyStep, SendingStep, ReceivingStep, WindowStep, WaitsStep DEF IInv

LEMMA Invariant == Spec => []IInv
<1>1. Init => IInv BY InitInv
<1>2. IInv /\ [Next]_vars => IInv' BY InvStep
<1> QED BY <1>1, <1>2, PTL DEF Spec

-----------------------------------------------------------------------------
(* The invariants *)

LEMMA InvTypeOK == IInv => TypeOK
<1> SUFFICES ASSUME IInv PROVE TypeOK OBVIOUS
<1>1. Scalars BY DEF IInv
<1>2. tx_head \in Seq(Node) /\ wait_ack_head \in Seq(Node) /\ rx_head \in Seq(Node)
      BY DEF IInv, Sending, Receiving, Tiles, Lives
<1>3. rx_wait_size \in Nat BY SizeSteps DEF IInv, Receiving
<1>4. mailbox \in Seq([id : {"TX", "RX_DONE"}, len : Nat])
  <2>1. Messages \subseteq [id : {"TX", "RX_DONE"}, len : Nat] BY DEF Messages
  <2> QED BY <1>1, <2>1, SeqMonotonic DEF Scalars
<1>5. inbox \in Seq({"ok", "error", "timeout"}) BY <1>1 DEF Scalars, Results
<1>6. {written, acked, accepted, rcv_wnd, arrived, got, lost, tx_size, ack_size, arg} \subseteq Nat
      BY <1>1 DEF Scalars
<1>7. {wait_tx, need_close, new_rx_flag, timer, left} \subseteq BOOLEAN BY <1>1 DEF Scalars
<1>8. /\ fast_rx_ack \in BOOLEAN /\ lw \in [at : Jobs, len : Nat]
      /\ pc \in {"idle", "tx", "posting", "waiting", "rx", "reading"}
      BY <1>1 DEF Scalars
<1> QED BY <1>2, <1>3, <1>4, <1>5, <1>6, <1>7, <1>8 DEF TypeOK

LEMMA InvSendQueues == IInv => SendQueuesIntact
<1> SUFFICES ASSUME IInv PROVE SendQueuesIntact OBVIOUS
<1>1. written \in Nat /\ accepted \in Nat BY DEF IInv, Scalars
<1>2. Freed \in Nat /\ Tiles(wait_ack_head, Freed, written) /\ Tiles(tx_head, written, accepted)
      BY DEF IInv, Sending
<1>3. Flat(wait_ack_head) = Numbers(Freed, written) /\ Flat(tx_head) = Numbers(written, accepted)
      BY <1>1, <1>2, TilesAre
<1> QED BY <1>3 DEF SendQueuesIntact, Freed

LEMMA InvWindow == IInv => WindowConserved
<1> SUFFICES ASSUME IInv PROVE WindowConserved OBVIOUS
<1> DEFINE seg == IF lw.at = "seg" THEN lw.len ELSE 0
           out == IF fast_rx_ack THEN 0 ELSE TotalLen(rx_head) + TotalLen(mailbox) + lost
<1>1. rx_wait_size = Size(rx_head) BY DEF IInv, Receiving
<1>2. rcv_wnd + (seg + out) = TCP_WND BY DEF IInv, Window, Missing
<1>3. rcv_wnd \in Nat /\ lost \in Nat /\ lw.len \in Nat /\ fast_rx_ack \in BOOLEAN
      BY DEF IInv, Scalars
<1>4. TotalLen(mailbox) \in Nat
  <2>1. mailbox \in Seq(Messages) BY DEF IInv, Scalars
  <2> QED BY <2>1, MessageLen, TotalSteps
<1>5. TotalLen(rx_head) \in Nat
  <2>1. rx_head \in Seq(Node) /\ \A r \in Node : r.len \in Nat
        BY NodeFields DEF IInv, Receiving, Lives
  <2> QED BY <2>1, TotalSteps
<1>6. seg \in Nat /\ out \in Nat BY <1>3, <1>4, <1>5
<1>7. rcv_wnd + seg + out = TCP_WND
  <2> HIDE DEF seg, out
  <2> QED BY <1>2, <1>3, <1>6
<1> QED BY <1>1, <1>7 DEF WindowConserved

LEMMA InvHole == IInv => HoleIsReported
<1> SUFFICES ASSUME IInv, rx_head # <<>>, Head(rx_head).from > got
             PROVE  need_close \/ lw.at = "ERROR"
    BY DEF HoleIsReported
<1>1. lost \in Nat /\ got \in Nat /\ arrived \in Nat BY DEF IInv, Scalars
<1>2. CASE lost > 0 BY <1>2 DEF IInv, Receiving
<1>3. CASE lost = 0
  <2>1. Tiles(rx_head, got, arrived) /\ Lives(rx_head) BY <1>3 DEF IInv, Receiving
  <2>2. Start(Head(rx_head)) = got BY <1>1, <2>1, TilesTail
  <2>3. Head(rx_head) \in Node BY <2>1, LivesSteps
  <2>4. Head(rx_head).from \in Nat /\ Head(rx_head).read_pos \in Nat BY <2>3, NodeFields
  <2> QED BY <1>1, <2>2, <2>4 DEF Start
<1> QED BY <1>1, <1>2, <1>3

\* Every variable of the data path keeps its type, for any chunk length, window, send
\* buffer and mailbox.
THEOREM StreamTypes == Spec => []TypeOK
BY Invariant, InvTypeOK, PTL

\* The send queues hold exactly the bytes that were not acknowledged, in order, cut
\* where tcp_write has got to.
THEOREM StreamSends == Spec => []SendQueuesIntact
BY Invariant, InvSendQueues, PTL

\* What is missing from the receive window is queued, on its way back or dropped, and
\* rx_wait_size is what can be read.
THEOREM StreamWindow == Spec => []WindowConserved
BY Invariant, InvWindow, PTL

\* Before the user can read past lost bytes the ctrl is marked, or the error is on its
\* way.
THEOREM StreamHole == Spec => []HoleIsReported
BY Invariant, InvHole, PTL

\* A blocking network_tx that succeeds has had every byte acknowledged, unless an
\* earlier one left before its result came.
THEOREM StreamSuccess == Spec => SuccessMeansAcked
<1>1. ASSUME IInv, TxReturn, Head(inbox) = "ok", ~left PROVE acked = accepted
  <2>1. inbox \in Seq(Results) /\ Waits BY <1>1 DEF IInv, Scalars
  <2>2. inbox # <<>> BY <1>1 DEF TxReturn
  <2>3. Head(inbox) = inbox[1] /\ 1 \in 1 .. Len(inbox) BY <2>1, <2>2, TailOf
  <2> QED BY <1>1, <2>1, <2>3 DEF Waits
<1>2. IInv => [TxReturn /\ Head(inbox) = "ok" /\ ~left => acked = accepted]_vars
      BY <1>1
<1> QED BY <1>2, Invariant, PTL DEF SuccessMeansAcked

-----------------------------------------------------------------------------
(* Both directions are byte channels *)

\* The first k bytes of a queue that begins with an interval are taken out.
LEMMA TakeBytes ==
    ASSUME NEW a \in Nat, NEW b \in Nat, a <= b, NEW rest \in Seq(Nat),
           NEW k \in 1 .. b - a
    PROVE  LET q == Join(Numbers(a, b), rest) IN
           /\ k \in 1 .. Len(q)
           /\ SubSeq(q, k + 1, Len(q)) = Join(Numbers(a + k, b), rest)
           /\ q[k] = a + k
<1> DEFINE x == Numbers(a, b)
           y == Numbers(a + k, b)
           q == Join(x, rest)
           r == Join(y, rest)
           m == b - a
           l == Len(rest)
<1>0. m \in Nat OBVIOUS
<1>1. x \in Seq(Nat) /\ Len(x) = m /\ m \in Nat /\ \A i \in 1 .. m : x[i] = a + i
  <2>1. x \in Seq(Nat) /\ Len(x) = b - a /\ \A i \in 1 .. b - a : x[i] = a + i
        BY NumbersType
  <2> HIDE DEF x
  <2> QED BY <1>0, <2>1
<1>2. y \in Seq(Nat) /\ Len(y) = m - k /\ \A i \in 1 .. m - k : y[i] = a + k + i
  <2> DEFINE c == a + k
  <2>1. c \in Nat /\ c <= b /\ b - c = m - k BY <1>1
  <2> HIDE DEF c
  <2>2. Numbers(c, b) \in Seq(Nat) /\ Len(Numbers(c, b)) = b - c
        /\ \A i \in 1 .. b - c : Numbers(c, b)[i] = c + i BY <2>1, NumbersType
  <2> QED BY <2>1, <2>2 DEF c
<1>3. l \in Nat BY LenProperties
<1> HIDE DEF x, y, m, l
<1>4. /\ q \in Seq(Nat) /\ Len(q) = m + l
      /\ \A i \in 1 .. m + l : q[i] = IF i <= m THEN x[i] ELSE rest[i - m]
      BY <1>1, ConcatProperties DEF Join, l
<1>5. /\ r \in Seq(Nat) /\ Len(r) = (m - k) + l
      /\ \A i \in 1 .. (m - k) + l : r[i] = IF i <= m - k THEN y[i] ELSE rest[i - (m - k)]
      BY <1>2, ConcatProperties DEF Join, l
<1>6. k \in 1 .. m BY DEF m
<1> HIDE DEF q, r
<1> DEFINE v == SubSeq(q, k + 1, Len(q))
<1>7. /\ v \in Seq(Nat) /\ Len(v) = m + l - k
      /\ \A i \in 1 .. m + l - k : v[i] = q[k + i]
  <2>1. \A i \in k + 1 .. m + l : q[i] \in Nat
    <3>1. \A i \in k + 1 .. m + l : i \in 1 .. Len(q) BY <1>1, <1>3, <1>4, <1>6
    <3> QED BY <1>4, <3>1
  <2> DEFINE j == k + 1
             n == m + l
  <2>2. j \in Int /\ n \in Int BY <1>1, <1>3, <1>6
  <2>3. v = SubSeq(q, j, n) BY <1>4
  <2>4. \A i \in j .. n : q[i] \in Nat BY <2>1
  <2>5. j = k + 1 /\ n = m + l OBVIOUS
  <2> HIDE DEF j, n, v
  <2>6. /\ v \in Seq(Nat) /\ Len(v) = IF j <= n THEN n - j + 1 ELSE 0
        /\ \A i \in 1 .. n - j + 1 : v[i] = q[j + i - 1]
        BY <2>2, <2>3, <2>4, SubSeqProperties
  <2>7. Len(v) = m + l - k BY <1>1, <1>3, <1>6, <2>5, <2>6
  <2>8. \A i \in 1 .. m + l - k : i \in 1 .. n - j + 1 /\ j + i - 1 = k + i
        BY <1>1, <1>3, <1>6, <2>5
  <2>9. \A i \in 1 .. m + l - k : v[i] = q[k + i] BY <2>6, <2>8
  <2> QED BY <2>6, <2>7, <2>9
<1> HIDE DEF v
<1>8. Len(v) = Len(r) BY <1>1, <1>3, <1>5, <1>6, <1>7
<1>9. ASSUME NEW i \in 1 .. m + l - k PROVE v[i] = r[i]
  <2>1. k + i \in 1 .. m + l /\ i \in 1 .. (m - k) + l BY <1>1, <1>3, <1>6
  <2>2. v[i] = q[k + i] BY <1>7
  <2>3. CASE i <= m - k
    <3>1. k + i <= m /\ k + i \in 1 .. m /\ i \in 1 .. m - k BY <1>1, <1>6, <2>3
    <3>2. v[i] = x[k + i] BY <1>4, <2>1, <2>2, <3>1
    <3>3. r[i] = y[i] BY <1>5, <2>1, <2>3
    <3>4. a + (k + i) = a + k + i BY <1>6
    <3> QED BY <1>1, <1>2, <3>1, <3>2, <3>3, <3>4
  <2>4. CASE ~(i <= m - k)
    <3>1. ~(k + i <= m) /\ (k + i) - m = i - (m - k) BY <1>1, <1>6, <2>4
    <3>2. v[i] = rest[(k + i) - m] BY <1>4, <2>1, <2>2, <3>1
    <3>3. r[i] = rest[i - (m - k)] BY <1>5, <2>1, <2>4
    <3> QED BY <3>1, <3>2, <3>3
  <2> QED BY <2>3, <2>4
<1>10. v = r BY <1>5, <1>7, <1>8, <1>9, SeqEqual
<1>11. k \in 1 .. Len(q) BY <1>1, <1>3, <1>4, <1>6
<1>12. q[k] = a + k
  <2>1. k \in 1 .. m + l /\ k <= m BY <1>1, <1>3, <1>6
  <2>2. q[k] = x[k] BY <1>4, <2>1
  <2> QED BY <1>1, <1>6, <2>2
<1> QED BY <1>10, <1>11, <1>12 DEF v, q, r, x, y

\* The same by the number of the last byte taken.
Takes(q, r, c) == \E i \in 1 .. Len(q) : r = SubSeq(q, i + 1, Len(q)) /\ c = q[i]

LEMMA TakeUpTo ==
    ASSUME NEW a \in Nat, NEW b \in Nat, NEW c \in Nat, a < c, c <= b,
           NEW rest \in Seq(Nat),
           NEW q, q = Join(Numbers(a, b), rest), NEW r, r = Join(Numbers(c, b), rest)
    PROVE  Takes(q, r, c)
<1> DEFINE k == c - a
<1>1. k \in 1 .. b - a /\ a + k = c /\ a <= b OBVIOUS
<1> HIDE DEF k
<1>2. /\ k \in 1 .. Len(q)
      /\ SubSeq(q, k + 1, Len(q)) = Join(Numbers(a + k, b), rest)
      /\ q[k] = a + k
      BY <1>1, TakeBytes
<1> QED BY <1>1, <1>2 DEF Takes

\* A step of the send side queues bytes or hands some to tcp_write, never both.
LEMMA SendMoves ==
    ASSUME IInv, [Next]_vars
    PROVE  \/ written' = written /\ accepted <= accepted'
           \/ accepted' = accepted /\ written <= written'
<1>1. written \in Nat /\ acked \in Nat /\ accepted \in Nat BY DEF IInv, Scalars
<1>2. /\ Freed \in Nat
      /\ Tiles(wait_ack_head, Freed, written) /\ Tiles(tx_head, written, accepted)
      BY DEF IInv, Sending
<1>3. ASSUME UNCHANGED <<written, accepted>>
      PROVE  written' = written /\ accepted <= accepted'
      BY <1>1, <1>3
<1>4. CASE \/ UNCHANGED vars \/ AppAndRx \/ TakeTx \/ RecvCb \/ OnLine
           \/ \E n \in Sizes : PeerAck(n) \/ PeerSend(n)
  <2>1. UNCHANGED <<written, accepted>>
        BY <1>4, AppAndRxLeave DEF TakeTx, RecvCb, OnLine, PeerAck, PeerSend, vars, txVars
  <2> QED BY <1>3, <2>1
<1>5. CASE SocketSend
  <2>1. written' = written BY <1>5 DEF SocketSend
  <2> QED BY <1>5, <2>1, SocketSendTile
<1>6. CASE HandleTx
  <2>1. WriteChunks(wait_ack_head) /\ accepted' = accepted BY <1>6 DEF HandleTx
  <2> QED BY <1>1, <1>2, <2>1, WriteChunksTile
<1>7. CASE SentCb
  <2>1. lw.at = "ack" /\ accepted' = accepted BY <1>7 DEF SentCb
  <2>2. /\ Size(wait_ack_head) >= lw.len
        /\ Tiles(Acknowledge(wait_ack_head, lw.len), acked, written)
        BY <2>1, AckIsHeld DEF IInv
  <2>3. WriteChunks(Acknowledge(wait_ack_head, lw.len)) BY <1>7, <2>2 DEF SentCb
  <2> QED BY <1>1, <1>2, <2>1, <2>2, <2>3, WriteChunksTile
<1> QED BY <1>4, <1>5, <1>6, <1>7 DEF Next, AppStep, TcpipStep, AppAndRx

LEMMA TxChannelStep ==
    ASSUME IInv, IInv', [Next]_vars
    PROVE  [TxChannel!ChNext]_(TxChannel!chVars)
<1>1. /\ written \in Nat /\ accepted \in Nat /\ written' \in Nat /\ accepted' \in Nat
      /\ Tiles(tx_head, written, accepted) /\ Tiles(tx_head', written', accepted')
      BY DEF IInv, Scalars, Sending
<1>2. /\ written <= accepted /\ Flat(tx_head) = Numbers(written, accepted)
      /\ written' <= accepted' /\ Flat(tx_head') = Numbers(written', accepted')
      BY <1>1, TilesAre
<1>3. CASE written' = written /\ accepted' = accepted
  <2>1. Flat(tx_head') = Flat(tx_head) BY <1>2, <1>3
  <2> QED BY <1>3, <2>1 DEF TxChannel!chVars
<1>4. CASE written' = written /\ accepted < accepted'
  <2>1. Join(Numbers(written, accepted), Numbers(accepted, accepted'))
            = Numbers(written, accepted')
        BY <1>1, <1>2, <1>4, NumbersJoin
  <2>2. Numbers(accepted, accepted') = [i \in 1 .. accepted' - accepted |-> accepted + i]
        BY DEF Numbers
  <2>3. Flat(tx_head') = Flat(tx_head) \o [i \in 1 .. accepted' - accepted |-> accepted + i]
    <3>1. Flat(tx_head') = Join(Flat(tx_head), Numbers(accepted, accepted'))
          BY <1>2, <1>4, <2>1
    <3> QED BY <2>2, <3>1 DEF Join
  <2>4. accepted' > accepted BY <1>1, <1>4
  <2>5. TxChannel!Put BY <1>4, <2>3, <2>4 DEF TxChannel!Put
  <2> QED BY <2>5 DEF TxChannel!ChNext
<1>5. CASE accepted' = accepted /\ written < written'
  <2> DEFINE a == written
             b == accepted
             c == written'
             q == Flat(tx_head)
  <2>1. a \in Nat /\ b \in Nat /\ c \in Nat /\ a <= b /\ a < c /\ c <= b /\ accepted' = b
        /\ q = Numbers(a, b) /\ Flat(tx_head') = Numbers(c, b)
        BY <1>1, <1>2, <1>5
  <2> HIDE DEF a, b, c, q
  <2>2. <<>> \in Seq(Nat) BY EmptySeq
  <2>3. Join(Numbers(a, b), <<>>) = q
    <3>1. Numbers(a, b) \in Seq(Nat) BY <2>1, NumbersType
    <3> QED BY <2>1, <2>2, <3>1, JoinSeq
  <2>4. Join(Numbers(c, b), <<>>) = Flat(tx_head')
    <3>1. Numbers(c, b) \in Seq(Nat) BY <2>1, NumbersType
    <3> QED BY <2>1, <2>2, <3>1, JoinSeq
  <2>5. Takes(q, Flat(tx_head'), c)
    <3> DEFINE e == <<>>
               r == Flat(tx_head')
    <3>1. e \in Seq(Nat) /\ q = Join(Numbers(a, b), e) /\ r = Join(Numbers(c, b), e)
          BY <2>2, <2>3, <2>4
    <3> HIDE DEF e, r
    <3>2. Takes(q, r, c) BY <2>1, <3>1, TakeUpTo
    <3> QED BY <3>2 DEF r
  <2>6. TxChannel!Take BY <1>5, <2>5 DEF TxChannel!Take, Takes, q, c
  <2> QED BY <2>6 DEF TxChannel!ChNext
<1>6. \/ written' = written /\ accepted <= accepted'
      \/ accepted' = accepted /\ written <= written'
      BY SendMoves
<1> QED BY <1>1, <1>3, <1>4, <1>5, <1>6

\* The send side is a byte channel from network_tx to tcp_write: what is queued is
\* handed over in order, each byte once, and none is lost.
THEOREM StreamTxChannel == Spec => TxIsChannel
<1>1. Init => TxChannel!ChInit BY FlatEmpty DEF Init, TxChannel!ChInit
<1>2. IInv /\ IInv' /\ [Next]_vars => [TxChannel!ChNext]_(TxChannel!chVars)
      BY TxChannelStep
<1> QED BY <1>1, <1>2, Invariant, PTL DEF Spec, TxIsChannel, TxChannel!ChSpec

\* network_rx takes the next bytes of the first node, and drops it when it is used up.
LEMMA ReadTakes ==
    ASSUME IInv, ReadNode
    PROVE  Takes(Flat(rx_head), Flat(rx_head'), got')
<1> DEFINE p == Head(rx_head)
           n == Copied(p)
           c == got'
           rest == Flat(Tail(rx_head))
           new == Flat(rx_head')
<1>1. Lives(rx_head) BY DEF IInv, Receiving
<1>2. rx_head # <<>> /\ arg > 0 /\ c = p.from + p.read_pos + n BY DEF ReadNode
<1>3. \/ p.read_pos + n < p.len /\ rx_head' = ReadOff(rx_head, n)
      \/ p.read_pos + n >= p.len /\ rx_head' = Tail(rx_head)
      BY DEF ReadNode, ReadOff
<1>4. p \in Node /\ Live(p) /\ Lives(Tail(rx_head)) BY <1>1, <1>2, LivesSteps
<1>5. n \in Nat /\ n > 0 /\ p.read_pos + n <= p.len BY <1>2, <1>4, CopiedBytes DEF IInv
<1>6. p.from \in Nat /\ p.len \in Nat /\ p.read_pos \in Nat BY <1>4, NodeFields
<1>7. Start(p) = p.from + p.read_pos /\ End(p) = p.from + p.len BY DEF Start, End
<1>8. rest \in Seq(Nat) BY <1>4, FlatType
<1>9. Bytes(p) = Numbers(Start(p), End(p)) BY <1>4, BytesType
<1>10. Flat(rx_head) = Join(Numbers(Start(p), End(p)), rest) BY <1>1, <1>2, <1>9, FlatCons
<1>11. new = Join(Numbers(c, End(p)), rest)
  <2>1. CASE p.read_pos + n < p.len /\ rx_head' = ReadOff(rx_head, n)
    <3> DEFINE s == ReadOff(rx_head, n)
               q == Head(s)
    <3>1. /\ Lives(s) /\ s # <<>> /\ Tail(s) = Tail(rx_head)
          /\ q = [p EXCEPT !.read_pos = @ + n]
          BY <1>1, <1>2, <1>5, <2>1, ReadOffHead
    <3>2. q.from = p.from /\ q.len = p.len /\ q.read_pos = p.read_pos + n
          BY <1>4, <3>1 DEF Node
    <3>3. q \in Node /\ Live(q) BY <3>1, LivesSteps
    <3>4. Start(q) = q.from + q.read_pos /\ End(q) = q.from + q.len BY DEF Start, End
    <3> HIDE DEF p, n, q, s
    <3>5. Start(q) = c /\ End(q) = End(p) BY <1>2, <1>5, <1>6, <1>7, <3>2, <3>4
    <3>6. Bytes(q) = Numbers(c, End(p)) BY <3>3, <3>5, BytesType
    <3>7. Flat(s) = Join(Bytes(q), Flat(Tail(s))) BY <3>1, FlatCons DEF q
    <3> QED BY <2>1, <3>1, <3>6, <3>7 DEF s
  <2>2. CASE p.read_pos + n >= p.len /\ rx_head' = Tail(rx_head)
    <3>1. new = rest BY <2>2
    <3> HIDE DEF p, n, rest, new
    <3>2. c = End(p) /\ c \in Nat
      <4>1. p.read_pos + n = p.len BY <1>5, <1>6, <2>2
      <4>2. c = p.from + p.len BY <1>2, <1>5, <1>6, <4>1
      <4> QED BY <1>6, <1>7, <4>2
    <3>3. Numbers(c, End(p)) = <<>> BY <3>2, NumbersEmpty
    <3>4. Join(<<>>, rest) = rest BY <1>8, EmptySeq, JoinSeq
    <3> QED BY <3>1, <3>3, <3>4
  <2> QED BY <1>3, <2>1, <2>2
<1> HIDE DEF p, n, c, rest, new
<1>12. Start(p) \in Nat /\ End(p) \in Nat /\ c \in Nat /\ Start(p) < c /\ c <= End(p)
      BY <1>2, <1>5, <1>6, <1>7
<1> DEFINE a == Start(p)
           b == End(p)
           q == Flat(rx_head)
<1>13. a \in Nat /\ b \in Nat /\ q = Join(Numbers(a, b), rest) /\ a < c /\ c <= b
       /\ new = Join(Numbers(c, b), rest)
       BY <1>10, <1>11, <1>12
<1> HIDE DEF a, b, q
<1>14. Takes(q, new, c) BY <1>8, <1>12, <1>13, TakeUpTo
<1> QED BY <1>14 DEF q, new, c

LEMMA RxChannelStep ==
    ASSUME IInv, IInv', [Next]_vars
    PROVE  [RxChannel!ChNext]_(RxChannel!chVars)
<1>1. Lives(rx_head) /\ arrived \in Nat /\ lost \in Nat /\ lw \in [at : Jobs, len : Nat]
      BY DEF IInv, Scalars, Receiving
<1>2. ASSUME UNCHANGED <<rx_head, arrived, got, lost>>
      PROVE  [RxChannel!ChNext]_(RxChannel!chVars)
  <2>1. Flat(rx_head') = Flat(rx_head) BY <1>2
  <2> QED BY <1>2, <2>1 DEF RxChannel!chVars
<1>3. CASE UNCHANGED vars BY <1>2, <1>3 DEF vars, rxVars
<1>4. CASE \/ SocketSend \/ TxPost \/ TxReturn \/ SocketReceive \/ TimerFires \/ DropResult
           \/ TakeRxDone \/ TakeTx \/ HandleTx \/ SentCb \/ OnLine \/ ReadEnd
           \/ \E n \in Sizes : NetworkTx(n) \/ NetworkRx(n) \/ PeerAck(n) \/ PeerSend(n)
  <2>1. UNCHANGED <<rx_head, arrived, got, lost>>
        BY <1>4 DEF SocketSend, TxPost, TxReturn, SocketReceive, TimerFires, DropResult,
                    TakeRxDone, TakeTx, HandleTx, SentCb, OnLine, ReadEnd, NetworkTx,
                    NetworkRx, PeerAck, PeerSend, rxVars
  <2> QED BY <1>2, <2>1
<1>5. CASE ReadNode
  <2>1. UNCHANGED <<arrived, lost>> BY <1>5 DEF ReadNode
  <2>2. Takes(Flat(rx_head), Flat(rx_head'), got') BY <1>5, ReadTakes
  <2>3. RxChannel!Take BY <2>1, <2>2 DEF RxChannel!Take, Takes
  <2> QED BY <2>3 DEF RxChannel!ChNext
<1>6. CASE RecvCb
  <2> DEFINE n == lw.len
             p == [from |-> arrived, len |-> n, read_pos |-> 0]
  <2>1. lw.at = "seg" /\ arrived' = arrived + n /\ got' = got BY <1>6 DEF RecvCb
  <2>2. n \in Nat /\ n > 0 BY <1>1, <2>1 DEF IInv, Busy
  <2>3. arrived' > arrived /\ arrived' - arrived = n BY <1>1, <2>1, <2>2
  <2>4. \/ rx_head' = Append(rx_head, p) /\ lost' = lost
        \/ lost' = lost + n /\ rx_head' = rx_head
        BY <1>6 DEF RecvCb
  <2>5. CASE rx_head' = Append(rx_head, p) /\ lost' = lost
    <3>1. p \in Node /\ Live(p) BY <1>1, <2>2, SegmentNode
    <3>2. Flat(Append(rx_head, p)) = Join(Flat(rx_head), Bytes(p)) BY <1>1, <3>1, FlatAppend
    <3>3. Bytes(p) = [i \in 1 .. n |-> arrived + i] BY <1>1, <2>2 DEF Bytes
    <3>4. Flat(rx_head') = Flat(rx_head) \o [i \in 1 .. arrived' - arrived |-> arrived + i]
      <4> HIDE DEF n, p
      <4> QED BY <2>3, <2>5, <3>2, <3>3 DEF Join
    <3>5. RxChannel!Put BY <2>1, <2>3, <2>5, <3>4 DEF RxChannel!Put
    <3> QED BY <3>5 DEF RxChannel!ChNext
  <2>6. CASE lost' = lost + n /\ rx_head' = rx_head
    <3>1. (lost' > 0) = TRUE BY <1>1, <2>2, <2>6
    <3>2. Flat(rx_head') = Flat(rx_head) BY <2>6
    <3>3. RxChannel!Lose BY <2>1, <2>3, <3>1, <3>2 DEF RxChannel!Lose
    <3> QED BY <3>3 DEF RxChannel!ChNext
  <2> QED BY <2>4, <2>5, <2>6
<1> QED BY <1>3, <1>4, <1>5, <1>6 DEF Next, AppStep, TcpipStep

\* The receive side is a byte channel from the peer to network_rx: what arrives is
\* returned in order, each byte once, and none is lost without breaking it.
THEOREM StreamRxChannel == Spec => RxIsChannel
<1>1. Init => RxChannel!ChInit BY FlatEmpty DEF Init, RxChannel!ChInit
<1>2. IInv /\ IInv' /\ [Next]_vars => [RxChannel!ChNext]_(RxChannel!chVars)
      BY RxChannelStep
<1> QED BY <1>1, <1>2, Invariant, PTL DEF Spec, RxIsChannel, RxChannel!ChSpec
=============================================================================
