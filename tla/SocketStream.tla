---------------------------- MODULE SocketStream -----------------------------
(***************************************************************************)
(* The data path of one connected TCP socket: network_tx and network_rx of *)
(* luat_network_adapter.c in the application's task, the queues tx_head,   *)
(* wait_ack_head and rx_head of luat_lwip_ec618.c, and the lwIP thread     *)
(* that moves bytes between them and the pcb.                              *)
(*                                                                         *)
(* Two locks matter: NW_LOCK, held by an operation of the application and  *)
(* by the state machine when it handles an event, and SOCKET_LOCK, held    *)
(* while a queue is touched.  net_lwip_socket_receive posts to the lwIP    *)
(* thread while it holds both.                                             *)
(*                                                                         *)
(* The socket is TCP and without TLS, and the ctrl is online.  Opening and *)
(* closing are the subject of SocketTable and NetCtrl.                     *)
(***************************************************************************)
EXTENDS Integers, SequencesExt

CONSTANTS
    SOCKET_BUF_LEN,     \* the size of a chunk in tx_head
    TCP_SND_BUF,        \* lwIP's send buffer
    TCP_WND,            \* lwIP's receive window
    TCPIP_MBOX_SIZE,    \* capacity of the mailbox of the lwIP thread
    MaxTx, MaxRx,       \* bounds: bytes sent and received by a behaviour
    Sizes               \* the lengths of sends, reads, segments and acks

ASSUME StreamAssumption ==
    /\ SOCKET_BUF_LEN \in Nat \ {0}
    /\ TCP_SND_BUF \in Nat /\ TCP_SND_BUF >= SOCKET_BUF_LEN
    /\ TCP_WND \in Nat \ {0}
    /\ TCPIP_MBOX_SIZE \in Nat \ {0}
    /\ MaxTx \in Nat /\ MaxRx \in Nat
    /\ Sizes \subseteq Nat \ {0}

VARIABLES
    tx_head, wait_ack_head, rx_head,    \* socket_ctrl_t: lists of socket_data_t
    rx_wait_size, fast_rx_ack,
    mailbox,            \* messages for net_lwip_task
    lw,                 \* what the lwIP thread is doing
    written, acked,     \* the pcb: bytes given to tcp_write, bytes acknowledged
    rcv_wnd,            \* the pcb: receive window
    arrived,            \* bytes the peer has sent us
    accepted,           \* bytes net_lwip_socket_send has queued
    got,                \* the last byte network_rx has returned
    tx_size, ack_size, wait_tx, need_close, new_rx_flag,    \* network_ctrl_t
    pc,                 \* the application's task
    arg,                \* bytes its operation has still to handle
    timer,              \* ctrl->timer is running
    inbox,              \* the task's queue: EV_NW_RESULT_TX and EV_NW_TIMEOUT
    lost,               \* history: received bytes there was no memory for
    left                \* history: a network_tx returned before its result came

txVars == <<tx_head, wait_ack_head, written, acked, accepted>>
rxVars == <<rx_head, rx_wait_size, rcv_wnd, arrived, got, lost>>
ctrlVars == <<tx_size, ack_size, wait_tx, need_close, new_rx_flag>>
appVars == <<pc, arg, timer, inbox, left>>
vars == <<txVars, rxVars, ctrlVars, appVars, fast_rx_ack, mailbox, lw>>

\* from: the number of the byte before the node's first
Node == [from : Nat, len : Nat \ {0}, read_pos : Nat]
Jobs == {"idle", "tx", "ack", "seg", "TX_OK", "RX_NEW", "ERROR"}
Idle == [at |-> "idle", len |-> 0]

Init ==
    /\ tx_head = <<>> /\ wait_ack_head = <<>> /\ rx_head = <<>>
    /\ rx_wait_size = 0
    /\ fast_rx_ack \in BOOLEAN
    /\ mailbox = <<>>
    /\ lw = Idle
    /\ written = 0 /\ acked = 0 /\ accepted = 0
    /\ rcv_wnd = TCP_WND /\ arrived = 0 /\ got = 0 /\ lost = 0
    /\ tx_size = 0 /\ ack_size = 0
    /\ wait_tx = FALSE /\ need_close = FALSE /\ new_rx_flag = FALSE
    /\ pc = "idle" /\ arg = 0
    /\ timer = FALSE /\ inbox = <<>> /\ left = FALSE

-----------------------------------------------------------------------------
(* Helpers *)

Least(a, b) == IF a < b THEN a ELSE b

\* the bytes of a node that have not been read, or acknowledged, yet
Bytes(p) == [i \in 1 .. p.len - p.read_pos |-> p.from + p.read_pos + i]
Flat(nodes) == FlattenSeq([i \in DOMAIN nodes |-> Bytes(nodes[i])])
Size(nodes) == Len(Flat(nodes))

\* NW_LOCK and SOCKET_LOCK are free
NwFree == pc \in {"idle", "tx", "rx", "waiting"}
SocketFree == pc # "reading"

\* platform_send_event: blocks while the mailbox is full
Post(id, n) ==
    /\ Len(mailbox) < TCPIP_MBOX_SIZE
    /\ mailbox' = Append(mailbox, [id |-> id, len |-> n])

\* the nodes net_lwip_socket_send makes of n bytes
Chunks(n) ==
    [i \in 1 .. (n + SOCKET_BUF_LEN - 1) \div SOCKET_BUF_LEN |->
        [from |-> accepted + (i - 1) * SOCKET_BUF_LEN,
         len |-> Least(SOCKET_BUF_LEN, n - (i - 1) * SOCKET_BUF_LEN),
         read_pos |-> 0]]

-----------------------------------------------------------------------------
(* network_tx *)

\* the ctrl is examined before NW_LOCK is taken
NetworkTx(n) ==
    /\ pc = "idle"
    /\ ~need_close
    /\ accepted + n <= MaxTx
    /\ pc' = "tx"
    /\ arg' = n
    /\ UNCHANGED <<txVars, rxVars, ctrlVars, timer, inbox, left, fast_rx_ack, mailbox, lw>>

\* net_lwip_socket_send queues the chunks under SOCKET_LOCK.  Without memory for
\* one of them it gives up: those before it stay, and the ctrl must be closed
SocketSend ==
    /\ pc = "tx"
    /\ \/ /\ tx_head' = tx_head \o Chunks(arg)
          /\ accepted' = accepted + arg
          /\ pc' = "posting"
          /\ UNCHANGED <<arg, need_close>>
       \/ /\ \E k \in 0 .. Len(Chunks(arg)) - 1 :
                /\ tx_head' = tx_head \o SubSeq(Chunks(arg), 1, k)
                /\ accepted' = accepted + Size(SubSeq(Chunks(arg), 1, k))
          /\ need_close' = TRUE
          /\ pc' = "idle"
          /\ arg' = 0
    /\ UNCHANGED <<wait_ack_head, written, acked, rxVars, tx_size, ack_size, wait_tx,
                   new_rx_flag, timer, inbox, left, fast_rx_ack, mailbox, lw>>

\* ... posts TX, counts the bytes and waits, unless the caller wants no waiting
TxPost ==
    /\ pc = "posting"
    /\ Post("TX", 0)
    /\ tx_size' = tx_size + arg
    /\ wait_tx' = TRUE
    /\ \/ pc' = "waiting" /\ timer' = TRUE /\ UNCHANGED left
       \/ pc' = "idle" /\ left' = TRUE /\ UNCHANGED timer
    /\ arg' = 0
    /\ UNCHANGED <<txVars, rxVars, ack_size, need_close, new_rx_flag, inbox,
                   fast_rx_ack, lw>>

\* network_default_timer_callback
TimerFires ==
    /\ timer
    /\ timer' = FALSE
    /\ inbox' = Append(inbox, "timeout")
    /\ UNCHANGED <<txVars, rxVars, ctrlVars, pc, arg, left, fast_rx_ack, mailbox, lw>>

\* network_tx returns what it finds first in its task's queue.  It stops the timer,
\* not the event the timer may have posted, and after a timeout wait_target_state
\* stays NW_WAIT_TX_OK
TxReturn ==
    /\ pc = "waiting"
    /\ inbox # <<>>
    /\ inbox' = Tail(inbox)
    /\ left' = (left \/ Head(inbox) = "timeout")
    /\ pc' = "idle"
    /\ timer' = FALSE
    /\ UNCHANGED <<txVars, rxVars, ctrlVars, arg, fast_rx_ack, mailbox, lw>>

\* network_wait_rx and the other loops drop the events they do not wait for
DropResult ==
    /\ pc = "idle"
    /\ inbox # <<>>
    /\ inbox' = Tail(inbox)
    /\ UNCHANGED <<txVars, rxVars, ctrlVars, pc, arg, timer, left, fast_rx_ack, mailbox, lw>>

-----------------------------------------------------------------------------
(* network_rx *)

NetworkRx(n) ==
    /\ pc = "idle"
    /\ need_close => new_rx_flag
    /\ pc' = "rx"
    /\ arg' = n
    /\ UNCHANGED <<txVars, rxVars, ctrlVars, timer, inbox, left, fast_rx_ack, mailbox, lw>>

SocketReceive ==
    /\ pc = "rx"
    /\ new_rx_flag' = FALSE
    /\ pc' = "reading"
    /\ UNCHANGED <<txVars, rxVars, tx_size, ack_size, wait_tx, need_close, arg, timer,
                   inbox, left, fast_rx_ack, mailbox, lw>>

\* mutant: more is counted than the node has
CopiedAsked(p) == arg

\* what net_lwip_socket_read_data copies of a node
Copied(p) == Least(p.len - p.read_pos, arg)

\* one turn of the loop of net_lwip_socket_receive: net_lwip_socket_read_data
\* copies from the first node, and when it is used up tells the lwIP thread and
\* frees it
ReadNode ==
    /\ pc = "reading" /\ arg > 0 /\ rx_head # <<>>
    /\ LET p == Head(rx_head)
           n == Copied(p)
       IN
       /\ arg' = arg - n
       /\ rx_wait_size' = rx_wait_size - n
       /\ got' = p.from + p.read_pos + n
       /\ \/ /\ p.read_pos + n < p.len
             /\ rx_head' = [rx_head EXCEPT ![1].read_pos = @ + n]
             /\ UNCHANGED mailbox
          \/ /\ p.read_pos + n >= p.len
             /\ rx_head' = Tail(rx_head)
             /\ IF fast_rx_ack THEN UNCHANGED mailbox ELSE Post("RX_DONE", p.len)
    /\ UNCHANGED <<txVars, rcv_wnd, arrived, lost, ctrlVars, pc, timer, inbox, left,
                   fast_rx_ack, lw>>

ReadEnd ==
    /\ pc = "reading"
    /\ arg = 0 \/ rx_head = <<>>
    /\ rx_wait_size' = IF rx_head = <<>> THEN 0 ELSE rx_wait_size
    /\ pc' = "idle"
    /\ arg' = 0
    /\ UNCHANGED <<txVars, rx_head, rcv_wnd, arrived, got, lost, ctrlVars, timer, inbox,
                   left, fast_rx_ack, mailbox, lw>>

-----------------------------------------------------------------------------
(* The lwIP thread *)

Begin(job, n) ==
    /\ lw = Idle
    /\ lw' = [at |-> job, len |-> n]

\* net_lwip_task takes a message; RX_DONE needs no lock
TakeTx ==
    /\ mailbox # <<>> /\ Head(mailbox).id = "TX"
    /\ mailbox' = Tail(mailbox)
    /\ Begin("tx", 0)
    /\ UNCHANGED <<txVars, rxVars, ctrlVars, appVars, fast_rx_ack>>

TakeRxDone ==
    /\ lw = Idle
    /\ mailbox # <<>> /\ Head(mailbox).id = "RX_DONE"
    /\ mailbox' = Tail(mailbox)
    /\ rcv_wnd' = rcv_wnd + Head(mailbox).len
    /\ UNCHANGED <<txVars, rx_head, rx_wait_size, arrived, got, lost, ctrlVars, appVars,
                   fast_rx_ack, lw>>

\* the peer acknowledges n bytes, or sends n within the window
PeerAck(n) ==
    /\ n <= written - acked
    /\ Begin("ack", n)
    /\ acked' = acked + n
    /\ UNCHANGED <<tx_head, wait_ack_head, written, accepted, rxVars, ctrlVars, appVars,
                   fast_rx_ack, mailbox>>

PeerSend(n) ==
    /\ n <= rcv_wnd
    /\ arrived + n <= MaxRx
    /\ Begin("seg", n)
    /\ rcv_wnd' = rcv_wnd - n
    /\ UNCHANGED <<txVars, rx_head, rx_wait_size, arrived, got, lost, ctrlVars, appVars,
                   fast_rx_ack, mailbox>>

\* mutant: the chunk tcp_write refused is gone
WriteChunksDrops(waiting) ==
    \E k \in 0 .. Len(tx_head) :
        LET w == written + Size(SubSeq(tx_head, 1, k)) IN
        /\ w - acked <= TCP_SND_BUF
        /\ k = Len(tx_head) \/ w > acked
        /\ written' = w
        /\ wait_ack_head' = waiting \o SubSeq(tx_head, 1, k)
        /\ tx_head' = SubSeq(tx_head, k + 2, Len(tx_head))

\* the loops over tx_head: chunk after chunk goes to tcp_write and then to the end
\* of the given wait_ack_head, until tcp_write refuses one.  It refuses what does
\* not fit the send buffer, and may refuse while other segments are in flight
WriteChunks(waiting) ==
    \E k \in 0 .. Len(tx_head) :
        LET w == written + Size(SubSeq(tx_head, 1, k)) IN
        /\ w - acked <= TCP_SND_BUF
        /\ \/ k = Len(tx_head)
           \/ k < Len(tx_head) /\ w + tx_head[k + 1].len - acked > TCP_SND_BUF
           \/ w > acked
        /\ written' = w
        /\ wait_ack_head' = waiting \o SubSeq(tx_head, 1, k)
        /\ tx_head' = SubSeq(tx_head, k + 1, Len(tx_head))

\* EV_LWIP_SOCKET_TX
HandleTx ==
    /\ lw.at = "tx"
    /\ SocketFree
    /\ WriteChunks(wait_ack_head)
    /\ lw' = Idle
    /\ UNCHANGED <<acked, accepted, rxVars, ctrlVars, appVars, fast_rx_ack, mailbox>>

\* mutant: a node is freed when some of it is acknowledged
AcknowledgeWhole(nodes, n) ==
    LET k == CHOOSE k \in 0 .. Len(nodes) :
                /\ Size(SubSeq(nodes, 1, k)) >= n
                /\ k > 0 => Size(SubSeq(nodes, 1, k - 1)) < n
    IN SubSeq(nodes, k + 1, Len(nodes))

\* the nodes left when n bytes of a queue have been acknowledged
Acknowledge(nodes, n) ==
    LET k == CHOOSE k \in 0 .. Len(nodes) :
                /\ Size(SubSeq(nodes, 1, k)) <= n
                /\ k < Len(nodes) => Size(SubSeq(nodes, 1, k + 1)) > n
        rest == SubSeq(nodes, k + 1, Len(nodes))
        more == n - Size(SubSeq(nodes, 1, k))
    IN IF more = 0 THEN rest ELSE [rest EXCEPT ![1].read_pos = @ + more]

\* mutant: the room an acknowledgement makes is not used
SentCbOnlyFrees ==
    /\ lw.at = "ack"
    /\ SocketFree
    /\ wait_ack_head' = Acknowledge(wait_ack_head, lw.len)
    /\ lw' = [lw EXCEPT !.at = "TX_OK"]
    /\ UNCHANGED <<tx_head, written, acked, accepted, rxVars, ctrlVars, appVars,
                   fast_rx_ack, mailbox>>

\* net_lwip_tcp_sent_cb: an acknowledgement of bytes no node holds is an error
SentCb ==
    /\ lw.at = "ack"
    /\ SocketFree
    /\ IF Size(wait_ack_head) >= lw.len
       THEN /\ WriteChunks(Acknowledge(wait_ack_head, lw.len))
            /\ lw' = [lw EXCEPT !.at = "TX_OK"]
       ELSE /\ wait_ack_head' = <<>>
            /\ lw' = [lw EXCEPT !.at = "ERROR"]
            /\ UNCHANGED <<tx_head, written>>
    /\ UNCHANGED <<acked, accepted, rxVars, ctrlVars, appVars, fast_rx_ack, mailbox>>

\* mutant: new data goes to the front of the queue
RecvCbFront ==
    /\ lw.at = "seg"
    /\ SocketFree
    /\ arrived' = arrived + lw.len
    /\ rx_head' = <<[from |-> arrived, len |-> lw.len, read_pos |-> 0]>> \o rx_head
    /\ rx_wait_size' = rx_wait_size + lw.len
    /\ lw' = [lw EXCEPT !.at = "RX_NEW"]
    /\ UNCHANGED <<txVars, rcv_wnd, got, lost, ctrlVars, appVars, fast_rx_ack, mailbox>>

\* mutant: tcp_recved is called at once and again when the data has been read
RecvCbAcks ==
    /\ lw.at = "seg"
    /\ SocketFree
    /\ arrived' = arrived + lw.len
    /\ rx_head' = Append(rx_head, [from |-> arrived, len |-> lw.len, read_pos |-> 0])
    /\ rx_wait_size' = rx_wait_size + lw.len
    /\ rcv_wnd' = rcv_wnd + lw.len
    /\ lw' = [lw EXCEPT !.at = "RX_NEW"]
    /\ UNCHANGED <<txVars, got, lost, ctrlVars, appVars, fast_rx_ack, mailbox>>

\* net_lwip_tcp_recv_cb and net_lwip_rx_data: without memory the bytes are dropped.
\* In fast-ack mode the window is opened again at once
RecvCb ==
    /\ lw.at = "seg"
    /\ SocketFree
    /\ arrived' = arrived + lw.len
    /\ \/ /\ rx_head' = Append(rx_head, [from |-> arrived, len |-> lw.len, read_pos |-> 0])
          /\ rx_wait_size' = rx_wait_size + lw.len
          /\ lw' = [lw EXCEPT !.at = "RX_NEW"]
          /\ UNCHANGED lost
       \/ /\ lost' = lost + lw.len
          /\ lw' = [lw EXCEPT !.at = "ERROR"]
          /\ UNCHANGED <<rx_head, rx_wait_size>>
    /\ rcv_wnd' = IF fast_rx_ack THEN rcv_wnd + lw.len ELSE rcv_wnd
    /\ UNCHANGED <<txVars, got, ctrlVars, appVars, fast_rx_ack, mailbox>>

-----------------------------------------------------------------------------
(* network_default_statemachine with network_state_on_line *)

\* net_lwip_check_all_ack
CheckAllAck == IF wait_ack_head = <<>> /\ tx_head = <<>> THEN "ok" ELSE "error"

\* a result other than "go on waiting" ends the wait; only EV_NW_RESULT_TX matters
Result(r) ==
    /\ wait_tx' = FALSE
    /\ inbox' = IF wait_tx THEN Append(inbox, r) ELSE inbox

GoOn == UNCHANGED <<wait_tx, inbox>>

\* mutant: the error does not mark the ctrl
OnErrorForgiven ==
    /\ Result("error")
    /\ UNCHANGED <<ack_size, need_close, new_rx_flag>>

OnError ==
    /\ need_close' = TRUE
    /\ Result("error")
    /\ UNCHANGED <<ack_size, new_rx_flag>>

OnTxOk ==
    /\ ack_size' = ack_size + lw.len
    /\ IF wait_tx /\ ack_size' = tx_size THEN Result(CheckAllAck) ELSE GoOn
    /\ UNCHANGED <<need_close, new_rx_flag>>

\* mutant: data ends any wait
OnRxNewAnswers ==
    /\ new_rx_flag' = TRUE
    /\ Result("ok")
    /\ UNCHANGED <<ack_size, need_close>>

OnRxNew ==
    /\ new_rx_flag' = TRUE
    /\ IF wait_tx THEN GoOn ELSE Result("ok")
    /\ UNCHANGED <<ack_size, need_close>>

\* a ctrl that must be closed answers everything with an error
OnLine ==
    /\ lw.at \in {"TX_OK", "RX_NEW", "ERROR"}
    /\ NwFree
    /\ lw' = Idle
    /\ \/ need_close /\ Result("error") /\ UNCHANGED <<ack_size, need_close, new_rx_flag>>
       \/ ~need_close /\ lw.at = "ERROR" /\ OnError
       \/ ~need_close /\ lw.at = "TX_OK" /\ OnTxOk
       \/ ~need_close /\ lw.at = "RX_NEW" /\ OnRxNew
    /\ UNCHANGED <<txVars, rxVars, tx_size, pc, arg, timer, left, fast_rx_ack, mailbox>>

-----------------------------------------------------------------------------
AppStep == SocketSend \/ TxPost \/ TxReturn \/ SocketReceive \/ ReadNode \/ ReadEnd

TcpipStep == TakeTx \/ TakeRxDone \/ HandleTx \/ SentCb \/ RecvCb \/ OnLine

Next ==
    \/ \E n \in Sizes : NetworkTx(n) \/ NetworkRx(n) \/ PeerAck(n) \/ PeerSend(n)
    \/ AppStep
    \/ TimerFires
    \/ DropResult
    \/ TcpipStep

Spec == Init /\ [][Next]_vars

\* The threads go on, and the peer acknowledges what it gets: a lost segment is
\* sent again by lwIP, and a dead peer ends the connection.
FairSpec ==
    /\ Spec
    /\ WF_vars(AppStep)
    /\ SF_vars(TcpipStep)
    /\ WF_vars(\E n \in Sizes : PeerAck(n))
-----------------------------------------------------------------------------
(* Properties *)

\* Every variable keeps its type.
TypeOK ==
    /\ tx_head \in Seq(Node) /\ wait_ack_head \in Seq(Node) /\ rx_head \in Seq(Node)
    /\ rx_wait_size \in Nat
    /\ fast_rx_ack \in BOOLEAN
    /\ mailbox \in Seq([id : {"TX", "RX_DONE"}, len : Nat])
    /\ lw \in [at : Jobs, len : Nat]
    /\ {written, acked, accepted, rcv_wnd, arrived, got, lost, tx_size, ack_size, arg}
       \subseteq Nat
    /\ {wait_tx, need_close, new_rx_flag, timer, left} \subseteq BOOLEAN
    /\ pc \in {"idle", "tx", "posting", "waiting", "rx", "reading"}
    /\ inbox \in Seq({"ok", "error", "timeout"})

Numbers(a, b) == [i \in 1 .. b - a |-> a + i]

\* The two send queues hold exactly the bytes that are not acknowledged, in order:
\* those in wait_ack_head were given to tcp_write, those in tx_head were not.  So
\* net_lwip_tcp_sent_cb never meets an acknowledgement no node accounts for.
SendQueuesIntact ==
    LET unacked == acked - IF lw.at = "ack" THEN lw.len ELSE 0 IN
    /\ Flat(wait_ack_head) = Numbers(unacked, written)
    /\ Flat(tx_head) = Numbers(written, accepted)

\* the sum of the lengths of nodes, or of the bytes messages are about
TotalLen(s) == FoldLeft(LAMBDA sum, p : sum + p.len, 0, s)

\* The receive window is conserved: what is missing from it is queued, or on its way
\* back to lwIP, or was dropped.  In fast-ack mode only the segment being handled is.
\* And rx_wait_size, what network_rx without a buffer returns, is what can be read.
WindowConserved ==
    /\ rx_wait_size = Size(rx_head)
    /\ rcv_wnd + (IF lw.at = "seg" THEN lw.len ELSE 0)
               + (IF fast_rx_ack THEN 0 ELSE TotalLen(rx_head) + TotalLen(mailbox) + lost)
        = TCP_WND

\* The user reads past lost bytes only after the ctrl has been marked for closing.
HoleIsReported ==
    got > 0 /\ rx_head # <<>> /\ Head(rx_head).from > got => need_close \/ lw.at = "ERROR"

\* A blocking network_tx returns success only when every byte sent so far was
\* acknowledged, provided that no network_tx returned before its result came: the
\* next one would take that result for its own.
SuccessMeansAcked ==
    [][TxReturn /\ Head(inbox) = "ok" /\ ~left => acked = accepted]_vars

\* The application waits for room in the mailbox, holding the lock the only thread
\* that makes room waits for.
AppPosts ==
    \/ pc = "posting"
    \/ /\ pc = "reading" /\ rx_head # <<>> /\ ~fast_rx_ack
       /\ arg > 0 /\ Head(rx_head).len - Head(rx_head).read_pos <= arg

MailboxDeadlock ==
    /\ Len(mailbox) = TCPIP_MBOX_SIZE
    /\ AppPosts
    /\ \/ lw.at \in {"TX_OK", "RX_NEW", "ERROR"}
       \/ lw.at \in {"tx", "ack", "seg"} /\ ~SocketFree

\* What is queued is handed to lwIP, unless the ctrl must be closed or a full mailbox
\* has stopped both threads, and network_tx returns even when its timer never fires:
\* every wait gets a result.
QueueDrains ==
    /\ tx_head # <<>> ~> tx_head = <<>> \/ need_close \/ MailboxDeadlock
    /\ pc = "waiting" /\ inbox = <<>> ~> pc # "waiting"

\* The send side is a byte channel from network_tx to tcp_write, the receive side
\* one from the peer to network_rx.
TxChannel == INSTANCE ByteChannel
    WITH queue <- Flat(tx_head), put <- accepted, got <- written, broken <- FALSE
RxChannel == INSTANCE ByteChannel
    WITH queue <- Flat(rx_head), put <- arrived, broken <- lost > 0

TxIsChannel == TxChannel!ChSpec
RxIsChannel == RxChannel!ChSpec

-----------------------------------------------------------------------------
(* What the documentation says and the code does not do *)

\* "The functions of the adapter must all be non-blocking": net_lwip_socket_send
\* and net_lwip_socket_receive do not wait for the lwIP thread while it waits for
\* the lock they run under.
AdapterNeverBlocks == ~MailboxDeadlock
=============================================================================
