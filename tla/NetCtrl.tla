------------------------------- MODULE NetCtrl -------------------------------
(***************************************************************************)
(* One network_ctrl_t of luat_network_adapter.c: the blocking API the      *)
(* application's task calls (network_connect, network_listen,              *)
(* network_close, network_tx, network_rx, network_wait_rx,                 *)
(* network_wait_event, network_wait_link_up), and the state machine the    *)
(* lwIP thread runs for each event of the ctrl.                            *)
(*                                                                         *)
(* An operation examines the ctrl, takes NW_LOCK, changes the ctrl, and    *)
(* waits for a result in its task's queue, while a timer may run.  The     *)
(* state machine handles an event under NW_LOCK and posts the result.      *)
(* What is below, the socket table (SocketTable), the bytes (SocketStream) *)
(* and the DNS client, is reduced to what it answers: conn, dns and link.  *)
(* The ctrl has a task, no user_callback and no TLS.                       *)
(***************************************************************************)
EXTENDS Integers, Sequences

Ops == {"none", "wait_link_up", "connect", "listen", "close", "tx", "rx", "wait_rx",
        "wait_event"}

CONSTANTS
    Calls,              \* the functions of the API the application's task calls
    QUEUE_LEN,          \* capacity of the queue of the application's task
    MAX_DNS_IP,         \* addresses a domain name has at most
    MaxSock, MaxConnect,    \* bounds: sockets created, calls of network_connect,
    MaxLink, MaxTx          \* changes of the link and sends of a behaviour

ASSUME CtrlAssumption ==
    /\ Calls \subseteq Ops \ {"none"}
    /\ QUEUE_LEN \in Nat \ {0} /\ MAX_DNS_IP \in Nat \ {0}
    /\ MaxSock \in Nat /\ MaxConnect \in Nat /\ MaxLink \in Nat /\ MaxTx \in Nat

VARIABLES
    state, wait,        \* network_ctrl_t.state and .wait_target_state
    sock, tag,          \* .socket_id >= 0, as a number that is never used twice, and .tag
    need_close, new_rx_flag, auto_mode,
    is_server_mode, by_name,            \* by_name: remote_ip.type is 0xff
    dns_ip_cnt, dns_ip_nums, tx_size, ack_size,
    op, step, timer,    \* the operation of the task
    queue,              \* the task's queue
    conn,               \* the sockets below
    last_sock,          \* the last one created
    unacked,            \* sends not acknowledged on socket tag
    dns,                \* the look-ups in progress, by the attempt they are for
    attempt,            \* number of the last network_connect
    link, flips,        \* the network is ready
    cb,                 \* the event the lwIP thread is delivering
    crossed,            \* history: a call met the answer of an earlier one, as it returned
                        \* before its result came, or changed the socket under an event
    leftover,           \* history: network_listen kept the counts of unanswered sends
    lost                \* history: the look-up of the last attempt was lost

ctrlVars == <<state, wait, sock, tag, need_close, new_rx_flag, auto_mode, is_server_mode,
              by_name, dns_ip_cnt, dns_ip_nums, tx_size, ack_size>>
appVars == <<op, step, timer, queue, crossed>>
netVars == <<conn, last_sock, unacked, dns, attempt, link, flips>>
pastVars == <<leftover, lost>>
vars == <<ctrlVars, appVars, netVars, cb, pastVars>>

States == {"LINK_OFF", "OFF_LINE", "WAIT_DNS", "CONNECTING", "ONLINE", "LISTEN",
           "DISCONNECTING"}
Waits == {"NONE", "LINK", "CONNECT", "TX", "CLOSE", "EVENT"}
ConnStates == {"none", "opening", "binding", "listening", "up", "fin", "failed", "closing",
               "closed"}
SocketEvents == {"CONNECT_OK", "LISTEN", "ERROR", "REMOTE_CLOSE", "CLOSE_OK", "RX_NEW",
                 "TX_OK"}
Events == SocketEvents \union {"none", "DNS_RESULT", "LINK_UP", "LINK_DOWN"}

\* of: the socket or the look-up the event is about; n: the addresses found
NoCb == [ev |-> "none", of |-> 0, n |-> 0]

Init ==
    /\ state = "LINK_OFF" /\ wait = "NONE"
    /\ sock = 0 /\ tag = 0
    /\ need_close = FALSE /\ new_rx_flag = FALSE /\ auto_mode = FALSE
    /\ is_server_mode = FALSE /\ by_name = TRUE
    /\ dns_ip_cnt = 0 /\ dns_ip_nums = 0 /\ tx_size = 0 /\ ack_size = 0
    /\ op = "none" /\ step = "idle" /\ timer = FALSE /\ queue = <<>> /\ crossed = FALSE
    /\ conn = [s \in 1 .. MaxSock |-> "none"]
    /\ last_sock = 0 /\ unacked = 0
    /\ dns = {} /\ attempt = 0
    /\ link \in BOOLEAN /\ flips = 0
    /\ cb = NoCb
    /\ leftover = FALSE /\ lost = FALSE

-----------------------------------------------------------------------------
(* Opening and closing the socket of the ctrl *)

\* network_socket_close or network_socket_force_close of what the ctrl holds: a
\* socket already closing goes on, another one ends without an event
Released == [s \in DOMAIN conn |->
                IF s = sock /\ conn[s] # "closing" THEN "closed" ELSE conn[s]]

\* mutant: the socket the ctrl holds is forgotten
BaseConnectForgets(server, ok) ==
    /\ last_sock < MaxSock
    /\ last_sock' = last_sock + 1 /\ tag' = last_sock'
    /\ unacked' = 0 /\ is_server_mode' = server
    /\ sock' = IF ok THEN last_sock' ELSE 0
    /\ conn' = [conn EXCEPT ![last_sock'] = IF ~ok THEN "closed"
                                            ELSE IF server THEN "binding" ELSE "opening"]

\* network_base_connect, and for a client the network_socket_force_close its
\* callers add when it fails.  It fails without a free slot, or when the new
\* socket is not accepted; a server keeps that one.  network_socket_connect and
\* network_socket_listen set the mode, when there is a socket
BaseConnect(server, ok) ==
    /\ unacked' = 0
    /\ \/ /\ last_sock < MaxSock
          /\ last_sock' = last_sock + 1
          /\ tag' = last_sock'
          /\ is_server_mode' = server
          /\ \/ /\ ok
                /\ sock' = last_sock'
                /\ conn' = [Released EXCEPT ![sock'] = IF server THEN "binding" ELSE "opening"]
             \/ /\ ~ok
                /\ sock' = IF server THEN last_sock' ELSE 0
                /\ conn' = [Released EXCEPT
                              ![last_sock'] = IF server THEN "failed" ELSE "closed"]
       \/ /\ ~ok
          /\ tag' = 0 /\ sock' = 0
          /\ conn' = Released
          /\ UNCHANGED last_sock

\* network_prepare_connect: a look-up, or the connection at once
PrepareConnect(name, ok) ==
    \/ /\ name /\ ok
       /\ dns' = dns \union {attempt'}
       /\ state' = "WAIT_DNS"
       /\ UNCHANGED <<sock, tag, conn, last_sock, unacked>>
    \/ /\ ~name
       /\ BaseConnect(FALSE, ok)
       /\ ok => state' = "CONNECTING"
       /\ UNCHANGED dns

\* network_force_close_socket; it resets wait_target_state
ForceCloseSocket ==
    /\ conn' = Released
    /\ sock' = 0
    /\ need_close' = FALSE /\ new_rx_flag' = FALSE
    /\ dns_ip_cnt' = 0 /\ dns_ip_nums' = 0

-----------------------------------------------------------------------------
(* The API *)

\* What an operation examines before it takes NW_LOCK.  network_connect is for a
\* closed ctrl, as its documentation asks, network_wait_link_up for one that has no
\* socket yet
MayBegin(o) ==
    CASE o = "connect" -> sock = 0 /\ state \in {"LINK_OFF", "OFF_LINE"} /\ wait # "CONNECT"
      [] o \in {"listen", "wait_link_up"} -> sock = 0
      [] o = "close" -> TRUE
      [] o = "rx" -> (need_close => new_rx_flag) /\ sock # 0 /\ state = "ONLINE"
      [] OTHER -> ~need_close /\ sock # 0 /\ state = "ONLINE"

BeginOp(o) ==
    /\ step = "idle"
    /\ o \in Calls /\ MayBegin(o)
    /\ o \in {"wait_rx", "wait_event"} => ~new_rx_flag
    /\ o = "tx" => tx_size < MaxTx
    /\ o = "connect" => attempt < MaxConnect
    /\ o = "listen" => last_sock < MaxSock
    /\ op' = o
    /\ step' = "lock"
    /\ UNCHANGED <<ctrlVars, netVars, pastVars, timer, queue, crossed, cb>>

\* network_wait_rx and network_wait_event with new data return at once, having
\* changed wait_target_state without NW_LOCK
DataIsThere ==
    /\ step = "idle"
    /\ Calls \cap {"wait_rx", "wait_event"} # {}
    /\ new_rx_flag
    /\ wait' = "EVENT"
    /\ UNCHANGED <<state, sock, tag, need_close, new_rx_flag, auto_mode, is_server_mode,
                   by_name, dns_ip_cnt, dns_ip_nums, tx_size, ack_size, appVars, netVars, cb,
                   pastVars>>

\* the operation returns at once ...
Return ==
    /\ step' = "idle" /\ op' = "none"
    /\ UNCHANGED <<timer, crossed>>

\* ... or waits; with a timeout of 0 it returns and the result comes later
\* (network_wait_rx then waits for ever), and network_listen may wait for ever
Wait ==
    \/ step' = "wait" /\ timer' = TRUE /\ UNCHANGED <<op, crossed>>
    \/ /\ op \in {"listen", "wait_rx"}
       /\ step' = "wait" /\ UNCHANGED <<op, timer, crossed>>
    \/ /\ op # "wait_rx"
       /\ step' = "idle" /\ op' = "none" /\ crossed' = TRUE /\ UNCHANGED timer

DoWaitLinkUp ==
    /\ op = "wait_link_up"
    /\ \/ link /\ state' = "OFF_LINE" /\ wait' = "NONE" /\ Return
       \/ ~link /\ state' = "LINK_OFF" /\ wait' = "LINK" /\ Wait
    /\ UNCHANGED <<sock, tag, need_close, new_rx_flag, is_server_mode, by_name, dns_ip_cnt,
                   dns_ip_nums, tx_size, ack_size, netVars>>

DoConnect ==
    /\ op = "connect"
    /\ attempt' = attempt + 1
    /\ tx_size' = 0 /\ ack_size' = 0
    /\ need_close' = FALSE /\ is_server_mode' = FALSE
    /\ by_name' \in BOOLEAN
    /\ \/ /\ ~link
          /\ state' = "LINK_OFF" /\ wait' = "CONNECT"
          /\ Wait
          /\ UNCHANGED <<sock, tag, conn, last_sock, unacked, dns>>
       \/ /\ link
          /\ PrepareConnect(by_name', TRUE)
          /\ wait' = "CONNECT"
          /\ Wait
       \/ /\ link
          /\ PrepareConnect(by_name', FALSE)
          /\ state' = "OFF_LINE" /\ wait' = "NONE"
          /\ Return
    /\ UNCHANGED <<new_rx_flag, dns_ip_cnt, dns_ip_nums, link, flips>>

DoListen ==
    /\ op = "listen"
    /\ need_close' = FALSE /\ is_server_mode' = TRUE
    /\ \/ /\ ~link
          /\ state' = "LINK_OFF" /\ wait' = "CONNECT"
          /\ Wait
          /\ UNCHANGED <<sock, tag, conn, last_sock, unacked>>
       \/ /\ link
          /\ BaseConnect(TRUE, TRUE)
          /\ state' = "CONNECTING" /\ wait' = "CONNECT"
          /\ Wait
       \/ /\ link
          /\ BaseConnect(TRUE, FALSE)
          /\ state' = "OFF_LINE" /\ wait' = "NONE"
          /\ Return
    /\ UNCHANGED <<new_rx_flag, by_name, dns_ip_cnt, dns_ip_nums, tx_size, ack_size, dns,
                   attempt, link, flips>>

\* an established connection is disconnected and CLOSE_OK awaited, unless the
\* socket is not accepted; everything else is closed at once
DoClose ==
    /\ op = "close"
    /\ \/ /\ sock # 0 /\ state = "ONLINE"
          /\ conn' = [conn EXCEPT ![sock] = "closing"]
          /\ state' = "DISCONNECTING" /\ wait' = "CLOSE"
          /\ need_close' = FALSE /\ new_rx_flag' = FALSE
          /\ Wait
          /\ UNCHANGED <<sock, dns_ip_cnt, dns_ip_nums>>
       \/ /\ sock # 0
          /\ ForceCloseSocket
          /\ state' = "OFF_LINE" /\ wait' = "NONE"
          /\ Return
       \/ /\ sock = 0
          /\ state' = "OFF_LINE" /\ wait' = "NONE"
          /\ need_close' = FALSE /\ new_rx_flag' = FALSE
          /\ Return
          /\ UNCHANGED <<sock, conn, dns_ip_cnt, dns_ip_nums>>
    /\ UNCHANGED <<tag, is_server_mode, by_name, tx_size, ack_size, last_sock, unacked, dns,
                   attempt, link, flips>>

\* network_base_tx fails when the socket is not accepted, or without memory
DoTx ==
    /\ op = "tx"
    /\ \/ /\ sock # 0
          /\ tx_size' = tx_size + 1 /\ unacked' = unacked + 1
          /\ wait' = "TX"
          /\ Wait
          /\ UNCHANGED need_close
       \/ need_close' = TRUE /\ Return /\ UNCHANGED <<tx_size, unacked, wait>>
    /\ UNCHANGED <<state, sock, tag, new_rx_flag, is_server_mode, by_name, dns_ip_cnt,
                   dns_ip_nums, ack_size, conn, last_sock, dns, attempt, link, flips>>

DoRx ==
    /\ op = "rx"
    /\ new_rx_flag' = FALSE
    /\ Return
    /\ UNCHANGED <<state, wait, sock, tag, need_close, is_server_mode, by_name, dns_ip_cnt,
                   dns_ip_nums, tx_size, ack_size, netVars>>

DoWait ==
    /\ op \in {"wait_rx", "wait_event"}
    /\ wait' = "EVENT"
    /\ Wait
    /\ UNCHANGED <<state, sock, tag, need_close, new_rx_flag, is_server_mode, by_name,
                   dns_ip_cnt, dns_ip_nums, tx_size, ack_size, netVars>>

\* the part of an operation under NW_LOCK; network_connect forgets the sends of an
\* earlier connection, network_listen does not
LockedPart ==
    /\ step = "lock"
    /\ auto_mode' = TRUE
    /\ leftover' = IF op = "listen" THEN tx_size # ack_size ELSE leftover /\ op # "connect"
    /\ lost' = (lost /\ op # "connect")
    /\ DoWaitLinkUp \/ DoConnect \/ DoListen \/ DoClose \/ DoTx \/ DoRx \/ DoWait
    /\ UNCHANGED <<queue, cb>>

\* network_default_timer_callback, and the user's EV_NW_BREAK_WAIT
TimerFires ==
    /\ timer
    /\ Len(queue) < QUEUE_LEN
    /\ timer' = FALSE
    /\ queue' = Append(queue, [id |-> "TIMEOUT", ok |-> FALSE])
    /\ UNCHANGED <<ctrlVars, netVars, pastVars, op, step, crossed, cb>>

BreakWait ==
    /\ step = "wait" /\ op \in {"wait_rx", "wait_event"}
    /\ queue = <<>>
    /\ queue' = <<[id |-> "BREAK", ok |-> TRUE]>>
    /\ UNCHANGED <<ctrlVars, netVars, pastVars, op, step, timer, crossed, cb>>

\* mutant: any result is the operation's own
WantedAny(o, id) == id \in Waits

\* the result an operation waits for
Wanted(o, id) ==
    CASE o = "wait_link_up" -> id = "LINK"
      [] o \in {"connect", "listen"} -> id = "CONNECT"
      [] o = "close" -> id = "CLOSE"
      [] o = "tx" -> id = "TX"
      [] OTHER -> id = "EVENT"

\* the event e ends the wait.  network_wait_rx ignores a success without data, and
\* network_wait_event returns other events to a caller that gave an out_event
Ends(e) ==
    \/ Wanted(op, e.id) /\ (op = "wait_rx" /\ e.ok => new_rx_flag)
    \/ e.id = "TIMEOUT"
    \/ e.id = "BREAK" /\ op \in {"wait_rx", "wait_event"}

\* one turn of the loop over the task's queue; network_close ends with
\* network_socket_force_close, and network_wait_rx writes wait_target_state in every
\* turn, without NW_LOCK
TakeEvent ==
    /\ step = "wait" /\ queue # <<>>
    /\ LET e == Head(queue) IN
       /\ queue' = Tail(queue)
       /\ \/ /\ Ends(e) \/ op = "wait_event"
             /\ step' = "idle" /\ op' = "none" /\ timer' = FALSE
             /\ crossed' = (crossed \/ (e.id = "TIMEOUT" /\ op \notin {"wait_rx", "wait_event"}))
             /\ IF op = "close" THEN sock' = 0 /\ conn' = Released ELSE UNCHANGED <<sock, conn>>
          \/ /\ ~Ends(e)
             /\ UNCHANGED <<step, op, timer, crossed, sock, conn>>
    /\ wait' = IF op = "wait_rx" THEN "EVENT" ELSE wait
    /\ UNCHANGED <<state, tag, need_close, new_rx_flag, auto_mode, is_server_mode, by_name,
                   dns_ip_cnt, dns_ip_nums, tx_size, ack_size, last_sock, unacked, dns,
                   attempt, link, flips, cb, pastVars>>

\* a task that waits for nothing drops what its queue holds
DropEvent ==
    /\ step = "idle" /\ queue # <<>>
    /\ queue' = Tail(queue)
    /\ UNCHANGED <<ctrlVars, netVars, pastVars, op, step, timer, crossed, cb>>

-----------------------------------------------------------------------------
(* What the sockets, the DNS client and the link report.  A socket's event is *)
(* dropped when the ctrl has another tag, a DNS result when it waits for      *)
(* something else (network_default_socket_callback)                           *)

DeliverSocket(ev, s) ==
    cb' = IF s = tag THEN [ev |-> ev, of |-> s, n |-> 0] ELSE NoCb

\* the socket goes from one state to another and reports it
Report(s, from, to, ev) ==
    /\ conn[s] \in from
    /\ conn' = [conn EXCEPT ![s] = to]
    /\ DeliverSocket(ev, s)
    /\ UNCHANGED <<last_sock, unacked, dns, attempt, link, flips>>

\* what a peer, or lwIP when it gives up, answers to an opening or a disconnecting
Answer(s) ==
    \/ Report(s, {"opening"}, "up", "CONNECT_OK")
    \/ Report(s, {"binding"}, "listening", "LISTEN")
    \/ Report(s, {"closing"}, "closed", "CLOSE_OK")

\* what it does unasked
Unasked(s) ==
    \/ Report(s, {"listening"}, "up", "CONNECT_OK")
    \/ Report(s, {"up"}, "fin", "REMOTE_CLOSE")
    \/ Report(s, {"up"}, "up", "RX_NEW")

\* it fails; after the end of the peer's bytes it does so without a word
Fails(s) ==
    /\ conn[s] \in {"opening", "binding", "listening", "up", "fin"}
    /\ conn' = [conn EXCEPT ![s] = "failed"]
    /\ IF conn[s] = "fin" THEN cb' = NoCb ELSE DeliverSocket("ERROR", s)
    /\ unacked' \in 0 .. unacked
    /\ UNCHANGED <<last_sock, dns, attempt, link, flips>>

\* bytes are acknowledged, or were sent after the failure
Acknowledged(s) ==
    /\ conn[s] \in {"up", "fin", "failed"} /\ s = tag
    /\ unacked > 0
    /\ unacked' = unacked - 1
    /\ DeliverSocket(IF conn[s] = "failed" THEN "ERROR" ELSE "TX_OK", s)
    /\ UNCHANGED <<conn, last_sock, dns, attempt, link, flips>>

DnsAnswer(q) ==
    /\ dns' = dns \ {q}
    /\ \E n \in 0 .. MAX_DNS_IP :
          cb' = IF wait = "CONNECT" THEN [ev |-> "DNS_RESULT", of |-> q, n |-> n] ELSE NoCb
    /\ UNCHANGED <<conn, last_sock, unacked, attempt, link, flips>>

\* the DNS client loses a look-up: without memory for its result, or for the next server
DnsLost(q) ==
    /\ dns' = dns \ {q}
    /\ lost' = (lost \/ q = attempt)
    /\ UNCHANGED <<conn, last_sock, unacked, attempt, link, flips, cb>>

\* net_lwip_check_network_ready: without the link the look-ups are dropped unanswered
LinkChange ==
    /\ flips < MaxLink
    /\ flips' = flips + 1
    /\ link' = ~link
    /\ dns' = IF link' THEN dns ELSE {}
    /\ cb' = [ev |-> IF link' THEN "LINK_UP" ELSE "LINK_DOWN", of |-> 0, n |-> 0]
    /\ UNCHANGED <<conn, last_sock, unacked, attempt>>

\* the answers that come sooner or later
NetAnswers ==
    /\ cb = NoCb
    /\ \/ \E s \in DOMAIN conn : Answer(s) \/ Acknowledged(s)
       \/ \E q \in dns : DnsAnswer(q)
    /\ UNCHANGED <<ctrlVars, appVars, pastVars>>

NetHappens ==
    /\ cb = NoCb
    /\ \/ LinkChange /\ UNCHANGED lost
       \/ \E s \in DOMAIN conn : (Unasked(s) \/ Fails(s)) /\ UNCHANGED lost
       \/ \E q \in dns : DnsLost(q)
    /\ UNCHANGED <<ctrlVars, appVars, leftover>>

-----------------------------------------------------------------------------
(* network_default_statemachine *)

Failures == {"ERROR", "REMOTE_CLOSE", "CLOSE_OK"}

\* mutant: the wait goes on after its result
ResultKeepsWait(r, w) ==
    \/ r = 1 /\ wait' = w /\ UNCHANGED queue
    \/ /\ r # 1
       /\ Len(queue) < QUEUE_LEN
       /\ wait' = w
       /\ queue' = Append(queue, [id |-> IF w = "NONE" THEN "EVENT" ELSE w, ok |-> r = 0])

\* mutant: failures are not posted
ResultOnlySuccess(r, w) ==
    \/ r # 0 /\ wait' = w /\ UNCHANGED queue
    \/ /\ r = 0
       /\ Len(queue) < QUEUE_LEN
       /\ wait' = "NONE"
       /\ queue' = Append(queue, [id |-> IF w = "NONE" THEN "EVENT" ELSE w, ok |-> TRUE])

\* a result r of a state function with wait_target_state w: 1 means go on waiting,
\* 0 and -1 end the wait and are posted
Result(r, w) ==
    \/ r = 1 /\ wait' = w /\ UNCHANGED queue
    \/ /\ r # 1
       /\ Len(queue) < QUEUE_LEN
       /\ wait' = IF state' # "LISTEN" \/ r < 0 THEN "NONE" ELSE w
       /\ queue' = Append(queue, [id |-> IF w = "NONE" THEN "EVENT" ELSE w, ok |-> r = 0])

SameSocket == UNCHANGED <<sock, tag, conn, last_sock, unacked, is_server_mode>>
SameDns == UNCHANGED <<dns_ip_cnt, dns_ip_nums, dns, attempt>>
SameFlags == UNCHANGED <<need_close, new_rx_flag, ack_size>>

\* the event changes nothing but the wait
Just(r) == UNCHANGED state /\ Result(r, wait) /\ SameSocket /\ SameDns /\ SameFlags

LinkOff ==
    /\ state = "LINK_OFF"
    /\ \/ cb.ev # "LINK_UP" /\ Just(1)
       \/ /\ cb.ev = "LINK_UP" /\ wait # "CONNECT"
          /\ state' = "OFF_LINE"
          /\ Result(IF wait = "LINK" THEN 0 ELSE 1, wait)
          /\ SameSocket /\ SameDns /\ SameFlags
       \/ /\ cb.ev = "LINK_UP" /\ wait = "CONNECT"
          /\ UNCHANGED <<new_rx_flag, ack_size, dns_ip_cnt, dns_ip_nums, attempt,
                         is_server_mode>>
          /\ \E ok \in BOOLEAN :
                /\ \/ /\ is_server_mode
                      /\ BaseConnect(TRUE, ok)
                      /\ ok => state' = "CONNECTING"
                      /\ UNCHANGED dns
                   \/ ~is_server_mode /\ PrepareConnect(by_name, ok)
                /\ ok \/ state' = "OFF_LINE"
                /\ Result(IF ok THEN 1 ELSE -1, wait)
          /\ need_close' = (need_close /\ (sock = 0 \/ conn' = conn))

OffLine == state = "OFF_LINE" /\ Just(1)

\* connect to one of the addresses of the name; a listener becomes a client
TryAddress ==
    \E ok \in BOOLEAN :
        /\ BaseConnect(FALSE, ok)
        /\ tag' = 0 => UNCHANGED is_server_mode
        /\ UNCHANGED need_close
        /\ state' = IF ok THEN "CONNECTING" ELSE state
        /\ Result(IF ok THEN 1 ELSE -1, wait)

\* the arrival of the link fails the connection, too
WaitDns ==
    /\ state = "WAIT_DNS"
    /\ \/ (need_close \/ wait # "CONNECT") /\ Just(-1)
       \/ /\ ~need_close /\ wait = "CONNECT"
          /\ \/ cb.ev \in {"ERROR", "LINK_UP", "LINK_DOWN"} /\ Just(-1)
             \/ cb.ev \in SocketEvents \ {"ERROR"} /\ Just(1)
             \/ /\ cb.ev = "DNS_RESULT" /\ cb.n = 0
                /\ dns_ip_nums' = 0
                /\ UNCHANGED <<state, dns_ip_cnt, dns, attempt>> /\ SameSocket /\ SameFlags
                /\ Result(-1, wait)
             \/ /\ cb.ev = "DNS_RESULT" /\ cb.n > 0
                /\ dns_ip_nums' = cb.n /\ dns_ip_cnt' = 0
                /\ TryAddress
                /\ UNCHANGED <<new_rx_flag, ack_size, dns, attempt>>

\* mutant: one address too many
NextAddressLate == dns_ip_cnt' <= dns_ip_nums

\* there is another address to try
NextAddress == dns_ip_cnt' < dns_ip_nums

Connecting ==
    /\ state = "CONNECTING"
    /\ \/ (need_close \/ wait # "CONNECT") /\ Just(-1)
       \/ /\ ~need_close /\ wait = "CONNECT"
          /\ \/ cb.ev \in {"LINK_UP", "LINK_DOWN"} /\ Just(-1)
             \/ cb.ev \in {"DNS_RESULT", "RX_NEW", "TX_OK"} /\ Just(1)
             \/ cb.ev = "LISTEN" /\ ~is_server_mode /\ Just(-1)
             \/ /\ cb.ev = "LISTEN" /\ is_server_mode
                /\ state' = "LISTEN"
                /\ Result(1, wait)
                /\ SameSocket /\ SameDns /\ SameFlags
             \/ /\ cb.ev = "CONNECT_OK"
                /\ state' = "ONLINE"
                /\ Result(0, wait)
                /\ SameSocket /\ SameDns /\ SameFlags
             \/ cb.ev \in Failures /\ ~by_name /\ Just(-1)
             \/ /\ cb.ev \in Failures /\ by_name
                /\ dns_ip_cnt' = dns_ip_cnt + 1
                /\ \/ /\ ~NextAddress
                      /\ UNCHANGED state /\ SameSocket /\ SameFlags
                      /\ Result(-1, wait)
                   \/ /\ NextAddress
                      /\ TryAddress
                      /\ UNCHANGED <<new_rx_flag, ack_size>>
                /\ UNCHANGED <<dns_ip_nums, dns, attempt>>

\* the connection is lost: the ctrl must be closed
MustClose ==
    /\ need_close' = TRUE
    /\ UNCHANGED <<state, new_rx_flag, ack_size>> /\ SameSocket /\ SameDns
    /\ Result(-1, wait)

OnLine ==
    /\ state = "ONLINE"
    /\ \/ (need_close \/ wait = "CLOSE") /\ Just(-1)
       \/ /\ ~need_close /\ wait # "CLOSE"
          /\ \/ cb.ev \in Failures \union {"LINK_DOWN"} /\ MustClose
             \/ cb.ev \in {"LINK_UP", "DNS_RESULT", "CONNECT_OK", "LISTEN"} /\ Just(1)
             \/ /\ cb.ev = "TX_OK"
                /\ ack_size' = ack_size + 1
                /\ UNCHANGED <<state, need_close, new_rx_flag>> /\ SameSocket /\ SameDns
                /\ Result(IF wait = "TX" /\ ack_size' = tx_size THEN 0 ELSE 1, wait)
             \/ /\ cb.ev = "RX_NEW"
                /\ new_rx_flag' = TRUE
                /\ UNCHANGED <<state, need_close, ack_size>> /\ SameSocket /\ SameDns
                /\ Result(IF wait = "TX" THEN 1 ELSE 0, wait)

Listening ==
    /\ state = "LISTEN"
    /\ \/ (need_close \/ wait = "CLOSE") /\ Just(-1)
       \/ /\ ~need_close /\ wait # "CLOSE"
          /\ \/ cb.ev \in Failures \union {"LINK_DOWN"} /\ MustClose
             \/ /\ cb.ev = "CONNECT_OK"
                /\ state' = "ONLINE"
                /\ Result(0, wait)
                /\ SameSocket /\ SameDns /\ SameFlags
             \/ cb.ev \in {"LINK_UP", "DNS_RESULT", "LISTEN", "RX_NEW", "TX_OK"} /\ Just(1)

\* network_force_close_socket has reset the wait before the result is named
Disconnecting ==
    /\ state = "DISCONNECTING"
    /\ \/ wait # "CLOSE" /\ Just(-1)
       \/ /\ wait = "CLOSE"
          /\ \/ cb.ev = "LINK_DOWN" /\ Just(-1)
             \/ /\ cb.ev \in Failures \union {"LINK_UP"}
                /\ ForceCloseSocket
                /\ state' = "OFF_LINE"
                /\ Result(IF cb.ev = "LINK_UP" THEN -1 ELSE 0, "NONE")
                /\ UNCHANGED <<tag, last_sock, unacked, is_server_mode, ack_size, dns, attempt>>
             \/ cb.ev \in {"DNS_RESULT", "CONNECT_OK", "LISTEN", "RX_NEW", "TX_OK"} /\ Just(1)

\* The event was matched with the tag before NW_LOCK: the ctrl may have another
\* socket by now.  Before its first operation a ctrl passes the event on as it is.
StateMachine ==
    /\ cb # NoCb
    /\ cb' = NoCb
    /\ \/ ~auto_mode /\ UNCHANGED <<wait, queue, state, need_close, new_rx_flag, ack_size>>
          /\ SameSocket /\ SameDns
       \/ /\ auto_mode
          /\ \/ LinkOff \/ OffLine \/ WaitDns \/ Connecting \/ OnLine \/ Listening
             \/ Disconnecting
    /\ crossed' = (crossed \/ (cb.ev \in SocketEvents /\ cb.of # tag))
    /\ UNCHANGED <<auto_mode, by_name, tx_size, op, step, timer, link, flips, pastVars>>

-----------------------------------------------------------------------------
Next ==
    \/ \E o \in Ops \ {"none"} : BeginOp(o)
    \/ DataIsThere \/ LockedPart \/ TakeEvent \/ DropEvent
    \/ TimerFires \/ BreakWait
    \/ NetAnswers \/ NetHappens
    \/ StateMachine

Spec == Init /\ [][Next]_vars

\* The two threads go on, and what was asked of the network is answered, by lwIP's
\* own timers if nobody else; a look-up may be lost instead.  No timer of the ctrl has
\* to fire.
FairSpec ==
    /\ Spec
    /\ WF_vars(LockedPart) /\ WF_vars(TakeEvent) /\ WF_vars(StateMachine)
    /\ SF_vars(NetAnswers)
-----------------------------------------------------------------------------
(* Properties *)

\* Every variable keeps its type, the task's queue its length, and while the addresses
\* of a name are tried, the current one exists.
TypeOK ==
    /\ state \in States /\ wait \in Waits
    /\ {sock, tag, last_sock} \subseteq 0 .. MaxSock
    /\ {need_close, new_rx_flag, auto_mode, is_server_mode, by_name, timer, link} \union
       {crossed, leftover, lost} \subseteq BOOLEAN
    /\ dns_ip_cnt \in Nat /\ dns_ip_nums \in 0 .. MAX_DNS_IP
    /\ state = "CONNECTING" /\ wait = "CONNECT" /\ by_name /\ ~is_server_mode
            => dns_ip_cnt < dns_ip_nums
    /\ {tx_size, ack_size, unacked} \subseteq 0 .. MaxTx
    /\ op \in Ops /\ step \in {"idle", "lock", "wait"}
    /\ queue \in Seq([id : Waits \union {"TIMEOUT", "BREAK"}, ok : BOOLEAN])
    /\ Len(queue) <= QUEUE_LEN
    /\ conn \in [1 .. MaxSock -> ConnStates]
    /\ dns \subseteq 1 .. attempt /\ attempt \in 0 .. MaxConnect
    /\ flips \in 0 .. MaxLink
    /\ cb \in [ev : Events, of : Nat, n : 0 .. MAX_DNS_IP]

\* The only socket that is open is the one the ctrl holds: whatever order calls,
\* retries and late events come in, no socket is left without an owner.
NoSocketLeak ==
    \A s \in DOMAIN conn : conn[s] \notin {"none", "closing", "closed"} => s = sock

\* network_connect and network_listen succeed only with a connection: the ctrl is on
\* line and holds a socket that was connected, if no call returned before its result
\* came.
ConnectMeansOnline ==
    [][/\ TakeEvent /\ op \in {"connect", "listen"} /\ step' = "idle"
       /\ Head(queue).ok /\ ~crossed
       => state = "ONLINE" /\ sock # 0 /\ conn[sock] \in {"up", "fin", "failed"}]_vars

\* A wait gets one result: none is in the queue before the wait, after it, or twice,
\* so none is taken for that of a later call.
OneResultPerWait ==
    ~crossed => \A i \in 1 .. Len(queue) :
        queue[i].id \in {"LINK", "CONNECT", "TX"} =>
            /\ step = "wait" /\ Wanted(op, queue[i].id)
            /\ wait # queue[i].id \/ state = "LISTEN"
            /\ \A j \in i + 1 .. Len(queue) : queue[j].id # queue[i].id

\* A blocking network_connect or network_listen returns without its timer, unless
\* the link never comes, nobody connects to the listener, or the DNS client loses the
\* look-up.
ConnectEnds ==
    op \in {"connect", "listen"} /\ step = "wait" /\ ~crossed
        ~> step # "wait" \/ state \in {"LINK_OFF", "LISTEN"} \/ lost

\* A blocking network_tx of a client or a server returns without its timer, if
\* network_listen did not keep the counts of sends that were never answered, and the
\* connection was not lost between network_tx's look at need_close and its NW_LOCK.
TxEnds ==
    op = "tx" /\ step = "wait" /\ ~crossed /\ ~leftover /\ ~need_close
        ~> step # "wait"

-----------------------------------------------------------------------------
(* What the documentation says and the code does not do *)

\* "Without a remote_ip the name is resolved, and then all its addresses are tried"
\* (network_connect): the answer the ctrl acts on is that for its own name.
AnswerIsForThisName ==
    cb.ev = "DNS_RESULT" /\ state = "WAIT_DNS" => cb.of = attempt
=============================================================================
