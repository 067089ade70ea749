----------------------------- MODULE MqttClient -----------------------------
(***************************************************************************)
(* The MQTT client (luat_mqtt_client.c) on top of a ctrl with a            *)
(* user_callback (luat_network_adapter.c).  Three threads run it, and      *)
(* nothing in it is locked: the lwIP thread with the events of the socket, *)
(* the timer task with the two timers, and the application.  Each thread   *)
(* has a stack of steps that are still to be done: a step ends where       *)
(* another thread can see what it has done and not yet what follows.       *)
(* The scheduler preempts: a thread runs when none of a higher priority    *)
(* has anything to do.                                                     *)
(*                                                                         *)
(* What the broker sends is cut in pieces, and the first piece of a packet *)
(* holds its fixed header; the buffer and buffer_offset count pieces.  The *)
(* host is given as an address: names are looked up in NetCtrl and         *)
(* DnsClient.                                                              *)
(***************************************************************************)
EXTENDS Integers, Sequences

CONSTANTS
    MQTT_RECV_BUF_LEN_MAX, MAX_READ,    \* in pieces; buffer_offset, a uint16_t, can count
                                        \* the bytes of a full buffer
    REM_LEN,            \* how many pieces a remaining length, a uint16_t, can count, and 0
    Streams,            \* what a broker may send on a connection: sequences of pieces
    Priority            \* of the threads

Threads == {"timer", "lwip", "app"}

\* PUBLISH stands for the packets the client answers, other for those it does not
Kinds == {"CONNACK", "refusal", "PUBLISH", "other"}

\* the at-th piece of a packet of the kind, which has size pieces
Pieces == [kind : Kinds, at : Nat \ {0}, size : Nat \ {0}]

\* after i pieces of the stream s a packet begins
Boundary(s, i) == i = 0 \/ s[i].at = s[i].size

\* the stream consists of packets, one after the other; it may end inside of one
InPackets(s) ==
    \A i \in DOMAIN s :
        \/ Boundary(s, i - 1) /\ s[i].at = 1
        \/ ~Boundary(s, i - 1) /\ s[i] = [s[i - 1] EXCEPT !.at = @ + 1]

ASSUME MqttAssumption ==
    /\ MQTT_RECV_BUF_LEN_MAX \in Nat \ {0} /\ MAX_READ \in Nat \ {0} /\ REM_LEN \in Nat \ {0}
    /\ Streams \subseteq Seq(Pieces)
    /\ Priority \in [Threads -> Nat] /\ Priority["timer"] > Priority["lwip"]

\* a broker sends packets, and answers CONNECT first
ASSUME BrokerAssumption ==
    \A s \in Streams : InPackets(s) /\ (s # <<>> => s[1].kind \in {"CONNACK", "refusal"})

VARIABLES
    mqtt_state,
    packet,             \* mqtt_packet_buffer up to buffer_offset
    hand,               \* what the lwIP thread has in hand: pieces that are read and not
                        \* yet counted in buffer_offset, or the packet it handles
    overrun,            \* buffer_offset has wrapped
    reconnect_timer, ping_timer,            \* whether they run
    reconnect,                              \* the option, with a reconnect_time above 0
    state, wait, need_close, new_rx_flag,   \* of netc; wait: wait_target_state
    conn,               \* the socket of netc: none (socket_id is -1), opening, up or dead
    stream,             \* what the broker sends on it, <<>> until it begins
    arrived, taken,     \* how far stream has arrived, and has been read
    greeted,            \* the broker has CONNECT
    link,
    stack,              \* what each thread has still to do, the next step first
    told,               \* connecting is up to the application
    astray,             \* history: luat_mqtt_connect set SCONNECT without an attempt of its own
    cut,                \* history: a thread emptied the buffer while another was using it, or
                        \* emptied it in a close that left the connection to another one
    misread             \* history: a packet was taken for a shorter one

clientVars == <<mqtt_state, packet, hand, overrun, reconnect_timer, ping_timer>>
netcVars == <<state, wait, need_close, new_rx_flag>>
connVars == <<conn, stream, arrived, taken, greeted>>
otherVars == <<reconnect, told, astray, link>>
bufferVars == <<cut, misread>>
vars == <<clientVars, netcVars, connVars, otherVars, bufferVars, stack>>

Init ==
    /\ mqtt_state = "DISCONNECT"
    /\ packet = <<>> /\ hand = <<>> /\ overrun = FALSE
    /\ reconnect_timer = FALSE /\ ping_timer = FALSE
    /\ reconnect \in BOOLEAN
    /\ state = "OFF_LINE" /\ wait = "NONE" /\ need_close = FALSE /\ new_rx_flag = FALSE
    /\ conn = "none" /\ stream = <<>> /\ arrived = 0 /\ taken = 0 /\ greeted = FALSE
    /\ link \in BOOLEAN
    /\ stack = [t \in Threads |-> <<>>]
    /\ told = TRUE
    /\ astray = FALSE /\ cut = FALSE /\ misread = FALSE

-----------------------------------------------------------------------------
(* Threads, the buffer and the socket *)

Idle(t) == stack[t] = <<>>
At(t, step) == ~Idle(t) /\ Head(stack[t]) = step
Runs(t) == \A u \in Threads : Priority[u] > Priority[t] => Idle(u)

\* thread t has done its step and goes on with steps, then with what it was to do before
Then(t, steps) == stack' = [stack EXCEPT ![t] = steps \o Tail(@)]

\* thread t, which had nothing to do, begins with step
Begin(t, step) == Idle(t) /\ Runs(t) /\ stack' = [stack EXCEPT ![t] = <<step>>]

\* buffer_offset = 0.  The lwIP thread may just have read behind what the buffer held:
\* as many pieces are then counted from its front
ResetBuffer(t) ==
    /\ packet' = <<>>
    /\ hand' = IF At("lwip", "fetched") THEN SubSeq(packet \o hand, 1, Len(hand)) ELSE hand
    /\ cut' = (cut \/ (t # "lwip" /\ ~Idle("lwip")) \/ (packet # <<>> /\ ~At("lwip", "drop")))
    /\ UNCHANGED misread

\* the ctrl gets a socket of which nothing is known, or loses the one it has
\* (network_socket_force_close)
SetSocket(c) ==
    /\ conn' = c
    /\ stream' = <<>> /\ arrived' = 0 /\ taken' = 0 /\ greeted' = FALSE

\* network_prepare_connect
PrepareConnect(ok) ==
    \/ ok /\ SetSocket("opening") /\ state' = "CONNECTING"
    \/ ~ok /\ SetSocket("none") /\ state' = "OFF_LINE"

-----------------------------------------------------------------------------
(* luat_mqtt_close_socket *)

\* the test of mqtt_state
CloseTest(t) ==
    /\ At(t, "close")
    /\ Then(t, IF mqtt_state = "DISCONNECT" THEN <<"leave">> ELSE <<"drop">>)
    /\ UNCHANGED <<clientVars, netcVars, connVars, otherVars, bufferVars>>

\* and what follows it, whatever another thread has set since
CloseSet(t) ==
    /\ At(t, "drop")
    /\ mqtt_state' = "DISCONNECT"
    /\ ResetBuffer(t)
    /\ Then(t, <<"shut">>)
    /\ UNCHANGED <<overrun, reconnect_timer, ping_timer, netcVars, connVars, otherVars>>

\* network_force_close_socket, which leaves the state of the ctrl as it is
CloseShut(t) ==
    /\ At(t, "shut")
    /\ SetSocket("none")
    /\ need_close' = FALSE /\ new_rx_flag' = FALSE /\ wait' = "NONE"
    /\ Then(t, <<"retry">>)
    /\ UNCHANGED <<clientVars, state, otherVars, bufferVars>>

\* mutant: the connection is not tried again
CloseWithoutRetry(t) ==
    /\ At(t, "retry")
    /\ ping_timer' = FALSE /\ told' = (told \/ ~reconnect)
    /\ Then(t, <<"closed">>)
    /\ UNCHANGED <<mqtt_state, packet, hand, overrun, reconnect_timer, netcVars, connVars,
                   reconnect, astray, link, bufferVars>>

\* the timers; MQTT_MSG_CLOSE if the connection is not tried again
CloseRetry(t) ==
    /\ At(t, "retry")
    /\ ping_timer' = FALSE
    /\ reconnect_timer' = (reconnect_timer \/ reconnect)
    /\ told' = (told \/ ~reconnect)
    /\ Then(t, <<"closed">>)
    /\ UNCHANGED <<mqtt_state, packet, hand, overrun, netcVars, connVars, reconnect,
                   astray, link, bufferVars>>

\* buffer_offset = 0 at the end, also when there was nothing to close
Closed(t) ==
    /\ At(t, "closed") \/ At(t, "leave")
    /\ ResetBuffer(t)
    /\ Then(t, <<>>)
    /\ UNCHANGED <<mqtt_state, overrun, reconnect_timer, ping_timer, netcVars, connVars, otherVars>>

Close(t) == CloseTest(t) \/ CloseSet(t) \/ CloseShut(t) \/ CloseRetry(t) \/ Closed(t)

-----------------------------------------------------------------------------
(* luat_mqtt_send_packet, and the network_tx in it *)

\* network_tx and network_wait_event look at this before NW_LOCK
Offline == need_close \/ conn = "none" \/ state # "ONLINE"

\* connect: the packet is CONNECT.  A failure of the socket sets need_close, sending less
\* than the packet does not; both close
Send(t) ==
    \E connect \in BOOLEAN :
        /\ At(t, IF connect THEN "send_connect" ELSE "send")
        /\ \/ /\ Offline
              /\ Then(t, <<"close">>)
              /\ UNCHANGED <<wait, need_close, greeted>>
           \/ /\ ~Offline
              /\ wait' = "TX_OK"
              /\ greeted' = (greeted \/ connect)
              /\ Then(t, IF connect THEN <<"greet">> ELSE <<>>)
              /\ UNCHANGED need_close
           \/ /\ ~Offline
              /\ need_close' \in {TRUE, need_close}
              /\ wait' \in IF need_close' THEN {wait} ELSE {wait, "TX_OK"}
              /\ Then(t, <<"close">>)
              /\ UNCHANGED greeted
        /\ UNCHANGED <<clientVars, state, new_rx_flag, conn, stream, arrived, taken,
                       otherVars, bufferVars>>

-----------------------------------------------------------------------------
(* luat_mqtt_connect *)

\* the ctrl is on its way to a connection, and will report how it ended
Connecting ==
    /\ wait = "ON_LINE"
    /\ state = "LINK_OFF" \/ (state = "CONNECTING" /\ conn = "opening")

\* network_connect looks at socket_id before NW_LOCK
ConnectLook(t) ==
    /\ At(t, "connect")
    /\ Then(t, IF conn = "none" THEN <<"connect_locked", "sconnect">> ELSE <<"sconnect">>)
    /\ UNCHANGED <<clientVars, netcVars, connVars, otherVars, bufferVars>>

ConnectLocked(t) ==
    /\ At(t, "connect_locked")
    /\ need_close' = FALSE
    /\ \/ ~link /\ state' = "LINK_OFF" /\ wait' = "ON_LINE" /\ UNCHANGED connVars
       \/ link /\ PrepareConnect(TRUE) /\ wait' = "ON_LINE"
       \/ link /\ PrepareConnect(FALSE) /\ wait' = "NONE"
    /\ astray' = (astray \/ Connecting \/ conn # "none")
    /\ Then(t, <<>>)
    /\ UNCHANGED <<clientVars, new_rx_flag, reconnect, told, link, bufferVars>>

\* whatever network_connect returned: luat_mqtt_connect takes ... < 0 for its result,
\* which is never below 0
ConnectDone(t) ==
    /\ At(t, "sconnect")
    /\ mqtt_state' = "SCONNECT"
    /\ astray' = (astray \/ ~Connecting)
    /\ Then(t, <<>>)
    /\ UNCHANGED <<packet, hand, overrun, reconnect_timer, ping_timer, netcVars, connVars,
                   reconnect, told, link, bufferVars>>

Connect(t) == ConnectLook(t) \/ ConnectLocked(t) \/ ConnectDone(t)

-----------------------------------------------------------------------------
(* The lwIP thread: an event of the socket or the link goes through          *)
(* network_default_statemachine, whose result r is the event for             *)
(* luat_mqtt_callback: -1 closes, 0 is what the ctrl waited for, 1 nothing,  *)
(* unless data waits to be read.                                             *)

Result(r) ==
    /\ wait' = IF r = 1 THEN wait ELSE "NONE"
    /\ \/ r = -1 /\ Begin("lwip", "close")
       \/ r = 0 /\ Begin("lwip", CASE wait = "ON_LINE" -> "online"
                                   [] wait = "TX_OK" -> "wait"
                                   [] OTHER -> "read")
       \/ r = 1 /\ new_rx_flag' /\ Begin("lwip", "read")
       \/ r = 1 /\ ~new_rx_flag' /\ Idle("lwip") /\ Runs("lwip") /\ UNCHANGED stack

\* network_state_connecting and network_state_on_line begin with this
Refused ==
    \/ state = "CONNECTING" /\ (need_close \/ wait # "ON_LINE")
    \/ state = "ONLINE" /\ need_close

\* the result of an event that is what the ctrl waits for, or is not
Outcome(awaited) == IF Refused THEN -1 ELSE IF awaited THEN 0 ELSE 1

Opened ==
    /\ conn = "opening" /\ conn' = "up"
    /\ state' = IF state = "CONNECTING" /\ ~Refused THEN "ONLINE" ELSE state
    /\ Result(Outcome(state = "CONNECTING"))
    /\ UNCHANGED <<need_close, new_rx_flag, stream, arrived, taken, greeted, link>>

\* mutant: what ends a connection is not reported
LostUnreported ==
    /\ conn \in {"opening", "up"} /\ conn' = "dead"
    /\ need_close' = (need_close \/ state = "ONLINE")
    /\ UNCHANGED <<wait, stack, state, new_rx_flag, stream, arrived, taken, greeted, link>>

\* the connection fails, or the broker closes it
Lost ==
    /\ conn \in {"opening", "up"} /\ conn' = "dead"
    /\ need_close' = (need_close \/ state = "ONLINE")
    /\ UNCHANGED <<state, new_rx_flag, stream, arrived, taken, greeted, link>>
    /\ Result(IF state \in {"CONNECTING", "ONLINE"} THEN -1 ELSE 1)

\* some more of what the broker sends
Arrive ==
    /\ conn = "up" /\ greeted
    /\ stream' \in IF stream = <<>> THEN Streams ELSE {stream}
    /\ arrived' \in arrived + 1 .. Len(stream')
    /\ new_rx_flag' = (new_rx_flag \/ (state = "ONLINE" /\ ~need_close))
    /\ Result(Outcome(state = "ONLINE" /\ wait # "TX_OK"))
    /\ UNCHANGED <<state, need_close, conn, taken, greeted, link>>

\* all that was sent is acknowledged
Acked ==
    /\ conn = "up" /\ greeted
    /\ UNCHANGED <<state, need_close, new_rx_flag, connVars, link>>
    /\ Result(Outcome(state = "ONLINE" /\ wait = "TX_OK"))

LinkChange ==
    /\ link' = ~link
    /\ UNCHANGED new_rx_flag
    /\ \/ /\ state = "LINK_OFF" /\ link' /\ wait = "ON_LINE"
          /\ \/ PrepareConnect(TRUE) /\ Result(1)
             \/ PrepareConnect(FALSE) /\ Result(-1)
          /\ UNCHANGED need_close
       \/ /\ state \in {"LINK_OFF", "OFF_LINE"} /\ ~(state = "LINK_OFF" /\ link' /\ wait = "ON_LINE")
          /\ state' = IF link' THEN "OFF_LINE" ELSE state
          /\ Result(1)
          /\ UNCHANGED <<need_close, connVars>>
       \/ /\ state = "CONNECTING"
          /\ Result(-1)
          /\ UNCHANGED <<state, need_close, connVars>>
       \/ /\ state = "ONLINE"
          /\ need_close' = (need_close \/ ~link')
          /\ Result(IF need_close' THEN -1 ELSE 1)
          /\ UNCHANGED <<state, connVars>>

Event ==
    /\ Opened \/ Lost \/ Arrive \/ Acked \/ LinkChange
    /\ UNCHANGED <<clientVars, reconnect, told, astray, bufferVars>>

-----------------------------------------------------------------------------
(* luat_mqtt_callback *)

\* EV_NW_RESULT_CONNECT: CONNECT is sent
Online ==
    /\ At("lwip", "online")
    /\ mqtt_state' = "MQTT"
    /\ Then("lwip", <<"send_connect", "wait">>)
    /\ UNCHANGED <<packet, hand, overrun, reconnect_timer, ping_timer, netcVars, connVars,
                   otherVars, bufferVars>>

\* mutant: only a connection that is tried again is kept alive
GreetIfReconnect ==
    /\ At("lwip", "greet")
    /\ ping_timer' = (ping_timer \/ reconnect)
    /\ Then("lwip", <<>>)
    /\ UNCHANGED <<mqtt_state, packet, hand, overrun, reconnect_timer, netcVars, connVars,
                   otherVars, bufferVars>>

\* and the ping timer started
Greet ==
    /\ At("lwip", "greet")
    /\ ping_timer' = TRUE
    /\ Then("lwip", <<>>)
    /\ UNCHANGED <<mqtt_state, packet, hand, overrun, reconnect_timer, netcVars, connVars,
                   otherVars, bufferVars>>

\* network_wait_event
Wait ==
    /\ At("lwip", "wait")
    /\ \/ (new_rx_flag \/ ~Offline) /\ wait' = "EVENT" /\ Then("lwip", <<>>)
       \/ ~new_rx_flag /\ Offline /\ Then("lwip", <<"close">>) /\ UNCHANGED wait
    /\ UNCHANGED <<clientVars, state, need_close, new_rx_flag, connVars, otherVars, bufferVars>>

-----------------------------------------------------------------------------
(* luat_mqtt_read_packet, mqtt_parse and luat_mqtt_msg_cb *)

Least(a, b) == IF a < b THEN a ELSE b

\* how much network_rx finds
Unread ==
    IF (need_close /\ ~new_rx_flag) \/ conn = "none" \/ state # "ONLINE"
    THEN 0 ELSE arrived - taken

Room == MQTT_RECV_BUF_LEN_MAX - Len(packet)

\* the first network_rx asks how much there is
ReadLook ==
    /\ At("lwip", "read")
    /\ Then("lwip", CASE Unread > Room -> <<"close">>
                      [] Unread = 0 -> <<"wait">>
                      [] OTHER -> <<"fetch">>)
    /\ UNCHANGED <<clientVars, netcVars, connVars, otherVars, bufferVars>>

\* mutant: counts what was asked for
FetchAsked ==
    /\ At("lwip", "fetch")
    /\ LET n == Least(MAX_READ, Room) IN
        /\ hand' = SubSeq(stream, taken + 1, Least(taken + n, arrived))
        /\ taken' = taken + n
        /\ Then("lwip", IF n = 0 THEN <<"wait">> ELSE <<"fetched">>)
    /\ new_rx_flag' = (new_rx_flag /\ (Room = 0 \/ conn = "none" \/ state # "ONLINE"))
    /\ UNCHANGED <<mqtt_state, packet, overrun, reconnect_timer, ping_timer, state, wait,
                   need_close, conn, stream, arrived, greeted, otherVars, bufferVars>>

\* the next ones read, at most MAX_READ each, until there is no more or no room.  One that
\* finds a connection resets new_rx_flag
Fetch ==
    /\ At("lwip", "fetch")
    /\ LET n == Least(Unread, Least(MAX_READ, Room)) IN
        /\ hand' = SubSeq(stream, taken + 1, taken + n)
        /\ taken' = taken + n
        /\ Then("lwip", IF n = 0 THEN <<"wait">> ELSE <<"fetched">>)
    /\ new_rx_flag' = (new_rx_flag /\ (Room = 0 \/ conn = "none" \/ state # "ONLINE"))
    /\ UNCHANGED <<mqtt_state, packet, overrun, reconnect_timer, ping_timer, state, wait,
                   need_close, conn, stream, arrived, greeted, otherVars, bufferVars>>

Fetched ==
    /\ At("lwip", "fetched")
    /\ packet' = packet \o hand /\ hand' = <<>>
    /\ Then("lwip", <<"parse">>)
    /\ UNCHANGED <<mqtt_state, overrun, reconnect_timer, ping_timer, netcVars, connVars,
                   otherVars, bufferVars>>

\* luat_mqtt_msg_cb.  After a close in it the packet counts as handled all the same, unless
\* it is a refusal, after which mqtt_parse and luat_mqtt_read_packet fail
Handle(kind) ==
    /\ mqtt_state' = IF kind = "CONNACK" THEN "READY" ELSE mqtt_state
    /\ Then("lwip", CASE kind = "refusal" -> <<"close", "close">>
                      [] kind = "PUBLISH" -> <<"send", "consume">>
                      [] OTHER -> <<"consume">>)

\* what mqtt_parse may read at the front of the buffer: the kind of the packet, and a length
\* that mqtt_parse_rem_len keeps in 16 bits.  The middle of a packet is read as the header it
\* happens to make; the size MQTT_RECV_BUF_LEN_MAX + 1 stands for all that do not fit
Headers ==
    IF packet # <<>> /\ packet[1].at = 1
    THEN {[kind |-> packet[1].kind, size |-> 1 + ((packet[1].size - 1) % REM_LEN)]}
    ELSE [kind : Kinds, size : 1 .. MQTT_RECV_BUF_LEN_MAX + 1]

\* a packet that is whole is handled
Parse ==
    /\ At("lwip", "parse")
    /\ \E h \in Headers :
        IF h.size <= Len(packet)
        THEN /\ hand' = SubSeq(packet, 1, h.size)
             /\ misread' = (misread \/ h.size # packet[1].size)
             /\ Handle(h.kind)
        ELSE /\ Then("lwip", <<"fetch">>)
             /\ UNCHANGED <<mqtt_state, hand, misread>>
    /\ UNCHANGED <<packet, overrun, reconnect_timer, ping_timer, netcVars, connVars,
                   otherVars, cut>>

\* mutant: what follows the packet in the buffer is dropped with it
ConsumeAll ==
    /\ At("lwip", "consume")
    /\ overrun' = (Len(hand) > Len(packet))
    /\ packet' = <<>> /\ hand' = <<>>
    /\ Then("lwip", <<"fetch">>)
    /\ UNCHANGED <<mqtt_state, reconnect_timer, ping_timer, netcVars, connVars, otherVars,
                   bufferVars>>

\* what is left moves to the front.  buffer_offset is a uint16_t: if it was reset while
\* the packet was in hand it wraps, and memmove goes beyond the buffer
Consume ==
    /\ At("lwip", "consume")
    /\ overrun' = (Len(hand) > Len(packet))
    /\ packet' = SubSeq(packet, Len(hand) + 1, Len(packet)) /\ hand' = <<>>
    /\ Then("lwip", IF packet' = <<>> THEN <<"fetch">> ELSE <<"parse">>)
    /\ UNCHANGED <<mqtt_state, reconnect_timer, ping_timer, netcVars, connVars, otherVars,
                   bufferVars>>

Callback == Online \/ Greet \/ Wait
Receive == ReadLook \/ Fetch \/ Fetched \/ Parse \/ Consume

-----------------------------------------------------------------------------
(* The timers and the application *)

\* luat_mqtt_timer_callback
PingFires ==
    /\ ping_timer
    /\ Begin("timer", "send")
    /\ UNCHANGED <<clientVars, netcVars, connVars, otherVars, bufferVars>>

\* reconnect_timer_cb and luat_mqtt_reconnect.  reconnect_time is longer than a
\* luat_mqtt_close_socket takes once it has set mqtt_state
ReconnectFires ==
    /\ reconnect_timer /\ reconnect_timer' = FALSE
    /\ \A t \in Threads : \A i \in DOMAIN stack[t] : stack[t][i] \notin {"shut", "retry", "closed"}
    /\ ResetBuffer("timer")
    /\ Begin("timer", "connect")
    /\ UNCHANGED <<mqtt_state, overrun, ping_timer, netcVars, connVars, otherVars>>

\* the application connects once, and again when MQTT_MSG_CLOSE tells it that the client
\* will not
AppConnects ==
    /\ told /\ told' = FALSE
    /\ Begin("app", "connect")
    /\ UNCHANGED <<clientVars, netcVars, connVars, reconnect, astray, link, bufferVars>>

AppCloses ==
    /\ mqtt_state # "DISCONNECT"
    /\ Begin("app", "close")
    /\ UNCHANGED <<clientVars, netcVars, connVars, otherVars, bufferVars>>

\* mqtt_publish and mqtt_subscribe
AppSends ==
    /\ mqtt_state = "READY"
    /\ Begin("app", "send")
    /\ UNCHANGED <<clientVars, netcVars, connVars, otherVars, bufferVars>>

App == AppConnects \/ AppCloses \/ AppSends

\* the next step of a thread
Step(t) ==
    /\ ~overrun /\ Runs(t)
    /\ Close(t) \/ Send(t) \/ Connect(t) \/ (t = "lwip" /\ (Callback \/ Receive))

Next ==
    \/ \E t \in Threads : Step(t)
    \/ ~overrun /\ (Event \/ PingFires \/ ReconnectFires \/ App)

Spec == Init /\ [][Next]_vars

\* lwIP answers a connection request in the end: the peer does, or its timer
Answer == ~overrun /\ conn = "opening" /\ Event /\ conn' # "opening"

\* the steps of a thread are not put off for ever
FairSpec ==
    /\ Spec
    /\ \A t \in Threads : WF_vars(Step(t))
    /\ SF_vars(Answer)

-----------------------------------------------------------------------------
(* Properties *)

TypeOK ==
    /\ mqtt_state \in {"DISCONNECT", "SCONNECT", "MQTT", "READY"}
    /\ packet \in Seq(Pieces) /\ Len(packet) <= MQTT_RECV_BUF_LEN_MAX
    /\ hand \in Seq(Pieces)
    /\ state \in {"OFF_LINE", "LINK_OFF", "CONNECTING", "ONLINE"}
    /\ wait \in {"NONE", "ON_LINE", "TX_OK", "EVENT"}
    /\ conn \in {"none", "opening", "up", "dead"}
    /\ stream \in Streams \cup {<<>>} /\ taken \in 0 .. arrived /\ arrived \in 0 .. Len(stream)
    /\ {overrun, reconnect_timer, ping_timer, reconnect, need_close, new_rx_flag, greeted,
        link, told, astray, cut, misread} \subseteq BOOLEAN

\* no thread is in the client
Quiet == ~overrun /\ \A t \in Threads : Idle(t)
Up == conn = "up" /\ state = "ONLINE"

\* When no thread is in the client, somebody is to go on: a timer that connects again, the
\* application, the ctrl on its way to a connection, or a connection.  No order of closes
\* by the callback, the ping timer and the application forgets all four
\* (luat_mqtt_close_socket, luat_mqtt_callback).  It holds unless luat_mqtt_connect
\* went astray.
Attended ==
    Quiet /\ ~astray => reconnect_timer \/ told \/ Connecting \/ Up

\* the answer to CONNECT has been read
Answered == stream # <<>> /\ taken >= stream[1].size

\* On a connection mqtt_state is what this connection has come to: READY when and only when
\* its CONNACK was handled, and the ping timer runs.  A late close, a stale result or a packet
\* of a former connection does not change that (luat_mqtt_callback, luat_mqtt_msg_cb), unless
\* the buffer was emptied meanwhile or a length was misread.
SessionIsReal ==
    Quiet /\ ~astray /\ Up /\ ~cut /\ ~misread =>
        /\ mqtt_state = IF Answered THEN "READY" ELSE "MQTT"
        /\ Answered => stream[1].kind = "CONNACK"
        /\ ping_timer

\* What mqtt_parse looks at begins with a packet, and is what was read last of the stream:
\* however the packets were cut, none is lost or handled twice, also over a reconnection
\* (mqtt_parse, luat_mqtt_read_packet).  It holds unless the buffer
\* was emptied meanwhile, and until mqtt_parse takes a packet whose remaining length does not
\* fit into 16 bits for a shorter one.
Framed ==
    At("lwip", "parse") /\ ~cut /\ ~misread /\ ~astray =>
        /\ packet # <<>> /\ packet[1].at = 1
        /\ packet = SubSeq(stream, taken - Len(packet) + 1, taken)

\* An attempt to connect ends, with a connection or with a close, or goes on waiting for the
\* link: mqtt_state does not stay SCONNECT (network_default_statemachine, luat_mqtt_callback).
AttemptEnds ==
    (mqtt_state = "SCONNECT" /\ ~astray) ~>
        (mqtt_state # "SCONNECT" \/ state = "LINK_OFF" \/ astray \/ overrun)

\* luat_mqtt.h:28: MQTT_STATE_SCONNECT is "mqtt socket连接中", the socket is connecting.
SconnectIsConnecting ==
    Quiet /\ mqtt_state = "SCONNECT" => Connecting
=============================================================================
