# TLA+ models of the LuatOS network core (EC618)

This directory holds the formal models of the code that turns lwIP into the
sockets of LuatOS: TLA+ modules, the TLC configurations that check them on small
instances, and theorem modules checked by TLAPS. `PROJECT.json` maps every
definition to the lines it models and lists runs, hazards and theorems.

Three files of `src/luatos_lwip_socket/` carry the logic of the network core, and
file names without a path below refer to them:

- `luat_lwip_ec618.c`: the socket table and the lwIP thread,
- `luat_network_adapter.c`: the network controllers (`network_ctrl_t`) and their
  blocking API; `include/luat_network_adapter.h` documents both,
- `dns_client.c`: the DNS client, run by the lwIP thread.

`src/thirdparty/ymodem/luat_ymodem.c` (of LuatOS, despite its directory) receives
files over a serial line, `src/thirdparty/libemqtt/luat_mqtt_client.c` (of LuatOS as well)
keeps a connection to an MQTT broker on top of a network controller.

## 1. Inventory

### Threads and locks

| Who | Runs | Takes |
| --- | --- | --- |
| lwIP thread | `net_lwip_task` for each message of its mailbox, the lwIP callbacks, and, inside them, the state machine of a ctrl (and its user callback) | `SOCKET_LOCK` and `NW_LOCK` |
| application tasks | the `network_*` functions; wait on their own event queue | `NW_LOCK`, within it `SOCKET_LOCK` and `OS_LOCK`; `network_force_close_socket`, and the end of `network_close`, take none |
| timers | `network_default_timer_callback`: posts `EV_NW_TIMEOUT`; the ping and the reconnection of the MQTT client | none, `NW_LOCK` in the latter |

`NW_LOCK` is one binary semaphore per ctrl (`platform_lock_mutex`), not a recursive
mutex. `platform_send_event` blocks while the receiving queue is full. An adapter
operation takes place in the task that calls it up to the message it posts, and in
the lwIP thread from there.

### Components

**Socket table and lwIP thread** (`luat_lwip_ec618.c`). State: eight `socket_ctrl_t`
(`in_use`, `state` = closing, `remote_close`, `pcb`, `listen_tcp`, `tag`, `param`,
queues), `next_socket_index`, `socket_tag`, the mailbox. Operations: create,
connect, listen, disconnect, close, force_close, send, receive, clean; handlers of
CREATE, CONNECT, LISTEN, TX, RX_DONE, CLOSE; callbacks connected, accept, recv,
sent, err. A socket is named by slot number and tag, both of which the owner keeps.
*Hard:* slots are reused while messages, events and handles of the former socket are
about; `state` is tested and set without a lock, also by two threads for one ctrl; a
failing connection and a close cross. *Correct when:* a handle reaches its own socket only, a request or an event
is about the socket it was meant for, a slot is clean when it is given away,
and a socket being closed becomes free.

**Byte streams** (both files). State: `tx_head`, `wait_ack_head`, `rx_head`,
`rx_wait_size`, the window and send buffer of the pcb, `tx_size`, `ack_size`,
`new_rx_flag`. Operations: `network_tx`, `network_rx`, the TX and RX_DONE requests,
the sent and recv callbacks. *Hard:* partial acknowledgements, a full send buffer,
memory that runs out in the middle, the same lock taken around a blocking post.
*Correct when:* bytes come out once and in order, what is queued moves, success means
acknowledged, the window is not used up, a hole is reported.

**Network controller** (`luat_network_adapter.c`). State: `state`,
`wait_target_state`, `socket_id`, `tag`, `need_close`, `new_rx_flag`, the address
list and its index, `tx_size`, `ack_size`, the timer, and the queue of the task.
Operations: `network_wait_link_up`, `_connect`, `_listen`, `_close`, `_tx`, `_rx`,
`_wait_rx`, `_wait_event`; the seven handlers of `network_state_fun_list`. *Hard:*
events of an earlier socket or look-up, results of an earlier wait, timers, link
changes, one address failing after the other; conditions read before `NW_LOCK`.
*Correct when:* no socket is lost, a result belongs to its wait, success of connect
means a connection, and a blocking call returns.

**DNS client** (`dns_client.c`, and its caller in `luat_lwip_ec618.c`). State: the list
of requires (calls of `network_dns`), the list of processes (one for each name being
looked up), the servers, the identifier of the next question, `is_run`, `new_result`,
and a timer of 1000 ms. There is no cache. *Hard:* requires joining a running process,
IPv6-then-IPv4, late and repeated answers, servers used up, link loss. *Correct when:*
each look-up ends, with addresses of its own name and not before every server was
asked, and the client is run as long as there is one.

**YMODEM receiver** (`luat_ymodem.c`). State: `state` (header, data, two EOT),
`next_sn`, `packet_data` with `data_pos` and `data_max`, `file_size`, `write_size`, the
file. Operations: `luat_ymodem_receive` for each chunk the line delivers,
`luat_ymodem_reset`. *Hard:* chunks end anywhere; frames are lost, damaged, sent twice;
what is left of a refused frame; what a reset leaves behind; the sequence number wraps.
*Correct when:* the blocks go into the file once and in order, `file_ok` means all of
them, and the transfer gets on.

**MQTT client** (`luat_mqtt_client.c`). State: `mqtt_state`, `mqtt_packet_buffer` with
`buffer_offset`, the reconnection and the ping timer, and the ctrl `netc`, which has a
`user_callback` and no task. Operations: `luat_mqtt_connect`, `_reconnect`, `_close_socket`,
`_send_packet`, `luat_mqtt_callback` with `luat_mqtt_read_packet`, `mqtt_parse` and
`luat_mqtt_msg_cb`, the two timer callbacks. *Hard:* three threads run all of this and nothing
locks it: a close may begin inside the handling of a packet, inside another close, or between
`network_connect` and the assignment after it; packets are cut and joined. *Correct when:* a lost
connection is tried again or reported, `mqtt_state` is that of the connection there is, packets
are handled once and whole, and an attempt ends.

**Other components**, none modelled: allocation of ctrls, the TLS layer of the
adapter, glue (`luat_base_ec618.c`), HTTP (retry, ranges), FTP, SNTP, key-value store, firmware
update (erase / write / verify order across resets), low power and audio, the
RTOS and peripheral wrappers, the vendor SDK, the vendored libraries, examples and
build. `PROJECT.json` gives the reason for each.

### How they interact

```
 application task --(calls)--> network controller --(calls)--> socket table --(mailbox)--> lwIP thread
        ^                            ^                                                        |
        +----(event queue: results)--+-----(callback: socket events, DNS results, link)-------+
```

## 2. The modules

| Module | Models |
| --- | --- |
| `SocketTable` | slots, tags, mailbox, lwIP callbacks, several ctrls opening and closing sockets |
| `SocketTableProofs` | theorems about `SocketTable`, for every number of slots, ctrls and messages |
| `SequenceLemmas` | lemmas about sums and concatenations over sequences, by induction |
| `QueueLemmas` | lemmas about the queues of `SocketStream`: which interval of bytes they hold |
| `SocketStreamProofs` | theorems about `SocketStream`, the two refinements among them, for every chunk, window and buffer |
| `ByteChannel` | abstract: what one direction of a TCP socket promises |
| `SocketStream` | the data of one connected TCP socket; both directions implement `ByteChannel` |
| `NetCtrl` | one ctrl: the blocking API, the timer, the state machine |
| `NetCtrlProofs` | theorems about `NetCtrl`, for every queue, and any number of sockets, addresses and calls |
| `DnsClient` | look-ups, their processes, questions and late answers |
| `DnsClientProofs` | theorems about `DnsClient`, for every number of names, servers, tries and requires |
| `FileCopy` | abstract: what a file transfer promises |
| `Ymodem` | the YMODEM receiver, a sender and a bad line; implements `FileCopy` |
| `YmodemProofs` | theorems about `Ymodem`, the refinement among them |
| `MqttClient` | the MQTT client: three threads, two timers, the packets of a broker |
| `MqttClientProofs` | theorems about `MqttClient`, for every buffer, broker and choice of priorities |
| `MCSocketTable`, `MCSocketStream`, `MCNetCtrl`, `MCDnsClient`, `MCYmodem`, `MCMqttClient` | values for the constants that a `.cfg` cannot write |

The first three detailed modules (`SocketTable`, `SocketStream`, `NetCtrl`) are three views of one system. `SocketTable` has many
sockets and no data; `SocketStream` has the data of one socket while its ctrl is
online; `NetCtrl` has the whole controller over sockets that are never reused and are
reduced to what they report (`conn`), which is what `HandleIsExclusive` and
`EventFromOwnSocket` of `SocketTable` allow. `DnsClient` is what is behind the action
`DnsAnswer` of `NetCtrl`: an answer, addresses or none, that comes at any later time, or
never (`DnsLost`, `LinkChange`): the DNS client loses look-ups with the link up, too (`LookupEnds`). `MqttClient` has a ctrl with a `user_callback`, reduced
to what the client uses, over one socket at a time. `Ymodem` stands alone.

### SocketTable

One variable per field of `socket_ctrl_t` that decides something, as functions of
the slot; `socket_id` and `ctag` are the two fields of `network_ctrl_t`. A ctrl has one
caller at a time that holds its `NW_LOCK` (`Locked(c)`); the ctrls in `Unlocked` have a second
one, which closes without it: `network_force_close_socket` is exported, takes no lock, and
`luat_mqtt_client.c:132` calls it from three threads, and `network_close` ends with
`network_socket_force_close` after `NW_UNLOCK`. An operation of the adapter runs
in steps (`pc`, by caller), split where another thread can get
in: each test of `state`, each setting of it, each blocking post. `StartCreate` to
`OpenPost` are `network_base_connect` with its retry (`RetryCreate`) after
`network_clean_invaild_socket` (`CleanScan`, `CleanSlot`, `CleanDone`);
`Disconnect`, `Close` and `ForceClose` begin the three ways to close, which go on with
`ForceTest` (the test of `state`), `MarkClosing` (`state = 1`), `ClosePost` (the request) and
`Drop` (`socket_id = -1`). `Handle*` are the cases of
`net_lwip_task`, `ConnectedCb`, `AcceptCb`, `FinCb`, `ErrCb` the lwIP callbacks,
`CbEnter` and `CbReturn` the part under `NW_LOCK` of an event, in which the lwIP thread
performs operations itself (`thr`).

History variables: `own` (the tag a pcb or message was made for), `meddled` (somebody set about
closing a slot that was made for another: by `network_clean_invaild_socket`, or by a number
that is out of date), `crossed` (two calls on one ctrl overlapped) and `overrun` (a listening slot
accepted a second peer). The invariants that begin
with `Calm` speak about behaviours without these three, which the code does allow and
for which most of them do not hold; see section 6.

Left out: timers, options, `getsockopt`, data. `socket_id` = -1 is a check that
fails (the C code compares it with `>= MAX_SOCK_NUM` only, and reads the element
before the array). The unlocked caller closes only: the library calls nothing else without the lock.

### SocketStream and ByteChannel

Bytes are numbered, a node of a queue is an interval of numbers: reordering, loss and
duplication show up as wrong numbers, and nothing else about a byte matters. `lw`
is the job of the lwIP thread, between the steps of which it waits for `SOCKET_LOCK`
or `NW_LOCK`; `pc` is the step of the application, which holds `NW_LOCK` throughout
`network_tx` and `network_rx` and `SOCKET_LOCK` while it reads. Both kinds of memory
shortage are modelled (`net_lwip_create_data_node` returns NULL while sending, or while
receiving). `fast_rx_ack` is chosen at the start.
`TxChannel` and `RxChannel` map the queues to `ByteChannel`; `TxIsChannel` and
`RxIsChannel` say that every step is one of the channel or changes nothing in it.
TCP without TLS, on a ctrl that is online: opening and closing belong to the other
modules.

### NetCtrl

`state` and `wait` are `network_ctrl_t.state` and `.wait_target_state`; `sock` is
`socket_id` as a number never used twice. `BeginOp` is what an operation examines
before `NW_LOCK`, `LockedPart` (one `Do...` per operation) what it does under it,
`TakeEvent` one turn of its waiting loop. `StateMachine` is
`network_default_statemachine` for the event in `cb`, one definition per element of
`network_state_fun_list`; the event was matched with the ctrl's tag earlier
(`DeliverSocket`), without the lock, as in the code. `NetAnswers` is what the network
must do, `NetHappens` what it may; to lose a look-up (`DnsLost`) is among the latter. A listener
whose socket fails while addresses of a former look-up are there becomes a client of the next
one: `BaseConnect` sets `is_server_mode`, as `network_socket_connect` and `network_socket_listen` do.
`Calls` are the operations that are called.

Assumptions about the caller: it has a task; `user_callback` is NULL, as the blocking
API needs; `network_connect` is called on a closed ctrl (`luat_network_adapter.h` asks
for it) and with a non-zero port; `network_wait_link_up` before a socket is opened.
Left out: TLS (and with it `SHAKEHAND`), UDP. A full task queue makes the state
machine wait; the mailbox of the lwIP thread is not modelled here. A literal address
given as a name is `by_name` = FALSE. For the lwIP adapter `network_dns` always accepts.

`crossed` becomes true when a call returned before its result came (timeout, or a
timeout of 0), or when an event matched with one socket is handled after the ctrl
took another. From then on a result in the queue may be that of an earlier call;
the code does not tell them apart, so the properties of results are stated for
behaviours in which it has not happened. `NoSocketLeak` and `TypeOK`, which keeps the index of
an address inside the list, are stated for all of them. Two more history variables: `leftover`
(`network_listen`, which does not reset `tx_size` and `ack_size`, found them different) and `lost`
(the look-up of the last attempt was lost).

### DnsClient

A require is a number, in the order of the messages that carry them; a process is a
record under its name, since a list holds at most one process of a name. `RunOut` is
`dns_run` when it looks for a question to send, and what its caller does with the
results; `RunIn` is `dns_run` with an answer. `TakeRequire`, `Tick` and `Receive` are
the three ways the lwIP thread comes to it: the message, the timer, `net_lwip_dns_recv_cb`
(which runs the client twice, and reports results of the second half only when a
question was sent). `asked` holds every question ever sent: an answer to it may come at
any time, any number of times, with the address of its name or without. A process
compares the identifier only, as the code does. A clock is not needed: `Expire` lets
`timeout_ms` pass whenever it likes.

Left out: `set_dns_server` while the client runs (the configured servers are chosen at
the start), the size of the list of addresses, the encoding of messages, a server that
answers for another name. The identifier is not cut to 16 bits: a wrap takes 65535
questions while one datagram is under way. Whether a name is asked for in IPv6 is
decided by the require that begins the process, as in `dns_require_ipv6`.

### Ymodem and FileCopy

Data is counted in units of 128 bytes: a short block is one unit, a long one
`StxUnits` (8; 2 in the run). A frame is a sequence of pieces, one per unit and one for
number and checksum, and the receiver is called with any number of them, which makes a
chunk end at every place that matters: after nothing, inside, at the end of a frame. The
first byte of a chunk decides what `luat_ymodem_receive` does with it; when a chunk
begins inside a frame that byte is data and may be any of `MidBytes`. `ReceiveHeader`,
`ReceiveData` and `ReceiveEot` are the cases of its `switch`; `Refuse`, `Collect`, `Write`
and `Finish` its four exits.

The sender and the line are not in the repository. The sender is the simplest one that
is right: it sends a frame, waits, and sends it again after a NAK or when nothing comes;
it looks at replies once its frame is out, and an ACK counts before a NAK. It may send
too early (`EarlyTimeout`), give up, and choose short and long blocks freely. The line
loses and damages pieces and loses replies, `MaxFaults` times. The caller does what
`luat_ymodem.h:14-20` asks for: it polls, sends `ack` on, and calls `luat_ymodem_reset`
before the next transfer. (The example project does not: it sends nothing after a
refusal, `project/example_ymodem/src/example_main.c:76`, and releases the handler at
`file_ok`, before EOT.) `FileCopy` is the abstract file: it grows by what comes next
and is complete once.

Left out: writing to raw flash (`sfud_write` is given `write_size` without `sfud_offset`),
files of size 0 (which this receiver never completes), a file system that fails
(neither `fopen` nor `fwrite` is looked at), a checksum that misses damage, and the bytes
around the data of a frame: no property says that `data_pos` stays inside `packet_data`, and it does
not. After a reset inside a long frame `data_max` is 1029, and state 0 then copies up to 1034 bytes
into the 1032 of `packet_data`; the last two go to the padding behind it. What `TypeOK` does say is that the
copy that completes a packet has a positive length. The `memcpy` of state 1 copies what is left of
a chunk; that this is no longer than a frame is what the model assumes.

### MqttClient

`stack` holds, for each thread, the steps it has still to do: `"close"` is the beginning of
`luat_mqtt_close_socket` (the test of `mqtt_state`), `"drop"` the assignments after it, `"shut"`, `"retry"` and
`"closed"` its other parts (`"leave"` its end when there was nothing to close), and so on; a handler that
calls another puts its steps in front of its own. Two threads may pass the test before either of them
sets `mqtt_state`. A step ends where a thread of higher priority can
see what it has done. Scheduling is that of FreeRTOS, by fixed priority: `Runs` lets a thread make a
step when none above it has one (the timer task 40, `FreeRTOSConfig.h:84`; `tcpip_thread` 26,
`lwip_config.h:1591`; the example application 10, `luat_mqtt_ec618.c:339`). A thread that waits for
a lock would let others in; the only lock here is `NW_LOCK`, held within single steps.

`Event` is the lwIP callback up to `network_default_statemachine`, whose result decides whether
`luat_mqtt_callback` runs and with which event (`Result`). `Online`, `Greet` and `Wait` are the parts of the
callback, `ReadLook` to `Consume` those of reading and parsing. The stream and the buffer are counted in pieces; the first
piece of a packet holds its fixed header, and `Headers` is what `mqtt_parse` makes of the front of the
buffer: the length modulo `REM_LEN`, as `mqtt_parse_rem_len` keeps value and multiplier in 16 bits, or, in
the middle of a packet, any header. `hand` is what is read and not yet
counted in `buffer_offset`, or the packet that is being handled: what another thread does to the
buffer meanwhile hits these. `ConnectDone` sets `MQTT_STATE_SCONNECT` whatever
`network_connect` returned, as the code does.

History variables: `astray` (`luat_mqtt_connect` set SCONNECT without an attempt of its own: the
result was already handled, another thread connected, or `network_connect` failed) and `cut` (a thread emptied the
buffer while the lwIP thread was using it or it held a part of a packet; or the lwIP thread emptied it in a close
that finds `MQTT_STATE_DISCONNECT` and leaves the connection to the close of another thread) and `misread`
(a packet was taken for a shorter one: its length does not fit). Once `buffer_offset` has
wrapped (`overrun`) the model stops.

`BrokerAssumption` is what is asked of a broker: it sends whole packets one after the other
(`InPackets`; the last one may be cut off) and its first packet answers CONNECT. It may refuse and
send more all the same.

The application connects, connects again when MQTT_MSG_CLOSE tells it that the client will not,
closes and publishes whenever it likes. The reconnection timer does not fire during a close
(`reconnect_time` is some seconds). Left out: names (the host is an address), the encoding of
packets, `luat_mqtt_release_socket`, TLS, the queue in which the example hands messages to its task.

## 3. The runs

Each run was chosen for one question. "States" are the distinct states TLC finds.

| Run | Instance | Shows |
| --- | --- | --- |
| `clients` | 2 ctrls, one with an unlocked second caller, 1 slot, 2 sockets, mailbox of 1; 1.9 M states | handles are exclusive, tags name owners, requests and events reach the socket they are about, slots are held or closing, a free slot has no pcb |
| `modes` | 1 ctrl, 2 slots, 3 sockets, mailbox of 2, client / server / UDP, fair; 0.2 M | listening, accepting, UDP and the choice of a slot leave slots clean, and a closing slot becomes free, but for the ways out the property names |
| `lost` | 1 ctrl, 1 slot, 1 socket | finding: a slot is lost (section 6) |
| `streams` | 2 bytes out, 3 in, chunks of 2, send buffer of 2, window of 3, mailbox of 2, fair; 0.3 M | both sides implement `ByteChannel`, queues, window and `rx_wait_size` are exact, success means acknowledged, a hole is reported, waits and queues end |
| `mailbox` | 1 byte out, 3 in, mailbox of 2 | finding: the adapter blocks |
| `calls` | 2 connects, 2 sockets, 2 addresses, 1 link change, queue of 2, no sends; 1.7 M | no socket is lost, the address index is right, results belong to their waits, success means a connection |
| `returns` | connect, listen, tx and close; 1 connect, 2 sockets, 2 addresses, 1 link change, 2 sends, queue of 1, fair; 0.6 M | connect, listen and tx return without their timer, but for the ways out the properties name |
| `lookups` | 2 names, 2 requires, 2 servers of which any are configured, 2 tries, 1 loss of the link, fair; 58 k | every look-up ends, with addresses of its name and after every server was asked; requires, processes and timer belong together |
| `transfer` | 4 units, long blocks of 2, numbers modulo 3, 3 faults, 2 transfers, fair; 71 k | the receiver implements `FileCopy`, the sender is never ahead of the file, the file arrives |
| `broker` | 3 threads, a buffer of 3 pieces, reads of 2, lengths modulo 4, a broker that refuses and says more, or sends a CONNACK of 2 pieces, a PUBLISH, and the beginning of a packet of 5, whose length is misread, fair; 1.4 M | somebody is always to go on, `mqtt_state` is that of the connection, packets are parsed whole until a length is misread, attempts end |
| `names`, `stuck` | small | findings (section 6) |

**Why the bounds are enough.** A confusion of sockets needs a slot that is used, freed
and used again by another ctrl that meets what the former one left: two ctrls, two tags and one slot
give every such order (the second user meets what the first one left, and the first one's closes meet
the second), and make the wrap of `next_socket_index`, the search that fails and the retry frequent;
a full mailbox, one entry, stops a caller between mark and request. One ctrl with a
second caller is enough for two closes at once. Slots touch each other only when one is chosen
and when the table is cleaned; `modes` has two for that, three sockets, and a mailbox that holds requests of
two. In `SocketStream` a chunk, the send buffer
and the window have to be smaller than what is sent or received, and an
acknowledgement has to cover a part of a chunk, and more than one: two bytes out, which take one chunk
or two, three bytes in and chunks of two do that. In `NetCtrl` an attempt has to be followed by another, an address
by the next one, and an event by one of another socket: two of each; two
sends, so that a listener can begin with what a former connection did not acknowledge. `MaxTag`,
`MaxTx`, `MaxRx`, `MaxSock`, `MaxConnect`, `MaxLink`, `MaxRequires`, `MaxLosses`,
`MaxFaults` and `MaxSessions` only cap counters; they are guards
of the action that increments. In `DnsClient` a second look-up has to begin before, during and
after the first, for the same name and for another, and a process has to go through IPv6, IPv4
and the next server: two of each (`MayAsk` keeps the first require to one name, as names are
interchangeable). In `Ymodem` the number of a block has to wrap inside the file and to equal 0
again, a long block has to be cut and to end past the file, a frame has to be lost, refused and
repeated, and a transfer to follow one that was cut off: numbers modulo 3, four units, three
faults and two transfers do that. In `MqttClient` a packet has to be cut by the network and by
`MAX_READ`, to follow another in the buffer, to fill it up, and to be longer than its length can say; there is no cap on connections, closes and
timers. All the safety properties are proved as well (section 4), for every value of the
constants: for those the runs are a second look, and it is liveness that rests on the bounds.

**Deadlock** is not checked: at the caps a behaviour ends (a DNS client without look-ups and a
transfer that is over have nothing to do, either), and two stops
are real ones of the code (`SelfLocked` and `MailboxDeadlock`), which
`ClosingEnds`, `QueueDrains` and the run `mailbox` treat by name.

**Symmetry** is not used: one of the two ctrls of `clients` has a second caller, the other has not.

**Fairness.** `SocketTable`: the lwIP thread and an operation in progress go on, also when
they compete for a lock or for room in the mailbox: strong fairness, as FreeRTOS wakes a
waiting task each time a lock or an entry becomes free, in the order of priority and then
of waiting, and no task of this code computes for ever between two waits. Nobody has to begin an operation; no peer has to answer.
`SocketStream`: the same, and weak fairness of acknowledgements: lwIP sends a
lost segment again, and a connection that dies instead is the subject of the other modules. `NetCtrl`:
the two threads go on, and what was asked of lwIP or of the DNS client is answered or, a look-up, lost:
their own timers see to that, and `ConnectEnds` counts a lost look-up as a way out, since the code loses some with the link up
(`LookupEnds`, section 5). No fairness for the timer of the ctrl, nor for the
user: the liveness properties say that calls return without the timer.
`DnsClient`: the lwIP thread takes its messages, the timer fires while it is on, and time passes
(weak fairness of each); no server has to answer. `Ymodem`: the line delivers, the caller polls,
the sender waits no longer than its timeout (weak fairness), and a frame that is sent again and
again is not cut in pieces every time (strong fairness of `ReceiveWhole`). The last is needed: if
every copy of a frame is cut, and the rest of each refused copy begins with a byte that looks like
the start of a frame, the receiver is one rest behind for ever. `MqttClient`:
a thread that can make a step does not wait for ever (weak fairness of each thread), and lwIP
answers a connection request, by its own timer if need be (strong fairness of `Answer`, as other events of the lwIP
thread come in between). No timer has to fire and no broker has to send.

## 4. The proofs

Each theorem states a property that a run checks, for all values of the constants that satisfy
the assumption of the module. Below are the inductive invariants and why they are needed; TLC checked
each of them on an instance before it was proved.

`SocketTableProofs` (any `MAX_SOCK_NUM`, `Ctrls`, `Unlocked`, `Modes`, `TCPIP_MBOX_SIZE`, `MaxTag`), over the
whole of `Next`, `meddled`, `crossed` and `overrun` included:

- `TypeCorrect`: `Spec => []TypeOK`. Inductive as it stands; one lemma per kind of step
  (`StartType`, `OpType`, `TcpipType`) and one per helper (`PostType`, `TakeType`,
  `DeliverType`, ...).
- `TagCorrect`: `Spec => []TagNamesOwner`. Inductive relative to `TypeOK`: only
  `TakeSlot` issues a tag, one greater than `socket_tag`, so it equals no tag that is in a slot
  or remembered; every other step takes tags away or copies them from the slot they
  belong to. This is why the invariant bounds all tags by `socket_tag`, free slots included.
- `HandlesAreExclusive`: `Spec => []HandleIsExclusive`, which follows from the former:
  two ctrls that pass the check on one slot remember the same tag, hence own the slot.
- `ClosingCorrect`: `Spec => ClosingIsFinal`, by cases on the steps: `TakeSlot` takes
  free slots only, and nothing but `CloseDone` resets `state`.

- `FreeSlotsHaveNoPcb`: `Spec => []FreeSlotHasNoPcb`, unless `overrun`. A slot is freed by a CLOSE that finds a
  pcb, a listener or the `remote_close` mark. `MadeInv` says that while a request to make the pcb is on
  its way, or about to be posted, the slot is in use and has none of the three (`Raw`), and that there is one such request at
  most: so no CLOSE, however many are posted and by whom, frees a slot that will get a pcb.

and for calm behaviours `FreeSlotsAreClean`, `RequestsAreOnTarget`,
`OpenSlotsAreHeld` and `EventsCarryTheirTag`. None of the four is inductive, nor are they together: they
hold by one strengthening, `CalmInv == Calm => Good`. `Bond(o)` says what a caller knows
of its slot between two steps (whose it is, whether it is closing, that nobody else has posted its
CLOSE), which makes the unlocked test-and-set of `state` harmless as long as the calls on one ctrl do not
overlap (`AloneInv`); `Clean` and `Held` speak of
a slot, `Mail` of the mailbox (each request finds its socket, and nothing follows a CLOSE to the
same slot), and no pcb is orphaned. The lemmas are one per kind of step (`CalmCheck`, `CalmPost`,
...), and one that the calm, once ended, does not come back (`CalmBefore`).

`SequenceLemmas` has what `FlattenSeq` and sums do when a sequence grows at its end or loses its
front. Induction over the natural numbers is done over a set (`LeastNatural`), since the provers cannot
instantiate a theorem about an operator. `QueueLemmas` is about queues that tile an interval of bytes
(`Tiles`): such a queue, read at its front, filled in chunks or acknowledged in part, tiles
the interval that is left.

`SocketStreamProofs` (any chunk length, send buffer, window, mailbox and number of bytes)
proves `StreamTypes`, `StreamSends`, `StreamWindow`, `StreamHole`, `StreamSuccess`, `StreamTxChannel` and
`StreamRxChannel`. `IInv` says which interval each queue holds (`Sending`: `wait_ack_head` from what
is freed to what is written, `tx_head` from there to what was accepted; `Receiving`: `rx_head` from what was read to
what arrived, unless bytes were lost), that the window adds up while a message or a segment is on its way
(`Window`), and which results the queue of the task can hold (`Waits`). The
acknowledgement that the lwIP thread is still working on is the reason for `Freed`. For the refinements
each step is shown to be a step of `ByteChannel` under the mapping, or to leave it unchanged.

`NetCtrlProofs` (any queue, list of addresses, and number of sockets, calls and link changes)
proves `TypeCorrect`, `NoLeak`, `OneResult` and `SuccessHasConnection`. Its `IInv` is a conjunction of named
parts: types (`Flags`, `Counters`, `Control`, `QueueType`), `Addressed` (the index of the address is
in the list while a client connects), `Accounts` (`tx_size` covers what is acknowledged, under way and
in the event being handled), `Sockets` and `Holds` (only the socket of the ctrl is open, and what `state` says of it), `Seen`
(what an operation saw before `NW_LOCK` still holds under it), `Delivered`, and, unless `crossed`, `Waited`
and `Queued` (a result is put in the queue once, for the call that waits, and `wait_target_state` is reset with it)
and `Successes`.

`DnsClientProofs` proves `DnsTypes`, `DnsAnswers`, `DnsProcesses` and `DnsTimer`,
the invariants of the run `lookups`, and `DnsGivesUp`, for all constants that satisfy `DnsAssumption`. The
invariants hold
together: the inductive invariant `DnsInv` is their conjunction with what connects them. Two
parts do the work. Every identifier in use or in a question that was sent is at most
`session_id`, and a question that carries the identifier of a process is for its name: so an
answer, however late, brings the address of the right name. And a process belongs to a
require that still waits, whose name it reads, and a waiting require to a process
(`PendingHasProcess`): a result is given to all requires of a name in the step that ends the
process of it, and only requires with a result are reported and freed. `DnsGivesUp` rests on `TriedInv`
besides: a process has asked the servers before the one it is at, and that one once its question is
out; and on `OverGivesUp`: of the due processes, `dns_run` ends those only that have no server left.

`YmodemProofs` proves `YmodemTypes`, `YmodemAcked`, `YmodemDone` and `YmodemCopies` for all
lengths of the file, of long blocks and of the sequence numbers (more than 2 of them, as the
receiver must tell a block from the one before), and any number of faults, under the premise
`TrueMids` (section 5). The inductive invariant `YmInv` says: the line holds
pieces of the frame being sent only (`OnLine`; `packet_data` may hold rests of older ones); a
packet is never longer than its `data_max` (`Filling`); the file is `1 .. n` (`Copied`); receiver and
sender agree on `state`, `next_sn` and `step` up to one acknowledgement that is under way
(`Agreed`); and `all_done` comes with the end (`Done`). The central lemma (`Gathered`) is that
a packet which passes number and checksum is the frame being sent: rests of an older
frame in front of it make it fail. `YmodemCopies` maps each exit of the receiver to a step of
`FileCopy` or to a stutter.

`MqttClientProofs` (any buffer, `MAX_READ`, `REM_LEN`, set of streams that satisfies `BrokerAssumption`, and priorities, with
the timer task above the lwIP thread) proves `MqttTypes`, `MqttAttended`, `MqttFramed` and `MqttSession`.
It first finds which stacks there can be (`Shapes`: two steps at most), so that a step is the top
of a stack and what it replaces it by. Three layers follow:

- `IInv` adds the types, what fields of the ctrl go together (`Netc`), and `Tended`: unless astray, somebody
  owes the client an attempt (a timer, the application, a connect or close on its way), or there is a connection, or its
  end is being reported. `Attended` is this when the stacks are empty.
- `Framing` relates buffer and stream, unless `cut` or `misread`. `Aligned`: the buffer, with what has been read behind it, is what was read
  last, and begins with a packet. What makes it inductive is what it says of closes: one by a thread before which the
  lwIP thread waits finds an empty buffer or sets `cut` (`Alone`), while the application closes nobody
  connects (`Parted`), and the buffer may be that of a connection which the
  application is closing and whose end it has not come to (`Stale`).
- `Session` says what `mqtt_state` and the ping timer are on a connection that nobody is closing (`Live`), by whether the
  first packet has been handled (`Passed`).

The last two need `AppIsApart` (section 5). That a packet ends where the next one begins, for
packets of any length, is an induction along the stream (`PacketPieces`).

Only model-checked: liveness (`ClosingEnds`, `QueueDrains`, `ConnectEnds`, `TxEnds`, `LookupEnds`, `FileArrives`,
`AttemptEnds`), as ENABLED and fairness are beyond the prover. The findings of
section 6 are counterexamples found by TLC.

## 5. Properties with a premise

A property whose premise excludes something that the code does says so here.

- `Calm`: slots closed by `network_clean_invaild_socket` or by a number out of date (`meddled`), calls on one ctrl
  that overlap (`crossed`), and second accepts (`overrun`). `TypeOK`, `TagNamesOwner`,
  `HandleIsExclusive` and `ClosingIsFinal` do not need it, and `FreeSlotHasNoPcb` excludes second accepts only. What two
  overlapping closes of one ctrl do to the others: both callers pass the test of `state`, each posts a CLOSE, and the second
  CLOSE closes the socket that has been opened in the slot meanwhile, or the second mark stays on a slot that is free.
- `EventFromOwnSocket` is about the tag at delivery. It is compared before `NW_LOCK` is taken, and whether the ctrl still has
  the socket then is not said.
- `ClosingEnds` names the slot lost to an error, the two deadlocks, and behaviours without `Calm`: an orphaned
  pcb, too, can set the mark on a slot whose own pcb has died, and no `CLOSE` comes after it.
- `SuccessMeansAcked`: no earlier `network_tx` left before its result.
- `QueueDrains`: queued bytes may stay when the ctrl has been marked for closing (a send that
  ran out of memory) or the mailbox has stopped both threads.
- `OneResultPerWait`, `ConnectMeansOnline`, `ConnectEnds`, `TxEnds`: not `crossed`.
- `ConnectEnds`: a ctrl without link waits for it, a listener for a peer, and one whose look-up the DNS client has lost
  (`lost`), with the link up or down, for its timer.
- `LookupEnds` lets a look-up be lost: when the link is lost, and where the code forgets to set
  `new_result` (a name with IPv6 addresses only, and servers that are used up in the second
  half of `net_lwip_dns_recv_cb`): the next `dns_run` then clears the require without a callback.
- `GivesUpExhausted` counts any answer with the identifier of the process as the answer to its
  question; the late answer to an IPv6 question that timed out is one.
- `AllDoneMeansEnd` and the theorems of `YmodemProofs`: `MidBytes` holds neither EOT nor CAN (`TrueMids`), that
  is, no chunk that begins inside a frame begins with one of these two bytes. CAN there
  resets the handler and sets `all_done`; EOT there is taken for the end of the file in states 2 and 3 only.
- `FileArrives`: `spoilt`, an acknowledgement is lost or the sender gives up. After a lost ACK the sender
  repeats a block the receiver has already counted, which it refuses each time.
- `TxEnds`: not when `network_listen`, which does not reset `tx_size` and `ack_size`, found them different (`leftover`; the ctrl may be a
  listener or the client that a listener became), and not when
  the connection was lost between `network_tx`'s look at `need_close` and its lock. Without either of the two it is
  violated: `network_tx` waits for sums that never meet, or for an event that has been.
- `Attended`, `SessionIsReal`, `Framed`, `AttemptEnds`: not `astray`; `SessionIsReal` and `Framed` not
  `cut` or `misread` either. All three happen in the code: a packet of 65536 bytes or more is taken for a short one
  and the rest of it for packets; an attempt gone astray can leave a client that
  nobody connects again (run `stuck` is the shortest such behaviour); and a buffer that another thread emptied
  makes the parser start inside a packet.
- `MqttFramed` and `MqttSession`: the application does not have the priority of the lwIP thread (`AppIsApart`; 10 and 26 in the
  example). Two threads of one priority take turns, and TLC then finds `Framed` violated: a close by the
  application has emptied the buffer, the lwIP thread reads into it again, and before it parses what it read the
  application shuts the connection it is from.

## 6. Findings

Four runs show the code doing something else than its documentation says.

| Run | What happens |
| --- | --- |
| `lost` | the connection fails after `net_lwip_socket_disconnect` set `state` and before CLOSE is handled: `net_lwip_tcp_err_cb` clears the pcb and leaves no mark, the handler does nothing, `CLOSE_OK` is never sent and the slot stays in use for ever |
| `mailbox` | `net_lwip_socket_read_data` posts `RX_DONE` to a full mailbox under `SOCKET_LOCK` and `NW_LOCK`, while the lwIP thread waits for one of them |
| `names` | the answer to the look-up of an earlier `network_connect` is taken for the name of the current one |
| `stuck` | `network_connect` fails, `luat_mqtt_connect` takes `... < 0` for its result and then asks whether that is below 0: the state becomes `MQTT_STATE_SCONNECT`, 0 is returned, and nobody tries again, automatic reconnection or not |

More that the models contain and `PROJECT.json` lists as hazards: a listener whose socket fails
while the addresses of an earlier look-up are still there becomes a client of the next address
(and `dns_ip_cnt` grows with each failure of a listener, which is why `TypeOK` does not bound it); the tag of an event is
compared before `NW_LOCK`, so the event of a former socket can act on the new one;
`net_lwip_socket_clean` closes a healthy socket in slot 0; a pcb pool that is exhausted inside the
lwIP thread makes it wait for an `NW_LOCK` it holds; a second accept orphans the
first pcb; two threads that close one ctrl without `NW_LOCK` may post two CLOSEs, the second for the next
owner of the slot; a `LINK_UP` that was on its way fails the connection it meets in `WAIT_DNS`
or `CONNECTING`; `network_state_disconnecting` resets `wait_target_state` before the
result is named after it, so `network_close` gets `EV_NW_RESULT_EVENT` and ends by its timer;
`network_wait_rx` looks at `new_rx_flag` before its lock, and data that arrives in between
does not wake it; `network_listen` does not reset `tx_size` and `ack_size`.

In the YMODEM receiver: a chunk that begins inside a frame with the data byte 0x18 resets the
handler and sets `all_done`, which `luat_ymodem.h:20` keeps for a stop or cancel frame.

In the MQTT client: `luat_mqtt_close_socket` inside the handling of a packet (its answer could not
be sent) resets `buffer_offset`, from which `mqtt_parse` then subtracts the length of the packet;
`mqtt_state = MQTT_STATE_SCONNECT` comes after `network_connect` and may replace what its result
has set; the close of one thread empties the buffer, or stops the ping timer, of the connection another
has made meanwhile; a close that finds `MQTT_STATE_DISCONNECT` empties the buffer and returns, and
leaves a connection that another thread is about to close, or has replaced, to be parsed from
the middle of a packet; `luat_mqtt_connect` itself, unlike `luat_mqtt_reconnect`, does not empty
the buffer; `mqtt_parse_rem_len` (`libemqtt.c:62`) computes the remaining length in 16 bits, and a packet of 65536 bytes or more,
which `luat_mqtt_read_packet` would refuse as too big for its buffer of 8192, is taken for a short one instead.

In the DNS client: `net_lwip_dns_tx_next` reads `dns_server[i]` with an `i` that `dns_run` sets only
when it asks a question (after a process that gave up it is not set); a require for a
name being looked up joins that process whatever family it asked for.

## 7. Plan

Done: the socket table, the streams, the controller, the DNS client, the YMODEM receiver, the MQTT
client, and the theorems of section 4.

Next, extending the models:

1. `MqttClient` over `NetCtrl`: its `conn` as that of a ctrl with a `user_callback`, names included.
   An HTTP client over the same ctrl (retry, ranges).
2. A composition of `DnsClient` with `NetCtrl` in place of `DnsAnswer`, which also brings
   the ownership of the address list.
3. Allocation and release of ctrls while a callback waits; `user_callback`; UDP in
   `SocketStream`.
4. An abstract `Connection` (closed, opening, open, closing) implemented by
   `SocketTable` for each ctrl, and by `NetCtrl`.
5. Firmware update: the order of erase, write and verify across resets.

Then, proving more:

1. `SocketTable` and `NetCtrl` implement `Connection`, once it is stated.
2. What a second accept leaves of the calm invariants: those about slots without a listener.

Runs worth having: second accepts, cleaning with a healthy socket in slot 0, the event of a former
socket, the listener that becomes a client, the cancelling data byte, the wrap
of `buffer_offset`, each about the sentence of the documentation it contradicts.
