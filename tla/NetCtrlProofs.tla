---------------------------- MODULE NetCtrlProofs ----------------------------
(***************************************************************************)
(* Theorems about NetCtrl, for every length of the task's queue and every  *)
(* bound: the types of its variables, that no socket is left without an    *)
(* owner, that a wait gets one result, and that a successful               *)
(* network_connect or network_listen has a connection.                     *)
(***************************************************************************)
EXTENDS NetCtrl, SequenceTheorems, TLAPS

Results == [id : Waits \union {"TIMEOUT", "BREAK"}, ok : BOOLEAN]

-----------------------------------------------------------------------------
(* The inductive invariant *)

Flags ==
    /\ need_close \in BOOLEAN /\ new_rx_flag \in BOOLEAN /\ auto_mode \in BOOLEAN
    /\ is_server_mode \in BOOLEAN /\ by_name \in BOOLEAN
    /\ timer \in BOOLEAN /\ crossed \in BOOLEAN /\ link \in BOOLEAN
    /\ leftover \in BOOLEAN /\ lost \in BOOLEAN

Counters ==
    /\ tx_size \in 0 .. MaxTx /\ ack_size \in 0 .. MaxTx /\ unacked \in 0 .. MaxTx
    /\ attempt \in 0 .. MaxConnect /\ flips \in 0 .. MaxLink
    /\ dns_ip_cnt \in Nat /\ dns_ip_nums \in 0 .. MAX_DNS_IP
    /\ dns \subseteq 1 .. attempt

Control ==
    /\ state \in States /\ wait \in Waits
    /\ op \in Ops /\ step \in {"idle", "lock", "wait"}
    /\ cb \in [ev : Events, of : Nat, n : 0 .. MAX_DNS_IP]

QueueType == queue \in Seq(Results) /\ Len(queue) <= QUEUE_LEN

\* the address the ctrl connects to is one of the name's, and names come from
\* network_connect
Addressed ==
    /\ state = "CONNECTING" /\ wait = "CONNECT" /\ by_name /\ ~is_server_mode
            => dns_ip_cnt < dns_ip_nums
    /\ state = "WAIT_DNS" \/ dns_ip_nums # 0 => attempt # 0

\* the sends of the ctrl are acknowledged or still to be, and an event TX_OK on its
\* way to a ctrl on line is not yet in ack_size
Accounts ==
    /\ ack_size <= tx_size
    /\ sock # 0 => ack_size + unacked <= tx_size
    /\ state = "ONLINE" /\ cb.ev = "TX_OK" => ack_size + unacked + 1 <= tx_size
    /\ step = "lock" /\ op = "tx" => tx_size < MaxTx

\* the sockets: numbers are used in order, only that of the ctrl is open, and it is
\* that of the tag
Sockets ==
    /\ conn \in [1 .. MaxSock -> ConnStates]
    /\ last_sock \in 0 .. MaxSock
    /\ tag \in 0 .. last_sock
    /\ sock \in {0, tag}
    /\ \A s \in 1 .. MaxSock :
          /\ s > last_sock => conn[s] = "none"
          /\ conn[s] \notin {"none", "closing", "closed"} => s = sock

\* what the state says of the socket
Holds ==
    /\ state \in {"ONLINE", "LISTEN"} => sock # 0
    /\ state = "CONNECTING" /\ wait = "CONNECT" => sock # 0
    /\ state = "ONLINE" => wait # "CONNECT"
    /\ sock # 0 /\ state # "DISCONNECTING" => conn[sock] \notin {"none", "closing", "closed"}

\* what an operation has seen before NW_LOCK, or done, and still holds
Seen ==
    /\ step = "lock" /\ op = "connect" =>
          /\ attempt < MaxConnect /\ sock = 0
          /\ state \in {"LINK_OFF", "OFF_LINE"} /\ wait # "CONNECT"
    /\ step = "lock" /\ op \in {"listen", "wait_link_up"} /\ state = "DISCONNECTING"
          => sock = 0
    /\ step = "wait" /\ op = "close" => state \in {"DISCONNECTING", "OFF_LINE"}
    /\ wait = "CONNECT" /\ ~is_server_mode => attempt # 0

\* an event on its way is that of a socket there was; CONNECT_OK of the ctrl's own
\* comes when that is connected
Delivered ==
    /\ cb.ev \in SocketEvents => cb.of \in 1 .. last_sock
    /\ cb.ev = "CONNECT_OK" /\ cb.of = tag
          => conn[tag] \notin {"none", "opening", "binding", "listening"}

Posted == {"LINK", "CONNECT", "TX"}

\* who waits, and what the queue holds for it
Waited == ~crossed /\ wait \in Posted => step = "wait" /\ Wanted(op, wait)

Queued ==
    ~crossed => \A i \in 1 .. Len(queue) :
        queue[i].id \in Posted =>
            /\ step = "wait" /\ Wanted(op, queue[i].id)
            /\ wait # queue[i].id
            /\ \A j \in i + 1 .. Len(queue) : queue[j].id # queue[i].id

Connected == state = "ONLINE" /\ sock # 0 /\ conn[sock] \in {"up", "fin", "failed"}

\* a success of network_connect is in the queue of a ctrl that is connected
Successes ==
    \A i \in 1 .. Len(queue) :
        /\ queue[i].id = "TIMEOUT" => ~queue[i].ok
        /\ ~crossed /\ queue[i].id = "CONNECT" /\ queue[i].ok => Connected

IInv ==
    /\ Flags /\ Counters /\ Control /\ QueueType
    /\ Addressed /\ Accounts /\ Sockets /\ Holds /\ Seen /\ Delivered
    /\ Waited /\ Queued /\ Successes

LEMMA InvTypeOK == IInv => TypeOK
<1> SUFFICES ASSUME IInv PROVE TypeOK
    OBVIOUS
<1>1. {sock, tag, last_sock} \subseteq 0 .. MaxSock
      BY CtrlAssumption DEF IInv, Sockets
<1>2. {need_close, new_rx_flag, auto_mode, is_server_mode, by_name, timer, link} \union
      {crossed, leftover, lost} \subseteq BOOLEAN
      BY DEF IInv, Flags
<1>3. {tx_size, ack_size, unacked} \subseteq 0 .. MaxTx
      BY DEF IInv, Counters
<1>4. queue \in Seq([id : Waits \union {"TIMEOUT", "BREAK"}, ok : BOOLEAN])
      BY DEF IInv, QueueType, Results
<1>5. /\ state \in States /\ wait \in Waits
      /\ op \in Ops /\ step \in {"idle", "lock", "wait"}
      /\ cb \in [ev : Events, of : Nat, n : 0 .. MAX_DNS_IP]
      BY DEF IInv, Control
<1>6. /\ dns_ip_cnt \in Nat /\ dns_ip_nums \in 0 .. MAX_DNS_IP
      /\ dns \subseteq 1 .. attempt /\ attempt \in 0 .. MaxConnect
      /\ flips \in 0 .. MaxLink
      BY DEF IInv, Counters
<1>7. state = "CONNECTING" /\ wait = "CONNECT" /\ by_name /\ ~is_server_mode
            => dns_ip_cnt < dns_ip_nums
      BY DEF IInv, Addressed
<1>8. Len(queue) <= QUEUE_LEN /\ conn \in [1 .. MaxSock -> ConnStates]
      BY DEF IInv, QueueType, Sockets
<1> QED BY <1>1, <1>2, <1>3, <1>4, <1>5, <1>6, <1>7, <1>8 DEF TypeOK

LEMMA InvNoLeak == IInv => NoSocketLeak
BY DEF IInv, Sockets, NoSocketLeak

LEMMA InvOneResult == IInv => OneResultPerWait
BY DEF IInv, Queued, Posted, OneResultPerWait

LEMMA InitInv == Init => IInv
<1> SUFFICES ASSUME Init PROVE IInv
    OBVIOUS
<1>1. Flags BY DEF Init, Flags
<1>2. Counters BY CtrlAssumption DEF Init, Counters
<1>3. Control BY CtrlAssumption DEF Init, Control, States, Waits, Ops, NoCb, Events
<1>4. QueueType /\ Queued /\ Successes
      BY CtrlAssumption DEF Init, QueueType, Queued, Successes
<1>5. Addressed /\ Accounts /\ Holds /\ Seen /\ Waited
      BY CtrlAssumption DEF Init, Addressed, Accounts, Holds, Seen, Waited, Posted, NoCb
<1>6. Sockets BY CtrlAssumption DEF Init, Sockets, ConnStates
<1>7. Delivered BY DEF Init, Delivered, NoCb, SocketEvents
<1> QED BY <1>1, <1>2, <1>3, <1>4, <1>5, <1>6, <1>7 DEF IInv

-----------------------------------------------------------------------------
(* What keeps a part of the invariant *)

LEMMA TypesKept ==
    ASSUME IInv,
           UNCHANGED <<state, cb, dns_ip_cnt, dns_ip_nums, tx_size, ack_size, unacked, attempt,
                       flips, dns, need_close, new_rx_flag, is_server_mode, by_name, link>>,
           leftover' \in BOOLEAN, lost' \in BOOLEAN
    PROVE  /\ Counters'
           /\ (auto_mode \in BOOLEAN /\ timer \in BOOLEAN /\ crossed \in BOOLEAN)' => Flags'
           /\ (wait \in Waits /\ op \in Ops /\ step \in {"idle", "lock", "wait"})' => Control'
<1>1. Counters' BY DEF IInv, Counters
<1>2. (auto_mode \in BOOLEAN /\ timer \in BOOLEAN /\ crossed \in BOOLEAN)' => Flags'
      BY DEF IInv, Flags
<1>3. (wait \in Waits /\ op \in Ops /\ step \in {"idle", "lock", "wait"})' => Control'
      BY DEF IInv, Control
<1> QED BY <1>1, <1>2, <1>3

LEMMA SocketsKept ==
    ASSUME IInv, UNCHANGED <<sock, tag, conn, last_sock>>
    PROVE  Sockets' /\ (UNCHANGED cb => Delivered')
BY DEF IInv, Sockets, Delivered

\* The first result is taken from the queue: the others move up.
LEMMA TailFacts ==
    ASSUME QueueType, queue # <<>>
    PROVE  /\ Head(queue) = queue[1] /\ Head(queue) \in Results
           /\ Len(queue) \in Nat \ {0}
           /\ Tail(queue) \in Seq(Results)
           /\ Len(Tail(queue)) = Len(queue) - 1
           /\ \A i \in 1 .. Len(Tail(queue)) :
                 i + 1 \in 2 .. Len(queue) /\ Tail(queue)[i] = queue[i + 1]
           /\ \A i \in 1 .. Len(Tail(queue)) : \A j \in i + 1 .. Len(Tail(queue)) :
                 /\ j + 1 \in i + 2 .. Len(queue) /\ j \in 1 .. Len(Tail(queue))
                 /\ Tail(queue)[j] = queue[j + 1]
<1>1. queue \in Seq(Results) BY DEF QueueType
<1>2. /\ Head(queue) = queue[1] /\ Head(queue) \in Results /\ Tail(queue) \in Seq(Results)
      /\ Len(Tail(queue)) = Len(queue) - 1
      /\ \A i \in 1 .. Len(Tail(queue)) : Tail(queue)[i] = queue[i + 1]
      BY <1>1, HeadTailProperties
<1>3. Len(queue) \in Nat \ {0} BY <1>1, EmptySeq, LenProperties
<1> QED BY <1>2, <1>3

\* A result is added to the queue.
LEMMA AppendFacts ==
    ASSUME QueueType, NEW e \in Results, Len(queue) < QUEUE_LEN, queue' = Append(queue, e)
    PROVE  /\ QueueType'
           /\ Len(queue) \in Nat /\ Len(queue') = Len(queue) + 1
           /\ \A i \in 1 .. Len(queue) : queue'[i] = queue[i]
           /\ queue'[Len(queue) + 1] = e
<1>1. queue \in Seq(Results) BY DEF QueueType
<1>2. /\ queue' \in Seq(Results) /\ Len(queue') = Len(queue) + 1
      /\ \A i \in 1 .. Len(queue) : queue'[i] = queue[i]
      /\ queue'[Len(queue) + 1] = e
      BY <1>1, AppendProperties
<1>3. Len(queue) \in Nat BY <1>1, LenProperties
<1> QED BY <1>2, <1>3, CtrlAssumption DEF QueueType

-----------------------------------------------------------------------------
(* The API *)

LEMMA BeginOpStep ==
    ASSUME IInv, NEW o \in Ops \ {"none"}, BeginOp(o)
    PROVE  IInv'
<1>1. /\ UNCHANGED <<ctrlVars, netVars, pastVars, timer, queue, crossed, cb>>
      /\ step = "idle" /\ op' = o /\ step' = "lock" /\ MayBegin(o)
      /\ o = "tx" => tx_size < MaxTx
      /\ o = "connect" => attempt < MaxConnect
      BY DEF BeginOp
<1> USE DEF ctrlVars, netVars, pastVars
<1>2. Flags' /\ Counters' /\ Control' BY <1>1, TypesKept DEF IInv, Flags, Control
<1>3. QueueType' /\ Addressed' BY <1>1 DEF IInv, QueueType, Addressed
<1>4. Accounts' BY <1>1 DEF IInv, Accounts
<1>5. Sockets' /\ Delivered' BY <1>1, SocketsKept
<1>6. Holds' BY <1>1 DEF IInv, Holds
<1>7. Seen' BY <1>1 DEF IInv, Seen, MayBegin
<1>8. Waited' BY <1>1 DEF IInv, Waited
<1>9. Queued' BY <1>1 DEF IInv, Queued
<1>10. Successes' BY <1>1 DEF IInv, Successes, Connected
<1> QED BY <1>2, <1>3, <1>4, <1>5, <1>6, <1>7, <1>8, <1>9, <1>10 DEF IInv

LEMMA DataIsThereStep ==
    ASSUME IInv, DataIsThere
    PROVE  IInv'
<1>1. /\ UNCHANGED <<state, sock, tag, need_close, new_rx_flag, auto_mode, is_server_mode,
                     by_name, dns_ip_cnt, dns_ip_nums, tx_size, ack_size, appVars, netVars, cb,
                     pastVars>>
      /\ step = "idle" /\ wait' = "EVENT"
      BY DEF DataIsThere
<1> USE DEF appVars, netVars, pastVars
<1>2. Flags' /\ Counters' /\ Control' BY <1>1, TypesKept DEF IInv, Flags, Control, Waits
<1>3. QueueType' /\ Addressed' BY <1>1 DEF IInv, QueueType, Addressed
<1>4. Accounts' BY <1>1 DEF IInv, Accounts
<1>5. Sockets' /\ Delivered' BY <1>1, SocketsKept
<1>6. Holds' /\ Seen' BY <1>1 DEF IInv, Holds, Seen
<1>7. Waited' /\ Queued' BY <1>1 DEF IInv, Waited, Queued, Posted
<1>8. Successes' BY <1>1 DEF IInv, Successes, Connected
<1> QED BY <1>2, <1>3, <1>4, <1>5, <1>6, <1>7, <1>8 DEF IInv

LEMMA TimerFiresStep ==
    ASSUME IInv, TimerFires
    PROVE  IInv'
<1> DEFINE e == [id |-> "TIMEOUT", ok |-> FALSE]
<1>1. /\ UNCHANGED <<ctrlVars, netVars, pastVars, op, step, crossed, cb>>
      /\ timer' = FALSE /\ Len(queue) < QUEUE_LEN /\ queue' = Append(queue, e)
      BY DEF TimerFires
<1> USE DEF ctrlVars, netVars, pastVars
<1>2. Flags' /\ Counters' /\ Control' BY <1>1, TypesKept DEF IInv, Flags, Control
<1>3. e \in Results /\ e.id = "TIMEOUT" /\ ~e.ok BY DEF Results
<1>4. /\ QueueType'
      /\ Len(queue) \in Nat /\ Len(queue') = Len(queue) + 1
      /\ \A i \in 1 .. Len(queue) : queue'[i] = queue[i]
      /\ queue'[Len(queue) + 1] = e
      BY <1>1, <1>3, AppendFacts DEF IInv
<1>5. Addressed' /\ Accounts' BY <1>1 DEF IInv, Addressed, Accounts
<1>6. Sockets' /\ Delivered' BY <1>1, SocketsKept
<1>7. Holds' /\ Seen' /\ Waited' BY <1>1 DEF IInv, Holds, Seen, Waited
<1> HIDE DEF e
<1>8. Queued' BY <1>1, <1>3, <1>4 DEF IInv, Queued, Posted
<1>9. Successes' BY <1>1, <1>3, <1>4 DEF IInv, Successes, Connected
<1> QED BY <1>2, <1>4, <1>5, <1>6, <1>7, <1>8, <1>9 DEF IInv

LEMMA BreakWaitStep ==
    ASSUME IInv, BreakWait
    PROVE  IInv'
<1> DEFINE e == [id |-> "BREAK", ok |-> TRUE]
<1>1. /\ UNCHANGED <<ctrlVars, netVars, pastVars, op, step, timer, crossed, cb>>
      /\ queue' = <<e>>
      BY DEF BreakWait
<1> USE DEF ctrlVars, netVars, pastVars
<1>2. Flags' /\ Counters' /\ Control' BY <1>1, TypesKept DEF IInv, Flags, Control
<1>3. e \in Results /\ e.id = "BREAK" BY DEF Results
<1>4. QueueType' /\ Len(queue') = 1 /\ queue'[1] = e
      BY <1>1, <1>3, CtrlAssumption DEF QueueType
<1>5. Addressed' /\ Accounts' BY <1>1 DEF IInv, Addressed, Accounts
<1>6. Sockets' /\ Delivered' BY <1>1, SocketsKept
<1>7. Holds' /\ Seen' /\ Waited' BY <1>1 DEF IInv, Holds, Seen, Waited
<1> HIDE DEF e
<1>8. Queued' /\ Successes' BY <1>3, <1>4 DEF Queued, Posted, Successes
<1> QED BY <1>2, <1>4, <1>5, <1>6, <1>7, <1>8 DEF IInv

\* What is left in the queue when its first result is taken is still what the
\* invariant says, if the operation goes on.
LEMMA TailKept ==
    ASSUME IInv, queue # <<>>, queue' = Tail(queue), UNCHANGED <<op, step>>,
           crossed => crossed', wait' \in {wait, "EVENT"},
           UNCHANGED <<state, sock, conn>>
    PROVE  QueueType' /\ Queued' /\ Successes'
<1>1. /\ Len(queue') = Len(queue) - 1 /\ Len(queue) \in Nat
      /\ queue' \in Seq(Results)
      /\ \A i \in 1 .. Len(queue') :
            i + 1 \in 2 .. Len(queue) /\ queue'[i] = queue[i + 1]
      /\ \A i \in 1 .. Len(queue') : \A j \in i + 1 .. Len(queue') :
            j + 1 \in i + 2 .. Len(queue) /\ queue'[j] = queue[j + 1]
      BY TailFacts DEF IInv
<1>2. QueueType' BY <1>1, CtrlAssumption DEF IInv, QueueType
<1>3. Queued'
  <2> SUFFICES ASSUME ~crossed', NEW i \in 1 .. Len(queue'), queue'[i].id \in Posted
               PROVE  /\ step' = "wait" /\ Wanted(op, queue[i].id)'
                      /\ wait' # queue'[i].id
                      /\ \A j \in i + 1 .. Len(queue') : queue'[j].id # queue'[i].id
      BY DEF Queued
  <2>1. i + 1 \in 1 .. Len(queue) /\ queue'[i] = queue[i + 1] /\ ~crossed BY <1>1
  <2>2. /\ step = "wait" /\ Wanted(op, queue[i + 1].id) /\ wait # queue[i + 1].id
        /\ \A j \in i + 2 .. Len(queue) : queue[j].id # queue[i + 1].id
        BY <2>1 DEF IInv, Queued
  <2>3. wait' # queue'[i].id BY <2>1, <2>2 DEF Posted
  <2>4. \A j \in i + 1 .. Len(queue') : queue'[j].id # queue'[i].id
        BY <1>1, <2>1, <2>2
  <2> QED BY <2>1, <2>2, <2>3, <2>4 DEF Wanted
<1>4. Successes' BY <1>1 DEF IInv, Successes, Connected
<1> QED BY <1>2, <1>3, <1>4

LEMMA DropEventStep ==
    ASSUME IInv, DropEvent
    PROVE  IInv'
<1>1. /\ UNCHANGED <<ctrlVars, netVars, pastVars, op, step, timer, crossed, cb>>
      /\ queue # <<>> /\ queue' = Tail(queue)
      BY DEF DropEvent
<1> USE DEF ctrlVars, netVars, pastVars
<1>2. Flags' /\ Counters' /\ Control' BY <1>1, TypesKept DEF IInv, Flags, Control
<1>3. QueueType' /\ Queued' /\ Successes' BY <1>1, TailKept
<1>4. Addressed' /\ Accounts' BY <1>1 DEF IInv, Addressed, Accounts
<1>5. Sockets' /\ Delivered' BY <1>1, SocketsKept
<1>6. Holds' /\ Seen' /\ Waited' BY <1>1 DEF IInv, Holds, Seen, Waited
<1> QED BY <1>2, <1>3, <1>4, <1>5, <1>6 DEF IInv

\* The socket the ctrl holds is closed, or closing already: then none is open.
LEMMA ReleasedFacts ==
    ASSUME IInv
    PROVE  /\ Released \in [1 .. MaxSock -> ConnStates]
           /\ \A s \in 1 .. MaxSock :
                 /\ Released[s] \in {"none", "closing", "closed"}
                 /\ s > last_sock => Released[s] = "none"
                 /\ Released[s] \in {conn[s], "closed"}
<1>1. DOMAIN conn = 1 .. MaxSock BY DEF IInv, Sockets
<1>2. last_sock \in Nat /\ sock \in Nat /\ sock <= last_sock
      BY DEF IInv, Sockets
<1>3. ASSUME NEW s \in 1 .. MaxSock
      PROVE  /\ Released[s] \in ConnStates
             /\ Released[s] \in {"none", "closing", "closed"}
             /\ s > last_sock => Released[s] = "none"
             /\ Released[s] \in {conn[s], "closed"}
  <2>1. Released[s] = IF s = sock /\ conn[s] # "closing" THEN "closed" ELSE conn[s]
        BY <1>1 DEF Released
  <2>2. /\ conn[s] \in ConnStates
        /\ s > last_sock => conn[s] = "none"
        /\ conn[s] \notin {"none", "closing", "closed"} => s = sock
        BY DEF IInv, Sockets
  <2> QED BY <1>2, <2>1, <2>2 DEF ConnStates
<1> QED BY <1>1, <1>3 DEF Released

\* When an operation takes the result that ends it, it leaves none of its own behind,
\* unless it was a timeout.
LEMMA LastResult ==
    ASSUME IInv, step = "wait", queue # <<>>, ~crossed,
           Ends(Head(queue)) \/ op = "wait_event",
           Head(queue).id = "TIMEOUT" => op \in {"wait_rx", "wait_event"}
    PROVE  /\ wait \notin Posted
           /\ \A i \in 2 .. Len(queue) : queue[i].id \notin Posted
<1>1. /\ Head(queue) = queue[1] /\ Head(queue) \in Results /\ Len(queue) \in Nat \ {0}
      BY TailFacts DEF IInv
<1>2. wait \in Posted => Wanted(op, wait) BY DEF IInv, Waited
<1>3. \A i \in 1 .. Len(queue) :
         queue[i].id \in Posted =>
            /\ Wanted(op, queue[i].id) /\ wait # queue[i].id
            /\ \A j \in i + 1 .. Len(queue) : queue[j].id # queue[i].id
      BY DEF IInv, Queued
<1>4. CASE op \notin {"wait_link_up", "connect", "listen", "tx"}
  <2>1. \A id \in Posted : ~Wanted(op, id) BY <1>4 DEF Wanted, Posted
  <2> QED BY <1>2, <1>3, <2>1, <1>1
<1>5. CASE op \in {"wait_link_up", "connect", "listen", "tx"}
  <2>1. Wanted(op, queue[1].id) BY <1>1, <1>5 DEF Ends
  <2>2. queue[1].id \in Posted BY <1>5, <2>1 DEF Wanted, Posted
  <2>3. \A id \in Posted : Wanted(op, id) => id = queue[1].id
        BY <1>5, <2>1 DEF Wanted, Posted
  <2>4. /\ wait # queue[1].id
        /\ \A j \in 2 .. Len(queue) : queue[j].id # queue[1].id
        BY <1>1, <1>3, <2>2
  <2>5. \A j \in 2 .. Len(queue) : queue[j].id \notin Posted
        BY <1>1, <1>3, <2>3, <2>4
  <2> QED BY <1>2, <2>3, <2>4, <2>5
<1> QED BY <1>4, <1>5

LEMMA TakeEventStep ==
    ASSUME IInv, TakeEvent
    PROVE  IInv'
<1> DEFINE e == Head(queue)
<1>1. /\ step = "wait" /\ queue # <<>> /\ queue' = Tail(queue)
      /\ wait' = IF op = "wait_rx" THEN "EVENT" ELSE wait
      /\ UNCHANGED <<state, tag, need_close, new_rx_flag, auto_mode, is_server_mode, by_name,
                     dns_ip_cnt, dns_ip_nums, tx_size, ack_size, last_sock, unacked, dns,
                     attempt, link, flips, cb, pastVars>>
      BY DEF TakeEvent
<1>2. wait' \in Waits /\ wait' \in {wait, "EVENT"} BY <1>1 DEF IInv, Control, Waits
<1>3. CASE ~Ends(e) /\ UNCHANGED <<step, op, timer, crossed, sock, conn>>
  <2>1. Flags' /\ Counters' /\ Control' BY <1>1, <1>2, <1>3, TypesKept DEF IInv, Flags, Control, pastVars
  <2>2. QueueType' /\ Queued' /\ Successes' BY <1>1, <1>2, <1>3, TailKept
  <2>3. Sockets' /\ Delivered' BY <1>1, <1>3, SocketsKept
  <2>4. Addressed' /\ Accounts' BY <1>1, <1>3 DEF IInv, Addressed, Accounts
  <2>5. Holds' /\ Seen' BY <1>1, <1>2, <1>3 DEF IInv, Holds, Seen
  <2>6. Waited' BY <1>1, <1>3 DEF IInv, Waited, Posted, Wanted
  <2> QED BY <2>1, <2>2, <2>3, <2>4, <2>5, <2>6 DEF IInv
<1>4. CASE /\ Ends(e) \/ op = "wait_event"
           /\ step' = "idle" /\ op' = "none" /\ timer' = FALSE
           /\ crossed' = (crossed \/ (e.id = "TIMEOUT" /\ op \notin {"wait_rx", "wait_event"}))
           /\ IF op = "close" THEN sock' = 0 /\ conn' = Released ELSE UNCHANGED <<sock, conn>>
  <2>1. (auto_mode \in BOOLEAN /\ timer \in BOOLEAN /\ crossed \in BOOLEAN)'
        BY <1>1, <1>4 DEF IInv, Flags
  <2>2. Flags' /\ Counters' /\ Control'
        BY <1>1, <1>2, <1>4, <2>1, TypesKept DEF Ops, IInv, Flags, pastVars
  <2>3. /\ QueueType'
        /\ Len(queue) \in Nat
        /\ \A i \in 1 .. Len(queue') : i + 1 \in 2 .. Len(queue) /\ queue'[i] = queue[i + 1]
    <3>1. /\ Len(queue') = Len(queue) - 1 /\ Len(queue) \in Nat
          /\ queue' \in Seq(Results)
          /\ \A i \in 1 .. Len(queue') : i + 1 \in 2 .. Len(queue) /\ queue'[i] = queue[i + 1]
          BY <1>1, TailFacts DEF IInv
    <3> QED BY <3>1, CtrlAssumption DEF IInv, QueueType
  <2>4. ~crossed' => /\ wait' \notin Posted
                     /\ \A i \in 1 .. Len(queue') : queue'[i].id \notin Posted
    <3> SUFFICES ASSUME ~crossed'
                 PROVE  /\ wait' \notin Posted
                        /\ \A i \in 1 .. Len(queue') : queue'[i].id \notin Posted
        OBVIOUS
    <3>1. ~crossed /\ (e.id = "TIMEOUT" => op \in {"wait_rx", "wait_event"})
          BY <1>4
    <3>2. /\ wait \notin Posted
          /\ \A i \in 2 .. Len(queue) : queue[i].id \notin Posted
          BY <1>1, <1>4, <3>1, LastResult
    <3> QED BY <1>2, <2>3, <3>2 DEF Posted
  <2>5. Waited' /\ Queued' BY <2>4 DEF Waited, Queued
  <2>6. Successes' BY <2>3, <2>4 DEF IInv, Successes, Posted
  <2>7. Sockets' BY <1>1, <1>4, ReleasedFacts DEF IInv, Sockets
  <2>8. Delivered'
    <3> SUFFICES ASSUME cb.ev = "CONNECT_OK", cb.of = tag, op = "close"
                 PROVE  conn'[tag] \notin {"none", "opening", "binding", "listening"}
        BY <1>1, <1>4 DEF IInv, Delivered
    <3>1. tag \in 1 .. MaxSock BY CtrlAssumption DEF IInv, Delivered, Sockets, SocketEvents
    <3> QED BY <1>4, <3>1, ReleasedFacts DEF IInv, Delivered
  <2>9. Addressed' /\ Accounts' BY <1>1, <1>4 DEF IInv, Addressed, Accounts
  <2>10. Holds' /\ Seen' BY <1>1, <1>2, <1>4 DEF IInv, Holds, Seen
  <2> QED BY <2>2, <2>3, <2>5, <2>6, <2>7, <2>8, <2>9, <2>10 DEF IInv
<1> QED BY <1>3, <1>4 DEF TakeEvent

\* A socket is opened in place of the one the ctrl holds, which is closed.
LEMMA BaseConnectFacts ==
    ASSUME IInv, NEW server \in BOOLEAN, NEW ok \in BOOLEAN, BaseConnect(server, ok)
    PROVE  /\ Sockets'
           /\ tag' \in Nat /\ (tag' = 0 \/ tag' > last_sock)
           /\ last_sock' \in Nat /\ last_sock <= last_sock'
           /\ unacked' = 0
           /\ ok => sock' # 0
           /\ ~ok /\ ~server => sock' = 0
           /\ sock' # 0 => conn'[sock'] \notin {"none", "closing", "closed"}
<1>1. /\ last_sock \in 0 .. MaxSock /\ MaxSock \in Nat
      BY CtrlAssumption DEF IInv, Sockets
<1>2. unacked' = 0 BY DEF BaseConnect
<1>3. ASSUME NEW x \in {"opening", "binding", "failed", "closed"},
             last_sock < MaxSock, last_sock' = last_sock + 1, tag' = last_sock',
             sock' = IF x = "closed" THEN 0 ELSE last_sock',
             conn' = [Released EXCEPT ![last_sock'] = x]
      PROVE  Sockets' /\ (sock' # 0 => conn'[sock'] \notin {"none", "closing", "closed"})
  <2>1. last_sock' \in 1 .. MaxSock /\ x \in ConnStates BY <1>1, <1>3 DEF ConnStates
  <2>2. /\ conn' \in [1 .. MaxSock -> ConnStates]
        /\ \A s \in 1 .. MaxSock : conn'[s] = IF s = last_sock' THEN x ELSE Released[s]
        BY <1>3, <2>1, ReleasedFacts
  <2>3. sock' # 0 => conn'[sock'] = x BY <1>3, <2>1, <2>2
  <2>4. ASSUME NEW s \in 1 .. MaxSock
        PROVE  /\ s > last_sock' => conn'[s] = "none"
               /\ conn'[s] \notin {"none", "closing", "closed"} => s = sock'
    <3>1. CASE s = last_sock' BY <1>3, <2>1, <2>2, <3>1
    <3>2. CASE s # last_sock' BY <1>1, <1>3, <2>2, <3>2, ReleasedFacts
    <3> QED BY <3>1, <3>2
  <2>5. last_sock' \in 0 .. MaxSock /\ tag' \in 0 .. last_sock' /\ sock' \in {0, tag'}
        BY <1>1, <1>3, <2>1
  <2> QED BY <1>3, <2>2, <2>3, <2>4, <2>5 DEF Sockets
<1>4. CASE /\ last_sock < MaxSock
           /\ last_sock' = last_sock + 1 /\ tag' = last_sock'
           /\ \/ /\ ok
                 /\ sock' = last_sock'
                 /\ conn' = [Released EXCEPT ![sock'] = IF server THEN "binding" ELSE "opening"]
              \/ /\ ~ok
                 /\ sock' = IF server THEN last_sock' ELSE 0
                 /\ conn' = [Released EXCEPT
                               ![last_sock'] = IF server THEN "failed" ELSE "closed"]
  <2> DEFINE x == IF ok THEN IF server THEN "binding" ELSE "opening"
                  ELSE IF server THEN "failed" ELSE "closed"
  <2>1. /\ x \in {"opening", "binding", "failed", "closed"}
        /\ sock' = IF x = "closed" THEN 0 ELSE last_sock'
        /\ conn' = [Released EXCEPT ![last_sock'] = x]
        BY <1>4
  <2> HIDE DEF x
  <2>2. Sockets' /\ (sock' # 0 => conn'[sock'] \notin {"none", "closing", "closed"})
        BY <1>3, <1>4, <2>1
  <2> QED BY <1>1, <1>2, <1>4, <2>2
<1>5. CASE ~ok /\ tag' = 0 /\ sock' = 0 /\ conn' = Released /\ UNCHANGED last_sock
  <2>1. Sockets' BY <1>1, <1>5, ReleasedFacts DEF Sockets
  <2> QED BY <1>1, <1>2, <1>5, <2>1
<1> QED BY <1>4, <1>5 DEF BaseConnect

\* An event on its way is none of the new socket's.
LEMMA BaseConnectDelivered ==
    ASSUME IInv, NEW server \in BOOLEAN, NEW ok \in BOOLEAN, BaseConnect(server, ok),
           UNCHANGED cb
    PROVE  Delivered'
<1>1. cb.ev \in SocketEvents => cb.of \in 1 .. last_sock BY DEF IInv, Delivered
<1>2. "CONNECT_OK" \in SocketEvents BY DEF SocketEvents
<1>3. last_sock \in Nat BY CtrlAssumption DEF IInv, Sockets
<1> QED BY <1>1, <1>2, <1>3, BaseConnectFacts DEF Delivered

\* network_force_close_socket leaves no socket open.
LEMMA ForceCloseFacts ==
    ASSUME IInv, ForceCloseSocket, UNCHANGED <<tag, last_sock>>
    PROVE  /\ Sockets' /\ sock' = 0
           /\ UNCHANGED cb => Delivered'
<1>1. sock' = 0 /\ conn' = Released BY DEF ForceCloseSocket
<1>2. Sockets' BY <1>1, ReleasedFacts DEF IInv, Sockets
<1>3. ASSUME UNCHANGED cb PROVE Delivered'
  <2>1. "CONNECT_OK" \in SocketEvents BY DEF SocketEvents
  <2>2. cb.ev = "CONNECT_OK" /\ cb.of = tag => tag \in 1 .. MaxSock
        BY <2>1, CtrlAssumption DEF IInv, Delivered, Sockets
  <2> QED BY <1>1, <1>3, <2>2, ReleasedFacts DEF IInv, Delivered
<1> QED BY <1>1, <1>2, <1>3

\* After NW_LOCK an operation waits or has returned.
LEMMA EndOfOp ==
    ASSUME IInv, step = "lock", Wait \/ Return
    PROVE  /\ step' \in {"idle", "wait"} /\ op' \in {op, "none"}
           /\ step' = "wait" => op' = op
           /\ crossed => crossed'
           /\ Wait /\ ~crossed' => step' = "wait"
           /\ (timer \in BOOLEAN /\ crossed \in BOOLEAN)'
           /\ (op \in Ops /\ step \in {"idle", "lock", "wait"})'
<1>1. timer \in BOOLEAN /\ crossed \in BOOLEAN BY DEF IInv, Flags
<1>2. op \in Ops /\ "none" \in Ops BY DEF IInv, Control, Ops
<1>3. CASE Return BY <1>1, <1>2, <1>3 DEF Return, Wait
<1>4. CASE Wait BY <1>1, <1>2, <1>4 DEF Wait
<1> QED BY <1>3, <1>4

\* Before its wait an operation finds no result of its own, unless one was crossed.
LEMMA LockedQueue ==
    ASSUME IInv, step = "lock", UNCHANGED queue, crossed => crossed'
    PROVE  QueueType' /\ Queued' /\ Successes'
<1>1. QueueType' BY DEF IInv, QueueType
<1>2. Queued' BY DEF IInv, Queued
<1>3. ~crossed => \A i \in 1 .. Len(queue) : queue[i].id # "CONNECT"
      BY DEF IInv, Queued, Posted
<1>4. Successes' BY <1>3 DEF IInv, Successes
<1> QED BY <1>1, <1>2, <1>4

\* what every operation does under NW_LOCK
Locked ==
    /\ step = "lock" /\ auto_mode' = TRUE /\ UNCHANGED <<queue, cb>>
    /\ leftover' \in BOOLEAN /\ lost' \in BOOLEAN

LEMMA DoWaitLinkUpStep ==
    ASSUME IInv, Locked, DoWaitLinkUp
    PROVE  IInv'
<1>1. /\ step = "lock" /\ auto_mode' = TRUE /\ UNCHANGED <<queue, cb>>
      /\ leftover' \in BOOLEAN /\ lost' \in BOOLEAN
      /\ op = "wait_link_up"
      /\ UNCHANGED <<sock, tag, need_close, new_rx_flag, is_server_mode, by_name, dns_ip_cnt,
                     dns_ip_nums, tx_size, ack_size, netVars>>
      /\ \/ state' = "OFF_LINE" /\ wait' = "NONE" /\ Return
         \/ state' = "LINK_OFF" /\ wait' = "LINK" /\ Wait
      BY DEF Locked, DoWaitLinkUp
<1>2. /\ step' \in {"idle", "wait"} /\ op' \in {op, "none"}
      /\ step' = "wait" => op' = op
      /\ crossed => crossed'
      /\ Wait /\ ~crossed' => step' = "wait"
      /\ (timer \in BOOLEAN /\ crossed \in BOOLEAN)'
      /\ (op \in Ops /\ step \in {"idle", "lock", "wait"})'
      BY <1>1, EndOfOp
<1> USE DEF netVars
<1>3. Flags' BY <1>1, <1>2 DEF IInv, Flags
<1>4. Counters' BY <1>1 DEF IInv, Counters
<1>5. Control' BY <1>1, <1>2 DEF IInv, Control, States, Waits
<1>6. Addressed' BY <1>1 DEF IInv, Addressed
<1>7. Accounts' BY <1>1, <1>2 DEF IInv, Accounts
<1>8. Sockets' /\ Delivered' BY <1>1, SocketsKept
<1>9. Holds' BY <1>1 DEF IInv, Holds, Seen
<1>10. Seen' BY <1>1, <1>2 DEF Seen
<1>11. Waited' BY <1>1, <1>2 DEF Waited, Posted, Wanted
<1>12. QueueType' /\ Queued' /\ Successes' BY <1>1, <1>2, LockedQueue
<1> QED BY <1>3, <1>4, <1>5, <1>6, <1>7, <1>8, <1>9, <1>10, <1>11, <1>12 DEF IInv

LEMMA DoListenStep ==
    ASSUME IInv, Locked, DoListen
    PROVE  IInv'
<1>1. /\ step = "lock" /\ auto_mode' = TRUE /\ UNCHANGED <<queue, cb>>
      /\ leftover' \in BOOLEAN /\ lost' \in BOOLEAN
      /\ op = "listen"
      /\ need_close' = FALSE /\ is_server_mode' = TRUE
      /\ UNCHANGED <<new_rx_flag, by_name, dns_ip_cnt, dns_ip_nums, tx_size, ack_size, dns,
                     attempt, link, flips>>
      /\ \/ /\ state' = "LINK_OFF" /\ wait' = "CONNECT" /\ Wait
            /\ UNCHANGED <<sock, tag, conn, last_sock, unacked>>
         \/ /\ BaseConnect(TRUE, TRUE)
            /\ state' = "CONNECTING" /\ wait' = "CONNECT" /\ Wait
         \/ /\ BaseConnect(TRUE, FALSE)
            /\ state' = "OFF_LINE" /\ wait' = "NONE" /\ Return
      BY DEF Locked, DoListen
<1>2. /\ step' \in {"idle", "wait"} /\ op' \in {op, "none"}
      /\ step' = "wait" => op' = op
      /\ crossed => crossed'
      /\ Wait /\ ~crossed' => step' = "wait"
      /\ (timer \in BOOLEAN /\ crossed \in BOOLEAN)'
      /\ (op \in Ops /\ step \in {"idle", "lock", "wait"})'
      BY <1>1, EndOfOp
<1>3. /\ Sockets' /\ Delivered'
      /\ unacked' = 0 \/ UNCHANGED <<sock, unacked>>
      /\ state' = "CONNECTING" => sock' # 0
      /\ sock' # 0 => conn'[sock'] \notin {"none", "closing", "closed"}
  <2>1. CASE UNCHANGED <<sock, tag, conn, last_sock, unacked>> /\ state' = "LINK_OFF"
    <3>1. sock # 0 => state # "DISCONNECTING" BY <1>1 DEF IInv, Seen
    <3> QED BY <1>1, <2>1, <3>1, SocketsKept DEF IInv, Holds
  <2>2. CASE BaseConnect(TRUE, TRUE)
        BY <1>1, <2>2, BaseConnectFacts, BaseConnectDelivered
  <2>3. CASE BaseConnect(TRUE, FALSE) /\ state' = "OFF_LINE"
        BY <1>1, <2>3, BaseConnectFacts, BaseConnectDelivered
  <2> QED BY <1>1, <2>1, <2>2, <2>3
<1>4. Flags' BY <1>1, <1>2 DEF IInv, Flags
<1>5. Counters' BY <1>1, <1>3, CtrlAssumption DEF IInv, Counters
<1>6. Control' BY <1>1, <1>2 DEF IInv, Control, States, Waits
<1>7. Addressed' BY <1>1 DEF IInv, Addressed
<1>8. Accounts'
  <2>1. state' # "ONLINE" /\ step' # "lock" BY <1>1, <1>2
  <2>2. ack_size \in Nat /\ tx_size \in Nat BY CtrlAssumption DEF IInv, Counters
  <2> QED BY <1>1, <1>3, <2>1, <2>2 DEF IInv, Accounts
<1>9. Holds' /\ Seen' BY <1>1, <1>2, <1>3 DEF Holds, Seen
<1>10. Waited' BY <1>1, <1>2 DEF Waited, Posted, Wanted
<1>11. QueueType' /\ Queued' /\ Successes' BY <1>1, <1>2, LockedQueue
<1> QED BY <1>3, <1>4, <1>5, <1>6, <1>7, <1>8, <1>9, <1>10, <1>11 DEF IInv

LEMMA DoConnectStep ==
    ASSUME IInv, Locked, DoConnect
    PROVE  IInv'
<1>1. /\ step = "lock" /\ auto_mode' = TRUE /\ UNCHANGED <<queue, cb>>
      /\ leftover' \in BOOLEAN /\ lost' \in BOOLEAN
      /\ op = "connect"
      /\ attempt' = attempt + 1 /\ tx_size' = 0 /\ ack_size' = 0
      /\ need_close' = FALSE /\ is_server_mode' = FALSE /\ by_name' \in BOOLEAN
      /\ UNCHANGED <<new_rx_flag, dns_ip_cnt, dns_ip_nums, link, flips>>
      BY DEF Locked, DoConnect
<1>2. /\ attempt < MaxConnect /\ sock = 0
      /\ Wait \/ Return
      BY <1>1 DEF IInv, Seen, DoConnect
<1>3. /\ step' \in {"idle", "wait"} /\ op' \in {op, "none"}
      /\ step' = "wait" => op' = op
      /\ crossed => crossed'
      /\ Wait /\ ~crossed' => step' = "wait"
      /\ (timer \in BOOLEAN /\ crossed \in BOOLEAN)'
      /\ (op \in Ops /\ step \in {"idle", "lock", "wait"})'
      BY <1>1, <1>2, EndOfOp
<1>4. \/ /\ state' \in {"LINK_OFF", "WAIT_DNS"} /\ wait' = "CONNECT" /\ Wait
         /\ UNCHANGED <<sock, tag, conn, last_sock, unacked>>
         /\ dns' \in {dns, dns \union {attempt'}}
      \/ /\ BaseConnect(FALSE, TRUE) /\ UNCHANGED dns
         /\ by_name' = FALSE
         /\ state' = "CONNECTING" /\ wait' = "CONNECT" /\ Wait
      \/ /\ BaseConnect(FALSE, FALSE) /\ UNCHANGED dns
         /\ state' = "OFF_LINE" /\ wait' = "NONE" /\ Return
  <2>1. CASE ~link BY <2>1 DEF DoConnect
  <2>2. CASE PrepareConnect(by_name', TRUE) /\ wait' = "CONNECT" /\ Wait
        BY <1>1, <2>2 DEF PrepareConnect
  <2>3. CASE PrepareConnect(by_name', FALSE) /\ state' = "OFF_LINE" /\ wait' = "NONE" /\ Return
        BY <2>3 DEF PrepareConnect
  <2> QED BY <2>1, <2>2, <2>3 DEF DoConnect
<1>5. /\ Sockets' /\ Delivered'
      /\ unacked' \in {0, unacked} /\ (sock' # 0 => unacked' = 0)
      /\ state' = "CONNECTING" => sock' # 0
      /\ sock' # 0 => conn'[sock'] \notin {"none", "closing", "closed"}
  <2>1. CASE /\ UNCHANGED <<sock, tag, conn, last_sock, unacked>>
             /\ state' \in {"LINK_OFF", "WAIT_DNS"}
        BY <1>1, <1>2, <2>1, SocketsKept
  <2>2. CASE BaseConnect(FALSE, TRUE)
        BY <1>1, <2>2, BaseConnectFacts, BaseConnectDelivered
  <2>3. CASE BaseConnect(FALSE, FALSE) /\ state' = "OFF_LINE"
        BY <1>1, <2>3, BaseConnectFacts, BaseConnectDelivered
  <2> QED BY <1>4, <2>1, <2>2, <2>3
<1>6. Flags' BY <1>1, <1>3 DEF IInv, Flags
<1>7. Counters'
  <2>1. dns' \subseteq 1 .. attempt'
    <3>1. dns \subseteq 1 .. attempt /\ attempt \in Nat
          BY CtrlAssumption DEF IInv, Counters
    <3>2. \A q \in dns : q \in 1 .. attempt' BY <1>1, <3>1
    <3>3. attempt' \in 1 .. attempt' BY <1>1, <3>1
    <3> QED BY <1>4, <3>2, <3>3
  <2>2. /\ tx_size' \in 0 .. MaxTx /\ ack_size' \in 0 .. MaxTx /\ unacked' \in 0 .. MaxTx
        /\ attempt' \in 0 .. MaxConnect
        BY <1>1, <1>2, <1>5, CtrlAssumption DEF IInv, Counters
  <2> QED BY <1>1, <2>1, <2>2 DEF IInv, Counters
<1>8. Control' BY <1>1, <1>3, <1>4 DEF IInv, Control, States, Waits
<1>9. Addressed'
  <2>1. attempt' # 0 BY <1>1, CtrlAssumption DEF IInv, Counters
  <2> QED BY <1>4, <2>1 DEF Addressed
<1>10. Accounts'
  <2>1. state' # "ONLINE" /\ step' # "lock" BY <1>3, <1>4
  <2>2. tx_size' = 0 /\ ack_size' = 0 /\ (sock' # 0 => unacked' = 0) BY <1>1, <1>5
  <2> QED BY <2>1, <2>2 DEF Accounts
<1>11. Holds' /\ Seen'
  <2>1. attempt' # 0 BY <1>1, CtrlAssumption DEF IInv, Counters
  <2> QED BY <1>1, <1>3, <1>4, <1>5, <2>1 DEF Holds, Seen
<1>12. Waited' BY <1>1, <1>3, <1>4 DEF Waited, Posted, Wanted
<1>13. QueueType' /\ Queued' /\ Successes' BY <1>1, <1>3, LockedQueue
<1> QED BY <1>5, <1>6, <1>7, <1>8, <1>9, <1>10, <1>11, <1>12, <1>13 DEF IInv

LEMMA DoCloseStep ==
    ASSUME IInv, Locked, DoClose
    PROVE  IInv'
<1>1. /\ step = "lock" /\ auto_mode' = TRUE /\ UNCHANGED <<queue, cb>>
      /\ leftover' \in BOOLEAN /\ lost' \in BOOLEAN
      /\ op = "close"
      /\ UNCHANGED <<tag, is_server_mode, by_name, tx_size, ack_size, last_sock, unacked, dns,
                     attempt, link, flips>>
      BY DEF Locked, DoClose
<1>2. \/ /\ sock # 0 /\ state = "ONLINE"
         /\ conn' = [conn EXCEPT ![sock] = "closing"]
         /\ state' = "DISCONNECTING" /\ wait' = "CLOSE"
         /\ need_close' = FALSE /\ new_rx_flag' = FALSE /\ Wait
         /\ UNCHANGED <<sock, dns_ip_cnt, dns_ip_nums>>
      \/ ForceCloseSocket /\ state' = "OFF_LINE" /\ wait' = "NONE" /\ Return
      \/ /\ sock = 0 /\ state' = "OFF_LINE" /\ wait' = "NONE"
         /\ need_close' = FALSE /\ new_rx_flag' = FALSE /\ Return
         /\ UNCHANGED <<sock, conn, dns_ip_cnt, dns_ip_nums>>
      BY DEF DoClose
<1>3. /\ step' \in {"idle", "wait"} /\ op' \in {op, "none"}
      /\ step' = "wait" => op' = op
      /\ crossed => crossed'
      /\ (timer \in BOOLEAN /\ crossed \in BOOLEAN)'
      /\ (op \in Ops /\ step \in {"idle", "lock", "wait"})'
      BY <1>1, <1>2, EndOfOp
<1>4. /\ need_close' = FALSE /\ new_rx_flag' = FALSE
      /\ dns_ip_cnt' \in {0, dns_ip_cnt} /\ dns_ip_nums' \in {0, dns_ip_nums}
      /\ state' \in {"DISCONNECTING", "OFF_LINE"} /\ wait' \in {"CLOSE", "NONE"}
      /\ sock' \in {0, sock}
      BY <1>2 DEF ForceCloseSocket
<1>5. Sockets' /\ Delivered' /\ (state' # "DISCONNECTING" => sock' = 0)
  <2>1. CASE /\ sock # 0 /\ UNCHANGED sock
             /\ conn' = [conn EXCEPT ![sock] = "closing"]
             /\ state' = "DISCONNECTING"
    <3>1. sock \in 1 .. MaxSock BY <2>1, CtrlAssumption DEF IInv, Sockets
    <3>2. /\ conn' \in [1 .. MaxSock -> ConnStates]
          /\ \A s \in 1 .. MaxSock : conn'[s] = IF s = sock THEN "closing" ELSE conn[s]
          BY <2>1, <3>1 DEF IInv, Sockets, ConnStates
    <3>3. sock <= last_sock /\ last_sock \in Nat BY CtrlAssumption DEF IInv, Sockets
    <3>4. Sockets' BY <1>1, <2>1, <3>2, <3>3 DEF IInv, Sockets
    <3>5. "CONNECT_OK" \in SocketEvents BY DEF SocketEvents
    <3>6. cb.ev = "CONNECT_OK" /\ cb.of = tag => tag \in 1 .. MaxSock
          BY <3>5, CtrlAssumption DEF IInv, Delivered, Sockets
    <3>7. Delivered' BY <1>1, <3>2, <3>6 DEF IInv, Delivered
    <3> QED BY <2>1, <3>4, <3>7
  <2>2. CASE ForceCloseSocket BY <1>1, <2>2, ForceCloseFacts
  <2>3. CASE sock = 0 /\ UNCHANGED <<sock, conn>> BY <1>1, <2>3, SocketsKept
  <2> QED BY <1>2, <2>1, <2>2, <2>3
<1>6. Flags' BY <1>1, <1>3, <1>4 DEF IInv, Flags
<1>7. Counters' BY <1>1, <1>4, CtrlAssumption DEF IInv, Counters
<1>8. Control' BY <1>1, <1>3, <1>4 DEF IInv, Control, States, Waits
<1>9. Addressed' BY <1>1, <1>4 DEF IInv, Addressed
<1>10. Accounts' BY <1>1, <1>3, <1>4 DEF IInv, Accounts
<1>11. Holds' /\ Seen' BY <1>1, <1>3, <1>4, <1>5 DEF Holds, Seen
<1>12. Waited' BY <1>4 DEF Waited, Posted
<1>13. QueueType' /\ Queued' /\ Successes' BY <1>1, <1>3, LockedQueue
<1> QED BY <1>5, <1>6, <1>7, <1>8, <1>9, <1>10, <1>11, <1>12, <1>13 DEF IInv

LEMMA DoTxStep ==
    ASSUME IInv, Locked, DoTx
    PROVE  IInv'
<1>1. /\ step = "lock" /\ auto_mode' = TRUE /\ UNCHANGED <<queue, cb>>
      /\ leftover' \in BOOLEAN /\ lost' \in BOOLEAN
      /\ op = "tx"
      /\ UNCHANGED <<state, sock, tag, new_rx_flag, is_server_mode, by_name, dns_ip_cnt,
                     dns_ip_nums, ack_size, conn, last_sock, dns, attempt, link, flips>>
      BY DEF Locked, DoTx
<1>2. \/ /\ sock # 0 /\ tx_size' = tx_size + 1 /\ unacked' = unacked + 1
         /\ wait' = "TX" /\ Wait /\ UNCHANGED need_close
      \/ need_close' = TRUE /\ Return /\ UNCHANGED <<tx_size, unacked, wait>>
      BY DEF DoTx
<1>3. /\ step' \in {"idle", "wait"} /\ op' \in {op, "none"}
      /\ step' = "wait" => op' = op
      /\ crossed => crossed'
      /\ Wait /\ ~crossed' => step' = "wait"
      /\ (timer \in BOOLEAN /\ crossed \in BOOLEAN)'
      /\ (op \in Ops /\ step \in {"idle", "lock", "wait"})'
      BY <1>1, <1>2, EndOfOp
<1>4. wait' \in {wait, "TX"} BY <1>2
<1>5. /\ tx_size \in Nat /\ ack_size \in Nat /\ unacked \in Nat /\ tx_size < MaxTx
      /\ sock # 0 => ack_size + unacked <= tx_size
      /\ state = "ONLINE" /\ cb.ev = "TX_OK" => ack_size + unacked + 1 <= tx_size
      /\ ack_size <= tx_size
      BY <1>1, CtrlAssumption DEF IInv, Counters, Accounts
<1>6. \/ sock # 0 /\ tx_size' = tx_size + 1 /\ unacked' = unacked + 1
      \/ UNCHANGED <<tx_size, unacked>>
      BY <1>2
<1>7. Flags'
  <2>1. need_close' \in BOOLEAN BY <1>2 DEF IInv, Flags
  <2> QED BY <1>1, <1>3, <2>1 DEF IInv, Flags
<1>8. Counters'
  <2>1. tx_size' \in 0 .. MaxTx /\ unacked' \in 0 .. MaxTx
        BY <1>5, <1>6, CtrlAssumption DEF IInv, Counters
  <2> QED BY <1>1, <2>1 DEF IInv, Counters
<1>9. Control' BY <1>1, <1>3, <1>4 DEF IInv, Control, Waits
<1>10. Addressed' BY <1>1, <1>4 DEF IInv, Addressed
<1>11. Accounts'
  <2>1. step' # "lock" BY <1>3
  <2> QED BY <1>1, <1>5, <1>6, <2>1 DEF Accounts
<1>12. Sockets' /\ Delivered' BY <1>1, SocketsKept
<1>13. Holds' BY <1>1, <1>4 DEF IInv, Holds
<1>14. Seen' BY <1>1, <1>3, <1>4 DEF IInv, Seen
<1>15. Waited'
  <2>1. ~crossed' => wait \notin Posted BY <1>1, <1>3 DEF IInv, Waited
  <2> QED BY <1>1, <1>2, <1>3, <2>1 DEF Waited, Posted, Wanted
<1>16. QueueType' /\ Queued' /\ Successes' BY <1>1, <1>3, LockedQueue
<1> QED BY <1>7, <1>8, <1>9, <1>10, <1>11, <1>12, <1>13, <1>14, <1>15, <1>16 DEF IInv

LEMMA DoRxStep ==
    ASSUME IInv, Locked, DoRx \/ DoWait
    PROVE  IInv'
<1>1. /\ step = "lock" /\ auto_mode' = TRUE /\ UNCHANGED <<queue, cb>>
      /\ leftover' \in BOOLEAN /\ lost' \in BOOLEAN
      /\ op \in {"rx", "wait_rx", "wait_event"}
      /\ UNCHANGED <<state, sock, tag, need_close, is_server_mode, by_name, dns_ip_cnt,
                     dns_ip_nums, tx_size, ack_size, netVars>>
      /\ wait' \in {wait, "EVENT"}
      /\ new_rx_flag' \in {FALSE, new_rx_flag}
      /\ Wait \/ Return
      BY DEF Locked, DoRx, DoWait
<1>2. /\ step' \in {"idle", "wait"} /\ op' \in {op, "none"}
      /\ step' = "wait" => op' = op
      /\ crossed => crossed'
      /\ (timer \in BOOLEAN /\ crossed \in BOOLEAN)'
      /\ (op \in Ops /\ step \in {"idle", "lock", "wait"})'
      BY <1>1, EndOfOp
<1> USE DEF netVars
<1>3. Flags'
  <2>1. new_rx_flag' \in BOOLEAN BY <1>1 DEF IInv, Flags
  <2> QED BY <1>1, <1>2, <2>1 DEF IInv, Flags
<1>4. Counters' BY <1>1 DEF IInv, Counters
<1>5. Control' BY <1>1, <1>2 DEF IInv, Control, Waits
<1>6. Addressed' BY <1>1 DEF IInv, Addressed
<1>7. Accounts' BY <1>1, <1>2 DEF IInv, Accounts
<1>8. Sockets' /\ Delivered' BY <1>1, SocketsKept
<1>9. Holds' BY <1>1 DEF IInv, Holds
<1>10. Seen' BY <1>1, <1>2 DEF IInv, Seen
<1>11. Waited'
  <2>1. ~crossed' => wait \notin Posted BY <1>1, <1>2 DEF IInv, Waited
  <2> QED BY <1>1, <2>1 DEF Waited, Posted
<1>12. QueueType' /\ Queued' /\ Successes' BY <1>1, <1>2, LockedQueue
<1> QED BY <1>3, <1>4, <1>5, <1>6, <1>7, <1>8, <1>9, <1>10, <1>11, <1>12 DEF IInv

LEMMA LockedPartStep ==
    ASSUME IInv, LockedPart
    PROVE  IInv'
<1>1. Locked BY DEF LockedPart, Locked, IInv, Flags
<1>2. DoWaitLinkUp \/ DoConnect \/ DoListen \/ DoClose \/ DoTx \/ DoRx \/ DoWait
      BY DEF LockedPart
<1> QED BY <1>1, <1>2, DoWaitLinkUpStep, DoConnectStep, DoListenStep, DoCloseStep, DoTxStep,
        DoRxStep

-----------------------------------------------------------------------------
(* What the network reports *)

LEMMA DeliverSocketFacts ==
    ASSUME IInv, NEW ev \in SocketEvents, NEW s \in 1 .. MaxSock, conn[s] # "none",
           DeliverSocket(ev, s)
    PROVE  /\ cb' \in [ev : Events, of : Nat, n : 0 .. MAX_DNS_IP]
           /\ cb'.ev \in SocketEvents => cb'.of \in 1 .. last_sock /\ cb'.of = s
           /\ cb'.ev \in {"none", ev}
           /\ cb'.ev = ev => s = tag
<1>1. s <= last_sock /\ s \in Nat /\ last_sock \in Nat
      BY CtrlAssumption DEF IInv, Sockets
<1>2. CASE s = tag
  <2>1. cb' = [ev |-> ev, of |-> s, n |-> 0] BY <1>2 DEF DeliverSocket
  <2>2. ev \in Events BY DEF Events
  <2> QED BY <1>1, <1>2, <2>1, <2>2, CtrlAssumption
<1>3. CASE s # tag
  <2>1. cb' = [ev |-> "none", of |-> 0, n |-> 0] BY <1>3 DEF DeliverSocket, NoCb
  <2>2. "none" \in Events /\ "none" \notin SocketEvents BY DEF Events, SocketEvents
  <2> QED BY <2>1, <2>2, CtrlAssumption
<1> QED BY <1>2, <1>3

\* the states of a socket that was connected
Was == {"up", "fin", "failed"}

\* The network changes nothing of the ctrl: what it changes below keeps the invariant.
LEMMA NetStep ==
    ASSUME IInv, UNCHANGED <<ctrlVars, appVars>>, UNCHANGED attempt,
           leftover' \in BOOLEAN, lost' \in BOOLEAN,
           Counters', link' \in BOOLEAN,
           cb' \in [ev : Events, of : Nat, n : 0 .. MAX_DNS_IP],
           Sockets', Delivered', Accounts',
           sock # 0 => /\ conn[sock] \notin {"none", "closing", "closed"}
                            => conn'[sock] \notin {"none", "closing", "closed"}
                       /\ conn[sock] \in Was => conn'[sock] \in Was
    PROVE  IInv'
<1> USE DEF ctrlVars, appVars
<1>1. Flags' BY DEF IInv, Flags
<1>2. Control' BY DEF IInv, Control
<1>3. QueueType' /\ Addressed' BY DEF IInv, QueueType, Addressed
<1>4. Holds' BY DEF IInv, Holds
<1>5. Seen' BY DEF IInv, Seen
<1>6. Waited' /\ Queued' BY DEF IInv, Waited, Queued, Wanted
<1>7. Successes' BY DEF IInv, Successes, Connected, Was
<1> QED BY <1>1, <1>2, <1>3, <1>4, <1>5, <1>6, <1>7 DEF IInv

LEMMA ReportStep ==
    ASSUME IInv, cb = NoCb, UNCHANGED <<ctrlVars, appVars>>,
           leftover' \in BOOLEAN, lost' \in BOOLEAN,
           NEW s \in 1 .. MaxSock, NEW from \in SUBSET ConnStates, NEW to \in ConnStates,
           NEW ev \in SocketEvents \ {"TX_OK"},
           Report(s, from, to, ev),
           \/ from = {"closing"} /\ to = "closed"
           \/ /\ from \subseteq {"opening", "binding", "listening"} 
              /\ to \in {"listening", "up"}
           \/ from = {"up"} /\ to \in {"up", "fin"},
           ev = "CONNECT_OK" => to = "up"
    PROVE  IInv'
<1> USE DEF ctrlVars, appVars
<1>1. /\ conn[s] \in from /\ conn' = [conn EXCEPT ![s] = to] /\ DeliverSocket(ev, s)
      /\ UNCHANGED <<last_sock, unacked, dns, attempt, link, flips>>
      BY DEF Report
<1>2. conn[s] # "none" BY <1>1
<1>3. /\ conn' \in [1 .. MaxSock -> ConnStates]
      /\ \A t \in 1 .. MaxSock : conn'[t] = IF t = s THEN to ELSE conn[t]
      BY <1>1 DEF IInv, Sockets
<1>4. /\ cb' \in [ev : Events, of : Nat, n : 0 .. MAX_DNS_IP]
      /\ cb'.ev \in SocketEvents => cb'.of \in 1 .. last_sock /\ cb'.of = s
      /\ cb'.ev \in {"none", ev}
      BY <1>1, <1>2, DeliverSocketFacts
<1>5. Counters' BY <1>1 DEF IInv, Counters
<1>6. Sockets'
  <2>1. s <= last_sock BY <1>2, CtrlAssumption DEF IInv, Sockets
  <2> QED BY <1>1, <1>3, <2>1 DEF IInv, Sockets
<1>7. Delivered'
  <2>1. cb'.ev = "CONNECT_OK" => ev = "CONNECT_OK" /\ cb'.of = s
        BY <1>4 DEF SocketEvents
  <2> QED BY <1>1, <1>3, <1>4, <2>1 DEF Delivered
<1>8. Accounts'
  <2>1. cb'.ev # "TX_OK" BY <1>4
  <2> QED BY <1>1, <2>1 DEF IInv, Accounts
<1>9. sock # 0 => /\ conn[sock] \notin {"none", "closing", "closed"}
                       => conn'[sock] \notin {"none", "closing", "closed"}
                  /\ conn[sock] \in Was => conn'[sock] \in Was
  <2>1. sock # 0 => sock \in 1 .. MaxSock BY CtrlAssumption DEF IInv, Sockets
  <2> QED BY <1>1, <1>3, <2>1 DEF Was
<1>10. link' \in BOOLEAN BY <1>1 DEF IInv, Flags
<1> QED BY <1>1, <1>4, <1>5, <1>6, <1>7, <1>8, <1>9, <1>10, NetStep

LEMMA NetAnswersStep ==
    ASSUME IInv, NetAnswers
    PROVE  IInv'
<1> USE DEF ctrlVars, appVars
<1>1. /\ cb = NoCb /\ UNCHANGED <<ctrlVars, appVars>>
      /\ leftover' \in BOOLEAN /\ lost' \in BOOLEAN
      BY DEF NetAnswers, pastVars, IInv, Flags
<1>2. DOMAIN conn = 1 .. MaxSock BY DEF IInv, Sockets
<1>3. ASSUME NEW s \in 1 .. MaxSock, Answer(s)
      PROVE  IInv'
  <2>1. CASE Report(s, {"opening"}, "up", "CONNECT_OK")
        BY <1>1, <2>1, ReportStep DEF ConnStates, SocketEvents
  <2>2. CASE Report(s, {"binding"}, "listening", "LISTEN")
        BY <1>1, <2>2, ReportStep DEF ConnStates, SocketEvents
  <2>3. CASE Report(s, {"closing"}, "closed", "CLOSE_OK")
        BY <1>1, <2>3, ReportStep DEF ConnStates, SocketEvents
  <2> QED BY <1>3, <2>1, <2>2, <2>3 DEF Answer
<1>4. ASSUME NEW s \in 1 .. MaxSock, Acknowledged(s)
      PROVE  IInv'
  <2> DEFINE ev == IF conn[s] = "failed" THEN "ERROR" ELSE "TX_OK"
  <2>1. /\ conn[s] \in {"up", "fin", "failed"} /\ s = tag
        /\ unacked > 0 /\ unacked' = unacked - 1
        /\ DeliverSocket(ev, s)
        /\ UNCHANGED <<conn, last_sock, dns, attempt, link, flips>>
        BY <1>4 DEF Acknowledged
  <2>2. ev \in SocketEvents /\ ev \in {"ERROR", "TX_OK"} BY DEF SocketEvents
  <2> HIDE DEF ev
  <2>3. conn[s] # "none" BY <2>1
  <2>4. /\ cb' \in [ev : Events, of : Nat, n : 0 .. MAX_DNS_IP]
        /\ cb'.ev \in SocketEvents => cb'.of \in 1 .. last_sock
        /\ cb'.ev \in {"none", "ERROR", "TX_OK"}
        BY <2>1, <2>2, <2>3, DeliverSocketFacts
  <2>5. unacked' \in 0 .. MaxTx BY <2>1, CtrlAssumption DEF IInv, Counters
  <2>6. Counters' BY <1>1, <2>1, <2>5 DEF IInv, Counters
  <2>7. Sockets' BY <1>1, <2>1 DEF IInv, Sockets
  <2>8. Delivered' BY <2>1, <2>4 DEF Delivered
  <2>9. Accounts'
    <3>1. state = "ONLINE" => sock # 0 BY DEF IInv, Holds
    <3>2. /\ ack_size \in Nat /\ unacked \in Nat /\ tx_size \in Nat
          BY CtrlAssumption DEF IInv, Counters
    <3> QED BY <1>1, <2>1, <3>1, <3>2 DEF IInv, Accounts
  <2>10. link' \in BOOLEAN BY <2>1 DEF IInv, Flags
  <2> QED BY <1>1, <2>1, <2>4, <2>6, <2>7, <2>8, <2>9, <2>10, NetStep
<1>5. ASSUME NEW q \in dns, DnsAnswer(q)
      PROVE  IInv'
  <2>1. PICK n \in 0 .. MAX_DNS_IP :
            cb' = IF wait = "CONNECT" THEN [ev |-> "DNS_RESULT", of |-> q, n |-> n] ELSE NoCb
        BY <1>5 DEF DnsAnswer
  <2>2. dns' = dns \ {q} /\ UNCHANGED <<conn, last_sock, unacked, attempt, link, flips>>
        BY <1>5 DEF DnsAnswer
  <2>3. q \in Nat /\ 0 \in 0 .. MAX_DNS_IP BY CtrlAssumption DEF IInv, Counters
  <2>4. cb' \in [ev : Events, of : Nat, n : 0 .. MAX_DNS_IP] /\ cb'.ev \in {"none", "DNS_RESULT"}
        BY <2>1, <2>3 DEF NoCb, Events
  <2>5. Counters' BY <2>2, <1>1 DEF IInv, Counters
  <2>6. Sockets' BY <1>1, <2>2 DEF IInv, Sockets
  <2>7. Delivered' BY <2>4 DEF Delivered, SocketEvents
  <2>8. Accounts' BY <1>1, <2>2, <2>4 DEF IInv, Accounts
  <2>9. link' \in BOOLEAN BY <2>2 DEF IInv, Flags
  <2> QED BY <1>1, <2>2, <2>4, <2>5, <2>6, <2>7, <2>8, <2>9, NetStep
<1> QED BY <1>2, <1>3, <1>4, <1>5 DEF NetAnswers

LEMMA SumBelow ==
    ASSUME NEW a \in Nat, NEW b \in Nat, NEW c \in Nat, NEW d \in Nat, a <= b, c + b <= d
    PROVE  c + a <= d
OBVIOUS

LEMMA NetHappensStep ==
    ASSUME IInv, NetHappens
    PROVE  IInv'
<1> USE DEF ctrlVars, appVars
<1>1. /\ cb = NoCb /\ UNCHANGED <<ctrlVars, appVars>>
      /\ leftover' \in BOOLEAN
      BY DEF NetHappens, IInv, Flags
<1>s. UNCHANGED lost => lost' \in BOOLEAN BY DEF IInv, Flags
<1>2. DOMAIN conn = 1 .. MaxSock BY DEF IInv, Sockets
<1>3. ASSUME NEW s \in 1 .. MaxSock, Unasked(s), UNCHANGED lost
      PROVE  IInv'
  <2>1. CASE Report(s, {"listening"}, "up", "CONNECT_OK")
        BY <1>1, <1>s, <1>3, <2>1, ReportStep DEF ConnStates, SocketEvents
  <2>2. CASE Report(s, {"up"}, "fin", "REMOTE_CLOSE")
        BY <1>1, <1>s, <1>3, <2>2, ReportStep DEF ConnStates, SocketEvents
  <2>3. CASE Report(s, {"up"}, "up", "RX_NEW")
        BY <1>1, <1>s, <1>3, <2>3, ReportStep DEF ConnStates, SocketEvents
  <2> QED BY <1>3, <2>1, <2>2, <2>3 DEF Unasked
<1>4. ASSUME NEW s \in 1 .. MaxSock, Fails(s), UNCHANGED lost
      PROVE  IInv'
  <2>1. /\ conn[s] \in {"opening", "binding", "listening", "up", "fin"}
        /\ conn' = [conn EXCEPT ![s] = "failed"]
        /\ cb' = NoCb \/ DeliverSocket("ERROR", s)
        /\ unacked' \in 0 .. unacked
        /\ UNCHANGED <<last_sock, dns, attempt, link, flips>>
        BY <1>4 DEF Fails
  <2>2. "ERROR" \in SocketEvents /\ "none" \in Events /\ "none" \notin SocketEvents
        BY DEF SocketEvents, Events
  <2>3. /\ conn' \in [1 .. MaxSock -> ConnStates]
        /\ \A t \in 1 .. MaxSock : conn'[t] = IF t = s THEN "failed" ELSE conn[t]
        BY <2>1 DEF IInv, Sockets, ConnStates
  <2>4. conn[s] # "none" BY <2>1
  <2>5. /\ cb' \in [ev : Events, of : Nat, n : 0 .. MAX_DNS_IP]
        /\ cb'.ev \in SocketEvents => cb'.of \in 1 .. last_sock
        /\ cb'.ev \in {"none", "ERROR"}
    <3>1. CASE cb' = NoCb BY <2>2, <3>1, CtrlAssumption DEF NoCb
    <3>2. CASE DeliverSocket("ERROR", s) BY <2>2, <2>4, <3>2, DeliverSocketFacts
    <3> QED BY <2>1, <3>1, <3>2
  <2>6. unacked' \in 0 .. MaxTx /\ unacked' <= unacked
        BY <2>1, CtrlAssumption DEF IInv, Counters
  <2>7. Counters' BY <1>1, <2>1, <2>6 DEF IInv, Counters
  <2>8. Sockets'
    <3>1. s <= last_sock BY <2>4, CtrlAssumption DEF IInv, Sockets
    <3> QED BY <1>1, <2>1, <2>3, <3>1 DEF IInv, Sockets
  <2>9. Delivered' BY <2>1, <2>5 DEF Delivered
  <2>10. Accounts'
    <3>1. ack_size \in Nat /\ unacked \in Nat /\ tx_size \in Nat /\ unacked' \in Nat
          BY <2>6, CtrlAssumption DEF IInv, Counters
    <3>2. cb'.ev # "TX_OK" BY <2>5
    <3>3. UNCHANGED <<ack_size, tx_size, sock, step, op>> BY <1>1
    <3>4. Accounts BY DEF IInv
    <3>5. unacked' <= unacked BY <2>6
    <3>6. ASSUME sock # 0 PROVE ack_size + unacked' <= tx_size
      <4>1. ack_size + unacked <= tx_size BY <3>4, <3>6 DEF Accounts
      <4> QED BY <3>1, <3>5, <4>1, SumBelow
    <3> QED BY <3>2, <3>3, <3>4, <3>6 DEF Accounts
  <2>11. sock # 0 => /\ conn[sock] \notin {"none", "closing", "closed"}
                          => conn'[sock] \notin {"none", "closing", "closed"}
                     /\ conn[sock] \in Was => conn'[sock] \in Was
    <3>1. sock # 0 => sock \in 1 .. MaxSock BY CtrlAssumption DEF IInv, Sockets
    <3> QED BY <2>3, <3>1 DEF Was
  <2>12. link' \in BOOLEAN BY <2>1 DEF IInv, Flags
  <2> QED BY <1>1, <1>s, <1>4, <2>1, <2>5, <2>7, <2>8, <2>9, <2>10, <2>11, <2>12, NetStep
<1>5. CASE LinkChange /\ UNCHANGED lost
  <2>1. /\ flips < MaxLink /\ flips' = flips + 1 /\ link' = ~link
        /\ dns' \in {dns, {}}
        /\ cb' \in [ev : {"LINK_UP", "LINK_DOWN"}, of : {0}, n : {0}]
        /\ UNCHANGED <<conn, last_sock, unacked, attempt>>
        BY <1>5 DEF LinkChange
  <2>2. /\ cb' \in [ev : Events, of : Nat, n : 0 .. MAX_DNS_IP]
        /\ cb'.ev \in {"LINK_UP", "LINK_DOWN"}
        BY <2>1, CtrlAssumption DEF Events
  <2>3. Counters' BY <1>1, <2>1, CtrlAssumption DEF IInv, Counters
  <2>4. Sockets' BY <1>1, <2>1 DEF IInv, Sockets
  <2>5. Delivered' BY <2>2 DEF Delivered, SocketEvents
  <2>6. Accounts' BY <1>1, <2>1, <2>2 DEF IInv, Accounts
  <2>7. link' \in BOOLEAN BY <2>1
  <2> QED BY <1>1, <1>s, <1>5, <2>1, <2>2, <2>3, <2>4, <2>5, <2>6, <2>7, NetStep
<1>6. ASSUME NEW q \in dns, DnsLost(q)
      PROVE  IInv'
  <2>1. /\ dns' = dns \ {q} /\ lost' = (lost \/ q = attempt)
        /\ UNCHANGED <<conn, last_sock, unacked, attempt, link, flips, cb>>
        BY <1>6 DEF DnsLost
  <2>2. lost' \in BOOLEAN /\ link' \in BOOLEAN BY <2>1 DEF IInv, Flags
  <2>3. cb' \in [ev : Events, of : Nat, n : 0 .. MAX_DNS_IP] BY <2>1 DEF IInv, Control
  <2>4. Counters' BY <1>1, <2>1 DEF IInv, Counters
  <2>5. Sockets' /\ Delivered' BY <1>1, <2>1 DEF IInv, Sockets, Delivered
  <2>6. Accounts' BY <1>1, <2>1 DEF IInv, Accounts
  <2> QED BY <1>1, <2>1, <2>2, <2>3, <2>4, <2>5, <2>6, NetStep
<1> QED BY <1>2, <1>3, <1>4, <1>5, <1>6 DEF NetHappens

-----------------------------------------------------------------------------
(* The state machine *)

\* what the handling of every event has in common
Handled ==
    /\ cb' = NoCb
    /\ crossed' = (crossed \/ (cb.ev \in SocketEvents /\ cb.of # tag))
    /\ UNCHANGED <<auto_mode, by_name, tx_size, op, step, timer, link, flips, pastVars>>

\* A result ends the wait and is the first of its kind in the queue.
LEMMA ResultFacts ==
    ASSUME IInv, Handled, NEW r \in {-1, 0, 1}, NEW w \in {wait, "NONE"}, Result(r, w),
           r = 0 => state' # "LISTEN",
           ~crossed' => (Connected \/ (r = 0 /\ w = "CONNECT") => Connected')
    PROVE  /\ wait' \in {w, "NONE"} /\ (r # 1 => wait' = "NONE")
           /\ QueueType' /\ Waited' /\ Queued' /\ Successes'
<1>1. UNCHANGED <<op, step>> /\ (crossed => crossed') BY DEF Handled
<1>2. ~crossed' /\ Connected => Connected' OBVIOUS
<1>3. CASE r = 1
  <2>1. wait' = w /\ UNCHANGED queue BY <1>3 DEF Result
  <2>2. QueueType' BY <2>1 DEF IInv, QueueType
  <2>3. Waited' /\ Queued' BY <1>1, <2>1 DEF IInv, Waited, Queued, Posted, Wanted
  <2>4. Successes'
    <3>1. ASSUME NEW i \in 1 .. Len(queue)
          PROVE  /\ queue[i].id = "TIMEOUT" => ~queue[i].ok
                 /\ ~crossed' /\ queue[i].id = "CONNECT" /\ queue[i].ok => Connected'
      <4>1. /\ queue[i].id = "TIMEOUT" => ~queue[i].ok
            /\ ~crossed /\ queue[i].id = "CONNECT" /\ queue[i].ok => Connected
            BY DEF IInv, Successes
      <4> QED BY <1>1, <1>2, <4>1
    <3> QED BY <2>1, <3>1 DEF Successes
  <2> QED BY <1>3, <2>1, <2>2, <2>3, <2>4
<1>4. CASE r # 1
  <2> DEFINE e == [id |-> IF w = "NONE" THEN "EVENT" ELSE w, ok |-> r = 0]
  <2>1. Len(queue) < QUEUE_LEN /\ queue' = Append(queue, e) /\ wait' = "NONE"
        BY <1>4 DEF Result
  <2>2. w \in Waits BY DEF IInv, Control, Waits
  <2>3. /\ e \in Results /\ e.id \in Waits
        /\ e.id \in Posted => e.id = w /\ w = wait
        /\ e.ok => r = 0
        BY <2>2 DEF Results, Waits, Posted
  <2> HIDE DEF e
  <2>4. /\ QueueType'
        /\ Len(queue) \in Nat /\ Len(queue') = Len(queue) + 1
        /\ \A i \in 1 .. Len(queue) : queue'[i] = queue[i]
        /\ queue'[Len(queue) + 1] = e
        BY <2>1, <2>3, AppendFacts DEF IInv
  <2>5. Waited' BY <2>1 DEF Waited, Posted
  <2>6. Queued'
    <3> SUFFICES ASSUME ~crossed', NEW i \in 1 .. Len(queue'), queue'[i].id \in Posted
                 PROVE  /\ step' = "wait" /\ Wanted(op, queue[i].id)'
                        /\ wait' # queue'[i].id
                        /\ \A j \in i + 1 .. Len(queue') : queue'[j].id # queue'[i].id
        BY DEF Queued
    <3>1. wait' # queue'[i].id BY <2>1 DEF Posted
    <3>2. CASE i = Len(queue) + 1
      <4>1. queue'[i].id = wait /\ wait \in Posted BY <2>3, <2>4, <3>2
      <4>2. step = "wait" /\ Wanted(op, wait) BY <1>1, <4>1 DEF IInv, Waited
      <4>3. \A j \in i + 1 .. Len(queue') : FALSE BY <2>4, <3>2
      <4> QED BY <1>1, <3>1, <4>1, <4>2, <4>3 DEF Wanted
    <3>3. CASE i \in 1 .. Len(queue)
      <4>1. queue'[i] = queue[i] BY <2>4, <3>3
      <4>2. /\ step = "wait" /\ Wanted(op, queue[i].id) /\ wait # queue[i].id
            /\ \A j \in i + 1 .. Len(queue) : queue[j].id # queue[i].id
            BY <1>1, <3>3, <4>1 DEF IInv, Queued
      <4>3. e.id # queue[i].id BY <2>3, <4>1, <4>2
      <4>4. ASSUME NEW j \in i + 1 .. Len(queue') PROVE queue'[j].id # queue'[i].id
        <5>1. CASE j = Len(queue) + 1 BY <2>4, <4>1, <4>3, <5>1
        <5>2. CASE j \in i + 1 .. Len(queue) BY <2>4, <3>3, <4>1, <4>2, <5>2
        <5> QED BY <2>4, <3>3, <5>1, <5>2
      <4> QED BY <1>1, <3>1, <4>1, <4>2, <4>4 DEF Wanted
    <3> QED BY <2>4, <3>2, <3>3
  <2>7. Successes'
    <3> SUFFICES ASSUME NEW i \in 1 .. Len(queue')
                 PROVE  /\ queue'[i].id = "TIMEOUT" => ~queue'[i].ok
                        /\ ~crossed' /\ queue'[i].id = "CONNECT" /\ queue'[i].ok => Connected'
        BY DEF Successes
    <3>1. CASE i = Len(queue) + 1 BY <2>3, <2>4, <3>1 DEF Waits, Posted
    <3>2. CASE i \in 1 .. Len(queue)
      <4>1. /\ queue[i].id = "TIMEOUT" => ~queue[i].ok
            /\ ~crossed /\ queue[i].id = "CONNECT" /\ queue[i].ok => Connected
            BY <3>2 DEF IInv, Successes
      <4>2. queue'[i] = queue[i] BY <2>4, <3>2
      <4> QED BY <1>1, <1>2, <4>1, <4>2
    <3> QED BY <2>4, <3>1, <3>2
  <2> QED BY <1>4, <2>1, <2>4, <2>5, <2>6, <2>7
<1> QED BY <1>3, <1>4

\* What a state function may do to the rest of the invariant.
LEMMA HandledStep ==
    ASSUME IInv, Handled, NEW r \in {-1, 0, 1}, NEW w \in {wait, "NONE"}, Result(r, w),
           r = 0 => state' # "LISTEN",
           ~crossed' => (Connected \/ (r = 0 /\ w = "CONNECT") => Connected'),
           state' \in States, need_close' \in BOOLEAN, new_rx_flag' \in BOOLEAN,
           Counters', UNCHANGED attempt, Sockets', Addressed', Accounts', Holds',
           UNCHANGED is_server_mode \/ (is_server_mode' = FALSE /\ attempt # 0),
           state \in {"LINK_OFF", "OFF_LINE"} /\ wait # "CONNECT" =>
                state' \in {"LINK_OFF", "OFF_LINE"} /\ UNCHANGED sock,
           state' = "DISCONNECTING" => state = "DISCONNECTING" /\ UNCHANGED sock,
           state \in {"DISCONNECTING", "OFF_LINE"} => state' \in {"DISCONNECTING", "OFF_LINE"}
    PROVE  IInv'
<1>1. /\ cb' = NoCb /\ UNCHANGED <<op, step, auto_mode, by_name, timer, link, leftover, lost>>
      BY DEF Handled, pastVars
<1>2. /\ wait' \in {w, "NONE"} /\ (r # 1 => wait' = "NONE")
      /\ QueueType' /\ Waited' /\ Queued' /\ Successes'
      BY ResultFacts
<1>3. Flags'
  <2>1. crossed' \in BOOLEAN BY DEF Handled
  <2> QED BY <1>1, <2>1 DEF IInv, Flags
<1>4. Control'
  <2>1. NoCb \in [ev : Events, of : Nat, n : 0 .. MAX_DNS_IP]
        BY CtrlAssumption DEF NoCb, Events
  <2> QED BY <1>1, <1>2, <2>1 DEF IInv, Control, Waits
<1>5. Seen' BY <1>1, <1>2 DEF IInv, Seen
<1>6. Delivered' BY <1>1 DEF Delivered, NoCb, SocketEvents
<1> QED BY <1>2, <1>3, <1>4, <1>5, <1>6 DEF IInv

LEMMA JustStep ==
    ASSUME IInv, Handled, NEW r \in {-1, 1}, Just(r)
    PROVE  IInv'
<1>1. /\ UNCHANGED <<is_server_mode, state, sock, tag, conn, last_sock, unacked, dns_ip_cnt, dns_ip_nums, dns,
                     attempt, need_close, new_rx_flag, ack_size>>
      /\ Result(r, wait)
      BY DEF Just, SameSocket, SameDns, SameFlags
<1>2. /\ cb' = NoCb
      /\ UNCHANGED <<by_name, tx_size, op, step, link, flips>>
      BY DEF Handled
<1>3. Connected => Connected' BY <1>1 DEF Connected
<1>4. r \in {-1, 0, 1} /\ r # 0 /\ wait \in {wait, "NONE"} OBVIOUS
<1>5. ~crossed' => (Connected \/ (r = 0 /\ wait = "CONNECT") => Connected')
      BY <1>3, <1>4
<1>6. wait' \in {wait, "NONE"} BY <1>1, <1>4, <1>5, ResultFacts
<1>7. Counters' BY <1>1, <1>2 DEF IInv, Counters
<1>8. Sockets' BY <1>1 DEF IInv, Sockets
<1>9. Addressed' BY <1>1, <1>2, <1>6 DEF IInv, Addressed
<1>10. Accounts' BY <1>1, <1>2 DEF IInv, Accounts, NoCb
<1>11. Holds' BY <1>1, <1>6 DEF IInv, Holds
<1>12. state' \in States /\ need_close' \in BOOLEAN /\ new_rx_flag' \in BOOLEAN
       BY <1>1 DEF IInv, Control, Flags
<1> QED BY <1>1, <1>4, <1>5, <1>7, <1>8, <1>9, <1>10, <1>11, <1>12,
        HandledStep

\* The next address: another socket, or the end of the wait.
LEMMA TryAddressStep ==
    ASSUME IInv, Handled, TryAddress,
           state \in {"WAIT_DNS", "CONNECTING"}, wait = "CONNECT",
           state = "WAIT_DNS" \/ dns_ip_nums # 0,
           UNCHANGED <<new_rx_flag, ack_size, dns, attempt>>,
           dns_ip_cnt' \in Nat, dns_ip_nums' \in 0 .. MAX_DNS_IP, dns_ip_cnt' < dns_ip_nums'
    PROVE  IInv'
<1>1. PICK ok \in BOOLEAN :
          /\ BaseConnect(FALSE, ok) /\ UNCHANGED need_close
          /\ tag' = 0 => UNCHANGED is_server_mode
          /\ state' = IF ok THEN "CONNECTING" ELSE state
          /\ Result(IF ok THEN 1 ELSE -1, wait)
      BY DEF TryAddress
<1> DEFINE r == IF ok THEN 1 ELSE -1
<1>2. /\ r \in {-1, 0, 1} /\ r # 0 /\ wait \in {wait, "NONE"} /\ Result(r, wait)
      /\ ok => r = 1
      /\ ~ok => r # 1
      BY <1>1
<1> HIDE DEF r
<1>3. /\ cb' = NoCb
      /\ UNCHANGED <<by_name, tx_size, op, step, link, flips>>
      BY DEF Handled
<1>4. ~Connected BY DEF Connected
<1>5. ~crossed' => (Connected \/ (r = 0 /\ wait = "CONNECT") => Connected')
      BY <1>2, <1>4
<1>6. wait' \in {wait, "NONE"} /\ (~ok => wait' = "NONE") BY <1>2, <1>5, ResultFacts
<1>7. /\ Sockets' /\ unacked' = 0
      /\ ok => sock' # 0
      /\ sock' # 0 => conn'[sock'] \notin {"none", "closing", "closed"}
      BY <1>1, BaseConnectFacts
<1>8. Counters' BY <1>3, <1>7, CtrlAssumption DEF IInv, Counters
<1>9. attempt # 0 /\ Addressed' BY DEF IInv, Addressed
<1>s. UNCHANGED is_server_mode \/ (is_server_mode' = FALSE /\ attempt # 0)
      BY <1>1, <1>9 DEF BaseConnect
<1>10. Accounts'
  <2>1. ack_size \in Nat /\ tx_size \in Nat BY CtrlAssumption DEF IInv, Counters
  <2>2. ack_size <= tx_size /\ (step = "lock" /\ op = "tx" => tx_size < MaxTx)
        BY DEF IInv, Accounts
  <2>3. cb'.ev # "TX_OK" BY <1>3 DEF NoCb
  <2> QED BY <1>3, <1>7, <2>1, <2>2, <2>3 DEF Accounts
<1>11. state' \in {"WAIT_DNS", "CONNECTING"} /\ (state' = "CONNECTING" => ok \/ state = "CONNECTING")
       BY <1>1
<1>12. Holds'
  <2>1. state' = "CONNECTING" /\ wait' = "CONNECT" => sock' # 0 BY <1>6, <1>7, <1>11
  <2> QED BY <1>7, <1>11, <2>1 DEF Holds
<1>13. state' \in States /\ need_close' \in BOOLEAN /\ new_rx_flag' \in BOOLEAN
       BY <1>1, <1>11 DEF IInv, Control, Flags, States
<1> QED BY <1>2, <1>5, <1>7, <1>8, <1>9, <1>s, <1>10, <1>11, <1>12, <1>13, HandledStep

\* CONNECT_OK: if no event was crossed, it is that of the socket the ctrl holds.
LEMMA OnlineStep ==
    ASSUME IInv, Handled,
           state = "LISTEN" \/ (state = "CONNECTING" /\ wait = "CONNECT"),
           cb.ev = "CONNECT_OK", state' = "ONLINE", Result(0, wait),
           SameSocket, SameDns, SameFlags
    PROVE  IInv'
<1>1. UNCHANGED <<is_server_mode, sock, tag, conn, last_sock, unacked, dns_ip_cnt, dns_ip_nums, dns,
                  attempt, need_close, new_rx_flag, ack_size>>
      BY DEF SameSocket, SameDns, SameFlags
<1>2. /\ cb' = NoCb
      /\ UNCHANGED <<by_name, tx_size, op, step, link, flips>>
      BY DEF Handled
<1>3. sock # 0 BY DEF IInv, Holds
<1>4. ~crossed' => Connected'
  <2>1. SUFFICES ASSUME ~crossed' PROVE conn[sock] \in {"up", "fin", "failed"}
        BY <1>1, <1>3 DEF Connected
  <2>2. cb.of = tag BY <2>1 DEF Handled, SocketEvents
  <2>3. sock = tag BY <1>3 DEF IInv, Sockets
  <2>4. sock \in 1 .. MaxSock BY <1>3, CtrlAssumption DEF IInv, Sockets
  <2>5. conn[sock] \in ConnStates BY <2>4 DEF IInv, Sockets
  <2>6. conn[sock] \notin {"none", "opening", "binding", "listening"}
        BY <2>2, <2>3 DEF IInv, Delivered
  <2>7. conn[sock] \notin {"none", "closing", "closed"} BY <1>3 DEF IInv, Holds
  <2> QED BY <2>5, <2>6, <2>7 DEF ConnStates
<1>5. /\ 0 \in {-1, 0, 1} /\ wait \in {wait, "NONE"} /\ state' # "LISTEN"
      /\ ~crossed' => (Connected \/ (0 = 0 /\ wait = "CONNECT") => Connected')
      BY <1>4
<1>6. wait' = "NONE" BY DEF Result
<1>7. Counters' BY <1>1, <1>2 DEF IInv, Counters
<1>8. Sockets' BY <1>1 DEF IInv, Sockets
<1>9. Addressed' BY <1>1 DEF IInv, Addressed
<1>10. Accounts' BY <1>1, <1>2 DEF IInv, Accounts, NoCb
<1>11. Holds' BY <1>1, <1>3, <1>6 DEF IInv, Holds
<1>12. state' \in States /\ need_close' \in BOOLEAN /\ new_rx_flag' \in BOOLEAN
       BY <1>1 DEF IInv, Flags, States
<1> QED BY <1>1, <1>5, <1>7, <1>8, <1>9, <1>10, <1>11, <1>12, HandledStep

LEMMA MustCloseStep ==
    ASSUME IInv, Handled, state \in {"ONLINE", "LISTEN"}, MustClose
    PROVE  IInv'
<1>1. /\ UNCHANGED <<is_server_mode, state, sock, tag, conn, last_sock, unacked, dns_ip_cnt, dns_ip_nums, dns,
                     attempt, new_rx_flag, ack_size>>
      /\ need_close' = TRUE /\ Result(-1, wait)
      BY DEF MustClose, SameSocket, SameDns
<1>2. /\ cb' = NoCb
      /\ UNCHANGED <<by_name, tx_size, op, step, link, flips>>
      BY DEF Handled
<1>3. Connected => Connected' BY <1>1 DEF Connected
<1>4. -1 \in {-1, 0, 1} /\ -1 # 0 /\ wait \in {wait, "NONE"} OBVIOUS
<1>5. ~crossed' => (Connected \/ (-1 = 0 /\ wait = "CONNECT") => Connected')
      BY <1>3, <1>4
<1>6. wait' \in {wait, "NONE"} BY <1>1, <1>4, <1>5, ResultFacts
<1>7. Counters' BY <1>1, <1>2 DEF IInv, Counters
<1>8. Sockets' BY <1>1 DEF IInv, Sockets
<1>9. Addressed' BY <1>1 DEF IInv, Addressed
<1>10. Accounts' BY <1>1, <1>2 DEF IInv, Accounts, NoCb
<1>11. Holds' BY <1>1, <1>6 DEF IInv, Holds
<1>12. state' \in States /\ need_close' \in BOOLEAN /\ new_rx_flag' \in BOOLEAN
       BY <1>1 DEF IInv, Control, Flags
<1> QED BY <1>1, <1>4, <1>5, <1>7, <1>8, <1>9, <1>10, <1>11, <1>12, HandledStep

LEMMA LinkOffStep ==
    ASSUME IInv, Handled, LinkOff
    PROVE  IInv'
<1>1. /\ cb' = NoCb
      /\ UNCHANGED <<by_name, tx_size, op, step, link, flips>>
      BY DEF Handled
<1>2. state = "LINK_OFF" /\ ~Connected BY DEF LinkOff, Connected
<1>3. CASE Just(1) BY <1>3, JustStep
<1>4. CASE /\ wait # "CONNECT" /\ state' = "OFF_LINE"
           /\ Result(IF wait = "LINK" THEN 0 ELSE 1, wait)
           /\ SameSocket /\ SameDns /\ SameFlags
  <2> DEFINE r == IF wait = "LINK" THEN 0 ELSE 1
  <2>1. /\ UNCHANGED <<is_server_mode, sock, tag, conn, last_sock, unacked, dns_ip_cnt, dns_ip_nums, dns,
                       attempt, need_close, new_rx_flag, ack_size>>
        BY <1>4 DEF SameSocket, SameDns, SameFlags
  <2>2. r \in {-1, 0, 1} /\ wait \in {wait, "NONE"} /\ Result(r, wait) /\ state' # "LISTEN"
        BY <1>4
  <2> HIDE DEF r
  <2>3. ~crossed' => (Connected \/ (r = 0 /\ wait = "CONNECT") => Connected')
        BY <1>2, <1>4
  <2>4. Counters' BY <1>1, <2>1 DEF IInv, Counters
  <2>5. Sockets' BY <2>1 DEF IInv, Sockets
  <2>6. Addressed' BY <1>4, <2>1 DEF IInv, Addressed
  <2>7. Accounts' BY <1>1, <2>1 DEF IInv, Accounts, NoCb
  <2>8. Holds' BY <1>2, <1>4, <2>1 DEF IInv, Holds
  <2>9. state' \in States /\ need_close' \in BOOLEAN /\ new_rx_flag' \in BOOLEAN
        BY <1>4, <2>1 DEF IInv, Flags, States
  <2> QED BY <1>2, <1>4, <2>1, <2>2, <2>3, <2>4, <2>5, <2>6, <2>7, <2>8, <2>9, HandledStep
<1>5. ASSUME NEW ok \in BOOLEAN, wait = "CONNECT",
             UNCHANGED <<new_rx_flag, ack_size, dns_ip_cnt, dns_ip_nums, attempt,
                         is_server_mode>>,
             \/ /\ is_server_mode /\ BaseConnect(TRUE, ok)
                /\ ok => state' = "CONNECTING"
                /\ UNCHANGED dns
             \/ ~is_server_mode /\ PrepareConnect(by_name, ok),
             ok \/ state' = "OFF_LINE",
             Result(IF ok THEN 1 ELSE -1, wait),
             need_close' = (need_close /\ (sock = 0 \/ conn' = conn))
      PROVE  IInv'
  <2> DEFINE r == IF ok THEN 1 ELSE -1
  <2>1. /\ r \in {-1, 0, 1} /\ r # 0 /\ wait \in {wait, "NONE"} /\ Result(r, wait)
        BY <1>5
  <2> HIDE DEF r
  <2>2. ~crossed' => (Connected \/ (r = 0 /\ wait = "CONNECT") => Connected')
        BY <1>2, <2>1
  <2>3. \/ /\ state' = "WAIT_DNS" /\ dns' = dns \union {attempt} /\ ~is_server_mode
           /\ UNCHANGED <<sock, tag, conn, last_sock, unacked>>
        \/ /\ \E server \in BOOLEAN : BaseConnect(server, ok)
           /\ state' \in {"CONNECTING", "OFF_LINE"}
           /\ state' = "CONNECTING" => ok
           /\ is_server_mode \/ ~by_name
           /\ UNCHANGED dns
    <3>1. CASE is_server_mode /\ BaseConnect(TRUE, ok) /\ UNCHANGED dns
               /\ (ok => state' = "CONNECTING")
          BY <1>5, <3>1
    <3>2. CASE ~is_server_mode /\ PrepareConnect(by_name, ok)
          BY <1>5, <3>2 DEF PrepareConnect
    <3> QED BY <1>5, <3>1, <3>2
  <2>4. /\ Sockets' /\ unacked' \in {0, unacked}
        /\ sock' # 0 => unacked' = 0 \/ UNCHANGED <<sock, unacked>>
        /\ state' = "CONNECTING" => sock' # 0
        /\ sock' # 0 => conn'[sock'] \notin {"none", "closing", "closed"}
    <3>1. CASE state' = "WAIT_DNS" /\ UNCHANGED <<sock, tag, conn, last_sock, unacked>>
          BY <1>2, <3>1 DEF IInv, Sockets, Holds
    <3>2. CASE /\ \E server \in BOOLEAN : BaseConnect(server, ok)
               /\ state' = "CONNECTING" => ok
          BY <3>2, BaseConnectFacts
    <3> QED BY <2>3, <3>1, <3>2
  <2>5. Counters'
    <3>1. dns' \subseteq 1 .. attempt
      <4>1. dns \subseteq 1 .. attempt /\ attempt \in Nat
            BY CtrlAssumption DEF IInv, Counters
      <4>2. ~is_server_mode => attempt \in 1 .. attempt BY <1>5, <4>1 DEF IInv, Seen
      <4> QED BY <2>3, <4>1, <4>2
    <3>2. unacked' \in 0 .. MaxTx BY <2>4, CtrlAssumption DEF IInv, Counters
    <3> QED BY <1>1, <1>5, <3>1, <3>2 DEF IInv, Counters
  <2>6. Addressed' BY <1>1, <1>5, <2>3 DEF IInv, Addressed, Seen
  <2>7. Accounts'
    <3>1. ack_size \in Nat /\ tx_size \in Nat BY CtrlAssumption DEF IInv, Counters
    <3>2. Accounts BY DEF IInv
    <3>3. cb'.ev # "TX_OK" BY <1>1 DEF NoCb
    <3>4. sock' # 0 => ack_size + unacked' <= tx_size
      <4>1. CASE unacked' = 0 BY <3>1, <3>2, <4>1 DEF Accounts
      <4>2. CASE UNCHANGED <<sock, unacked>> BY <3>2, <4>2 DEF Accounts
      <4> QED BY <2>4, <4>1, <4>2
    <3>5. ack_size <= tx_size /\ (step = "lock" /\ op = "tx" => tx_size < MaxTx)
          BY <3>2 DEF Accounts
    <3> QED BY <1>1, <1>5, <3>3, <3>4, <3>5 DEF Accounts
  <2>8. Holds' BY <2>3, <2>4 DEF Holds
  <2>9. state' \in States /\ need_close' \in BOOLEAN /\ new_rx_flag' \in BOOLEAN
    <3>1. need_close' \in BOOLEAN BY <1>5 DEF IInv, Flags
    <3> QED BY <1>5, <2>3, <3>1 DEF IInv, Flags, States
  <2>10. state' # "DISCONNECTING" /\ state' # "LISTEN" BY <2>3
  <2> QED BY <1>2, <1>5, <2>1, <2>2, <2>4, <2>5, <2>6, <2>7, <2>8, <2>9, <2>10, HandledStep
<1> QED BY <1>3, <1>4, <1>5 DEF LinkOff

LEMMA WaitDnsStep ==
    ASSUME IInv, Handled, WaitDns
    PROVE  IInv'
<1>1. /\ cb' = NoCb
      /\ UNCHANGED <<by_name, tx_size, op, step, link, flips>>
      BY DEF Handled
<1>2. state = "WAIT_DNS" /\ ~Connected BY DEF WaitDns, Connected
<1>3. CASE Just(-1) \/ Just(1) BY <1>3, JustStep
<1>4. CASE /\ wait = "CONNECT" /\ dns_ip_nums' = 0
           /\ UNCHANGED <<state, dns_ip_cnt, dns, attempt>> /\ SameSocket /\ SameFlags
           /\ Result(-1, wait)
  <2>1. /\ UNCHANGED <<is_server_mode, sock, tag, conn, last_sock, unacked, need_close, new_rx_flag, ack_size>>
        BY <1>4 DEF SameSocket, SameFlags
  <2>2. -1 \in {-1, 0, 1} /\ -1 # 0 /\ wait \in {wait, "NONE"} OBVIOUS
  <2>3. ~crossed' => (Connected \/ (-1 = 0 /\ wait = "CONNECT") => Connected')
        BY <1>2, <2>2
  <2>4. Counters' BY <1>1, <1>4, <2>1, CtrlAssumption DEF IInv, Counters
  <2>5. Sockets' BY <2>1 DEF IInv, Sockets
  <2>6. Addressed' BY <1>2, <1>4 DEF IInv, Addressed
  <2>7. Accounts' BY <1>1, <2>1 DEF IInv, Accounts, NoCb
  <2>8. Holds' BY <1>2, <1>4, <2>1 DEF IInv, Holds
  <2>9. state' \in States /\ need_close' \in BOOLEAN /\ new_rx_flag' \in BOOLEAN
        BY <1>4, <2>1 DEF IInv, Control, Flags
  <2> QED BY <1>2, <1>4, <2>1, <2>2, <2>3, <2>4, <2>5, <2>6, <2>7, <2>8, <2>9, HandledStep
<1>5. CASE /\ wait = "CONNECT" /\ cb.n > 0
           /\ dns_ip_nums' = cb.n /\ dns_ip_cnt' = 0
           /\ TryAddress
           /\ UNCHANGED <<new_rx_flag, ack_size, dns, attempt>>
  <2>1. dns_ip_cnt' \in Nat /\ dns_ip_nums' \in 0 .. MAX_DNS_IP /\ dns_ip_cnt' < dns_ip_nums'
        BY <1>5, CtrlAssumption DEF IInv, Control
  <2> QED BY <1>2, <1>5, <2>1, TryAddressStep
<1> QED BY <1>3, <1>4, <1>5 DEF WaitDns

LEMMA ConnectingStep ==
    ASSUME IInv, Handled, Connecting
    PROVE  IInv'
<1>1. /\ cb' = NoCb
      /\ UNCHANGED <<by_name, tx_size, op, step, link, flips>>
      BY DEF Handled
<1>2. state = "CONNECTING" /\ ~Connected BY DEF Connecting, Connected
<1>3. CASE Just(-1) \/ Just(1) BY <1>3, JustStep
<1>4. CASE /\ wait = "CONNECT" /\ is_server_mode /\ state' = "LISTEN" /\ Result(1, wait)
           /\ SameSocket /\ SameDns /\ SameFlags
  <2>1. UNCHANGED <<is_server_mode, sock, tag, conn, last_sock, unacked, dns_ip_cnt, dns_ip_nums, dns,
                    attempt, need_close, new_rx_flag, ack_size>>
        BY <1>4 DEF SameSocket, SameDns, SameFlags
  <2>2. 1 \in {-1, 0, 1} /\ 1 # 0 /\ wait \in {wait, "NONE"} OBVIOUS
  <2>3. ~crossed' => (Connected \/ (1 = 0 /\ wait = "CONNECT") => Connected')
        BY <1>2, <2>2
  <2>4. Counters' BY <1>1, <2>1 DEF IInv, Counters
  <2>5. Sockets' BY <2>1 DEF IInv, Sockets
  <2>6. Addressed' BY <1>4, <2>1 DEF IInv, Addressed
  <2>7. Accounts' BY <1>1, <2>1 DEF IInv, Accounts, NoCb
  <2>8. Holds' BY <1>2, <1>4, <2>1 DEF IInv, Holds
  <2>9. state' \in States /\ need_close' \in BOOLEAN /\ new_rx_flag' \in BOOLEAN
        BY <1>4, <2>1 DEF IInv, Flags, States
  <2> QED BY <1>2, <1>4, <2>1, <2>2, <2>3, <2>4, <2>5, <2>6, <2>7, <2>8, <2>9, HandledStep
<1>5. CASE /\ wait = "CONNECT" /\ cb.ev = "CONNECT_OK" /\ state' = "ONLINE" /\ Result(0, wait)
           /\ SameSocket /\ SameDns /\ SameFlags
      BY <1>2, <1>5, OnlineStep
<1>6. CASE /\ wait = "CONNECT" /\ dns_ip_cnt' = dns_ip_cnt + 1 /\ ~NextAddress
           /\ UNCHANGED state /\ SameSocket /\ SameFlags /\ Result(-1, wait)
           /\ UNCHANGED <<dns_ip_nums, dns, attempt>>
  <2>1. UNCHANGED <<is_server_mode, sock, tag, conn, last_sock, unacked, need_close, new_rx_flag, ack_size>>
        BY <1>6 DEF SameSocket, SameFlags
  <2>2. -1 \in {-1, 0, 1} /\ -1 # 0 /\ wait \in {wait, "NONE"} OBVIOUS
  <2>3. ~crossed' => (Connected \/ (-1 = 0 /\ wait = "CONNECT") => Connected')
        BY <1>2, <2>2
  <2>4. wait' = "NONE" BY <1>2, <1>6 DEF Result
  <2>5. Counters' BY <1>1, <1>6, <2>1 DEF IInv, Counters
  <2>6. Sockets' BY <2>1 DEF IInv, Sockets
  <2>7. Addressed' BY <1>2, <1>6, <2>4 DEF IInv, Addressed
  <2>8. Accounts' BY <1>1, <2>1 DEF IInv, Accounts, NoCb
  <2>9. Holds' BY <1>2, <1>6, <2>1, <2>4 DEF IInv, Holds
  <2>10. state' \in States /\ need_close' \in BOOLEAN /\ new_rx_flag' \in BOOLEAN
        BY <1>6, <2>1 DEF IInv, Control, Flags
  <2> QED BY <1>2, <1>6, <2>1, <2>2, <2>3, <2>5, <2>6, <2>7, <2>8, <2>9, <2>10, HandledStep
<1>7. CASE /\ wait = "CONNECT" /\ dns_ip_cnt' = dns_ip_cnt + 1 /\ NextAddress
           /\ TryAddress
           /\ UNCHANGED <<new_rx_flag, ack_size, dns_ip_nums, dns, attempt>>
  <2>1. dns_ip_cnt' \in Nat /\ dns_ip_nums' \in 0 .. MAX_DNS_IP /\ dns_ip_cnt' < dns_ip_nums'
        BY <1>7 DEF IInv, Counters, NextAddress
  <2> QED BY <1>2, <1>7, <2>1, TryAddressStep
<1> QED BY <1>3, <1>4, <1>5, <1>6, <1>7 DEF Connecting

LEMMA OnLineEventStep ==
    ASSUME IInv, Handled, OnLine
    PROVE  IInv'
<1>1. /\ cb' = NoCb
      /\ UNCHANGED <<by_name, tx_size, op, step, link, flips>>
      BY DEF Handled
<1>2. state = "ONLINE" BY DEF OnLine
<1>3. CASE Just(-1) \/ Just(1) BY <1>3, JustStep
<1>4. CASE MustClose BY <1>2, <1>4, MustCloseStep
<1>5. ASSUME NEW r \in {0, 1}, Result(r, wait),
             ack_size' \in {ack_size, ack_size + 1},
             ack_size' = ack_size + 1 => cb.ev = "TX_OK",
             new_rx_flag' \in {TRUE, new_rx_flag},
             UNCHANGED <<state, need_close>>, SameSocket, SameDns
      PROVE  IInv'
  <2>1. UNCHANGED <<is_server_mode, sock, tag, conn, last_sock, unacked, dns_ip_cnt, dns_ip_nums, dns, attempt>>
        BY <1>5 DEF SameSocket, SameDns
  <2>2. /\ r \in {-1, 0, 1} /\ wait \in {wait, "NONE"} /\ state' # "LISTEN"
        BY <1>2, <1>5
  <2>3. ~crossed' => (Connected \/ (r = 0 /\ wait = "CONNECT") => Connected')
    <3>1. Connected => Connected' BY <1>5, <2>1 DEF Connected
    <3>2. wait # "CONNECT" BY <1>2 DEF IInv, Holds
    <3> QED BY <3>1, <3>2
  <2>4. wait' \in {wait, "NONE"} BY <1>5 DEF Result
  <2>5. /\ ack_size \in Nat /\ unacked \in Nat /\ tx_size \in 0 .. MaxTx
        /\ ack_size <= tx_size /\ (sock # 0 => ack_size + unacked <= tx_size)
        /\ cb.ev = "TX_OK" => ack_size + unacked + 1 <= tx_size
        BY <1>2, CtrlAssumption DEF IInv, Counters, Accounts
  <2>6. /\ ack_size' \in 0 .. MaxTx /\ ack_size' <= tx_size
        /\ sock # 0 => ack_size' + unacked <= tx_size
    <3>1. CASE ack_size' = ack_size BY <2>5, <3>1, CtrlAssumption
    <3>2. CASE ack_size' = ack_size + 1
      <4>1. ack_size + unacked + 1 <= tx_size BY <1>5, <2>5, <3>2
      <4> QED BY <2>5, <3>2, <4>1, CtrlAssumption
    <3> QED BY <1>5, <3>1, <3>2
  <2>7. Counters' BY <1>1, <2>1, <2>6 DEF IInv, Counters
  <2>8. Sockets' BY <2>1 DEF IInv, Sockets
  <2>9. Addressed' BY <1>2, <1>5, <2>1 DEF IInv, Addressed
  <2>10. Accounts'
    <3>1. step = "lock" /\ op = "tx" => tx_size < MaxTx BY DEF IInv, Accounts
    <3>2. cb'.ev # "TX_OK" BY <1>1 DEF NoCb
    <3> QED BY <1>1, <2>1, <2>6, <3>1, <3>2 DEF Accounts
  <2>11. Holds' BY <1>2, <1>5, <2>1, <2>4 DEF IInv, Holds
  <2>12. state' \in States /\ need_close' \in BOOLEAN /\ new_rx_flag' \in BOOLEAN
    <3>1. new_rx_flag' \in BOOLEAN BY <1>5 DEF IInv, Flags
    <3> QED BY <1>5, <3>1 DEF IInv, Control, Flags
  <2> QED BY <1>2, <1>5, <2>1, <2>2, <2>3, <2>7, <2>8, <2>9, <2>10, <2>11, <2>12, HandledStep
<1>6. CASE /\ cb.ev = "TX_OK" /\ ack_size' = ack_size + 1
           /\ UNCHANGED <<state, need_close, new_rx_flag>> /\ SameSocket /\ SameDns
           /\ Result(IF wait = "TX" /\ ack_size' = tx_size THEN 0 ELSE 1, wait)
  <2>1. PICK r \in {0, 1} : Result(r, wait) BY <1>6
  <2> QED BY <1>5, <1>6, <2>1
<1>7. CASE /\ new_rx_flag' = TRUE
           /\ UNCHANGED <<state, need_close, ack_size>> /\ SameSocket /\ SameDns
           /\ Result(IF wait = "TX" THEN 1 ELSE 0, wait)
  <2>1. PICK r \in {0, 1} : Result(r, wait) BY <1>7
  <2>2. ack_size' # ack_size + 1 BY <1>7, CtrlAssumption DEF IInv, Counters
  <2> QED BY <1>5, <1>7, <2>1, <2>2
<1> QED BY <1>3, <1>4, <1>6, <1>7 DEF OnLine

LEMMA ListeningStep ==
    ASSUME IInv, Handled, Listening
    PROVE  IInv'
<1>1. state = "LISTEN" BY DEF Listening
<1>2. CASE Just(-1) \/ Just(1) BY <1>2, JustStep
<1>3. CASE MustClose BY <1>1, <1>3, MustCloseStep
<1>4. CASE /\ cb.ev = "CONNECT_OK" /\ state' = "ONLINE" /\ Result(0, wait)
           /\ SameSocket /\ SameDns /\ SameFlags
      BY <1>1, <1>4, OnlineStep
<1> QED BY <1>2, <1>3, <1>4 DEF Listening

LEMMA DisconnectingStep ==
    ASSUME IInv, Handled, Disconnecting
    PROVE  IInv'
<1>1. /\ cb' = NoCb
      /\ UNCHANGED <<by_name, tx_size, op, step, link, flips>>
      BY DEF Handled
<1>2. state = "DISCONNECTING" /\ ~Connected BY DEF Disconnecting, Connected
<1>3. CASE Just(-1) \/ Just(1) BY <1>3, JustStep
<1>4. CASE /\ ForceCloseSocket /\ state' = "OFF_LINE"
           /\ Result(IF cb.ev = "LINK_UP" THEN -1 ELSE 0, "NONE")
           /\ UNCHANGED <<tag, last_sock, unacked, is_server_mode, ack_size, dns, attempt>>
  <2> DEFINE r == IF cb.ev = "LINK_UP" THEN -1 ELSE 0
  <2>1. /\ r \in {-1, 0, 1} /\ "NONE" \in {wait, "NONE"} /\ Result(r, "NONE")
        BY <1>4
  <2> HIDE DEF r
  <2>2. ~crossed' => (Connected \/ (r = 0 /\ "NONE" = "CONNECT") => Connected')
        BY <1>2
  <2>3. Sockets' /\ sock' = 0 BY <1>4, ForceCloseFacts
  <2>4. /\ dns_ip_cnt' = 0 /\ dns_ip_nums' = 0 /\ need_close' = FALSE /\ new_rx_flag' = FALSE
        BY <1>4 DEF ForceCloseSocket
  <2>5. Counters' BY <1>1, <1>4, <2>4, CtrlAssumption DEF IInv, Counters
  <2>6. Addressed' BY <1>4, <2>4 DEF Addressed
  <2>7. Accounts' BY <1>1, <1>4, <2>3 DEF IInv, Accounts, NoCb
  <2>8. Holds' BY <1>4, <2>3 DEF Holds
  <2>9. state' \in States /\ need_close' \in BOOLEAN /\ new_rx_flag' \in BOOLEAN
        BY <1>4, <2>4 DEF States
  <2> QED BY <1>2, <1>4, <2>1, <2>2, <2>3, <2>5, <2>6, <2>7, <2>8, <2>9, HandledStep
<1> QED BY <1>3, <1>4 DEF Disconnecting

LEMMA StateMachineStep ==
    ASSUME IInv, StateMachine
    PROVE  IInv'
<1>1. Handled BY DEF StateMachine, Handled
<1>2. CASE UNCHANGED <<wait, queue, state, need_close, new_rx_flag, ack_size>>
           /\ SameSocket /\ SameDns
  <2>1. Result(1, wait) BY <1>2 DEF Result
  <2>2. Just(1) BY <1>2, <2>1 DEF Just, SameFlags
  <2> QED BY <1>1, <2>2, JustStep
<1>3. CASE OffLine BY <1>1, <1>3, JustStep DEF OffLine
<1>4. CASE LinkOff \/ WaitDns \/ Connecting \/ OnLine \/ Listening \/ Disconnecting
      BY <1>1, <1>4, LinkOffStep, WaitDnsStep, ConnectingStep, OnLineEventStep, ListeningStep,
         DisconnectingStep
<1> QED BY <1>2, <1>3, <1>4 DEF StateMachine

-----------------------------------------------------------------------------
(* The theorems *)

LEMMA StutterInv ==
    ASSUME IInv, UNCHANGED vars
    PROVE  IInv'
<1> USE DEF vars, ctrlVars, appVars, netVars
<1>1. Flags' /\ Counters' /\ Control' BY TypesKept DEF IInv, Flags, Control, pastVars
<1>2. Sockets' /\ Delivered' BY SocketsKept
<1>3. QueueType' /\ Addressed' /\ Accounts' BY DEF IInv, QueueType, Addressed, Accounts
<1>4. Holds' /\ Seen' BY DEF IInv, Holds, Seen
<1>5. Waited' /\ Queued' BY DEF IInv, Waited, Queued, Wanted
<1>6. Successes' BY DEF IInv, Successes, Connected
<1> QED BY <1>1, <1>2, <1>3, <1>4, <1>5, <1>6 DEF IInv

LEMMA NextInv ==
    ASSUME IInv, [Next]_vars
    PROVE  IInv'
<1>1. CASE \E o \in Ops \ {"none"} : BeginOp(o) BY <1>1, BeginOpStep
<1>2. CASE DataIsThere BY <1>2, DataIsThereStep
<1>3. CASE LockedPart BY <1>3, LockedPartStep
<1>4. CASE TakeEvent BY <1>4, TakeEventStep
<1>5. CASE DropEvent BY <1>5, DropEventStep
<1>6. CASE TimerFires BY <1>6, TimerFiresStep
<1>7. CASE BreakWait BY <1>7, BreakWaitStep
<1>8. CASE NetAnswers BY <1>8, NetAnswersStep
<1>9. CASE NetHappens BY <1>9, NetHappensStep
<1>10. CASE StateMachine BY <1>10, StateMachineStep
<1>11. CASE UNCHANGED vars BY <1>11, StutterInv
<1> QED BY <1>1, <1>2, <1>3, <1>4, <1>5, <1>6, <1>7, <1>8, <1>9, <1>10, <1>11 DEF Next

LEMMA SpecInv == Spec => []IInv
BY InitInv, NextInv, PTL DEF Spec

\* Every variable keeps its type, the task's queue its length, and the address the ctrl
\* connects to is one of those found for its name, whatever the calls, the events and
\* the losses of the link.
THEOREM TypeCorrect == Spec => []TypeOK
BY SpecInv, InvTypeOK, PTL

\* No socket is left without an owner: the only one that is open below is the one the
\* ctrl holds, also after a retry with the next address, a call that overtakes an event
\* or a close that times out.
THEOREM NoLeak == Spec => []NoSocketLeak
BY SpecInv, InvNoLeak, PTL

\* As long as no call returned before its result came, a result in the task's queue is
\* that of the call that waits, and the only one of its kind.
THEOREM OneResult == Spec => []OneResultPerWait
BY SpecInv, InvOneResult, PTL

\* network_connect and network_listen take a success from the queue only when the ctrl
\* is on line with a socket that was connected.
THEOREM SuccessHasConnection == Spec => ConnectMeansOnline
<1>1. ASSUME IInv, TakeEvent, op \in {"connect", "listen"}, step' = "idle",
             Head(queue).ok, ~crossed
      PROVE  state = "ONLINE" /\ sock # 0 /\ conn[sock] \in {"up", "fin", "failed"}
  <2>1. queue # <<>> /\ step = "wait" BY <1>1 DEF TakeEvent
  <2>2. Head(queue) = queue[1] /\ 1 \in 1 .. Len(queue)
        BY <1>1, <2>1, TailFacts DEF IInv
  <2>3. Ends(Head(queue)) BY <1>1, <2>1 DEF TakeEvent
  <2>4. queue[1].id # "TIMEOUT" BY <1>1, <2>2 DEF IInv, Successes
  <2>5. queue[1].id = "CONNECT" BY <1>1, <2>2, <2>3, <2>4 DEF Ends, Wanted
  <2> QED BY <1>1, <2>2, <2>5 DEF IInv, Successes, Connected
<1>2. IInv =>
        [/\ TakeEvent /\ op \in {"connect", "listen"} /\ step' = "idle"
         /\ Head(queue).ok /\ ~crossed
         => state = "ONLINE" /\ sock # 0 /\ conn[sock] \in {"up", "fin", "failed"}]_vars
      BY <1>1
<1> QED BY <1>2, SpecInv, PTL DEF ConnectMeansOnline
=============================================================================
