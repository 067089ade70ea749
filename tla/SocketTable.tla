----------------------------- MODULE SocketTable -----------------------------
(***************************************************************************)
(* The socket table of luatos_lwip_socket/src/luat_lwip_ec618.c: the slots *)
(* prvlwip.socket[0..MAX_SOCK_NUM-1], the FIFO mailbox of the lwIP thread  *)
(* (platform_send_event / net_lwip_task), the lwIP callbacks that run in   *)
(* that thread, and the socket operations the network adapter performs on  *)
(* behalf of a network_ctrl_t, from the application's task or from inside  *)
(* a callback.                                                             *)
(*                                                                         *)
(* Most operations on a network_ctrl_t hold its NW_LOCK, a binary          *)
(* semaphore and not a recursive mutex: of those one is in progress at a   *)
(* time.  Two ways to close take no lock: network_force_close_socket,      *)
(* which libemqtt calls from three threads, and the                        *)
(* network_socket_force_close with which a blocking network_close ends.    *)
(* So there are two callers per ctrl, one under the lock and one without   *)
(* it.  The callers of all ctrls, and the lwIP thread, interleave between  *)
(* the steps of an operation.                                              *)
(*                                                                         *)
(* The bytes a socket carries are the subject of module SocketStream.      *)
(***************************************************************************)
EXTENDS Integers, Sequences

CONSTANTS
    MAX_SOCK_NUM,       \* LWIP_NUM_SOCKETS (8 in the code)
    Ctrls,              \* the network_ctrl_t objects
    Unlocked,           \* those that a second thread closes without NW_LOCK
    Modes,              \* what they open: TCP "client", TCP "server" or "udp"
    NoCtrl,             \* the NULL of socket_ctrl_t.param
    TCPIP_MBOX_SIZE,    \* capacity of the mailbox of the lwIP thread
    MaxTag              \* bound: how many sockets a behaviour creates

ASSUME ConstantsAssumption ==
    /\ MAX_SOCK_NUM \in Nat \ {0}
    /\ Modes \subseteq {"client", "server", "udp"}
    /\ Unlocked \subseteq Ctrls
    /\ NoCtrl \notin Ctrls
    /\ TCPIP_MBOX_SIZE \in Nat \ {0}
    /\ MaxTag \in Nat

Socks == 0 .. MAX_SOCK_NUM - 1

\* a call in progress on a ctrl: the one that holds NW_LOCK, or one that does not
Locked(c) == <<c, "lock">>
Callers == {Locked(c) : c \in Ctrls} \union {<<c, "free">> : c \in Unlocked}
Of(o) == o[1]

VARIABLES
    in_use, state, remote_close, is_tcp, tag, param,    \* socket_ctrl_t
    pcb,                \* socket_ctrl_t.pcb: what it points at
    listen_tcp,         \* socket_ctrl_t.listen_tcp # NULL
    next_socket_index, socket_tag,                      \* prvlwip
    mailbox,            \* messages posted to net_lwip_task, oldest first
    orphans,            \* live pcbs no slot points at any more
    socket_id, ctag,    \* network_ctrl_t.socket_id and .tag
    pc,                 \* by caller: the step its operation has reached
    thr,                \* the thread that performs it
    mode,               \* what it opens: ctrl->is_tcp and remote_ip # NULL
    slot,               \* the socket_id argument or local of that operation
    todo,               \* the slots net_lwip_socket_clean has still to visit
    cb,                 \* the callback the lwIP thread is delivering
    own,                \* history: the socket tag a pcb was made for
    meddled,            \* history: somebody set about closing another's slot
    crossed,            \* history: two calls on one ctrl overlapped
    overrun             \* history: a second peer was accepted by a slot

slotVars == <<in_use, state, remote_close, is_tcp, tag, param, pcb, listen_tcp,
              next_socket_index, socket_tag, own>>
ctrlVars == <<socket_id, ctag, pc, thr, mode, slot, todo>>
history == <<meddled, crossed, overrun>>
vars == <<slotVars, mailbox, orphans, ctrlVars, cb, history>>

Requests == {"TX", "CREATE", "CONNECT", "LISTEN", "CLOSE"}
Events == {"CONNECT_OK", "ERROR", "REMOTE_CLOSE", "CLOSE_OK", "LISTEN"}
PcbStates == {"null", "new", "syn", "est", "fin", "udp"}
Steps == {"idle", "created", "opened", "post_open", "clean", "cleaning",
          "cleaning_mark", "cleaning_post", "retry", "sweep", "sweeping",
          "sweeping_mark", "sweeping_post", "disc", "disc_post", "force",
          "force_mark", "force_post", "drop", "send", "selflock"}
Threads == {"task", "tcpip"}

NoCb == [ctrl |-> NoCtrl, ev |-> "CLOSE_OK", tag |-> 0, origin |-> 0,
         run |-> FALSE]

(***************************************************************************)
(* sock of a message is event.Param1, notify is event.Param2 of a CLOSE.   *)
(* own is history: the tag of the socket the poster meant.                 *)
(***************************************************************************)
Message == [id : Requests, sock : Socks, notify : BOOLEAN, own : Nat]

Init ==
    /\ in_use = [s \in Socks |-> FALSE]
    /\ state = [s \in Socks |-> 0]
    /\ remote_close = [s \in Socks |-> FALSE]
    /\ is_tcp = [s \in Socks |-> FALSE]
    /\ tag = [s \in Socks |-> 0]
    /\ param = [s \in Socks |-> NoCtrl]
    /\ pcb = [s \in Socks |-> "null"]
    /\ listen_tcp = [s \in Socks |-> FALSE]
    /\ own = [s \in Socks |-> 0]
    /\ next_socket_index = 0
    /\ socket_tag = 0
    /\ mailbox = <<>>
    /\ orphans = {}
    /\ socket_id = [c \in Ctrls |-> -1]
    /\ ctag = [c \in Ctrls |-> 0]
    /\ pc = [o \in Callers |-> "idle"]
    /\ thr = [o \in Callers |-> "task"]
    /\ mode = [o \in Callers |-> "none"]
    /\ slot = [o \in Callers |-> 0]
    /\ todo = [o \in Callers |-> {}]
    /\ cb = NoCb
    /\ meddled = FALSE
    /\ crossed = FALSE
    /\ overrun = FALSE

-----------------------------------------------------------------------------
(* Helpers *)

\* mutant: the tag is not compared
CheckSocketAnyTag(c) ==
    /\ socket_id[c] \in Socks
    /\ in_use[socket_id[c]]
    /\ state[socket_id[c]] = 0

\* net_lwip_check_socket of the socket a ctrl holds
CheckSocket(c) ==
    /\ socket_id[c] \in Socks
    /\ tag[socket_id[c]] = ctag[c]
    /\ in_use[socket_id[c]]
    /\ state[socket_id[c]] = 0

\* platform_send_event: blocks while the mailbox is full
Post(id, s, n, t) ==
    /\ Len(mailbox) < TCPIP_MBOX_SIZE
    /\ mailbox' = Append(mailbox, [id |-> id, sock |-> s, notify |-> n, own |-> t])

\* net_lwip_callback_to_nw_task and the tag comparison of
\* network_default_socket_callback: an event for ctrl c about a socket tagged t
\* is dropped unless the ctrl still has that tag.  from is the tag of the
\* socket whose pcb or request caused the event.
Deliver(c, ev, t, from) ==
    cb' = IF c \in Ctrls /\ ctag[c] = t
          THEN [ctrl |-> c, ev |-> ev, tag |-> t, origin |-> from, run |-> FALSE]
          ELSE NoCb

Notify(s, ev, from) == Deliver(param[s], ev, tag[s], from)

\* net_lwip_tcp_error
TcpError(s, from) ==
    /\ remote_close' = [remote_close EXCEPT ![s] = TRUE]
    /\ Notify(s, "ERROR", from)

\* mutant: the slot is taken without looking
NextSlotUnseen(s) == s = next_socket_index

\* the slot net_lwip_create_socket takes
NextSlot(s) ==
    LET n == next_socket_index IN
    /\ ~in_use[s]
    /\ \/ s = n
       \/ in_use[n] /\ s > n /\ \A i \in Socks : n < i /\ i < s => in_use[i]
       \/ (\A i \in Socks : i >= n => in_use[i]) /\ \A i \in Socks : i < s => in_use[i]

\* Caller o starts an operation on its ctrl, in the application's task, or in the
\* lwIP thread while that is inside a callback for the ctrl.  For the caller under
\* the lock NW_LOCK is free; nothing keeps the other one from starting at any time.
MayStart(o, t) ==
    /\ pc[o] = "idle"
    /\ t = "tcpip" => cb.run /\ cb.ctrl = Of(o) /\ \A p \in Callers : thr[p] = "task"
    /\ crossed' = (crossed \/ \E p \in Callers \ {o} : Of(p) = Of(o) /\ pc[p] # "idle")

Goto(o, step) == pc' = [pc EXCEPT ![o] = step]

\* the operation returns: its thread, its argument and its local are gone
Finish(o) ==
    /\ Goto(o, "idle")
    /\ thr' = [thr EXCEPT ![o] = "task"]
    /\ mode' = [mode EXCEPT ![o] = "none"]
    /\ slot' = [slot EXCEPT ![o] = 0]

-----------------------------------------------------------------------------
(* Opening a socket: network_base_connect and network_create_soceket *)

\* mutant: the index does not wrap
TakeSlotNoWrap(c, s, m) ==
    /\ next_socket_index' = s + 1
    /\ socket_tag' = socket_tag + 1
    /\ ctag' = [ctag EXCEPT ![c] = socket_tag + 1]
    /\ in_use' = [in_use EXCEPT ![s] = TRUE]
    /\ tag' = [tag EXCEPT ![s] = socket_tag + 1]
    /\ param' = [param EXCEPT ![s] = c]
    /\ is_tcp' = [is_tcp EXCEPT ![s] = m # "udp"]

\* mutant: the slot keeps the tag of its last socket
TakeSlotOldTag(c, s, m) ==
    /\ next_socket_index' = IF s + 1 >= MAX_SOCK_NUM THEN 0 ELSE s + 1
    /\ socket_tag' = socket_tag + 1
    /\ ctag' = [ctag EXCEPT ![c] = socket_tag + 1]
    /\ in_use' = [in_use EXCEPT ![s] = TRUE]
    /\ param' = [param EXCEPT ![s] = c]
    /\ is_tcp' = [is_tcp EXCEPT ![s] = m # "udp"]
    /\ UNCHANGED tag

\* the part of net_lwip_create_socket under OS_LOCK: slot s is c's from now on
TakeSlot(c, s, m) ==
    /\ next_socket_index' = IF s + 1 >= MAX_SOCK_NUM THEN 0 ELSE s + 1
    /\ socket_tag' = socket_tag + 1
    /\ ctag' = [ctag EXCEPT ![c] = socket_tag + 1]
    /\ in_use' = [in_use EXCEPT ![s] = TRUE]
    /\ tag' = [tag EXCEPT ![s] = socket_tag + 1]
    /\ param' = [param EXCEPT ![s] = c]
    /\ is_tcp' = [is_tcp EXCEPT ![s] = m # "udp"]

\* net_lwip_create_socket up to OS_UNLOCK: it takes a free slot for c, or has none
FoundSlot(o, m) ==
    \E s \in Socks :
        /\ socket_tag < MaxTag
        /\ NextSlot(s)
        /\ TakeSlot(Of(o), s, m)
        /\ slot' = [slot EXCEPT ![o] = s]
        /\ Goto(o, "created")

NoSlot(c) ==
    /\ \A s \in Socks : in_use[s]
    /\ ctag' = [ctag EXCEPT ![c] = 0]
    /\ UNCHANGED <<next_socket_index, socket_tag, in_use, tag, param, is_tcp>>

CreateLeaves ==
    UNCHANGED <<state, remote_close, pcb, listen_tcp, own, mailbox, orphans,
                socket_id, todo, cb, meddled, overrun>>

\* without a free slot network_base_connect cleans the table ...
StartCreate(o, t) ==
    /\ MayStart(o, t)
    /\ socket_id[Of(o)] = -1
    /\ thr' = [thr EXCEPT ![o] = t]
    /\ \E m \in Modes :
          /\ mode' = [mode EXCEPT ![o] = m]
          /\ \/ FoundSlot(o, m)
             \/ NoSlot(Of(o)) /\ Goto(o, "clean") /\ UNCHANGED slot
    /\ CreateLeaves

\* ... and tries once more
RetryCreate(o) ==
    /\ pc[o] = "retry"
    /\ \/ FoundSlot(o, mode[o]) /\ UNCHANGED <<thr, mode>>
       \/ NoSlot(Of(o)) /\ Finish(o)
    /\ CreateLeaves
    /\ UNCHANGED crossed

\* tcp_new or udp_new and the set-up of the new pcb
NewPcb(s) ==
    /\ pcb' = [pcb EXCEPT ![s] = IF is_tcp[s] THEN "new" ELSE "udp"]
    /\ own' = [own EXCEPT ![s] = tag[s]]

\* the rest of net_lwip_create_socket: the request to make the pcb, or the pcb
\* itself when the caller is the lwIP thread.  When the pcb pool is exhausted in
\* the latter case net_lwip_tcp_error calls back into the state machine of c,
\* which takes NW_LOCK a second time
CreatePost(o) ==
    LET c == Of(o) IN
    /\ pc[o] = "created"
    /\ \/ /\ thr[o] = "task"
          /\ Post("CREATE", slot[o], FALSE, ctag[c])
          /\ socket_id' = [socket_id EXCEPT ![c] = slot[o]]
          /\ Goto(o, "opened")
          /\ UNCHANGED <<pcb, own, remote_close>>
       \/ /\ thr[o] = "tcpip"
          /\ NewPcb(slot[o])
          /\ socket_id' = [socket_id EXCEPT ![c] = slot[o]]
          /\ Goto(o, "opened")
          /\ UNCHANGED <<mailbox, remote_close>>
       \/ /\ thr[o] = "tcpip"
          /\ remote_close' = [remote_close EXCEPT ![slot[o]] = TRUE]
          /\ Goto(o, "selflock")
          /\ UNCHANGED <<mailbox, pcb, own, socket_id>>
    /\ UNCHANGED <<mode, in_use, state, is_tcp, tag, param, listen_tcp,
                   next_socket_index, socket_tag, orphans, ctag, thr, slot,
                   todo, cb, history>>

\* mutant: the ctrl forgets a number it cannot open
OpenCheckForgets(o) ==
    /\ pc[o] = "opened"
    /\ socket_id' = [socket_id EXCEPT ![Of(o)] = -1]
    /\ Finish(o)
    /\ UNCHANGED <<slotVars, mailbox, orphans, ctag, todo, cb, history>>

\* net_lwip_socket_connect or net_lwip_socket_listen: the check; a client whose
\* check fails gives the slot up by its number, a server keeps it
OpenCheck(o) ==
    LET c == Of(o) IN
    /\ pc[o] = "opened"
    /\ \/ CheckSocket(c) /\ Goto(o, "post_open") /\ UNCHANGED <<thr, mode, slot>>
       \/ ~CheckSocket(c) /\ (mode[o] = "server" \/ socket_id[c] = -1) /\ Finish(o)
       \/ /\ ~CheckSocket(c) /\ mode[o] # "server" /\ socket_id[c] # -1
          /\ Goto(o, "force") /\ UNCHANGED <<thr, mode, slot>>
    /\ UNCHANGED <<slotVars, mailbox, orphans, socket_id, ctag, todo, cb, history>>

\* ... and the request
OpenPost(o) ==
    /\ pc[o] = "post_open"
    /\ Post(IF mode[o] = "server" THEN "LISTEN" ELSE "CONNECT", slot[o], FALSE,
            ctag[Of(o)])
    /\ Finish(o)
    /\ UNCHANGED <<slotVars, orphans, socket_id, ctag, todo, cb, history>>

-----------------------------------------------------------------------------
(* Cleaning the table: network_clean_invaild_socket *)

\* every ctrl whose socket is no longer valid loses it; the list of the valid
\* ones decides which slots net_lwip_socket_clean closes.  It keeps an id only
\* when it is greater than 0
CleanScan(o) ==
    LET valid == {d \in Ctrls : CheckSocket(d)}
        kept == {socket_id[d] : d \in valid} \ {0}
    IN  /\ \/ pc[o] = "clean" /\ Goto(o, "cleaning")
           \/ pc[o] = "sweep" /\ Goto(o, "sweeping")
        /\ socket_id' = [d \in Ctrls |-> IF d \in valid THEN socket_id[d] ELSE -1]
        /\ todo' = [todo EXCEPT ![o] = Socks \ kept]
        /\ UNCHANGED <<mode, slotVars, mailbox, orphans, ctag, thr, slot, cb, history>>

\* one turn of the loop of net_lwip_socket_clean: the test of
\* net_lwip_socket_force_close
CleanSlot(o) ==
    /\ \E s \in todo[o] :
          /\ \A i \in todo[o] : s <= i
          /\ todo' = [todo EXCEPT ![o] = todo[o] \ {s}]
          /\ IF in_use[s] /\ state[s] = 0
             THEN /\ \/ pc[o] = "cleaning" /\ Goto(o, "cleaning_mark")
                     \/ pc[o] = "sweeping" /\ Goto(o, "sweeping_mark")
                  /\ slot' = [slot EXCEPT ![o] = s]
                  /\ meddled' = (meddled \/ \E d \in Ctrls : ctag[d] = tag[s])
             ELSE /\ pc[o] \in {"cleaning", "sweeping"}
                  /\ UNCHANGED <<pc, slot, meddled>>
    /\ UNCHANGED <<mode, slotVars, mailbox, orphans, socket_id, ctag, thr, cb,
                   crossed, overrun>>

\* an opening tries again; a closing goes on with network_socket_force_close, if the
\* ctrl has a number
CleanDone(o) ==
    LET c == Of(o) IN
    /\ todo[o] = {}
    /\ \/ pc[o] = "cleaning" /\ Goto(o, "retry") /\ UNCHANGED slot
       \/ /\ pc[o] = "sweeping" /\ socket_id[c] \in Socks
          /\ Goto(o, "force")
          /\ slot' = [slot EXCEPT ![o] = socket_id[c]]
       \/ /\ pc[o] = "sweeping" /\ socket_id[c] = -1
          /\ Goto(o, "drop") /\ UNCHANGED slot
    /\ UNCHANGED <<slotVars, mailbox, orphans, socket_id, ctag, thr, mode, todo, cb,
                   history>>

-----------------------------------------------------------------------------
(* Closing a socket *)

\* the operation begins, about the slot the ctrl has the number of
Begin(o, t, step) ==
    /\ Goto(o, step)
    /\ thr' = [thr EXCEPT ![o] = t]
    /\ slot' = [slot EXCEPT ![o] = socket_id[Of(o)]]
    /\ UNCHANGED <<mode, slotVars, mailbox, orphans, socket_id, ctag, todo, cb,
                   meddled, overrun>>

\* network_socket_disconnect: net_lwip_socket_disconnect checks the socket
\* (step disc), marks it and posts the CLOSE that asks for CLOSE_OK
Disconnect(o, t) ==
    /\ MayStart(o, t)
    /\ CheckSocket(Of(o))
    /\ Begin(o, t, "disc")

\* network_force_close_socket -> net_lwip_socket_close.  A slot no longer used needs
\* nothing; a slot tagged for somebody else makes the adapter clean the table
Close(o, t) ==
    LET c == Of(o)
        s == socket_id[c]
    IN
    /\ MayStart(o, t)
    /\ s \in Socks
    /\ \/ tag[s] = ctag[c] /\ in_use[s] /\ Begin(o, t, "force")
       \/ tag[s] = ctag[c] /\ ~in_use[s] /\ Begin(o, t, "drop")
       \/ tag[s] # ctag[c] /\ Begin(o, t, "sweep")

\* network_socket_force_close at the end of a network_close that waited for
\* CLOSE_OK, after NW_UNLOCK: the slot is named by its number alone
ForceClose(o, t) ==
    /\ MayStart(o, t)
    /\ t = "task"
    /\ socket_id[Of(o)] \in Socks
    /\ Begin(o, t, "force")

\* mutant: a socket already closing is closed again
ForceTestTwice(o) ==
    /\ pc[o] = "force"
    /\ IF in_use[slot[o]] THEN Goto(o, "force_mark") ELSE Goto(o, "drop")
    /\ meddled' = (meddled \/ (in_use[slot[o]] /\ tag[slot[o]] # ctag[Of(o)]))
    /\ UNCHANGED <<slotVars, mailbox, orphans, socket_id, ctag, thr, mode, slot,
                   todo, cb, crossed, overrun>>

\* the test of net_lwip_socket_force_close
ForceTest(o) ==
    LET open == in_use[slot[o]] /\ state[slot[o]] = 0 IN
    /\ pc[o] = "force"
    /\ IF open THEN Goto(o, "force_mark") ELSE Goto(o, "drop")
    /\ meddled' = (meddled \/ (open /\ tag[slot[o]] # ctag[Of(o)]))
    /\ UNCHANGED <<slotVars, mailbox, orphans, socket_id, ctag, thr, mode, slot,
                   todo, cb, crossed, overrun>>

\* state = 1 of net_lwip_socket_disconnect and net_lwip_socket_force_close, whatever
\* has happened to the slot since it was tested ...
MarkClosing(o) ==
    /\ \/ pc[o] = "disc" /\ Goto(o, "disc_post")
       \/ pc[o] = "force_mark" /\ Goto(o, "force_post")
       \/ pc[o] = "cleaning_mark" /\ Goto(o, "cleaning_post")
       \/ pc[o] = "sweeping_mark" /\ Goto(o, "sweeping_post")
    /\ state' = [state EXCEPT ![slot[o]] = 1]
    /\ UNCHANGED <<mode, in_use, remote_close, is_tcp, tag, param, pcb, listen_tcp,
                   next_socket_index, socket_tag, own, mailbox, orphans,
                   socket_id, ctag, thr, slot, todo, cb, history>>

Posts == {"disc_post", "force_post", "cleaning_post", "sweeping_post"}

\* ... and the CLOSE request; only a disconnect asks to be told
ClosePost(o) ==
    /\ pc[o] \in Posts
    /\ Post("CLOSE", slot[o], pc[o] = "disc_post", tag[slot[o]])
    /\ \/ pc[o] = "disc_post" /\ Finish(o)
       \/ pc[o] = "force_post" /\ Goto(o, "drop") /\ UNCHANGED <<thr, mode, slot>>
       \/ /\ pc[o] = "cleaning_post" /\ Goto(o, "cleaning")
          /\ slot' = [slot EXCEPT ![o] = 0] /\ UNCHANGED <<thr, mode>>
       \/ /\ pc[o] = "sweeping_post" /\ Goto(o, "sweeping")
          /\ slot' = [slot EXCEPT ![o] = 0] /\ UNCHANGED <<thr, mode>>
    /\ UNCHANGED <<slotVars, orphans, socket_id, ctag, todo, cb, history>>

\* socket_id = -1, with which network_socket_force_close and
\* network_force_close_socket end
Drop(o) ==
    /\ pc[o] = "drop"
    /\ socket_id' = [socket_id EXCEPT ![Of(o)] = -1]
    /\ Finish(o)
    /\ UNCHANGED <<slotVars, mailbox, orphans, ctag, todo, cb, history>>

-----------------------------------------------------------------------------
(* Sending: net_lwip_socket_send checks the socket, queues, and posts TX *)

Send(o, t) ==
    /\ MayStart(o, t)
    /\ CheckSocket(Of(o))
    /\ Begin(o, t, "send")

SendPost(o) ==
    /\ pc[o] = "send"
    /\ Post("TX", slot[o], FALSE, ctag[Of(o)])
    /\ Finish(o)
    /\ UNCHANGED <<slotVars, orphans, socket_id, ctag, todo, cb, history>>

-----------------------------------------------------------------------------
(* The lwIP thread: net_lwip_task takes one message and handles it *)

Take(id) ==
    /\ cb = NoCb
    /\ mailbox # <<>>
    /\ Head(mailbox).id = id
    /\ mailbox' = Tail(mailbox)

\* EV_LWIP_SOCKET_TX on a slot that is free or has no pcb reports an error to
\* whoever the slot belongs to
HandleTx ==
    LET s == Head(mailbox).sock IN
    /\ Take("TX")
    /\ IF in_use[s] /\ pcb[s] # "null"
       THEN UNCHANGED cb
       ELSE Notify(s, "ERROR", Head(mailbox).own)
    /\ UNCHANGED <<slotVars, orphans, ctrlVars, history>>

\* EV_LWIP_SOCKET_CREATE: net_lwip_create_socket_now
HandleCreate ==
    LET s == Head(mailbox).sock IN
    /\ Take("CREATE")
    /\ \/ NewPcb(s) /\ UNCHANGED <<remote_close, cb>>
       \/ TcpError(s, Head(mailbox).own) /\ UNCHANGED <<pcb, own>>
    /\ UNCHANGED <<in_use, state, is_tcp, tag, param, listen_tcp,
                   next_socket_index, socket_tag, orphans, ctrlVars, history>>

\* EV_LWIP_SOCKET_CONNECT: an unusable slot is an error; tcp_connect may start or
\* fail; udp_connect succeeds or fails at once
HandleConnect ==
    LET s == Head(mailbox).sock
        from == Head(mailbox).own
    IN
    /\ Take("CONNECT")
    /\ \/ /\ ~in_use[s] \/ pcb[s] = "null"
          /\ Notify(s, "ERROR", from)
          /\ UNCHANGED <<remote_close, pcb>>
       \/ /\ in_use[s] /\ pcb[s] # "null" /\ is_tcp[s]
          /\ pcb' = [pcb EXCEPT ![s] = "syn"]
          /\ UNCHANGED <<remote_close, cb>>
       \/ /\ in_use[s] /\ pcb[s] # "null"
          /\ TcpError(s, from)
          /\ UNCHANGED pcb
       \/ /\ in_use[s] /\ pcb[s] # "null" /\ ~is_tcp[s]
          /\ \E ev \in {"CONNECT_OK", "ERROR"} : Notify(s, ev, from)
          /\ UNCHANGED <<remote_close, pcb>>
    /\ UNCHANGED <<in_use, state, is_tcp, tag, param, listen_tcp, own,
                   next_socket_index, socket_tag, orphans, ctrlVars, history>>

\* EV_LWIP_SOCKET_LISTEN
HandleListen ==
    LET s == Head(mailbox).sock
        from == Head(mailbox).own
    IN
    /\ Take("LISTEN")
    /\ \/ /\ ~in_use[s] \/ pcb[s] = "null"
          /\ Notify(s, "ERROR", from)
          /\ UNCHANGED <<remote_close, pcb, listen_tcp>>
       \/ /\ in_use[s] /\ pcb[s] # "null"
          /\ listen_tcp' = [listen_tcp EXCEPT ![s] = TRUE]
          /\ pcb' = [pcb EXCEPT ![s] = "null"]
          /\ Notify(s, "LISTEN", from)
          /\ UNCHANGED remote_close
       \/ /\ in_use[s] /\ pcb[s] # "null"
          /\ TcpError(s, from)
          /\ UNCHANGED <<pcb, listen_tcp>>
    /\ UNCHANGED <<in_use, state, is_tcp, tag, param, own, next_socket_index,
                   socket_tag, orphans, ctrlVars, history>>

\* mutant: the closing mark stays
CloseDoneKeepsState(s, notify, from) ==
    /\ pcb' = [pcb EXCEPT ![s] = "null"]
    /\ own' = [own EXCEPT ![s] = 0]
    /\ listen_tcp' = [listen_tcp EXCEPT ![s] = FALSE]
    /\ remote_close' = [remote_close EXCEPT ![s] = FALSE]
    /\ in_use' = [in_use EXCEPT ![s] = FALSE]
    /\ param' = [param EXCEPT ![s] = NoCtrl]
    /\ UNCHANGED state
    /\ IF notify THEN Notify(s, "CLOSE_OK", from) ELSE UNCHANGED cb

\* mutant: the pcb goes on calling back
CloseDoneKeepsPcb(s, notify, from) ==
    /\ listen_tcp' = [listen_tcp EXCEPT ![s] = FALSE]
    /\ remote_close' = [remote_close EXCEPT ![s] = FALSE]
    /\ state' = [state EXCEPT ![s] = 0]
    /\ in_use' = [in_use EXCEPT ![s] = FALSE]
    /\ param' = [param EXCEPT ![s] = NoCtrl]
    /\ UNCHANGED <<pcb, own>>
    /\ IF notify THEN Notify(s, "CLOSE_OK", from) ELSE UNCHANGED cb

\* net_lwip_close_tcp or udp_remove, then net_lwip_tcp_close_done: the slot
\* becomes free and its owner is told when the request says so
CloseDone(s, notify, from) ==
    /\ pcb' = [pcb EXCEPT ![s] = "null"]
    /\ own' = [own EXCEPT ![s] = 0]
    /\ listen_tcp' = [listen_tcp EXCEPT ![s] = FALSE]
    /\ remote_close' = [remote_close EXCEPT ![s] = FALSE]
    /\ state' = [state EXCEPT ![s] = 0]
    /\ in_use' = [in_use EXCEPT ![s] = FALSE]
    /\ param' = [param EXCEPT ![s] = NoCtrl]
    /\ IF notify THEN Notify(s, "CLOSE_OK", from) ELSE UNCHANGED cb

\* mutant: a slot whose peer has closed is left as it is
HandleCloseNoRemote ==
    LET m == Head(mailbox)
        s == m.sock
    IN
    /\ Take("CLOSE")
    /\ IF in_use[s] /\ (listen_tcp[s] \/ pcb[s] # "null")
       THEN CloseDone(s, m.notify, m.own)
       ELSE UNCHANGED <<pcb, own, listen_tcp, remote_close, state, in_use, param, cb>>
    /\ UNCHANGED <<is_tcp, tag, next_socket_index, socket_tag, orphans,
                   ctrlVars, history>>

\* mutant: any slot in use is freed
HandleCloseAlways ==
    LET m == Head(mailbox)
        s == m.sock
    IN
    /\ Take("CLOSE")
    /\ IF in_use[s]
       THEN CloseDone(s, m.notify, m.own)
       ELSE UNCHANGED <<pcb, own, listen_tcp, remote_close, state, in_use, param, cb>>
    /\ UNCHANGED <<is_tcp, tag, next_socket_index, socket_tag, orphans,
                   ctrlVars, history>>

\* EV_LWIP_SOCKET_CLOSE.  Nothing happens to a slot that is not in use, nor to one
\* that has neither a listener nor a pcb nor the remote_close mark
HandleClose ==
    LET m == Head(mailbox)
        s == m.sock
    IN
    /\ Take("CLOSE")
    /\ IF in_use[s] /\ (listen_tcp[s] \/ pcb[s] # "null" \/ remote_close[s])
       THEN CloseDone(s, m.notify, m.own)
       ELSE UNCHANGED <<pcb, own, listen_tcp, remote_close, state, in_use, param, cb>>
    /\ UNCHANGED <<is_tcp, tag, next_socket_index, socket_tag, orphans,
                   ctrlVars, history>>

-----------------------------------------------------------------------------
(* lwIP's callbacks: they name the slot through callback_arg *)

\* net_lwip_tcp_connected_cb
ConnectedCb(s) ==
    /\ cb = NoCb
    /\ pcb[s] = "syn"
    /\ pcb' = [pcb EXCEPT ![s] = "est"]
    /\ Notify(s, "CONNECT_OK", own[s])
    /\ UNCHANGED <<in_use, state, remote_close, is_tcp, tag, param, listen_tcp,
                   next_socket_index, socket_tag, own, mailbox, orphans,
                   ctrlVars, history>>

\* net_lwip_tcp_fast_accept_cb: the new pcb replaces the one the slot has, if lwIP
\* could make one
AcceptCb(s) ==
    /\ cb = NoCb
    /\ listen_tcp[s]
    /\ \/ /\ pcb' = [pcb EXCEPT ![s] = "est"]
          /\ own' = [own EXCEPT ![s] = tag[s]]
          /\ orphans' = IF pcb[s] = "null" THEN orphans
                        ELSE orphans \union {[sock |-> s, own |-> own[s]]}
          /\ overrun' = (overrun \/ pcb[s] # "null")
          /\ Notify(s, "CONNECT_OK", tag[s])
          /\ UNCHANGED remote_close
       \/ /\ TcpError(s, tag[s])
          /\ UNCHANGED <<pcb, own, orphans, overrun>>
    /\ UNCHANGED <<in_use, state, is_tcp, tag, param, listen_tcp,
                   next_socket_index, socket_tag, mailbox, ctrlVars, meddled, crossed>>

\* net_lwip_tcp_recv_cb without a pbuf: the peer has closed its side
FinCb(s, from) ==
    /\ cb = NoCb
    /\ remote_close' = [remote_close EXCEPT ![s] = TRUE]
    /\ Notify(s, "REMOTE_CLOSE", from)
    /\ UNCHANGED <<in_use, state, is_tcp, tag, param, listen_tcp,
                   next_socket_index, socket_tag, own, mailbox, ctrlVars,
                   history>>

\* net_lwip_tcp_err_cb: lwIP has freed the pcb.  A slot that is being closed, or
\* whose peer has closed, is not told
ErrCb(s, from) ==
    /\ cb = NoCb
    /\ pcb' = IF is_tcp[s] THEN [pcb EXCEPT ![s] = "null"] ELSE pcb
    /\ IF state[s] = 0 /\ ~remote_close[s]
       THEN TcpError(s, from)
       ELSE UNCHANGED <<remote_close, cb>>
    /\ UNCHANGED <<in_use, state, is_tcp, tag, param, listen_tcp,
                   next_socket_index, socket_tag, own, mailbox, ctrlVars,
                   history>>

PcbEvent(s) ==
    \/ ConnectedCb(s)
    \/ AcceptCb(s)
    \/ /\ pcb[s] = "est"
       /\ FinCb(s, own[s])
       /\ pcb' = [pcb EXCEPT ![s] = "fin"]
       /\ UNCHANGED orphans
    \/ /\ pcb[s] \in {"syn", "est", "fin"}
       /\ ErrCb(s, own[s])
       /\ UNCHANGED orphans

\* a pcb the slot lost to a second accept still calls back with the slot's number
OrphanEvent(o) ==
    \/ /\ FinCb(o.sock, o.own)
       /\ UNCHANGED <<pcb, orphans>>
    \/ /\ ErrCb(o.sock, o.own)
       /\ orphans' = orphans \ {o}

-----------------------------------------------------------------------------
(* The callback into the network adapter *)

\* network_default_statemachine or the user's callback runs for the ctrl the
\* event was addressed to, once NW_LOCK can be had
CbEnter ==
    /\ cb # NoCb /\ ~cb.run
    /\ pc[Locked(cb.ctrl)] = "idle"
    /\ cb' = [cb EXCEPT !.run = TRUE]
    /\ UNCHANGED <<slotVars, mailbox, orphans, ctrlVars, history>>

\* it returns after any operations it performs on that ctrl
CbReturn ==
    /\ cb.run
    /\ \A o \in Callers : thr[o] = "task"
    /\ cb' = NoCb
    /\ UNCHANGED <<slotVars, mailbox, orphans, ctrlVars, history>>

-----------------------------------------------------------------------------
\* a user of the adapter, or a callback, starts an operation
StartOp(o) ==
    \E t \in Threads :
        \/ o = Locked(Of(o)) /\ (StartCreate(o, t) \/ Disconnect(o, t) \/ Send(o, t))
        \/ Close(o, t)
        \/ ForceClose(o, t)

\* the operation goes on
ContinueOp(o) ==
    \/ RetryCreate(o)
    \/ CreatePost(o)
    \/ OpenCheck(o)
    \/ OpenPost(o)
    \/ CleanScan(o)
    \/ CleanSlot(o)
    \/ CleanDone(o)
    \/ ForceTest(o)
    \/ MarkClosing(o)
    \/ ClosePost(o)
    \/ Drop(o)
    \/ SendPost(o)

HandleMessage == HandleTx \/ HandleCreate \/ HandleConnect \/ HandleListen \/ HandleClose

TcpipStep == HandleMessage \/ CbEnter \/ CbReturn

Next ==
    \/ \E o \in Callers : StartOp(o) \/ ContinueOp(o)
    \/ TcpipStep
    \/ \E s \in Socks : PcbEvent(s)
    \/ \E o \in orphans : OrphanEvent(o)

Spec == Init /\ [][Next]_vars

\* FreeRTOS runs the lwIP thread and the tasks that are ready, and wakes the one
\* that waits for NW_LOCK or for room in the mailbox when it can have it: what has
\* been started goes on, and a callback returns after finitely many operations.
\* The callbacks of lwIP come out of the same queue as the messages and do not keep
\* them waiting for ever.  Nobody has to start an operation, and no peer has to answer.
FairSpec ==
    /\ Spec
    /\ SF_vars(HandleMessage) /\ SF_vars(CbEnter \/ CbReturn)
    /\ \A o \in Callers : SF_vars(ContinueOp(o))
-----------------------------------------------------------------------------
(* Properties *)

\* Every variable of the table and of the ctrls keeps the shape its C field has.
TypeOK ==
    /\ in_use \in [Socks -> BOOLEAN]
    /\ state \in [Socks -> {0, 1}]
    /\ remote_close \in [Socks -> BOOLEAN]
    /\ is_tcp \in [Socks -> BOOLEAN]
    /\ tag \in [Socks -> Nat]
    /\ param \in [Socks -> Ctrls \union {NoCtrl}]
    /\ pcb \in [Socks -> PcbStates]
    /\ listen_tcp \in [Socks -> BOOLEAN]
    /\ own \in [Socks -> Nat]
    /\ next_socket_index \in Socks
    /\ socket_tag \in Nat
    /\ mailbox \in Seq(Message)
    /\ orphans \subseteq [sock : Socks, own : Nat]
    /\ socket_id \in [Ctrls -> Socks \union {-1}]
    /\ ctag \in [Ctrls -> Nat]
    /\ pc \in [Callers -> Steps]
    /\ thr \in [Callers -> Threads]
    /\ mode \in [Callers -> Modes \union {"none"}]
    /\ slot \in [Callers -> Socks]
    /\ todo \in [Callers -> SUBSET Socks]
    /\ cb \in [ctrl : Ctrls \union {NoCtrl}, ev : Events, tag : Nat,
               origin : Nat, run : BOOLEAN]
    /\ meddled \in BOOLEAN
    /\ crossed \in BOOLEAN
    /\ overrun \in BOOLEAN

\* Nobody set about closing a slot made for another, no two calls on one ctrl
\* overlapped, and no listening slot accepted a second peer.  What else is said of
\* behaviours that are not calm has no such premise.
Calm == ~meddled /\ ~crossed /\ ~overrun

\* A socket that passes net_lwip_check_socket for a ctrl is that ctrl's alone: the
\* slot's events go to it, and no other ctrl passes the check on the same slot.
HandleIsExclusive ==
    \A c \in Ctrls : CheckSocket(c) =>
        /\ param[socket_id[c]] = c
        /\ \A d \in Ctrls \ {c} : CheckSocket(d) => socket_id[d] # socket_id[c]

\* Tags identify sockets: a slot in use whose tag a ctrl remembers was made for that
\* ctrl, and the counter has issued every tag in use or remembered.
TagNamesOwner ==
    /\ \A s \in Socks : tag[s] <= socket_tag /\ (in_use[s] => tag[s] # 0)
    /\ \A c \in Ctrls : ctag[c] <= socket_tag
    /\ \A s \in Socks, c \in Ctrls : in_use[s] /\ tag[s] = ctag[c] => param[s] = c

\* A free slot has nothing left of its last socket: net_lwip_create_socket resets
\* neither state nor remote_close nor listen_tcp itself.
FreeSlotIsClean ==
    Calm => \A s \in Socks : ~in_use[s] =>
        pcb[s] = "null" /\ ~listen_tcp[s] /\ state[s] = 0 /\ ~remote_close[s]

\* A request in the mailbox is about the socket it was posted for: its slot has
\* not been freed, let alone given to another ctrl, before the request is
\* handled.
RequestsHitTheirSocket ==
    Calm => \A i \in 1 .. Len(mailbox) :
        in_use[mailbox[i].sock] /\ tag[mailbox[i].sock] = mailbox[i].own

\* A slot that is free has no pcb, the LWIP_ASSERT "socket must free before create"
\* of net_lwip_create_socket, and will get none: no request to make one is left.  It
\* holds however closes of one socket overlap, and whoever else closes it: a CLOSE
\* too many does nothing to a slot whose pcb is not made yet.
FreeSlotHasNoPcb ==
    ~overrun => \A s \in Socks : ~in_use[s] =>
        /\ pcb[s] = "null"
        /\ \A i \in 1 .. Len(mailbox) : mailbox[i].id = "CREATE" => mailbox[i].sock # s

\* A CLOSE request is on its way to the slot, or about to be posted.
ClosingIsUnderWay(s) ==
    \/ \E i \in 1 .. Len(mailbox) : mailbox[i].id = "CLOSE" /\ mailbox[i].sock = s
    \/ \E o \in Callers : pc[o] \in Posts /\ slot[o] = s

\* The pcb died without leaving the remote_close mark: the one way a slot is lost.
Lost(s) == is_tcp[s] /\ pcb[s] = "null" /\ ~listen_tcp[s] /\ ~remote_close[s]

\* An open slot has a holder: the ctrl it was made for has its number, or is just
\* being given it.  A slot nobody holds could never be closed again.
OpenSlotIsHeld ==
    Calm => \A s \in Socks : in_use[s] /\ state[s] = 0 =>
        /\ param[s] \in Ctrls
        /\ ctag[param[s]] = tag[s]
        /\ \/ socket_id[param[s]] = s
           \/ /\ pc[Locked(param[s])] \in {"created", "selflock"}
              /\ slot[Locked(param[s])] = s

\* An event that passes the tag comparison of network_default_socket_callback was
\* caused by a pcb or a request of the socket made under that tag, never by a former
\* user of the slot.  The tag is compared before NW_LOCK is taken: whether the ctrl
\* still has that socket when the event is acted on is not said.
EventFromOwnSocket ==
    Calm /\ cb # NoCb => cb.origin = cb.tag

\* The lwIP thread waits for NW_LOCK, which it holds itself.
SelfLocked == \E o \in Callers : pc[o] = "selflock"

\* The mailbox is full, and the only thread that empties it waits for room in it,
\* or for NW_LOCK, whose holder waits for room.
Posting(o) ==
    \/ pc[o] \in Posts \union {"post_open", "send"}
    \/ pc[o] = "created" /\ thr[o] = "task"

MailboxDeadlock ==
    /\ Len(mailbox) = TCPIP_MBOX_SIZE
    /\ \E o \in Callers : /\ Posting(o)
                          /\ thr[o] = "tcpip" \/ (o = Locked(cb.ctrl) /\ ~cb.run)

\* A slot marked as closing becomes free, unless its pcb died of an error first, one
\* of these two happened, or the behaviour is not calm: another closed the slot, two
\* calls on the ctrl overlapped, or a pcb orphaned by a second accept sets the
\* remote_close of its former slot.
ClosingEnds ==
    \A s \in Socks : in_use[s] /\ state[s] = 1
        ~> ~in_use[s] \/ Lost(s) \/ SelfLocked \/ MailboxDeadlock \/ ~Calm

\* Closing is final: a slot marked as closing keeps its owner and its mark until
\* it is free.
ClosingIsFinal ==
    [][\A s \in Socks : in_use[s] /\ state[s] = 1 =>
          tag'[s] = tag[s] /\ (state'[s] = 1 \/ ~in_use'[s])]_vars

-----------------------------------------------------------------------------
(* What the documentation says and the code does not do *)

\* "The user must receive the close-ok callback to be sure the connection is gone"
\* (net_lwip_socket_disconnect): a slot being closed has its CLOSE request on the
\* way.
CloseIsAnswered ==
    Calm => \A s \in Socks : in_use[s] /\ state[s] = 1 => ClosingIsUnderWay(s)
=============================================================================
